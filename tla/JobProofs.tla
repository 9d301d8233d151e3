------------------------------ MODULE JobProofs ------------------------------
(***************************************************************************)
(* Theorems about jobs.  What a job's submitter is told of the kills on    *)
(* its node (JobSandbox), and that attaching to its output shows the       *)
(* stream OutputStream promises (JobOutputLog).  Of the jobs that train    *)
(* together (DdpShares), for any shares, data, batches and speeds: the     *)
(* lead drops a rank if and only if that pays, and an epoch is cut into    *)
(* whole steps.  The shares' invariant is ShareInv and, of an epoch,       *)
(* PassIs.                                                                 *)
(***************************************************************************)
EXTENDS JobSandbox, JobOutputLog, DdpShares, Recursion

-----------------------------------------------------------------------------
(* The kills that are on record.                                           *)

\* What is left of the kills.
LEMMA OthersKillsAre ==
  ASSUME kills \in Seq(BoxJobs), NEW j
  PROVE  /\ OthersKills(j) \in Seq(BoxJobs)
         /\ Len(OthersKills(j)) <= Len(kills)
         /\ \A k : Contains(OthersKills(j), k) <=> k # j /\ Contains(kills, k)
  <1> DEFINE T == {i \in DOMAIN kills : kills[i] # j}
             f == CHOOSE e : e = [i \in 0..Len(kills) |-> IF i = 0 THEN << >> ELSE
                        IF i \in T THEN Append(e[i - 1], kills[i]) ELSE e[i - 1]]
  <1>1. OthersKills(j) = f[Len(kills)]
    BY DEF OthersKills, Keep
  <1>2. KeepsTo(f, kills, T, Len(kills))
    BY KeptIs
  <1>3. \A i \in 1..Len(kills) : i \in T <=> kills[i] # j
    OBVIOUS
  <1> HIDE DEF f, T
  <1>4. /\ f[Len(kills)] \in Seq(BoxJobs) /\ Len(f[Len(kills)]) <= Len(kills)
        /\ \A k : Contains(f[Len(kills)], k) <=> \E i \in 1..Len(kills) : i \in T /\ kills[i] = k
    BY <1>2, KeptAre
  <1>5. \A k : (\E i \in 1..Len(kills) : i \in T /\ kills[i] = k) <=> k # j /\ Contains(kills, k)
    BY <1>3 DEF Contains
  <1> QED
    BY <1>1, <1>4, <1>5

-----------------------------------------------------------------------------
(* What a job is told of the kills.                                         *)

JobRight(r) ==
    /\ r.alive => r.pc = "run"
    /\ r.pc # "run" => r.pipe = << >> /\ ~r.carry

WatchRight(j) ==
    /\ job[j].told = "watchdog" \/ Contains(kills, j) \/ j \in unrecorded
         => "watchdog" \in job[j].hurt
    /\ "watchdog" \in job[j].hurt
         => \/ Contains(kills, j) \/ j \in unrecorded \cup pushedOut
            \/ job[j].pc \in {"judged", "done"} /\ job[j].told # "none"

CapRight ==
    oomCount > 0 \/ (\E j \in BoxJobs : job[j].told = "cap")
      => \E j \in BoxJobs : "cap" \in job[j].hurt

BoxInv ==
    /\ BoxTypeOK
    /\ \A j \in BoxJobs : JobRight(job[j]) /\ WatchRight(j)
    /\ CapRight

\* A step of one job that writes its record: what the others keep.
LEMMA BoxStepIs ==
  ASSUME BoxInv, NEW j \in BoxJobs, NEW r \in JobType, JobRight(r), Put(j, r)
  PROVE  /\ job' \in [BoxJobs -> JobType]
         /\ \A k \in BoxJobs : JobRight(job'[k])
         /\ \A k \in BoxJobs \ {j} : job'[k] = job[k]
         /\ job'[j] = r
  <1> USE DEF BoxInv, BoxTypeOK
  <1>1. /\ job' \in [BoxJobs -> JobType] /\ job'[j] = r
        /\ \A k \in BoxJobs \ {j} : job'[k] = job[k]
    BY DEF Put
  <1>2. ASSUME NEW k \in BoxJobs PROVE JobRight(job'[k])
    BY <1>1
  <1> QED
    BY <1>1, <1>2

\* A step that writes nothing but a job's record, and neither what killed it
\* nor what it was told.
LEMMA BoxQuietStep ==
  ASSUME BoxInv, NEW j \in BoxJobs, NEW r \in JobType, JobRight(r), Put(j, r),
         UNCHANGED <<canCap, watching, oomCount, kills, unrecorded, pushedOut>>,
         killCount' \in 0..MaxKills,
         r.hurt = job[j].hurt, r.told = job[j].told,
         job[j].pc \in {"judged", "done"} => r.pc \in {"judged", "done"}
  PROVE  BoxInv'
  <1>1. /\ job' \in [BoxJobs -> JobType]
        /\ \A k \in BoxJobs : JobRight(job'[k])
        /\ \A k \in BoxJobs \ {j} : job'[k] = job[k]
        /\ job'[j] = r
    BY BoxStepIs
  <1>2. BoxTypeOK'
    BY <1>1 DEF BoxInv, BoxTypeOK
  <1>3. \A k \in BoxJobs : /\ job'[k].hurt = job[k].hurt /\ job'[k].told = job[k].told
                           /\ job[k].pc \in {"judged", "done"} => job'[k].pc \in {"judged", "done"}
    BY <1>1
  <1>4. \A k \in BoxJobs : WatchRight(k)'
    BY <1>3 DEF BoxInv, WatchRight
  <1>5. CapRight'
    BY <1>3 DEF BoxInv, CapRight
  <1> QED
    BY <1>1, <1>2, <1>4, <1>5 DEF BoxInv

\* A step by which the cap or the watchdog kills a process of a job.
LEMMA BoxHurtStep ==
  ASSUME BoxInv, NEW j \in BoxJobs, NEW r \in JobType, JobRight(r), Put(j, r),
         r.told = job[j].told, r.pc = job[j].pc,
         NEW by \in {"cap", "watchdog"}, r.hurt = job[j].hurt \cup {by},
         UNCHANGED <<canCap, watching, kills, pushedOut>>,
         killCount' \in 0..MaxKills,
         by = "cap" => oomCount' = oomCount + 1 /\ unrecorded' = unrecorded,
         by = "watchdog" => oomCount' = oomCount /\ unrecorded' = {j} /\ unrecorded = {}
  PROVE  BoxInv'
  <1>1. /\ job' \in [BoxJobs -> JobType]
        /\ \A k \in BoxJobs : JobRight(job'[k])
        /\ \A k \in BoxJobs \ {j} : job'[k] = job[k]
        /\ job'[j] = r
    BY BoxStepIs
  <1>2. BoxTypeOK'
    BY <1>1 DEF BoxInv, BoxTypeOK
  <1>3. \A k \in BoxJobs : /\ job'[k].told = job[k].told /\ job'[k].pc = job[k].pc
                           /\ job'[k].hurt = IF k = j THEN job[k].hurt \cup {by} ELSE job[k].hurt
    BY <1>1
  <1>4. ASSUME NEW k \in BoxJobs PROVE WatchRight(k)'
    <2>1. WatchRight(k)
      BY DEF BoxInv
    <2>2. CASE by = "cap"
      <3>1. "watchdog" \in job'[k].hurt <=> "watchdog" \in job[k].hurt
        BY <1>3, <2>2
      <3> QED
        BY <1>3, <2>1, <2>2, <3>1 DEF WatchRight
    <2>3. CASE by = "watchdog" /\ k # j
      BY <1>3, <2>1, <2>3 DEF WatchRight
    <2>4. CASE by = "watchdog" /\ k = j
      <3>1. "watchdog" \in job'[k].hurt /\ k \in unrecorded'
        BY <1>3, <2>4
      <3> QED
        BY <3>1 DEF WatchRight
    <2> QED
      BY <2>2, <2>3, <2>4
  <1>5. CapRight'
    <2>1. CASE by = "cap"
      <3>1. "cap" \in job'[j].hurt
        BY <1>3, <2>1
      <3> QED
        BY <3>1 DEF CapRight
    <2>2. CASE by = "watchdog"
      BY <1>3, <2>2 DEF BoxInv, CapRight
    <2> QED
      BY <2>1, <2>2
  <1> QED
    BY <1>1, <1>2, <1>4, <1>5 DEF BoxInv

\* The kill the watchdog made joins its list, and the oldest may leave it.
LEMMA RecordKillKeeps ==
  ASSUME BoxAssumption, BoxInv, NEW j \in BoxJobs, RecordKill(j)
  PROVE  BoxInv'
  <1> DEFINE full == Len(kills) >= KillsKept
             rest == IF full THEN Tail(kills) ELSE kills
  <1>1. kills \in Seq(BoxJobs) /\ Len(kills) \in Nat /\ Len(kills) <= KillsKept /\ KillsKept \in Nat \ {0}
    BY DEF BoxInv, BoxTypeOK, BoxAssumption
  <1>2. /\ rest \in Seq(BoxJobs) /\ Len(rest) < KillsKept
        /\ \A k : Contains(rest, k) => Contains(kills, k)
        /\ \A k : Contains(kills, k) => Contains(rest, k) \/ (full /\ k = Head(kills))
        /\ full => Head(kills) \in BoxJobs
    <2>1. CASE ~full
      BY <1>1, <2>1
    <2>2. CASE full
      <3>1. kills # << >> /\ Len(kills) >= 1
        BY <1>1, <2>2
      <3>2. /\ Tail(kills) \in Seq(BoxJobs) /\ Len(Tail(kills)) = Len(kills) - 1
            /\ Head(kills) = kills[1] /\ kills[1] \in BoxJobs
            /\ \A i \in 1..Len(kills) - 1 : Tail(kills)[i] = kills[i + 1]
        BY <1>1, <3>1
      <3> DEFINE t == Tail(kills)
      <3> HIDE DEF t
      <3>3. ASSUME NEW k, Contains(t, k) PROVE Contains(kills, k)
        <4>1. PICK i \in 1..Len(t) : t[i] = k
          BY <3>3 DEF Contains
        <4>2. i + 1 \in 1..Len(kills) /\ kills[i + 1] = k
          BY <1>1, <3>2, <4>1 DEF t
        <4> QED
          BY <4>2 DEF Contains
      <3>4. ASSUME NEW k, Contains(kills, k) PROVE Contains(t, k) \/ k = Head(kills)
        <4>1. PICK i \in 1..Len(kills) : kills[i] = k
          BY <3>4 DEF Contains
        <4>2. CASE i = 1
          BY <3>2, <4>1, <4>2
        <4>3. CASE i # 1
          <5>1. i - 1 \in 1..Len(t) /\ t[i - 1] = k
            BY <1>1, <3>2, <4>1, <4>3 DEF t
          <5> QED
            BY <5>1 DEF Contains
        <4> QED
          BY <4>2, <4>3
      <3>5. rest = t
        BY <2>2 DEF t
      <3>6. t \in Seq(BoxJobs) /\ Len(t) < KillsKept
        BY <1>1, <3>2 DEF t
      <3> HIDE DEF rest
      <3> QED
        BY <2>2, <3>2, <3>3, <3>4, <3>5, <3>6
    <2> QED
      BY <2>1, <2>2
  <1>3. /\ j \in unrecorded /\ unrecorded' = unrecorded \ {j}
        /\ kills' = Append(rest, j)
        /\ pushedOut' = IF full THEN pushedOut \cup {Head(kills)} ELSE pushedOut
        /\ UNCHANGED <<canCap, watching, job, oomCount, killCount>>
    BY DEF RecordKill
  <1> HIDE DEF rest
  <1>4. /\ kills' \in Seq(BoxJobs) /\ Len(kills') = Len(rest) + 1
        /\ \A k : Contains(kills', k) <=> Contains(rest, k) \/ k = j
    BY <1>2, <1>3, AppendIs
  <1>5. Len(kills') <= KillsKept
    <2>1. Len(rest) \in Nat
      BY <1>2
    <2> QED
      BY <1>1, <1>2, <1>4, <2>1
  <1> HIDE DEF full
  <1>6. BoxTypeOK'
    BY <1>2, <1>3, <1>4, <1>5 DEF BoxInv, BoxTypeOK
  <1>7. ASSUME NEW k \in BoxJobs PROVE WatchRight(k)'
    <2>1. WatchRight(k) /\ WatchRight(j)
      BY DEF BoxInv
    <2>2. Contains(kills', k) \/ k \in unrecorded' => "watchdog" \in job[k].hurt
      BY <1>2, <1>3, <1>4, <2>1 DEF WatchRight
    <2>3. Contains(kills, k) \/ k \in unrecorded \cup pushedOut
             => Contains(kills', k) \/ k \in unrecorded' \cup pushedOut'
      BY <1>2, <1>3, <1>4
    <2> QED
      BY <1>3, <2>1, <2>2, <2>3 DEF WatchRight
  <1>8. CapRight'
    BY <1>3 DEF BoxInv, CapRight
  <1> QED
    BY <1>3, <1>6, <1>7, <1>8 DEF BoxInv

\* What the job is told agrees with the kills, and its own are forgotten.
LEMMA JudgeKeeps ==
  ASSUME BoxInv, NEW j \in BoxJobs, Judge(j)
  PROVE  BoxInv'
  <1> DEFINE byCap == job[j].code = "killed" /\ job[j].capped /\ ~job[j].cancel /\ oomCount > job[j].before
             take == job[j].code # "zero" /\ ~job[j].cancel /\ Own(j)
             told == IF byCap THEN "cap" ELSE IF take THEN "watchdog" ELSE "none"
             r == [job[j] EXCEPT !.pc = "judged", !.told = told]
  <1>0. BoxTypeOK /\ job[j] \in JobType /\ JobRight(job[j]) /\ WatchRight(j) /\ oomCount \in Nat
    BY DEF BoxInv, BoxTypeOK
  <1>1. /\ job[j].pc = "exited" /\ Put(j, r)
        /\ kills' = IF take THEN OthersKills(j) ELSE kills
        /\ UNCHANGED <<canCap, watching, oomCount, unrecorded, pushedOut, killCount>>
    BY DEF Judge
  <1>2. /\ told \in {"none", "cap", "watchdog"} /\ (told = "watchdog" => take)
        /\ (told = "cap" => byCap) /\ (take => told # "none")
    OBVIOUS
  <1>3. take => Contains(kills, j)
    BY DEF Own
  <1>4. byCap => oomCount > 0
    BY <1>0 DEF JobType
  <1> HIDE DEF told, take, byCap
  <1>5. r \in JobType /\ r.pc = "judged" /\ r.told = told /\ r.hurt = job[j].hurt
    BY <1>0, <1>2 DEF JobType
  <1>6. JobRight(r)
    BY <1>0, <1>1, <1>5 DEF JobRight, JobType
  <1> HIDE DEF r
  <1>7. /\ job' \in [BoxJobs -> JobType]
        /\ \A k \in BoxJobs : JobRight(job'[k])
        /\ \A k \in BoxJobs \ {j} : job'[k] = job[k]
        /\ job'[j] = r
    BY <1>1, <1>5, <1>6, BoxStepIs
  <1>8. /\ kills' \in Seq(BoxJobs) /\ Len(kills') <= Len(kills)
        /\ \A k : Contains(kills', k) <=> Contains(kills, k) /\ ~(take /\ k = j)
    <2>1. kills \in Seq(BoxJobs) /\ Len(kills) \in Nat
      BY <1>0 DEF BoxTypeOK
    <2>2. CASE take
      BY <1>1, <2>1, <2>2, OthersKillsAre
    <2>3. CASE ~take
      BY <1>1, <2>1, <2>3
    <2> QED
      BY <2>2, <2>3
  <1>9. BoxTypeOK'
    <2>1. Len(kills') <= KillsKept
      <3>1. Len(kills') \in Nat /\ Len(kills) \in Nat /\ Len(kills) <= KillsKept /\ KillsKept \in Nat
        BY <1>0, <1>8, BoxAssumption DEF BoxTypeOK, BoxAssumption
      <3> QED
        BY <1>8, <3>1
    <2> QED
      BY <1>0, <1>1, <1>7, <1>8, <2>1 DEF BoxTypeOK
  <1>10. ASSUME NEW k \in BoxJobs PROVE WatchRight(k)'
    <2>1. CASE k = j
      <3>1. Contains(kills, j) \/ j \in unrecorded => "watchdog" \in job[j].hurt
        BY <1>0 DEF WatchRight
      <3>2. "watchdog" \in job[j].hurt => Contains(kills, j) \/ j \in unrecorded \cup pushedOut
        BY <1>0, <1>1 DEF WatchRight
      <3> QED
        BY <1>1, <1>2, <1>3, <1>5, <1>7, <1>8, <2>1, <3>1, <3>2 DEF WatchRight
    <2>2. CASE k # j
      <3>1. WatchRight(k) /\ job'[k] = job[k]
        BY <1>7, <2>2 DEF BoxInv
      <3> QED
        BY <1>1, <1>8, <2>2, <3>1 DEF WatchRight
    <2> QED
      BY <2>1, <2>2
  <1>11. CapRight'
    <2>1. \A k \in BoxJobs : job'[k].hurt = job[k].hurt
      BY <1>5, <1>7
    <2>2. \A k \in BoxJobs : job'[k].told = "cap" => job[k].told = "cap" \/ oomCount > 0
      BY <1>2, <1>4, <1>5, <1>7
    <2> QED
      BY <1>1, <2>1, <2>2 DEF BoxInv, CapRight
  <1> QED
    BY <1>7, <1>9, <1>10, <1>11 DEF BoxInv

\* The jobs' handlers: all but the verdict leave the books alone.
LEMMA HandlerKeeps ==
  ASSUME BoxInv, NEW j \in BoxJobs, HandlerStep(j) \/ StrayEnds(j) \/ CancelJob(j) \/ Supervise(j)
                                      \/ (\E b \in {"ascii", "lead", "tail"} : PrintByte(j, b))
                                      \/ ExitsItself(j) \/ KilledByOther(j)
  PROVE  BoxInv'
  <1> DEFINE o == job[j]
             Same(r) == r.hurt = o.hurt /\ r.told = o.told
                        /\ (o.pc \in {"judged", "done"} => r.pc \in {"judged", "done"})
  <1>0. /\ BoxTypeOK /\ o \in JobType /\ JobRight(o) /\ oomCount \in Nat /\ killCount \in 0..MaxKills
        /\ MaxKills \in Nat /\ MaxBytes \in Nat
    BY BoxAssumption DEF BoxInv, BoxTypeOK, BoxAssumption
  <1>1. ASSUME NEW r \in JobType, JobRight(r), Put(j, r), UNCHANGED Shared, Same(r) PROVE BoxInv'
    <2>1. killCount' \in 0..MaxKills
      BY <1>0, <1>1 DEF Shared
    <2> QED
      BY <1>1, <2>1, BoxQuietStep DEF Shared
  <1>2. CASE Import(j)
    <2>1. PICK r \in {[o EXCEPT !.pc = "setup"], [o EXCEPT !.pc = "judged", !.code = "error"]} : Put(j, r)
      BY <1>2 DEF Import
    <2>2. r \in JobType /\ JobRight(r) /\ Same(r)
      BY <1>0, <1>2, <2>1 DEF Import, JobType, JobRight
    <2> QED
      BY <1>1, <1>2, <2>1, <2>2 DEF Import
  <1>3. CASE Setup(j)
    <2>1. PICK r \in {[o EXCEPT !.pc = "start", !.before = oomCount, !.capped = TRUE],
                      [o EXCEPT !.pc = "start"], [o EXCEPT !.pc = "judged", !.code = "error"]} : Put(j, r)
      BY <1>3 DEF Setup
    <2>2. r \in JobType /\ JobRight(r) /\ Same(r)
      BY ZenonT(60), <1>0, <1>3, <2>1 DEF Setup, JobType, JobRight
    <2> QED
      BY <1>1, <1>3, <2>1, <2>2 DEF Setup
  <1>4. CASE StartJob(j)
    <2>1. PICK r \in {[o EXCEPT !.pc = "run", !.alive = TRUE], [o EXCEPT !.pc = "judged", !.code = "error"]} : Put(j, r)
      BY <1>4 DEF StartJob
    <2>2. r \in JobType /\ JobRight(r) /\ Same(r)
      BY <1>0, <1>4, <2>1 DEF StartJob, JobType, JobRight
    <2> QED
      BY <1>1, <1>4, <2>1, <2>2 DEF StartJob
  <1>5. CASE ReadOutput(j)
    <2> DEFINE got(n) == (IF o.carry THEN <<"lead">> ELSE << >>) \o SubSeq(o.pipe, 1, n)
    <2>1. PICK n \in 1..Len(o.pipe) :
               Put(j, [o EXCEPT !.pipe = SubSeq(o.pipe, n + 1, Len(o.pipe)),
                                !.carry = (CompleteUTF8(got(n)) < Len(got(n)))])
      BY <1>5 DEF ReadOutput
    <2> DEFINE c == CompleteUTF8(got(n)) < Len(got(n))
    <2>a. c \in BOOLEAN
      OBVIOUS
    <2> HIDE DEF c
    <2>b. Put(j, [o EXCEPT !.pipe = SubSeq(o.pipe, n + 1, Len(o.pipe)), !.carry = c])
      BY <2>1 DEF c
    <2> DEFINE r == [o EXCEPT !.pipe = SubSeq(o.pipe, n + 1, Len(o.pipe)), !.carry = c]
    <2>2. SubSeq(o.pipe, n + 1, Len(o.pipe)) \in Seq({"ascii", "lead", "tail"})
      BY <1>0 DEF JobType
    <2>3. r \in JobType /\ JobRight(r) /\ Same(r)
      BY <1>0, <1>5, <2>2, <2>a DEF ReadOutput, JobType, JobRight
    <2> QED
      BY <1>1, <1>5, <2>b, <2>3 DEF ReadOutput
  <1>6. CASE WaitJob(j)
    <2> DEFINE r == [o EXCEPT !.pc = "exited", !.carry = FALSE, !.signal = "none"]
    <2>1. r \in JobType /\ JobRight(r) /\ Same(r)
      BY <1>0, <1>6 DEF WaitJob, JobType, JobRight
    <2> QED
      BY <1>1, <1>6, <2>1 DEF WaitJob
  <1>7. CASE Judge(j)
    BY <1>7, JudgeKeeps
  <1>8. CASE FinishJob(j)
    <2> DEFINE r == [o EXCEPT !.pc = "done", !.before = 0, !.capped = FALSE, !.stray = FALSE]
    <2>1. r \in JobType /\ JobRight(r) /\ Same(r)
      BY <1>0, <1>8 DEF FinishJob, JobType, JobRight
    <2> QED
      BY <1>1, <1>8, <2>1 DEF FinishJob
  <1>9. CASE StrayEnds(j)
    <2> DEFINE r == [o EXCEPT !.stray = FALSE]
    <2>1. r \in JobType /\ JobRight(r) /\ Same(r)
      BY <1>0, <1>9 DEF JobType, JobRight
    <2> QED
      BY <1>1, <1>9, <2>1 DEF StrayEnds
  <1>10. CASE CancelJob(j)
    <2> DEFINE r == [o EXCEPT !.cancel = TRUE]
    <2>1. r \in JobType /\ JobRight(r) /\ Same(r)
      BY <1>0, <1>10 DEF JobType, JobRight
    <2> QED
      BY <1>1, <1>10, <2>1 DEF CancelJob
  <1>11. ASSUME NEW s \in {"none", "term", "kill"}, NEW c \in {"zero", "error", "killed"}, NEW t \in BOOLEAN,
                NEW k \in 0..MaxKills, killCount' = k, o.pc = "run",
                UNCHANGED <<canCap, watching, oomCount, kills, unrecorded, pushedOut>>,
                Put(j, [o EXCEPT !.signal = s, !.alive = FALSE, !.code = c, !.stray = t])
         PROVE  BoxInv'
    <2> DEFINE r == [o EXCEPT !.signal = s, !.alive = FALSE, !.code = c, !.stray = t]
    <2>a. c \in {"none", "zero", "error", "killed"} /\ o.pc # "done" /\ o.pc # "judged"
      BY <1>11
    <2>b. r \in JobType
      BY <1>0, <2>a DEF JobType
    <2>1. r \in JobType /\ JobRight(r) /\ Same(r)
      BY <1>0, <1>11, <2>a, <2>b DEF JobType, JobRight
    <2> HIDE DEF r
    <2>2. Put(j, r)
      BY <1>11 DEF r
    <2> QED
      BY <1>11, <2>1, <2>2, BoxQuietStep
  <1>12. ASSUME NEW s \in {"none", "term", "kill"}, NEW C \in SUBSET {"zero", "error", "killed"},
                Dies(j, [o EXCEPT !.signal = s], C)
         PROVE  \E c \in C, t \in BOOLEAN :
                   Put(j, [o EXCEPT !.signal = s, !.alive = FALSE, !.code = c, !.stray = t])
    <2> DEFINE q == [o EXCEPT !.signal = s]
    <2>1. q \in JobType
      BY <1>0 DEF JobType
    <2> HIDE DEF q
    <2>a. Dies(j, q, C)
      BY <1>12 DEF q
    <2>b. PICK c \in C : \E d \in Dead(q, c) : Put(j, d)
      BY <2>a DEF Dies
    <2>2. PICK t \in {FALSE, ~q.capped} : Put(j, [q EXCEPT !.alive = FALSE, !.code = c, !.stray = t])
      BY <2>b DEF Dead
    <2>3. t \in BOOLEAN
      BY <2>1 DEF JobType
    <2>4. [q EXCEPT !.alive = FALSE, !.code = c, !.stray = t]
             = [o EXCEPT !.signal = s, !.alive = FALSE, !.code = c, !.stray = t]
      BY <1>0 DEF JobType, q
    <2> QED
      BY <2>2, <2>3, <2>4
  <1>13. o = [o EXCEPT !.signal = o.signal] /\ o.signal \in {"none", "term", "kill"} /\ (o.alive => o.pc = "run")
    BY <1>0 DEF JobType, JobRight
  <1>14. CASE ExitsItself(j)
    <2>s. PICK sg \in {"none", "term", "kill"} : sg = o.signal
      BY <1>13
    <2>0. Dies(j, [o EXCEPT !.signal = o.signal], {"zero", "error"})
      BY <1>13, <1>14 DEF ExitsItself
    <2>a. Dies(j, [o EXCEPT !.signal = sg], {"zero", "error"})
      BY <2>s, <2>0
    <2>b. {"zero", "error"} \in SUBSET {"zero", "error", "killed"}
      OBVIOUS
    <2>1. PICK c \in {"zero", "error"}, t \in BOOLEAN :
             Put(j, [o EXCEPT !.signal = sg, !.alive = FALSE, !.code = c, !.stray = t])
      BY <1>12, <2>a, <2>b
    <2> QED
      BY <1>0, <1>11, <1>13, <1>14, <2>1 DEF ExitsItself, Shared
  <1>15. CASE KilledByOther(j)
    <2>s. PICK sg \in {"none", "term", "kill"} : sg = o.signal
      BY <1>13
    <2>0. Dies(j, [o EXCEPT !.signal = o.signal], {"killed"})
      BY <1>13, <1>15 DEF KilledByOther
    <2>a. Dies(j, [o EXCEPT !.signal = sg], {"killed"})
      BY <2>s, <2>0
    <2>b. {"killed"} \in SUBSET {"zero", "error", "killed"}
      OBVIOUS
    <2>1. PICK c \in {"killed"}, t \in BOOLEAN :
             Put(j, [o EXCEPT !.signal = sg, !.alive = FALSE, !.code = c, !.stray = t])
      BY <1>12, <2>a, <2>b
    <2>2. killCount + 1 \in 0..MaxKills
      BY <1>0, <1>15 DEF KilledByOther
    <2> QED
      BY <1>11, <1>13, <1>15, <2>1, <2>2 DEF KilledByOther
  <1>16. CASE Supervise(j)
    <2>1. ASSUME NEW s \in {"term", "kill"}, Put(j, [o EXCEPT !.signal = s]) PROVE BoxInv'
      <3> DEFINE r == [o EXCEPT !.signal = s]
      <3>1. r \in JobType /\ JobRight(r) /\ Same(r)
        BY <1>0 DEF JobType, JobRight
      <3> QED
        BY <1>1, <1>16, <2>1, <3>1 DEF Supervise
    <2>2. ASSUME NEW s \in {"term", "kill"}, o.alive, NEW C \in SUBSET {"zero", "error", "killed"},
                 Dies(j, [o EXCEPT !.signal = s], C)
          PROVE  BoxInv'
      <3>1. PICK c \in C, t \in BOOLEAN :
               Put(j, [o EXCEPT !.signal = s, !.alive = FALSE, !.code = c, !.stray = t])
        BY <1>12, <2>2
      <3> QED
        BY <1>0, <1>11, <1>13, <1>16, <2>2, <3>1 DEF Supervise, Shared
    <2>3. \/ \E s \in {"term", "kill"} : Put(j, [o EXCEPT !.signal = s])
          \/ o.alive /\ Dies(j, [o EXCEPT !.signal = "term"], {"zero", "error"})
          \/ o.alive /\ Dies(j, [o EXCEPT !.signal = "kill"], {"killed"})
      BY <1>16 DEF Supervise
    <2> QED
      BY <2>1, <2>2, <2>3
  <1>17. ASSUME NEW b \in {"ascii", "lead", "tail"}, PrintByte(j, b) PROVE BoxInv'
    <2> DEFINE r == [o EXCEPT !.pipe = Append(o.pipe, b), !.printed = o.printed + 1, !.split = (b = "lead")]
    <2>1. Append(o.pipe, b) \in Seq({"ascii", "lead", "tail"}) /\ o.printed + 1 \in 0..MaxBytes
      BY <1>0, <1>17 DEF PrintByte, JobType
    <2>2. (b = "lead") \in BOOLEAN
      OBVIOUS
    <2>3. r \in JobType /\ JobRight(r) /\ Same(r)
      BY <1>0, <1>13, <1>17, <2>1, <2>2 DEF PrintByte, JobType, JobRight
    <2>4. Put(j, r) /\ UNCHANGED Shared
      BY <1>17 DEF PrintByte
    <2> QED
      BY <1>1, <2>3, <2>4
  <1> QED
    BY <1>2, <1>3, <1>4, <1>5, <1>6, <1>7, <1>8, <1>9, <1>10, <1>14, <1>15, <1>16, <1>17 DEF HandlerStep

\* The kills of the cap and of the watchdog.
LEMMA HurtKeeps ==
  ASSUME BoxInv, NEW j \in BoxJobs, CapKill(j) \/ WatchdogKill(j)
  PROVE  BoxInv'
  <1> DEFINE o == job[j]
  <1>0. /\ BoxTypeOK /\ o \in JobType /\ JobRight(o) /\ killCount \in 0..MaxKills /\ MaxKills \in Nat
    BY BoxAssumption DEF BoxInv, BoxTypeOK, BoxAssumption
  <1>1. o.alive /\ o.pc = "run" /\ killCount < MaxKills /\ killCount' = killCount + 1 /\ killCount' \in 0..MaxKills
    BY <1>0 DEF CapKill, WatchdogKill, JobRight
  <1>2. ASSUME NEW by \in {"cap", "watchdog"},
               Put(j, [o EXCEPT !.hurt = o.hurt \cup {by}])
                 \/ Dies(j, [o EXCEPT !.hurt = o.hurt \cup {by}], {"error", "killed"})
        PROVE  \E r \in JobType : /\ Put(j, r) /\ JobRight(r) /\ r.told = o.told /\ r.pc = o.pc
                                  /\ r.hurt = o.hurt \cup {by}
    <2> DEFINE q == [o EXCEPT !.hurt = o.hurt \cup {by}]
    <2>1. q \in JobType /\ q.told = o.told /\ q.pc = o.pc /\ q.hurt = o.hurt \cup {by} /\ JobRight(q)
      BY <1>0, <1>1 DEF JobType, JobRight
    <2> HIDE DEF q
    <2>2. CASE Put(j, q)
      BY <2>1, <2>2
    <2>3. CASE Dies(j, q, {"error", "killed"})
      <3>1. PICK c \in {"error", "killed"}, t \in {FALSE, ~q.capped} :
                 Put(j, [q EXCEPT !.alive = FALSE, !.code = c, !.stray = t])
        BY <2>3 DEF Dies, Dead
      <3>2. t \in BOOLEAN
        BY <2>1 DEF JobType
      <3> DEFINE r == [q EXCEPT !.alive = FALSE, !.code = c, !.stray = t]
      <3>3. r \in JobType /\ r.told = q.told /\ r.pc = q.pc /\ r.hurt = q.hurt
        BY <2>1, <3>2 DEF JobType
      <3>4. JobRight(r)
        BY <1>1, <2>1 DEF JobRight, JobType
      <3> HIDE DEF r
      <3>5. Put(j, r)
        BY <3>1 DEF r
      <3> QED
        BY <2>1, <3>3, <3>4, <3>5
    <2>4. Put(j, q) \/ Dies(j, q, {"error", "killed"})
      BY <1>2 DEF q
    <2> QED
      BY <2>2, <2>3, <2>4
  <1>3. CASE CapKill(j)
    <2>1. /\ oomCount' = oomCount + 1
          /\ UNCHANGED <<canCap, watching, kills, unrecorded, pushedOut>>
          /\ Put(j, [o EXCEPT !.hurt = o.hurt \cup {"cap"}])
               \/ Dies(j, [o EXCEPT !.hurt = o.hurt \cup {"cap"}], {"error", "killed"})
      BY <1>3 DEF CapKill
    <2>2. PICK r \in JobType : /\ Put(j, r) /\ JobRight(r) /\ r.told = o.told /\ r.pc = o.pc
                               /\ r.hurt = o.hurt \cup {"cap"}
      BY <1>2, <2>1
    <2> QED
      BY <1>1, <2>1, <2>2, BoxHurtStep
  <1>4. CASE WatchdogKill(j)
    <2>1. /\ unrecorded = {} /\ unrecorded' = {j}
          /\ UNCHANGED <<canCap, watching, oomCount, kills, pushedOut>>
          /\ Put(j, [o EXCEPT !.hurt = o.hurt \cup {"watchdog"}])
               \/ Dies(j, [o EXCEPT !.hurt = o.hurt \cup {"watchdog"}], {"error", "killed"})
      BY <1>4 DEF WatchdogKill
    <2>2. PICK r \in JobType : /\ Put(j, r) /\ JobRight(r) /\ r.told = o.told /\ r.pc = o.pc
                               /\ r.hurt = o.hurt \cup {"watchdog"}
      BY <1>2, <2>1
    <2> QED
      BY <1>1, <2>1, <2>2, BoxHurtStep
  <1> QED
    BY <1>3, <1>4

\* The memory ceiling, for every amount asked for, approved and free.
LEMMA CeilingGranted == GrantIsRight
  <1> SUFFICES ASSUME NEW asked \in 0..MaxMem, NEW leased \in 0..MaxMem, NEW spare \in 0..MaxMem
               PROVE  /\ Grantable(asked, leased, spare) <= asked
                      /\ leased > 0 => Grantable(asked, leased, spare) >= IF leased < asked THEN leased ELSE asked
                      /\ Grantable(asked, leased, spare) > spare
                           => Grantable(asked, leased, spare) <= leased
                              \/ (leased = 0 /\ Grantable(asked, leased, spare) = asked \div 2)
    BY DEF GrantIsRight
  <1>1. asked \in Nat /\ leased \in Nat /\ spare \in Nat
    BY BoxAssumption DEF BoxAssumption
  <1> DEFINE half == asked \div 2
  <1>2. half \in Nat /\ half <= asked
    BY <1>1
  <1> HIDE DEF half
  <1>3. Grantable(asked, leased, spare) =
          LET admitted == IF leased > 0 THEN leased ELSE half
              granted == IF spare < admitted THEN admitted ELSE spare
          IN IF asked = 0 \/ spare >= asked \/ granted >= asked THEN asked ELSE granted
    BY DEF Grantable, half
  <1>4. CASE asked = 0 \/ spare >= asked
    BY <1>1, <1>2, <1>3, <1>4
  <1>5. CASE ~(asked = 0 \/ spare >= asked) /\ leased > 0
    BY <1>1, <1>2, <1>3, <1>5
  <1>6. CASE ~(asked = 0 \/ spare >= asked) /\ leased = 0
    BY <1>1, <1>2, <1>3, <1>6 DEF half
  <1> QED
    BY <1>1, <1>4, <1>5, <1>6

\* finish and TakeWatchdogKill (execrun.go, cgroups/watchdog.go): a job is told
\* that the cap or the watchdog killed it only if that is so, and is told so when
\* it is, with the exceptions ToldIsTrue names; its output is sent whole.
THEOREM JobIsToldTrue == BoxSpec => []ToldIsTrue
  <1>1. BoxInit => BoxInv
    <2> SUFFICES ASSUME BoxInit PROVE BoxInv
      OBVIOUS
    <2>0. MaxBytes \in Nat /\ MaxKills \in Nat /\ KillsKept \in Nat
      BY BoxAssumption DEF BoxAssumption
    <2>1. << >> \in Seq({"ascii", "lead", "tail"}) /\ << >> \in Seq(BoxJobs) /\ Len(<< >>) = 0
      OBVIOUS
    <2> DEFINE nj == NewJob
    <2>2. /\ nj \in JobType /\ JobRight(nj) /\ nj.told = "none" /\ nj.hurt = {}
      BY <2>0, <2>1 DEF NewJob, JobType, JobRight
    <2>3. [nj EXCEPT !.pc = "setup", !.printed = MaxBytes] \in JobType
      <3>1. MaxBytes \in 0..MaxBytes
        BY <2>0
      <3> HIDE DEF nj
      <3> QED
        BY <2>2, <3>1 DEF JobType
    <2>4. [nj EXCEPT !.pc = "done"] \in JobType
      BY <2>2 DEF JobType
    <2>5. \A j \in BoxJobs : \/ job[j] = nj \/ job[j] = [nj EXCEPT !.pc = "done"]
                             \/ job[j] = [nj EXCEPT !.pc = "setup", !.printed = MaxBytes]
      BY DEF BoxInit
    <2>6. \E f : job = [j \in BoxJobs |-> f[j]]
      BY DEF BoxInit
    <2>7. ASSUME NEW j \in BoxJobs
          PROVE  job[j] \in JobType /\ JobRight(job[j]) /\ job[j].told = "none" /\ job[j].hurt = {}
      <3>1. CASE job[j] = nj
        BY <2>2, <3>1
      <3>2. CASE job[j] = [nj EXCEPT !.pc = "done"]
        BY <2>2, <2>4, <3>2 DEF JobType, JobRight, NewJob
      <3>3. CASE job[j] = [nj EXCEPT !.pc = "setup", !.printed = MaxBytes]
        BY <2>2, <2>3, <3>3 DEF JobType, JobRight, NewJob
      <3> QED
        BY <2>5, <3>1, <3>2, <3>3
    <2>8. job \in [BoxJobs -> JobType]
      BY <2>6, <2>7
    <2>9. BoxTypeOK
      BY <2>0, <2>1, <2>8 DEF BoxInit, BoxTypeOK
    <2>10. \A k : ~Contains(kills, k)
      BY DEF BoxInit, Contains
    <2> QED
      BY <2>7, <2>9, <2>10 DEF BoxInit, BoxInv, WatchRight, CapRight
  <1>2. BoxInv /\ [BoxNext \/ BoxOver]_boxVars => BoxInv'
    <2> SUFFICES ASSUME BoxInv, [BoxNext \/ BoxOver]_boxVars PROVE BoxInv'
      OBVIOUS
    <2>1. CASE UNCHANGED boxVars
      BY <2>1 DEF boxVars, BoxInv, BoxTypeOK, WatchRight, CapRight
    <2>2. ASSUME NEW j \in BoxJobs, RecordKill(j) PROVE BoxInv'
      BY <2>2, BoxAssumption, RecordKillKeeps
    <2> QED
      BY <2>1, <2>2, HandlerKeeps, HurtKeeps DEF BoxNext, BoxOver
  <1>3. BoxInv => ToldIsTrue
    <2> SUFFICES ASSUME BoxInv PROVE ToldIsTrue
      OBVIOUS
    <2>1. ASSUME NEW j \in BoxJobs
          PROVE  LET r == job[j] IN
         /\ r.told = "cap" => \E k \in BoxJobs : "cap" \in job[k].hurt
         /\ r.told = "watchdog" => "watchdog" \in r.hurt
         /\ r.pc = "done" /\ "watchdog" \in r.hurt /\ r.code # "zero" /\ ~r.cancel /\ r.told = "none"
              => Contains(kills, j) \/ j \in unrecorded \cup pushedOut
         /\ r.pc \in {"exited", "judged", "done"} => r.pipe = << >> /\ ~r.carry
      BY DEF BoxInv, JobRight, WatchRight, CapRight
    <2> QED
      BY <2>1, CeilingGranted DEF BoxInv, ToldIsTrue
  <1> QED
    BY <1>1, <1>2, <1>3, PTL DEF BoxSpec
-----------------------------------------------------------------------------
(* The output log and its attachers, as long as no write has failed.        *)

\* Of n frames, the last of them the done frame if over: a line that is no note
\* is one of these, and the done frame if it is the last.
LineRight(m, n, over) ==
    /\ m.kind \in {"out", "done"} /\ m.seq <= n
    /\ m.kind = "done" <=> over /\ m.seq = n

\* The file holds the newest frames, behind a note when some were trimmed.
FileInv ==
    /\ ~torn /\ Len(file) <= seq
    /\ file = << >> => seq = 0 /\ ~done
    /\ \A i \in DOMAIN file :
         /\ file[i].seq = seq - Len(file) + i
         /\ LineRight(file[i], seq, done) \/ (i = 1 /\ file[i].kind = "note")
    /\ file # << >> /\ file[1].kind = "note" => Len(file) > 1
    /\ file # << >> /\ file[1].kind # "note" => file[1].seq = 1

\* The number an attacher has been shown once it has sent what it read.
ReadTo(a) == IF past[a] = << >> THEN shown[a].seq ELSE past[a][Len(past[a])].seq

\* What it read from the file goes on where it was shown frames, or a note
\* stands for what is between.
PastInv(a) ==
    /\ \A i \in DOMAIN past[a] :
         /\ past[a][i].seq = ReadTo(a) - Len(past[a]) + i
         /\ LineRight(past[a][i], seq, done) \/ (i = 1 /\ past[a][i].kind = "note")
    /\ past[a] # << >> /\ past[a][1].kind = "note" => past[a][1].seq \in shown[a].seq + 1 .. seq - 1
    /\ past[a] # << >> /\ past[a][1].kind # "note" => past[a][1].seq = shown[a].seq + 1

\* And what is in its channel goes on where it read to.
ChanInv(a) ==
    /\ \A i \in DOMAIN chan[a].buf : chan[a].buf[i].seq = ReadTo(a) + i /\ LineRight(chan[a].buf[i], seq, done)
    /\ chan[a].open => ~done /\ ReadTo(a) + Len(chan[a].buf) = seq

ReaderInv(a) ==
    /\ pc[a] \in {"follow", "replay", "replaysub", "live"} =>
         shown[a].kind \in {"start", "out", "note"} /\ shown[a].seq <= seq
    /\ pc[a] \in {"replay", "replaysub"} => PastInv(a)
    /\ pc[a] = "live" => past[a] = << >>
    /\ pc[a] \in {"replaysub", "live"} => ChanInv(a)
    /\ pc[a] \notin {"replaysub", "live"} => ~chan[a].open

Sound == TypeOK /\ FileInv /\ \A a \in Attacher : ReaderInv(a)

LogInv ==
    /\ failures \in Nat
    /\ failures = 0 => Sound

\* q is s from its k+1st element to its n-th.
IsPart(q, S, s, k, n) ==
    q \in Seq(S) /\ Len(q) = n - k /\ \A i \in 1..n - k : q[i] = s[k + i]

\* A part of a sequence with the next element is a part.
LEMMA PartGrows ==
  ASSUME NEW S, NEW s \in Seq(S), NEW k \in Nat, NEW n \in Nat, k <= n, n + 1 <= Len(s),
         NEW q, IsPart(q, S, s, k, n)
  PROVE  IsPart(Append(q, s[n + 1]), S, s, k, n + 1)
  <1>1. s[n + 1] \in S
    OBVIOUS
  <1>2. q \in Seq(S) /\ Len(q) = n - k /\ \A i \in 1..n - k : q[i] = s[k + i]
    BY DEF IsPart
  <1> DEFINE t == Append(q, s[n + 1])
  <1>3. /\ t \in Seq(S) /\ Len(t) = n - k + 1
        /\ t[n - k + 1] = s[n + 1] /\ \A i \in 1..n - k : t[i] = q[i]
    <2>1. /\ t \in Seq(S) /\ Len(t) = Len(q) + 1
          /\ t[Len(q) + 1] = s[n + 1] /\ \A i \in 1..Len(q) : t[i] = q[i]
      <3>1. q \in Seq(S)
        BY <1>2
      <3> QED
        BY <1>1, <3>1
    <2> HIDE DEF t
    <2> QED
      BY <1>2, <2>1
  <1> HIDE DEF t
  <1>4. ASSUME NEW i \in 1..n + 1 - k PROVE t[i] = s[k + i]
    <2>1. CASE i = n - k + 1
      <3>1. k + i = n + 1
        BY <2>1
      <3> QED
        BY <1>3, <2>1, <3>1
    <2>2. CASE i # n - k + 1
      <3>1. i \in 1..n - k
        BY <2>2
      <3> QED
        BY <1>2, <1>3, <3>1
    <2> QED
      BY <2>1, <2>2
  <1>5. Len(t) = n + 1 - k
    BY <1>3
  <1> QED
    BY <1>3, <1>4, <1>5 DEF IsPart, t

\* The frames numbered above x of a file whose lines are numbered from c + 1.
LEMMA ReadAfterIs ==
  ASSUME NEW s \in Seq(Frame), NEW c \in Nat, \A i \in 1..Len(s) : s[i].seq = c + i,
         NEW x \in Nat, NEW k \in 0..Len(s), k = IF x < c THEN 0 ELSE x - c
  PROVE  IsPart(ReadAfter(s, x), Frame, s, k, Len(s))
  <1> DEFINE T == {i \in DOMAIN s : s[i].seq > x}
             f == CHOOSE e : e = [i \in 0..Len(s) |-> IF i = 0 THEN << >> ELSE
                        IF i \in T THEN Append(e[i - 1], s[i]) ELSE e[i - 1]]
  <1>1. Len(s) \in Nat /\ DOMAIN s = 1..Len(s) /\ k \in Nat /\ k <= Len(s)
    OBVIOUS
  <1>2. \A i \in 1..Len(s) : i \in T <=> i > k
    <2> TAKE i \in 1..Len(s)
    <2>1. s[i].seq = c + i /\ (i \in T <=> s[i].seq > x)
      BY <1>1
    <2>2. CASE x < c
      BY <1>1, <2>1, <2>2
    <2>3. CASE ~(x < c)
      BY <1>1, <2>1, <2>3
    <2> QED
      BY <2>2, <2>3
  <1>3. ReadAfter(s, x) = f[Len(s)]
    BY DEF ReadAfter, Keep
  <1>4. KeepsTo(f, s, T, Len(s))
    BY KeptIs
  <1> HIDE DEF f, T
  <1> DEFINE G(n) == /\ n <= k => f[n] = << >>
                     /\ k <= n /\ n <= Len(s) => IsPart(f[n], Frame, s, k, n)
             Q == {n \in Nat : G(n)}
  <1>5. ASSUME NEW n \in Nat, n = k, f[n] = << >> PROVE IsPart(f[n], Frame, s, k, n)
    <2>1. << >> \in Seq(Frame) /\ Len(<< >>) = 0 /\ n - k = 0
      BY <1>1, <1>5
    <2> QED
      BY <1>5, <2>1 DEF IsPart
  <1>6. G(0)
    <2>1. f[0] = << >>
      BY <1>4 DEF KeepsTo
    <2> QED
      BY <1>1, <1>5, <2>1
  <1>7. ASSUME NEW n \in Nat, G(n) PROVE G(n + 1)
    <2>1. ASSUME n + 1 <= Len(s)
          PROVE  f[n + 1] = IF n + 1 > k THEN Append(f[n], s[n + 1]) ELSE f[n]
      <3>1. n + 1 \in 1..Len(s) /\ (n + 1) - 1 = n
        BY <1>1, <2>1
      <3> QED
        BY <1>2, <1>4, <3>1 DEF KeepsTo
    <2>2. CASE n + 1 <= k
      <3>1. n <= k /\ ~(n + 1 > k) /\ n + 1 <= Len(s)
        BY <1>1, <2>2
      <3>2. f[n + 1] = << >>
        BY <1>7, <2>1, <3>1
      <3> QED
        BY <1>1, <1>5, <2>2, <3>2
    <2>3. CASE k <= n /\ n + 1 <= Len(s)
      <3>1. n + 1 > k /\ n <= Len(s) /\ ~(n + 1 <= k)
        BY <1>1, <2>3
      <3>2. IsPart(f[n], Frame, s, k, n)
        BY <1>7, <2>3, <3>1
      <3>3. f[n + 1] = Append(f[n], s[n + 1])
        BY <2>1, <2>3, <3>1
      <3>4. IsPart(f[n + 1], Frame, s, k, n + 1)
        <4>1. IsPart(Append(f[n], s[n + 1]), Frame, s, k, n + 1)
          BY <1>1, <2>3, <3>2, PartGrows
        <4> QED
          BY <3>3, <4>1
      <3> QED
        BY <3>1, <3>4
    <2>4. CASE n + 1 > Len(s) /\ ~(n + 1 <= k)
      BY <1>1, <2>4
    <2> QED
      BY <1>1, <2>2, <2>3, <2>4
  <1>8. G(Len(s))
    <2> HIDE DEF G
    <2>1. 0 \in Q /\ \A n \in Nat : n \in Q => n + 1 \in Q
      BY <1>6, <1>7
    <2>2. Nat \subseteq Q
      <3> HIDE DEF Q
      <3> QED
        BY <2>1, SetInduction
    <2> QED
      BY <1>1, <2>2
  <1> QED
    BY <1>1, <1>3, <1>8

\* A sequence with an element put before it.
LEMMA ConsIs ==
  ASSUME NEW S, NEW x \in S, NEW q \in Seq(S)
  PROVE  /\ <<x>> \o q \in Seq(S) /\ Len(<<x>> \o q) = Len(q) + 1 /\ (<<x>> \o q)[1] = x
         /\ \A i \in 2..Len(q) + 1 : (<<x>> \o q)[i] = q[i - 1]
  <1>1. <<x>> \in Seq(S) /\ Len(<<x>>) = 1 /\ <<x>>[1] = x
    OBVIOUS
  <1>2. /\ <<x>> \o q \in Seq(S) /\ Len(<<x>> \o q) = 1 + Len(q)
        /\ \A i \in 1..1 + Len(q) : (<<x>> \o q)[i] = IF i <= 1 THEN <<x>>[i] ELSE q[i - 1]
    BY <1>1, ConcatProperties
  <1> QED
    BY <1>1, <1>2

\* A frame produced stays right when the next one is.
LEMMA LineStays ==
  ASSUME NEW m, NEW n \in Nat, NEW over \in BOOLEAN, LineRight(m, n, FALSE), m.seq \in Nat
  PROVE  LineRight(m, n + 1, over)
  BY DEF LineRight

\* A frame is written, and the file perhaps trimmed.
LEMMA WriteKeeps ==
  ASSUME FileInv, file \in Seq(Frame), seq \in Nat, failures = 0, failures' = 0, done = FALSE,
         NEW m \in Frame, m.seq = seq + 1, m.kind = IF done' THEN "done" ELSE "out",
         done' \in BOOLEAN, WriteFile(m), seq' = seq + 1
  PROVE  FileInv' /\ file' \in Seq(Frame)
  <1>0. PICK lines : lines = Append(file, m)
    OBVIOUS
  <1>1. /\ lines \in Seq(Frame) /\ Len(lines) = Len(file) + 1 /\ Len(file) \in Nat /\ Len(file) <= seq
        /\ lines[Len(file) + 1] = m /\ \A i \in 1..Len(file) : lines[i] = file[i] /\ file[i] \in Frame
    BY <1>0 DEF FileInv
  <1>2. LineRight(m, seq', done')
    BY DEF LineRight
  <1>3. ASSUME NEW i \in 1..Len(lines)
        PROVE  /\ lines[i].seq = seq - Len(file) + i /\ lines[i].seq \in Nat
               /\ i < Len(lines) => lines[i] = file[i]
               /\ LineRight(lines[i], seq', done') \/ (i = 1 /\ i < Len(lines) /\ lines[i].kind = "note")
    <2>1. CASE i = Len(file) + 1
      BY <1>1, <1>2, <2>1
    <2>2. CASE i \in 1..Len(file)
      <3>1. /\ file[i].seq = seq - Len(file) + i
            /\ LineRight(file[i], seq, FALSE) \/ (i = 1 /\ file[i].kind = "note")
        <4>1. i \in DOMAIN file /\ done = FALSE
          BY <1>1, <2>2
        <4>2. /\ file[i].seq = seq - Len(file) + i
              /\ LineRight(file[i], seq, done) \/ (i = 1 /\ file[i].kind = "note")
          BY <4>1 DEF FileInv
        <4> QED
          BY <4>1, <4>2
      <3>2. lines[i] = file[i] /\ file[i] \in Frame
        BY <1>1, <2>2
      <3>3. file[i].seq \in Nat
        BY <3>2 DEF Frame
      <3>4. LineRight(file[i], seq, FALSE) => LineRight(file[i], seq', done')
        <4> PICK l : l = file[i]
          OBVIOUS
        <4>0. l.seq \in Nat
          BY <3>3
        <4>1. LineRight(l, seq, FALSE) => LineRight(l, seq + 1, done')
          BY <4>0, LineStays
        <4> QED
          BY <4>1
      <3>5. i < Len(lines)
        BY <1>1, <2>2
      <3> QED
        BY <3>1, <3>2, <3>3, <3>4, <3>5
    <2> QED
      BY <1>1, <2>1, <2>2
  <1>4. /\ UNCHANGED torn /\ ~torn
        /\ file' = lines \/ \E from \in 1..(Len(lines) - 1) : file' = Trimmed(lines, from)
    BY <1>0 DEF WriteFile, FileInv
  <1>5. CASE file' = lines
    <2>1. IF lines[1].kind = "note" THEN Len(lines) > 1 ELSE lines[1].seq = 1
      <3>1. CASE file = << >>
        <4>1. Len(file) = 0 /\ seq = 0 /\ lines[1] = m
          BY <1>1, <3>1 DEF FileInv
        <4> QED
          BY <4>1
      <3>2. CASE file # << >>
        <4>1. Len(file) > 0 /\ lines[1] = file[1]
          BY <1>1, <3>2
        <4> QED
          BY <1>1, <3>2, <4>1 DEF FileInv
      <3> QED
        BY <3>1, <3>2
    <2>2. /\ DOMAIN file' = 1..Len(lines) /\ file' \in Seq(Frame) /\ file' # << >>
          /\ seq' - Len(file') = seq - Len(file) /\ Len(file') <= seq'
      BY <1>1, <1>5
    <2>3. \A i \in DOMAIN file' :
            /\ file'[i].seq = seq' - Len(file') + i
            /\ LineRight(file'[i], seq', done') \/ (i = 1 /\ file'[i].kind = "note")
      BY <1>3, <1>5, <2>2
    <2> QED
      BY <1>4, <1>5, <2>1, <2>2, <2>3 DEF FileInv
  <1>6. ASSUME NEW from \in 1..(Len(lines) - 1), file' = Trimmed(lines, from) PROVE FileInv' /\ file' \in Seq(Frame)
    <2> DEFINE note == [seq |-> lines[from + 1].seq - 1, kind |-> "note"]
               rest == SubSeq(lines, from + 1, Len(lines))
    <2>1. note.seq = seq - Len(file) + from /\ note \in Frame /\ note.kind = "note"
      <3>1. from + 1 \in 1..Len(lines)
        BY <1>1
      <3>2. lines[from + 1].seq = seq - Len(file) + (from + 1)
        BY <1>3, <3>1
      <3>3. seq - Len(file) + from \in Nat /\ lines[from + 1].seq - 1 = seq - Len(file) + from
        <4>1. seq - Len(file) \in Nat /\ from \in Nat
          BY <1>1
        <4> QED
          BY <3>2, <4>1
      <3> QED
        BY <3>3 DEF Frame, Kind
    <2>2. /\ rest \in Seq(Frame) /\ Len(rest) = Len(lines) - from
          /\ \A i \in 1..Len(lines) - from : rest[i] = lines[from + i]
      BY <1>1
    <2>3. file' = <<note>> \o rest
      BY <1>6 DEF Trimmed
    <2> HIDE DEF note, rest
    <2>4. /\ file' \in Seq(Frame) /\ Len(file') = Len(lines) - from + 1
          /\ file'[1] = note /\ \A i \in 2..Len(file') : file'[i] = rest[i - 1]
      <3>1. PICK n \in Frame, t \in Seq(Frame) : n = note /\ t = rest
        BY <2>1, <2>2
      <3>2. /\ <<n>> \o t \in Seq(Frame) /\ Len(<<n>> \o t) = Len(t) + 1 /\ (<<n>> \o t)[1] = n
            /\ \A i \in 2..Len(t) + 1 : (<<n>> \o t)[i] = t[i - 1]
        BY ConsIs
      <3> QED
        BY <2>2, <2>3, <3>1, <3>2
    <2>5. ASSUME NEW i \in 1..Len(file')
          PROVE  /\ file'[i].seq = seq' - Len(file') + i
                 /\ LineRight(file'[i], seq', done') \/ (i = 1 /\ file'[i].kind = "note")
      <3>1. CASE i = 1
        BY <1>1, <2>1, <2>4, <3>1
      <3>2. CASE i # 1
        <4>1. i \in 2..Len(file') /\ i - 1 \in 1..Len(lines) - from /\ from + (i - 1) \in 2..Len(lines)
          BY <1>1, <2>4, <3>2
        <4>2. file'[i] = lines[from + (i - 1)]
          BY <2>2, <2>4, <4>1
        <4>3. /\ lines[from + (i - 1)].seq = seq - Len(file) + (from + (i - 1))
              /\ LineRight(lines[from + (i - 1)], seq', done')
          BY <1>3, <4>1
        <4>4. seq - Len(file) + (from + (i - 1)) = seq' - Len(file') + i
          <5>1. /\ Len(file) \in Nat /\ Len(lines) = Len(file) + 1 /\ Len(file') = Len(lines) - from + 1
                /\ from \in Nat /\ i \in Nat
            BY <1>1, <2>4
          <5> QED
            BY <5>1
        <4> QED
          BY <4>2, <4>3, <4>4
      <3> QED
        BY <3>1, <3>2
    <2>6. file' # << >> /\ Len(file') > 1 /\ Len(file') <= seq' /\ DOMAIN file' = 1..Len(file')
      BY <1>1, <2>4
    <2>7. file'[1].kind = "note" /\ ~torn'
      BY <1>4, <2>1, <2>4
    <2> QED
      BY <2>4, <2>5, <2>6, <2>7 DEF FileInv
  <1> QED
    BY <1>4, <1>5, <1>6

\* A step of the stream.
StreamStep == Stream!SNext \/ UNCHANGED Stream!svars

\* An attacher when a frame is produced.
LEMMA ReaderProduces ==
  ASSUME NEW a \in Attacher, TypeOK, ReaderInv(a), done = FALSE, seq' = seq + 1, done' \in BOOLEAN,
         NEW m \in Frame, m.seq = seq + 1, m.kind = IF done' THEN "done" ELSE "out",
         UNCHANGED <<pc, past, shown>>,
         \/ chan'[a].buf = chan[a].buf /\ chan'[a].open = FALSE
         \/ /\ chan[a].open /\ chan'[a].buf = Append(chan[a].buf, m)
            /\ chan'[a].open => ~done'
  PROVE  ReaderInv(a)'
  <1> DEFINE b == chan[a].buf
  <1>1. /\ chan[a] \in [buf : Seq(Frame), open : BOOLEAN] /\ past[a] \in Seq(Frame)
        /\ shown[a].seq \in Nat /\ seq \in Nat
        /\ pc' = pc /\ past' = past /\ shown' = shown
    BY DEF TypeOK
  <1>2. b \in Seq(Frame) /\ Len(b) \in Nat /\ \A i \in 1..Len(b) : b[i] \in Frame
    BY <1>1
  <1>3. ASSUME NEW l \in Frame, LineRight(l, seq, done) PROVE LineRight(l, seq', done')
    <2>1. l.seq \in Nat
      BY DEF Frame
    <2>2. LineRight(l, seq, FALSE)
      BY <1>3
    <2>3. PICK n \in Nat, over \in BOOLEAN : n = seq /\ over = done'
      BY <1>1
    <2>4. LineRight(l, n + 1, over)
      BY <2>1, <2>2, <2>3, LineStays
    <2> QED
      BY <2>3, <2>4
  <1>4. ReadTo(a)' = ReadTo(a)
    BY <1>1 DEF ReadTo
  <1>5. ASSUME pc[a] \in {"replay", "replaysub"} PROVE PastInv(a)'
    <2>1. PastInv(a)
      BY <1>5 DEF ReaderInv
    <2>2. \A i \in DOMAIN past[a] : past[a][i] \in Frame
      BY <1>1
    <2>3. past[a] # << >> /\ past[a][1].kind = "note" => past[a][1].seq \in shown[a].seq + 1 .. seq' - 1
      BY <1>1, <2>1 DEF PastInv
    <2> QED
      BY <1>1, <1>3, <1>4, <2>1, <2>2, <2>3 DEF PastInv
  <1>6. ASSUME pc[a] \in {"replaysub", "live"} PROVE ChanInv(a)'
    <2>1. ChanInv(a) /\ (pc[a] = "live" => past[a] = << >>)
      BY <1>6 DEF ReaderInv
    <2>2. \A i \in 1..Len(b) : b[i].seq = ReadTo(a) + i /\ LineRight(b[i], seq', done')
      BY <1>2, <1>3, <2>1 DEF ChanInv
    <2>3. CASE chan'[a].buf = b /\ chan'[a].open = FALSE
      BY <1>1, <1>2, <1>4, <2>2, <2>3 DEF ChanInv
    <2>4. CASE /\ chan[a].open /\ chan'[a].buf = Append(b, m)
               /\ chan'[a].open => ~done'
      <3>1. PICK q : q = Append(b, m)
        OBVIOUS
      <3>2. /\ q \in Seq(Frame) /\ Len(q) = Len(b) + 1 /\ q[Len(b) + 1] = m
            /\ \A i \in 1..Len(b) : q[i] = b[i]
        BY <1>2, <3>1, AppendIs
      <3>3. ReadTo(a) + Len(b) = seq /\ ReadTo(a) \in Int
        <4>1. ReadTo(a) \in Int
          <5>1. CASE past[a] = << >>
            BY <1>1, <5>1 DEF ReadTo
          <5>2. CASE past[a] # << >>
            <6>1. past[a][Len(past[a])] \in Frame
              BY <1>1, <5>2
            <6> QED
              BY <5>2, <6>1 DEF ReadTo, Frame
          <5> QED
            BY <5>1, <5>2
        <4> QED
          BY <2>1, <2>4, <4>1 DEF ChanInv
      <3>4. m.seq = ReadTo(a) + (Len(b) + 1) /\ LineRight(m, seq', done')
        BY <1>1, <1>2, <3>3 DEF LineRight
      <3>5. ASSUME NEW i \in 1..Len(q) PROVE q[i].seq = ReadTo(a) + i /\ LineRight(q[i], seq', done')
        <4>1. CASE i = Len(b) + 1
          BY <3>2, <3>4, <4>1
        <4>2. CASE i \in 1..Len(b)
          BY <2>2, <3>2, <4>2
        <4> QED
          BY SMTT(30), <1>2, <3>2, <4>1, <4>2
      <3>6. chan'[a].buf = q /\ DOMAIN q = 1..Len(q)
        BY <2>4, <3>1, <3>2
      <3>7. chan'[a].open => ~done' /\ ReadTo(a) + Len(q) = seq'
        <4>1. ReadTo(a) + Len(q) = seq'
          BY <1>1, <1>2, <3>2, <3>3
        <4> QED
          BY <2>4, <4>1
      <3> QED
        BY <1>4, <3>5, <3>6, <3>7 DEF ChanInv
    <2> QED
      BY <2>3, <2>4
  <1>7. (pc[a] \in {"follow", "replay", "replaysub", "live"} =>
           shown[a].kind \in {"start", "out", "note"} /\ shown[a].seq <= seq)'
    BY <1>1 DEF ReaderInv
  <1>8. (pc[a] = "live" => past[a] = << >>)' /\ (pc[a] \notin {"replaysub", "live"} => ~chan[a].open)'
    BY <1>1 DEF ReaderInv
  <1> QED
    BY <1>1, <1>5, <1>6, <1>7, <1>8 DEF ReaderInv

\* The channels after a frame, and after the last one.
LEMMA FanOutIs ==
  ASSUME LogAssumption, TypeOK, NEW m \in Frame, NEW a \in Attacher, NEW cs, cs = FanOut(m) \/ cs = Closed(FanOut(m))
  PROVE  /\ cs[a] \in [buf : Seq(Frame), open : BOOLEAN] /\ Len(cs[a].buf) <= Buffer
         /\ \/ cs[a].buf = chan[a].buf /\ cs[a].open = FALSE
            \/ chan[a].open /\ cs[a].buf = Append(chan[a].buf, m)
         /\ cs = Closed(FanOut(m)) => cs[a].open = FALSE
  <1>1. /\ chan[a] \in [buf : Seq(Frame), open : BOOLEAN] /\ Len(chan[a].buf) <= Buffer
        /\ Buffer \in Nat
    BY DEF TypeOK, LogAssumption
  <1>2. PICK b \in Seq(Frame), o \in BOOLEAN : chan[a] = [buf |-> b, open |-> o]
    BY <1>1
  <1>3. Append(b, m) \in Seq(Frame) /\ Len(Append(b, m)) = Len(b) + 1 /\ Len(b) \in Nat
    OBVIOUS
  <1> DEFINE f == FanOut(m)[a]
  <1>4. f = IF ~chan[a].open THEN chan[a]
            ELSE IF Len(chan[a].buf) < Buffer THEN [chan[a] EXCEPT !.buf = Append(chan[a].buf, m)]
            ELSE [chan[a] EXCEPT !.open = FALSE]
    BY DEF FanOut
  <1> HIDE DEF f
  <1>5. /\ f \in [buf : Seq(Frame), open : BOOLEAN] /\ Len(f.buf) <= Buffer
        /\ \/ f.buf = b /\ f.open = FALSE
           \/ o /\ f.buf = Append(b, m)
    <2>0. chan[a].buf = b /\ chan[a].open = o
      BY <1>2
    <2>1. CASE ~o
      BY <1>1, <1>4, <2>0, <2>1
    <2>2. CASE o /\ Len(b) < Buffer
      <3>1. f = [chan[a] EXCEPT !.buf = Append(b, m)]
        BY <1>4, <2>0, <2>2
      <3>2. f \in [buf : Seq(Frame), open : BOOLEAN] /\ f.buf = Append(b, m)
        BY <1>1, <1>3, <3>1
      <3> QED
        BY <1>1, <1>3, <2>2, <3>2
    <2>3. CASE o /\ ~(Len(b) < Buffer)
      <3>1. f = [chan[a] EXCEPT !.open = FALSE]
        BY <1>4, <2>0, <2>3
      <3>2. f \in [buf : Seq(Frame), open : BOOLEAN] /\ f.buf = b /\ f.open = FALSE
        BY <1>1, <2>0, <3>1
      <3> QED
        BY <1>1, <2>0, <3>2
    <2> QED
      BY <2>1, <2>2, <2>3
  <1>6. Closed(FanOut(m))[a] = [f EXCEPT !.open = FALSE]
    BY DEF Closed, f
  <1>7. CASE cs = FanOut(m) /\ cs # Closed(FanOut(m))
    BY <1>2, <1>5, <1>7 DEF f
  <1>8. CASE cs = Closed(FanOut(m))
    <2>1. cs[a] = [f EXCEPT !.open = FALSE]
      BY <1>6, <1>8
    <2>2. cs[a] \in [buf : Seq(Frame), open : BOOLEAN] /\ cs[a].buf = f.buf /\ cs[a].open = FALSE
      BY <1>5, <2>1
    <2> QED
      BY <1>2, <1>5, <2>2
  <1> QED
    BY <1>7, <1>8

\* A frame is produced.
LEMMA ProduceKeeps ==
  ASSUME LogAssumption, Sound, failures = 0, failures' = 0, ~done, done' \in BOOLEAN, seq' = seq + 1,
         NEW m \in Frame, m.seq = seq + 1, m.kind = IF done' THEN "done" ELSE "out", WriteFile(m),
         chan' = IF done' THEN Closed(FanOut(m)) ELSE FanOut(m),
         UNCHANGED <<pc, past, shown, ticked>>, up' \in BOOLEAN, ended' \in BOOLEAN, crashes' = crashes
  PROVE  Sound' /\ StreamStep
  <1>1. TypeOK /\ FileInv /\ done = FALSE /\ seq \in Nat /\ file \in Seq(Frame)
    BY DEF Sound, TypeOK
  <1>2. FileInv' /\ file' \in Seq(Frame)
    BY <1>1, WriteKeeps
  <1>3. ASSUME NEW a \in Attacher
        PROVE  /\ chan'[a] \in [buf : Seq(Frame), open : BOOLEAN] /\ Len(chan'[a].buf) <= Buffer
               /\ \/ chan'[a].buf = chan[a].buf /\ chan'[a].open = FALSE
                  \/ /\ chan[a].open /\ chan'[a].buf = Append(chan[a].buf, m)
                     /\ chan'[a].open => ~done'
    <2>1. PICK cs : cs = chan'
      OBVIOUS
    <2>2. cs = FanOut(m) \/ cs = Closed(FanOut(m))
      BY <2>1
    <2>3. done' => cs = Closed(FanOut(m))
      BY <2>1
    <2>4. /\ cs[a] \in [buf : Seq(Frame), open : BOOLEAN] /\ Len(cs[a].buf) <= Buffer
          /\ \/ cs[a].buf = chan[a].buf /\ cs[a].open = FALSE
             \/ chan[a].open /\ cs[a].buf = Append(chan[a].buf, m)
          /\ cs = Closed(FanOut(m)) => cs[a].open = FALSE
      BY <1>1, <2>2, FanOutIs
    <2> QED
      BY <2>1, <2>3, <2>4
  <1>4. chan' \in [Attacher -> [buf : Seq(Frame), open : BOOLEAN]]
    <2>1. chan' = [a \in Attacher |-> chan'[a]]
      BY DEF FanOut, Closed
    <2> QED
      BY <1>3, <2>1
  <1>5. torn' \in BOOLEAN
    BY <1>1 DEF WriteFile, TypeOK
  <1>6. TypeOK'
    <2>1. seq' \in Nat /\ failures' \in Nat /\ crashes' \in Nat
      BY <1>1 DEF TypeOK
    <2>2. /\ pc' \in [Attacher -> {"off", "follow", "replay", "replaysub", "live", "over"}]
          /\ past' \in [Attacher -> Seq(Frame)] /\ ticked' \in [Attacher -> BOOLEAN]
          /\ shown' \in [Attacher -> [seq : Nat, kind : Kind \union {"start", "cut"}]]
      BY <1>1 DEF TypeOK
    <2> QED
      BY <1>2, <1>3, <1>4, <1>5, <2>1, <2>2 DEF TypeOK
  <1>7. ASSUME NEW a \in Attacher PROVE ReaderInv(a)'
    BY <1>1, <1>3, <1>7, ReaderProduces DEF Sound
  <1>8. Stream!SNext
    BY DEF Stream!SNext, Stream!Produce
  <1> QED
    BY <1>2, <1>6, <1>7, <1>8 DEF Sound, StreamStep

\* A step of one attach handler: the log, and the others, stay.
LEMMA HandlerStepIs ==
  ASSUME Sound, failures' = failures, NEW a \in Attacher,
         UNCHANGED <<seq, done, file, torn, ended, up, crashes>>,
         NEW p \in {"off", "follow", "replay", "replaysub", "live", "over"}, pc' = [pc EXCEPT ![a] = p],
         NEW q \in Seq(Frame), past' = [past EXCEPT ![a] = q],
         NEW c \in [buf : Seq(Frame), open : BOOLEAN], Len(c.buf) <= Buffer, chan' = [chan EXCEPT ![a] = c],
         NEW s \in [seq : Nat, kind : Kind \union {"start", "cut"}], shown' = [shown EXCEPT ![a] = s],
         NEW t \in BOOLEAN, ticked' = [ticked EXCEPT ![a] = t]
  PROVE  /\ TypeOK' /\ FileInv'
         /\ \A b \in Attacher \ {a} : ReaderInv(b)'
         /\ pc'[a] = p /\ past'[a] = q /\ chan'[a] = c /\ shown'[a] = s
  <1>1. TypeOK /\ FileInv
    BY DEF Sound
  <1>2. FileInv'
    BY <1>1 DEF FileInv
  <1>3. /\ pc'[a] = p /\ past'[a] = q /\ chan'[a] = c /\ shown'[a] = s
        /\ \A b \in Attacher \ {a} : /\ pc'[b] = pc[b] /\ past'[b] = past[b]
                                     /\ chan'[b] = chan[b] /\ shown'[b] = shown[b]
    BY <1>1 DEF TypeOK
  <1>4. TypeOK'
    <2>1. /\ pc' \in [Attacher -> {"off", "follow", "replay", "replaysub", "live", "over"}]
          /\ past' \in [Attacher -> Seq(Frame)]
          /\ chan' \in [Attacher -> [buf : Seq(Frame), open : BOOLEAN]]
      BY <1>1 DEF TypeOK
    <2>2. /\ shown' \in [Attacher -> [seq : Nat, kind : Kind \union {"start", "cut"}]]
          /\ ticked' \in [Attacher -> BOOLEAN]
      BY <1>1 DEF TypeOK
    <2>3. \A b \in Attacher : Len(chan'[b].buf) <= Buffer
      BY <1>1, <1>3 DEF TypeOK
    <2> QED
      BY <1>1, <2>1, <2>2, <2>3 DEF TypeOK
  <1>5. ASSUME NEW b \in Attacher \ {a} PROVE ReaderInv(b)'
    <2>1. ReaderInv(b)
      BY DEF Sound
    <2> QED
      BY <1>3, <2>1 DEF ReaderInv, PastInv, ChanInv, ReadTo
  <1> QED
    BY <1>2, <1>3, <1>4, <1>5

\* A handler's step is right if it leaves its attacher right and shows what it may.
LEMMA FollowKeeps ==
  ASSUME Sound, failures = 0, failures' = 0, NEW a \in Attacher, Follow(a)
  PROVE  Sound' /\ StreamStep
  <1> DEFINE x == shown[a].seq
             q == ReadAfter(file, x)
             c == [buf |-> << >>, open |-> ~done]
             p == IF done THEN "replay" ELSE "replaysub"
  <1>1. /\ TypeOK /\ FileInv /\ ReaderInv(a) /\ pc[a] = "follow"
        /\ shown[a] \in [seq : Nat, kind : Kind \union {"start", "cut"}]
        /\ seq \in Nat /\ done \in BOOLEAN /\ file \in Seq(Frame) /\ Len(file) \in Nat /\ Len(file) <= seq
    BY DEF Sound, TypeOK, Follow, FileInv
  <1>2. x \in Nat /\ x <= seq /\ shown[a].kind \in {"start", "out", "note"}
    BY <1>1 DEF ReaderInv
  <1>3. PICK b \in Nat : b = seq - Len(file)
    BY <1>1
  <1>4. PICK k \in 0..Len(file) : k = IF x < b THEN 0 ELSE x - b
    BY <1>1, <1>2, <1>3
  <1>5. \A i \in 1..Len(file) : /\ file[i].seq = b + i
                                /\ LineRight(file[i], seq, done) \/ (i = 1 /\ file[i].kind = "note")
    BY <1>1, <1>3 DEF FileInv
  <1>6. IsPart(q, Frame, file, k, Len(file))
    BY <1>1, <1>2, <1>3, <1>4, <1>5, ReadAfterIs
  <1>7. q \in Seq(Frame) /\ Len(q) = Len(file) - k /\ \A i \in 1..Len(file) - k : q[i] = file[k + i]
    BY <1>6 DEF IsPart
  <1>8. c \in [buf : Seq(Frame), open : BOOLEAN] /\ Len(c.buf) <= Buffer /\ c.buf = << >> /\ (c.open => ~done)
    <2>1. << >> \in Seq(Frame) /\ Len(<< >>) = 0 /\ Buffer \in Nat
      BY LogAssumption DEF LogAssumption
    <2>2. PICK o \in BOOLEAN : o = ~done
      BY <1>1
    <2>3. c = [buf |-> << >>, open |-> o]
      BY <2>2
    <2> HIDE DEF c
    <2>4. c \in [buf : Seq(Frame), open : BOOLEAN] /\ c.buf = << >> /\ c.open = o
      BY <2>1, <2>3
    <2> QED
      BY <2>1, <2>2, <2>4
  <1>9. p \in {"off", "follow", "replay", "replaysub", "live", "over"} /\ p \in {"replay", "replaysub"}
        /\ (p = "replay" => done)
    BY <1>1
  <1>10. /\ pc' = [pc EXCEPT ![a] = p] /\ past' = [past EXCEPT ![a] = q] /\ chan' = [chan EXCEPT ![a] = c]
         /\ UNCHANGED <<seq, done, file, torn, ended, up, ticked, shown, crashes>>
    BY DEF Follow, log
  <1> HIDE DEF q, c, p
  <1>11. /\ TypeOK' /\ FileInv' /\ \A b1 \in Attacher \ {a} : ReaderInv(b1)'
         /\ pc'[a] = p /\ past'[a] = q /\ chan'[a] = c /\ shown'[a] = shown[a]
    <2>1. shown' = [shown EXCEPT ![a] = shown[a]] /\ ticked' = [ticked EXCEPT ![a] = ticked[a]]
          /\ ticked[a] \in BOOLEAN
      BY <1>1, <1>10 DEF TypeOK
    <2> QED
      <3>1. p \in {"off", "follow", "replay", "replaysub", "live", "over"} /\ q \in Seq(Frame)
            /\ c \in [buf : Seq(Frame), open : BOOLEAN] /\ Len(c.buf) <= Buffer
            /\ shown[a] \in [seq : Nat, kind : Kind \union {"start", "cut"}]
        BY <1>1, <1>7, <1>8, <1>9
      <3>2. failures' = failures /\ UNCHANGED <<seq, done, file, torn, ended, up, crashes>>
        BY <1>10
      <3>3. PICK p1, q1, c1, s1, t1 : p1 = p /\ q1 = q /\ c1 = c /\ s1 = shown[a] /\ t1 = ticked[a]
        OBVIOUS
      <3>4. /\ p1 \in {"off", "follow", "replay", "replaysub", "live", "over"} /\ q1 \in Seq(Frame)
            /\ c1 \in [buf : Seq(Frame), open : BOOLEAN] /\ Len(c1.buf) <= Buffer
            /\ s1 \in [seq : Nat, kind : Kind \union {"start", "cut"}] /\ t1 \in BOOLEAN
        BY <2>1, <3>1, <3>3
      <3>5. /\ pc' = [pc EXCEPT ![a] = p1] /\ past' = [past EXCEPT ![a] = q1] /\ chan' = [chan EXCEPT ![a] = c1]
            /\ shown' = [shown EXCEPT ![a] = s1] /\ ticked' = [ticked EXCEPT ![a] = t1]
        BY <1>10, <2>1, <3>3
      <3>6. /\ TypeOK' /\ FileInv' /\ \A b1 \in Attacher \ {a} : ReaderInv(b1)'
            /\ pc'[a] = p1 /\ past'[a] = q1 /\ chan'[a] = c1 /\ shown'[a] = s1
        BY ZenonT(60), <3>2, <3>4, <3>5, HandlerStepIs
      <3> QED
        BY <3>3, <3>6
  <1>12. ReadTo(a)' = seq
    <2>1. CASE q = << >>
      <3>1. Len(q) = 0
        BY <2>1
      <3>2. Len(file) = k
        BY <1>1, <1>7, <3>1
      <3>3. x = seq
        <4>1. CASE x < b
          <5>1. Len(file) = 0 /\ file = << >>
            BY <1>1, <1>4, <3>2, <4>1
          <5>2. seq = 0
            BY <1>1, <5>1 DEF FileInv
          <5> QED
            BY <1>2, <5>2
        <4>2. CASE ~(x < b)
          BY <1>1, <1>2, <1>3, <1>4, <3>2, <4>2
        <4> QED
          BY <4>1, <4>2
      <3> QED
        BY <1>11, <2>1, <3>3 DEF ReadTo
    <2>2. CASE q # << >>
      <3>1. Len(q) > 0 /\ Len(q) \in Nat
        BY <1>7, <2>2
      <3>2. Len(q) \in 1..Len(file) - k /\ k + Len(q) = Len(file) /\ Len(file) \in 1..Len(file)
        <4>1. Len(q) = Len(file) - k /\ k \in Nat /\ k <= Len(file)
          BY <1>1, <1>4, <1>7
        <4> HIDE DEF q
        <4> QED
          BY <1>1, <3>1, <4>1
      <3>3. q[Len(q)].seq = b + Len(file)
        BY <1>5, <1>7, <3>2
      <3> QED
        BY <1>1, <1>3, <1>11, <2>2, <3>3 DEF ReadTo
    <2> QED
      BY <2>1, <2>2
  <1>13. ASSUME NEW i \in 1..Len(q)
         PROVE  /\ q[i].seq = seq - Len(q) + i
                /\ LineRight(q[i], seq, done) \/ (i = 1 /\ k = 0 /\ q[i].kind = "note")
    <2>1. k + i \in 1..Len(file) /\ i \in 1..Len(file) - k
      <3>1. Len(file) \in Nat /\ Len(q) = Len(file) - k
        BY <1>1, <1>7
      <3> QED
        BY <3>1
    <2>2. /\ q[i] = file[k + i] /\ file[k + i].seq = b + (k + i)
          /\ LineRight(file[k + i], seq, done) \/ (k + i = 1 /\ file[k + i].kind = "note")
      BY <1>5, <1>7, <2>1
    <2>3. b + (k + i) = seq - Len(q) + i
      BY <1>1, <1>3, <1>7
    <2>4. k + i = 1 => i = 1 /\ k = 0
      BY <1>4
    <2> QED
      BY <2>2, <2>3, <2>4
  <1>14. ASSUME q # << >> PROVE /\ q[1].kind = "note" => q[1].seq \in x + 1 .. seq - 1
                                /\ q[1].kind # "note" => q[1].seq = x + 1
    <2>0. Len(q) > 0 /\ Len(q) \in Nat /\ 1 \in 1..Len(q)
      BY <1>7, <1>14
    <2>1. q[1] = file[k + 1] /\ q[1].seq = b + (k + 1) /\ k + 1 \in 1..Len(file) /\ file # << >>
      <3>1. Len(q) = Len(file) - k /\ k \in Nat /\ k <= Len(file)
        BY <1>1, <1>4, <1>7
      <3>2. 1 \in 1..Len(file) - k /\ k + 1 \in 1..Len(file)
        BY <1>1, <2>0, <3>1
      <3>3. q[1] = file[k + 1]
        BY <1>7, <3>2
      <3>4. file # << >>
        BY <1>1, <3>2
      <3> QED
        BY <1>5, <3>2, <3>3, <3>4
    <2>2. CASE x < b
      <3>1. k = 0 /\ q[1] = file[1] /\ q[1].seq = b + 1
        BY <1>4, <2>1, <2>2
      <3>2. file[1].kind = "note" => Len(file) > 1
        BY <1>1, <2>1 DEF FileInv
      <3>3. file[1].kind # "note" => file[1].seq = 1
        BY <1>1, <2>1 DEF FileInv
      <3> QED
        BY <1>1, <1>2, <1>3, <2>2, <3>1, <3>2, <3>3
    <2>3. CASE ~(x < b)
      <3>1. k = x - b /\ q[1].seq = x + 1
        BY <1>2, <1>3, <1>4, <2>1, <2>3
      <3>2. q[1].kind = "note" => k = 0 /\ Len(file) > 1
        <4>1. LineRight(q[1], seq, done) \/ k = 0
          BY <1>13, <2>0
        <4>2. q[1].kind = "note" => k = 0
          BY <4>1 DEF LineRight
        <4> QED
          BY <1>1, <2>1, <4>2 DEF FileInv
      <3> QED
        BY <1>1, <1>2, <1>3, <3>1, <3>2
    <2> QED
      BY <2>2, <2>3
  <1>15. PastInv(a)'
    <2>1. DOMAIN q = 1..Len(q) /\ seq' = seq /\ done' = done
      BY <1>7, <1>10
    <2> QED
      BY <1>11, <1>12, <1>13, <1>14, <2>1 DEF PastInv
  <1>16. ChanInv(a)'
    <2>1. DOMAIN chan'[a].buf = {} /\ Len(chan'[a].buf) = 0
      BY <1>8, <1>11
    <2>2. chan'[a].open => ~done'
      BY <1>8, <1>10, <1>11
    <2>3. ReadTo(a)' + Len(chan'[a].buf) = seq'
      <3>1. seq \in Nat /\ seq' = seq
        BY <1>1, <1>10
      <3> QED
        BY <1>12, <2>1, <3>1
    <2> QED
      BY <2>1, <2>2, <2>3 DEF ChanInv
  <1>17. ReaderInv(a)'
    <2>1. c.open = ~done /\ (p = "replay" <=> done)
      BY <1>1 DEF c, p
    <2> QED
      BY <1>2, <1>9, <1>10, <1>11, <1>15, <1>16, <2>1 DEF ReaderInv
  <1>18. UNCHANGED Stream!svars
    BY <1>10 DEF Stream!svars
  <1> QED
    BY <1>11, <1>17, <1>18 DEF Sound, StreamStep

\* A frame that is shown next, or a note, is a step of the stream.
LEMMA ShowIsStep ==
  ASSUME TypeOK, NEW a \in Attacher, NEW m \in Frame, shown' = [shown EXCEPT ![a] = m],
         UNCHANGED <<seq, done>>, shown[a].kind \in {"start", "out", "note"}, shown[a].seq < seq,
         \/ LineRight(m, seq, done) /\ m.seq = shown[a].seq + 1
         \/ m.kind = "note" /\ m.seq \in shown[a].seq + 1 .. seq - 1
  PROVE  StreamStep
  <1>1. /\ shown[a] \in [seq : Nat, kind : Kind \union {"start", "cut"}] /\ seq \in Nat
        /\ m = [seq |-> m.seq, kind |-> m.kind] /\ m.seq \in Nat
    BY DEF TypeOK, Frame
  <1>2. Stream!Watching(a)
    BY DEF Stream!Watching
  <1>3. CASE LineRight(m, seq, done) /\ m.seq = shown[a].seq + 1
    <2>1. m.kind = IF done /\ shown[a].seq + 1 = seq THEN "done" ELSE "out"
      BY <1>3 DEF LineRight
    <2>2. Stream!ShowNext(a)
      BY <1>1, <1>2, <1>3, <2>1 DEF Stream!ShowNext
    <2> QED
      BY <2>2 DEF StreamStep, Stream!SNext
  <1>4. CASE m.kind = "note" /\ m.seq \in shown[a].seq + 1 .. seq - 1
    <2>1. m.seq > shown[a].seq /\ m.seq < seq /\ m.seq \in 1..seq
      BY <1>1, <1>4
    <2>2. Stream!ShowNote(a, m.seq)
      BY <1>1, <1>2, <1>4, <2>1 DEF Stream!ShowNote
    <2> QED
      BY <2>1, <2>2 DEF StreamStep, Stream!SNext
  <1> QED
    BY <1>3, <1>4

\* What is known of an attacher before its step.
LEMMA ReaderIs ==
  ASSUME Sound, NEW a \in Attacher
  PROVE  /\ pc[a] \in {"off", "follow", "replay", "replaysub", "live", "over"}
         /\ past[a] \in Seq(Frame) /\ chan[a] \in [buf : Seq(Frame), open : BOOLEAN]
         /\ Len(chan[a].buf) <= Buffer /\ ticked[a] \in BOOLEAN
         /\ shown[a] \in [seq : Nat, kind : Kind \union {"start", "cut"}]
         /\ TypeOK /\ FileInv /\ ReaderInv(a) /\ seq \in Nat /\ done \in BOOLEAN
         /\ pc = [pc EXCEPT ![a] = pc[a]] /\ past = [past EXCEPT ![a] = past[a]]
         /\ chan = [chan EXCEPT ![a] = chan[a]] /\ ticked = [ticked EXCEPT ![a] = ticked[a]]
         /\ shown = [shown EXCEPT ![a] = shown[a]]
  <1>1. TypeOK /\ FileInv /\ ReaderInv(a)
    BY DEF Sound
  <1> QED
    BY <1>1 DEF TypeOK

\* An attacher with no subscription: its channel is empty.
LEMMA NoSubIs ==
  ASSUME LogAssumption
  PROVE  /\ NoSub \in [buf : Seq(Frame), open : BOOLEAN] /\ Len(NoSub.buf) <= Buffer
         /\ NoSub.open = FALSE /\ NoSub.buf = << >> /\ << >> \in Seq(Frame)
  <1>1. << >> \in Seq(Frame) /\ Len(<< >>) = 0 /\ Buffer \in Nat
    BY DEF LogAssumption
  <1> QED
    BY <1>1 DEF NoSub

\* An attacher is right where nothing is asked of it.
LEMMA ReaderOff ==
  ASSUME NEW a \in Attacher, pc[a] \in {"off", "over"}, chan[a].open = FALSE
  PROVE  ReaderInv(a)
  BY DEF ReaderInv

\* The first of the frames read is sent.
LEMMA ReplayKeeps ==
  ASSUME LogAssumption, Sound, failures = 0, failures' = 0, NEW a \in Attacher, Replay(a)
  PROVE  Sound' /\ StreamStep
  <1>0. /\ past[a] \in Seq(Frame) /\ past[a] # << >> /\ pc[a] \in {"replay", "replaysub"}
        /\ PastInv(a) /\ seq \in Nat /\ done \in BOOLEAN /\ TypeOK
        /\ shown[a] \in [seq : Nat, kind : Kind \union {"start", "cut"}]
        /\ shown[a].kind \in {"start", "out", "note"}
    BY ReaderIs DEF Replay, ReaderInv
  <1>1. PICK w : w = past[a]
    OBVIOUS
  <1>2. PICK m : m = w[1]
    OBVIOUS
  <1>3. PICK n : n = Len(w)
    OBVIOUS
  <1>4. PICK e : e = ReadTo(a)
    OBVIOUS
  <1>5. /\ w \in Seq(Frame) /\ n \in Nat /\ n >= 1 /\ m \in Frame /\ Head(w) = m
        /\ e = w[n].seq /\ w[n] \in Frame
    BY <1>0, <1>1, <1>2, <1>3, <1>4 DEF ReadTo
  <1>6. \A i \in 1..n : /\ w[i].seq = e - n + i
                        /\ LineRight(w[i], seq, done) \/ (i = 1 /\ w[i].kind = "note")
    BY <1>0, <1>1, <1>3, <1>4 DEF PastInv
  <1>7. m.seq \in Nat /\ e \in Nat /\ m.seq = e - n + 1
    BY <1>2, <1>5, <1>6 DEF Frame
  <1>8. /\ m.kind = "note" => m.seq \in shown[a].seq + 1 .. seq - 1
        /\ m.kind # "note" => m.seq = shown[a].seq + 1 /\ LineRight(m, seq, done)
    <2>1. 1 \in 1..n
      BY <1>5
    <2> QED
      BY <1>0, <1>1, <1>2, <1>6, <2>1 DEF PastInv
  <1>9. PICK p1, q1, c1 : /\ p1 = IF m.kind = "done" THEN "over" ELSE pc[a]
                          /\ q1 = IF m.kind = "done" THEN << >> ELSE Tail(w)
                          /\ c1 = IF m.kind = "done" THEN NoSub ELSE chan[a]
    OBVIOUS
  <1>10. /\ pc' = [pc EXCEPT ![a] = p1] /\ past' = [past EXCEPT ![a] = q1]
         /\ chan' = [chan EXCEPT ![a] = c1] /\ shown' = [shown EXCEPT ![a] = m]
         /\ UNCHANGED <<seq, done, file, torn, ended, up, crashes, ticked>>
    <2>1. Head(past[a]) = m /\ Tail(past[a]) = Tail(w)
      BY <1>1, <1>5
    <2> QED
      BY <1>9, <2>1 DEF Replay, log
  <1>11. Tail(w) \in Seq(Frame) /\ Len(Tail(w)) = n - 1 /\ \A i \in 1..n - 1 : Tail(w)[i] = w[i + 1]
    BY <1>3, <1>5
  <1>12. /\ TypeOK' /\ FileInv' /\ \A b \in Attacher \ {a} : ReaderInv(b)'
         /\ pc'[a] = p1 /\ past'[a] = q1 /\ chan'[a] = c1 /\ shown'[a] = m
    <2>1. PICK t1 : t1 = ticked[a]
      OBVIOUS
    <2>2. /\ p1 \in {"off", "follow", "replay", "replaysub", "live", "over"} /\ q1 \in Seq(Frame)
          /\ c1 \in [buf : Seq(Frame), open : BOOLEAN] /\ Len(c1.buf) <= Buffer
      <3>1. p1 \in {"off", "follow", "replay", "replaysub", "live", "over"}
        BY <1>0, <1>9
      <3>2. q1 \in Seq(Frame)
        BY <1>9, <1>11, NoSubIs
      <3>3. c1 \in [buf : Seq(Frame), open : BOOLEAN] /\ Len(c1.buf) <= Buffer
        BY <1>9, NoSubIs, ReaderIs
      <3> QED
        BY <3>1, <3>2, <3>3
    <2>3. m \in [seq : Nat, kind : Kind \union {"start", "cut"}]
      BY <1>5 DEF Frame
    <2>4. t1 \in BOOLEAN /\ ticked' = [ticked EXCEPT ![a] = t1]
      BY <1>10, <2>1, ReaderIs
    <2>5. failures' = failures /\ UNCHANGED <<seq, done, file, torn, ended, up, crashes>>
      BY <1>10
    <2>6. /\ pc' = [pc EXCEPT ![a] = p1] /\ past' = [past EXCEPT ![a] = q1]
          /\ chan' = [chan EXCEPT ![a] = c1] /\ shown' = [shown EXCEPT ![a] = m]
      BY <1>10
    <2> QED
      BY ZenonT(60), <2>2, <2>3, <2>4, <2>5, <2>6, HandlerStepIs
  <1>13. StreamStep
    <2>1. shown[a].seq < seq
      BY <1>0, <1>7, <1>8 DEF LineRight
    <2> QED
      BY <1>0, <1>5, <1>8, <1>10, <2>1, ShowIsStep DEF LineRight
  <1>14. CASE m.kind = "done"
    <2>1. ReaderInv(a)'
      BY <1>9, <1>12, <1>14, NoSubIs, ReaderOff DEF ReaderInv
    <2> QED
      BY <1>12, <1>13, <2>1 DEF Sound
  <1>15. CASE m.kind # "done"
    <2>1. p1 = pc[a] /\ q1 = Tail(w) /\ c1 = chan[a]
      BY <1>9, <1>15
    <2>2. ReadTo(a)' = e
      <3>1. CASE n = 1
        <4>1. q1 = << >>
          BY <1>11, <2>1, <3>1
        <4> QED
          BY <1>2, <1>5, <1>12, <3>1, <4>1 DEF ReadTo
      <3>2. CASE n > 1
        <4>1. /\ q1 # << >> /\ Len(q1) = n - 1 /\ n - 1 \in 1..n - 1 /\ (n - 1) + 1 = n
          BY <1>5, <1>11, <2>1, <3>2
        <4>2. q1[n - 1] = w[n]
          BY <1>11, <2>1, <4>1
        <4> QED
          BY <1>5, <1>12, <4>1, <4>2 DEF ReadTo
      <3> QED
        BY <1>5, <3>1, <3>2
    <2>3. ASSUME NEW i \in 1..Len(q1) PROVE q1[i].seq = e - Len(q1) + i /\ LineRight(q1[i], seq, done)
      <3>1. i \in 1..n - 1 /\ i + 1 \in 1..n /\ Len(q1) = n - 1 /\ i + 1 # 1
        BY <1>5, <1>11, <2>1
      <3>2. q1[i] = w[i + 1]
        BY <1>11, <2>1, <3>1
      <3>3. e - n + (i + 1) = e - Len(q1) + i
        <4>1. Len(q1) = n - 1 /\ i \in Nat
          BY <3>1
        <4>2. e \in Nat /\ n \in Nat
          BY <1>5, <1>7
        <4> HIDE <1>1, <1>2, <1>3, <1>4
        <4> QED
          BY <4>1, <4>2
      <3> QED
        BY <1>6, <3>1, <3>2, <3>3
    <2>4. PastInv(a)'
      <3>1. DOMAIN q1 = 1..Len(q1)
        BY <1>11, <2>1
      <3>2. ASSUME q1 # << >> PROVE q1[1].kind # "note" /\ q1[1].seq = m.seq + 1
        <4>1. 1 \in 1..Len(q1) /\ Len(q1) = n - 1
          BY <1>5, <1>11, <2>1, <3>2
        <4>2. q1[1].seq = e - Len(q1) + 1 /\ LineRight(q1[1], seq, done)
          BY <2>3, <4>1
        <4> QED
          BY SMTT(30), <1>5, <1>7, <4>1, <4>2 DEF LineRight
      <3> QED
        BY <1>10, <1>12, <2>2, <2>3, <3>1, <3>2 DEF PastInv
    <2>5. m.kind \in {"start", "out", "note"} /\ m.seq <= seq
      BY <1>0, <1>5, <1>7, <1>8, <1>15 DEF LineRight
    <2>6. pc[a] = "replaysub" => ChanInv(a)'
      <3>1. pc[a] = "replaysub" => ChanInv(a)
        BY ReaderIs DEF ReaderInv
      <3> QED
        BY <1>4, <1>10, <1>12, <2>1, <2>2, <3>1 DEF ChanInv
    <2>7. pc[a] # "replaysub" => ~chan[a].open
      BY <1>0, ReaderIs DEF ReaderInv
    <2>8. ReaderInv(a)'
      BY <1>0, <1>10, <1>12, <2>1, <2>4, <2>5, <2>6, <2>7 DEF ReaderInv
    <2> QED
      BY <1>12, <1>13, <2>8 DEF Sound
  <1> QED
    BY <1>14, <1>15

\* What was read is sent: the attacher listens to its channel.
LEMMA ReplayedSubKeeps ==
  ASSUME Sound, failures = 0, failures' = 0, NEW a \in Attacher, ReplayedSub(a)
  PROVE  Sound' /\ StreamStep
  <1>1. PICK q1, c1, s1, t1 : q1 = past[a] /\ c1 = chan[a] /\ s1 = shown[a] /\ t1 = ticked[a]
    OBVIOUS
  <1>2. /\ failures' = failures /\ UNCHANGED <<seq, done, file, torn, ended, up, crashes>>
        /\ pc' = [pc EXCEPT ![a] = "live"]
    BY DEF ReplayedSub, log
  <1>8. UNCHANGED <<past, chan, ticked, shown>> /\ pc[a] = "replaysub" /\ past[a] = << >>
    BY DEF ReplayedSub
  <1>3. /\ past' = [past EXCEPT ![a] = q1] /\ chan' = [chan EXCEPT ![a] = c1]
        /\ shown' = [shown EXCEPT ![a] = s1] /\ ticked' = [ticked EXCEPT ![a] = t1]
    BY <1>1, <1>8, ReaderIs
  <1>4. /\ q1 \in Seq(Frame) /\ c1 \in [buf : Seq(Frame), open : BOOLEAN] /\ Len(c1.buf) <= Buffer
        /\ s1 \in [seq : Nat, kind : Kind \union {"start", "cut"}] /\ t1 \in BOOLEAN
    BY <1>1, ReaderIs
  <1>5. /\ TypeOK' /\ FileInv' /\ \A b \in Attacher \ {a} : ReaderInv(b)'
        /\ pc'[a] = "live" /\ past'[a] = q1 /\ chan'[a] = c1 /\ shown'[a] = s1
    BY <1>2, <1>3, <1>4, HandlerStepIs
  <1>6. ReaderInv(a)'
    <2>1. ReaderInv(a) /\ ChanInv(a)
      BY <1>2, <1>8, ReaderIs DEF ReaderInv
    <2>2. ChanInv(a)'
      BY <1>2, <1>8, <2>1 DEF ChanInv, ReadTo
    <2> QED
      BY <1>1, <1>2, <1>8, <1>5, <2>1, <2>2 DEF ReaderInv
  <1>7. UNCHANGED Stream!svars
    BY <1>2, <1>8 DEF Stream!svars
  <1> QED
    BY <1>5, <1>6, <1>7 DEF Sound, StreamStep

\* The client is told that the output was cut short.
LEMMA TellCutKeeps ==
  ASSUME LogAssumption, Sound, failures = 0, failures' = 0, NEW a \in Attacher, TellCut(a),
         pc[a] \in {"replay", "live"},
         UNCHANGED <<seq, done, file, torn, ended, up, past, ticked, crashes>>
  PROVE  Sound' /\ StreamStep
  <1>1. PICK q1, c1, s1, t1 : /\ q1 = past[a] /\ c1 = NoSub /\ s1 = [shown[a] EXCEPT !.kind = "cut"]
                              /\ t1 = ticked[a]
    OBVIOUS
  <1>2. /\ failures' = failures /\ UNCHANGED <<seq, done, file, torn, ended, up, crashes>>
        /\ pc' = [pc EXCEPT ![a] = "over"]
    BY DEF TellCut
  <1>3. /\ past' = [past EXCEPT ![a] = q1] /\ chan' = [chan EXCEPT ![a] = c1]
        /\ shown' = [shown EXCEPT ![a] = s1] /\ ticked' = [ticked EXCEPT ![a] = t1]
    <2>1. shown' = [shown EXCEPT ![a] = [shown[a] EXCEPT !.kind = "cut"]]
      BY DEF TellCut
    <2>2. past' = past /\ ticked' = ticked /\ chan' = [chan EXCEPT ![a] = NoSub]
      BY DEF TellCut
    <2> QED
      BY <1>1, <2>1, <2>2, ReaderIs
  <1>4. /\ q1 \in Seq(Frame) /\ c1 \in [buf : Seq(Frame), open : BOOLEAN] /\ Len(c1.buf) <= Buffer
        /\ s1 \in [seq : Nat, kind : Kind \union {"start", "cut"}] /\ t1 \in BOOLEAN
    BY <1>1, ReaderIs, NoSubIs
  <1>5. /\ TypeOK' /\ FileInv' /\ \A b \in Attacher \ {a} : ReaderInv(b)'
        /\ pc'[a] = "over" /\ past'[a] = q1 /\ chan'[a] = c1 /\ shown'[a] = s1
    BY ZenonT(60), <1>2, <1>3, <1>4, HandlerStepIs
  <1>6. ReaderInv(a)'
    BY <1>1, <1>5, NoSubIs DEF ReaderInv
  <1>7. StreamStep
    <2>1. shown[a].kind \in {"start", "out", "note"}
      BY ReaderIs DEF ReaderInv
    <2>2. Stream!ShowCut(a)
      BY <1>2, <2>1 DEF Stream!ShowCut, Stream!Watching, TellCut
    <2> QED
      BY <2>2 DEF StreamStep, Stream!SNext
  <1> QED
    BY <1>5, <1>6, <1>7 DEF Sound

\* A finished log whose file has no more.
LEMMA ReplayedAllKeeps ==
  ASSUME LogAssumption, Sound, failures = 0, failures' = 0, NEW a \in Attacher, ReplayedAll(a)
  PROVE  Sound' /\ StreamStep
  <1>1. /\ TellCut(a) /\ pc[a] \in {"replay", "live"}
        /\ UNCHANGED <<seq, done, file, torn, ended, up, past, ticked, crashes>>
    BY DEF ReplayedAll, log
  <1> QED
    BY <1>1, TellCutKeeps

\* The ticker.
LEMMA TickKeeps ==
  ASSUME LogAssumption, Sound, failures = 0, failures' = 0, NEW a \in Attacher, Tick(a)
  PROVE  Sound' /\ StreamStep
  <1>1. CASE ticked' = [ticked EXCEPT ![a] = TRUE] /\ UNCHANGED <<pc, chan, shown>>
    <2>1. PICK p1, q1, c1, s1 : p1 = pc[a] /\ q1 = past[a] /\ c1 = chan[a] /\ s1 = shown[a]
      OBVIOUS
    <2>2. failures' = failures /\ UNCHANGED <<seq, done, file, torn, ended, up, crashes, past>>
      BY DEF Tick, log
    <2>3. PICK t1 : t1 = TRUE
      OBVIOUS
    <2>4. /\ pc' = [pc EXCEPT ![a] = p1] /\ past' = [past EXCEPT ![a] = q1] /\ chan' = [chan EXCEPT ![a] = c1]
          /\ shown' = [shown EXCEPT ![a] = s1] /\ ticked' = [ticked EXCEPT ![a] = t1]
      BY <1>1, <2>1, <2>2, <2>3, ReaderIs
    <2>5. /\ p1 \in {"off", "follow", "replay", "replaysub", "live", "over"} /\ q1 \in Seq(Frame)
          /\ c1 \in [buf : Seq(Frame), open : BOOLEAN] /\ Len(c1.buf) <= Buffer
          /\ s1 \in [seq : Nat, kind : Kind \union {"start", "cut"}] /\ t1 \in BOOLEAN
      BY <2>1, <2>3, ReaderIs
    <2>6. TypeOK' /\ FileInv' /\ \A b \in Attacher \ {a} : ReaderInv(b)'
      BY <2>2, <2>4, <2>5, HandlerStepIs
    <2>7. ReaderInv(a)'
      <3>1. ReaderInv(a)
        BY ReaderIs
      <3> QED
        BY <1>1, <2>2, <3>1 DEF ReaderInv, PastInv, ChanInv, ReadTo
    <2>8. UNCHANGED Stream!svars
      BY <1>1, <2>2 DEF Stream!svars
    <2> QED
      BY <2>6, <2>7, <2>8 DEF Sound, StreamStep
  <1>2. CASE TellCut(a) /\ UNCHANGED ticked
    <2>1. pc[a] \in {"replay", "live"} /\ UNCHANGED <<seq, done, file, torn, ended, up, past, ticked, crashes>>
      BY <1>2 DEF Tick, log
    <2> QED
      BY <1>2, <2>1, TellCutKeeps
  <1> QED
    BY <1>1, <1>2 DEF Tick

\* The channel is closed and drained.
LEMMA ChannelClosedKeeps ==
  ASSUME LogAssumption, Sound, failures = 0, failures' = 0, NEW a \in Attacher, ChannelClosed(a)
  PROVE  Sound' /\ StreamStep
  <1>1. PICK q1, c1, s1, t1 : q1 = past[a] /\ c1 = chan[a] /\ s1 = shown[a] /\ t1 = ticked[a]
    OBVIOUS
  <1>2. /\ failures' = failures /\ UNCHANGED <<seq, done, file, torn, ended, up, crashes>>
        /\ pc' = [pc EXCEPT ![a] = "follow"]
    BY DEF ChannelClosed, log
  <1>8. UNCHANGED <<past, chan, ticked, shown>> /\ pc[a] = "live" /\ chan[a] = NoSub
    BY DEF ChannelClosed
  <1>3. /\ past' = [past EXCEPT ![a] = q1] /\ chan' = [chan EXCEPT ![a] = c1]
        /\ shown' = [shown EXCEPT ![a] = s1] /\ ticked' = [ticked EXCEPT ![a] = t1]
    BY <1>1, <1>8, ReaderIs
  <1>4. /\ q1 \in Seq(Frame) /\ c1 \in [buf : Seq(Frame), open : BOOLEAN] /\ Len(c1.buf) <= Buffer
        /\ s1 \in [seq : Nat, kind : Kind \union {"start", "cut"}] /\ t1 \in BOOLEAN
    BY <1>1, ReaderIs
  <1>5. /\ TypeOK' /\ FileInv' /\ \A b \in Attacher \ {a} : ReaderInv(b)'
        /\ pc'[a] = "follow" /\ past'[a] = q1 /\ chan'[a] = c1 /\ shown'[a] = s1
    BY <1>2, <1>3, <1>4, HandlerStepIs
  <1>6. ReaderInv(a)'
    <2>1. ReaderInv(a)
      BY ReaderIs
    <2>2. c1.open = FALSE
      BY <1>1, <1>2, <1>8, NoSubIs
    <2> QED
      BY <1>1, <1>2, <1>8, <1>5, <2>1, <2>2 DEF ReaderInv
  <1>7. UNCHANGED Stream!svars
    BY <1>2, <1>8 DEF Stream!svars
  <1> QED
    BY <1>5, <1>6, <1>7 DEF Sound, StreamStep

\* The client goes away.
LEMMA LeaveKeeps ==
  ASSUME LogAssumption, Sound, failures = 0, failures' = 0, NEW a \in Attacher, Leave(a)
  PROVE  Sound' /\ StreamStep
  <1>1. PICK q1, c1, s1, t1 : q1 = << >> /\ c1 = NoSub /\ s1 = shown[a] /\ t1 = ticked[a]
    OBVIOUS
  <1>2. /\ failures' = failures /\ UNCHANGED <<seq, done, file, torn, ended, up, crashes>>
        /\ pc' = [pc EXCEPT ![a] = "off"]
    BY DEF Leave, log
  <1>8. UNCHANGED <<ticked, shown>>
    BY DEF Leave
  <1>3. /\ past' = [past EXCEPT ![a] = q1] /\ chan' = [chan EXCEPT ![a] = c1]
        /\ shown' = [shown EXCEPT ![a] = s1] /\ ticked' = [ticked EXCEPT ![a] = t1]
    BY <1>1, <1>2, <1>8, ReaderIs DEF Leave
  <1>4. /\ q1 \in Seq(Frame) /\ c1 \in [buf : Seq(Frame), open : BOOLEAN] /\ Len(c1.buf) <= Buffer
        /\ s1 \in [seq : Nat, kind : Kind \union {"start", "cut"}] /\ t1 \in BOOLEAN
    BY <1>1, ReaderIs, NoSubIs
  <1>5. /\ TypeOK' /\ FileInv' /\ \A b \in Attacher \ {a} : ReaderInv(b)'
        /\ pc'[a] = "off" /\ past'[a] = q1 /\ chan'[a] = c1 /\ shown'[a] = s1
    BY <1>2, <1>3, <1>4, HandlerStepIs
  <1>6. ReaderInv(a)'
    BY <1>1, <1>5, NoSubIs DEF ReaderInv
  <1>7. UNCHANGED Stream!svars
    BY <1>2, <1>8 DEF Stream!svars
  <1> QED
    BY <1>5, <1>6, <1>7 DEF Sound, StreamStep

\* A client attaches.
LEMMA AttachKeeps ==
  ASSUME LogAssumption, Sound, failures = 0, failures' = 0, NEW a \in Attacher, Attach(a)
  PROVE  Sound' /\ StreamStep
  <1>1. PICK q1, c1, s1, t1 : q1 = past[a] /\ c1 = chan[a] /\ s1 = Start /\ t1 = FALSE
    OBVIOUS
  <1>2. /\ failures' = failures /\ UNCHANGED <<seq, done, file, torn, ended, up, crashes>>
        /\ pc' = [pc EXCEPT ![a] = "follow"]
    BY DEF Attach, log
  <1>8. UNCHANGED <<past, chan>> /\ pc[a] = "off"
    BY DEF Attach
  <1>3. /\ past' = [past EXCEPT ![a] = q1] /\ chan' = [chan EXCEPT ![a] = c1]
        /\ shown' = [shown EXCEPT ![a] = s1] /\ ticked' = [ticked EXCEPT ![a] = t1]
    BY <1>1, <1>2, <1>8, ReaderIs DEF Attach
  <1>4. /\ q1 \in Seq(Frame) /\ c1 \in [buf : Seq(Frame), open : BOOLEAN] /\ Len(c1.buf) <= Buffer
        /\ s1 \in [seq : Nat, kind : Kind \union {"start", "cut"}] /\ t1 \in BOOLEAN
        /\ s1.seq = 0 /\ s1.kind = "start"
    BY <1>1, ReaderIs DEF Start
  <1>5. /\ TypeOK' /\ FileInv' /\ \A b \in Attacher \ {a} : ReaderInv(b)'
        /\ pc'[a] = "follow" /\ past'[a] = q1 /\ chan'[a] = c1 /\ shown'[a] = s1
    BY ZenonT(60), <1>2, <1>3, <1>4, HandlerStepIs
  <1>6. ReaderInv(a)'
    <2>1. ~chan[a].open /\ seq \in Nat
      BY <1>2, <1>8, ReaderIs DEF ReaderInv
    <2> QED
      BY <1>1, <1>2, <1>8, <1>4, <1>5, <2>1 DEF ReaderInv
  <1>7. StreamStep
    <2>1. shown' = [v \in Attacher |-> IF v \in {a} THEN Stream!Start ELSE shown[v]]
      BY <1>1, <1>3, ReaderIs DEF Stream!Start, Start, TypeOK
    <2>2. Stream!StartAgain({a}) /\ {a} \in SUBSET Attacher
      BY <1>2, <1>8, <2>1 DEF Stream!StartAgain
    <2> QED
      BY <2>2 DEF StreamStep, Stream!SNext
  <1> QED
    BY <1>5, <1>6, <1>7 DEF Sound

\* A frame from the channel: always the next one, so none is passed over.
LEMMA ReceiveKeeps ==
  ASSUME LogAssumption, Sound, failures = 0, failures' = 0, NEW a \in Attacher, Receive(a)
  PROVE  Sound' /\ StreamStep
  <1>1. /\ pc[a] = "live" /\ past[a] = << >> /\ ChanInv(a) /\ chan[a].buf # << >>
        /\ shown[a].kind \in {"start", "out", "note"} /\ shown[a].seq <= seq
    BY ReaderIs DEF Receive, ReaderInv
  <1>2. /\ shown[a] \in [seq : Nat, kind : Kind \union {"start", "cut"}] /\ seq \in Nat /\ done \in BOOLEAN
        /\ chan[a] \in [buf : Seq(Frame), open : BOOLEAN] /\ Len(chan[a].buf) <= Buffer /\ TypeOK
        /\ past[a] \in Seq(Frame) /\ Buffer \in Nat
    BY ReaderIs DEF LogAssumption
  <1>3. PICK x : x = shown[a].seq
    OBVIOUS
  <1>4. PICK b : b = chan[a].buf
    OBVIOUS
  <1>5. PICK n : n = Len(b)
    OBVIOUS
  <1>6. PICK m : m = b[1]
    OBVIOUS
  <1>7. b \in Seq(Frame) /\ n \in Nat /\ n >= 1 /\ m \in Frame /\ Head(b) = m /\ x \in Nat /\ n <= Buffer
    BY <1>1, <1>2, <1>3, <1>4, <1>5, <1>6
  <1>8. \A i \in 1..n : b[i].seq = x + i /\ LineRight(b[i], seq, done)
    BY <1>1, <1>3, <1>4, <1>5, <1>7 DEF ChanInv, ReadTo
  <1>9. m.seq = x + 1 /\ LineRight(m, seq, done) /\ m.seq <= seq /\ x < seq
    <2>1. 1 \in 1..n
      BY <1>7
    <2>2. m.seq = x + 1 /\ LineRight(m, seq, done)
      BY <1>6, <1>8, <2>1
    <2> QED
      BY <1>2, <1>7, <2>2 DEF LineRight
  <1>10. PICK t : t = Tail(b)
    OBVIOUS
  <1>11. t \in Seq(Frame) /\ Len(t) = n - 1 /\ \A i \in 1..n - 1 : t[i] = b[i + 1]
    BY <1>5, <1>7, <1>10
  <1>12. PICK p1, c1 : /\ p1 = IF m.kind = "done" THEN "over" ELSE "live"
                       /\ c1 = IF m.kind = "done" THEN NoSub ELSE [chan[a] EXCEPT !.buf = t]
    OBVIOUS
  <1>13. PICK q1, t1 : q1 = << >> /\ t1 = ticked[a]
    OBVIOUS
  <1>14. /\ shown' = [shown EXCEPT ![a] = m]
         /\ pc' = [pc EXCEPT ![a] = p1]
         /\ chan' = [chan EXCEPT ![a] = c1]
    <2>1. ~(Head(chan[a].buf).seq <= shown[a].seq)
      BY <1>3, <1>4, <1>7, <1>9
    <2>2. /\ shown' = [shown EXCEPT ![a] = m]
          /\ pc' = [pc EXCEPT ![a] = IF m.kind = "done" THEN "over" ELSE pc[a]]
          /\ chan' = [chan EXCEPT ![a] = IF m.kind = "done" THEN NoSub
                                         ELSE [chan[a] EXCEPT !.buf = Tail(chan[a].buf)]]
      <3>1. \/ Head(chan[a].buf).seq <= shown[a].seq
            \/ /\ shown' = [shown EXCEPT ![a] = Head(chan[a].buf)]
               /\ pc' = [pc EXCEPT ![a] = IF Head(chan[a].buf).kind = "done" THEN "over" ELSE pc[a]]
               /\ chan' = [chan EXCEPT ![a] = IF Head(chan[a].buf).kind = "done" THEN NoSub
                                         ELSE [chan[a] EXCEPT !.buf = Tail(chan[a].buf)]]
        <4>1. PICK h : h = Head(chan[a].buf)
          OBVIOUS
        <4>2. \/ h.seq <= shown[a].seq
              \/ /\ shown' = [shown EXCEPT ![a] = h]
                 /\ pc' = [pc EXCEPT ![a] = IF h.kind = "done" THEN "over" ELSE pc[a]]
                 /\ chan' = [chan EXCEPT ![a] = IF h.kind = "done" THEN NoSub
                                           ELSE [chan[a] EXCEPT !.buf = Tail(chan[a].buf)]]
          BY <4>1 DEF Receive
        <4> QED
          BY <4>1, <4>2
      <3>2. Head(chan[a].buf) = m
        BY <1>4, <1>7
      <3> QED
        BY <2>1, <3>1, <3>2
    <2> QED
      BY <1>1, <1>4, <1>10, <1>12, <2>2
  <1>15. failures' = failures /\ UNCHANGED <<seq, done, file, torn, ended, up, crashes>>
    BY DEF Receive, log
  <1>16. past' = [past EXCEPT ![a] = q1] /\ ticked' = [ticked EXCEPT ![a] = t1]
    <2>1. UNCHANGED <<past, ticked>>
      BY DEF Receive
    <2> QED
      BY <1>1, <1>13, <2>1, ReaderIs
  <1>17. m.kind # "done" => /\ c1 \in [buf : Seq(Frame), open : BOOLEAN] /\ c1.buf = t /\ c1.open = chan[a].open
    BY <1>2, <1>11, <1>12
  <1>18. c1 \in [buf : Seq(Frame), open : BOOLEAN] /\ Len(c1.buf) <= Buffer
    <2>1. CASE m.kind = "done"
      BY <1>12, <2>1, NoSubIs
    <2>2. CASE m.kind # "done"
      BY <1>2, <1>7, <1>11, <1>17, <2>2
    <2> QED
      BY <2>1, <2>2
  <1>19. /\ p1 \in {"off", "follow", "replay", "replaysub", "live", "over"} /\ q1 \in Seq(Frame)
         /\ m \in [seq : Nat, kind : Kind \union {"start", "cut"}] /\ t1 \in BOOLEAN
    <2>1. m \in [seq : Nat, kind : Kind \union {"start", "cut"}]
      BY <1>7 DEF Frame
    <2>2. t1 \in BOOLEAN /\ q1 \in Seq(Frame)
      BY <1>13, ReaderIs, NoSubIs
    <2> QED
      BY <1>12, <2>1, <2>2
  <1>20. /\ TypeOK' /\ FileInv' /\ \A b1 \in Attacher \ {a} : ReaderInv(b1)'
         /\ pc'[a] = p1 /\ past'[a] = q1 /\ chan'[a] = c1 /\ shown'[a] = m
    BY ZenonT(60), <1>14, <1>15, <1>16, <1>18, <1>19, HandlerStepIs
  <1>21. StreamStep
    <2>1. UNCHANGED <<seq, done>>
      BY <1>15
    <2> QED
      BY <1>1, <1>2, <1>3, <1>7, <1>9, <1>14, <2>1, ShowIsStep
  <1>22. CASE m.kind = "done"
    <2>1. ReaderInv(a)'
      BY <1>12, <1>20, <1>22, NoSubIs, ReaderOff DEF ReaderInv
    <2> QED
      BY <1>20, <1>21, <2>1 DEF Sound
  <1>23. CASE m.kind # "done"
    <2>1. p1 = "live" /\ c1.buf = t /\ c1.open = chan[a].open
      BY <1>12, <1>17, <1>23
    <2>2. ReadTo(a)' = x + 1
      BY <1>9, <1>13, <1>20 DEF ReadTo
    <2>3. ASSUME NEW i \in 1..Len(t) PROVE t[i].seq = (x + 1) + i /\ LineRight(t[i], seq, done)
      <3>1. i \in 1..n - 1 /\ i + 1 \in 1..n
        BY <1>7, <1>11
      <3>2. t[i] = b[i + 1] /\ b[i + 1].seq = x + (i + 1)
        BY <1>8, <1>11, <3>1
      <3> QED
        BY <1>7, <1>8, <3>1, <3>2
    <2>4. c1.open => ~done /\ (x + 1) + Len(t) = seq
      <3>1. chan[a].open => ~done /\ x + n = seq
        BY <1>1, <1>3, <1>4, <1>5 DEF ChanInv, ReadTo
      <3> QED
        BY <1>7, <1>11, <2>1, <3>1
    <2>5. ChanInv(a)'
      <3>1. DOMAIN t = 1..Len(t)
        BY <1>11
      <3> QED
        BY <1>15, <1>20, <2>1, <2>2, <2>3, <2>4, <3>1 DEF ChanInv
    <2>6. m.kind \in {"start", "out", "note"} /\ m.seq <= seq
      BY <1>9, <1>23 DEF LineRight
    <2>7. ReaderInv(a)'
      BY <1>13, <1>15, <1>20, <2>1, <2>5, <2>6 DEF ReaderInv
    <2> QED
      BY <1>20, <1>21, <2>7 DEF Sound
  <1> QED
    BY <1>22, <1>23

\* Every step of an attach handler.
LEMMA AttacherKeeps ==
  ASSUME LogAssumption, Sound, failures = 0, failures' = 0, NEW a \in Attacher,
         Attach(a) \/ AttachStep(a) \/ Tick(a) \/ Leave(a)
  PROVE  Sound' /\ StreamStep
  BY FollowKeeps, ReplayKeeps, ReplayedSubKeeps, ReplayedAllKeeps, ReceiveKeeps, ChannelClosedKeeps,
     AttachKeeps, TickKeeps, LeaveKeeps DEF AttachStep

\* The done frame is recorded.
LEMMA RecordDoneKeeps ==
  ASSUME LogAssumption, Sound, failures = 0, failures' = 0, ~done, RecordDone,
         UNCHANGED handler, up' \in BOOLEAN, ended' \in BOOLEAN, crashes' = crashes
  PROVE  Sound' /\ StreamStep
  <1>1. PICK m : m = [seq |-> seq + 1, kind |-> "done"]
    OBVIOUS
  <1>2. done' /\ done' \in BOOLEAN /\ seq' = seq + 1 /\ WriteFile(m) /\ chan' = Closed(FanOut(m))
    BY <1>1 DEF RecordDone
  <1>3. m \in Frame /\ m.seq = seq + 1 /\ m.kind = IF done' THEN "done" ELSE "out"
    <2>1. seq \in Nat
      BY DEF Sound, TypeOK
    <2> QED
      BY <1>1, <1>2, <2>1 DEF Frame, Kind
  <1>4. chan' = IF done' THEN Closed(FanOut(m)) ELSE FanOut(m)
    BY <1>2
  <1>5. UNCHANGED <<pc, past, shown, ticked>>
    BY DEF handler
  <1> QED
    BY <1>2, <1>3, <1>4, <1>5, ProduceKeeps

\* A frame of output is recorded.
LEMMA AppendFrameKeeps ==
  ASSUME LogAssumption, Sound, failures = 0, failures' = 0, AppendFrame
  PROVE  Sound' /\ StreamStep
  <1>1. PICK m : m = [seq |-> seq + 1, kind |-> "out"]
    OBVIOUS
  <1>0. /\ ~done /\ WriteFile(m) /\ chan' = FanOut(m) /\ seq' = seq + 1
        /\ done' = done /\ ended' = ended /\ up' = up /\ crashes' = crashes
    BY <1>1 DEF AppendFrame
  <1>2. /\ ~done /\ ~done' /\ done' \in BOOLEAN /\ seq' = seq + 1 /\ WriteFile(m)
        /\ up' \in BOOLEAN /\ ended' \in BOOLEAN /\ crashes' = crashes
    BY <1>0 DEF Sound, TypeOK
  <1>3. m \in Frame /\ m.seq = seq + 1 /\ m.kind = IF done' THEN "done" ELSE "out"
    <2>1. seq \in Nat
      BY DEF Sound, TypeOK
    <2> QED
      BY <1>1, <1>2, <2>1 DEF Frame, Kind
  <1>4. chan' = IF done' THEN Closed(FanOut(m)) ELSE FanOut(m)
    BY <1>0, <1>2
  <1>5. UNCHANGED <<pc, past, shown, ticked>>
    BY DEF AppendFrame, handler
  <1> QED
    BY <1>2, <1>3, <1>4, <1>5, ProduceKeeps

\* Nothing of the log or of an attacher changes.
LEMMA LogStays ==
  ASSUME Sound, UNCHANGED <<seq, done, file, torn, pc, past, chan, ticked, shown, failures, crashes>>,
         up' \in BOOLEAN, ended' \in BOOLEAN
  PROVE  Sound' /\ StreamStep
  <1>1. TypeOK'
    BY DEF Sound, TypeOK
  <1>2. FileInv'
    BY DEF Sound, FileInv
  <1>3. \A a \in Attacher : ReaderInv(a)'
    BY DEF Sound, ReaderInv, PastInv, ChanInv, ReadTo
  <1>4. UNCHANGED Stream!svars
    BY DEF Stream!svars
  <1> QED
    BY <1>1, <1>2, <1>3, <1>4 DEF Sound, StreamStep

\* The daemon dies: the file says what was recorded.
LEMMA CrashKeeps ==
  ASSUME LogAssumption, Sound, failures = 0, failures' = 0, Crash
  PROVE  Sound' /\ StreamStep
  <1>1. TypeOK /\ FileInv /\ seq \in Nat /\ done \in BOOLEAN /\ file \in Seq(Frame) /\ Len(file) \in Nat
    BY DEF Sound, TypeOK
  <1>2. LastSeq(file) = seq /\ HasDone(file) = done
    <2>1. CASE file = << >>
      <3>1. seq = 0 /\ ~done /\ DOMAIN file = {}
        BY <1>1, <2>1 DEF FileInv
      <3>2. LastSeq(file) = 0
        BY <2>1 DEF LastSeq
      <3>3. HasDone(file) = FALSE
        BY <3>1 DEF HasDone
      <3>4. done = FALSE
        BY <1>1, <3>1
      <3> QED
        BY <3>1, <3>2, <3>3, <3>4
    <2>2. CASE file # << >>
      <3>1. Len(file) \in 1..Len(file) /\ DOMAIN file = 1..Len(file)
        BY <1>1, <2>2
      <3>2. \A i \in 1..Len(file) :
              /\ file[i].seq = seq - Len(file) + i
              /\ LineRight(file[i], seq, done) \/ (i = 1 /\ file[i].kind = "note")
        BY <1>1, <3>1 DEF FileInv
      <3>3. LastSeq(file) = seq
        BY <1>1, <2>2, <3>1, <3>2 DEF LastSeq
      <3>4. HasDone(file) => done
        BY <3>1, <3>2 DEF HasDone, LineRight
      <3>5. done => HasDone(file)
        <4>1. SUFFICES ASSUME done PROVE file[Len(file)].kind = "done"
          BY <3>1 DEF HasDone
        <4>2. file[Len(file)].seq = seq
          BY <1>1, <3>1, <3>2
        <4>3. ~(Len(file) = 1 /\ file[Len(file)].kind = "note")
          BY <1>1, <2>2 DEF FileInv
        <4>4. LineRight(file[Len(file)], seq, done)
          BY <3>1, <3>2, <4>3
        <4> QED
          BY <4>1, <4>2, <4>4 DEF LineRight
      <3>6. HasDone(file) \in BOOLEAN
        BY DEF HasDone
      <3> QED
        BY <1>1, <3>3, <3>4, <3>5, <3>6
    <2> QED
      BY <2>1, <2>2
  <1>3. /\ UNCHANGED <<seq, done, file, torn, ended, ticked, shown>> /\ up' = FALSE
        /\ crashes' = crashes + 1
        /\ pc' = [a \in Attacher |-> "off"] /\ past' = [a \in Attacher |-> << >>]
        /\ chan' = [a \in Attacher |-> NoSub]
    BY <1>2 DEF Crash
  <1>8. up' = FALSE /\ crashes' = crashes + 1
    BY DEF Crash
  <1>4. FileInv'
    BY <1>1, <1>3 DEF FileInv
  <1>5. TypeOK'
    <2>1. chan' \in [Attacher -> [buf : Seq(Frame), open : BOOLEAN]] /\ \A a \in Attacher : Len(chan'[a].buf) <= Buffer
      BY <1>3, NoSubIs
    <2>2. past' \in [Attacher -> Seq(Frame)]
      BY <1>3, NoSubIs
    <2>3. pc' \in [Attacher -> {"off", "follow", "replay", "replaysub", "live", "over"}]
      BY <1>3
    <2>4. crashes' \in Nat /\ failures' \in Nat /\ up' \in BOOLEAN
      <3>1. crashes \in Nat
        BY <1>1 DEF TypeOK
      <3>2. up' \in BOOLEAN
        BY <1>8
      <3> QED
        BY <1>8, <3>1, <3>2
    <2>5. /\ seq' \in Nat /\ done' \in BOOLEAN /\ file' \in Seq(Frame) /\ torn' \in BOOLEAN
          /\ ended' \in BOOLEAN /\ ticked' \in [Attacher -> BOOLEAN]
          /\ shown' \in [Attacher -> [seq : Nat, kind : Kind \union {"start", "cut"}]]
      BY <1>1, <1>3 DEF TypeOK
    <2> QED
      BY <2>1, <2>2, <2>3, <2>4, <2>5 DEF TypeOK
  <1>6. ASSUME NEW a \in Attacher PROVE ReaderInv(a)'
    <2>1. pc'[a] = "off" /\ chan'[a] = NoSub
      BY <1>3
    <2> QED
      BY <2>1, NoSubIs DEF ReaderInv
  <1>7. UNCHANGED Stream!svars
    BY <1>3 DEF Stream!svars
  <1> QED
    BY <1>4, <1>5, <1>6, <1>7 DEF Sound, StreamStep

\* It starts again.
LEMMA RestartKeeps ==
  ASSUME LogAssumption, Sound, failures = 0, failures' = 0, Restart
  PROVE  Sound' /\ StreamStep
  <1>1. up' = TRUE /\ ended' = TRUE /\ UNCHANGED <<pc, past, ticked, shown>> /\ UNCHANGED handler /\ crashes' = crashes
    BY DEF Restart, handler
  <1>2. CASE UNCHANGED <<log, chan>>
    BY <1>1, <1>2, LogStays DEF log
  <1>3. CASE ~done /\ RecordDone
    BY <1>1, <1>3, RecordDoneKeeps
  <1> QED
    BY <1>2, <1>3 DEF Restart

\* A write that failed is not taken back.
LEMMA FailuresStay ==
  ASSUME failures \in Nat, [Next]_vars
  PROVE  failures' \in Nat /\ (failures > 0 => failures' > 0)
  <1>1. ASSUME NEW m, WriteFile(m) PROVE failures' \in Nat /\ (failures > 0 => failures' > 0)
    <2>1. failures' = failures \/ failures' = failures + 1
      BY <1>1, Zenon DEF WriteFile
    <2> QED
      BY <2>1
  <1>2. CASE AppendFrame
    BY <1>1, <1>2 DEF AppendFrame
  <1>3. ASSUME RecordDone PROVE failures' \in Nat /\ (failures > 0 => failures' > 0)
    BY <1>1, <1>3 DEF RecordDone
  <1>4. CASE Finish \/ Restart
    BY <1>3, <1>4 DEF Finish, Restart, log
  <1>5. ASSUME NEW a \in Attacher, Attach(a) \/ AttachStep(a) \/ Tick(a) \/ Leave(a)
        PROVE  failures' = failures
    BY <1>5 DEF Attach, AttachStep, Tick, Leave, Follow, Replay, ReplayedSub, ReplayedAll, Receive, ChannelClosed, log
  <1>6. CASE SetStatus \/ Crash \/ UNCHANGED vars
    BY <1>6 DEF SetStatus, Crash, log, vars
  <1> QED
    BY <1>2, <1>4, <1>5, <1>6 DEF Next

\* Every step keeps the log and its attachers right, and is the stream's.
LEMMA LogStep ==
  ASSUME LogAssumption, LogInv, [Next]_vars
  PROVE  LogInv' /\ [failures' > 0 \/ Stream!SNext]_(Stream!svars)
  <1>1. failures' \in Nat /\ (failures > 0 => failures' > 0)
    BY FailuresStay DEF LogInv
  <1>2. CASE failures' = 0
    <2>1. failures = 0 /\ Sound
      BY <1>1, <1>2 DEF LogInv
    <2>2. Sound' /\ StreamStep
      <3>1. CASE AppendFrame
        BY <1>2, <2>1, <3>1, AppendFrameKeeps
      <3>2. CASE Finish
        <4>1. ~done /\ RecordDone /\ UNCHANGED handler /\ up' \in BOOLEAN /\ ended' \in BOOLEAN /\ crashes' = crashes
          BY <2>1, <3>2 DEF Finish, Sound, TypeOK
        <4> QED
          BY <1>2, <2>1, <4>1, RecordDoneKeeps
      <3>3. CASE SetStatus
        <4>1. /\ UNCHANGED <<seq, done, file, torn, pc, past, chan, ticked, shown, failures, crashes>>
              /\ up' \in BOOLEAN /\ ended' \in BOOLEAN
          BY <2>1, <3>3 DEF SetStatus, Sound, TypeOK, log, handler
        <4> QED
          BY <2>1, <4>1, LogStays
      <3>4. ASSUME NEW a \in Attacher, Attach(a) \/ AttachStep(a) \/ Tick(a) \/ Leave(a)
            PROVE  Sound' /\ StreamStep
        BY <1>2, <2>1, <3>4, AttacherKeeps
      <3>5. CASE Crash
        BY <1>2, <2>1, <3>5, CrashKeeps
      <3>6. CASE Restart
        BY <1>2, <2>1, <3>6, RestartKeeps
      <3>7. CASE UNCHANGED vars
        <4>1. /\ UNCHANGED <<seq, done, file, torn, pc, past, chan, ticked, shown, failures, crashes>>
              /\ up' \in BOOLEAN /\ ended' \in BOOLEAN
          BY <2>1, <3>7 DEF vars, Sound, TypeOK
        <4> QED
          BY <2>1, <4>1, LogStays
      <3> QED
        BY <3>1, <3>2, <3>3, <3>4, <3>5, <3>6, <3>7 DEF Next
    <2> QED
      BY <1>1, <2>2 DEF LogInv, StreamStep
  <1>3. CASE failures' > 0
    BY <1>1, <1>3 DEF LogInv
  <1> QED
    BY <1>1, <1>2, <1>3

\* A log starts right, as the stream does.
LEMMA LogStarts ==
  ASSUME LogAssumption, Init
  PROVE  LogInv /\ Stream!SInit
  <1>1. TypeOK
    <2>1. << >> \in Seq(Frame) /\ NoSub \in [buf : Seq(Frame), open : BOOLEAN] /\ Len(NoSub.buf) <= Buffer
      BY NoSubIs
    <2>2. chan \in [Attacher -> [buf : Seq(Frame), open : BOOLEAN]] /\ \A a \in Attacher : Len(chan[a].buf) <= Buffer
      BY <2>1 DEF Init
    <2>3. past \in [Attacher -> Seq(Frame)] /\ file \in Seq(Frame)
      BY <2>1 DEF Init
    <2>4. shown \in [Attacher -> [seq : Nat, kind : Kind \union {"start", "cut"}]]
      BY DEF Init, Start
    <2> QED
      BY <2>2, <2>3, <2>4 DEF TypeOK, Init
  <1>2. FileInv
    <2>1. Len(file) = 0 /\ DOMAIN file = {} /\ file = << >>
      BY DEF Init
    <2> QED
      BY <2>1 DEF FileInv, Init
  <1>3. ASSUME NEW a \in Attacher PROVE ReaderInv(a)
    <2>1. pc[a] = "off" /\ chan[a] = NoSub
      BY DEF Init
    <2> QED
      BY <2>1, NoSubIs DEF ReaderInv
  <1>4. Stream!SInit
    BY DEF Init, Stream!SInit, Start, Stream!Start
  <1>5. failures \in Nat
    BY DEF Init
  <1> QED
    BY <1>1, <1>2, <1>3, <1>4, <1>5 DEF LogInv, Sound

\* The output log implements OutputStream until a write of the file fails
\* (joblog.go, attach.go): whatever a handler reads back, however the file is
\* trimmed, the attacher cut loose or the daemon restarted, each attacher is
\* shown the job's frames in order and once, with gaps only behind a note.
THEOREM LogIsStream == Spec => StreamPromise
  <1>1. Init => LogInv /\ Stream!SInit
    BY LogAssumption, LogStarts
  <1>2. LogInv /\ [Next]_vars => LogInv' /\ [failures' > 0 \/ Stream!SNext]_(Stream!svars)
    BY LogAssumption, LogStep
  <1> QED
    BY <1>1, <1>2, PTL DEF Spec, StreamPromise

-----------------------------------------------------------------------------
\* Shares, reports of the ranks, and what the lead and the ranks keep (DdpShares).
Weights == [SharerIds -> Nat]
Sharing  == {w \in Weights : Having(w) # {}}
Reports == UNION {[S -> [samples : Nat, rate : Speeds]] : S \in SUBSET SharerIds}

LeadTypes ==
    [shares : Weights \cup {<<>>}, reports : Reports, dropped : SUBSET SharerIds,
     gone : SUBSET SharerIds, kept : Nat, diloco : BOOLEAN, changes : Nat]

ShareTypes ==
    /\ script \in [batch : BatchSizes, sync : SyncCosts, mode : {"free", "auto", "fixed"}]
    /\ ring \in LeadTypes
    /\ cut \in [shares : Sharing, next : Sharing \cup {<<>>}]

\* What a ring saves by a rank's leaving, and what it adds: r is the rank's rate,
\* P the others', A the work of a step, m the ranks but one, s the time of a sync.
LEMMA LeavingCosts ==
    ASSUME NEW A \in Nat, NEW m \in Nat \ {0}, NEW s \in Nat, NEW r \in Nat, NEW P \in Nat
    PROVE  (A * m + s * (m - 1) * P) * ((r + P) * m) < (A * m + s * m * (r + P)) * (P * m)
             <=> A * r * m < s * (r + P) * P
<1> DEFINE x == s * (r + P) * P - A * r * m
<1>1. (A * m + s * m * (r + P)) * (P * m) - (A * m + s * (m - 1) * P) * ((r + P) * m) = m * x
  OBVIOUS
<1>2. /\ (A * m + s * m * (r + P)) * (P * m) \in Int /\ (A * m + s * (m - 1) * P) * ((r + P) * m) \in Int
      /\ s * (r + P) * P \in Int /\ A * r * m \in Int /\ x \in Int /\ m * x \in Int
  OBVIOUS
<1> HIDE DEF x
<1>3. m * x > 0 <=> x > 0
  BY <1>2
<1>4. (A * m + s * (m - 1) * P) * ((r + P) * m) < (A * m + s * m * (r + P)) * (P * m) <=> m * x > 0
  <2> DEFINE a == (A * m + s * m * (r + P)) * (P * m)
             b == (A * m + s * (m - 1) * P) * ((r + P) * m)
  <2>1. a \in Int /\ b \in Int /\ a - b = m * x /\ m * x \in Int
    BY <1>1, <1>2
  <2> HIDE DEF a, b
  <2>2. b < a <=> m * x > 0
    BY <2>1
  <2> QED
    BY <2>2 DEF a, b
<1>5. A * r * m < s * (r + P) * P <=> x > 0
  <2> DEFINE a == s * (r + P) * P
             b == A * r * m
  <2>1. a \in Int /\ b \in Int /\ x = a - b
    BY <1>2 DEF x
  <2> HIDE DEF a, b
  <2>2. b < a <=> x > 0
    BY <2>1
  <2> QED
    BY <2>2 DEF a, b
<1> QED
  BY <1>3, <1>4, <1>5

\* The faster the ranks that stay, the less a step costs.
LEMMA FasterStay ==
    ASSUME NEW B \in Nat, NEW m \in Nat, NEW c \in Nat, NEW P \in Nat, NEW Q \in Nat, P <= Q
    PROVE  ~((B + c * P) * (Q * m) < (B + c * Q) * (P * m))
<1>1. (B + c * P) * (Q * m) - (B + c * Q) * (P * m) = (B * m) * (Q - P)
  OBVIOUS
<1>2. B * m \in Nat /\ Q - P \in Nat
  OBVIOUS
<1>3. (B * m) * (Q - P) \in Nat
  BY <1>2
<1> DEFINE a == (B + c * P) * (Q * m)
           b == (B + c * Q) * (P * m)
<1>4. a \in Int /\ b \in Int /\ a - b \in Nat
  BY <1>1, <1>3
<1> HIDE DEF a, b
<1>5. ~(a < b)
  BY <1>4
<1> QED
  BY <1>5 DEF a, b

\* The ranks are numbered from 0, the lead; Nobody is none of them.
LEMMA SharersAre ==
    /\ IsFiniteSet(SharerIds) /\ Cardinality(SharerIds) = Sharers /\ SharerIds \subseteq Nat
    /\ 0 \in SharerIds /\ Sharers \in Nat \ {0} /\ Nobody \notin SharerIds
    /\ \A r \in SharerIds : Cardinality(SharerIds \ {r}) = Sharers - 1
<1>1. /\ IsFiniteSet(SharerIds) /\ Cardinality(SharerIds) = Sharers /\ SharerIds \subseteq Nat
      /\ 0 \in SharerIds /\ Sharers \in Nat \ {0} /\ Nobody \notin SharerIds
  <2>1. Sharers \in Nat \ {0}
    <3>1. Decimals \in Nat
      BY SMT DEF Decimals
    <3> QED
      BY <3>1, ShareAssumption
  <2>2. IsFiniteSet(0..(Sharers - 1)) /\ Cardinality(0..(Sharers - 1)) = IF 0 > Sharers - 1 THEN 0 ELSE (Sharers - 1) - 0 + 1
    BY <2>1, FS_Interval
  <2>3. (IF 0 > Sharers - 1 THEN 0 ELSE (Sharers - 1) - 0 + 1) = Sharers
    BY <2>1
  <2>4. 0..(Sharers - 1) \subseteq Nat /\ 0 \in 0..(Sharers - 1) /\ Sharers \notin 0..(Sharers - 1)
    BY <2>1
  <2> QED
    BY <2>1, <2>2, <2>3, <2>4 DEF SharerIds, Nobody
<1>2. \A r \in SharerIds : Cardinality(SharerIds \ {r}) = Sharers - 1
  BY <1>1, FS_RemoveElement
<1> QED
  BY <1>1, <1>2

\* Of more than two ranks one is dropped if and only if the ring is faster for it.
LEMMA RefitIsRight ==
    ASSUME ShareTypes
    PROVE  RefitPays
<1> SUFFICES ASSUME AllReported
             PROVE  IF Freeloader # Nobody
                    THEN /\ Cheaper(CostOf(SharerIds \ {Freeloader}), CostOf(SharerIds))
                         /\ \A r \in SharerIds : ~Cheaper(CostOf(SharerIds \ {r}), CostOf(SharerIds \ {Freeloader}))
                    ELSE \/ Sharers <= 2 \/ Slowest = 0
                         \/ \A r \in SharerIds : ~Cheaper(CostOf(SharerIds \ {r}), CostOf(SharerIds))
  BY DEF RefitPays
<1> DEFINE rate == [r \in SharerIds |-> ring.reports[r].rate]
           sum(S) == SumFunctionOnSet(rate, S)
           R == sum(SharerIds)
           P(r) == sum(SharerIds \ {r})
           work == [r \in SharerIds |-> ring.reports[r].samples]
           m == Sharers - 1
           s == script.sync
           A == StepWork * WorkTime
           Adds(r) == A * rate[r] * m < s * R * P(r)
<1>1. /\ \A r \in SharerIds : rate[r] \in Nat /\ work[r] \in Nat /\ rate[r] > 0
      /\ DOMAIN ring.reports = SharerIds /\ s \in Nat /\ WorkTime \in Nat
  <2>1. DOMAIN ring.reports = SharerIds
    BY DEF AllReported
  <2>2. ring.reports \in [SharerIds -> [samples : Nat, rate : Speeds]]
    BY <2>1 DEF ShareTypes, LeadTypes, Reports
  <2>3. Speeds \subseteq Nat \ {0} /\ SyncCosts \subseteq Nat /\ WorkTime \in Nat
    BY ShareAssumption
  <2>4. script.sync \in SyncCosts
    BY DEF ShareTypes
  <2>5. ASSUME NEW r \in SharerIds
        PROVE  rate[r] \in Nat /\ work[r] \in Nat /\ rate[r] > 0
    <3>1. ring.reports[r] \in [samples : Nat, rate : Speeds]
      BY <2>2
    <3>2. ring.reports[r].samples \in Nat /\ ring.reports[r].rate \in Speeds
      BY <3>1
    <3>3. rate[r] = ring.reports[r].rate /\ work[r] = ring.reports[r].samples
      OBVIOUS
    <3> HIDE DEF rate, work
    <3>4. ring.reports[r].rate \in Nat /\ ring.reports[r].rate > 0
      <4> DEFINE v == ring.reports[r].rate
      <4>1. v \in Nat \ {0}
        BY <2>3, <3>2
      <4> HIDE DEF v
      <4>2. v \in Nat /\ v > 0
        BY <4>1
      <4> QED
        BY <4>2 DEF v
    <3> QED
      BY <3>2, <3>3, <3>4
  <2> QED
    BY <2>1, <2>3, <2>4, <2>5
<1>2. \A S : RateSum(S) = sum(S)
  BY <1>1 DEF RateSum
<1>3. StepWork \in Nat
  <2>1. StepWork = SumFunctionOnSet(work, SharerIds)
    BY <1>1 DEF StepWork, SumFunction
  <2> HIDE DEF work
  <2> QED
    BY <1>1, <2>1, SumOne, SharersAre
<1>4. R \in Nat /\ \A r \in SharerIds : R = rate[r] + P(r) /\ P(r) \in Nat
  <2> HIDE DEF rate
  <2>1. R \in Nat /\ \A r \in SharerIds : R = rate[r] + P(r)
    <3>1. IsFiniteSet(SharerIds) /\ \A x \in SharerIds : rate[x] \in Nat
      BY <1>1, SharersAre
    <3>2. SumFunctionOnSet(rate, SharerIds) \in Nat
      BY <3>1, SumOne
    <3>3. \A x \in SharerIds : SumFunctionOnSet(rate, SharerIds)
                                = rate[x] + SumFunctionOnSet(rate, SharerIds \ {x})
      BY <3>1, SumOne
    <3> QED
      BY <3>2, <3>3
  <2>2. ASSUME NEW r \in SharerIds PROVE P(r) \in Nat
    <3>1. IsFiniteSet(SharerIds \ {r}) /\ \A x \in SharerIds \ {r} : rate[x] \in Nat
      BY <1>1, SharersAre, FS_RemoveElement
    <3> QED
      BY <3>1, SumOne
  <2> QED
    BY <2>1, <2>2
<1>5. A \in Nat
  BY <1>1, <1>3
<1>6. \A r \in SharerIds : Saves(r) <=> Adds(r)
  BY <1>1, <1>2 DEF Saves
<1>7. /\ CostOf(SharerIds) = [num |-> A * m + s * m * R, den |-> R * m]
      /\ \A r \in SharerIds : CostOf(SharerIds \ {r}) = [num |-> A * m + s * (m - 1) * P(r), den |-> P(r) * m]
  <2>1. Cardinality(SharerIds) = Sharers /\ \A r \in SharerIds : Cardinality(SharerIds \ {r}) = m
    BY SharersAre
  <2> QED
    BY <1>2, <2>1 DEF CostOf
<1> HIDE DEF rate, sum, R, P, work, A, s
<1>8. ASSUME NEW r \in SharerIds, m > 0
      PROVE  Cheaper(CostOf(SharerIds \ {r}), CostOf(SharerIds)) <=> Adds(r)
  <2>1. m \in Nat \ {0}
    BY <1>8, SharersAre
  <2>2. rate[r] \in Nat /\ P(r) \in Nat /\ R = rate[r] + P(r)
    BY <1>1, <1>4
  <2> HIDE DEF m
  <2>3. (A * m + s * (m - 1) * P(r)) * (R * m) < (A * m + s * m * R) * (P(r) * m)
             <=> A * rate[r] * m < s * R * P(r)
    <3> DEFINE p == P(r)
               q == rate[r]
    <3>1. p \in Nat /\ q \in Nat /\ R = q + p
      BY <2>2
    <3> HIDE DEF p, q
    <3>2. (A * m + s * (m - 1) * p) * ((q + p) * m) < (A * m + s * m * (q + p)) * (p * m)
             <=> A * q * m < s * (q + p) * p
      BY <1>1, <1>5, <2>1, <3>1, LeavingCosts
    <3> QED
      BY <3>1, <3>2 DEF p, q
  <2>4. Cheaper(CostOf(SharerIds \ {r}), CostOf(SharerIds))
          <=> (A * m + s * (m - 1) * P(r)) * (R * m) < (A * m + s * m * R) * (P(r) * m)
    <3> DEFINE a == A * m + s * (m - 1) * P(r)
               b == A * m + s * m * R
               c == P(r) * m
               d == R * m
    <3>1. CostOf(SharerIds \ {r}) = [num |-> a, den |-> c] /\ CostOf(SharerIds) = [num |-> b, den |-> d]
      BY <1>7
    <3> HIDE DEF a, b, c, d
    <3>2. Cheaper(CostOf(SharerIds \ {r}), CostOf(SharerIds)) <=> a * d < b * c
      BY <3>1 DEF Cheaper
    <3> QED
      BY <3>2 DEF a, b, c, d
  <2> QED
    BY <2>3, <2>4
<1>9. /\ Slowest \in SharerIds /\ \A r \in SharerIds : rate[Slowest] <= rate[r] /\ P(r) <= P(Slowest)
  <2> DEFINE least == {r \in SharerIds : \A q \in SharerIds : rate[q] >= rate[r]}
             all == {rate[r] : r \in SharerIds}
  <2>1. all \subseteq Nat /\ all # {}
    BY <1>1, SharersAre
  <2>2. PICK n \in all : \A k \in all : n <= k
    BY <2>1, LeastExists
  <2>3. PICK r \in SharerIds : n = rate[r]
    BY <2>2
  <2>4. r \in least /\ least \subseteq Nat
    BY <2>2, <2>3, SharersAre
  <2>5. Slowest = Min(least)
    BY DEF Slowest, rate
  <2>6. Slowest \in least
    BY <2>4, <2>5, MinIs
  <2>7. ASSUME NEW q \in SharerIds PROVE rate[Slowest] <= rate[q] /\ P(q) <= P(Slowest)
    <3>1. rate[Slowest] <= rate[q] /\ Slowest \in SharerIds
      BY <1>1, <2>6
    <3>2. R = rate[q] + P(q) /\ R = rate[Slowest] + P(Slowest) /\ P(q) \in Nat /\ P(Slowest) \in Nat
      BY <1>4, <3>1
    <3>3. rate[q] \in Nat /\ rate[Slowest] \in Nat
      BY <1>1, <3>1
    <3> QED
      BY <1>4, <3>1, <3>2, <3>3
  <2> QED
    BY <2>6, <2>7
<1>10. CASE Freeloader # Nobody
  <2>1. Freeloader = Slowest /\ Sharers > 2 /\ Adds(Slowest)
    BY <1>6, <1>9, <1>10 DEF Freeloader
  <2>2. m > 0 /\ m \in Nat /\ m - 1 \in Nat
    BY <2>1, SharersAre
  <2>3. Cheaper(CostOf(SharerIds \ {Slowest}), CostOf(SharerIds))
    BY <1>8, <1>9, <2>1, <2>2
  <2>4. ASSUME NEW r \in SharerIds
        PROVE  ~Cheaper(CostOf(SharerIds \ {r}), CostOf(SharerIds \ {Slowest}))
    <3> DEFINE p == P(r)
               q == P(Slowest)
               c == s * (m - 1)
    <3>1. p \in Nat /\ q \in Nat /\ p <= q
      BY <1>4, <1>9
    <3>2. A * m \in Nat /\ c \in Nat
      BY <1>1, <1>5, <2>2
    <3> HIDE DEF p, q, c, m
    <3>3. ~((A * m + c * p) * (q * m) < (A * m + c * q) * (p * m))
      BY <2>2, <3>1, <3>2, FasterStay
    <3>5. Cheaper(CostOf(SharerIds \ {r}), CostOf(SharerIds \ {Slowest}))
            <=> (A * m + c * p) * (q * m) < (A * m + c * q) * (p * m)
      <4> DEFINE a == A * m + c * p
                 b == A * m + c * q
                 e == p * m
                 f == q * m
      <4>1. CostOf(SharerIds \ {r}) = [num |-> a, den |-> e] /\ CostOf(SharerIds \ {Slowest}) = [num |-> b, den |-> f]
        BY <1>7, <1>9 DEF p, q, c, m
      <4> HIDE DEF a, b, e, f
      <4>2. Cheaper(CostOf(SharerIds \ {r}), CostOf(SharerIds \ {Slowest})) <=> a * f < b * e
        BY <4>1 DEF Cheaper
      <4> QED
        BY <4>2 DEF a, b, e, f
    <3> QED
      BY <3>3, <3>5
  <2> QED
    BY <1>10, <2>1, <2>3, <2>4
<1>11. CASE Freeloader = Nobody /\ Sharers > 2 /\ Slowest # 0
  <2>1. m > 0 /\ m \in Nat
    BY <1>11, SharersAre
  <2>2. ~Adds(Slowest)
    BY <1>6, <1>9, <1>11, SharersAre DEF Freeloader
  <2>3. ASSUME NEW r \in SharerIds PROVE ~Adds(r)
    <3> DEFINE x == rate[Slowest]
               y == rate[r]
               p == P(r)
               q == P(Slowest)
               z == s * R
    <3>1. x \in Nat /\ y \in Nat /\ p \in Nat /\ q \in Nat /\ x <= y /\ p <= q
      BY <1>1, <1>4, <1>9
    <3>2. z \in Nat
      BY <1>1, <1>4
    <3>3. ~(A * x * m < z * q)
      BY <2>2
    <3> HIDE DEF x, y, p, q, z, m
    <3>4. A * x * m <= A * y * m
      <4>1. A * x \in Nat /\ A * x <= A * y
        BY <1>5, <3>1, Products
      <4>2. A * y \in Nat /\ m <= m
        BY <1>5, <2>1, <3>1
      <4> QED
        BY <2>1, <4>1, <4>2, Products
    <3>5. z * p <= z * q
      BY <3>1, <3>2, Products
    <3>6. A * x * m \in Nat /\ A * y * m \in Nat /\ z * p \in Nat /\ z * q \in Nat
      BY <1>5, <2>1, <3>1, <3>2
    <3>7. ~(A * y * m < z * p)
      BY <3>3, <3>4, <3>5, <3>6
    <3> QED
      BY <3>7 DEF y, p, z
  <2> QED
    BY <1>8, <1>11, <2>1, <2>3
<1>12. Sharers <= 2 \/ Sharers > 2
  BY SharersAre
<1> QED
  BY <1>10, <1>11, <1>12

\* Of two integers, one a natural number.
LEMMA MaxNat ==
    ASSUME NEW a \in Nat, NEW b \in Int
    PROVE  Max({a, b}) \in Nat
<1> DEFINE S == {a, b}
<1>1. \E x \in S : \A y \in S : x >= y
  OBVIOUS
<1>2. Max(S) \in S /\ Max(S) >= a
  <2>1. a \in S
    OBVIOUS
  <2> HIDE DEF S
  <2> QED
    BY <1>1, <2>1 DEF Max
<1> QED
  BY <1>2

\* The sum of some weights: none of them is larger.
LEMMA WeightSum ==
    ASSUME NEW w \in Weights
    PROVE  /\ SumFunction(w) \in Nat
           /\ \A r \in SharerIds : w[r] \in Nat /\ w[r] <= SumFunction(w)
<1>1. IsFiniteSet(SharerIds) /\ \A r \in SharerIds : w[r] \in Nat
  BY SharersAre DEF Weights
<1>2. SumFunction(w) = SumFunctionOnSet(w, SharerIds)
  BY DEF SumFunction, Weights
<1>3. SumFunctionOnSet(w, SharerIds) \in Nat
  BY <1>1, SumOne
<1>4. ASSUME NEW r \in SharerIds PROVE w[r] <= SumFunctionOnSet(w, SharerIds)
  <2>1. SumFunctionOnSet(w, SharerIds) = w[r] + SumFunctionOnSet(w, SharerIds \ {r})
    BY <1>1, SumOne
  <2>2. IsFiniteSet(SharerIds \ {r}) /\ \A x \in SharerIds \ {r} : w[x] \in Nat
    BY <1>1, FS_RemoveElement
  <2>3. SumFunctionOnSet(w, SharerIds \ {r}) \in Nat
    BY <2>2, SumOne
  <2> QED
    BY <1>1, <2>1, <2>3
<1> QED
  BY <1>1, <1>2, <1>3, <1>4

\* Some rank has a weight no other exceeds: Largest is one of them.
LEMMA LargestWeight ==
    ASSUME NEW w \in Weights
    PROVE  /\ \E r \in SharerIds : \A q \in SharerIds : w[q] <= w[r]
           /\ Largest(w) \in SharerIds /\ \A q \in SharerIds : w[q] <= w[Largest(w)]
<1> DEFINE f == [k \in 1..Sharers |-> w[k - 1]]
           best == {r \in SharerIds : \A q \in SharerIds : w[q] <= w[r]}
<1>1. Sharers \in Nat \ {0}
  BY SharersAre
<1>2. \A k \in 1..Sharers : k - 1 \in SharerIds
  BY <1>1 DEF SharerIds
<1>3. \A r \in SharerIds : r + 1 \in 1..Sharers /\ (r + 1) - 1 = r
  BY <1>1 DEF SharerIds
<1>4. f \in [1..Sharers -> Nat]
  BY <1>2 DEF Weights
<1>5. PICK k \in 1..Sharers : \A j \in 1..Sharers : f[j] <= f[k]
  <2> HIDE DEF f
  <2> QED
    BY <1>1, <1>4, FirstLargest
<1>6. k - 1 \in best
  <2>1. \A q \in SharerIds : f[q + 1] = w[q]
    BY <1>3
  <2> QED
    BY <1>2, <1>3, <1>5, <2>1
<1>7. best \subseteq Nat
  BY SharersAre
<1>8. Largest(w) \in best
  BY <1>6, <1>7, MinIs DEF Largest
<1> QED
  BY <1>6, <1>8

\* A rank's batch is a number of samples.
LEMMA BatchesAre ==
    ASSUME NEW w \in Weights, NEW base \in Nat
    PROVE  Batches(w, base) \in Weights
<1> DEFINE all == RingBatch(w, base)
           b == ByWeight(w, all)
<1>1. all \in Nat
  <2>1. Having(w) \subseteq SharerIds
    BY DEF Having
  <2>2. Cardinality(Having(w)) \in Nat
    BY <2>1, SharersAre, FS_Subset, FS_CardinalityType
  <2> QED
    BY <2>2, OfTwo DEF RingBatch
<1> HIDE DEF all
<1>2. b \in Weights
  <2>1. ASSUME NEW r \in SharerIds, w[r] > 0
        PROVE  Max({1, HalfEven(w[r] * all, SumFunction(w))}) \in Nat
    <3> DEFINE s == SumFunction(w)
               a == w[r] * all
    <3>1. s \in Nat /\ s > 0 /\ a \in Nat
      BY <1>1, <2>1, WeightSum
    <3> HIDE DEF s, a
    <3>2. a \div s \in Nat
      BY <3>1
    <3>3. HalfEven(a, s) \in Int
      BY <3>2 DEF HalfEven
    <3>4. Max({1, HalfEven(a, s)}) \in Nat
      BY <3>3, MaxNat
    <3> QED
      BY <3>4 DEF s, a
  <2>2. \A r \in SharerIds : (IF w[r] > 0 THEN Max({1, HalfEven(w[r] * all, SumFunction(w))}) ELSE 0) \in Nat
    BY <2>1
  <2> QED
    BY <2>2 DEF ByWeight, Weights
<1> HIDE DEF b
<1>3. Absorb(b, all) \in Weights
  <2> DEFINE x == Largest(b)
             v == Max({1, b[x] + all - SumFunction(b)})
  <2>1. Absorb(b, all) = [b EXCEPT ![x] = v]
    BY DEF Absorb
  <2>2. x \in SharerIds => v \in Nat
    <3> SUFFICES ASSUME x \in SharerIds PROVE v \in Nat
      OBVIOUS
    <3>1. b[x] + all - SumFunction(b) \in Int
      BY <1>1, <1>2, WeightSum
    <3> QED
      BY <3>1, MaxNat
  <2> HIDE DEF x, v
  <2> QED
    BY <1>2, <2>1, <2>2 DEF Weights
<1> QED
  BY <1>3 DEF Batches, b, all

\* What is sent of shares that add up to something adds up to something.
LEMMA SentIs ==
    ASSUME NEW w \in Weights, Having(w) # {}
    PROVE  Sent(w) \in Weights /\ Having(Sent(w)) # {}
<1> DEFINE s == SumFunction(w)
           all == {w[r] : r \in SharerIds}
           u == 2 * Decimals
<1>0. u \in Nat /\ Sharers <= u /\ Sharers \in Nat
  <2>1. Decimals \in Nat
    BY SMT DEF Decimals
  <2> QED
    BY <2>1, ShareAssumption
<1> HIDE DEF u
<1>1. s \in Nat /\ s > 0 /\ \A r \in SharerIds : w[r] \in Nat
  <2>1. PICK r \in SharerIds : w[r] > 0
    BY DEF Having
  <2> QED
    BY <2>1, WeightSum
<1>2. PICK r \in SharerIds : \A q \in SharerIds : w[q] <= w[r]
  BY LargestWeight
<1>3. s <= Sharers * w[r]
  <2>1. s = SumFunctionOnSet(w, SharerIds)
    BY DEF SumFunction, Weights
  <2>2. SumFunctionOnSet(w, SharerIds) <= Cardinality(SharerIds) * w[r]
    <3>1. IsFiniteSet(SharerIds) /\ w[r] \in Nat /\ \A q \in SharerIds : w[q] \in Nat /\ w[q] <= w[r]
      BY <1>1, <1>2, SharersAre
    <3> QED
      BY <3>1, SumAtMost
  <2> QED
    BY <2>1, <2>2, SharersAre
<1> HIDE DEF s
<1>4. \A q \in SharerIds : (u * w[q] + s) \div (2 * s) \in Nat
  <2> TAKE q \in SharerIds
  <2> DEFINE a == u * w[q] + s
             b == 2 * s
  <2>1. a \in Nat /\ b \in Nat /\ b > 0
    BY <1>0, <1>1
  <2> HIDE DEF a, b
  <2>2. a \div b \in Nat
    BY <2>1
  <2> QED
    BY <2>2 DEF a, b
<1>5. (u * w[r] + s) \div (2 * s) > 0
  <2> DEFINE x == w[r]
  <2>1. x \in Nat
    BY <1>1
  <2> HIDE DEF x
  <2>2. Sharers * x <= u * x
    BY <1>0, <2>1, Products
  <2> DEFINE a == u * x + s
             b == 2 * s
  <2>3. a \in Nat /\ b \in Nat /\ b > 0 /\ a >= b
    <3> DEFINE y == u * x
               z == Sharers * x
    <3>1. y \in Nat /\ z \in Nat /\ z <= y /\ s <= z
      BY <1>0, <1>3, <2>1, <2>2 DEF x
    <3> HIDE DEF y, z
    <3>2. y + s >= 2 * s /\ y + s \in Nat /\ 2 * s \in Nat /\ 2 * s > 0
      BY <1>1, <3>1
    <3> QED
      BY <3>2 DEF y
  <2> HIDE DEF a, b
  <2>4. a \div b > 0
    BY <2>3, Quotients
  <2> QED
    BY <2>4 DEF a, b, x
<1>6. Sent(w) = [q \in SharerIds |-> (u * w[q] + s) \div (2 * s)]
  BY DEF Sent, u, s
<1>7. Sent(w) \in Weights
  BY <1>4, <1>6 DEF Weights
<1>8. r \in Having(Sent(w))
  BY <1>5, <1>6 DEF Having
<1> QED
  BY <1>7, <1>8

\* The invariant of DdpShares: the lead and the ranks have shares of the ranks there
\* are, those in force and those sent add up to something, and a ring of --ddp N
\* loses only ranks that died.
ShareInv == ShareTypes /\ FixedStays

\* Every step of the lead and of the ranks keeps it.
LEMMA ShareStep ==
    ASSUME ShareInv, ShareNext
    PROVE  ShareInv'
<1> USE DEF ShareInv
<1>0. /\ script.batch \in Nat /\ cut.shares \in Sharing /\ cut.next \in Sharing \cup {<<>>}
      /\ cut.shares \in Weights
      /\ ring \in LeadTypes /\ SharerIds \subseteq Nat
      /\ cut = [shares |-> cut.shares, next |-> cut.next]
  <2>1. script.batch \in BatchSizes
    BY DEF ShareTypes
  <2> QED
    BY <2>1, ShareAssumption, SharersAre DEF ShareTypes, Sharing
<1>00. /\ ring.shares \in Weights \cup {<<>>} /\ ring.reports \in Reports /\ ring.dropped \in SUBSET SharerIds
       /\ ring.gone \in SUBSET SharerIds /\ ring.kept \in Nat /\ ring.diloco \in BOOLEAN
       /\ ring.changes + 1 \in Nat /\ ring.changes \in Nat
  BY <1>0 DEF LeadTypes
<1>1. CASE ShareOver
  BY <1>1 DEF ShareOver, shareVars, ShareTypes, FixedStays
<1>2. CASE Report
  <2> DEFINE b == Batches(cut.shares, script.batch)
  <2>1. b \in Weights
    BY <1>0, BatchesAre
  <2> HIDE DEF b
  <2>2. PICK v \in [Left -> Speeds] :
          ring' = [ring EXCEPT !.reports =
            [r \in Left \cup DOMAIN ring.reports |->
               IF r \in Left THEN [samples |-> b[r], rate |-> v[r]] ELSE ring.reports[r]]]
    BY <1>2 DEF Report, b
  <2> DEFINE new == [r \in Left \cup DOMAIN ring.reports |->
                       IF r \in Left THEN [samples |-> b[r], rate |-> v[r]] ELSE ring.reports[r]]
  <2>3. Left \subseteq SharerIds
    BY DEF Left
  <2>4. PICK S \in SUBSET SharerIds : ring.reports \in [S -> [samples : Nat, rate : Speeds]]
    BY <1>00 DEF Reports
  <2>5. ASSUME NEW r \in Left PROVE [samples |-> b[r], rate |-> v[r]] \in [samples : Nat, rate : Speeds]
    BY <2>1, <2>3 DEF Weights
  <2>6. new \in [Left \cup S -> [samples : Nat, rate : Speeds]]
    BY <2>4, <2>5
  <2>7. new \in Reports
    <3>1. Left \cup S \in SUBSET SharerIds
      BY <2>3, <2>4
    <3> HIDE DEF new
    <3> QED
      BY <2>6, <3>1 DEF Reports
  <2>8. ring' = [ring EXCEPT !.reports = new]
    BY <2>2
  <2> HIDE DEF new
  <2>9. script' = script /\ cut' = cut
    BY <1>2 DEF Report
  <2>10. ring' \in LeadTypes /\ ring'.kept = ring.kept /\ ring'.dropped = ring.dropped /\ ring'.gone = ring.gone
    BY <1>0, <1>00, <2>7, <2>8 DEF LeadTypes
  <2> QED
    BY <2>9, <2>10 DEF FixedStays, ShareTypes
<1>3. CASE GoDiloco
  <2>1. ring' = [ring EXCEPT !.diloco = TRUE, !.changes = @ + 1] /\ script' = script /\ cut' = cut
    BY <1>3 DEF GoDiloco
  <2>2. ring' \in LeadTypes /\ ring'.kept = ring.kept /\ ring'.dropped = ring.dropped /\ ring'.gone = ring.gone
    BY <1>0, <1>00, <2>1 DEF LeadTypes
  <2> QED
    BY <2>1, <2>2 DEF FixedStays, ShareTypes
<1>4. CASE DropFreeloader
  <2> DEFINE d == ring.dropped \cup {Freeloader}
  <2>1. /\ ring' = [ring EXCEPT !.dropped = d, !.changes = @ + 1] /\ script' = script /\ cut' = cut
        /\ script.mode # "fixed" /\ Freeloader \in SharerIds
    BY <1>4 DEF DropFreeloader, Left
  <2>2. d \in SUBSET SharerIds
    BY <1>00, <2>1
  <2> HIDE DEF d
  <2>3. ring' \in LeadTypes
    BY <1>0, <1>00, <2>1, <2>2 DEF LeadTypes
  <2> QED
    BY <2>1, <2>3 DEF FixedStays, ShareTypes
<1>5. CASE Reshare
  <2> DEFINE want == [r \in SharerIds |-> ring.reports[r].rate]
  <2>1. want \in Weights /\ Having(want) # {}
    <3>1. ring.reports \in [SharerIds -> [samples : Nat, rate : Speeds]]
      BY <1>00, <1>5 DEF Reshare, AllReported, Reports
    <3>2. \A r \in SharerIds : ring.reports[r] \in [samples : Nat, rate : Speeds]
      BY <3>1
    <3>3. \A r \in SharerIds : ring.reports[r].rate \in Nat \ {0}
      BY <3>2, ShareAssumption
    <3>4. \A r \in SharerIds : want[r] \in Nat /\ want[r] > 0
      BY <3>3
    <3> QED
      BY <3>4, SharersAre DEF Weights, Having
  <2>2. /\ ring' = [ring EXCEPT !.shares = want, !.changes = @ + 1]
        /\ cut' = [cut EXCEPT !.next = Sent(want)] /\ script' = script
    BY <1>5 DEF Reshare
  <2> HIDE DEF want
  <2>3. Sent(want) \in Sharing
    BY <2>1, SentIs DEF Sharing
  <2> QED
    <3>1. ring' \in LeadTypes /\ ring'.kept = ring.kept /\ ring'.dropped = ring.dropped /\ ring'.gone = ring.gone
      BY <1>0, <1>00, <2>1, <2>2 DEF LeadTypes
    <3>2. cut' = [shares |-> cut.shares, next |-> Sent(want)]
      BY <1>0, <2>2
    <3>3. cut' \in [shares : Sharing, next : Sharing \cup {<<>>}]
      BY <1>0, <2>3, <3>2
    <3> QED
      BY <2>2, <3>1, <3>3 DEF FixedStays, ShareTypes
<1>6. ASSUME NEW l \in Loaders, NextEpoch(l) PROVE ShareInv'
  <2>1. /\ cut' = [shares |-> IF cut.next = <<>> THEN cut.shares ELSE cut.next, next |-> <<>>]
        /\ script' = script /\ ring' = ring
    BY <1>6 DEF NextEpoch
  <2> QED
    BY <1>0, <2>1 DEF ShareTypes, FixedStays
<1>7. ASSUME NEW k \in SharerIds, ReleaseTo(k) PROVE ShareInv'
  <2> DEFINE only == [r \in SharerIds |-> IF r = k THEN 1 ELSE 0]
  <2>1. only \in Weights /\ Having(only) # {}
    BY DEF Weights, Having
  <2> HIDE DEF only
  <2>2. /\ ring' = [ring EXCEPT !.kept = k, !.changes = @ + 1, !.shares = only]
        /\ cut' = [cut EXCEPT !.next = Sent(ring'.shares)] /\ script' = script /\ script.mode # "fixed"
    BY <1>7 DEF ReleaseTo, only
  <2>3. ring'.shares = only
    BY <1>0, <2>2 DEF LeadTypes
  <2>4. Sent(only) \in Sharing
    BY <2>1, SentIs DEF Sharing
  <2>5. k \in Nat
    BY <1>0
  <2> QED
    <3>1. ring' \in LeadTypes
      BY <1>0, <1>00, <2>1, <2>2, <2>5 DEF LeadTypes
    <3>2. cut' = [shares |-> cut.shares, next |-> Sent(only)]
      BY <1>0, <2>2, <2>3
    <3>3. cut' \in [shares : Sharing, next : Sharing \cup {<<>>}]
      BY <1>0, <2>4, <3>2
    <3> QED
      BY <2>2, <3>1, <3>3 DEF FixedStays, ShareTypes
<1>8. ASSUME NEW r \in SharerIds, ShareLost(r) PROVE ShareInv'
  <2> DEFINE w == IF ring.shares = <<>> THEN Equal ELSE ring.shares
             dropped == ring.dropped \cup {r}
             new == Without(w, dropped)
             left == [q \in DOMAIN ring.reports \ {r} |-> ring.reports[q]]
             next == IF Having(new) = {} THEN cut.next ELSE Sent(new)
  <2>1. w \in Weights
    <3>1. Equal \in Weights
      BY DEF Equal, Weights
    <3>2. ring.shares # <<>> => ring.shares \in Weights
      BY <1>00
    <3> QED
      BY <3>1, <3>2
  <2>2. new \in Weights
    <3> HIDE DEF w, dropped
    <3> QED
      BY <2>1 DEF Without, Weights
  <2>3. left \in Reports
    <3>1. PICK S \in SUBSET SharerIds : ring.reports \in [S -> [samples : Nat, rate : Speeds]]
      BY <1>00 DEF Reports
    <3>2. left \in [S \ {r} -> [samples : Nat, rate : Speeds]] /\ S \ {r} \in SUBSET SharerIds
      BY <3>1
    <3> HIDE DEF left
    <3> QED
      BY <3>2 DEF Reports
  <2>4. /\ ring' = [ring EXCEPT !.dropped = dropped, !.gone = @ \cup {r}, !.shares = new, !.changes = @ + 1,
                                !.reports = left]
        /\ cut' = [cut EXCEPT !.next = next] /\ script' = script
    BY <1>8 DEF ShareLost
  <2> HIDE DEF new
  <2>5. next \in Sharing \cup {<<>>}
    BY <1>0, <2>2, SentIs DEF Sharing
  <2>6. dropped \in SUBSET SharerIds /\ ring.gone \cup {r} \in SUBSET SharerIds
    BY <1>00
  <2> HIDE DEF left, next, w
  <2>7. ring' \in LeadTypes /\ ring'.kept = ring.kept /\ ring'.dropped = dropped /\ ring'.gone = ring.gone \cup {r}
    <3> HIDE DEF dropped
    <3> QED
      BY <1>0, <1>00, <2>2, <2>3, <2>4, <2>6 DEF LeadTypes
  <2>8. cut' = [shares |-> cut.shares, next |-> next]
    BY <1>0, <2>4
  <2>9. cut' \in [shares : Sharing, next : Sharing \cup {<<>>}]
    BY <1>0, <2>5, <2>8
  <2> QED
    BY <2>4, <2>7, <2>9 DEF FixedStays, ShareTypes
<1> QED
  BY <1>1, <1>2, <1>3, <1>4, <1>5, <1>6, <1>7, <1>8 DEF ShareNext

\* The run begins with shares that cut the data, and no rank dropped.
LEMMA SharesBegin == ShareInit => ShareInv
<1> SUFFICES ASSUME ShareInit PROVE ShareInv
  OBVIOUS
<1>1. /\ Equal \in Sharing /\ [r \in SharerIds |-> r + 1] \in Sharing
      /\ [r \in SharerIds |-> IF r = 0 THEN 6 ELSE 1] \in Sharing
  BY SharersAre DEF Equal, Weights, Sharing, Having
<1>2. cut \in [shares : Sharing, next : {<<>>}]
  BY <1>1 DEF ShareInit
<1>3. <<>> \in Reports
  <2>1. <<>> \in [{} -> [samples : Nat, rate : Speeds]]
    OBVIOUS
  <2> QED
    BY <2>1 DEF Reports
<1>4. Nobody \in Nat
  BY SharersAre DEF Nobody
<1>5. ring = [shares |-> <<>>, reports |-> <<>>, dropped |-> {}, gone |-> {}, kept |-> Nobody,
              diloco |-> FALSE, changes |-> 0]
  BY DEF ShareInit
<1> QED
  BY <1>2, <1>3, <1>4, <1>5 DEF ShareInit, ShareInv, ShareTypes, LeadTypes, FixedStays

\* worstFreeloader: the lead drops a rank if and only if the ring is faster without
\* it, and no other rank's leaving gains more; a ring of --ddp N loses only ranks
\* that died.
THEOREM RefitsPay == ShareSpec => [](RefitPays /\ FixedStays)
<1>1. ShareInit => ShareInv
  BY SharesBegin
<1>2. ShareInv /\ [ShareNext]_shareVars => ShareInv'
  <2> SUFFICES ASSUME ShareInv, [ShareNext]_shareVars PROVE ShareInv'
    OBVIOUS
  <2>1. CASE UNCHANGED shareVars
    BY <2>1 DEF shareVars, ShareInv, ShareTypes, FixedStays
  <2> QED
    BY <2>1, ShareStep
<1>3. ShareInv => RefitPays /\ FixedStays
  BY RefitIsRight DEF ShareInv
<1> QED
  BY <1>1, <1>2, <1>3, PTL DEF ShareSpec

-----------------------------------------------------------------------------
\* An epoch cut by any shares

\* The first n of a set in order.
Foremost(R, S, n) == {d \in S : Cardinality(Preceding(R, S, d)) < n}

\* They are so many, and who comes before one of them is one of them.
LEMMA ForemostAre ==
    ASSUME NEW S, IsFiniteSet(S), NEW R, IsOrder(R, S)
    PROVE  /\ Foremost(R, S, 0) = {} /\ Foremost(R, S, Cardinality(S)) = S /\ Cardinality(S) \in Nat
           /\ \A n \in 0..(Cardinality(S) - 1) : \E d \in S \ Foremost(R, S, n) :
                Foremost(R, S, n + 1) = Foremost(R, S, n) \cup {d} /\ Preceding(R, S, d) = Foremost(R, S, n)
<1> DEFINE place == [d \in S |-> Cardinality(Preceding(R, S, d))]
           N == Cardinality(S)
<1>1. N \in Nat
  BY FS_CardinalityType
<1>2. \A d \in S : place[d] \in 0..(N - 1) /\ \A e \in S : <<d, e>> \in R => place[d] < place[e]
  BY AheadIs
<1>3. \A n : Foremost(R, S, n) = {d \in S : place[d] < n}
  BY DEF Foremost
<1>4. \A n \in 0..(N - 1) : \E d \in S : place[d] = n
  <2> TAKE n \in 0..(N - 1)
  <2>1. n + 1 \in 1..N /\ (n + 1) - 1 = n
    BY <1>1
  <2>2. \E d \in S : Cardinality(Preceding(R, S, d)) = (n + 1) - 1
    BY <2>1, PlacesFilled
  <2> QED
    BY <2>1, <2>2
<1>5. \A d, e \in S : place[d] = place[e] => d = e
  <2> SUFFICES ASSUME NEW d \in S, NEW e \in S, place[d] = place[e], d # e PROVE FALSE
    OBVIOUS
  <2>1. <<d, e>> \in R \/ <<e, d>> \in R
    BY DEF IsOrder
  <2> HIDE DEF place, N
  <2>2. place[d] < place[e] \/ place[e] < place[d]
    BY <1>2, <2>1
  <2>3. place[d] \in Nat /\ place[e] \in Nat
    BY <1>1, <1>2
  <2> QED
    BY <2>2, <2>3
<1> HIDE DEF place, N
<1>6. Foremost(R, S, 0) = {} /\ Foremost(R, S, N) = S
  <2>1. \A d \in S : ~(place[d] < 0) /\ place[d] < N
    BY <1>1, <1>2
  <2> QED
    BY <1>3, <2>1
<1>7. ASSUME NEW n \in 0..(N - 1)
      PROVE  \E d \in S \ Foremost(R, S, n) :
                Foremost(R, S, n + 1) = Foremost(R, S, n) \cup {d} /\ Preceding(R, S, d) = Foremost(R, S, n)
  <2>1. PICK d \in S : place[d] = n
    BY <1>4
  <2>2. d \notin Foremost(R, S, n)
    BY <1>1, <1>3, <2>1
  <2>3. Foremost(R, S, n + 1) = Foremost(R, S, n) \cup {d}
    <3>1. \A e \in S : place[e] < n + 1 <=> place[e] < n \/ e = d
      BY <1>1, <1>2, <1>5, <2>1
    <3> QED
      BY <1>3, <2>1, <3>1
  <2>4. \A e \in S : <<e, d>> \in R <=> place[e] < n
    <3> TAKE e \in S
    <3>1. <<e, d>> \in R => place[e] < n
      BY <1>2, <2>1
    <3>2. place[e] < n => <<e, d>> \in R
      <4>1. place[e] < n => e # d /\ <<d, e>> \notin R
        BY <1>1, <1>2, <2>1
      <4> QED
        BY <4>1 DEF IsOrder
    <3> QED
      BY <3>1, <3>2
  <2>5. Preceding(R, S, d) = Foremost(R, S, n)
    BY <1>3, <2>4 DEF Preceding
  <2> QED
    BY <2>2, <2>3, <2>5
<1> QED
  BY <1>1, <1>6, <1>7 DEF N

\* As many as there are to be, if the set has as many.
LEMMA ForemostCount ==
    ASSUME NEW S, IsFiniteSet(S), NEW R, IsOrder(R, S), NEW n \in 0..Cardinality(S)
    PROVE  Cardinality(Foremost(R, S, n)) = n
<1> DEFINE P == {k \in Nat : k <= Cardinality(S) => Cardinality(Foremost(R, S, k)) = k}
<1>0. Cardinality(S) \in Nat
  BY FS_CardinalityType
<1>1. 0 \in P
  BY ForemostAre, FS_EmptySet
<1>2. ASSUME NEW k \in Nat, k \in P PROVE k + 1 \in P
  <2> SUFFICES ASSUME k + 1 <= Cardinality(S) PROVE Cardinality(Foremost(R, S, k + 1)) = k + 1
    OBVIOUS
  <2>1. k \in 0..(Cardinality(S) - 1) /\ Cardinality(Foremost(R, S, k)) = k
    BY <1>0, <1>2
  <2>2. PICK d \in S \ Foremost(R, S, k) : Foremost(R, S, k + 1) = Foremost(R, S, k) \cup {d}
    BY <2>1, ForemostAre
  <2>3. IsFiniteSet(Foremost(R, S, k))
    BY SubFinite DEF Foremost
  <2> QED
    BY <2>1, <2>2, <2>3, FS_AddElement
<1>3. Nat \subseteq P
  <2> HIDE DEF P
  <2> QED
    BY <1>1, <1>2, SetInduction
<1>4. n \in P /\ n <= Cardinality(S)
  BY <1>0, <1>3
<1> QED
  BY <1>4

\* Of what is over each takes what it has room for, in order: all of it is
\* taken, as far as there is room.
Taking(room, extra, before) == Min({room, Max({0, extra - before})})

\* A turn takes no more than its room, and no more than is over.
LEMMA TakingIs ==
    ASSUME NEW room \in Nat, NEW extra \in Nat, NEW before \in Nat
    PROVE  /\ Taking(room, extra, before) \in Nat /\ Taking(room, extra, before) <= room
           /\ Min({extra, before}) + Taking(room, extra, before) = Min({extra, room + before})
<1> DEFINE over == IF extra > before THEN extra - before ELSE 0
<1>1. over \in Nat
  OBVIOUS
<1>2. Max({0, extra - before}) = over
  <2> DEFINE S == {0, extra - before}
  <2>1. over \in S /\ \A y \in S : over >= y
    OBVIOUS
  <2>2. S \subseteq Int
    OBVIOUS
  <2> HIDE DEF S, over
  <2>3. Max(S) \in S /\ \A y \in S : Max(S) >= y
    BY <2>1 DEF Max
  <2>4. Max(S) >= over /\ over >= Max(S) /\ Max(S) \in Int /\ over \in Int
    BY <2>1, <2>2, <2>3
  <2>5. Max(S) = over
    BY <2>4
  <2> QED
    BY <2>5 DEF S
<1>3. Taking(room, extra, before) = Min({room, over})
  BY <1>2 DEF Taking
<1>4. \A a, b \in Nat : Min({a, b}) = IF a <= b THEN a ELSE b
  <2> TAKE a \in Nat, b \in Nat
  <2>1. Min({a, b}) \in {a, b} /\ Min({a, b}) <= a /\ Min({a, b}) <= b
    BY OfTwo
  <2> QED
    BY <2>1
<1>5. Min({room, over}) = IF room <= over THEN room ELSE over
  BY <1>1, <1>4
<1>6. Min({extra, before}) = IF extra <= before THEN extra ELSE before
  BY <1>4
<1>7. Min({extra, room + before}) = IF extra <= room + before THEN extra ELSE room + before
  BY <1>4
<1> QED
  BY <1>3, <1>5, <1>6, <1>7

\* When the room is enough, the turns take all that is over.
LEMMA AllTaken ==
    ASSUME NEW S, IsFiniteSet(S), NEW R, IsOrder(R, S), NEW room, NEW extra \in Nat, NEW taken,
           \A d \in S : /\ room[d] \in Nat
                        /\ taken[d] = Taking(room[d], extra, SumFunctionOnSet(room, Preceding(R, S, d)))
    PROVE  /\ \A d \in S : taken[d] \in Nat /\ taken[d] <= room[d]
           /\ SumFunctionOnSet(taken, S) = Min({extra, SumFunctionOnSet(room, S)})
<1> DEFINE F(n) == Foremost(R, S, n)
           P == {n \in Nat : n <= Cardinality(S) =>
                   SumFunctionOnSet(taken, F(n)) = Min({extra, SumFunctionOnSet(room, F(n))})}
<1>1. \A d \in S : room[d] \in Nat
  OBVIOUS
<1>2. \A T \in SUBSET S : SumFunctionOnSet(room, T) \in Nat
  <2> TAKE T \in SUBSET S
  <2>1. IsFiniteSet(T) /\ \A d \in T : room[d] \in Nat
    BY <1>1, SubFinite
  <2> QED
    BY <2>1, SumOne
<1>3. \A d \in S : taken[d] \in Nat /\ taken[d] <= room[d]
  <2> TAKE d \in S
  <2>1. SumFunctionOnSet(room, Preceding(R, S, d)) \in Nat
    BY <1>2 DEF Preceding
  <2> QED
    <3> DEFINE b == SumFunctionOnSet(room, Preceding(R, S, d))
    <3>1. b \in Nat /\ room[d] \in Nat /\ taken[d] = Taking(room[d], extra, b)
      BY <1>1, <2>1
    <3> HIDE DEF b
    <3> QED
      BY <3>1, TakingIs
<1>4. \A d \in S : taken[d] \in Nat
  BY <1>3
<1>5. \A T \in SUBSET S : \A d \in S \ T :
           SumFunctionOnSet(taken, T \cup {d}) = taken[d] + SumFunctionOnSet(taken, T)
             /\ SumFunctionOnSet(taken, T) \in Nat
  BY <1>4, SumMore
<1>6. \A T \in SUBSET S : \A d \in S \ T :
           SumFunctionOnSet(room, T \cup {d}) = room[d] + SumFunctionOnSet(room, T)
             /\ SumFunctionOnSet(room, T) \in Nat
  BY <1>1, SumMore
<1>7. 0 \in P
  <2>1. SumFunctionOnSet(taken, {}) = 0 /\ SumFunctionOnSet(room, {}) = 0
    BY <1>1, <1>4, SumOne
  <2>2. Min({extra, 0}) = 0
    <3>1. Min({extra, 0}) \in {extra, 0} /\ Min({extra, 0}) <= 0
      BY OfTwo
    <3> QED
      BY <3>1
  <2>3. F(0) = {}
    BY ForemostAre
  <2> QED
    BY <2>1, <2>2, <2>3
<1>8. ASSUME NEW n \in Nat, n \in P PROVE n + 1 \in P
  <2> SUFFICES ASSUME n + 1 <= Cardinality(S)
               PROVE  SumFunctionOnSet(taken, F(n + 1)) = Min({extra, SumFunctionOnSet(room, F(n + 1))})
    OBVIOUS
  <2>0. Cardinality(S) \in Nat
    BY FS_CardinalityType
  <2>1. n \in 0..(Cardinality(S) - 1) /\ SumFunctionOnSet(taken, F(n)) = Min({extra, SumFunctionOnSet(room, F(n))})
    BY <1>8, <2>0
  <2>2. PICK d \in S \ F(n) : F(n + 1) = F(n) \cup {d} /\ Preceding(R, S, d) = F(n)
    BY <2>1, ForemostAre
  <2>3. F(n) \in SUBSET S
    BY DEF Foremost
  <2> HIDE DEF F
  <2> DEFINE r == room[d]
             b == SumFunctionOnSet(room, F(n))
  <2>4. SumFunctionOnSet(taken, F(n + 1)) = taken[d] + SumFunctionOnSet(taken, F(n))
    BY <1>5, <2>2, <2>3
  <2>5. SumFunctionOnSet(room, F(n + 1)) = r + b /\ b \in Nat /\ r \in Nat
    BY <1>1, <1>6, <2>2, <2>3
  <2>6. taken[d] = Taking(r, extra, b)
    BY <2>2
  <2> HIDE DEF r, b
  <2>7. Min({extra, b}) + Taking(r, extra, b) = Min({extra, r + b}) /\ Taking(r, extra, b) \in Nat
    BY <2>5, TakingIs
  <2>8. Min({extra, b}) \in Nat
    <3>1. Min({extra, b}) \in {extra, b}
      BY <2>5, OfTwo
    <3> QED
      BY <2>5, <3>1
  <2>9. SumFunctionOnSet(taken, F(n)) = Min({extra, b})
    BY <2>1 DEF b
  <2> QED
    <3> DEFINE t == Taking(r, extra, b)
               m == Min({extra, b})
    <3>1. t \in Nat /\ m \in Nat /\ m + t = Min({extra, r + b})
      BY <2>7, <2>8
    <3>2. SumFunctionOnSet(taken, F(n + 1)) = t + m
      BY <2>4, <2>6, <2>9
    <3> HIDE DEF t, m
    <3>3. SumFunctionOnSet(taken, F(n + 1)) = m + t
      BY <3>1, <3>2
    <3> QED
      BY <2>5, <3>1, <3>3
<1>9. Nat \subseteq P
  <2> HIDE DEF P
  <2> QED
    BY <1>7, <1>8, SetInduction
<1>10. Cardinality(S) \in P /\ Cardinality(S) <= Cardinality(S) /\ F(Cardinality(S)) = S
  BY <1>9, ForemostAre
<1>11. SumFunctionOnSet(taken, S) = Min({extra, SumFunctionOnSet(room, S)})
  BY <1>10
<1> QED
  BY <1>3, <1>11

\* The larger and the smaller of two integers.
LEMMA EitherIs ==
    ASSUME NEW a \in Int, NEW b \in Int
    PROVE  /\ Max({a, b}) = IF a >= b THEN a ELSE b
           /\ Min({a, b}) = IF a <= b THEN a ELSE b
<1> DEFINE S == {a, b}
<1>1. (\E x \in S : \A y \in S : x >= y) /\ (\E x \in S : \A y \in S : x <= y)
  OBVIOUS
<1>2. Max(S) \in S /\ \A y \in S : Max(S) >= y
  <2> HIDE DEF S
  <2> QED
    BY <1>1 DEF Max
<1>3. Min(S) \in S /\ \A y \in S : Min(S) <= y
  <2> HIDE DEF S
  <2> QED
    BY <1>1 DEF Min
<1>4. Max(S) \in {a, b} /\ Max(S) >= a /\ Max(S) >= b /\ Min(S) \in {a, b} /\ Min(S) <= a /\ Min(S) <= b
  BY <1>2, <1>3
<1> HIDE DEF S
<1>5. Max(S) = (IF a >= b THEN a ELSE b) /\ Min(S) = IF a <= b THEN a ELSE b
  BY <1>4
<1> QED
  BY <1>5 DEF S

\* Weights that differ in one rank's.
LEMMA OneDiffers ==
    ASSUME NEW b \in Weights, NEW c \in Weights, NEW x \in SharerIds, \A r \in SharerIds \ {x} : c[r] = b[r]
    PROVE  SumFunction(c) - c[x] = SumFunction(b) - b[x]
<1> DEFINE rest == SharerIds \ {x}
<1>1. SumFunction(b) = SumFunctionOnSet(b, SharerIds) /\ SumFunction(c) = SumFunctionOnSet(c, SharerIds)
  BY DEF SumFunction, Weights
<1>2. (\A r \in SharerIds : b[r] \in Nat) /\ \A r \in SharerIds : c[r] \in Nat
  BY DEF Weights
<1>3. IsFiniteSet(SharerIds) /\ IsFiniteSet(rest)
  BY SharersAre, FS_RemoveElement
<1>4. SumFunctionOnSet(b, SharerIds) = b[x] + SumFunctionOnSet(b, rest)
  BY <1>2, <1>3, SumOne
<1>5. SumFunctionOnSet(c, SharerIds) = c[x] + SumFunctionOnSet(c, rest)
  BY <1>2, <1>3, SumOne
<1>6. (\A r \in rest : b[r] \in Nat) /\ \A r \in rest : c[r] = b[r]
  BY <1>2
<1>7. SumFunctionOnSet(b, rest) \in Nat
  BY <1>3, <1>6, SumOne
<1> HIDE DEF rest
<1>8. SumFunctionOnSet(b, rest) = SumFunctionOnSet(c, rest)
  <2>1. \A r \in rest : b[r] \in Nat /\ (r \in rest => c[r] = b[r]) /\ (r \notin rest => b[r] = 0)
    BY <1>6
  <2> QED
    BY <1>3, <2>1, SumInside
<1> QED
  BY <1>1, <1>2, <1>4, <1>5, <1>7, <1>8

\* The ranks with a share.
LEMMA HavingIs ==
    ASSUME NEW w \in Sharing
    PROVE  /\ w \in Weights /\ Having(w) \subseteq SharerIds /\ Having(w) # {} /\ IsFiniteSet(Having(w))
           /\ Cardinality(Having(w)) \in Nat \ {0} /\ \A r \in SharerIds : r \in Having(w) <=> w[r] > 0
<1>1. w \in Weights /\ Having(w) # {}
  BY DEF Sharing
<1>2. Having(w) \subseteq SharerIds /\ \A r \in SharerIds : r \in Having(w) <=> w[r] > 0
  BY DEF Having
<1>3. IsFiniteSet(Having(w))
  BY <1>2, SharersAre, FS_Subset
<1>4. Cardinality(Having(w)) \in Nat \ {0}
  BY <1>1, <1>3, FS_CardinalityType, FS_EmptySet
<1> QED
  BY <1>1, <1>2, <1>3, <1>4

\* A batch is at least one sample of every rank that has a share; and adds up
\* to the ring's where the rounding fits.
LEMMA BatchesSplit ==
    ASSUME NEW w \in Sharing, NEW base \in Nat
    PROVE  LET b   == Batches(w, base)
               all == RingBatch(w, base)
           IN  /\ b \in Weights /\ \A r \in SharerIds : IF r \in Having(w) THEN b[r] >= 1 ELSE b[r] = 0
               /\ all \in Nat \ {0} /\ all = IF Cardinality(Having(w)) >= base THEN Cardinality(Having(w)) ELSE base
               /\ Splits(w, base) => SumFunction(b) = all
<1> DEFINE all == RingBatch(w, base)
           a == ByWeight(w, all)
           b == Batches(w, base)
           n == Cardinality(Having(w))
<1>1. w \in Weights /\ n \in Nat \ {0} /\ Having(w) # {} /\ Having(w) \subseteq SharerIds
  BY HavingIs
<1>2. all = (IF n >= base THEN n ELSE base) /\ all \in Nat \ {0}
  <2> HIDE DEF n
  <2>1. Max({n, base}) = IF n >= base THEN n ELSE base
    BY <1>1, EitherIs
  <2>2. all = Max({n, base})
    BY DEF RingBatch, n
  <2> QED
    BY <1>1, <2>1, <2>2
<1>3. \A r \in SharerIds : a[r] = IF r \in Having(w) THEN Max({1, HalfEven(w[r] * all, SumFunction(w))}) ELSE 0
  BY HavingIs DEF ByWeight
<1>4. b = Absorb(a, all) /\ (Splits(w, base) <=> Fits(a, all)) /\ DOMAIN a = SharerIds
  BY DEF Batches, Splits, ByWeight
<1> HIDE DEF all, b, n
<1>5. \A r \in Having(w) : Max({1, HalfEven(w[r] * all, SumFunction(w))}) \in Nat \ {0}
  <2> TAKE r \in Having(w)
  <2> DEFINE s == SumFunction(w)
             x == w[r] * all
  <2>1. w[r] > 0 /\ r \in SharerIds
    BY HavingIs
  <2>2. s \in Nat /\ s > 0 /\ x \in Nat
    BY <1>1, <1>2, <2>1, WeightSum
  <2> HIDE DEF s, x
  <2>3. x \div s \in Nat
    BY <2>2
  <2>4. HalfEven(x, s) \in Int
    BY <2>3 DEF HalfEven
  <2> DEFINE h == HalfEven(x, s)
  <2>5. h \in Int
    BY <2>4
  <2> HIDE DEF h
  <2>6. Max({1, h}) \in Nat \ {0}
    BY <2>5, EitherIs
  <2> QED
    BY <2>6 DEF h, s, x
<1>6. a \in Weights /\ \A r \in SharerIds : IF r \in Having(w) THEN a[r] >= 1 ELSE a[r] = 0
  <2>1. \A r \in SharerIds : a[r] \in Nat /\ IF r \in Having(w) THEN a[r] >= 1 ELSE a[r] = 0
    <3> TAKE r \in SharerIds
    <3> DEFINE h == Max({1, HalfEven(w[r] * all, SumFunction(w))})
    <3>1. r \in Having(w) => h \in Nat \ {0}
      BY <1>5
    <3>2. a[r] = IF r \in Having(w) THEN h ELSE 0
      BY <1>3
    <3> HIDE DEF h, a
    <3> QED
      BY <3>1, <3>2
  <2>2. a = [r \in SharerIds |-> a[r]]
    BY DEF ByWeight
  <2> HIDE DEF a
  <2> QED
    BY <2>1, <2>2 DEF Weights
<1> HIDE DEF a
<1> DEFINE x == Largest(a)
           v == a[x] + all - SumFunction(a)
<1>7. x \in SharerIds /\ \A q \in SharerIds : a[q] <= a[x]
  BY <1>6, LargestWeight
<1>8. x \in Having(w)
  <2>1. PICK r \in SharerIds : r \in Having(w)
    BY <1>1
  <2>2. a[x] >= a[r] /\ a[r] >= 1 /\ a[x] \in Nat /\ a[r] \in Nat
    BY <1>6, <1>7, <2>1 DEF Weights
  <2> QED
    BY <1>6, <1>7, <2>2
<1>9. b = [a EXCEPT ![x] = Max({1, v})]
  BY <1>4 DEF Absorb
<1>10. v \in Int /\ SumFunction(a) \in Nat /\ a[x] \in Nat
  BY <1>2, <1>6, <1>7, WeightSum
<1>11. Max({1, v}) = (IF 1 >= v THEN 1 ELSE v) /\ Max({1, v}) \in Nat /\ Max({1, v}) >= 1
  <2> HIDE DEF v
  <2>1. Max({1, v}) = IF 1 >= v THEN 1 ELSE v
    BY <1>10, EitherIs
  <2> QED
    BY <1>10, <2>1
<1> DEFINE m == Max({1, v})
<1>12. b \in Weights /\ b[x] = m /\ \A r \in SharerIds \ {x} : b[r] = a[r]
  <2> HIDE DEF m, x
  <2>1. m \in Nat
    BY <1>11 DEF m
  <2>2. b = [a EXCEPT ![x] = m]
    BY <1>9 DEF m
  <2> QED
    BY <1>6, <1>7, <2>1, <2>2 DEF Weights
<1>13. \A r \in SharerIds : IF r \in Having(w) THEN b[r] >= 1 ELSE b[r] = 0
  BY <1>6, <1>8, <1>11, <1>12
<1>14. Splits(w, base) => SumFunction(b) = all
  <2> SUFFICES ASSUME Splits(w, base) PROVE SumFunction(b) = all
    OBVIOUS
  <2>1. SumFunction(a) - all < a[x]
    BY <1>4 DEF Fits
  <2>2. b[x] = v
    BY <1>2, <1>10, <1>11, <1>12, <2>1
  <2>3. SumFunction(b) - b[x] = SumFunction(a) - a[x]
    BY <1>6, <1>7, <1>12, OneDiffers
  <2>4. SumFunction(b) \in Nat
    BY <1>12, WeightSum
  <2> QED
    BY <1>2, <1>10, <2>2, <2>3, <2>4
<1> QED
  BY <1>2, <1>12, <1>13, <1>14 DEF all, b, n

\* The order in which ranks take what is over.
AheadOrder(w) ==
    {p \in Having(w) \X Having(w) : w[p[1]] > w[p[2]] \/ (w[p[1]] = w[p[2]] /\ p[1] < p[2])}

\* It is an order of the ranks with a share, and Ahead is who comes before.
LEMMA AheadOrderIs ==
    ASSUME NEW w \in Sharing
    PROVE  /\ IsOrder(AheadOrder(w), Having(w))
           /\ \A r \in Having(w) : Preceding(AheadOrder(w), Having(w), r) = Ahead(w, r)
<1> DEFINE R == AheadOrder(w)
           H == Having(w)
<1>1. \A d, e \in H : <<d, e>> \in R <=> w[d] > w[e] \/ (w[d] = w[e] /\ d < e)
  BY DEF AheadOrder
<1>2. \A d \in H : d \in Nat /\ w[d] \in Nat
  BY HavingIs, SharersAre DEF Weights
<1> HIDE DEF R, H
<1>3. IsOrder(R, H)
  BY <1>1, <1>2 DEF IsOrder
<1>4. \A r \in H : Preceding(R, H, r) = {q \in H : w[q] > w[r] \/ (w[q] = w[r] /\ q < r)}
  BY <1>1 DEF Preceding
<1> QED
  BY <1>3, <1>4 DEF R, H, Ahead

\* Adding up what some ranks have over all ranks.
LEMMA HavingSum ==
    ASSUME NEW w \in Sharing, NEW b \in Weights, \A r \in SharerIds : r \notin Having(w) => b[r] = 0
    PROVE  SumFunction(b) = SumFunctionOnSet(b, SharerIds) /\ SumFunctionOnSet(b, SharerIds) = SumFunctionOnSet(b, Having(w))
<1>1. SumFunction(b) = SumFunctionOnSet(b, SharerIds)
  BY DEF SumFunction, Weights
<1>2. \A r \in SharerIds : b[r] \in Nat /\ (r \in Having(w) => b[r] = b[r]) /\ (r \notin Having(w) => b[r] = 0)
  BY DEF Weights
<1>3. IsFiniteSet(SharerIds) /\ Having(w) \in SUBSET SharerIds
  BY SharersAre, HavingIs
<1>4. SumFunctionOnSet(b, SharerIds) = SumFunctionOnSet(b, Having(w))
  BY <1>2, <1>3, SumInside
<1> QED
  BY <1>1, <1>4

\* With fewer samples than ranks the foremost have one each.
LEMMA FewSplit ==
    ASSUME NEW w \in Sharing, NEW left \in Nat, left < Cardinality(Having(w)), NEW tails,
           tails = [r \in SharerIds |-> IF w[r] > 0 /\ Cardinality(Ahead(w, r)) < left THEN 1 ELSE 0]
    PROVE  tails \in Weights /\ SumFunction(tails) = left
             /\ \A r \in SharerIds : tails[r] <= 1 /\ (r \notin Having(w) => tails[r] = 0)
<1> DEFINE H == Having(w)
           F == Foremost(AheadOrder(w), H, left)
<1>1. H \subseteq SharerIds /\ IsFiniteSet(H) /\ \A r \in SharerIds : r \in H <=> w[r] > 0
  BY HavingIs
<1>2. \A r \in SharerIds : r \in F <=> w[r] > 0 /\ Cardinality(Ahead(w, r)) < left
  BY <1>1, AheadOrderIs DEF Foremost
<1>3. \A r \in SharerIds : tails[r] = IF r \in F THEN 1 ELSE 0
  BY <1>2
<1>4. F \subseteq H
  BY DEF Foremost
<1>5. Cardinality(F) = left
  <2>1. left \in 0..Cardinality(H)
    BY HavingIs
  <2> QED
    BY <1>1, <2>1, AheadOrderIs, ForemostCount
<1> HIDE DEF F, H
<1>6. tails \in Weights
  <2>1. tails = [r \in SharerIds |-> tails[r]]
    OBVIOUS
  <2> QED
    BY <1>3, <2>1 DEF Weights
<1>7. SumFunction(tails) = SumFunctionOnSet(tails, F)
  <2>1. \A r \in SharerIds : tails[r] \in Nat /\ (r \in F => tails[r] = tails[r]) /\ (r \notin F => tails[r] = 0)
    BY <1>3
  <2>2. F \in SUBSET SharerIds /\ IsFiniteSet(SharerIds)
    BY <1>1, <1>4, SharersAre
  <2>3. SumFunctionOnSet(tails, SharerIds) = SumFunctionOnSet(tails, F)
    BY <2>1, <2>2, SumInside
  <2>4. SumFunction(tails) = SumFunctionOnSet(tails, SharerIds)
    BY <1>6 DEF SumFunction, Weights
  <2> QED
    BY <2>3, <2>4
<1>8. SumFunctionOnSet(tails, F) = left
  <2>1. IsFiniteSet(F)
    BY <1>1, <1>4, FS_Subset
  <2>2. \A r \in F : tails[r] \in Nat /\ tails[r] <= 1 /\ tails[r] >= 1
    BY <1>1, <1>3, <1>4
  <2>3. SumFunctionOnSet(tails, F) <= Cardinality(F) * 1
    BY <2>1, <2>2, SumAtMost
  <2>4. Cardinality(F) <= SumFunctionOnSet(tails, F)
    BY <2>1, <2>2, SumAtLeast
  <2>5. SumFunctionOnSet(tails, F) \in Nat
    BY <2>1, <2>2, SumOne
  <2> QED
    BY <1>5, <2>3, <2>4, <2>5
<1> QED
  BY <1>3, <1>4, <1>6, <1>7, <1>8 DEF H

\* No rank of the last step takes more than its batch, and all samples are taken.
LEMMA CappedIs ==
    ASSUME NEW w \in Sharing, NEW b \in Weights, NEW t \in Weights,
           \A r \in SharerIds : r \notin Having(w) => b[r] = 0 /\ t[r] = 0
    PROVE  LET tails == Capped(w, b, t)
           IN  /\ tails \in Weights /\ \A r \in SharerIds : tails[r] <= b[r]
               /\ SumFunction(t) <= SumFunction(b) => SumFunction(tails) = SumFunction(t)
<1> DEFINE H == Having(w)
           tails == Capped(w, b, t)
           room  == [q \in SharerIds |-> Max({0, b[q] - t[q]})]
           over  == [q \in SharerIds |-> Max({0, t[q] - b[q]})]
           least == [q \in SharerIds |-> Min({t[q], b[q]})]
           extra == SumFunction(over)
           taken == [q \in SharerIds |-> Moved(w, room, extra, q)]
<1>1. \A q \in SharerIds : b[q] \in Nat /\ t[q] \in Nat
  BY DEF Weights
<1>2. \A q \in SharerIds : /\ room[q] = IF b[q] >= t[q] THEN b[q] - t[q] ELSE 0
                           /\ over[q] = IF t[q] >= b[q] THEN t[q] - b[q] ELSE 0
                           /\ least[q] = IF t[q] <= b[q] THEN t[q] ELSE b[q]
  <2> TAKE q \in SharerIds
  <2> DEFINE x == b[q]
             y == t[q]
  <2>1. x \in Nat /\ y \in Nat /\ x - y \in Int /\ y - x \in Int /\ 0 \in Int /\ x \in Int /\ y \in Int
    BY <1>1
  <2>2. room[q] = Max({0, x - y}) /\ over[q] = Max({0, y - x}) /\ least[q] = Min({y, x})
    OBVIOUS
  <2> HIDE DEF room, over, least, x, y
  <2>3. Max({0, x - y}) = IF 0 >= x - y THEN 0 ELSE x - y
    BY <2>1, EitherIs
  <2>4. Max({0, y - x}) = IF 0 >= y - x THEN 0 ELSE y - x
    BY <2>1, EitherIs
  <2>5. Min({y, x}) = IF y <= x THEN y ELSE x
    BY <2>1, EitherIs
  <2> QED
    BY <2>1, <2>2, <2>3, <2>4, <2>5 DEF x, y
<1>3. room \in [SharerIds -> Nat] /\ over \in [SharerIds -> Nat] /\ least \in [SharerIds -> Nat]
  <2>1. /\ room = [q \in SharerIds |-> room[q]] /\ over = [q \in SharerIds |-> over[q]]
        /\ least = [q \in SharerIds |-> least[q]]
    OBVIOUS
  <2>2. \A q \in SharerIds : room[q] \in Nat /\ over[q] \in Nat /\ least[q] \in Nat
    <3> HIDE DEF room, over, least
    <3> QED
      BY <1>1, <1>2
  <2> HIDE DEF room, over, least
  <2> QED
    BY <2>1, <2>2
<1>4. tails = [q \in SharerIds |-> least[q] + taken[q]]
  BY DEF Capped
<1>5. \A q \in SharerIds : taken[q] = Taking(room[q], extra, SumFunctionOnSet(room, Ahead(w, q)))
  BY DEF Moved, Taking
<1> HIDE DEF room, over, least, taken, extra, tails
<1>6. IsFiniteSet(SharerIds) /\ H \subseteq SharerIds /\ IsFiniteSet(H)
  BY SharersAre, HavingIs
<1>7. extra \in Nat /\ extra = SumFunctionOnSet(over, SharerIds)
  <2>1. over \in Weights
    BY <1>3 DEF Weights
  <2> QED
    BY <1>3, <2>1, WeightSum DEF extra, SumFunction
<1>8. \A q \in SharerIds : taken[q] \in Nat /\ taken[q] <= room[q]
  <2> TAKE q \in SharerIds
  <2> DEFINE before == SumFunctionOnSet(room, Ahead(w, q))
  <2>1. before \in Nat
    <3>1. Ahead(w, q) \subseteq SharerIds
      BY <1>6 DEF Ahead
    <3>2. IsFiniteSet(Ahead(w, q)) /\ \A d \in Ahead(w, q) : room[d] \in Nat
      BY <1>3, <1>6, <3>1, FS_Subset
    <3> QED
      BY <3>2, SumOne
  <2>2. taken[q] = Taking(room[q], extra, before) /\ room[q] \in Nat
    BY <1>3, <1>5
  <2> HIDE DEF before
  <2> QED
    BY <1>7, <2>1, <2>2, TakingIs
<1>9. SumFunctionOnSet(taken, H) = Min({extra, SumFunctionOnSet(room, H)})
  <2>1. \A d \in H : Preceding(AheadOrder(w), H, d) = Ahead(w, d)
    BY AheadOrderIs
  <2>2. \A d \in H : /\ room[d] \in Nat
                     /\ taken[d] = Taking(room[d], extra, SumFunctionOnSet(room, Preceding(AheadOrder(w), H, d)))
    BY <1>3, <1>5, <1>6, <2>1
  <2>3. IsOrder(AheadOrder(w), H)
    BY AheadOrderIs
  <2> HIDE DEF H
  <2> QED
    BY <1>6, <1>7, <2>2, <2>3, AllTaken
<1>10. /\ SumFunctionOnSet(room, SharerIds) = SumFunctionOnSet(room, H)
       /\ SumFunctionOnSet(taken, SharerIds) = SumFunctionOnSet(taken, H)
  <2>1. \A r \in SharerIds : r \notin H => room[r] = 0
    BY <1>1, <1>2
  <2>2. \A r \in SharerIds : room[r] \in Nat /\ (r \in H => room[r] = room[r]) /\ (r \notin H => room[r] = 0)
    BY <1>3, <2>1
  <2>3. \A r \in SharerIds : taken[r] \in Nat /\ (r \in H => taken[r] = taken[r]) /\ (r \notin H => taken[r] = 0)
    BY <1>3, <1>8, <2>1
  <2>4. H \in SUBSET SharerIds
    BY <1>6
  <2> HIDE DEF H
  <2>5. SumFunctionOnSet(room, SharerIds) = SumFunctionOnSet(room, H)
    BY <1>6, <2>2, <2>4, SumInside
  <2>6. SumFunctionOnSet(taken, SharerIds) = SumFunctionOnSet(taken, H)
    BY <1>6, <2>3, <2>4, SumInside
  <2> QED
    BY <2>5, <2>6
<1>11. SumFunctionOnSet(t, SharerIds) = SumFunctionOnSet(least, SharerIds) + extra
  <2>1. \A q \in SharerIds : least[q] \in Nat /\ over[q] \in Nat /\ t[q] = least[q] + over[q]
    BY <1>1, <1>2, <1>3
  <2> QED
    BY <1>6, <1>7, <2>1, SumPlus
<1>12. SumFunctionOnSet(b, SharerIds) = SumFunctionOnSet(least, SharerIds) + SumFunctionOnSet(room, SharerIds)
  <2>1. \A q \in SharerIds : least[q] \in Nat /\ room[q] \in Nat /\ b[q] = least[q] + room[q]
    BY <1>1, <1>2, <1>3
  <2> QED
    BY <1>6, <2>1, SumPlus
<1>13. SumFunctionOnSet(tails, SharerIds) = SumFunctionOnSet(least, SharerIds) + SumFunctionOnSet(taken, SharerIds)
  <2>1. \A q \in SharerIds : least[q] \in Nat /\ taken[q] \in Nat /\ tails[q] = least[q] + taken[q]
    BY <1>3, <1>4, <1>8
  <2> QED
    BY <1>6, <2>1, SumPlus
<1>14. tails \in Weights /\ \A r \in SharerIds : tails[r] <= b[r]
  <2>1. \A r \in SharerIds : tails[r] = least[r] + taken[r] /\ tails[r] \in Nat
    BY <1>3, <1>4, <1>8
  <2>2. \A r \in SharerIds : tails[r] <= b[r]
    BY <1>1, <1>2, <1>3, <1>8, <2>1
  <2>3. tails = [r \in SharerIds |-> tails[r]]
    BY <1>4
  <2> QED
    BY <2>1, <2>2, <2>3 DEF Weights
<1>15. ASSUME SumFunction(t) <= SumFunction(b)
       PROVE  SumFunction(tails) = SumFunction(t)
  <2>1. /\ SumFunction(tails) = SumFunctionOnSet(tails, SharerIds) /\ SumFunction(t) = SumFunctionOnSet(t, SharerIds)
        /\ SumFunction(b) = SumFunctionOnSet(b, SharerIds)
    BY <1>14 DEF SumFunction, Weights
  <2> DEFINE x == SumFunctionOnSet(least, SharerIds)
             y == SumFunctionOnSet(room, SharerIds)
  <2>2. x \in Nat /\ y \in Nat
    BY <1>3, <1>6, SumOne
  <2>3. extra <= y
    BY <1>7, <1>11, <1>12, <1>15, <2>1, <2>2
  <2> HIDE DEF x, y
  <2>4. Min({extra, y}) = extra
    <3>1. extra \in Int /\ y \in Int
      BY <1>7, <2>2
    <3>2. Min({extra, y}) = IF extra <= y THEN extra ELSE y
      BY <3>1, EitherIs
    <3> QED
      BY <2>3, <3>2
  <2> QED
    BY <1>9, <1>10, <1>11, <1>13, <2>1, <2>4 DEF x, y
<1> QED
  BY <1>14, <1>15 DEF tails

\* The last step has all that is over, and no rank more than its batch.
LEMMA TailIs ==
    ASSUME NEW w \in Sharing, NEW b \in Weights,
           \A r \in SharerIds : IF r \in Having(w) THEN b[r] >= 1 ELSE b[r] = 0,
           NEW left \in Nat
    PROVE  LET tails == SplitTail(w, b, left)
           IN  /\ tails \in Weights /\ \A r \in SharerIds : tails[r] <= b[r]
               /\ left <= SumFunction(b) /\ (left < Cardinality(Having(w)) \/ Splits(w, left))
                    => SumFunction(tails) = left
<1> DEFINE n == Cardinality(Having(w))
           t == Batches(w, left)
           few == [r \in SharerIds |-> IF w[r] > 0 /\ Cardinality(Ahead(w, r)) < left THEN 1 ELSE 0]
<1>1. SplitTail(w, b, left) = IF left >= n THEN Capped(w, b, t) ELSE few
  BY DEF SplitTail
<1>2. n \in Nat
  BY HavingIs
<1>3. CASE left >= n
  <2>1. t \in Weights /\ \A r \in SharerIds : IF r \in Having(w) THEN t[r] >= 1 ELSE t[r] = 0
    BY BatchesSplit
  <2>2. Splits(w, left) => SumFunction(t) = left
    <3>1. RingBatch(w, left) = left
      BY <1>2, <1>3, BatchesSplit
    <3> QED
      BY <3>1, BatchesSplit
  <2>3. \A r \in SharerIds : r \notin Having(w) => b[r] = 0 /\ t[r] = 0
    BY <2>1
  <2> HIDE DEF t
  <2>4. /\ Capped(w, b, t) \in Weights /\ \A r \in SharerIds : Capped(w, b, t)[r] <= b[r]
        /\ SumFunction(t) <= SumFunction(b) => SumFunction(Capped(w, b, t)) = SumFunction(t)
    BY <2>1, <2>3, CappedIs
  <2>5. ~(left < n)
    BY <1>2, <1>3
  <2> HIDE DEF n
  <2> QED
    BY <1>1, <1>3, <2>2, <2>4, <2>5 DEF n
<1>4. CASE left < n
  <2>1. few \in Weights /\ SumFunction(few) = left /\ \A r \in SharerIds : few[r] <= 1 /\ (r \notin Having(w) => few[r] = 0)
    BY <1>4, FewSplit
  <2>2. SplitTail(w, b, left) = few
    BY <1>1, <1>2, <1>4
  <2> HIDE DEF few
  <2>3. \A r \in SharerIds : few[r] <= b[r]
    BY <2>1 DEF Weights
  <2> QED
    BY <2>1, <2>2, <2>3
<1> QED
  BY <1>2, <1>3, <1>4

\* A sample prefers r to q.
Prefers(l, s, w, r, q) ==
    Score(l, s, q, w) < Score(l, s, r, w) \/ (Score(l, s, q, w) = Score(l, s, r, w) /\ r <= q)

\* Some rank of a set is the one a sample prefers to all the others; of a smaller
\* set that has that rank, it is that rank too.
LEMMA BestIs ==
    ASSUME NEW l \in Loaders, NEW w \in Weights, NEW s \in Nat, NEW S \in SUBSET SharerIds, S # {}
    PROVE  /\ BestOf(l, s, S, w) \in S
           /\ \A T \in SUBSET S : BestOf(l, s, S, w) \in T => BestOf(l, s, T, w) = BestOf(l, s, S, w)
<1> DEFINE score(r) == Score(l, s, r, w)
           before(r, q) == score(q) < score(r) \/ (score(q) = score(r) /\ r < q)
           R == {p \in S \X S : before(p[1], p[2])}
<1>1. \A r \in SharerIds : score(r) \in Nat /\ r \in Nat
  <2> TAKE r \in SharerIds
  <2> DEFINE x == (s + 2) * (r + l.seed) + l.seed * s
             y == w[r]
  <2>1. r \in Nat /\ l.seed \in Nat /\ y \in Nat
    <3>1. l.seed \in Seeds
      BY DEF Loaders
    <3> QED
      BY <3>1, ShareAssumption, SharersAre DEF Weights
  <2>2. x \in Nat
    BY <2>1
  <2>3. score(r) = y * (1 + (x % 7))
    BY DEF Score
  <2> HIDE DEF x, y, score
  <2>4. x % 7 \in Nat
    BY <2>2
  <2> QED
    BY <2>1, <2>3, <2>4
<1>2. \A T \in SUBSET S : BestOf(l, s, T, w) = CHOOSE r \in T : \A q \in T : Prefers(l, s, w, r, q)
  BY DEF BestOf, TopOf, Prefers
<1>3. \A r, q \in SharerIds : Prefers(l, s, w, r, q) <=> r = q \/ before(r, q)
  BY <1>1 DEF Prefers
<1>4. IsOrder(R, S)
  <2>1. \A r, q \in S : <<r, q>> \in R <=> before(r, q)
    OBVIOUS
  <2>2. \A r \in S : ~before(r, r)
    BY <1>1
  <2>3. \A r, q \in S : r # q => before(r, q) \/ before(q, r)
    BY <1>1
  <2>4. \A r, q, p \in S : before(r, q) /\ before(q, p) => before(r, p)
    BY <1>1
  <2> HIDE DEF R, before
  <2> QED
    BY <2>1, <2>2, <2>3, <2>4 DEF IsOrder
<1>5. IsFiniteSet(S)
  BY SharersAre, FS_Subset
<1>6. PICK best \in S : Preceding(R, S, best) = {}
  <2>1. 0 \in 0..(Cardinality(S) - 1)
    BY <1>5, FS_CardinalityType, FS_EmptySet
  <2> HIDE DEF R
  <2>2. \E d \in S \ Foremost(R, S, 0) : Preceding(R, S, d) = Foremost(R, S, 0)
    BY <1>4, <1>5, <2>1, ForemostAre
  <2>3. Foremost(R, S, 0) = {}
    BY <1>4, <1>5, ForemostAre
  <2> QED
    BY <2>2, <2>3
<1>7. \A q \in S : Prefers(l, s, w, best, q)
  <2> TAKE q \in S
  <2>1. ~before(q, best)
    BY <1>6 DEF Preceding
  <2>2. q = best \/ before(best, q)
    BY <1>1, <2>1
  <2> QED
    BY <1>3, <2>2
<1>8. \A r \in S : Prefers(l, s, w, r, best) => r = best
  <2>1. \A r \in S : ~before(r, best)
    BY <1>6 DEF Preceding
  <2> QED
    BY <1>3, <2>1
<1> HIDE DEF score, before, R
<1>9. \A T \in SUBSET S : best \in T => BestOf(l, s, T, w) = best
  <2> TAKE T \in SUBSET S
  <2> SUFFICES ASSUME best \in T PROVE BestOf(l, s, T, w) = best
    OBVIOUS
  <2>1. \A r \in T : (\A q \in T : Prefers(l, s, w, r, q)) <=> r = best
    BY <1>7, <1>8
  <2>2. (CHOOSE r \in T : \A q \in T : Prefers(l, s, w, r, q)) = best
    BY <2>1
  <2> QED
    BY <1>2, <2>2
<1> QED
  BY <1>9

\* Who owns the samples there are so far.
Claimed == Seq(SharerIds \cup {Nobody})

\* The ranks with room, and the one of them the i-th sample prefers.
Open(own, w, quota) == {r \in Having(w) : Owned(own, r) < quota[r]}
Taker(l, own, i, w, quota) ==
    IF Open(own, w, quota) = {} THEN Nobody ELSE BestOf(l, Order(l, i), Open(own, w, quota), w)

\* The next sample goes to the rank it prefers of those with room.
LEMMA ClaimIs ==
    ASSUME NEW l \in Loaders, l.data > 0, NEW w \in Sharing, NEW own \in Claimed, NEW i \in Nat, NEW quota
    PROVE  /\ Claim(l, own, i, w, quota) = Append(own, Taker(l, own, i, w, quota)) /\ Order(l, i) \in Nat
           /\ Open(own, w, quota) = {} => Taker(l, own, i, w, quota) = Nobody
           /\ Open(own, w, quota) # {} => Taker(l, own, i, w, quota) \in Open(own, w, quota)
           /\ Claim(l, own, i, w, quota) \in Claimed
<1> DEFINE open == Open(own, w, quota)
           x == Taker(l, own, i, w, quota)
<1>1. Claim(l, own, i, w, quota) = Append(own, x)
  BY DEF Claim, Take, Taker, Open
<1>2. Order(l, i) \in Nat
  <2>1. l.data \in Nat /\ l.seed \in Nat
    <3>1. l.data \in DataSizes /\ l.seed \in Seeds
      BY DEF Loaders
    <3> QED
      BY <3>1, ShareAssumption
  <2> DEFINE d == l.data
             y == i + l.seed
  <2>2. d \in Nat \ {0} /\ y \in Nat
    BY <2>1
  <2> HIDE DEF d, y
  <2>3. y % d \in Nat
    BY <2>2
  <2> QED
    BY <2>3 DEF Order, d, y
<1>3. open \in SUBSET SharerIds /\ w \in Weights
  BY HavingIs DEF Open
<1>4. IF open = {} THEN x = Nobody ELSE x \in open
  <2>1. x = IF open = {} THEN Nobody ELSE BestOf(l, Order(l, i), open, w)
    BY DEF Taker
  <2> HIDE DEF open, x
  <2> QED
    BY <1>2, <1>3, <2>1, BestIs
<1>5. x \in SharerIds \cup {Nobody}
  <2> HIDE DEF x
  <2> QED
    BY <1>3, <1>4
<1>6. Append(own, x) \in Claimed
  <2> HIDE DEF x
  <2> QED
    BY <1>5 DEF Claimed
<1> QED
  BY <1>1, <1>2, <1>4, <1>6

\* The claims one after the other, from the first own on.
Claims(f, l, w, quota, own) ==
    /\ f \in [Nat -> Claimed] /\ f[0] = own
    /\ \A n \in 1..(l.data - Len(own)) : f[n] = Claim(l, f[n - 1], Len(own) + n, w, quota)

\* Greedy is a function defined by recursion: it exists, and it is the claims.
LEMMA ClaimsExist ==
    ASSUME NEW l \in Loaders, NEW w \in Sharing, NEW quota, NEW own \in Claimed, Len(own) <= l.data
    PROVE  \E f : Claims(f, l, w, quota, own)
<1> DEFINE N == Len(own)
           step == [n \in Nat |-> [o \in Claimed |-> IF l.data > 0 THEN Claim(l, o, N + n, w, quota) ELSE o]]
<1>1. l.data \in Nat /\ N \in Nat /\ l.data - N \in Nat
  <2>1. l.data \in DataSizes
    BY DEF Loaders
  <2>2. N \in Nat
    BY DEF Claimed
  <2> QED
    BY <2>1, <2>2, ShareAssumption
<1> HIDE DEF N
<1>2. step \in [Nat -> [Claimed -> Claimed]]
  <2>1. \A n \in Nat, o \in Claimed : (IF l.data > 0 THEN Claim(l, o, N + n, w, quota) ELSE o) \in Claimed
    <3> TAKE n \in Nat, o \in Claimed
    <3>1. N + n \in Nat
      BY <1>1
    <3> QED
      BY <3>1, ClaimIs
  <2> QED
    BY <2>1
<1>3. \A n \in 1..(l.data - N) : \A o \in Claimed : step[n][o] = Claim(l, o, N + n, w, quota)
  <2> TAKE n \in 1..(l.data - N)
  <2>1. n \in Nat /\ l.data > 0
    BY <1>1
  <2> QED
    BY <2>1
<1> HIDE DEF step
<1>4. PICK f : RecursTo(f, Claimed, own, step, l.data - N)
  BY <1>1, <1>2, RecursionExists
<1>5. \A n \in 1..(l.data - N) : f[n] = Claim(l, f[n - 1], N + n, w, quota)
  <2> TAKE n \in 1..(l.data - N)
  <2>1. n - 1 \in Nat
    BY <1>1
  <2>2. f[n - 1] \in Claimed /\ f[n] = step[n][f[n - 1]]
    BY <1>4, <2>1 DEF RecursTo
  <2> QED
    BY <1>3, <2>2
<1>6. f \in [Nat -> Claimed] /\ f[0] = own
  BY <1>4 DEF RecursTo
<1> QED
  BY <1>5, <1>6 DEF Claims, N

\* Greedy claims one sample after the other.
LEMMA GreedyIs ==
    ASSUME NEW l \in Loaders, NEW w \in Sharing, NEW quota, NEW own \in Claimed, Len(own) <= l.data,
           NEW f, Claims(f, l, w, quota, own)
    PROVE  Greedy(l, w, quota, own) = f[l.data - Len(own)]
<1> DEFINE N == Len(own)
           D == N..l.data
           after == CHOOSE g : g = [i \in Len(own)..l.data |->
                      IF i = Len(own) THEN own ELSE Claim(l, g[i - 1], i, w, quota)]
           h == [i \in D |-> f[i - N]]
<1>1. l.data \in Nat /\ N \in Nat /\ l.data - N \in Nat
  <2>1. l.data \in DataSizes
    BY DEF Loaders
  <2>2. N \in Nat
    BY DEF Claimed
  <2> QED
    BY <2>1, <2>2, ShareAssumption
<1> HIDE DEF N
<1>2. h = [i \in D |-> IF i = N THEN own ELSE Claim(l, h[i - 1], i, w, quota)]
  <2> SUFFICES ASSUME NEW i \in D
               PROVE  f[i - N] = IF i = N THEN own ELSE Claim(l, h[i - 1], i, w, quota)
    OBVIOUS
  <2>1. CASE i = N
    <3>1. i - N = 0
      BY <1>1, <2>1
    <3> QED
      BY <2>1, <3>1 DEF Claims
  <2>2. CASE i # N
    <3>1. i - N \in 1..(l.data - N) /\ i - 1 \in D /\ (i - N) - 1 = (i - 1) - N /\ N + (i - N) = i
      BY <1>1, <2>2
    <3>2. f[i - N] = Claim(l, f[(i - N) - 1], N + (i - N), w, quota)
      BY <3>1 DEF Claims, N
    <3>3. h[i - 1] = f[(i - 1) - N]
      BY <3>1
    <3> QED
      BY <2>2, <3>1, <3>2, <3>3
  <2> QED
    BY <2>1, <2>2
<1> HIDE DEF h
<1>3. after = [i \in D |-> IF i = N THEN own ELSE Claim(l, after[i - 1], i, w, quota)]
  BY <1>2 DEF N
<1> HIDE DEF after
<1> DEFINE P == {n \in Nat : n <= l.data - N => after[N + n] = f[n]}
<1>4. 0 \in P
  <2>1. N \in D /\ N + 0 = N
    BY <1>1
  <2>2. after[N] = own
    BY <1>3, <2>1
  <2> QED
    BY <2>1, <2>2 DEF Claims
<1>5. ASSUME NEW n \in Nat, n \in P PROVE n + 1 \in P
  <2> SUFFICES ASSUME n + 1 <= l.data - N PROVE after[N + (n + 1)] = f[n + 1]
    OBVIOUS
  <2>1. /\ N + (n + 1) \in D /\ N + (n + 1) # N /\ (N + (n + 1)) - 1 = N + n /\ n + 1 \in 1..(l.data - N)
        /\ (n + 1) - 1 = n /\ n <= l.data - N
    BY <1>1
  <2>2. after[N + (n + 1)] = Claim(l, after[N + n], N + (n + 1), w, quota)
    BY <1>3, <2>1
  <2>3. f[n + 1] = Claim(l, f[n], N + (n + 1), w, quota)
    BY <2>1 DEF Claims, N
  <2>4. after[N + n] = f[n]
    BY <1>5, <2>1
  <2> QED
    BY <2>2, <2>3, <2>4
<1>6. Nat \subseteq P
  <2> HIDE DEF P
  <2> QED
    BY <1>4, <1>5, SetInduction
<1>7. after[N + (l.data - N)] = f[l.data - N]
  BY <1>1, <1>6
<1>8. N + (l.data - N) = l.data
  BY <1>1
<1>9. Greedy(l, w, quota, own) = after[l.data]
  BY DEF Greedy, after
<1> QED
  BY <1>7, <1>8, <1>9 DEF N

\* One more sample is one more of its owner's.
LEMMA OwnedIs ==
    ASSUME NEW own \in Claimed, NEW x
    PROVE  /\ \A r : Owned(own, r) \in Nat /\ Owned(<<>>, r) = 0
           /\ \A r : Owned(Append(own, x), r) = Owned(own, r) + (IF r = x THEN 1 ELSE 0)
           /\ Range(Append(own, x)) = Range(own) \cup {x}
           /\ Len(own) \in Nat /\ Len(Append(own, x)) = Len(own) + 1
<1> DEFINE n == Len(own)
           new == Append(own, x)
           At(s, r) == {i \in DOMAIN s : s[i] = r}
<1>1. /\ n \in Nat /\ DOMAIN own = 1..n /\ Len(new) = n + 1 /\ DOMAIN new = 1..(n + 1)
      /\ new[n + 1] = x /\ \A i \in 1..n : new[i] = own[i]
  BY DEF Claimed
<1>2. \A s, r : Owned(s, r) = Cardinality(At(s, r))
  BY DEF Owned
<1>3. \A r : At(new, r) = At(own, r) \cup (IF r = x THEN {n + 1} ELSE {})
  <2> TAKE r
  <2> HIDE DEF new
  <2>1. \A i : i \in 1..(n + 1) <=> i \in 1..n \/ i = n + 1
    BY <1>1
  <2> QED
    BY <1>1, <2>1
<1>4. \A r : IsFiniteSet(At(own, r)) /\ n + 1 \notin At(own, r)
  <2> TAKE r
  <2>1. IsFiniteSet(1..n)
    BY <1>1, FS_Interval
  <2>2. At(own, r) \subseteq 1..n /\ n + 1 \notin 1..n
    BY <1>1
  <2> QED
    BY <2>1, <2>2, FS_Subset
<1>5. \A r : Cardinality(At(own, r)) \in Nat
  BY <1>4, FS_CardinalityType
<1>6. \A r : At(<<>>, r) = {}
  OBVIOUS
<1> HIDE DEF At, new, n
<1>7. \A r : Cardinality(At(new, r)) = Cardinality(At(own, r)) + (IF r = x THEN 1 ELSE 0)
  <2> TAKE r
  <2>1. CASE r = x
    <3>1. At(new, r) = At(own, r) \cup {n + 1}
      BY <1>3, <2>1
    <3> QED
      BY <1>4, <2>1, <3>1, FS_AddElement
  <2>2. CASE r # x
    <3>1. At(new, r) = At(own, r)
      BY <1>3, <2>2
    <3> QED
      BY <1>5, <2>2, <3>1
  <2> QED
    BY <2>1, <2>2
<1>8. Range(new) = Range(own) \cup {x}
  <2>1. Range(new) = {new[i] : i \in 1..(n + 1)} /\ Range(own) = {own[i] : i \in 1..n}
    BY <1>1 DEF Range
  <2>2. \A i : i \in 1..(n + 1) <=> i \in 1..n \/ i = n + 1
    BY <1>1
  <2> QED
    BY <1>1, <2>1, <2>2
<1>9. \A r : Owned(<<>>, r) = 0
  BY <1>2, <1>6, FS_EmptySet
<1> QED
  BY <1>1, <1>2, <1>5, <1>7, <1>8, <1>9 DEF new, n

\* The samples so far: no rank has more than its quota, every one has an owner
\* as long as there is room, and then every rank has what it is to have.
Filled(own, k, H, quota) ==
    /\ own \in Claimed /\ Len(own) = k
    /\ \A r \in H : Owned(own, r) <= quota[r]
    /\ k <= SumFunctionOnSet(quota, H) =>
         Nobody \notin Range(own) /\ SumFunctionOnSet([r \in H |-> Owned(own, r)], H) = k
    /\ k >= SumFunctionOnSet(quota, H) => \A r \in H : Owned(own, r) = quota[r]

\* A claim leaves it so.
LEMMA ClaimFills ==
    ASSUME NEW l \in Loaders, l.data > 0, NEW w \in Sharing, NEW quota \in Weights, NEW k \in Nat, NEW own,
           Filled(own, k, Having(w), quota)
    PROVE  Filled(Claim(l, own, k + 1, w, quota), k + 1, Having(w), quota)
<1> DEFINE H == Having(w)
           open == Open(own, w, quota)
           x == Taker(l, own, k + 1, w, quota)
           new == Claim(l, own, k + 1, w, quota)
           Q == SumFunctionOnSet(quota, H)
           had == [r \in H |-> Owned(own, r)]
           has == [r \in H |-> Owned(new, r)]
<1>1. /\ own \in Claimed /\ Len(own) = k /\ \A r \in H : Owned(own, r) <= quota[r]
      /\ k <= Q => Nobody \notin Range(own) /\ SumFunctionOnSet(had, H) = k
      /\ k >= Q => \A r \in H : Owned(own, r) = quota[r]
  BY DEF Filled
<1>2. IsFiniteSet(H) /\ H \subseteq SharerIds /\ Nobody \notin H /\ Nobody \notin SharerIds /\ \A r \in H : quota[r] \in Nat
  BY HavingIs, SharersAre DEF Weights
<1>3. /\ new = Append(own, x) /\ new \in Claimed
      /\ IF open = {} THEN x = Nobody ELSE x \in open
  <2>1. k + 1 \in Nat /\ own \in Claimed
    BY <1>1
  <2> QED
    BY <2>1, ClaimIs
<1> HIDE DEF x, new
<1>4. /\ \A r : Owned(own, r) \in Nat /\ Owned(new, r) = Owned(own, r) + (IF r = x THEN 1 ELSE 0)
      /\ Range(new) = Range(own) \cup {x} /\ Len(new) = k + 1
  BY <1>1, <1>3, OwnedIs
<1>5. \A r \in H : had[r] \in Nat /\ has[r] \in Nat /\ had[r] <= quota[r] /\ quota[r] \in Nat
                   /\ has[r] = had[r] + (IF r = x THEN 1 ELSE 0) /\ had[r] = Owned(own, r) /\ has[r] = Owned(new, r)
  BY <1>1, <1>2, <1>4
<1>6. open = {r \in H : had[r] < quota[r]}
  BY DEF Open
<1> HIDE DEF had, has, open, H
<1>7. Q \in Nat
  BY <1>2, SumOne
<1> HIDE DEF Q
<1>8. \A r \in H : has[r] <= quota[r]
  <2> TAKE r \in H
  <2>1. CASE r = x
    <3>1. x \in open
      BY <1>2, <1>3, <2>1
    <3> QED
      BY <1>5, <1>6, <2>1, <3>1
  <2>2. CASE r # x
    BY <1>5, <2>2
  <2> QED
    BY <2>1, <2>2
<1>9. ASSUME k < Q
      PROVE  x \in open
  <2>1. SumFunctionOnSet(had, H) = k
    BY <1>1, <1>7, <1>9
  <2>2. open # {}
    <3> SUFFICES ASSUME open = {} PROVE FALSE
      OBVIOUS
    <3>1. \A r \in H : quota[r] \in Nat /\ had[r] \in Nat /\ quota[r] <= had[r]
      BY <1>5, <1>6
    <3>2. Q <= SumFunctionOnSet(had, H)
      BY <1>2, <3>1, SumTight DEF Q
    <3> QED
      BY <1>7, <1>9, <2>1, <3>2
  <2> QED
    BY <1>3, <2>2
<1>10. ASSUME k < Q
       PROVE  Nobody \notin Range(new) /\ SumFunctionOnSet(has, H) = k + 1
  <2>1. x \in H /\ Nobody \notin Range(own) /\ SumFunctionOnSet(had, H) = k
    BY <1>1, <1>6, <1>7, <1>9, <1>10
  <2>2. Nobody \notin Range(new)
    BY <1>2, <1>4, <2>1
  <2>3. SumFunctionOnSet(had, H) = had[x] + SumFunctionOnSet(had, H \ {x})
    BY <1>2, <1>5, <2>1, SumOne
  <2>4. SumFunctionOnSet(has, H) = has[x] + SumFunctionOnSet(has, H \ {x})
    BY <1>2, <1>5, <2>1, SumOne
  <2>5. IsFiniteSet(H \ {x})
    BY <1>2, FS_RemoveElement
  <2>6. SumFunctionOnSet(had, H \ {x}) = SumFunctionOnSet(has, H \ {x})
    <3> DEFINE E == H \ {x}
    <3>1. \A r \in E : had[r] \in Nat /\ (r \in E => has[r] = had[r]) /\ (r \notin E => had[r] = 0)
      BY <1>5
    <3>2. E \in SUBSET E /\ IsFiniteSet(E)
      BY <2>5
    <3> HIDE DEF E
    <3>3. SumFunctionOnSet(had, E) = SumFunctionOnSet(has, E)
      BY <3>1, <3>2, SumInside
    <3> QED
      BY <3>3 DEF E
  <2>7. SumFunctionOnSet(had, H \ {x}) \in Nat
    <3>1. \A r \in H \ {x} : had[r] \in Nat
      BY <1>5
    <3> QED
      BY <2>5, <3>1, SumOne
  <2>8. has[x] = had[x] + 1 /\ had[x] \in Nat
    BY <1>5, <2>1
  <2> QED
    BY <2>1, <2>2, <2>3, <2>4, <2>6, <2>7, <2>8
<1>11. k + 1 <= Q => Nobody \notin Range(new) /\ SumFunctionOnSet(has, H) = k + 1
  BY <1>7, <1>10
<1>12. ASSUME k + 1 >= Q
       PROVE  \A r \in H : has[r] = quota[r]
  <2>1. CASE k >= Q
    <3>1. \A r \in H : had[r] = quota[r]
      BY <1>1, <1>5, <2>1
    <3>2. open = {}
      BY <1>5, <1>6, <3>1
    <3>3. \A r \in H : r # x
      BY <1>2, <1>3, <3>2
    <3> QED
      BY <1>5, <3>1, <3>3
  <2>2. CASE k < Q
    <3>1. SumFunctionOnSet(has, H) = k + 1 /\ Q <= k + 1
      BY <1>7, <1>10, <1>12, <2>2
    <3>2. \A r \in H : has[r] \in Nat /\ quota[r] \in Nat /\ has[r] <= quota[r]
      BY <1>5, <1>8
    <3>3. SumFunctionOnSet(quota, H) <= SumFunctionOnSet(has, H) => \A r \in H : has[r] = quota[r]
      BY <1>2, <3>2, SumTight
    <3> QED
      BY <3>1, <3>3 DEF Q
  <2> QED
    BY <1>7, <2>1, <2>2
<1>13. \A r \in H : Owned(new, r) <= quota[r]
  BY <1>5, <1>8
<1>14. k + 1 >= Q => \A r \in H : Owned(new, r) = quota[r]
  BY <1>5, <1>12
<1> QED
  BY <1>3, <1>4, <1>11, <1>13, <1>14 DEF Filled, H, Q, has, new

\* All of them.
LEMMA GreedyFills ==
    ASSUME NEW l \in Loaders, NEW w \in Sharing, NEW quota \in Weights
    PROVE  Filled(Greedy(l, w, quota, <<>>), l.data, Having(w), quota)
<1> DEFINE H == Having(w)
<1>1. l.data \in Nat
  <2>1. l.data \in DataSizes
    BY DEF Loaders
  <2> QED
    BY <2>1, ShareAssumption
<1>2. <<>> \in Claimed /\ Len(<<>>) = 0 /\ Len(<<>>) <= l.data
  BY <1>1 DEF Claimed
<1>3. PICK f : Claims(f, l, w, quota, <<>>)
  BY <1>1, <1>2, ClaimsExist
<1>4. Greedy(l, w, quota, <<>>) = f[l.data - 0]
  BY <1>1, <1>2, <1>3, GreedyIs
<1> DEFINE P == {k \in Nat : k <= l.data => Filled(f[k], k, H, quota)}
<1>5. 0 \in P
  <2> DEFINE had == [r \in H |-> Owned(<<>>, r)]
  <2>1. f[0] = <<>>
    BY <1>3 DEF Claims
  <2>2. \A r : Owned(<<>>, r) = 0
    BY <1>2, OwnedIs
  <2>3. IsFiniteSet(H) /\ \A r \in H : quota[r] \in Nat
    BY HavingIs DEF Weights
  <2>4. \A r \in H : had[r] = 0
    BY <2>2
  <2> HIDE DEF had, H
  <2>5. SumFunctionOnSet(had, H) = 0
    <3>1. \A r \in H : had[r] \in Nat /\ had[r] <= 0
      BY <2>4
    <3>2. SumFunctionOnSet(had, H) <= Cardinality(H) * 0
      BY <2>3, <3>1, SumAtMost
    <3>3. SumFunctionOnSet(had, H) \in Nat /\ Cardinality(H) \in Nat
      BY <2>3, <3>1, SumOne, FS_CardinalityType
    <3> QED
      BY <3>2, <3>3
  <2>6. 0 >= SumFunctionOnSet(quota, H) => \A r \in H : quota[r] = 0
    <3>1. \A r \in H : quota[r] <= SumFunctionOnSet(quota, H)
      BY <2>3, SumAtLeast
    <3>2. SumFunctionOnSet(quota, H) \in Nat
      BY <2>3, SumOne
    <3> QED
      BY <2>3, <3>1, <3>2
  <2>7. Nobody \notin Range(<<>>)
    BY DEF Range
  <2> QED
    <3>1. \A r \in H : Owned(<<>>, r) <= quota[r]
      BY <2>2, <2>3
    <3>2. 0 >= SumFunctionOnSet(quota, H) => \A r \in H : Owned(<<>>, r) = quota[r]
      BY <2>2, <2>6
    <3> QED
      BY <1>2, <2>1, <2>5, <2>7, <3>1, <3>2 DEF Filled, had
<1>6. ASSUME NEW k \in Nat, k \in P PROVE k + 1 \in P
  <2> SUFFICES ASSUME k + 1 <= l.data PROVE Filled(f[k + 1], k + 1, H, quota)
    OBVIOUS
  <2>1. k + 1 \in 1..(l.data - 0) /\ (k + 1) - 1 = k /\ 0 + (k + 1) = k + 1 /\ l.data > 0 /\ k <= l.data
    BY <1>1
  <2>2. f[k + 1] = Claim(l, f[k], k + 1, w, quota)
    BY <1>2, <1>3, <2>1 DEF Claims
  <2>3. Filled(f[k], k, H, quota)
    BY <1>6, <2>1
  <2> QED
    BY <2>1, <2>2, <2>3, ClaimFills
<1>7. Nat \subseteq P
  <2> HIDE DEF P
  <2> QED
    BY <1>5, <1>6, SetInduction
<1> QED
  BY <1>1, <1>4, <1>7

\* A function on 1..m is a sequence.
LEMMA FromOne ==
    ASSUME NEW V, NEW m \in Nat, NEW s \in [1..m -> V]
    PROVE  s \in Seq(V) /\ Len(s) = m
  OBVIOUS

\* The ranks that are to have some, and the one of them each sample likes best.
Wanting(w, quota) == {r \in Having(w) : quota[r] > 0}
Firsts(l, w, live) == [i \in 1..l.data |-> BestOf(l, Order(l, i), live, w)]

\* The samples that get the rank they like best in one sweep are those that the
\* claims give it to, one after the other.
LEMMA SweptIs ==
    ASSUME NEW l \in Loaders, NEW w \in Sharing, NEW quota \in Weights, NEW live,
           live = Wanting(w, quota), live # {}, NEW first, first = Firsts(l, w, live),
           NEW n \in 0..l.data, \A i \in Beyond(first, quota) : n <= i - 1,
           NEW f, Claims(f, l, w, quota, <<>>)
    PROVE  first \in Claimed /\ Len(first) = l.data /\ \A k \in 0..n : f[k] = SubSeq(first, 1, k)
<1>1. l.data \in Nat /\ l.seed \in Nat
  <2>1. l.data \in DataSizes /\ l.seed \in Seeds
    BY DEF Loaders
  <2> QED
    BY <2>1, ShareAssumption
<1>2. live \in SUBSET SharerIds /\ live \subseteq Having(w) /\ w \in Weights
  BY HavingIs DEF Wanting
<1>3. \A i \in 1..l.data : Order(l, i) \in Nat /\ first[i] = BestOf(l, Order(l, i), live, w) /\ first[i] \in live
  <2> TAKE i \in 1..l.data
  <2>1. Order(l, i) \in Nat
    <3> DEFINE d == l.data
               y == i + l.seed
    <3>1. d \in Nat \ {0} /\ y \in Nat
      BY <1>1
    <3> HIDE DEF d, y
    <3>2. y % d \in Nat
      BY <3>1
    <3> QED
      BY <3>2 DEF Order, d, y
  <2> QED
    BY <1>2, <2>1, BestIs DEF Firsts
<1>4. first \in Claimed /\ Len(first) = l.data
  <2>1. \A i \in 1..l.data : first[i] \in SharerIds \cup {Nobody}
    BY <1>2, <1>3
  <2>2. first = [i \in 1..l.data |-> first[i]]
    BY DEF Firsts
  <2>3. first \in [1..l.data -> SharerIds \cup {Nobody}]
    BY <2>1, <2>2
  <2> DEFINE V == SharerIds \cup {Nobody}
             m == l.data
  <2>4. m \in Nat /\ first \in [1..m -> V]
    BY <1>1, <2>3
  <2> HIDE DEF V, m
  <2>5. first \in Seq(V) /\ Len(first) = m
    BY <2>4, FromOne, Zenon
  <2> QED
    BY <2>5 DEF Claimed, V, m
<1> DEFINE Cut(k) == SubSeq(first, 1, k)
           P == {k \in Nat : k <= n => f[k] = Cut(k)}
<1>5. \A k \in 0..l.data : /\ Cut(k) \in Claimed /\ Len(Cut(k)) = k /\ DOMAIN Cut(k) = 1..k
                           /\ \A i \in 1..k : Cut(k)[i] = first[i]
  BY <1>1, <1>4 DEF Claimed
<1>6. ASSUME NEW k \in 0..(l.data - 1)
      PROVE  Cut(k + 1) = Append(Cut(k), first[k + 1])
  <2>1. k \in 0..l.data /\ k + 1 \in 0..l.data /\ k + 1 \in 1..l.data
    BY <1>1
  <2>2. /\ Cut(k + 1) \in Claimed /\ Len(Cut(k + 1)) = k + 1 /\ DOMAIN Cut(k + 1) = 1..(k + 1)
        /\ \A i \in 1..(k + 1) : Cut(k + 1)[i] = first[i]
    BY <1>5, <2>1
  <2>3. Cut(k) \in Claimed /\ Len(Cut(k)) = k /\ \A i \in 1..k : Cut(k)[i] = first[i]
    BY <1>5, <2>1
  <2> HIDE DEF Cut
  <2> DEFINE c == Cut(k)
             d == Cut(k + 1)
             x == first[k + 1]
             e == Append(c, x)
  <2>4. /\ c \in Claimed /\ Len(c) = k /\ x \in SharerIds \cup {Nobody}
        /\ d \in Claimed /\ Len(d) = k + 1 /\ k \in Nat /\ d[k + 1] = x /\ \A i \in 1..k : c[i] = d[i]
    <3>1. c \in Claimed /\ Len(c) = k /\ d \in Claimed /\ Len(d) = k + 1
      BY <2>2, <2>3
    <3>2. x \in SharerIds \cup {Nobody} /\ k \in Nat
      <4>1. first[k + 1] \in live
        BY <1>3, <2>1
      <4>2. k \in Nat
        BY <1>1
      <4>3. live \subseteq SharerIds
        BY <1>2
      <4> QED
        BY <4>1, <4>2, <4>3, Zenon DEF x
    <3>3. k + 1 \in 1..(k + 1) /\ \A i \in 1..k : i \in 1..(k + 1)
      BY <3>2
    <3>4. d[k + 1] = x /\ \A i \in 1..k : c[i] = d[i]
      BY <2>2, <2>3, <3>3
    <3> QED
      BY <3>1, <3>2, <3>4
  <2> HIDE DEF c, d, x
  <2>5. /\ e \in Seq(SharerIds \cup {Nobody}) /\ d \in Seq(SharerIds \cup {Nobody}) /\ Len(e) = k + 1
        /\ e[k + 1] = x /\ \A i \in 1..k : e[i] = c[i]
    BY <2>4 DEF Claimed
  <2>6. \A i \in 1..(k + 1) : e[i] = d[i]
    <3> TAKE i \in 1..(k + 1)
    <3>1. i = k + 1 \/ i \in 1..k
      BY <2>4
    <3> QED
      BY <2>4, <2>5, <3>1
  <2> HIDE DEF e
  <2>7. e = d
    BY <2>4, <2>5, <2>6, SeqEqual
  <2> QED
    BY <2>7 DEF e, c, d, x
<1> HIDE DEF Cut
<1>7. 0 \in P
  <2>1. f[0] = <<>>
    BY DEF Claims
  <2>2. Cut(0) = <<>>
    BY <1>1, <1>4 DEF Cut, Claimed
  <2> QED
    BY <2>1, <2>2
<1>8. ASSUME NEW k \in Nat, k \in P PROVE k + 1 \in P
  <2> SUFFICES ASSUME k + 1 <= n PROVE f[k + 1] = Cut(k + 1)
    OBVIOUS
  <2> DEFINE own == Cut(k)
             x == first[k + 1]
  <2>1. /\ k \in 0..l.data /\ k + 1 \in 1..l.data /\ k \in 0..(l.data - 1) /\ k + 1 \in 0..l.data
        /\ n \in Nat /\ k <= n /\ k + 1 \in Nat /\ l.data > 0
    BY <1>1
  <2>2. f[k] = own
    BY <1>8, <2>1
  <2>3. own \in Claimed /\ Len(own) = k
    BY <1>5, <2>1
  <2>4. Cut(k + 1) = Append(own, x)
    BY <1>6, <2>1
  <2>5. f[k + 1] = Claim(l, own, k + 1, w, quota)
    <3>1. k + 1 \in 1..(l.data - Len(<<>>)) /\ (k + 1) - 1 = k /\ Len(<<>>) + (k + 1) = k + 1
      BY <1>1, <2>1
    <3>2. f[k + 1] = Claim(l, f[(k + 1) - 1], Len(<<>>) + (k + 1), w, quota)
      BY <3>1 DEF Claims
    <3> HIDE DEF own
    <3> QED
      BY <2>2, <3>1, <3>2
  <2>6. Owned(own, x) < quota[x]
    <3>1. k + 1 \notin Beyond(first, quota)
      BY <2>1
    <3>2. k + 1 \in DOMAIN first
      BY <1>4, <2>1 DEF Firsts
    <3>3. ~(Cardinality({j \in 1..(k + 1) : first[j] = first[k + 1]}) > quota[first[k + 1]])
      BY <3>1, <3>2 DEF Beyond
    <3>4. Owned(Cut(k + 1), x) = Cardinality({j \in 1..(k + 1) : first[j] = x})
      <4>1. DOMAIN Cut(k + 1) = 1..(k + 1) /\ \A i \in 1..(k + 1) : Cut(k + 1)[i] = first[i]
        BY <1>5, <2>1
      <4> HIDE DEF Cut, x
      <4>2. {j \in DOMAIN Cut(k + 1) : Cut(k + 1)[j] = x} = {j \in 1..(k + 1) : first[j] = x}
        BY <4>1
      <4> QED
        BY <4>2 DEF Owned
    <3>5. Owned(Append(own, x), x) = Owned(own, x) + 1 /\ Owned(own, x) \in Nat
      <4> HIDE DEF own, x
      <4> QED
        BY <2>3, OwnedIs
    <3>6. x \in live /\ quota[x] \in Nat
      BY <1>2, <1>3, <2>1 DEF Weights
    <3>7. ~(Owned(own, x) + 1 > quota[x])
      BY <2>4, <3>3, <3>4, <3>5
    <3> HIDE DEF own, x
    <3> QED
      BY <3>5, <3>6, <3>7
  <2> DEFINE S == Open(own, w, quota)
  <2>7. x \in S /\ S \in SUBSET live
    <3>1. x \in Having(w)
      BY <1>2, <1>3, <2>1
    <3>2. \A r \in SharerIds : Owned(own, r) \in Nat /\ quota[r] \in Nat
      <4> HIDE DEF own
      <4> QED
        BY <2>3, OwnedIs DEF Weights
    <3>3. \A r \in S : r \in Having(w) /\ Owned(own, r) < quota[r]
      BY DEF Open
    <3>4. \A r \in S : r \in SharerIds /\ quota[r] > 0
      <4> HIDE DEF S, own
      <4> TAKE r \in S
      <4>1. r \in SharerIds /\ Owned(own, r) < quota[r]
        BY <3>3, HavingIs
      <4>2. Owned(own, r) \in Nat /\ quota[r] \in Nat
        BY <3>2, <4>1
      <4> QED
        BY <4>1, <4>2
    <3>5. x \in S
      BY <2>6, <3>1 DEF Open
    <3> HIDE DEF S, own, x
    <3> QED
      BY <3>3, <3>4, <3>5 DEF Wanting
  <2>8. BestOf(l, Order(l, k + 1), S, w) = x
    <3> DEFINE o == Order(l, k + 1)
    <3>1. o \in Nat /\ x = BestOf(l, o, live, w)
      BY <1>3, <2>1
    <3> HIDE DEF S, x, o
    <3> QED
      BY <1>2, <2>7, <3>1, BestIs DEF o
  <2>9. Taker(l, own, k + 1, w, quota) = x
    BY <2>7, <2>8 DEF Taker
  <2>10. Claim(l, own, k + 1, w, quota) = Append(own, Taker(l, own, k + 1, w, quota))
    <3> HIDE DEF own
    <3> QED
      BY <2>1, <2>3, ClaimIs
  <2> QED
    BY <2>4, <2>5, <2>9, <2>10
<1>9. Nat \subseteq P
  <2> HIDE DEF P
  <2> QED
    BY <1>7, <1>8, SetInduction
<1>10. \A k \in 0..n : f[k] = Cut(k)
  <2> TAKE k \in 0..n
  <2>1. k \in Nat /\ k <= n
    BY <1>1
  <2> QED
    BY <1>9, <2>1
<1> QED
  BY <1>4, <1>10 DEF Cut

\* _hash_owners: one sweep, then sample by sample, gives what sample by sample does.
LEMMA QuickIs ==
    ASSUME NEW l \in Loaders, NEW w \in Sharing, NEW quota \in Weights,
           \A r \in SharerIds : r \notin Having(w) => quota[r] = 0
    PROVE  Owners(l, w, quota) = Greedy(l, w, quota, <<>>)
<1> DEFINE live == Wanting(w, quota)
           first == Firsts(l, w, live)
           n == FirstFull(first, quota)
           S == {SumFunction(quota), Len(first)} \cup {i - 1 : i \in Beyond(first, quota)}
<1>1. l.data \in Nat
  <2>1. l.data \in DataSizes
    BY DEF Loaders
  <2> QED
    BY <2>1, ShareAssumption
<1>2. Len(first) = l.data /\ DOMAIN first = 1..l.data
  <2> DEFINE m == l.data
             V == {first[i] : i \in 1..m}
  <2>1. first = [i \in 1..m |-> first[i]]
    BY DEF Firsts
  <2>2. m \in Nat /\ first \in [1..m -> V]
    <3> HIDE DEF first
    <3> QED
      BY <1>1, <2>1
  <2> HIDE DEF V
  <2>3. Len(first) = m
    BY <2>2, FromOne, Zenon
  <2> QED
    BY <2>3
<1>3. Owners(l, w, quota) = Greedy(l, w, quota, SubSeq(first, 1, n))
  BY DEF Owners, OwnersAmong, OwnersFrom, Wanting, Firsts
<1> HIDE DEF live
<1> HIDE DEF first
<1>4. n = Min(S)
  BY DEF FirstFull
<1>5. SumFunction(quota) \in Nat
  BY WeightSum
<1>6. n \in 0..l.data /\ n <= SumFunction(quota) /\ \A i \in Beyond(first, quota) : n <= i - 1
  <2>1. \A i \in Beyond(first, quota) : i \in 1..l.data
    BY <1>2 DEF Beyond
  <2>2. \A i \in Beyond(first, quota) : i - 1 \in Nat
    BY <1>1, <2>1
  <2>3. S \subseteq Nat /\ S # {} /\ l.data \in S /\ SumFunction(quota) \in S
    BY <1>1, <1>2, <1>5, <2>2
  <2>4. \A i \in Beyond(first, quota) : i - 1 \in S
    OBVIOUS
  <2> HIDE DEF S, n
  <2>5. n \in S /\ \A m \in S : n <= m
    BY <1>4, <2>3, MinIs
  <2>6. n \in Nat /\ n <= l.data /\ n <= SumFunction(quota)
    BY <2>3, <2>5
  <2>7. \A i \in Beyond(first, quota) : n <= i - 1
    BY <2>4, <2>5
  <2>8. n \in 0..l.data
    BY <1>1, <2>6
  <2> QED
    BY <2>6, <2>7, <2>8
<1> HIDE DEF n
<1>7. PICK f : Claims(f, l, w, quota, <<>>)
  <2>1. <<>> \in Claimed /\ Len(<<>>) <= l.data
    BY <1>1 DEF Claimed
  <2> QED
    BY <2>1, ClaimsExist
<1>8. Greedy(l, w, quota, <<>>) = f[l.data]
  <2>1. <<>> \in Claimed /\ Len(<<>>) <= l.data /\ l.data - Len(<<>>) = l.data
    BY <1>1 DEF Claimed
  <2>2. Greedy(l, w, quota, <<>>) = f[l.data - Len(<<>>)]
    BY <1>7, <2>1, GreedyIs
  <2> QED
    BY <2>1, <2>2
<1>9. CASE n = 0
  <2>1. SubSeq(first, 1, 0) = <<>>
    OBVIOUS
  <2> QED
    BY <1>3, <1>9, <2>1
<1>10. CASE n # 0
  <2>1. live # {}
    <3> SUFFICES ASSUME live = {} PROVE FALSE
      OBVIOUS
    <3>1. \A r \in SharerIds : quota[r] \in Nat /\ quota[r] <= 0
      <4>1. \A r \in SharerIds : quota[r] \in Nat
        BY DEF Weights
      <4>2. \A r \in Having(w) : ~(quota[r] > 0)
        BY DEF live, Wanting
      <4> QED
        BY <4>1, <4>2
    <3>2. SumFunctionOnSet(quota, SharerIds) <= Cardinality(SharerIds) * 0
      BY <3>1, SharersAre, SumAtMost
    <3>3. SumFunction(quota) = SumFunctionOnSet(quota, SharerIds)
      BY DEF SumFunction, Weights
    <3>4. Cardinality(SharerIds) * 0 = 0
      BY SharersAre
    <3> QED
      BY <1>1, <1>5, <1>6, <1>10, <3>2, <3>3, <3>4
  <2>2. first \in Claimed /\ Len(first) = l.data /\ \A k \in 0..n : f[k] = SubSeq(first, 1, k)
    <3>1. first = Firsts(l, w, live) /\ live = Wanting(w, quota)
      BY DEF first, live
    <3> QED
      BY <1>6, <1>7, <2>1, <3>1, SweptIs
  <2> DEFINE own == SubSeq(first, 1, n)
             g == [k \in Nat |-> f[n + k]]
  <2>3. own \in Claimed /\ Len(own) = n /\ f[n] = own /\ n \in Nat /\ n <= l.data /\ l.data - n \in Nat
    <3>1. n \in 0..n /\ n \in Nat /\ n <= l.data /\ l.data - n \in Nat
      BY <1>1, <1>6
    <3>2. f[n] = own
      BY <2>2, <3>1
    <3>3. Len(own) = n
      BY <2>2, <3>1 DEF Claimed
    <3> HIDE DEF own
    <3>4. f[n] \in Claimed
      BY <1>7, <3>1 DEF Claims
    <3> QED
      BY <3>1, <3>2, <3>3, <3>4
  <2> HIDE DEF own
  <2>4. Claims(g, l, w, quota, own)
    <3>1. g[0] = own
      BY <2>3
    <3>2. g \in [Nat -> Claimed]
      <4>1. \A k \in Nat : n + k \in Nat
        BY <2>3
      <4> QED
        BY <1>7, <4>1 DEF Claims
    <3>3. \A k \in 1..(l.data - n) : g[k] = Claim(l, g[k - 1], n + k, w, quota)
      <4> TAKE k \in 1..(l.data - n)
      <4>1. /\ n + k \in 1..(l.data - Len(<<>>)) /\ (n + k) - 1 = n + (k - 1) /\ k \in Nat /\ k - 1 \in Nat
            /\ Len(<<>>) + (n + k) = n + k
        BY <1>1, <2>3
      <4>2. f[n + k] = Claim(l, f[(n + k) - 1], Len(<<>>) + (n + k), w, quota)
        BY <1>7, <4>1 DEF Claims
      <4>3. g[k] = f[n + k] /\ g[k - 1] = f[n + (k - 1)]
        BY <4>1
      <4> HIDE DEF g
      <4> QED
        BY <4>1, <4>2, <4>3
    <3> HIDE DEF g
    <3> QED
      BY <2>3, <3>1, <3>2, <3>3 DEF Claims
  <2>5. g[l.data - n] = f[l.data]
    <3>1. n + (l.data - n) = l.data
      BY <1>1, <2>3
    <3> QED
      BY <2>3, <3>1
  <2> HIDE DEF g
  <2>6. Greedy(l, w, quota, own) = g[l.data - Len(own)]
    BY <2>3, <2>4, GreedyIs
  <2> QED
    BY <1>3, <1>8, <2>3, <2>5, <2>6 DEF own
<1> QED
  BY <1>9, <1>10

\* n batches of b, and tail samples or a pad, are so many steps.
LEMMA StepsCount ==
    ASSUME NEW b \in Nat \ {0}, NEW n \in Nat, NEW tail \in Nat, tail <= b, NEW pad \in {0, 1}, pad = 1 => tail = 0
    PROVE  ((n * b + tail) + pad + b - 1) \div b = n + (IF tail > 0 \/ pad = 1 THEN 1 ELSE 0)
<1> DEFINE one == IF tail > 0 \/ pad = 1 THEN 1 ELSE 0
           x == (n * b + tail) + pad + b - 1
           m == n + one
           rest == tail + pad + b - 1 - one * b
<1>1. rest \in 0..(b - 1) /\ one \in {0, 1} /\ m \in Nat
  OBVIOUS
<1>2. x = m * b + rest
  <2>1. CASE one = 1
    <3>1. m * b = n * b + b /\ n * b \in Nat
      BY <2>1
    <3> DEFINE nb == n * b
               mb == m * b
    <3> HIDE DEF nb, mb
    <3>2. nb \in Nat /\ mb = nb + b /\ x = (nb + tail) + pad + b - 1 /\ rest = tail + pad + b - 1 - b
      BY <2>1, <3>1 DEF nb, mb
    <3> HIDE DEF x, rest
    <3>3. x = mb + rest
      BY <3>2
    <3> QED
      BY <3>3 DEF mb
  <2>2. CASE one = 0
    <3> DEFINE nb == n * b
               mb == m * b
    <3>1. mb = nb /\ nb \in Nat
      BY <2>2
    <3> HIDE DEF nb, mb
    <3>2. x = (nb + tail) + pad + b - 1 /\ rest = tail + pad + b - 1
      BY <2>2 DEF nb
    <3> HIDE DEF x, rest
    <3>3. x = mb + rest
      BY <3>1, <3>2
    <3> QED
      BY <3>3 DEF mb
  <2> QED
    BY <1>1, <2>1, <2>2
<1> HIDE DEF one, x, m, rest
<1>3. (m * b + rest) \div b = m
  <2>1. rest \in Nat /\ rest < b /\ b > 0 /\ m * b \in Nat
    BY <1>1
  <2> QED
    BY <1>1, <2>1
<1> QED
  BY <1>2, <1>3 DEF x, m, one

\* What a rank with n full batches of b and tail samples trains in step k.
RealOf(b, n, tail, k) == Max({0, Min({b, (n * b + tail) - (k - 1) * b})})

\* A full batch, or what is over in the last step.
LEMMA RealIs ==
    ASSUME NEW b \in Nat \ {0}, NEW n \in Nat, NEW tail \in Nat, tail <= b, NEW k \in 1..(n + 1)
    PROVE  RealOf(b, n, tail, k) = IF k <= n THEN b ELSE tail
<1> DEFINE m == n - (k - 1)
           x == (n * b + tail) - (k - 1) * b
<1>1. m \in Nat /\ (k <= n => m >= 1) /\ (~(k <= n) => m = 0)
  OBVIOUS
<1>2. x = m * b + tail
  OBVIOUS
<1> HIDE DEF x
<1>3. x \in Nat /\ (k <= n => x >= b) /\ (~(k <= n) => x = tail)
  <2> DEFINE mb == m * b
  <2>1. mb \in Nat /\ (m >= 1 => mb >= b) /\ (m = 0 => mb = 0)
    <3> HIDE DEF m
    <3>1. m >= 1 => 1 * b <= m * b
      BY <1>1, Products
    <3> QED
      BY <1>1, <3>1
  <2> HIDE DEF mb, m
  <2> QED
    BY <1>1, <1>2, <2>1 DEF mb
<1>4. Min({b, x}) = IF b <= x THEN b ELSE x
  <2>1. b \in Int /\ x \in Int
    BY <1>3
  <2> QED
    BY <2>1, EitherIs
<1> DEFINE y == Min({b, x})
<1>5. y \in Nat /\ y = IF k <= n THEN b ELSE tail
  BY <1>3, <1>4
<1> HIDE DEF y
<1>6. Max({0, y}) = IF 0 >= y THEN 0 ELSE y
  BY <1>5, EitherIs
<1> QED
  BY <1>5, <1>6 DEF y, x, RealOf

\* A sampler: its full steps and its last one.
SamplerFact(l, w, s, tails) ==
    /\ s.shares = w /\ s.batch \in Weights /\ s.steps \in Nat /\ s.left \in Nat /\ tails \in Weights
    /\ s.total = s.steps + (IF s.left > 0 THEN 1 ELSE 0)
    /\ s.pads = {r \in Having(w) : s.left > 0 /\ tails[r] = 0}
    /\ s.quota \in Weights
    /\ \A r \in SharerIds : s.quota[r] = s.steps * s.batch[r] + tails[r] /\ tails[r] <= s.batch[r]
    /\ \A r \in SharerIds : IF r \in Having(w) THEN s.batch[r] >= 1 ELSE s.batch[r] = 0
    /\ s.steps * SumFunction(s.batch) + s.left <= l.data
    /\ ~l.dropLast => s.steps * SumFunction(s.batch) + s.left = l.data
    /\ EvenSplit(s) => SumFunction(tails) = s.left /\ SumFunction(s.batch) = RingBatch(w, script.batch)

\* The sampler of any shares is so.
LEMMA SamplerIs ==
    ASSUME script.batch \in Nat, NEW l \in Loaders, NEW w \in Sharing
    PROVE  \E tails : SamplerFact(l, w, Sampler(l, w), tails)
<1> DEFINE b == Batches(w, script.batch)
           all == SumFunction(b)
           steps == FullSteps(l, b)
           left == TailOf(l, b)
           tails == SplitTail(w, b, left)
           s == Sampler(l, w)
<1>1. s = SamplerOf(w, b, steps, left, tails)
  BY DEF Sampler, SamplerWith
<1>2. /\ b \in Weights /\ \A r \in SharerIds : IF r \in Having(w) THEN b[r] >= 1 ELSE b[r] = 0
      /\ Splits(w, script.batch) => all = RingBatch(w, script.batch)
  BY BatchesSplit
<1> HIDE DEF b
<1>3. all \in Nat \ {0}
  <2>1. PICK r \in Having(w) : r \in SharerIds
    BY HavingIs
  <2>2. b[r] >= 1 /\ b[r] \in Nat /\ b[r] <= SumFunction(b) /\ SumFunction(b) \in Nat
    BY <1>2, <2>1, WeightSum
  <2> QED
    BY <2>2
<1>4. l.data \in Nat /\ l.dropLast \in BOOLEAN
  <2>1. l.data \in DataSizes /\ l.dropLast \in BOOLEAN
    BY DEF Loaders
  <2> QED
    BY <2>1, ShareAssumption
<1>5. /\ steps \in Nat /\ left \in Nat /\ left <= all
      /\ steps * all + left <= l.data /\ (~l.dropLast => steps * all + left = l.data)
  <2> DEFINE d == l.data
             q == d \div all
             m == d % all
  <2>1. d \in Nat /\ all \in Nat \ {0}
    BY <1>3, <1>4
  <2>2. steps = q /\ left = IF l.dropLast THEN 0 ELSE m
    BY DEF FullSteps, TailOf
  <2> HIDE DEF d, all, steps, left
  <2>3. q \in Nat /\ m \in Nat /\ m < all /\ q * all + m = d /\ q * all \in Nat
    BY <2>1
  <2> HIDE DEF q, m
  <2> QED
    BY <2>1, <2>2, <2>3 DEF d
<1>6. /\ tails \in Weights /\ \A r \in SharerIds : tails[r] <= b[r]
      /\ (left < Cardinality(Having(w)) \/ Splits(w, left)) => SumFunction(tails) = left
  <2> HIDE DEF left
  <2> QED
    BY <1>2, <1>5, TailIs
<1> HIDE DEF all, steps, left, tails, s
<1>7. /\ s.shares = w /\ s.batch = b /\ s.steps = steps /\ s.left = left
      /\ s.quota = [r \in SharerIds |-> steps * b[r] + tails[r]]
      /\ s.pads = {r \in Having(w) : left > 0 /\ tails[r] = 0}
      /\ s.total = steps + (IF left > 0 THEN 1 ELSE 0)
  BY <1>1 DEF SamplerOf
<1>8. EvenSplit(s) => SumFunction(tails) = left /\ all = RingBatch(w, script.batch)
  BY <1>2, <1>6, <1>7 DEF EvenSplit
<1>9. s.quota \in Weights /\ \A r \in SharerIds : s.quota[r] = steps * b[r] + tails[r]
  <2>1. \A r \in SharerIds : b[r] \in Nat /\ tails[r] \in Nat
    BY <1>2, <1>6 DEF Weights
  <2>2. \A r \in SharerIds : steps * b[r] + tails[r] \in Nat
    BY <1>5, <2>1
  <2> QED
    BY <1>7, <2>2 DEF Weights
<1>10. SamplerFact(l, w, s, tails)
  BY <1>2, <1>5, <1>6, <1>7, <1>8, <1>9 DEF SamplerFact, all
<1> QED
  BY <1>10 DEF s

\* An epoch cut by any shares is whole.
LEMMA WholeIs ==
    ASSUME script.batch \in Nat, NEW l \in Loaders, NEW w \in Sharing, NEW s, s = Sampler(l, w),
           NEW own, own = Owners(l, w, s.quota)
    PROVE  WholeEpoch(l, s, own)
<1> DEFINE H == Having(w)
           b == s.batch
<1>1. PICK tails : SamplerFact(l, w, s, tails)
  BY SamplerIs
<1> DEFINE left == s.left
           steps == s.steps
<1>2. /\ s.shares = w /\ b \in Weights /\ steps \in Nat /\ left \in Nat /\ tails \in Weights
      /\ s.total = steps + (IF left > 0 THEN 1 ELSE 0)
      /\ s.pads = {r \in H : left > 0 /\ tails[r] = 0} /\ s.quota \in Weights
  BY <1>1 DEF SamplerFact
<1>3. /\ \A r \in SharerIds : s.quota[r] = steps * b[r] + tails[r] /\ tails[r] <= b[r]
      /\ \A r \in SharerIds : IF r \in H THEN b[r] >= 1 ELSE b[r] = 0
  BY <1>1 DEF SamplerFact
<1>4. /\ steps * SumFunction(b) + left <= l.data /\ (~l.dropLast => steps * SumFunction(b) + left = l.data)
      /\ EvenSplit(s) => SumFunction(tails) = left /\ SumFunction(b) = RingBatch(w, script.batch)
  BY <1>1 DEF SamplerFact
<1>5. IsFiniteSet(SharerIds) /\ H \subseteq SharerIds /\ IsFiniteSet(H)
  BY SharersAre, HavingIs
<1> HIDE DEF b, left, steps
<1>6. \A r \in SharerIds : b[r] \in Nat /\ tails[r] \in Nat /\ (r \notin H => tails[r] = 0 /\ s.quota[r] = 0)
                            /\ (r \in H => b[r] \in Nat \ {0})
  <2> TAKE r \in SharerIds
  <2>1. b[r] \in Nat /\ tails[r] \in Nat
    BY <1>2 DEF Weights
  <2>2. s.quota[r] = steps * b[r] + tails[r] /\ tails[r] <= b[r] /\ IF r \in H THEN b[r] >= 1 ELSE b[r] = 0
    BY <1>3
  <2>3. r \notin H => tails[r] = 0 /\ b[r] = 0 /\ steps * 0 = 0
    BY <1>2, <2>1, <2>2
  <2> QED
    BY <2>1, <2>2, <2>3
<1>7. own = Greedy(l, w, s.quota, <<>>)
  BY <1>2, <1>6, QuickIs
<1>8. Filled(own, l.data, H, s.quota)
  BY <1>2, <1>7, GreedyFills
<1>9. ASSUME EvenSplit(s)
      PROVE  /\ \A r \in H : StepsOf(s, own, r) = s.total
             /\ \A k \in 1..s.total :
                  SumFunction([r \in H |-> Real(s, own, r, k)]) = IF k <= s.steps THEN RingBatch(w, script.batch) ELSE s.left
             /\ ~l.dropLast => Nobody \notin Range(own)
  <2>1. SumFunction(tails) = left /\ SumFunction(b) = RingBatch(w, script.batch)
    BY <1>4, <1>9
  <2>2. /\ SumFunction(tails) = SumFunctionOnSet(tails, H) /\ SumFunction(b) = SumFunctionOnSet(b, H)
        /\ SumFunction(tails) \in Nat /\ SumFunction(b) \in Nat
    <3>1. (\A r \in SharerIds : r \notin H => tails[r] = 0) /\ \A r \in SharerIds : r \notin H => b[r] = 0
      BY <1>3, <1>6
    <3>2. SumFunction(tails) = SumFunctionOnSet(tails, H)
      BY <1>2, <3>1, HavingSum
    <3>3. SumFunction(b) = SumFunctionOnSet(b, H)
      BY <1>2, <3>1, HavingSum
    <3> QED
      BY <1>2, <3>2, <3>3, WeightSum
  <2>3. SumFunctionOnSet(s.quota, H) = steps * SumFunction(b) + left
    <3> DEFINE full == [r \in H |-> steps * b[r]]
    <3>1. (\A r \in H : b[r] \in Nat /\ full[r] = steps * b[r]) /\ \A r \in H : full[r] \in Nat
      <4>1. \A r \in H : b[r] \in Nat
        BY <1>5, <1>6
      <4>2. \A r \in H : steps * b[r] \in Nat
        BY <1>2, <4>1
      <4> QED
        BY <4>1, <4>2
    <3>2. SumFunctionOnSet(full, H) = steps * SumFunctionOnSet(b, H)
      <4> HIDE DEF full, H
      <4> QED
        BY <1>2, <1>5, <3>1, SumTimes
    <3>3. \A r \in H : full[r] \in Nat /\ tails[r] \in Nat /\ s.quota[r] = full[r] + tails[r]
      BY <1>3, <1>5, <1>6, <3>1
    <3> HIDE DEF full, H
    <3>4. SumFunctionOnSet(s.quota, H) = SumFunctionOnSet(full, H) + SumFunctionOnSet(tails, H)
      BY <1>5, <3>3, SumPlus
    <3> QED
      BY <2>1, <2>2, <3>2, <3>4
  <2>4. \A r \in H : Owned(own, r) = steps * b[r] + tails[r]
    <3>1. l.data >= SumFunctionOnSet(s.quota, H)
      BY <1>4, <2>3
    <3>2. \A r \in H : Owned(own, r) = s.quota[r]
      BY <1>8, <3>1 DEF Filled
    <3> QED
      BY <1>3, <1>5, <3>2
  <2>5. ~l.dropLast => Nobody \notin Range(own)
    <3> SUFFICES ASSUME ~l.dropLast PROVE Nobody \notin Range(own)
      OBVIOUS
    <3>1. l.data = SumFunctionOnSet(s.quota, H)
      BY <1>4, <2>3
    <3>2. l.data \in Nat
      BY ShareAssumption DEF Loaders
    <3> QED
      BY <1>8, <3>1, <3>2 DEF Filled
  <2>6. ASSUME NEW r \in H PROVE StepsOf(s, own, r) = s.total
    <3> DEFINE pad == IF r \in s.pads THEN 1 ELSE 0
    <3>1. r \in SharerIds /\ b[r] \in Nat \ {0} /\ tails[r] \in Nat /\ tails[r] <= b[r]
      BY <1>3, <1>5, <1>6
    <3>2. pad \in {0, 1} /\ (pad = 1 <=> left > 0 /\ tails[r] = 0)
      BY <1>2
    <3>3. left = 0 => tails[r] = 0
      <4>1. tails[r] <= SumFunction(tails)
        BY <1>2, <3>1, WeightSum
      <4> QED
        BY <2>1, <3>1, <4>1
    <3>4. StepsOf(s, own, r) = ((steps * b[r] + tails[r]) + pad + b[r] - 1) \div b[r]
      BY <2>4 DEF StepsOf, b
    <3> HIDE DEF pad
    <3>5. ((steps * b[r] + tails[r]) + pad + b[r] - 1) \div b[r] = steps + (IF tails[r] > 0 \/ pad = 1 THEN 1 ELSE 0)
      <4> DEFINE x == b[r]
                 y == tails[r]
      <4>1. /\ x \in Nat \ {0} /\ steps \in Nat /\ y \in Nat /\ y <= x
            /\ pad \in {0, 1} /\ (pad = 1 => y = 0)
        BY <1>2, <3>1, <3>2
      <4> HIDE DEF x, y
      <4>2. ((steps * x + y) + pad + x - 1) \div x = steps + (IF y > 0 \/ pad = 1 THEN 1 ELSE 0)
        BY <4>1, StepsCount
      <4> QED
        BY <4>2 DEF x, y
    <3>6. tails[r] > 0 \/ pad = 1 <=> left > 0
      BY <1>2, <3>1, <3>2, <3>3
    <3> QED
      BY <1>2, <3>4, <3>5, <3>6
  <2>7. ASSUME NEW k \in 1..s.total
        PROVE  SumFunction([r \in H |-> Real(s, own, r, k)]) = IF k <= s.steps THEN RingBatch(w, script.batch) ELSE s.left
    <3> DEFINE real == [r \in H |-> Real(s, own, r, k)]
    <3>1. k \in 1..(steps + 1)
      BY <1>2
    <3>2. \A r \in H : real[r] = IF k <= steps THEN b[r] ELSE tails[r]
      <4> SUFFICES ASSUME NEW r \in H PROVE Real(s, own, r, k) = IF k <= steps THEN b[r] ELSE tails[r]
        OBVIOUS
      <4>1. r \in SharerIds /\ b[r] \in Nat \ {0} /\ tails[r] \in Nat /\ tails[r] <= b[r]
        BY <1>3, <1>5, <1>6
      <4>2. Real(s, own, r, k) = RealOf(b[r], steps, tails[r], k)
        BY <2>4 DEF Real, RealOf, b
      <4>3. RealOf(b[r], steps, tails[r], k) = IF k <= steps THEN b[r] ELSE tails[r]
        BY <1>2, <3>1, <4>1, RealIs
      <4> QED
        BY <4>2, <4>3
    <3>3. SumFunction(real) = SumFunctionOnSet(real, H)
      BY DEF SumFunction
    <3> HIDE DEF real, H
    <3>4. \A r \in H : b[r] \in Nat /\ tails[r] \in Nat
      BY <1>5, <1>6
    <3>5. CASE k <= steps
      <4>1. \A r \in H : b[r] \in Nat /\ (r \in H => real[r] = b[r]) /\ (r \notin H => b[r] = 0)
        BY <3>2, <3>4, <3>5
      <4>2. SumFunctionOnSet(b, H) = SumFunctionOnSet(real, H)
        BY <1>5, <4>1, SumInside
      <4> QED
        BY <2>1, <2>2, <3>3, <3>5, <4>2 DEF steps, real
    <3>6. CASE ~(k <= steps)
      <4>1. \A r \in H : tails[r] \in Nat /\ (r \in H => real[r] = tails[r]) /\ (r \notin H => tails[r] = 0)
        BY <3>2, <3>4, <3>6
      <4>2. SumFunctionOnSet(tails, H) = SumFunctionOnSet(real, H)
        BY <1>5, <4>1, SumInside
      <4> QED
        BY <2>1, <2>2, <3>3, <3>6, <4>2 DEF steps, left, real
    <3> QED
      BY <3>5, <3>6
  <2> QED
    BY <2>5, <2>6, <2>7
<1> QED
  BY <1>2, <1>7, <1>9 DEF WholeEpoch, H

\* A pass that begins is cut by shares that are in force.
PassIs ==
    pass # NoPass =>
      \E l \in Loaders, w \in Sharing :
        pass = [loader |-> l, sampler |-> Sampler(l, w), own |-> Owners(l, w, Sampler(l, w).quota)]

\* It is cut by the new shares, or by the old ones if the sampler refuses those.
LEMMA PassStep ==
    ASSUME ShareInv, PassIs, ShareNext
    PROVE  PassIs'
<1>1. ASSUME pass' = NoPass PROVE PassIs'
  BY <1>1 DEF PassIs, NoPass
<1>2. CASE ShareOver
  <2>1. pass' = pass /\ script' = script
    BY <1>2 DEF ShareOver, shareVars
  <2>2. \A l, w : Sampler(l, w)' = Sampler(l, w)
    BY <2>1 DEF Sampler
  <2> QED
    BY <2>1, <2>2 DEF PassIs, NoPass
<1>3. ASSUME NEW l \in Loaders, NextEpoch(l) PROVE PassIs'
  <2>1. /\ script' = script /\ cut.shares \in Sharing /\ cut.next \in Sharing \cup {<<>>}
    BY <1>3 DEF NextEpoch, ShareInv, ShareTypes
  <2> DEFINE new == IF cut.next = <<>> THEN cut.shares ELSE cut.next
             w == IF Refuses(l, new) THEN cut.shares ELSE new
             s == Sampler(l, w)
  <2>2. pass' = [loader |-> l, sampler |-> s, own |-> Owners(l, s.shares, s.quota)]
    BY <1>3 DEF NextEpoch
  <2>3. w \in Sharing
    BY <2>1
  <2> HIDE DEF w
  <2>4. s.shares = w
    BY DEF Sampler, SamplerWith, SamplerOf
  <2> HIDE DEF s
  <2>5. \E k \in Loaders, v \in Sharing :
          pass' = [loader |-> k, sampler |-> Sampler(k, v), own |-> Owners(k, v, Sampler(k, v).quota)]
    BY <2>2, <2>3, <2>4 DEF s
  <2>6. \A k, v : Sampler(k, v)' = Sampler(k, v)
    BY <2>1 DEF Sampler
  <2> QED
    BY <2>5, <2>6 DEF PassIs
<1>4. Report \/ GoDiloco \/ DropFreeloader \/ Reshare => pass' = NoPass
  BY DEF Report, GoDiloco, DropFreeloader, Reshare
<1>5. \A r \in SharerIds : ReleaseTo(r) \/ ShareLost(r) => pass' = NoPass
  BY DEF ReleaseTo, ShareLost
<1> QED
  BY <1>1, <1>2, <1>3, <1>4, <1>5 DEF ShareNext

\* However the lead refits the shares, an epoch that begins is one machine's:
\* the samplers that ddp_sampler.py cuts on every rank (_WeightedShardSampler,
\* _weighted_batches, _split_tail) take as many steps each, every step has the
\* script's batch and the last one the rest, and _hash_owners' one sweep gives
\* every sample to the rank that claiming them one by one would.
THEOREM EpochsAreWhole == ShareSpec => []EpochIsWhole
<1>1. ShareInit => PassIs
  BY DEF ShareInit, PassIs, NoPass
<1>2. ShareInit => ShareInv
  BY SharesBegin
<1>3. ShareInv /\ PassIs /\ [ShareNext]_shareVars => (ShareInv /\ PassIs)'
  <2> SUFFICES ASSUME ShareInv, PassIs, [ShareNext]_shareVars PROVE (ShareInv /\ PassIs)'
    OBVIOUS
  <2>1. CASE ShareNext
    BY <2>1, ShareStep, PassStep
  <2>2. CASE UNCHANGED shareVars
    <3>1. script' = script /\ ring' = ring /\ cut' = cut /\ pass' = pass
      BY <2>2 DEF shareVars
    <3>2. \A l, w : Sampler(l, w)' = Sampler(l, w)
      BY <3>1 DEF Sampler
    <3>3. ShareInv'
      BY <3>1 DEF ShareInv, ShareTypes, FixedStays
    <3>4. PassIs'
      BY <3>1, <3>2 DEF PassIs, NoPass
    <3> QED
      BY <3>3, <3>4
  <2> QED
    BY <2>1, <2>2
<1>4. ShareInv /\ PassIs => EpochIsWhole
  <2> SUFFICES ASSUME ShareInv, PassIs, pass # NoPass
               PROVE  WholeEpoch(pass.loader, pass.sampler, pass.own)
    BY DEF EpochIsWhole
  <2>1. PICK l \in Loaders, w \in Sharing :
          pass = [loader |-> l, sampler |-> Sampler(l, w), own |-> Owners(l, w, Sampler(l, w).quota)]
    BY DEF PassIs
  <2>2. script.batch \in Nat
    <3>1. script.batch \in BatchSizes
      BY DEF ShareInv, ShareTypes
    <3> QED
      BY <3>1, ShareAssumption
  <2> DEFINE s == Sampler(l, w)
             own == Owners(l, w, s.quota)
  <2>3. pass.loader = l /\ pass.sampler = s /\ pass.own = own
    BY <2>1
  <2> HIDE DEF s
  <2>4. s = Sampler(l, w)
    BY DEF s
  <2> HIDE DEF own
  <2>5. own = Owners(l, w, s.quota)
    BY DEF own
  <2>6. WholeEpoch(l, s, own)
    BY <2>2, <2>4, <2>5, WholeIs
  <2> QED
    BY <2>3, <2>6
<1> QED
  BY <1>1, <1>2, <1>3, <1>4, PTL DEF ShareSpec
=============================================================================
