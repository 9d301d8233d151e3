----------------------------- MODULE JobSandbox -----------------------------
(***************************************************************************)
(* A job's process on a node, from its exec request to its done frame      *)
(* (execrun.go, execsupervise.go, cgroups/watchdog.go): the sandbox and    *)
(* its memory cap, the output read from its pipes, the cancel, the kills   *)
(* by the cap, by the daemon's memory watchdog and by others, and what the *)
(* submitter is told of them.  Process ids are not used again.             *)
(***************************************************************************)
EXTENDS Naturals, Sequences, SequencesExt, KeptElements

CONSTANTS
    BoxJobs,
    MaxBytes,       \* bytes a job prints
    MaxMem,         \* memory of the machine, in units
    KillsKept,      \* kills the watchdog remembers
    MaxKills        \* kills by the cap, the watchdog and others: a bound

ASSUME BoxAssumption ==
    /\ MaxBytes \in Nat /\ MaxMem \in Nat /\ MaxKills \in Nat
    /\ KillsKept \in Nat \ {0}

VARIABLES
    canCap,     \* cgroups.Prepare: job cgroups can hold a limit
    watching,   \* the daemon has no enforced ceiling: the watchdog runs
    job,        \* each job: see JobType
    oomCount,   \* oom_kill of the parent of all job cgroups
    kills,      \* watchdogKills.list, oldest first
    unrecorded, \* killed by the watchdog, not yet in the list
    pushedOut,  \* jobs one of whose kills the list's bound dropped
    killCount

boxVars == <<canCap, watching, job, oomCount, kills, unrecorded, pushedOut, killCount>>

JobType ==
    [pc: {"import", "setup", "start", "run", "exited", "judged", "done"},
     capped: BOOLEAN,       \* its cgroup has a memory.max
     before: Nat,           \* oomBefore
     alive: BOOLEAN,        \* its root process runs
     stray: BOOLEAN,        \* a process outside its group holds its pipes
     code: {"none", "zero", "error", "killed"},
     cancel: BOOLEAN,       \* cancelCh is closed
     signal: {"none", "term", "kill"},
     told: {"none", "cap", "watchdog"},
     pipe: Seq({"ascii", "lead", "tail"}),   \* printed and not read
     carry: BOOLEAN,        \* the reader holds the start of a character
     printed: 0..MaxBytes, split: BOOLEAN,
     hurt: SUBSET {"cap", "watchdog"}]  \* what killed a process of it

BoxTypeOK ==
    /\ canCap \in BOOLEAN /\ watching \in BOOLEAN
    /\ job \in [BoxJobs -> JobType]
    /\ oomCount \in Nat /\ killCount \in 0..MaxKills
    /\ kills \in Seq(BoxJobs) /\ Len(kills) <= KillsKept
    /\ unrecorded \subseteq BoxJobs /\ pushedOut \subseteq BoxJobs

NewJob == [pc |-> "import", capped |-> FALSE, before |-> 0, alive |-> FALSE, stray |-> FALSE,
           code |-> "none", cancel |-> FALSE, signal |-> "none",
           told |-> "none", pipe |-> << >>, carry |-> FALSE,
           printed |-> 0, split |-> FALSE, hurt |-> {}]

\* Jobs that print nothing and have their closure run side by side, one that
\* prints runs alone.
BoxInit ==
    /\ canCap \in BOOLEAN /\ watching \in BOOLEAN
    /\ \/ job = [j \in BoxJobs |-> [NewJob EXCEPT !.pc = "setup", !.printed = MaxBytes]]
       \/ \E t \in BoxJobs :
             job = [j \in BoxJobs |-> IF j = t THEN NewJob ELSE [NewJob EXCEPT !.pc = "done"]]
    /\ oomCount = 0 /\ kills = << >>
    /\ unrecorded = {} /\ pushedOut = {} /\ killCount = 0

Shared == <<canCap, watching, oomCount, kills, unrecorded, pushedOut, killCount>>
Put(j, r) == job' = [job EXCEPT ![j] = r]

----------------------------------------------------------------------------
(* The handler. *)

\* The closure is imported, or there already.  A cancel stops the import, and
\* a job cancelled by then is not started; a failed one has exit code 1.
Import(j) ==
    LET r == job[j] IN
    /\ r.pc = "import"
    /\ \/ ~r.cancel /\ Put(j, [r EXCEPT !.pc = "setup"])
       \/ Put(j, [r EXCEPT !.pc = "judged", !.code = "error"])
    /\ UNCHANGED Shared

\* grantableMemory: the ceiling asked for, lowered to what the machine can
\* spare, never under what admission approved (or half of what was asked).
Grantable(asked, leased, spare) ==
    LET admitted == IF leased > 0 THEN leased ELSE asked \div 2
        granted == IF spare < admitted THEN admitted ELSE spare
    IN IF asked = 0 \/ spare >= asked \/ granted >= asked THEN asked ELSE granted

\* The sandbox: crun with a cap if one was asked for and can be held, crun
\* without one, or, where the store does not need it, a plain shell.  A node
\* that can do none of it fails the job.
Setup(j) ==
    LET r == job[j] IN
    /\ r.pc = "setup"
    /\ \/ \E asked, leased, spare \in 0..MaxMem :
             /\ canCap /\ Grantable(asked, leased, spare) > 0
             /\ Put(j, [r EXCEPT !.pc = "start", !.before = oomCount, !.capped = TRUE])
       \/ Put(j, [r EXCEPT !.pc = "start"])
       \/ Put(j, [r EXCEPT !.pc = "judged", !.code = "error"])
    /\ UNCHANGED Shared

StartJob(j) ==
    LET r == job[j] IN
    /\ r.pc = "start"
    /\ \/ Put(j, [r EXCEPT !.pc = "run", !.alive = TRUE])
       \/ Put(j, [r EXCEPT !.pc = "judged", !.code = "error"])
    /\ UNCHANGED Shared

----------------------------------------------------------------------------
(* Output: streamOutput and completeUTF8. *)

\* The job prints a character of one byte or of two, in one or two writes.
PrintByte(j, b) ==
    LET r == job[j]
        open == r.printed > 0 /\ r.split
    IN /\ r.alive /\ r.printed < MaxBytes
       /\ (b = "tail") = open
       /\ Put(j, [r EXCEPT !.pipe = Append(@, b), !.printed = @ + 1, !.split = (b = "lead")])
       /\ UNCHANGED Shared

\* A read takes some of what is there; an incomplete character is carried into
\* the next one.
CompleteUTF8(bs) == IF bs # << >> /\ Last(bs) = "lead" THEN Len(bs) - 1 ELSE Len(bs)

ReadOutput(j) ==
    LET r == job[j] IN
    /\ r.pc = "run" /\ r.pipe # << >>
    /\ \E n \in 1..Len(r.pipe) :
          LET got == (IF r.carry THEN <<"lead">> ELSE << >>) \o SubSeq(r.pipe, 1, n)
          IN Put(j, [r EXCEPT !.pipe = SubSeq(@, n + 1, Len(@)),
                              !.carry = (CompleteUTF8(got) < Len(got))])
    /\ UNCHANGED Shared

\* readers.Wait and cmd.Wait: the end of the pipes is read, what is carried is
\* sent, and the process is reaped.
WaitJob(j) ==
    LET r == job[j] IN
    /\ r.pc = "run" /\ ~r.alive /\ ~r.stray /\ r.pipe = << >>
    /\ Put(j, [r EXCEPT !.pc = "exited", !.carry = FALSE, !.signal = "none"])
    /\ UNCHANGED Shared

StrayEnds(j) ==
    /\ job[j].stray /\ job[j].pc = "run"
    /\ Put(j, [job[j] EXCEPT !.stray = FALSE])
    /\ UNCHANGED Shared

----------------------------------------------------------------------------
(* How a process ends. *)

\* Without a sandbox a process that left the job's group may outlive it.
Dead(r, code) == {[r EXCEPT !.alive = FALSE, !.code = code, !.stray = s] :
                     s \in {FALSE, ~r.capped}}
Dies(j, r, codes) == \E d \in UNION {Dead(r, c) : c \in codes} : Put(j, d)

ExitsItself(j) ==
    /\ job[j].alive
    /\ Dies(j, job[j], {"zero", "error"})
    /\ UNCHANGED Shared

\* Killed by somebody else, an operator or the machine's OOM killer.
KilledByOther(j) ==
    /\ job[j].alive /\ killCount < MaxKills
    /\ killCount' = killCount + 1
    /\ Dies(j, job[j], {"killed"})
    /\ UNCHANGED <<canCap, watching, oomCount, kills, unrecorded, pushedOut>>

\* The kernel kills a process of the job's cgroup; the job may survive it.
CapKill(j) ==
    LET r == [job[j] EXCEPT !.hurt = @ \cup {"cap"}] IN
    /\ r.alive /\ r.capped /\ killCount < MaxKills
    /\ killCount' = killCount + 1
    /\ oomCount' = oomCount + 1
    /\ Put(j, r) \/ Dies(j, r, {"error", "killed"})
    /\ UNCHANGED <<canCap, watching, kills, unrecorded, pushedOut>>

\* StartCeilingWatchdog: the largest process under the daemon is killed, and
\* the kill recorded after that.
WatchdogKill(j) ==
    LET r == [job[j] EXCEPT !.hurt = @ \cup {"watchdog"}] IN
    /\ watching /\ unrecorded = {} /\ r.alive /\ killCount < MaxKills
    /\ killCount' = killCount + 1
    /\ unrecorded' = {j}
    /\ Put(j, r) \/ Dies(j, r, {"error", "killed"})
    /\ UNCHANGED <<canCap, watching, oomCount, kills, pushedOut>>

RecordKill(j) ==
    LET full == Len(kills) >= KillsKept IN
    /\ j \in unrecorded
    /\ unrecorded' = unrecorded \ {j}
    /\ kills' = Append(IF full THEN Tail(kills) ELSE kills, j)
    /\ pushedOut' = IF full THEN pushedOut \cup {Head(kills)} ELSE pushedOut
    /\ UNCHANGED <<canCap, watching, job, oomCount, killCount>>

\* A cancel frame of the submitter or of an attacher.
CancelJob(j) ==
    /\ job[j].pc # "done" /\ ~job[j].cancel
    /\ Put(j, [job[j] EXCEPT !.cancel = TRUE])
    /\ UNCHANGED Shared

\* A mutant of the next: SIGTERM is all a job gets.
TermOnly(j) ==
    LET r == job[j]
        t == [r EXCEPT !.signal = "term"]
    IN
    /\ r.pc = "run" /\ r.cancel /\ r.signal = "none"
    /\ Put(j, t) \/ (r.alive /\ Dies(j, t, {"zero", "error"}))
    /\ UNCHANGED Shared

\* superviseCancel: SIGTERM, which the job may ignore, and SIGKILL 2 s later
\* if it is not reaped by then.
Supervise(j) ==
    LET r == job[j]
        t == [r EXCEPT !.signal = "term"]
        k == [r EXCEPT !.signal = "kill"]
    IN
    /\ r.pc = "run" /\ r.cancel /\ r.signal # "kill"
    /\ IF r.signal = "none" THEN Put(j, t) \/ (r.alive /\ Dies(j, t, {"zero", "error"}))
       ELSE IF r.alive THEN Dies(j, k, {"killed"}) ELSE Put(j, k)
    /\ UNCHANGED Shared

----------------------------------------------------------------------------
(* What the submitter is told. *)

\* A mutant of the next: the newest kill is taken whoever it hit.
OwnAny(j) == kills # << >>

\* TakeWatchdogKill: a kill of the job's root process or one under it.
Own(j) == Contains(kills, j)

\* What it keeps: the other kills, in their order.
OthersKills(j) == Keep(kills, {i \in DOMAIN kills : kills[i] # j})

\* A capped job with exit code 137 during which a job cgroup had an OOM kill,
\* or a job that failed and was hit by the watchdog: its kills are forgotten.
Judge(j) ==
    LET r == job[j]
        byCap == r.code = "killed" /\ r.capped /\ ~r.cancel /\ oomCount > r.before
        take == r.code # "zero" /\ ~r.cancel /\ Own(j)
    IN /\ r.pc = "exited"
       /\ Put(j, [r EXCEPT !.pc = "judged", !.told = IF byCap THEN "cap"
                                                     ELSE IF take THEN "watchdog" ELSE "none"])
       /\ kills' = IF take THEN OthersKills(j) ELSE kills
       /\ UNCHANGED <<canCap, watching, oomCount, unrecorded, pushedOut, killCount>>

\* finish: the done frame, the status and the lease.  What the handler kept of
\* the process goes.
FinishJob(j) ==
    /\ job[j].pc = "judged"
    /\ Put(j, [job[j] EXCEPT !.pc = "done", !.before = 0, !.capped = FALSE, !.stray = FALSE])
    /\ UNCHANGED Shared

HandlerStep(j) == Import(j) \/ Setup(j) \/ StartJob(j) \/ ReadOutput(j) \/ WaitJob(j) \/ Judge(j) \/ FinishJob(j)

BoxNext == \E j \in BoxJobs :
    \/ HandlerStep(j) \/ Supervise(j) \/ CancelJob(j) \/ StrayEnds(j)
    \/ \E b \in {"ascii", "lead", "tail"} : PrintByte(j, b)
    \/ ExitsItself(j) \/ KilledByOther(j) \/ CapKill(j) \/ WatchdogKill(j) \/ RecordKill(j)

\* Jobs that are done leave nothing to do.
BoxOver == (\A j \in BoxJobs : job[j].pc = "done") /\ UNCHANGED boxVars

\* A job's handler and its supervisor go on.
BoxSpec ==
    /\ BoxInit /\ [][BoxNext \/ BoxOver]_boxVars
    /\ \A j \in BoxJobs : WF_boxVars(HandlerStep(j)) /\ WF_boxVars(Supervise(j))

----------------------------------------------------------------------------
(* Properties. *)

\* The ceiling is at least what admission approved where that is less than was
\* asked, at most what was asked, and above the machine's spare memory only for
\* what was approved.
GrantIsRight == \A asked, leased, spare \in 0..MaxMem :
    LET g == Grantable(asked, leased, spare) IN
    /\ g <= asked
    /\ leased > 0 => g >= IF leased < asked THEN leased ELSE asked
    /\ g > spare => g <= leased \/ (leased = 0 /\ g = asked \div 2)

\* A job is said to have run out of memory only if a job's cap or the watchdog
\* killed while it ran: under the cap any job's, on the watchdog its own; and
\* one the watchdog killed, that nobody cancelled and that failed, is told so
\* unless the kill was recorded too late or pushed out.  All that was printed
\* is sent before the done frame, whole characters at a time.
ToldIsTrue ==
    /\ BoxTypeOK
    /\ (\E j \in BoxJobs : job[j].pc = "setup") => GrantIsRight
    /\ \A j \in BoxJobs :
         LET r == job[j] IN
         /\ r.told = "cap" => \E k \in BoxJobs : "cap" \in job[k].hurt
         /\ r.told = "watchdog" => "watchdog" \in r.hurt
         /\ r.pc = "done" /\ "watchdog" \in r.hurt /\ r.code # "zero" /\ ~r.cancel /\ r.told = "none"
              => Contains(kills, j) \/ j \in unrecorded \cup pushedOut
         /\ r.pc \in {"exited", "judged", "done"} => r.pipe = << >> /\ ~r.carry

\* Cancelled jobs end although they ignore SIGTERM, whatever else kills at
\* them, unless a process that left its group holds on to the pipes of one.
Stopping == {j \in BoxJobs : job[j].cancel /\ job[j].pc # "done" /\ ~job[j].stray}
CancelEnds == Stopping # {} ~> Stopping = {}

\* "a kill happened while this job ran, which is what makes the attribution
\* safe": the kill was of this job.
OomIsOwn == \A j \in BoxJobs : job[j].told = "cap" => "cap" \in job[j].hurt

\* "kept so the job it belonged to can report ran out of memory instead of a
\* bare exit 137".
KillIsTold == \A j \in BoxJobs :
    job[j].pc = "done" /\ job[j].hurt = {"watchdog"} /\ job[j].code = "killed" /\ ~job[j].cancel
      => job[j].told = "watchdog"
=============================================================================
