----------------------------- MODULE NodeProofs -----------------------------
(***************************************************************************)
(* Proofs about a node, for any number of leases, jobs, devices, crashes,  *)
(* daemons, commands, requests and processes: its leases and jobs          *)
(* (NodeLeases), how its daemon is started, stopped and found              *)
(* (DaemonLife), the scope of its job cgroups, its memory budget and its   *)
(* watchdog (NodeMemory), and what it promises of the machine's memory     *)
(* beside other daemons (MemoryPromises).                                  *)
(***************************************************************************)
EXTENDS MCNode, Recursion, FiniteSetTheorems, TLAPS

-----------------------------------------------------------------------------
(* The leases and the jobs.                                                 *)

USE DEF Final

\* What persist may do to the storage, without its bounds.
LEMMA MutatedStorage ==
  ASSUME TypeOK, Mutated
  PROVE  /\ UNCHANGED <<disk, copied, inflight>>
         /\ owed' \in Nat
BY NodeAssumption DEF Mutated, storage, TypeOK

\* Removing leases from a table keeps it a table.
LEMMA DropType ==
  ASSUME NEW t \in [Lease -> LeaseRec], NEW gone
  PROVE  Drop(t, gone) \in [Lease -> LeaseRec]
BY DEF Drop, Free, LeaseRec

\* Replacing one lease, or one job record, keeps the table a table.
LEMMA LeasePut ==
  ASSUME NEW t \in [Lease -> LeaseRec], NEW l \in Lease, NEW r \in LeaseRec
  PROVE  [t EXCEPT ![l] = r] \in [Lease -> LeaseRec]
OBVIOUS

LEMMA JobPut ==
  ASSUME NEW t \in [Job -> JobRec], NEW j \in Job, NEW r \in JobRec
  PROVE  [t EXCEPT ![j] = r] \in [Job -> JobRec]
OBVIOUS

\* The single-field updates the handlers make keep a record a record.
LEMMA LeaseFields ==
  ASSUME NEW r \in LeaseRec
  PROVE  /\ [r EXCEPT !.age = "fresh"] \in LeaseRec
         /\ [r EXCEPT !.age = "overdue"] \in LeaseRec
         /\ \A j \in Job : [r EXCEPT !.job = j] \in LeaseRec
         /\ [r EXCEPT !.state = "running", !.age = "fresh"] \in LeaseRec
BY DEF LeaseRec

LEMMA JobFields ==
  ASSUME NEW r \in JobRec,
         NEW st \in {"none", "uploaded", "importing", "running"} \union Final
  PROVE  /\ [r EXCEPT !.status = st] \in JobRec
         /\ [r EXCEPT !.group = "recorded"] \in JobRec
BY DEF JobRec

\* What a crash leaves is typed: everything is read back from the snapshot.
LEMMA CrashType == TypeOK /\ Crash => TypeOK'
<1> SUFFICES ASSUME TypeOK, Crash PROVE TypeOK'
  OBVIOUS
<1>1. disk.leases \in [Lease -> LeaseRec] /\ disk.jobs \in [Job -> JobRec]
  BY DEF TypeOK, Snapshot
<1>2. leases' \in [Lease -> LeaseRec]
  BY <1>1, DropType DEF Crash
<1>3. jobs' \in [Job -> JobRec]
  BY <1>1 DEF Crash, JobRec
<1>4. exec' \in [Job -> [at : Phase, lease : Lease \union {NoLease}]]
  BY DEF Crash, TypeOK, Phase
<1>5. client' \in [Lease -> {"none", "accepted", "committed", "gone"}]
  BY DEF Crash, TypeOK
<1>6. frame' \in [Job -> {"none"} \union Final]
  BY DEF Crash, TypeOK
<1>7. alive' \subseteq Job /\ sweep' \in [on : BOOLEAN, live : SUBSET Job, due : SUBSET Lease]
  BY DEF Crash, TypeOK
<1>8. owed' \in Nat /\ crashes' \in Nat
  BY DEF Crash, TypeOK
<1> QED
  BY <1>2, <1>3, <1>4, <1>5, <1>6, <1>7, <1>8 DEF Crash, TypeOK

\* Every step keeps the types.
LEMMA TypeStep == TypeOK /\ [Next]_vars => TypeOK'
<1> SUFFICES ASSUME TypeOK, [Next]_vars PROVE TypeOK'
  OBVIOUS
<1> USE DEF TypeOK, tables, handlers
<1>1. ASSUME NEW l \in Lease, NEW g \in BOOLEAN, Accept(l, g) PROVE TypeOK'
  <2>1. PICK d \in IF g THEN FreeGpus ELSE {NoGpu} :
          leases' = [leases EXCEPT ![l] = [Free EXCEPT !.state = "reserved", !.gpu = d]]
    BY <1>1 DEF Accept
  <2>2. d \in Gpu \union {NoGpu}
    BY DEF FreeGpus
  <2>3. leases' \in [Lease -> LeaseRec]
    BY <2>1, <2>2 DEF Free, LeaseRec
  <2> QED
    BY <1>1, <2>3, MutatedStorage DEF Accept
<1>2. ASSUME NEW l \in Lease, CommitRead(l) PROVE TypeOK'
  <2>1. leases' \in [Lease -> LeaseRec]
    BY <1>2, DropType DEF CommitRead
  <2> QED
    BY <1>2, <2>1, MutatedStorage DEF CommitRead, storage
<1>3. ASSUME NEW l \in Lease, CommitApply(l) PROVE TypeOK'
  <2>1. leases' \in [Lease -> LeaseRec]
    <3>1. CASE leases[l].state = "none"
      BY <1>3, <3>1 DEF CommitApply
    <3>2. CASE leases[l].state # "none"
      <4> DEFINE r == [leases[l] EXCEPT !.state = "running", !.age = "fresh"]
      <4>1. leases' = [leases EXCEPT ![l] = r]
        BY <1>3, <3>2 DEF CommitApply
      <4>2. r \in LeaseRec
        BY LeaseFields
      <4> QED
        BY <4>1, <4>2, LeasePut
    <3> QED
      BY <3>1, <3>2
  <2> QED
    BY <1>3, <2>1, MutatedStorage DEF CommitApply, storage
<1>4. ASSUME NEW l \in Lease, Renew(l) PROVE TypeOK'
  <2> DEFINE r == [leases[l] EXCEPT !.age = "fresh"]
  <2>1. leases' = [leases EXCEPT ![l] = r]
    BY <1>4 DEF Renew
  <2>2. r \in LeaseRec
    BY LeaseFields
  <2>3. leases' \in [Lease -> LeaseRec]
    BY <2>1, <2>2, LeasePut
  <2> QED
    BY <1>4, <2>3 DEF Renew, storage
<1>5. ASSUME NEW l \in Lease, Complete(l) PROVE TypeOK'
  BY <1>5, DropType, MutatedStorage DEF Complete
<1>6. ASSUME NEW l \in Lease, ClientLeaves(l) PROVE TypeOK'
  BY <1>6 DEF ClientLeaves, storage
<1>7. ASSUME NEW l \in Lease, Overdue(l) PROVE TypeOK'
  <2> DEFINE r == [leases[l] EXCEPT !.age = "overdue"]
  <2>1. leases' = [leases EXCEPT ![l] = r]
    BY <1>7 DEF Overdue
  <2>2. r \in LeaseRec
    BY LeaseFields
  <2>3. leases' \in [Lease -> LeaseRec]
    BY <2>1, <2>2, LeasePut
  <2> QED
    BY <1>7, <2>3 DEF Overdue, storage
<1>8. ASSUME NEW l \in Lease, UploadFails(l) PROVE TypeOK'
  BY <1>8, DropType, MutatedStorage DEF UploadFails
<1>9. ASSUME NEW j \in Job, NEW l \in Lease \union {NoLease}, Upload(j, l) PROVE TypeOK'
  BY <1>9, MutatedStorage DEF Upload, SetStatus, JobRec, Phase
<1>10. ASSUME NEW j \in Job, ExecBegin(j) PROVE TypeOK'
  BY SMTT(30), <1>10 DEF ExecBegin, SetStatus, GoTo, storage, JobRec, Phase
<1>11. ASSUME NEW j \in Job, ExecAbort(j) PROVE TypeOK'
  BY <1>11 DEF ExecAbort, GoTo, storage, Phase
<1>12. ASSUME NEW j \in Job, ExecBind(j) PROVE TypeOK'
  <2> DEFINE l == exec[j].lease
  <2>1. leases' \in [Lease -> LeaseRec] /\ revived' \subseteq Lease
    <3>1. CASE l = NoLease
      BY <1>12, <3>1, NodeAssumption DEF ExecBind, Held
    <3>2. CASE l \in Held
      <4> DEFINE r == [leases[l] EXCEPT !.job = j]
      <4>1. l \in Lease /\ r \in LeaseRec
        BY <3>2, LeaseFields DEF Held
      <4>2. leases' = [leases EXCEPT ![l] = r] /\ revived' = revived
        BY <1>12, <3>2, NodeAssumption DEF ExecBind, Held
      <4> QED
        BY <4>1, <4>2, LeasePut
    <3>3. CASE l \in Lease \ Held
      <4> DEFINE r == [Free EXCEPT !.state = "running", !.job = j]
      <4>1. r \in LeaseRec
        BY DEF Free, LeaseRec
      <4>2. leases' = [leases EXCEPT ![l] = r] /\ revived' = revived \union {l}
        BY <1>12, <3>3, NodeAssumption DEF ExecBind
      <4> QED
        BY <3>3, <4>1, <4>2, LeasePut
    <3> QED
      BY <3>1, <3>2, <3>3
  <2>2. exec' \in [Job -> [at : Phase, lease : Lease \union {NoLease}]]
    BY <1>12 DEF ExecBind, GoTo, Phase
  <2> QED
    BY <1>12, <2>1, <2>2, MutatedStorage DEF ExecBind, storage
<1>13. ASSUME NEW j \in Job, ExecRun(j) PROVE TypeOK'
  BY SMTT(30), <1>13 DEF ExecRun, SetStatus, GoTo, storage, JobRec, Phase
<1>14. ASSUME NEW j \in Job, ExecStart(j) PROVE TypeOK'
  BY <1>14 DEF ExecStart, GoTo, storage, Phase
<1>15. ASSUME NEW j \in Job, RecordGroup(j) PROVE TypeOK'
  <2>1. jobs' \in [Job -> JobRec]
    <3> DEFINE r == [jobs[j] EXCEPT !.group = "recorded"]
    <3>1. r \in JobRec
      BY JobFields
    <3>2. jobs' = [jobs EXCEPT ![j] = r] \/ jobs' = jobs
      BY <1>15 DEF RecordGroup
    <3> QED
      BY <3>1, <3>2, JobPut
  <2>2. exec' \in [Job -> [at : Phase, lease : Lease \union {NoLease}]]
    BY <1>15 DEF RecordGroup, GoTo, Phase
  <2>3. UNCHANGED <<disk, copied, inflight>> /\ owed' \in Nat
    BY <1>15, MutatedStorage DEF RecordGroup, storage
  <2> QED
    BY <1>15, <2>1, <2>2, <2>3 DEF RecordGroup
<1>16. ASSUME NEW j \in Job, ProcExits(j) PROVE TypeOK'
  BY <1>16 DEF ProcExits, storage
<1>17. ASSUME NEW j \in Job, NEW st \in Final, ExecFinish(j, st) PROVE TypeOK'
  BY <1>17 DEF ExecFinish, GoTo, storage, Phase
<1>18. ASSUME NEW j \in Job, ExecRecord(j) PROVE TypeOK'
  <2> DEFINE r == [jobs[j] EXCEPT !.status = frame[j]]
  <2>1. jobs' = [jobs EXCEPT ![j] = r]
    BY <1>18 DEF ExecRecord, SetStatus
  <2>2. jobs' \in [Job -> JobRec]
    <3>1. frame[j] \in {"none"} \union Final /\ jobs[j] \in JobRec
      OBVIOUS
    <3>2. r \in JobRec
      BY <3>1, JobFields
    <3> QED
      BY <2>1, <3>2, JobPut
  <2> QED
    BY <1>18, <2>2 DEF ExecRecord, GoTo, SetStatus, storage, Phase
<1>19. ASSUME NEW j \in Job, ExecRelease(j) PROVE TypeOK'
  <2>1. leases' \in [Lease -> LeaseRec]
    BY <1>19, DropType DEF ExecRelease
  <2> QED
    BY <1>19, <2>1, MutatedStorage DEF ExecRelease, GoTo, Phase
<1>20. CASE SweepRead
  BY <1>20 DEF SweepRead, storage, LiveJobs, Held
<1>21. CASE SweepApply
  BY <1>21, DropType, MutatedStorage DEF SweepApply
<1>22. CASE CopyLeases
  BY <1>22 DEF CopyLeases
<1>23. ASSUME NEW t \in copied, CopyJobs(t) PROVE TypeOK'
  BY <1>23 DEF CopyJobs, Snapshot
<1>24. ASSUME NEW s \in inflight, Save(s) PROVE TypeOK'
  BY <1>24 DEF Save
<1>25. CASE Crash
  BY <1>25, CrashType
<1>26. CASE UNCHANGED vars
  BY <1>26 DEF vars
<1> QED
  BY <1>1, <1>2, <1>3, <1>4, <1>5, <1>6, <1>7, <1>8, <1>9, <1>10, <1>11, <1>12,
     <1>13, <1>14, <1>15, <1>16, <1>17, <1>18, <1>19, <1>20, <1>21, <1>22,
     <1>23, <1>24, <1>25, <1>26 DEF Next

\* The initial tables, handlers and snapshot are typed.
LEMMA TypeInit == Init => TypeOK
BY NodeAssumption DEF Init, TypeOK, Free, NoRec, LeaseRec, JobRec, Snapshot, Phase

\* Every table, handler and snapshot the daemon can reach is well typed.
THEOREM TypeCorrect == Spec => []TypeOK
BY TypeInit, TypeStep, PTL DEF Spec
-----------------------------------------------------------------------------
(* The lease tables a restart may bring back: the one in memory, those a   *)
(* persist call has copied, and the one in the file.                       *)

Tables == {leases, disk.leases} \union copied \union {s.leases : s \in inflight}

HeldIn(t) == {l \in Lease : t[l].state # "none"}

\* A table whose free entries hold no device, and no device twice.
GoodGpus(t) ==
  /\ \A l \in Lease : t[l].state = "none" => t[l].gpu = NoGpu
  /\ DistinctGpus(t)

GpuInv == \A t \in Tables : GoodGpus(t)

CapInv == MaxConcurrent > 0 => \A t \in Tables : Cardinality(HeldIn(t) \ revived) <= MaxConcurrent

\* A job past the upload has a record that says so, and stays started.
Started(recs, j) == recs[j].status \notin {"none", "uploaded"}

\* A handler past the upload belongs to a started job, and past its done
\* frame it has a final status to record.
HandlerStarted ==
  \A j \in Job :
    /\ exec[j].at \notin {"idle", "ready", "ended"} => Started(jobs, j)
    /\ exec[j].at = "record" => frame[j] \in Final

LeaseBindInv ==
  /\ StartedIfBound(leases, jobs)
  /\ StartedIfBound(disk.leases, disk.jobs)
  /\ \A t \in copied : StartedIfBound(t, jobs)
  /\ \A s \in inflight : StartedIfBound(s.leases, s.jobs)
  /\ HandlerStarted

\* Where a job's handler can be, given what a table of records says of it.
Traces(recs) ==
  \A j \in Isolated :
    /\ Started(recs, j) => exec[j].at \notin {"idle", "ready"}
    /\ recs[j].status \in Final => exec[j].at \in {"release", "ended"} /\ j \notin alive

StopInv ==
  /\ Traces(jobs) /\ Traces(disk.jobs)
  /\ \A s \in inflight : Traces(s.jobs)
  /\ \A j \in Isolated : j \in alive => exec[j].at \in {"run", "ended"}
-----------------------------------------------------------------------------
\* Only persist and a restart touch the copies and the file.
LEMMA StorageCases ==
  ASSUME TypeOK, [Next]_vars
  PROVE  \/ UNCHANGED <<disk, copied, inflight>>
         \/ CopyLeases
         \/ \E t \in copied : CopyJobs(t)
         \/ \E s \in inflight : Save(s)
         \/ Crash
<1> USE DEF tables, handlers, storage
<1>1. ASSUME NEW l \in Lease, \/ CommitRead(l) \/ CommitApply(l) \/ Renew(l) \/ Complete(l)
                             \/ ClientLeaves(l) \/ Overdue(l) \/ UploadFails(l)
      PROVE  UNCHANGED <<disk, copied, inflight>>
  BY <1>1, MutatedStorage DEF CommitRead, CommitApply, Renew, Complete, ClientLeaves,
     Overdue, UploadFails
<1>2. ASSUME NEW j \in Job, \/ ExecBegin(j) \/ ExecAbort(j) \/ ExecBind(j) \/ ExecRun(j)
                           \/ ExecStart(j) \/ RecordGroup(j) \/ ProcExits(j)
                           \/ ExecRecord(j) \/ ExecRelease(j)
      PROVE  UNCHANGED <<disk, copied, inflight>>
  BY <1>2, MutatedStorage DEF ExecBegin, ExecAbort, ExecBind, ExecRun, ExecStart,
     RecordGroup, ProcExits, ExecRecord, ExecRelease
<1>3. ASSUME NEW l \in Lease, NEW g \in BOOLEAN, Accept(l, g)
      PROVE  UNCHANGED <<disk, copied, inflight>>
  BY <1>3, MutatedStorage DEF Accept
<1>4. ASSUME NEW j \in Job, NEW l \in Lease \union {NoLease}, Upload(j, l)
      PROVE  UNCHANGED <<disk, copied, inflight>>
  BY <1>4, MutatedStorage DEF Upload
<1>5. ASSUME NEW j \in Job, NEW st \in Final, ExecFinish(j, st)
      PROVE  UNCHANGED <<disk, copied, inflight>>
  BY <1>5 DEF ExecFinish
<1>6. ASSUME SweepRead \/ SweepApply \/ UNCHANGED vars
      PROVE  UNCHANGED <<disk, copied, inflight>>
  BY <1>6, MutatedStorage DEF SweepRead, SweepApply, vars
<1> QED
  BY <1>1, <1>2, <1>3, <1>4, <1>5, <1>6 DEF Next

\* A step adds no table but the one it leaves in memory.
LEMMA TablesGrow ==
  ASSUME TypeOK, [Next]_vars, NEW t \in Tables'
  PROVE  t \in Tables \/ t = leases'
<1>1. CASE UNCHANGED <<disk, copied, inflight>>
  BY <1>1 DEF Tables
<1>2. CASE CopyLeases
  BY <1>2 DEF CopyLeases, Tables
<1>3. CASE \E u \in copied : CopyJobs(u)
  BY <1>3 DEF CopyJobs, Tables
<1>4. CASE \E s \in inflight : Save(s)
  BY <1>4 DEF Save, Tables
<1>5. CASE Crash
  BY <1>5 DEF Crash, Tables
<1> QED
  BY <1>1, <1>2, <1>3, <1>4, <1>5, StorageCases

\* The next table in memory is made from t: each lease as it was, gone, still
\* held with its device, or taken again without one.
Derives(t) ==
  \A l \in Lease :
    \/ leases'[l] = t[l]
    \/ leases'[l].state = "none" /\ leases'[l].gpu = NoGpu
    \/ leases'[l].state # "none" /\ t[l].state # "none" /\ leases'[l].gpu = t[l].gpu
    \/ l \in revived' /\ leases'[l].gpu = NoGpu

\* Dropping leases from t derives from it.
LEMMA DropDerives ==
  ASSUME NEW t, NEW gone, leases' = Drop(t, gone)
  PROVE  Derives(t)
BY DEF Drop, Derives, Free

\* Apart from admission, every step derives the table from one of Tables.
LEMMA StepShape ==
  ASSUME TypeOK, [Next]_vars
  PROVE  \/ \E l \in Lease, g \in BOOLEAN : Accept(l, g)
         \/ /\ revived \subseteq revived'
            /\ \E t \in Tables : Derives(t)
<1> DEFINE Goal == revived \subseteq revived' /\ \E t \in Tables : Derives(t)
<1> USE DEF tables, handlers
<1>0. leases \in Tables /\ disk.leases \in Tables
  BY DEF Tables
<1>1. ASSUME UNCHANGED <<leases, revived>> PROVE Goal
  BY <1>0, <1>1 DEF Derives
<1>2. ASSUME NEW t \in Tables, NEW gone, leases' = Drop(t, gone), revived' = revived PROVE Goal
  BY <1>2, DropDerives
<1>3. ASSUME NEW l \in Lease, CommitRead(l) PROVE Goal
  BY <1>0, <1>1, <1>2, <1>3 DEF CommitRead
<1>4. ASSUME NEW l \in Lease, CommitApply(l) PROVE Goal
  <2>1. CASE leases[l].state = "none"
    BY <1>1, <1>4, <2>1 DEF CommitApply
  <2>2. CASE leases[l].state # "none"
    <3>1. Derives(leases)
      BY <1>4, <2>2 DEF CommitApply, Derives, TypeOK, LeaseRec
    <3> QED
      BY <1>0, <1>4, <3>1 DEF CommitApply
  <2> QED
    BY <2>1, <2>2
<1>5. ASSUME NEW l \in Lease, Renew(l) \/ Overdue(l) PROVE Goal
  <2>1. Derives(leases)
    BY <1>5 DEF Renew, Overdue, Derives, Held, TypeOK, LeaseRec
  <2> QED
    BY <1>0, <1>5, <2>1 DEF Renew, Overdue
<1>6. ASSUME NEW l \in Lease, Complete(l) \/ UploadFails(l) PROVE Goal
  BY <1>0, <1>2, <1>6 DEF Complete, UploadFails
<1>7. ASSUME NEW l \in Lease, ClientLeaves(l) PROVE Goal
  BY <1>1, <1>7 DEF ClientLeaves
<1>8. ASSUME NEW j \in Job, NEW l \in Lease \union {NoLease}, Upload(j, l) PROVE Goal
  BY <1>1, <1>8 DEF Upload
<1>9. ASSUME NEW j \in Job, \/ ExecBegin(j) \/ ExecAbort(j) \/ ExecRun(j) \/ ExecStart(j)
                           \/ RecordGroup(j) \/ ProcExits(j) \/ ExecRecord(j)
      PROVE Goal
  BY <1>1, <1>9 DEF ExecBegin, ExecAbort, ExecRun, ExecStart, RecordGroup, ProcExits, ExecRecord
<1>10. ASSUME NEW j \in Job, ExecBind(j) PROVE Goal
  <2> DEFINE l == exec[j].lease
  <2>1. CASE l = NoLease
    BY <1>1, <1>10, <2>1, NodeAssumption DEF ExecBind, Held
  <2>2. CASE l \in Held
    <3>1. leases' = [leases EXCEPT ![l].job = j] /\ revived' = revived
      BY <1>10, <2>2, NodeAssumption DEF ExecBind, Held
    <3>2. Derives(leases)
      BY <2>2, <3>1 DEF Derives, Held, TypeOK, LeaseRec
    <3> QED
      BY <1>0, <3>1, <3>2
  <2>3. CASE l \in Lease \ Held
    <3>1. /\ leases' = [leases EXCEPT ![l] = [Free EXCEPT !.state = "running", !.job = j]]
          /\ revived' = revived \union {l}
      BY <1>10, <2>3, NodeAssumption DEF ExecBind
    <3>2. Derives(leases)
      BY <2>3, <3>1 DEF Derives, Free, TypeOK
    <3> QED
      BY <1>0, <3>1, <3>2
  <2> QED
    BY <2>1, <2>2, <2>3 DEF TypeOK
<1>11. ASSUME NEW j \in Job, NEW st \in Final, ExecFinish(j, st) PROVE Goal
  BY <1>1, <1>11 DEF ExecFinish
<1>12. ASSUME NEW j \in Job, ExecRelease(j) PROVE Goal
  BY <1>0, <1>1, <1>2, <1>12 DEF ExecRelease
<1>13. ASSUME SweepApply PROVE Goal
  BY <1>0, <1>2, <1>13 DEF SweepApply
<1>14. ASSUME SweepRead \/ CopyLeases PROVE Goal
  BY <1>1, <1>14 DEF SweepRead, CopyLeases
<1>15. ASSUME NEW t \in copied, CopyJobs(t) PROVE Goal
  BY <1>1, <1>15 DEF CopyJobs
<1>16. ASSUME NEW s \in inflight, Save(s) PROVE Goal
  BY <1>1, <1>16 DEF Save
<1>17. ASSUME Crash PROVE Goal
  BY <1>0, <1>2, <1>17 DEF Crash
<1>18. ASSUME UNCHANGED vars PROVE Goal
  BY <1>1, <1>18 DEF vars
<1> HIDE DEF Goal
<1> QED
  BY <1>3, <1>4, <1>5, <1>6, <1>7, <1>8, <1>9, <1>10, <1>11, <1>12, <1>13, <1>14, <1>15,
     <1>16, <1>17, <1>18 DEF Next, Goal
-----------------------------------------------------------------------------
(* Devices.                                                                *)

\* A table derived from a good one is good.
LEMMA DerivedGpus ==
  ASSUME NEW t, GoodGpus(t), Derives(t)
  PROVE  GoodGpus(leases')
BY DEF GoodGpus, DistinctGpus, Derives

\* Admission hands out a device no live lease holds.
LEMMA AcceptGpus ==
  ASSUME TypeOK, Telemetry = TRUE, GoodGpus(leases),
         NEW l \in Lease, NEW g \in BOOLEAN, Accept(l, g)
  PROVE  GoodGpus(leases')
<1>1. PICK d \in IF g THEN FreeGpus ELSE {NoGpu} :
        leases' = [leases EXCEPT ![l] = [Free EXCEPT !.state = "reserved", !.gpu = d]]
  BY DEF Accept
<1>2. /\ leases'[l].state = "reserved" /\ leases'[l].gpu = d
      /\ \A m \in Lease : m # l => leases'[m] = leases[m]
  BY <1>1 DEF TypeOK, Free
<1>3. d # NoGpu => \A m \in Held : leases[m].gpu # d
  BY DEF FreeGpus
<1>4. d # NoGpu => \A m \in Lease : leases[m].gpu # d
  BY <1>3 DEF Held, GoodGpus
<1> QED
  BY <1>2, <1>4 DEF GoodGpus, DistinctGpus

\* Admission reserves a device for one job: whatever the sweeper, commits,
\* late jobs and restarts from old snapshots do, no two leases of the table
\* name one device, when the vendor tools report devices one by one.
THEOREM GpusExclusive == Telemetry = TRUE => (Spec => []GpuExclusive)
<1> SUFFICES ASSUME Telemetry = TRUE PROVE Spec => []GpuExclusive
  OBVIOUS
<1>1. Init => GpuInv
  BY DEF Init, GpuInv, Tables, GoodGpus, DistinctGpus, Free
<1>2. TypeOK /\ GpuInv /\ [Next]_vars => GpuInv'
  <2> SUFFICES ASSUME TypeOK, GpuInv, [Next]_vars PROVE GpuInv'
    OBVIOUS
  <2>1. GoodGpus(leases')
    <3>1. CASE \E l \in Lease, g \in BOOLEAN : Accept(l, g)
      <4>1. GoodGpus(leases)
        BY DEF GpuInv, Tables
      <4> QED
        BY <3>1, <4>1, AcceptGpus
    <3>2. CASE \E t \in Tables : Derives(t)
      BY <3>2, DerivedGpus DEF GpuInv
    <3> QED
      BY <3>1, <3>2, StepShape
  <2>2. \A t \in Tables' : GoodGpus(t)
    BY <2>1, TablesGrow DEF GpuInv
  <2>3. GpuInv' <=> \A t \in Tables' : GoodGpus(t)
    BY DEF GpuInv, GoodGpus, DistinctGpus
  <2> QED
    BY <2>2, <2>3
<1>3. GpuInv => GpuExclusive
  BY DEF GpuInv, Tables, GoodGpus, GpuExclusive
<1> QED
  BY <1>1, <1>2, <1>3, TypeCorrect, PTL DEF Spec
-----------------------------------------------------------------------------
(* The concurrency cap.                                                    *)

\* A table derived from t holds no lease that t does not hold, but for the
\* ones taken again, so it is under the cap if t is.
LEMMA DerivedCap ==
  ASSUME NEW t, Derives(t), revived \subseteq revived',
         MaxConcurrent > 0, Cardinality(HeldIn(t) \ revived) <= MaxConcurrent
  PROVE  Cardinality(HeldIn(leases') \ revived') <= MaxConcurrent
<1> DEFINE A == HeldIn(leases') \ revived'
           B == HeldIn(t) \ revived
<1>1. A \subseteq B
  BY DEF HeldIn, Derives
<1>2. IsFiniteSet(B)
  BY FS_Subset, NodeAssumption DEF HeldIn
<1>3. Cardinality(A) <= Cardinality(B) /\ Cardinality(A) \in Nat /\ Cardinality(B) \in Nat
  BY <1>1, <1>2, FS_Subset, FS_CardinalityType
<1> HIDE DEF A, B
<1> QED
  BY <1>3, NodeAssumption DEF A, B

\* Admission adds one lease, and only under the cap.
LEMMA AcceptCap ==
  ASSUME TypeOK, NEW l \in Lease, NEW g \in BOOLEAN, Accept(l, g), MaxConcurrent > 0
  PROVE  Cardinality(HeldIn(leases') \ revived') <= MaxConcurrent
<1> DEFINE A == HeldIn(leases') \ revived'
<1>1. Cardinality(Held) < MaxConcurrent
  BY DEF Accept, BelowCap
<1>2. IsFiniteSet(Held)
  BY FS_Subset, NodeAssumption DEF Held
<1>3. A \subseteq Held \union {l}
  BY DEF Accept, HeldIn, Held, TypeOK
<1>4. /\ IsFiniteSet(Held \union {l})
      /\ Cardinality(Held \union {l}) <= Cardinality(Held) + 1
      /\ Cardinality(Held) \in Nat
  BY <1>2, FS_AddElement, FS_CardinalityType
<1>5. /\ Cardinality(A) <= Cardinality(Held \union {l})
      /\ Cardinality(A) \in Nat /\ Cardinality(Held \union {l}) \in Nat
  BY <1>3, <1>4, FS_Subset, FS_CardinalityType
<1> HIDE DEF A
<1> QED
  BY <1>1, <1>4, <1>5, NodeAssumption DEF A

\* Reserved and running leases together never pass the operator's cap, with
\* any number of submitters, commits and restarts in flight; only leases that
\* bindLease took again for a late job may come on top.
THEOREM CapHolds == Spec => []CapRespected
<1>1. Init => CapInv
  <2> SUFFICES ASSUME Init, MaxConcurrent > 0, NEW t \in Tables
               PROVE  Cardinality(HeldIn(t) \ revived) <= MaxConcurrent
    BY DEF CapInv
  <2>1. HeldIn(t) \ revived = {}
    BY DEF Init, Tables, HeldIn, Free
  <2>2. Cardinality({}) = 0
    BY FS_EmptySet
  <2> QED
    BY <2>1, <2>2, NodeAssumption
<1>2. TypeOK /\ CapInv /\ [Next]_vars => CapInv'
  <2> SUFFICES ASSUME TypeOK, CapInv, [Next]_vars, MaxConcurrent > 0, NEW t \in Tables'
               PROVE  Cardinality(HeldIn(t) \ revived') <= MaxConcurrent
    BY DEF CapInv, HeldIn
  <2>1. \A u \in Tables : Cardinality(HeldIn(u) \ revived) <= MaxConcurrent
    BY DEF CapInv
  <2>2. Cardinality(HeldIn(leases') \ revived') <= MaxConcurrent /\ revived \subseteq revived'
    <3>1. CASE \E l \in Lease, g \in BOOLEAN : Accept(l, g)
      BY <3>1, AcceptCap DEF Accept
    <3>2. CASE revived \subseteq revived' /\ \E u \in Tables : Derives(u)
      BY <3>2, <2>1, DerivedCap
    <3> QED
      BY <3>1, <3>2, StepShape
  <2>3. CASE t \in Tables
    <3> DEFINE A == HeldIn(t) \ revived'
               B == HeldIn(t) \ revived
    <3>1. A \subseteq B /\ IsFiniteSet(B)
      BY <2>2, FS_Subset, NodeAssumption DEF HeldIn
    <3>2. Cardinality(A) <= Cardinality(B) /\ Cardinality(A) \in Nat /\ Cardinality(B) \in Nat
      BY <3>1, FS_Subset, FS_CardinalityType
    <3>3. Cardinality(B) <= MaxConcurrent
      BY <2>1, <2>3
    <3> HIDE DEF A, B
    <3>4. Cardinality(A) <= MaxConcurrent
      BY <3>2, <3>3, NodeAssumption
    <3> QED
      BY <3>4 DEF A
  <2> QED
    BY <2>2, <2>3, TablesGrow
<1>3. CapInv => CapRespected
  BY DEF CapInv, CapRespected, Tables, Held, HeldIn
<1> QED
  BY <1>1, <1>2, <1>3, TypeCorrect, PTL DEF Spec
-----------------------------------------------------------------------------
(* Leases and the jobs they are bound to.                                  *)

\* What a step of the running daemon may do to the job table: a job that is
\* past the upload stays past it.
JobsAdvance == \A j \in Job : Started(jobs, j) => Started(jobs', j)

\* Every binding of the next lease table is one of the old table, or is made
\* to a job that is under way.
BindsStarted ==
  \A l \in Lease : leases'[l].job # NoJob =>
    leases'[l].job = leases[l].job \/ Started(jobs', leases'[l].job)

\* The two facts keep a table's bindings started.
LEMMA StartedKept ==
  ASSUME TypeOK, JobsAdvance, NEW t \in [Lease -> LeaseRec], StartedIfBound(t, jobs)
  PROVE  StartedIfBound(t, jobs')
<1> SUFFICES ASSUME NEW l \in Lease, t[l].job # NoJob PROVE Started(jobs', t[l].job)
  BY DEF StartedIfBound, Started
<1>1. t[l].job \in Job
  BY DEF LeaseRec
<1> QED
  BY <1>1 DEF StartedIfBound, Started, JobsAdvance

\* Dropping leases makes no binding.
LEMMA DropBinds ==
  ASSUME NEW gone, leases' = Drop(leases, gone)
  PROVE  BindsStarted
BY DEF Drop, Free, BindsStarted

\* recordJobGroup changes no status.
LEMMA GroupOnly ==
  ASSUME TypeOK, NEW j \in Job, RecordGroup(j)
  PROVE  \A k \in Job : jobs'[k].status = jobs[k].status
<1>1. CASE UNCHANGED jobs
  BY <1>1
<1>2. CASE jobs' = [jobs EXCEPT ![j].group = "recorded"]
  <2>1. \A k \in Job : jobs'[k] = IF k = j THEN [jobs[j] EXCEPT !.group = "recorded"] ELSE jobs[k]
    BY <1>2 DEF TypeOK
  <2>2. [jobs[j] EXCEPT !.group = "recorded"].status = jobs[j].status
    BY DEF TypeOK, JobRec
  <2> QED
    BY <2>1, <2>2
<1> QED
  BY <1>1, <1>2 DEF RecordGroup

\* While the daemon runs, jobs only advance, leases are bound only to jobs
\* under way, and a handler past the upload has a started job.
LEMMA DaemonStep ==
  ASSUME TypeOK, TypeOK', LeaseBindInv, [Next]_vars, ~Crash
  PROVE  JobsAdvance /\ BindsStarted /\ HandlerStarted'
<1> DEFINE Goal == JobsAdvance /\ BindsStarted /\ HandlerStarted'
<1>a. HandlerStarted
  BY DEF LeaseBindInv
<1> USE DEF tables, handlers, HandlerStarted
<1>1. ASSUME UNCHANGED <<jobs, exec, frame>>, BindsStarted PROVE Goal
  BY <1>a, <1>1 DEF JobsAdvance, Started
<1>2. ASSUME UNCHANGED leases PROVE BindsStarted
  BY <1>2 DEF BindsStarted
<1>3. ASSUME NEW l \in Lease, NEW g \in BOOLEAN, Accept(l, g) PROVE Goal
  <2>1. BindsStarted
    BY <1>3 DEF Accept, BindsStarted, Free, TypeOK
  <2> QED
    BY <1>1, <1>3, <2>1 DEF Accept
<1>4. ASSUME NEW l \in Lease, CommitRead(l) PROVE Goal
  <2>1. BindsStarted
    BY <1>2, <1>4, DropBinds DEF CommitRead
  <2> QED
    BY <1>1, <1>4, <2>1 DEF CommitRead
<1>5. ASSUME NEW l \in Lease, CommitApply(l) PROVE Goal
  <2>1. BindsStarted
    BY <1>5 DEF CommitApply, BindsStarted, TypeOK, LeaseRec
  <2> QED
    BY <1>1, <1>5, <2>1 DEF CommitApply
<1>6. ASSUME NEW l \in Lease, Renew(l) \/ Overdue(l) PROVE Goal
  <2>1. BindsStarted
    BY <1>6 DEF Renew, Overdue, BindsStarted, TypeOK, LeaseRec
  <2> QED
    BY <1>1, <1>6, <2>1 DEF Renew, Overdue
<1>7. ASSUME NEW l \in Lease, Complete(l) \/ UploadFails(l) PROVE Goal
  BY <1>1, <1>7, DropBinds DEF Complete, UploadFails
<1>8. ASSUME NEW l \in Lease, ClientLeaves(l) PROVE Goal
  BY <1>1, <1>2, <1>8 DEF ClientLeaves
<1>9. ASSUME NEW j \in Job, NEW l \in Lease \union {NoLease}, Upload(j, l) PROVE Goal
  BY <1>a, <1>2, <1>9 DEF Upload, SetStatus, JobsAdvance, Started, TypeOK, JobRec
<1>10. ASSUME NEW j \in Job, ExecBegin(j) PROVE Goal
  BY <1>a, <1>2, <1>10 DEF ExecBegin, SetStatus, GoTo, JobsAdvance, Started, TypeOK, JobRec
<1>11. ASSUME NEW j \in Job, ExecAbort(j) \/ ExecStart(j) PROVE Goal
  BY <1>a, <1>2, <1>11 DEF ExecAbort, ExecStart, GoTo, JobsAdvance, Started, TypeOK
<1>12. ASSUME NEW j \in Job, ExecBind(j) PROVE Goal
  <2> DEFINE l == exec[j].lease
  <2>1. Started(jobs, j) /\ jobs' = jobs
    BY <1>a, <1>12 DEF ExecBind
  <2>2. BindsStarted
    <3>1. CASE l = NoLease
      BY <1>2, <1>12, <3>1, NodeAssumption DEF ExecBind, Held
    <3>2. CASE l \in Held
      <4>1. leases' = [leases EXCEPT ![l].job = j]
        BY <1>12, <3>2, NodeAssumption DEF ExecBind, Held
      <4> QED
        BY <2>1, <4>1 DEF BindsStarted, Started, TypeOK, LeaseRec
    <3>3. CASE l \in Lease \ Held
      <4>1. leases' = [leases EXCEPT ![l] = [Free EXCEPT !.state = "running", !.job = j]]
        BY <1>12, <3>3, NodeAssumption DEF ExecBind
      <4> QED
        BY <2>1, <4>1 DEF BindsStarted, Started, TypeOK, Free
    <3> QED
      BY <3>1, <3>2, <3>3 DEF TypeOK
  <2>3. HandlerStarted'
    BY <1>a, <1>12, <2>1 DEF ExecBind, GoTo, Started, TypeOK
  <2> QED
    BY <2>1, <2>2, <2>3 DEF JobsAdvance
<1>13. ASSUME NEW j \in Job, ExecRun(j) PROVE Goal
  BY <1>a, <1>2, <1>13 DEF ExecRun, SetStatus, GoTo, JobsAdvance, Started, TypeOK, JobRec
<1>14. ASSUME NEW j \in Job, RecordGroup(j) PROVE Goal
  <2>1. \A k \in Job : jobs'[k].status = jobs[k].status
    BY <1>14, GroupOnly
  <2> QED
    BY <1>a, <1>2, <1>14, <2>1 DEF RecordGroup, GoTo, JobsAdvance, Started, TypeOK
<1>15. ASSUME NEW j \in Job, ProcExits(j) PROVE Goal
  BY <1>1, <1>2, <1>15 DEF ProcExits
<1>16. ASSUME NEW j \in Job, NEW st \in Final, ExecFinish(j, st) PROVE Goal
  BY <1>a, <1>2, <1>16 DEF ExecFinish, GoTo, JobsAdvance, Started, TypeOK
<1>17. ASSUME NEW j \in Job, ExecRecord(j) PROVE Goal
  <2>1. frame[j] \in Final
    BY <1>a, <1>17 DEF ExecRecord
  <2> QED
    BY <1>a, <1>2, <1>17, <2>1 DEF ExecRecord, SetStatus, GoTo, JobsAdvance, Started, TypeOK, JobRec
<1>18. ASSUME NEW j \in Job, ExecRelease(j) PROVE Goal
  <2>1. BindsStarted
    BY <1>2, <1>18, DropBinds DEF ExecRelease
  <2> QED
    BY <1>a, <1>18, <2>1 DEF ExecRelease, GoTo, JobsAdvance, Started, TypeOK
<1>19. ASSUME SweepRead \/ CopyLeases PROVE Goal
  BY <1>1, <1>2, <1>19 DEF SweepRead, CopyLeases
<1>20. ASSUME SweepApply PROVE Goal
  BY <1>1, <1>20, DropBinds DEF SweepApply
<1>21. ASSUME NEW t \in copied, CopyJobs(t) PROVE Goal
  BY <1>1, <1>2, <1>21 DEF CopyJobs
<1>22. ASSUME NEW s \in inflight, Save(s) PROVE Goal
  BY <1>1, <1>2, <1>22 DEF Save
<1>23. ASSUME UNCHANGED vars PROVE Goal
  BY <1>1, <1>2, <1>23 DEF vars
<1>24. Goal
  <2> HIDE DEF Goal
  <2> QED
    BY <1>3, <1>4, <1>5, <1>6, <1>7, <1>8, <1>9, <1>10, <1>11, <1>12, <1>13, <1>14, <1>15,
       <1>16, <1>17, <1>18, <1>19, <1>20, <1>21, <1>22, <1>23 DEF Next
<1> QED
  BY <1>24
\* A lease is bound only to a job whose handler has begun, so its job's end
\* frees it: also after a restart from a snapshot whose leases and jobs were
\* copied at different moments, because the leases are copied first.
THEOREM NoLeaseLeaks == Spec => []NoLeakedLease
<1>1. Init => LeaseBindInv
  BY DEF Init, LeaseBindInv, StartedIfBound, HandlerStarted, Free
<1>2. TypeOK /\ TypeOK' /\ LeaseBindInv /\ [Next]_vars => LeaseBindInv'
  <2> SUFFICES ASSUME TypeOK, TypeOK', LeaseBindInv, [Next]_vars PROVE LeaseBindInv'
    OBVIOUS
  <2>1. CASE Crash
    <3>1. /\ \A l \in Lease : leases'[l].job # NoJob => leases'[l].job = disk.leases[l].job
          /\ copied' = {} /\ inflight' = {} /\ disk' = disk
      BY <2>1 DEF Crash, Drop, Free
    <3>2. \A j \in Job : Started(disk.jobs, j) => Started(jobs', j)
      BY <2>1 DEF Crash, Started, TypeOK, Snapshot, JobRec
    <3>3. StartedIfBound(leases', jobs')
      <4> SUFFICES ASSUME NEW l \in Lease, leases'[l].job # NoJob
                   PROVE  Started(jobs', leases'[l].job)
        BY DEF StartedIfBound, Started
      <4>1. leases'[l].job \in Job /\ leases'[l].job = disk.leases[l].job
        BY <3>1 DEF TypeOK, LeaseRec
      <4>2. Started(disk.jobs, disk.leases[l].job)
        BY <4>1, NodeAssumption DEF LeaseBindInv, StartedIfBound, Started
      <4> QED
        BY <3>2, <4>1, <4>2
    <3>4. HandlerStarted'
      BY <2>1 DEF Crash, HandlerStarted, TypeOK
    <3> QED
      BY <3>1, <3>3, <3>4 DEF LeaseBindInv, StartedIfBound
  <2>2. CASE ~Crash
    <3>1. JobsAdvance /\ BindsStarted /\ HandlerStarted'
      BY <2>2, DaemonStep
    <3>2. StartedIfBound(leases, jobs') /\ \A t \in copied : StartedIfBound(t, jobs')
      BY <3>1, StartedKept DEF LeaseBindInv, TypeOK
    <3>3. StartedIfBound(leases', jobs')
      BY <3>1, <3>2 DEF StartedIfBound, BindsStarted, Started
    <3>4. CASE UNCHANGED <<disk, copied, inflight>>
      BY <3>1, <3>2, <3>3, <3>4 DEF LeaseBindInv, StartedIfBound
    <3>5. CASE CopyLeases
      BY <3>1, <3>2, <3>3, <3>5 DEF LeaseBindInv, StartedIfBound, CopyLeases, tables
    <3>6. CASE \E t \in copied : CopyJobs(t)
      BY <3>1, <3>2, <3>3, <3>6 DEF LeaseBindInv, StartedIfBound, CopyJobs, tables
    <3>7. CASE \E s \in inflight : Save(s)
      BY <3>1, <3>2, <3>3, <3>7 DEF LeaseBindInv, StartedIfBound, Save, tables
    <3> QED
      BY <2>2, <3>4, <3>5, <3>6, <3>7, StorageCases
  <2> QED
    BY <2>1, <2>2
<1>3. LeaseBindInv => NoLeakedLease
  BY DEF LeaseBindInv, NoLeakedLease
<1> QED
  BY <1>1, <1>2, <1>3, TypeCorrect, PTL DEF Spec
-----------------------------------------------------------------------------
(* Sandboxed jobs and their processes.                                     *)

\* While the daemon runs, handlers only move forward and a process appears
\* only under a handler that is about to run it.
HandlersAdvance ==
  \A j \in Isolated :
    /\ exec[j].at \notin {"idle", "ready"} => exec'[j].at \notin {"idle", "ready"}
    /\ exec[j].at \in {"release", "ended"} =>
         exec'[j].at \in {"release", "ended"} /\ (j \notin alive => j \notin alive')

\* What the records say of a job is still true after such a step.
LEMMA TracesKept ==
  ASSUME HandlersAdvance, NEW recs, Traces(recs)
  PROVE  \A j \in Isolated :
           /\ Started(recs, j) => exec'[j].at \notin {"idle", "ready"}
           /\ recs[j].status \in Final => exec'[j].at \in {"release", "ended"} /\ j \notin alive'
BY DEF HandlersAdvance, Traces

LEMMA HandlerStep ==
  ASSUME TypeOK, StopInv, [Next]_vars, ~Crash
  PROVE  /\ HandlersAdvance
         /\ Traces(jobs)'
         /\ \A j \in Isolated : j \in alive' => exec'[j].at \in {"run", "ended"}
<1> DEFINE RunsAt == \A j \in Isolated : j \in alive => exec[j].at \in {"run", "ended"}
           Goal == HandlersAdvance /\ Traces(jobs)' /\ RunsAt'
<1>a. Traces(jobs) /\ RunsAt /\ Isolated \subseteq Job
  BY NodeAssumption DEF StopInv
<1> USE DEF tables, handlers
<1>1. ASSUME UNCHANGED <<exec, alive, jobs>> PROVE Goal
  BY <1>a, <1>1 DEF HandlersAdvance, Traces, Started
<1>2. ASSUME NEW l \in Lease, \/ CommitRead(l) \/ CommitApply(l) \/ Renew(l) \/ Complete(l)
                             \/ ClientLeaves(l) \/ Overdue(l) \/ UploadFails(l)
      PROVE  Goal
  BY <1>1, <1>2 DEF CommitRead, CommitApply, Renew, Complete, ClientLeaves, Overdue, UploadFails
<1>3. ASSUME NEW l \in Lease, NEW g \in BOOLEAN, Accept(l, g) PROVE Goal
  BY <1>1, <1>3 DEF Accept
<1>4. ASSUME SweepRead \/ SweepApply \/ CopyLeases \/ UNCHANGED vars PROVE Goal
  BY <1>1, <1>4 DEF SweepRead, SweepApply, CopyLeases, vars
<1>5. ASSUME NEW t \in copied, CopyJobs(t) PROVE Goal
  BY <1>1, <1>5 DEF CopyJobs
<1>6. ASSUME NEW s \in inflight, Save(s) PROVE Goal
  BY <1>1, <1>6 DEF Save
<1>7. ASSUME NEW j \in Job, NEW l \in Lease \union {NoLease}, Upload(j, l) PROVE Goal
  BY <1>a, <1>7 DEF Upload, SetStatus, HandlersAdvance, Traces, Started, TypeOK, JobRec
<1>8. ASSUME NEW j \in Job, ExecBegin(j) PROVE Goal
  BY <1>a, <1>8 DEF ExecBegin, SetStatus, GoTo, HandlersAdvance, Traces, Started, TypeOK, JobRec
<1>9. ASSUME NEW j \in Job, ExecAbort(j) \/ ExecBind(j) PROVE Goal
  <2>1. CASE ExecAbort(j)
    BY <1>a, <2>1 DEF ExecAbort, GoTo, HandlersAdvance, Traces, Started, TypeOK
  <2>2. CASE ExecBind(j)
    <3>1. /\ exec[j].at = "config" /\ jobs' = jobs /\ alive' = alive
          /\ exec' = [exec EXCEPT ![j].at = "import"]
      BY <2>2 DEF ExecBind, GoTo
    <3> QED
      BY <1>a, <3>1 DEF HandlersAdvance, Traces, Started, TypeOK
  <2> QED
    BY <1>9, <2>1, <2>2
<1>10. ASSUME NEW j \in Job, ExecRun(j) PROVE Goal
  BY <1>a, <1>10 DEF ExecRun, SetStatus, GoTo, HandlersAdvance, Traces, Started, TypeOK, JobRec
<1>11. ASSUME NEW j \in Job, ExecStart(j) PROVE Goal
  BY <1>a, <1>11 DEF ExecStart, GoTo, HandlersAdvance, Traces, Started, TypeOK
<1>12. ASSUME NEW j \in Job, RecordGroup(j) PROVE Goal
  <2>1. \A k \in Job : jobs'[k].status = jobs[k].status
    BY <1>12, GroupOnly
  <2>2. exec[j].at = "start" /\ exec' = [exec EXCEPT ![j].at = "run"] /\ alive' = alive
    BY <1>12 DEF RecordGroup, GoTo
  <2> QED
    BY <1>a, <2>1, <2>2 DEF HandlersAdvance, Traces, Started, TypeOK
<1>13. ASSUME NEW j \in Job, ProcExits(j) PROVE Goal
  BY <1>a, <1>13 DEF ProcExits, HandlersAdvance, Traces, Started
<1>14. ASSUME NEW j \in Job, NEW st \in Final, ExecFinish(j, st) PROVE Goal
  BY <1>a, <1>14 DEF ExecFinish, GoTo, HandlersAdvance, Traces, Started, TypeOK
<1>15. ASSUME NEW j \in Job, ExecRecord(j) PROVE Goal
  BY <1>a, <1>15 DEF ExecRecord, SetStatus, GoTo, HandlersAdvance, Traces, Started, TypeOK, JobRec
<1>16. ASSUME NEW j \in Job, ExecRelease(j) PROVE Goal
  BY <1>a, <1>16 DEF ExecRelease, GoTo, HandlersAdvance, Traces, Started, TypeOK
<1>17. Goal
  <2> HIDE DEF Goal
  <2> QED
    BY <1>2, <1>3, <1>4, <1>5, <1>6, <1>7, <1>8, <1>9, <1>10, <1>11, <1>12, <1>13, <1>14,
       <1>15, <1>16 DEF Next
<1> QED
  BY <1>17

\* After a restart every handler is over or was never begun, and the jobs it
\* marks failed are the ones whose containers it removed.
LEMMA CrashStops ==
  ASSUME TypeOK, StopInv, Crash
  PROVE  StopInv'
<1>1. Traces(disk.jobs) /\ disk.jobs \in [Job -> JobRec] /\ Isolated \subseteq Job
  BY NodeAssumption DEF StopInv, TypeOK, Snapshot
<1>2. /\ inflight' = {} /\ disk' = disk /\ alive' \subseteq alive \ Stoppable(disk)
      /\ \A j \in Job : exec'[j].at = IF exec[j].at \in {"idle", "ready"} THEN exec[j].at ELSE "ended"
  BY DEF Crash, TypeOK
<1>3. \A j \in Job : jobs'[j].status = IF j \in Orphans(disk) THEN "failed" ELSE disk.jobs[j].status
  BY <1>1 DEF Crash, JobRec
<1>4. Traces(disk.jobs)'
  BY <1>1, <1>2 DEF Traces, Started
<1>5. Traces(jobs)'
  <2> SUFFICES ASSUME NEW j \in Isolated
               PROVE  /\ Started(jobs', j) => exec'[j].at \notin {"idle", "ready"}
                      /\ jobs'[j].status \in Final =>
                           exec'[j].at \in {"release", "ended"} /\ j \notin alive'
    BY DEF Traces, Started
  <2>1. CASE j \in Orphans(disk)
    <3>1. Started(disk.jobs, j) /\ j \in Stoppable(disk)
      BY <2>1 DEF Orphans, Stoppable, Started
    <3> QED
      BY <1>1, <1>2, <3>1 DEF Traces
  <2>2. CASE j \notin Orphans(disk)
    BY <1>1, <1>2, <1>3, <2>2 DEF Traces, Started
  <2> QED
    BY <2>1, <2>2
<1>6. \A j \in Isolated : j \in alive' => exec'[j].at \in {"run", "ended"}
  BY <1>1, <1>2 DEF StopInv
<1> QED
  BY <1>2, <1>4, <1>5, <1>6 DEF StopInv

\* A sandboxed job that the daemon calls done, failed or cancelled has no
\* process left, also when the status comes from a restart.
THEOREM FinishedStopped == Spec => []FinishedMeansStopped
<1>1. Init => StopInv
  BY NodeAssumption DEF Init, StopInv, Traces, Started, NoRec
<1>2. TypeOK /\ StopInv /\ [Next]_vars => StopInv'
  <2> SUFFICES ASSUME TypeOK, StopInv, [Next]_vars, ~Crash PROVE StopInv'
    BY CrashStops
  <2>1. /\ HandlersAdvance /\ Traces(jobs)'
        /\ \A j \in Isolated : j \in alive' => exec'[j].at \in {"run", "ended"}
    BY HandlerStep
  <2>2. CASE UNCHANGED <<disk, copied, inflight>> \/ CopyLeases
    <3>1. UNCHANGED <<disk, inflight>>
      BY <2>2 DEF CopyLeases
    <3> QED
      BY <2>1, <3>1, TracesKept DEF StopInv, Traces, Started
  <2>3. CASE \E t \in copied : CopyJobs(t)
    <3>1. /\ disk' = disk /\ jobs' = jobs
          /\ \A s \in inflight' : s \in inflight \/ s.jobs = jobs
      BY <2>3 DEF CopyJobs, tables
    <3> QED
      BY <2>1, <3>1, TracesKept DEF StopInv, Traces, Started
  <2>4. CASE \E s \in inflight : Save(s)
    <3>1. disk' \in inflight /\ inflight' \subseteq inflight
      BY <2>4 DEF Save
    <3> QED
      BY <2>1, <3>1, TracesKept DEF StopInv, Traces, Started
  <2> QED
    BY <2>2, <2>3, <2>4, StorageCases
<1>3. StopInv => FinishedMeansStopped
  BY DEF StopInv, Traces, FinishedMeansStopped
<1> QED
  BY <1>1, <1>2, <1>3, TypeCorrect, PTL DEF Spec

HIDE DEF Final

-----------------------------------------------------------------------------
(* The daemons of a machine.                                                *)

\* A daemon that is to stay until a signal reaches it.
Live(p) == Alive(p) /\ life[p] # "killed"

\* Nothing points at a daemon that was never started.
Known ==
    \A p \in Pids : life[p] = "unborn" =>
        p \notin {pidFile, unit, saved} /\ \A c \in Cmds : cmd[c].pid # p

\* What a command under way has seen to.
CmdInv(c) ==
    /\ cmd[c].pc \in {"spawn", "write"} => ~Live(pidFile)
    /\ cmd[c].pc = "write" => ~service
    /\ cmd[c].pc \in {"wait", "remove"} => cmd[c].pid = pidFile
    /\ cmd[c].pc = "remove" => ~Live(pidFile)

\* One daemon at a time, that can be found or is about to be written down.
FoundInv ==
    /\ Live(pidFile) => unit = Nothing
    /\ \A p \in Pids : Live(p) =>
          p \in {pidFile, unit} \/ \E c \in Cmds : cmd[c].pc = "write" /\ cmd[c].pid = p

\* The file records no other daemon's job once a daemon has read it.
SavedInv(p) ==
    /\ life[p] \in {"ready", "going"} => saved = Nothing
    /\ Serves(p) => saved \in {Nothing, p}

OneBusy == \A c, e \in Cmds : Busy(c) /\ Busy(e) => c = e

QuietInv ==
    /\ shot = {} /\ OneBusy /\ FoundInv
    /\ \A c \in Cmds : CmdInv(c)
    /\ \A p \in Pids : SavedInv(p)

LifeInv ==
    /\ DaemonTypeOK /\ Known
    /\ ~service => unit = Nothing
    /\ ~overlap => QuietInv

-----------------------------------------------------------------------------
Lives == {"unborn", "boot", "ready", "serving", "going", "leaving", "killed", "dead"}
Phases == {"idle", "spawn", "write", "health", "unit", "term", "wait", "remove"}

\* A process that has not been started is there to be started.
LEMMA FreshIs ==
  ASSUME CanSpawn
  PROVE  Fresh \in Pids /\ life[Fresh] = "unborn"
  BY DEF CanSpawn, Fresh

\* No pid is the mark for none.
LEMMA NothingIsNoPid == Nothing \notin Pids
  BY DaemonAssumption DEF Nothing, Pids

\* What a signal makes of a daemon.
LEMMA TerminatedIs ==
  ASSUME NEW l \in Lives
  PROVE  /\ Terminated(l) \in Lives
         /\ Terminated(l) = "unborn" <=> l = "unborn"
         /\ Terminated(l) \in {"boot", "ready", "serving"} => FALSE
         /\ Terminated(l) = "going" => l \in {"ready", "going"}
         /\ Terminated(l) = "leaving" => l \in {"serving", "leaving"}
         /\ Terminated(l) = "killed" <=> l = "killed"
  BY DEF Terminated, Lives

\* A command goes on to another phase.
LEMMA GotoIs ==
  ASSUME DaemonTypeOK, NEW c \in Cmds, NEW pc \in Phases, Goto(c, pc)
  PROVE  /\ cmd' \in [Cmds -> [op : {"start", "stop", "restart"}, pid : Pids \cup {Nothing},
                               pc : Phases]]
         /\ cmd'[c].pc = pc /\ cmd'[c].pid = cmd[c].pid
         /\ \A e \in Cmds : e # c => cmd'[e] = cmd[e]
  BY DEF Goto, DaemonTypeOK, Phases

\* A step of the daemons that no command takes part in: nothing comes to live
\* but what the unit is then, and only if nothing lived.
LEMMA DaemonStepInv ==
  ASSUME LifeInv, UNCHANGED <<pidFile, service, cmd, overlap>>,
         life' \in [Pids -> Lives],
         \A p \in Pids : /\ life'[p] = "unborn" => life[p] = "unborn"
                         /\ Live(p)' => Live(p) \/ (p = unit' /\ life[p] = "unborn")
                         /\ p = unit /\ unit' # unit => ~Live(p)',
         unit' \in Pids \cup {Nothing}, saved' \in Pids \cup {Nothing},
         unit' # Nothing => life'[unit'] # "unborn" /\ service,
         saved' # Nothing => life'[saved'] # "unborn",
         shot' \in SUBSET Pids, ~overlap => shot' = {},
         ~overlap => (unit' # Nothing => unit # Nothing \/ ~Live(pidFile)'),
         ~overlap => \A p \in Pids : SavedInv(p)'
  PROVE  LifeInv'
  <1>1. DaemonTypeOK /\ Known /\ (~service => unit = Nothing)
    BY DEF LifeInv
  <1>2. DaemonTypeOK'
    BY <1>1 DEF DaemonTypeOK, Lives
  <1>3. Known'
    BY <1>1, NothingIsNoPid DEF Known, DaemonTypeOK
  <1>4. ~service' => unit' = Nothing
    OBVIOUS
  <1>5. ASSUME ~overlap' PROVE QuietInv'
    <2>1. QuietInv /\ ~overlap
      BY <1>5 DEF LifeInv
    <2>2. OneBusy'
      BY <2>1 DEF QuietInv, OneBusy, Busy
    <2>3. Live(pidFile)' => Live(pidFile)
      BY <1>1, NothingIsNoPid DEF Known, Live, Alive
    <2>4. FoundInv'
      <3>1. Live(pidFile)' => unit' = Nothing
        BY <2>1, <2>3 DEF QuietInv, FoundInv
      <3>2. ASSUME NEW p \in Pids, Live(p)'
            PROVE  p \in {pidFile, unit}' \/ \E c \in Cmds : cmd'[c].pc = "write" /\ cmd'[c].pid = p
        <4>1. CASE p = unit'
          BY <4>1
        <4>2. CASE p # unit'
          <5>1. Live(p)
            BY <3>2, <4>2
          <5>2. p # unit
            BY <3>2, <4>2
          <5> QED
            BY <5>1, <5>2, <2>1 DEF QuietInv, FoundInv
        <4> QED
          BY <4>1, <4>2
      <3> QED
        BY <3>1, <3>2 DEF FoundInv
    <2>5. \A c \in Cmds : CmdInv(c)'
      BY <2>1, <2>3 DEF QuietInv, CmdInv
    <2> QED
      BY <2>1, <2>2, <2>4, <2>5 DEF QuietInv
  <1> QED
    BY <1>2, <1>3, <1>4, <1>5 DEF LifeInv

\* One process at most is to stay.
LEMMA OneLives ==
  ASSUME LifeInv, ~overlap, NEW p \in Pids, NEW q \in Pids, Live(p), Live(q)
  PROVE  p = q
  <1>1. QuietInv /\ (~service => unit = Nothing)
    BY DEF LifeInv
  <1>2. p # Nothing /\ q # Nothing
    BY NothingIsNoPid
  <1>3. ASSUME NEW c \in Cmds, cmd[c].pc = "write" PROVE unit = Nothing /\ ~Live(pidFile)
    BY <1>1, <1>3 DEF QuietInv, CmdInv
  <1>4. ASSUME NEW c \in Cmds, NEW e \in Cmds, cmd[c].pc = "write", cmd[e].pc = "write"
        PROVE  c = e
    BY <1>1, <1>4 DEF QuietInv, OneBusy, Busy
  <1> QED
    BY <1>1, <1>2, <1>3, <1>4 DEF QuietInv, FoundInv

\* A daemon that takes over fails the record of one that is gone.
LEMMA TakeOverInv == ASSUME LifeInv, NEW p \in Pids, TakeOver(p) PROVE LifeInv'
  <1>1. DaemonTypeOK /\ Known /\ (~service => unit = Nothing) /\ (~overlap => QuietInv)
    BY DEF LifeInv
  <1>2. /\ life[p] = "boot" /\ life' = [life EXCEPT ![p] = "ready"] /\ saved' = Nothing
        /\ UNCHANGED <<pidFile, service, unit, cmd, overlap>>
    BY DEF TakeOver
  <1>3. life' \in [Pids -> Lives] /\ \A q \in Pids : life'[q] = IF q = p THEN "ready" ELSE life[q]
    BY <1>1, <1>2 DEF DaemonTypeOK, Lives
  <1>4. ~overlap => shot' = {}
    <2> SUFFICES ASSUME ~overlap, NEW q \in Pids, q = saved, Serves(q) PROVE FALSE
      BY <1>1 DEF TakeOver, QuietInv
    <2>1. Live(p) /\ Live(q)
      BY <1>2 DEF Live, Alive, Serves
    <2>2. p = q
      BY <2>1, OneLives
    <2> QED
      BY <1>2, <2>2 DEF Serves
  <1>5. shot' \in SUBSET Pids
    BY <1>1 DEF TakeOver, DaemonTypeOK
  <1>6. \A q \in Pids : SavedInv(q)'
    BY <1>2 DEF SavedInv
  <1>7. unit' \in Pids \cup {Nothing} /\ saved' \in Pids \cup {Nothing}
    BY <1>1, <1>2 DEF DaemonTypeOK
  <1>8. \A q \in Pids : /\ life'[q] = "unborn" => life[q] = "unborn"
                        /\ Live(q)' => Live(q)
    BY <1>2, <1>3 DEF Live, Alive
  <1>9. unit' # Nothing => life'[unit'] # "unborn" /\ service
    BY <1>1, <1>2, <1>7, <1>8 DEF Known
  <1> QED
    BY <1>2, <1>3, <1>4, <1>5, <1>6, <1>7, <1>8, <1>9, DaemonStepInv

\* A daemon of the same unit goes on to another state of life.
LEMMA LifeStepInv ==
  ASSUME LifeInv, NEW p \in Pids, NEW l \in Lives \ {"unborn"}, life[p] # "unborn",
         life' = [life EXCEPT ![p] = l],
         UNCHANGED <<pidFile, service, cmd, shot, overlap, saved>>,
         l \in {"boot", "ready", "serving", "going", "leaving"} => Live(p),
         unit' = unit \/ (unit = p /\ unit' = Nothing /\ l = "dead"),
         ~overlap => /\ l \in {"ready", "going"} => saved = Nothing
                     /\ l \in {"serving", "leaving"} => saved \in {Nothing, p}
  PROVE  LifeInv'
  <1>1. DaemonTypeOK /\ Known /\ (~service => unit = Nothing) /\ (~overlap => QuietInv)
    BY DEF LifeInv
  <1>2. life' \in [Pids -> Lives] /\ \A q \in Pids : life'[q] = IF q = p THEN l ELSE life[q]
    BY <1>1 DEF DaemonTypeOK, Lives
  <1>3. shot' \in SUBSET Pids /\ (~overlap => shot' = {})
    BY <1>1 DEF DaemonTypeOK, QuietInv
  <1>4. ~overlap => \A q \in Pids : SavedInv(q)'
    BY <1>1, <1>2 DEF SavedInv, QuietInv, Serves
  <1>5. unit' \in Pids \cup {Nothing} /\ saved' \in Pids \cup {Nothing}
    BY <1>1 DEF DaemonTypeOK
  <1>6. \A q \in Pids : /\ life'[q] = "unborn" => life[q] = "unborn"
                        /\ Live(q)' => Live(q)
                        /\ q = unit /\ unit' # unit => ~Live(q)'
    BY <1>2 DEF Live, Alive, Lives
  <1>7. /\ unit' # Nothing => life'[unit'] # "unborn" /\ service
        /\ saved' # Nothing => life'[saved'] # "unborn"
    BY <1>1, <1>5, <1>6 DEF Known
  <1>8. unit' # Nothing => unit # Nothing
    OBVIOUS
  <1> QED
    BY <1>2, <1>3, <1>4, <1>5, <1>6, <1>7, <1>8, DaemonStepInv

\* A daemon binds the port when nobody holds it.
LEMMA BindInv == ASSUME LifeInv, NEW p \in Pids, Bind(p) PROVE LifeInv'
  <1>1. DaemonTypeOK /\ (~overlap => SavedInv(p))
    BY DEF LifeInv, QuietInv
  <1> DEFINE l == IF life[p] = "ready" THEN "serving" ELSE "leaving"
  <1>2. life[p] \in {"ready", "going"} /\ life' = [life EXCEPT ![p] = l]
    BY <1>1 DEF Bind, DaemonTypeOK
  <1>3. l \in {"serving", "leaving"} /\ Live(p)
    BY <1>2 DEF Live, Alive
  <1>4. ~overlap => saved = Nothing
    BY <1>1, <1>2 DEF SavedInv
  <1> HIDE DEF l
  <1>5. l \in Lives \ {"unborn"} /\ l \notin {"ready", "going"}
    BY <1>3 DEF Lives
  <1> QED
    BY <1>2, <1>3, <1>4, <1>5, LifeStepInv DEF Bind

\* A daemon that falls or leaves.
LEMMA DeathInv == ASSUME LifeInv, NEW p \in Pids, Falls(p) \/ Leaves(p) PROVE LifeInv'
  <1>1. /\ life' = [life EXCEPT ![p] = "dead"] /\ life[p] # "unborn"
        /\ UNCHANGED <<pidFile, service, cmd, shot, overlap, saved>>
        /\ unit' = unit \/ (unit = p /\ unit' = Nothing)
    BY DEF Falls, Leaves
  <1>2. "dead" \in Lives \ {"unborn"}
    BY DEF Lives
  <1> QED
    BY <1>1, <1>2, LifeStepInv

\* A daemon that serves begins a job or ends it.
LEMMA JobInv == ASSUME LifeInv, NEW p \in Pids, TakesJob(p) \/ JobDone(p) PROVE LifeInv'
  <1>1. DaemonTypeOK /\ Known /\ (~service => unit = Nothing) /\ (~overlap => QuietInv)
    BY DEF LifeInv
  <1>2. /\ UNCHANGED <<life, pidFile, service, unit, cmd, shot, overlap>>
        /\ saved' \in {p, Nothing} /\ Serves(p)
    BY DEF TakesJob, JobDone
  <1>3. life[p] # "unborn" /\ Live(p)
    BY <1>2 DEF Serves, Live, Alive
  <1>4. ~overlap => \A q \in Pids : SavedInv(q)'
    <2> SUFFICES ASSUME ~overlap, NEW q \in Pids PROVE SavedInv(q)'
      OBVIOUS
    <2>1. CASE q = p
      BY <1>2, <2>1 DEF SavedInv, Serves
    <2>2. CASE q # p
      <3>1. ~Live(q)
        BY <1>3, <2>2, OneLives
      <3> QED
        BY <1>2, <3>1 DEF SavedInv, Live, Alive, Serves
    <2> QED
      BY <2>1, <2>2
  <1>5. /\ life' \in [Pids -> Lives] /\ shot' \in SUBSET Pids
        /\ unit' \in Pids \cup {Nothing} /\ saved' \in Pids \cup {Nothing}
    BY <1>1, <1>2 DEF DaemonTypeOK, Lives
  <1>6. \A q \in Pids : /\ life'[q] = life[q]
                        /\ Live(q)' <=> Live(q)
    BY <1>2 DEF Live, Alive
  <1>7. /\ unit' # Nothing => life'[unit'] # "unborn" /\ service
        /\ saved' # Nothing => life'[saved'] # "unborn"
    BY <1>1, <1>2, <1>3, <1>5, <1>6 DEF Known
  <1>8. ~overlap => shot' = {}
    BY <1>1, <1>2 DEF QuietInv
  <1> QED
    BY <1>2, <1>4, <1>5, <1>6, <1>7, <1>8, DaemonStepInv

\* systemd starts the unit's daemon again once it is gone.
LEMMA UnitAgainInv == ASSUME LifeInv, UnitAgain PROVE LifeInv'
  <1>1. DaemonTypeOK /\ Known /\ (~service => unit = Nothing) /\ (~overlap => QuietInv)
    BY DEF LifeInv
  <1>2. /\ service /\ unit # Nothing /\ life[unit] = "dead"
        /\ unit' = Fresh /\ life' = [life EXCEPT ![Fresh] = "boot"]
        /\ UNCHANGED <<pidFile, service, saved, cmd, shot, overlap>>
        /\ Fresh \in Pids /\ life[Fresh] = "unborn"
    BY FreshIs DEF UnitAgain
  <1>3. life' \in [Pids -> Lives] /\ \A q \in Pids : life'[q] = IF q = Fresh THEN "boot" ELSE life[q]
    BY <1>1, <1>2 DEF DaemonTypeOK, Lives
  <1>4. shot' \in SUBSET Pids /\ (~overlap => shot' = {})
    BY <1>1, <1>2 DEF DaemonTypeOK, QuietInv
  <1>5. ~overlap => \A q \in Pids : SavedInv(q)'
    BY <1>1, <1>2, <1>3 DEF SavedInv, QuietInv, Serves
  <1>6. unit' \in Pids \cup {Nothing} /\ saved' \in Pids \cup {Nothing}
    BY <1>1, <1>2 DEF DaemonTypeOK
  <1>7. \A q \in Pids : /\ life'[q] = "unborn" => life[q] = "unborn"
                        /\ Live(q)' => Live(q) \/ (q = unit' /\ life[q] = "unborn")
                        /\ q = unit /\ unit' # unit => ~Live(q)'
    BY <1>2, <1>3 DEF Live, Alive
  <1>8. /\ unit' # Nothing => life'[unit'] # "unborn" /\ service
        /\ saved' # Nothing => life'[saved'] # "unborn"
    BY <1>1, <1>2, <1>3, <1>6 DEF Known
  <1> QED
    BY <1>2, <1>3, <1>4, <1>5, <1>6, <1>7, <1>8, DaemonStepInv

\* A reboot leaves no daemon but the unit's.
LEMMA RebootInv == ASSUME LifeInv, Reboot PROVE LifeInv'
  <1>1. DaemonTypeOK /\ Known /\ (~service => unit = Nothing) /\ (~overlap => QuietInv)
    BY DEF LifeInv
  <1>2. UNCHANGED <<pidFile, service, saved, cmd, shot, overlap>>
    BY DEF Reboot
  <1>3. /\ life' \in [Pids -> Lives] /\ unit' \in Pids \cup {Nothing}
        /\ \A q \in Pids : \/ q = unit' /\ life[q] = "unborn" /\ life'[q] = "boot"
                           \/ Alive(q) /\ life'[q] = "dead"
                           \/ ~Alive(q) /\ q # unit' /\ life'[q] = life[q]
        /\ unit' # Nothing => life'[unit'] = "boot" /\ service
    <2>1. CASE life' = [p \in Pids |-> IF Alive(p) THEN "dead" ELSE life[p]] /\ unit' = Nothing
      BY <2>1, <1>1, NothingIsNoPid DEF DaemonTypeOK, Lives
    <2>2. CASE /\ service /\ CanSpawn /\ unit' = Fresh
               /\ life' = [p \in Pids |-> IF Alive(p) THEN "dead"
                                          ELSE IF p = Fresh THEN "boot" ELSE life[p]]
      <3>1. Fresh \in Pids /\ life[Fresh] = "unborn" /\ ~Alive(Fresh)
        BY <2>2, FreshIs DEF Alive
      <3> QED
        BY <2>2, <3>1, <1>1 DEF DaemonTypeOK, Lives
    <2> QED
      BY <2>1, <2>2 DEF Reboot
  <1>4. shot' \in SUBSET Pids /\ (~overlap => shot' = {})
    BY <1>1, <1>2 DEF DaemonTypeOK, QuietInv
  <1>5. \A q \in Pids : life'[q] \notin {"ready", "serving", "going", "leaving", "killed"}
    BY <1>3 DEF Alive
  <1>6. \A q \in Pids : SavedInv(q)'
    BY <1>5 DEF SavedInv, Serves
  <1>7. saved' \in Pids \cup {Nothing}
    BY <1>1, <1>2 DEF DaemonTypeOK
  <1>8. \A q \in Pids : /\ life'[q] = "unborn" => life[q] = "unborn"
                        /\ Live(q)' => q = unit' /\ life[q] = "unborn"
    BY <1>3 DEF Live, Alive
  <1>9. \A q \in Pids : q = unit /\ unit' # unit => ~Live(q)'
    BY <1>8
  <1>10. saved' # Nothing => life'[saved'] # "unborn"
    BY <1>1, <1>2, <1>7, <1>8 DEF Known
  <1>11. ~Live(pidFile)'
    BY <1>1, <1>2, <1>8, NothingIsNoPid DEF Known, Live, Alive
  <1> QED
    BY <1>2, <1>3, <1>4, <1>6, <1>7, <1>8, <1>9, <1>10, <1>11, DaemonStepInv

-----------------------------------------------------------------------------
\* A step of one command: while commands do not overlap, the others are idle.
LEMMA CommandStepInv ==
  ASSUME LifeInv, NEW c \in Cmds, UNCHANGED <<service, saved, shot>>,
         cmd' \in [Cmds -> [op : {"start", "stop", "restart"}, pid : Pids \cup {Nothing},
                            pc : Phases]],
         \A e \in Cmds : e # c => cmd'[e] = cmd[e],
         overlap' \in BOOLEAN,
         ~overlap' => ~overlap /\ \A e \in Cmds : e # c => ~Busy(e),
         life' \in [Pids -> Lives], Known',
         unit' \in Pids \cup {Nothing}, pidFile' \in Pids \cup {Nothing},
         ~service => unit' = Nothing,
         ~overlap' => FoundInv' /\ CmdInv(c)' /\ \A p \in Pids : SavedInv(p)'
  PROVE  LifeInv'
  <1>1. DaemonTypeOK /\ (~overlap => QuietInv)
    BY DEF LifeInv
  <1>2. DaemonTypeOK'
    BY <1>1 DEF DaemonTypeOK, Lives, Phases
  <1>3. ASSUME ~overlap' PROVE QuietInv'
    <2>1. shot' = {}
      BY <1>1, <1>3 DEF QuietInv
    <2>2. OneBusy'
      BY <1>3 DEF OneBusy, Busy
    <2>3. \A e \in Cmds : CmdInv(e)'
      <3> SUFFICES ASSUME NEW e \in Cmds, e # c PROVE CmdInv(e)'
        BY <1>3
      <3>1. cmd'[e].pc = "idle"
        BY <1>3 DEF Busy
      <3> QED
        BY <3>1 DEF CmdInv
    <2> QED
      BY <1>3, <2>1, <2>2, <2>3 DEF QuietInv
  <1> QED
    BY <1>2, <1>3 DEF LifeInv

\* A command under way is the only one.
LEMMA OnlyCommand ==
  ASSUME LifeInv, ~overlap, NEW c \in Cmds, Busy(c)
  PROVE  \A e \in Cmds : e # c => ~Busy(e) /\ cmd[e].pc # "write"
  BY DEF LifeInv, QuietInv, OneBusy, Busy

\* A command that begins is the only one, or overlaps from here on.
LEMMA BeginInv ==
  ASSUME LifeInv, NEW c \in Cmds, NEW op \in {"start", "stop", "restart"}, Begin(c, op)
  PROVE  LifeInv'
  <1>1. DaemonTypeOK /\ Known /\ (~service => unit = Nothing) /\ (~overlap => QuietInv)
    BY DEF LifeInv
  <1> DEFINE pc == CASE op = "start" -> IF Running THEN "idle" ELSE "spawn"
                     [] OTHER -> IF service THEN "unit" ELSE "term"
  <1>2. /\ cmd' = [cmd EXCEPT ![c] = [op |-> op, pid |-> Nothing, pc |-> pc]]
        /\ UNCHANGED <<life, pidFile, service, unit, saved, shot>>
        /\ overlap' = (overlap \/ \E e \in Cmds : Busy(e))
    BY DEF Begin
  <1>3. pc \in {"idle", "spawn", "unit", "term"} /\ (pc = "spawn" => ~Running)
    OBVIOUS
  <1> HIDE DEF pc
  <1>4. /\ cmd' \in [Cmds -> [op : {"start", "stop", "restart"}, pid : Pids \cup {Nothing},
                              pc : Phases]]
        /\ cmd'[c].pc = pc /\ cmd'[c].pid = Nothing
        /\ \A e \in Cmds : e # c => cmd'[e] = cmd[e]
    BY <1>1, <1>2, <1>3 DEF DaemonTypeOK, Phases
  <1>5. overlap' \in BOOLEAN
    BY <1>1, <1>2 DEF DaemonTypeOK
  <1>6. ~overlap' => ~overlap /\ \A e \in Cmds : ~Busy(e)
    BY <1>2
  <1>7. Known'
    BY <1>1, <1>2, <1>4, NothingIsNoPid DEF Known
  <1>8. Live(pidFile)' = Live(pidFile) /\ \A p \in Pids : Live(p)' = Live(p) /\ Serves(p)' = Serves(p)
    BY <1>2 DEF Live, Alive, Serves
  <1>9. ASSUME ~overlap' PROVE FoundInv' /\ CmdInv(c)' /\ \A p \in Pids : SavedInv(p)'
    <2>1. QuietInv /\ \A e \in Cmds : cmd[e].pc = "idle"
      BY <1>1, <1>6, <1>9 DEF Busy
    <2>2. FoundInv'
      BY <1>2, <1>8, <2>1 DEF FoundInv, QuietInv
    <2>3. CmdInv(c)'
      BY <1>2, <1>3, <1>4, <1>8 DEF CmdInv, Running, Live
    <2>4. \A p \in Pids : SavedInv(p)'
      BY <1>2, <1>8, <2>1 DEF SavedInv, QuietInv
    <2> QED
      BY <2>2, <2>3, <2>4
  <1>10. /\ life' \in [Pids -> Lives] /\ unit' \in Pids \cup {Nothing}
         /\ pidFile' \in Pids \cup {Nothing} /\ (~service => unit' = Nothing)
    BY <1>1, <1>2 DEF DaemonTypeOK, Lives
  <1> QED
    BY <1>2, <1>4, <1>5, <1>6, <1>7, <1>9, <1>10, CommandStepInv

\* A command goes on; the daemons stay as they are or come closer to their
\* end, and none comes to live.
LEMMA GoesOnInv ==
  ASSUME LifeInv, NEW c \in Cmds, Busy(c), cmd[c].pc # "write", NEW pc \in Phases \ {"write"},
         NEW pid \in Pids \cup {Nothing},
         cmd' \in [Cmds -> [op : {"start", "stop", "restart"}, pid : Pids \cup {Nothing},
                            pc : Phases]],
         cmd'[c].pc = pc, cmd'[c].pid = pid, \A e \in Cmds : e # c => cmd'[e] = cmd[e],
         pid \in {cmd[c].pid, pidFile},
         UNCHANGED <<service, saved, shot, overlap>>,
         pidFile' \in {pidFile, Nothing}, unit' \in {unit, Nothing},
         unit' = unit \/ ~Alive(unit),
         life' \in [Pids -> Lives],
         \A p \in Pids : \/ life'[p] = life[p] \/ (life[p] # "unborn" /\ life'[p] = "killed")
                         \/ life'[p] = Terminated(life[p]),
         ~overlap /\ pidFile' # pidFile => ~Live(pidFile),
         ~overlap => CmdInv(c)'
  PROVE  LifeInv'
  <1>1. DaemonTypeOK /\ Known /\ (~service => unit = Nothing) /\ (~overlap => QuietInv)
    BY DEF LifeInv
  <1>2. \A p \in Pids :
           /\ life'[p] = "unborn" => life[p] = "unborn"
           /\ Live(p)' => Live(p)
           /\ life'[p] \in {"ready", "going"} => life[p] \in {"ready", "going"}
           /\ Serves(p)' => Serves(p)
    <2> SUFFICES ASSUME NEW p \in Pids
                 PROVE  /\ life'[p] = "unborn" => life[p] = "unborn"
                        /\ Live(p)' => Live(p)
                        /\ life'[p] \in {"ready", "going"} => life[p] \in {"ready", "going"}
                        /\ Serves(p)' => Serves(p)
      OBVIOUS
    <2>1. life[p] \in Lives
      BY <1>1 DEF DaemonTypeOK, Lives
    <2> QED
      BY <2>1 DEF Terminated, Lives, Live, Alive, Serves
  <1>3. unit' \in Pids \cup {Nothing} /\ pidFile' \in Pids \cup {Nothing}
    BY <1>1 DEF DaemonTypeOK
  <1>4. Known'
    BY <1>1, <1>2, NothingIsNoPid DEF Known
  <1>5. ~service => unit' = Nothing
    BY <1>1
  <1>6. Live(pidFile)' => Live(pidFile) /\ pidFile' = pidFile
    BY <1>2, NothingIsNoPid DEF Live, Alive
  <1>7. ASSUME ~overlap' PROVE FoundInv' /\ CmdInv(c)' /\ \A p \in Pids : SavedInv(p)'
    <2>1. QuietInv /\ \A e \in Cmds : e # c => cmd[e].pc # "write"
      BY <1>1, <1>7, OnlyCommand
    <2>2. Live(pidFile)' => unit' = Nothing
      BY <1>6, <2>1 DEF QuietInv, FoundInv
    <2>3. ASSUME NEW p \in Pids, Live(p)' PROVE p \in {pidFile, unit}'
      <3>1. Live(p) /\ p # Nothing
        BY <1>2, <2>3, NothingIsNoPid
      <3>2. p \in {pidFile, unit}
        BY <2>1, <3>1 DEF QuietInv, FoundInv
      <3>3. p = unit => unit' = unit
        BY <3>1 DEF Live
      <3>4. p = pidFile => pidFile' = pidFile
        BY <1>7, <3>1
      <3> QED
        BY <3>2, <3>3, <3>4
    <2>4. FoundInv'
      BY <2>2, <2>3 DEF FoundInv
    <2>5. \A p \in Pids : SavedInv(p)'
      BY <1>2, <2>1 DEF SavedInv, QuietInv
    <2> QED
      BY <1>7, <2>4, <2>5
  <1>8. overlap' \in BOOLEAN /\ (~overlap' => ~overlap /\ \A e \in Cmds : e # c => ~Busy(e))
    BY <1>1, OnlyCommand DEF DaemonTypeOK
  <1> QED
    BY <1>3, <1>4, <1>5, <1>7, <1>8, CommandStepInv

\* A start command stops waiting for the health answer.
LEMMA HealthInv == ASSUME LifeInv, NEW c \in Cmds, Health(c) PROVE LifeInv'
  <1>1. DaemonTypeOK
    BY DEF LifeInv
  <1>2. /\ cmd[c].pc = "health" /\ Goto(c, "idle")
        /\ UNCHANGED <<life, pidFile, service, unit, saved, shot, overlap>>
    BY DEF Health
  <1>3. "idle" \in Phases
    BY DEF Phases
  <1>4. /\ cmd' \in [Cmds -> [op : {"start", "stop", "restart"}, pid : Pids \cup {Nothing},
                              pc : Phases]]
        /\ cmd'[c].pc = "idle" /\ cmd'[c].pid = cmd[c].pid
        /\ \A e \in Cmds : e # c => cmd'[e] = cmd[e]
    BY <1>1, <1>2, <1>3, GotoIs
  <1>5. CmdInv(c)'
    BY <1>4 DEF CmdInv
  <1>6. life' \in [Pids -> Lives] /\ cmd[c].pid \in Pids \cup {Nothing} /\ Busy(c)
    BY <1>1, <1>2 DEF DaemonTypeOK, Lives, Busy
  <1> QED
    BY <1>2, <1>3, <1>4, <1>5, <1>6, GoesOnInv

\* systemd stops the unit's daemon, and the stop command goes on.
LEMMA StopUnitInv == ASSUME LifeInv, NEW c \in Cmds, StopUnit(c) PROVE LifeInv'
  <1>1. DaemonTypeOK
    BY DEF LifeInv
  <1>2. /\ cmd[c].pc = "unit" /\ Busy(c) /\ cmd[c].pid \in Pids \cup {Nothing}
        /\ UNCHANGED <<pidFile, service, saved, shot, overlap>>
    BY <1>1 DEF StopUnit, Busy, DaemonTypeOK
  <1>3. "unit" \in Phases /\ "term" \in Phases
    BY DEF Phases
  <1>4. CASE Alive(unit)
    <2>1. life' = [life EXCEPT ![unit] = Terminated(@)] /\ UNCHANGED <<cmd, unit>> /\ unit \in Pids
      BY <1>4 DEF StopUnit, Alive
    <2>2. /\ life' \in [Pids -> Lives]
          /\ \A p \in Pids : life'[p] = life[p] \/ life'[p] = Terminated(life[p])
      BY <1>1, <2>1, TerminatedIs DEF DaemonTypeOK, Lives
    <2>3. cmd' \in [Cmds -> [op : {"start", "stop", "restart"}, pid : Pids \cup {Nothing},
                             pc : Phases]]
      BY <1>1, <2>1 DEF DaemonTypeOK, Phases
    <2>4. CmdInv(c)'
      BY <1>2, <2>1 DEF CmdInv
    <2> QED
      BY <1>2, <1>3, <2>1, <2>2, <2>3, <2>4, GoesOnInv
  <1>5. CASE ~Alive(unit)
    <2>1. unit' = Nothing /\ Goto(c, "term") /\ life' = life
      BY <1>5 DEF StopUnit
    <2>2. /\ cmd' \in [Cmds -> [op : {"start", "stop", "restart"}, pid : Pids \cup {Nothing},
                                pc : Phases]]
          /\ cmd'[c].pc = "term" /\ cmd'[c].pid = cmd[c].pid
          /\ \A e \in Cmds : e # c => cmd'[e] = cmd[e]
      BY <1>1, <1>3, <2>1, GotoIs
    <2>3. CmdInv(c)'
      BY <2>2 DEF CmdInv
    <2>4. life' \in [Pids -> Lives]
      BY <1>1, <2>1 DEF DaemonTypeOK, Lives
    <2> QED
      BY <1>2, <1>3, <1>5, <2>1, <2>2, <2>3, <2>4, GoesOnInv
  <1> QED
    BY <1>4, <1>5

\* The stop command's SIGTERM to the pid in the file.
LEMMA SignalTermInv == ASSUME LifeInv, NEW c \in Cmds, SignalTerm(c) PROVE LifeInv'
  <1>1. DaemonTypeOK
    BY DEF LifeInv
  <1>2. /\ cmd[c].pc = "term" /\ Busy(c) /\ cmd[c].pid \in Pids \cup {Nothing}
        /\ pidFile \in Pids \cup {Nothing}
        /\ UNCHANGED <<pidFile, service, unit, saved, shot, overlap>>
    BY <1>1 DEF SignalTerm, Busy, DaemonTypeOK
  <1>3. CASE pidFile = Nothing
    <2>1. Goto(c, After(c)) /\ life' = life
      BY <1>3 DEF SignalTerm
    <2>2. After(c) \in {"idle", "spawn"}
      BY DEF After
    <2>3. After(c) \in Phases \ {"write"}
      BY <2>2 DEF Phases
    <2>4. /\ cmd' \in [Cmds -> [op : {"start", "stop", "restart"}, pid : Pids \cup {Nothing},
                                pc : Phases]]
          /\ cmd'[c].pc = After(c) /\ cmd'[c].pid = cmd[c].pid
          /\ \A e \in Cmds : e # c => cmd'[e] = cmd[e]
      BY <1>1, <2>1, <2>3, GotoIs
    <2>5. CmdInv(c)'
      BY <1>2, <1>3, <2>2, <2>4, NothingIsNoPid DEF CmdInv, Live, Alive
    <2>6. life' \in [Pids -> Lives]
      BY <1>1, <2>1 DEF DaemonTypeOK, Lives
    <2> QED
      BY <1>2, <2>1, <2>3, <2>4, <2>5, <2>6, GoesOnInv
  <1>4. CASE pidFile # Nothing
    <2>1. /\ cmd' = [cmd EXCEPT ![c].pc = "wait", ![c].pid = pidFile]
          /\ life' = [life EXCEPT ![pidFile] = Terminated(@)] /\ pidFile \in Pids
      BY <1>2, <1>4 DEF SignalTerm
    <2>2. /\ cmd' \in [Cmds -> [op : {"start", "stop", "restart"}, pid : Pids \cup {Nothing},
                                pc : Phases]]
          /\ cmd'[c].pc = "wait" /\ cmd'[c].pid = pidFile
          /\ \A e \in Cmds : e # c => cmd'[e] = cmd[e]
      BY <1>1, <2>1 DEF DaemonTypeOK, Phases
    <2>3. "wait" \in Phases \ {"write"}
      BY DEF Phases
    <2>4. CmdInv(c)'
      BY <1>2, <2>2 DEF CmdInv
    <2>5. /\ life' \in [Pids -> Lives]
          /\ \A p \in Pids : life'[p] = life[p] \/ life'[p] = Terminated(life[p])
      BY <1>1, <2>1, TerminatedIs DEF DaemonTypeOK, Lives
    <2> QED
      BY <1>2, <2>1, <2>2, <2>3, <2>4, <2>5, GoesOnInv
  <1> QED
    BY <1>3, <1>4

\* The stop command's SIGKILL to what is left after its wait.
LEMMA KillLeftInv == ASSUME LifeInv, NEW c \in Cmds, KillLeft(c) PROVE LifeInv'
  <1>1. DaemonTypeOK
    BY DEF LifeInv
  <1>2. /\ cmd[c].pc = "wait" /\ Busy(c) /\ cmd[c].pid \in Pids \cup {Nothing}
        /\ UNCHANGED <<pidFile, service, unit, saved, shot, overlap>> /\ Goto(c, "remove")
        /\ life' = [p \in Pids |-> IF p = cmd[c].pid /\ Alive(p) THEN "killed" ELSE life[p]]
    BY <1>1 DEF KillLeft, Busy, DaemonTypeOK
  <1>3. "remove" \in Phases \ {"write"}
    BY DEF Phases
  <1>4. /\ cmd' \in [Cmds -> [op : {"start", "stop", "restart"}, pid : Pids \cup {Nothing},
                              pc : Phases]]
        /\ cmd'[c].pc = "remove" /\ cmd'[c].pid = cmd[c].pid
        /\ \A e \in Cmds : e # c => cmd'[e] = cmd[e]
    BY <1>1, <1>2, <1>3, GotoIs
  <1>5. /\ life' \in [Pids -> Lives]
        /\ \A p \in Pids : life'[p] = life[p] \/ (life[p] # "unborn" /\ life'[p] = "killed")
        /\ \A p \in Pids : p = cmd[c].pid => ~Live(p)'
    BY <1>1, <1>2 DEF DaemonTypeOK, Lives, Alive, Live
  <1>6. ~overlap => CmdInv(c)'
    <2> SUFFICES ASSUME ~overlap PROVE CmdInv(c)'
      OBVIOUS
    <2>1. cmd[c].pid = pidFile
      BY <1>2 DEF LifeInv, QuietInv, CmdInv
    <2>2. ~Live(pidFile)'
      BY <1>2, <1>5, <2>1 DEF Live, Alive
    <2> QED
      BY <1>2, <1>4, <2>1, <2>2 DEF CmdInv
  <1> QED
    BY <1>2, <1>3, <1>4, <1>5, <1>6, GoesOnInv

\* The files go after the daemon they name.
LEMMA RemoveFilesInv == ASSUME LifeInv, NEW c \in Cmds, RemoveFiles(c) PROVE LifeInv'
  <1>1. DaemonTypeOK
    BY DEF LifeInv
  <1> DEFINE pc == IF cmd[c].op = "restart"
                   THEN (IF service /\ Alive(unit) THEN "idle" ELSE "spawn") ELSE "idle"
  <1>2. /\ cmd[c].pc = "remove" /\ Busy(c) /\ cmd[c].pid \in Pids \cup {Nothing}
        /\ UNCHANGED <<life, service, unit, saved, shot, overlap>> /\ pidFile' = Nothing
        /\ cmd' = [cmd EXCEPT ![c].pc = pc]
    BY <1>1 DEF RemoveFiles, Busy, DaemonTypeOK
  <1>3. pc \in Phases \ {"write"} /\ pc \in {"idle", "spawn"}
    BY DEF Phases
  <1> HIDE DEF pc
  <1>4. /\ cmd' \in [Cmds -> [op : {"start", "stop", "restart"}, pid : Pids \cup {Nothing},
                              pc : Phases]]
        /\ cmd'[c].pc = pc /\ cmd'[c].pid = cmd[c].pid
        /\ \A e \in Cmds : e # c => cmd'[e] = cmd[e]
    BY <1>1, <1>2, <1>3, GotoIs DEF Goto
  <1>5. CmdInv(c)'
    BY <1>2, <1>3, <1>4, NothingIsNoPid DEF CmdInv, Live, Alive
  <1>6. ~overlap => ~Live(pidFile)
    BY <1>2 DEF LifeInv, QuietInv, CmdInv
  <1>7. life' \in [Pids -> Lives] /\ \A p \in Pids : life'[p] = life[p]
    BY <1>1, <1>2 DEF DaemonTypeOK, Lives
  <1> QED
    BY <1>2, <1>3, <1>4, <1>5, <1>6, <1>7, GoesOnInv

\* Start brings a daemon to life where none is to stay.
LEMMA SpawnInv == ASSUME LifeInv, NEW c \in Cmds, Spawn(c) PROVE LifeInv'
  <1>1. DaemonTypeOK /\ Known /\ (~service => unit = Nothing) /\ (~overlap => QuietInv)
    BY DEF LifeInv
  <1>2. /\ cmd[c].pc = "spawn" /\ Busy(c) /\ cmd[c].pid \in Pids \cup {Nothing}
        /\ UNCHANGED <<pidFile, service, saved, shot, overlap>>
        /\ Fresh \in Pids /\ life[Fresh] = "unborn"
    BY <1>1, FreshIs DEF Spawn, Busy, DaemonTypeOK
  <1>3. "health" \in Phases \ {"write"} /\ "write" \in Phases
    BY DEF Phases
  <1>4. CASE service /\ Alive(unit)
    <2>1. UNCHANGED <<life, unit>> /\ Goto(c, "health")
      BY <1>4 DEF Spawn
    <2>2. /\ cmd' \in [Cmds -> [op : {"start", "stop", "restart"}, pid : Pids \cup {Nothing},
                                pc : Phases]]
          /\ cmd'[c].pc = "health" /\ cmd'[c].pid = cmd[c].pid
          /\ \A e \in Cmds : e # c => cmd'[e] = cmd[e]
      BY <1>1, <1>3, <2>1, GotoIs
    <2>3. CmdInv(c)'
      BY <2>2 DEF CmdInv
    <2>4. life' \in [Pids -> Lives]
      BY <1>1, <2>1 DEF DaemonTypeOK, Lives
    <2> QED
      BY <1>2, <1>3, <2>1, <2>2, <2>3, <2>4, GoesOnInv
  <1>5. CASE ~(service /\ Alive(unit))
    <2>1. /\ life' = [life EXCEPT ![Fresh] = "boot"]
          /\ \/ /\ service /\ ~Alive(unit) /\ unit' = Fresh
                /\ cmd' = [cmd EXCEPT ![c].pc = "health"]
             \/ /\ ~service /\ unit' = unit
                /\ cmd' = [cmd EXCEPT ![c].pc = "write", ![c].pid = Fresh]
      BY <1>5 DEF Spawn, Goto
    <2>2. /\ life' \in [Pids -> Lives]
          /\ \A p \in Pids : life'[p] = IF p = Fresh THEN "boot" ELSE life[p]
      BY <1>1, <1>2, <2>1 DEF DaemonTypeOK, Lives
    <2>3. /\ cmd' \in [Cmds -> [op : {"start", "stop", "restart"}, pid : Pids \cup {Nothing},
                                pc : Phases]]
          /\ \/ cmd'[c].pc = "health" /\ cmd'[c].pid = cmd[c].pid /\ unit' = Fresh
                /\ ~Alive(unit) /\ service
             \/ cmd'[c].pc = "write" /\ cmd'[c].pid = Fresh /\ unit' = unit /\ ~service
          /\ \A e \in Cmds : e # c => cmd'[e] = cmd[e]
      BY <1>1, <1>2, <1>3, <2>1 DEF DaemonTypeOK, Phases
    <2>4. unit' \in Pids \cup {Nothing} /\ (~service => unit' = Nothing)
      BY <1>1, <1>2, <2>3 DEF DaemonTypeOK
    <2>5. Known'
      BY <1>1, <1>2, <2>2, <2>3 DEF Known
    <2>6. ASSUME ~overlap PROVE FoundInv' /\ CmdInv(c)' /\ \A p \in Pids : SavedInv(p)'
      <3>1. QuietInv /\ ~Live(pidFile)
        BY <1>1, <1>2, <2>6 DEF QuietInv, CmdInv
      <3>2. ~Live(pidFile)'
        BY <1>1, <1>2, <2>2, <3>1 DEF Live, Alive, Known
      <3>3. CmdInv(c)'
        BY <1>2, <2>3, <3>2 DEF CmdInv
      <3>4. \A p \in Pids : SavedInv(p)'
        BY <1>2, <2>2, <3>1 DEF QuietInv, SavedInv, Serves
      <3>5. ASSUME NEW p \in Pids, Live(p)' PROVE p = unit' \/ (cmd'[c].pc = "write" /\ cmd'[c].pid = p)
        <4>1. CASE p = Fresh
          BY <4>1, <2>3
        <4>2. CASE p # Fresh
          <5>1. Live(p) /\ p # Nothing
            BY <2>2, <3>5, <4>2, NothingIsNoPid DEF Live, Alive
          <5>2. p = unit
            BY <1>2, <2>6, <3>1, <5>1, OnlyCommand DEF QuietInv, FoundInv
          <5> QED
            BY <1>1, <2>3, <5>1, <5>2 DEF Live
        <4> QED
          BY <4>1, <4>2
      <3>6. FoundInv'
        BY <3>2, <3>5 DEF FoundInv
      <3> QED
        BY <3>3, <3>4, <3>6
    <2>7. overlap' \in BOOLEAN /\ pidFile' \in Pids \cup {Nothing}
      BY <1>1, <1>2 DEF DaemonTypeOK
    <2>8. ~overlap' => ~overlap /\ \A e \in Cmds : e # c => ~Busy(e)
      BY <1>2, OnlyCommand
    <2> QED
      BY <1>2, <2>2, <2>3, <2>4, <2>5, <2>6, <2>7, <2>8, CommandStepInv
  <1> QED
    BY <1>4, <1>5

\* The pid file names the daemon that was spawned.
LEMMA WritePidInv == ASSUME LifeInv, NEW c \in Cmds, WritePid(c) PROVE LifeInv'
  <1>1. DaemonTypeOK /\ Known /\ (~service => unit = Nothing) /\ (~overlap => QuietInv)
    BY DEF LifeInv
  <1>2. /\ cmd[c].pc = "write" /\ Busy(c) /\ cmd[c].pid \in Pids \cup {Nothing}
        /\ UNCHANGED <<life, service, unit, saved, shot, overlap>>
        /\ pidFile' = cmd[c].pid /\ Goto(c, "health")
    BY <1>1 DEF WritePid, Busy, DaemonTypeOK
  <1>3. "health" \in Phases
    BY DEF Phases
  <1>4. /\ cmd' \in [Cmds -> [op : {"start", "stop", "restart"}, pid : Pids \cup {Nothing},
                              pc : Phases]]
        /\ cmd'[c].pc = "health" /\ cmd'[c].pid = cmd[c].pid
        /\ \A e \in Cmds : e # c => cmd'[e] = cmd[e]
    BY <1>1, <1>2, <1>3, GotoIs
  <1>5. Known'
    BY <1>1, <1>2, <1>4 DEF Known
  <1>6. ASSUME ~overlap PROVE FoundInv' /\ CmdInv(c)' /\ \A p \in Pids : SavedInv(p)'
    <2>1. QuietInv /\ ~Live(pidFile) /\ unit = Nothing
      BY <1>1, <1>2, <1>6 DEF QuietInv, CmdInv
    <2>2. \A p \in Pids : Live(p)' = Live(p) /\ Serves(p)' = Serves(p)
      BY <1>2 DEF Live, Alive, Serves
    <2>3. ASSUME NEW p \in Pids, Live(p) PROVE p = cmd[c].pid
      <3>1. p # pidFile /\ p # unit
        BY <2>1, <2>3, NothingIsNoPid
      <3> QED
        BY <1>2, <1>6, <2>1, <2>3, <3>1, OnlyCommand DEF QuietInv, FoundInv
    <2>4. FoundInv'
      BY <1>2, <2>1, <2>2, <2>3 DEF FoundInv
    <2>5. CmdInv(c)'
      BY <1>4 DEF CmdInv
    <2>6. \A p \in Pids : SavedInv(p)'
      BY <1>2, <2>1, <2>2 DEF SavedInv, QuietInv
    <2> QED
      BY <2>4, <2>5, <2>6
  <1>7. /\ life' \in [Pids -> Lives] /\ unit' \in Pids \cup {Nothing}
        /\ pidFile' \in Pids \cup {Nothing} /\ (~service => unit' = Nothing) /\ overlap' \in BOOLEAN
    BY <1>1, <1>2 DEF DaemonTypeOK, Lives
  <1>8. ~overlap' => ~overlap /\ \A e \in Cmds : e # c => ~Busy(e)
    BY <1>2, OnlyCommand
  <1> QED
    BY <1>2, <1>4, <1>5, <1>6, <1>7, <1>8, CommandStepInv

\* The service is installed while no command runs.
LEMMA InstallInv == LifeInv /\ Install => LifeInv'
  <1> SUFFICES ASSUME LifeInv, Install PROVE LifeInv'
    OBVIOUS
  <1>1. service' = TRUE /\ UNCHANGED <<life, pidFile, unit, saved, cmd, shot, overlap>>
    BY DEF Install
  <1>2. DaemonTypeOK' /\ Known' /\ (service' = TRUE)
    BY <1>1 DEF LifeInv, DaemonTypeOK, Known
  <1>3. ASSUME ~overlap PROVE QuietInv'
    <2>1. QuietInv /\ \A c \in Cmds : cmd[c].pc # "write"
      BY <1>3 DEF LifeInv, Install, Busy
    <2>2. \A c \in Cmds : CmdInv(c)'
      BY <1>1, <2>1 DEF QuietInv, CmdInv, Live, Alive
    <2> QED
      BY <1>1, <2>1, <2>2 DEF QuietInv, OneBusy, Busy, FoundInv, SavedInv, Live, Alive, Serves
  <1> QED
    BY <1>1, <1>2, <1>3 DEF LifeInv

\* The machine before its first daemon.
LEMMA LifeInitInv == LifeInit => LifeInv
  <1> SUFFICES ASSUME LifeInit PROVE LifeInv
    OBVIOUS
  <1>1. DaemonTypeOK
    BY DEF LifeInit, DaemonTypeOK
  <1>2. Known
    BY NothingIsNoPid DEF LifeInit, Known
  <1>3. QuietInv
    BY NothingIsNoPid DEF LifeInit, QuietInv, OneBusy, Busy, FoundInv, CmdInv, SavedInv, Live,
                          Alive, Serves
  <1> QED
    BY <1>1, <1>2, <1>3 DEF LifeInv, LifeInit

\* Every step of commands and daemons keeps the invariant.
LEMMA LifeNextInv == LifeInv /\ [LifeNext]_lifeVars => LifeInv'
  <1> SUFFICES ASSUME LifeInv, [LifeNext]_lifeVars PROVE LifeInv'
    OBVIOUS
  <1>1. ASSUME CommandNext PROVE LifeInv'
    BY <1>1, BeginInv, SpawnInv, WritePidInv, HealthInv, StopUnitInv, SignalTermInv, KillLeftInv,
       RemoveFilesInv, InstallInv DEF CommandNext
  <1>2. ASSUME DaemonNext PROVE LifeInv'
    BY <1>2, TakeOverInv, BindInv, DeathInv, JobInv, UnitAgainInv, RebootInv DEF DaemonNext
  <1>3. CASE UNCHANGED lifeVars
    BY <1>3 DEF lifeVars, LifeInv, DaemonTypeOK, Known, QuietInv, OneBusy, Busy, FoundInv, CmdInv,
                SavedInv, Live, Alive, Serves
  <1> QED
    BY <1>1, <1>2, <1>3 DEF LifeNext

\* The invariant says that a daemon can be found.
LEMMA LifeInvIsFound == LifeInv => DaemonFound
  <1> SUFFICES ASSUME LifeInv PROVE DaemonFound
    OBVIOUS
  <1>1. ASSUME ~overlap
        PROVE  /\ shot = {}
               /\ \A p \in Pids : Serves(p) /\ saved # Nothing => saved = p
               /\ (\A c \in Cmds : ~Busy(c)) =>
                     \A p \in Pids : Alive(p) /\ life[p] # "killed" => p \in {pidFile, unit}
    BY <1>1 DEF LifeInv, QuietInv, FoundInv, SavedInv, Live, Busy
  <1> QED
    BY <1>1 DEF LifeInv, DaemonFound

\* While commands do not overlap, every daemon that is to stay can be found by
\* the pid file or the unit, no boot fails the jobs of a daemon that runs, and
\* none that serves is shadowed by the record of somebody else's job (Start,
\* Stop, Status, EnablePersistence).
THEOREM DaemonIsFound == LifeSpec => []DaemonFound
  <1> QED
    BY LifeInitInv, LifeNextInv, LifeInvIsFound, PTL DEF LifeSpec

-----------------------------------------------------------------------------
(* The scope of the job cgroups.                                            *)

ScopeInv ==
    /\ ScopeTypeOK
    /\ memory => In("scope") = {}
    /\ prep = "yes" => memory
    /\ prep = "new" => In("leaf") = {}
    /\ prep \notin {"new", "no"} => In("scope") \cap Foreign \subseteq late
    /\ (In("leaf") \cup toMove) \cap Foreign \subseteq late
    /\ toMove # {} => prep = "vacate"

\* The cgroup before Prepare.
LEMMA ScopeStart == ScopeInit => ScopeInv
  BY DEF ScopeInit, ScopeInv, ScopeTypeOK, In, Everyone

\* Every step of Prepare and of the processes keeps the invariant.
LEMMA ScopeStep == ScopeInv /\ [ScopeNext]_scopeVars => ScopeInv'
  <1> SUFFICES ASSUME ScopeInv, [ScopeNext]_scopeVars PROVE ScopeInv'
    OBVIOUS
  <1>1. CASE Usable
    BY <1>1 DEF Usable, ScopeInv, ScopeTypeOK, In
  <1>2. CASE ReadMembers
    BY <1>2 DEF ReadMembers, ScopeInv, ScopeTypeOK, In
  <1>3. CASE Vacated
    BY <1>3 DEF Vacated, ScopeInv, ScopeTypeOK, In
  <1>4. CASE Enable
    BY <1>4 DEF Enable, ScopeInv, ScopeTypeOK, In
  <1>5. ASSUME NEW p \in Everyone, MoveMember(p) PROVE ScopeInv'
    BY <1>5 DEF MoveMember, ScopeInv, ScopeTypeOK, In
  <1>6. ASSUME NEW p \in Everyone, EndsProc(p) PROVE ScopeInv'
    BY <1>6 DEF EndsProc, ScopeInv, ScopeTypeOK, In
  <1>7. ASSUME NEW p \in Everyone, Enters(p) PROVE ScopeInv'
    BY <1>7 DEF Enters, ScopeInv, ScopeTypeOK, In
  <1>8. ASSUME NEW k \in Kids, ForkKid(k) PROVE ScopeInv'
    BY <1>8 DEF ForkKid, ScopeInv, ScopeTypeOK, In, Everyone
  <1>9. CASE UNCHANGED scopeVars
    BY <1>9 DEF scopeVars, ScopeInv, ScopeTypeOK, In
  <1> QED
    BY <1>1, <1>2, <1>3, <1>4, <1>5, <1>6, <1>7, <1>8, <1>9 DEF ScopeNext

\* The invariant says what the scope promises.
LEMMA ScopeInvIsKept == ScopeInv => ScopeKept
  BY DEF ScopeInv, ScopeKept

\* Prepare (cgroups/cgroups.go): while job cgroups can hold a limit the daemon's
\* own stays empty, however children are forked and others enter meanwhile, and
\* no process of somebody else is moved unless it came after Usable looked.
THEOREM ScopeStaysEmpty == ScopeSpec => []ScopeKept
  <1> QED
    BY ScopeStart, ScopeStep, ScopeInvIsKept, PTL DEF ScopeSpec

-----------------------------------------------------------------------------
(* The memory budget, and whom the watchdog kills.                          *)

Level == [total : Nat, used : Nat]

\* f[n] is the tightest of the first n levels.
Tightens(f, levels) ==
    /\ f[0] = [total |-> 0, used |-> 0]
    /\ \A n \in 1..Len(levels) :
         f[n] = IF f[n - 1].total = 0 \/ Remaining(levels[n]) < Remaining(f[n - 1])
                THEN levels[n] ELSE f[n - 1]

\* limitBudget is a recursion over the levels: there is a function that is it.
LEMMA BudgetIs ==
    ASSUME NEW levels \in Seq(Level)
    PROVE  \E f : Tightens(f, levels) /\ LimitBudget(levels) = f[Len(levels)]
<1> DEFINE None == [total |-> 0, used |-> 0]
           step == [n \in Nat |-> [b \in Level |->
                     IF n \in 1..Len(levels) /\ (b.total = 0 \/ Remaining(levels[n]) < Remaining(b))
                     THEN levels[n] ELSE b]]
           best == CHOOSE e : e = [n \in 0..Len(levels) |->
                     IF n = 0 THEN None
                     ELSE IF e[n - 1].total = 0 \/ Remaining(levels[n]) < Remaining(e[n - 1])
                          THEN levels[n] ELSE e[n - 1]]
<1>1. Len(levels) \in Nat /\ None \in Level /\ \A n \in 1..Len(levels) : levels[n] \in Level
  <2>1. Len(levels) \in Nat /\ \A n \in 1..Len(levels) : levels[n] \in Level
    OBVIOUS
  <2>2. None \in Level
    BY DEF Level
  <2> QED
    BY <2>1, <2>2
<1>2. step \in [Nat -> [Level -> Level]]
  BY <1>1
<1>3. \A n \in 1..Len(levels) : n \in Nat /\ n - 1 \in Nat /\ n - 1 \in 0..Len(levels) /\ n \in 0..Len(levels) /\ n # 0
  BY <1>1
<1>4. \A n \in 1..Len(levels) : \A b \in Level :
        step[n][b] = IF b.total = 0 \/ Remaining(levels[n]) < Remaining(b) THEN levels[n] ELSE b
  BY <1>3
<1> HIDE DEF step, None
<1>5. PICK f : RecursTo(f, Level, None, step, Len(levels))
  BY <1>1, <1>2, RecursionExists
<1> DEFINE h == [n \in 0..Len(levels) |-> f[n]]
<1>6. h = [n \in 0..Len(levels) |->
             IF n = 0 THEN None
             ELSE IF h[n - 1].total = 0 \/ Remaining(levels[n]) < Remaining(h[n - 1])
                  THEN levels[n] ELSE h[n - 1]]
  <2> SUFFICES ASSUME NEW n \in 0..Len(levels)
               PROVE  f[n] = IF n = 0 THEN None
                             ELSE IF h[n - 1].total = 0 \/ Remaining(levels[n]) < Remaining(h[n - 1])
                                  THEN levels[n] ELSE h[n - 1]
    OBVIOUS
  <2>1. CASE n = 0
    BY <1>5, <2>1 DEF RecursTo
  <2>2. CASE n # 0
    <3>1. n \in 1..Len(levels)
      BY <1>1, <2>2
    <3>2. h[n - 1] = f[n - 1] /\ f[n - 1] \in Level /\ f[n] = step[n][f[n - 1]]
      BY <1>3, <1>5, <3>1 DEF RecursTo
    <3> QED
      BY <1>4, <2>2, <3>1, <3>2
  <2> QED
    BY <2>1, <2>2
<1>7. best = [n \in 0..Len(levels) |->
                IF n = 0 THEN None
                ELSE IF best[n - 1].total = 0 \/ Remaining(levels[n]) < Remaining(best[n - 1])
                     THEN levels[n] ELSE best[n - 1]]
  <2> HIDE DEF h
  <2> QED
    BY <1>6
<1>8. LimitBudget(levels) = best[Len(levels)]
  BY DEF LimitBudget, None
<1> HIDE DEF best
<1>9. Tightens(best, levels)
  <2>1. best[0] = None
    BY <1>1, <1>7
  <2>2. ASSUME NEW n \in 1..Len(levels)
        PROVE  best[n] = IF best[n - 1].total = 0 \/ Remaining(levels[n]) < Remaining(best[n - 1])
                         THEN levels[n] ELSE best[n - 1]
    BY <1>3, <1>7
  <2> QED
    BY <2>1, <2>2 DEF Tightens, None
<1> QED
  BY <1>8, <1>9

\* A sequence over a set is one over a larger set.
LEMMA SeqIs ==
    ASSUME NEW S, NEW T, S \subseteq T, NEW s \in Seq(S)
    PROVE  s \in Seq(T) /\ Len(s) \in Nat /\ DOMAIN s = 1..Len(s) /\ \A n \in 1..Len(s) : s[n] \in S
OBVIOUS

\* limitBudget (cgroups/budget.go): of however many nested cgroups with a limit,
\* none has less left than the one the budget is read off.
THEOREM BudgetRight ==
    ASSUME NEW levels \in Seq([total : Nat \ {0}, used : Nat]), NEW i \in DOMAIN levels
    PROVE  Remaining(LimitBudget(levels)) <= Remaining(levels[i])
<1> DEFINE Real == [total : Nat \ {0}, used : Nat]
           len == Len(levels)
<1>1. len \in Nat /\ \A n \in 1..len : levels[n] \in Real /\ n - 1 \in Nat
  <2>1. len \in Nat /\ \A n \in 1..len : levels[n] \in Real
    <3>1. levels \in Seq(Real) /\ Real \subseteq Real
      OBVIOUS
    <3> HIDE DEF Real
    <3> QED
      BY <3>1, SeqIs
  <2>2. \A n \in 1..len : n - 1 \in Nat
    BY <2>1
  <2> QED
    BY <2>1, <2>2
<1>2. levels \in Seq(Level) /\ i \in 1..len
  <2>1. Real \subseteq Level
    BY DEF Level
  <2>2. levels \in Seq(Real)
    OBVIOUS
  <2> HIDE DEF Real
  <2> QED
    BY <2>1, <2>2, SeqIs
<1>3. PICK f : Tightens(f, levels) /\ LimitBudget(levels) = f[len]
  BY <1>2, BudgetIs
<1>4. \A b \in Real : Remaining(b) \in Nat /\ b.total # 0
  BY DEF Remaining
<1> DEFINE P == {n \in Nat : n <= len => /\ n # 0 => f[n] \in Real
                                         /\ \A j \in 1..n : Remaining(f[n]) <= Remaining(levels[j])}
<1>5. 0 \in P
  OBVIOUS
<1>6. ASSUME NEW n \in Nat, n \in P PROVE n + 1 \in P
  <2> SUFFICES ASSUME n + 1 <= len
               PROVE  /\ f[n + 1] \in Real
                      /\ \A j \in 1..(n + 1) : Remaining(f[n + 1]) <= Remaining(levels[j])
    OBVIOUS
  <2>1. /\ n + 1 \in 1..len /\ n <= len /\ (n + 1) - 1 = n
        /\ \A j \in 1..(n + 1) : j \in 1..n \/ j = n + 1
    <3>1. len \in Nat
      BY <1>1
    <3> HIDE DEF len
    <3>2. n + 1 \in 1..len /\ n <= len /\ (n + 1) - 1 = n
      BY <3>1
    <3>3. \A j \in 1..(n + 1) : j \in 1..n \/ j = n + 1
      OBVIOUS
    <3> QED
      BY <3>2, <3>3
  <2>2. /\ n # 0 => f[n] \in Real
        /\ \A j \in 1..n : Remaining(f[n]) <= Remaining(levels[j])
    BY <1>6, <2>1
  <2>3. f[n + 1] = IF f[n].total = 0 \/ Remaining(levels[n + 1]) < Remaining(f[n])
                   THEN levels[n + 1] ELSE f[n]
    BY <1>3, <2>1 DEF Tightens
  <2>4. levels[n + 1] \in Real
    BY <1>1, <2>1
  <2>5. \A j \in 1..n : Remaining(levels[j]) \in Nat
    <3>1. \A j \in 1..n : j \in 1..len
      BY <1>1, <2>1
    <3> QED
      BY <1>1, <1>4, <3>1
  <2>6. CASE n = 0
    <3>1. f[0].total = 0
      BY <1>3 DEF Tightens
    <3>2. f[n + 1] = levels[n + 1]
      BY <2>3, <2>6, <3>1
    <3> QED
      BY <1>4, <2>1, <2>4, <2>6, <3>2
  <2>7. CASE n # 0
    <3>1. Remaining(f[n]) \in Nat /\ f[n].total # 0 /\ Remaining(levels[n + 1]) \in Nat /\ f[n] \in Real
      BY <1>4, <2>2, <2>4, <2>7
    <3> HIDE DEF Real
    <3>2. CASE Remaining(levels[n + 1]) < Remaining(f[n])
      <4>1. f[n + 1] = levels[n + 1]
        BY <2>3, <3>2
      <4>2. \A j \in 1..n : Remaining(levels[n + 1]) <= Remaining(levels[j])
        BY <2>2, <2>5, <3>1, <3>2
      <4> QED
        BY <2>1, <2>4, <3>1, <4>1, <4>2
    <3>3. CASE ~(Remaining(levels[n + 1]) < Remaining(f[n]))
      <4>1. f[n + 1] = f[n]
        BY <2>3, <3>1, <3>3
      <4>2. Remaining(f[n]) <= Remaining(levels[n + 1])
        BY <3>1, <3>3
      <4> QED
        BY <2>1, <2>2, <3>1, <4>1, <4>2
    <3> QED
      BY <3>2, <3>3
  <2> QED
    BY <2>6, <2>7
<1> HIDE DEF P
<1>7. len \in P
  BY <1>1, <1>5, <1>6, SetInduction
<1>8. Remaining(f[len]) <= Remaining(levels[i])
  BY <1>1, <1>2, <1>7 DEF P
<1> QED
  BY <1>3, <1>8

\* The tree of a process, level by level: the ones with a parent among the
\* first n levels are in the first n + 1.
Parents == [1..Units -> 0..Units]
Below(parent, t) == t \cup {p \in 1..Units : parent[p] \in t}
Closed(parent, t) == \A p \in 1..Units : parent[p] \in t => p \in t
Spreads(f, parent, root) ==
    /\ f \in [0..Units -> SUBSET (1..Units)] /\ f[0] = {root}
    /\ \A n \in 1..Units : f[n] = Below(parent, f[n - 1])

\* What is used of the number of processes.
LEMMA UnitsIs ==
    /\ Units \in Nat /\ Units >= 1 /\ Units \in 0..Units /\ 0 \in 0..Units
    /\ \A n \in 1..Units : n \in Nat /\ n - 1 \in Nat /\ n - 1 \in 0..Units /\ n \in 0..Units /\ n # 0
    /\ IsFiniteSet(1..Units) /\ Cardinality(1..Units) = Units
<1>1. Units \in Nat /\ Units >= 1
  BY ScopeAssumption
<1>2. IsFiniteSet(1..Units) /\ Cardinality(1..Units) = IF 1 > Units THEN 0 ELSE Units - 1 + 1
  BY <1>1, FS_Interval
<1>3. (IF 1 > Units THEN 0 ELSE Units - 1 + 1) = Units
  BY <1>1
<1> QED
  BY <1>1, <1>2, <1>3

\* treeOf is a recursion over the rounds of the search.
LEMMA TreeIs ==
    ASSUME NEW parent \in Parents, NEW root \in 1..Units
    PROVE  \E f : Spreads(f, parent, root) /\ TreeOf(parent, root) = f[Units]
<1> DEFINE V == SUBSET (1..Units)
           step == [n \in Nat |-> [t \in V |-> Below(parent, t)]]
           seen == CHOOSE e : e = [n \in 0..Units |->
                     IF n = 0 THEN {root}
                     ELSE e[n - 1] \cup {p \in 1..Units : parent[p] \in e[n - 1]}]
<1>1. {root} \in V /\ \A t \in V : Below(parent, t) \in V
  BY DEF Below
<1>2. step \in [Nat -> [V -> V]]
  BY <1>1
<1>3. \A n \in Nat : \A t \in V : step[n][t] = Below(parent, t)
  OBVIOUS
<1> HIDE DEF step, V
<1>4. PICK f : RecursTo(f, V, {root}, step, Units)
  BY <1>1, <1>2, UnitsIs, RecursionExists
<1> DEFINE h == [n \in 0..Units |-> f[n]]
<1>5. h = [n \in 0..Units |->
             IF n = 0 THEN {root}
             ELSE h[n - 1] \cup {p \in 1..Units : parent[p] \in h[n - 1]}]
  <2> SUFFICES ASSUME NEW n \in 0..Units
               PROVE  f[n] = IF n = 0 THEN {root}
                             ELSE h[n - 1] \cup {p \in 1..Units : parent[p] \in h[n - 1]}
    OBVIOUS
  <2>1. CASE n = 0
    BY <1>4, <2>1 DEF RecursTo
  <2>2. CASE n # 0
    <3>1. n \in 1..Units
      BY UnitsIs, <2>2
    <3>2. h[n - 1] = f[n - 1] /\ f[n - 1] \in V /\ f[n] = step[n][f[n - 1]] /\ n \in Nat
      BY <1>4, <3>1, UnitsIs DEF RecursTo
    <3> QED
      BY <1>3, <2>2, <3>2 DEF Below
  <2> QED
    BY <2>1, <2>2
<1>6. seen = [n \in 0..Units |->
                IF n = 0 THEN {root}
                ELSE seen[n - 1] \cup {p \in 1..Units : parent[p] \in seen[n - 1]}]
  <2> HIDE DEF h
  <2> QED
    BY <1>5
<1>7. TreeOf(parent, root) = seen[Units]
  BY DEF TreeOf
<1> HIDE DEF seen
<1>8. seen[0] = {root}
  BY <1>6, UnitsIs
<1>9. \A n \in 1..Units : seen[n] = Below(parent, seen[n - 1])
  BY <1>6, UnitsIs DEF Below
<1>10. \A n \in 0..Units : seen[n] \in V
  <2>1. CASE TRUE
    <3> DEFINE P == {n \in Nat : n <= Units => seen[n] \in V}
    <3>1. 0 \in P
      BY <1>1, <1>8
    <3>2. ASSUME NEW n \in Nat, n \in P PROVE n + 1 \in P
      <4> SUFFICES ASSUME n + 1 <= Units PROVE seen[n + 1] \in V
        OBVIOUS
      <4>1. n + 1 \in 1..Units /\ n <= Units /\ (n + 1) - 1 = n
        BY UnitsIs
      <4> QED
        BY <1>1, <1>9, <3>2, <4>1
    <3> HIDE DEF P
    <3>3. Nat \subseteq P
      BY <3>1, <3>2, SetInduction
    <3>4. \A n \in 0..Units : n \in Nat /\ n <= Units
      BY UnitsIs
    <3> QED
      BY <3>3, <3>4 DEF P
  <2> QED
    BY <2>1
<1>11. seen \in [0..Units -> V]
  <2>1. seen = [n \in 0..Units |-> seen[n]]
    BY <1>6
  <2> QED
    BY <1>10, <2>1
<1> QED
  BY <1>7, <1>8, <1>9, <1>11 DEF Spreads, V

\* Each level adds a process or the tree is whole.
LEMMA SpreadGrows ==
    ASSUME NEW parent \in Parents, NEW root \in 1..Units, NEW f, Spreads(f, parent, root),
           NEW n \in 0..Units
    PROVE  /\ f[n] \subseteq 1..Units /\ IsFiniteSet(f[n]) /\ Cardinality(f[n]) \in Nat
           /\ Closed(parent, f[n]) \/ Cardinality(f[n]) >= n + 1
<1>0. \A k \in 0..Units : f[k] \subseteq 1..Units /\ IsFiniteSet(f[k]) /\ Cardinality(f[k]) \in Nat
  <2>1. \A k \in 0..Units : f[k] \subseteq 1..Units
    BY DEF Spreads
  <2> QED
    BY <2>1, UnitsIs, FS_Subset, FS_CardinalityType
<1> DEFINE P == {k \in Nat : k <= Units => Closed(parent, f[k]) \/ Cardinality(f[k]) >= k + 1}
<1>1. 0 \in P
  <2>1. Cardinality(f[0]) = 1
    BY FS_Singleton DEF Spreads
  <2> QED
    BY <2>1
<1>2. ASSUME NEW k \in Nat, k \in P PROVE k + 1 \in P
  <2> SUFFICES ASSUME k + 1 <= Units
               PROVE  Closed(parent, f[k + 1]) \/ Cardinality(f[k + 1]) >= (k + 1) + 1
    OBVIOUS
  <2>1. k + 1 \in 1..Units /\ k <= Units /\ (k + 1) - 1 = k /\ k \in 0..Units /\ k + 1 \in 0..Units
    BY UnitsIs
  <2>2. f[k + 1] = Below(parent, f[k])
    BY <2>1 DEF Spreads
  <2>3. CASE Closed(parent, f[k])
    BY <2>2, <2>3 DEF Closed, Below
  <2>4. CASE ~Closed(parent, f[k])
    <3>1. PICK p \in 1..Units : parent[p] \in f[k] /\ p \notin f[k]
      BY <2>4 DEF Closed
    <3>2. f[k] \cup {p} \subseteq f[k + 1]
      BY <2>2, <3>1 DEF Below
    <3>3. IsFiniteSet(f[k] \cup {p}) /\ Cardinality(f[k] \cup {p}) = Cardinality(f[k]) + 1
      BY <1>0, <2>1, <3>1, FS_AddElement
    <3>4. Cardinality(f[k] \cup {p}) <= Cardinality(f[k + 1])
      BY <1>0, <2>1, <3>2, FS_Subset
    <3>5. Cardinality(f[k]) >= k + 1
      BY <1>2, <2>1, <2>4
    <3>6. Cardinality(f[k]) \in Nat /\ Cardinality(f[k + 1]) \in Nat
      BY <1>0, <2>1
    <3> QED
      BY <3>3, <3>4, <3>5, <3>6
  <2> QED
    BY <2>3, <2>4
<1> HIDE DEF P
<1>3. Nat \subseteq P
  BY <1>1, <1>2, SetInduction
<1>4. n \in Nat /\ n <= Units
  BY UnitsIs
<1> QED
  BY <1>0, <1>3, <1>4 DEF P

\* So all levels are the whole of it: who has a parent in the tree is in it.
LEMMA TreeWhole ==
    ASSUME NEW parent \in Parents, NEW root \in 1..Units, NEW f, Spreads(f, parent, root)
    PROVE  /\ Closed(parent, f[Units])
           /\ \A t \in SUBSET (1..Units) : root \in t /\ Closed(parent, t) =>
                 \A n \in 0..Units : f[n] \subseteq t
           /\ \A n \in 0..Units : root \in f[n]
           /\ \A n \in 0..Units : f[n] \subseteq f[Units]
<1>1. Closed(parent, f[Units])
  <2>1. /\ f[Units] \subseteq 1..Units /\ Cardinality(f[Units]) \in Nat
        /\ Closed(parent, f[Units]) \/ Cardinality(f[Units]) >= Units + 1
    BY UnitsIs, SpreadGrows
  <2>2. Cardinality(f[Units]) <= Units
    BY <2>1, UnitsIs, FS_Subset
  <2> QED
    BY <2>1, <2>2, UnitsIs
<1>2. ASSUME NEW t \in SUBSET (1..Units), root \in t, Closed(parent, t), NEW n \in 0..Units
      PROVE  f[n] \subseteq t
  <2> DEFINE P == {k \in Nat : k <= Units => f[k] \subseteq t}
  <2>1. 0 \in P
    BY <1>2 DEF Spreads
  <2>2. ASSUME NEW k \in Nat, k \in P PROVE k + 1 \in P
    <3> SUFFICES ASSUME k + 1 <= Units PROVE f[k + 1] \subseteq t
      OBVIOUS
    <3>1. k + 1 \in 1..Units /\ k <= Units /\ (k + 1) - 1 = k
      BY UnitsIs
    <3>2. f[k + 1] = Below(parent, f[k]) /\ f[k] \subseteq t
      BY <2>2, <3>1 DEF Spreads
    <3> QED
      BY <1>2, <3>2 DEF Below, Closed
  <2> HIDE DEF P
  <2>3. Nat \subseteq P
    BY <2>1, <2>2, SetInduction
  <2>4. n \in Nat /\ n <= Units
    BY UnitsIs
  <2> QED
    BY <2>3, <2>4 DEF P
<1>3. ASSUME NEW n \in 0..Units PROVE root \in f[n]
  <2> DEFINE P == {k \in Nat : k <= Units => root \in f[k]}
  <2>1. 0 \in P
    BY DEF Spreads
  <2>2. ASSUME NEW k \in Nat, k \in P PROVE k + 1 \in P
    <3> SUFFICES ASSUME k + 1 <= Units PROVE root \in f[k + 1]
      OBVIOUS
    <3>1. k + 1 \in 1..Units /\ k <= Units /\ (k + 1) - 1 = k
      BY UnitsIs
    <3>2. f[k + 1] = Below(parent, f[k]) /\ root \in f[k]
      BY <2>2, <3>1 DEF Spreads
    <3> QED
      BY <3>2 DEF Below
  <2> HIDE DEF P
  <2>3. Nat \subseteq P
    BY <2>1, <2>2, SetInduction
  <2>4. n \in Nat /\ n <= Units
    BY UnitsIs
  <2> QED
    BY <2>3, <2>4 DEF P
<1>4. root \in f[Units] /\ f[Units] \in SUBSET (1..Units)
  BY <1>3, UnitsIs DEF Spreads
<1> QED
  BY <1>1, <1>2, <1>3, <1>4

\* The steps up from a process, as far as its tree goes.
Climbs(g, parent, tree, p, c) ==
    /\ g \in [0..c -> 0..Units] /\ g[0] = p
    /\ \A n \in 1..c : g[n] = IF g[n - 1] \in tree THEN parent[g[n - 1]] ELSE 0

\* What is used of a number of steps.
LEMMA StepsAre ==
    ASSUME NEW c \in Nat
    PROVE  /\ 0 \in 0..c /\ c \in 0..c
           /\ \A n \in 1..c : n \in Nat /\ n - 1 \in Nat /\ n - 1 \in 0..c /\ n \in 0..c /\ n # 0
           /\ \A n \in 0..c : n \in Nat /\ n <= c /\ (n # 0 => n \in 1..c)
OBVIOUS

\* ancestorsOf is a recursion over the steps up.
LEMMA ClimbIs ==
    ASSUME NEW parent \in Parents, NEW tree \in SUBSET (1..Units), NEW p \in 0..Units
    PROVE  /\ Cardinality(tree) \in Nat
           /\ \E g : /\ Climbs(g, parent, tree, p, Cardinality(tree))
                     /\ AncestorsOf(parent, tree, p) = {g[n] : n \in 1..Cardinality(tree)}
<1>0. Cardinality(tree) \in Nat
  BY UnitsIs, FS_Subset, FS_CardinalityType
<1> DEFINE V == 0..Units
           step == [n \in Nat |-> [q \in V |-> IF q \in tree THEN parent[q] ELSE 0]]
           up == CHOOSE e : e = [n \in 0..Cardinality(tree) |->
                     IF n = 0 THEN p ELSE IF e[n - 1] \in tree THEN parent[e[n - 1]] ELSE 0]
           c == Cardinality(tree)
<1>1. p \in V /\ \A q \in V : (IF q \in tree THEN parent[q] ELSE 0) \in V
  BY UnitsIs DEF Parents
<1>2. step \in [Nat -> [V -> V]]
  BY <1>1
<1>3. \A n \in Nat : \A q \in V : step[n][q] = IF q \in tree THEN parent[q] ELSE 0
  OBVIOUS
<1>4. /\ 0 \in 0..c /\ c \in 0..c
      /\ \A n \in 1..c : n \in Nat /\ n - 1 \in Nat /\ n - 1 \in 0..c /\ n \in 0..c /\ n # 0
      /\ \A n \in 0..c : n \in Nat /\ n <= c /\ (n # 0 => n \in 1..c)
  BY <1>0, StepsAre
<1> HIDE DEF step, V
<1>5. PICK f : RecursTo(f, V, p, step, c)
  BY <1>0, <1>1, <1>2, RecursionExists
<1> DEFINE h == [n \in 0..c |-> f[n]]
<1>6. h = [n \in 0..c |->
             IF n = 0 THEN p ELSE IF h[n - 1] \in tree THEN parent[h[n - 1]] ELSE 0]
  <2> SUFFICES ASSUME NEW n \in 0..c
               PROVE  f[n] = IF n = 0 THEN p
                             ELSE IF h[n - 1] \in tree THEN parent[h[n - 1]] ELSE 0
    OBVIOUS
  <2>1. CASE n = 0
    BY <1>5, <2>1 DEF RecursTo
  <2>2. CASE n # 0
    <3>1. n \in 1..c
      BY <1>4, <2>2
    <3>2. h[n - 1] = f[n - 1] /\ f[n - 1] \in V /\ f[n] = step[n][f[n - 1]] /\ n \in Nat
      BY <1>4, <1>5, <3>1 DEF RecursTo
    <3> QED
      BY <1>3, <2>2, <3>2
  <2> QED
    BY <2>1, <2>2
<1>7. up = [n \in 0..c |->
              IF n = 0 THEN p ELSE IF up[n - 1] \in tree THEN parent[up[n - 1]] ELSE 0]
  <2> HIDE DEF h
  <2> QED
    BY <1>6
<1>8. AncestorsOf(parent, tree, p) = {up[n] : n \in 1..c}
  BY DEF AncestorsOf
<1> HIDE DEF up
<1>9. up[0] = p
  BY <1>4, <1>7
<1>10. \A n \in 1..c : up[n] = IF up[n - 1] \in tree THEN parent[up[n - 1]] ELSE 0
  BY <1>4, <1>7
<1>11. \A n \in 0..c : up[n] \in V
  <2>1. ASSUME NEW n \in 0..c PROVE up[n] \in V
    <3>1. CASE n = 0
      BY <1>1, <1>9, <3>1
    <3>2. CASE n # 0
      <4>1. n \in 1..c
        BY <1>4, <3>2
      <4>2. up[n] = parent[up[n - 1]] \/ up[n] = 0
        BY <1>10, <4>1
      <4>3. up[n - 1] \in tree => parent[up[n - 1]] \in V
        BY DEF Parents, V
      <4>4. 0 \in V
        BY UnitsIs DEF V
      <4> QED
        BY <1>10, <4>1, <4>3, <4>4
    <3> QED
      BY <3>1, <3>2
  <2> QED
    BY <2>1
<1>12. up \in [0..c -> V]
  <2>1. up = [n \in 0..c |-> up[n]]
    BY <1>7
  <2> QED
    BY <1>11, <2>1
<1>13. Climbs(up, parent, tree, p, c)
  BY <1>9, <1>10, <1>12 DEF Climbs, V
<1> QED
  BY <1>0, <1>8, <1>13

\* A process that climbs to a root of a job is in the job's tree ...
LEMMA ClimbsInto ==
    ASSUME NEW parent \in Parents, NEW tree \in SUBSET (1..Units), NEW t \in SUBSET (1..Units),
           Closed(parent, t), NEW p, NEW c \in Nat, NEW g, Climbs(g, parent, tree, p, c),
           NEW n \in 0..c, g[n] \in t
    PROVE  p \in t
<1> DEFINE P == {k \in Nat : k <= n => g[n - k] \in t}
<1>0. n \in Nat /\ n <= c
  BY StepsAre
<1>1. 0 \in P
  BY <1>0
<1>2. ASSUME NEW k \in Nat, k \in P PROVE k + 1 \in P
  <2> SUFFICES ASSUME k + 1 <= n PROVE g[n - (k + 1)] \in t
    OBVIOUS
  <2>1. k <= n /\ n - k \in 1..c /\ (n - k) - 1 = n - (k + 1)
    BY <1>0
  <2> DEFINE q == g[n - (k + 1)]
  <2>2. g[n - k] \in t /\ g[n - k] = IF q \in tree THEN parent[q] ELSE 0
    BY <1>2, <2>1 DEF Climbs
  <2>3. 0 \notin t
    BY UnitsIs
  <2>4. q \in tree /\ parent[q] \in t
    BY <2>2, <2>3
  <2> QED
    BY <2>4 DEF Closed
<1> HIDE DEF P
<1>3. n \in P
  BY <1>0, <1>1, <1>2, SetInduction
<1>4. g[0] \in t
  <2>1. n - n = 0
    BY <1>0
  <2> QED
    BY <1>0, <1>3, <2>1 DEF P
<1> QED
  BY <1>4 DEF Climbs

\* ... and one in the job's tree climbs to its root before the steps run out.
LEMMA ClimbsToRoot ==
    ASSUME NEW parent \in Parents, NEW tree \in SUBSET (1..Units), NEW root \in 1..Units,
           root \in tree, Closed(parent, tree),
           NEW f, Spreads(f, parent, root), NEW p \in f[Units], p # root,
           NEW g, Climbs(g, parent, tree, p, Cardinality(tree))
    PROVE  \E n \in 1..Cardinality(tree) : g[n] = root
<1> DEFINE c == Cardinality(tree)
           S == {n \in 0..Units : p \in f[n]}
<1>0. c \in Nat /\ IsFiniteSet(tree)
  BY UnitsIs, FS_Subset, FS_CardinalityType
<1>1. PICK n \in S : \A k \in S : n <= k
  <2>1. S \subseteq Nat /\ Units \in S
    BY UnitsIs
  <2> HIDE DEF S
  <2> QED
    BY <2>1, LeastExists
<1>2. n \in 0..Units /\ n \in Nat /\ p \in f[n] /\ n <= Units
  BY <1>1, UnitsIs
<1>3. n # 0
  BY <1>2 DEF Spreads
<1>4. n \in 1..Units /\ n - 1 \in 0..Units /\ n - 1 \in Nat
  BY <1>2, <1>3, UnitsIs
<1>5. p \notin f[n - 1]
  <2>1. ~(n <= n - 1)
    BY <1>2
  <2> QED
    BY <1>1, <1>4, <2>1
<1>6. \A k \in 0..Units : f[k] \subseteq tree
  BY TreeWhole
<1>7. n <= c
  <2>1. f[n] = Below(parent, f[n - 1])
    BY <1>4 DEF Spreads
  <2>2. ~Closed(parent, f[n - 1])
    BY <1>2, <1>4, <1>5, <2>1 DEF Closed, Below, Spreads
  <2>3. Cardinality(f[n - 1]) >= (n - 1) + 1 /\ Cardinality(f[n - 1]) \in Nat
    BY <1>4, <2>2, SpreadGrows
  <2>4. Cardinality(f[n - 1]) <= c
    BY <1>0, <1>4, <1>6, FS_Subset
  <2> HIDE DEF c
  <2> QED
    BY <1>0, <1>2, <2>3, <2>4
<1> HIDE DEF c, S
<1> DEFINE P == {k \in Nat : k <= n => /\ g[k] \in f[n - k]
                                       /\ n - k # 0 => g[k] \notin f[(n - k) - 1]}
<1>8. 0 \in P
  <2>1. n - 0 = n /\ g[0] = p
    BY <1>2 DEF Climbs
  <2> QED
    BY <1>2, <1>5, <2>1
<1>9. ASSUME NEW k \in Nat, k \in P PROVE k + 1 \in P
  <2> SUFFICES ASSUME k + 1 <= n
               PROVE  /\ g[k + 1] \in f[n - (k + 1)]
                      /\ n - (k + 1) # 0 => g[k + 1] \notin f[(n - (k + 1)) - 1]
    OBVIOUS
  <2>1. /\ k <= n /\ n - k \in 1..Units /\ (n - k) - 1 = n - (k + 1) /\ n - k # 0
        /\ k + 1 \in 1..c /\ (k + 1) - 1 = k /\ n - k \in 0..Units /\ n - (k + 1) \in 0..Units
        /\ n - (k + 1) # 0 => n - (k + 1) \in 1..Units
    <3>1. Units \in Nat
      BY UnitsIs
    <3> QED
      BY <1>0, <1>2, <1>7, <3>1
  <2> DEFINE q == g[k]
             m == n - (k + 1)
  <2>2. q \in f[n - k] /\ q \notin f[m]
    BY <1>9, <2>1
  <2>3. q \in tree
    BY <1>6, <2>1, <2>2
  <2>4. g[k + 1] = parent[q]
    BY <2>1, <2>3 DEF Climbs, c
  <2>5. f[n - k] = Below(parent, f[m])
    BY <2>1 DEF Spreads
  <2>6. parent[q] \in f[m]
    BY <2>2, <2>5 DEF Below
  <2>7. m # 0 => parent[q] \notin f[m - 1]
    <3> SUFFICES ASSUME m # 0, parent[q] \in f[m - 1] PROVE FALSE
      OBVIOUS
    <3>1. m \in 1..Units
      BY <2>1
    <3>2. f[m] = Below(parent, f[m - 1])
      BY <3>1 DEF Spreads
    <3> QED
      BY <2>2, <2>3, <3>2 DEF Below
  <2> QED
    BY <2>4, <2>6, <2>7
<1> HIDE DEF P
<1>10. n \in P
  BY <1>2, <1>8, <1>9, SetInduction
<1>11. g[n] \in f[0]
  <2>1. n - n = 0
    BY <1>2
  <2> QED
    BY <1>2, <1>10, <2>1 DEF P
<1>12. n \in 1..c
  BY <1>0, <1>2, <1>3, <1>7
<1> QED
  BY <1>11, <1>12 DEF Spreads, c

\* TakeWatchdogKill (cgroups/watchdog.go): whatever the snapshot of the processes
\* looks like, the job whose root is a child of the daemon claims exactly the
\* victims of its tree.
THEOREM ClaimRight ==
    ASSUME NEW parent \in Parents, NEW root \in 1..Units, parent[root] = 1,
           NEW v \in TreeOf(parent, 1)
    PROVE  Claims(parent, root, v) <=> v \in TreeOf(parent, root)
<1>1. 1 \in 1..Units
  BY UnitsIs
<1>2. PICK d : Spreads(d, parent, 1) /\ TreeOf(parent, 1) = d[Units]
  BY <1>1, TreeIs
<1>3. PICK f : Spreads(f, parent, root) /\ TreeOf(parent, root) = f[Units]
  BY TreeIs
<1> DEFINE tree == TreeOf(parent, 1)
           t == TreeOf(parent, root)
<1>4. tree \in SUBSET (1..Units) /\ t \in SUBSET (1..Units) /\ v \in 0..Units
  BY <1>2, <1>3, UnitsIs DEF Spreads
<1>5. Closed(parent, tree) /\ Closed(parent, t) /\ 1 \in tree /\ root \in t
  BY <1>1, <1>2, <1>3, TreeWhole, UnitsIs
<1>6. root \in tree
  BY <1>5 DEF Closed
<1>7. v \in tree
  OBVIOUS
<1>8. Claims(parent, root, v) <=> v = root \/ root \in AncestorsOf(parent, tree, v)
  BY DEF Claims
<1>9. v \in t => v \in f[Units]
  BY <1>3
<1> HIDE DEF tree, t
<1>10. PICK g : /\ Climbs(g, parent, tree, v, Cardinality(tree))
                /\ AncestorsOf(parent, tree, v) = {g[n] : n \in 1..Cardinality(tree)}
                /\ Cardinality(tree) \in Nat
  BY <1>4, ClimbIs
<1>11. ASSUME v \in t PROVE v = root \/ root \in AncestorsOf(parent, tree, v)
  <2> SUFFICES ASSUME v # root PROVE \E n \in 1..Cardinality(tree) : g[n] = root
    BY <1>10
  <2>1. v \in f[Units] /\ v # root /\ Spreads(f, parent, root)
    BY <1>3, <1>9, <1>11
  <2>2. tree \in SUBSET (1..Units) /\ root \in tree /\ Closed(parent, tree)
    BY <1>4, <1>5, <1>6
  <2>3. Climbs(g, parent, tree, v, Cardinality(tree))
    BY <1>10
  <2> QED
    BY <2>1, <2>2, <2>3, ClimbsToRoot
<1>12. ASSUME root \in AncestorsOf(parent, tree, v) PROVE v \in t
  <2>1. PICK n \in 1..Cardinality(tree) : g[n] = root
    BY <1>10, <1>12
  <2>2. n \in 0..Cardinality(tree) /\ g[n] \in t
    BY <1>5, <1>10, <2>1, StepsAre
  <2> QED
    BY <1>4, <1>5, <1>10, <2>2, ClimbsInto
<1> QED
  BY <1>5, <1>8, <1>11, <1>12 DEF t

\* limitBudget, pickVictim and TakeWatchdogKill, whatever levels and processes
\* there are.
LEMMA CeilingHolds == CeilingIsRight
<1>1. ASSUME NEW levels \in BoundedSeq(LevelsOf, 2), NEW i \in DOMAIN levels
      PROVE  Remaining(LimitBudget(levels)) <= Remaining(levels[i])
  <2>1. LevelsOf \subseteq [total : Nat \ {0}, used : Nat]
    BY UnitsIs DEF LevelsOf
  <2>2. levels \in Seq(LevelsOf)
    <3>1. PICK n \in 0..2 : levels \in [1..n -> LevelsOf]
      BY DEF BoundedSeq, SeqOf
    <3>2. n \in Nat
      OBVIOUS
    <3> QED
      BY <3>1, <3>2
  <2>3. levels \in Seq([total : Nat \ {0}, used : Nat])
    BY <2>1, <2>2, SeqIs
  <2> QED
    BY <2>3, BudgetRight
<1>2. ASSUME NEW parent \in {p \in [1..Units -> 0..Units] : p[1] = 0}, NEW share \in [1..Units -> 0..2],
             NEW v \in PickVictims(parent, share, 2)
      PROVE  /\ v # 1
             /\ \A root \in (2..Units) : parent[root] = 1 =>
                  (Claims(parent, root, v) <=> v \in TreeOf(parent, root))
  <2>1. v \in TreeOf(parent, 1) \ {1} /\ parent \in Parents
    BY DEF PickVictims, Parents
  <2>2. \A root \in 2..Units : root \in 1..Units
    BY UnitsIs
  <2> QED
    BY <2>1, <2>2, ClaimRight
<1> QED
  BY <1>1, <1>2 DEF CeilingIsRight

-----------------------------------------------------------------------------
(* What the daemons of a machine promise of its memory.                     *)

Over == {r \in Leased : request[r].over}
Clear == {r \in Leased : ~request[r].blind}

\* A set of leases within two limits, but for one in over that is all of it.
Bounded(these, over, most, share) ==
    \/ Cardinality(UnitsOf(these)) <= most /\ Cardinality(UnitsOf(these)) <= share
    \/ \E r \in these : r \in over /\ Cardinality(UnitsOf(these)) = Wants[r]

\* PromisesHold, with its last part about the leases granted on an answer that
\* was right: those stay within the machine whatever the others do, and when
\* a lease granted blindly goes they are all there is.
PromiseInv ==
    /\ PromiseTypeOK
    /\ \A d \in Mates : Bounded(Granted(d), Over, Memory, Share[d])
    /\ Bounded(Clear, Over, Memory, Memory)

\* Which leases are which.
LEMMA LeasesAre ==
    /\ Leased \subseteq Asking /\ Over \subseteq Leased /\ Clear \subseteq Leased
    /\ \A d : Granted(d) \subseteq Leased
BY DEF Leased, Over, Clear, Granted

\* Finitely many leases have finitely many units.
LEMMA UnitsAre ==
    ASSUME NEW S, S \subseteq Asking
    PROVE  IsFiniteSet(UnitsOf(S)) /\ Cardinality(UnitsOf(S)) \in Nat
<1> DEFINE F == {{r} \X (1..Wants[r]) : r \in S}
<1>1. IsFiniteSet(F)
  <2> DEFINE f == [r \in S |-> {r} \X (1..Wants[r])]
  <2>1. f \in Surjection(S, F)
    BY DEF Surjection
  <2>2. IsFiniteSet(S)
    BY PromiseAssumption, FS_Subset
  <2> HIDE DEF f, F
  <2> QED
    BY <2>1, <2>2, FS_Surjection
<1>2. ASSUME NEW r \in S PROVE IsFiniteSet({r} \X (1..Wants[r]))
  <2>1. Wants[r] \in Int
    BY PromiseAssumption
  <2>2. IsFiniteSet(1..Wants[r])
    BY <2>1, FS_Interval
  <2>3. IsFiniteSet({r})
    BY FS_Singleton
  <2> QED
    BY <2>2, <2>3, FS_Product
<1>3. \A s \in F : IsFiniteSet(s)
  BY <1>2
<1> HIDE DEF F
<1>4. IsFiniteSet(UNION F)
  BY <1>1, <1>3, FS_UNION
<1> QED
  BY <1>4, FS_CardinalityType DEF UnitsOf, F

\* Fewer leases, no more units.
LEMMA UnitsLess ==
    ASSUME NEW S, NEW T, S \subseteq T, T \subseteq Asking
    PROVE  /\ Cardinality(UnitsOf(S)) <= Cardinality(UnitsOf(T))
           /\ Cardinality(UnitsOf(S)) \in Nat /\ Cardinality(UnitsOf(T)) \in Nat
<1>1. UnitsOf(S) \subseteq UnitsOf(T)
  BY DEF UnitsOf
<1> QED
  BY <1>1, UnitsAre, FS_Subset

\* The units of leases apart add up.
LEMMA UnitsApart ==
    ASSUME NEW S, NEW T, S \subseteq Asking, T \subseteq Asking, S \cap T = {}
    PROVE  /\ Cardinality(UnitsOf(S \cup T)) = Cardinality(UnitsOf(S)) + Cardinality(UnitsOf(T))
           /\ Cardinality(UnitsOf(S)) \in Nat /\ Cardinality(UnitsOf(T)) \in Nat
<1>1. UnitsOf(S \cup T) = UnitsOf(S) \cup UnitsOf(T) /\ UnitsOf(S) \cap UnitsOf(T) = {}
  BY DEF UnitsOf
<1>2. /\ IsFiniteSet(UnitsOf(S)) /\ IsFiniteSet(UnitsOf(T))
      /\ Cardinality(UnitsOf(S)) \in Nat /\ Cardinality(UnitsOf(T)) \in Nat
  BY UnitsAre
<1>3. Cardinality(UnitsOf(S) \cup UnitsOf(T))
        = Cardinality(UnitsOf(S)) + Cardinality(UnitsOf(T)) - Cardinality(UnitsOf(S) \cap UnitsOf(T))
  BY <1>2, FS_Union
<1>4. Cardinality(UnitsOf(S) \cap UnitsOf(T)) = 0
  BY <1>1, FS_EmptySet
<1> DEFINE a == Cardinality(UnitsOf(S))
           b == Cardinality(UnitsOf(T))
<1>5. Cardinality(UnitsOf(S) \cup UnitsOf(T)) = a + b - 0
  BY <1>3, <1>4
<1>6. a + b - 0 = a + b
  <2> HIDE DEF a, b
  <2> QED
    BY <1>2 DEF a, b
<1> QED
  BY <1>1, <1>2, <1>5, <1>6

\* A lease has the units it was granted.
LEMMA UnitsOne ==
    ASSUME NEW r \in Asking
    PROVE  Cardinality(UnitsOf({r})) = Wants[r] /\ Wants[r] \in Nat
<1>1. Wants[r] \in Nat
  BY PromiseAssumption
<1>2. UnitsOf({r}) = {r} \X (1..Wants[r])
  BY DEF UnitsOf
<1>3. IsFiniteSet({r}) /\ Cardinality({r}) = 1
  BY FS_Singleton
<1>4. IsFiniteSet(1..Wants[r]) /\ Cardinality(1..Wants[r]) = Wants[r]
  <2> DEFINE w == Wants[r]
  <2>1. 1 \in Int /\ w \in Int
    BY <1>1
  <2> HIDE DEF w
  <2>2. IsFiniteSet(1..w) /\ Cardinality(1..w) = IF 1 > w THEN 0 ELSE w - 1 + 1
    BY <2>1, FS_Interval
  <2>3. w \in Nat
    BY <1>1 DEF w
  <2>4. (IF 1 > w THEN 0 ELSE w - 1 + 1) = w
    BY <2>3
  <2> QED
    BY <2>2, <2>4 DEF w
<1>5. Cardinality({r} \X (1..Wants[r])) = Cardinality({r}) * Cardinality(1..Wants[r])
  BY <1>3, <1>4, FS_Product
<1>6. 1 * Wants[r] = Wants[r]
  BY <1>1
<1> QED
  BY <1>1, <1>2, <1>3, <1>4, <1>5, <1>6

\* A lease more.
LEMMA UnitsMore ==
    ASSUME NEW S, S \subseteq Asking, NEW r \in Asking, r \notin S
    PROVE  Cardinality(UnitsOf(S \cup {r})) = Cardinality(UnitsOf(S)) + Wants[r]
<1>1. Cardinality(UnitsOf(S \cup {r})) = Cardinality(UnitsOf(S)) + Cardinality(UnitsOf({r}))
  BY UnitsApart
<1> QED
  BY <1>1, UnitsOne

\* A lease that goes takes nothing from the rest.
LEMMA HeldLess ==
    ASSUME NEW S, S \subseteq Asking, NEW r \in S, NEW O, NEW O2,
           NEW most \in Nat, NEW share \in Nat, Bounded(S, O, most, share),
           \A q \in S \ {r} : q \in O => q \in O2
    PROVE  Bounded(S \ {r}, O2, most, share)
<1> DEFINE c == Cardinality(UnitsOf(S))
           k == Cardinality(UnitsOf(S \ {r}))
<1>1. c = k + Wants[r] /\ c \in Nat /\ k \in Nat /\ Wants[r] \in Nat
  <2>1. (S \ {r}) \cup {r} = S
    OBVIOUS
  <2>2. Cardinality(UnitsOf((S \ {r}) \cup {r})) = k + Wants[r]
    BY UnitsMore
  <2> QED
    BY <2>1, <2>2, UnitsAre, UnitsOne
<1>2. CASE c <= most /\ c <= share
  <2> HIDE DEF c, k
  <2>1. k <= most /\ k <= share
    BY <1>1, <1>2
  <2> QED
    BY <2>1 DEF Bounded, k
<1>3. CASE \E q \in S : q \in O /\ c = Wants[q]
  <2>1. PICK q \in S : q \in O /\ c = Wants[q]
    BY <1>3
  <2>2. CASE q = r
    <3> HIDE DEF c, k
    <3>1. k <= most /\ k <= share
      BY <1>1, <2>1, <2>2
    <3> QED
      BY <3>1 DEF Bounded, k
  <2>3. CASE q # r
    <3>1. Wants[q] <= k
      <4>1. {q} \subseteq S \ {r}
        BY <2>3
      <4>2. Cardinality(UnitsOf({q})) <= k
        BY <4>1, UnitsLess
      <4> QED
        BY <4>2, UnitsOne
    <3>2. k = Wants[q]
      <4> HIDE DEF c, k
      <4>1. Wants[q] \in Nat
        BY UnitsOne
      <4> QED
        BY <1>1, <2>1, <3>1, <4>1
    <3> HIDE DEF k
    <3> QED
      BY <2>1, <2>3, <3>2 DEF Bounded, k
  <2> QED
    BY <2>2, <2>3
<1> QED
  BY <1>2, <1>3 DEF Bounded

\* A lease that asks nothing.
LEMMA HeldSame ==
    ASSUME NEW S, S \subseteq Asking, NEW r \in Asking, r \notin S, Wants[r] = 0, NEW O, NEW O2,
           NEW most \in Nat, NEW share \in Nat, Bounded(S, O, most, share),
           \A q \in S : q \in O => q \in O2
    PROVE  Bounded(S \cup {r}, O2, most, share)
<1>1. Cardinality(UnitsOf(S \cup {r})) = Cardinality(UnitsOf(S))
  <2>1. Cardinality(UnitsOf(S)) \in Nat
    BY UnitsAre
  <2> QED
    BY <2>1, UnitsMore
<1> QED
  BY <1>1 DEF Bounded

\* Steps in which no lease comes or goes.
LEMMA SameLeases ==
    ASSUME PromiseInv, PromiseTypeOK',
           \A r \in Asking : IF request[r].pc = "granted" THEN request'[r] = request[r]
                             ELSE request'[r].pc # "granted"
    PROVE  PromiseInv'
<1>1. Leased' = Leased
  BY DEF Leased
<1>2. Over' = Over /\ Clear' = Clear
  BY <1>1 DEF Leased, Over, Clear
<1>3. \A d : Granted(d)' = Granted(d)
  BY <1>1 DEF Granted
<1> QED
  BY <1>2, <1>3 DEF PromiseInv, Bounded, UnitsOf

\* What a daemon and its mates promise are numbers.
LEMMA PromisedIs ==
    ASSUME NEW d
    PROVE  Promised(d) \in Nat /\ PromisedBeside(d) \in Nat
<1>1. Granted(d) \subseteq Asking /\ Leased \ Granted(d) \subseteq Asking
  BY LeasesAre
<1> QED
  BY <1>1, UnitsAre DEF Promised, PromisedBeside

\* What is available is nothing or what both bounds leave.
LEMMA AvailableIs ==
    ASSUME PromiseTypeOK, NEW r \in Asking
    PROVE  /\ Available(r) \in Nat
           /\ Available(r) > 0 =>
                /\ Available(r) <= Share[AskedOf[r]] - Promised(AskedOf[r])
                /\ Available(r) <= Memory - Promised(AskedOf[r]) - request[r].mates
<1> DEFINE d == AskedOf[r]
           p == Promised(d)
           free == request[r].free
           mates == request[r].mates
           share == Share[d]
<1>1. share \in Nat /\ p \in Nat /\ mates \in Nat /\ free \in Nat /\ free <= Memory
  BY PromiseAssumption, PromisedIs DEF PromiseTypeOK, RequestStates
<1> HIDE DEF p, free, mates, share
<1> DEFINE machine == free - p - mates
           own == share - p
<1>2. Available(r) = Positive(IF own < machine THEN own ELSE machine)
  BY DEF Available, p, free, mates, share
<1>3. own \in Int /\ machine \in Int /\ machine <= Memory - p - mates
  BY <1>1, PromiseAssumption
<1>4. own = share - p
  OBVIOUS
<1> HIDE DEF own, machine
<1>5. Available(r) \in Nat /\ (Available(r) > 0 => Available(r) <= own /\ Available(r) <= machine)
  BY <1>2, <1>3 DEF Positive
<1>6. Memory - p - mates \in Int
  BY <1>1, PromiseAssumption
<1>7. Available(r) > 0 => Available(r) <= Memory - p - mates
  BY <1>3, <1>5, <1>6
<1> QED
  BY <1>4, <1>5, <1>7 DEF p, mates, share

\* A lease comes: within all bounds, or it asks nothing, or nothing else is
\* promised at its daemon and, as far as it knows, beside it.
LEMMA GrantKept ==
    ASSUME PromiseInv, NEW r \in Asking, Grant(r)
    PROVE  PromiseInv'
<1> DEFINE d == AskedOf[r]
           w == Wants[r]
           blind == request[r].mates < PromisedBeside(d)
           over == ~Fits(r)
           y == [New EXCEPT !.pc = "granted", !.blind = blind, !.over = over]
<1>0. PromiseTypeOK /\ d \in Mates /\ w \in Nat /\ Share[d] \in Nat /\ Memory \in Nat
      /\ request[r].mates \in Nat /\ Promised(d) \in Nat /\ PromisedBeside(d) \in Nat
  BY PromiseAssumption, PromisedIs DEF PromiseInv, PromiseTypeOK, RequestStates
<1>1. /\ request[r].pc = "lock" /\ (Fits(r) \/ (Idle(r) /\ Available(r) > 0))
      /\ request' = [request EXCEPT ![r] = y] /\ UNCHANGED <<kept, fresh, polled>>
  <2> HIDE DEF y
  <2> QED
    BY DEF Grant, AskAt, y
<1>2. blind \in BOOLEAN /\ over \in BOOLEAN
  BY <1>0
<1> HIDE DEF over, blind
<1>3. y \in RequestStates /\ y.pc = "granted" /\ y.blind = blind /\ y.over = over
  <2>1. New \in RequestStates
    BY <1>0 DEF RequestStates, New
  <2>2. y \in RequestStates
    BY <1>2, <2>1 DEF RequestStates
  <2>3. y.pc = "granted" /\ y.blind = blind /\ y.over = over
    BY <1>2, <2>1 DEF RequestStates
  <2> QED
    BY <2>2, <2>3
<1> HIDE DEF y
<1>4. PromiseTypeOK' /\ request'[r] = y /\ \A q \in Asking : q # r => request'[q] = request[q]
  BY <1>0, <1>1, <1>3 DEF PromiseTypeOK
<1>5. Leased' = Leased \cup {r} /\ r \notin Leased
  BY <1>1, <1>3, <1>4 DEF Leased
<1>6. /\ Granted(d)' = Granted(d) \cup {r} /\ r \notin Granted(d)
      /\ \A k : k # d => Granted(k)' = Granted(k)
  BY <1>5 DEF Granted
<1>7. /\ \A q \in Leased : (q \in Over' <=> q \in Over) /\ (q \in Clear' <=> q \in Clear)
      /\ r \in Over' <=> over
      /\ r \in Clear' <=> ~blind
  BY <1>3, <1>4, <1>5, LeasesAre DEF Over, Clear
<1>8. Clear' = IF blind THEN Clear ELSE Clear \cup {r}
  BY <1>5, <1>7 DEF Clear
<1>9. \A k \in Mates : k # d => Bounded(Granted(k), Over', Memory, Share[k])
  BY <1>7, LeasesAre DEF PromiseInv, Bounded
<1>10. Bounded(Clear, Over', Memory, Memory)
  BY <1>7, LeasesAre DEF PromiseInv, Bounded
<1>11. Bounded(Granted(d), Over, Memory, Share[d])
  BY <1>0 DEF PromiseInv
<1> DEFINE p == Promised(d)
           b == PromisedBeside(d)
<1>12. /\ Cardinality(UnitsOf(Granted(d))) = p
       /\ Cardinality(UnitsOf(Granted(d) \cup {r})) = p + w
       /\ Cardinality(UnitsOf(Leased \cup {r})) = p + b + w
  <2>1. Granted(d) \subseteq Asking /\ Leased \subseteq Asking /\ Leased \ Granted(d) \subseteq Asking
    BY LeasesAre
  <2>2. Granted(d) \cup (Leased \ Granted(d)) = Leased
    BY LeasesAre
  <2>3. Cardinality(UnitsOf(Granted(d) \cup (Leased \ Granted(d)))) = p + b
    BY <2>1, UnitsApart DEF Promised, PromisedBeside
  <2>4. Cardinality(UnitsOf(Leased \cup {r})) = Cardinality(UnitsOf(Leased)) + w
    BY <1>5, <2>1, UnitsMore
  <2>5. Cardinality(UnitsOf(Granted(d) \cup {r})) = Cardinality(UnitsOf(Granted(d))) + w
    BY <1>6, <2>1, UnitsMore
  <2> QED
    BY <2>2, <2>3, <2>4, <2>5 DEF Promised
<1>13. /\ Clear \cup {r} \subseteq Leased \cup {r} /\ Leased \cup {r} \subseteq Asking
       /\ Clear \subseteq Asking /\ Granted(d) \subseteq Asking
       /\ r \notin Clear
  BY <1>5, LeasesAre
<1>14. Cardinality(UnitsOf(Clear \cup {r})) <= p + b + w
  BY <1>12, <1>13, UnitsLess
<1>15. p \in Nat /\ b \in Nat /\ Cardinality(UnitsOf(Clear \cup {r})) \in Nat
  BY <1>0, <1>13, UnitsAre
<1>16. Bounded(Granted(d) \cup {r}, Over', Memory, Share[d])
       /\ (~blind => Bounded(Clear \cup {r}, Over', Memory, Memory))
  <2>1. CASE w = 0
    <3>1. Bounded(Granted(d) \cup {r}, Over', Memory, Share[d])
      <4>1. \A q \in Granted(d) : q \in Over => q \in Over'
        BY <1>7, LeasesAre
      <4> QED
        BY <1>0, <1>6, <1>11, <1>13, <2>1, <4>1, HeldSame
    <3>2. Bounded(Clear \cup {r}, Over', Memory, Memory)
      BY <1>0, <1>10, <1>13, <2>1, HeldSame
    <3> QED
      BY <3>1, <3>2
  <2>2. CASE w > 0 /\ Fits(r)
    <3>1. Available(r) \in Nat /\ w <= Available(r) /\ Available(r) > 0
      BY <1>0, <2>2, AvailableIs DEF Fits
    <3>2. w <= Share[d] - p /\ w <= Memory - p - request[r].mates
      <4> DEFINE a == Available(r)
                 m == request[r].mates
      <4>1. a <= Share[d] - p /\ a <= Memory - p - m /\ a \in Nat /\ w <= a
        BY <1>0, <3>1, AvailableIs
      <4> HIDE DEF a, w, p, m
      <4>2. Share[d] - p \in Int /\ Memory - p - m \in Int
        BY <1>0, <1>15 DEF m
      <4>3. w \in Nat
        BY <1>0 DEF w
      <4> QED
        BY <4>1, <4>2, <4>3 DEF m
    <3>3. p + w <= Share[d] /\ p + w <= Memory
      <4> HIDE DEF w, p
      <4>1. w \in Nat
        BY <1>0 DEF w
      <4> QED
        BY <1>0, <1>15, <3>2, <4>1
    <3>4. Bounded(Granted(d) \cup {r}, Over', Memory, Share[d])
      BY <1>12, <3>3 DEF Bounded
    <3>5. ~blind => p + b + w <= Memory
      <4>1. ~blind => b <= request[r].mates
        BY <1>0 DEF blind
      <4> HIDE DEF w, p, b
      <4>2. w \in Nat
        BY <1>0 DEF w
      <4> QED
        BY <1>0, <1>15, <3>2, <4>1, <4>2
    <3>6. ASSUME ~blind PROVE Bounded(Clear \cup {r}, Over', Memory, Memory)
      <4> DEFINE c == Cardinality(UnitsOf(Clear \cup {r}))
      <4>1. c <= p + b + w /\ c \in Nat
        BY <1>14, <1>15
      <4>2. c <= Memory
        <5> HIDE DEF w, p, b, c
        <5>1. w \in Nat
          BY <1>0 DEF w
        <5> QED
          BY <1>0, <1>15, <3>5, <3>6, <4>1, <5>1
      <4> QED
        BY <4>2 DEF Bounded
    <3> QED
      BY <3>4, <3>6
  <2>3. CASE ~Fits(r)
    <3>1. Granted(d) = {} /\ request[r].mates = 0 /\ over /\ r \in Over'
      BY <1>1, <1>7, <2>3 DEF Idle, over
    <3>2. p = 0
      <4>1. UnitsOf({}) = {}
        BY DEF UnitsOf
      <4> QED
        BY <3>1, <4>1, FS_EmptySet DEF Promised
    <3>3. Bounded(Granted(d) \cup {r}, Over', Memory, Share[d])
      <4>1. Cardinality(UnitsOf(Granted(d) \cup {r})) = w
        BY <1>0, <1>12, <3>2
      <4> QED
        BY <3>1, <4>1 DEF Bounded
    <3>4. ASSUME ~blind PROVE Bounded(Clear \cup {r}, Over', Memory, Memory)
      <4>1. b = 0
        BY <1>0, <3>1, <3>4 DEF blind
      <4> DEFINE c == Cardinality(UnitsOf(Clear \cup {r}))
      <4>2. c <= w
        BY <1>0, <1>14, <3>2, <4>1
      <4>3. w <= c
        <5>1. {r} \subseteq Clear \cup {r} /\ Clear \cup {r} \subseteq Asking
          BY <1>13
        <5> QED
          BY <5>1, UnitsLess, UnitsOne
      <4>4. c = w
        <5> HIDE DEF c, w
        <5>1. w \in Nat
          BY <1>0 DEF w
        <5> QED
          BY <1>15, <4>2, <4>3, <5>1 DEF c
      <4> QED
        BY <3>1, <4>4 DEF Bounded
    <3> QED
      BY <3>3, <3>4
  <2> QED
    BY <1>0, <2>1, <2>2, <2>3
<1>17. \A k \in Mates : Bounded(Granted(k)', Over', Memory, Share[k])
  BY <1>6, <1>9, <1>16
<1>18. Bounded(Clear', Over', Memory, Memory)
  BY <1>8, <1>10, <1>16
<1> QED
  BY <1>4, <1>17, <1>18 DEF PromiseInv, Bounded, UnitsOf

\* A lease that goes leaves less promised.
LEMMA GoesKept ==
    ASSUME PromiseInv, NEW r \in Asking, LeaseGoes(r)
    PROVE  PromiseInv'
<1>0. PromiseTypeOK /\ Memory \in Nat /\ Share \in [Mates -> Nat]
  BY PromiseAssumption DEF PromiseInv
<1>1. /\ request[r].pc = "granted" /\ request' = [request EXCEPT ![r] = New]
      /\ UNCHANGED <<kept, fresh, polled>>
  BY DEF LeaseGoes, AskAt
<1>2. New \in RequestStates /\ New.pc = "new"
  BY <1>0 DEF New, RequestStates
<1>3. PromiseTypeOK' /\ request'[r].pc = "new" /\ \A q \in Asking : q # r => request'[q] = request[q]
  BY <1>0, <1>1, <1>2 DEF PromiseTypeOK
<1>4. Leased' = Leased \ {r} /\ r \in Leased
  BY <1>1, <1>3 DEF Leased
<1>5. \A q \in Leased \ {r} : (q \in Over' <=> q \in Over) /\ (q \in Clear' <=> q \in Clear)
  BY <1>3, <1>4, LeasesAre DEF Over, Clear
<1>6. Clear' = Clear \ {r}
  BY <1>4, <1>5 DEF Clear
<1>7. ASSUME NEW k \in Mates PROVE Bounded(Granted(k)', Over', Memory, Share[k])
  <2>1. Granted(k)' = Granted(k) \ {r}
    BY <1>4 DEF Granted
  <2>2. Bounded(Granted(k), Over, Memory, Share[k])
    BY DEF PromiseInv
  <2>3. Granted(k) \subseteq Asking /\ Share[k] \in Nat /\ \A q \in Granted(k) \ {r} : q \in Over => q \in Over'
    BY <1>0, <1>5, LeasesAre
  <2>4. CASE r \in Granted(k)
    BY <1>0, <2>1, <2>2, <2>3, <2>4, HeldLess
  <2>5. CASE r \notin Granted(k)
    BY <2>1, <2>2, <2>3, <2>5 DEF Bounded
  <2> QED
    BY <2>4, <2>5
<1>8. Bounded(Clear', Over', Memory, Memory)
  <2>1. Bounded(Clear, Over, Memory, Memory)
    BY DEF PromiseInv
  <2>2. Clear \subseteq Asking /\ \A q \in Clear \ {r} : q \in Over => q \in Over'
    BY <1>5, LeasesAre
  <2>3. CASE r \in Clear
    BY <1>0, <1>6, <2>1, <2>2, <2>3, HeldLess
  <2>4. CASE r \notin Clear
    BY <1>6, <2>1, <2>2, <2>4 DEF Bounded
  <2> QED
    BY <2>3, <2>4
<1> QED
  BY <1>3, <1>7, <1>8 DEF PromiseInv, Bounded, UnitsOf

\* Every step of the requests, the poller and the kept answers keeps the invariant.
LEMMA PromiseStep == PromiseInv /\ [PromiseNext]_promiseVars => PromiseInv'
<1> SUFFICES ASSUME PromiseInv, [PromiseNext]_promiseVars PROVE PromiseInv'
  OBVIOUS
<1>0. PromiseTypeOK /\ AskedOf \in [Asking -> Mates] /\ Memory \in Nat /\ MaxUse \in Nat /\ MaxUse <= Memory
  BY PromiseAssumption DEF PromiseInv
<1>1. ASSUME NEW r \in Asking, ReadLoad(r) PROVE PromiseInv'
  <2>1. PICK n \in 0..Memory : request' = [request EXCEPT ![r].pc = "ask", ![r].free = n]
    <3>1. PICK u \in 0..MaxUse : request' = [request EXCEPT ![r].pc = "ask", ![r].free = Memory - u]
      BY <1>1 DEF ReadLoad
    <3>2. Memory - u \in 0..Memory
      BY <1>0
    <3> QED
      BY <3>1, <3>2
  <2>2. request[r].pc = "new" /\ UNCHANGED <<kept, fresh, polled>>
    BY <1>1 DEF ReadLoad, AskAt
  <2>3. PromiseTypeOK'
    BY <1>0, <2>1, <2>2 DEF PromiseTypeOK, RequestStates
  <2>4. \A q \in Asking : IF request[q].pc = "granted" THEN request'[q] = request[q]
                          ELSE request'[q].pc # "granted"
    BY <1>0, <2>1, <2>2 DEF PromiseTypeOK, RequestStates
  <2> QED
    BY <2>3, <2>4, SameLeases
<1>2. ASSUME NEW r \in Asking, AskMates(r) PROVE PromiseInv'
  <2>1. PICK n \in Nat, pc \in {"lock", "keep"} : request' = [request EXCEPT ![r].pc = pc, ![r].mates = n]
    <3>1. AskedOf[r] \in Mates /\ kept[AskedOf[r]] \in Nat /\ polled[AskedOf[r]] \in Nat
          /\ PromisedBeside(AskedOf[r]) \in Nat
      BY <1>0, PromisedIs DEF PromiseTypeOK
    <3> QED
      BY <1>2, <3>1 DEF AskMates
  <2>2. request[r].pc = "ask" /\ UNCHANGED <<kept, fresh, polled>>
    BY <1>2 DEF AskMates, AskAt
  <2>3. PromiseTypeOK'
    BY <1>0, <2>1, <2>2 DEF PromiseTypeOK, RequestStates
  <2>4. \A q \in Asking : IF request[q].pc = "granted" THEN request'[q] = request[q]
                          ELSE request'[q].pc # "granted"
    BY <1>0, <2>1, <2>2 DEF PromiseTypeOK, RequestStates
  <2> QED
    BY <2>3, <2>4, SameLeases
<1>3. ASSUME NEW r \in Asking, KeepAnswer(r) PROVE PromiseInv'
  <2>1. /\ request[r].pc = "keep" /\ request' = [request EXCEPT ![r].pc = "lock"] /\ UNCHANGED polled
        /\ kept' = [kept EXCEPT ![AskedOf[r]] = request[r].mates]
        /\ fresh' = [fresh EXCEPT ![AskedOf[r]] = TRUE]
    BY <1>3 DEF KeepAnswer, AskAt
  <2>2. request[r].mates \in Nat
    BY <1>0 DEF PromiseTypeOK, RequestStates
  <2>3. PromiseTypeOK'
    BY <1>0, <2>1, <2>2 DEF PromiseTypeOK, RequestStates
  <2>4. \A q \in Asking : IF request[q].pc = "granted" THEN request'[q] = request[q]
                          ELSE request'[q].pc # "granted"
    BY <1>0, <2>1 DEF PromiseTypeOK, RequestStates
  <2> QED
    BY <2>3, <2>4, SameLeases
<1>4. ASSUME NEW r \in Asking, TurnAway(r) PROVE PromiseInv'
  <2>1. request[r].pc = "lock" /\ request' = [request EXCEPT ![r] = New] /\ UNCHANGED <<kept, fresh, polled>>
    BY <1>4 DEF TurnAway, AskAt
  <2>2. New \in RequestStates /\ New.pc = "new"
    BY <1>0 DEF New, RequestStates
  <2>3. PromiseTypeOK'
    BY <1>0, <2>1, <2>2 DEF PromiseTypeOK
  <2>4. \A q \in Asking : IF request[q].pc = "granted" THEN request'[q] = request[q]
                          ELSE request'[q].pc # "granted"
    BY <1>0, <2>1, <2>2 DEF PromiseTypeOK
  <2> QED
    BY <2>3, <2>4, SameLeases
<1>5. ASSUME NEW d \in Mates, AnswerAges(d) \/ PollMates(d) PROVE PromiseInv'
  <2>0. PromisedBeside(d) \in Nat
    BY PromisedIs
  <2>1. PromiseTypeOK' /\ request' = request
    <3>1. CASE AnswerAges(d)
      BY <1>0, <3>1 DEF PromiseTypeOK, AnswerAges
    <3>2. CASE PollMates(d)
      BY <1>0, <2>0, <3>2 DEF PromiseTypeOK, PollMates
    <3> QED
      BY <1>5, <3>1, <3>2
  <2> QED
    BY <2>1, SameLeases
<1>6. CASE UNCHANGED promiseVars
  <2>1. PromiseTypeOK' /\ request' = request
    BY <1>0, <1>6 DEF PromiseTypeOK, promiseVars
  <2> QED
    BY <2>1, SameLeases
<1> QED
  BY <1>1, <1>2, <1>3, <1>4, <1>5, <1>6, GrantKept, GoesKept DEF PromiseNext

\* Before the first request.
LEMMA PromiseStart == PromiseInit => PromiseInv
<1> SUFFICES ASSUME PromiseInit PROVE PromiseInv
  OBVIOUS
<1>1. New \in RequestStates /\ New.pc = "new"
  BY PromiseAssumption DEF New, RequestStates
<1>2. PromiseTypeOK
  BY <1>1 DEF PromiseInit, PromiseTypeOK
<1>3. Leased = {} /\ Clear = {} /\ \A d : Granted(d) = {}
  BY <1>1 DEF PromiseInit, Leased, Clear, Granted
<1>4. UnitsOf({}) = {} /\ Cardinality({}) = 0
  BY FS_EmptySet DEF UnitsOf
<1>5. Memory >= 0 /\ \A d \in Mates : Share[d] >= 0
  BY PromiseAssumption
<1> QED
  BY <1>2, <1>3, <1>4, <1>5 DEF PromiseInv, Bounded

\* The invariant says that the promises hold.
LEMMA PromiseHeld == PromiseInv => PromisesHold
<1> SUFFICES ASSUME PromiseInv PROVE PromisesHold
  OBVIOUS
<1>1. ASSUME NEW d \in Mates
      PROVE  \/ Promised(d) <= Memory /\ Promised(d) <= Share[d]
             \/ \E r \in Granted(d) : request[r].over /\ Promised(d) = Wants[r]
  BY DEF PromiseInv, Bounded, Promised, Over
<1>2. (\A r \in Leased : ~request[r].blind) => Clear = Leased
  BY DEF Clear
<1> QED
  BY <1>1, <1>2 DEF PromiseInv, Bounded, Over, PromisesHold

-----------------------------------------------------------------------------
(* The memory of a machine.                                                 *)

\* A node's step is a step of one of its parts.
LEMMA MemoryStep ==
  ASSUME ScopeInv, PromiseInv, [NodeNext]_<<part, vars, lifeVars, scopeVars, promiseVars>>
  PROVE  ScopeInv' /\ PromiseInv'
<1>1. [ScopeNext]_scopeVars /\ [PromiseNext]_promiseVars
  BY DEF NodeNext
<1> QED
  BY <1>1, ScopeStep, PromiseStep

\* Whatever a node does: the cgroup its jobs' cgroups are in can bound them
\* (Prepare), its budget and its watchdog's choices are what their definitions
\* say (limitBudget, pickVictim, TakeWatchdogKill), and the daemons of the
\* machine promise no more of its memory than they may (CreateServerLease).
THEOREM MemoryStaysRight == NodeSpec => []MemoryIsRight
<1>1. NodeInit => ScopeInv /\ PromiseInv
  BY ScopeStart, PromiseStart DEF NodeInit
<1>2. ScopeInv /\ PromiseInv => MemoryIsRight
  BY ScopeInvIsKept, CeilingHolds, PromiseHeld DEF MemoryIsRight, ScopeIsRight
<1> QED
  BY <1>1, <1>2, MemoryStep, PTL DEF NodeSpec
=============================================================================
