----------------------------- MODULE NodeLeases -----------------------------
(***************************************************************************)
(* The daemon of one node: its lease table, its job table, the exec        *)
(* handlers that tie a job to its lease, the sweeper that frees leases     *)
(* nobody comes back for, and the JSON snapshot of both tables that a      *)
(* restarted daemon starts from.                                           *)
(*                                                                         *)
(* Every action is one critical section of the Go code (between a Lock and *)
(* the matching Unlock of Server.mu or Server.jobsMu), so the windows the  *)
(* code leaves open between two sections are interleavings here:           *)
(*   - processCommit drops s.mu to read the machine's memory;              *)
(*   - sweepExpired reads the live jobs before it takes s.mu;              *)
(*   - finish sends the done frame, writes the job's status and releases   *)
(*     its lease in three sections;                                        *)
(*   - persist copies the leases, then the jobs, then writes the file.     *)
(*                                                                         *)
(* Time is abstracted to what the code asks of it: a lease is "fresh" or   *)
(* "overdue" (past ExpiresAt + grace when reserved, runningLeaseTTL past   *)
(* its last renewal when running).  Memory in admission is left out.       *)
(***************************************************************************)
EXTENDS Naturals, FiniteSets

CONSTANTS
  Lease,          \* lease ids the daemon may generate (uuids: never reused)
  Job,            \* job ids, likewise
  Gpu,            \* GPU devices; without telemetry only device 0 is known
  Telemetry,      \* the vendor tools report usage per device
  MaxConcurrent,  \* cap on live leases, 0 = unlimited
  Isolated,       \* the jobs that run in a crun container
  NoLease, NoJob, NoGpu,
  Persistent,     \* EnablePersistence was called (the daemon does; it is opt-in)
  MaxOwed,        \* bound: persist calls not yet started
  MaxInFlight,    \* bound: snapshots copied and not yet written
  MaxCrashes      \* bound: daemon crashes

ASSUME NodeAssumption ==
  /\ NoLease \notin Lease /\ NoJob \notin Job /\ NoGpu \notin Gpu
  /\ Isolated \subseteq Job
  /\ IsFiniteSet(Lease)
  /\ Telemetry \in BOOLEAN /\ Persistent \in BOOLEAN
  /\ MaxConcurrent \in Nat /\ MaxCrashes \in Nat
  /\ MaxOwed \in Nat \ {0} /\ MaxInFlight \in Nat \ {0}

VARIABLES
  leases,      \* Server.leases; state "none" = not in the map
  committing,  \* leases whose commit handler is inside its unlocked window
  client,      \* what the submitter that asked for the lease is doing
  revived,     \* leases bindLease took again (history, for CapRespected)
  jobs,        \* Server.jobs; status "none" = not in the map
  exec,        \* the exec handler of each job, and the lease it was given
  alive,       \* jobs whose process exists on the machine
  frame,       \* the done frame at the end of each job's output log
  sweep,       \* the sweeper between its reads and its lock
  disk,        \* daemon-state.json
  copied,      \* lease tables copied by a persist call that has no jobs yet
  inflight,    \* snapshots copied whole and not yet written
  owed,        \* persist calls a finished mutation still has to make
  crashes

tables   == <<leases, jobs>>
handlers == <<committing, exec, sweep>>
storage  == <<disk, copied, inflight, owed>>
vars     == <<leases, committing, client, revived, jobs, exec, alive, frame,
              sweep, disk, copied, inflight, owed, crashes>>
-----------------------------------------------------------------------------
Final == {"done", "failed", "cancelled"}

LeaseRec ==
  [state : {"none", "reserved", "running"},
   gpu   : Gpu \union {NoGpu},
   age   : {"fresh", "overdue"},
   job   : Job \union {NoJob}]

JobRec ==
  [status : {"none", "uploaded", "importing", "running"} \union Final,
   group  : {"unknown", "recorded"}]  \* the process group (Pgid, PgidStart)

Snapshot == [leases : [Lease -> LeaseRec], jobs : [Job -> JobRec]]

Phase == {"idle", "ready", "config", "import", "setup", "start", "run", "record", "release", "ended"}

Free  == [state |-> "none", gpu |-> NoGpu, age |-> "fresh", job |-> NoJob]
NoRec == [status |-> "none", group |-> "unknown"]

Held == {l \in Lease : leases[l].state # "none"}

\* Jobs the sweeper counts as alive: uploaded, importing or running.
LiveJobs == {j \in Job : jobs[j].status \notin Final \union {"none"}}

\* The lease table without the leases in gone.
Drop(table, gone) == [l \in Lease |-> IF l \in gone THEN Free ELSE table[l]]

\* Every mutation ends in a persist call, a no-op without persistence.
\* MaxOwed bounds how many wait.
Mutated ==
  \/ ~Persistent /\ UNCHANGED storage
  \/ Persistent /\ owed < MaxOwed /\ owed' = owed + 1 /\ UNCHANGED <<disk, copied, inflight>>
-----------------------------------------------------------------------------
Init ==
  /\ leases     = [l \in Lease |-> Free]
  /\ committing = {}
  /\ client     = [l \in Lease |-> "none"]
  /\ revived    = {}
  /\ jobs       = [j \in Job |-> NoRec]
  /\ exec       = [j \in Job |-> [at |-> "idle", lease |-> NoLease]]
  /\ alive      = {}
  /\ frame      = [j \in Job |-> "none"]
  /\ sweep      = [on |-> FALSE, live |-> {}, due |-> {}]
  /\ disk       = [leases |-> [l \in Lease |-> Free], jobs |-> [j \in Job |-> NoRec]]
  /\ copied     = {}
  /\ inflight   = {}
  /\ owed       = 0
  /\ crashes    = 0
-----------------------------------------------------------------------------
(* Leases: /v1/accept, /v1/commit, /v1/renew, /v1/complete.                *)

\* Mutant: the cap counts running leases only.
BelowCapRunning ==
  MaxConcurrent = 0 \/ Cardinality({l \in Held : leases[l].state = "running"}) < MaxConcurrent

\* Under the cap, which counts every live lease, reserved or running.
BelowCap == MaxConcurrent = 0 \/ Cardinality(Held) < MaxConcurrent

\* Mutant: a reserved lease does not hold its device yet.
FreeGpusOfRunning == Gpu \ {leases[l].gpu : l \in {m \in Held : leases[m].state = "running"}}

\* Devices no live lease holds.  With no telemetry device 0 is handed out to
\* every request that names no minimum of video memory.
FreeGpus == IF Telemetry THEN Gpu \ {leases[l].gpu : l \in Held} ELSE Gpu

\* reserveGPULocked and the insert, in the critical section of the cap check.
\* Which free device wins is decided by telemetry: any may.
Accept(l, wantGpu) ==
  /\ client[l] = "none"
  /\ BelowCap
  /\ \E g \in IF wantGpu THEN FreeGpus ELSE {NoGpu} :
       leases' = [leases EXCEPT ![l] = [Free EXCEPT !.state = "reserved", !.gpu = g]]
  /\ client' = [client EXCEPT ![l] = "accepted"]
  /\ Mutated
  /\ UNCHANGED <<handlers, revived, jobs, alive, frame, crashes>>

\* First section of processCommit: refuse a lease that is not there, not
\* reserved or past its grace (deleting it), else unlock and read the memory.
CommitRead(l) ==
  /\ client[l] = "accepted" /\ l \notin committing
  /\ \/ /\ leases[l].state = "reserved" /\ leases[l].age = "fresh"
        /\ committing' = committing \union {l}
        /\ UNCHANGED <<leases, client, storage>>
     \/ /\ leases[l].state = "reserved" /\ leases[l].age = "overdue"
        /\ leases' = Drop(leases, {l})
        /\ client' = [client EXCEPT ![l] = "gone"]
        /\ Mutated
        /\ UNCHANGED committing
     \/ /\ leases[l].state # "reserved"
        /\ client' = [client EXCEPT ![l] = "gone"]
        /\ UNCHANGED <<leases, committing, storage>>
  /\ UNCHANGED <<revived, jobs, exec, alive, frame, sweep, crashes>>

\* Second section: only that the lease is still in the map is checked again.
CommitApply(l) ==
  /\ l \in committing
  /\ committing' = committing \ {l}
  /\ \/ /\ leases[l].state = "none"
        /\ client' = [client EXCEPT ![l] = "gone"]
        /\ UNCHANGED <<leases, storage>>
     \/ /\ leases[l].state # "none"
        /\ leases' = [leases EXCEPT ![l].state = "running", ![l].age = "fresh"]
        /\ client' = [client EXCEPT ![l] = IF @ = "accepted" THEN "committed" ELSE @]
        /\ Mutated
  /\ UNCHANGED <<revived, jobs, exec, alive, frame, sweep, crashes>>

\* A renewal in time; processRenew does not persist.
Renew(l) ==
  /\ client[l] = "committed" /\ l \in Held
  /\ leases' = [leases EXCEPT ![l].age = "fresh"]
  /\ UNCHANGED <<handlers, client, revived, jobs, alive, frame, storage, crashes>>

\* processComplete deletes whatever state the lease is in, job or no job.
Complete(l) ==
  /\ client[l] = "committed"
  /\ leases' = Drop(leases, {l})
  /\ client' = [client EXCEPT ![l] = "gone"]
  /\ Mutated
  /\ UNCHANGED <<handlers, revived, jobs, alive, frame, crashes>>

\* The submitter dies or detaches: nothing more is sent for the lease.
ClientLeaves(l) ==
  /\ client[l] \in {"accepted", "committed"}
  /\ client' = [client EXCEPT ![l] = "gone"]
  /\ UNCHANGED <<tables, handlers, revived, alive, frame, storage, crashes>>

\* Time passes without a renewal.
Overdue(l) ==
  /\ l \in Held /\ leases[l].age = "fresh"
  /\ leases' = [leases EXCEPT ![l].age = "overdue"]
  /\ UNCHANGED <<handlers, client, revived, jobs, alive, frame, storage, crashes>>
-----------------------------------------------------------------------------
(* Jobs: /v1/jobs/upload and the /v1/jobs/{id}/exec handler.               *)

SetStatus(j, st) == jobs' = [jobs EXCEPT ![j].status = st]
GoTo(j, at)      == exec' = [exec EXCEPT ![j].at = at]

\* An upload that arrived whole.  A DDP rank uploads without a lease.
Upload(j, l) ==
  /\ jobs[j].status = "none" /\ exec[j].at = "idle"
  /\ l # NoLease => client[l] = "committed" /\ \A k \in Job : exec[k].lease # l
  /\ SetStatus(j, "uploaded")
  /\ exec' = [exec EXCEPT ![j] = [at |-> "ready", lease |-> l]]
  /\ Mutated
  /\ UNCHANGED <<leases, committing, client, revived, alive, frame, sweep, crashes>>

\* A failed upload gives the lease it named back at once.
UploadFails(l) ==
  /\ client[l] = "committed" /\ \A k \in Job : exec[k].lease # l
  /\ leases' = Drop(leases, {l})
  /\ client' = [client EXCEPT ![l] = "gone"]
  /\ Mutated
  /\ UNCHANGED <<handlers, revived, jobs, alive, frame, crashes>>

\* Mutant: the handler does not claim the job before it binds the lease.
ExecBeginLate(j) ==
  /\ jobs[j].status = "uploaded" /\ exec[j].at = "ready"
  /\ exec[j].lease # NoLease => client[exec[j].lease] = "committed"
  /\ GoTo(j, "config")
  /\ UNCHANGED <<tables, committing, client, revived, alive, frame, sweep, storage, crashes>>

\* Only an uploaded job may start; the status change is not persisted.
ExecBegin(j) ==
  /\ jobs[j].status = "uploaded" /\ exec[j].at = "ready"
  /\ exec[j].lease # NoLease => client[exec[j].lease] = "committed"
  /\ SetStatus(j, "importing") /\ GoTo(j, "config")
  /\ UNCHANGED <<leases, committing, client, revived, alive, frame, sweep, storage, crashes>>

\* No websocket, no config frame or an unreadable one: the handler returns.
ExecAbort(j) ==
  /\ exec[j].at = "config"
  /\ GoTo(j, "ended")
  /\ UNCHANGED <<tables, committing, client, revived, alive, frame, sweep, storage, crashes>>

\* Mutant: bindLease without its early return for a job that names no lease.
ExecBindAnyLease(j) ==
  /\ exec[j].at = "config"
  /\ GoTo(j, "import")
  /\ leases' = [leases EXCEPT ![exec[j].lease] = [Free EXCEPT !.state = "running", !.job = j]]
  /\ revived' = revived \union ({exec[j].lease} \ Held)
  /\ Mutated
  /\ UNCHANGED <<committing, client, jobs, alive, frame, sweep, crashes>>

\* bindLease: the lease follows the job from here; one that expired meanwhile
\* is taken again, with no GPU.
ExecBind(j) ==
  LET l == exec[j].lease IN
  /\ exec[j].at = "config"
  /\ GoTo(j, "import")
  /\ \/ /\ l = NoLease
        /\ UNCHANGED <<leases, revived, storage>>
     \/ /\ l \in Held
        /\ leases' = [leases EXCEPT ![l].job = j]
        /\ Mutated
        /\ UNCHANGED revived
     \/ /\ l \in Lease \ Held
        /\ leases' = [leases EXCEPT ![l] = [Free EXCEPT !.state = "running", !.job = j]]
        /\ revived' = revived \union {l}
        /\ Mutated
  /\ UNCHANGED <<committing, client, jobs, alive, frame, sweep, crashes>>

\* The closure is in the store: the job counts as running (not persisted).
ExecRun(j) ==
  /\ exec[j].at = "import"
  /\ SetStatus(j, "running") /\ GoTo(j, "setup")
  /\ UNCHANGED <<leases, committing, client, revived, alive, frame, sweep, storage, crashes>>

\* cmd.Start.  An unisolated job's process group is recorded next.
ExecStart(j) ==
  /\ exec[j].at = "setup"
  /\ alive' = alive \union {j}
  /\ GoTo(j, IF j \in Isolated THEN "run" ELSE "start")
  /\ UNCHANGED <<tables, committing, client, revived, frame, sweep, storage, crashes>>

\* recordJobGroup gives up when the leader's start time cannot be read.
RecordGroup(j) ==
  /\ exec[j].at = "start"
  /\ GoTo(j, "run")
  /\ \/ jobs' = [jobs EXCEPT ![j].group = "recorded"] /\ Mutated
     \/ UNCHANGED <<jobs, storage>>
  /\ UNCHANGED <<leases, committing, client, revived, alive, frame, sweep, crashes>>

\* The script exits, or a cancel or the kernel kills it.
ProcExits(j) ==
  /\ j \in alive
  /\ alive' = alive \ {j}
  /\ UNCHANGED <<tables, handlers, client, revived, frame, storage, crashes>>

\* finish, first part: the done frame goes to the output log, then to the
\* submitter.  A job that never got a process fails or was cancelled.
ExecFinish(j, st) ==
  /\ \/ exec[j].at \in {"import", "setup"} /\ st \in {"failed", "cancelled"}
     \/ exec[j].at = "run" /\ j \notin alive /\ st \in Final
  /\ frame' = [frame EXCEPT ![j] = st]
  /\ GoTo(j, "record")
  /\ UNCHANGED <<tables, committing, client, revived, alive, sweep, storage, crashes>>

\* finish, second part: the job's status.
ExecRecord(j) ==
  /\ exec[j].at = "record"
  /\ SetStatus(j, frame[j]) /\ GoTo(j, "release")
  /\ UNCHANGED <<leases, committing, client, revived, alive, frame, sweep, storage, crashes>>

\* releaseJobLease and the handler's last persist.
ExecRelease(j) ==
  /\ exec[j].at = "release"
  /\ leases' = IF exec[j].lease = NoLease THEN leases
               ELSE Drop(leases, {l \in Held : leases[l].job = j})
  /\ GoTo(j, "ended")
  /\ Mutated
  /\ UNCHANGED <<committing, client, revived, jobs, alive, frame, sweep, crashes>>
-----------------------------------------------------------------------------
(* The sweeper.                                                            *)

\* The clock and the live jobs are read before the lease table is locked.
SweepRead ==
  /\ ~sweep.on
  /\ sweep' = [on   |-> TRUE,
               live |-> LiveJobs,
               due  |-> {l \in Held : leases[l].age = "overdue"}]
  /\ UNCHANGED <<tables, committing, exec, client, revived, alive, frame, storage, crashes>>

\* Mutant: only reservations expire.
ReapedReserved == {l \in Held \intersect sweep.due : leases[l].state = "reserved"}

\* A running lease bound to a job that was live is kept however old.
Reaped ==
  {l \in Held \intersect sweep.due :
     /\ leases[l].age = "overdue"
     /\ ~(leases[l].state = "running" /\ leases[l].job \in sweep.live)}

SweepApply ==
  /\ sweep.on
  /\ leases' = Drop(leases, Reaped)
  /\ sweep'  = [on |-> FALSE, live |-> {}, due |-> {}]
  /\ Mutated
  /\ UNCHANGED <<committing, exec, client, revived, jobs, alive, frame, crashes>>
-----------------------------------------------------------------------------
(* persist: leases copied under s.mu, jobs under jobsMu, then one atomic   *)
(* write.  Nothing orders two calls between their copies and their writes. *)

CopyLeases ==
  /\ owed > 0 /\ Cardinality(copied) + Cardinality(inflight) < MaxInFlight
  /\ owed' = owed - 1
  /\ copied' = copied \union {leases}
  /\ UNCHANGED <<tables, handlers, client, revived, alive, frame, disk, inflight, crashes>>

CopyJobs(t) ==
  /\ t \in copied
  /\ copied'   = copied \ {t}
  /\ inflight' = inflight \union {[leases |-> t, jobs |-> jobs]}
  /\ UNCHANGED <<tables, handlers, client, revived, alive, frame, disk, owed, crashes>>

Save(s) ==
  /\ s \in inflight
  /\ disk'     = s
  /\ inflight' = inflight \ {s}
  /\ UNCHANGED <<tables, handlers, client, revived, alive, frame, copied, owed, crashes>>
-----------------------------------------------------------------------------
(* The daemon dies and starts again: state.load, then failOrphanedJobs.    *)

\* Jobs the snapshot says were under way.
Orphans(snap) == {j \in Job : snap.jobs[j].status \in {"running", "importing"}}

\* Mutant: a restart looks for recorded process groups only.
StoppableGroups(snap) == {j \in Orphans(snap) : snap.jobs[j].group = "recorded"}

\* Those it can stop: a container by its name, a group if it was recorded.
Stoppable(snap) == {j \in Orphans(snap) : j \in Isolated \/ snap.jobs[j].group = "recorded"}

Crash ==
  /\ crashes < MaxCrashes
  /\ crashes' = crashes + 1
  /\ jobs' = [j \in Job |-> IF j \in Orphans(disk)
                            THEN [disk.jobs[j] EXCEPT !.status = "failed"]
                            ELSE disk.jobs[j]]
  /\ leases' = Drop(disk.leases, {l \in Lease : disk.leases[l].job \in Orphans(disk)})
  /\ \E survivors \in SUBSET alive : alive' = survivors \ Stoppable(disk)
  /\ frame' = [j \in Job |-> IF j \in Orphans(disk) /\ frame[j] = "none"
                             THEN "failed" ELSE frame[j]]
  /\ exec' = [j \in Job |-> IF exec[j].at \in {"idle", "ready"} THEN exec[j]
                            ELSE [exec[j] EXCEPT !.at = "ended"]]
  /\ client' = [l \in Lease |-> IF l \in committing /\ client[l] = "accepted"
                                THEN "gone" ELSE client[l]]
  /\ committing' = {}
  /\ sweep'    = [on |-> FALSE, live |-> {}, due |-> {}]
  /\ copied'   = {}
  /\ inflight' = {}
  /\ owed'     = IF Orphans(disk) = {} THEN 0 ELSE 1
  /\ UNCHANGED <<revived, disk>>
-----------------------------------------------------------------------------
Next ==
  \/ \E l \in Lease, g \in BOOLEAN : Accept(l, g)
  \/ \E l \in Lease : \/ CommitRead(l) \/ CommitApply(l) \/ Renew(l) \/ Complete(l)
                      \/ ClientLeaves(l) \/ Overdue(l) \/ UploadFails(l)
  \/ \E j \in Job, l \in Lease \union {NoLease} : Upload(j, l)
  \/ \E j \in Job : \/ ExecBegin(j) \/ ExecAbort(j) \/ ExecBind(j) \/ ExecRun(j)
                    \/ ExecStart(j) \/ RecordGroup(j) \/ ProcExits(j)
                    \/ ExecRecord(j) \/ ExecRelease(j)
  \/ \E j \in Job, st \in Final : ExecFinish(j, st)
  \/ SweepRead \/ SweepApply
  \/ CopyLeases
  \/ \E t \in copied : CopyJobs(t)
  \/ \E s \in inflight : Save(s)
  \/ Crash

Spec == Init /\ [][Next]_vars

\* Goroutines run, time passes, submitters leave in the end and processes exit.
Fairness ==
  /\ WF_vars(SweepRead) /\ WF_vars(SweepApply) /\ WF_vars(CopyLeases)
  /\ WF_vars(\E t \in copied : CopyJobs(t)) /\ WF_vars(\E s \in inflight : Save(s))
  /\ \A l \in Lease : WF_vars(Overdue(l)) /\ WF_vars(ClientLeaves(l)) /\ WF_vars(CommitApply(l))
  /\ \A j \in Job :
       /\ WF_vars(ProcExits(j))
       /\ WF_vars(ExecAbort(j) \/ ExecBind(j)) /\ WF_vars(ExecRun(j)) /\ WF_vars(ExecStart(j))
       /\ WF_vars(RecordGroup(j)) /\ WF_vars(ExecRecord(j)) /\ WF_vars(ExecRelease(j))
       /\ WF_vars(\E st \in Final : ExecFinish(j, st))

FairSpec == Spec /\ Fairness
-----------------------------------------------------------------------------
(* Properties.                                                             *)

\* The tables, handlers and snapshots of the daemon have the shape the Go types
\* give them, and no bound on persist calls or crashes is passed.
TypeOK ==
  /\ leases     \in [Lease -> LeaseRec]
  /\ committing \subseteq Lease
  /\ client     \in [Lease -> {"none", "accepted", "committed", "gone"}]
  /\ revived    \subseteq Lease
  /\ jobs       \in [Job -> JobRec]
  /\ exec       \in [Job -> [at : Phase, lease : Lease \union {NoLease}]]
  /\ alive      \subseteq Job
  /\ frame      \in [Job -> {"none"} \union Final]
  /\ sweep      \in [on : BOOLEAN, live : SUBSET Job, due : SUBSET Lease]
  /\ disk       \in Snapshot
  /\ copied     \subseteq [Lease -> LeaseRec]
  /\ inflight   \subseteq Snapshot
  /\ owed       \in Nat
  /\ crashes    \in Nat

\* Two live leases of one table never name the same device.
DistinctGpus(table) ==
  \A l, m \in Lease : l # m /\ table[l].gpu # NoGpu => table[l].gpu # table[m].gpu

\* GPU admission reserves a device so that two concurrent jobs do not land on
\* the same card: through commits, expiries, a lease taken again by bindLease
\* and a restart from however old a snapshot.
GpuExclusive == DistinctGpus(leases)

\* The concurrency cap is never passed by admission: only leases bindLease
\* took again for a job that arrived late may exceed it.
CapRespected ==
  MaxConcurrent > 0 => Cardinality(Held \ revived) <= MaxConcurrent

\* A lease bound to a job that is not under way yet would be kept by every
\* sweep (the job is live) and released by none (its handler never ends).
StartedIfBound(table, recs) ==
  \A l \in Lease : table[l].job # NoJob => recs[table[l].job].status \notin {"none", "uploaded"}

\* No lease is bound to a job that has not started, even after a restart from
\* a snapshot whose two halves were copied at different moments.
NoLeakedLease == StartedIfBound(leases, jobs)

\* A sandboxed job that is over has no process left, a restart included:
\* failOrphanedJobs marks failed only what it also stops.
FinishedMeansStopped ==
  \A j \in Isolated : jobs[j].status \in Final => j \notin alive

\* Once submitters leave and processes exit, every lease is freed: by its
\* job's end, by /v1/complete or by the sweeper, also across a restart.
LeaseEventuallyFreed ==
  \A l \in Lease : leases[l].state # "none" ~> leases[l].state = "none"

\* The comment on persist: call it after any mutation so that a crash or a
\* restart starts from the latest state.  Stated of the leases once no
\* persist call is under way.
DiskHasLatestLeases ==
  (owed = 0 /\ copied = {} /\ inflight = {}) =>
    \A l \in Lease : disk.leases[l].state = leases[l].state

\* A job whose done frame told its submitter that it succeeded is not later
\* marked failed: failOrphanedJobs is for jobs "nothing would ever finish".
SuccessNotFailed ==
  \A j \in Job : ~(frame[j] = "done" /\ jobs[j].status = "failed")

\* The comment on failOrphanedJobs: a container that outlived the daemon is
\* stopped.  No process of a sandboxed job the daemon has on record is
\* without its exec handler.
NoUnsupervisedProcess ==
  \A j \in Isolated :
    j \in alive /\ jobs[j].status # "none" => exec[j].at = "run"

\* The comment on bindLease: a running job is never invisible to admission.
\* Stated while the submitter has not ended the lease itself.
RunningJobVisible ==
  \A j \in Job : LET l == exec[j].lease IN
    j \in alive /\ l # NoLease /\ client[l] = "committed" => leases[l].job = j

=============================================================================
