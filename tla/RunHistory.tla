----------------------------- MODULE RunHistory -----------------------------
(***************************************************************************)
(* One run and its record (run_cmd.go, app/run.go, app/fetchback.go,       *)
(* app/attach.go, jobhistory/): the command that places the job on a given *)
(* node, follows, detaches or loses it, and the two that finish a detached *)
(* one, the watcher in this machine's daemon and attach.  They share the   *)
(* record's file, which readers open without its lock and a write empties  *)
(* before it fills it.                                                     *)
(***************************************************************************)
EXTENDS Naturals

CONSTANTS
    MaxTrouble      \* kills, failed writes, times the node or the network goes: a bound

ASSUME HistAssumption == MaxTrouble \in Nat

VARIABLES
    rec,        \* metadata.json: see RecordType
    torn,       \* it was emptied and not filled
    lockBy,     \* flock of the record's directory
    proc,       \* run, watch and attach: see ProcType
    at,         \* the job on its node
    code,       \* how its script ended
    leased,     \* the node's lease
    nodeUp, online, \* the node answers; this machine has a network
    trouble,
    synced,     \* times the results were applied here
    redo        \* a collect stopped between applying them and its record

histVars == <<rec, torn, lockBy, proc, at, code, leased, nodeUp, online, trouble, synced, redo>>

Procs == {"run", "watch", "attach"}
Final == {"succeeded", "failed", "cancelled"}

RecordType ==
    [status: {"none", "running"} \cup Final,
     detached: BOOLEAN, hasJob: BOOLEAN,    \* Detached; RemoteJobID is set
     collected: BOOLEAN,
     since: {"none", "set", "old"},         \* UnreachableSince; older than goneAfter
     gone: BOOLEAN]                         \* failed with its node (failGone)

ProcType ==
    [pc: {"idle", "build", "record", "upload", "stream", "results", "over",
          "lock", "read", "status", "fetch", "sync", "write", "fill", "after"},
     copy: RecordType,
     todo: {"collect", "fail", "since", "clear", "save", "finalize"},
     ret: {"none", "done", "notdone", "unreach", "404", "bad"},
     asked: BOOLEAN]        \* the run: Ctrl+C was pressed, or --detach was given

HistTypeOK ==
    /\ rec \in RecordType /\ torn \in BOOLEAN
    /\ lockBy \in Procs \cup {"none"}
    /\ proc \in [Procs -> ProcType]
    /\ at \in {"none", "running", "ended", "forgotten"}
    /\ code \in {"none", "zero", "error", "cancelled"}
    /\ leased \in {"none", "held", "bound", "free"}
    /\ nodeUp \in BOOLEAN /\ online \in BOOLEAN /\ redo \in BOOLEAN
    /\ trouble \in 0..MaxTrouble /\ synced \in Nat

NoRecord == [status |-> "none", detached |-> FALSE, hasJob |-> FALSE, collected |-> FALSE,
             since |-> "none", gone |-> FALSE]
Idle == [pc |-> "idle", copy |-> NoRecord, todo |-> "collect", ret |-> "none", asked |-> FALSE]

HistInit ==
    /\ rec = NoRecord /\ torn = FALSE /\ lockBy = "none"
    /\ \E detach \in BOOLEAN : proc = [p \in Procs |-> [Idle EXCEPT !.asked = (p = "run" /\ detach)]]
    /\ at = "none" /\ code = "none" /\ leased = "none"
    /\ nodeUp = TRUE /\ online = TRUE /\ trouble = 0 /\ synced = 0 /\ redo = FALSE

Env == <<at, code, leased, nodeUp, online, trouble>>
File == <<rec, torn, lockBy>>
Tally == <<synced, redo>>

Go(p, r) == proc' = [proc EXCEPT ![p] = r]
To(p, pc) == Go(p, [proc[p] EXCEPT !.pc = pc])
Run == proc["run"]

\* pendingDetached.
Pending(r) == r.detached /\ r.hasJob /\ ~r.collected /\ r.status = "running"

----------------------------------------------------------------------------
(* The command of the run: newRunCmd's default path, Run and RunTask. *)

\* acceptWithin, CommitLease.
AcceptRun ==
    /\ Run.pc = "idle"
    /\ \/ leased' = "held" /\ To("run", "build")
       \/ Go("run", [Idle EXCEPT !.pc = "over"]) /\ UNCHANGED leased
    /\ UNCHANGED <<File, Tally, at, code, nodeUp, online, trouble>>

\* CompleteLease and releaseCancelledLease: lost if the node cannot be reached.
Release == leased' = IF nodeUp /\ leased \in {"held", "bound"} THEN "free" ELSE leased

\* BuildEnvironment; a failed or stopped build has no record.
BuildRun ==
    /\ Run.pc = "build"
    /\ \/ To("run", "record") /\ UNCHANGED leased
       \/ Go("run", [Idle EXCEPT !.pc = "over"]) /\ Release
    /\ UNCHANGED <<File, Tally, at, code, nodeUp, online, trouble>>

\* NewRecord, SaveRecord and UpdateStage; then UploadJob.
RecordRun ==
    /\ Run.pc = "record"
    /\ LET r == [NoRecord EXCEPT !.status = "running", !.detached = Run.asked]
       IN rec' = r /\ Go("run", [Run EXCEPT !.pc = "upload", !.copy = r])
    /\ UNCHANGED <<torn, lockBy, Env, Tally>>

\* Ends the run with a status: the deferred Finalize.
Ends(s) == [Run EXCEPT !.pc = "write", !.todo = "finalize", !.copy.status = s]

UploadRun ==
    /\ Run.pc = "upload"
    /\ \/ /\ nodeUp /\ at' = "running" /\ leased' = "bound"
          /\ To("run", "stream") /\ UNCHANGED code
       \/ Go("run", Ends("failed")) /\ UNCHANGED <<at, code, leased>>
       \/ Go("run", Ends("cancelled")) /\ Release /\ UNCHANGED <<at, code>>
    /\ UNCHANGED <<File, Tally, nodeUp, online, trouble>>

\* RunTask's record of a job that runs on.
Detaches(todo) ==
    Go("run", [Run EXCEPT !.pc = "write", !.todo = todo,
                          !.copy.detached = TRUE, !.copy.hasJob = TRUE])

\* StreamExecute: the done frame, a detach, Ctrl+C, or a lost connection, which
\* judgeLostConnection takes for a dead node, a finished or a running job.
StreamRun ==
    /\ Run.pc = "stream"
    /\ \/ /\ nodeUp /\ at = "ended"
          /\ IF code = "zero" THEN To("run", "results")
             ELSE Go("run", Ends(IF code = "cancelled" THEN "cancelled" ELSE "failed"))
          /\ UNCHANGED <<at, code, leased>>
       \/ Detaches("save") /\ UNCHANGED <<at, code, leased>>
       \/ /\ IF nodeUp /\ at = "running" THEN at' = "ended" /\ code' = "cancelled" /\ leased' = "free"
             ELSE UNCHANGED <<at, code, leased>>
          /\ Go("run", Ends("cancelled"))
       \/ /\ ~nodeUp \/ at = "forgotten"
          /\ Go("run", Ends("failed"))
          /\ UNCHANGED <<at, code, leased>>
       \/ /\ nodeUp /\ at = "ended"
          /\ Detaches("collect")
          /\ UNCHANGED <<at, code, leased>>
    /\ UNCHANGED <<File, Tally, nodeUp, online, trouble>>

\* syncResults; a ResultsError fails the run.
ResultsRun ==
    /\ Run.pc = "results"
    /\ \/ nodeUp /\ synced' = synced + 1 /\ Go("run", Ends("succeeded"))
       \/ UNCHANGED synced /\ Go("run", Ends("failed"))
    /\ UNCHANGED <<File, Env, redo>>

\* After the record is written: a detached job keeps its lease, and one that
\* ended on its node is collected at once.
FinishRun ==
    /\ Run.pc = "after"
    /\ LET detached == Run.todo = "save" \/ (Run.todo = "collect" /\ Run.ret \notin {"none", "done"})
       IN \/ Run.todo = "collect" /\ Run.ret = "none" /\ To("run", "lock") /\ UNCHANGED leased
          \/ ~(Run.todo = "collect" /\ Run.ret = "none") /\ Go("run", [Idle EXCEPT !.pc = "over"])
             /\ IF detached THEN UNCHANGED leased ELSE Release
    /\ UNCHANGED <<File, Tally, at, code, nodeUp, online, trouble>>

----------------------------------------------------------------------------
(* The two that finish detached jobs. *)

\* A pass of collectDetached: an unlocked look, and a record it cannot read is
\* left for the next pass.
WatchLook ==
    /\ proc["watch"].pc = "idle"
    /\ ~torn /\ Pending(rec)
    /\ Go("watch", [Idle EXCEPT !.pc = "lock", !.copy = rec])
    /\ UNCHANGED <<File, Env, Tally>>

\* Attach resolves the id, follows the job unless it is finished here, and
\* collects it, also after a Ctrl+C that cancelled it.
AttachLook ==
    /\ proc["attach"].pc = "idle"
    /\ ~torn /\ rec.hasJob /\ rec.status = "running"
    /\ Go("attach", [Idle EXCEPT !.pc = "stream", !.copy = rec])
    /\ UNCHANGED <<File, Env, Tally>>

AttachEnd ==
    /\ proc["attach"].pc = "stream"
    /\ \/ ~nodeUp /\ UNCHANGED <<at, code, leased>>
       \/ at \in {"ended", "forgotten"} /\ UNCHANGED <<at, code, leased>>
       \/ nodeUp /\ at = "running" /\ at' = "ended" /\ code' = "cancelled" /\ leased' = "free"
    /\ To("attach", "lock")
    /\ UNCHANGED <<File, Tally, nodeUp, online, trouble>>

TakeLock(p) ==
    /\ proc[p].pc = "lock" /\ lockBy = "none"
    /\ lockBy' = p
    /\ To(p, "read")
    /\ UNCHANGED <<rec, torn, Env, Tally>>

\* What a locked section returns, with the lock let go.
Ret(p, r) ==
    /\ Go(p, [proc[p] EXCEPT !.pc = "after", !.ret = r])
    /\ lockBy' = IF lockBy = p THEN "none" ELSE lockBy

\* A mutant of the next: failGone does not look again.
FailBlind(r) == TRUE
\* failGone: collected or finished meanwhile?
StillLost(r) == Pending(r)

\* A mutant of the next: collect takes the record it was called with.
NeverCollected(r) == FALSE
\* collect: another process collected while this one waited for the lock?
AlreadyCollected(r) == r.collected

\* The record is read again under the lock: collect, failGone and
\* setUnreachableSince.
ReadAgain(p) ==
    LET s == proc[p] IN
    /\ s.pc = "read"
    /\ IF torn \/ rec.status = "none" THEN Ret(p, "bad")
       ELSE CASE s.todo = "collect" /\ AlreadyCollected(rec) -> Ret(p, "done")
              [] s.todo = "collect" /\ ~AlreadyCollected(rec) ->
                   Go(p, [s EXCEPT !.pc = "status", !.copy = rec]) /\ UNCHANGED lockBy
              [] s.todo = "fail" /\ ~StillLost(rec) -> Ret(p, "done")
              [] s.todo = "fail" /\ StillLost(rec) ->
                   /\ Go(p, [s EXCEPT !.pc = "write",
                                      !.copy = [rec EXCEPT !.status = "failed", !.gone = TRUE]])
                   /\ UNCHANGED lockBy
              [] s.todo \in {"since", "clear"} ->
                   /\ Go(p, [s EXCEPT !.pc = "write",
                                !.copy = [rec EXCEPT !.since = IF s.todo = "since" THEN "set" ELSE "none"]])
                   /\ UNCHANGED lockBy
    /\ UNCHANGED <<rec, torn, Env, Tally>>

\* JobStatus.
AskStatus(p) ==
    /\ proc[p].pc = "status"
    /\ CASE ~nodeUp -> Ret(p, "unreach")
         [] nodeUp /\ at = "forgotten" -> Ret(p, "404")
         [] nodeUp /\ at = "running" -> Ret(p, "notdone")
         [] nodeUp /\ at = "ended" -> To(p, "fetch") /\ UNCHANGED lockBy
    /\ UNCHANGED <<rec, torn, Env, Tally>>

\* fetchOutputFile and replayToLogs.
FetchOutput(p) ==
    /\ proc[p].pc = "fetch"
    /\ CASE ~nodeUp -> Ret(p, "unreach") \/ Ret(p, "bad")
         [] nodeUp /\ at = "forgotten" -> Ret(p, "404")
         [] nodeUp /\ at = "ended" -> To(p, "sync") /\ UNCHANGED lockBy
    /\ UNCHANGED <<rec, torn, Env, Tally>>

\* Only a script that succeeded has results to sync; failing to is the run's
\* failure, not a reason to collect again.
SyncResults(p) ==
    LET s == proc[p]
        As(st) == Go(p, [s EXCEPT !.pc = "write", !.copy.status = st, !.copy.collected = TRUE,
                                      !.copy.gone = FALSE])
    IN
    /\ s.pc = "sync"
    /\ \/ code = "zero" /\ nodeUp /\ synced' = synced + 1 /\ As("succeeded")
       \/ code = "zero" /\ (~nodeUp \/ at = "forgotten") /\ UNCHANGED synced /\ As("failed")
       \/ code # "zero" /\ UNCHANGED synced /\ As(IF code = "cancelled" THEN "cancelled" ELSE "failed")
    /\ UNCHANGED <<File, Env, redo>>

\* SaveRecord: os.WriteFile empties the file, then writes it.  A failed write
\* is a fault; so is a directory that is not there any more.
Empty(p) ==
    /\ proc[p].pc = "write"
    /\ \/ rec.status # "none" /\ torn' = TRUE /\ To(p, "fill") /\ UNCHANGED <<lockBy, trouble, redo>>
       \/ /\ rec.status = "none" \/ trouble < MaxTrouble
          /\ trouble' = IF rec.status = "none" THEN trouble ELSE trouble + 1
          /\ redo' = (redo \/ proc[p].copy.collected)
          /\ Ret(p, "bad") /\ UNCHANGED torn
    /\ UNCHANGED <<rec, at, code, leased, nodeUp, online, synced>>

Fill(p) ==
    LET s == proc[p]
        first == p = "run" /\ s.todo = "collect" /\ ~s.copy.collected
    IN
    /\ s.pc = "fill"
    /\ rec' = IF rec.status = "none" THEN rec ELSE s.copy
    /\ torn' = FALSE
    /\ IF first THEN To(p, "after") /\ UNCHANGED lockBy ELSE Ret(p, "done")
    /\ UNCHANGED <<Env, Tally>>

\* A mutant of the next: a node that forgot the job is asked again.
NotLost(s) == s.ret = "unreach" /\ online /\ s.copy.since # "none" /\ rec.since = "old"
\* nodeGone: the node does not know the job, or it has been unreachable for
\* goneAfter by the clock on the record, and this machine is online.
NodeGone(s) == s.ret = "404" \/ (s.ret = "unreach" /\ online /\ s.copy.since # "none" /\ rec.since = "old")

\* The rest of the watcher's pass.
WatchAfter ==
    LET s == proc["watch"]
        Do(todo) == Go("watch", [s EXCEPT !.pc = "lock", !.todo = todo])
    IN
    /\ s.pc = "after"
    /\ CASE s.todo = "collect" /\ NodeGone(s) -> Do("fail")
         [] s.todo = "collect" /\ ~NodeGone(s) /\ s.ret = "unreach" /\ online /\ s.copy.since = "none" -> Do("since")
         [] s.todo = "collect" /\ ~NodeGone(s) /\ s.ret = "notdone" /\ s.copy.since # "none" -> Do("clear")
         [] OTHER -> Go("watch", Idle)
    /\ UNCHANGED <<File, Env, Tally>>

AttachAfter ==
    /\ proc["attach"].pc = "after"
    /\ Go("attach", Idle)
    /\ UNCHANGED <<File, Env, Tally>>

\* jobs prune: a record's directory nobody added a file to for a week, whatever
\* its job does.
PruneHistory ==
    /\ rec.status # "none" /\ rec.since = "old"
    /\ rec' = NoRecord /\ torn' = FALSE
    /\ UNCHANGED <<lockBy, proc, Env, Tally>>

----------------------------------------------------------------------------
(* The world. *)

ScriptEnds ==
    /\ at = "running"
    /\ at' = "ended" /\ leased' = "free"
    /\ code' \in {"zero", "error"}
    /\ UNCHANGED <<File, proc, nodeUp, online, trouble, Tally>>

\* The node prunes a finished job, or restarts without its state.
Forgets ==
    /\ at \in {"running", "ended"} /\ trouble < MaxTrouble
    /\ at' = "forgotten" /\ leased' = "free" /\ trouble' = trouble + 1
    /\ UNCHANGED <<File, proc, code, nodeUp, online, Tally>>

NodeFlips ==
    /\ trouble < MaxTrouble
    /\ nodeUp' = ~nodeUp /\ trouble' = trouble + 1
    /\ UNCHANGED <<File, proc, at, code, leased, online, Tally>>

GoesOffline ==
    /\ online /\ trouble < MaxTrouble
    /\ online' = FALSE /\ trouble' = trouble + 1
    /\ UNCHANGED <<File, proc, at, code, leased, nodeUp, Tally>>

BackOnline ==
    /\ ~online /\ online' = TRUE
    /\ UNCHANGED <<File, proc, at, code, leased, nodeUp, trouble, Tally>>

\* goneAfter passes.
DayPasses ==
    /\ rec.since = "set"
    /\ rec' = [rec EXCEPT !.since = "old"]
    /\ UNCHANGED <<torn, lockBy, proc, Env, Tally>>

\* A process is killed: its lock goes, a file it had emptied stays empty.  The
\* daemon and attach are started again.
Killed(p) ==
    /\ proc[p].pc \notin {"idle", "over"} /\ trouble < MaxTrouble
    /\ trouble' = trouble + 1
    /\ lockBy' = IF lockBy = p THEN "none" ELSE lockBy
    /\ redo' = (redo \/ (proc[p].copy.collected /\ proc[p].pc \in {"write", "fill"}))
    /\ Go(p, [Idle EXCEPT !.pc = IF p = "run" THEN "over" ELSE "idle"])
    /\ UNCHANGED <<rec, torn, at, code, leased, nodeUp, online, synced>>

Locked(p) == TakeLock(p) \/ ReadAgain(p) \/ AskStatus(p) \/ FetchOutput(p) \/ SyncResults(p) \/ Empty(p) \/ Fill(p)
WatchStep == WatchLook \/ Locked("watch") \/ WatchAfter
RunStep == RecordRun \/ UploadRun \/ ResultsRun \/ FinishRun \/ Locked("run")

HistNext ==
    \/ AcceptRun \/ BuildRun \/ StreamRun \/ RunStep \/ WatchStep
    \/ AttachLook \/ AttachEnd \/ Locked("attach") \/ AttachAfter
    \/ PruneHistory \/ ScriptEnds \/ Forgets \/ NodeFlips \/ GoesOffline \/ BackOnline \/ DayPasses
    \/ \E p \in Procs : Killed(p)

HistSpec == HistInit /\ [][HistNext]_histVars

----------------------------------------------------------------------------
(* Properties. *)

\* What the record says happened: a success has its results here, applied once
\* unless a collect stopped before its record was written; a job cancelled or
\* failed says so; a detached job is failed with its node only when the node
\* forgot it or a day passed on its clock; and the lease of a run that is over
\* is left held only by a command that was killed or could not reach the node.
RecordIsTrue ==
    /\ HistTypeOK
    /\ rec.status = "succeeded" => code = "zero" /\ synced > 0
    /\ rec.collected => rec.status \in Final /\ ~rec.gone
    /\ rec.collected /\ code # "zero" => rec.status = IF code = "cancelled" THEN "cancelled" ELSE "failed"
    /\ synced > 1 => redo
    /\ rec.gone => rec.status = "failed" /\ (at = "forgotten" \/ rec.since = "old")
    /\ Run.pc = "over" /\ leased = "held" => trouble > 0

\* A finished record stays as it is, but for one failed with its node, which a
\* collect that began before may still bring back.
FinalStays == [][rec.status \in Final /\ rec'.status # "none" /\ ~rec.gone =>
                    rec'.status = rec.status /\ rec'.collected = rec.collected]_histVars

\* "Terminal states - no transitions out".
TerminalStays == [][rec.status \in Final /\ rec'.status # "none" => rec'.status = rec.status]_histVars
=============================================================================
