----------------------------- MODULE WarmWorker -----------------------------
(***************************************************************************)
(* The warm pool worker of one store path (runLocal in poolrun.go and      *)
(* poolworker.go).  The pool manager keeps at most one worker process per  *)
(* store; requests share it, one at a time under its mutex.  A request     *)
(* that is cancelled while the worker runs it kills the worker; a request  *)
(* whose submit fails forgets the worker, stops it and runs its chunk in a *)
(* process of its own (the cold path).                                     *)
(***************************************************************************)
EXTENDS Naturals, FiniteSets

CONSTANTS
  Request,
  MaxWorkers,   \* bound: workers spawned
  MaxDeaths,    \* bound: workers that die by themselves
  MaxCancels    \* bound: requests whose requester goes away

ASSUME WorkerAssumption ==
  MaxWorkers \in Nat /\ MaxDeaths \in Nat /\ MaxCancels \in Nat

VARIABLES
  current,   \* poolManager.workers[store]; 0 for none
  spawned,   \* workers spawned so far; worker ids are 1..spawned
  alive,     \* workers whose process runs
  killed,    \* poolWorker.killed
  holder,    \* who holds poolWorker.mu; None for nobody
  waits,     \* calls of cmd.Wait on each worker
  pc,        \* where each request is in runLocal
  mine,      \* the worker a request was given
  left,      \* the request's context is cancelled
  armed,     \* cancelled requests whose AfterFunc has yet to kill their worker
  stopped,   \* stopAll has run: the daemon is shutting down
  deaths

workerVars == <<current, spawned, alive, killed, holder, waits, pc, mine, left,
          armed, stopped, deaths>>

None   == "none"
Worker == 1..MaxWorkers

WorkerInit ==
  /\ current = 0 /\ spawned = 0
  /\ alive = {} /\ killed = {}
  /\ holder = [w \in Worker |-> None]
  /\ waits  = [w \in Worker |-> 0]
  /\ pc     = [r \in Request |-> "idle"]
  /\ mine   = [r \in Request |-> 0]
  /\ left   = {} /\ armed = {}
  /\ stopped = FALSE
  /\ deaths = 0

Ended == {"ok", "error", "cancelled"}

Goto(r, l) == pc' = [pc EXCEPT ![r] = l]
-----------------------------------------------------------------------------
(* A request cancelled before it starts runs nothing.                      *)

StartGone(r) ==
  /\ pc[r] = "idle" /\ r \in left
  /\ Goto(r, "cancelled")
  /\ UNCHANGED <<current, spawned, alive, killed, holder, waits, mine, left, armed, stopped, deaths>>

(* runLocal under pm.mu: reuse the worker or spawn one; a spawn that fails *)
(* leaves the request to the cold path.                                    *)

Reuse(r) ==
  /\ pc[r] = "idle" /\ current # 0 /\ current \notin killed
  /\ mine' = [mine EXCEPT ![r] = current]
  /\ Goto(r, "queued")
  /\ UNCHANGED <<current, spawned, alive, killed, holder, waits, left, armed, stopped, deaths>>

Spawn(r) ==
  /\ pc[r] = "idle" /\ (current = 0 \/ current \in killed)
  /\ spawned < MaxWorkers
  /\ spawned' = spawned + 1
  /\ current' = spawned + 1
  /\ alive'   = alive \union {spawned + 1}
  /\ mine'    = [mine EXCEPT ![r] = spawned + 1]
  /\ Goto(r, "queued")
  /\ UNCHANGED <<killed, holder, waits, left, armed, stopped, deaths>>

SpawnFails(r) ==
  /\ pc[r] = "idle" /\ (current = 0 \/ current \in killed)
  /\ current' = 0
  /\ Goto(r, "cold")
  /\ UNCHANGED <<spawned, alive, killed, holder, waits, mine, left, armed, stopped, deaths>>
-----------------------------------------------------------------------------
(* submit, under the worker's mutex.                                       *)

\* A request that was cancelled in the queue, or finds its worker stopped or
\* cannot write its payload, returns without a task sent.
Refused(r) ==
  /\ pc[r] = "queued" /\ holder[mine[r]] = None
  /\ Goto(r, "failed")
  /\ UNCHANGED <<current, spawned, alive, killed, holder, waits, mine, left, armed, stopped, deaths>>

Send(r) ==
  /\ pc[r] = "queued" /\ holder[mine[r]] = None
  /\ r \notin left /\ mine[r] \notin killed
  /\ holder' = [holder EXCEPT ![mine[r]] = r]
  /\ Goto(r, "sent")
  /\ UNCHANGED <<current, spawned, alive, killed, waits, mine, left, armed, stopped, deaths>>

\* The context's AfterFunc: the cancelled request kills its worker.
KillOnCancel(r) ==
  /\ r \in armed
  /\ armed'  = armed \ {r}
  /\ killed' = killed \union {mine[r]}
  /\ alive'  = alive \ {mine[r]}
  /\ UNCHANGED <<current, spawned, holder, waits, pc, mine, left, stopped, deaths>>

\* The reply is read, or its error, or the end of the worker's output.  A
\* request cancelled by then first waits for the worker to exit.
Answered(r, good) ==
  /\ pc[r] = "sent"
  /\ good => mine[r] \in alive
  /\ IF r \in left
     THEN Goto(r, IF good THEN "reapok" ELSE "reaperror") /\ UNCHANGED holder
     ELSE /\ Goto(r, IF good THEN "ok" ELSE "failed")
          /\ holder' = [holder EXCEPT ![mine[r]] = None]
  /\ UNCHANGED <<current, spawned, alive, killed, waits, mine, left, armed, stopped, deaths>>

Reap(r) ==
  /\ pc[r] \in {"reapok", "reaperror"} /\ mine[r] \notin alive
  /\ waits'  = [waits EXCEPT ![mine[r]] = @ + 1]
  /\ holder' = [holder EXCEPT ![mine[r]] = None]
  /\ Goto(r, IF pc[r] = "reapok" THEN "ok" ELSE "failed")
  /\ UNCHANGED <<current, spawned, alive, killed, mine, left, armed, stopped, deaths>>
-----------------------------------------------------------------------------
(* runLocal after a failed submit.                                         *)

\* Mutant: the entry is dropped whichever worker it holds.
DroppedAny(w) == 0

\* dropWorker: the entry is dropped while it still holds the failed worker.
Dropped(w) == IF current = w THEN 0 ELSE current

DropCancelled(r) ==
  /\ pc[r] = "failed" /\ r \in left
  /\ current' = Dropped(mine[r])
  /\ Goto(r, "cancelled")
  /\ UNCHANGED <<spawned, alive, killed, holder, waits, mine, left, armed, stopped, deaths>>

Drop(r) ==
  /\ pc[r] = "failed" /\ r \notin left
  /\ current' = Dropped(mine[r])
  /\ Goto(r, "dropped")
  /\ UNCHANGED <<spawned, alive, killed, holder, waits, mine, left, armed, stopped, deaths>>

\* killOnce: whoever stops the worker also reaps it.
Kill(r) ==
  /\ pc[r] = "dropped"
  /\ killed' = killed \union {mine[r]}
  /\ alive'  = alive \ {mine[r]}
  /\ waits'  = [waits EXCEPT ![mine[r]] = @ + IF mine[r] \in killed THEN 0 ELSE 1]
  /\ Goto(r, "cold")
  /\ UNCHANGED <<current, spawned, holder, mine, left, armed, stopped, deaths>>

\* runPoolChunk: a process of its own, killed when the request is cancelled.
Cold(r) ==
  /\ pc[r] = "cold"
  /\ Goto(r, "ok") \/ Goto(r, "error") \/ (r \in left /\ Goto(r, "cancelled"))
  /\ UNCHANGED <<current, spawned, alive, killed, holder, waits, mine, left, armed, stopped, deaths>>
-----------------------------------------------------------------------------
\* submit's AfterFunc starts when a request with a task sent is cancelled.
Armed(r) == IF pc[r] = "sent" THEN armed \union {r} ELSE armed

CancelRequest(r) ==
  /\ pc[r] \notin Ended /\ r \notin left
  /\ Cardinality(left) < MaxCancels
  /\ left'  = left \union {r}
  /\ armed' = Armed(r)
  /\ UNCHANGED <<current, spawned, alive, killed, holder, waits, pc, mine, stopped, deaths>>

\* stopAll, on the daemon's shutdown.
StopAll ==
  /\ ~stopped /\ stopped' = TRUE
  /\ killed'  = killed \union ({current} \ {0})
  /\ alive'   = alive \ {current}
  /\ current' = 0
  /\ UNCHANGED <<spawned, holder, waits, pc, mine, left, armed, deaths>>

WorkerDies(w) ==
  /\ w \in alive /\ deaths < MaxDeaths
  /\ alive' = alive \ {w}
  /\ deaths' = deaths + 1
  /\ UNCHANGED <<current, spawned, killed, holder, waits, pc, mine, left, armed, stopped>>

\* A finished requester asks for another chunk.
Again(r) ==
  /\ pc[r] \in Ended /\ r \notin left
  /\ Goto(r, "idle")
  /\ mine' = [mine EXCEPT ![r] = 0]
  /\ UNCHANGED <<current, spawned, alive, killed, holder, waits, left, armed, stopped, deaths>>
-----------------------------------------------------------------------------
Step(r) ==
  \/ StartGone(r) \/ Reuse(r) \/ Spawn(r) \/ SpawnFails(r) \/ Refused(r) \/ Send(r)
  \/ Reap(r) \/ DropCancelled(r) \/ Drop(r) \/ Kill(r) \/ Cold(r)

WorkerNext ==
  \/ \E r \in Request :
       \/ Step(r) \/ KillOnCancel(r) \/ CancelRequest(r) \/ Again(r)
       \/ \E good \in BOOLEAN : Answered(r, good)
  \/ \E w \in Worker : WorkerDies(w)
  \/ StopAll

WorkerSpec == WorkerInit /\ [][WorkerNext]_workerVars

\* Goroutines run, and the pipe of a dead worker reads its end.  The
\* user's function may run forever: nothing is assumed of a live worker's task.
WorkerFairness ==
  \A r \in Request :
    /\ WF_workerVars(pc[r] # "idle" /\ Step(r)) /\ WF_workerVars(KillOnCancel(r))
    /\ WF_workerVars(mine[r] \in killed /\ Answered(r, FALSE))
WorkerFairSpec == WorkerSpec /\ WorkerFairness
-----------------------------------------------------------------------------
\* Only spawned workers run, are killed, held or waited for, and a request in a
\* worker's queue was given one.
WorkerTypeOK ==
  /\ spawned \in 0..MaxWorkers /\ current \in 0..spawned
  /\ alive \subseteq 1..spawned /\ killed \subseteq 1..spawned
  /\ holder \in [Worker -> Request \union {None}]
  /\ waits \in [Worker -> Nat]
  /\ pc \in [Request -> Ended \union
       {"idle", "queued", "sent", "reapok", "reaperror", "failed", "dropped", "cold"}]
  /\ mine \in [Request -> 0..MaxWorkers]
  /\ left \subseteq Request /\ armed \subseteq left /\ stopped \in BOOLEAN /\ deaths \in Nat

\* Sharing, failed submits and workers that die never leak a process: one that
\* runs is the store's worker, or a request that failed on it will stop it, or
\* it was given to a request that was cancelled.
LeakedByCancelOnly ==
  /\ WorkerTypeOK
  /\ \A w \in alive :
       current = w \/ \E r \in Request : mine[r] = w /\ (pc[r] = "dropped" \/ r \in left)

\* dropWorker's comment: no worker's process is leaked past stopAll.  One that
\* runs is the store's worker, or a request that failed on it will stop it.
NoLeakedWorker ==
  \A w \in alive : current = w \/ \E r \in Request : mine[r] = w /\ pc[r] = "dropped"

\* A cancelled request whose task runs on the worker returns, even when the
\* task would run forever, and the worker's mutex is free for those behind it.
CancelledTaskEnds ==
  \A r \in Request :
    (pc[r] = "sent" /\ r \in left)
      ~> (pc[r] \in Ended /\ \A w \in Worker : holder[w] # r)

\* killOnce: exactly one caller reaps a stopped worker.
ReapedOnce == \A w \in Worker : waits[w] <= 1
=============================================================================
