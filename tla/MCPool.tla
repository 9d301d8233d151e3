------------------------------- MODULE MCPool -------------------------------
(***************************************************************************)
(* The pool for TLC: the chunks a daemon runs, the warm worker of a store, *)
(* a map raced by the Python shim, the bodies on a link and the routing of *)
(* a request.  The five share no state, so a behaviour is about one of     *)
(* them (part) and the others stay as they are.                            *)
(***************************************************************************)
EXTENDS PoolMap, WarmWorker, ShimRace, PoolWire

\* The chunks that arrive: of any size, whether or not the origin works on them too.
AnyKinds == [mode : {"nosplit", "small", "split"}, elsewhere : BOOLEAN, off : {FALSE}]

VARIABLE part

poolVars == <<part, vars, workerVars, raceVars, bodyVars, reqVars>>

\* A part that does not run starts in one state.
PoolInit ==
    /\ part \in {"chunks", "worker", "race", "bodies", "route"}
    /\ Init
    /\ part # "chunks" => \A c \in Chunk : kind[c] = CHOOSE k \in Kinds : TRUE
    /\ WorkerInit
    /\ RaceInit
    /\ part # "race" => bad = {} /\ lost = 0 /\ ~paused
    /\ WireInit
    /\ part # "bodies" => \A s \in Sends : needs[s] = CHOOSE b \in Blobs : TRUE
    /\ part # "route" => knows

Chunks(A) == part = "chunks" /\ A /\ UNCHANGED <<part, workerVars, raceVars, bodyVars, reqVars>>
Works(A)  == part = "worker" /\ A /\ UNCHANGED <<part, vars, raceVars, bodyVars, reqVars>>
Races(A)  == part = "race" /\ A /\ UNCHANGED <<part, vars, workerVars, bodyVars, reqVars>>

PoolNext ==
    \/ Chunks(Next)
    \/ Works(WorkerNext)
    \/ Races(RaceNext)
    \/ part = "bodies" /\ BodyNext /\ UNCHANGED <<part, vars, workerVars, raceVars>>
    \/ part = "route" /\ RouteNext /\ UNCHANGED <<part, vars, workerVars, raceVars>>

\* Goroutines and threads run, timers fire, work on this node and cancelled
\* requests end, a dead worker's pipe reads its end, and a chunk the cluster
\* holds is overdue in the end.  A peer owes nothing, the user's function may
\* run for ever on a live worker.
PoolFairness ==
    /\ \A c \in Chunk : WF_poolVars(Chunks(Reply(c)))
    /\ \A c \in Chunk : \A i \in 1..Items :
         /\ WF_poolVars(Chunks(i \in DOMAIN parts[c] /\ PartStep(c, i)))
         /\ WF_poolVars(Chunks(i \in DOMAIN parts[c] /\
                    (CopyWins(c, i, Here) \/ CopyFails(c, i, Here) \/ LastCopyFails(c, i, Here))))
    /\ \A q \in Peer : WF_poolVars(Chunks(LoserEnds(q)))
    /\ \A r \in Request :
         /\ WF_poolVars(Works(pc[r] # "idle" /\ Step(r))) /\ WF_poolVars(Works(KillOnCancel(r)))
         /\ WF_poolVars(Works(mine[r] \in killed /\ Answered(r, FALSE)))
    /\ WF_poolVars(Races(LocalStep))
    /\ WF_poolVars(Races(\E S \in SUBSET OpenChunks : RunAgain(S)))

PoolSpec == PoolInit /\ [][PoolNext]_poolVars /\ PoolFairness

\* The map of the shim returns although the cluster stays silent, fails or
\* answers late; and a cancelled task on a warm worker ends.
MapReturns == (part = "race" ~> lpc = "done") /\ CancelledTaskEnds
=============================================================================
