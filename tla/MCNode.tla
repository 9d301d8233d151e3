------------------------------- MODULE MCNode -------------------------------
(***************************************************************************)
(* A node, for TLC: the lease and job tables of its daemon, how the daemon *)
(* is started and stopped, the memory it prepares for its jobs, and what   *)
(* it promises of it beside another daemon.  The first two meet in the     *)
(* state file only, which NodeLeases models as disk and DaemonLife as the  *)
(* one job it may record, and the leases of the last are NodeLeases' with  *)
(* their sizes, so a behaviour is about one of the four (part).            *)
(***************************************************************************)
EXTENDS NodeLeases, DaemonLife, NodeMemory, MemoryPromises, TLC

CONSTANTS d1, d2, r1, r2, r3

MCAskedOf == (r1 :> d1) @@ (r2 :> d1) @@ (r3 :> d2)
MCWants == (r1 :> 4) @@ (r2 :> 2) @@ (r3 :> 2)
MCShare == (d1 :> 3) @@ (d2 :> 2)

VARIABLE part

\* A part that does not run starts in one state.
NodeInit ==
  /\ part \in {"tables", "daemon", "memory", "promises"}
  /\ Init /\ LifeInit /\ ScopeInit /\ PromiseInit
  /\ part # "daemon" => ~service
  /\ part # "memory" => In("scope") = {Daemon}

NodeNext ==
  \/ part = "tables" /\ Next /\ UNCHANGED <<part, lifeVars, scopeVars, promiseVars>>
  \/ part = "daemon" /\ LifeNext /\ UNCHANGED <<part, vars, scopeVars, promiseVars>>
  \/ part = "memory" /\ ScopeNext /\ UNCHANGED <<part, vars, lifeVars, promiseVars>>
  \/ part = "promises" /\ PromiseNext /\ UNCHANGED <<part, vars, lifeVars, scopeVars>>

NodeSpec == NodeInit /\ [][NodeNext]_<<part, vars, lifeVars, scopeVars, promiseVars>>

\* The memory of a machine: the daemon's scope, its budget and its watchdog's
\* choices are what their definitions say, and the daemons of the machine
\* promise no more of it than they may.
MemoryIsRight ==
  /\ part = "memory" => ScopeIsRight
  /\ part = "promises" => PromisesHold

Symmetry == Permutations(Lease)
=============================================================================
