-------------------------------- MODULE MCDdp -------------------------------
(***************************************************************************)
(* Distributed training for TLC: the board of the lead daemon with its     *)
(* ranks, the plan of a ring, the command that waits for the ranks, the    *)
(* averages of the syncs, and the shares of the data.  The five share no   *)
(* state here (what the lead daemon answers a joiner is open in RingRanks; *)
(* DdpBoard says only which ranks are in a round), so a behaviour is about *)
(* one of them (part).                                                     *)
(***************************************************************************)
EXTENDS DdpBoard, RingPlan, RingRanks, DdpReduce, DdpShares

CONSTANT Parts      \* the parts a run looks at

VARIABLE part

ddpVars == <<part, vars, planVars, ringVars, reduceVars, shareVars>>

\* A part that does not run starts in one state.
DdpInit ==
    /\ part \in Parts
    /\ Init
    /\ IF part = "plan" THEN PlanInit
       ELSE node = <<>> /\ asked = <<>> /\ plan = NoPlan /\ stage = "ask"
    /\ RanksInit /\ (part # "ranks" => job[1].on = 1)
    /\ IF part = "reduce" THEN ReduceInit ELSE ReduceIdle
    /\ IF part = "shares" THEN ShareInit ELSE ShareIdle

Board(A) == part = "board" /\ A /\ UNCHANGED <<part, planVars, ringVars, reduceVars, shareVars>>
Run(A) ==  part = "ranks" /\ A /\ UNCHANGED <<part, vars, planVars, reduceVars, shareVars>>

DdpNext ==
    \/ Board(Next)
    \/ part = "plan" /\ PlanNext /\ UNCHANGED <<part, vars, ringVars, reduceVars, shareVars>>
    \/ Run(RanksNext)
    \/ part = "reduce" /\ ReduceNext /\ UNCHANGED <<part, vars, planVars, ringVars, shareVars>>
    \/ part = "shares" /\ ShareNext /\ UNCHANGED <<part, vars, planVars, ringVars, reduceVars>>

DdpSpec == DdpInit /\ [][DdpNext]_ddpVars

\* A blocked request is answered and its timer fires; the command's loop and
\* its grower go on, and a rank that was cancelled ends.
DdpFairSpec ==
    /\ DdpSpec
    /\ \A r \in Ranks : WF_ddpVars(Board(Handled(r)))
    /\ WF_ddpVars(Run(AwaitStep)) /\ WF_ddpVars(Run(GrowStep))
    /\ \A r \in RankIds : WF_ddpVars(Run(r \in cancelled /\ RankEnds(r, "cancelled")))

\* Nobody waits for ever: a blocked sync is answered although ranks die, are
\* given up or dropped meanwhile, and the command of a run that has failed
\* stops what still runs, a rank its grower is about to add too, and returns.
RingEnds == SyncReturns /\ FailedRunEnds

\* Together the ranks train as one machine would: a sync averages what they
\* computed and nothing else, an epoch has every sample once in steps of the
\* script's batch, a refit drops a rank only if the ring is faster without it,
\* and never one of a ring whose size the user chose.
TrainsAsOne == StepIsExact /\ EpochIsWhole /\ RefitPays /\ FixedStays
=============================================================================
