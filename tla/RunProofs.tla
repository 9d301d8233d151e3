------------------------------ MODULE RunProofs ------------------------------
(***************************************************************************)
(* Theorems about a run: the submitter's rounds (Submitter), and what the  *)
(* history on the submitter's machine records of it (RunHistory).          *)
(*                                                                         *)
(* Submitter, for any nodes, attempts, leases, outages and cuts: a job is  *)
(* started MaxExecAttempts times at most and each start that runs holds    *)
(* its lease, but for a sweep the start came into and an answer that told  *)
(* nothing; and where only machines, daemons and the submitter's own       *)
(* network fail, a second copy runs only beside an orphan of a daemon that *)
(* died, or beside one given up on such an answer.  Both need the network  *)
(* to stay as it is while a lost connection is judged (Steady).            *)
(*                                                                         *)
(* RunHistory, for any number of kills, failed writes and outages: what    *)
(* the record of a run says happened did, and a finished record is not     *)
(* changed.  The invariant, HistInv, says who may write the record when:   *)
(* the command alone (Upfront) until its job is on record, then only the   *)
(* holder of the lock, whose copy agrees with a record that is not         *)
(* collected yet (CopyInv).                                                *)
(***************************************************************************)
EXTENDS Submitter, RunHistory, FiniteSetTheorems, TLAPS

-----------------------------------------------------------------------------
(* The submitter.                                                           *)

Started == {l \in Slot : leases[l].job # "none"}

\* Where no execution of the current placement has begun.
Unstarted == {"start", "find", "try", "commit", "upload", "backoff"}
Holding == {"commit", "upload", "run"} \union Judging

\* The rounds and the probes stay within what they are compared with.
LoopInv ==
  /\ pc \in {"find", "try"} => round <= Window
  /\ pc = "probe" => probes < ProbeTries

\* The current placement's lease, and that a job runs on a machine that is up.
MineInv ==
  /\ pc \in Holding => mine \in Slot /\ leases[mine] \in Leases
  /\ pc \in {"commit", "upload"} => leases[mine].job = "none"
  /\ pc \in {"run"} \union Judging => leases[mine].job # "none"
  /\ \A l \in Running : NodeOf(l) \in up

\* Every start but the current one was counted as a failure.
CountInv ==
  /\ pc \in Unstarted => Cardinality(Started) <= failures /\ failures < MaxExecAttempts
  /\ pc \in {"run"} \union Judging =>
       Cardinality(Started) <= failures + 1 /\ failures < MaxExecAttempts
  /\ Cardinality(Started) <= MaxExecAttempts

\* A node given up for dead that runs the job is still out of reach.
SilentInv ==
  pc = "net" /\ leases[mine].job = "running" => offline \/ MyNode \in cut

SubInv == TypeOK /\ LoopInv /\ MineInv /\ CountInv /\ SilentInv /\ LeaseCoversJob

\* Where no path breaks: one placement's job runs at a time, but for those
\* given up on an answer that told nothing, and each orphan cost a node.
Ours == Running \ misread
Behind == Orphans \ misread

OneCopyInv ==
  /\ cut = {}
  /\ Ours \subseteq {mine}
  /\ pc \in Unstarted => Ours = {}
  /\ budget \in [crash : Nat, offline : Nat, cut : Nat]
  /\ Cardinality(Behind) <= budget.crash

-----------------------------------------------------------------------------
(* Leases and counts. *)

LeaseTable == [Slot -> Leases \union {Unused}]

LEMMA UnusedLease == Unused \notin Leases /\ Unused.job = "none" /\ Unused.state = "none"
BY DEF Unused, Leases

LEMMA StartedFinite ==
    /\ IsFiniteSet(Started) /\ Cardinality(Started) \in Nat
<1>1. IsFiniteSet(Slot)
  <2>1. 1 \in Int /\ MaxLeases \in Int
    BY SubmitterAssumption
  <2> QED
    BY <2>1, FS_Interval DEF Slot
<1>2. Started \subseteq Slot
  BY DEF Started
<1> QED
  BY <1>1, <1>2, FS_Subset, FS_CardinalityType

\* Fewer leases with a job, or one more, are as many fewer, or one more.
LEMMA StartedFewer ==
    ASSUME Started' \subseteq Started
    PROVE  Cardinality(Started') \in Nat /\ Cardinality(Started') <= Cardinality(Started)
BY StartedFinite, FS_Subset, FS_CardinalityType

LEMMA StartedOneMore ==
    ASSUME NEW l, Started' \subseteq Started \union {l}
    PROVE  Cardinality(Started') \in Nat /\ Cardinality(Started') <= Cardinality(Started) + 1
<1>1. /\ IsFiniteSet(Started \union {l})
      /\ Cardinality(Started \union {l}) \in Nat
      /\ Cardinality(Started \union {l}) <= Cardinality(Started) + 1
  BY StartedFinite, FS_AddElement, FS_CardinalityType
<1>2. Cardinality(Started') \in Nat /\ Cardinality(Started') <= Cardinality(Started \union {l})
  BY <1>1, FS_Subset, FS_CardinalityType
<1> QED
  BY <1>1, <1>2, StartedFinite

\* A step that changes no job and no node of a lease.
Quiet ==
    /\ leases' \in LeaseTable
    /\ \A l \in Slot : /\ leases'[l].job = leases[l].job /\ leases'[l].node = leases[l].node
                       /\ leases[l] \in Leases => leases'[l] \in Leases

LEMMA QuietSets ==
    ASSUME leases \in LeaseTable, Quiet
    PROVE  Started' = Started /\ Running' = Running /\ Orphans' = Orphans
BY DEF Quiet, Started, Running, Orphans

LEMMA SameQuiet ==
    ASSUME leases \in LeaseTable, leases' = leases
    PROVE  Quiet
BY DEF Quiet

LEMMA CompletedQuiet ==
    ASSUME leases \in LeaseTable, mine \in Slot, leases[mine] \in Leases, leases' = Completed
    PROVE  /\ Quiet
           /\ \A l \in Slot : leases'[l].state = leases[l].state \/ (l = mine /\ Reach(MyNode))
<1> DEFINE freed == [leases[mine] EXCEPT !.state = "freed"]
<1>1. freed \in Leases /\ freed.job = leases[mine].job /\ freed.node = leases[mine].node
  BY DEF Leases
<1>2. CASE Reach(MyNode)
  <2>1. leases' = [leases EXCEPT ![mine] = freed]
    BY <1>2 DEF Completed
  <2> HIDE DEF freed
  <2> QED
    BY <1>1, <1>2, <2>1 DEF Quiet, LeaseTable
<1>3. CASE ~Reach(MyNode)
  BY <1>3, SameQuiet DEF Completed
<1> QED
  BY <1>2, <1>3

\* A lease is granted: it has no job, whatever the slot held.
LEMMA ReserveStep ==
    ASSUME leases \in LeaseTable, up \subseteq Node, NEW n, Reserve(n)
    PROVE  LET l == Cardinality(Granted) + 1 IN
           /\ l \in Slot /\ leases' \in LeaseTable
           /\ leases'[l] \in Leases /\ leases'[l].job = "none"
           /\ \A k \in Slot \ {l} : leases'[k] = leases[k]
           /\ Started' \subseteq Started /\ Running' \subseteq Running
           /\ Orphans' \subseteq Orphans
<1> DEFINE l == Cardinality(Granted) + 1
           new == [node |-> n, state |-> "reserved", job |-> "none"]
<1>1. l \in Slot /\ n \in Node /\ leases' = [leases EXCEPT ![l] = new]
  BY DEF Reserve, Reach
<1>2. new \in Leases /\ new.job = "none"
  BY <1>1 DEF Leases
<1> HIDE DEF l, new
<1>3. leases' \in LeaseTable /\ leases'[l] = new /\ \A k \in Slot \ {l} : leases'[k] = leases[k]
  BY <1>1, <1>2 DEF LeaseTable
<1>4. Started' \subseteq Started /\ Running' \subseteq Running /\ Orphans' \subseteq Orphans
  BY <1>1, <1>2, <1>3 DEF Started, Running, Orphans
<1> QED
  BY <1>1, <1>2, <1>3, <1>4 DEF l

-----------------------------------------------------------------------------
(* The invariant. *)

LEMMA SubmitterInit == Init => SubInv /\ OneCopyInv
<1> SUFFICES ASSUME Init
             PROVE  SubInv /\ OneCopyInv
  OBVIOUS
<1>1. leases \in LeaseTable /\ \A l \in Slot : leases[l] = Unused
  BY DEF Init, LeaseTable
<1>2. Started = {} /\ Running = {} /\ Orphans = {}
  BY <1>1, UnusedLease DEF Started, Running, Orphans
<1>3. Cardinality(Started) = 0 /\ Ours = {} /\ Behind = {} /\ Cardinality(Behind) = 0
  BY <1>2, FS_EmptySet DEF Ours, Behind
<1>6. 0 \in 0..(Window + 1) /\ 0 \in 0..ProbeTries /\ 0 \in 0..MaxLeases
  BY SubmitterAssumption
<1>7. tried \in [Node -> Nat] /\ leases \in [Slot -> Leases \union {Unused}]
  BY <1>1 DEF Init, LeaseTable
<1>4. TypeOK
  BY <1>6, <1>7 DEF Init, TypeOK
<1>5. LoopInv /\ MineInv /\ CountInv /\ SilentInv /\ LeaseCoversJob
  BY <1>2, <1>3, SubmitterAssumption
     DEF Init, LoopInv, MineInv, CountInv, SilentInv, LeaseCoversJob, Holding, Judging
<1> QED
  BY <1>3, <1>4, <1>5 DEF Init, SubInv, OneCopyInv

\* The nodes and the network, as far as the steps of the command see them.
Still == UNCHANGED <<ctrlC, up, offline, cut, budget>>

\* The marks of leases: what is marked late or misread stays so.
Marked ==
  /\ due' \subseteq Slot /\ late' \subseteq Slot /\ misread' \subseteq Slot
  /\ late \subseteq late' /\ misread \subseteq misread'

LEMMA MarksStay ==
    ASSUME SubInv, UNCHANGED <<late, misread>>, due' = due \/ due' = {}
    PROVE  Marked
BY DEF Marked, SubInv, TypeOK

\* Steps of the command that touch no lease.
Calm ==
    \/ Begin \/ FindNode \/ Requeue \/ BackOff \/ Detach \/ LoseConnection
    \/ ProbeSilent \/ SelfIsOffline

LEMMA CalmStep ==
    ASSUME SubInv, Calm
    PROVE  SubInv' /\ leases' = leases /\ mine' = mine /\ Still /\ Marked
<1>1. leases' = leases /\ mine' = mine /\ Still /\ failures' = failures
      /\ UNCHANGED <<due, late, misread>>
  BY DEF Calm, Begin, FindNode, Requeue, BackOff, Detach, LoseConnection, ProbeSilent,
         SelfIsOffline, Still, run, world, net
<1>2. Started' = Started /\ Running' = Running /\ Cardinality(Started) \in Nat
  BY <1>1, StartedFinite DEF Started, Running
<1>3. ASSUME pc' \in Returned \union Judging \union
                     {"start", "find", "try", "commit", "upload", "run", "backoff"},
             pc' \in Unstarted => pc \in Unstarted,
             pc' \in Holding => pc \in {"run"} \union Judging /\ pc' \in Judging,
             pc' = "net" => pc = "probe" /\ ~Reach(MyNode)
      PROVE  MineInv' /\ CountInv' /\ SilentInv' /\ LeaseCoversJob'
  <2>1. MineInv'
    BY <1>1, <1>2, <1>3 DEF SubInv, MineInv, Still, Holding, Judging, NodeOf
  <2>2. CountInv'
    BY <1>1, <1>2, <1>3 DEF SubInv, CountInv, Holding, Judging, Unstarted
  <2>3. SilentInv'
    BY <1>1, <1>3 DEF SubInv, SilentInv, MineInv, Still, Running, Reach, NodeOf, MyNode, Holding, Judging
  <2>4. LeaseCoversJob'
    BY <1>1, <1>2 DEF SubInv, LeaseCoversJob
  <2> QED
    BY <2>1, <2>2, <2>3, <2>4
<1>4. /\ pc' \in Returned \union Judging \union
              {"start", "find", "try", "commit", "upload", "run", "backoff"}
      /\ pc' \in Unstarted => pc \in Unstarted
      /\ pc' \in Holding => pc \in {"run"} \union Judging /\ pc' \in Judging
      /\ pc' = "net" => pc = "probe" /\ ~Reach(MyNode)
  BY DEF Calm, Begin, FindNode, Requeue, BackOff, Detach, LoseConnection, ProbeSilent,
         SelfIsOffline, Returned, Judging, Unstarted, Holding
<1>5. /\ round' \in 0..(Window + 1) /\ fit' \subseteq Node
      /\ order' \subseteq fit' /\ asked' \subseteq fit' /\ probes' \in 0..ProbeTries
      /\ tried' = tried /\ refused' = refused
      /\ LoopInv'
  <2>1. Window \in Nat /\ ProbeTries \in Nat \ {0}
    BY SubmitterAssumption
  <2>2. CASE Begin
    BY <2>1, <2>2 DEF Begin, SubInv, TypeOK, LoopInv
  <2>3. CASE FindNode
    BY <2>1, <2>3 DEF FindNode, SubInv, TypeOK, LoopInv
  <2>4. CASE Requeue
    BY <2>1, <2>4 DEF Requeue, SubInv, TypeOK, LoopInv
  <2>5. CASE BackOff \/ Detach \/ SelfIsOffline
    BY <2>1, <2>5 DEF BackOff, Detach, SelfIsOffline, run, SubInv, TypeOK, LoopInv
  <2>6. CASE LoseConnection \/ ProbeSilent
    BY <2>1, <2>6 DEF LoseConnection, ProbeSilent, SubInv, TypeOK, LoopInv
  <2> QED
    BY <2>2, <2>3, <2>4, <2>5, <2>6 DEF Calm
<1>6. TypeOK' /\ Marked
  BY <1>1, <1>4, <1>5, MarksStay DEF SubInv, TypeOK, Still
<1> QED
  BY <1>1, <1>3, <1>4, <1>5, <1>6 DEF SubInv

\* What a step of the command that changes no job leaves of the invariant.
LEMMA QuietStep ==
    ASSUME SubInv, Quiet, Still, mine' = mine,
           pc' \in Holding => pc \in Holding,
           pc' \in {"commit", "upload"} => pc \in {"commit", "upload"},
           pc' \in {"run"} \union Judging => pc \in {"run"} \union Judging
    PROVE  /\ MineInv' /\ Started' = Started /\ Running' = Running
           /\ Cardinality(Started) \in Nat
<1>1. Started' = Started /\ Running' = Running /\ leases \in LeaseTable
  BY QuietSets DEF SubInv, TypeOK, LeaseTable
<1>2. MineInv'
  <2>1. pc' \in Holding => mine' \in Slot /\ leases'[mine'] \in Leases
    BY DEF SubInv, MineInv, Quiet
  <2>2. pc' \in {"commit", "upload"} => leases'[mine'].job = "none"
    <3>1. pc \in {"commit", "upload"} => mine \in Slot /\ leases[mine].job = "none"
      BY DEF SubInv, MineInv, Holding
    <3> QED
      BY <3>1 DEF Quiet
  <2>4. pc' \in {"run"} \union Judging => leases'[mine'].job # "none"
    <3>1. pc \in {"run"} \union Judging => mine \in Slot /\ leases[mine].job # "none"
      BY DEF SubInv, MineInv, Holding, Judging
    <3> QED
      BY <3>1 DEF Quiet
  <2>3. \A l \in Running' : leases'[l].node \in up'
    <3>1. \A l \in Running : l \in Slot /\ leases[l].node \in up
      BY DEF SubInv, MineInv, Running, NodeOf
    <3> QED
      BY <1>1, <3>1 DEF Quiet, Still
  <2> QED
    BY <2>1, <2>2, <2>3, <2>4 DEF MineInv, NodeOf
<1> QED
  BY <1>1, <1>2, StartedFinite

\* The variables TypeOK is about that the rest of the steps do not touch.
LoopVars == <<round, fit, order, asked, refused, probes, mine>>

\* FailedHere, wherever the job of the placement does not run on, its node is
\* out of reach, or it is given up on an answer that told nothing.
LEMMA FailedStep ==
    ASSUME SubInv, FailedHere, pc \in {"upload", "run"} \union Judging,
           misread' = misread \/ misread' = misread \union (Running \intersect {mine}),
           leases[mine].job = "running" => ~Reach(MyNode) \/ mine \in misread'
    PROVE  SubInv' /\ Quiet /\ Still /\ Marked /\ mine' = mine
           /\ pc' \in {"cancelled", "failed", "backoff"}
<1>1. /\ leases' = Completed /\ Still /\ UNCHANGED LoopVars
      /\ \/ pc' = "cancelled" /\ UNCHANGED <<tried, failures>>
         \/ /\ tried' = [tried EXCEPT ![MyNode] = @ + 1] /\ failures' = failures + 1
            /\ pc' = IF failures + 1 >= MaxExecAttempts THEN "failed" ELSE "backoff"
  BY DEF FailedHere, Counted, Still, LoopVars, net
<1>2. leases \in LeaseTable /\ mine \in Slot /\ leases[mine] \in Leases
      /\ failures \in Nat /\ MaxExecAttempts \in Nat
  BY SubmitterAssumption DEF SubInv, TypeOK, LeaseTable, MineInv, Holding
<1>3. Quiet /\ \A l \in Slot : leases'[l].state = leases[l].state \/ (l = mine /\ Reach(MyNode))
  BY <1>1, <1>2, CompletedQuiet
<1>4. pc' \in {"cancelled", "failed", "backoff"}
  BY <1>1
<1>5. /\ MineInv' /\ Started' = Started /\ Running' = Running
      /\ Cardinality(Started) \in Nat
  BY <1>1, <1>3, <1>4, QuietStep DEF Holding, Judging, LoopVars
<1>6. failures' \in Nat /\ CountInv'
  <2>1. /\ Cardinality(Started) <= failures + 1 /\ failures < MaxExecAttempts
        /\ Cardinality(Started) <= MaxExecAttempts
    BY <1>2, <1>5 DEF SubInv, CountInv, Unstarted
  <2>2. CASE pc' = "cancelled"
    BY <1>1, <1>2, <1>5, <2>1, <2>2 DEF CountInv, Unstarted, Judging
  <2>3. CASE pc' # "cancelled"
    BY <1>1, <1>2, <1>5, <2>1, <2>3 DEF CountInv, Unstarted, Judging
  <2> QED
    BY <2>2, <2>3
<1>10. Marked
  BY DEF FailedHere, Marked, SubInv, TypeOK, Running
<1>7. LeaseCoversJob'
  <2> SUFFICES ASSUME NEW l \in Running', l \notin late', l \notin misread'
               PROVE  leases'[l].state = "running"
    BY DEF LeaseCoversJob
  <2>1. l \in Slot /\ l \in Running \ (late \union misread)
    BY <1>5, <1>10 DEF Marked, Running
  <2>2. leases[l].state = "running"
    BY <2>1 DEF SubInv, LeaseCoversJob
  <2>3. ~(l = mine /\ Reach(MyNode))
    BY <2>1 DEF Running
  <2> QED
    BY <1>3, <2>1, <2>2, <2>3
<1>8. LoopInv' /\ SilentInv'
  BY <1>4 DEF LoopInv, SilentInv
<1>9. TypeOK'
  <2>1. tried' \in [Node -> Nat]
    BY <1>1 DEF SubInv, TypeOK
  <2> QED
    BY <1>1, <1>3, <1>4, <1>6, <1>10, <2>1
       DEF SubInv, TypeOK, LoopVars, Quiet, LeaseTable, Still, Returned, Marked
<1> QED
  BY <1>1, <1>3, <1>4, <1>5, <1>6, <1>7, <1>8, <1>9, <1>10 DEF SubInv, LoopVars

\* Steps of a placement: a node is asked.
LEMMA AskStep ==
    ASSUME SubInv, NEW n \in Node, Accepted(n) \/ NotAccepted(n)
    PROVE  SubInv' /\ Still /\ Marked /\ Running' \subseteq Running
           /\ Orphans' \subseteq Orphans /\ pc' \in {"try", "commit"}
<1>1. /\ pc = "try" /\ n \in order
      /\ \/ fit' = fit /\ order' = order \ {n} /\ asked' = asked \union {n}
         \/ fit' = {} /\ order' = {} /\ asked' = {}
      /\ UNCHANGED <<round, tried, refused, failures, probes>> /\ Still
      /\ UNCHANGED <<late, misread>> /\ (due' = due \/ due' = {})
      /\ \/ leases' = leases /\ pc' = pc /\ mine' = mine
         \/ Reserve(n) /\ pc' = pc /\ mine' = mine
         \/ Reserve(n) /\ pc' = "commit" /\ mine' = Cardinality(Granted) + 1
  BY DEF Accepted, NotAccepted, Ask, NextAsked, Still, net
<1>2. leases \in LeaseTable /\ up \subseteq Node
  BY DEF SubInv, TypeOK, LeaseTable
<1>3. Reserve(n) =>
           /\ Cardinality(Granted) + 1 \in Slot /\ leases' \in LeaseTable
           /\ leases'[Cardinality(Granted) + 1] \in Leases
           /\ leases'[Cardinality(Granted) + 1].job = "none"
           /\ \A k \in Slot \ {Cardinality(Granted) + 1} : leases'[k] = leases[k]
           /\ Started' \subseteq Started /\ Running' \subseteq Running
           /\ Orphans' \subseteq Orphans
  BY <1>2, ReserveStep
<1>4. /\ leases' \in LeaseTable /\ Started' \subseteq Started /\ Running' \subseteq Running
      /\ Orphans' \subseteq Orphans
      /\ \A l \in Running' : leases'[l] = leases[l]
  <2>1. leases' = leases \/ Reserve(n)
    BY <1>1
  <2>2. leases' = leases => Started' = Started /\ Running' = Running /\ Orphans' = Orphans
    BY DEF Started, Running, Orphans
  <2> QED
    BY <1>2, <1>3, <2>1, <2>2 DEF Running
<1>5. mine' \in 0..MaxLeases /\ pc' \in {"try", "commit"}
  BY <1>1, <1>3 DEF SubInv, TypeOK, Slot
<1>11. Marked
  BY <1>1, MarksStay
<1>6. TypeOK'
  BY <1>1, <1>4, <1>5, <1>11 DEF SubInv, TypeOK, LeaseTable, Still, Marked
<1>7. LoopInv' /\ SilentInv'
  BY <1>1, <1>5 DEF SubInv, LoopInv, SilentInv
<1>8. MineInv'
  <2>1. pc' \in Holding => mine' \in Slot /\ leases'[mine'] \in Leases /\ leases'[mine'].job = "none"
    BY <1>1, <1>3 DEF Holding, Judging
  <2>2. \A l \in Running' : leases'[l].node \in up'
    BY <1>1, <1>4 DEF SubInv, MineInv, NodeOf, Still
  <2> QED
    BY <1>5, <2>1, <2>2 DEF MineInv, NodeOf, Holding, Judging
<1>9. CountInv'
  <2>1. Cardinality(Started') <= Cardinality(Started) /\ Cardinality(Started') \in Nat
        /\ Cardinality(Started) \in Nat
    BY <1>4, StartedFewer, StartedFinite
  <2>2. failures \in Nat /\ failures' = failures /\ MaxExecAttempts \in Nat
    BY <1>1, SubmitterAssumption DEF SubInv, TypeOK
  <2> QED
    BY <1>1, <1>5, <2>1, <2>2 DEF SubInv, CountInv, Unstarted, Judging
<1>10. LeaseCoversJob'
  BY <1>1, <1>4 DEF SubInv, LeaseCoversJob
<1> QED
  BY <1>1, <1>4, <1>5, <1>6, <1>7, <1>8, <1>9, <1>10, <1>11 DEF SubInv

\* Steps of the command that change its lease only, and start nothing.
Handles ==
    Commit \/ CommitFails \/ Refuse \/ Permanent \/ Succeed \/ StopJob

LEMMA HandleStep ==
    ASSUME SubInv, Handles
    PROVE  /\ SubInv' /\ Still /\ Marked /\ Running' \subseteq Running
           /\ Orphans' \subseteq Orphans /\ mine' = mine
           /\ pc' \in {"start", "upload"} \union Returned
           /\ pc' \in Unstarted => pc \in Unstarted
<1>1. /\ Still /\ UNCHANGED <<round, fit, order, asked, tried, failures, probes, mine>>
      /\ UNCHANGED <<due, late, misread>>
      /\ refused' \in {refused, refused \union {MyNode}}
      /\ Refuse => MyNode \in up
      /\ ~Refuse => refused' = refused
      /\ pc \in Holding
      /\ pc' \in {"start", "upload"} \union Returned
      /\ pc' \in Unstarted => pc \in {"commit", "upload"}
      /\ pc' = "upload" => pc = "commit"
  BY DEF Handles, Commit, CommitFails, Refuse, Permanent, Succeed, StopJob, Still, run, world, net,
         Holding, Judging, Returned, Unstarted, Reach
<1>2. /\ leases \in LeaseTable /\ mine \in Slot /\ leases[mine] \in Leases
      /\ failures \in Nat /\ MaxExecAttempts \in Nat /\ up \subseteq Node
  BY <1>1, SubmitterAssumption DEF SubInv, TypeOK, LeaseTable, MineInv
\* What becomes of the lease: freed, committed, or stopped with its job.
<1> DEFINE old == leases[mine]
           committed == [old EXCEPT !.state = "running"]
           stopped == [old EXCEPT !.state = "freed", !.job = IF @ = "running" THEN "ended" ELSE @]
           freed == [old EXCEPT !.state = "freed"]
<1>3. \/ leases' = leases
      \/ leases' = [leases EXCEPT ![mine] = committed]
      \/ pc # "commit" /\ leases' = [leases EXCEPT ![mine] = freed] /\ old.job # "running"
      \/ pc # "commit" /\ leases' = [leases EXCEPT ![mine] = stopped]
  <2>1. pc \in {"commit", "upload"} => old.job = "none"
    BY DEF SubInv, MineInv
  <2>2. Commit \/ CommitFails => \/ leases' = leases
                               \/ leases' = [leases EXCEPT ![mine] = committed]
    BY DEF Commit, CommitFails
  <2>3. Refuse \/ Permanent \/ Succeed => leases' = Completed /\ pc # "commit" /\ old.job # "running"
    BY <2>1 DEF Refuse, Permanent, Succeed
  <2>4. leases' = Completed => leases' = leases \/ leases' = [leases EXCEPT ![mine] = freed]
    BY DEF Completed
  <2>5. StopJob => pc # "commit" /\ (leases' = leases \/ leases' = [leases EXCEPT ![mine] = stopped])
    BY DEF StopJob
  <2> QED
    BY <2>2, <2>3, <2>4, <2>5 DEF Handles
<1>4. /\ committed \in Leases /\ committed.job = old.job /\ committed.node = old.node
      /\ committed.state = "running"
      /\ freed \in Leases /\ freed.job = old.job /\ freed.node = old.node
      /\ stopped \in Leases /\ stopped.job # "running" /\ stopped.node = old.node
      /\ stopped.job = "none" <=> old.job = "none"
      /\ stopped.job = "orphan" => old.job = "orphan"
  BY <1>2 DEF Leases
<1> HIDE DEF old, committed, stopped, freed
<1>5. /\ leases' \in LeaseTable /\ leases'[mine] \in Leases
      /\ \A l \in Slot : leases'[l].node = leases[l].node
      /\ Started' \subseteq Started /\ Running' \subseteq Running /\ Orphans' \subseteq Orphans
      /\ \A l \in Running' : leases'[l].state = leases[l].state \/ leases'[l].state = "running"
      /\ old.job = "none" => leases'[mine].job = "none"
  <2>1. CASE leases' = leases
    BY <1>2, <2>1 DEF Started, Running, Orphans, old
  <2>2. ASSUME NEW r \in Leases, leases' = [leases EXCEPT ![mine] = r],
               r.node = old.node, r.job = "none" <=> old.job = "none",
               r.job = "orphan" => old.job = "orphan",
               r.job = "running" => old.job = "running" /\ r.state = "running"
        PROVE  /\ leases' \in LeaseTable /\ leases'[mine] \in Leases
               /\ \A l \in Slot : leases'[l].node = leases[l].node
               /\ Started' \subseteq Started /\ Running' \subseteq Running
               /\ Orphans' \subseteq Orphans
               /\ \A l \in Running' : leases'[l].state = leases[l].state \/ leases'[l].state = "running"
               /\ old.job = "none" => leases'[mine].job = "none"
    <3>1. \A l \in Slot : leases'[l] = IF l = mine THEN r ELSE leases[l]
      BY <1>2, <2>2 DEF LeaseTable
    <3>2. leases' \in LeaseTable
      BY <1>2, <2>2 DEF LeaseTable
    <3> QED
      BY <1>2, <2>2, <3>1, <3>2 DEF Started, Running, Orphans, old
  <2> QED
    BY <1>3, <1>4, <2>1, <2>2
<1>6. TypeOK'
  <2>1. refused' \subseteq Node
    BY <1>1, <1>2 DEF SubInv, TypeOK
  <2> QED
    BY <1>1, <1>5, <2>1 DEF SubInv, TypeOK, LeaseTable, Still, Returned
<1>11. Marked
  BY <1>1, MarksStay
<1>7. LoopInv' /\ SilentInv'
  BY <1>1 DEF LoopInv, SilentInv, Returned
<1>8. MineInv'
  <2>1. pc' \in Holding => mine' \in Slot /\ leases'[mine'] \in Leases
    BY <1>1, <1>2, <1>5
  <2>2. pc' \in {"commit", "upload"} => leases'[mine'].job = "none"
    BY <1>1, <1>5 DEF SubInv, MineInv, old, Returned
  <2>3. \A l \in Running' : leases'[l].node \in up'
    BY <1>1, <1>5 DEF SubInv, MineInv, NodeOf, Still, Running
  <2> QED
    BY <1>1, <2>1, <2>2, <2>3 DEF MineInv, NodeOf, Returned, Judging
<1>9. CountInv'
  <2>1. Cardinality(Started') <= Cardinality(Started) /\ Cardinality(Started') \in Nat
        /\ Cardinality(Started) \in Nat
    BY <1>5, StartedFewer, StartedFinite
  <2> QED
    BY <1>1, <1>2, <2>1 DEF SubInv, CountInv, Unstarted, Judging, Returned
<1>10. LeaseCoversJob'
  BY <1>1, <1>5 DEF SubInv, LeaseCoversJob
<1> QED
  BY <1>1, <1>5, <1>6, <1>7, <1>8, <1>9, <1>10, <1>11 DEF SubInv, Unstarted

LEMMA StartStep ==
    ASSUME SubInv, Start
    PROVE  SubInv' /\ Still /\ Marked /\ Running' \subseteq Running \union {mine}
           /\ Orphans' \subseteq Orphans /\ mine' = mine /\ pc' = "run"
<1>1. /\ pc = "upload" /\ Reach(MyNode) /\ pc' = "run" /\ Still
      /\ UNCHANGED <<round, fit, order, asked, tried, refused, failures, probes, mine>>
      /\ leases' = [leases EXCEPT ![mine].state = "running", ![mine].job = "running"]
      /\ misread' = misread /\ due' = {} /\ late' = late \union (due \intersect Held)
  BY DEF Start, Still, run, net
<1>2. /\ leases \in LeaseTable /\ mine \in Slot /\ leases[mine] \in Leases
      /\ failures \in Nat /\ MaxExecAttempts \in Nat
  BY <1>1, SubmitterAssumption DEF SubInv, TypeOK, LeaseTable, MineInv, Holding
<1> DEFINE r == [leases[mine] EXCEPT !.state = "running", !.job = "running"]
<1>3. r \in Leases /\ r.node = leases[mine].node /\ r.state = "running" /\ r.job = "running"
  BY <1>2 DEF Leases
<1>4. leases' = [leases EXCEPT ![mine] = r]
  BY <1>1, <1>2 DEF LeaseTable
<1> HIDE DEF r
<1>5. /\ leases' \in LeaseTable /\ leases'[mine] = r
      /\ \A l \in Slot \ {mine} : leases'[l] = leases[l]
  BY <1>2, <1>3, <1>4 DEF LeaseTable
<1>6. /\ Started' \subseteq Started \union {mine} /\ Running' \subseteq Running \union {mine}
      /\ Orphans' \subseteq Orphans
      /\ \A l \in Running' : l = mine \/ (l \in Running /\ leases'[l] = leases[l])
  BY <1>3, <1>5 DEF Started, Running, Orphans
<1>12. Marked
  BY <1>1 DEF Marked, SubInv, TypeOK
<1>7. TypeOK'
  BY <1>1, <1>5, <1>12 DEF SubInv, TypeOK, LeaseTable, Still, Marked
<1>8. LoopInv' /\ SilentInv'
  BY <1>1 DEF LoopInv, SilentInv
<1>9. MineInv'
  <2>1. \A l \in Running' : leases'[l].node \in up'
    <3>1. leases'[mine].node \in up
      BY <1>1, <1>3, <1>5 DEF NodeOf, MyNode, Reach
    <3>2. \A l \in Running : leases[l].node \in up
      BY DEF SubInv, MineInv, NodeOf
    <3>3. up' = up
      BY <1>1 DEF Still
    <3> QED
      BY <1>6, <3>1, <3>2, <3>3
  <2> QED
    BY <1>1, <1>2, <1>3, <1>5, <2>1 DEF MineInv, NodeOf
<1>10. CountInv'
  <2>1. Cardinality(Started') \in Nat /\ Cardinality(Started') <= Cardinality(Started) + 1
        /\ Cardinality(Started) \in Nat
    BY <1>6, StartedOneMore, StartedFinite
  <2> QED
    BY <1>1, <1>2, <2>1 DEF SubInv, CountInv, Unstarted
<1>11. LeaseCoversJob'
  BY <1>1, <1>3, <1>5, <1>6 DEF SubInv, LeaseCoversJob
<1> QED
  BY <1>1, <1>6, <1>7, <1>8, <1>9, <1>10, <1>11, <1>12 DEF SubInv

\* A probe is answered: the command returns, or the execution failed; a job
\* that runs on then is marked.
LEMMA ProbeAnsweredStep ==
    ASSUME SubInv, ProbeAnswered
    PROVE  /\ SubInv' /\ Still /\ Marked /\ Running' = Running /\ Orphans' = Orphans
           /\ mine' = mine
           /\ pc' \in Returned \/ (pc' = "backoff" /\ (mine \in Running => mine \in misread'))
<1>0. pc = "probe" /\ (StatusRead \/ NoStatusRead)
  BY DEF ProbeAnswered
<1>1. CASE NoStatusRead
  <2>1. FailedHere /\ misread' = misread \union (Running \intersect {mine})
    BY <1>1 DEF NoStatusRead
  <2>2. mine \in Slot
    BY <1>0 DEF SubInv, MineInv, Holding, Judging
  <2>3. leases[mine].job = "running" => mine \in misread'
    BY <2>1, <2>2 DEF Running
  <2>4. /\ SubInv' /\ Quiet /\ Still /\ Marked /\ mine' = mine
        /\ pc' \in {"cancelled", "failed", "backoff"}
    BY <1>0, <2>1, <2>3, FailedStep DEF Judging
  <2>5. Running' = Running /\ Orphans' = Orphans
    BY <2>4, QuietSets DEF SubInv, TypeOK, LeaseTable
  <2> QED
    BY <2>1, <2>4, <2>5 DEF Returned
<1>2. CASE StatusRead
  <2>1. /\ Still /\ leases' = leases /\ UNCHANGED <<due, late, misread>>
        /\ UNCHANGED <<round, fit, order, asked, tried, refused, failures, probes, mine>>
        /\ pc' \in CASE leases[mine].job = "running"          -> {"detached"}
                     [] leases[mine].job = "ended"            -> {"detached", "succeeded", "failed"}
                     [] leases[mine].job \in {"orphan", "lost"} -> {"detached", "failed"}
    BY <1>2 DEF StatusRead, Still, run, world, net
  <2>2. pc' \in Returned
    <3>1. mine \in Slot /\ leases[mine].job \in {"none", "running", "orphan", "ended", "lost"}
      BY <1>0 DEF SubInv, MineInv, Holding, Judging, Leases
    <3>2. leases[mine].job # "none"
      BY <1>0 DEF SubInv, MineInv, Judging
    <3> QED
      BY <2>1, <3>1, <3>2 DEF Returned
  <2>3. Quiet /\ Marked
    BY <2>1, SameQuiet, MarksStay DEF SubInv, TypeOK, LeaseTable
  <2>4. MineInv' /\ Started' = Started /\ Running' = Running /\ Cardinality(Started) \in Nat
    BY <2>1, <2>2, <2>3, QuietStep DEF Returned, Holding, Judging
  <2>5. CountInv'
    BY <2>1, <2>2, <2>4 DEF SubInv, CountInv, Returned, Unstarted, Judging
  <2>6. TypeOK' /\ LoopInv' /\ SilentInv' /\ LeaseCoversJob'
    BY <2>1, <2>2, <2>4 DEF SubInv, TypeOK, LoopInv, SilentInv, LeaseCoversJob, Returned, Judging, Still
  <2>7. Orphans' = Orphans
    BY <2>1 DEF Orphans
  <2> QED
    BY <2>1, <2>2, <2>3, <2>4, <2>5, <2>6, <2>7 DEF SubInv
<1> QED
  BY <1>0, <1>1, <1>2

\* What a step of a node makes of a lease: its job ends, is lost or left behind,
\* or it is freed where no job runs under it, or one that started too late.
LosesJob(l) ==
  /\ leases[l] \in Leases /\ leases'[l] \in Leases /\ leases'[l].node = leases[l].node
  /\ leases[l].job # "none" /\ leases'[l].job \notin {"none", "running"}
FreesSlot(l) ==
  /\ leases[l] \in Leases /\ leases'[l] \in Leases /\ leases'[l].node = leases[l].node
  /\ leases'[l].job = leases[l].job
  /\ leases[l].job = "running" => l \in late

NodeMoves ==
  /\ UNCHANGED <<pc, run, ctrlC, late, misread, offline, cut>>
  /\ up' \subseteq Node /\ due' \subseteq Slot
  /\ leases' \in LeaseTable
  /\ \A l \in Slot : leases'[l] = leases[l] \/ LosesJob(l) \/ FreesSlot(l)
  /\ \A l \in Slot : leases'[l].job = "running" => leases[l].node \in up'

LEMMA NodeStep ==
    ASSUME SubInv, NodeMoves
    PROVE  SubInv' /\ Marked /\ Running' \subseteq Running
<1>1. /\ UNCHANGED <<pc, run, ctrlC, late, misread, offline, cut>>
      /\ up' \subseteq Node /\ due' \subseteq Slot /\ leases' \in LeaseTable
      /\ \A l \in Slot : leases'[l] = leases[l] \/ LosesJob(l) \/ FreesSlot(l)
      /\ \A l \in Slot : leases'[l].job = "running" => leases[l].node \in up'
  BY DEF NodeMoves
<1>2. leases \in LeaseTable
  BY DEF SubInv, TypeOK, LeaseTable
<1>3. Marked
  BY <1>1 DEF Marked, SubInv, TypeOK
<1>4. /\ Started' \subseteq Started /\ Running' \subseteq Running
      /\ \A l \in Running' : /\ leases'[l].node = leases[l].node
                             /\ leases'[l] = leases[l] \/ l \in late
  BY <1>1 DEF Started, Running, LosesJob, FreesSlot
<1>5. TypeOK'
  BY <1>1, <1>3 DEF SubInv, TypeOK, LeaseTable, run, Marked
<1>6. MineInv'
  <2>1. /\ pc \in Holding => mine \in Slot /\ leases[mine] \in Leases
        /\ pc \in {"commit", "upload"} => mine \in Slot /\ leases[mine].job = "none"
        /\ pc \in {"run"} \union Judging => mine \in Slot /\ leases[mine].job # "none"
    BY DEF SubInv, MineInv, Holding
  <2>2. /\ pc \in Holding => leases'[mine] \in Leases
        /\ pc \in {"commit", "upload"} => leases'[mine].job = "none"
        /\ pc \in {"run"} \union Judging => leases'[mine].job # "none"
    BY <1>1, <2>1 DEF LosesJob, FreesSlot
  <2>3. \A l \in Running' : leases'[l].node \in up'
    BY <1>1, <1>4 DEF Running
  <2> QED
    BY <1>1, <2>1, <2>2, <2>3 DEF MineInv, NodeOf, run
<1>7. LoopInv'
  BY <1>1 DEF SubInv, LoopInv, run
<1>8. CountInv'
  <2>1. Cardinality(Started') <= Cardinality(Started) /\ Cardinality(Started') \in Nat
        /\ Cardinality(Started) \in Nat
    BY <1>4, StartedFewer, StartedFinite
  <2>2. failures \in Nat /\ failures' = failures /\ MaxExecAttempts \in Nat
    BY <1>1, SubmitterAssumption DEF SubInv, TypeOK, run
  <2> QED
    BY <1>1, <2>1, <2>2 DEF SubInv, CountInv
<1>9. SilentInv'
  <2>1. pc = "net" => mine \in Slot
    BY DEF SubInv, MineInv, Holding, Judging
  <2>2. pc = "net" /\ leases'[mine].job = "running" =>
           leases[mine].job = "running" /\ leases'[mine].node = leases[mine].node
    BY <1>1, <2>1 DEF LosesJob, FreesSlot
  <2> QED
    BY <1>1, <2>2 DEF SubInv, SilentInv, MyNode, NodeOf, run
<1>10. LeaseCoversJob'
  BY <1>1, <1>4 DEF SubInv, LeaseCoversJob
<1> QED
  BY <1>1, <1>3, <1>4, <1>5, <1>6, <1>7, <1>8, <1>9, <1>10 DEF SubInv, run

\* Steps of the nodes, with the leases they change.
LeaseSteps == \E l \in Slot : JobEnds(l) \/ OrphanEnds(l) \/ Sweep(l)
DeathSteps == \E n \in Node : Crash(n) \/ DaemonDies(n)
RestartSteps == \E n \in Node : Restart(n)

\* One lease changes.
LEMMA OneLease ==
    ASSUME SubInv, NEW l \in Slot, NEW r \in Leases, leases' = [leases EXCEPT ![l] = r],
           leases[l] \in Leases, r.node = leases[l].node, r.job \notin {"none", "running"} \/ r.job = leases[l].job,
           r.job # leases[l].job => leases[l].job # "none",
           leases[l].job = "running" /\ r.job = "running" => l \in late,
           UNCHANGED <<pc, run, ctrlC, world>>
    PROVE  NodeMoves /\ (r.job # "orphan" \/ leases[l].job = "orphan" => Orphans' \subseteq Orphans)
<1>1. leases \in LeaseTable
  BY DEF SubInv, TypeOK, LeaseTable
<1>2. leases'[l] = r /\ \A k \in Slot \ {l} : leases'[k] = leases[k]
  BY <1>1 DEF LeaseTable
<1>3. leases' \in LeaseTable
  BY <1>1 DEF LeaseTable
<1>4. leases'[l] = leases[l] \/ LosesJob(l) \/ FreesSlot(l)
  BY <1>2 DEF LosesJob, FreesSlot
<1>5. ASSUME NEW k \in Slot, leases'[k].job = "running" PROVE leases[k].node \in up'
  <2>1. k \in Running
    BY <1>2, <1>5 DEF Running
  <2> QED
    BY <2>1 DEF SubInv, MineInv, NodeOf, world, net
<1>6. NodeMoves
  BY <1>2, <1>3, <1>4, <1>5 DEF NodeMoves, world, net, SubInv, TypeOK
<1> QED
  BY <1>2, <1>6 DEF Orphans

LEMMA LeaseStep ==
    ASSUME SubInv, LeaseSteps
    PROVE  NodeMoves /\ Orphans' \subseteq Orphans /\ budget' = budget
<1>1. leases \in LeaseTable
  BY DEF SubInv, TypeOK, LeaseTable
<1>2. PICK l \in Slot : JobEnds(l) \/ OrphanEnds(l) \/ Sweep(l)
  BY DEF LeaseSteps
<1>3. leases[l] \in Leases
  BY <1>1, <1>2, UnusedLease DEF LeaseTable, JobEnds, OrphanEnds, Sweep, Orphans, Held
<1>4. CASE JobEnds(l)
  <2> DEFINE r == [leases[l] EXCEPT !.job = "ended", !.state = "freed"]
  <2>1. leases' = [leases EXCEPT ![l] = r] /\ leases[l].job = "running" /\ UNCHANGED <<pc, run, ctrlC, world>>
    BY <1>1, <1>4 DEF JobEnds, LeaseTable
  <2>2. r \in Leases /\ r.node = leases[l].node /\ r.job = "ended"
    BY <1>3 DEF Leases
  <2> HIDE DEF r
  <2> QED
    BY <1>3, <2>1, <2>2, OneLease DEF world, net
<1>5. CASE OrphanEnds(l)
  <2> DEFINE r == [leases[l] EXCEPT !.job = "lost"]
  <2>1. leases' = [leases EXCEPT ![l] = r] /\ leases[l].job = "orphan" /\ UNCHANGED <<pc, run, ctrlC, world>>
    BY <1>1, <1>5 DEF OrphanEnds, Orphans, LeaseTable
  <2>2. r \in Leases /\ r.node = leases[l].node /\ r.job = "lost"
    BY <1>3 DEF Leases
  <2> HIDE DEF r
  <2> QED
    BY <1>3, <2>1, <2>2, OneLease DEF world, net
<1>6. CASE Sweep(l)
  <2> DEFINE r == [leases[l] EXCEPT !.state = "freed"]
  <2>1. /\ leases' = [leases EXCEPT ![l] = r] /\ UNCHANGED <<pc, run, ctrlC, world>>
        /\ leases[l].job = "running" => l \in late
    BY <1>1, <1>6 DEF Sweep, Expired, Running, LeaseTable
  <2>2. r \in Leases /\ r.node = leases[l].node /\ r.job = leases[l].job
    BY <1>3 DEF Leases
  <2> HIDE DEF r
  <2> QED
    BY <1>3, <2>1, <2>2, OneLease DEF world, net
<1> QED
  BY <1>2, <1>4, <1>5, <1>6

\* A node goes down: only what ran there is left behind.
LEMMA DeathStep ==
    ASSUME SubInv, DeathSteps
    PROVE  NodeMoves /\ Orphans' \subseteq Orphans \union Running
           /\ budget' = [budget EXCEPT !.crash = @ + 1]
<1>1. leases \in LeaseTable
  BY DEF SubInv, TypeOK, LeaseTable
<1>2. PICK n \in Node, fate \in {"lost", "orphan"} : Dies(n, fate)
  BY DEF DeathSteps, Crash, DaemonDies
<1>3. /\ up' = up \ {n} /\ due' = {l \in due : NodeOf(l) # n}
      /\ leases' = [l \in Slot |-> IF NodeOf(l) = n /\ leases[l].job = "running"
                               THEN [leases[l] EXCEPT !.job = fate] ELSE leases[l]]
      /\ UNCHANGED <<pc, run, ctrlC, late, misread, offline, cut>>
      /\ budget' = [budget EXCEPT !.crash = @ + 1]
  BY <1>2 DEF Dies
<1>4. ASSUME NEW k \in Slot
      PROVE  /\ leases'[k] \in Leases \union {Unused} /\ (leases'[k] = leases[k] \/ LosesJob(k))
             /\ leases'[k].job = "running" => leases[k].job = "running" /\ NodeOf(k) # n
             /\ leases'[k].job = "orphan" => leases[k].job \in {"orphan", "running"}
  <2>1. CASE NodeOf(k) = n /\ leases[k].job = "running"
    <3>1. leases[k] \in Leases
      BY <1>1, <2>1, UnusedLease DEF LeaseTable
    <3>2. leases'[k] = [leases[k] EXCEPT !.job = fate]
      BY <1>3, <2>1
    <3>3. leases'[k] \in Leases /\ leases'[k].job = fate /\ leases'[k].node = leases[k].node
      BY <3>1, <3>2 DEF Leases
    <3> QED
      BY <2>1, <3>1, <3>3 DEF LosesJob
  <2>2. CASE ~(NodeOf(k) = n /\ leases[k].job = "running")
    BY <1>1, <1>3, <2>2 DEF LeaseTable
  <2> QED
    BY <2>1, <2>2
<1>5. leases' \in LeaseTable
  BY <1>3, <1>4 DEF LeaseTable
<1>6. ASSUME NEW k \in Slot, leases'[k].job = "running" PROVE leases[k].node \in up'
  <2>1. k \in Running /\ leases[k].node # n
    BY <1>4, <1>6 DEF Running, NodeOf
  <2> QED
    BY <1>3, <2>1 DEF SubInv, MineInv, NodeOf
<1>7. NodeMoves
  BY <1>3, <1>4, <1>5, <1>6 DEF NodeMoves, SubInv, TypeOK
<1>8. Orphans' \subseteq Orphans \union Running
  BY <1>4 DEF Orphans, Running
<1> QED
  BY <1>3, <1>7, <1>8

\* failOrphanedJobs: no job is left behind that was not before.
LEMMA RestartStep ==
    ASSUME SubInv, RestartSteps
    PROVE  NodeMoves /\ Orphans' \subseteq Orphans /\ budget' = budget
<1>1. leases \in LeaseTable
  BY DEF SubInv, TypeOK, LeaseTable
<1>2. PICK n \in Node : Restart(n)
  BY DEF RestartSteps
<1>3. PICK left \in SUBSET {l \in Orphans : NodeOf(l) = n} :
        leases' = [l \in Slot |->
                     IF NodeOf(l) = n /\ leases[l].job \in {"orphan", "lost"}
                     THEN [leases[l] EXCEPT !.state = "freed",
                                            !.job = IF l \in left THEN "orphan" ELSE "lost"]
                     ELSE leases[l]]
  BY <1>2 DEF Restart
<1>4. /\ up' = up \union {n} /\ UNCHANGED <<pc, run, ctrlC, due, late, misread, offline, cut, budget>>
  BY <1>2 DEF Restart
<1>5. ASSUME NEW k \in Slot
      PROVE  /\ leases'[k] \in Leases \union {Unused} /\ (leases'[k] = leases[k] \/ LosesJob(k))
             /\ leases'[k].job = "running" => leases[k].job = "running"
             /\ leases'[k].job = "orphan" => leases[k].job = "orphan"
  <2>1. CASE NodeOf(k) = n /\ leases[k].job \in {"orphan", "lost"}
    <3> DEFINE new == IF k \in left THEN "orphan" ELSE "lost"
    <3>1. leases[k] \in Leases
      BY <1>1, <2>1, UnusedLease DEF LeaseTable
    <3>2. leases'[k] = [leases[k] EXCEPT !.state = "freed", !.job = new]
      BY <1>3, <2>1
    <3>3. new \in {"orphan", "lost"} /\ (new = "orphan" => leases[k].job = "orphan")
      BY DEF Orphans
    <3> HIDE DEF new
    <3>4. leases'[k] \in Leases /\ leases'[k].job = new /\ leases'[k].node = leases[k].node
      BY <3>1, <3>2, <3>3 DEF Leases
    <3> QED
      BY <2>1, <3>1, <3>3, <3>4 DEF LosesJob
  <2>2. CASE ~(NodeOf(k) = n /\ leases[k].job \in {"orphan", "lost"})
    BY <1>1, <1>3, <2>2 DEF LeaseTable
  <2> QED
    BY <2>1, <2>2
<1>6. leases' \in LeaseTable
  BY <1>3, <1>5 DEF LeaseTable
<1>7. ASSUME NEW k \in Slot, leases'[k].job = "running" PROVE leases[k].node \in up'
  <2>1. k \in Running
    BY <1>5, <1>7 DEF Running
  <2> QED
    BY <1>4, <2>1 DEF SubInv, MineInv, NodeOf
<1>8. NodeMoves
  BY <1>4, <1>5, <1>6, <1>7 DEF NodeMoves, SubInv, TypeOK
<1>9. Orphans' \subseteq Orphans
  BY <1>5 DEF Orphans
<1> QED
  BY <1>4, <1>8, <1>9

\* Steps of the world that touch no lease.
OtherSteps ==
    \/ \E n \in Node : Cut(n) \/ Heal(n)
    \/ \E l \in Slot : SweepRead(l)
    \/ Offline \/ Online \/ CancelRun \/ UNCHANGED vars

LEMMA OtherStep ==
    ASSUME Steady, SubInv, OtherSteps
    PROVE  SubInv' /\ Marked /\ UNCHANGED <<pc, mine, leases, misread>>
<1>1. /\ UNCHANGED <<pc, run, leases, up, late, misread>> /\ due' \subseteq Slot
      /\ cut' \subseteq Node /\ ctrlC' \in BOOLEAN /\ offline' \in BOOLEAN
      /\ pc = "net" => UNCHANGED <<offline, cut>>
  BY DEF OtherSteps, SweepRead, Cut, Heal, Offline, Online, CancelRun, MayChange, Judging, world, net,
         vars, SubInv, TypeOK
<1>2. Started' = Started /\ Running' = Running
  BY <1>1 DEF Started, Running
<1>3. TypeOK' /\ Marked
  BY <1>1 DEF SubInv, TypeOK, run, Marked
<1>4. LoopInv' /\ CountInv' /\ LeaseCoversJob' /\ SilentInv'
  BY <1>1, <1>2 DEF SubInv, LoopInv, CountInv, LeaseCoversJob, SilentInv, MyNode, NodeOf, run
<1>5. MineInv'
  BY <1>1, <1>2 DEF SubInv, MineInv, NodeOf, run
<1> QED
  BY <1>1, <1>3, <1>4, <1>5 DEF SubInv, run

-----------------------------------------------------------------------------
(* Where no path breaks, one placement's job runs at a time. *)

LEMMA BehindFinite == IsFiniteSet(Behind) /\ Cardinality(Behind) \in Nat
<1>1. IsFiniteSet(Slot)
  <2>1. 1 \in Int /\ MaxLeases \in Int
    BY SubmitterAssumption
  <2> QED
    BY <2>1, FS_Interval DEF Slot
<1>2. Behind \subseteq Slot
  BY DEF Behind, Orphans
<1> QED
  BY <1>1, <1>2, FS_Subset, FS_CardinalityType

\* A step in which no more is left behind.
LEMMA CopiesStep ==
    ASSUME OneCopyInv, Marked, cut' = cut, Orphans' \subseteq Orphans, Ours' \subseteq {mine'},
           pc' \in Unstarted => Ours' = {},
           budget' \in [crash : Nat, offline : Nat, cut : Nat], budget'.crash = budget.crash
    PROVE  OneCopyInv'
<1>1. Behind' \subseteq Behind
  BY DEF Behind, Marked
<1>2. Cardinality(Behind') \in Nat /\ Cardinality(Behind') <= Cardinality(Behind)
  BY <1>1, BehindFinite, FS_Subset, FS_CardinalityType
<1> QED
  BY <1>2, BehindFinite DEF OneCopyInv

\* A step of the command that starts nothing.
LEMMA CommandCopies ==
    ASSUME OneCopyInv, Still, Marked, Orphans' \subseteq Orphans, Running' \subseteq Running,
           mine' = mine \/ Ours = {}, pc' \in Unstarted => pc \in Unstarted \/ Ours' = {}
    PROVE  OneCopyInv'
<1>1. Ours' \subseteq Ours
  BY DEF Ours, Marked
<1> QED
  BY <1>1, CopiesStep DEF OneCopyInv, Still

LEMMA ProgressStep ==
    ASSUME SubInv, Progress \/ LoseConnection \/ Detach
    PROVE  SubInv' /\ (OneCopyInv => OneCopyInv')
<1>1. CASE Calm
  <2>1. SubInv' /\ leases' = leases /\ mine' = mine /\ Still /\ Marked
        /\ (pc' \in Unstarted => pc \in Unstarted)
    BY <1>1, CalmStep DEF Calm, Begin, FindNode, Requeue, BackOff, Detach, LoseConnection,
         ProbeSilent, SelfIsOffline, Returned, Judging, Unstarted
  <2>2. Running' = Running /\ Orphans' = Orphans
    BY <2>1 DEF Running, Orphans
  <2> QED
    BY <2>1, <2>2, CommandCopies
<1>2. ASSUME NEW n \in Node, Accepted(n) \/ NotAccepted(n)
      PROVE  SubInv' /\ (OneCopyInv => OneCopyInv')
  <2>1. /\ SubInv' /\ Still /\ Marked /\ Running' \subseteq Running /\ Orphans' \subseteq Orphans
        /\ pc = "try"
    BY <1>2, AskStep DEF Accepted, NotAccepted, Ask
  <2>2. OneCopyInv => Ours = {}
    BY <2>1 DEF OneCopyInv, Unstarted
  <2> QED
    BY <2>1, <2>2, CommandCopies DEF Unstarted
<1>3. CASE Handles
  <2>1. SubInv' /\ Still /\ Marked /\ Running' \subseteq Running /\ Orphans' \subseteq Orphans
        /\ mine' = mine /\ (pc' \in Unstarted => pc \in Unstarted)
    BY <1>3, HandleStep
  <2> QED
    BY <2>1, CommandCopies
<1>4. CASE Start
  <2>1. SubInv' /\ Still /\ Marked /\ Running' \subseteq Running \union {mine}
        /\ Orphans' \subseteq Orphans /\ mine' = mine /\ pc' = "run" /\ pc = "upload"
    BY <1>4, StartStep DEF Start
  <2>2. OneCopyInv => Ours' \subseteq {mine'}
    BY <2>1 DEF OneCopyInv, Unstarted, Ours, Marked
  <2>3. pc' \notin Unstarted
    BY <2>1 DEF Unstarted
  <2>4. OneCopyInv => OneCopyInv'
    <3> SUFFICES ASSUME OneCopyInv PROVE OneCopyInv'
      OBVIOUS
    <3>1. cut' = cut /\ budget' = budget /\ budget \in [crash : Nat, offline : Nat, cut : Nat]
      BY <2>1 DEF Still, OneCopyInv
    <3> QED
      BY <2>1, <2>2, <2>3, <3>1, CopiesStep
  <2> QED
    BY <2>1, <2>4
<1>5. ASSUME FailedHere, pc \in {"upload", "run"} \union Judging, misread' = misread,
             leases[mine].job = "running" => ~Reach(MyNode),
             leases[mine].job = "running" => cut # {}
      PROVE  SubInv' /\ (OneCopyInv => OneCopyInv')
  <2>1. SubInv' /\ Quiet /\ Still /\ Marked /\ mine' = mine
    BY <1>5, FailedStep
  <2>2. Running' = Running /\ Orphans' = Orphans
    BY <2>1, QuietSets DEF SubInv, TypeOK, LeaseTable
  <2>3. OneCopyInv => Ours' = {}
    BY <1>5, <2>1, <2>2 DEF OneCopyInv, Ours, Running, Marked
  <2> QED
    BY <2>1, <2>2, <2>3, CommandCopies
<1>6. CASE ExecFails
  BY <1>5, <1>6 DEF ExecFails, SubInv, MineInv
<1>7. CASE NodeIsGone
  <2>1. pc = "net" /\ ~offline /\ FailedHere /\ misread' = misread
    BY <1>7 DEF NodeIsGone, NetworkUp
  <2>2. leases[mine].job = "running" => MyNode \in cut
    BY <2>1 DEF SubInv, SilentInv
  <2> QED
    BY <1>5, <2>1, <2>2 DEF Reach, Judging
<1>8. CASE ProbeAnswered
  <2>1. /\ SubInv' /\ Still /\ Marked /\ Running' = Running /\ Orphans' = Orphans /\ mine' = mine
        /\ pc' \in Returned \/ (pc' = "backoff" /\ (mine \in Running => mine \in misread'))
    BY <1>8, ProbeAnsweredStep
  <2>2. OneCopyInv /\ pc' \in Unstarted => Ours' = {}
    BY <2>1 DEF OneCopyInv, Ours, Marked, Returned, Unstarted
  <2> QED
    BY <2>1, <2>2, CommandCopies
<1> QED
  BY <1>1, <1>2, <1>3, <1>4, <1>6, <1>7, <1>8 DEF Progress, Calm, Handles

\* A step of a node: what it leaves behind ran there, and no more than one copy did.
LEMMA NodeCopies ==
    ASSUME SubInv, OneCopyInv, LeaseSteps \/ DeathSteps \/ RestartSteps
    PROVE  OneCopyInv'
<1>1. CASE LeaseSteps \/ RestartSteps
  <2>1. NodeMoves /\ Orphans' \subseteq Orphans /\ budget' = budget
    BY <1>1, LeaseStep, RestartStep
  <2>2. Marked /\ Running' \subseteq Running
    BY <2>1, NodeStep
  <2>3. UNCHANGED <<pc, mine, cut>>
    BY <2>1 DEF NodeMoves, run
  <2>4. Ours' \subseteq Ours
    BY <2>2 DEF Ours, Marked
  <2> QED
    BY <2>1, <2>2, <2>3, <2>4, CopiesStep DEF OneCopyInv
<1>2. CASE DeathSteps
  <2>1. NodeMoves /\ Orphans' \subseteq Orphans \union Running
        /\ budget' = [budget EXCEPT !.crash = @ + 1]
    BY <1>2, DeathStep
  <2>2. Marked /\ Running' \subseteq Running
    BY <2>1, NodeStep
  <2>3. UNCHANGED <<pc, mine, cut>>
    BY <2>1 DEF NodeMoves, run
  <2>4. Ours' \subseteq Ours /\ Behind' \subseteq Behind \union {mine}
    BY <2>1, <2>2 DEF Ours, Behind, Marked, OneCopyInv
  <2>5. /\ IsFiniteSet(Behind \union {mine})
        /\ Cardinality(Behind \union {mine}) \in Nat
        /\ Cardinality(Behind \union {mine}) <= Cardinality(Behind) + 1
    <3>1. /\ IsFiniteSet(Behind \union {mine})
          /\ \/ Cardinality(Behind \union {mine}) = Cardinality(Behind)
             \/ Cardinality(Behind \union {mine}) = Cardinality(Behind) + 1
      BY BehindFinite, FS_AddElement
    <3> QED
      BY <3>1, BehindFinite
  <2>6. Cardinality(Behind') \in Nat /\ Cardinality(Behind') <= Cardinality(Behind) + 1
    BY <2>4, <2>5, BehindFinite, FS_Subset, FS_CardinalityType
  <2>7. /\ budget' \in [crash : Nat, offline : Nat, cut : Nat] /\ budget'.crash = budget.crash + 1
        /\ budget.crash \in Nat /\ Cardinality(Behind) <= budget.crash
    BY <2>1 DEF OneCopyInv
  <2>8. Cardinality(Behind') <= budget'.crash
    BY <2>6, <2>7, BehindFinite
  <2> QED
    BY <2>3, <2>4, <2>7, <2>8 DEF OneCopyInv
<1> QED
  BY <1>1, <1>2

LEMMA SubmitterStep ==
    ASSUME Steady, SubInv, [Next]_vars
    PROVE  SubInv'
<1>1. \/ Progress \/ LoseConnection \/ Detach
      \/ LeaseSteps \/ DeathSteps \/ RestartSteps \/ OtherSteps
  BY DEF Next, Unbroken, Cluster, LeaseSteps, DeathSteps, RestartSteps, OtherSteps, Over
<1> QED
  BY <1>1, ProgressStep, LeaseStep, DeathStep, RestartStep, NodeStep, OtherStep

LEMMA UnbrokenStep ==
    ASSUME Steady, SubInv, OneCopyInv, [Unbroken]_vars
    PROVE  SubInv' /\ OneCopyInv'
<1>1. SubInv'
  BY SubmitterStep DEF Next
<1>2. \/ Progress \/ LoseConnection \/ Detach
      \/ LeaseSteps \/ DeathSteps \/ RestartSteps
      \/ SweepRead(mine) \/ Offline \/ Online \/ CancelRun \/ UNCHANGED vars
  BY DEF Unbroken, Cluster, LeaseSteps, DeathSteps, RestartSteps, Over, SweepRead
<1>3. ASSUME SweepRead(mine) \/ Offline \/ Online \/ CancelRun \/ UNCHANGED vars, OtherSteps
      PROVE  OneCopyInv'
  <2>1. Marked /\ UNCHANGED <<pc, mine, leases, misread>>
    BY <1>3, OtherStep
  <2>2. /\ cut' = cut /\ budget' \in [crash : Nat, offline : Nat, cut : Nat]
        /\ budget'.crash = budget.crash
    BY <1>3 DEF SweepRead, Offline, Online, CancelRun, vars, world, net, OneCopyInv
  <2>3. Ours' = Ours /\ Orphans' = Orphans
    BY <2>1 DEF Ours, Running, Orphans
  <2> QED
    BY <2>1, <2>2, <2>3, CopiesStep DEF OneCopyInv
<1>4. SweepRead(mine) => mine \in Slot
  BY DEF SweepRead, Held
<1> QED
  BY <1>1, <1>2, <1>3, <1>4, ProgressStep, NodeCopies DEF OtherSteps

-----------------------------------------------------------------------------
(* The theorems. *)

\* Where the network holds still while a lost connection is judged, the job
\* is started MaxExecAttempts times at most, whatever paths break and however
\* many nodes refuse, fail or crash: every start but the current one was
\* counted by ExecuteWithRetry.  Every copy that runs under a daemon keeps its
\* lease, unless a sweep had read which jobs are live before it started, or it
\* was given up on an answer that is no status.
THEOREM SubmitterStartsBounded == Steady => (Spec => []StartsBounded)
<1> SUFFICES ASSUME Steady
             PROVE  Spec => []StartsBounded
  OBVIOUS
<1>1. Init => SubInv
  BY SubmitterInit
<1>2. SubInv /\ [Next]_vars => SubInv'
  BY SubmitterStep
<1>3. SubInv => StartsBounded
  BY DEF SubInv, CountInv, StartsBounded, Started
<1> QED
  BY <1>1, <1>2, <1>3, PTL DEF Spec

\* Where, besides, no single path breaks, at most one copy of the job runs
\* ("One job, one lease, one node") that was neither orphaned by its daemon's
\* death nor given up on an answer that is no status, and there are no more
\* orphans than nodes that went down: a copy that is given up is on a machine
\* that crashed, an orphan, marked misread, or out of reach of a submitter that
\* knows it is offline.
THEOREM SubmitterOneCopy == Steady => (UnbrokenSpec => []OneCopy)
<1> SUFFICES ASSUME Steady
             PROVE  UnbrokenSpec => []OneCopy
  OBVIOUS
<1>1. Init => SubInv /\ OneCopyInv
  BY SubmitterInit
<1>2. (SubInv /\ OneCopyInv) /\ [Unbroken]_vars => (SubInv /\ OneCopyInv)'
  BY UnbrokenStep
<1>3. SubInv /\ OneCopyInv => OneCopy
  <2>1. Ours \subseteq {mine} => Cardinality(Ours) <= 1
    <3>1. IsFiniteSet({mine}) /\ Cardinality({mine}) = 1
      BY FS_Singleton
    <3> QED
      BY <3>1, FS_Subset, FS_CardinalityType
  <2> QED
    BY <2>1 DEF OneCopyInv, OneCopy, Ours, Behind
<1> QED
  BY <1>1, <1>2, <1>3, PTL DEF UnbrokenSpec

-----------------------------------------------------------------------------
(* The record of a run.                                                     *)

Others == {"watch", "attach"}
Early == {"idle", "build", "record"}
Reading == {"status", "fetch", "sync"}
Writing == {"write", "fill"}

\* The command has still its own, unlocked, writes to do.
Upfront ==
    \/ Run.pc \in Early \cup {"upload", "stream", "results"}
    \/ Run.pc \in Writing /\ ~Run.copy.collected

\* A locked section, and the writes that belong to one.
Holds(p) ==
    \/ proc[p].pc \in {"read"} \cup Reading
    \/ proc[p].pc \in Writing /\ (p = "run" => Run.copy.collected)

\* The job on its node, and its lease.
JobInv ==
    /\ at \in {"none", "running"} => code = "none"
    /\ at = "ended" => code # "none"
    /\ Run.pc \in Early \cup {"upload"} => at = "none"
    /\ rec.hasJob \/ Run.pc \in {"stream", "results"} => at # "none"
    /\ \A p \in Procs : proc[p].copy.hasJob => at # "none"
    /\ Run.pc = "results" => code = "zero"
    /\ ~nodeUp => trouble > 0

LeaseInv ==
    /\ Run.pc = "idle" => leased = "none"
    /\ Run.pc = "over" /\ leased = "held" => trouble > 0
    /\ leased = "held" => \/ Run.pc \in Early \cup {"upload", "over"}
                          \/ Run.todo = "finalize" /\ Run.pc \in Writing \cup {"after"}

\* Which sections each process runs.
ProcInv ==
    /\ \A p \in Procs : Holds(p) => lockBy = p
    /\ proc["attach"].todo = "collect"
    /\ proc["attach"].pc \in {"idle", "stream", "lock", "read", "after"} \cup Reading \cup Writing
    /\ proc["watch"].pc \in {"idle", "lock", "read", "after"} \cup Reading \cup Writing
    /\ proc["watch"].todo \in {"collect", "fail", "since", "clear"}
    /\ Run.todo \in {"collect", "save", "finalize"}
    /\ Run.pc \in {"lock", "read"} \cup Reading => Run.todo = "collect"
    /\ \A p \in Procs : proc[p].pc \in Reading => proc[p].todo = "collect"
    /\ \A p \in Procs : proc[p].ret = "404" => at = "forgotten"

\* The command's own writes are over before anybody else looks.
UpfrontInv ==
    Upfront =>
        /\ \A p \in Others : proc[p] = Idle
        /\ lockBy = "none" /\ Run.ret = "none"
        /\ rec.status \in {"none", "running"}
        /\ ~rec.hasJob /\ ~rec.collected /\ ~rec.gone
        /\ Run.pc \in Early => rec = NoRecord
        /\ Run.pc \notin Writing => synced = 0
        /\ ~Run.copy.collected /\ ~Run.copy.gone
        /\ Run.pc \in {"upload", "stream", "results"} => Run.copy.status = "running" /\ ~Run.copy.hasJob
        /\ Run.pc \in Writing /\ Run.todo = "finalize" =>
              /\ Run.copy.status \in Final /\ ~Run.copy.hasJob
              /\ Run.copy.status = "succeeded" => code = "zero"
              /\ synced <= 1 /\ (Run.copy.status = "succeeded" => synced = 1)
        /\ Run.pc \in Writing /\ Run.todo # "finalize" =>
              Run.copy.status = "running" /\ Run.copy.hasJob /\ synced = 0

\* Others have looked at the record, or the command is about to collect.
Seen ==
    \/ \E p \in Others : proc[p].pc # "idle"
    \/ Holds("run") \/ Run.pc = "lock"
    \/ Run.pc = "after" /\ Run.todo = "collect" /\ Run.ret = "none"

\* What the record says of its job.
RecInv ==
    /\ Seen => rec.status = "none" \/ rec.hasJob
    /\ rec.hasJob /\ rec.status \in Final => rec.collected \/ rec.gone
    /\ rec.collected => rec.status \in Final /\ ~rec.gone /\ rec.hasJob
    /\ rec.status = "none" => rec = NoRecord

\* What the record says of a collected or successful job.
TrueOf(r) ==
    /\ r.status = "succeeded" => code = "zero" /\ synced > 0
    /\ r.collected /\ code # "zero" => r.status = IF code = "cancelled" THEN "cancelled" ELSE "failed"
    /\ r.collected => code # "none"

\* What a locked section has in hand.
CopyInv(p) ==
    LET s == proc[p] IN
    /\ s.pc \in Reading => ~rec.collected /\ s.copy.hasJob
    /\ s.pc \in {"fetch", "sync"} => code # "none"
    /\ s.pc \in Writing =>
          CASE s.todo = "collect" ->
                 /\ s.copy.collected /\ ~s.copy.gone /\ s.copy.status \in Final
                 /\ s.copy.hasJob /\ TrueOf(s.copy) /\ ~rec.collected
            [] s.todo = "fail" ->
                 /\ s.copy.status = "failed" /\ s.copy.gone /\ ~s.copy.collected /\ s.copy.hasJob
                 /\ at = "forgotten" \/ s.copy.since = "old"
                 /\ rec.status \in {"none", "running"}
            [] OTHER ->
                 rec.status = "none" \/
                    /\ s.copy.status = rec.status /\ s.copy.collected = rec.collected
                    /\ s.copy.hasJob /\ s.copy.gone = rec.gone

GoneInv ==
    /\ rec.gone => rec.status = "failed" /\ (at = "forgotten" \/ rec.since = "old")
    /\ proc["watch"].pc # "idle" /\ proc["watch"].todo # "fail" => ~rec.gone
    /\ proc["watch"].todo = "fail" /\ proc["watch"].pc \in {"lock", "read"} =>
          at = "forgotten" \/ ~Pending(rec) \/ rec.since = "old"

\* Results are applied again only by a collect that did not write its record.
SyncInv ==
    /\ synced > 1 => redo
    /\ \A p \in Procs : proc[p].pc \in Reading => synced = 0 \/ redo
    /\ synced > 0 /\ ~redo =>
          \/ rec.status = "none" \/ rec.collected
          \/ \E p \in Procs : proc[p].pc \in Writing /\ proc[p].copy.collected
          \/ /\ ~rec.hasJob /\ \A p \in Others : proc[p].pc = "idle"
             /\ Run.pc = "over" \/ (Run.todo = "finalize" /\ Run.pc \in Writing \cup {"after"})

HistInv ==
    /\ HistTypeOK /\ JobInv /\ LeaseInv /\ ProcInv /\ UpfrontInv /\ RecInv /\ TrueOf(rec)
    /\ \A p \in Procs : Holds(p) => CopyInv(p)
    /\ GoneInv /\ SyncInv

-----------------------------------------------------------------------------
(* What becomes of the processes. *)

Pcs == {"idle", "build", "record", "upload", "stream", "results", "over",
        "lock", "read", "status", "fetch", "sync", "write", "fill", "after"}
Todos == {"collect", "fail", "since", "clear", "save", "finalize"}
Rets == {"none", "done", "notdone", "unreach", "404", "bad"}

\* One process moves, and the others stay where they are.
Now(p, place, todo, ret) ==
    /\ proc' \in [Procs -> ProcType]
    /\ proc'[p].pc = place /\ proc'[p].todo = todo /\ proc'[p].ret = ret
    /\ \A q \in Procs \ {p} : proc'[q] = proc[q]

\* The copy p takes along is r.
Copies(p, r) == proc'[p].copy = r

\* A process that does nothing, and the record it has in hand.
LEMMA IdleType == NoRecord \in RecordType /\ Idle \in ProcType
BY DEF NoRecord, RecordType, Idle, ProcType

\* Go, To and Ret as Now and Copies.
LEMMA GoNow ==
    ASSUME HistTypeOK, NEW p \in Procs, NEW r \in ProcType, Go(p, r)
    PROVE  Now(p, r.pc, r.todo, r.ret) /\ Copies(p, r.copy)
BY DEF Go, Now, Copies, HistTypeOK

LEMMA ToNow ==
    ASSUME HistTypeOK, NEW p \in Procs, NEW place \in Pcs, To(p, place)
    PROVE  Now(p, place, proc[p].todo, proc[p].ret) /\ Copies(p, proc[p].copy)
<1> DEFINE r == [proc[p] EXCEPT !.pc = place]
<1>1. proc[p] \in ProcType
  BY DEF HistTypeOK
<1>2. r \in ProcType
  BY <1>1 DEF ProcType, Pcs, Todos
<1>3. r.pc = place /\ r.todo = proc[p].todo /\ r.ret = proc[p].ret /\ r.copy = proc[p].copy
  BY <1>1 DEF ProcType
<1>4. Go(p, r)
  BY DEF To
<1> HIDE DEF r
<1>5. Now(p, r.pc, r.todo, r.ret) /\ Copies(p, r.copy)
  BY <1>2, <1>4, GoNow
<1> QED
  BY <1>3, <1>5

LEMMA RetNow ==
    ASSUME HistTypeOK, NEW p \in Procs, NEW x \in Rets, Ret(p, x)
    PROVE  /\ Now(p, "after", proc[p].todo, x) /\ Copies(p, proc[p].copy)
           /\ lockBy' = IF lockBy = p THEN "none" ELSE lockBy
<1> DEFINE r == [proc[p] EXCEPT !.pc = "after", !.ret = x]
<1>1. proc[p] \in ProcType
  BY DEF HistTypeOK
<1>2. r \in ProcType
  BY <1>1 DEF ProcType, Rets
<1>3. r.pc = "after" /\ r.todo = proc[p].todo /\ r.ret = x /\ r.copy = proc[p].copy
  BY <1>1 DEF ProcType
<1>4. Go(p, r) /\ lockBy' = IF lockBy = p THEN "none" ELSE lockBy
  BY DEF Ret
<1> HIDE DEF r
<1>5. Now(p, r.pc, r.todo, r.ret) /\ Copies(p, r.copy)
  BY <1>2, <1>4, GoNow
<1> QED
  BY <1>3, <1>4, <1>5

\* A process takes a copy c along.
LEMMA CopyNow ==
    ASSUME HistTypeOK, NEW p \in Procs, NEW place \in Pcs, NEW t \in Todos, NEW c \in RecordType,
           Go(p, [proc[p] EXCEPT !.pc = place, !.todo = t, !.copy = c])
    PROVE  Now(p, place, t, proc[p].ret) /\ Copies(p, c)
<1> DEFINE r == [proc[p] EXCEPT !.pc = place, !.todo = t, !.copy = c]
<1>1. proc[p] \in ProcType
  BY DEF HistTypeOK
<1>2. r \in ProcType
  BY <1>1 DEF ProcType, Pcs, Todos
<1>3. r.pc = place /\ r.todo = t /\ r.ret = proc[p].ret /\ r.copy = c
  BY <1>1 DEF ProcType
<1>4. Go(p, r)
  OBVIOUS
<1> HIDE DEF r
<1>5. Now(p, r.pc, r.todo, r.ret) /\ Copies(p, r.copy)
  BY <1>2, <1>4, GoNow
<1> QED
  BY <1>3, <1>5

\* What the writers change in their copies.
LEMMA RecordFields ==
    ASSUME NEW c \in RecordType
    PROVE  /\ \A st \in Final : [c EXCEPT !.status = st] \in RecordType
           /\ [c EXCEPT !.detached = TRUE, !.hasJob = TRUE] \in RecordType
           /\ [c EXCEPT !.status = "failed", !.gone = TRUE] \in RecordType
           /\ \A x \in {"set", "none", "old"} : [c EXCEPT !.since = x] \in RecordType
           /\ \A st \in Final : [c EXCEPT !.status = st, !.collected = TRUE, !.gone = FALSE] \in RecordType
BY DEF RecordType, Final
-----------------------------------------------------------------------------
(* What each step of a process changes. *)

LEMMA AcceptMoves ==
    ASSUME HistTypeOK, AcceptRun
    PROVE  /\ Run.pc = "idle"
           /\ \/ leased' = "held" /\ Now("run", "build", Run.todo, Run.ret) /\ Copies("run", Run.copy)
              \/ leased' = leased /\ Now("run", "over", "collect", "none") /\ Copies("run", NoRecord)
           /\ UNCHANGED <<rec, torn, lockBy, synced, redo, at, code, nodeUp, online, trouble>>
<1>1. CASE leased' = "held" /\ To("run", "build")
  BY <1>1, ToNow DEF AcceptRun, Run, Procs, Pcs, File, Tally
<1>2. CASE Go("run", [Idle EXCEPT !.pc = "over"]) /\ UNCHANGED leased
  <2>1. [Idle EXCEPT !.pc = "over"] \in ProcType
    BY IdleType DEF ProcType
  <2>2. Now("run", "over", "collect", "none") /\ Copies("run", NoRecord)
    BY <1>2, <2>1, GoNow DEF Idle, Procs
  <2> QED
    BY <1>2, <2>2 DEF AcceptRun, File, Tally
<1> QED
  BY <1>1, <1>2 DEF AcceptRun

LEMMA BuildMoves ==
    ASSUME HistTypeOK, BuildRun
    PROVE  /\ Run.pc = "build"
           /\ \/ leased' = leased /\ Now("run", "record", Run.todo, Run.ret) /\ Copies("run", Run.copy)
              \/ Release /\ Now("run", "over", "collect", "none") /\ Copies("run", NoRecord)
           /\ UNCHANGED <<rec, torn, lockBy, synced, redo, at, code, nodeUp, online, trouble>>
<1>1. CASE To("run", "record") /\ UNCHANGED leased
  BY <1>1, ToNow DEF BuildRun, Run, Procs, Pcs, File, Tally
<1>2. CASE Go("run", [Idle EXCEPT !.pc = "over"]) /\ Release
  <2>1. [Idle EXCEPT !.pc = "over"] \in ProcType
    BY IdleType DEF ProcType
  <2>2. Now("run", "over", "collect", "none") /\ Copies("run", NoRecord)
    BY <1>2, <2>1, GoNow DEF Idle, Procs
  <2> QED
    BY <1>2, <2>2 DEF BuildRun, File, Tally
<1> QED
  BY <1>1, <1>2 DEF BuildRun

\* The run ends with a status, which it has still to write.
LEMMA EndsMoves ==
    ASSUME HistTypeOK, NEW st \in Final, Go("run", Ends(st))
    PROVE  Now("run", "write", "finalize", Run.ret) /\ Copies("run", [Run.copy EXCEPT !.status = st])
<1>1. Run.copy \in RecordType /\ Run \in ProcType
  BY DEF HistTypeOK, ProcType, Run, Procs
<1>2. [Run.copy EXCEPT !.status = st] \in RecordType
  BY <1>1, RecordFields
<1>3. Go("run", [Run EXCEPT !.pc = "write", !.todo = "finalize",
                            !.copy = [Run.copy EXCEPT !.status = st]])
  BY <1>1 DEF Ends, ProcType
<1> QED
  BY <1>2, <1>3, CopyNow DEF Run, Procs, Pcs, Todos

LEMMA UploadMoves ==
    ASSUME HistTypeOK, UploadRun
    PROVE  /\ Run.pc = "upload"
           /\ \/ /\ nodeUp /\ at' = "running" /\ leased' = "bound" /\ code' = code
                 /\ Now("run", "stream", Run.todo, Run.ret) /\ Copies("run", Run.copy)
              \/ /\ at' = at /\ code' = code /\ Now("run", "write", "finalize", Run.ret)
                 /\ \/ leased' = leased /\ Copies("run", [Run.copy EXCEPT !.status = "failed"])
                    \/ Release /\ Copies("run", [Run.copy EXCEPT !.status = "cancelled"])
           /\ UNCHANGED <<rec, torn, lockBy, synced, redo, nodeUp, online, trouble>>
<1>1. CASE nodeUp /\ at' = "running" /\ leased' = "bound" /\ To("run", "stream") /\ UNCHANGED code
  BY <1>1, ToNow DEF UploadRun, Run, Procs, Pcs, File, Tally
<1>2. CASE Go("run", Ends("failed")) /\ UNCHANGED <<at, code, leased>>
  BY <1>2, EndsMoves DEF UploadRun, Final, File, Tally
<1>3. CASE Go("run", Ends("cancelled")) /\ Release /\ UNCHANGED <<at, code>>
  BY <1>3, EndsMoves DEF UploadRun, Final, File, Tally
<1> QED
  BY <1>1, <1>2, <1>3 DEF UploadRun

LEMMA DetachMoves ==
    ASSUME HistTypeOK, NEW t \in Todos, Detaches(t)
    PROVE  /\ Now("run", "write", t, Run.ret)
           /\ Copies("run", [Run.copy EXCEPT !.detached = TRUE, !.hasJob = TRUE])
<1>1. Run.copy \in RecordType /\ Run \in ProcType
  BY DEF HistTypeOK, ProcType, Run, Procs
<1>2. [Run.copy EXCEPT !.detached = TRUE, !.hasJob = TRUE] \in RecordType
  BY <1>1, RecordFields
<1>3. Go("run", [Run EXCEPT !.pc = "write", !.todo = t,
                            !.copy = [Run.copy EXCEPT !.detached = TRUE, !.hasJob = TRUE]])
  BY <1>1 DEF Detaches, ProcType
<1> QED
  BY <1>2, <1>3, CopyNow DEF Run, Procs, Pcs

LEMMA StreamMoves ==
    ASSUME HistTypeOK, StreamRun
    PROVE  /\ Run.pc = "stream"
           /\ \/ /\ UNCHANGED <<at, code, leased>> /\ at = "ended" /\ code = "zero"
                 /\ Now("run", "results", Run.todo, Run.ret) /\ Copies("run", Run.copy)
              \/ /\ UNCHANGED <<at, code, leased>>
                 /\ Now("run", "write", "finalize", Run.ret)
                 /\ \E st \in {"failed", "cancelled"} : Copies("run", [Run.copy EXCEPT !.status = st])
              \/ /\ at = "running" /\ at' = "ended" /\ code' = "cancelled" /\ leased' = "free"
                 /\ Now("run", "write", "finalize", Run.ret)
                 /\ Copies("run", [Run.copy EXCEPT !.status = "cancelled"])
              \/ /\ UNCHANGED <<at, code, leased>>
                 /\ \E t \in {"save", "collect"} : Now("run", "write", t, Run.ret)
                 /\ Copies("run", [Run.copy EXCEPT !.detached = TRUE, !.hasJob = TRUE])
           /\ UNCHANGED <<rec, torn, lockBy, synced, redo, nodeUp, online, trouble>>
<1>1. CASE nodeUp /\ at = "ended" /\ code = "zero" /\ To("run", "results") /\ UNCHANGED <<at, code, leased>>
  BY <1>1, ToNow DEF StreamRun, Run, Procs, Pcs, File, Tally
<1>2. ASSUME NEW st \in {"failed", "cancelled"}, Go("run", Ends(st)), UNCHANGED <<at, code, leased>>
      PROVE  Now("run", "write", "finalize", Run.ret) /\ Copies("run", [Run.copy EXCEPT !.status = st])
  BY <1>2, EndsMoves DEF Final
<1>3. CASE /\ at = "running" /\ at' = "ended" /\ code' = "cancelled" /\ leased' = "free"
           /\ Go("run", Ends("cancelled"))
  BY <1>3, EndsMoves DEF StreamRun, Final, File, Tally
<1>4. ASSUME NEW t \in {"save", "collect"}, Detaches(t)
      PROVE  /\ Now("run", "write", t, Run.ret)
             /\ Copies("run", [Run.copy EXCEPT !.detached = TRUE, !.hasJob = TRUE])
  BY <1>4, DetachMoves DEF Todos
<1>5. CASE (\E st \in {"failed", "cancelled"} : Go("run", Ends(st))) /\ UNCHANGED <<at, code, leased>>
  BY <1>2, <1>5 DEF StreamRun, File, Tally
<1>6. CASE (\E t \in {"save", "collect"} : Detaches(t)) /\ UNCHANGED <<at, code, leased>>
  BY <1>4, <1>6 DEF StreamRun, File, Tally
<1> QED
  BY <1>1, <1>3, <1>5, <1>6 DEF StreamRun

LEMMA ResultsMoves ==
    ASSUME HistTypeOK, ResultsRun
    PROVE  /\ Run.pc = "results" /\ Now("run", "write", "finalize", Run.ret)
           /\ \/ synced' = synced + 1 /\ Copies("run", [Run.copy EXCEPT !.status = "succeeded"])
              \/ synced' = synced /\ Copies("run", [Run.copy EXCEPT !.status = "failed"])
           /\ UNCHANGED <<rec, torn, lockBy, redo, at, code, leased, nodeUp, online, trouble>>
<1>1. CASE nodeUp /\ synced' = synced + 1 /\ Go("run", Ends("succeeded"))
  BY <1>1, EndsMoves DEF ResultsRun, Final, File, Env
<1>2. CASE UNCHANGED synced /\ Go("run", Ends("failed"))
  BY <1>2, EndsMoves DEF ResultsRun, Final, File, Env
<1> QED
  BY <1>1, <1>2 DEF ResultsRun

LEMMA FinishMoves ==
    ASSUME HistTypeOK, FinishRun
    PROVE  /\ Run.pc = "after"
           /\ \/ /\ Run.todo = "collect" /\ Run.ret = "none" /\ leased' = leased
                 /\ Now("run", "lock", Run.todo, Run.ret) /\ Copies("run", Run.copy)
              \/ /\ Now("run", "over", "collect", "none") /\ Copies("run", NoRecord)
                 /\ (leased' = leased /\ Run.todo # "finalize") \/ Release
           /\ UNCHANGED <<rec, torn, lockBy, synced, redo, at, code, nodeUp, online, trouble>>
<1>1. CASE Run.todo = "collect" /\ Run.ret = "none" /\ To("run", "lock") /\ UNCHANGED leased
  BY <1>1, ToNow DEF FinishRun, Run, Procs, Pcs, File, Tally
<1>2. CASE /\ Go("run", [Idle EXCEPT !.pc = "over"])
           /\ (leased' = leased /\ Run.todo # "finalize") \/ Release
  <2>1. [Idle EXCEPT !.pc = "over"] \in ProcType
    BY IdleType DEF ProcType
  <2>2. Now("run", "over", "collect", "none") /\ Copies("run", NoRecord)
    BY <1>2, <2>1, GoNow DEF Idle, Procs
  <2> QED
    BY <1>2, <2>2 DEF FinishRun, File, Tally
<1> QED
  BY <1>1, <1>2 DEF FinishRun

LEMMA ReadMoves ==
    ASSUME HistTypeOK, NEW p \in Procs, ReadAgain(p),
           proc[p].todo \in {"collect", "fail", "since", "clear"}
    PROVE  /\ proc[p].pc = "read"
           /\ \/ /\ \E x \in {"bad", "done"} : Now(p, "after", proc[p].todo, x)
                 /\ Copies(p, proc[p].copy)
                 /\ lockBy' = IF lockBy = p THEN "none" ELSE lockBy
              \/ /\ proc[p].todo = "collect" /\ ~rec.collected /\ rec.status # "none"
                 /\ Now(p, "status", proc[p].todo, proc[p].ret) /\ Copies(p, rec) /\ lockBy' = lockBy
              \/ /\ proc[p].todo = "fail" /\ Pending(rec)
                 /\ Now(p, "write", proc[p].todo, proc[p].ret)
                 /\ Copies(p, [rec EXCEPT !.status = "failed", !.gone = TRUE]) /\ lockBy' = lockBy
              \/ /\ proc[p].todo \in {"since", "clear"} /\ rec.status # "none"
                 /\ Now(p, "write", proc[p].todo, proc[p].ret)
                 /\ \E x \in {"set", "none"} : Copies(p, [rec EXCEPT !.since = x])
                 /\ lockBy' = lockBy
           /\ UNCHANGED <<rec, torn, synced, redo, at, code, leased, nodeUp, online, trouble>>
<1>1. rec \in RecordType /\ proc[p] \in ProcType
  BY DEF HistTypeOK
<1>2. CASE \E x \in {"bad", "done"} : Ret(p, x)
  BY <1>2, RetNow DEF ReadAgain, Rets, Env, Tally
<1>3. CASE /\ proc[p].todo = "collect" /\ ~rec.collected /\ rec.status # "none"
           /\ Go(p, [proc[p] EXCEPT !.pc = "status", !.copy = rec]) /\ lockBy' = lockBy
  <2>1. Go(p, [proc[p] EXCEPT !.pc = "status", !.todo = proc[p].todo, !.copy = rec])
    BY <1>1, <1>3 DEF ProcType
  <2>2. Now(p, "status", proc[p].todo, proc[p].ret) /\ Copies(p, rec)
    BY <1>1, <2>1, CopyNow DEF Pcs, Todos, ProcType
  <2> QED
    BY <1>3, <2>2 DEF ReadAgain, Env, Tally
<1>4. CASE /\ proc[p].todo = "fail" /\ Pending(rec) /\ lockBy' = lockBy
           /\ Go(p, [proc[p] EXCEPT !.pc = "write", !.copy = [rec EXCEPT !.status = "failed", !.gone = TRUE]])
  <2>1. Go(p, [proc[p] EXCEPT !.pc = "write", !.todo = proc[p].todo,
                              !.copy = [rec EXCEPT !.status = "failed", !.gone = TRUE]])
    BY <1>1, <1>4 DEF ProcType
  <2>2. [rec EXCEPT !.status = "failed", !.gone = TRUE] \in RecordType
    BY <1>1, RecordFields
  <2>3. Now(p, "write", proc[p].todo, proc[p].ret) /\ Copies(p, [rec EXCEPT !.status = "failed", !.gone = TRUE])
    BY <1>1, <2>1, <2>2, CopyNow DEF Pcs, Todos, ProcType
  <2> QED
    BY <1>4, <2>3 DEF ReadAgain, Env, Tally
<1>5. CASE /\ proc[p].todo \in {"since", "clear"} /\ rec.status # "none" /\ lockBy' = lockBy
           /\ \E x \in {"set", "none"} : Go(p, [proc[p] EXCEPT !.pc = "write", !.copy = [rec EXCEPT !.since = x]])
  <2>1. PICK x \in {"set", "none"} : Go(p, [proc[p] EXCEPT !.pc = "write", !.copy = [rec EXCEPT !.since = x]])
    BY <1>5
  <2>2. Go(p, [proc[p] EXCEPT !.pc = "write", !.todo = proc[p].todo, !.copy = [rec EXCEPT !.since = x]])
    BY <1>1, <2>1 DEF ProcType
  <2>3. [rec EXCEPT !.since = x] \in RecordType
    BY <1>1, RecordFields
  <2>4. Now(p, "write", proc[p].todo, proc[p].ret) /\ Copies(p, [rec EXCEPT !.since = x])
    BY <1>1, <2>2, <2>3, CopyNow DEF Pcs, Todos, ProcType
  <2> QED
    BY <1>5, <2>4 DEF ReadAgain, Env, Tally
<1>6. \/ \E x \in {"bad", "done"} : Ret(p, x)
      \/ /\ proc[p].todo = "collect" /\ ~rec.collected /\ rec.status # "none"
         /\ Go(p, [proc[p] EXCEPT !.pc = "status", !.copy = rec]) /\ lockBy' = lockBy
      \/ /\ proc[p].todo = "fail" /\ Pending(rec) /\ lockBy' = lockBy
         /\ Go(p, [proc[p] EXCEPT !.pc = "write", !.copy = [rec EXCEPT !.status = "failed", !.gone = TRUE]])
      \/ proc[p].todo \in {"since", "clear"}
  BY <1>1 DEF ReadAgain, AlreadyCollected, StillLost, ProcType
<1> QED
  BY <1>2, <1>3, <1>4, <1>5, <1>6 DEF ReadAgain, AlreadyCollected, StillLost

LEMMA AskMoves ==
    ASSUME HistTypeOK, NEW p \in Procs, AskStatus(p), at \in {"running", "ended", "forgotten"}
    PROVE  /\ proc[p].pc = "status" /\ Copies(p, proc[p].copy)
           /\ \/ /\ \E x \in Rets : Now(p, "after", proc[p].todo, x) /\ (x = "404" => at = "forgotten")
                 /\ lockBy' = IF lockBy = p THEN "none" ELSE lockBy
              \/ at = "ended" /\ lockBy' = lockBy /\ Now(p, "fetch", proc[p].todo, proc[p].ret)
           /\ UNCHANGED <<rec, torn, synced, redo, at, code, leased, nodeUp, online, trouble>>
<1>1. CASE \E x \in Rets : Ret(p, x) /\ (x = "404" => at = "forgotten")
  BY <1>1, RetNow DEF AskStatus, Env, Tally
<1>2. CASE at = "ended" /\ To(p, "fetch") /\ UNCHANGED lockBy
  BY <1>2, ToNow DEF AskStatus, Pcs, Env, Tally
<1> QED
  BY <1>1, <1>2 DEF AskStatus, HistTypeOK, Rets

LEMMA FetchMoves ==
    ASSUME HistTypeOK, NEW p \in Procs, FetchOutput(p), at \in {"ended", "forgotten"}
    PROVE  /\ proc[p].pc = "fetch" /\ Copies(p, proc[p].copy)
           /\ \/ /\ \E x \in Rets : Now(p, "after", proc[p].todo, x) /\ (x = "404" => at = "forgotten")
                 /\ lockBy' = IF lockBy = p THEN "none" ELSE lockBy
              \/ at = "ended" /\ lockBy' = lockBy /\ Now(p, "sync", proc[p].todo, proc[p].ret)
           /\ UNCHANGED <<rec, torn, synced, redo, at, code, leased, nodeUp, online, trouble>>
<1>1. CASE \E x \in Rets : Ret(p, x) /\ (x = "404" => at = "forgotten")
  BY <1>1, RetNow DEF FetchOutput, Env, Tally
<1>2. CASE at = "ended" /\ To(p, "sync") /\ UNCHANGED lockBy
  BY <1>2, ToNow DEF FetchOutput, Pcs, Env, Tally
<1> QED
  BY <1>1, <1>2 DEF FetchOutput, HistTypeOK, Rets

LEMMA SyncMoves ==
    ASSUME HistTypeOK, NEW p \in Procs, SyncResults(p)
    PROVE  /\ proc[p].pc = "sync" /\ Now(p, "write", proc[p].todo, proc[p].ret)
           /\ \E st \in Final :
                /\ Copies(p, [proc[p].copy EXCEPT !.status = st, !.collected = TRUE, !.gone = FALSE])
                /\ \/ code = "zero" /\ st = "succeeded" /\ synced' = synced + 1
                   \/ code = "zero" /\ st = "failed" /\ synced' = synced
                   \/ code # "zero" /\ synced' = synced
                      /\ st = IF code = "cancelled" THEN "cancelled" ELSE "failed"
           /\ UNCHANGED <<rec, torn, lockBy, redo, at, code, leased, nodeUp, online, trouble>>
<1> DEFINE c(st) == [proc[p].copy EXCEPT !.status = st, !.collected = TRUE, !.gone = FALSE]
<1>1. proc[p] \in ProcType /\ proc[p].copy \in RecordType
  BY DEF HistTypeOK, ProcType
<1>2. ASSUME NEW st \in Final,
             Go(p, [proc[p] EXCEPT !.pc = "write", !.copy.status = st, !.copy.collected = TRUE,
                                   !.copy.gone = FALSE])
      PROVE  Now(p, "write", proc[p].todo, proc[p].ret) /\ Copies(p, c(st))
  <2>1. c(st) \in RecordType
    BY <1>1, RecordFields
  <2>2. Go(p, [proc[p] EXCEPT !.pc = "write", !.todo = proc[p].todo, !.copy = c(st)])
    BY <1>1, <1>2 DEF ProcType
  <2> HIDE DEF c
  <2> QED
    BY <1>1, <2>1, <2>2, CopyNow DEF Pcs, Todos, ProcType
<1>3. /\ proc[p].pc = "sync"
      /\ \E st \in Final :
           /\ Go(p, [proc[p] EXCEPT !.pc = "write", !.copy.status = st, !.copy.collected = TRUE,
                                    !.copy.gone = FALSE])
           /\ \/ code = "zero" /\ st = "succeeded" /\ synced' = synced + 1
              \/ code = "zero" /\ st = "failed" /\ synced' = synced
              \/ code # "zero" /\ synced' = synced
                 /\ st = IF code = "cancelled" THEN "cancelled" ELSE "failed"
      /\ UNCHANGED <<rec, torn, lockBy, redo, at, code, leased, nodeUp, online, trouble>>
  BY DEF SyncResults, Final, File, Env
<1> QED
  BY <1>2, <1>3

LEMMA EmptyMoves ==
    ASSUME HistTypeOK, NEW p \in Procs, Empty(p)
    PROVE  /\ proc[p].pc = "write" /\ Copies(p, proc[p].copy)
           /\ \/ /\ rec.status # "none" /\ Now(p, "fill", proc[p].todo, proc[p].ret)
                 /\ UNCHANGED <<lockBy, trouble, redo>>
              \/ /\ Now(p, "after", proc[p].todo, "bad") /\ torn' = torn
                 /\ lockBy' = IF lockBy = p THEN "none" ELSE lockBy
                 /\ redo' = (redo \/ proc[p].copy.collected)
                 /\ trouble' = trouble \/ (trouble < MaxTrouble /\ trouble' = trouble + 1)
           /\ torn' \in BOOLEAN
           /\ UNCHANGED <<rec, at, code, leased, nodeUp, online, synced>>
<1>1. CASE rec.status # "none" /\ torn' = TRUE /\ To(p, "fill") /\ UNCHANGED <<lockBy, trouble, redo>>
  BY <1>1, ToNow DEF Empty, Pcs
<1>2. CASE Ret(p, "bad") /\ UNCHANGED torn
  <2>1. /\ Now(p, "after", proc[p].todo, "bad") /\ Copies(p, proc[p].copy)
        /\ lockBy' = IF lockBy = p THEN "none" ELSE lockBy
    BY <1>2, RetNow DEF Rets
  <2>2. torn' = torn /\ torn' \in BOOLEAN
    BY <1>2 DEF HistTypeOK
  <2>3. \/ /\ redo' = (redo \/ proc[p].copy.collected)
           /\ trouble' = trouble \/ (trouble < MaxTrouble /\ trouble' = trouble + 1)
        \/ rec.status # "none" /\ To(p, "fill")
    BY DEF Empty
  <2>4. ~To(p, "fill")
    BY <2>1, ToNow DEF Pcs, Now
  <2> QED
    BY <2>1, <2>2, <2>3, <2>4 DEF Empty
<1> QED
  BY <1>1, <1>2 DEF Empty

LEMMA FillMoves ==
    ASSUME HistTypeOK, NEW p \in Procs, Fill(p)
    PROVE  /\ proc[p].pc = "fill" /\ Copies(p, proc[p].copy)
           /\ rec' = (IF rec.status = "none" THEN rec ELSE proc[p].copy) /\ torn' = FALSE
           /\ \/ /\ p = "run" /\ proc[p].todo = "collect" /\ ~proc[p].copy.collected
                 /\ Now(p, "after", proc[p].todo, proc[p].ret) /\ lockBy' = lockBy
              \/ /\ ~(p = "run" /\ proc[p].todo = "collect" /\ ~proc[p].copy.collected)
                 /\ Now(p, "after", proc[p].todo, "done")
                 /\ lockBy' = IF lockBy = p THEN "none" ELSE lockBy
           /\ UNCHANGED <<synced, redo, at, code, leased, nodeUp, online, trouble>>
<1>1. CASE p = "run" /\ proc[p].todo = "collect" /\ ~proc[p].copy.collected
  <2>1. To(p, "after") /\ UNCHANGED lockBy
    BY <1>1 DEF Fill
  <2> QED
    BY <1>1, <2>1, ToNow DEF Fill, Pcs, Env, Tally
<1>2. CASE ~(p = "run" /\ proc[p].todo = "collect" /\ ~proc[p].copy.collected)
  <2>1. Ret(p, "done")
    BY <1>2 DEF Fill
  <2> QED
    BY <1>2, <2>1, RetNow DEF Fill, Rets, Env, Tally
<1> QED
  BY <1>1, <1>2

LEMMA WatchMoves ==
    ASSUME HistTypeOK, WatchAfter
    PROVE  /\ proc["watch"].pc = "after"
           /\ \/ /\ \E t \in {"fail", "since", "clear"} :
                      /\ Now("watch", "lock", t, proc["watch"].ret)
                      /\ t = "fail" => proc["watch"].ret = "404" \/ rec.since = "old"
                 /\ Copies("watch", proc["watch"].copy)
                 /\ proc["watch"].todo = "collect"
              \/ proc'["watch"] = Idle /\ Now("watch", "idle", "collect", "none") /\ Copies("watch", NoRecord)
           /\ UNCHANGED <<rec, torn, lockBy, synced, redo, at, code, leased, nodeUp, online, trouble>>
<1>1. proc["watch"] \in ProcType /\ "watch" \in Procs
  BY DEF HistTypeOK, Procs
<1>2. CASE Go("watch", Idle)
  <2>1. Now("watch", "idle", "collect", "none") /\ Copies("watch", NoRecord)
    BY <1>1, <1>2, GoNow, IdleType DEF Idle
  <2>2. proc'["watch"] = Idle
    BY <1>1, <1>2 DEF Go, HistTypeOK
  <2> QED
    BY <2>1, <2>2 DEF WatchAfter, File, Env, Tally
<1>3. CASE \E t \in {"fail", "since", "clear"} :
             /\ Go("watch", [proc["watch"] EXCEPT !.pc = "lock", !.todo = t])
             /\ t = "fail" => proc["watch"].ret = "404" \/ rec.since = "old"
             /\ proc["watch"].todo = "collect"
  <2>1. PICK t \in {"fail", "since", "clear"} :
             /\ Go("watch", [proc["watch"] EXCEPT !.pc = "lock", !.todo = t])
             /\ t = "fail" => proc["watch"].ret = "404" \/ rec.since = "old"
             /\ proc["watch"].todo = "collect"
    BY <1>3
  <2>2. Go("watch", [proc["watch"] EXCEPT !.pc = "lock", !.todo = t, !.copy = proc["watch"].copy])
    BY <1>1, <2>1 DEF ProcType
  <2>3. Now("watch", "lock", t, proc["watch"].ret) /\ Copies("watch", proc["watch"].copy)
    BY ZenonT(60), <1>1, <2>2, CopyNow DEF Pcs, Todos, ProcType
  <2> QED
    BY <2>1, <2>3 DEF WatchAfter, File, Env, Tally
<1> QED
  BY <1>2, <1>3 DEF WatchAfter, NodeGone

LEMMA RecordMoves ==
    ASSUME HistTypeOK, RecordRun
    PROVE  /\ Run.pc = "record" /\ Now("run", "upload", Run.todo, Run.ret) /\ Copies("run", rec')
           /\ rec' \in RecordType /\ rec'.status = "running"
           /\ ~rec'.hasJob /\ ~rec'.collected /\ ~rec'.gone
           /\ UNCHANGED <<torn, lockBy, synced, redo, at, code, leased, nodeUp, online, trouble>>
<1>1. Run \in ProcType
  BY DEF HistTypeOK, Run, Procs
<1> DEFINE r == [NoRecord EXCEPT !.status = "running", !.detached = Run.asked]
<1>2. r \in RecordType /\ r.status = "running" /\ ~r.hasJob /\ ~r.collected /\ ~r.gone
  BY <1>1 DEF ProcType, NoRecord, RecordType
<1>3. rec' = r /\ Go("run", [Run EXCEPT !.pc = "upload", !.copy = r])
  BY DEF RecordRun
<1> HIDE DEF r
<1>4. Go("run", [Run EXCEPT !.pc = "upload", !.todo = Run.todo, !.copy = r])
  BY <1>1, <1>3 DEF ProcType
<1>5. Now("run", "upload", Run.todo, Run.ret) /\ Copies("run", r)
  BY <1>1, <1>2, <1>4, CopyNow DEF Pcs, Todos, ProcType, Procs, Run
<1> QED
  BY <1>2, <1>3, <1>5 DEF RecordRun, Env, Tally

\* The watcher and attach begin with a look at the record.
LEMMA LookMoves ==
    ASSUME HistTypeOK, NEW p \in Procs, NEW place \in Pcs, Go(p, [Idle EXCEPT !.pc = place, !.copy = rec])
    PROVE  Now(p, place, "collect", "none") /\ Copies(p, rec)
<1> DEFINE r == [Idle EXCEPT !.pc = place, !.copy = rec]
<1>1. r \in ProcType
  BY IdleType DEF ProcType, HistTypeOK, Pcs
<1>2. r.pc = place /\ r.todo = "collect" /\ r.ret = "none" /\ r.copy = rec
  BY DEF Idle
<1> HIDE DEF r
<1>3. Go(p, r)
  BY DEF r
<1> QED
  BY <1>1, <1>2, <1>3, GoNow

LEMMA KilledMoves ==
    ASSUME HistTypeOK, NEW p \in Procs, Killed(p)
    PROVE  /\ proc[p].pc \notin {"idle", "over"}
           /\ Now(p, IF p = "run" THEN "over" ELSE "idle", "collect", "none") /\ Copies(p, NoRecord)
           /\ p # "run" => proc'[p] = Idle
           /\ lockBy' = IF lockBy = p THEN "none" ELSE lockBy
           /\ redo' = (redo \/ (proc[p].copy.collected /\ proc[p].pc \in {"write", "fill"}))
           /\ trouble < MaxTrouble /\ trouble' = trouble + 1
           /\ UNCHANGED <<rec, torn, at, code, leased, nodeUp, online, synced>>
<1> DEFINE r == [Idle EXCEPT !.pc = IF p = "run" THEN "over" ELSE "idle"]
<1>1. r \in ProcType
  BY IdleType DEF ProcType
<1>2. /\ r.pc = IF p = "run" THEN "over" ELSE "idle"
      /\ r.todo = "collect" /\ r.ret = "none" /\ r.copy = NoRecord
  BY DEF Idle
<1>3. p # "run" => r = Idle
  <2>1. [Idle EXCEPT !.pc = "idle"] = Idle
    BY IdleType DEF Idle, ProcType
  <2> QED
    BY <2>1
<1>4. Go(p, r)
  BY DEF Killed
<1> HIDE DEF r
<1>5. Now(p, r.pc, r.todo, r.ret) /\ Copies(p, r.copy)
  BY <1>1, <1>4, GoNow
<1>6. proc'[p] = r
  BY <1>4 DEF Go, HistTypeOK
<1> QED
  BY <1>2, <1>3, <1>5, <1>6 DEF Killed

LEMMA WatchLookMoves ==
    ASSUME HistTypeOK, WatchLook
    PROVE  /\ proc["watch"].pc = "idle" /\ Pending(rec)
           /\ Now("watch", "lock", "collect", "none") /\ Copies("watch", rec)
           /\ UNCHANGED <<rec, torn, lockBy, synced, redo, at, code, leased, nodeUp, online, trouble>>
BY LookMoves DEF WatchLook, Procs, Pcs, File, Env, Tally

LEMMA AttachLookMoves ==
    ASSUME HistTypeOK, AttachLook
    PROVE  /\ proc["attach"].pc = "idle" /\ rec.hasJob
           /\ Now("attach", "stream", "collect", "none") /\ Copies("attach", rec)
           /\ UNCHANGED <<rec, torn, lockBy, synced, redo, at, code, leased, nodeUp, online, trouble>>
BY LookMoves DEF AttachLook, Procs, Pcs, File, Env, Tally

LEMMA AttachEndMoves ==
    ASSUME HistTypeOK, AttachEnd
    PROVE  /\ proc["attach"].pc = "stream"
           /\ Now("attach", "lock", proc["attach"].todo, proc["attach"].ret)
           /\ Copies("attach", proc["attach"].copy)
           /\ \/ UNCHANGED <<at, code, leased>>
              \/ at = "running" /\ at' = "ended" /\ code' = "cancelled" /\ leased' = "free"
           /\ UNCHANGED <<rec, torn, lockBy, synced, redo, nodeUp, online, trouble>>
BY ToNow DEF AttachEnd, Procs, Pcs, File, Tally

LEMMA TakeMoves ==
    ASSUME HistTypeOK, NEW p \in Procs, TakeLock(p)
    PROVE  /\ proc[p].pc = "lock" /\ lockBy = "none" /\ lockBy' = p
           /\ Now(p, "read", proc[p].todo, proc[p].ret) /\ Copies(p, proc[p].copy)
           /\ UNCHANGED <<rec, torn, synced, redo, at, code, leased, nodeUp, online, trouble>>
BY ToNow DEF TakeLock, Pcs, Env, Tally

LEMMA AttachAfterMoves ==
    ASSUME HistTypeOK, AttachAfter
    PROVE  /\ proc["attach"].pc = "after" /\ proc'["attach"] = Idle
           /\ Now("attach", "idle", "collect", "none") /\ Copies("attach", NoRecord)
           /\ UNCHANGED <<rec, torn, lockBy, synced, redo, at, code, leased, nodeUp, online, trouble>>
<1>1. Now("attach", "idle", "collect", "none") /\ Copies("attach", NoRecord)
  BY GoNow, IdleType DEF AttachAfter, Idle, Procs
<1>2. proc'["attach"] = Idle
  BY DEF AttachAfter, Go, HistTypeOK, Procs
<1> QED
  BY <1>1, <1>2 DEF AttachAfter, File, Env, Tally

\* The fields of a copy after each of these changes.
LEMMA CopyFields ==
    ASSUME NEW c \in RecordType
    PROVE  /\ \A st \in Final : LET d == [c EXCEPT !.status = st] IN
                /\ d.status = st /\ d.hasJob = c.hasJob /\ d.collected = c.collected
                /\ d.since = c.since /\ d.gone = c.gone
           /\ LET d == [c EXCEPT !.detached = TRUE, !.hasJob = TRUE] IN
                /\ d.status = c.status /\ d.hasJob = TRUE /\ d.collected = c.collected
                /\ d.since = c.since /\ d.gone = c.gone
           /\ LET d == [c EXCEPT !.status = "failed", !.gone = TRUE] IN
                /\ d.status = "failed" /\ d.hasJob = c.hasJob /\ d.collected = c.collected
                /\ d.since = c.since /\ d.gone = TRUE
           /\ \A x \in {"set", "none", "old"} : LET d == [c EXCEPT !.since = x] IN
                /\ d.status = c.status /\ d.hasJob = c.hasJob /\ d.collected = c.collected
                /\ d.since = x /\ d.gone = c.gone
           /\ \A st \in Final : LET d == [c EXCEPT !.status = st, !.collected = TRUE, !.gone = FALSE] IN
                /\ d.status = st /\ d.hasJob = c.hasJob /\ d.collected = TRUE
                /\ d.since = c.since /\ d.gone = FALSE
BY DEF RecordType, Final

-----------------------------------------------------------------------------
(* Each step keeps the invariant. *)

USE DEF Procs, Final, Others, Early, Reading, Writing

LEMMA AcceptRunStep ==
    ASSUME HistInv, AcceptRun
    PROVE  HistInv'
<1> HistTypeOK
  BY DEF HistInv
<1>0. /\ Run.pc = "idle"
      /\ \/ leased' = "held" /\ Now("run", "build", Run.todo, Run.ret) /\ Copies("run", Run.copy)
         \/ leased' = leased /\ Now("run", "over", "collect", "none") /\ Copies("run", NoRecord)
      /\ UNCHANGED <<rec, torn, lockBy, synced, redo, at, code, nodeUp, online, trouble>>
  BY AcceptMoves
<1>1. HistTypeOK'
  BY <1>0, HistAssumption DEF Now, Copies, HistTypeOK, Release, Procs, ProcType
<1>t. proc["run"].copy \in RecordType /\ rec \in RecordType
  BY DEF HistTypeOK, ProcType, Procs
<1> Run.copy \in RecordType
  BY <1>t DEF Run
<1>2. JobInv'
  BY <1>0 DEF HistInv, Run, Now, Copies, JobInv, Release, Idle, NoRecord
<1>3. LeaseInv'
  BY <1>0 DEF HistInv, Run, Now, LeaseInv, Release, Idle, NoRecord
<1>4. ProcInv'
  BY <1>0 DEF HistInv, Run, Now, Holds, ProcInv, Release, Idle, NoRecord
<1>5. UpfrontInv'
  <2>1. CASE Now("run", "build", Run.todo, Run.ret) /\ Copies("run", Run.copy)
    BY <1>0, <1>1, <1>t, CopyFields, <2>1 DEF HistInv, Run, Now, Copies, Upfront, UpfrontInv,
       Release, Idle, NoRecord, Pending
  <2>2. CASE Now("run", "over", "collect", "none")
    BY <1>0, <1>1, <1>t, CopyFields, <2>2 DEF HistInv, Run, Now, Copies, Upfront, UpfrontInv,
       Release, Idle, NoRecord, Pending
  <2> QED
    BY <1>0, <2>1, <2>2
<1>6. RecInv'
  BY <1>0 DEF HistInv, Run, Now, Holds, Seen, RecInv, Release, Idle, NoRecord
<1>7. TrueOf(rec)'
  BY <1>0 DEF HistInv, TrueOf, Release, Idle, NoRecord
<1>8. \A q \in Procs : Holds(q)' => CopyInv(q)'
  BY <1>0 DEF HistInv, Run, Now, Copies, Holds, CopyInv, ProcInv, JobInv, RecInv, TrueOf, Seen,
     Release, Idle, NoRecord
<1>9. GoneInv'
  BY <1>0 DEF HistInv, Run, Now, GoneInv, Release, Idle, NoRecord
<1>10. SyncInv'
  BY <1>0 DEF HistInv, Run, Now, Copies, SyncInv, Release, Idle, NoRecord
<1> QED
  BY <1>1, <1>2, <1>3, <1>4, <1>5, <1>6, <1>7, <1>8, <1>9, <1>10 DEF HistInv

LEMMA BuildRunStep ==
    ASSUME HistInv, BuildRun
    PROVE  HistInv'
<1> HistTypeOK
  BY DEF HistInv
<1>0. /\ Run.pc = "build"
      /\ \/ leased' = leased /\ Now("run", "record", Run.todo, Run.ret) /\ Copies("run", Run.copy)
         \/ Release /\ Now("run", "over", "collect", "none") /\ Copies("run", NoRecord)
      /\ UNCHANGED <<rec, torn, lockBy, synced, redo, at, code, nodeUp, online, trouble>>
  BY BuildMoves
<1>1. HistTypeOK'
  BY <1>0, HistAssumption DEF Now, Copies, HistTypeOK, Release, Procs, ProcType
<1>t. proc["run"].copy \in RecordType /\ rec \in RecordType
  BY DEF HistTypeOK, ProcType, Procs
<1> Run.copy \in RecordType
  BY <1>t DEF Run
<1>2. JobInv'
  BY <1>0 DEF HistInv, Run, Now, Copies, JobInv, Release, Idle, NoRecord
<1>3. LeaseInv'
  BY <1>0 DEF HistInv, Run, Now, LeaseInv, JobInv, UpfrontInv, Upfront, ProcInv, Release, Idle,
     NoRecord
<1>4. ProcInv'
  BY <1>0 DEF HistInv, Run, Now, Holds, ProcInv, Release, Idle, NoRecord
<1>5. UpfrontInv'
  <2>1. CASE Now("run", "record", Run.todo, Run.ret) /\ Copies("run", Run.copy)
    BY <1>0, <1>1, <1>t, CopyFields, <2>1 DEF HistInv, Run, Now, Copies, Upfront, UpfrontInv,
       Release, Idle, NoRecord, Pending
  <2>2. CASE Now("run", "over", "collect", "none")
    BY <1>0, <1>1, <1>t, CopyFields, <2>2 DEF HistInv, Run, Now, Copies, Upfront, UpfrontInv,
       Release, Idle, NoRecord, Pending
  <2> QED
    BY <1>0, <2>1, <2>2
<1>6. RecInv'
  BY <1>0 DEF HistInv, Run, Now, Holds, Seen, RecInv, Release, Idle, NoRecord
<1>7. TrueOf(rec)'
  BY <1>0 DEF HistInv, TrueOf, Release, Idle, NoRecord
<1>8. \A q \in Procs : Holds(q)' => CopyInv(q)'
  BY <1>0 DEF HistInv, Run, Now, Copies, Holds, CopyInv, ProcInv, JobInv, RecInv, TrueOf, Seen,
     Release, Idle, NoRecord
<1>9. GoneInv'
  BY <1>0 DEF HistInv, Run, Now, GoneInv, Release, Idle, NoRecord
<1>10. SyncInv'
  BY <1>0 DEF HistInv, Run, Now, Copies, SyncInv, Release, Idle, NoRecord
<1> QED
  BY <1>1, <1>2, <1>3, <1>4, <1>5, <1>6, <1>7, <1>8, <1>9, <1>10 DEF HistInv

LEMMA UploadRunStep ==
    ASSUME HistInv, UploadRun
    PROVE  HistInv'
<1> HistTypeOK
  BY DEF HistInv
<1>0. /\ Run.pc = "upload"
      /\ \/ /\ nodeUp /\ at' = "running" /\ leased' = "bound" /\ code' = code
            /\ Now("run", "stream", Run.todo, Run.ret) /\ Copies("run", Run.copy)
         \/ /\ at' = at /\ code' = code /\ Now("run", "write", "finalize", Run.ret)
            /\ \/ leased' = leased /\ Copies("run", [Run.copy EXCEPT !.status = "failed"])
               \/ Release /\ Copies("run", [Run.copy EXCEPT !.status = "cancelled"])
      /\ UNCHANGED <<rec, torn, lockBy, synced, redo, nodeUp, online, trouble>>
  BY UploadMoves
<1>1. HistTypeOK'
  BY <1>0, HistAssumption DEF Now, Copies, HistTypeOK, Release, Procs, ProcType
<1>t. proc["run"].copy \in RecordType /\ rec \in RecordType
  BY DEF HistTypeOK, ProcType, Procs
<1> Run.copy \in RecordType
  BY <1>t DEF Run
<1>2. JobInv'
  BY <1>0 DEF Run, Now, Copies, Upfront, Holds, Seen, HistTypeOK, ProcType, RecordType, JobInv,
     LeaseInv, ProcInv, UpfrontInv, RecInv, TrueOf, CopyInv, GoneInv, SyncInv, HistInv, Release
<1>3. LeaseInv'
  BY <1>0 DEF HistInv, Run, Now, LeaseInv, Release
<1>4. ProcInv'
  BY <1>0 DEF Run, Now, Copies, Upfront, Holds, Seen, HistTypeOK, ProcType, RecordType, JobInv,
     LeaseInv, ProcInv, UpfrontInv, RecInv, TrueOf, CopyInv, GoneInv, SyncInv, HistInv, Release
<1>5. UpfrontInv'
  BY <1>0 DEF HistInv, Run, Now, Copies, Upfront, UpfrontInv, JobInv, ProcInv, Holds, HistTypeOK,
     RecordType, Release
<1>6. RecInv'
  BY <1>0 DEF Run, Now, Copies, Upfront, Holds, Seen, HistTypeOK, ProcType, RecordType, JobInv,
     LeaseInv, ProcInv, UpfrontInv, RecInv, TrueOf, CopyInv, GoneInv, SyncInv, HistInv, Release
<1>7. TrueOf(rec)'
  BY <1>0 DEF HistInv, TrueOf, Release
<1>8. \A q \in Procs : Holds(q)' => CopyInv(q)'
  BY <1>0 DEF Run, Now, Copies, Upfront, Holds, Seen, HistTypeOK, ProcType, RecordType, JobInv,
     LeaseInv, ProcInv, UpfrontInv, RecInv, TrueOf, CopyInv, GoneInv, SyncInv, HistInv, Release
<1>9. GoneInv'
  BY <1>0 DEF HistInv, Run, Now, GoneInv, ProcInv, Holds, UpfrontInv, Upfront, CopyInv, RecInv,
     Release
<1>10. SyncInv'
  BY <1>0 DEF HistInv, Run, Now, Copies, SyncInv, Release
<1> QED
  BY <1>1, <1>2, <1>3, <1>4, <1>5, <1>6, <1>7, <1>8, <1>9, <1>10 DEF HistInv

LEMMA StreamRunStep ==
    ASSUME HistInv, StreamRun
    PROVE  HistInv'
<1> HistTypeOK
  BY DEF HistInv
<1>0. /\ Run.pc = "stream"
      /\ \/ /\ UNCHANGED <<at, code, leased>> /\ at = "ended" /\ code = "zero"
            /\ Now("run", "results", Run.todo, Run.ret) /\ Copies("run", Run.copy)
         \/ /\ UNCHANGED <<at, code, leased>>
            /\ Now("run", "write", "finalize", Run.ret)
            /\ \E st \in {"failed", "cancelled"} : Copies("run", [Run.copy EXCEPT !.status = st])
         \/ /\ at = "running" /\ at' = "ended" /\ code' = "cancelled" /\ leased' = "free"
            /\ Now("run", "write", "finalize", Run.ret)
            /\ Copies("run", [Run.copy EXCEPT !.status = "cancelled"])
         \/ /\ UNCHANGED <<at, code, leased>>
            /\ \E t \in {"save", "collect"} : Now("run", "write", t, Run.ret)
            /\ Copies("run", [Run.copy EXCEPT !.detached = TRUE, !.hasJob = TRUE])
      /\ UNCHANGED <<rec, torn, lockBy, synced, redo, nodeUp, online, trouble>>
  BY StreamMoves
<1>1. HistTypeOK'
  BY <1>0, HistAssumption DEF Now, Copies, HistTypeOK, Release, Procs, ProcType
<1>t. proc["run"].copy \in RecordType /\ rec \in RecordType
  BY DEF HistTypeOK, ProcType, Procs
<1> Run.copy \in RecordType
  BY <1>t DEF Run
<1>2. JobInv'
  BY <1>0 DEF HistInv, Run, Now, Copies, JobInv, Idle, NoRecord
<1>3. LeaseInv'
  BY <1>0 DEF HistInv, Run, Now, LeaseInv, Idle, NoRecord
<1>4. ProcInv'
  <2>1. CASE Now("run", "results", Run.todo, Run.ret) /\ Copies("run", Run.copy)
    BY <1>0, <1>1, <1>t, CopyFields, <2>1 DEF HistInv, Run, Now, Holds, ProcInv, Release, Idle,
       NoRecord, Pending
  <2>2. CASE /\ UNCHANGED <<at, code, leased>> /\ Now("run", "write", "finalize", Run.ret)
           /\ \E st \in {"failed", "cancelled"} : Copies("run", [Run.copy EXCEPT !.status = st])
    BY <1>0, <1>1, <1>t, CopyFields, <2>2 DEF HistInv, Run, Now, Copies, Holds, Upfront, ProcInv,
       UpfrontInv, CopyInv, JobInv, Release, Idle, NoRecord, Pending
  <2>3. CASE /\ at = "running" /\ at' = "ended" /\ code' = "cancelled" /\ leased' = "free"
           /\ Now("run", "write", "finalize", Run.ret)
           /\ Copies("run", [Run.copy EXCEPT !.status = "cancelled"])
    BY <1>0, <1>1, <1>t, CopyFields, <2>3 DEF HistInv, Run, Now, Copies, Holds, Upfront, ProcInv,
       UpfrontInv, CopyInv, JobInv, Release, Idle, NoRecord, Pending
  <2>4. CASE /\ UNCHANGED <<at, code, leased>> /\ \E t \in {"save", "collect"} : Now("run", "write", t, Run.ret)
           /\ Copies("run", [Run.copy EXCEPT !.detached = TRUE, !.hasJob = TRUE])
    BY <1>0, <1>1, <1>t, CopyFields, <2>4 DEF HistInv, Run, Now, Copies, Holds, Upfront, ProcInv,
       UpfrontInv, CopyInv, JobInv, Release, Idle, NoRecord, Pending
  <2> QED
    BY <1>0, <2>1, <2>2, <2>3, <2>4
<1>5. UpfrontInv'
  <2>1. CASE Now("run", "results", Run.todo, Run.ret) /\ Copies("run", Run.copy)
    BY <1>0, <1>1, <1>t, CopyFields, <2>1 DEF HistInv, Run, Now, Copies, Upfront, UpfrontInv,
       Release, Idle, NoRecord, Pending
  <2>2. CASE /\ UNCHANGED <<at, code, leased>> /\ Now("run", "write", "finalize", Run.ret)
           /\ \E st \in {"failed", "cancelled"} : Copies("run", [Run.copy EXCEPT !.status = st])
    BY <1>0, <1>1, <1>t, CopyFields, <2>2 DEF HistInv, Run, Now, Copies, Upfront, UpfrontInv,
       Release, Idle, NoRecord, Pending
  <2>3. CASE /\ at = "running" /\ at' = "ended" /\ code' = "cancelled" /\ leased' = "free"
           /\ Now("run", "write", "finalize", Run.ret)
           /\ Copies("run", [Run.copy EXCEPT !.status = "cancelled"])
    BY <1>0, <1>1, <1>t, CopyFields, <2>3 DEF HistInv, Run, Now, Copies, Upfront, UpfrontInv,
       Release, Idle, NoRecord, Pending
  <2>4. CASE /\ UNCHANGED <<at, code, leased>> /\ \E t \in {"save", "collect"} : Now("run", "write", t, Run.ret)
           /\ Copies("run", [Run.copy EXCEPT !.detached = TRUE, !.hasJob = TRUE])
    BY <1>0, <1>1, <1>t, CopyFields, <2>4 DEF HistInv, Run, Now, Copies, Upfront, UpfrontInv,
       Release, Idle, NoRecord, Pending
  <2> QED
    BY <1>0, <2>1, <2>2, <2>3, <2>4
<1>6. RecInv'
  <2>1. CASE Now("run", "results", Run.todo, Run.ret) /\ Copies("run", Run.copy)
    BY <1>0, <1>1, <1>t, CopyFields, <2>1 DEF HistInv, Run, Now, Holds, Seen, RecInv, Release, Idle,
       NoRecord, Pending
  <2>2. CASE /\ UNCHANGED <<at, code, leased>> /\ Now("run", "write", "finalize", Run.ret)
           /\ \E st \in {"failed", "cancelled"} : Copies("run", [Run.copy EXCEPT !.status = st])
    BY <1>0, <1>1, <1>t, CopyFields, <2>2 DEF HistInv, Run, Now, Copies, Holds, Seen, RecInv,
       Upfront, UpfrontInv, ProcInv, CopyInv, Release, Idle, NoRecord, Pending
  <2>3. CASE /\ at = "running" /\ at' = "ended" /\ code' = "cancelled" /\ leased' = "free"
           /\ Now("run", "write", "finalize", Run.ret)
           /\ Copies("run", [Run.copy EXCEPT !.status = "cancelled"])
    BY <1>0, <1>1, <1>t, CopyFields, <2>3 DEF HistInv, Run, Now, Copies, Holds, Seen, RecInv,
       Upfront, UpfrontInv, ProcInv, CopyInv, Release, Idle, NoRecord, Pending
  <2>4. CASE /\ UNCHANGED <<at, code, leased>> /\ \E t \in {"save", "collect"} : Now("run", "write", t, Run.ret)
           /\ Copies("run", [Run.copy EXCEPT !.detached = TRUE, !.hasJob = TRUE])
    BY <1>0, <1>1, <1>t, CopyFields, <2>4 DEF HistInv, Run, Now, Copies, Holds, Seen, RecInv,
       Upfront, UpfrontInv, ProcInv, CopyInv, Release, Idle, NoRecord, Pending
  <2> QED
    BY <1>0, <2>1, <2>2, <2>3, <2>4
<1>7. TrueOf(rec)'
  BY <1>0 DEF HistInv, TrueOf, JobInv, UpfrontInv, Upfront, HistTypeOK, Idle, NoRecord
<1>8. \A q \in Procs : Holds(q)' => CopyInv(q)'
  <2>1. CASE Now("run", "results", Run.todo, Run.ret) /\ Copies("run", Run.copy)
    BY <1>0, <1>1, <1>t, CopyFields, <2>1 DEF HistInv, Run, Now, Copies, Holds, CopyInv, ProcInv,
       JobInv, RecInv, TrueOf, Seen, Release, Idle, NoRecord, Pending
  <2>2. CASE /\ UNCHANGED <<at, code, leased>> /\ Now("run", "write", "finalize", Run.ret)
           /\ \E st \in {"failed", "cancelled"} : Copies("run", [Run.copy EXCEPT !.status = st])
    BY SMTT(30), <1>0, <1>1, <1>t, CopyFields, <2>2 DEF Run, Now, Copies, Upfront, Holds, Seen, HistTypeOK,
       ProcType, RecordType, JobInv, LeaseInv, ProcInv, UpfrontInv, RecInv, TrueOf, CopyInv, GoneInv,
       SyncInv, HistInv, Release, Idle, NoRecord, Pending
  <2>3. CASE /\ at = "running" /\ at' = "ended" /\ code' = "cancelled" /\ leased' = "free"
           /\ Now("run", "write", "finalize", Run.ret)
           /\ Copies("run", [Run.copy EXCEPT !.status = "cancelled"])
    BY SMTT(30), <1>0, <1>1, <1>t, CopyFields, <2>3 DEF Run, Now, Copies, Upfront, Holds, Seen, HistTypeOK,
       ProcType, RecordType, JobInv, LeaseInv, ProcInv, UpfrontInv, RecInv, TrueOf, CopyInv, GoneInv,
       SyncInv, HistInv, Release, Idle, NoRecord, Pending
  <2>4. CASE /\ UNCHANGED <<at, code, leased>> /\ \E t \in {"save", "collect"} : Now("run", "write", t, Run.ret)
           /\ Copies("run", [Run.copy EXCEPT !.detached = TRUE, !.hasJob = TRUE])
    BY SMTT(60), <1>0, <1>1, <1>t, CopyFields, <2>4 DEF Run, Now, Copies, Upfront, Holds, Seen, HistTypeOK,
       ProcType, RecordType, JobInv, LeaseInv, ProcInv, UpfrontInv, RecInv, TrueOf, CopyInv, GoneInv,
       SyncInv, HistInv, Release, Idle, NoRecord, Pending
  <2> QED
    BY <1>0, <2>1, <2>2, <2>3, <2>4
<1>9. GoneInv'
  BY <1>0 DEF HistInv, Run, Now, GoneInv, Idle, NoRecord
<1>10. SyncInv'
  BY <1>0 DEF HistInv, Run, Now, Copies, SyncInv, Idle, NoRecord
<1> QED
  BY <1>1, <1>2, <1>3, <1>4, <1>5, <1>6, <1>7, <1>8, <1>9, <1>10 DEF HistInv

LEMMA ResultsRunStep ==
    ASSUME HistInv, ResultsRun
    PROVE  HistInv'
<1> HistTypeOK
  BY DEF HistInv
<1>0. /\ Run.pc = "results" /\ Now("run", "write", "finalize", Run.ret)
      /\ \/ synced' = synced + 1 /\ Copies("run", [Run.copy EXCEPT !.status = "succeeded"])
         \/ synced' = synced /\ Copies("run", [Run.copy EXCEPT !.status = "failed"])
      /\ UNCHANGED <<rec, torn, lockBy, redo, at, code, leased, nodeUp, online, trouble>>
  BY ResultsMoves
<1>1. HistTypeOK'
  BY <1>0, HistAssumption DEF Now, Copies, HistTypeOK, Release, Procs, ProcType
<1>t. proc["run"].copy \in RecordType /\ rec \in RecordType
  BY DEF HistTypeOK, ProcType, Procs
<1> Run.copy \in RecordType
  BY <1>t DEF Run
<1>2. JobInv'
  BY <1>0 DEF HistInv, Run, Now, Copies, JobInv, Idle, NoRecord
<1>3. LeaseInv'
  BY <1>0 DEF HistInv, Run, Now, LeaseInv, Idle, NoRecord
<1>4. ProcInv'
  BY <1>0 DEF Run, Now, Copies, Upfront, Holds, Seen, HistTypeOK, ProcType, RecordType, JobInv,
     LeaseInv, ProcInv, UpfrontInv, RecInv, TrueOf, CopyInv, GoneInv, SyncInv, HistInv, Idle,
     NoRecord
<1>5. UpfrontInv'
  <2>1. Run.copy.hasJob = FALSE /\ ~Run.copy.collected /\ ~Run.copy.gone /\ synced = 0 /\ code = "zero"
    BY <1>0 DEF HistInv, Run, Now, Copies, Upfront, UpfrontInv, JobInv, ProcInv, Holds, HistTypeOK,
       RecordType, Release, Idle, NoRecord, Pending
  <2>2. /\ proc'["run"].copy.status \in Final /\ ~proc'["run"].copy.hasJob
        /\ ~proc'["run"].copy.collected /\ ~proc'["run"].copy.gone
        /\ proc'["run"].copy.status = "succeeded" => synced' = 1
        /\ synced' <= 1
    <3>1. CASE synced' = synced + 1 /\ Copies("run", [Run.copy EXCEPT !.status = "succeeded"])
      BY <1>t, <2>1, <3>1 DEF Copies, Final, Run, RecordType
    <3>2. CASE synced' = synced /\ Copies("run", [Run.copy EXCEPT !.status = "failed"])
      BY <1>t, <2>1, <3>2 DEF Copies, Final, Run, RecordType
    <3> QED
      BY <1>0, <3>1, <3>2
  <2> QED
    BY <1>0, <2>1, <2>2 DEF HistInv, Run, Now, Copies, Upfront, UpfrontInv, Release, Idle, NoRecord,
       Pending
<1>6. RecInv'
  BY <1>0 DEF Run, Now, Copies, Upfront, Holds, Seen, HistTypeOK, ProcType, RecordType, JobInv,
     LeaseInv, ProcInv, UpfrontInv, RecInv, TrueOf, CopyInv, GoneInv, SyncInv, HistInv, Idle,
     NoRecord
<1>7. TrueOf(rec)'
  BY <1>0 DEF HistInv, TrueOf, JobInv, UpfrontInv, Upfront, HistTypeOK, Idle, NoRecord
<1>8. \A q \in Procs : Holds(q)' => CopyInv(q)'
  BY <1>0 DEF Run, Now, Copies, Upfront, Holds, Seen, HistTypeOK, ProcType, RecordType, JobInv,
     LeaseInv, ProcInv, UpfrontInv, RecInv, TrueOf, CopyInv, GoneInv, SyncInv, HistInv, Idle,
     NoRecord
<1>9. GoneInv'
  BY <1>0 DEF HistInv, Run, Now, GoneInv, Idle, NoRecord
<1>10. SyncInv'
  BY <1>0 DEF HistInv, Run, Now, Copies, SyncInv, Holds, Upfront, UpfrontInv, ProcInv, CopyInv,
     RecInv, HistTypeOK, Idle, NoRecord
<1> QED
  BY <1>1, <1>2, <1>3, <1>4, <1>5, <1>6, <1>7, <1>8, <1>9, <1>10 DEF HistInv

LEMMA FinishRunStep ==
    ASSUME HistInv, FinishRun
    PROVE  HistInv'
<1> HistTypeOK
  BY DEF HistInv
<1>0. /\ Run.pc = "after"
      /\ \/ /\ Run.todo = "collect" /\ Run.ret = "none" /\ leased' = leased
            /\ Now("run", "lock", Run.todo, Run.ret) /\ Copies("run", Run.copy)
         \/ /\ Now("run", "over", "collect", "none") /\ Copies("run", NoRecord)
            /\ (leased' = leased /\ Run.todo # "finalize") \/ Release
      /\ UNCHANGED <<rec, torn, lockBy, synced, redo, at, code, nodeUp, online, trouble>>
  BY FinishMoves
<1>1. HistTypeOK'
  BY <1>0, HistAssumption DEF Now, Copies, HistTypeOK, Release, Procs, ProcType
<1>t. proc["run"].copy \in RecordType /\ rec \in RecordType
  BY DEF HistTypeOK, ProcType, Procs
<1> Run.copy \in RecordType
  BY <1>t DEF Run
<1>2. JobInv'
  BY <1>0 DEF HistInv, Run, Now, Copies, JobInv, Release, Idle, NoRecord
<1>3. LeaseInv'
  BY <1>0 DEF HistInv, Run, Now, LeaseInv, JobInv, UpfrontInv, Upfront, ProcInv, Release, Idle,
     NoRecord
<1>4. ProcInv'
  BY <1>0 DEF HistInv, Run, Now, Holds, ProcInv, Release, Idle, NoRecord
<1>5. UpfrontInv'
  BY <1>0 DEF HistInv, Run, Now, Copies, Upfront, UpfrontInv, Release, Idle, NoRecord
<1>6. RecInv'
  <2>1. CASE Now("run", "lock", Run.todo, Run.ret)
    BY <1>0, <1>1, <1>t, CopyFields, <2>1 DEF HistInv, Run, Now, Holds, Seen, RecInv, Release, Idle,
       NoRecord, Pending
  <2>2. CASE Now("run", "over", "collect", "none")
    BY <1>0, <1>1, <1>t, CopyFields, <2>2 DEF HistInv, Run, Now, Holds, Seen, RecInv, Release, Idle,
       NoRecord, Pending
  <2> QED
    BY <1>0, <2>1, <2>2
<1>7. TrueOf(rec)'
  BY <1>0 DEF HistInv, TrueOf, Release, Idle, NoRecord
<1>8. \A q \in Procs : Holds(q)' => CopyInv(q)'
  BY <1>0 DEF HistInv, Run, Now, Copies, Holds, CopyInv, ProcInv, JobInv, RecInv, TrueOf, Seen,
     Release, Idle, NoRecord
<1>9. GoneInv'
  BY <1>0 DEF HistInv, Run, Now, GoneInv, Release, Idle, NoRecord
<1>10. SyncInv'
  BY <1>0 DEF HistInv, Run, Now, Copies, SyncInv, Release, Idle, NoRecord
<1> QED
  BY <1>1, <1>2, <1>3, <1>4, <1>5, <1>6, <1>7, <1>8, <1>9, <1>10 DEF HistInv

LEMMA ReadAgainStep ==
    ASSUME HistInv, NEW p \in Procs, ReadAgain(p)
    PROVE  HistInv'
<1> HistTypeOK
  BY DEF HistInv
<1> proc[p].todo \in {"collect", "fail", "since", "clear"}
  BY DEF HistInv, HistTypeOK, ProcType, RecordType, JobInv, ProcInv, CopyInv, Procs, Holds, Reading, Writing, Run, Others, ReadAgain
<1>0. /\ proc[p].pc = "read"
      /\ \/ /\ \E x \in {"bad", "done"} : Now(p, "after", proc[p].todo, x)
            /\ Copies(p, proc[p].copy)
            /\ lockBy' = IF lockBy = p THEN "none" ELSE lockBy
         \/ /\ proc[p].todo = "collect" /\ ~rec.collected /\ rec.status # "none"
            /\ Now(p, "status", proc[p].todo, proc[p].ret) /\ Copies(p, rec) /\ lockBy' = lockBy
         \/ /\ proc[p].todo = "fail" /\ Pending(rec)
            /\ Now(p, "write", proc[p].todo, proc[p].ret)
            /\ Copies(p, [rec EXCEPT !.status = "failed", !.gone = TRUE]) /\ lockBy' = lockBy
         \/ /\ proc[p].todo \in {"since", "clear"} /\ rec.status # "none"
            /\ Now(p, "write", proc[p].todo, proc[p].ret)
            /\ \E x \in {"set", "none"} : Copies(p, [rec EXCEPT !.since = x])
            /\ lockBy' = lockBy
      /\ UNCHANGED <<rec, torn, synced, redo, at, code, leased, nodeUp, online, trouble>>
  BY ReadMoves
<1>1. HistTypeOK'
  BY <1>0, HistAssumption DEF Now, Copies, HistTypeOK, Release, Procs, ProcType
<1>t. proc[p].copy \in RecordType /\ rec \in RecordType
  BY DEF HistTypeOK, ProcType, Procs
<1>2. JobInv'
  BY SMTT(30), <1>0 DEF Run, Now, Copies, Upfront, Holds, Seen, HistTypeOK, ProcType, RecordType, JobInv,
     LeaseInv, ProcInv, UpfrontInv, RecInv, TrueOf, CopyInv, GoneInv, SyncInv, HistInv, Idle,
     Pending
<1>3. LeaseInv'
  BY <1>0 DEF HistInv, Run, Now, LeaseInv, Idle, Pending
<1>4. ProcInv'
  BY <1>0 DEF HistInv, Run, Now, Holds, ProcInv, Idle, Pending
<1>5. UpfrontInv'
  BY <1>0 DEF HistInv, Run, Now, Copies, Upfront, UpfrontInv, JobInv, ProcInv, Holds, HistTypeOK,
     RecordType, Idle, Pending
<1>6. RecInv'
  BY <1>0 DEF HistInv, Run, Now, Holds, Seen, RecInv, Idle, Pending
<1>7. TrueOf(rec)'
  BY <1>0 DEF HistInv, TrueOf, Idle, Pending
<1>8. \A q \in Procs : Holds(q)' => CopyInv(q)'
  <2>1. Holds(p) /\ \A q \in Procs \ {p} : ~Holds(q) /\ ~Holds(q)'
    BY <1>0 DEF HistInv, ProcInv, Holds, Reading, Writing, Now, Copies, Run, Procs
  <2>2. Holds(p)' => CopyInv(p)'
    <3>1. CASE \E x \in {"bad", "done"} : Now(p, "after", proc[p].todo, x)
      BY <3>1 DEF Now, Holds, Reading, Writing
    <3>2. CASE proc[p].todo = "collect" /\ Now(p, "status", proc[p].todo, proc[p].ret)
      BY SMTT(30), <1>0, <2>1, <3>2 DEF Procs, Final, Others, Early, Reading, Writing, Upfront, Holds, Seen, Run, Now, Copies, HistTypeOK, ProcType, RecordType, JobInv, LeaseInv, ProcInv, UpfrontInv, RecInv, TrueOf, CopyInv, GoneInv, SyncInv, HistInv, Release, Idle, NoRecord, Pending
    <3>3. CASE proc[p].todo = "fail" /\ Now(p, "write", proc[p].todo, proc[p].ret)
      <4>1. p = "watch"
        BY <3>3 DEF HistInv, ProcInv, Procs, Run
      <4>2. rec.status = "running" /\ ~rec.collected /\ rec.hasJob /\ (at = "forgotten" \/ rec.since = "old")
        <5>1. Pending(rec) /\ proc["watch"].pc = "read" /\ proc["watch"].todo = "fail"
          BY <1>0, <3>3, <4>1 DEF Now
        <5> QED
          BY <5>1 DEF HistInv, GoneInv, Pending
      <4>3. /\ proc'[p].copy.status = "failed" /\ proc'[p].copy.gone /\ ~proc'[p].copy.collected
            /\ proc'[p].copy.hasJob /\ proc'[p].copy.since = rec.since
        <5>1. Copies(p, [rec EXCEPT !.status = "failed", !.gone = TRUE])
          BY <1>0, <3>3 DEF Now
        <5> QED
          BY <1>t, <4>2, <5>1 DEF Copies, RecordType
      <4> QED
        BY <1>0, <3>3, <4>2, <4>3 DEF CopyInv, Now, Reading
    <3>4. CASE proc[p].todo \in {"since", "clear"} /\ Now(p, "write", proc[p].todo, proc[p].ret)
      <4>1. rec.hasJob
        BY <1>0, <2>1, <3>4 DEF Procs, Final, Others, Early, Reading, Writing, Upfront, Holds, Seen, Run, Now, Copies, HistTypeOK, ProcType, RecordType, JobInv, LeaseInv, ProcInv, UpfrontInv, RecInv, TrueOf, CopyInv, GoneInv, SyncInv, HistInv, Release, Idle, NoRecord, Pending
      <4>2. /\ proc'[p].copy.status = rec.status /\ proc'[p].copy.collected = rec.collected
            /\ proc'[p].copy.hasJob /\ proc'[p].copy.gone = rec.gone
        <5>1. PICK x \in {"set", "none"} : Copies(p, [rec EXCEPT !.since = x])
          BY <1>0, <3>4 DEF Now
        <5> QED
          BY <1>t, <4>1, <5>1 DEF Copies, RecordType
      <4> QED
        BY <1>0, <3>4, <4>2 DEF CopyInv, Now, Reading
    <3> QED
      BY <1>0, <3>1, <3>2, <3>3, <3>4
  <2> QED
    BY <2>1, <2>2
<1>9. GoneInv'
  BY <1>0 DEF HistInv, Run, Now, GoneInv, Idle, Pending
<1>10. SyncInv'
  BY <1>0 DEF HistInv, Run, Now, Copies, SyncInv, Holds, Upfront, UpfrontInv, ProcInv, CopyInv,
     RecInv, HistTypeOK, Idle, Pending
<1> QED
  BY <1>1, <1>2, <1>3, <1>4, <1>5, <1>6, <1>7, <1>8, <1>9, <1>10 DEF HistInv

LEMMA AskStatusStep ==
    ASSUME HistInv, NEW p \in Procs, AskStatus(p)
    PROVE  HistInv'
<1> HistTypeOK
  BY DEF HistInv
<1> at \in {"running", "ended", "forgotten"}
  BY DEF HistInv, HistTypeOK, ProcType, RecordType, JobInv, ProcInv, CopyInv, Procs, Holds, Reading, Writing, Run, Others, AskStatus
<1>0. /\ proc[p].pc = "status" /\ Copies(p, proc[p].copy)
      /\ \/ /\ \E x \in Rets : Now(p, "after", proc[p].todo, x) /\ (x = "404" => at = "forgotten")
            /\ lockBy' = IF lockBy = p THEN "none" ELSE lockBy
         \/ at = "ended" /\ lockBy' = lockBy /\ Now(p, "fetch", proc[p].todo, proc[p].ret)
      /\ UNCHANGED <<rec, torn, synced, redo, at, code, leased, nodeUp, online, trouble>>
  BY AskMoves
<1>1. HistTypeOK'
  BY <1>0, HistAssumption DEF Now, Copies, HistTypeOK, Release, Procs, ProcType
<1>t. proc[p].copy \in RecordType /\ rec \in RecordType
  BY DEF HistTypeOK, ProcType, Procs
<1>2. JobInv'
  BY <1>0 DEF HistInv, Run, Now, Copies, JobInv, Idle, NoRecord
<1>3. LeaseInv'
  BY <1>0 DEF HistInv, Run, Now, LeaseInv, Idle, NoRecord
<1>4. ProcInv'
  BY <1>0 DEF HistInv, Run, Now, Holds, ProcInv, Idle, NoRecord
<1>5. UpfrontInv'
  BY <1>0 DEF HistInv, Run, Now, Copies, Upfront, UpfrontInv, Idle, NoRecord
<1>6. RecInv'
  BY <1>0 DEF HistInv, Run, Now, Holds, Seen, RecInv, Idle, NoRecord
<1>7. TrueOf(rec)'
  BY <1>0 DEF HistInv, TrueOf, Idle, NoRecord
<1>8. \A q \in Procs : Holds(q)' => CopyInv(q)'
  BY <1>0 DEF HistInv, Run, Now, Copies, Holds, CopyInv, ProcInv, JobInv, RecInv, TrueOf, Seen, Idle,
     NoRecord
<1>9. GoneInv'
  BY <1>0 DEF HistInv, Run, Now, GoneInv, Idle, NoRecord
<1>10. SyncInv'
  BY <1>0 DEF HistInv, Run, Now, Copies, SyncInv, Idle, NoRecord
<1> QED
  BY <1>1, <1>2, <1>3, <1>4, <1>5, <1>6, <1>7, <1>8, <1>9, <1>10 DEF HistInv

LEMMA FetchOutputStep ==
    ASSUME HistInv, NEW p \in Procs, FetchOutput(p)
    PROVE  HistInv'
<1> HistTypeOK
  BY DEF HistInv
<1> at \in {"ended", "forgotten"}
  BY DEF HistInv, HistTypeOK, ProcType, RecordType, JobInv, ProcInv, CopyInv, Procs, Holds, Reading, Writing, Run, Others, FetchOutput
<1>0. /\ proc[p].pc = "fetch" /\ Copies(p, proc[p].copy)
      /\ \/ /\ \E x \in Rets : Now(p, "after", proc[p].todo, x) /\ (x = "404" => at = "forgotten")
            /\ lockBy' = IF lockBy = p THEN "none" ELSE lockBy
         \/ at = "ended" /\ lockBy' = lockBy /\ Now(p, "sync", proc[p].todo, proc[p].ret)
      /\ UNCHANGED <<rec, torn, synced, redo, at, code, leased, nodeUp, online, trouble>>
  BY FetchMoves
<1>1. HistTypeOK'
  BY <1>0, HistAssumption DEF Now, Copies, HistTypeOK, Release, Procs, ProcType
<1>t. proc[p].copy \in RecordType /\ rec \in RecordType
  BY DEF HistTypeOK, ProcType, Procs
<1>2. JobInv'
  BY <1>0 DEF HistInv, Run, Now, Copies, JobInv, Idle, NoRecord
<1>3. LeaseInv'
  BY <1>0 DEF HistInv, Run, Now, LeaseInv, Idle, NoRecord
<1>4. ProcInv'
  BY <1>0 DEF HistInv, Run, Now, Holds, ProcInv, Idle, NoRecord
<1>5. UpfrontInv'
  BY <1>0 DEF HistInv, Run, Now, Copies, Upfront, UpfrontInv, Idle, NoRecord
<1>6. RecInv'
  BY <1>0 DEF HistInv, Run, Now, Holds, Seen, RecInv, Idle, NoRecord
<1>7. TrueOf(rec)'
  BY <1>0 DEF HistInv, TrueOf, Idle, NoRecord
<1>8. \A q \in Procs : Holds(q)' => CopyInv(q)'
  BY <1>0 DEF HistInv, Run, Now, Copies, Holds, CopyInv, ProcInv, JobInv, RecInv, TrueOf, Seen, Idle,
     NoRecord
<1>9. GoneInv'
  BY <1>0 DEF HistInv, Run, Now, GoneInv, Idle, NoRecord
<1>10. SyncInv'
  BY <1>0 DEF HistInv, Run, Now, Copies, SyncInv, Idle, NoRecord
<1> QED
  BY <1>1, <1>2, <1>3, <1>4, <1>5, <1>6, <1>7, <1>8, <1>9, <1>10 DEF HistInv

LEMMA SyncResultsStep ==
    ASSUME HistInv, NEW p \in Procs, SyncResults(p)
    PROVE  HistInv'
<1> HistTypeOK
  BY DEF HistInv
<1>0. /\ proc[p].pc = "sync" /\ Now(p, "write", proc[p].todo, proc[p].ret)
      /\ \E st \in Final :
           /\ Copies(p, [proc[p].copy EXCEPT !.status = st, !.collected = TRUE, !.gone = FALSE])
           /\ \/ code = "zero" /\ st = "succeeded" /\ synced' = synced + 1
              \/ code = "zero" /\ st = "failed" /\ synced' = synced
              \/ code # "zero" /\ synced' = synced
                 /\ st = IF code = "cancelled" THEN "cancelled" ELSE "failed"
      /\ UNCHANGED <<rec, torn, lockBy, redo, at, code, leased, nodeUp, online, trouble>>
  BY SyncMoves
<1>1. HistTypeOK'
  BY <1>0, HistAssumption DEF Now, Copies, HistTypeOK, Release, Procs, ProcType
<1>t. proc[p].copy \in RecordType /\ rec \in RecordType
  BY DEF HistTypeOK, ProcType, Procs
<1>2. JobInv'
  BY <1>0 DEF HistInv, Run, Now, Copies, JobInv, RecInv, UpfrontInv, CopyInv, ProcInv, Holds,
     Upfront, Idle, NoRecord
<1>3. LeaseInv'
  BY <1>0 DEF HistInv, Run, Now, LeaseInv, Idle, NoRecord
<1>4. ProcInv'
  BY <1>0 DEF HistInv, Run, Now, Holds, ProcInv, Idle, NoRecord
<1>5. UpfrontInv'
  <2>1. Holds(p)
    BY <1>0 DEF Holds, Reading
  <2>2. ~Upfront'
    <3>1. CASE p = "run"
      <4>1. proc'["run"].copy.collected = TRUE /\ proc'["run"].pc = "write"
        BY <1>0, <1>t, <3>1 DEF Copies, Now, RecordType
      <4> QED
        BY <4>1 DEF Upfront, Run, Early, Writing
    <3>2. CASE p # "run"
      <4>1. ~Upfront
        BY <1>0, <3>2 DEF HistInv, UpfrontInv, Others, Procs, Idle
      <4> QED
        BY <1>0, <3>2, <4>1 DEF Upfront, Run, Now, Procs
    <3> QED
      BY <3>1, <3>2
  <2> QED
    BY <2>2 DEF UpfrontInv
<1>6. RecInv'
  BY <1>0 DEF HistInv, Run, Now, Holds, Seen, RecInv, Idle, NoRecord
<1>7. TrueOf(rec)'
  BY <1>0 DEF HistInv, TrueOf, JobInv, UpfrontInv, Upfront, HistTypeOK, Idle, NoRecord
<1>8. \A q \in Procs : Holds(q)' => CopyInv(q)'
  <2>1. Holds(p) /\ \A q \in Procs \ {p} : ~Holds(q) /\ ~Holds(q)'
    BY <1>0 DEF HistInv, ProcInv, Holds, Reading, Writing, Now, Copies, Run, Procs
  <2>2. proc[p].todo = "collect" /\ ~rec.collected /\ proc[p].copy.hasJob /\ code # "none"
    BY <1>0, <2>1 DEF HistInv, ProcInv, CopyInv, Reading
  <2>3. PICK st \in Final :
          /\ Copies(p, [proc[p].copy EXCEPT !.status = st, !.collected = TRUE, !.gone = FALSE])
          /\ \/ code = "zero" /\ st = "succeeded" /\ synced' = synced + 1
             \/ code = "zero" /\ st = "failed" /\ synced' = synced
             \/ code # "zero" /\ synced' = synced
                /\ st = IF code = "cancelled" THEN "cancelled" ELSE "failed"
    BY <1>0
  <2>4. /\ proc'[p].copy.status = st /\ proc'[p].copy.collected = TRUE /\ proc'[p].copy.gone = FALSE
        /\ proc'[p].copy.hasJob = proc[p].copy.hasJob
    BY <1>t, <2>3, CopyFields DEF Copies
  <2>5. TrueOf(proc[p].copy)'
    BY <1>0, <2>2, <2>3, <2>4 DEF TrueOf, HistTypeOK, Final
  <2>6. CopyInv(p)'
    BY <1>0, <2>2, <2>4, <2>5 DEF CopyInv, Now, Reading, Writing, Final
  <2> QED
    BY <2>1, <2>6
<1>9. GoneInv'
  BY <1>0 DEF HistInv, Run, Now, GoneInv, Idle, NoRecord
<1>10. SyncInv'
  <2>1. Holds(p) /\ \A q \in Procs \ {p} : ~Holds(q) /\ ~Holds(q)'
    BY <1>0 DEF HistInv, ProcInv, Holds, Reading, Writing, Now, Copies, Run, Procs
  <2>2. proc'[p].copy.collected = TRUE /\ proc'[p].pc = "write"
    BY <1>0, <1>t, CopyFields DEF Copies, Now
  <2>3. synced = 0 \/ redo
    BY <1>0 DEF HistInv, SyncInv, Reading
  <2>4. \A q \in Procs : proc'[q].pc \notin Reading
    BY <2>1, <2>2 DEF Holds, Reading, Procs
  <2>5. synced' > 1 => redo'
    BY <1>0, <2>3 DEF HistTypeOK
  <2> QED
    BY <2>2, <2>4, <2>5 DEF SyncInv, Writing
<1> QED
  BY <1>1, <1>2, <1>3, <1>4, <1>5, <1>6, <1>7, <1>8, <1>9, <1>10 DEF HistInv

LEMMA EmptyStep ==
    ASSUME HistInv, NEW p \in Procs, Empty(p)
    PROVE  HistInv'
<1> HistTypeOK
  BY DEF HistInv
<1>0. /\ proc[p].pc = "write" /\ Copies(p, proc[p].copy)
      /\ \/ /\ rec.status # "none" /\ Now(p, "fill", proc[p].todo, proc[p].ret)
            /\ UNCHANGED <<lockBy, trouble, redo>>
         \/ /\ Now(p, "after", proc[p].todo, "bad") /\ torn' = torn
            /\ lockBy' = IF lockBy = p THEN "none" ELSE lockBy
            /\ redo' = (redo \/ proc[p].copy.collected)
            /\ trouble' = trouble \/ (trouble < MaxTrouble /\ trouble' = trouble + 1)
      /\ torn' \in BOOLEAN
      /\ UNCHANGED <<rec, at, code, leased, nodeUp, online, synced>>
  BY EmptyMoves
<1>1. HistTypeOK'
  <2>1. trouble' \in 0..MaxTrouble
    BY <1>0, HistAssumption DEF HistTypeOK
  <2>2. redo' \in BOOLEAN
    BY <1>0 DEF HistTypeOK
  <2>3. lockBy' \in Procs \cup {"none"}
    BY <1>0 DEF HistTypeOK
  <2> QED
    BY <1>0, <2>1, <2>2, <2>3 DEF HistTypeOK, Now
<1>t. proc[p].copy \in RecordType /\ rec \in RecordType
  BY DEF HistTypeOK, ProcType, Procs
<1>2. JobInv'
  BY <1>0 DEF Run, Now, Copies, Upfront, Holds, Seen, HistTypeOK, ProcType, RecordType, JobInv,
     LeaseInv, ProcInv, UpfrontInv, RecInv, TrueOf, CopyInv, GoneInv, SyncInv, HistInv, Idle,
     NoRecord
<1>3. LeaseInv'
  BY <1>0 DEF Run, Now, Copies, Upfront, Holds, Seen, HistTypeOK, ProcType, RecordType, JobInv,
     LeaseInv, ProcInv, UpfrontInv, RecInv, TrueOf, CopyInv, GoneInv, SyncInv, HistInv, Idle,
     NoRecord
<1>4. ProcInv'
  BY <1>0 DEF HistInv, Run, Now, Copies, Holds, Upfront, ProcInv, UpfrontInv, CopyInv, JobInv, Idle,
     NoRecord
<1>5. UpfrontInv'
  <2>1. CASE Now(p, "fill", proc[p].todo, proc[p].ret)
    BY <1>0, <1>1, <1>t, CopyFields, <2>1 DEF HistInv, Run, Now, Copies, Upfront, UpfrontInv,
       Release, Idle, NoRecord, Pending
  <2>2. CASE Now(p, "after", proc[p].todo, "bad")
    BY <1>0, <1>1, <1>t, CopyFields, <2>2 DEF HistInv, Run, Now, Copies, Upfront, UpfrontInv,
       Release, Idle, NoRecord, Pending
  <2> QED
    BY <1>0, <2>1, <2>2
<1>6. RecInv'
  BY <1>0 DEF HistInv, Run, Now, Copies, Holds, Seen, RecInv, Upfront, UpfrontInv, ProcInv, CopyInv,
     Idle, NoRecord
<1>7. TrueOf(rec)'
  BY <1>0 DEF HistInv, TrueOf, Idle, NoRecord
<1>8. \A q \in Procs : Holds(q)' => CopyInv(q)'
  BY <1>0 DEF HistInv, Run, Now, Copies, Holds, CopyInv, ProcInv, JobInv, RecInv, TrueOf, Seen, Idle,
     NoRecord
<1>9. GoneInv'
  BY <1>0 DEF HistInv, Run, Now, GoneInv, Idle, NoRecord
<1>10. SyncInv'
  BY <1>0 DEF Run, Now, Copies, Upfront, Holds, Seen, HistTypeOK, ProcType, RecordType, JobInv,
     LeaseInv, ProcInv, UpfrontInv, RecInv, TrueOf, CopyInv, GoneInv, SyncInv, HistInv, Idle,
     NoRecord
<1> QED
  BY <1>1, <1>2, <1>3, <1>4, <1>5, <1>6, <1>7, <1>8, <1>9, <1>10 DEF HistInv

LEMMA FillStep ==
    ASSUME HistInv, NEW p \in Procs, Fill(p)
    PROVE  HistInv'
<1> HistTypeOK
  BY DEF HistInv
<1>0. /\ proc[p].pc = "fill" /\ Copies(p, proc[p].copy)
      /\ rec' = (IF rec.status = "none" THEN rec ELSE proc[p].copy) /\ torn' = FALSE
      /\ \/ /\ p = "run" /\ proc[p].todo = "collect" /\ ~proc[p].copy.collected
            /\ Now(p, "after", proc[p].todo, proc[p].ret) /\ lockBy' = lockBy
         \/ /\ ~(p = "run" /\ proc[p].todo = "collect" /\ ~proc[p].copy.collected)
            /\ Now(p, "after", proc[p].todo, "done")
            /\ lockBy' = IF lockBy = p THEN "none" ELSE lockBy
      /\ UNCHANGED <<synced, redo, at, code, leased, nodeUp, online, trouble>>
  BY FillMoves
<1>1. HistTypeOK'
  <2>1. rec' \in RecordType
    BY <1>0 DEF HistTypeOK, ProcType
  <2>2. lockBy' \in Procs \cup {"none"}
    BY <1>0 DEF HistTypeOK
  <2> QED
    BY <1>0, <2>1, <2>2 DEF HistTypeOK, Now
<1>t. proc[p].copy \in RecordType /\ rec \in RecordType
  BY DEF HistTypeOK, ProcType, Procs
<1>2. JobInv'
  BY <1>0 DEF HistInv, Run, Now, Copies, JobInv, Idle, NoRecord
<1>3. LeaseInv'
  BY <1>0 DEF HistInv, Run, Now, LeaseInv, Idle, NoRecord
<1>4. ProcInv'
  BY <1>0 DEF HistInv, Run, Now, Holds, ProcInv, Idle, NoRecord
<1>5. UpfrontInv'
  BY <1>0 DEF HistInv, Run, Now, Copies, Upfront, UpfrontInv, Idle, NoRecord
<1>6. RecInv'
  <2>1. CASE rec.status = "none"
    BY <1>0, <1>t, <2>1 DEF RecInv, HistInv, Final
  <2>2. CASE rec.status # "none" /\ p = "run" /\ Upfront
    <3>1. /\ ~proc[p].copy.collected /\ ~proc[p].copy.gone /\ \A q \in Others : proc'[q].pc = "idle"
          /\ \/ proc[p].todo = "finalize" /\ ~proc[p].copy.hasJob /\ proc[p].copy.status # "none"
             \/ proc[p].todo # "finalize" /\ proc[p].copy.hasJob /\ proc[p].copy.status = "running"
      BY <1>0, <2>2 DEF Procs, Final, Others, Early, Reading, Writing, Upfront, Holds, Seen, Run, Now, Copies, HistTypeOK, ProcType, RecordType, JobInv, LeaseInv, ProcInv, UpfrontInv, RecInv, TrueOf, CopyInv, GoneInv, SyncInv, HistInv, Release, Idle, NoRecord, Pending
    <3>2. rec' = proc[p].copy /\ Run'.pc = "after" /\ Run'.todo = proc[p].todo
      BY <1>0, <2>2 DEF Now, Run
    <3> QED
      BY <3>1, <3>2 DEF RecInv, Seen, Holds, Final, Reading, Writing, Run
  <2>3. CASE rec.status # "none" /\ Holds(p)
    <3>1. rec' = proc[p].copy /\ rec.hasJob
      BY <1>0, <2>3 DEF HistInv, RecInv, Seen, Others, Procs, Holds, Reading
    <3>2. /\ rec'.hasJob /\ rec'.status # "none"
          /\ rec'.status \in Final => rec'.collected \/ rec'.gone
          /\ rec'.collected => rec'.status \in Final /\ ~rec'.gone
      BY <1>0, <2>3, <3>1 DEF HistInv, CopyInv, RecInv, Reading, Writing, Final
    <3> QED
      BY <3>1, <3>2 DEF RecInv
  <2> QED
    BY <1>0, <2>1, <2>2, <2>3 DEF Upfront, Holds, Writing, Run
<1>7. TrueOf(rec)'
  BY <1>0 DEF Run, Now, Copies, Upfront, Holds, Seen, HistTypeOK, ProcType, RecordType, JobInv,
     LeaseInv, ProcInv, UpfrontInv, RecInv, TrueOf, CopyInv, GoneInv, SyncInv, HistInv, Idle,
     NoRecord
<1>8. \A q \in Procs : Holds(q)' => CopyInv(q)'
  BY <1>0 DEF Run, Now, Copies, Upfront, Holds, Seen, HistTypeOK, ProcType, RecordType, JobInv,
     LeaseInv, ProcInv, UpfrontInv, RecInv, TrueOf, CopyInv, GoneInv, SyncInv, HistInv, Idle,
     NoRecord
<1>9. GoneInv'
  <2>1. CASE rec.status = "none"
    BY <1>0, <2>1 DEF GoneInv, HistInv, Now, Procs
  <2>2. CASE rec.status # "none" /\ p = "run" /\ Upfront
    BY <1>0, <2>2 DEF HistInv, Run, Now, GoneInv, ProcInv, Holds, UpfrontInv, Upfront, CopyInv,
       RecInv, Release, Idle, NoRecord, Pending
  <2>3. CASE rec.status # "none" /\ Holds(p)
    BY <1>0, <2>3 DEF HistInv, Run, Now, GoneInv, ProcInv, Holds, UpfrontInv, Upfront, CopyInv,
       RecInv, Release, Idle, NoRecord, Pending
  <2> QED
    BY <1>0, <2>1, <2>2, <2>3 DEF Upfront, Holds, Writing, Run
<1>10. SyncInv'
  BY <1>0 DEF HistInv, Run, Now, Copies, SyncInv, Holds, Upfront, UpfrontInv, ProcInv, CopyInv,
     RecInv, HistTypeOK, Idle, NoRecord
<1> QED
  BY <1>1, <1>2, <1>3, <1>4, <1>5, <1>6, <1>7, <1>8, <1>9, <1>10 DEF HistInv

LEMMA WatchAfterStep ==
    ASSUME HistInv, WatchAfter
    PROVE  HistInv'
<1> HistTypeOK
  BY DEF HistInv
<1>0. /\ proc["watch"].pc = "after"
      /\ \/ /\ \E t \in {"fail", "since", "clear"} :
                 /\ Now("watch", "lock", t, proc["watch"].ret)
                 /\ t = "fail" => proc["watch"].ret = "404" \/ rec.since = "old"
            /\ Copies("watch", proc["watch"].copy)
            /\ proc["watch"].todo = "collect"
         \/ proc'["watch"] = Idle /\ Now("watch", "idle", "collect", "none") /\ Copies("watch", NoRecord)
      /\ UNCHANGED <<rec, torn, lockBy, synced, redo, at, code, leased, nodeUp, online, trouble>>
  BY WatchMoves
<1>1. HistTypeOK'
  BY <1>0, HistAssumption DEF Now, Copies, HistTypeOK, Release, Procs, ProcType
<1>t. proc["watch"].copy \in RecordType /\ rec \in RecordType
  BY DEF HistTypeOK, ProcType, Procs
<1>2. JobInv'
  BY <1>0 DEF HistInv, Run, Now, Copies, JobInv, Idle, NoRecord
<1>3. LeaseInv'
  BY <1>0 DEF HistInv, Run, Now, LeaseInv, Idle, NoRecord
<1>4. ProcInv'
  BY <1>0 DEF HistInv, Run, Now, Holds, ProcInv, Idle, NoRecord
<1>5. UpfrontInv'
  BY <1>0 DEF HistInv, Run, Now, Copies, Upfront, UpfrontInv, Idle, NoRecord
<1>6. RecInv'
  BY <1>0 DEF HistInv, Run, Now, Holds, Seen, RecInv, Idle, NoRecord
<1>7. TrueOf(rec)'
  BY <1>0 DEF HistInv, TrueOf, Idle, NoRecord
<1>8. \A q \in Procs : Holds(q)' => CopyInv(q)'
  BY <1>0 DEF HistInv, Run, Now, Copies, Holds, CopyInv, ProcInv, JobInv, RecInv, TrueOf, Seen, Idle,
     NoRecord
<1>9. GoneInv'
  BY <1>0 DEF HistInv, Run, Now, GoneInv, ProcInv, Holds, UpfrontInv, Upfront, CopyInv, RecInv, Idle,
     NoRecord
<1>10. SyncInv'
  BY <1>0 DEF HistInv, Run, Now, Copies, SyncInv, Idle, NoRecord
<1> QED
  BY <1>1, <1>2, <1>3, <1>4, <1>5, <1>6, <1>7, <1>8, <1>9, <1>10 DEF HistInv

LEMMA RecordRunStep ==
    ASSUME HistInv, RecordRun
    PROVE  HistInv'
<1> HistTypeOK
  BY DEF HistInv
<1>0. /\ Run.pc = "record" /\ Now("run", "upload", Run.todo, Run.ret) /\ Copies("run", rec')
      /\ rec' \in RecordType /\ rec'.status = "running"
      /\ ~rec'.hasJob /\ ~rec'.collected /\ ~rec'.gone
      /\ UNCHANGED <<torn, lockBy, synced, redo, at, code, leased, nodeUp, online, trouble>>
  BY RecordMoves
<1>1. HistTypeOK'
  BY <1>0, HistAssumption DEF Now, Copies, HistTypeOK, Release, Procs, ProcType
<1>t. proc["run"].copy \in RecordType /\ rec \in RecordType
  BY DEF HistTypeOK, ProcType, Procs
<1> Run.copy \in RecordType
  BY <1>t DEF Run
<1>2. JobInv'
  BY <1>0 DEF HistInv, Run, Now, Copies, JobInv, Idle, NoRecord
<1>3. LeaseInv'
  BY <1>0 DEF HistInv, Run, Now, LeaseInv, Idle, NoRecord
<1>4. ProcInv'
  BY <1>0 DEF HistInv, Run, Now, Holds, ProcInv, Idle, NoRecord
<1>5. UpfrontInv'
  BY <1>0 DEF HistInv, Run, Now, Copies, Upfront, UpfrontInv, Idle, NoRecord
<1>6. RecInv'
  BY <1>0 DEF HistInv, Run, Now, Copies, Holds, Seen, RecInv, Upfront, UpfrontInv, ProcInv, CopyInv,
     Idle, NoRecord
<1>7. TrueOf(rec)'
  BY <1>0 DEF HistInv, TrueOf, Idle, NoRecord
<1>8. \A q \in Procs : Holds(q)' => CopyInv(q)'
  BY <1>0 DEF Run, Now, Copies, Upfront, Holds, Seen, HistTypeOK, ProcType, RecordType, JobInv,
     LeaseInv, ProcInv, UpfrontInv, RecInv, TrueOf, CopyInv, GoneInv, SyncInv, HistInv, Idle,
     NoRecord
<1>9. GoneInv'
  BY <1>0 DEF HistInv, Run, Now, GoneInv, ProcInv, Holds, UpfrontInv, Upfront, CopyInv, RecInv, Idle,
     NoRecord
<1>10. SyncInv'
  BY <1>0 DEF HistInv, Run, Now, Copies, SyncInv, Holds, Upfront, UpfrontInv, ProcInv, CopyInv,
     RecInv, HistTypeOK, Idle, NoRecord
<1> QED
  BY <1>1, <1>2, <1>3, <1>4, <1>5, <1>6, <1>7, <1>8, <1>9, <1>10 DEF HistInv

LEMMA KilledStep ==
    ASSUME HistInv, NEW p \in Procs, Killed(p)
    PROVE  HistInv'
<1> HistTypeOK
  BY DEF HistInv
<1>0. /\ proc[p].pc \notin {"idle", "over"}
      /\ Now(p, IF p = "run" THEN "over" ELSE "idle", "collect", "none") /\ Copies(p, NoRecord)
      /\ p # "run" => proc'[p] = Idle
      /\ lockBy' = IF lockBy = p THEN "none" ELSE lockBy
      /\ redo' = (redo \/ (proc[p].copy.collected /\ proc[p].pc \in {"write", "fill"}))
      /\ trouble < MaxTrouble /\ trouble' = trouble + 1
      /\ UNCHANGED <<rec, torn, at, code, leased, nodeUp, online, synced>>
  BY KilledMoves
<1>1. HistTypeOK'
  BY <1>0, HistAssumption DEF Now, Copies, HistTypeOK, Release, Procs, ProcType
<1>t. proc[p].copy \in RecordType /\ rec \in RecordType
  BY DEF HistTypeOK, ProcType, Procs
<1>2. JobInv'
  BY <1>0 DEF Run, Now, Copies, Upfront, Holds, Seen, HistTypeOK, ProcType, RecordType, JobInv,
     LeaseInv, ProcInv, UpfrontInv, RecInv, TrueOf, CopyInv, GoneInv, SyncInv, HistInv, Idle,
     NoRecord
<1>3. LeaseInv'
  BY <1>0 DEF Run, Now, Copies, Upfront, Holds, Seen, HistTypeOK, ProcType, RecordType, JobInv,
     LeaseInv, ProcInv, UpfrontInv, RecInv, TrueOf, CopyInv, GoneInv, SyncInv, HistInv, Idle,
     NoRecord
<1>4. ProcInv'
  BY <1>0 DEF HistInv, Run, Now, Holds, ProcInv, Idle, NoRecord
<1>5. UpfrontInv'
  BY <1>0 DEF HistInv, Run, Now, Copies, Upfront, UpfrontInv, Idle, NoRecord
<1>6. RecInv'
  BY <1>0 DEF HistInv, Run, Now, Holds, Seen, RecInv, Idle, NoRecord
<1>7. TrueOf(rec)'
  BY <1>0 DEF HistInv, TrueOf, Idle, NoRecord
<1>8. \A q \in Procs : Holds(q)' => CopyInv(q)'
  BY <1>0 DEF HistInv, Run, Now, Copies, Holds, CopyInv, ProcInv, JobInv, RecInv, TrueOf, Seen, Idle,
     NoRecord
<1>9. GoneInv'
  BY <1>0 DEF HistInv, Run, Now, GoneInv, Idle, NoRecord
<1>10. SyncInv'
  BY <1>0 DEF HistInv, Run, Now, Copies, SyncInv, Idle, NoRecord
<1> QED
  BY <1>1, <1>2, <1>3, <1>4, <1>5, <1>6, <1>7, <1>8, <1>9, <1>10 DEF HistInv

LEMMA WatchLookStep ==
    ASSUME HistInv, WatchLook
    PROVE  HistInv'
<1> HistTypeOK
  BY DEF HistInv
<1>0. /\ proc["watch"].pc = "idle" /\ Pending(rec)
      /\ Now("watch", "lock", "collect", "none") /\ Copies("watch", rec)
      /\ UNCHANGED <<rec, torn, lockBy, synced, redo, at, code, leased, nodeUp, online, trouble>>
  BY WatchLookMoves
<1>1. HistTypeOK'
  BY <1>0, HistAssumption DEF Now, Copies, HistTypeOK, Release, Procs, ProcType
<1>t. proc["watch"].copy \in RecordType /\ rec \in RecordType
  BY DEF HistTypeOK, ProcType, Procs
<1>2. JobInv'
  BY <1>0 DEF HistInv, Run, Now, Copies, JobInv, Idle, NoRecord, Pending
<1>3. LeaseInv'
  BY <1>0 DEF HistInv, Run, Now, LeaseInv, Idle, NoRecord, Pending
<1>4. ProcInv'
  BY <1>0 DEF HistInv, Run, Now, Holds, ProcInv, Idle, NoRecord, Pending
<1>5. UpfrontInv'
  BY <1>0 DEF HistInv, Run, Now, Copies, Upfront, UpfrontInv, Idle, NoRecord, Pending
<1>6. RecInv'
  BY <1>0 DEF HistInv, Run, Now, Holds, Seen, RecInv, Idle, NoRecord, Pending
<1>7. TrueOf(rec)'
  BY <1>0 DEF HistInv, TrueOf, Idle, NoRecord, Pending
<1>8. \A q \in Procs : Holds(q)' => CopyInv(q)'
  BY <1>0 DEF HistInv, Run, Now, Copies, Holds, CopyInv, ProcInv, JobInv, RecInv, TrueOf, Seen, Idle,
     NoRecord, Pending
<1>9. GoneInv'
  BY <1>0 DEF HistInv, Run, Now, GoneInv, Idle, NoRecord, Pending
<1>10. SyncInv'
  BY <1>0 DEF HistInv, Run, Now, Copies, SyncInv, Idle, NoRecord, Pending
<1> QED
  BY <1>1, <1>2, <1>3, <1>4, <1>5, <1>6, <1>7, <1>8, <1>9, <1>10 DEF HistInv

LEMMA AttachLookStep ==
    ASSUME HistInv, AttachLook
    PROVE  HistInv'
<1> HistTypeOK
  BY DEF HistInv
<1>0. /\ proc["attach"].pc = "idle" /\ rec.hasJob
      /\ Now("attach", "stream", "collect", "none") /\ Copies("attach", rec)
      /\ UNCHANGED <<rec, torn, lockBy, synced, redo, at, code, leased, nodeUp, online, trouble>>
  BY AttachLookMoves
<1>1. HistTypeOK'
  BY <1>0, HistAssumption DEF Now, Copies, HistTypeOK, Release, Procs, ProcType
<1>t. proc["attach"].copy \in RecordType /\ rec \in RecordType
  BY DEF HistTypeOK, ProcType, Procs
<1>2. JobInv'
  BY <1>0 DEF HistInv, Run, Now, Copies, JobInv, Idle, NoRecord
<1>3. LeaseInv'
  BY <1>0 DEF HistInv, Run, Now, LeaseInv, Idle, NoRecord
<1>4. ProcInv'
  BY <1>0 DEF HistInv, Run, Now, Holds, ProcInv, Idle, NoRecord
<1>5. UpfrontInv'
  BY <1>0 DEF HistInv, Run, Now, Copies, Upfront, UpfrontInv, Idle, NoRecord
<1>6. RecInv'
  BY <1>0 DEF HistInv, Run, Now, Holds, Seen, RecInv, Idle, NoRecord
<1>7. TrueOf(rec)'
  BY <1>0 DEF HistInv, TrueOf, Idle, NoRecord
<1>8. \A q \in Procs : Holds(q)' => CopyInv(q)'
  BY <1>0 DEF HistInv, Run, Now, Copies, Holds, CopyInv, ProcInv, JobInv, RecInv, TrueOf, Seen, Idle,
     NoRecord
<1>9. GoneInv'
  BY <1>0 DEF HistInv, Run, Now, GoneInv, Idle, NoRecord
<1>10. SyncInv'
  BY <1>0 DEF HistInv, Run, Now, Copies, SyncInv, Idle, NoRecord
<1> QED
  BY <1>1, <1>2, <1>3, <1>4, <1>5, <1>6, <1>7, <1>8, <1>9, <1>10 DEF HistInv

LEMMA AttachEndStep ==
    ASSUME HistInv, AttachEnd
    PROVE  HistInv'
<1> HistTypeOK
  BY DEF HistInv
<1>0. /\ proc["attach"].pc = "stream"
      /\ Now("attach", "lock", proc["attach"].todo, proc["attach"].ret)
      /\ Copies("attach", proc["attach"].copy)
      /\ \/ UNCHANGED <<at, code, leased>>
         \/ at = "running" /\ at' = "ended" /\ code' = "cancelled" /\ leased' = "free"
      /\ UNCHANGED <<rec, torn, lockBy, synced, redo, nodeUp, online, trouble>>
  BY AttachEndMoves
<1>1. HistTypeOK'
  BY <1>0, HistAssumption DEF Now, Copies, HistTypeOK, Release, Procs, ProcType
<1>t. proc["attach"].copy \in RecordType /\ rec \in RecordType
  BY DEF HistTypeOK, ProcType, Procs
<1>2. JobInv'
  BY <1>0 DEF HistInv, Run, Now, Copies, JobInv, Idle, NoRecord
<1>3. LeaseInv'
  BY <1>0 DEF HistInv, Run, Now, LeaseInv, JobInv, UpfrontInv, Upfront, ProcInv, Idle, NoRecord
<1>4. ProcInv'
  BY <1>0 DEF HistInv, Run, Now, Holds, ProcInv, Idle, NoRecord
<1>5. UpfrontInv'
  BY <1>0 DEF HistInv, Run, Now, Copies, Upfront, UpfrontInv, Idle, NoRecord
<1>6. RecInv'
  BY <1>0 DEF HistInv, Run, Now, Holds, Seen, RecInv, Idle, NoRecord
<1>7. TrueOf(rec)'
  BY <1>0 DEF HistInv, TrueOf, JobInv, UpfrontInv, Upfront, HistTypeOK, Idle, NoRecord
<1>8. \A q \in Procs : Holds(q)' => CopyInv(q)'
  BY <1>0 DEF HistInv, Run, Now, Copies, Holds, CopyInv, ProcInv, JobInv, RecInv, TrueOf, Seen, Idle,
     NoRecord
<1>9. GoneInv'
  BY <1>0 DEF HistInv, Run, Now, GoneInv, Idle, NoRecord
<1>10. SyncInv'
  BY <1>0 DEF HistInv, Run, Now, Copies, SyncInv, Idle, NoRecord
<1> QED
  BY <1>1, <1>2, <1>3, <1>4, <1>5, <1>6, <1>7, <1>8, <1>9, <1>10 DEF HistInv

LEMMA TakeLockStep ==
    ASSUME HistInv, NEW p \in Procs, TakeLock(p)
    PROVE  HistInv'
<1> HistTypeOK
  BY DEF HistInv
<1>0. /\ proc[p].pc = "lock" /\ lockBy = "none" /\ lockBy' = p
      /\ Now(p, "read", proc[p].todo, proc[p].ret) /\ Copies(p, proc[p].copy)
      /\ UNCHANGED <<rec, torn, synced, redo, at, code, leased, nodeUp, online, trouble>>
  BY TakeMoves
<1>1. HistTypeOK'
  BY <1>0, HistAssumption DEF Now, Copies, HistTypeOK, Release, Procs, ProcType
<1>t. proc[p].copy \in RecordType /\ rec \in RecordType
  BY DEF HistTypeOK, ProcType, Procs
<1>2. JobInv'
  BY <1>0 DEF HistInv, Run, Now, Copies, JobInv, Idle, NoRecord
<1>3. LeaseInv'
  BY <1>0 DEF HistInv, Run, Now, LeaseInv, Idle, NoRecord
<1>4. ProcInv'
  BY <1>0 DEF HistInv, Run, Now, Holds, ProcInv, Idle, NoRecord
<1>5. UpfrontInv'
  BY <1>0 DEF HistInv, Run, Now, Copies, Upfront, UpfrontInv, Idle, NoRecord
<1>6. RecInv'
  BY <1>0 DEF HistInv, Run, Now, Holds, Seen, RecInv, Idle, NoRecord
<1>7. TrueOf(rec)'
  BY <1>0 DEF HistInv, TrueOf, Idle, NoRecord
<1>8. \A q \in Procs : Holds(q)' => CopyInv(q)'
  BY <1>0 DEF HistInv, Run, Now, Copies, Holds, CopyInv, ProcInv, JobInv, RecInv, TrueOf, Seen, Idle,
     NoRecord
<1>9. GoneInv'
  BY <1>0 DEF HistInv, Run, Now, GoneInv, Idle, NoRecord
<1>10. SyncInv'
  BY <1>0 DEF HistInv, Run, Now, Copies, SyncInv, Idle, NoRecord
<1> QED
  BY <1>1, <1>2, <1>3, <1>4, <1>5, <1>6, <1>7, <1>8, <1>9, <1>10 DEF HistInv

LEMMA AttachAfterStep ==
    ASSUME HistInv, AttachAfter
    PROVE  HistInv'
<1> HistTypeOK
  BY DEF HistInv
<1>0. /\ proc["attach"].pc = "after" /\ proc'["attach"] = Idle
      /\ Now("attach", "idle", "collect", "none") /\ Copies("attach", NoRecord)
      /\ UNCHANGED <<rec, torn, lockBy, synced, redo, at, code, leased, nodeUp, online, trouble>>
  BY AttachAfterMoves
<1>1. HistTypeOK'
  BY <1>0, HistAssumption DEF Now, Copies, HistTypeOK, Release, Procs, ProcType
<1>t. proc["attach"].copy \in RecordType /\ rec \in RecordType
  BY DEF HistTypeOK, ProcType, Procs
<1>2. JobInv'
  BY <1>0 DEF HistInv, Run, Now, Copies, JobInv, Idle, NoRecord
<1>3. LeaseInv'
  BY <1>0 DEF HistInv, Run, Now, LeaseInv, Idle, NoRecord
<1>4. ProcInv'
  BY <1>0 DEF HistInv, Run, Now, Holds, ProcInv, Idle, NoRecord
<1>5. UpfrontInv'
  BY <1>0 DEF HistInv, Run, Now, Copies, Upfront, UpfrontInv, Idle, NoRecord
<1>6. RecInv'
  BY <1>0 DEF HistInv, Run, Now, Holds, Seen, RecInv, Idle, NoRecord
<1>7. TrueOf(rec)'
  BY <1>0 DEF HistInv, TrueOf, Idle, NoRecord
<1>8. \A q \in Procs : Holds(q)' => CopyInv(q)'
  BY <1>0 DEF HistInv, Run, Now, Copies, Holds, CopyInv, ProcInv, JobInv, RecInv, TrueOf, Seen, Idle,
     NoRecord
<1>9. GoneInv'
  BY <1>0 DEF HistInv, Run, Now, GoneInv, Idle, NoRecord
<1>10. SyncInv'
  BY <1>0 DEF HistInv, Run, Now, Copies, SyncInv, Idle, NoRecord
<1> QED
  BY <1>1, <1>2, <1>3, <1>4, <1>5, <1>6, <1>7, <1>8, <1>9, <1>10 DEF HistInv

LEMMA PruneHistoryStep ==
    ASSUME HistInv, PruneHistory
    PROVE  HistInv'
<1>1. HistTypeOK'
  BY HistAssumption, IdleType DEF PruneHistory, HistInv, HistTypeOK, File, Env, Tally
<1>2. JobInv'
  BY DEF HistInv, Run, JobInv, PruneHistory, Env, File, Tally, NoRecord, Pending
<1>3. LeaseInv'
  BY DEF HistInv, Run, LeaseInv, PruneHistory, Env, File, Tally, NoRecord, Pending
<1>4. ProcInv'
  BY DEF HistInv, Run, Holds, ProcInv, PruneHistory, Env, File, Tally, NoRecord, Pending
<1>5. UpfrontInv'
  BY DEF HistInv, Run, Upfront, UpfrontInv, PruneHistory, Env, File, Tally, NoRecord, Pending
<1>6. RecInv'
  BY DEF HistInv, Run, Holds, Seen, RecInv, PruneHistory, Env, File, Tally, NoRecord, Pending
<1>7. TrueOf(rec)'
  BY DEF HistInv, TrueOf, PruneHistory, Env, File, Tally, NoRecord, Pending
<1>8. \A q \in Procs : Holds(q)' => CopyInv(q)'
  BY DEF HistInv, Run, Holds, CopyInv, ProcInv, JobInv, RecInv, TrueOf, Seen, PruneHistory, Env,
     File, Tally, NoRecord, Pending
<1>9. GoneInv'
  BY DEF HistInv, Run, GoneInv, PruneHistory, Env, File, Tally, NoRecord, Pending
<1>10. SyncInv'
  BY DEF HistInv, Run, SyncInv, PruneHistory, Env, File, Tally, NoRecord, Pending
<1> QED
  BY <1>1, <1>2, <1>3, <1>4, <1>5, <1>6, <1>7, <1>8, <1>9, <1>10 DEF HistInv

LEMMA ScriptEndsStep ==
    ASSUME HistInv, ScriptEnds
    PROVE  HistInv'
<1>1. HistTypeOK'
  BY HistAssumption, IdleType DEF ScriptEnds, HistInv, HistTypeOK, File, Env, Tally
<1>2. JobInv'
  BY DEF HistInv, Run, JobInv, ScriptEnds, Env, File, Tally, NoRecord, Pending
<1>3. LeaseInv'
  BY DEF HistInv, Run, LeaseInv, JobInv, UpfrontInv, Upfront, ProcInv, ScriptEnds, Env, File, Tally,
     NoRecord, Pending
<1>4. ProcInv'
  BY DEF HistInv, Run, Holds, ProcInv, ScriptEnds, Env, File, Tally, NoRecord, Pending
<1>5. UpfrontInv'
  BY DEF HistInv, Run, Upfront, UpfrontInv, JobInv, ProcInv, Holds, HistTypeOK, RecordType,
     ScriptEnds, Env, File, Tally, NoRecord, Pending
<1>6. RecInv'
  BY DEF HistInv, Run, Holds, Seen, RecInv, ScriptEnds, Env, File, Tally, NoRecord, Pending
<1>7. TrueOf(rec)'
  BY DEF HistInv, TrueOf, JobInv, UpfrontInv, Upfront, HistTypeOK, ScriptEnds, Env, File, Tally,
     NoRecord, Pending
<1>8. \A q \in Procs : Holds(q)' => CopyInv(q)'
  BY DEF HistInv, Run, Holds, CopyInv, ProcInv, JobInv, RecInv, TrueOf, Seen, ScriptEnds, Env, File,
     Tally, NoRecord, Pending
<1>9. GoneInv'
  BY DEF HistInv, Run, GoneInv, ScriptEnds, Env, File, Tally, NoRecord, Pending
<1>10. SyncInv'
  BY DEF HistInv, Run, SyncInv, ScriptEnds, Env, File, Tally, NoRecord, Pending
<1> QED
  BY <1>1, <1>2, <1>3, <1>4, <1>5, <1>6, <1>7, <1>8, <1>9, <1>10 DEF HistInv

LEMMA ForgetsStep ==
    ASSUME HistInv, Forgets
    PROVE  HistInv'
<1>1. HistTypeOK'
  <2>1. trouble' \in 0..MaxTrouble
    BY HistAssumption DEF Forgets, HistInv, HistTypeOK
  <2> QED
    BY <2>1 DEF Forgets, HistInv, HistTypeOK, File, Env, Tally
<1>2. JobInv'
  BY DEF Run, Upfront, Holds, Seen, HistTypeOK, ProcType, RecordType, JobInv, LeaseInv, ProcInv,
     UpfrontInv, RecInv, TrueOf, CopyInv, GoneInv, SyncInv, HistInv, Forgets, Env, File, Tally,
     NoRecord, Pending
<1>3. LeaseInv'
  BY DEF HistInv, Run, LeaseInv, JobInv, UpfrontInv, Upfront, ProcInv, Forgets, Env, File, Tally,
     NoRecord, Pending
<1>4. ProcInv'
  BY DEF HistInv, Run, Holds, ProcInv, Forgets, Env, File, Tally, NoRecord, Pending
<1>5. UpfrontInv'
  BY DEF HistInv, Run, Upfront, UpfrontInv, Forgets, Env, File, Tally, NoRecord, Pending
<1>6. RecInv'
  BY DEF HistInv, Run, Holds, Seen, RecInv, Forgets, Env, File, Tally, NoRecord, Pending
<1>7. TrueOf(rec)'
  BY DEF HistInv, TrueOf, Forgets, Env, File, Tally, NoRecord, Pending
<1>8. \A q \in Procs : Holds(q)' => CopyInv(q)'
  BY DEF HistInv, Run, Holds, CopyInv, ProcInv, JobInv, RecInv, TrueOf, Seen, Forgets, Env, File,
     Tally, NoRecord, Pending
<1>9. GoneInv'
  BY DEF HistInv, Run, GoneInv, Forgets, Env, File, Tally, NoRecord, Pending
<1>10. SyncInv'
  BY DEF HistInv, Run, SyncInv, Forgets, Env, File, Tally, NoRecord, Pending
<1> QED
  BY <1>1, <1>2, <1>3, <1>4, <1>5, <1>6, <1>7, <1>8, <1>9, <1>10 DEF HistInv

LEMMA NodeFlipsStep ==
    ASSUME HistInv, NodeFlips
    PROVE  HistInv'
<1>1. HistTypeOK'
  <2>1. trouble' \in 0..MaxTrouble
    BY HistAssumption DEF NodeFlips, HistInv, HistTypeOK
  <2> QED
    BY <2>1 DEF NodeFlips, HistInv, HistTypeOK, File, Env, Tally
<1>2. JobInv'
  BY DEF Run, Upfront, Holds, Seen, HistTypeOK, ProcType, RecordType, JobInv, LeaseInv, ProcInv,
     UpfrontInv, RecInv, TrueOf, CopyInv, GoneInv, SyncInv, HistInv, NodeFlips, Env, File, Tally,
     NoRecord, Pending
<1>3. LeaseInv'
  BY DEF Run, Upfront, Holds, Seen, HistTypeOK, ProcType, RecordType, JobInv, LeaseInv, ProcInv,
     UpfrontInv, RecInv, TrueOf, CopyInv, GoneInv, SyncInv, HistInv, NodeFlips, Env, File, Tally,
     NoRecord, Pending
<1>4. ProcInv'
  BY DEF HistInv, Run, Holds, ProcInv, NodeFlips, Env, File, Tally, NoRecord, Pending
<1>5. UpfrontInv'
  BY DEF HistInv, Run, Upfront, UpfrontInv, NodeFlips, Env, File, Tally, NoRecord, Pending
<1>6. RecInv'
  BY DEF HistInv, Run, Holds, Seen, RecInv, NodeFlips, Env, File, Tally, NoRecord, Pending
<1>7. TrueOf(rec)'
  BY DEF HistInv, TrueOf, NodeFlips, Env, File, Tally, NoRecord, Pending
<1>8. \A q \in Procs : Holds(q)' => CopyInv(q)'
  BY DEF HistInv, Run, Holds, CopyInv, ProcInv, JobInv, RecInv, TrueOf, Seen, NodeFlips, Env, File,
     Tally, NoRecord, Pending
<1>9. GoneInv'
  BY DEF HistInv, Run, GoneInv, NodeFlips, Env, File, Tally, NoRecord, Pending
<1>10. SyncInv'
  BY DEF HistInv, Run, SyncInv, NodeFlips, Env, File, Tally, NoRecord, Pending
<1> QED
  BY <1>1, <1>2, <1>3, <1>4, <1>5, <1>6, <1>7, <1>8, <1>9, <1>10 DEF HistInv

LEMMA GoesOfflineStep ==
    ASSUME HistInv, GoesOffline
    PROVE  HistInv'
<1>1. HistTypeOK'
  <2>1. trouble' \in 0..MaxTrouble
    BY HistAssumption DEF GoesOffline, HistInv, HistTypeOK
  <2> QED
    BY <2>1 DEF GoesOffline, HistInv, HistTypeOK, File, Env, Tally
<1>2. JobInv'
  BY DEF Run, Upfront, Holds, Seen, HistTypeOK, ProcType, RecordType, JobInv, LeaseInv, ProcInv,
     UpfrontInv, RecInv, TrueOf, CopyInv, GoneInv, SyncInv, HistInv, GoesOffline, Env, File, Tally,
     NoRecord, Pending
<1>3. LeaseInv'
  BY DEF Run, Upfront, Holds, Seen, HistTypeOK, ProcType, RecordType, JobInv, LeaseInv, ProcInv,
     UpfrontInv, RecInv, TrueOf, CopyInv, GoneInv, SyncInv, HistInv, GoesOffline, Env, File, Tally,
     NoRecord, Pending
<1>4. ProcInv'
  BY DEF HistInv, Run, Holds, ProcInv, GoesOffline, Env, File, Tally, NoRecord, Pending
<1>5. UpfrontInv'
  BY DEF HistInv, Run, Upfront, UpfrontInv, GoesOffline, Env, File, Tally, NoRecord, Pending
<1>6. RecInv'
  BY DEF HistInv, Run, Holds, Seen, RecInv, GoesOffline, Env, File, Tally, NoRecord, Pending
<1>7. TrueOf(rec)'
  BY DEF HistInv, TrueOf, GoesOffline, Env, File, Tally, NoRecord, Pending
<1>8. \A q \in Procs : Holds(q)' => CopyInv(q)'
  BY DEF HistInv, Run, Holds, CopyInv, ProcInv, JobInv, RecInv, TrueOf, Seen, GoesOffline, Env, File,
     Tally, NoRecord, Pending
<1>9. GoneInv'
  BY DEF HistInv, Run, GoneInv, GoesOffline, Env, File, Tally, NoRecord, Pending
<1>10. SyncInv'
  BY DEF HistInv, Run, SyncInv, GoesOffline, Env, File, Tally, NoRecord, Pending
<1> QED
  BY <1>1, <1>2, <1>3, <1>4, <1>5, <1>6, <1>7, <1>8, <1>9, <1>10 DEF HistInv

LEMMA BackOnlineStep ==
    ASSUME HistInv, BackOnline
    PROVE  HistInv'
<1>1. HistTypeOK'
  BY HistAssumption, IdleType DEF BackOnline, HistInv, HistTypeOK, File, Env, Tally
<1>2. JobInv'
  BY DEF HistInv, Run, JobInv, BackOnline, Env, File, Tally, NoRecord, Pending
<1>3. LeaseInv'
  BY DEF HistInv, Run, LeaseInv, BackOnline, Env, File, Tally, NoRecord, Pending
<1>4. ProcInv'
  BY DEF HistInv, Run, Holds, ProcInv, BackOnline, Env, File, Tally, NoRecord, Pending
<1>5. UpfrontInv'
  BY DEF HistInv, Run, Upfront, UpfrontInv, BackOnline, Env, File, Tally, NoRecord, Pending
<1>6. RecInv'
  BY DEF HistInv, Run, Holds, Seen, RecInv, BackOnline, Env, File, Tally, NoRecord, Pending
<1>7. TrueOf(rec)'
  BY DEF HistInv, TrueOf, BackOnline, Env, File, Tally, NoRecord, Pending
<1>8. \A q \in Procs : Holds(q)' => CopyInv(q)'
  BY DEF HistInv, Run, Holds, CopyInv, ProcInv, JobInv, RecInv, TrueOf, Seen, BackOnline, Env, File,
     Tally, NoRecord, Pending
<1>9. GoneInv'
  BY DEF HistInv, Run, GoneInv, BackOnline, Env, File, Tally, NoRecord, Pending
<1>10. SyncInv'
  BY DEF HistInv, Run, SyncInv, BackOnline, Env, File, Tally, NoRecord, Pending
<1> QED
  BY <1>1, <1>2, <1>3, <1>4, <1>5, <1>6, <1>7, <1>8, <1>9, <1>10 DEF HistInv

LEMMA DayPassesStep ==
    ASSUME HistInv, DayPasses
    PROVE  HistInv'
<1>1. HistTypeOK'
  BY HistAssumption, IdleType DEF DayPasses, HistInv, HistTypeOK, File, Env, Tally, RecordType
<1>2. JobInv'
  BY DEF HistInv, Run, JobInv, DayPasses, Env, File, Tally, NoRecord, Pending
<1>3. LeaseInv'
  BY DEF HistInv, Run, LeaseInv, DayPasses, Env, File, Tally, NoRecord, Pending
<1>4. ProcInv'
  BY DEF HistInv, Run, Holds, ProcInv, DayPasses, Env, File, Tally, NoRecord, Pending
<1>5. UpfrontInv'
  BY DEF HistInv, Run, Upfront, UpfrontInv, DayPasses, Env, File, Tally, NoRecord, Pending
<1>6. RecInv'
  BY DEF HistInv, Run, Holds, Seen, RecInv, DayPasses, Env, File, Tally, NoRecord, Pending
<1>7. TrueOf(rec)'
  BY DEF HistInv, TrueOf, DayPasses, Env, File, Tally, NoRecord, Pending
<1>8. \A q \in Procs : Holds(q)' => CopyInv(q)'
  BY DEF HistInv, Run, Holds, CopyInv, ProcInv, JobInv, RecInv, TrueOf, Seen, DayPasses, Env, File,
     Tally, NoRecord, Pending
<1>9. GoneInv'
  BY DEF HistInv, Run, GoneInv, DayPasses, Env, File, Tally, NoRecord, Pending
<1>10. SyncInv'
  BY DEF HistInv, Run, SyncInv, DayPasses, Env, File, Tally, NoRecord, Pending
<1> QED
  BY <1>1, <1>2, <1>3, <1>4, <1>5, <1>6, <1>7, <1>8, <1>9, <1>10 DEF HistInv

\* The invariant holds at first, and every step keeps it.
LEMMA HistInitially == HistInit => HistInv
<1> SUFFICES ASSUME HistInit PROVE HistInv
  OBVIOUS
<1>1. PICK detach \in BOOLEAN : proc = [p \in Procs |-> [Idle EXCEPT !.asked = (p = "run" /\ detach)]]
  BY DEF HistInit
<1>2. /\ \A p \in Procs : proc[p].pc = "idle" /\ proc[p].copy = NoRecord /\ proc[p].todo = "collect"
                           /\ proc[p].ret = "none"
      /\ proc["watch"] = Idle /\ proc["attach"] = Idle
  <2>1. [Idle EXCEPT !.asked = FALSE] = Idle
    BY IdleType DEF Idle, ProcType
  <2> QED
    BY <1>1, <2>1 DEF Idle
<1>3. \A p \in Procs : proc[p] \in ProcType
  BY <1>1, IdleType DEF ProcType
<1>4. HistTypeOK
  <2>1. proc \in [Procs -> ProcType]
    BY <1>1, <1>3
  <2>2. trouble \in 0..MaxTrouble
    BY HistAssumption DEF HistInit
  <2> QED
    BY <2>1, <2>2, IdleType DEF HistInit, HistTypeOK
<1> QED
  BY <1>2, <1>4 DEF HistInit, HistInv, JobInv, LeaseInv, ProcInv, UpfrontInv, RecInv, TrueOf, GoneInv,
     SyncInv, Holds, Seen, Upfront, Run, NoRecord

LEMMA HistStep == HistInv /\ [HistNext]_histVars => HistInv'
<1> SUFFICES ASSUME HistInv, [HistNext]_histVars PROVE HistInv'
  OBVIOUS
<1>1. CASE UNCHANGED histVars
  BY <1>1 DEF histVars, HistInv, HistTypeOK, JobInv, LeaseInv, ProcInv, UpfrontInv, RecInv, TrueOf,
     CopyInv, GoneInv, SyncInv, Holds, Seen, Upfront, Run
<1>2. ASSUME NEW p \in Procs, Locked(p)
      PROVE  HistInv'
  BY <1>2, TakeLockStep, ReadAgainStep, AskStatusStep, FetchOutputStep, SyncResultsStep, EmptyStep,
     FillStep DEF Locked
<1>3. CASE AcceptRun \/ BuildRun \/ StreamRun \/ RunStep
  BY <1>2, <1>3, AcceptRunStep, BuildRunStep, StreamRunStep, RecordRunStep, UploadRunStep, ResultsRunStep,
     FinishRunStep DEF RunStep
<1>4. CASE WatchStep \/ AttachLook \/ AttachEnd \/ Locked("attach") \/ AttachAfter
  BY <1>2, <1>4, WatchLookStep, WatchAfterStep, AttachLookStep, AttachEndStep, AttachAfterStep DEF WatchStep
<1>5. CASE \/ PruneHistory \/ ScriptEnds \/ Forgets \/ NodeFlips \/ GoesOffline \/ BackOnline \/ DayPasses
           \/ \E p \in Procs : Killed(p)
  BY <1>5, PruneHistoryStep, ScriptEndsStep, ForgetsStep, NodeFlipsStep, GoesOfflineStep, BackOnlineStep,
     DayPassesStep, KilledStep
<1> QED
  BY <1>1, <1>3, <1>4, <1>5 DEF HistNext

LEMMA HistInvariant == HistSpec => []HistInv
<1>1. HistInit => HistInv
  BY HistInitially
<1>2. HistInv /\ [HistNext]_histVars => HistInv'
  BY HistStep
<1> QED
  BY <1>1, <1>2, PTL DEF HistSpec

-----------------------------------------------------------------------------
(* The theorems. *)

\* What the record says of a run happened: a success has its results here and
\* was applied once, unless a collect stopped before its record was written;
\* only a job its node lost is failed as gone; and a lease left held after the
\* run was lost to a kill or an unreachable node.
THEOREM RunRecordIsTrue == HistSpec => []RecordIsTrue
<1>1. HistInv => RecordIsTrue
  BY DEF HistInv, RecordIsTrue, RecInv, TrueOf, SyncInv, GoneInv, LeaseInv
<1> QED
  BY <1>1, HistInvariant, PTL

\* Nobody changes a finished record: who writes one has seen, under its lock,
\* that the job was still to be collected.
LEMMA FinalKept ==
    ASSUME HistInv, HistNext, rec.status \in Final, rec'.status # "none", ~rec.gone
    PROVE  rec'.status = rec.status /\ rec'.collected = rec.collected
<1>1. CASE RecordRun
  BY <1>1 DEF RecordRun, HistInv, UpfrontInv, Upfront, Run, NoRecord
<1>2. ASSUME NEW p \in Procs, Fill(p)
      PROVE  rec'.status = rec.status /\ rec'.collected = rec.collected
  <2>1. HistTypeOK
    BY DEF HistInv
  <2>2. proc[p].pc = "fill" /\ rec' = proc[p].copy
    BY <1>2, <2>1, FillMoves
  <2>3. Holds(p)
    BY <2>2 DEF HistInv, UpfrontInv, Upfront, Holds, Run
  <2>4. rec.hasJob
    BY <2>2, <2>3 DEF HistInv, RecInv, Seen
  <2>5. CopyInv(p)
    BY <2>3 DEF HistInv
  <2> QED
    BY <2>2, <2>4, <2>5 DEF HistInv, RecInv, CopyInv
<1>3. CASE DayPasses
  BY <1>3 DEF DayPasses, HistInv, HistTypeOK, RecordType
<1>4. CASE PruneHistory
  BY <1>4 DEF PruneHistory, NoRecord
<1>5. CASE UNCHANGED rec
  BY <1>5
<1>6. ASSUME NEW p \in Procs, Locked(p)
      PROVE  Fill(p) \/ UNCHANGED rec
  BY <1>6 DEF Locked, TakeLock, ReadAgain, AskStatus, FetchOutput, SyncResults, Empty, File
<1> QED
  BY <1>1, <1>2, <1>3, <1>4, <1>5, <1>6
     DEF HistNext, RunStep, WatchStep, AcceptRun, BuildRun, StreamRun, UploadRun, ResultsRun, FinishRun,
         WatchLook, WatchAfter, AttachLook, AttachEnd, AttachAfter, ScriptEnds, Forgets, NodeFlips,
         GoesOffline, BackOnline, Killed, File

\* A finished record stays as it is, but for one failed with its node.
THEOREM RunFinalStays == HistSpec => FinalStays
<1>1. HistInv /\ [HistNext]_histVars =>
        [rec.status \in Final /\ rec'.status # "none" /\ ~rec.gone =>
            rec'.status = rec.status /\ rec'.collected = rec.collected]_histVars
  BY FinalKept
<1> QED
  BY <1>1, HistInvariant, PTL DEF HistSpec, FinalStays
=============================================================================
