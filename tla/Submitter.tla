----------------------------- MODULE Submitter -----------------------------
(***************************************************************************)
(* One job's way through the cluster, seen from the machine that submits   *)
(* it: ExecuteWithRetry and PlaceWithRetry (coordinator), the run on a     *)
(* node (app.Run, StreamExecute) and judgeLostConnection, which decides    *)
(* what a broken connection means.                                         *)
(*                                                                         *)
(* A node is what the submitter can see of it: a lease per placement and   *)
(* the copy of the job started under it (NodeLeases is the node in         *)
(* detail).  Nodes crash and restart, daemons die and leave their job to   *)
(* run on as an orphan, the submitter's network goes down, and a path to   *)
(* one node may break while the others work.                               *)
(***************************************************************************)
EXTENDS Naturals, FiniteSets

CONSTANTS
  Node,
  Unfit,            \* nodes that could never hold the job (arch, role, ceiling, GPU)
  RoundRobin,       \* the strategy; otherwise candidates by score
  MaxExecAttempts,
  ProbeTries,       \* lostProbeTries
  Window,           \* placement rounds that fit in the placement window
  MaxLeases,        \* bound: leases granted to this job
  MaxCrashes,       \* bound: machines that crash and daemons that die
  MaxOffline,       \* bound: outages of the submitter's own network
  MaxCuts,          \* bound: breaks of one node's path
  Steady            \* the network does not change while a lost connection is judged

ASSUME SubmitterAssumption ==
  /\ Unfit \subseteq Node /\ RoundRobin \in BOOLEAN /\ Steady \in BOOLEAN
  /\ MaxExecAttempts \in Nat \ {0} /\ ProbeTries \in Nat \ {0} /\ Window \in Nat
  /\ MaxLeases \in Nat /\ MaxCrashes \in Nat /\ MaxOffline \in Nat
  /\ MaxCuts \in Nat

VARIABLES
  pc,        \* where ExecuteWithRetry is
  round,     \* placement rounds since PlaceWithRetry began
  fit,       \* candidates FindNode did not reject in this round
  order,     \* those of them this round still has to ask
  asked,     \* those it has asked
  tried,     \* Coordinator.tried: executions that failed on each node
  refused,   \* Coordinator.refused: nodes that refused the closure
  failures,
  probes,    \* probes of judgeLostConnection that went unanswered
  mine,      \* the lease of the current placement
  leases,    \* the leases the nodes granted this job, in order
  ctrlC,     \* the run's context is cancelled
  due,       \* leases a sweep under way at their node may free
  late,      \* leases whose job started while such a sweep was under way
  misread,   \* leases given up, with their job running, on an answer that told nothing
  up,        \* machines whose daemon runs
  offline,   \* the submitter has no network
  cut,       \* nodes the submitter cannot reach though both have a network
  budget     \* faults so far

run   == <<round, fit, order, asked, tried, refused, failures, probes, mine>>
net   == <<up, offline, cut, budget>>
world == <<due, late, misread, net>>
vars  == <<pc, run, leases, ctrlC, world>>

Slot     == 1..MaxLeases
Returned == {"succeeded", "failed", "cancelled", "detached"}
Judging  == {"probe", "net"}

Unused == [node |-> "none", state |-> "none", job |-> "none"]
Leases == [node : Node, state : {"reserved", "running", "freed"},
           job : {"none", "running", "orphan", "ended", "lost"}]

NodeOf(l) == leases[l].node
Reach(n)  == n \in up /\ ~offline /\ n \notin cut
MyNode    == NodeOf(mine)
Granted   == {l \in Slot : leases[l].state # "none"}
Held      == {l \in Slot : leases[l].state \in {"reserved", "running"}}
Running   == {l \in Slot : leases[l].job = "running"}
Orphans   == {l \in Slot : leases[l].job = "orphan"}

Init ==
  /\ pc = "start"
  /\ round = 0 /\ fit = {} /\ order = {} /\ asked = {} /\ refused = {}
  /\ tried = [n \in Node |-> 0] /\ failures = 0 /\ probes = 0
  /\ mine = 0
  /\ leases = [l \in Slot |-> Unused]
  /\ ctrlC = FALSE
  /\ due = {} /\ late = {} /\ misread = {}
  /\ up = Node /\ offline = FALSE /\ cut = {}
  /\ budget = [crash |-> 0, offline |-> 0, cut |-> 0]

\* The current lease after /v1/complete, when the node can be told.
Completed == IF Reach(MyNode) THEN [leases EXCEPT ![mine].state = "freed"] ELSE leases
-----------------------------------------------------------------------------
(* Placement.                                                              *)

\* The head of ExecuteWithRetry's loop, and the entry of PlaceWithRetry.
Begin ==
  /\ pc = "start"
  /\ pc' = IF ctrlC THEN "cancelled" ELSE "find"
  /\ round' = 0
  /\ UNCHANGED <<fit, order, asked, tried, refused, failures, probes, mine, leases, ctrlC, world>>

\* neverFits: every listed node refused the closure or can never hold the job.
NeverFits(listed) == listed # {} /\ listed \subseteq refused \union Unfit

\* FindNode: which nodes the local daemon lists, and which have room, is up to
\* the cluster.  Round-robin picks one of them by a counter that all runs share.
FindNode ==
  /\ pc = "find"
  /\ \E listed \in SUBSET Node :
       \/ /\ NeverFits(listed)
          /\ pc' = "failed" /\ UNCHANGED <<fit, order, asked>>
       \/ /\ ~NeverFits(listed)
          /\ fit' \in SUBSET (listed \ (refused \union Unfit))
          /\ order' \in IF RoundRobin /\ fit' # {} THEN {{n} : n \in fit'} ELSE {fit'}
          /\ asked' = {}
          /\ pc' = "try"
  /\ UNCHANGED <<round, tried, refused, failures, probes, mine, leases, ctrlC, world>>

\* Who is asked next: of the candidates left, one tried least.
NextAsked == {n \in order : \A m \in order : tried[n] <= tried[m]}

Reserve(n) ==
  LET l == Cardinality(Granted) + 1
  IN  /\ l \in Slot /\ Reach(n)
      /\ leases' = [leases EXCEPT ![l] = [node |-> n, state |-> "reserved", job |-> "none"]]

Ask(n) ==
  /\ pc = "try" /\ n \in NextAsked
  /\ UNCHANGED <<round, tried, refused, failures, probes, ctrlC, late, misread, net>>

\* The round ends with its candidates.
Accepted(n) ==
  /\ Ask(n) /\ Reserve(n)
  /\ mine' = Cardinality(Granted) + 1
  /\ fit' = {} /\ order' = {} /\ asked' = {} /\ due' = {}
  /\ pc' = "commit"

\* Turned down, unreachable, or granted with the answer lost on its way.
NotAccepted(n) ==
  /\ Ask(n)
  /\ order' = order \ {n}
  /\ asked' = asked \union {n}
  /\ UNCHANGED leases \/ Reserve(n)
  /\ UNCHANGED <<pc, fit, mine, due>>

\* Nobody took it: wait for the next round while the window lasts.
Requeue ==
  /\ pc = "try" /\ order = {}
  /\ round' = round + 1
  /\ pc' = CASE round >= Window -> "failed"
             [] ctrlC           -> "cancelled"
             [] OTHER           -> "find"
  /\ UNCHANGED <<fit, order, asked, tried, refused, failures, probes, mine, leases, ctrlC, world>>
-----------------------------------------------------------------------------
(* Commit, upload and execution.                                           *)

Commit ==
  /\ pc = "commit" /\ Reach(MyNode) /\ leases[mine].state = "reserved"
  /\ leases' = [leases EXCEPT ![mine].state = "running"]
  /\ pc' = "upload"
  /\ UNCHANGED <<run, ctrlC, world>>

\* Rejected, unreachable, or committed with the answer lost: place again.
\* Nothing completes the lease.
CommitFails ==
  /\ pc = "commit"
  /\ leases' \in {leases} \union
       IF Reach(MyNode) /\ leases[mine].state = "reserved"
       THEN {[leases EXCEPT ![mine].state = "running"]} ELSE {}
  /\ pc' = "start"
  /\ UNCHANGED <<run, ctrlC, world>>

\* The closure and the workspace are on the node and the job is started.  The
\* node takes the lease again when it had been swept (bindLease); a sweep that
\* has read which jobs are live knows nothing of this one.
Start ==
  /\ pc = "upload" /\ ~ctrlC /\ Reach(MyNode)
  /\ leases' = [leases EXCEPT ![mine].state = "running", ![mine].job = "running"]
  /\ late' = late \union (due \intersect Held) /\ due' = {}
  /\ pc' = "run"
  /\ UNCHANGED <<run, ctrlC, misread, net>>

\* The node refuses the closure: it is left out from now on.
Refuse ==
  /\ pc = "upload" /\ ~ctrlC /\ Reach(MyNode)
  /\ leases'  = Completed
  /\ refused' = refused \union {MyNode}
  /\ pc' = "start"
  /\ UNCHANGED <<round, fit, order, asked, tried, failures, probes, mine, ctrlC, world>>

\* The environment does not build, or the script itself failed: it would
\* anywhere.  Also results that do not come back.
Permanent ==
  /\ \/ pc = "upload"
     \/ pc = "run" /\ leases[mine].job = "ended"
  /\ leases' = Completed
  /\ pc' = IF ctrlC THEN "cancelled" ELSE "failed"
  /\ UNCHANGED <<run, ctrlC, world>>

Succeed ==
  /\ pc = "run" /\ Reach(MyNode) /\ leases[mine].job = "ended"
  /\ leases' = Completed
  /\ pc' = "succeeded"
  /\ UNCHANGED <<run, ctrlC, world>>

\* Mutant: a failed execution is not counted.
Uncounted == failures

Counted == failures + 1

\* A failed execution: complete the lease, count it, back off or give up.
FailedHere ==
  /\ leases' = Completed
  /\ IF ctrlC
     THEN pc' = "cancelled" /\ UNCHANGED <<tried, failures>>
     ELSE /\ tried' = [tried EXCEPT ![MyNode] = @ + 1]
          /\ failures' = Counted
          /\ pc' = IF Counted >= MaxExecAttempts THEN "failed" ELSE "backoff"
  /\ UNCHANGED <<round, fit, order, asked, refused, probes, mine, ctrlC, due, late, net>>

\* The upload breaks, or the job was killed, or its node could not run it.
ExecFails ==
  /\ \/ pc = "upload"
     \/ pc = "run" /\ Reach(MyNode) /\ leases[mine].job = "ended"
  /\ FailedHere /\ UNCHANGED misread

BackOff ==
  /\ pc = "backoff"
  /\ pc' = IF ctrlC THEN "cancelled" ELSE "start"
  /\ UNCHANGED <<run, leases, ctrlC, world>>

\* The user detaches from a started job.
Detach ==
  /\ pc = "run"
  /\ pc' = "detached"
  /\ UNCHANGED <<run, leases, ctrlC, world>>

\* A cancelled run tells the daemon to stop the job and waits a few seconds
\* for it to say so.
StopJob ==
  /\ pc \in {"upload", "run"} /\ ctrlC
  /\ leases' = IF Reach(MyNode)
               THEN [leases EXCEPT ![mine].state = "freed",
                                   ![mine].job = IF @ = "running" THEN "ended" ELSE @]
               ELSE leases
  /\ pc' = "cancelled"
  /\ UNCHANGED <<run, ctrlC, world>>
-----------------------------------------------------------------------------
(* judgeLostConnection.                                                    *)

LoseConnection ==
  /\ pc = "run" /\ ~ctrlC
  /\ probes' = 0
  /\ pc' = "probe"
  /\ UNCHANGED <<round, fit, order, asked, tried, refused, failures, mine, leases, ctrlC, world>>

\* The node answers: the job runs, or has ended and is collected now or later.
\* The record of one that was lost says that it failed.
StatusRead ==
  /\ pc' \in CASE leases[mine].job = "running"          -> {"detached"}
               [] leases[mine].job = "ended"            -> {"detached", "succeeded", "failed"}
               [] leases[mine].job \in {"orphan", "lost"} -> {"detached", "failed"}
  /\ UNCHANGED <<run, leases, ctrlC, world>>

\* Any other answer (an unknown job, an HTTP error, an unreadable body) counts
\* as "the node no longer has the job", whether it runs or not.
NoStatusRead ==
  /\ FailedHere
  /\ misread' = misread \union (Running \intersect {mine})

ProbeAnswered == pc = "probe" /\ Reach(MyNode) /\ (StatusRead \/ NoStatusRead)

ProbeSilent ==
  /\ pc = "probe" /\ ~Reach(MyNode)
  /\ probes' = probes + 1
  /\ pc' = IF probes + 1 = ProbeTries THEN "net" ELSE "probe"
  /\ UNCHANGED <<round, fit, order, asked, tried, refused, failures, mine, leases, ctrlC, world>>

\* Mutant: a silent node is always taken for a dead one.
NetworkUpAlways == TRUE

\* networkUp: another peer, the introducer or the gateway answers.
NetworkUp == ~offline

NodeIsGone == pc = "net" /\ NetworkUp /\ FailedHere /\ UNCHANGED misread

SelfIsOffline ==
  /\ pc = "net" /\ ~NetworkUp
  /\ pc' = "detached"
  /\ UNCHANGED <<run, leases, ctrlC, world>>
-----------------------------------------------------------------------------
(* The nodes, the network and the user.                                    *)

\* The node releases the lease when the job ends.
JobEnds(l) ==
  /\ leases[l].job = "running" /\ NodeOf(l) \in up
  /\ leases' = [leases EXCEPT ![l].job = "ended", ![l].state = "freed"]
  /\ UNCHANGED <<pc, run, ctrlC, world>>

\* KeepLeaseAlive, from the commit to the executor's return.
Renewed(l) == l = mine /\ pc \in {"upload", "run"} \union Judging /\ Reach(MyNode)

\* A lease the sweeper frees: nobody renews it, and no job ran under it when
\* sweepExpired read which jobs are live, before it took the lock of the leases.
Expired(l) == (l \notin Running /\ ~Renewed(l)) \/ l \in late

Sweep(l) ==
  /\ l \in Held /\ NodeOf(l) \in up
  /\ Expired(l)
  /\ leases' = [leases EXCEPT ![l].state = "freed"]
  /\ UNCHANGED <<pc, run, ctrlC, world>>

\* The read, where the lease's job may be started before the deletion.
SweepRead(l) ==
  /\ l = mine /\ pc \in {"commit", "upload"}
  /\ l \in Held /\ NodeOf(l) \in up
  /\ Expired(l)
  /\ due' = {l} /\ due # due'
  /\ UNCHANGED <<pc, run, leases, ctrlC, late, misread, net>>

\* A node stops answering, and with it a sweep under way there.
Dies(n, fate) ==
  /\ n \in up /\ budget.crash < MaxCrashes
  /\ up' = up \ {n}
  /\ leases' = [l \in Slot |-> IF NodeOf(l) = n /\ leases[l].job = "running"
                               THEN [leases[l] EXCEPT !.job = fate] ELSE leases[l]]
  /\ due' = {l \in due : NodeOf(l) # n}
  /\ budget' = [budget EXCEPT !.crash = @ + 1]
  /\ UNCHANGED <<pc, run, ctrlC, late, misread, offline, cut>>

\* The machine crashes and takes the job with it.
Crash(n) == Dies(n, "lost")

\* The daemon dies alone.  The job's container or process group runs on, and
\* nothing collects it.
DaemonDies(n) == Dies(n, "orphan")

\* An orphan ends by itself, or with its machine.
OrphanEnds(l) ==
  /\ l \in Orphans
  /\ leases' = [leases EXCEPT ![l].job = "lost"]
  /\ UNCHANGED <<pc, run, ctrlC, world>>

\* failOrphanedJobs: the next daemon fails the jobs that ran, frees their
\* leases, and stops what outlived the last one as far as it can find it.
Restart(n) ==
  /\ n \in Node \ up
  /\ up' = up \union {n}
  /\ \E left \in SUBSET {l \in Orphans : NodeOf(l) = n} :
       leases' = [l \in Slot |->
                   IF NodeOf(l) = n /\ leases[l].job \in {"orphan", "lost"}
                   THEN [leases[l] EXCEPT !.state = "freed",
                                          !.job = IF l \in left THEN "orphan" ELSE "lost"]
                   ELSE leases[l]]
  /\ UNCHANGED <<pc, run, ctrlC, due, late, misread, offline, cut, budget>>

MayChange == Steady => pc \notin Judging

Offline ==
  /\ MayChange /\ ~offline /\ budget.offline < MaxOffline
  /\ offline' = TRUE /\ budget' = [budget EXCEPT !.offline = @ + 1]
  /\ UNCHANGED <<pc, run, leases, ctrlC, due, late, misread, up, cut>>

Online ==
  /\ MayChange /\ offline /\ offline' = FALSE
  /\ UNCHANGED <<pc, run, leases, ctrlC, due, late, misread, up, cut, budget>>

Cut(n) ==
  /\ MayChange /\ n \notin cut /\ budget.cut < MaxCuts
  /\ cut' = cut \union {n} /\ budget' = [budget EXCEPT !.cut = @ + 1]
  /\ UNCHANGED <<pc, run, leases, ctrlC, due, late, misread, up, offline>>

Heal(n) ==
  /\ MayChange /\ n \in cut /\ cut' = cut \ {n}
  /\ UNCHANGED <<pc, run, leases, ctrlC, due, late, misread, up, offline, budget>>

CancelRun ==
  /\ ~ctrlC /\ pc \notin Returned /\ ctrlC' = TRUE
  /\ UNCHANGED <<pc, run, leases, world>>

\* The command has returned.
Over == pc \in Returned /\ UNCHANGED vars
-----------------------------------------------------------------------------
Progress ==
  \/ Begin \/ FindNode \/ Requeue \/ Commit \/ CommitFails
  \/ Start \/ Refuse \/ Permanent \/ Succeed \/ ExecFails \/ BackOff \/ StopJob
  \/ ProbeAnswered \/ ProbeSilent \/ NodeIsGone \/ SelfIsOffline
  \/ \E n \in Node : Accepted(n) \/ NotAccepted(n)

Cluster ==
  \/ \E l \in Slot : JobEnds(l) \/ OrphanEnds(l) \/ SweepRead(l) \/ Sweep(l)
  \/ \E n \in Node : Crash(n) \/ DaemonDies(n) \/ Restart(n)
  \/ Offline \/ Online

\* What happens while every path between two machines that are up is whole.
Unbroken == Progress \/ LoseConnection \/ Detach \/ Cluster \/ CancelRun \/ Over

Next == Unbroken \/ \E n \in Node : Cut(n) \/ Heal(n)

Spec == Init /\ [][Next]_vars

UnbrokenSpec == Init /\ [][Unbroken]_vars

\* The connection of the job: its other end is out of reach, or died with its daemon.
Broken == ~Reach(MyNode) \/ leases[mine].job \in {"orphan", "lost"}

\* The submitter's process runs, jobs end, a connection that stays broken is noticed,
\* and networks and machines recover.
Fairness ==
  /\ WF_vars(Progress) /\ WF_vars(Online)
  /\ WF_vars(LoseConnection /\ Broken)
  /\ \A l \in Slot : WF_vars(JobEnds(l))
  /\ \A n \in Node : WF_vars(Restart(n)) /\ WF_vars(Heal(n))
FairSpec == Spec /\ Fairness
-----------------------------------------------------------------------------
\* The submitter, its leases and the network have the shape the code gives them.
TypeOK ==
  /\ pc \in Returned \union Judging \union
       {"start", "find", "try", "commit", "upload", "run", "backoff"}
  /\ round \in 0..(Window + 1) /\ fit \subseteq Node
  /\ order \subseteq fit /\ asked \subseteq fit
  /\ tried \in [Node -> Nat] /\ failures \in Nat
  /\ refused \subseteq Node /\ probes \in 0..ProbeTries
  /\ mine \in 0..MaxLeases
  /\ leases \in [Slot -> Leases \union {Unused}]
  /\ ctrlC \in BOOLEAN /\ offline \in BOOLEAN
  /\ up \subseteq Node /\ cut \subseteq Node
  /\ {due, late, misread} \subseteq SUBSET Slot

\* "One job, one lease, one node": a second copy of the job runs only beside
\* one whose daemon died and left it behind, and of those there are no more
\* than nodes that went down, or beside one whose node answered a probe with
\* something that is no status.  Crashes, sweeps, outages of the submitter,
\* lost answers and reruns make none by themselves.
OneCopy ==
  /\ Cardinality(Running \ misread) <= 1
  /\ Cardinality(Orphans \ misread) <= budget.crash

\* A job that runs under a daemon holds its lease, unless it started while a
\* sweep was under way that had found the lease expired, or its submitter gave
\* it up on an answer that is no status: nothing else frees the slot under it.
LeaseCoversJob ==
  \A l \in Running \ (late \union misread) : leases[l].state = "running"

\* ExecuteWithRetry starts the job at most MaxExecAttempts times, however
\* many nodes refuse the closure, fail to commit or crash, and each start that
\* runs holds its lease, as far as LeaseCoversJob says.
StartsBounded ==
  /\ TypeOK /\ LeaseCoversJob
  /\ Cardinality({l \in Slot : leases[l].job # "none"}) <= MaxExecAttempts

\* Without the exceptions: what sweepExpired and judgeLostConnection do not
\* ensure.
OneCopyAtAll == Cardinality(Running \union Orphans) <= 1
EveryLeaseCovers == \A l \in Running : leases[l].state = "running"

\* "On a node not yet tried where there is one": a lease is taken on a node
\* only when every candidate on which fewer executions failed was asked first.
RetryMovesOn ==
  [][\A n \in Node :
       Accepted(n) => \A m \in fit : tried[m] < tried[n] => m \in asked]_vars

\* The message of runOutcome: a cancelled run has stopped its remote work.
CancelledMeansStopped == pc = "cancelled" => Running = {}
=============================================================================
