----------------------------- MODULE RingRanks ------------------------------
(***************************************************************************)
(* The ranks of one training run, as the command that started it sees      *)
(* them: each rank's goroutine, the loop that waits for them               *)
(* (ddpAwaitRanks), and the grower that looks for machines to add          *)
(* (ddpGrower, ddpUpState).  What the lead daemon does is in DdpBoard; here*)
(* it lets a rank join or refuses it.                                      *)
(***************************************************************************)
EXTENDS Integers, FiniteSets, FiniteSetsExt

CONSTANTS Machines,     \* nodes of the cluster, 1..n
          MaxRejoins,   \* ddpMaxRejoins
          MaxRanks,     \* --ddp N, or 0; --ddp 1 runs no ring (run_cmd.go)
          MaxJoins      \* bound: ranks added during the run

ASSUME RanksAssumption ==
    /\ Machines \subseteq Nat \ {0} /\ IsFiniteSet(Machines) /\ {1, 2} \subseteq Machines
    /\ MaxRejoins \in Nat /\ MaxRanks \in Nat \ {1} /\ MaxJoins \in Nat

RankIds == 0..(1 + MaxJoins)

VARIABLES
    job,       \* [RankIds -> [on, join, st, out]]
    cancelled,  \* ranks whose context has been cancelled
    count,      \* len(ranks): the next rank's number
    up,         \* ddpUpState: [running, known, dead, joins]
    grow,       \* the grower: [pc, on, rank]
    wait,       \* ddpAwaitRanks: its variables, and ret
    user        \* the user has cancelled the run

ringVars == <<job, cancelled, count, up, grow, wait, user>>

Outcomes == {"ok", "script", "missed", "released", "lost", "cancelled"}

RanksTypeOK ==
    /\ job \in [RankIds -> [on : Machines \cup {0}, join : BOOLEAN,
                             st : {"none", "running", "over", "told"}, out : Outcomes \cup {"-"}]]
    /\ cancelled \subseteq RankIds /\ count \in Nat /\ user \in BOOLEAN
    /\ up.running \in [Machines -> Nat] /\ up.joins \in [Machines -> 0..MaxRejoins]
    /\ up.dead \in [Machines -> {"no", "fresh", "ready"}]
    /\ grow.pc \in {"tick", "check", "send", "launch", "quit"}

RanksInit ==
    /\ \E second \in {1, 2} :
         /\ job = [r \in RankIds |->
                      [on |-> IF r = 0 THEN 1 ELSE IF r = 1 THEN second ELSE 0, join |-> FALSE,
                       st |-> IF r < 2 THEN "running" ELSE "none", out |-> "-"]]
         /\ up = [running |-> [m \in Machines |-> Cardinality({r \in {0, 1} : m = IF r = 0 THEN 1 ELSE second})],
                  known |-> {1, second}, dead |-> [m \in Machines |-> "no"],
                  joins |-> [m \in Machines |-> 0]]
    /\ cancelled = {} /\ count = 2 /\ user = FALSE
    /\ grow = [pc |-> "tick", on |-> 0, rank |-> 0]
    /\ wait = [running |-> 2, joiners |-> {}, refused |-> {}, fatal |-> "no", stopped |-> FALSE,
               grace |-> FALSE, finished |-> FALSE, err |-> 0, ret |-> "no"]

Running == {r \in RankIds : job[r].st = "running"}
Starting == {r \in RankIds : r < 2}

-----------------------------------------------------------------------------
\* A rank's goroutine (launch)

\* The job ends: the script's own way, because its machine is silent too long
\* (ddpRunWatched), or because it was cancelled.  up.ended counts every end
\* with an error as a death unless the rank was cancelled, which it may be while
\* its job ends in any other way.
RankEnds(r, out) ==
    /\ r \in Running
    /\ out = "cancelled" => r \in cancelled
    /\ out = "missed" => ~job[r].join
    /\ job' = [job EXCEPT ![r].st = "over", ![r].out = out]
    /\ LET died == out # "ok" /\ r \notin cancelled
           m    == job[r].on
       IN  up' = [up EXCEPT !.running[m] = Max({0, @ - 1}),
                            !.dead[m] = IF died THEN "fresh" ELSE @]
    /\ UNCHANGED <<cancelled, count, grow, wait, user>>

-----------------------------------------------------------------------------
\* The loop that waits for the ranks

\* The timer is armed once a rank has finished or only joiners are left.
Armed(w) ==
    [w EXCEPT !.grace = ~w.stopped /\ (@ \/ w.finished \/ (w.joiners # {} /\ w.running = Cardinality(w.joiners)))]

StillGoing == {r \in Starting : job[r].st # "told"}

\* A mutant of the next: only the ranks of the start are stopped.
AbortStart(w, r) ==
    IF w.fatal # "no" THEN wait' = Armed(w) /\ UNCHANGED cancelled
    ELSE /\ wait' = [w EXCEPT !.fatal = IF w.err > 1 THEN "later" ELSE "first", !.stopped = TRUE, !.grace = FALSE]
         /\ cancelled' = cancelled \cup (StillGoing \ {r})

\* abort: everything that still runs is stopped, once.
Abort(w, r) ==
    IF w.fatal # "no" THEN wait' = Armed(w) /\ UNCHANGED cancelled
    ELSE /\ wait' = [w EXCEPT !.fatal = IF w.err > 1 THEN "later" ELSE "first", !.stopped = TRUE, !.grace = FALSE]
         /\ cancelled' = cancelled \cup w.joiners \cup (StillGoing \ {r})

\* What the model remembers of a rank that is accounted for: the ends the
\* verdict may depend on.
Remembered(r, out) == IF out \in {"ok", "script"} \/ (r = 0 /\ out = "lost") THEN out ELSE "-"

\* One result.  A joiner's failure is its join failing; a starting rank's
\* script failing, or the lead's machine lost, ends the run; the others carry
\* on without a rank that died.
Told(r) ==
    /\ wait.ret = "no" /\ job[r].st = "over"
    /\ LET out   == job[r].out
           join  == r \in wait.joiners
           w     == [wait EXCEPT !.running = @ - 1, !.joiners = @ \ {r}]
           f     == [w EXCEPT !.err = Min({@ + 1, 2})]
           quiet == \/ out = "released" /\ ~user
                    \/ w.fatal # "no"
                    \/ (r \in w.refused \/ w.stopped) /\ out = "cancelled" /\ ~user
       IN  CASE out = "ok" -> wait' = Armed([w EXCEPT !.finished = TRUE]) /\ UNCHANGED cancelled
             [] out # "ok" /\ quiet -> wait' = Armed(w) /\ UNCHANGED cancelled
             [] out # "ok" /\ ~quiet /\ (user \/ join \/ out = "missed") ->
                  wait' = Armed(f) /\ UNCHANGED cancelled
             [] OTHER -> IF out = "script" \/ r = 0 THEN Abort(f, r)
                         ELSE wait' = Armed(f) /\ UNCHANGED cancelled
    /\ job' = [job EXCEPT ![r].st = "told", ![r].out = Remembered(r, @)]
    /\ UNCHANGED <<count, up, grow, user>>

\* The grace is over: what is left has missed the ring.
GraceOver ==
    /\ wait.ret = "no" /\ wait.grace /\ wait.running > 0
    /\ wait' = [wait EXCEPT !.grace = FALSE, !.stopped = TRUE]
    /\ cancelled' = cancelled \cup wait.joiners \cup StillGoing
    /\ UNCHANGED <<job, count, up, grow, user>>

Return ==
    /\ wait.ret = "no" /\ wait.running = 0
    /\ wait' = [wait EXCEPT !.ret =
         CASE user -> IF wait.err > 0 THEN "failed" ELSE "ok"
           [] ~user /\ wait.fatal # "no" /\ (wait.fatal = "first" \/ wait.finished) -> "failed"
           [] OTHER -> IF wait.finished THEN "ok" ELSE "failed"]
    /\ UNCHANGED <<job, cancelled, count, up, grow, user>>

UserCancels ==
    /\ ~user /\ wait.ret = "no" /\ user' = TRUE /\ cancelled' = RankIds
    /\ UNCHANGED <<job, count, up, grow, wait>>

-----------------------------------------------------------------------------
\* The grower

WatchOver == wait.ret # "no" \/ user     \* watchCtx

\* A mutant of the next: a machine that runs a rank may take another.
MayShare(m, list) ==
    /\ m \in list /\ up.joins[m] < MaxRejoins
    /\ IF up.dead[m] = "no" THEN m \notin up.known ELSE up.dead[m] = "ready"

\* pick: healthy, running nothing, not given up on, and either back after a
\* death (seen to leave the cluster since, or long enough ago) or new since
\* the start.
MayTake(m, list) ==
    /\ m \in list /\ up.running[m] = 0 /\ up.joins[m] < MaxRejoins
    /\ IF up.dead[m] = "no" THEN m \notin up.known ELSE up.dead[m] = "ready"

\* live: the ranks counted on each machine.
Counted == UNION {{m} \X (1..up.running[m]) : m \in Machines}

\* One look at the node list, which may have any machines as healthy.
Tick(list) ==
    /\ grow.pc = "tick" /\ ~WatchOver /\ count \in RankIds
    /\ MaxRanks > 0 => Cardinality(Counted) < MaxRanks
    /\ up' = [up EXCEPT !.dead = [m \in Machines |->
                IF @[m] = "fresh" /\ m \notin list THEN "ready" ELSE @[m]]]
    /\ LET may == {m \in Machines : MayTake(m, list)}
       IN  grow' = IF may = {} THEN grow ELSE [pc |-> "check", on |-> Min(may), rank |-> count]
    /\ UNCHANGED <<job, cancelled, count, wait, user>>

GrowQuits ==
    /\ grow.pc = "tick" /\ WatchOver /\ grow' = [pc |-> "quit", on |-> 0, rank |-> 0]
    /\ UNCHANGED <<job, cancelled, count, up, wait, user>>

\* The lead daemon has the last word; took counts the attempt before the
\* rank starts.
Check(answer) ==
    /\ grow.pc = "check"
    /\ grow' = IF answer = "send" THEN [grow EXCEPT !.pc = answer] ELSE [pc |-> answer, on |-> 0, rank |-> 0]
    /\ up' = IF answer # "send" THEN up
             ELSE [up EXCEPT !.joins[grow.on] = @ + 1, !.dead[grow.on] = "no"]
    /\ UNCHANGED <<job, cancelled, count, wait, user>>

\* start: the loop hears of the rank before it starts, or the run is over.
Announce ==
    /\ grow.pc = "send" /\ wait.ret = "no" /\ wait.running > 0
    /\ grow' = [grow EXCEPT !.pc = "launch"]
    /\ IF wait.fatal # "no"
       THEN /\ wait' = [wait EXCEPT !.running = @ + 1, !.refused = @ \cup {grow.rank}]
            /\ cancelled' = cancelled \cup {grow.rank}
       ELSE /\ wait' = Armed([wait EXCEPT !.running = @ + 1, !.joiners = @ \cup {grow.rank}])
            /\ UNCHANGED cancelled
    /\ UNCHANGED <<job, count, up, user>>

GiveUpStart ==
    /\ grow.pc = "send" /\ WatchOver /\ grow' = [pc |-> "quit", on |-> 0, rank |-> 0]
    /\ UNCHANGED <<job, cancelled, count, up, wait, user>>

Launched ==
    /\ grow.pc = "launch" /\ grow' = [pc |-> "tick", on |-> 0, rank |-> 0]
    /\ job' = [job EXCEPT ![grow.rank] = [on |-> grow.on, join |-> TRUE, st |-> "running", out |-> "-"]]
    /\ count' = count + 1
    /\ up' = [up EXCEPT !.running[grow.on] = @ + 1, !.known = @ \cup {grow.on}]
    /\ UNCHANGED <<cancelled, wait, user>>

\* ddpRejoinAfter has passed.
RejoinTime(m) ==
    /\ up.dead[m] = "fresh" /\ ~WatchOver /\ up' = [up EXCEPT !.dead[m] = "ready"]
    /\ UNCHANGED <<job, cancelled, count, grow, wait, user>>

AwaitStep == (\E r \in RankIds : Told(r)) \/ Return
RanksOver == wait.ret # "no" /\ grow.pc = "quit" /\ UNCHANGED ringVars

GrowStep  == Announce \/ GiveUpStart \/ Launched

RanksNext ==
    \/ \E r \in RankIds : \E out \in Outcomes : RankEnds(r, out)
    \/ AwaitStep \/ GraceOver \/ UserCancels
    \/ (\E list \in SUBSET Machines : Tick(list)) \/ GrowQuits \/ (\E a \in {"send", "tick", "quit"} : Check(a)) \/ GrowStep
    \/ \E m \in Machines : RejoinTime(m)
    \/ RanksOver

RanksSteps == RanksInit /\ [][RanksNext]_ringVars

-----------------------------------------------------------------------------
\* When the command returns no rank of the run is running or about to, which
\* the loop's counting must get right although ranks are added, die and are
\* stopped meanwhile.  A machine a joining rank is put on runs no other rank
\* (a joiner is not pinned to a device), there are never more ranks than
\* --ddp N, and a run reported as a success had a rank that finished, no
\* starting rank whose script failed, and did not lose its lead.
RunIsAccounted ==
    /\ RanksTypeOK
    /\ wait.ret # "no" => Running = {} /\ grow.pc # "launch" /\ \A r \in RankIds : job[r].st # "over"
    /\ \A r, q \in Running : r # q /\ job[r].on = job[q].on => ~job[r].join /\ ~job[q].join
    /\ MaxRanks > 0 => Cardinality(Running) <= MaxRanks
    /\ wait.ret = "ok" /\ ~user =>
         /\ \E r \in RankIds : job[r].out = "ok"
         /\ \A r \in Starting : job[r].out # "script"
         /\ job[0].out # "lost"

\* A run that has failed ends: everything that still runs is stopped, a rank
\* the grower is about to add too.
FailedRunEnds == wait.fatal # "no" ~> wait.ret # "no"

\* The comments of ddpup.go that a machine is given a new rank when its rank
\* died: one whose rank the ring let go because it is faster without it is
\* given one too (section 4 of the README).
OnlyDeadRejoin ==
    [][\A r \in RankIds : job[r].st = "over" /\ job[r].out = "released" =>
         up.dead[job[r].on] = "no"]_ringVars
=============================================================================
