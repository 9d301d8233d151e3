------------------------------ MODULE RingPlan ------------------------------
(***************************************************************************)
(* How the command plans a training ring: which nodes may take a rank, how *)
(* fast they measure, which are worth having (ddpplace), who leads and     *)
(* what each rank is told (ddp_plan.go, runDDP).  Nodes are numbered in    *)
(* the order of the daemon's list; node 1 is this machine's own daemon.    *)
(* Memory is not part of it.                                               *)
(***************************************************************************)
EXTENDS Integers, Sequences, FiniteSets, FiniteSetsExt, SequencesExt, KeptElements

CONSTANTS NodeCount,    \* nodes the daemon lists
          Scores,       \* what a probe may measure; 0 is no answer
          GpuCounts,    \* accelerators a node may report
          NominalStep   \* the work of one step the shares are cut from

ASSUME PlanAssumption ==
    /\ NodeCount \in Nat \ {0} /\ NominalStep \in Nat \ {0}
    /\ Scores \subseteq Nat /\ GpuCounts \subseteq Nat

Listed == 1..NodeCount

VARIABLES
    node,       \* [Listed -> [reach, gpus, score]]: own, room (another daemon
                \* of this machine), lan, or fwd (behind a forwarder)
    asked,      \* [gpu, ranks, native, noSelf]: the options of the run
    plan,       \* [ring, weights, route]; a rank is <<node, accelerator>>
    stage       \* "ask", "chosen", "launched", "single" or "nolead"

planVars == <<node, asked, plan, stage>>

NoPlan == [ring |-> <<>>, weights |-> <<>>, route |-> <<>>]

PlanInit ==
    /\ node \in [Listed -> [reach : {"own", "room", "lan", "fwd"}, gpus : GpuCounts, score : Scores]]
    /\ \A n \in Listed : node[n].reach = "own" <=> n = 1
    /\ \A n \in Listed : node[n].reach = "room" => n = 2
    /\ asked \in [gpu : {"any", "prefer", "force"}, ranks : {0} \cup 2..NodeCount,
                  native : BOOLEAN, noSelf : BOOLEAN]
    /\ plan = NoPlan /\ stage = "ask"

-----------------------------------------------------------------------------
\* Which nodes, and how fast

\* ddpForwardedLead: a loopback address that is not this machine means
\* nothing on another rank.
Forwarded(n) == node[n].reach = "fwd"
HasGPU(n)    == node[n].gpus > 0

\* ddpExcluded and the gates of ddpChooseRing.
Candidates ==
    {n \in Listed : /\ ~(asked.native /\ Forwarded(n))
                    /\ ~(asked.noSelf /\ n = 1)
                    /\ asked.gpu = "force" => HasGPU(n)}

\* ddpOneDeviceKind: accelerators when a GPU was preferred and there is one.
OneKind(S) ==
    LET gpu == {n \in S : HasGPU(n)}
    IN  IF asked.gpu # "any" /\ gpu # {} THEN gpu ELSE S

\* probeAll: a node that did not answer counts as an average one; when none
\* answered, advertised cores (here all alike) take the place of scores.
Rates ==
    LET S        == OneKind(Candidates)
        answered == {q \in S : node[q].score > 0}
        mean     == SumFunction([q \in answered |-> node[q].score]) \div Cardinality(answered)
    IN  [n \in S |-> CASE answered = {} -> 1 [] n \in answered -> node[n].score [] OTHER -> mean]

\* ddpSlots: a rank per accelerator, one on a node without.
Slots(n)   == Max({node[n].gpus, 1})
Devices(S) == UNION {{n} \X (0..(Slots(n) - 1)) : n \in S}

\* ddpEligibleRanks: what the run asks for when the user names no number.
Eligible ==
    LET may == {n \in Listed : ~(asked.native /\ Forwarded(n)) /\ (asked.gpu = "force" => HasGPU(n))}
    IN  SumFunction([n \in may |-> Slots(n)])

RanksWanted == IF asked.ranks > 0 THEN Min({asked.ranks, Eligible}) ELSE Eligible

-----------------------------------------------------------------------------
\* Which of them are worth having

\* The elements of S in the order of a strict total order.
InOrder(S, before(_, _)) ==
    [k \in 1..Cardinality(S) |-> CHOOSE d \in S : Cardinality({e \in S : before(e, d)}) = k - 1]

\* admit: fastest first, and the first k that makes k times the slowest rate
\* largest; every device when the user named the number.
Fastest(rate) ==
    InOrder(Devices(DOMAIN rate), LAMBDA d, e :
        \/ rate[d[1]] > rate[e[1]]
        \/ rate[d[1]] = rate[e[1]] /\ (d[1] < e[1] \/ (d[1] = e[1] /\ d[2] < e[2])))

Best(rate, devs) ==
    LET worth(k) == k * rate[devs[k][1]]
    IN  IF asked.ranks > 0 THEN Len(devs)
        ELSE CHOOSE k \in DOMAIN devs :
               /\ \A j \in DOMAIN devs : worth(j) <= worth(k)
               /\ \A j \in 1..(k - 1) : worth(j) < worth(k)

Admit(rate) == LET devs == Fastest(rate) IN {devs[k] : k \in 1..Best(rate, devs)}

\* Select: each admitted device's part of a step in whole items; fastest
\* first, a node's first accelerator before its second, no more than asked
\* for.  ddpChooseRing then moves accelerators to the front.
Select(rate) ==
    LET admitted == Admit(rate)
        total    == SumFunction([e \in admitted |-> rate[e[1]]])
        items(d) == (NominalStep * rate[d[1]]) \div total
        order    == InOrder({d \in admitted : items(d) > 0}, LAMBDA d, e :
                      \/ rate[d[1]] > rate[e[1]]
                      \/ rate[d[1]] = rate[e[1]] /\ (d[2] < e[2] \/ (d[2] = e[2] /\ d[1] < e[1])))
        chosen   == SubSeq(order, 1, Min({Len(order), RanksWanted}))
        ring     == Keep(chosen, {k \in DOMAIN chosen : HasGPU(chosen[k][1])})
                      \o Keep(chosen, {k \in DOMAIN chosen : ~HasGPU(chosen[k][1])})
    IN  [ring |-> ring, weights |-> [k \in DOMAIN ring |-> items(ring[k])], route |-> <<>>]

Choose ==
    /\ stage = "ask"
    /\ LET chosen == IF RanksWanted < 2 \/ Candidates = {} THEN NoPlan ELSE Select(Rates)
       IN  IF Len(chosen.ring) < 2 THEN stage' = "single" /\ UNCHANGED plan
           ELSE stage' = "chosen" /\ plan' = chosen
    /\ UNCHANGED <<node, asked>>

-----------------------------------------------------------------------------
\* Who leads, and what each rank is told

\* ddpLeadIndex: a GPU node every rank can reach, else any such node.
CanLead(S) == {k \in DOMAIN plan.ring : ~Forwarded(plan.ring[k][1]) /\ (S => HasGPU(plan.ring[k][1]))}
LeadIndex ==
    IF CanLead(TRUE) # {} THEN Min(CanLead(TRUE)) ELSE Min(CanLead(FALSE))

\* ddpToFront, the same move for the ring, its slots and its shares.
ToFront(s, k) == <<s[k]>> \o SubSeq(s, 1, k - 1) \o SubSeq(s, k + 1, Len(s))
MoveShares(s, k) == ToFront(s, k)

\* ddpLocalRanks: ranks that share a node other than the lead's average
\* there first.  ddpPeerURLs: otherwise three ranks and more exchange shards,
\* unless one of them sits behind a forwarder.
Together(r, k) == {j \in DOMAIN r : j > 1 /\ r[j][1] = r[k][1] /\ r[j][1] # r[1][1]}
IsLocal(r, k)  == Cardinality(Together(r, k)) >= 2
Butterfly(r)   == Len(r) >= 3 /\ \A k \in DOMAIN r : ~Forwarded(r[k][1])

\* A mutant of the next: a rank looks at itself only.
RouteAlone(r, k) ==
    CASE k > 1 /\ IsLocal(r, k) -> "local" [] Butterfly(r) -> "peers" [] OTHER -> "lead"

Route(r, k) ==
    CASE k > 1 /\ IsLocal(r, k) -> "local"
      [] Butterfly(r) /\ \A j \in DOMAIN r : ~IsLocal(r, j) -> "peers"
      [] OTHER -> "lead"

\* Ranks that share a node get a device each, the others the whole node.
Pinned(r, k) == IF \E j \in DOMAIN r : j # k /\ r[j][1] = r[k][1] THEN {r[k][2]}
                ELSE 0..(Slots(r[k][1]) - 1)

Launch ==
    /\ stage = "chosen"
    /\ IF CanLead(FALSE) = {} THEN stage' = "nolead" /\ UNCHANGED plan
       ELSE LET r == ToFront(plan.ring, LeadIndex)
            IN  /\ stage' = "launched"
                /\ plan' = [ring |-> r, weights |-> MoveShares(plan.weights, LeadIndex),
                            route |-> [k \in DOMAIN r |-> Route(r, k)]]
    /\ UNCHANGED <<node, asked>>

PlanOver == stage \in {"launched", "single", "nolead"} /\ UNCHANGED planVars

PlanNext == Choose \/ Launch \/ PlanOver

PlanSpec == PlanInit /\ [][PlanNext]_planVars

-----------------------------------------------------------------------------
\* A ring that is launched is one that can train.  Its lead is reachable for
\* every rank and has a GPU whenever such a node has.  A faster rank never
\* has the smaller share, so that shares stayed with their ranks when the
\* lead moved.  Either every rank exchanges shards with every other or none
\* does, and ranks that average on a node are all of that node.  Ranks of one
\* node have different devices.  And the ring of a run that named no number
\* is the best there is: no set of devices has more ranks times its slowest
\* rate (admit's claim, checked against every set), as long as a step has an
\* item for each pair of devices, so that no admitted one is left without.
RingCanTrain ==
    stage = "launched" =>
        LET r == plan.ring
            w == plan.weights
            rate == Rates
        IN  /\ Len(w) = Len(r) /\ Len(r) >= 2 /\ Len(r) <= RanksWanted
            /\ ~Forwarded(r[1][1])
            /\ HasGPU(r[1][1]) \/ \A k \in DOMAIN r : HasGPU(r[k][1]) => Forwarded(r[k][1])
            /\ \A k, j \in DOMAIN r : rate[r[k][1]] > rate[r[j][1]] => w[k] >= w[j]
            /\ (\E k \in DOMAIN r : plan.route[k] = "peers") => \A k \in DOMAIN r : plan.route[k] = "peers"
            /\ \A k \in DOMAIN r : plan.route[k] = "local" =>
                 \A j \in DOMAIN r : r[j][1] = r[k][1] => plan.route[j] = "local"
            /\ \A k, j \in DOMAIN r : k # j /\ r[k][1] = r[j][1] => Pinned(r, k) \cap Pinned(r, j) = {}
            /\ asked.ranks = 0 /\ Cardinality(Devices(DOMAIN rate)) * Cardinality(Devices(DOMAIN rate)) <= NominalStep =>
                 \A T \in (SUBSET Devices(DOMAIN rate)) \ {{}} :
                   Cardinality(T) * Min({rate[d[1]] : d \in T})
                     <= Len(r) * Min({rate[r[k][1]] : k \in DOMAIN r})

\* The comment in runDDP that ranks sharing a machine must not share its
\* accelerator: two daemons of one machine violate it (section 4 of the
\* README), because devices are pinned per node.
MachineDevicesApart ==
    stage = "launched" =>
        \A k, j \in DOMAIN plan.ring :
            LET a == plan.ring[k][1]
                b == plan.ring[j][1]
            IN  a # b /\ {node[a].reach, node[b].reach} = {"own", "room"} /\ HasGPU(a) /\ HasGPU(b)
                  => Pinned(plan.ring, k) \cap Pinned(plan.ring, j) = {}
=============================================================================
