------------------------------ MODULE DdpReduce -----------------------------
(***************************************************************************)
(* The arithmetic of the syncs (ddpreduce.go) and the ways a sync travels  *)
(* (ddp_sync.py _reduce_exchange): to the lead, through the daemon of a    *)
(* machine that holds several ranks (ddplocal.go), or cut into shards, the *)
(* k-th averaged by rank k's daemon.                                       *)
(*                                                                         *)
(* A vector has two elements per shard, each pair a block with its own     *)
(* int8 scale.  Numbers are whole multiples of 1/Unit.                     *)
(***************************************************************************)
EXTENDS Integers, Sequences, FiniteSets, FiniteSetsExt, Functions

CONSTANTS Adders,     \* ranks of the ring
          Near,       \* ranks that share a machine other than the lead's
          AddSteps,   \* bound: syncs
          Unit, Levels,   \* Levels: steps of the int8 scale on each side of 0
          MaxLate,    \* bound: shards averaged without a rank that is only late
          Fragile     \* ranks whose machine may be lost

\* Unit is a multiple of every number of samples that a mean divides by; losing
\* the lead's machine ends the ring.
ASSUME ReduceAssumption ==
    /\ Adders \in Nat \ {0} /\ AddSteps \in Nat /\ MaxLate \in Nat
    /\ Levels \in Nat \ {0} /\ Unit \in Nat /\ \A n \in 1..(2 * Adders) : Unit % n = 0
    /\ Near \subseteq 1..(Adders - 1) /\ Fragile \subseteq 1..(Adders - 1)

Adding == 0..(Adders - 1)
Elems  == Adding \X {0, 1}
Block(k) == {k} \X {0, 1}
Zero   == [e \in Elems |-> 0]

\* f, and g where f has nothing.
Overlay(f, g) == [x \in DOMAIN f \cup DOMAIN g |-> IF x \in DOMAIN f THEN f[x] ELSE g[x]]

VARIABLES
    mode,       \* [way, wide, says]: how gradients travel, whether at full
                \* width, whether ranks report their samples
    delta,      \* syncs whose kind is delta (DiLoCo); the others are grads
    pads,       \* ranks without a sample in the last, partial, step
    adder,      \* the ranks: step, payloads, carried error, shards
                \* awaited, and the averages applied
    sums,       \* rounds by daemon, sync and shard; out is <<>> until answered
    near,       \* rounds of the shared machine's daemon, by sync; out as above
    residual,   \* rounding carried by each daemon, kind and shard
    lost,       \* ranks whose machine is gone
    ended       \* the ring was aborted

reduceVars == <<mode, delta, pads, adder, sums, near, residual, lost, ended>>

\* The batch of rank r at step t: its samples (ranks have unequal shares; a pad
\* step has none and repeats one) and their mean gradient.
BatchOf(r, t) ==
    [n |-> IF t = AddSteps /\ r \in pads THEN 0 ELSE 1 + (r % 2),
     g |-> [e \in Elems |-> IF e[2] = 0 THEN (4 - r) * Unit ELSE (e[1] - t) * Unit]]

Kind(t) == IF t \in delta THEN "delta" ELSE "grads"

\* _butterfly_on and _local_on: gradients only.
Sharded(t)  == mode.way = "peers" /\ Kind(t) = "grads"
Nearby(r, t) == mode.way = "local" /\ Kind(t) = "grads" /\ r \in Near
Shards(t)   == IF Sharded(t) THEN Adding ELSE {0}
Covers(t, k) == IF Sharded(t) THEN Block(k) ELSE Elems

Keys == Adding \X (1..AddSteps) \X Adding
NoSum == [sum |-> Zero, weight |-> 0, seen |-> {}, out |-> <<>>]

Round(key)    == IF key \in DOMAIN sums THEN sums[key] ELSE NoSum
Answered(key) == Round(key).out # <<>>
Carried(key)  == IF key \in DOMAIN residual THEN residual[key] ELSE Zero

ReduceFresh ==
    /\ adder = [r \in Adding |-> [t |-> 0, load |-> <<>>, carry |-> Zero,
                                  wait |-> {}, dead |-> {}, got |-> Zero, applied |-> <<>>]]
    /\ sums = <<>> /\ near = <<>> /\ residual = <<>>
    /\ lost = {}

ReduceInit ==
    /\ mode \in {[way |-> y, wide |-> x, says |-> z] :
                   y \in {"hub", "local", "peers"}, x \in BOOLEAN, z \in BOOLEAN}
    /\ ~mode.says => mode.wide /\ mode.way = "hub"
    /\ delta \in {{}, {AddSteps}} /\ pads \in SUBSET Adding
    /\ ~mode.says \/ mode.way = "peers" => pads = {}
    /\ mode.way = "peers" => delta = {}
    /\ ReduceFresh
    /\ ended = FALSE

\* No sync at all.
ReduceIdle ==
    /\ mode = [way |-> "hub", wide |-> TRUE, says |-> TRUE] /\ delta = {} /\ pads = {}
    /\ ReduceFresh
    /\ ended = TRUE

-----------------------------------------------------------------------------
\* The accumulator

Abs(x) == IF x < 0 THEN -x ELSE x

\* sampleWeight: 0 is a rank that did not say, negative a pad step.
SampleWeight(w) == IF w < 0 THEN 0 ELSE IF w = 0 THEN 1 ELSE w

\* addSegmented and addFlat: folded into the running sum.
AddTo(e, cover, load, w) ==
    [e EXCEPT !.sum = [i \in Elems |-> IF i \in cover THEN @[i] + load[i] * w ELSE @[i]],
              !.weight = @ + w]

\* mean: zeros when only pads are in.
MeanOf(e) == [i \in Elems |-> IF e.weight = 0 THEN 0 ELSE e.sum[i] \div e.weight]

\* math.Round: half away from zero.
RoundDiv(a, b) == LET q == (2 * Abs(a) + b) \div (2 * b) IN IF a < 0 THEN -q ELSE q

\* meanResidual and _int8_encode: each block in Levels steps of its largest
\* value; what that rounds off is left for the next time.
Int8(v) ==
    LET peak(k) == Max({Abs(v[i]) : i \in Block(k)})
        out == [i \in Elems |->
                  IF peak(i[1]) = 0 THEN 0
                  ELSE (RoundDiv(v[i] * Levels, peak(i[1])) * peak(i[1])) \div Levels]
    IN  [out |-> out, left |-> [i \in Elems |-> v[i] - out[i]]]

Plus(u, v) == [i \in Elems |-> u[i] + v[i]]

\* finishLocked: a daemon keeps the rounding of each kind and shard apart.
ResidualOf(d, t, k) == <<d, Kind(t), k>>

Finished(e, res, cover) ==
    LET m == MeanOf(e)
        q == IF mode.wide THEN [out |-> m, left |-> res] ELSE Int8(Plus(m, res))
    IN  [round |-> [e EXCEPT !.out = [i \in cover |-> q.out[i]]],
         left  |-> [i \in Elems |-> IF i \in cover THEN q.left[i] ELSE res[i]]]

\* Rounds that have their answers now, and the rounding they leave.
Closed(rounds) ==
    LET f(key)  == Finished(rounds[key], Carried(ResidualOf(key[1], key[2], key[3])), Covers(key[2], key[3]))
        left    == {ResidualOf(key[1], key[2], key[3]) : key \in DOMAIN rounds}
        of(rk)  == CHOOSE key \in DOMAIN rounds : ResidualOf(key[1], key[2], key[3]) = rk
    IN  [sums |-> Overlay([key \in DOMAIN rounds |-> f(key).round], sums),
         residual |-> IF mode.wide THEN residual ELSE Overlay([rk \in left |-> f(of(rk)).left], residual)]

-----------------------------------------------------------------------------
\* A rank

Going(r) == ~ended /\ r \notin lost

\* The samples a rank reports.
Wire(r, t) ==
    LET n == BatchOf(r, t).n
    IN  IF ~mode.says THEN 0 ELSE IF n = 0 THEN -1 ELSE n

\* handleDDPSync: a contribution for some ranks to the rounds at keys; the last
\* one expected closes a round, one that comes late only waits.
Contributed(keys, who, load, w) ==
    LET open   == {key \in keys : ~Answered(key)}
        new    == [key \in open |->
                     [AddTo(Round(key), Covers(key[2], key[3]), load, SampleWeight(w))
                        EXCEPT !.seen = @ \cup who]]
        full   == {key \in open : new[key].seen = Adding}
        closed == Closed([key \in full |-> new[key]])
    IN  [sums |-> Overlay([key \in open \ full |-> new[key]], closed.sums), residual |-> closed.residual]

\* What goes on the wire for a batch: int8 takes the carried error along,
\* except that a pad sends zeros and keeps it.
Packed(r, t) ==
    LET b == BatchOf(r, t)
        q == Int8(Plus(b.g, adder[r].carry))
    IN  CASE mode.wide -> [load |-> b.g, carry |-> adder[r].carry]
          [] ~mode.wide /\ b.n = 0 -> [load |-> Zero, carry |-> adder[r].carry]
          [] OTHER -> [load |-> q.out, carry |-> q.left]

Stepped(r, t, p) ==
    [adder[r] EXCEPT !.t = t, !.load = Append(@, p.load), !.carry = p.carry,
                     !.wait = Shards(t), !.got = Zero]

\* The rank is through with its last sync and computes the next gradient.
Steps(r) == Going(r) /\ adder[r].wait = {} /\ adder[r].t < AddSteps

\* Where shard k of rank r's sync goes: to the lead once rank k's daemon did
\* not answer.
DaemonOf(r, k) == IF k \in adder[r].dead THEN 0 ELSE k

\* The posts of a sync go to daemons that share nothing, each from a thread of
\* its own: they are one step here.
Send(r) ==
    LET t == adder[r].t + 1
        p == Packed(r, t)
        dead == adder[r].dead \cup (IF Sharded(t) THEN lost ELSE {})
        c == Contributed({<<IF k \in dead THEN 0 ELSE k, t, k>> : k \in Shards(t)}, {r}, p.load, Wire(r, t))
    IN  /\ Steps(r) /\ ~Nearby(r, t)
        /\ adder' = [adder EXCEPT ![r] = [Stepped(r, t, p) EXCEPT !.dead = dead]]
        /\ sums' = c.sums /\ residual' = c.residual
        /\ UNCHANGED <<mode, delta, pads, near, lost, ended>>

\* Answers come; with the last shard the average is applied.
Taken(r, t, ks, v) ==
    LET got  == [i \in Elems |-> IF \E k \in ks : i \in Covers(t, k) THEN v[i] ELSE adder[r].got[i]]
        last == adder[r].wait = ks
    IN  adder' = [adder EXCEPT ![r] = [adder[r] EXCEPT
                    !.wait = @ \ ks, !.got = got,
                    !.applied = IF last THEN Append(@, got) ELSE @]]

TakeMeans(r) ==
    LET t  == adder[r].t
        at(k) == <<DaemonOf(r, k), t, k>>
        ks == {k \in adder[r].wait : DaemonOf(r, k) \notin lost /\ Answered(at(k))}
        holder(i) == IF Sharded(t) THEN i[1] ELSE 0
    IN  /\ Going(r) /\ ks # {} /\ ~Nearby(r, t)
        /\ Taken(r, t, ks, [i \in UNION {Covers(t, k) : k \in ks} |-> sums[at(holder(i))].out[i]])
        /\ UNCHANGED <<mode, delta, pads, sums, near, residual, lost, ended>>

\* A shard's daemon does not answer: the lead averages that shard from now on.
ShardLost(r, k) ==
    LET t == adder[r].t
        c == Contributed({<<0, t, k>>}, {r}, adder[r].load[t], Wire(r, t))
    IN  /\ Going(r)
        /\ k \in adder[r].wait /\ Sharded(t) /\ DaemonOf(r, k) \in lost
        /\ adder' = [adder EXCEPT ![r].dead = @ \cup {k}]
        /\ sums' = c.sums /\ residual' = c.residual
        /\ UNCHANGED <<mode, delta, pads, near, lost, ended>>

LoseMachine(r) ==
    /\ r \in Fragile /\ mode.way = "peers"
    /\ Going(r)
    /\ lost' = lost \cup {r}
    /\ UNCHANGED <<mode, delta, pads, adder, sums, near, residual, ended>>

\* completePartial: the round closes short-handed; one live rank alone ends
\* the ring.
CloseShort(key) ==
    LET e == Round(key)
        closed == Closed([x \in {key} |-> e])
    IN  /\ ~ended /\ key[1] \notin lost
        /\ ~Answered(key) /\ e.seen # {}
        /\ \/ mode.way # "peers" \/ Cardinality(e.seen) = 1 \/ Adding \ lost \subseteq e.seen
           \/ Cardinality({k \in DOMAIN sums : Answered(k) /\ ~(Adding \ lost \subseteq sums[k].seen)}) < MaxLate
        /\ IF Cardinality(e.seen) = 1
           THEN ended' = TRUE /\ UNCHANGED <<sums, residual>>
           ELSE /\ sums' = closed.sums /\ residual' = closed.residual
                /\ UNCHANGED ended
        /\ UNCHANGED <<mode, delta, pads, adder, near, lost>>

-----------------------------------------------------------------------------
\* The daemon of a machine with several ranks (handleDDPLocal)

NearRound(t) == IF t \in DOMAIN near THEN near[t]
                ELSE [sum |-> Zero, weight |-> 0, members |-> {}, out |-> <<>>, at |-> "open"]

\* A late rank only waits; with the last one the round goes to the lead.
SendNear(r) ==
    LET t == adder[r].t + 1
        p == Packed(r, t)
        lr == NearRound(t)
        new == [AddTo(lr, Elems, p.load, SampleWeight(Wire(r, t))) EXCEPT !.members = @ \cup {r}]
    IN  /\ Steps(r) /\ Nearby(r, t)
        /\ adder' = [adder EXCEPT ![r] = Stepped(r, t, p)]
        /\ near' = IF lr.at # "open" THEN near
                   ELSE Overlay([s \in {t} |-> [new EXCEPT
                                  !.at = IF new.members = Near THEN "sent" ELSE "open"]], near)
        /\ UNCHANGED <<mode, delta, pads, sums, residual, lost, ended>>

\* The timer: it goes without the ranks that are not in.
NearShort(t) ==
    /\ ~ended
    /\ t \in DOMAIN near /\ near[t].at = "open"
    /\ near' = [near EXCEPT ![t].at = "sent"]
    /\ UNCHANGED <<mode, delta, pads, adder, sums, residual, lost, ended>>

\* The samples a machine's combined contribution reports.
SamplesOf(lr) == IF lr.weight = 0 THEN -1 ELSE lr.weight

\* ddpForwardLocal: the mean of the ranks here, with the machine's own carried
\* rounding, as one contribution for all of them.
Forward(t) ==
    LET lr == near[t]
        up == <<Min(Near), "up", 0>>
        m  == MeanOf(lr)
        q  == IF mode.wide THEN [out |-> m, left |-> Zero] ELSE Int8(Plus(m, Carried(up)))
        c  == Contributed({<<0, t, 0>>}, lr.members, q.out, SamplesOf(lr))
    IN  /\ ~ended
        /\ t \in DOMAIN near /\ lr.at = "sent"
        /\ near' = [near EXCEPT ![t].at = "asked", ![t].out = q.out]
        /\ sums' = c.sums
        /\ residual' = IF mode.wide THEN residual ELSE Overlay([rk \in {up} |-> q.left], c.residual)
        /\ UNCHANGED <<mode, delta, pads, adder, lost, ended>>

\* The lead's answer is every local rank's.
TakeNear(r) ==
    LET t == adder[r].t
    IN  /\ Going(r) /\ 0 \in adder[r].wait /\ Nearby(r, t)
        /\ NearRound(t).at = "asked" /\ Answered(<<0, t, 0>>)
        /\ Taken(r, t, {0}, sums[<<0, t, 0>>].out)
        /\ UNCHANGED <<mode, delta, pads, sums, near, residual, lost, ended>>

ReduceOver ==
    /\ ended \/ \A r \in Adding \ lost : Len(adder[r].applied) = AddSteps
    /\ UNCHANGED reduceVars

ReduceNext ==
    \/ \E r \in Adding : Send(r) \/ TakeMeans(r) \/ SendNear(r) \/ TakeNear(r) \/ LoseMachine(r)
    \/ \E r, k \in Adding : ShardLost(r, k)
    \/ \E key \in Keys : CloseShort(key)
    \/ \E t \in 1..AddSteps : NearShort(t) \/ Forward(t)
    \/ ReduceOver

ReduceSpec == ReduceInit /\ [][ReduceNext]_reduceVars

-----------------------------------------------------------------------------
SumOver(f(_), S) == SumFunctionOnSet([x \in S |-> f(x)], S)

\* At full width an average is what one machine computes over the samples of
\* the ranks in it, whichever way their gradients came, pads counting nothing;
\* the plain average when ranks do not report.
FairMean ==
    mode.wide =>
      \A key \in DOMAIN sums : Answered(key) =>
        LET t == key[2]
            n(r) == IF mode.says THEN BatchOf(r, t).n ELSE 1
            all  == SumOver(n, sums[key].seen)
        IN  \A i \in Covers(t, key[3]) :
              sums[key].out[i] * all
                = SumOver(LAMBDA r : n(r) * BatchOf(r, t).g[i], sums[key].seen)

\* What int8 rounds off is delayed and not lost: over the syncs of a kind, what
\* a rank, a machine's daemon or the daemon of a shard sent, and what it still
\* carries, is what it had to send.
NothingLost ==
    ~mode.wide =>
      /\ \A r \in Adding, i \in Elems :
           LET real == {t \in DOMAIN adder[r].load : BatchOf(r, t).n > 0}
           IN  SumOver(LAMBDA t : adder[r].load[t][i], real) + adder[r].carry[i]
                 = SumOver(LAMBDA t : BatchOf(r, t).g[i], real)
      /\ LET ts == {t \in DOMAIN near : near[t].at = "asked"}
         IN  \A i \in Elems :
               SumOver(LAMBDA t : near[t].out[i], ts) + Carried(<<Min(Near), "up", 0>>)[i]
                 = SumOver(LAMBDA t : MeanOf(near[t])[i], ts)
      /\ \A key \in DOMAIN sums : Answered(key) =>
           LET ks == {other \in DOMAIN sums : /\ Answered(other) /\ Kind(other[2]) = Kind(key[2])
                                              /\ other[1] = key[1] /\ other[3] = key[3]}
           IN  \A i \in Covers(key[2], key[3]) :
                 SumOver(LAMBDA s : sums[s].out[i], ks) + Carried(<<key[1], Kind(key[2]), key[3]>>)[i]
                   = SumOver(LAMBDA s : MeanOf(sums[s])[i], ks)

\* Every rank applies the same average, late ranks and a lost shard's daemon
\* included.
SameAverage ==
    \A r, q \in Adding \ lost : \A t \in DOMAIN adder[r].applied \cap DOMAIN adder[q].applied :
        adder[r].applied[t] = adder[q].applied[t]

\* A step is one machine's, up to the int8 rounding that is carried on.
StepIsExact == FairMean /\ NothingLost /\ SameAverage
=============================================================================
