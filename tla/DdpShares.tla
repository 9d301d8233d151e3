------------------------------ MODULE DdpShares -----------------------------
(***************************************************************************)
(* Who trains which samples: the lead refits the ranks' shares to what     *)
(* they measure, drops a rank that costs more than it adds, or leaves the  *)
(* run to one rank (ddprebalance.go, ddppacing.go), and at the next epoch  *)
(* every rank cuts the data by those shares (ddp_sampler.py).              *)
(*                                                                         *)
(* Every rank gets the same note before the same boundary (how notes       *)
(* travel is DdpBoard's), so the ranks' shares are one variable.  Shares   *)
(* are weights that need not add up to anything.                           *)
(***************************************************************************)
EXTENDS Integers, Sequences, FiniteSets, FiniteSetsExt, Functions, SequencesExt

CONSTANTS Sharers,      \* ranks of the ring
          DataSizes,    \* samples of a dataset
          BatchSizes,   \* the script's batch
          Seeds,        \* hashes of samples and ranks
          Speeds,       \* samples per time a rank may show; they divide WorkTime
          SyncCosts,    \* time of a sync: multiples of the DiLoCo intervals
          WorkTime,     \* time of Speeds' unit of work
          MaxFit        \* bound: changes of the ring

\* Shares are sent with six decimals: so many ranks can have one each.
Decimals == 1000000

ASSUME ShareAssumption ==
    /\ Sharers \in 1..(2 * Decimals) /\ WorkTime \in Nat
    /\ Speeds \subseteq Nat \ {0}
    /\ UNION {DataSizes, BatchSizes, Seeds, SyncCosts} \subseteq Nat

SharerIds == 0..(Sharers - 1)
Nobody  == Sharers
Equal   == [r \in SharerIds |-> 1]

VARIABLES
    script,   \* the run: its batch, the time of a sync; mode: fixed (--ddp N), auto (the lead may
              \* choose DiLoCo) or free
    ring,     \* the lead: shares (<<>>: none yet), reports, dropped, gone (down),
              \* kept (the one rank left, or Nobody), diloco, changes
    cut,      \* the ranks: shares in force, and those of the next epoch or <<>>
    pass      \* the pass over a loader that begins with this step, or NoPass:
              \* its loader, its sampler, and who owns the i-th sample

shareVars == <<script, ring, cut, pass>>

Loaders == [data : DataSizes, dropLast : BOOLEAN, seed : Seeds]
NoPass  == <<>>

-----------------------------------------------------------------------------
\* The cut of the data (ddp_sampler.py)

\* Python's round: half to even.
HalfEven(a, b) ==
    LET q == a \div b
    IN  IF 2 * (a % b) > b \/ (2 * (a % b) = b /\ q % 2 = 1) THEN q + 1 ELSE q

Having(w) == {r \in SharerIds : w[r] > 0}

\* The batch of a step, over the whole ring.
RingBatch(w, base) == Max({Cardinality(Having(w)), base})

ByWeight(w, all) ==
    [r \in SharerIds |-> IF w[r] > 0 THEN Max({1, HalfEven(w[r] * all, SumFunction(w))}) ELSE 0]

Largest(b) == Min({r \in SharerIds : \A q \in SharerIds : b[q] <= b[r]})

\* The rounding goes to the largest.
Absorb(b, all) == [b EXCEPT ![Largest(b)] = Max({1, @ + all - SumFunction(b)})]

\* _weighted_batches: by share, at least one each.
Batches(w, base) == Absorb(ByWeight(w, RingBatch(w, base)), RingBatch(w, base))

\* Ranks with a larger share than r, or an equal one and a lower number.
Ahead(w, r) == {q \in Having(w) : w[q] > w[r] \/ (w[q] = w[r] /\ q < r)}

\* What r takes of the samples over: those ahead of it take first.
Moved(w, room, extra, r) == Min({room[r], Max({0, extra - SumFunctionOnSet(room, Ahead(w, r))})})

\* No rank takes more than its batch; what is over goes to ranks with room.
Capped(w, b, t) ==
    [r \in SharerIds |-> Min({t[r], b[r]}) +
        Moved(w, [q \in SharerIds |-> Max({0, b[q] - t[q]})],
              SumFunction([q \in SharerIds |-> Max({0, t[q] - b[q]})]), r)]

\* _split_tail: the last, partial, step; with few samples, one each.
SplitTail(w, b, left) ==
    IF left >= Cardinality(Having(w)) THEN Capped(w, b, Batches(w, left))
    ELSE [r \in SharerIds |-> IF w[r] > 0 /\ Cardinality(Ahead(w, r)) < left THEN 1 ELSE 0]

FullSteps(l, b) == l.data \div SumFunction(b)
TailOf(l, b)    == IF l.dropLast THEN 0 ELSE l.data % SumFunction(b)

\* _WeightedShardSampler
SamplerOf(w, b, steps, left, tails) ==
    [shares |-> w, batch |-> b, steps |-> steps, left |-> left,
     quota |-> [r \in SharerIds |-> steps * b[r] + tails[r]],
     pads  |-> {r \in Having(w) : left > 0 /\ tails[r] = 0},
     total |-> steps + (IF left > 0 THEN 1 ELSE 0)]
SamplerWith(l, w, b) == SamplerOf(w, b, FullSteps(l, b), TailOf(l, b), SplitTail(w, b, TailOf(l, b)))
Sampler(l, w) == SamplerWith(l, w, Batches(w, script.batch))

\* The sampler refuses less than one step when the script drops the last one.
Refuses(l, w) == l.dropLast /\ FullSteps(l, Batches(w, script.batch)) < 1

\* _hash_score: stands for a hash of sample and rank, scaled by the share.
Score(l, s, r, w) == w[r] * (1 + (((s + 2) * (r + l.seed) + l.seed * s) % 7))

TopOf(score) ==
    CHOOSE r \in DOMAIN score : \A q \in DOMAIN score : score[q] < score[r] \/ (score[q] = score[r] /\ r <= q)

\* The rank of S a sample prefers.
BestOf(l, s, S, w) == TopOf([r \in S |-> Score(l, s, r, w)])

\* The i-th sample to claim room: the epoch's shuffle.
Order(l, i) == (i + l.seed) % l.data

Owned(own, r) == Cardinality({i \in DOMAIN own : own[i] = r})

\* The next sample goes to the rank it prefers of those with room.
Take(l, own, i, w, open) == Append(own, IF open = {} THEN Nobody ELSE BestOf(l, Order(l, i), open, w))
Claim(l, own, i, w, quota) == Take(l, own, i, w, {r \in Having(w) : Owned(own, r) < quota[r]})

\* All the samples after those that own already has.
Greedy(l, w, quota, own) ==
    LET after[i \in Len(own)..l.data] ==
          IF i = Len(own) THEN own ELSE Claim(l, after[i - 1], i, w, quota)
    IN  after[l.data]

\* The claims that find the rank they like best full.
Beyond(first, quota) == {i \in DOMAIN first : Cardinality({j \in 1..i : first[j] = first[i]}) > quota[first[i]]}

\* How many samples get the rank they like best, before the first finds it full.
FirstFull(first, quota) ==
    Min({SumFunction(quota), Len(first)} \cup {i - 1 : i \in Beyond(first, quota)})

\* _hash_owners: those in one sweep, then one sample after the other.
OwnersFrom(l, w, quota, first) == Greedy(l, w, quota, SubSeq(first, 1, FirstFull(first, quota)))
OwnersAmong(l, w, quota, live) == OwnersFrom(l, w, quota, [i \in 1..l.data |-> BestOf(l, Order(l, i), live, w)])
Owners(l, w, quota) == OwnersAmong(l, w, quota, {r \in Having(w) : quota[r] > 0})

-----------------------------------------------------------------------------
\* The lead's refit (rebalanceFor)

Left == SharerIds \ ring.dropped

\* A report: the samples of a step and the rate; the time of that step.
StepTime(rep) == (rep.samples * WorkTime) \div rep.rate

RateSum(S)  == SumFunctionOnSet([r \in DOMAIN ring.reports |-> ring.reports[r].rate], S)
StepWork    == SumFunction([r \in DOMAIN ring.reports |-> ring.reports[r].samples])
AllReported == DOMAIN ring.reports = SharerIds

\* A mutant of the next: the sync spread over the ranks, not over the hops between them.
SavesPerRank(r) ==
    StepWork * WorkTime * ring.reports[r].rate * Sharers
      < script.sync * RateSum(SharerIds) * RateSum(SharerIds \ {r})

\* worstFreeloader: the slowest, if the ring saves more of the sync than it adds.
Saves(r) ==
    StepWork * WorkTime * ring.reports[r].rate * (Sharers - 1)
      < script.sync * RateSum(SharerIds) * RateSum(SharerIds \ {r})

Slowest == Min({r \in SharerIds : \A q \in SharerIds : ring.reports[q].rate >= ring.reports[r].rate})

Freeloader == IF Sharers > 2 /\ Slowest # 0 /\ Saves(Slowest) THEN Slowest ELSE Nobody

\* shiftedEnough: by a tenth of the data.
Shifted(w, want) ==
    w # <<>> => \E r \in SharerIds :
        LET d == want[r] * SumFunction(w) - w[r] * SumFunction(want)
        IN  10 * Max({d, -d}) >= SumFunction(w) * SumFunction(want)

DilocoEvery(n) == CASE n <= 2 -> 32 [] n = 3 -> 16 [] n = 4 -> 4 [] OTHER -> 0

\* The step of the ring when it syncs every h steps, as its fastest report says.
SplitTime(h) == Min({StepTime(ring.reports[r]) + script.sync \div h : r \in DOMAIN ring.reports})

FastestRanks == {r \in DOMAIN ring.reports :
              \A q \in DOMAIN ring.reports : ring.reports[q].rate <= ring.reports[r].rate}

SoloTime == (StepWork * WorkTime) \div Max({ring.reports[r].rate : r \in DOMAIN ring.reports})

Interval == IF ring.diloco THEN DilocoEvery(Cardinality(Left)) ELSE 1

Measured == Cardinality(Left) >= 2 /\ Cardinality(DOMAIN ring.reports) >= Cardinality(Left)

\* planSolo and planDiLoCo: by a tenth.
SoloPays == Measured /\ SoloTime * 11 < SplitTime(Interval) * 10
DilocoPays ==
    LET n == Cardinality(Left)
    IN  /\ Measured /\ DilocoEvery(n) > 0
        /\ SplitTime(DilocoEvery(n)) * 11 < SplitTime(Interval) * 10
        /\ script.mode = "fixed" \/ SplitTime(DilocoEvery(n)) * 11 < SoloTime * 10

\* Only an exact run left to the lead may become a DiLoCo one.
MayDiloco == script.mode # "free" /\ ~ring.diloco

\* FormatFloat: six decimals.
Sent(w) == [r \in SharerIds |-> (2 * Decimals * w[r] + SumFunction(w)) \div (2 * SumFunction(w))]

Training == ring.kept = Nobody /\ ring.changes < MaxFit

\* A sync: every rank of the ring reports (observe).
Report ==
    LET b == Batches(cut.shares, script.batch)
    IN  /\ Training
        /\ \E v \in [Left -> Speeds] :
             ring' = [ring EXCEPT !.reports =
               [r \in Left \cup DOMAIN @ |-> IF r \in Left THEN [samples |-> b[r], rate |-> v[r]] ELSE @[r]]]
        /\ UNCHANGED <<script, cut>> /\ pass' = NoPass

GoDiloco ==
    /\ Training
    /\ MayDiloco /\ DilocoPays
    /\ ring' = [ring EXCEPT !.diloco = TRUE, !.changes = @ + 1]
    /\ UNCHANGED <<script, cut>> /\ pass' = NoPass

\* soloFor: the fastest rank takes all the data from the next epoch on.
ReleaseTo(k) ==
    /\ Training
    /\ ~(MayDiloco /\ DilocoPays)
    /\ script.mode # "fixed" /\ SoloPays /\ k \in FastestRanks
    /\ ring' = [ring EXCEPT !.kept = k, !.changes = @ + 1, !.shares = [r \in SharerIds |-> IF r = k THEN 1 ELSE 0]]
    /\ cut' = [cut EXCEPT !.next = Sent(ring'.shares)]
    /\ UNCHANGED script /\ pass' = NoPass

NoSolo == ~(MayDiloco /\ DilocoPays) /\ (script.mode = "fixed" \/ ~SoloPays)

\* A freeloader keeps its share: the note says only that it leaves.
DropFreeloader ==
    /\ Training
    /\ AllReported /\ NoSolo
    /\ script.mode # "fixed" /\ Freeloader \in Left
    /\ ring' = [ring EXCEPT !.dropped = @ \cup {Freeloader}, !.changes = @ + 1]
    /\ UNCHANGED <<script, cut>> /\ pass' = NoPass

Reshare ==
    LET want == [r \in SharerIds |-> ring.reports[r].rate]
    IN  /\ Training
        /\ AllReported /\ NoSolo
        /\ Freeloader = Nobody /\ Shifted(ring.shares, want)
        /\ ring' = [ring EXCEPT !.shares = want, !.changes = @ + 1]
        /\ cut' = [cut EXCEPT !.next = Sent(want)]
        /\ UNCHANGED script /\ pass' = NoPass

Without(w, dropped) == [q \in SharerIds |-> IF q \in dropped THEN 0 ELSE w[q]]

\* markRankDownLocked: its share goes to the others.
ShareLost(r) ==
    LET w == IF ring.shares = <<>> THEN Equal ELSE ring.shares
        dropped == ring.dropped \cup {r}
        new == Without(w, dropped)
    IN  /\ ring.changes < MaxFit
        /\ r # 0 /\ r \in Left
        /\ ring' = [ring EXCEPT !.dropped = dropped, !.gone = @ \cup {r}, !.shares = new, !.changes = @ + 1,
                                !.reports = [q \in DOMAIN @ \ {r} |-> @[q]]]
        \* Shares that add up to nothing are refused.
        /\ cut' = [cut EXCEPT !.next = IF Having(new) = {} THEN @ ELSE Sent(new)]
        /\ UNCHANGED script /\ pass' = NoPass

\* A pass begins (_iter_inner): what is pending is taken, and the loader is cut
\* again; if its sampler refuses the new shares it keeps the ones in use.
NextEpoch(l) ==
    /\ cut.next # <<>> \/ ring.changes = 0
    /\ ~Refuses(l, cut.shares)
    /\ \E w \in {IF cut.next = <<>> THEN cut.shares ELSE cut.next} :
         /\ cut' = [shares |-> w, next |-> <<>>]
         /\ \E s \in {Sampler(l, IF Refuses(l, w) THEN cut.shares ELSE w)} :
              pass' = [loader |-> l, sampler |-> s, own |-> Owners(l, s.shares, s.quota)]
    /\ UNCHANGED <<script, ring>>

ShareInit ==
    /\ script \in [batch : BatchSizes, sync : SyncCosts, mode : {"free", "auto", "fixed"}]
    /\ ring = [shares |-> <<>>, reports |-> <<>>, dropped |-> {}, gone |-> {}, kept |-> Nobody,
               diloco |-> FALSE, changes |-> 0]
    \* The command's shares, or equal ones.
    /\ \E w \in {Equal, [r \in SharerIds |-> r + 1], [r \in SharerIds |-> IF r = 0 THEN 6 ELSE 1]} :
         cut = [shares |-> w, next |-> <<>>]
    /\ pass = NoPass

\* The other parts of a training run are looked at.
ShareIdle ==
    /\ script = [batch |-> Max(BatchSizes), sync |-> Max(SyncCosts), mode |-> "free"]
    /\ ring = [shares |-> <<>>, reports |-> <<>>, dropped |-> {}, gone |-> {}, kept |-> Nobody,
               diloco |-> FALSE, changes |-> 0]
    /\ cut = [shares |-> Equal, next |-> <<>>]
    /\ pass = NoPass

\* The bound is met, or the ring is over.
ShareOver == ~Training /\ UNCHANGED shareVars

ShareNext ==
    \/ ShareOver
    \/ Report \/ GoDiloco \/ DropFreeloader \/ Reshare
    \/ \E l \in Loaders : NextEpoch(l)
    \/ \E r \in SharerIds : ReleaseTo(r) \/ ShareLost(r)

ShareSpec == ShareInit /\ [][ShareNext]_shareVars

-----------------------------------------------------------------------------
\* What rounding adds fits the batch of the largest share.
Fits(b, all) == SumFunction(b) - all < b[Largest(b)]
Splits(w, base) == Fits(ByWeight(w, RingBatch(w, base)), RingBatch(w, base))
EvenSplit(s) == Splits(s.shares, script.batch) /\ (s.left < Cardinality(Having(s.shares)) \/ Splits(s.shares, s.left))

\* The samples of rank r in step k, and r's steps.
Real(s, own, r, k) == Max({0, Min({s.batch[r], Owned(own, r) - (k - 1) * s.batch[r]})})
StepsOf(s, own, r) ==
    (Owned(own, r) + (IF r \in s.pads THEN 1 ELSE 0) + s.batch[r] - 1) \div s.batch[r]

\* An epoch is one machine's: the quick assignment is the plain greedy one; and
\* unless the rounding of many small shares is more than the largest takes,
\* every rank takes as many steps, a step has the script's batch, the last one
\* the rest, and every sample is in one.
WholeEpoch(l, s, own) ==
    /\ own = Greedy(l, s.shares, s.quota, <<>>)
    /\ EvenSplit(s) =>
         /\ \A r \in Having(s.shares) : StepsOf(s, own, r) = s.total
         /\ \A k \in 1..s.total :
              SumFunction([r \in Having(s.shares) |-> Real(s, own, r, k)])
                = IF k <= s.steps THEN RingBatch(s.shares, script.batch) ELSE s.left
         /\ ~l.dropLast => Nobody \notin Range(own)
EpochIsWhole == pass # NoPass => WholeEpoch(pass.loader, pass.sampler, pass.own)

\* What a step costs a ring of S: its compute and its part of the sync.
CostOf(S) == [num |-> StepWork * WorkTime * (Sharers - 1) + script.sync * (Cardinality(S) - 1) * RateSum(S),
              den |-> RateSum(S) * (Sharers - 1)]
Cheaper(a, b) == a.num * b.den < b.num * a.den

\* A rank is dropped if and only if the ring is faster without it, and no other
\* rank's leaving gains more; only the lead is never looked at, and a ring of
\* two stays one.
RefitPays ==
    AllReported =>
      IF Freeloader # Nobody
      THEN /\ Cheaper(CostOf(SharerIds \ {Freeloader}), CostOf(SharerIds))
           /\ \A r \in SharerIds : ~Cheaper(CostOf(SharerIds \ {r}), CostOf(SharerIds \ {Freeloader}))
      ELSE \/ Sharers <= 2 \/ Slowest = 0
           \/ \A r \in SharerIds : ~Cheaper(CostOf(SharerIds \ {r}), CostOf(SharerIds))

\* A ring whose size the user chose loses only ranks that died.
FixedStays == script.mode = "fixed" => ring.kept = Nobody /\ ring.dropped = ring.gone
=============================================================================
