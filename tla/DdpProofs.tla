----------------------------- MODULE DdpProofs -----------------------------
(***************************************************************************)
(* Theorems about DdpBoard, for any world, epochs, deaths, false losses,   *)
(* refits and a rank that joins: who is left out of an average, which      *)
(* answers stay on the board, and that the ranks the run started with do   *)
(* not drift.  About RingRanks, for any machines, rejoins and --ddp N: the *)
(* run's command returns when every rank is accounted for.  About          *)
(* RingPlan: a ring that is launched can train.                            *)
(*                                                                         *)
(* The invariant of the board, DdpInv, says of each round what may have    *)
(* closed it (RoundOK), of the board that a round is under its sync's key  *)
(* until every live rank took it home or one that took it was dropped      *)
(* (KeyFact, GoneFact), and of each rank that its model is what it took    *)
(* home (RankFact).  These take the state they speak of as parameters, so  *)
(* that a step is a change of a parameter.  The ranks' is RanksInv, the    *)
(* plan's PlanInv.                                                         *)
(***************************************************************************)
EXTENDS DdpBoard, RingRanks, RingPlan, DdpReduce, Recursion

Sizes == {World, World + 1}
Ring(w) == 0..(w - 1)
NamedRanks == Ranks \cup {NoRank}

ShareType == [fit : Nat, out : SUBSET Ranks, world : Sizes]
GrownType == [fit : Nat, out : SUBSET Ranks, world : {World + 1}]
ModelType == Seq(SUBSET Ranks)
SnapType == [model : {m \in ModelType : Len(m) < MaxSeq}, shares : GrownType]
OneRing == {S \in SUBSET ShareType : \A a, b \in S : a = b}
NoteType == [shares : OneRing, drop : NamedRanks, join : {Joiner, NoRank}, from : NamedRanks]
JoinType == [rank : {Joiner, NoRank}, from : NamedRanks, oldWorld : Sizes \cup {0}, snap : SUBSET SnapType]
RunType ==
  [aborted : BOOLEAN, dropped : SUBSET Ranks, lastSeq : 0..MaxSeq, world : Sizes,
   shares : ShareType, reports : SUBSET Ranks, join : JoinType, loading : {Joiner, NoRank},
   note : NoteType, noteSeq : 0..(MaxSeq + 1), noteTold : SUBSET Ranks]
RoundType ==
  [seq : Syncs, world : Sizes, seen : SUBSET Ranks, fetched : SUBSET Ranks,
   status : {"open", "result", "err"}, expected : Nat, partial : Nat,
   held : BOOLEAN, timedOut : BOOLEAN]
PendingType == [shares : ShareType, join : {Joiner, NoRank}, from : NamedRanks]

Syncing == {"got", "step", "wait", "reply", "boundary"}
Coming == {"absent", "ready"}
Ended == {"solo", "done", "dead", "missed", "failed", "stopped", "cancelled", "graced"}
RankType ==
  [pc : Syncing \cup Coming \cup Ended, at : Nat, model : ModelType, shares : ShareType,
   pending : SUBSET PendingType]

Types ==
  /\ run \in RunType /\ rounds \in Seq(RoundType)
  /\ key \in [Syncs -> Nat] /\ rank \in [Ranks -> RankType]

-----------------------------------------------------------------------------
(* The invariant.  In it d is who was dropped, R the rounds, K the keys.    *)

Later(R, j) == {i \in DOMAIN R : i > j /\ R[i].seq = R[j].seq}

\* A round, while it is open and once it is closed: nobody takes home what is
\* open, only a timer closes over a live rank, and nothing follows an error.
RoundOK(d, e) ==
  /\ e.seen # {} /\ e.seen \cup e.fetched \subseteq Ring(e.world)
  /\ e.expected \in 1..e.world /\ e.expected >= Expected(e.world, d)
  /\ e.status = "open" => e.fetched = {}
  /\ e.status = "result" /\ ~e.timedOut => Ring(e.world) \ d \subseteq e.seen

ErrorFact(aborted, R, j) == R[j].status = "err" => aborted /\ Later(R, j) = {}

\* The round under a key is the last of its sync.
KeyFact(R, K, s) ==
  K[s] # 0 => K[s] \in DOMAIN R /\ R[K[s]].seq = s /\ Later(R, K[s]) = {}

\* Every live rank took the answer home, or one that took it was dropped.
TakenHome(d, e) == Ring(e.world) \ d \subseteq e.fetched \/ e.fetched \cap d # {}

ReopenedIn(d, R, s) ==
  \E i, j \in DOMAIN R : i < j /\ R[i].seq = s /\ R[j].seq = s /\ R[i].fetched \cap d # {}

\* Only such a round has left the board.
GoneFact(d, R, K, s) ==
  ReopenedIn(d, R, s) \/
  \A j \in DOMAIN R : R[j].seq = s /\ K[s] # j =>
    R[j].status # "open" /\ (R[j].status = "result" => TakenHome(d, R[j]))

\* Rank r in state x: it waits in a round of its next sync that it has not
\* taken home, and its model is what it took home, in order.
Took(R, r, j) == R[j].status = "result" /\ r \in R[j].fetched

RankFact(r, x, R) ==
  /\ Len(x.model) <= MaxSeq
  /\ x.pc \in Syncing => Len(x.model) < MaxSeq /\ r < x.shares.world
  /\ x.pc \in Coming => r = Joiner /\ x.model = <<>> /\ \A j \in DOMAIN R : r \notin R[j].fetched
  /\ \A p \in x.pending : r < p.shares.world
  /\ x.pc \in {"wait", "reply"} =>
       /\ x.at \in DOMAIN R /\ R[x.at].seq = Len(x.model) + 1
       /\ r < R[x.at].world /\ r \notin R[x.at].fetched
  /\ \A j \in DOMAIN R : Took(R, r, j) =>
       R[j].seq <= Len(x.model) /\ (r # Joiner => x.model[R[j].seq] = R[j].seen)
  /\ r # Joiner => \A i \in 1..Len(x.model) :
       \E j \in DOMAIN R : Took(R, r, j) /\ R[j].seq = i

BoardFact(d, aborted, R, K) ==
  /\ \A j \in DOMAIN R : RoundOK(d, R[j]) /\ ErrorFact(aborted, R, j)
  /\ \A s \in Syncs : KeyFact(R, K, s) /\ GoneFact(d, R, K, s)

DdpInv ==
  /\ Types
  /\ BoardFact(run.dropped, run.aborted, rounds, key)
  /\ \A r \in Ranks : RankFact(r, rank[r], rounds)

-----------------------------------------------------------------------------
(* Counting ranks.                                                          *)

USE DEF Joiner, NoRank, Ranks, Syncs

LEMMA RingIs ==
    ASSUME NEW w \in Sizes
    PROVE  /\ w \in Nat /\ w >= 2 /\ Ring(w) \subseteq Ranks
           /\ IsFiniteSet(Ring(w)) /\ Cardinality(Ring(w)) = w
<1>1. w \in Nat /\ w >= 2 /\ w <= World + 1
  BY DdpAssumption DEF Sizes
<1>2. IsFiniteSet(0..(w - 1)) /\ Cardinality(0..(w - 1)) = w
  BY <1>1, FS_Interval
<1>3. 0..(w - 1) \subseteq 0..World
  BY <1>1, DdpAssumption
<1> QED
  BY <1>1, <1>2, <1>3 DEF Ring

\* What a round waits for is at least the ranks of its ring that are not dropped.
LEMMA ExpectedIs ==
    ASSUME NEW w \in Sizes, NEW d
    PROVE  /\ Expected(w, d) \in 1..w
           /\ Cardinality(Ring(w) \ d) \in Nat /\ Cardinality(Ring(w) \ d) <= Expected(w, d)
<1> DEFINE n == Cardinality(d \cap Ring(w))
<1>1. w \in Nat /\ w >= 2 /\ IsFiniteSet(Ring(w)) /\ Cardinality(Ring(w)) = w
  BY RingIs
<1>2. n \in Nat /\ n <= w
  BY <1>1, FS_Intersection, FS_CardinalityType
<1>3. Ring(w) \cap d = d \cap Ring(w)
  OBVIOUS
<1>4. Cardinality(Ring(w) \ d) = w - n
  BY <1>1, <1>3, FS_Difference
<1>5. Expected(w, d) = IF w - n < 1 THEN 1 ELSE w - n
  BY DEF Expected, Ring
<1> HIDE DEF n
<1> QED
  BY <1>1, <1>2, <1>4, <1>5

\* It falls as ranks are dropped.
LEMMA ExpectedFalls ==
    ASSUME NEW w \in Sizes, NEW d, NEW e, d \subseteq e
    PROVE  Expected(w, e) <= Expected(w, d)
<1> DEFINE n == Cardinality(d \cap Ring(w))
           m == Cardinality(e \cap Ring(w))
<1>1. w \in Nat /\ w >= 2 /\ IsFiniteSet(Ring(w)) /\ Cardinality(Ring(w)) = w
  BY RingIs
<1>2. IsFiniteSet(e \cap Ring(w)) /\ m <= w
  BY <1>1, FS_Intersection
<1>3. (d \cap Ring(w)) \in SUBSET (e \cap Ring(w))
  OBVIOUS
<1>4. m \in Nat /\ n \in Nat /\ n <= m
  BY <1>2, <1>3, FS_Subset, FS_CardinalityType
<1>5. /\ Expected(w, d) = IF w - n < 1 THEN 1 ELSE w - n
      /\ Expected(w, e) = IF w - m < 1 THEN 1 ELSE w - m
  BY DEF Expected, Ring
<1> HIDE DEF n, m
<1> QED
  BY <1>1, <1>4, <1>5

\* As many live ranks of the ring as expected are all of them.
LEMMA Everybody ==
    ASSUME NEW w \in Sizes, NEW d, NEW S, S \subseteq Ring(w) \ d,
           NEW x \in Nat, x >= Expected(w, d), Cardinality(S) >= x
    PROVE  S = Ring(w) \ d
<1> DEFINE L == Ring(w) \ d
<1>1. Expected(w, d) \in Nat /\ Cardinality(L) \in Nat /\ Cardinality(L) <= Expected(w, d)
  BY ExpectedIs, RingIs
<1>2. IsFiniteSet(L)
  BY RingIs, FS_Difference
<1>3. S \in SUBSET L
  OBVIOUS
<1> HIDE DEF L
<1>4. Cardinality(S) \in Nat /\ Cardinality(S) <= Cardinality(L)
  BY <1>2, <1>3, FS_Subset, FS_CardinalityType
<1>5. Cardinality(L) = Cardinality(S)
  BY <1>1, <1>4
<1>6. L = S
  BY <1>2, <1>3, <1>5, FS_Subset
<1> QED
  BY <1>6 DEF L

\* A closed round has everybody live, seen with the drops of the moment.
LEMMA ClosedByAll ==
    ASSUME NEW w \in Sizes, NEW d, NEW S, S \subseteq Ring(w),
           NEW x \in Nat, x >= Expected(w, d), LiveIn(S, d) >= x
    PROVE  Ring(w) \ d \subseteq S
<1>1. S \ d \subseteq Ring(w) \ d
  OBVIOUS
<1>2. Cardinality(S \ d) >= x
  BY DEF LiveIn
<1>3. S \ d = Ring(w) \ d
  BY <1>1, <1>2, Everybody
<1> QED
  BY <1>3

\* lowestLive names a rank, or none.
LEMMA LowestLiveIs ==
    ASSUME NEW d, NEW n \in Sizes \cup {0}
    PROVE  LowestLive(d, n) \in NamedRanks
<1>1. CASE (0..(n - 1)) \subseteq d
  BY <1>1 DEF LowestLive, NamedRanks
<1>0. n = 0 => 0..(n - 1) = {}
  OBVIOUS
<1>2. CASE ~((0..(n - 1)) \subseteq d)
  <2> DEFINE L == (0..(n - 1)) \ d
  <2>1. n \in Nat /\ L \subseteq Nat /\ L # {} /\ L \subseteq Ranks
    BY <1>0, <1>2, RingIs DEF Ring
  <2> DEFINE Less == OpToRel(<, Nat)
  <2>a. \A y, x \in Nat : y < x => <<y, x>> \in Less
    BY DEF OpToRel
  <2> HIDE DEF Less
  <2>b. IsWellFoundedOn(Less, Nat)
    BY NatLessThanWellFounded DEF Less
  <2>2. PICK k \in L : \A i \in L : ~(<<i, k>> \in Less)
    <3> HIDE DEF L
    <3> QED
      BY <2>1, <2>b, WFMin
  <2>3. ASSUME NEW i \in L PROVE k <= i
    <3> HIDE DEF L
    <3>1. i \in Nat /\ k \in Nat
      BY <2>1
    <3>2. ~(i < k)
      BY <2>2, <2>a, <3>1
    <3> QED
      BY <3>1, <3>2
  <2>4. LowestLive(d, n) = CHOOSE m \in L : \A i \in L : m <= i
    BY <1>2 DEF LowestLive
  <2> HIDE DEF L
  <2>5. LowestLive(d, n) \in L
    BY <2>2, <2>3, <2>4
  <2> QED
    BY <2>1, <2>5 DEF NamedRanks
<1> QED
  BY <1>1, <1>2

-----------------------------------------------------------------------------
(* The run's record.                                                        *)

\* What a step may do to the run: ranks are dropped, for good.
RunGrows(r, q) ==
    /\ q \in RunType
    /\ r.dropped \subseteq q.dropped
    /\ q.aborted = r.aborted

LEMMA GrowsOn ==
    ASSUME NEW r, NEW q, NEW p, RunGrows(r, q), RunGrows(q, p)
    PROVE  RunGrows(r, p)
BY DEF RunGrows

LEMMA NoJoinType == NoJoin \in JoinType /\ NoNote \in NoteType
<1>1. NoRank \in NamedRanks
  BY DEF NamedRanks
<1>2. {} \in SUBSET SnapType /\ {} \in OneRing
  BY DEF OneRing
<1> QED
  BY <1>1, <1>2 DEF NoJoin, NoNote, JoinType, NoteType

LEMMA RingNoteType ==
    ASSUME NEW r \in RunType
    PROVE  RingNote(r) \in NoteType
<1> DEFINE open == r.join.rank # NoRank /\ r.join.snap = {}
           j == IF open THEN r.join.rank ELSE NoRank
           f == IF open THEN r.join.from ELSE NoRank
<1>1. r.shares \in ShareType /\ r.join \in JoinType
  BY DEF RunType
<1>2. j \in {Joiner, NoRank} /\ f \in NamedRanks /\ NoRank \in NamedRanks
  BY <1>1 DEF JoinType, NamedRanks
<1>3. RingNote(r) = [shares |-> {r.shares}, drop |-> NoRank, join |-> j, from |-> f]
  BY DEF RingNote
<1> HIDE DEF j, f
<1>4. {r.shares} \in OneRing
  BY <1>1 DEF OneRing
<1> QED
  BY <1>1, <1>2, <1>3, <1>4 DEF NoteType

LEMMA PublishIs ==
    ASSUME NEW r \in RunType, NEW s \in 0..(MaxSeq + 1), NEW n \in NoteType
    PROVE  /\ Publish(r, s, n) \in RunType
           /\ Publish(r, s, n).dropped = r.dropped /\ Publish(r, s, n).aborted = r.aborted
           /\ Publish(r, s, n).join = r.join /\ Publish(r, s, n).lastSeq = r.lastSeq
BY DEF Publish, RunType

\* The share of ranks that left goes to the others.
LEMMA SharesOut ==
    ASSUME NEW s \in ShareType, NEW d, d \subseteq Ranks
    PROVE  LeaveOut(s, d) \in ShareType
BY DEF LeaveOut, ShareType

LEMMA RefittedType ==
    ASSUME NEW s \in ShareType
    PROVE  Refitted(s) \in ShareType
<1>1. s.fit + 1 \in Nat /\ {} \in SUBSET Ranks
  BY DEF ShareType
<1> QED
  BY <1>1 DEF Refitted, ShareType

LEMMA TakeoverIs ==
    ASSUME NEW r \in RunType, NEW d, NEW j, j = r.join
    PROVE  Takeover(j, d) \in JoinType /\ Takeover(j, d).snap = j.snap
<1>1. j \in JoinType
  BY DEF RunType
<1>2. LowestLive(d, j.oldWorld) \in NamedRanks
  BY <1>1, LowestLiveIs DEF JoinType
<1> QED
  BY <1>1, <1>2 DEF Takeover, JoinType

\* markRankDownLocked.
LEMMA DownRunIs ==
    ASSUME NEW r \in RunType, NEW d \in Ranks
    PROVE  RunGrows(r, DownRun(r, d)) /\ DownRun(r, d).dropped = r.dropped \cup {d}
<1> DEFINE gone == r.dropped \cup {d}
           r1 == [r EXCEPT !.dropped = gone]
           sh == LeaveOut(r.shares, gone)
           lo == IF r.loading = d THEN NoRank ELSE r.loading
           jo == IF r.join.rank = d THEN NoJoin
                 ELSE IF r.join.from = d THEN Takeover(r.join, gone) ELSE r.join
           re == r.reports \ {d}
           r2 == [r1 EXCEPT !.shares = sh, !.reports = re, !.loading = lo, !.join = jo]
<1>1. r.shares \in ShareType /\ r.join \in JoinType /\ gone \subseteq Ranks
  BY DEF RunType
<1>2. sh \in ShareType
  BY <1>1, SharesOut
<1>3. jo \in JoinType
  <2>1. Takeover(r.join, gone) \in JoinType
    BY TakeoverIs
  <2>2. NoJoin \in JoinType
    BY NoJoinType
  <2> QED
    BY <1>1, <2>1, <2>2
<1>4. lo \in {Joiner, NoRank} /\ re \subseteq Ranks
  BY DEF RunType
<1>5. r1 \in RunType /\ r1.dropped = gone /\ r1.aborted = r.aborted /\ r1.join = r.join
  BY <1>1 DEF RunType
<1> HIDE DEF sh, jo, lo, re, gone
<1>6. /\ r2 \in RunType /\ r2.dropped = gone /\ r2.aborted = r.aborted /\ r2.join = jo
      /\ r2.lastSeq \in 0..MaxSeq
  BY <1>1, <1>2, <1>3, <1>4, <1>5 DEF RunType
<1> DEFINE r3 == Publish(r2, r2.lastSeq + 1, RingNote(r2))
<1>7. r3 \in RunType /\ r3.dropped = gone /\ r3.aborted = r.aborted /\ r3.join = jo
  <2> HIDE DEF r2
  <2>1. r2.lastSeq + 1 \in 0..(MaxSeq + 1)
    BY <1>6, DdpAssumption
  <2>2. RingNote(r2) \in NoteType
    BY <1>6, RingNoteType
  <2> QED
    BY <1>6, <2>1, <2>2, PublishIs
<1>8. DownRun(r, d) = IF d \in r.dropped THEN r ELSE IF d >= r.world THEN r1 ELSE r3
  BY DEF DownRun, sh, lo, jo, re, gone
<1>9. d \in r.dropped => gone = r.dropped
  BY DEF gone
<1>10. r.dropped \subseteq gone
  BY DEF gone
<1> HIDE DEF r1, r2, r3
<1>11. DownRun(r, d).dropped = gone
  BY <1>5, <1>7, <1>8, <1>9
<1>12. RunGrows(r, DownRun(r, d))
  BY <1>3, <1>5, <1>7, <1>8, <1>10 DEF RunGrows
<1> QED
  BY <1>11, <1>12 DEF gone

\* dropMissedStart.
LEMMA MissedStartIs ==
    ASSUME run \in RunType, NEW e, e.world \in Sizes
    PROVE  RunGrows(run, DropMissedStart(e))
<1> DEFINE missed == (0..(e.world - 1)) \ (e.seen \cup run.dropped)
           gone == run.dropped \cup missed
           r1 == [run EXCEPT !.dropped = gone]
           sh == LeaveOut(run.shares, gone)
           jo == IF run.join.rank # NoRank /\ run.join.from \in missed
                   THEN Takeover(run.join, gone) ELSE run.join
           r2 == [r1 EXCEPT !.shares = sh, !.join = jo]
<1>1. run.shares \in ShareType /\ run.join \in JoinType /\ gone \subseteq Ranks
  BY RingIs DEF RunType, Ring
<1>2. sh \in ShareType
  BY <1>1, SharesOut
<1>3. jo \in JoinType
  <2>1. Takeover(run.join, gone) \in JoinType
    BY TakeoverIs
  <2> QED
    BY <1>1, <2>1
<1>4. run.dropped \subseteq gone
  OBVIOUS
<1> HIDE DEF sh, jo, gone, missed
<1>5. /\ r2 \in RunType /\ r2.dropped = gone /\ r2.aborted = run.aborted /\ r2.join = jo
      /\ r2.lastSeq \in 0..MaxSeq
  BY <1>1, <1>2, <1>3 DEF RunType
<1> DEFINE r3 == Publish(r2, r2.lastSeq + 1, RingNote(r2))
<1>6. r3 \in RunType /\ r3.dropped = gone /\ r3.aborted = run.aborted /\ r3.join = jo
  <2> HIDE DEF r2
  <2>1. r2.lastSeq + 1 \in 0..(MaxSeq + 1)
    BY <1>5, DdpAssumption
  <2>2. RingNote(r2) \in NoteType
    BY <1>5, RingNoteType
  <2> QED
    BY <1>5, <2>1, <2>2, PublishIs
<1>7. DropMissedStart(e) = IF missed = {} THEN run ELSE r3
  BY DEF DropMissedStart, sh, jo, gone, missed
<1> HIDE DEF r2, r3
<1>8. RunGrows(run, run)
  BY DEF RunGrows
<1>9. RunGrows(run, r3)
  BY <1>3, <1>4, <1>6 DEF RunGrows
<1> QED
  BY <1>7, <1>8, <1>9

\* rebalanceFor and observe.
LEMMA RebalancedIs ==
    ASSUME NEW r \in RunType, NEW s \in Syncs, NEW q \in Rebalanced(r, s)
    PROVE  RunGrows(r, q)
<1>0. s \in 0..(MaxSeq + 1)
  BY DdpAssumption
<1>1. CASE q = r
  BY <1>1 DEF RunGrows
<1> DEFINE sh == Refitted(r.shares)
           fit == [r EXCEPT !.shares = sh]
<1>2. CASE q = Publish(fit, s, RingNote(fit))
  <2>0. r.shares \in ShareType
    BY DEF RunType
  <2>1. sh \in ShareType
    BY <2>0, RefittedType
  <2> HIDE DEF sh
  <2>2. fit \in RunType /\ fit.dropped = r.dropped /\ fit.aborted = r.aborted /\ fit.join = r.join
    BY <2>1 DEF RunType
  <2> HIDE DEF fit
  <2>3. RingNote(fit) \in NoteType
    BY <2>2, RingNoteType
  <2>4. /\ q \in RunType /\ q.dropped = fit.dropped /\ q.aborted = fit.aborted /\ q.join = fit.join
    BY <1>0, <1>2, <2>2, <2>3, PublishIs
  <2> QED
    BY <2>2, <2>4 DEF RunGrows
<1>3. ASSUME NEW d \in 1..(r.world - 1),
             q = Publish([r EXCEPT !.dropped = @ \cup {d}], s, [NoNote EXCEPT !.drop = d])
      PROVE  RunGrows(r, q)
  <2> DEFINE p == [r EXCEPT !.dropped = @ \cup {d}]
             n == [NoNote EXCEPT !.drop = d]
  <2>1. d \in Ranks
    BY RingIs DEF RunType, Ring
  <2>2. /\ p \in RunType /\ p.dropped = r.dropped \cup {d} /\ p.aborted = r.aborted
        /\ p.join = r.join
    BY <2>1 DEF RunType
  <2>3. n \in NoteType
    BY <2>1, NoJoinType DEF NoNote, NoteType, NamedRanks
  <2> HIDE DEF p, n
  <2>a. q = Publish(p, s, n)
    BY <1>3 DEF p, n
  <2>4. /\ q \in RunType /\ q.dropped = p.dropped /\ q.aborted = p.aborted /\ q.join = p.join
    BY <1>0, <2>a, <2>2, <2>3, PublishIs
  <2> QED
    BY <2>2, <2>4 DEF RunGrows
<1> QED
  BY <1>1, <1>2, <1>3 DEF Rebalanced

LEMMA NoticedIs ==
    ASSUME run \in RunType, NEW r \in Ranks, NEW s \in Syncs, NEW w \in Sizes,
           NEW q \in Noticed(r, s, w)
    PROVE  RunGrows(run, q)
<1> DEFINE r1 == [run EXCEPT !.world = IF w > @ THEN w ELSE @,
                             !.loading = IF @ = r THEN NoRank ELSE @]
           r0 == [r1 EXCEPT !.lastSeq = s]
<1>1. /\ r1 \in RunType /\ r1.dropped = run.dropped /\ r1.aborted = run.aborted
      /\ r1.join = run.join
  BY DEF RunType
<1> HIDE DEF r1
<1>2. /\ r0 \in RunType /\ r0.dropped = run.dropped /\ r0.aborted = run.aborted
      /\ r0.join = run.join
  <2>1. s \in 0..MaxSeq
    BY DdpAssumption
  <2> QED
    BY <1>1, <2>1 DEF RunType
<1> HIDE DEF r0
<1>3. RunGrows(run, r1) /\ RunGrows(run, r0)
  BY <1>1, <1>2 DEF RunGrows
<1>4. PICK r2 \in IF s > run.lastSeq THEN Rebalanced(r0, s) ELSE {r1} : q = Observed(r2, r, s)
  BY DEF Noticed, r0, r1
<1>5. RunGrows(run, r2)
  BY <1>2, <1>3, <1>4, RebalancedIs, GrowsOn
<1>6. RunGrows(r2, Observed(r2, r, s))
  <2>1. r2 \in RunType
    BY <1>5 DEF RunGrows
  <2>2. CASE s = 1 \/ r \in r2.dropped
    BY <2>1, <2>2 DEF Observed, RunGrows
  <2>3. CASE ~(s = 1 \/ r \in r2.dropped)
    <3> DEFINE p == [r2 EXCEPT !.reports = @ \cup {r}]
    <3>1. p \in RunType /\ p.dropped = r2.dropped /\ p.aborted = r2.aborted /\ p.join = r2.join
      BY <2>1 DEF RunType
    <3>2. Observed(r2, r, s) = p
      BY <2>3 DEF Observed
    <3> HIDE DEF p
    <3> QED
      BY <3>1, <3>2 DEF RunGrows
  <2> QED
    BY <2>2, <2>3
<1> QED
  BY <1>4, <1>5, <1>6, GrowsOn

-----------------------------------------------------------------------------
(* The board: what a step may do to its rounds.                             *)

\* Rounds stay, with what was taken home and what closed them.
Grown(R, Q) ==
  /\ Len(R) <= Len(Q)
  /\ \A j \in DOMAIN R :
       /\ Q[j].seq = R[j].seq /\ Q[j].world = R[j].world /\ R[j].fetched \subseteq Q[j].fetched
       /\ R[j].status # "open" => Q[j].status = R[j].status /\ Q[j].seen = R[j].seen

\* Rank r takes no answer home.
NotTaking(R, Q, r) ==
  \A j \in DOMAIN Q : r \in Q[j].fetched => j \in DOMAIN R /\ r \in R[j].fetched

\* Nobody does.
Untaken(R, Q) ==
  /\ \A j \in DOMAIN R : Q[j].fetched = R[j].fetched
  /\ \A j \in DOMAIN Q \ DOMAIN R : Q[j].fetched = {}

LEMMA RoundsAre ==
    ASSUME NEW R \in Seq(RoundType)
    PROVE  /\ DOMAIN R = 1..Len(R) /\ Len(R) \in Nat
           /\ \A j \in DOMAIN R : R[j] \in RoundType
<1>1. DOMAIN R = 1..Len(R) /\ Len(R) \in Nat
  OBVIOUS
<1>2. ASSUME NEW j \in DOMAIN R PROVE R[j] \in RoundType
  BY <1>1, ElementOfSeq
<1> QED
  BY <1>1, <1>2

LEMMA UntakenIs ==
    ASSUME NEW R \in Seq(RoundType), NEW Q \in Seq(RoundType), Untaken(R, Q), NEW r
    PROVE  NotTaking(R, Q, r)
BY DEF Untaken, NotTaking

LEMMA ReopenedStays ==
    ASSUME NEW R \in Seq(RoundType), NEW Q \in Seq(RoundType), Grown(R, Q),
           NEW d, NEW e, d \subseteq e, NEW s, ReopenedIn(d, R, s)
    PROVE  ReopenedIn(e, Q, s)
<1>1. PICK i, j \in DOMAIN R : i < j /\ R[i].seq = s /\ R[j].seq = s /\ R[i].fetched \cap d # {}
  BY DEF ReopenedIn
<1>2. i \in DOMAIN Q /\ j \in DOMAIN Q
  BY <1>1, RoundsAre DEF Grown
<1>3. Q[i].seq = s /\ Q[j].seq = s /\ Q[i].fetched \cap e # {}
  BY <1>1 DEF Grown
<1> QED
  BY <1>1, <1>2, <1>3 DEF ReopenedIn

\* A rank that takes nothing home is where it was.
LEMMA RankStays ==
    ASSUME NEW R \in Seq(RoundType), NEW Q \in Seq(RoundType), Grown(R, Q),
           NEW r \in Ranks, NotTaking(R, Q, r), NEW x, RankFact(r, x, R),
           \A j \in DOMAIN R : R[j].status = "open" => R[j].fetched = {}
    PROVE  RankFact(r, x, Q)
<1>1. \A j \in DOMAIN R : j \in DOMAIN Q
  BY RoundsAre DEF Grown
<1>2. ASSUME NEW j \in DOMAIN Q, Took(Q, r, j)
      PROVE  j \in DOMAIN R /\ Took(R, r, j) /\ Q[j].seq = R[j].seq /\ Q[j].seen = R[j].seen
  <2>1. j \in DOMAIN R /\ r \in R[j].fetched
    BY <1>2 DEF Took, NotTaking
  <2>2. R[j].status # "open"
    BY <2>1
  <2> QED
    BY <1>2, <2>1, <2>2 DEF Took, Grown
<1>3. ASSUME NEW j \in DOMAIN R, Took(R, r, j)
      PROVE  j \in DOMAIN Q /\ Took(Q, r, j) /\ Q[j].seq = R[j].seq
  <2>1. R[j].status # "open"
    BY <1>3 DEF Took
  <2> QED
    BY <1>1, <1>3, <2>1 DEF Took, Grown
<1>4. x.pc \in Coming => \A j \in DOMAIN Q : r \notin Q[j].fetched
  BY DEF RankFact, NotTaking
<1>5. x.pc \in {"wait", "reply"} =>
        /\ x.at \in DOMAIN Q /\ Q[x.at].seq = Len(x.model) + 1
        /\ r < Q[x.at].world /\ r \notin Q[x.at].fetched
  BY <1>1 DEF RankFact, Grown, NotTaking
<1>6. \A j \in DOMAIN Q : Took(Q, r, j) =>
        Q[j].seq <= Len(x.model) /\ (r # Joiner => x.model[Q[j].seq] = Q[j].seen)
  BY <1>2 DEF RankFact
<1>7. r # Joiner => \A i \in 1..Len(x.model) :
        \E j \in DOMAIN Q : Took(Q, r, j) /\ Q[j].seq = i
  <2> SUFFICES ASSUME r # Joiner, NEW i \in 1..Len(x.model)
               PROVE  \E j \in DOMAIN Q : Took(Q, r, j) /\ Q[j].seq = i
    OBVIOUS
  <2>1. PICK j \in DOMAIN R : Took(R, r, j) /\ R[j].seq = i
    BY DEF RankFact
  <2> QED
    BY <1>3, <2>1
<1> QED
  BY <1>4, <1>5, <1>6, <1>7 DEF RankFact

\* Nor is one that no longer syncs, or the rest of whose state stays.
LEMMA RankStops ==
    ASSUME NEW R, NEW r, NEW x, NEW y, RankFact(r, x, R),
           y.model = x.model, y.pending = x.pending, y.pc \in Ended
    PROVE  RankFact(r, y, R)
<1>1. y.pc \notin Syncing /\ y.pc \notin Coming /\ y.pc \notin {"wait", "reply"}
  BY DEF Ended, Syncing, Coming
<1> QED
  BY <1>1 DEF RankFact

-----------------------------------------------------------------------------
(* The board: what keeps its invariant.                                     *)

LEMMA DropsRound ==
    ASSUME NEW d, NEW e, d \subseteq e, NEW x \in RoundType, RoundOK(d, x)
    PROVE  RoundOK(e, x)
<1>1. x.world \in Sizes /\ x.expected \in Nat
  BY DEF RoundType
<1>2. /\ Expected(x.world, e) <= Expected(x.world, d)
      /\ Expected(x.world, e) \in Nat /\ Expected(x.world, d) \in Nat
  <2>1. /\ Expected(x.world, e) \in 1..x.world /\ Expected(x.world, d) \in 1..x.world
        /\ x.world \in Nat
    BY <1>1, ExpectedIs, RingIs
  <2> QED
    BY <1>1, <2>1, ExpectedFalls
<1>3. x.expected >= Expected(x.world, d)
  BY DEF RoundOK
<1>4. x.expected >= Expected(x.world, e)
  BY <1>1, <1>2, <1>3
<1> QED
  BY <1>4 DEF RoundOK

LEMMA LaterSame ==
    ASSUME NEW R \in Seq(RoundType), NEW Q \in Seq(RoundType), Len(Q) = Len(R),
           \A j \in DOMAIN R : Q[j].seq = R[j].seq, NEW j \in DOMAIN R
    PROVE  Later(Q, j) = Later(R, j)
BY RoundsAre DEF Later

\* What has left the board stays as it is, but for who took it home.
LEMMA GoneStays ==
    ASSUME NEW R \in Seq(RoundType), NEW Q \in Seq(RoundType), Grown(R, Q),
           NEW K, NEW L, NEW d, NEW e, d \subseteq e, NEW s, GoneFact(d, R, K, s),
           \A j \in DOMAIN Q : Q[j].seq = s /\ L[s] # j =>
             j \in DOMAIN R /\ K[s] # j /\ Q[j].status = R[j].status
    PROVE  GoneFact(e, Q, L, s)
<1>1. CASE ReopenedIn(d, R, s)
  BY <1>1, ReopenedStays DEF GoneFact
<1>2. CASE ~ReopenedIn(d, R, s)
  <2> SUFFICES ASSUME NEW j \in DOMAIN Q, Q[j].seq = s, L[s] # j
               PROVE  Q[j].status # "open" /\ (Q[j].status = "result" => TakenHome(e, Q[j]))
    BY DEF GoneFact
  <2>1. /\ j \in DOMAIN R /\ K[s] # j /\ Q[j].status = R[j].status
        /\ Q[j].seq = R[j].seq /\ Q[j].world = R[j].world /\ R[j].fetched \subseteq Q[j].fetched
    BY DEF Grown
  <2>2. R[j].status # "open" /\ (R[j].status = "result" => TakenHome(d, R[j]))
    BY <1>2, <2>1 DEF GoneFact
  <2>3. TakenHome(d, R[j]) => TakenHome(e, Q[j])
    BY <2>1 DEF TakenHome
  <2> QED
    BY <2>1, <2>2, <2>3
<1> QED
  BY <1>1, <1>2

\* Rounds under their key change, the others do not.
KeyedChange(R, Q, K, e, b) ==
  \A j \in DOMAIN R :
    \/ Q[j] = R[j]
    \/ K[R[j].seq] = j /\ RoundOK(e, Q[j]) /\ (Q[j].status = "err" => b)

LEMMA BoardStays ==
    ASSUME NEW R \in Seq(RoundType), NEW Q \in Seq(RoundType), Grown(R, Q), Len(Q) = Len(R),
           NEW K \in [Syncs -> Nat], NEW d, NEW e, d \subseteq e, NEW a, NEW b, a => b,
           BoardFact(d, a, R, K), KeyedChange(R, Q, K, e, b)
    PROVE  BoardFact(e, b, Q, K)
<1>0. \A j \in DOMAIN R :
        \/ Q[j] = R[j]
        \/ K[R[j].seq] = j /\ RoundOK(e, Q[j]) /\ (Q[j].status = "err" => b)
  BY DEF KeyedChange
<1>1. DOMAIN Q = DOMAIN R /\ \A j \in DOMAIN R : R[j] \in RoundType
  BY RoundsAre
<1>2. ASSUME NEW j \in DOMAIN R PROVE Later(Q, j) = Later(R, j)
  BY LaterSame DEF Grown
<1>3. ASSUME NEW j \in DOMAIN Q PROVE RoundOK(e, Q[j])
  <2>1. CASE Q[j] = R[j]
    BY <1>1, <2>1, DropsRound DEF BoardFact
  <2> QED
    BY <1>0, <1>1, <2>1
<1>4. ASSUME NEW j \in DOMAIN Q PROVE ErrorFact(b, Q, j)
  <2>1. CASE Q[j] = R[j]
    BY <1>1, <1>2, <2>1 DEF BoardFact, ErrorFact
  <2>2. CASE K[R[j].seq] = j /\ (Q[j].status = "err" => b)
    <3>1. R[j].seq \in Syncs
      BY <1>1 DEF RoundType
    <3>2. K[R[j].seq] # 0
      BY <1>1, <2>2, RoundsAre
    <3>3. Later(R, j) = {}
      BY <2>2, <3>1, <3>2 DEF BoardFact, KeyFact
    <3> QED
      BY <1>1, <1>2, <2>2, <3>3 DEF ErrorFact
  <2> QED
    BY <1>0, <1>1, <2>1, <2>2
<1>5. ASSUME NEW s \in Syncs PROVE KeyFact(Q, K, s)
  BY <1>1, <1>2 DEF BoardFact, KeyFact, Grown
<1>6. ASSUME NEW s \in Syncs PROVE GoneFact(e, Q, K, s)
  <2>1. ASSUME NEW j \in DOMAIN Q, Q[j].seq = s, K[s] # j
        PROVE  j \in DOMAIN R /\ K[s] # j /\ Q[j].status = R[j].status
    <3>1. R[j].seq = s
      BY <1>1, <2>1 DEF Grown
    <3> QED
      BY <1>0, <1>1, <2>1, <3>1
  <2>2. GoneFact(d, R, K, s)
    BY DEF BoardFact
  <2>3. \A j \in DOMAIN Q : Q[j].seq = s /\ K[s] # j =>
           j \in DOMAIN R /\ K[s] # j /\ Q[j].status = R[j].status
    BY <2>1
  <2>4. d \subseteq e /\ Grown(R, Q)
    OBVIOUS
  <2> QED
    BY ZenonT(60), <2>2, <2>3, <2>4, GoneStays
<1> QED
  BY <1>3, <1>4, <1>5, <1>6 DEF BoardFact

\* A sync that has no round on the board gets one, x.
Opens(R, Q, K, L, s, d, e, a, b, x) ==
  /\ x \in RoundType /\ x.seq = s /\ s \in Syncs /\ K[s] = 0
  /\ Q = Append(R, x) /\ L = [K EXCEPT ![s] = Len(R) + 1]
  /\ d \subseteq e /\ ~a
  /\ RoundOK(e, x) /\ (x.status = "err" => b)

LEMMA BoardOpens ==
    ASSUME NEW R \in Seq(RoundType), NEW Q, NEW K \in [Syncs -> Nat], NEW L,
           NEW s, NEW d, NEW e, NEW a, NEW b, NEW x,
           BoardFact(d, a, R, K), Opens(R, Q, K, L, s, d, e, a, b, x)
    PROVE  Q \in Seq(RoundType) /\ Grown(R, Q) /\ BoardFact(e, b, Q, L)
<1>0. /\ x \in RoundType /\ x.seq = s /\ s \in Syncs /\ K[s] = 0
      /\ Q = Append(R, x) /\ d \subseteq e /\ ~a
      /\ RoundOK(e, x) /\ (x.status = "err" => b)
  BY DEF Opens
<1>a. \A t \in Syncs : L[t] = IF t = s THEN Len(R) + 1 ELSE K[t]
  BY DEF Opens
<1>1. /\ Q \in Seq(RoundType) /\ Len(Q) = Len(R) + 1 /\ Q[Len(R) + 1] = x
      /\ \A j \in 1..Len(R) : Q[j] = R[j]
  BY <1>0, AppendProperties
<1>2. /\ DOMAIN R = 1..Len(R) /\ Len(R) \in Nat /\ DOMAIN Q = DOMAIN R \cup {Len(R) + 1}
      /\ \A j \in DOMAIN R : R[j] \in RoundType /\ Q[j] = R[j]
  BY <1>1, RoundsAre
<1>3. Grown(R, Q)
  BY <1>1, <1>2 DEF Grown
<1>4. ASSUME NEW j \in DOMAIN Q PROVE RoundOK(e, Q[j])
  <2>1. CASE j \in DOMAIN R
    BY <1>0, <1>2, <2>1, DropsRound DEF BoardFact
  <2> QED
    BY <1>0, <1>1, <1>2, <2>1
<1>5. Later(Q, Len(R) + 1) = {}
  BY <1>2 DEF Later
<1>6. ASSUME NEW j \in DOMAIN Q PROVE ErrorFact(b, Q, j)
  <2>1. CASE j \in DOMAIN R
    BY <1>0, <1>2, <2>1 DEF BoardFact, ErrorFact
  <2> QED
    BY <1>0, <1>1, <1>2, <1>5, <2>1 DEF ErrorFact
<1>7. ASSUME NEW t \in Syncs PROVE KeyFact(Q, L, t)
  <2>1. CASE t = s
    <3>1. L[t] = Len(R) + 1
      BY <1>a, <2>1
    <3> QED
      BY <1>0, <1>1, <1>2, <1>5, <2>1, <3>1 DEF KeyFact
  <2>2. CASE t # s
    <3>1. L[t] = K[t] /\ KeyFact(R, K, t)
      BY <1>a, <2>2 DEF BoardFact
    <3>2. ASSUME NEW j \in DOMAIN R, R[j].seq = t, Later(R, j) = {}
          PROVE  Later(Q, j) = {}
      BY <1>0, <1>1, <1>2, <2>2, <3>2 DEF Later
    <3> QED
      BY <1>2, <3>1, <3>2 DEF KeyFact
  <2> QED
    BY <2>1, <2>2
<1>8. ASSUME NEW t \in Syncs PROVE GoneFact(e, Q, L, t)
  <2>1. L[t] = IF t = s THEN Len(R) + 1 ELSE K[t]
    BY <1>a
  <2>2. ASSUME NEW j \in DOMAIN Q, Q[j].seq = t, L[t] # j
        PROVE  j \in DOMAIN R /\ K[t] # j /\ Q[j].status = R[j].status
    BY <1>0, <1>1, <1>2, <2>1, <2>2
  <2>3. GoneFact(d, R, K, t) /\ d \subseteq e /\ Grown(R, Q) /\ Q \in Seq(RoundType)
    BY <1>0, <1>1, <1>3 DEF BoardFact
  <2>4. \A j \in DOMAIN Q : Q[j].seq = t /\ L[t] # j =>
           j \in DOMAIN R /\ K[t] # j /\ Q[j].status = R[j].status
    BY <2>2
  <2> QED
    BY ZenonT(60), <2>3, <2>4, GoneStays
<1> QED
  BY <1>1, <1>3, <1>4, <1>6, <1>7, <1>8 DEF BoardFact

\* Rank r has an answer in hand and takes it home: one round's list grows.
Fetches(R, Q, k, r) ==
  /\ k \in DOMAIN R /\ R[k].status # "open"
  /\ r \in Ring(R[k].world) /\ r \notin R[k].fetched
  /\ Q = [R EXCEPT ![k].fetched = @ \cup {r}]

LEMMA FetchesIs ==
    ASSUME NEW R \in Seq(RoundType), NEW Q, NEW k, NEW r \in Ranks, Fetches(R, Q, k, r)
    PROVE  /\ Q \in Seq(RoundType) /\ Grown(R, Q) /\ Len(Q) = Len(R)
           /\ \A j \in DOMAIN R : j # k => Q[j] = R[j]
           /\ Q[k] \in RoundType /\ Q[k].fetched = R[k].fetched \cup {r}
           /\ Q[k].seq = R[k].seq /\ Q[k].world = R[k].world /\ Q[k].status = R[k].status
           /\ Q[k].seen = R[k].seen /\ Q[k].expected = R[k].expected
           /\ Q[k].timedOut = R[k].timedOut
<1> DEFINE y == [R[k] EXCEPT !.fetched = @ \cup {r}]
<1>1. R[k] \in RoundType /\ k \in 1..Len(R) /\ DOMAIN R = 1..Len(R) /\ Len(R) \in Nat
  BY RoundsAre DEF Fetches
<1>2. /\ y \in RoundType /\ y.fetched = R[k].fetched \cup {r}
      /\ y.seq = R[k].seq /\ y.world = R[k].world /\ y.status = R[k].status
      /\ y.seen = R[k].seen /\ y.expected = R[k].expected /\ y.timedOut = R[k].timedOut
  BY <1>1 DEF RoundType
<1>3. Q = [R EXCEPT ![k] = y]
  BY DEF Fetches
<1> HIDE DEF y
<1>4. /\ Q \in Seq(RoundType) /\ Len(Q) = Len(R) /\ Q[k] = y
      /\ \A j \in DOMAIN R : j # k => Q[j] = R[j]
  BY <1>1, <1>2, <1>3, ExceptSeq
<1>5. Grown(R, Q)
  BY <1>1, <1>2, <1>4 DEF Grown
<1> QED
  BY <1>2, <1>4, <1>5

\* All that were expected took it, or one that was dropped did.
LEMMA HomeByCount ==
    ASSUME NEW d, NEW x \in RoundType, RoundOK(d, x), AllTook(x, x.fetched)
    PROVE  TakenHome(d, x)
<1>1. /\ x.world \in Sizes /\ x.expected \in Nat /\ x.expected >= Expected(x.world, d)
      /\ x.fetched \subseteq Ring(x.world) /\ Cardinality(x.fetched) >= x.expected
  BY DEF RoundOK, RoundType, AllTook
<1>2. CASE x.fetched \cap d = {}
  <2>1. x.fetched \subseteq Ring(x.world) \ d
    BY <1>1, <1>2
  <2>2. x.fetched = Ring(x.world) \ d
    BY <1>1, <2>1, Everybody
  <2> QED
    BY <2>2 DEF TakenHome
<1> QED
  BY <1>2 DEF TakenHome

\* A take keeps the board, whether it clears the key or not.
LEMMA BoardFetched ==
    ASSUME NEW R \in Seq(RoundType), NEW Q, NEW k, NEW r \in Ranks, Fetches(R, Q, k, r),
           NEW K \in [Syncs -> Nat], NEW L, NEW d, NEW a, BoardFact(d, a, R, K),
           \/ L = K
           \/ /\ L = [K EXCEPT ![R[k].seq] = 0]
              /\ R[k].status = "result" => AllTook(R[k], R[k].fetched \cup {r})
    PROVE  BoardFact(d, a, Q, L) /\ L \in [Syncs -> Nat]
<1> DEFINE s == R[k].seq
<1>1. /\ Q \in Seq(RoundType) /\ Grown(R, Q) /\ Len(Q) = Len(R)
      /\ \A j \in DOMAIN R : j # k => Q[j] = R[j]
      /\ Q[k] \in RoundType /\ Q[k].fetched = R[k].fetched \cup {r}
      /\ Q[k].seq = R[k].seq /\ Q[k].world = R[k].world /\ Q[k].status = R[k].status
      /\ Q[k].seen = R[k].seen /\ Q[k].expected = R[k].expected
      /\ Q[k].timedOut = R[k].timedOut
  BY FetchesIs
<1>2. /\ DOMAIN Q = DOMAIN R /\ k \in DOMAIN R /\ R[k].status # "open"
      /\ r \in Ring(R[k].world) /\ r \notin R[k].fetched
      /\ \A j \in DOMAIN R : R[j] \in RoundType
  BY <1>1, RoundsAre DEF Fetches
<1>3. \A j \in DOMAIN R : Later(Q, j) = Later(R, j) /\ Q[j].seq = R[j].seq /\ Q[j].status = R[j].status
  <2>1. \A j \in DOMAIN R : Q[j].seq = R[j].seq /\ Q[j].status = R[j].status
    BY <1>1
  <2> QED
    BY <1>1, <2>1, LaterSame
<1>4. s \in Syncs
  BY <1>2 DEF RoundType
<1>5. ASSUME NEW j \in DOMAIN Q PROVE RoundOK(d, Q[j])
  <2>1. RoundOK(d, R[j])
    BY <1>2 DEF BoardFact
  <2>2. CASE j = k
    BY <1>1, <1>2, <2>1, <2>2 DEF RoundOK
  <2> QED
    BY <1>1, <1>2, <2>1, <2>2
<1>6. ASSUME NEW j \in DOMAIN Q PROVE ErrorFact(a, Q, j)
  BY <1>2, <1>3 DEF BoardFact, ErrorFact
<1> HIDE DEF s
<1>7. L \in [Syncs -> Nat] /\ \A t \in Syncs : L[t] = K[t] \/ (t = s /\ L[t] = 0)
  <2>1. CASE L = K
    BY <2>1
  <2>2. CASE L = [K EXCEPT ![s] = 0]
    BY <1>4, <2>2
  <2> QED
    BY <2>1, <2>2 DEF s
<1>8. ASSUME NEW t \in Syncs PROVE KeyFact(Q, L, t)
  BY <1>2, <1>3, <1>7 DEF BoardFact, KeyFact
<1>9. ASSUME NEW t \in Syncs PROVE GoneFact(d, Q, L, t)
  <2>0. GoneFact(d, R, K, t) /\ KeyFact(R, K, t)
    BY DEF BoardFact
  <2>1. CASE L[t] = K[t]
    <3>1. \A j \in DOMAIN Q : Q[j].seq = t /\ L[t] # j =>
             j \in DOMAIN R /\ K[t] # j /\ Q[j].status = R[j].status
      BY <1>2, <1>3, <2>1
    <3>2. d \subseteq d /\ Q \in Seq(RoundType) /\ Grown(R, Q) /\ GoneFact(d, R, K, t)
      BY <1>1, <2>0
    <3> QED
      BY <3>1, <3>2, GoneStays, ZenonT(60)
  <2>2. CASE L[t] # K[t]
    <3>1. t = s /\ L = [K EXCEPT ![s] = 0] /\ K[t] # 0
      BY <1>7, <2>2 DEF s
    <3>2. K[t] \in DOMAIN R /\ R[K[t]].seq = t /\ Later(R, K[t]) = {}
      BY <2>0, <3>1 DEF KeyFact
    <3>3. R[k].status = "result" => AllTook(R[k], R[k].fetched \cup {r})
      BY <2>2 DEF s
    <3>a. R[k].seq = t /\ R[k].status \in {"result", "err"}
      BY <1>2, <3>1 DEF s, RoundType
    <3>4. CASE K[t] = k
      <4>1. R[k].status = "result" => TakenHome(d, Q[k])
        <5> SUFFICES ASSUME R[k].status = "result" PROVE TakenHome(d, Q[k])
          OBVIOUS
        <5>1. AllTook(Q[k], Q[k].fetched)
          BY <1>1, <3>3 DEF AllTook
        <5> QED
          BY <1>1, <1>2, <1>5, <5>1, HomeByCount
      <4>2. CASE ReopenedIn(d, R, t)
        BY <1>1, <4>2, ReopenedStays DEF GoneFact
      <4>3. CASE ~ReopenedIn(d, R, t)
        <5> SUFFICES ASSUME NEW j \in DOMAIN Q, Q[j].seq = t
                     PROVE  Q[j].status # "open" /\ (Q[j].status = "result" => TakenHome(d, Q[j]))
          BY DEF GoneFact
        <5>1. CASE j = k
          BY <1>2, <1>3, <4>1, <5>1
        <5>2. CASE j # k
          <6>1. Q[j] = R[j] /\ j \in DOMAIN R /\ K[t] # j
            BY <1>1, <1>2, <3>4, <5>2
          <6> QED
            BY <2>0, <4>3, <6>1 DEF GoneFact
        <5> QED
          BY <5>1, <5>2
      <4> QED
        BY <4>2, <4>3
    <3>5. CASE K[t] # k
      <4>1. k < K[t]
        <5>1. k \notin Later(R, K[t])
          BY <3>2
        <5>2. k \in Nat /\ K[t] \in Nat
          BY <1>2, <3>2, RoundsAre
        <5>3. ~(k > K[t])
          BY <1>2, <3>2, <3>a, <5>1 DEF Later
        <5> QED
          BY <3>5, <5>2, <5>3
      <4>2. R[k].status = "result"
        <5>1. K[t] \in Later(R, k)
          BY <3>2, <3>a, <4>1, RoundsAre DEF Later
        <5> QED
          BY <1>2, <3>a, <5>1 DEF BoardFact, ErrorFact
      <4>3. ReopenedIn(d, R, t) \/ TakenHome(d, R[k])
        BY <1>2, <2>0, <3>5, <3>a, <4>2 DEF GoneFact
      <4>4. TakenHome(d, R[k]) => Q[k].fetched \cap d # {}
        BY <1>1, <1>2 DEF TakenHome
      <4>5. Q[k].fetched \cap d # {} => ReopenedIn(d, Q, t)
        <5>1. Q[k].seq = t /\ Q[K[t]].seq = t /\ k \in DOMAIN Q /\ K[t] \in DOMAIN Q
          BY <1>2, <1>3, <3>2, <3>a
        <5> QED
          BY <4>1, <5>1 DEF ReopenedIn
      <4>6. ReopenedIn(d, R, t) => ReopenedIn(d, Q, t)
        BY <1>1, ReopenedStays
      <4> QED
        BY <4>3, <4>4, <4>5, <4>6 DEF GoneFact
    <3> QED
      BY <3>4, <3>5
  <2> QED
    BY <2>1, <2>2
<1> QED
  BY <1>5, <1>6, <1>7, <1>8, <1>9 DEF BoardFact

-----------------------------------------------------------------------------
(* Steps that leave the rounds alone.                                       *)

LEMMA InvIs ==
    ASSUME DdpInv
    PROVE  /\ run \in RunType /\ rounds \in Seq(RoundType) /\ key \in [Syncs -> Nat]
           /\ rank \in [Ranks -> RankType]
           /\ BoardFact(run.dropped, run.aborted, rounds, key)
           /\ \A r \in Ranks : rank[r] \in RankType /\ RankFact(r, rank[r], rounds)
BY DEF DdpInv, Types

LEMMA GrownSame == \A R \in Seq(RoundType) : Grown(R, R)
BY DEF Grown

\* The ranks move and the run may drop some.
LEMMA RanksMove ==
    ASSUME DdpInv, UNCHANGED <<rounds, key>>, RunGrows(run, run'),
           rank' \in [Ranks -> RankType], \A r \in Ranks : RankFact(r, rank'[r], rounds)
    PROVE  DdpInv'
<1> DEFINE d == run.dropped
           e == run'.dropped
<1>1. /\ run' \in RunType /\ d \subseteq e
      /\ run.aborted => run'.aborted
      /\ rounds \in Seq(RoundType) /\ key \in [Syncs -> Nat] /\ Grown(rounds, rounds)
      /\ BoardFact(d, run.aborted, rounds, key)
  BY InvIs, GrownSame DEF RunGrows
<1> HIDE DEF d, e
<1>a. KeyedChange(rounds, rounds, key, e, run'.aborted)
  BY DEF KeyedChange
<1>2. BoardFact(e, run'.aborted, rounds, key)
  BY <1>1, <1>a, BoardStays
<1>3. BoardFact(run'.dropped, run'.aborted, rounds', key')
  BY <1>2 DEF e
<1>4. \A r \in Ranks : RankFact(r, rank'[r], rounds')
  OBVIOUS
<1> QED
  BY <1>1, <1>3, <1>4 DEF DdpInv, Types

LEMMA RunStays == DdpInv /\ run' = run => RunGrows(run, run')
BY InvIs DEF RunGrows

\* One rank moves.
LEMMA OneMoves ==
    ASSUME DdpInv, UNCHANGED <<rounds, key>>, RunGrows(run, run'), NEW r \in Ranks,
           NEW y \in RankType, rank' = [rank EXCEPT ![r] = y], RankFact(r, y, rounds)
    PROVE  DdpInv'
<1>1. rank \in [Ranks -> RankType] /\ \A q \in Ranks : RankFact(q, rank[q], rounds)
  BY InvIs
<1>2. rank' \in [Ranks -> RankType]
  BY <1>1
<1>3. ASSUME NEW q \in Ranks PROVE RankFact(q, rank'[q], rounds)
  <2>1. CASE q = r
    BY <1>1, <2>1
  <2>2. CASE q # r
    BY <1>1, <2>2
  <2> QED
    BY <2>1, <2>2
<1> QED
  BY <1>2, <1>3, RanksMove

\* A rank that stops syncing, for whatever reason.
LEMMA EndedPc ==
    ASSUME NEW r \in Ranks, NEW x \in RankType, NEW R, RankFact(r, x, R), NEW p \in Ended
    PROVE  [x EXCEPT !.pc = p] \in RankType /\ RankFact(r, [x EXCEPT !.pc = p], R)
<1> DEFINE y == [x EXCEPT !.pc = p]
<1>1. y \in RankType /\ y.model = x.model /\ y.pending = x.pending /\ y.pc = p
  BY DEF RankType
<1> HIDE DEF y
<1>2. RankFact(r, y, R)
  BY <1>1, RankStops
<1> QED
  BY <1>1, <1>2 DEF y

LEMMA OneEnds ==
    ASSUME DdpInv, UNCHANGED <<run, rounds, key>>, NEW r \in Ranks, NEW p \in Ended,
           rank' = [rank EXCEPT ![r].pc = p]
    PROVE  DdpInv'
<1> DEFINE y == [rank[r] EXCEPT !.pc = p]
<1>1. rank' = [rank EXCEPT ![r] = y]
  OBVIOUS
<1>2. y \in RankType /\ RankFact(r, y, rounds)
  BY InvIs, EndedPc
<1> HIDE DEF y
<1>3. RunGrows(run, run')
  BY RunStays
<1> QED
  BY <1>1, <1>2, <1>3, OneMoves

LEMMA EndingStep ==
    ASSUME DdpInv, NEW r \in Ranks,
           \/ Refused(r) \/ MissedStart(r) \/ WrongWorld(r) \/ PartialGone(r)
           \/ HardTimeout(r) \/ Die(r) \/ FinishAlone(r)
    PROVE  DdpInv'
<1>1. /\ UNCHANGED <<run, rounds, key>>
      /\ \E p \in Ended : rank' = [rank EXCEPT ![r].pc = p]
  BY DEF Refused, MissedStart, WrongWorld, PartialGone, HardTimeout, Die, FinishAlone, Ended
<1> QED
  BY <1>1, OneEnds

LEMMA StopStep ==
    ASSUME DdpInv, EndRun \/ Grace
    PROVE  DdpInv'
<1>1. PICK p \in Ended : Stop(p) /\ UNCHANGED <<run, rounds, key>>
  BY DEF EndRun, Grace, Ended
<1>2. ASSUME NEW r \in Ranks PROVE rank'[r] \in RankType /\ RankFact(r, rank'[r], rounds)
  <2>1. rank'[r] = IF Followed(r) THEN [rank[r] EXCEPT !.pc = p] ELSE rank[r]
    BY <1>1 DEF Stop
  <2> QED
    BY <2>1, InvIs, EndedPc
<1>3. rank' \in [Ranks -> RankType]
  BY <1>1, <1>2 DEF Stop
<1> QED
  BY <1>1, <1>2, <1>3, RunStays, RanksMove

\* At the epoch boundary a rank goes on, in the ring it was told of.
LEMMA SwitchedIs ==
    ASSUME DdpInv, NEW r \in Ranks, rank[r].pc = "boundary", NEW p \in rank[r].pending
    PROVE  \E y \in RankType : Switched(r, p) = [rank EXCEPT ![r] = y] /\ RankFact(r, y, rounds)
<1> DEFINE c == IF Cardinality(Sharing(p.shares)) <= 1 THEN "solo" ELSE "step"
           y == [rank[r] EXCEPT !.shares = p.shares, !.pending = {}, !.pc = c]
<1>1. rank[r] \in RankType /\ RankFact(r, rank[r], rounds)
  BY InvIs
<1>2. c \in {"solo", "step"}
  OBVIOUS
<1>3. Switched(r, p) = [rank EXCEPT ![r] = y]
  BY DEF Switched
<1> HIDE DEF c
<1>4. p.shares \in ShareType
  BY <1>1 DEF RankType, PendingType
<1>5. /\ y \in RankType /\ y.model = rank[r].model /\ y.pending = {} /\ y.pc = c
      /\ y.shares = p.shares
  BY <1>1, <1>2, <1>4 DEF RankType, Syncing, Ended
<1> HIDE DEF y
<1>6. r < y.shares.world /\ Len(y.model) < MaxSeq
  BY <1>1, <1>5 DEF RankFact, Syncing
<1>7. y.pc \notin Coming /\ y.pc \notin {"wait", "reply"}
  BY <1>2, <1>5 DEF Coming
<1>8. RankFact(r, y, rounds)
  BY <1>1, <1>5, <1>6, <1>7 DEF RankFact
<1> QED
  BY <1>3, <1>5, <1>8

LEMMA BoundaryStep ==
    ASSUME DdpInv, NEW r \in Ranks, Boundary(r)
    PROVE  DdpInv'
<1>1. rank[r].pc = "boundary" /\ UNCHANGED <<run, rounds, key>> /\ RunGrows(run, run')
  BY RunStays DEF Boundary
<1>2. CASE rank[r].pending = {}
  <2> DEFINE y == [rank[r] EXCEPT !.pc = "step"]
  <2>1. rank' = [rank EXCEPT ![r] = y]
    BY <1>2 DEF Boundary
  <2>2. rank[r] \in RankType /\ RankFact(r, rank[r], rounds)
    BY InvIs
  <2>3. /\ y \in RankType /\ y.model = rank[r].model /\ y.pending = rank[r].pending
        /\ y.pc = "step" /\ y.shares = rank[r].shares
    BY <2>2 DEF RankType, Syncing
  <2> HIDE DEF y
  <2>4. y.pc \notin Coming /\ y.pc \notin {"wait", "reply"} /\ rank[r].pc \in Syncing
    BY <1>1, <2>3 DEF Coming, Syncing
  <2>5. RankFact(r, y, rounds)
    BY <2>2, <2>3, <2>4 DEF RankFact
  <2> QED
    BY <1>1, <2>1, <2>3, <2>5, OneMoves
<1>3. CASE rank[r].pending # {}
  <2>1. PICK p \in rank[r].pending : rank' = Switched(r, p)
    BY <1>3 DEF Boundary
  <2> QED
    BY <1>1, <2>1, SwitchedIs, OneMoves
<1> QED
  BY <1>2, <1>3

\* ddpJoin.
LEMMA JoinStep ==
    ASSUME DdpInv, Join
    PROVE  DdpInv'
<1> DEFINE from == LowestLive(run.dropped, run.world)
           sh == SharesWith(run.shares)
           jo == [rank |-> Joiner, from |-> from, oldWorld |-> run.world, snap |-> {}]
           r1 == [run EXCEPT !.shares = sh, !.world = Joiner + 1, !.join = jo]
           r2 == Publish(r1, run.lastSeq + 1, RingNote(r1))
<1>0. /\ rank[Joiner].pc = "absent" /\ UNCHANGED <<rounds, key>> /\ Joiner \in Ranks
      /\ rank[Joiner] \in RankType /\ RankFact(Joiner, rank[Joiner], rounds) /\ run \in RunType
  BY InvIs, DdpAssumption DEF Join
<1>1. CASE run' = run /\ rank' = [rank EXCEPT ![Joiner].pc = "failed"]
  <2>1. "failed" \in Ended
    BY DEF Ended
  <2> QED
    BY <1>0, <1>1, <2>1, OneEnds
<1>2. CASE run' = r2 /\ rank' = [rank EXCEPT ![Joiner].pc = "ready"]
  <2>1. run.shares \in ShareType /\ run.world \in Sizes /\ run.lastSeq \in 0..MaxSeq
        /\ run.dropped \subseteq Ranks
    BY <1>0 DEF RunType
  <2>2. World + 1 \in Sizes /\ from \in NamedRanks
    BY <2>1, LowestLiveIs DEF Sizes
  <2>3. sh \in ShareType
    BY <2>1, <2>2 DEF SharesWith, ShareType
  <2>4. jo \in JoinType
    BY <2>1, <2>2 DEF JoinType
  <2> HIDE DEF sh, jo, from
  <2>5. /\ r1 \in RunType /\ r1.dropped = run.dropped /\ r1.aborted = run.aborted
    BY <1>0, <2>2, <2>3, <2>4 DEF RunType
  <2>6. run.lastSeq + 1 \in 0..(MaxSeq + 1)
    BY <2>1, DdpAssumption
  <2> HIDE DEF r1
  <2>7. r2 \in RunType /\ r2.dropped = r1.dropped /\ r2.aborted = r1.aborted
    BY <2>5, <2>6, RingNoteType, PublishIs
  <2> HIDE DEF r2
  <2>8. RunGrows(run, run')
    BY <1>2, <2>5, <2>7 DEF RunGrows
  <2> DEFINE y == [rank[Joiner] EXCEPT !.pc = "ready"]
  <2>9. /\ y \in RankType /\ y.model = rank[Joiner].model /\ y.pending = rank[Joiner].pending
        /\ y.pc = "ready" /\ rank' = [rank EXCEPT ![Joiner] = y]
    BY <1>0, <1>2 DEF RankType, Coming
  <2> HIDE DEF y
  <2>10. RankFact(Joiner, y, rounds)
    <3>1. y.pc \in Coming /\ rank[Joiner].pc \in Coming /\ y.pc \notin Syncing
          /\ y.pc \notin {"wait", "reply"}
      BY <1>0, <2>9 DEF Coming, Syncing
    <3> QED
      BY <1>0, <2>9, <3>1 DEF RankFact
  <2> QED
    BY <1>0, <2>8, <2>9, <2>10, OneMoves
<1> QED
  BY <1>1, <1>2 DEF Join

\* The joiner has the model of the rank that handed it over.
LEMMA SnapshotStep ==
    ASSUME DdpInv, TakeSnapshot
    PROVE  DdpInv'
<1>a. rank[Joiner].pc = "ready" /\ UNCHANGED <<run, rounds, key>>
  BY DEF TakeSnapshot
<1>b. Joiner \in Ranks
  BY DdpAssumption
<1>0. /\ rank[Joiner].pc = "ready" /\ UNCHANGED <<run, rounds, key>> /\ Joiner \in Ranks
      /\ rank[Joiner] \in RankType /\ RankFact(Joiner, rank[Joiner], rounds) /\ run \in RunType
  BY <1>a, <1>b, InvIs
<1>1. CASE rank' = [rank EXCEPT ![Joiner].pc = "failed"]
  <2>1. "failed" \in Ended
    BY DEF Ended
  <2> QED
    BY <1>0, <1>1, <2>1, OneEnds
<1>2. ASSUME NEW m \in run.join.snap,
             rank' = [rank EXCEPT ![Joiner].pc = "got", ![Joiner].model = m.model,
                                  ![Joiner].shares = m.shares]
      PROVE  DdpInv'
  <2> DEFINE y == [rank[Joiner] EXCEPT !.pc = "got", !.model = m.model, !.shares = m.shares]
  <2>1. m \in SnapType
    BY <1>0 DEF RunType, JoinType
  <2>2. /\ m.model \in ModelType /\ Len(m.model) < MaxSeq
        /\ m.shares \in ShareType /\ m.shares.world = World + 1
    BY <2>1 DEF SnapType, GrownType, ShareType, Sizes
  <2>3. rank' = [rank EXCEPT ![Joiner] = y]
    BY <1>2
  <2>4. /\ y \in RankType /\ y.model = m.model /\ y.pending = rank[Joiner].pending
        /\ y.pc = "got" /\ y.shares = m.shares
    BY <1>0, <2>2 DEF RankType, Syncing
  <2> HIDE DEF y
  <2>5. RankFact(Joiner, y, rounds)
    <3>1. y.pc \notin Coming /\ y.pc \notin {"wait", "reply"} /\ rank[Joiner].pc \in Coming
      BY <1>0, <2>4 DEF Coming
    <3>2. \A j \in DOMAIN rounds : ~Took(rounds, Joiner, j)
      BY <1>0, <3>1 DEF RankFact, Took
    <3>3. Len(y.model) < MaxSeq /\ Len(y.model) <= MaxSeq /\ Joiner < y.shares.world
      <4>1. Len(m.model) \in Nat
        BY <2>2 DEF ModelType
      <4> QED
        BY <2>2, <2>4, <4>1, DdpAssumption
    <3>4. \A p \in y.pending : Joiner < p.shares.world
      BY <1>0, <2>4 DEF RankFact
    <3> QED
      BY <3>1, <3>2, <3>3, <3>4 DEF RankFact
  <2> QED
    BY <1>0, <2>3, <2>4, <2>5, RunStays, OneMoves
<1> QED
  BY <1>1, <1>2 DEF TakeSnapshot

LEMMA JoinedStep ==
    ASSUME DdpInv, Joined
    PROVE  DdpInv'
<1>0. /\ rank[Joiner].pc = "got" /\ UNCHANGED <<rounds, key>> /\ Joiner \in Ranks
      /\ rank[Joiner] \in RankType /\ RankFact(Joiner, rank[Joiner], rounds) /\ run \in RunType
      /\ rank' = [rank EXCEPT ![Joiner].pc = "step"]
  BY InvIs, DdpAssumption DEF Joined
<1> DEFINE y == [rank[Joiner] EXCEPT !.pc = "step"]
<1>1. /\ y \in RankType /\ y.model = rank[Joiner].model /\ y.pending = rank[Joiner].pending
      /\ y.pc = "step" /\ y.shares = rank[Joiner].shares /\ rank' = [rank EXCEPT ![Joiner] = y]
  BY <1>0 DEF RankType, Syncing
<1> HIDE DEF y
<1>2. RankFact(Joiner, y, rounds)
  <2>1. y.pc \notin Coming /\ y.pc \notin {"wait", "reply"} /\ rank[Joiner].pc \in Syncing
    BY <1>0, <1>1 DEF Coming, Syncing
  <2> QED
    BY <1>0, <1>1, <2>1 DEF RankFact
<1>3. RunGrows(run, run')
  <2>1. CASE run' = run
    BY <2>1, RunStays
  <2> DEFINE q == [run EXCEPT !.noteTold = @ \cup {Joiner}, !.join = NoJoin, !.loading = Joiner]
  <2>2. CASE run' = q
    <3>1. q \in RunType /\ q.dropped = run.dropped /\ q.aborted = run.aborted
      BY <1>0, NoJoinType DEF RunType
    <3> QED
      BY <2>2, <3>1 DEF RunGrows
  <2> QED
    BY <2>1, <2>2 DEF Joined
<1> QED
  BY <1>0, <1>1, <1>2, <1>3, OneMoves

LEMMA InRange ==
    ASSUME NEW n \in Nat, NEW w \in 1..n
    PROVE  w \in Nat /\ w >= w
OBVIOUS

\* markRankDownLocked: rounds that wait for nobody else are closed.
DownTo(x, y, e, w) ==
    \/ /\ LiveIn(x.seen, e) >= w
       /\ \E n \in Nat : y = [Finish(x) EXCEPT !.expected = w, !.partial = n]
    \/ y = [x EXCEPT !.expected = w]

LEMMA DownRoundIs ==
    ASSUME NEW x \in RoundType, NEW d, NEW e, d \subseteq e, RoundOK(d, x), x.status = "open",
           NEW y, NEW w, w = Expected(x.world, e), DownTo(x, y, e, w)
    PROVE  /\ y \in RoundType /\ RoundOK(e, y) /\ y.status # "err"
           /\ y.seq = x.seq /\ y.world = x.world /\ y.fetched = x.fetched
<1>a. x.world \in Sizes
  BY DEF RoundType
<1>b. x.world \in Nat /\ Expected(x.world, e) \in 1..x.world
  BY <1>a, ExpectedIs, RingIs
<1>c. w \in 1..x.world
  BY <1>b
<1>d. w \in Nat /\ w >= w
  BY <1>b, <1>c, InRange
<1>1. x.world \in Sizes /\ x.world \in Nat /\ w \in 1..x.world /\ w \in Nat /\ w >= w
  BY <1>a, <1>b, <1>c, <1>d
<1>2. /\ y \in RoundType /\ y.expected = w /\ y.seen = x.seen /\ y.timedOut = x.timedOut
      /\ y.seq = x.seq /\ y.world = x.world /\ y.fetched = x.fetched
      /\ \/ y.status = "open"
         \/ y.status = "result" /\ LiveIn(x.seen, e) >= w
  <2>1. CASE y = [x EXCEPT !.expected = w]
    BY <1>1, <2>1 DEF RoundType
  <2>2. CASE /\ LiveIn(x.seen, e) >= w
             /\ \E n \in Nat : y = [Finish(x) EXCEPT !.expected = w, !.partial = n]
    BY <1>1, <2>2 DEF RoundType, Finish
  <2> QED
    BY <2>1, <2>2 DEF DownTo
<1>3. x.seen \subseteq Ring(x.world)
  BY DEF RoundOK
<1>4. y.status = "result" => Ring(y.world) \ e \subseteq y.seen
  <2> SUFFICES ASSUME y.status = "result" PROVE Ring(x.world) \ e \subseteq x.seen
    BY <1>2
  <2>1. LiveIn(x.seen, e) >= w
    BY <1>2
  <2>2. w >= Expected(x.world, e)
    BY <1>1
  <2> QED
    BY <1>1, <1>3, <2>1, <2>2, ClosedByAll
<1>5. y.expected >= Expected(y.world, e)
  <2>1. y.expected = w /\ y.world = x.world
    BY <1>2
  <2> QED
    BY <1>1, <2>1
<1>6. RoundOK(e, y)
  BY <1>1, <1>2, <1>4, <1>5 DEF RoundOK
<1> QED
  BY <1>2, <1>6

\* MarkDown, from the submitter or from a hand-over that failed.
LEMMA MarkedDown ==
    ASSUME DdpInv, NEW d \in Ranks, MarkDown(d)
    PROVE  /\ RunGrows(run, run') /\ rounds' \in Seq(RoundType)
           /\ Grown(rounds, rounds') /\ Untaken(rounds, rounds')
           /\ BoardFact(run'.dropped, run'.aborted, rounds', key)
<1> DEFINE e == run.dropped \cup {d}
<1>0. /\ run \in RunType /\ rounds \in Seq(RoundType) /\ key \in [Syncs -> Nat]
      /\ BoardFact(run.dropped, run.aborted, rounds, key)
  BY InvIs
<1>1. RunGrows(run, run') /\ run'.dropped = e /\ run'.aborted = run.aborted
  BY <1>0, DownRunIs DEF MarkDown, RunGrows
<1>2. rounds' = rounds \/ rounds' = DownRounds(e)
  BY <1>0, DownRunIs DEF MarkDown
<1>3. run.dropped \subseteq e
  OBVIOUS
<1> HIDE DEF e
<1>4. CASE rounds' = rounds
  <2>0. KeyedChange(rounds, rounds, key, e, run.aborted)
    BY DEF KeyedChange
  <2>1. BoardFact(e, run.aborted, rounds, key)
    BY <1>0, <1>3, <2>0, GrownSame, BoardStays
  <2>2. Untaken(rounds, rounds)
    BY DEF Untaken
  <2> QED
    BY <1>0, <1>1, <1>4, <2>1, <2>2, GrownSame
<1>5. CASE rounds' = DownRounds(e)
  <2>1. DOMAIN rounds = 1..Len(rounds) /\ Len(rounds) \in Nat
        /\ \A i \in DOMAIN rounds : rounds[i] \in RoundType
    BY <1>0, RoundsAre
  <2> DEFINE x(i) == Expected(rounds[i].world, e)
             done(i) == [Finish(rounds[i]) EXCEPT
                           !.expected = x(i),
                           !.partial = IF Cardinality(rounds[i].seen) < rounds[i].world
                                         THEN Cardinality(rounds[i].seen) ELSE @]
             Q == [i \in DOMAIN rounds |->
                     IF rounds[i].status # "open" \/ key[rounds[i].seq] # i THEN rounds[i]
                     ELSE IF rounds[i].seen # {} /\ LiveIn(rounds[i].seen, e) >= x(i)
                            THEN done(i) ELSE [rounds[i] EXCEPT !.expected = x(i)]]
  <2>2. rounds' = Q
    BY <1>5 DEF DownRounds
  <2>3. ASSUME NEW i \in DOMAIN rounds
        PROVE  \/ Q[i] = rounds[i]
               \/ /\ rounds[i].status = "open" /\ key[rounds[i].seq] = i
                  /\ Q[i] \in RoundType /\ RoundOK(e, Q[i]) /\ Q[i].status # "err"
                  /\ Q[i].seq = rounds[i].seq /\ Q[i].world = rounds[i].world
                  /\ Q[i].fetched = rounds[i].fetched
    <3>0. rounds[i] \in RoundType /\ RoundOK(run.dropped, rounds[i])
      BY <1>0, <2>1 DEF BoardFact
    <3>1. CASE rounds[i].status # "open" \/ key[rounds[i].seq] # i
      BY <3>1
    <3>2. CASE ~(rounds[i].status # "open" \/ key[rounds[i].seq] # i)
      <4> DEFINE n == IF Cardinality(rounds[i].seen) < rounds[i].world
                        THEN Cardinality(rounds[i].seen) ELSE rounds[i].partial
      <4>1. n \in Nat
        <5>1. IsFiniteSet(rounds[i].seen)
          <6>1. rounds[i].seen \subseteq Ring(rounds[i].world) /\ rounds[i].world \in Sizes
            BY <3>0 DEF RoundOK, RoundType
          <6> QED
            BY <6>1, RingIs, FS_Subset
        <5>2. Cardinality(rounds[i].seen) \in Nat /\ rounds[i].partial \in Nat
          BY <3>0, <5>1, FS_CardinalityType DEF RoundType
        <5> QED
          BY <5>2
      <4>2. done(i) = [Finish(rounds[i]) EXCEPT !.expected = x(i), !.partial = n]
        BY <3>0 DEF Finish, RoundType
      <4>3. \/ /\ rounds[i].seen # {} /\ LiveIn(rounds[i].seen, e) >= x(i) /\ Q[i] = done(i)
            \/ Q[i] = [rounds[i] EXCEPT !.expected = x(i)]
        BY <3>2
      <4> HIDE DEF Q, done, n
      <4>4. \/ /\ rounds[i].seen # {} /\ LiveIn(rounds[i].seen, e) >= x(i)
               /\ \E m \in Nat : Q[i] = [Finish(rounds[i]) EXCEPT !.expected = x(i), !.partial = m]
            \/ Q[i] = [rounds[i] EXCEPT !.expected = x(i)]
        BY <4>1, <4>2, <4>3
      <4> DEFINE u == rounds[i]
                 v == Q[i]
                 w == Expected(u.world, e)
      <4>5. /\ u \in RoundType /\ RoundOK(run.dropped, u) /\ u.status = "open"
            /\ DownTo(u, v, e, w)
        BY <3>0, <3>2, <4>4 DEF DownTo
      <4>6. w = Expected(u.world, e) /\ run.dropped \subseteq e
        BY <1>3
      <4> HIDE DEF u, v, w
      <4>7. /\ v \in RoundType /\ RoundOK(e, v) /\ v.status # "err"
            /\ v.seq = u.seq /\ v.world = u.world /\ v.fetched = u.fetched
        BY <4>5, <4>6, DownRoundIs
      <4> QED
        BY <3>2, <4>7 DEF u, v
    <3> QED
      BY <3>1, <3>2
  <2>4. DOMAIN Q = DOMAIN rounds
    OBVIOUS
  <2> HIDE DEF Q
  <2>5. ASSUME NEW i \in DOMAIN rounds PROVE Q[i] \in RoundType
    BY <2>1, <2>3
  <2>6. Q \in Seq(RoundType) /\ Len(Q) = Len(rounds)
    <3>1. DOMAIN Q = 1..Len(rounds)
      BY <2>1, <2>4
    <3>2. Q = [i \in 1..Len(rounds) |-> Q[i]]
      BY <2>2, <2>4, <3>1 DEF Q
    <3>3. \A i \in 1..Len(rounds) : Q[i] \in RoundType
      BY <2>1, <2>5
    <3> QED
      BY <2>1, <3>2, <3>3, SeqDef
  <2>7. Grown(rounds, Q) /\ Untaken(rounds, Q)
    BY <2>3, <2>4, <2>6 DEF Grown, Untaken
  <2>8. BoardFact(e, run.aborted, Q, key)
    <3>1. KeyedChange(rounds, Q, key, e, run.aborted)
      BY <2>3 DEF KeyedChange
    <3>2. /\ rounds \in Seq(RoundType) /\ Q \in Seq(RoundType) /\ Grown(rounds, Q)
          /\ Len(Q) = Len(rounds) /\ key \in [Syncs -> Nat] /\ run.dropped \subseteq e
          /\ BoardFact(run.dropped, run.aborted, rounds, key)
      BY <1>0, <1>3, <2>6, <2>7
    <3> QED
      BY <3>1, <3>2, BoardStays
  <2> QED
    BY <1>1, <2>2, <2>6, <2>7, <2>8
<1> QED
  BY <1>2, <1>4, <1>5

\* A step that changes rounds but takes no answer home.
LEMMA NobodyTakes ==
    ASSUME DdpInv, run' \in RunType, rounds' \in Seq(RoundType), key' \in [Syncs -> Nat],
           Grown(rounds, rounds'), Untaken(rounds, rounds'),
           BoardFact(run'.dropped, run'.aborted, rounds', key'),
           NEW r \in Ranks, NEW y \in RankType, rank' = [rank EXCEPT ![r] = y],
           RankFact(r, y, rounds) \/ RankFact(r, y, rounds')
    PROVE  DdpInv'
<1>0. /\ rounds \in Seq(RoundType) /\ rank \in [Ranks -> RankType]
      /\ BoardFact(run.dropped, run.aborted, rounds, key)
      /\ \A q \in Ranks : RankFact(q, rank[q], rounds)
  BY InvIs
<1>1. \A j \in DOMAIN rounds : rounds[j].status = "open" => rounds[j].fetched = {}
  BY <1>0 DEF BoardFact, RoundOK
<1>2. rank' \in [Ranks -> RankType]
  BY <1>0
<1>3. ASSUME NEW q \in Ranks PROVE RankFact(q, rank'[q], rounds')
  <2>0. NotTaking(rounds, rounds', q)
    BY <1>0, UntakenIs
  <2>1. ASSUME NEW z, RankFact(q, z, rounds) PROVE RankFact(q, z, rounds')
    BY <1>0, <1>1, <2>0, <2>1, RankStays
  <2>2. CASE q = r
    BY <1>0, <2>1, <2>2
  <2>3. CASE q # r
    <3>1. rank'[q] = rank[q]
      BY <1>0, <2>3
    <3> QED
      BY <1>0, <2>1, <3>1
  <2> QED
    BY <2>2, <2>3
<1> QED
  BY <1>2, <1>3 DEF DdpInv, Types

LEMMA DownStep ==
    ASSUME DdpInv, NEW r \in Ranks, Down(r)
    PROVE  DdpInv'
<1>1. MarkDown(r) /\ UNCHANGED <<key, rank>>
  BY DEF Down
<1>2. /\ run' \in RunType /\ rounds' \in Seq(RoundType)
      /\ Grown(rounds, rounds') /\ Untaken(rounds, rounds')
      /\ BoardFact(run'.dropped, run'.aborted, rounds', key')
  BY <1>1, MarkedDown DEF RunGrows
<1>3. /\ rank[r] \in RankType /\ RankFact(r, rank[r], rounds) /\ key' \in [Syncs -> Nat]
      /\ rank' = [rank EXCEPT ![r] = rank[r]]
  BY <1>1, InvIs
<1> QED
  BY <1>2, <1>3, NobodyTakes

LEMMA HandOverStep ==
    ASSUME DdpInv, NEW r \in Ranks, HandOver(r)
    PROVE  DdpInv'
<1>0. rank[r] \in RankType /\ RankFact(r, rank[r], rounds) /\ run \in RunType
  BY InvIs
<1>1. PICK p \in rank[r].pending :
        /\ p.shares.world > rank[r].shares.world /\ p.join # NoRank
        /\ rank' = Switched(r, p)
        /\ \/ PutSnapshot(p.join, rank[r].model, p.shares) /\ UNCHANGED rounds
           \/ MarkDown(p.join)
  BY DEF HandOver
<1>2. rank[r].pc = "boundary" /\ UNCHANGED key
  BY DEF HandOver
<1>3. PICK y \in RankType : Switched(r, p) = [rank EXCEPT ![r] = y] /\ RankFact(r, y, rounds)
  BY <1>2, SwitchedIs
<1>4. CASE PutSnapshot(p.join, rank[r].model, p.shares) /\ UNCHANGED rounds
  <2> DEFINE m == [model |-> rank[r].model, shares |-> p.shares]
             j == [run.join EXCEPT !.snap = {m}]
             q == [run EXCEPT !.join = j]
  <2>1. p.shares \in ShareType /\ rank[r].shares \in ShareType /\ rank[r].model \in ModelType
    BY <1>0 DEF RankType, PendingType
  <2>2. p.shares \in GrownType
    BY <1>1, <2>1, DdpAssumption DEF ShareType, GrownType, Sizes
  <2>3. Len(rank[r].model) < MaxSeq
    BY <1>0, <1>2 DEF RankFact, Syncing
  <2>4. m \in SnapType
    BY <2>1, <2>2, <2>3 DEF SnapType
  <2>5. run' = q
    BY <1>4 DEF PutSnapshot
  <2>6. run.join \in JoinType
    BY <1>0 DEF RunType
  <2> HIDE DEF m
  <2>7. j \in JoinType
    BY <2>4, <2>6 DEF JoinType
  <2> HIDE DEF j
  <2>8. q \in RunType /\ q.dropped = run.dropped /\ q.aborted = run.aborted
    BY <1>0, <2>7 DEF RunType
  <2>9. RunGrows(run, run')
    BY <2>5, <2>8 DEF RunGrows
  <2> QED
    BY <1>1, <1>2, <1>3, <1>4, <2>9, OneMoves
<1>5. CASE MarkDown(p.join)
  <2>1. p.join \in Ranks
    BY <1>0, <1>1, DdpAssumption DEF RankType, PendingType
  <2>2. /\ run' \in RunType /\ rounds' \in Seq(RoundType)
        /\ Grown(rounds, rounds') /\ Untaken(rounds, rounds')
        /\ BoardFact(run'.dropped, run'.aborted, rounds', key')
    BY <1>2, <1>5, <2>1, MarkedDown DEF RunGrows
  <2>3. key' \in [Syncs -> Nat]
    BY <1>2, InvIs
  <2> QED
    BY <1>1, <1>3, <2>2, <2>3, NobodyTakes
<1> QED
  BY <1>1, <1>4, <1>5

-----------------------------------------------------------------------------
(* A rank posts its sync.                                                   *)

\* A round that is about to take a contribution: a new one has none yet.
Receives(d, x) ==
  /\ x.seen \cup x.fetched \subseteq Ring(x.world)
  /\ x.expected \in 1..x.world /\ x.expected >= Expected(x.world, d)
  /\ x.status = "open" => x.fetched = {}
  /\ x.status # "open" => x.seen # {}
  /\ x.status = "result" /\ ~x.timedOut => Ring(x.world) \ d \subseteq x.seen

LEMMA FoldIs ==
    ASSUME NEW x \in RoundType, NEW r \in Ranks, r \in Ring(x.world),
           NEW d, NEW e, d \subseteq e, Receives(d, x), NEW y, y = Fold(x, r, e)
    PROVE  /\ y \in RoundType /\ RoundOK(e, y)
           /\ y.seq = x.seq /\ y.world = x.world /\ y.fetched = x.fetched
           /\ x.status # "open" => y = x
<1> DEFINE seen == x.seen \cup {r}
           clash == x.seq = 1 /\ \E q \in x.seen : (q \in Odd) # (r \in Odd)
<1>a. x.world \in Sizes /\ x.expected \in Nat
  BY DEF RoundType
<1>b. /\ x.world \in Nat
      /\ Expected(x.world, d) \in 1..x.world /\ Expected(x.world, e) \in 1..x.world
      /\ Expected(x.world, e) <= Expected(x.world, d)
  BY <1>a, ExpectedIs, ExpectedFalls, RingIs
<1>c. x.expected >= Expected(x.world, d)
  BY DEF Receives
<1>1. x.expected >= Expected(x.world, e)
  BY <1>a, <1>b, <1>c
<1>2. CASE x.status # "open"
  <2>1. y = x
    BY <1>2 DEF Fold
  <2> QED
    BY <1>1, <1>2, <2>1 DEF Receives, RoundOK
<1>3. CASE x.status = "open" /\ clash
  <2>1. y = [x EXCEPT !.status = "err"]
    BY <1>3 DEF Fold
  <2>2. /\ y \in RoundType /\ y.status = "err" /\ y.seen = x.seen /\ y.fetched = x.fetched
        /\ y.seq = x.seq /\ y.world = x.world /\ y.expected = x.expected
    BY <2>1 DEF RoundType
  <2>3. x.seen # {}
    BY <1>3
  <2> QED
    BY <1>1, <1>3, <2>2, <2>3 DEF Receives, RoundOK
<1>4. CASE x.status = "open" /\ ~clash
  <2> DEFINE z == [x EXCEPT !.seen = seen]
  <2>1. y = IF LiveIn(seen, e) >= x.expected THEN Finish(z) ELSE z
    BY <1>4 DEF Fold
  <2>2. /\ z \in RoundType /\ z.status = "open" /\ z.seen = seen /\ z.fetched = x.fetched
        /\ z.seq = x.seq /\ z.world = x.world /\ z.expected = x.expected
    BY <1>4 DEF RoundType
  <2> HIDE DEF z
  <2>3. /\ y \in RoundType /\ y.seen = seen /\ y.fetched = x.fetched
        /\ y.seq = x.seq /\ y.world = x.world /\ y.expected = x.expected
        /\ y.status = "open" \/ (y.status = "result" /\ LiveIn(seen, e) >= x.expected)
    BY <2>1, <2>2 DEF Finish, RoundType
  <2>4. seen # {} /\ seen \subseteq Ring(x.world) /\ x.fetched = {}
    BY <1>4 DEF Receives
  <2>5. y.status = "result" => Ring(x.world) \ e \subseteq seen
    BY <1>1, <1>a, <2>3, <2>4, ClosedByAll
  <2> HIDE DEF seen
  <2> QED
    BY <1>1, <1>4, <2>3, <2>4, <2>5 DEF Receives, RoundOK
<1> QED
  BY <1>2, <1>3, <1>4

\* The request waits in its round, or has its answer.
LEMMA PostedRank ==
    ASSUME NEW r \in Ranks, NEW x \in RankType, NEW Q, RankFact(r, x, Q), x.pc = "step",
           NEW k \in Nat, k \in DOMAIN Q, Q[k].seq = Len(x.model) + 1, r < Q[k].world,
           r \notin Q[k].fetched, NEW p \in {"wait", "reply"}, NEW y,
           y = [x EXCEPT !.at = k, !.pc = p]
    PROVE  y \in RankType /\ RankFact(r, y, Q)
<1>1. /\ y \in RankType /\ y.at = k /\ y.pc = p /\ y.model = x.model
      /\ y.pending = x.pending /\ y.shares = x.shares
  BY DEF RankType, Syncing
<1>2. y.pc \notin Coming /\ y.pc \in Syncing /\ x.pc \in Syncing
  BY <1>1 DEF Coming, Syncing
<1> QED
  BY <1>1, <1>2 DEF RankFact

LEMMA PostStep ==
    ASSUME DdpInv, NEW r \in Ranks, Post(r)
    PROVE  DdpInv'
<1> DEFINE s == Seq1(r)
           w == rank[r].shares.world
           k == IF key[s] = 0 THEN Len(rounds) + 1 ELSE key[s]
           old == IF key[s] = 0 THEN NewRound(s, w, run.dropped)
                  ELSE [rounds[k] EXCEPT !.expected = Expected(w, run.dropped)]
<1>0. /\ run \in RunType /\ rounds \in Seq(RoundType) /\ key \in [Syncs -> Nat]
      /\ BoardFact(run.dropped, run.aborted, rounds, key)
      /\ rank[r] \in RankType /\ RankFact(r, rank[r], rounds)
  BY InvIs
<1>1. rank[r].pc = "step" /\ ~run.aborted /\ old.world = w
  BY DEF Post, Admitted, Idle
<1>2. /\ w \in Sizes /\ w \in Nat /\ r < w /\ r \in Ring(w)
      /\ Len(rank[r].model) \in Nat /\ s = Len(rank[r].model) + 1 /\ s \in Syncs
  <2>1. w \in Sizes /\ rank[r].model \in ModelType
    BY <1>0 DEF RankType, ShareType
  <2>2. Len(rank[r].model) \in Nat /\ s = Len(rank[r].model) + 1
    BY <2>1 DEF Seq1, ModelType
  <2>3. r < w /\ Len(rank[r].model) < MaxSeq
    BY <1>0, <1>1 DEF RankFact, Syncing
  <2>4. s \in Syncs
    BY <2>2, <2>3, DdpAssumption
  <2>5. w \in Nat /\ r \in Ring(w)
    BY <2>1, <2>3, RingIs, DdpAssumption DEF Ring
  <2> QED
    BY <2>1, <2>2, <2>3, <2>4, <2>5
<1>3. PICK r1 \in Noticed(r, s, w) :
        LET e == Fold(old, r, r1.dropped) IN
        /\ run' = IF e.status = "err" THEN Aborted(r1) ELSE r1
        /\ rounds' = IF key[s] = 0 THEN Append(rounds, e) ELSE [rounds EXCEPT ![k] = e]
  BY DEF Post
<1> DEFINE e == Fold(old, r, r1.dropped)
<1>4. /\ run' = IF e.status = "err" THEN Aborted(r1) ELSE r1
      /\ rounds' = IF key[s] = 0 THEN Append(rounds, e) ELSE [rounds EXCEPT ![k] = e]
      /\ key' = [key EXCEPT ![s] = k]
      /\ rank' = [rank EXCEPT ![r].at = k, ![r].pc =
                   IF rounds'[k].status = "open" THEN "wait" ELSE "reply"]
  BY <1>3 DEF Post
<1> HIDE DEF s, w
<1>5. /\ run' \in RunType /\ run'.dropped = r1.dropped /\ run.dropped \subseteq r1.dropped
      /\ e.status = "err" => run'.aborted
  <2>1. r1 \in RunType /\ run.dropped \subseteq r1.dropped
    BY <1>0, <1>2, NoticedIs DEF RunGrows
  <2>2. /\ Aborted(r1) \in RunType /\ Aborted(r1).dropped = r1.dropped
        /\ Aborted(r1).aborted
    BY <2>1 DEF Aborted, RunType
  <2> HIDE DEF e
  <2> QED
    BY <1>4, <2>1, <2>2
<1>6. /\ Expected(w, run.dropped) \in 1..w /\ Expected(w, run.dropped) \in Nat
      /\ Expected(w, run.dropped) >= Expected(w, run.dropped)
  BY <1>2, ExpectedIs, InRange
<1>7. ASSUME key[s] # 0
      PROVE  /\ k = key[s] /\ k \in DOMAIN rounds /\ rounds[k] \in RoundType
             /\ rounds[k].seq = s /\ RoundOK(run.dropped, rounds[k])
             /\ rounds[k].status # "err" /\ rounds[k].world = w
             /\ r \notin rounds[k].fetched
  <2>1. k = key[s] /\ k \in DOMAIN rounds /\ rounds[k].seq = s
    BY <1>0, <1>2, <1>7 DEF BoardFact, KeyFact
  <2>2. /\ rounds[k] \in RoundType /\ RoundOK(run.dropped, rounds[k])
        /\ rounds[k].status # "err"
    BY <1>0, <1>1, <2>1, RoundsAre DEF BoardFact, ErrorFact
  <2>3. rounds[k].world = w
    <3>1. old = [rounds[k] EXCEPT !.expected = Expected(w, run.dropped)]
      BY <1>7
    <3>2. old.world = rounds[k].world
      BY <2>2, <3>1 DEF RoundType
    <3> QED
      BY <1>1, <3>2
  <2>4. r \notin rounds[k].fetched
    <3> SUFFICES ASSUME r \in rounds[k].fetched PROVE FALSE
      OBVIOUS
    <3>1. rounds[k].status = "result"
      BY <2>2 DEF RoundOK, RoundType
    <3>2. rounds[k].seq <= Len(rank[r].model)
      BY <1>0, <2>1, <3>1 DEF RankFact, Took
    <3> QED
      BY <1>2, <2>1, <3>2
  <2> QED
    BY <2>1, <2>2, <2>3, <2>4
<1>8. /\ old \in RoundType /\ Receives(run.dropped, old) /\ old.seq = s /\ old.world = w
      /\ r \notin old.fetched
      /\ key[s] = 0 => old.fetched = {}
      /\ key[s] # 0 => /\ old.fetched = rounds[k].fetched /\ old.status = rounds[k].status
                       /\ old.seen = rounds[k].seen
  <2>1. CASE key[s] = 0
    <3>1. old = NewRound(s, w, run.dropped)
      BY <2>1
    <3> DEFINE n == Expected(w, run.dropped)
    <3>0. n \in Nat /\ {} \in SUBSET Ranks
      BY <1>6
    <3> HIDE DEF old, n
    <3>a. old = [seq |-> s, world |-> w, seen |-> {}, fetched |-> {}, status |-> "open",
                 expected |-> n, partial |-> 0, held |-> FALSE, timedOut |-> FALSE]
      BY <3>1 DEF NewRound, n
    <3>b. old \in RoundType
      BY <1>2, <3>0, <3>a DEF RoundType
    <3>2. old \in RoundType /\ old.seen = {} /\ old.fetched = {} /\ old.status = "open"
          /\ old.expected = Expected(w, run.dropped) /\ old.seq = s /\ old.world = w
      BY <3>a, <3>b DEF n
    <3> QED
      BY <1>6, <2>1, <3>2 DEF Receives
  <2>2. CASE key[s] # 0
    <3>1. old = [rounds[k] EXCEPT !.expected = Expected(w, run.dropped)]
      BY <2>2
    <3>2. /\ old \in RoundType /\ old.seen = rounds[k].seen /\ old.fetched = rounds[k].fetched
          /\ old.status = rounds[k].status /\ old.expected = Expected(w, run.dropped)
          /\ old.seq = s /\ old.world = w /\ old.timedOut = rounds[k].timedOut
      BY <1>6, <1>7, <2>2, <3>1 DEF RoundType
    <3> HIDE DEF old, k
    <3> QED
      BY <1>6, <1>7, <2>2, <3>2 DEF Receives, RoundOK
  <2> QED
    BY <2>1, <2>2
<1> HIDE DEF old
<1>9. /\ e \in RoundType /\ RoundOK(r1.dropped, e) /\ e.seq = s /\ e.world = w
      /\ e.fetched = old.fetched /\ r \notin e.fetched
      /\ old.status # "open" => e = old
  BY <1>2, <1>5, <1>8, FoldIs
<1> HIDE DEF e
<1>10. /\ rounds' \in Seq(RoundType) /\ Grown(rounds, rounds') /\ Untaken(rounds, rounds')
       /\ key' \in [Syncs -> Nat] /\ k \in Nat /\ k \in DOMAIN rounds' /\ rounds'[k] = e
       /\ BoardFact(run'.dropped, run'.aborted, rounds', key')
  <2>1. CASE key[s] = 0
    <3>1. rounds' = Append(rounds, e) /\ key' = [key EXCEPT ![s] = Len(rounds) + 1]
          /\ k = Len(rounds) + 1 /\ k \in Nat
      BY <1>0, <1>4, <2>1
    <3>2. /\ rounds' \in Seq(RoundType) /\ Len(rounds') = Len(rounds) + 1 /\ rounds'[k] = e
          /\ \A j \in 1..Len(rounds) : rounds'[j] = rounds[j]
      BY <1>0, <1>9, <3>1, AppendProperties
    <3>3. /\ DOMAIN rounds = 1..Len(rounds) /\ Len(rounds) \in Nat
          /\ DOMAIN rounds' = 1..(Len(rounds) + 1)
      BY <1>0, <3>2, RoundsAre
    <3>4. Untaken(rounds, rounds')
      BY <1>8, <1>9, <2>1, <3>1, <3>2, <3>3 DEF Untaken
    <3> DEFINE d1 == run'.dropped
               b == run'.aborted
               Q == rounds'
               L == key'
    <3>5. RoundOK(d1, e) /\ run.dropped \subseteq d1 /\ (e.status = "err" => b)
      BY <1>5, <1>9
    <3>6. Opens(rounds, Q, key, L, s, run.dropped, d1, run.aborted, b, e)
      BY <1>1, <1>2, <1>9, <2>1, <3>1, <3>5 DEF Opens
    <3>7. BoardFact(run.dropped, run.aborted, rounds, key) /\ key \in [Syncs -> Nat]
      BY <1>0
    <3> HIDE DEF d1, b, Q, L, k
    <3>8. Grown(rounds, Q) /\ BoardFact(d1, b, Q, L)
      BY <1>0, <3>6, <3>7, BoardOpens
    <3>9. Grown(rounds, rounds') /\ BoardFact(run'.dropped, run'.aborted, rounds', key')
      BY <3>8 DEF d1, b, Q, L
    <3>10. key' \in [Syncs -> Nat] /\ k \in Nat /\ k \in DOMAIN rounds'
      BY <1>2, <3>1, <3>3, <3>7
    <3> QED
      BY <3>2, <3>4, <3>9, <3>10
  <2>2. CASE key[s] # 0
    <3>1. k = key[s] /\ k \in 1..Len(rounds) /\ Len(rounds) \in Nat /\ DOMAIN rounds = 1..Len(rounds)
      BY <1>0, <1>7, <2>2, RoundsAre
    <3>2. rounds' = [rounds EXCEPT ![k] = e] /\ key' = key
      <4>1. rounds' = [rounds EXCEPT ![k] = e] /\ key' = [key EXCEPT ![s] = k]
        BY <1>4, <2>2
      <4> HIDE DEF k
      <4> QED
        BY <1>0, <1>2, <3>1, <4>1
    <3> HIDE DEF k
    <3>3. /\ rounds' \in Seq(RoundType) /\ Len(rounds') = Len(rounds)
          /\ \A j \in 1..Len(rounds) : rounds'[j] = IF j = k THEN e ELSE rounds[j]
      BY <1>0, <1>9, <3>1, <3>2, ExceptSeq
    <3>4. DOMAIN rounds' = DOMAIN rounds
      BY <3>1, <3>3, RoundsAre
    <3>5. Untaken(rounds, rounds')
      BY <1>8, <1>9, <2>2, <3>1, <3>3, <3>4 DEF Untaken
    <3>6. Grown(rounds, rounds')
      <4>1. /\ e.seq = rounds[k].seq /\ e.world = rounds[k].world /\ e.fetched = rounds[k].fetched
            /\ rounds[k].status # "open" => e.status = rounds[k].status /\ e.seen = rounds[k].seen
        BY <1>7, <1>8, <1>9, <2>2
      <4> QED
        BY <3>1, <3>3, <4>1 DEF Grown
    <3> DEFINE d1 == run'.dropped
               b == run'.aborted
               Q == rounds'
    <3>7. KeyedChange(rounds, Q, key, d1, b)
      <4>1. RoundOK(d1, e) /\ (e.status = "err" => b)
        BY <1>5, <1>9
      <4>2. key[rounds[k].seq] = k
        BY <1>7, <2>2, <3>1
      <4> QED
        BY <3>1, <3>3, <4>1, <4>2 DEF KeyedChange
    <3>8. /\ Q \in Seq(RoundType) /\ Grown(rounds, Q) /\ Len(Q) = Len(rounds)
          /\ run.dropped \subseteq d1
          /\ run.aborted => b
      BY <1>1, <1>5, <3>3, <3>6
    <3> HIDE DEF d1, b, Q
    <3>9. BoardFact(d1, b, Q, key)
      BY <1>0, <3>7, <3>8, BoardStays
    <3>10. BoardFact(run'.dropped, run'.aborted, rounds', key')
      BY <3>2, <3>9 DEF d1, b, Q
    <3>11. k \in DOMAIN rounds' /\ rounds'[k] = e /\ k \in Nat
      BY <3>1, <3>3, <3>4
    <3> QED
      BY <1>0, <3>2, <3>3, <3>5, <3>6, <3>10, <3>11
  <2> QED
    BY <2>1, <2>2
<1> DEFINE p == IF rounds'[k].status = "open" THEN "wait" ELSE "reply"
           y == [rank[r] EXCEPT !.at = k, !.pc = p]
<1>11. rank' = [rank EXCEPT ![r] = y] /\ p \in {"wait", "reply"}
  BY <1>4
<1>12. RankFact(r, rank[r], rounds')
  <2>1. \A j \in DOMAIN rounds : rounds[j].status = "open" => rounds[j].fetched = {}
    BY <1>0 DEF BoardFact, RoundOK
  <2>2. NotTaking(rounds, rounds', r)
    BY <1>0, <1>10, UntakenIs
  <2> QED
    BY <1>0, <1>10, <2>1, <2>2, RankStays
<1> HIDE DEF p, k
<1>13. y \in RankType /\ RankFact(r, y, rounds')
  <2>1. /\ rounds'[k].seq = Len(rank[r].model) + 1 /\ r < rounds'[k].world
        /\ r \notin rounds'[k].fetched
    BY <1>2, <1>9, <1>10
  <2> QED
    BY <1>0, <1>1, <1>10, <1>11, <1>12, <2>1, PostedRank
<1> HIDE DEF y
<1> QED
  BY <1>5, <1>10, <1>11, <1>13, NobodyTakes

-----------------------------------------------------------------------------
(* The timer of a round, and the answer taken home.                         *)

\* A round under its key changes, and takes no answer home.
LEMMA KeyedStep ==
    ASSUME DdpInv, UNCHANGED <<key, rank>>, run' \in RunType,
           run.dropped \subseteq run'.dropped, run.aborted => run'.aborted,
           NEW s \in Syncs, key[s] # 0, NEW y \in RoundType,
           rounds' = [rounds EXCEPT ![key[s]] = y], RoundOK(run.dropped, y),
           rounds[key[s]].status = "open", y.status = "err" => run'.aborted,
           y.seq = rounds[key[s]].seq, y.world = rounds[key[s]].world,
           y.fetched = rounds[key[s]].fetched
    PROVE  DdpInv'
<1> DEFINE k == key[s]
           d == run'.dropped
           b == run'.aborted
           Q == rounds'
<1>0. /\ rounds \in Seq(RoundType) /\ key \in [Syncs -> Nat]
      /\ BoardFact(run.dropped, run.aborted, rounds, key)
      /\ 0 \in Ranks /\ rank[0] \in RankType /\ RankFact(0, rank[0], rounds)
      /\ rank \in [Ranks -> RankType]
  <2>1. 0 \in Ranks
    BY DdpAssumption
  <2> QED
    BY <2>1, InvIs
<1>1. k \in DOMAIN rounds /\ rounds[k].seq = s
  BY <1>0 DEF BoardFact, KeyFact
<1>2. DOMAIN rounds = 1..Len(rounds) /\ Len(rounds) \in Nat
  BY <1>0, RoundsAre
<1> HIDE DEF k, Q
<1>3. /\ Q \in Seq(RoundType) /\ Len(Q) = Len(rounds)
      /\ \A j \in DOMAIN rounds : Q[j] = IF j = k THEN y ELSE rounds[j]
  <2>1. Q = [rounds EXCEPT ![k] = y]
    BY DEF k, Q
  <2> QED
    BY <1>0, <1>1, <1>2, <2>1, ExceptSeq
<1>4. Grown(rounds, Q)
  BY <1>3, <1>2 DEF Grown, k
<1>5. Untaken(rounds, Q)
  <2>1. DOMAIN Q = DOMAIN rounds
    BY <1>2, <1>3, RoundsAre
  <2> QED
    BY <1>3, <2>1 DEF Untaken, k
<1>6. RoundOK(d, y)
  BY DropsRound
<1>7. KeyedChange(rounds, Q, key, d, b)
  BY <1>1, <1>3, <1>6 DEF KeyedChange, k
<1>8. run.dropped \subseteq d /\ (run.aborted => b)
  OBVIOUS
<1>9. d = run'.dropped /\ b = run'.aborted
  OBVIOUS
<1> HIDE DEF d, b
<1>10. BoardFact(d, b, Q, key)
  BY <1>0, <1>3, <1>4, <1>7, <1>8, BoardStays
<1>11. /\ rounds' \in Seq(RoundType) /\ Grown(rounds, rounds') /\ Untaken(rounds, rounds')
       /\ BoardFact(run'.dropped, run'.aborted, rounds', key') /\ key' \in [Syncs -> Nat]
  BY <1>0, <1>3, <1>4, <1>5, <1>9, <1>10 DEF Q
<1>12. rank' = [rank EXCEPT ![0] = rank[0]]
  BY <1>0
<1> QED
  BY <1>0, <1>11, <1>12, NobodyTakes

LEMMA WaitIs ==
    ASSUME DdpInv, NEW r \in Ranks, Waiting(r), key[Seq1(r)] # 0
    PROVE  /\ Seq1(r) \in Syncs /\ rounds[key[Seq1(r)]] \in RoundType
           /\ key[Seq1(r)] \in DOMAIN rounds
           /\ RoundOK(run.dropped, rounds[key[Seq1(r)]])
<1>0. /\ rounds \in Seq(RoundType) /\ BoardFact(run.dropped, run.aborted, rounds, key)
      /\ rank[r] \in RankType /\ RankFact(r, rank[r], rounds)
  BY InvIs
<1>1. Len(rank[r].model) \in Nat /\ Len(rank[r].model) < MaxSeq
  BY <1>0 DEF Waiting, RankFact, Syncing, RankType, ModelType
<1>2. Seq1(r) \in Syncs
  BY <1>1, DdpAssumption DEF Seq1
<1>3. key[Seq1(r)] \in DOMAIN rounds
  BY <1>0, <1>2 DEF BoardFact, KeyFact
<1> QED
  BY <1>0, <1>2, <1>3, RoundsAre DEF BoardFact

LEMMA HoldStep ==
    ASSUME DdpInv, NEW r \in Ranks, Hold(r)
    PROVE  DdpInv'
<1> DEFINE s == Seq1(r)
           x == rounds[key[s]]
           y == [x EXCEPT !.held = TRUE]
<1>1. /\ Waiting(r) /\ key[s] # 0 /\ x.status = "open" /\ UNCHANGED <<run, key, rank>>
      /\ rounds' = [rounds EXCEPT ![key[s]] = y]
  BY DEF Hold, Holdable
<1>2. s \in Syncs /\ x \in RoundType /\ RoundOK(run.dropped, x)
  BY <1>1, WaitIs
<1>3. /\ y \in RoundType /\ y.seq = x.seq /\ y.world = x.world /\ y.fetched = x.fetched
      /\ y.status = "open" /\ y.seen = x.seen /\ y.expected = x.expected
  BY <1>1, <1>2 DEF RoundType
<1> HIDE DEF y
<1>4. RoundOK(run.dropped, y)
  BY <1>1, <1>2, <1>3 DEF RoundOK
<1>5. run' \in RunType
  BY <1>1, InvIs
<1> HIDE DEF s
<1> QED
  BY <1>1, <1>2, <1>3, <1>4, <1>5, KeyedStep

LEMMA PartialStep ==
    ASSUME DdpInv, NEW r \in Ranks, Partial(r)
    PROVE  DdpInv'
<1> DEFINE s == Seq1(r)
           x == rounds[key[s]]
           h == x.held \/ Busy(x)
           e == [x EXCEPT !.held = h]
           n == Cardinality(e.seen)
           err == [e EXCEPT !.status = "err"]
           closed == [Finish(e) EXCEPT !.partial = n, !.timedOut = TRUE]
<1>1. /\ Waiting(r) /\ key[s] # 0 /\ x.status = "open" /\ UNCHANGED <<key, rank>>
      /\ \/ rounds' = [rounds EXCEPT ![key[s]] = err] /\ run' = Aborted(run)
         \/ /\ rounds' = [rounds EXCEPT ![key[s]] = closed]
            /\ run' = DropMissedStart(e) \/ run' = run
  BY DEF Partial
<1>2. /\ s \in Syncs /\ x \in RoundType /\ RoundOK(run.dropped, x) /\ run \in RunType
  BY <1>1, WaitIs, InvIs
<1>3. h \in BOOLEAN
  BY <1>2 DEF RoundType
<1> HIDE DEF h
<1>4. /\ e \in RoundType /\ e.seq = x.seq /\ e.world = x.world /\ e.fetched = x.fetched
      /\ e.status = "open" /\ e.seen = x.seen /\ e.expected = x.expected
  BY <1>1, <1>2, <1>3 DEF RoundType
<1>5. n \in Nat
  <2>1. e.seen \subseteq Ring(x.world) /\ x.world \in Sizes
    BY <1>2, <1>4 DEF RoundOK, RoundType
  <2> QED
    BY <2>1, RingIs, FS_Subset, FS_CardinalityType
<1> HIDE DEF e, n
<1>6. CASE rounds' = [rounds EXCEPT ![key[s]] = err] /\ run' = Aborted(run)
  <2>1. /\ err \in RoundType /\ err.seq = x.seq /\ err.world = x.world
        /\ err.fetched = x.fetched /\ err.status = "err" /\ err.seen = x.seen
        /\ err.expected = x.expected
    BY <1>4 DEF RoundType
  <2>2. run' \in RunType /\ run'.dropped = run.dropped /\ run'.aborted
    BY <1>2, <1>6 DEF Aborted, RunType
  <2> HIDE DEF err
  <2>3. RoundOK(run.dropped, err)
    BY <1>2, <2>1 DEF RoundOK
  <2> HIDE DEF s
  <2> QED
    BY <1>1, <1>2, <1>6, <2>1, <2>2, <2>3, KeyedStep
<1>7. CASE /\ rounds' = [rounds EXCEPT ![key[s]] = closed]
           /\ run' = DropMissedStart(e) \/ run' = run
  <2>1. /\ closed \in RoundType /\ closed.seq = x.seq /\ closed.world = x.world
        /\ closed.fetched = x.fetched /\ closed.status = "result" /\ closed.seen = x.seen
        /\ closed.expected = x.expected /\ closed.timedOut
    BY <1>4, <1>5 DEF RoundType, Finish
  <2>2. RunGrows(run, run')
    <3>1. e.world \in Sizes
      BY <1>4 DEF RoundType
    <3> QED
      BY <1>2, <1>7, <3>1, MissedStartIs, RunStays
  <2> HIDE DEF closed
  <2>3. RoundOK(run.dropped, closed)
    BY <1>1, <1>2, <2>1 DEF RoundOK
  <2>4. run' \in RunType /\ run.dropped \subseteq run'.dropped /\ run'.aborted = run.aborted
    BY <2>2 DEF RunGrows
  <2>5. closed.status # "err"
    BY <2>1
  <2> HIDE DEF s
  <2> QED
    BY <1>1, <1>2, <1>7, <2>1, <2>3, <2>4, <2>5, KeyedStep
<1> QED
  BY <1>1, <1>6, <1>7

\* The note of a reply, and what the rank makes of it.
LEMMA NoteForType ==
    ASSUME run \in RunType, NEW r, NEW s
    PROVE  NoteFor(r, s) \in NoteType
<1>1. run.note \in NoteType
  BY DEF RunType
<1> QED
  BY <1>1, NoJoinType DEF NoteFor

LEMMA PendingIs ==
    ASSUME NEW r \in Ranks, rank[r] \in RankType, NEW R, RankFact(r, rank[r], R),
           NEW n \in NoteType
    PROVE  Pending(r, n) \subseteq PendingType /\ \A p \in Pending(r, n) : r < p.shares.world
<1> DEFINE x == rank[r]
           sh == CHOOSE t \in n.shares : TRUE
           p == [shares |-> sh, join |-> n.join, from |-> n.from]
<1>1. CASE \E t \in n.shares : t.world >= rank[r].shares.world /\ r \in Sharing(t)
  <2>1. PICK t \in n.shares : r \in Sharing(t)
    BY <1>1
  <2>2. sh \in n.shares
    BY <2>1
  <2>3. n.shares \in OneRing /\ n.join \in {Joiner, NoRank} /\ n.from \in NamedRanks
    BY DEF NoteType
  <2>4. sh = t /\ t \in ShareType
    BY <2>1, <2>2, <2>3 DEF OneRing
  <2>5. t.world \in Nat
    BY <2>4, RingIs DEF ShareType
  <2>6. r < t.world
    <3>1. r \in 0..(t.world - 1)
      BY <2>1 DEF Sharing
    <3> QED
      BY <2>5, <3>1
  <2>7. Pending(r, n) = {p}
    BY <1>1 DEF Pending
  <2> HIDE DEF sh
  <2>8. p \in PendingType /\ p.shares = t
    BY <2>3, <2>4 DEF PendingType
  <2> HIDE DEF p
  <2> QED
    BY <2>6, <2>7, <2>8
<1>2. CASE ~\E t \in n.shares : t.world >= rank[r].shares.world /\ r \in Sharing(t)
  <2>1. Pending(r, n) = rank[r].pending
    BY <1>2 DEF Pending
  <2> QED
    BY <2>1 DEF RankFact, RankType
<1> QED
  BY <1>1, <1>2

\* A request has its round's answer in hand.
LEMMA AnswerIs ==
    ASSUME DdpInv, NEW r \in Ranks, InSync(r), rounds[rank[r].at].status # "open",
           rounds' = [rounds EXCEPT ![rank[r].at].fetched = @ \cup {r}]
    PROVE  /\ Fetches(rounds, rounds', rank[r].at, r)
           /\ rounds[rank[r].at].seq = Len(rank[r].model) + 1
           /\ Len(rank[r].model) \in Nat /\ Len(rank[r].model) < MaxSeq
           /\ r < rank[r].shares.world
<1> DEFINE k == rank[r].at
<1>0. /\ rounds \in Seq(RoundType) /\ rank[r] \in RankType /\ RankFact(r, rank[r], rounds)
  BY InvIs
<1>1. rank[r].pc \in {"wait", "reply"} /\ rank[r].pc \in Syncing
  BY DEF InSync, Syncing
<1>2. /\ k \in DOMAIN rounds /\ rounds[k].seq = Len(rank[r].model) + 1
      /\ r < rounds[k].world /\ r \notin rounds[k].fetched
      /\ Len(rank[r].model) < MaxSeq /\ r < rank[r].shares.world
  BY <1>0, <1>1 DEF RankFact
<1>3. rounds[k] \in RoundType
  BY <1>0, <1>2, RoundsAre
<1>4. rounds[k].world \in Nat
  BY <1>3, RingIs DEF RoundType
<1>5. r \in Ring(rounds[k].world)
  BY <1>2, <1>4, DdpAssumption DEF Ring
<1>6. Len(rank[r].model) \in Nat
  BY <1>0 DEF RankType, ModelType
<1> QED
  BY <1>2, <1>5, <1>6 DEF Fetches

\* One rank takes an answer home; what it makes of it is y.
LEMMA OneTakes ==
    ASSUME DdpInv, NEW r \in Ranks, NEW k, Fetches(rounds, rounds', k, r),
           run' \in RunType, run'.dropped = run.dropped, run'.aborted = run.aborted,
           \/ key' = key
           \/ /\ key' = [key EXCEPT ![rounds[k].seq] = 0]
              /\ rounds[k].status = "result" => AllTook(rounds[k], rounds[k].fetched \cup {r}),
           NEW y \in RankType, rank' = [rank EXCEPT ![r] = y], RankFact(r, y, rounds')
    PROVE  DdpInv'
<1>0. /\ rounds \in Seq(RoundType) /\ rank \in [Ranks -> RankType] /\ key \in [Syncs -> Nat]
      /\ BoardFact(run.dropped, run.aborted, rounds, key)
      /\ \A q \in Ranks : RankFact(q, rank[q], rounds)
  BY InvIs
<1>1. /\ rounds' \in Seq(RoundType) /\ Grown(rounds, rounds') /\ Len(rounds') = Len(rounds)
      /\ \A j \in DOMAIN rounds : j # k => rounds'[j] = rounds[j]
      /\ rounds'[k].fetched = rounds[k].fetched \cup {r}
  BY <1>0, FetchesIs
<1>2. BoardFact(run.dropped, run.aborted, rounds', key') /\ key' \in [Syncs -> Nat]
  BY <1>0, BoardFetched, ZenonT(60)
<1>3. \A j \in DOMAIN rounds : rounds[j].status = "open" => rounds[j].fetched = {}
  BY <1>0 DEF BoardFact, RoundOK
<1>4. DOMAIN rounds' = DOMAIN rounds /\ k \in DOMAIN rounds
  BY <1>0, <1>1, RoundsAre DEF Fetches
<1>5. ASSUME NEW q \in Ranks PROVE RankFact(q, rank'[q], rounds')
  <2>1. CASE q = r
    BY <1>0, <2>1
  <2>2. CASE q # r
    <3>1. NotTaking(rounds, rounds', q)
      BY <1>1, <1>4, <2>2 DEF NotTaking
    <3>2. rank'[q] = rank[q]
      BY <1>0, <2>2
    <3> QED
      BY <1>0, <1>1, <1>3, <3>1, <3>2, RankStays
  <2> QED
    BY <2>1, <2>2
<1>6. rank' \in [Ranks -> RankType]
  BY <1>0
<1> QED
  BY <1>1, <1>2, <1>5, <1>6 DEF DdpInv, Types

\* What rank r has taken home, before and after.
LEMMA TookAfter ==
    ASSUME NEW R \in Seq(RoundType), NEW Q, NEW k, NEW r \in Ranks, Fetches(R, Q, k, r)
    PROVE  /\ DOMAIN Q = DOMAIN R
           /\ \A j \in DOMAIN R : j # k => (Took(Q, r, j) <=> Took(R, r, j)) /\ Q[j] = R[j]
           /\ ~Took(R, r, k)
           /\ Took(Q, r, k) <=> R[k].status = "result"
<1>1. /\ Q \in Seq(RoundType) /\ Len(Q) = Len(R)
      /\ \A j \in DOMAIN R : j # k => Q[j] = R[j]
      /\ Q[k].fetched = R[k].fetched \cup {r} /\ Q[k].status = R[k].status
  BY FetchesIs
<1>2. DOMAIN Q = DOMAIN R /\ r \notin R[k].fetched
  BY <1>1, RoundsAre DEF Fetches
<1> QED
  BY <1>1, <1>2 DEF Took

\* Who was told of the note is all an answer may change in the run.
LEMMA ToldIs ==
    ASSUME run \in RunType, NEW r \in Ranks,
           run' = run \/ run' = [run EXCEPT !.noteTold = @ \cup {r}]
    PROVE  run' \in RunType /\ run'.dropped = run.dropped /\ run'.aborted = run.aborted
<1>1. run.noteTold \cup {r} \in SUBSET Ranks
  BY DEF RunType
<1> QED
  BY <1>1 DEF RunType

LEMMA TakeAbortStep ==
    ASSUME DdpInv, NEW r \in Ranks, TakeAbort(r)
    PROVE  DdpInv'
<1> DEFINE k == rank[r].at
           y == [rank[r] EXCEPT !.pc = "stopped"]
<1>1. /\ InSync(r) /\ rounds[k].status = "err"
      /\ rounds' = [rounds EXCEPT ![k].fetched = @ \cup {r}]
      /\ key' = [key EXCEPT ![rounds[k].seq] = 0]
      /\ rank' = [rank EXCEPT ![r] = y]
      /\ run' = run \/ run' = [run EXCEPT !.noteTold = @ \cup {r}]
  BY DEF TakeAbort
<1>0. rounds \in Seq(RoundType) /\ rank[r] \in RankType /\ RankFact(r, rank[r], rounds)
      /\ run \in RunType
  BY InvIs
<1>2. Fetches(rounds, rounds', k, r)
  BY <1>1, AnswerIs
<1>3. run' \in RunType /\ run'.dropped = run.dropped /\ run'.aborted = run.aborted
  BY <1>0, <1>1, ToldIs
<1>4. "stopped" \in Ended
  BY DEF Ended
<1>5. y \in RankType /\ RankFact(r, y, rounds) /\ y.pc = "stopped"
  BY <1>0, <1>4, EndedPc DEF RankType
<1> HIDE DEF y
<1>6. RankFact(r, y, rounds')
  <2>1. /\ DOMAIN rounds' = DOMAIN rounds
        /\ \A j \in DOMAIN rounds : j # k =>
             (Took(rounds', r, j) <=> Took(rounds, r, j)) /\ rounds'[j] = rounds[j]
        /\ ~Took(rounds, r, k) /\ ~Took(rounds', r, k)
    BY <1>0, <1>1, <1>2, TookAfter
  <2>2. y.pc \notin Syncing /\ y.pc \notin Coming /\ y.pc \notin {"wait", "reply"}
    BY <1>5 DEF Syncing, Coming
  <2>3. \A j \in DOMAIN rounds' : Took(rounds', r, j) =>
          rounds'[j].seq <= Len(y.model) /\ (r # Joiner => y.model[rounds'[j].seq] = rounds'[j].seen)
    BY <1>5, <2>1 DEF RankFact
  <2>4. r # Joiner => \A i \in 1..Len(y.model) :
          \E j \in DOMAIN rounds' : Took(rounds', r, j) /\ rounds'[j].seq = i
    <3> SUFFICES ASSUME r # Joiner, NEW i \in 1..Len(y.model)
                 PROVE  \E j \in DOMAIN rounds' : Took(rounds', r, j) /\ rounds'[j].seq = i
      OBVIOUS
    <3>1. PICK j \in DOMAIN rounds : Took(rounds, r, j) /\ rounds[j].seq = i
      BY <1>5 DEF RankFact
    <3> QED
      BY <2>1, <3>1
  <2> QED
    BY <1>5, <2>2, <2>3, <2>4 DEF RankFact
<1> HIDE DEF k
<1> QED
  BY <1>1, <1>2, <1>3, <1>5, <1>6, OneTakes

\* The rank's model after it applied an average.
LEMMA TakenModel ==
    ASSUME NEW R \in Seq(RoundType), NEW Q, NEW k, NEW r \in Ranks, Fetches(R, Q, k, r),
           R[k].status = "result", NEW x \in RankType, RankFact(r, x, R),
           R[k].seq = Len(x.model) + 1, Len(x.model) < MaxSeq,
           NEW y \in RankType, y.model = Append(x.model, R[k].seen), y.shares = x.shares,
           y.pc \notin Coming, y.pc \notin {"wait", "reply"},
           y.pc \in Syncing => Len(x.model) + 1 < MaxSeq /\ r < y.shares.world,
           \A p \in y.pending : r < p.shares.world
    PROVE  RankFact(r, y, Q)
<1>1. /\ DOMAIN Q = DOMAIN R /\ k \in DOMAIN R
      /\ \A j \in DOMAIN R : j # k => (Took(Q, r, j) <=> Took(R, r, j)) /\ Q[j] = R[j]
      /\ ~Took(R, r, k) /\ Took(Q, r, k)
      /\ Q[k].seq = R[k].seq /\ Q[k].seen = R[k].seen
  <2>1. /\ DOMAIN Q = DOMAIN R
        /\ \A j \in DOMAIN R : j # k => (Took(Q, r, j) <=> Took(R, r, j)) /\ Q[j] = R[j]
        /\ ~Took(R, r, k) /\ Took(Q, r, k)
    BY TookAfter
  <2>2. Q[k].seq = R[k].seq /\ Q[k].seen = R[k].seen
    BY FetchesIs
  <2>3. k \in DOMAIN R
    BY DEF Fetches
  <2> QED
    BY <2>1, <2>2, <2>3
<1> DEFINE m == x.model
           n == Len(m)
<1>2. R[k].seen \in SUBSET Ranks /\ \A j \in DOMAIN R : R[j].seq \in Syncs
  BY <1>1, RoundsAre DEF RoundType
<1>3. m \in Seq(SUBSET Ranks)
  BY DEF RankType, ModelType
<1>4. /\ n \in Nat /\ Len(y.model) = n + 1 /\ y.model[n + 1] = R[k].seen
      /\ \A i \in 1..n : y.model[i] = m[i]
  BY <1>2, <1>3, AppendProperties
<1> HIDE DEF m
<1>5. n + 1 <= MaxSeq /\ R[k].seq = n + 1
  BY <1>4, DdpAssumption DEF m
<1>6. ASSUME NEW j \in DOMAIN Q, Took(Q, r, j)
      PROVE  Q[j].seq <= n + 1 /\ (r # Joiner => y.model[Q[j].seq] = Q[j].seen)
  <2>1. CASE j = k
    BY <1>1, <1>4, <1>5, <2>1
  <2>2. CASE j # k
    <3>1. j \in DOMAIN R /\ Took(R, r, j) /\ Q[j] = R[j]
      BY <1>1, <1>6, <2>2
    <3>2. R[j].seq <= n /\ (r # Joiner => m[R[j].seq] = R[j].seen)
      BY <3>1 DEF RankFact, m
    <3>3. R[j].seq \in 1..n
      BY <1>2, <1>4, <3>1, <3>2, DdpAssumption
    <3> QED
      BY <1>4, <3>1, <3>2, <3>3
  <2> QED
    BY <2>1, <2>2
<1>7. ASSUME r # Joiner, NEW i \in 1..(n + 1)
      PROVE  \E j \in DOMAIN Q : Took(Q, r, j) /\ Q[j].seq = i
  <2>1. CASE i = n + 1
    BY <1>1, <1>5, <2>1
  <2>2. CASE i # n + 1
    <3>1. i \in 1..n
      BY <1>4, <2>2
    <3>2. PICK j \in DOMAIN R : Took(R, r, j) /\ R[j].seq = i
      BY <1>7, <3>1 DEF RankFact, m
    <3> QED
      BY <1>1, <3>2
  <2> QED
    BY <2>1, <2>2
<1>8. y.pc \in Syncing => Len(y.model) < MaxSeq /\ r < y.shares.world
  BY <1>4 DEF m
<1> HIDE DEF n
<1> QED
  BY <1>4, <1>5, <1>6, <1>7, <1>8 DEF RankFact

LEMMA TakeResultStep ==
    ASSUME DdpInv, NEW r \in Ranks, TakeResult(r)
    PROVE  DdpInv'
<1> DEFINE k == rank[r].at
           e == rounds[k]
           s == e.seq
           n == NoteFor(r, s)
           fetched == e.fetched \cup {r}
           m == Append(rank[r].model, e.seen)
           pe == Pending(r, n)
           c == IF n.drop = r THEN "solo" ELSE AfterSync(s)
           y == [rank[r] EXCEPT !.model = m, !.pending = pe, !.pc = c]
<1>1. /\ InSync(r) /\ e.status = "result"
      /\ rounds' = [rounds EXCEPT ![k].fetched = @ \cup {r}]
      /\ \/ key' = key
         \/ key' = [key EXCEPT ![s] = 0] /\ AllTook(e, fetched)
      /\ rank' = [rank EXCEPT ![r] = y]
      /\ run' = run \/ run' = [run EXCEPT !.noteTold = @ \cup {r}]
  BY DEF TakeResult
<1>0. /\ rounds \in Seq(RoundType) /\ rank[r] \in RankType /\ RankFact(r, rank[r], rounds)
      /\ run \in RunType
  BY InvIs
<1>2. /\ Fetches(rounds, rounds', k, r) /\ s = Len(rank[r].model) + 1
      /\ Len(rank[r].model) \in Nat /\ Len(rank[r].model) < MaxSeq
      /\ r < rank[r].shares.world
  BY <1>1, AnswerIs
<1>3. run' \in RunType /\ run'.dropped = run.dropped /\ run'.aborted = run.aborted
  BY <1>0, <1>1, ToldIs
<1>4. pe \subseteq PendingType /\ \A p \in pe : r < p.shares.world
  BY <1>0, NoteForType, PendingIs
<1>5. m \in ModelType
  <2>1. e \in RoundType
    BY <1>0, <1>2, RoundsAre DEF Fetches
  <2>2. e.seen \in SUBSET Ranks /\ rank[r].model \in Seq(SUBSET Ranks)
    BY <1>0, <2>1 DEF RoundType, RankType, ModelType
  <2> HIDE DEF e
  <2> QED
    BY <2>2, AppendProperties DEF ModelType
<1>6. /\ c \in {"solo", "done", "boundary", "step"}
      /\ c \in {"boundary", "step"} => s # MaxSeq
  BY DEF AfterSync
<1> HIDE DEF pe, m, c
<1>7. /\ y \in RankType /\ y.model = m /\ y.pending = pe /\ y.pc = c
      /\ y.shares = rank[r].shares
  BY <1>0, <1>4, <1>5, <1>6 DEF RankType, Syncing, Ended
<1> HIDE DEF y
<1>8. /\ y.pc \notin Coming /\ y.pc \notin {"wait", "reply"}
      /\ y.pc \in Syncing => s # MaxSeq
  BY <1>6, <1>7 DEF Coming, Syncing
<1>9. y.pc \in Syncing => Len(rank[r].model) + 1 < MaxSeq /\ r < y.shares.world
  BY <1>2, <1>7, <1>8, DdpAssumption
<1>10. RankFact(r, y, rounds')
  <2>1. y.model = Append(rank[r].model, rounds[k].seen)
    BY <1>7 DEF m
  <2>2. /\ rounds[k].status = "result" /\ rounds[k].seq = Len(rank[r].model) + 1
        /\ y.shares = rank[r].shares /\ \A p \in y.pending : r < p.shares.world
    BY <1>1, <1>2, <1>4, <1>7
  <2> HIDE DEF k
  <2> QED
    BY <1>0, <1>2, <1>7, <1>8, <1>9, <2>1, <2>2, TakenModel
<1>11. \/ key' = key
       \/ /\ key' = [key EXCEPT ![rounds[k].seq] = 0]
          /\ rounds[k].status = "result" => AllTook(rounds[k], rounds[k].fetched \cup {r})
  BY <1>1
<1>12. rank' = [rank EXCEPT ![r] = y] /\ y \in RankType
  BY <1>1, <1>7
<1> HIDE DEF k
<1> QED
  BY <1>2, <1>3, <1>10, <1>11, <1>12, OneTakes

-----------------------------------------------------------------------------
(* The invariant holds.                                                     *)

LEMMA InitInv ==
    ASSUME Init
    PROVE  DdpInv
<1>1. World \in Sizes /\ World \in Nat /\ NoRank \in NamedRanks
  BY DdpAssumption DEF Sizes, NamedRanks
<1>2. FirstShares \in ShareType
  <2>1. {} \in SUBSET Ranks
    OBVIOUS
  <2> QED
    BY <1>1, <2>1 DEF FirstShares, ShareType
<1>3. run \in RunType
  <2>1. {} \in SUBSET Ranks /\ 0 \in 0..MaxSeq /\ 0 \in 0..(MaxSeq + 1)
    BY DdpAssumption
  <2>2. run = [aborted |-> FALSE, dropped |-> {}, lastSeq |-> 0, world |-> World,
               shares |-> FirstShares, reports |-> {}, join |-> NoJoin,
               loading |-> NoRank, note |-> NoNote, noteSeq |-> 0, noteTold |-> {}]
    BY DEF Init, NewRun
  <2> QED
    BY <1>1, <1>2, <2>1, <2>2, NoJoinType DEF RunType
<1>4. /\ rounds \in Seq(RoundType) /\ DOMAIN rounds = {} /\ key \in [Syncs -> Nat]
      /\ \A s \in Syncs : key[s] = 0
  BY DEF Init
<1>5. ASSUME NEW r \in Ranks PROVE rank[r] \in RankType /\ RankFact(r, rank[r], rounds)
  <2> DEFINE x == rank[r]
  <2>1. x = [pc |-> IF r = Joiner THEN "absent" ELSE "step", at |-> 0,
             model |-> <<>>, shares |-> FirstShares, pending |-> {}]
    BY DEF Init
  <2> HIDE DEF x
  <2>2. /\ x.pc = (IF r = Joiner THEN "absent" ELSE "step") /\ x.at = 0 /\ x.model = <<>>
        /\ x.shares = FirstShares /\ x.pending = {}
    BY <2>1
  <2>3. <<>> \in ModelType /\ Len(<<>>) = 0 /\ {} \in SUBSET PendingType
    BY DEF ModelType
  <2>4. x \in RankType
    BY <1>2, <2>1, <2>3 DEF RankType, Syncing, Coming
  <2>5. x.pc \in Syncing => r # Joiner
    BY <2>2 DEF Syncing
  <2>6. r # Joiner => r < FirstShares.world
    BY <1>1 DEF FirstShares
  <2>7. x.pc \in Coming => r = Joiner
    BY <2>2 DEF Coming
  <2>8. x.pc \notin {"wait", "reply"} /\ 0 < MaxSeq /\ 1..0 = {}
    BY <2>2, DdpAssumption
  <2>9. RankFact(r, x, rounds)
    <3>1. Len(x.model) = 0 /\ Len(x.model) <= MaxSeq /\ 1..Len(x.model) = {}
      BY <2>2, <2>3, <2>8, DdpAssumption
    <3>2. x.pc \in Syncing => Len(x.model) < MaxSeq /\ r < x.shares.world
      BY <2>2, <2>5, <2>6, <2>8, <3>1
    <3>3. x.pc \in Coming => r = Joiner /\ x.model = <<>>
      BY <2>2, <2>7
    <3>4. \A p \in x.pending : r < p.shares.world
      BY <2>2
    <3> QED
      BY <1>4, <2>8, <3>1, <3>2, <3>3, <3>4 DEF RankFact
  <2> QED
    BY <2>4, <2>9 DEF x
<1>6. rank \in [Ranks -> RankType]
  <2>1. rank = [r \in Ranks |-> rank[r]]
    BY DEF Init
  <2> QED
    BY <1>5, <2>1
<1>7. BoardFact(run.dropped, run.aborted, rounds, key)
  BY <1>4 DEF BoardFact, KeyFact, GoneFact
<1> QED
  BY <1>3, <1>4, <1>5, <1>6, <1>7 DEF DdpInv, Types

LEMMA NextInv ==
    ASSUME DdpInv, [Next]_vars
    PROVE  DdpInv'
<1>1. CASE UNCHANGED vars
  <2>1. UNCHANGED <<run, rounds, key, rank>>
    BY <1>1 DEF vars
  <2> QED
    BY <2>1, InvIs, RunStays, RanksMove
<1>2. ASSUME NEW r \in Ranks, Rank(r) PROVE DdpInv'
  <2>1. CASE \/ Refused(r) \/ MissedStart(r) \/ WrongWorld(r) \/ PartialGone(r)
             \/ HardTimeout(r) \/ Die(r) \/ FinishAlone(r)
    BY <2>1, EndingStep
  <2>2. CASE Post(r)
    BY <2>2, PostStep
  <2>3. CASE Hold(r)
    BY <2>3, HoldStep
  <2>4. CASE Partial(r)
    BY <2>4, PartialStep
  <2>5. CASE TakeResult(r)
    BY <2>5, TakeResultStep
  <2>6. CASE TakeAbort(r)
    BY <2>6, TakeAbortStep
  <2>7. CASE Boundary(r)
    BY <2>7, BoundaryStep
  <2>8. CASE HandOver(r)
    BY <2>8, HandOverStep
  <2>9. CASE Down(r)
    BY <2>9, DownStep
  <2> QED
    BY <1>2, <2>1, <2>2, <2>3, <2>4, <2>5, <2>6, <2>7, <2>8, <2>9 DEF Rank
<1>3. CASE Join
  BY <1>3, JoinStep
<1>4. CASE TakeSnapshot
  BY <1>4, SnapshotStep
<1>5. CASE Joined
  BY <1>5, JoinedStep
<1>6. CASE EndRun \/ Grace
  BY <1>6, StopStep
<1> QED
  BY <1>1, <1>2, <1>3, <1>4, <1>5, <1>6 DEF Next, Over

\* What may have closed each round, what is on the board, and what each rank's
\* model is made of.
THEOREM BoardInvariant == Spec => []DdpInv
<1>1. Init => DdpInv
  BY InitInv
<1>2. DdpInv /\ [Next]_vars => DdpInv'
  BY NextInv
<1> QED
  BY <1>1, <1>2, PTL DEF Spec

-----------------------------------------------------------------------------
(* What it says of the averages.                                            *)

LEMMA TypesHold ==
    ASSUME DdpInv
    PROVE  TypeOK
<1>0. /\ run \in RunType /\ rounds \in Seq(RoundType) /\ key \in [Syncs -> Nat]
      /\ BoardFact(run.dropped, run.aborted, rounds, key)
  BY InvIs
<1>1. /\ run.aborted \in BOOLEAN /\ run.lastSeq \in 0..MaxSeq
      /\ UNION {run.dropped, run.reports, run.noteTold, run.shares.out} \subseteq Ranks
      /\ run.noteSeq \in 0..(MaxSeq + 1) /\ run.world \in {World, World + 1}
      /\ run.loading \in {Joiner, NoRank} /\ run.join.rank \in {Joiner, NoRank}
  <2>1. /\ run.dropped \subseteq Ranks /\ run.reports \subseteq Ranks
        /\ run.noteTold \subseteq Ranks /\ run.shares \in ShareType /\ run.join \in JoinType
    BY <1>0 DEF RunType
  <2>2. run.shares.out \subseteq Ranks /\ run.join.rank \in {Joiner, NoRank}
    BY <2>1 DEF ShareType, JoinType
  <2>3. UNION {run.dropped, run.reports, run.noteTold, run.shares.out} \subseteq Ranks
    BY <2>1, <2>2
  <2> QED
    BY <1>0, <2>2, <2>3 DEF RunType, Sizes
<1>2. ASSUME NEW s \in Syncs
      PROVE  key[s] \in 0..Len(rounds) /\ (key[s] # 0 => rounds[key[s]].seq = s)
  <2>1. key[s] # 0 => key[s] \in 1..Len(rounds) /\ rounds[key[s]].seq = s
    BY <1>0, RoundsAre DEF BoardFact, KeyFact
  <2>2. Len(rounds) \in Nat
    BY <1>0
  <2> QED
    BY <2>1, <2>2
<1>3. ASSUME NEW i \in DOMAIN rounds
      PROVE  LET e == rounds[i] IN
             /\ e.status \in {"open", "result", "err"} /\ e.expected \in 1..e.world
             /\ e.seen # {} /\ e.seen \cup e.fetched \subseteq 0..(e.world - 1)
  <2>1. rounds[i] \in RoundType /\ RoundOK(run.dropped, rounds[i])
    BY <1>0, RoundsAre DEF BoardFact
  <2> QED
    BY <2>1 DEF RoundOK, RoundType, Ring
<1>4. ASSUME NEW r \in Ranks
      PROVE  /\ Len(rank[r].model) \in 0..MaxSeq
             /\ InSync(r) => rank[r].at \in DOMAIN rounds /\ rounds[rank[r].at].seq = Seq1(r)
  <2>1. rank[r] \in RankType /\ RankFact(r, rank[r], rounds)
    BY InvIs
  <2>2. Len(rank[r].model) \in Nat /\ Len(rank[r].model) <= MaxSeq
    BY <2>1 DEF RankType, ModelType, RankFact
  <2>3. InSync(r) => rank[r].at \in DOMAIN rounds /\ rounds[rank[r].at].seq = Seq1(r)
    BY <2>1 DEF InSync, RankFact, Seq1
  <2> QED
    BY <2>2, <2>3, DdpAssumption
<1> QED
  BY <1>1, <1>2, <1>3, <1>4 DEF TypeOK

\* Only a round's timer leaves a rank of the ring out of an average: neither a
\* contribution of a rank that was dropped nor the drop itself closes a round on
\* a rank still to come (liveIn, dropsBelow, markRankDownLocked).
THEOREM NobodyLeftOut == Spec => []OnlyTimeoutLeavesOut
<1>1. DdpInv => OnlyTimeoutLeavesOut
  <2> SUFFICES ASSUME DdpInv PROVE OnlyTimeoutLeavesOut
    OBVIOUS
  <2>1. ASSUME NEW i \in DOMAIN rounds, rounds[i].status = "result", ~rounds[i].timedOut
        PROVE  (0..(rounds[i].world - 1)) \ run.dropped \subseteq rounds[i].seen
    <3>1. RoundOK(run.dropped, rounds[i])
      BY InvIs DEF BoardFact
    <3> QED
      BY <2>1, <3>1 DEF RoundOK, Ring
  <2> QED
    BY <2>1, TypesHold DEF OnlyTimeoutLeavesOut
<1> QED
  BY <1>1, BoardInvariant, PTL

\* A round that is followed by another of its sync is not on the board: every
\* live rank took its answer home, or the sync counts as reopened.
LEMMA Followed2 ==
    ASSUME DdpInv, NEW i \in DOMAIN rounds, NEW j \in DOMAIN rounds, i < j,
           rounds[i].seq = rounds[j].seq
    PROVE  \/ Reopened(rounds[i].seq)
           \/ /\ rounds[i].status = "result"
              /\ Ring(rounds[i].world) \ run.dropped \subseteq rounds[i].fetched
<1> DEFINE s == rounds[i].seq
<1>0. /\ rounds \in Seq(RoundType) /\ key \in [Syncs -> Nat]
      /\ BoardFact(run.dropped, run.aborted, rounds, key)
  BY InvIs
<1>1. rounds[i] \in RoundType /\ j \in Later(rounds, i)
  BY <1>0, RoundsAre DEF Later
<1>2. s \in Syncs /\ rounds[i].status \in {"open", "result", "err"}
  BY <1>1 DEF RoundType
<1>3. rounds[i].status # "err"
  BY <1>0, <1>1 DEF BoardFact, ErrorFact
<1>4. key[s] # i
  <2>1. i # 0
    BY <1>0, RoundsAre
  <2> QED
    BY <1>0, <1>1, <1>2, <2>1 DEF BoardFact, KeyFact
<1>5. ReopenedIn(run.dropped, rounds, s) \/
        (rounds[i].status = "result" /\ TakenHome(run.dropped, rounds[i]))
  BY <1>0, <1>2, <1>3, <1>4 DEF BoardFact, GoneFact
<1>6. rounds[i].fetched \cap run.dropped # {} => Reopened(s)
  BY DEF Reopened
<1> QED
  BY <1>5, <1>6 DEF ReopenedIn, Reopened, TakenHome

\* A rank the run started with is in every ring.
LEMMA StarterIs ==
    ASSUME NEW r \in Starters
    PROVE  r \in Ranks /\ r # Joiner /\ \A w \in Sizes : r \in Ring(w)
BY DdpAssumption DEF Starters, Ring, Sizes

\* Two ranks that took the same sync home from two rounds.
LEMMA TwoRounds ==
    ASSUME DdpInv, NEW r \in Starters, NEW q \in Starters, Live(q),
           NEW i \in DOMAIN rounds, NEW j \in DOMAIN rounds, i < j,
           rounds[i].seq = rounds[j].seq, Took(rounds, r, i), Took(rounds, q, j)
    PROVE  \/ rank[r].model[rounds[i].seq] = rank[q].model[rounds[i].seq]
           \/ Reopened(rounds[i].seq)
<1>0. rounds \in Seq(RoundType) /\ \A p \in Ranks : RankFact(p, rank[p], rounds)
  BY InvIs
<1>1. CASE Ring(rounds[i].world) \ run.dropped \subseteq rounds[i].fetched
  <2>1. rounds[i].world \in Sizes
    BY <1>0, RoundsAre DEF RoundType
  <2>2. Took(rounds, q, i)
    BY <1>1, <2>1, StarterIs DEF Live, Took
  <2>3. r \in Ranks /\ q \in Ranks /\ r # Joiner /\ q # Joiner
    BY StarterIs
  <2>4. RankFact(r, rank[r], rounds) /\ RankFact(q, rank[q], rounds)
    BY <1>0, <2>3
  <2>5. rank[r].model[rounds[i].seq] = rounds[i].seen
    BY <2>3, <2>4 DEF RankFact
  <2>6. rank[q].model[rounds[i].seq] = rounds[i].seen
    BY <2>2, <2>3, <2>4 DEF RankFact
  <2> QED
    BY <2>5, <2>6
<1> QED
  BY <1>1, Followed2

\* Ranks still in the ring never drift: any two applied the same average for
\* every sync they both made, late ranks and short-handed rounds included,
\* except for a sync that was reopened after a drop.
THEOREM NobodyDrifts == Spec => []SameModel
<1>1. DdpInv => SameModel
  <2> SUFFICES ASSUME DdpInv, NEW r \in Starters, NEW q \in Starters, Live(r), Live(q),
                      NEW s \in DOMAIN rank[r].model \cap DOMAIN rank[q].model
               PROVE  rank[r].model[s] = rank[q].model[s] \/ Reopened(s)
    BY DEF SameModel
  <2>1. /\ r \in Ranks /\ q \in Ranks /\ r # Joiner /\ q # Joiner
    BY StarterIs
  <2>2. /\ rounds \in Seq(RoundType) /\ RankFact(r, rank[r], rounds) /\ RankFact(q, rank[q], rounds)
        /\ rank[r] \in RankType /\ rank[q] \in RankType
    BY <2>1, InvIs
  <2>3. s \in 1..Len(rank[r].model) /\ s \in 1..Len(rank[q].model)
    BY <2>2 DEF RankType, ModelType
  <2>4. PICK i \in DOMAIN rounds : Took(rounds, r, i) /\ rounds[i].seq = s
    BY <2>1, <2>2, <2>3 DEF RankFact
  <2>5. PICK j \in DOMAIN rounds : Took(rounds, q, j) /\ rounds[j].seq = s
    BY <2>1, <2>2, <2>3 DEF RankFact
  <2>6. CASE i = j
    BY <2>1, <2>2, <2>4, <2>5, <2>6 DEF RankFact
  <2>7. CASE i < j
    BY <2>4, <2>5, <2>7, TwoRounds
  <2>8. CASE j < i
    BY <2>4, <2>5, <2>8, TwoRounds
  <2>9. i \in Nat /\ j \in Nat
    BY <2>2, RoundsAre
  <2> QED
    BY <2>6, <2>7, <2>8, <2>9
<1> QED
  BY <1>1, BoardInvariant, PTL

\* A round stays on the board until the last live rank has its answer: a rank
\* that comes late takes that answer home and does not open the round again,
\* unless the sync was reopened on another.
THEOREM LateRankAnswered == Spec => []LateTakesKeptAnswer
<1>1. DdpInv => LateTakesKeptAnswer
  <2> SUFFICES ASSUME DdpInv PROVE LateTakesKeptAnswer
    OBVIOUS
  <2>0. /\ rounds \in Seq(RoundType) /\ BoardFact(run.dropped, run.aborted, rounds, key)
    BY InvIs
  <2>1. ASSUME NEW i \in DOMAIN rounds, rounds[i].status = "open"
        PROVE  key[rounds[i].seq] = i \/ Reopened(rounds[i].seq)
    <3>1. rounds[i].seq \in Syncs
      BY <2>0, RoundsAre DEF RoundType
    <3>2. GoneFact(run.dropped, rounds, key, rounds[i].seq)
      BY <2>0, <3>1 DEF BoardFact
    <3> QED
      BY <2>1, <3>2 DEF GoneFact, ReopenedIn, Reopened
  <2>2. ASSUME NEW r \in Starters, Live(r), InSync(r), NEW i \in DOMAIN rounds,
               rounds[i].seq = Seq1(r), i # rank[r].at
        PROVE  Reopened(Seq1(r))
    <3> DEFINE k == rank[r].at
               s == Seq1(r)
    <3>1. r \in Ranks /\ \A w \in Sizes : r \in Ring(w)
      BY StarterIs
    <3>2. rank[r] \in RankType /\ RankFact(r, rank[r], rounds)
      BY <3>1, InvIs
    <3>3. /\ k \in DOMAIN rounds /\ rounds[k].seq = s /\ r \notin rounds[k].fetched
          /\ s = Len(rank[r].model) + 1 /\ Len(rank[r].model) \in Nat
      BY <2>2, <3>2 DEF InSync, RankFact, Seq1, RankType, ModelType
    <3>4. /\ rounds[i].world \in Sizes /\ rounds[k].world \in Sizes
          /\ i \in Nat /\ k \in Nat
      <4>1. rounds[i] \in RoundType /\ rounds[k] \in RoundType
        BY <2>0, <3>3, RoundsAre
      <4>2. rounds[i].world \in Sizes /\ rounds[k].world \in Sizes
        BY <4>1 DEF RoundType
      <4>3. k \in DOMAIN rounds /\ i \in DOMAIN rounds
        BY <2>2, <3>3
      <4> HIDE DEF k
      <4>4. i \in Nat /\ k \in Nat
        BY <2>0, <4>3, RoundsAre
      <4> QED
        BY <4>2, <4>4
    <3> HIDE DEF k, s
    <3>5. CASE i < k
      <4>1. CASE /\ rounds[i].status = "result"
                 /\ Ring(rounds[i].world) \ run.dropped \subseteq rounds[i].fetched
        <5>1. Took(rounds, r, i)
          BY <2>2, <3>1, <3>4, <4>1 DEF Live, Took
        <5>2. rounds[i].seq <= Len(rank[r].model)
          BY <3>2, <5>1 DEF RankFact
        <5> QED
          BY <2>2, <3>3, <5>2 DEF s
      <4> QED
        BY <2>2, <3>3, <3>5, <4>1, Followed2 DEF s
    <3>6. CASE k < i
      <4>1. ~(Ring(rounds[k].world) \ run.dropped \subseteq rounds[k].fetched)
        BY <2>2, <3>1, <3>3, <3>4 DEF Live
      <4> QED
        BY <2>2, <3>3, <3>6, <4>1, Followed2 DEF s
    <3> QED
      BY <2>2, <3>4, <3>5, <3>6 DEF k
  <2> QED
    BY <2>1, <2>2 DEF LateTakesKeptAnswer
<1> QED
  BY <1>1, BoardInvariant, PTL

-----------------------------------------------------------------------------
(* The ranks of one run, as its command sees them.                          *)

JobType == [on : Machines \cup {0}, join : BOOLEAN,
            st : {"none", "running", "over", "told"}, out : Outcomes \cup {"-"}]
UpType == [running : [Machines -> Nat], known : SUBSET Machines,
           dead : [Machines -> {"no", "fresh", "ready"}], joins : [Machines -> 0..MaxRejoins]]
GrowType == [pc : {"tick", "check", "send", "launch", "quit"}, on : Machines \cup {0}, rank : RankIds]
WaitType == [running : Nat, joiners : SUBSET RankIds, refused : SUBSET RankIds,
             fatal : {"no", "first", "later"}, stopped : BOOLEAN, grace : BOOLEAN,
             finished : BOOLEAN, err : 0..2, ret : {"no", "ok", "failed"}]

RingTypes ==
    /\ job \in [RankIds -> JobType] /\ cancelled \subseteq RankIds
    /\ count \in 2..(2 + MaxJoins) /\ user \in BOOLEAN
    /\ up \in UpType /\ grow \in GrowType /\ wait \in WaitType

\* Ranks are numbered as they come.
NumberFact ==
    \A r \in RankIds : IF r < count THEN job[r].st # "none" /\ job[r].on \in Machines
                       ELSE job[r].st = "none" /\ job[r].out = "-"

\* What is counted on the machines is what runs there, and in all.
On(m) == {r \in Running : job[r].on = m}
CountedFact ==
    /\ \A m \in Machines : up.running[m] = Cardinality(On(m))
    /\ Cardinality(Counted) = Cardinality(Running)

\* A machine the grower is on with has no rank, and the ring has room.
GrowFact ==
    grow.pc \in {"check", "send", "launch"} =>
        /\ grow.on \in Machines /\ grow.rank = count
        /\ up.running[grow.on] = 0
        /\ grow.pc = "check" => up.joins[grow.on] < MaxRejoins
        /\ MaxRanks > 0 => Cardinality(Running) < MaxRanks

ApartFact ==
    \A r, q \in Running : r # q /\ job[r].on = job[q].on => ~job[r].join /\ ~job[q].join

RoomFact == MaxRanks > 0 => Cardinality(Running) <= MaxRanks

\* The loop waits for what runs, what has ended unheard, and a rank announced.
Awaited ==
    {r \in RankIds : job[r].st \in {"running", "over"} \/ (grow.pc = "launch" /\ r = grow.rank)}
WaitFact ==
    /\ wait.running = Cardinality(Awaited)
    /\ wait.ret # "no" => wait.running = 0
    /\ wait.joiners \cap Starting = {}

\* What the verdict rests on.
VerdictFact ==
    /\ wait.finished => \E r \in RankIds : job[r].st = "told" /\ job[r].out = "ok"
    /\ ~user /\ wait.fatal = "no" =>
         \A r \in Starting : job[r].st = "told" =>
             job[r].out # "script" /\ (r = 0 => job[r].out # "lost")
    /\ wait.ret = "ok" /\ ~user => wait.finished /\ wait.fatal = "no"

RanksInv ==
    /\ RingTypes /\ NumberFact /\ CountedFact /\ GrowFact /\ ApartFact /\ RoomFact
    /\ WaitFact /\ VerdictFact

-----------------------------------------------------------------------------
(* Sets of ranks, and what is counted.                                      *)

LEMMA IdsAre ==
    /\ IsFiniteSet(RankIds) /\ RankIds \subseteq Nat /\ 0 \in RankIds /\ 1 \in RankIds
    /\ Machines \subseteq Nat /\ IsFiniteSet(Machines) /\ 1 \in Machines /\ 2 \in Machines
    /\ 0 \notin Machines /\ MaxJoins \in Nat
<1>1. IsFiniteSet(0..(1 + MaxJoins))
  BY RanksAssumption, FS_Interval
<1> QED
  BY <1>1, RanksAssumption DEF RankIds

LEMMA SubIds ==
    ASSUME NEW S, S \subseteq RankIds
    PROVE  IsFiniteSet(S) /\ Cardinality(S) \in Nat
BY IdsAre, FS_Subset, FS_CardinalityType

LEMMA OneLess ==
    ASSUME NEW S, IsFiniteSet(S), NEW x \in S
    PROVE  Cardinality(S \ {x}) = Cardinality(S) - 1 /\ Cardinality(S) \in Nat \ {0}
<1>1. Cardinality(S) \in Nat /\ Cardinality(S \ {x}) \in Nat
  BY FS_CardinalityType, FS_RemoveElement
<1>2. Cardinality(S \ {x}) = Cardinality(S) - 1
  BY FS_RemoveElement
<1> QED
  BY <1>1, <1>2

LEMMA OneMore ==
    ASSUME NEW S, IsFiniteSet(S), NEW x, x \notin S
    PROVE  Cardinality(S \cup {x}) = Cardinality(S) + 1 /\ IsFiniteSet(S \cup {x})
BY FS_AddElement

LEMMA Biggest ==
    ASSUME NEW n \in Nat
    PROVE  Max({0, n - 1}) \in Nat /\ (n > 0 => Max({0, n - 1}) = n - 1)
           /\ (n = 0 => Max({0, n - 1}) = 0)
<1> DEFINE S == {0, n - 1}
<1>1. \E x \in S : \A y \in S : x >= y
  <2>1. CASE n = 0
    BY <2>1
  <2>2. CASE n > 0
    BY <2>2
  <2> QED
    BY <2>1, <2>2
<1>2. Max(S) \in S /\ \A y \in S : Max(S) >= y
  <2> HIDE DEF S
  <2> QED
    BY <1>1 DEF Max
<1> QED
  BY <1>2

LEMMA Smaller ==
    ASSUME NEW n \in 0..2
    PROVE  Min({n + 1, 2}) \in 0..2
<1> DEFINE S == {n + 1, 2}
<1>1. \E x \in S : \A y \in S : x <= y
  <2>1. CASE n + 1 <= 2
    BY <2>1
  <2>2. CASE n + 1 > 2
    BY <2>2
  <2> QED
    BY <2>1, <2>2
<1>2. Min(S) \in S /\ \A y \in S : Min(S) <= y
  <2> HIDE DEF S
  <2> QED
    BY <1>1 DEF Min
<1> QED
  BY <1>2

LEMMA LeastIs ==
    ASSUME NEW S, S \subseteq Nat, S # {}
    PROVE  Min(S) \in S
<1> DEFINE Less == OpToRel(<, Nat)
<1>1. \A y, x \in Nat : y < x => <<y, x>> \in Less
  BY DEF OpToRel
<1> HIDE DEF Less
<1>2. IsWellFoundedOn(Less, Nat)
  BY NatLessThanWellFounded DEF Less
<1>3. PICK k \in S : \A i \in S : ~(<<i, k>> \in Less)
  BY <1>2, WFMin
<1>4. \A i \in S : k <= i
  <2> SUFFICES ASSUME NEW i \in S PROVE k <= i
    OBVIOUS
  <2>1. i \in Nat /\ k \in Nat /\ ~(i < k)
    BY <1>1, <1>3
  <2> QED
    BY <2>1
<1> QED
  BY <1>4 DEF Min

LEMMA RanksInvIs ==
    ASSUME RanksInv
    PROVE  /\ RingTypes /\ NumberFact /\ CountedFact /\ GrowFact /\ ApartFact /\ RoomFact
           /\ WaitFact /\ VerdictFact
           /\ job \in [RankIds -> JobType] /\ cancelled \subseteq RankIds
           /\ count \in Nat /\ count >= 2 /\ count <= 2 + MaxJoins /\ user \in BOOLEAN
           /\ up \in UpType /\ grow \in GrowType /\ wait \in WaitType
BY RanksAssumption DEF RanksInv, RingTypes

LEMMA RunningIs ==
    /\ Running \subseteq RankIds /\ IsFiniteSet(Running) /\ Cardinality(Running) \in Nat
    /\ Awaited \subseteq RankIds /\ IsFiniteSet(Awaited) /\ Cardinality(Awaited) \in Nat
    /\ \A m : On(m) \subseteq Running /\ IsFiniteSet(On(m)) /\ Cardinality(On(m)) \in Nat
<1>1. Running \subseteq RankIds /\ Awaited \subseteq RankIds
  BY DEF Running, Awaited
<1>2. \A m : On(m) \subseteq Running
  BY DEF On
<1> QED
  BY <1>1, <1>2, SubIds

\* What is counted is finite: as many as there are running ranks of each.
LEMMA CountedIs ==
    ASSUME up \in UpType
    PROVE  IsFiniteSet(Counted)
<1> DEFINE F == {{m} \X (1..up.running[m]) : m \in Machines}
<1>1. IsFiniteSet(F)
  <2> DEFINE f == [m \in Machines |-> {m} \X (1..up.running[m])]
  <2>1. f \in Surjection(Machines, F)
    BY DEF Surjection
  <2> HIDE DEF f, F
  <2> QED
    BY <2>1, IdsAre, FS_Surjection
<1>2. ASSUME NEW m \in Machines PROVE IsFiniteSet({m} \X (1..up.running[m]))
  <2>1. IsFiniteSet({m}) /\ IsFiniteSet(1..up.running[m])
    <3>1. up.running[m] \in Int
      BY DEF UpType
    <3>2. IsFiniteSet(1..up.running[m])
      BY <3>1, FS_Interval
    <3> QED
      BY <3>2, FS_Singleton
  <2> QED
    BY <2>1, FS_Product
<1>3. \A s \in F : IsFiniteSet(s)
  BY <1>2
<1> HIDE DEF F
<1>4. IsFiniteSet(UNION F)
  BY <1>1, <1>3, FS_UNION
<1> QED
  BY <1>4 DEF Counted, F

\* Steps after which the machines are as they were.
LEMMA SameRunning ==
    ASSUME CountedFact, ApartFact, RoomFact, UNCHANGED <<job, up.running>>
    PROVE  CountedFact' /\ ApartFact' /\ RoomFact' /\ Running' = Running
<1>1. Running' = Running /\ Counted' = Counted /\ \A m : On(m)' = On(m)
  BY DEF Running, Counted, On
<1> QED
  BY <1>1 DEF CountedFact, ApartFact, RoomFact

LEMMA InvTogether ==
    ASSUME RingTypes', NumberFact', CountedFact', GrowFact', ApartFact', RoomFact', WaitFact',
           VerdictFact'
    PROVE  RanksInv'
BY DEF RanksInv

-----------------------------------------------------------------------------
(* A rank ends, or starts.                                                  *)

\* A rank's job ends: one fewer runs on its machine, and in all.
LEMMA EndsCounted ==
    ASSUME RanksInv, NEW r \in Running, NEW a \in {"over"},
           job' \in [RankIds -> JobType], job'[r].st = a,
           \A q \in RankIds : job'[q].on = job[q].on /\ job'[q].join = job[q].join
                              /\ (q # r => job'[q] = job[q]),
           up' \in UpType,
           up'.running = [up.running EXCEPT ![job[r].on] = Max({0, @ - 1})]
    PROVE  CountedFact' /\ ApartFact' /\ RoomFact' /\ Running' = Running \ {r}
           /\ Cardinality(Running') < Cardinality(Running)
           /\ \A m \in Machines : up'.running[m] <= up.running[m]
<1>0. /\ CountedFact /\ ApartFact /\ RoomFact /\ NumberFact /\ up \in UpType /\ count \in Nat
      /\ job \in [RankIds -> JobType]
  BY RanksInvIs
<1>1. r \in RankIds /\ job[r].st = "running"
  BY DEF Running
<1>2. PICK m \in Machines : m = job[r].on
  BY <1>0, <1>1 DEF NumberFact
<1> DEFINE n == up.running[m]
<1>3. Running' = Running \ {r}
  BY <1>1 DEF Running
<1>4. /\ On(m)' = On(m) \ {r} /\ r \in On(m)
      /\ \A k \in Machines : k # m => On(k)' = On(k)
  BY <1>1, <1>2, <1>3 DEF On, Running
<1>5. Cardinality(On(m)') = Cardinality(On(m)) - 1 /\ Cardinality(On(m)) \in Nat \ {0}
  BY <1>4, RunningIs, OneLess
<1>6. Cardinality(Running') = Cardinality(Running) - 1 /\ Cardinality(Running) \in Nat \ {0}
  BY <1>3, RunningIs, OneLess
<1>7. n = Cardinality(On(m)) /\ n \in Nat \ {0}
  BY <1>0, <1>2, <1>5 DEF CountedFact
<1>8. Max({0, n - 1}) = n - 1
  BY <1>7, Biggest
<1>9. up.running \in [Machines -> Nat]
  BY <1>0 DEF UpType
<1>10. /\ up'.running[m] = n - 1
       /\ \A k \in Machines : k # m => up'.running[k] = up.running[k]
  BY <1>2, <1>8, <1>9
<1>11. Counted' = Counted \ {<<m, n>>} /\ <<m, n>> \in Counted
  <2>1. Counted = {p \in Machines \X Nat : p[2] \in 1..up.running[p[1]]}
    BY <1>9 DEF Counted
  <2>2. up'.running \in [Machines -> Nat]
    BY DEF UpType
  <2>3. Counted' = {p \in Machines \X Nat : p[2] \in 1..up'.running[p[1]]}
    BY <2>2 DEF Counted
  <2>4. \A i \in Nat : i \in 1..(n - 1) <=> i \in 1..n /\ i # n
    BY <1>7
  <2>5. n \in 1..n /\ n \in Nat
    BY <1>7
  <2> HIDE DEF n
  <2>6. up.running[m] = n
    BY DEF n
  <2>7. ASSUME NEW p \in Machines \X Nat
        PROVE  p \in Counted' <=> p \in Counted /\ p # <<m, n>>
    <3>0. p[1] \in Machines /\ p[2] \in Nat /\ p = <<p[1], p[2]>>
      OBVIOUS
    <3>1. CASE p[1] = m
      BY <1>10, <2>1, <2>3, <2>4, <2>6, <3>0, <3>1
    <3>2. CASE p[1] # m
      <4>1. up'.running[p[1]] = up.running[p[1]]
        BY <1>10, <3>0, <3>2
      <4>2. p # <<m, n>>
        BY <3>2
      <4> QED
        BY <2>1, <2>3, <4>1, <4>2
    <3> QED
      BY <3>1, <3>2
  <2>8. Counted' \subseteq Machines \X Nat /\ Counted \subseteq Machines \X Nat
    BY <2>1, <2>3
  <2>9. <<m, n>> \in Counted
    BY <1>2, <2>1, <2>5, <2>6
  <2> QED
    BY <2>7, <2>8, <2>9
<1>12. Cardinality(Counted') = Cardinality(Counted) - 1
  BY <1>0, <1>11, CountedIs, OneLess
<1>13. ASSUME NEW k \in Machines PROVE up'.running[k] = Cardinality(On(k)')
  <2>1. CASE k = m
    BY <1>5, <1>7, <1>10, <2>1
  <2>2. CASE k # m
    BY <1>0, <1>4, <1>10, <2>2 DEF CountedFact
  <2> QED
    BY <2>1, <2>2
<1>14. CountedFact'
  BY <1>0, <1>6, <1>12, <1>13 DEF CountedFact
<1>15. ApartFact'
  BY <1>0, <1>3, RunningIs DEF ApartFact
<1>16. RoomFact'
  BY <1>0, <1>6, RanksAssumption DEF RoomFact
<1>17. ASSUME NEW k \in Machines PROVE up'.running[k] <= up.running[k]
  <2>1. up.running[k] \in Nat
    BY <1>9
  <2> QED
    BY <1>7, <1>10, <2>1
<1>18. Cardinality(Running') < Cardinality(Running)
  BY <1>6
<1> QED
  BY <1>3, <1>14, <1>15, <1>16, <1>17, <1>18

LEMMA RankEndsStep ==
    ASSUME RanksInv, NEW r \in RankIds, NEW out \in Outcomes, RankEnds(r, out)
    PROVE  RanksInv'
<1>0. /\ RingTypes /\ NumberFact /\ GrowFact /\ WaitFact /\ VerdictFact
      /\ job \in [RankIds -> JobType] /\ up \in UpType /\ count \in Nat
  BY RanksInvIs
<1>1. /\ r \in Running /\ job' = [job EXCEPT ![r].st = "over", ![r].out = out]
      /\ UNCHANGED <<cancelled, count, grow, wait, user>>
  BY DEF RankEnds
<1>2. r \in RankIds /\ job[r].st = "running"
  BY <1>1 DEF Running
<1> DEFINE y == [job[r] EXCEPT !.st = "over", !.out = out]
<1>3. /\ y \in JobType /\ y.st = "over" /\ y.on = job[r].on /\ y.join = job[r].join
  <2>1. job[r] \in JobType
    BY <1>0
  <2> QED
    BY <2>1 DEF JobType
<1>4. job' = [job EXCEPT ![r] = y]
  BY <1>1
<1> HIDE DEF y
<1>5. /\ job' \in [RankIds -> JobType] /\ job'[r].st = "over"
      /\ \A q \in RankIds : job'[q].on = job[q].on /\ job'[q].join = job[q].join
                            /\ (q # r => job'[q] = job[q])
  BY <1>0, <1>3, <1>4
<1> DEFINE m == job[r].on
<1>6. m \in Machines
  BY <1>0, <1>2 DEF NumberFact
<1>7. \E b \in BOOLEAN : up' = [up EXCEPT !.running[m] = Max({0, @ - 1}),
                                          !.dead[m] = IF b THEN "fresh" ELSE @]
  <2>1. (out # "ok" /\ r \notin cancelled) \in BOOLEAN
    OBVIOUS
  <2> QED
    BY <2>1 DEF RankEnds
<1>8. /\ up' \in UpType /\ up'.running = [up.running EXCEPT ![m] = Max({0, @ - 1})]
      /\ up'.joins = up.joins
  <2> HIDE DEF m
  <2>1. PICK b \in BOOLEAN : up' = [up EXCEPT !.running[m] = Max({0, @ - 1}),
                                              !.dead[m] = IF b THEN "fresh" ELSE @]
    BY <1>7
  <2>2. up.running \in [Machines -> Nat] /\ up.dead \in [Machines -> {"no", "fresh", "ready"}]
    BY <1>0 DEF UpType
  <2>3. Max({0, up.running[m] - 1}) \in Nat
    BY <1>6, <2>2, Biggest
  <2> DEFINE u == [up.running EXCEPT ![m] = Max({0, @ - 1})]
             v == [up.dead EXCEPT ![m] = IF b THEN "fresh" ELSE @]
  <2>4. up' = [up EXCEPT !.running = u, !.dead = v]
    BY <2>1
  <2>5. u \in [Machines -> Nat]
    BY <2>2, <2>3
  <2>6. v \in [Machines -> {"no", "fresh", "ready"}]
    BY <2>2
  <2>7. u = [up.running EXCEPT ![m] = Max({0, @ - 1})]
    OBVIOUS
  <2> HIDE DEF u, v
  <2>8. up' \in UpType /\ up'.running = u /\ up'.joins = up.joins
    BY <1>0, <2>4, <2>5, <2>6 DEF UpType
  <2> QED
    BY <2>7, <2>8
<1>9. /\ CountedFact' /\ ApartFact' /\ RoomFact'
      /\ Cardinality(Running') < Cardinality(Running)
      /\ \A k \in Machines : up'.running[k] <= up.running[k]
  BY <1>1, <1>5, <1>8, EndsCounted
<1> HIDE DEF m
<1>10. RingTypes'
  BY <1>0, <1>1, <1>5, <1>8 DEF RingTypes
<1>11. NumberFact'
  BY <1>0, <1>1, <1>2, <1>5 DEF NumberFact
<1>12. GrowFact'
  <2> SUFFICES ASSUME grow.pc \in {"check", "send", "launch"}
               PROVE  /\ grow.on \in Machines /\ grow.rank = count
                      /\ up'.running[grow.on] = 0
                      /\ grow.pc = "check" => up'.joins[grow.on] < MaxRejoins
                      /\ MaxRanks > 0 => Cardinality(Running') < MaxRanks
    BY <1>1 DEF GrowFact
  <2>1. grow.on \in Machines /\ up.running[grow.on] = 0 /\ up'.running[grow.on] \in Nat
        /\ up'.running[grow.on] <= up.running[grow.on]
    BY <1>0, <1>8, <1>9 DEF GrowFact, UpType
  <2>2. up'.running[grow.on] = 0
    BY <2>1
  <2>3. Cardinality(Running) \in Nat /\ Cardinality(Running') \in Nat
    BY RunningIs, SubIds DEF Running
  <2>4. MaxRanks > 0 => Cardinality(Running') < MaxRanks
    BY <1>0, <1>9, <2>3, RanksAssumption DEF GrowFact
  <2> QED
    BY <1>0, <1>8, <2>1, <2>2, <2>4 DEF GrowFact
<1>13. Awaited' = Awaited
  BY <1>1, <1>2, <1>5 DEF Awaited
<1>14. WaitFact'
  BY <1>0, <1>1, <1>13 DEF WaitFact, Starting
<1>15. VerdictFact'
  <2>1. \A q \in RankIds : job'[q].st = "told" <=> job[q].st = "told"
    BY <1>2, <1>5
  <2>2. \A q \in RankIds : job'[q].st = "told" => job'[q] = job[q]
    BY <1>5
  <2> QED
    BY <1>0, <1>1, <2>1, <2>2 DEF VerdictFact, Starting
<1> QED
  BY <1>9, <1>10, <1>11, <1>12, <1>14, <1>15, InvTogether

\* The grower's rank starts: its number is the next, its machine has none.
LEMMA LaunchedStep ==
    ASSUME RanksInv, Launched
    PROVE  RanksInv'
<1> DEFINE r == grow.rank
           m == grow.on
           y == [on |-> grow.on, join |-> TRUE, st |-> "running", out |-> "-"]
<1>0. /\ RingTypes /\ NumberFact /\ GrowFact /\ WaitFact /\ VerdictFact /\ CountedFact
      /\ ApartFact /\ RoomFact
      /\ job \in [RankIds -> JobType] /\ up \in UpType /\ count \in Nat /\ count >= 2
      /\ grow \in GrowType
  BY RanksInvIs
<1>1. /\ grow.pc = "launch" /\ grow' = [pc |-> "tick", on |-> 0, rank |-> 0]
      /\ job' = [job EXCEPT ![r] = y] /\ count' = count + 1
      /\ up' = [up EXCEPT !.running[m] = @ + 1, !.known = @ \cup {m}]
      /\ UNCHANGED <<cancelled, wait, user>>
  BY DEF Launched
<1>2. /\ m \in Machines /\ r = count /\ up.running[m] = 0 /\ r \in RankIds
      /\ MaxRanks > 0 => Cardinality(Running) < MaxRanks
  BY <1>0, <1>1 DEF GrowFact, GrowType
<1>3. y \in JobType /\ y.st = "running" /\ y.on = m /\ y.join /\ y.out = "-"
  BY <1>2 DEF JobType, Outcomes
<1> HIDE DEF y
<1>4. /\ job' \in [RankIds -> JobType] /\ job'[r] = y
      /\ \A q \in RankIds : q # r => job'[q] = job[q]
  BY <1>0, <1>1, <1>2, <1>3
<1>5. job[r].st = "none"
  BY <1>0, <1>2 DEF NumberFact
<1> DEFINE u == [up.running EXCEPT ![m] = @ + 1]
<1>6. up.running \in [Machines -> Nat] /\ up.known \cup {m} \in SUBSET Machines
  BY <1>0, <1>2 DEF UpType
<1>7. /\ u \in [Machines -> Nat] /\ u[m] = 1
      /\ \A k \in Machines : k # m => u[k] = up.running[k]
  BY <1>2, <1>6
<1>8. up' = [up EXCEPT !.running = u, !.known = @ \cup {m}]
  BY <1>1
<1> HIDE DEF u
<1>9. up' \in UpType /\ up'.running = u
  BY <1>0, <1>6, <1>7, <1>8 DEF UpType
<1> HIDE DEF m
<1>10. Running' = Running \cup {r} /\ r \notin Running
  BY <1>2, <1>3, <1>4, <1>5 DEF Running
<1> HIDE DEF r
<1>11. Cardinality(Running') = Cardinality(Running) + 1 /\ Cardinality(Running) \in Nat
  BY <1>10, RunningIs, OneMore
<1>12. On(m) = {}
  <2>1. Cardinality(On(m)) = 0 /\ IsFiniteSet(On(m))
    BY <1>0, <1>2, RunningIs DEF CountedFact
  <2> QED
    BY <2>1, FS_EmptySet
<1>13. ASSUME NEW k \in Machines PROVE up'.running[k] = Cardinality(On(k)')
  <2>1. CASE k = m
    <3>1. On(k)' = {r}
      BY <1>3, <1>4, <1>10, <1>12, <2>1, RunningIs DEF On
    <3> QED
      BY <1>7, <1>9, <2>1, <3>1, FS_Singleton
  <2>2. CASE k # m
    <3>1. On(k)' = On(k)
      BY <1>3, <1>4, <1>10, <2>2, RunningIs DEF On
    <3> QED
      BY <1>0, <1>7, <1>9, <2>2, <3>1 DEF CountedFact
  <2> QED
    BY <2>1, <2>2
<1>14. Counted' = Counted \cup {<<m, 1>>} /\ <<m, 1>> \notin Counted
  <2>1. Counted = {p \in Machines \X Nat : p[2] \in 1..up.running[p[1]]}
    BY <1>6 DEF Counted
  <2>2. Counted' = {p \in Machines \X Nat : p[2] \in 1..u[p[1]]}
    BY <1>7, <1>9 DEF Counted
  <2>3. 1..0 = {} /\ 1..1 = {1} /\ 1 \in Nat
    OBVIOUS
  <2> QED
    BY <1>2, <1>7, <2>1, <2>2, <2>3
<1>15. Cardinality(Counted') = Cardinality(Counted) + 1
  BY <1>0, <1>14, CountedIs, OneMore
<1>16. CountedFact'
  BY <1>0, <1>11, <1>13, <1>15 DEF CountedFact
<1>17. ApartFact'
  <2> SUFFICES ASSUME NEW p \in Running', NEW q \in Running', p # q, job'[p].on = job'[q].on
               PROVE  ~job'[p].join /\ ~job'[q].join
    BY DEF ApartFact
  <2>1. p # r /\ q # r
    <3>1. \A x \in Running : job'[x].on = job[x].on /\ (job[x].on = m => x \in On(m))
      BY <1>4, <1>10, RunningIs DEF On
    <3> QED
      BY <1>3, <1>4, <1>10, <1>12, <3>1
  <2>2. p \in Running /\ q \in Running /\ job'[p] = job[p] /\ job'[q] = job[q]
    BY <1>4, <1>10, <2>1, RunningIs
  <2> QED
    BY <1>0, <2>2 DEF ApartFact
<1>18. RoomFact'
  BY <1>2, <1>11, RanksAssumption DEF RoomFact
<1>19. RingTypes'
  <2>1. count' \in 2..(2 + MaxJoins)
    BY <1>0, <1>1, <1>2, IdsAre DEF RankIds
  <2>2. grow' \in GrowType
    BY <1>1, IdsAre DEF GrowType
  <2> QED
    BY <1>0, <1>1, <1>4, <1>9, <2>1, <2>2 DEF RingTypes
<1>20. NumberFact'
  <2> SUFFICES ASSUME NEW q \in RankIds
               PROVE  IF q < count + 1 THEN job'[q].st # "none" /\ job'[q].on \in Machines
                      ELSE job'[q].st = "none" /\ job'[q].out = "-"
    BY <1>1 DEF NumberFact
  <2>1. q \in Nat /\ (q < count + 1 <=> q < count \/ q = count)
    BY <1>0, IdsAre
  <2>2. CASE q = r
    BY <1>2, <1>3, <1>4, <2>1, <2>2
  <2>3. CASE q # r
    BY <1>0, <1>2, <1>4, <2>1, <2>3 DEF NumberFact
  <2> QED
    BY <2>2, <2>3
<1>21. GrowFact'
  BY <1>1 DEF GrowFact
<1>22. Awaited' = Awaited
  BY <1>1, <1>2, <1>3, <1>4 DEF Awaited, r
<1>23. WaitFact'
  BY <1>0, <1>1, <1>22 DEF WaitFact, Starting
<1>24. VerdictFact'
  <2>1. \A q \in RankIds : job'[q].st = "told" <=> job[q].st = "told"
    BY <1>3, <1>4, <1>5
  <2>2. \A q \in RankIds : job'[q].st = "told" => job'[q] = job[q]
    BY <1>3, <1>4
  <2> QED
    BY <1>0, <1>1, <2>1, <2>2 DEF VerdictFact, Starting
<1> QED
  BY <1>16, <1>17, <1>18, <1>19, <1>20, <1>21, <1>23, <1>24, InvTogether

-----------------------------------------------------------------------------
(* The loop that waits.                                                     *)

\* Only the timer is armed.
LEMMA ArmedIs ==
    ASSUME NEW w \in WaitType
    PROVE  /\ Armed(w) \in WaitType
           /\ Armed(w).running = w.running /\ Armed(w).joiners = w.joiners
           /\ Armed(w).ret = w.ret /\ Armed(w).finished = w.finished /\ Armed(w).fatal = w.fatal
<1>1. PICK b \in BOOLEAN : Armed(w) = [w EXCEPT !.grace = b]
  <2>1. (~w.stopped /\ (w.grace \/ (w.finished \/ (w.joiners # {} /\ w.running = Cardinality(w.joiners)))))
          \in BOOLEAN
    OBVIOUS
  <2> QED
    BY <2>1 DEF Armed
<1> QED
  BY <1>1 DEF WaitType

LEMMA AbortIs ==
    ASSUME RingTypes, NEW w \in WaitType, NEW r, Abort(w, r)
    PROVE  /\ wait' \in WaitType /\ cancelled' \subseteq RankIds
           /\ wait'.running = w.running /\ wait'.joiners = w.joiners
           /\ wait'.ret = w.ret /\ wait'.finished = w.finished /\ wait'.fatal # "no"
<1>1. CASE w.fatal # "no" /\ wait' = Armed(w) /\ UNCHANGED cancelled
  BY <1>1, ArmedIs DEF RingTypes
<1>2. CASE /\ wait' = [w EXCEPT !.fatal = IF w.err > 1 THEN "later" ELSE "first",
                                !.stopped = TRUE, !.grace = FALSE]
           /\ cancelled' = cancelled \cup w.joiners \cup (StillGoing \ {r})
  <2>1. PICK f \in {"first", "later"} :
          wait' = [w EXCEPT !.fatal = f, !.stopped = TRUE, !.grace = FALSE]
    BY <1>2
  <2>2. StillGoing \subseteq RankIds /\ w.joiners \subseteq RankIds
    BY DEF StillGoing, Starting, WaitType
  <2> QED
    BY <1>2, <2>1, <2>2 DEF WaitType, RingTypes
<1> QED
  BY <1>1, <1>2 DEF Abort

\* What one result does to the loop.
LEMMA ResultIs ==
    ASSUME RanksInv, NEW r \in RankIds, Told(r)
    PROVE  /\ wait' \in WaitType /\ cancelled' \subseteq RankIds
           /\ wait.ret = "no" /\ wait'.ret = "no"
           /\ wait'.running = wait.running - 1 /\ wait'.joiners = wait.joiners \ {r}
           /\ wait'.finished => wait.finished \/ job[r].out = "ok"
           /\ wait'.fatal = "no" => wait.fatal = "no"
           /\ wait'.fatal = "no" /\ ~user /\ r \in Starting =>
                job[r].out # "script" /\ (r = 0 => job[r].out # "lost")
<1> DEFINE out == job[r].out
           join == r \in wait.joiners
           w == [wait EXCEPT !.running = @ - 1, !.joiners = @ \ {r}]
           f == [w EXCEPT !.err = Min({@ + 1, 2})]
           g == [w EXCEPT !.finished = TRUE]
           quiet == \/ out = "released" /\ ~user
                    \/ w.fatal # "no"
                    \/ (r \in w.refused \/ w.stopped) /\ out = "cancelled" /\ ~user
<1>1. /\ wait.ret = "no" /\ job[r].st = "over"
      /\ \/ out = "ok" /\ wait' = Armed(g) /\ UNCHANGED cancelled
         \/ out # "ok" /\ quiet /\ wait' = Armed(w) /\ UNCHANGED cancelled
         \/ /\ out # "ok" /\ ~quiet /\ (user \/ join \/ out = "missed")
            /\ wait' = Armed(f) /\ UNCHANGED cancelled
         \/ Abort(f, r)
         \/ /\ ~(out = "script" \/ r = 0) /\ wait' = Armed(f) /\ UNCHANGED cancelled
  BY DEF Told
<1>0. RingTypes /\ wait \in WaitType /\ WaitFact /\ cancelled \subseteq RankIds
  BY RanksInvIs
<1>2. wait.running - 1 \in Nat
  <2>1. r \in Awaited
    BY <1>1 DEF Awaited
  <2>2. Cardinality(Awaited) \in Nat \ {0}
    BY <2>1, RunningIs, OneLess
  <2> QED
    BY <1>0, <2>2 DEF WaitFact
<1>3. /\ w \in WaitType /\ w.running = wait.running - 1 /\ w.joiners = wait.joiners \ {r}
      /\ w.ret = wait.ret /\ w.finished = wait.finished /\ w.fatal = wait.fatal
      /\ w.refused = wait.refused /\ w.stopped = wait.stopped
  BY <1>0, <1>2 DEF WaitType
<1> DEFINE z == wait.fatal
<1>4. quiet => z # "no" \/ out \in {"released", "cancelled"}
  BY <1>3
<1>5. join => r \notin Starting
  BY <1>0 DEF WaitFact
<1> HIDE DEF quiet, w
<1>6. Min({w.err + 1, 2}) \in 0..2
  BY <1>3, Smaller DEF WaitType
<1>7. /\ f \in WaitType /\ f.running = w.running /\ f.joiners = w.joiners
      /\ f.ret = w.ret /\ f.finished = w.finished /\ f.fatal = w.fatal
  BY <1>3, <1>6 DEF WaitType
<1>8. /\ g \in WaitType /\ g.running = w.running /\ g.joiners = w.joiners
      /\ g.ret = w.ret /\ g.fatal = w.fatal
  BY <1>3 DEF WaitType
<1> HIDE DEF f, g
<1> HIDE DEF join, z
<1>9. CASE out = "ok" /\ wait' = Armed(g) /\ UNCHANGED cancelled
  BY <1>0, <1>1, <1>3, <1>8, <1>9, ArmedIs
<1>10. CASE out # "ok" /\ quiet /\ wait' = Armed(w) /\ UNCHANGED cancelled
  BY <1>0, <1>1, <1>3, <1>4, <1>10, ArmedIs DEF z
<1>11. CASE /\ out # "ok" /\ ~quiet /\ (user \/ join \/ out = "missed")
            /\ wait' = Armed(f) /\ UNCHANGED cancelled
  BY <1>0, <1>1, <1>3, <1>5, <1>7, <1>11, ArmedIs
<1>12. CASE Abort(f, r)
  BY <1>0, <1>1, <1>3, <1>7, <1>12, AbortIs
<1>13. CASE ~(out = "script" \/ r = 0) /\ wait' = Armed(f) /\ UNCHANGED cancelled
  BY <1>0, <1>1, <1>3, <1>7, <1>13, ArmedIs
<1> QED
  BY <1>1, <1>9, <1>10, <1>11, <1>12, <1>13

LEMMA ToldStep ==
    ASSUME RanksInv, NEW r \in RankIds, Told(r)
    PROVE  RanksInv'
<1>0. /\ RingTypes /\ NumberFact /\ GrowFact /\ WaitFact /\ VerdictFact /\ CountedFact
      /\ ApartFact /\ RoomFact /\ job \in [RankIds -> JobType] /\ count \in Nat
  BY RanksInvIs
<1> DEFINE y == [job[r] EXCEPT !.st = "told", !.out = Remembered(r, @)]
<1>1. /\ job[r].st = "over" /\ job' = [job EXCEPT ![r] = y]
      /\ UNCHANGED <<count, up, grow, user>>
  BY DEF Told
<1>2. /\ y \in JobType /\ y.st = "told" /\ y.on = job[r].on /\ y.join = job[r].join
      /\ y.out \in {job[r].out, "-"} /\ (job[r].out = "ok" => y.out = "ok")
  <2>1. job[r] \in JobType
    BY <1>0
  <2>2. /\ Remembered(r, job[r].out) \in {job[r].out, "-"}
        /\ job[r].out = "ok" => Remembered(r, job[r].out) = "ok"
    BY DEF Remembered
  <2> QED
    BY <2>1, <2>2 DEF JobType
<1> HIDE DEF y
<1>3. /\ job' \in [RankIds -> JobType] /\ job'[r] = y
      /\ \A q \in RankIds : q # r => job'[q] = job[q]
  BY <1>0, <1>1, <1>2
<1>4. /\ wait' \in WaitType /\ cancelled' \subseteq RankIds
      /\ wait.ret = "no" /\ wait'.ret = "no"
      /\ wait'.running = wait.running - 1 /\ wait'.joiners = wait.joiners \ {r}
      /\ wait'.finished => wait.finished \/ job[r].out = "ok"
      /\ wait'.fatal = "no" => wait.fatal = "no"
      /\ wait'.fatal = "no" /\ ~user /\ r \in Starting =>
           job[r].out # "script" /\ (r = 0 => job[r].out # "lost")
  BY ResultIs
<1>5. RingTypes'
  BY <1>0, <1>1, <1>3, <1>4 DEF RingTypes
<1>6. NumberFact'
  BY <1>0, <1>1, <1>2, <1>3 DEF NumberFact
<1>7. Running' = Running /\ \A m : On(m)' = On(m)
  BY <1>1, <1>2, <1>3 DEF Running, On
<1>8. CountedFact' /\ RoomFact'
  <2>1. Counted' = Counted
    BY <1>1 DEF Counted
  <2> QED
    BY <1>0, <1>1, <1>7, <2>1 DEF CountedFact, RoomFact
<1>9. ApartFact'
  BY <1>0, <1>2, <1>3, <1>7, RunningIs DEF ApartFact
<1>10. GrowFact'
  BY <1>0, <1>1, <1>7 DEF GrowFact
<1>11. Awaited' = Awaited \ {r} /\ r \in Awaited
  <2>1. grow.pc = "launch" => grow.rank # r
    <3>1. grow.pc = "launch" => grow.rank = count
      BY <1>0 DEF GrowFact
    <3>2. r # count
      BY <1>0, <1>1 DEF NumberFact
    <3> QED
      BY <3>1, <3>2
  <2> QED
    BY <1>1, <1>2, <1>3, <2>1 DEF Awaited
<1>12. WaitFact'
  <2>1. Cardinality(Awaited') = Cardinality(Awaited) - 1
    BY <1>11, RunningIs, OneLess
  <2> QED
    BY <1>0, <1>4, <2>1 DEF WaitFact, Starting
<1>13. VerdictFact'
  <2>1. wait'.finished => \E q \in RankIds : job'[q].st = "told" /\ job'[q].out = "ok"
    <3>1. CASE job[r].out = "ok"
      BY <1>2, <1>3, <3>1
    <3>2. CASE wait.finished
      <4>1. PICK q \in RankIds : job[q].st = "told" /\ job[q].out = "ok"
        BY <1>0, <3>2 DEF VerdictFact
      <4> QED
        BY <1>1, <1>3, <4>1
    <3> QED
      BY <1>4, <3>1, <3>2
  <2>2. ASSUME ~user, wait'.fatal = "no", NEW q \in Starting, job'[q].st = "told"
        PROVE  job'[q].out # "script" /\ (q = 0 => job'[q].out # "lost")
    <3>0. q \in RankIds
      BY DEF Starting
    <3>1. CASE q = r
      BY <1>2, <1>3, <1>4, <2>2, <3>1
    <3>2. CASE q # r
      BY <1>0, <1>3, <1>4, <2>2, <3>0, <3>2 DEF VerdictFact
    <3> QED
      BY <3>1, <3>2
  <2>3. Starting' = Starting
    BY DEF Starting
  <2> QED
    BY <1>1, <1>4, <2>1, <2>2, <2>3 DEF VerdictFact
<1> QED
  BY <1>5, <1>6, <1>8, <1>9, <1>10, <1>12, <1>13, InvTogether

\* The loop ends when it waits for nothing more.
LEMMA ReturnStep ==
    ASSUME RanksInv, Return
    PROVE  RanksInv'
<1>0. /\ RingTypes /\ NumberFact /\ GrowFact /\ WaitFact /\ VerdictFact /\ CountedFact
      /\ ApartFact /\ RoomFact /\ wait \in WaitType
  BY RanksInvIs
<1>1. /\ wait.ret = "no" /\ wait.running = 0 /\ UNCHANGED <<job, cancelled, count, up, grow, user>>
      /\ wait' = [wait EXCEPT !.ret =
           CASE user -> IF wait.err > 0 THEN "failed" ELSE "ok"
             [] ~user /\ wait.fatal # "no" /\ (wait.fatal = "first" \/ wait.finished) -> "failed"
             [] OTHER -> IF wait.finished THEN "ok" ELSE "failed"]
  BY DEF Return
<1>2. PICK a \in {"ok", "failed"} :
        /\ wait' = [wait EXCEPT !.ret = a]
        /\ a = "ok" /\ ~user => wait.finished /\ wait.fatal = "no"
  <2>1. CASE user
    BY <1>1, <2>1
  <2>2. CASE ~user /\ wait.fatal # "no" /\ (wait.fatal = "first" \/ wait.finished)
    BY <1>1, <2>2
  <2>3. CASE ~user /\ ~(wait.fatal # "no" /\ (wait.fatal = "first" \/ wait.finished))
    BY <1>1, <2>3
  <2> QED
    BY <2>1, <2>2, <2>3
<1>3. /\ wait' \in WaitType /\ wait'.running = wait.running /\ wait'.joiners = wait.joiners
      /\ wait'.ret = a /\ wait'.finished = wait.finished /\ wait'.fatal = wait.fatal
  BY <1>0, <1>2 DEF WaitType
<1>4. RingTypes'
  BY <1>0, <1>1, <1>3 DEF RingTypes
<1>5. CountedFact' /\ ApartFact' /\ RoomFact' /\ Running' = Running
  BY <1>0, <1>1, SameRunning
<1>6. NumberFact' /\ GrowFact'
  BY <1>0, <1>1, <1>5 DEF NumberFact, GrowFact
<1>7. Awaited' = Awaited
  BY <1>1 DEF Awaited
<1>8. WaitFact'
  BY <1>0, <1>1, <1>3, <1>7 DEF WaitFact, Starting
<1>9. VerdictFact'
  BY <1>0, <1>1, <1>2, <1>3 DEF VerdictFact, Starting
<1> QED
  BY <1>4, <1>5, <1>6, <1>8, <1>9, InvTogether

\* Steps of the loop and of the user that change no count.
LEMMA QuietStep ==
    ASSUME RanksInv, GraceOver \/ UserCancels
    PROVE  RanksInv'
<1>0. /\ RingTypes /\ NumberFact /\ GrowFact /\ WaitFact /\ VerdictFact /\ CountedFact
      /\ ApartFact /\ RoomFact /\ wait \in WaitType /\ cancelled \subseteq RankIds
  BY RanksInvIs
<1>1. UNCHANGED <<job, count, up, grow>> /\ (user => user') /\ user' \in BOOLEAN
  BY <1>0 DEF GraceOver, UserCancels, RingTypes
<1>2. /\ wait' \in WaitType /\ wait'.running = wait.running /\ wait'.joiners = wait.joiners
      /\ wait'.ret = wait.ret /\ wait'.finished = wait.finished /\ wait'.fatal = wait.fatal
  <2>1. CASE GraceOver
    BY <1>0, <2>1 DEF WaitType, GraceOver
  <2>2. CASE UserCancels
    BY <1>0, <2>2 DEF UserCancels
  <2> QED
    BY <2>1, <2>2
<1>3. cancelled' \subseteq RankIds
  <2>1. StillGoing \subseteq RankIds /\ wait.joiners \subseteq RankIds
    BY <1>0 DEF StillGoing, Starting, WaitType
  <2> QED
    BY <1>0, <2>1 DEF GraceOver, UserCancels
<1>4. RingTypes'
  BY <1>0, <1>1, <1>2, <1>3 DEF RingTypes
<1>5. CountedFact' /\ ApartFact' /\ RoomFact' /\ Running' = Running
  BY <1>0, <1>1, SameRunning
<1>6. NumberFact' /\ GrowFact'
  BY <1>0, <1>1, <1>5 DEF NumberFact, GrowFact
<1>7. Awaited' = Awaited
  BY <1>1 DEF Awaited
<1>8. WaitFact'
  BY <1>0, <1>2, <1>7 DEF WaitFact, Starting
<1>9. VerdictFact'
  BY <1>0, <1>1, <1>2 DEF VerdictFact, Starting
<1> QED
  BY <1>4, <1>5, <1>6, <1>8, <1>9, InvTogether

-----------------------------------------------------------------------------
(* The grower.                                                              *)

\* Its steps that start nothing: what it holds is right, the rest is as it was.
LEMMA GrowerOnly ==
    ASSUME RanksInv, UNCHANGED <<job, cancelled, count, wait, user>>,
           up' \in UpType, up'.running = up.running, grow' \in GrowType,
           grow.pc # "launch", grow'.pc # "launch",
           grow'.pc \in {"check", "send", "launch"} =>
               /\ grow'.on \in Machines /\ grow'.rank = count
               /\ up.running[grow'.on] = 0
               /\ grow'.pc = "check" => up'.joins[grow'.on] < MaxRejoins
               /\ MaxRanks > 0 => Cardinality(Running) < MaxRanks
    PROVE  RanksInv'
<1>0. /\ RingTypes /\ NumberFact /\ WaitFact /\ VerdictFact /\ CountedFact
      /\ ApartFact /\ RoomFact
  BY RanksInvIs
<1>1. RingTypes'
  BY <1>0 DEF RingTypes
<1>2. CountedFact' /\ ApartFact' /\ RoomFact' /\ Running' = Running
  BY <1>0, SameRunning
<1>3. NumberFact' /\ GrowFact'
  BY <1>0, <1>2 DEF NumberFact, GrowFact
<1>4. Awaited' = Awaited
  BY DEF Awaited
<1>5. WaitFact'
  BY <1>0, <1>4 DEF WaitFact, Starting
<1>6. VerdictFact'
  BY <1>0 DEF VerdictFact, Starting
<1> QED
  BY <1>1, <1>2, <1>3, <1>5, <1>6, InvTogether

LEMMA TickStep ==
    ASSUME RanksInv, NEW list \in SUBSET Machines, Tick(list)
    PROVE  RanksInv'
<1>0. /\ up \in UpType /\ grow \in GrowType /\ CountedFact
  BY RanksInvIs
<1>1. /\ grow.pc = "tick" /\ count \in RankIds
      /\ MaxRanks > 0 => Cardinality(Counted) < MaxRanks
      /\ UNCHANGED <<job, cancelled, count, wait, user>>
  BY DEF Tick
<1>2. up' \in UpType /\ up'.running = up.running /\ up'.joins = up.joins
  <2> DEFINE d == [m \in Machines |->
                    IF up.dead[m] = "fresh" /\ m \notin list THEN "ready" ELSE up.dead[m]]
  <2>1. up' = [up EXCEPT !.dead = d]
    BY DEF Tick
  <2>2. d \in [Machines -> {"no", "fresh", "ready"}]
    BY <1>0 DEF UpType
  <2> HIDE DEF d
  <2> QED
    BY <1>0, <2>1, <2>2 DEF UpType
<1> DEFINE may == {m \in Machines : MayTake(m, list)}
<1>3. grow' = IF may = {} THEN grow ELSE [pc |-> "check", on |-> Min(may), rank |-> count]
  BY DEF Tick
<1>4. CASE may = {}
  BY <1>0, <1>1, <1>2, <1>3, <1>4, GrowerOnly
<1>5. CASE may # {}
  <2>1. may \subseteq Machines /\ may \subseteq Nat
    BY IdsAre
  <2>2. PICK k \in may : k = Min(may)
    <3> HIDE DEF may
    <3> QED
      BY <1>5, <2>1, LeastIs
  <2>3. k \in Machines /\ up.running[k] = 0 /\ up.joins[k] < MaxRejoins
    BY <2>2 DEF MayTake
  <2> HIDE DEF may
  <2>4. grow' = [pc |-> "check", on |-> k, rank |-> count]
    BY <1>3, <1>5, <2>2
  <2>5. grow' \in GrowType /\ grow'.pc = "check" /\ grow'.on = k /\ grow'.rank = count
    BY <1>1, <2>3, <2>4 DEF GrowType
  <2>6. MaxRanks > 0 => Cardinality(Running) < MaxRanks
    BY <1>0, <1>1 DEF CountedFact
  <2> QED
    BY <1>0, <1>1, <1>2, <2>3, <2>5, <2>6, GrowerOnly
<1> QED
  BY <1>4, <1>5

LEMMA CheckStep ==
    ASSUME RanksInv, NEW a \in {"send", "tick", "quit"}, Check(a)
    PROVE  RanksInv'
<1>0. /\ up \in UpType /\ grow \in GrowType /\ GrowFact
  BY RanksInvIs
<1>1. /\ grow.pc = "check" /\ UNCHANGED <<job, cancelled, count, wait, user>>
      /\ grow' = IF a = "send" THEN [grow EXCEPT !.pc = a] ELSE [pc |-> a, on |-> 0, rank |-> 0]
      /\ up' = IF a # "send" THEN up
               ELSE [up EXCEPT !.joins[grow.on] = @ + 1, !.dead[grow.on] = "no"]
  BY DEF Check
<1>2. PICK m \in Machines :
        /\ m = grow.on /\ grow.rank = count /\ up.running[m] = 0 /\ up.joins[m] < MaxRejoins
        /\ MaxRanks > 0 => Cardinality(Running) < MaxRanks
  BY <1>0, <1>1 DEF GrowFact
<1>3. CASE a # "send"
  <2>1. grow' \in GrowType /\ grow'.pc \notin {"check", "send", "launch"} /\ up' = up
    BY <1>1, <1>3, IdsAre DEF GrowType
  <2> QED
    BY <1>0, <1>1, <2>1, GrowerOnly
<1>4. CASE a = "send"
  <2>1. /\ grow' \in GrowType /\ grow'.pc = "send" /\ grow'.on = m /\ grow'.rank = count
    BY <1>0, <1>1, <1>2, <1>4 DEF GrowType
  <2> DEFINE j == [up.joins EXCEPT ![m] = @ + 1]
             d == [up.dead EXCEPT ![m] = "no"]
  <2>2. up' = [up EXCEPT !.joins = j, !.dead = d]
    BY <1>1, <1>2, <1>4
  <2>3. up.joins[m] + 1 \in 0..MaxRejoins
    BY <1>0, <1>2, RanksAssumption DEF UpType
  <2>4. j \in [Machines -> 0..MaxRejoins] /\ d \in [Machines -> {"no", "fresh", "ready"}]
    BY <1>0, <2>3 DEF UpType
  <2> HIDE DEF j, d
  <2>5. up' \in UpType /\ up'.running = up.running
    BY <1>0, <2>2, <2>4 DEF UpType
  <2> QED
    BY <1>1, <1>2, <2>1, <2>5, GrowerOnly
<1> QED
  BY <1>3, <1>4

LEMMA GrowerLeaves ==
    ASSUME RanksInv, GrowQuits \/ GiveUpStart
    PROVE  RanksInv'
<1>0. up \in UpType /\ grow \in GrowType
  BY RanksInvIs
<1>1. /\ grow.pc \in {"tick", "send"} /\ grow' = [pc |-> "quit", on |-> 0, rank |-> 0]
      /\ UNCHANGED <<job, cancelled, count, up, wait, user>>
  BY DEF GrowQuits, GiveUpStart
<1>2. grow' \in GrowType /\ grow'.pc = "quit"
  BY <1>1, IdsAre DEF GrowType
<1> QED
  BY <1>0, <1>1, <1>2, GrowerOnly

LEMMA RejoinStep ==
    ASSUME RanksInv, NEW m \in Machines, RejoinTime(m)
    PROVE  RanksInv'
<1>0. /\ RingTypes /\ NumberFact /\ GrowFact /\ WaitFact /\ VerdictFact /\ CountedFact
      /\ ApartFact /\ RoomFact /\ up \in UpType
  BY RanksInvIs
<1>1. up' = [up EXCEPT !.dead[m] = "ready"] /\ UNCHANGED <<job, cancelled, count, grow, wait, user>>
  BY DEF RejoinTime
<1>2. up' \in UpType /\ up'.running = up.running /\ up'.joins = up.joins
  <2> DEFINE d == [up.dead EXCEPT ![m] = "ready"]
  <2>1. up' = [up EXCEPT !.dead = d]
    BY <1>1
  <2>2. d \in [Machines -> {"no", "fresh", "ready"}]
    BY <1>0 DEF UpType
  <2> HIDE DEF d
  <2> QED
    BY <1>0, <2>1, <2>2 DEF UpType
<1>4. RingTypes'
  BY <1>0, <1>1, <1>2 DEF RingTypes
<1>5. CountedFact' /\ ApartFact' /\ RoomFact' /\ Running' = Running
  BY <1>0, <1>1, <1>2, SameRunning
<1>6. NumberFact' /\ GrowFact'
  BY <1>0, <1>1, <1>2, <1>5 DEF NumberFact, GrowFact
<1>7. Awaited' = Awaited
  BY <1>1 DEF Awaited
<1>8. WaitFact'
  BY <1>0, <1>1, <1>7 DEF WaitFact, Starting
<1>9. VerdictFact'
  BY <1>0, <1>1 DEF VerdictFact, Starting
<1> QED
  BY <1>4, <1>5, <1>6, <1>8, <1>9, InvTogether

\* The loop is told of a rank before it starts: one more to wait for.
LEMMA AnnounceStep ==
    ASSUME RanksInv, Announce
    PROVE  RanksInv'
<1>0. /\ RingTypes /\ NumberFact /\ GrowFact /\ WaitFact /\ VerdictFact /\ CountedFact
      /\ ApartFact /\ RoomFact /\ wait \in WaitType /\ cancelled \subseteq RankIds
      /\ grow \in GrowType /\ count \in Nat /\ count >= 2
  BY RanksInvIs
<1>1. /\ grow.pc = "send" /\ wait.ret = "no" /\ grow' = [grow EXCEPT !.pc = "launch"]
      /\ UNCHANGED <<job, count, up, user>>
  BY DEF Announce
<1>2. PICK r \in RankIds : r = grow.rank /\ r = count
  BY <1>0, <1>1 DEF GrowFact, GrowType
<1>3. grow' \in GrowType /\ grow'.pc = "launch" /\ grow'.rank = r /\ grow'.on = grow.on
  BY <1>0, <1>1, <1>2 DEF GrowType
<1>4. wait.running + 1 \in Nat
  BY <1>0 DEF WaitType
<1>5. /\ wait' \in WaitType /\ cancelled' \subseteq RankIds
      /\ wait'.running = wait.running + 1 /\ wait'.joiners \subseteq wait.joiners \cup {r}
      /\ wait'.ret = wait.ret /\ wait'.finished = wait.finished /\ wait'.fatal = wait.fatal
  <2>1. CASE /\ wait' = [wait EXCEPT !.running = @ + 1, !.refused = @ \cup {r}]
             /\ cancelled' = cancelled \cup {r}
    BY <1>0, <1>4, <2>1 DEF WaitType
  <2>2. CASE /\ wait' = Armed([wait EXCEPT !.running = @ + 1, !.joiners = @ \cup {r}])
             /\ UNCHANGED cancelled
    <3> DEFINE w == [wait EXCEPT !.running = @ + 1, !.joiners = @ \cup {r}]
    <3>1. /\ w \in WaitType /\ w.running = wait.running + 1 /\ w.joiners = wait.joiners \cup {r}
          /\ w.ret = wait.ret /\ w.finished = wait.finished /\ w.fatal = wait.fatal
      BY <1>0, <1>4 DEF WaitType
    <3>2. wait' = Armed(w)
      BY <2>2
    <3> HIDE DEF w
    <3> QED
      BY <1>0, <2>2, <3>1, <3>2, ArmedIs
  <2> QED
    BY <1>2, <2>1, <2>2 DEF Announce
<1>6. RingTypes'
  BY <1>0, <1>1, <1>3, <1>5 DEF RingTypes
<1>7. CountedFact' /\ ApartFact' /\ RoomFact' /\ Running' = Running
  BY <1>0, <1>1, SameRunning
<1>8. NumberFact' /\ GrowFact'
  BY <1>0, <1>1, <1>2, <1>3, <1>7 DEF NumberFact, GrowFact
<1>9. Awaited' = Awaited \cup {r} /\ r \notin Awaited
  <2>1. job[r].st = "none"
    BY <1>0, <1>2 DEF NumberFact
  <2> QED
    BY <1>1, <1>2, <1>3, <2>1 DEF Awaited
<1>10. Cardinality(Awaited') = Cardinality(Awaited) + 1
  BY <1>9, RunningIs, OneMore
<1>11. WaitFact'
  <2>1. r \notin Starting
    BY <1>0, <1>2 DEF Starting
  <2> QED
    BY <1>0, <1>1, <1>5, <1>10, <2>1 DEF WaitFact, Starting
<1>12. VerdictFact'
  BY <1>0, <1>1, <1>5 DEF VerdictFact, Starting
<1> QED
  BY <1>6, <1>7, <1>8, <1>11, <1>12, InvTogether

-----------------------------------------------------------------------------
(* The run.                                                                 *)

LEMMA InitCounted ==
    ASSUME RanksInit
    PROVE  /\ CountedFact /\ Running = {0, 1} /\ Cardinality(Running) = 2 /\ up \in UpType
<1>1. PICK second \in {1, 2} :
        /\ job = [r \in RankIds |->
                      [on |-> IF r = 0 THEN 1 ELSE IF r = 1 THEN second ELSE 0, join |-> FALSE,
                       st |-> IF r < 2 THEN "running" ELSE "none", out |-> "-"]]
        /\ up = [running |-> [m \in Machines |-> Cardinality({r \in {0, 1} : m = IF r = 0 THEN 1 ELSE second})],
                 known |-> {1, second}, dead |-> [m \in Machines |-> "no"],
                 joins |-> [m \in Machines |-> 0]]
  BY DEF RanksInit
<1>2. Running = {0, 1}
  <2>1. \A r \in RankIds : r < 2 <=> r \in {0, 1}
    BY IdsAre
  <2> QED
    BY <1>1, <2>1, IdsAre DEF Running
<1>3. /\ Cardinality({0, 1}) = 2 /\ Cardinality({0}) = 1 /\ Cardinality({1}) = 1
      /\ Cardinality({}) = 0
  <2>1. \A x : Cardinality({x}) = 1 /\ IsFiniteSet({x})
    BY FS_Singleton
  <2>2. Cardinality({0} \cup {1}) = Cardinality({0}) + 1
    <3> DEFINE S == {0}
    <3>1. IsFiniteSet(S) /\ 1 \notin S
      BY <2>1
    <3> HIDE DEF S
    <3>2. Cardinality(S \cup {1}) = Cardinality(S) + 1
      BY <3>1, OneMore
    <3> QED
      BY <3>2 DEF S
  <2>3. {0} \cup {1} = {0, 1}
    OBVIOUS
  <2>4. Cardinality({0}) = 1 /\ Cardinality({1}) = 1
    BY <2>1
  <2>5. Cardinality({0, 1}) = Cardinality({0}) + 1
    BY <2>2, <2>3, Zenon
  <2>6. Cardinality({}) = 0
    BY FS_EmptySet
  <2> QED
    BY <2>4, <2>5, <2>6
<1> DEFINE at(m) == {r \in {0, 1} : m = IF r = 0 THEN 1 ELSE second}
<1>4. \A m \in Machines : up.running[m] = Cardinality(at(m)) /\ at(m) \subseteq {0, 1}
  BY <1>1
<1>5. \A m \in Machines : On(m) = at(m)
  <2>1. job[0].on = 1 /\ job[1].on = second
    BY <1>1, IdsAre
  <2> QED
    BY <1>2, <2>1, IdsAre DEF On
<1>6. up \in UpType
  <2>1. \A m \in Machines : Cardinality(at(m)) \in Nat
    BY <1>5, RunningIs
  <2> DEFINE each == [m \in Machines |-> Cardinality(at(m))]
  <2>2. each \in [Machines -> Nat]
    BY <2>1
  <2>3. up.running = each
    BY <1>1
  <2> HIDE DEF each
  <2>4. [m \in Machines |-> 0] \in [Machines -> 0..MaxRejoins]
    BY RanksAssumption
  <2>5. {1, second} \subseteq Machines
    BY IdsAre
  <2>6. [m \in Machines |-> "no"] \in [Machines -> {"no", "fresh", "ready"}]
    OBVIOUS
  <2>7. up = [running |-> each, known |-> {1, second}, dead |-> [m \in Machines |-> "no"],
              joins |-> [m \in Machines |-> 0]]
    BY <1>1, <2>3
  <2> QED
    BY <2>2, <2>4, <2>5, <2>6, <2>7 DEF UpType
<1>7. Cardinality(Counted) = 2
  <2>1. Counted = {p \in Machines \X Nat : p[2] \in 1..up.running[p[1]]}
    BY <1>6 DEF Counted, UpType
  <2>2. 1..0 = {} /\ 1..1 = {1} /\ 1..2 = {1, 2} /\ 1 \in Nat /\ 2 \in Nat
    OBVIOUS
  <2>3. \A a, b : a # b => Cardinality({a, b}) = 2
    <3> TAKE a, b
    <3> HAVE a # b
    <3>1. Cardinality({a} \cup {b}) = Cardinality({a}) + 1 /\ Cardinality({a}) = 1
      BY FS_Singleton, OneMore
    <3>2. {a} \cup {b} = {a, b}
      OBVIOUS
    <3> QED
      BY <3>1, <3>2
  <2>4. CASE second = 1
    <3>1. \A m \in Machines : at(m) = IF m = 1 THEN {0, 1} ELSE {}
      BY <2>4
    <3> HIDE DEF at
    <3>2. \A m \in Machines : up.running[m] = IF m = 1 THEN 2 ELSE 0
      BY <1>3, <1>4, <3>1
    <3>3. Counted = {<<1, 1>>, <<1, 2>>}
      <4>1. \A p \in Machines \X Nat : p \in Counted <=> p[1] = 1 /\ p[2] \in {1, 2}
        BY <2>1, <2>2, <3>2
      <4>2. Counted \subseteq Machines \X Nat
        BY <2>1
      <4>3. \A p \in Machines \X Nat : p[1] = 1 /\ p[2] \in {1, 2} <=> p \in {<<1, 1>>, <<1, 2>>}
        OBVIOUS
      <4>4. {<<1, 1>>, <<1, 2>>} \subseteq Machines \X Nat
        BY IdsAre
      <4> QED
        BY <4>1, <4>2, <4>3, <4>4
    <3>4. <<1, 1>> # <<1, 2>>
      OBVIOUS
    <3> QED
      BY <2>3, <3>3, <3>4
  <2>5. CASE second = 2
    <3>1. \A m \in Machines : at(m) = IF m = 1 THEN {0} ELSE IF m = 2 THEN {1} ELSE {}
      BY <2>5
    <3> HIDE DEF at
    <3>2. \A m \in Machines : up.running[m] = IF m \in {1, 2} THEN 1 ELSE 0
      BY <1>3, <1>4, <3>1
    <3>3. Counted = {<<1, 1>>, <<2, 1>>}
      <4>1. \A p \in Machines \X Nat : p \in Counted <=> p[1] \in {1, 2} /\ p[2] = 1
        BY <2>1, <2>2, <3>2
      <4>2. Counted \subseteq Machines \X Nat
        BY <2>1
      <4>3. \A p \in Machines \X Nat : p[1] \in {1, 2} /\ p[2] = 1 <=> p \in {<<1, 1>>, <<2, 1>>}
        OBVIOUS
      <4>4. {<<1, 1>>, <<2, 1>>} \subseteq Machines \X Nat
        BY IdsAre
      <4> QED
        BY <4>1, <4>2, <4>3, <4>4
    <3>4. <<1, 1>> # <<2, 1>>
      OBVIOUS
    <3> QED
      BY <2>3, <3>3, <3>4
  <2> QED
    BY <2>4, <2>5
<1> QED
  BY <1>2, <1>3, <1>4, <1>5, <1>6, <1>7 DEF CountedFact

LEMMA RanksStart == RanksInit => RanksInv
<1> SUFFICES ASSUME RanksInit PROVE RanksInv
  OBVIOUS
<1>1. PICK second \in {1, 2} :
        job = [r \in RankIds |->
                  [on |-> IF r = 0 THEN 1 ELSE IF r = 1 THEN second ELSE 0, join |-> FALSE,
                   st |-> IF r < 2 THEN "running" ELSE "none", out |-> "-"]]
  BY DEF RanksInit
<1>2. /\ cancelled = {} /\ count = 2 /\ user = FALSE
      /\ grow = [pc |-> "tick", on |-> 0, rank |-> 0]
      /\ wait = [running |-> 2, joiners |-> {}, refused |-> {}, fatal |-> "no", stopped |-> FALSE,
                 grace |-> FALSE, finished |-> FALSE, err |-> 0, ret |-> "no"]
  BY DEF RanksInit
<1>3. CountedFact /\ Running = {0, 1} /\ Cardinality(Running) = 2 /\ up \in UpType
  BY InitCounted
<1>4. \A r \in RankIds : r < 2 <=> r \in {0, 1}
  BY IdsAre
<1>5. RingTypes
  <2>1. job \in [RankIds -> JobType]
    BY <1>1, IdsAre DEF JobType
  <2>2. grow \in GrowType
    BY <1>2, IdsAre DEF GrowType
  <2>3. wait \in WaitType
    BY <1>2 DEF WaitType
  <2>4. count \in 2..(2 + MaxJoins)
    BY <1>2, IdsAre
  <2> QED
    BY <1>2, <1>3, <2>1, <2>2, <2>3, <2>4 DEF RingTypes
<1>6. NumberFact
  <2> SUFFICES ASSUME NEW r \in RankIds
               PROVE  IF r < 2 THEN job[r].st # "none" /\ job[r].on \in Machines
                      ELSE job[r].st = "none" /\ job[r].out = "-"
    BY <1>2 DEF NumberFact
  <2> QED
    BY <1>1, <1>4, IdsAre
<1>7. GrowFact
  BY <1>2 DEF GrowFact
<1>8. ApartFact
  BY <1>1, <1>3, IdsAre DEF ApartFact
<1>9. RoomFact
  BY <1>3, RanksAssumption DEF RoomFact
<1>10. WaitFact
  <2>1. Awaited = Running
    BY <1>1, <1>2 DEF Awaited, Running
  <2> QED
    BY <1>2, <1>3, <2>1 DEF WaitFact
<1>11. VerdictFact
  BY <1>1, <1>2 DEF VerdictFact, Starting
<1> QED
  BY <1>3, <1>5, <1>6, <1>7, <1>8, <1>9, <1>10, <1>11 DEF RanksInv

LEMMA RanksStay ==
    ASSUME RanksInv, UNCHANGED ringVars
    PROVE  RanksInv'
BY DEF ringVars, RanksInv, RingTypes, NumberFact, CountedFact, On, Running, Counted, GrowFact,
       ApartFact, RoomFact, WaitFact, Awaited, Starting, VerdictFact

LEMMA RanksKept == RanksInv /\ [RanksNext]_ringVars => RanksInv'
<1> SUFFICES ASSUME RanksInv, [RanksNext]_ringVars PROVE RanksInv'
  OBVIOUS
<1>1. CASE \E r \in RankIds : \E out \in Outcomes : RankEnds(r, out)
  BY <1>1, RankEndsStep
<1>2. CASE \E r \in RankIds : Told(r)
  BY <1>2, ToldStep
<1>3. CASE Return
  BY <1>3, ReturnStep
<1>4. CASE GraceOver \/ UserCancels
  BY <1>4, QuietStep
<1>5. CASE \E list \in SUBSET Machines : Tick(list)
  BY <1>5, TickStep
<1>6. CASE \E a \in {"send", "tick", "quit"} : Check(a)
  BY <1>6, CheckStep
<1>7. CASE Announce
  BY <1>7, AnnounceStep
<1>8. CASE GrowQuits \/ GiveUpStart
  BY <1>8, GrowerLeaves
<1>9. CASE Launched
  BY <1>9, LaunchedStep
<1>10. CASE \E m \in Machines : RejoinTime(m)
  BY <1>10, RejoinStep
<1>11. CASE UNCHANGED ringVars
  BY <1>11, RanksStay
<1> QED
  BY <1>1, <1>2, <1>3, <1>4, <1>5, <1>6, <1>7, <1>8, <1>9, <1>10, <1>11
  DEF RanksNext, AwaitStep, GrowStep, RanksOver

LEMMA RanksTell == RanksInv => RunIsAccounted
<1> SUFFICES ASSUME RanksInv PROVE RunIsAccounted
  OBVIOUS
<1>0. /\ RingTypes /\ NumberFact /\ ApartFact /\ RoomFact /\ WaitFact /\ VerdictFact
      /\ job \in [RankIds -> JobType] /\ up \in UpType /\ grow \in GrowType
      /\ count \in Nat /\ user \in BOOLEAN /\ cancelled \subseteq RankIds
  BY RanksInvIs DEF RingTypes
<1>1. RanksTypeOK
  BY <1>0 DEF RanksTypeOK, JobType, UpType, GrowType
<1>2. ASSUME wait.ret # "no"
      PROVE  Running = {} /\ grow.pc # "launch" /\ \A r \in RankIds : job[r].st # "over"
  <2>1. Cardinality(Awaited) = 0 /\ IsFiniteSet(Awaited)
    BY <1>0, <1>2, RunningIs DEF WaitFact
  <2>2. Awaited = {}
    BY <2>1, FS_EmptySet
  <2>3. grow.rank \in RankIds
    BY <1>0 DEF GrowType
  <2> QED
    BY <2>2, <2>3 DEF Awaited, Running
<1>3. ASSUME wait.ret = "ok", ~user
      PROVE  /\ \E r \in RankIds : job[r].out = "ok"
             /\ \A r \in Starting : job[r].out # "script"
             /\ job[0].out # "lost"
  <2>1. wait.finished /\ wait.fatal = "no"
    BY <1>0, <1>3 DEF VerdictFact
  <2>2. ASSUME NEW r \in Starting PROVE job[r].st = "told"
    <3>1. r \in RankIds /\ r < 2 /\ r \in Nat
      BY IdsAre DEF Starting
    <3>2. job[r].st \notin {"running", "over"}
      BY <1>2, <1>3, <3>1 DEF Running
    <3>3. r < count
      BY <1>0, <3>1 DEF RingTypes
    <3>4. job[r].st # "none" /\ job[r] \in JobType
      BY <1>0, <3>1, <3>3 DEF NumberFact
    <3> QED
      BY <3>2, <3>4 DEF JobType
  <2>3. 0 \in Starting
    BY IdsAre DEF Starting
  <2> QED
    BY <1>0, <1>3, <2>1, <2>2, <2>3 DEF VerdictFact
<1> QED
  BY <1>0, <1>1, <1>2, <1>3 DEF RunIsAccounted, ApartFact, RoomFact

\* ddpAwaitRanks returns only when no rank runs, none is announced and none
\* has ended unheard, whatever joined, died or was stopped; a joined rank has
\* its machine to itself, there are never more than --ddp N, and a success had
\* a rank that finished, no failed script among the ranks of the start, and
\* its lead.
THEOREM RunAccounted == RanksSteps => []RunIsAccounted
<1>1. RanksInit => RanksInv
  BY RanksStart
<1>2. RanksInv /\ [RanksNext]_ringVars => RanksInv'
  BY RanksKept
<1>3. RanksInv => RunIsAccounted
  BY RanksTell
<1> QED
  BY <1>1, <1>2, <1>3, PTL DEF RanksSteps

-----------------------------------------------------------------------------
\* The plan of a ring

\* What is kept of a list: what of it there is, in a list without repetitions once.
LEMMA KeepAre ==
    ASSUME NEW S, NEW s \in Seq(S), NEW T
    PROVE  /\ Keep(s, T) \in Seq(S) /\ Len(Keep(s, T)) \in Nat
           /\ \A x : Contains(Keep(s, T), x) <=> \E i \in 1..Len(s) : i \in T /\ s[i] = x
           /\ Distinct(s) => Distinct(Keep(s, T))
<1> DEFINE kept == CHOOSE e : e = [i \in 0..Len(s) |-> IF i = 0 THEN << >> ELSE
                        IF i \in T THEN Append(e[i - 1], s[i]) ELSE e[i - 1]]
<1>1. KeepsTo(kept, s, T, Len(s))
  BY KeptIs
<1>2. Keep(s, T) = kept[Len(s)]
  BY DEF Keep
<1> HIDE DEF kept
<1>3. /\ kept[Len(s)] \in Seq(S) /\ Len(kept[Len(s)]) \in Nat
      /\ \A k : Contains(kept[Len(s)], k) <=> \E i \in 1..Len(s) : i \in T /\ s[i] = k
  <2>1. /\ kept[Len(s)] \in Seq(S)
        /\ \A k : Contains(kept[Len(s)], k) <=> \E i \in 1..Len(s) : i \in T /\ s[i] = k
    BY <1>1, KeptAre
  <2> QED
    BY <2>1
<1>4. Distinct(s) => Distinct(kept[Len(s)])
  BY <1>1, KeptDistinct
<1> QED
  BY <1>2, <1>3, <1>4

\* A list of which first some elements are taken and then the others.
LEMMA PartsAre ==
    ASSUME NEW S, NEW s \in Seq(S), Distinct(s), NEW T, NEW U,
           \A i \in 1..Len(s) : i \in T <=> i \notin U
    PROVE  LET q == Keep(s, T) \o Keep(s, U)
           IN  /\ q \in Seq(S) /\ Distinct(q) /\ Len(q) = Len(s)
               /\ \A x : Contains(q, x) <=> Contains(s, x)
<1> DEFINE a == Keep(s, T)
           b == Keep(s, U)
           q == a \o b
<1>1. /\ a \in Seq(S) /\ Distinct(a) /\ b \in Seq(S) /\ Distinct(b)
      /\ \A x : Contains(a, x) <=> \E i \in 1..Len(s) : i \in T /\ s[i] = x
      /\ \A x : Contains(b, x) <=> \E i \in 1..Len(s) : i \in U /\ s[i] = x
  BY KeepAre
<1> HIDE DEF a, b
<1>2. \A x : ~(Contains(a, x) /\ Contains(b, x))
  <2> SUFFICES ASSUME NEW x, Contains(a, x), Contains(b, x) PROVE FALSE
    OBVIOUS
  <2>1. PICK i \in 1..Len(s) : i \in T /\ s[i] = x
    BY <1>1
  <2>2. PICK j \in 1..Len(s) : j \in U /\ s[j] = x
    BY <1>1
  <2> QED
    BY <2>1, <2>2 DEF Distinct
<1>3. /\ q \in Seq(S) /\ Distinct(q)
      /\ \A x : Contains(q, x) <=> Contains(a, x) \/ Contains(b, x)
  BY <1>1, <1>2, JoinedDistinct
<1> HIDE DEF q
<1>4. \A x : Contains(s, x) <=> \E i \in 1..Len(s) : s[i] = x
  BY DEF Contains
<1>5. \A x : Contains(q, x) <=> Contains(s, x)
  BY <1>1, <1>3, <1>4
<1>6. Len(q) = Len(s)
  <2>1. {q[i] : i \in 1..Len(q)} = {s[i] : i \in 1..Len(s)}
    <3>1. \A x : Contains(q, x) <=> \E i \in 1..Len(q) : q[i] = x
      BY DEF Contains
    <3>2. \A x : x \in {q[i] : i \in 1..Len(q)} <=> x \in {s[i] : i \in 1..Len(s)}
      BY <1>4, <1>5, <3>1
    <3> QED
      BY <3>2
  <2> QED
    BY <1>3, <2>1, DistinctCount
<1> QED
  BY <1>3, <1>5, <1>6 DEF q, a, b

PlanTypes ==
    /\ node \in [Listed -> [reach : {"own", "room", "lan", "fwd"}, gpus : GpuCounts, score : Scores]]
    /\ asked \in [gpu : {"any", "prefer", "force"}, ranks : {0} \cup 2..NodeCount,
                  native : BOOLEAN, noSelf : BOOLEAN]

LEMMA PlanConstants ==
    /\ IsFiniteSet(Listed) /\ Listed \subseteq Nat \ {0}
    /\ PlanTypes => /\ \A n \in Listed : node[n].gpus \in Nat /\ node[n].score \in Nat
                    /\ asked.ranks \in Nat
<1>1. IsFiniteSet(Listed)
  BY PlanAssumption, FS_Interval DEF Listed
<1>2. Listed \subseteq Nat \ {0}
  BY PlanAssumption DEF Listed
<1>3. ASSUME PlanTypes
      PROVE  /\ \A n \in Listed : node[n].gpus \in Nat /\ node[n].score \in Nat
             /\ asked.ranks \in Nat
  <2>1. asked.ranks \in {0} \cup 2..NodeCount
    BY <1>3 DEF PlanTypes
  <2>2. \A n \in Listed : node[n].gpus \in GpuCounts /\ node[n].score \in Scores
    BY <1>3 DEF PlanTypes
  <2>3. NodeCount \in Nat /\ Scores \subseteq Nat /\ GpuCounts \subseteq Nat
    BY PlanAssumption
  <2>4. asked.ranks \in Nat
    BY <2>1, <2>3
  <2> QED
    BY <2>2, <2>3, <2>4
<1> QED
  BY <1>1, <1>2, <1>3

LEMMA SlotsAre ==
    ASSUME PlanTypes, NEW n \in Listed
    PROVE  Slots(n) \in Nat /\ Slots(n) >= 1
BY PlanConstants, OfTwo DEF Slots

\* The nodes a ring is cut from, and those that count when no number is named.
MayTrain == {n \in Listed : ~(asked.native /\ Forwarded(n)) /\ (asked.gpu = "force" => HasGPU(n))}

LEMMA KindsAre ==
    ASSUME Candidates # {}
    PROVE  /\ OneKind(Candidates) # {} /\ OneKind(Candidates) \subseteq MayTrain
           /\ OneKind(Candidates) \subseteq Listed
BY DEF OneKind, Candidates, MayTrain

\* Every rate is positive, a node that did not answer an average one.
LEMMA RatesAre ==
    ASSUME PlanTypes
    PROVE  /\ DOMAIN Rates = OneKind(Candidates)
           /\ \A n \in OneKind(Candidates) : Rates[n] \in Nat /\ Rates[n] >= 1
<1> DEFINE S == OneKind(Candidates)
           answered == {q \in S : node[q].score > 0}
           f == [q \in answered |-> node[q].score]
           mean == SumFunction(f) \div Cardinality(answered)
<1>1. S \subseteq Listed /\ answered \subseteq Listed
  BY DEF OneKind, Candidates
<1>2. Rates = [n \in S |-> CASE answered = {} -> 1 [] n \in answered -> node[n].score [] OTHER -> mean]
  BY DEF Rates
<1>4. \A n \in answered : node[n].score \in Nat /\ node[n].score >= 1
  <2>1. \A n \in Listed : node[n].score \in Nat
    BY PlanConstants
  <2>2. \A n \in answered : n \in Listed /\ node[n].score > 0
    BY <1>1
  <2> QED
    BY <2>1, <2>2
<1>3. answered # {} => mean \in Nat /\ mean >= 1
  <2> SUFFICES ASSUME answered # {} PROVE mean \in Nat /\ mean >= 1
    OBVIOUS
  <2>1. IsFiniteSet(answered)
    BY <1>1, PlanConstants, FS_Subset
  <2>2. \A q \in answered : f[q] \in Nat /\ f[q] >= 1
    BY <1>4
  <2>3. SumFunction(f) = SumFunctionOnSet(f, answered)
    BY DEF SumFunction
  <2> DEFINE A == answered
             s == SumFunction(f)
             c == Cardinality(A)
  <2>4. c \in Nat \ {0}
    <3>1. Cardinality(answered) \in Nat /\ Cardinality(answered) # 0
      BY <2>1, FS_CardinalityType, FS_EmptySet
    <3> QED
      BY <3>1
  <2> HIDE DEF f, answered
  <2>5. s \in Nat /\ c <= s
    BY <2>1, <2>2, <2>3, SumOne, SumAtLeast
  <2> HIDE DEF s, c
  <2>6. s \div c \in Nat /\ s \div c >= 1
    BY <2>4, <2>5
  <2> QED
    BY <2>6 DEF s, c
<1> HIDE DEF mean, f
<1>5. \A n \in S : Rates[n] = (CASE answered = {} -> 1 [] n \in answered -> node[n].score [] OTHER -> mean)
  BY <1>2
<1> HIDE DEF answered
<1>6. ASSUME NEW n \in S PROVE Rates[n] \in Nat /\ Rates[n] >= 1
  <2>1. CASE answered = {}
    BY <1>5, <2>1
  <2>2. CASE n \in answered
    <3>1. answered # {}
      BY <2>2
    <3> QED
      BY <1>4, <1>5, <2>2, <3>1
  <2>3. CASE answered # {} /\ n \notin answered
    BY <1>3, <1>5, <2>3
  <2> QED
    BY <2>1, <2>2, <2>3
<1> QED
  BY <1>2, <1>6

\* Devices are as many as the run may ask for.
LEMMA DevicesAre ==
    ASSUME PlanTypes, NEW S, S \subseteq MayTrain
    PROVE  /\ IsFiniteSet(Devices(S)) /\ Cardinality(Devices(S)) <= Eligible
           /\ \A d \in Devices(S) : d = <<d[1], d[2]>> /\ d[1] \in S /\ d[2] \in Nat /\ d[2] \in 0..(Slots(d[1]) - 1)
           /\ S # {} => Devices(S) # {}
<1> DEFINE f == [n \in MayTrain |-> Slots(n)]
           P == {k \in Nat : \A T \in SUBSET MayTrain : Cardinality(T) = k =>
                   /\ IsFiniteSet(Devices(T \cap S))
                   /\ Cardinality(Devices(T \cap S)) <= SumFunctionOnSet(f, T)}
<1>1. IsFiniteSet(MayTrain) /\ MayTrain \subseteq Listed
  BY PlanConstants, FS_Subset DEF MayTrain
<1>2. \A n \in MayTrain : f[n] = Slots(n) /\ f[n] \in Nat /\ f[n] >= 1
  BY <1>1, SlotsAre
<1>3. Eligible = SumFunctionOnSet(f, MayTrain)
  BY DEF Eligible, MayTrain, SumFunction
<1> HIDE DEF f
<1>4. 0 \in P
  <2> SUFFICES ASSUME NEW T \in SUBSET MayTrain, Cardinality(T) = 0
               PROVE  /\ IsFiniteSet(Devices(T \cap S))
                      /\ Cardinality(Devices(T \cap S)) <= SumFunctionOnSet(f, T)
    OBVIOUS
  <2>1. T = {}
    BY <1>1, SubFinite, FS_EmptySet
  <2>2. Devices(T \cap S) = {}
    BY <2>1 DEF Devices
  <2>3. SumFunctionOnSet(f, T) \in Nat
    BY <1>1, <1>2, SubFinite, SumOne
  <2> QED
    BY <2>2, <2>3, FS_EmptySet
<1>5. ASSUME NEW k \in Nat, k \in P PROVE k + 1 \in P
  <2> SUFFICES ASSUME NEW T \in SUBSET MayTrain, Cardinality(T) = k + 1
               PROVE  /\ IsFiniteSet(Devices(T \cap S))
                      /\ Cardinality(Devices(T \cap S)) <= SumFunctionOnSet(f, T)
    OBVIOUS
  <2>1. IsFiniteSet(T) /\ T # {}
    BY <1>1, SubFinite, FS_EmptySet
  <2>2. PICK n \in T : TRUE
    BY <2>1
  <2> DEFINE U == T \ {n}
             own == {n} \X (0..(Slots(n) - 1))
  <2>3. IsFiniteSet(U) /\ Cardinality(U) = k /\ U \in SUBSET MayTrain
    <3>1. IsFiniteSet(U) /\ Cardinality(U) = (k + 1) - 1
      BY <2>1, FS_RemoveElement
    <3> QED
      BY <3>1
  <2>4. n \in MayTrain /\ Slots(n) \in Nat /\ Slots(n) >= 1 /\ f[n] = Slots(n)
    BY <1>2
  <2>5. IsFiniteSet(own) /\ Cardinality(own) = Slots(n)
    <3>1. IsFiniteSet(0..(Slots(n) - 1)) /\ Cardinality(0..(Slots(n) - 1)) = Slots(n)
      <4>1. 0 \in Int /\ Slots(n) - 1 \in Int /\ ~(0 > Slots(n) - 1)
        BY <2>4
      <4>2. /\ IsFiniteSet(0..(Slots(n) - 1))
            /\ Cardinality(0..(Slots(n) - 1)) = IF 0 > Slots(n) - 1 THEN 0 ELSE (Slots(n) - 1) - 0 + 1
        BY <4>1, FS_Interval
      <4> QED
        BY <2>4, <4>1, <4>2
    <3>2. IsFiniteSet({n}) /\ Cardinality({n}) = 1
      BY FS_Singleton
    <3>3. IsFiniteSet(own) /\ Cardinality(own) = Cardinality({n}) * Cardinality(0..(Slots(n) - 1))
      BY <3>1, <3>2, FS_Product, Zenon
    <3> QED
      BY <2>4, <3>1, <3>2, <3>3
  <2>6. IsFiniteSet(Devices(U \cap S)) /\ Cardinality(Devices(U \cap S)) <= SumFunctionOnSet(f, U)
    BY <1>5, <2>3
  <2>7. SumFunctionOnSet(f, T) = f[n] + SumFunctionOnSet(f, U) /\ SumFunctionOnSet(f, U) \in Nat
    <3>1. SumFunctionOnSet(f, T) = f[n] + SumFunctionOnSet(f, U)
      BY <1>2, <2>1, SumOne
    <3>2. SumFunctionOnSet(f, U) \in Nat
      BY <1>2, <2>3, SumOne
    <3> QED
      BY <3>1, <3>2
  <2>8. Devices(T \cap S) \in SUBSET (Devices(U \cap S) \cup own)
    BY DEF Devices
  <2> HIDE DEF U, own
  <2>9. /\ IsFiniteSet(Devices(U \cap S) \cup own)
        /\ Cardinality(Devices(U \cap S) \cup own) <= Cardinality(Devices(U \cap S)) + Slots(n)
    <3> DEFINE A == Devices(U \cap S)
    <3>1. IsFiniteSet(A) /\ Cardinality(A) \in Nat /\ IsFiniteSet(A \cap own) /\ Cardinality(A \cap own) \in Nat
      BY <2>6, FS_CardinalityType, FS_Intersection
    <3>2. /\ IsFiniteSet(A \cup own)
          /\ Cardinality(A \cup own) = Cardinality(A) + Cardinality(own) - Cardinality(A \cap own)
      BY <2>5, <3>1, FS_Union
    <3> HIDE DEF A
    <3> QED
      BY <2>4, <2>5, <3>1, <3>2 DEF A
  <2>10. /\ IsFiniteSet(Devices(T \cap S))
         /\ Cardinality(Devices(T \cap S)) <= Cardinality(Devices(U \cap S) \cup own)
         /\ Cardinality(Devices(T \cap S)) \in Nat /\ Cardinality(Devices(U \cap S) \cup own) \in Nat
         /\ Cardinality(Devices(U \cap S)) \in Nat
    BY <2>6, <2>8, <2>9, FS_Subset, FS_CardinalityType
  <2> QED
    BY <2>4, <2>6, <2>7, <2>9, <2>10
<1>6. Cardinality(MayTrain) \in P
  <2>1. Cardinality(MayTrain) \in Nat
    BY <1>1, FS_CardinalityType
  <2> HIDE DEF P
  <2> QED
    BY <1>4, <1>5, <2>1, SetInduction
<1>7. IsFiniteSet(Devices(S)) /\ Cardinality(Devices(S)) <= Eligible
  <2>1. MayTrain \cap S = S
    OBVIOUS
  <2> QED
    BY <1>3, <1>6, <2>1
<1>8. ASSUME NEW d \in Devices(S)
      PROVE  d = <<d[1], d[2]>> /\ d[1] \in S /\ d[2] \in Nat /\ d[2] \in 0..(Slots(d[1]) - 1)
  <2>1. PICK n \in S : d \in {n} \X (0..(Slots(n) - 1))
    BY DEF Devices
  <2>2. d = <<d[1], d[2]>> /\ d[1] = n /\ d[2] \in 0..(Slots(n) - 1)
    BY <2>1
  <2>3. Slots(n) \in Nat
    BY <1>1, <2>1, SlotsAre
  <2> QED
    BY <2>2, <2>3
<1>9. ASSUME S # {} PROVE Devices(S) # {}
  <2>1. PICK n \in S : TRUE
    BY <1>9
  <2>2. n \in Listed /\ Slots(n) \in Nat /\ Slots(n) >= 1
    BY <1>1, SlotsAre
  <2>3. <<n, 0>> \in Devices(S)
    BY <2>2 DEF Devices
  <2> QED
    BY <2>3
<1> QED
  BY <1>7, <1>8, <1>9

\* The two orders of devices.
Faster(rate, D) ==
    {p \in D \X D :
        \/ rate[p[1][1]] > rate[p[2][1]]
        \/ /\ rate[p[1][1]] = rate[p[2][1]]
           /\ \/ p[1][1] < p[2][1]
              \/ p[1][1] = p[2][1] /\ p[1][2] < p[2][2]}
Earlier(rate, D) ==
    {p \in D \X D :
        \/ rate[p[1][1]] > rate[p[2][1]]
        \/ /\ rate[p[1][1]] = rate[p[2][1]]
           /\ \/ p[1][2] < p[2][2]
              \/ p[1][2] = p[2][2] /\ p[1][1] < p[2][1]}

AreDevices(rate, D) ==
    /\ IsFiniteSet(D)
    /\ \A d \in D : d = <<d[1], d[2]>> /\ d[1] \in Nat /\ d[2] \in Nat /\ rate[d[1]] \in Nat

LEMMA BothOrder ==
    ASSUME NEW rate, NEW D, AreDevices(rate, D)
    PROVE  IsOrder(Faster(rate, D), D) /\ IsOrder(Earlier(rate, D), D)
<1>1. /\ \A d, e \in D : <<d, e>> \in Faster(rate, D) <=>
             \/ rate[d[1]] > rate[e[1]]
             \/ rate[d[1]] = rate[e[1]] /\ (d[1] < e[1] \/ (d[1] = e[1] /\ d[2] < e[2]))
      /\ \A d, e \in D : <<d, e>> \in Earlier(rate, D) <=>
             \/ rate[d[1]] > rate[e[1]]
             \/ rate[d[1]] = rate[e[1]] /\ (d[2] < e[2] \/ (d[2] = e[2] /\ d[1] < e[1]))
  BY DEF Faster, Earlier
<1>2. \A d \in D : d[1] \in Nat /\ d[2] \in Nat /\ rate[d[1]] \in Nat
  BY DEF AreDevices
<1>3. \A d, e \in D : d[1] = e[1] /\ d[2] = e[2] => d = e
  BY DEF AreDevices
<1>4. \A d \in D : <<d, d>> \notin Faster(rate, D) /\ <<d, d>> \notin Earlier(rate, D)
  BY <1>1, <1>2
<1>5. ASSUME NEW d \in D, NEW e \in D, d # e
      PROVE  /\ <<d, e>> \in Faster(rate, D) \/ <<e, d>> \in Faster(rate, D)
             /\ <<d, e>> \in Earlier(rate, D) \/ <<e, d>> \in Earlier(rate, D)
  BY <1>1, <1>2, <1>3, <1>5
<1>6. ASSUME NEW d \in D, NEW e \in D, NEW f \in D
      PROVE  /\ <<d, e>> \in Faster(rate, D) /\ <<e, f>> \in Faster(rate, D) => <<d, f>> \in Faster(rate, D)
             /\ <<d, e>> \in Earlier(rate, D) /\ <<e, f>> \in Earlier(rate, D) => <<d, f>> \in Earlier(rate, D)
  BY <1>1, <1>2
<1> QED
  BY <1>4, <1>5, <1>6 DEF IsOrder

LineFact(o, R, D) ==
    /\ o \in Seq(D) /\ Len(o) = Cardinality(D) /\ Len(o) \in Nat /\ Distinct(o)
    /\ \A d \in D : \E k \in 1..Len(o) : o[k] = d
    /\ \A i, j \in 1..Len(o) : i < j => <<o[i], o[j]>> \in R

LEMMA FastestIs ==
    ASSUME NEW rate, AreDevices(rate, Devices(DOMAIN rate))
    PROVE  LineFact(Fastest(rate), Faster(rate, Devices(DOMAIN rate)), Devices(DOMAIN rate))
<1> DEFINE D == Devices(DOMAIN rate)
           R == Faster(rate, D)
           o == Fastest(rate)
           InFront(d) == {e \in D :
                            \/ rate[e[1]] > rate[d[1]]
                            \/ rate[e[1]] = rate[d[1]] /\ (e[1] < d[1] \/ (e[1] = d[1] /\ e[2] < d[2]))}
<1>1. o = [k \in 1..Cardinality(D) |-> CHOOSE d \in D : Cardinality(InFront(d)) = k - 1]
  BY DEF Fastest, InOrder
<1>2. \A d \in D : InFront(d) = Preceding(R, D, d)
  BY DEF Preceding, Faster
<1>3. IsOrder(R, D) /\ IsFiniteSet(D)
  BY BothOrder DEF AreDevices
<1> HIDE DEF D, R, o, InFront
<1>4. ASSUME NEW k \in 1..Cardinality(D)
      PROVE  o[k] \in D /\ Cardinality(Preceding(R, D, o[k])) = k - 1
  <2>1. \E d \in D : Cardinality(InFront(d)) = k - 1
    BY <1>2, <1>3, PlacesFilled
  <2>2. o[k] = CHOOSE d \in D : Cardinality(InFront(d)) = k - 1
    BY <1>1
  <2>3. o[k] \in D /\ Cardinality(InFront(o[k])) = k - 1
    BY <2>1, <2>2
  <2> QED
    BY <1>2, <2>3
<1>5. o = [k \in 1..Cardinality(D) |-> o[k]]
  BY <1>1
<1>6. /\ o \in Seq(D) /\ Len(o) = Cardinality(D) /\ Len(o) \in Nat
      /\ \A i, j \in 1..Len(o) : o[i] = o[j] => i = j
      /\ \A d \in D : \E k \in 1..Len(o) : o[k] = d
      /\ \A i, j \in 1..Len(o) : i < j => <<o[i], o[j]>> \in R
  BY <1>3, <1>4, <1>5, LinedUp
<1>7. LineFact(o, R, D)
  BY <1>6 DEF LineFact, Distinct
<1> QED
  BY <1>7 DEF D, R, o

\* The same for any set of devices in the other order.
LEMMA EarliestIs ==
    ASSUME NEW rate, NEW D, AreDevices(rate, D)
    PROVE  LineFact(InOrder(D, LAMBDA d, e :
                      \/ rate[d[1]] > rate[e[1]]
                      \/ rate[d[1]] = rate[e[1]] /\ (d[2] < e[2] \/ (d[2] = e[2] /\ d[1] < e[1]))),
                    Earlier(rate, D), D)
<1> DEFINE R == Earlier(rate, D)
           o == InOrder(D, LAMBDA d, e :
                      \/ rate[d[1]] > rate[e[1]]
                      \/ rate[d[1]] = rate[e[1]] /\ (d[2] < e[2] \/ (d[2] = e[2] /\ d[1] < e[1])))
           InFront(d) == {e \in D :
                            \/ rate[e[1]] > rate[d[1]]
                            \/ rate[e[1]] = rate[d[1]] /\ (e[2] < d[2] \/ (e[2] = d[2] /\ e[1] < d[1]))}
<1>1. o = [k \in 1..Cardinality(D) |-> CHOOSE d \in D : Cardinality(InFront(d)) = k - 1]
  BY DEF InOrder
<1>2. \A d \in D : InFront(d) = Preceding(R, D, d)
  BY DEF Preceding, Earlier
<1>3. IsOrder(R, D) /\ IsFiniteSet(D)
  BY BothOrder DEF AreDevices
<1> HIDE DEF R, o, InFront
<1>4. ASSUME NEW k \in 1..Cardinality(D)
      PROVE  o[k] \in D /\ Cardinality(Preceding(R, D, o[k])) = k - 1
  <2>1. \E d \in D : Cardinality(InFront(d)) = k - 1
    BY <1>2, <1>3, PlacesFilled
  <2>2. o[k] = CHOOSE d \in D : Cardinality(InFront(d)) = k - 1
    BY <1>1
  <2>3. o[k] \in D /\ Cardinality(InFront(o[k])) = k - 1
    BY <2>1, <2>2
  <2> QED
    BY <1>2, <2>3
<1>5. o = [k \in 1..Cardinality(D) |-> o[k]]
  BY <1>1
<1>6. /\ o \in Seq(D) /\ Len(o) = Cardinality(D) /\ Len(o) \in Nat
      /\ \A i, j \in 1..Len(o) : o[i] = o[j] => i = j
      /\ \A d \in D : \E k \in 1..Len(o) : o[k] = d
      /\ \A i, j \in 1..Len(o) : i < j => <<o[i], o[j]>> \in R
  BY <1>3, <1>4, <1>5, LinedUp
<1>7. LineFact(o, R, D)
  BY <1>6 DEF LineFact, Distinct
<1> QED
  BY <1>7 DEF R, o

-----------------------------------------------------------------------------
SetRates(rate, T) == {rate[d[1]] : d \in T}

\* What is admitted of the devices: without a number the ring whose size times
\* its slowest rate is the largest.
AdmitFact(A, rate, D) ==
    /\ A \subseteq D /\ A # {}
    /\ asked.ranks = 0 =>
         \E v \in Nat :
            /\ v >= 1 /\ \A d \in A : rate[d[1]] >= v
            /\ \A T \in (SUBSET D) \ {{}} : Cardinality(T) * Min(SetRates(rate, T)) <= Cardinality(A) * v

LEMMA AdmitIs ==
    ASSUME NEW rate, AreDevices(rate, Devices(DOMAIN rate)), Devices(DOMAIN rate) # {},
           \A d \in Devices(DOMAIN rate) : rate[d[1]] >= 1, asked.ranks \in Nat
    PROVE  AdmitFact(Admit(rate), rate, Devices(DOMAIN rate))
<1> DEFINE D == Devices(DOMAIN rate)
           devs == Fastest(rate)
           n == Len(devs)
           b == Best(rate, devs)
           A == Admit(rate)
           worth == [k \in 1..n |-> k * rate[devs[k][1]]]
<1>1. /\ devs \in Seq(D) /\ n \in Nat /\ Distinct(devs)
      /\ \A d \in D : \E k \in 1..n : devs[k] = d
      /\ \A i, j \in 1..n : i < j => <<devs[i], devs[j]>> \in Faster(rate, D)
  BY FastestIs DEF LineFact
<1>2. A = {devs[k] : k \in 1..b}
  BY DEF Admit
<1>3. /\ \A d \in D : rate[d[1]] \in Nat /\ rate[d[1]] >= 1
      /\ D # {}
  BY DEF AreDevices
<1>4. \A k \in 1..n : worth[k] = k * rate[devs[k][1]]
  OBVIOUS
<1>5. asked.ranks = 0 =>
        b = CHOOSE k \in DOMAIN devs :
               /\ \A j \in DOMAIN devs : j * rate[devs[j][1]] <= k * rate[devs[k][1]]
               /\ \A j \in 1..(k - 1) : j * rate[devs[j][1]] < k * rate[devs[k][1]]
  BY DEF Best
<1>6. asked.ranks # 0 => b = n
  BY DEF Best
<1> HIDE DEF D, devs, b, A
<1>7. \A k \in 1..n : devs[k] \in D
  BY <1>1
<1>8. DOMAIN devs = 1..n
  BY <1>1
<1>9. \A k \in 1..n : k \in Nat /\ rate[devs[k][1]] \in Nat /\ rate[devs[k][1]] >= 1
  <2> TAKE k \in 1..n
  <2>1. devs[k] \in D
    BY <1>7
  <2>2. rate[devs[k][1]] \in Nat /\ rate[devs[k][1]] >= 1
    BY <1>3, <2>1
  <2>3. k \in Nat
    BY <1>1
  <2> QED
    BY <2>2, <2>3
<1>10. worth \in [1..n -> Nat]
  <2>1. ASSUME NEW k \in 1..n PROVE k * rate[devs[k][1]] \in Nat
    BY <1>9
  <2> QED
    BY <2>1
<1> HIDE DEF n, worth
<1>11. n \in Nat \ {0}
  BY <1>1, <1>3
<1>12. asked.ranks = 0 => b \in 1..n /\ \A j \in 1..n : j * rate[devs[j][1]] <= b * rate[devs[b][1]]
  <2> SUFFICES ASSUME asked.ranks = 0
               PROVE b \in 1..n /\ \A j \in 1..n : j * rate[devs[j][1]] <= b * rate[devs[b][1]]
    OBVIOUS
  <2>1. PICK k \in 1..n : (\A j \in 1..n : worth[j] <= worth[k]) /\ (\A j \in 1..(k - 1) : worth[j] < worth[k])
    BY <1>10, <1>11, FirstLargest
  <2>2. \A j \in 1..(k - 1) : j \in 1..n
    BY <1>11
  <2>3. /\ \A j \in 1..n : j * rate[devs[j][1]] <= k * rate[devs[k][1]]
        /\ \A j \in 1..(k - 1) : j * rate[devs[j][1]] < k * rate[devs[k][1]]
    BY <1>4, <2>1, <2>2
  <2>4. \E i \in DOMAIN devs :
               /\ \A j \in DOMAIN devs : j * rate[devs[j][1]] <= i * rate[devs[i][1]]
               /\ \A j \in 1..(i - 1) : j * rate[devs[j][1]] < i * rate[devs[i][1]]
    BY <1>8, <2>3
  <2>5. b \in DOMAIN devs /\ \A j \in DOMAIN devs : j * rate[devs[j][1]] <= b * rate[devs[b][1]]
    BY <1>5, <2>4
  <2> QED
    BY <1>8, <2>5
<1>13. b \in 1..n
  BY <1>6, <1>11, <1>12
<1>14. A \subseteq D /\ A # {}
  <2>1. \A k \in 1..b : k \in 1..n
    BY <1>11, <1>13
  <2>2. 1 \in 1..b
    BY <1>11, <1>13
  <2> QED
    BY <1>2, <1>7, <2>1, <2>2
<1>15. Cardinality(A) = b
  <2> DEFINE s == [k \in 1..b |-> devs[k]]
  <2>1. b \in Nat /\ b <= n /\ \A k \in 1..b : k \in 1..n
    BY <1>11, <1>13
  <2>2. s \in Seq(D) /\ Len(s) = b
    BY <1>7, <2>1
  <2>3. \A k \in 1..b : s[k] = devs[k]
    OBVIOUS
  <2> HIDE DEF s
  <2>4. Distinct(s)
    BY <1>1, <2>1, <2>2, <2>3 DEF Distinct, n
  <2>5. {s[k] : k \in 1..Len(s)} = A
    BY <1>2, <2>2, <2>3
  <2> QED
    BY <2>2, <2>4, <2>5, DistinctCount
<1> DEFINE v == rate[devs[b][1]]
<1>16. v \in Nat /\ v >= 1
  BY <1>9, <1>13
<1>17. \A d \in A : rate[d[1]] >= v
  <2> SUFFICES ASSUME NEW k \in 1..b PROVE rate[devs[k][1]] >= v
    BY <1>2
  <2>1. k \in 1..n /\ rate[devs[k][1]] \in Nat
    BY <1>9, <1>11, <1>13
  <2>2. CASE k = b
    BY <2>1, <2>2
  <2>3. CASE k # b
    <3>0. k < b
      BY <1>11, <1>13, <2>1, <2>3
    <3>1. <<devs[k], devs[b]>> \in Faster(rate, D)
      BY <1>1, <1>13, <2>1, <3>0 DEF n
    <3>2. rate[devs[k][1]] > v \/ rate[devs[k][1]] = v
      BY <3>1 DEF Faster
    <3> HIDE DEF v
    <3> QED
      BY <1>16, <2>1, <3>2
  <2> QED
    BY <2>2, <2>3
<1>18. ASSUME asked.ranks = 0, NEW T \in (SUBSET D) \ {{}}
       PROVE  Cardinality(T) * Min(SetRates(rate, T)) <= b * v
  <2> DEFINE K == {k \in 1..n : devs[k] \in T}
             f == [k \in 1..n |-> IF k \in K THEN k ELSE 0]
  <2>1. PICK m \in 1..n : \A j \in 1..n : f[j] <= f[m]
    <3>1. f \in [1..n -> Nat]
      BY <1>11
    <3> HIDE DEF f
    <3> QED
      BY <1>11, <3>1, FirstLargest
  <2>2. K # {}
    BY <1>1 DEF n
  <2>3. m \in K /\ \A k \in K : k <= m
    <3>1. PICK k \in K : TRUE
      BY <2>2
    <3>2. \A j \in 1..n : (j \in K => f[j] = j) /\ (j \notin K => f[j] = 0) /\ j >= 1 /\ j \in Nat
      BY <1>11
    <3>3. K \subseteq 1..n
      OBVIOUS
    <3> HIDE DEF K, f
    <3>4. m \in K
      BY <2>1, <3>1, <3>2, <3>3
    <3> QED
      BY <2>1, <3>2, <3>3, <3>4
  <2>4. Cardinality(T) <= m /\ Cardinality(T) \in Nat
    <3> DEFINE g == [k \in K |-> devs[k]]
    <3>1. g \in Surjection(K, T)
      <4>1. \A d \in T : \E k \in K : devs[k] = d
        BY <1>1 DEF n
      <4> QED
        BY <4>1 DEF Surjection
    <3>2. IsFiniteSet(1..m) /\ Cardinality(1..m) = m
      <4>1. 1 \in Int /\ m \in Int /\ ~(1 > m)
        BY <1>11, <2>3
      <4>2. IsFiniteSet(1..m) /\ Cardinality(1..m) = IF 1 > m THEN 0 ELSE m - 1 + 1
        BY <4>1, FS_Interval
      <4> QED
        BY <4>1, <4>2
    <3>3. K \in SUBSET (1..m)
      BY <1>11, <2>3
    <3>4. IsFiniteSet(K) /\ Cardinality(K) <= m /\ Cardinality(K) \in Nat
      <4> HIDE DEF K
      <4> QED
        BY <3>2, <3>3, FS_Subset, FS_CardinalityType
    <3> HIDE DEF g, K
    <3>5. IsFiniteSet(T) /\ Cardinality(T) <= Cardinality(K)
      BY <3>1, <3>4, FS_Surjection
    <3>6. Cardinality(T) \in Nat
      BY <3>5, FS_CardinalityType
    <3> QED
      BY <1>11, <2>1, <3>4, <3>5, <3>6
  <2>5. Min(SetRates(rate, T)) \in Nat /\ Min(SetRates(rate, T)) <= rate[devs[m][1]]
    <3> DEFINE W == SetRates(rate, T)
    <3>1. W \subseteq Nat /\ rate[devs[m][1]] \in W
      BY <1>3, <2>3 DEF SetRates
    <3> HIDE DEF W
    <3>2. Min(W) \in W /\ \A x \in W : Min(W) <= x
      BY <3>1, MinIs
    <3> QED
      BY <3>1, <3>2 DEF W
  <2>6. m \in Nat /\ rate[devs[m][1]] \in Nat
    BY <1>9
  <2>7. Cardinality(T) * Min(SetRates(rate, T)) <= m * rate[devs[m][1]] /\ m * rate[devs[m][1]] \in Nat
        /\ Cardinality(T) * Min(SetRates(rate, T)) \in Nat
    BY <2>4, <2>5, <2>6, Products
  <2>8. m * rate[devs[m][1]] <= b * v
    BY <1>12, <1>18
  <2>9. b * v \in Nat
    <3>1. b \in Nat
      BY <1>11, <1>13
    <3> HIDE DEF v
    <3> QED
      BY <1>16, <3>1
  <2> HIDE DEF v
  <2> QED
    BY <2>7, <2>8, <2>9
<1> QED
  BY <1>14, <1>15, <1>16, <1>17, <1>18 DEF AdmitFact, D, A

-----------------------------------------------------------------------------
\* A ring as it is chosen.
Enough(D) == Cardinality(D) * Cardinality(D) <= NominalStep
RingFact(r, w) ==
    LET rate == Rates
        D    == Devices(DOMAIN rate)
    IN  /\ r \in Seq(D) /\ Distinct(r) /\ Len(w) = Len(r) /\ w \in Seq(Nat) /\ Len(r) <= RanksWanted
        /\ \A k, j \in 1..Len(r) : rate[r[k][1]] > rate[r[j][1]] => w[k] >= w[j]
        /\ asked.ranks = 0 /\ Enough(D) =>
             \A T \in (SUBSET D) \ {{}} : \A k \in 1..Len(r) :
               Cardinality(T) * Min(SetRates(rate, T)) <= Len(r) * rate[r[k][1]]

LEMMA WantedIs ==
    ASSUME PlanTypes
    PROVE  RanksWanted \in Nat /\ Eligible \in Nat /\ (asked.ranks = 0 => RanksWanted = Eligible)
<1> DEFINE f == [n \in MayTrain |-> Slots(n)]
<1>1. IsFiniteSet(MayTrain) /\ MayTrain \subseteq Listed
  BY PlanConstants, FS_Subset DEF MayTrain
<1>2. \A n \in MayTrain : f[n] \in Nat
  BY <1>1, SlotsAre
<1>3. Eligible = SumFunctionOnSet(f, MayTrain)
  BY DEF Eligible, MayTrain, SumFunction
<1> HIDE DEF f
<1>4. Eligible \in Nat /\ asked.ranks \in Nat
  BY <1>1, <1>2, <1>3, SumOne, PlanConstants
<1> QED
  BY <1>4, OfTwo DEF RanksWanted

LEMMA SelectIs ==
    ASSUME PlanTypes, Candidates # {}
    PROVE  RingFact(Select(Rates).ring, Select(Rates).weights)
<1> DEFINE rate == Rates
           D == Devices(DOMAIN rate)
           A == Admit(rate)
           g == [e \in A |-> rate[e[1]]]
           total == SumFunction(g)
           items(d) == (NominalStep * rate[d[1]]) \div total
           B == {d \in A : items(d) > 0}
           order == InOrder(B, LAMBDA d, e :
                      \/ rate[d[1]] > rate[e[1]]
                      \/ rate[d[1]] = rate[e[1]] /\ (d[2] < e[2] \/ (d[2] = e[2] /\ d[1] < e[1])))
           upto == Min({Len(order), RanksWanted})
           chosen == SubSeq(order, 1, upto)
           T1 == {k \in DOMAIN chosen : HasGPU(chosen[k][1])}
           T2 == {k \in DOMAIN chosen : ~HasGPU(chosen[k][1])}
           kept == Keep(chosen, T1) \o Keep(chosen, T2)
           w == [k \in DOMAIN kept |-> items(kept[k])]
<1>1. Select(Rates).ring = kept /\ Select(Rates).weights = w
  BY DEF Select
<1>2. /\ DOMAIN rate = OneKind(Candidates) /\ OneKind(Candidates) # {}
      /\ OneKind(Candidates) \subseteq MayTrain
      /\ \A n \in OneKind(Candidates) : rate[n] \in Nat /\ rate[n] >= 1
  BY RatesAre, KindsAre
<1>3. /\ IsFiniteSet(D) /\ D # {} /\ Cardinality(D) <= Eligible
      /\ \A d \in D : d = <<d[1], d[2]>> /\ d[1] \in OneKind(Candidates) /\ d[2] \in Nat
  BY <1>2, DevicesAre
<1>4. MayTrain \subseteq Nat
  BY PlanConstants DEF MayTrain
<1> HIDE DEF rate, D
<1>5. \A d \in D : rate[d[1]] \in Nat /\ rate[d[1]] >= 1 /\ d[1] \in Nat
  BY <1>2, <1>3, <1>4
<1>6. AreDevices(rate, D) /\ asked.ranks \in Nat
  BY <1>3, <1>5, PlanConstants DEF AreDevices
<1>7. AdmitFact(A, rate, D)
  BY <1>3, <1>5, <1>6, AdmitIs DEF D
<1> HIDE DEF A
<1>8. A \subseteq D /\ A # {} /\ IsFiniteSet(A) /\ Cardinality(A) \in Nat
  <2>1. A \subseteq D /\ A # {}
    BY <1>7 DEF AdmitFact
  <2> QED
    BY <1>3, <2>1, SubFinite
<1>9. /\ \A d \in A : g[d] = rate[d[1]] /\ g[d] \in Nat /\ g[d] >= 1
      /\ total = SumFunctionOnSet(g, A)
  BY <1>5, <1>8 DEF SumFunction
<1> HIDE DEF g
<1>10. total \in Nat /\ \A d \in A : rate[d[1]] <= total
  BY <1>8, <1>9, SumOne, SumAtLeast
<1> HIDE DEF total
<1>11. total \in Nat \ {0}
  <2>1. PICK d \in A : TRUE
    BY <1>8
  <2>2. rate[d[1]] \in Nat /\ rate[d[1]] >= 1 /\ rate[d[1]] <= total
    BY <1>5, <1>8, <1>10
  <2> QED
    BY <1>10, <2>2
<1>12. NominalStep \in Nat
  BY PlanAssumption
<1>13. /\ \A d \in A : items(d) \in Nat
       /\ \A d, e \in A : rate[d[1]] > rate[e[1]] => items(d) >= items(e)
       /\ \A d \in A : NominalStep * rate[d[1]] >= total => items(d) > 0
  <2>1. ASSUME NEW d \in A
        PROVE  items(d) \in Nat /\ (NominalStep * rate[d[1]] >= total => items(d) > 0)
    <3> DEFINE x == NominalStep * rate[d[1]]
    <3>1. rate[d[1]] \in Nat
      BY <1>5, <1>8
    <3>2. x \in Nat
      BY <1>12, <3>1
    <3>3. items(d) = x \div total
      OBVIOUS
    <3> HIDE DEF x, items
    <3>4. x \div total \in Nat /\ (x >= total => x \div total > 0)
      BY <1>11, <3>2, Quotients
    <3> QED
      BY <3>3, <3>4 DEF x
  <2>2. ASSUME NEW d \in A, NEW e \in A, rate[d[1]] > rate[e[1]]
        PROVE  items(d) >= items(e)
    <3> DEFINE x == NominalStep * rate[d[1]]
               y == NominalStep * rate[e[1]]
    <3>1. rate[d[1]] \in Nat /\ rate[e[1]] \in Nat
      BY <1>5, <1>8
    <3>2. x \in Nat /\ y \in Nat /\ x >= y
      <4>1. y <= x /\ y \in Nat
        BY <1>12, <2>2, <3>1, Products
      <4>2. x \in Nat
        BY <1>12, <3>1
      <4> QED
        BY <4>1, <4>2
    <3>3. items(d) = x \div total /\ items(e) = y \div total
      OBVIOUS
    <3> HIDE DEF x, y, items
    <3>4. x \div total >= y \div total
      BY <1>11, <3>2, Quotients
    <3> QED
      BY <3>3, <3>4
  <2> QED
    BY <2>1, <2>2
<1> HIDE DEF items
<1>14. B \subseteq A /\ IsFiniteSet(B) /\ AreDevices(rate, B)
  <2>1. B \subseteq A
    OBVIOUS
  <2> HIDE DEF B
  <2>2. IsFiniteSet(B)
    BY <1>8, <2>1, FS_Subset
  <2> QED
    BY <1>6, <1>8, <2>1, <2>2 DEF AreDevices
<1>15. /\ order \in Seq(B) /\ Len(order) = Cardinality(B) /\ Len(order) \in Nat /\ Distinct(order)
       /\ \A d \in B : \E k \in 1..Len(order) : order[k] = d
  <2> HIDE DEF B
  <2>1. LineFact(order, Earlier(rate, B), B)
    BY <1>14, EarliestIs
  <2> HIDE DEF order
  <2> QED
    BY <2>1 DEF LineFact
<1>16. RanksWanted \in Nat /\ Eligible \in Nat /\ (asked.ranks = 0 => RanksWanted = Eligible)
  BY WantedIs
<1> HIDE DEF order
<1>17. upto \in Nat /\ upto <= Len(order) /\ upto <= RanksWanted /\ upto \in {Len(order), RanksWanted}
  BY <1>15, <1>16, OfTwo
<1> HIDE DEF upto
<1>18. chosen \in Seq(B) /\ Len(chosen) = upto /\ \A k \in 1..upto : chosen[k] = order[k]
  <2> HIDE DEF B
  <2> QED
    BY <1>15, <1>17
<1> HIDE DEF chosen
<1>19. Distinct(chosen)
  <2>1. \A k \in 1..upto : k \in 1..Len(order)
    BY <1>15, <1>17
  <2> QED
    BY <1>15, <1>18, <2>1 DEF Distinct
<1>20. /\ kept \in Seq(B) /\ Distinct(kept) /\ Len(kept) = Len(chosen)
       /\ \A x : Contains(kept, x) <=> Contains(chosen, x)
  <2>1. \A i \in 1..Len(chosen) : i \in T1 <=> i \notin T2
    BY <1>18
  <2> HIDE DEF T1, T2, B
  <2> QED
    BY <1>18, <1>19, <2>1, PartsAre
<1> HIDE DEF kept
<1>21. Len(kept) = upto /\ DOMAIN kept = 1..upto /\ \A k \in 1..upto : kept[k] \in B /\ kept[k] \in A /\ kept[k] \in D
  <2>1. Len(kept) = upto
    BY <1>18, <1>20
  <2>2. DOMAIN kept = 1..Len(kept) /\ \A k \in 1..Len(kept) : kept[k] \in B
    <3> HIDE DEF B
    <3> QED
      BY <1>20
  <2> QED
    BY <1>8, <1>14, <2>1, <2>2
<1>22. /\ w \in Seq(Nat) /\ Len(w) = upto /\ \A k \in 1..upto : w[k] = items(kept[k])
  <2>1. w = [k \in 1..upto |-> items(kept[k])]
    BY <1>21
  <2>2. \A k \in 1..upto : items(kept[k]) \in Nat
    BY <1>13, <1>21
  <2> HIDE DEF w
  <2>3. w \in [1..upto -> Nat] /\ \A k \in 1..upto : w[k] = items(kept[k])
    BY <2>1, <2>2
  <2> QED
    BY <1>17, <2>3
<1> HIDE DEF w
<1>23. ASSUME NEW k \in 1..upto, NEW j \in 1..upto, rate[kept[k][1]] > rate[kept[j][1]]
       PROVE  w[k] >= w[j]
  <2>1. items(kept[k]) >= items(kept[j])
    BY <1>13, <1>21, <1>23
  <2> QED
    BY <1>22, <2>1
<1>24. ASSUME asked.ranks = 0, Enough(D), NEW T \in (SUBSET D) \ {{}}, NEW k \in 1..upto
       PROVE  Cardinality(T) * Min(SetRates(rate, T)) <= upto * rate[kept[k][1]]
  <2> DEFINE a == Cardinality(A)
             c == Cardinality(D)
  <2>1. PICK v \in Nat :
            /\ v >= 1 /\ \A d \in A : rate[d[1]] >= v
            /\ \A U \in (SUBSET D) \ {{}} : Cardinality(U) * Min(SetRates(rate, U)) <= a * v
    BY <1>7, <1>24 DEF AdmitFact
  <2>2. a \in Nat /\ c \in Nat /\ a <= c /\ c <= Eligible /\ c * c <= NominalStep
    BY <1>3, <1>8, <1>24, FS_Subset, FS_CardinalityType DEF Enough
  <2> HIDE DEF a, c
  <2>3. a * v \in Nat
    BY <2>1, <2>2
  <2>4. ASSUME NEW d \in A PROVE rate[d[1]] <= a * v
    <3> DEFINE x == rate[d[1]]
    <3>1. {d} \in (SUBSET D) \ {{}}
      BY <1>8
    <3>2. SetRates(rate, {d}) = {x}
      BY DEF SetRates
    <3>3. x \in Nat
      BY <1>5, <1>8
    <3> HIDE DEF x
    <3>4. Min({x}) = x
      BY <3>3, MinIs
    <3>5. Cardinality({d}) * Min(SetRates(rate, {d})) <= a * v
      BY <2>1, <3>1
    <3>6. 1 * x <= a * v
      BY <3>2, <3>4, <3>5, FS_Singleton
    <3> QED
      BY <2>3, <3>3, <3>6 DEF x
  <2>5. total <= a * (a * v)
    <3> DEFINE m == a * v
    <3>1. \A d \in A : g[d] \in Nat /\ g[d] <= m
      BY <1>9, <2>4
    <3> HIDE DEF m
    <3>2. SumFunctionOnSet(g, A) <= Cardinality(A) * m
      BY <1>8, <2>3, <3>1, SumAtMost DEF m
    <3> QED
      BY <1>9, <3>2 DEF m, a
  <2>6. a * (a * v) <= NominalStep * v
    <3>1. a * a <= c * c /\ a * a \in Nat /\ c * c \in Nat
      BY <2>2, Products
    <3>2. a * (a * v) = (a * a) * v
      BY <2>1, <2>2
    <3>3. a * a <= NominalStep
      BY <1>12, <2>2, <3>1
    <3>4. (a * a) * v <= NominalStep * v
      BY <1>12, <2>1, <3>1, <3>3, Products
    <3> QED
      BY <3>2, <3>4
  <2>7. ASSUME NEW d \in A PROVE items(d) > 0
    <3>1. rate[d[1]] \in Nat /\ v <= rate[d[1]]
      BY <1>5, <1>8, <2>1
    <3>2. NominalStep * v <= NominalStep * rate[d[1]] /\ NominalStep * v \in Nat
      BY <1>12, <2>1, <3>1, Products
    <3>3. NominalStep * rate[d[1]] \in Nat /\ a * (a * v) \in Nat
      BY <1>12, <2>2, <2>3, <3>1
    <3>4. NominalStep * rate[d[1]] >= total
      BY <1>11, <2>5, <2>6, <3>2, <3>3
    <3> QED
      BY <1>13, <3>4
  <2>8. B = A
    BY <2>7
  <2>9. upto = a
    <3>1. Len(order) = a
      BY <1>15, <2>8 DEF a
    <3>2. RanksWanted = Eligible /\ Eligible \in Nat
      BY <1>16, <1>24
    <3> QED
      BY <1>17, <2>2, <3>1, <3>2
  <2>10. Cardinality(T) * Min(SetRates(rate, T)) <= a * v
    BY <2>1
  <2>11. rate[kept[k][1]] \in Nat /\ v <= rate[kept[k][1]]
    BY <1>5, <1>21, <2>1
  <2>12. a * v <= a * rate[kept[k][1]] /\ a * rate[kept[k][1]] \in Nat
    BY <2>1, <2>2, <2>11, Products
  <2>13. Cardinality(T) * Min(SetRates(rate, T)) \in Nat
    <3> DEFINE W == SetRates(rate, T)
    <3>1. W \subseteq Nat /\ W # {}
      BY <1>5 DEF SetRates
    <3> HIDE DEF W
    <3>2. Min(W) \in Nat
      BY <3>1, MinIs
    <3>3. Cardinality(T) \in Nat
      BY <1>3, SubFinite
    <3>4. Cardinality(T) * Min(W) \in Nat
      BY <3>2, <3>3
    <3> QED
      BY <3>4 DEF W
  <2>14. Cardinality(T) * Min(SetRates(rate, T)) <= a * rate[kept[k][1]]
    BY <2>3, <2>10, <2>12, <2>13
  <2> QED
    BY <2>9, <2>14
<1>25. kept \in Seq(D)
  <2>1. kept = [k \in 1..upto |-> kept[k]]
    <3> HIDE DEF B
    <3> QED
      BY <1>20, <1>21
  <2>2. kept \in [1..upto -> D]
    BY <1>21, <2>1
  <2> QED
    BY <1>17, <2>2
<1>26. RingFact(kept, w)
  BY <1>17, <1>20, <1>21, <1>22, <1>23, <1>24, <1>25 DEF RingFact, D, rate
<1> QED
  BY <1>1, <1>26

\* Where the i-th of a list comes from whose k-th went to the front.
From(k, i) == IF i = 1 THEN k ELSE IF i <= k THEN i - 1 ELSE i

LEMMA RingRates ==
    ASSUME PlanTypes
    PROVE  \A d \in Devices(DOMAIN Rates) : Rates[d[1]] \in Nat
<1>1. DOMAIN Rates = OneKind(Candidates) /\ \A n \in OneKind(Candidates) : Rates[n] \in Nat
  BY RatesAre
<1>2. OneKind(Candidates) \subseteq MayTrain
  BY DEF OneKind, Candidates, MayTrain
<1>3. \A d \in Devices(OneKind(Candidates)) : d[1] \in OneKind(Candidates)
  BY <1>2, DevicesAre
<1> QED
  BY <1>1, <1>3

LEMMA ToFrontIs ==
    ASSUME NEW S, NEW s \in Seq(S), NEW k \in 1..Len(s)
    PROVE  /\ ToFront(s, k) \in Seq(S) /\ Len(ToFront(s, k)) = Len(s)
           /\ \A i \in 1..Len(s) : From(k, i) \in 1..Len(s) /\ ToFront(s, k)[i] = s[From(k, i)]
           /\ \A i, j \in 1..Len(s) : From(k, i) = From(k, j) => i = j
<1> DEFINE n == Len(s)
           a == <<s[k]>>
           b == SubSeq(s, 1, k - 1)
           c == SubSeq(s, k + 1, n)
           t == ToFront(s, k)
<1>1. n \in Nat /\ k \in Nat /\ k >= 1 /\ k <= n /\ \A i \in 1..n : s[i] \in S
  OBVIOUS
<1>2. t = (a \o b) \o c
  BY DEF ToFront
<1>3. a \in Seq(S) /\ Len(a) = 1 /\ a[1] = s[k]
  BY <1>1
<1>4. b \in Seq(S) /\ Len(b) = k - 1 /\ \A i \in 1..(k - 1) : b[i] = s[i]
  <2>1. k - 1 \in 0..n
    BY <1>1
  <2>2. b \in Seq(S) /\ Len(b) = k - 1
    BY <1>1, <2>1
  <2>3. \A i \in 1..(k - 1) : b[i] = s[i]
    BY <1>1, <2>1
  <2> QED
    BY <2>2, <2>3
<1>5. c \in Seq(S) /\ Len(c) = n - k /\ \A i \in 1..(n - k) : c[i] = s[k + i]
  <2>1. c \in Seq(S)
    BY <1>1
  <2>2. Len(c) = n - k
    BY <1>1
  <2>3. \A i \in 1..(n - k) : c[i] = s[k + i]
    BY <1>1
  <2> QED
    BY <2>1, <2>2, <2>3
<1> DEFINE ab == a \o b
<1> HIDE DEF a, b, c, n
<1>6. /\ ab \in Seq(S) /\ Len(ab) = k /\ ab[1] = s[k]
      /\ \A i \in 2..k : ab[i] = s[i - 1]
  <2>0. /\ ab \in Seq(S) /\ Len(ab) = Len(a) + Len(b)
        /\ \A i \in 1..(Len(a) + Len(b)) : ab[i] = IF i <= Len(a) THEN a[i] ELSE b[i - Len(a)]
    BY <1>3, <1>4, ConcatProperties, Zenon
  <2>1. /\ ab \in Seq(S) /\ Len(ab) = 1 + (k - 1)
        /\ \A i \in 1..(1 + (k - 1)) : ab[i] = IF i <= 1 THEN a[i] ELSE b[i - 1]
    BY <1>3, <1>4, <2>0, Zenon
  <2> HIDE DEF ab
  <2>2. 1 + (k - 1) = k
    BY <1>1
  <2>3. ab[1] = s[k]
    <3>1. 1 \in 1..(1 + (k - 1)) /\ 1 <= 1
      BY <1>1
    <3>2. ab[1] = a[1]
      BY <2>1, <3>1
    <3> QED
      BY <1>3, <3>2
  <2>4. ASSUME NEW i \in 2..k PROVE ab[i] = s[i - 1]
    <3>1. i \in 1..(1 + (k - 1)) /\ ~(i <= 1) /\ i - 1 \in 1..(k - 1)
      BY <1>1
    <3> QED
      BY <1>4, <2>1, <3>1
  <2> QED
    BY <2>1, <2>2, <2>3, <2>4
<1> HIDE DEF ab
<1>7. /\ t \in Seq(S) /\ Len(t) = n
      /\ \A i \in 1..n : t[i] = IF i <= k THEN ab[i] ELSE c[i - k]
  <2>1. t = ab \o c
    BY <1>2 DEF ab
  <2>0. /\ t \in Seq(S) /\ Len(t) = Len(ab) + Len(c)
        /\ \A i \in 1..(Len(ab) + Len(c)) : t[i] = IF i <= Len(ab) THEN ab[i] ELSE c[i - Len(ab)]
    <3>1. /\ ab \o c \in Seq(S) /\ Len(ab \o c) = Len(ab) + Len(c)
          /\ \A i \in 1..(Len(ab) + Len(c)) : (ab \o c)[i] = IF i <= Len(ab) THEN ab[i] ELSE c[i - Len(ab)]
      BY <1>5, <1>6, ConcatProperties, Zenon
    <3> HIDE DEF t
    <3> QED
      BY <2>1, <3>1
  <2>2. /\ t \in Seq(S) /\ Len(t) = k + (n - k)
        /\ \A i \in 1..(k + (n - k)) : t[i] = IF i <= k THEN ab[i] ELSE c[i - k]
    BY <1>5, <1>6, <2>0, Zenon
  <2>3. k + (n - k) = n
    BY <1>1
  <2> QED
    BY <2>2, <2>3
<1> HIDE DEF t
<1>8. ASSUME NEW i \in 1..n
      PROVE  From(k, i) \in 1..n /\ t[i] = s[From(k, i)]
  <2>1. CASE i = 1
    BY <1>1, <1>6, <1>7, <2>1 DEF From
  <2>2. CASE i # 1 /\ i <= k
    <3>1. i \in 2..k /\ From(k, i) = i - 1 /\ i - 1 \in 1..n
      BY <1>1, <2>2 DEF From
    <3> QED
      BY <1>6, <1>7, <2>2, <3>1
  <2>3. CASE ~(i <= k)
    <3>1. i - k \in 1..(n - k) /\ k + (i - k) = i /\ From(k, i) = i
      BY <1>1, <2>3 DEF From
    <3> QED
      BY <1>5, <1>7, <2>3, <3>1
  <2> QED
    BY <2>1, <2>2, <2>3
<1>9. \A i, j \in 1..n : From(k, i) = From(k, j) => i = j
  BY <1>1 DEF From
<1> QED
  BY <1>7, <1>8, <1>9 DEF n, t

LeadFact(r) ==
    /\ ~Forwarded(r[1][1])
    /\ HasGPU(r[1][1]) \/ \A k \in DOMAIN r : HasGPU(r[k][1]) => Forwarded(r[k][1])

LEMMA MovedIs ==
    ASSUME NEW r, NEW w, RingFact(r, w), plan.ring = r, CanLead(FALSE) # {}
    PROVE  LET moved == ToFront(r, LeadIndex)
           IN  RingFact(moved, ToFront(w, LeadIndex)) /\ LeadFact(moved) /\ Len(moved) = Len(r)
<1> DEFINE rate == Rates
           D == Devices(DOMAIN rate)
           k == LeadIndex
           n == Len(r)
           t == ToFront(r, k)
           u == ToFront(w, k)
<1>1. /\ r \in Seq(D) /\ Distinct(r) /\ Len(w) = n /\ w \in Seq(Nat) /\ n <= RanksWanted
      /\ \A i, j \in 1..n : rate[r[i][1]] > rate[r[j][1]] => w[i] >= w[j]
      /\ asked.ranks = 0 /\ Enough(D) =>
             \A T \in (SUBSET D) \ {{}} : \A i \in 1..n :
               Cardinality(T) * Min(SetRates(rate, T)) <= n * rate[r[i][1]]
  BY DEF RingFact
<1>2. DOMAIN r = 1..n /\ n \in Nat
  <2> HIDE DEF D
  <2> QED
    BY <1>1
<1>3. /\ CanLead(TRUE) \subseteq 1..n /\ CanLead(FALSE) \subseteq 1..n
      /\ \A i \in 1..n : i \in CanLead(FALSE) <=> ~Forwarded(r[i][1])
      /\ \A i \in 1..n : i \in CanLead(TRUE) <=> ~Forwarded(r[i][1]) /\ HasGPU(r[i][1])
  BY <1>2 DEF CanLead
<1>4. k \in 1..n /\ ~Forwarded(r[k][1]) /\ (HasGPU(r[k][1]) \/ \A i \in 1..n : HasGPU(r[i][1]) => Forwarded(r[i][1]))
  <2>1. CASE CanLead(TRUE) # {}
    <3>1. CanLead(TRUE) \subseteq Nat
      <4>1. 1..n \subseteq Nat
        BY <1>2
      <4> QED
        BY <1>3, <4>1, Zenon
    <3>2. k \in CanLead(TRUE)
      BY <2>1, <3>1, MinIs DEF LeadIndex
    <3> QED
      BY <1>3, <3>2
  <2>2. CASE CanLead(TRUE) = {}
    <3>1. CanLead(FALSE) \subseteq Nat
      <4>1. 1..n \subseteq Nat
        BY <1>2
      <4> QED
        BY <1>3, <4>1, Zenon
    <3>2. k \in CanLead(FALSE)
      BY <2>2, <3>1, MinIs DEF LeadIndex
    <3> QED
      BY <1>3, <2>2, <3>2
  <2> QED
    BY <2>1, <2>2
<1> HIDE DEF k, D, rate
<1>5. /\ t \in Seq(D) /\ Len(t) = n
      /\ \A i \in 1..n : From(k, i) \in 1..n /\ t[i] = r[From(k, i)]
      /\ \A i, j \in 1..n : From(k, i) = From(k, j) => i = j
  <2>1. r \in Seq(D) /\ k \in 1..Len(r)
    BY <1>1, <1>4
  <2>2. t \in Seq(D) /\ Len(t) = n
    BY <2>1, ToFrontIs
  <2>3. \A i \in 1..n : From(k, i) \in 1..n
    BY <2>1, ToFrontIs
  <2>4. \A i \in 1..n : t[i] = r[From(k, i)]
    BY <2>1, ToFrontIs
  <2>5. \A i, j \in 1..n : From(k, i) = From(k, j) => i = j
    <3>1. n \in Nat /\ k \in Nat /\ k >= 1
      BY <1>2, <1>4
    <3> HIDE DEF n
    <3> QED
      BY <3>1 DEF From
  <2> QED
    BY <2>2, <2>3, <2>4, <2>5
<1>6. u \in Seq(Nat) /\ Len(u) = n /\ \A i \in 1..n : u[i] = w[From(k, i)]
  <2>1. w \in Seq(Nat) /\ k \in 1..Len(w) /\ Len(w) = n
    BY <1>1, <1>4
  <2>2. u \in Seq(Nat) /\ Len(u) = Len(w)
    BY <2>1, ToFrontIs
  <2>3. \A i \in 1..Len(w) : u[i] = w[From(k, i)]
    BY <2>1, ToFrontIs
  <2> QED
    BY <2>1, <2>2, <2>3
<1> HIDE DEF t, u, n
<1>7. Distinct(t)
  <2>1. \A i, j \in 1..n : r[i] = r[j] => i = j
    BY <1>1 DEF Distinct, n
  <2>2. ASSUME NEW i \in 1..n, NEW j \in 1..n, t[i] = t[j] PROVE i = j
    <3>1. From(k, i) \in 1..n /\ From(k, j) \in 1..n /\ t[i] = r[From(k, i)] /\ t[j] = r[From(k, j)]
      BY <1>5
    <3>2. From(k, i) = From(k, j)
      BY <2>1, <2>2, <3>1
    <3> QED
      BY <1>5, <3>2
  <2> QED
    BY <1>5, <2>2 DEF Distinct
<1>8. ASSUME NEW i \in 1..n, NEW j \in 1..n, rate[t[i][1]] > rate[t[j][1]] PROVE u[i] >= u[j]
  <2>1. From(k, i) \in 1..n /\ From(k, j) \in 1..n /\ t[i] = r[From(k, i)] /\ t[j] = r[From(k, j)]
    BY <1>5
  <2>2. u[i] = w[From(k, i)] /\ u[j] = w[From(k, j)]
    BY <1>6
  <2> QED
    BY <1>1, <1>8, <2>1, <2>2
<1>9. asked.ranks = 0 /\ Enough(D) =>
             \A T \in (SUBSET D) \ {{}} : \A i \in 1..n :
               Cardinality(T) * Min(SetRates(rate, T)) <= n * rate[t[i][1]]
  BY <1>1, <1>5
<1>10. RingFact(t, u)
  BY <1>1, <1>5, <1>6, <1>7, <1>8, <1>9 DEF RingFact, D, rate
<1>11. LeadFact(t)
  <2>1. t[1] = r[k]
    <3>1. 1 \in 1..n /\ From(k, 1) = k
      BY <1>2, <1>4 DEF From
    <3> QED
      BY <1>5, <3>1
  <2>2. DOMAIN t = 1..n
    BY <1>5
  <2>3. \A i \in 1..n : HasGPU(t[i][1]) => \E j \in 1..n : t[i][1] = r[j][1] /\ HasGPU(r[j][1])
    BY <1>5
  <2>4. HasGPU(t[1][1]) \/ \A i \in DOMAIN t : HasGPU(t[i][1]) => Forwarded(t[i][1])
    BY <1>4, <2>1, <2>2, <2>3
  <2> QED
    BY <1>4, <2>1, <2>4 DEF LeadFact
<1> QED
  BY <1>5, <1>10, <1>11 DEF t, u, n, k

\* What every rank is told fits together.
LEMMA RoutesAre ==
    ASSUME NEW S, NEW r \in Seq(S)
    PROVE  LET route == [k \in DOMAIN r |-> Route(r, k)]
           IN  /\ (\E k \in DOMAIN r : route[k] = "peers") => \A k \in DOMAIN r : route[k] = "peers"
               /\ \A k \in DOMAIN r : route[k] = "local" =>
                    \A j \in DOMAIN r : r[j][1] = r[k][1] => route[j] = "local"
<1> DEFINE route == [k \in DOMAIN r |-> Route(r, k)]
<1>1. \A k \in DOMAIN r : route[k] = IF k > 1 /\ IsLocal(r, k) THEN "local"
                          ELSE IF Butterfly(r) /\ \A j \in DOMAIN r : ~IsLocal(r, j) THEN "peers" ELSE "lead"
  <2> TAKE k \in DOMAIN r
  <2>1. CASE k > 1 /\ IsLocal(r, k)
    BY <2>1 DEF Route
  <2>2. CASE ~(k > 1 /\ IsLocal(r, k)) /\ Butterfly(r) /\ \A j \in DOMAIN r : ~IsLocal(r, j)
    BY <2>2 DEF Route
  <2>3. CASE ~(k > 1 /\ IsLocal(r, k)) /\ ~(Butterfly(r) /\ \A j \in DOMAIN r : ~IsLocal(r, j))
    BY <2>3 DEF Route
  <2> QED
    BY <2>1, <2>2, <2>3
<1>2. DOMAIN r = 1..Len(r) /\ Len(r) \in Nat
  OBVIOUS
<1> HIDE DEF route
<1>3. (\E k \in DOMAIN r : route[k] = "peers") => \A k \in DOMAIN r : route[k] = "peers"
  BY <1>1
<1>4. ASSUME NEW k \in DOMAIN r, route[k] = "local", NEW j \in DOMAIN r, r[j][1] = r[k][1]
      PROVE  route[j] = "local"
  <2>1. k > 1 /\ IsLocal(r, k)
    BY <1>1, <1>4
  <2>2. Together(r, k) # {}
    <3>1. Cardinality(Together(r, k)) >= 2
      BY <2>1 DEF IsLocal
    <3>2. ~(Cardinality({}) >= 2)
      BY FS_EmptySet
    <3> QED
      BY <3>1, <3>2
  <2>3. r[k][1] # r[1][1]
    BY <2>2 DEF Together
  <2>4. j > 1
    <3>1. j # 1
      BY <1>4, <2>3
    <3> QED
      BY <1>2, <3>1
  <2>5. Together(r, j) = Together(r, k)
    BY <1>4 DEF Together
  <2>6. IsLocal(r, j)
    BY <2>1, <2>5 DEF IsLocal
  <2> QED
    BY <1>1, <2>4, <2>6
<1> QED
  BY <1>3, <1>4 DEF route

\* Ranks of one node have a device each.
LEMMA PinsAre ==
    ASSUME PlanTypes, NEW r \in Seq(Devices(DOMAIN Rates)), Distinct(r)
    PROVE  \A k, j \in DOMAIN r : k # j /\ r[k][1] = r[j][1] => Pinned(r, k) \cap Pinned(r, j) = {}
<1> DEFINE D == Devices(DOMAIN Rates)
<1>1. DOMAIN Rates = OneKind(Candidates)
  BY RatesAre
<1>2. OneKind(Candidates) \subseteq MayTrain
  BY DEF OneKind, Candidates, MayTrain
<1>3. \A d \in D : d = <<d[1], d[2]>>
  BY <1>1, <1>2, DevicesAre
<1> HIDE DEF D
<1>4. DOMAIN r = 1..Len(r) /\ \A k \in DOMAIN r : r[k] \in D
  BY DEF D
<1> SUFFICES ASSUME NEW k \in DOMAIN r, NEW j \in DOMAIN r, k # j, r[k][1] = r[j][1]
             PROVE  Pinned(r, k) \cap Pinned(r, j) = {}
  OBVIOUS
<1>5. Pinned(r, k) = {r[k][2]} /\ Pinned(r, j) = {r[j][2]}
  BY DEF Pinned
<1>6. r[k] # r[j]
  BY <1>4 DEF Distinct
<1>7. r[k] = <<r[k][1], r[k][2]>> /\ r[j] = <<r[j][1], r[j][2]>>
  BY <1>3, <1>4
<1>8. r[k][2] # r[j][2]
  BY <1>6, <1>7
<1> QED
  BY <1>5, <1>8

\* What is asked of the same nodes is the same.
LEMMA SamePlan ==
    ASSUME node' = node, asked' = asked
    PROVE  Rates' = Rates /\ RanksWanted' = RanksWanted
<1>1. Candidates' = Candidates
  BY DEF Candidates, Forwarded, HasGPU
<1>2. OneKind(Candidates)' = OneKind(Candidates)
  BY <1>1 DEF OneKind, HasGPU
<1>3. Rates' = Rates
  BY <1>2 DEF Rates
<1>4. Eligible' = Eligible
  BY DEF Eligible, Forwarded, HasGPU, Slots
<1> QED
  BY <1>3, <1>4 DEF RanksWanted

\* RingCanTrain of given values.
TrainFact(r, w, route, rate, wanted, nd, named) ==
    LET slots(n)   == Max({nd[n].gpus, 1})
        pinned(k)  == IF \E j \in DOMAIN r : j # k /\ r[j][1] = r[k][1] THEN {r[k][2]}
                      ELSE 0..(slots(r[k][1]) - 1)
        devices    == UNION {{n} \X (0..(slots(n) - 1)) : n \in DOMAIN rate}
    IN  /\ Len(w) = Len(r) /\ Len(r) >= 2 /\ Len(r) <= wanted
        /\ ~(nd[r[1][1]].reach = "fwd")
        /\ nd[r[1][1]].gpus > 0 \/ \A k \in DOMAIN r : nd[r[k][1]].gpus > 0 => nd[r[k][1]].reach = "fwd"
        /\ \A k, j \in DOMAIN r : rate[r[k][1]] > rate[r[j][1]] => w[k] >= w[j]
        /\ (\E k \in DOMAIN r : route[k] = "peers") => \A k \in DOMAIN r : route[k] = "peers"
        /\ \A k \in DOMAIN r : route[k] = "local" =>
             \A j \in DOMAIN r : r[j][1] = r[k][1] => route[j] = "local"
        /\ \A k, j \in DOMAIN r : k # j /\ r[k][1] = r[j][1] => pinned(k) \cap pinned(j) = {}
        /\ named = 0 /\ Cardinality(devices) * Cardinality(devices) <= NominalStep =>
             \A T \in (SUBSET devices) \ {{}} :
               Cardinality(T) * Min({rate[d[1]] : d \in T})
                 <= Len(r) * Min({rate[r[k][1]] : k \in DOMAIN r})

LEMMA TrainIs ==
    /\ RingCanTrain <=>
         (stage = "launched" =>
            TrainFact(plan.ring, plan.weights, plan.route, Rates, RanksWanted, node, asked.ranks))
    /\ RingCanTrain' <=>
         (stage' = "launched" =>
            TrainFact(plan'.ring, plan'.weights, plan'.route, Rates', RanksWanted', node', asked'.ranks))
<1>1. RingCanTrain <=>
         (stage = "launched" =>
            TrainFact(plan.ring, plan.weights, plan.route, Rates, RanksWanted, node, asked.ranks))
  BY Zenon DEF RingCanTrain, TrainFact, Forwarded, HasGPU, Pinned, Slots, Devices
<1>2. RingCanTrain' <=>
         (stage' = "launched" =>
            TrainFact(plan'.ring, plan'.weights, plan'.route, Rates', RanksWanted', node', asked'.ranks))
  BY Zenon DEF RingCanTrain, TrainFact, Forwarded, HasGPU, Pinned, Slots, Devices
<1> QED
  BY <1>1, <1>2, Zenon

PlanInv ==
    /\ PlanTypes
    /\ stage = "chosen" => RingFact(plan.ring, plan.weights) /\ Len(plan.ring) >= 2
    /\ RingCanTrain

\* A ring that is launched is one that can train.
THEOREM LaunchedCanTrain == PlanSpec => []RingCanTrain
<1>1. PlanInit => PlanInv
  <2> SUFFICES ASSUME PlanInit PROVE PlanInv
    OBVIOUS
  <2>1. PlanTypes /\ stage = "ask"
    BY DEF PlanInit, PlanTypes
  <2>2. RingCanTrain
    BY <2>1 DEF RingCanTrain
  <2> QED
    BY <2>1, <2>2 DEF PlanInv
<1>2. PlanInv /\ [PlanNext]_planVars => PlanInv'
  <2> SUFFICES ASSUME PlanInv, [PlanNext]_planVars PROVE PlanInv'
    OBVIOUS
  <2>1. CASE Choose
    <3>1. node' = node /\ asked' = asked /\ PlanTypes /\ PlanTypes'
      BY <2>1 DEF Choose, PlanInv, PlanTypes
    <3>2. stage' # "launched"
      BY <2>1 DEF Choose
    <3>3. RingCanTrain'
      BY <3>2 DEF RingCanTrain
    <3>4. ASSUME stage' = "chosen"
          PROVE  RingFact(plan'.ring, plan'.weights) /\ Len(plan'.ring) >= 2
      <4> DEFINE chosen == IF RanksWanted < 2 \/ Candidates = {} THEN NoPlan ELSE Select(Rates)
      <4>1. ~(Len(chosen.ring) < 2) /\ plan' = chosen
        BY <2>1, <3>4 DEF Choose
      <4>2. Len(NoPlan.ring) = 0
        BY DEF NoPlan
      <4>3. Candidates # {} /\ chosen = Select(Rates)
        BY <4>1, <4>2
      <4> HIDE DEF chosen
      <4>4. RingFact(chosen.ring, chosen.weights)
        BY <3>1, <4>3, SelectIs
      <4>5. Len(chosen.ring) \in Nat
        BY <4>4 DEF RingFact
      <4> QED
        BY <4>1, <4>4, <4>5
    <3>5. stage' = "chosen" => (RingFact(plan.ring, plan.weights) /\ Len(plan.ring) >= 2)'
      BY <3>1, <3>4, SamePlan DEF RingFact, Devices, Slots
    <3> QED
      BY <3>1, <3>3, <3>5 DEF PlanInv
  <2>2. CASE Launch
    <3>1. /\ node' = node /\ asked' = asked /\ PlanTypes /\ PlanTypes' /\ stage' # "chosen"
          /\ RingFact(plan.ring, plan.weights) /\ Len(plan.ring) >= 2
      BY <2>2 DEF Launch, PlanInv, PlanTypes
    <3>2. RingCanTrain'
      <4> SUFFICES ASSUME stage' = "launched" PROVE RingCanTrain'
        BY DEF RingCanTrain
      <4> DEFINE r == ToFront(plan.ring, LeadIndex)
                 w == ToFront(plan.weights, LeadIndex)
                 route == [k \in DOMAIN r |-> Route(r, k)]
                 D == Devices(DOMAIN Rates)
      <4>1. CanLead(FALSE) # {} /\ plan' = [ring |-> r, weights |-> w, route |-> route]
        BY <2>2 DEF Launch, MoveShares
      <4>2. RingFact(r, w) /\ LeadFact(r) /\ Len(r) = Len(plan.ring)
        BY <3>1, <4>1, MovedIs
      <4> HIDE DEF r, w
      <4>3. /\ r \in Seq(D) /\ Distinct(r) /\ Len(w) = Len(r) /\ Len(r) <= RanksWanted
            /\ \A k, j \in 1..Len(r) : Rates[r[k][1]] > Rates[r[j][1]] => w[k] >= w[j]
            /\ asked.ranks = 0 /\ Enough(D) =>
                 \A T \in (SUBSET D) \ {{}} : \A k \in 1..Len(r) :
                   Cardinality(T) * Min(SetRates(Rates, T)) <= Len(r) * Rates[r[k][1]]
        BY <4>2 DEF RingFact
      <4>4. DOMAIN r = 1..Len(r) /\ Len(r) \in Nat
        BY <4>3
      <4>5. /\ (\E k \in DOMAIN r : route[k] = "peers") => \A k \in DOMAIN r : route[k] = "peers"
            /\ \A k \in DOMAIN r : route[k] = "local" =>
                    \A j \in DOMAIN r : r[j][1] = r[k][1] => route[j] = "local"
        BY <4>3, RoutesAre
      <4>6. \A k, j \in DOMAIN r : k # j /\ r[k][1] = r[j][1] => Pinned(r, k) \cap Pinned(r, j) = {}
        BY <3>1, <4>3, PinsAre
      <4> HIDE DEF route
      <4>7. asked.ranks = 0 /\ Enough(D) =>
                 \A T \in (SUBSET D) \ {{}} :
                   Cardinality(T) * Min({Rates[d[1]] : d \in T})
                     <= Len(r) * Min({Rates[r[k][1]] : k \in DOMAIN r})
        <5> SUFFICES ASSUME asked.ranks = 0 /\ Enough(D), NEW T \in (SUBSET D) \ {{}}
                     PROVE  Cardinality(T) * Min(SetRates(Rates, T))
                              <= Len(r) * Min({Rates[r[k][1]] : k \in DOMAIN r})
          BY DEF SetRates
        <5> DEFINE W == {Rates[r[k][1]] : k \in DOMAIN r}
        <5>1. W \subseteq Nat /\ W # {}
          <6>1. \A k \in DOMAIN r : r[k] \in D
            BY <4>3
          <6>2. \A k \in DOMAIN r : Rates[r[k][1]] \in Nat
            BY <3>1, <6>1, RingRates
          <6>3. 1 \in DOMAIN r
            BY <3>1, <4>2, <4>4
          <6> QED
            BY <6>2, <6>3
        <5> HIDE DEF W
        <5>2. Min(W) \in W
          BY <5>1, MinIs
        <5>3. PICK k \in DOMAIN r : Min(W) = Rates[r[k][1]]
          BY <5>2 DEF W
        <5>4. Cardinality(T) * Min(SetRates(Rates, T)) <= Len(r) * Rates[r[k][1]]
          BY <4>3, <4>4
        <5> QED
          BY <5>3, <5>4 DEF W
      <4>8. TrainFact(r, w, route, Rates, RanksWanted, node, asked.ranks)
        <5>1. /\ Len(w) = Len(r) /\ Len(r) >= 2 /\ Len(r) <= RanksWanted
              /\ \A k, j \in DOMAIN r : Rates[r[k][1]] > Rates[r[j][1]] => w[k] >= w[j]
          BY <3>1, <4>2, <4>3, <4>4
        <5>2. /\ ~Forwarded(r[1][1])
              /\ HasGPU(r[1][1]) \/ \A k \in DOMAIN r : HasGPU(r[k][1]) => Forwarded(r[k][1])
          BY <4>2 DEF LeadFact
        <5>3. asked.ranks = 0 /\ Cardinality(D) * Cardinality(D) <= NominalStep =>
                 \A T \in (SUBSET D) \ {{}} :
                   Cardinality(T) * Min({Rates[d[1]] : d \in T})
                     <= Len(r) * Min({Rates[r[k][1]] : k \in DOMAIN r})
          BY <4>7 DEF Enough
        <5> QED
          BY <4>5, <4>6, <5>1, <5>2, <5>3, Zenon
          DEF TrainFact, Forwarded, HasGPU, Pinned, Slots, Devices, D
      <4>9. /\ plan'.ring = r /\ plan'.weights = w /\ plan'.route = route
            /\ Rates' = Rates /\ RanksWanted' = RanksWanted /\ node' = node /\ asked'.ranks = asked.ranks
        BY <3>1, <4>1, SamePlan
      <4> QED
        BY <4>8, <4>9, TrainIs
    <3> QED
      BY <3>1, <3>2 DEF PlanInv
  <2>3. CASE PlanOver \/ UNCHANGED planVars
    <3>1. node' = node /\ asked' = asked /\ plan' = plan /\ stage' = stage
      BY <2>3 DEF PlanOver, planVars
    <3>2. PlanTypes'
      BY <3>1 DEF PlanInv, PlanTypes
    <3>3. Rates' = Rates /\ RanksWanted' = RanksWanted
      BY <3>1, SamePlan
    <3>4. (RingFact(plan.ring, plan.weights))' = RingFact(plan.ring, plan.weights)
      BY <3>1, <3>3 DEF RingFact, Devices, Slots
    <3>5. RingCanTrain' <=> RingCanTrain
      BY <3>1, <3>3, TrainIs
    <3> QED
      BY <3>1, <3>2, <3>4, <3>5 DEF PlanInv
  <2> QED
    BY <2>1, <2>2, <2>3 DEF PlanNext
<1>3. PlanInv => RingCanTrain
  BY DEF PlanInv
<1> QED
  BY <1>1, <1>2, <1>3, PTL DEF PlanSpec


\* Vectors, rounds that are open, and rounds that are answered.
Vec == [Elems -> Int]
Kinds == {"grads", "delta"}
CoverOf(kind, k) == IF mode.way = "peers" /\ kind = "grads" THEN Block(k) ELSE Elems
Answers(cover) == [cover -> Int]
RoundRec(cover) == [sum : Vec, weight : Nat, seen : SUBSET Adding, out : {<<>>} \cup Answers(cover)]

\* What a daemon carries in the books R.
CarriedIn(R, rk) == IF rk \in DOMAIN R THEN R[rk] ELSE Zero
CarryFact(R) == \A rk \in DOMAIN R : R[rk] \in Vec

LEMMA ElemsAre ==
    /\ Adding \subseteq Nat /\ 0 \in Adding /\ IsFiniteSet(Adding) /\ Cardinality(Adding) = Adders
    /\ Adders \in Nat \ {0} /\ Levels \in Nat \ {0}
    /\ \A k \in Adding : Block(k) \subseteq Elems /\ Block(k) # {} /\ <<k, 0>> \in Block(k) /\ <<k, 1>> \in Block(k)
    /\ \A i \in Elems : i[1] \in Adding /\ i[2] \in {0, 1}
    /\ Elems # {} /\ Zero \in Vec /\ \A i \in Elems : Zero[i] = 0
    /\ \A t, k : Covers(t, k) = CoverOf(Kind(t), k) /\ Kind(t) \in Kinds
    /\ \A kind, k : k \in Adding => CoverOf(kind, k) \subseteq Elems /\ CoverOf(kind, k) # {}
<1>0. Adders \in Nat \ {0} /\ Levels \in Nat \ {0}
  BY ReduceAssumption
<1>1. Adding \subseteq Nat /\ 0 \in Adding /\ IsFiniteSet(Adding) /\ Cardinality(Adding) = Adders
  <2>1. 0 \in Int /\ Adders - 1 \in Int
    BY <1>0
  <2>2. IsFiniteSet(0..(Adders - 1)) /\ Cardinality(0..(Adders - 1)) = Adders
    BY <1>0, <2>1, FS_Interval
  <2> QED
    BY <1>0, <2>2 DEF Adding
<1>2. \A k \in Adding : Block(k) \subseteq Elems /\ Block(k) # {} /\ <<k, 0>> \in Block(k) /\ <<k, 1>> \in Block(k)
  BY DEF Block, Elems
<1>3. /\ \A i \in Elems : i[1] \in Adding /\ i[2] \in {0, 1}
      /\ Elems # {} /\ Zero \in Vec /\ \A i \in Elems : Zero[i] = 0
  <2>1. <<0, 0>> \in Elems
    BY <1>1 DEF Elems
  <2> QED
    BY <2>1 DEF Elems, Zero, Vec
<1>4. \A t, k : Covers(t, k) = CoverOf(Kind(t), k) /\ Kind(t) \in Kinds
  BY DEF Covers, Sharded, CoverOf, Kind, Kinds
<1>5. \A kind, k : k \in Adding => CoverOf(kind, k) \subseteq Elems /\ CoverOf(kind, k) # {}
  BY <1>2, <1>3 DEF CoverOf
<1> QED
  BY <1>0, <1>1, <1>2, <1>3, <1>4, <1>5

\* meanResidual and _int8_encode: what is sent and what is carried is what there was.
LEMMA Int8Is ==
    ASSUME NEW v \in Vec
    PROVE  /\ Int8(v).out \in Vec /\ Int8(v).left \in Vec
           /\ \A i \in Elems : Int8(v).out[i] + Int8(v).left[i] = v[i]
<1> DEFINE peak(k) == Max({Abs(v[i]) : i \in Block(k)})
           coded(i) == IF peak(i[1]) = 0 THEN 0
                       ELSE (RoundDiv(v[i] * Levels, peak(i[1])) * peak(i[1])) \div Levels
           out == [i \in Elems |-> coded(i)]
<1>1. \A i \in Elems : v[i] \in Int /\ Abs(v[i]) \in Nat
  BY DEF Vec, Abs
<1>2. \A k \in Adding : peak(k) \in Nat
  <2> TAKE k \in Adding
  <2> DEFINE a == Abs(v[<<k, 0>>])
             b == Abs(v[<<k, 1>>])
  <2>1. {Abs(v[i]) : i \in Block(k)} = {a, b}
    BY DEF Block
  <2>2. a \in Nat /\ b \in Nat
    BY <1>1, ElemsAre
  <2> HIDE DEF a, b
  <2> QED
    BY <2>1, <2>2, OfTwo
<1>3. ASSUME NEW i \in Elems PROVE coded(i) \in Int
  <2> DEFINE p == peak(i[1])
             x == v[i] * Levels
  <2>0. i[1] \in Adding /\ v[i] \in Int /\ Levels \in Nat \ {0}
    BY <1>1, ElemsAre
  <2>a. p \in Nat
    <3> HIDE DEF peak
    <3> QED
      BY <2>0, <1>2
  <2>b. x \in Int
    <3> DEFINE y == v[i]
    <3>1. y \in Int
      BY <2>0
    <3> HIDE DEF y
    <3>2. y * Levels \in Int
      BY <3>1, <2>0
    <3> QED
      BY <3>2 DEF y
  <2>1. p \in Nat /\ x \in Int /\ Levels \in Nat \ {0}
    BY <2>0, <2>a, <2>b
  <2> HIDE DEF p, x
  <2>2. p # 0 => RoundDiv(x, p) \in Int
    <3> SUFFICES ASSUME p # 0 PROVE RoundDiv(x, p) \in Int
      OBVIOUS
    <3> DEFINE top == 2 * Abs(x) + p
               low == 2 * p
    <3>1. top \in Int /\ low \in Nat /\ low > 0
      BY <2>1 DEF Abs
    <3> HIDE DEF top, low
    <3>2. top \div low \in Int
      BY <3>1
    <3> QED
      BY <3>2 DEF RoundDiv, top, low
  <2>3. p # 0 => (RoundDiv(x, p) * p) \div Levels \in Int
    <3> DEFINE y == RoundDiv(x, p) * p
    <3>1. p # 0 => y \in Int
      BY <2>1, <2>2
    <3> HIDE DEF y
    <3> QED
      BY <2>1, <3>1 DEF y
  <2> QED
    BY <2>3 DEF p, x
<1>4. Int8(v) = [out |-> out, left |-> [i \in Elems |-> v[i] - out[i]]]
  BY DEF Int8
<1>5. out \in Vec /\ \A i \in Elems : out[i] \in Int
  BY <1>3 DEF Vec
<1> HIDE DEF out
<1> QED
  BY <1>1, <1>4, <1>5 DEF Vec

LEMMA MeanIs ==
    ASSUME NEW e, e.sum \in Vec, e.weight \in Nat
    PROVE  MeanOf(e) \in Vec /\ \A i \in Elems : MeanOf(e)[i] = IF e.weight = 0 THEN 0 ELSE e.sum[i] \div e.weight
<1>1. ASSUME NEW i \in Elems, e.weight # 0 PROVE e.sum[i] \div e.weight \in Int
  <2> DEFINE a == e.sum[i]
             w == e.weight
  <2>1. a \in Int /\ w \in Nat /\ w > 0
    BY <1>1 DEF Vec
  <2> HIDE DEF a, w
  <2>2. a \div w \in Int
    BY <2>1
  <2> QED
    BY <2>2 DEF a, w
<1> QED
  BY <1>1 DEF MeanOf, Vec

\* finishLocked: the answer of a round, and the rounding it leaves.
LEMMA FinishedIs ==
    ASSUME mode.wide \in BOOLEAN, NEW cover, cover \subseteq Elems, cover # {},
           NEW e \in RoundRec(cover), NEW res \in Vec,
           NEW f, f = Finished(e, res, cover)
    PROVE  /\ f.round \in RoundRec(cover) /\ f.round.out \in Answers(cover) /\ f.round.out # <<>>
           /\ f.round.sum = e.sum /\ f.round.weight = e.weight /\ f.round.seen = e.seen
           /\ f.left \in Vec
           /\ mode.wide => \A i \in cover : f.round.out[i] = MeanOf(e)[i]
           /\ ~mode.wide => \A i \in cover : f.round.out[i] + f.left[i] = MeanOf(e)[i] + res[i]
<1> DEFINE m == MeanOf(e)
           q == IF mode.wide THEN [out |-> m, left |-> res] ELSE Int8(Plus(m, res))
           out == [i \in cover |-> q.out[i]]
<1>0. e.sum \in Vec /\ e.weight \in Nat /\ e.seen \in SUBSET Adding
  BY DEF RoundRec
<1>1. m \in Vec
  BY <1>0, MeanIs
<1> HIDE DEF m
<1>2. Plus(m, res) \in Vec /\ \A i \in Elems : Plus(m, res)[i] = m[i] + res[i]
  BY <1>1 DEF Plus, Vec
<1>3. q.out \in Vec /\ q.left \in Vec /\ (mode.wide => q.out = m) /\ (~mode.wide => \A i \in Elems : q.out[i] + q.left[i] = m[i] + res[i])
  <2>1. CASE mode.wide
    BY <1>1, <2>1
  <2>2. CASE ~mode.wide
    BY <1>2, <2>2, Int8Is
  <2> QED
    BY <2>1, <2>2
<1>4. f.round = [e EXCEPT !.out = out] /\ f.left = [i \in Elems |-> IF i \in cover THEN q.left[i] ELSE res[i]]
  BY DEF Finished, m
<1> HIDE DEF q
<1>5. out \in Answers(cover) /\ out # <<>> /\ \A i \in cover : out[i] = q.out[i]
  <2>1. out \in Answers(cover)
    BY <1>3 DEF Answers, Vec
  <2>2. DOMAIN out = cover /\ DOMAIN <<>> = {}
    OBVIOUS
  <2>3. out # <<>>
    BY <2>2
  <2> QED
    BY <2>1, <2>3
<1> HIDE DEF out
<1>6. /\ f.round \in RoundRec(cover) /\ f.round.out = out
      /\ f.round.sum = e.sum /\ f.round.weight = e.weight /\ f.round.seen = e.seen
  BY <1>4, <1>5 DEF RoundRec
<1>7. f.left \in Vec /\ \A i \in cover : f.left[i] = q.left[i]
  BY <1>3, <1>4 DEF Vec
<1> QED
  BY <1>3, <1>5, <1>6, <1>7 DEF m

\* One more value in a sum, the others the same.
LEMMA SumGrows ==
  ASSUME NEW D, IsFiniteSet(D), NEW x, x \notin D, NEW f, NEW g, g[x] \in Int, \A y \in D : f[y] \in Int /\ g[y] = f[y]
  PROVE  SumFunctionOnSet(g, D \cup {x}) = g[x] + SumFunctionOnSet(f, D) /\ SumFunctionOnSet(f, D) \in Int
  <1> DEFINE E == D \cup {x}
  <1>1. IsFiniteSet(E) /\ D \in SUBSET E /\ x \in E \ D /\ D \cup {x} = E
    BY FS_AddElement
  <1>2. \A y \in E : g[y] \in Int
    OBVIOUS
  <1> HIDE DEF E
  <1>3. SumFunctionOnSet(g, D \cup {x}) = g[x] + SumFunctionOnSet(g, D)
    BY <1>1, <1>2, IntSumMore
  <1>4. SumFunctionOnSet(g, D) = SumFunctionOnSet(f, D)
    BY IntSumSame
  <1>5. SumFunctionOnSet(f, D) \in Int
    BY IntSumOne
  <1> QED
    BY <1>3, <1>4, <1>5

\* What was sent before and is sent now, and what is carried on: the books balance.
LEMMA Balance ==
    ASSUME NEW x \in Int, NEW y \in Int, NEW c \in Int, NEW c2 \in Int, NEW sx \in Int, NEW sy \in Int,
           x + c2 = y + c, sx + c = sy
    PROVE  (x + sx) + c2 = y + sy
OBVIOUS

\* Rounds by key, and the answered ones of a daemon, kind and shard.
SumsFact(S) ==
    /\ DOMAIN S \subseteq Keys
    /\ \A rnd \in DOMAIN S : S[rnd] \in RoundRec(Covers(rnd[2], rnd[3]))

IsAnswered(S, rnd) == rnd \in DOMAIN S /\ S[rnd].out # <<>>
Group(S, d, kind, k) == {s \in DOMAIN S : S[s].out # <<>> /\ s[1] = d /\ Kind(s[2]) = kind /\ s[3] = k}

OutOf(S, D, i)  == SumFunctionOnSet([s \in D |-> S[s].out[i]], D)
MeansOf(S, D, i) == SumFunctionOnSet([s \in D |-> MeanOf(S[s])[i]], D)

Books(S, R) ==
    \A d, k \in Adding : \A kind \in Kinds : \A i \in CoverOf(kind, k) :
       OutOf(S, Group(S, d, kind, k), i) + CarriedIn(R, <<d, kind, k>>)[i] = MeansOf(S, Group(S, d, kind, k), i)

\* What may happen to the books: the rounds F get their answers, and what they
\* round off is carried.
Closing(S, R, S2, R2, F) ==
    /\ \A rnd : IsAnswered(S, rnd) => IsAnswered(S2, rnd) /\ S2[rnd] = S[rnd]
    /\ \A rnd : IsAnswered(S2, rnd) => IsAnswered(S, rnd) \/ rnd \in F
    /\ \A rnd \in F : /\ IsAnswered(S2, rnd) /\ ~IsAnswered(S, rnd)
                      /\ \A i \in Covers(rnd[2], rnd[3]) :
                           S2[rnd].out[i] + CarriedIn(R2, ResidualOf(rnd[1], rnd[2], rnd[3]))[i]
                             = MeanOf(S2[rnd])[i] + CarriedIn(R, ResidualOf(rnd[1], rnd[2], rnd[3]))[i]
    /\ \A x, y \in F : x[3] = y[3] => x = y
    /\ \A d, k \in Adding : \A kind \in Kinds :
          (\A rnd \in F : ResidualOf(rnd[1], rnd[2], rnd[3]) # <<d, kind, k>>)
            => CarriedIn(R2, <<d, kind, k>>) = CarriedIn(R, <<d, kind, k>>)

LEMMA KeysAre ==
    /\ IsFiniteSet(Keys)
    /\ \A rnd \in Keys : rnd[1] \in Adding /\ rnd[2] \in 1..AddSteps /\ rnd[3] \in Adding /\ rnd = <<rnd[1], rnd[2], rnd[3]>>
<1>1. IsFiniteSet(Adding) /\ IsFiniteSet(1..AddSteps)
  BY ElemsAre, ReduceAssumption, FS_Interval
<1>2. IsFiniteSet((Adding \X (1..AddSteps)) \X Adding)
  BY <1>1, FS_Product
<1> DEFINE f == [x \in (Adding \X (1..AddSteps)) \X Adding |-> <<x[1][1], x[1][2], x[2]>>]
           I == {f[x] : x \in (Adding \X (1..AddSteps)) \X Adding}
<1>3. IsFiniteSet(I)
  <2> DEFINE D == (Adding \X (1..AddSteps)) \X Adding
  <2>1. I = {f[x] : x \in D} /\ DOMAIN f = D /\ f = [x \in D |-> f[x]]
    OBVIOUS
  <2>2. IsFiniteSet(D)
    BY <1>2
  <2> HIDE DEF D, f, I
  <2>3. f \in Surjection(D, I)
    BY <2>1 DEF Surjection
  <2> QED
    BY <2>2, <2>3, FS_Surjection
<1>4. Keys \subseteq I
  <2> SUFFICES ASSUME NEW rnd \in Keys PROVE rnd \in I
    OBVIOUS
  <2>1. PICK d \in Adding, t \in 1..AddSteps, k \in Adding : rnd = <<d, t, k>>
    BY DEF Keys
  <2>2. <<<<d, t>>, k>> \in (Adding \X (1..AddSteps)) \X Adding /\ f[<<<<d, t>>, k>>] = rnd
    BY <2>1
  <2> QED
    BY <2>2
<1>5. IsFiniteSet(Keys)
  BY <1>3, <1>4, FS_Subset
<1> QED
  BY <1>5 DEF Keys

\* The values a group sums are whole numbers.
LEMMA GroupIs ==
    ASSUME NEW S, SumsFact(S), NEW d \in Adding, NEW k \in Adding, NEW kind \in Kinds, NEW i \in CoverOf(kind, k)
    PROVE  /\ IsFiniteSet(Group(S, d, kind, k))
           /\ \A s \in Group(S, d, kind, k) : S[s].out[i] \in Int /\ MeanOf(S[s])[i] \in Int
<1>1. Group(S, d, kind, k) \subseteq Keys
  BY DEF Group, SumsFact
<1>2. ASSUME NEW s \in Group(S, d, kind, k) PROVE S[s].out[i] \in Int /\ MeanOf(S[s])[i] \in Int
  <2>1. s \in DOMAIN S /\ S[s].out # <<>> /\ Kind(s[2]) = kind /\ s[3] = k
    BY DEF Group
  <2>2. Covers(s[2], s[3]) = CoverOf(kind, k) /\ CoverOf(kind, k) \subseteq Elems
    BY <2>1, ElemsAre
  <2>3. S[s] \in RoundRec(CoverOf(kind, k))
    BY <2>1, <2>2 DEF SumsFact
  <2>4. S[s].out \in Answers(CoverOf(kind, k)) /\ S[s].sum \in Vec /\ S[s].weight \in Nat
    BY <2>1, <2>3 DEF RoundRec
  <2>5. MeanOf(S[s]) \in Vec
    BY <2>4, MeanIs
  <2> QED
    BY <2>2, <2>4, <2>5 DEF Answers, Vec
<1> QED
  BY <1>1, <1>2, KeysAre, FS_Subset

LEMMA BooksStay ==
    ASSUME NEW S, NEW R, NEW S2, NEW R2, NEW F,
           SumsFact(S), SumsFact(S2), CarryFact(R), CarryFact(R2), F \subseteq Keys,
           Books(S, R), Closing(S, R, S2, R2, F)
    PROVE  Books(S2, R2)
<1> SUFFICES ASSUME NEW d \in Adding, NEW k \in Adding, NEW kind \in Kinds, NEW i \in CoverOf(kind, k)
             PROVE  OutOf(S2, Group(S2, d, kind, k), i) + CarriedIn(R2, <<d, kind, k>>)[i] = MeansOf(S2, Group(S2, d, kind, k), i)
  BY DEF Books
<1> DEFINE G  == Group(S, d, kind, k)
           G2 == Group(S2, d, kind, k)
           rk == <<d, kind, k>>
           In == {rnd \in F : rnd[1] = d /\ Kind(rnd[2]) = kind /\ rnd[3] = k}
           of == [s \in G |-> S[s].out[i]]
           mf == [s \in G |-> MeanOf(S[s])[i]]
           og == [s \in G2 |-> S2[s].out[i]]
           mg == [s \in G2 |-> MeanOf(S2[s])[i]]
<1>1. OutOf(S, G, i) + CarriedIn(R, rk)[i] = MeansOf(S, G, i)
  BY DEF Books
<1>2. /\ IsFiniteSet(G) /\ \A s \in G : S[s].out[i] \in Int /\ MeanOf(S[s])[i] \in Int
      /\ IsFiniteSet(G2) /\ \A s \in G2 : S2[s].out[i] \in Int /\ MeanOf(S2[s])[i] \in Int
  BY GroupIs
<1>3. G2 = G \cup In /\ G \cap In = {} /\ \A s \in G : S2[s] = S[s]
  BY DEF Closing, IsAnswered, Group
<1>4. \A x, y \in In : x = y
  BY DEF Closing
<1>5. \A rnd \in F : ResidualOf(rnd[1], rnd[2], rnd[3]) = rk <=> rnd \in In
  BY DEF ResidualOf
<1>6. i \in Elems
  BY ElemsAre
<1>7. CarriedIn(R, rk)[i] \in Int /\ CarriedIn(R2, rk)[i] \in Int
  <2>1. CarriedIn(R, rk) \in Vec /\ CarriedIn(R2, rk) \in Vec
    BY ElemsAre DEF CarryFact, CarriedIn
  <2> QED
    BY <1>6, <2>1 DEF Vec
<1>8. \A s \in G : of[s] \in Int /\ mf[s] \in Int /\ og[s] = of[s] /\ mg[s] = mf[s]
  BY <1>2, <1>3
<1>9. CASE In = {}
  <2>1. CarriedIn(R2, rk) = CarriedIn(R, rk)
    BY <1>5, <1>9 DEF Closing
  <2>2. G2 = G
    BY <1>3, <1>9
  <2>3. SumFunctionOnSet(og, G) = SumFunctionOnSet(of, G) /\ SumFunctionOnSet(mg, G) = SumFunctionOnSet(mf, G)
    <3> HIDE DEF G, G2, of, mf, og, mg
    <3> QED
      BY <1>2, <1>8, IntSumSame
  <2> QED
    BY <1>1, <2>1, <2>2, <2>3 DEF OutOf, MeansOf
<1>10. CASE In # {}
  <2>1. PICK x \in In : In = {x}
    BY <1>4, <1>10
  <2>2. x \in F /\ x \notin G /\ G2 = G \cup {x} /\ Covers(x[2], x[3]) = CoverOf(kind, k) /\ ResidualOf(x[1], x[2], x[3]) = rk
    BY <1>3, <1>5, <2>1, ElemsAre
  <2>3. og[x] = S2[x].out[i] /\ mg[x] = MeanOf(S2[x])[i] /\ og[x] \in Int /\ mg[x] \in Int
    BY <1>2, <2>2
  <2>4. og[x] + CarriedIn(R2, rk)[i] = mg[x] + CarriedIn(R, rk)[i]
    BY <2>2, <2>3 DEF Closing
  <2> DEFINE so == SumFunctionOnSet(of, G)
             sm == SumFunctionOnSet(mf, G)
  <2>5. /\ SumFunctionOnSet(og, G \cup {x}) = og[x] + so /\ so \in Int
        /\ SumFunctionOnSet(mg, G \cup {x}) = mg[x] + sm /\ sm \in Int
    <3>1. /\ \A s \in G : of[s] \in Int /\ og[s] = of[s]
          /\ \A s \in G : mf[s] \in Int /\ mg[s] = mf[s]
          /\ IsFiniteSet(G) /\ x \notin G /\ og[x] \in Int /\ mg[x] \in Int
      BY <1>2, <1>8, <2>2, <2>3
    <3> HIDE DEF G, of, mf, og, mg
    <3>2. SumFunctionOnSet(og, G \cup {x}) = og[x] + SumFunctionOnSet(of, G) /\ SumFunctionOnSet(of, G) \in Int
      BY <3>1, SumGrows
    <3>3. SumFunctionOnSet(mg, G \cup {x}) = mg[x] + SumFunctionOnSet(mf, G) /\ SumFunctionOnSet(mf, G) \in Int
      BY <3>1, SumGrows
    <3> QED
      BY <3>2, <3>3
  <2>6. so + CarriedIn(R, rk)[i] = sm
    BY <1>1 DEF OutOf, MeansOf
  <2>7. OutOf(S2, G2, i) = SumFunctionOnSet(og, G \cup {x}) /\ MeansOf(S2, G2, i) = SumFunctionOnSet(mg, G \cup {x})
    BY <2>2 DEF OutOf, MeansOf
  <2> DEFINE o == og[x]
             m == mg[x]
             c == CarriedIn(R, rk)[i]
             c2 == CarriedIn(R2, rk)[i]
  <2>8. o \in Int /\ m \in Int /\ c \in Int /\ c2 \in Int /\ so \in Int /\ sm \in Int /\ o + c2 = m + c /\ so + c = sm
    BY <1>7, <2>3, <2>4, <2>5, <2>6
  <2>9. OutOf(S2, G2, i) = o + so /\ MeansOf(S2, G2, i) = m + sm
    BY <2>5, <2>7
  <2> HIDE DEF o, m, c, c2, so, sm, G2, og, mg
  <2>10. (o + so) + c2 = m + sm
    BY <2>8, Balance
  <2> QED
    BY <2>9, <2>10 DEF G2, c2
<1> QED
  BY <1>9, <1>10

Sane == mode.wide \in BOOLEAN /\ SumsFact(sums) /\ CarryFact(residual)

\* One round at most of each shard.
OnePerShard(F) == F \subseteq Keys /\ \A x, y \in F : x[3] = y[3] => x = y

RoundingOf(rnd) == ResidualOf(rnd[1], rnd[2], rnd[3])

LEMMA ClosedIs ==
    ASSUME Sane, NEW ending, OnePerShard(DOMAIN ending), NEW F, F = DOMAIN ending,
           \A rnd \in F : ending[rnd] \in RoundRec(Covers(rnd[2], rnd[3])) /\ ~Answered(rnd),
           NEW C, C = Closed(ending)
    PROVE  /\ SumsFact(C.sums) /\ CarryFact(C.residual)
           /\ DOMAIN C.sums = DOMAIN sums \cup F
           /\ \A rnd \in DOMAIN sums \ F : C.sums[rnd] = sums[rnd]
           /\ \A rnd \in F : /\ C.sums[rnd].out # <<>> /\ C.sums[rnd].sum = ending[rnd].sum
                             /\ C.sums[rnd].weight = ending[rnd].weight /\ C.sums[rnd].seen = ending[rnd].seen
                             /\ mode.wide => \A i \in Covers(rnd[2], rnd[3]) : C.sums[rnd].out[i] = MeanOf(ending[rnd])[i]
           /\ mode.wide => C.residual = residual
           /\ \A rk : rk[2] \notin Kinds => CarriedIn(C.residual, rk) = Carried(rk)
           /\ ~mode.wide => Closing(sums, residual, C.sums, C.residual, F)
<1> DEFINE f(rnd)  == Finished(ending[rnd], Carried(RoundingOf(rnd)), Covers(rnd[2], rnd[3]))
           left    == {RoundingOf(rnd) : rnd \in F}
           of(rk)  == CHOOSE rnd \in F : RoundingOf(rnd) = rk
           done == [rnd \in F |-> f(rnd).round]
           kept == [rk \in left |-> f(of(rk)).left]
<1>1. C.sums = Overlay(done, sums) /\ C.residual = IF mode.wide THEN residual ELSE Overlay(kept, residual)
  BY DEF Closed, RoundingOf
<1>2. /\ F \subseteq Keys /\ \A x, y \in F : RoundingOf(x) = RoundingOf(y) => x = y
      /\ \A rnd \in F : rnd[1] \in Adding /\ rnd[3] \in Adding /\ RoundingOf(rnd)[2] = Kind(rnd[2]) /\ RoundingOf(rnd)[2] \in Kinds
  BY KeysAre, ElemsAre DEF OnePerShard, RoundingOf, ResidualOf
<1>3. \A rnd \in F : RoundingOf(rnd) \in left /\ of(RoundingOf(rnd)) = rnd
  BY <1>2
<1>4. \A rk : Carried(rk) = CarriedIn(residual, rk) /\ Carried(rk) \in Vec
  BY ElemsAre DEF Carried, CarriedIn, Sane, CarryFact
<1>5. ASSUME NEW rnd \in F
      PROVE  /\ f(rnd).round \in RoundRec(Covers(rnd[2], rnd[3])) /\ f(rnd).round.out # <<>>
             /\ f(rnd).round.sum = ending[rnd].sum /\ f(rnd).round.weight = ending[rnd].weight
             /\ f(rnd).round.seen = ending[rnd].seen
             /\ f(rnd).left \in Vec
             /\ mode.wide => \A i \in Covers(rnd[2], rnd[3]) : f(rnd).round.out[i] = MeanOf(ending[rnd])[i]
             /\ ~mode.wide => \A i \in Covers(rnd[2], rnd[3]) :
                  f(rnd).round.out[i] + f(rnd).left[i] = MeanOf(ending[rnd])[i] + Carried(RoundingOf(rnd))[i]
  <2> DEFINE cover == Covers(rnd[2], rnd[3])
             e == ending[rnd]
             res == Carried(RoundingOf(rnd))
             g == f(rnd)
  <2>1. cover \subseteq Elems /\ cover # {}
    BY <1>2, ElemsAre
  <2>2. e \in RoundRec(cover) /\ res \in Vec /\ g = Finished(e, res, cover) /\ mode.wide \in BOOLEAN
    BY <1>4 DEF Sane
  <2> HIDE DEF cover, e, res, g
  <2>3. /\ g.round \in RoundRec(cover) /\ g.round.out # <<>>
        /\ g.round.sum = e.sum /\ g.round.weight = e.weight /\ g.round.seen = e.seen
        /\ g.left \in Vec
        /\ mode.wide => \A i \in cover : g.round.out[i] = MeanOf(e)[i]
        /\ ~mode.wide => \A i \in cover : g.round.out[i] + g.left[i] = MeanOf(e)[i] + res[i]
    BY <2>1, <2>2, FinishedIs
  <2> QED
    BY <2>3 DEF cover, e, res, g
<1> HIDE DEF f
<1>6. /\ DOMAIN C.sums = F \cup DOMAIN sums
      /\ \A rnd \in F : C.sums[rnd] = f(rnd).round
      /\ \A rnd \in DOMAIN sums \ F : C.sums[rnd] = sums[rnd]
  BY <1>1 DEF Overlay
<1>7. SumsFact(C.sums)
  BY <1>2, <1>5, <1>6 DEF SumsFact, Sane
<1>8. /\ ~mode.wide => /\ DOMAIN C.residual = left \cup DOMAIN residual
                       /\ \A rk \in left : C.residual[rk] = f(of(rk)).left
                       /\ \A rk \in DOMAIN residual \ left : C.residual[rk] = residual[rk]
      /\ mode.wide => C.residual = residual
  BY <1>1 DEF Overlay
<1>9. \A rk \in left : of(rk) \in F /\ RoundingOf(of(rk)) = rk /\ rk[2] \in Kinds
  BY <1>2
<1> HIDE DEF left, of
<1>10. CarryFact(C.residual)
  BY <1>5, <1>8, <1>9 DEF CarryFact, Sane
<1>11. \A rk : rk \notin left => CarriedIn(C.residual, rk) = Carried(rk)
  BY <1>8 DEF CarriedIn, Carried
<1>12. ~mode.wide => \A rnd \in F : CarriedIn(C.residual, RoundingOf(rnd)) = f(rnd).left
  BY <1>3, <1>8 DEF CarriedIn
<1>13. \A rk : rk[2] \notin Kinds => CarriedIn(C.residual, rk) = Carried(rk)
  BY <1>9, <1>11
<1>14. \A rnd \in F : MeanOf(C.sums[rnd]) = MeanOf(ending[rnd])
  BY <1>5, <1>6 DEF MeanOf
<1>15. ASSUME ~mode.wide PROVE Closing(sums, residual, C.sums, C.residual, F)
  <2>1. \A rnd : IsAnswered(sums, rnd) => rnd \notin F
    BY DEF IsAnswered, Answered, Round
  <2>2. \A rnd : IsAnswered(sums, rnd) => IsAnswered(C.sums, rnd) /\ C.sums[rnd] = sums[rnd]
    BY <1>6, <2>1 DEF IsAnswered
  <2>3. \A rnd : IsAnswered(C.sums, rnd) => IsAnswered(sums, rnd) \/ rnd \in F
    BY <1>6 DEF IsAnswered
  <2>4. ASSUME NEW rnd \in F, NEW i \in Covers(rnd[2], rnd[3])
        PROVE  C.sums[rnd].out[i] + CarriedIn(C.residual, RoundingOf(rnd))[i]
                 = MeanOf(C.sums[rnd])[i] + CarriedIn(residual, RoundingOf(rnd))[i]
    BY <1>15, <1>4, <1>5, <1>6, <1>12, <1>14
  <2>5. \A rnd \in F : IsAnswered(C.sums, rnd) /\ ~IsAnswered(sums, rnd)
    BY <1>5, <1>6, <2>1 DEF IsAnswered
  <2>6. \A x, y \in F : x[3] = y[3] => x = y
    BY DEF OnePerShard
  <2>7. \A d, k \in Adding : \A kind \in Kinds :
          (\A rnd \in F : RoundingOf(rnd) # <<d, kind, k>>) => CarriedIn(C.residual, <<d, kind, k>>) = CarriedIn(residual, <<d, kind, k>>)
    <3>1. \A rk : (\A rnd \in F : RoundingOf(rnd) # rk) => rk \notin left
      BY <1>9
    <3> QED
      BY <3>1, <1>4, <1>11
  <2> QED
    BY <2>2, <2>3, <2>4, <2>5, <2>6, <2>7 DEF Closing, RoundingOf
<1> QED
  BY <1>5, <1>6, <1>7, <1>8, <1>10, <1>13, <1>15

\* addSegmented, sampleWeight: a round with one more contribution.
JoinedBy(e, cover, load, w, who) == [AddTo(e, cover, load, SampleWeight(w)) EXCEPT !.seen = @ \cup who]

LEMMA AddedIs ==
    ASSUME NEW cover, cover \subseteq Elems, NEW e \in RoundRec(cover), NEW load \in Vec, NEW w \in Int, NEW who \in SUBSET Adding,
           NEW n, n = JoinedBy(e, cover, load, w, who)
    PROVE  /\ n \in RoundRec(cover) /\ SampleWeight(w) \in Nat
           /\ n.out = e.out /\ n.seen = e.seen \cup who /\ n.weight = e.weight + SampleWeight(w)
           /\ \A i \in cover : n.sum[i] = e.sum[i] + load[i] * SampleWeight(w)
<1>1. SampleWeight(w) \in Nat
  BY DEF SampleWeight
<1> DEFINE v == SampleWeight(w)
           s == [i \in Elems |-> IF i \in cover THEN e.sum[i] + load[i] * v ELSE e.sum[i]]
<1>2. e.sum \in Vec /\ e.weight \in Nat /\ e.seen \in SUBSET Adding
  BY DEF RoundRec
<1>3. ASSUME NEW i \in Elems PROVE load[i] * v \in Int /\ e.sum[i] \in Int /\ e.sum[i] + load[i] * v \in Int
  <2> DEFINE a == load[i]
             b == e.sum[i]
  <2>1. a \in Int /\ b \in Int /\ v \in Int
    BY <1>1, <1>2 DEF Vec
  <2> HIDE DEF a, b, v
  <2>2. a * v \in Int /\ b + a * v \in Int
    BY <2>1
  <2> QED
    BY <2>1, <2>2 DEF a, b
<1>4. n = [e EXCEPT !.sum = s, !.weight = e.weight + v, !.seen = e.seen \cup who]
  BY DEF JoinedBy, AddTo, RoundRec
<1> HIDE DEF v
<1>5. s \in Vec
  BY <1>3 DEF Vec
<1>6. \A i \in cover : s[i] = e.sum[i] + load[i] * v
  OBVIOUS
<1> HIDE DEF s
<1>7. v \in Nat
  BY <1>1 DEF v
<1>a. n = [sum |-> s, weight |-> e.weight + v, seen |-> e.seen \cup who, out |-> e.out]
  BY <1>4 DEF RoundRec
<1>b. e.out \in {<<>>} \cup Answers(cover) /\ e.weight + v \in Nat /\ e.seen \cup who \in SUBSET Adding
  BY <1>2, <1>7 DEF RoundRec
<1>8. n \in RoundRec(cover) /\ n.out = e.out /\ n.seen = e.seen \cup who /\ n.weight = e.weight + v /\ n.sum = s
  <2>1. n.out = e.out /\ n.seen = e.seen \cup who /\ n.weight = e.weight + v /\ n.sum = s
    BY <1>a
  <2>2. n \in RoundRec(cover)
    <3> DEFINE a == e.weight + v
               b == e.seen \cup who
               c == e.out
    <3>1. n = [sum |-> s, weight |-> a, seen |-> b, out |-> c] /\ a \in Nat /\ b \in SUBSET Adding /\ c \in {<<>>} \cup Answers(cover)
      BY <1>a, <1>b
    <3> HIDE DEF a, b, c
    <3>2. [sum |-> s, weight |-> a, seen |-> b, out |-> c] \in RoundRec(cover)
      BY <3>1, <1>5 DEF RoundRec
    <3> QED
      BY <3>1, <3>2
  <2> QED
    BY <2>1, <2>2
<1> QED
  BY <1>6, <1>7, <1>8 DEF v

\* Of the rounds at keys those that wait for answers, and those that who completes.
Open(keys) == {rnd \in keys : ~Answered(rnd)}
Full(keys, who) == {rnd \in Open(keys) : Round(rnd).seen \cup who = Adding}

\* handleDDPSync: what a contribution does to the rounds and to the carried rounding.
Contributes(C, keys, who, load, w) ==
    /\ SumsFact(C.sums) /\ CarryFact(C.residual) /\ SampleWeight(w) \in Nat
    /\ DOMAIN C.sums = DOMAIN sums \cup Open(keys)
    /\ \A rnd \in DOMAIN sums \ Open(keys) : C.sums[rnd] = sums[rnd]
    /\ \A rnd \in Open(keys) :
         /\ C.sums[rnd].seen = Round(rnd).seen \cup who
         /\ C.sums[rnd].weight = Round(rnd).weight + SampleWeight(w)
         /\ \A i \in Covers(rnd[2], rnd[3]) : C.sums[rnd].sum[i] = Round(rnd).sum[i] + load[i] * SampleWeight(w)
         /\ C.sums[rnd].out # <<>> <=> rnd \in Full(keys, who)
         /\ mode.wide /\ rnd \in Full(keys, who) =>
              \A i \in Covers(rnd[2], rnd[3]) : C.sums[rnd].out[i] = MeanOf(C.sums[rnd])[i]
    /\ mode.wide => C.residual = residual
    /\ \A rk : rk[2] \notin Kinds => CarriedIn(C.residual, rk) = Carried(rk)
    /\ ~mode.wide => Closing(sums, residual, C.sums, C.residual, Full(keys, who))

LEMMA ContributedIs ==
    ASSUME Sane, NEW keys, OnePerShard(keys), NEW who \in SUBSET Adding, NEW load \in Vec, NEW w \in Int,
           NEW C, C = Contributed(keys, who, load, w)
    PROVE  Contributes(C, keys, who, load, w)
<1> DEFINE open == Open(keys)
           full == Full(keys, who)
           v == SampleWeight(w)
           new == [rnd \in open |-> [AddTo(Round(rnd), Covers(rnd[2], rnd[3]), load, v) EXCEPT !.seen = @ \cup who]]
           ending == [rnd \in full |-> new[rnd]]
           D == Closed(ending)
           more == [rnd \in open \ full |-> new[rnd]]
<1>0. open = {rnd \in keys : ~Answered(rnd)} /\ full = {rnd \in open : Round(rnd).seen \cup who = Adding}
  BY DEF Open, Full
<1> HIDE DEF open, full
<1>1. open \subseteq keys /\ full \subseteq open /\ open \subseteq Keys
  BY <1>0 DEF OnePerShard
<1>2. ASSUME NEW rnd \in open
      PROVE  /\ Round(rnd) \in RoundRec(Covers(rnd[2], rnd[3])) /\ Round(rnd).out = <<>> /\ ~Answered(rnd)
             /\ Covers(rnd[2], rnd[3]) \subseteq Elems
  <2>1. rnd \in Keys /\ ~Answered(rnd)
    BY <1>0, <1>1
  <2>2. Round(rnd).out = <<>>
    BY <2>1 DEF Answered
  <2>3. NoSum \in RoundRec(Covers(rnd[2], rnd[3]))
    BY ElemsAre DEF NoSum, RoundRec
  <2>4. Round(rnd) \in RoundRec(Covers(rnd[2], rnd[3]))
    BY <2>3 DEF Round, Sane, SumsFact
  <2> QED
    BY <2>1, <2>2, <2>4, KeysAre, ElemsAre
<1>3. ASSUME NEW rnd \in open
      PROVE  /\ new[rnd] \in RoundRec(Covers(rnd[2], rnd[3])) /\ new[rnd].out = <<>>
             /\ new[rnd].seen = Round(rnd).seen \cup who /\ new[rnd].weight = Round(rnd).weight + v
             /\ \A i \in Covers(rnd[2], rnd[3]) : new[rnd].sum[i] = Round(rnd).sum[i] + load[i] * v
  <2> DEFINE cover == Covers(rnd[2], rnd[3])
             e == Round(rnd)
             n == new[rnd]
  <2>1. cover \subseteq Elems /\ e \in RoundRec(cover) /\ e.out = <<>> /\ n = JoinedBy(e, cover, load, w, who)
    BY <1>2 DEF JoinedBy
  <2> HIDE DEF cover, e, n
  <2>2. /\ n \in RoundRec(cover) /\ n.out = e.out /\ n.seen = e.seen \cup who /\ n.weight = e.weight + SampleWeight(w)
        /\ \A i \in cover : n.sum[i] = e.sum[i] + load[i] * SampleWeight(w)
    BY <2>1, AddedIs
  <2> QED
    BY <2>1, <2>2 DEF cover, e, n
<1>v. v \in Nat
  BY DEF SampleWeight
<1> HIDE DEF v
<1>4. full = {rnd \in open : new[rnd].seen = Adding}
  BY <1>0, <1>3
<1>5. C = [sums |-> Overlay(more, D.sums), residual |-> D.residual]
  BY <1>0, <1>4 DEF Contributed, v
<1> HIDE DEF new
<1>6. /\ OnePerShard(DOMAIN ending) /\ full = DOMAIN ending
      /\ \A rnd \in full : ending[rnd] = new[rnd] /\ ending[rnd] \in RoundRec(Covers(rnd[2], rnd[3])) /\ ~Answered(rnd)
  BY <1>1, <1>2, <1>3 DEF OnePerShard
<1> HIDE DEF ending, D
<1>7. /\ SumsFact(D.sums) /\ CarryFact(D.residual)
      /\ DOMAIN D.sums = DOMAIN sums \cup full
      /\ \A rnd \in DOMAIN sums \ full : D.sums[rnd] = sums[rnd]
      /\ \A rnd \in full : /\ D.sums[rnd].out # <<>> /\ D.sums[rnd].sum = ending[rnd].sum
                           /\ D.sums[rnd].weight = ending[rnd].weight /\ D.sums[rnd].seen = ending[rnd].seen
                           /\ mode.wide => \A i \in Covers(rnd[2], rnd[3]) : D.sums[rnd].out[i] = MeanOf(ending[rnd])[i]
      /\ mode.wide => D.residual = residual
      /\ \A rk : rk[2] \notin Kinds => CarriedIn(D.residual, rk) = Carried(rk)
      /\ ~mode.wide => Closing(sums, residual, D.sums, D.residual, full)
  BY <1>6, ClosedIs DEF D
<1>8. /\ DOMAIN C.sums = (open \ full) \cup DOMAIN D.sums
      /\ \A rnd \in open \ full : C.sums[rnd] = new[rnd]
      /\ \A rnd \in DOMAIN D.sums \ (open \ full) : C.sums[rnd] = D.sums[rnd]
      /\ C.residual = D.residual
  BY <1>5 DEF Overlay
<1> HIDE DEF more
<1>9. DOMAIN C.sums = DOMAIN sums \cup open /\ \A rnd \in DOMAIN sums \ open : C.sums[rnd] = sums[rnd]
  BY <1>1, <1>7, <1>8
<1>10. \A rnd \in full : C.sums[rnd] = D.sums[rnd]
  BY <1>7, <1>8
<1>11. SumsFact(C.sums)
  BY <1>1, <1>3, <1>7, <1>8 DEF SumsFact
<1>12. ASSUME NEW rnd \in full
       PROVE  /\ C.sums[rnd].seen = new[rnd].seen /\ C.sums[rnd].weight = new[rnd].weight /\ C.sums[rnd].sum = new[rnd].sum
              /\ C.sums[rnd].out # <<>>
              /\ mode.wide => \A i \in Covers(rnd[2], rnd[3]) : C.sums[rnd].out[i] = MeanOf(C.sums[rnd])[i]
  <2>1. MeanOf(C.sums[rnd]) = MeanOf(ending[rnd])
    BY <1>7, <1>10 DEF MeanOf
  <2> QED
    BY <1>6, <1>7, <1>10, <2>1
<1>13. ASSUME NEW rnd \in open
       PROVE  /\ C.sums[rnd].seen = Round(rnd).seen \cup who
              /\ C.sums[rnd].weight = Round(rnd).weight + v
              /\ \A i \in Covers(rnd[2], rnd[3]) : C.sums[rnd].sum[i] = Round(rnd).sum[i] + load[i] * v
              /\ C.sums[rnd].out # <<>> <=> rnd \in full
              /\ mode.wide /\ rnd \in full => \A i \in Covers(rnd[2], rnd[3]) : C.sums[rnd].out[i] = MeanOf(C.sums[rnd])[i]
  <2>1. CASE rnd \in full
    BY <2>1, <1>3, <1>12
  <2>2. CASE rnd \notin full
    BY <2>2, <1>3, <1>8
  <2> QED
    BY <2>1, <2>2
<1>14. ASSUME ~mode.wide PROVE Closing(sums, residual, C.sums, C.residual, full)
  <2>1. Closing(sums, residual, D.sums, D.residual, full)
    BY <1>7, <1>14
  <2>2. \A rnd : IsAnswered(sums, rnd) => rnd \notin open
    BY <1>2 DEF IsAnswered, Answered, Round
  <2>3. \A rnd : IsAnswered(D.sums, rnd) => rnd \notin open \ full
    BY <2>1, <2>2, <1>1 DEF Closing
  <2>4. \A rnd : IsAnswered(D.sums, rnd) => IsAnswered(C.sums, rnd) /\ C.sums[rnd] = D.sums[rnd]
    BY <1>8, <2>3 DEF IsAnswered
  <2>5. \A rnd : IsAnswered(C.sums, rnd) => IsAnswered(D.sums, rnd)
    BY <1>3, <1>8 DEF IsAnswered
  <2> QED
    BY <2>1, <2>4, <2>5, <1>8, <1>10 DEF Closing
<1> QED
  BY <1>v, <1>7, <1>8, <1>9, <1>11, <1>13, <1>14 DEF v, open, full, Contributes

RankRec == [t : Nat, load : Seq(Vec), carry : Vec, wait : SUBSET Adding, dead : SUBSET Adding, got : Vec, applied : Seq(Vec)]
NearRec == [sum : Vec, weight : Nat, members : SUBSET Adding, out : {<<>>} \cup Vec, at : {"open", "sent", "asked"}]

RankTies(a) == /\ a \in RankRec /\ Len(a.load) = a.t /\ a.t <= AddSteps
               /\ a.wait \subseteq Shards(a.t) /\ (a.wait # {} => a.t >= 1)
NearFact(N) == /\ DOMAIN N \subseteq 1..AddSteps
               /\ \A t \in DOMAIN N : N[t] \in NearRec /\ (N[t].at = "asked" => N[t].out \in Vec)

ReduceShape ==
    /\ Sane /\ lost \subseteq Adding
    /\ DOMAIN adder = Adding /\ \A r \in Adding : RankTies(adder[r])
    /\ NearFact(near)

\* The steps up to n at which rank r has samples, and what it sends and carries.
Real(r, n) == {t \in 1..n : BatchOf(r, t).n > 0}
RankBook(r, a) ==
    \A i \in Elems :
        SumFunctionOnSet([t \in Real(r, a.t) |-> a.load[t][i]], Real(r, a.t)) + a.carry[i]
          = SumFunctionOnSet([t \in Real(r, a.t) |-> BatchOf(r, t).g[i]], Real(r, a.t))

Asked(N) == {t \in DOMAIN N : N[t].at = "asked"}
NearBook(N, c) ==
    \A i \in Elems :
        SumFunctionOnSet([t \in Asked(N) |-> N[t].out[i]], Asked(N)) + c[i]
          = SumFunctionOnSet([t \in Asked(N) |-> MeanOf(N[t])[i]], Asked(N))

Up == <<Min(Near), "up", 0>>

ReduceBooks ==
    ~mode.wide =>
      /\ \A r \in Adding : RankBook(r, adder[r])
      /\ NearBook(near, CarriedIn(residual, Up))
      /\ Books(sums, residual)

LEMMA BatchIs ==
    ASSUME NEW r \in Adding, NEW t \in Nat
    PROVE  BatchOf(r, t).n \in Nat /\ BatchOf(r, t).g \in Vec
<1> DEFINE g == [e \in Elems |-> IF e[2] = 0 THEN (4 - r) * Unit ELSE (e[1] - t) * Unit]
<1>1. r \in Int /\ t \in Int /\ Unit \in Int /\ \A e \in Elems : e[1] \in Int
  <2>0. \A x \in Adding : x \in Int
    BY ElemsAre
  <2>a. \A e \in Elems : e[1] \in Adding
    BY ElemsAre
  <2>1. r \in Int /\ \A e \in Elems : e[1] \in Int
    BY <2>0, <2>a, Zenon
  <2>2. Unit \in Int
    BY ReduceAssumption
  <2> QED
    BY <2>1, <2>2
<1>2. ASSUME NEW e \in Elems PROVE (IF e[2] = 0 THEN (4 - r) * Unit ELSE (e[1] - t) * Unit) \in Int
  <2> DEFINE x == e[1]
  <2>1. x \in Int
    BY <1>1
  <2> HIDE DEF x
  <2>2. (4 - r) * Unit \in Int /\ (x - t) * Unit \in Int
    BY <1>1, <2>1
  <2> QED
    BY <2>2 DEF x
<1>3. g \in Vec
  BY <1>2 DEF Vec
<1>4. BatchOf(r, t).g = g /\ BatchOf(r, t).n = IF t = AddSteps /\ r \in pads THEN 0 ELSE 1 + (r % 2)
  BY DEF BatchOf
<1>5. r % 2 \in Nat
  BY ElemsAre
<1> QED
  BY <1>3, <1>4, <1>5

\* What goes on the wire and what stays behind.
LEMMA PackedIs ==
    ASSUME ReduceShape, NEW r \in Adding, NEW t \in Nat, NEW p, p = Packed(r, t)
    PROVE  /\ p.load \in Vec /\ p.carry \in Vec
           /\ ~mode.wide /\ BatchOf(r, t).n = 0 => p.carry = adder[r].carry
           /\ ~mode.wide /\ BatchOf(r, t).n # 0 => \A i \in Elems : p.load[i] + p.carry[i] = BatchOf(r, t).g[i] + adder[r].carry[i]
           /\ mode.wide => p.load = BatchOf(r, t).g
<1> DEFINE b == BatchOf(r, t)
           c == adder[r].carry
           q == Int8(Plus(b.g, c))
<1>1. b.g \in Vec /\ b.n \in Nat /\ c \in Vec /\ mode.wide \in BOOLEAN /\ Zero \in Vec
  BY BatchIs, ElemsAre DEF ReduceShape, RankTies, RankRec, Sane
<1>2. p = CASE mode.wide -> [load |-> b.g, carry |-> c]
            [] ~mode.wide /\ b.n = 0 -> [load |-> Zero, carry |-> c]
            [] OTHER -> [load |-> q.out, carry |-> q.left]
  BY DEF Packed
<1> HIDE DEF b, c
<1>3. Plus(b.g, c) \in Vec /\ \A i \in Elems : Plus(b.g, c)[i] = b.g[i] + c[i]
  BY <1>1 DEF Plus, Vec
<1>4. q.out \in Vec /\ q.left \in Vec /\ \A i \in Elems : q.out[i] + q.left[i] = b.g[i] + c[i]
  BY <1>3, Int8Is
<1> HIDE DEF q
<1>5. CASE mode.wide
  <2>1. p = [load |-> b.g, carry |-> c]
    BY <1>2, <1>5
  <2> QED
    BY <2>1, <1>1, <1>5 DEF b, c
<1>6. CASE ~mode.wide /\ b.n = 0
  <2>1. p = [load |-> Zero, carry |-> c]
    BY <1>2, <1>6
  <2> QED
    BY <2>1, <1>1, <1>6 DEF b, c
<1>7. CASE ~mode.wide /\ b.n # 0
  <2>1. p = [load |-> q.out, carry |-> q.left]
    BY <1>2, <1>7
  <2> QED
    BY <2>1, <1>4, <1>7 DEF b, c
<1> QED
  BY <1>1, <1>5, <1>6, <1>7

\* A rank goes on to its next step, and takes note of the daemons that are gone.
Moved(r, t, dead) == [Stepped(r, t, Packed(r, t)) EXCEPT !.dead = dead]

LEMMA SteppedIs ==
    ASSUME ReduceShape, ReduceBooks, NEW r \in Adding, NEW t, t = adder[r].t + 1, t <= AddSteps,
           NEW dead \in SUBSET Adding, NEW a,
           a = Stepped(r, t, Packed(r, t)) \/ a = Moved(r, t, dead)
    PROVE  /\ RankTies(a) /\ t \in Nat /\ a.t = t
           /\ a.load = Append(adder[r].load, Packed(r, t).load) /\ Packed(r, t).load \in Vec
           /\ ~mode.wide => RankBook(r, a)
<1> DEFINE old == adder[r]
           p == Packed(r, t)
<1>1. old \in RankRec /\ Len(old.load) = old.t /\ t = old.t + 1 /\ t \in Nat /\ old.t \in Nat
  BY DEF ReduceShape, RankTies, RankRec
<1>2. /\ p.load \in Vec /\ p.carry \in Vec
      /\ ~mode.wide /\ BatchOf(r, t).n = 0 => p.carry = old.carry
      /\ ~mode.wide /\ BatchOf(r, t).n # 0 => \A i \in Elems : p.load[i] + p.carry[i] = BatchOf(r, t).g[i] + old.carry[i]
  BY <1>1, PackedIs
<1>3. Shards(t) \subseteq Adding
  BY ElemsAre DEF Shards
<1>4. /\ a.t = t /\ a.load = Append(old.load, p.load) /\ a.carry = p.carry /\ a.wait = Shards(t)
      /\ a \in [t : Nat, load : {Append(old.load, p.load)}, carry : Vec, wait : SUBSET Adding, dead : SUBSET Adding, got : Vec, applied : Seq(Vec)]
  BY <1>1, <1>2, <1>3, ElemsAre DEF Moved, Stepped, RankRec
<1>l. old.load \in Seq(Vec)
  BY <1>1 DEF RankRec
<1>5. Append(old.load, p.load) \in Seq(Vec) /\ Len(Append(old.load, p.load)) = t
  BY <1>1, <1>2, <1>l
<1>6. RankTies(a)
  <2>1. a \in RankRec
    BY <1>4, <1>5 DEF RankRec
  <2>2. t >= 1
    BY <1>1
  <2> QED
    BY <1>4, <1>5, <2>1, <2>2 DEF RankTies
<1>7. ASSUME ~mode.wide PROVE RankBook(r, a)
  <2> SUFFICES ASSUME NEW i \in Elems
               PROVE  SumFunctionOnSet([s \in Real(r, a.t) |-> a.load[s][i]], Real(r, a.t)) + a.carry[i]
                        = SumFunctionOnSet([s \in Real(r, a.t) |-> BatchOf(r, s).g[i]], Real(r, a.t))
    BY DEF RankBook
  <2> DEFINE D == Real(r, old.t)
             f == [s \in D |-> old.load[s][i]]
             g == [s \in D |-> BatchOf(r, s).g[i]]
             f2 == [s \in Real(r, t) |-> a.load[s][i]]
             g2 == [s \in Real(r, t) |-> BatchOf(r, s).g[i]]
  <2>1. SumFunctionOnSet(f, D) + old.carry[i] = SumFunctionOnSet(g, D)
    BY <1>7 DEF ReduceBooks, RankBook
  <2>2. IsFiniteSet(D) /\ D \subseteq 1..old.t
    <3> DEFINE n == old.t
    <3>0. 1 \in Int /\ n \in Int
      BY <1>1
    <3> HIDE DEF n
    <3>1. IsFiniteSet(1..n)
      BY <3>0, FS_Interval
    <3> USE DEF n
    <3> QED
      BY <3>1, FS_Subset DEF Real
  <2>3. ASSUME NEW s \in 1..old.t PROVE a.load[s] = old.load[s] /\ old.load[s] \in Vec
    BY <1>1, <1>2, <1>4, <1>l
  <2>4. a.load[t] = p.load
    BY <1>1, <1>2, <1>4, <1>l
  <2>5. \A s \in D : f[s] \in Int /\ a.load[s][i] = f[s]
    BY <2>2, <2>3 DEF Vec
  <2>6. \A s \in D : g[s] \in Int
    <3> TAKE s \in D
    <3>1. BatchOf(r, s).g \in Vec
      BY <1>1, <2>2, BatchIs
    <3> QED
      BY <3>1 DEF Vec
  <2>7. old.carry[i] \in Int /\ p.carry[i] \in Int /\ p.load[i] \in Int /\ BatchOf(r, t).g[i] \in Int
    <3>1. old.carry \in Vec /\ BatchOf(r, t).g \in Vec
      BY <1>1, BatchIs DEF RankRec
    <3> QED
      BY <1>2, <3>1 DEF Vec
  <2>8. CASE BatchOf(r, t).n = 0
    <3>1. Real(r, t) = D
      BY <1>1, <2>8 DEF Real
    <3>2. f2 = f /\ g2 = g
      BY <3>1, <2>5
    <3> QED
      BY <1>2, <1>4, <1>7, <2>1, <2>8, <3>1, <3>2
  <2>9. CASE BatchOf(r, t).n # 0
    <3>1. Real(r, t) = D \cup {t} /\ t \notin D
      BY <1>1, <2>9, BatchIs DEF Real
    <3>2. /\ \A s \in D : f[s] \in Int /\ f2[s] = f[s]
          /\ \A s \in D : g[s] \in Int /\ g2[s] = g[s]
          /\ f2[t] = p.load[i] /\ g2[t] = BatchOf(r, t).g[i]
      BY <2>4, <2>5, <2>6, <3>1
    <3> DEFINE x == f2[t]
               y == g2[t]
               sf == SumFunctionOnSet(f, D)
               sg == SumFunctionOnSet(g, D)
               c == old.carry[i]
               c2 == p.carry[i]
    <3>3. x + c2 = y + c /\ x \in Int /\ y \in Int /\ c \in Int /\ c2 \in Int /\ sf + c = sg
      BY <1>2, <1>7, <2>1, <2>7, <2>9, <3>2
    <3>4. SumFunctionOnSet(f2, D \cup {t}) = x + sf /\ sf \in Int
      <4>1. IsFiniteSet(D) /\ t \notin D /\ f2[t] \in Int /\ \A s \in D : f[s] \in Int /\ f2[s] = f[s]
        BY <2>2, <3>1, <3>2, <3>3
      <4> HIDE DEF D, f, f2
      <4> QED
        BY <4>1, SumGrows
    <3>5. SumFunctionOnSet(g2, D \cup {t}) = y + sg /\ sg \in Int
      <4>1. IsFiniteSet(D) /\ t \notin D /\ g2[t] \in Int /\ \A s \in D : g[s] \in Int /\ g2[s] = g[s]
        BY <2>2, <3>1, <3>2, <3>3
      <4> HIDE DEF D, g, g2
      <4> QED
        BY <4>1, SumGrows
    <3>6. (x + sf) + c2 = y + sg
      <4>1. x + c2 = y + c /\ x \in Int /\ y \in Int /\ c \in Int /\ c2 \in Int /\ sf + c = sg /\ sf \in Int /\ sg \in Int
        BY <3>3, <3>4, <3>5
      <4> HIDE DEF x, y, sf, sg, c, c2
      <4> QED
        BY <4>1, Balance
    <3> QED
      BY <1>4, <3>1, <3>4, <3>5, <3>6
  <2> QED
    BY <2>8, <2>9
<1> QED
  BY <1>1, <1>2, <1>4, <1>6, <1>7

\* What the books say of the variables, primed or as arguments.
LEMMA BooksPrime ==
    ASSUME UNCHANGED <<mode, delta, pads>>
    PROVE  /\ Books(sums, residual)' <=> Books(sums', residual')
           /\ SumsFact(sums)' <=> SumsFact(sums')
           /\ CarryFact(residual)' <=> CarryFact(residual')
           /\ \A r \in Adding : RankBook(r, adder[r])' <=> RankBook(r, adder'[r])
           /\ \A r \in Adding : RankTies(adder[r])' <=> RankTies(adder'[r])
           /\ CarriedIn(residual, Up)' = CarriedIn(residual', Up)
           /\ NearBook(near, CarriedIn(residual, Up))' <=> NearBook(near', CarriedIn(residual', Up))
           /\ NearFact(near)' <=> NearFact(near')
<1>1. \A t : Kind(t)' = Kind(t)
  BY DEF Kind
<1>2. \A kind, k : CoverOf(kind, k)' = CoverOf(kind, k)
  BY DEF CoverOf, Block, Elems, Adding
<1>3. \A d, kind, k : Group(sums, d, kind, k)' = Group(sums', d, kind, k)
  BY <1>1 DEF Group
<1>4. \A t, k : Covers(t, k)' = Covers(t, k)
  BY <1>1 DEF Covers, Sharded, Kind, Block, Elems, Adding
<1>5. Books(sums, residual)' <=> Books(sums', residual')
  <2>1. \A d, kind, k, i : OutOf(sums, Group(sums, d, kind, k), i)' = OutOf(sums', Group(sums', d, kind, k), i)
    BY <1>3 DEF OutOf
  <2>2. \A d, kind, k, i : MeansOf(sums, Group(sums, d, kind, k), i)' = MeansOf(sums', Group(sums', d, kind, k), i)
    BY <1>3 DEF MeansOf
  <2>3. \A rk : CarriedIn(residual, rk)' = CarriedIn(residual', rk)
    BY DEF CarriedIn
  <2> QED
    BY <1>2, <2>1, <2>2, <2>3 DEF Books
<1>6. \A r, t : BatchOf(r, t)' = BatchOf(r, t)
  BY DEF BatchOf, Elems, Adding
<1>7. \A r, n : Real(r, n)' = Real(r, n)
  BY <1>6 DEF Real
<1>8. \A r : RankBook(r, adder[r])' <=> RankBook(r, adder'[r])
  BY <1>6, <1>7 DEF RankBook
<1>9. \A t : Shards(t)' = Shards(t)
  BY <1>1 DEF Shards, Sharded, Kind, Adding
<1>10. \A r : RankTies(adder[r])' <=> RankTies(adder'[r])
  BY <1>9 DEF RankTies
<1>11. CarriedIn(residual, Up)' = CarriedIn(residual', Up)
  BY DEF CarriedIn
<1>12. NearBook(near, CarriedIn(residual, Up))' <=> NearBook(near', CarriedIn(residual', Up))
  BY <1>11 DEF NearBook, Asked
<1>13. NearFact(near)' <=> NearFact(near')
  BY DEF NearFact
<1>14. (SumsFact(sums)' <=> SumsFact(sums')) /\ (CarryFact(residual)' <=> CarryFact(residual'))
  BY <1>4 DEF SumsFact, CarryFact
<1> QED
  BY <1>5, <1>8, <1>10, <1>11, <1>12, <1>13, <1>14

LEMMA ReduceKept ==
    ASSUME UNCHANGED <<mode, delta, pads>>, mode.wide \in BOOLEAN, lost' \subseteq Adding,
           DOMAIN adder' = Adding, \A r \in Adding : RankTies(adder'[r]),
           NearFact(near'), SumsFact(sums'), CarryFact(residual'),
           ~mode.wide => /\ \A r \in Adding : RankBook(r, adder'[r])
                         /\ NearBook(near', CarriedIn(residual', Up))
                         /\ Books(sums', residual')
    PROVE  ReduceShape' /\ ReduceBooks'
<1>0. mode' = mode /\ Adding' = Adding
  BY DEF Adding
<1>1. SumsFact(sums)' /\ CarryFact(residual)' /\ NearFact(near)'
  BY BooksPrime
<1>2. \A r \in Adding : RankTies(adder[r])'
  BY BooksPrime
<1>3. ReduceShape'
  BY <1>0, <1>1, <1>2 DEF ReduceShape, Sane
<1>4. ASSUME ~mode.wide PROVE /\ \A r \in Adding : RankBook(r, adder[r])'
                              /\ NearBook(near, CarriedIn(residual, Up))'
                              /\ Books(sums, residual)'
  BY <1>4, BooksPrime
<1>7. ReduceBooks'
  BY <1>0, <1>4 DEF ReduceBooks
<1> QED
  BY <1>3, <1>7

\* The keys of a rank's sync.
LEMMA SyncKeys ==
    ASSUME NEW t \in 1..AddSteps, NEW dead, NEW keys, keys = {<<IF k \in dead THEN 0 ELSE k, t, k>> : k \in Shards(t)}
    PROVE  OnePerShard(keys)
<1>1. Shards(t) \subseteq Adding /\ 0 \in Adding
  BY ElemsAre DEF Shards
<1>2. keys \subseteq Keys
  BY <1>1 DEF Keys
<1>3. \A x, y \in keys : x[3] = y[3] => x = y
  OBVIOUS
<1> QED
  BY <1>2, <1>3 DEF OnePerShard

\* Carried rounding that is not of a kind, like the one of a shared machine, is
\* not touched by a contribution.
LEMMA UpIs == Up[2] \notin Kinds /\ Carried(Up) = CarriedIn(residual, Up)
  BY DEF Up, Kinds, Carried, CarriedIn

\* The books after a contribution.
LEMMA BooksAfter ==
    ASSUME ReduceShape, ReduceBooks, NEW keys, OnePerShard(keys), NEW who \in SUBSET Adding, NEW load \in Vec, NEW w \in Int,
           NEW C, C = Contributed(keys, who, load, w)
    PROVE  /\ SumsFact(C.sums) /\ CarryFact(C.residual)
           /\ CarriedIn(C.residual, Up) = CarriedIn(residual, Up)
           /\ ~mode.wide => Books(C.sums, C.residual)
<1> DEFINE full == Full(keys, who)
<1>1. Sane
  BY DEF ReduceShape
<1>2. /\ SumsFact(C.sums) /\ CarryFact(C.residual)
      /\ \A rk : rk[2] \notin Kinds => CarriedIn(C.residual, rk) = Carried(rk)
      /\ ~mode.wide => Closing(sums, residual, C.sums, C.residual, full)
  <2>1. Contributes(C, keys, who, load, w)
    BY <1>1, ContributedIs
  <2> QED
    BY <2>1 DEF Contributes
<1>3. full \subseteq Keys
  BY DEF OnePerShard, Full, Open
<1>4. SumsFact(sums) /\ CarryFact(residual) /\ (~mode.wide => Books(sums, residual))
  BY <1>1 DEF Sane, ReduceBooks
<1> HIDE DEF full
<1>5. ASSUME ~mode.wide PROVE Books(C.sums, C.residual)
  BY <1>2, <1>3, <1>4, <1>5, BooksStay
<1> QED
  BY <1>2, <1>5, UpIs

LEMMA SendBooks ==
    ASSUME ReduceShape, ReduceBooks, NEW r \in Adding, Send(r)
    PROVE  ReduceShape' /\ ReduceBooks'
<1> DEFINE t == adder[r].t + 1
           p == Packed(r, t)
           dead == adder[r].dead \cup (IF Sharded(t) THEN lost ELSE {})
           keys == {<<IF k \in dead THEN 0 ELSE k, t, k>> : k \in Shards(t)}
           C == Contributed(keys, {r}, p.load, Wire(r, t))
           a == [Stepped(r, t, p) EXCEPT !.dead = dead]
<1>1. adder[r] \in RankRec /\ adder[r].t \in Nat /\ adder[r].dead \in SUBSET Adding /\ mode.wide \in BOOLEAN /\ lost \subseteq Adding
  BY DEF ReduceShape, RankTies, RankRec, Sane
<1>2. /\ adder' = [adder EXCEPT ![r] = a] /\ sums' = C.sums /\ residual' = C.residual
      /\ UNCHANGED <<mode, delta, pads, near, lost, ended>> /\ adder[r].t < AddSteps
  BY DEF Send, Steps
<1>3. t \in 1..AddSteps /\ dead \in SUBSET Adding
  BY <1>1, <1>2, ReduceAssumption
<1>4. OnePerShard(keys)
  <2> HIDE DEF t, dead
  <2> QED
    BY <1>3, SyncKeys
<1>5. /\ RankTies(a) /\ p.load \in Vec /\ (~mode.wide => RankBook(r, a))
  <2>0. a = Moved(r, t, dead) /\ p = Packed(r, t)
    BY DEF Moved
  <2> HIDE DEF t, dead, a, p
  <2>1. t = adder[r].t + 1 /\ t <= AddSteps
    BY <1>1, <1>2, ReduceAssumption DEF t
  <2>2. RankTies(a) /\ Packed(r, t).load \in Vec /\ (~mode.wide => RankBook(r, a))
    BY <1>3, <2>0, <2>1, SteppedIs
  <2> QED
    BY <2>0, <2>2
<1>6. Wire(r, t) \in Int
  <2>1. BatchOf(r, t).n \in Nat
    BY <1>3, BatchIs
  <2> QED
    BY <2>1 DEF Wire
<1> HIDE DEF keys, a, p, t, dead
<1>7. /\ SumsFact(C.sums) /\ CarryFact(C.residual) /\ CarriedIn(C.residual, Up) = CarriedIn(residual, Up)
      /\ ~mode.wide => Books(C.sums, C.residual)
  BY <1>4, <1>5, <1>6, BooksAfter
<1> HIDE DEF C
<1>8. DOMAIN adder' = Adding /\ adder'[r] = a /\ \A q \in Adding \ {r} : adder'[q] = adder[q]
  BY <1>2 DEF ReduceShape
<1>9. \A q \in Adding : RankTies(adder'[q])
  BY <1>5, <1>8 DEF ReduceShape
<1>10. ASSUME ~mode.wide
       PROVE  /\ \A q \in Adding : RankBook(q, adder'[q])
              /\ NearBook(near', CarriedIn(residual', Up)) /\ Books(sums', residual')
  BY <1>2, <1>5, <1>7, <1>8, <1>10 DEF ReduceBooks
<1>11. NearFact(near') /\ SumsFact(sums') /\ CarryFact(residual') /\ lost' \subseteq Adding
  BY <1>1, <1>2, <1>7 DEF ReduceShape
<1> QED
  BY <1>1, <1>2, <1>8, <1>9, <1>10, <1>11, ReduceKept

LEMMA ShardLostBooks ==
    ASSUME ReduceShape, ReduceBooks, NEW r \in Adding, NEW k \in Adding, ShardLost(r, k)
    PROVE  ReduceShape' /\ ReduceBooks'
<1> DEFINE t == adder[r].t
           load == adder[r].load[t]
           keys == {<<0, t, k>>}
           C == Contributed(keys, {r}, load, Wire(r, t))
           a == [adder[r] EXCEPT !.dead = @ \cup {k}]
<1>1. /\ adder[r] \in RankRec /\ t \in Nat /\ t >= 1 /\ t <= AddSteps /\ Len(adder[r].load) = t /\ adder[r].load \in Seq(Vec)
      /\ mode.wide \in BOOLEAN /\ lost \subseteq Adding
  BY DEF ReduceShape, RankTies, RankRec, Sane, ShardLost
<1>2. /\ adder' = [adder EXCEPT ![r] = a] /\ sums' = C.sums /\ residual' = C.residual
      /\ UNCHANGED <<mode, delta, pads, near, lost, ended>>
  BY DEF ShardLost
<1>3. t \in 1..AddSteps /\ load \in Vec
  BY <1>1
<1>4. OnePerShard(keys)
  BY <1>3, ElemsAre DEF OnePerShard, Keys
<1>5. RankTies(a) /\ (~mode.wide => RankBook(r, a))
  <2>0. RankTies(adder[r]) /\ (~mode.wide => RankBook(r, adder[r]))
    BY DEF ReduceShape, ReduceBooks
  <2>1. a \in RankRec /\ a.t = adder[r].t /\ a.load = adder[r].load /\ a.carry = adder[r].carry /\ a.wait = adder[r].wait
    BY <1>1 DEF RankRec
  <2> HIDE DEF a
  <2> QED
    BY <2>0, <2>1 DEF RankTies, RankBook
<1>6. Wire(r, t) \in Int
  <2>1. BatchOf(r, t).n \in Nat
    BY <1>3, BatchIs
  <2> QED
    BY <2>1 DEF Wire
<1> HIDE DEF keys, a, load, t
<1>7. /\ SumsFact(C.sums) /\ CarryFact(C.residual) /\ CarriedIn(C.residual, Up) = CarriedIn(residual, Up)
      /\ ~mode.wide => Books(C.sums, C.residual)
  BY <1>3, <1>4, <1>6, BooksAfter
<1> HIDE DEF C
<1>8. DOMAIN adder' = Adding /\ adder'[r] = a /\ \A q \in Adding \ {r} : adder'[q] = adder[q]
  BY <1>2 DEF ReduceShape
<1>9. \A q \in Adding : RankTies(adder'[q])
  BY <1>5, <1>8 DEF ReduceShape
<1>10. ASSUME ~mode.wide
       PROVE  /\ \A q \in Adding : RankBook(q, adder'[q])
              /\ NearBook(near', CarriedIn(residual', Up)) /\ Books(sums', residual')
  BY <1>2, <1>5, <1>7, <1>8, <1>10 DEF ReduceBooks
<1>11. NearFact(near') /\ SumsFact(sums') /\ CarryFact(residual') /\ lost' \subseteq Adding
  BY <1>1, <1>2, <1>7 DEF ReduceShape
<1> QED
  BY <1>1, <1>2, <1>8, <1>9, <1>10, <1>11, ReduceKept

\* Nothing in the books moves when only a rank's waiting and answers do.
LEMMA OnlyRank ==
    ASSUME ReduceShape, ReduceBooks, NEW r \in Adding, NEW a, RankTies(a),
           a.t = adder[r].t, a.load = adder[r].load, a.carry = adder[r].carry,
           adder' = [adder EXCEPT ![r] = a], UNCHANGED <<mode, delta, pads, sums, near, residual, lost>>
    PROVE  ReduceShape' /\ ReduceBooks'
<1>1. DOMAIN adder' = Adding /\ adder'[r] = a /\ \A q \in Adding \ {r} : adder'[q] = adder[q]
  BY DEF ReduceShape
<1>2. \A q \in Adding : RankTies(adder'[q])
  BY <1>1 DEF ReduceShape
<1>3. ASSUME ~mode.wide
      PROVE  /\ \A q \in Adding : RankBook(q, adder'[q])
             /\ NearBook(near', CarriedIn(residual', Up)) /\ Books(sums', residual')
  <2>1. /\ \A q \in Adding : RankBook(q, adder[q])
        /\ NearBook(near, CarriedIn(residual, Up)) /\ Books(sums, residual)
    BY <1>3 DEF ReduceBooks
  <2>2. RankBook(r, a)
    BY <2>1 DEF RankBook
  <2> QED
    BY <1>1, <2>1, <2>2
<1>4. NearFact(near') /\ SumsFact(sums') /\ CarryFact(residual') /\ lost' \subseteq Adding /\ mode.wide \in BOOLEAN
  BY DEF ReduceShape, Sane
<1> QED
  BY <1>1, <1>2, <1>3, <1>4, ReduceKept

LEMMA TakenBooks ==
    ASSUME ReduceShape, ReduceBooks, NEW r \in Adding, NEW ks, ks # {}, ks \subseteq adder[r].wait, NEW v,
           \A k \in ks : \A i \in Covers(adder[r].t, k) : v[i] \in Int,
           Taken(r, adder[r].t, ks, v), UNCHANGED <<mode, delta, pads, sums, near, residual, lost>>
    PROVE  ReduceShape' /\ ReduceBooks'
<1> DEFINE old == adder[r]
           got == [i \in Elems |-> IF \E k \in ks : i \in Covers(old.t, k) THEN v[i] ELSE old.got[i]]
           done == IF old.wait = ks THEN Append(old.applied, got) ELSE old.applied
           a == [old EXCEPT !.wait = @ \ ks, !.got = got, !.applied = done]
<1>1. old \in RankRec /\ RankTies(old) /\ old.got \in Vec /\ old.applied \in Seq(Vec)
  BY DEF ReduceShape, RankTies, RankRec
<1>2. got \in Vec
  BY <1>1 DEF Vec
<1> DEFINE b == [old EXCEPT !.wait = @ \ ks, !.got = got, !.applied = IF old.wait = ks THEN Append(@, got) ELSE @]
<1>a. adder' = [adder EXCEPT ![r] = b]
  BY DEF Taken
<1>b. b = a
  <2> HIDE DEF got
  <2> QED
    BY <1>1 DEF RankRec
<1>3. adder' = [adder EXCEPT ![r] = a]
  <2> HIDE DEF a, b
  <2> QED
    BY <1>a, <1>b
<1> HIDE DEF got
<1>4. done \in Seq(Vec)
  BY <1>1, <1>2
<1> HIDE DEF done
<1>5. a.t = old.t /\ a.load = old.load /\ a.carry = old.carry /\ a.wait = old.wait \ ks /\ a \in RankRec
  BY <1>1, <1>2, <1>4 DEF RankRec
<1>6. RankTies(a)
  BY <1>1, <1>5 DEF RankTies
<1> HIDE DEF a
<1> QED
  BY <1>3, <1>5, <1>6, OnlyRank

\* An answer is a number for every element of its shard.
LEMMA AnsweredIs ==
    ASSUME ReduceShape, NEW rnd, Answered(rnd)
    PROVE  rnd \in DOMAIN sums /\ sums[rnd].out \in Answers(Covers(rnd[2], rnd[3]))
<1>1. rnd \in DOMAIN sums
  BY DEF Answered, Round, NoSum
<1>2. sums[rnd] \in RoundRec(Covers(rnd[2], rnd[3])) /\ sums[rnd].out # <<>>
  BY <1>1 DEF ReduceShape, Sane, SumsFact, Answered, Round
<1> QED
  BY <1>1, <1>2 DEF RoundRec

LEMMA TakeMeansBooks ==
    ASSUME ReduceShape, ReduceBooks, NEW r \in Adding, TakeMeans(r)
    PROVE  ReduceShape' /\ ReduceBooks'
<1> DEFINE t == adder[r].t
           at(k) == <<DaemonOf(r, k), t, k>>
           ks == {k \in adder[r].wait : DaemonOf(r, k) \notin lost /\ Answered(at(k))}
           holder(i) == IF Sharded(t) THEN i[1] ELSE 0
           all == UNION {Covers(t, k) : k \in ks}
           v == [i \in all |-> sums[at(holder(i))].out[i]]
<1>1. ks # {} /\ Taken(r, t, ks, v) /\ UNCHANGED <<mode, delta, pads, sums, near, residual, lost>>
  BY DEF TakeMeans
<1>2. ks \subseteq adder[r].wait /\ adder[r].wait \subseteq Shards(t)
  BY DEF ReduceShape, RankTies
<1>3. ASSUME NEW k \in ks, NEW i \in Covers(t, k) PROVE v[i] \in Int
  <2>1. i \in all
    OBVIOUS
  <2>2. holder(i) = k
    BY <1>2 DEF Shards, Covers, Block
  <2>3. Answered(at(k)) /\ at(k)[2] = t /\ at(k)[3] = k
    OBVIOUS
  <2>4. sums[at(k)].out \in Answers(Covers(t, k))
    <3> DEFINE x == at(k)
    <3>1. Answered(x) /\ x[2] = t /\ x[3] = k
      BY <2>3
    <3> HIDE DEF x
    <3>2. sums[x].out \in Answers(Covers(x[2], x[3]))
      BY <3>1, AnsweredIs
    <3> QED
      BY <3>1, <3>2 DEF x
  <2>5. sums[at(k)].out[i] \in Int
    BY <2>4 DEF Answers
  <2>6. v[i] = sums[at(holder(i))].out[i]
    BY <2>1
  <2> QED
    BY <2>2, <2>5, <2>6
<1> HIDE DEF ks, v
<1> QED
  BY <1>1, <1>2, <1>3, TakenBooks

LEMMA TakeNearBooks ==
    ASSUME ReduceShape, ReduceBooks, NEW r \in Adding, TakeNear(r)
    PROVE  ReduceShape' /\ ReduceBooks'
<1> DEFINE t == adder[r].t
           rnd == <<0, t, 0>>
           v == sums[rnd].out
<1>1. /\ Answered(rnd) /\ 0 \in adder[r].wait /\ mode.way = "local"
      /\ Taken(r, t, {0}, v) /\ UNCHANGED <<mode, delta, pads, sums, near, residual, lost>>
  BY DEF TakeNear, Nearby
<1>2. v \in Answers(Covers(t, 0))
  <2>1. rnd[2] = t /\ rnd[3] = 0
    OBVIOUS
  <2> HIDE DEF rnd
  <2>2. sums[rnd].out \in Answers(Covers(rnd[2], rnd[3]))
    BY <1>1, AnsweredIs
  <2> QED
    BY <2>1, <2>2
<1>3. \A k \in {0} : \A i \in Covers(t, k) : v[i] \in Int
  BY <1>2 DEF Answers
<1> HIDE DEF v
<1> QED
  BY <1>1, <1>3, TakenBooks

LEMMA LoseMachineBooks ==
    ASSUME ReduceShape, ReduceBooks, NEW r \in Adding, LoseMachine(r)
    PROVE  ReduceShape' /\ ReduceBooks'
<1>1. UNCHANGED <<mode, delta, pads, adder, sums, near, residual>> /\ lost' = lost \cup {r}
  BY DEF LoseMachine
<1>2. /\ mode.wide \in BOOLEAN /\ lost' \subseteq Adding /\ DOMAIN adder' = Adding
      /\ NearFact(near') /\ SumsFact(sums') /\ CarryFact(residual')
      /\ \A q \in Adding : RankTies(adder'[q])
  BY <1>1 DEF ReduceShape, Sane
<1>3. ~mode.wide => /\ \A q \in Adding : RankBook(q, adder'[q])
                    /\ NearBook(near', CarriedIn(residual', Up)) /\ Books(sums', residual')
  BY <1>1 DEF ReduceBooks
<1> QED
  BY <1>1, <1>2, <1>3, ReduceKept

LEMMA CloseShortBooks ==
    ASSUME ReduceShape, ReduceBooks, NEW rnd \in Keys, CloseShort(rnd)
    PROVE  ReduceShape' /\ ReduceBooks'
<1> DEFINE e == Round(rnd)
           ending == [x \in {rnd} |-> e]
           C == Closed(ending)
<1>0. UNCHANGED <<mode, delta, pads, adder, near, lost>>
  BY DEF CloseShort
<1>a. mode.wide \in BOOLEAN /\ SumsFact(sums) /\ CarryFact(residual) /\ Sane
  BY DEF ReduceShape, Sane
<1>b. /\ mode.wide \in BOOLEAN /\ lost' \subseteq Adding /\ DOMAIN adder' = Adding /\ NearFact(near')
      /\ \A q \in Adding : RankTies(adder'[q])
  BY <1>0, <1>a DEF ReduceShape
<1>c. ~mode.wide => /\ \A q \in Adding : RankBook(q, adder'[q])
                    /\ NearBook(near, CarriedIn(residual, Up)) /\ Books(sums, residual)
  BY <1>0 DEF ReduceBooks
<1>1. CASE Cardinality(e.seen) = 1
  <2>1. UNCHANGED <<sums, residual>>
    BY <1>1 DEF CloseShort
  <2>2. SumsFact(sums') /\ CarryFact(residual')
    BY <1>a, <2>1
  <2>3. ~mode.wide => /\ \A q \in Adding : RankBook(q, adder'[q])
                      /\ NearBook(near', CarriedIn(residual', Up)) /\ Books(sums', residual')
    BY <1>0, <1>c, <2>1
  <2> QED
    BY <1>0, <1>b, <2>2, <2>3, ReduceKept
<1>2. CASE Cardinality(e.seen) # 1
  <2>1. sums' = C.sums /\ residual' = C.residual /\ ~Answered(rnd) /\ e.seen # {}
    BY <1>2 DEF CloseShort
  <2>2. rnd \in DOMAIN sums
    BY <2>1 DEF Round, NoSum
  <2>3. OnePerShard(DOMAIN ending) /\ DOMAIN ending = {rnd}
    BY DEF OnePerShard
  <2>4. \A x \in {rnd} : ending[x] \in RoundRec(Covers(x[2], x[3])) /\ ~Answered(x)
    BY <1>a, <2>1, <2>2 DEF Round, SumsFact
  <2> HIDE DEF ending
  <2>5. /\ SumsFact(C.sums) /\ CarryFact(C.residual)
        /\ \A rk : rk[2] \notin Kinds => CarriedIn(C.residual, rk) = Carried(rk)
        /\ ~mode.wide => Closing(sums, residual, C.sums, C.residual, {rnd})
    <3> DEFINE F == {rnd}
    <3>1. F = DOMAIN ending /\ \A x \in F : ending[x] \in RoundRec(Covers(x[2], x[3])) /\ ~Answered(x)
      BY <2>3, <2>4
    <3> HIDE DEF F
    <3> QED
      BY <1>a, <2>3, <3>1, ClosedIs DEF F
  <2> HIDE DEF C
  <2>6. ASSUME ~mode.wide PROVE Books(C.sums, C.residual)
    <3> DEFINE F == {rnd}
    <3>1. F \subseteq Keys /\ Closing(sums, residual, C.sums, C.residual, F) /\ Books(sums, residual)
      BY <2>5, <2>6, <1>c
    <3> HIDE DEF F
    <3> QED
      BY <1>a, <2>5, <3>1, BooksStay
  <2>7. CarriedIn(C.residual, Up) = CarriedIn(residual, Up)
    BY <2>5, UpIs
  <2>8. ~mode.wide => /\ \A q \in Adding : RankBook(q, adder'[q])
                      /\ NearBook(near', CarriedIn(residual', Up)) /\ Books(sums', residual')
    BY <1>0, <1>c, <2>1, <2>6, <2>7
  <2>9. SumsFact(sums') /\ CarryFact(residual')
    BY <2>1, <2>5
  <2> QED
    BY <1>0, <1>b, <2>8, <2>9, ReduceKept
<1> QED
  BY <1>1, <1>2

LEMMA NearSame ==
    ASSUME NEW N, NEW c, NearBook(N, c), NEW N2, Asked(N2) = Asked(N), \A t \in Asked(N) : N2[t] = N[t]
    PROVE  NearBook(N2, c)
<1> SUFFICES ASSUME NEW i \in Elems
             PROVE  SumFunctionOnSet([t \in Asked(N2) |-> N2[t].out[i]], Asked(N2)) + c[i]
                      = SumFunctionOnSet([t \in Asked(N2) |-> MeanOf(N2[t])[i]], Asked(N2))
  BY DEF NearBook
<1>1. /\ [t \in Asked(N2) |-> N2[t].out[i]] = [t \in Asked(N) |-> N[t].out[i]]
      /\ [t \in Asked(N2) |-> MeanOf(N2[t])[i]] = [t \in Asked(N) |-> MeanOf(N[t])[i]]
  OBVIOUS
<1> QED
  BY <1>1 DEF NearBook

\* A round of a shared machine that changes before it is asked.
LEMMA NearChanged ==
    ASSUME ReduceShape, NEW t \in 1..AddSteps, NEW x \in NearRec, x.at # "asked",
           t \in DOMAIN near => near[t].at # "asked", NEW N,
           N = Overlay([s \in {t} |-> x], near) \/ (t \in DOMAIN near /\ N = [near EXCEPT ![t] = x])
    PROVE  NearFact(N) /\ \A c : NearBook(near, c) => NearBook(N, c)
<1>1. NearFact(near)
  BY DEF ReduceShape
<1>2. DOMAIN N = DOMAIN near \cup {t} /\ N[t] = x /\ \A s \in DOMAIN near \ {t} : N[s] = near[s]
  BY DEF Overlay
<1>3. NearFact(N)
  BY <1>1, <1>2 DEF NearFact
<1>4. Asked(N) = Asked(near) /\ \A s \in Asked(near) : N[s] = near[s]
  BY <1>2 DEF Asked
<1> QED
  BY <1>3, <1>4, NearSame

LEMMA NearRoundIs ==
    ASSUME ReduceShape, NEW t
    PROVE  NearRound(t) \in NearRec /\ (t \in DOMAIN near => NearRound(t) = near[t])
<1>1. [sum |-> Zero, weight |-> 0, members |-> {}, out |-> <<>>, at |-> "open"] \in NearRec
  BY ElemsAre DEF NearRec
<1> QED
  BY <1>1 DEF NearRound, ReduceShape, NearFact

\* The round of a shared machine with one more contribution.
NearJoined(lr, load, w, r, at) ==
    [[AddTo(lr, Elems, load, SampleWeight(w)) EXCEPT !.members = @ \cup {r}] EXCEPT !.at = at]

LEMMA NearAddIs ==
    ASSUME NEW lr \in NearRec, NEW load \in Vec, NEW w \in Int, NEW r \in Adding, NEW at \in {"open", "sent"}, NEW x,
           x = NearJoined(lr, load, w, r, at)
    PROVE  x \in NearRec /\ x.at = at
<1>1. SampleWeight(w) \in Nat
  BY DEF SampleWeight
<1> DEFINE v == SampleWeight(w)
           s == [i \in Elems |-> IF i \in Elems THEN lr.sum[i] + load[i] * v ELSE lr.sum[i]]
           n == lr.weight + v
           m == lr.members \cup {r}
           o == lr.out
<1>2. x = [sum |-> s, weight |-> n, members |-> m, out |-> o, at |-> at]
  BY DEF NearJoined, AddTo, NearRec
<1>3. lr.sum \in Vec /\ lr.weight \in Nat /\ v \in Nat
  BY <1>1 DEF NearRec
<1> HIDE DEF v
<1>4. n \in Nat /\ m \in SUBSET Adding /\ o \in {<<>>} \cup Vec
  BY <1>3 DEF NearRec
<1>5. s \in Vec
  <2>1. ASSUME NEW i \in Elems PROVE lr.sum[i] + load[i] * v \in Int
    <3> DEFINE a == lr.sum[i]
               b == load[i]
    <3>1. a \in Int /\ b \in Int /\ v \in Int
      BY <1>3 DEF Vec
    <3> HIDE DEF a, b
    <3>2. a + b * v \in Int
      BY <3>1
    <3> QED
      BY <3>2 DEF a, b
  <2> QED
    BY <2>1 DEF Vec
<1> HIDE DEF s, n, m, o
<1> QED
  BY <1>2, <1>4, <1>5 DEF NearRec

LEMMA SendNearBooks ==
    ASSUME ReduceShape, ReduceBooks, NEW r \in Adding, SendNear(r)
    PROVE  ReduceShape' /\ ReduceBooks'
<1> DEFINE t == adder[r].t + 1
           p == Packed(r, t)
           lr == NearRound(t)
           a == Stepped(r, t, p)
           new == [AddTo(lr, Elems, p.load, SampleWeight(Wire(r, t))) EXCEPT !.members = @ \cup {r}]
           at == IF new.members = Near THEN "sent" ELSE "open"
           x == [new EXCEPT !.at = at]
<1>1. adder[r] \in RankRec /\ adder[r].t \in Nat /\ mode.wide \in BOOLEAN /\ lost \subseteq Adding /\ SumsFact(sums) /\ CarryFact(residual)
  BY DEF ReduceShape, RankTies, RankRec, Sane
<1>2. /\ adder' = [adder EXCEPT ![r] = a] /\ adder[r].t < AddSteps
      /\ near' = IF lr.at # "open" THEN near ELSE Overlay([s \in {t} |-> x], near)
      /\ UNCHANGED <<mode, delta, pads, sums, residual, lost, ended>>
  BY DEF SendNear, Steps
<1>3. t \in 1..AddSteps
  BY <1>1, <1>2, ReduceAssumption
<1>5. RankTies(a) /\ p.load \in Vec /\ (~mode.wide => RankBook(r, a))
  <2> HIDE DEF t
  <2>1. t = adder[r].t + 1 /\ t <= AddSteps /\ {} \in SUBSET Adding
    BY <1>1, <1>2, ReduceAssumption DEF t
  <2> QED
    BY <1>3, <2>1, SteppedIs
<1>6. Wire(r, t) \in Int
  <2>1. BatchOf(r, t).n \in Nat
    BY <1>3, BatchIs
  <2> QED
    BY <2>1 DEF Wire
<1> HIDE DEF a, p, t
<1>7. lr \in NearRec /\ (t \in DOMAIN near => lr = near[t])
  BY NearRoundIs
<1>8. NearFact(near') /\ \A c : NearBook(near, c) => NearBook(near', c)
  <2>1. CASE lr.at # "open"
    BY <1>2, <2>1 DEF ReduceShape
  <2>2. CASE lr.at = "open"
    <3> DEFINE w == Wire(r, t)
               load == p.load
    <3>0. at \in {"open", "sent"}
      OBVIOUS
    <3>a. x = NearJoined(lr, load, w, r, at)
      BY DEF NearJoined
    <3>b. load \in Vec /\ w \in Int
      BY <1>5, <1>6
    <3> HIDE DEF w, load, lr, at, x
    <3>1. x \in NearRec /\ x.at = at
      BY <1>7, <3>0, <3>a, <3>b, NearAddIs
    <3>2. x.at # "asked" /\ (t \in DOMAIN near => near[t].at # "asked")
      BY <1>7, <2>2, <3>0, <3>1
    <3>3. near' = Overlay([s \in {t} |-> x], near)
      BY <1>2, <2>2 DEF x
    <3> QED
      BY <1>3, <3>1, <3>2, <3>3, NearChanged
  <2> QED
    BY <2>1, <2>2
<1> HIDE DEF lr, new, at, x
<1>9. DOMAIN adder' = Adding /\ adder'[r] = a /\ \A q \in Adding \ {r} : adder'[q] = adder[q]
  BY <1>2 DEF ReduceShape
<1>10. \A q \in Adding : RankTies(adder'[q])
  BY <1>5, <1>9 DEF ReduceShape
<1>11. ASSUME ~mode.wide
       PROVE  /\ \A q \in Adding : RankBook(q, adder'[q])
              /\ NearBook(near', CarriedIn(residual', Up)) /\ Books(sums', residual')
  BY <1>2, <1>5, <1>8, <1>9, <1>11 DEF ReduceBooks
<1>12. SumsFact(sums') /\ CarryFact(residual') /\ lost' \subseteq Adding
  BY <1>1, <1>2
<1> QED
  BY <1>1, <1>2, <1>8, <1>9, <1>10, <1>11, <1>12, ReduceKept

LEMMA NearShortBooks ==
    ASSUME ReduceShape, ReduceBooks, NEW t \in 1..AddSteps, NearShort(t)
    PROVE  ReduceShape' /\ ReduceBooks'
<1> DEFINE x == [near[t] EXCEPT !.at = "sent"]
<1>1. /\ t \in DOMAIN near /\ near[t].at = "open" /\ near' = [near EXCEPT ![t] = x]
      /\ UNCHANGED <<mode, delta, pads, adder, sums, residual, lost>>
  BY DEF NearShort
<1>2. x \in NearRec /\ x.at # "asked"
  BY <1>1 DEF ReduceShape, NearFact, NearRec
<1> HIDE DEF x
<1>3. NearFact(near') /\ \A c : NearBook(near, c) => NearBook(near', c)
  BY <1>1, <1>2, NearChanged
<1>4. /\ mode.wide \in BOOLEAN /\ lost' \subseteq Adding /\ DOMAIN adder' = Adding
      /\ SumsFact(sums') /\ CarryFact(residual') /\ \A q \in Adding : RankTies(adder'[q])
  BY <1>1 DEF ReduceShape, Sane
<1>5. ~mode.wide => /\ \A q \in Adding : RankBook(q, adder'[q])
                    /\ NearBook(near', CarriedIn(residual', Up)) /\ Books(sums', residual')
  BY <1>1, <1>3 DEF ReduceBooks
<1> QED
  BY <1>1, <1>3, <1>4, <1>5, ReduceKept

LEMMA ForwardBooks ==
    ASSUME ReduceShape, ReduceBooks, NEW t \in 1..AddSteps, Forward(t)
    PROVE  ReduceShape' /\ ReduceBooks'
<1> DEFINE lr == near[t]
           m  == MeanOf(lr)
           c  == CarriedIn(residual, Up)
           q  == IF mode.wide THEN [out |-> m, left |-> Zero] ELSE Int8(Plus(m, c))
           keys == {<<0, t, 0>>}
           C  == Contributed(keys, lr.members, q.out, SamplesOf(lr))
           x  == [near[t] EXCEPT !.at = "asked", !.out = q.out]
<1>1. Carried(<<Min(Near), "up", 0>>) = c
  BY UpIs DEF Up
<1>2. /\ t \in DOMAIN near /\ lr.at = "sent"
      /\ near' = [near EXCEPT ![t] = x] /\ sums' = C.sums
      /\ residual' = IF mode.wide THEN residual ELSE Overlay([rk \in {Up} |-> q.left], C.residual)
      /\ UNCHANGED <<mode, delta, pads, adder, lost>>
  <2>1. Forward(t) <=>
           /\ ~ended /\ t \in DOMAIN near /\ lr.at = "sent"
           /\ near' = [near EXCEPT ![t].at = "asked", ![t].out = q.out] /\ sums' = C.sums
           /\ residual' = IF mode.wide THEN residual ELSE Overlay([rk \in {Up} |-> q.left], C.residual)
           /\ UNCHANGED <<mode, delta, pads, adder, lost, ended>>
    BY <1>1 DEF Forward, Up
  <2>2. near' = [near EXCEPT ![t] = x]
    <3> DEFINE out == q.out
    <3>1. near' = [near EXCEPT ![t].at = "asked", ![t].out = out] /\ t \in DOMAIN near
      BY <2>1
    <3> HIDE DEF out
    <3>2. near' = [near EXCEPT ![t] = [near[t] EXCEPT !.at = "asked", !.out = out]]
      BY <3>1
    <3> QED
      BY <3>2 DEF out
  <2> HIDE DEF q, C, x
  <2> QED
    BY <2>1, <2>2
<1>3. lr \in NearRec /\ NearFact(near) /\ Sane /\ mode.wide \in BOOLEAN
  BY <1>2 DEF ReduceShape, NearFact, Sane
<1>4. lr.sum \in Vec /\ lr.weight \in Nat /\ lr.members \in SUBSET Adding
  BY <1>3 DEF NearRec
<1>5. m \in Vec
  BY <1>4, MeanIs
<1>6. c \in Vec /\ Zero \in Vec
  BY <1>3, ElemsAre DEF CarriedIn, Sane, CarryFact
<1> HIDE DEF m, c
<1>7. Plus(m, c) \in Vec /\ \A i \in Elems : Plus(m, c)[i] = m[i] + c[i]
  BY <1>5, <1>6 DEF Plus, Vec
<1>8. q.out \in Vec /\ q.left \in Vec /\ (~mode.wide => \A i \in Elems : q.out[i] + q.left[i] = m[i] + c[i])
  <2>1. CASE mode.wide
    BY <1>5, <1>6, <2>1
  <2>2. CASE ~mode.wide
    BY <1>7, <2>2, Int8Is
  <2> QED
    BY <2>1, <2>2
<1>9. SamplesOf(lr) \in Int
  BY <1>4 DEF SamplesOf
<1>10. OnePerShard(keys)
  BY ElemsAre DEF OnePerShard, Keys
<1> DEFINE F == Full(keys, lr.members)
<1>11. Contributes(C, keys, lr.members, q.out, SamplesOf(lr))
  <2> DEFINE who == lr.members
             load == q.out
             w == SamplesOf(lr)
  <2>1. who \in SUBSET Adding /\ load \in Vec /\ w \in Int
    BY <1>4, <1>8, <1>9
  <2> HIDE DEF who, load, w, keys
  <2>2. Contributes(Contributed(keys, who, load, w), keys, who, load, w)
    BY <1>3, <1>10, <2>1, ContributedIs
  <2> QED
    BY <2>2 DEF who, load, w
<1> HIDE DEF q, C
<1>12. /\ SumsFact(C.sums) /\ CarryFact(C.residual)
       /\ ~mode.wide => Closing(sums, residual, C.sums, C.residual, F)
  BY <1>11 DEF Contributes
<1>13. F \subseteq Keys
  BY <1>10 DEF OnePerShard, Full, Open
<1> HIDE DEF F, keys
<1>14. CarryFact(residual')
  <2>1. CASE mode.wide
    BY <1>2, <1>3, <2>1 DEF Sane
  <2>2. CASE ~mode.wide
    BY <1>2, <1>8, <1>12, <2>2 DEF Overlay, CarryFact
  <2> QED
    BY <2>1, <2>2
<1>15. ASSUME ~mode.wide
       PROVE  CarriedIn(residual', Up) = q.left /\ \A rk : rk # Up => CarriedIn(residual', rk) = CarriedIn(C.residual, rk)
  <2>1. residual' = Overlay([rk \in {Up} |-> q.left], C.residual)
    BY <1>2, <1>15
  <2> QED
    BY <2>1 DEF Overlay, CarriedIn
<1>16. ASSUME ~mode.wide PROVE Books(sums', residual')
  <2>1. Closing(sums, residual, C.sums, C.residual, F)
    BY <1>12, <1>16
  <2>2. \A d, k \in Adding : \A kind \in Kinds : <<d, kind, k>> # Up
    BY UpIs
  <2>3. \A rnd \in F : RoundingOf(rnd) # Up
    BY ElemsAre, UpIs DEF RoundingOf, ResidualOf
  <2>4. Closing(sums, residual, C.sums, residual', F)
    BY <1>15, <1>16, <2>1, <2>2, <2>3 DEF Closing, RoundingOf
  <2> DEFINE R2 == residual'
  <2>5. Closing(sums, residual, C.sums, R2, F) /\ CarryFact(R2) /\ SumsFact(sums) /\ CarryFact(residual) /\ Books(sums, residual)
    BY <1>3, <1>14, <1>16, <2>4 DEF Sane, ReduceBooks
  <2> HIDE DEF R2
  <2>6. Books(C.sums, R2)
    BY <1>12, <1>13, <2>5, BooksStay
  <2> QED
    BY <1>2, <2>6 DEF R2
<1>17. x \in NearRec /\ x.out = q.out /\ x.at = "asked" /\ x.out \in Vec /\ x.sum = lr.sum /\ x.weight = lr.weight
  BY <1>3, <1>8 DEF NearRec
<1>18. DOMAIN near' = DOMAIN near /\ near'[t] = x /\ \A s \in DOMAIN near \ {t} : near'[s] = near[s]
  BY <1>2
<1> HIDE DEF x
<1>19. NearFact(near')
  BY <1>3, <1>17, <1>18 DEF NearFact
<1>20. ASSUME ~mode.wide PROVE NearBook(near', CarriedIn(residual', Up))
  <2> SUFFICES ASSUME NEW i \in Elems
               PROVE  SumFunctionOnSet([s \in Asked(near') |-> near'[s].out[i]], Asked(near')) + q.left[i]
                        = SumFunctionOnSet([s \in Asked(near') |-> MeanOf(near'[s])[i]], Asked(near'))
    BY <1>15, <1>20 DEF NearBook
  <2> DEFINE D == Asked(near)
             f == [s \in D |-> near[s].out[i]]
             g == [s \in D |-> MeanOf(near[s])[i]]
             f2 == [s \in Asked(near') |-> near'[s].out[i]]
             g2 == [s \in Asked(near') |-> MeanOf(near'[s])[i]]
  <2>1. SumFunctionOnSet(f, D) + c[i] = SumFunctionOnSet(g, D)
    BY <1>20 DEF ReduceBooks, NearBook, c
  <2>2. IsFiniteSet(D) /\ D \subseteq DOMAIN near /\ t \notin D /\ Asked(near') = D \cup {t} /\ \A s \in D : s # t
    <3>1. IsFiniteSet(1..AddSteps)
      BY ReduceAssumption, FS_Interval
    <3>2. D \subseteq 1..AddSteps
      BY <1>3 DEF NearFact, Asked
    <3> QED
      BY <1>2, <1>17, <1>18, <3>1, <3>2, FS_Subset DEF Asked
  <2>3. ASSUME NEW s \in D PROVE f[s] \in Int /\ g[s] \in Int /\ f2[s] = f[s] /\ g2[s] = g[s]
    <3>1. near[s] \in NearRec /\ near[s].out \in Vec /\ near'[s] = near[s] /\ s \in Asked(near')
      BY <1>3, <1>18, <2>2 DEF NearFact, Asked
    <3>2. near[s].sum \in Vec /\ near[s].weight \in Nat
      BY <3>1 DEF NearRec
    <3>3. MeanOf(near[s]) \in Vec
      BY <3>2, MeanIs
    <3> QED
      BY <3>1, <3>3 DEF Vec
  <2>4. MeanOf(x) = m
    BY <1>17 DEF MeanOf, m
  <2>5. f2[t] = q.out[i] /\ g2[t] = m[i] /\ q.out[i] \in Int /\ m[i] \in Int /\ c[i] \in Int /\ q.left[i] \in Int
    BY <1>5, <1>6, <1>8, <1>17, <1>18, <2>2, <2>4 DEF Vec
  <2> DEFINE sf == SumFunctionOnSet(f, D)
             sg == SumFunctionOnSet(g, D)
  <2>6. SumFunctionOnSet(f2, D \cup {t}) = f2[t] + sf /\ sf \in Int
    <3>1. IsFiniteSet(D) /\ t \notin D /\ f2[t] \in Int /\ \A s \in D : f[s] \in Int /\ f2[s] = f[s]
      BY <2>2, <2>3, <2>5
    <3> HIDE DEF D, f, f2
    <3> QED
      BY <3>1, SumGrows
  <2>7. SumFunctionOnSet(g2, D \cup {t}) = g2[t] + sg /\ sg \in Int
    <3>1. IsFiniteSet(D) /\ t \notin D /\ g2[t] \in Int /\ \A s \in D : g[s] \in Int /\ g2[s] = g[s]
      BY <2>2, <2>3, <2>5
    <3> HIDE DEF D, g, g2
    <3> QED
      BY <3>1, SumGrows
  <2> DEFINE u == q.out[i]
             v == m[i]
             k == c[i]
             l == q.left[i]
  <2>8. u + l = v + k /\ sf + k = sg /\ u \in Int /\ v \in Int /\ k \in Int /\ l \in Int /\ sf \in Int /\ sg \in Int
    BY <1>8, <1>20, <2>1, <2>5, <2>6, <2>7
  <2>9. SumFunctionOnSet(f2, D \cup {t}) = u + sf /\ SumFunctionOnSet(g2, D \cup {t}) = v + sg
    BY <2>5, <2>6, <2>7
  <2>10. (u + sf) + l = v + sg
    <3> HIDE DEF u, v, k, l, sf, sg
    <3> QED
      BY <2>8, Balance
  <2> HIDE DEF D
  <2> QED
    BY <2>2, <2>9, <2>10
<1>21. /\ lost' \subseteq Adding /\ DOMAIN adder' = Adding /\ SumsFact(sums')
       /\ \A r \in Adding : RankTies(adder'[r])
  BY <1>2, <1>12 DEF ReduceShape
<1>22. ~mode.wide => \A r \in Adding : RankBook(r, adder'[r])
  BY <1>2 DEF ReduceBooks
<1> QED
  BY <1>2, <1>3, <1>14, <1>16, <1>19, <1>20, <1>21, <1>22, ReduceKept

LEMMA NoSumIs == \A f : SumFunctionOnSet([x \in {} |-> f[x]], {}) = 0
<1> TAKE f
<1> DEFINE g == [x \in {} |-> f[x]]
           D == {}
<1>1. IsFiniteSet(D) /\ \A x \in D : g[x] \in Int
  BY FS_EmptySet
<1> HIDE DEF g, D
<1>2. SumFunctionOnSet(g, {}) = 0
  BY <1>1, IntSumOne
<1> QED
  BY <1>2 DEF g

LEMMA ReduceStarts ==
    ASSUME mode.wide \in BOOLEAN, ReduceFresh
    PROVE  ReduceShape /\ ReduceBooks
<1>0. DOMAIN <<>> = {} /\ lost = {} /\ sums = <<>> /\ near = <<>> /\ residual = <<>>
  BY DEF ReduceFresh
<1>1. SumsFact(sums) /\ CarryFact(residual) /\ NearFact(near)
  BY <1>0 DEF SumsFact, CarryFact, NearFact
<1>2. /\ DOMAIN adder = Adding
      /\ \A r \in Adding : adder[r] = [t |-> 0, load |-> <<>>, carry |-> Zero, wait |-> {}, dead |-> {}, got |-> Zero, applied |-> <<>>]
  BY DEF ReduceFresh
<1>3. ASSUME NEW r \in Adding PROVE RankTies(adder[r])
  <2>1. <<>> \in Seq(Vec) /\ Len(<<>>) = 0 /\ 0 <= AddSteps /\ Zero \in Vec
    BY ElemsAre, ReduceAssumption
  <2> DEFINE a == adder[r]
  <2>2. a = [t |-> 0, load |-> <<>>, carry |-> Zero, wait |-> {}, dead |-> {}, got |-> Zero, applied |-> <<>>]
    BY <1>2
  <2> HIDE DEF a
  <2>3. a \in RankRec
    BY <2>1, <2>2 DEF RankRec
  <2>4. RankTies(a)
    BY <2>1, <2>2, <2>3 DEF RankTies
  <2> QED
    BY <2>4 DEF a
<1>4. ReduceShape
  BY <1>0, <1>1, <1>2, <1>3 DEF ReduceShape, Sane
<1>5. ASSUME NEW r \in Adding PROVE RankBook(r, adder[r])
  <2>1. adder[r].t = 0 /\ adder[r].carry = Zero
    BY <1>2
  <2>2. Real(r, adder[r].t) = {}
    BY <2>1 DEF Real
  <2> SUFFICES ASSUME NEW i \in Elems
               PROVE  SumFunctionOnSet([t \in {} |-> adder[r].load[t][i]], {}) + Zero[i]
                        = SumFunctionOnSet([t \in {} |-> BatchOf(r, t).g[i]], {})
    BY <2>1, <2>2 DEF RankBook
  <2>3. [t \in {} |-> adder[r].load[t][i]] = [t \in {} |-> <<>>[t]] /\ [t \in {} |-> BatchOf(r, t).g[i]] = [t \in {} |-> <<>>[t]]
    OBVIOUS
  <2>4. SumFunctionOnSet([t \in {} |-> <<>>[t]], {}) = 0 /\ Zero[i] = 0
    BY NoSumIs, ElemsAre
  <2> QED
    BY <2>3, <2>4
<1>6. ASSUME NEW rk, NEW i \in Elems PROVE CarriedIn(residual, rk)[i] = 0
  BY <1>0, ElemsAre DEF CarriedIn
<1>7. NearBook(near, CarriedIn(residual, Up))
  <2>1. Asked(near) = {}
    BY <1>0 DEF Asked
  <2> SUFFICES ASSUME NEW i \in Elems
               PROVE  SumFunctionOnSet([t \in {} |-> near[t].out[i]], {}) + 0 = SumFunctionOnSet([t \in {} |-> MeanOf(near[t])[i]], {})
    BY <1>6, <2>1 DEF NearBook
  <2>3. [t \in {} |-> near[t].out[i]] = [t \in {} |-> <<>>[t]] /\ [t \in {} |-> MeanOf(near[t])[i]] = [t \in {} |-> <<>>[t]]
    OBVIOUS
  <2>4. SumFunctionOnSet([t \in {} |-> <<>>[t]], {}) = 0
    BY NoSumIs
  <2> QED
    BY <2>3, <2>4
<1>8. Books(sums, residual)
  <2> SUFFICES ASSUME NEW d \in Adding, NEW k \in Adding, NEW kind \in Kinds, NEW i \in CoverOf(kind, k)
               PROVE  OutOf(sums, Group(sums, d, kind, k), i) + CarriedIn(residual, <<d, kind, k>>)[i] = MeansOf(sums, Group(sums, d, kind, k), i)
    BY DEF Books
  <2>1. Group(sums, d, kind, k) = {} /\ i \in Elems
    BY <1>0, ElemsAre DEF Group
  <2>2. OutOf(sums, {}, i) = 0 /\ MeansOf(sums, {}, i) = 0
    <3>1. [s \in {} |-> sums[s].out[i]] = [t \in {} |-> <<>>[t]] /\ [s \in {} |-> MeanOf(sums[s])[i]] = [t \in {} |-> <<>>[t]]
      OBVIOUS
    <3>2. SumFunctionOnSet([t \in {} |-> <<>>[t]], {}) = 0
      BY NoSumIs
    <3> QED
      BY <3>1, <3>2 DEF OutOf, MeansOf
  <2> QED
    BY <1>6, <2>1, <2>2
<1> QED
  BY <1>4, <1>5, <1>7, <1>8 DEF ReduceBooks

LEMMA ReduceKeeps ==
    ASSUME ReduceShape, ReduceBooks, [ReduceNext]_reduceVars
    PROVE  ReduceShape' /\ ReduceBooks'
<1>1. ASSUME UNCHANGED reduceVars PROVE ReduceShape' /\ ReduceBooks'
  <2>1. UNCHANGED <<mode, delta, pads, adder, sums, near, residual, lost>>
    BY <1>1 DEF reduceVars
  <2>2. /\ mode.wide \in BOOLEAN /\ lost' \subseteq Adding /\ DOMAIN adder' = Adding
        /\ NearFact(near') /\ SumsFact(sums') /\ CarryFact(residual')
        /\ \A q \in Adding : RankTies(adder'[q])
    BY <2>1 DEF ReduceShape, Sane
  <2>3. ~mode.wide => /\ \A q \in Adding : RankBook(q, adder'[q])
                      /\ NearBook(near', CarriedIn(residual', Up)) /\ Books(sums', residual')
    BY <2>1 DEF ReduceBooks
  <2> QED
    BY <2>1, <2>2, <2>3, ReduceKept
<1>2. ASSUME ReduceNext PROVE ReduceShape' /\ ReduceBooks'
  <2>1. CASE \E r \in Adding : Send(r) \/ TakeMeans(r) \/ SendNear(r) \/ TakeNear(r) \/ LoseMachine(r)
    BY <2>1, SendBooks, TakeMeansBooks, SendNearBooks, TakeNearBooks, LoseMachineBooks
  <2>2. CASE \E r, k \in Adding : ShardLost(r, k)
    BY <2>2, ShardLostBooks
  <2>3. CASE \E rnd \in Keys : CloseShort(rnd)
    BY <2>3, CloseShortBooks
  <2>4. CASE \E t \in 1..AddSteps : NearShort(t) \/ Forward(t)
    BY <2>4, NearShortBooks, ForwardBooks
  <2>5. CASE ReduceOver
    BY <1>1, <2>5 DEF ReduceOver
  <2> QED
    BY <1>2, <2>1, <2>2, <2>3, <2>4, <2>5 DEF ReduceNext
<1> QED
  BY <1>1, <1>2

LEMMA BooksTell ==
    ASSUME ReduceShape, ReduceBooks
    PROVE  NothingLost
<1> SUFFICES ASSUME ~mode.wide PROVE NothingLost
  BY DEF NothingLost
<1> DEFINE real(r) == {t \in DOMAIN adder[r].load : BatchOf(r, t).n > 0}
           ts == {t \in DOMAIN near : near[t].at = "asked"}
           ks(rnd) == {other \in DOMAIN sums : /\ Answered(other) /\ Kind(other[2]) = Kind(rnd[2])
                                               /\ other[1] = rnd[1] /\ other[3] = rnd[3]}
<1>1. ASSUME NEW r \in Adding, NEW i \in Elems
      PROVE  SumFunctionOnSet([t \in real(r) |-> adder[r].load[t][i]], real(r)) + adder[r].carry[i]
               = SumFunctionOnSet([t \in real(r) |-> BatchOf(r, t).g[i]], real(r))
  <2>1. adder[r].load \in Seq(Vec) /\ Len(adder[r].load) = adder[r].t
    BY DEF ReduceShape, RankTies, RankRec
  <2>2. DOMAIN adder[r].load = 1..adder[r].t
    BY <2>1
  <2>3. real(r) = Real(r, adder[r].t)
    BY <2>2 DEF Real
  <2>4. RankBook(r, adder[r])
    BY DEF ReduceBooks
  <2> HIDE DEF real
  <2> QED
    BY <2>3, <2>4 DEF RankBook
<1>2. \A rk : Carried(rk) = CarriedIn(residual, rk)
  BY DEF Carried, CarriedIn
<1>3. ASSUME NEW i \in Elems
      PROVE  SumFunctionOnSet([t \in ts |-> near[t].out[i]], ts) + Carried(<<Min(Near), "up", 0>>)[i]
               = SumFunctionOnSet([t \in ts |-> MeanOf(near[t])[i]], ts)
  <2>1. ts = Asked(near) /\ Carried(<<Min(Near), "up", 0>>) = CarriedIn(residual, Up)
    BY <1>2 DEF Asked, Up
  <2>2. NearBook(near, CarriedIn(residual, Up))
    BY DEF ReduceBooks
  <2> HIDE DEF ts
  <2> QED
    BY <2>1, <2>2 DEF NearBook
<1>4. ASSUME NEW rnd \in DOMAIN sums, NEW i \in Covers(rnd[2], rnd[3])
      PROVE  SumFunctionOnSet([s \in ks(rnd) |-> sums[s].out[i]], ks(rnd)) + Carried(<<rnd[1], Kind(rnd[2]), rnd[3]>>)[i]
               = SumFunctionOnSet([s \in ks(rnd) |-> MeanOf(sums[s])[i]], ks(rnd))
  <2>1. rnd[1] \in Adding /\ rnd[3] \in Adding /\ Kind(rnd[2]) \in Kinds /\ i \in CoverOf(Kind(rnd[2]), rnd[3])
    BY KeysAre, ElemsAre DEF ReduceShape, Sane, SumsFact
  <2> DEFINE G == Group(sums, rnd[1], Kind(rnd[2]), rnd[3])
  <2>2. ks(rnd) = G
    BY DEF Group, Answered, Round
  <2>3. OutOf(sums, G, i) + CarriedIn(residual, <<rnd[1], Kind(rnd[2]), rnd[3]>>)[i] = MeansOf(sums, G, i)
    <3> DEFINE d == rnd[1]
               k == rnd[3]
               kind == Kind(rnd[2])
    <3>1. d \in Adding /\ k \in Adding /\ kind \in Kinds /\ i \in CoverOf(kind, k) /\ Books(sums, residual)
      BY <2>1 DEF ReduceBooks
    <3> HIDE DEF d, k, kind
    <3>2. OutOf(sums, Group(sums, d, kind, k), i) + CarriedIn(residual, <<d, kind, k>>)[i] = MeansOf(sums, Group(sums, d, kind, k), i)
      BY <3>1 DEF Books
    <3> QED
      BY <3>2 DEF d, k, kind
  <2> HIDE DEF ks, G
  <2> QED
    BY <1>2, <2>2, <2>3 DEF OutOf, MeansOf
<1> QED
  BY <1>1, <1>3, <1>4 DEF NothingLost, SumOver

\* What int8 rounds off is delayed and not lost.
THEOREM RoundingIsKept == ReduceSpec => []NothingLost
<1>1. ReduceInit => ReduceShape /\ ReduceBooks
  <2> SUFFICES ASSUME ReduceInit PROVE ReduceShape /\ ReduceBooks
    OBVIOUS
  <2>1. mode.wide \in BOOLEAN /\ ReduceFresh
    BY DEF ReduceInit
  <2> QED
    BY <2>1, ReduceStarts
<1>2. ReduceShape /\ ReduceBooks /\ [ReduceNext]_reduceVars => ReduceShape' /\ ReduceBooks'
  BY ReduceKeeps
<1>3. ReduceShape /\ ReduceBooks => NothingLost
  BY BooksTell
<1> QED
  BY <1>1, <1>2, <1>3, PTL DEF ReduceSpec

\* The samples rank r counts for at step t, and what a set of ranks adds up to.
Counts(r, t) == IF mode.says THEN BatchOf(r, t).n ELSE 1
Samples(S, t) == SumFunctionOnSet([r \in S |-> Counts(r, t)], S)
Gradient(S, t, i) == SumFunctionOnSet([r \in S |-> Counts(r, t) * BatchOf(r, t).g[i]], S)

Tally(S, t, cover, sum, weight) ==
    /\ weight = Samples(S, t)
    /\ \A i \in cover : sum[i] = Gradient(S, t, i)

LEMMA CountsAre ==
    ASSUME NEW r \in Adding, NEW t \in Nat
    PROVE  /\ Counts(r, t) \in Nat /\ Counts(r, t) <= 2
           /\ \A i \in Elems : BatchOf(r, t).g[i] \in Int /\ Counts(r, t) * BatchOf(r, t).g[i] \in Int
           /\ SampleWeight(Wire(r, t)) = Counts(r, t)
<1>1. BatchOf(r, t).n \in Nat /\ BatchOf(r, t).g \in Vec
  BY BatchIs
<1>2. BatchOf(r, t).n <= 2
  <2>1. BatchOf(r, t).n = IF t = AddSteps /\ r \in pads THEN 0 ELSE 1 + (r % 2)
    BY DEF BatchOf
  <2>2. r \in Nat
    BY ElemsAre
  <2>3. r % 2 <= 1
    BY <2>2
  <2> QED
    BY <2>1, <2>2, <2>3
<1>3. Counts(r, t) \in Nat /\ Counts(r, t) <= 2
  BY <1>1, <1>2 DEF Counts
<1>4. ASSUME NEW i \in Elems PROVE BatchOf(r, t).g[i] \in Int /\ Counts(r, t) * BatchOf(r, t).g[i] \in Int
  <2> DEFINE c == Counts(r, t)
             x == BatchOf(r, t).g[i]
  <2>1. c \in Int /\ x \in Int
    BY <1>1, <1>3 DEF Vec
  <2> HIDE DEF c, x
  <2>2. c * x \in Int
    BY <2>1
  <2> QED
    BY <2>1, <2>2 DEF c, x
<1>5. SampleWeight(Wire(r, t)) = Counts(r, t)
  <2> DEFINE n == BatchOf(r, t).n
  <2>1. n \in Nat
    BY <1>1
  <2>2. Wire(r, t) = IF ~mode.says THEN 0 ELSE IF n = 0 THEN -1 ELSE n
    BY DEF Wire
  <2>3. Counts(r, t) = IF mode.says THEN n ELSE 1
    BY DEF Counts
  <2> HIDE DEF n
  <2> QED
    BY <2>1, <2>2, <2>3 DEF SampleWeight
<1> QED
  BY <1>3, <1>4, <1>5

\* The sums over two sets of ranks that share none.
LEMMA SamplesUnion ==
    ASSUME NEW S \in SUBSET Adding, NEW T \in SUBSET Adding, S \cap T = {}, NEW t \in Nat, NEW i \in Elems
    PROVE  /\ Samples(S \cup T, t) = Samples(S, t) + Samples(T, t)
           /\ Gradient(S \cup T, t, i) = Gradient(S, t, i) + Gradient(T, t, i)
           /\ Samples(S, t) \in Nat /\ Gradient(S, t, i) \in Int
<1> DEFINE n(D) == [r \in D |-> Counts(r, t)]
           g(D) == [r \in D |-> Counts(r, t) * BatchOf(r, t).g[i]]
           D == S \cup T
<1>1. IsFiniteSet(Adding) /\ IsFiniteSet(D) /\ D \subseteq Adding /\ IsFiniteSet(S) /\ IsFiniteSet(T) /\ S \in SUBSET D /\ T \in SUBSET D
  <2>1. IsFiniteSet(Adding)
    BY ElemsAre
  <2> QED
    BY <2>1, FS_Subset
<1>2. \A r \in Adding : Counts(r, t) \in Nat /\ Counts(r, t) * BatchOf(r, t).g[i] \in Int
  BY CountsAre
<1>3. ASSUME NEW f, \A r \in D : f[r] \in Int
      PROVE  SumFunctionOnSet(f, D) = SumFunctionOnSet(f, S) + SumFunctionOnSet(f, T)
  <2>1. S \cup T = D
    OBVIOUS
  <2> HIDE DEF D
  <2>2. SumFunctionOnSet(f, S \cup T) = SumFunctionOnSet(f, S) + SumFunctionOnSet(f, T)
    BY <1>1, <1>3, IntSumUnion
  <2> QED
    BY <2>1, <2>2
<1>4. ASSUME NEW f, NEW U, IsFiniteSet(U), NEW h, \A r \in U : f[r] \in Int /\ h[r] = f[r]
      PROVE  SumFunctionOnSet(h, U) = SumFunctionOnSet(f, U)
  BY <1>4, IntSumSame
<1>5. Samples(S \cup T, t) = Samples(S, t) + Samples(T, t)
  <2> DEFINE f == n(D)
             fs == n(S)
             ft == n(T)
  <2>1. /\ \A r \in D : f[r] \in Int
        /\ \A r \in S : f[r] \in Int /\ fs[r] = f[r]
        /\ \A r \in T : f[r] \in Int /\ ft[r] = f[r]
    BY <1>1, <1>2
  <2>2. Samples(D, t) = SumFunctionOnSet(f, D) /\ Samples(S, t) = SumFunctionOnSet(fs, S) /\ Samples(T, t) = SumFunctionOnSet(ft, T)
    BY DEF Samples
  <2> HIDE DEF f, fs, ft, n, g
  <2>3. SumFunctionOnSet(f, D) = SumFunctionOnSet(f, S) + SumFunctionOnSet(f, T)
    BY <1>3, <2>1
  <2>4. SumFunctionOnSet(fs, S) = SumFunctionOnSet(f, S) /\ SumFunctionOnSet(ft, T) = SumFunctionOnSet(f, T)
    BY <1>1, <1>4, <2>1
  <2> QED
    BY <2>2, <2>3, <2>4
<1>6. Gradient(S \cup T, t, i) = Gradient(S, t, i) + Gradient(T, t, i)
  <2> DEFINE f == g(D)
             fs == g(S)
             ft == g(T)
  <2>1. /\ \A r \in D : f[r] \in Int
        /\ \A r \in S : f[r] \in Int /\ fs[r] = f[r]
        /\ \A r \in T : f[r] \in Int /\ ft[r] = f[r]
    BY <1>1, <1>2
  <2>2. Gradient(D, t, i) = SumFunctionOnSet(f, D) /\ Gradient(S, t, i) = SumFunctionOnSet(fs, S) /\ Gradient(T, t, i) = SumFunctionOnSet(ft, T)
    BY DEF Gradient
  <2> HIDE DEF f, fs, ft, n, g
  <2>3. SumFunctionOnSet(f, D) = SumFunctionOnSet(f, S) + SumFunctionOnSet(f, T)
    BY <1>3, <2>1
  <2>4. SumFunctionOnSet(fs, S) = SumFunctionOnSet(f, S) /\ SumFunctionOnSet(ft, T) = SumFunctionOnSet(f, T)
    BY <1>1, <1>4, <2>1
  <2> QED
    BY <2>2, <2>3, <2>4
<1>7. Samples(S, t) \in Nat /\ Gradient(S, t, i) \in Int
  <2> DEFINE fn == n(S)
             fg == g(S)
  <2>1. (\A r \in S : fn[r] \in Nat) /\ \A r \in S : fg[r] \in Int
    BY <1>1, <1>2
  <2>2. Samples(S, t) = SumFunctionOnSet(fn, S) /\ Gradient(S, t, i) = SumFunctionOnSet(fg, S)
    BY DEF Samples, Gradient
  <2> HIDE DEF fn, fg, n, g
  <2>3. SumFunctionOnSet(fn, S) \in Nat
    BY <1>1, <2>1, SumOne
  <2>4. SumFunctionOnSet(fg, S) \in Int
    BY <1>1, <2>1, IntSumOne
  <2> QED
    BY <2>2, <2>3, <2>4
<1> QED
  BY <1>5, <1>6, <1>7

\* A division without remainder.
LEMMA ExactDiv ==
    ASSUME NEW w \in Nat, w > 0, NEW y \in Int, NEW x, x = w * y
    PROVE  x \div w = y
<1> DEFINE q == x \div w
           m == x % w
<1>1. x \in Int
  OBVIOUS
<1>2. q \in Int /\ m \in 0..(w - 1) /\ x = w * q + m
  BY <1>1
<1> HIDE DEF q, m
<1>3. w * (y - q) = m
  BY <1>1, <1>2
<1>4. ~(y - q >= 1)
  <2> SUFFICES ASSUME y - q >= 1 PROVE FALSE
    OBVIOUS
  <2>1. w * (y - q) >= w
    BY <1>2
  <2> QED
    BY <1>2, <1>3, <2>1
<1>5. ~(y - q <= -1)
  <2> SUFFICES ASSUME y - q <= -1 PROVE FALSE
    OBVIOUS
  <2>1. w * (y - q) <= -w
    BY <1>2
  <2> QED
    BY <1>2, <1>3, <2>1
<1>6. y = q
  BY <1>2, <1>4, <1>5
<1> QED
  BY <1>6 DEF q

LEMMA NoSamples ==
    ASSUME NEW t \in Nat, NEW i \in Elems
    PROVE  Samples({}, t) = 0 /\ Gradient({}, t, i) = 0
<1>1. [r \in {} |-> Counts(r, t)] = [r \in {} |-> <<>>[r]] /\ [r \in {} |-> Counts(r, t) * BatchOf(r, t).g[i]] = [r \in {} |-> <<>>[r]]
  OBVIOUS
<1>2. SumFunctionOnSet([r \in {} |-> <<>>[r]], {}) = 0
  BY NoSumIs
<1> QED
  BY <1>1, <1>2 DEF Samples, Gradient

LEMMA OneSample ==
    ASSUME NEW t \in Nat, NEW i \in Elems, NEW r \in Adding
    PROVE  Samples({r}, t) = Counts(r, t) /\ Gradient({r}, t, i) = Counts(r, t) * BatchOf(r, t).g[i]
<1> DEFINE D == {r}
           n == [q \in D |-> Counts(q, t)]
           g == [q \in D |-> Counts(q, t) * BatchOf(q, t).g[i]]
<1>1. /\ n[r] = Counts(r, t) /\ g[r] = Counts(r, t) * BatchOf(r, t).g[i]
      /\ \A q \in D : n[q] \in Int
      /\ \A q \in D : g[q] \in Int
  BY CountsAre
<1>2. Samples(D, t) = SumFunctionOnSet(n, D) /\ Gradient(D, t, i) = SumFunctionOnSet(g, D)
  BY DEF Samples, Gradient
<1>3. IsFiniteSet(D) /\ r \in D /\ D \ {r} = {}
  BY FS_Singleton
<1>4. n[r] \in Int /\ g[r] \in Int
  BY <1>1, <1>3
<1> HIDE DEF D, n, g
<1>5. SumFunctionOnSet(n, D) = n[r] + SumFunctionOnSet(n, D \ {r}) /\ SumFunctionOnSet(n, {}) = 0
  BY <1>1, <1>3, IntSumOne
<1>6. SumFunctionOnSet(g, D) = g[r] + SumFunctionOnSet(g, D \ {r}) /\ SumFunctionOnSet(g, {}) = 0
  BY <1>1, <1>3, IntSumOne
<1>7. Samples(D, t) = n[r] /\ Gradient(D, t, i) = g[r]
  BY <1>2, <1>3, <1>4, <1>5, <1>6
<1> QED
  BY <1>1, <1>7 DEF D

\* Two ranks count for four samples at most; ranks without samples add nothing.
LEMMA SamplesAre ==
    ASSUME NEW t \in Nat, NEW i \in Elems, NEW S \in SUBSET Adding
    PROVE  /\ Samples(S, t) \in Nat /\ Samples(S, t) <= 2 * Adders
           /\ Samples(S, t) = 0 => Gradient(S, t, i) = 0
<1> DEFINE Q == {T \in SUBSET S : /\ Samples(T, t) <= 2 * Cardinality(T)
                                  /\ Samples(T, t) = 0 => Gradient(T, t, i) = 0}
<1>0. IsFiniteSet(Adding) /\ Cardinality(Adding) = Adders /\ IsFiniteSet(S) /\ Cardinality(S) <= Adders /\ Cardinality(S) \in Nat
  <2>1. IsFiniteSet(Adding) /\ Cardinality(Adding) = Adders
    BY ElemsAre
  <2>2. IsFiniteSet(S) /\ Cardinality(S) <= Cardinality(Adding)
    BY <2>1, FS_Subset
  <2> QED
    BY <2>1, <2>2, FS_CardinalityType
<1>1. {} \in Q
  BY NoSamples, FS_EmptySet
<1>2. ASSUME NEW T \in SUBSET S, NEW x \in S \ T, T \in Q PROVE T \cup {x} \in Q
  <2>1. T \in SUBSET Adding /\ {x} \in SUBSET Adding /\ T \cap {x} = {} /\ x \in Adding
    OBVIOUS
  <2>2. /\ Samples(T \cup {x}, t) = Samples(T, t) + Samples({x}, t)
        /\ Gradient(T \cup {x}, t, i) = Gradient(T, t, i) + Gradient({x}, t, i)
        /\ Samples(T, t) \in Nat /\ Gradient(T, t, i) \in Int
    BY <2>1, SamplesUnion
  <2>3. Samples({x}, t) = Counts(x, t) /\ Gradient({x}, t, i) = Counts(x, t) * BatchOf(x, t).g[i]
    BY <2>1, OneSample
  <2>4. Counts(x, t) \in Nat /\ Counts(x, t) <= 2 /\ BatchOf(x, t).g[i] \in Int
    BY <2>1, CountsAre
  <2>5. IsFiniteSet(T) /\ Cardinality(T \cup {x}) = Cardinality(T) + 1 /\ Cardinality(T) \in Nat
    BY <1>0, FS_Subset, FS_AddElement, FS_CardinalityType
  <2> DEFINE s == Samples(T, t)
             c == Counts(x, t)
             b == BatchOf(x, t).g[i]
             k == Cardinality(T)
  <2>6. Samples(T \cup {x}, t) <= 2 * Cardinality(T \cup {x})
    <3>1. /\ Samples(T \cup {x}, t) = s + c /\ s \in Nat /\ c \in Nat /\ c <= 2 /\ s <= 2 * k /\ k \in Nat
          /\ Cardinality(T \cup {x}) = k + 1
      BY <1>2, <2>2, <2>3, <2>4, <2>5
    <3> HIDE DEF s, c, k
    <3>2. s + c <= 2 * (k + 1)
      BY <3>1
    <3> QED
      BY <3>1, <3>2
  <2>7. ASSUME Samples(T \cup {x}, t) = 0 PROVE Gradient(T \cup {x}, t, i) = 0
    <3>1. s = 0 /\ c = 0
      <4>1. s + c = 0 /\ s \in Nat /\ c \in Nat
        BY <2>2, <2>3, <2>4, <2>7
      <4> HIDE DEF s, c
      <4> QED
        BY <4>1
    <3>2. Gradient(T, t, i) = 0
      BY <1>2, <3>1
    <3>3. c * b = 0
      <4>1. b \in Int
        BY <2>4
      <4> HIDE DEF b, c
      <4> QED
        BY <3>1, <4>1
    <3> QED
      BY <2>2, <2>3, <3>2, <3>3
  <2> QED
    BY <2>6, <2>7
<1> HIDE DEF Q
<1>3. S \in Q
  BY <1>0, <1>1, <1>2, SubsetInduction
<1>4. Samples(S, t) \in Nat
  <2>1. {} \in SUBSET Adding /\ S \cap {} = {}
    OBVIOUS
  <2> QED
    BY <2>1, SamplesUnion
<1>5. Samples(S, t) <= 2 * Cardinality(S)
  BY <1>3 DEF Q
<1>6. Samples(S, t) <= 2 * Adders
  BY <1>0, <1>4, <1>5, ReduceAssumption
<1> QED
  BY <1>3, <1>4, <1>6 DEF Q

\* The gradients are whole multiples of the unit.
LEMMA GradientIs ==
    ASSUME NEW t \in Nat, NEW i \in Elems, NEW S \in SUBSET Adding
    PROVE  \E z \in Int : Gradient(S, t, i) = Unit * z
<1> DEFINE h(r) == IF i[2] = 0 THEN 4 - r ELSE i[1] - t
           f == [r \in S |-> Counts(r, t) * h(r)]
           g == [r \in S |-> Counts(r, t) * BatchOf(r, t).g[i]]
<1>1. Unit \in Int
  BY ReduceAssumption
<1>2. i[1] \in Int
  <2>1. i[1] \in Adding
    BY ElemsAre
  <2>2. \A x \in Adding : x \in Int
    BY ElemsAre
  <2> QED
    BY <2>1, <2>2
<1>3. ASSUME NEW r \in S PROVE f[r] \in Int /\ g[r] = Unit * f[r]
  <2> DEFINE c == Counts(r, t)
             y == h(r)
             x == i[1]
  <2>1. r \in Adding /\ r \in Int /\ c \in Int
    BY CountsAre, ElemsAre
  <2>2. y \in Int
    <3>1. x \in Int
      BY <1>2
    <3> HIDE DEF x
    <3>2. 4 - r \in Int /\ x - t \in Int
      BY <2>1, <3>1
    <3> QED
      BY <3>2 DEF x
  <2>3. BatchOf(r, t).g[i] = y * Unit
    BY DEF BatchOf
  <2> HIDE DEF c, y
  <2>4. c * (y * Unit) = Unit * (c * y) /\ c * y \in Int
    BY <1>1, <2>1, <2>2
  <2>5. f[r] = c * y /\ g[r] = c * (y * Unit)
    BY <2>3 DEF c, y
  <2> QED
    BY <2>4, <2>5
<1>4. IsFiniteSet(S)
  BY ElemsAre, FS_Subset
<1>5. Gradient(S, t, i) = SumFunctionOnSet(g, S)
  BY DEF Gradient
<1> HIDE DEF f, g
<1>6. \A r \in S : f[r] \in Int /\ g[r] = Unit * f[r]
  BY <1>3
<1>a. \A r \in S : f[r] \in Int
  BY <1>3
<1>7. SumFunctionOnSet(g, S) = Unit * SumFunctionOnSet(f, S)
  BY <1>1, <1>4, <1>6, IntSumTimes
<1>8. SumFunctionOnSet(f, S) \in Int
  BY <1>4, <1>a, IntSumOne
<1> QED
  BY <1>5, <1>7, <1>8

\* The mean over the samples, times their number, is the sum.
LEMMA MeanIsExact ==
    ASSUME NEW t \in Nat, NEW i \in Elems, NEW S \in SUBSET Adding,
           NEW w, w = Samples(S, t), NEW s, s = Gradient(S, t, i)
    PROVE  (IF w = 0 THEN 0 ELSE s \div w) * w = s
<1>1. w \in Nat /\ w <= 2 * Adders /\ (w = 0 => s = 0)
  BY SamplesAre
<1>2. CASE w = 0
  BY <1>1, <1>2
<1>3. CASE w # 0
  <2>1. Unit \in Nat /\ Unit % w = 0
    <3>1. w \in 1..(2 * Adders)
      BY <1>1, <1>3, ReduceAssumption
    <3> QED
      BY <3>1, ReduceAssumption
  <2>2. PICK z \in Int : s = Unit * z
    BY GradientIs
  <2> DEFINE u == Unit \div w
  <2>3. u \in Int /\ Unit = w * u
    <3>1. w > 0
      BY <1>1, <1>3
    <3> QED
      BY <1>1, <2>1, <3>1
  <2> HIDE DEF u
  <2>4. s = w * (u * z) /\ u * z \in Int
    BY <1>1, <2>2, <2>3
  <2>5. s \div w = u * z
    <3> DEFINE y == u * z
    <3>1. y \in Int /\ s = w * y /\ w > 0
      BY <1>1, <1>3, <2>4
    <3> HIDE DEF y
    <3>2. s \div w = y
      BY <1>1, <3>1, ExactDiv
    <3> QED
      BY <3>2 DEF y
  <2>6. (u * z) * w = w * (u * z)
    BY <1>1, <2>2, <2>3
  <2> QED
    BY <1>3, <2>4, <2>5, <2>6
<1> QED
  BY <1>2, <1>3

\* At full width: what the rounds hold is the sum over the ranks in them, each once.
FairRounds(S) ==
    \A rnd \in DOMAIN S :
        /\ Tally(S[rnd].seen, rnd[2], Covers(rnd[2], rnd[3]), S[rnd].sum, S[rnd].weight)
        /\ S[rnd].out # <<>> => \A i \in Covers(rnd[2], rnd[3]) : S[rnd].out[i] = MeanOf(S[rnd])[i]

\* Where a rank is in a round, it came there once: at its step, to the lead for a
\* lost daemon's shard only, and through its machine's daemon if it has one.
Seen(rnd, r, A, N) ==
    /\ rnd[2] <= A[r].t
    /\ Sharded(rnd[2]) /\ rnd[1] = 0 /\ rnd[3] # 0 => rnd[3] \in A[r].dead
    /\ Nearby(r, rnd[2]) => rnd[2] \in DOMAIN N /\ N[rnd[2]].at = "asked"
SeenFacts(S, A, N) == \A rnd \in DOMAIN S : \A r \in S[rnd].seen : Seen(rnd, r, A, N)

NearFair(N, A) ==
    \A t \in DOMAIN N :
        /\ mode.way = "local" /\ Kind(t) = "grads" /\ N[t].members \subseteq Near
        /\ \A r \in N[t].members : t <= A[r].t
        /\ Tally(N[t].members, t, Elems, N[t].sum, N[t].weight)

LoadsFair(A) == \A r \in Adding : \A t \in 1..A[r].t : A[r].load[t] = BatchOf(r, t).g

FairBooks ==
    /\ lost \subseteq Fragile
    /\ mode.wide => FairRounds(sums) /\ SeenFacts(sums, adder, near) /\ NearFair(near, adder) /\ LoadsFair(adder)

LEMMA FairPrime ==
    ASSUME UNCHANGED <<mode, delta, pads>>, lost' \subseteq Fragile,
           mode.wide => FairRounds(sums') /\ SeenFacts(sums', adder', near') /\ NearFair(near', adder') /\ LoadsFair(adder')
    PROVE  FairBooks'
<1>1. \A t : Kind(t)' = Kind(t)
  BY DEF Kind
<1>2. \A t, k : Covers(t, k)' = Covers(t, k)
  BY <1>1 DEF Covers, Sharded, Kind, Block, Elems, Adding
<1>3. \A r, t : BatchOf(r, t)' = BatchOf(r, t)
  BY DEF BatchOf, Elems, Adding
<1>4. \A r, t : Counts(r, t)' = Counts(r, t)
  BY <1>3 DEF Counts
<1>5. \A S, t : Samples(S, t)' = Samples(S, t)
  BY <1>4 DEF Samples
<1>6. \A S, t, i : Gradient(S, t, i)' = Gradient(S, t, i)
  BY <1>3, <1>4 DEF Gradient
<1>7. \A S, t, cover, sum, weight : Tally(S, t, cover, sum, weight)' <=> Tally(S, t, cover, sum, weight)
  BY <1>5, <1>6 DEF Tally
<1>8. FairRounds(sums)' <=> FairRounds(sums')
  BY <1>2, <1>7 DEF FairRounds
<1>9. \A r, t : (Sharded(t)' <=> Sharded(t)) /\ (Nearby(r, t)' <=> Nearby(r, t))
  BY <1>1 DEF Sharded, Nearby
<1>10. SeenFacts(sums, adder, near)' <=> SeenFacts(sums', adder', near')
  BY <1>9 DEF SeenFacts, Seen
<1>11. NearFair(near, adder)' <=> NearFair(near', adder')
  BY <1>1, <1>7 DEF NearFair
<1>12. LoadsFair(adder)' <=> LoadsFair(adder')
  BY <1>3 DEF LoadsFair
<1> QED
  BY <1>8, <1>10, <1>11, <1>12 DEF FairBooks

\* Ranks that are not in a round yet join it.
LEMMA TallyJoins ==
    ASSUME NEW S \in SUBSET Adding, NEW T \in SUBSET Adding, S \cap T = {}, NEW t \in Nat, NEW cover, cover \subseteq Elems,
           NEW sum, NEW weight, Tally(S, t, cover, sum, weight),
           NEW sum2, NEW load, NEW v, v = Samples(T, t), \A i \in cover : load[i] * v = Gradient(T, t, i),
           \A i \in cover : sum2[i] = sum[i] + load[i] * v,
           Elems # {}
    PROVE  Tally(S \cup T, t, cover, sum2, weight + v)
<1>1. ASSUME NEW i \in Elems
      PROVE  /\ Samples(S \cup T, t) = Samples(S, t) + Samples(T, t)
             /\ Gradient(S \cup T, t, i) = Gradient(S, t, i) + Gradient(T, t, i)
  BY SamplesUnion
<1>2. weight + v = Samples(S \cup T, t)
  BY <1>1 DEF Tally
<1>3. ASSUME NEW i \in cover PROVE sum2[i] = Gradient(S \cup T, t, i)
  BY <1>1 DEF Tally
<1> QED
  BY <1>2, <1>3 DEF Tally

LEMMA EmptyTally ==
    ASSUME NEW t \in Nat, NEW cover, cover \subseteq Elems
    PROVE  Tally({}, t, cover, Zero, 0)
<1>1. \A i \in Elems : Samples({}, t) = 0 /\ Gradient({}, t, i) = 0 /\ Zero[i] = 0
  BY NoSamples, ElemsAre
<1> QED
  BY <1>1, ElemsAre DEF Tally

\* Who is in the rounds after the ranks who joined the ones at keys.
OnlyJoin(S, keys, who) ==
    \A rnd \in DOMAIN S : \A r \in S[rnd].seen :
        (rnd \in DOMAIN sums /\ r \in sums[rnd].seen) \/ (rnd \in keys /\ r \in who)

LEMMA FairJoins ==
    ASSUME mode.wide, Sane, FairRounds(sums), NEW keys, OnePerShard(keys), NEW t \in 1..AddSteps, \A rnd \in keys : rnd[2] = t,
           NEW who \in SUBSET Adding, NEW load \in Vec, NEW w \in Int,
           \A rnd \in Open(keys) : who \cap Round(rnd).seen = {},
           SampleWeight(w) = Samples(who, t), \A i \in Elems : load[i] * SampleWeight(w) = Gradient(who, t, i),
           NEW C, C = Contributed(keys, who, load, w)
    PROVE  FairRounds(C.sums) /\ OnlyJoin(C.sums, keys, who)
<1> DEFINE v == SampleWeight(w)
<1>1. Contributes(C, keys, who, load, w)
  BY ContributedIs
<1>2. /\ DOMAIN C.sums = DOMAIN sums \cup Open(keys)
      /\ \A rnd \in DOMAIN sums \ Open(keys) : C.sums[rnd] = sums[rnd]
      /\ \A rnd \in Open(keys) :
           /\ C.sums[rnd].seen = Round(rnd).seen \cup who
           /\ C.sums[rnd].weight = Round(rnd).weight + v
           /\ \A i \in Covers(rnd[2], rnd[3]) : C.sums[rnd].sum[i] = Round(rnd).sum[i] + load[i] * v
           /\ C.sums[rnd].out # <<>> => \A i \in Covers(rnd[2], rnd[3]) : C.sums[rnd].out[i] = MeanOf(C.sums[rnd])[i]
  BY <1>1 DEF Contributes
<1>3. Open(keys) \subseteq keys /\ t \in Nat /\ keys \subseteq Keys
  BY DEF Open, OnePerShard
<1>4. ASSUME NEW rnd \in Open(keys)
      PROVE  Tally(C.sums[rnd].seen, rnd[2], Covers(rnd[2], rnd[3]), C.sums[rnd].sum, C.sums[rnd].weight)
  <2> DEFINE cover == Covers(rnd[2], rnd[3])
             e == Round(rnd)
             S == e.seen
             sum == e.sum
             weight == e.weight
             sum2 == C.sums[rnd].sum
  <2>1. rnd[2] = t /\ cover \subseteq Elems
    BY <1>3, KeysAre, ElemsAre
  <2>2. S \in SUBSET Adding /\ Tally(S, t, cover, sum, weight)
    <3>1. CASE rnd \in DOMAIN sums
      <4>1. e = sums[rnd] /\ sums[rnd] \in RoundRec(Covers(rnd[2], rnd[3]))
        BY <3>1 DEF Round, Sane, SumsFact
      <4>2. e.seen \in SUBSET Adding
        BY <4>1 DEF RoundRec
      <4> QED
        BY <2>1, <3>1, <4>1, <4>2 DEF FairRounds
    <3>2. CASE rnd \notin DOMAIN sums
      <4>1. e.seen = {} /\ e.sum = Zero /\ e.weight = 0
        BY <3>2 DEF Round, NoSum
      <4>2. Tally({}, t, cover, Zero, 0)
        <5> HIDE DEF cover
        <5> QED
          BY <1>3, <2>1, EmptyTally
      <4> QED
        BY <4>1, <4>2
    <3> QED
      BY <3>1, <3>2
  <2>3. S \cap who = {} /\ v = Samples(who, t) /\ (\A i \in cover : load[i] * v = Gradient(who, t, i)) /\ Elems # {}
    BY <2>1, ElemsAre
  <2>4. /\ \A i \in cover : sum2[i] = sum[i] + load[i] * v
        /\ C.sums[rnd].seen = S \cup who /\ C.sums[rnd].weight = weight + v
    BY <1>2
  <2> HIDE DEF cover, e, S, sum, weight, sum2, v
  <2>5. Tally(S \cup who, t, cover, sum2, weight + v)
    BY <1>3, <2>1, <2>2, <2>3, <2>4, TallyJoins
  <2> QED
    BY <2>1, <2>4, <2>5 DEF cover, sum2
<1>5. FairRounds(C.sums)
  <2> SUFFICES ASSUME NEW rnd \in DOMAIN C.sums
               PROVE  /\ Tally(C.sums[rnd].seen, rnd[2], Covers(rnd[2], rnd[3]), C.sums[rnd].sum, C.sums[rnd].weight)
                      /\ C.sums[rnd].out # <<>> => \A i \in Covers(rnd[2], rnd[3]) : C.sums[rnd].out[i] = MeanOf(C.sums[rnd])[i]
    BY DEF FairRounds
  <2>1. CASE rnd \in Open(keys)
    BY <1>2, <1>4, <2>1
  <2>2. CASE rnd \notin Open(keys)
    <3>1. rnd \in DOMAIN sums /\ C.sums[rnd] = sums[rnd]
      BY <1>2, <2>2
    <3> QED
      BY <3>1 DEF FairRounds
  <2> QED
    BY <2>1, <2>2
<1>6. ASSUME NEW rnd \in DOMAIN C.sums, NEW r \in C.sums[rnd].seen
      PROVE  (rnd \in DOMAIN sums /\ r \in sums[rnd].seen) \/ (rnd \in keys /\ r \in who)
  <2>1. CASE rnd \in Open(keys)
    <3>1. r \in Round(rnd).seen \/ r \in who
      BY <1>2, <2>1
    <3>2. rnd \in keys
      BY <1>3, <2>1
    <3> QED
      BY <3>1, <3>2 DEF Round, NoSum
  <2>2. CASE rnd \notin Open(keys)
    BY <1>2, <2>2
  <2> QED
    BY <2>1, <2>2
<1> QED
  BY <1>5, <1>6 DEF OnlyJoin

\* Steps and dead daemons only grow in number, and what was asked stays asked.
Onward(A, N, A2, N2) ==
    /\ \A r \in Adding : A[r].t <= A2[r].t /\ A[r].dead \subseteq A2[r].dead /\ A[r].t \in Nat /\ A2[r].t \in Nat
    /\ \A t \in DOMAIN N : N[t].at = "asked" => t \in DOMAIN N2 /\ N2[t].at = "asked"

LEMMA SeenStay ==
    ASSUME NEW S, SumsFact(S), NEW A, NEW N, SeenFacts(S, A, N), NEW A2, NEW N2, Onward(A, N, A2, N2), NEW S2,
           \A rnd \in DOMAIN S2 : \A r \in S2[rnd].seen : (rnd \in DOMAIN S /\ r \in S[rnd].seen) \/ Seen(rnd, r, A2, N2)
    PROVE  SeenFacts(S2, A2, N2)
<1> SUFFICES ASSUME NEW rnd \in DOMAIN S, NEW r \in S[rnd].seen PROVE Seen(rnd, r, A2, N2)
  BY DEF SeenFacts
<1>1. r \in Adding /\ rnd[2] \in Nat
  <2>1. rnd \in Keys /\ S[rnd] \in RoundRec(Covers(rnd[2], rnd[3]))
    BY DEF SumsFact
  <2>2. S[rnd].seen \in SUBSET Adding
    BY <2>1 DEF RoundRec
  <2> QED
    BY <2>1, <2>2, KeysAre
<1>2. Seen(rnd, r, A, N)
  BY DEF SeenFacts
<1>3. rnd[2] <= A2[r].t
  <2> DEFINE x == rnd[2]
             y == A[r].t
             z == A2[r].t
  <2>1. x \in Nat /\ y \in Nat /\ z \in Nat /\ x <= y /\ y <= z
    BY <1>1, <1>2 DEF Seen, Onward
  <2> HIDE DEF x, y, z
  <2>2. x <= z
    BY <2>1
  <2> QED
    BY <2>2 DEF x, z
<1> QED
  BY <1>1, <1>2, <1>3 DEF Seen, Onward

\* The same for the members of a machine's rounds that did not change.
LEMMA NearStay ==
    ASSUME NEW N, NEW A, NearFair(N, A), NearFact(N), NEW A2,
           \A r \in Adding : A[r].t <= A2[r].t /\ A[r].t \in Nat /\ A2[r].t \in Nat
    PROVE  NearFair(N, A2)
<1> SUFFICES ASSUME NEW t \in DOMAIN N, NEW r \in N[t].members PROVE t <= A2[r].t
  BY DEF NearFair
<1>1. r \in Adding /\ t \in Nat /\ t <= A[r].t
  BY DEF NearFair, NearFact, NearRec
<1> DEFINE y == A[r].t
           z == A2[r].t
<1>2. y \in Nat /\ z \in Nat /\ t <= y /\ y <= z
  BY <1>1
<1> HIDE DEF y, z
<1>3. t <= z
  BY <1>1, <1>2
<1> QED
  BY <1>3 DEF z

\* The contribution of one rank.
LEMMA OneJoins ==
    ASSUME mode.wide, ReduceShape, FairBooks, NEW keys, OnePerShard(keys), NEW t \in 1..AddSteps, \A rnd \in keys : rnd[2] = t,
           NEW r \in Adding, \A rnd \in keys : r \notin Round(rnd).seen,
           NEW C, C = Contributed(keys, {r}, BatchOf(r, t).g, Wire(r, t))
    PROVE  FairRounds(C.sums) /\ SumsFact(C.sums) /\ OnlyJoin(C.sums, keys, {r})
<1> DEFINE load == BatchOf(r, t).g
           w == Wire(r, t)
           who == {r}
<1>1. Sane /\ FairRounds(sums)
  BY DEF ReduceShape, FairBooks
<1>2. load \in Vec /\ BatchOf(r, t).n \in Nat
  BY BatchIs
<1>3. w \in Int
  BY <1>2 DEF Wire
<1>4. SampleWeight(w) = Counts(r, t) /\ Counts(r, t) \in Nat
  BY CountsAre
<1>5. \A i \in Elems : Samples(who, t) = Counts(r, t) /\ Gradient(who, t, i) = Counts(r, t) * load[i]
  BY OneSample
<1>6. SampleWeight(w) = Samples(who, t)
  BY <1>4, <1>5, ElemsAre
<1>7. ASSUME NEW i \in Elems PROVE load[i] * SampleWeight(w) = Gradient(who, t, i)
  <2> DEFINE x == load[i]
             c == Counts(r, t)
  <2>1. x \in Int /\ c \in Int
    BY <1>2, <1>4 DEF Vec
  <2>2. Gradient(who, t, i) = c * x /\ SampleWeight(w) = c
    BY <1>4, <1>5
  <2> HIDE DEF x, c, w, who
  <2>3. x * c = c * x
    BY <2>1
  <2> QED
    BY <2>2, <2>3 DEF x
<1>8. \A rnd \in Open(keys) : who \cap Round(rnd).seen = {}
  BY DEF Open
<1>9. who \in SUBSET Adding
  OBVIOUS
<1>10. FairRounds(C.sums) /\ SumsFact(C.sums) /\ OnlyJoin(C.sums, keys, who)
  <2> HIDE DEF load, w, who
  <2>1. C = Contributed(keys, who, load, w)
    BY DEF load, w, who
  <2>2. Contributes(C, keys, who, load, w)
    BY <1>1, <1>2, <1>3, <1>9, <2>1, ContributedIs
  <2>3. FairRounds(C.sums) /\ OnlyJoin(C.sums, keys, who)
    BY <1>1, <1>2, <1>3, <1>6, <1>7, <1>8, <1>9, <2>1, FairJoins
  <2> QED
    BY <2>2, <2>3 DEF Contributes
<1> QED
  BY <1>10

\* A rank that goes on has the step's gradient among what it sent.
LEMMA LoadsGrow ==
    ASSUME mode.wide, ReduceShape, FairBooks, NEW r \in Adding, NEW a, a.t = adder[r].t + 1,
           a.load = Append(adder[r].load, BatchOf(r, a.t).g), NEW A, DOMAIN A = Adding, A[r] = a, \A q \in Adding \ {r} : A[q] = adder[q]
    PROVE  LoadsFair(A)
<1>1. adder[r] \in RankRec /\ Len(adder[r].load) = adder[r].t /\ adder[r].load \in Seq(Vec) /\ adder[r].t \in Nat
  BY DEF ReduceShape, RankTies, RankRec
<1>2. LoadsFair(adder)
  BY DEF FairBooks
<1> DEFINE n == adder[r].t
           l == adder[r].load
           g == BatchOf(r, a.t).g
<1>3. g \in Vec
  BY <1>1, BatchIs
<1>4. ASSUME NEW t \in 1..a.t PROVE a.load[t] = BatchOf(r, t).g
  <2>1. CASE t = a.t
    <3>1. Append(l, g)[Len(l) + 1] = g
      BY <1>1, <1>3
    <3> QED
      BY <1>1, <2>1, <3>1
  <2>2. CASE t # a.t
    <3>1. t \in 1..n
      BY <1>1, <2>2
    <3>2. Append(l, g)[t] = l[t]
      BY <1>1, <1>3, <3>1
    <3> QED
      BY <1>2, <3>1, <3>2 DEF LoadsFair
  <2> QED
    BY <2>1, <2>2
<1>5. ASSUME NEW q \in Adding, NEW t \in 1..A[q].t PROVE A[q].load[t] = BatchOf(q, t).g
  <2>1. CASE q = r
    BY <1>4, <1>5, <2>1
  <2>2. CASE q # r
    <3>1. A[q] = adder[q]
      BY <2>2
    <3> QED
      BY <1>2, <1>5, <3>1 DEF LoadsFair
  <2> QED
    BY <2>1, <2>2
<1> QED
  BY <1>5 DEF LoadsFair

LEMMA ZeroStays == FairBooks => 0 \notin lost
<1>1. 0 \notin Fragile
  BY ReduceAssumption
<1> QED
  BY <1>1 DEF FairBooks

LEMMA SendFair ==
    ASSUME ReduceShape, ReduceBooks, FairBooks, NEW r \in Adding, Send(r)
    PROVE  FairBooks'
<1> DEFINE t == adder[r].t + 1
           p == Packed(r, t)
           dead == adder[r].dead \cup (IF Sharded(t) THEN lost ELSE {})
           keys == {<<IF k \in dead THEN 0 ELSE k, t, k>> : k \in Shards(t)}
           C == Contributed(keys, {r}, p.load, Wire(r, t))
           a == [Stepped(r, t, p) EXCEPT !.dead = dead]
<1>1. adder[r] \in RankRec /\ adder[r].t \in Nat /\ adder[r].dead \in SUBSET Adding /\ lost \subseteq Adding /\ Sane
  BY DEF ReduceShape, RankTies, RankRec
<1>2. /\ adder' = [adder EXCEPT ![r] = a] /\ sums' = C.sums
      /\ UNCHANGED <<mode, delta, pads, near, lost>> /\ adder[r].t < AddSteps /\ ~Nearby(r, t)
  BY DEF Send, Steps
<1>3. t \in 1..AddSteps /\ dead \in SUBSET Adding /\ t \in Nat
  BY <1>1, <1>2, ReduceAssumption
<1>4. OnePerShard(keys) /\ \A rnd \in keys : rnd[2] = t
  <2>1. \A rnd \in keys : rnd[2] = t
    OBVIOUS
  <2> HIDE DEF t, dead
  <2> QED
    BY <1>3, <2>1, SyncKeys
<1>5. RankTies(a) /\ a.t = t /\ a.load = Append(adder[r].load, p.load)
  <2>0. a = Moved(r, t, dead) /\ p = Packed(r, t)
    BY DEF Moved
  <2> HIDE DEF t, dead, a, p
  <2>1. t = adder[r].t + 1 /\ t <= AddSteps
    BY <1>1, <1>2, ReduceAssumption DEF t
  <2>2. RankTies(a)
    BY <1>3, <2>0, <2>1, SteppedIs
  <2>3. a.load = Append(adder[r].load, p.load) /\ a.t = t
    BY <1>1, <2>0 DEF Moved, Stepped, RankRec
  <2> QED
    BY <2>2, <2>3
<1>6. a.dead = dead
  BY <1>1 DEF Stepped, RankRec
<1>7. DOMAIN adder' = Adding /\ adder'[r] = a /\ \A q \in Adding \ {r} : adder'[q] = adder[q]
  BY <1>2 DEF ReduceShape
<1>8. ASSUME mode.wide PROVE FairRounds(sums') /\ SeenFacts(sums', adder', near') /\ NearFair(near', adder') /\ LoadsFair(adder')
  <2>1. p.load = BatchOf(r, t).g
    <3> HIDE DEF t
    <3> QED
      BY <1>3, <1>8, PackedIs
  <2>2. FairRounds(sums) /\ SeenFacts(sums, adder, near) /\ NearFair(near, adder) /\ SumsFact(sums) /\ NearFact(near)
    BY <1>1, <1>8 DEF FairBooks, Sane, ReduceShape
  <2>3. ASSUME NEW rnd \in keys PROVE r \notin Round(rnd).seen
    <3>1. rnd \in DOMAIN sums => \A q \in sums[rnd].seen : rnd[2] <= adder[q].t
      BY <2>2 DEF SeenFacts, Seen
    <3>2. rnd[2] = t /\ ~(t <= adder[r].t)
      BY <1>1, <1>4
    <3> QED
      BY <3>1, <3>2 DEF Round, NoSum
  <2>4. C = Contributed(keys, {r}, BatchOf(r, t).g, Wire(r, t))
    BY <2>1
  <2>x. \A rnd \in keys : rnd[2] = t /\ (Sharded(t) /\ rnd[1] = 0 /\ rnd[3] # 0 => rnd[3] \in dead)
    OBVIOUS
  <2> HIDE DEF p, keys, a, C, dead
  <2>5. /\ FairRounds(C.sums)
        /\ \A rnd \in DOMAIN C.sums : \A q \in C.sums[rnd].seen :
             (rnd \in DOMAIN sums /\ q \in sums[rnd].seen) \/ (rnd \in keys /\ q = r)
    <3> HIDE DEF t
    <3>1. FairRounds(C.sums) /\ OnlyJoin(C.sums, keys, {r})
      BY <1>3, <1>4, <1>8, <2>3, <2>4, OneJoins
    <3> QED
      BY <3>1 DEF OnlyJoin
  <2>6. \A q \in Adding : /\ adder[q].t <= adder'[q].t /\ adder[q].dead \subseteq adder'[q].dead
                          /\ adder[q].t \in Nat /\ adder'[q].t \in Nat
    <3>1. \A q \in Adding : adder[q].t \in Nat /\ adder[q].t <= adder[q].t
      BY DEF ReduceShape, RankTies, RankRec
    <3>2. adder[r].t <= a.t /\ a.t \in Nat /\ adder[r].dead \subseteq a.dead
      BY <1>1, <1>5, <1>6 DEF dead
    <3> QED
      BY <1>7, <3>1, <3>2
  <2>7. Onward(adder, near, adder', near')
    BY <1>2, <2>6 DEF Onward
  <2>8. \A rnd \in keys : Seen(rnd, r, adder', near')
    <3> TAKE rnd \in keys
    <3>1. rnd[2] = t /\ (Sharded(t) /\ rnd[1] = 0 /\ rnd[3] # 0 => rnd[3] \in dead)
      BY <2>x
    <3>2. adder'[r].t = t /\ adder'[r].dead = dead /\ t <= t
      BY <1>3, <1>5, <1>6, <1>7
    <3> HIDE DEF t
    <3> QED
      BY <1>2, <3>1, <3>2 DEF Seen
  <2> DEFINE A2 == adder'
             N2 == near'
             S2 == C.sums
  <2>9. SeenFacts(S2, A2, N2)
    <3>1. Onward(adder, near, A2, N2) /\ \A rnd \in keys : Seen(rnd, r, A2, N2)
      BY <2>7, <2>8
    <3>2. \A rnd \in DOMAIN S2 : \A q \in S2[rnd].seen : (rnd \in DOMAIN sums /\ q \in sums[rnd].seen) \/ Seen(rnd, q, A2, N2)
      BY <2>5, <3>1
    <3> HIDE DEF A2, N2, S2
    <3> QED
      BY <2>2, <3>1, <3>2, SeenStay
  <2>10. NearFair(near, A2)
    <3>1. \A q \in Adding : adder[q].t <= A2[q].t /\ adder[q].t \in Nat /\ A2[q].t \in Nat
      BY <2>6
    <3> HIDE DEF A2
    <3> QED
      BY <2>2, <3>1, NearStay
  <2>11. LoadsFair(A2)
    <3>1. DOMAIN A2 = Adding /\ A2[r] = a /\ \A q \in Adding \ {r} : A2[q] = adder[q]
      BY <1>7
    <3>2. a.t = adder[r].t + 1 /\ a.load = Append(adder[r].load, BatchOf(r, a.t).g)
      BY <1>5, <2>1
    <3> HIDE DEF A2
    <3> QED
      BY <1>8, <3>1, <3>2, LoadsGrow
  <2> QED
    BY <1>2, <2>5, <2>9, <2>10, <2>11
<1> QED
  BY <1>2, <1>8, FairPrime DEF FairBooks

LEMMA ShardLostFair ==
    ASSUME ReduceShape, FairBooks, NEW r \in Adding, NEW k \in Adding, ShardLost(r, k)
    PROVE  FairBooks'
<1> DEFINE t == adder[r].t
           load == adder[r].load[t]
           keys == {<<0, t, k>>}
           C == Contributed(keys, {r}, load, Wire(r, t))
           a == [adder[r] EXCEPT !.dead = @ \cup {k}]
<1>1. /\ adder[r] \in RankRec /\ t \in Nat /\ t >= 1 /\ t <= AddSteps /\ adder[r].dead \subseteq Adding /\ Sane
  BY DEF ReduceShape, RankTies, RankRec, ShardLost
<1>2. /\ adder' = [adder EXCEPT ![r] = a] /\ sums' = C.sums
      /\ UNCHANGED <<mode, delta, pads, near, lost>> /\ Sharded(t) /\ DaemonOf(r, k) \in lost
  BY DEF ShardLost
<1>3. t \in 1..AddSteps
  BY <1>1
<1>4. OnePerShard(keys) /\ \A rnd \in keys : rnd[2] = t
  <2>1. <<0, t, k>> \in Keys
    BY <1>3, ElemsAre DEF Keys
  <2> QED
    BY <2>1 DEF OnePerShard
<1>5. k \notin adder[r].dead /\ k # 0
  BY <1>2, ZeroStays DEF DaemonOf
<1>6. a.t = t /\ a.load = adder[r].load /\ a.dead = adder[r].dead \cup {k}
  BY <1>1 DEF RankRec
<1>7. DOMAIN adder' = Adding /\ adder'[r] = a /\ \A q \in Adding \ {r} : adder'[q] = adder[q]
  BY <1>2 DEF ReduceShape
<1> HIDE DEF a
<1>8. ASSUME mode.wide PROVE FairRounds(sums') /\ SeenFacts(sums', adder', near') /\ NearFair(near', adder') /\ LoadsFair(adder')
  <2>2. FairRounds(sums) /\ SeenFacts(sums, adder, near) /\ NearFair(near, adder) /\ SumsFact(sums) /\ NearFact(near) /\ LoadsFair(adder)
    BY <1>1, <1>8 DEF FairBooks, Sane, ReduceShape
  <2>1. load = BatchOf(r, t).g
    <3>1. t \in 1..adder[r].t
      BY <1>1
    <3> QED
      BY <2>2, <3>1 DEF LoadsFair
  <2>3. ASSUME NEW rnd \in keys PROVE r \notin Round(rnd).seen
    <3>1. rnd[1] = 0 /\ rnd[2] = t /\ rnd[3] = k
      OBVIOUS
    <3> HIDE DEF keys
    <3>2. rnd \in DOMAIN sums => \A q \in sums[rnd].seen : k \in adder[q].dead
      BY <1>2, <1>5, <2>2, <3>1 DEF SeenFacts, Seen
    <3> QED
      BY <1>5, <3>2 DEF Round, NoSum
  <2>4. C = Contributed(keys, {r}, BatchOf(r, t).g, Wire(r, t))
    BY <2>1
  <2>x. \A rnd \in keys : rnd[2] = t /\ rnd[3] = k
    OBVIOUS
  <2> HIDE DEF keys, C, load
  <2>5. /\ FairRounds(C.sums)
        /\ \A rnd \in DOMAIN C.sums : \A q \in C.sums[rnd].seen :
             (rnd \in DOMAIN sums /\ q \in sums[rnd].seen) \/ (rnd \in keys /\ q = r)
    <3> HIDE DEF t
    <3>1. FairRounds(C.sums) /\ OnlyJoin(C.sums, keys, {r})
      BY <1>3, <1>4, <1>8, <2>3, <2>4, OneJoins
    <3> QED
      BY <3>1 DEF OnlyJoin
  <2>6. \A q \in Adding : /\ adder[q].t <= adder'[q].t /\ adder[q].dead \subseteq adder'[q].dead
                          /\ adder[q].t \in Nat /\ adder'[q].t \in Nat
    <3>1. \A q \in Adding : adder[q].t \in Nat /\ adder[q].t <= adder[q].t
      BY DEF ReduceShape, RankTies, RankRec
    <3>2. adder[r].t <= a.t /\ a.t \in Nat /\ adder[r].dead \subseteq a.dead
      BY <1>1, <1>6
    <3> QED
      BY <1>7, <3>1, <3>2
  <2>7. Onward(adder, near, adder', near')
    BY <1>2, <2>6 DEF Onward
  <2>8. \A rnd \in keys : Seen(rnd, r, adder', near')
    <3> TAKE rnd \in keys
    <3>1. rnd[2] = t /\ rnd[3] = k
      BY <2>x
    <3>2. adder'[r].t = t /\ k \in adder'[r].dead /\ t <= t
      BY <1>1, <1>6, <1>7
    <3>3. ~Nearby(r, t)
      BY <1>2 DEF Nearby, Sharded
    <3> HIDE DEF t
    <3> QED
      BY <3>1, <3>2, <3>3 DEF Seen
  <2> DEFINE A2 == adder'
             N2 == near'
             S2 == C.sums
  <2>9. SeenFacts(S2, A2, N2)
    <3>1. Onward(adder, near, A2, N2) /\ \A rnd \in keys : Seen(rnd, r, A2, N2)
      BY <2>7, <2>8
    <3>2. \A rnd \in DOMAIN S2 : \A q \in S2[rnd].seen : (rnd \in DOMAIN sums /\ q \in sums[rnd].seen) \/ Seen(rnd, q, A2, N2)
      BY <2>5, <3>1
    <3> HIDE DEF A2, N2, S2
    <3> QED
      BY <2>2, <3>1, <3>2, SeenStay
  <2>10. NearFair(near, A2)
    <3>1. \A q \in Adding : adder[q].t <= A2[q].t /\ adder[q].t \in Nat /\ A2[q].t \in Nat
      BY <2>6
    <3> HIDE DEF A2
    <3> QED
      BY <2>2, <3>1, NearStay
  <2>11. LoadsFair(A2)
    <3>1. \A q \in Adding : A2[q].t = adder[q].t /\ A2[q].load = adder[q].load
      BY <1>6, <1>7
    <3> HIDE DEF A2
    <3> QED
      BY <2>2, <3>1 DEF LoadsFair
  <2> QED
    BY <1>2, <2>5, <2>9, <2>10, <2>11
<1> QED
  BY <1>2, <1>8, FairPrime DEF FairBooks

LEMMA FairSame ==
    ASSUME ReduceShape, FairBooks, UNCHANGED <<mode, delta, pads, sums, near>>, lost' \subseteq Fragile, DOMAIN adder' = Adding,
           \A r \in Adding : adder'[r].t = adder[r].t /\ adder'[r].load = adder[r].load /\ adder'[r].dead = adder[r].dead
    PROVE  FairBooks'
<1>1. ASSUME mode.wide PROVE FairRounds(sums') /\ SeenFacts(sums', adder', near') /\ NearFair(near', adder') /\ LoadsFair(adder')
  <2>1. FairRounds(sums) /\ SeenFacts(sums, adder, near) /\ NearFair(near, adder) /\ SumsFact(sums) /\ NearFact(near) /\ LoadsFair(adder)
    BY <1>1 DEF FairBooks, Sane, ReduceShape
  <2> DEFINE A2 == adder'
  <2>2. \A r \in Adding : adder[r].t <= A2[r].t /\ adder[r].t \in Nat /\ A2[r].t \in Nat /\ adder[r].dead \subseteq A2[r].dead
    BY DEF ReduceShape, RankTies, RankRec
  <2>3. LoadsFair(A2)
    BY <2>1 DEF LoadsFair
  <2> HIDE DEF A2
  <2>4. Onward(adder, near, A2, near)
    BY <2>2 DEF Onward
  <2>5. SeenFacts(sums, A2, near)
    BY <2>1, <2>4, SeenStay
  <2>6. NearFair(near, A2)
    BY <2>1, <2>2, NearStay
  <2> QED
    BY <2>1, <2>3, <2>5, <2>6 DEF A2
<1> QED
  BY <1>1, FairPrime

LEMMA TakenFair ==
    ASSUME ReduceShape, FairBooks, NEW r \in Adding, NEW ks, NEW v, Taken(r, adder[r].t, ks, v),
           UNCHANGED <<mode, delta, pads, sums, near, lost>>
    PROVE  FairBooks'
<1> DEFINE got == [i \in Elems |-> IF \E k \in ks : i \in Covers(adder[r].t, k) THEN v[i] ELSE adder[r].got[i]]
           a == [adder[r] EXCEPT !.wait = @ \ ks, !.got = got,
                                 !.applied = IF adder[r].wait = ks THEN Append(@, got) ELSE @]
<1>1. adder' = [adder EXCEPT ![r] = a]
  BY DEF Taken
<1>2. a.t = adder[r].t /\ a.load = adder[r].load /\ a.dead = adder[r].dead
  <2> HIDE DEF got
  <2> QED
    BY DEF ReduceShape, RankTies, RankRec
<1> HIDE DEF a
<1>3. DOMAIN adder' = Adding /\ \A q \in Adding : adder'[q].t = adder[q].t /\ adder'[q].load = adder[q].load /\ adder'[q].dead = adder[q].dead
  BY <1>1, <1>2 DEF ReduceShape
<1>4. lost' \subseteq Fragile
  BY DEF FairBooks
<1> QED
  BY <1>3, <1>4, FairSame

LEMMA CloseShortFair ==
    ASSUME ReduceShape, FairBooks, NEW rnd \in Keys, CloseShort(rnd)
    PROVE  FairBooks'
<1> DEFINE e == Round(rnd)
           ending == [x \in {rnd} |-> e]
           C == Closed(ending)
<1>0. UNCHANGED <<mode, delta, pads, adder, near, lost>> /\ lost' \subseteq Fragile /\ DOMAIN adder' = Adding
  BY DEF CloseShort, FairBooks, ReduceShape
<1>1. CASE Cardinality(e.seen) = 1
  <2>1. UNCHANGED sums
    BY <1>1 DEF CloseShort
  <2> QED
    BY <1>0, <2>1, FairSame
<1>2. CASE Cardinality(e.seen) # 1
  <2>1. sums' = C.sums /\ ~Answered(rnd) /\ e.seen # {}
    BY <1>2 DEF CloseShort
  <2>2. rnd \in DOMAIN sums /\ e = sums[rnd]
    BY <2>1 DEF Round, NoSum
  <2>3. OnePerShard(DOMAIN ending) /\ DOMAIN ending = {rnd} /\ ending[rnd] = sums[rnd]
    BY <2>2 DEF OnePerShard
  <2>4. \A x \in {rnd} : ending[x] \in RoundRec(Covers(x[2], x[3])) /\ ~Answered(x)
    BY <2>1, <2>2 DEF ReduceShape, Sane, SumsFact
  <2> HIDE DEF ending
  <2>5. /\ DOMAIN C.sums = DOMAIN sums \cup {rnd}
        /\ \A x \in DOMAIN sums \ {rnd} : C.sums[x] = sums[x]
        /\ \A x \in {rnd} : /\ C.sums[x].out # <<>> /\ C.sums[x].sum = ending[x].sum
                            /\ C.sums[x].weight = ending[x].weight /\ C.sums[x].seen = ending[x].seen
                            /\ mode.wide => \A i \in Covers(x[2], x[3]) : C.sums[x].out[i] = MeanOf(ending[x])[i]
    <3> DEFINE F == {rnd}
    <3>1. F = DOMAIN ending /\ (\A x \in F : ending[x] \in RoundRec(Covers(x[2], x[3])) /\ ~Answered(x)) /\ Sane
      BY <2>3, <2>4 DEF ReduceShape
    <3> HIDE DEF F
    <3> QED
      BY <2>3, <3>1, ClosedIs DEF F
  <2> HIDE DEF C
  <2>6. /\ DOMAIN C.sums = DOMAIN sums
        /\ \A x \in DOMAIN sums \ {rnd} : C.sums[x] = sums[x]
        /\ C.sums[rnd].sum = sums[rnd].sum /\ C.sums[rnd].weight = sums[rnd].weight /\ C.sums[rnd].seen = sums[rnd].seen
        /\ mode.wide => \A i \in Covers(rnd[2], rnd[3]) : C.sums[rnd].out[i] = MeanOf(sums[rnd])[i]
    BY <2>2, <2>3, <2>5
  <2>7. MeanOf(C.sums[rnd]) = MeanOf(sums[rnd])
    BY <2>6 DEF MeanOf
  <2>8. ASSUME mode.wide PROVE FairRounds(C.sums) /\ SeenFacts(C.sums, adder, near)
    <3>1. FairRounds(sums) /\ SeenFacts(sums, adder, near)
      BY <2>8 DEF FairBooks
    <3>2. SeenFacts(C.sums, adder, near)
      BY <2>6, <3>1 DEF SeenFacts
    <3>3. FairRounds(C.sums)
      BY <2>6, <2>7, <2>8, <3>1 DEF FairRounds
    <3> QED
      BY <3>2, <3>3
  <2>9. mode.wide => NearFair(near', adder') /\ LoadsFair(adder') /\ FairRounds(sums') /\ SeenFacts(sums', adder', near')
    BY <1>0, <2>1, <2>8 DEF FairBooks
  <2> QED
    BY <1>0, <2>9, FairPrime
<1> QED
  BY <1>1, <1>2

\* A round of a shared machine that has one more member, or is only further.
LEMMA NearFairJoins ==
    ASSUME ReduceShape, NEW A2, NearFair(near, A2), NEW t \in 1..AddSteps, NEW x, NEW N,
           N = Overlay([s \in {t} |-> x], near) \/ (t \in DOMAIN near /\ N = [near EXCEPT ![t] = x]),
           mode.way = "local", Kind(t) = "grads", x.members \subseteq Near,
           \A r \in x.members : t <= A2[r].t, Tally(x.members, t, Elems, x.sum, x.weight)
    PROVE  NearFair(N, A2)
<1>1. DOMAIN N = DOMAIN near \cup {t} /\ N[t] = x /\ \A s \in DOMAIN near \ {t} : N[s] = near[s]
  BY DEF Overlay
<1> QED
  BY <1>1 DEF NearFair

LEMMA NearShortFair ==
    ASSUME ReduceShape, FairBooks, NEW t \in 1..AddSteps, NearShort(t)
    PROVE  FairBooks'
<1> DEFINE x == [near[t] EXCEPT !.at = "sent"]
<1>1. /\ t \in DOMAIN near /\ near[t].at = "open" /\ near' = [near EXCEPT ![t] = x]
      /\ UNCHANGED <<mode, delta, pads, adder, sums, lost>>
  BY DEF NearShort
<1>2. x.members = near[t].members /\ x.sum = near[t].sum /\ x.weight = near[t].weight
  BY <1>1 DEF ReduceShape, NearFact, NearRec
<1> HIDE DEF x
<1>3. ASSUME mode.wide PROVE FairRounds(sums') /\ SeenFacts(sums', adder', near') /\ NearFair(near', adder') /\ LoadsFair(adder')
  <2>1. FairRounds(sums) /\ SeenFacts(sums, adder, near) /\ NearFair(near, adder) /\ LoadsFair(adder) /\ SumsFact(sums)
    BY <1>3 DEF FairBooks, ReduceShape, Sane
  <2> DEFINE N2 == near'
  <2>2. DOMAIN N2 = DOMAIN near /\ \A s \in DOMAIN near \ {t} : N2[s] = near[s]
    BY <1>1
  <2>3. N2 = [near EXCEPT ![t] = x]
    BY <1>1
  <2> HIDE DEF N2
  <2>4. Onward(adder, near, adder, N2)
    BY <1>1, <2>2 DEF Onward, ReduceShape, RankTies, RankRec
  <2>5. SeenFacts(sums, adder, N2)
    BY <2>1, <2>4, SeenStay
  <2>6. /\ mode.way = "local" /\ Kind(t) = "grads" /\ x.members \subseteq Near
        /\ \A r \in x.members : t <= adder[r].t
        /\ Tally(x.members, t, Elems, x.sum, x.weight)
    BY <1>1, <1>2, <2>1 DEF NearFair
  <2>7. NearFair(N2, adder)
    BY <1>1, <2>1, <2>3, <2>6, NearFairJoins
  <2> QED
    BY <1>1, <2>1, <2>5, <2>7 DEF N2
<1> QED
  BY <1>1, <1>3, FairPrime DEF FairBooks

LEMMA SendNearFair ==
    ASSUME ReduceShape, ReduceBooks, FairBooks, NEW r \in Adding, SendNear(r)
    PROVE  FairBooks'
<1> DEFINE t == adder[r].t + 1
           p == Packed(r, t)
           lr == NearRound(t)
           a == Stepped(r, t, p)
           new == [AddTo(lr, Elems, p.load, SampleWeight(Wire(r, t))) EXCEPT !.members = @ \cup {r}]
           at == IF new.members = Near THEN "sent" ELSE "open"
           x == [new EXCEPT !.at = at]
<1>1. adder[r] \in RankRec /\ adder[r].t \in Nat /\ adder[r].load \in Seq(Vec) /\ adder[r].dead \subseteq Adding
  BY DEF ReduceShape, RankTies, RankRec
<1>2. /\ adder' = [adder EXCEPT ![r] = a] /\ adder[r].t < AddSteps
      /\ near' = IF lr.at # "open" THEN near ELSE Overlay([s \in {t} |-> x], near)
      /\ UNCHANGED <<mode, delta, pads, sums, residual, lost>>
      /\ mode.way = "local" /\ Kind(t) = "grads" /\ r \in Near
  BY DEF SendNear, Steps, Nearby
<1>3. t \in 1..AddSteps /\ t \in Nat /\ ~(t <= adder[r].t)
  BY <1>1, <1>2, ReduceAssumption
<1>4. a.t = t /\ a.load = Append(adder[r].load, p.load) /\ a.dead = adder[r].dead
  BY <1>1 DEF Stepped, RankRec
<1>5. DOMAIN adder' = Adding /\ adder'[r] = a /\ \A q \in Adding \ {r} : adder'[q] = adder[q]
  BY <1>2 DEF ReduceShape
<1>6. ASSUME mode.wide PROVE FairRounds(sums') /\ SeenFacts(sums', adder', near') /\ NearFair(near', adder') /\ LoadsFair(adder')
  <2>1. FairRounds(sums) /\ SeenFacts(sums, adder, near) /\ NearFair(near, adder) /\ LoadsFair(adder) /\ SumsFact(sums) /\ NearFact(near)
    BY <1>6 DEF FairBooks, ReduceShape, Sane
  <2>2. p.load = BatchOf(r, t).g
    <3> HIDE DEF t
    <3> QED
      BY <1>3, <1>6, PackedIs
  <2>3. lr \in NearRec /\ (t \in DOMAIN near => lr = near[t]) /\ (t \notin DOMAIN near => lr.members = {} /\ lr.sum = Zero /\ lr.weight = 0)
    <3>1. t \notin DOMAIN near => lr.members = {} /\ lr.sum = Zero /\ lr.weight = 0
      BY DEF NearRound
    <3> QED
      BY <3>1, NearRoundIs
  <2> DEFINE A2 == adder'
             N2 == near'
  <2>4. \A q \in Adding : adder[q].t <= A2[q].t /\ adder[q].t \in Nat /\ A2[q].t \in Nat /\ adder[q].dead \subseteq A2[q].dead
    <3>1. \A q \in Adding : adder[q].t \in Nat /\ adder[q].t <= adder[q].t
      BY DEF ReduceShape, RankTies, RankRec
    <3>2. adder[r].t <= a.t /\ a.t \in Nat /\ adder[r].dead \subseteq a.dead
      BY <1>1, <1>4
    <3> HIDE DEF a
    <3> QED
      BY <1>5, <3>1, <3>2
  <2>5. LoadsFair(A2)
    <3>1. DOMAIN A2 = Adding /\ A2[r] = a /\ \A q \in Adding \ {r} : A2[q] = adder[q]
      BY <1>5
    <3>2. a.t = adder[r].t + 1 /\ a.load = Append(adder[r].load, BatchOf(r, a.t).g)
      BY <1>4, <2>2
    <3> HIDE DEF A2, a
    <3> QED
      BY <1>6, <3>1, <3>2, LoadsGrow
  <2>6. NearFair(near, A2)
    <3> HIDE DEF A2
    <3> QED
      BY <2>1, <2>4, NearStay
  <2>7. CASE lr.at # "open"
    <3>1. N2 = near
      BY <1>2, <2>7
    <3> HIDE DEF A2, N2
    <3>2. Onward(adder, near, A2, N2)
      BY <2>4, <3>1 DEF Onward
    <3>3. SeenFacts(sums, A2, N2)
      BY <2>1, <3>2, SeenStay
    <3> QED
      BY <1>2, <2>1, <2>5, <2>6, <3>1, <3>3 DEF A2, N2
  <2>8. CASE lr.at = "open"
    <3> DEFINE load == BatchOf(r, t).g
               v == SampleWeight(Wire(r, t))
               members == lr.members
               sum == lr.sum
               weight == lr.weight
               sum2 == [i \in Elems |-> IF i \in Elems THEN sum[i] + load[i] * v ELSE sum[i]]
    <3>1. x.members = members \cup {r} /\ x.sum = sum2 /\ x.weight = weight + v /\ x.at = at
      BY <2>2, <2>3 DEF AddTo, NearRec
    <3>2. members \subseteq Near /\ (\A q \in members : t <= adder[q].t) /\ Tally(members, t, Elems, sum, weight) /\ members \in SUBSET Adding
      <4>1. members \in SUBSET Adding
        BY <2>3 DEF NearRec
      <4>2. CASE t \in DOMAIN near
        BY <2>1, <2>3, <4>1, <4>2 DEF NearFair
      <4>3. CASE t \notin DOMAIN near
        <5>1. members = {} /\ sum = Zero /\ weight = 0
          BY <2>3, <4>3
        <5>2. Tally({}, t, Elems, Zero, 0)
          <6> HIDE DEF t
          <6> QED
            BY <1>3, EmptyTally
        <5> QED
          BY <5>1, <5>2
      <4> QED
        BY <4>2, <4>3
    <3>3. r \notin members
      BY <1>3, <3>2
    <3>4. /\ v = Counts(r, t) /\ v = Samples({r}, t) /\ \A i \in Elems : load[i] * v = Gradient({r}, t, i) /\ load[i] \in Int /\ v \in Int
      <4> HIDE DEF t
      <4>1. v = Counts(r, t) /\ v \in Int /\ \A i \in Elems : load[i] \in Int
        BY <1>3, CountsAre
      <4>2. \A i \in Elems : Samples({r}, t) = Counts(r, t) /\ Gradient({r}, t, i) = Counts(r, t) * load[i]
        BY <1>3, OneSample
      <4>3. ASSUME NEW i \in Elems PROVE load[i] * v = Gradient({r}, t, i)
        <5> DEFINE y == load[i]
        <5>1. y \in Int /\ v \in Int /\ Gradient({r}, t, i) = v * y
          BY <4>1, <4>2
        <5> HIDE DEF y, v
        <5>2. y * v = v * y
          BY <5>1
        <5> QED
          BY <5>1, <5>2 DEF y
      <4> QED
        BY <4>1, <4>2, <4>3, ElemsAre
    <3>5. Tally(members \cup {r}, t, Elems, sum2, weight + v)
      <4>1. {r} \in SUBSET Adding /\ members \cap {r} = {} /\ Elems # {} /\ Elems \subseteq Elems
        BY <3>3, ElemsAre
      <4>2. \A i \in Elems : sum2[i] = sum[i] + load[i] * v
        OBVIOUS
      <4>3. \A i \in Elems : load[i] * v = Gradient({r}, t, i)
        BY <3>4
      <4> DEFINE T == {r}
      <4> HIDE DEF t, load, v, members, sum, weight, sum2, T
      <4>4. T \in SUBSET Adding /\ members \cap T = {} /\ v = Samples(T, t) /\ \A i \in Elems : load[i] * v = Gradient(T, t, i)
        BY <3>4, <4>1, <4>3 DEF T
      <4>5. Tally(members \cup T, t, Elems, sum2, weight + v)
        BY <1>3, <3>2, <4>1, <4>2, <4>4, TallyJoins
      <4> QED
        BY <4>5 DEF T
    <3>6. Tally(x.members, t, Elems, x.sum, x.weight) /\ x.members \subseteq Near
      <4> HIDE DEF x, sum2, v, members, sum, weight, t
      <4> QED
        BY <1>2, <3>1, <3>2, <3>5
    <3>7. \A q \in x.members : t <= A2[q].t
      <4>1. \A q \in members : q \in Adding /\ t <= adder[q].t /\ adder[q].t <= A2[q].t /\ adder[q].t \in Nat /\ A2[q].t \in Nat
        BY <2>4, <3>2
      <4>2. A2[r].t = t
        BY <1>4, <1>5
      <4> HIDE DEF A2, t, x
      <4>3. ASSUME NEW q \in members PROVE t <= A2[q].t
        <5> DEFINE y == adder[q].t
                   z == A2[q].t
        <5>1. t \in Nat /\ y \in Nat /\ z \in Nat /\ t <= y /\ y <= z
          BY <1>3, <4>1
        <5> HIDE DEF y, z
        <5>2. t <= z
          BY <5>1
        <5> QED
          BY <5>2 DEF z
      <4> QED
        BY <1>3, <3>1, <4>2, <4>3
    <3>8. N2 = Overlay([s \in {t} |-> x], near)
      BY <1>2, <2>8
    <3>9. Onward(adder, near, A2, N2)
      <4>1. t \in DOMAIN near => near[t].at = "open"
        BY <2>3, <2>8
      <4>2. DOMAIN N2 = DOMAIN near \cup {t} /\ \A s \in DOMAIN near \ {t} : N2[s] = near[s]
        BY <3>8 DEF Overlay
      <4> HIDE DEF A2, N2, t
      <4> QED
        BY <2>4, <4>1, <4>2 DEF Onward
    <3> HIDE DEF A2, N2, t, x
    <3>10. NearFair(N2, A2)
      BY <1>2, <1>3, <2>6, <3>6, <3>7, <3>8, NearFairJoins
    <3>11. SeenFacts(sums, A2, N2)
      BY <2>1, <3>9, SeenStay
    <3> QED
      BY <1>2, <2>1, <2>5, <3>10, <3>11 DEF A2, N2
  <2> QED
    BY <2>7, <2>8
<1> QED
  BY <1>2, <1>6, FairPrime DEF FairBooks

LEMMA ForwardFair ==
    ASSUME ReduceShape, FairBooks, NEW t \in 1..AddSteps, Forward(t)
    PROVE  FairBooks'
<1> DEFINE lr == near[t]
           m  == MeanOf(lr)
           q  == IF mode.wide THEN [out |-> m, left |-> Zero] ELSE Int8(Plus(m, Carried(<<Min(Near), "up", 0>>)))
           keys == {<<0, t, 0>>}
           who == lr.members
           w  == SamplesOf(lr)
           C  == Contributed(keys, who, q.out, w)
           x  == [near[t] EXCEPT !.at = "asked", !.out = q.out]
<1>1. /\ t \in DOMAIN near /\ lr.at = "sent" /\ sums' = C.sums
      /\ near' = [near EXCEPT ![t].at = "asked", ![t].out = q.out]
      /\ UNCHANGED <<mode, delta, pads, adder, lost>>
  BY DEF Forward
<1>2. near' = [near EXCEPT ![t] = x]
  <2> DEFINE out == q.out
  <2>1. near' = [near EXCEPT ![t].at = "asked", ![t].out = out] /\ t \in DOMAIN near
    BY <1>1
  <2> HIDE DEF out
  <2>2. near' = [near EXCEPT ![t] = [near[t] EXCEPT !.at = "asked", !.out = out]]
    BY <2>1
  <2> QED
    BY <2>2 DEF out
<1>3. lr \in NearRec /\ lr.sum \in Vec /\ lr.weight \in Nat /\ who \in SUBSET Adding
  BY <1>1 DEF ReduceShape, NearFact, NearRec
<1>4. x.members = who /\ x.sum = lr.sum /\ x.weight = lr.weight /\ x.at = "asked"
  BY <1>3 DEF NearRec
<1> HIDE DEF x
<1>5. ASSUME mode.wide PROVE FairRounds(sums') /\ SeenFacts(sums', adder', near') /\ NearFair(near', adder') /\ LoadsFair(adder')
  <2>1. FairRounds(sums) /\ SeenFacts(sums, adder, near) /\ NearFair(near, adder) /\ LoadsFair(adder) /\ SumsFact(sums) /\ Sane
    BY <1>5 DEF FairBooks, ReduceShape, Sane
  <2>2. /\ mode.way = "local" /\ Kind(t) = "grads" /\ who \subseteq Near
        /\ \A r \in who : t <= adder[r].t
        /\ Tally(who, t, Elems, lr.sum, lr.weight)
    BY <1>1, <2>1 DEF NearFair
  <2>3. q.out = m /\ m \in Vec /\ \A i \in Elems : m[i] = IF lr.weight = 0 THEN 0 ELSE lr.sum[i] \div lr.weight
    BY <1>3, <1>5, MeanIs
  <2>4. w \in Int /\ SampleWeight(w) = lr.weight
    <3> DEFINE n == lr.weight
    <3>1. n \in Nat /\ w = IF n = 0 THEN -1 ELSE n
      BY <1>3 DEF SamplesOf
    <3> HIDE DEF n, w
    <3>2. w \in Int /\ SampleWeight(w) = n
      BY <3>1 DEF SampleWeight
    <3> QED
      BY <3>2 DEF n
  <2>5. lr.weight = Samples(who, t) /\ \A i \in Elems : lr.sum[i] = Gradient(who, t, i)
    BY <2>2 DEF Tally
  <2>6. ASSUME NEW i \in Elems PROVE m[i] * SampleWeight(w) = Gradient(who, t, i)
    <3> DEFINE n == lr.weight
               s == lr.sum[i]
    <3>1. n = Samples(who, t) /\ s = Gradient(who, t, i) /\ who \in SUBSET Adding /\ t \in Nat
      BY <1>3, <2>5
    <3>2. m[i] = (IF n = 0 THEN 0 ELSE s \div n) /\ SampleWeight(w) = n
      BY <2>3, <2>4
    <3> HIDE DEF n, s, m, w, who
    <3>3. (IF n = 0 THEN 0 ELSE s \div n) * n = s
      BY <3>1, MeanIsExact
    <3> QED
      BY <3>1, <3>2, <3>3
  <2>7. OnePerShard(keys) /\ \A rnd \in keys : rnd[2] = t
    BY ElemsAre DEF OnePerShard, Keys
  <2>8. \A r \in who : Nearby(r, t)
    BY <2>2 DEF Nearby
  <2>9. ASSUME NEW rnd \in keys, NEW r \in who PROVE r \notin Round(rnd).seen
    <3>1. rnd[2] = t
      OBVIOUS
    <3>2. rnd \in DOMAIN sums => \A p \in sums[rnd].seen : Nearby(p, t) => near[t].at = "asked"
      BY <2>1, <3>1 DEF SeenFacts, Seen
    <3> QED
      BY <1>1, <2>8, <3>2 DEF Round, NoSum
  <2>10. \A rnd \in Open(keys) : who \cap Round(rnd).seen = {}
    BY <2>9 DEF Open
  <2> DEFINE load == q.out
  <2>11. load \in Vec /\ \A i \in Elems : load[i] * SampleWeight(w) = Gradient(who, t, i)
    BY <2>3, <2>6
  <2>a. SampleWeight(w) = Samples(who, t)
    BY <2>4, <2>5
  <2>b. C = Contributed(keys, who, load, w)
    OBVIOUS
  <2> HIDE DEF load, w, who, keys, m, q, C
  <2>12. FairRounds(C.sums) /\ OnlyJoin(C.sums, keys, who)
    BY <1>3, <1>5, <2>1, <2>4, <2>7, <2>10, <2>11, <2>a, <2>b, FairJoins
  <2> DEFINE N2 == near'
             S2 == C.sums
  <2>13. DOMAIN N2 = DOMAIN near /\ N2[t] = x /\ \A s \in DOMAIN near \ {t} : N2[s] = near[s]
    BY <1>1, <1>2
  <2>14. N2 = [near EXCEPT ![t] = x]
    BY <1>2
  <2> HIDE DEF N2
  <2>15. Onward(adder, near, adder, N2)
    <3>1. \A r \in Adding : adder[r].t \in Nat /\ adder[r].t <= adder[r].t
      BY DEF ReduceShape, RankTies, RankRec
    <3> QED
      BY <1>1, <2>13, <3>1 DEF Onward
  <2>16. ASSUME NEW rnd \in keys, NEW r \in who PROVE Seen(rnd, r, adder, N2)
    <3>1. rnd[2] = t /\ t <= adder[r].t
      BY <2>2, <2>7
    <3>2. t \in DOMAIN N2 /\ N2[t].at = "asked" /\ ~Sharded(t)
      BY <1>1, <1>4, <2>2, <2>13 DEF Sharded
    <3> QED
      BY <3>1, <3>2 DEF Seen
  <2>17. SeenFacts(S2, adder, N2)
    <3>1. \A rnd \in DOMAIN S2 : \A r \in S2[rnd].seen : (rnd \in DOMAIN sums /\ r \in sums[rnd].seen) \/ Seen(rnd, r, adder, N2)
      BY <2>12, <2>16 DEF OnlyJoin
    <3> HIDE DEF S2
    <3> QED
      BY <2>1, <2>15, <3>1, SeenStay
  <2>18. NearFair(N2, adder)
    <3>1. /\ x.members \subseteq Near /\ \A r \in x.members : t <= adder[r].t
          /\ Tally(x.members, t, Elems, x.sum, x.weight)
      BY <1>4, <2>2
    <3> QED
      BY <1>1, <2>1, <2>2, <2>14, <3>1, NearFairJoins
  <2> QED
    BY <1>1, <2>1, <2>12, <2>17, <2>18 DEF N2
<1> QED
  BY <1>1, <1>5, FairPrime DEF FairBooks

LEMMA FairKeeps ==
    ASSUME ReduceShape, ReduceBooks, FairBooks, [ReduceNext]_reduceVars
    PROVE  FairBooks'
<1>1. ASSUME UNCHANGED reduceVars PROVE FairBooks'
  <2>1. UNCHANGED <<mode, delta, pads, adder, sums, near, lost>>
    BY <1>1 DEF reduceVars
  <2> QED
    BY <2>1, FairPrime DEF FairBooks
<1>2. ASSUME NEW r \in Adding, TakeMeans(r) PROVE FairBooks'
  BY <1>2, TakenFair DEF TakeMeans
<1>3. ASSUME NEW r \in Adding, TakeNear(r) PROVE FairBooks'
  BY <1>3, TakenFair DEF TakeNear
<1>4. ASSUME NEW r \in Adding, LoseMachine(r) PROVE FairBooks'
  <2>1. UNCHANGED <<mode, delta, pads, adder, sums, near>> /\ lost' \subseteq Fragile /\ DOMAIN adder' = Adding
    BY <1>4 DEF LoseMachine, FairBooks, ReduceShape
  <2> QED
    BY <2>1, FairSame
<1>5. ASSUME ReduceNext PROVE FairBooks'
  <2>1. CASE \E r \in Adding : Send(r) \/ TakeMeans(r) \/ SendNear(r) \/ TakeNear(r) \/ LoseMachine(r)
    BY <1>2, <1>3, <1>4, <2>1, SendFair, SendNearFair
  <2>2. CASE \E r, k \in Adding : ShardLost(r, k)
    BY <2>2, ShardLostFair
  <2>3. CASE \E rnd \in Keys : CloseShort(rnd)
    BY <2>3, CloseShortFair
  <2>4. CASE \E t \in 1..AddSteps : NearShort(t) \/ Forward(t)
    BY <2>4, NearShortFair, ForwardFair
  <2>5. CASE ReduceOver
    BY <1>1, <2>5 DEF ReduceOver
  <2> QED
    BY <1>5, <2>1, <2>2, <2>3, <2>4, <2>5 DEF ReduceNext
<1> QED
  BY <1>1, <1>5

LEMMA FairTells ==
    ASSUME ReduceShape, FairBooks
    PROVE  FairMean
<1> SUFFICES ASSUME mode.wide, NEW rnd \in DOMAIN sums, Answered(rnd), NEW i \in Covers(rnd[2], rnd[3])
             PROVE  sums[rnd].out[i] * Samples(sums[rnd].seen, rnd[2]) = Gradient(sums[rnd].seen, rnd[2], i)
  BY DEF FairMean, SumOver, Samples, Gradient, Counts
<1> DEFINE e == sums[rnd]
           t == rnd[2]
           n == Samples(e.seen, t)
           s == Gradient(e.seen, t, i)
<1>1. rnd \in Keys /\ e \in RoundRec(Covers(t, rnd[3])) /\ e.out # <<>>
  BY DEF ReduceShape, Sane, SumsFact, Answered, Round
<1>2. e.seen \in SUBSET Adding /\ e.sum \in Vec /\ e.weight \in Nat
  BY <1>1 DEF RoundRec
<1>3. t \in Nat /\ i \in Elems
  BY <1>1, KeysAre, ElemsAre
<1>4. e.weight = n /\ e.sum[i] = s /\ e.out[i] = MeanOf(e)[i]
  BY <1>1 DEF FairBooks, FairRounds, Tally
<1>5. MeanOf(e)[i] = IF e.weight = 0 THEN 0 ELSE e.sum[i] \div e.weight
  BY <1>2, <1>3, MeanIs
<1>6. (IF n = 0 THEN 0 ELSE s \div n) * n = s
  <2> DEFINE S == e.seen
  <2>1. S \in SUBSET Adding /\ n = Samples(S, t) /\ s = Gradient(S, t, i)
    BY <1>2
  <2> HIDE DEF S, n, s, t
  <2> QED
    BY <1>3, <2>1, MeanIsExact
<1> QED
  BY <1>4, <1>5, <1>6

\* At full width an average is the one of the samples of its ranks.
THEOREM MeansAreFair == ReduceSpec => []FairMean
<1> DEFINE I == ReduceShape /\ ReduceBooks /\ FairBooks
<1>1. ReduceInit => I
  <2> SUFFICES ASSUME ReduceInit PROVE ReduceShape /\ ReduceBooks /\ FairBooks
    OBVIOUS
  <2>1. mode.wide \in BOOLEAN /\ ReduceFresh
    BY DEF ReduceInit
  <2>2. ReduceShape /\ ReduceBooks
    BY <2>1, ReduceStarts
  <2>3. lost = {} /\ DOMAIN sums = {} /\ DOMAIN near = {} /\ \A r \in Adding : adder[r].t = 0
    BY <2>1 DEF ReduceFresh
  <2>4. FairBooks
    BY <2>3 DEF FairBooks, FairRounds, SeenFacts, NearFair, LoadsFair
  <2> QED
    BY <2>2, <2>4
<1>2. I /\ [ReduceNext]_reduceVars => I'
  BY ReduceKeeps, FairKeeps
<1>3. I => FairMean
  BY FairTells
<1> QED
  BY <1>1, <1>2, <1>3, PTL DEF ReduceSpec
=============================================================================
