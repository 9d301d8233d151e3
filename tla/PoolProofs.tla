------------------------------ MODULE PoolProofs ------------------------------
(***************************************************************************)
(* Theorems about the pool: the chunks a daemon runs (PoolMap), its warm   *)
(* workers (WarmWorker), the maps a script races against it (ShimRace) and *)
(* what goes over its wire (PoolWire), for any number of chunks, items,    *)
(* peers, requests, workers, links, bodies and failures.  Each part has an *)
(* inductive invariant of its own: MapInv, WorkerInv, RaceInv, and BodyInv *)
(* with RouteInv.                                                          *)
(***************************************************************************)
EXTENDS PoolMap, WarmWorker, ShimRace, PoolWire, Recursion, FiniteSetTheorems

-----------------------------------------------------------------------------
(* The parts of a chunk.                                                    *)

\* The numbers of a sequence grow.
Rises(s) == \A i, j \in DOMAIN s : i < j => s[i] < s[j]

\* Parts that take the items of a chunk in order, each item once.
Ordered(ps) ==
    /\ Len(ps) <= Items
    /\ \A i \in DOMAIN ps : Rises(ps[i].items)
    /\ \A i, j \in DOMAIN ps : i < j =>
          \A x \in ToSet(ps[i].items), y \in ToSet(ps[j].items) : x < y
    /\ \A x \in 1..Items : \E i \in DOMAIN ps : x \in ToSet(ps[i].items)

\* A part no goroutine has begun with.
FreshPart(p) ==
    /\ p.pc \in {"walk", "local"} /\ p.copies = Idle /\ p.result = << >>
    /\ ~p.tail /\ ~p.tried /\ ~p.err /\ ~p.raced

\* What a part's goroutine has seen to: copies run only while it waits for
\* them, a peer that was asked has failed where the walk goes on, and a part
\* that is done without an error has its items unless no peer was asked.
PartInv(p) ==
    /\ p.pc # "sent" => p.copies = Idle /\ ~p.tail
    /\ p.pc = "sent" => p.at \in Peer
    /\ p.pc = "gate" => p.todo # << >>
    /\ p.pc # "done" => p.result = << >> /\ ~p.raced
    /\ p.pc \in {"walk", "gate"} /\ p.tried => p.err
    /\ p.pc = "done" /\ ~p.err => p.result = p.items \/ (p.result = << >> /\ ~p.tried)

\* An answer has its items in order, and all but those of untried parts.
RightAnswer(c) ==
    /\ Rises(answer[c])
    /\ ToSet(answer[c]) = (1..Items) \ Untried(c)

MapInv ==
    /\ TypeOK
    /\ \A c \in Chunk : IF phase[c] = "idle" THEN parts[c] = << >> ELSE Ordered(parts[c])
    /\ \A c \in Chunk : \A i \in DOMAIN parts[c] : PartInv(parts[c][i])
    /\ \A c \in Chunk : phase[c] = "answered" =>
          (\A i \in DOMAIN parts[c] : parts[c][i].pc = "done") /\ RightAnswer(c)
    /\ \A q \in Peer : held[q] = losers[q] + Cardinality(Uses(q))
    /\ Cardinality(Tails) = IF backups THEN 1 ELSE 0

\* A part is made fresh.
LEMMA PartIs ==
    ASSUME NEW items \in Seq(1..Items), NEW peers \in Seq(Peer), NEW steal \in BOOLEAN
    PROVE  /\ Part(items, peers, steal) \in PartType /\ FreshPart(Part(items, peers, steal))
           /\ Part(items, peers, steal).items = items
<1> DEFINE p == Part(items, peers, steal)
<1>1. Idle \in [Node -> {"none", "running", "failed"}] /\ Here \in Node /\ << >> \in Seq(1..Items)
  BY DEF Idle, Node
<1>2. (IF peers = << >> THEN "local" ELSE "walk") \in {"walk", "local"}
  OBVIOUS
<1>3. p \in PartType
  BY <1>1, <1>2 DEF Part, PartType
<1> QED
  BY <1>2, <1>3 DEF Part, FreshPart

\* The items of a run of them.
LEMMA SubItems ==
    ASSUME NEW a \in 1..Items, NEW b \in a..Items
    PROVE  /\ SubSeq(AllItems, a, b) \in Seq(1..Items)
           /\ Rises(SubSeq(AllItems, a, b))
           /\ ToSet(SubSeq(AllItems, a, b)) = a..b
<1> DEFINE s == SubSeq(AllItems, a, b)
<1>1. AllItems \in Seq(1..Items) /\ Len(AllItems) = Items /\ \A i \in 1..Items : AllItems[i] = i
  BY PoolAssumption DEF AllItems
<1>2. a \in Nat /\ b \in Nat /\ a <= b /\ b <= Items /\ 1 <= a
  BY PoolAssumption
<1>3. s = [i \in 1..(b - a + 1) |-> a + i - 1]
  <2>1. s = [i \in 1..(b - a + 1) |-> AllItems[i + a - 1]]
    BY <1>1, <1>2
  <2>2. \A i \in 1..(b - a + 1) : i + a - 1 \in 1..Items /\ i + a - 1 = a + i - 1
    BY <1>2, PoolAssumption
  <2> QED
    BY <1>1, <2>1, <2>2
<1>4. \A i \in 1..(b - a + 1) : a + i - 1 \in a..b /\ a + i - 1 \in 1..Items
  BY <1>2, PoolAssumption
<1>5. s \in Seq(1..Items) /\ DOMAIN s = 1..(b - a + 1)
  BY <1>2, <1>3, <1>4
<1>6. Rises(s)
  BY <1>2, <1>3 DEF Rises
<1>7. ToSet(s) = a..b
  <2>1. ASSUME NEW x \in a..b PROVE x - a + 1 \in 1..(b - a + 1) /\ a + (x - a + 1) - 1 = x
    BY <1>2
  <2>2. ASSUME NEW x \in a..b PROVE \E i \in 1..(b - a + 1) : s[i] = x
    BY <1>3, <2>1
  <2>3. ASSUME NEW i \in 1..(b - a + 1) PROVE s[i] \in a..b
    BY <1>3, <1>4
  <2> QED
    BY <1>5, <2>2, <2>3 DEF ToSet
<1> QED
  BY <1>5, <1>6, <1>7

\* So are all items, and one alone.
LEMMA WholeIs ==
    /\ AllItems \in Seq(1..Items) /\ Rises(AllItems) /\ ToSet(AllItems) = 1..Items
    /\ \A i \in 1..Items : << i >> \in Seq(1..Items) /\ Rises(<< i >>) /\ ToSet(<< i >>) = {i}
<1>1. AllItems \in Seq(1..Items) /\ DOMAIN AllItems = 1..Items
  BY PoolAssumption DEF AllItems
<1>2. Rises(AllItems) /\ ToSet(AllItems) = 1..Items
  BY <1>1, PoolAssumption DEF AllItems, Rises, ToSet
<1>3. ASSUME NEW i \in 1..Items
      PROVE  << i >> \in Seq(1..Items) /\ Rises(<< i >>) /\ ToSet(<< i >>) = {i}
  <2>1. << i >> \in Seq(1..Items) /\ DOMAIN << i >> = {1}
    OBVIOUS
  <2> QED
    BY <2>1 DEF Rises, ToSet
<1> QED
  BY <1>1, <1>2, <1>3

\* A ranking and its rotations are sequences of peers.
LEMMA RankingIs ==
    ASSUME NEW peers \in Rankings
    PROVE  /\ peers \in Seq(Peer)
           /\ \A j \in 1..Len(peers) : Rotated(peers, j) \in Seq(Peer) /\ Preferred(peers, j) \in Seq(Peer)
<1>1. PICK n \in 0..Cardinality(Peer) : peers \in [1..n -> Peer]
  BY DEF Rankings
<1>2. n \in Nat
  BY <1>1, FS_CardinalityType, PoolAssumption
<1>3. peers \in Seq(Peer) /\ Len(peers) = n
  BY <1>1, <1>2
<1>4. ASSUME NEW j \in 1..n PROVE Rotated(peers, j) \in Seq(Peer)
  <2>1. j \in 1..n + 1 /\ n \in j - 1..n /\ 1 \in 1..n + 1 /\ j - 1 \in 0..n
    BY <1>2
  <2>2. SubSeq(peers, j, n) \in Seq(Peer) /\ SubSeq(peers, 1, j - 1) \in Seq(Peer)
    BY <1>2, <1>3, <2>1
  <2> QED
    BY <1>3, <2>2, ConcatProperties DEF Rotated
<1>5. ASSUME NEW j \in 1..n PROVE Preferred(peers, j) \in Seq(Peer)
  <2>1. ASSUME NEW i \in 1..n
        PROVE  (IF i = 1 THEN peers[j] ELSE IF i <= j THEN peers[i - 1] ELSE peers[i]) \in Peer
    <3>1. i # 1 => i - 1 \in 1..n
      BY <1>2
    <3> QED
      BY <1>1, <3>1
  <2>2. Preferred(peers, j) \in [1..n -> Peer]
    BY <1>3, <2>1 DEF Preferred
  <2> QED
    BY <1>2, <2>2
<1> QED
  BY <1>3, <1>4, <1>5

\* A plan of one part for all.
LEMMA OnePartPlan ==
    ASSUME NEW peers \in Seq(Peer), NEW steal \in BOOLEAN
    PROVE  LET plan == << Part(AllItems, peers, steal) >>
           IN  plan \in Seq(PartType) /\ Ordered(plan) /\ \A i \in DOMAIN plan : FreshPart(plan[i])
<1> DEFINE p == Part(AllItems, peers, steal)
<1>1. p \in PartType /\ FreshPart(p) /\ p.items = AllItems
  BY PartIs, WholeIs
<1> HIDE DEF p
<1>2. << p >> \in Seq(PartType) /\ DOMAIN << p >> = {1} /\ << p >>[1] = p /\ Len(<< p >>) = 1
  BY <1>1
<1>3. Ordered(<< p >>)
  BY <1>1, <1>2, WholeIs, PoolAssumption DEF Ordered
<1> QED
  BY <1>1, <1>2, <1>3 DEF p

\* One part per item.
LEMMA NoSplitPlan ==
    ASSUME NEW peers \in Rankings, NEW plan \in NoSplitParts(peers)
    PROVE  plan \in Seq(PartType) /\ Ordered(plan) /\ \A i \in DOMAIN plan : FreshPart(plan[i])
<1>1. PICK ps \in [1..Items -> Seq(Peer)] : plan = [i \in 1..Items |-> Part(<< i >>, ps[i], FALSE)]
  <2>1. CASE peers = << >>
    <3> DEFINE ps == [i \in 1..Items |-> << >>]
    <3>1. ps \in [1..Items -> Seq(Peer)]
      OBVIOUS
    <3>2. plan = [i \in 1..Items |-> Part(<< i >>, ps[i], FALSE)]
      BY <2>1 DEF NoSplitParts
    <3> QED
      BY <3>1, <3>2
  <2>2. CASE peers # << >>
    <3>1. PICK t \in [1..Items -> 1..Len(peers)] :
                plan = [i \in 1..Items |-> Part(<< i >>, Rotated(peers, t[i]), FALSE)]
      BY <2>2 DEF NoSplitParts
    <3> DEFINE ps == [i \in 1..Items |-> Rotated(peers, t[i])]
    <3>2. ps \in [1..Items -> Seq(Peer)]
      BY <3>1, RankingIs
    <3>3. plan = [i \in 1..Items |-> Part(<< i >>, ps[i], FALSE)]
      BY <3>1
    <3> QED
      BY <3>2, <3>3
  <2> QED
    BY <2>1, <2>2
<1>2. ASSUME NEW i \in 1..Items
      PROVE  plan[i] \in PartType /\ FreshPart(plan[i]) /\ plan[i].items = << i >>
  <2>1. ps[i] \in Seq(Peer) /\ << i >> \in Seq(1..Items) /\ FALSE \in BOOLEAN
    BY <1>1, WholeIs
  <2> QED
    BY <1>1, <2>1, PartIs
<1>3. plan \in Seq(PartType) /\ DOMAIN plan = 1..Items /\ Len(plan) = Items
  <2>1. plan \in [1..Items -> PartType]
    BY <1>1, <1>2
  <2> QED
    BY <2>1, PoolAssumption
<1>4. Ordered(plan)
  <2>1. \A i \in 1..Items : Rises(plan[i].items) /\ ToSet(plan[i].items) = {i}
    BY <1>2, WholeIs
  <2>2. Len(plan) <= Items
    BY <1>3, PoolAssumption
  <2>3. \A i \in 1..Items : \A x \in ToSet(plan[i].items) : x = i
    BY <2>1
  <2>4. \A i, j \in 1..Items : i < j =>
           \A x \in ToSet(plan[i].items), y \in ToSet(plan[j].items) : x < y
    BY <2>3
  <2>5. \A x \in 1..Items : x \in ToSet(plan[x].items)
    BY <2>1
  <2> QED
    BY <1>3, <2>1, <2>2, <2>4, <2>5 DEF Ordered
<1> QED
  BY <1>2, <1>3, <1>4

\* Shares end where the next begins, and the last with the last item.
LEMMA SplitPlan ==
    ASSUME NEW peers \in Rankings, NEW k, NEW plan \in SplitParts(peers, k)
    PROVE  plan \in Seq(PartType) /\ Ordered(plan) /\ \A i \in DOMAIN plan : FreshPart(plan[i])
<1> DEFINE local == IF k.elsewhere \/ k.off THEN 0 ELSE 1
<1>1. local \in 0..1
  OBVIOUS
<1>2. PICK m \in 1..Items : \E dev \in Rising(m, Len(peers) + local),
                               end \in {e \in Rising(m, Items) : e[m] = Items} :
             plan = [i \in 1..m |-> IF dev[i] <= local THEN Part(Share(end, i), << >>, FALSE)
                                    ELSE Part(Share(end, i), Preferred(peers, dev[i] - local), TRUE)]
  <2> DEFINE Of(m, dev, end) ==
               [i \in 1..m |-> IF dev[i] <= local THEN Part(Share(end, i), << >>, FALSE)
                               ELSE Part(Share(end, i), Preferred(peers, dev[i] - local), TRUE)]
             All(m) == {Of(m, dev, end) : dev \in Rising(m, Len(peers) + local),
                                          end \in {e \in Rising(m, Items) : e[m] = Items}}
  <2>1. SplitParts(peers, k) = UNION {All(m) : m \in 1..Items}
    BY DEF SplitParts
  <2>2. PICK m \in 1..Items : plan \in All(m)
    <3> HIDE DEF All
    <3> QED
      BY <2>1
  <2>3. \E dev \in Rising(m, Len(peers) + local), end \in {e \in Rising(m, Items) : e[m] = Items} :
          plan = Of(m, dev, end)
    <3> HIDE DEF Of, local
    <3> QED
      BY <2>2
  <2> QED
    BY <2>3
<1>3. PICK dev \in Rising(m, Len(peers) + local), end \in Rising(m, Items) :
             /\ end[m] = Items
             /\ plan = [i \in 1..m |-> IF dev[i] <= local THEN Part(Share(end, i), << >>, FALSE)
                                       ELSE Part(Share(end, i), Preferred(peers, dev[i] - local), TRUE)]
  BY <1>2
<1>4. m \in Nat /\ Len(peers) \in Nat /\ dev \in [1..m -> 1..(Len(peers) + local)]
  <2>1. peers \in Seq(Peer)
    BY RankingIs
  <2> QED
    BY <1>3, <2>1, PoolAssumption DEF Rising
<1>5. /\ end \in [1..m -> 1..Items]
      /\ \A i, j \in 1..m : i < j => end[i] < end[j]
  BY <1>3 DEF Rising
<1> DEFINE from(i) == IF i = 1 THEN 1 ELSE end[i - 1] + 1
<1>6. ASSUME NEW i \in 1..m
      PROVE  from(i) \in 1..Items /\ end[i] \in from(i)..Items
  <2>1. CASE i = 1
    BY <1>5, <2>1, PoolAssumption
  <2>2. CASE i # 1
    <3>1. i - 1 \in 1..m /\ i - 1 < i
      BY <1>4, <2>2
    <3>2. end[i - 1] < end[i] /\ end[i - 1] \in 1..Items /\ end[i] \in 1..Items
      BY <1>5, <3>1
    <3> QED
      BY <2>2, <3>2, PoolAssumption
  <2> QED
    BY <2>1, <2>2
<1>7. ASSUME NEW i \in 1..m
      PROVE  /\ Share(end, i) \in Seq(1..Items) /\ Rises(Share(end, i))
             /\ ToSet(Share(end, i)) = from(i)..end[i]
  BY <1>6, SubItems DEF Share
<1>8. ASSUME NEW i \in 1..m
      PROVE  plan[i] \in PartType /\ FreshPart(plan[i]) /\ plan[i].items = Share(end, i)
  <2>1. CASE dev[i] <= local
    <3>1. plan[i] = Part(Share(end, i), << >>, FALSE)
      BY <1>3, <2>1
    <3>2. << >> \in Seq(Peer) /\ FALSE \in BOOLEAN /\ Share(end, i) \in Seq(1..Items)
      BY <1>7
    <3> QED
      BY <3>1, <3>2, PartIs
  <2>2. CASE ~(dev[i] <= local)
    <3>1. plan[i] = Part(Share(end, i), Preferred(peers, dev[i] - local), TRUE)
      BY <1>3, <2>2
    <3>2. dev[i] - local \in 1..Len(peers)
      <4>1. dev[i] \in 1..(Len(peers) + local)
        BY <1>4
      <4> HIDE DEF local
      <4> QED
        BY <1>1, <1>4, <2>2, <4>1
    <3>3. Preferred(peers, dev[i] - local) \in Seq(Peer) /\ TRUE \in BOOLEAN
          /\ Share(end, i) \in Seq(1..Items)
      BY <1>7, <3>2, RankingIs
    <3> QED
      BY <3>1, <3>3, PartIs
  <2> QED
    BY <2>1, <2>2
<1>9. plan \in Seq(PartType) /\ DOMAIN plan = 1..m /\ Len(plan) = m
  <2>1. plan \in [1..m -> PartType]
    <3>1. DOMAIN plan = 1..m /\ plan = [i \in 1..m |-> plan[i]]
      BY <1>3
    <3> QED
      BY <1>8, <3>1
  <2> QED
    BY <1>4, <2>1
<1>10. ASSUME NEW i \in 1..m, NEW j \in 1..m, i < j,
              NEW x \in ToSet(plan[i].items), NEW y \in ToSet(plan[j].items)
       PROVE  x < y
  <2>1. x \in from(i)..end[i] /\ y \in from(j)..end[j]
    BY <1>7, <1>8
  <2>2. j # 1 /\ j - 1 \in 1..m /\ (i = j - 1 \/ i < j - 1)
    BY <1>4, <1>10
  <2>3. end[i] <= end[j - 1] /\ end[i] \in Nat /\ end[j - 1] \in Nat
    BY <1>5, <2>2, PoolAssumption
  <2>4. from(i) \in 1..Items /\ from(j) = end[j - 1] + 1 /\ end[j] \in 1..Items
    BY <1>5, <1>6, <2>2
  <2> HIDE DEF from
  <2>5. x \in Nat /\ y \in Nat /\ x <= end[i] /\ end[j - 1] + 1 <= y
    BY <2>1, <2>3, <2>4
  <2> QED
    BY <2>3, <2>5
<1>11. ASSUME NEW x \in 1..Items
       PROVE  \E i \in 1..m : x \in ToSet(plan[i].items)
  <2> DEFINE S == {i \in 1..m : x <= end[i]}
  <2>1. m \in S /\ S \subseteq Nat
    BY <1>3, <1>4
  <2>2. PICK i \in S : \A j \in S : i <= j
    <3> HIDE DEF S
    <3> QED
      BY <2>1, LeastExists
  <2>3. from(i) <= x
    <3>1. CASE i = 1
      BY <3>1
    <3>2. CASE i # 1
      <4>1. i - 1 \in 1..m /\ i - 1 < i
        BY <1>4, <2>2, <3>2
      <4>2. i - 1 \notin S
        BY <2>2, <4>1
      <4>3. end[i - 1] < x
        BY <1>5, <4>1, <4>2
      <4>4. end[i - 1] \in 1..Items
        BY <1>5, <4>1
      <4> QED
        BY <3>2, <4>3, <4>4, PoolAssumption
    <3> QED
      BY <3>1, <3>2
  <2>4. i \in 1..m /\ x <= end[i] /\ from(i) \in 1..Items /\ end[i] \in 1..Items
    BY <1>5, <1>6, <2>2
  <2>5. x \in from(i)..end[i]
    <3> HIDE DEF from
    <3> QED
      BY <2>3, <2>4, PoolAssumption
  <2> QED
    BY <1>7, <1>8, <2>4, <2>5
<1>12. Ordered(plan)
  <2>1. Len(plan) <= Items
    BY <1>9
  <2>2. \A i \in 1..m : Rises(plan[i].items)
    BY <1>7, <1>8
  <2> HIDE DEF local
  <2> QED
    BY <1>9, <1>10, <1>11, <2>1, <2>2 DEF Ordered
<1> QED
  BY <1>8, <1>9, <1>12

\* Every plan of runChunk takes every item once, in order.
LEMMA PlansAre ==
    ASSUME NEW peers \in Rankings, NEW k, NEW plan \in Plans(peers, k)
    PROVE  plan \in Seq(PartType) /\ Ordered(plan) /\ \A i \in DOMAIN plan : FreshPart(plan[i])
<1>1. << >> \in Seq(Peer) /\ FALSE \in BOOLEAN /\ TRUE \in BOOLEAN
  OBVIOUS
<1>2. CASE plan = << Part(AllItems, << >>, FALSE) >>
  BY <1>1, <1>2, OnePartPlan
<1>3. ASSUME NEW j \in 1..Len(peers), plan = << Part(AllItems, Rotated(peers, j), TRUE) >>
      PROVE  plan \in Seq(PartType) /\ Ordered(plan) /\ \A i \in DOMAIN plan : FreshPart(plan[i])
  BY <1>1, <1>3, OnePartPlan, RankingIs
<1>4. CASE plan \in NoSplitParts(peers)
  BY <1>4, NoSplitPlan
<1>5. CASE plan \in SplitParts(peers, k)
  BY <1>5, SplitPlan
<1> QED
  BY <1>2, <1>3, <1>4, <1>5 DEF Plans, SmallParts
-----------------------------------------------------------------------------
(* Counting: what one part's step does to the sets the book counts.         *)

One(b) == IF b THEN 1 ELSE 0

\* Two sets that differ in one element at most differ by it in size.
LEMMA OneChanges ==
    ASSUME NEW S, NEW T, NEW x, IsFiniteSet(S), S \ {x} = T \ {x}
    PROVE  /\ Cardinality(S) \in Nat /\ Cardinality(T) \in Nat
           /\ Cardinality(T) + One(x \in S) = Cardinality(S) + One(x \in T)
<1> DEFINE D == S \ {x}
<1>1. IsFiniteSet(D) /\ x \notin D
  BY FS_Subset
<1>2. Cardinality(D) \in Nat /\ IsFiniteSet(D \union {x}) /\ Cardinality(D \union {x}) = Cardinality(D) + 1
  BY <1>1, FS_CardinalityType, FS_AddElement
<1>3. S = IF x \in S THEN D \union {x} ELSE D
  OBVIOUS
<1>4. T = IF x \in T THEN D \union {x} ELSE D
  OBVIOUS
<1> HIDE DEF D
<1>5. Cardinality(S) = Cardinality(D) + One(x \in S)
  <2>1. CASE x \in S
    BY <1>2, <1>3, <2>1 DEF One
  <2>2. CASE x \notin S
    BY <1>2, <1>3, <2>2 DEF One
  <2> QED
    BY <2>1, <2>2
<1>6. Cardinality(T) = Cardinality(D) + One(x \in T)
  <2>1. CASE x \in T
    BY <1>2, <1>4, <2>1 DEF One
  <2>2. CASE x \notin T
    BY <1>2, <1>4, <2>2 DEF One
  <2> QED
    BY <2>1, <2>2
<1>7. One(x \in S) \in Nat /\ One(x \in T) \in Nat
  BY DEF One
<1> QED
  BY <1>2, <1>5, <1>6, <1>7

\* Where the parts are, and that there are finitely many.
Places == Chunk \X (1..Items)

LEMMA PlacesFinite ==
    /\ IsFiniteSet(Places)
    /\ \A q : Uses(q) \subseteq Places /\ IsFiniteSet(Uses(q))
    /\ Tails \subseteq Places /\ IsFiniteSet(Tails)
<1>1. IsFiniteSet(1..Items)
  BY PoolAssumption, FS_Interval
<1>2. IsFiniteSet(Places)
  BY <1>1, PoolAssumption, FS_Product DEF Places
<1>3. \A q : Uses(q) \subseteq Places
  BY DEF Uses, Places
<1>4. Tails \subseteq Places
  BY DEF Tails, Places
<1> QED
  BY <1>2, <1>3, <1>4, FS_Subset

\* A part's place, and its types.
LEMMA PlaceOf ==
    ASSUME MapInv, NEW c \in Chunk, NEW i \in DOMAIN parts[c]
    PROVE  /\ << c, i >> \in Places /\ i \in 1..Items /\ parts[c][i] \in PartType
           /\ phase[c] # "idle" /\ Ordered(parts[c]) /\ PartInv(parts[c][i])
<1>1. parts[c] \in Seq(PartType) /\ parts[c] # << >>
  BY DEF MapInv, TypeOK
<1>2. phase[c] # "idle" /\ Ordered(parts[c])
  BY <1>1 DEF MapInv
<1>3. i \in 1..Items
  <2>1. Len(parts[c]) \in Nat /\ DOMAIN parts[c] = 1..Len(parts[c])
    BY <1>1
  <2> QED
    BY <1>2, <2>1, PoolAssumption DEF Ordered
<1> QED
  BY <1>1, <1>2, <1>3 DEF MapInv, Places

\* One part changes.
LEMMA UpdateIs ==
    ASSUME TypeOK, NEW c \in Chunk, NEW i \in DOMAIN parts[c], NEW r \in PartType, Update(c, i, r)
    PROVE  /\ parts' \in [Chunk -> Seq(PartType)]
           /\ \A d \in Chunk : DOMAIN parts'[d] = DOMAIN parts[d] /\ Len(parts'[d]) = Len(parts[d])
           /\ parts'[c][i] = r
           /\ \A d \in Chunk : d # c => parts'[d] = parts[d]
           /\ \A d \in Chunk : \A j \in DOMAIN parts[d] : << d, j >> # << c, i >> => parts'[d][j] = parts[d][j]
<1> DEFINE s == [parts[c] EXCEPT ![i] = r]
<1>1. parts' = [parts EXCEPT ![c] = s]
  BY DEF Update
<1>2. parts \in [Chunk -> Seq(PartType)]
  BY DEF TypeOK
<1>3. parts[c] \in Seq(PartType)
  BY <1>2
<1>4. s \in Seq(PartType) /\ Len(s) = Len(parts[c]) /\ DOMAIN s = DOMAIN parts[c]
      /\ s[i] = r /\ \A j \in DOMAIN parts[c] : j # i => s[j] = parts[c][j]
  BY <1>3, ExceptSeq
<1> HIDE DEF s
<1>5. parts'[c] = s /\ parts' \in [Chunk -> Seq(PartType)] /\ \A d \in Chunk : d # c => parts'[d] = parts[d]
  BY <1>1, <1>2, <1>4
<1> QED
  BY <1>4, <1>5

\* A part that uses a peer holds a slot there.
LEMMA UserHolds ==
    ASSUME MapInv, NEW c \in Chunk, NEW i \in DOMAIN parts[c], NEW q \in Peer,
           UsesPeer(parts[c][i], q)
    PROVE  held[q] \in 1..Depth /\ losers[q] \in 0..(held[q] - 1)
<1>1. << c, i >> \in Uses(q)
  BY PlaceOf DEF Uses, Places
<1>2. Cardinality(Uses(q)) \in Nat /\ Cardinality(Uses(q)) # 0
  BY <1>1, PlacesFinite, FS_CardinalityType, FS_EmptySet
<1>3. held[q] \in 0..Depth /\ losers[q] \in 0..Depth /\ held[q] = losers[q] + Cardinality(Uses(q))
  BY DEF MapInv, TypeOK
<1> QED
  BY <1>2, <1>3, PoolAssumption

\* A part with the tail backup has the flag.
LEMMA TailHolds ==
    ASSUME MapInv, NEW c \in Chunk, NEW i \in DOMAIN parts[c], parts[c][i].tail
    PROVE  backups
<1>1. << c, i >> \in Tails
  BY PlaceOf DEF Tails, Places
<1>2. Cardinality(Tails) # 0
  BY <1>1, PlacesFinite, FS_EmptySet
<1> QED
  BY <1>2 DEF MapInv

-----------------------------------------------------------------------------
(* The step of one part.                                                    *)

\* What a step that turns part p into r has to keep.
Keeps(p, r) ==
    /\ r \in PartType /\ PartInv(r) /\ r.items = p.items /\ p.pc # "done"
    /\ UNCHANGED <<kind, phase, gone, answer>>
    /\ deadPeers' \subseteq Peer
    /\ held' \in [Peer -> 0..Depth] /\ losers' \in [Peer -> Nat] /\ backups' \in BOOLEAN
    /\ \A q \in Peer : held'[q] + losers[q] + One(UsesPeer(p, q)) = held[q] + losers'[q] + One(UsesPeer(r, q))
    /\ One(backups') + One(p.tail) = One(backups) + One(r.tail)

\* Such a step keeps the invariant.
LEMMA PartMoves ==
    ASSUME MapInv, NEW c \in Chunk, NEW i \in DOMAIN parts[c], NEW r,
           Update(c, i, r), Keeps(parts[c][i], r)
    PROVE  MapInv'
<1> DEFINE p == parts[c][i]
<1>1. r \in PartType /\ PartInv(r) /\ r.items = p.items /\ p.pc # "done"
  BY DEF Keeps
<1>2. UNCHANGED <<kind, phase, gone, answer>>
  BY DEF Keeps
<1>3. /\ parts' \in [Chunk -> Seq(PartType)]
      /\ \A d \in Chunk : DOMAIN parts'[d] = DOMAIN parts[d] /\ Len(parts'[d]) = Len(parts[d])
      /\ parts'[c][i] = r
      /\ \A d \in Chunk : d # c => parts'[d] = parts[d]
      /\ \A d \in Chunk : \A j \in DOMAIN parts[d] : << d, j >> # << c, i >> => parts'[d][j] = parts[d][j]
  BY <1>1, UpdateIs DEF MapInv
<1>4. << c, i >> \in Places /\ i \in 1..Items /\ p \in PartType /\ phase[c] # "idle" /\ Ordered(parts[c])
  BY PlaceOf
<1>5. ASSUME NEW q \in Peer
      PROVE  held'[q] = losers'[q] + Cardinality(Uses(q)')
  <2>1. Uses(q) \ {<< c, i >>} = Uses(q)' \ {<< c, i >>}
    <3>1. ASSUME NEW x \in Places, x # << c, i >>
          PROVE  x \in Uses(q) <=> x \in Uses(q)'
      <4>1. PICK d \in Chunk, j \in 1..Items : x = << d, j >>
        BY DEF Places
      <4>2. j \in DOMAIN parts[d] => parts'[d][j] = parts[d][j]
        BY <1>3, <3>1, <4>1
      <4>3. DOMAIN parts'[d] = DOMAIN parts[d]
        BY <1>3
      <4>4. x \in Uses(q) <=> j \in DOMAIN parts[d] /\ UsesPeer(parts[d][j], q)
        BY <4>1 DEF Uses
      <4>5. x \in Uses(q)' <=> j \in DOMAIN parts'[d] /\ UsesPeer(parts'[d][j], q)
        BY <4>1 DEF Uses, UsesPeer
      <4> QED
        BY <4>2, <4>3, <4>4, <4>5
    <3>2. Uses(q) \subseteq Places /\ Uses(q)' \subseteq Places
      BY DEF Uses, Places
    <3> QED
      BY <3>1, <3>2
  <2>2. << c, i >> \in Uses(q) <=> UsesPeer(p, q)
    BY <1>4 DEF Uses, Places
  <2>3. << c, i >> \in Uses(q)' <=> UsesPeer(r, q)
    <3>1. i \in DOMAIN parts'[c]
      BY <1>3
    <3> QED
      BY <1>3, <1>4, <3>1 DEF Uses, Places, UsesPeer
  <2> DEFINE S == Uses(q)
             T == Uses(q)'
             z == << c, i >>
  <2>4. IsFiniteSet(S)
    BY PlacesFinite
  <2> HIDE DEF S, T, z
  <2>5. /\ Cardinality(S) \in Nat /\ Cardinality(T) \in Nat
        /\ Cardinality(T) + One(z \in S) = Cardinality(S) + One(z \in T)
    BY <2>1, <2>4, OneChanges DEF S, T, z
  <2>6. One(z \in S) = One(UsesPeer(p, q)) /\ One(z \in T) = One(UsesPeer(r, q))
    BY <2>2, <2>3 DEF S, T, z, One
  <2>7. held[q] = losers[q] + Cardinality(S) /\ losers[q] \in Nat /\ held[q] \in Nat
    BY DEF S, MapInv, TypeOK
  <2>8. held'[q] + losers[q] + One(UsesPeer(p, q)) = held[q] + losers'[q] + One(UsesPeer(r, q))
        /\ held'[q] \in Nat /\ losers'[q] \in Nat
    BY DEF Keeps
  <2>9. One(UsesPeer(p, q)) \in Nat /\ One(UsesPeer(r, q)) \in Nat
    BY DEF One
  <2> DEFINE a == One(UsesPeer(p, q))
             b == One(UsesPeer(r, q))
             m == Cardinality(S)
             n == Cardinality(T)
             h == held'[q]
             l == losers'[q]
  <2>10. /\ a \in Nat /\ b \in Nat /\ m \in Nat /\ n \in Nat /\ h \in Nat /\ l \in Nat
         /\ n + a = m + b
    BY <2>5, <2>6, <2>8, <2>9
  <2>11. h + losers[q] + a = held[q] + l + b /\ held[q] = losers[q] + m
    BY <2>7, <2>8
  <2> HIDE DEF a, b, m, n, h, l
  <2>12. h = l + n
    BY <2>7, <2>10, <2>11
  <2> QED
    BY <2>12 DEF T, n, h, l
<1>6. Cardinality(Tails') = IF backups' THEN 1 ELSE 0
  <2>1. Tails \ {<< c, i >>} = Tails' \ {<< c, i >>}
    <3>1. ASSUME NEW x \in Places, x # << c, i >>
          PROVE  x \in Tails <=> x \in Tails'
      <4>1. PICK d \in Chunk, j \in 1..Items : x = << d, j >>
        BY DEF Places
      <4>2. j \in DOMAIN parts[d] => parts'[d][j] = parts[d][j]
        BY <1>3, <3>1, <4>1
      <4>3. DOMAIN parts'[d] = DOMAIN parts[d]
        BY <1>3
      <4>4. x \in Tails <=> j \in DOMAIN parts[d] /\ parts[d][j].tail
        BY <4>1 DEF Tails
      <4>5. x \in Tails' <=> j \in DOMAIN parts'[d] /\ parts'[d][j].tail
        BY <4>1 DEF Tails
      <4> QED
        BY <4>2, <4>3, <4>4, <4>5
    <3>2. Tails \subseteq Places /\ Tails' \subseteq Places
      BY DEF Tails, Places
    <3> QED
      BY <3>1, <3>2
  <2>2. << c, i >> \in Tails <=> p.tail
    BY <1>4 DEF Tails, Places
  <2>3. << c, i >> \in Tails' <=> r.tail
    <3>1. i \in DOMAIN parts'[c]
      BY <1>3
    <3> QED
      BY <1>3, <1>4, <3>1 DEF Tails, Places
  <2> DEFINE S == Tails
             T == Tails'
             z == << c, i >>
  <2>4. IsFiniteSet(S)
    BY PlacesFinite
  <2> HIDE DEF S, T, z
  <2>5. /\ Cardinality(S) \in Nat /\ Cardinality(T) \in Nat
        /\ Cardinality(T) + One(z \in S) = Cardinality(S) + One(z \in T)
    BY <2>1, <2>4, OneChanges DEF S, T, z
  <2>6. One(z \in S) = One(p.tail) /\ One(z \in T) = One(r.tail)
    BY <2>2, <2>3 DEF S, T, z, One
  <2>7. Cardinality(S) = One(backups)
    BY DEF S, MapInv, One
  <2>8. One(backups') + One(p.tail) = One(backups) + One(r.tail)
    BY DEF Keeps
  <2>9. One(p.tail) \in Nat /\ One(r.tail) \in Nat /\ One(backups) \in Nat /\ One(backups') \in Nat
    BY DEF One
  <2>10. Cardinality(T) = One(backups')
    BY <2>5, <2>6, <2>7, <2>8, <2>9
  <2> QED
    BY <2>10 DEF T, One
<1>7. TypeOK'
  <2>1. ASSUME NEW q \in Peer PROVE losers'[q] \in 0..Depth
    <3>1. Cardinality(Uses(q)') \in Nat
      <4>1. Uses(q)' \subseteq Places
        BY DEF Uses, Places
      <4> QED
        BY <4>1, PlacesFinite, FS_Subset, FS_CardinalityType
    <3>2. held'[q] \in 0..Depth /\ losers'[q] \in Nat
      BY DEF Keeps
    <3> QED
      BY <1>5, <3>1, <3>2, PoolAssumption
  <2>2. losers' \in [Peer -> 0..Depth] /\ held' \in [Peer -> 0..Depth] /\ backups' \in BOOLEAN
        /\ deadPeers' \subseteq Peer
    BY <2>1 DEF Keeps
  <2> QED
    BY <1>2, <1>3, <2>2 DEF MapInv, TypeOK
<1>8. \A d \in Chunk : IF phase'[d] = "idle" THEN parts'[d] = << >> ELSE Ordered(parts'[d])
  <2>1. Ordered(parts'[c])
    <3>1. \A j \in DOMAIN parts[c] : parts'[c][j].items = parts[c][j].items
      BY <1>1, <1>3
    <3>2. DOMAIN parts'[c] = DOMAIN parts[c] /\ Len(parts'[c]) = Len(parts[c])
      BY <1>3
    <3> QED
      BY <1>4, <3>1, <3>2 DEF Ordered
  <2> QED
    BY <1>2, <1>3, <1>4, <2>1 DEF MapInv
<1>9. \A d \in Chunk : \A j \in DOMAIN parts'[d] : PartInv(parts'[d][j])
  <2> SUFFICES ASSUME NEW d \in Chunk, NEW j \in DOMAIN parts'[d]
               PROVE  PartInv(parts'[d][j])
    OBVIOUS
  <2>1. j \in DOMAIN parts[d]
    BY <1>3
  <2>2. CASE << d, j >> = << c, i >>
    BY <1>1, <1>3, <2>2
  <2>3. CASE << d, j >> # << c, i >>
    BY <1>3, <2>1, <2>3 DEF MapInv
  <2> QED
    BY <2>2, <2>3
<1>10. ASSUME NEW d \in Chunk, phase'[d] = "answered"
       PROVE  (\A j \in DOMAIN parts'[d] : parts'[d][j].pc = "done") /\ RightAnswer(d)'
  <2>1. phase[d] = "answered"
    BY <1>2, <1>10
  <2>2. (\A j \in DOMAIN parts[d] : parts[d][j].pc = "done") /\ RightAnswer(d)
    BY <2>1 DEF MapInv
  <2>3. d # c
    BY <1>1, <2>2
  <2>4. parts'[d] = parts[d] /\ answer'[d] = answer[d]
    BY <1>2, <1>3, <2>3
  <2>5. RightAnswer(d)'
    BY <2>2, <2>4 DEF RightAnswer, Untried
  <2> QED
    BY <2>2, <2>4, <2>5
<1> QED
  BY <1>5, <1>6, <1>7, <1>10, <1>9, <1>8 DEF MapInv

\* A step that leaves the book alone, of a part that uses the same peers as before.
LEMMA Still ==
    ASSUME MapInv, NEW p, NEW r \in PartType, PartInv(r), r.items = p.items, p.pc # "done",
           UNCHANGED <<kind, phase, gone, answer, held, losers, backups>>, deadPeers' \subseteq Peer,
           \A q \in Peer : UsesPeer(p, q) <=> UsesPeer(r, q), p.tail = r.tail
    PROVE  Keeps(p, r)
<1>1. held \in [Peer -> 0..Depth] /\ losers \in [Peer -> 0..Depth] /\ backups \in BOOLEAN
  BY DEF MapInv, TypeOK
<1>2. held' = held /\ losers' = losers /\ backups' = backups
  OBVIOUS
<1>3. losers' \in [Peer -> Nat] /\ held' \in [Peer -> 0..Depth] /\ backups' \in BOOLEAN
  BY <1>1, <1>2, PoolAssumption
<1>4. ASSUME NEW q \in Peer
      PROVE  held'[q] + losers[q] + One(UsesPeer(p, q)) = held[q] + losers'[q] + One(UsesPeer(r, q))
  BY <1>2 DEF One
<1> QED
  BY <1>2, <1>3, <1>4 DEF Keeps, One

\* What is used by a part that waits for no copy.
LEMMA SentUses ==
    ASSUME NEW p, p.pc # "sent"
    PROVE  \A q : ~UsesPeer(p, q)
  BY DEF UsesPeer

LEMMA SkipDeadStep ==
    ASSUME MapInv, NEW c \in Chunk, NEW i \in DOMAIN parts[c], SkipDead(c, i)
    PROVE  MapInv'
<1> DEFINE p == parts[c][i]
           r == [p EXCEPT !.todo = Tail(@)]
<1>1. p \in PartType /\ PartInv(p) /\ p.pc = "walk" /\ p.todo # << >>
  BY PlaceOf DEF SkipDead
<1>2. Tail(p.todo) \in Seq(Peer)
  BY <1>1 DEF PartType
<1>3. /\ r \in PartType /\ r.pc = p.pc /\ r.copies = p.copies /\ r.result = p.result /\ r.tail = p.tail
      /\ r.tried = p.tried /\ r.err = p.err /\ r.raced = p.raced /\ r.items = p.items
  BY <1>1, <1>2 DEF PartType
<1>4. Update(c, i, r) /\ UNCHANGED <<kind, phase, gone, answer, deadPeers, held, losers, backups>>
  BY DEF SkipDead, Unshared
<1> HIDE DEF r
<1>5. PartInv(r)
  BY <1>1, <1>3 DEF PartInv
<1>6. Keeps(p, r)
  <2>1. \A q \in Peer : UsesPeer(p, q) <=> UsesPeer(r, q)
    BY <1>1, <1>3 DEF UsesPeer
  <2>2. deadPeers' \subseteq Peer
    BY <1>4 DEF MapInv, TypeOK
  <2> HIDE DEF p
  <2> QED
    BY <1>1, <1>3, <1>4, <1>5, <2>1, <2>2, Still
<1> QED
  BY <1>4, <1>6, PartMoves

LEMMA WalkEndsStep ==
    ASSUME MapInv, NEW c \in Chunk, NEW i \in DOMAIN parts[c], WalkEnds(c, i)
    PROVE  MapInv'
<1> DEFINE p == parts[c][i]
           r == LeaveWalk(p)
<1>1. p \in PartType /\ PartInv(p) /\ p.pc = "walk"
  BY PlaceOf DEF WalkEnds
<1>2. p.copies = Idle /\ ~p.tail /\ p.result = << >> /\ ~p.raced /\ (p.tried => p.err)
  BY <1>1 DEF PartInv
<1>3. /\ r \in PartType /\ r.pc \in {"local", "done"} /\ (r.pc = "done" => ~p.err)
      /\ r.copies = p.copies /\ r.result = p.result /\ r.tail = p.tail
      /\ r.tried = p.tried /\ r.err = p.err /\ r.raced = p.raced /\ r.items = p.items
  BY <1>1, <1>2 DEF PartType, LeaveWalk
<1>4. Update(c, i, r) /\ UNCHANGED <<kind, phase, gone, answer, deadPeers, held, losers, backups>>
  BY DEF WalkEnds, Unshared
<1> HIDE DEF r
<1>5. PartInv(r)
  BY <1>2, <1>3 DEF PartInv
<1>6. Keeps(p, r)
  <2>1. \A q \in Peer : UsesPeer(p, q) <=> UsesPeer(r, q)
    BY <1>1, <1>3 DEF UsesPeer
  <2>2. deadPeers' \subseteq Peer
    BY <1>4 DEF MapInv, TypeOK
  <2> HIDE DEF p
  <2> QED
    BY <1>1, <1>3, <1>4, <1>5, <2>1, <2>2, Still
<1> QED
  BY <1>4, <1>6, PartMoves

LEMMA EnterGateStep ==
    ASSUME MapInv, NEW c \in Chunk, NEW i \in DOMAIN parts[c], EnterGate(c, i)
    PROVE  MapInv'
<1> DEFINE p == parts[c][i]
           cs == {Head(p.todo)} \union (IF p.steal THEN ToSet(p.todo) \ deadPeers ELSE {})
           r == [p EXCEPT !.pc = "gate", !.cands = cs]
<1>1. p \in PartType /\ PartInv(p) /\ p.pc = "walk" /\ p.todo # << >>
  BY PlaceOf DEF EnterGate
<1>2. p.copies = Idle /\ ~p.tail /\ p.result = << >> /\ ~p.raced /\ (p.tried => p.err)
  BY <1>1 DEF PartInv
<1>3. cs \in SUBSET Peer
  <2>1. p.todo \in Seq(Peer)
    BY <1>1 DEF PartType
  <2>2. Head(p.todo) \in Peer
    BY <1>1, <2>1
  <2>3. ToSet(p.todo) \subseteq Peer
    BY <2>1 DEF ToSet
  <2> QED
    BY <2>2, <2>3
<1>4. Update(c, i, r) /\ UNCHANGED <<kind, phase, gone, answer, deadPeers, held, losers, backups>>
  BY DEF EnterGate, Unshared
<1> HIDE DEF cs
<1>5. /\ r \in PartType /\ r.pc = "gate" /\ r.todo = p.todo
      /\ r.copies = p.copies /\ r.result = p.result /\ r.tail = p.tail
      /\ r.tried = p.tried /\ r.err = p.err /\ r.raced = p.raced /\ r.items = p.items
  BY <1>1, <1>3 DEF PartType
<1> HIDE DEF r
<1>6. PartInv(r)
  BY <1>1, <1>2, <1>5 DEF PartInv
<1>7. Keeps(p, r)
  <2>1. \A q \in Peer : UsesPeer(p, q) <=> UsesPeer(r, q)
    BY <1>1, <1>5 DEF UsesPeer
  <2>2. deadPeers' \subseteq Peer
    BY <1>4 DEF MapInv, TypeOK
  <2> HIDE DEF p
  <2> QED
    BY <1>1, <1>4, <1>5, <1>6, <2>1, <2>2, Still
<1> QED
  BY <1>4, <1>7, PartMoves

LEMMA BudgetSpentStep ==
    ASSUME MapInv, NEW c \in Chunk, NEW i \in DOMAIN parts[c], BudgetSpent(c, i)
    PROVE  MapInv'
<1> DEFINE p == parts[c][i]
           r == [p EXCEPT !.copies[Here] = "running"]
<1>1. p \in PartType /\ PartInv(p) /\ p.pc = "sent"
  BY PlaceOf DEF BudgetSpent
<1>2. p.copies \in [Node -> {"none", "running", "failed"}] /\ Here \in Node
  BY <1>1 DEF PartType, Node
<1> DEFINE k == [p.copies EXCEPT ![Here] = "running"]
<1>3. k \in [Node -> {"none", "running", "failed"}] /\ \A q \in Peer : k[q] = p.copies[q]
  BY <1>2, PoolAssumption DEF Node
<1>4. r = [p EXCEPT !.copies = k]
  OBVIOUS
<1>5. Update(c, i, r) /\ UNCHANGED <<kind, phase, gone, answer, deadPeers, held, losers, backups>>
  BY DEF BudgetSpent, Unshared
<1> HIDE DEF k
<1>6. /\ r \in PartType /\ r.pc = p.pc /\ r.at = p.at /\ r.copies = k
      /\ r.result = p.result /\ r.tail = p.tail
      /\ r.tried = p.tried /\ r.err = p.err /\ r.raced = p.raced /\ r.items = p.items
  BY <1>1, <1>3, <1>4 DEF PartType
<1> HIDE DEF r
<1>7. PartInv(r)
  BY <1>1, <1>6 DEF PartInv
<1>8. Keeps(p, r)
  <2>1. \A q \in Peer : UsesPeer(p, q) <=> UsesPeer(r, q)
    BY <1>3, <1>6 DEF UsesPeer
  <2>2. deadPeers' \subseteq Peer
    BY <1>5 DEF MapInv, TypeOK
  <2> HIDE DEF p
  <2> QED
    BY <1>1, <1>5, <1>6, <1>7, <2>1, <2>2, Still
<1> QED
  BY <1>5, <1>8, PartMoves

LEMMA RunLocalStep ==
    ASSUME MapInv, NEW c \in Chunk, NEW i \in DOMAIN parts[c], RunLocal(c, i)
    PROVE  MapInv'
<1> DEFINE p == parts[c][i]
<1>1. p \in PartType /\ PartInv(p) /\ p.pc = "local"
  BY PlaceOf DEF RunLocal
<1>2. p.copies = Idle /\ ~p.tail /\ p.result = << >> /\ ~p.raced
  BY <1>1 DEF PartInv
<1>3. UNCHANGED <<kind, phase, gone, answer, deadPeers, held, losers, backups>>
  BY DEF RunLocal, Unshared
<1>4. deadPeers' \subseteq Peer
  BY <1>3 DEF MapInv, TypeOK
<1>5. CASE Update(c, i, [p EXCEPT !.pc = "done", !.err = FALSE, !.result = p.items])
  <2> DEFINE r == [p EXCEPT !.pc = "done", !.err = FALSE, !.result = p.items]
  <2>1. /\ r \in PartType /\ r.pc = "done" /\ r.result = r.items
        /\ r.copies = p.copies /\ r.tail = p.tail /\ r.items = p.items
    BY <1>1 DEF PartType
  <2>2. Update(c, i, r)
    BY <1>5
  <2> HIDE DEF r
  <2>3. PartInv(r)
    BY <1>2, <2>1 DEF PartInv
  <2>4. \A q \in Peer : UsesPeer(p, q) <=> UsesPeer(r, q)
    BY <1>1, <2>1 DEF UsesPeer
  <2>5. Keeps(p, r)
    <3> HIDE DEF p
    <3> QED
      BY <1>1, <1>3, <1>4, <2>1, <2>3, <2>4, Still
  <2> QED
    BY <2>2, <2>5, PartMoves
<1>6. CASE Update(c, i, [p EXCEPT !.pc = "done", !.err = TRUE])
  <2> DEFINE r == [p EXCEPT !.pc = "done", !.err = TRUE]
  <2>1. /\ r \in PartType /\ r.pc = "done" /\ r.err
        /\ r.copies = p.copies /\ r.tail = p.tail /\ r.items = p.items
    BY <1>1 DEF PartType
  <2>2. Update(c, i, r)
    BY <1>6
  <2> HIDE DEF r
  <2>3. PartInv(r)
    BY <1>2, <2>1 DEF PartInv
  <2>4. \A q \in Peer : UsesPeer(p, q) <=> UsesPeer(r, q)
    BY <1>1, <2>1 DEF UsesPeer
  <2>5. Keeps(p, r)
    <3> HIDE DEF p
    <3> QED
      BY <1>1, <1>3, <1>4, <2>1, <2>3, <2>4, Still
  <2> QED
    BY <2>2, <2>5, PartMoves
<1> QED
  BY <1>5, <1>6 DEF RunLocal

LEMMA GateStep ==
    ASSUME MapInv, NEW c \in Chunk, NEW i \in DOMAIN parts[c], Gate(c, i)
    PROVE  MapInv'
<1> DEFINE p == parts[c][i]
<1>1. p \in PartType /\ PartInv(p) /\ p.pc = "gate"
  BY PlaceOf DEF Gate
<1>2. p.copies = Idle /\ ~p.tail /\ p.result = << >> /\ ~p.raced /\ p.todo # << >>
  BY <1>1 DEF PartInv
<1>3. PICK q \in p.cands :
        /\ Free(q)
        /\ held' = [held EXCEPT ![q] = @ + 1]
        /\ Update(c, i,
             [p EXCEPT !.pc = "sent", !.at = q, !.tried = TRUE, !.err = FALSE,
               !.todo = IF q = Head(p.todo) THEN Tail(@) ELSE @,
               !.copies = [Idle EXCEPT ![q] = "running"],
               !.checked = FALSE])
  BY DEF Gate
<1>4. UNCHANGED <<kind, phase, gone, answer, deadPeers, losers, backups>>
  BY DEF Gate, Unshared
<1>5. q \in Peer
  BY <1>1, <1>3 DEF PartType
<1> DEFINE onwards == IF q = Head(p.todo) THEN Tail(p.todo) ELSE p.todo
           k == [Idle EXCEPT ![q] = "running"]
           r == [p EXCEPT !.pc = "sent", !.at = q, !.tried = TRUE, !.err = FALSE,
                   !.todo = onwards, !.copies = k, !.checked = FALSE]
<1>6. onwards \in Seq(Peer)
  BY <1>1, <1>2 DEF PartType
<1>7. /\ k \in [Node -> {"none", "running", "failed"}] /\ q \in Node /\ k[q] = "running"
      /\ \A n \in Node : n # q => k[n] = "none"
  BY <1>5 DEF Idle, Node
<1>8. Update(c, i, r)
  BY <1>3
<1> HIDE DEF onwards, k
<1>9. /\ r \in PartType /\ r.pc = "sent" /\ r.at = q /\ r.copies = k
      /\ r.result = p.result /\ r.raced = p.raced /\ r.tail = p.tail /\ r.items = p.items
  BY <1>1, <1>6, <1>7 DEF PartType
<1> HIDE DEF r
<1>10. PartInv(r)
  BY <1>2, <1>5, <1>9 DEF PartInv
<1>11. held \in [Peer -> 0..Depth] /\ losers \in [Peer -> 0..Depth] /\ backups \in BOOLEAN
  BY DEF MapInv, TypeOK
<1>12. held' \in [Peer -> 0..Depth]
  <2>1. held[q] + 1 \in 0..Depth
    BY <1>3, <1>5, <1>11, PoolAssumption DEF Free
  <2> QED
    BY <1>3, <1>11, <2>1
<1>13. losers' \in [Peer -> Nat] /\ losers' = losers /\ backups' = backups
  BY <1>4, <1>11, PoolAssumption
<1>14. ASSUME NEW x \in Peer
       PROVE  held'[x] + losers[x] + One(UsesPeer(p, x)) = held[x] + losers'[x] + One(UsesPeer(r, x))
  <2>1. One(UsesPeer(p, x)) = 0
    BY <1>1 DEF UsesPeer, One
  <2>2. held[x] \in Nat /\ losers[x] \in Nat /\ losers'[x] = losers[x]
    BY <1>11, <1>13, PoolAssumption
  <2>3. CASE x = q
    <3>1. One(UsesPeer(r, x)) = 1
      BY <1>9, <2>3 DEF UsesPeer, One
    <3>2. held'[x] = held[x] + 1
      BY <1>3, <1>5, <1>11, <2>3
    <3> QED
      BY <2>1, <2>2, <3>1, <3>2
  <2>4. CASE x # q
    <3>1. One(UsesPeer(r, x)) = 0
      BY <1>7, <1>9, <2>4 DEF UsesPeer, One, Node
    <3>2. held'[x] = held[x]
      BY <1>3, <1>5, <1>11, <2>4
    <3> QED
      BY <2>1, <2>2, <3>1, <3>2
  <2> QED
    BY <2>3, <2>4
<1>15. Keeps(p, r)
  <2>1. deadPeers' \subseteq Peer /\ UNCHANGED <<kind, phase, gone, answer>>
    BY <1>4 DEF MapInv, TypeOK
  <2>2. backups' \in BOOLEAN /\ One(backups') + One(p.tail) = One(backups) + One(r.tail)
    BY <1>9, <1>11, <1>13
  <2> HIDE DEF p
  <2> QED
    BY <1>1, <1>9, <1>10, <1>12, <1>13, <1>14, <2>1, <2>2 DEF Keeps
<1> QED
  BY <1>8, <1>15, PartMoves

LEMMA CopyToPeerStep ==
    ASSUME MapInv, NEW c \in Chunk, NEW i \in DOMAIN parts[c], CopyToPeer(c, i)
    PROVE  MapInv'
<1> DEFINE p == parts[c][i]
<1>1. p \in PartType /\ PartInv(p) /\ p.pc = "sent"
  BY PlaceOf DEF CopyToPeer
<1>2. PICK q \in p.cands \ {p.at} :
        /\ Free(q)
        /\ held' = [held EXCEPT ![q] = @ + 1]
        /\ Update(c, i, [p EXCEPT !.copies[q] = "running"])
  BY DEF CopyToPeer
<1>3. UNCHANGED <<kind, phase, gone, answer, deadPeers, losers, backups>>
  BY DEF CopyToPeer, Unshared
<1>4. q \in Peer /\ q # p.at /\ p.copies[q] = "none"
  <2>1. q \in Peer
    BY <1>1, <1>2 DEF PartType
  <2>2. \A n \in BackupPeers(p) : p.copies[n] = "none"
    BY DEF CopyToPeer
  <2> QED
    BY <1>2, <2>1, <2>2 DEF BackupPeers
<1> DEFINE k == [p.copies EXCEPT ![q] = "running"]
           r == [p EXCEPT !.copies = k]
<1>5. /\ k \in [Node -> {"none", "running", "failed"}] /\ k[q] = "running"
      /\ \A n \in Node : n # q => k[n] = p.copies[n]
  BY <1>1, <1>4 DEF PartType, Node
<1>6. Update(c, i, r)
  BY <1>2
<1> HIDE DEF k
<1>7. /\ r \in PartType /\ r.pc = p.pc /\ r.at = p.at /\ r.copies = k
      /\ r.result = p.result /\ r.raced = p.raced /\ r.tail = p.tail /\ r.items = p.items
      /\ r.err = p.err /\ r.tried = p.tried
  BY <1>1, <1>5 DEF PartType
<1> HIDE DEF r
<1>8. PartInv(r)
  BY <1>1, <1>7 DEF PartInv
<1>9. held \in [Peer -> 0..Depth] /\ losers \in [Peer -> 0..Depth] /\ backups \in BOOLEAN
  BY DEF MapInv, TypeOK
<1>10. held' \in [Peer -> 0..Depth]
  <2>1. held[q] + 1 \in 0..Depth
    BY <1>2, <1>4, <1>9, PoolAssumption DEF Free
  <2> QED
    BY <1>2, <1>9, <2>1
<1>11. losers' \in [Peer -> Nat] /\ losers' = losers /\ backups' = backups
  BY <1>3, <1>9, PoolAssumption
<1>12. ASSUME NEW x \in Peer
       PROVE  held'[x] + losers[x] + One(UsesPeer(p, x)) = held[x] + losers'[x] + One(UsesPeer(r, x))
  <2>1. held[x] \in Nat /\ losers[x] \in Nat /\ losers'[x] = losers[x]
    BY <1>9, <1>11, PoolAssumption
  <2>2. CASE x = q
    <3>1. One(UsesPeer(p, x)) = 0
      BY <1>4, <2>2 DEF UsesPeer, One
    <3>2. One(UsesPeer(r, x)) = 1
      BY <1>1, <1>5, <1>7, <2>2 DEF UsesPeer, One
    <3>3. held'[x] = held[x] + 1
      BY <1>2, <1>4, <1>9, <2>2
    <3> QED
      BY <2>1, <3>1, <3>2, <3>3
  <2>3. CASE x # q
    <3>1. One(UsesPeer(r, x)) = One(UsesPeer(p, x)) /\ One(UsesPeer(p, x)) \in Nat
      BY <1>5, <1>7, <2>3 DEF UsesPeer, One, Node
    <3>2. held'[x] = held[x]
      BY <1>2, <1>4, <1>9, <2>3
    <3> QED
      BY <2>1, <3>1, <3>2
  <2> QED
    BY <2>2, <2>3
<1>13. Keeps(p, r)
  <2>1. deadPeers' \subseteq Peer /\ UNCHANGED <<kind, phase, gone, answer>>
    BY <1>3 DEF MapInv, TypeOK
  <2>2. backups' \in BOOLEAN /\ One(backups') + One(p.tail) = One(backups) + One(r.tail)
    BY <1>7, <1>9, <1>11
  <2> HIDE DEF p
  <2> QED
    BY <1>1, <1>7, <1>8, <1>10, <1>11, <1>12, <2>1, <2>2 DEF Keeps
<1> QED
  BY <1>6, <1>13, PartMoves

LEMMA TailBackupStep ==
    ASSUME MapInv, NEW c \in Chunk, NEW i \in DOMAIN parts[c], TailBackup(c, i)
    PROVE  MapInv'
<1> DEFINE p == parts[c][i]
<1>1. p \in PartType /\ PartInv(p) /\ p.pc = "sent"
  BY PlaceOf DEF TailBackup
<1>2. UNCHANGED <<kind, phase, gone, answer, deadPeers, held, losers>>
  BY DEF TailBackup, Unshared
<1>3. deadPeers' \subseteq Peer
  BY <1>2 DEF MapInv, TypeOK
<1>4. CASE backups' = backups /\ Update(c, i, [p EXCEPT !.checked = TRUE])
  <2> DEFINE r == [p EXCEPT !.checked = TRUE]
  <2>1. /\ r \in PartType /\ r.pc = p.pc /\ r.at = p.at /\ r.copies = p.copies
        /\ r.result = p.result /\ r.raced = p.raced /\ r.tail = p.tail /\ r.items = p.items
        /\ r.err = p.err /\ r.tried = p.tried
    BY <1>1 DEF PartType
  <2>2. Update(c, i, r)
    BY <1>4
  <2> HIDE DEF r
  <2>3. PartInv(r)
    BY <1>1, <2>1 DEF PartInv
  <2>4. \A q \in Peer : UsesPeer(p, q) <=> UsesPeer(r, q)
    BY <2>1 DEF UsesPeer
  <2>5. UNCHANGED <<kind, phase, gone, answer, held, losers, backups>>
    BY <1>2, <1>4
  <2>6. Keeps(p, r)
    <3> HIDE DEF p
    <3> QED
      BY <1>1, <1>3, <2>1, <2>3, <2>4, <2>5, Still
  <2> QED
    BY <2>2, <2>6, PartMoves
<1>5. CASE ~backups /\ backups' = TRUE
           /\ Update(c, i, [p EXCEPT !.checked = TRUE, !.tail = TRUE, !.copies[Here] = "running"])
  <2> DEFINE k == [p.copies EXCEPT ![Here] = "running"]
             r == [p EXCEPT !.checked = TRUE, !.tail = TRUE, !.copies = k]
  <2>1. k \in [Node -> {"none", "running", "failed"}] /\ \A q \in Peer : k[q] = p.copies[q]
    BY <1>1, PoolAssumption DEF PartType, Node
  <2>2. Update(c, i, r)
    BY <1>5
  <2> HIDE DEF k
  <2>3. /\ r \in PartType /\ r.pc = p.pc /\ r.at = p.at /\ r.copies = k
        /\ r.result = p.result /\ r.raced = p.raced /\ r.tail /\ r.items = p.items
        /\ r.err = p.err /\ r.tried = p.tried
    BY <1>1, <2>1 DEF PartType
  <2> HIDE DEF r
  <2>4. PartInv(r)
    BY <1>1, <2>3 DEF PartInv
  <2>5. \A q \in Peer : UsesPeer(p, q) <=> UsesPeer(r, q)
    BY <2>1, <2>3 DEF UsesPeer
  <2>6. held \in [Peer -> 0..Depth] /\ losers \in [Peer -> 0..Depth] /\ held' = held /\ losers' = losers
    BY <1>2 DEF MapInv, TypeOK
  <2>7. losers' \in [Peer -> Nat]
    BY <2>6, PoolAssumption
  <2>8. ~p.tail
    BY <1>5, TailHolds
  <2>9. One(backups') + One(p.tail) = One(backups) + One(r.tail) /\ backups' \in BOOLEAN
    BY <1>5, <2>3, <2>8 DEF One
  <2>10. \A q \in Peer : held'[q] + losers[q] + One(UsesPeer(p, q)) = held[q] + losers'[q] + One(UsesPeer(r, q))
    BY <2>5, <2>6 DEF One
  <2>11. Keeps(p, r)
    <3> HIDE DEF p
    <3> QED
      BY <1>1, <1>2, <1>3, <2>3, <2>4, <2>6, <2>7, <2>9, <2>10 DEF Keeps
  <2> QED
    BY <2>2, <2>11, PartMoves
<1> QED
  BY <1>4, <1>5 DEF TailBackup

\* The end of a race gives back what the part held.
LEMMA RaceOverKeeps ==
    ASSUME MapInv, NEW c \in Chunk, NEW i \in DOMAIN parts[c], parts[c][i].pc = "sent",
           NEW n \in Running(parts[c][i]) \union {Here}, RaceOver(parts[c][i], n),
           UNCHANGED <<kind, phase, gone, answer>>, deadPeers' \subseteq Peer,
           NEW r \in PartType, PartInv(r), r.items = parts[c][i].items, r.pc # "sent", ~r.tail
    PROVE  Keeps(parts[c][i], r)
<1> DEFINE p == parts[c][i]
<1>1. p \in PartType /\ PartInv(p) /\ p.pc = "sent"
  BY PlaceOf
<1>2. p.at \in Peer
  BY <1>1 DEF PartInv
<1>3. held \in [Peer -> 0..Depth] /\ losers \in [Peer -> 0..Depth] /\ backups \in BOOLEAN
  BY DEF MapInv, TypeOK
<1>4. \A q \in Peer : UsesPeer(p, q) <=> q = p.at \/ q \in Running(p)
  BY <1>1 DEF UsesPeer, Running, Node
<1>5. \A q \in Peer : UsesPeer(p, q) => held[q] \in 1..Depth
  BY UserHolds
<1>6. \A q \in Peer : ~UsesPeer(r, q)
  BY DEF UsesPeer
<1> DEFINE freed(q) == IF q \in {p.at, n} THEN 1 ELSE 0
           late(q)  == IF q \in Running(p) \ {p.at, n} THEN 1 ELSE 0
<1>7. held' = [q \in Peer |-> held[q] - freed(q)] /\ losers' = [q \in Peer |-> losers[q] + late(q)]
      /\ backups' = (backups /\ ~p.tail)
  BY DEF RaceOver
<1>8. ASSUME NEW q \in Peer
      PROVE  /\ freed(q) \in 0..1 /\ late(q) \in 0..1 /\ freed(q) + late(q) = One(UsesPeer(p, q))
             /\ freed(q) = 1 => UsesPeer(p, q)
  <2>1. n # q \/ q \in Running(p)
    BY PoolAssumption
  <2>2. CASE q \in {p.at, n}
    <3>1. UsesPeer(p, q)
      BY <1>4, <2>1, <2>2
    <3> QED
      BY <2>2, <3>1 DEF One
  <2>3. CASE q \notin {p.at, n}
    <3>1. freed(q) = 0
      BY <2>3
    <3>2. UsesPeer(p, q) <=> q \in Running(p) \ {p.at, n}
      BY <1>4, <2>3
    <3>3. late(q) = One(UsesPeer(p, q)) /\ late(q) \in 0..1
      BY <3>2 DEF One
    <3> QED
      BY <3>1, <3>3
  <2> QED
    BY <2>2, <2>3
<1> HIDE DEF freed, late
<1>9. held' \in [Peer -> 0..Depth]
  <2>1. ASSUME NEW q \in Peer PROVE held[q] - freed(q) \in 0..Depth
    <3>1. held[q] \in 0..Depth /\ freed(q) \in 0..1 /\ (freed(q) = 1 => held[q] \in 1..Depth)
      BY <1>3, <1>5, <1>8
    <3> QED
      BY <3>1, PoolAssumption
  <2> QED
    BY <1>7, <2>1
<1>10. losers' \in [Peer -> Nat]
  <2>1. ASSUME NEW q \in Peer PROVE losers[q] + late(q) \in Nat
    <3>1. losers[q] \in Nat /\ late(q) \in Nat
      BY <1>3, <1>8, PoolAssumption
    <3> QED
      BY <3>1
  <2> QED
    BY <1>7, <2>1
<1>11. ASSUME NEW q \in Peer
       PROVE  held'[q] + losers[q] + One(UsesPeer(p, q)) = held[q] + losers'[q] + One(UsesPeer(r, q))
  <2> DEFINE a == freed(q)
             b == late(q)
             u == One(UsesPeer(p, q))
  <2>1. a \in Nat /\ b \in Nat /\ a + b = u /\ held[q] \in Nat /\ losers[q] \in Nat
    BY <1>3, <1>8, PoolAssumption
  <2>2. held'[q] = held[q] - a /\ losers'[q] = losers[q] + b /\ One(UsesPeer(r, q)) = 0
    BY <1>6, <1>7 DEF One
  <2> HIDE DEF a, b, u
  <2>3. held'[q] + losers[q] + u = held[q] + losers'[q] + One(UsesPeer(r, q))
    BY <2>1, <2>2
  <2> QED
    BY <2>3 DEF u
<1>12. backups' \in BOOLEAN /\ One(backups') + One(p.tail) = One(backups) + One(r.tail)
  <2>1. p.tail => backups
    BY TailHolds
  <2>2. p.tail \in BOOLEAN
    BY <1>1 DEF PartType
  <2>3. CASE p.tail
    <3>1. backups = TRUE /\ backups' = FALSE
      BY <1>3, <1>7, <2>1, <2>3
    <3>2. One(p.tail) = 1 /\ One(r.tail) = 0
      BY <2>3 DEF One
    <3>3. One(backups) = 1 /\ One(backups') = 0
      BY <3>1 DEF One
    <3>4. backups' \in BOOLEAN
      BY <3>1
    <3>5. One(backups') + One(p.tail) = One(backups) + One(r.tail)
      BY <3>2, <3>3
    <3> QED
      BY <3>4, <3>5
  <2>4. CASE ~p.tail
    <3>1. backups' = backups
      BY <1>3, <1>7, <2>4
    <3> QED
      BY <1>3, <2>4, <3>1 DEF One
  <2> QED
    BY <2>3, <2>4
<1> QED
  <2>1. r \in PartType /\ PartInv(r) /\ r.items = p.items /\ p.pc # "done"
    BY <1>1
  <2>2. UNCHANGED <<kind, phase, gone, answer>> /\ deadPeers' \subseteq Peer
    OBVIOUS
  <2> HIDE DEF p
  <2>3. Keeps(p, r)
    BY <1>9, <1>10, <1>11, <1>12, <2>1, <2>2 DEF Keeps
  <2> QED
    BY <2>3 DEF p

\* What a part has when its race is over.
LEMMA SettledIs ==
    ASSUME NEW p \in PartType
    PROVE  /\ Settled(p) \in PartType /\ Settled(p).copies = Idle /\ ~Settled(p).tail
           /\ Settled(p).items = p.items /\ Settled(p).result = p.result
           /\ Settled(p).tried = p.tried /\ Settled(p).raced = p.raced
<1>1. Idle \in [Node -> {"none", "running", "failed"}] /\ {} \in SUBSET Peer
  BY DEF Idle
<1> QED
  BY <1>1 DEF PartType, Settled

LEMMA CopyWinsStep ==
    ASSUME MapInv, NEW c \in Chunk, NEW i \in DOMAIN parts[c], NEW n \in Node, CopyWins(c, i, n)
    PROVE  MapInv'
<1> DEFINE p == parts[c][i]
           s == Settled(p)
           r == [s EXCEPT !.pc = "done", !.err = FALSE, !.result = p.items]
<1>1. p \in PartType /\ PartInv(p) /\ p.pc = "sent" /\ n \in Running(p)
  BY PlaceOf DEF CopyWins
<1>2. s \in PartType /\ s.copies = Idle /\ ~s.tail /\ s.items = p.items
  BY <1>1, SettledIs
<1>3. p.items \in Seq(1..Items)
  BY <1>1 DEF PartType
<1>4. Update(c, i, r) /\ RaceOver(p, n) /\ UNCHANGED <<kind, phase, gone, answer, deadPeers>>
  BY DEF CopyWins, Unshared
<1> HIDE DEF s
<1>5. /\ r \in PartType /\ r.pc = "done" /\ r.result = p.items /\ r.items = p.items
      /\ r.copies = Idle /\ ~r.tail
  BY <1>2, <1>3 DEF PartType
<1> HIDE DEF r
<1>6. PartInv(r)
  BY <1>5 DEF PartInv
<1>7. deadPeers' \subseteq Peer
  BY <1>4 DEF MapInv, TypeOK
<1>8. Keeps(p, r)
  BY <1>1, <1>4, <1>5, <1>6, <1>7, RaceOverKeeps
<1> QED
  BY <1>4, <1>8, PartMoves

LEMMA LastCopyFailsStep ==
    ASSUME MapInv, NEW c \in Chunk, NEW i \in DOMAIN parts[c], NEW n \in Node, LastCopyFails(c, i, n)
    PROVE  MapInv'
<1> DEFINE p == parts[c][i]
           s == Settled(p)
           raced == p.copies[Here] # "none"
           next == IF raced THEN "done" ELSE "walk"
           r == [s EXCEPT !.pc = next, !.err = TRUE, !.raced = raced]
<1>1. p \in PartType /\ PartInv(p) /\ p.pc = "sent" /\ n \in Running(p)
  BY PlaceOf DEF LastCopyFails
<1>2. s \in PartType /\ s.copies = Idle /\ ~s.tail /\ s.items = p.items /\ s.result = p.result
  BY <1>1, SettledIs
<1>3. p.result = << >> /\ p.at \in Peer
  BY <1>1 DEF PartInv
<1>4. Update(c, i, r) /\ RaceOver(p, n) /\ UNCHANGED <<kind, phase, gone, answer>>
  BY DEF LastCopyFails, Unshared
<1>5. deadPeers' \subseteq Peer
  <2>1. deadPeers' = IF raced THEN deadPeers ELSE deadPeers \union {p.at}
    BY DEF LastCopyFails
  <2>2. deadPeers \subseteq Peer
    BY DEF MapInv, TypeOK
  <2> QED
    BY <1>3, <2>1, <2>2
<1>6. raced \in BOOLEAN /\ next \in {"done", "walk"} /\ (next = "walk" => ~raced)
  OBVIOUS
<1> HIDE DEF s, raced, next
<1>7. /\ r \in PartType /\ r.pc = next /\ r.err /\ r.raced = raced /\ r.items = p.items
      /\ r.copies = Idle /\ ~r.tail /\ r.result = << >>
  BY <1>2, <1>3, <1>6 DEF PartType
<1> HIDE DEF r
<1>8. PartInv(r)
  BY <1>6, <1>7 DEF PartInv
<1>9. Keeps(p, r)
  BY <1>1, <1>4, <1>5, <1>6, <1>7, <1>8, RaceOverKeeps
<1> QED
  BY <1>4, <1>9, PartMoves

LEMMA PartCancelledStep ==
    ASSUME MapInv, NEW c \in Chunk, NEW i \in DOMAIN parts[c], PartCancelled(c, i)
    PROVE  MapInv'
<1> DEFINE p == parts[c][i]
           s == Settled(p)
           r == [s EXCEPT !.pc = "done", !.err = TRUE]
<1>1. p \in PartType /\ PartInv(p) /\ p.pc # "done"
  BY PlaceOf DEF PartCancelled
<1>2. s \in PartType /\ s.copies = Idle /\ ~s.tail /\ s.items = p.items
  BY <1>1, SettledIs
<1>3. Update(c, i, r) /\ UNCHANGED <<kind, phase, gone, answer, deadPeers>>
  BY DEF PartCancelled, Unshared
<1> HIDE DEF s
<1>4. /\ r \in PartType /\ r.pc = "done" /\ r.err /\ r.items = p.items
      /\ r.copies = Idle /\ ~r.tail
  BY <1>2 DEF PartType
<1> HIDE DEF r
<1>5. PartInv(r)
  BY <1>4 DEF PartInv
<1>6. deadPeers' \subseteq Peer
  BY <1>3 DEF MapInv, TypeOK
<1>7. CASE p.pc = "sent"
  <2>1. RaceOver(p, Here)
    BY <1>7 DEF PartCancelled
  <2>2. Keeps(p, r)
    BY <1>3, <1>4, <1>5, <1>6, <1>7, <2>1, RaceOverKeeps
  <2> QED
    BY <1>3, <2>2, PartMoves
<1>8. CASE p.pc # "sent"
  <2>1. UNCHANGED <<held, losers, backups>>
    BY <1>8 DEF PartCancelled
  <2>2. \A q \in Peer : UsesPeer(p, q) <=> UsesPeer(r, q)
    BY <1>4, <1>8 DEF UsesPeer
  <2>3. p.tail = r.tail
    <3>1. p.tail \in BOOLEAN /\ r.tail \in BOOLEAN
      BY <1>1, <1>4 DEF PartType
    <3>2. ~p.tail /\ ~r.tail
      BY <1>1, <1>4, <1>8 DEF PartInv
    <3> QED
      BY <3>1, <3>2
  <2>4. Keeps(p, r)
    <3> HIDE DEF p
    <3> QED
      BY <1>1, <1>3, <1>4, <1>5, <1>6, <2>1, <2>2, <2>3, Still
  <2> QED
    BY <1>3, <2>4, PartMoves
<1> QED
  BY <1>7, <1>8

LEMMA CopyFailsStep ==
    ASSUME MapInv, NEW c \in Chunk, NEW i \in DOMAIN parts[c], NEW n \in Node, CopyFails(c, i, n)
    PROVE  MapInv'
<1> DEFINE p == parts[c][i]
           k == [p.copies EXCEPT ![n] = "failed"]
           r == [p EXCEPT !.copies = k]
<1>1. p \in PartType /\ PartInv(p) /\ p.pc = "sent" /\ n \in Running(p)
  BY PlaceOf DEF CopyFails
<1>2. /\ k \in [Node -> {"none", "running", "failed"}] /\ k[n] = "failed"
      /\ \A q \in Node : q # n => k[q] = p.copies[q]
  BY <1>1 DEF PartType
<1>3. Update(c, i, r) /\ UNCHANGED <<kind, phase, gone, answer, deadPeers, losers, backups>>
  BY DEF CopyFails, Unshared
<1> HIDE DEF k
<1>4. /\ r \in PartType /\ r.pc = p.pc /\ r.at = p.at /\ r.copies = k
      /\ r.result = p.result /\ r.raced = p.raced /\ r.tail = p.tail /\ r.items = p.items
      /\ r.err = p.err /\ r.tried = p.tried
  BY <1>1, <1>2 DEF PartType
<1> HIDE DEF r
<1>5. PartInv(r)
  BY <1>1, <1>4 DEF PartInv
<1>6. deadPeers' \subseteq Peer
  BY <1>3 DEF MapInv, TypeOK
<1>7. CASE n \notin BackupPeers(p)
  <2>1. held' = held
    BY <1>7 DEF CopyFails
  <2>2. \A q \in Peer : UsesPeer(p, q) <=> UsesPeer(r, q)
    BY <1>2, <1>4, <1>7 DEF UsesPeer, BackupPeers, Node
  <2>3. Keeps(p, r)
    <3> HIDE DEF p
    <3> QED
      BY <1>1, <1>3, <1>4, <1>5, <1>6, <2>1, <2>2, Still
  <2> QED
    BY <1>3, <2>3, PartMoves
<1>8. CASE n \in BackupPeers(p)
  <2>1. n \in Peer /\ n # p.at /\ p.copies[n] = "running"
    BY <1>1, <1>8 DEF BackupPeers, Running
  <2>2. held' = [held EXCEPT ![n] = @ - 1]
    BY <1>8 DEF CopyFails
  <2>3. held \in [Peer -> 0..Depth] /\ losers \in [Peer -> 0..Depth] /\ backups \in BOOLEAN
    BY DEF MapInv, TypeOK
  <2>4. held' \in [Peer -> 0..Depth]
    <3>1. held[n] \in 1..Depth
      BY <1>1, <2>1, UserHolds DEF UsesPeer
    <3>2. held[n] - 1 \in 0..Depth
      BY <3>1, PoolAssumption
    <3> QED
      BY <2>2, <2>3, <3>2
  <2>5. losers' \in [Peer -> Nat] /\ losers' = losers /\ backups' = backups
    BY <1>3, <2>3, PoolAssumption
  <2>6. ASSUME NEW x \in Peer
        PROVE  held'[x] + losers[x] + One(UsesPeer(p, x)) = held[x] + losers'[x] + One(UsesPeer(r, x))
    <3>1. held[x] \in Nat /\ losers[x] \in Nat /\ losers'[x] = losers[x]
      BY <2>3, <2>5, PoolAssumption
    <3>2. CASE x = n
      <4>1. One(UsesPeer(p, x)) = 1
        BY <1>1, <2>1, <3>2 DEF UsesPeer, One
      <4>2. One(UsesPeer(r, x)) = 0
        BY <1>2, <1>4, <2>1, <3>2 DEF UsesPeer, One
      <4>3. held'[x] = held[x] - 1
        BY <2>1, <2>2, <2>3, <3>2
      <4> QED
        BY <3>1, <4>1, <4>2, <4>3
    <3>3. CASE x # n
      <4>1. One(UsesPeer(r, x)) = One(UsesPeer(p, x)) /\ One(UsesPeer(p, x)) \in Nat
        BY <1>2, <1>4, <3>3 DEF UsesPeer, One, Node
      <4>2. held'[x] = held[x]
        BY <2>1, <2>2, <2>3, <3>3
      <4> QED
        BY <3>1, <4>1, <4>2
    <3> QED
      BY <3>2, <3>3
  <2>7. backups' \in BOOLEAN /\ One(backups') + One(p.tail) = One(backups) + One(r.tail)
    BY <1>4, <2>3, <2>5
  <2>8. Keeps(p, r)
    <3> HIDE DEF p
    <3> QED
      BY <1>1, <1>3, <1>4, <1>5, <1>6, <2>4, <2>5, <2>6, <2>7 DEF Keeps
  <2> QED
    BY <1>3, <2>8, PartMoves
<1> QED
  BY <1>7, <1>8

-----------------------------------------------------------------------------
(* The steps of a chunk.                                                    *)

\* A chunk that begins has fresh parts, which use nothing.
LEMMA BeginStep ==
    ASSUME MapInv, NEW c \in Chunk, Begin(c)
    PROVE  MapInv'
<1>1. /\ phase[c] = "idle" /\ phase' = [phase EXCEPT ![c] = "running"] /\ deadPeers' = {}
      /\ UNCHANGED <<kind, gone, answer, held, losers, backups>>
  BY DEF Begin
<1>2. PICK peers \in Rankings : \E plan \in Plans(peers, kind[c]) : parts' = [parts EXCEPT ![c] = plan]
  BY DEF Begin
<1>3. PICK plan \in Plans(peers, kind[c]) : parts' = [parts EXCEPT ![c] = plan]
  BY <1>2
<1>4. plan \in Seq(PartType) /\ Ordered(plan) /\ \A i \in DOMAIN plan : FreshPart(plan[i])
  BY PlansAre
<1>5. /\ parts \in [Chunk -> Seq(PartType)] /\ phase \in [Chunk -> {"idle", "running", "answered", "failed", "cancelled"}]
      /\ parts[c] = << >>
  BY <1>1 DEF MapInv, TypeOK
<1>6. /\ parts' \in [Chunk -> Seq(PartType)] /\ parts'[c] = plan
      /\ \A d \in Chunk : d # c => parts'[d] = parts[d] /\ phase'[d] = phase[d]
      /\ phase' \in [Chunk -> {"idle", "running", "answered", "failed", "cancelled"}]
      /\ phase'[c] = "running"
  BY <1>1, <1>3, <1>4, <1>5
<1>7. \A i \in DOMAIN parts'[c] : parts'[c][i].pc # "sent" /\ ~parts'[c][i].tail
  BY <1>4, <1>6 DEF FreshPart
<1>8. DOMAIN parts[c] = {}
  BY <1>5
<1>9. ASSUME NEW q \in Peer PROVE Uses(q)' = Uses(q)
  <2>1. ASSUME NEW x \in Places
        PROVE  x \in Uses(q) <=> x \in Uses(q)'
    <3>1. PICK d \in Chunk, j \in 1..Items : x = << d, j >>
      BY DEF Places
    <3>2. x \in Uses(q) <=> j \in DOMAIN parts[d] /\ UsesPeer(parts[d][j], q)
      BY <3>1 DEF Uses
    <3>3. x \in Uses(q)' <=> j \in DOMAIN parts'[d] /\ UsesPeer(parts'[d][j], q)
      BY <3>1 DEF Uses, UsesPeer
    <3>4. CASE d = c
      BY <1>7, <1>8, <3>2, <3>3, <3>4 DEF UsesPeer
    <3>5. CASE d # c
      BY <1>6, <3>2, <3>3, <3>5
    <3> QED
      BY <3>4, <3>5
  <2>2. Uses(q) \subseteq Places /\ Uses(q)' \subseteq Places
    BY DEF Uses, Places
  <2> QED
    BY <2>1, <2>2
<1>10. Tails' = Tails
  <2>1. ASSUME NEW x \in Places
        PROVE  x \in Tails <=> x \in Tails'
    <3>1. PICK d \in Chunk, j \in 1..Items : x = << d, j >>
      BY DEF Places
    <3>2. x \in Tails <=> j \in DOMAIN parts[d] /\ parts[d][j].tail
      BY <3>1 DEF Tails
    <3>3. x \in Tails' <=> j \in DOMAIN parts'[d] /\ parts'[d][j].tail
      BY <3>1 DEF Tails
    <3>4. CASE d = c
      BY <1>7, <1>8, <3>2, <3>3, <3>4
    <3>5. CASE d # c
      BY <1>6, <3>2, <3>3, <3>5
    <3> QED
      BY <3>4, <3>5
  <2>2. Tails \subseteq Places /\ Tails' \subseteq Places
    BY DEF Tails, Places
  <2> QED
    BY <2>1, <2>2
<1>11. TypeOK'
  BY <1>1, <1>6 DEF MapInv, TypeOK
<1>12. \A d \in Chunk : IF phase'[d] = "idle" THEN parts'[d] = << >> ELSE Ordered(parts'[d])
  BY <1>4, <1>6 DEF MapInv
<1>13. \A d \in Chunk : \A j \in DOMAIN parts'[d] : PartInv(parts'[d][j])
  <2>1. ASSUME NEW j \in DOMAIN plan PROVE PartInv(plan[j])
    BY <1>4 DEF FreshPart, PartInv
  <2> QED
    BY <1>6, <2>1 DEF MapInv
<1>14. ASSUME NEW d \in Chunk, phase'[d] = "answered"
       PROVE  (\A j \in DOMAIN parts'[d] : parts'[d][j].pc = "done") /\ RightAnswer(d)'
  <2>1. d # c /\ phase[d] = "answered" /\ parts'[d] = parts[d] /\ answer'[d] = answer[d]
    BY <1>1, <1>6, <1>14
  <2>2. (\A j \in DOMAIN parts[d] : parts[d][j].pc = "done") /\ RightAnswer(d)
    BY <2>1 DEF MapInv
  <2>3. RightAnswer(d)'
    BY <2>1, <2>2 DEF RightAnswer, Untried
  <2> QED
    BY <2>1, <2>2, <2>3
<1>15. \A q \in Peer : held'[q] = losers'[q] + Cardinality(Uses(q)')
  BY <1>1, <1>9 DEF MapInv
<1>16. Cardinality(Tails') = IF backups' THEN 1 ELSE 0
  BY <1>1, <1>10 DEF MapInv
<1> QED
  BY <1>11, <1>12, <1>13, <1>14, <1>15, <1>16 DEF MapInv

\* What the invariant says of a state with the same parts.
LEMMA SameParts ==
    ASSUME MapInv, UNCHANGED <<parts, kind>>, TypeOK',
           \A c \in Chunk : (phase'[c] = "idle") <=> (phase[c] = "idle"),
           \A c \in Chunk : phase'[c] = "answered" =>
              (\A i \in DOMAIN parts[c] : parts[c][i].pc = "done") /\ RightAnswer(c)',
           \A q \in Peer : held'[q] = losers'[q] + Cardinality(Uses(q)),
           backups' = backups
    PROVE  MapInv'
<1>1. parts' = parts
  OBVIOUS
<1>2. \A q \in Peer : Uses(q)' = Uses(q)
  BY <1>1 DEF Uses
<1>3. Tails' = Tails
  BY <1>1 DEF Tails
<1>4. \A d \in Chunk : IF phase'[d] = "idle" THEN parts'[d] = << >> ELSE Ordered(parts'[d])
  BY <1>1 DEF MapInv
<1>5. \A d \in Chunk : \A j \in DOMAIN parts'[d] : PartInv(parts'[d][j])
  BY <1>1 DEF MapInv
<1>6. \A d \in Chunk : phase'[d] = "answered" =>
         (\A j \in DOMAIN parts'[d] : parts'[d][j].pc = "done") /\ RightAnswer(d)'
  BY <1>1
<1>7. \A q \in Peer : held'[q] = losers'[q] + Cardinality(Uses(q)')
  BY <1>2
<1>8. Cardinality(Tails') = IF backups' THEN 1 ELSE 0
  BY <1>3 DEF MapInv
<1> QED
  BY <1>4, <1>5, <1>6, <1>7, <1>8 DEF MapInv

\* An answer stays right.
LEMMA StaysRight ==
    ASSUME MapInv, NEW c \in Chunk, phase[c] = "answered", answer'[c] = answer[c], parts' = parts
    PROVE  (\A i \in DOMAIN parts[c] : parts[c][i].pc = "done") /\ RightAnswer(c)'
<1>1. (\A i \in DOMAIN parts[c] : parts[c][i].pc = "done") /\ RightAnswer(c)
  BY DEF MapInv
<1> QED
  BY <1>1 DEF RightAnswer, Untried

LEMMA CancelStep ==
    ASSUME MapInv, NEW c \in Chunk, Cancel(c)
    PROVE  MapInv'
<1>1. /\ gone' = [gone EXCEPT ![c] = TRUE]
      /\ UNCHANGED <<kind, phase, parts, answer, deadPeers, held, losers, backups>>
  BY DEF Cancel
<1>2. TypeOK'
  BY <1>1 DEF MapInv, TypeOK
<1>3. \A d \in Chunk : phase'[d] = "answered" =>
         (\A i \in DOMAIN parts[d] : parts[d][i].pc = "done") /\ RightAnswer(d)'
  BY <1>1, StaysRight
<1>4. \A q \in Peer : held'[q] = losers'[q] + Cardinality(Uses(q))
  BY <1>1 DEF MapInv
<1> QED
  BY <1>1, <1>2, <1>3, <1>4, SameParts

LEMMA LoserEndsStep ==
    ASSUME MapInv, NEW q \in Peer, LoserEnds(q)
    PROVE  MapInv'
<1>1. /\ losers[q] > 0
      /\ losers' = [losers EXCEPT ![q] = @ - 1] /\ held' = [held EXCEPT ![q] = @ - 1]
      /\ UNCHANGED <<kind, phase, gone, answer, parts, deadPeers, backups>>
  BY DEF LoserEnds, Unshared
<1>2. held \in [Peer -> 0..Depth] /\ losers \in [Peer -> 0..Depth]
  BY DEF MapInv, TypeOK
<1>3. \A x \in Peer : Cardinality(Uses(x)) \in Nat /\ held[x] = losers[x] + Cardinality(Uses(x))
  BY PlacesFinite, FS_CardinalityType DEF MapInv
<1>4. losers[q] - 1 \in 0..Depth /\ held[q] - 1 \in 0..Depth
  BY <1>1, <1>2, <1>3, PoolAssumption
<1>5. held' \in [Peer -> 0..Depth] /\ losers' \in [Peer -> 0..Depth]
  BY <1>1, <1>2, <1>4
<1>6. TypeOK'
  BY <1>1, <1>5 DEF MapInv, TypeOK
<1>7. \A d \in Chunk : phase'[d] = "answered" =>
         (\A i \in DOMAIN parts[d] : parts[d][i].pc = "done") /\ RightAnswer(d)'
  BY <1>1, StaysRight
<1>8. ASSUME NEW x \in Peer PROVE held'[x] = losers'[x] + Cardinality(Uses(x))
  <2> DEFINE n == Cardinality(Uses(x))
  <2>1. n \in Nat /\ held[x] = losers[x] + n /\ losers[x] \in Nat
    BY <1>2, <1>3, PoolAssumption
  <2> HIDE DEF n
  <2>2. CASE x = q
    <3>1. held'[x] = held[x] - 1 /\ losers'[x] = losers[x] - 1
      BY <1>1, <1>2, <2>2
    <3>2. held'[x] = losers'[x] + n
      BY <2>1, <3>1
    <3> QED
      BY <3>2 DEF n
  <2>3. CASE x # q
    <3>1. held'[x] = held[x] /\ losers'[x] = losers[x]
      BY <1>1, <1>2, <2>3
    <3>2. held'[x] = losers'[x] + n
      BY <2>1, <3>1
    <3> QED
      BY <3>2 DEF n
  <2> QED
    BY <2>2, <2>3
<1> QED
  BY <1>1, <1>6, <1>7, <1>8, SameParts

-----------------------------------------------------------------------------
(* The reply.                                                               *)

\* Two sequences one behind the other.
LEMMA BehindIs ==
    ASSUME NEW s \in Seq(1..Items), NEW t \in Seq(1..Items), Rises(s), Rises(t),
           \A x \in ToSet(s), y \in ToSet(t) : x < y
    PROVE  s \o t \in Seq(1..Items) /\ Rises(s \o t) /\ ToSet(s \o t) = ToSet(s) \union ToSet(t)
<1> DEFINE u == s \o t
           m == Len(s)
           n == Len(t)
<1>1. /\ m \in Nat /\ n \in Nat /\ DOMAIN s = 1..m /\ DOMAIN t = 1..n
      /\ \A i \in 1..m : s[i] \in 1..Items
      /\ \A i \in 1..n : t[i] \in 1..Items
  <2>1. m \in Nat /\ n \in Nat /\ DOMAIN s = 1..m /\ DOMAIN t = 1..n
    OBVIOUS
  <2>2. \A i \in 1..m : s[i] \in 1..Items
    BY ElementOfSeq
  <2>3. \A i \in 1..n : t[i] \in 1..Items
    BY ElementOfSeq
  <2> QED
    BY <2>1, <2>2, <2>3
<1>2. u \in Seq(1..Items) /\ Len(u) = m + n
  BY ConcatProperties
<1>3. /\ \A i \in 1..m : u[i] = s[i]
      /\ \A i \in 1..n : u[m + i] = t[i]
  OBVIOUS
<1>4. DOMAIN u = 1..(m + n)
  BY <1>2
<1> HIDE DEF u, m, n
<1>5. \A i \in (m + 1)..(m + n) : i - m \in 1..n /\ u[i] = t[i - m]
  <2> TAKE i \in (m + 1)..(m + n)
  <2>1. i - m \in 1..n /\ m + (i - m) = i
    BY <1>1
  <2> QED
    BY <1>3, <2>1
<1>6. \A i \in 1..(m + n) : i \in 1..m \/ i \in (m + 1)..(m + n)
  BY <1>1
<1>7. ToSet(u) = ToSet(s) \union ToSet(t)
  <2>1. ASSUME NEW i \in 1..(m + n) PROVE u[i] \in ToSet(s) \union ToSet(t)
    BY <1>1, <1>3, <1>5, <1>6 DEF ToSet
  <2>2. ASSUME NEW i \in 1..m PROVE s[i] \in ToSet(u)
    <3>1. i \in 1..(m + n)
      BY <1>1
    <3> QED
      BY <1>3, <1>4, <3>1 DEF ToSet
  <2>3. ASSUME NEW i \in 1..n PROVE t[i] \in ToSet(u)
    <3>1. m + i \in 1..(m + n)
      BY <1>1
    <3> QED
      BY <1>3, <1>4, <3>1 DEF ToSet
  <2> QED
    BY <1>1, <1>4, <2>1, <2>2, <2>3 DEF ToSet
<1>8. Rises(u)
  <2> SUFFICES ASSUME NEW i \in 1..(m + n), NEW j \in 1..(m + n), i < j
               PROVE  u[i] < u[j]
    BY <1>4 DEF Rises
  <2>1. CASE i \in 1..m /\ j \in 1..m
    BY <1>1, <1>3, <2>1 DEF Rises
  <2>2. CASE i \in 1..m /\ j \in (m + 1)..(m + n)
    <3>1. u[i] \in ToSet(s) /\ u[j] \in ToSet(t)
      BY <1>1, <1>3, <1>5, <2>2 DEF ToSet
    <3> QED
      BY <3>1
  <2>3. CASE i \in (m + 1)..(m + n) /\ j \in (m + 1)..(m + n)
    <3>1. i - m < j - m
      BY <1>1
    <3> QED
      BY <1>1, <1>5, <2>3, <3>1 DEF Rises
  <2>4. ~(i \in (m + 1)..(m + n) /\ j \in 1..m)
    BY <1>1
  <2> QED
    BY <1>6, <2>1, <2>2, <2>3, <2>4
<1> QED
  BY <1>2, <1>7, <1>8 DEF u

\* The results of ordered parts, each its part's items or nothing.
LEMMA JoinedIs ==
    ASSUME NEW ps \in Seq(PartType), Ordered(ps),
           \A i \in DOMAIN ps : ps[i].result = ps[i].items \/ ps[i].result = << >>
    PROVE  LET flat == FlattenSeq([i \in DOMAIN ps |-> ps[i].result])
           IN  /\ flat \in Seq(1..Items) /\ Rises(flat)
               /\ \A x : x \in ToSet(flat) <=> \E i \in DOMAIN ps : x \in ToSet(ps[i].result)
<1> DEFINE rs == [i \in DOMAIN ps |-> ps[i].result]
           m == Len(ps)
<1>1. m \in Nat /\ DOMAIN ps = 1..m
  OBVIOUS
<1>2. ASSUME NEW i \in 1..m
      PROVE  ps[i].result \in Seq(1..Items) /\ ps[i].items \in Seq(1..Items)
  <2>1. ps[i] \in PartType
    BY ElementOfSeq
  <2> QED
    BY <2>1 DEF PartType
<1>3. rs \in Seq(Seq(1..Items)) /\ Len(rs) = m /\ \A i \in 1..m : rs[i] = ps[i].result
  BY <1>1, <1>2
<1>4. \A i \in 1..m : Rises(rs[i]) /\ ToSet(rs[i]) \subseteq ToSet(ps[i].items)
  <2> TAKE i \in 1..m
  <2>1. Rises(<< >>) /\ ToSet(<< >>) = {}
    BY DEF Rises, ToSet
  <2>2. Rises(ps[i].items)
    BY <1>1 DEF Ordered
  <2>3. ps[i].result = ps[i].items \/ ps[i].result = << >>
    BY <1>1
  <2> QED
    BY <1>3, <2>1, <2>2, <2>3
<1> HIDE DEF rs, m
<1>5. PICK f : f \in [Nat -> Seq(1..Items)] /\ JoinsTo(f, rs, m) /\ FlattenSeq(rs) = f[m]
  BY <1>3, FlattenIs
<1> DEFINE Q == {n \in Nat : n <= m =>
                   /\ Rises(f[n])
                   /\ \A x : x \in ToSet(f[n]) <=> \E i \in 1..n : x \in ToSet(rs[i])}
<1>6. 0 \in Q
  <2>1. f[0] = << >>
    BY <1>5 DEF JoinsTo
  <2>2. Rises(<< >>) /\ ToSet(<< >>) = {}
    BY DEF Rises, ToSet
  <2> QED
    BY <2>1, <2>2
<1>7. ASSUME NEW n \in Nat, n \in Q PROVE n + 1 \in Q
  <2> SUFFICES ASSUME n + 1 <= m
               PROVE  /\ Rises(f[n + 1])
                      /\ \A x : x \in ToSet(f[n + 1]) <=> \E i \in 1..(n + 1) : x \in ToSet(rs[i])
    OBVIOUS
  <2>1. /\ Rises(f[n])
        /\ \A x : x \in ToSet(f[n]) <=> \E i \in 1..n : x \in ToSet(rs[i])
    BY <1>1, <1>7
  <2>2. n + 1 \in 1..m /\ (n + 1) - 1 = n /\ \A i \in 1..n : i \in 1..m /\ i < n + 1
    BY <1>1
  <2>3. f[n + 1] = f[n] \o rs[n + 1]
    BY <1>5, <2>2 DEF JoinsTo
  <2>4. f[n] \in Seq(1..Items) /\ rs[n + 1] \in Seq(1..Items) /\ Rises(rs[n + 1])
    BY <1>2, <1>3, <1>4, <1>5, <2>2
  <2>5. \A x \in ToSet(f[n]), y \in ToSet(rs[n + 1]) : x < y
    <3> TAKE x \in ToSet(f[n]), y \in ToSet(rs[n + 1])
    <3>1. PICK i \in 1..n : x \in ToSet(rs[i])
      BY <2>1
    <3>2. x \in ToSet(ps[i].items) /\ y \in ToSet(ps[n + 1].items)
      BY <1>4, <2>2, <3>1
    <3> QED
      BY <1>1, <2>2, <3>2 DEF Ordered
  <2>6. Rises(f[n + 1]) /\ ToSet(f[n + 1]) = ToSet(f[n]) \union ToSet(rs[n + 1])
    BY <2>1, <2>3, <2>4, <2>5, BehindIs
  <2>7. \A i \in 1..(n + 1) : i \in 1..n \/ i = n + 1
    OBVIOUS
  <2>8. n + 1 \in 1..(n + 1) /\ \A i \in 1..n : i \in 1..(n + 1)
    OBVIOUS
  <2> QED
    BY <2>1, <2>6, <2>7, <2>8
<1>8. m \in Q
  <2> HIDE DEF Q
  <2> QED
    BY <1>1, <1>6, <1>7, SetInduction
<1>9. /\ Rises(f[m]) /\ f[m] \in Seq(1..Items)
      /\ \A x : x \in ToSet(f[m]) <=> \E i \in 1..m : x \in ToSet(rs[i])
  BY <1>1, <1>5, <1>8
<1>10. /\ FlattenSeq(rs) \in Seq(1..Items) /\ Rises(FlattenSeq(rs))
       /\ \A x : x \in ToSet(FlattenSeq(rs)) <=> \E i \in DOMAIN ps : x \in ToSet(ps[i].result)
  BY <1>1, <1>3, <1>5, <1>9
<1> QED
  BY <1>10 DEF rs

\* What goes back when every part is done without an error.
LEMMA AnswerIs ==
    ASSUME MapInv, NEW c \in Chunk, Ordered(parts[c]),
           \A i \in DOMAIN parts[c] : parts[c][i].pc = "done" /\ ~parts[c][i].err
    PROVE  LET flat == FlattenSeq([i \in DOMAIN parts[c] |-> parts[c][i].result])
           IN  flat \in Seq(1..Items) /\ Rises(flat) /\ ToSet(flat) = (1..Items) \ Untried(c)
<1> DEFINE ps == parts[c]
           flat == FlattenSeq([i \in DOMAIN ps |-> ps[i].result])
<1>1. ps \in Seq(PartType)
  BY DEF MapInv, TypeOK
<1>2. ASSUME NEW i \in DOMAIN ps
      PROVE  ps[i].result = ps[i].items \/ (ps[i].result = << >> /\ ~ps[i].tried)
  <2>1. PartInv(ps[i])
    BY DEF MapInv
  <2> QED
    BY <2>1 DEF PartInv
<1>3. /\ flat \in Seq(1..Items) /\ Rises(flat)
      /\ \A x : x \in ToSet(flat) <=> \E i \in DOMAIN ps : x \in ToSet(ps[i].result)
  BY <1>1, <1>2, JoinedIs
<1>4. \A x : x \in Untried(c) <=>
         \E i \in DOMAIN ps : ~ps[i].tried /\ ps[i].result = << >> /\ x \in ToSet(ps[i].items)
  BY DEF Untried
<1>5. ToSet(<< >>) = {}
  BY DEF ToSet
<1> HIDE DEF flat
<1>6. ASSUME NEW x \in ToSet(flat) PROVE x \in (1..Items) \ Untried(c)
  <2>1. PICK i \in DOMAIN ps : x \in ToSet(ps[i].result)
    BY <1>3
  <2>2. ps[i].result = ps[i].items /\ ps[i].result # << >>
    BY <1>2, <1>5, <2>1
  <2>3. x \in 1..Items
    <3>1. PICK k \in DOMAIN flat : x = flat[k]
      BY DEF ToSet
    <3>2. flat \in Seq(1..Items) /\ k \in 1..Len(flat)
      BY <1>3, <3>1
    <3> QED
      BY <3>1, <3>2, ElementOfSeq
  <2>4. ASSUME NEW j \in DOMAIN ps, x \in ToSet(ps[j].items) PROVE j = i
    <3>1. i \in Nat /\ j \in Nat /\ x \in Nat
      BY <1>1, <2>3, PoolAssumption
    <3>2. i < j => x < x
      BY <2>1, <2>2, <2>4 DEF Ordered
    <3>3. j < i => x < x
      BY <2>1, <2>2, <2>4 DEF Ordered
    <3> QED
      BY <3>1, <3>2, <3>3
  <2> QED
    BY <1>4, <2>2, <2>3, <2>4
<1>7. ASSUME NEW x \in 1..Items, x \notin Untried(c) PROVE x \in ToSet(flat)
  <2>1. PICK i \in DOMAIN ps : x \in ToSet(ps[i].items)
    BY DEF Ordered
  <2>2. ps[i].result = ps[i].items
    BY <1>2, <1>4, <1>7, <2>1
  <2> QED
    BY <1>3, <2>1, <2>2
<1>8. ToSet(flat) = (1..Items) \ Untried(c)
  BY <1>6, <1>7
<1> QED
  BY <1>3, <1>8 DEF flat

LEMMA ReplyStep ==
    ASSUME MapInv, NEW c \in Chunk, Reply(c)
    PROVE  MapInv'
<1>1. /\ phase[c] = "running" /\ \A i \in DOMAIN parts[c] : parts[c][i].pc = "done"
      /\ UNCHANGED <<kind, gone, parts, deadPeers, held, losers, backups>>
  BY DEF Reply
<1>2. /\ phase \in [Chunk -> {"idle", "running", "answered", "failed", "cancelled"}]
      /\ answer \in [Chunk -> Seq(1..Items)]
  BY DEF MapInv, TypeOK
<1>3. Ordered(parts[c])
  BY <1>1 DEF MapInv
<1>4. \A q \in Peer : held'[q] = losers'[q] + Cardinality(Uses(q))
  BY <1>1 DEF MapInv
<1>5. CASE \E i \in DOMAIN parts[c] : parts[c][i].err
  <2> DEFINE how == IF gone[c] THEN "cancelled" ELSE "failed"
  <2>1. phase' = [phase EXCEPT ![c] = how] /\ answer' = answer
    BY <1>5 DEF Reply
  <2>2. how \in {"cancelled", "failed"}
    OBVIOUS
  <2> HIDE DEF how
  <2>3. /\ phase' \in [Chunk -> {"idle", "running", "answered", "failed", "cancelled"}]
        /\ \A d \in Chunk : (phase'[d] = "idle") <=> (phase[d] = "idle")
        /\ \A d \in Chunk : phase'[d] = "answered" => phase[d] = "answered"
    BY <1>1, <1>2, <2>1, <2>2
  <2>4. TypeOK'
    BY <1>1, <2>1, <2>3 DEF MapInv, TypeOK
  <2>5. \A d \in Chunk : phase'[d] = "answered" =>
           (\A i \in DOMAIN parts[d] : parts[d][i].pc = "done") /\ RightAnswer(d)'
    BY <1>1, <2>1, <2>3, StaysRight
  <2> QED
    BY <1>1, <1>4, <2>3, <2>4, <2>5, SameParts
<1>6. CASE ~ \E i \in DOMAIN parts[c] : parts[c][i].err
  <2> DEFINE flat == FlattenSeq([i \in DOMAIN parts[c] |-> parts[c][i].result])
  <2>1. phase' = [phase EXCEPT ![c] = "answered"] /\ answer' = [answer EXCEPT ![c] = flat]
    BY <1>6 DEF Reply
  <2>2. flat \in Seq(1..Items) /\ Rises(flat) /\ ToSet(flat) = (1..Items) \ Untried(c)
    BY <1>1, <1>3, <1>6, AnswerIs
  <2> HIDE DEF flat
  <2>3. /\ phase' \in [Chunk -> {"idle", "running", "answered", "failed", "cancelled"}]
        /\ \A d \in Chunk : (phase'[d] = "idle") <=> (phase[d] = "idle")
        /\ \A d \in Chunk : d # c => phase'[d] = phase[d] /\ answer'[d] = answer[d]
        /\ answer' \in [Chunk -> Seq(1..Items)] /\ answer'[c] = flat
    BY <1>1, <1>2, <2>1, <2>2
  <2>4. TypeOK'
    BY <1>1, <2>3 DEF MapInv, TypeOK
  <2>5. RightAnswer(c)'
    <3>1. Untried(c)' = Untried(c)
      BY <1>1 DEF Untried
    <3> QED
      BY <2>2, <2>3, <3>1 DEF RightAnswer, Rises
  <2>6. \A d \in Chunk : phase'[d] = "answered" =>
           (\A i \in DOMAIN parts[d] : parts[d][i].pc = "done") /\ RightAnswer(d)'
    <3> TAKE d \in Chunk
    <3>1. CASE d = c
      BY <1>1, <2>5, <3>1
    <3>2. CASE d # c
      BY <1>1, <2>3, <3>2, StaysRight
    <3> QED
      BY <3>1, <3>2
  <2> QED
    BY <1>1, <1>4, <2>3, <2>4, <2>6, SameParts
<1> QED
  BY <1>5, <1>6

-----------------------------------------------------------------------------
\* Nothing is planned or booked at first.
LEMMA MapInit == Init => MapInv
<1> SUFFICES ASSUME Init PROVE MapInv
  OBVIOUS
<1>1. << >> \in Seq(PartType) /\ << >> \in Seq(1..Items) /\ DOMAIN << >> = {} /\ 0 \in 0..Depth
  BY PoolAssumption
<1>2. TypeOK
  BY <1>1 DEF Init, TypeOK
<1>3. \A q : Uses(q) = {}
  BY <1>1 DEF Init, Uses
<1>4. Tails = {}
  BY <1>1 DEF Init, Tails
<1>5. Cardinality({}) = 0
  BY FS_EmptySet
<1>6. \A q \in Peer : held[q] = losers[q] + Cardinality(Uses(q))
  <2> TAKE q \in Peer
  <2>1. held[q] = 0 /\ losers[q] = 0
    BY DEF Init
  <2> QED
    BY <1>3, <1>5, <2>1
<1>7. Cardinality(Tails) = IF backups THEN 1 ELSE 0
  BY <1>4, <1>5 DEF Init
<1> QED
  BY <1>1, <1>2, <1>6, <1>7 DEF Init, MapInv

\* Every step keeps the invariant.
LEMMA MapStep == MapInv /\ [Next]_vars => MapInv'
<1> SUFFICES ASSUME MapInv, [Next]_vars PROVE MapInv'
  OBVIOUS
<1>1. CASE UNCHANGED vars
  <2>1. UNCHANGED <<kind, phase, gone, parts, answer, deadPeers, held, losers, backups>>
    BY <1>1 DEF vars
  <2>2. TypeOK'
    BY <2>1 DEF MapInv, TypeOK
  <2>3. \A d \in Chunk : phase'[d] = "answered" =>
           (\A i \in DOMAIN parts[d] : parts[d][i].pc = "done") /\ RightAnswer(d)'
    BY <2>1, StaysRight
  <2>4. \A q \in Peer : held'[q] = losers'[q] + Cardinality(Uses(q))
    BY <2>1 DEF MapInv
  <2> QED
    BY <2>1, <2>2, <2>3, <2>4, SameParts
<1>2. ASSUME NEW c \in Chunk, Begin(c) \/ Cancel(c) \/ Reply(c) PROVE MapInv'
  BY <1>2, BeginStep, CancelStep, ReplyStep
<1>3. ASSUME NEW c \in Chunk, NEW i \in DOMAIN parts[c],
             PartStep(c, i) \/ CopyToPeer(c, i) \/ TailBackup(c, i)
      PROVE  MapInv'
  BY <1>3, SkipDeadStep, WalkEndsStep, EnterGateStep, GateStep, BudgetSpentStep, RunLocalStep,
     PartCancelledStep, CopyToPeerStep, TailBackupStep DEF PartStep
<1>4. ASSUME NEW c \in Chunk, NEW i \in DOMAIN parts[c], NEW n \in Node,
             CopyWins(c, i, n) \/ CopyFails(c, i, n) \/ LastCopyFails(c, i, n)
      PROVE  MapInv'
  BY <1>4, CopyWinsStep, CopyFailsStep, LastCopyFailsStep
<1>5. ASSUME NEW q \in Peer, LoserEnds(q) PROVE MapInv'
  BY <1>5, LoserEndsStep
<1>6. CASE Finished
  BY <1>1, <1>6 DEF Finished
<1> QED
  BY <1>1, <1>2, <1>3, <1>4, <1>5, <1>6 DEF Next

\* A chunk's answer has its items in order, and all but those of the parts
\* none of whose peers was asked: whatever peers fail, stay silent or answer
\* late, however parts are split, gated, copied and cancelled.
THEOREM TriedAreAnswered == Spec => []TriedIsAnswered
<1>1. MapInv => TriedIsAnswered
  BY DEF MapInv, TriedIsAnswered, RightAnswer, Rises
<1> QED
  BY <1>1, MapInit, MapStep, PTL DEF Spec

\* The depth book holds for each peer what runs there, copies that lost their
\* race included, never more than its depth; and one part at most has the tail
\* backup.
THEOREM BookStaysTrue == Spec => []BookIsTrue
<1>1. MapInv => BookIsTrue
  BY DEF MapInv, BookIsTrue
<1> QED
  BY <1>1, MapInit, MapStep, PTL DEF Spec

-----------------------------------------------------------------------------
(* Warm workers.                                                           *)

\* A stopped worker does not run; an idle request has no worker, so it never
\* stands for one that leaks; a request that may stop its worker was given one.
StoppedIsGone == alive \intersect killed = {}
IdleHasNone   == \A r \in Request : pc[r] = "idle" => mine[r] = 0
UsersHaveOne  ==
  \A r \in Request :
    (r \in armed \/ pc[r] \in {"queued", "sent", "reapok", "reaperror", "failed", "dropped"})
      => mine[r] \in 1..spawned

\* What LeakedByCancelOnly rests on.
WorkerInv == LeakedByCancelOnly /\ StoppedIsGone /\ IdleHasNone /\ UsersHaveOne

\* Every step keeps the types.
LEMMA WorkerTypeStep ==
  WorkerTypeOK /\ UsersHaveOne /\ [WorkerNext]_workerVars => WorkerTypeOK'
<1> SUFFICES ASSUME WorkerTypeOK, UsersHaveOne, [WorkerNext]_workerVars PROVE WorkerTypeOK'
  OBVIOUS
<1> USE WorkerAssumption DEF WorkerTypeOK, UsersHaveOne, Worker, Ended, Goto
<1>1. ASSUME NEW r \in Request, StartGone(r) PROVE WorkerTypeOK'
  BY <1>1 DEF StartGone
<1>2. ASSUME NEW r \in Request, Reuse(r) PROVE WorkerTypeOK'
  BY <1>2 DEF Reuse
<1>3. ASSUME NEW r \in Request, Spawn(r) PROVE WorkerTypeOK'
  BY <1>3 DEF Spawn
<1>4. ASSUME NEW r \in Request, SpawnFails(r) PROVE WorkerTypeOK'
  BY <1>4 DEF SpawnFails
<1>5. ASSUME NEW r \in Request, Refused(r) PROVE WorkerTypeOK'
  BY <1>5 DEF Refused
<1>6. ASSUME NEW r \in Request, Send(r) PROVE WorkerTypeOK'
  BY <1>6 DEF Send
<1>7. ASSUME NEW r \in Request, Reap(r) PROVE WorkerTypeOK'
  BY <1>7 DEF Reap
<1>8. ASSUME NEW r \in Request, DropCancelled(r) PROVE WorkerTypeOK'
  BY <1>8 DEF DropCancelled, Dropped
<1>9. ASSUME NEW r \in Request, Drop(r) PROVE WorkerTypeOK'
  BY <1>9 DEF Drop, Dropped
<1>10. ASSUME NEW r \in Request, Kill(r) PROVE WorkerTypeOK'
  <2>1. mine[r] \in 1..spawned /\ mine[r] \in 1..MaxWorkers
    BY <1>10 DEF Kill
  <2>2. waits' \in [1..MaxWorkers -> Nat]
    <3>1. (IF mine[r] \in killed THEN 0 ELSE 1) \in Nat
      OBVIOUS
    <3>2. waits[mine[r]] + (IF mine[r] \in killed THEN 0 ELSE 1) \in Nat
      BY <2>1, <3>1
    <3> QED
      BY <1>10, <3>2 DEF Kill
  <2> QED
    BY <1>10, <2>1, <2>2 DEF Kill
<1>11. ASSUME NEW r \in Request, Cold(r) PROVE WorkerTypeOK'
  BY <1>11 DEF Cold
<1>12. ASSUME NEW r \in Request, KillOnCancel(r) PROVE WorkerTypeOK'
  BY <1>12 DEF KillOnCancel
<1>13. ASSUME NEW r \in Request, CancelRequest(r) PROVE WorkerTypeOK'
  BY <1>13 DEF CancelRequest, Armed
<1>14. ASSUME NEW r \in Request, Again(r) PROVE WorkerTypeOK'
  BY <1>14 DEF Again
<1>15. ASSUME NEW r \in Request, NEW good \in BOOLEAN, Answered(r, good) PROVE WorkerTypeOK'
  BY <1>15 DEF Answered
<1>16. ASSUME NEW w \in Worker, WorkerDies(w) PROVE WorkerTypeOK'
  BY <1>16 DEF WorkerDies
<1>17. CASE StopAll
  BY <1>17 DEF StopAll
<1>18. CASE UNCHANGED workerVars
  BY <1>18 DEF workerVars
<1> QED
  BY <1>1, <1>2, <1>3, <1>4, <1>5, <1>6, <1>7, <1>8, <1>9, <1>10,
     <1>11, <1>12, <1>13, <1>14, <1>15, <1>16, <1>17, <1>18 DEF WorkerNext, Step

\* Every step keeps what a request's worker is.
LEMMA UsersStep ==
  WorkerTypeOK /\ UsersHaveOne /\ IdleHasNone /\ [WorkerNext]_workerVars
    => UsersHaveOne' /\ IdleHasNone'
<1> SUFFICES ASSUME WorkerTypeOK, UsersHaveOne, IdleHasNone, [WorkerNext]_workerVars
             PROVE  UsersHaveOne' /\ IdleHasNone'
  OBVIOUS
<1> USE WorkerAssumption DEF WorkerTypeOK, UsersHaveOne, IdleHasNone, Worker, Ended, Goto
<1>1. ASSUME NEW r \in Request, StartGone(r) PROVE (UsersHaveOne /\ IdleHasNone)'
  BY <1>1 DEF StartGone
<1>2. ASSUME NEW r \in Request, Reuse(r) PROVE (UsersHaveOne /\ IdleHasNone)'
  BY <1>2 DEF Reuse
<1>3. ASSUME NEW r \in Request, Spawn(r) PROVE (UsersHaveOne /\ IdleHasNone)'
  BY <1>3 DEF Spawn
<1>4. ASSUME NEW r \in Request, SpawnFails(r) PROVE (UsersHaveOne /\ IdleHasNone)'
  BY <1>4 DEF SpawnFails
<1>5. ASSUME NEW r \in Request, Refused(r) PROVE (UsersHaveOne /\ IdleHasNone)'
  BY <1>5 DEF Refused
<1>6. ASSUME NEW r \in Request, Send(r) PROVE (UsersHaveOne /\ IdleHasNone)'
  BY <1>6 DEF Send
<1>7. ASSUME NEW r \in Request, Reap(r) PROVE (UsersHaveOne /\ IdleHasNone)'
  BY <1>7 DEF Reap
<1>8. ASSUME NEW r \in Request, DropCancelled(r) PROVE (UsersHaveOne /\ IdleHasNone)'
  BY <1>8 DEF DropCancelled, Dropped
<1>9. ASSUME NEW r \in Request, Drop(r) PROVE (UsersHaveOne /\ IdleHasNone)'
  BY <1>9 DEF Drop, Dropped
<1>10. ASSUME NEW r \in Request, Kill(r) PROVE (UsersHaveOne /\ IdleHasNone)'
  BY <1>10 DEF Kill
<1>11. ASSUME NEW r \in Request, Cold(r) PROVE (UsersHaveOne /\ IdleHasNone)'
  BY <1>11 DEF Cold
<1>12. ASSUME NEW r \in Request, KillOnCancel(r) PROVE (UsersHaveOne /\ IdleHasNone)'
  BY <1>12 DEF KillOnCancel
<1>13. ASSUME NEW r \in Request, CancelRequest(r) PROVE (UsersHaveOne /\ IdleHasNone)'
  BY <1>13 DEF CancelRequest, Armed
<1>14. ASSUME NEW r \in Request, Again(r) PROVE (UsersHaveOne /\ IdleHasNone)'
  BY <1>14 DEF Again
<1>15. ASSUME NEW r \in Request, NEW good \in BOOLEAN, Answered(r, good) PROVE (UsersHaveOne /\ IdleHasNone)'
  BY <1>15 DEF Answered
<1>16. ASSUME NEW w \in Worker, WorkerDies(w) PROVE (UsersHaveOne /\ IdleHasNone)'
  BY <1>16 DEF WorkerDies
<1>17. CASE StopAll
  BY <1>17 DEF StopAll
<1>18. CASE UNCHANGED workerVars
  BY <1>18 DEF workerVars
<1> QED
  BY <1>1, <1>2, <1>3, <1>4, <1>5, <1>6, <1>7, <1>8, <1>9, <1>10,
     <1>11, <1>12, <1>13, <1>14, <1>15, <1>16, <1>17, <1>18 DEF WorkerNext, Step

\* Every step keeps stopped workers from running.
LEMMA StoppedStep ==
  WorkerTypeOK /\ StoppedIsGone /\ [WorkerNext]_workerVars => StoppedIsGone'
<1> SUFFICES ASSUME WorkerTypeOK, StoppedIsGone, [WorkerNext]_workerVars PROVE StoppedIsGone'
  OBVIOUS
<1> USE WorkerAssumption DEF WorkerTypeOK, StoppedIsGone
<1>1. ASSUME NEW r \in Request, StartGone(r) PROVE StoppedIsGone'
  BY <1>1 DEF StartGone
<1>2. ASSUME NEW r \in Request, Reuse(r) PROVE StoppedIsGone'
  BY <1>2 DEF Reuse
<1>3. ASSUME NEW r \in Request, Spawn(r) PROVE StoppedIsGone'
  BY <1>3 DEF Spawn
<1>4. ASSUME NEW r \in Request, SpawnFails(r) PROVE StoppedIsGone'
  BY <1>4 DEF SpawnFails
<1>5. ASSUME NEW r \in Request, Refused(r) PROVE StoppedIsGone'
  BY <1>5 DEF Refused
<1>6. ASSUME NEW r \in Request, Send(r) PROVE StoppedIsGone'
  BY <1>6 DEF Send
<1>7. ASSUME NEW r \in Request, Reap(r) PROVE StoppedIsGone'
  BY <1>7 DEF Reap
<1>8. ASSUME NEW r \in Request, DropCancelled(r) PROVE StoppedIsGone'
  BY <1>8 DEF DropCancelled, Dropped
<1>9. ASSUME NEW r \in Request, Drop(r) PROVE StoppedIsGone'
  BY <1>9 DEF Drop, Dropped
<1>10. ASSUME NEW r \in Request, Kill(r) PROVE StoppedIsGone'
  BY <1>10 DEF Kill
<1>11. ASSUME NEW r \in Request, Cold(r) PROVE StoppedIsGone'
  BY <1>11 DEF Cold
<1>12. ASSUME NEW r \in Request, KillOnCancel(r) PROVE StoppedIsGone'
  BY <1>12 DEF KillOnCancel
<1>13. ASSUME NEW r \in Request, CancelRequest(r) PROVE StoppedIsGone'
  BY <1>13 DEF CancelRequest, Armed
<1>14. ASSUME NEW r \in Request, Again(r) PROVE StoppedIsGone'
  BY <1>14 DEF Again
<1>15. ASSUME NEW r \in Request, NEW good \in BOOLEAN, Answered(r, good) PROVE StoppedIsGone'
  BY <1>15 DEF Answered
<1>16. ASSUME NEW w \in Worker, WorkerDies(w) PROVE StoppedIsGone'
  BY <1>16 DEF WorkerDies
<1>17. CASE StopAll
  BY <1>17 DEF StopAll
<1>18. CASE UNCHANGED workerVars
  BY <1>18 DEF workerVars
<1> QED
  BY <1>1, <1>2, <1>3, <1>4, <1>5, <1>6, <1>7, <1>8, <1>9, <1>10,
     <1>11, <1>12, <1>13, <1>14, <1>15, <1>16, <1>17, <1>18 DEF WorkerNext, Step

\* Every step keeps each running worker in the store's entry or in the hands of
\* a request that will stop it or that was cancelled.
LEMMA LeakStep ==
  WorkerInv /\ [WorkerNext]_workerVars
    => \A w \in alive' :
         current' = w \/ \E r \in Request : mine'[r] = w /\ (pc'[r] = "dropped" \/ r \in left')
<1> DEFINE Kept(w) == current = w \/ \E r \in Request : mine[r] = w /\ (pc[r] = "dropped" \/ r \in left)
           AllKept == \A w \in alive : Kept(w)
<1> SUFFICES ASSUME WorkerInv, [WorkerNext]_workerVars PROVE AllKept'
  OBVIOUS
<1> USE WorkerAssumption DEF WorkerInv, LeakedByCancelOnly, WorkerTypeOK, StoppedIsGone, IdleHasNone,
                             UsersHaveOne, Worker, Ended, Goto
<1>1. ASSUME NEW r \in Request, StartGone(r) PROVE AllKept'
  BY <1>1 DEF StartGone
<1>2. ASSUME NEW r \in Request, Reuse(r) PROVE AllKept'
  BY <1>2 DEF Reuse
<1>3. ASSUME NEW r \in Request, Spawn(r) PROVE AllKept'
  <2> SUFFICES ASSUME NEW w \in alive', w # current' PROVE Kept(w)'
    OBVIOUS
  <2>1. w \in alive /\ w # 0 /\ w # current
    BY <1>3 DEF Spawn
  <2>2. PICK q \in Request : mine[q] = w /\ (pc[q] = "dropped" \/ q \in left)
    BY <2>1
  <2>3. q # r
    BY <1>3, <2>1, <2>2 DEF Spawn
  <2>4. mine'[q] = w /\ (pc'[q] = "dropped" \/ q \in left')
    BY <1>3, <2>2, <2>3 DEF Spawn
  <2> QED
    BY <2>4
<1>4. ASSUME NEW r \in Request, SpawnFails(r) PROVE AllKept'
  BY <1>4 DEF SpawnFails
<1>5. ASSUME NEW r \in Request, Refused(r) PROVE AllKept'
  BY <1>5 DEF Refused
<1>6. ASSUME NEW r \in Request, Send(r) PROVE AllKept'
  BY <1>6 DEF Send
<1>7. ASSUME NEW r \in Request, Reap(r) PROVE AllKept'
  BY <1>7 DEF Reap
<1>8. ASSUME NEW r \in Request, DropCancelled(r) PROVE AllKept'
  BY <1>8 DEF DropCancelled, Dropped
<1>9. ASSUME NEW r \in Request, Drop(r) PROVE AllKept'
  BY <1>9 DEF Drop, Dropped
<1>10. ASSUME NEW r \in Request, Kill(r) PROVE AllKept'
  BY <1>10 DEF Kill
<1>11. ASSUME NEW r \in Request, Cold(r) PROVE AllKept'
  BY <1>11 DEF Cold
<1>12. ASSUME NEW r \in Request, KillOnCancel(r) PROVE AllKept'
  BY <1>12 DEF KillOnCancel
<1>13. ASSUME NEW r \in Request, CancelRequest(r) PROVE AllKept'
  BY <1>13 DEF CancelRequest, Armed
<1>14. ASSUME NEW r \in Request, Again(r) PROVE AllKept'
  BY <1>14 DEF Again
<1>15. ASSUME NEW r \in Request, NEW good \in BOOLEAN, Answered(r, good) PROVE AllKept'
  BY <1>15 DEF Answered
<1>16. ASSUME NEW w \in Worker, WorkerDies(w) PROVE AllKept'
  BY <1>16 DEF WorkerDies
<1>17. CASE StopAll
  BY <1>17 DEF StopAll
<1>18. CASE UNCHANGED workerVars
  BY <1>18 DEF workerVars
<1> QED
  BY <1>1, <1>2, <1>3, <1>4, <1>5, <1>6, <1>7, <1>8, <1>9, <1>10,
     <1>11, <1>12, <1>13, <1>14, <1>15, <1>16, <1>17, <1>18 DEF WorkerNext, Step

\* WorkerInv holds in every reachable state.
LEMMA WorkerInvariant == WorkerSpec => []WorkerInv
<1>1. WorkerInit => WorkerInv
  <2> SUFFICES ASSUME WorkerInit PROVE WorkerInv
    OBVIOUS
  <2>1. current \in 0..spawned /\ spawned \in 0..MaxWorkers
    BY WorkerAssumption DEF WorkerInit
  <2>2. WorkerTypeOK
    BY <2>1 DEF WorkerInit, WorkerTypeOK, Worker, Ended
  <2>3. UsersHaveOne
    BY DEF WorkerInit, UsersHaveOne
  <2> QED
    BY <2>2, <2>3 DEF WorkerInit, WorkerInv, LeakedByCancelOnly, StoppedIsGone, IdleHasNone
<1>2. WorkerInv /\ [WorkerNext]_workerVars => WorkerInv'
  BY WorkerTypeStep, UsersStep, StoppedStep, LeakStep DEF WorkerInv, LeakedByCancelOnly
<1> QED
  BY <1>1, <1>2, PTL DEF WorkerSpec

\* A worker process that runs is the store's worker, or a request that failed on
\* it is about to stop it (dropWorker, then killOnce), or a request that was
\* given it was cancelled: nothing else runLocal does leaves one behind.
THEOREM WorkerLeakedByCancelOnly == WorkerSpec => []LeakedByCancelOnly
<1>1. WorkerInv => LeakedByCancelOnly
  BY DEF WorkerInv
<1> QED
  BY <1>1, WorkerInvariant, PTL

-----------------------------------------------------------------------------
(* The race of the Python shim.                                            *)

\* What the local thread has at hand counts while it runs it.
InHand(i) == lpc \in {"head", "run"} /\ i \in hand

\* Every item cut off the queue has a result, is run by the local thread, or is
\* in a chunk a posting thread took: what fill, the tail and the losers' cut
\* rely on.
Accounted ==
    /\ lpc \in {"head", "pull", "run", "cut", "tail"} =>
         \A i \in 1..pos : slots[i] # "unset" \/ InHand(i) \/ \E c \in taken : i \in c
    /\ lpc = "rest" => \A i \in RItems : slots[i] # "unset" \/ i \in hand
    /\ lpc = "tail" => pos = RaceItems
    /\ lpc = "head" => hand = Measured /\ pos = HeadItems

\* The chunk a posting thread holds is one it took.
HeldWasTaken ==
    \A j \in Posters : poster[j].pc \in {"claimed", "out"} => poster[j].chunk \in taken

\* What RaceIsWhole rests on.
RaceInv == RaceIsWhole /\ Accounted /\ HeldWasTaken

\* A chunk cut by fac2Size is not empty and not longer than what is left.
LEMMA Fac2SizeBound ==
    ASSUME NEW rest \in Nat \ {0}
    PROVE  Fac2Size(rest) \in 1..rest
<1> DEFINE pullers == 1 + Inflight
           size == Most(ChunkFloor, UpDiv(rest, 2 * pullers))
           x == Least(size, UpDiv(rest, pullers))
<1>1. pullers \in Nat \ {0} /\ 2 * pullers \in Nat \ {0}
  BY RaceAssumption
<1>2. UpDiv(rest, 2 * pullers) \in Int /\ UpDiv(rest, pullers) \in Int
  <2> HIDE DEF pullers
  <2>1. \A k \in Nat \ {0} : UpDiv(rest, k) \in Int
    BY DEF UpDiv
  <2> QED
    BY <1>1, <2>1
<1>3. x \in Int
  BY <1>2, RaceAssumption DEF Most, Least
<1>4. Fac2Size(rest) = Most(1, Least(x, rest))
  BY DEF Fac2Size
<1> HIDE DEF x
<1> QED
  BY <1>3, <1>4 DEF Most, Least

\* The next chunk is cut from what is rest of the queue.
LEMMA NextChunkLeft ==
    ASSUME RaceTypeOK, Left # 0
    PROVE  /\ NextChunk \subseteq RItems
           /\ pos + Fac2Size(Left) \in 0..RaceItems
           /\ \A i \in 1..(pos + Fac2Size(Left)) : i \in 1..pos \/ i \in NextChunk
<1>1. Left \in Nat \ {0} /\ pos \in Nat /\ Left = RaceItems - pos
  BY RaceAssumption DEF RaceTypeOK, Left
<1>2. Fac2Size(Left) \in 1..Left
  BY <1>1, Fac2SizeBound
<1> QED
  BY <1>1, <1>2, RaceAssumption DEF NextChunk, RItems

PosterRec == [pc: {"take", "claimed", "out", "stopped"}, chunk: SUBSET RItems, cut: BOOLEAN]

\* The updates of a posting thread's record keep it one.
LEMMA PosterFields ==
    ASSUME NEW p \in PosterRec
    PROVE  /\ [p EXCEPT !.cut = TRUE] \in PosterRec
           /\ [p EXCEPT !.pc = "stopped"] \in PosterRec
           /\ [p EXCEPT !.pc = "out"] \in PosterRec
           /\ p.chunk \subseteq RItems
           /\ NoPost \in PosterRec
BY DEF PosterRec, NoPost

LEMMA CutAllType ==
    ASSUME RaceTypeOK PROVE CutAll \in [Posters -> PosterRec]
<1>1. poster \in [Posters -> PosterRec]
  BY DEF RaceTypeOK, PosterRec
<1> QED
  BY <1>1, PosterFields DEF CutAll

\* Every step of the race keeps the types.
LEMMA RaceTypeStep == RaceTypeOK /\ HeldWasTaken /\ [RaceNext]_raceVars => RaceTypeOK'
<1> SUFFICES ASSUME RaceTypeOK, HeldWasTaken, [RaceNext]_raceVars PROVE RaceTypeOK'
  OBVIOUS
<1>a. poster \in [Posters -> PosterRec]
  BY DEF RaceTypeOK, PosterRec
<1> USE RaceAssumption DEF RaceTypeOK, RItems
<1>1. CASE Decide
  BY <1>1 DEF Decide, Keep, Measured, InHand
<1>2. CASE RunRest
  BY <1>2 DEF RunRest, Keep
<1>3. CASE LocalTake
  <2>1. CASE Left = 0
    BY <1>3, <2>1 DEF LocalTake, Left
  <2>2. CASE Left # 0
    BY <1>3, <2>2, NextChunkLeft DEF LocalTake
  <2> QED
    BY <2>1, <2>2
<1>4. CASE LocalFill
  <2>1. slots' \in [1..RaceItems -> {"unset", "local", "remote"}]
    BY <1>4 DEF LocalFill, Keep
  <2>2. poster' \in [Posters -> PosterRec]
    BY <1>4, CutAllType DEF LocalFill, PosterRec
  <2> QED
    BY <1>4, <2>1, <2>2 DEF LocalFill, PosterRec
<1>5. CASE CutLosers
  <2>1. poster' \in [Posters -> PosterRec]
    BY <1>5, <1>a, PosterFields DEF CutLosers
  <2> QED
    BY <1>5, <2>1 DEF CutLosers, PosterRec
<1>6. CASE RaceDone
  BY <1>6, CutAllType DEF RaceDone, PosterRec
<1>7. CASE PauseOver
  BY <1>7 DEF PauseOver
<1>8. ASSUME NEW S \in SUBSET OpenChunks, RunAgain(S) PROVE RaceTypeOK'
  BY <1>8 DEF RunAgain, OpenChunks
<1>9. ASSUME NEW j \in Posters, PosterTake(j) PROVE RaceTypeOK'
  <2>1. CASE Stops(j)
    <3>1. [poster[j] EXCEPT !.pc = "stopped"] \in PosterRec
      BY <1>a, PosterFields
    <3>2. poster' \in [Posters -> PosterRec]
      BY <1>9, <1>a, <2>1, <3>1 DEF PosterTake
    <3> QED
      BY <1>9, <2>1, <3>2 DEF PosterTake, PosterRec
  <2>2. CASE ~Stops(j)
    <3>1. NextChunk \subseteq RItems /\ pos + Fac2Size(Left) \in 0..RaceItems
      BY <2>2, NextChunkLeft DEF Stops
    <3>2. taken' \subseteq SUBSET RItems /\ refused \subseteq taken'
      BY SMTT(30), <1>9, <2>2, <3>1 DEF PosterTake
    <3>3. [pc |-> "claimed", chunk |-> NextChunk, cut |-> FALSE] \in PosterRec
      BY <3>1 DEF PosterRec
    <3>4. poster' \in [Posters -> PosterRec]
      BY <1>9, <1>a, <2>2, <3>3 DEF PosterTake
    <3> QED
      BY <1>9, <2>2, <3>1, <3>2, <3>4 DEF PosterTake, PosterRec
  <2> QED
    BY <2>1, <2>2
<1>10. ASSUME NEW j \in Posters, PosterSend(j) PROVE RaceTypeOK'
  BY <1>10 DEF PosterSend
<1>11. ASSUME NEW j \in Posters, PosterAnswered(j) PROVE RaceTypeOK'
  BY <1>11 DEF PosterAnswered, Keep, NoPost, Counted, Whole
<1>12. ASSUME NEW j \in Posters, PosterFailed(j) PROVE RaceTypeOK'
  <2>1. poster' \in [Posters -> PosterRec]
    <3>1. [poster[j] EXCEPT !.pc = "stopped"] \in PosterRec /\ NoPost \in PosterRec
      BY <1>a, PosterFields
    <3> QED
      BY <1>12, <1>a, <3>1 DEF PosterFailed
  <2>2. lost' \in 0..(LostLimit - 1) /\ paused' \in BOOLEAN
    BY <1>12 DEF PosterFailed, Counted
  <2>3. refused' \subseteq taken'
    BY <1>12 DEF PosterFailed, HeldWasTaken
  <2> QED
    BY <1>12, <2>1, <2>2, <2>3 DEF PosterFailed, PosterRec
<1>13. CASE UNCHANGED raceVars
  BY <1>13 DEF raceVars
<1> QED
  BY <1>1, <1>2, <1>3, <1>4, <1>5, <1>6, <1>7, <1>8, <1>9, <1>10, <1>11, <1>12, <1>13 DEF RaceNext, LocalStep

\* ... loses no item that was cut off the queue,
LEMMA AccountedStep == RaceTypeOK /\ Accounted /\ [RaceNext]_raceVars => Accounted'
<1> SUFFICES ASSUME RaceTypeOK, Accounted, [RaceNext]_raceVars PROVE Accounted'
  OBVIOUS
<1> USE RaceAssumption DEF RaceTypeOK, RItems, Accounted, InHand
<1>1. CASE Decide
  BY <1>1 DEF Decide, Keep, Measured, InHand
<1>2. CASE RunRest
  BY <1>2 DEF RunRest, Keep
<1>3. CASE LocalTake
  <2>1. CASE Left = 0
    BY <1>3, <2>1 DEF LocalTake, Left
  <2>2. CASE Left # 0
    BY <1>3, <2>2, NextChunkLeft DEF LocalTake
  <2> QED
    BY <2>1, <2>2
<1>4. CASE LocalFill
  BY <1>4 DEF LocalFill, Keep, CutAll
<1>5. CASE CutLosers
  BY <1>5 DEF CutLosers, Left
<1>6. CASE RaceDone
  BY <1>6 DEF RaceDone, CutAll
<1>7. CASE PauseOver
  BY <1>7 DEF PauseOver
<1>8. ASSUME NEW S \in SUBSET OpenChunks, RunAgain(S) PROVE Accounted'
  BY <1>8 DEF RunAgain
<1>9. ASSUME NEW j \in Posters, PosterTake(j) PROVE Accounted'
  <2>1. CASE Stops(j)
    BY <1>9, <2>1 DEF PosterTake
  <2>2. CASE ~Stops(j)
    <3>1. \A i \in 1..pos' : i \in 1..pos \/ \E c \in taken' : i \in c
      BY <1>9, <2>2, NextChunkLeft DEF PosterTake, Stops
    <3>2. taken \subseteq taken' /\ UNCHANGED <<slots, lpc, hand>> /\ lpc \notin {"head", "rest"}
      BY <1>9, <2>2 DEF PosterTake
    <3>3. lpc # "tail"
      BY <2>2 DEF Stops, Left
    <3> QED
      BY <3>1, <3>2, <3>3
  <2> QED
    BY <2>1, <2>2
<1>10. ASSUME NEW j \in Posters, PosterSend(j) PROVE Accounted'
  BY <1>10 DEF PosterSend
<1>11. ASSUME NEW j \in Posters, PosterAnswered(j) PROVE Accounted'
  BY <1>11 DEF PosterAnswered, Keep, NoPost, Counted, Whole
<1>12. ASSUME NEW j \in Posters, PosterFailed(j) PROVE Accounted'
  BY <1>12 DEF PosterFailed, NoPost, Counted
<1>13. CASE UNCHANGED raceVars
  BY <1>13 DEF raceVars
<1> QED
  BY <1>1, <1>2, <1>3, <1>4, <1>5, <1>6, <1>7, <1>8, <1>9, <1>10, <1>11, <1>12, <1>13 DEF RaceNext, LocalStep

\* ... leaves the chunks a poster holds among those that were taken,
LEMMA HeldStep == RaceTypeOK /\ HeldWasTaken /\ [RaceNext]_raceVars => HeldWasTaken'
<1> SUFFICES ASSUME RaceTypeOK, HeldWasTaken, [RaceNext]_raceVars PROVE HeldWasTaken'
  OBVIOUS
<1> USE DEF RaceTypeOK, HeldWasTaken
<1>1. CASE Decide
  BY <1>1 DEF Decide
<1>2. CASE RunRest
  BY <1>2 DEF RunRest
<1>3. CASE LocalTake
  BY <1>3 DEF LocalTake
<1>4. CASE LocalFill
  BY <1>4 DEF LocalFill, CutAll
<1>5. CASE CutLosers
  BY <1>5 DEF CutLosers
<1>6. CASE RaceDone
  BY <1>6 DEF RaceDone, CutAll
<1>7. CASE PauseOver
  BY <1>7 DEF PauseOver
<1>8. ASSUME NEW S \in SUBSET OpenChunks, RunAgain(S) PROVE HeldWasTaken'
  BY <1>8 DEF RunAgain
<1>9. ASSUME NEW j \in Posters, PosterTake(j) PROVE HeldWasTaken'
  BY <1>9 DEF PosterTake
<1>10. ASSUME NEW j \in Posters, PosterSend(j) PROVE HeldWasTaken'
  BY <1>10 DEF PosterSend
<1>11. ASSUME NEW j \in Posters, PosterAnswered(j) PROVE HeldWasTaken'
  BY <1>11 DEF PosterAnswered, NoPost
<1>12. ASSUME NEW j \in Posters, PosterFailed(j) PROVE HeldWasTaken'
  <2> SUFFICES ASSUME NEW k \in Posters, poster'[k].pc \in {"claimed", "out"}
               PROVE  poster'[k].chunk \in taken'
    OBVIOUS
  <2>1. poster'[j].pc \in {"take", "stopped"}
    <3>1. CASE poster[j].cut
      BY <1>12, <3>1 DEF PosterFailed, NoPost
    <3>2. CASE ~poster[j].cut
      BY <1>12, <3>2 DEF PosterFailed
    <3> QED
      BY <3>1, <3>2
  <2>2. k # j
    BY <2>1
  <2> QED
    BY <1>12, <2>2 DEF PosterFailed
<1>13. CASE UNCHANGED raceVars
  BY <1>13 DEF raceVars
<1> QED
  BY <1>1, <1>2, <1>3, <1>4, <1>5, <1>6, <1>7, <1>8, <1>9, <1>10, <1>11, <1>12, <1>13 DEF RaceNext, LocalStep

\* ... and ends the race with a result for every item.
LEMMA WholeStep ==
    RaceInv /\ [RaceNext]_raceVars
      => /\ lpc' = "done" /\ ~raised' => Filled(slots', RItems)
         /\ raised' => bad' # {}
         /\ \A i \in bad' : slots'[i] = "unset"
<1> DEFINE W == /\ lpc = "done" /\ ~raised => Filled(slots, RItems)
                /\ raised => bad # {}
                /\ \A i \in bad : slots[i] = "unset"
<1> SUFFICES ASSUME RaceInv, [RaceNext]_raceVars PROVE W'
  BY DEF Filled
<1> USE RaceAssumption DEF RaceInv, RaceIsWhole, RaceTypeOK, RItems, Accounted, InHand, Filled
<1>1. CASE Decide
  BY <1>1 DEF Decide, Keep, Measured, InHand
<1>2. CASE RunRest
  BY <1>2 DEF RunRest, Keep
<1>3. CASE LocalTake
  <2>1. CASE Left = 0
    BY <1>3, <2>1 DEF LocalTake, Left
  <2>2. CASE Left # 0
    BY <1>3, <2>2, NextChunkLeft DEF LocalTake
  <2> QED
    BY <2>1, <2>2
<1>4. CASE LocalFill
  BY <1>4 DEF LocalFill, Keep, CutAll
<1>5. CASE CutLosers
  BY <1>5 DEF CutLosers
<1>6. CASE RaceDone
  <2>1. \A i \in RItems : slots[i] # "unset"
    BY <1>6 DEF RaceDone, OpenChunks
  <2> QED
    BY <1>6, <2>1 DEF RaceDone
<1>7. CASE PauseOver
  BY <1>7 DEF PauseOver
<1>8. ASSUME NEW S \in SUBSET OpenChunks, RunAgain(S) PROVE W'
  BY <1>8 DEF RunAgain
<1>9. ASSUME NEW j \in Posters, PosterTake(j) PROVE W'
  BY <1>9 DEF PosterTake
<1>10. ASSUME NEW j \in Posters, PosterSend(j) PROVE W'
  BY <1>10 DEF PosterSend
<1>11. ASSUME NEW j \in Posters, PosterAnswered(j) PROVE W'
  BY <1>11 DEF PosterAnswered, Keep, NoPost, Counted, Whole
<1>12. ASSUME NEW j \in Posters, PosterFailed(j) PROVE W'
  BY <1>12 DEF PosterFailed, NoPost, Counted
<1>13. CASE UNCHANGED raceVars
  BY <1>13 DEF raceVars
<1> QED
  BY <1>1, <1>2, <1>3, <1>4, <1>5, <1>6, <1>7, <1>8, <1>9, <1>10, <1>11, <1>12, <1>13 DEF RaceNext, LocalStep

\* So the invariant holds in every state.
LEMMA RaceInvariant == RaceSpec => []RaceInv
<1>1. RaceInit => RaceInv
  <2> SUFFICES ASSUME RaceInit PROVE RaceInv
    OBVIOUS
  <2> USE RaceAssumption DEF RaceInit, RItems, Measured
  <2>1. hand \subseteq RItems /\ pos \in 0..RaceItems /\ bad \subseteq RItems
    OBVIOUS
  <2>2. poster \in [Posters -> PosterRec]
    BY DEF NoPost, PosterRec
  <2>3. RaceTypeOK
    BY <2>1, <2>2 DEF RaceTypeOK, PosterRec
  <2>4. Accounted
    BY DEF Accounted, InHand
  <2>5. HeldWasTaken
    BY DEF HeldWasTaken, NoPost
  <2> QED
    BY <2>1, <2>3, <2>4, <2>5 DEF RaceInv, RaceIsWhole
<1>2. RaceInv /\ [RaceNext]_raceVars => RaceInv'
  BY RaceTypeStep, AccountedStep, HeldStep, WholeStep DEF RaceInv, RaceIsWhole
<1> QED
  BY <1>1, <1>2, PTL DEF RaceSpec

\* The map a script raced against the cluster (race_map of the shim) has one
\* result per item when it returns, none of them missing, for any number of
\* items, posting threads and failures.
THEOREM ShimRaceIsWhole == RaceSpec => []RaceIsWhole
<1>1. RaceInv => RaceIsWhole
  BY DEF RaceInv
<1> QED
  BY <1>1, RaceInvariant, PTL

-----------------------------------------------------------------------------
(* The wire.                                                               *)

\* A queue without an entry: what it keeps, and that the entry is gone.
LEMMA WithoutKeeps ==
    ASSUME NEW q \in Seq(Blobs), IsInjective(q), NEW b
    PROVE  /\ Without(q, b) \in Seq(Blobs)
           /\ IsInjective(Without(q, b))
           /\ Len(Without(q, b)) <= Len(q)
           /\ ~Contains(Without(q, b), b)
           /\ \A e : Contains(Without(q, b), e) => Contains(q, e)
<1>1. CASE ~Contains(q, b)
  BY <1>1 DEF Without
<1>2. CASE Contains(q, b)
  <2> DEFINE i == CHOOSE k \in DOMAIN q : q[k] = b
             u == SubSeq(q, 1, i - 1)
             v == SubSeq(q, i + 1, Len(q))
             r == u \o v
  <2>1. i \in 1..Len(q) /\ q[i] = b
    BY <1>2 DEF Contains
  <2>2. Without(q, b) = r
    BY <1>2 DEF Without, RemoveAt
  <2> HIDE DEF i
  <2>3. /\ u \in Seq(Blobs) /\ Len(u) = i - 1
        /\ \A k \in 1..(i - 1) : u[k] = q[k]
    BY <2>1
  <2>4. /\ v \in Seq(Blobs) /\ Len(v) = Len(q) - i
        /\ \A k \in 1..(Len(q) - i) : v[k] = q[i + k]
    BY <2>1
  <2> HIDE DEF u, v
  <2>5. /\ r \in Seq(Blobs) /\ Len(r) = Len(q) - 1
        /\ \A k \in 1..Len(r) : r[k] = IF k < i THEN q[k] ELSE q[k + 1]
    <3>1. /\ r \in Seq(Blobs) /\ Len(r) = Len(u) + Len(v)
          /\ \A k \in 1..(Len(u) + Len(v)) : r[k] = IF k <= Len(u) THEN u[k] ELSE v[k - Len(u)]
      BY <2>3, <2>4, ConcatProperties
    <3>2. ASSUME NEW k \in 1..Len(r) PROVE r[k] = IF k < i THEN q[k] ELSE q[k + 1]
      <4>1. CASE k < i
        BY <2>1, <2>3, <2>4, <3>1, <4>1
      <4>2. CASE k >= i
        <5> DEFINE m == k - i + 1
        <5>1. Len(q) \in Nat /\ i \in 1..Len(q) /\ Len(u) = i - 1 /\ Len(v) = Len(q) - i
          BY <2>1, <2>3, <2>4
        <5>2. Len(r) = Len(q) - 1
          BY <3>1, <5>1
        <5>3. m \in 1..(Len(q) - i) /\ i + m = k + 1 /\ k - Len(u) = m /\ ~(k <= Len(u))
          BY <4>2, <5>1, <5>2
        <5>4. r[k] = v[m]
          BY <3>1, <5>1, <5>2, <5>3
        <5>5. v[m] = q[i + m]
          BY <2>4, <5>3
        <5> QED
          BY <4>2, <5>1, <5>3, <5>4, <5>5
      <4> QED
        BY <2>1, <4>1, <4>2
    <3> QED
      BY <2>1, <2>3, <2>4, <3>1, <3>2
  <2> HIDE DEF r
  <2>a. DOMAIN q = 1..Len(q) /\ DOMAIN r = 1..Len(r) /\ Len(q) \in Nat /\ Len(r) \in Nat
    BY <2>5
  <2>6. IsInjective(r)
    <3> SUFFICES ASSUME NEW j \in 1..Len(r), NEW k \in 1..Len(r), r[j] = r[k] PROVE j = k
      BY <2>a DEF IsInjective
    <3> DEFINE at(n) == IF n < i THEN n ELSE n + 1
    <3>1. \A n \in 1..Len(r) : at(n) \in 1..Len(q) /\ r[n] = q[at(n)]
      BY <2>1, <2>5, <2>a
    <3>2. at(j) = at(k)
      BY <2>a, <3>1 DEF IsInjective
    <3> QED
      BY <2>1, <2>a, <3>2
  <2>7. ~Contains(r, b)
    <3> SUFFICES ASSUME NEW k \in 1..Len(r), r[k] = b PROVE FALSE
      BY DEF Contains
    <3>1. PICK n \in 1..Len(q) : n # i /\ q[n] = r[k]
      BY <2>1, <2>5, <2>a
    <3> QED
      BY <2>1, <2>a, <3>1 DEF IsInjective
  <2>8. \A e : Contains(r, e) => Contains(q, e)
    BY <2>1, <2>5 DEF Contains
  <2> QED
    BY <2>2, <2>5, <2>6, <2>7, <2>8
<1> QED
  BY <1>1, <1>2

\* A use keeps the queue within its room and adds at most the entry used.
LEMMA UsedKeeps ==
    ASSUME NEW q \in Seq(Blobs), IsInjective(q), NEW b \in Blobs,
           NEW room \in Nat, Len(q) <= room
    PROVE  /\ Used(q, b, room) \in Seq(Blobs)
           /\ IsInjective(Used(q, b, room))
           /\ Len(Used(q, b, room)) <= room
           /\ \A e : Contains(Used(q, b, room), e) => e = b \/ Contains(q, e)
<1> DEFINE w == Without(q, b)
           r == Append(w, b)
<1>1. /\ w \in Seq(Blobs) /\ IsInjective(w) /\ Len(w) <= Len(q) /\ ~Contains(w, b)
      /\ \A e : Contains(w, e) => Contains(q, e)
  BY WithoutKeeps
<1> HIDE DEF w
<1>2. /\ r \in Seq(Blobs) /\ Len(r) = Len(w) + 1
      /\ \A k \in 1..Len(w) : r[k] = w[k]
      /\ r[Len(w) + 1] = b
  BY <1>1
<1> HIDE DEF r
<1>3. IsInjective(r)
  BY <1>1, <1>2 DEF IsInjective, Contains
<1>4. \A e : Contains(r, e) => e = b \/ Contains(q, e)
  <2> SUFFICES ASSUME NEW e, NEW k \in 1..Len(r), r[k] = e, e # b PROVE Contains(q, e)
    BY DEF Contains
  <2>1. k \in 1..Len(w)
    BY <1>1, <1>2
  <2> QED
    BY <1>1, <1>2, <2>1 DEF Contains
<1>5. Used(q, b, room) = IF Len(r) > room THEN Tail(r) ELSE r
  BY DEF Used, r, w
<1>6. CASE Len(r) > room
  <2>1. /\ Tail(r) \in Seq(Blobs) /\ Len(Tail(r)) = Len(r) - 1
        /\ \A k \in 1..(Len(r) - 1) : Tail(r)[k] = r[k + 1]
    BY <1>1, <1>2
  <2>2. IsInjective(Tail(r))
    BY <1>2, <1>3, <2>1 DEF IsInjective
  <2>3. \A e : Contains(Tail(r), e) => Contains(r, e)
    BY <1>2, <2>1 DEF Contains
  <2> QED
    BY <1>1, <1>2, <1>4, <1>5, <1>6, <2>1, <2>2, <2>3
<1>7. CASE Len(r) <= room
  BY <1>1, <1>2, <1>3, <1>4, <1>5, <1>7
<1> QED
  BY <1>1, <1>2, <1>6, <1>7

\* Integer division: its bounds, that it grows with its dividend, and that it
\* undoes a multiplication.
LEMMA DivBounds ==
    ASSUME NEW a \in Nat, NEW k \in Nat \ {0}
    PROVE  /\ a \div k \in Nat
           /\ k * (a \div k) <= a
           /\ a < k * ((a \div k) + 1)
OBVIOUS

LEMMA TimesOrder ==
    ASSUME NEW p \in Nat, NEW q \in Nat, NEW k \in Nat \ {0}, k * p < k * (q + 1)
    PROVE  p <= q
OBVIOUS

LEMMA DivMonotone ==
    ASSUME NEW a \in Nat, NEW b \in Nat, NEW k \in Nat \ {0}, a <= b
    PROVE  (a \div k) <= (b \div k)
<1> DEFINE p == a \div k
           q == b \div k
<1>1. p \in Nat /\ q \in Nat /\ k * p <= a /\ b < k * (q + 1)
  BY DivBounds
<1> HIDE DEF p, q
<1>2. k * p \in Nat /\ k * (q + 1) \in Nat
  BY <1>1
<1>3. k * p < k * (q + 1)
  BY <1>1, <1>2
<1> QED
  BY <1>1, <1>3, TimesOrder DEF p, q

LEMMA DivTimes ==
    ASSUME NEW a \in Nat, NEW k \in Nat \ {0}
    PROVE  (a * k) \div k = a
<1> DEFINE q == (a * k) \div k
<1>1. a * k \in Nat
  OBVIOUS
<1>2. q \in Nat /\ k * q <= a * k /\ a * k < k * (q + 1)
  BY <1>1, DivBounds
<1> HIDE DEF q
<1>3. a <= q
  <2>1. k * a < k * (q + 1)
    BY <1>2
  <2> QED
    BY <1>2, <2>1, TimesOrder
<1>4. q <= a
  <2>1. k * q < k * (a + 1)
    BY <1>2
  <2> QED
    BY <1>2, <2>1, TimesOrder
<1> QED
  BY <1>2, <1>3, <1>4 DEF q

\* The cuts of a request: from its first item to its last, in order.
LEMMA MicroCuts ==
    ASSUME NEW k \in Nat \ {0}, NEW i \in 0..k
    PROVE  /\ MicroLow(0, k) = 0 /\ MicroLow(k, k) = WireItems
           /\ MicroLow(i, k) \in 0..WireItems
           /\ i < k => MicroLow(i, k) <= MicroLow(i + 1, k)
<1> DEFINE up == WireItems * i
           top == WireItems * k
<1>1. up \in Nat /\ top \in Nat /\ WireItems * (i + 1) \in Nat
      /\ up <= WireItems * (i + 1) /\ up <= top
  BY WireAssumption
<1>2. top \div k = WireItems /\ 0 \div k = 0
  BY WireAssumption, DivTimes
<1>3. up \div k <= top \div k /\ up \div k \in Nat /\ up \div k <= (WireItems * (i + 1)) \div k
  <2> HIDE DEF up, top
  <2> QED
    BY <1>1, DivMonotone, DivBounds
<1>4. MicroLow(0, k) = 0 \div k
  BY WireAssumption DEF MicroLow
<1> QED
  BY <1>2, <1>3, <1>4, WireAssumption DEF MicroLow

\* The results of one micro chunk: its items in order.
LEMMA MicroResults ==
    ASSUME NEW lo \in Nat, NEW hi \in Nat, lo <= hi, hi <= WireItems
    PROVE  LET more == [j \in 1..Cardinality((lo + 1)..hi) |-> lo + j]
           IN  /\ more \in Seq(1..WireItems) /\ Len(more) = hi - lo
               /\ \A j \in 1..(hi - lo) : more[j] = lo + j
<1>1. Cardinality((lo + 1)..hi) = hi - lo
  <2>1. Cardinality((lo + 1)..hi) = IF lo + 1 > hi THEN 0 ELSE hi - (lo + 1) + 1
    BY FS_Interval
  <2>2. CASE lo + 1 > hi
    BY <2>1, <2>2
  <2>3. CASE ~(lo + 1 > hi)
    BY <2>1, <2>3
  <2> QED
    BY <2>2, <2>3
<1> DEFINE n == hi - lo
           more == [j \in 1..n |-> lo + j]
<1>2. n \in Nat /\ \A j \in 1..n : lo + j \in 1..WireItems
  BY WireAssumption
<1> HIDE DEF n
<1>3. more \in Seq(1..WireItems) /\ Len(more) = n /\ \A j \in 1..n : more[j] = lo + j
  BY <1>2
<1> QED
  BY <1>1, <1>3 DEF n

\* They follow those gathered before.
LEMMA ResultsInOrder ==
    ASSUME NEW S, NEW lo \in Nat, NEW hi \in Nat, lo <= hi,
           NEW q \in Seq(S), Len(q) = lo, \A i \in 1..lo : q[i] = i,
           NEW more \in Seq(S), Len(more) = hi - lo, \A j \in 1..(hi - lo) : more[j] = lo + j,
           NEW r, r = q \o more
    PROVE  r \in Seq(S) /\ Len(r) = hi /\ \A i \in 1..hi : r[i] = i
<1>1. /\ r \in Seq(S) /\ Len(r) = Len(q) + Len(more)
      /\ \A i \in 1..(Len(q) + Len(more)) : r[i] = IF i <= Len(q) THEN q[i] ELSE more[i - Len(q)]
  BY ConcatProperties
<1>2. ASSUME NEW i \in 1..hi PROVE r[i] = i
  <2>1. CASE i <= lo
    BY <1>1, <2>1
  <2>2. CASE ~(i <= lo)
    <3> DEFINE m == i - lo
    <3>1. m \in 1..(hi - lo) /\ lo + m = i
      BY <2>2
    <3>2. r[i] = more[m]
      BY <1>1, <2>2
    <3> HIDE DEF m
    <3>3. more[m] = lo + m
      BY <3>1
    <3> QED
      BY <3>1, <3>2, <3>3
  <2> QED
    BY <2>1, <2>2
<1> QED
  BY <1>1, <1>2

-----------------------------------------------------------------------------
(* Bodies on a link. *)

\* A body that is refused was beaten; one whose first refusal is behind it
\* finds its blob unmarked, or is already beaten.
Refusals ==
    \A s \in Sends :
      /\ body[s].pc = "refused" => s \in beaten
      /\ body[s].pc = "miss" => body[s].hash
      /\ body[s].again /\ body[s].hash /\ body[s].pc \in {"out", "miss"} => s \in beaten
      /\ body[s].again /\ body[s].pc = "new" /\ s \notin beaten => ~Contains(sent, needs[s])

BodyType ==
    /\ needs \in [Sends -> Blobs]
    /\ body \in [Sends -> [pc: {"new", "out", "miss", "runs", "refused", "failed"},
                           again: BOOLEAN, hash: BOOLEAN]]
    /\ sent \in Seq(Blobs) /\ IsInjective(sent)
    /\ cache \in Seq(Blobs) /\ IsInjective(cache)
    /\ beaten \subseteq Sends
    /\ wireFaults \in 0..MaxWireFaults

BodyInv ==
    /\ BodyType
    /\ Len(sent) <= HeldPerPeer /\ Len(cache) <= CacheBlobs
    /\ Refusals

\* Every step of a body keeps what is known of bodies.
LEMMA BodyStep == BodyInv /\ BodyNext => BodyInv'
<1> SUFFICES ASSUME BodyInv, NEW s \in Sends,
                    Encode(s) \/ Arrive(s) \/ Missed(s) \/ PostFails(s)
             PROVE  BodyInv'
  BY DEF BodyNext
<1> USE WireAssumption DEF BodyInv, BodyType, Refusals
<1>1. CASE Encode(s)
  <2> DEFINE b == needs[s]
  <2>1. /\ sent' \in Seq(Blobs) /\ IsInjective(sent') /\ Len(sent') <= HeldPerPeer
        /\ \A e : Contains(sent', e) => e = b \/ Contains(sent, e)
    BY <1>1, UsedKeeps DEF Encode
  <2>2. Contains(sent, b) \in BOOLEAN
    BY DEF Contains
  <2>3. BodyType'
    BY <1>1, <2>1, <2>2 DEF Encode
  <2>4. ASSUME NEW t \in Sends PROVE Refusals!(t)'
    <3>1. CASE t = s
      BY <1>1, <2>2, <3>1 DEF Encode
    <3>2. CASE t # s
      BY <1>1, <2>1, <3>2 DEF Encode
    <3> QED
      BY <3>1, <3>2
  <2> QED
    BY <1>1, <2>1, <2>3, <2>4 DEF Encode
<1>2. CASE Arrive(s)
  <2>1. \/ cache' = cache
        \/ cache' = Used(cache, needs[s], CacheBlobs)
    BY <1>2 DEF Arrive
  <2>2. cache' \in Seq(Blobs) /\ IsInjective(cache') /\ Len(cache') <= CacheBlobs
    BY <2>1, UsedKeeps
  <2>3. wireFaults' \in 0..MaxWireFaults
    BY <1>2 DEF Arrive, WireFault
  <2>4. BodyType' /\ UNCHANGED <<sent, beaten, needs>>
    BY <1>2, <2>2, <2>3 DEF Arrive
  <2>5. Refusals'
    BY <1>2, <2>4 DEF Arrive
  <2> QED
    BY <2>2, <2>4, <2>5
<1>3. CASE Missed(s)
  <2>1. /\ Without(sent, needs[s]) \in Seq(Blobs) /\ IsInjective(Without(sent, needs[s]))
        /\ Len(Without(sent, needs[s])) <= Len(sent)
        /\ ~Contains(Without(sent, needs[s]), needs[s])
        /\ \A e : Contains(Without(sent, needs[s]), e) => Contains(sent, e)
    BY WithoutKeeps
  <2>2. CASE body[s].again
    BY ZenonT(60), <1>3, <2>2 DEF Missed
  <2>3. CASE ~body[s].again
    <3>1. BodyType' /\ Len(sent') <= HeldPerPeer /\ UNCHANGED <<needs, cache, beaten>>
      <4>1. [pc |-> "new", again |-> TRUE, hash |-> FALSE]
              \in [pc: {"new", "out", "miss", "runs", "refused", "failed"}, again: BOOLEAN, hash: BOOLEAN]
        OBVIOUS
      <4>2. sent' = Without(sent, needs[s]) /\ UNCHANGED <<needs, cache, beaten, wireFaults>>
        BY <1>3, <2>3 DEF Missed
      <4>3. body' = [body EXCEPT ![s] = [pc |-> "new", again |-> TRUE, hash |-> FALSE]]
        BY <1>3, <2>3 DEF Missed
      <4>4. Len(sent) \in Nat /\ Len(sent') \in Nat /\ Len(sent') <= Len(sent)
        BY <2>1, <4>2, LenProperties
      <4> QED
        BY <2>1, <4>1, <4>2, <4>3, <4>4
    <3>2. Refusals'
      BY <1>3, <2>1, <2>3, <3>1 DEF Missed
    <3> QED
      BY <3>1, <3>2
  <2> QED
    BY <2>2, <2>3
<1>4. CASE PostFails(s)
  BY SMTT(30), <1>4 DEF PostFails, WireFault
<1> QED
  BY <1>1, <1>2, <1>3, <1>4

-----------------------------------------------------------------------------
(* The routed request. *)

RouteType ==
    /\ req \in [at: WNodes, by: WNodes \cup {NoNode}, micro: Nat, next: Nat,
                pc: {"arrived", "forwarded", "runs", "answered", "refused", "cancelled"}]
    /\ results \in Seq(1..WireItems)
    /\ ranOn \in [1..WireItems -> WNodes \cup {NoNode}]
    /\ knows \in BOOLEAN

\* Where the request has been, and what is gathered of it.
RouteInv ==
    /\ RouteType
    /\ req.by \in {NoNode, WOrigin}
    /\ req.pc = "arrived" => req.at = WOrigin
    /\ req.pc \in {"arrived", "forwarded"} =>
         req.next = 0 /\ results = << >> /\ \A i \in 1..WireItems : ranOn[i] = NoNode
    /\ req.pc \in {"runs", "answered"} =>
         /\ req.micro \in Nat \ {0} /\ req.next \in 0..req.micro
         /\ Len(results) = MicroLow(req.next, req.micro)
         /\ \A i \in 1..Len(results) : results[i] = i
    /\ req.pc = "answered" => req.next = req.micro
    /\ knows => \A i \in 1..WireItems : ranOn[i] = NoNode \/ ranOn[i] # req.by

\* Every step of the request keeps what is known of it.
LEMMA RouteStep == RouteInv /\ RouteNext => RouteInv'
<1> SUFFICES ASSUME RouteInv, RouteNext PROVE RouteInv'
  OBVIOUS
<1> USE WireAssumption DEF RouteInv, RouteType
<1>1. CASE Admit
  <2>1. PICK k \in 1..WireItems : req' = [req EXCEPT !.pc = "runs", !.micro = k]
    BY <1>1 DEF Admit
  <2>2. k \in Nat \ {0} /\ MicroLow(0, k) = 0
    BY <2>1, MicroCuts
  <2>3. UNCHANGED <<results, ranOn, knows>> /\ req.pc \in {"arrived", "forwarded"}
    BY <1>1 DEF Admit
  <2>4. /\ req' \in [at: WNodes, by: WNodes \cup {NoNode}, micro: Nat, next: Nat,
                     pc: {"arrived", "forwarded", "runs", "answered", "refused", "cancelled"}]
        /\ req'.pc = "runs" /\ req'.micro = k /\ req'.next = 0 /\ req'.by = req.by
    BY <2>1, <2>2, <2>3
  <2>5. Len(results') = 0 /\ Len(results') = MicroLow(req'.next, req'.micro)
    BY <2>2, <2>3, <2>4
  <2> QED
    BY <2>2, <2>3, <2>4, <2>5
<1>2. CASE ForwardWhole
  BY <1>2 DEF ForwardWhole
<1>3. CASE Refuse
  BY <1>3 DEF Refuse
<1>4. CASE MicroChunk
  <2> DEFINE lo == MicroLow(req.next, req.micro)
             hi == MicroLow(req.next + 1, req.micro)
             c == (lo + 1)..hi
  <2>1. /\ req.pc = "runs" /\ req.next < req.micro
        /\ req' = [req EXCEPT !.next = req.next + 1]
        /\ results' = results \o [j \in 1..Cardinality(c) |-> lo + j]
        /\ \E n \in Takers : ranOn' = [j \in 1..WireItems |-> IF j \in c THEN n ELSE ranOn[j]]
        /\ UNCHANGED knows
    BY <1>4 DEF MicroChunk
  <2>2. /\ req.micro \in Nat \ {0} /\ req.next \in 0..(req.micro - 1)
        /\ Len(results) = lo /\ \A i \in 1..Len(results) : results[i] = i
    BY <2>1
  <2>3. lo \in 0..WireItems /\ hi \in 0..WireItems /\ lo <= hi
    <3> DEFINE k == req.micro
               i == req.next
    <3>1. k \in Nat \ {0} /\ i \in 0..k /\ i + 1 \in 0..k /\ i < k
      BY <2>2
    <3> HIDE DEF k, i
    <3>2. MicroLow(i, k) \in 0..WireItems /\ MicroLow(i + 1, k) \in 0..WireItems
          /\ MicroLow(i, k) <= MicroLow(i + 1, k)
      BY <3>1, MicroCuts
    <3> QED
      BY <3>2 DEF k, i
  <2> HIDE DEF lo, hi
  <2>a. lo \in Nat /\ hi \in Nat /\ lo <= hi /\ hi <= WireItems
    BY <2>3
  <2>6. results' \in Seq(1..WireItems) /\ Len(results') = hi
        /\ \A i \in 1..hi : results'[i] = i
    <3> DEFINE more == [j \in 1..Cardinality((lo + 1)..hi) |-> lo + j]
               S == 1..WireItems
    <3>1. results \in Seq(S) /\ results' = results \o more
      BY <2>1
    <3>2. more \in Seq(S) /\ Len(more) = hi - lo /\ \A j \in 1..(hi - lo) : more[j] = lo + j
      BY <2>a, MicroResults
    <3>3. Len(results) = lo /\ \A i \in 1..lo : results[i] = i
      BY <2>2
    <3> HIDE DEF more, RouteInv, RouteType, S
    <3>4. Len(results') = hi
      <4>1. Len(results \o more) = Len(results) + Len(more)
        <5>1. results \in Seq(S) /\ more \in Seq(S)
          BY <3>1, <3>2
        <5> QED
          BY ONLY <5>1, ConcatProperties
      <4> QED
        BY <2>a, <3>1, <3>2, <3>3, <4>1
    <3>5. ASSUME NEW i \in 1..hi PROVE results'[i] = i
      BY <2>a, <3>1, <3>2, <3>3, ResultsInOrder
    <3>6. results' \in Seq(S)
      BY <2>a, <3>1, <3>2, <3>3, ResultsInOrder
    <3> QED
      BY <3>4, <3>5, <3>6 DEF S
  <2>7. PICK n \in Takers : ranOn' = [j \in 1..WireItems |-> IF j \in c THEN n ELSE ranOn[j]]
    BY <2>1
  <2>8. n \in WNodes /\ (knows => n # req.by)
    BY DEF Takers
  <2>9. ranOn' \in [1..WireItems -> WNodes \cup {NoNode}]
        /\ (knows => \A i \in 1..WireItems : ranOn'[i] = NoNode \/ ranOn'[i] # req.by)
    BY <2>7, <2>8
  <2>10. /\ req' \in [at: WNodes, by: WNodes \cup {NoNode}, micro: Nat, next: Nat,
                      pc: {"arrived", "forwarded", "runs", "answered", "refused", "cancelled"}]
         /\ req'.by = req.by /\ req'.pc = "runs" /\ req'.micro = req.micro
         /\ req'.next = req.next + 1 /\ req'.next \in 0..req'.micro
    <3>1. req.next + 1 \in Nat /\ req.next + 1 \in 0..req.micro
      BY <2>2
    <3> QED
      BY <2>1, <3>1
  <2>11. MicroLow(req'.next, req'.micro) = hi
    BY <2>10 DEF hi
  <2> QED
    BY <2>1, <2>6, <2>9, <2>10, <2>11
<1>5. CASE ReplyPool
  BY <1>5 DEF ReplyPool
<1> QED
  BY <1>1, <1>2, <1>3, <1>4, <1>5 DEF RouteNext

-----------------------------------------------------------------------------
\* What RoutedInOrder rests on holds in every reachable state.
LEMMA WireInvariant == WireSpec => [](BodyInv /\ RouteInv)
<1>1. WireInit => BodyInv
  <2> SUFFICES ASSUME WireInit PROVE BodyInv
    OBVIOUS
  <2>1. << >> \in Seq(Blobs) /\ Len(<< >>) = 0 /\ IsInjective(<< >>)
    BY DEF IsInjective
  <2>2. ~\E s \in Sends : body[s].again \/ body[s].hash \/ body[s].pc # "new"
    BY DEF WireInit
  <2> QED
    BY <2>1, <2>2, WireAssumption DEF WireInit, BodyInv, BodyType, Refusals
<1>2. WireInit => RouteInv
  <2> SUFFICES ASSUME WireInit PROVE RouteInv
    OBVIOUS
  <2> QED
    BY WireAssumption DEF WireInit, RouteInv, RouteType
<1>3. BodyInv /\ UNCHANGED bodyVars => BodyInv'
  BY DEF BodyInv, BodyType, Refusals, bodyVars
<1>4. RouteInv /\ UNCHANGED reqVars => RouteInv'
  BY DEF RouteInv, RouteType, reqVars
<1>5. BodyNext => UNCHANGED reqVars
  BY DEF BodyNext, Encode, Arrive, Missed, PostFails
<1>6. RouteNext => UNCHANGED bodyVars
  BY DEF RouteNext, Admit, ForwardWhole, Refuse, MicroChunk, ReplyPool
<1>7. BodyInv /\ RouteInv /\ [BodyNext \/ RouteNext]_wireVars => BodyInv' /\ RouteInv'
  BY <1>3, <1>4, <1>5, <1>6, BodyStep, RouteStep DEF wireVars
<1> QED
  BY <1>1, <1>2, <1>7, PTL DEF WireSpec

\* However a request is cut and wherever it is sent, its answer is in order, it
\* changes nodes once at most, the node that forwarded it runs none of it where
\* it is known, and a body refused for want of its globals was beaten.
THEOREM WireRoutedInOrder == WireSpec => []RoutedInOrder
<1>1. BodyInv /\ RouteInv => RoutedInOrder
  <2> SUFFICES ASSUME BodyInv, RouteInv PROVE RoutedInOrder
    OBVIOUS
  <2>1. RefusedWhenBeaten
    BY DEF RefusedWhenBeaten, WireTypeOK, BodyInv, BodyType, RouteInv, RouteType, Refusals
  <2>2. ASSUME req.pc = "answered" PROVE results = [i \in 1..WireItems |-> i]
    <3>1. Len(results) = WireItems /\ results \in Seq(1..WireItems)
          /\ \A i \in 1..Len(results) : results[i] = i
      BY <2>2, MicroCuts DEF RouteInv, RouteType
    <3>2. results \in [1..WireItems -> 1..WireItems]
      BY <3>1, LenProperties
    <3> QED
      BY <3>1, <3>2
  <2> QED
    BY <2>1, <2>2 DEF RoutedInOrder, RouteInv
<1> QED
  BY <1>1, WireInvariant, PTL
=============================================================================
