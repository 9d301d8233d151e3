--------------------------- MODULE DirectoryProofs ---------------------------
(***************************************************************************)
(* Theorems about NodeStore's operators and about Directory, for any       *)
(* nodes, addresses, forwarders, polls side by side, retries and events;   *)
(* and about PeerLinks, for any number of connections, punch requests and  *)
(* faults.                                                                 *)
(***************************************************************************)
EXTENDS Directory, PeerLinks, TLAPS

RowTable == [Nodes -> Rows]
PathTable == [Nodes -> [Addrs -> Paths]]

-----------------------------------------------------------------------------
(* The store's operators keep its tables tables. *)

LEMMA MaxAgeNat == MaxAge \in Nat
BY TTLAssumption DEF MaxAge

LEMMA ZeroAge == 0 \in 0..MaxAge
BY MaxAgeNat

LEMMA EmptyTypes ==
    /\ NoPath \in Paths /\ NoRow \in Rows
    /\ \A s \in {"unknown", "healthy"} : FreshRow(s) \in Rows
BY MaxAgeNat DEF NoPath, NoRow, FreshRow, Paths, Rows

\* A sighting keeps what was verified and what is active.
LEMMA SeenPath ==
    ASSUME NEW p \in Paths, NEW k \in Kinds
    PROVE  /\ Seen(p, k) \in Paths
           /\ Seen(p, k).ok = p.ok /\ Seen(p, k).active = p.active
<1> DEFINE new == IF Rank(k) > Rank(p.kind) THEN k ELSE p.kind
<1>1. new \in Kinds \cup {"none"}
  BY DEF Paths
<1>2. Seen(p, k) = [p EXCEPT !.kind = new, !.age = 0]
  BY DEF Seen
<1> HIDE DEF new
<1> QED
  BY <1>1, <1>2, ZeroAge DEF Paths

LEMMA SeeRowType ==
    ASSUME NEW rows \in RowTable, NEW n \in Nodes
    PROVE  SeeRow(rows, n) \in RowTable
BY EmptyTypes DEF RowTable, SeeRow

LEMMA VerifyRowType ==
    ASSUME NEW rows \in RowTable, NEW n \in Nodes
    PROVE  VerifyRow(rows, n) \in RowTable
<1>1. SeeRow(rows, n) \in [Nodes -> Rows]
  BY SeeRowType DEF RowTable
<1>2. \A r \in Rows : [r EXCEPT !.verified = TRUE, !.age = 0] \in Rows
  BY ZeroAge DEF Rows
<1> QED
  BY <1>1, <1>2 DEF VerifyRow, RowTable

LEMMA MarkHealthyType ==
    ASSUME NEW rows \in RowTable, NEW n \in Nodes
    PROVE  MarkHealthy(rows, n) \in RowTable
<1>1. \A r \in Rows : [r EXCEPT !.state = "healthy"] \in Rows
  BY DEF Rows
<1> QED
  BY <1>1, EmptyTypes DEF MarkHealthy, RowTable

LEMMA MarkUnreachableType ==
    ASSUME NEW rows \in RowTable, NEW n \in Nodes
    PROVE  MarkUnreachable(rows, n) \in RowTable
<1>1. \A r \in Rows : [r EXCEPT !.state = "unreachable"] \in Rows
  BY DEF Rows
<1> QED
  BY <1>1, EmptyTypes DEF MarkUnreachable, RowTable

LEMMA AgeTypes ==
    ASSUME NEW d \in 1..MaxAge
    PROVE  /\ \A r \in Rows : AgeRow(r, d) \in Rows
           /\ \A p \in Paths : /\ AgePath(p, d) \in Paths
                               /\ AgePath(p, d).ok = p.ok /\ AgePath(p, d).active = p.active
                               /\ AgePath(p, d).kind = p.kind
<1>1. \A x \in 0..MaxAge : (IF x + d > MaxAge THEN MaxAge ELSE x + d) \in 0..MaxAge
  BY MaxAgeNat
<1>2. \A r \in Rows : r.age \in 0..MaxAge
  BY DEF Rows
<1>3. \A p \in Paths : p.age \in 0..MaxAge
  BY DEF Paths
<1>4. \A r \in Rows : \A x \in 0..MaxAge : [r EXCEPT !.age = x] \in Rows
  BY DEF Rows
<1>5. \A p \in Paths : \A x \in 0..MaxAge :
        LET q == [p EXCEPT !.age = x]
        IN q \in Paths /\ q.ok = p.ok /\ q.active = p.active /\ q.kind = p.kind
  BY DEF Paths
<1>6. \A r \in Rows : AgeRow(r, d) \in Rows
  BY <1>1, <1>2, <1>4 DEF AgeRow
<1>7. \A p \in Paths : /\ AgePath(p, d) \in Paths
                       /\ AgePath(p, d).ok = p.ok /\ AgePath(p, d).active = p.active
                       /\ AgePath(p, d).kind = p.kind
  BY <1>1, <1>3, <1>5 DEF AgePath
<1> QED
  BY <1>6, <1>7

\* A path of the node when another of its paths is promoted.
Demoted(p, promote) == [p EXCEPT !.active = @ /\ ~promote]

\* What a verified address does to each path of the table.
LEMMA PathOKEntries ==
    ASSUME NEW paths \in PathTable, NEW n \in Nodes, NEW k \in Kinds, NEW a \in Addrs
    PROVE  /\ PathOK(paths, n, k, a) \in PathTable
           /\ \A m \in Nodes \ {n} : \A b \in Addrs :
                PathOK(paths, n, k, a)[m][b] = IF b = a THEN NoPath ELSE paths[m][b]
           /\ PathOK(paths, n, k, a)[n][a].ok
           /\ \E promote \in BOOLEAN :
                /\ PathOK(paths, n, k, a)[n][a].active = (paths[n][a].active \/ promote)
                /\ \A b \in Addrs \ {a} :
                     \/ PathOK(paths, n, k, a)[n][b] = NoPath
                     \/ PathOK(paths, n, k, a)[n][b] = Demoted(paths[n][b], promote)
<1> DEFINE seen == Seen(paths[n][a], k)
           promote == Promotes(paths, n, seen.kind, a)
           at == [seen EXCEPT !.ok = TRUE, !.err = FALSE, !.active = @ \/ promote]
           Else(p) == IF seen.kind = "self" /\ p.kind = "self" THEN NoPath
                      ELSE [p EXCEPT !.active = @ /\ ~promote]
           new == PathOK(paths, n, k, a)
<1>1. paths[n][a] \in Paths /\ seen \in Paths /\ seen.active = paths[n][a].active
  BY SeenPath DEF PathTable
<1>2. promote \in BOOLEAN
  BY DEF Promotes
<1>3. new = [m \in Nodes |-> [b \in Addrs |->
              CASE m # n /\ b = a -> NoPath
                [] m # n /\ b # a -> paths[m][b]
                [] m = n /\ b = a -> at
                [] m = n /\ b # a -> Else(paths[n][b])]]
  BY DEF PathOK
<1> HIDE DEF seen, promote, new
<1>4. at \in Paths /\ at.ok = TRUE /\ at.active = (paths[n][a].active \/ promote)
  BY <1>1, <1>2 DEF Paths
<1>5. \A p \in Paths : Else(p) \in Paths
  BY <1>2, EmptyTypes DEF Paths
<1>6. \A p \in Paths : Else(p) = NoPath \/ Else(p) = Demoted(p, promote)
  BY DEF Demoted
<1> HIDE DEF at, Else
<1>7. new[n][a] = at
  BY <1>3
<1>8. \A b \in Addrs \ {a} : new[n][b] = Else(paths[n][b]) /\ paths[n][b] \in Paths
  BY <1>3 DEF PathTable
<1>9. \A m \in Nodes \ {n} : \A b \in Addrs : new[m][b] = IF b = a THEN NoPath ELSE paths[m][b]
  BY <1>3
<1>10. new \in PathTable
  <2>1. \A m \in Nodes : \A b \in Addrs : new[m][b] \in Paths
    BY <1>4, <1>5, <1>7, <1>8, <1>9, EmptyTypes DEF PathTable
  <2> QED
    BY <1>3, <2>1 DEF PathTable
<1> QED
  BY <1>2, <1>4, <1>6, <1>7, <1>8, <1>9, <1>10 DEF new

-----------------------------------------------------------------------------
(* One owner per verified address, one active path per node. *)

Owned(paths) ==
    /\ \A n \in Nodes : \A a, b \in Addrs :
          paths[n][a].active => paths[n][a].ok /\ (paths[n][b].active => a = b)
    /\ \A a \in Addrs : \A m, n \in Nodes : paths[m][a].ok /\ paths[n][a].ok => m = n

\* A table in which nothing is verified or active that was not before.
Weaker(paths, new) ==
    /\ new \in PathTable
    /\ \A n \in Nodes : \A a \in Addrs :
          \/ new[n][a] = NoPath
          \/ new[n][a].ok = paths[n][a].ok /\ new[n][a].active = paths[n][a].active

LEMMA WeakerOwned ==
    ASSUME NEW paths \in PathTable, NEW new, Owned(paths), Weaker(paths, new)
    PROVE  Owned(new)
<1>1. \A n \in Nodes : \A a \in Addrs :
        /\ new[n][a].ok => paths[n][a].ok
        /\ new[n][a].active => paths[n][a].active /\ new[n][a].ok
  BY DEF Weaker, Owned, NoPath
<1> QED
  BY <1>1 DEF Owned

\* PathOK makes n the one owner of a, and leaves n one active path.
LEMMA PathOKOwned ==
    ASSUME NEW paths \in PathTable, NEW n \in Nodes, NEW k \in Kinds, NEW a \in Addrs,
           Owned(paths)
    PROVE  Owned(PathOK(paths, n, k, a))
<1> DEFINE new == PathOK(paths, n, k, a)
<1>1. PICK promote \in BOOLEAN :
        /\ new[n][a].active = (paths[n][a].active \/ promote)
        /\ \A b \in Addrs \ {a} :
             \/ new[n][b] = NoPath
             \/ new[n][b] = Demoted(paths[n][b], promote)
  BY PathOKEntries
<1>2. new[n][a].ok
  BY PathOKEntries
<1>3. \A m \in Nodes \ {n} : \A b \in Addrs :
        new[m][b] = IF b = a THEN NoPath ELSE paths[m][b]
  BY PathOKEntries
<1> HIDE DEF new
<1>4. \A b \in Addrs \ {a} :
        /\ new[n][b].ok => paths[n][b].ok
        /\ new[n][b].active => paths[n][b].active /\ ~promote /\ new[n][b].ok
  <2> SUFFICES ASSUME NEW b \in Addrs \ {a}
               PROVE  /\ new[n][b].ok => paths[n][b].ok
                      /\ new[n][b].active => paths[n][b].active /\ ~promote /\ new[n][b].ok
    OBVIOUS
  <2>1. paths[n][b] \in Paths /\ (paths[n][b].active => paths[n][b].ok)
    BY DEF PathTable, Owned
  <2>2. CASE new[n][b] = NoPath
    BY <2>2 DEF NoPath
  <2>3. CASE new[n][b] = Demoted(paths[n][b], promote)
    BY <2>1, <2>3 DEF Paths, Demoted
  <2> QED
    BY <1>1, <2>2, <2>3
<1>5. \A m \in Nodes \ {n} : \A b \in Addrs :
        /\ new[m][b].ok => b # a /\ paths[m][b].ok
        /\ new[m][b].active => b # a /\ paths[m][b].active
        /\ b # a => new[m][b] = paths[m][b]
  BY <1>3 DEF NoPath
<1>6. ASSUME NEW m \in Nodes, NEW b \in Addrs, NEW c \in Addrs, new[m][b].active
      PROVE  new[m][b].ok /\ (new[m][c].active => b = c)
  <2>1. CASE m = n
    BY <1>1, <1>2, <1>4, <1>6, <2>1 DEF Owned
  <2>2. CASE m # n
    BY <1>5, <1>6, <2>2 DEF Owned
  <2> QED
    BY <2>1, <2>2
<1>7. ASSUME NEW b \in Addrs, NEW m \in Nodes, NEW q \in Nodes, new[m][b].ok, new[q][b].ok
      PROVE  m = q
  <2>1. CASE b = a
    BY <1>5, <1>7, <2>1
  <2>2. CASE b # a
    BY <1>4, <1>5, <1>7, <2>2 DEF Owned
  <2> QED
    BY <2>1, <2>2
<1> QED
  BY <1>6, <1>7 DEF Owned, new

\* What the other operators of the store do to the table is weaker.
LEMMA SeePathWeaker ==
    ASSUME NEW paths \in PathTable, NEW n \in Nodes, NEW k \in Kinds, NEW a \in Addrs
    PROVE  Weaker(paths, SeePath(paths, n, k, a))
<1>1. paths[n][a] \in Paths
  BY DEF PathTable
<1>2. Seen(paths[n][a], k) \in Paths /\ Seen(paths[n][a], k).ok = paths[n][a].ok
      /\ Seen(paths[n][a], k).active = paths[n][a].active
  BY <1>1, SeenPath
<1>3. SeePath(paths, n, k, a) = [paths EXCEPT ![n][a] = Seen(paths[n][a], k)]
  BY DEF SeePath
<1> QED
  BY <1>2, <1>3 DEF Weaker, PathTable

LEMMA PathFailedWeaker ==
    ASSUME NEW paths \in PathTable, NEW n \in Nodes, NEW a
    PROVE  Weaker(paths, PathFailed(paths, n, a))
<1>1. \A p \in Paths : LET q == IF IsPath(p) THEN [p EXCEPT !.err = TRUE] ELSE p
                         IN q \in Paths /\ q.ok = p.ok /\ q.active = p.active
  BY DEF Paths
<1>2. CASE a \in Addrs
  <2>1. paths[n][a] \in Paths
    BY <1>2 DEF PathTable
  <2> QED
    BY <1>1, <1>2, <2>1 DEF Weaker, PathTable, PathFailed
<1>3. CASE a \notin Addrs
  BY <1>3 DEF Weaker, PathTable, PathFailed
<1> QED
  BY <1>2, <1>3

LEMMA DropPathWeaker ==
    ASSUME NEW paths \in PathTable, NEW n \in Nodes, NEW a
    PROVE  Weaker(paths, DropPath(paths, n, a))
BY EmptyTypes DEF Weaker, PathTable, DropPath

LEMMA PrunePathsWeaker ==
    ASSUME NEW rows, NEW paths \in PathTable
    PROVE  Weaker(paths, PrunePaths(rows, paths))
BY EmptyTypes DEF Weaker, PathTable, PrunePaths

LEMMA PruneRowsType ==
    ASSUME NEW rows \in RowTable, NEW paths
    PROVE  PruneRows(rows, paths) \in RowTable
BY EmptyTypes DEF RowTable, PruneRows

-----------------------------------------------------------------------------
(* Updates of the records of tries, polls and jobs keep them records. *)

LEMMA TryFields ==
    ASSUME NEW t \in TryStates
    PROVE  /\ [t EXCEPT !.pc = "probe"] \in TryStates
           /\ \A ans \in Nodes \cup {"fail"} : [t EXCEPT !.pc = "record", !.ans = ans] \in TryStates
           /\ t.left > 1 => [t EXCEPT !.pc = "wait", !.left = @ - 1, !.ans = "none"] \in TryStates
           /\ [t EXCEPT !.by = "soon", !.pc = "wait", !.ans = "none"] \in TryStates
           /\ [t EXCEPT !.pc = "unpend", !.ans = "none"] \in TryStates
           /\ [t EXCEPT !.pc = "unpend"] \in TryStates
<1>1. t.left > 1 => t.left - 1 \in 0..RetrySoon
  BY DirectoryAssumption DEF TryStates
<1> QED
  BY <1>1 DEF TryStates

LEMMA NewTryType ==
    ASSUME pathGen \in Nat, NEW by \in {"add"} \cup Polls, NEW a \in Fwd, NEW left \in 0..RetrySoon
    PROVE  NewTry(by, a, left) \in TryStates
BY DEF NewTry, TryStates

\* A try gives way to another, or ends.
LEMMA NextTryTries ==
    ASSUME tries \subseteq TryStates, NEW t \in tries, NextTry(t)
    PROVE  /\ tries' \subseteq TryStates
           /\ \A u \in tries' : \/ u \in tries
                                \/ u.addr = t.addr /\ u.since = t.since /\ u.pc = "wait"
<1> DEFINE v == [t EXCEPT !.pc = "wait", !.left = @ - 1, !.ans = "none"]
<1>1. t \in TryStates
  OBVIOUS
<1>2. v.addr = t.addr /\ v.since = t.since /\ v.pc = "wait"
  BY <1>1 DEF TryStates
<1>3. CASE t.by = "soon" /\ t.left > 1
  <2>1. v \in TryStates
    BY <1>1, <1>3, TryFields
  <2>2. tries' = (tries \ {t}) \cup {v}
    BY <1>3 DEF NextTry, Retry
  <2> HIDE DEF v
  <2>3. tries' \subseteq TryStates
    BY <2>1, <2>2
  <2>4. \A u \in tries' : u \in tries \/ u = v
    BY <2>2
  <2> QED
    BY <1>2, <2>3, <2>4
<1>4. CASE ~(t.by = "soon" /\ t.left > 1)
  <2>1. tries' = tries \ {t}
    BY <1>4 DEF NextTry, EndTry
  <2> QED
    BY <2>1
<1> QED
  BY <1>3, <1>4

LEMMA NoJobType == NoJob \in Jobs
BY DEF NoJob, Jobs, Candidates

LEMMA IdlePollType ==
    /\ IdlePoll \in PollStates
    /\ \A s \in {"idle", "prune"} : [IdlePoll EXCEPT !.stage = s] \in PollStates
    /\ \A f \in [Addrs -> Peers \cup {Nobody}] :
          [IdlePoll EXCEPT !.stage = "gossip", !.healths = f] \in PollStates
BY NoJobType DEF IdlePoll, PollStates

Stages == {"idle", "self", "pending", "retry", "check", "gossip", "prune"}

LEMMA PollFields ==
    ASSUME NEW st \in PollStates
    PROVE  /\ \A s \in Stages : [st EXCEPT !.stage = s] \in PollStates
           /\ \A js \in [Peers -> Jobs] : [st EXCEPT !.stage = "check", !.job = js] \in PollStates
           /\ \A learnt \in SUBSET (Peers \X Lan) : [st EXCEPT !.learn = learnt] \in PollStates
           /\ st.job \in [Peers -> Jobs] /\ st.learn \subseteq Peers \X Lan
BY DEF PollStates, Stages

\* What becomes of the jobs when a poll moves on without touching them.
LEMMA StageJobs ==
    ASSUME poll \in [Polls -> PollStates], NEW p \in Polls, NEW s \in Stages, Stage(p, s)
    PROVE  /\ poll' \in [Polls -> PollStates]
           /\ \A q \in Polls : poll'[q].job = poll[q].job
<1>0. poll[p] \in PollStates
  OBVIOUS
<1>1. [poll[p] EXCEPT !.stage = s] \in PollStates
  BY <1>0, PollFields
<1>3. [poll[p] EXCEPT !.stage = s].job = poll[p].job
  BY <1>0 DEF PollStates
<1>2. poll' = [poll EXCEPT ![p] = [poll[p] EXCEPT !.stage = s]]
  BY DEF Stage
<1> QED
  BY <1>1, <1>2, <1>3

LEMMA SetPollJobs ==
    ASSUME poll \in [Polls -> PollStates], NEW p \in Polls, NEW st \in PollStates, SetPoll(p, st)
    PROVE  /\ poll' \in [Polls -> PollStates]
           /\ \A q \in Polls : poll'[q] = IF q = p THEN st ELSE poll[q]
BY DEF SetPoll

LEMMA SetJobJobs ==
    ASSUME poll \in [Polls -> PollStates], NEW p \in Polls, NEW n \in Peers, NEW j \in Jobs,
           SetJob(p, n, j)
    PROVE  /\ poll' \in [Polls -> PollStates]
           /\ \A q \in Polls, m \in Peers :
                poll'[q].job[m] = IF q = p /\ m = n THEN j ELSE poll[q].job[m]
<1> DEFINE js == [poll[p].job EXCEPT ![n] = j]
           st == [poll[p] EXCEPT !.job = js]
<1>1. poll[p] \in PollStates /\ poll[p].job \in [Peers -> Jobs]
  BY PollFields
<1>2. js \in [Peers -> Jobs] /\ \A m \in Peers : js[m] = IF m = n THEN j ELSE poll[p].job[m]
  BY <1>1
<1> HIDE DEF js
<1>3. st \in PollStates /\ st.job = js
  BY <1>1, <1>2 DEF PollStates
<1>4. poll' = [poll EXCEPT ![p] = st]
  BY DEF SetJob, js
<1> HIDE DEF st
<1> QED
  BY <1>2, <1>3, <1>4

-----------------------------------------------------------------------------
(* The invariant. *)

\* RemovePeer took the forwarder away, and no link uses its port again.
Gone(a) == removedAt[a] > 0 /\ \A l \in links : l.addr # a

\* A step that reads the generation now is later than every removal.
GenInv == \A a \in Addrs : removedAt[a] <= pathGen

\* Only a peer's forwarder answers at a loopback port.
LivesInv == \A f \in Fwd : lives[f] \in Peers \cup {Nobody}

\* A try of an address that was removed began before.
TryInv ==
    \A t \in tries :
        /\ t.since <= pathGen
        /\ t.pc = "record" => t.ans \in Peers \cup {"fail"}
        /\ Gone(t.addr) => t.since < removedAt[t.addr]

\* What a poll still holds of a node's paths: the one it probes is one of
\* those it read, and if a forwarder among them was removed, it read them before.
JobInv(j) ==
    /\ j.since <= pathGen
    /\ j.pc \in {"off", "since", "paths", "done"} => j.todo = {} /\ j.cur = Nobody
    /\ j.pc \in {"record", "forget"} => j.cur \in Addrs
    /\ j.pc = "record" => \E c \in j.todo : c.addr = j.cur
    /\ \A a \in Fwd : Gone(a) /\ (j.cur = a \/ \E c \in j.todo : c.addr = a)
                        => j.since < removedAt[a]

PollInv == \A p \in Polls, n \in Peers : JobInv(poll[p].job[n])

\* A forwarder that is gone is on no path and not pending.
GoneInv ==
    \A a \in Fwd : Gone(a) => a \notin pending /\ \A n \in Nodes : ~IsPath(path[n][a])

DirInv == GenInv /\ LivesInv /\ TryInv /\ PollInv /\ GoneInv

-----------------------------------------------------------------------------
(* What the steps share. *)

\* The paths of the forwarders are those there were.
Kept(paths, new) == \A n \in Nodes, a \in Fwd : IsPath(new[n][a]) => IsPath(paths[n][a])

\* What a step does to the table of paths.
PathStep ==
    \/ Weaker(path, path') /\ Kept(path, path')
    \/ \E n \in Nodes, k \in Kinds, a \in Addrs :
          path' = PathOK(path, n, k, a) /\ ~(a \in Fwd /\ Gone(a))

\* No forwarder is taken away and nothing is forgotten.
Calm ==
    /\ pathGen' = pathGen /\ removedAt' = removedAt
    /\ \A a \in Fwd : Gone(a)' => Gone(a)

LEMMA SamePath ==
    ASSUME path \in PathTable, path' = path
    PROVE  PathStep
BY DEF PathStep, Weaker, Kept

LEMMA SameLinks ==
    ASSUME pathGen' = pathGen, removedAt' = removedAt, links' = links
    PROVE  Calm
BY DEF Calm, Gone

\* OnPeer's return changes no link's port.
LEMMA AnnouncedLinks ==
    ASSUME links \subseteq LinkStates, NEW b, Announced(b),
           pathGen' = pathGen, removedAt' = removedAt
    PROVE  links' \subseteq LinkStates /\ Calm
<1> DEFINE L(l) == IF l.addr = b THEN [l EXCEPT !.joining = FALSE] ELSE l
<1>1. \A l \in LinkStates : L(l) \in LinkStates /\ L(l).addr = l.addr
  BY DEF LinkStates
<1>2. links' = {L(l) : l \in links}
  BY DEF Announced
<1> HIDE DEF L
<1>3. links' \subseteq LinkStates
  BY <1>1, <1>2
<1>4. \A l \in links : \E k \in links' : k.addr = l.addr
  BY <1>1, <1>2
<1> QED
  BY <1>3, <1>4 DEF Calm, Gone

LEMMA EventType ==
    ASSUME used \subseteq Events, NEW e, Event(e)
    PROVE  used' \subseteq Events
BY DEF Event

\* A forwarder's answer is a peer's or none.
LEMMA ProbedType ==
    ASSUME TypeOK, LivesInv, NEW a \in Addrs, NEW ans, Probed(a, ans)
    PROVE  /\ used' \subseteq Events
           /\ a \in Fwd => ans \in Peers \cup {"fail"}
<1>1. used' \subseteq Events
  BY EventType DEF Probed, TypeOK
<1>2. ASSUME a \in Fwd, ans \in Answers(a)
      PROVE  ans \in Peers \cup {"fail"}
  <2>1. a \notin Lan /\ Nobody \notin Nodes /\ Stranger \notin Nodes /\ Peers \subseteq Nodes
    BY <1>2, DirectoryAssumption DEF Peers
  <2>2. CASE lives[a] = Nobody
    BY <1>2, <2>1, <2>2, DirectoryAssumption DEF Answers
  <2>3. CASE lives[a] \in Peers
    BY <1>2, <2>1, <2>3, DirectoryAssumption DEF Answers
  <2> QED
    BY <1>2, <2>2, <2>3 DEF LivesInv
<1> QED
  BY <1>1, <1>2 DEF Probed

\* An address verified: the three tables, and what changed.
LEMMA VerifyPathStep ==
    ASSUME TypeOK, NEW n \in Peers, NEW k \in Kinds, NEW a \in Addrs,
           ~(a \in Fwd /\ Gone(a)), VerifyPath(n, k, a)
    PROVE  /\ row' \in RowTable /\ path' \in PathTable
           /\ pin' \in [Addrs -> Peers \cup {Nobody}]
           /\ PathStep
<1>1. n \in Nodes /\ row \in RowTable /\ path \in PathTable
  BY DEF Peers, TypeOK, RowTable, PathTable
<1>2. row' \in RowTable
  BY <1>1, VerifyRowType DEF VerifyPath
<1>3. path' \in PathTable
  BY <1>1, PathOKEntries DEF VerifyPath
<1>4. pin' \in [Addrs -> Peers \cup {Nobody}]
  BY DEF VerifyPath, TypeOK
<1>5. PathStep
  BY <1>1 DEF PathStep, VerifyPath
<1> QED
  BY <1>2, <1>3, <1>4, <1>5

-----------------------------------------------------------------------------
(* Tries of a forwarder. *)

\* A try that takes another's place is of its address and its generation.
Succeeds(t, u) ==
    /\ u.addr = t.addr /\ u.since = t.since
    /\ u.pc = "record" => u.ans \in Peers \cup {"fail"}

LEMMA RetryTries ==
    ASSUME tries \subseteq TryStates, NEW t \in tries, NEW u \in TryStates,
           Succeeds(t, u), Retry(t, u)
    PROVE  /\ tries' \subseteq TryStates
           /\ \A v \in tries' : v \in tries \/ Succeeds(t, v)
BY DEF Retry

LEMMA EndTryTries ==
    ASSUME tries \subseteq TryStates, NEW t \in tries, EndTry(t)
    PROVE  tries' \subseteq TryStates /\ tries' \subseteq tries
BY DEF EndTry

LEMMA TryFieldsSucceed ==
    ASSUME NEW t \in TryStates
    PROVE  /\ Succeeds(t, [t EXCEPT !.pc = "probe"])
           /\ \A ans \in Peers \cup {"fail"} : Succeeds(t, [t EXCEPT !.pc = "record", !.ans = ans])
           /\ Succeeds(t, [t EXCEPT !.by = "soon", !.pc = "wait", !.ans = "none"])
           /\ Succeeds(t, [t EXCEPT !.pc = "unpend", !.ans = "none"])
           /\ Succeeds(t, [t EXCEPT !.pc = "unpend"])
BY DEF TryStates, Succeeds

\* What the tries of a step have to be for TryInv to stay.
TriesStep ==
    /\ tries' \subseteq TryStates
    /\ \A u \in tries' :
          \/ \E t \in tries : u = t \/ Succeeds(t, u)
          \/ u.since = pathGen /\ u.pc = "probe" /\ ~Gone(u.addr)'

LEMMA TryInvStep ==
    ASSUME TypeOK, TryInv, GenInv, Calm, TriesStep
    PROVE  TryInv'
<1> SUFFICES ASSUME NEW u \in tries'
             PROVE  /\ u.since <= pathGen
                    /\ u.pc = "record" => u.ans \in Peers \cup {"fail"}
                    /\ Gone(u.addr)' => u.since < removedAt[u.addr]
  BY DEF TryInv, Calm
<1>1. u.addr \in Fwd
  BY DEF TriesStep, TryStates
<1>2. CASE \E t \in tries : u = t \/ Succeeds(t, u)
  BY <1>1, <1>2 DEF TryInv, Calm, Succeeds
<1>3. CASE u.since = pathGen /\ u.pc = "probe" /\ ~Gone(u.addr)'
  BY <1>3 DEF TypeOK
<1> QED
  BY <1>2, <1>3 DEF TriesStep

\* The tables a try's step leaves to the polls.
TryFrame == UNCHANGED <<pathGen, removedAt, strangers, known, poll, lives, signed>>

LEMMA TryStepType ==
    ASSUME TypeOK, DirInv, NEW t \in tries,
           \/ TryWake(t) \/ TryProbe(t) \/ AddPeerFails(t) \/ AddPeerAnswers(t)
           \/ TryFails(t) \/ TryAdopts(t) \/ TryUnpends(t)
    PROVE  /\ TypeOK' /\ PathStep /\ Calm /\ TryFrame /\ TriesStep
           /\ pending' \subseteq pending \cup {f \in Fwd : ~Gone(f)}
<1> DEFINE Goal == /\ TypeOK' /\ PathStep /\ Calm /\ TryFrame /\ TriesStep
                   /\ pending' \subseteq pending \cup {f \in Fwd : ~Gone(f)}
<1>1. /\ tries \subseteq TryStates /\ t \in TryStates /\ links \subseteq LinkStates
      /\ path \in PathTable /\ t.addr \in Fwd /\ t.addr \in Addrs
  BY DirectoryAssumption DEF TypeOK, PathTable, TryStates
<1>2. t.pc = "record" /\ ~Removed(t.addr, t.since) => ~Gone(t.addr)
  BY <1>1 DEF DirInv, TryInv, Removed, TypeOK, TryStates
<1>3. t.pc = "record" /\ t.ans # "fail" => t.ans \in Peers
  BY DEF DirInv, TryInv
<1>4. "internet" \in Kinds
  BY DEF Kinds
<1>5. CASE TryWake(t)
  <2>1. tries' \subseteq TryStates /\ \A v \in tries' : v \in tries \/ Succeeds(t, v)
    BY <1>1, <1>5, TryFields, TryFieldsSucceed, RetryTries, EndTryTries DEF TryWake
  <2>2. UNCHANGED <<row, path, pin, pending, pathGen, removedAt, strangers, known, poll, asked,
                    links, lives, signed, used>>
    BY <1>5 DEF TryWake, table, memory, world
  <2> QED
    BY <1>1, <2>1, <2>2, SamePath, SameLinks DEF TypeOK, TryFrame, TriesStep
<1>6. CASE TryProbe(t)
  <2>1. PICK ans \in Nodes \cup {"fail"} :
          Probed(t.addr, ans) /\ Retry(t, [t EXCEPT !.pc = "record", !.ans = ans])
    BY <1>6 DEF TryProbe
  <2>2. used' \subseteq Events /\ ans \in Peers \cup {"fail"}
    BY <1>1, <2>1, ProbedType DEF DirInv
  <2>3. [t EXCEPT !.pc = "record", !.ans = ans] \in TryStates
    BY <1>1, TryFields
  <2>4. Succeeds(t, [t EXCEPT !.pc = "record", !.ans = ans])
    BY <1>1, <2>2, TryFieldsSucceed
  <2>5. tries' \subseteq TryStates /\ \A v \in tries' : v \in tries \/ Succeeds(t, v)
    BY <1>1, <2>1, <2>3, <2>4, RetryTries
  <2>6. UNCHANGED <<row, path, pin, pending, pathGen, removedAt, strangers, known, poll, asked,
                    links, lives, signed>>
    BY <1>6 DEF TryProbe, table, memory, world
  <2> QED
    BY <1>1, <2>2, <2>5, <2>6, SamePath, SameLinks DEF TypeOK, TryFrame, TriesStep
<1>7. CASE AddPeerFails(t)
  <2>1. tries' \subseteq TryStates /\ \A v \in tries' : v \in tries \/ Succeeds(t, v)
    BY <1>1, <1>7, TryFields, TryFieldsSucceed, RetryTries, EndTryTries DEF AddPeerFails
  <2>2. UNCHANGED <<row, path, pin, pathGen, removedAt, strangers, known, poll, asked,
                    lives, signed, used>>
    BY <1>7 DEF AddPeerFails, table
  <2>3. links' \subseteq LinkStates /\ Calm
    BY <1>1, <1>7, <2>2, AnnouncedLinks DEF AddPeerFails
  <2>4. pending' \subseteq pending \cup {f \in Fwd : ~Gone(f)}
    BY <1>1, <1>2, <1>7 DEF AddPeerFails
  <2> QED
    BY <1>1, <2>1, <2>2, <2>3, <2>4, SamePath DEF TypeOK, TryFrame, TriesStep
<1>8. CASE AddPeerAnswers(t)
  <2>1. tries' \subseteq TryStates /\ tries' \subseteq tries
    BY <1>1, <1>8, EndTryTries DEF AddPeerAnswers
  <2>2. UNCHANGED <<pending, pathGen, removedAt, strangers, known, poll, lives, signed, used>>
    BY <1>8 DEF AddPeerAnswers, memory
  <2>3. links' \subseteq LinkStates /\ Calm
    BY <1>1, <1>8, <2>2, AnnouncedLinks DEF AddPeerAnswers
  <2>4. /\ row' \in RowTable /\ path' \in PathTable
        /\ pin' \in [Addrs -> Peers \cup {Nobody}]
        /\ PathStep
    <3>1. CASE Removed(t.addr, t.since)
      BY <1>1, <1>8, <3>1, SamePath DEF AddPeerAnswers, table, TypeOK, RowTable, PathTable
    <3>2. CASE ~Removed(t.addr, t.since)
      BY <1>1, <1>2, <1>3, <1>4, <1>8, <3>2, VerifyPathStep DEF AddPeerAnswers
    <3> QED
      BY <3>1, <3>2
  <2>5. asked' \in BOOLEAN
    BY <1>8 DEF AddPeerAnswers
  <2> QED
    BY <2>1, <2>2, <2>3, <2>4, <2>5 DEF TypeOK, TryFrame, TriesStep, RowTable, PathTable
<1>9. CASE TryFails(t)
  <2>1. /\ tries' \subseteq TryStates
        /\ \A u \in tries' : \/ u \in tries
                             \/ u.addr = t.addr /\ u.since = t.since /\ u.pc = "wait"
    BY <1>1, <1>9, NextTryTries DEF TryFails
  <2>2. \A u \in tries' : u \in tries \/ Succeeds(t, u)
    BY <2>1 DEF Succeeds
  <2>3. UNCHANGED <<row, path, pin, pending, pathGen, removedAt, strangers, known, poll, asked,
                    links, lives, signed, used>>
    BY <1>9 DEF TryFails, table, memory, world
  <2> QED
    BY <1>1, <2>1, <2>2, <2>3, SamePath, SameLinks DEF TypeOK, TryFrame, TriesStep
<1>10. CASE TryAdopts(t)
  <2>1. tries' \subseteq TryStates /\ \A v \in tries' : v \in tries \/ Succeeds(t, v)
    BY <1>1, <1>10, TryFields, TryFieldsSucceed, RetryTries DEF TryAdopts
  <2>2. UNCHANGED <<pending, pathGen, removedAt, strangers, known, poll, asked,
                    links, lives, signed, used>>
    BY <1>10 DEF TryAdopts, memory, world
  <2>3. /\ row' \in RowTable /\ path' \in PathTable
        /\ pin' \in [Addrs -> Peers \cup {Nobody}]
        /\ PathStep
    <3>1. CASE Removed(t.addr, t.since)
      BY <1>1, <1>10, <3>1, SamePath DEF TryAdopts, table, TypeOK, RowTable, PathTable
    <3>2. CASE ~Removed(t.addr, t.since)
      BY <1>1, <1>2, <1>3, <1>4, <1>10, <3>2, VerifyPathStep DEF TryAdopts
    <3> QED
      BY <3>1, <3>2
  <2> QED
    BY <1>1, <2>1, <2>2, <2>3, SameLinks DEF TypeOK, TryFrame, TriesStep, RowTable, PathTable
<1>11. CASE TryUnpends(t)
  <2>1. tries' \subseteq TryStates /\ \A u \in tries' : u \in tries \/ Succeeds(t, u)
    <3>1. CASE t.ans = "none"
      BY <1>1, <1>11, <3>1, NextTryTries DEF TryUnpends, Succeeds
    <3>2. CASE t.ans # "none"
      BY <1>1, <1>11, <3>2, EndTryTries DEF TryUnpends
    <3> QED
      BY <3>1, <3>2
  <2>2. UNCHANGED <<row, path, pin, pathGen, removedAt, strangers, known, poll,
                    links, lives, signed, used>>
    BY <1>11 DEF TryUnpends, table, world
  <2>3. pending' \subseteq pending /\ asked' \in BOOLEAN
    BY <1>11 DEF TryUnpends, TypeOK
  <2> QED
    BY <1>1, <2>1, <2>2, <2>3, SamePath, SameLinks DEF TypeOK, TryFrame, TriesStep
<1> QED
  BY <1>5, <1>6, <1>7, <1>8, <1>9, <1>10, <1>11

-----------------------------------------------------------------------------
(* Steps of a pollOne. *)

\* A job that holds no path its predecessor did not.
Narrows(j, k) ==
    /\ k.since = j.since /\ k.todo \subseteq j.todo
    /\ k.cur = Nobody \/ k.cur = j.cur \/ \E c \in j.todo : c.addr = k.cur

\* The parts of JobInv that are about where the job is.
JobAt(j) ==
    /\ j.pc \in {"off", "since", "paths", "done"} => j.todo = {} /\ j.cur = Nobody
    /\ j.pc \in {"record", "forget"} => j.cur \in Addrs
    /\ j.pc = "record" => \E c \in j.todo : c.addr = j.cur

LEMMA NarrowsInv ==
    ASSUME NEW j \in Jobs, NEW k \in Jobs, JobInv(j), Narrows(j, k), JobAt(k)
    PROVE  JobInv(k)
<1>1. Nobody \notin Fwd
  BY DirectoryAssumption
<1> QED
  BY <1>1 DEF JobInv, Narrows, JobAt

\* The candidate just probed is done with.
LEMMA ProbingJob ==
    ASSUME NEW j \in Jobs
    PROVE  /\ Probing(j) \in Jobs /\ Narrows(j, Probing(j)) /\ Probing(j).pc = "probe"
           /\ Probing(j).at = j.at /\ Probing(j).unproven = j.unproven
BY DEF Probing, Jobs, Narrows

LEMMA DoneJob ==
    ASSUME pathGen \in Nat, NEW j \in Jobs, NEW k,
           \/ k = [NoJob EXCEPT !.pc = "done", !.at = j.at]
           \/ k = [NoJob EXCEPT !.pc = "done", !.verified = TRUE, !.at = j.at]
    PROVE  k \in Jobs /\ JobInv(k)
<1>1. j.at \in Addrs \cup {Nobody} /\ Nobody \notin Fwd
  BY DirectoryAssumption DEF Jobs
<1>2. k \in Jobs
  BY ZenonT(60), <1>1, NoJobType DEF Jobs
<1>3. k.pc = "done" /\ k.since = 0 /\ k.todo = {} /\ k.cur = Nobody
  BY DEF NoJob
<1>4. JobInv(k)
  BY <1>1, <1>3 DEF JobInv
<1> QED
  BY <1>2, <1>4

\* What the jobs of a step have to be for PollInv to stay.
JobsStep == \A q \in Polls, m \in Peers : \E j \in Jobs : poll'[q].job[m] = j /\ JobInv(j)

LEMMA OneJobStep ==
    ASSUME TypeOK, PollInv, NEW p \in Polls, NEW n \in Peers, NEW j \in Jobs, JobInv(j),
           SetJob(p, n, j)
    PROVE  poll' \in [Polls -> PollStates] /\ JobsStep
<1>1. /\ poll' \in [Polls -> PollStates]
      /\ \A q \in Polls, m \in Peers :
           poll'[q].job[m] = IF q = p /\ m = n THEN j ELSE poll[q].job[m]
  BY SetJobJobs DEF TypeOK
<1>2. \A q \in Polls, m \in Peers : poll[q].job[m] \in Jobs
  BY PollFields DEF TypeOK
<1> QED
  BY <1>1, <1>2 DEF PollInv, JobsStep

LEMMA SameJobsStep ==
    ASSUME TypeOK, PollInv,
           \A q \in Polls, m \in Peers : poll'[q].job[m] = poll[q].job[m]
    PROVE  JobsStep
<1>1. \A q \in Polls, m \in Peers : poll[q].job[m] \in Jobs
  BY PollFields DEF TypeOK
<1> QED
  BY <1>1 DEF PollInv, JobsStep

LEMMA PollInvStep ==
    ASSUME Calm, JobsStep
    PROVE  PollInv'
<1> SUFFICES ASSUME NEW q \in Polls, NEW m \in Peers
             PROVE  JobInv(poll[q].job[m])'
  BY DEF PollInv
<1>1. PICK j \in Jobs : poll'[q].job[m] = j /\ JobInv(j)
  BY DEF JobsStep
<1>2. JobInv(j)'
  BY <1>1 DEF JobInv, Calm
<1> QED
  BY <1>1, <1>2 DEF JobInv

\* The table's steps that are no promotion.
LEMMA TableStep ==
    ASSUME path \in PathTable, NEW n \in Nodes, NEW a,
           path' = PathFailed(path, n, a) \/ path' = DropPath(path, n, a)
    PROVE  path' \in PathTable /\ PathStep
<1>1. path' \in PathTable /\ Weaker(path, path')
  BY PathFailedWeaker, DropPathWeaker DEF Weaker
<1>2. Kept(path, path')
  <2>1. \A q \in Paths : IsPath([q EXCEPT !.err = TRUE]) <=> IsPath(q)
    BY DEF Paths, IsPath
  <2>2. ~IsPath(NoPath)
    BY DEF IsPath, NoPath
  <2>3. \A m \in Nodes, b \in Fwd : b \in Addrs /\ path[m][b] \in Paths
    BY DirectoryAssumption DEF PathTable
  <2>4. CASE path' = PathFailed(path, n, a)
    <3>1. ASSUME NEW m \in Nodes, NEW b \in Fwd
          PROVE  IsPath(path'[m][b]) <=> IsPath(path[m][b])
      <4>1. path'[m][b] = path[m][b] \/ path'[m][b] = [path[m][b] EXCEPT !.err = TRUE]
        BY <2>3, <2>4 DEF PathFailed, PathTable
      <4> QED
        BY <2>1, <2>3, <4>1
    <3> QED
      BY <3>1 DEF Kept
  <2>5. CASE path' = DropPath(path, n, a)
    <3>1. \A m \in Nodes, b \in Fwd : path'[m][b] = path[m][b] \/ path'[m][b] = NoPath
      BY <2>3, <2>5 DEF DropPath, PathTable
    <3> QED
      BY <2>2, <3>1 DEF Kept
  <2> QED
    BY <2>4, <2>5
<1> QED
  BY <1>1, <1>2 DEF PathStep

JobFrame ==
    UNCHANGED <<pending, pathGen, removedAt, known, tries, asked, links, lives, signed>>

LEMMA JobStepType ==
    ASSUME TypeOK, DirInv, NEW p \in Polls, NEW n \in Peers, JobStep(p, n)
    PROVE  TypeOK' /\ PathStep /\ Calm /\ JobFrame /\ JobsStep
<1> DEFINE j == poll[p].job[n]
<1>1. /\ j \in Jobs /\ JobInv(j) /\ JobAt(j) /\ n \in Nodes
      /\ row \in RowTable /\ path \in PathTable
      /\ pathGen \in Nat /\ PollInv
  BY PollFields DEF DirInv, PollInv, JobInv, JobAt, TypeOK, RowTable, PathTable, Peers
<1>2. \A c \in j.todo : c \in Candidates /\ c.addr \in Addrs /\ c.kind \in Kinds
  BY <1>1 DEF Jobs, Candidates
<1>3. Left(j) \subseteq j.todo
  BY DEF Left
<1>4. /\ Probing(j) \in Jobs /\ Narrows(j, Probing(j)) /\ Probing(j).pc = "probe"
      /\ Probing(j).at = j.at /\ Probing(j).unproven = j.unproven
  BY <1>1, ProbingJob
\* The variables no step of a job changes, for those that leave the rest too.
<1> DEFINE Rest == UNCHANGED <<pending, pathGen, removedAt, known, tries, asked,
                               links, lives, signed>>
<1>5. JobStep(p, n) => Rest
  BY DEF JobStep, PollSince, PollPaths, PollProbe, PollFailed, PollDrops, PollForgets, PollVerifies,
         PollUnreachable, PollDropsStranger, PollHealthy, table, memory, world
<1>6. Rest
  BY <1>5
<1>7. ASSUME NEW k \in Jobs, JobInv(k), SetJob(p, n, k),
             row' \in RowTable, path' \in PathTable, PathStep,
             pin' \in [Addrs -> Peers \cup {Nobody}],
             strangers' \subseteq Peers \X Addrs, used' \subseteq Events
      PROVE  TypeOK' /\ PathStep /\ Calm /\ JobFrame /\ JobsStep
  <2>1. poll' \in [Polls -> PollStates] /\ JobsStep
    BY <1>1, <1>7, OneJobStep
  <2> QED
    BY <1>6, <1>7, <2>1, SameLinks DEF TypeOK, JobFrame, RowTable, PathTable
<1> HIDE DEF j, Rest
<1>8. CASE PollSince(p, n)
  <2> DEFINE k == [j EXCEPT !.pc = "paths", !.since = pathGen]
  <2>1. k \in Jobs /\ k.pc = "paths" /\ k.since = pathGen /\ k.todo = j.todo /\ k.cur = j.cur
    BY <1>1 DEF Jobs
  <2>2. j.pc = "since" /\ SetJob(p, n, k) /\ UNCHANGED <<row, path, pin, strangers, used>>
    BY <1>8 DEF PollSince, table, memory, j
  <2> HIDE DEF k
  <2>3. JobInv(k)
    BY <1>1, <2>1, <2>2, DirectoryAssumption DEF JobInv, JobAt
  <2> QED
    BY <1>1, <1>7, <2>1, <2>2, <2>3, SamePath DEF TypeOK
<1>9. CASE PollPaths(p, n)
  <2> DEFINE cs == {[addr |-> a, kind |-> path[n][a].kind, active |-> path[n][a].active] :
                      a \in {b \in Addrs : IsPath(path[n][b])}}
             k == [j EXCEPT !.pc = "probe", !.todo = cs]
  <2>1. cs \subseteq Candidates
    <3>1. \A a \in Addrs : path[n][a] \in Paths
      BY <1>1 DEF PathTable
    <3> QED
      BY <3>1 DEF Candidates, Paths, IsPath
  <2>2. \A a \in Fwd : (\E c \in cs : c.addr = a) => ~Gone(a)
    BY <1>1 DEF DirInv, GoneInv
  <2>3. j.pc = "paths" /\ SetJob(p, n, k) /\ UNCHANGED <<row, path, pin, strangers, used>>
    BY <1>9 DEF PollPaths, table, memory, j
  <2> HIDE DEF cs
  <2>4. k \in Jobs /\ k.pc = "probe" /\ k.since = j.since /\ k.todo = cs /\ k.cur = j.cur
    BY <1>1, <2>1 DEF Jobs
  <2> HIDE DEF k
  <2>5. JobInv(k)
    BY <1>1, <2>2, <2>3, <2>4, DirectoryAssumption DEF JobInv, JobAt
  <2> QED
    BY <1>1, <1>7, <2>3, <2>4, <2>5, SamePath DEF TypeOK
<1>10. CASE PollProbe(p, n)
  <2>1. PICK c \in FirstOf(Left(j)), ans \in Nodes \cup {"fail", "unproven", "wrongkey"} :
          /\ Probed(c.addr, ans)
          /\ SetJob(p, n, [j EXCEPT !.pc = "record", !.todo = Left(j), !.cur = c.addr, !.ans = ans])
    BY <1>10 DEF PollProbe, j
  <2>2. c \in Left(j) /\ c \in j.todo /\ c.addr \in Addrs
    BY <1>2, <1>3, <2>1 DEF FirstOf
  <2> DEFINE k == [j EXCEPT !.pc = "record", !.todo = Left(j), !.cur = c.addr, !.ans = ans]
  <2>3. /\ k \in Jobs /\ k.pc = "record" /\ k.since = j.since
        /\ k.todo = Left(j) /\ k.cur = c.addr
    BY <1>1, <1>3, <2>2 DEF Jobs
  <2>4. SetJob(p, n, k) /\ UNCHANGED <<row, path, pin, strangers>>
    BY <1>10, <2>1 DEF PollProbe, table, memory
  <2> HIDE DEF k
  <2>5. Narrows(j, k) /\ JobAt(k)
    BY <1>3, <2>2, <2>3 DEF Narrows, JobAt
  <2>6. used' \subseteq Events
    BY <2>1, <2>2, ProbedType DEF DirInv
  <2>7. JobInv(k)
    BY <1>1, <2>3, <2>5, NarrowsInv
  <2> QED
    BY <1>1, <1>7, <2>3, <2>4, <2>6, <2>7, SamePath DEF TypeOK
<1>11. CASE PollFailed(p, n)
  <2> DEFINE v == IF j.ans = "unproven" THEN Probing(j).unproven \cup {j.cur} ELSE Probing(j).unproven
             k == [Probing(j) EXCEPT !.unproven = v]
  <2>1. j.pc = "record" /\ path' = PathFailed(path, n, j.cur) /\ SetJob(p, n, k)
        /\ UNCHANGED <<row, pin, strangers, used>>
    BY <1>11 DEF PollFailed, memory, j
  <2>2. v \subseteq Addrs
    BY <1>1, <1>4, <2>1 DEF JobAt, Jobs
  <2> HIDE DEF v
  <2>3. k \in Jobs /\ k.pc = "probe" /\ Narrows(j, k)
    BY <1>4, <2>2 DEF Jobs, Narrows
  <2> HIDE DEF k
  <2>4. JobInv(k)
    BY <1>1, <2>3, NarrowsInv DEF JobAt
  <2>5. path' \in PathTable /\ PathStep
    BY <1>1, <2>1, TableStep
  <2> QED
    BY <1>1, <1>7, <2>1, <2>3, <2>4, <2>5 DEF TypeOK
<1>12. CASE PollDrops(p, n)
  <2> DEFINE k == [j EXCEPT !.pc = "forget"]
  <2>1. j.pc = "record" /\ path' = DropPath(path, n, j.cur) /\ SetJob(p, n, k)
        /\ UNCHANGED <<row, pin, strangers, used>>
    BY <1>12 DEF PollDrops, memory, j
  <2>2. k \in Jobs /\ k.pc = "forget" /\ k.cur = j.cur /\ Narrows(j, k)
    BY <1>1 DEF Jobs, Narrows
  <2> HIDE DEF k
  <2>3. JobInv(k)
    BY <1>1, <2>1, <2>2, NarrowsInv DEF JobAt
  <2>4. path' \in PathTable /\ PathStep
    BY <1>1, <2>1, TableStep
  <2> QED
    BY <1>1, <1>7, <2>1, <2>2, <2>3, <2>4 DEF TypeOK
<1>13. CASE PollForgets(p, n)
  <2>1. SetJob(p, n, Probing(j)) /\ pin' = [pin EXCEPT ![j.cur] = Nobody]
        /\ UNCHANGED <<row, path, strangers, used>>
    BY <1>13 DEF PollForgets, table, memory, j
  <2>2. JobInv(Probing(j))
    BY <1>1, <1>4, NarrowsInv DEF JobAt
  <2>3. pin' \in [Addrs -> Peers \cup {Nobody}]
    BY <2>1 DEF TypeOK
  <2> QED
    BY <1>1, <1>4, <1>7, <2>1, <2>2, <2>3, SamePath DEF TypeOK
<1>14. CASE PollVerifies(p, n)
  <2> DEFINE kind == (CHOOSE c \in j.todo : c.addr = j.cur).kind
             at == IF j.verified THEN Probing(j).at ELSE j.cur
             k == [Probing(j) EXCEPT !.verified = TRUE, !.at = at]
  <2>1. j.pc = "record" /\ UNCHANGED <<strangers, used>>
    BY <1>14 DEF PollVerifies, memory, j
  <2>2. /\ Removed(j.cur, j.since) => SetJob(p, n, Probing(j)) /\ UNCHANGED <<row, path, pin>>
        /\ ~Removed(j.cur, j.since) => VerifyPath(n, kind, j.cur) /\ SetJob(p, n, k)
    BY <1>14 DEF PollVerifies, table, j
  <2>3. kind \in Kinds /\ j.cur \in Addrs
    BY <1>1, <1>2, <2>1 DEF JobAt
  <2>4. at \in Addrs \cup {Nobody}
    BY <1>1, <1>4, <2>3 DEF Jobs
  <2> HIDE DEF kind, at
  <2>5. CASE Removed(j.cur, j.since)
    <3>1. JobInv(Probing(j))
      BY <1>1, <1>4, NarrowsInv DEF JobAt
    <3> QED
      BY <1>1, <1>4, <1>7, <2>1, <2>2, <2>5, <3>1, SamePath DEF TypeOK
  <2>6. CASE ~Removed(j.cur, j.since)
    <3>1. k \in Jobs /\ k.pc = "probe" /\ Narrows(j, k)
      BY <1>4, <2>4 DEF Jobs, Narrows
    <3> HIDE DEF k
    <3>2. JobInv(k)
      BY <1>1, <3>1, NarrowsInv DEF JobAt
    <3>3. ~(j.cur \in Fwd /\ Gone(j.cur))
      <4>1. j.since \in Nat /\ removedAt[j.cur] \in Nat
        BY <1>1, <2>3 DEF Jobs, TypeOK
      <4> QED
        BY <1>1, <2>6, <4>1 DEF JobInv, Removed
    <3>4. /\ row' \in RowTable /\ path' \in PathTable
          /\ pin' \in [Addrs -> Peers \cup {Nobody}]
          /\ PathStep
      BY <2>2, <2>3, <2>6, <3>3, VerifyPathStep
    <3> QED
      BY <1>7, <2>1, <2>2, <2>6, <3>1, <3>2, <3>4 DEF TypeOK
  <2> QED
    BY <2>5, <2>6
<1>15. CASE PollUnreachable(p, n)
  <2> DEFINE k == [NoJob EXCEPT !.pc = "done", !.at = j.at]
  <2>2. /\ strangers' = {s \in strangers : s[1] # n} /\ row' = MarkUnreachable(row, n)
        /\ SetJob(p, n, k) /\ UNCHANGED <<path, pin, used>>
    BY <1>15 DEF PollUnreachable, j
  <2>3. k \in Jobs /\ JobInv(k)
    BY <1>1, DoneJob
  <2> HIDE DEF k
  <2>4. row' \in RowTable
    BY <1>1, <2>2, MarkUnreachableType
  <2>5. strangers' \subseteq Peers \X Addrs
    BY <2>2 DEF TypeOK
  <2> QED
    BY <1>1, <1>7, <2>2, <2>3, <2>4, <2>5, SamePath DEF TypeOK
<1>16. CASE PollDropsStranger(p, n)
  <2>1. PICK a \in j.unproven :
          /\ SetJob(p, n, [j EXCEPT !.unproven = @ \ {a}])
          /\ IF a = j.at
             THEN UNCHANGED <<strangers, path>>
             ELSE /\ strangers' = strangers \cup {<<n, a>>}
                  /\ path' = DropPath(path, n, a)
    BY <1>16 DEF PollDropsStranger, j
  <2> DEFINE k == [j EXCEPT !.unproven = @ \ {a}]
  <2>2. j.pc = "probe" /\ UNCHANGED <<row, pin, used>>
    BY <1>16 DEF PollDropsStranger, j
  <2>3. k \in Jobs /\ k.pc = j.pc /\ Narrows(j, k)
    BY <1>1 DEF Jobs, Narrows
  <2>4. SetJob(p, n, k)
    BY <2>1
  <2> HIDE DEF k
  <2>5. JobInv(k)
    BY <1>1, <2>2, <2>3, NarrowsInv DEF JobAt
  <2>6. a \in Addrs
    BY <1>1 DEF Jobs
  <2>7. strangers' \subseteq Peers \X Addrs
    BY <2>1, <2>6 DEF TypeOK
  <2>8. path' \in PathTable /\ PathStep
    BY <1>1, <2>1, TableStep, SamePath
  <2> QED
    BY <1>1, <1>7, <2>2, <2>3, <2>4, <2>5, <2>7, <2>8 DEF TypeOK
<1>17. CASE PollHealthy(p, n)
  <2> DEFINE k == [NoJob EXCEPT !.pc = "done", !.verified = TRUE, !.at = j.at]
  <2>1. /\ row' = MarkHealthy(row, n) /\ SetJob(p, n, k)
        /\ UNCHANGED <<path, pin, strangers, used>>
    BY <1>17 DEF PollHealthy, memory, j
  <2>2. k \in Jobs /\ JobInv(k)
    BY <1>1, DoneJob
  <2> HIDE DEF k
  <2>3. row' \in RowTable
    BY <1>1, <2>1, MarkHealthyType
  <2> QED
    BY <1>1, <1>7, <2>1, <2>2, <2>3, SamePath DEF TypeOK
<1> QED
  BY <1>8, <1>9, <1>10, <1>11, <1>12, <1>13, <1>14, <1>15, <1>16, <1>17 DEF JobStep

-----------------------------------------------------------------------------
(* Steps of a poll. *)

\* Sightings on the LAN, a gossiped LAN address, age and pruning add no path
\* of a forwarder.
LEMMA KeptByKind ==
    ASSUME NEW new, path \in PathTable, new \in PathTable, Weaker(path, new),
           \A m \in Nodes, b \in Fwd :
              new[m][b] = path[m][b] \/ new[m][b] = NoPath \/ new[m][b].kind = path[m][b].kind,
           path' = new
    PROVE  path' \in PathTable /\ PathStep
<1>1. ~IsPath(NoPath)
  BY DEF IsPath, NoPath
<1>2. Kept(path, new)
  BY <1>1 DEF Kept, IsPath
<1> QED
  BY <1>2 DEF PathStep

\* What a step of a poll leaves alone.
PollFrame ==
    UNCHANGED <<pending, pathGen, removedAt, strangers, links, lives, signed>>

\* Discovery adds candidates only.
LEMMA StartPollPaths ==
    ASSUME TypeOK, NEW heard \in SUBSET Peers,
           row' = [n \in Nodes |-> IF n \in heard THEN SeeRow(row, n)[n] ELSE row[n]],
           path' = [n \in Nodes |-> [a \in Addrs |->
                IF n \in heard /\ a \in Lan /\ lives[a] = n
                THEN Seen(path[n][a], "lan") ELSE path[n][a]]]
    PROVE  row' \in RowTable /\ path' \in PathTable /\ PathStep
<1>1. \A n \in Nodes : row[n] \in Rows /\ SeeRow(row, n) \in [Nodes -> Rows]
  BY SeeRowType DEF TypeOK, RowTable
<1>2. row' \in RowTable
  BY <1>1 DEF RowTable
<1>3. path \in PathTable /\ \A n \in Nodes : \A a \in Addrs : path[n][a] \in Paths
  BY DEF TypeOK, PathTable
<1>4. \A n \in Nodes : \A a \in Addrs :
        /\ Seen(path[n][a], "lan") \in Paths
        /\ Seen(path[n][a], "lan").ok = path[n][a].ok
        /\ Seen(path[n][a], "lan").active = path[n][a].active
  BY <1>3, SeenPath DEF Kinds
<1> DEFINE new == [n \in Nodes |-> [a \in Addrs |->
                IF n \in heard /\ a \in Lan /\ lives[a] = n
                THEN Seen(path[n][a], "lan") ELSE path[n][a]]]
<1>5. new \in PathTable
  BY <1>3, <1>4 DEF PathTable
<1>6. Weaker(path, new)
  BY <1>4, <1>5 DEF Weaker
<1>7. \A m \in Nodes, b \in Fwd : new[m][b] = path[m][b]
  BY DirectoryAssumption
<1> HIDE DEF new
<1>8. path' = new
  BY DEF new
<1> QED
  BY <1>2, <1>3, <1>5, <1>6, <1>7, <1>8, KeptByKind

LEMMA PollStepType ==
    ASSUME TypeOK, DirInv, NEW p \in Polls, PollStep(p)
    PROVE  TypeOK' /\ PathStep /\ Calm /\ PollFrame /\ JobsStep /\ TriesStep
<1>1. /\ row \in RowTable /\ path \in PathTable /\ poll[p] \in PollStates /\ pathGen \in Nat
      /\ poll \in [Polls -> PollStates] /\ PollInv /\ tries \subseteq TryStates
      /\ asked \in BOOLEAN /\ known \in [Peers -> Nat] /\ used \subseteq Events
  BY DEF DirInv, TypeOK, RowTable, PathTable
<1>2. PollStep(p) => PollFrame
  BY DEF PollStep, StartPoll, UpsertSelf, RetryPending, ListNodes, Publish, Learn, LearnSees,
         GossipOver, PruneStale, PollFrame, table, memory, world
<1>3. PollFrame
  BY <1>2
\* The rest of the goal, for a step that leaves the tries alone.
<1>4. ASSUME row' \in RowTable, path' \in PathTable, PathStep, pin' = pin,
             poll' \in [Polls -> PollStates], JobsStep, asked' \in BOOLEAN,
             known' \in [Peers -> Nat], used' \subseteq Events,
             tries' \subseteq TryStates, TriesStep
      PROVE  TypeOK' /\ PathStep /\ Calm /\ PollFrame /\ JobsStep /\ TriesStep
  BY <1>3, <1>4, SameLinks DEF TypeOK, PollFrame, RowTable, PathTable
<1>5. tries' = tries => TriesStep
  BY <1>1 DEF TriesStep
<1>6. ASSUME NEW s \in Stages, Stage(p, s)
      PROVE  poll' \in [Polls -> PollStates] /\ JobsStep
  BY <1>1, <1>6, StageJobs, SameJobsStep
<1>7. ASSUME NEW st \in PollStates, SetPoll(p, st),
             \A m \in Peers : \E j \in Jobs : st.job[m] = j /\ JobInv(j)
      PROVE  poll' \in [Polls -> PollStates] /\ JobsStep
  <2>1. /\ poll' \in [Polls -> PollStates]
        /\ \A q \in Polls : poll'[q] = IF q = p THEN st ELSE poll[q]
    BY <1>1, <1>7, SetPollJobs
  <2>2. \A q \in Polls, m \in Peers : poll[q].job[m] \in Jobs /\ JobInv(poll[q].job[m])
    BY <1>1, PollFields DEF PollInv
  <2> QED
    BY <1>7, <2>1, <2>2 DEF JobsStep
<1>8. JobInv(NoJob)
  BY <1>1, DirectoryAssumption DEF JobInv, NoJob
<1>9. \A m \in Peers : \E j \in Jobs : IdlePoll.job[m] = j /\ JobInv(j)
  BY <1>8, NoJobType DEF IdlePoll
<1>10. \A m \in Peers : poll[p].job[m] \in Jobs /\ JobInv(poll[p].job[m])
  BY <1>1, PollFields DEF PollInv
<1>11. CASE StartPoll(p)
  <2>1. /\ asked' = (asked /\ p = Ticker) /\ Stage(p, "self")
        /\ UNCHANGED <<pin, known, tries>>
    BY <1>11 DEF StartPoll, memory
  <2>2. PICK heard \in SUBSET OnLan :
          /\ \/ heard = OnLan /\ UNCHANGED used
             \/ heard # OnLan /\ Event("lost")
          /\ row' = [n \in Nodes |-> IF n \in heard THEN SeeRow(row, n)[n] ELSE row[n]]
          /\ path' = [n \in Nodes |-> [a \in Addrs |->
                IF n \in heard /\ a \in Lan /\ lives[a] = n
                THEN Seen(path[n][a], "lan") ELSE path[n][a]]]
    BY <1>11 DEF StartPoll
  <2>3. heard \in SUBSET Peers
    BY DEF OnLan
  <2>4. row' \in RowTable /\ path' \in PathTable /\ PathStep
    BY <2>2, <2>3, StartPollPaths
  <2>5. used' \subseteq Events
    BY <2>2, EventType DEF TypeOK
  <2>6. poll' \in [Polls -> PollStates] /\ JobsStep
    BY <1>6, <2>1 DEF Stages
  <2> QED
    BY <1>1, <1>4, <1>5, <2>1, <2>4, <2>5, <2>6
<1>12. CASE UpsertSelf(p)
  <2>1. PICK a \in Lan : path' = PathOK(path, Self, "self", a)
    BY <1>12 DEF UpsertSelf
  <2>2. /\ row' = MarkHealthy(VerifyRow(row, Self), Self) /\ Stage(p, "pending")
        /\ UNCHANGED <<pin, known, tries, asked, used>>
    BY <1>12 DEF UpsertSelf, memory, world
  <2>3. Self \in Nodes /\ "self" \in Kinds /\ a \in Addrs /\ a \notin Fwd
    BY DirectoryAssumption DEF Kinds
  <2>4. path' \in PathTable /\ PathStep
    BY <1>1, <2>1, <2>3, PathOKEntries DEF PathStep
  <2>5. row' \in RowTable
    BY <1>1, <2>2, <2>3, VerifyRowType, MarkHealthyType
  <2>6. poll' \in [Polls -> PollStates] /\ JobsStep
    BY <1>6, <2>2 DEF Stages
  <2> QED
    BY <1>1, <1>4, <1>5, <2>2, <2>4, <2>5, <2>6
<1>13. CASE RetryPending(p)
  <2>1. /\ tries' = tries \cup {NewTry(p, f, 0) : f \in pending} /\ Stage(p, "retry")
        /\ UNCHANGED <<row, path, pin, known, asked, used>>
    BY <1>13 DEF RetryPending, table, memory, world
  <2>2. \A f \in pending : f \in Fwd /\ ~Gone(f)
    BY DEF TypeOK, DirInv, GoneInv
  <2>9. 0 \in 0..RetrySoon
    BY DirectoryAssumption
  <2>3. \A f \in pending : NewTry(p, f, 0) \in TryStates
    BY <1>1, <2>2, <2>9, NewTryType
  <2>4. \A f \in pending : /\ NewTry(p, f, 0).addr = f /\ NewTry(p, f, 0).since = pathGen
                           /\ NewTry(p, f, 0).pc = "probe"
    BY DEF NewTry
  <2>5. Calm
    BY <1>3, SameLinks DEF PollFrame
  <2>6. \A f \in Fwd : ~Gone(f) => ~Gone(f)'
    BY <2>5 DEF Calm
  <2>7. tries' \subseteq TryStates /\ TriesStep
    BY <1>1, <2>1, <2>2, <2>3, <2>4, <2>6 DEF TriesStep
  <2>8. poll' \in [Polls -> PollStates] /\ JobsStep
    BY <1>6, <2>1 DEF Stages
  <2> QED
    BY <1>1, <1>4, <2>1, <2>7, <2>8, SamePath
<1>14. CASE ListNodes(p)
  <2>1. PICK at \in [Peers -> Addrs \cup {Nobody}] :
          SetPoll(p, [poll[p] EXCEPT !.stage = "check", !.job =
                [n \in Peers |-> IF row[n] = NoRow THEN NoJob
                                 ELSE [NoJob EXCEPT !.pc = "since", !.at = at[n]]]])
    BY <1>14 DEF ListNodes
  <2> DEFINE js == [n \in Peers |-> IF row[n] = NoRow THEN NoJob
                                 ELSE [NoJob EXCEPT !.pc = "since", !.at = at[n]]]
             st == [poll[p] EXCEPT !.stage = "check", !.job = js]
  <2>2. \A n \in Peers : LET k == [NoJob EXCEPT !.pc = "since", !.at = at[n]]
                         IN k \in Jobs /\ JobInv(k)
    <3> SUFFICES ASSUME NEW n \in Peers, NEW k, k = [NoJob EXCEPT !.pc = "since", !.at = at[n]]
                 PROVE  k \in Jobs /\ JobInv(k)
      OBVIOUS
    <3>1. k \in Jobs
      BY NoJobType DEF Jobs
    <3>2. k.pc = "since" /\ k.since = 0 /\ k.todo = {} /\ k.cur = Nobody
      BY DEF NoJob
    <3> QED
      BY <1>1, <3>1, <3>2, DirectoryAssumption DEF JobInv
  <2>3. js \in [Peers -> Jobs] /\ \A n \in Peers : js[n] \in Jobs /\ JobInv(js[n])
    BY <1>8, <2>2, NoJobType
  <2> HIDE DEF js
  <2>4. st \in PollStates /\ st.job = js
    BY ZenonT(60), <1>1, <2>3, PollFields DEF PollStates
  <2>5. SetPoll(p, st)
    BY <2>1 DEF js
  <2> HIDE DEF st
  <2>6. poll' \in [Polls -> PollStates] /\ JobsStep
    BY <1>7, <2>3, <2>4, <2>5
  <2>7. UNCHANGED <<row, path, pin, known, tries, asked, used>>
    BY <1>14 DEF ListNodes, table, memory, world
  <2> QED
    BY <1>1, <1>4, <1>5, <2>6, <2>7, SamePath
<1>15. CASE Publish(p)
  <2>1. PICK f \in Finals(p) : SetPoll(p, [IdlePoll EXCEPT !.stage = "gossip", !.healths = f])
    BY <1>15 DEF Publish
  <2> DEFINE st == [IdlePoll EXCEPT !.stage = "gossip", !.healths = f]
  <2>2. st \in PollStates /\ st.job = IdlePoll.job
    BY IdlePollType DEF Finals, IdlePoll
  <2> HIDE DEF st
  <2>3. poll' \in [Polls -> PollStates] /\ JobsStep
    BY <1>7, <1>9, <2>1, <2>2 DEF st
  <2>4. UNCHANGED <<row, path, pin, known, tries, asked, used>>
    BY <1>15 DEF Publish, table, memory, world
  <2> QED
    BY <1>1, <1>4, <1>5, <2>3, <2>4, SamePath
<1>16. CASE Learn(p)
  <2>0. PICK n \in Peers : \E s \in DOMAIN signed[n] :
          /\ known' = [known EXCEPT ![n] = s]
          /\ SetPoll(p, [poll[p] EXCEPT !.learn = {<<n, a>> : a \in signed[n][s]} \ strangers])
    BY <1>16 DEF Learn
  <2>1. PICK s \in DOMAIN signed[n] :
          /\ known' = [known EXCEPT ![n] = s]
          /\ SetPoll(p, [poll[p] EXCEPT !.learn = {<<n, a>> : a \in signed[n][s]} \ strangers])
    BY <2>0
  <2> DEFINE learnt == {<<n, a>> : a \in signed[n][s]} \ strangers
             st == [poll[p] EXCEPT !.learn = learnt]
  <2>2. s \in Nat /\ signed[n][s] \subseteq Lan
    BY <2>1 DEF TypeOK
  <2>3. learnt \in SUBSET (Peers \X Lan)
    BY <2>1, <2>2
  <2> HIDE DEF learnt
  <2>4. st \in PollStates /\ st.job = poll[p].job
    BY ZenonT(60), <1>1, <2>3, PollFields DEF PollStates
  <2>5. SetPoll(p, st)
    BY <2>1 DEF learnt
  <2> HIDE DEF st
  <2>6. poll' \in [Polls -> PollStates] /\ JobsStep
    BY <1>7, <1>10, <2>4, <2>5
  <2>7. known' \in [Peers -> Nat]
    BY <1>1, <2>1, <2>2
  <2>8. UNCHANGED <<row, path, pin, tries, asked, used>>
    BY <1>16 DEF Learn, table, world
  <2> QED
    BY <1>1, <1>4, <1>5, <2>6, <2>7, <2>8, SamePath
<1>17. CASE LearnSees(p)
  <2>1. PICK c \in poll[p].learn :
          /\ row' = SeeRow(row, c[1])
          /\ path' = SeePath(path, c[1], "gossip", c[2])
          /\ SetPoll(p, [poll[p] EXCEPT !.learn = @ \ {c}])
    BY <1>17 DEF LearnSees
  <2>2. /\ c[1] \in Nodes /\ c[2] \in Addrs /\ c[2] \notin Fwd /\ "gossip" \in Kinds
        /\ poll[p].learn \ {c} \in SUBSET (Peers \X Lan)
    BY <1>1, <2>1, PollFields, DirectoryAssumption DEF Peers, Kinds
  <2> DEFINE st == [poll[p] EXCEPT !.learn = @ \ {c}]
  <2>3. st \in PollStates /\ st.job = poll[p].job
    BY ZenonT(60), <1>1, <2>2, PollFields DEF PollStates
  <2>4. SetPoll(p, st)
    BY <2>1
  <2> HIDE DEF st
  <2>5. poll' \in [Polls -> PollStates] /\ JobsStep
    BY <1>7, <1>10, <2>3, <2>4
  <2>6. row' \in RowTable
    BY <1>1, <2>1, <2>2, SeeRowType
  <2>7. path' \in PathTable /\ PathStep
    <3>1. Weaker(path, path') /\ path' \in PathTable
      BY <1>1, <2>1, <2>2, SeePathWeaker DEF Weaker
    <3>2. \A m \in Nodes, b \in Fwd : path'[m][b] = path[m][b]
      BY <1>1, <2>1, <2>2, DirectoryAssumption DEF SeePath, PathTable
    <3> QED
      BY <1>1, <3>1, <3>2, KeptByKind
  <2>8. UNCHANGED <<pin, known, tries, asked, used>>
    BY <1>17 DEF LearnSees, memory, world
  <2> QED
    BY <1>1, <1>4, <1>5, <2>5, <2>6, <2>7, <2>8
<1>18. CASE GossipOver(p)
  <2>1. SetPoll(p, [IdlePoll EXCEPT !.stage = "prune"])
        /\ UNCHANGED <<row, path, pin, known, tries, asked, used>>
    BY <1>18 DEF GossipOver, table, memory, world
  <2> DEFINE st == [IdlePoll EXCEPT !.stage = "prune"]
  <2>2. st \in PollStates /\ st.job = IdlePoll.job
    BY IdlePollType DEF IdlePoll
  <2> HIDE DEF st
  <2>3. poll' \in [Polls -> PollStates] /\ JobsStep
    BY <1>7, <1>9, <2>1, <2>2 DEF st
  <2> QED
    BY <1>1, <1>4, <1>5, <2>1, <2>3, SamePath
<1>19. CASE PruneStale(p)
  <2>1. row' = PruneRows(row, path) /\ path' = PrunePaths(row, path) /\ Stage(p, "idle")
        /\ UNCHANGED <<pin, known, tries, asked, used>>
    BY <1>19 DEF PruneStale, memory, world
  <2>2. row' \in RowTable
    BY <1>1, <2>1, PruneRowsType
  <2>3. path' \in PathTable /\ PathStep
    <3>1. Weaker(path, path') /\ path' \in PathTable
      BY <1>1, <2>1, PrunePathsWeaker DEF Weaker
    <3>2. \A m \in Nodes, b \in Fwd : path'[m][b] = path[m][b] \/ path'[m][b] = NoPath
      BY <2>1, DirectoryAssumption DEF PrunePaths
    <3> QED
      BY <1>1, <3>1, <3>2, KeptByKind
  <2>4. poll' \in [Polls -> PollStates] /\ JobsStep
    BY <1>6, <2>1 DEF Stages
  <2> QED
    BY <1>1, <1>4, <1>5, <2>1, <2>2, <2>3, <2>4
<1> QED
  BY <1>11, <1>12, <1>13, <1>14, <1>15, <1>16, <1>17, <1>18, <1>19 DEF PollStep

-----------------------------------------------------------------------------
(* Steps of the world. *)

\* Age changes neither what a path is nor whether it is verified or active.
LEMMA TickStep ==
    ASSUME TypeOK, NEW d \in 1..MaxAge, Tick(d)
    PROVE  row' \in RowTable /\ path' \in PathTable /\ PathStep
<1>1. row' \in RowTable
  BY AgeTypes DEF Tick, TypeOK, RowTable
<1>2. path \in PathTable /\ \A n \in Nodes : \A a \in Addrs : path[n][a] \in Paths
  BY DEF TypeOK, PathTable
<1> DEFINE new == [n \in Nodes |-> [a \in Addrs |-> AgePath(path[n][a], d)]]
<1>3. path' = new
  BY DEF Tick
<1>4. \A n \in Nodes : \A a \in Addrs :
        /\ new[n][a] \in Paths /\ new[n][a].ok = path[n][a].ok
        /\ new[n][a].active = path[n][a].active /\ new[n][a].kind = path[n][a].kind
  BY <1>2, AgeTypes
<1>5. new \in PathTable
  BY <1>4 DEF PathTable
<1> HIDE DEF new
<1>6. Weaker(path, new)
  BY <1>4, <1>5 DEF Weaker
<1>7. \A m \in Nodes, b \in Fwd : new[m][b].kind = path[m][b].kind
  BY <1>4, DirectoryAssumption
<1> QED
  BY <1>1, <1>2, <1>3, <1>5, <1>6, <1>7, KeptByKind

LEMMA LinkUpStep ==
    ASSUME TypeOK, DirInv, NEW n \in Peers, NEW a \in Fwd, LinkUp(n, a)
    PROVE  /\ links' \subseteq LinkStates /\ tries' \subseteq TryStates
           /\ lives' \in [Addrs -> Nodes \cup {Nobody, Stranger}] /\ used' \subseteq Events
           /\ Calm /\ TriesStep /\ LivesInv'
<1> DEFINE l == [node |-> n, addr |-> a, joining |-> TRUE, open |-> TRUE]
           t == NewTry("add", a, RetrySoon)
<1>1. /\ links' = links \cup {l} /\ tries' = tries \cup {t}
      /\ lives' = [lives EXCEPT ![a] = n]
      /\ UNCHANGED <<pathGen, removedAt>>
  BY DEF LinkUp, memory
<1>2. l \in LinkStates /\ l.addr = a
  BY DEF LinkStates
<1>3. t.since = pathGen /\ t.addr = a /\ t.pc = "probe"
  BY DEF NewTry
<1>4. t \in TryStates
  BY NewTryType, DirectoryAssumption DEF TypeOK
<1> HIDE DEF l, t
<1>5. Calm /\ ~Gone(a)'
  BY <1>1, <1>2 DEF Calm, Gone
<1>6. TriesStep
  BY <1>1, <1>3, <1>4, <1>5 DEF TriesStep, TypeOK
<1>7. lives' \in [Addrs -> Nodes \cup {Nobody, Stranger}] /\ LivesInv'
  BY <1>1, DirectoryAssumption DEF TypeOK, DirInv, LivesInv, Peers
<1>8. used' \subseteq Events
  BY EventType DEF LinkUp, TypeOK
<1> QED
  BY <1>1, <1>2, <1>5, <1>6, <1>7, <1>8 DEF TypeOK, TriesStep

LEMMA LinkDownStep ==
    ASSUME TypeOK, DirInv, NEW l \in links, LinkDown(l)
    PROVE  /\ links' \subseteq LinkStates
           /\ lives' \in [Addrs -> Nodes \cup {Nobody, Stranger}]
           /\ Calm /\ LivesInv'
<1> DEFINE k == [l EXCEPT !.open = FALSE]
<1>1. /\ links' = (links \ {l}) \cup {k} /\ lives' = [lives EXCEPT ![l.addr] = Nobody]
      /\ UNCHANGED <<pathGen, removedAt>>
  BY DEF LinkDown, memory
<1>2. k \in LinkStates /\ k.addr = l.addr
  BY DEF TypeOK, LinkStates
<1> HIDE DEF k
<1>3. links' \subseteq LinkStates
  BY <1>1, <1>2 DEF TypeOK
<1>4. Calm
  BY <1>1, <1>2 DEF Calm, Gone
<1>5. lives' \in [Addrs -> Nodes \cup {Nobody, Stranger}] /\ LivesInv'
  BY <1>1, DirectoryAssumption DEF TypeOK, DirInv, LivesInv
<1> QED
  BY <1>3, <1>4, <1>5

LEMMA MoveStep ==
    ASSUME TypeOK, DirInv, NEW n \in Nodes, NEW a \in Lan, Move(n, a)
    PROVE  /\ lives' \in [Addrs -> Nodes \cup {Nobody, Stranger}] /\ LivesInv'
           /\ signed' \in [Peers -> Seq(SUBSET Lan) \ {<< >>}]
           /\ used' \subseteq Events
<1>1. lives' \in [Addrs -> Nodes \cup {Nobody, Stranger}] /\ LivesInv'
  BY DirectoryAssumption DEF Move, TypeOK, DirInv, LivesInv
<1>2. ASSUME NEW m \in Peers
      PROVE  /\ signed[m] \in Seq(SUBSET Lan) \ {<< >>}
             /\ Append(signed[m], signed[m][1] \cup {a}) \in Seq(SUBSET Lan) \ {<< >>}
  <2>1. signed[m] \in Seq(SUBSET Lan) /\ signed[m] # << >>
    BY DEF TypeOK
  <2>2. signed[m][1] \in SUBSET Lan
    BY <2>1
  <2> HIDE DEF Peers
  <2>3. signed[m][1] \cup {a} \in SUBSET Lan
    BY <2>2
  <2> QED
    BY <2>1, <2>3
<1>3. signed' \in [Peers -> Seq(SUBSET Lan) \ {<< >>}]
  BY <1>2 DEF Move
<1>4. used' \subseteq Events
  BY EventType DEF Move, TypeOK
<1> QED
  BY <1>1, <1>3, <1>4

\* What the world does short of RemovePeer and a restart.
WorldCalm ==
    \/ \E n \in Nodes, a \in Lan : Move(n, a)
    \/ \E a \in Lan, x \in {Nobody, Stranger} : Vacate(a, x)
    \/ \E n \in Peers, a \in Fwd : LinkUp(n, a)
    \/ \E l \in links : LinkDown(l)
    \/ \E d \in 1..MaxAge : Tick(d)

LEMMA WorldCalmType ==
    ASSUME TypeOK, DirInv, WorldCalm
    PROVE  /\ TypeOK' /\ PathStep /\ Calm /\ TriesStep /\ LivesInv'
           /\ UNCHANGED <<poll, pending>>
<1>1. path \in PathTable /\ row \in RowTable /\ LivesInv
  BY DEF TypeOK, PathTable, RowTable, DirInv
<1>2. tries' = tries => TriesStep
  BY DEF TriesStep, TypeOK
<1>3. ASSUME NEW n \in Nodes, NEW a \in Lan, Move(n, a)
      PROVE  /\ TypeOK' /\ PathStep /\ Calm /\ TriesStep /\ LivesInv'
             /\ UNCHANGED <<poll, pending>>
  <2>1. UNCHANGED <<row, path, pin, pending, pathGen, removedAt, strangers, known, tries, poll,
                    asked, links>>
    BY <1>3 DEF Move, table, memory
  <2> QED
    BY <1>1, <1>2, <1>3, <2>1, MoveStep, SamePath, SameLinks DEF TypeOK
<1>4. ASSUME NEW a \in Lan, NEW x \in {Nobody, Stranger}, Vacate(a, x)
      PROVE  /\ TypeOK' /\ PathStep /\ Calm /\ TriesStep /\ LivesInv'
             /\ UNCHANGED <<poll, pending>>
  <2>1. UNCHANGED <<row, path, pin, pending, pathGen, removedAt, strangers, known, tries, poll,
                    asked, links, signed>>
    BY <1>4 DEF Vacate, table, memory
  <2>2. lives' \in [Addrs -> Nodes \cup {Nobody, Stranger}] /\ LivesInv'
    BY <1>1, <1>4, DirectoryAssumption DEF Vacate, TypeOK, LivesInv
  <2>3. used' \subseteq Events
    BY <1>4, EventType DEF Vacate, TypeOK
  <2> QED
    BY <1>1, <1>2, <2>1, <2>2, <2>3, SamePath, SameLinks DEF TypeOK
<1>5. ASSUME NEW n \in Peers, NEW a \in Fwd, LinkUp(n, a)
      PROVE  /\ TypeOK' /\ PathStep /\ Calm /\ TriesStep /\ LivesInv'
             /\ UNCHANGED <<poll, pending>>
  <2>1. UNCHANGED <<row, path, pin, pending, pathGen, removedAt, strangers, known, poll,
                    asked, signed>>
    BY <1>5 DEF LinkUp, table, memory
  <2> QED
    BY <1>1, <1>5, <2>1, LinkUpStep, SamePath DEF TypeOK
<1>6. ASSUME NEW l \in links, LinkDown(l)
      PROVE  /\ TypeOK' /\ PathStep /\ Calm /\ TriesStep /\ LivesInv'
             /\ UNCHANGED <<poll, pending>>
  <2>1. UNCHANGED <<row, path, pin, pending, pathGen, removedAt, strangers, known, tries, poll,
                    asked, signed, used>>
    BY <1>6 DEF LinkDown, table, memory
  <2> QED
    BY <1>1, <1>2, <1>6, <2>1, LinkDownStep, SamePath DEF TypeOK
<1>7. ASSUME NEW d \in 1..MaxAge, Tick(d)
      PROVE  /\ TypeOK' /\ PathStep /\ Calm /\ TriesStep /\ LivesInv'
             /\ UNCHANGED <<poll, pending>>
  <2>1. UNCHANGED <<pin, pending, pathGen, removedAt, strangers, known, tries, poll,
                    asked, links, lives, signed>>
    BY <1>7 DEF Tick, memory, world
  <2>2. row' \in RowTable /\ path' \in PathTable /\ PathStep
    BY <1>7, TickStep
  <2>3. used' \subseteq Events
    BY <1>7, EventType DEF Tick, TypeOK
  <2>4. LivesInv'
    BY <1>1, <2>1 DEF LivesInv
  <2> QED
    BY <1>2, <2>1, <2>2, <2>3, <2>4, SameLinks DEF TypeOK, RowTable, PathTable
<1> QED
  BY <1>3, <1>4, <1>5, <1>6, <1>7 DEF WorldCalm

\* RemovePeer: every try and every poll in progress read its generation
\* before, so what it adds the forwarder's removal to stays without it.
LEMMA RemovePeerStep ==
    ASSUME TypeOK, DirInv, NEW l \in links, RemovePeer(l)
    PROVE  TypeOK' /\ Weaker(path, path') /\ DirInv'
<1>1. /\ links' = links \ {l} /\ pathGen' = pathGen + 1
      /\ removedAt' = [removedAt EXCEPT ![l.addr] = pathGen + 1]
      /\ pending' = pending \ {l.addr}
      /\ path' = [n \in Nodes |-> [path[n] EXCEPT ![l.addr] = NoPath]]
      /\ pin' = [pin EXCEPT ![l.addr] = Nobody]
      /\ UNCHANGED <<row, strangers, known, tries, poll, asked, lives, signed, used>>
  BY DEF RemovePeer
<1>2. /\ l.addr \in Fwd /\ l.addr \in Addrs /\ pathGen \in Nat
      /\ removedAt \in [Addrs -> Nat] /\ path \in PathTable
  BY DirectoryAssumption DEF TypeOK, LinkStates, PathTable
<1>3. path' \in PathTable /\ Weaker(path, path')
  <2>1. \A n \in Nodes : \A a \in Addrs : path'[n][a] = IF a = l.addr THEN NoPath ELSE path[n][a]
    BY <1>1, <1>2 DEF PathTable
  <2>2. path' \in PathTable
    BY <1>1, <1>2, EmptyTypes DEF PathTable
  <2> QED
    BY <2>1, <2>2 DEF Weaker
<1>4. removedAt' \in [Addrs -> Nat] /\ pathGen' \in Nat
  BY <1>1, <1>2
<1>5. TypeOK'
  BY <1>1, <1>3, <1>4 DEF TypeOK, PathTable
<1>6. \A a \in Fwd : a # l.addr => removedAt'[a] = removedAt[a] /\ (Gone(a)' => Gone(a))
  BY <1>1, <1>2, DirectoryAssumption DEF Gone
<1>7. removedAt'[l.addr] = pathGen + 1
  BY <1>1, <1>2
<1>8. GenInv'
  BY <1>1, <1>2 DEF DirInv, GenInv
<1>9. LivesInv'
  BY <1>1 DEF DirInv, LivesInv
<1>10. TryInv'
  <2> SUFFICES ASSUME NEW t \in tries
               PROVE  /\ t.since <= pathGen'
                      /\ t.pc = "record" => t.ans \in Peers \cup {"fail"}
                      /\ Gone(t.addr)' => t.since < removedAt'[t.addr]
    BY <1>1 DEF TryInv
  <2>1. t.since \in Nat /\ t.addr \in Fwd
    BY DEF TypeOK, TryStates
  <2>2. t.since <= pathGen /\ (Gone(t.addr) => t.since < removedAt[t.addr])
    BY DEF DirInv, TryInv
  <2>3. t.pc = "record" => t.ans \in Peers \cup {"fail"}
    BY DEF DirInv, TryInv
  <2> QED
    BY <1>1, <1>2, <1>6, <1>7, <2>1, <2>2, <2>3
<1>11. PollInv'
  <2> SUFFICES ASSUME NEW p \in Polls, NEW n \in Peers
               PROVE  JobInv(poll[p].job[n])'
    BY DEF PollInv
  <2> DEFINE j == poll[p].job[n]
  <2>1. j \in Jobs /\ JobInv(j)
    BY PollFields DEF TypeOK, DirInv, PollInv
  <2>2. j' = j
    BY <1>1
  <2>3. j.since \in Nat
    BY <2>1 DEF Jobs
  <2> HIDE DEF j
  <2>4. JobAt(j) /\ j.since <= pathGen
    BY <2>1 DEF JobInv, JobAt
  <2>5. j.since <= pathGen'
    BY <1>1, <1>2, <2>3, <2>4
  <2>6. ASSUME NEW a \in Fwd, Gone(a)', j.cur = a \/ \E c \in j.todo : c.addr = a
        PROVE  j.since < removedAt'[a]
    <3>1. CASE a = l.addr
      BY <1>2, <1>7, <2>3, <2>4, <3>1
    <3>2. CASE a # l.addr
      BY <1>6, <2>1, <2>6, <3>2 DEF JobInv
    <3> QED
      BY <3>1, <3>2
  <2>7. JobInv(j)'
    BY <2>2, <2>4, <2>5, <2>6 DEF JobInv, JobAt
  <2> QED
    BY <2>7 DEF j
<1>12. GoneInv'
  <2> SUFFICES ASSUME NEW a \in Fwd, Gone(a)'
               PROVE  a \notin pending' /\ \A n \in Nodes : ~IsPath(path'[n][a])
    BY DEF GoneInv
  <2>1. \A n \in Nodes : path'[n][a] = IF a = l.addr THEN NoPath ELSE path[n][a]
    BY <1>1, <1>2, DirectoryAssumption DEF PathTable
  <2>2. CASE a = l.addr
    BY <1>1, <2>1, <2>2 DEF IsPath, NoPath
  <2>3. CASE a # l.addr
    BY <1>1, <1>6, <2>1, <2>3 DEF DirInv, GoneInv
  <2> QED
    BY <2>2, <2>3
<1> QED
  BY <1>3, <1>5, <1>8, <1>9, <1>10, <1>11, <1>12 DEF DirInv

LEMMA RestartStep ==
    ASSUME TypeOK, DirInv, Restart
    PROVE  TypeOK' /\ path' = path /\ DirInv'
<1>1. /\ pending' = {} /\ pathGen' = 0 /\ removedAt' = [a \in Addrs |-> 0]
      /\ strangers' = {} /\ known' = [n \in Peers |-> 0]
      /\ tries' = {} /\ links' = {} /\ asked' = FALSE
      /\ poll' = [p \in Polls |-> IdlePoll]
      /\ lives' = [a \in Addrs |-> IF a \in Fwd THEN Nobody ELSE lives[a]]
      /\ UNCHANGED <<row, path, pin, signed>>
  BY DEF Restart, table
<1>2. used' \subseteq Events
  BY EventType DEF Restart, TypeOK
<1>3. TypeOK'
  BY <1>1, <1>2, IdlePollType DEF TypeOK
<1>4. LivesInv'
  BY <1>1, DirectoryAssumption DEF LivesInv
<1>5. GenInv' /\ TryInv' /\ GoneInv'
  BY <1>1, DirectoryAssumption DEF GenInv, TryInv, GoneInv, Gone
<1>6. PollInv'
  <2>1. \A p \in Polls, n \in Peers : poll'[p].job[n] = NoJob
    BY <1>1 DEF IdlePoll
  <2>2. JobInv(NoJob)'
    BY <1>1, DirectoryAssumption DEF JobInv, NoJob
  <2> QED
    BY <2>1, <2>2 DEF PollInv, JobInv
<1> QED
  BY <1>1, <1>3, <1>4, <1>5, <1>6 DEF DirInv

-----------------------------------------------------------------------------
(* The invariant holds, and what follows from it. *)

LEMMA PathStepOwned ==
    ASSUME path \in PathTable, Owned(path), PathStep
    PROVE  Owned(path')
BY WeakerOwned, PathOKOwned DEF PathStep

\* A calm step keeps the part of the invariant about what is gone.
LEMMA CalmStep ==
    ASSUME TypeOK, DirInv, Calm, PathStep, TriesStep, JobsStep, LivesInv',
           pending' \subseteq pending \cup {f \in Fwd : ~Gone(f)}
    PROVE  DirInv'
<1>1. GenInv'
  BY DEF DirInv, GenInv, Calm
<1>2. TryInv' /\ PollInv'
  BY TryInvStep, PollInvStep DEF DirInv
<1>3. ASSUME NEW f \in Fwd, Gone(f)', NEW n \in Nodes
      PROVE  f \notin pending' /\ ~IsPath(path'[n][f])
  <2>1. Gone(f) /\ f \notin pending /\ \A m \in Nodes : ~IsPath(path[m][f])
    BY <1>3 DEF Calm, DirInv, GoneInv
  <2>2. f \notin pending'
    BY <2>1
  <2>3. CASE Kept(path, path')
    BY <2>1, <2>2, <2>3 DEF Kept
  <2>4. ASSUME NEW m \in Nodes, NEW k \in Kinds, NEW a \in Addrs,
               path' = PathOK(path, m, k, a), ~(a \in Fwd /\ Gone(a))
        PROVE  ~IsPath(path'[n][f])
    <3>1. f # a /\ f \in Addrs /\ path \in PathTable
      BY <2>1, <2>4, DirectoryAssumption DEF TypeOK, PathTable
    <3>2. path[n][f] \in Paths /\ ~IsPath(path[n][f])
      BY <2>1, <3>1 DEF PathTable
    <3>3. \E promote \in BOOLEAN : \/ path'[n][f] = NoPath
                                  \/ path'[n][f] = path[n][f]
                                  \/ path'[n][f] = Demoted(path[n][f], promote)
      BY <2>4, <3>1, PathOKEntries
    <3> QED
      BY <3>2, <3>3 DEF IsPath, NoPath, Demoted, Paths
  <2> QED
    BY <2>2, <2>3, <2>4 DEF PathStep
<1>4. GoneInv'
  <2>1. Self \in Nodes
    BY DirectoryAssumption
  <2> QED
    BY <1>3, <2>1 DEF GoneInv
<1> QED
  BY <1>1, <1>2, <1>4 DEF DirInv

IndInv == TypeOK /\ DirInv /\ Owned(path)

LEMMA DirectoryInit == Init => IndInv
<1> SUFFICES ASSUME Init
             PROVE  IndInv
  OBVIOUS
<1>1. /\ lives \in [Addrs -> Nodes \cup {Nobody, Stranger}]
      /\ \A a \in Fwd : lives[a] = Nobody
  BY DEF Init
<1>2. signed \in [Peers -> Seq(SUBSET Lan) \ {<< >>}]
  <2>1. \A n \in Peers : {a \in Lan : lives[a] = n} \in SUBSET Lan
    OBVIOUS
  <2>2. \A S \in SUBSET Lan : <<S>> \in Seq(SUBSET Lan) \ {<< >>}
    OBVIOUS
  <2> QED
    BY <2>1, <2>2 DEF Init
<1>3. TypeOK
  BY <1>1, <1>2, EmptyTypes, IdlePollType DEF Init, TypeOK
<1>4. GenInv /\ LivesInv /\ TryInv /\ GoneInv
  BY <1>1, DirectoryAssumption DEF Init, GenInv, LivesInv, TryInv, GoneInv, Gone
<1>5. PollInv
  <2>1. \A p \in Polls, n \in Peers : poll[p].job[n] = NoJob
    BY DEF Init, IdlePoll
  <2>2. JobInv(NoJob)
    BY DirectoryAssumption DEF Init, JobInv, NoJob
  <2> QED
    BY <2>1, <2>2 DEF PollInv
<1>6. Owned(path)
  BY DEF Init, Owned, NoPath
<1> QED
  BY <1>3, <1>4, <1>5, <1>6 DEF IndInv, DirInv

LEMMA DirectoryStep == IndInv /\ [Next]_vars => IndInv'
<1> SUFFICES ASSUME TypeOK, DirInv, Owned(path), [Next]_vars
             PROVE  IndInv'
  BY DEF IndInv
<1>1. path \in PathTable
  BY DEF TypeOK, PathTable
<1>2. ASSUME TypeOK', Calm, PathStep, TriesStep, JobsStep, LivesInv',
             pending' \subseteq pending \cup {f \in Fwd : ~Gone(f)}
      PROVE  IndInv'
  BY <1>1, <1>2, CalmStep, PathStepOwned DEF IndInv
<1>3. lives' = lives => LivesInv'
  BY DEF DirInv, LivesInv
<1>4. poll' = poll => JobsStep
  BY SameJobsStep DEF DirInv
<1>5. tries' = tries => TriesStep
  BY DEF TriesStep, TypeOK
<1>6. CASE TryStep
  <2>1. PICK t \in tries :
          \/ TryWake(t) \/ TryProbe(t) \/ AddPeerFails(t) \/ AddPeerAnswers(t)
          \/ TryFails(t) \/ TryAdopts(t) \/ TryUnpends(t)
    BY <1>6 DEF TryStep
  <2>2. /\ TypeOK' /\ PathStep /\ Calm /\ TryFrame /\ TriesStep
        /\ pending' \subseteq pending \cup {f \in Fwd : ~Gone(f)}
    BY <2>1, TryStepType
  <2> QED
    BY <1>2, <1>3, <1>4, <2>2 DEF TryFrame
<1>7. ASSUME NEW p \in Polls, PollStep(p)
      PROVE  IndInv'
  <2>1. TypeOK' /\ PathStep /\ Calm /\ PollFrame /\ JobsStep /\ TriesStep
    BY <1>7, PollStepType
  <2> QED
    BY <1>2, <1>3, <2>1 DEF PollFrame
<1>8. ASSUME NEW p \in Polls, NEW n \in Peers, JobStep(p, n)
      PROVE  IndInv'
  <2>1. TypeOK' /\ PathStep /\ Calm /\ JobFrame /\ JobsStep
    BY <1>8, JobStepType
  <2> QED
    BY <1>2, <1>3, <1>5, <2>1 DEF JobFrame
<1>9. CASE WorldCalm
  <2>1. TypeOK' /\ PathStep /\ Calm /\ TriesStep /\ LivesInv' /\ UNCHANGED <<poll, pending>>
    BY <1>9, WorldCalmType
  <2> QED
    BY <1>2, <1>4, <2>1
<1>10. ASSUME NEW l \in links, RemovePeer(l)
       PROVE  IndInv'
  BY <1>1, <1>10, RemovePeerStep, WeakerOwned DEF IndInv
<1>11. CASE Restart
  BY <1>11, RestartStep DEF IndInv
<1>12. CASE UNCHANGED vars
  <2>1. UNCHANGED <<row, path, pin, pending, pathGen, removedAt, strangers, known, tries, poll,
                    asked, links, lives, signed, used>>
    BY <1>12 DEF vars, table, memory, world
  <2>2. TypeOK'
    BY <2>1 DEF TypeOK
  <2> QED
    BY <1>1, <1>2, <1>3, <1>4, <1>5, <2>1, <2>2, SamePath, SameLinks
<1> QED
  BY <1>6, <1>7, <1>8, <1>9, <1>10, <1>11, <1>12 DEF Next, WorldStep, WorldCalm

\* Every state satisfies the invariant: the tables are tables, every address
\* that was verified has one owner, and what RemovePeer took away is on no
\* path, is not pending, and is known to every poll and every try in progress
\* only from before.
LEMMA DirectoryInvariant == Spec => []IndInv
BY DirectoryInit, DirectoryStep, PTL DEF Spec

\* Whatever polls, tries of forwarders, address changes, prunings and restarts
\* interleave, no two nodes hold the same address as verified, and a node has
\* one active path at most, a verified one (PathOK, store.go).
THEOREM DirectoryOneOwner == Spec => []OneOwner
<1>1. IndInv => OneOwner
  BY DEF IndInv, Owned, OneOwner, OneActiveVerified
<1> QED
  BY <1>1, DirectoryInvariant, PTL

\* A forwarder RemovePeer took away is neither pending nor any node's path
\* until its port is linked again, whatever probes were under way: the
\* generation check of verifyPath and adoptPath is enough.
THEOREM DirectoryRemovedStaysGone == Spec => []RemovedStaysGone
<1>1. IndInv => RemovedStaysGone
  BY DEF IndInv, DirInv, GoneInv, Gone, RemovedStaysGone
<1> QED
  BY <1>1, DirectoryInvariant, PTL

-----------------------------------------------------------------------------
(* The links between two ends.                                              *)

PunchType == SUBSET Ends
AttType == [pc: {"idle", "race", "dial", "hello"}, by: {"attempt", "meet"},
            kicked: BOOLEAN, conn: Conns \cup {NoConn}]
ConnType == [by: Ends, up: SUBSET Ends, why: {"open", "gone", "replaced"}]

\* Who uses connection c, in the attempts at, connections cs, acceptors ac and
\* links lk: the end that waits for its hello, the end that admits it, and an
\* end that has it for its link each have it open.
HelloFact(n, c, at, cs, lk) ==
  at[n].conn = c => cs[c].by = n /\ n \in cs[c].up /\ lk[n] # c
LinkFact(n, c, cs, ac, lk) ==
  lk[n] = c => n \in cs[c].up /\ (cs[c].by # n => ac[c] = "none")
AccFact(c, cs, ac) == ac[c] # "none" => Other(cs[c].by) \in cs[c].up

Used(n, c, at, cs, ac, lk) ==
  lk[n] = c \/ at[n].conn = c \/ (n = Other(cs[c].by) /\ ac[c] # "none")

\* One that nobody closed is open at both ends, and both use it.
OpenFact(c, at, cs, ac, lk) ==
  cs[c].why = "open" /\ cs[c].up # {} =>
    cs[c].up = Ends /\ \A n \in Ends : Used(n, c, at, cs, ac, lk)

ConnOK(c, at, cs, ac, lk) ==
    /\ \A n \in Ends : HelloFact(n, c, at, cs, lk) /\ LinkFact(n, c, cs, ac, lk)
    /\ AccFact(c, cs, ac)
    /\ OpenFact(c, at, cs, ac, lk)

AttFact(n, at) == at[n].conn = NoConn <=> at[n].pc # "hello"

LinkInv ==
    /\ LinkTypeOK
    /\ \A n \in Ends : AttFact(n, att)
    /\ \A c \in Conns : ConnOK(c, att, conns, acc, link)

\* A step that does not touch c, but for why it closes.
Alike(c, at, cs, ac, lk, at2, cs2, ac2, lk2) ==
    /\ \A n \in Ends : (at2[n].conn = c <=> at[n].conn = c) /\ (lk2[n] = c <=> lk[n] = c)
    /\ ac2[c] = "none" <=> ac[c] = "none"
    /\ cs2[c].by = cs[c].by /\ cs2[c].up = cs[c].up
    /\ cs2[c].why = "open" => cs[c].why = "open"

\* A step in which n is done with c.
Leaves(c, n, at, cs, ac, lk, at2, ac2, lk2) ==
    /\ n \in cs[c].up /\ at2[n].conn # c /\ lk2[n] # c
    /\ Other(cs[c].by) = n => ac2[c] = "none"
    /\ ac2[c] # "none" => ac[c] # "none"
    /\ \A m \in Ends \ {n} :
          (at2[m].conn = c => at[m].conn = c) /\ (lk2[m] = c => lk[m] = c)

LEMMA OtherIs ==
    ASSUME NEW n \in Ends
    PROVE  Other(n) \in Ends /\ Other(n) # n /\ \A m \in Ends : m # n <=> m = Other(n)
BY DEF Ends, Other

LEMMA ConnNames == DeadConn \notin Conns /\ NoConn \notin Conns /\ DeadConn # NoConn
BY LinkAssumption DEF Conns, NoConn, DeadConn

LEMMA ConnStays ==
    ASSUME NEW c, NEW at, NEW cs, NEW ac, NEW lk, NEW at2, NEW cs2, NEW ac2, NEW lk2,
           ConnOK(c, at, cs, ac, lk), Alike(c, at, cs, ac, lk, at2, cs2, ac2, lk2)
    PROVE  ConnOK(c, at2, cs2, ac2, lk2)
BY DEF ConnOK, Alike, HelloFact, LinkFact, AccFact, OpenFact, Used

\* CloseWithError.
LEMMA ClosedIs ==
    ASSUME NEW cs \in [Conns -> ConnType], NEW c \in Conns, NEW n \in Ends, n \in cs[c].up,
           NEW why \in {"gone", "replaced"}
    PROVE  /\ Closed(cs, c, n, why) \in [Conns -> ConnType]
           /\ \A d \in Conns \ {c} : Closed(cs, c, n, why)[d] = cs[d]
           /\ Closed(cs, c, n, why)[c].up = cs[c].up \ {n}
           /\ Closed(cs, c, n, why)[c].why = "open" => Closed(cs, c, n, why)[c].up = {}
           /\ Closed(cs, c, n, why)[c].up # {} => Closed(cs, c, n, why)[c].by = cs[c].by
<1> DEFINE y == LeftBy(cs[c], n, why)
<1>1. Closed(cs, c, n, why) = [cs EXCEPT ![c] = y]
  BY DEF Closed
<1>2. /\ y \in ConnType /\ y.up = cs[c].up \ {n} /\ (y.why = "open" => y.up = {})
      /\ (y.up # {} => y.by = cs[c].by)
  <2>1. cs[c] \in ConnType
    OBVIOUS
  <2>2. CASE cs[c].up \subseteq {n}
    BY <2>2 DEF LeftBy, Free, ConnType, Ends
  <2>3. CASE ~(cs[c].up \subseteq {n})
    BY <2>1, <2>3 DEF LeftBy, ConnType
  <2> QED
    BY <2>2, <2>3
<1> HIDE DEF y
<1> QED
  BY <1>1, <1>2

LEMMA ClosedOK ==
    ASSUME NEW cs \in [Conns -> ConnType], NEW c \in Conns, NEW n \in Ends,
           NEW why \in {"gone", "replaced"},
           NEW at, NEW ac, NEW lk, NEW at2, NEW ac2, NEW lk2,
           ConnOK(c, at, cs, ac, lk), Leaves(c, n, at, cs, ac, lk, at2, ac2, lk2)
    PROVE  ConnOK(c, at2, Closed(cs, c, n, why), ac2, lk2)
<1> DEFINE k == Closed(cs, c, n, why)
<1>1. n \in cs[c].up
  BY DEF Leaves
<1>2. /\ k[c].up = cs[c].up \ {n} /\ (k[c].why = "open" => k[c].up = {})
      /\ (k[c].up # {} => k[c].by = cs[c].by)
  BY <1>1, ClosedIs
<1> HIDE DEF k
<1>3. ASSUME NEW m \in Ends PROVE HelloFact(m, c, at2, k, lk2) /\ LinkFact(m, c, k, ac2, lk2)
  <2>1. HelloFact(m, c, at, cs, lk) /\ LinkFact(m, c, cs, ac, lk)
    BY DEF ConnOK
  <2> QED
    BY <1>2, <2>1 DEF Leaves, HelloFact, LinkFact
<1>4. AccFact(c, k, ac2)
  <2>1. AccFact(c, cs, ac)
    BY DEF ConnOK
  <2> QED
    BY <1>2, <2>1 DEF AccFact, Leaves
<1>5. OpenFact(c, at2, k, ac2, lk2)
  BY <1>2 DEF OpenFact
<1>6. ConnOK(c, at2, k, ac2, lk2)
  BY <1>3, <1>4, <1>5 DEF ConnOK
<1> QED
  BY <1>6 DEF k

-----------------------------------------------------------------------------
(* Steps that leave the connections alone.                                  *)

\* The attempts keep their connections.
AttSame ==
    /\ att' \in [Ends -> AttType]
    /\ \A m \in Ends : att'[m].conn = att[m].conn /\ AttFact(m, att')

WorldOK ==
    /\ nat \in {"open", "hard"} /\ book \in [Ends -> {"in", "away", "forgotten"}]
    /\ punches \in PunchType /\ linkFaults \in 0..MaxLinkFaults
    /\ penal \subseteq Ends /\ aged \subseteq Ends /\ doomed \subseteq Ends

LEMMA LinkInvIs ==
    ASSUME LinkInv
    PROVE  /\ WorldOK /\ att \in [Ends -> AttType] /\ conns \in [Conns -> ConnType]
           /\ acc \in [Conns -> {"none", "admit", "link"}]
           /\ link \in [Ends -> Conns \cup {NoConn, DeadConn}]
           /\ \A n \in Ends : AttFact(n, att)
           /\ \A c \in Conns : ConnOK(c, att, conns, acc, link)
BY DEF LinkInv, LinkTypeOK, WorldOK, AttType, ConnType, PunchType

LEMMA InvFrom ==
    ASSUME WorldOK', att' \in [Ends -> AttType], conns' \in [Conns -> ConnType],
           acc' \in [Conns -> {"none", "admit", "link"}],
           link' \in [Ends -> Conns \cup {NoConn, DeadConn}],
           \A n \in Ends : AttFact(n, att'),
           \A c \in Conns : ConnOK(c, att', conns', acc', link')
    PROVE  LinkInv'
BY DEF LinkInv, LinkTypeOK, WorldOK, AttType, ConnType, PunchType

LEMMA Quiet ==
    ASSUME LinkInv, WorldOK', AttSame, UNCHANGED <<acc, link>>,
           conns' \in [Conns -> ConnType],
           \A c \in Conns : /\ conns'[c].by = conns[c].by /\ conns'[c].up = conns[c].up
                            /\ conns'[c].why = "open" => conns[c].why = "open"
    PROVE  LinkInv'
<1>1. ASSUME NEW c \in Conns PROVE ConnOK(c, att', conns', acc', link')
  <2>1. ConnOK(c, att, conns, acc, link)
    BY LinkInvIs
  <2>2. Alike(c, att, conns, acc, link, att', conns', acc', link')
    BY DEF Alike, AttSame
  <2> QED
    BY <2>1, <2>2, ConnStays
<1> QED
  BY <1>1, LinkInvIs, InvFrom DEF AttSame

LEMMA QuietConns ==
    ASSUME LinkInv, WorldOK', AttSame, UNCHANGED <<conns, acc, link>>
    PROVE  LinkInv'
BY Quiet, LinkInvIs

LEMMA AttUnchanged ==
    ASSUME LinkInv, UNCHANGED att
    PROVE  AttSame
BY LinkInvIs DEF AttSame, AttFact

\* The attempt of n becomes a; the others stay.
LEMMA AttSet ==
    ASSUME LinkInv, NEW n \in Ends, NEW a \in AttType, att' = [att EXCEPT ![n] = a],
           a.conn = att[n].conn, a.conn = NoConn <=> a.pc # "hello"
    PROVE  AttSame
BY LinkInvIs DEF AttSame, AttFact

LEMMA RacingIs ==
    ASSUME NEW by \in {"attempt", "meet"}
    PROVE  Racing(by) \in AttType /\ Racing(by).conn = NoConn /\ Racing(by).pc = "race"
BY DEF Racing, Idle, AttType

LEMMA IdleIs == Idle \in AttType /\ Idle.conn = NoConn /\ Idle.pc = "idle"
BY DEF Idle, AttType

LEMMA KickedIs ==
    ASSUME NEW a \in AttType, NEW b \in BOOLEAN
    PROVE  LET y == [a EXCEPT !.kicked = b] IN
           y \in AttType /\ y.conn = a.conn /\ y.pc = a.pc
BY DEF AttType

LEMMA WokenIs ==
    ASSUME NEW q \in PunchType, NEW n \in Ends
    PROVE  Woken(q, n) \subseteq PunchType
BY OtherIs DEF Woken, PunchType

LEMMA FaultsIs ==
    ASSUME WorldOK, Fault \/ Slow \/ UNCHANGED linkFaults
    PROVE  linkFaults' \in 0..MaxLinkFaults
BY LinkAssumption DEF WorldOK, Fault, Slow

\* attempt: a race begins where nothing was under way.
LEMMA AttemptIs ==
    ASSUME LinkInv, NEW n \in Ends, Attempt(n)
    PROVE  AttSame /\ punches' \in PunchType
<1>0. WorldOK /\ punches \in PunchType
  BY LinkInvIs DEF WorldOK
<1>1. CASE UNCHANGED <<att, punches>>
  BY <1>0, <1>1, AttUnchanged
<1>2. CASE att[n].pc = "idle" /\ att' = [att EXCEPT ![n] = Racing("attempt")]
           /\ punches' \in Woken(punches, n)
  <2>1. att[n].conn = NoConn
    BY <1>2, LinkInvIs DEF AttFact
  <2>2. AttSame
    BY <1>2, <2>1, RacingIs, AttSet
  <2> QED
    BY <1>0, <1>2, <2>2, WokenIs
<1> QED
  BY <1>1, <1>2 DEF Attempt

\* An attempt is marked for a new start.
LEMMA MarkIs ==
    ASSUME LinkInv, NEW n \in Ends, NEW b \in BOOLEAN, att' = [att EXCEPT ![n].kicked = b]
    PROVE  AttSame
<1> DEFINE y == [att[n] EXCEPT !.kicked = b]
<1>1. att[n] \in AttType /\ AttFact(n, att) /\ att' = [att EXCEPT ![n] = y]
  BY LinkInvIs
<1>2. y \in AttType /\ y.conn = att[n].conn /\ y.pc = att[n].pc
  BY <1>1, KickedIs
<1> HIDE DEF y
<1>3. y.conn = NoConn <=> y.pc # "hello"
  BY <1>1, <1>2 DEF AttFact
<1> QED
  BY <1>1, <1>2, <1>3, AttSet

\* kick.
LEMMA KickIs ==
    ASSUME LinkInv, NEW n \in Ends, NEW restart, Kick(n, restart)
    PROVE  AttSame /\ punches' \in PunchType /\ penal' \subseteq Ends
           /\ linkFaults' \in 0..MaxLinkFaults
<1>0. WorldOK /\ punches \in PunchType /\ penal \subseteq Ends
  BY LinkInvIs DEF WorldOK
<1>1. CASE UNCHANGED <<att, punches, penal, linkFaults>>
  BY <1>0, <1>1, AttUnchanged DEF WorldOK
<1>2. CASE /\ penal' = penal \ {n} /\ Slow /\ att' = [att EXCEPT ![n].kicked = TRUE]
           /\ UNCHANGED punches
  BY <1>0, <1>2, MarkIs, FaultsIs
<1>3. CASE penal' = penal \ {n} /\ Attempt(n) /\ UNCHANGED linkFaults
  BY <1>0, <1>3, AttemptIs, FaultsIs
<1> QED
  BY <1>1, <1>2, <1>3 DEF Kick

LEMMA IntroducerStep ==
    ASSUME LinkInv, NEW n \in Ends, Poll(n)
    PROVE  LinkInv'
<1>1. AttSame /\ punches' \in PunchType
  BY AttemptIs DEF Poll
<1>2. UNCHANGED <<nat, book, conns, acc, link, aged, doomed, linkFaults, penal>>
  BY DEF Poll
<1>3. WorldOK'
  BY <1>1, <1>2, LinkInvIs DEF WorldOK
<1> QED
  BY <1>1, <1>2, <1>3, QuietConns

LEMMA NetBackStep ==
    ASSUME LinkInv, NEW n \in Ends, NetBack(n)
    PROVE  LinkInv'
<1>0. WorldOK /\ punches \in PunchType /\ penal \subseteq Ends
  BY LinkInvIs DEF WorldOK
<1>1. /\ book' = [book EXCEPT ![n] = "in"]
      /\ Kick(n, TRUE) \/ UNCHANGED <<att, punches, penal, linkFaults>>
      /\ UNCHANGED <<nat, conns, acc, link, aged, doomed>>
  BY DEF NetBack
<1>2. /\ AttSame /\ punches' \in PunchType /\ penal' \subseteq Ends
      /\ linkFaults' \in 0..MaxLinkFaults
  <2>1. CASE Kick(n, TRUE)
    BY <2>1, KickIs
  <2>2. CASE UNCHANGED <<att, punches, penal, linkFaults>>
    BY <1>0, <2>2, AttUnchanged DEF WorldOK
  <2> QED
    BY <1>1, <2>1, <2>2
<1>3. WorldOK'
  BY <1>0, <1>1, <1>2 DEF WorldOK
<1> QED
  BY <1>1, <1>2, <1>3, QuietConns

LEMMA ProbedByStep ==
    ASSUME LinkInv, NEW n \in Ends, ProbedBy(n)
    PROVE  LinkInv'
<1>1. Kick(n, FALSE) /\ UNCHANGED <<nat, book, conns, acc, link, aged, doomed>>
  BY DEF ProbedBy
<1>2. /\ AttSame /\ punches' \in PunchType /\ penal' \subseteq Ends
      /\ linkFaults' \in 0..MaxLinkFaults
  BY <1>1, KickIs
<1>3. WorldOK'
  BY <1>1, <1>2, LinkInvIs DEF WorldOK
<1> QED
  BY <1>1, <1>2, <1>3, QuietConns

LEMMA PunchedStep ==
    ASSUME LinkInv, NEW n \in Ends, Punched(n)
    PROVE  LinkInv'
<1>0. WorldOK /\ punches \in PunchType /\ penal \subseteq Ends /\ att[n] \in AttType
  BY LinkInvIs DEF WorldOK
<1>1. punches \ {n} \in PunchType
  BY <1>0 DEF PunchType
<1>2. UNCHANGED <<nat, book, conns, acc, link, aged, doomed>>
  BY DEF Punched
<1>3. CASE /\ att[n].pc = "idle" /\ att' = [att EXCEPT ![n] = Racing("meet")]
           /\ punches' \in Woken(punches \ {n}, n)
           /\ UNCHANGED <<penal, linkFaults>>
  <2>1. att[n].conn = NoConn
    BY <1>3, LinkInvIs DEF AttFact
  <2>2. AttSame
    BY <1>3, <2>1, RacingIs, AttSet
  <2>3. punches' \in PunchType
    BY <1>1, <1>3, WokenIs
  <2>4. WorldOK'
    BY <1>0, <1>2, <1>3, <2>3 DEF WorldOK
  <2> QED
    BY <1>2, <2>2, <2>4, QuietConns
<1>4. CASE /\ punches' = punches \ {n} /\ penal' \subseteq Ends
           /\ \/ UNCHANGED <<att, linkFaults>>
              \/ Slow /\ att' = [att EXCEPT ![n].kicked = (att[n].by = "attempt")]
  <2>1. AttSame
    <3>1. CASE UNCHANGED att
      BY <3>1, AttUnchanged
    <3>2. CASE att' = [att EXCEPT ![n].kicked = (att[n].by = "attempt")]
      BY <3>2, MarkIs
    <3> QED
      BY <1>4, <3>1, <3>2
  <2>2. linkFaults' \in 0..MaxLinkFaults
    BY <1>0, <1>4, FaultsIs
  <2>3. WorldOK'
    BY <1>0, <1>1, <1>2, <1>4, <2>2 DEF WorldOK
  <2> QED
    BY <1>2, <2>1, <2>3, QuietConns
<1> QED
  BY <1>0, <1>3, <1>4 DEF Punched

\* Steps that only tell of the world.
LEMMA QuietWorld ==
    ASSUME LinkInv, WorldOK', UNCHANGED <<att, conns, acc, link>>
    PROVE  LinkInv'
BY AttUnchanged, QuietConns

LEMMA OutageStep ==
    ASSUME LinkInv, NEW n \in Ends, Outage(n)
    PROVE  LinkInv'
<1>0. WorldOK
  BY LinkInvIs
<1>1. UNCHANGED <<nat, att, penal, conns, acc, link, aged, doomed>>
  BY DEF Outage
<1>2. /\ book' \in [Ends -> {"in", "away", "forgotten"}] /\ punches' \in PunchType
      /\ linkFaults' \in 0..MaxLinkFaults
  <2>1. CASE Fault /\ book' = [book EXCEPT ![n] = "away"] /\ UNCHANGED punches
    BY <1>0, <2>1, FaultsIs DEF WorldOK
  <2>2. CASE book' = [book EXCEPT ![n] = "forgotten"] /\ UNCHANGED <<punches, linkFaults>>
    BY <1>0, <2>2 DEF WorldOK
  <2>3. CASE Fault /\ punches' = punches \ {n} /\ UNCHANGED book
    BY <1>0, <2>3, FaultsIs DEF WorldOK, PunchType
  <2> QED
    BY <2>1, <2>2, <2>3 DEF Outage
<1>3. WorldOK'
  BY <1>0, <1>1, <1>2 DEF WorldOK
<1> QED
  BY <1>1, <1>3, QuietWorld

LEMMA AgeStep ==
    ASSUME LinkInv, Age
    PROVE  LinkInv'
<1>0. WorldOK
  BY LinkInvIs
<1>1. aged' \subseteq Ends /\ linkFaults' \in 0..MaxLinkFaults
  <2>1. CASE aged' = {n \in Ends : Alive(n)} /\ UNCHANGED linkFaults
    BY <1>0, <2>1, FaultsIs
  <2>2. CASE \E n \in Ends : Alive(n) /\ aged' = aged \cup {n} /\ Fault
    BY <1>0, <2>2, FaultsIs DEF WorldOK
  <2> QED
    BY <2>1, <2>2 DEF Age
<1>2. UNCHANGED <<nat, book, punches, att, penal, conns, acc, link, doomed>>
  BY DEF Age
<1>3. WorldOK'
  BY <1>0, <1>1, <1>2 DEF WorldOK
<1> QED
  BY <1>2, <1>3, QuietWorld

LEMMA ExpiredStep ==
    ASSUME LinkInv, NEW n \in Ends, Expired(n)
    PROVE  LinkInv'
<1>1. WorldOK'
  BY LinkInvIs DEF Expired, WorldOK
<1> QED
  BY <1>1, QuietWorld DEF Expired

LEMMA PenaltyEndsStep ==
    ASSUME LinkInv, NEW n \in Ends, PenaltyEnds(n)
    PROVE  LinkInv'
<1>1. WorldOK'
  BY LinkInvIs DEF PenaltyEnds, WorldOK
<1> QED
  BY <1>1, QuietWorld DEF PenaltyEnds

\* An attempt that ends makes a new race or none.
LEMMA EndedIs ==
    ASSUME NEW n \in Ends
    PROVE  Ended(n) \in AttType /\ Ended(n).conn = NoConn /\ Ended(n).pc # "hello"
BY RacingIs, IdleIs DEF Ended

LEMMA FailedIs ==
    ASSUME LinkInv, NEW n \in Ends, Failed(n)
    PROVE  /\ att' \in [Ends -> AttType] /\ att'[n].conn = NoConn
           /\ \A m \in Ends : (m # n => att'[m] = att[m]) /\ AttFact(m, att')
           /\ penal' \subseteq Ends /\ punches' \in PunchType
<1>0. WorldOK /\ att \in [Ends -> AttType] /\ \A m \in Ends : AttFact(m, att)
  BY LinkInvIs
<1>1. /\ att' = [att EXCEPT ![n] = Ended(n)] /\ penal' \subseteq penal \cup {n}
      /\ punches' \in Woken(punches, n) \/ punches' = punches
  BY DEF Failed
<1>2. punches' \in PunchType
  BY <1>0, <1>1, WokenIs DEF WorldOK
<1> QED
  BY <1>0, <1>1, <1>2, EndedIs DEF WorldOK, AttFact

LEMMA CollideStep ==
    ASSUME LinkInv, NEW waits, Collide(waits)
    PROVE  LinkInv'
<1>0. WorldOK /\ att \in [Ends -> AttType] /\ \A m \in Ends : AttFact(m, att)
  BY LinkInvIs
<1>1. /\ \A n \in Ends : att[n].pc = "race"
      /\ att' = [n \in Ends |-> Collided(n, waits)]
      /\ UNCHANGED <<nat, book, conns, acc, link, aged, doomed, linkFaults>>
      /\ penal' \subseteq Ends
  BY <1>0 DEF Collide, WorldOK
<1>2. punches' \in PunchType
  <2>1. 1 \in Ends /\ 2 \in Ends
    BY DEF Ends
  <2>2. PICK q \in IF att'[1].pc = "race" THEN Woken(punches, 1) ELSE {punches} :
               punches' \in IF att'[2].pc = "race" THEN Woken(q, 2) ELSE {q}
    BY DEF Collide
  <2>3. q \in PunchType
    BY <1>0, <2>1, <2>2, WokenIs DEF WorldOK
  <2> QED
    BY <2>1, <2>2, <2>3, WokenIs
<1>3. ASSUME NEW n \in Ends
      PROVE  /\ Collided(n, waits) \in AttType /\ Collided(n, waits).conn = NoConn
             /\ Collided(n, waits).pc # "hello" /\ att[n].conn = NoConn
  <2>1. att[n] \in AttType /\ att[n].conn = NoConn
    BY <1>0, <1>1 DEF AttFact
  <2>2. [att[n] EXCEPT !.pc = "dial"] \in AttType
        /\ [att[n] EXCEPT !.pc = "dial"].conn = NoConn /\ [att[n] EXCEPT !.pc = "dial"].pc = "dial"
    BY <2>1 DEF AttType
  <2> QED
    BY <2>1, <2>2, EndedIs DEF Collided
<1>4. AttSame
  BY <1>1, <1>3 DEF AttSame, AttFact
<1>5. WorldOK'
  BY <1>0, <1>1, <1>2 DEF WorldOK
<1> QED
  BY <1>1, <1>4, <1>5, QuietConns

LEMMA BreakStep ==
    ASSUME LinkInv, NEW c \in Conns, Break(c)
    PROVE  LinkInv'
<1>0. WorldOK /\ conns \in [Conns -> ConnType]
  BY LinkInvIs
<1>1. /\ Fault /\ conns' = [conns EXCEPT ![c].why = "gone"]
      /\ UNCHANGED <<nat, book, punches, att, penal, acc, link, aged, doomed>>
  BY DEF Break
<1>2. WorldOK'
  BY <1>0, <1>1, FaultsIs DEF WorldOK
<1>3. /\ conns' \in [Conns -> ConnType]
      /\ \A d \in Conns : /\ conns'[d].by = conns[d].by /\ conns'[d].up = conns[d].up
                          /\ conns'[d].why = "open" => conns[d].why = "open"
  BY <1>0, <1>1 DEF ConnType
<1>4. AttSame
  BY <1>1, AttUnchanged
<1> QED
  BY <1>1, <1>2, <1>3, <1>4, Quiet

LEMMA MovedStep ==
    ASSUME LinkInv, NEW n \in Ends, Moved(n)
    PROVE  LinkInv'
<1>0. WorldOK /\ conns \in [Conns -> ConnType] /\ punches \in PunchType
  BY LinkInvIs DEF WorldOK
<1>1. /\ Fault /\ link[n] \in Conns
      /\ UNCHANGED <<nat, book, acc, link, aged, doomed>> /\ penal' \subseteq Ends
      /\ conns' \in {conns, [conns EXCEPT ![link[n]].why = IF @ = "open" THEN "gone" ELSE @]}
  BY <1>0 DEF Moved, Alive, WorldOK
<1>2. /\ conns' \in [Conns -> ConnType]
      /\ \A d \in Conns : /\ conns'[d].by = conns[d].by /\ conns'[d].up = conns[d].up
                          /\ conns'[d].why = "open" => conns[d].why = "open"
  <2>1. CASE conns' = conns
    BY <1>0, <2>1
  <2>2. CASE conns' = [conns EXCEPT ![link[n]].why = IF @ = "open" THEN "gone" ELSE @]
    <3> DEFINE y == [conns[link[n]] EXCEPT !.why = IF @ = "open" THEN "gone" ELSE @]
    <3>1. conns[link[n]] \in ConnType
      BY <1>0, <1>1
    <3>2. /\ y \in ConnType /\ y.by = conns[link[n]].by /\ y.up = conns[link[n]].up
          /\ y.why # "open"
      BY <3>1 DEF ConnType
    <3>3. conns' = [conns EXCEPT ![link[n]] = y]
      BY <2>2
    <3> HIDE DEF y
    <3> QED
      BY <1>0, <1>1, <3>2, <3>3
  <2> QED
    BY <1>1, <2>1, <2>2
<1>3. AttSame /\ punches' \in PunchType
  <2>1. CASE UNCHANGED <<att, punches>>
    BY <1>0, <2>1, AttUnchanged
  <2>2. CASE /\ att[n].pc = "idle" /\ att' = [att EXCEPT ![n] = Racing("meet")]
             /\ punches' \in Woken(punches, n)
    <3>1. att[n].conn = NoConn
      BY <2>2, LinkInvIs DEF AttFact
    <3>2. AttSame
      BY <2>2, <3>1, RacingIs, AttSet
    <3> QED
      BY <1>0, <2>2, <3>2, WokenIs
  <2> QED
    BY <2>1, <2>2 DEF Moved
<1>4. WorldOK'
  BY <1>0, <1>1, <1>3, FaultsIs DEF WorldOK
<1> QED
  BY <1>1, <1>2, <1>3, <1>4, Quiet

-----------------------------------------------------------------------------
(* Steps of a connection.                                                   *)

\* Another connection than the one that n, the end that acts, comes to or leaves.
LEMMA OthersStay ==
    ASSUME LinkInv, NEW n \in Ends, NEW d \in Conns,
           att'[n].conn = d <=> att[n].conn = d,
           \A m \in Ends : m # n => att'[m] = att[m],
           conns'[d] = conns[d], acc'[d] = acc[d],
           \A m \in Ends : link'[m] = d <=> link[m] = d
    PROVE  ConnOK(d, att', conns', acc', link')
<1>1. ConnOK(d, att, conns, acc, link)
  BY LinkInvIs
<1>2. Alike(d, att, conns, acc, link, att', conns', acc', link')
  BY DEF Alike
<1> QED
  BY <1>1, <1>2, ConnStays

\* An end that waits for a hello, and who it waits for.
LEMMA HelloIs ==
    ASSUME LinkInv, NEW n \in Ends, att[n].pc = "hello"
    PROVE  LET c == att[n].conn IN
           /\ c \in Conns /\ conns[c].by = n /\ n \in conns[c].up /\ link[n] # c
<1>1. att[n] \in AttType /\ AttFact(n, att)
  BY LinkInvIs
<1>2. att[n].conn \in Conns
  BY <1>1 DEF AttFact, AttType
<1>3. ConnOK(att[n].conn, att, conns, acc, link)
  BY <1>2, LinkInvIs
<1> QED
  BY <1>2, <1>3 DEF ConnOK, HelloFact

\* The dialler closes the connection whose hello it waits for.
LEMMA HelloEnds ==
    ASSUME LinkInv, NEW n \in Ends, att[n].pc = "hello", WorldOK',
           att' \in [Ends -> AttType], att'[n].conn = NoConn,
           \A m \in Ends : (m # n => att'[m] = att[m]) /\ AttFact(m, att'),
           conns' = Closed(conns, att[n].conn, n, "gone"), UNCHANGED <<acc, link>>
    PROVE  LinkInv'
<1> DEFINE c == att[n].conn
<1>1. c \in Conns /\ conns[c].by = n /\ n \in conns[c].up /\ link[n] # c
  BY HelloIs
<1>2. conns \in [Conns -> ConnType]
  BY LinkInvIs
<1> HIDE DEF c
<1>3. conns' = Closed(conns, c, n, "gone")
  BY DEF c
<1>4. conns' \in [Conns -> ConnType] /\ \A d \in Conns \ {c} : conns'[d] = conns[d]
  BY <1>1, <1>2, <1>3, ClosedIs
<1>5. ASSUME NEW d \in Conns PROVE ConnOK(d, att', conns', acc', link')
  <2>1. CASE d = c
    <3>1. Leaves(c, n, att, conns, acc, link, att', acc', link')
      BY <1>1, OtherIs, ConnNames DEF Leaves
    <3>2. ConnOK(c, att, conns, acc, link)
      BY <1>1, LinkInvIs
    <3> QED
      BY <1>1, <1>2, <1>3, <2>1, <3>1, <3>2, ClosedOK
  <2>2. CASE d # c
    <3>1. att'[n].conn = d <=> att[n].conn = d
      BY <2>2, ConnNames DEF c
    <3> QED
      BY <1>1, <1>4, <2>2, <3>1, OthersStay
  <2> QED
    BY <2>1, <2>2
<1> QED
  BY <1>4, <1>5, LinkInvIs, InvFrom

LEMMA GiveUpStep ==
    ASSUME LinkInv, NEW n \in Ends, GiveUp(n)
    PROVE  LinkInv'
<1>0. WorldOK /\ conns \in [Conns -> ConnType]
  BY LinkInvIs
<1>1. /\ Failed(n)
      /\ Slow \/ UNCHANGED linkFaults
      /\ UNCHANGED <<nat, book, acc, link, aged, doomed>>
      /\ conns' = IF att[n].pc = "hello" THEN Closed(conns, att[n].conn, n, "gone") ELSE conns
  BY DEF GiveUp
<1>2. /\ att' \in [Ends -> AttType] /\ att'[n].conn = NoConn
      /\ \A m \in Ends : (m # n => att'[m] = att[m]) /\ AttFact(m, att')
      /\ penal' \subseteq Ends /\ punches' \in PunchType
  BY <1>1, FailedIs
<1>3. WorldOK'
  BY <1>0, <1>1, <1>2, FaultsIs DEF WorldOK
<1>4. CASE att[n].pc = "hello"
  BY <1>1, <1>2, <1>3, <1>4, HelloEnds
<1>5. CASE att[n].pc # "hello"
  <2>1. att[n].conn = NoConn
    BY <1>5, LinkInvIs DEF AttFact
  <2>2. AttSame
    BY <1>2, <2>1 DEF AttSame
  <2> QED
    BY <1>1, <1>3, <1>5, <2>2, QuietConns
<1> QED
  BY <1>4, <1>5

LEMMA RefusedStep ==
    ASSUME LinkInv, NEW n \in Ends, Refused(n)
    PROVE  LinkInv'
<1>0. WorldOK /\ att \in [Ends -> AttType] /\ \A m \in Ends : AttFact(m, att)
  BY LinkInvIs
<1>1. /\ att[n].pc = "hello" /\ conns' = Closed(conns, att[n].conn, n, "gone")
      /\ UNCHANGED <<nat, book, acc, link, aged, doomed, linkFaults>>
      /\ \/ att' = [att EXCEPT ![n] = Idle] /\ UNCHANGED <<penal, punches>>
         \/ Failed(n)
  BY DEF Refused
<1>2. /\ att' \in [Ends -> AttType] /\ att'[n].conn = NoConn
      /\ \A m \in Ends : (m # n => att'[m] = att[m]) /\ AttFact(m, att')
      /\ penal' \subseteq Ends /\ punches' \in PunchType
  <2>1. CASE Failed(n)
    BY <2>1, FailedIs
  <2>2. CASE att' = [att EXCEPT ![n] = Idle] /\ UNCHANGED <<penal, punches>>
    BY <1>0, <2>2, IdleIs DEF WorldOK, AttFact
  <2> QED
    BY <1>1, <2>1, <2>2
<1>3. WorldOK'
  BY <1>0, <1>1, <1>2 DEF WorldOK
<1> QED
  BY <1>1, <1>2, <1>3, HelloEnds

\* Endpoint.Dial takes a connection that nobody uses.
LEMMA DialStep ==
    ASSUME LinkInv, NEW n \in Ends, Dial(n)
    PROVE  LinkInv'
<1>0. /\ WorldOK /\ att \in [Ends -> AttType] /\ \A m \in Ends : AttFact(m, att)
      /\ conns \in [Conns -> ConnType] /\ acc \in [Conns -> {"none", "admit", "link"}]
  BY LinkInvIs
<1>1. PICK c \in Conns :
        /\ conns[c] = Free
        /\ conns' = [conns EXCEPT ![c] = [by |-> n, up |-> Ends, why |-> "open"]]
        /\ acc' = [acc EXCEPT ![c] = "admit"]
        /\ att' = [att EXCEPT ![n].pc = "hello", ![n].conn = c]
  BY DEF Dial
<1>2. /\ att[n].pc \in {"race", "dial"}
      /\ UNCHANGED <<nat, book, punches, penal, link, aged, doomed, linkFaults>>
  BY DEF Dial
<1> DEFINE y == [att[n] EXCEPT !.pc = "hello", !.conn = c]
<1>3. y \in AttType /\ y.pc = "hello" /\ y.conn = c
  BY <1>0 DEF AttType
<1>4. att' = [att EXCEPT ![n] = y]
  BY <1>1
<1> HIDE DEF y
<1>5. /\ att' \in [Ends -> AttType] /\ att'[n].conn = c /\ att'[n].pc = "hello"
      /\ \A m \in Ends : m # n => att'[m] = att[m]
  BY <1>0, <1>3, <1>4
<1>6. ASSUME NEW m \in Ends PROVE AttFact(m, att')
  BY <1>0, <1>5, ConnNames DEF AttFact
<1>7. conns' \in [Conns -> ConnType] /\ acc' \in [Conns -> {"none", "admit", "link"}]
  BY <1>0, <1>1 DEF ConnType
<1>8. att[n].conn = NoConn
  BY <1>0, <1>2 DEF AttFact
<1>9. ConnOK(c, att', conns', acc', link')
  <2>1. ConnOK(c, att, conns, acc, link) /\ conns[c].up = {}
    BY <1>1, LinkInvIs DEF Free
  <2>2. \A m \in Ends : att[m].conn # c /\ link[m] # c
    BY <2>1 DEF ConnOK, HelloFact, LinkFact
  <2>3. /\ conns'[c].by = n /\ conns'[c].up = Ends /\ acc'[c] = "admit"
        /\ link' = link
    BY <1>0, <1>1, <1>2
  <2>4. ASSUME NEW m \in Ends
        PROVE  HelloFact(m, c, att', conns', link') /\ LinkFact(m, c, conns', acc', link')
    BY <1>5, <2>2, <2>3 DEF HelloFact, LinkFact
  <2>5. AccFact(c, conns', acc')
    BY <2>3, OtherIs DEF AccFact
  <2>6. ASSUME NEW m \in Ends PROVE Used(m, c, att', conns', acc', link')
    BY <1>5, <2>3, OtherIs DEF Used
  <2> QED
    BY <2>3, <2>4, <2>5, <2>6 DEF ConnOK, OpenFact
<1>10. ASSUME NEW d \in Conns PROVE ConnOK(d, att', conns', acc', link')
  <2>1. CASE d = c
    BY <1>9, <2>1
  <2>2. CASE d # c
    <3>1. conns'[d] = conns[d] /\ acc'[d] = acc[d]
      BY <1>0, <1>1, <2>2
    <3>2. att'[n].conn = d <=> att[n].conn = d
      BY <1>5, <1>8, <2>2, ConnNames
    <3> QED
      BY <1>2, <1>5, <2>2, <3>1, <3>2, OthersStay
  <2> QED
    BY <2>1, <2>2
<1>11. WorldOK'
  BY <1>0, <1>2 DEF WorldOK
<1> QED
  BY <1>2, <1>5, <1>6, <1>7, <1>10, <1>11, LinkInvIs, InvFrom

LEMMA AdmitStep ==
    ASSUME LinkInv, NEW c \in Conns, Admit(c)
    PROVE  LinkInv'
<1>0. WorldOK /\ acc \in [Conns -> {"none", "admit", "link"}]
  BY LinkInvIs
<1>1. /\ acc[c] = "admit" /\ acc' = [acc EXCEPT ![c] = "link"]
      /\ UNCHANGED <<nat, book, punches, att, penal, conns, link, aged, doomed, linkFaults>>
  BY DEF Admit
<1>2. WorldOK'
  BY <1>0, <1>1 DEF WorldOK
<1>3. ASSUME NEW d \in Conns PROVE ConnOK(d, att', conns', acc', link')
  <2>1. acc'[d] = "none" <=> acc[d] = "none"
    BY <1>0, <1>1
  <2>2. Alike(d, att, conns, acc, link, att', conns', acc', link')
    BY <1>1, <2>1 DEF Alike
  <2>3. ConnOK(d, att, conns, acc, link)
    BY LinkInvIs
  <2> QED
    BY <2>2, <2>3, ConnStays
<1>4. acc' \in [Conns -> {"none", "admit", "link"}]
  BY <1>0, <1>1
<1>5. \A n \in Ends : AttFact(n, att')
  BY <1>1, LinkInvIs DEF AttFact
<1> QED
  BY <1>1, <1>2, <1>3, <1>4, <1>5, LinkInvIs, InvFrom

\* linkUp at n, of a connection that n has come to the end of the handshake of.
LEMMA LinkUpKeeps ==
    ASSUME LinkInv, NEW n \in Ends, NEW c \in Conns, LinkUpAt(n, c), WorldOK',
           n \in conns[c].up, link[n] # c,
           att' \in [Ends -> AttType], att'[n].conn # c,
           \A d \in Conns : d # c => (att'[n].conn = d <=> att[n].conn = d),
           \A m \in Ends : (m # n => att'[m] = att[m]) /\ AttFact(m, att'),
           acc' \in [Conns -> {"none", "admit", "link"}],
           \A d \in Conns : d # c => acc'[d] = acc[d],
           IF Other(conns[c].by) = n THEN acc'[c] = "none" ELSE acc'[c] = acc[c]
    PROVE  LinkInv'
<1>0. /\ conns \in [Conns -> ConnType] /\ link \in [Ends -> Conns \cup {NoConn, DeadConn}]
      /\ conns[c].by \in Ends
      /\ \A d \in Conns : ConnOK(d, att, conns, acc, link)
  BY LinkInvIs DEF ConnType
<1>1. \A m \in Ends : m # n => att'[m].conn = att[m].conn
  OBVIOUS
<1>2. CASE conns' = Closed(conns, c, n, "replaced") /\ link' = link
  <2>1. conns' \in [Conns -> ConnType] /\ \A d \in Conns \ {c} : conns'[d] = conns[d]
    BY <1>0, <1>2, ClosedIs
  <2>2. ASSUME NEW d \in Conns PROVE ConnOK(d, att', conns', acc', link')
    <3>1. CASE d = c
      <4>1. Leaves(c, n, att, conns, acc, link, att', acc', link')
        BY <1>2, ConnNames DEF Leaves
      <4> QED
        BY <1>0, <1>2, <3>1, <4>1, ClosedOK
    <3>2. CASE d # c
      <4>1. conns'[d] = conns[d] /\ acc'[d] = acc[d]
            /\ \A m \in Ends : link'[m] = d <=> link[m] = d
        BY <1>2, <2>1, <3>2
      <4> QED
        BY <3>2, <4>1, OthersStay
    <3> QED
      BY <3>1, <3>2
  <2>3. link' \in [Ends -> Conns \cup {NoConn, DeadConn}]
    BY <1>0, <1>2
  <2> QED
    BY <2>1, <2>2, <2>3, InvFrom
<1>3. CASE /\ link' = [link EXCEPT ![n] = c]
           /\ conns' = IF Alive(n) THEN Closed(conns, link[n], n, "replaced") ELSE conns
  <2> DEFINE o == link[n]
  <2>1. /\ link' \in [Ends -> Conns \cup {NoConn, DeadConn}] /\ link'[n] = c
        /\ \A m \in Ends : m # n => link'[m] = link[m]
    BY <1>0, <1>3
  <2>2. o \in Conns => /\ n \in conns[o].up /\ att[n].conn # o
                       /\ conns[o].by # n => acc[o] = "none"
    <3> SUFFICES ASSUME o \in Conns
                 PROVE  /\ n \in conns[o].up /\ att[n].conn # o
                        /\ conns[o].by # n => acc[o] = "none"
      OBVIOUS
    <3>1. HelloFact(n, o, att, conns, link) /\ LinkFact(n, o, conns, acc, link)
      BY <1>0 DEF ConnOK
    <3> QED
      BY <3>1 DEF HelloFact, LinkFact
  <2> HIDE DEF o
  <2>3. conns' = IF o \in Conns THEN Closed(conns, o, n, "replaced") ELSE conns
    BY <1>3 DEF Alive, o
  <2>4. /\ conns' \in [Conns -> ConnType]
        /\ \A d \in Conns : d # o => conns'[d] = conns[d]
    <3>1. CASE o \in Conns
      BY <1>0, <2>2, <2>3, <3>1, ClosedIs
    <3>2. CASE o \notin Conns
      BY <1>0, <2>3, <3>2
    <3> QED
      BY <3>1, <3>2
  <2>5. c # o
    BY DEF o
  <2>6. ConnOK(c, att', conns', acc', link')
    <3>1. ConnOK(c, att, conns, acc, link) /\ conns'[c] = conns[c]
      BY <1>0, <2>4, <2>5
    <3>2. ASSUME NEW m \in Ends
          PROVE  HelloFact(m, c, att', conns', link') /\ LinkFact(m, c, conns', acc', link')
      <4>1. HelloFact(m, c, att, conns, link) /\ LinkFact(m, c, conns, acc, link)
        BY <3>1 DEF ConnOK
      <4>2. CASE m = n
        BY <1>0, <2>1, <3>1, <4>2, OtherIs, ConnNames DEF HelloFact, LinkFact
      <4>3. CASE m # n
        <5>1. att'[m].conn = att[m].conn /\ link'[m] = link[m]
          BY <1>1, <2>1, <4>3
        <5>2. acc[c] = "none" => acc'[c] = "none"
          OBVIOUS
        <5> QED
          BY <3>1, <4>1, <5>1, <5>2 DEF HelloFact, LinkFact
      <4> QED
        BY <4>2, <4>3
    <3>3. AccFact(c, conns', acc')
      <4>1. AccFact(c, conns, acc)
        BY <3>1 DEF ConnOK
      <4> QED
        BY <3>1, <4>1 DEF AccFact
    <3>4. OpenFact(c, att', conns', acc', link')
      <4> SUFFICES ASSUME conns[c].why = "open", conns[c].up # {}
                   PROVE  conns[c].up = Ends
                          /\ \A m \in Ends : Used(m, c, att', conns', acc', link')
        BY <3>1 DEF OpenFact
      <4>1. conns[c].up = Ends /\ \A m \in Ends : Used(m, c, att, conns, acc, link)
        BY <3>1 DEF ConnOK, OpenFact
      <4>2. ASSUME NEW m \in Ends PROVE Used(m, c, att', conns', acc', link')
        <5>1. CASE m = n
          BY <2>1, <5>1 DEF Used
        <5>2. CASE m # n
          <6>1. att'[m].conn = att[m].conn /\ link'[m] = link[m]
            BY <1>1, <2>1, <5>2
          <6>2. m = Other(conns[c].by) => acc'[c] = acc[c]
            BY <5>2
          <6> QED
            BY <3>1, <4>1, <6>1, <6>2 DEF Used
        <5> QED
          BY <5>1, <5>2
      <4> QED
        BY <4>1, <4>2
    <3> QED
      BY <3>2, <3>3, <3>4 DEF ConnOK
  <2>7. ASSUME NEW d \in Conns PROVE ConnOK(d, att', conns', acc', link')
    <3>1. CASE d = c
      BY <2>6, <3>1
    <3>2. CASE d # c /\ d = o
      <4>1. conns' = Closed(conns, d, n, "replaced") /\ acc'[d] = acc[d] /\ n \in conns[d].up
        BY <2>2, <2>3, <3>2
      <4>2. conns[d].by \in Ends /\ Other(conns[d].by) = n => conns[d].by # n
        BY <1>0, OtherIs DEF ConnType
      <4>3. conns[d].by \in Ends
        BY <1>0 DEF ConnType
      <4>4. Leaves(d, n, att, conns, acc, link, att', acc', link')
        BY <1>1, <2>1, <2>2, <3>2, <4>1, <4>2, <4>3, ConnNames DEF Leaves
      <4> QED
        BY <1>0, <4>1, <4>4, ClosedOK
    <3>3. CASE d # c /\ d # o
      <4>1. link[n] # d
        BY <3>3 DEF o
      <4>2. /\ conns'[d] = conns[d] /\ acc'[d] = acc[d]
            /\ \A m \in Ends : link'[m] = d <=> link[m] = d
        BY <2>1, <2>4, <3>3, <4>1
      <4> QED
        BY <3>3, <4>2, OthersStay
    <3> QED
      BY <3>1, <3>2, <3>3
  <2> QED
    BY <2>1, <2>4, <2>7, InvFrom
<1> QED
  BY <1>2, <1>3 DEF LinkUpAt

LEMMA LinkUpWorld ==
    ASSUME LinkInv, NEW n, NEW c, LinkUpAt(n, c), UNCHANGED <<nat, book, punches, doomed, linkFaults>>
    PROVE  WorldOK'
<1>1. penal' \subseteq penal /\ aged' \subseteq aged
  BY DEF LinkUpAt
<1> QED
  BY <1>1, LinkInvIs DEF WorldOK

LEMMA InboundStep ==
    ASSUME LinkInv, NEW c \in Conns, Inbound(c)
    PROVE  LinkInv'
<1> DEFINE n == Other(conns[c].by)
<1>1. /\ acc[c] = "link" /\ acc' = [acc EXCEPT ![c] = "none"] /\ LinkUpAt(n, c)
      /\ UNCHANGED <<nat, book, punches, att, doomed, linkFaults>>
  BY DEF Inbound
<1>0. /\ conns[c].by \in Ends /\ acc \in [Conns -> {"none", "admit", "link"}]
      /\ ConnOK(c, att, conns, acc, link) /\ att \in [Ends -> AttType]
      /\ \A m \in Ends : AttFact(m, att)
  BY LinkInvIs DEF ConnType
<1>2. n \in Ends /\ n # conns[c].by
  BY <1>0, OtherIs
<1>3. n \in conns[c].up
  BY <1>0, <1>1 DEF ConnOK, AccFact
<1>4. HelloFact(n, c, att, conns, link) /\ LinkFact(n, c, conns, acc, link)
  BY <1>0, <1>2 DEF ConnOK
<1>5. link[n] # c /\ att[n].conn # c
  BY <1>1, <1>2, <1>4 DEF HelloFact, LinkFact
<1>6. WorldOK'
  BY <1>1, LinkUpWorld
<1> QED
  BY <1>0, <1>1, <1>2, <1>3, <1>5, <1>6, LinkUpKeeps

\* Dial reads the hello of the other end.
LEMMA AnsweredStep ==
    ASSUME LinkInv, NEW n \in Ends, Answered(n)
    PROVE  LinkInv'
<1> DEFINE c == att[n].conn
<1>1. /\ att[n].pc = "hello" /\ acc[c] # "admit" /\ att' = [att EXCEPT ![n] = Idle]
      /\ LinkUpAt(n, c)
      /\ UNCHANGED <<nat, book, punches, acc, doomed, linkFaults>>
  BY DEF Answered
<1>2. c \in Conns /\ conns[c].by = n /\ n \in conns[c].up /\ link[n] # c
  BY <1>1, HelloIs
<1>3. /\ att \in [Ends -> AttType] /\ \A m \in Ends : AttFact(m, att)
      /\ acc \in [Conns -> {"none", "admit", "link"}]
  BY LinkInvIs
<1>4. /\ att' \in [Ends -> AttType] /\ att'[n].conn = NoConn
      /\ \A m \in Ends : (m # n => att'[m] = att[m]) /\ AttFact(m, att')
  BY <1>1, <1>3, IdleIs DEF AttFact
<1>5. att'[n].conn # c /\ \A d \in Conns : d # c => (att'[n].conn = d <=> att[n].conn = d)
  BY <1>2, <1>4, ConnNames
<1>6. WorldOK'
  BY <1>1, LinkUpWorld
<1>7. /\ acc' \in [Conns -> {"none", "admit", "link"}]
      /\ \A d \in Conns : d # c => acc'[d] = acc[d]
      /\ IF Other(conns[c].by) = n THEN acc'[c] = "none" ELSE acc'[c] = acc[c]
  BY <1>1, <1>2, <1>3, OtherIs
<1>8. LinkUpAt(n, c)
  BY <1>1
<1> HIDE DEF c
<1> QED
  BY <1>2, <1>4, <1>5, <1>6, <1>7, <1>8, LinkUpKeeps

\* dropWhere.
LEMMA DropKeeps ==
    ASSUME LinkInv, NEW n \in Ends, Drop(n), WorldOK', UNCHANGED <<att, acc>>
    PROVE  LinkInv'
<1> DEFINE o == link[n]
<1>0. /\ conns \in [Conns -> ConnType] /\ link \in [Ends -> Conns \cup {NoConn, DeadConn}]
      /\ \A d \in Conns : ConnOK(d, att, conns, acc, link)
  BY LinkInvIs
<1>1. /\ link' = [link EXCEPT ![n] = NoConn]
      /\ conns' = IF o \in Conns THEN Closed(conns, o, n, "gone") ELSE conns
  BY DEF Drop, Alive
<1>2. /\ link' \in [Ends -> Conns \cup {NoConn, DeadConn}] /\ link'[n] = NoConn
      /\ \A m \in Ends : m # n => link'[m] = link[m]
  BY <1>0, <1>1
<1>3. o \in Conns => /\ n \in conns[o].up /\ att[n].conn # o
                     /\ conns[o].by # n => acc[o] = "none"
  <2> SUFFICES ASSUME o \in Conns
               PROVE  /\ n \in conns[o].up /\ att[n].conn # o
                      /\ conns[o].by # n => acc[o] = "none"
    OBVIOUS
  <2>1. HelloFact(n, o, att, conns, link) /\ LinkFact(n, o, conns, acc, link)
    BY <1>0 DEF ConnOK
  <2> QED
    BY <2>1 DEF HelloFact, LinkFact
<1>4. \A d \in Conns : d # o => link[n] # d
  OBVIOUS
<1> HIDE DEF o
<1>5. conns' \in [Conns -> ConnType] /\ \A d \in Conns : d # o => conns'[d] = conns[d]
  <2>1. CASE o \in Conns
    BY <1>0, <1>1, <1>3, <2>1, ClosedIs
  <2>2. CASE o \notin Conns
    BY <1>0, <1>1, <2>2
  <2> QED
    BY <2>1, <2>2
<1>6. ASSUME NEW d \in Conns PROVE ConnOK(d, att', conns', acc', link')
  <2>1. CASE d = o
    <3>1. conns[d].by \in Ends /\ (Other(conns[d].by) = n => conns[d].by # n)
      BY <1>0, OtherIs DEF ConnType
    <3>2. Leaves(d, n, att, conns, acc, link, att', acc', link')
      BY <1>2, <1>3, <2>1, <3>1, ConnNames DEF Leaves
    <3>3. conns' = Closed(conns, d, n, "gone")
      BY <1>1, <2>1
    <3> QED
      BY <1>0, <3>2, <3>3, ClosedOK
  <2>2. CASE d # o
    <3>1. /\ conns'[d] = conns[d] /\ acc'[d] = acc[d]
          /\ \A m \in Ends : link'[m] = d <=> link[m] = d
      BY <1>2, <1>4, <1>5, <2>2, ConnNames
    <3> QED
      BY <3>1, OthersStay
  <2> QED
    BY <2>1, <2>2
<1>7. \A m \in Ends : AttFact(m, att')
  BY LinkInvIs DEF AttFact
<1> QED
  BY <1>2, <1>5, <1>6, <1>7, LinkInvIs, InvFrom

LEMMA DropSteps ==
    ASSUME LinkInv, NEW n \in Ends, GraceEnds(n) \/ DropExpired(n)
    PROVE  LinkInv'
<1>1. /\ Drop(n) /\ UNCHANGED <<nat, book, punches, att, penal, acc>>
      /\ doomed' \subseteq doomed /\ (Slow \/ UNCHANGED linkFaults)
  BY DEF GraceEnds, DropExpired
<1>2. aged' \subseteq aged
  BY <1>1 DEF Drop
<1>3. linkFaults' \in 0..MaxLinkFaults
  BY <1>1, LinkInvIs, FaultsIs
<1>4. WorldOK'
  BY <1>1, <1>2, <1>3, LinkInvIs DEF WorldOK
<1> QED
  BY <1>1, <1>4, DropKeeps

\* An end learns that the other one closed.
LEMMA LearnCloseStep ==
    ASSUME LinkInv, NEW c \in Conns, NEW n \in Ends, LearnClose(c, n)
    PROVE  LinkInv'
<1>0. /\ conns \in [Conns -> ConnType] /\ link \in [Ends -> Conns \cup {NoConn, DeadConn}]
      /\ acc \in [Conns -> {"none", "admit", "link"}]
      /\ \A d \in Conns : ConnOK(d, att, conns, acc, link)
  BY LinkInvIs
<1>1. /\ n \in conns[c].up /\ att[n].conn # c
      /\ acc' = [acc EXCEPT ![c] = IF conns[c].by = n THEN @ ELSE "none"]
      /\ conns' = Closed(conns, c, n, "gone")
      /\ \/ link' = link /\ link[n] # c
         \/ \E x \in {NoConn, DeadConn} : link' = [link EXCEPT ![n] = x] /\ link[n] = c
      /\ aged' \subseteq aged
      /\ UNCHANGED <<nat, book, punches, att, penal, doomed, linkFaults>>
  BY DEF LearnClose
<1>2. /\ link' \in [Ends -> Conns \cup {NoConn, DeadConn}] /\ link'[n] # c
      /\ \A m \in Ends : link'[m] # link[m] => m = n /\ link[m] = c /\ link'[m] \notin Conns
  BY <1>0, <1>1, ConnNames
<1>3. /\ acc' \in [Conns -> {"none", "admit", "link"}]
      /\ \A d \in Conns : d # c => acc'[d] = acc[d]
      /\ acc'[c] # "none" => acc[c] # "none"
      /\ conns[c].by # n => acc'[c] = "none"
  BY <1>0, <1>1
<1>4. conns' \in [Conns -> ConnType] /\ \A d \in Conns \ {c} : conns'[d] = conns[d]
  BY <1>0, <1>1, ClosedIs
<1>5. ASSUME NEW d \in Conns PROVE ConnOK(d, att', conns', acc', link')
  <2>1. CASE d = c
    <3>1. conns[c].by \in Ends /\ (Other(conns[c].by) = n => conns[c].by # n)
      BY <1>0, OtherIs DEF ConnType
    <3>2. Leaves(c, n, att, conns, acc, link, att', acc', link')
      BY <1>1, <1>2, <1>3, <3>1 DEF Leaves
    <3> QED
      BY <1>0, <1>1, <2>1, <3>2, ClosedOK
  <2>2. CASE d # c
    <3>1. \A m \in Ends : link'[m] = d <=> link[m] = d
      BY <1>2, <2>2
    <3> QED
      BY <1>1, <1>3, <1>4, <2>2, <3>1, OthersStay
  <2> QED
    BY <2>1, <2>2
<1>6. WorldOK' /\ \A m \in Ends : AttFact(m, att')
  BY <1>1, LinkInvIs DEF WorldOK, AttFact
<1> QED
  BY <1>1, <1>2, <1>3, <1>4, <1>5, <1>6, LinkInvIs, InvFrom

-----------------------------------------------------------------------------
(* The invariant holds.                                                     *)

LEMMA LinkStarts ==
    ASSUME LinkInit
    PROVE  LinkInv
<1>1. WorldOK
  BY LinkAssumption DEF LinkInit, WorldOK, PunchType
<1>2. /\ att \in [Ends -> AttType] /\ \A n \in Ends : AttFact(n, att) /\ att[n].conn = NoConn
  BY IdleIs DEF LinkInit, AttFact
<1>3. /\ conns \in [Conns -> ConnType] /\ acc \in [Conns -> {"none", "admit", "link"}]
      /\ link \in [Ends -> Conns \cup {NoConn, DeadConn}]
      /\ \A c \in Conns : conns[c].up = {} /\ acc[c] = "none"
      /\ \A n \in Ends : link[n] = NoConn
  BY DEF LinkInit, Free, ConnType, Ends
<1>4. ASSUME NEW c \in Conns PROVE ConnOK(c, att, conns, acc, link)
  BY <1>2, <1>3, ConnNames DEF ConnOK, HelloFact, LinkFact, AccFact, OpenFact
<1> QED
  BY <1>1, <1>2, <1>3, <1>4 DEF LinkInv, LinkTypeOK, WorldOK, AttType, ConnType, PunchType

LEMMA LinkKeeps ==
    ASSUME LinkInv, [LinkNext]_linkVars
    PROVE  LinkInv'
<1>1. CASE UNCHANGED linkVars
  <2>1. WorldOK' /\ UNCHANGED <<att, conns, acc, link>>
    BY <1>1, LinkInvIs DEF linkVars, WorldOK
  <2> QED
    BY <2>1, QuietWorld
<1>2. ASSUME NEW n \in Ends,
             \/ Poll(n) \/ NetBack(n) \/ ProbedBy(n) \/ Punched(n) \/ PenaltyEnds(n)
             \/ GiveUp(n) \/ Dial(n) \/ Answered(n) \/ Refused(n) \/ GraceEnds(n)
             \/ Expired(n) \/ DropExpired(n) \/ Moved(n) \/ Outage(n)
      PROVE  LinkInv'
  BY <1>2, IntroducerStep, NetBackStep, ProbedByStep, PunchedStep, PenaltyEndsStep, GiveUpStep,
     DialStep, AnsweredStep, RefusedStep, DropSteps, ExpiredStep, MovedStep, OutageStep
<1>3. ASSUME NEW c \in Conns, Admit(c) \/ Inbound(c) \/ Break(c) \/ \E n \in Ends : LearnClose(c, n)
      PROVE  LinkInv'
  BY <1>3, AdmitStep, InboundStep, BreakStep, LearnCloseStep
<1>4. ASSUME NEW waits, Collide(waits) PROVE LinkInv'
  BY <1>4, CollideStep
<1> QED
  BY <1>1, <1>2, <1>3, <1>4, AgeStep DEF LinkNext

\* No connection is left open behind the links: one that is up at both ends and
\* past its handshake is the link of both, however the two ends' dials crossed,
\* replaced each other, were refused or broke (linkUp, newWins, watchConn).
THEOREM LinksAreOpen == LinkSteps => []OpenIsLinked
<1>1. LinkInv => OpenIsLinked
  <2> SUFFICES ASSUME LinkInv, NEW c \in Conns, conns[c].up = Ends, conns[c].why = "open",
                      acc[c] = "none", \A n \in Ends : att[n].conn # c,
                      NEW n \in Ends
               PROVE  link[n] = c
    BY DEF OpenIsLinked, LinkInv
  <2>1. OpenFact(c, att, conns, acc, link)
    BY LinkInvIs DEF ConnOK
  <2> QED
    BY <2>1 DEF OpenFact, Used, Ends
<1>2. LinkInit => LinkInv
  BY LinkStarts
<1>3. LinkInv /\ [LinkNext]_linkVars => LinkInv'
  BY LinkKeeps
<1> QED
  BY <1>1, <1>2, <1>3, PTL DEF LinkSteps

=============================================================================
