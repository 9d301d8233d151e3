------------------------------ MODULE PoolMap ------------------------------
(***************************************************************************)
(* How a daemon runs the chunks of a pool map (poolrun.go, poolremote.go,  *)
(* poolsteal.go).  A chunk is split into parts; each part walks its ranked *)
(* peers, waits at a peer's depth gate, may start on another peer with     *)
(* room, and once late is copied to a second peer or to this node, first   *)
(* to finish wins.  A part whose peers all failed runs here.  The set of   *)
(* failed peers, the depth book and the one-backup flag belong to the      *)
(* daemon and are shared by every chunk it runs.                           *)
(*                                                                         *)
(* Times are left out: predictions and timers may come out either way, in  *)
(* the order the code allows.  A peer may answer, fail or never answer.    *)
(* Items are numbers, a part's result is its items.                        *)
(***************************************************************************)
EXTENDS Naturals, Sequences, FiniteSets, SequencesExt

CONSTANTS
  Chunk,      \* chunks the daemon is asked to run
  Peer,       \* daemons that share the closure
  Here,       \* this node
  Items,      \* items of a chunk
  Depth,      \* flightBook: parts a peer may hold
  Kinds       \* kinds of chunks that arrive: see Kind

Kind == [mode : {"nosplit", "small", "split"},  \* how it may be divided
         elsewhere : BOOLEAN,   \* originLocal (or force, for a small one)
         off : BOOLEAN]         \* offHere: --offload keeps this machine off

ASSUME PoolAssumption ==
  /\ Items \in Nat \ {0} /\ Depth \in Nat \ {0}
  /\ Here \notin Peer /\ Kinds \subseteq Kind
  /\ IsFiniteSet(Chunk) /\ IsFiniteSet(Peer)

VARIABLES
  kind,       \* what each chunk is
  phase,      \* idle, running, answered, failed or cancelled
  gone,       \* the requester went away: ch.ctx is cancelled
  parts,      \* the parts of each chunk and where each is
  answer,     \* the results sent back
  deadPeers,  \* poolManager.deadPeers
  held,       \* flightBook: parts booked on each peer
  losers,     \* backup copies whose part is over and which still hold a slot
  backups     \* poolManager.backups: a tail backup runs

vars == <<kind, phase, gone, parts, answer, deadPeers, held, losers, backups>>
-----------------------------------------------------------------------------
Node == Peer \union {Here}
Idle == [n \in Node |-> "none"]

\* A part: its items, the peers it has still to try (none for a local part),
\* whether it may start on another, and the progress of its goroutine.
Part(items, peers, steal) ==
  [items |-> items, todo |-> peers, steal |-> steal,
   pc |-> IF peers = <<>> THEN "local" ELSE "walk",
   cands |-> {}, at |-> Here, copies |-> Idle, checked |-> FALSE, tail |-> FALSE,
   tried |-> FALSE, err |-> FALSE, raced |-> FALSE, result |-> <<>>]

AllItems == [i \in 1..Items |-> i]

\* peerFn: the peers that share the closure, best first.
Rankings ==
  UNION {{s \in [1..n -> Peer] : \A i, j \in 1..n : s[i] = s[j] => i = j} :
         n \in 0..Cardinality(Peer)}

\* The ranking with its j-th peer moved to the front, either by rotation ...
Rotated(peers, j) == SubSeq(peers, j, Len(peers)) \o SubSeq(peers, 1, j - 1)
\* ... or alone, the rest behind it in order.
Preferred(peers, j) ==
  [i \in 1..Len(peers) |-> IF i = 1 THEN peers[j] ELSE IF i <= j THEN peers[i - 1] ELSE peers[i]]

\* noSplit: one part per item, its peer chosen by its key or its position.
NoSplitParts(peers) ==
  IF peers = <<>> THEN {[i \in 1..Items |-> Part(<<i>>, <<>>, FALSE)]}
  ELSE {[i \in 1..Items |-> Part(<<i>>, Rotated(peers, t[i]), FALSE)] :
        t \in [1..Items -> 1..Len(peers)]}

\* A chunk too small to split goes whole to a peer, or stays.
SmallParts(peers, k) ==
  IF k.elsewhere \/ k.off
  THEN {<<Part(AllItems, Rotated(peers, j), TRUE)>> : j \in 1..Len(peers)}
  ELSE {<<Part(AllItems, <<>>, FALSE)>>}

\* planShares: the devices that get a share, this node before the peers when it
\* takes one, and the last item of each share.
Rising(m, n) == {f \in [1..m -> 1..n] : \A i, j \in 1..m : i < j => f[i] < f[j]}
Share(end, i) == SubSeq(AllItems, IF i = 1 THEN 1 ELSE end[i - 1] + 1, end[i])

SplitParts(peers, k) ==
  LET local == IF k.elsewhere \/ k.off THEN 0 ELSE 1 IN
  UNION {{[i \in 1..m |->
             IF dev[i] <= local THEN Part(Share(end, i), <<>>, FALSE)
             ELSE Part(Share(end, i), Preferred(peers, dev[i] - local), TRUE)] :
           dev \in Rising(m, Len(peers) + local),
           end \in {e \in Rising(m, Items) : e[m] = Items}} : m \in 1..Items}

Plans(peers, k) ==
  IF k.mode = "nosplit" THEN NoSplitParts(peers)
  ELSE IF peers = <<>> THEN {<<Part(AllItems, <<>>, FALSE)>>}
  ELSE IF k.mode = "small" THEN SmallParts(peers, k)
  ELSE SplitParts(peers, k)

Init ==
  /\ kind   \in [Chunk -> Kinds]
  /\ phase  = [c \in Chunk |-> "idle"]
  /\ gone   = [c \in Chunk |-> FALSE]
  /\ parts  = [c \in Chunk |-> <<>>]
  /\ answer = [c \in Chunk |-> <<>>]
  /\ deadPeers = {}
  /\ held   = [p \in Peer |-> 0]
  /\ losers = [p \in Peer |-> 0]
  /\ backups = FALSE
-----------------------------------------------------------------------------
(* runChunk: the failed peers are forgotten and the parts start.           *)

Begin(c) ==
  /\ phase[c] = "idle"
  /\ phase' = [phase EXCEPT ![c] = "running"]
  /\ deadPeers' = {}
  /\ \E peers \in Rankings : \E plan \in Plans(peers, kind[c]) :
       parts' = [parts EXCEPT ![c] = plan]
  /\ UNCHANGED <<kind, gone, answer, held, losers, backups>>

\* The requester goes away.
Cancel(c) ==
  /\ phase[c] = "running" /\ ~gone[c]
  /\ gone' = [gone EXCEPT ![c] = TRUE]
  /\ UNCHANGED <<kind, phase, parts, answer, deadPeers, held, losers, backups>>

Update(c, i, p) == parts' = [parts EXCEPT ![c][i] = p]

\* Mutant: peers that failed leave the part without a result.
GiveUp(p) == [p EXCEPT !.pc = "done", !.err = FALSE]

\* The walk is over.  A part that was tried and failed runs here, unless its
\* copy here already failed; one that never failed is taken as it is.
LeaveWalk(p) == [p EXCEPT !.pc = IF p.err /\ ~p.raced THEN "local" ELSE "done"]

Unshared == <<kind, phase, gone, answer>>

\* A peer that failed this or another chunk is passed over.
SkipDead(c, i) ==
  LET p == parts[c][i] IN
  /\ p.pc = "walk" /\ ~gone[c] /\ p.todo # <<>> /\ Head(p.todo) \in deadPeers
  /\ Update(c, i, [p EXCEPT !.todo = Tail(@)])
  /\ UNCHANGED <<Unshared, deadPeers, held, losers, backups>>

\* No peer is left, or no time after a first one failed.
WalkEnds(c, i) ==
  LET p == parts[c][i] IN
  /\ p.pc = "walk" /\ ~gone[c]
  /\ p.todo # <<>> => p.err /\ Head(p.todo) \notin deadPeers
  /\ Update(c, i, LeaveWalk(p))
  /\ UNCHANGED <<Unshared, deadPeers, held, losers, backups>>

\* The next peer, and for a split share the live ones after it as stand-ins.
EnterGate(c, i) ==
  LET p == parts[c][i] IN
  /\ p.pc = "walk" /\ ~gone[c] /\ p.todo # <<>> /\ Head(p.todo) \notin deadPeers
  /\ Update(c, i,
       [p EXCEPT !.pc = "gate",
         !.cands = {Head(p.todo)} \union (IF p.steal THEN ToSet(p.todo) \ deadPeers ELSE {})])
  /\ UNCHANGED <<Unshared, deadPeers, held, losers, backups>>

Free(q) == held[q] < Depth

\* acquireFirst: the planned peer when it has room, else a stand-in that has
\* and is predicted to be done sooner.  The planned peer stays next in line
\* behind a stand-in.
Gate(c, i) ==
  LET p == parts[c][i]
      planned == Head(p.todo)
  IN
  /\ p.pc = "gate"
  /\ \E q \in p.cands :
       /\ Free(q) /\ (q # planned => ~Free(planned))
       /\ held' = [held EXCEPT ![q] = @ + 1]
       /\ Update(c, i,
            [p EXCEPT !.pc = "sent", !.at = q, !.tried = TRUE, !.err = FALSE,
              !.todo = IF q = planned THEN Tail(@) ELSE @,
              !.copies = [Idle EXCEPT ![q] = "running"],
              !.checked = FALSE])
  /\ UNCHANGED <<Unshared, deadPeers, losers, backups>>
-----------------------------------------------------------------------------
(* runRemoteRacing (runRemote alone under --offload).                      *)

Running(p)    == {n \in Node : p.copies[n] = "running"}
BackupPeers(p) == Peer \ {p.at}

\* A late part gets a copy on another candidate with room.
CopyToPeer(c, i) ==
  LET p == parts[c][i] IN
  /\ p.pc = "sent" /\ ~gone[c] /\ ~kind[c].off
  /\ p.copies[Here] = "none"
  /\ \A n \in BackupPeers(p) : p.copies[n] = "none"
  /\ \E q \in p.cands \ {p.at} :
       /\ p.steal /\ q \notin deadPeers /\ Free(q)
       /\ held' = [held EXCEPT ![q] = @ + 1]
       /\ Update(c, i, [p EXCEPT !.copies[q] = "running"])
  /\ UNCHANGED <<Unshared, deadPeers, losers, backups>>

\* The tail backup: judged once, started here if no other one runs.
TailBackup(c, i) ==
  LET p == parts[c][i] IN
  /\ p.pc = "sent" /\ ~gone[c] /\ ~kind[c].off /\ ~p.checked
  /\ \A n \in Node \ {p.at} : p.copies[n] = "none"
  /\ \/ /\ ~backups /\ backups' = TRUE
        /\ Update(c, i, [p EXCEPT !.checked = TRUE, !.tail = TRUE, !.copies[Here] = "running"])
     \/ /\ Update(c, i, [p EXCEPT !.checked = TRUE])
        /\ UNCHANGED backups
  /\ UNCHANGED <<Unshared, deadPeers, held, losers>>

\* Mutant: an overdue part waits for its peer.
NoBudget(c, i) == parts[c][i].pc = "sent" /\ FALSE /\ UNCHANGED vars

\* The time budget is spent: a copy starts here whatever else runs.
BudgetSpent(c, i) ==
  LET p == parts[c][i] IN
  /\ p.pc = "sent" /\ ~gone[c] /\ ~kind[c].off /\ p.copies[Here] = "none"
  /\ Update(c, i, [p EXCEPT !.copies[Here] = "running"])
  /\ UNCHANGED <<Unshared, deadPeers, held, losers, backups>>

\* Mutant: the part's own slot stays booked when a copy elsewhere ends the race.
RaceOverKept(p, ended) ==
  /\ held' = [q \in Peer |-> held[q] - IF q = ended THEN 1 ELSE 0]
  /\ losers' = [q \in Peer |-> losers[q] + IF q \in Running(p) \ {p.at, ended} THEN 1 ELSE 0]
  /\ backups' = (backups /\ ~p.tail)

\* The race is over.  release() frees the part's own slot, a backup copy that
\* just ended freed its own before it reported, and the copies still running
\* are cancelled: their slots come back when their requests end.
RaceOver(p, ended) ==
  /\ held' = [q \in Peer |-> held[q] - IF q \in {p.at, ended} THEN 1 ELSE 0]
  /\ losers' = [q \in Peer |-> losers[q] + IF q \in Running(p) \ {p.at, ended} THEN 1 ELSE 0]
  /\ backups' = (backups /\ ~p.tail)

Settled(p) == [p EXCEPT !.copies = Idle, !.tail = FALSE, !.cands = {}]

\* A copy answers first: the part is done.
CopyWins(c, i, n) ==
  LET p == parts[c][i] IN
  /\ p.pc = "sent" /\ ~gone[c] /\ n \in Running(p)
  /\ RaceOver(p, n)
  /\ Update(c, i, [Settled(p) EXCEPT !.pc = "done", !.err = FALSE, !.result = p.items])
  /\ UNCHANGED <<Unshared, deadPeers>>

\* A copy fails while another runs.
CopyFails(c, i, n) ==
  LET p == parts[c][i] IN
  /\ p.pc = "sent" /\ ~gone[c] /\ n \in Running(p) /\ Running(p) # {n}
  /\ Update(c, i, [p EXCEPT !.copies[n] = "failed"])
  /\ held' = IF n \in BackupPeers(p) THEN [held EXCEPT ![n] = @ - 1] ELSE held
  /\ UNCHANGED <<Unshared, deadPeers, losers, backups>>

\* The last copy fails.  With a copy here among them there is nothing left to
\* try; without one the peer counts as dead and the walk goes on.
LastCopyFails(c, i, n) ==
  LET p == parts[c][i]
      raced == p.copies[Here] # "none"
  IN
  /\ p.pc = "sent" /\ ~gone[c] /\ Running(p) = {n}
  /\ RaceOver(p, n)
  /\ deadPeers' = IF raced THEN deadPeers ELSE deadPeers \union {p.at}
  /\ Update(c, i, [Settled(p) EXCEPT !.pc = IF raced THEN "done" ELSE "walk",
                                     !.err = TRUE, !.raced = raced])
  /\ UNCHANGED Unshared

\* A cancelled backup copy ends and frees its slot.
LoserEnds(q) ==
  /\ losers[q] > 0
  /\ losers' = [losers EXCEPT ![q] = @ - 1]
  /\ held'   = [held EXCEPT ![q] = @ - 1]
  /\ UNCHANGED <<Unshared, parts, deadPeers, backups>>
-----------------------------------------------------------------------------
(* runLocal, the requester's leaving, and the reply.                       *)

RunLocal(c, i) ==
  LET p == parts[c][i] IN
  /\ p.pc = "local" /\ ~gone[c]
  /\ \/ Update(c, i, [p EXCEPT !.pc = "done", !.err = FALSE, !.result = p.items])
     \/ Update(c, i, [p EXCEPT !.pc = "done", !.err = TRUE])
  /\ UNCHANGED <<Unshared, deadPeers, held, losers, backups>>

\* Every wait of a part ends with its request.
PartCancelled(c, i) ==
  LET p == parts[c][i] IN
  /\ gone[c] /\ p.pc # "done"
  /\ Update(c, i, [Settled(p) EXCEPT !.pc = "done", !.err = TRUE])
  /\ IF p.pc # "sent" THEN UNCHANGED <<held, losers, backups>>
     ELSE RaceOver(p, Here)
  /\ UNCHANGED <<Unshared, deadPeers>>

\* All parts are in: the results in part order, or the first error.
Reply(c) ==
  /\ phase[c] = "running"
  /\ \A i \in DOMAIN parts[c] : parts[c][i].pc = "done"
  /\ IF \E i \in DOMAIN parts[c] : parts[c][i].err
     THEN /\ phase' = [phase EXCEPT ![c] = IF gone[c] THEN "cancelled" ELSE "failed"]
          /\ UNCHANGED answer
     ELSE /\ phase'  = [phase EXCEPT ![c] = "answered"]
          /\ answer' = [answer EXCEPT ![c] =
               FlattenSeq([i \in DOMAIN parts[c] |-> parts[c][i].result])]
  /\ UNCHANGED <<kind, gone, parts, deadPeers, held, losers, backups>>

\* Every chunk was answered or given up.
Finished ==
  /\ \A c \in Chunk : phase[c] \notin {"idle", "running"}
  /\ \A q \in Peer : losers[q] = 0
  /\ UNCHANGED vars
-----------------------------------------------------------------------------
PartStep(c, i) ==
  \/ SkipDead(c, i) \/ WalkEnds(c, i) \/ EnterGate(c, i) \/ Gate(c, i)
  \/ BudgetSpent(c, i) \/ RunLocal(c, i) \/ PartCancelled(c, i)

Next ==
  \/ \E c \in Chunk :
       \/ Begin(c) \/ Cancel(c) \/ Reply(c)
       \/ \E i \in DOMAIN parts[c] :
            \/ PartStep(c, i) \/ CopyToPeer(c, i) \/ TailBackup(c, i)
            \/ \E n \in Node : CopyWins(c, i, n) \/ CopyFails(c, i, n) \/ LastCopyFails(c, i, n)
  \/ \E q \in Peer : LoserEnds(q)
  \/ Finished

Spec == Init /\ [][Next]_vars

\* Goroutines run, timers fire, work on this node and cancelled requests end;
\* a peer owes nothing.
Fairness ==
  /\ \A c \in Chunk : WF_vars(Reply(c))
  /\ \A c \in Chunk : \A i \in 1..Items :
       /\ WF_vars(i \in DOMAIN parts[c] /\ PartStep(c, i))
       /\ WF_vars(i \in DOMAIN parts[c] /\
                  (CopyWins(c, i, Here) \/ CopyFails(c, i, Here) \/ LastCopyFails(c, i, Here)))
  /\ \A q \in Peer : WF_vars(LoserEnds(q))

FairSpec == Spec /\ Fairness
-----------------------------------------------------------------------------
PartType ==
  [items : Seq(1..Items), todo : Seq(Peer), steal : BOOLEAN,
   pc : {"walk", "gate", "sent", "local", "done"},
   cands : SUBSET Peer, at : Node, copies : [Node -> {"none", "running", "failed"}],
   checked : BOOLEAN, tail : BOOLEAN, tried : BOOLEAN, err : BOOLEAN, raced : BOOLEAN,
   result : Seq(1..Items)]

\* Chunks and parts have the shape runChunk gives them; a peer never holds more
\* parts, copies that lost included, than its depth.
TypeOK ==
  /\ kind \in [Chunk -> Kinds]
  /\ phase \in [Chunk -> {"idle", "running", "answered", "failed", "cancelled"}]
  /\ gone \in [Chunk -> BOOLEAN]
  /\ parts \in [Chunk -> Seq(PartType)]
  /\ answer \in [Chunk -> Seq(1..Items)]
  /\ deadPeers \subseteq Peer
  /\ held \in [Peer -> 0..Depth] /\ losers \in [Peer -> 0..Depth]
  /\ backups \in BOOLEAN

\* The book is the truth: what it holds for a peer is the parts running there
\* and the backup copies there that run or still end, so no slot is leaked or
\* given out twice by races, failures and cancels; and "at most one at a time":
\* one part of one chunk has the tail backup, whose flag comes back when its
\* race ends, however it ends.
UsesPeer(p, q) == p.pc = "sent" /\ (p.at = q \/ p.copies[q] = "running")
Uses(q) ==
  {x \in Chunk \X (1..Items) : x[2] \in DOMAIN parts[x[1]] /\ UsesPeer(parts[x[1]][x[2]], q)}
Tails == {x \in Chunk \X (1..Items) : x[2] \in DOMAIN parts[x[1]] /\ parts[x[1]][x[2]].tail}
BookIsTrue ==
  /\ TypeOK
  /\ \A q \in Peer : held[q] = losers[q] + Cardinality(Uses(q))
  /\ Cardinality(Tails) = IF backups THEN 1 ELSE 0

\* The items of a chunk that reach its requester keep their order, and those
\* missing belong to parts none of whose peers was ever asked.
Untried(c) ==
  UNION {ToSet(parts[c][i].items) : i \in {j \in DOMAIN parts[c] :
           ~parts[c][j].tried /\ parts[c][j].result = <<>>}}
TriedIsAnswered ==
  \A c \in Chunk : phase[c] = "answered" =>
    /\ \A i, j \in DOMAIN answer[c] : i < j => answer[c][i] < answer[c][j]
    /\ ToSet(answer[c]) = (1..Items) \ Untried(c)

\* Every chunk ends although peers may never answer: the budget starts a copy
\* here, waiting parts get the slots that come back.  Only a part whose copy
\* here failed while its peer is silent can wait on, and with it, in this chunk
\* or another, those that wait for the slot it holds.
Stranded(c) == \E i \in DOMAIN parts[c] : parts[c][i].copies[Here] = "failed"
ChunkEndsIfLocalWorks ==
  \A c \in Chunk :
    (phase[c] = "running") ~> (phase[c] # "running" \/ \E d \in Chunk : Stranded(d))

\* remotePartBudget is how long a part may spend on peers, and a copy here
\* after it the never-stuck guarantee: every chunk ends.
ChunkEnds == \A c \in Chunk : (phase[c] = "running") ~> (phase[c] # "running")

\* runChunk: a part falls back to local if its peers fail, nothing is lost.
WholeAnswer == \A c \in Chunk : phase[c] = "answered" => answer[c] = AllItems
=============================================================================
