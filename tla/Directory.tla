----------------------------- MODULE Directory -----------------------------
(***************************************************************************)
(* How one daemon keeps its address book true: the poll cycle              *)
(* (daemonapi/nodespeers.go, nodespoll.go), LAN discovery, the forwarders  *)
(* of internet mode and their retries, address gossip (gossip.go), and the *)
(* key expected at each address (tlsid).  The tables are NodeStore's.      *)
(*                                                                         *)
(* Around it moves the world: who answers at which address, links that     *)
(* come up and go, time that passes, and a daemon that dies and comes back *)
(* with the files it wrote.  Polls run side by side: the ticker's, and one *)
(* more for every forwarder that answers.                                  *)
(***************************************************************************)
EXTENDS NodeStore, FiniteSets, Sequences

CONSTANTS
    Self,           \* this daemon
    Lan,            \* addresses on this machine's networks
    Home,           \* the one this machine has at first
    Fwd,            \* loopback ports internet mode forwards from
    Polls,          \* polls that may run at once
    Ticker,         \* the one StartPeerPoller's ticker drives
    Nobody, Stranger,       \* nothing, or a machine outside the cluster, answers
    RetrySoon,      \* tries of retrySoon (retrySoonDelays)
    Events,         \* what the world may do to the daemon
    MaxEvents       \* and how many of these, each at most once: a bound

Peers == Nodes \ {Self}

ASSUME DirectoryAssumption ==
    /\ Self \in Nodes
    /\ Addrs = Lan \cup Fwd
    /\ Lan \cap Fwd = {}
    /\ Home \in Lan
    /\ Ticker \in Polls
    /\ {Nobody, Stranger} \cap (Nodes \cup Addrs) = {}
    /\ Nobody # Stranger
    /\ Events \subseteq {"move", "link", "relink", "lost", "tick", "crash"}
    /\ {RetrySoon, MaxEvents} \subseteq Nat

VARIABLES
    row, path,      \* the store's two tables (NodeStore), on disk
    pin,            \* tlsid's pins with Expected set, on disk
    pending,        \* forwarders whose peer has not answered
    pathGen,        \* RemovePeer calls so far
    removedAt,      \* the generation each forwarder was removed at
    strangers,      \* <<node, address>> pairs gossip may not bring back
    tries,          \* AddPeer, retrySoon and retryPending in progress
    poll,           \* pollAllNodes in progress
    asked,          \* a poll is to be started (go s.pollAllNodes()); several are one
    known,          \* gossip.records: the newest record held of each peer
    links,          \* internet mode's links
    lives,          \* who answers at each address
    signed,         \* the records each peer has signed: its hosts, in order
    used            \* the events so far

table == <<row, path>>
memory == <<pending, pathGen, removedAt, strangers, known>>
world == <<links, lives, signed>>
vars == <<table, pin, memory, tries, poll, asked, world, used>>

----------------------------------------------------------------------------
\* A path a poll has still to try: what candidateOrder sorts.
Candidates == [addr: Addrs, kind: Kinds, active: BOOLEAN]

\* pollOne in progress.  ans is what the probe of cur answered; at is ph's
\* address: where the node was shown, then where it answered (verified).
Jobs ==
    [pc: {"off", "since", "paths", "probe", "record", "forget", "done"},
     since: Nat, todo: SUBSET Candidates, cur: Addrs \cup {Nobody},
     ans: Nodes \cup {"fail", "unproven", "wrongkey", "none"},
     verified: BOOLEAN, at: Addrs \cup {Nobody}, unproven: SUBSET Addrs]

NoJob ==
    [pc |-> "off", since |-> 0, todo |-> {}, cur |-> Nobody, ans |-> "none",
     verified |-> FALSE, at |-> Nobody, unproven |-> {}]

\* pollAllNodes in progress; healths is what it published as s.peerHealths,
\* learn what applyRecord has checked and not yet written.
PollStates ==
    [stage: {"idle", "self", "pending", "retry", "check", "gossip", "prune"},
     job: [Peers -> Jobs], healths: [Addrs -> Peers \cup {Nobody}],
     learn: SUBSET (Peers \X Lan)]

IdlePoll ==
    [stage |-> "idle", job |-> [n \in Peers |-> NoJob],
     healths |-> [a \in Addrs |-> Nobody], learn |-> {}]

\* One forwarder being tried: by AddPeer ("add"), by its retrySoon, or by the
\* retryPending of a poll.  left is how many tries remain.
TryStates ==
    [by: {"add", "soon"} \cup Polls, addr: Fwd, since: Nat, left: 0..RetrySoon,
     pc: {"wait", "probe", "record", "unpend"}, ans: Nodes \cup {"fail", "none"}]

\* joining: OnPeer is still running; open: the forwarder's listener is.
LinkStates == [node: Peers, addr: Fwd, joining: BOOLEAN, open: BOOLEAN]

TypeOK ==
    /\ row \in [Nodes -> Rows]
    /\ path \in [Nodes -> [Addrs -> Paths]]
    /\ pin \in [Addrs -> Peers \cup {Nobody}]
    /\ pending \subseteq Fwd
    /\ pathGen \in Nat
    /\ removedAt \in [Addrs -> Nat]
    /\ strangers \subseteq Peers \X Addrs
    /\ tries \subseteq TryStates
    /\ poll \in [Polls -> PollStates]
    /\ asked \in BOOLEAN
    /\ known \in [Peers -> Nat]
    /\ links \subseteq LinkStates
    /\ lives \in [Addrs -> Nodes \cup {Nobody, Stranger}]
    /\ signed \in [Peers -> Seq(SUBSET Lan) \ {<< >>}]
    /\ used \subseteq Events

\* A daemon that starts on an empty store, its peers somewhere on the LAN.
\* Every machine answers at one LAN address at most.
Init ==
    /\ row = [n \in Nodes |-> NoRow]
    /\ path = [n \in Nodes |-> [a \in Addrs |-> NoPath]]
    /\ pin = [a \in Addrs |-> Nobody]
    /\ pending = {} /\ pathGen = 0 /\ removedAt = [a \in Addrs |-> 0]
    /\ strangers = {}
    /\ known = [n \in Peers |-> 0]
    /\ tries = {} /\ links = {} /\ asked = FALSE
    /\ poll = [p \in Polls |-> IdlePoll]
    /\ lives \in {f \in [Addrs -> Nodes \cup {Nobody, Stranger}] :
                    /\ \A a \in Fwd : f[a] = Nobody
                    /\ \A a, b \in Lan : f[a] = f[b] => a = b \/ f[a] \in {Nobody, Stranger}
                    /\ f[Home] = Self}
    /\ signed = [n \in Peers |-> <<{a \in Lan : lives[a] = n}>>]
    /\ used = {}

Event(e) ==
    /\ e \in Events \ used
    /\ Cardinality(used) < MaxEvents
    /\ used' = used \cup {e}

----------------------------------------------------------------------------
(* Probes and verified paths. *)

\* probeHealth at a: who answers, as far as the caller can tell.  A forwarder
\* is loopback, where no certificate is checked; elsewhere the key must be the
\* pinned node's (CheckOrPin), and a machine of another cluster either shows
\* another key or fails the proof of the token.
Answers(a) ==
    CASE lives[a] = Nobody -> {"fail"}
      [] lives[a] = Stranger ->
            {"unproven"} \cup (IF pin[a] # Nobody THEN {"wrongkey"} ELSE {})
      [] lives[a] \in Nodes ->
            IF a \in Lan /\ pin[a] \notin {Nobody, lives[a]} THEN {"wrongkey"} ELSE {lives[a]}

\* A probe of a answers ans; an answer may also be lost on the way.
Probed(a, ans) ==
    \/ ans \in Answers(a) /\ UNCHANGED used
    \/ ans = "fail" /\ lives[a] # Nobody /\ Event("lost")

\* A mutant of the next: off by one generation.
RemovedLate(a, since) == removedAt[a] > since + 1

\* verifyPath's check, under pathMu with the write.
Removed(a, since) == removedAt[a] > since

\* verifyPath: PathOK and the pin.
VerifyPath(n, k, a) ==
    /\ row' = VerifyRow(row, n)
    /\ path' = PathOK(path, n, k, a)
    /\ pin' = [pin EXCEPT ![a] = n]

----------------------------------------------------------------------------
(* Forwarders: AddPeer, RemovePeer, retrySoon, retryPending. *)

NewTry(by, a, left) ==
    [by |-> by, addr |-> a, since |-> pathGen, left |-> left, pc |-> "probe", ans |-> "none"]

\* linkUp: a listener on a free port, then OnPeer, which is AddPeer.  A port
\* whose OnPeer still runs is not handed out again.
LinkUp(n, a) ==
    /\ \A l \in links : l.open => l.node # n
    /\ \A l \in links : l.addr = a => ~l.open /\ ~l.joining
    /\ Event(IF "link" \in used THEN "relink" ELSE "link")
    /\ links' = links \cup {[node |-> n, addr |-> a, joining |-> TRUE, open |-> TRUE]}
    /\ lives' = [lives EXCEPT ![a] = n]
    /\ tries' = tries \cup {NewTry("add", a, RetrySoon)}
    /\ UNCHANGED <<table, pin, memory, poll, asked, signed>>

\* dropWhere: the link is off the manager's table and its listener closed.
LinkDown(l) ==
    /\ l.open
    /\ links' = (links \ {l}) \cup {[l EXCEPT !.open = FALSE]}
    /\ lives' = [lives EXCEPT ![l.addr] = Nobody]
    /\ UNCHANGED <<table, pin, memory, tries, poll, asked, signed, used>>

\* OnPeer has returned (announced.Done).
Announced(a) ==
    links' = {IF l.addr = a THEN [l EXCEPT !.joining = FALSE] ELSE l : l \in links}

\* gone: OnPeerGone once OnPeer has returned, which is RemovePeer.
RemovePeer(l) ==
    /\ ~l.open /\ ~l.joining
    /\ links' = links \ {l}
    /\ pathGen' = pathGen + 1
    /\ removedAt' = [removedAt EXCEPT ![l.addr] = pathGen + 1]
    /\ pending' = pending \ {l.addr}
    /\ path' = [n \in Nodes |-> [path[n] EXCEPT ![l.addr] = NoPath]]
    /\ pin' = [pin EXCEPT ![l.addr] = Nobody]
    /\ UNCHANGED <<row, strangers, known, tries, poll, asked, lives, signed, used>>

Retry(t, u) == tries' = (tries \ {t}) \cup {u}
EndTry(t) == tries' = tries \ {t}

\* retrySoon wakes: it stops when the address is not pending any more.
TryWake(t) ==
    /\ t.pc = "wait"
    /\ IF t.addr \in pending THEN Retry(t, [t EXCEPT !.pc = "probe"]) ELSE EndTry(t)
    /\ UNCHANGED <<table, pin, memory, poll, asked, world, used>>

TryProbe(t) ==
    /\ t.pc = "probe"
    /\ \E ans \in Nodes \cup {"fail"} :
          /\ Probed(t.addr, ans)
          /\ Retry(t, [t EXCEPT !.pc = "record", !.ans = ans])
    /\ UNCHANGED <<table, pin, memory, poll, asked, world>>

\* The next try after one that did not adopt the path: retrySoon sleeps again,
\* a poll's retryPending leaves the address for the next poll.
NextTry(t) ==
    IF t.by = "soon" /\ t.left > 1
    THEN Retry(t, [t EXCEPT !.pc = "wait", !.left = @ - 1, !.ans = "none"])
    ELSE EndTry(t)

\* AddPeer: no answer.  Pending, and retrySoon, unless removed meanwhile.
AddPeerFails(t) ==
    /\ t.pc = "record" /\ t.by = "add" /\ t.ans = "fail"
    /\ IF Removed(t.addr, t.since)
       THEN EndTry(t) /\ UNCHANGED pending
       ELSE /\ pending' = pending \cup {t.addr}
            /\ IF RetrySoon = 0 THEN EndTry(t)
               ELSE Retry(t, [t EXCEPT !.by = "soon", !.pc = "wait", !.ans = "none"])
    /\ Announced(t.addr)
    /\ UNCHANGED <<table, pin, pathGen, removedAt, strangers, known, poll,
                   asked, lives, signed, used>>

\* AddPeer: an answer.  adoptPath, then a poll at once.
AddPeerAnswers(t) ==
    /\ t.pc = "record" /\ t.by = "add" /\ t.ans # "fail"
    /\ IF Removed(t.addr, t.since)
       THEN UNCHANGED <<table, pin>>
       ELSE VerifyPath(t.ans, "internet", t.addr)
    /\ EndTry(t)
    /\ Announced(t.addr)
    /\ asked' = TRUE
    /\ UNCHANGED <<memory, poll, lives, signed, used>>

\* tryPending: still no answer, and still pending.
TryFails(t) ==
    /\ t.pc = "record" /\ t.by # "add" /\ t.ans = "fail"
    /\ NextTry(t)
    /\ UNCHANGED <<table, pin, memory, poll, asked, world, used>>

\* tryPending: adoptPath.  The ans of a refused one is forgotten.
TryAdopts(t) ==
    /\ t.pc = "record" /\ t.by # "add" /\ t.ans # "fail"
    /\ IF Removed(t.addr, t.since)
       THEN Retry(t, [t EXCEPT !.pc = "unpend", !.ans = "none"]) /\ UNCHANGED <<table, pin>>
       ELSE Retry(t, [t EXCEPT !.pc = "unpend"]) /\ VerifyPath(t.ans, "internet", t.addr)
    /\ UNCHANGED <<memory, poll, asked, world, used>>

\* tryPending: off the pending list, adopted or not; retrySoon polls at once
\* when it was.
TryUnpends(t) ==
    /\ t.pc = "unpend"
    /\ pending' = pending \ {t.addr}
    /\ IF t.ans = "none" THEN NextTry(t) ELSE EndTry(t)
    /\ asked' = (asked \/ (t.by = "soon" /\ t.ans # "none"))
    /\ UNCHANGED <<table, pin, pathGen, removedAt, strangers, known, poll,
                   world, used>>

----------------------------------------------------------------------------
(* pollAllNodes. *)

SetPoll(p, st) == poll' = [poll EXCEPT ![p] = st]
Stage(p, s) == poll' = [poll EXCEPT ![p].stage = s]

\* The peers a probe of the LAN could hear.
OnLan == {n \in Peers : \E a \in Lan : lives[a] = n}

\* A poll begins: the ticker's next, or one AddPeer or retrySoon asked for.
\* Discovery comes first and adds candidates only; a reply may be lost.
StartPoll(p) ==
    /\ poll[p].stage = "idle"
    /\ p = Ticker \/ asked
    /\ asked' = (asked /\ p = Ticker)
    /\ \E heard \in SUBSET OnLan :
          /\ \/ heard = OnLan /\ UNCHANGED used
             \/ heard # OnLan /\ Event("lost")
          /\ row' = [n \in Nodes |-> IF n \in heard THEN SeeRow(row, n)[n] ELSE row[n]]
          /\ path' = [n \in Nodes |-> [a \in Addrs |->
                IF n \in heard /\ a \in Lan /\ lives[a] = n
                THEN Seen(path[n][a], "lan") ELSE path[n][a]]]
    /\ Stage(p, "self")
    /\ UNCHANGED <<pin, memory, tries, world>>

\* upsertSelf: PathOK for the address the kernel would use, then MarkHealthy.
UpsertSelf(p) ==
    /\ poll[p].stage = "self"
    /\ \E a \in Lan :
          /\ lives[a] = Self
          /\ path' = PathOK(path, Self, "self", a)
    /\ row' = MarkHealthy(VerifyRow(row, Self), Self)
    /\ Stage(p, "pending")
    /\ UNCHANGED <<pin, memory, tries, asked, world, used>>

\* retryPending: the generation and the addresses, then a try of each.
RetryPending(p) ==
    /\ poll[p].stage = "pending"
    /\ tries' = tries \cup {NewTry(p, f, 0) : f \in pending}
    /\ Stage(p, "retry")
    /\ UNCHANGED <<table, pin, memory, asked, world, used>>

\* ListAll, once retryPending has tried them all; a pollOne for every peer.
ListNodes(p) ==
    /\ poll[p].stage = "retry"
    /\ \A t \in tries : t.by # p
    /\ \E at \in [Peers -> Addrs \cup {Nobody}] :
          /\ \A n \in Peers :
                IF Shown(path, n) = {} THEN at[n] = Nobody ELSE at[n] \in Shown(path, n)
          /\ SetPoll(p, [poll[p] EXCEPT !.stage = "check", !.job =
                [n \in Peers |-> IF row[n] = NoRow THEN NoJob
                                 ELSE [NoJob EXCEPT !.pc = "since", !.at = at[n]]]])
    /\ UNCHANGED <<table, pin, memory, tries, asked, world, used>>

SetJob(p, n, j) == poll' = [poll EXCEPT ![p].job[n] = j]

\* pollOne: the generation, then the paths.
PollSince(p, n) ==
    /\ poll[p].job[n].pc = "since"
    /\ SetJob(p, n, [poll[p].job[n] EXCEPT !.pc = "paths", !.since = pathGen])
    /\ UNCHANGED <<table, pin, memory, tries, asked, world, used>>

PollPaths(p, n) ==
    /\ poll[p].job[n].pc = "paths"
    /\ SetJob(p, n, [poll[p].job[n] EXCEPT !.pc = "probe", !.todo =
          {[addr |-> a, kind |-> path[n][a].kind, active |-> path[n][a].active] :
              a \in {b \in Addrs : IsPath(path[n][b])}}])
    /\ UNCHANGED <<table, pin, memory, tries, asked, world, used>>

\* candidateOrder: the active path, then lan before internet before gossip.
Precedes(c, d) ==
    \/ c.active /\ ~d.active
    \/ c.active = d.active /\ Rank(c.kind) > Rank(d.kind)

\* A mutant of the next: pollOne stops at the first path that answers.
LeftNone(j) == {c \in j.todo : ~j.verified}

\* What pollOne still tries: once a path answered, only lan ones.
Left(j) == {c \in j.todo : j.verified => c.kind = "lan"}

FirstOf(cs) == {c \in cs : \A d \in cs : ~Precedes(d, c)}

\* A probe of the next candidate.  (A gossiped private address off this
\* machine's networks would be passed over: Lan holds none.)
PollProbe(p, n) ==
    LET j == poll[p].job[n] IN
    /\ j.pc = "probe"
    /\ \E c \in FirstOf(Left(j)), ans \in Nodes \cup {"fail", "unproven", "wrongkey"} :
          /\ Probed(c.addr, ans)
          /\ SetJob(p, n, [j EXCEPT !.pc = "record", !.todo = Left(j), !.cur = c.addr, !.ans = ans])
    /\ UNCHANGED <<table, pin, memory, tries, asked, world>>

\* The candidate just probed is done with.
Probing(j) ==
    [j EXCEPT !.pc = "probe", !.cur = Nobody, !.ans = "none",
              !.todo = {c \in @ : c.addr # j.cur}]

\* The probe failed, or something answered that could not prove the token.
PollFailed(p, n) ==
    LET j == poll[p].job[n] IN
    /\ j.pc = "record" /\ j.ans \in {"fail", "unproven"}
    /\ path' = PathFailed(path, n, j.cur)
    /\ SetJob(p, n, [Probing(j) EXCEPT !.unproven =
          IF j.ans = "unproven" THEN @ \cup {j.cur} ELSE @])
    /\ UNCHANGED <<row, pin, memory, tries, asked, world, used>>

\* Another key, or another node: dropPath, in two steps.
PollDrops(p, n) ==
    LET j == poll[p].job[n] IN
    /\ j.pc = "record" /\ j.ans \notin {"fail", "unproven", n}
    /\ path' = DropPath(path, n, j.cur)
    /\ SetJob(p, n, [j EXCEPT !.pc = "forget"])
    /\ UNCHANGED <<row, pin, memory, tries, asked, world, used>>

PollForgets(p, n) ==
    LET j == poll[p].job[n] IN
    /\ j.pc = "forget"
    /\ pin' = [pin EXCEPT ![j.cur] = Nobody]
    /\ SetJob(p, n, Probing(j))
    /\ UNCHANGED <<table, memory, tries, asked, world, used>>

\* The node itself answered: verifyPath, refused when RemovePeer came between.
PollVerifies(p, n) ==
    LET j == poll[p].job[n]
        kind == (CHOOSE c \in j.todo : c.addr = j.cur).kind
    IN
    /\ j.pc = "record" /\ j.ans = n
    /\ IF Removed(j.cur, j.since)
       THEN SetJob(p, n, Probing(j)) /\ UNCHANGED <<table, pin>>
       ELSE /\ VerifyPath(n, kind, j.cur)
            /\ SetJob(p, n, [Probing(j) EXCEPT
                  !.verified = TRUE, !.at = IF j.verified THEN @ ELSE j.cur])
    /\ UNCHANGED <<memory, tries, asked, world, used>>

\* No path answered: the refused candidates may be learnt again.
PollUnreachable(p, n) ==
    LET j == poll[p].job[n] IN
    /\ j.pc = "probe" /\ Left(j) = {} /\ ~j.verified
    /\ strangers' = {s \in strangers : s[1] # n}
    /\ row' = MarkUnreachable(row, n)
    /\ SetJob(p, n, [NoJob EXCEPT !.pc = "done", !.at = j.at])
    /\ UNCHANGED <<path, pin, pending, pathGen, removedAt, known, tries, asked,
                   world, used>>

\* dropStranger, for each unproven candidate but the one that works.
PollDropsStranger(p, n) ==
    LET j == poll[p].job[n] IN
    /\ j.pc = "probe" /\ Left(j) = {} /\ j.verified
    /\ \E a \in j.unproven :
          /\ SetJob(p, n, [j EXCEPT !.unproven = @ \ {a}])
          /\ IF a = j.at
             THEN UNCHANGED <<strangers, path>>
             ELSE /\ strangers' = strangers \cup {<<n, a>>}
                  /\ path' = DropPath(path, n, a)
    /\ UNCHANGED <<row, pin, pending, pathGen, removedAt, known, tries, asked,
                   world, used>>

PollHealthy(p, n) ==
    LET j == poll[p].job[n] IN
    /\ j.pc = "probe" /\ Left(j) = {} /\ j.verified /\ j.unproven = {}
    /\ row' = MarkHealthy(row, n)
    /\ SetJob(p, n, [NoJob EXCEPT !.pc = "done", !.verified = TRUE, !.at = j.at])
    /\ UNCHANGED <<path, pin, memory, tries, asked, world, used>>

\* finalHealths is keyed by address: where several pollOne ended with the same
\* one, whichever wrote last is there.  Only a healthy entry is ever used.
Finals(p) ==
    LET Ended(a) == {n \in Peers : poll[p].job[n].pc = "done" /\ poll[p].job[n].at = a}
        Entry(n) == IF poll[p].job[n].verified THEN n ELSE Nobody
    IN  {f \in [Addrs -> Peers \cup {Nobody}] : \A a \in Addrs :
            IF Ended(a) = {} THEN f[a] = Nobody ELSE f[a] \in {Entry(n) : n \in Ended(a)}}

Publish(p) ==
    /\ poll[p].stage = "check"
    /\ \A n \in Peers : poll[p].job[n].pc \in {"off", "done"}
    /\ \E f \in Finals(p) : SetPoll(p, [IdlePoll EXCEPT !.stage = "gossip", !.healths = f])
    /\ UNCHANGED <<table, pin, memory, tries, asked, world, used>>

\* learnAddresses: a record newer than the one held; isStranger on each host.
Learn(p) ==
    /\ poll[p].stage = "gossip" /\ poll[p].learn = {}
    /\ \E a \in Addrs : poll[p].healths[a] # Nobody
    /\ \E n \in Peers : \E s \in DOMAIN signed[n] :
          /\ s > known[n]
          /\ known' = [known EXCEPT ![n] = s]
          /\ SetPoll(p, [poll[p] EXCEPT !.learn =
                {<<n, a>> : a \in signed[n][s]} \ strangers])
    /\ UNCHANGED <<table, pin, pending, pathGen, removedAt, strangers, tries,
                   asked, world, used>>

\* applyRecord's SeePath.
LearnSees(p) ==
    /\ \E c \in poll[p].learn :
          /\ row' = SeeRow(row, c[1])
          /\ path' = SeePath(path, c[1], "gossip", c[2])
          /\ SetPoll(p, [poll[p] EXCEPT !.learn = @ \ {c}])
    /\ UNCHANGED <<pin, memory, tries, asked, world, used>>

\* No pull is due (gossipEvery), or it is over.
GossipOver(p) ==
    /\ poll[p].stage = "gossip" /\ poll[p].learn = {}
    /\ SetPoll(p, [IdlePoll EXCEPT !.stage = "prune"])
    /\ UNCHANGED <<table, pin, memory, tries, asked, world, used>>

PruneStale(p) ==
    /\ poll[p].stage = "prune"
    /\ row' = PruneRows(row, path)
    /\ path' = PrunePaths(row, path)
    /\ Stage(p, "idle")
    /\ UNCHANGED <<pin, memory, tries, asked, world, used>>

----------------------------------------------------------------------------
(* The world. *)

\* A machine takes another address, whoever was there before is elsewhere or
\* off; a peer signs a record of its new hosts: this one and its first.
Move(n, a) ==
    /\ lives[a] \notin {n, Self}
    /\ Event("move")
    /\ lives' = [b \in Addrs |-> IF b = a THEN n
                                 ELSE IF b \in Lan /\ lives[b] = n THEN Nobody ELSE lives[b]]
    /\ signed' = [m \in Peers |->
          IF m = n THEN Append(signed[m], signed[m][1] \cup {a}) ELSE signed[m]]
    /\ UNCHANGED <<table, pin, memory, tries, poll, asked, links>>

\* A machine goes off, or one outside the cluster takes its address.
Vacate(a, x) ==
    /\ lives[a] \notin {Self, x}
    /\ Event("move")
    /\ lives' = [lives EXCEPT ![a] = x]
    /\ UNCHANGED <<table, pin, memory, tries, poll, asked, links, signed>>

\* Nothing is heard for a while.
Tick(d) ==
    /\ Event("tick")
    /\ row' = [n \in Nodes |-> AgeRow(row[n], d)]
    /\ path' = [n \in Nodes |-> [a \in Addrs |-> AgePath(path[n][a], d)]]
    /\ UNCHANGED <<pin, memory, tries, poll, asked, world>>

\* The daemon dies and starts again: the store and the pins are files, the
\* rest was memory, and its forwarders die with it.
Restart ==
    /\ Event("crash")
    /\ pending' = {} /\ pathGen' = 0 /\ removedAt' = [a \in Addrs |-> 0]
    /\ strangers' = {}
    /\ known' = [n \in Peers |-> 0]
    /\ tries' = {} /\ links' = {} /\ asked' = FALSE
    /\ poll' = [p \in Polls |-> IdlePoll]
    /\ lives' = [a \in Addrs |-> IF a \in Fwd THEN Nobody ELSE lives[a]]
    /\ UNCHANGED <<table, pin, signed>>

TryStep ==
    \E t \in tries :
        \/ TryWake(t) \/ TryProbe(t) \/ AddPeerFails(t) \/ AddPeerAnswers(t)
        \/ TryFails(t) \/ TryAdopts(t) \/ TryUnpends(t)

JobStep(p, n) ==
    \/ PollSince(p, n) \/ PollPaths(p, n) \/ PollProbe(p, n) \/ PollFailed(p, n)
    \/ PollDrops(p, n) \/ PollForgets(p, n) \/ PollVerifies(p, n)
    \/ PollUnreachable(p, n) \/ PollDropsStranger(p, n) \/ PollHealthy(p, n)

PollStep(p) ==
    \/ StartPoll(p) \/ UpsertSelf(p) \/ RetryPending(p) \/ ListNodes(p)
    \/ Publish(p) \/ Learn(p) \/ LearnSees(p) \/ GossipOver(p) \/ PruneStale(p)

WorldStep ==
    \/ \E n \in Nodes, a \in Lan : Move(n, a)
    \/ \E a \in Lan, x \in {Nobody, Stranger} : Vacate(a, x)
    \/ \E n \in Peers, a \in Fwd : LinkUp(n, a)
    \/ \E l \in links : LinkDown(l) \/ RemovePeer(l)
    \/ \E d \in 1..MaxAge : Tick(d)
    \/ Restart

Next ==
    \/ TryStep
    \/ \E p \in Polls : PollStep(p)
    \/ \E p \in Polls, n \in Peers : JobStep(p, n)
    \/ WorldStep

Spec == Init /\ [][Next]_vars

\* The goroutines run, and the ticker ticks; links that are closed are
\* reported.  Nothing else is owed.
FairSpec ==
    /\ Spec
    /\ WF_vars(TryStep)
    /\ \A p \in Polls : WF_vars(PollStep(p))
    /\ \A p \in Polls, n \in Peers : WF_vars(JobStep(p, n))
    /\ WF_vars(\E l \in links : RemovePeer(l))

----------------------------------------------------------------------------
(* Properties. *)

\* The active path of a node is one path, and one that was verified
\* (store.go: "a path becomes active only once it has been verified").
OneActiveVerified ==
    /\ TypeOK
    /\ \A n \in Nodes : \A a, b \in Addrs :
          path[n][a].active => path[n][a].ok /\ (path[n][b].active => a = b)

\* An address that was verified is the address of one node: whatever polls,
\* retries, address changes and restarts interleave, no two rows hold it as
\* verified (PathOK: "no other node is at that address any more"), and the
\* active path is one of them.
OneOwner ==
    /\ OneActiveVerified
    /\ \A a \in Addrs : \A m, n \in Nodes : path[m][a].ok /\ path[n][a].ok => m = n

\* A forwarder that RemovePeer took away stays away: no probe begun before
\* puts its path back or leaves it pending.  (After a crash nothing has been
\* removed yet; a port in use again is another forwarder.)
RemovedStaysGone ==
    \A a \in Fwd :
        removedAt[a] > 0 /\ (\A l \in links : l.addr # a)
            => a \notin pending /\ \A n \in Nodes : ~IsPath(path[n][a])

\* A peer that stays at a LAN address ends up healthy in the book, with that
\* address active, whatever was known, pinned, refused or lost before.
StayingPeerIsFound ==
    \A n \in Peers, a \in Lan :
        <>[](lives[a] = n) => <>[](row[n].state = "healthy" /\ path[n][a].active)

\* A forwarder whose link is up is a path, or pending, or being tried.
OpenForwarderKnown ==
    \A l \in links :
        l.open => \/ l.addr \in pending
                  \/ \E n \in Nodes : IsPath(path[n][l.addr])
                  \/ \E t \in tries : t.addr = l.addr

\* A peer whose path a poll verified is among the peers that poll publishes.
VerifiedIsPublished ==
    [][\A p \in Polls, n \in Peers :
          poll[p].stage = "check" /\ poll'[p].stage = "gossip"
              /\ poll[p].job[n].verified
          => \E a \in Addrs : poll'[p].healths[a] = n]_vars
=============================================================================
