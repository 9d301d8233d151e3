----------------------------- MODULE PeerLinks -----------------------------
(***************************************************************************)
(* How two daemons on different networks reach each other (packages        *)
(* internet, direct, rendezvous): each registers with an introducer, races *)
(* or collides its probes with the other's, dials, and keeps one QUIC      *)
(* connection behind the peer's local port.  Both do this at the same      *)
(* time, so connections cross, replace each other, die and are made again. *)
(*                                                                         *)
(* Time is abstracted to what has run out: a penalty, the window in which  *)
(* a fresh link is defended, the grace of a replaced connection.           *)
(***************************************************************************)
EXTENDS Naturals

CONSTANTS
    MaxConns,       \* connections that exist at a time: a bound
    MaxLinkFaults   \* broken connections, outages, moves, lost requests: a bound

ASSUME LinkAssumption == {MaxConns, MaxLinkFaults} \subseteq Nat

Ends == {1, 2}      \* the two managers, by the order of their fingerprints
Other(n) == 3 - n

Conns == 1..MaxConns
NoConn == 0
DeadConn == MaxConns + 1    \* of a link that outlives its connection

VARIABLES
    nat,        \* "open": a probe finds its way; "hard": only a collision does
    book,       \* each end at the introducer: listed, away but listed, forgotten
    punches,    \* the ends a forwarded request is on its way to
    att,        \* the attempt in flight at each end (m.trying, m.inflight)
    penal,      \* ends that serve a penalty for the peer (m.backoff)
    conns,      \* the connections: who dialled, who has it open, why it closes
    acc,        \* the accepting end of each
    link,       \* m.peers[node].conn at each end
    aged,       \* ends whose link is older than raceWindow
    doomed,     \* ends about to drop the link expired named
    linkFaults

linkVars == <<nat, book, punches, att, penal, conns, acc,
              link, aged, doomed, linkFaults>>

Idle == [pc |-> "idle", by |-> "attempt", kicked |-> FALSE, conn |-> NoConn]
Racing(by) == [Idle EXCEPT !.pc = "race", !.by = by]

\* why is "open", "gone", or "replaced" for the end that has yet to learn it.
Free == [by |-> 1, up |-> {}, why |-> "open"]

LinkTypeOK ==
    /\ nat \in {"open", "hard"}
    /\ book \in [Ends -> {"in", "away", "forgotten"}]
    /\ punches \subseteq Ends
    /\ penal \subseteq Ends /\ aged \subseteq Ends /\ doomed \subseteq Ends
    /\ att \in [Ends -> [pc: {"idle", "race", "dial", "hello"}, by: {"attempt", "meet"},
                         kicked: BOOLEAN, conn: Conns \cup {NoConn}]]
    /\ conns \in [Conns -> [by: Ends, up: SUBSET Ends, why: {"open", "gone", "replaced"}]]
    /\ acc \in [Conns -> {"none", "admit", "link"}]
    /\ link \in [Ends -> Conns \cup {NoConn, DeadConn}]
    /\ linkFaults \in 0..MaxLinkFaults

\* Both have registered.
LinkInit ==
    /\ nat \in {"open", "hard"}
    /\ book = [n \in Ends |-> "in"]
    /\ punches = {}
    /\ penal = {} /\ aged = {} /\ doomed = {}
    /\ att = [n \in Ends |-> Idle]
    /\ conns = [c \in Conns |-> Free] /\ acc = [c \in Conns |-> "none"]
    /\ link = [n \in Ends |-> NoConn]
    /\ linkFaults = 0

\* CloseWithError of n: the other end has yet to learn it.
LeftBy(k, n, why) ==
    IF k.up \subseteq {n} THEN Free
    ELSE [k EXCEPT !.up = @ \ {n}, !.why = IF @ = "open" THEN why ELSE @]
Closed(cs, c, n, why) == [cs EXCEPT ![c] = LeftBy(@, n, why)]

Alive(n) == link[n] \in Conns

\* Faults are counted on the open way alone: a bound.
Fault == nat = "open" /\ linkFaults < MaxLinkFaults /\ linkFaults' = linkFaults + 1

\* An attempt is old, or finds no way, when the way is hard or at a fault.
Slow == (nat = "hard" /\ UNCHANGED linkFaults) \/ Fault

----------------------------------------------------------------------------
(* Attempts. *)

\* The introducer answers with whom it has heard of within its ttl.
Listed(n) == book[n] # "forgotten"

\* connect's request to wake the peer, which the introducer forwards to a peer
\* it lists if the bucket of allow has a token; the bucket fills up again.
Woken(q, n) ==
    IF book[n] = "in" /\ book[Other(n)] = "in" THEN {q, q \cup {Other(n)}} ELSE {q}

\* attempt.
Attempt(n) ==
    IF link[n] = NoConn /\ att[n].pc = "idle" /\ n \notin penal'
    THEN att' = [att EXCEPT ![n] = Racing("attempt")] /\ punches' \in Woken(punches, n)
    ELSE UNCHANGED <<att, punches>>

\* kick: a sign of life.  An attempt that is old enough is started again.
Kick(n, restart) ==
    IF Alive(n) THEN UNCHANGED <<att, punches, penal, linkFaults>>
    ELSE /\ penal' = penal \ {n}
         /\ \/ /\ restart /\ att[n].pc # "idle" /\ att[n].by = "attempt" /\ ~att[n].kicked
               /\ Slow
               /\ att' = [att EXCEPT ![n].kicked = TRUE]
               /\ UNCHANGED punches
            \/ Attempt(n) /\ UNCHANGED linkFaults

\* sync, the introducer's handle, and onRegistered: who is listed is attempted.
\* Hint and retryHinted attempt a peer that is not listed.
Poll(n) ==
    /\ UNCHANGED penal
    /\ Attempt(n)
    /\ UNCHANGED <<nat, book, conns, acc, link, aged, doomed, linkFaults>>

\* onRegistered after a time without answers: who is listed is kicked.
NetBack(n) ==
    /\ book[n] # "in"
    /\ book' = [book EXCEPT ![n] = "in"]
    /\ IF Listed(Other(n)) THEN Kick(n, TRUE)
       ELSE UNCHANGED <<att, punches, penal, linkFaults>>
    /\ UNCHANGED <<nat, conns, acc, link, aged, doomed>>

\* probedBy: the peer's probe lifts the penalty.
ProbedBy(n) ==
    /\ n \in penal /\ att[Other(n)].pc = "race"
    /\ Kick(n, FALSE)
    /\ UNCHANGED <<nat, book, conns, acc, link, aged, doomed>>

\* onPunchRequest: answered by racing back, also over a link.
Punched(n) ==
    /\ n \in punches
    /\ IF att[n].pc = "idle"
       THEN /\ att' = [att EXCEPT ![n] = Racing("meet")]
            /\ punches' \in Woken(punches \ {n}, n)
            /\ UNCHANGED <<penal, linkFaults>>
       ELSE /\ punches' = punches \ {n}
            /\ IF Alive(n) THEN UNCHANGED <<att, penal, linkFaults>>
               ELSE /\ penal' = penal \ {n}
                    /\ \/ UNCHANGED <<att, linkFaults>>
                       \/ Slow /\ att' = [att EXCEPT ![n].kicked = (att[n].by = "attempt")]
    /\ UNCHANGED <<nat, book, conns, acc, link, aged, doomed>>

\* Attempts end without a connection: a kicked one is started again, the
\* others of attempt earn a penalty (noPath).
Again(n) == att[n].by = "attempt" /\ att[n].kicked /\ link[n] = NoConn /\ n \notin penal
Ended(n) == IF Again(n) THEN Racing("attempt") ELSE Idle
Failed(n) ==
    /\ att' = [att EXCEPT ![n] = Ended(n)]
    /\ penal' = IF att[n].by = "attempt" /\ ~att[n].kicked THEN penal \cup {n} ELSE penal
    /\ punches' \in IF Again(n) THEN Woken(punches, n) ELSE {punches}

PenaltyEnds(n) ==
    /\ n \in penal /\ penal' = penal \ {n}
    /\ UNCHANGED <<nat, book, punches, att, conns, acc, link, aged, doomed, linkFaults>>

\* SprayToward: who was answered by the other's socket dials it, and finds it
\* only if the other took that socket for its own hit.
Sprayed(n, waits) == n \notin waits /\ Other(n) \in waits

\* OpenMany: who was hit on a socket of its own adopts it and waits for a dial.
Collided(n, waits) ==
    IF Sprayed(n, waits) THEN [att[n] EXCEPT !.pc = "dial"] ELSE Ended(n)

\* raceOrCollide of both at once: probes of each land on sockets of the other,
\* and each takes the hit that came first.
Collide(waits) ==
    /\ nat = "hard" /\ \A n \in Ends : att[n].pc = "race"
    /\ att' = [n \in Ends |-> Collided(n, waits)]
    /\ penal' = penal \cup {n \in Ends : /\ ~Sprayed(n, waits)
                                         /\ att[n].by = "attempt" /\ ~att[n].kicked}
    /\ \E q \in IF att'[1].pc = "race" THEN Woken(punches, 1) ELSE {punches} :
          punches' \in IF att'[2].pc = "race" THEN Woken(q, 2) ELSE {q}
    /\ UNCHANGED <<nat, book, conns, acc, link, aged, doomed, linkFaults>>

\* A kicked attempt is cancelled; others fail when the way is gone, or the
\* machine that answered is not the peer (ReasonIdentity, ReasonVersion).
GiveUp(n) ==
    /\ att[n].pc # "idle"
    /\ \/ att[n].kicked /\ UNCHANGED linkFaults
       \/ Slow
    /\ Failed(n)
    /\ conns' = IF att[n].pc = "hello" THEN Closed(conns, att[n].conn, n, "gone") ELSE conns
    /\ UNCHANGED <<nat, book, acc, link, aged, doomed>>

----------------------------------------------------------------------------
(* Connections. *)

\* Race answers, or a spray did, and Endpoint.Dial sends its hello.
Dial(n) ==
    /\ \/ nat = "open" /\ att[n].pc = "race"
       \/ att[n].pc = "dial"
    /\ \E c \in Conns :
          /\ conns[c] = Free /\ \A d \in Conns : conns[d] = Free => c <= d
          /\ conns' = [conns EXCEPT ![c] = [by |-> n, up |-> Ends, why |-> "open"]]
          /\ acc' = [acc EXCEPT ![c] = "admit"]
          /\ att' = [att EXCEPT ![n].pc = "hello", ![n].conn = c]
    /\ UNCHANGED <<nat, book, punches, penal, link, aged, doomed, linkFaults>>

\* admit: the dialler proved itself, and is shown our own hello.
Admit(c) ==
    /\ acc[c] = "admit"
    /\ acc' = [acc EXCEPT ![c] = "link"]
    /\ UNCHANGED <<nat, book, punches, att, penal, conns, link, aged, doomed, linkFaults>>

\* A mutant of the next: each end keeps the connection it dialled itself.
NewWinsOwn(n, c) == conns[c].by = n

\* newWins: of two made at once both ends keep the lower fingerprint's.
NewWins(n, c) == conns[c].by = 1

\* A mutant of the next: the connection that is replaced stays open.
LinkUpKeepsOld(n, c) ==
    IF Alive(n) /\ n \notin aged /\ ~NewWins(n, c)
    THEN conns' = Closed(conns, c, n, "replaced") /\ UNCHANGED <<link, aged, penal>>
    ELSE /\ link' = [link EXCEPT ![n] = c]
         /\ aged' = aged \ {n}
         /\ penal' = penal \ {n}
         /\ UNCHANGED conns

\* linkUp: a newer connection replaces the link's, unless the link is fresh
\* and the tie-break keeps it.
LinkUpAt(n, c) ==
    IF Alive(n) /\ n \notin aged /\ ~NewWins(n, c)
    THEN conns' = Closed(conns, c, n, "replaced") /\ UNCHANGED <<link, aged, penal>>
    ELSE /\ link' = [link EXCEPT ![n] = c]
         /\ aged' = aged \ {n}
         /\ penal' = penal \ {n}
         /\ conns' = IF Alive(n) THEN Closed(conns, link[n], n, "replaced") ELSE conns

\* onInbound.
Inbound(c) ==
    /\ acc[c] = "link"
    /\ acc' = [acc EXCEPT ![c] = "none"]
    /\ LinkUpAt(Other(conns[c].by), c)
    /\ UNCHANGED <<nat, book, punches, att, doomed, linkFaults>>

\* Dial reads the other's hello, and connect links.
Answered(n) ==
    LET c == att[n].conn IN
    /\ att[n].pc = "hello" /\ acc[c] # "admit"
    /\ att' = [att EXCEPT ![n] = Idle]
    /\ LinkUpAt(n, c)
    /\ UNCHANGED <<nat, book, punches, acc, doomed, linkFaults>>

\* Dial fails; "already connected" is no failure.
Refused(n) ==
    LET c == att[n].conn IN
    /\ att[n].pc = "hello" /\ conns[c].why # "open"
    /\ conns' = Closed(conns, c, n, "gone")
    /\ IF conns[c].why = "replaced" THEN att' = [att EXCEPT ![n] = Idle] /\ UNCHANGED <<penal, punches>>
       ELSE Failed(n)
    /\ UNCHANGED <<nat, book, acc, link, aged, doomed, linkFaults>>

\* dropWhere.
Drop(n) ==
    /\ link' = [link EXCEPT ![n] = NoConn]
    /\ aged' = aged \ {n}
    /\ conns' = IF Alive(n) THEN Closed(conns, link[n], n, "gone") ELSE conns

\* The waits of a link are longer than a handshake takes.
Handshake == \E c \in Conns : acc[c] # "none" \/ \E n \in Ends : att[n].conn = c

\* watchConn: a link whose connection the far end replaced waits for the
\* winner, and is dropped when none came.
GraceEnds(n) ==
    /\ link[n] = DeadConn
    /\ (~Handshake /\ UNCHANGED linkFaults) \/ Slow
    /\ Drop(n)
    /\ UNCHANGED <<nat, book, punches, att, penal, acc, doomed>>

\* The close, or the idle timeout, reaches an end: a handshake fails, and
\* watchConn drops the link unless the connection was replaced.
LearnClose(c, n) ==
    /\ conns[c].why # "open" /\ n \in conns[c].up /\ att[n].conn # c
    /\ acc' = [acc EXCEPT ![c] = IF conns[c].by = n THEN @ ELSE "none"]
    /\ conns' = Closed(conns, c, n, "gone")
    /\ link' = IF link[n] # c THEN link
               ELSE [link EXCEPT ![n] = IF conns[c].why = "replaced" THEN DeadConn ELSE NoConn]
    /\ aged' = IF link[n] = c THEN aged \ {n} ELSE aged
    /\ UNCHANGED <<nat, book, punches, att, penal, doomed, linkFaults>>

\* expired names the peer of a dead link nobody lists; the lock is let go
\* before dropLink takes it again.
Expired(n) ==
    /\ book[n] = "in" /\ link[n] = DeadConn /\ ~Listed(Other(n))
    /\ doomed' = doomed \cup {n}
    /\ UNCHANGED <<nat, book, punches, att, penal, conns, acc, link, aged, linkFaults>>

DropExpired(n) ==
    /\ n \in doomed
    /\ doomed' = doomed \ {n}
    /\ Drop(n)
    /\ UNCHANGED <<nat, book, punches, att, penal, acc, linkFaults>>

\* raceWindow passes.  The links of one connection are made within moments of
\* each other, so only a fault makes one end count it over and the other not.
Age ==
    /\ ~Handshake
    /\ \/ aged' = {n \in Ends : Alive(n)} /\ UNCHANGED linkFaults
       \/ \E n \in Ends : Alive(n) /\ aged' = aged \cup {n} /\ Fault
    /\ UNCHANGED <<nat, book, punches, att, penal, conns, acc, link, doomed>>

----------------------------------------------------------------------------
(* The world. *)

\* The path under a connection is gone; each end finds out by itself.
Break(c) ==
    /\ Fault
    /\ conns[c].why = "open" /\ conns[c].up # {}
    /\ conns' = [conns EXCEPT ![c].why = "gone"]
    /\ UNCHANGED <<nat, book, punches, att, penal, acc, link, aged, doomed>>

\* watchInterfaces and moveLinks: a connection this end dialled migrates or is
\* redialled, one the peer dialled is redialled; the new address is news.
Moved(n) ==
    /\ Fault
    /\ Alive(n)
    /\ conns' \in {conns, [conns EXCEPT ![link[n]].why = IF @ = "open" THEN "gone" ELSE @]}
    /\ \/ conns[link[n]].by = n /\ UNCHANGED <<att, punches>>
       \/ IF att[n].pc = "idle"
          THEN att' = [att EXCEPT ![n] = Racing("meet")] /\ punches' \in Woken(punches, n)
          ELSE UNCHANGED <<att, punches>>
    /\ penal' = penal \ {Other(n)}
    /\ UNCHANGED <<nat, book, acc, link, aged, doomed>>

\* The introducer cannot be reached from an end, and forgets it in time; or a
\* punch request is lost.
Outage(n) ==
    /\ \/ Fault /\ book[n] = "in" /\ book' = [book EXCEPT ![n] = "away"] /\ UNCHANGED punches
       \/ book[n] = "away" /\ book' = [book EXCEPT ![n] = "forgotten"] /\ UNCHANGED <<punches, linkFaults>>
       \/ Fault /\ n \in punches /\ punches' = punches \ {n} /\ UNCHANGED book
    /\ UNCHANGED <<nat, att, penal, conns, acc, link, aged, doomed>>

LinkNext ==
    \/ \E n \in Ends : \/ Poll(n) \/ NetBack(n) \/ ProbedBy(n) \/ Punched(n) \/ PenaltyEnds(n)
                       \/ GiveUp(n) \/ Dial(n) \/ Answered(n) \/ Refused(n) \/ GraceEnds(n)
                       \/ Expired(n) \/ DropExpired(n) \/ Moved(n) \/ Outage(n)
    \/ \E c \in Conns : Admit(c) \/ Inbound(c) \/ Break(c) \/ \E n \in Ends : LearnClose(c, n)
    \/ \E waits \in SUBSET Ends : Collide(waits)
    \/ Age

LinkSteps == LinkInit /\ [][LinkNext]_linkVars

----------------------------------------------------------------------------
(* Properties. *)

\* No connection is left open behind the links: one that is up at both ends
\* and past its handshake is the link of both, however dials crossed.
OpenIsLinked ==
    /\ LinkTypeOK
    /\ \A c \in Conns :
          conns[c].up = Ends /\ conns[c].why = "open" /\ acc[c] = "none" /\ (\A n \in Ends : att[n].conn # c)
            => \A n \in Ends : link[n] = c

\* Both ends are on one connection.
Linked == \E c \in Conns : conns[c].up = Ends /\ \A n \in Ends : link[n] = c

\* A request is overtaken: it reaches an end that has a link already.
Chased == \E n \in punches : link[n] # NoConn /\ att[n].pc = "idle"

\* Once nothing breaks any more, two ends with an open way between them never
\* stay without a link, and come to one connection and stay on it, unless
\* requests to wake the peer keep coming after it is linked: neither crossing
\* dials, replaced or dead links, penalties nor an introducer that was away
\* keep them apart.
LinksSettle ==
    nat = "open" => /\ []<>(\E n \in Ends : Alive(n))
                    /\ <>[]Linked \/ []<>Chased

\* Without the exception.
LinksStay == nat = "open" => <>[]Linked

\* "a peer asks only when it has none to us".
AsksOnlyUnlinked == [][\A n \in Ends : Other(n) \in punches' \ punches => ~Alive(n)]_linkVars

\* "A live connection is never expired, whatever the introducer says".
LiveIsKept == [][\A n \in Ends : DropExpired(n) => ~Alive(n)]_linkVars

\* "Their dial is what completes this": of two ends whose collision hit, one
\* dials the other.
CollisionIsDialled ==
    [][(\E waits \in SUBSET Ends : Collide(waits)) => \E n \in Ends : att'[n].pc = "dial"]_linkVars
=============================================================================
