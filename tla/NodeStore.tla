----------------------------- MODULE NodeStore -----------------------------
(***************************************************************************)
(* The address book of internal/nodestore/store.go: a row per node and a   *)
(* set of paths (addresses) per row.  The tables are two functions, row    *)
(* and path, and every store method is an operator that returns the table  *)
(* it writes.  A method is one SQL transaction on the store's single       *)
(* connection, so an operator is applied in one step.                      *)
(*                                                                         *)
(* Times are ages: how long ago the row was verified (created, if it never *)
(* was) and the path last seen or verified.  Host and port are one address *)
(* and the reason of a failure is the flag err.                            *)
(***************************************************************************)
EXTENDS Naturals

CONSTANTS
    Nodes,          \* node ids, this daemon's own included
    Addrs,          \* "host:port" pairs
    CandidateTTL,   \* candidateNodeTTL: a row never verified
    LanTTL,         \* lanPathTTL: a lan path unseen
    VerifiedTTL,    \* nodeVerifiedTTL: a row not verified again
    RemoteTTL       \* remotePathTTL: an internet or gossip path unseen

ASSUME TTLAssumption ==
    /\ {CandidateTTL, LanTTL, VerifiedTTL, RemoteTTL} \subseteq Nat
    /\ CandidateTTL < LanTTL
    /\ LanTTL < VerifiedTTL
    /\ VerifiedTTL < RemoteTTL

Kinds == {"self", "lan", "internet", "gossip"}

\* PathKind.rank; 0 is "no such path".
Rank(k) ==
    CASE k = "self" -> 4
      [] k = "lan" -> 3
      [] k = "internet" -> 2
      [] k = "gossip" -> 1
      [] OTHER -> 0

\* Ages beyond the longest TTL are all alike.
MaxAge == RemoteTTL + 1

Paths ==
    [kind: Kinds \cup {"none"}, ok: BOOLEAN, err: BOOLEAN, active: BOOLEAN, age: 0..MaxAge]

Rows ==
    [state: {"none", "unknown", "healthy", "unreachable"}, verified: BOOLEAN, age: 0..MaxAge]

\* No path at this address; no row for this node.
NoPath == [kind |-> "none", ok |-> FALSE, err |-> FALSE, active |-> FALSE, age |-> 0]

NoRow == [state |-> "none", verified |-> FALSE, age |-> 0]

\* A row as an INSERT leaves it.
FreshRow(state) == [state |-> state, verified |-> FALSE, age |-> 0]

IsPath(p) == p.kind # "none"

\* Path.answering: verified, and the last attempt did not fail.
Answering(p) == p.ok /\ ~p.err

HasKind(path, n, k) == \E a \in Addrs : path[n][a].kind = k

----------------------------------------------------------------------------
\* SeePath, the row: created when the node is new.
SeeRow(row, n) ==
    IF row[n] = NoRow THEN [row EXCEPT ![n] = FreshRow("unknown")] ELSE row

\* seePath on one path: a sighting refreshes it, and its kind never downgrades.
Seen(p, k) ==
    [p EXCEPT !.kind = IF Rank(k) > Rank(@) THEN k ELSE @, !.age = 0]

SeePath(path, n, k, a) == [path EXCEPT ![n][a] = Seen(@, k)]

\* PathOK's rule for the active path, for a path of node n that answered at a:
\* no incumbent, one that failed last, or one that is outranked.
Promotes(path, n, k, a) ==
    \/ k = "self"
    \/ \A b \in Addrs \ {a} :
          path[n][b].active =>
              ~Answering(path[n][b]) \/ Rank(k) > Rank(path[n][b].kind)

\* PathOK, the row: verified now.
VerifyRow(row, n) == [SeeRow(row, n) EXCEPT ![n].verified = TRUE, ![n].age = 0]

\* A mutant of the next: the other nodes keep the address.
PathOKShares(path, n, k, a) ==
    LET seen == Seen(path[n][a], k)
        promote == Promotes(path, n, seen.kind, a)
    IN  [path EXCEPT ![n] = [b \in Addrs |->
            CASE b = a -> [seen EXCEPT !.ok = TRUE, !.err = FALSE, !.active = @ \/ promote]
              [] b # a /\ k = "self" /\ path[n][b].kind = "self" -> NoPath
              [] OTHER -> [path[n][b] EXCEPT !.active = @ /\ ~promote]]]

\* PathOK, the paths: a is n's and no other node's any more; a self path
\* replaces the node's other self paths.
PathOK(path, n, k, a) ==
    LET seen == Seen(path[n][a], k)
        promote == Promotes(path, n, seen.kind, a)
        Elsewhere(p) ==
            IF seen.kind = "self" /\ p.kind = "self"
            THEN NoPath
            ELSE [p EXCEPT !.active = @ /\ ~promote]
    IN  [m \in Nodes |-> [b \in Addrs |->
            CASE m # n /\ b = a -> NoPath
              [] m # n /\ b # a -> path[m][b]
              [] m = n /\ b = a ->
                    [seen EXCEPT !.ok = TRUE, !.err = FALSE, !.active = @ \/ promote]
              [] m = n /\ b # a -> Elsewhere(path[n][b])]]

\* PathFailed: the path stays where it is; one that is gone is a no-op.
PathFailed(path, n, a) ==
    [path EXCEPT ![n][a] = IF IsPath(@) THEN [@ EXCEPT !.err = TRUE] ELSE @]

DropPath(path, n, a) == [path EXCEPT ![n][a] = NoPath]

\* UpsertNode by MarkHealthy: the row is inserted when it is not there.
MarkHealthy(row, n) ==
    [row EXCEPT ![n] = IF @ = NoRow THEN FreshRow("healthy")
                       ELSE [@ EXCEPT !.state = "healthy"]]

\* MarkUnreachable: an UPDATE, so nothing happens to a row that is gone.
MarkUnreachable(row, n) ==
    [row EXCEPT ![n] = IF @ = NoRow THEN @ ELSE [@ EXCEPT !.state = "unreachable"]]

\* PruneStale's first DELETE; the paths of a deleted row go with it.
Pruned(row, path, n) ==
    /\ ~HasKind(path, n, "self")
    /\ \/ row[n].age > VerifiedTTL
       \/ /\ ~row[n].verified
          /\ row[n].age > CandidateTTL
          /\ ~HasKind(path, n, "internet")

\* PruneStale's second DELETE.
PathExpired(p) ==
    /\ p.kind # "self"
    /\ p.age > (IF p.kind = "lan" THEN LanTTL ELSE RemoteTTL)

PruneRows(row, path) ==
    [n \in Nodes |-> IF Pruned(row, path, n) THEN NoRow ELSE row[n]]

PrunePaths(row, path) ==
    [n \in Nodes |-> [a \in Addrs |->
        IF Pruned(row, path, n) \/ PathExpired(path[n][a]) THEN NoPath ELSE path[n][a]]]

\* sortPaths' groups, then kind: the path a row shows is a first one (ListAll).
Group(p) ==
    CASE p.active -> 0
      [] ~p.active /\ Answering(p) -> 1
      [] ~p.active /\ ~p.ok /\ ~p.err -> 2
      [] OTHER -> 3

Better(p, q) ==
    \/ Group(p) < Group(q)
    \/ Group(p) = Group(q) /\ Rank(p.kind) > Rank(q.kind)

Shown(path, n) ==
    {a \in Addrs : /\ IsPath(path[n][a])
                   /\ \A b \in Addrs : IsPath(path[n][b]) => ~Better(path[n][b], path[n][a])}

\* The passing of time d, for a row and for a path.
AgeRow(r, d) ==
    IF r = NoRow THEN r
    ELSE [r EXCEPT !.age = IF @ + d > MaxAge THEN MaxAge ELSE @ + d]

AgePath(p, d) ==
    IF p = NoPath THEN p
    ELSE [p EXCEPT !.age = IF @ + d > MaxAge THEN MaxAge ELSE @ + d]
=============================================================================
