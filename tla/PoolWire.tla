------------------------------ MODULE PoolWire ------------------------------
(***************************************************************************)
(* How a pool request is admitted, forwarded and encoded for a peer        *)
(* (poolhandlers.go, poolwire.go, poolremote.go).                          *)
(*                                                                         *)
(* A node that has no room for a request forwards it whole to a peer, once;*)
(* one that has little runs it as micro chunks, one after another.  Parts  *)
(* go to peers as terminal requests.  Their shared globals cross the link  *)
(* once: a later body names them by hash, and a peer that lacks them asks  *)
(* for them (409), upon which the body is sent once more.                  *)
(***************************************************************************)
EXTENDS Naturals, Sequences, FiniteSets, SequencesExt

CONSTANTS
    Sends,          \* bodies on their way from one node to one peer
    Blobs,          \* contents of the globals frame
    HeldPerPeer,    \* hashes the origin remembers for the peer
    CacheBlobs,     \* blobs the peer's cache has room for (globalsCacheMax)
    MaxWireFaults,  \* lost connections, blobs that cannot be stored: a bound
    WireItems,      \* items of the routed request
    WNodes,         \* nodes that may run it
    WOrigin         \* the node the script's shim asks

ASSUME WireAssumption ==
    /\ HeldPerPeer \in Nat /\ CacheBlobs \in Nat /\ MaxWireFaults \in Nat
    /\ WireItems \in Nat /\ WOrigin \in WNodes

VARIABLES
    needs,      \* the globals of each body
    body,       \* where each body is, its attempt, and whether it names a hash
    sent,       \* links[peer].sent: oldest first
    cache,      \* the peer's globals directory, least recently used first
    beaten,     \* bodies whose blob another one marked as sent before their resend
    wireFaults,
    req,        \* the routed request: where it is, who forwarded it, what it is at
    results,    \* the items whose results are gathered, in order
    ranOn,      \* the node each item ran on
    knows       \* nodes' tables name the forwarder (poolManager.key)

bodyVars == <<needs, body, sent, cache, beaten, wireFaults>>
reqVars == <<req, results, ranOn, knows>>
wireVars == <<bodyVars, reqVars>>

NoNode == "nobody"

WireTypeOK ==
    /\ needs \in [Sends -> Blobs]
    /\ body \in [Sends -> [pc: {"new", "out", "miss", "runs", "refused", "failed"},
                           again: BOOLEAN, hash: BOOLEAN]]
    /\ sent \in Seq(Blobs) /\ IsInjective(sent)
    /\ cache \in Seq(Blobs) /\ IsInjective(cache)
    /\ beaten \subseteq Sends
    /\ wireFaults \in 0..MaxWireFaults
    /\ req \in [at: WNodes, by: WNodes \cup {NoNode}, micro: Nat, next: Nat,
                pc: {"arrived", "forwarded", "runs", "answered", "refused", "cancelled"}]
    /\ results \in Seq(1..WireItems)
    /\ ranOn \in [1..WireItems -> WNodes \cup {NoNode}]
    /\ knows \in BOOLEAN

WireInit ==
    /\ needs \in [Sends -> Blobs]
    /\ body = [s \in Sends |-> [pc |-> "new", again |-> FALSE, hash |-> FALSE]]
    /\ sent = << >> /\ cache = << >>
    /\ beaten = {} /\ wireFaults = 0
    /\ req = [at |-> WOrigin, by |-> NoNode, micro |-> 0, next |-> 0, pc |-> "arrived"]
    /\ results = << >>
    /\ ranOn = [i \in 1..WireItems |-> NoNode]
    /\ knows \in BOOLEAN

----------------------------------------------------------------------------
(* Bodies on a link. *)

\* The queue without an entry, which it holds once at most.
Without(q, b) ==
    IF Contains(q, b) THEN RemoveAt(q, CHOOSE i \in DOMAIN q : q[i] = b) ELSE q

\* A use makes an entry the newest; the oldest ones make room.
Used(q, b, room) ==
    LET r == Append(Without(q, b), b) IN IF Len(r) > room THEN Tail(r) ELSE r

WireFault == wireFaults < MaxWireFaults /\ wireFaults' = wireFaults + 1

\* globalsByHash: the blob is marked before the send.
Encode(s) ==
    LET b == needs[s] IN
    /\ body[s].pc = "new"
    /\ body' = [body EXCEPT ![s].pc = "out", ![s].hash = Contains(sent, b)]
    /\ sent' = Used(sent, b, HeldPerPeer)
    /\ beaten' = beaten \cup {t \in Sends \ {s} : body[t].pc = "new" /\ body[t].again /\ needs[t] = b}
    /\ UNCHANGED <<needs, cache, wireFaults, reqVars>>

\* decodePoolBody, storeGlobals and pruneGlobals.
Arrive(s) ==
    LET b == needs[s] IN
    /\ body[s].pc = "out"
    /\ IF body[s].hash /\ ~Contains(cache, b)
       THEN body' = [body EXCEPT ![s].pc = "miss"] /\ UNCHANGED <<cache, wireFaults>>
       ELSE /\ body' = [body EXCEPT ![s].pc = "runs"]
            /\ \/ cache' = Used(cache, b, CacheBlobs) /\ UNCHANGED wireFaults
               \/ ~body[s].hash /\ WireFault /\ UNCHANGED cache
    /\ UNCHANGED <<needs, sent, beaten, reqVars>>

\* postPeer: the first 409 makes it forget the blob and send again; the second
\* is the part's failure.
Missed(s) ==
    /\ body[s].pc = "miss"
    /\ IF body[s].again
       THEN body' = [body EXCEPT ![s].pc = "refused"] /\ UNCHANGED sent
       ELSE /\ body' = [body EXCEPT ![s] = [pc |-> "new", again |-> TRUE, hash |-> FALSE]]
            /\ sent' = Without(sent, needs[s])
    /\ UNCHANGED <<needs, cache, beaten, wireFaults, reqVars>>

\* The connection fails, or the requester goes away.
PostFails(s) ==
    /\ body[s].pc = "out" /\ WireFault
    /\ body' = [body EXCEPT ![s].pc = "failed"]
    /\ UNCHANGED <<needs, sent, cache, beaten, reqVars>>

----------------------------------------------------------------------------
(* The routed request. *)

\* runMicroChunks cuts the items into k runs of nearly the same length.
MicroLow(i, k) == (WireItems * i) \div k

\* handlePoolMap: room for all of it, for micro chunks, or for none of it.
Admit ==
    /\ req.pc \in {"arrived", "forwarded"}
    /\ \E k \in 1..WireItems : req' = [req EXCEPT !.pc = "runs", !.micro = k]
    /\ UNCHANGED <<bodyVars, results, ranOn, knows>>

\* A mutant of the next: a forwarded request is forwarded again.
ForwardAgain ==
    /\ req.pc \in {"arrived", "forwarded"}
    /\ \E n \in WNodes \ {req.at} :
          req' = [req EXCEPT !.pc = "forwarded", !.at = n, !.by = req.at]
    /\ UNCHANGED <<bodyVars, results, ranOn, knows>>

\* forwardPoolMap to bestPeer: a request that came from a shim, once.
ForwardWhole ==
    /\ req.pc = "arrived" /\ req.by = NoNode
    /\ \E n \in WNodes \ {req.at} :
          req' = [req EXCEPT !.pc = "forwarded", !.at = n, !.by = req.at]
    /\ UNCHANGED <<bodyVars, results, ranOn, knows>>

\* 503: nobody takes it, the peer refuses it too, or the forward failed.
Refuse ==
    /\ req.pc \in {"arrived", "forwarded"}
    /\ req' = [req EXCEPT !.pc = "refused"]
    /\ UNCHANGED <<bodyVars, results, ranOn, knows>>

\* dropForwarder: the node that forwarded it gets no part, if it is known.
Takers == IF knows THEN WNodes \ {req.by} ELSE WNodes

\* One micro chunk: runChunk divides it over the nodes and gathers its results.
MicroChunk ==
    LET i == req.next
        c == (MicroLow(i, req.micro) + 1)..MicroLow(i + 1, req.micro)
    IN /\ req.pc = "runs" /\ i < req.micro
       /\ \E n \in Takers : ranOn' = [j \in 1..WireItems |-> IF j \in c THEN n ELSE ranOn[j]]
       /\ results' = results \o [j \in 1..Cardinality(c) |-> MicroLow(i, req.micro) + j]
       /\ req' = [req EXCEPT !.next = i + 1]
       /\ UNCHANGED <<bodyVars, knows>>

\* writePoolReply, or the error of a micro chunk, or poolCancelled.
ReplyPool ==
    /\ req.pc = "runs"
    /\ \/ req.next = req.micro /\ req' = [req EXCEPT !.pc = "answered"]
       \/ req.next < req.micro /\ \E r \in {"refused", "cancelled"} : req' = [req EXCEPT !.pc = r]
    /\ UNCHANGED <<bodyVars, results, ranOn, knows>>

BodyNext == \E s \in Sends : Encode(s) \/ Arrive(s) \/ Missed(s) \/ PostFails(s)
RouteNext == Admit \/ ForwardWhole \/ Refuse \/ MicroChunk \/ ReplyPool

WireSpec == WireInit /\ [][BodyNext \/ RouteNext]_wireVars

----------------------------------------------------------------------------
(* Properties. *)

\* A peer refuses a part for want of its globals only when another body marked
\* them as sent between the part's first refusal and its resend; what is kept
\* about the peer stays within bounds.
RefusedWhenBeaten ==
    /\ WireTypeOK
    /\ Len(sent) <= HeldPerPeer /\ Len(cache) <= CacheBlobs
    /\ \A s \in Sends : body[s].pc = "refused" => s \in beaten

\* An answer has the results of every item in order however it was cut, a
\* request changes nodes once at most, and the node that had no room for it
\* runs none of it where it is known; RefusedWhenBeaten holds of its bodies.
RoutedInOrder ==
    /\ RefusedWhenBeaten
    /\ req.pc = "answered" => results = [i \in 1..WireItems |-> i]
    /\ req.by \in {NoNode, WOrigin}
    /\ knows => \A i \in 1..WireItems : ranOn[i] = NoNode \/ ranOn[i] # req.by

\* "the body resent once": it carries what the peer asked for.
ResentWhole == \A s \in Sends : body[s].pc = "out" /\ body[s].again => ~body[s].hash
=============================================================================
