------------------------------ MODULE NixCache ------------------------------
(***************************************************************************)
(* The nix binary cache a daemon offers its own machine                    *)
(* (daemonapi/nixcache.go, nixcache_peers.go): a question about one store  *)
(* hash is answered from what is remembered, or by asking the peers'       *)
(* stores (peerstore.go) all at once.  Nix asks for the narinfo of the     *)
(* path and then for its NAR; several of its workers ask at the same time. *)
(*                                                                         *)
(* One hash is modelled: answers about different hashes share only the cap *)
(* on fan-outs and on remembered entries, which here take a slot or an     *)
(* entry away at any moment.                                               *)
(***************************************************************************)
EXTENDS Naturals, Sequences, FiniteSets, SequencesExt

CONSTANTS
    CachePeers,     \* peers whose stores are asked
    Builds,         \* the NarHashes they may hold the path with
    NoBuild,        \* none
    Asks            \* nix's downloads of the path

ASSUME CacheAssumption ==
    /\ IsFiniteSet(CachePeers)
    /\ NoBuild \notin Builds

VARIABLES
    build,          \* the build each peer holds
    hit,            \* c.hits[hash]: what was won, and who serves it
    miss,           \* c.misses[hash] is live
    leader,         \* the call in flight for the hash, of singleflight
    ask,            \* each download
    collectors      \* fan-outs whose slower answers are still collected

cacheVars == <<build, hit, miss, leader, ask, collectors>>

NoHit == [nar |-> NoBuild, sources |-> <<>>, mixed |-> FALSE]
Hits == [nar: Builds \cup {NoBuild},
         sources: UNION {[1..n -> CachePeers] : n \in 0..Cardinality(CachePeers)},
         mixed: BOOLEAN]

\* told is the narinfo nix was given, left the sources (or, for the leader,
\* the peers) not heard yet; heard what they said so far.
AskStates ==
    [pc: {"idle", "join", "wait", "lead", "hear", "fetch", "over"},
     told: Builds \cup {NoBuild},
     left: UNION {[1..n -> CachePeers] : n \in 0..Cardinality(CachePeers)},
     asked: SUBSET CachePeers, heard: SUBSET {"busy", "silent"},
     answer: {"pending", "served", "short", "none", "busy"}]

CacheTypeOK ==
    /\ build \in [CachePeers -> Builds]
    /\ hit \in Hits
    /\ miss \in BOOLEAN
    /\ leader \in SUBSET Asks /\ Cardinality(leader) <= 1
    /\ ask \in [Asks -> AskStates]
    /\ collectors \subseteq [nar: Builds, left: SUBSET CachePeers,
                             late: BOOLEAN]

CacheInit ==
    /\ build \in [CachePeers -> Builds]
    /\ hit = NoHit /\ miss = FALSE /\ leader = {} /\ collectors = {}
    /\ ask = [r \in Asks |->
          [pc |-> "idle", told |-> NoBuild, left |-> <<>>, asked |-> {}, heard |-> {},
           answer |-> "pending"]]

----------------------------------------------------------------------------
(* The peers' side: localStorePath, acquirePeerStore, and the two routes. *)

\* The path may be gone there, or its narinfo be refused (peercache.Accept).
InfoAnswers == {"found", "none", "busy", "silent"}
NarAnswers == {"served", "short", "none", "busy", "silent"}

----------------------------------------------------------------------------
(* What is remembered. *)

\* The hit goes; the collectors of its fan-out now run late.
Without == {[c EXCEPT !.late = TRUE] : c \in collectors}

\* The time to live of a remembered answer ends, or another hash needs room.
Expire ==
    /\ \/ hit # NoHit /\ hit' = NoHit /\ collectors' = Without /\ UNCHANGED miss
       \/ miss /\ miss' = FALSE /\ UNCHANGED <<hit, collectors>>
    /\ UNCHANGED <<leader, ask>>

\* addSource.
AddSource(p, late) ==
    IF hit = NoHit \/ \E i \in DOMAIN hit.sources : hit.sources[i] = p THEN hit
    ELSE [hit EXCEPT !.sources = Append(@, p), !.mixed = @ \/ late]

\* dropSource; a peer is among the sources at most once.
DropSource(p) ==
    IF hit.sources = <<p>> THEN NoHit
    ELSE [hit EXCEPT !.sources =
             IF \E i \in DOMAIN @ : @[i] = p
             THEN RemoveAt(@, CHOOSE i \in DOMAIN @ : @[i] = p) ELSE @]

----------------------------------------------------------------------------
(* lookup. *)

Answered(a, said) == [a EXCEPT !.pc = "over", !.answer = said, !.told = NoBuild,
                               !.left = <<>>, !.asked = {}, !.heard = {}]

\* handleNarinfo and handleNar take what the lookup returned: nix goes on from
\* the narinfo to the NAR, and the NAR is fetched from the sources in turn.
Takes(a, h) ==
    IF a.told = NoBuild
    THEN [a EXCEPT !.pc = "idle", !.told = h.nar, !.asked = {}, !.heard = {}]
    ELSE [a EXCEPT !.pc = "fetch", !.left = h.sources, !.asked = {}, !.heard = {}]

\* remembered, before the flight.
LookUp(r) ==
    /\ ask[r].pc = "idle"
    /\ ask' = [ask EXCEPT ![r] =
          IF hit # NoHit THEN Takes(@, hit)
          ELSE IF miss THEN Answered(@, "none")
          ELSE [@ EXCEPT !.pc = "join"]]
    /\ UNCHANGED <<hit, miss, leader, collectors>>

\* flight.Do: one call runs, the others wait for its result.
Join(r) ==
    /\ ask[r].pc = "join"
    /\ ask' = [ask EXCEPT ![r].pc = IF leader = {} THEN "lead" ELSE "wait"]
    /\ leader' = IF leader = {} THEN {r} ELSE leader
    /\ UNCHANGED <<hit, miss, collectors>>

Sharers == leader \cup {r \in Asks : ask[r].pc = "wait"}

\* The call returns to everyone who waits for it.
FlightEnds(F(_)) ==
    /\ leader' = {}
    /\ ask' = [r \in Asks |-> IF r \in Sharers THEN F(ask[r]) ELSE ask[r]]

\* A mutant of the next: what was remembered meanwhile is not looked at.
LeadBlind(r) ==
    /\ ask[r].pc = "lead"
    /\ ask' = [ask EXCEPT ![r].pc = "hear", ![r].asked = CachePeers]
    /\ UNCHANGED <<hit, miss, leader, collectors>>

\* Inside the flight: remembered again, then cachePeers and a slot to fan out.
Lead(r) ==
    /\ ask[r].pc = "lead"
    /\ CASE hit # NoHit -> FlightEnds(LAMBDA a : Takes(a, hit))
         [] hit = NoHit /\ miss -> FlightEnds(LAMBDA a : Answered(a, "none"))
         [] OTHER -> \/ /\ ask' = [ask EXCEPT ![r].pc = "hear", ![r].asked = CachePeers]
                        /\ UNCHANGED leader
                     \/ FlightEnds(LAMBDA a : Answered(a, "none"))
                     \/ FlightEnds(LAMBDA a : Answered(a, "busy"))
    /\ UNCHANGED <<hit, miss, collectors>>

\* fanOutNarinfo, its first acceptable answer: remembered, and the slower
\* peers are left to a collector.
HearFound(r, p) ==
    /\ ask[r].pc = "hear" /\ p \in ask[r].asked
    /\ LET won == [nar |-> build[p], sources |-> <<p>>, mixed |-> FALSE] IN
          /\ hit' = won
          /\ FlightEnds(LAMBDA a : Takes(a, won))
    /\ collectors' = Without \cup
          {c \in {[nar |-> build[p], left |-> ask[r].asked \ {p}, late |-> FALSE]} : c.left # {}}
    /\ UNCHANGED miss

\* fanOutNarinfo, another answer, or none within the budget.  A miss is
\* remembered when all answered; with a busy peer it is no answer.
HearMiss(r, p) ==
    /\ ask[r].pc = "hear" /\ p \in ask[r].asked
    /\ \E said \in InfoAnswers \ {"found"} :
          LET heard == ask[r].heard \cup ({said} \ {"none"}) IN
          IF ask[r].asked # {p}
          THEN /\ ask' = [ask EXCEPT ![r].asked = @ \ {p}, ![r].heard = heard]
               /\ UNCHANGED <<leader, miss>>
          ELSE /\ miss' = (miss \/ heard = {})
               /\ FlightEnds(LAMBDA a :
                     [Answered(a, IF "busy" \in heard THEN "busy" ELSE "none")
                        EXCEPT !.heard = heard])
    /\ UNCHANGED <<hit, collectors>>

\* rest: a slower peer answered; it is added when its build is the winner's.
Collect(c, p) ==
    /\ p \in c.left
    /\ collectors' = (collectors \ {c}) \cup
          {d \in {[c EXCEPT !.left = @ \ {p}]} : d.left # {}}
    /\ hit' = IF build[p] = c.nar THEN AddSource(p, c.late) ELSE hit
    /\ UNCHANGED <<miss, leader, ask>>

\* rest: the budget is over.
CollectEnds(c) ==
    /\ collectors' = collectors \ {c}
    /\ UNCHANGED <<hit, miss, leader, ask>>

----------------------------------------------------------------------------
(* handleNar. *)

\* A source streams the NAR; a stream that broke costs it its place.
Stream(r) ==
    /\ ask[r].pc = "fetch" /\ ask[r].left # <<>>
    /\ LET p == Head(ask[r].left) IN
       \E said \in NarAnswers \cap {"served", "short"} :
          /\ ask' = [ask EXCEPT ![r] = Answered(@, said)]
          /\ hit' = IF said = "short" /\ hit # NoHit THEN DropSource(p) ELSE hit
          /\ collectors' = IF hit # NoHit /\ hit' = NoHit THEN Without ELSE collectors
    /\ UNCHANGED <<miss, leader>>

NextSource(r) ==
    /\ ask[r].pc = "fetch" /\ ask[r].left # <<>>
    /\ \E said \in NarAnswers \ {"served", "short"} :
          ask' = [ask EXCEPT ![r].left = Tail(@), ![r].heard = @ \cup ({said} \ {"none"})]
    /\ UNCHANGED <<hit, miss, leader, collectors>>

\* Every source failed: the answer is forgotten.
Forget(r) ==
    /\ ask[r].pc = "fetch" /\ ask[r].left = <<>>
    /\ hit' = NoHit /\ collectors' = Without
    /\ ask' = [ask EXCEPT ![r] =
          [Answered(@, IF "busy" \in ask[r].heard THEN "busy" ELSE "none")
              EXCEPT !.heard = ask[r].heard]]
    /\ UNCHANGED <<miss, leader>>

CacheOver ==
    /\ \A r \in Asks : ask[r].pc = "over"
    /\ UNCHANGED cacheVars

CacheNext ==
    /\ UNCHANGED build
    /\ \/ Expire
       \/ \E r \in Asks : \/ LookUp(r) \/ Join(r) \/ Lead(r)
                           \/ Stream(r) \/ NextSource(r) \/ Forget(r)
       \/ \E r \in Asks, p \in CachePeers : HearFound(r, p) \/ HearMiss(r, p)
       \/ \E c \in collectors : CollectEnds(c) \/ \E p \in CachePeers : Collect(c, p)
       \/ CacheOver

CacheSpec == CacheInit /\ [][CacheNext]_cacheVars

----------------------------------------------------------------------------
(* Properties. *)

\* A remembered miss and a remembered hit never stand side by side, although
\* lookups read both maps outside the flight that fills them: once the hit is
\* forgotten or expires, the miss would answer 404 for a path a peer serves.
HitOrMiss == ~(hit # NoHit /\ miss)

\* "Never 404": a question one of whose peers only had no slot is not answered
\* as a miss, neither to the one who asked nor to those who shared its flight.
BusyIsNotMiss == \A r \in Asks : ask[r].answer = "none" => "busy" \notin ask[r].heard

\* The sources of a hit hold the build its narinfo names, as long as no
\* collector of an earlier fan-out came to it.
SourcesAgreeWhileKept ==
    ~hit.mixed => \A i \in DOMAIN hit.sources : build[hit.sources[i]] = hit.nar

\* What lookups remember and tell is right, under any overlap of downloads.
LookupsTrue == CacheTypeOK /\ HitOrMiss /\ BusyIsNotMiss /\ SourcesAgreeWhileKept

\* "A different NarHash is a different build of the path; nix would reject that
\* NAR": a source of a hit holds its build, whatever fan-outs overlap.
SourcesAgree == \A i \in DOMAIN hit.sources : build[hit.sources[i]] = hit.nar
=============================================================================
