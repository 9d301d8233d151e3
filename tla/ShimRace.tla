----------------------------- MODULE ShimRace -----------------------------
(***************************************************************************)
(* One intercepted map of the Python shim (pool.py, pool_race.py,          *)
(* pool_pacing.py): the head of the items is measured here, and the rest   *)
(* stays here or is raced.  In a race one local thread and several threads *)
(* that post chunks to the cluster cut chunks off one queue; the first     *)
(* result of an item is kept; when the queue is empty the local thread     *)
(* runs again what the cluster still holds, and requests that lost are cut.*)
(*                                                                         *)
(* Whether a chunk of the cluster is worth running again depends on the    *)
(* clock: here it may be at any time, and in the end it is.                *)
(***************************************************************************)
EXTENDS Naturals, FiniteSets

CONSTANTS
    RaceItems,      \* items of the map
    HeadItems,      \* items measured here first
    Inflight,       \* threads that post chunks (pacing's inflight)
    BasePullers,    \* the ones that do not merely prefetch (pacing's peers)
    ChunkFloor,     \* the smallest worthwhile chunk
    LostLimit       \* lost races in a row that pause the cluster's side

ASSUME RaceAssumption ==
    /\ RaceItems \in Nat /\ HeadItems \in 0..RaceItems
    /\ Inflight \in Nat /\ BasePullers \in Nat
    /\ ChunkFloor \in Nat /\ LostLimit \in Nat \ {0}

RItems == 1..RaceItems
Posters == 1..Inflight

VARIABLES
    bad,        \* items the function raises on
    pos,        \* items cut off the queue
    slots,      \* where the kept result of each item came from
    lpc,        \* the local thread
    hand,       \* the items the local thread runs
    raised,     \* the exception carried back to the caller
    poster,     \* each posting thread: where it is, its chunk, its flight's cancel
    taken,      \* remote_taken: chunks posting threads took
    refused,    \* taken chunks whose claim is None: their request failed
    lost,       \* _LOST: races lost in a row
    paused      \* _LOST_PAUSE is not over: nothing is sent

raceVars == <<bad, pos, slots, lpc, hand, raised, poster, taken, refused, lost, paused>>

\* _measure: the first items run here.
Measured == 1..HeadItems

NoPost == [pc |-> "take", chunk |-> {}, cut |-> FALSE]

RaceTypeOK ==
    /\ bad \subseteq RItems /\ pos \in 0..RaceItems
    /\ slots \in [RItems -> {"unset", "local", "remote"}]
    /\ lpc \in {"head", "pull", "run", "cut", "rest", "tail", "done"} /\ hand \subseteq RItems
    /\ raised \in BOOLEAN
    /\ poster \in [Posters -> [pc: {"take", "claimed", "out", "stopped"},
                               chunk: SUBSET RItems, cut: BOOLEAN]]
    /\ refused \subseteq taken /\ taken \subseteq SUBSET RItems
    /\ lost \in 0..(LostLimit - 1) /\ paused \in BOOLEAN

\* _run: a map no longer than the head stays here.  At most one item raises.
RaceInit ==
    /\ bad \in {b \in SUBSET RItems : Cardinality(b) <= 1}
    /\ pos = HeadItems
    /\ slots = [i \in RItems |-> "unset"]
    /\ lpc = "head" /\ hand = Measured
    /\ raised = FALSE
    /\ poster = [j \in Posters |-> NoPost]
    /\ taken = {} /\ refused = {}
    /\ lost \in 0..(LostLimit - 1) /\ paused \in BOOLEAN

Racing == lpc \in {"pull", "run", "cut", "tail"}

Filled(s, c) == \A i \in c : s[i] # "unset"
Keep(c, from) == [i \in RItems |-> IF i \in c /\ slots[i] = "unset" THEN from ELSE slots[i]]

\* The local thread's end: done is set, and what is still out is cut.
CutAll == [j \in Posters |-> IF poster[j].pc = "out" THEN [poster[j] EXCEPT !.cut = TRUE]
                             ELSE poster[j]]

----------------------------------------------------------------------------
(* The caller and the local thread. *)

\* The head has run.  The rest is raced if the function can be sent and the
\* work is worth a round trip.
Decide ==
    /\ lpc = "head"
    /\ IF hand \cap bad # {}
       THEN lpc' = "done" /\ raised' = TRUE /\ UNCHANGED <<slots, hand>>
       ELSE /\ slots' = Keep(hand, "local")
            /\ \/ lpc' = "pull" /\ hand' = {}
               \/ lpc' = "rest" /\ hand' = RItems \ hand
            /\ UNCHANGED raised
    /\ UNCHANGED <<bad, pos, poster, taken, refused, lost, paused>>

\* _local: all of the rest runs here.
RunRest ==
    /\ lpc = "rest"
    /\ lpc' = "done"
    /\ raised' = (hand \cap bad # {})
    /\ slots' = IF raised' THEN slots ELSE Keep(hand, "local")
    /\ UNCHANGED <<bad, pos, hand, poster, taken, refused, lost, paused>>

\* _fac2_size: half of what is left over all pullers, within the floor and a
\* fair share.
Most(a, b) == IF a > b THEN a ELSE b
Least(a, b) == IF a < b THEN a ELSE b
UpDiv(a, b) == (a + b - 1) \div b
Fac2Size(left) ==
    LET pullers == 1 + Inflight
        size == Most(ChunkFloor, UpDiv(left, 2 * pullers))
    IN Most(1, Least(Least(size, UpDiv(left, pullers)), left))

Left == RaceItems - pos
NextChunk == (pos + 1)..(pos + Fac2Size(Left))

\* take for the local thread.
LocalTake ==
    /\ lpc = "pull"
    /\ IF Left = 0 THEN lpc' = "tail" /\ UNCHANGED <<hand, pos>>
       ELSE lpc' = "run" /\ hand' = NextChunk /\ pos' = pos + Fac2Size(Left)
    /\ UNCHANGED <<bad, slots, raised, poster, taken, refused, lost, paused>>

\* fill: the first result of an item is kept; an item that raises ends the
\* local thread.
LocalFill ==
    /\ lpc = "run"
    /\ IF hand \cap bad # {}
       THEN lpc' = "done" /\ raised' = TRUE /\ poster' = CutAll /\ UNCHANGED slots
       ELSE lpc' = "cut" /\ slots' = Keep(hand, "local") /\ UNCHANGED <<raised, poster>>
    /\ UNCHANGED <<bad, pos, hand, taken, refused, lost, paused>>

\* cut_losers: requests whose every item has a result are cut.
CutLosers ==
    /\ lpc = "cut"
    /\ poster' = [j \in Posters |->
                    IF poster[j].pc = "out" /\ Filled(slots, poster[j].chunk)
                    THEN [poster[j] EXCEPT !.cut = TRUE] ELSE poster[j]]
    /\ lpc' = IF Left = 0 THEN "tail" ELSE "pull"
    /\ hand' = {}
    /\ UNCHANGED <<bad, pos, slots, raised, taken, refused, lost, paused>>

\* A mutant of the next: chunks whose request is not out count as done.
OpenOut == {c \in taken : ~Filled(slots, c) /\ \E j \in Posters : poster[j].pc = "out" /\ poster[j].chunk = c}

\* Chunks the cluster took and has not answered.
OpenChunks == {c \in taken : ~Filled(slots, c)}

\* A mutant of the next: only a chunk whose request failed is run again.
WorthFailed(S) == S = OpenChunks \cap refused

\* worth_rerunning: a failed chunk at once, another one when it is overdue.
WorthRerunning(S) == S \subseteq OpenChunks /\ OpenChunks \cap refused \subseteq S

\* The straggler tail, until no chunk is open.
RunAgain(S) ==
    /\ lpc = "tail" /\ OpenChunks # {} /\ S # {}
    /\ WorthRerunning(S)
    /\ hand' = {i \in UNION S : slots[i] = "unset"}
    /\ lpc' = "run"
    /\ UNCHANGED <<bad, pos, slots, raised, poster, taken, refused, lost, paused>>

RaceDone ==
    /\ lpc = "tail" /\ OpenChunks = {}
    /\ lpc' = "done"
    /\ poster' = CutAll
    /\ UNCHANGED <<bad, pos, slots, hand, raised, taken, refused, lost, paused>>

----------------------------------------------------------------------------
(* The posting threads (deliver_loop). *)

\* take for a posting thread: it stops when the race is over, the cluster's
\* side is paused, or it would only prefetch in the tail.
Stops(j) ==
    \/ Left = 0 \/ ~Racing \/ paused
    \/ j > BasePullers /\ Left < Inflight * ChunkFloor

PosterTake(j) ==
    /\ poster[j].pc = "take" /\ lpc \notin {"head", "rest"}
    /\ IF Stops(j) THEN poster' = [poster EXCEPT ![j].pc = "stopped"] /\ UNCHANGED <<pos, taken>>
       ELSE /\ poster' = [poster EXCEPT ![j] = [pc |-> "claimed", chunk |-> NextChunk, cut |-> FALSE]]
            /\ taken' = taken \cup {NextChunk}
            /\ pos' = pos + Fac2Size(Left)
    /\ UNCHANGED <<bad, slots, lpc, hand, raised, refused, lost, paused>>

\* The flight is listed and the request goes out.
PosterSend(j) ==
    /\ poster[j].pc = "claimed"
    /\ poster' = [poster EXCEPT ![j].pc = "out"]
    /\ UNCHANGED <<bad, pos, slots, lpc, hand, raised, taken, refused, lost, paused>>

\* _race_won and _race_lost, and the pause after LostLimit of them.
Counted(won) ==
    /\ lost' = IF won \/ lost + 1 >= LostLimit THEN 0 ELSE lost + 1
    /\ paused' = (paused \/ (~won /\ lost + 1 >= LostLimit))

\* _remote_chunk: the results of every item of the chunk, or none.
Whole(c) == c \cap bad = {}

\* The cluster's results: first result wins.
PosterAnswered(j) ==
    LET c == poster[j].chunk IN
    /\ poster[j].pc = "out" /\ Whole(c)
    /\ slots' = Keep(c, "remote")
    /\ Counted(~Filled(slots, c))
    /\ poster' = [poster EXCEPT ![j] = NoPost]
    /\ UNCHANGED <<bad, pos, lpc, hand, raised, taken, refused>>

\* A request that was cut lost the race; another failure ends the thread, and
\* the local thread runs what it held.
PosterFailed(j) ==
    /\ poster[j].pc = "out"
    /\ IF poster[j].cut
       THEN /\ Counted(FALSE)
            /\ poster' = [poster EXCEPT ![j] = NoPost]
            /\ UNCHANGED refused
       ELSE /\ refused' = refused \cup {poster[j].chunk}
            /\ poster' = [poster EXCEPT ![j].pc = "stopped"]
            /\ UNCHANGED <<lost, paused>>
    /\ UNCHANGED <<bad, pos, slots, lpc, hand, raised, taken>>

\* _LOST_PAUSE is over.
PauseOver ==
    /\ paused /\ paused' = FALSE
    /\ UNCHANGED <<bad, pos, slots, lpc, hand, raised, poster, taken, refused, lost>>

LocalStep == Decide \/ RunRest \/ LocalTake \/ LocalFill \/ CutLosers \/ RaceDone

RaceNext ==
    \/ LocalStep \/ PauseOver
    \/ \E S \in SUBSET OpenChunks : RunAgain(S)
    \/ \E j \in Posters : PosterTake(j) \/ PosterSend(j) \/ PosterAnswered(j) \/ PosterFailed(j)

RaceSpec == RaceInit /\ [][RaceNext]_raceVars

----------------------------------------------------------------------------
(* Properties. *)

\* A map that returns has the result of every item, and one that raises had an
\* item that raises: no chunk falls between the queue, the threads that took
\* it and the local thread's second run.
RaceIsWhole ==
    /\ RaceTypeOK
    /\ lpc = "done" /\ ~raised => Filled(slots, RItems)
    /\ raised => bad # {}
    /\ \A i \in bad : slots[i] = "unset"

\* "must not send anything, or its request lands in the middle of the script's
\* next call".
NothingSentLate == [][\A j \in Posters : PosterSend(j) => lpc # "done"]_raceVars
=============================================================================
