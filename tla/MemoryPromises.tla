--------------------------- MODULE MemoryPromises ---------------------------
(***************************************************************************)
(* What the daemons of one machine promise of its memory                   *)
(* (daemonapi/serverlease.go, serverhttp.go, resourceest/): each admits    *)
(* leases against the memory free now, its own promises, its own share,    *)
(* and what the other daemons say they have promised.  The free memory and *)
(* the others' answer are read before the lock; an answer is kept for a    *)
(* short while, and a daemon that does not answer counts with the figure   *)
(* last polled.                                                            *)
(*                                                                         *)
(* Memory is in units; a lease is the request it was granted to.           *)
(***************************************************************************)
EXTENDS Integers, FiniteSets

CONSTANTS
    Mates,          \* the daemons of the machine
    Asking,         \* requests
    AskedOf,        \* the daemon each is made to
    Wants,          \* the memory each wants
    Share,          \* each daemon's budget
    Memory,         \* the machine's
    MaxUse          \* bound on the memory in use

ASSUME PromiseAssumption ==
    /\ IsFiniteSet(Asking) /\ AskedOf \in [Asking -> Mates] /\ Wants \in [Asking -> Nat]
    /\ Share \in [Mates -> Nat] /\ Memory \in Nat /\ MaxUse \in 0..Memory

VARIABLES
    request,        \* requests, then leases
    kept,           \* the kept answer of each daemon's mates
    fresh,          \* it is younger than coResidentTTL
    polled          \* the health poller's figure of each daemon's mates

promiseVars == <<request, kept, fresh, polled>>

\* free and mates are what the request read; blind: the mates had promised
\* more when the lease was granted; over: it was granted although it did not fit.
RequestStates ==
    [pc: {"new", "ask", "keep", "lock", "granted"},
     free: 0..Memory, mates: Nat, blind: BOOLEAN, over: BOOLEAN]

PromiseTypeOK ==
    /\ request \in [Asking -> RequestStates]
    /\ kept \in [Mates -> Nat] /\ polled \in [Mates -> Nat]
    /\ fresh \in [Mates -> BOOLEAN]

New == [pc |-> "new", free |-> 0, mates |-> 0, blind |-> FALSE, over |-> FALSE]

PromiseInit ==
    /\ request = [r \in Asking |-> New]
    /\ kept = [d \in Mates |-> 0] /\ polled = [d \in Mates |-> 0]
    /\ fresh = [d \in Mates |-> FALSE]

Leased == {r \in Asking : request[r].pc = "granted"}
Granted(d) == {r \in Leased : AskedOf[r] = d}

\* What leases were granted, unit by unit.
UnitsOf(leases) == UNION {{r} \X (1..Wants[r]) : r \in leases}

\* ReservedMem
Promised(d) == Cardinality(UnitsOf(Granted(d)))

\* The answers of a daemon's mates, now, in all.
PromisedBeside(d) == Cardinality(UnitsOf(Leased \ Granted(d)))

AskAt(r, pc) == request[r].pc = pc
Positive(n) == IF n < 0 THEN 0 ELSE n

----------------------------------------------------------------------------
\* CollectLoad: jobs and others use what they use.
ReadLoad(r) ==
    /\ AskAt(r, "new")
    /\ \E inUse \in 0..MaxUse :
          request' = [request EXCEPT ![r].pc = "ask", ![r].free = Memory - inUse]
    /\ UNCHANGED <<kept, fresh, polled>>

\* reservedOnThisMachine: the kept answer, or the mates are asked now; one
\* that does not answer counts as it was last polled.
AskMates(r) ==
    LET d == AskedOf[r] IN
    /\ AskAt(r, "ask")
    /\ IF fresh[d]
       THEN request' = [request EXCEPT ![r].pc = "lock", ![r].mates = kept[d]]
       ELSE \E n \in {PromisedBeside(d), polled[d]} :
               request' = [request EXCEPT ![r].pc = "keep", ![r].mates = n]
    /\ UNCHANGED <<kept, fresh, polled>>

KeepAnswer(r) ==
    LET d == AskedOf[r] IN
    /\ AskAt(r, "keep")
    /\ kept' = [kept EXCEPT ![d] = request[r].mates]
    /\ fresh' = [fresh EXCEPT ![d] = TRUE]
    /\ request' = [request EXCEPT ![r].pc = "lock"]
    /\ UNCHANGED polled

AnswerAges(d) ==
    /\ fresh[d] /\ fresh' = [fresh EXCEPT ![d] = FALSE]
    /\ UNCHANGED <<request, kept, polled>>

\* The poller's round: handleReserved, or the health answer.
PollMates(d) ==
    /\ polled' = [polled EXCEPT ![d] = PromisedBeside(d)]
    /\ UNCHANGED <<request, kept, fresh>>

\* The least of what is free, less all promises, and of what the daemon's own
\* share leaves.
Available(r) ==
    LET d == AskedOf[r]
        machine == request[r].free - Promised(d) - request[r].mates
        own == Share[d] - Promised(d)
    IN  Positive(IF own < machine THEN own ELSE machine)

\* Admit: an estimate that does not fit is taken where nothing else runs and
\* some memory is free.
Idle(r) == Granted(AskedOf[r]) = {} /\ request[r].mates = 0

Fits(r) == Wants[r] <= Available(r)

\* The check and the lease, under the lock.
Grant(r) ==
    /\ AskAt(r, "lock")
    /\ Fits(r) \/ (Idle(r) /\ Available(r) > 0)
    /\ request' = [request EXCEPT ![r] = [New EXCEPT !.pc = "granted",
          !.blind = request[r].mates < PromisedBeside(AskedOf[r]), !.over = ~Fits(r)]]
    /\ UNCHANGED <<kept, fresh, polled>>

TurnAway(r) ==
    /\ AskAt(r, "lock")
    /\ ~(Fits(r) \/ (Idle(r) /\ Available(r) > 0))
    /\ request' = [request EXCEPT ![r] = New]
    /\ UNCHANGED <<kept, fresh, polled>>

\* The lease is completed or reaped; its submitter may come again.
LeaseGoes(r) ==
    /\ AskAt(r, "granted")
    /\ request' = [request EXCEPT ![r] = New]
    /\ UNCHANGED <<kept, fresh, polled>>

PromiseNext ==
    \/ \E r \in Asking : \/ ReadLoad(r) \/ AskMates(r) \/ KeepAnswer(r)
                         \/ Grant(r) \/ TurnAway(r) \/ LeaseGoes(r)
    \/ \E d \in Mates : AnswerAges(d) \/ PollMates(d)

----------------------------------------------------------------------------
(* Properties. *)

\* However requests overlap, a daemon promises no more than the machine has
\* and its share allows, but for one lease that did not fit and is all the
\* daemon has promised.  All daemons together promise no more than the machine
\* has, but for one lease that is all they have promised, unless one was
\* granted on an answer its mates had outgrown.
PromisesHold ==
    /\ PromiseTypeOK
    /\ \A d \in Mates :
          \/ Promised(d) <= Memory /\ Promised(d) <= Share[d]
          \/ \E r \in Granted(d) : request[r].over /\ Promised(d) = Wants[r]
    /\ \/ Cardinality(UnitsOf(Leased)) <= Memory
       \/ \E r \in Leased : request[r].blind
       \/ \E r \in Leased : request[r].over /\ Cardinality(UnitsOf(Leased)) = Wants[r]
=============================================================================
