---------------------------- MODULE ClosureSend ----------------------------
(***************************************************************************)
(* How the environment of a job (a closure of nix store paths) reaches one *)
(* node: the broadcasts of the daemons that hold it                        *)
(* (daemonapi/serverclosure.go, signedclosure.go) and the uploads of       *)
(* command lines (daemonctl/closurediff.go, upload.go), against what the   *)
(* receiver does (narimport.go, narsubstitute.go): it says what it lacks,  *)
(* fetches part of that from the binary cache itself, and imports what     *)
(* arrives once its own fetches are in.                                    *)
(*                                                                         *)
(* Nix is external: it takes a path only when the paths it refers to are   *)
(* valid, and one it was killed in lies there torn (its directory, bin/run *)
(* included, is there and nix does not hold it as valid).  Half an hour    *)
(* (substituteOff) does not pass.                                          *)
(***************************************************************************)
EXTENDS Naturals, FiniteSets

CONSTANTS
    Paths, Root,        \* the closure and the path that holds bin/run
    Refs,               \* what each path refers to
    OnCache,            \* paths the binary cache serves
    Casts,              \* broadcasts of the closure to this receiver
    At,                 \* the daemon each runs in
    Uploads,            \* command lines that send it themselves
    TakesSigned,        \* the receiver takes the signed format
    Nobody,             \* no broadcast
    MaxFaults           \* lost answers, cut sends, failed fetches: a bound

Senders == Casts \cup Uploads
Daemons == {At[c] : c \in Casts}

ASSUME ClosureAssumption ==
    /\ IsFiniteSet(Casts \cup Uploads)
    /\ Root \in Paths \ OnCache
    /\ Refs \in [Paths -> SUBSET Paths]
    /\ OnCache \subseteq Paths
    /\ Casts \cap Uploads = {}
    /\ Nobody \notin Casts \cup Uploads
    /\ TakesSigned \in BOOLEAN
    /\ MaxFaults \in Nat

VARIABLES
    store,      \* the receiver's store
    fetches,    \* its downloads in flight: who asked, what for
    off,        \* fetches.offUntil lies ahead
    importing,  \* s.importing of the closure
    seeds,      \* each daemon's send in flight (s.seeds): the broadcast that runs it
    cast,       \* where each broadcast is, and whose send it waits for
    send,       \* each sender's send
    faults

sendVars == <<store, fetches, off, importing, seeds, cast, send, faults>>
receiver == <<store, fetches, off, importing>>

Missing == {p \in Paths : store[p] # "valid"}

\* phone.CanRun and materializeClosureCtx: bin/run is there.
Runnable == store[Root] # "absent"

\* want is what the receiver asked for, dones the fetches it waits for; crossed
\* that it gave up on another's fetch, or another gave up on its own.
SendStates ==
    [pc: {"idle", "ask", "lookup", "pack", "sending", "await", "cancel", "import", "done"},
     form: {"signed", "diff", "whole", "job"}, want: SUBSET Paths, dones: SUBSET Senders,
     again: BOOLEAN, crossed: BOOLEAN,
     verdict: {"none", "has", "ok", "failed", "refused"}]

NoSend ==
    [pc |-> "idle", form |-> "signed", want |-> {}, dones |-> {}, again |-> FALSE,
     crossed |-> FALSE, verdict |-> "none"]

CastStates ==
    [pc: {"look", "check", "start", "wait", "over"}, on: Casts \cup {Nobody},
     said: {"none", "has", "importing", "took", "refused", "late"}]

SendTypeOK ==
    /\ store \in [Paths -> {"absent", "torn", "valid"}]
    /\ fetches \in [Senders -> SUBSET Paths]
    /\ off \in BOOLEAN
    /\ importing \in 0..Cardinality(Senders)
    /\ seeds \in [Daemons -> Casts \cup {Nobody}]
    /\ cast \in [Casts -> CastStates]
    /\ send \in [Senders -> SendStates]
    /\ faults \in 0..MaxFaults

SendInit ==
    /\ store = [p \in Paths |-> "absent"]
    /\ fetches = [s \in Senders |-> {}]
    /\ off = FALSE /\ importing = 0 /\ faults = 0
    /\ seeds = [d \in Daemons |-> Nobody]
    /\ cast = [c \in Casts |-> [pc |-> "look", on |-> Nobody, said |-> "none"]]
    /\ send = [s \in Senders |-> NoSend]

Fault == faults < MaxFaults /\ faults' = faults + 1

SetSend(s, r) == send' = [send EXCEPT ![s] = r]
SetCast(c, r) == cast' = [cast EXCEPT ![c] = r]

----------------------------------------------------------------------------
(* broadcastClosure. *)

\* seedFor: a send under way is waited on.
Look(c) ==
    /\ cast[c].pc = "look"
    /\ SetCast(c, IF seeds[At[c]] = Nobody
                  THEN [cast[c] EXCEPT !.pc = "check"]
                  ELSE [cast[c] EXCEPT !.pc = "wait", !.on = seeds[At[c]]])
    /\ UNCHANGED <<receiver, seeds, send, faults>>

\* peerStoreState; a receiver that does not answer is sent the closure.
Check(c) ==
    /\ cast[c].pc = "check"
    /\ \/ /\ Runnable
          /\ SetCast(c, [cast[c] EXCEPT !.pc = "over", !.said = "has"])
          /\ UNCHANGED faults
       \/ /\ ~Runnable /\ importing > 0
          /\ SetCast(c, [cast[c] EXCEPT !.pc = "over", !.said = "importing"])
          /\ UNCHANGED faults
       \/ /\ ~Runnable /\ importing = 0
          /\ SetCast(c, [cast[c] EXCEPT !.pc = "start"])
          /\ UNCHANGED faults
       \/ /\ Runnable \/ importing > 0
          /\ Fault
          /\ SetCast(c, [cast[c] EXCEPT !.pc = "start"])
    /\ UNCHANGED <<receiver, seeds, send>>

\* A mutant of the next: the seeds are not looked at again.
StartSeedBlind(c) ==
    /\ cast[c].pc = "start"
    /\ seeds' = [seeds EXCEPT ![At[c]] = c]
    /\ SetCast(c, [cast[c] EXCEPT !.pc = "wait", !.on = c])
    /\ SetSend(c, [send[c] EXCEPT !.pc = "ask",
                      !.form = IF TakesSigned THEN "signed" ELSE "diff"])
    /\ UNCHANGED <<receiver, faults>>

\* startSeed, and the goroutine that sends.
StartSeed(c) ==
    LET owner == IF seeds[At[c]] = Nobody THEN c ELSE seeds[At[c]] IN
    /\ cast[c].pc = "start"
    /\ seeds' = [seeds EXCEPT ![At[c]] = owner]
    /\ SetCast(c, [cast[c] EXCEPT !.pc = "wait", !.on = owner])
    /\ IF owner = c
       THEN SetSend(c, [send[c] EXCEPT !.pc = "ask",
                           !.form = IF TakesSigned THEN "signed" ELSE "diff"])
       ELSE UNCHANGED send
    /\ UNCHANGED <<receiver, faults>>

\* The wait for the send's end, at most broadcastWait.
WaitEnds(c) ==
    /\ cast[c].pc = "wait"
    /\ SetCast(c, [pc |-> "over", on |-> Nobody, said |->
          CASE send[cast[c].on].verdict = "ok" -> "took"
            [] send[cast[c].on].verdict = "none" -> "late"
            [] OTHER -> "refused"])
    /\ UNCHANGED <<receiver, seeds, send, faults>>

\* uploadJob: a runnable closure is not sent at all.
StartUpload(u) ==
    /\ u \in Uploads
    /\ send[u].pc = "idle"
    /\ SetSend(u, IF Runnable THEN [send[u] EXCEPT !.pc = "done", !.verdict = "has"]
                  ELSE [send[u] EXCEPT !.pc = "ask"])
    /\ UNCHANGED <<receiver, seeds, cast, faults>>

----------------------------------------------------------------------------
(* What is missing: handleStoreMissing, substituteMissing. *)

\* The form of a send that carries everything.
Whole(s) == IF s \in Uploads THEN "job" ELSE "whole"

\* askMissing, peerMissingPaths: a sender without an answer takes it that all
\* is missing; only a broadcast then still sends it signed.
Unanswered(s) ==
    [send[s] EXCEPT !.want = Paths, !.pc = "pack",
        !.form = IF @ = "signed" /\ s \in Casts THEN "signed" ELSE Whole(s)]

\* The receiver lists what is not valid; unless fetching is off it looks the
\* list up at the binary cache.
Ask(s) ==
    LET r == send[s] IN
    /\ r.pc = "ask"
    /\ \/ /\ SetSend(s, [r EXCEPT !.want = Missing,
                            !.pc = IF off \/ Missing = {} THEN "pack" ELSE "lookup"])
          /\ UNCHANGED faults
       \/ Fault /\ SetSend(s, Unanswered(s))
    /\ UNCHANGED <<receiver, seeds, cast>>

\* What the cache serves is fetched here and left out of the answer.  The
\* lookup has two seconds: an unreachable cache serves nothing.
Lookup(s) ==
    /\ send[s].pc = "lookup"
    /\ \E found \in {send[s].want \cap OnCache, {}} :
          /\ fetches' = [fetches EXCEPT ![s] = found]
          /\ SetSend(s, [send[s] EXCEPT !.pc = "pack", !.want = @ \ found])
    /\ UNCHANGED <<store, off, importing, seeds, cast, faults>>

FetchPath(s, p) ==
    /\ p \in fetches[s]
    /\ \A q \in Refs[p] : store[q] = "valid"
    /\ store' = [store EXCEPT ![p] = "valid"]
    /\ fetches' = [fetches EXCEPT ![s] = @ \ {p}]
    /\ UNCHANGED <<off, importing, seeds, cast, send, faults>>

FetchFails(s) ==
    /\ fetches[s] # {}
    /\ Fault
    /\ fetches' = [fetches EXCEPT ![s] = {}]
    /\ UNCHANGED <<store, off, importing, seeds, cast, send>>

----------------------------------------------------------------------------
(* The archive and its way: sendClosureOnce, seedOnce, postPartial. *)

\* diffNARFor: worth making when it leaves out some paths, and not all.
IsDiff(r) == r.form = "diff" /\ r.want \notin {{}, Paths}

\* The archive: a signed one carries the missing paths, a diff too unless it
\* would carry nothing or everything; a command line told that nothing is
\* missing, of a closure that is not runnable, sends it whole.
Packed(s) ==
    LET r == send[s] IN
    IF IsDiff(r) THEN r
    ELSE IF r.form = "signed" /\ ~(s \in Uploads /\ r.want = {}) THEN r
    ELSE [r EXCEPT !.form = Whole(s), !.want = Paths]

\* A job's archive is imported by its exec, which no broadcast hears of.
Pack(s) ==
    /\ send[s].pc = "pack"
    /\ LET r == Packed(s) IN
          /\ SetSend(s, [r EXCEPT !.pc = IF r.form = "job" THEN "import" ELSE "sending"])
          /\ importing' = IF r.form = "job" THEN importing ELSE importing + 1
    /\ UNCHANGED <<store, fetches, off, seeds, cast, faults>>

\* The signed archive cannot be made (another send's Prune took a path from
\* the cache directory they share): the old formats are tried.
PackFails(s) ==
    /\ send[s].pc = "pack" /\ send[s].form = "signed"
    /\ Fault
    /\ SetSend(s, IF s \in Casts
                  THEN [send[s] EXCEPT !.pc = "ask", !.form = "diff"]
                  ELSE [send[s] EXCEPT !.form = "job"])
    /\ UNCHANGED <<receiver, seeds, cast>>

\* The archive is in: awaitFetches notes the fetches in flight.
Arrived(s) ==
    /\ send[s].pc = "sending"
    /\ SetSend(s, [send[s] EXCEPT !.pc = "await", !.dones = {t \in Senders : fetches[t] # {}}])
    /\ UNCHANGED <<receiver, seeds, cast, faults>>

InFlight(s) == {t \in send[s].dones : fetches[t] # {}}

FetchesIn(s) ==
    /\ send[s].pc = "await" /\ InFlight(s) = {}
    /\ SetSend(s, [send[s] EXCEPT !.pc = "import", !.dones = {}])
    /\ UNCHANGED <<receiver, seeds, cast, faults>>

\* substituteWait is over: the fetches are cancelled, whoever asked for them,
\* one of them in the middle of a path, and substitution is off.
FetchesSlow(s) ==
    /\ send[s].pc = "await" /\ InFlight(s) # {}
    /\ fetches' = [t \in Senders |-> IF t \in InFlight(s) THEN {} ELSE fetches[t]]
    /\ \/ UNCHANGED store
       \/ \E t \in InFlight(s) : \E p \in fetches[t] :
             /\ store[p] = "absent"
             /\ store' = [store EXCEPT ![p] = "torn"]
    /\ off' = TRUE
    /\ send' = [t \in Senders |->
          CASE t = s -> [send[s] EXCEPT !.pc = "cancel", !.dones = {},
                                               !.crossed = @ \/ InFlight(s) # {s}]
            [] t # s /\ t \in InFlight(s) -> [send[t] EXCEPT !.crossed = TRUE]
            [] OTHER -> send[t]]
    /\ UNCHANGED <<importing, seeds, cast, faults>>

----------------------------------------------------------------------------
(* The import, and how the sender takes its answer. *)

\* A send is over; a daemon's leaves s.seeds (finishSeed).
Ends(s, verdict) ==
    /\ SetSend(s, [send[s] EXCEPT !.pc = "done", !.want = {}, !.dones = {}, !.verdict = verdict])
    /\ seeds' = IF s \in Casts THEN [seeds EXCEPT ![At[s]] = Nobody] ELSE seeds

\* The receiver's handler returns (markImporting's deferred function).
HandlerReturns(s) ==
    importing' = IF send[s].form = "job" THEN importing ELSE importing - 1

\* A mutant of the next: the counter keeps an import that gave up.
TooSlowCounted(s) ==
    /\ send[s].pc = "cancel"
    /\ IF ~send[s].again
       THEN SetSend(s, [send[s] EXCEPT !.pc = "ask", !.again = TRUE]) /\ UNCHANGED seeds
       ELSE Ends(s, "failed")
    /\ UNCHANGED <<importing, store, fetches, off, cast, faults>>

\* After a second 409 a broadcast has failed; a command line (seed) sends the
\* closure whole.
SlowTwice(s) ==
    IF s \in Uploads
    THEN SetSend(s, [send[s] EXCEPT !.pc = "pack", !.form = "job"]) /\ UNCHANGED seeds
    ELSE Ends(s, "failed")

\* 409: asked again the receiver lists every path it lacks.
TooSlow(s) ==
    /\ send[s].pc = "cancel"
    /\ HandlerReturns(s)
    /\ IF ~send[s].again
       THEN /\ SetSend(s, [send[s] EXCEPT !.pc = "ask", !.again = TRUE,
                  !.form = IF TakesSigned \/ s \in Uploads THEN "signed" ELSE "diff"])
            /\ UNCHANGED seeds
       ELSE SlowTwice(s)
    /\ UNCHANGED <<store, fetches, off, cast, faults>>

\* What nix copy (signed) or nix-store --import has still to put in.
Left(s) == IF send[s].form = "signed" THEN Missing ELSE Missing \cap send[s].want

ImportPath(s, p) ==
    /\ send[s].pc = "import"
    /\ p \in Missing \cap send[s].want
    /\ \A q \in Refs[p] : store[q] = "valid"
    /\ store' = [store EXCEPT ![p] = "valid"]
    /\ UNCHANGED <<fetches, off, importing, seeds, cast, send, faults>>

\* materializeClosureCtx leaves a whole closure out that is runnable by now.
ImportDone(s) ==
    /\ send[s].pc = "import"
    /\ Left(s) = {} \/ (send[s].form \in {"whole", "job"} /\ Runnable)
    /\ HandlerReturns(s)
    /\ Ends(s, "ok")
    /\ UNCHANGED <<store, fetches, off, cast, faults>>

\* postPartial: the words of a signed import that failed are those of a
\* refusal (refusalMarkers), so a command line gives up.
Rejected(s) == IF s \in Uploads /\ send[s].form = "signed" THEN "refused" ELSE "failed"

\* A path's turn has come and its archive, or one it refers to, is not there.
ImportFails(s) ==
    /\ send[s].pc = "import"
    /\ \E p \in Left(s) :
          IF send[s].form = "signed"
          THEN p \notin send[s].want /\ \A q \in Refs[p] : store[q] = "valid"
          ELSE \E q \in Refs[p] \ send[s].want : store[q] # "valid"
    /\ HandlerReturns(s)
    /\ Ends(s, Rejected(s))
    /\ UNCHANGED <<store, fetches, off, cast, faults>>

\* The connection is cut (sendWatch, or the sender's machine), which stops nix
\* in the middle of a path.  A command line then sends the closure whole.
Cut(s) ==
    /\ send[s].pc \in {"sending", "await", "import"} /\ send[s].form # "job"
    /\ Fault
    /\ \/ UNCHANGED store
       \/ /\ send[s].pc = "import"
          /\ \E p \in Missing \cap send[s].want :
                /\ \A q \in Refs[p] : store[q] = "valid"
                /\ store' = [store EXCEPT ![p] = "torn"]
    /\ HandlerReturns(s)
    /\ IF s \in Uploads
       THEN SetSend(s, [send[s] EXCEPT !.pc = "pack", !.form = "job"]) /\ UNCHANGED seeds
       ELSE Ends(s, "failed")
    /\ UNCHANGED <<fetches, off, cast>>

----------------------------------------------------------------------------
SendStep(s) ==
    \/ StartUpload(s) \/ Ask(s) \/ Lookup(s) \/ Pack(s) \/ PackFails(s) \/ Arrived(s)
    \/ FetchesIn(s) \/ FetchesSlow(s) \/ TooSlow(s)
    \/ \E p \in Paths : ImportPath(s, p)
    \/ ImportDone(s) \/ ImportFails(s) \/ Cut(s)

CastStep(c) == Look(c) \/ Check(c) \/ StartSeed(c) \/ WaitEnds(c)

FetchStep(s) == FetchFails(s) \/ \E p \in Paths : FetchPath(s, p)

SendsOver ==
    /\ \A c \in Casts : cast[c].pc = "over"
    /\ \A s \in Senders : send[s].pc \in {"idle", "done"}
    /\ \A u \in Uploads : send[u].pc = "done"
    /\ \A s \in Senders : fetches[s] = {}
    /\ UNCHANGED sendVars

SendNext ==
    \/ \E s \in Senders : SendStep(s)
    \/ \E c \in Casts : CastStep(c)
    \/ \E s \in Senders : FetchStep(s)
    \/ SendsOver

SendSpec == SendInit /\ [][SendNext]_sendVars

----------------------------------------------------------------------------
(* Properties. *)

Sending(s) == send[s].pc \notin {"idle", "done"}

\* However broadcasts of one daemon meet between seedFor and startSeed, one
\* send of the closure runs to the receiver ("waited on, not sent it again");
\* and a slow binary cache alone never costs a send: it fails only when an
\* answer, a connection or a download failed, or its download and another
\* sender's import met.
OneSend ==
    /\ SendTypeOK
    /\ \A c, d \in Casts : Sending(c) /\ Sending(d) /\ At[c] = At[d] => c = d
    /\ \A s \in Senders : send[s].verdict \in {"failed", "refused"} => faults > 0 \/ send[s].crossed

\* The receiver does not say for ever that it is importing, and no send holds
\* its place in s.seeds for ever, or nobody would send the closure again.
SendsEnd ==
    <>[](importing = 0 /\ \A d \in Daemons : seeds[d] = Nobody)

\* errFetchSlow is "answered as 409 so the sender asks again".
SlowIsToldToAll ==
    \A s \in Senders : send[s].verdict \in {"failed", "refused"} => faults > 0

\* A receiver that says it can run the closure has all of it.
RunnableIsWhole == \A c \in Casts : cast[c].said = "has" => Missing = {}

\* A failed download makes the sender fall back to the whole closure.
RefusedByKeyOnly == \A u \in Uploads : send[u].verdict # "refused"
=============================================================================
