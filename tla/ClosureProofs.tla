---------------------------- MODULE ClosureProofs ----------------------------
(***************************************************************************)
(* Theorems about how closures and files travel and are kept: the sends of *)
(* a closure to one node (ClosureSend), the nix cache (NixCache), a        *)
(* project's files there and back (WorkspaceSync), and the directories     *)
(* that are bounded by use (DiskLru): shared ones (SharedDirs) and the     *)
(* archives (NarCache).  They hold for any closure, any number of senders, *)
(* peers, downloads, runs, files, transfers and stores, and any faults.    *)
(* Each part has an inductive invariant of its own: SendInv, CacheInv,     *)
(* WsInv, DirInv and NarInv.                                               *)
(***************************************************************************)
EXTENDS MCClosures, Recursion, Integers, FiniteSetTheorems, FunctionTheorems,
        SequenceTheorems, TLAPS

-----------------------------------------------------------------------------
(* Sends of a closure.                                                     *)

\* The sends whose archive is on its way into the receiver, which
\* markImporting counts.
Counted ==
    {s \in Senders : /\ send[s].pc \in {"sending", "await", "cancel", "import"}
                     /\ send[s].form # "job"}
\* What markImporting counts is what is on its way.
CountInv == importing = Cardinality(Counted)
\* A cast holds its place among the node's seeds until its send is over.
SeedInv == \A c \in Casts : Sending(c) => seeds[At[c]] = c
\* A cast's send begins only after its turn has come.
EarlyInv == \A c \in Casts : cast[c].pc \in {"look", "check", "start"} => send[c].pc = "idle"
\* What a send asks for covers what the receiver lacks, unless a fault or
\* somebody else's give-up came between; the reasons of its verdict.
SenderInv(s) ==
    /\ send[s].verdict \in {"failed", "refused"} => faults > 0 \/ send[s].crossed
    /\ send[s].again \/ send[s].pc = "cancel" => off /\ (send[s].crossed \/ fetches[s] = {})
    /\ send[s].again => send[s].pc # "lookup"
    /\ send[s].again /\ send[s].pc = "cancel" => send[s].crossed
    /\ send[s].pc = "await" /\ fetches[s] # {} => s \in send[s].dones
    /\ send[s].pc = "import" => fetches[s] = {} \/ send[s].want = Paths
    /\ send[s].pc = "lookup" => Missing \subseteq send[s].want
    /\ send[s].pc \in {"pack", "sending", "await", "import"}
         => Missing \subseteq send[s].want \cup fetches[s] \/ faults > 0 \/ send[s].crossed
\* The inductive invariant of the sends.
SendInv ==
    SendTypeOK /\ CountInv /\ SeedInv /\ EarlyInv /\ \A s \in Senders : SenderInv(s)

-----------------------------------------------------------------------------
\* One send changes, the others stay.
OnlySend(s, r) ==
    /\ send' \in [Senders -> SendStates]
    /\ send'[s] = r
    /\ \A t \in Senders : t # s => send'[t] = send[t]

\* Writing one send.
LEMMA SetSendIs ==
  ASSUME SendTypeOK, NEW s \in Senders, NEW r \in SendStates, SetSend(s, r)
  PROVE  OnlySend(s, r)
  BY DEF SendTypeOK, SetSend, OnlySend

\* Writing one cast.
LEMMA SetCastIs ==
  ASSUME SendTypeOK, NEW c \in Casts, NEW r \in CastStates, SetCast(c, r)
  PROVE  /\ cast' \in [Casts -> CastStates]
         /\ cast'[c] = r
         /\ \A d \in Casts : d # c => cast'[d] = cast[d]
  BY DEF SendTypeOK, SetCast

\* What the fields of a send hold.
LEMMA SendFields ==
  ASSUME SendTypeOK, NEW s \in Senders
  PROVE  /\ send[s] \in SendStates
         /\ send[s].pc \in {"idle", "ask", "lookup", "pack", "sending", "await", "cancel",
                            "import", "done"}
         /\ send[s].form \in {"signed", "diff", "whole", "job"}
         /\ send[s].want \subseteq Paths
         /\ send[s].dones \subseteq Senders
         /\ send[s].again \in BOOLEAN /\ send[s].crossed \in BOOLEAN
         /\ send[s].verdict \in {"none", "has", "ok", "failed", "refused"}
  BY DEF SendTypeOK, SendStates

\* The count of the sends on their way, when one joins them or leaves them.
LEMMA CountSteps ==
  ASSUME SendTypeOK, CountInv, NEW s \in Senders,
         send' \in [Senders -> SendStates],
         \A t \in Senders : t # s => send'[t].pc = send[t].pc /\ send'[t].form = send[t].form
  PROVE  /\ IsFiniteSet(Counted) /\ Cardinality(Counted) \in 0..Cardinality(Senders)
         /\ IsFiniteSet(Counted') /\ Cardinality(Counted') \in 0..Cardinality(Senders)
         /\ (s \in Counted <=> s \in Counted') => Cardinality(Counted') = Cardinality(Counted)
         /\ s \notin Counted /\ s \in Counted' => Cardinality(Counted') = Cardinality(Counted) + 1
         /\ s \in Counted /\ s \notin Counted' => Cardinality(Counted') = Cardinality(Counted) - 1
<1>1. IsFiniteSet(Senders)
  BY ClosureAssumption DEF Senders
<1>2. Counted \subseteq Senders /\ Counted' \subseteq Senders
  BY DEF Counted
<1>3. \A t \in Senders : t # s => (t \in Counted <=> t \in Counted')
  BY DEF Counted
<1>4. IsFiniteSet(Counted) /\ IsFiniteSet(Counted')
  BY <1>1, <1>2, FS_Subset
<1>5. Cardinality(Senders) \in Nat /\ Cardinality(Counted) \in Nat /\ Cardinality(Counted') \in Nat
  BY <1>1, <1>4, FS_CardinalityType
<1>6. Cardinality(Counted) <= Cardinality(Senders) /\ Cardinality(Counted') <= Cardinality(Senders)
  BY <1>1, <1>2, FS_Subset
<1>7. ASSUME s \in Counted <=> s \in Counted' PROVE Counted' = Counted
  BY <1>2, <1>3, <1>7
<1>8. ASSUME s \notin Counted, s \in Counted'
      PROVE  Cardinality(Counted') = Cardinality(Counted) + 1
  <2>1. Counted' = Counted \cup {s}
    BY <1>2, <1>3, <1>8
  <2> QED
    BY <1>4, <1>8, <2>1, FS_AddElement
<1>9. ASSUME s \in Counted, s \notin Counted'
      PROVE  Cardinality(Counted') = Cardinality(Counted) - 1
  <2>1. Counted' = Counted \ {s}
    BY <1>2, <1>3, <1>9
  <2> QED
    BY <1>4, <1>9, <2>1, FS_RemoveElement
<1> QED
  BY <1>4, <1>5, <1>6, <1>7, <1>8, <1>9

-----------------------------------------------------------------------------
\* A sender whose send and fetches stay is as right as before when the store
\* only grows, faults only add up and substitution stays off.
LEMMA SenderStays ==
  ASSUME SendTypeOK, SendTypeOK', NEW t \in Senders, SenderInv(t),
         send'[t] = send[t], fetches'[t] = fetches[t],
         Missing' \subseteq Missing, off => off', faults' >= faults
  PROVE  SenderInv(t)'
<1>1. faults \in Int /\ faults' \in Int /\ (faults > 0 => faults' > 0)
  BY ClosureAssumption DEF SendTypeOK
<1> HIDE DEF Missing
<1> QED
  BY <1>1 DEF SenderInv

\* A step of one sender that leaves the receiver's downloads and the seeds
\* alone, or frees the sender's own place in them.
LEMMA SeedStays ==
  ASSUME SendTypeOK, SeedInv, EarlyInv, NEW s \in Senders,
         send' \in [Senders -> SendStates],
         \A t \in Senders : t # s => send'[t] = send[t],
         s \in Casts => Sending(s), cast' = cast,
         \/ seeds' = seeds
         \/ /\ ~Sending(s)'
            /\ seeds' = IF s \in Casts THEN [seeds EXCEPT ![At[s]] = Nobody] ELSE seeds
  PROVE  SeedInv' /\ EarlyInv'
<1>1. \A c \in Casts : c \in Senders /\ At[c] \in Daemons
  BY DEF Senders, Daemons
<1>2. ASSUME NEW c \in Casts, Sending(c)' PROVE seeds'[At[c]] = c
  <2>1. Sending(c)
    BY <1>1, <1>2 DEF Sending
  <2>2. seeds[At[c]] = c
    BY <2>1 DEF SeedInv
  <2>3. CASE seeds' = seeds
    BY <2>2, <2>3
  <2>4. CASE ~Sending(s)' /\ seeds' = IF s \in Casts THEN [seeds EXCEPT ![At[s]] = Nobody] ELSE seeds
    <3>1. c # s
      BY <1>2, <2>4
    <3>2. s \in Casts => seeds[At[s]] = s
      BY DEF SeedInv
    <3>3. s \in Casts => At[c] # At[s]
      BY <2>2, <3>1, <3>2
    <3> QED
      BY <1>1, <2>2, <2>4, <3>3 DEF SendTypeOK
  <2> QED
    BY <2>3, <2>4
<1>3. EarlyInv'
  BY <1>1 DEF EarlyInv, Sending
<1> QED
  BY <1>2, <1>3 DEF SeedInv

\* A step of one send keeps the invariant when it does so for that sender, and
\* counts the import as the receiver does.
LEMMA SendStepIs ==
  ASSUME SendInv, NEW s \in Senders, NEW r \in SendStates, OnlySend(s, r), s \in Casts => Sending(s),
         store' \in [Paths -> {"absent", "torn", "valid"}], Missing' \subseteq Missing,
         fetches' \in [Senders -> SUBSET Paths],
         \A t \in Senders : t # s => fetches'[t] = fetches[t],
         off' \in BOOLEAN, off => off',
         faults' \in 0..MaxFaults, faults' >= faults,
         cast' = cast,
         \/ seeds' = seeds
         \/ /\ r.pc = "done"
            /\ seeds' = IF s \in Casts THEN [seeds EXCEPT ![At[s]] = Nobody] ELSE seeds,
         (s \in Counted <=> s \in Counted') => importing' = importing,
         s \notin Counted /\ s \in Counted' => importing' = importing + 1,
         s \in Counted /\ s \notin Counted' => importing' = importing - 1,
         SenderInv(s)'
  PROVE  SendInv'
<1>1. /\ SendTypeOK /\ CountInv /\ SeedInv /\ EarlyInv
      /\ \A t \in Senders : SenderInv(t)
  BY DEF SendInv
<1>2. /\ send' \in [Senders -> SendStates]
      /\ \A t \in Senders : t # s => send'[t] = send[t]
      /\ send'[s] = r
  BY DEF OnlySend
<1>3. CountInv' /\ importing' \in 0..Cardinality(Senders)
  <2>1. /\ Cardinality(Counted') \in 0..Cardinality(Senders)
        /\ (s \in Counted <=> s \in Counted') => Cardinality(Counted') = Cardinality(Counted)
        /\ s \notin Counted /\ s \in Counted' => Cardinality(Counted') = Cardinality(Counted) + 1
        /\ s \in Counted /\ s \notin Counted' => Cardinality(Counted') = Cardinality(Counted) - 1
    BY <1>1, <1>2, CountSteps
  <2>2. importing = Cardinality(Counted)
    BY <1>1 DEF CountInv
  <2> QED
    BY <2>1, <2>2 DEF CountInv
<1>4. seeds' \in [Daemons -> Casts \cup {Nobody}]
  BY <1>1 DEF SendTypeOK
<1>5. SendTypeOK'
  BY <1>1, <1>2, <1>3, <1>4 DEF SendTypeOK
<1>6. SeedInv' /\ EarlyInv'
  <2>1. r.pc = "done" => ~Sending(s)'
    BY <1>2 DEF Sending
  <2> QED
    BY <1>1, <1>2, <2>1, SeedStays
<1>7. ASSUME NEW t \in Senders PROVE SenderInv(t)'
  <2>1. CASE t = s
    BY <2>1
  <2>2. CASE t # s
    <3>1. SenderInv(t) /\ send'[t] = send[t] /\ fetches'[t] = fetches[t]
      BY <1>1, <1>2, <2>2
    <3> QED
      BY <1>1, <1>5, <3>1, SenderStays
  <2> QED
    BY <2>1, <2>2
<1> QED
  BY <1>3, <1>5, <1>6, <1>7 DEF SendInv

-----------------------------------------------------------------------------
(* The steps of a sender. *)

\* Ask keeps the invariant.
LEMMA AskStep == ASSUME SendInv, NEW s \in Senders, Ask(s) PROVE SendInv'
<1>1. SendTypeOK /\ SenderInv(s) /\ send[s].pc = "ask" /\ Sending(s) /\ send[s] \in SendStates
  BY DEF SendInv, Ask, Sending, SendTypeOK
<1> DEFINE told == [send[s] EXCEPT !.want = Missing,
                        !.pc = IF off \/ Missing = {} THEN "pack" ELSE "lookup"]
           none == Unanswered(s)
<1>2. /\ told \in SendStates /\ told.want = Missing /\ told.form = send[s].form
      /\ told.pc = IF off \/ Missing = {} THEN "pack" ELSE "lookup"
      /\ told.again = send[s].again /\ told.crossed = send[s].crossed
      /\ told.verdict = send[s].verdict
  BY <1>1 DEF SendStates, Missing
<1>3. /\ none \in SendStates /\ none.want = Paths /\ none.pc = "pack"
      /\ none.again = send[s].again /\ none.crossed = send[s].crossed
      /\ none.verdict = send[s].verdict
  BY <1>1 DEF SendStates, Unanswered, Whole
<1> HIDE DEF told, none
<1>4. /\ UNCHANGED <<store, fetches, off, importing, seeds, cast>>
      /\ \/ SetSend(s, told) /\ faults' = faults
         \/ SetSend(s, none) /\ faults' = faults + 1 /\ faults < MaxFaults
  BY DEF Ask, Fault, receiver, told, none
<1>5. Missing' = Missing
  BY <1>4 DEF Missing
<1>6. ASSUME NEW r \in {told, none}, SetSend(s, r) PROVE
      /\ r \in SendStates /\ OnlySend(s, r) /\ r.pc \in {"pack", "lookup"}
      /\ s \notin Counted /\ s \notin Counted'
  BY <1>1, <1>2, <1>3, <1>6, SetSendIs DEF OnlySend, Counted
<1>7. CASE SetSend(s, told) /\ faults' = faults
  <2>1. SenderInv(s)'
    BY <1>1, <1>2, <1>4, <1>5, <1>6, <1>7 DEF SenderInv, OnlySend
  <2> QED
    BY <1>1, <1>4, <1>5, <1>6, <1>7, <2>1, SendStepIs DEF SendTypeOK
<1>8. CASE SetSend(s, none) /\ faults' = faults + 1 /\ faults < MaxFaults
  <2>2. faults' \in 0..MaxFaults /\ faults' >= faults
    BY <1>1, <1>8, ClosureAssumption DEF SendTypeOK
  <2>3. Missing' \subseteq Paths /\ faults' > 0
    BY <1>1, <1>8, ClosureAssumption DEF SendTypeOK, Missing
  <2>1. SenderInv(s)'
    BY <2>3, <1>1, <1>3, <1>4, <1>5, <1>6, <1>8 DEF SenderInv, OnlySend
  <2> QED
    BY <1>1, <1>4, <1>5, <1>6, <1>8, <2>1, <2>2, SendStepIs DEF SendTypeOK
<1> QED
  BY <1>4, <1>7, <1>8

\* StartUpload keeps the invariant.
LEMMA StartUploadStep == ASSUME SendInv, NEW s \in Uploads, StartUpload(s) PROVE SendInv'
<1> DEFINE has == [send[s] EXCEPT !.pc = "done", !.verdict = "has"]
           asks == [send[s] EXCEPT !.pc = "ask"]
<1>1. /\ SendTypeOK /\ s \in Senders /\ s \notin Casts /\ SenderInv(s)
      /\ send[s].pc = "idle" /\ send[s] \in SendStates
  BY ClosureAssumption DEF SendInv, StartUpload, Senders, SendTypeOK
<1>2. /\ has \in SendStates /\ has.pc = "done" /\ has.verdict = "has"
      /\ has.again = send[s].again /\ has.crossed = send[s].crossed
  BY <1>1 DEF SendStates
<1>3. /\ asks \in SendStates /\ asks.pc = "ask" /\ asks.verdict = send[s].verdict
      /\ asks.again = send[s].again /\ asks.crossed = send[s].crossed
  BY <1>1 DEF SendStates
<1>4. /\ UNCHANGED <<store, fetches, off, importing, seeds, cast, faults>>
      /\ SetSend(s, has) \/ SetSend(s, asks)
  BY DEF StartUpload, receiver
<1> HIDE DEF has, asks
<1>5. Missing' = Missing /\ faults \in 0..MaxFaults /\ faults >= faults
  BY <1>1, <1>4, ClosureAssumption DEF Missing, SendTypeOK
<1>6. ASSUME NEW r \in {has, asks}, SetSend(s, r) PROVE SendInv'
  <2>1. /\ r \in SendStates /\ OnlySend(s, r) /\ r.pc \in {"done", "ask"}
        /\ s \notin Counted /\ s \notin Counted'
    BY <1>1, <1>2, <1>3, <1>6, SetSendIs DEF OnlySend, Counted
  <2>2. SenderInv(s)'
    BY <1>1, <1>2, <1>3, <1>4, <1>5, <2>1 DEF SenderInv, OnlySend
  <2> QED
    BY <1>1, <1>4, <1>5, <2>1, <2>2, SendStepIs DEF SendTypeOK
<1> QED
  BY <1>4, <1>6

\* Lookup keeps the invariant.
LEMMA LookupStep == ASSUME SendInv, NEW s \in Senders, Lookup(s) PROVE SendInv'
<1>1. /\ SendTypeOK /\ SenderInv(s) /\ send[s].pc = "lookup" /\ Sending(s)
      /\ send[s] \in SendStates /\ send[s].want \subseteq Paths
  BY DEF SendInv, Lookup, Sending, SendTypeOK, SendStates
<1>2. PICK found \in {send[s].want \cap OnCache, {}} :
        /\ fetches' = [fetches EXCEPT ![s] = found]
        /\ SetSend(s, [send[s] EXCEPT !.pc = "pack", !.want = @ \ found])
  BY DEF Lookup
<1> DEFINE r == [send[s] EXCEPT !.pc = "pack", !.want = @ \ found]
<1>3. /\ r \in SendStates /\ r.pc = "pack" /\ r.want = send[s].want \ found
      /\ r.again = send[s].again /\ r.crossed = send[s].crossed
      /\ r.verdict = send[s].verdict
  BY <1>1 DEF SendStates
<1> HIDE DEF r
<1>4. UNCHANGED <<store, off, importing, seeds, cast, faults>> /\ SetSend(s, r)
  BY <1>2 DEF Lookup, r
<1>5. Missing' = Missing /\ faults \in 0..MaxFaults /\ faults >= faults
  BY <1>1, <1>4, ClosureAssumption DEF Missing, SendTypeOK
<1>6. /\ fetches' \in [Senders -> SUBSET Paths] /\ fetches'[s] = found
      /\ \A t \in Senders : t # s => fetches'[t] = fetches[t]
  BY <1>1, <1>2 DEF SendTypeOK
<1>7. OnlySend(s, r) /\ s \notin Counted /\ s \notin Counted'
  BY <1>1, <1>3, <1>4, SetSendIs DEF OnlySend, Counted
<1>8. SenderInv(s)'
  BY <1>1, <1>3, <1>4, <1>5, <1>6, <1>7 DEF SenderInv, OnlySend
<1> QED
  BY <1>1, <1>3, <1>4, <1>5, <1>6, <1>7, <1>8, SendStepIs DEF SendTypeOK

\* A packed send asks for no less than before.
LEMMA PackedIs ==
  ASSUME NEW s \in Senders, send[s] \in SendStates, send[s].pc = "pack"
  PROVE  /\ Packed(s) \in SendStates /\ Packed(s).pc = "pack"
         /\ Packed(s).again = send[s].again /\ Packed(s).crossed = send[s].crossed
         /\ Packed(s).verdict = send[s].verdict
         /\ send[s].want \subseteq Packed(s).want
         /\ Packed(s).form = "job" => Packed(s).want = Paths
<1> DEFINE r == send[s]
           w == [r EXCEPT !.form = Whole(s), !.want = Paths]
<1>1. /\ w \in SendStates /\ w.pc = "pack" /\ w.want = Paths
      /\ w.again = r.again /\ w.crossed = r.crossed /\ w.verdict = r.verdict
  BY DEF SendStates, Whole
<1>2. r.want \subseteq Paths
  BY DEF SendStates
<1> HIDE DEF w
<1>3. \/ Packed(s) = w
      \/ Packed(s) = r /\ r.form # "job"
  BY DEF Packed, IsDiff, w
<1> QED
  BY <1>1, <1>2, <1>3

\* Pack keeps the invariant.
LEMMA PackStep == ASSUME SendInv, NEW s \in Senders, Pack(s) PROVE SendInv'
<1>1. /\ SendTypeOK /\ SenderInv(s) /\ send[s].pc = "pack" /\ Sending(s)
      /\ send[s] \in SendStates
  BY DEF SendInv, Pack, Sending, SendTypeOK
<1> DEFINE p == Packed(s)
           r == [p EXCEPT !.pc = IF p.form = "job" THEN "import" ELSE "sending"]
<1>2. /\ p \in SendStates /\ p.again = send[s].again /\ p.crossed = send[s].crossed
      /\ p.verdict = send[s].verdict
      /\ send[s].want \subseteq p.want
      /\ p.form = "job" => p.want = Paths
  BY <1>1, PackedIs
<1>a. /\ SetSend(s, r) /\ UNCHANGED <<store, fetches, off, seeds, cast, faults>>
      /\ importing' = IF p.form = "job" THEN importing ELSE importing + 1
  BY DEF Pack
<1> HIDE DEF p
<1>3. /\ r \in SendStates /\ r.pc = (IF p.form = "job" THEN "import" ELSE "sending")
      /\ r.want = p.want /\ r.form = p.form
      /\ r.again = send[s].again /\ r.crossed = send[s].crossed
      /\ r.verdict = send[s].verdict
  BY <1>2 DEF SendStates
<1> HIDE DEF r
<1>4. /\ r.pc = "import" => r.form = "job" /\ r.want = Paths
      /\ r.pc = "sending" => r.form # "job" /\ send[s].want \subseteq r.want
      /\ r.pc \in {"import", "sending"}
  BY <1>2, <1>3
<1>5. /\ Missing' = Missing /\ Missing \subseteq Paths
      /\ faults \in 0..MaxFaults /\ faults >= faults
  BY <1>1, <1>a, ClosureAssumption DEF Missing, SendTypeOK
<1>7. OnlySend(s, r) /\ s \notin Counted /\ (s \in Counted' <=> p.form # "job")
  BY <1>1, <1>3, <1>4, <1>a, SetSendIs DEF OnlySend, Counted
<1>8. SenderInv(s)'
  BY <1>1, <1>3, <1>4, <1>5, <1>a, <1>7 DEF SenderInv, OnlySend
<1> QED
  BY <1>1, <1>3, <1>4, <1>5, <1>a, <1>7, <1>8, SendStepIs DEF SendTypeOK

\* PackFails keeps the invariant.
LEMMA PackFailsStep == ASSUME SendInv, NEW s \in Senders, PackFails(s) PROVE SendInv'
<1>1. /\ SendTypeOK /\ SenderInv(s) /\ send[s].pc = "pack" /\ Sending(s)
      /\ send[s] \in SendStates
  BY DEF SendInv, PackFails, Sending, SendTypeOK
<1> DEFINE asks == [send[s] EXCEPT !.pc = "ask", !.form = "diff"]
           packs == [send[s] EXCEPT !.form = "job"]
<1>2. /\ asks \in SendStates /\ asks.pc = "ask" /\ asks.verdict = send[s].verdict
      /\ asks.again = send[s].again /\ asks.crossed = send[s].crossed
  BY <1>1 DEF SendStates
<1>3. /\ packs \in SendStates /\ packs.pc = "pack" /\ packs.verdict = send[s].verdict
      /\ packs.again = send[s].again /\ packs.crossed = send[s].crossed
  BY <1>1 DEF SendStates
<1>4. /\ UNCHANGED <<store, fetches, off, importing, seeds, cast>>
      /\ faults < MaxFaults /\ faults' = faults + 1
      /\ SetSend(s, asks) \/ SetSend(s, packs)
  BY DEF PackFails, receiver, Fault
<1> HIDE DEF asks, packs
<1>5. Missing' = Missing /\ faults' \in 0..MaxFaults /\ faults' >= faults /\ faults' > 0
  BY <1>1, <1>4, ClosureAssumption DEF Missing, SendTypeOK
<1>6. ASSUME NEW r \in {asks, packs}, SetSend(s, r) PROVE SendInv'
  <2>1. /\ r \in SendStates /\ OnlySend(s, r) /\ r.pc \in {"ask", "pack"}
        /\ s \notin Counted /\ s \notin Counted'
    BY <1>1, <1>2, <1>3, <1>6, SetSendIs DEF OnlySend, Counted
  <2>2. SenderInv(s)'
    BY <1>1, <1>2, <1>3, <1>4, <1>5, <2>1 DEF SenderInv, OnlySend
  <2> QED
    BY <1>1, <1>4, <1>5, <2>1, <2>2, SendStepIs DEF SendTypeOK
<1> QED
  BY <1>4, <1>6

\* Arrived keeps the invariant.
LEMMA ArrivedStep == ASSUME SendInv, NEW s \in Senders, Arrived(s) PROVE SendInv'
<1>1. /\ SendTypeOK /\ SenderInv(s) /\ send[s].pc = "sending" /\ Sending(s)
      /\ send[s] \in SendStates
  BY DEF SendInv, Arrived, Sending, SendTypeOK
<1> DEFINE d == {t \in Senders : fetches[t] # {}}
           r == [send[s] EXCEPT !.pc = "await", !.dones = d]
<1>2. /\ r \in SendStates /\ r.pc = "await" /\ r.dones = d
      /\ r.want = send[s].want /\ r.form = send[s].form
      /\ r.again = send[s].again /\ r.crossed = send[s].crossed
      /\ r.verdict = send[s].verdict
  BY <1>1 DEF SendStates
<1>3. /\ UNCHANGED <<store, fetches, off, importing, seeds, cast, faults>> /\ SetSend(s, r)
      /\ fetches[s] # {} => s \in d
  BY DEF Arrived, receiver
<1> HIDE DEF r, d
<1>5. Missing' = Missing /\ faults \in 0..MaxFaults /\ faults >= faults
  BY <1>1, <1>3, ClosureAssumption DEF Missing, SendTypeOK
<1>7. OnlySend(s, r) /\ (s \in Counted <=> s \in Counted')
  BY <1>1, <1>2, <1>3, SetSendIs DEF OnlySend, Counted
<1>8. SenderInv(s)'
  BY <1>1, <1>2, <1>3, <1>5, <1>7 DEF SenderInv, OnlySend
<1> QED
  BY <1>1, <1>2, <1>3, <1>5, <1>7, <1>8, SendStepIs DEF SendTypeOK

\* FetchesIn keeps the invariant.
LEMMA FetchesInStep == ASSUME SendInv, NEW s \in Senders, FetchesIn(s) PROVE SendInv'
<1>1. /\ SendTypeOK /\ SenderInv(s) /\ send[s].pc = "await" /\ Sending(s)
      /\ send[s] \in SendStates
  BY DEF SendInv, FetchesIn, Sending, SendTypeOK
<1> DEFINE r == [send[s] EXCEPT !.pc = "import", !.dones = {}]
<1>2. /\ r \in SendStates /\ r.pc = "import"
      /\ r.want = send[s].want /\ r.form = send[s].form
      /\ r.again = send[s].again /\ r.crossed = send[s].crossed
      /\ r.verdict = send[s].verdict
  BY <1>1 DEF SendStates
<1>3. /\ UNCHANGED <<store, fetches, off, importing, seeds, cast, faults>> /\ SetSend(s, r)
  BY DEF FetchesIn, receiver
<1>4. fetches[s] = {}
  BY <1>1 DEF FetchesIn, InFlight, SenderInv
<1> HIDE DEF r
<1>5. Missing' = Missing /\ faults \in 0..MaxFaults /\ faults >= faults
  BY <1>1, <1>3, ClosureAssumption DEF Missing, SendTypeOK
<1>7. OnlySend(s, r) /\ (s \in Counted <=> s \in Counted')
  BY <1>1, <1>2, <1>3, SetSendIs DEF OnlySend, Counted
<1>8. SenderInv(s)'
  BY <1>1, <1>2, <1>3, <1>4, <1>5, <1>7 DEF SenderInv, OnlySend
<1> QED
  BY <1>1, <1>2, <1>3, <1>5, <1>7, <1>8, SendStepIs DEF SendTypeOK

\* TooSlow keeps the invariant.
LEMMA TooSlowStep == ASSUME SendInv, NEW s \in Senders, TooSlow(s) PROVE SendInv'
<1>1. /\ SendTypeOK /\ SenderInv(s) /\ send[s].pc = "cancel" /\ Sending(s)
      /\ send[s] \in SendStates /\ send[s].again \in BOOLEAN
  BY DEF SendInv, TooSlow, Sending, SendTypeOK, SendStates
<1> DEFINE asks == [send[s] EXCEPT !.pc = "ask", !.again = TRUE,
                      !.form = IF TakesSigned \/ s \in Uploads THEN "signed" ELSE "diff"]
           packs == [send[s] EXCEPT !.pc = "pack", !.form = "job"]
           ends == [send[s] EXCEPT !.pc = "done", !.want = {}, !.dones = {}, !.verdict = "failed"]
<1>2. /\ asks \in SendStates /\ asks.pc = "ask" /\ asks.verdict = send[s].verdict
      /\ asks.crossed = send[s].crossed
  BY <1>1 DEF SendStates
<1>3. /\ packs \in SendStates /\ packs.pc = "pack" /\ packs.verdict = send[s].verdict
      /\ packs.again = send[s].again /\ packs.crossed = send[s].crossed
  BY <1>1 DEF SendStates
<1>4. /\ ends \in SendStates /\ ends.pc = "done"
      /\ ends.again = send[s].again /\ ends.crossed = send[s].crossed
  BY <1>1 DEF SendStates
<1>5. /\ UNCHANGED <<store, fetches, off, cast, faults>> /\ HandlerReturns(s)
      /\ \/ SetSend(s, asks) /\ ~send[s].again /\ seeds' = seeds
         \/ SetSend(s, packs) /\ send[s].again /\ seeds' = seeds
         \/ /\ SetSend(s, ends) /\ send[s].again
            /\ seeds' = IF s \in Casts THEN [seeds EXCEPT ![At[s]] = Nobody] ELSE seeds
  BY DEF TooSlow, SlowTwice, Ends
<1> HIDE DEF asks, packs, ends
<1>6. Missing' = Missing /\ faults \in 0..MaxFaults /\ faults >= faults
  BY <1>1, <1>5, ClosureAssumption DEF Missing, SendTypeOK
<1>7. ASSUME NEW r \in {asks, packs, ends}, SetSend(s, r), r # asks => send[s].again,
             \/ seeds' = seeds
             \/ /\ r.pc = "done"
                /\ seeds' = IF s \in Casts THEN [seeds EXCEPT ![At[s]] = Nobody] ELSE seeds
      PROVE  SendInv'
  <2>1. /\ r \in SendStates /\ OnlySend(s, r) /\ r.pc \in {"ask", "pack", "done"}
        /\ s \notin Counted' /\ (s \in Counted <=> send[s].form # "job")
    BY <1>1, <1>2, <1>3, <1>4, <1>7, SetSendIs DEF OnlySend, Counted
  <2>2. /\ (s \in Counted <=> s \in Counted') => importing' = importing
        /\ s \in Counted /\ s \notin Counted' => importing' = importing - 1
    BY <1>5, <2>1 DEF HandlerReturns
  <2>3. SenderInv(s)'
    BY <1>1, <1>2, <1>3, <1>4, <1>5, <1>6, <1>7, <2>1 DEF SenderInv, OnlySend
  <2> QED
    BY <1>1, <1>5, <1>6, <1>7, <2>1, <2>2, <2>3, SendStepIs DEF SendTypeOK
<1> QED
  BY <1>4, <1>5, <1>7

\* A path the store gets is missing no more, one torn was missing before.
LEMMA StoreSteps ==
  ASSUME SendTypeOK, NEW p \in Paths
  PROVE  /\ store' = [store EXCEPT ![p] = "valid"]
              => /\ store' \in [Paths -> {"absent", "torn", "valid"}]
                 /\ Missing' = Missing \ {p}
         /\ store' = [store EXCEPT ![p] = "torn"] /\ p \in Missing
              => /\ store' \in [Paths -> {"absent", "torn", "valid"}]
                 /\ Missing' = Missing
  BY DEF SendTypeOK, Missing

\* Steps that leave the sends, the casts and their places alone.
LEMMA SendsStay ==
  ASSUME SendInv, UNCHANGED <<importing, seeds, cast, send>>,
         SendTypeOK', \A s \in Senders : SenderInv(s)'
  PROVE  SendInv'
<1>1. Counted' = Counted /\ \A s \in Senders : Sending(s)' = Sending(s)
  BY DEF Counted, Sending
<1> QED
  BY <1>1 DEF SendInv, CountInv, SeedInv, EarlyInv, Senders

\* An import writes one path.
LEMMA ImportPathStep ==
  ASSUME SendInv, NEW s \in Senders, NEW p \in Paths, ImportPath(s, p) PROVE SendInv'
<1>1. SendTypeOK /\ \A t \in Senders : SenderInv(t)
  BY DEF SendInv
<1>2. /\ store' = [store EXCEPT ![p] = "valid"]
      /\ UNCHANGED <<fetches, off, importing, seeds, cast, send, faults>>
  BY DEF ImportPath
<1>3. store' \in [Paths -> {"absent", "torn", "valid"}] /\ Missing' \subseteq Missing
  BY <1>1, <1>2, StoreSteps
<1>4. SendTypeOK' /\ faults' >= faults
  BY <1>1, <1>2, <1>3, ClosureAssumption DEF SendTypeOK
<1>5. ASSUME NEW t \in Senders PROVE SenderInv(t)'
  BY <1>1, <1>2, <1>3, <1>4, SenderStays
<1> QED
  BY <1>2, <1>4, <1>5, SendsStay

\* A download brings one path.
LEMMA FetchPathStep ==
  ASSUME SendInv, NEW s \in Senders, NEW p \in Paths, FetchPath(s, p) PROVE SendInv'
<1>1. SendTypeOK /\ \A t \in Senders : SenderInv(t)
  BY DEF SendInv
<1>2. /\ store' = [store EXCEPT ![p] = "valid"]
      /\ fetches' = [fetches EXCEPT ![s] = @ \ {p}]
      /\ UNCHANGED <<off, importing, seeds, cast, send, faults>>
  BY DEF FetchPath
<1>3. store' \in [Paths -> {"absent", "torn", "valid"}] /\ Missing' = Missing \ {p}
  BY <1>1, <1>2, StoreSteps
<1>4. /\ fetches' \in [Senders -> SUBSET Paths] /\ fetches'[s] = fetches[s] \ {p}
      /\ \A t \in Senders : t # s => fetches'[t] = fetches[t]
  BY <1>1, <1>2 DEF SendTypeOK
<1>5. SendTypeOK' /\ faults' >= faults
  BY <1>1, <1>2, <1>3, <1>4, ClosureAssumption DEF SendTypeOK
<1>6. ASSUME NEW t \in Senders PROVE SenderInv(t)'
  <2>1. CASE t # s
    BY <1>1, <1>2, <1>3, <1>4, <1>5, <2>1, SenderStays
  <2>2. CASE t = s
    BY <1>1, <1>2, <1>3, <1>4, <2>2 DEF SenderInv
  <2> QED
    BY <2>1, <2>2
<1> QED
  BY <1>2, <1>5, <1>6, SendsStay

\* A download that fails.
LEMMA FetchFailsStep == ASSUME SendInv, NEW s \in Senders, FetchFails(s) PROVE SendInv'
<1>1. SendTypeOK /\ \A t \in Senders : SenderInv(t)
  BY DEF SendInv
<1>2. /\ fetches' = [fetches EXCEPT ![s] = {}]
      /\ faults < MaxFaults /\ faults' = faults + 1
      /\ UNCHANGED <<store, off, importing, seeds, cast, send>>
  BY DEF FetchFails, Fault
<1>3. Missing' = Missing
  BY <1>2 DEF Missing
<1>4. /\ fetches' \in [Senders -> SUBSET Paths] /\ fetches'[s] = {}
      /\ \A t \in Senders : t # s => fetches'[t] = fetches[t]
  BY <1>1, <1>2 DEF SendTypeOK
<1>5. SendTypeOK' /\ faults' >= faults /\ faults' > 0
  BY <1>1, <1>2, <1>4, ClosureAssumption DEF SendTypeOK
<1>6. ASSUME NEW t \in Senders PROVE SenderInv(t)'
  <2>1. CASE t # s
    BY <1>1, <1>2, <1>3, <1>4, <1>5, <2>1, SenderStays
  <2>2. CASE t = s
    BY <1>1, <1>2, <1>3, <1>4, <1>5, <2>2 DEF SenderInv
  <2> QED
    BY <2>1, <2>2
<1> QED
  BY <1>2, <1>5, <1>6, SendsStay

\* A send that ends keeps its marks.
LEMMA EndsIs ==
  ASSUME NEW s \in Senders, send[s] \in SendStates,
         NEW v \in {"ok", "failed", "refused"}, Ends(s, v)
  PROVE  \E r \in SendStates :
           /\ SetSend(s, r) /\ r.pc = "done" /\ r.verdict = v
           /\ r.again = send[s].again /\ r.crossed = send[s].crossed
<1> DEFINE r == [send[s] EXCEPT !.pc = "done", !.want = {}, !.dones = {}, !.verdict = v]
<1>1. /\ r \in SendStates /\ r.pc = "done" /\ r.verdict = v
      /\ r.again = send[s].again /\ r.crossed = send[s].crossed
  BY DEF SendStates
<1>2. SetSend(s, r)
  BY DEF Ends
<1> HIDE DEF r
<1> QED
  BY <1>1, <1>2

\* An import that is over, with a verdict that is right.
LEMMA OverStep ==
  ASSUME SendInv, NEW s \in Senders, send[s].pc \in {"sending", "await", "import"},
         NEW v \in {"ok", "failed", "refused"}, Ends(s, v), HandlerReturns(s),
         store' \in [Paths -> {"absent", "torn", "valid"}], Missing' \subseteq Missing,
         faults' \in 0..MaxFaults, faults' >= faults,
         v # "ok" => faults' > 0 \/ send[s].crossed,
         UNCHANGED <<fetches, off, cast>>
  PROVE  SendInv'
<1>1. SendTypeOK /\ SenderInv(s) /\ Sending(s) /\ send[s] \in SendStates
  BY DEF SendInv, Sending, SendTypeOK
<1>2. PICK r \in SendStates :
         /\ SetSend(s, r) /\ r.pc = "done" /\ r.verdict = v
         /\ r.again = send[s].again /\ r.crossed = send[s].crossed
  BY <1>1, EndsIs
<1>3. seeds' = IF s \in Casts THEN [seeds EXCEPT ![At[s]] = Nobody] ELSE seeds
  BY DEF Ends
<1>4. OnlySend(s, r) /\ s \notin Counted' /\ (s \in Counted <=> send[s].form # "job")
  BY <1>1, <1>2, SetSendIs DEF OnlySend, Counted
<1>5. SenderInv(s)'
  BY <1>1, <1>2, <1>4 DEF SenderInv, OnlySend
<1>6. /\ (s \in Counted <=> s \in Counted') => importing' = importing
      /\ s \in Counted /\ s \notin Counted' => importing' = importing - 1
  BY <1>4 DEF HandlerReturns
<1> QED
  BY <1>1, <1>2, <1>3, <1>4, <1>5, <1>6, SendStepIs DEF SendTypeOK

\* ImportDone keeps the invariant.
LEMMA ImportDoneStep == ASSUME SendInv, NEW s \in Senders, ImportDone(s) PROVE SendInv'
<1>1. SendTypeOK
  BY DEF SendInv
<1>2. UNCHANGED <<store, fetches, off, cast, faults>> /\ Ends(s, "ok") /\ HandlerReturns(s)
  BY DEF ImportDone
<1>3. /\ Missing' = Missing /\ faults' \in 0..MaxFaults /\ faults' >= faults
      /\ store' \in [Paths -> {"absent", "torn", "valid"}]
  BY <1>1, <1>2, ClosureAssumption DEF SendTypeOK, Missing
<1> QED
  BY <1>2, <1>3, OverStep DEF ImportDone

\* An import fails only for a path the sender left out although it was asked
\* for it, or left to a download that did not come.
LEMMA ImportFailsStep == ASSUME SendInv, NEW s \in Senders, ImportFails(s) PROVE SendInv'
<1>1. SendTypeOK /\ SenderInv(s) /\ send[s].pc = "import"
  BY DEF SendInv, ImportFails
<1>2. /\ UNCHANGED <<store, fetches, off, cast, faults>>
      /\ Ends(s, Rejected(s)) /\ HandlerReturns(s) /\ Rejected(s) \in {"failed", "refused"}
  BY DEF ImportFails, Rejected
<1>3. /\ Missing' = Missing /\ faults' \in 0..MaxFaults /\ faults' >= faults
      /\ store' \in [Paths -> {"absent", "torn", "valid"}]
  BY <1>1, <1>2, ClosureAssumption DEF SendTypeOK, Missing
<1>4. PICK p \in Missing : p \notin send[s].want
  <2>1. PICK p \in Left(s) :
          IF send[s].form = "signed"
          THEN p \notin send[s].want /\ \A q \in Refs[p] : store[q] = "valid"
          ELSE \E q \in Refs[p] \ send[s].want : store[q] # "valid"
    BY DEF ImportFails
  <2>2. p \in Missing /\ p \in Paths
    BY <2>1 DEF Left, Missing
  <2>3. CASE send[s].form = "signed"
    BY <2>1, <2>2, <2>3
  <2>4. CASE send[s].form # "signed"
    <3>1. PICK q \in Refs[p] \ send[s].want : store[q] # "valid"
      BY <2>1, <2>4
    <3>2. q \in Paths
      BY <2>2, <3>1, ClosureAssumption
    <3> QED
      BY <3>1, <3>2 DEF Missing
  <2> QED
    BY <2>3, <2>4
<1>5. p \in Paths
  BY DEF Missing
<1>6. faults > 0 \/ send[s].crossed
  BY <1>1, <1>4, <1>5 DEF SenderInv
<1> QED
  BY <1>1, <1>2, <1>3, <1>6, OverStep

\* Cut keeps the invariant.
LEMMA CutStep == ASSUME SendInv, NEW s \in Senders, Cut(s) PROVE SendInv'
<1>1. /\ SendTypeOK /\ SenderInv(s) /\ send[s].pc \in {"sending", "await", "import"}
      /\ Sending(s) /\ send[s] \in SendStates /\ send[s].form # "job"
  BY DEF SendInv, Cut, Sending, SendTypeOK
<1>2. /\ UNCHANGED <<fetches, off, cast>> /\ HandlerReturns(s)
      /\ faults < MaxFaults /\ faults' = faults + 1
  BY DEF Cut, Fault
<1>3. faults' \in 0..MaxFaults /\ faults' >= faults /\ faults' > 0
  BY <1>1, <1>2, ClosureAssumption DEF SendTypeOK
<1>4. store' \in [Paths -> {"absent", "torn", "valid"}] /\ Missing' = Missing
  <2>1. CASE UNCHANGED store
    BY <1>1, <2>1 DEF SendTypeOK, Missing
  <2>2. ASSUME NEW p \in Missing \cap send[s].want, store' = [store EXCEPT ![p] = "torn"]
        PROVE  store' \in [Paths -> {"absent", "torn", "valid"}] /\ Missing' = Missing
    <3>1. p \in Paths /\ p \in Missing
      BY DEF Missing
    <3> QED
      BY <1>1, <2>2, <3>1, StoreSteps
  <2> QED
    BY <2>1, <2>2 DEF Cut
<1>5. CASE s \in Uploads
  <2> DEFINE r == [send[s] EXCEPT !.pc = "pack", !.form = "job"]
  <2>1. /\ r \in SendStates /\ r.pc = "pack" /\ r.verdict = send[s].verdict
        /\ r.again = send[s].again /\ r.crossed = send[s].crossed
    BY <1>1 DEF SendStates
  <2>2. SetSend(s, r) /\ seeds' = seeds
    BY <1>5 DEF Cut
  <2> HIDE DEF r
  <2>3. OnlySend(s, r) /\ s \notin Counted' /\ s \in Counted
    BY <1>1, <2>1, <2>2, SetSendIs DEF OnlySend, Counted
  <2>4. SenderInv(s)'
    BY <1>1, <1>2, <1>3, <2>1, <2>3 DEF SenderInv, OnlySend
  <2>5. importing' = importing - 1
    BY <1>1, <1>2 DEF HandlerReturns
  <2> QED
    BY <1>1, <1>2, <1>3, <1>4, <2>1, <2>2, <2>3, <2>4, <2>5, SendStepIs DEF SendTypeOK
<1>6. CASE s \notin Uploads
  <2>1. Ends(s, "failed")
    BY <1>6 DEF Cut
  <2> QED
    BY <1>1, <1>2, <1>3, <1>4, <2>1, OverStep
<1> QED
  BY <1>5, <1>6

\* A send that is to be cancelled is a send.
LEMMA CancelIs ==
  ASSUME NEW r \in SendStates, NEW b \in BOOLEAN
  PROVE  [r EXCEPT !.pc = "cancel", !.dones = {}, !.crossed = b] \in SendStates
  BY DEF SendStates

\* Giving up on downloads: whoever's they were, its send is marked.
LEMMA FetchesSlowStep == ASSUME SendInv, NEW s \in Senders, FetchesSlow(s) PROVE SendInv'
<1>1. /\ SendTypeOK /\ CountInv /\ SeedInv /\ EarlyInv /\ \A t \in Senders : SenderInv(t)
      /\ send[s].pc = "await" /\ \A t \in Senders : send[t] \in SendStates
  BY DEF SendInv, FetchesSlow, SendTypeOK
<1> DEFINE rs == [send[s] EXCEPT !.pc = "cancel", !.dones = {},
                                 !.crossed = @ \/ InFlight(s) # {s}]
           rt(t) == [send[t] EXCEPT !.crossed = TRUE]
<1>2. /\ rs \in SendStates /\ rs.pc = "cancel" /\ rs.form = send[s].form
      /\ rs.again = send[s].again /\ rs.verdict = send[s].verdict
      /\ rs.crossed = (send[s].crossed \/ InFlight(s) # {s})
  <2>1. send[s].crossed \in BOOLEAN
    BY <1>1 DEF SendStates
  <2> DEFINE x == send[s].crossed \/ InFlight(s) # {s}
  <2>2. x \in BOOLEAN
    OBVIOUS
  <2> HIDE DEF x
  <2> DEFINE y == [send[s] EXCEPT !.pc = "cancel", !.dones = {}, !.crossed = x]
  <2>3. y \in SendStates
    BY <1>1, <2>2, CancelIs
  <2>4. /\ y.pc = "cancel" /\ y.form = send[s].form
        /\ y.again = send[s].again /\ y.verdict = send[s].verdict
        /\ y.crossed = x
    BY <1>1, <2>2 DEF SendStates
  <2>5. rs = y
    BY DEF x
  <2> HIDE DEF y, rs
  <2> QED
    BY <2>3, <2>4, <2>5 DEF x
<1>3. ASSUME NEW t \in Senders PROVE
      /\ rt(t) \in SendStates /\ rt(t).pc = send[t].pc /\ rt(t).form = send[t].form
      /\ rt(t).want = send[t].want /\ rt(t).dones = send[t].dones
      /\ rt(t).again = send[t].again /\ rt(t).crossed = TRUE /\ rt(t).verdict = send[t].verdict
  BY <1>1 DEF SendStates
<1>4. InFlight(s) \subseteq Senders /\ InFlight(s) # {}
      /\ \A t \in Senders : t \in InFlight(s) => fetches[t] # {}
  BY <1>1 DEF FetchesSlow, InFlight, SendStates
<1>5. send' = [t \in Senders |->
                 CASE t = s -> rs
                   [] t # s /\ t \in InFlight(s) -> rt(t)
                   [] OTHER -> send[t]]
      /\ fetches' = [t \in Senders |-> IF t \in InFlight(s) THEN {} ELSE fetches[t]]
      /\ off' = TRUE /\ UNCHANGED <<importing, seeds, cast, faults>>
  BY DEF FetchesSlow
<1> HIDE DEF rs, rt
<1>6. /\ send'[s] = rs
      /\ \A t \in Senders : t # s /\ t \in InFlight(s) => send'[t] = rt(t)
      /\ \A t \in Senders : t # s /\ t \notin InFlight(s) => send'[t] = send[t]
  BY <1>5
<1>7. send' \in [Senders -> SendStates]
  BY <1>1, <1>2, <1>3, <1>5
<1>8. fetches' \in [Senders -> SUBSET Paths]
      /\ \A t \in Senders : fetches'[t] = IF t \in InFlight(s) THEN {} ELSE fetches[t]
  BY <1>1, <1>5 DEF SendTypeOK
<1>9. store' \in [Paths -> {"absent", "torn", "valid"}] /\ Missing' = Missing
  <2>1. CASE UNCHANGED store
    BY <1>1, <2>1 DEF SendTypeOK, Missing
  <2>2. ASSUME NEW t \in InFlight(s), NEW p \in fetches[t], store[p] = "absent",
               store' = [store EXCEPT ![p] = "torn"]
        PROVE  store' \in [Paths -> {"absent", "torn", "valid"}] /\ Missing' = Missing
    <3>1. p \in Paths /\ p \in Missing
      BY <1>1, <1>4, <2>2 DEF SendTypeOK, Missing
    <3> QED
      BY <1>1, <2>2, <3>1, StoreSteps
  <2> QED
    BY <2>1, <2>2 DEF FetchesSlow
<1>10. faults' \in 0..MaxFaults /\ faults' >= faults
  BY <1>1, <1>5, ClosureAssumption DEF SendTypeOK
<1>11. SendTypeOK'
  BY <1>1, <1>5, <1>7, <1>8, <1>9, <1>10 DEF SendTypeOK
<1>12. \A t \in Senders : t # s => send'[t].pc = send[t].pc /\ send'[t].form = send[t].form
  BY <1>3, <1>6
<1>13. CountInv'
  <2>1. s \in Counted <=> s \in Counted'
    BY <1>1, <1>2, <1>6 DEF Counted
  <2>2. Cardinality(Counted') = Cardinality(Counted)
    BY <1>1, <1>7, <1>12, <2>1, CountSteps
  <2> QED
    BY <1>1, <1>5, <2>2 DEF CountInv
<1>14. SeedInv' /\ EarlyInv'
  <2>1. \A t \in Senders : Sending(t)' <=> Sending(t)
    BY <1>1, <1>2, <1>6, <1>12 DEF Sending
  <2>2. \A c \in Casts : send'[c].pc = "idle" <=> send[c].pc = "idle"
    BY <1>1, <1>2, <1>6, <1>12 DEF Senders
  <2> QED
    BY <1>1, <1>5, <2>1, <2>2 DEF SeedInv, EarlyInv, Senders
<1>15. ASSUME NEW t \in Senders PROVE SenderInv(t)'
  <2>1. CASE t = s
    <3>1. send[s].again => send[s].crossed \/ s \notin InFlight(s)
      BY <1>1, <1>4 DEF SenderInv
    <3>2. rs.again => rs.crossed
      BY <1>2, <1>4, <3>1
    <3>3. rs.crossed \/ fetches'[s] = {}
      BY <1>2, <1>8
    <3> QED
      BY <1>1, <1>2, <1>5, <1>6, <2>1, <3>2, <3>3 DEF SenderInv
  <2>2. CASE t # s /\ t \in InFlight(s)
    BY ZenonT(60), <1>1, <1>3, <1>5, <1>6, <1>8, <1>9, <2>2 DEF SenderInv
  <2>3. CASE t # s /\ t \notin InFlight(s)
    BY <1>1, <1>5, <1>6, <1>8, <1>9, <1>10, <1>11, <2>3, SenderStays
  <2> QED
    BY <2>1, <2>2, <2>3
<1> QED
  BY <1>11, <1>13, <1>14, <1>15 DEF SendInv

-----------------------------------------------------------------------------
(* The steps of a broadcast. *)

\* A broadcast that only looks.
LEMMA CastMoves ==
  ASSUME SendInv, NEW c \in Casts, NEW r \in CastStates, SetCast(c, r),
         r.pc \in {"check", "start"} => cast[c].pc \in {"look", "check", "start"},
         r.pc # "look",
         UNCHANGED <<store, fetches, off, importing, seeds, send>>,
         faults' \in 0..MaxFaults, faults' >= faults
  PROVE  SendInv'
<1>1. SendTypeOK /\ \A s \in Senders : SenderInv(s)
  BY DEF SendInv
<1>2. /\ cast' \in [Casts -> CastStates] /\ cast'[c] = r
      /\ \A d \in Casts : d # c => cast'[d] = cast[d]
  BY <1>1, SetCastIs
<1>3. SendTypeOK' /\ Missing' = Missing
  BY <1>1, <1>2 DEF SendTypeOK, Missing
<1>4. ASSUME NEW s \in Senders PROVE SenderInv(s)'
  BY <1>1, <1>3, SenderStays
<1>5. Counted' = Counted /\ \A s \in Senders : Sending(s)' = Sending(s)
  BY DEF Counted, Sending
<1>6. EarlyInv'
  BY <1>2 DEF EarlyInv, SendInv
<1> QED
  BY <1>3, <1>4, <1>5, <1>6 DEF SendInv, CountInv, SeedInv, Senders

\* Look keeps the invariant.
LEMMA LookStep == ASSUME SendInv, NEW c \in Casts, Look(c) PROVE SendInv'
<1>1. SendTypeOK /\ cast[c] \in CastStates /\ seeds[At[c]] \in Casts \cup {Nobody}
  BY DEF SendInv, SendTypeOK, Daemons
<1> DEFINE r == IF seeds[At[c]] = Nobody THEN [cast[c] EXCEPT !.pc = "check"]
                ELSE [cast[c] EXCEPT !.pc = "wait", !.on = seeds[At[c]]]
<1>2. r \in CastStates /\ r.pc \in {"check", "wait"}
  BY <1>1 DEF CastStates
<1>3. /\ SetCast(c, r) /\ cast[c].pc = "look"
      /\ UNCHANGED <<store, fetches, off, importing, seeds, send, faults>>
  BY DEF Look, receiver
<1>4. faults' \in 0..MaxFaults /\ faults' >= faults
  BY <1>1, <1>3, ClosureAssumption DEF SendTypeOK
<1> HIDE DEF r
<1> QED
  BY <1>2, <1>3, <1>4, CastMoves

\* Check keeps the invariant.
LEMMA CheckStep == ASSUME SendInv, NEW c \in Casts, Check(c) PROVE SendInv'
<1>1. SendTypeOK /\ cast[c] \in CastStates /\ cast[c].pc = "check"
  BY DEF SendInv, SendTypeOK, Check
<1>2. /\ UNCHANGED <<store, fetches, off, importing, seeds, send>>
      /\ faults' \in 0..MaxFaults /\ faults' >= faults
  BY <1>1, ClosureAssumption DEF Check, Fault, receiver, SendTypeOK
<1> DEFINE r(said) == [cast[c] EXCEPT !.pc = "over", !.said = said]
           q == [cast[c] EXCEPT !.pc = "start"]
<1>3. /\ r("has") \in CastStates /\ r("has").pc = "over"
      /\ r("importing") \in CastStates /\ r("importing").pc = "over"
      /\ q \in CastStates /\ q.pc = "start"
  BY <1>1 DEF CastStates
<1>4. SetCast(c, r("has")) \/ SetCast(c, r("importing")) \/ SetCast(c, q)
  BY DEF Check
<1> HIDE DEF r, q
<1> QED
  BY <1>1, <1>2, <1>3, <1>4, CastMoves

\* WaitEnds keeps the invariant.
LEMMA WaitEndsStep == ASSUME SendInv, NEW c \in Casts, WaitEnds(c) PROVE SendInv'
<1>1. SendTypeOK
  BY DEF SendInv
<1> DEFINE said == CASE send[cast[c].on].verdict = "ok" -> "took"
                     [] send[cast[c].on].verdict = "none" -> "late"
                     [] OTHER -> "refused"
           r == [pc |-> "over", on |-> Nobody, said |-> said]
<1>2. said \in {"took", "late", "refused"}
  OBVIOUS
<1>3. SetCast(c, r) /\ UNCHANGED <<store, fetches, off, importing, seeds, send, faults>>
  BY DEF WaitEnds, receiver
<1> HIDE DEF said
<1>4. r \in CastStates /\ r.pc = "over"
  BY <1>2 DEF CastStates
<1>5. faults' \in 0..MaxFaults /\ faults' >= faults
  BY <1>1, <1>3, ClosureAssumption DEF SendTypeOK
<1> HIDE DEF r
<1> QED
  BY <1>3, <1>4, <1>5, CastMoves

\* The seeds are looked at again under the lock that takes the place: who finds
\* another's send there waits for it.
LEMMA StartSeedStep == ASSUME SendInv, NEW c \in Casts, StartSeed(c) PROVE SendInv'
<1>1. /\ SendTypeOK /\ CountInv /\ SeedInv /\ EarlyInv /\ \A s \in Senders : SenderInv(s)
      /\ cast[c].pc = "start" /\ cast[c] \in CastStates /\ send[c] \in SendStates
      /\ c \in Senders /\ At[c] \in Daemons /\ seeds[At[c]] \in Casts \cup {Nobody}
  BY DEF SendInv, StartSeed, SendTypeOK, Senders, Daemons
<1>2. send[c].pc = "idle"
  BY <1>1 DEF EarlyInv
<1> DEFINE owner == IF seeds[At[c]] = Nobody THEN c ELSE seeds[At[c]]
           r == [cast[c] EXCEPT !.pc = "wait", !.on = owner]
           q == [send[c] EXCEPT !.pc = "ask",
                           !.form = IF TakesSigned THEN "signed" ELSE "diff"]
<1>3. /\ seeds' = [seeds EXCEPT ![At[c]] = owner] /\ SetCast(c, r)
      /\ IF owner = c THEN SetSend(c, q) ELSE UNCHANGED send
      /\ UNCHANGED <<store, fetches, off, importing, faults>>
  BY DEF StartSeed, receiver
<1>4. owner \in Casts
  BY <1>1
<1>5. seeds[At[c]] = Nobody \/ seeds[At[c]] = owner
  OBVIOUS
<1> HIDE DEF owner
<1>6. r \in CastStates /\ r.pc = "wait"
  BY <1>1, <1>4 DEF CastStates
<1>7. /\ q \in SendStates /\ q.pc = "ask" /\ q.verdict = send[c].verdict
      /\ q.again = send[c].again /\ q.crossed = send[c].crossed
  BY <1>1 DEF SendStates
<1> HIDE DEF r, q
<1>8. /\ cast' \in [Casts -> CastStates] /\ cast'[c] = r
      /\ \A d \in Casts : d # c => cast'[d] = cast[d]
  BY <1>1, <1>3, <1>6, SetCastIs
<1>9. /\ send' \in [Senders -> SendStates]
      /\ \A t \in Senders : t # c => send'[t] = send[t]
      /\ send'[c] = IF owner = c THEN q ELSE send[c]
  <2>1. CASE owner = c
    BY <1>1, <1>3, <1>7, <2>1, SetSendIs DEF OnlySend
  <2>2. CASE owner # c
    BY <1>1, <1>3, <2>2 DEF SendTypeOK
  <2> QED
    BY <2>1, <2>2
<1>10. /\ seeds' \in [Daemons -> Casts \cup {Nobody}] /\ seeds'[At[c]] = owner
       /\ \A d \in Daemons : d # At[c] => seeds'[d] = seeds[d]
  BY <1>1, <1>3, <1>4 DEF SendTypeOK
<1>11. Missing' = Missing /\ faults' \in 0..MaxFaults /\ faults' >= faults
  BY <1>1, <1>3, ClosureAssumption DEF Missing, SendTypeOK
<1>12. SendTypeOK'
  BY <1>1, <1>3, <1>8, <1>9, <1>10, <1>11 DEF SendTypeOK
<1>13. CountInv'
  <2>1. Counted' = Counted
    BY <1>2, <1>7, <1>9 DEF Counted
  <2> QED
    BY <1>1, <1>3, <2>1 DEF CountInv
<1>14. SeedInv'
  <2>1. ASSUME NEW d \in Casts, Sending(d)' PROVE seeds'[At[d]] = d
    <3>1. d \in Senders /\ At[d] \in Daemons
      BY DEF Senders, Daemons
    <3>2. CASE d = c
      <4>1. owner = c
        BY <1>2, <1>9, <2>1, <3>2 DEF Sending
      <4> QED
        BY <1>10, <3>2, <4>1
    <3>3. CASE d # c
      <4>1. Sending(d)
        BY <1>9, <2>1, <3>1, <3>3 DEF Sending
      <4>2. seeds[At[d]] = d /\ d # Nobody
        BY <1>1, <4>1, ClosureAssumption DEF SeedInv
      <4>3. At[d] = At[c] => owner = d
        BY <1>5, <4>2
      <4> QED
        BY <1>10, <3>1, <4>2, <4>3
    <3> QED
      BY <3>2, <3>3
  <2> QED
    BY <2>1 DEF SeedInv
<1>15. EarlyInv'
  <2>1. ASSUME NEW d \in Casts, cast'[d].pc \in {"look", "check", "start"}
        PROVE  send'[d].pc = "idle"
    <3>1. d # c
      BY <1>6, <1>8, <2>1
    <3>2. cast[d].pc \in {"look", "check", "start"} /\ send'[d] = send[d]
      BY <1>8, <1>9, <2>1, <3>1 DEF Senders
    <3> QED
      BY <1>1, <3>2 DEF EarlyInv
  <2> QED
    BY <2>1 DEF EarlyInv
<1>16. ASSUME NEW t \in Senders PROVE SenderInv(t)'
  <2>1. CASE t # c
    BY <1>1, <1>3, <1>9, <1>11, <1>12, <2>1, SenderStays
  <2>2. CASE t = c /\ owner # c
    BY <1>1, <1>3, <1>9, <1>11, <1>12, <2>2, SenderStays
  <2>3. CASE t = c /\ owner = c
    BY <1>1, <1>2, <1>3, <1>7, <1>9, <1>11, <2>3 DEF SenderInv
  <2> QED
    BY <2>1, <2>2, <2>3
<1> QED
  BY <1>12, <1>13, <1>14, <1>15, <1>16 DEF SendInv

-----------------------------------------------------------------------------

\* At first nothing is on its way.
LEMMA SendInitInv == SendInit => SendInv
<1> SUFFICES ASSUME SendInit PROVE SendInv
  OBVIOUS
<1>1. NoSend \in SendStates /\ NoSend.pc = "idle" /\ NoSend.verdict = "none" /\ NoSend.again = FALSE
  BY DEF NoSend, SendStates
<1>2. \A s \in Senders : send[s] = NoSend
  BY DEF SendInit
<1>3. Counted = {}
  BY <1>1, <1>2 DEF Counted
<1>4. IsFiniteSet(Senders) /\ Cardinality(Senders) \in Nat
  BY ClosureAssumption, FS_CardinalityType DEF Senders
<1>5. Cardinality({}) = 0
  BY FS_EmptySet
<1>6. SendTypeOK
  <2>1. \A c \in Casts : cast[c] \in CastStates
    BY DEF SendInit, CastStates
  <2>2. cast \in [Casts -> CastStates]
    BY <2>1 DEF SendInit
  <2>3. send \in [Senders -> SendStates] /\ seeds \in [Daemons -> Casts \cup {Nobody}]
    BY <1>1 DEF SendInit
  <2>4. store \in [Paths -> {"absent", "torn", "valid"}] /\ fetches \in [Senders -> SUBSET Paths]
    BY DEF SendInit
  <2>5. off \in BOOLEAN
    BY DEF SendInit
  <2>6. importing \in 0..Cardinality(Senders) /\ faults \in 0..MaxFaults
    BY <1>4, ClosureAssumption DEF SendInit
  <2> QED
    BY <2>2, <2>3, <2>4, <2>5, <2>6 DEF SendTypeOK
<1>7. ASSUME NEW s \in Senders PROVE SenderInv(s)
  BY <1>1, <1>2 DEF SenderInv
<1>8. SeedInv /\ EarlyInv
  BY <1>1, <1>2 DEF SeedInv, EarlyInv, Sending, Senders
<1> QED
  BY <1>3, <1>5, <1>6, <1>7, <1>8 DEF SendInv, CountInv, SendInit

\* Every step keeps the invariant of the sends.
LEMMA SendNextInv == SendInv /\ [SendNext]_sendVars => SendInv'
<1> SUFFICES ASSUME SendInv, [SendNext]_sendVars PROVE SendInv'
  OBVIOUS
<1>1. ASSUME NEW s \in Senders, SendStep(s) PROVE SendInv'
  <2>1. StartUpload(s) => s \in Uploads
    BY DEF StartUpload
  <2> QED
    BY <1>1, <2>1, StartUploadStep, AskStep, LookupStep, PackStep, PackFailsStep, ArrivedStep,
       FetchesInStep, FetchesSlowStep, TooSlowStep, ImportPathStep, ImportDoneStep,
       ImportFailsStep, CutStep DEF SendStep
<1>2. ASSUME NEW c \in Casts, CastStep(c) PROVE SendInv'
  BY <1>2, LookStep, CheckStep, StartSeedStep, WaitEndsStep DEF CastStep
<1>3. ASSUME NEW s \in Senders, FetchStep(s) PROVE SendInv'
  BY <1>3, FetchFailsStep, FetchPathStep DEF FetchStep
<1>4. CASE UNCHANGED sendVars
  <2>1. SendTypeOK' /\ \A s \in Senders : SenderInv(s)'
    BY <1>4 DEF SendInv, sendVars, SendTypeOK, SenderInv, Missing
  <2> QED
    BY <1>4, <2>1, SendsStay DEF sendVars
<1> QED
  BY <1>1, <1>2, <1>3, <1>4 DEF SendNext, SendsOver

\* The invariant says what OneSend says.
LEMMA SendInvIsOneSend == SendInv => OneSend
  BY DEF SendInv, OneSend, SeedInv, SenderInv

\* However broadcasts of a daemon meet, one send of the closure runs to the
\* receiver, and no send fails for a slow binary cache alone (seedFor,
\* startSeed, awaitFetches, errFetchSlow).
THEOREM SendsOnce == SendSpec => []OneSend
<1>1. SendInv /\ [SendNext]_sendVars => SendInv'
  BY SendNextInv
<1> QED
  BY <1>1, SendInitInv, SendInvIsOneSend, PTL DEF SendSpec

-----------------------------------------------------------------------------
(* The nix cache.                                                          *)

\* A download is answered once, and not as a miss when a peer had no slot.
AskInv ==
    \A r \in Asks :
       /\ ask[r].pc # "over" => ask[r].answer = "pending"
       /\ ask[r].answer = "none" => "busy" \notin ask[r].heard

\* The flight's leader looks up or listens; while it listens nothing is
\* remembered.
LeadInv ==
    /\ \A r \in Asks : r \in leader <=> ask[r].pc \in {"lead", "hear"}
    /\ \A r \in Asks : ask[r].pc = "hear" => hit = NoHit /\ ~miss

\* A collector that is not late is the hit's own.
LateInv == \A c \in collectors : c.late \/ (hit # NoHit /\ c.nar = hit.nar)

\* No peer is a source twice.
OnceInv == \A i, j \in DOMAIN hit.sources : hit.sources[i] = hit.sources[j] => i = j

\* The inductive invariant of the cache.
CacheInv ==
    CacheTypeOK /\ HitOrMiss /\ SourcesAgreeWhileKept /\ AskInv /\ LeadInv /\ LateInv /\ OnceInv

-----------------------------------------------------------------------------
\* The lists of peers, at most as long as there are peers.
Lists == UNION {[1..n -> CachePeers] : n \in 0..Cardinality(CachePeers)}

\* A list of peers is a sequence no longer than there are peers.
LEMMA ListIs ==
  ASSUME NEW q
  PROVE  q \in Lists <=> q \in Seq(CachePeers) /\ Len(q) <= Cardinality(CachePeers)
<1>1. Cardinality(CachePeers) \in Nat
  BY CacheAssumption, FS_CardinalityType
<1>2. ASSUME q \in Lists PROVE q \in Seq(CachePeers) /\ Len(q) <= Cardinality(CachePeers)
  <2>1. PICK n \in 0..Cardinality(CachePeers) : q \in [1..n -> CachePeers]
    BY <1>2 DEF Lists
  <2> QED
    BY <1>1, <2>1
<1>3. ASSUME q \in Seq(CachePeers), Len(q) <= Cardinality(CachePeers) PROVE q \in Lists
  <2>1. q \in [1..Len(q) -> CachePeers] /\ Len(q) \in 0..Cardinality(CachePeers)
    BY <1>1, <1>3
  <2> QED
    BY <2>1 DEF Lists
<1> QED
  BY <1>2, <1>3

\* A list without repetition is no longer than there are peers.
LEMMA OnceIsShort ==
  ASSUME NEW q \in Seq(CachePeers), \A i, j \in DOMAIN q : q[i] = q[j] => i = j
  PROVE  Len(q) <= Cardinality(CachePeers)
<1>1. q \in [1..Len(q) -> CachePeers] /\ Len(q) \in Nat
  OBVIOUS
<1>2. q \in Injection(1..Len(q), CachePeers)
  BY <1>1 DEF Injection, IsInjective
<1>3. Cardinality(1..Len(q)) <= Cardinality(CachePeers)
  BY <1>2, CacheAssumption, FS_Injection
<1>4. Cardinality(1..Len(q)) = Len(q)
  <2>1. Cardinality(1..Len(q)) = IF 1 > Len(q) THEN 0 ELSE Len(q) - 1 + 1
    BY <1>1, FS_Interval
  <2> QED
    BY <1>1, <2>1
<1> QED
  BY <1>3, <1>4

\* What a hit is made of.
LEMMA HitIs ==
  ASSUME NEW h
  PROVE  h \in Hits <=> h \in [nar: Builds \cup {NoBuild}, sources: Lists, mixed: BOOLEAN]
  BY DEF Hits, Lists

\* A source is added once, and the hit it is added to stays this hit.
LEMMA AddSourceIs ==
  ASSUME CacheTypeOK, OnceInv, NEW p \in CachePeers, NEW late \in BOOLEAN,
         hit' = AddSource(p, late)
  PROVE  /\ hit' \in Hits /\ OnceInv'
         /\ (hit' = NoHit <=> hit = NoHit) /\ hit'.nar = hit.nar
         /\ SourcesAgreeWhileKept /\ (late \/ build[p] = hit.nar) /\ build' = build
              => SourcesAgreeWhileKept'
<1>1. hit \in Hits /\ hit.sources \in Seq(CachePeers) /\ Len(hit.sources) <= Cardinality(CachePeers)
      /\ hit.mixed \in BOOLEAN /\ hit.nar \in Builds \cup {NoBuild}
  BY HitIs, ListIs DEF CacheTypeOK
<1>2. CASE hit' = hit
  BY <1>1, <1>2 DEF OnceInv, SourcesAgreeWhileKept
<1>3. CASE hit' # hit
  <2> DEFINE q == Append(hit.sources, p)
             m == hit.mixed \/ late
  <2>1. hit # NoHit /\ \A i \in DOMAIN hit.sources : hit.sources[i] # p
    BY <1>3 DEF AddSource
  <2>2. hit' = [hit EXCEPT !.sources = q, !.mixed = m]
    BY <1>3 DEF AddSource
  <2>3. /\ q \in Seq(CachePeers) /\ Len(q) = Len(hit.sources) + 1 /\ q # <<>>
        /\ DOMAIN q = 1..Len(hit.sources) + 1
        /\ \A i \in 1..Len(hit.sources) : q[i] = hit.sources[i]
        /\ q[Len(hit.sources) + 1] = p
        /\ DOMAIN hit.sources = 1..Len(hit.sources) /\ Len(hit.sources) \in Nat
    BY <1>1
  <2>4. \A i, j \in DOMAIN q : q[i] = q[j] => i = j
    <3> HIDE DEF q
    <3>1. ASSUME NEW i \in DOMAIN q, NEW j \in DOMAIN q, q[i] = q[j] PROVE i = j
      <4>1. CASE i = Len(hit.sources) + 1
        BY <2>1, <2>3, <3>1, <4>1
      <4>2. CASE j = Len(hit.sources) + 1
        BY <2>1, <2>3, <3>1, <4>2
      <4>3. CASE i # Len(hit.sources) + 1 /\ j # Len(hit.sources) + 1
        <5>1. i \in DOMAIN hit.sources /\ j \in DOMAIN hit.sources
          BY <2>3, <4>3
        <5> QED
          BY <2>3, <3>1, <5>1 DEF OnceInv
      <4> QED
        BY <4>1, <4>2, <4>3
    <3> QED
      BY <3>1
  <2>5. m \in BOOLEAN
    BY <1>1
  <2>6. q \in Lists
    <3> HIDE DEF q
    <3> QED
      BY <2>3, <2>4, OnceIsShort, ListIs
  <2>7. hit.nar \in Builds \cup {NoBuild} /\ hit' \in Hits
    BY <1>1, <2>2, <2>5, <2>6, HitIs
  <2>8. hit'.sources = q /\ hit'.nar = hit.nar /\ hit'.mixed = m
    BY <1>1, <2>2, HitIs
  <2>9. OnceInv' /\ hit' # NoHit
    <3> HIDE DEF q
    <3> QED
      BY <2>3, <2>4, <2>8 DEF OnceInv, NoHit
  <2>10. ASSUME SourcesAgreeWhileKept, late \/ build[p] = hit.nar, build' = build
         PROVE  SourcesAgreeWhileKept'
    <3>1. ASSUME ~m, NEW i \in DOMAIN q PROVE build[q[i]] = hit.nar
      <4>1. build[p] = hit.nar /\ ~hit.mixed
        BY <2>10, <3>1
      <4> HIDE DEF q, m
      <4> QED
        BY <2>3, <2>10, <3>1, <4>1 DEF SourcesAgreeWhileKept
    <3> HIDE DEF q, m
    <3> QED
      BY <2>8, <2>10, <3>1 DEF SourcesAgreeWhileKept
  <2> QED
    BY <2>1, <2>7, <2>8, <2>9, <2>10
<1> QED
  BY <1>2, <1>3

\* A source is dropped, and with the last one the hit.
LEMMA DropSourceIs ==
  ASSUME CacheTypeOK, OnceInv, hit # NoHit, NEW p \in CachePeers,
         hit' = DropSource(p)
  PROVE  /\ hit' \in Hits /\ OnceInv'
         /\ hit' = NoHit \/ hit'.nar = hit.nar
         /\ SourcesAgreeWhileKept /\ build' = build => SourcesAgreeWhileKept'
<1> DEFINE q == hit.sources
<1>1. /\ hit \in Hits /\ q \in Seq(CachePeers) /\ Len(q) <= Cardinality(CachePeers)
      /\ DOMAIN q = 1..Len(q) /\ Len(q) \in Nat
      /\ hit.mixed \in BOOLEAN /\ hit.nar \in Builds \cup {NoBuild}
  BY HitIs, ListIs DEF CacheTypeOK
<1>2. CASE hit' = NoHit
  <2>1. NoHit \in Hits
    <3>1. Cardinality(CachePeers) \in Nat
      BY CacheAssumption, FS_CardinalityType
    <3>2. <<>> \in Lists
      <4>1. <<>> \in Seq(CachePeers) /\ Len(<<>>) <= Cardinality(CachePeers)
        BY <3>1
      <4> QED
        BY <4>1, ListIs
    <3> QED
      BY <3>2, HitIs DEF NoHit
  <2> QED
    BY <1>2, <2>1 DEF OnceInv, SourcesAgreeWhileKept, NoHit
<1>3. CASE hit' # NoHit /\ \E i \in DOMAIN q : q[i] = p
  <2> DEFINE k == CHOOSE i \in DOMAIN q : q[i] = p
             v == RemoveAt(q, k)
  <2>1. k \in 1..Len(q) /\ hit' = [hit EXCEPT !.sources = v]
    BY <1>1, <1>3 DEF DropSource
  <2> HIDE DEF k
  <2>2. /\ v \in Seq(CachePeers) /\ Len(v) = Len(q) - 1
        /\ DOMAIN v = 1..Len(q) - 1
        /\ \A i \in 1..Len(q) - 1 : v[i] = q[IF i < k THEN i ELSE i + 1]
    <3> DEFINE x == SubSeq(q, 1, k - 1)
               y == SubSeq(q, k + 1, Len(q))
    <3>1. /\ x \in Seq(CachePeers) /\ Len(x) = k - 1
          /\ \A i \in 1..k - 1 : x[i] = q[i]
      BY <1>1, <2>1
    <3>2. /\ y \in Seq(CachePeers) /\ Len(y) = Len(q) - k
          /\ \A i \in 1..Len(q) - k : y[i] = q[k + i]
      BY SMTT(30), <1>1, <2>1
    <3>3. v = x \o y
      BY DEF RemoveAt
    <3> HIDE DEF x, y, v
    <3>4. v \in Seq(CachePeers) /\ Len(v) = Len(q) - 1 /\ DOMAIN v = 1..Len(q) - 1
      <4>1. v \in Seq(CachePeers) /\ Len(v) = Len(x) + Len(y)
        BY <3>1, <3>2, <3>3, ConcatProperties
      <4>2. Len(x) + Len(y) = Len(q) - 1
        BY <1>1, <2>1, <3>1, <3>2
      <4> QED
        BY <4>1, <4>2
    <3>6. \A i \in 1..Len(q) - 1 : v[i] = IF i <= Len(x) THEN x[i] ELSE y[i - Len(x)]
      <4>1. \A i \in 1..Len(x) + Len(y) : v[i] = IF i <= Len(x) THEN x[i] ELSE y[i - Len(x)]
        BY <3>1, <3>2, <3>3, ConcatProperties
      <4> QED
        BY <1>1, <2>1, <3>1, <3>2, <4>1
    <3>5. ASSUME NEW i \in 1..Len(q) - 1 PROVE v[i] = q[IF i < k THEN i ELSE i + 1]
      <4>1. CASE i < k
        BY <1>1, <2>1, <3>1, <3>6, <4>1
      <4>2. CASE ~(i < k)
        <5>1. v[i] = y[i - (k - 1)] /\ i - (k - 1) \in 1..Len(q) - k
          BY <1>1, <2>1, <3>1, <3>6, <4>2
        <5> QED
          BY <1>1, <2>1, <3>2, <4>2, <5>1
      <4> QED
        BY <4>1, <4>2
    <3> QED
      BY <3>4, <3>5
  <2> HIDE DEF v
  <2>3. \A i, j \in DOMAIN v : v[i] = v[j] => i = j
    <3>1. ASSUME NEW i \in 1..Len(q) - 1, NEW j \in 1..Len(q) - 1, v[i] = v[j] PROVE i = j
      <4> DEFINE a == IF i < k THEN i ELSE i + 1
                 b == IF j < k THEN j ELSE j + 1
      <4>1. a \in DOMAIN q /\ b \in DOMAIN q /\ q[a] = q[b]
        BY SMTT(30), <1>1, <2>1, <2>2, <3>1
      <4>2. a = b
        BY <4>1 DEF OnceInv
      <4> QED
        BY <2>1, <4>2
    <3> QED
      BY <2>2, <3>1
  <2>4. v \in Lists
    <3>1. Cardinality(CachePeers) \in Nat
      BY CacheAssumption, FS_CardinalityType
    <3>2. Len(v) <= Cardinality(CachePeers)
      BY <1>1, <2>2, <3>1
    <3> QED
      BY <2>2, <3>2, ListIs
  <2>5. hit' \in Hits /\ hit'.sources = v /\ hit'.nar = hit.nar /\ hit'.mixed = hit.mixed
    BY <1>1, <2>1, <2>4, HitIs
  <2>6. SourcesAgreeWhileKept /\ build' = build => SourcesAgreeWhileKept'
    <3>1. \A i \in DOMAIN v : \E j \in DOMAIN q : v[i] = q[j]
      <4>1. ASSUME NEW i \in 1..Len(q) - 1 PROVE \E j \in DOMAIN q : v[i] = q[j]
        <5>1. v[i] = q[IF i < k THEN i ELSE i + 1] /\ (IF i < k THEN i ELSE i + 1) \in DOMAIN q
          BY <1>1, <2>1, <2>2
        <5> QED
          BY <5>1
      <4> QED
        BY <2>2, <4>1
    <3> QED
      BY <2>5, <3>1 DEF SourcesAgreeWhileKept
  <2> QED
    BY <2>3, <2>5, <2>6 DEF OnceInv
<1>4. CASE hit' # NoHit /\ ~\E i \in DOMAIN q : q[i] = p
  <2>1. hit' = [hit EXCEPT !.sources = q]
    BY <1>4 DEF DropSource
  <2>2. hit' = hit
    BY <1>1, <2>1 DEF Hits
  <2> QED
    BY <1>1, <2>2 DEF OnceInv, SourcesAgreeWhileKept
<1> QED
  BY <1>2, <1>3, <1>4

-----------------------------------------------------------------------------

\* Nothing found is a hit with no sources.
LEMMA NoHitIs == NoHit \in Hits /\ <<>> \in Lists
<1>1. Cardinality(CachePeers) \in Nat
  BY CacheAssumption, FS_CardinalityType
<1>2. <<>> \in Seq(CachePeers) /\ Len(<<>>) <= Cardinality(CachePeers)
  BY <1>1
<1>3. <<>> \in Lists
  BY <1>2, ListIs
<1> QED
  BY <1>3, HitIs DEF NoHit

\* What an answered lookup holds.
LEMMA AnsweredIs ==
  ASSUME NEW a \in AskStates, NEW said \in {"served", "short", "none", "busy"}
  PROVE  /\ Answered(a, said) \in AskStates
         /\ Answered(a, said).pc = "over" /\ Answered(a, said).answer = said
         /\ Answered(a, said).heard = {}
<1>1. <<>> \in UNION {[1..n -> CachePeers] : n \in 0..Cardinality(CachePeers)}
  BY NoHitIs DEF Lists
<1> QED
  BY <1>1 DEF Answered, AskStates

\* What a lookup that heard nothing good holds.
LEMMA HeardIs ==
  ASSUME NEW a \in AskStates, NEW said \in {"none", "busy"}, NEW heard \in SUBSET {"busy", "silent"}
  PROVE  LET b == [Answered(a, said) EXCEPT !.heard = heard]
         IN  b \in AskStates /\ b.pc = "over" /\ b.answer = said /\ b.heard = heard
<1>1. Answered(a, said) \in AskStates /\ Answered(a, said).pc = "over" /\ Answered(a, said).answer = said
  BY AnsweredIs
<1> DEFINE c == Answered(a, said)
<1> HIDE DEF c
<1>2. ASSUME c \in AskStates, c.pc = "over", c.answer = said
      PROVE  LET b == [c EXCEPT !.heard = heard]
             IN  b \in AskStates /\ b.pc = "over" /\ b.answer = said /\ b.heard = heard
  BY <1>2 DEF AskStates
<1> QED
  BY <1>1, <1>2 DEF c

\* What a lookup that takes a hit holds.
LEMMA TakesIs ==
  ASSUME NEW a \in AskStates, NEW h \in Hits
  PROVE  /\ Takes(a, h) \in AskStates
         /\ Takes(a, h).pc \in {"idle", "fetch"} /\ Takes(a, h).answer = a.answer
         /\ Takes(a, h).heard = {}
  BY DEF Takes, AskStates, Hits

\* The end of a flight: nobody leads, and who shared it goes on or is answered.
LEMMA FlightStep ==
  ASSUME CacheTypeOK, LeadInv, AskInv, leader' = {}, NEW F,
         ask' = [r \in Asks |-> IF r \in Sharers THEN F[r] ELSE ask[r]],
         \A r \in Sharers :
            /\ F[r] \in AskStates /\ F[r].pc \notin {"lead", "hear"}
            /\ F[r].pc # "over" => F[r].answer = ask[r].answer
            /\ F[r].answer = "none" => "busy" \notin F[r].heard
  PROVE  /\ ask' \in [Asks -> AskStates]
         /\ leader' \in SUBSET Asks /\ Cardinality(leader') <= 1
         /\ LeadInv' /\ AskInv'
<1>1. Sharers \subseteq Asks /\ \A r \in Sharers : ask[r].pc \in {"lead", "hear", "wait"}
  BY DEF Sharers, LeadInv, CacheTypeOK
<1>2. \A r \in Asks : ask[r].pc \in {"lead", "hear"} => r \in Sharers
  BY DEF Sharers, LeadInv
<1>3. /\ ask' \in [Asks -> AskStates]
      /\ \A r \in Asks : ask'[r] = IF r \in Sharers THEN F[r] ELSE ask[r]
  BY DEF CacheTypeOK
<1>4. LeadInv'
  BY <1>2, <1>3 DEF LeadInv
<1>5. AskInv'
  BY <1>1, <1>3 DEF AskInv
<1>6. Cardinality({}) = 0
  BY FS_EmptySet
<1> QED
  BY <1>3, <1>4, <1>5, <1>6

\* A step of one download, or none, that ends no flight.
LEMMA DownloadStep ==
  ASSUME CacheTypeOK, LeadInv, AskInv, NEW r \in Asks, NEW a \in AskStates,
         ask' = [ask EXCEPT ![r] = a], hit' = hit, miss' = miss,
         leader' \in SUBSET Asks, Cardinality(leader') <= 1,
         \A q \in Asks : q # r => (q \in leader' <=> q \in leader),
         r \in leader' <=> a.pc \in {"lead", "hear"},
         a.pc = "hear" => hit = NoHit /\ ~miss,
         a.pc # "over" => a.answer = "pending",
         a.answer = "none" => "busy" \notin a.heard
  PROVE  ask' \in [Asks -> AskStates] /\ LeadInv' /\ AskInv'
<1>1. /\ ask' \in [Asks -> AskStates] /\ ask'[r] = a
      /\ \A q \in Asks : q # r => ask'[q] = ask[q]
  BY DEF CacheTypeOK
<1>2. LeadInv'
  BY <1>1 DEF LeadInv
<1>3. AskInv'
  BY <1>1 DEF AskInv
<1> QED
  BY <1>1, <1>2, <1>3

\* What the rest of the invariant says of the hit, when it stays.
LEMMA HitStays ==
  ASSUME CacheInv, hit' = hit, build' = build, collectors' \subseteq collectors,
         ask' \in [Asks -> AskStates], LeadInv', AskInv',
         miss' \in BOOLEAN, miss' => miss \/ hit = NoHit,
         leader' \in SUBSET Asks, Cardinality(leader') <= 1
  PROVE  CacheInv'
<1>1. CacheTypeOK'
  BY DEF CacheInv, CacheTypeOK
<1>2. HitOrMiss' /\ SourcesAgreeWhileKept' /\ LateInv' /\ OnceInv'
  BY DEF CacheInv, HitOrMiss, SourcesAgreeWhileKept, LateInv, OnceInv
<1> QED
  BY <1>1, <1>2 DEF CacheInv

\* The hit is forgotten: no collector has a place in it.
LEMMA WithoutIs ==
  ASSUME CacheTypeOK
  PROVE  /\ Without \subseteq [nar: Builds, left: SUBSET CachePeers, late: BOOLEAN]
         /\ \A c \in Without : c.late
<1>1. ASSUME NEW c \in collectors
      PROVE  /\ [c EXCEPT !.late = TRUE] \in [nar: Builds, left: SUBSET CachePeers, late: BOOLEAN]
             /\ [c EXCEPT !.late = TRUE].late
  BY DEF CacheTypeOK
<1> QED
  BY <1>1 DEF Without

\* A hit that is dropped takes its collectors with it.
LEMMA HitGoes ==
  ASSUME CacheInv, hit' = NoHit, build' = build, collectors' = Without,
         ask' \in [Asks -> AskStates], LeadInv', AskInv', miss' \in BOOLEAN,
         leader' \in SUBSET Asks, Cardinality(leader') <= 1
  PROVE  CacheInv'
<1>1. CacheTypeOK'
  BY NoHitIs, WithoutIs DEF CacheInv, CacheTypeOK
<1>2. HitOrMiss' /\ SourcesAgreeWhileKept' /\ OnceInv'
  BY DEF HitOrMiss, SourcesAgreeWhileKept, OnceInv, NoHit
<1>3. LateInv'
  BY WithoutIs DEF CacheInv, LateInv
<1> QED
  BY <1>1, <1>2, <1>3 DEF CacheInv

-----------------------------------------------------------------------------
(* The steps. *)

\* LookUp keeps the invariant.
LEMMA LookUpStep == ASSUME CacheInv, NEW r \in Asks, LookUp(r), build' = build PROVE CacheInv'
<1>1. /\ CacheTypeOK /\ LeadInv /\ AskInv /\ ask[r] \in AskStates /\ ask[r].pc = "idle"
      /\ hit \in Hits /\ r \notin leader /\ ask[r].answer = "pending"
  BY DEF CacheInv, CacheTypeOK, LookUp, LeadInv, AskInv
<1> DEFINE j == [ask[r] EXCEPT !.pc = "join"]
<1>2. j \in AskStates /\ j.pc = "join" /\ j.answer = ask[r].answer
  BY <1>1 DEF AskStates
<1> HIDE DEF j
<1>3. /\ UNCHANGED <<hit, miss, leader, collectors>>
      /\ \E a \in {Takes(ask[r], hit), Answered(ask[r], "none"), j} : ask' = [ask EXCEPT ![r] = a]
  BY DEF LookUp, j
<1>4. PICK a \in {Takes(ask[r], hit), Answered(ask[r], "none"), j} : ask' = [ask EXCEPT ![r] = a]
  BY <1>3
<1>5. /\ a \in AskStates /\ a.pc \notin {"lead", "hear"}
      /\ a.pc # "over" => a.answer = "pending"
      /\ a.answer = "none" => "busy" \notin a.heard
  BY <1>1, <1>2, <1>4, TakesIs, AnsweredIs
<1>6. leader' \in SUBSET Asks /\ Cardinality(leader') <= 1 /\ miss' \in BOOLEAN
  BY <1>1, <1>3 DEF CacheTypeOK
<1>7. ask' \in [Asks -> AskStates] /\ LeadInv' /\ AskInv'
  BY <1>1, <1>3, <1>4, <1>5, <1>6, DownloadStep
<1> QED
  BY <1>3, <1>6, <1>7, HitStays

\* Join keeps the invariant.
LEMMA JoinStep == ASSUME CacheInv, NEW r \in Asks, Join(r), build' = build PROVE CacheInv'
<1>1. /\ CacheTypeOK /\ LeadInv /\ AskInv /\ ask[r] \in AskStates /\ ask[r].pc = "join"
      /\ r \notin leader /\ ask[r].answer = "pending"
  BY DEF CacheInv, CacheTypeOK, Join, LeadInv, AskInv
<1> DEFINE a == [ask[r] EXCEPT !.pc = IF leader = {} THEN "lead" ELSE "wait"]
<1>2. /\ a \in AskStates /\ a.pc = (IF leader = {} THEN "lead" ELSE "wait")
      /\ a.answer = ask[r].answer
  BY <1>1 DEF AskStates
<1>3. /\ UNCHANGED <<hit, miss, collectors>>
      /\ leader' = IF leader = {} THEN {r} ELSE leader
      /\ ask' = [ask EXCEPT ![r] = a]
  BY <1>1 DEF Join, CacheTypeOK
<1> HIDE DEF a
<1>4. Cardinality({r}) = 1
  BY FS_Singleton
<1>5. leader' \in SUBSET Asks /\ Cardinality(leader') <= 1 /\ miss' \in BOOLEAN
  BY <1>1, <1>3, <1>4 DEF CacheTypeOK
<1>6. ask' \in [Asks -> AskStates] /\ LeadInv' /\ AskInv'
  BY <1>1, <1>2, <1>3, <1>5, DownloadStep
<1> QED
  BY <1>3, <1>5, <1>6, HitStays

\* Inside the flight the leader looks again at what is remembered, so it does
\* not ask for what another flight has just won or missed.
LEMMA LeadStep == ASSUME CacheInv, NEW r \in Asks, Lead(r), build' = build PROVE CacheInv'
<1>1. /\ CacheTypeOK /\ LeadInv /\ AskInv /\ ask[r] \in AskStates /\ ask[r].pc = "lead"
      /\ r \in leader /\ ask[r].answer = "pending" /\ hit \in Hits
      /\ UNCHANGED <<hit, miss, collectors>> /\ miss' \in BOOLEAN
  BY DEF CacheInv, CacheTypeOK, Lead, LeadInv, AskInv
<1>2. \A q \in Sharers : ask[q] \in AskStates
  BY <1>1 DEF Sharers, CacheTypeOK
<1>3. CASE leader' = {} /\ ask' = [q \in Asks |-> IF q \in Sharers THEN Takes(ask[q], hit) ELSE ask[q]]
  <2> DEFINE F == [q \in Sharers |-> Takes(ask[q], hit)]
  <2>1. ask' = [q \in Asks |-> IF q \in Sharers THEN F[q] ELSE ask[q]]
    BY <1>3
  <2>2. \A q \in Sharers :
            /\ F[q] \in AskStates /\ F[q].pc \notin {"lead", "hear"}
            /\ F[q].pc # "over" => F[q].answer = ask[q].answer
            /\ F[q].answer = "none" => "busy" \notin F[q].heard
    BY <1>1, <1>2, TakesIs
  <2> HIDE DEF F
  <2>3. /\ ask' \in [Asks -> AskStates]
        /\ leader' \in SUBSET Asks /\ Cardinality(leader') <= 1
        /\ LeadInv' /\ AskInv'
    BY <1>1, <1>3, <2>1, <2>2, FlightStep
  <2> QED
    BY <1>1, <2>3, HitStays
<1>4. ASSUME NEW said \in {"none", "busy"}, leader' = {},
             ask' = [q \in Asks |-> IF q \in Sharers THEN Answered(ask[q], said) ELSE ask[q]]
      PROVE  CacheInv'
  <2> DEFINE F == [q \in Sharers |-> Answered(ask[q], said)]
  <2>1. ask' = [q \in Asks |-> IF q \in Sharers THEN F[q] ELSE ask[q]]
    BY <1>4
  <2>2. \A q \in Sharers :
            /\ F[q] \in AskStates /\ F[q].pc \notin {"lead", "hear"}
            /\ F[q].pc # "over" => F[q].answer = ask[q].answer
            /\ F[q].answer = "none" => "busy" \notin F[q].heard
    BY <1>2, AnsweredIs
  <2> HIDE DEF F
  <2>3. /\ ask' \in [Asks -> AskStates]
        /\ leader' \in SUBSET Asks /\ Cardinality(leader') <= 1
        /\ LeadInv' /\ AskInv'
    BY <1>1, <1>4, <2>1, <2>2, FlightStep
  <2> QED
    BY <1>1, <2>3, HitStays
<1>5. CASE /\ hit = NoHit /\ ~miss /\ UNCHANGED leader
           /\ ask' = [ask EXCEPT ![r].pc = "hear", ![r].asked = CachePeers]
  <2> DEFINE a == [ask[r] EXCEPT !.pc = "hear", !.asked = CachePeers]
  <2>1. a \in AskStates /\ a.pc = "hear" /\ a.answer = ask[r].answer
    BY <1>1 DEF AskStates
  <2>2. ask' = [ask EXCEPT ![r] = a]
    BY <1>1, <1>5 DEF CacheTypeOK
  <2> HIDE DEF a
  <2>3. leader' \in SUBSET Asks /\ Cardinality(leader') <= 1
    BY <1>1, <1>5 DEF CacheTypeOK
  <2>4. ask' \in [Asks -> AskStates] /\ LeadInv' /\ AskInv'
    BY <1>1, <1>5, <2>1, <2>2, <2>3, DownloadStep
  <2> QED
    BY <1>1, <2>3, <2>4, HitStays
<1> QED
  BY <1>3, <1>4, <1>5 DEF Lead, FlightEnds

\* Expire keeps the invariant.
LEMMA ExpireStep == ASSUME CacheInv, Expire, build' = build PROVE CacheInv'
<1>1. CacheTypeOK /\ LeadInv /\ AskInv /\ leader' = leader /\ ask' = ask
  BY DEF CacheInv, Expire
<1>2. /\ ask' \in [Asks -> AskStates] /\ LeadInv' /\ AskInv'
      /\ leader' \in SUBSET Asks /\ Cardinality(leader') <= 1
  <2>1. AskInv'
    BY <1>1 DEF AskInv
  <2>2. hit' = hit \/ hit' = NoHit
    BY DEF Expire
  <2>3. ~miss => ~miss'
    BY DEF Expire
  <2>4. LeadInv'
    BY <1>1, <2>2, <2>3 DEF LeadInv
  <2> QED
    BY <1>1, <2>1, <2>4 DEF CacheTypeOK
<1>3. CASE hit # NoHit /\ hit' = NoHit /\ collectors' = Without /\ UNCHANGED miss
  <2>1. miss' \in BOOLEAN
    BY <1>1, <1>3 DEF CacheTypeOK
  <2> QED
    BY <1>2, <1>3, <2>1, HitGoes
<1>4. CASE miss /\ miss' = FALSE /\ UNCHANGED <<hit, collectors>>
  BY <1>2, <1>4, HitStays
<1> QED
  BY <1>3, <1>4 DEF Expire

\* The first acceptable answer wins: its peer is the hit's only source, and
\* the collectors of earlier fan-outs are late from then on.
LEMMA HearFoundStep ==
  ASSUME CacheInv, NEW r \in Asks, NEW p \in CachePeers, HearFound(r, p), build' = build
  PROVE  CacheInv'
<1>1. /\ CacheTypeOK /\ LeadInv /\ AskInv /\ ask[r] \in AskStates /\ ask[r].pc = "hear"
      /\ ask[r].asked \subseteq CachePeers
      /\ hit = NoHit /\ ~miss /\ miss' = miss /\ build[p] \in Builds
  BY DEF CacheInv, CacheTypeOK, HearFound, LeadInv, AskStates
<1> DEFINE won == [nar |-> build[p], sources |-> <<p>>, mixed |-> FALSE]
           c == [nar |-> build[p], left |-> ask[r].asked \ {p}, late |-> FALSE]
<1>2. /\ hit' = won /\ leader' = {}
      /\ ask' = [q \in Asks |-> IF q \in Sharers THEN Takes(ask[q], won) ELSE ask[q]]
      /\ collectors' = Without \cup {d \in {c} : d.left # {}}
  BY DEF HearFound, FlightEnds
<1>3. won \in Hits
  <2>1. <<p>> \in Seq(CachePeers) /\ Len(<<p>>) = 1 /\ \A i, j \in DOMAIN <<p>> : <<p>>[i] = <<p>>[j] => i = j
    OBVIOUS
  <2>2. <<p>> \in Lists
    BY <2>1, OnceIsShort, ListIs
  <2>3. won \in [nar: Builds \cup {NoBuild}, sources: Lists, mixed: BOOLEAN]
    BY <1>1, <2>2
  <2> HIDE DEF won
  <2> QED
    BY <2>3, HitIs
<1>4. /\ won.nar = build[p] /\ won.sources = <<p>> /\ won.mixed = FALSE /\ won # NoHit
  <2>1. won.nar # NoHit.nar
    BY <1>1, CacheAssumption DEF NoHit
  <2> QED
    BY <2>1
<1>5. c \in [nar: Builds, left: SUBSET CachePeers, late: BOOLEAN] /\ c.nar = build[p]
  BY <1>1
<1> HIDE DEF won, c
<1>6. \A q \in Sharers : ask[q] \in AskStates
  BY <1>1 DEF Sharers, CacheTypeOK
<1>7. /\ ask' \in [Asks -> AskStates]
      /\ leader' \in SUBSET Asks /\ Cardinality(leader') <= 1
      /\ LeadInv' /\ AskInv'
  <2> DEFINE F == [q \in Sharers |-> Takes(ask[q], won)]
  <2>1. ask' = [q \in Asks |-> IF q \in Sharers THEN F[q] ELSE ask[q]]
    BY <1>2
  <2>2. \A q \in Sharers :
            /\ F[q] \in AskStates /\ F[q].pc \notin {"lead", "hear"}
            /\ F[q].pc # "over" => F[q].answer = ask[q].answer
            /\ F[q].answer = "none" => "busy" \notin F[q].heard
    BY <1>3, <1>6, TakesIs
  <2> HIDE DEF F
  <2> QED
    BY <1>1, <1>2, <2>1, <2>2, FlightStep
<1>8. CacheTypeOK'
  <2>1. collectors' \subseteq [nar: Builds, left: SUBSET CachePeers, late: BOOLEAN]
    BY <1>1, <1>2, <1>5, WithoutIs
  <2>2. miss' \in BOOLEAN /\ build' \in [CachePeers -> Builds]
    BY <1>1 DEF CacheTypeOK
  <2> QED
    BY <1>2, <1>3, <1>7, <2>1, <2>2 DEF CacheTypeOK
<1>9. HitOrMiss' /\ SourcesAgreeWhileKept' /\ OnceInv'
  <2>1. OnceInv'
    BY <1>2, <1>4 DEF OnceInv
  <2>2. SourcesAgreeWhileKept'
    BY <1>2, <1>4 DEF SourcesAgreeWhileKept
  <2>3. HitOrMiss'
    BY <1>1 DEF HitOrMiss
  <2> QED
    BY <2>1, <2>2, <2>3
<1>10. LateInv'
  <2>1. ASSUME NEW d \in collectors' PROVE d.late \/ (hit' # NoHit /\ d.nar = hit'.nar)
    <3>1. d \in Without \/ d = c
      BY <1>2
    <3> QED
      BY <1>1, <1>2, <1>4, <1>5, <3>1, WithoutIs
  <2> QED
    BY <2>1 DEF LateInv
<1> QED
  BY <1>7, <1>8, <1>9, <1>10 DEF CacheInv

\* A miss is remembered by the leader of the flight, when nothing else is; a
\* peer without a slot makes it no miss for anyone who shared the flight.
LEMMA HearMissStep ==
  ASSUME CacheInv, NEW r \in Asks, NEW p \in CachePeers, HearMiss(r, p), build' = build
  PROVE  CacheInv'
<1>1. /\ CacheTypeOK /\ LeadInv /\ AskInv /\ ask[r] \in AskStates /\ ask[r].pc = "hear"
      /\ ask[r].heard \subseteq {"busy", "silent"} /\ ask[r].answer = "pending"
      /\ ask[r].asked \subseteq CachePeers
      /\ hit = NoHit /\ hit' = hit /\ collectors' = collectors /\ miss \in BOOLEAN /\ r \in leader
  BY DEF CacheInv, CacheTypeOK, HearMiss, LeadInv, AskInv, AskStates
<1>2. PICK said \in InfoAnswers \ {"found"} :
          LET heard == ask[r].heard \cup ({said} \ {"none"}) IN
          IF ask[r].asked # {p}
          THEN /\ ask' = [ask EXCEPT ![r].asked = @ \ {p}, ![r].heard = heard]
               /\ UNCHANGED <<leader, miss>>
          ELSE /\ miss' = (miss \/ heard = {})
               /\ FlightEnds(LAMBDA a :
                     [Answered(a, IF "busy" \in heard THEN "busy" ELSE "none")
                        EXCEPT !.heard = heard])
  BY DEF HearMiss
<1> DEFINE heard == ask[r].heard \cup ({said} \ {"none"})
<1>3. heard \in SUBSET {"busy", "silent"}
  BY <1>1, <1>2 DEF InfoAnswers
<1>4. CASE ask[r].asked # {p}
  <2> DEFINE a == [ask[r] EXCEPT !.asked = @ \ {p}, !.heard = heard]
  <2>1. ask' = [ask EXCEPT ![r] = a] /\ leader' = leader /\ miss' = miss
    BY <1>1, <1>2, <1>4 DEF CacheTypeOK
  <2> HIDE DEF heard
  <2>2. a \in AskStates /\ a.pc = "hear" /\ a.answer = "pending"
    BY <1>1, <1>3 DEF AskStates
  <2> HIDE DEF a
  <2>3. leader' \in SUBSET Asks /\ Cardinality(leader') <= 1 /\ ~miss
    BY <1>1, <2>1 DEF CacheTypeOK, LeadInv
  <2>4. ask' \in [Asks -> AskStates] /\ LeadInv' /\ AskInv'
    BY <1>1, <2>1, <2>2, <2>3, DownloadStep
  <2>5. miss' \in BOOLEAN
    BY <1>1, <2>1
  <2> QED
    BY <1>1, <2>1, <2>3, <2>4, <2>5, HitStays
<1>5. CASE ask[r].asked = {p}
  <2> DEFINE what == IF "busy" \in heard THEN "busy" ELSE "none"
             F == [q \in Sharers |-> [Answered(ask[q], what) EXCEPT !.heard = heard]]
  <2>1. miss' = (miss \/ heard = {}) /\ leader' = {}
        /\ ask' = [q \in Asks |-> IF q \in Sharers THEN F[q] ELSE ask[q]]
    BY <1>2, <1>5 DEF FlightEnds
  <2>2. what \in {"none", "busy"} /\ (what = "none" => "busy" \notin heard)
    OBVIOUS
  <2>3. \A q \in Sharers : ask[q] \in AskStates
    BY <1>1 DEF Sharers, CacheTypeOK
  <2> HIDE DEF heard, what
  <2>4. \A q \in Sharers :
            /\ F[q] \in AskStates /\ F[q].pc \notin {"lead", "hear"}
            /\ F[q].pc # "over" => F[q].answer = ask[q].answer
            /\ F[q].answer = "none" => "busy" \notin F[q].heard
    <3>1. ASSUME NEW q \in Sharers
          PROVE  F[q] \in AskStates /\ F[q].pc = "over" /\ F[q].answer = what /\ F[q].heard = heard
      <4>1. F[q] = [Answered(ask[q], what) EXCEPT !.heard = heard]
        OBVIOUS
      <4> HIDE DEF F
      <4> QED
        BY <1>3, <2>2, <2>3, <4>1, HeardIs
    <3> HIDE DEF F
    <3> QED
      BY <2>2, <3>1
  <2> HIDE DEF F
  <2>5. /\ ask' \in [Asks -> AskStates]
        /\ leader' \in SUBSET Asks /\ Cardinality(leader') <= 1
        /\ LeadInv' /\ AskInv'
    BY <1>1, <2>1, <2>4, FlightStep
  <2>6. miss' \in BOOLEAN
    BY <2>1
  <2> QED
    BY <1>1, <2>5, <2>6, HitStays
<1> QED
  BY <1>4, <1>5

\* A collector that is done.
LEMMA CollectEndsStep ==
  ASSUME CacheInv, NEW c \in collectors, CollectEnds(c), build' = build PROVE CacheInv'
<1>1. /\ UNCHANGED <<hit, miss, leader, ask>> /\ collectors' \subseteq collectors
  BY DEF CollectEnds
<1>2. /\ ask' \in [Asks -> AskStates] /\ LeadInv' /\ AskInv' /\ miss' \in BOOLEAN
      /\ leader' \in SUBSET Asks /\ Cardinality(leader') <= 1
  BY <1>1 DEF CacheInv, CacheTypeOK, LeadInv, AskInv
<1> QED
  BY <1>1, <1>2, HitStays

\* A collector hears one peer.
LEMMA CollectStep ==
  ASSUME CacheInv, NEW c \in collectors, NEW p \in CachePeers, Collect(c, p), build' = build
  PROVE  CacheInv'
<1>1. /\ CacheTypeOK /\ HitOrMiss /\ SourcesAgreeWhileKept /\ AskInv /\ LeadInv /\ LateInv /\ OnceInv
      /\ c \in [nar: Builds, left: SUBSET CachePeers, late: BOOLEAN]
      /\ UNCHANGED <<miss, leader, ask>>
      /\ hit' = IF build[p] = c.nar THEN AddSource(p, c.late) ELSE hit
  BY DEF CacheInv, CacheTypeOK, Collect
<1> DEFINE d == [c EXCEPT !.left = @ \ {p}]
<1>2. /\ d \in [nar: Builds, left: SUBSET CachePeers, late: BOOLEAN]
      /\ d.nar = c.nar /\ d.late = c.late
  BY <1>1
<1>3. collectors' = (collectors \ {c}) \cup {e \in {d} : e.left # {}}
  BY DEF Collect
<1> HIDE DEF d
<1>4. /\ hit' \in Hits /\ OnceInv' /\ SourcesAgreeWhileKept'
      /\ hit' = NoHit <=> hit = NoHit
      /\ hit # NoHit => hit'.nar = hit.nar
  <2>1. CASE build[p] = c.nar
    <3>1. hit' = AddSource(p, c.late) /\ c.late \in BOOLEAN
      BY <1>1, <2>1
    <3>2. CASE hit = NoHit
      BY <1>1, <3>1, <3>2 DEF AddSource, OnceInv, SourcesAgreeWhileKept, CacheTypeOK
    <3>3. CASE hit # NoHit
      <4>1. c.late \/ build[p] = hit.nar
        BY <1>1, <2>1, <3>3 DEF LateInv
      <4> QED
        BY <1>1, <3>1, <4>1, AddSourceIs
    <3> QED
      BY <3>2, <3>3
  <2>2. CASE build[p] # c.nar
    BY <1>1, <2>2 DEF OnceInv, SourcesAgreeWhileKept, CacheTypeOK
  <2> QED
    BY <2>1, <2>2
<1>5. CacheTypeOK'
  <2>1. collectors' \subseteq [nar: Builds, left: SUBSET CachePeers, late: BOOLEAN]
    BY <1>1, <1>2, <1>3 DEF CacheTypeOK
  <2> QED
    BY <1>1, <1>4, <2>1 DEF CacheTypeOK
<1>6. HitOrMiss' /\ AskInv' /\ LeadInv'
  BY <1>1, <1>4 DEF HitOrMiss, AskInv, LeadInv
<1>7. LateInv'
  <2>1. ASSUME NEW e \in collectors' PROVE e.late \/ (hit' # NoHit /\ e.nar = hit'.nar)
    <3>1. \E f \in collectors : e.late = f.late /\ e.nar = f.nar
      BY <1>2, <1>3
    <3> QED
      BY <1>1, <1>4, <3>1 DEF LateInv
  <2> QED
    BY <2>1 DEF LateInv
<1> QED
  BY <1>4, <1>5, <1>6, <1>7 DEF CacheInv

\* A source whose stream broke leaves the hit, whosever hit it is by then.
LEMMA StreamStep == ASSUME CacheInv, NEW r \in Asks, Stream(r), build' = build PROVE CacheInv'
<1>1. /\ CacheTypeOK /\ HitOrMiss /\ SourcesAgreeWhileKept /\ AskInv /\ LeadInv /\ LateInv /\ OnceInv
      /\ ask[r] \in AskStates /\ ask[r].pc = "fetch" /\ ask[r].left # <<>>
      /\ UNCHANGED <<miss, leader>>
  BY DEF CacheInv, CacheTypeOK, Stream
<1> DEFINE p == Head(ask[r].left)
<1>2. PICK said \in {"served", "short"} :
        /\ ask' = [ask EXCEPT ![r] = Answered(@, said)]
        /\ hit' = IF said = "short" /\ hit # NoHit THEN DropSource(p) ELSE hit
        /\ collectors' = IF hit # NoHit /\ hit' = NoHit THEN Without ELSE collectors
  BY DEF Stream, NarAnswers
<1>3. p \in CachePeers
  <2>1. ask[r].left \in Lists
    BY <1>1 DEF AskStates, Lists
  <2>2. ask[r].left \in Seq(CachePeers)
    BY <2>1, ListIs
  <2> QED
    BY <1>1, <2>2
<1> HIDE DEF p
<1>4. /\ Answered(ask[r], said) \in AskStates /\ Answered(ask[r], said).pc = "over"
      /\ Answered(ask[r], said).answer = said
      /\ ask' = [ask EXCEPT ![r] = Answered(ask[r], said)]
  BY <1>1, <1>2, AnsweredIs
<1>5. r \notin leader
  BY <1>1 DEF LeadInv
<1>6. ask' \in [Asks -> AskStates] /\ AskInv' /\ LeadInv'
  <2>1. /\ ask' \in [Asks -> AskStates] /\ ask'[r].pc = "over" /\ ask'[r].answer = said
        /\ \A q \in Asks : q # r => ask'[q] = ask[q]
    BY <1>1, <1>4 DEF CacheTypeOK
  <2>2. AskInv'
    BY <1>1, <2>1 DEF AskInv
  <2>3. hit = NoHit => hit' = NoHit
    BY <1>2
  <2>4. LeadInv'
    BY <1>1, <1>5, <2>1, <2>3 DEF LeadInv
  <2> QED
    BY <2>1, <2>2, <2>4
<1>7. miss' \in BOOLEAN /\ leader' \in SUBSET Asks /\ Cardinality(leader') <= 1
  BY <1>1 DEF CacheTypeOK
<1>8. CASE hit' = hit
  <2>1. collectors' = collectors
    BY <1>2, <1>8
  <2> QED
    BY <1>1, <1>6, <1>7, <1>8, <2>1, HitStays
<1>9. CASE hit # NoHit /\ hit' = NoHit
  BY <1>2, <1>6, <1>7, <1>9, HitGoes
<1>10. CASE hit # NoHit /\ hit' # NoHit /\ hit' # hit
  <2>1. hit' = DropSource(p) /\ collectors' = collectors
    BY <1>2, <1>10
  <2>2. hit' \in Hits /\ OnceInv' /\ hit'.nar = hit.nar /\ SourcesAgreeWhileKept'
    BY <1>1, <1>3, <1>10, <2>1, DropSourceIs
  <2>3. CacheTypeOK'
    BY <1>1, <1>6, <1>7, <2>1, <2>2 DEF CacheTypeOK
  <2>4. HitOrMiss' /\ LateInv'
    BY <1>1, <1>10, <2>1, <2>2 DEF HitOrMiss, LateInv
  <2> QED
    BY <1>6, <2>2, <2>3, <2>4 DEF CacheInv
<1> QED
  BY <1>2, <1>8, <1>9, <1>10

\* NextSource keeps the invariant.
LEMMA NextSourceStep ==
  ASSUME CacheInv, NEW r \in Asks, NextSource(r), build' = build PROVE CacheInv'
<1>1. /\ CacheTypeOK /\ AskInv /\ LeadInv
      /\ ask[r] \in AskStates /\ ask[r].pc = "fetch" /\ ask[r].left # <<>>
      /\ ask[r].answer = "pending" /\ r \notin leader
      /\ UNCHANGED <<hit, miss, leader, collectors>>
  BY DEF CacheInv, CacheTypeOK, NextSource, AskInv, LeadInv
<1>2. PICK said \in NarAnswers \ {"served", "short"} :
        ask' = [ask EXCEPT ![r].left = Tail(@), ![r].heard = @ \cup ({said} \ {"none"})]
  BY DEF NextSource
<1> DEFINE a == [ask[r] EXCEPT !.left = Tail(@), !.heard = @ \cup ({said} \ {"none"})]
<1>3. Tail(ask[r].left) \in UNION {[1..n -> CachePeers] : n \in 0..Cardinality(CachePeers)}
  <2>1. ask[r].left \in Lists
    BY <1>1 DEF AskStates, Lists
  <2>2. ask[r].left \in Seq(CachePeers) /\ Len(ask[r].left) <= Cardinality(CachePeers)
    BY <2>1, ListIs
  <2>3. Cardinality(CachePeers) \in Nat
    BY CacheAssumption, FS_CardinalityType
  <2>4. Tail(ask[r].left) \in Seq(CachePeers) /\ Len(Tail(ask[r].left)) = Len(ask[r].left) - 1
    BY <1>1, <2>2
  <2>5. Len(Tail(ask[r].left)) <= Cardinality(CachePeers)
    BY <2>2, <2>3, <2>4
  <2> QED
    BY <2>4, <2>5, ListIs DEF Lists
<1>4. a \in AskStates /\ a.pc = "fetch" /\ a.answer = "pending"
  <2> DEFINE t == Tail(ask[r].left)
             h == ask[r].heard \cup ({said} \ {"none"})
  <2>1. h \in SUBSET {"busy", "silent"}
    BY <1>1, <1>2 DEF AskStates, NarAnswers
  <2>2. a = [ask[r] EXCEPT !.left = t, !.heard = h]
    OBVIOUS
  <2> HIDE DEF t, h, a
  <2>3. t \in UNION {[1..n -> CachePeers] : n \in 0..Cardinality(CachePeers)}
    BY <1>3 DEF t
  <2> QED
    BY <1>1, <2>1, <2>2, <2>3 DEF AskStates
<1>5. ask' = [ask EXCEPT ![r] = a]
  BY <1>1, <1>2 DEF CacheTypeOK
<1> HIDE DEF a
<1>6. miss' \in BOOLEAN /\ leader' \in SUBSET Asks /\ Cardinality(leader') <= 1
  BY <1>1 DEF CacheTypeOK
<1>7. ask' \in [Asks -> AskStates] /\ LeadInv' /\ AskInv'
  BY <1>1, <1>4, <1>5, <1>6, DownloadStep
<1> QED
  BY <1>1, <1>6, <1>7, HitStays

\* Forget keeps the invariant.
LEMMA ForgetStep == ASSUME CacheInv, NEW r \in Asks, Forget(r), build' = build PROVE CacheInv'
<1>1. /\ CacheTypeOK /\ AskInv /\ LeadInv
      /\ ask[r] \in AskStates /\ ask[r].pc = "fetch" /\ ask[r].heard \in SUBSET {"busy", "silent"}
      /\ r \notin leader /\ UNCHANGED <<miss, leader>>
      /\ hit' = NoHit /\ collectors' = Without
  BY DEF CacheInv, CacheTypeOK, Forget, AskInv, LeadInv, AskStates
<1> DEFINE what == IF "busy" \in ask[r].heard THEN "busy" ELSE "none"
           a == [Answered(ask[r], what) EXCEPT !.heard = ask[r].heard]
<1>2. ask' = [ask EXCEPT ![r] = a]
  BY DEF Forget
<1>3. what \in {"none", "busy"} /\ (what = "none" => "busy" \notin ask[r].heard)
  OBVIOUS
<1> HIDE DEF what
<1>4. a \in AskStates /\ a.pc = "over" /\ a.answer = what /\ a.heard = ask[r].heard
  BY <1>1, <1>3, HeardIs
<1> HIDE DEF a
<1>5. miss' \in BOOLEAN /\ leader' \in SUBSET Asks /\ Cardinality(leader') <= 1
  BY <1>1 DEF CacheTypeOK
<1>6. ask' \in [Asks -> AskStates] /\ AskInv' /\ LeadInv'
  <2>1. /\ ask' \in [Asks -> AskStates] /\ ask'[r] = a
        /\ \A q \in Asks : q # r => ask'[q] = ask[q]
    BY <1>1, <1>2, <1>4 DEF CacheTypeOK
  <2>2. AskInv'
    BY <1>1, <1>3, <1>4, <2>1 DEF AskInv
  <2>3. LeadInv'
    BY <1>1, <1>4, <2>1 DEF LeadInv
  <2> QED
    BY <2>1, <2>2, <2>3
<1> QED
  BY <1>1, <1>5, <1>6, HitGoes

-----------------------------------------------------------------------------

\* At first nothing is cached.
LEMMA CacheInitInv == CacheInit => CacheInv
<1> SUFFICES ASSUME CacheInit PROVE CacheInv
  OBVIOUS
<1> DEFINE a == [pc |-> "idle", told |-> NoBuild, left |-> <<>>, asked |-> {}, heard |-> {},
                 answer |-> "pending"]
<1>1. a \in AskStates /\ a.pc = "idle" /\ a.answer = "pending"
  <2>1. <<>> \in UNION {[1..n -> CachePeers] : n \in 0..Cardinality(CachePeers)}
    BY NoHitIs DEF Lists
  <2> QED
    BY <2>1 DEF AskStates
<1>2. ask = [r \in Asks |-> a]
  BY DEF CacheInit
<1> HIDE DEF a
<1>3. hit = NoHit /\ leader = {} /\ collectors = {} /\ build \in [CachePeers -> Builds]
  BY DEF CacheInit
<1>4. miss = FALSE
  BY DEF CacheInit
<1>5. Cardinality({}) = 0
  BY FS_EmptySet
<1>6. CacheTypeOK
  <2>1. miss \in BOOLEAN
    BY <1>4
  <2>2. ask \in [Asks -> AskStates]
    BY <1>1, <1>2
  <2>3. /\ hit \in Hits /\ build \in [CachePeers -> Builds]
        /\ leader \in SUBSET Asks /\ Cardinality(leader) <= 1
        /\ collectors \subseteq [nar: Builds, left: SUBSET CachePeers, late: BOOLEAN]
    BY <1>3, <1>5, NoHitIs
  <2> QED
    BY <2>1, <2>2, <2>3 DEF CacheTypeOK
<1>7. HitOrMiss /\ SourcesAgreeWhileKept /\ OnceInv /\ LateInv
  BY <1>3, <1>4 DEF HitOrMiss, SourcesAgreeWhileKept, OnceInv, LateInv, NoHit
<1>8. AskInv /\ LeadInv
  BY <1>1, <1>2, <1>3 DEF AskInv, LeadInv
<1> QED
  BY <1>6, <1>7, <1>8 DEF CacheInv

\* Every step keeps the invariant of the cache.
LEMMA CacheNextInv == CacheInv /\ [CacheNext]_cacheVars => CacheInv'
<1> SUFFICES ASSUME CacheInv, [CacheNext]_cacheVars PROVE CacheInv'
  OBVIOUS
<1>1. ASSUME UNCHANGED cacheVars PROVE CacheInv'
  BY <1>1 DEF cacheVars, CacheInv, CacheTypeOK, HitOrMiss, SourcesAgreeWhileKept, AskInv, LeadInv,
     LateInv, OnceInv
<1>2. CASE CacheNext
  <2>1. build' = build
    BY <1>2 DEF CacheNext
  <2> QED
    BY <1>1, <1>2, <2>1, ExpireStep, LookUpStep, JoinStep, LeadStep, StreamStep, NextSourceStep,
       ForgetStep, HearFoundStep, HearMissStep, CollectEndsStep, CollectStep DEF CacheNext, CacheOver
<1> QED
  BY <1>1, <1>2

\* The invariant says what LookupsTrue says.
LEMMA CacheInvIsTrue == CacheInv => LookupsTrue
  BY DEF CacheInv, LookupsTrue, AskInv, BusyIsNotMiss

\* Whatever downloads, fan-outs and collectors overlap, what the cache
\* remembers and tells is right (nixCache.lookup, addSource, dropSource,
\* fanOutNarinfo).
THEOREM CacheTellsTrue == CacheSpec => []LookupsTrue
<1>1. CacheInv /\ [CacheNext]_cacheVars => CacheInv'
  BY CacheNextInv
<1> QED
  BY <1>1, CacheInitInv, CacheInvIsTrue, PTL DEF CacheSpec

-----------------------------------------------------------------------------
(* A project's files, there and back.                                      *)

\* The states of a run whose script has succeeded.
Late == {"over", "fetch", "synced", "failed"}

\* What a run sends back is what its job changed: content and stamp agree.
JobsOwn(r) ==
    /\ ws[r].pc = "packed" => \A n \in Ignored \ Shims : n \in ProjectFiles => ws[r].work[n] = "gone"
    /\ ws[r].pc = "runs" => ws[r].work = ws[r].start /\ ws[r].same = ws[r].noted
    /\ ws[r].pc \in Late \cup {"runs"} =>
          /\ ws[r].noted = In(ws[r].start) /\ ws[r].noted \cap (Ignored \ Shims) = {}
          /\ \A n \in ProjectFiles : ws[r].start[n] # r
    /\ ws[r].pc \in Late =>
          /\ ws[r].same \subseteq ws[r].noted \cap In(ws[r].work)
          /\ \A n \in ProjectFiles \ ws[r].same : ws[r].work[n] \in {r, "gone"}

\* How far its fetch is.
FetchInv(r) ==
    /\ ws[r].pc # "fetch" => ws[r].send = {} /\ ws[r].open = {} /\ ws[r].goes = {}
    /\ ws[r].pc \notin {"fetch", "synced", "failed"} => ws[r].got = {}
    /\ ws[r].send \cup ws[r].open \subseteq Changed(r)
    /\ ws[r].send \cap ws[r].open = {} /\ \A n, m \in ws[r].open : n = m
    /\ ws[r].goes \subseteq Removed(r)
    /\ ws[r].got \subseteq Changed(r) \cup Removed(r)
    /\ ws[r].got \cap (ws[r].send \cup ws[r].open \cup ws[r].goes) = {}
    /\ ws[r].pc \in {"fetch", "synced"} /\ ~ws[r].short =>
          Changed(r) \cup Removed(r) \subseteq ws[r].send \cup ws[r].open \cup ws[r].goes \cup ws[r].got

\* Nothing of a run is anywhere before its script wrote it.
NotYet(r) ==
    ws[r].pc \in {"begin", "packed", "runs"} =>
        \A n \in ProjectFiles : local[n] # r /\ \A q \in Runs : ws[q].work[n] # r

\* What a file here is, by who changed it last.
FileInv(r, n) ==
    by[n] = r =>
       /\ ws[r].pc \in Late
       /\ n \in Changed(r) \cup Removed(r)
       /\ local[n] = "gone" => n \in Removed(r)
       /\ local[n] = "torn" => n \in Changed(r)
       /\ n \in ws[r].got \ mixed => local[n] = ws[r].work[n]
       /\ local[n] = "torn" /\ n \notin mixed /\ ~ws[r].short /\ ws[r].pc \in {"fetch", "synced"}
            => n \in ws[r].send \cup ws[r].open
\* What the user wrote last is whole.
UserInv(n) == by[n] = TheUser => local[n] # "torn"

\* The inductive invariant of the files.
WsInv ==
    /\ WsTypeOK
    /\ \A r \in Runs : JobsOwn(r) /\ FetchInv(r) /\ NotYet(r)
    /\ \A r \in Runs, n \in ProjectFiles : FileInv(r, n)
    /\ \A n \in ProjectFiles : UserInv(n)

-----------------------------------------------------------------------------
\* One run changes, the others stay.
OnlyRun(r, x) ==
    /\ ws' \in [Runs -> RunStates]
    /\ ws'[r] = x
    /\ \A q \in Runs : q # r => ws'[q] = ws[q]

\* The names of runs are no contents of the other kinds.
LEMMA RunsAreNames ==
  ASSUME NEW r \in Runs
  PROVE  /\ r \notin {"user", "edit", "shim", "torn", "gone"}
         /\ r # TheUser /\ r \in Contents
  BY WsAssumption DEF Contents

\* Writing one run.
LEMMA SetRunIs ==
  ASSUME WsTypeOK, NEW r \in Runs, NEW x \in RunStates, ws' = [ws EXCEPT ![r] = x]
  PROVE  OnlyRun(r, x)
  BY DEF WsTypeOK, OnlyRun

\* What the fields of a run hold.
LEMMA RunFields ==
  ASSUME WsTypeOK, NEW r \in Runs
  PROVE  /\ ws[r] \in RunStates
         /\ ws[r].pc \in {"begin", "packed", "runs", "over", "fetch", "synced", "failed", "ended"}
         /\ ws[r].start \in [ProjectFiles -> Contents] /\ ws[r].work \in [ProjectFiles -> Contents]
         /\ ws[r].noted \subseteq ProjectFiles /\ ws[r].same \subseteq ProjectFiles
         /\ ws[r].send \subseteq ProjectFiles /\ ws[r].goes \subseteq ProjectFiles
         /\ ws[r].got \subseteq ProjectFiles /\ ws[r].open \subseteq ProjectFiles
         /\ ws[r].short \in BOOLEAN
  <1>1. ws[r] \in RunStates
    BY DEF WsTypeOK
  <1> QED
    BY <1>1 DEF RunStates

\* The bound on failures is kept.
LEMMA WsMishap ==
  ASSUME WsTypeOK, Mishap \/ UNCHANGED mishaps
  PROVE  mishaps' \in 0..MaxMishaps
  BY WsAssumption DEF WsTypeOK, Mishap

\* A step of one run that touches nothing in the project directory.
LEMMA RunStepIs ==
  ASSUME WsInv, NEW r \in Runs, NEW x \in RunStates, OnlyRun(r, x),
         UNCHANGED <<local, by, mixed, edits>>, Mishap \/ UNCHANGED mishaps,
         JobsOwn(r)', FetchInv(r)', NotYet(r)', \A n \in ProjectFiles : FileInv(r, n)',
         \A n \in ProjectFiles, q \in Runs :
             q # r /\ ws[q].pc \in {"begin", "packed", "runs"} => x.work[n] # q
  PROVE  WsInv'
  <1>1. WsTypeOK'
    BY WsMishap DEF WsInv, WsTypeOK, OnlyRun
  <1>2. \A q \in Runs : JobsOwn(q)'
    BY DEF WsInv, JobsOwn, OnlyRun, In
  <1>3. \A q \in Runs : FetchInv(q)'
    BY DEF WsInv, FetchInv, OnlyRun, Changed, Removed, In
  <1>4. \A q \in Runs : NotYet(q)'
    BY DEF WsInv, NotYet, OnlyRun
  <1>5. \A q \in Runs, n \in ProjectFiles : FileInv(q, n)'
    BY DEF WsInv, FileInv, OnlyRun, Changed, Removed, In
  <1>6. \A n \in ProjectFiles : UserInv(n)'
    BY DEF WsInv, UserInv
  <1> QED
    BY <1>1, <1>2, <1>3, <1>4, <1>5, <1>6 DEF WsInv

\* At first there are the user's files.
LEMMA WsInitInv == WsInit => WsInv
  <1> SUFFICES ASSUME WsInit PROVE WsInv
    OBVIOUS
  <1> DEFINE none == [n \in ProjectFiles |-> "gone"]
             x == [Unrun EXCEPT !.pc = "begin"]
  <1>1. none \in [ProjectFiles -> Contents]
    BY DEF Contents
  <1>2. /\ x \in RunStates /\ x.pc = "begin" /\ x.work = none /\ x.send = {}
        /\ x.open = {} /\ x.goes = {} /\ x.got = {}
    <2>1. Unrun = [pc |-> "ended", start |-> none, work |-> none, noted |-> {}, same |-> {},
                   send |-> {}, goes |-> {}, got |-> {}, open |-> {}, short |-> FALSE]
      BY DEF Unrun
    <2> HIDE DEF none
    <2>2. /\ Unrun \in RunStates /\ Unrun.work = none /\ Unrun.send = {} /\ Unrun.open = {}
          /\ Unrun.goes = {} /\ Unrun.got = {}
      BY <1>1, <2>1 DEF RunStates
    <2> QED
      BY <2>2 DEF RunStates
  <1>3. ws = [r \in Runs |-> x]
    BY DEF WsInit
  <1>4. WsTypeOK
    <2>1. local \in [ProjectFiles -> Contents]
      BY DEF WsInit, Contents
    <2> HIDE DEF x
    <2>2. ws \in [Runs -> RunStates]
      BY <1>2, <1>3
    <2>3. by \in [ProjectFiles -> Runs \cup {TheUser}] /\ mixed \subseteq ProjectFiles
      BY DEF WsInit
    <2>4. edits \in 0..MaxEdits /\ mishaps \in 0..MaxMishaps
      BY WsAssumption DEF WsInit
    <2> QED
      BY <2>1, <2>2, <2>3, <2>4 DEF WsTypeOK
  <1> HIDE DEF x
  <1>5. \A r \in Runs : ws[r] = x
    BY <1>3
  <1>6. \A r \in Runs : JobsOwn(r) /\ FetchInv(r)
    BY <1>2, <1>5 DEF JobsOwn, FetchInv, Late, Changed, Removed, In
  <1>7. \A r \in Runs : NotYet(r)
    BY <1>2, <1>5, RunsAreNames DEF NotYet, WsInit
  <1>8. \A r \in Runs, n \in ProjectFiles : FileInv(r, n)
    BY WsAssumption DEF FileInv, WsInit
  <1>9. \A n \in ProjectFiles : UserInv(n)
    BY DEF UserInv, WsInit
  <1> QED
    BY <1>4, <1>6, <1>7, <1>8, <1>9 DEF WsInv

\* A run that is not late has changed nothing here.
LEMMA EarlyChangedNothing ==
  ASSUME WsInv, NEW r \in Runs, ws[r].pc \notin Late
  PROVE  \A n \in ProjectFiles : by[n] # r
  BY DEF WsInv, FileInv

\* PackFiles keeps the invariant.
LEMMA PackFilesInv == ASSUME WsInv, NEW r \in Runs, PackFiles(r) PROVE WsInv'
  <1> DEFINE w == WithShim([n \in ProjectFiles |-> IF Excludes(n) THEN "gone" ELSE local[n]])
             x == [ws[r] EXCEPT !.pc = "packed", !.work = w]
  <1>1. WsTypeOK
    BY DEF WsInv
  <1>2. w \in [ProjectFiles -> Contents]
    BY <1>1 DEF WsTypeOK, WithShim, Contents
  <1>3. \A n \in ProjectFiles :
           /\ w[n] \in {local[n], "gone", "shim"}
           /\ n \in Ignored \ Shims => w[n] = "gone"
    BY DEF WithShim, Excludes
  <1> HIDE DEF w
  <1>4. ws[r] \in RunStates /\ ws[r].pc = "begin"
    BY <1>1, RunFields DEF PackFiles, RunAt
  <1>5. /\ x \in RunStates /\ x.pc = "packed" /\ x.work = w /\ x.send = ws[r].send
        /\ x.open = ws[r].open /\ x.goes = ws[r].goes /\ x.got = ws[r].got
    BY <1>2, <1>4 DEF RunStates
  <1>6. ws' = [ws EXCEPT ![r] = x]
    BY <1>1 DEF PackFiles, WsTypeOK, w
  <1> HIDE DEF x
  <1>7. OnlyRun(r, x)
    BY <1>1, <1>5, <1>6, SetRunIs
  <1>8. JobsOwn(r)'
    BY <1>3, <1>5, <1>7 DEF JobsOwn, OnlyRun, Late
  <1>9. FetchInv(r)'
    BY <1>4, <1>5, <1>7 DEF FetchInv, OnlyRun, WsInv
  <1>10. NotYet(r)'
    <2>1. \A n \in ProjectFiles : local[n] # r /\ \A q \in Runs : ws[q].work[n] # r
      BY <1>4 DEF WsInv, NotYet
    <2>2. \A n \in ProjectFiles : x.work[n] # r
      BY <2>1, <1>3, <1>5, RunsAreNames
    <2>3. \A q \in Runs : ws'[q] = x \/ ws'[q] = ws[q]
      BY <1>7 DEF OnlyRun
    <2>4. local' = local
      BY DEF PackFiles
    <2> QED
      BY <2>1, <2>2, <2>3, <2>4 DEF NotYet
  <1>11. \A n \in ProjectFiles : FileInv(r, n)'
    BY <1>4, EarlyChangedNothing DEF FileInv, PackFiles, Late
  <1>12. \A n \in ProjectFiles, q \in Runs :
             q # r /\ ws[q].pc \in {"begin", "packed", "runs"} => x.work[n] # q
    BY <1>3, <1>5, RunsAreNames DEF WsInv, NotYet
  <1> QED
    BY <1>5, <1>7, <1>8, <1>9, <1>10, <1>11, <1>12, RunStepIs DEF PackFiles

\* UploadFiles keeps the invariant.
LEMMA UploadFilesInv == ASSUME WsInv, NEW r \in Runs, UploadFiles(r) PROVE WsInv'
  <1>1. WsTypeOK
    BY DEF WsInv
  <1>2. PICK skipped \in SUBSET In(ws[r].work) :
           /\ Mishap \/ UNCHANGED mishaps
           /\ LET there == [n \in ProjectFiles |-> IF n \in skipped THEN "gone" ELSE ws[r].work[n]] IN
              ws' = [ws EXCEPT ![r].pc = "runs", ![r].start = there, ![r].work = there,
                               ![r].noted = In(there), ![r].same = In(there)]
    BY DEF UploadFiles
  <1> DEFINE t == [n \in ProjectFiles |-> IF n \in skipped THEN "gone" ELSE ws[r].work[n]]
             x == [ws[r] EXCEPT !.pc = "runs", !.start = t, !.work = t,
                                !.noted = In(t), !.same = In(t)]
  <1>3. ws[r] \in RunStates /\ ws[r].pc = "packed" /\ ws[r].work \in [ProjectFiles -> Contents]
    BY <1>1, RunFields DEF UploadFiles, RunAt
  <1>4. t \in [ProjectFiles -> Contents] /\ In(t) \subseteq ProjectFiles
    BY <1>3 DEF Contents, In
  <1>5. \A n \in ProjectFiles : t[n] \in {ws[r].work[n], "gone"}
    OBVIOUS
  <1>6. ws' = [ws EXCEPT ![r] = x]
    BY <1>1, <1>2 DEF WsTypeOK
  <1> HIDE DEF t
  <1>7. /\ x \in RunStates /\ x.pc = "runs" /\ x.work = t /\ x.send = ws[r].send
        /\ x.open = ws[r].open /\ x.goes = ws[r].goes /\ x.got = ws[r].got
        /\ x.start = t /\ x.noted = In(t) /\ x.same = In(t)
    BY <1>3, <1>4 DEF RunStates
  <1> HIDE DEF x
  <1>8. OnlyRun(r, x)
    BY <1>1, <1>6, <1>7, SetRunIs
  <1>9. JobsOwn(r)'
    <2>1. \A n \in ProjectFiles : t[n] # r /\ (n \in Ignored \ Shims => t[n] = "gone")
      BY <1>3, <1>5, RunsAreNames DEF WsInv, JobsOwn, NotYet
    <2>2. ws'[r] = x
      BY <1>8 DEF OnlyRun
    <2> QED
      BY <2>1, <2>2, <1>7 DEF JobsOwn, Late, In
  <1>10. FetchInv(r)'
    BY <1>3, <1>7, <1>8 DEF FetchInv, OnlyRun, WsInv
  <1>11. NotYet(r)'
    <2>1. \A n \in ProjectFiles : local[n] # r /\ \A q \in Runs : ws[q].work[n] # r
      BY <1>3 DEF WsInv, NotYet
    <2>2. \A n \in ProjectFiles : x.work[n] # r
      BY <2>1, <1>5, <1>7, RunsAreNames
    <2>3. \A q \in Runs : ws'[q] = x \/ ws'[q] = ws[q]
      BY <1>8 DEF OnlyRun
    <2>4. local' = local
      BY DEF UploadFiles
    <2> QED
      BY <2>1, <2>2, <2>3, <2>4 DEF NotYet
  <1>12. \A n \in ProjectFiles : FileInv(r, n)'
    BY <1>3, EarlyChangedNothing DEF FileInv, UploadFiles, Late
  <1>13. \A n \in ProjectFiles, q \in Runs :
             q # r /\ ws[q].pc \in {"begin", "packed", "runs"} => x.work[n] # q
    BY <1>5, <1>7, RunsAreNames DEF WsInv, NotYet
  <1> QED
    BY <1>2, <1>7, <1>8, <1>9, <1>10, <1>11, <1>12, <1>13, RunStepIs DEF UploadFiles

\* A run that is over before it changed anything.
LEMMA UnrunInv ==
  ASSUME WsInv, NEW r \in Runs, ws[r].pc \in {"packed", "runs"}, ws' = [ws EXCEPT ![r] = Unrun],
         UNCHANGED <<local, by, mixed, edits, mishaps>>
  PROVE  WsInv'
  <1> DEFINE none == [n \in ProjectFiles |-> "gone"]
  <1>1. WsTypeOK
    BY DEF WsInv
  <1>2. none \in [ProjectFiles -> Contents] /\ \A n \in ProjectFiles : none[n] = "gone"
    BY DEF Contents
  <1>3. Unrun = [pc |-> "ended", start |-> none, work |-> none, noted |-> {}, same |-> {},
                 send |-> {}, goes |-> {}, got |-> {}, open |-> {}, short |-> FALSE]
    BY DEF Unrun
  <1> HIDE DEF none
  <1>4. /\ Unrun \in RunStates /\ Unrun.pc = "ended" /\ Unrun.work = none /\ Unrun.send = {}
        /\ Unrun.open = {} /\ Unrun.goes = {} /\ Unrun.got = {}
    BY <1>2, <1>3 DEF RunStates
  <1>5. OnlyRun(r, Unrun)
    BY <1>1, <1>4, SetRunIs
  <1>6. JobsOwn(r)' /\ FetchInv(r)' /\ NotYet(r)'
    BY <1>4, <1>5 DEF JobsOwn, FetchInv, NotYet, OnlyRun, Late
  <1>7. \A n \in ProjectFiles : FileInv(r, n)'
    BY EarlyChangedNothing DEF FileInv, Late
  <1>8. \A n \in ProjectFiles, q \in Runs : Unrun.work[n] # q
    BY <1>2, <1>4, RunsAreNames
  <1> QED
    BY <1>4, <1>5, <1>6, <1>7, <1>8, RunStepIs

\* ScriptRuns keeps the invariant.
LEMMA ScriptRunsInv == ASSUME WsInv, NEW r \in Runs, ScriptRuns(r) PROVE WsInv'
  <1>1. WsTypeOK
    BY DEF WsInv
  <1>2. PICK wrote \in SUBSET (Touches[r] \ Shims),
             removed \in SUBSET (Touches[r] \cap In(ws[r].work)) :
           \E kept \in SUBSET (wrote \cap ws[r].same) :
              /\ Mishap \/ UNCHANGED mishaps
              /\ ws' = [ws EXCEPT ![r].pc = "over",
                    ![r].work = [n \in ProjectFiles |->
                        IF n \in wrote THEN r ELSE IF n \in removed THEN "gone" ELSE @[n]],
                    ![r].same = @ \ ((wrote \ kept) \cup removed)]
    BY DEF ScriptRuns
  <1>3. PICK kept \in SUBSET (wrote \cap ws[r].same) :
              /\ Mishap \/ UNCHANGED mishaps
              /\ ws' = [ws EXCEPT ![r].pc = "over",
                    ![r].work = [n \in ProjectFiles |->
                        IF n \in wrote THEN r ELSE IF n \in removed THEN "gone" ELSE @[n]],
                    ![r].same = @ \ ((wrote \ kept) \cup removed)]
    BY <1>2
  <1>4. /\ ws[r] \in RunStates /\ ws[r].pc = "runs" /\ ws[r].work \in [ProjectFiles -> Contents]
        /\ ws[r].same \subseteq ProjectFiles
    BY <1>1, RunFields DEF ScriptRuns, RunAt
  <1> DEFINE w == [n \in ProjectFiles |->
                     IF n \in wrote THEN r ELSE IF n \in removed THEN "gone" ELSE ws[r].work[n]]
             k == ws[r].same \ ((wrote \ kept) \cup removed)
             x == [ws[r] EXCEPT !.pc = "over", !.work = w, !.same = k]
  <1>5. w \in [ProjectFiles -> Contents] /\ k \subseteq ws[r].same
    BY <1>4, RunsAreNames DEF Contents
  <1>6. \A n \in ProjectFiles :
           /\ w[n] \in {r, "gone", ws[r].work[n]}
           /\ n \in k => w[n] = r \/ w[n] = ws[r].work[n]
           /\ n \in ws[r].same \ k => w[n] \in {r, "gone"}
           /\ n \notin ws[r].same => w[n] \in {r, "gone"} \/ w[n] = ws[r].work[n]
    BY <1>2
  <1>7. ws' = [ws EXCEPT ![r] = x]
    BY <1>1, <1>3 DEF WsTypeOK
  <1> HIDE DEF w, k
  <1>8. /\ x \in RunStates /\ x.pc = "over" /\ x.work = w /\ x.same = k /\ x.send = ws[r].send
        /\ x.open = ws[r].open /\ x.goes = ws[r].goes /\ x.got = ws[r].got
        /\ x.start = ws[r].start /\ x.noted = ws[r].noted
    BY <1>4, <1>5 DEF RunStates
  <1> HIDE DEF x
  <1>9. OnlyRun(r, x)
    BY <1>1, <1>7, <1>8, SetRunIs
  <1>10. ws'[r] = x
    BY <1>9 DEF OnlyRun
  <1>11. JobsOwn(r)'
    <2>1. /\ ws[r].work = ws[r].start /\ ws[r].same = ws[r].noted
          /\ ws[r].noted = In(ws[r].start) /\ ws[r].noted \cap (Ignored \ Shims) = {}
          /\ \A n \in ProjectFiles : ws[r].start[n] # r
      BY <1>4 DEF WsInv, JobsOwn, Late
    <2>2. k \subseteq ws[r].noted \cap In(w)
      BY <2>1, <1>5, <1>6, RunsAreNames DEF In
    <2>3. \A n \in ProjectFiles \ k : w[n] \in {r, "gone"}
      BY <2>1, <1>6 DEF In
    <2> QED
      BY <2>1, <2>2, <2>3, <1>8, <1>10 DEF JobsOwn, Late
  <1>12. FetchInv(r)'
    BY <1>4, <1>8, <1>10 DEF FetchInv, WsInv
  <1>13. NotYet(r)'
    BY <1>8, <1>10 DEF NotYet
  <1>14. \A n \in ProjectFiles : FileInv(r, n)'
    BY <1>4, EarlyChangedNothing DEF FileInv, ScriptRuns, Late
  <1>15. \A n \in ProjectFiles, q \in Runs :
             q # r /\ ws[q].pc \in {"begin", "packed", "runs"} => x.work[n] # q
    BY <1>6, <1>8, RunsAreNames DEF WsInv, NotYet
  <1> QED
    BY <1>3, <1>8, <1>9, <1>11, <1>12, <1>13, <1>14, <1>15, RunStepIs DEF ScriptRuns

\* The steps of a run whose job is over leave there what its job left.
LEMMA SameJob ==
  ASSUME WsInv, NEW r \in Runs, NEW x \in RunStates, OnlyRun(r, x), ws[r].pc \in Late,
         x.pc \in Late, x.start = ws[r].start, x.work = ws[r].work, x.noted = ws[r].noted,
         x.same = ws[r].same
  PROVE  /\ JobsOwn(r)' /\ NotYet(r)'
         /\ Changed(r)' = Changed(r) /\ Removed(r)' = Removed(r)
         /\ \A n \in ProjectFiles, q \in Runs :
               q # r /\ ws[q].pc \in {"begin", "packed", "runs"} => x.work[n] # q
  <1>1. ws'[r] = x
    BY DEF OnlyRun
  <1>2. JobsOwn(r)'
    BY <1>1 DEF JobsOwn, Late, WsInv
  <1>3. NotYet(r)'
    BY <1>1 DEF NotYet, Late
  <1>4. Changed(r)' = Changed(r) /\ Removed(r)' = Removed(r)
    BY <1>1 DEF Changed, Removed
  <1>5. \A n \in ProjectFiles, q \in Runs :
               q # r /\ ws[q].pc \in {"begin", "packed", "runs"} => x.work[n] # q
    BY DEF WsInv, NotYet
  <1> QED
    BY <1>2, <1>3, <1>4, <1>5

\* What is changed and what is removed are different files, of the project.
LEMMA ChangedOrRemoved ==
  ASSUME WsTypeOK, NEW r \in Runs
  PROVE  /\ Changed(r) \subseteq ProjectFiles /\ Removed(r) \subseteq ProjectFiles
         /\ Changed(r) \cap Removed(r) = {}
  BY RunFields DEF Changed, Removed, In

\* Walk keeps the invariant.
LEMMA WalkInv == ASSUME WsInv, NEW r \in Runs, Walk(r) PROVE WsInv'
  <1>1. WsTypeOK
    BY DEF WsInv
  <1>2. /\ ws[r] \in RunStates /\ ws[r].pc = "over" /\ ws[r].got = {} /\ ws[r].open = {}
        /\ Changed(r) \subseteq ProjectFiles /\ Removed(r) \subseteq ProjectFiles
    BY <1>1, RunFields, ChangedOrRemoved DEF Walk, RunAt, WsInv, FetchInv
  <1>3. PICK snd \in SUBSET Changed(r), gs \in SUBSET Removed(r), sh \in BOOLEAN :
           /\ ws' = [ws EXCEPT ![r] = [@ EXCEPT !.pc = "fetch", !.send = snd, !.goes = gs, !.short = sh]]
           /\ sh \/ (snd = Changed(r) /\ gs = Removed(r))
    <2>1. CASE ws' = [ws EXCEPT ![r].pc = "fetch", ![r].send = Changed(r), ![r].goes = Removed(r)]
      <3>1. ws[r].short \in BOOLEAN
        BY <1>1, RunFields
      <3>2. [ws[r] EXCEPT !.pc = "fetch", !.send = Changed(r), !.goes = Removed(r)]
              = [ws[r] EXCEPT !.pc = "fetch", !.send = Changed(r), !.goes = Removed(r),
                              !.short = ws[r].short]
        BY <1>2 DEF RunStates
      <3>3. ws' = [ws EXCEPT ![r] = [@ EXCEPT !.pc = "fetch", !.send = Changed(r),
                                              !.goes = Removed(r), !.short = ws[r].short]]
        BY <2>1, <3>2
      <3> QED
        BY <3>1, <3>3
    <2>2. CASE \E seen \in SUBSET Changed(r) :
                  ws' = [ws EXCEPT ![r].pc = "fetch", ![r].send = seen, ![r].goes = {},
                                   ![r].short = TRUE]
      <3>1. PICK seen \in SUBSET Changed(r) :
               ws' = [ws EXCEPT ![r].pc = "fetch", ![r].send = seen, ![r].goes = {},
                                ![r].short = TRUE]
        BY <2>2
      <3>2. ws' = [ws EXCEPT ![r] = [@ EXCEPT !.pc = "fetch", !.send = seen, !.goes = {},
                                              !.short = TRUE]]
        BY <3>1
      <3> QED
        BY <3>2
    <2> QED
      BY <2>1, <2>2 DEF Walk
  <1> DEFINE x == [ws[r] EXCEPT !.pc = "fetch", !.send = snd, !.goes = gs, !.short = sh]
  <1>4. /\ x \in RunStates /\ x.pc = "fetch" /\ x.work = ws[r].work /\ x.same = ws[r].same
        /\ x.send = snd /\ x.open = {} /\ x.goes = gs /\ x.got = {}
        /\ x.start = ws[r].start /\ x.noted = ws[r].noted /\ x.short = sh
    <2>1. snd \subseteq ProjectFiles /\ gs \subseteq ProjectFiles
      BY <1>2
    <2> QED
      BY <1>2, <2>1 DEF RunStates
  <1>5. ws' = [ws EXCEPT ![r] = x]
    BY <1>3
  <1> HIDE DEF x
  <1>6. OnlyRun(r, x)
    BY <1>1, <1>4, <1>5, SetRunIs
  <1>7. ws'[r] = x
    BY <1>6 DEF OnlyRun
  <1>8. /\ JobsOwn(r)' /\ NotYet(r)'
        /\ Changed(r)' = Changed(r) /\ Removed(r)' = Removed(r)
        /\ \A n \in ProjectFiles, q \in Runs :
               q # r /\ ws[q].pc \in {"begin", "packed", "runs"} => x.work[n] # q
    BY <1>2, <1>4, <1>6, SameJob DEF Late
  <1>9. FetchInv(r)'
    BY ZenonT(60), <1>3, <1>4, <1>7, <1>8 DEF FetchInv
  <1>10. \A n \in ProjectFiles : FileInv(r, n)'
    <2> SUFFICES ASSUME NEW n \in ProjectFiles PROVE FileInv(r, n)'
      OBVIOUS
    <2>1. FileInv(r, n)
      BY DEF WsInv
    <2>2. UNCHANGED <<local, by, mixed>>
      BY DEF Walk
    <2> QED
      BY <2>1, <2>2, <1>2, <1>3, <1>4, <1>7, <1>8 DEF FileInv, Late
  <1>11. Mishap \/ UNCHANGED mishaps
    BY DEF Walk
  <1> QED
    BY <1>4, <1>6, <1>8, <1>9, <1>10, <1>11, RunStepIs DEF Walk

\* A step of one run that writes or removes one file here: what a file is, is
\* then the run's doing, and no run that is not late has a part in it.
LEMMA FileStepIs ==
  ASSUME WsInv, NEW r \in Runs, NEW x \in RunStates, OnlyRun(r, x), ws[r].pc \in Late,
         NEW f \in ProjectFiles, NEW c \in {"torn", "gone", ws[r].work[f]}, Put(f, c, r),
         c # "edit", \A q \in Runs : q # r /\ ws[q].pc \in {"begin", "packed", "runs"} => c # q,
         mixed' \in SUBSET ProjectFiles, mixed' \ {f} = mixed \ {f},
         UNCHANGED <<edits, mishaps>>,
         x.work = ws[r].work, JobsOwn(r)', FetchInv(r)', NotYet(r)',
         \A n \in ProjectFiles : FileInv(r, n)'
  PROVE  WsInv'
  <1>1. WsTypeOK
    BY DEF WsInv
  <1>2. /\ local' = [local EXCEPT ![f] = c] /\ by' = [by EXCEPT ![f] = r]
        /\ c \in Contents
    BY <1>1, RunFields, RunsAreNames DEF Put, Contents
  <1>3. WsTypeOK'
    BY <1>1, <1>2 DEF WsTypeOK, OnlyRun
  <1>4. \A n \in ProjectFiles : IF n = f THEN local'[n] = c /\ by'[n] = r
                                        ELSE local'[n] = local[n] /\ by'[n] = by[n]
    BY <1>1, <1>2 DEF WsTypeOK
  <1>5. \A q \in Runs : JobsOwn(q)'
    BY DEF WsInv, JobsOwn, OnlyRun, In
  <1>6. \A q \in Runs : FetchInv(q)'
    BY DEF WsInv, FetchInv, OnlyRun, Changed, Removed, In
  <1>7. \A q \in Runs : NotYet(q)'
    <2> SUFFICES ASSUME NEW q \in Runs, q # r PROVE NotYet(q)'
      OBVIOUS
    <2>1. ws'[q] = ws[q] /\ \A p \in Runs : ws'[p].work = ws[p].work
      BY DEF OnlyRun
    <2> QED
      BY <2>1, <1>4 DEF NotYet, WsInv
  <1>8. \A q \in Runs, n \in ProjectFiles : FileInv(q, n)'
    <2> SUFFICES ASSUME NEW q \in Runs, q # r, NEW n \in ProjectFiles PROVE FileInv(q, n)'
      OBVIOUS
    <2>1. FileInv(q, n) /\ ws'[q] = ws[q]
      BY DEF WsInv, OnlyRun
    <2>2. Changed(q)' = Changed(q) /\ Removed(q)' = Removed(q)
      BY <2>1 DEF Changed, Removed
    <2> QED
      BY <2>1, <2>2, <1>4 DEF FileInv
  <1>9. \A n \in ProjectFiles : UserInv(n)'
    BY <1>4, RunsAreNames DEF WsInv, UserInv
  <1> QED
    BY <1>3, <1>5, <1>6, <1>7, <1>8, <1>9 DEF WsInv

\* OpenFile keeps the invariant.
LEMMA OpenFileInv == ASSUME WsInv, NEW r \in Runs, OpenFile(r) PROVE WsInv'
  <1>1. WsTypeOK
    BY DEF WsInv
  <1>2. PICK f \in ws[r].send :
           /\ ws' = [ws EXCEPT ![r].open = {f}, ![r].send = @ \ {f}]
           /\ Put(f, "torn", r)
           /\ mixed' = mixed \cup {f} \/ mixed' = mixed \ {f}
    BY DEF OpenFile
  <1> DEFINE x == [ws[r] EXCEPT !.open = {f}, !.send = @ \ {f}]
  <1>3. /\ ws[r] \in RunStates /\ ws[r].pc = "fetch" /\ ws[r].open = {}
        /\ ws[r].send \subseteq ProjectFiles /\ FetchInv(r) /\ f \in Changed(r)
        /\ Changed(r) \cap Removed(r) = {}
    BY <1>1, RunFields, ChangedOrRemoved DEF OpenFile, RunAt, WsInv, FetchInv
  <1>4. /\ x \in RunStates /\ x.pc = "fetch" /\ x.work = ws[r].work /\ x.same = ws[r].same
        /\ x.send = ws[r].send \ {f} /\ x.open = {f} /\ x.goes = ws[r].goes /\ x.got = ws[r].got
        /\ x.start = ws[r].start /\ x.noted = ws[r].noted /\ x.short = ws[r].short
    BY <1>3 DEF RunStates
  <1>5. ws' = [ws EXCEPT ![r] = x]
    BY <1>2
  <1> HIDE DEF x
  <1>6. OnlyRun(r, x)
    BY <1>1, <1>4, <1>5, SetRunIs
  <1>7. ws'[r] = x
    BY <1>6 DEF OnlyRun
  <1>8. /\ JobsOwn(r)' /\ NotYet(r)'
        /\ Changed(r)' = Changed(r) /\ Removed(r)' = Removed(r)
    BY <1>3, <1>4, <1>6, SameJob DEF Late
  <1>9. FetchInv(r)'
    BY <1>3, <1>4, <1>7, <1>8 DEF FetchInv
  <1>10. \A n \in ProjectFiles : FileInv(r, n)'
    <2> SUFFICES ASSUME NEW n \in ProjectFiles PROVE FileInv(r, n)'
      OBVIOUS
    <2>1. FileInv(r, n)
      BY DEF WsInv
    <2>2. IF n = f THEN local'[n] = "torn" /\ n \notin ws[r].got
                   ELSE local'[n] = local[n] /\ by'[n] = by[n] /\ (n \in mixed' <=> n \in mixed)
      BY <1>1, <1>2, <1>3 DEF WsTypeOK, Put, FetchInv
    <2> QED
      BY <2>1, <2>2, <1>3, <1>4, <1>7, <1>8 DEF FileInv, Late
  <1>11. \A q \in Runs : "torn" # q
    BY RunsAreNames
  <1>12. mixed' \in SUBSET ProjectFiles /\ mixed' \ {f} = mixed \ {f} /\ f \in ProjectFiles
    BY <1>1, <1>2, <1>3 DEF WsTypeOK
  <1>13. UNCHANGED <<edits, mishaps>>
    BY DEF OpenFile
  <1> QED
    BY <1>2, <1>3, <1>4, <1>6, <1>8, <1>9, <1>10, <1>11, <1>12, <1>13, FileStepIs DEF Late

\* CopyFile keeps the invariant.
LEMMA CopyFileInv == ASSUME WsInv, NEW r \in Runs, CopyFile(r) PROVE WsInv'
  <1>1. WsTypeOK
    BY DEF WsInv
  <1>2. PICK f \in ws[r].open :
           /\ \E c \in {ws[r].work[f]} \cup (IF f \in mixed THEN {"torn"} ELSE {}) : Put(f, c, r)
           /\ ws' = [ws EXCEPT ![r].open = {}, ![r].got = @ \cup {f}]
    BY DEF CopyFile
  <1>3. PICK c \in {ws[r].work[f]} \cup (IF f \in mixed THEN {"torn"} ELSE {}) : Put(f, c, r)
    BY <1>2
  <1> DEFINE x == [ws[r] EXCEPT !.open = {}, !.got = @ \cup {f}]
  <1>4. /\ ws[r] \in RunStates /\ ws[r].pc = "fetch" /\ ws[r].open = {f}
        /\ ws[r].got \subseteq ProjectFiles /\ FetchInv(r) /\ f \in Changed(r)
        /\ f \in ProjectFiles /\ Changed(r) \cap Removed(r) = {}
    BY <1>1, <1>2, RunFields, ChangedOrRemoved DEF CopyFile, RunAt, WsInv, FetchInv
  <1>5. /\ x \in RunStates /\ x.pc = "fetch" /\ x.work = ws[r].work /\ x.same = ws[r].same
        /\ x.send = ws[r].send /\ x.open = {} /\ x.goes = ws[r].goes /\ x.got = ws[r].got \cup {f}
        /\ x.start = ws[r].start /\ x.noted = ws[r].noted /\ x.short = ws[r].short
    BY <1>4 DEF RunStates
  <1>6. ws' = [ws EXCEPT ![r] = x]
    BY <1>2
  <1> HIDE DEF x
  <1>7. OnlyRun(r, x)
    BY <1>1, <1>5, <1>6, SetRunIs
  <1>8. ws'[r] = x
    BY <1>7 DEF OnlyRun
  <1>9. /\ JobsOwn(r)' /\ NotYet(r)'
        /\ Changed(r)' = Changed(r) /\ Removed(r)' = Removed(r)
    BY <1>4, <1>5, <1>7, SameJob DEF Late
  <1>10. FetchInv(r)'
    BY <1>4, <1>5, <1>8, <1>9 DEF FetchInv
  <1>11. ws[r].work[f] = r
    BY <1>4 DEF WsInv, JobsOwn, Changed, In, Late
  <1>12. mixed' = mixed /\ edits' = edits /\ mishaps' = mishaps
    BY DEF CopyFile
  <1>13. \A n \in ProjectFiles : FileInv(r, n)'
    <2> SUFFICES ASSUME NEW n \in ProjectFiles PROVE FileInv(r, n)'
      OBVIOUS
    <2>1. FileInv(r, n)
      BY DEF WsInv
    <2>2. IF n = f THEN local'[n] = c
                   ELSE local'[n] = local[n] /\ by'[n] = by[n]
      BY <1>1, <1>3, <1>4 DEF WsTypeOK, Put
    <2>3. CASE n = f
      <3>1. c = r \/ (c = "torn" /\ f \in mixed)
        BY <1>3, <1>11
      <3> QED
        BY <2>2, <2>3, <3>1, <1>4, <1>5, <1>8, <1>9, <1>11, <1>12, RunsAreNames DEF FileInv, Late
    <2>4. CASE n # f
      BY <2>1, <2>2, <2>4, <1>4, <1>5, <1>8, <1>9, <1>12 DEF FileInv, Late
    <2> QED
      BY <2>3, <2>4
  <1>14. /\ c \in {"torn", "gone", ws[r].work[f]} /\ c # "edit"
         /\ \A q \in Runs : q # r => c # q
    BY <1>3, <1>11, RunsAreNames
  <1>15. mixed' \in SUBSET ProjectFiles /\ mixed' \ {f} = mixed \ {f}
    BY <1>1, <1>12 DEF WsTypeOK
  <1> QED
    BY <1>3, <1>4, <1>5, <1>7, <1>9, <1>10, <1>12, <1>13, <1>14, <1>15, FileStepIs DEF Late

\* DeleteFile keeps the invariant.
LEMMA DeleteFileInv == ASSUME WsInv, NEW r \in Runs, DeleteFile(r) PROVE WsInv'
  <1>1. WsTypeOK
    BY DEF WsInv
  <1>2. PICK f \in ws[r].goes :
           /\ Put(f, "gone", r)
           /\ mixed' = mixed \ {f}
           /\ ws' = [ws EXCEPT ![r].goes = @ \ {f}, ![r].got = @ \cup {f}]
    BY DEF DeleteFile
  <1> DEFINE x == [ws[r] EXCEPT !.goes = @ \ {f}, !.got = @ \cup {f}]
  <1>3. /\ ws[r] \in RunStates /\ ws[r].pc = "fetch" /\ ws[r].open = {} /\ ws[r].send = {}
        /\ ws[r].got \subseteq ProjectFiles /\ ws[r].goes \subseteq ProjectFiles
        /\ FetchInv(r) /\ f \in Removed(r) /\ f \in ProjectFiles
        /\ Changed(r) \cap Removed(r) = {}
    BY <1>1, <1>2, RunFields, ChangedOrRemoved DEF DeleteFile, AllWritten, RunAt, WsInv, FetchInv
  <1>4. /\ x \in RunStates /\ x.pc = "fetch" /\ x.work = ws[r].work /\ x.same = ws[r].same
        /\ x.send = {} /\ x.open = {} /\ x.goes = ws[r].goes \ {f} /\ x.got = ws[r].got \cup {f}
        /\ x.start = ws[r].start /\ x.noted = ws[r].noted /\ x.short = ws[r].short
    BY <1>3 DEF RunStates
  <1>5. ws' = [ws EXCEPT ![r] = x]
    BY <1>2
  <1> HIDE DEF x
  <1>6. OnlyRun(r, x)
    BY <1>1, <1>4, <1>5, SetRunIs
  <1>7. ws'[r] = x
    BY <1>6 DEF OnlyRun
  <1>8. /\ JobsOwn(r)' /\ NotYet(r)'
        /\ Changed(r)' = Changed(r) /\ Removed(r)' = Removed(r)
    BY <1>3, <1>4, <1>6, SameJob DEF Late
  <1>9. FetchInv(r)'
    BY <1>3, <1>4, <1>7, <1>8 DEF FetchInv
  <1>10. ws[r].work[f] = "gone"
    BY <1>3 DEF Removed, In
  <1>11. \A n \in ProjectFiles : FileInv(r, n)'
    <2> SUFFICES ASSUME NEW n \in ProjectFiles PROVE FileInv(r, n)'
      OBVIOUS
    <2>1. FileInv(r, n)
      BY DEF WsInv
    <2>2. IF n = f THEN local'[n] = "gone"
                   ELSE local'[n] = local[n] /\ by'[n] = by[n] /\ (n \in mixed' <=> n \in mixed)
      BY <1>1, <1>2, <1>3 DEF WsTypeOK, Put
    <2>3. CASE n = f
      BY <2>2, <2>3, <1>3, <1>4, <1>7, <1>8, <1>10 DEF FileInv, Late
    <2>4. CASE n # f
      BY <2>1, <2>2, <2>4, <1>3, <1>4, <1>7, <1>8 DEF FileInv, Late
    <2> QED
      BY <2>3, <2>4
  <1>12. \A q \in Runs : "gone" # q
    BY RunsAreNames
  <1>13. mixed' \in SUBSET ProjectFiles /\ mixed' \ {f} = mixed \ {f}
    BY <1>1, <1>2 DEF WsTypeOK
  <1>14. UNCHANGED <<edits, mishaps>>
    BY DEF DeleteFile
  <1> QED
    BY <1>2, <1>3, <1>4, <1>6, <1>8, <1>9, <1>11, <1>12, <1>13, <1>14, FileStepIs DEF Late

\* The steps of a fetch that leave the project directory alone.
LEMMA FetchStepsInv ==
  ASSUME WsInv, NEW r \in Runs, Synced(r) \/ FetchBreaks(r) \/ FetchAgain(r)
  PROVE  WsInv'
  <1>1. WsTypeOK
    BY DEF WsInv
  <1>2. /\ ws[r] \in RunStates /\ ws[r].pc \in {"fetch", "failed"} /\ FetchInv(r)
        /\ ws[r].got \subseteq ProjectFiles
    BY <1>1, RunFields DEF Synced, FetchBreaks, FetchAgain, AllWritten, RunAt, WsInv
  <1>3. PICK x \in RunStates :
           /\ ws' = [ws EXCEPT ![r] = x]
           /\ x.work = ws[r].work /\ x.same = ws[r].same
           /\ x.send = {} /\ x.open = {} /\ x.goes = {} /\ x.got \subseteq ws[r].got
           /\ x.start = ws[r].start /\ x.noted = ws[r].noted
           /\ x.pc \in {"synced", "failed", "over"} /\ (x.pc = "over" => x.got = {})
           /\ x.pc = "synced" => /\ x.short = ws[r].short /\ x.got = ws[r].got
                                 /\ ws[r].pc = "fetch"
                                 /\ ws[r].send = {} /\ ws[r].open = {} /\ ws[r].goes = {}
    <2>1. CASE Synced(r)
      <3> DEFINE y == [ws[r] EXCEPT !.pc = "synced"]
      <3>1. /\ y \in RunStates /\ y.pc = "synced" /\ y.work = ws[r].work /\ y.same = ws[r].same
            /\ y.start = ws[r].start /\ y.noted = ws[r].noted /\ y.got = ws[r].got
            /\ y.send = ws[r].send /\ y.open = ws[r].open /\ y.goes = ws[r].goes
            /\ y.short = ws[r].short
        BY <1>2 DEF RunStates
      <3>2. ws' = [ws EXCEPT ![r] = y]
        BY <2>1 DEF Synced
      <3>3. ws[r].pc = "fetch" /\ ws[r].send = {} /\ ws[r].open = {} /\ ws[r].goes = {}
        BY <2>1 DEF Synced, AllWritten, RunAt
      <3> HIDE DEF y
      <3> QED
        BY <3>1, <3>2, <3>3
    <2>2. CASE FetchBreaks(r)
      <3> DEFINE y == [ws[r] EXCEPT !.pc = "failed", !.open = {}, !.send = {}, !.goes = {}]
      <3>1. /\ y \in RunStates /\ y.pc = "failed" /\ y.work = ws[r].work /\ y.same = ws[r].same
            /\ y.start = ws[r].start /\ y.noted = ws[r].noted /\ y.got = ws[r].got
            /\ y.send = {} /\ y.open = {} /\ y.goes = {}
        BY <1>2 DEF RunStates
      <3>2. ws' = [ws EXCEPT ![r] = y]
        BY <2>2 DEF FetchBreaks
      <3> HIDE DEF y
      <3> QED
        BY <3>1, <3>2
    <2>3. CASE FetchAgain(r)
      <3> DEFINE y == [ws[r] EXCEPT !.pc = "over", !.got = {}, !.short = FALSE]
      <3>1. /\ y \in RunStates /\ y.pc = "over" /\ y.work = ws[r].work /\ y.same = ws[r].same
            /\ y.start = ws[r].start /\ y.noted = ws[r].noted /\ y.got = {}
            /\ y.send = ws[r].send /\ y.open = ws[r].open /\ y.goes = ws[r].goes
        BY <1>2 DEF RunStates
      <3>2. ws' = [ws EXCEPT ![r] = y] /\ ws[r].pc = "failed"
        BY <2>3 DEF FetchAgain, RunAt
      <3>3. ws[r].send = {} /\ ws[r].open = {} /\ ws[r].goes = {}
        BY <3>2, <1>2 DEF FetchInv
      <3> HIDE DEF y
      <3> QED
        BY <3>1, <3>2, <3>3
    <2> QED
      BY <2>1, <2>2, <2>3
  <1>4. OnlyRun(r, x)
    BY <1>1, <1>3, SetRunIs
  <1>5. ws'[r] = x
    BY <1>4 DEF OnlyRun
  <1>6. /\ JobsOwn(r)' /\ NotYet(r)'
        /\ Changed(r)' = Changed(r) /\ Removed(r)' = Removed(r)
        /\ \A n \in ProjectFiles, q \in Runs :
               q # r /\ ws[q].pc \in {"begin", "packed", "runs"} => x.work[n] # q
    BY <1>2, <1>3, <1>4, SameJob DEF Late
  <1>7. FetchInv(r)'
    BY <1>2, <1>3, <1>5, <1>6 DEF FetchInv
  <1>8. /\ UNCHANGED <<local, by, mixed, edits>>
        /\ Mishap \/ UNCHANGED mishaps
    BY DEF Synced, FetchBreaks, FetchAgain
  <1>9. \A n \in ProjectFiles : FileInv(r, n)'
    <2> SUFFICES ASSUME NEW n \in ProjectFiles PROVE FileInv(r, n)'
      OBVIOUS
    <2>1. FileInv(r, n)
      BY DEF WsInv
    <2> QED
      BY <2>1, <1>2, <1>3, <1>5, <1>6, <1>8 DEF FileInv, Late
  <1> QED
    BY <1>3, <1>4, <1>6, <1>7, <1>8, <1>9, RunStepIs

\* UserEdits keeps the invariant.
LEMMA UserEditsInv == ASSUME WsInv, NEW f \in ProjectFiles, UserEdits(f) PROVE WsInv'
  <1>1. WsTypeOK
    BY DEF WsInv
  <1>2. PICK c \in {"edit", "gone"} : Put(f, c, TheUser)
    BY DEF UserEdits
  <1>3. /\ ws' = ws /\ mixed' = mixed \ {f} /\ mishaps' = mishaps
        /\ edits < MaxEdits /\ edits' = edits + 1
    BY DEF UserEdits
  <1>4. \A n \in ProjectFiles : IF n = f THEN local'[n] = c /\ by'[n] = TheUser
                                        ELSE local'[n] = local[n] /\ by'[n] = by[n]
    BY <1>1, <1>2 DEF WsTypeOK, Put
  <1>5. WsTypeOK'
    <2>1. edits' \in 0..MaxEdits
      BY <1>1, <1>3, WsAssumption DEF WsTypeOK
    <2>2. local' \in [ProjectFiles -> Contents] /\ by' \in [ProjectFiles -> Runs \cup {TheUser}]
      BY <1>1, <1>2 DEF WsTypeOK, Put, Contents
    <2> QED
      BY <1>1, <1>3, <2>1, <2>2 DEF WsTypeOK
  <1>6. \A r \in Runs : JobsOwn(r)' /\ FetchInv(r)' /\ Changed(r)' = Changed(r)
                        /\ Removed(r)' = Removed(r)
    BY <1>3 DEF WsInv, JobsOwn, FetchInv, Changed, Removed, In
  <1>7. \A r \in Runs : NotYet(r)'
    BY <1>3, <1>4, RunsAreNames DEF WsInv, NotYet
  <1>8. \A r \in Runs, n \in ProjectFiles : FileInv(r, n)'
    <2> SUFFICES ASSUME NEW r \in Runs, NEW n \in ProjectFiles PROVE FileInv(r, n)'
      OBVIOUS
    <2>1. FileInv(r, n)
      BY DEF WsInv
    <2> QED
      BY <2>1, <1>3, <1>4, <1>6, RunsAreNames DEF FileInv
  <1>9. \A n \in ProjectFiles : UserInv(n)'
    BY <1>4 DEF WsInv, UserInv
  <1> QED
    BY <1>5, <1>6, <1>7, <1>8, <1>9 DEF WsInv

\* Every step keeps the invariant of the files.
LEMMA WsStepInv == WsInv /\ [WsNext]_wsVars => WsInv'
  <1> SUFFICES ASSUME WsInv, [WsNext]_wsVars PROVE WsInv'
    OBVIOUS
  <1>1. CASE \E r \in Runs : PackFiles(r)
    BY <1>1, PackFilesInv
  <1>2. CASE \E r \in Runs : UploadFiles(r)
    BY <1>2, UploadFilesInv
  <1>3. CASE \E r \in Runs : UploadBreaks(r) \/ ScriptFails(r)
    BY <1>3, UnrunInv DEF UploadBreaks, ScriptFails, RunAt
  <1>4. CASE \E r \in Runs : ScriptRuns(r)
    BY <1>4, ScriptRunsInv
  <1>5. CASE \E r \in Runs : Walk(r)
    BY <1>5, WalkInv
  <1>6. CASE \E r \in Runs : OpenFile(r)
    BY <1>6, OpenFileInv
  <1>7. CASE \E r \in Runs : CopyFile(r)
    BY <1>7, CopyFileInv
  <1>8. CASE \E r \in Runs : DeleteFile(r)
    BY <1>8, DeleteFileInv
  <1>9. CASE \E r \in Runs : Synced(r) \/ FetchBreaks(r) \/ FetchAgain(r)
    BY <1>9, FetchStepsInv
  <1>10. CASE \E n \in ProjectFiles : UserEdits(n)
    BY <1>10, UserEditsInv
  <1>11. CASE UNCHANGED wsVars
    BY <1>11 DEF wsVars, WsInv, WsTypeOK, JobsOwn, FetchInv, NotYet, FileInv, UserInv,
                 Changed, Removed, In
  <1> QED
    BY <1>1, <1>2, <1>3, <1>4, <1>5, <1>6, <1>7, <1>8, <1>9, <1>10, <1>11 DEF WsNext, WsOver

\* What a run sends back, written out: the files whose stamp shows a change,
\* and those it removed.
LEMMA SentIsShown ==
  ASSUME WsInv, NEW r \in Runs, ws[r].pc \in Late
  PROVE  /\ Changed(r) \cup Removed(r) = Shown(r)
         /\ Changed(r) \cup Removed(r) \subseteq Touched(r)
         /\ Removed(r) \subseteq ws[r].noted \ (Ignored \ Shims)
  <1>1. /\ ws[r].noted = In(ws[r].start) /\ ws[r].noted \cap (Ignored \ Shims) = {}
        /\ \A n \in ProjectFiles : ws[r].start[n] # r
        /\ ws[r].same \subseteq ws[r].noted \cap In(ws[r].work)
        /\ \A n \in ProjectFiles \ ws[r].same : ws[r].work[n] \in {r, "gone"}
    BY DEF WsInv, JobsOwn
  <1>2. r # "gone"
    BY RunsAreNames
  <1> QED
    BY <1>1, <1>2 DEF Changed, Removed, Shown, Touched, In

\* The invariant says what SyncIsTrue says.
LEMMA WsInvIsTrue == WsInv => SyncIsTrue
  <1> SUFFICES ASSUME WsInv PROVE SyncIsTrue
    OBVIOUS
  <1>1. WsTypeOK
    BY DEF WsInv
  <1>2. ResultsAreTheJobs
    <2> SUFFICES ASSUME NEW r \in Runs
                 PROVE  /\ ws[r].got \subseteq Touched(r)
                        /\ \A n \in ProjectFiles : by[n] = r =>
                              /\ n \in Touched(r)
                              /\ local[n] = "gone" => n \in ws[r].noted \ (Ignored \ Shims)
                        /\ RunAt(r, "synced") =>
                              /\ ~ws[r].short => ws[r].got = Shown(r)
                              /\ \A n \in ws[r].got \ mixed : by[n] = r => local[n] = ws[r].work[n]
      BY DEF ResultsAreTheJobs
    <2>1. ws[r].got \subseteq Touched(r)
      BY SentIsShown DEF WsInv, FetchInv, Late
    <2>2. \A n \in ProjectFiles : by[n] = r =>
             /\ n \in Touched(r)
             /\ local[n] = "gone" => n \in ws[r].noted \ (Ignored \ Shims)
      BY SentIsShown DEF WsInv, FileInv
    <2>3. RunAt(r, "synced") /\ ~ws[r].short => ws[r].got = Shown(r)
      <3> SUFFICES ASSUME ws[r].pc = "synced", ~ws[r].short PROVE ws[r].got = Shown(r)
        BY DEF RunAt
      <3>1. Changed(r) \cup Removed(r) = Shown(r)
        BY SentIsShown DEF Late
      <3> QED
        BY <3>1 DEF WsInv, FetchInv
    <2>4. \A n \in ws[r].got \ mixed : by[n] = r => local[n] = ws[r].work[n]
      BY <1>1, RunFields DEF WsInv, FileInv
    <2> QED
      BY <2>1, <2>2, <2>3, <2>4
  <1>3. TornIsTold
    <2> SUFFICES ASSUME NEW n \in ProjectFiles \ mixed, local[n] = "torn"
                 PROVE  by[n] # TheUser /\ (RunAt(by[n], "synced") => ws[by[n]].short)
      BY DEF TornIsTold
    <2>1. by[n] # TheUser
      BY DEF WsInv, UserInv
    <2>2. by[n] \in Runs
      BY <1>1, <2>1 DEF WsTypeOK
    <2>3. FileInv(by[n], n) /\ FetchInv(by[n])
      BY <2>2 DEF WsInv
    <2> QED
      BY <2>1, <2>3 DEF FileInv, FetchInv, RunAt
  <1> QED
    BY <1>1, <1>2, <1>3 DEF SyncIsTrue

\* A run's results change files its job changed and no others, remove only files
\* the job was given, and are all here when the run says so, unless the node's
\* walk of them ended early (writeResultsTar, extractResults).
THEOREM SyncTellsTrue == WsSpec => []SyncIsTrue
  <1>1. WsInv /\ [WsNext]_wsVars => WsInv'
    BY WsStepInv
  <1> QED
    BY WsInitInv, WsInvIsTrue, <1>1, PTL DEF WsSpec

-----------------------------------------------------------------------------
(* Directories that are bounded by use.                                     *)

\* What is kept of a directory.
LEMMA KeepIs ==
    ASSUME NEW S, NEW s \in Seq(S), Distinct(s), NEW W
    PROVE  LET kept == Keep(s, {i \in 1..Len(s) : s[i] \in W})
           IN  kept \in Seq(S) /\ Distinct(kept) /\ Files(kept) = Files(s) \cap W
<1> DEFINE T == {i \in 1..Len(s) : s[i] \in W}
           kept == CHOOSE e : e = [i \in 0..Len(s) |-> IF i = 0 THEN << >> ELSE
                        IF i \in T THEN Append(e[i - 1], s[i]) ELSE e[i - 1]]
<1>1. KeepsTo(kept, s, T, Len(s))
  BY KeptIs
<1>2. Keep(s, T) = kept[Len(s)]
  BY DEF Keep
<1> HIDE DEF kept, T
<1>3. /\ Keep(s, T) \in Seq(S)
      /\ \A x : Contains(Keep(s, T), x) <=> \E i \in 1..Len(s) : i \in T /\ s[i] = x
  <2>1. /\ kept[Len(s)] \in Seq(S) /\ Len(kept[Len(s)]) <= Len(s)
        /\ \A k : Contains(kept[Len(s)], k) <=> \E i \in 1..Len(s) : i \in T /\ s[i] = k
    BY <1>1, KeptAre
  <2> QED
    BY <1>2, <2>1
<1>4. Distinct(Keep(s, T))
  BY <1>1, <1>2, KeptDistinct
<1>5. Files(Keep(s, T)) = Files(s) \cap W
  <2> DEFINE q == Keep(s, T)
  <2>1. DOMAIN q = 1..Len(q) /\ DOMAIN s = 1..Len(s)
    BY <1>3
  <2> HIDE DEF q
  <2>2. \A x : x \in Files(q) <=> Contains(q, x)
    BY <2>1 DEF Files, Contains
  <2>3. \A x : x \in Files(s) \cap W <=> \E i \in 1..Len(s) : i \in T /\ s[i] = x
    BY <2>1 DEF Files, T
  <2> QED
    BY <1>3, <2>2, <2>3 DEF q
<1> QED
  BY <1>3, <1>4, <1>5 DEF T

\* A directory has as many files as it is long.
LEMMA DistinctIs ==
    ASSUME NEW S, NEW s \in Seq(S), Distinct(s)
    PROVE  /\ Files(s) \subseteq S /\ IsFiniteSet(Files(s))
           /\ Cardinality(Files(s)) = Len(s) /\ Len(s) \in Nat
<1> DEFINE fn == [i \in 1..Len(s) |-> s[i]]
<1>1. Len(s) \in Nat /\ DOMAIN s = 1..Len(s)
  OBVIOUS
<1>2. fn \in Bijection(1..Len(s), Files(s))
  BY <1>1 DEF Files, Distinct, Bijection, Injection, Surjection, IsInjective
<1>3. IsFiniteSet(1..Len(s)) /\ Cardinality(1..Len(s)) = IF 1 > Len(s) THEN 0 ELSE Len(s) - 1 + 1
  BY <1>1, FS_Interval
<1>4. (IF 1 > Len(s) THEN 0 ELSE Len(s) - 1 + 1) = Len(s)
  BY <1>1
<1> HIDE DEF fn
<1>5. IsFiniteSet(Files(s)) /\ Cardinality(Files(s)) = Cardinality(1..Len(s))
  <2>1. ExistsBijection(1..Len(s), Files(s))
    BY <1>2 DEF ExistsBijection
  <2> QED
    BY <1>3, <2>1, FS_Bijection
<1>6. Files(s) \subseteq S
  BY <1>1 DEF Files
<1> QED
  BY <1>1, <1>3, <1>4, <1>5, <1>6

\* Files that are removed.
LEMMA RemoveIs ==
    ASSUME NEW S, NEW dir \in Seq(S), Distinct(dir), NEW fs
    PROVE  /\ RemoveFiles(dir, fs) \in Seq(S) /\ Distinct(RemoveFiles(dir, fs))
           /\ Files(RemoveFiles(dir, fs)) = Files(dir) \ fs
<1> DEFINE W == S \ fs
           T == {i \in 1..Len(dir) : dir[i] \in W}
<1>1. {i \in 1..Len(dir) : dir[i] \notin fs} = T
  OBVIOUS
<1>2. Keep(dir, T) \in Seq(S) /\ Distinct(Keep(dir, T)) /\ Files(Keep(dir, T)) = Files(dir) \cap W
  BY KeepIs
<1>3. Files(dir) \subseteq S
  BY DistinctIs
<1>4. RemoveFiles(dir, fs) = Keep(dir, T)
  BY <1>1 DEF RemoveFiles
<1> HIDE DEF T
<1> QED
  BY <1>2, <1>3, <1>4

\* A file that is used.
LEMMA UsedIs ==
    ASSUME NEW S, NEW dir \in Seq(S), Distinct(dir), NEW x \in S
    PROVE  /\ Used(dir, x) \in Seq(S) /\ Distinct(Used(dir, x))
           /\ Files(Used(dir, x)) = Files(dir) \cup {x}
<1> DEFINE q == RemoveFiles(dir, {x})
           l == Len(q)
           t == Append(q, x)
<1>1. q \in Seq(S) /\ Distinct(q) /\ Files(q) = Files(dir) \ {x}
  BY RemoveIs
<1>2. Used(dir, x) = t
  BY DEF Used, RemoveFile
<1> HIDE DEF q
<1>3. /\ t \in Seq(S) /\ Len(t) = l + 1 /\ t[l + 1] = x /\ \A i \in 1..l : t[i] = q[i]
      /\ l \in Nat /\ DOMAIN q = 1..l /\ DOMAIN t = 1..Len(t)
  BY <1>1, AppendIs
<1> HIDE DEF t
<1>4. \A i \in 1..l : q[i] # x
  BY <1>1, <1>3 DEF Files
<1>5. \A i \in 1..Len(t) : i \in 1..l \/ i = l + 1
  BY <1>3
<1>6. Distinct(t)
  <2> SUFFICES ASSUME NEW i \in 1..Len(t), NEW j \in 1..Len(t), t[i] = t[j] PROVE i = j
    BY DEF Distinct
  <2>1. CASE i \in 1..l /\ j \in 1..l
    BY <1>1, <1>3, <2>1 DEF Distinct
  <2>2. CASE ~(i \in 1..l /\ j \in 1..l)
    BY <1>3, <1>4, <1>5, <2>2
  <2> QED
    BY <2>1, <2>2
<1>7. Files(t) = Files(q) \cup {x}
  <2>1. l + 1 \in 1..Len(t) /\ 1..l \subseteq 1..Len(t)
    BY <1>3
  <2>2. Files(t) = {t[i] : i \in 1..Len(t)} /\ Files(q) = {q[i] : i \in 1..l}
    BY <1>3 DEF Files
  <2> HIDE DEF l
  <2> QED
    BY <1>3, <1>5, <2>1, <2>2
<1> QED
  BY <1>1, <1>2, <1>3, <1>6, <1>7

\* prune leaves no more of what it listed than the cap allows, and removes
\* nothing else.
LEMMA EvictedIs ==
    ASSUME NEW S, NEW listing \in Seq(S), Distinct(listing), NEW dir, NEW max \in Nat
    PROVE  /\ Evicted(listing, dir, max) \subseteq Files(listing) \cap Files(dir)
           /\ IsFiniteSet(Files(listing) \cap Files(dir))
           /\ Cardinality((Files(listing) \cap Files(dir)) \ Evicted(listing, dir, max)) <= max
<1> DEFINE there == Keep(listing, {i \in 1..Len(listing) : listing[i] \in Files(dir)})
           over == IF Len(listing) > max THEN Len(listing) - max ELSE 0
           n == IF over < Len(there) THEN over ELSE Len(there)
           out == {there[i] : i \in 1..n}
<1>1. Evicted(listing, dir, max) = out
  BY DEF Evicted
<1>2. there \in Seq(S) /\ Distinct(there) /\ Files(there) = Files(listing) \cap Files(dir)
  BY KeepIs
<1> HIDE DEF there
<1>3. /\ IsFiniteSet(Files(there)) /\ Cardinality(Files(there)) = Len(there) /\ Len(there) \in Nat
      /\ DOMAIN there = 1..Len(there)
  <2>1. DOMAIN there = 1..Len(there)
    BY <1>2
  <2>2. there \in Seq(S) /\ Distinct(there)
    BY <1>2
  <2> QED
    BY <2>1, <2>2, DistinctIs
<1>4. /\ IsFiniteSet(Files(listing)) /\ Cardinality(Files(listing)) = Len(listing)
      /\ Len(listing) \in Nat
  BY DistinctIs
<1>5. Len(there) <= Len(listing)
  <2>1. Files(there) \in SUBSET Files(listing)
    BY <1>2
  <2> QED
    BY <1>3, <1>4, <2>1, FS_Subset
<1>6. n \in Nat /\ n <= Len(there) /\ Len(there) - n <= max /\ Len(there) - n \in Nat
  BY <1>3, <1>4, <1>5
<1> HIDE DEF n
<1>7. 1..n \subseteq 1..Len(there)
  BY <1>3, <1>6
<1>8. out \subseteq Files(there)
  BY <1>3, <1>7 DEF Files
<1>9. Cardinality(out) = n
  <2> DEFINE fn == [i \in 1..n |-> there[i]]
  <2>1. fn \in Bijection(1..n, out)
    BY <1>2, <1>7 DEF Distinct, Bijection, Injection, Surjection, IsInjective
  <2>2. IsFiniteSet(1..n) /\ Cardinality(1..n) = IF 1 > n THEN 0 ELSE n - 1 + 1
    BY <1>6, FS_Interval
  <2>3. (IF 1 > n THEN 0 ELSE n - 1 + 1) = n
    BY <1>6
  <2> HIDE DEF fn, out
  <2>4. ExistsBijection(1..n, out)
    BY <2>1 DEF ExistsBijection
  <2> QED
    BY <2>2, <2>3, <2>4, FS_Bijection
<1> HIDE DEF out
<1>10. Cardinality(Files(there) \ out) = Cardinality(Files(there)) - Cardinality(Files(there) \cap out)
  BY <1>3, FS_Difference
<1>11. Files(there) \cap out = out
  BY <1>8
<1> QED
  BY <1>1, <1>2, <1>3, <1>6, <1>8, <1>9, <1>10, <1>11

-----------------------------------------------------------------------------
(* Two shared directories.                                                  *)

\* Why a transfer has what it was told of, or published: it is there, unless
\* another transfer evicted something since.
HasIt(u) ==
    /\ user[u].pc = "failed" => user[u].others
    /\ user[u].pc = "fill" => kind = "upload"
    /\ user[u].pc \in {"index", "pack"} => kind = "send"
    /\ user[u].others
       \/ /\ kind = "upload" /\ user[u].pc \in {"transfer", "fill"} => user[u].told \subseteq Files(shared)
          /\ kind = "send" /\ user[u].pc \in {"transfer", "index", "pack"}
               => Needs[u] \subseteq Files(shared)
          /\ user[u].pc = "index" => Needs[u] \subseteq user[u].told /\ user[u].told \subseteq Files(shared)

\* Who has written or touched and not listed; a failed one never lists.
Unbounded == {u \in Users : user[u].pc \notin {"begin", "evict", "done"}}

\* The directory is under its cap, or somebody has still to list it, or has
\* a listing of all there is and has still to evict.
CapFact(F) ==
    \/ Unbounded # {}
    \/ IsFiniteSet(F) /\ Cardinality(F) <= DirMax
    \/ \E u \in Users : user[u].pc = "evict" /\ F \subseteq Files(user[u].listing)

\* The inductive invariant of the shared directories.
DirInv ==
    /\ shared \in Seq(Objects) /\ Distinct(shared)
    /\ kind \in {"upload", "send"}
    /\ user \in [Users -> UserStates]
    /\ \A u \in Users : Distinct(user[u].listing) /\ HasIt(u)
    /\ CapFact(Files(shared))

\* Files that are written or touched together.
LEMMA PutAllIs ==
    ASSUME NEW S, NEW dir \in Seq(S), Distinct(dir), NEW os, os \subseteq S, IsFiniteSet(os),
           NEW d \in PutAll(dir, os)
    PROVE  d \in Seq(S) /\ Distinct(d) /\ Files(d) = Files(dir) \cup os
<1> DEFINE q == RemoveFiles(dir, os)
           c == Cardinality(os)
<1>1. q \in Seq(S) /\ Distinct(q) /\ Files(q) = Files(dir) \ os
  BY RemoveIs
<1>2. PICK t \in Orders(os) : d = q \o t
  BY DEF PutAll
<1> HIDE DEF q
<1>3. c \in Nat
  BY FS_CardinalityType
<1>4. /\ t \in [1..c -> os]
      /\ \A i, j \in 1..c : t[i] = t[j] => i = j
      /\ \A o \in os : \E i \in 1..c : t[i] = o
  BY DEF Orders
<1> HIDE DEF c
<1>5. t \in Seq(S) /\ Len(t) = c
  BY <1>3, <1>4
<1> DEFINE l == Len(q)
<1>6. l \in Nat /\ DOMAIN q = 1..l
  BY <1>1
<1>7. /\ d \in Seq(S) /\ Len(d) = l + c
      /\ \A i \in 1..l : d[i] = q[i]
      /\ \A i \in 1..c : d[l + i] = t[i]
  <2>1. q \in Seq(S) /\ t \in Seq(S) /\ d = q \o t
    BY <1>1, <1>2, <1>5
  <2> HIDE DEF q
  <2>2. d \in Seq(S) /\ Len(d) = Len(q) + Len(t)
    BY <2>1
  <2>3. \A i \in 1..Len(d) : d[i] = IF i <= Len(q) THEN q[i] ELSE t[i - Len(q)]
    BY <2>1
  <2>4. \A i \in 1..l : i \in 1..Len(d) /\ i <= Len(q)
    BY <1>3, <1>5, <1>6, <2>2
  <2>5. \A i \in 1..c : l + i \in 1..Len(d) /\ ~(l + i <= Len(q)) /\ (l + i) - Len(q) = i
    BY <1>3, <1>5, <1>6, <2>2
  <2> HIDE DEF l
  <2> QED
    BY <1>5, <2>2, <2>3, <2>4, <2>5 DEF l
<1> HIDE DEF l
<1>8. DOMAIN d = 1..(l + c)
  BY <1>7
<1>9. \A i \in 1..(l + c) : i \in 1..l \/ \E j \in 1..c : i = l + j /\ d[i] = t[j]
  <2> SUFFICES ASSUME NEW i \in 1..(l + c), i \notin 1..l
               PROVE  \E j \in 1..c : i = l + j /\ d[i] = t[j]
    OBVIOUS
  <2>1. i - l \in 1..c /\ i = l + (i - l)
    BY <1>3, <1>6
  <2> QED
    BY <1>7, <2>1
<1>10. \A i \in 1..l : q[i] \notin os
  BY <1>1, <1>6 DEF Files
<1>11. Distinct(d)
  <2> SUFFICES ASSUME NEW i \in 1..(l + c), NEW j \in 1..(l + c), d[i] = d[j] PROVE i = j
    BY <1>7 DEF Distinct
  <2>1. CASE i \in 1..l /\ j \in 1..l
    <3>1. q[i] = q[j] /\ i \in 1..Len(q) /\ j \in 1..Len(q)
      BY <1>7, <2>1 DEF l
    <3> QED
      BY <1>1, <3>1 DEF Distinct
  <2>2. CASE i \notin 1..l /\ j \notin 1..l
    BY <1>4, <1>9, <2>2
  <2>3. CASE i \in 1..l /\ j \notin 1..l
    BY <1>4, <1>7, <1>9, <1>10, <2>3
  <2>4. CASE i \notin 1..l /\ j \in 1..l
    BY <1>4, <1>7, <1>9, <1>10, <2>4
  <2> QED
    BY <2>1, <2>2, <2>3, <2>4
<1>12. Files(d) = Files(q) \cup os
  <2>1. Files(d) = {d[i] : i \in 1..(l + c)} /\ Files(q) = {q[i] : i \in 1..l}
    BY <1>6, <1>8 DEF Files
  <2>2. ASSUME NEW x \in Files(d) PROVE x \in Files(q) \cup os
    <3>1. PICK i \in 1..(l + c) : x = d[i]
      BY <2>1
    <3> QED
      BY <1>4, <1>7, <1>9, <2>1, <3>1
  <2>3. ASSUME NEW x \in Files(q) PROVE x \in Files(d)
    <3>1. PICK i \in 1..l : x = q[i]
      BY <2>1
    <3>2. i \in 1..(l + c)
      BY <1>3, <1>6
    <3> QED
      BY <1>7, <2>1, <3>1, <3>2
  <2>4. ASSUME NEW x \in os PROVE x \in Files(d)
    <3>1. PICK i \in 1..c : t[i] = x
      BY <1>4
    <3>2. l + i \in 1..(l + c)
      BY <1>3, <1>6
    <3> QED
      BY <1>7, <2>1, <3>1, <3>2
  <2> QED
    BY <2>2, <2>3, <2>4
<1> QED
  BY <1>1, <1>7, <1>11, <1>12

\* A step of one transfer that removes nothing and has still to list.
LEMMA DirGoesOn ==
    ASSUME DirInv, NEW u \in Users, NEW r \in UserStates, user' = [user EXCEPT ![u] = r],
           UNCHANGED kind, shared' \in Seq(Objects), Distinct(shared'),
           Files(shared) \subseteq Files(shared'), Distinct(r.listing),
           r.pc \notin {"begin", "evict", "done"}, HasIt(u)'
    PROVE  DirInv'
<1>1. /\ user' \in [Users -> UserStates] /\ user'[u] = r
      /\ \A v \in Users : v # u => user'[v] = user[v]
  BY DEF DirInv
<1>2. ASSUME NEW v \in Users PROVE Distinct(user'[v].listing) /\ HasIt(v)'
  <2>1. CASE v = u
    BY <1>1, <2>1
  <2>2. CASE v # u
    <3>1. user'[v] = user[v] /\ Distinct(user[v].listing) /\ HasIt(v)
      BY <1>1, <2>2 DEF DirInv
    <3> QED
      BY <3>1 DEF HasIt
  <2> QED
    BY <2>1, <2>2
<1>3. u \in Unbounded'
  BY <1>1 DEF Unbounded
<1> QED
  BY <1>1, <1>2, <1>3 DEF DirInv, CapFact

\* A transfer goes on to the next of its steps.
LEMMA DirGoes ==
    ASSUME DirInv, NEW u \in Users,
           NEW pc \in {"transfer", "index", "fill", "pack", "touch", "list", "failed"}, Goes(u, pc),
           UNCHANGED kind, shared' \in Seq(Objects), Distinct(shared'),
           Files(shared) \subseteq Files(shared'),
           pc = "failed" => user[u].others,
           pc = "fill" => kind = "upload",
           pc \in {"index", "pack"} => kind = "send",
           \/ user[u].others
           \/ /\ kind = "upload" /\ pc \in {"transfer", "fill"} => user[u].told \subseteq Files(shared')
              /\ kind = "send" /\ pc \in {"transfer", "index", "pack"} => Needs[u] \subseteq Files(shared')
              /\ pc = "index" => Needs[u] \subseteq user[u].told /\ user[u].told \subseteq Files(shared')
    PROVE  DirInv'
<1> DEFINE r == [user[u] EXCEPT !.pc = pc]
<1>1. user[u] \in UserStates /\ Distinct(user[u].listing)
  BY DEF DirInv
<1>2. /\ r \in UserStates /\ r.pc = pc /\ r.told = user[u].told
      /\ r.listing = user[u].listing /\ r.others = user[u].others
  <2>1. pc \in {"begin", "transfer", "index", "fill", "pack", "touch", "list", "evict", "done", "failed"}
    OBVIOUS
  <2> QED
    BY <1>1, <2>1 DEF UserStates
<1>3. user' = [user EXCEPT ![u] = r]
  BY DEF Goes, DirInv
<1> HIDE DEF r
<1>4. user'[u] = r
  BY <1>3 DEF DirInv
<1>5. HasIt(u)'
  BY <1>2, <1>4 DEF HasIt
<1>6. r.pc \notin {"begin", "evict", "done"} /\ Distinct(r.listing)
  BY <1>1, <1>2
<1> QED
  BY <1>2, <1>3, <1>5, <1>6, DirGoesOn

\* What a transfer is about is a finite set of files.
LEMMA NeedsAre ==
    ASSUME NEW u \in Users, NEW os, os \subseteq Needs[u]
    PROVE  os \subseteq Objects /\ IsFiniteSet(os)
BY DirAssumption, FS_Subset

\* The steps of an upload.
LEMMA AskFilesKept ==
    ASSUME DirInv, NEW u \in Users, AskFiles(u) PROVE DirInv'
<1> DEFINE has == Needs[u] \cap Files(shared)
           r == [user[u] EXCEPT !.pc = "transfer", !.told = has]
<1>1. /\ user[u] \in UserStates /\ Distinct(user[u].listing) /\ user[u].pc = "begin"
      /\ kind = "upload" /\ shared \in Seq(Objects) /\ Distinct(shared) /\ UNCHANGED kind
      /\ shared' \in PutAll(shared, has)
  BY DEF DirInv, AskFiles, UserAt
<1>2. has \subseteq Objects /\ IsFiniteSet(has)
  BY NeedsAre
<1>3. /\ r \in UserStates /\ r.pc = "transfer" /\ r.told = has
      /\ r.listing = user[u].listing /\ r.others = user[u].others
  BY <1>1, <1>2 DEF UserStates
<1>4. user' = [user EXCEPT ![u] = r]
  BY DEF AskFiles, DirInv
<1> HIDE DEF r
<1>5. shared' \in Seq(Objects) /\ Distinct(shared') /\ Files(shared') = Files(shared) \cup has
  BY <1>1, <1>2, PutAllIs
<1>6. user'[u] = r
  BY <1>4 DEF DirInv
<1>7. HasIt(u)'
  BY <1>1, <1>3, <1>5, <1>6 DEF HasIt
<1>8. r.pc \notin {"begin", "evict", "done"} /\ Distinct(r.listing)
  BY <1>1, <1>3
<1> QED
  BY <1>1, <1>3, <1>4, <1>5, <1>7, <1>8, DirGoesOn

\* Files that came are there for the next step.
LEMMA ExtractKept ==
    ASSUME DirInv, NEW u \in Users, Extract(u) PROVE DirInv'
<1> DEFINE os == Needs[u] \ user[u].told
<1>1. /\ user[u] \in UserStates /\ user[u].pc = "transfer" /\ HasIt(u)
      /\ kind = "upload" /\ shared \in Seq(Objects) /\ Distinct(shared) /\ UNCHANGED kind
      /\ shared' \in PutAll(shared, os) /\ Goes(u, "fill")
  BY DEF DirInv, Extract, UserAt
<1>2. os \subseteq Objects /\ IsFiniteSet(os)
  BY NeedsAre
<1>3. shared' \in Seq(Objects) /\ Distinct(shared') /\ Files(shared') = Files(shared) \cup os
  BY <1>1, <1>2, PutAllIs
<1>4. user[u].others \/ user[u].told \subseteq Files(shared')
  BY <1>1, <1>3 DEF HasIt
<1>5. Files(shared) \subseteq Files(shared')
  BY <1>3
<1> HIDE DEF os
<1> QED
  BY <1>1, <1>3, <1>4, <1>5, DirGoes

\* A file that is gone was evicted by another.
LEMMA FillKept ==
    ASSUME DirInv, NEW u \in Users, Fill(u) PROVE DirInv'
<1>1. /\ user[u] \in UserStates /\ user[u].pc = "fill" /\ HasIt(u)
      /\ kind = "upload" /\ shared \in Seq(Objects) /\ Distinct(shared) /\ UNCHANGED kind
  BY DEF DirInv, Fill, UserAt
<1>2. CASE user[u].told \subseteq Files(shared)
  <2>1. shared' \in PutAll(shared, user[u].told) /\ Goes(u, "list")
    BY <1>2 DEF Fill
  <2>2. user[u].told \subseteq Objects /\ IsFiniteSet(user[u].told)
    BY <1>1, <1>2, DistinctIs, FS_Subset
  <2>3. shared' \in Seq(Objects) /\ Distinct(shared') /\ Files(shared') = Files(shared) \cup user[u].told
    BY <1>1, <2>1, <2>2, PutAllIs
  <2>4. Files(shared) \subseteq Files(shared')
    BY <2>3
  <2> QED
    BY <1>1, <2>1, <2>3, <2>4, DirGoes
<1>3. CASE ~(user[u].told \subseteq Files(shared))
  <2>1. shared' = shared /\ Goes(u, "failed")
    BY <1>3 DEF Fill
  <2>2. user[u].others
    BY <1>1, <1>3 DEF HasIt
  <2>3. shared' \in Seq(Objects) /\ Distinct(shared') /\ Files(shared) \subseteq Files(shared')
    BY <1>1, <2>1
  <2> QED
    BY <1>1, <2>1, <2>2, <2>3, DirGoes
<1> QED
  BY <1>2, <1>3

\* The steps of a send.
LEMMA PublishKept ==
    ASSUME DirInv, NEW u \in Users, Publish(u) PROVE DirInv'
<1> DEFINE os == Needs[u] \ Files(shared)
<1>1. /\ user[u] \in UserStates
      /\ kind = "send" /\ shared \in Seq(Objects) /\ Distinct(shared) /\ UNCHANGED kind
      /\ shared' \in PutAll(shared, os) /\ Goes(u, "transfer")
  BY DEF DirInv, Publish, UserAt
<1>2. os \subseteq Objects /\ IsFiniteSet(os)
  BY NeedsAre
<1>3. shared' \in Seq(Objects) /\ Distinct(shared') /\ Files(shared') = Files(shared) \cup os
  BY <1>1, <1>2, PutAllIs
<1>4. Files(shared) \subseteq Files(shared') /\ Needs[u] \subseteq Files(shared')
  BY <1>3
<1> HIDE DEF os
<1> QED
  BY <1>1, <1>3, <1>4, DirGoes

\* What is listed is there when it is listed.
LEMMA ReadDirKept ==
    ASSUME DirInv, NEW u \in Users, ReadDir(u) PROVE DirInv'
<1> DEFINE r == [user[u] EXCEPT !.pc = "index", !.told = Files(shared)]
<1>1. /\ user[u] \in UserStates /\ Distinct(user[u].listing) /\ user[u].pc = "transfer" /\ HasIt(u)
      /\ kind = "send" /\ shared \in Seq(Objects) /\ Distinct(shared) /\ UNCHANGED <<shared, kind>>
  BY DEF DirInv, ReadDir, UserAt
<1>2. Files(shared) \subseteq Objects
  BY <1>1, DistinctIs
<1>3. /\ r \in UserStates /\ r.pc = "index" /\ r.told = Files(shared)
      /\ r.listing = user[u].listing /\ r.others = user[u].others
  BY <1>1, <1>2 DEF UserStates
<1>4. user' = [user EXCEPT ![u] = r]
  BY DEF ReadDir, DirInv
<1> HIDE DEF r
<1>5. user'[u] = r
  BY <1>4 DEF DirInv
<1>6. HasIt(u)'
  BY <1>1, <1>3, <1>5 DEF HasIt
<1>7. r.pc \notin {"begin", "evict", "done"} /\ Distinct(r.listing)
  BY <1>1, <1>3
<1>8. shared' \in Seq(Objects) /\ Distinct(shared') /\ Files(shared) \subseteq Files(shared')
  BY <1>1
<1> QED
  BY <1>1, <1>3, <1>4, <1>6, <1>7, <1>8, DirGoesOn

\* A narinfo that is gone was evicted by another.
LEMMA IndexKept ==
    ASSUME DirInv, NEW u \in Users, Index(u) PROVE DirInv'
<1>1. /\ user[u] \in UserStates /\ user[u].pc = "index" /\ HasIt(u)
      /\ kind = "send" /\ shared \in Seq(Objects) /\ Distinct(shared) /\ UNCHANGED <<shared, kind>>
  BY DEF DirInv, Index, UserAt
<1>2. shared' \in Seq(Objects) /\ Distinct(shared') /\ Files(shared) \subseteq Files(shared') /\ UNCHANGED kind
  BY <1>1
<1>3. CASE user[u].told \subseteq Files(shared) /\ Needs[u] \subseteq user[u].told
  <2>1. Goes(u, "pack") /\ Needs[u] \subseteq Files(shared')
    BY <1>1, <1>3 DEF Index
  <2> QED
    BY <1>1, <1>2, <2>1, DirGoes
<1>4. CASE ~(user[u].told \subseteq Files(shared) /\ Needs[u] \subseteq user[u].told)
  <2>1. Goes(u, "failed") /\ user[u].others
    BY <1>1, <1>4 DEF Index, HasIt
  <2> QED
    BY <1>1, <1>2, <2>1, DirGoes
<1> QED
  BY <1>3, <1>4

\* So was an archive that is gone.
LEMMA PackPathsKept ==
    ASSUME DirInv, NEW u \in Users, PackPaths(u) PROVE DirInv'
<1>1. /\ user[u] \in UserStates /\ user[u].pc = "pack" /\ HasIt(u)
      /\ kind = "send" /\ shared \in Seq(Objects) /\ Distinct(shared) /\ UNCHANGED <<shared, kind>>
  BY DEF DirInv, PackPaths, UserAt
<1>2. shared' \in Seq(Objects) /\ Distinct(shared') /\ Files(shared) \subseteq Files(shared') /\ UNCHANGED kind
  BY <1>1
<1>3. CASE Needs[u] \subseteq Files(shared)
  <2>1. Goes(u, "touch")
    BY <1>3 DEF PackPaths
  <2> QED
    BY <1>1, <1>2, <2>1, DirGoes
<1>4. CASE ~(Needs[u] \subseteq Files(shared))
  <2>1. Goes(u, "failed") /\ user[u].others
    BY <1>1, <1>4 DEF PackPaths, HasIt
  <2> QED
    BY <1>1, <1>2, <2>1, DirGoes
<1> QED
  BY <1>3, <1>4

\* What is touched is there.
LEMMA TouchKept ==
    ASSUME DirInv, NEW u \in Users, Touch(u) PROVE DirInv'
<1> DEFINE os == Needs[u] \cap Files(shared)
<1>1. /\ user[u] \in UserStates
      /\ shared \in Seq(Objects) /\ Distinct(shared) /\ UNCHANGED kind
      /\ shared' \in PutAll(shared, os) /\ Goes(u, "list")
  BY DEF DirInv, Touch, UserAt
<1>2. os \subseteq Objects /\ IsFiniteSet(os)
  BY NeedsAre
<1>3. shared' \in Seq(Objects) /\ Distinct(shared') /\ Files(shared') = Files(shared) \cup os
  BY <1>1, <1>2, PutAllIs
<1>4. Files(shared) \subseteq Files(shared')
  BY <1>3
<1> HIDE DEF os
<1> QED
  BY <1>1, <1>3, <1>4, DirGoes

\* pruneCAS and Prune.
LEMMA ListDirKept ==
    ASSUME DirInv, NEW u \in Users, ListDir(u) PROVE DirInv'
<1> DEFINE r == [user[u] EXCEPT !.pc = "evict", !.listing = shared]
<1>1. /\ user[u] \in UserStates /\ user[u].pc = "list"
      /\ shared \in Seq(Objects) /\ Distinct(shared) /\ UNCHANGED <<shared, kind>>
  BY DEF DirInv, ListDir, UserAt
<1>2. r \in UserStates /\ r.pc = "evict" /\ r.listing = shared
  BY <1>1 DEF UserStates
<1>3. user' = [user EXCEPT ![u] = r]
  BY DEF ListDir, DirInv
<1> HIDE DEF r
<1>4. /\ user' \in [Users -> UserStates] /\ user'[u] = r
      /\ \A v \in Users : v # u => user'[v] = user[v]
  BY <1>2, <1>3 DEF DirInv
<1>5. ASSUME NEW v \in Users PROVE Distinct(user'[v].listing) /\ HasIt(v)'
  <2>1. CASE v = u
    BY <1>1, <1>2, <1>4, <2>1 DEF HasIt
  <2>2. CASE v # u
    <3>1. user'[v] = user[v] /\ Distinct(user[v].listing) /\ HasIt(v)
      BY <1>4, <2>2 DEF DirInv
    <3> QED
      BY <1>1, <3>1 DEF HasIt
  <2> QED
    BY <2>1, <2>2
<1>6. CapFact(Files(shared))'
  BY <1>1, <1>2, <1>4 DEF CapFact
<1> QED
  BY <1>1, <1>4, <1>5, <1>6 DEF DirInv

\* Whoever evicts leaves the cap, or what another has listed; the others know.
LEMMA EvictDirKept ==
    ASSUME DirInv, NEW u \in Users, EvictDir(u) PROVE DirInv'
<1> DEFINE out == Evicted(user[u].listing, shared, DirMax)
           mine == [user[u] EXCEPT !.pc = "done", !.listing = <<>>]
           beside(v) == [user[v] EXCEPT !.others = user[v].others \/ (user[v].pc # "begin" /\ out # {})]
<1>1. /\ user \in [Users -> UserStates] /\ user[u].pc = "evict" /\ Distinct(user[u].listing)
      /\ shared \in Seq(Objects) /\ Distinct(shared) /\ UNCHANGED kind
      /\ shared' = RemoveFiles(shared, out)
      /\ user' = [v \in Users |-> IF v = u THEN mine ELSE beside(v)]
      /\ \A v \in Users : user[v] \in UserStates
  BY DEF DirInv, EvictDir, UserAt
<1>2. user[u].listing \in Seq(Objects) /\ DirMax \in Nat
  BY <1>1, DirAssumption DEF UserStates
<1>3. /\ out \subseteq Files(user[u].listing) \cap Files(shared)
      /\ IsFiniteSet(Files(user[u].listing) \cap Files(shared))
      /\ Cardinality((Files(user[u].listing) \cap Files(shared)) \ out) <= DirMax
  BY <1>1, <1>2, EvictedIs
<1>4. shared' \in Seq(Objects) /\ Distinct(shared') /\ Files(shared') = Files(shared) \ out
  BY <1>1, RemoveIs
<1>5. mine \in UserStates /\ mine.pc = "done" /\ mine.listing = <<>>
  <2>1. <<>> \in Seq(Objects)
    OBVIOUS
  <2>2. user[u] \in UserStates
    BY <1>1
  <2> QED
    BY <2>1, <2>2 DEF UserStates
<1>6. ASSUME NEW v \in Users
      PROVE  /\ beside(v) \in UserStates /\ beside(v).pc = user[v].pc
             /\ beside(v).told = user[v].told /\ beside(v).listing = user[v].listing
             /\ beside(v).others <=> user[v].others \/ (user[v].pc # "begin" /\ out # {})
  <2> DEFINE t == user[v].others \/ (user[v].pc # "begin" /\ out # {})
  <2>1. user[v] \in UserStates /\ t \in BOOLEAN
    BY <1>1
  <2> HIDE DEF t
  <2>2. /\ [user[v] EXCEPT !.others = t] \in UserStates
        /\ [user[v] EXCEPT !.others = t].pc = user[v].pc
        /\ [user[v] EXCEPT !.others = t].told = user[v].told
        /\ [user[v] EXCEPT !.others = t].listing = user[v].listing
        /\ [user[v] EXCEPT !.others = t].others = t
    BY <2>1 DEF UserStates
  <2> QED
    BY <2>2 DEF t
<1> HIDE DEF mine, beside, out
<1>7. user' \in [Users -> UserStates]
  BY <1>1, <1>5, <1>6
<1>8. user'[u] = mine /\ \A v \in Users : v # u => user'[v] = beside(v)
  BY <1>1
<1>9. ASSUME NEW v \in Users PROVE Distinct(user'[v].listing) /\ HasIt(v)'
  <2>1. CASE v = u
    <3>1. Len(<<>>) = 0 /\ Distinct(<<>>)
      BY DEF Distinct
    <3> QED
      BY <1>5, <1>8, <2>1, <3>1 DEF HasIt
  <2>2. CASE v # u
    <3>1. Distinct(user[v].listing) /\ HasIt(v)
      BY DEF DirInv
    <3>2. /\ user'[v].pc = user[v].pc /\ user'[v].told = user[v].told
          /\ user'[v].listing = user[v].listing
          /\ user'[v].others <=> user[v].others \/ (user[v].pc # "begin" /\ out # {})
      BY <1>6, <1>8, <2>2
    <3>3. CASE user[v].pc = "begin"
      BY <3>1, <3>2, <3>3 DEF HasIt
    <3>4. CASE user[v].pc # "begin" /\ out # {}
      BY <1>1, <3>1, <3>2, <3>4 DEF HasIt
    <3>5. CASE out = {}
      <4>1. Files(shared') = Files(shared)
        BY <1>4, <3>5
      <4> QED
        BY <1>1, <3>1, <3>2, <4>1 DEF HasIt
    <3> QED
      BY <3>3, <3>4, <3>5
  <2> QED
    BY <2>1, <2>2
<1>10. CapFact(Files(shared))'
  <2>1. CapFact(Files(shared))
    BY DEF DirInv
  <2>2. CASE Unbounded # {}
    <3>1. PICK v \in Users : user[v].pc \notin {"begin", "evict", "done"}
      BY <2>2 DEF Unbounded
    <3>2. v # u /\ user'[v].pc = user[v].pc
      BY <1>1, <1>6, <1>8, <3>1
    <3> QED
      BY <3>1, <3>2 DEF CapFact, Unbounded
  <2>3. CASE IsFiniteSet(Files(shared)) /\ Cardinality(Files(shared)) <= DirMax
    <3>1. Files(shared') \in SUBSET Files(shared)
      BY <1>4
    <3>2. IsFiniteSet(Files(shared')) /\ Cardinality(Files(shared')) <= Cardinality(Files(shared))
      BY <2>3, <3>1, FS_Subset
    <3>3. Cardinality(Files(shared)) \in Nat /\ Cardinality(Files(shared')) \in Nat
      BY <2>3, <3>2, FS_CardinalityType
    <3>4. Cardinality(Files(shared')) <= DirMax
      BY <1>2, <2>3, <3>2, <3>3
    <3> QED
      BY <3>2, <3>4 DEF CapFact
  <2>4. CASE Files(shared) \subseteq Files(user[u].listing)
    <3>1. Files(shared') = (Files(user[u].listing) \cap Files(shared)) \ out
      BY <1>4, <2>4
    <3>2. IsFiniteSet(Files(shared'))
      BY <1>3, <3>1, FS_Subset
    <3> QED
      BY <1>3, <3>1, <3>2 DEF CapFact
  <2>5. CASE \E v \in Users : v # u /\ user[v].pc = "evict" /\ Files(shared) \subseteq Files(user[v].listing)
    <3>1. PICK v \in Users : v # u /\ user[v].pc = "evict" /\ Files(shared) \subseteq Files(user[v].listing)
      BY <2>5
    <3>2. /\ user'[v].pc = "evict" /\ user'[v].listing = user[v].listing
          /\ Files(shared') \subseteq Files(user'[v].listing)
      BY <1>4, <1>6, <1>8, <3>1
    <3> QED
      BY <3>2 DEF CapFact
  <2> QED
    BY <2>1, <2>2, <2>3, <2>4, <2>5 DEF CapFact
<1> QED
  BY <1>1, <1>4, <1>7, <1>9, <1>10 DEF DirInv

\* Every step keeps the invariant.
LEMMA DirStep == DirInv /\ [DirNext]_dirVars => DirInv'
<1> SUFFICES ASSUME DirInv, [DirNext]_dirVars PROVE DirInv'
  OBVIOUS
<1>1. ASSUME NEW u \in Users, AskFiles(u) \/ Extract(u) \/ Fill(u) PROVE DirInv'
  BY <1>1, AskFilesKept, ExtractKept, FillKept
<1>2. ASSUME NEW u \in Users, Publish(u) \/ ReadDir(u) \/ Index(u) \/ PackPaths(u) \/ Touch(u)
      PROVE  DirInv'
  BY <1>2, PublishKept, ReadDirKept, IndexKept, PackPathsKept, TouchKept
<1>3. ASSUME NEW u \in Users, ListDir(u) \/ EvictDir(u) PROVE DirInv'
  BY <1>3, ListDirKept, EvictDirKept
<1>4. CASE UNCHANGED dirVars
  BY <1>4 DEF dirVars, DirInv, HasIt, CapFact, Unbounded
<1> QED
  BY <1>1, <1>2, <1>3, <1>4 DEF DirNext, DirOver

\* Before the first transfer.
LEMMA DirStart == DirInit => DirInv
<1> SUFFICES ASSUME DirInit PROVE DirInv
  OBVIOUS
<1>1. <<>> \in Seq(Objects) /\ Len(<<>>) = 0 /\ Files(<<>>) = {}
  BY DEF Files
<1>2. Distinct(<<>>)
  BY <1>1 DEF Distinct
<1>3. IsFiniteSet({}) /\ Cardinality({}) = 0 /\ DirMax \in Nat
  BY FS_EmptySet, DirAssumption
<1>4. \A u \in Users : user[u].pc = "begin" /\ user[u].listing = <<>> /\ user[u].told = {}
  BY DEF DirInit
<1>5. user \in [Users -> UserStates]
  BY <1>1 DEF DirInit, UserStates
<1>6. CapFact(Files(shared))
  <2>1. Files(shared) = {}
    BY <1>1 DEF DirInit
  <2>2. 0 <= DirMax
    BY <1>3
  <2> QED
    BY <1>3, <2>1, <2>2 DEF CapFact
<1> QED
  BY <1>1, <1>2, <1>4, <1>5, <1>6 DEF DirInit, DirInv, HasIt

\* The invariant says what transfers lose and how large the directory is.
LEMMA DirHeld == DirInv => LostToAnother
<1> SUFFICES ASSUME DirInv PROVE LostToAnother
  OBVIOUS
<1>1. /\ Files(shared) \subseteq Objects /\ IsFiniteSet(Files(shared))
      /\ Cardinality(Files(shared)) = Len(shared) /\ Len(shared) \in Nat
  BY DistinctIs DEF DirInv
<1>2. DirTypeOK
  BY <1>1 DEF DirInv, DirTypeOK
<1>3. \A u \in Users : user[u].pc = "failed" => user[u].others
  BY DEF DirInv, HasIt
<1>4. ASSUME \A u \in Users : user[u].pc \in {"begin", "done"} PROVE Len(shared) <= DirMax
  <2>1. Unbounded = {} /\ \A u \in Users : user[u].pc # "evict"
    BY <1>4 DEF Unbounded
  <2> QED
    BY <1>1, <2>1 DEF DirInv, CapFact
<1> QED
  BY <1>2, <1>3, <1>4 DEF LostToAnother

-----------------------------------------------------------------------------
(* The archives of closures.                                                *)

StorerRec ==
    [pc: {"begin", "export", "create", "copy", "list", "evict", "over"}, key: Closures, listing: Seq(Names)]

\* An archive that is not written to its end is being written by the call that
\* created it, unless the daemon was killed.
TornFact ==
    narCrashed \/ \A k \in torn : \E s \in Storers :
        storer[s].pc = "copy" /\ storer[s].key = k /\ creator[k] = {s}

\* What calls have put and will bound or take away.
Pending ==
    {Archive(storer[s].key) : s \in {t \in Storers : storer[t].pc = "copy"}}
    \cup {Export(s) : s \in {t \in Storers : storer[t].pc \in {"export", "create", "copy"}}}

\* But for that the directory is under its cap, or somebody has still to list
\* it, or has a listing of all there is and has still to evict.
NarCapFact(calls, F) ==
    \/ \E s \in Storers : calls[s].pc = "list"
    \/ IsFiniteSet(F) /\ Cardinality(F) <= NarMax
    \/ \E s \in Storers : calls[s].pc = "evict" /\ F \subseteq Files(calls[s].listing)

NarTypes ==
    /\ narDir \in Seq(Names) /\ Distinct(narDir)
    /\ torn \subseteq Closures /\ byID \subseteq Closures /\ indexFile \subseteq Closures
    /\ creator \in [Closures -> SUBSET Storers]
    /\ storer \in [Storers -> StorerRec] /\ \A s \in Storers : Distinct(storer[s].listing)
    /\ narCrashed \in BOOLEAN

\* A call that has not begun has exported nothing.
NotExported == \A s \in Storers : storer[s].pc = "begin" => Export(s) \notin Files(narDir)

\* The inductive invariant of the archives.
NarInv == NarTypes /\ NotExported /\ TornFact /\ NarCapFact(storer, Files(narDir) \ Pending)

\* Archives and exports are told apart by their names.
LEMMA NamesAre ==
    /\ \A k \in Closures : Archive(k) \in Names
    /\ \A s \in Exports : Export(s) \in Names
    /\ \A k, s : Archive(k) # Export(s)
    /\ \A k, q : Archive(k) = Archive(q) => k = q
    /\ \A s, t : Export(s) = Export(t) => s = t
<1>1. \A k, s : Archive(k) # Export(s)
  <2> SUFFICES ASSUME NEW k, NEW s, Archive(k) = Export(s) PROVE FALSE
    OBVIOUS
  <2>1. DOMAIN Archive(k) = {"archive"} /\ DOMAIN Export(s) = {"export"}
    BY DEF Archive, Export
  <2>2. "archive" # "export"
    OBVIOUS
  <2> QED
    BY <2>1, <2>2
<1>2. \A k : Archive(k).archive = k
  BY DEF Archive
<1>3. \A s : Export(s).export = s
  BY DEF Export
<1>4. (\A k \in Closures : Archive(k) \in Names) /\ \A s \in Exports : Export(s) \in Names
  BY DEF Names
<1> QED
  BY <1>1, <1>2, <1>3, <1>4

\* One call goes on, the others stay.
OnlyStorer(s, pc) ==
    /\ storer' \in [Storers -> StorerRec]
    /\ \A t \in Storers : Distinct(storer'[t].listing)
    /\ storer'[s].pc = pc /\ storer'[s].key = storer[s].key
    /\ \A t \in Storers : t # s => storer'[t] = storer[t]

\* A call that goes on changes nothing else.
LEMMA StorerGoes ==
    ASSUME NarTypes, NEW s \in Storers,
           NEW pc \in {"begin", "export", "create", "copy", "list", "evict", "over"}, StorerAt(s, pc)
    PROVE  OnlyStorer(s, pc)
<1> DEFINE r == [storer[s] EXCEPT !.pc = pc]
<1>1. storer[s] \in StorerRec /\ Distinct(storer[s].listing) /\ storer \in [Storers -> StorerRec]
  BY DEF NarTypes
<1>2. r \in StorerRec /\ r.pc = pc /\ r.key = storer[s].key /\ r.listing = storer[s].listing
  BY <1>1 DEF StorerRec
<1>3. storer' = [storer EXCEPT ![s] = r]
  BY <1>1 DEF StorerAt
<1> HIDE DEF r
<1>4. /\ storer' \in [Storers -> StorerRec] /\ storer'[s] = r
      /\ \A t \in Storers : t # s => storer'[t] = storer[t]
  BY <1>1, <1>2, <1>3
<1>5. \A t \in Storers : Distinct(storer'[t].listing)
  BY <1>1, <1>2, <1>4 DEF NarTypes
<1> QED
  BY <1>2, <1>4, <1>5 DEF OnlyStorer

\* An archive that another call is writing is still being written.
LEMMA TornStays ==
    ASSUME TornFact, NEW s \in Storers, NEW pc, OnlyStorer(s, pc), narCrashed' = narCrashed,
           storer[s].pc = "copy" => (creator[storer[s].key] = {s} => storer[s].key \notin torn'),
           \A k \in torn' : \/ k \in torn /\ creator'[k] = creator[k]
                            \/ pc = "copy" /\ k = storer[s].key /\ creator'[k] = {s}
    PROVE  TornFact'
<1> SUFFICES ASSUME ~narCrashed, NEW k \in torn'
             PROVE  \E t \in Storers : storer'[t].pc = "copy" /\ storer'[t].key = k /\ creator'[k] = {t}
  BY DEF TornFact
<1>1. CASE k \in torn /\ creator'[k] = creator[k]
  <2>1. PICK t \in Storers : storer[t].pc = "copy" /\ storer[t].key = k /\ creator[k] = {t}
    BY <1>1 DEF TornFact
  <2>2. t # s
    BY <2>1
  <2> QED
    BY <1>1, <2>1, <2>2 DEF OnlyStorer
<1>2. CASE pc = "copy" /\ k = storer[s].key /\ creator'[k] = {s}
  BY <1>2 DEF OnlyStorer
<1> QED
  BY <1>1, <1>2

\* What is pending changes by what one call has put.
LEMMA PendingIs ==
    ASSUME NEW s \in Storers, NEW pc, OnlyStorer(s, pc)
    PROVE  /\ Pending \subseteq Pending' \cup {Archive(storer[s].key), Export(s)}
           /\ storer[s].pc # "copy" => Pending \subseteq Pending' \cup {Export(s)}
           /\ storer[s].pc \notin {"export", "create", "copy"} => Pending \subseteq Pending'
           /\ pc = "copy" => {Archive(storer[s].key), Export(s)} \subseteq Pending'
           /\ pc \in {"export", "create"} => Export(s) \in Pending'
<1>1. ASSUME NEW x \in Pending
      PROVE  \/ x \in Pending'
             \/ x = Archive(storer[s].key) /\ storer[s].pc = "copy"
             \/ x = Export(s) /\ storer[s].pc \in {"export", "create", "copy"}
  <2>1. CASE \E t \in Storers : storer[t].pc = "copy" /\ x = Archive(storer[t].key)
    BY <2>1 DEF OnlyStorer, Pending
  <2>2. CASE \E t \in Storers : storer[t].pc \in {"export", "create", "copy"} /\ x = Export(t)
    BY <2>2 DEF OnlyStorer, Pending
  <2> QED
    BY <2>1, <2>2 DEF Pending
<1>2. pc = "copy" => {Archive(storer[s].key), Export(s)} \subseteq Pending'
  BY DEF OnlyStorer, Pending
<1>3. pc \in {"export", "create"} => Export(s) \in Pending'
  BY DEF OnlyStorer, Pending
<1> QED
  BY <1>1, <1>2, <1>3

\* Fewer files are as bounded.
LEMMA NarCapLess ==
    ASSUME NEW F, NEW G, G \subseteq F, IsFiniteSet(F), Cardinality(F) <= NarMax
    PROVE  IsFiniteSet(G) /\ Cardinality(G) <= NarMax
<1>1. IsFiniteSet(G) /\ Cardinality(G) <= Cardinality(F)
  BY FS_Subset
<1>2. Cardinality(F) \in Nat /\ Cardinality(G) \in Nat /\ NarMax \in Nat
  BY <1>1, FS_CardinalityType, NarAssumption
<1> QED
  BY <1>1, <1>2

\* A call that neither lists nor evicts leaves the bound as it is.
LEMMA NarCapStays ==
    ASSUME NEW F, NarCapFact(storer, F), NEW G, G \subseteq F,
           NEW s \in Storers, NEW pc, OnlyStorer(s, pc), storer[s].pc \notin {"list", "evict"}
    PROVE  NarCapFact(storer', G)
<1>1. CASE \E t \in Storers : storer[t].pc = "list"
  BY <1>1 DEF OnlyStorer, NarCapFact
<1>2. CASE IsFiniteSet(F) /\ Cardinality(F) <= NarMax
  BY <1>2, NarCapLess DEF NarCapFact
<1>3. CASE \E t \in Storers : storer[t].pc = "evict" /\ F \subseteq Files(storer[t].listing)
  <2>1. PICK t \in Storers : storer[t].pc = "evict" /\ F \subseteq Files(storer[t].listing)
    BY <1>3
  <2>2. storer'[t] = storer[t]
    BY <2>1 DEF OnlyStorer
  <2> QED
    BY <2>1, <2>2 DEF NarCapFact
<1> QED
  BY <1>1, <1>2, <1>3 DEF NarCapFact

\* A call that goes on without listing or evicting keeps the invariant, if it
\* takes nothing for written that is not, and leaves only what is pending.
LEMMA NarGoesOn ==
    ASSUME NarInv, NEW s \in Storers,
           NEW pc \in {"export", "create", "copy", "list", "over"}, StorerAt(s, pc),
           storer[s].pc \in {"begin", "export", "create", "copy"}, narCrashed' = narCrashed,
           narDir' \in Seq(Names), Distinct(narDir'), torn' \subseteq Closures,
           byID' \subseteq Closures, indexFile' \subseteq Closures,
           creator' \in [Closures -> SUBSET Storers],
           storer[s].pc = "copy" => (creator[storer[s].key] = {s} => storer[s].key \notin torn'),
           \A k \in torn' : \/ k \in torn /\ creator'[k] = creator[k]
                            \/ pc = "copy" /\ k = storer[s].key /\ creator'[k] = {s},
           \A t \in Storers : t # s /\ Export(t) \in Files(narDir') => Export(t) \in Files(narDir),
           pc = "list" \/ Files(narDir') \ Pending' \subseteq Files(narDir) \ Pending
    PROVE  NarInv'
<1>1. OnlyStorer(s, pc)
  BY StorerGoes DEF NarInv
<1>2. NarTypes'
  BY <1>1 DEF NarInv, NarTypes, OnlyStorer
<1>3. NotExported'
  BY <1>1 DEF NarInv, NotExported, OnlyStorer
<1>4. TornFact'
  BY <1>1, TornStays DEF NarInv
<1>5. NarCapFact(storer', Files(narDir') \ Pending')
  <2>1. CASE pc = "list"
    BY <1>1, <2>1 DEF NarCapFact, OnlyStorer
  <2>2. CASE Files(narDir') \ Pending' \subseteq Files(narDir) \ Pending
    <3>1. NarCapFact(storer, Files(narDir) \ Pending) /\ storer[s].pc \notin {"list", "evict"}
      BY DEF NarInv
    <3> QED
      BY <1>1, <2>2, <3>1, NarCapStays
  <2> QED
    BY <2>1, <2>2
<1> QED
  BY <1>2, <1>3, <1>4, <1>5 DEF NarInv

\* What a call is about is named.
LEMMA StorerIs ==
    ASSUME NarTypes, NEW s \in Storers
    PROVE  /\ storer[s].key \in Closures /\ Archive(storer[s].key) \in Names
           /\ storer[s].pc \in {"begin", "export", "create", "copy", "list", "evict", "over"}
           /\ storer[s].listing \in Seq(Names) /\ Distinct(storer[s].listing)
<1>1. storer[s] \in StorerRec /\ Distinct(storer[s].listing)
  BY DEF NarTypes
<1>2. storer[s].key \in Closures
  BY <1>1 DEF StorerRec
<1> QED
  BY <1>1, <1>2, NamesAre DEF StorerRec

\* narFileFor.
LEMMA HitKept ==
    ASSUME NarInv, NEW s \in Storers, Hit(s) PROVE NarInv'
<1> DEFINE x == Archive(storer[s].key)
           e == Export(s)
           left == RemoveFile(narDir, e)
<1>1. /\ storer[s].pc \in {"begin", "export"} /\ x \in Files(narDir) /\ narDir' = Used(left, x)
      /\ StorerAt(s, "over") /\ UNCHANGED <<torn, creator, byID, indexFile, narCrashed>>
  BY DEF Hit, There
<1>2. narDir \in Seq(Names) /\ Distinct(narDir) /\ x \in Names
  BY StorerIs DEF NarInv, NarTypes
<1>3. left \in Seq(Names) /\ Distinct(left) /\ Files(left) = Files(narDir) \ {e}
  BY <1>2, RemoveIs DEF RemoveFile
<1> HIDE DEF left
<1>4. narDir' \in Seq(Names) /\ Distinct(narDir') /\ Files(narDir') = Files(left) \cup {x}
  BY <1>1, <1>2, <1>3, UsedIs
<1>5. Files(narDir') = Files(narDir) \ {e}
  BY <1>1, <1>3, <1>4, NamesAre
<1>6. OnlyStorer(s, "over")
  BY <1>1, StorerGoes DEF NarInv
<1>7. Files(narDir') \ Pending' \subseteq Files(narDir) \ Pending
  <2>1. Pending \subseteq Pending' \cup {e}
    BY <1>1, <1>6, PendingIs
  <2> QED
    BY <1>5, <2>1
<1>8. /\ torn' \subseteq Closures /\ byID' \subseteq Closures /\ indexFile' \subseteq Closures
      /\ creator' \in [Closures -> SUBSET Storers] /\ narCrashed' = narCrashed
      /\ \A k \in torn' : k \in torn /\ creator'[k] = creator[k]
  BY <1>1 DEF NarInv, NarTypes
<1> QED
  BY <1>1, <1>4, <1>5, <1>7, <1>8, NarGoesOn

\* What is not there is about to be created.
LEMMA MissKept ==
    ASSUME NarInv, NEW s \in Storers, Miss(s) PROVE NarInv'
<1>1. /\ storer[s].pc \in {"begin", "export"} /\ StorerAt(s, "create") /\ byID' = byID \ {storer[s].key}
      /\ UNCHANGED <<narDir, torn, creator, indexFile, narCrashed>>
  BY DEF Miss
<1>2. OnlyStorer(s, "create")
  BY <1>1, StorerGoes DEF NarInv
<1>3. Files(narDir') \ Pending' \subseteq Files(narDir) \ Pending
  <2>1. Pending \subseteq Pending' \cup {Export(s)} /\ Export(s) \in Pending'
    BY <1>1, <1>2, PendingIs
  <2> QED
    BY <1>1, <2>1
<1>4. /\ narDir' \in Seq(Names) /\ Distinct(narDir')
      /\ torn' \subseteq Closures /\ byID' \subseteq Closures /\ indexFile' \subseteq Closures
      /\ creator' \in [Closures -> SUBSET Storers] /\ narCrashed' = narCrashed
      /\ \A k \in torn' : k \in torn /\ creator'[k] = creator[k]
  BY <1>1 DEF NarInv, NarTypes
<1> QED
  BY <1>1, <1>3, <1>4, NarGoesOn

\* An export that begins is pending.
LEMMA MakeExportKept ==
    ASSUME NarInv, NEW s \in Storers, MakeExport(s) PROVE NarInv'
<1>1. /\ storer[s].pc = "begin" /\ s \in Exports /\ byID' = byID \ {storer[s].key}
      /\ UNCHANGED <<torn, creator, indexFile, narCrashed>>
      /\ \/ narDir' = Append(narDir, Export(s)) /\ StorerAt(s, "export")
         \/ UNCHANGED narDir /\ StorerAt(s, "over")
  BY DEF MakeExport
<1>2. narDir \in Seq(Names) /\ Distinct(narDir) /\ Export(s) \notin Files(narDir)
  BY <1>1 DEF NarInv, NarTypes, NotExported
<1>3. /\ torn' \subseteq Closures /\ byID' \subseteq Closures /\ indexFile' \subseteq Closures
      /\ creator' \in [Closures -> SUBSET Storers] /\ narCrashed' = narCrashed
      /\ \A k \in torn' : k \in torn /\ creator'[k] = creator[k]
  BY <1>1 DEF NarInv, NarTypes
<1>4. CASE UNCHANGED narDir /\ StorerAt(s, "over")
  <2>1. OnlyStorer(s, "over")
    BY <1>4, StorerGoes DEF NarInv
  <2>2. Files(narDir') \ Pending' \subseteq Files(narDir) \ Pending
    BY <1>1, <1>4, <2>1, PendingIs
  <2>3. narDir' \in Seq(Names) /\ Distinct(narDir')
    BY <1>2, <1>4
  <2> QED
    BY <1>1, <1>3, <1>4, <2>2, <2>3, NarGoesOn
<1>5. CASE narDir' = Append(narDir, Export(s)) /\ StorerAt(s, "export")
  <2>1. /\ narDir' \in Seq(Names) /\ Distinct(narDir')
        /\ Files(narDir') \subseteq Files(narDir) \cup {Export(s)}
    <3> DEFINE x == Export(s)
               l == Len(narDir)
               t == Append(narDir, x)
    <3>1. x \in Names
      BY <1>1, NamesAre
    <3>2. /\ t \in Seq(Names) /\ Len(t) = l + 1 /\ t[l + 1] = x /\ \A i \in 1..l : t[i] = narDir[i]
          /\ l \in Nat /\ DOMAIN narDir = 1..l
      BY <1>2, <3>1, AppendIs
    <3>3. narDir' = t
      BY <1>5
    <3> HIDE DEF t, x
    <3>4. DOMAIN t = 1..(l + 1)
      BY <3>2
    <3>5. \A i \in 1..l : narDir[i] # x
      BY <1>2, <3>2 DEF Files, x
    <3>6. \A i \in 1..(l + 1) : i \in 1..l \/ i = l + 1
      BY <3>2
    <3>7. Distinct(t)
      <4> SUFFICES ASSUME NEW i \in 1..(l + 1), NEW j \in 1..(l + 1), t[i] = t[j] PROVE i = j
        BY <3>2 DEF Distinct
      <4>1. CASE i \in 1..l /\ j \in 1..l
        BY <1>2, <3>2, <4>1 DEF Distinct
      <4>2. CASE ~(i \in 1..l /\ j \in 1..l)
        BY <3>2, <3>5, <3>6, <4>2
      <4> QED
        BY <4>1, <4>2
    <3>8. Files(t) = Files(narDir) \cup {x}
      <4>1. l + 1 \in 1..(l + 1) /\ 1..l \subseteq 1..(l + 1)
        BY <3>2
      <4>2. Files(t) = {t[i] : i \in 1..(l + 1)} /\ Files(narDir) = {narDir[i] : i \in 1..l}
        BY <3>2, <3>4 DEF Files
      <4> HIDE DEF l
      <4> QED
        BY <3>2, <3>6, <4>1, <4>2
    <3> QED
      BY <3>2, <3>3, <3>7, <3>8 DEF x
  <2>2. OnlyStorer(s, "export")
    BY <1>5, StorerGoes DEF NarInv
  <2>3. Files(narDir') \ Pending' \subseteq Files(narDir) \ Pending
    <3>1. Pending \subseteq Pending' /\ Export(s) \in Pending'
      BY <1>1, <2>2, PendingIs
    <3> QED
      BY <2>1, <3>1
  <2>4. \A t \in Storers : t # s /\ Export(t) \in Files(narDir') => Export(t) \in Files(narDir)
    BY <2>1, NamesAre
  <2> QED
    BY <1>1, <1>3, <1>5, <2>1, <2>3, <2>4, NarGoesOn
<1> QED
  BY <1>1, <1>4, <1>5

\* store.
LEMMA CreateKept ==
    ASSUME NarInv, NEW s \in Storers, Create(s) PROVE NarInv'
<1> DEFINE q == storer[s].key
           x == Archive(q)
<1>1. /\ storer[s].pc = "create" /\ narDir' = Used(narDir, x) /\ torn' = torn \cup {q}
      /\ creator' = [creator EXCEPT ![q] = {s}]
      /\ StorerAt(s, "copy") /\ UNCHANGED <<byID, indexFile, narCrashed>>
  BY DEF Create
<1>2. narDir \in Seq(Names) /\ Distinct(narDir) /\ x \in Names /\ q \in Closures
  BY StorerIs DEF NarInv, NarTypes
<1>3. narDir' \in Seq(Names) /\ Distinct(narDir') /\ Files(narDir') = Files(narDir) \cup {x}
  BY <1>1, <1>2, UsedIs
<1>4. OnlyStorer(s, "copy")
  BY <1>1, StorerGoes DEF NarInv
<1>5. Files(narDir') \ Pending' \subseteq Files(narDir) \ Pending
  <2>1. Pending \subseteq Pending' \cup {x, Export(s)} /\ {x, Export(s)} \subseteq Pending'
    BY <1>4, PendingIs
  <2> QED
    BY <1>3, <2>1
<1>6. \A t \in Storers : t # s /\ Export(t) \in Files(narDir') => Export(t) \in Files(narDir)
  BY <1>3, NamesAre
<1>7. /\ torn' \subseteq Closures /\ byID' \subseteq Closures /\ indexFile' \subseteq Closures
      /\ creator' \in [Closures -> SUBSET Storers] /\ narCrashed' = narCrashed
  BY <1>1, <1>2 DEF NarInv, NarTypes
<1>8. \A k \in torn' : \/ k \in torn /\ creator'[k] = creator[k]
                       \/ k = q /\ creator'[k] = {s}
  BY <1>1, <1>2 DEF NarInv, NarTypes
<1> HIDE DEF x
<1> QED
  BY <1>1, <1>3, <1>5, <1>6, <1>7, <1>8, NarGoesOn

\* The last to create it leaves it whole.
LEMMA CopiedKept ==
    ASSUME NarInv, NEW s \in Storers, Copied(s) PROVE NarInv'
<1> DEFINE q == storer[s].key
           x == Archive(q)
<1>1. /\ storer[s].pc = "copy" /\ narDir' = UsedIfThere(narDir, x)
      /\ torn' = (IF creator[q] = {s} THEN torn \ {q} ELSE torn)
      /\ byID' = byID \cup {q} /\ indexFile' = byID'
      /\ StorerAt(s, "list") /\ UNCHANGED <<creator, narCrashed>>
  BY DEF Copied
<1>2. narDir \in Seq(Names) /\ Distinct(narDir) /\ x \in Names /\ q \in Closures
  BY StorerIs DEF NarInv, NarTypes
<1>3. narDir' \in Seq(Names) /\ Distinct(narDir') /\ Files(narDir') = Files(narDir)
  <2>1. CASE x \in Files(narDir)
    <3>1. narDir' = Used(narDir, x)
      BY <1>1, <2>1 DEF UsedIfThere
    <3>2. narDir' \in Seq(Names) /\ Distinct(narDir') /\ Files(narDir') = Files(narDir) \cup {x}
      BY <1>2, <3>1, UsedIs
    <3> QED
      BY <2>1, <3>2
  <2>2. CASE x \notin Files(narDir)
    BY <1>1, <1>2, <2>2 DEF UsedIfThere
  <2> QED
    BY <2>1, <2>2
<1>4. /\ torn' \subseteq Closures /\ byID' \subseteq Closures /\ indexFile' \subseteq Closures
      /\ creator' \in [Closures -> SUBSET Storers] /\ narCrashed' = narCrashed
      /\ creator[q] = {s} => q \notin torn'
      /\ \A k \in torn' : k \in torn /\ creator'[k] = creator[k]
  BY <1>1, <1>2 DEF NarInv, NarTypes
<1> QED
  BY <1>1, <1>3, <1>4, NarGoesOn

\* A copy that fails takes what was pending with it.
LEMMA CopyFailsKept ==
    ASSUME NarInv, NEW s \in Storers, CopyFails(s) PROVE NarInv'
<1> DEFINE q == storer[s].key
           x == Archive(q)
<1>1. /\ storer[s].pc = "copy" /\ narDir' = RemoveFiles(narDir, {x, Export(s)})
      /\ torn' = torn \ {q} /\ creator' = [creator EXCEPT ![q] = {}]
      /\ StorerAt(s, "over") /\ UNCHANGED <<byID, indexFile, narCrashed>>
  BY DEF CopyFails
<1>2. narDir \in Seq(Names) /\ Distinct(narDir) /\ q \in Closures
  BY StorerIs DEF NarInv, NarTypes
<1>3. narDir' \in Seq(Names) /\ Distinct(narDir') /\ Files(narDir') = Files(narDir) \ {x, Export(s)}
  BY <1>1, <1>2, RemoveIs
<1>4. OnlyStorer(s, "over")
  BY <1>1, StorerGoes DEF NarInv
<1>5. Files(narDir') \ Pending' \subseteq Files(narDir) \ Pending
  <2>1. Pending \subseteq Pending' \cup {x, Export(s)}
    BY <1>4, PendingIs
  <2> QED
    BY <1>3, <2>1
<1>6. \A t \in Storers : Export(t) \in Files(narDir') => Export(t) \in Files(narDir)
  BY <1>3
<1>7. /\ torn' \subseteq Closures /\ byID' \subseteq Closures /\ indexFile' \subseteq Closures
      /\ creator' \in [Closures -> SUBSET Storers] /\ narCrashed' = narCrashed
      /\ q \notin torn'
      /\ \A k \in torn' : k \in torn /\ creator'[k] = creator[k]
  BY <1>1, <1>2 DEF NarInv, NarTypes
<1> HIDE DEF x
<1> QED
  BY <1>1, <1>3, <1>5, <1>6, <1>7, NarGoesOn

\* prune.
LEMMA ListArchivesKept ==
    ASSUME NarInv, NEW s \in Storers, ListArchives(s) PROVE NarInv'
<1> DEFINE r == [storer[s] EXCEPT !.pc = "evict", !.listing = narDir]
<1>1. /\ storer[s].pc = "list" /\ storer' = [storer EXCEPT ![s] = r]
      /\ UNCHANGED <<narDir, torn, creator, byID, indexFile, narCrashed>>
      /\ narDir \in Seq(Names) /\ Distinct(narDir)
      /\ storer \in [Storers -> StorerRec] /\ storer[s] \in StorerRec
  BY DEF ListArchives, NarInv, NarTypes
<1>2. r \in StorerRec /\ r.pc = "evict" /\ r.listing = narDir
  BY <1>1 DEF StorerRec
<1> HIDE DEF r
<1>3. /\ storer' \in [Storers -> StorerRec] /\ storer'[s] = r
      /\ \A t \in Storers : t # s => storer'[t] = storer[t]
  BY <1>1, <1>2
<1>4. \A t \in Storers : Distinct(storer'[t].listing)
  BY <1>1, <1>2, <1>3 DEF NarInv, NarTypes
<1>5. NarTypes'
  BY <1>1, <1>3, <1>4 DEF NarInv, NarTypes
<1>6. NotExported'
  BY <1>1, <1>2, <1>3 DEF NarInv, NotExported
<1>7. TornFact'
  <2> SUFFICES ASSUME ~narCrashed, NEW k \in torn
               PROVE  \E t \in Storers : storer'[t].pc = "copy" /\ storer'[t].key = k /\ creator[k] = {t}
    BY <1>1 DEF TornFact
  <2>1. PICK t \in Storers : storer[t].pc = "copy" /\ storer[t].key = k /\ creator[k] = {t}
    BY DEF NarInv, TornFact
  <2> QED
    BY <1>1, <1>3, <2>1
<1>8. NarCapFact(storer', Files(narDir') \ Pending')
  BY <1>1, <1>2, <1>3 DEF NarCapFact
<1> QED
  BY <1>5, <1>6, <1>7, <1>8 DEF NarInv

\* Whoever evicts leaves the cap, or what another has listed.
LEMMA EvictArchivesKept ==
    ASSUME NarInv, NEW s \in Storers, EvictArchives(s) PROVE NarInv'
<1> DEFINE out == Evicted(storer[s].listing, narDir, NarMax)
           gone == {k \in Closures : Archive(k) \in out}
           r == [storer[s] EXCEPT !.pc = "over", !.listing = <<>>]
           L == Files(storer[s].listing)
<1>1. /\ storer[s].pc = "evict" /\ storer' = [storer EXCEPT ![s] = r]
      /\ narDir' = RemoveFiles(narDir, out \cup {Export(s)}) /\ torn' = torn \ gone
      /\ creator' = [k \in Closures |-> IF k \in gone THEN {} ELSE creator[k]]
      /\ byID' = byID \ gone /\ indexFile' \in {byID', indexFile} /\ UNCHANGED narCrashed
  BY DEF EvictArchives
<1>2. /\ narDir \in Seq(Names) /\ Distinct(narDir)
      /\ storer \in [Storers -> StorerRec] /\ storer[s] \in StorerRec
      /\ storer[s].listing \in Seq(Names) /\ Distinct(storer[s].listing)
  BY StorerIs DEF NarInv, NarTypes
<1>3. r \in StorerRec /\ r.pc = "over" /\ r.listing = <<>>
  <2>1. <<>> \in Seq(Names)
    OBVIOUS
  <2> QED
    BY <1>2, <2>1 DEF StorerRec
<1> HIDE DEF r
<1>4. /\ storer' \in [Storers -> StorerRec] /\ storer'[s] = r
      /\ \A t \in Storers : t # s => storer'[t] = storer[t]
  BY <1>1, <1>2, <1>3
<1>5. \A t \in Storers : Distinct(storer'[t].listing)
  <2>1. Len(<<>>) = 0 /\ Distinct(<<>>)
    BY DEF Distinct
  <2> QED
    BY <1>3, <1>4, <2>1 DEF NarInv, NarTypes
<1>6. /\ narDir' \in Seq(Names) /\ Distinct(narDir')
      /\ Files(narDir') = Files(narDir) \ (out \cup {Export(s)})
  BY <1>1, <1>2, RemoveIs
<1>7. /\ IsFiniteSet(L \cap Files(narDir))
      /\ Cardinality((L \cap Files(narDir)) \ out) <= NarMax
  BY <1>2, EvictedIs, NarAssumption
<1> HIDE DEF out, gone, L
<1>8. /\ torn' \subseteq Closures /\ byID' \subseteq Closures /\ indexFile' \subseteq Closures
      /\ creator' \in [Closures -> SUBSET Storers] /\ narCrashed' \in BOOLEAN
      /\ \A k \in torn' : k \in torn /\ creator'[k] = creator[k]
  BY <1>1 DEF NarInv, NarTypes
<1>9. NarTypes'
  BY <1>4, <1>5, <1>6, <1>8 DEF NarTypes
<1>10. NotExported'
  BY <1>3, <1>4, <1>6 DEF NarInv, NotExported
<1>11. TornFact'
  <2> SUFFICES ASSUME ~narCrashed, NEW k \in torn'
               PROVE  \E t \in Storers : storer'[t].pc = "copy" /\ storer'[t].key = k /\ creator'[k] = {t}
    BY <1>1 DEF TornFact
  <2>1. PICK t \in Storers : storer[t].pc = "copy" /\ storer[t].key = k /\ creator[k] = {t}
    BY <1>8 DEF NarInv, TornFact
  <2> QED
    BY <1>1, <1>4, <1>8, <2>1
<1>12. Pending \subseteq Pending'
  BY <1>1, <1>4 DEF Pending
<1> DEFINE F == Files(narDir) \ Pending
           G == Files(narDir') \ Pending'
<1>13. G \subseteq F \ out
  BY <1>6, <1>12
<1>14. NarCapFact(storer, F)
  BY DEF NarInv
<1> HIDE DEF F, G
<1>15. NarCapFact(storer', G)
  <2>1. CASE \E t \in Storers : storer[t].pc = "list"
    <3>1. PICK t \in Storers : storer[t].pc = "list"
      BY <2>1
    <3>2. storer'[t].pc = "list"
      BY <1>1, <1>4, <3>1
    <3> QED
      BY <3>2 DEF NarCapFact
  <2>2. CASE IsFiniteSet(F) /\ Cardinality(F) <= NarMax
    <3>1. G \subseteq F
      BY <1>13
    <3> QED
      BY <2>2, <3>1, NarCapLess DEF NarCapFact
  <2>3. CASE F \subseteq L
    <3>1. G \subseteq (L \cap Files(narDir)) \ out
      BY <1>13, <2>3 DEF F
    <3>2. IsFiniteSet((L \cap Files(narDir)) \ out)
      BY <1>7, FS_Difference
    <3>3. IsFiniteSet(G) /\ Cardinality(G) <= NarMax
      BY <1>7, <3>1, <3>2, NarCapLess
    <3> QED
      BY <3>3 DEF NarCapFact
  <2>4. CASE \E t \in Storers : t # s /\ storer[t].pc = "evict" /\ F \subseteq Files(storer[t].listing)
    <3>1. PICK t \in Storers : t # s /\ storer[t].pc = "evict" /\ F \subseteq Files(storer[t].listing)
      BY <2>4
    <3>2. storer'[t] = storer[t] /\ G \subseteq Files(storer[t].listing)
      BY <1>4, <1>13, <3>1
    <3> QED
      BY <3>1, <3>2 DEF NarCapFact
  <2> QED
    BY <1>14, <2>1, <2>2, <2>3, <2>4 DEF NarCapFact, L
<1> QED
  BY <1>9, <1>10, <1>11, <1>15 DEF NarInv, F, G

\* The daemon is killed and starts again.
LEMMA NarRestartKept == NarInv /\ NarRestart => NarInv'
<1> SUFFICES ASSUME NarInv, NarRestart PROVE NarInv'
  OBVIOUS
<1> DEFINE out == Evicted(narDir, narDir, NarMax)
           gone == {k \in Closures : Archive(k) \in out}
           left(s) == [storer[s] EXCEPT !.pc = "over", !.listing = <<>>]
<1>1. /\ narCrashed' = TRUE /\ narDir' = RemoveFiles(narDir, out) /\ torn' = torn \ gone
      /\ creator' = [k \in Closures |-> {}]
      /\ \E loaded \in {indexFile, {}} : byID' = loaded \ gone
      /\ indexFile' \in {byID', indexFile}
      /\ storer' = [s \in Storers |-> IF storer[s].pc \in {"begin", "over"} THEN storer[s] ELSE left(s)]
  BY DEF NarRestart
<1>2. /\ narDir \in Seq(Names) /\ Distinct(narDir) /\ storer \in [Storers -> StorerRec]
  BY DEF NarInv, NarTypes
<1>3. /\ narDir' \in Seq(Names) /\ Distinct(narDir') /\ Files(narDir') = Files(narDir) \ out
  BY <1>1, <1>2, RemoveIs
<1>4. /\ IsFiniteSet(Files(narDir)) /\ Cardinality(Files(narDir) \ out) <= NarMax
  <2>1. /\ IsFiniteSet(Files(narDir) \cap Files(narDir))
        /\ Cardinality((Files(narDir) \cap Files(narDir)) \ out) <= NarMax
    BY <1>2, EvictedIs, NarAssumption
  <2>2. Files(narDir) \cap Files(narDir) = Files(narDir)
    OBVIOUS
  <2> QED
    BY <2>1, <2>2
<1>5. ASSUME NEW s \in Storers
      PROVE  left(s) \in StorerRec /\ left(s).pc = "over" /\ left(s).listing = <<>>
  <2>1. <<>> \in Seq(Names) /\ storer[s] \in StorerRec
    BY <1>2
  <2> QED
    BY <2>1 DEF StorerRec
<1> HIDE DEF out, gone, left
<1>6. storer' \in [Storers -> StorerRec]
  BY <1>1, <1>2, <1>5
<1>7. \A s \in Storers : (storer'[s] = storer[s] /\ storer[s].pc \in {"begin", "over"}) \/ storer'[s] = left(s)
  BY <1>1
<1>8. \A s \in Storers : Distinct(storer'[s].listing)
  <2>1. Len(<<>>) = 0 /\ Distinct(<<>>)
    BY DEF Distinct
  <2> QED
    BY <1>5, <1>7, <2>1 DEF NarInv, NarTypes
<1>9. /\ torn' \subseteq Closures /\ byID' \subseteq Closures /\ indexFile' \subseteq Closures
      /\ creator' \in [Closures -> SUBSET Storers] /\ narCrashed' \in BOOLEAN
  BY <1>1 DEF NarInv, NarTypes
<1>10. NarTypes'
  BY <1>3, <1>6, <1>8, <1>9 DEF NarTypes
<1>11. NotExported'
  BY <1>3, <1>5, <1>7 DEF NarInv, NotExported
<1>12. TornFact'
  BY <1>1 DEF TornFact
<1>13. NarCapFact(storer', Files(narDir') \ Pending')
  <2>1. IsFiniteSet(Files(narDir) \ out)
    BY <1>4, FS_Difference
  <2>2. Files(narDir') \ Pending' \subseteq Files(narDir) \ out
    BY <1>3
  <2>3. IsFiniteSet(Files(narDir') \ Pending') /\ Cardinality(Files(narDir') \ Pending') <= NarMax
    BY <1>4, <2>1, <2>2, NarCapLess
  <2> QED
    BY <2>3 DEF NarCapFact
<1> QED
  BY <1>10, <1>11, <1>12, <1>13 DEF NarInv

\* Every step keeps the invariant.
LEMMA NarStep == NarInv /\ [NarNext]_narVars => NarInv'
<1> SUFFICES ASSUME NarInv, [NarNext]_narVars PROVE NarInv'
  OBVIOUS
<1>1. ASSUME NEW s \in Storers, Hit(s) \/ MakeExport(s) \/ Miss(s) \/ Create(s) \/ Copied(s) PROVE NarInv'
  BY <1>1, HitKept, MakeExportKept, MissKept, CreateKept, CopiedKept
<1>2. ASSUME NEW s \in Storers, CopyFails(s) \/ ListArchives(s) \/ EvictArchives(s) PROVE NarInv'
  BY <1>2, CopyFailsKept, ListArchivesKept, EvictArchivesKept
<1>3. CASE UNCHANGED narVars
  BY <1>3 DEF narVars, NarInv, NarTypes, NotExported, TornFact, NarCapFact, Pending
<1> QED
  BY <1>1, <1>2, <1>3, NarRestartKept DEF NarNext, NarOver

\* Before the first call.
LEMMA NarStart == NarInit => NarInv
<1> SUFFICES ASSUME NarInit PROVE NarInv
  OBVIOUS
<1>1. <<>> \in Seq(Names) /\ Len(<<>>) = 0 /\ Files(<<>>) = {}
  BY DEF Files
<1>2. Distinct(<<>>)
  BY <1>1 DEF Distinct
<1>3. storer \in [Storers -> StorerRec] /\ \A s \in Storers : storer[s].listing = <<>>
  <2> DEFINE new(k) == [pc |-> "begin", key |-> k, listing |-> <<>>]
  <2>1. \A k \in Closures : new(k) \in StorerRec /\ new(k).listing = <<>>
    BY <1>1 DEF StorerRec
  <2>2. storer \in [Storers -> {new(k) : k \in Closures}]
    BY DEF NarInit
  <2> HIDE DEF new
  <2> QED
    BY <2>1, <2>2
<1>4. NarTypes
  BY <1>1, <1>2, <1>3 DEF NarInit, NarTypes
<1>5. NotExported /\ TornFact
  BY <1>1 DEF NarInit, NotExported, TornFact
<1>6. NarCapFact(storer, Files(narDir) \ Pending)
  <2>1. Files(narDir) \ Pending = {}
    BY <1>1 DEF NarInit
  <2>2. IsFiniteSet({}) /\ Cardinality({}) = 0
    BY FS_EmptySet
  <2>3. 0 <= NarMax
    BY NarAssumption
  <2> QED
    BY <2>1, <2>2, <2>3 DEF NarCapFact
<1> QED
  BY <1>4, <1>5, <1>6 DEF NarInv

\* The invariant says which archives are whole and how large the directory is.
LEMMA NarHeld == NarInv => TornIsBeingWritten
<1> SUFFICES ASSUME NarInv PROVE TornIsBeingWritten
  OBVIOUS
<1>1. /\ Files(narDir) \subseteq Names /\ IsFiniteSet(Files(narDir))
      /\ Cardinality(Files(narDir)) = Len(narDir) /\ Len(narDir) \in Nat
  BY DistinctIs DEF NarInv, NarTypes
<1>2. NarTypeOK
  BY <1>1 DEF NarInv, NarTypes, NarTypeOK, StorerRec
<1>3. ASSUME NEW k \in byID \cap torn
      PROVE  There(k) => narCrashed \/ \E s \in Storers : storer[s].pc = "copy" /\ creator[k] = {s}
  BY DEF NarInv, TornFact
<1>4. ASSUME \A s \in Storers : storer[s].pc \in {"begin", "over"} PROVE Len(narDir) <= NarMax
  <2>1. Pending = {} /\ \A s \in Storers : storer[s].pc \notin {"list", "evict"}
    BY <1>4 DEF Pending
  <2>2. Files(narDir) \ Pending = Files(narDir)
    BY <2>1
  <2> QED
    BY <1>1, <2>1, <2>2 DEF NarInv, NarCapFact
<1> QED
  BY <1>2, <1>3, <1>4 DEF TornIsBeingWritten

-----------------------------------------------------------------------------
(* What is kept on disk.                                                    *)

\* A step of the closures is a step of one of their parts.
LEMMA DiskStep ==
    ASSUME NarInv, DirInv, WsInv, [Next]_vars
    PROVE  NarInv' /\ DirInv' /\ WsInv'
<1>1. [NarNext]_narVars /\ [DirNext]_dirVars /\ [WsNext]_wsVars
  BY DEF Next, Sends, vars
<1> QED
  BY <1>1, NarStep, DirStep, WsStepInv

\* An archive that is handed out is whole but while it is written over or after
\* a kill (store, narFileFor); a transfer loses what it was told of only to
\* another's eviction (pruneCAS, Prune); caches come back under their caps
\* however listings and evictions overlap; and a project's files are what its
\* user and the jobs that changed them left.
THEOREM DiskStaysWhole == Spec => []NothingTornOrLost
<1>1. Init => NarInv /\ DirInv /\ WsInv
  BY NarStart, DirStart, WsInitInv DEF Init
<1>2. NarInv /\ DirInv /\ WsInv => NothingTornOrLost
  BY NarHeld, DirHeld, WsInvIsTrue DEF NothingTornOrLost
<1> QED
  BY <1>1, <1>2, DiskStep, PTL DEF Spec
=============================================================================
