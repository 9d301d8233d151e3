------------------------------ MODULE DdpBoard ------------------------------
(***************************************************************************)
(* One training run (one group) on the lead daemon's DDP board, and the    *)
(* ranks that average through it.                                          *)
(*                                                                         *)
(* Every rank posts its contribution for sync 1, 2, ... to the lead        *)
(* (handleDDPSync) and blocks until the round has an answer.  Sync 1 is    *)
(* the opening weight broadcast and the start barrier.  A round closes     *)
(* when every rank the ring still counts is in, when the submitter says a  *)
(* missing rank is down, or when its timer fires.  Changes to the ring (a  *)
(* rank down, one joining, new shares) are a note that rides the replies   *)
(* from one agreed sync on, and a rank takes the change at its next epoch  *)
(* boundary.                                                               *)
(*                                                                         *)
(* A contribution is the rank that made it, an average the set of ranks    *)
(* folded in, and a rank's model the sequence of averages it applied: two  *)
(* ranks hold the same model exactly when these are equal.  Shares are the *)
(* refit they come from, the ranks zeroed since and the ring's size, which *)
(* is what the weights are computed from.                                  *)
(***************************************************************************)
EXTENDS Naturals, Sequences, FiniteSets

CONSTANTS
  World,       \* ranks the run starts with: 0 .. World-1
  Joins,       \* TRUE: one more machine (rank World) may join mid-run
  MaxSeq,      \* bound: syncs the script makes
  Boundaries,  \* syncs after which an epoch ends
  Mortal,      \* ranks whose machine may die
  FalselyLost, \* ranks the submitter may give up although they still run
  Odd,         \* ranks that build another model than the rest
  MaxFits,     \* bound: refits of the shares
  MayDrop      \* TRUE: the refit may drop a rank that does not pay its way

ASSUME DdpAssumption ==
  /\ World \in Nat \ {0, 1}
  /\ MaxSeq \in Nat \ {0}
  /\ MaxFits \in Nat
  /\ {Joins, MayDrop} \subseteq BOOLEAN
  /\ Boundaries \subseteq 1..MaxSeq
  /\ UNION {Mortal, FalselyLost, Odd} \subseteq 1..World

VARIABLES
  run,     \* ddpRun: what the board keeps for the whole run
  rounds,  \* every ddpEntry made so far; a request holds on to its own
  key,     \* ddpBoard.entries: sync -> index into rounds, 0 when absent
  rank     \* the ranks: their shim's state and their blocked request

vars == <<run, rounds, key, rank>>

Joiner == World
Ranks == 0..World
NoRank == World + 1
Syncs == 1..MaxSeq

NoJoin == [rank |-> NoRank, from |-> NoRank, oldWorld |-> 0, snap |-> {}]
NoNote == [shares |-> {}, drop |-> NoRank, join |-> NoRank, from |-> NoRank]

\* Ranks with a share of the data.
Sharing(s) == (0..(s.world - 1)) \ s.out

Active(r) == rank[r].pc \in {"ready", "got", "step", "wait", "reply", "boundary", "solo"}

-----------------------------------------------------------------------------
(* The board's own arithmetic.                                             *)

\* dropsBelow, and what a round waits for.
Expected(w, dropped) ==
  LET n == w - Cardinality(dropped \cap (0..(w - 1))) IN IF n < 1 THEN 1 ELSE n

\* Mutant: dropped ranks count too.
LiveInAll(seen, dropped) == Cardinality(seen)

\* liveIn: a dropped rank's contribution stays but does not close a round.
LiveIn(seen, dropped) == Cardinality(seen \ dropped)

\* lowestLive: who hands the model to a joiner.
LowestLive(dropped, n) ==
  IF (0..(n - 1)) \subseteq dropped THEN NoRank
  ELSE CHOOSE k \in (0..(n - 1)) \ dropped :
         \A i \in (0..(n - 1)) \ dropped : k <= i

\* The rank that hands the model over left: the next lowest takes over.
Takeover(j, dropped) == [j EXCEPT !.from = LowestLive(dropped, j.oldWorld)]

\* publish: one note at a time, told from sync s on.
Publish(r, s, n) == [r EXCEPT !.note = n, !.noteSeq = s, !.noteTold = {}]

\* ringFragment: the whole ring, and the join while its model is awaited.
RingNote(r) ==
  LET open == r.join.rank # NoRank /\ r.join.snap = {}
  IN [shares |-> {r.shares}, drop |-> NoRank,
      join |-> IF open THEN r.join.rank ELSE NoRank,
      from |-> IF open THEN r.join.from ELSE NoRank]

\* noteFor: the note for rank r's reply to sync s, once.
NoteFor(r, s) ==
  IF run.noteSeq = 0 \/ s < run.noteSeq \/ r \in run.noteTold
    THEN NoNote ELSE run.note

NewRound(s, w, dropped) ==
  [seq |-> s, world |-> w, seen |-> {}, fetched |-> {}, status |-> "open",
   expected |-> Expected(w, dropped), partial |-> 0,
   held |-> FALSE, timedOut |-> FALSE]

\* abortLocked: every later sync is refused.
Aborted(r) == [r EXCEPT !.aborted = TRUE]

\* finishLocked: the average is over whoever is in.
Finish(e) == [e EXCEPT !.status = "result"]

\* Shares without the ranks that left, and new ones from a refit.
LeaveOut(s, gone) == [s EXCEPT !.out = @ \cup gone]
Refitted(s) == [s EXCEPT !.fit = @ + 1, !.out = {}]

\* markRankDownLocked on the run: the rank leaves the ring, its share goes
\* to the others, a join it was part of ends or changes hands.
DownRun(r, d) ==
  LET r1 == [r EXCEPT !.dropped = @ \cup {d}]
      r2 == [r1 EXCEPT
               !.shares = LeaveOut(@, r1.dropped),
               !.reports = @ \ {d},
               !.loading = IF @ = d THEN NoRank ELSE @,
               !.join = IF @.rank = d THEN NoJoin
                        ELSE IF @.from = d THEN Takeover(@, r1.dropped) ELSE @]
  IN IF d \in r.dropped THEN r
     ELSE IF d >= r.world THEN r1
     ELSE Publish(r2, r2.lastSeq + 1, RingNote(r2))

\* markRankDownLocked on the open rounds: one that now has everybody it will
\* ever get is finished.
DownRounds(dropped) ==
  [i \in DOMAIN rounds |->
     LET e == rounds[i]
         x == Expected(e.world, dropped)
     IN IF e.status # "open" \/ key[e.seq] # i THEN e
        ELSE IF e.seen # {} /\ LiveIn(e.seen, dropped) >= x
               THEN [Finish(e) EXCEPT
                       !.expected = x,
                       !.partial = IF Cardinality(e.seen) < e.world
                                     THEN Cardinality(e.seen) ELSE @]
               ELSE [e EXCEPT !.expected = x]]

MarkDown(d) ==
  LET r == DownRun(run, d)
      touched == d \notin run.dropped /\ d < run.world
  IN /\ run' = r
     /\ rounds' = IF touched THEN DownRounds(r.dropped) ELSE rounds

-----------------------------------------------------------------------------
(* handleDDPSync, its first critical section: a rank posts its next sync.  *)

Seq1(r) == Len(rank[r].model) + 1      \* the sync a rank makes next
Idle(r) == rank[r].pc = "step"

\* The ring died: every later sync is refused and the shim stops the rank.
Refused(r) ==
  /\ Idle(r)
  /\ run.aborted
  /\ rank' = [rank EXCEPT ![r].pc = "stopped"]
  /\ UNCHANGED <<run, rounds, key>>

\* A rank the start barrier closed without is told so (410) and exits.
MissedStart(r) ==
  /\ Idle(r)
  /\ ~run.aborted
  /\ Seq1(r) = 1
  /\ r \in run.dropped
  /\ rank' = [rank EXCEPT ![r].pc = "missed"]
  /\ UNCHANGED <<run, rounds, key>>

Admitted(r) == Idle(r) /\ ~run.aborted /\ ~(Seq1(r) = 1 /\ r \in run.dropped)

\* The ranks disagree about the ring's size: refused without ending the ring.
WrongWorld(r) ==
  LET k == key[Seq1(r)] IN
  /\ Admitted(r)
  /\ k # 0
  /\ rounds[k].world # rank[r].shares.world
  /\ rank' = [rank EXCEPT ![r].pc = "failed"]
  /\ UNCHANGED <<run, rounds, key>>

\* rebalanceFor, on the first post of a sync: nothing, new shares, or a rank
\* the ring is better off without.  It needs a report from every rank of the
\* ring, and waits while one is joining.  A rank dropped here keeps its report,
\* so a later refit gives it a share again.
Rebalanced(r, s) ==
  LET reported == r.reports = 0..(r.world - 1) /\ r.join = NoJoin
      fit == [r EXCEPT !.shares = Refitted(@)]
  IN {r} \cup
     (IF reported /\ r.shares.fit < MaxFits
        THEN {Publish(fit, s, RingNote(fit))} ELSE {}) \cup
     (IF reported /\ MayDrop /\ r.world > 2
        THEN {Publish([r EXCEPT !.dropped = @ \cup {d}], s, [NoNote EXCEPT !.drop = d]) :
                d \in (1..(r.world - 1)) \ r.dropped}
        ELSE {})

\* observe: what a rank reports about itself, from its first gradient on.
Observed(r1, r, s) ==
  IF s = 1 \/ r \in r1.dropped THEN r1 ELSE [r1 EXCEPT !.reports = @ \cup {r}]

\* What the run may be once rank r has posted sync s in a ring of w.
Noticed(r, s, w) ==
  LET r1 == [run EXCEPT !.world = IF w > @ THEN w ELSE @,
                        !.loading = IF @ = r THEN NoRank ELSE @]
  IN {Observed(r2, r, s) :
        r2 \in IF s > run.lastSeq THEN Rebalanced([r1 EXCEPT !.lastSeq = s], s)
               ELSE {r1}}

\* Mutant: a late contribution is folded into the round that has its answer.
FoldLate(e, r, dropped) ==
  LET seen == e.seen \cup {r} IN
  IF LiveIn(seen, dropped) >= e.expected
    THEN Finish([e EXCEPT !.seen = seen]) ELSE [e EXCEPT !.seen = seen]

\* The contribution is folded in, unless the round has its answer already;
\* two different models at the opening end the round with an error.
Fold(e, r, dropped) ==
  LET clash == e.seq = 1 /\ \E q \in e.seen : (q \in Odd) # (r \in Odd)
      seen == e.seen \cup {r}
  IN CASE e.status # "open" -> e
       [] e.status = "open" /\ clash -> [e EXCEPT !.status = "err"]
       [] OTHER -> IF LiveIn(seen, dropped) >= e.expected
                     THEN Finish([e EXCEPT !.seen = seen])
                     ELSE [e EXCEPT !.seen = seen]

Post(r) ==
  LET s == Seq1(r)
      w == rank[r].shares.world
      k == IF key[s] = 0 THEN Len(rounds) + 1 ELSE key[s]
      old == IF key[s] = 0 THEN NewRound(s, w, run.dropped)
             ELSE [rounds[k] EXCEPT !.expected = Expected(w, run.dropped)]
  IN /\ Admitted(r)
     /\ old.world = w
     /\ \E r1 \in Noticed(r, s, w) :
          LET e == Fold(old, r, r1.dropped) IN
          /\ run' = IF e.status = "err" THEN Aborted(r1) ELSE r1
          /\ rounds' = IF key[s] = 0 THEN Append(rounds, e)
                       ELSE [rounds EXCEPT ![k] = e]
     /\ key' = [key EXCEPT ![s] = k]
     /\ rank' = [rank EXCEPT ![r].at = k, ![r].pc =
                   IF rounds'[k].status = "open" THEN "wait" ELSE "reply"]

-----------------------------------------------------------------------------
(* The wait: the round's timer, which select may take although the answer  *)
(* is there.                                                               *)

Waiting(r) == rank[r].pc = "wait"
InSync(r) == rank[r].pc \in {"wait", "reply"}

\* handoverHolds: a rank busy with a join handover has not posted yet.
Busy(e) ==
  LET handing == run.join.rank # NoRank
      j == IF handing THEN run.join.rank ELSE run.loading
  IN /\ j # NoRank
     /\ \/ handing /\ run.join.from \notin e.seen \cup run.dropped
        \/ j < e.world /\ j \notin e.seen \cup run.dropped

Holdable(k) == k # 0 /\ rounds[k].status = "open" /\ Busy(rounds[k])

\* The round is held and looks again later.
Hold(r) ==
  LET k == key[Seq1(r)] IN
  /\ Waiting(r)
  /\ Holdable(k)
  /\ ~rounds[k].held
  /\ rounds' = [rounds EXCEPT ![k].held = TRUE]
  /\ UNCHANGED <<run, key, rank>>

\* completePartial when the round is gone from the board: 504.
PartialGone(r) ==
  /\ Waiting(r)
  /\ key[Seq1(r)] = 0
  /\ rank' = [rank EXCEPT ![r].pc = "failed"]
  /\ UNCHANGED <<run, rounds, key>>

\* dropMissedStart: the ranks that never reached the opening round leave.
DropMissedStart(e) ==
  LET missed == (0..(e.world - 1)) \ (e.seen \cup run.dropped)
      r1 == [run EXCEPT !.dropped = @ \cup missed]
      r2 == [r1 EXCEPT !.shares = LeaveOut(@, r1.dropped),
                       !.join = IF @.rank # NoRank /\ @.from \in missed
                                  THEN Takeover(@, r1.dropped) ELSE @]
  IN IF missed = {} THEN run ELSE Publish(r2, r2.lastSeq + 1, RingNote(r2))

\* Every peer of the only live rank in the round went silent.
LeftAlone(e, r) ==
  /\ e.seq # 1
  /\ ~e.held
  /\ e.expected >= 2
  /\ LiveIn(e.seen, run.dropped) = 1
  /\ r \in e.seen

\* completePartial: the round ends with whoever is in.
Partial(r) ==
  LET k == key[Seq1(r)]
      e == [rounds[k] EXCEPT !.held = @ \/ Busy(rounds[k])]
      closed == [Finish(e) EXCEPT !.partial = Cardinality(e.seen), !.timedOut = TRUE]
  IN /\ Waiting(r)
     /\ k # 0
     /\ rounds[k].status = "open"
     /\ IF LeftAlone(e, r)
          THEN /\ rounds' = [rounds EXCEPT ![k] = [e EXCEPT !.status = "err"]]
               /\ run' = Aborted(run)
          ELSE /\ rounds' = [rounds EXCEPT ![k] = closed]
               /\ run' = IF e.seq = 1 THEN DropMissedStart(e) ELSE run
     /\ UNCHANGED <<key, rank>>

\* The hard timeout of a round that had been held and is no longer: 504.
HardTimeout(r) ==
  LET k == key[Seq1(r)] IN
  /\ Waiting(r)
  /\ rounds[rank[r].at].held
  /\ ~Holdable(k)
  /\ rank' = [rank EXCEPT ![r].pc = "failed"]
  /\ UNCHANGED <<run, rounds, key>>

-----------------------------------------------------------------------------
(* handleDDPSync, its second critical section, and what the shim does with *)
(* the reply.                                                              *)

AfterSync(s) ==
  IF s = MaxSeq THEN "done" ELSE IF s \in Boundaries THEN "boundary" ELSE "step"

\* _apply_rebalance: the whole ring replaces what was pending.
Pending(r, n) ==
  IF \E sh \in n.shares : sh.world >= rank[r].shares.world /\ r \in Sharing(sh)
    THEN {[shares |-> CHOOSE sh \in n.shares : TRUE, join |-> n.join, from |-> n.from]}
    ELSE rank[r].pending

\* Mutant: the round goes once everybody in the average has it.
AllTookSeen(e, fetched) == e.seen \subseteq fetched

\* As many took the answer home as the round expected.
AllTook(e, fetched) == Cardinality(fetched) >= e.expected

\* The round's answer is taken home; the last one expected to takes it off
\* the board.
TakeResult(r) ==
  LET k == rank[r].at
      e == rounds[k]
      s == e.seq
      n == NoteFor(r, s)
      fetched == e.fetched \cup {r}
  IN /\ InSync(r)
     /\ e.status = "result"
     /\ rounds' = [rounds EXCEPT ![k].fetched = fetched]
     /\ key' = IF AllTook(e, fetched) THEN [key EXCEPT ![s] = 0] ELSE key
     /\ run' = IF n = NoNote THEN run ELSE [run EXCEPT !.noteTold = @ \cup {r}]
     /\ rank' = [rank EXCEPT
                   ![r].model = Append(@, e.seen),
                   ![r].pending = Pending(r, n),
                   ![r].pc = IF n.drop = r THEN "solo"
                             ELSE AfterSync(s)]

\* An error is every waiter's answer: the rank stops and the round goes.
TakeAbort(r) ==
  LET e == rounds[rank[r].at] IN
  /\ InSync(r)
  /\ e.status = "err"
  /\ rounds' = [rounds EXCEPT ![rank[r].at].fetched = @ \cup {r}]
  /\ run' = IF NoteFor(r, e.seq) = NoNote THEN run
            ELSE [run EXCEPT !.noteTold = @ \cup {r}]
  /\ key' = [key EXCEPT ![e.seq] = 0]
  /\ rank' = [rank EXCEPT ![r].pc = "stopped"]

-----------------------------------------------------------------------------
(* The epoch boundary (_ring_switch) and a rank joining.                   *)

\* The change is in force; a rank left alone in the ring stops syncing.
Switched(r, p) ==
  [rank EXCEPT ![r].shares = p.shares, ![r].pending = {},
               ![r].pc = IF Cardinality(Sharing(p.shares)) <= 1 THEN "solo" ELSE "step"]

\* Nothing pending, or a change this rank hands nothing over for.
Boundary(r) ==
  /\ rank[r].pc = "boundary"
  /\ \A p \in rank[r].pending :
       ~(p.shares.world > rank[r].shares.world /\ p.from = r /\ p.join # NoRank)
  /\ rank' = IF rank[r].pending = {} THEN [rank EXCEPT ![r].pc = "step"]
             ELSE Switched(r, CHOOSE p \in rank[r].pending : TRUE)
  /\ UNCHANGED <<run, rounds, key>>

\* handleDDPSnapshotPut: kept for the joiner, if that one still waits for it.
PutSnapshot(j, model, shares) ==
  /\ run.join.rank = j
  /\ run.join.snap = {}
  /\ run' = [run EXCEPT !.join.snap = {[model |-> model, shares |-> shares]}]

\* This rank uploads its model for the joiner; an upload that fails or that
\* nobody waits for drops the joiner (_drop_joiner).
HandOver(r) ==
  /\ rank[r].pc = "boundary"
  /\ \E p \in rank[r].pending :
       /\ p.shares.world > rank[r].shares.world
       /\ p.from = r
       /\ p.join # NoRank
       /\ rank' = Switched(r, p)
       /\ \/ PutSnapshot(p.join, rank[r].model, p.shares) /\ UNCHANGED rounds
          \/ MarkDown(p.join)
  /\ UNCHANGED key

\* sharesWith: a share for the joiner, none for ranks that left.
SharesWith(s) == [s EXCEPT !.world = Joiner + 1, !.out = @ \cup run.dropped]

\* ddpJoin: the ring grows at the next boundary.
Join ==
  LET from == LowestLive(run.dropped, run.world)
      r1 == [run EXCEPT
               !.shares = SharesWith(@),
               !.world = Joiner + 1,
               !.join = [rank |-> Joiner, from |-> from, oldWorld |-> run.world, snap |-> {}]]
  IN /\ rank[Joiner].pc = "absent"
     /\ Joins
     /\ \E r \in Ranks : Active(r)
     /\ run.lastSeq > 0
     /\ IF run.aborted \/ from = NoRank
          THEN /\ rank' = [rank EXCEPT ![Joiner].pc = "failed"]
               /\ UNCHANGED run
          ELSE /\ run' = Publish(r1, run.lastSeq + 1, RingNote(r1))
               /\ rank' = [rank EXCEPT ![Joiner].pc = "ready"]
     /\ UNCHANGED <<rounds, key>>

\* handleDDPSnapshotGet: the joiner's poll answers with the model, or says the
\* rank is no longer joining.
TakeSnapshot ==
  /\ rank[Joiner].pc = "ready"
  /\ \/ /\ run.join.rank # Joiner
        /\ rank' = [rank EXCEPT ![Joiner].pc = "failed"]
     \/ /\ run.join.rank = Joiner
        /\ \E m \in run.join.snap :
             rank' = [rank EXCEPT ![Joiner].pc = "got", ![Joiner].model = m.model,
                                  ![Joiner].shares = m.shares]
  /\ UNCHANGED <<run, rounds, key>>

\* The whole snapshot is written: the join is over, the joiner loads it.
Joined ==
  /\ rank[Joiner].pc = "got"
  /\ rank' = [rank EXCEPT ![Joiner].pc = "step"]
  /\ run' = IF run.join.rank # Joiner THEN run
            ELSE [run EXCEPT !.noteTold = @ \cup {Joiner}, !.join = NoJoin,
                             !.loading = Joiner]
  /\ UNCHANGED <<rounds, key>>

-----------------------------------------------------------------------------
(* The submitter (ddpAwaitRanks) and the world.                            *)

Die(r) ==
  /\ r \in Mortal
  /\ Active(r)
  /\ rank' = [rank EXCEPT ![r].pc = "dead"]
  /\ UNCHANGED <<run, rounds, key>>

\* A lost rank, or a joiner whose join failed, is reported to the lead; the
\* submitter may also lose a machine that still reaches the lead.
Down(r) ==
  /\ r \notin run.dropped
  /\ \/ rank[r].pc = "dead"
     \/ r = Joiner /\ rank[r].pc \in {"failed", "stopped"}
     \/ r \in FalselyLost /\ Active(r)
  /\ MarkDown(r)
  /\ UNCHANGED <<key, rank>>

\* A rank that no longer syncs trains on and finishes.
FinishAlone(r) ==
  /\ rank[r].pc = "solo"
  /\ rank' = [rank EXCEPT ![r].pc = "done"]
  /\ UNCHANGED <<run, rounds, key>>

\* The submitter has no result left to hear from a rank it gave up, and no
\* way left to stop it.
GivenUp(r) == r \in FalselyLost \cap run.dropped
Followed(r) == Active(r) /\ ~GivenUp(r)

Stop(pc) == rank' = [r \in Ranks |->
                       IF Followed(r) THEN [rank[r] EXCEPT !.pc = pc] ELSE rank[r]]

\* The script failed or the ring was stopped: every rank is cancelled.
EndRun ==
  /\ \E r \in Ranks \ {Joiner} :
       rank[r].pc \in {"failed", "stopped"} /\ ~GivenUp(r)
  /\ \E r \in Ranks : Followed(r)
  /\ Stop("cancelled")
  /\ UNCHANGED <<run, rounds, key>>

\* One rank finished, or only the joiner is left: those still going after the
\* grace are stopped.
Grace ==
  /\ \/ \E r \in Ranks : rank[r].pc = "done" /\ ~GivenUp(r)
     \/ \A r \in Ranks \ {Joiner} : ~Followed(r)
  /\ \E r \in Ranks : Followed(r)
  /\ Stop("graced")
  /\ UNCHANGED <<run, rounds, key>>

Over == (\A r \in Ranks : ~Active(r)) /\ UNCHANGED vars

-----------------------------------------------------------------------------
FirstShares == [fit |-> 0, out |-> {}, world |-> World]

NewRun ==
  [aborted |-> FALSE, dropped |-> {}, lastSeq |-> 0, world |-> World,
   shares |-> FirstShares, reports |-> {}, join |-> NoJoin,
   loading |-> NoRank, note |-> NoNote, noteSeq |-> 0, noteTold |-> {}]

Init ==
  /\ run = NewRun
  /\ rounds = <<>>
  /\ key = [s \in Syncs |-> 0]
  /\ rank = [r \in Ranks |->
               [pc |-> IF r = Joiner THEN "absent" ELSE "step", at |-> 0,
                model |-> <<>>, shares |-> FirstShares, pending |-> {}]]

Rank(r) ==
  \/ Refused(r) \/ MissedStart(r) \/ WrongWorld(r) \/ Post(r)
  \/ Hold(r) \/ PartialGone(r) \/ Partial(r) \/ HardTimeout(r)
  \/ TakeResult(r) \/ TakeAbort(r)
  \/ Boundary(r) \/ HandOver(r)
  \/ Die(r) \/ Down(r) \/ FinishAlone(r)

Next == (\E r \in Ranks : Rank(r)) \/ Join \/ TakeSnapshot \/ Joined
        \/ EndRun \/ Grace \/ Over

Spec == Init /\ [][Next]_vars

\* A blocked request is answered once its round is, and its timer fires.
Handled(r) == Partial(r) \/ TakeResult(r) \/ TakeAbort(r)
FairSpec == Spec /\ \A r \in Ranks : WF_vars(Handled(r))

-----------------------------------------------------------------------------
(* Properties.                                                             *)

\* Shares, notes, rounds and ranks have the shape the code gives them; a round
\* on the board is filed under its own sync, and a rank waits in a round of its.
TypeOK ==
  /\ run.aborted \in BOOLEAN
  /\ UNION {run.dropped, run.reports, run.noteTold, run.shares.out} \subseteq Ranks
  /\ run.lastSeq \in 0..MaxSeq
  /\ run.noteSeq \in 0..(MaxSeq + 1)
  /\ run.world \in {World, World + 1}
  /\ run.loading \in {Joiner, NoRank}
  /\ run.join.rank \in {Joiner, NoRank}
  /\ \A s \in Syncs : key[s] \in 0..Len(rounds)
  /\ \A s \in Syncs : key[s] # 0 => rounds[key[s]].seq = s
  /\ \A i \in DOMAIN rounds :
       LET e == rounds[i] IN
       /\ e.status \in {"open", "result", "err"}
       /\ e.expected \in 1..e.world
       /\ e.seen # {} /\ e.seen \cup e.fetched \subseteq 0..(e.world - 1)
  /\ \A r \in Ranks :
       /\ Len(rank[r].model) \in 0..MaxSeq
       /\ InSync(r) => rank[r].at \in DOMAIN rounds /\ rounds[rank[r].at].seq = Seq1(r)

Live(r) == r \notin run.dropped

Starters == 0..(World - 1)

\* A sync was opened again after ranks took its answer home that were dropped
\* since: they count among those the round waits for before it leaves the board.
Reopened(s) ==
  \E i, j \in DOMAIN rounds :
    /\ i < j /\ rounds[i].seq = s /\ rounds[j].seq = s
    /\ rounds[i].fetched \cap run.dropped # {}

\* Ranks still in the ring never drift: any two applied the same average for
\* every sync they both made, late ranks and short-handed rounds included
\* ("every rank still receives the identical result, so nobody drifts"), except
\* for a reopened one.
SameModel ==
  \A r, q \in Starters :
    Live(r) /\ Live(q) =>
      \A i \in DOMAIN rank[r].model \cap DOMAIN rank[q].model :
        rank[r].model[i] = rank[q].model[i] \/ Reopened(i)

\* Only a round's timer leaves a rank of the ring out of an average: a dropped
\* rank's contribution never closes a round on a rank still to come (liveIn).
OnlyTimeoutLeavesOut ==
  /\ TypeOK
  /\ \A i \in DOMAIN rounds :
       LET e == rounds[i] IN
       e.status = "result" /\ ~e.timedOut =>
         (0..(e.world - 1)) \ run.dropped \subseteq e.seen

\* A round stays on the board until the last live rank has its answer: a rank
\* that comes late takes that answer home and does not open the round again, to
\* wait there alone and end the ring, unless the sync was reopened on another.
LateTakesKeptAnswer ==
  /\ \A i \in DOMAIN rounds :
       rounds[i].status = "open" => key[rounds[i].seq] = i \/ Reopened(rounds[i].seq)
  /\ \A r \in Starters : Live(r) /\ InSync(r) =>
       \A i \in DOMAIN rounds :
         rounds[i].seq = Seq1(r) /\ rounds[i].status = "result"
           => i = rank[r].at \/ Reopened(Seq1(r))

\* The comment at completed(): that answer is there for every late rank.
LateTakesTheAnswer ==
  \A r \in Ranks : Live(r) /\ InSync(r) =>
    \A i \in DOMAIN rounds :
      rounds[i].seq = Seq1(r) /\ rounds[i].status = "result" => i = rank[r].at

Epoch(r) == Cardinality({b \in Boundaries : b <= Len(rank[r].model)})

\* Every rank takes a change of the ring at the same epoch boundary: two ranks
\* of the ring training the same epoch slice the data by the same shares.
SameRing ==
  \A r, q \in Ranks :
    /\ Live(r) /\ Live(q)
    /\ {rank[r].pc, rank[q].pc} \subseteq {"step", "wait", "reply"}
    /\ Epoch(r) = Epoch(q)
    => rank[r].shares = rank[q].shares

\* The reply says how many ranks the average is over.
RanksHonest ==
  \A i \in DOMAIN rounds :
    LET e == rounds[i] IN
    e.status = "result" =>
      (IF e.partial > 0 THEN e.partial ELSE e.world) = Cardinality(e.seen)

\* The rank the board names to hand the model to a joiner, also after the one
\* before it died, has still to take the boundary it hands it over at.
HandoverPossible ==
  run.join.from # NoRank /\ run.join.snap = {} =>
    rank[run.join.from].shares.world <= run.join.oldWorld

\* Ranks train in lockstep, so the ranks still going when one finishes are
\* stopped only once the ring is done: a rank of the ring finished too.
GraceAfterRing ==
  (\E r \in Ranks \ {Joiner} : rank[r].pc = "graced") =>
    \E r \in Ranks : Live(r) /\ rank[r].pc = "done"

\* A sync is answered: no rank is left blocked on a round.
SyncReturns == \A r \in Ranks : InSync(r) ~> ~InSync(r)
=============================================================================
