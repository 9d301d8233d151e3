---------------------------- MODULE JobOutputLog ----------------------------
(***************************************************************************)
(* One job's output log (joblog.go) and the attach handlers that replay    *)
(* and follow it (attach.go).  The exec handler appends numbered frames to *)
(* output.jsonl and to the channel of every live attacher; an attacher     *)
(* reads the file and subscribes under one lock, and goes back to the file *)
(* when its channel is closed, because the job finished or because it fell *)
(* behind.  The file is trimmed from the front when it grows too large.    *)
(*                                                                         *)
(* A frame is its number and its kind; bytes are left out, so a trim may   *)
(* come after any write and keep any number of the newest frames.  A write *)
(* that fails (a full disk) may leave part of a line, which spoils the     *)
(* next one.                                                               *)
(***************************************************************************)
EXTENDS Naturals, Sequences, FiniteSets, KeptElements

CONSTANTS
  Attacher,      \* attach connections
  Buffer,        \* attachBuffer: frames a live attacher may fall behind
  MaxFrames,     \* bound: frames of the job, the done frame included
  MaxFailures,   \* bound: writes that fail
  MaxCrashes     \* bound: daemon crashes

ASSUME LogAssumption ==
  Buffer \in Nat \ {0} /\ MaxFrames \in Nat /\ MaxFailures \in Nat /\ MaxCrashes \in Nat

VARIABLES
  seq,       \* jobOutputLog.seq
  done,      \* jobOutputLog.done: final holds the done frame
  file,      \* the readable lines of output.jsonl
  torn,      \* the file ends in part of a line
  ended,     \* the job record has a final status
  up,        \* the daemon runs
  pc,        \* where each attach handler is
  past,      \* frames follow returned and the handler has not sent
  chan,      \* its subscription: open = in l.subs
  ticked,    \* endedSince is set
  shown,     \* the frame sent last; its seq is the handler's variable last
  failures, crashes

log     == <<seq, done, file, torn, failures>>
handler == <<pc, past, ticked, shown>>
vars    == <<seq, done, file, torn, ended, up, pc, past, chan, ticked, shown,
             failures, crashes>>
-----------------------------------------------------------------------------
Kind  == {"out", "done", "note"}
Frame == [seq : Nat, kind : Kind]
Start == [seq |-> 0, kind |-> "start"]
NoSub == [buf |-> <<>>, open |-> FALSE]

Subs == {a \in Attacher : chan[a].open}

\* readStoredOutput: the frames numbered above after.
ReadAfter(lines, after) == Keep(lines, {i \in DOMAIN lines : lines[i].seq > after})

HasDone(lines) == \E i \in DOMAIN lines : lines[i].kind = "done"

\* The number a log reopened from the file goes on from.
LastSeq(lines) == IF lines = <<>> THEN 0 ELSE lines[Len(lines)].seq

\* Mutant: the note takes the number of the first frame it keeps.
TrimmedLate(lines, cut) ==
  <<[seq |-> lines[cut + 1].seq, kind |-> "note"]>> \o SubSeq(lines, cut + 1, Len(lines))

\* trim: the first cut frames give way to a note with the last one's number.
Trimmed(lines, cut) ==
  <<[seq |-> lines[cut + 1].seq - 1, kind |-> "note"]>> \o SubSeq(lines, cut + 1, Len(lines))

\* What write may leave of the file.  A line after part of a line is lost
\* with it; the partial line of a failed write stays.
WriteFile(m) ==
  \/ /\ ~torn
     /\ LET lines == Append(file, m) IN
        \/ file' = lines
        \/ \E cut \in 1..(Len(lines) - 1) : file' = Trimmed(lines, cut)
     /\ UNCHANGED <<torn, failures>>
  \/ torn /\ torn' = FALSE /\ UNCHANGED <<file, failures>>
  \/ /\ failures < MaxFailures /\ failures' = failures + 1
     /\ torn' \in {torn, TRUE}
     /\ UNCHANGED file

\* The live attachers after frame m: one whose buffer is full is cut loose.
FanOut(m) ==
  [a \in Attacher |->
     IF ~chan[a].open THEN chan[a]
     ELSE IF Len(chan[a].buf) < Buffer THEN [chan[a] EXCEPT !.buf = Append(@, m)]
     ELSE [chan[a] EXCEPT !.open = FALSE]]

Closed(subs) == [a \in Attacher |-> [subs[a] EXCEPT !.open = FALSE]]
-----------------------------------------------------------------------------
Init ==
  /\ seq = 0 /\ done = FALSE /\ file = <<>> /\ torn = FALSE
  /\ ended = FALSE /\ up = TRUE
  /\ pc     = [a \in Attacher |-> "off"]
  /\ past   = [a \in Attacher |-> <<>>]
  /\ chan   = [a \in Attacher |-> NoSub]
  /\ ticked = [a \in Attacher |-> FALSE]
  /\ shown  = [a \in Attacher |-> Start]
  /\ failures = 0 /\ crashes = 0
-----------------------------------------------------------------------------
(* The job's side: Append, Finish, then the job's status.                  *)

AppendFrame ==
  /\ up /\ ~done /\ seq + 1 < MaxFrames
  /\ LET m == [seq |-> seq + 1, kind |-> "out"] IN
       WriteFile(m) /\ chan' = FanOut(m)
  /\ seq' = seq + 1
  /\ UNCHANGED <<done, ended, up, handler, crashes>>

\* Finish: the done frame, then every subscription is closed.
RecordDone ==
  /\ LET m == [seq |-> seq + 1, kind |-> "done"] IN
       WriteFile(m) /\ chan' = Closed(FanOut(m))
  /\ seq' = seq + 1
  /\ done' = TRUE

Finish ==
  /\ up /\ ~done /\ ~ended
  /\ RecordDone
  /\ UNCHANGED <<ended, up, handler, crashes>>

\* The exec handler sets the status once the done frame is recorded.
SetStatus ==
  /\ up /\ done /\ ~ended
  /\ ended' = TRUE
  /\ UNCHANGED <<log, up, chan, handler, crashes>>
-----------------------------------------------------------------------------
(* handleJobAttach.                                                        *)

Attach(a) ==
  /\ up /\ pc[a] = "off"
  /\ pc'     = [pc EXCEPT ![a] = "follow"]
  /\ shown'  = [shown EXCEPT ![a] = Start]
  /\ ticked' = [ticked EXCEPT ![a] = FALSE]
  /\ UNCHANGED <<log, ended, up, past, chan, crashes>>

\* follow: the file is read and the subscription made under one lock; a
\* finished log gives no channel.
Follow(a) ==
  /\ pc[a] = "follow"
  /\ past' = [past EXCEPT ![a] = ReadAfter(file, shown[a].seq)]
  /\ pc'   = [pc EXCEPT ![a] = IF done THEN "replay" ELSE "replaysub"]
  /\ chan' = [chan EXCEPT ![a] = [buf |-> <<>>, open |-> ~done]]
  /\ UNCHANGED <<log, ended, up, ticked, shown, crashes>>

\* One recorded frame is sent; the done frame ends the handler.
Replay(a) ==
  /\ pc[a] \in {"replay", "replaysub"} /\ past[a] # <<>>
  /\ LET m == Head(past[a]) IN
     /\ shown' = [shown EXCEPT ![a] = m]
     /\ past'  = [past EXCEPT ![a] = IF m.kind = "done" THEN <<>> ELSE Tail(@)]
     /\ pc'    = [pc EXCEPT ![a] = IF m.kind = "done" THEN "over" ELSE @]
     /\ chan'  = [chan EXCEPT ![a] = IF m.kind = "done" THEN NoSub ELSE @]
  /\ UNCHANGED <<log, ended, up, ticked, crashes>>

ReplayedSub(a) ==
  /\ pc[a] = "replaysub" /\ past[a] = <<>>
  /\ pc' = [pc EXCEPT ![a] = "live"]
  /\ UNCHANGED <<log, ended, up, past, chan, ticked, shown, crashes>>

\* The client is told that the output was cut short.
TellCut(a) ==
  /\ shown' = [shown EXCEPT ![a].kind = "cut"]
  /\ pc'    = [pc EXCEPT ![a] = "over"]
  /\ chan'  = [chan EXCEPT ![a] = NoSub]

\* A finished log whose file has no done frame.
ReplayedAll(a) ==
  /\ pc[a] = "replay" /\ past[a] = <<>>
  /\ TellCut(a)
  /\ UNCHANGED <<log, ended, up, past, ticked, crashes>>

\* A frame from the channel; one the replay already sent is passed over.
Receive(a) ==
  /\ pc[a] = "live" /\ chan[a].buf # <<>>
  /\ LET m    == Head(chan[a].buf)
         rest == [chan[a] EXCEPT !.buf = Tail(@)] IN
     \/ /\ m.seq <= shown[a].seq
        /\ chan' = [chan EXCEPT ![a] = rest]
        /\ UNCHANGED <<shown, pc>>
     \/ /\ m.seq > shown[a].seq
        /\ shown' = [shown EXCEPT ![a] = m]
        /\ pc'    = [pc EXCEPT ![a] = IF m.kind = "done" THEN "over" ELSE @]
        /\ chan'  = [chan EXCEPT ![a] = IF m.kind = "done" THEN NoSub ELSE rest]
  /\ UNCHANGED <<log, ended, up, past, ticked, crashes>>

\* The channel is closed and drained: catch up from the file.
ChannelClosed(a) ==
  /\ pc[a] = "live" /\ chan[a] = NoSub
  /\ pc' = [pc EXCEPT ![a] = "follow"]
  /\ UNCHANGED <<log, ended, up, past, chan, ticked, shown, crashes>>

\* Mutant: the handler has no ticker.
NoTick(a) == pc[a] = "live" /\ FALSE /\ UNCHANGED vars

\* The ticker: on its second tick after the job ended the handler gives up.
\* A select with a frame waiting may take the tick instead.
Tick(a) ==
  /\ pc[a] = "live" /\ ended
  /\ \/ /\ ~ticked[a]
        /\ ticked' = [ticked EXCEPT ![a] = TRUE]
        /\ UNCHANGED <<pc, chan, shown>>
     \/ /\ ticked[a]
        /\ TellCut(a)
        /\ UNCHANGED ticked
  /\ UNCHANGED <<log, ended, up, past, crashes>>

\* The client goes away, or comes back after it was served.
Leave(a) ==
  /\ pc[a] # "off"
  /\ pc'   = [pc EXCEPT ![a] = "off"]
  /\ past' = [past EXCEPT ![a] = <<>>]
  /\ chan' = [chan EXCEPT ![a] = NoSub]
  /\ UNCHANGED <<log, ended, up, ticked, shown, crashes>>
-----------------------------------------------------------------------------
(* The daemon dies with its connections and starts again: jobOutput reads  *)
(* the file back, and failOrphanedJobs finishes a log without a done frame *)
(* of a job that had not ended.                                            *)

Crash ==
  /\ up /\ crashes < MaxCrashes
  /\ crashes' = crashes + 1
  /\ up'   = FALSE
  /\ seq'  = LastSeq(file)
  /\ done' = HasDone(file)
  /\ pc'   = [a \in Attacher |-> "off"]
  /\ past' = [a \in Attacher |-> <<>>]
  /\ chan' = [a \in Attacher |-> NoSub]
  /\ UNCHANGED <<file, torn, failures, ended, ticked, shown>>

Restart ==
  /\ ~up
  /\ up' = TRUE /\ ended' = TRUE
  /\ \/ (done \/ ended) /\ UNCHANGED <<log, chan>>
     \/ ~done /\ ~ended /\ RecordDone
  /\ UNCHANGED <<handler, crashes>>
-----------------------------------------------------------------------------
AttachStep(a) ==
  Follow(a) \/ Replay(a) \/ ReplayedSub(a) \/ ReplayedAll(a) \/ Receive(a) \/ ChannelClosed(a)

Next ==
  \/ AppendFrame \/ Finish \/ SetStatus
  \/ \E a \in Attacher : Attach(a) \/ AttachStep(a) \/ Tick(a) \/ Leave(a)
  \/ Crash \/ Restart

Spec == Init /\ [][Next]_vars

\* A handler with something to do does it, and the ticker keeps ticking.
Fairness ==
  /\ WF_vars(SetStatus) /\ WF_vars(Restart)
  /\ \A a \in Attacher : WF_vars(AttachStep(a)) /\ WF_vars(Tick(a))

FairSpec == Spec /\ Fairness
-----------------------------------------------------------------------------
\* The log and its attachers have the shape joblog.go gives them; no live channel
\* holds more than its buffer.
TypeOK ==
  /\ seq \in Nat /\ done \in BOOLEAN /\ file \in Seq(Frame) /\ torn \in BOOLEAN
  /\ ended \in BOOLEAN /\ up \in BOOLEAN
  /\ pc \in [Attacher -> {"off", "follow", "replay", "replaysub", "live", "over"}]
  /\ past \in [Attacher -> Seq(Frame)]
  /\ chan \in [Attacher -> [buf : Seq(Frame), open : BOOLEAN]]
  /\ \A a \in Attacher : Len(chan[a].buf) <= Buffer
  /\ ticked \in [Attacher -> BOOLEAN]
  /\ shown \in [Attacher -> [seq : Nat, kind : Kind \union {"start", "cut"}]]
  /\ failures \in Nat /\ crashes \in Nat

\* Attach replays exactly what a live client got: in order, with gaps only
\* behind a trim's note, through slow readers that are cut loose, trims under
\* a reader's feet and restarts.  Every step is one of OutputStream's, until
\* a write of the file fails.
Stream == INSTANCE OutputStream WITH Viewer <- Attacher, produced <- seq, closed <- done
StreamPromise == Stream!SInit /\ [][failures' > 0 \/ Stream!SNext]_(Stream!svars)

\* An attacher of a job that is over is let go in the end, whatever was lost;
\* and one that comes after the job's end is shown its done frame, not a claim
\* that there is none, however the log was trimmed or reopened, as long as no
\* write of it failed.
AttachEnds == \A a \in Attacher :
  /\ (ended /\ pc[a] # "off") ~> (pc[a] \in {"over", "off"} \/ ~up)
  /\ (up /\ ended /\ failures = 0 /\ pc[a] = "follow" /\ shown[a] = Start)
       ~> (shown[a].kind = "done" \/ pc[a] = "off")

\* lostDoneGrace is for done frames that never reached the log: a client is
\* told the output was cut short only if the file has no done frame.
CutMeansNoneRecorded ==
  \A a \in Attacher : shown[a].kind = "cut" => ~HasDone(file)

\* handleJobAttach's comment: the frames end with the done frame.  A client
\* is told of none only if the daemon has none.
CutMeansNoneKnown ==
  \A a \in Attacher : pc[a] = "over" /\ shown[a].kind = "cut" => ~done
=============================================================================
