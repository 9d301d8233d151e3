---------------------------- MODULE OutputStream ----------------------------
(***************************************************************************)
(* What attaching to a job promises, with nothing of how: the frames of a  *)
(* job are numbered, each viewer is shown them in order, frames are left   *)
(* out only behind a note that says so, and nothing follows the done       *)
(* frame.  A viewer may be told that the output was cut short, and may     *)
(* start again from the beginning.                                         *)
(***************************************************************************)
EXTENDS Naturals

CONSTANTS Viewer

VARIABLES produced,   \* frames the job has sent
          closed,     \* the last of them is the done frame
          shown       \* the frame each viewer was shown last

svars == <<produced, closed, shown>>

Start == [seq |-> 0, kind |-> "start"]

SInit == produced = 0 /\ closed = FALSE /\ shown = [v \in Viewer |-> Start]

Produce ==
  /\ ~closed
  /\ produced' = produced + 1
  /\ closed' \in BOOLEAN
  /\ UNCHANGED shown

\* A viewer that was shown the done frame, or told there is none, is done.
Watching(v) == shown[v].kind \notin {"done", "cut"}

ShowNext(v) ==
  /\ Watching(v) /\ shown[v].seq < produced
  /\ shown' = [shown EXCEPT ![v] =
       [seq  |-> @.seq + 1,
        kind |-> IF closed /\ @.seq + 1 = produced THEN "done" ELSE "out"]]
  /\ UNCHANGED <<produced, closed>>

\* A note stands for the frames up to n; the newest frame is never left out.
ShowNote(v, n) ==
  /\ Watching(v) /\ n > shown[v].seq /\ n < produced
  /\ shown' = [shown EXCEPT ![v] = [seq |-> n, kind |-> "note"]]
  /\ UNCHANGED <<produced, closed>>

ShowCut(v) ==
  /\ Watching(v)
  /\ shown' = [shown EXCEPT ![v].kind = "cut"]
  /\ UNCHANGED <<produced, closed>>

StartAgain(vs) ==
  /\ shown' = [v \in Viewer |-> IF v \in vs THEN Start ELSE shown[v]]
  /\ UNCHANGED <<produced, closed>>

SNext ==
  \/ Produce
  \/ \E v \in Viewer : ShowNext(v) \/ ShowCut(v)
  \/ \E v \in Viewer, n \in 1..produced : ShowNote(v, n)
  \/ \E vs \in SUBSET Viewer : StartAgain(vs)

SSpec == SInit /\ [][SNext]_svars
=============================================================================
