----------------------------- MODULE MCLinks -----------------------------
(* PeerLinks for TLC.  The introducer is asked every few seconds (sync,     *)
(* retryHinted), timers run out, and a packet that is sent over an open way *)
(* arrives in the end: each is a goroutine or a timer of its own.           *)
EXTENDS PeerLinks

LinkFair ==
    /\ \A n \in Ends :
          /\ WF_linkVars(Poll(n)) /\ WF_linkVars(NetBack(n)) /\ WF_linkVars(PenaltyEnds(n))
          /\ WF_linkVars(Punched(n)) /\ WF_linkVars(Dial(n)) /\ WF_linkVars(Answered(n) \/ Refused(n))
          /\ WF_linkVars(DropExpired(n)) /\ WF_linkVars(GraceEnds(n))
    /\ \A c \in Conns :
          /\ WF_linkVars(Admit(c) \/ Inbound(c))
          /\ \A n \in Ends : WF_linkVars(LearnClose(c, n))

LinkSpec == LinkSteps /\ LinkFair
==========================================================================
