-------------------------------- MODULE MCRun -------------------------------
(***************************************************************************)
(* A run seen from its submitter, for TLC: how the command places a job    *)
(* and survives a lost connection, and what becomes of the run's record.   *)
(* RunHistory leaves open what Submitter decides (the outcome of a stream  *)
(* is any of them), so a behaviour is about one of the two (part).         *)
(***************************************************************************)
EXTENDS Submitter, RunHistory

VARIABLE part

runVars == <<part, vars, histVars>>

\* A part that does not run starts in one state.
RunInit ==
  /\ part \in {"command", "history"}
  /\ Init /\ HistInit
  /\ part = "command" => ~Run.asked

Command(A) == part = "command" /\ A /\ UNCHANGED <<part, histVars>>
History(A) == part = "history" /\ A /\ UNCHANGED <<part, vars>>

\* A run that is over leaves nothing to do.
HistOver == Run.pc = "over" /\ UNCHANGED histVars

RunNext == Command(Next) \/ History(HistNext) \/ History(HistOver)

\* The command: as Submitter's Fairness.  The daemon's watcher looks again
\* every while, every process that holds or waits for a record's lock goes on
\* (flock wakes the waiters in turn), days pass and this machine is online in
\* the end.
RunFairness ==
  /\ WF_runVars(Command(Progress)) /\ WF_runVars(Command(Online))
  /\ WF_runVars(Command(LoseConnection /\ Broken))
  /\ \A l \in Slot : WF_runVars(Command(JobEnds(l)))
  /\ \A n \in Node : WF_runVars(Command(Restart(n))) /\ WF_runVars(Command(Heal(n)))
  /\ WF_runVars(History(WatchStep)) /\ SF_runVars(History(TakeLock("watch")))
  /\ WF_runVars(History(Locked("attach") \/ AttachAfter))
  /\ WF_runVars(History(Locked("run") \/ FinishRun))
  /\ WF_runVars(History(DayPasses)) /\ WF_runVars(History(BackOnline))

RunSpec == RunInit /\ [][RunNext]_runVars /\ RunFairness

\* Every command that has begun to place a job returns: with its result, an
\* error, a detach or the cancel, although connections are lost and networks
\* cut.  A detached job that has ended is collected, or failed with its node,
\* at last: by the watcher of whichever daemon runs, although processes die,
\* the node is unreachable for a while and others hold the record's lock (a
\* record torn by a crash is beyond it).
RunsSettle == []<>(/\ pc \in {"start"} \union Returned
                   /\ torn \/ ~Pending(rec) \/ at = "running")
=============================================================================
