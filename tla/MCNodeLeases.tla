---------------------------- MODULE MCNodeLeases ----------------------------
(* Model-checking instance of NodeLeases.                                  *)
EXTENDS NodeLeases, TLC

\* Every job is sandboxed, so no process group is recorded.
SandboxNext ==
  \/ \E l \in Lease, g \in BOOLEAN : Accept(l, g)
  \/ \E l \in Lease : \/ CommitRead(l) \/ CommitApply(l) \/ Renew(l) \/ Complete(l)
                      \/ ClientLeaves(l) \/ Overdue(l) \/ UploadFails(l)
  \/ \E j \in Job, l \in Lease \union {NoLease} : Upload(j, l)
  \/ \E j \in Job : \/ ExecBegin(j) \/ ExecAbort(j) \/ ExecBind(j) \/ ExecRun(j) \/ ExecStart(j)
                    \/ ProcExits(j) \/ ExecRecord(j) \/ ExecRelease(j)
  \/ \E j \in Job, st \in Final : ExecFinish(j, st)
  \/ SweepRead \/ SweepApply \/ CopyLeases
  \/ \E t \in copied : CopyJobs(t)
  \/ \E s \in inflight : Save(s)
  \/ Crash

SandboxSpec == Init /\ [][SandboxNext]_vars /\ Fairness

Symmetry == Permutations(Lease)
=============================================================================
