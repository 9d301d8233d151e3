# A verification project for Pipedpeer

Pipedpeer runs Python scripts and parallel Python work on the machines of a
small trusted cluster.  Every machine runs one daemon (`src/src/internal/daemonapi`);
a command line (`src/src`, `internal/app`, `internal/coordinator`) submits jobs to
the daemons, and a shim inside the Python process (`internal/nixgen/shim`) hands
the parallel parts of a script (a process pool's map, the gradient averaging of a
training run) to the daemon next to it.

This directory holds TLA+ modules translated from that code, TLC configurations
that check them on small instances, and theorems that TLAPS checks for every
value of the constants.  `PROJECT.json` lists the runs, the source lines each
definition models (`map`), the places in the code that are hard to test
(`hazards`), and a mutant of the code for every property of a run.  Where the code
does not do what its own comments say is section 4.

    tlc -workers 2 -config NodeLeases_crash.cfg MCNodeLeases      # one run
    tlapm NodeProofs.tla                                          # the proofs

## 1. Inventory

| Component | State it keeps | Operations | What makes it correct |
|---|---|---|---|
| Node daemon: leases and jobs (`serverlease.go`, `serverhttp.go`, `execupload.go`, `execrun.go`, `state.go`) | lease table, job table, JSON snapshot of both | accept, commit, renew, complete, upload, exec, sweep, persist, restart | no device twice, cap respected, no lease kept for nothing, no process nobody supervises, a restart loses nothing that matters |
| Job output log (`joblog.go`, `attach.go`) | `output.jsonl`, frame counter, live subscribers | append, finish, trim, attach, follow, reopen after a restart | an attacher sees the frames in order and the done frame at the end, or is told what is missing |
| Pool chunks (`pool.go`, `poolrun.go`, `poolremote.go`, `poolsteal.go`) | failed peers, depth book, backup flag, running parts | split, walk peers, gate, steal, race, fall back | every item once, in order; slots come back; a chunk ends |
| Pool warm workers (`poolworker.go`) | one worker process per store | spawn, submit, cancel, forget, stop | no process is lost or reaped twice; a cancel frees the worker |
| Submitter (`coordinator`, `app/run.go`, `app/lostconn.go`, `daemonctl`) | tried and refused nodes, current lease, attempt counter | find, place, commit, stream, judge a lost connection, retry, renew, detach, cancel | no second copy but beside an orphan or a misread answer, bounded starts, always returns, lease covers the job |
| DDP board and ring (`ddpsync.go`, `ddpboard.go`, `ddpdown.go`, `ddpup.go`, `ddprebalance.go`, `src/ddpdown.go`, `ddp_ring.py`, `ddp_sync.py`) | rounds, dropped ranks, the change note, the join | sync, fetch, timeout, down, note, join, hand over, boundary | all ranks hold the same model and the same ring; nobody waits for ever |
| DDP arithmetic, local rounds, butterfly (`ddpreduce.go`, `ddplocal.go`, `ddp_sync.py`) | partial sums per machine and shard, carried rounding | send, sum near, forward, close short, lose a shard | an average is what one machine would compute over the samples of the ranks in it; rounding is delayed, not lost |
| DDP refit and data shards (`ddprebalance.go`, `ddppacing.go`, `ddp_sampler.py`) | shares, reports, the epoch's cut | report, reshare, drop, release, cut | every sample once, the same number of steps everywhere, a refit that pays |
| DDP planning and growing (`ddp_plan.go`, `ddp_cmd.go`, `src/ddpup.go`, `internal/ddpplace`) | plan of ranks, lead, devices, shares; rank goroutines | plan, launch, await, grow | the ring can train and is the best one; when the command returns nothing runs |
| Node directory (`nodes.go`, `nodespoll.go`, `nodespeers.go`, `gossip.go`, `internal/nodestore`) | a row per node and its paths on disk, expected keys, pending forwarders, refused addresses | discover, poll, verify, drop, add and remove a forwarder, learn, prune | an address belongs to one node; a removed forwarder stays removed; a peer that stays is found |
| Closures (`serverclosure.go`, `narimport.go`, `narcache.go`, `cas.go`, `peerstore.go`, `internal/peercache`) | store paths, in-flight imports, caches | diff, upload, import, substitute, evict | references before referrers; one import per path |
| Pool routing and wire (`poolhandlers.go`, `poolwire.go`) | globals each peer holds | admit, forward, micro chunks, encode, resend | a request is forwarded at most once; an answer is whole and in order |
| Pool race in the shim (`pool.py`, `pool_race.py`, `pool_pacing.py`) | queue, results, threads' chunks | take, send, fill, run again | every item's result, whatever the cluster does |
| Sandbox and memory (`execrun.go`, `execsupervise.go`, `internal/cgroups`) | processes, pipes, kills, cgroups | start, read, cancel, kill, prepare | what a job is told of its end is what happened; a cancelled job ends |
| Starting and stopping the daemon (`internal/daemonctl`, `main.go`) | pid file, systemd unit, port | start, stop, restart, boot | every daemon can be found; none fails the jobs of one that runs |
| Reaching peers (`internal/internet`, `direct`, `rendezvous`) | registrations, attempts, connections, links | register, race, collide, dial, accept, replace, expire | both ends keep the same connection and find it again |
| Job history and results (`internal/jobhistory`, `run_cmd.go`, `app/run.go`, `app/fetchback.go`, `app/attach.go`) | one record file per run | run, detach, kill, watch, attach, collect, prune | the record says what happened; results are synced once; a pending run is finished |
| Heartbeat, phones, CLI, setup, UI, estimates, tokens, numpy and pandas interception | - | sequential code, external tools, presentation | - |

How the parts interact.  The submitter asks a daemon for a lease (accept), turns
it into a running one (commit), uploads the closure and the script, opens the
exec stream, and renews the lease from a side goroutine; it hears of the job only
through the stream and through probes.  Inside the daemon the exec handler, the
sweeper, the HTTP handlers and `persist` share the two tables under two mutexes,
and the output log under a third.  A pool request may be split by the daemon that
received it and posted to other daemons, which run it on their warm worker.  A
training rank is a job like any other on its own node, and it talks to the board
of the lead daemon through blocking requests; the submitter tells the board when
a rank's job died.  Every daemon keeps its own address book: it asks around on the
LAN, polls everyone it knows, takes signed address records from its peers, and is
told by internet mode of the loopback ports behind which a distant peer answers;
the submitter and the pool choose nodes from what the polls found.

What is hard in this code: the tables change in several critical sections with
windows between them; persistence copies the tables one after the other and
writes the file outside the locks; a daemon may die anywhere while containers
live on; a lost connection does not say who died; pool parts race copies of
themselves against timers; a shared worker is cancelled by one of its users;
training rounds time out on ranks that are slow rather than dead, and changes of
the ring reach the ranks one reply at a time; polls, retries and the removal of a
path write the same rows while probes are on their way.

## 2. Modules

    MCNode       = NodeLeases | DaemonLife | NodeMemory | MemoryPromises
    MCNodeLeases = NodeLeases
    MCJobOutputLog = JobOutputLog, which INSTANCEs the abstract OutputStream
    MCPool       = PoolMap | WarmWorker | ShimRace | PoolWire
    MCSubmitter  = Submitter
    MCRun        = Submitter | RunHistory
    MCDdp        = DdpBoard | RingPlan | RingRanks | DdpReduce | DdpShares
    MCClosures   = ClosureSend | NixCache | NarCache | SharedDirs | WorkspaceSync
    MCLinks      = PeerLinks
    Directory    EXTENDS NodeStore (pure operators) and is run as it is
    JobSandbox   is run as it is

    DiskLru      is used by NarCache and SharedDirs
    KeptElements is used by JobOutputLog, JobSandbox, DiskLru and RingPlan

The theorems are in `NodeProofs` (NodeLeases, DaemonLife, NodeMemory, MemoryPromises), `JobProofs`
(JobSandbox, JobOutputLog, and DdpShares of the jobs that train together), `PoolProofs` (PoolMap, WarmWorker, ShimRace, PoolWire),
`RunProofs` (Submitter, RunHistory), `DdpProofs` (DdpBoard, RingRanks, RingPlan, DdpReduce), `DirectoryProofs`
(NodeStore, Directory, PeerLinks) and `ClosureProofs` (ClosureSend, NixCache,
WorkspaceSync, DiskLru, SharedDirs, NarCache), with lemmas about recursive functions, sums and orders in `Recursion`;
section 5 says what they state.

A bar means that one run looks at several machines that share no state: the
variable `part` chooses one at the start and the others stay in one initial state.

An action of a module is one critical section, one request handler between two
blocking points, or one step of a goroutine; everything the code does in that
span is in the action.  The `map` in `PROJECT.json` gives the lines.  An MC module
puts the parts of a run side by side, with the fairness of each, joins properties of
several parts that answer one question, and holds what a `.cfg` cannot write.

### NodeLeases: the daemon's tables

`leases` is `Server.leases` (state, device, bound job, and whether the deadline is
past), `jobs` the job records, `exec` where each exec handler is and the lease it was
given, `alive` the jobs whose process runs, `frame` the done frame each job's log and
submitter got, `sweep` what a sweep under way has read, and `disk`, `copied`, `inflight`
and `owed` the snapshot file and the `persist` calls on their way to it.  `revived` are
the leases `bindLease` took again.  `processAccept` is `Accept`; `processCommit` is split
at the point where it drops `s.mu` (`CommitRead`, `CommitApply`); `sweepExpired`
is split between the read of the live jobs and the lease pass (`SweepRead`,
`SweepApply`).  The exec handler is `ExecBegin` (claim the job), `ExecAbort` (the
early returns), `ExecBind` (`bindLease`), `ExecRun`, `ExecStart`, `RecordGroup`,
`ExecFinish` (done frame sent), `ExecRecord` (status written) and `ExecRelease`.
`persist` is `CopyLeases`, `CopyJobs`, `Save`: any number of calls may be between
these steps, so every snapshot that two overlapping calls can leave is reached.
`Crash` loses memory and keeps the file and the containers, and the same step
restarts the daemon: `restore`, the release of leases whose job is gone, and
`failOrphanedJobs`.

Time is the Boolean `overdue` of a lease, set by `Overdue` and cleared by
`Renew`.  Bounds: `MaxOwed` (persist calls not begun), `MaxInFlight` (snapshots
not yet written), `MaxCrashes`.

### OutputStream and JobOutputLog: what an attacher sees

`OutputStream` is the promise: frames are numbered, each viewer is shown them in
order, a gap stands behind a note, nothing follows the done frame, and a viewer
may be told that the output was cut short.  `JobOutputLog` is the code: the file
with its trim, the torn line of a failed write, the per-attacher channel of
`attachBuffer` frames that is closed when it overflows, the handler's loop of
replay, live phase and catch-up, and the two-tick grace after the job's end.
`StreamPromise` is the refinement: `INSTANCE OutputStream` with the frame counter as what
was produced and the last frame each handler sent as what its viewer was shown.

`KeptElements` is the subsequence of the elements that belong to a set, as a recursive
function: what a reader has not seen of the file, what the list of kills holds of others.

### PoolMap: one daemon's chunks

A chunk has parts; a part is where its goroutine is (walking its peers, at the
gate, racing, running here, done).  `deadPeers`, `held` (the depth book) and
`backups` (the one tail backup) are the daemon's and shared.  `Begin` is
`runChunk`'s split into any division of the items, `PartStep` the walk, gate,
steal, post and fallback, `CopyToPeer` and `TailBackup` the two kinds of
backup copy, `CopyWins`, `CopyFails` and `LastCopyFails` the outcomes `runRaced`
collects, `LoserEnds` the copy whose part is over and that still holds a slot.
Timers and predictions may come out either way.

### WarmWorker: one store's worker

`Step` takes a request through `runLocal`: get or spawn the worker, wait for its
mutex, write the task, read the answer, and on failure forget, stop and reap the
worker and run cold.  `KillOnCancel` is the `context.AfterFunc` of a request,
`Answered` the worker's reply or the broken pipe, `WorkerDies` an exit by itself,
`StopAll` the daemon's shutdown.

### Submitter: one job's way to a node

`Progress` is the sequential path through `ExecuteWithRetry`: a placement round
(`FindNode`'s filter and order, accept, commit), the start, the stream, and
`judgeLostConnection`'s probes, network question and verdict.  A probe that is
answered brings the job's status (`StatusRead`) or something that is none
(`NoStatusRead`), which the code takes for a job that is gone.  `Cluster` is what
the nodes and the network do: jobs end; a sweep reads which jobs are live
(`SweepRead`) and frees a lease later (`Sweep`), with a start possible in between;
a machine crashes with its job (`Crash`), or its daemon dies and the job runs on
as an orphan (`DaemonDies`), which the next daemon stops if it can find it
(`Restart`); the submitter goes offline, one path breaks.  A node is reduced to the
leases it granted and the copies it runs; `NodeLeases` is the same node in
detail.

`due`, `late` and `misread` mark leases: one a sweep under way may free, one whose job
started meanwhile, one that was given up on a `NoStatusRead` while its job ran.  The
properties name these marks where the code makes no promise; section 4 has what
happens there.

### DdpBoard: one training run

A contribution is the rank that made it, an average the set of ranks folded in,
a rank's model the sequence of averages it applied.  `Rank(r)` is everything a
rank does: post a sync, be the last one in, time the round out, take the answer
or the abort, take a note at a boundary, hand over or load the model, die, be
reported down, be given up although it runs.  `Join`, `TakeSnapshot`, `Joined` are
the machine that joins, `EndRun` and `Grace` the submitter's verdicts.

### NodeStore and Directory: what one daemon knows of the others

`NodeStore` is the SQLite address book: `row` (state, verified, age) and `path`
(per node and address: kind, verified, last attempt failed, active, age).  Every
method of `store.go` is one transaction on one connection and so one operator that
returns the new table: `SeePath`, `PathOK`, `PathFailed`, `DropPath`, `MarkHealthy`,
`MarkUnreachable`, and the two halves of `PruneStale`.  A time is an age, and only its
order with the four TTLs matters.

`Directory` is the daemon around it.  A poll (`pollAllNodes`) is discovery
(`StartPoll`), `UpsertSelf`, `RetryPending`, `ListNodes`, then a `pollOne` per peer side by
side (`PollSince`, `PollPaths`, `PollProbe` and one of its outcomes `PollFailed`, `PollDrops`
and `PollForgets`, `PollVerifies`; at the end `PollUnreachable`, or `PollDropsStranger` and
`PollHealthy`), then `Publish`, gossip (`Learn`, `LearnSees`, `GossipOver`) and `PruneStale`.
Between any two of these another poll, a retry or a removal may write.  A forwarder
of internet mode comes up (`LinkUp`, which calls `AddPeer`), closes (`LinkDown`) and is
taken off (`RemovePeer`); its peer is tried by `AddPeer`, then by `retrySoon` and by the
`retryPending` of every poll, all of them members of `tries` (`TryWake`, `TryProbe`,
`AddPeerFails`, `AddPeerAnswers`, `TryFails`, `TryAdopts`, `TryUnpends`).  A probe remembers the
generation `pathGen` it began at, and `verifyPath` refuses it when the address was
removed since.  `asked` is a poll that a goroutine was started for; several wishes are one.

The world is `lives` (who answers at an address), `signed` (the records each peer
signed) and `links`.  `Move`, `Vacate`, `Tick`, `Restart`, `LinkUp` and a lost answer are
events: each kind at most once and at most `MaxEvents` in a behaviour.  `Home` is the
address this machine has at first.  A port is not given to a new link while the
old one's `OnPeer` runs.

### DaemonLife, NodeMemory, MemoryPromises and JobSandbox: the machine under the daemon

`DaemonLife` is how commands find, start, stop and restart the daemon: `pidFile`
and `unit` are the two ways to find one, `life` where each daemon is (booting,
serving, told to stop, killed), `saved` whose running job the state file has.
A daemon takes over the saved jobs (`TakeOver`) before it binds the port
(`Bind`), as `runDaemon` does.

`NodeMemory` is the cgroup side: `Prepare` moves the daemon's processes into a
leaf (`Usable`, `ReadMembers`, `MoveMember`, `Vacated`, `Enable`) while others
fork, end and enter.  The budget over nested levels, the watchdog's victim and the
job a kill belongs to are operators, compared in `CeilingIsRight` with what they
should be over every small tree.

`MemoryPromises` is the daemons of one machine that promise its memory to leases.  A
request reads what is free (`ReadLoad`), asks the other daemons what they have promised or
takes the answer kept from an earlier request (`AskMates`, `KeepAnswer`), and is decided
under the lock (`Grant`, `TurnAway`).  `kept` and `fresh` are the kept answer and whether it
is younger than `coResidentTTL`, `polled` the figure that stands for a daemon that does not
answer.

`JobSandbox` is one job's process: `HandlerStep` goes from the exec request to
the done frame, `Supervise` is the cancel with its second signal, `PrintByte` the
output (a character may take two bytes and be cut), `CapKill`, `WatchdogKill`,
`RecordKill` and `KilledByOther` the ways to die by another's hand.

### PoolWire and ShimRace: a map on its way

`PoolWire` has two machines.  A request is admitted, cut into micro chunks,
forwarded or refused (`RouteNext`); bodies go out with their globals or with the
hash of them, and a peer that lacks them answers 409 (`BodyNext`).  `ShimRace` is
the thread race of the Python shim: `pos` is the one queue, `poster` the threads
that post chunks to the cluster, `slots` the results; `RunAgain` is the local
thread's second run of what the cluster holds.

### RunHistory: the record of a run

The run command, the daemon's watcher and an attach are three processes over one
record file (`rec`, `lockBy`, `torn` while it is written).  The node runs, forgets
or hides the job; `Killed` ends any of the three between two of its steps.  What
the stream of a run brings is any outcome `Submitter` has.

### RingPlan, RingRanks, DdpReduce, DdpShares: around the board

`RingPlan` plans the ring from any small list of nodes (`Choose`, `Launch`).
`RingRanks` is the command's loop over the ranks and its grower, which share a
channel, a counter and the table of nodes that died.  `DdpReduce` is the
arithmetic in whole multiples of 1/`Unit`: the three ways of a sync, the int8
rounding carried on at both ends, pad steps, a round that closes short, a machine
lost while shards are under way.  `DdpShares` is the lead's refit and the cut of
the data (`ddp_sampler.py`), each a pure operator used by actions `Report`,
`Reshare`, `DropFreeloader`, `ReleaseTo`, `ShareLost`, `GoDiloco` and `NextEpoch`.

### PeerLinks: two daemons across networks

Two ends that register, race probes, dial and accept.  `att` is an end's attempt,
`conns` the QUIC connections with who holds them open, `link` the one each end has
behind its port, `aged` the ends whose link is past `raceWindow`, `doomed` the ends
that decided to expire their link and have not done it, `penal` the back-off.  The
way between them is open or needs a collision (`nat`).  `punches` are the wake requests an
introducer has forwarded: its bucket may be empty or have filled up again at any request
(`Woken`), so their number has no bound.

### Closures and files: ClosureSend, NixCache, NarCache, SharedDirs, DiskLru, WorkspaceSync

`ClosureSend` follows a closure to one receiver: broadcasts (`CastStep`) that share
a send through `s.seeds`, command lines that upload, the receiver's own downloads
(`FetchStep`) and imports; nix is external and takes a path only after the paths
it refers to.  `NixCache` is the look-up of one hash among peers with its
single flight, what it remembers and the collectors that come late.  `NarCache`
is the archive directory, `SharedDirs` the two directories several transfers use;
both evict by `DiskLru`, which lists first and removes by the listing.

`WorkspaceSync` follows a project's files to a job and back: packed (`PackFiles`), unpacked
with a stamp noted of each (`UploadFiles`), written and removed by the script, found changed
by the stamps (`Walk`), and written into the user's directory one after the other, each
emptied first (`OpenFile`, `CopyFile`, `DeleteFile`), while the user and other runs of the
project write there too.  A file's content is who wrote it.

## 3. Runs

All twelve pass.  A run with several parts counts the states of all of them.

| Run | Instance | Distinct states | Shows |
|---|---|---|---|
| `lease_table` | 3 leases, 1 unisolated job, 1 GPU, cap 2, no persistence; 2 commands, 2 daemons; 2 children and 1 foreign process in the scope, trees of 4 units; 2 daemons that share 3 units of memory, 3 requests | 1,549,029 | `GpuExclusive`, `CapRespected` through the unlocked windows of commit and sweep and through a late bind; `DaemonFound`: a daemon that stays can be found, and a booting one fails no live daemon's jobs, as long as commands do not overlap; `MemoryIsRight`: controllers are enabled over an empty scope, the budget, the victim and a kill's owner are right (`ScopeIsRight`), and the daemons of a machine promise no more memory than it has except through an answer that was outgrown (`PromisesHold`) |
| `lease_crash` | 1 lease, 1 sandboxed job, persistence, 1 crash | 647,847 | `NoLeakedLease`, `FinishedMeansStopped` for a crash at any point of a job's life, and `LeaseEventuallyFreed`: every lease is freed, also after aborts, a lost submitter and the crash |
| `output_stream` | 2 attachers, buffer 1, 4 frames, 1 failed write, 1 crash | 209,237 | `StreamPromise`: the log implements the abstract stream unless a write failed; `AttachEnds`: an attacher of a finished job is let go whatever was lost, and one that comes late sees the done frame if no write failed |
| `pool` | 1 chunk of 2 items in any division, 2 peers of depth 1; 2 requests, 3 workers, 1 death, 2 cancels; 6 items raced by 2 requests at a time; 3 bodies and 2 globals over one link, 3 items routed over 3 nodes | 223,748 | `TriedIsAnswered`: what is missing from an answer belongs to parts no peer was asked for; `BookIsTrue`: slots and the tail backup come back however races end; `LeakedByCancelOnly`; `RaceIsWhole`; `RoutedInOrder`; `ChunkEndsIfLocalWorks`: silent peers cannot hold the chunk while copies here work; `MapReturns` |
| `submit_safe` | 2 nodes, 2 attempts, 3 leases, 1 node that goes down with its job or without, 1 outage, 1 placement round waited for | 3,799,408 | `OneCopy`: a second copy runs only beside an orphan or one given up on an answer that is no status; `StartsBounded`, with the job's lease held while it runs but for a sweep that was under way; both while the network stands still during a judgement |
| `run_settles` | 2 nodes, 2 leases, 1 outage, 1 cut, unsteady network; one record, 2 troubles (a process killed, a node away, this machine offline, a failed write) | 571,768 | `RecordIsTrue`, `FinalStays`; `RunsSettle`: the command comes back whatever the network does, and a pending detached run is finished |
| `ddp_ring` | 4 ranks, 3 syncs, 1 may die; 3 nodes of any of 3 scores and 0 or 2 GPUs; 2 ranks on 2 machines, 1 join, 1 rejoin; 3 ranks, 2 of them on one machine, 2 syncs, vectors of two elements per shard, 1 lost machine; 3 ranks of speed 1 or 8, 2 or 11 samples, batches of 4 or 7, 2 refits | 620,983 | `SameModel`, `LateTakesKeptAnswer`, `OnlyTimeoutLeavesOut`; `RingCanTrain`; `RunIsAccounted`; `TrainsAsOne` = `StepIsExact`, `EpochIsWhole`, `RefitPays`, `FixedStays` |
| `ddp_everything` | 3 ranks and a joiner; a death, a false loss, an odd model, a refit, a freeloader; and the command's loop | 275,302 | `RingEnds`: every blocked sync is answered, and the command of a failed run returns although its grower adds a rank meanwhile |
| `directory` | this daemon and one peer, 2 LAN addresses, 1 forwarder, 2 polls at once, 2 of the events move, link, lost answer, time, crash | 619,986 | `OneOwner`, `RemovedStaysGone` however polls, tries and removals interleave; `StayingPeerIsFound`: a peer that stays at a LAN address ends up healthy there, whatever was known, pinned or lost before |
| `closures` | 2 broadcasts and 1 upload of a closure of 2 paths, 1 of them on the binary cache, 1 fault; 2 peers, 2 builds, 2 questions; 3 stores, 2 archives, room for 1; 3 transfers, 3 files, room for 2; 2 runs of a project of 3 files, 1 of them ignored, 1 edit, 1 mishap | 785,574 | `OneSend`; `LookupsTrue`; `NothingTornOrLost`: archives, shared directories and the user's own files keep what they should; `SendsEnd`: nobody is left believing that an import goes on |
| `links` | 2 ends, 2 connections at a time, any number of forwarded requests, 1 fault | 268,367 | `OpenIsLinked`: no connection is open behind the links; `LinksSettle`: over an open way the two never stay without a link, and come to one connection for good unless wake requests keep reaching an end that is linked by then |
| `sandbox` | 2 jobs, 2 bytes of output each, 5 units of memory, a list of 1 kill, 2 kills | 224,616 | `ToldIsTrue`: what the done frame says of an end happened, and no character is torn; `CancelEnds` |

### Bounds

Leases, jobs, attachers, requests and ranks are as few as the hazard needs: two
holders to collide on a device and a third to pass the cap; two attachers so that
one may fall behind while the other follows; two parts and peers of depth one so
that the book and the flag are contended; three workers so that one is forgotten,
replaced and shared again; two nodes so that a retry has somewhere to go; four
ranks because a rank alone in a round aborts it, so that a short-handed round, a
rank that comes late to it and one dropped after it took the answer need four; two
broadcasts and an upload so that a send is shared, and one of them waits for a
download another cancels; three stores in a cache with room for one so that a
listing is old when it is acted on; two connections between two ends so that dials
cross.  `KillsKept` is 1 so that a second kill pushes the first off the list.
Scores 0, 6 and 24 are nodes whose probe brings nothing, slow ones and fast ones; `Unit` is divisible
by every sum of samples that occurs; shares of 1 and 8 to one and a sync that costs
an eighth or four times the work put a refit on either side of its threshold.
Crashes and failures are bounded by one or two: a restart starts again from the same
kinds of states, so a second crash repeats the first except for what the file
carries, and for the tables the theorems cover that for every instance.
`MaxFrames` 4 leaves room for a trim between frames and for the done frame;
`MaxSeq` 3 leaves a sync before, at and after an epoch boundary.

`submit_safe` uses `UnbrokenSpec` (the next-state relation without broken paths, which
`run_settles` has), and `lease_crash` `SandboxSpec` (without the recording of a process group,
which only unsandboxed jobs do, as in `lease_table`).

Deadlock is checked wherever the modelled part has to go on or come to a named end
(`Finished`, `Over`, `ShareOver`, `HistOver` and so on).  `CHECK_DEADLOCK FALSE`
stands in the runs of `NodeLeases`, where ids are used up and the daemon just waits,
and in `pool`, where all requests may have been cancelled.

### Fairness

Fairness is weak and per goroutine, never on a failure, a cancel or an input:

* `NodeLeases`: the sweeper's ticker, a `persist` that began, the steps of an exec
  handler, a process's exit, the expiry of a deadline, and that a submitter which
  reserved a lease in the end leaves (finite jobs).
* `JobOutputLog`: the exec handler's status write, the restart of a dead daemon
  (its service manager), the steps and ticks of an attach handler.
* `PoolMap`: the part goroutines, the budget timer, a copy run here, a losing
  copy's end.  A peer's answer is **not** fair: a peer may be silent for ever.
* `WarmWorker`: the steps of a request, the `AfterFunc`, and the answer of a worker
  that was killed (its pipe breaks).  A worker's own answer is not fair.
* `ShimRace`: the local thread, and that a chunk the cluster holds is overdue in the
  end.  The cluster owes nothing.
* `Submitter`: the path of `ExecuteWithRetry`, jobs end, outages and cuts end,
  machines restart.  That the stream breaks to a node which stays unreachable, or whose
  daemon has died with the stream's other end (`Broken`), is fair because the
  websocket's dialer leaves Go's TCP keep-alive on; the stream itself has no read
  deadline.
* `RunHistory`: the watcher's ticker, a process that holds the record's lock, time,
  and that this machine is online in the end.  The watcher's turn at the lock is
  strongly fair, since `flock` wakes its waiters in turn.
* `DdpBoard` and `RingRanks`: for each rank, that its blocked request is handled (the
  round's timer, or the fetch of an answer that is there); the command's loop and its
  grower, and that a cancelled rank ends.  Posting a sync is not fair.
* `Directory`: the steps of a poll, of each `pollOne` and of a forwarder's tries, the
  ticker's next poll, and the report of a link that was closed.  A new gossip
  record is learnt only if one comes; no event is owed.
* `ClosureSend`: a sender's goroutine and a broadcast with its timers.  A download from
  the binary cache need not end.
* `PeerLinks`: the introducer is asked every few seconds, timers run out, a packet over an
  open way arrives.
* `JobSandbox`: a job's handler and its supervisor.  The script owes nothing.

## 4. Where the code and its comments part

Met while modelling.  Each entry names the definition that states what the
repository's comment says, its module, and what a trace against it shows.  No run checks
these definitions, which the code does not keep; most have a weaker form that holds, and
that one a run checks.  To see a trace, put the definition into a configuration of
the module as an INVARIANT or a PROPERTY.

* **`WholeAnswer`** (`PoolMap`), `src/src/internal/daemonapi/poolrun.go:358`. The local fallback runs only when e != nil, and e is set only by a peer that was asked. A part whose goroutine first looks at the shared deadPeers after all its peers were put there (by faster parts of the chunk, or by another chunk in flight) skips every peer with e == nil: no peer is asked, nothing runs here, and runChunk answers with fewer results than items. src/src/internal/daemonapi/poolrun.go:160 says "Every part still falls back to local if its peers fail, so nothing is stranded" and line 199 "losing items here is silent and corrupts results". The python shim notices the short reply (pool.py compares the counts) and falls back; other callers of /v1/pool/map need not.
* **`SameRing`** (`DdpBoard`), `src/src/internal/daemonapi/ddpdown.go:137`. Publish replaces the note and clears noteTold while some ranks have fetched the older note's sync and others have not; those others never get the older note, and when that sync is the last of the epoch they cross the boundary with other shares than the ranks that did. The comment at src/src/internal/daemonapi/ddpboard.go:177 says 'every rank must take it at the SAME epoch boundary, or two ranks slice the data differently for an epoch and their step counts part' and at :181 'so a newer note can replace an older one'.
* **`SuccessNotFailed`** (`NodeLeases`), `src/src/internal/daemonapi/joblog.go:325`. Finish sends the done frame to the output log and the submitter (execrun.go:139) before it writes and persists the status (execrun.go:151-158). A daemon that dies in between finds the job "running" or "importing" in its snapshot, and failOrphanedJobs marks it failed although its log already ends with exit 0. The comment at src/src/internal/daemonapi/joblog.go:310 says the job "lost its process ... so nothing would ever finish it: mark it failed"; here the job had finished and its submitter was told so.
* **`DiskHasLatestLeases`** (`NodeLeases`), `src/src/internal/daemonapi/serverlease.go:45`. Persist copies the tables under s.mu and jobsMu but orders nothing between the copy and the write in state.save: of two overlapping calls the one that copied first may write last, and the older lease table stays on disk until the next mutation. The comment at src/src/internal/daemonapi/serverlease.go:28 says "Call after any mutation so a crash or restart starts from the latest state".
* **`NoUnsupervisedProcess`** (`NodeLeases`), `src/src/internal/daemonapi/execrun.go:50`. The changes uploaded -> importing -> running are not persisted; only bindLease happens to save them, and a DDP rank names no lease. After a crash such a job is still "uploaded" in the snapshot, failOrphanedJobs passes over it and its container runs on with nobody supervising it. The comment at src/src/internal/daemonapi/joblog.go:313 says "A crun container or an unisolated job's process group that outlived the daemon is stopped, since no one can collect its output".
* **`RunningJobVisible`** (`NodeLeases`), `src/src/internal/daemonapi/serverlease.go:79`. SweepExpired reads the set of live jobs, then takes s.mu. A job that is uploaded and bound to its overdue lease between the two is not in that set, so the sweep deletes the lease under it and the job runs uncounted. The comment at src/src/internal/daemonapi/serverlease.go:135 says a lease that expired is taken again "so a running job is never invisible to admission".
* **`GpuExclusive`** (`NodeLeases`), `src/src/internal/daemonapi/serverhttp.go:434`. With a GPU but no per-device telemetry reserveGPULocked returns device 0 before it looks at the lease table, so two live leases hold device 0. The comment at src/src/internal/daemonapi/serverhttp.go:372 says "reserve a specific device so two concurrent jobs on this node do not land on the same card".
* **`CutMeansNoneRecorded`** (`JobOutputLog`), `src/src/internal/daemonapi/attach.go:184`. The select of the live loop may take the ticker while frames, the done frame among them, wait in the attacher's channel; two such ticks after the job ended (a client whose socket takes the frames slowly) and the handler sends a made-up done frame with exit code -1 although the log holds the real one. The comment at src/src/internal/daemonapi/attach.go:14 says the grace is for the job's "done frame to reach the output log before it reports the output as cut short (the daemon restarted while the job ran)"; here the frame is in the log and nothing restarted.
* **`CutMeansNoneKnown`** (`JobOutputLog`), `src/src/internal/daemonapi/attach.go:158`. When the write of the done frame fails, Finish keeps the log in jobLogs because (src/src/internal/daemonapi/joblog.go:129) "this log is the only record of the done frame and stays", but handleJobAttach never looks at l.final: it reads the file, finds no done frame and reports exit code -1, while GET status (jobFinalFrame) reports the real exit code. The handler's comment at src/src/internal/daemonapi/attach.go:80 promises "every frame recorded so far, then live ones, ending with the done frame".
* **`OneCopy`** (`Submitter`), `src/src/internal/app/lostconn.go:64`. A node that does not answer the submitter's probes while any peer, the introducer or the gateway does is judged gone, and ExecuteWithRetry places the job again although the node still runs it under its lease. src/src/internal/coordinator/CONTEXT.md:59 says 'One job, one lease, one node; a job is re-placed only when its lease expires'.
* **`OneCopy`** (`Submitter`), `src/src/internal/app/lostconn.go:64`. NetworkUp is asked after the last probe went unanswered; when this machine's network comes back in between it answers yes, and a job that runs on is rerun elsewhere. The comment at src/src/internal/app/lostconn.go:38-39 says judgeLostConnection decides 'whether the node died (rerun it elsewhere: the failover) or this machine lost its network (the job runs on: detach)'.
* **`OneCopyAtAll`** (`Submitter`), `src/src/internal/app/lostconn.go:62`. A daemon that dies alone leaves the job's container or process group running until the next daemon stops it (`src/src/internal/daemonapi/joblog.go:313-314`: what "outlived the daemon is stopped"). Probes are refused meanwhile, and with the network up the job is rerun beside it. The comment at src/src/internal/app/lostconn.go:38-39 tells "the node died" from "this machine lost its network" only; src/src/internal/coordinator/CONTEXT.md:59 says 'One job, one lease, one node'. `OneCopy` counts such orphans: one per node that went down.
* **`OneCopyAtAll`** (`Submitter`), `src/src/internal/app/lostconn.go:56`. A node that is reached and answers with an HTTP error or a body that cannot be read "no longer has the job", so the job is rerun although it runs there. "The node answering settles it" (`:40`). `OneCopy` leaves such a copy out (`misread`).
* **`EveryLeaseCovers`** (`Submitter`), `src/src/internal/daemonapi/serverlease.go:79`. The lease of a running job is freed by a sweep that had read the live jobs before the job was bound to it (`RunningJobVisible`), and by the submitter itself when it gives the job up on a misread answer. `StartsBounded` leaves these two out.
* **`RetryMovesOn`** (`Submitter`), `src/src/internal/coordinator/place.go:68`. The round-robin branch of PlaceWithRetry asks only the node the shared counter points at and never looks at Coordinator.tried, so a retry may return to the node that failed. ExecuteWithRetry's comment at src/src/internal/coordinator/execute.go:26-27 says a failed execution 'retries placement on a node not yet tried where there is one'.
* **`CancelledMeansStopped`** (`Submitter`), `src/src/run_cmd.go:739`. A run cancelled while its node cannot be reached gets no done frame: streamJob gives up after cancelWait with an error that wraps context.Canceled, and the job runs on. runOutcome prints 'cancelled — remote work stopped' (src/src/run_cmd.go:739) for every such error.
* **`ChunkEnds`** (`PoolMap`), `src/src/internal/daemonapi/poolremote.go:283`. Once the budget started the copy here, the part waits on its outcomes with no further timer, and the peer's request has none (runRemote with timeout 0). If the copy here fails and the peer never answers, the part waits until the requester leaves. src/src/internal/daemonapi/poolremote.go:152 calls the copy after the budget "the never-stuck guarantee".
* **`ChunkEnds`** (`PoolMap`), `src/src/internal/daemonapi/poolrun.go:312`. Under --offload a part is posted by runRemote with timeout 0 and without a race, so the deadline is only looked at between peers: a peer that accepts the request and never answers holds the part for ever. src/src/internal/daemonapi/poolremote.go:20 says "remotePartBudget is how long one part may spend on peers, across every peer it tries, before it runs locally".
* **`NoLeakedWorker`** (`WarmWorker`), `src/src/internal/daemonapi/poolrun.go:506`. RunLocal forgets the store's worker whenever submit fails on a cancelled request; a request cancelled while it waits for the worker's mutex (poolworker.go:108) or whose payload cannot be written has not stopped the worker, so a running worker leaves the map and nobody will stop or reap it. The comment at src/src/internal/daemonapi/poolrun.go:507 says 'The request was cancelled and submit killed the worker mid-chunk', and dropWorker's at src/src/internal/daemonapi/poolrun.go:531 names the harm: 'dropping it would leak its process past stopAll'.
* **`ReapedOnce`** (`WarmWorker`), `src/src/internal/daemonapi/poolworker.go:156`. A request whose submit failed has released the worker's mutex before it calls killOnce; another request may send its task in between. When that one is cancelled its deferred function calls cmd.Wait because its AfterFunc started, whatever killOnce returned to it, while the first request waits for the process as well. The comment at src/src/internal/daemonapi/poolworker.go:79 says 'killOnce is kill reporting whether this call stopped the worker, so exactly one caller reaps it'.
* **`LateTakesTheAnswer`** (`DdpBoard`), `src/src/internal/daemonapi/ddpsync.go:372`. A round leaves the board when len(e.fetched) reaches the number of live ranks, and fetched keeps ranks that were dropped after they fetched. A round of four that timed out without rank 1, fetched by a rank that then went down and by two others, is deleted; rank 1's post opens it again, waits alone and aborts the ring. The comment at src/src/internal/daemonapi/ddpsync.go:219 says of that rank 'answer exists and is the same one every other rank applied, so taking it home keeps this rank in step rather than diverging'.
* **`RanksHonest`** (`DdpBoard`), `src/src/internal/daemonapi/ddpsync.go:357`. Only a round that timed out or was finished by a down report sets e.partial. A round opened after a rank was dropped closes on the live ranks with partial = 0, so its reply says ranks = world although fewer were averaged, and the shim's warning never fires. The comment at src/src/internal/daemonapi/ddpsync.go:353 says 'How many ranks the result actually averages. Equal to the world size unless the round completed short-handed'.
* **`HandoverPossible`** (`DdpBoard`), `src/src/internal/daemonapi/ddpdown.go:94`. When the rank handing over the model goes down the board makes the lowest live rank the sender and publishes a note saying so, but that rank may already have crossed the boundary with the larger ring, and _ring_switch uploads only when the ring grows (ddp_ring.py:242). The join stays open and the joiner polls on. The comment at src/src/internal/daemonapi/ddpup.go:18 says 'Every rank takes the new size and shares at its next epoch boundary, where the lowest live rank also uploads its model and optimizer'.
* **`GraceAfterRing`** (`DdpBoard`), `src/src/ddpdown.go:138`. A rank the refit dropped stops syncing and finishes its own share with exit 0, faster than the ring. ddpAwaitRanks takes it for the ring's end and stops every rank still training after ddpJoinGrace, then reports success. The comment at src/src/ddpdown.go:99 says 'ranks train in lockstep, so one finishing means the ring is done, and a rank still going is one that missed the start barrier'.
* **`OpenForwarderKnown`** (`Directory`), `src/src/internal/internet/link.go:305`. A link that closes frees its port, and OnPeerGone (RemovePeer) runs after the lock is dropped. A new link may be given the same port and be added before the old link's RemovePeer comes, which then takes away the new link's path and its pending entry: the forwarder is open, nothing knows it and nothing tries it again. The same end is reached by a try begun for the old link: adoptPath refuses it, and src/src/internal/daemonapi/nodespeers.go:315 still deletes the pending entry that the new link has put there. The comment at src/src/internal/daemonapi/nodespeers.go:16-18 says AddPeer "registers the peer internet mode put in front of host:port" and "A peer that does not answer yet is retried by every poll".
* **`VerifiedIsPublished`** (`Directory`), `src/src/internal/daemonapi/nodespeers.go:233`. finalHealths is keyed by address. A peer that is gone is reported under the address its row showed last; when another peer has answered at that address in the same poll, the two write the same key, and if the one that is gone writes last the healthy one is missing from s.peerHealths until the next poll. The comment at src/src/internal/daemonapi/nodespeers.go:48-49 names the harm: such a peer "is invisible to closure broadcast and to spill".
* **`SlowIsToldToAll`** (`ClosureSend`), `src/src/internal/daemonapi/narsubstitute.go:76`. `errFetchSlow` is "answered as 409 so the sender asks again which paths are missing and sends them itself", and cancels every download in flight; a sender whose missing paths were left to a download that another's import cancelled carries neither the paths nor an `errFetchSlow` of its own, and its send fails. `OneSend` allows exactly that.
* **`RunnableIsWhole`** (`ClosureSend`), `src/src/internal/daemonapi/serverclosure.go:28`. "Runnable" is `<storePath>/bin/run` on disk; nix killed inside the root path leaves that behind without the path being valid, and the closure is not sent again.
* **`RefusedByKeyOnly`** (`ClosureSend`), `src/src/internal/daemonctl/closurediff.go:180`. Of a refusal the comment at `:168` says that "Sending it again, signed or not, or placing the job on that node again, repeats the refusal"; its markers also match an import that lacks a path because the receiver's own download of it failed, which sending the closure whole would mend.
* **`SourcesAgree`** (`NixCache`), `src/src/internal/daemonapi/nixcache_peers.go:152`. "A different NarHash is a different build of the path; nix would reject that NAR": the collector of an earlier fan-out compares with its own winner and adds to whatever hit is remembered now, which may be of another build. It holds of a hit no such collector came to (`LookupsTrue`).
* **`OfferedIsWhole`, `StoredIsThere`** (`NarCache`), `src/src/internal/daemonapi/narcache.go:159`. The archive is created under its final name and indexed names are looked up by existence, so one written over at the moment, or torn by a kill, is handed out; and "returns the cached path" (`:147`) may be a path the call's own eviction removed.
* **`ToldStays`** (`SharedDirs`), `src/src/internal/daemonapi/cas.go:44`. What a node has is touched so that "a prune between the question and the upload does not take them": a prune that listed the directory before the touch takes them.
* **`LiveIsKept`** (`PeerLinks`), `src/src/internal/internet/hints.go:318`. "A live connection is never expired, whatever the introducer says": `expired` names the peer under the lock, `dropLink` takes the lock again, and a connection made in between is closed. `LinksSettle` shows it is made again.
* **`CollisionIsDialled`** (`PeerLinks`), `src/src/internal/internet/connect.go:328`. "Their dial is what completes this": when each end's first hit was on a socket of its own, both wait for the other's dial.
* **`AsksOnlyUnlinked`**, **`LinksStay`** (`PeerLinks`), `src/src/internal/internet/introducer.go:84`. "a peer asks only when it has none to us": a request is answered by racing back also over a link, and that race asks the other end in turn. The bucket refills, so two ends may replace their connection again and again for as long as each request comes after the link that it asked for; `LinksSettle` allows that and nothing else.
* **`NothingSentLate`** (`ShimRace`), `src/src/internal/nixgen/shim/pipedpeer_shim/pool_race.py:113`. A peer thread "must not send anything" once the race is over: `take` checks that, and a thread that took its chunk before posts it after the map returned.
* **`ResentWhole`** (`PoolWire`), `src/src/internal/daemonapi/poolhandlers.go:426`. "that is forgotten and the body resent once": between the 409 and the second encoding another body marks the globals as held, the resent body names them by hash again and is refused. `RoutedInOrder` shows that nothing else refuses a part.
* **`OomIsOwn`** (`JobSandbox`), `src/src/internal/daemonapi/execrun.go:458`. The parent's counter is compared before and after, "which is what makes the attribution safe": of two jobs that overlap, one killed by something else is told of the other's kill.
* **`KillIsTold`** (`JobSandbox`), `src/src/internal/cgroups/watchdog.go:117`. A kill is "kept so the job it belonged to can report" it: it is recorded after the signal, so a job that ends at once asks before it is there; and the list forgets the oldest at its bound.
* **`ForeignStays`** (`NodeMemory`), `src/src/internal/cgroups/cgroups.go:109`. "unrelated process(es), which the leaf move must not relocate": one that enters the cgroup after the check is moved.
* **`OrphansAreDead`** (`DaemonLife`), `src/src/internal/daemonapi/joblog.go:310`. "A job recorded as running lost its process": saved jobs are taken over before the port is bound, so a second daemon started at the same time as a first one fails and kills the first one's jobs, and then finds the port taken.
* **`TerminalStays`** (`RunHistory`), `src/src/internal/jobhistory/states.go:38`. "Terminal states — no transitions out": a record failed with its node is made a success by a collect that had begun (`FinalStays` allows that one case). And "it never applies results twice" (`src/src/internal/app/attach.go:21`) has the exception that a collect killed between the results and the record is repeated.
* **`SyncedHasAll`** (`WorkspaceSync`), `src/src/internal/daemonapi/execresults.go:52`. When the walk over the results fails the comment expects that "the client sees a truncated archive and reports the read error"; both writers are closed in good order all the same, and the client takes an archive without the rest of the files and without the removals for the whole. `SyncIsTrue` allows that case.
* **`MachineDevicesApart`** (`RingPlan`), `src/src/ddp_cmd.go:296`. "Ranks sharing a machine must not share its accelerator": devices are pinned per node, and two daemons of one machine are two nodes.
* **`OnlyDeadRejoin`** (`RingRanks`), `src/src/ddpup.go:22`. "a machine whose rank died comes back": a machine whose rank the ring released is given a new rank too.
* **`SameAverage` with four ranks** (`DdpReduce`, `Adders = 4`), `src/src/internal/nixgen/shim/pipedpeer_shim/ddp_sync.py:389`. "Every other rank finds the same daemon silent and does the same, so they meet on the lead under this shard's key": a rank that took the shard's mean before the machine was lost does not; two others meet on the lead and apply a mean of themselves. With three ranks, one of them lost, the one that is left alone aborts, which `ddp_ring` covers.
* **`EpochIsWhole` without `EvenSplit`** (`DdpShares`), `src/src/internal/nixgen/shim/pipedpeer_shim/ddp_sampler.py:10`. "Rounding is absorbed by the largest rank so the total is exact": the largest rank gives up at most down to one sample; four equal ranks of a batch of 6 take 1, 2, 2 and 2. The same in the last partial step gives ranks different numbers of steps, against `:29`.
* **The refit's bounds** (`DdpShares`), `src/src/internal/daemonapi/ddprebalance.go:142`. `worstFreeloader` compares `world`, which counts dropped ranks, so a second drop may leave a ring of one although "Dropping to one rank is not a rebalance". A dropped freeloader keeps its report and its share in the lead's table, against "a dead rank's last report must not win it a share back" (`src/src/internal/daemonapi/ddpboard.go:263`), which guards only ranks that died.

What holds beside them is checked: answers keep their order and every part that was
tried is in (`TriedIsAnswered`); only a cancelled request's worker can leak
(`LeakedByCancelOnly`); a late rank finds the answer unless one that took it was
dropped (`LateTakesKeptAnswer`); while no path breaks and the network is steady
during a judgement, a second copy of a job runs only beside an orphan or a misread one
(`OneCopy`); a removed forwarder is never taken
back by a probe that began before (`RemovedStaysGone`).

## 5. Proofs

Eight modules hold theorems, each about the specification that the runs check, for
every value of the constants that its module's `ASSUME` allows.  The assumptions say that
bounds are natural numbers, that some sets are finite (nodes that are counted,
senders, commands), and that names that must differ do; none restricts what the code
does, but for a limit on the ranks of a ring that six decimals imply.  TLC evaluates each of them on the run of its module.

| Theorem | States | Inductive invariant |
|---|---|---|
| `TypeCorrect`, `GpusExclusive`, `CapHolds`, `NoLeaseLeaks`, `FinishedStopped` (`NodeProofs`) | `TypeOK`, `GpuExclusive`, `CapRespected`, `NoLeakedLease`, `FinishedMeansStopped` | `TypeOK`, `GpuInv`, `CapInv`, `LeaseBindInv`, `StopInv` |
| `DaemonIsFound`, `ScopeStaysEmpty` (`NodeProofs`) | `DaemonFound`, `ScopeKept` | `LifeInv`, `ScopeInv` |
| `MemoryStaysRight`, `BudgetRight`, `ClaimRight` (`NodeProofs`) | `MemoryIsRight`, which is `ScopeKept`, `CeilingIsRight` and `PromisesHold`; the parts of `CeilingIsRight` for inputs of any size | `ScopeInv`, `PromiseInv` |
| `JobIsToldTrue` (`JobProofs`) | `ToldIsTrue` | `BoxInv` |
| `LogIsStream` (`JobProofs`) | `StreamPromise`, a refinement of `OutputStream` | `LogInv` |
| `TriedAreAnswered`, `BookStaysTrue` (`PoolProofs`) | `TriedIsAnswered`, `BookIsTrue` | `MapInv` |
| `WorkerLeakedByCancelOnly`, `ShimRaceIsWhole`, `WireRoutedInOrder` (`PoolProofs`) | `LeakedByCancelOnly`, `RaceIsWhole`, `RoutedInOrder` | `WorkerInv`, `RaceInv`, `BodyInv` and `RouteInv` |
| `SubmitterStartsBounded`, `SubmitterOneCopy` (`RunProofs`) | `StartsBounded`, `OneCopy`, while the network is steady during a judgement | `SubInv`, `OneCopyInv` |
| `RunRecordIsTrue`, `RunFinalStays` (`RunProofs`) | `RecordIsTrue`, `FinalStays` | `HistInv` |
| `DirectoryOneOwner`, `DirectoryRemovedStaysGone` (`DirectoryProofs`) | `OneOwner`, `RemovedStaysGone` | `Owned(path)`, `DirInv` |
| `LinksAreOpen` (`DirectoryProofs`) | `OpenIsLinked` | `LinkInv` |
| `BoardInvariant`, `NobodyLeftOut`, `NobodyDrifts`, `LateRankAnswered` (`DdpProofs`) | `DdpInv` itself, `OnlyTimeoutLeavesOut`, `SameModel`, `LateTakesKeptAnswer` | `DdpInv` |
| `RunAccounted` (`DdpProofs`) | `RunIsAccounted` | `RanksInv` |
| `LaunchedCanTrain` (`DdpProofs`) | `RingCanTrain` | `PlanInv` |
| `MeansAreFair`, `RoundingIsKept` (`DdpProofs`) | `FairMean`, `NothingLost` of `StepIsExact`: parts of `TrainsAsOne` | `FairBooks`, `ReduceBooks`, both with `ReduceShape` |
| `RefitsPay`, `EpochsAreWhole` (`JobProofs`) | `RefitPays` and `FixedStays`, `EpochIsWhole`: parts of `TrainsAsOne` | `ShareInv`, `PassIs` |
| `SendsOnce`, `CacheTellsTrue`, `SyncTellsTrue` (`ClosureProofs`) | `OneSend`, `LookupsTrue`, `SyncIsTrue` | `SendInv`, `CacheInv`, `WsInv` |
| `DiskStaysWhole` (`ClosureProofs`) | `NothingTornOrLost` | `NarInv`, `DirInv`, `WsInv` |

The inductive invariants are definitions of the proof modules, so that TLC can be
pointed at them; each of the larger ones was checked on the instance of its run before it was proved.

**The daemon's tables.**  None of the five properties is inductive, because a crash
puts a snapshot in the place of the tables, and a snapshot was copied earlier.  What
is inductive speaks of all the tables there are: `Tables` is the set of the lease
tables in memory, in the copies a `persist` has made and not yet written, and on
disk.  `GpuInv` and `CapInv` say of *every* table in it what the property says of
the one in memory.  `StepShape` is the central lemma: a step other than `Accept`
leaves each table either one that was there or one *derived* from one that was
(`Derives`: leases dropped, renewed, bound or committed, none added), and
`DerivedGpus` and `DerivedCap` say that a derived table keeps the property;
`AcceptGpus` and `AcceptCap` treat the one action that adds a lease.  With
telemetry the device is chosen among those no lease of the table names, which is
why `GpusExclusive` needs it (section 4: without telemetry two leases get device 0).  `CapRespected`
counts the leases that were not taken again by `bindLease`, which the code lets
pass the cap on purpose.  `NoLeakedLease` relates the two tables, and a snapshot holds
two halves of different moments.  `LeaseBindInv` says that a bound lease belongs to a job that has
started, of the tables in memory, of the two halves of the file and of every
snapshot about to be written, and of a lease table `persist` has copied together with the
job table it will copy *next*.  A job that started stays started, so copying the
leases first and the jobs second keeps it true; the other order would not.
`FinishedStopped` rests on `StopInv`: in every job table there is, a started job's
handler has passed its beginning, and a final status means that the handler is at its
end and the process is gone; a process that is alive has a handler that runs it or
one that a crash cut off.

**The daemon and its scope.**  `LifeInv` says, as long as no two commands overlapped, that
a living daemon is named by the pid file or the unit or is about to be written down by the
one command at work (`FoundInv`), what that command has seen to so far (`CmdInv`), and
that the state file records no other daemon's job once one has read it (`SavedInv`).
`ScopeInv` ties what `Prepare` has left to move to what may still fork.

**The memory of a machine.**  `PromiseInv` is about leases granted on an answer that was right
(`Clear`): they stay within the machine whatever the blind ones did, because such a grant was
measured against everything granted, and leases that go leave less (`HeldLess`).  "But for one
lease that did not fit" is kept in the same way: granted on an idle machine it is all there is,
and what is granted beside it must fit into nothing.  Memory is counted in units a lease
holds (`UnitsOf`), so that sums over leases are sizes of sets.  `CeilingHolds` needs no
invariant.  `BudgetRight`: the level chosen has no more left than any before it, along the levels.
`ClaimRight`: each round of `TreeOf` adds a process or the tree is whole, so as many rounds
as there are processes reach all of it, and a process first reached in round *n* stands below at least
*n* others of the daemon's tree; one step up from it is reached first in the round before, so that the
walk of `AncestorsOf`, bounded by the size of that tree, ends at the job's root whatever loops the
snapshot has.  Both hold for any levels and any snapshot, beyond the small ones of `CeilingIsRight`.

**A job and its output.**  `BoxInv` follows every kill to the record of its job, the list, or
the kills that are late or were pushed out of the list (`WatchRight`).  `LogInv` holds until a
write fails: the file has the newest frames, behind a note if some were trimmed; what a
reader read of the file goes on where it was shown frames (`PastInv`), what is in its channel
goes on where it will have read to (`ChanInv`), and an open channel ends at the last frame.
From it `LogStep` shows that each step of the code is one step of `OutputStream` or none: the
refinement is proved with its initial states (`LogStarts`) and then its steps.

**The pool.**  `MapInv` has the parts of a chunk take its items in order, each once (`Ordered`),
says of each part's goroutine what it has seen to (`PartInv`: copies run only while it waits for
them, a peer that was asked has failed where the walk goes on, a part that is done without an
error has its items unless no peer was asked), and of the book that what is held at a peer is
its copies that run and those that lost (`BookIsTrue`).  Answers are gathered by a fold over
the parts, whose lemmas are in `Recursion`.  `WorkerInv`: a stopped worker does not run, an idle request has none, and one
that may stop its worker was given it.  `RaceInv`: whatever was cut off the queue has its
result, is run by the local thread, or is in a chunk that a posting thread took and that
the tail will look at (`Accounted`).  `BodyInv`: a body that is refused was beaten by another one
that marked the globals as held; `RouteInv`: what is gathered is in order, and it ends
where the next micro chunk begins.

**The submitter.**  `CountInv`: every start but the current one was counted as a
failure; `LeaseCoversJob` goes through each lease's possible moves (`NodeMoves`).  For the
copies, `OneCopyInv`: of those under a daemon that were not given up on an answer that is no
status only the current placement's runs, none does where a placement is sought, and each
orphan cost a node of its own (`Behind`).  Both need that a node that is judged dead is out of reach as long
as the judgement goes on (`SilentInv`), which is what `Steady` and, for `OneCopy`, the absence
of broken single paths mean (`UnbrokenSpec`); section 4 has the traces without.

**The record of a run.**  Until the run command has done its own unlocked writes nobody
else looks (`UpfrontInv`); from then on whoever reads or writes holds the lock, and its copy
in hand still says what the record said (`CopyInv`).  A success was applied, once but for a
repeat after a kill (`SyncInv`).

**The directory.**  `Owned` is inductive with the types: `PathOK` takes a verified address
away from every other node in its transaction.  For removals the generation counts: a probe or a try
of a forwarder that is gone began before it was removed (`TryInv`, `PollInv`), so
`verifyPath` refuses it, and no table and no pending list has it (`GoneInv`).

**Links.**  `LinkInv` follows each connection through the one that dialled it and waits for its
hello (`HelloFact`), the one that admits it (`AccFact`) and the ends that have it for their link
(`LinkFact`): each of them has it open.  `OpenFact` adds that a connection nobody closed is used at
both ends, which is what is lost if one end gives up its old link before the new one is
admitted.  The facts take the tables as parameters, so that the lemmas are about one
connection that a step touches (`Leaves`) and the others it leaves `Alike`.

**The training board.**  `DdpInv` says of each round that nobody takes an open one home and only
a timer closes it over a live rank (`RoundOK`, with the number of ranks it waits for); of the
board that the round under a key is the last of its sync (`KeyFact`), and that a closed round
that has left the board was taken home by every live rank, or by one that was dropped (`GoneFact`);
of each rank that its model is what it took home, sync after sync, and that it waits in
a round of its next one (`RankFact`).  The second half of `GoneFact` is the exception
`SameModel` and `LateTakesKeptAnswer` make (`Reopened`): without it both are false (section 4,
`LateTakesTheAnswer`).  `SameModel` speaks of the ranks the run started with; what a joiner
is handed is the model of one of them, whom the lead need not take for alive: a rank that
was given up although it runs may hand over a model that went its own way.

**The ranks.**  `RanksInv`: what the loop waits for is what runs, what ended unheard and the rank
that was announced (`WaitFact`), machines count what runs on them (`CountedFact`), and while the
grower is on with a machine that machine is free and the ring has room (`GrowFact`).  That needs the
grower to be alone: it looks, asks, announces and starts one rank after another.

**The plan.**  `PlanInv`: a chosen ring has distinct devices, no more than wanted, shares in the
order of their rates, and beats every set of devices (`RingFact`).  `AdmitIs` takes that from
the first best count of devices, fastest first: a set of as many devices has its slowest no faster
(`FastestIs`).  Dropping those whose part of a step is no whole item could undo it; it drops none
as long as a step has as many items as there are pairs of devices (`Enough`), since an admitted
device is at least one k-th as fast as the k devices' fastest (`SelectIs`).  The code cuts 100,000 items, so that
holds up to 316 devices, and `RingCanTrain` says so.  `MovedIs` then follows each rank with its
share when the lead moves to the front.

**The average.**  `ReduceBooks` keeps a book at each place that rounds off: at a rank
(`RankBook`), at the daemon of a machine with several ranks (`NearBook`) and at each daemon for each
kind of sync and shard (`Group`).  What went out, plus what is carried, is what came in.  A closing
round moves one entry of one book (`Balance`, `BooksStay`), since no two rounds that close together
round off at the same place (`OnePerShard`); a lost machine takes its books along, and they stay as they are.
`FairBooks` says of every round, open or answered, that its sum is that of the gradients of the ranks
in it, times their samples, and its weight their number (`Tally`).  A rank joins a round once: its
step is past it, or it waits on its own machine (`Seen`), so that the sum grows by what is new
(`TallyJoins`).  A mean that comes from a machine with several ranks is multiplied by its weight again; that this
gives the sum it was made of needs an exact division, which is what `ReduceAssumption` says of `Unit`: it is a multiple of
every number of samples there can be (`ExactDiv`, `SamplesAre`).

**The refit.**  `RefitIsRight` compares two costs, multiplied out: a rank's leaving pays if and only
if `Saves` says so (`LeavingCosts`), and the slowest rank's pays most (`FasterStay`), so the code need
not look at the others.  The code does not look at all in a ring of two or where the lead
is slowest, and `RefitPays` leaves those out.  `ShareInv` keeps the shares in force and those sent
from adding up to nothing.  That is why `ShareAssumption` has at most 2,000,000 ranks: of more than that with equal
shares, each one's would be sent as 0.000000 (`SentIs`).

**The epoch.**  `PassIs`: a pass is cut by shares that add up to something.  `WholeIs` then says of
any such shares, data, batch and seed what `EpochIsWhole` states.  Batches and the last step's
samples add up exactly where the rounding fits the largest share (`BatchesSplit`, `TailIs`), and
no rank's last step is larger than its batch: what is over goes, in the order of the shares, to ranks
with room, of which there is enough (`AllTaken`, `CappedIs`).  The claims, one by one,
leave every rank with what it is to have when the quotas add up to the samples or less
(`Filled`, `GreedyFills`), so every rank takes as many steps (`StepsCount`) and a step has its batch (`RealIs`).
The code's one sweep over all samples agrees with the claims up to the first that finds the rank it likes
best full, because a rank that is best of all is best of those with room (`BestIs`, `SweptIs`); this needs
no `EvenSplit`.

**Closures and files.**  `SendInv`: what `markImporting` counts is what is on its way
(`CountInv`), a cast holds its place among the seeds until its send is over (`SeedInv`), and what
a send asked for covers what the receiver lacks unless somebody's give-up came between
(`SenderInv`).  `CacheInv`: a flight's leader has nothing remembered while it listens
(`LeadInv`), and a collector that is not late belongs to the remembered hit (`LateInv`).
`WsInv`: what a run sends back is what its job changed (`JobsOwn`), each changed file is to be
sent, open, done or cut off (`FetchInv`), and a file here is what the one who changed it last made of
it (`FileInv`).

**Directories bounded by use.**  A listing is evicted by after others have written, so that a
directory's size is not inductive.  `CapFact`: it is under its cap, or somebody has written and
not listed, or somebody holds a listing of everything there is and has still to evict: the last to
list sees all, because everybody writes before he lists.  `EvictedIs` counts what an eviction
leaves of its listing.  For the archives the same holds of what is not `Pending`, the exports and
archives that a copy under way has put and takes away if it fails.  `HasIt`: what a transfer was told
of is there, or another evicted something since.  `TornFact`: an archive not written to its
end is being written by the one who created the file its name stands for.

**Recursion.**  `KeptElements` is a recursive function over a sequence.  That such a function exists,
and what it returns for every input, is proved in `Recursion`, `JobProofs` and `ClosureProofs` (`SetInduction`,
`RecursionExists`, `KeptExists`, `KeptIs`, `KeptDistinct`), as for the folds of `PoolMap`: induction is taken from the well-foundedness of the
naturals (a set with a member has a least one), which needs no operator parameter.  In the same way
`Recursion` proves what `SumFunction` adds up to (`SumOne`, `SumAtMost`, `SumAtLeast`, and by
`SubsetInduction` `SumPlus`, `SumTimes`, `SumInside`, `SumTight`) and that
counting what comes before each element puts a set in its order (`LinedUp`).

Only model-checked: all liveness (`AttachEnds`, `LeaseEventuallyFreed`, `MapReturns`, `RunsSettle`,
`RingEnds` and the like), since fairness and `ENABLED` are out of the prover's reach;
`SameAverage` of `DdpReduce`, which is false of four ranks or more (section 4), and with it
`StepIsExact` and `TrainsAsOne` as a whole.

## 6. What the models leave out

* `NodeLeases`: memory in admission (that is `MemoryPromises`), the retention
  that prunes old job records, results on disk (`WorkspaceSync`), closure import inside the exec
  handler (it may fail, which is an abort).
* `MemoryPromises`: the check of `processCommit` that refuses a lease whose memory is gone
  (`serverhttp.go:503`): `AvailableForJob` never returns less than 0, so it refuses nothing.
* `WorkspaceSync`: a file rewritten with the same size and time counts as unchanged, as in
  the code; receipts.
* `DaemonLife`: the flags of the daemon, installing the unit; pids are not reused.
* `JobOutputLog`: sizes in bytes.  A trim keeps at least the newest frame; in the
  code a newest frame that alone is larger than half the cap leaves `cut` at the number
  of frames, and `recs[cut]` (`joblog.go:277`) is then past the end.
* `PoolMap`: how `planShares` weighs devices; a split is any increasing choice of devices and
  of the ends of their shares.
* `PoolMap`, `PoolWire`, `ShimRace`: rates, predictions and timers are nondeterministic;
  stage files, the codec and compression are left out.
* `WarmWorker`: the task's data, the cold process.
* `Submitter`: scores, several jobs of one coordinator, the closure upload (it may
  be refused), close codes of the stream (a stream closed in good order before the
  done frame is taken for a success, `src/src/internal/daemonctl/execution.go:238`).
  The submitter's own node, which its own outages cannot cut off, is not told apart
  from the others.
* `RunHistory`: the archive of results (`WorkspaceSync`); one record, so the pruning of
  others is only seen as the record going away.
* `DdpBoard`: the board's age sweep, blackboard mode, the death of rank 0 (its daemon is
  the board).  The runs have one machine that may die; the theorems have any number.  With five
  ranks or more and two machines lost after they fetched a short-handed round, the
  reopened round of `LateTakesTheAnswer` (section 4) can close again on other ranks, which is
  why `SameModel` leaves a reopened sync out.
* `DdpReduce`: floating point (numbers are whole multiples of 1/`Unit`), encodings, drift
  statistics; the DiLoCo update itself.
* `RingPlan`: memory, and the benchmarks the rates come from.
* `Directory`: health scores and the choice among healthy nodes, gossiped private
  addresses off this machine's networks (a poll passes them over), the signatures
  of records, the UI's reads, and errors of the store.
* `PeerLinks`: hole punching itself, router protocols, cryptography, more than two ends.
* `ClosureSend`, `NixCache`, `NarCache`: NAR encoding and signatures; the half hour of
  `substituteOff` does not pass; sizes are one per file.
* `JobSandbox`, `NodeMemory`: namespaces and mounts, which are the kernel's.
* Not modelled: what a node measures of itself (heartbeat, benchmarks, estimates), the
  interception of numpy, pandas and joblib calls, phones, command-line parsing, setup,
  doctor, the UI.  They are sequential code over measurements, calls of external
  programs, or presentation: no interleaving or protocol is in them.

## 7. Plan

Done, in this order: the daemon's tables with their proofs, the output log with its
abstract stream, the pool's chunks and workers, the submitter, the training board, the
address book; then closures and caches, links between networks, the sandbox and memory,
the daemon's life, the wire and the shim's race, the record of a run, and the plan, the
ranks, the arithmetic and the shares of a training run.

Proved since: section 5.  Next, most important first:

1. Theorems: `SameAverage`, the part of `StepIsExact` (and so of `TrainsAsOne`) that is left,
   for the rings of three ranks or fewer for which it holds.
2. A composition of `Submitter` with `NodeLeases` at each node, and `NodeLeases` shown to
   implement the node `Submitter` assumes.
3. `DdpBoard` and `DdpShares` together: two notes in a row and what the ranks then train.
