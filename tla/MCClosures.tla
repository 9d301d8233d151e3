----------------------------- MODULE MCClosures -----------------------------
(***************************************************************************)
(* How closures travel and are kept, for TLC: a closure sent over two      *)
(* broadcasts and a command line, the nix cache, the archives, the shared  *)
(* directories, and a project's files there and back.  The five share no   *)
(* state, so a behaviour is about one of them (part) and the others stay   *)
(* as they are.                                                            *)
(***************************************************************************)
EXTENDS ClosureSend, NixCache, NarCache, SharedDirs, WorkspaceSync, TLC

CONSTANTS
    libPath, envPath, cast1, cast2, node1, object1, object2, object3, user1, user2, user3,
    run1, run2, file1, file2, file3

MCRefs == (libPath :> {}) @@ (envPath :> {libPath})
MCAt == (cast1 :> node1) @@ (cast2 :> node1)
MCTouches == (run1 :> {file1, file2, file3}) @@ (run2 :> {file1})
MCNeeds == (user1 :> {object1, object2}) @@ (user2 :> {object2, object3}) @@ (user3 :> {object3})

VARIABLE part

vars == <<part, sendVars, cacheVars, narVars, dirVars, wsVars>>

\* A part that does not run starts in one state.
Init ==
    /\ part \in {"sends", "lookups", "archives", "directories", "files"}
    /\ SendInit
    /\ CacheInit
    /\ part # "lookups" => build = [p \in CachePeers |-> CHOOSE b \in Builds : TRUE]
    /\ NarInit
    /\ part # "archives" => \A s \in Storers : storer[s].key = CHOOSE k \in Closures : TRUE
    /\ DirInit
    /\ part # "directories" => kind = "upload"
    /\ WsInit

Sends(A) == part = "sends" /\ A /\ UNCHANGED <<part, cacheVars, narVars, dirVars, wsVars>>

Next ==
    \/ Sends(SendNext)
    \/ part = "lookups" /\ CacheNext /\ UNCHANGED <<part, sendVars, narVars, dirVars, wsVars>>
    \/ part = "archives" /\ NarNext /\ UNCHANGED <<part, sendVars, cacheVars, dirVars, wsVars>>
    \/ part = "directories" /\ DirNext /\ UNCHANGED <<part, sendVars, cacheVars, narVars, wsVars>>
    \/ part = "files" /\ WsNext /\ UNCHANGED <<part, sendVars, cacheVars, narVars, dirVars>>

\* The senders' goroutines, the broadcasts and their timers run; a download
\* from the binary cache need not come to an end.
Fairness ==
    /\ \A s \in Senders : WF_vars(Sends(SendStep(s)))
    /\ \A c \in Casts : WF_vars(Sends(CastStep(c)))

Spec == Init /\ [][Next]_vars /\ Fairness

\* The directories on disk: an archive handed out is whole unless it is being
\* written or the daemon was killed, a transfer loses what it was told of only
\* to another's eviction, the caps hold once all calls are over, and a
\* project's files are what its user and the jobs that changed them left.
NothingTornOrLost == TornIsBeingWritten /\ LostToAnother /\ SyncIsTrue
=============================================================================
