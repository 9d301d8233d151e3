------------------------------ MODULE NarCache ------------------------------
(***************************************************************************)
(* The archives of closures a daemon keeps (daemonapi/narcache.go), and    *)
(* the calls that store one: the upload that carries it and ensureLocal,   *)
(* which exports the closure into a file beside the archives first.        *)
(* A name holds the file its last creator wrote; whoever else has it open  *)
(* writes the same bytes, or a file that has no name any more.             *)
(***************************************************************************)
EXTENDS DiskLru, FiniteSets

CONSTANTS
    Closures,       \* store paths
    Storers,        \* calls of narCache.store
    Exports,        \* those that come from ensureLocal
    NarMax          \* the cap, in archives

ASSUME NarAssumption == NarMax \in Nat

VARIABLES
    narDir,         \* nar-cache: archives and exports, least recently used first
    torn,           \* archives not written to their end
    creator,        \* who created the file an archive's name stands for
    byID,           \* the index
    indexFile,      \* index.json
    storer,         \* each call
    narCrashed      \* the daemon was killed

narVars == <<narDir, torn, creator, byID, indexFile, storer, narCrashed>>

\* The file ensureLocal exports into.
Export(s) == [export |-> s]
Archive(k) == [archive |-> k]
Names == {Archive(k) : k \in Closures} \cup {Export(s) : s \in Exports}

NarTypeOK ==
    /\ Files(narDir) \subseteq Names /\ Len(narDir) = Cardinality(Files(narDir))
    /\ torn \subseteq Closures /\ byID \subseteq Closures /\ indexFile \subseteq Closures
    /\ creator \in [Closures -> SUBSET Storers]
    /\ storer \in [Storers ->
          [pc: {"begin", "export", "create", "copy", "list", "evict", "over"},
           key: Closures, listing: Seq(Names)]]
    /\ narCrashed \in BOOLEAN

NarInit ==
    /\ narDir = <<>> /\ torn = {} /\ byID = {} /\ indexFile = {} /\ narCrashed = FALSE
    /\ creator = [k \in Closures |-> {}]
    /\ storer \in [Storers -> {[pc |-> "begin", key |-> k, listing |-> <<>>] : k \in Closures}]

There(k) == Archive(k) \in Files(narDir)

StorerAt(s, pc) == storer' = [storer EXCEPT ![s].pc = pc]

\* narFileFor: what is indexed and there is handed out and counts as used.  An
\* export asks again when it is made, and is removed.
Hit(s) ==
    LET k == storer[s].key IN
    /\ storer[s].pc \in {"begin", "export"}
    /\ k \in byID /\ There(k)
    /\ narDir' = Used(RemoveFile(narDir, Export(s)), Archive(k))
    /\ StorerAt(s, "over")
    /\ UNCHANGED <<torn, creator, byID, indexFile, narCrashed>>

\* narFileFor of an archive that is not there.
Miss(s) ==
    LET k == storer[s].key IN
    /\ storer[s].pc = IF s \in Exports THEN "export" ELSE "begin"
    /\ ~(k \in byID /\ There(k))
    /\ byID' = byID \ {k}
    /\ StorerAt(s, "create")
    /\ UNCHANGED <<narDir, torn, creator, indexFile, narCrashed>>

\* ensureLocal, to which it is not there: exports the closure, or has nothing
\* to export or fails to.
MakeExport(s) ==
    LET k == storer[s].key IN
    /\ s \in Exports /\ storer[s].pc = "begin"
    /\ ~(k \in byID /\ There(k))
    /\ byID' = byID \ {k}
    /\ \/ narDir' = Append(narDir, Export(s)) /\ StorerAt(s, "export")
       \/ UNCHANGED narDir /\ StorerAt(s, "over")
    /\ UNCHANGED <<torn, creator, indexFile, narCrashed>>

\* os.Create truncates what another call wrote.
Create(s) ==
    LET k == storer[s].key IN
    /\ storer[s].pc = "create"
    /\ narDir' = Used(narDir, Archive(k))
    /\ torn' = torn \cup {k}
    /\ creator' = [creator EXCEPT ![k] = {s}]
    /\ StorerAt(s, "copy")
    /\ UNCHANGED <<byID, indexFile, narCrashed>>

\* The archive goes in, and into the index.
Copied(s) ==
    LET k == storer[s].key IN
    /\ storer[s].pc = "copy"
    /\ torn' = IF creator[k] = {s} THEN torn \ {k} ELSE torn
    /\ narDir' = UsedIfThere(narDir, Archive(k))
    /\ byID' = byID \cup {k}
    /\ indexFile' = byID'
    /\ StorerAt(s, "list")
    /\ UNCHANGED <<creator, narCrashed>>

\* A mutant of the next: what was written of it stays.
CopyFailsLeft(s) ==
    /\ storer[s].pc = "copy"
    /\ narDir' = RemoveFile(narDir, Export(s))
    /\ StorerAt(s, "over")
    /\ UNCHANGED <<torn, creator, byID, indexFile, narCrashed>>

\* The copy fails and takes the name with it, whoever wrote the file.
CopyFails(s) ==
    LET k == storer[s].key IN
    /\ storer[s].pc = "copy"
    /\ narDir' = RemoveFiles(narDir, {Archive(k), Export(s)})
    /\ torn' = torn \ {k}
    /\ creator' = [creator EXCEPT ![k] = {}]
    /\ StorerAt(s, "over")
    /\ UNCHANGED <<byID, indexFile, narCrashed>>

\* prune, until it takes the lock.
ListArchives(s) ==
    /\ storer[s].pc = "list"
    /\ storer' = [storer EXCEPT ![s].pc = "evict", ![s].listing = narDir]
    /\ UNCHANGED <<narDir, torn, creator, byID, indexFile, narCrashed>>

\* prune under the lock; the export goes when ensureLocal returns.
EvictArchives(s) ==
    LET out == Evicted(storer[s].listing, narDir, NarMax)
        gone == {k \in Closures : Archive(k) \in out} IN
    /\ storer[s].pc = "evict"
    /\ narDir' = RemoveFiles(narDir, out \cup {Export(s)})
    /\ torn' = torn \ gone
    /\ creator' = [k \in Closures |-> IF k \in gone THEN {} ELSE creator[k]]
    /\ byID' = byID \ gone
    /\ indexFile' = IF Len(storer[s].listing) > NarMax THEN byID' ELSE indexFile
    /\ storer' = [storer EXCEPT ![s].pc = "over", ![s].listing = <<>>]
    /\ UNCHANGED narCrashed

\* The daemon is killed once, and starts again with its index (an index.json
\* it was killed in does not parse) and bounds the directory (BoundCaches).
NarRestart ==
    LET out == Evicted(narDir, narDir, NarMax)
        gone == {k \in Closures : Archive(k) \in out} IN
    /\ ~narCrashed
    /\ narCrashed' = TRUE
    /\ \E loaded \in {indexFile, {}} : byID' = loaded \ gone
    /\ indexFile' = IF Len(narDir) > NarMax THEN byID' ELSE indexFile
    /\ narDir' = RemoveFiles(narDir, out)
    /\ torn' = torn \ gone
    /\ creator' = [k \in Closures |-> {}]
    /\ storer' = [s \in Storers |-> IF storer[s].pc \in {"begin", "over"} THEN storer[s]
                                    ELSE [storer[s] EXCEPT !.pc = "over", !.listing = <<>>]]

NarOver ==
    /\ \A s \in Storers : storer[s].pc = "over"
    /\ UNCHANGED narVars

NarNext ==
    \/ \E s \in Storers : \/ Hit(s) \/ MakeExport(s) \/ Miss(s) \/ Create(s) \/ Copied(s) \/ CopyFails(s)
                          \/ ListArchives(s) \/ EvictArchives(s)
    \/ NarRestart
    \/ NarOver

----------------------------------------------------------------------------
(* Properties. *)

\* An archive narFileFor would hand out is whole, or another call is writing
\* it over at this moment, or the daemon was killed: no failed or evicted
\* store leaves part of one behind under a name that is indexed.  When no call
\* is under way the directory is under its cap, the exports a killed daemon
\* left counted, however listings and evictions of several calls overlapped.
TornIsBeingWritten ==
    /\ NarTypeOK
    /\ \A k \in byID \cap torn :
         There(k) => narCrashed \/ \E s \in Storers : storer[s].pc = "copy" /\ creator[k] = {s}
    /\ (\A s \in Storers : storer[s].pc \in {"begin", "over"}) => Len(narDir) <= NarMax

\* "lets later tasks skip the upload and import": an archive handed out is whole.
OfferedIsWhole == \A k \in byID : There(k) => k \notin torn

\* store "returns the cached path": it is there when the call returns.
StoredIsThere ==
    \A s \in Storers : storer[s].pc = "evict"
        => Archive(storer[s].key) \notin Evicted(storer[s].listing, narDir, NarMax)
=============================================================================
