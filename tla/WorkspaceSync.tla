--------------------------- MODULE WorkspaceSync ---------------------------
(***************************************************************************)
(* The files of a project on their way to a job and back: the command line *)
(* packs them (daemonctl/workspace.go), the node notes the stamp of every  *)
(* file it unpacks, the job writes and removes files, and when it is over  *)
(* the command line fetches what changed (daemonapi/execresults.go) into   *)
(* the same directory, where the user, and another run of the project, go  *)
(* on working (daemonctl/execution.go).                                    *)
(*                                                                         *)
(* A file's content is who wrote it; the order of the names in an archive  *)
(* is left out, and so is a file that changes while it is being packed.    *)
(***************************************************************************)
EXTENDS Naturals, FiniteSets

CONSTANTS
    ProjectFiles,          \* the files
    Ignored,        \* those .pipedpeerignore or the built-in names leave out
    Shims,          \* those under .pipedpeer/, added to the archive
    Runs,           \* runs of the project
    Touches,        \* bound: the files each run's script may write or remove
    TheUser,
    MaxEdits,       \* bound on the user's own changes
    MaxMishaps      \* bound on failures

ASSUME WsAssumption ==
    /\ Runs \cap {"user", "edit", "shim", "torn", "gone"} = {}
    /\ TheUser \notin Runs
    /\ Touches \in [Runs -> SUBSET ProjectFiles]
    /\ MaxEdits \in Nat /\ MaxMishaps \in Nat

VARIABLES
    local,          \* the project directory
    by,             \* who changed each of its files last: a run, or TheUser
    mixed,          \* files two runs were writing at the same time
    ws,             \* the runs
    edits, mishaps

wsVars == <<local, by, mixed, ws, edits, mishaps>>

Contents == Runs \cup {"user", "edit", "shim", "torn", "gone"}

\* start and work are the job's directory when it began and now, noted the
\* files whose stamp was taken (Uploaded), same those that still have it;
\* send and goes what is still to be written and removed here, open the file
\* being written, got the manifest, short a walk that ended early.
RunStates ==
    [pc: {"begin", "packed", "runs", "over", "fetch", "synced", "failed", "ended"},
     start: [ProjectFiles -> Contents], work: [ProjectFiles -> Contents],
     noted: SUBSET ProjectFiles, same: SUBSET ProjectFiles,
     send: SUBSET ProjectFiles, goes: SUBSET ProjectFiles, got: SUBSET ProjectFiles,
     open: SUBSET ProjectFiles, short: BOOLEAN]

WsTypeOK ==
    /\ local \in [ProjectFiles -> Contents]
    /\ by \in [ProjectFiles -> Runs \cup {TheUser}]
    /\ mixed \subseteq ProjectFiles
    /\ ws \in [Runs -> RunStates]
    /\ edits \in 0..MaxEdits /\ mishaps \in 0..MaxMishaps

\* A run that changes nothing here.
Unrun ==
    LET none == [n \in ProjectFiles |-> "gone"] IN
    [pc |-> "ended", start |-> none, work |-> none, noted |-> {}, same |-> {},
     send |-> {}, goes |-> {}, got |-> {}, open |-> {}, short |-> FALSE]

WsInit ==
    /\ local = [n \in ProjectFiles |-> IF n \in Shims THEN "gone" ELSE "user"]
    /\ by = [n \in ProjectFiles |-> TheUser]
    /\ mixed = {}
    /\ ws = [r \in Runs |-> [Unrun EXCEPT !.pc = "begin"]]
    /\ edits = 0 /\ mishaps = 0

In(files) == {n \in ProjectFiles : files[n] # "gone"}
RunAt(r, pc) == ws[r].pc = pc
Mishap == mishaps < MaxMishaps /\ mishaps' = mishaps + 1
Put(n, c, who) == local' = [local EXCEPT ![n] = c] /\ by' = [by EXCEPT ![n] = who]

----------------------------------------------------------------------------
(* There. *)

Excludes(n) == n \in Ignored

WithShim(files) == [n \in ProjectFiles |-> IF n \in Shims THEN "shim" ELSE files[n]]

\* CreateWorkspaceTarContext: the directory as it is, a half-written file too.
PackFiles(r) ==
    /\ RunAt(r, "begin")
    /\ ws' = [ws EXCEPT ![r].pc = "packed",
          ![r].work = WithShim([n \in ProjectFiles |-> IF Excludes(n) THEN "gone" ELSE local[n]])]
    /\ UNCHANGED <<local, by, mixed, edits, mishaps>>

\* The node unpacks every file, or all but one it cannot create, and notes
\* the stamps of those it has.
UploadFiles(r) ==
    /\ RunAt(r, "packed")
    /\ \E skipped \in SUBSET In(ws[r].work) :
          /\ IF skipped = {} THEN UNCHANGED mishaps ELSE Cardinality(skipped) = 1 /\ Mishap
          /\ LET there == [n \in ProjectFiles |-> IF n \in skipped THEN "gone" ELSE ws[r].work[n]] IN
             ws' = [ws EXCEPT ![r].pc = "runs", ![r].start = there, ![r].work = there,
                              ![r].noted = In(there), ![r].same = In(there)]
    /\ UNCHANGED <<local, by, mixed, edits>>

\* The connection breaks, or a file the node was to have is gone (409).
UploadBreaks(r) ==
    /\ RunAt(r, "packed")
    /\ ws' = [ws EXCEPT ![r] = Unrun]
    /\ UNCHANGED <<local, by, mixed, edits, mishaps>>

----------------------------------------------------------------------------
(* The job. *)

\* What the script writes and removes before it succeeds, in one step: nobody
\* reads its directory meanwhile (what it writes under .pipedpeer/ never comes
\* back, and is left out).  A file written has another size or time,
\* unless the script puts both back (kept).
ScriptRuns(r) ==
    /\ RunAt(r, "runs")
    /\ \E wrote \in SUBSET (Touches[r] \ Shims),
          removed \in SUBSET (Touches[r] \cap In(ws[r].work)) :
          /\ wrote \cap removed = {}
          /\ \E kept \in SUBSET (wrote \cap ws[r].same) :
                /\ IF kept = {} THEN UNCHANGED mishaps ELSE Mishap
                /\ ws' = [ws EXCEPT ![r].pc = "over",
                      ![r].work = [n \in ProjectFiles |->
                          IF n \in wrote THEN r ELSE IF n \in removed THEN "gone" ELSE @[n]],
                      ![r].same = @ \ ((wrote \ kept) \cup removed)]
    /\ UNCHANGED <<local, by, mixed, edits>>

\* Nothing is fetched of a run whose script failed.
ScriptFails(r) ==
    /\ RunAt(r, "runs")
    /\ ws' = [ws EXCEPT ![r] = Unrun]
    /\ UNCHANGED <<local, by, mixed, edits, mishaps>>

----------------------------------------------------------------------------
(* Back. *)

\* changed, by the stamp; a file that was not noted is the job's own.
Changed(r) == {n \in In(ws[r].work) \ Shims : n \notin ws[r].noted \cap ws[r].same}

\* A mutant of the next: all that is here and not there.
RemovedUnscoped(r) == ProjectFiles \ In(ws[r].work)

\* Files the job was given and that are gone when it ends.
Removed(r) == ws[r].noted \ In(ws[r].work)

\* writeResultsTar.  A walk that fails at a directory it cannot read sends
\* what it saw and no removals, and the archive is closed in good order.
Walk(r) ==
    /\ RunAt(r, "over")
    /\ \/ /\ ws' = [ws EXCEPT ![r].pc = "fetch", ![r].send = Changed(r), ![r].goes = Removed(r)]
          /\ UNCHANGED mishaps
       \/ /\ Mishap
          /\ \E seen \in SUBSET Changed(r) :
                ws' = [ws EXCEPT ![r].pc = "fetch", ![r].send = seen, ![r].goes = {},
                                 ![r].short = TRUE]
    /\ UNCHANGED <<local, by, mixed, edits>>

\* extractResults: a file is emptied, then written.
OpenFile(r) ==
    /\ RunAt(r, "fetch") /\ ws[r].open = {}
    /\ \E n \in ws[r].send :
          /\ ws' = [ws EXCEPT ![r].open = {n}, ![r].send = @ \ {n}]
          /\ Put(n, "torn", r)
          /\ mixed' = IF \E q \in Runs : n \in ws[q].open THEN mixed \cup {n} ELSE mixed \ {n}
    /\ UNCHANGED <<edits, mishaps>>

\* What two wrote at the same time may be a piece of each.
CopyFile(r) ==
    /\ RunAt(r, "fetch")
    /\ \E n \in ws[r].open :
          /\ \E c \in {ws[r].work[n]} \cup (IF n \in mixed THEN {"torn"} ELSE {}) : Put(n, c, r)
          /\ ws' = [ws EXCEPT ![r].open = {}, ![r].got = @ \cup {n}]
    /\ UNCHANGED <<mixed, edits, mishaps>>

\* The stream breaks off, a file cannot be written or removed, or the command
\* line is killed.
FetchBreaks(r) ==
    /\ RunAt(r, "fetch") /\ Mishap
    /\ ws' = [ws EXCEPT ![r].pc = "failed", ![r].open = {}, ![r].send = {}, ![r].goes = {}]
    /\ UNCHANGED <<local, by, mixed, edits>>

\* The removals come when every file is written.
AllWritten(r) == RunAt(r, "fetch") /\ ws[r].send = {} /\ ws[r].open = {}

DeleteFile(r) ==
    /\ AllWritten(r)
    /\ \E n \in ws[r].goes :
          /\ Put(n, "gone", r)
          /\ mixed' = mixed \ {n}
          /\ ws' = [ws EXCEPT ![r].goes = @ \ {n}, ![r].got = @ \cup {n}]
    /\ UNCHANGED <<edits, mishaps>>

Synced(r) ==
    /\ AllWritten(r) /\ ws[r].goes = {}
    /\ ws' = [ws EXCEPT ![r].pc = "synced"]
    /\ UNCHANGED <<local, by, mixed, edits, mishaps>>

\* A run killed before it recorded the results is fetched later, from the start.
FetchAgain(r) ==
    /\ RunAt(r, "failed")
    /\ ws' = [ws EXCEPT ![r].pc = "over", ![r].got = {}, ![r].short = FALSE]
    /\ UNCHANGED <<local, by, mixed, edits, mishaps>>

----------------------------------------------------------------------------
\* The user goes on working, on files no fetch is in the middle of.
UserEdits(n) ==
    /\ edits < MaxEdits /\ edits' = edits + 1
    /\ n \notin Shims /\ \A r \in Runs : n \notin ws[r].open
    /\ \E c \in {"edit", "gone"} : Put(n, c, TheUser)
    /\ mixed' = mixed \ {n}
    /\ UNCHANGED <<ws, mishaps>>

WsOver ==
    /\ \A r \in Runs : ws[r].pc \in {"synced", "ended", "failed"}
    /\ UNCHANGED wsVars

WsNext ==
    \/ \E r \in Runs :
          \/ PackFiles(r) \/ UploadFiles(r) \/ UploadBreaks(r)
          \/ ScriptRuns(r) \/ ScriptFails(r)
          \/ Walk(r) \/ OpenFile(r) \/ CopyFile(r) \/ DeleteFile(r) \/ Synced(r)
          \/ FetchBreaks(r) \/ FetchAgain(r)
    \/ \E n \in ProjectFiles : UserEdits(n)
    \/ WsOver

WsSpec == WsInit /\ [][WsNext]_wsVars

----------------------------------------------------------------------------
(* Properties. *)

\* What the job did to the files it was given, and those of it the stamps show.
Touched(r) == {n \in ProjectFiles : ws[r].work[n] # ws[r].start[n]}
Shown(r) == {n \in Touched(r) \ ws[r].same : n \in Shims => ws[r].work[n] = "gone"}

\* A run's results change files its job changed and no others, and remove only
\* files the job was given; a run that fetched its results has all of them
\* (unless the node's walk ended early), and a file nobody changed since is
\* here as it is there.
ResultsAreTheJobs ==
    \A r \in Runs :
        /\ ws[r].got \subseteq Touched(r)
        /\ \A n \in ProjectFiles : by[n] = r =>
              /\ n \in Touched(r)
              /\ local[n] = "gone" => n \in ws[r].noted \ (Ignored \ Shims)
        /\ RunAt(r, "synced") =>
              /\ ~ws[r].short => ws[r].got = Shown(r)
              /\ \A n \in ws[r].got \ mixed : by[n] = r => local[n] = ws[r].work[n]

\* A file is half-written only while it is being fetched, after a fetch that
\* broke off and has not been made up for, or where two runs wrote it at once.
TornIsTold ==
    \A n \in ProjectFiles \ mixed : local[n] = "torn" =>
        by[n] # TheUser /\ (RunAt(by[n], "synced") => ws[by[n]].short)

\* "the client sees a truncated archive and reports the read error": a run that
\* fetched its results without an error has all of them.
SyncedHasAll == \A r \in Runs : RunAt(r, "synced") => ws[r].got = Shown(r)

\* What the results of a run may do to the user's directory.
SyncIsTrue == WsTypeOK /\ ResultsAreTheJobs /\ TornIsTold
=============================================================================
