------------------------------ MODULE DiskLru ------------------------------
(***************************************************************************)
(* A directory bounded by evicting the least recently used files, as the   *)
(* archive cache (daemonapi/narcache.go), the published closure cache      *)
(* (narpack/prune.go) and the workspace files (daemonapi/cas.go) do it: a  *)
(* listing is read first and the files are removed by what it said.        *)
(* A directory is the sequence of its files, oldest use first; each file   *)
(* has size one.                                                           *)
(***************************************************************************)
EXTENDS KeptElements

Files(dir) == {dir[i] : i \in DOMAIN dir}

RemoveFiles(dir, fs) == Keep(dir, {i \in 1..Len(dir) : dir[i] \notin fs})
RemoveFile(dir, f) == RemoveFiles(dir, {f})

\* os.Chtimes, or a write.
Used(dir, f) == Append(RemoveFile(dir, f), f)
UsedIfThere(dir, f) == IF f \in Files(dir) THEN Used(dir, f) ELSE dir

\* What one pass over a listing removes: oldest first until the listing's own
\* total is under the cap.  A file that is gone already frees nothing.
Evicted(listing, dir, max) ==
    LET there == Keep(listing, {i \in 1..Len(listing) : listing[i] \in Files(dir)})
        over == IF Len(listing) > max THEN Len(listing) - max ELSE 0 IN
    {there[i] : i \in 1..(IF over < Len(there) THEN over ELSE Len(there))}
=============================================================================
