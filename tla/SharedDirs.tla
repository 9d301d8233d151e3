----------------------------- MODULE SharedDirs -----------------------------
(***************************************************************************)
(* Two directories several transfers use and bound at the same time: the   *)
(* files of workspaces a node has seen (daemonapi/cas.go, execupload.go,   *)
(* daemonctl/workspace.go), and the published paths the daemon and the     *)
(* command lines of a machine send closures from (narpack).  A behaviour   *)
(* is about one of them: all its users are uploads, or all are sends.      *)
(***************************************************************************)
EXTENDS DiskLru, FiniteSets

CONSTANTS
    Objects,        \* files by their hash, or store paths
    Users,          \* uploads or sends
    Needs,          \* what each consists of
    DirMax          \* casMaxBytes, MaxBytes: the cap, in objects

ASSUME DirAssumption ==
    /\ Needs \in [Users -> SUBSET Objects] /\ \A u \in Users : IsFiniteSet(Needs[u])
    /\ DirMax \in Nat

VARIABLES
    shared,         \* the directory, least recently used first
    kind,           \* "upload" or "send"
    user

dirVars == <<shared, kind, user>>

\* told is what the node said it has (upload), or what the listing of the
\* directory named (send); others that another user evicted meanwhile.
UserStates ==
    [pc: {"begin", "transfer", "index", "fill", "pack", "touch", "list", "evict", "done", "failed"},
     told: SUBSET Objects, listing: Seq(Objects), others: BOOLEAN]

DirTypeOK ==
    /\ Files(shared) \subseteq Objects /\ Len(shared) = Cardinality(Files(shared))
    /\ kind \in {"upload", "send"}
    /\ user \in [Users -> UserStates]

DirInit ==
    /\ shared = <<>>
    /\ kind \in {"upload", "send"}
    /\ user = [u \in Users |-> [pc |-> "begin", told |-> {}, listing |-> <<>>, others |-> FALSE]]

\* Files written or touched together, in any order.
Orders(os) ==
    {t \in [1..Cardinality(os) -> os] :
        /\ \A i, j \in DOMAIN t : t[i] = t[j] => i = j
        /\ \A o \in os : \E i \in DOMAIN t : t[i] = o}
PutAll(dir, os) == {RemoveFiles(dir, os) \o t : t \in Orders(os)}

UserAt(u, pc) == user[u].pc = pc
Goes(u, pc) == user' = [user EXCEPT ![u].pc = pc]

----------------------------------------------------------------------------
(* An upload. *)

\* casMissing: what the node has is touched, the rest will be sent.
AskFiles(u) ==
    /\ kind = "upload" /\ UserAt(u, "begin")
    /\ LET has == Needs[u] \cap Files(shared) IN
          /\ user' = [user EXCEPT ![u].pc = "transfer", ![u].told = has]
          /\ shared' \in PutAll(shared, has)
    /\ UNCHANGED kind

\* extractWorkspaceTar: every file that came is stored under its hash.
Extract(u) ==
    /\ kind = "upload" /\ UserAt(u, "transfer")
    /\ shared' \in PutAll(shared, Needs[u] \ user[u].told)
    /\ Goes(u, "fill")
    /\ UNCHANGED kind

\* materializeFromCAS: a file that is gone fails the upload (409).
Fill(u) ==
    /\ kind = "upload" /\ UserAt(u, "fill")
    /\ IF user[u].told \subseteq Files(shared)
       THEN shared' \in PutAll(shared, user[u].told) /\ Goes(u, "list")
       ELSE UNCHANGED shared /\ Goes(u, "failed")
    /\ UNCHANGED kind

----------------------------------------------------------------------------
(* A send. *)

\* Publish: nix skips a path that is there.
Publish(u) ==
    /\ kind = "send" /\ UserAt(u, "begin")
    /\ shared' \in PutAll(shared, Needs[u] \ Files(shared))
    /\ Goes(u, "transfer")
    /\ UNCHANGED kind

\* Index: the directory is listed, then each narinfo opened; one that is gone
\* fails it, whatever it is the metadata of.
ReadDir(u) ==
    /\ kind = "send" /\ UserAt(u, "transfer")
    /\ user' = [user EXCEPT ![u].pc = "index", ![u].told = Files(shared)]
    /\ UNCHANGED <<shared, kind>>

Index(u) ==
    /\ kind = "send" /\ UserAt(u, "index")
    /\ Goes(u, IF user[u].told \subseteq Files(shared) /\ Needs[u] \subseteq user[u].told
               THEN "pack" ELSE "failed")
    /\ UNCHANGED <<shared, kind>>

\* PackSigned: the narinfo and the archive of every path are read.
PackPaths(u) ==
    /\ kind = "send" /\ UserAt(u, "pack")
    /\ Goes(u, IF Needs[u] \subseteq Files(shared) THEN "touch" ELSE "failed")
    /\ UNCHANGED <<shared, kind>>

Touch(u) ==
    /\ kind = "send" /\ UserAt(u, "touch")
    /\ shared' \in PutAll(shared, Needs[u] \cap Files(shared))
    /\ Goes(u, "list")
    /\ UNCHANGED kind

----------------------------------------------------------------------------
(* pruneCAS and Prune. *)

ListDir(u) ==
    /\ UserAt(u, "list")
    /\ user' = [user EXCEPT ![u].pc = "evict", ![u].listing = shared]
    /\ UNCHANGED <<shared, kind>>

EvictDir(u) ==
    LET out == Evicted(user[u].listing, shared, DirMax) IN
    /\ UserAt(u, "evict")
    /\ shared' = RemoveFiles(shared, out)
    /\ user' = [v \in Users |->
          IF v = u THEN [user[u] EXCEPT !.pc = "done", !.listing = <<>>]
          ELSE [user[v] EXCEPT !.others = @ \/ (user[v].pc # "begin" /\ out # {})]]
    /\ UNCHANGED kind

DirOver ==
    /\ \A u \in Users : user[u].pc \in {"done", "failed"}
    /\ UNCHANGED dirVars

DirNext ==
    \/ \E u \in Users : \/ AskFiles(u) \/ Extract(u) \/ Fill(u)
                        \/ Publish(u) \/ ReadDir(u) \/ Index(u) \/ PackPaths(u) \/ Touch(u)
                        \/ ListDir(u) \/ EvictDir(u)
    \/ DirOver

----------------------------------------------------------------------------
(* Properties. *)

\* "nothing being evicted can be something this transfer still needs": a
\* transfer loses a file it was told of, or published, only to the eviction
\* of another transfer that came between.  When no transfer is under way and
\* none failed before it came to bound it, the directory is under its cap,
\* however listings and evictions overlapped.
LostToAnother ==
    /\ DirTypeOK
    /\ \A u \in Users : user[u].pc = "failed" => user[u].others
    /\ (\A u \in Users : user[u].pc \in {"begin", "done"}) => Len(shared) <= DirMax

\* casMissing touches what the node has "so a prune between the question and
\* the upload does not take them".
ToldStays == \A u \in Users : kind = "upload" => ~UserAt(u, "failed")
=============================================================================
