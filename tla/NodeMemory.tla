----------------------------- MODULE NodeMemory -----------------------------
(***************************************************************************)
(* How a daemon bounds memory (cgroups/): the scope it prepares for its    *)
(* job cgroups, the budget it reads off its cgroups, and whom its watchdog *)
(* kills.                                                                  *)
(*                                                                         *)
(* cgroup v2 lets no cgroup hold processes and hand controllers to its     *)
(* children, so Prepare moves all processes of the daemon's cgroup into a  *)
(* leaf first.  It is done once, while children are forked and end, and    *)
(* other processes may enter the cgroup.                                   *)
(***************************************************************************)
EXTENDS Integers, FiniteSets, Sequences, SequencesExt

CONSTANTS
    Kids,       \* children of the daemon
    Foreign,    \* processes that are not under the daemon
    Daemon,     \* the daemon's process
    Units       \* memory and process numbers of the algorithms' inputs

ASSUME ScopeAssumption == Units \in Nat \ {0}

VARIABLES
    cg,         \* the cgroup of each process
    prep,       \* prepareOnce: how far, then its answer
    toMove,     \* pids vacate has read and not written
    memory,     \* +memory in the cgroup's subtree_control
    late        \* processes that entered after Usable looked

scopeVars == <<cg, prep, toMove, memory, late>>

Everyone == Kids \cup Foreign \cup {Daemon}

ScopeTypeOK ==
    /\ cg \in [Everyone -> {"unborn", "scope", "leaf", "ended"}]
    /\ prep \in {"new", "usable", "vacate", "enable", "yes", "no"}
    /\ toMove \subseteq Everyone /\ late \subseteq Everyone
    /\ memory \in BOOLEAN

\* The daemon starts in the cgroup, perhaps beside others.
ScopeInit ==
    /\ \E beside \in SUBSET Foreign :
          cg = [p \in Everyone |-> IF p \in {Daemon} \cup beside THEN "scope" ELSE "unborn"]
    /\ prep = "new" /\ toMove = {} /\ late = {}
    /\ memory = FALSE

In(c) == {p \in Everyone : cg[p] = c}

\* A mutant of the next: nobody looks who else is there.
UsableBlind == prep = "new" /\ prep' \in {"usable", "no"} /\ UNCHANGED <<cg, toMove, memory, late>>

\* Usable: the controller is there, the cgroup can be written, and foreignProcs
\* finds nobody else.
Usable ==
    /\ prep = "new"
    /\ \/ In("scope") \cap Foreign = {} /\ prep' = "usable"
       \/ prep' = "no"
    /\ UNCHANGED <<cg, toMove, memory, late>>

\* vacate reads the members once ...
ReadMembers ==
    /\ prep = "usable"
    /\ toMove' = In("scope")
    /\ prep' = "vacate"
    /\ UNCHANGED <<cg, memory, late>>

\* ... and moves them one by one; one that has ended is no failure.
MoveMember(p) ==
    /\ prep = "vacate" /\ p \in toMove
    /\ IF cg[p] = "ended" THEN toMove' = toMove \ {p} /\ UNCHANGED <<cg, prep>>
       ELSE \/ toMove' = toMove \ {p} /\ cg' = [cg EXCEPT ![p] = "leaf"] /\ UNCHANGED prep
            \/ prep' = "no" /\ toMove' = {} /\ UNCHANGED cg
    /\ UNCHANGED <<memory, late>>

Vacated ==
    /\ prep = "vacate" /\ toMove = {}
    /\ prep' = "enable"
    /\ UNCHANGED <<cg, toMove, memory, late>>

\* enableMemory: the kernel refuses it (EBUSY) while a process is left.  The
\* parent of the jobs' cgroups and the probe of memory.max may fail too.
Enable ==
    /\ prep = "enable"
    /\ memory' = (memory \/ In("scope") = {})
    /\ prep' \in IF memory' THEN {"yes", "no"} ELSE {"no"}
    /\ UNCHANGED <<cg, toMove, late>>

\* A child is in its parent's cgroup.
ForkKid(k) ==
    /\ cg[k] = "unborn"
    /\ \E p \in {Daemon} \cup Kids : cg[p] \in {"scope", "leaf"} /\ cg' = [cg EXCEPT ![k] = cg[p]]
    /\ late' = IF prep = "new" THEN late ELSE late \cup {k}
    /\ UNCHANGED <<prep, toMove, memory>>

\* Nothing enters a cgroup that hands controllers down.
Enters(p) ==
    /\ p \in Foreign /\ cg[p] = "unborn" /\ ~memory
    /\ cg' = [cg EXCEPT ![p] = "scope"]
    /\ late' = IF prep = "new" THEN late ELSE late \cup {p}
    /\ UNCHANGED <<prep, toMove, memory>>

EndsProc(p) ==
    /\ p # Daemon /\ cg[p] \in {"scope", "leaf"}
    /\ cg' = [cg EXCEPT ![p] = "ended"]
    /\ UNCHANGED <<prep, toMove, memory, late>>

ScopeNext ==
    \/ Usable \/ ReadMembers \/ Vacated \/ Enable
    \/ \E p \in Everyone : MoveMember(p) \/ EndsProc(p) \/ Enters(p)
    \/ \E k \in Kids : ForkKid(k)

ScopeSpec == ScopeInit /\ [][ScopeNext]_scopeVars

----------------------------------------------------------------------------
(* The budget: limitBudget over the levels from the daemon's cgroup up. *)

Remaining(b) == IF b.total <= 0 THEN 0 ELSE IF b.total > b.used THEN b.total - b.used ELSE 0

\* The level with the least left, the first of them.
LimitBudget(levels) ==
    LET best[n \in 0..Len(levels)] ==
          IF n = 0 THEN [total |-> 0, used |-> 0]
          ELSE IF best[n - 1].total = 0 \/ Remaining(levels[n]) < Remaining(best[n - 1])
               THEN levels[n] ELSE best[n - 1]
    IN best[Len(levels)]

----------------------------------------------------------------------------
(* The watchdog: processes 1..Units, of which 1 is the daemon, with their   *)
(* parents (0 for one outside) and their shares of memory.                  *)

\* treeOf, breadth first.
TreeOf(parent, root) ==
    LET seen[n \in 0..Units] ==
          IF n = 0 THEN {root}
          ELSE seen[n - 1] \cup {p \in 1..Units : parent[p] \in seen[n - 1]}
    IN seen[Units]

\* ancestorsOf: as many steps up as the tree has processes.
AncestorsOf(parent, tree, p) ==
    LET up[n \in 0..Cardinality(tree)] ==
          IF n = 0 THEN p
          ELSE IF up[n - 1] \in tree THEN parent[up[n - 1]] ELSE 0
    IN {up[n] : n \in 1..Cardinality(tree)}

\* pickVictim: a largest one below the daemon, when all of it is over the
\* ceiling.
PickVictims(parent, share, ceiling) ==
    LET tree == TreeOf(parent, 1)
        below == {p \in tree \ {1} : share[p] > 0}
    IN IF MapThenSumSet(LAMBDA p : share[p], tree) <= ceiling THEN {}
       ELSE {p \in below : \A q \in below : share[q] <= share[p]}

\* TakeWatchdogKill: the kill is the job's whose root it is or is under.
Claims(parent, root, victim) ==
    victim = root \/ root \in AncestorsOf(parent, TreeOf(parent, 1), victim)

----------------------------------------------------------------------------
(* Properties. *)

\* The budget is what the tightest level has left, wherever it is; the victim
\* of the watchdog is never the daemon nor outside its tree, and exactly the
\* job whose tree it is in claims the kill, whatever shape the snapshot of the
\* processes has, loops included.
LevelsOf == [total : 1..Units, used : 0..Units]
CeilingIsRight ==
    /\ \A levels \in BoundedSeq(LevelsOf, 2) :
         \A i \in DOMAIN levels : Remaining(LimitBudget(levels)) <= Remaining(levels[i])
    /\ \A parent \in {p \in [1..Units -> 0..Units] : p[1] = 0}, share \in [1..Units -> 0..2] :
         \A v \in PickVictims(parent, share, 2) :
           /\ v # 1
           /\ \A root \in (2..Units) : parent[root] = 1 =>
                (Claims(parent, root, v) <=> v \in TreeOf(parent, root))

\* Where job cgroups can hold a limit the daemon's own is empty and stays so,
\* whatever was forked or entered while it was vacated, and a process of
\* somebody else was moved only if it came after Usable looked.
ScopeKept ==
    /\ ScopeTypeOK
    /\ prep = "yes" => In("scope") = {}
    /\ In("leaf") \cap Foreign \subseteq late

ScopeIsRight == ScopeKept /\ (prep = "usable" => CeilingIsRight)

\* "unrelated process(es), which the leaf move must not relocate".
ForeignStays == In("leaf") \cap Foreign = {}
=============================================================================
