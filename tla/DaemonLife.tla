----------------------------- MODULE DaemonLife -----------------------------
(***************************************************************************)
(* How one machine's daemon is started, found and stopped (daemonctl) and  *)
(* how it boots (runDaemon).  Commands find the daemon by a pid file or by *)
(* the systemd user unit; a booting daemon first takes over the saved jobs *)
(* and binds its port last.  One port, so at most one daemon serves.       *)
(* Pids are not reused.                                                    *)
(***************************************************************************)
EXTENDS Naturals, FiniteSets

CONSTANTS Cmds,         \* commands a user or a script runs on the machine
          MaxDaemons    \* bound: daemon processes ever spawned

ASSUME DaemonAssumption == MaxDaemons \in Nat /\ IsFiniteSet(Cmds)

Pids == 1..MaxDaemons

VARIABLES
    life,       \* [Pids -> unborn, boot, ready, serving, going, leaving, killed, dead]
    pidFile,    \* daemon.pid; 0 when there is none
    service,    \* the unit file exists
    unit,       \* the pid systemd runs or will replace; 0 when inactive
    saved,      \* the daemon whose running job the state file records, or 0
    cmd,        \* [Cmds -> [op, pc, pid]]
    shot,       \* daemons that lost a job to another daemon's boot
    overlap     \* two commands were under way at once

lifeVars == <<life, pidFile, service, unit, saved, cmd, shot, overlap>>

Nothing == 0
Busy(c)  == cmd[c].pc # "idle"
Alive(p) == p \in Pids /\ life[p] \in {"boot", "ready", "serving", "going", "leaving", "killed"}
Serves(p) == life[p] \in {"serving", "leaving"}

DaemonTypeOK ==
    /\ life \in [Pids -> {"unborn", "boot", "ready", "serving", "going", "leaving",
                       "killed", "dead"}]
    /\ pidFile \in Pids \cup {Nothing} /\ unit \in Pids \cup {Nothing} /\ saved \in Pids \cup {Nothing}
    /\ service \in BOOLEAN /\ overlap \in BOOLEAN /\ shot \subseteq Pids
    /\ cmd \in [Cmds -> [op : {"start", "stop", "restart"}, pid : Pids \cup {Nothing},
                         pc : {"idle", "spawn", "write", "health", "unit", "term", "wait", "remove"}]]

LifeInit ==
    /\ life = [p \in Pids |-> "unborn"] /\ pidFile = Nothing /\ service \in BOOLEAN
    /\ unit = Nothing /\ saved = Nothing /\ shot = {} /\ overlap = FALSE
    /\ cmd = [c \in Cmds |-> [op |-> "start", pc |-> "idle", pid |-> Nothing]]

\* What SIGTERM makes of a daemon: one that has not installed its handler
\* yet dies of it, the others do the handler's work first.
Terminated(l) ==
    CASE l = "boot" -> "dead" [] l = "ready" -> "going" [] l = "serving" -> "leaving"
      [] OTHER -> l

Goto(c, pc) == cmd' = [cmd EXCEPT ![c].pc = pc]

-----------------------------------------------------------------------------
\* The commands

\* Status: the pid file's process, or with a unit installed the unit's.
Running == Alive(pidFile) \/ (service /\ Alive(unit))

Fresh == CHOOSE p \in Pids : life[p] = "unborn"
CanSpawn == \E p \in Pids : life[p] = "unborn"

\* A command begins.  Start looks at Status before anything else and is done
\* when a daemon runs; Stop goes to systemd first when the unit is installed.
Begin(c, op) ==
    /\ ~Busy(c)
    /\ overlap' = (overlap \/ \E e \in Cmds : Busy(e))
    /\ cmd' = [cmd EXCEPT ![c] =
         [op |-> op, pid |-> Nothing,
          pc |-> CASE op = "start" -> IF Running THEN "idle" ELSE "spawn"
                   [] OTHER -> IF service THEN "unit" ELSE "term"]]
    /\ UNCHANGED <<life, pidFile, service, unit, saved, shot>>

\* Start spawns the daemon itself, or asks systemd for it.  The pid file is
\* written afterwards, and only for a daemon of its own.
Spawn(c) ==
    /\ cmd[c].pc = "spawn" /\ CanSpawn
    /\ IF service
       THEN /\ IF Alive(unit) THEN UNCHANGED <<life, unit>>
               ELSE unit' = Fresh /\ life' = [life EXCEPT ![Fresh] = "boot"]
            /\ Goto(c, "health")
       ELSE /\ life' = [life EXCEPT ![Fresh] = "boot"] /\ UNCHANGED unit
            /\ cmd' = [cmd EXCEPT ![c].pc = "write", ![c].pid = Fresh]
    /\ UNCHANGED <<pidFile, service, saved, shot, overlap>>

WritePid(c) ==
    /\ cmd[c].pc = "write" /\ pidFile' = cmd[c].pid /\ Goto(c, "health")
    /\ UNCHANGED <<life, service, unit, saved, shot, overlap>>

\* waitForHealthy: whoever answers on the port, or the time runs out.  Either
\* way the daemon and its pid file stay.
Health(c) ==
    /\ cmd[c].pc = "health" /\ Goto(c, "idle")
    /\ UNCHANGED <<life, pidFile, service, unit, saved, shot, overlap>>

\* systemctl stop: SIGTERM, then wait until the unit's process is gone.
StopUnit(c) ==
    /\ cmd[c].pc = "unit"
    /\ IF Alive(unit)
       THEN /\ life[unit] # Terminated(life[unit])
            /\ life' = [life EXCEPT ![unit] = Terminated(@)] /\ UNCHANGED <<cmd, unit>>
       ELSE /\ unit' = Nothing /\ Goto(c, "term") /\ UNCHANGED life
    /\ UNCHANGED <<pidFile, service, saved, shot, overlap>>

\* After Stop, Restart goes on as Start does.
After(c) == IF cmd[c].op = "restart" THEN (IF Running THEN "idle" ELSE "spawn") ELSE "idle"

\* Stop reads the pid file and sends SIGTERM.
SignalTerm(c) ==
    /\ cmd[c].pc = "term"
    /\ IF pidFile = Nothing
       THEN Goto(c, After(c)) /\ UNCHANGED life
       ELSE /\ cmd' = [cmd EXCEPT ![c].pc = "wait", ![c].pid = pidFile]
            /\ life' = [life EXCEPT ![pidFile] = Terminated(@)]
    /\ UNCHANGED <<pidFile, service, unit, saved, shot, overlap>>

\* A mutant of the next: the wait ends and the process is left to itself.
GiveUp(c) ==
    /\ cmd[c].pc = "wait" /\ Goto(c, "remove")
    /\ UNCHANGED <<life, pidFile, service, unit, saved, shot, overlap>>

\* Three seconds later what still runs gets SIGKILL, and nobody waits for it
\* to be gone.
KillLeft(c) ==
    /\ cmd[c].pc = "wait" /\ Goto(c, "remove")
    /\ life' = [p \in Pids |-> IF p = cmd[c].pid /\ Alive(p) THEN "killed" ELSE life[p]]
    /\ UNCHANGED <<pidFile, service, unit, saved, shot, overlap>>

RemoveFiles(c) ==
    /\ cmd[c].pc = "remove" /\ pidFile' = Nothing
    /\ cmd' = [cmd EXCEPT ![c].pc =
         IF cmd[c].op = "restart" THEN (IF service /\ Alive(unit) THEN "idle" ELSE "spawn") ELSE "idle"]
    /\ UNCHANGED <<life, service, unit, saved, shot, overlap>>

\* setup installs the unit beside whatever runs.
Install ==
    /\ ~service /\ service' = TRUE
    /\ \A c \in Cmds : ~Busy(c)
    /\ UNCHANGED <<life, pidFile, unit, saved, cmd, shot, overlap>>

CommandNext ==
    \/ \E c \in Cmds :
         \/ \E op \in {"start", "stop", "restart"} : Begin(c, op)
         \/ Spawn(c) \/ WritePid(c) \/ Health(c) \/ StopUnit(c)
         \/ SignalTerm(c) \/ KillLeft(c) \/ RemoveFiles(c)
    \/ Install

-----------------------------------------------------------------------------
\* The daemons

\* EnablePersistence, before the port is bound: a job the state file has as
\* running is failed and what is left of it is killed.
TakeOver(p) ==
    /\ life[p] = "boot" /\ life' = [life EXCEPT ![p] = "ready"]
    /\ saved' = Nothing
    /\ shot' = shot \cup {q \in Pids : q = saved /\ Serves(q)}
    /\ UNCHANGED <<pidFile, service, unit, cmd, overlap>>

\* ListenAndServe: while a daemon is not gone yet it holds the port.
Bind(p) ==
    /\ life[p] \in {"ready", "going"}
    /\ \A q \in Pids : ~Serves(q) /\ life[q] # "killed"
    /\ life' = [life EXCEPT ![p] = IF @ = "ready" THEN "serving" ELSE "leaving"]
    /\ UNCHANGED <<pidFile, service, unit, saved, cmd, shot, overlap>>

\* A port that is taken is fatal, and a daemon may die at any time.
Falls(p) ==
    /\ life[p] \in {"boot", "ready", "serving"} /\ life' = [life EXCEPT ![p] = "dead"]
    /\ UNCHANGED <<pidFile, service, unit, saved, cmd, shot, overlap>>

\* The signal handler's work ends in os.Exit(0), which systemd takes for
\* success; SIGKILL takes effect.
Leaves(p) ==
    /\ life[p] \in {"going", "leaving", "killed"} /\ life' = [life EXCEPT ![p] = "dead"]
    /\ unit' = IF unit = p /\ life[p] # "killed" THEN Nothing ELSE unit
    /\ UNCHANGED <<pidFile, service, saved, cmd, shot, overlap>>

\* A daemon runs a job until it ends, also while it is leaving.  Each change
\* rewrites the whole file.
TakesJob(p) ==
    /\ Serves(p) /\ saved = Nothing /\ saved' = p
    /\ UNCHANGED <<life, pidFile, service, unit, cmd, shot, overlap>>

JobDone(p) ==
    /\ Serves(p) /\ saved = p /\ saved' = Nothing
    /\ UNCHANGED <<life, pidFile, service, unit, cmd, shot, overlap>>

\* Restart=on-failure, and the unit at boot.
UnitAgain ==
    /\ service /\ CanSpawn /\ unit # Nothing /\ life[unit] = "dead"
    /\ \A c \in Cmds : cmd[c].pc # "unit"
    /\ unit' = Fresh /\ life' = [life EXCEPT ![Fresh] = "boot"]
    /\ UNCHANGED <<pidFile, service, saved, cmd, shot, overlap>>

\* Everything dies; the files stay, and the unit starts when it is enabled.
Reboot ==
    /\ \A c \in Cmds : ~Busy(c)
    /\ \E p \in Pids : Alive(p)
    /\ \/ /\ life' = [p \in Pids |-> IF Alive(p) THEN "dead" ELSE life[p]] /\ unit' = Nothing
       \/ /\ service /\ CanSpawn /\ unit' = Fresh
          /\ life' = [p \in Pids |-> IF Alive(p) THEN "dead"
                                     ELSE IF p = Fresh THEN "boot" ELSE life[p]]
    /\ UNCHANGED <<pidFile, service, saved, cmd, shot, overlap>>

DaemonNext ==
    \/ \E p \in Pids : TakeOver(p) \/ Bind(p) \/ Falls(p) \/ Leaves(p) \/ TakesJob(p) \/ JobDone(p)
    \/ UnitAgain \/ Reboot

LifeNext == CommandNext \/ DaemonNext

LifeSpec == LifeInit /\ [][LifeNext]_lifeVars

-----------------------------------------------------------------------------
\* Between commands that do not overlap, every daemon that is to stay can be
\* found again: by the pid file or by the unit.  One that cannot keeps the
\* port for good.  A booting daemon fails the jobs of the one before it (the
\* comment on failOrphanedJobs says their process was lost with it) and never
\* those of a daemon that still runs; and a daemon that serves is not shadowed
\* by the record of a job nobody runs.
DaemonFound ==
    /\ DaemonTypeOK
    /\ ~overlap =>
         /\ shot = {}
         /\ \A p \in Pids : Serves(p) /\ saved # Nothing => saved = p
         /\ (\A c \in Cmds : ~Busy(c)) =>
              \A p \in Pids : Alive(p) /\ life[p] # "killed" => p \in {pidFile, unit}

\* The comment on failOrphanedJobs without the proviso: two starts at once
\* violate it (section 4 of the README).
OrphansAreDead == shot = {}
=============================================================================
