--------------------------- MODULE MaintenanceWeb ---------------------------
(***************************************************************************)
(* The Maintenance Web switch: managementd's enable and disable, which     *)
(* write the opt-in and then restart S62fre3nder-maintenance-web, and that *)
(* script, which keeps one lighttpd on port 8081 by a pid file and a       *)
(* status file.  managementd serves each request in a thread of its own;   *)
(* its lock covers the opt-in and not the script, and the script has none. *)
(*                                                                         *)
(* lighttpd and the kernel are external: a process binds the port or ends, *)
(* and ends some time after it is told to.  No two of its processes have   *)
(* the same pid, though another program may come to have one of them.      *)
(***************************************************************************)
EXTENDS Naturals, FiniteSets

CONSTANTS
  Callers,    \* threads of requests, and the boot
  Requests,   \* what callers do: subset of enable, disable, boot
  MaxPids,    \* bound: processes started
  MaxCrashes, \* bound: processes that end on their own
  Prompt,     \* lighttpd ends within the ten seconds that stop waits
  Runnable    \* the script can be run, in its runtime directory

NoPid == 0
Pids == 1..MaxPids

VARIABLES
  enabled,  \* the opt-in is persisted
  status,   \* the script's status file
  pidFile,
  alive,    \* lighttpd processes
  told,     \* those that were sent SIGTERM
  port,     \* the process that serves port 8081
  pids, crashes,
  call      \* of each caller: where it is, and the pid that it holds there

world == <<enabled, status, pidFile, alive, told, port, pids, crashes>>
vars == <<world, call>>

\* Where managementd is with a request: to enable, it looks whether the listener is active
\* already and sets the opt-in, without a refresh ("keep") or with one to come; to disable, it
\* clears the opt-in; then it asks the script.
Asking == {"decide", "look", "keep", "set", "clear", "refresh"}

\* Where the script is.
Scripts == {"stopping", "stopped", "start", "config", "spawn", "written", "wait"}

Steps == {"idle"} \cup Asking \cup Scripts

\* The failures that start writes; "unavailable" stands for those of prepare_config and of the
\* checks of lighttpd, from degraded-root to config-invalid.
Failures == {"unavailable", "stale-pid", "pid-write-failed", "startup-failed", "stop-timeout"}
Statuses == {"none", "active", "starting", "stopped", "disabled"} \cup Failures

TypeOK ==
  /\ enabled \in BOOLEAN /\ status \in Statuses /\ pidFile \in Pids \cup {NoPid}
  /\ alive \subseteq Pids /\ told \subseteq alive /\ port \in alive \cup {NoPid}
  /\ pids \in 0..MaxPids /\ crashes \in 0..MaxCrashes
  /\ call \in [Callers -> [pc : Steps, pid : Pids \cup {NoPid}]]

\* At boot the runtime directory is empty.
Init ==
  /\ enabled \in BOOLEAN /\ status = "none" /\ pidFile = NoPid /\ alive = {} /\ told = {}
  /\ port = NoPid /\ pids = 0 /\ crashes = 0
  /\ call = [c \in Callers |-> [pc |-> "idle", pid |-> NoPid]]

At(c, pc) == call[c].pc = pc
GoWith(c, pc, p) == call' = [call EXCEPT ![c] = [pc |-> pc, pid |-> p]]
Go(c, pc) == GoWith(c, pc, NoPid)
Runs(c) == call[c].pc \in Scripts

-----------------------------------------------------------------------------
(* managementd. *)

\* A request arrives, or the boot runs the script with start.
Arrive(c) ==
  /\ At(c, "idle")
  /\ \E r \in Requests :
       /\ r = "boot" => status = "none"
       /\ Go(c, CASE r = "enable" -> "decide" [] r = "disable" -> "clear" [] r = "boot" -> "start")
  /\ UNCHANGED world

\* already_active reads the opt-in and then the status, without a lock, before the opt-in is set.
Decide(c) == At(c, "decide") /\ Go(c, IF enabled THEN "look" ELSE "set") /\ UNCHANGED world

Look(c) == At(c, "look") /\ Go(c, IF status = "active" THEN "keep" ELSE "set") /\ UNCHANGED world

\* set_maintenance; when the file resists the request ends there.
Set(c) ==
  /\ call[c].pc \in {"keep", "set", "clear"}
  /\ \/ enabled' = ~At(c, "clear") /\ Go(c, IF At(c, "keep") THEN "idle" ELSE "refresh")
     \/ Go(c, "idle") /\ UNCHANGED enabled
  /\ UNCHANGED <<status, pidFile, alive, told, port, pids, crashes>>

\* refresh_web cannot run the script, or the script refuses its runtime directory; the answer
\* to the request says so.
RefreshFails(c) == At(c, "refresh") /\ ~Runnable /\ Go(c, "idle") /\ UNCHANGED world

-----------------------------------------------------------------------------
(* The script. *)

\* stop: the process of the pid file is told to end.
Stop(c) ==
  /\ At(c, "refresh")
  /\ \/ pidFile \in alive /\ told' = told \cup {pidFile} /\ GoWith(c, "stopping", pidFile)
        /\ UNCHANGED <<pidFile, status>>
     \/ pidFile \notin alive /\ pidFile' = NoPid /\ status' = "stopped" /\ Go(c, "stopped")
        /\ UNCHANGED told
  /\ UNCHANGED <<enabled, alive, port, pids, crashes>>

\* It is waited for, for ten seconds.  The pid file that is removed may be another one.
Stopping(c) ==
  /\ At(c, "stopping")
  /\ \/ call[c].pid \notin alive /\ pidFile' = NoPid /\ status' = "stopped" /\ Go(c, "stopped")
     \/ call[c].pid \in alive /\ ~Prompt /\ status' = "stop-timeout" /\ Go(c, "idle") /\ UNCHANGED pidFile
  /\ UNCHANGED <<enabled, alive, told, port, pids, crashes>>

\* restart goes on with start when the status file says so.
Stopped(c) ==
  /\ At(c, "stopped") /\ Go(c, IF status = "stopped" THEN "start" ELSE "idle")
  /\ UNCHANGED world

\* start: a process that runs is kept, and a pid that another program has is left alone.
Start(c) ==
  /\ At(c, "start")
  /\ \/ pidFile \in alive /\ status' = "active" /\ Go(c, "idle") /\ UNCHANGED pidFile
     \/ pidFile \notin alive /\ pidFile' = NoPid /\ Go(c, "config") /\ UNCHANGED status
     \/ pidFile \notin alive /\ pidFile # NoPid /\ status' = "stale-pid" /\ Go(c, "idle") /\ UNCHANGED pidFile
  /\ UNCHANGED <<enabled, alive, told, port, pids, crashes>>

\* Bug: a listener is configured whether it is wanted or not.
ConfigAlways(c) ==
  /\ At(c, "config") /\ Go(c, "spawn")
  /\ UNCHANGED world

\* prepare_config and the checks of what it wrote.
Config(c) ==
  /\ At(c, "config")
  /\ \/ enabled /\ Go(c, "spawn") /\ UNCHANGED status
     \/ ~enabled /\ status' = "disabled" /\ Go(c, "idle")
     \/ status' = "unavailable" /\ Go(c, "idle")
  /\ UNCHANGED <<enabled, pidFile, alive, told, port, pids, crashes>>

Spawn(c) ==
  /\ At(c, "spawn") /\ pids < MaxPids /\ pids' = pids + 1 /\ alive' = alive \cup {pids'}
  /\ status' = "starting" /\ GoWith(c, "written", pids')
  /\ UNCHANGED <<enabled, pidFile, told, port, crashes>>

\* The pid file is written; if it resists, it is left as it was or empty, and the process is
\* told to end.
WritePid(c) ==
  /\ At(c, "written")
  /\ \/ pidFile' = call[c].pid /\ GoWith(c, "wait", call[c].pid) /\ UNCHANGED <<status, told>>
     \/ pidFile' \in {pidFile, NoPid} /\ status' = "pid-write-failed" /\ Go(c, "idle")
        /\ told' = told \cup ({call[c].pid} \cap alive)
  /\ UNCHANGED <<enabled, alive, port, pids, crashes>>

\* A second later the process has bound the port or is gone.
Confirm(c) ==
  /\ At(c, "wait") /\ Go(c, "idle")
  /\ \/ call[c].pid \in alive /\ (port = call[c].pid \/ call[c].pid \in told)
        /\ status' = "active" /\ UNCHANGED pidFile
     \/ call[c].pid \notin alive /\ status' = "startup-failed" /\ pidFile' = NoPid
  /\ UNCHANGED <<enabled, alive, told, port, pids, crashes>>

Script(c) ==
  Stop(c) \/ Stopping(c) \/ Stopped(c) \/ Start(c) \/ Config(c) \/ Spawn(c) \/ WritePid(c) \/ Confirm(c)

-----------------------------------------------------------------------------
(* lighttpd. *)

\* A process binds the port, or ends because another one has it.
Bind(p) ==
  /\ p \in alive \ told /\ port # p
  /\ IF port = NoPid THEN port' = p /\ UNCHANGED alive ELSE alive' = alive \ {p} /\ UNCHANGED port
  /\ UNCHANGED <<enabled, status, pidFile, told, pids, crashes, call>>

Gone(p) ==
  /\ alive' = alive \ {p} /\ told' = told \ {p} /\ port' = (IF port = p THEN NoPid ELSE port)
  /\ UNCHANGED <<enabled, status, pidFile, pids, call>>

Obey(p) == p \in told /\ Gone(p) /\ UNCHANGED crashes

Crash(p) == p \in alive \ told /\ crashes < MaxCrashes /\ crashes' = crashes + 1 /\ Gone(p)

-----------------------------------------------------------------------------

Step(c) == Decide(c) \/ Look(c) \/ Set(c) \/ RefreshFails(c) \/ Script(c)

Next ==
  \/ \E c \in Callers : Arrive(c) \/ Step(c)
  \/ \E p \in Pids : Bind(p) \/ Obey(p) \/ Crash(p)

Spec == Init /\ [][Next]_vars

-----------------------------------------------------------------------------
(* Properties. *)

Settled == (\A c \in Callers : At(c, "idle")) /\ told = {}

\* What the script reports as a failure, or has not begun.
Failed == status \in Failures \cup {"none"}

\* docs/api/management.md: "When Maintenance is disabled, its listener stops".  Two requests
\* at a time may start a listener behind the disabling one, or remove the pid file by which it
\* would be found; what does hold is SwitchSettles of Maintenance.
DisabledStops == Settled /\ ~enabled => alive = {}

=============================================================================
