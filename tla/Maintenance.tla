----------------------------- MODULE Maintenance -----------------------------
(***************************************************************************)
(* Maintenance Web as a whole: the pairing codes and browser sessions of   *)
(* managementd (WebSessions) and the listener that they come through       *)
(* (MaintenanceWeb) share the opt-in.  A request to enable or to disable   *)
(* changes the opt-in and the sessions in one step and the listener in     *)
(* many; in between everything else goes on, and managementd may restart.  *)
(***************************************************************************)
EXTENDS WebSessions

CONSTANTS Callers, Requests, MaxPids, MaxCrashes, Prompt, Runnable

ASSUME SwitchAssumption ==
  Requests \subseteq {"enable", "disable", "boot"} /\ MaxPids \in Nat /\ MaxCrashes \in Nat

VARIABLES
  status, pidFile, alive, told, port, pids, crashes, call,
  \* History, which no step reads.
  missed,  \* an opt-in was set and no script has begun since: managementd ended, or said it failed
  crossed  \* two scripts ran at once, or an enable without refresh undid a disable

Web == INSTANCE MaintenanceWeb

auth == <<now, pairing, session>>
listener == <<status, pidFile, alive, told, port, pids, crashes, call>>
history == <<missed, crossed>>

MInit == Init /\ Web!Init /\ missed = FALSE /\ crossed = FALSE

-----------------------------------------------------------------------------

\* What concerns codes and sessions only.
AuthStep ==
  /\ Tick \/ LockAll \/ CreateCode \/ Redeem \/ \E t \in Tokens : Use(t) \/ Look(t) \/ Refuse(t) \/ Revoke(t)
  /\ UNCHANGED <<listener, history>>

\* Two scripts are at work.
TwoRun == \E c, d \in Callers : c # d /\ Web!Runs(c) /\ Web!Runs(d)

\* A script begins, whose start reads the opt-in that is to come.
Begins == \E c \in Callers : ~Web!Runs(c) /\ Web!Runs(c)'

\* What concerns the listener only.
ListenerStep ==
  /\ \/ \E c \in Callers : Web!Arrive(c) \/ Web!Decide(c) \/ Web!Look(c) \/ Web!Script(c)
     \/ \E p \in Web!Pids : Web!Bind(p) \/ Web!Obey(p) \/ Web!Crash(p)
  /\ missed' = (missed /\ ~Begins) /\ crossed' = (crossed \/ TwoRun')
  /\ served' = {} /\ UNCHANGED auth

\* set_maintenance: under _auth_lock, with the codes and sessions.
Switch(c) ==
  /\ Web!Set(c)
  /\ IF Web!At(c, "clear") THEN Disable ELSE Enable
  /\ crossed' = (crossed \/ (Web!At(c, "keep") /\ enabled' # enabled)) /\ UNCHANGED missed

\* The script is not run.
RefreshFails(c) ==
  /\ Web!RefreshFails(c) /\ missed' = TRUE /\ served' = {} /\ UNCHANGED <<auth, crossed>>

\* A restart of managementd: a request that has not come to the script is gone, and a script
\* that runs goes on beside the requests to come.
Restarts ==
  /\ Restart
  /\ call' = [c \in Callers |-> IF call[c].pc \in Web!Asking THEN [pc |-> "idle", pid |-> Web!NoPid] ELSE call[c]]
  /\ missed' = (missed \/ \E c \in Callers : Web!At(c, "refresh"))
  /\ UNCHANGED <<status, pidFile, alive, told, port, pids, crashes, crossed>>

MNext == AuthStep \/ ListenerStep \/ Restarts \/ \E c \in Callers : Switch(c) \/ RefreshFails(c)

mvars == <<vars, listener, history>>

MSpec == MInit /\ [][MNext]_mvars

-----------------------------------------------------------------------------
(* Properties. *)

\* When no request is at work, whatever requests, orphaned scripts, timeouts, crashes and
\* restarts came before: unless requests crossed (what happens then is what DisabledStops
\* meets), the listener that there is is the one that the next stop finds.  It runs while
\* disabled only when the script was never asked: managementd ended between set_maintenance
\* and refresh_web, or answered "failed"; docs/api/management.md has no such exception.  It
\* does not run while enabled only then, or when lighttpd ended on its own, or when the status
\* names a failure.  The script that begins next makes up for what was missed.
SwitchSettles ==
  /\ Web!TypeOK
  /\ Web!Settled /\ ~crossed =>
       /\ alive \subseteq {pidFile}
       /\ ~enabled /\ alive # {} => missed
       /\ enabled /\ alive = {} => missed \/ crashes # 0 \/ Web!Failed
=============================================================================
