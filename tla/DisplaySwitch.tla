---------------------------- MODULE DisplaySwitch ----------------------------
(***************************************************************************)
(* The display frontend: package-core's display-select with its way back,  *)
(* display-disable, and the update and removal of the selected app, which  *)
(* call S64fre3nder-display; and that script, which starts and stops the   *)
(* selected app and hands it tty7.  One operation of package-core runs at  *)
(* a time; the script takes no lock, and the boot runs it on its own: an   *)
(* operation that begins before the boot is through with the display runs  *)
(* into it.                                                                *)
(*                                                                         *)
(* Apps and the kernel are external.  An app that is started takes tty7    *)
(* some time later, or never; it may fail to start or to stop, and die.    *)
(***************************************************************************)
EXTENDS FiniteSets, Naturals

CONSTANTS
  Apps,       \* display frontends
  None,
  MaxFaults,  \* bound: faults
  MaxOps,     \* bound: operations of package-core
  MaxReboots  \* bound

ASSUME DisplayAssumption ==
  None \notin Apps /\ {MaxFaults, MaxOps, MaxReboots} \subseteq Nat

Callers == {"core", "boot"}

VARIABLES
  installed,
  sel,      \* ACTIVE_DISPLAY
  status,   \* the script's status file
  live,     \* apps that run
  hung,     \* those that will not take tty7
  tty,      \* who has tty7 in VT_PROCESS / KD_GRAPHICS
  script,   \* step of the script that each caller runs
  code,     \* its last exit code is zero
  op,       \* package-core's operation: what, app, previous selection, what ran, step
  died,     \* an app has ended on its own since the operation began
  crossed,  \* history: an operation has begun before the boot was through with the display,
            \* or a service was operated by its name, and none has found nothing running since
  faults, ops, reboots

scripts == <<script, code>>
bounds == <<died, crossed, ops, reboots>>
vars == <<installed, sel, status, live, hung, tty, scripts, op, faults, bounds>>

ScriptSteps == {"idle", "start", "check", "prepare", "launch", "ready", "undo", "stop", "kill"}
Steps == {"idle", "selection", "same", "stopped", "started", "recover", "recStopped", "recStarted",
          "cleared", "dStopped", "uStopped", "rStopped", "removed", "last"}
Idle == [what |-> "none", app |-> None, previous |-> None, ran |-> {}, pc |-> "idle", faults |-> 0]

TypeOK ==
  /\ installed \subseteq Apps /\ sel \in Apps \cup {None} /\ live \subseteq Apps /\ hung \subseteq live
  /\ status \in {"none", "disabled", "unavailable", "active", "starting", "startup-failed",
                 "stop-failed", "stopped"}
  /\ tty \in Apps \cup {None} /\ script \in [Callers -> ScriptSteps] /\ code \in BOOLEAN
  /\ op \in [what : {"none", "select", "disable", "update", "remove"}, app : Apps \cup {None},
             previous : Apps \cup {None}, ran : SUBSET Apps, pc : Steps, faults : 0..MaxFaults]
  /\ died \in BOOLEAN /\ crossed \in BOOLEAN /\ faults \in 0..MaxFaults /\ ops \in 0..MaxOps /\ reboots \in 0..MaxReboots

Init ==
  /\ installed = Apps /\ sel \in Apps \cup {None} /\ status = "none" /\ live = {} /\ hung = {} /\ tty = None
  /\ script = [c \in Callers |-> IF c = "boot" THEN "start" ELSE "idle"] /\ code = TRUE
  /\ op = Idle /\ died = FALSE /\ crossed = FALSE /\ faults = 0 /\ ops = 0 /\ reboots = 0

Fault == faults < MaxFaults /\ faults' = faults + 1

\* display-service-status and console check: of the app that is selected now.
Running == sel # None /\ sel \in live
Shown == Running /\ tty = sel

-----------------------------------------------------------------------------
(* The script. *)

Goes(c, s) == script' = [script EXCEPT ![c] = s]
Ends(c, s) == Goes(c, "idle") /\ status' = s /\ code' = TRUE

\* start_frontend: nothing is selected, a device is missing, or on.
ScriptStart(c) ==
  /\ script[c] = "start"
  /\ \/ sel = None /\ Ends(c, "disabled") /\ UNCHANGED faults
     \/ sel # None /\ Goes(c, "check") /\ UNCHANGED <<status, code, faults>>
     \/ sel # None /\ Ends(c, "unavailable") /\ Fault
  /\ UNCHANGED <<installed, sel, live, hung, tty, op, bounds>>

ScriptCheck(c) ==
  /\ script[c] = "check"
  /\ IF Shown THEN Ends(c, "active") ELSE Goes(c, "prepare") /\ UNCHANGED <<status, code>>
  /\ UNCHANGED <<installed, sel, live, hung, tty, op, faults, bounds>>

\* console prepare resets tty7, whoever has it.
ScriptPrepare(c) ==
  /\ script[c] = "prepare"
  /\ \/ tty' = None /\ status' = "starting" /\ Goes(c, "launch") /\ UNCHANGED <<code, faults>>
     \/ Ends(c, "unavailable") /\ Fault /\ UNCHANGED tty
  /\ UNCHANGED <<installed, sel, live, hung, op, bounds>>

\* display-service-start: of the app that is selected now.
ScriptLaunch(c) ==
  /\ script[c] = "launch"
  /\ \/ sel \in installed /\ live' = live \cup {sel} /\ Goes(c, "ready") /\ UNCHANGED <<hung, faults>>
     \/ sel \in installed /\ live' = live \cup {sel} /\ hung' = hung \cup {sel} /\ Fault /\ Goes(c, "ready")
     \/ sel \in installed /\ Fault /\ live' \in {live, live \cup {sel}} /\ Goes(c, "undo") /\ UNCHANGED hung
     \/ sel \notin installed /\ Goes(c, "undo") /\ UNCHANGED <<live, hung, faults>>
  /\ UNCHANGED <<installed, sel, status, tty, code, op, bounds>>

\* wait_display_ready: five seconds suffice for an app that does not hang.
ScriptReady(c) ==
  /\ script[c] = "ready"
  /\ \/ Shown /\ Ends(c, "active")
     \/ ~Shown /\ (Running => sel \in hung \/ tty # None) /\ Goes(c, "undo") /\ UNCHANGED <<status, code>>
  /\ UNCHANGED <<installed, sel, live, hung, tty, op, faults, bounds>>

\* The selected app stops, and tty7 is released.
Quiet == live' = live \ {sel} /\ hung' = hung \ {sel} /\ tty' = None

\* A failed start is undone: stop and release, or stop-failed.  display-service-stop fails
\* when nothing is selected.
ScriptUndo(c) ==
  /\ script[c] = "undo"
  /\ \/ sel \in installed /\ Quiet /\ Ends(c, "startup-failed") /\ UNCHANGED faults
     \/ sel \in installed /\ Fault /\ Ends(c, "stop-failed") /\ UNCHANGED <<live, hung, tty>>
     \/ sel \notin installed /\ Ends(c, "stop-failed") /\ UNCHANGED <<live, hung, tty, faults>>
  /\ UNCHANGED <<installed, sel, op, bounds>>

\* Bug: the frontend is not asked to stop.
ScriptStopReleases(c) ==
  /\ script[c] = "stop" /\ Ends(c, "stopped")
  /\ tty' = (IF sel = None THEN tty ELSE None)
  /\ UNCHANGED <<installed, sel, live, hung, op, faults, bounds>>

\* stop: an app that runs is asked to.
ScriptStop(c) ==
  /\ script[c] = "stop"
  /\ \/ Running /\ Goes(c, "kill") /\ UNCHANGED <<status, code, tty>>
     \/ ~Running /\ Ends(c, "stopped") /\ tty' = (IF sel = None THEN tty ELSE None)
  /\ UNCHANGED <<installed, sel, live, hung, op, faults, bounds>>

ScriptKill(c) ==
  /\ script[c] = "kill"
  /\ \/ Quiet /\ Ends(c, "stopped") /\ UNCHANGED faults
     \/ Fault /\ status' = "stop-failed" /\ code' = FALSE /\ Goes(c, "idle") /\ UNCHANGED <<live, hung, tty>>
  /\ UNCHANGED <<installed, sel, op, bounds>>

Script(c) ==
  \/ ScriptStart(c) \/ ScriptCheck(c) \/ ScriptPrepare(c) \/ ScriptLaunch(c) \/ ScriptReady(c)
  \/ ScriptUndo(c) \/ ScriptStop(c) \/ ScriptKill(c)

-----------------------------------------------------------------------------
(* package-core. *)

CoreAt(step) == op.pc = step /\ script["core"] = "idle"
Continue(step) == op' = [op EXCEPT !.pc = step] /\ UNCHANGED script
Call(s, step) == op' = [op EXCEPT !.pc = step] /\ script' = [script EXCEPT !["core"] = s]
Return == op' = [op EXCEPT !.pc = "idle"] /\ UNCHANGED script

Others == UNCHANGED <<live, hung, tty, status, code, bounds>>

Begin(what, app) ==
  /\ CoreAt("idle") /\ ops < MaxOps /\ ops' = ops + 1 /\ died' = FALSE
  /\ crossed' = (script["boot"] # "idle" \/ (crossed /\ (live # {} \/ tty # None)))
  /\ LET new == [what |-> what, app |-> app, previous |-> sel, ran |-> live, pc |-> "idle", faults |-> faults]
         go(step) == op' = [new EXCEPT !.pc = step] /\ UNCHANGED script
         call(s, step) == op' = [new EXCEPT !.pc = step] /\ script' = [script EXCEPT !["core"] = s]
     IN CASE what = "select" ->
               /\ app \in installed /\ status # "stop-failed"
               /\ IF sel = app THEN IF status = "active" /\ Shown THEN go("idle") ELSE call("start", "same")
                  ELSE IF sel = None THEN go("selection") ELSE call("stop", "stopped")
          [] what = "disable" -> sel # None /\ call("stop", "dStopped")
          [] what = "update" -> sel = app /\ app \in installed /\ call("stop", "uStopped")
          [] what = "remove" -> sel = app /\ app \in installed /\ call("stop", "rStopped")
  /\ UNCHANGED <<installed, sel, live, hung, tty, status, code, faults, reboots>>

\* Bug: the exit code of stop is not looked at.
ConfirmedAnyhow == TRUE

\* stop_selected_display: a stop that is not confirmed ends the operation.
Confirmed == code /\ status = "stopped"

SwitchStopped ==
  /\ CoreAt("stopped") /\ (IF Confirmed THEN Continue("selection") ELSE Return)
  /\ Others /\ UNCHANGED <<installed, sel, faults>>

\* select_display, then the checked start.
SwitchSelect ==
  /\ CoreAt("selection")
  /\ \/ sel' = op.app /\ Call("start", "started") /\ UNCHANGED faults
     \/ Fault /\ Continue("recover") /\ UNCHANGED sel
  /\ Others /\ UNCHANGED installed

\* start_selected_display believes the status file and the app, not the exit code.
SwitchStarted ==
  /\ CoreAt("started") /\ (IF status = "active" /\ Shown THEN Return ELSE Continue("recover"))
  /\ Others /\ UNCHANGED <<installed, sel, faults>>

SwitchRecover ==
  /\ CoreAt("recover") /\ (IF status = "stop-failed" THEN Return ELSE Call("stop", "recStopped"))
  /\ Others /\ UNCHANGED <<installed, sel, faults>>

\* A power loss in a removal leaves a selection that is not installed.
Restorable == op.previous \in installed \cup {None}

\* Bug: the previous display is selected and not started.
SwitchRestoreSelection ==
  /\ CoreAt("recStopped") /\ sel' = (IF Confirmed THEN op.previous ELSE sel) /\ Return
  /\ Others /\ UNCHANGED <<installed, faults>>

\* The previous selection is restored, if that app is still installed, or cleared, and started.
SwitchRestore ==
  /\ CoreAt("recStopped")
  /\ \/ Confirmed /\ Restorable /\ sel' = op.previous /\ Call("start", "recStarted") /\ UNCHANGED faults
     \/ Confirmed /\ op.previous # None /\ Fault /\ Return /\ UNCHANGED sel
     \/ ~(Confirmed /\ Restorable) /\ Return /\ UNCHANGED <<sel, faults>>
  /\ Others /\ UNCHANGED installed

\* display-disable: an unlink that fails starts the display again.
DisableStopped ==
  /\ CoreAt("dStopped")
  /\ \/ code /\ sel' = None /\ Return /\ UNCHANGED faults
     \/ code /\ Fault /\ Call("start", "last") /\ UNCHANGED sel
     \/ ~code /\ Return /\ UNCHANGED <<sel, faults>>
  /\ Others /\ UNCHANGED installed

\* update_package: the display is started whether the update failed or not.
UpdateStopped ==
  /\ CoreAt("uStopped") /\ (IF code THEN Call("start", "last") ELSE Return)
  /\ Others /\ UNCHANGED <<installed, sel, faults>>

\* remove_package: the app goes, or its uninstall fails and it is started again.
RemoveStopped ==
  /\ CoreAt("rStopped")
  /\ \/ code /\ installed' = installed \ {op.app} /\ Continue("removed") /\ UNCHANGED faults
     \/ code /\ Fault /\ Call("start", "last") /\ UNCHANGED installed
     \/ ~code /\ Return /\ UNCHANGED <<installed, faults>>
  /\ Others /\ UNCHANGED sel

RemoveSelection ==
  /\ CoreAt("removed") /\ sel' = None /\ Return
  /\ Others /\ UNCHANGED <<installed, faults>>

\* The last start of an operation, checked or not, does not change anything more.
Last ==
  /\ op.pc \in {"same", "recStarted", "last"} /\ CoreAt(op.pc) /\ Return
  /\ Others /\ UNCHANGED <<installed, sel, faults>>

\* service-start and service-stop: of any app, whatever is selected.
ServiceByName(a) ==
  /\ CoreAt("idle") /\ a \in installed /\ ops < MaxOps /\ ops' = ops + 1 /\ crossed' = TRUE
  /\ \/ live' = live \cup {a} /\ UNCHANGED <<hung, tty>>
     \/ live' = live \ {a} /\ hung' = hung \ {a} /\ tty' = (IF tty = a THEN None ELSE tty)
  /\ UNCHANGED <<installed, sel, status, scripts, op, died, faults, reboots>>

Core ==
  \/ SwitchStopped \/ SwitchSelect \/ SwitchStarted \/ SwitchRecover \/ SwitchRestore
  \/ DisableStopped \/ UpdateStopped \/ RemoveStopped \/ RemoveSelection \/ Last

-----------------------------------------------------------------------------
(* Apps and the printer. *)

TakeTty(a) ==
  /\ a \in live \ hung /\ tty = None /\ tty' = a
  /\ UNCHANGED <<installed, sel, status, live, hung, scripts, op, faults, bounds>>

Die(a) ==
  /\ a \in live /\ Fault /\ live' = live \ {a} /\ hung' = hung \ {a}
  /\ tty' = (IF tty = a THEN None ELSE tty)
  /\ died' = TRUE
  /\ UNCHANGED <<installed, sel, status, scripts, op, crossed, ops, reboots>>

Reboot ==
  /\ reboots < MaxReboots /\ reboots' = reboots + 1
  /\ live' = {} /\ hung' = {} /\ tty' = None /\ status' = "none" /\ op' = Idle /\ code' = TRUE /\ crossed' = FALSE
  /\ script' = [c \in Callers |-> IF c = "boot" THEN "start" ELSE "idle"]
  /\ UNCHANGED <<installed, sel, died, faults, ops>>

Begins == \E w \in {"select", "disable", "update", "remove"}, a \in Apps : Begin(w, a)

Next ==
  \/ Begins \/ Core \/ Reboot
  \/ \E c \in Callers : Script(c)
  \/ \E a \in Apps : ServiceByName(a) \/ TakeTty(a) \/ Die(a)

Spec == Init /\ [][Next]_vars

-----------------------------------------------------------------------------
(* Properties. *)

Settled == op.pc = "idle" /\ \A c \in Callers : script[c] = "idle"

\* docs/fre3app.md: "Exactly one installed display frontend may be selected", and the display
\* manager starts that one.  No other frontend runs, whatever fails in a switch.  It excepts
\* what the code does not exclude: operations that cross the boot's start of the display.
OnlySelectedRuns == Settled /\ ~crossed => live \subseteq {sel}

\* docs/display.md: S64 draws no console over a potentially live UI.  What it reports as
\* not running, and then draws the console, does not run; the same exception.
ConsoleNotOverUi ==
  /\ TypeOK
  /\ Settled /\ ~crossed /\ status \in {"disabled", "unavailable", "startup-failed", "stopped"} =>
       live = {}

\* docs/display.md: a switch that fails leaves the previous display running, or none when
\* there was none.  Holds when nothing else fails on the way back; the same exception.
FailedSwitchRestores ==
  op.what = "select" /\ op.previous # op.app /\ Restorable /\ Settled /\ ~crossed /\ ~died
    /\ faults - op.faults <= 1 => IF sel = None THEN op.previous = None ELSE Shown

=============================================================================
