----------------------------- MODULE AppPackages -----------------------------
(***************************************************************************)
(* package-core: signed app packages, installed, updated and removed by    *)
(* the operator, recovered at boot (S58fre3nder-app-restore), reconciled   *)
(* with the image (S58fre3nder-system-apps) and started (S65).             *)
(*                                                                         *)
(* An app is a state directory with its cached package on HOME, a runtime  *)
(* directory on SYS or HOME, a recovery marker on SYS and, for a web       *)
(* frontend, perhaps the selection.  Each changes in a step of its own;    *)
(* between two steps the process may be killed or the power may go, and a  *)
(* step may fail.  A state-changing command holds the OTA and the package  *)
(* lock from beginning to end, so there is one operation at a time; a boot *)
(* script that finds the locks taken does nothing.                         *)
(*                                                                         *)
(* Simplifications: a package is its release serial, 1 or more; packages   *)
(* are validly signed, of the recorded publisher and capabilities, and     *)
(* there is space for them; a rename is durable when it returns, with the  *)
(* files it publishes.  Display frontends are left out.                    *)
(***************************************************************************)
EXTENDS Naturals

CONSTANTS
  Apps,         \* app names
  WebApps,      \* apps that are web frontends
  AutoStart,    \* apps that are started with the system
  MaxSerial,    \* bound: release serials
  MaxFaults,    \* bound: power losses, kills, I/O and service failures
  MaxReboots    \* bound: orderly reboots

ASSUME AppAssumption ==
  /\ "none" \notin Apps
  /\ WebApps \subseteq Apps /\ AutoStart \subseteq Apps
  /\ MaxSerial \in Nat /\ MaxFaults \in Nat /\ MaxReboots \in Nat

Roles == {"sys", "home"}
Serials == 1..MaxSerial

\* What a runtime directory can hold: nothing, a release, or part of one.
Absent == 0
Torn == MaxSerial + 1
Runtimes == 0..MaxSerial + 1

\* metadata.json of the state directory; serial 0: there is none.
State == [serial : 0..MaxSerial, storage : Roles, system : BOOLEAN]
NotInstalled == [serial |-> 0, storage |-> "sys", system |-> FALSE]

\* The operation in progress: its arguments, what it read at its beginning (old,
\* web) and what it did since (run: it stopped the service; aside: the runtime in
\* its transaction directory; selected, started).
Op == [kind : {"none", "install", "update", "remove", "restore"},
       app : Apps \cup {"none"}, new : State, start : BOOLEAN,
       old : State, web : WebApps \cup {"none"},
       run : BOOLEAN, aside : Runtimes, selected : BOOLEAN, started : BOOLEAN]

NoOp == [kind |-> "none", app |-> "none", new |-> NotInstalled, start |-> FALSE,
         old |-> NotInstalled, web |-> "none",
         run |-> FALSE, aside |-> Absent, selected |-> FALSE, started |-> FALSE]

Steps == {"idle",
          "stop", "aside", "place", "service", "start", "select", "detach", "commit", "mark",
          "undo", "discard", "putback",
          "uninstall", "hide", "delete", "unmark", "deselect"}

VARIABLES
  state,      \* state directory of each app (HOME)
  frontend,   \* selected web frontend (HOME)
  runtime,    \* runtime directory of each app in each storage role
  marker,     \* recovery marker of each app (SYS)
  image,      \* serial of the system-app seed of each app, 0: none
  phase,      \* how far the boot is: "off", the script whose turn it is, "up"
  script,     \* that script holds the locks
  todo,       \* apps it has yet to visit
  failed,     \* apps the scripts of this boot reported as degraded
  running,    \* apps whose service runs
  pc, op,     \* the operation in progress
  suspect,    \* history: apps whose last operation was cut short, or whose
              \* rollback failed
  faults, reboots

durable == <<state, frontend, runtime, marker>>
boot == <<image, phase, script>>
report == <<todo, failed, suspect>>
bounds == <<faults, reboots>>
vars == <<durable, boot, report, running, pc, op, bounds>>

TypeOK ==
  /\ state \in [Apps -> State]
  /\ frontend \in WebApps \cup {"none"}
  /\ runtime \in [Apps -> [Roles -> Runtimes]]
  /\ marker \in [Apps -> BOOLEAN]
  /\ image \in [Apps -> 0..MaxSerial]
  /\ phase \in {"off", "restore", "reconcile", "start", "up"}
  /\ script \in BOOLEAN
  /\ todo \subseteq Apps /\ failed \subseteq Apps /\ running \subseteq Apps
  /\ pc \in Steps
  /\ op \in Op /\ (pc = "idle" <=> op.kind = "none")
  /\ suspect \subseteq Apps
  /\ faults \in Nat /\ reboots \in Nat

Installed(a) == state[a].serial # 0

\* The runtime of an installed app.
RuntimeOf(a) == runtime[a][state[a].storage]

\* A printer on which no app was installed yet.
Init ==
  /\ state = [a \in Apps |-> NotInstalled]
  /\ frontend = "none"
  /\ runtime = [a \in Apps |-> [r \in Roles |-> Absent]]
  /\ marker = [a \in Apps |-> FALSE]
  /\ image \in [Apps -> 0..MaxSerial]
  /\ phase = "off" /\ script = FALSE
  /\ todo = {} /\ failed = {} /\ running = {}
  /\ pc = "idle" /\ op = NoOp
  /\ suspect = {}
  /\ faults = 0 /\ reboots = 0

-----------------------------------------------------------------------------
(* Beginning and end of an operation, and its steps.                       *)

Fault == faults < MaxFaults /\ faults' = faults + 1 /\ reboots' = reboots

\* Whoever gets the locks: the operator's command, or the script that holds them.
Begin(step, kind, a, new, start) ==
  /\ pc = "idle" /\ phase # "off"
  /\ pc' = step
  /\ op' = [NoOp EXCEPT !.kind = kind, !.app = a, !.new = new, !.start = start,
                        !.old = state[a], !.web = frontend]
  /\ UNCHANGED <<durable, boot, report, running, bounds>>

At(step) == pc = step /\ UNCHANGED boot

Goto(step) == pc' = step /\ UNCHANGED report

\* A step of a rollback failed, and the rollback goes on.
Spoil(step) ==
  /\ pc' = step
  /\ suspect' = suspect \cup {op.app}
  /\ UNCHANGED <<todo, failed>>

\* The command returns, or the script goes on to its next app.
Report(ok) ==
  /\ todo' = IF script THEN todo \ {op.app} ELSE todo
  /\ failed' = IF script /\ ~ok THEN failed \cup {op.app} ELSE failed

Succeed == pc' = "idle" /\ op' = NoOp /\ suspect' = suspect \ {op.app} /\ Report(TRUE)
Fail == pc' = "idle" /\ op' = NoOp /\ suspect' = suspect /\ Report(FALSE)
FailSpoilt == pc' = "idle" /\ op' = NoOp /\ suspect' = suspect \cup {op.app} /\ Report(FALSE)

\* The runtime directory the operation works on.
Role == IF op.kind = "remove" THEN op.old.storage ELSE op.new.storage
Current == runtime[op.app][Role]
SetCurrent(content) == runtime' = [runtime EXCEPT ![op.app][Role] = content]

-----------------------------------------------------------------------------
(* install and update                                                      *)

\* Only the image and an earlier role make an app a system app.
Becomes(a, serial, storage, required) ==
  [serial |-> serial, storage |-> storage,
   system |-> required \/ image[a] # 0 \/ state[a].system]

BeginInstall(a) ==
  /\ ~script /\ ~Installed(a)
  /\ \E serial \in Serials, storage \in Roles :
       Begin("place", "install", a, Becomes(a, serial, storage, FALSE), TRUE)

\* An older release needs --allow-downgrade, the same one is refused.
BeginUpdate(a) ==
  /\ ~script /\ Installed(a)
  /\ \E serial \in Serials \ {state[a].serial} :
       Begin("stop", "update", a, Becomes(a, serial, state[a].storage, FALSE), TRUE)

\* Before update and remove.  The service of a torn runtime may be missing: then
\* the command ends here.
Stop ==
  /\ At("stop")
  /\ \/ /\ Goto(IF op.kind = "remove" THEN "uninstall" ELSE "aside")
        /\ op' = [op EXCEPT !.run = Current # Absent /\ op.app \in running]
        /\ running' = IF Current # Absent THEN running \ {op.app} ELSE running
     \/ Current = Torn /\ Fail /\ UNCHANGED running
  /\ UNCHANGED <<durable, bounds>>

SetAside ==
  /\ At("aside")
  /\ Goto("place")
  /\ op' = [op EXCEPT !.aside = Current]
  /\ SetCurrent(Absent)
  /\ UNCHANGED <<state, frontend, marker, running, bounds>>

\* A rename does not replace a directory that an earlier operation left behind.
Place ==
  /\ At("place")
  /\ IF Current = Absent
     THEN Goto("service") /\ SetCurrent(op.new.serial)
     ELSE Goto("discard") /\ UNCHANGED runtime
  /\ UNCHANGED <<state, frontend, marker, running, op, bounds>>

\* The install, update or restore action of the app's own service.
ServiceAction ==
  /\ At("service")
  /\ Goto(IF op.kind = "restore" THEN "mark" ELSE "start")
  /\ UNCHANGED <<durable, running, op, bounds>>

Starts == op.start /\ (op.app \in AutoStart \/ op.run)

Start ==
  /\ At("start")
  /\ Goto("select")
  /\ op' = [op EXCEPT !.started = Starts]
  /\ running' = IF Starts THEN running \cup {op.app} ELSE running
  /\ UNCHANGED <<durable, bounds>>

\* The first web frontend to be installed is selected.
Selects == op.kind = "install" /\ op.app \in WebApps /\ op.web = "none"

Select ==
  /\ At("select")
  /\ Goto("detach")
  /\ op' = [op EXCEPT !.selected = Selects]
  /\ frontend' = IF Selects THEN op.app ELSE frontend
  /\ UNCHANGED <<state, runtime, marker, running, bounds>>

\* write_state publishes by two renames: the old state directory away, ...
Detach ==
  /\ At("detach")
  /\ Goto("commit")
  /\ state' = [state EXCEPT ![op.app] = NotInstalled]
  /\ UNCHANGED <<frontend, runtime, marker, running, op, bounds>>

\* ... and the new one in its place.
Commit ==
  /\ At("commit")
  /\ Goto("mark")
  /\ state' = [state EXCEPT ![op.app] = op.new]
  /\ UNCHANGED <<frontend, runtime, marker, running, op, bounds>>

Mark ==
  /\ At("mark")
  /\ Succeed
  /\ marker' = [marker EXCEPT ![op.app] = TRUE]
  /\ UNCHANGED <<state, frontend, runtime, running, bounds>>

\* The way back: the selection and the service, ...
Undo ==
  /\ At("undo")
  /\ Goto("discard")
  /\ frontend' = IF op.selected THEN "none" ELSE frontend
  /\ running' = IF op.started THEN running \ {op.app} ELSE running
  /\ UNCHANGED <<state, runtime, marker, op, bounds>>

\* ... the new runtime, file by file, ...
Discard ==
  /\ At("discard")
  /\ IF Current \in {Absent, Torn}
     THEN Goto("putback") /\ SetCurrent(Absent)
     ELSE Goto("discard") /\ SetCurrent(Torn)
  /\ UNCHANGED <<state, frontend, marker, running, op, bounds>>

\* Bug: the runtime that was set aside goes with its transaction directory.
PutBackForgotten ==
  /\ At("putback")
  /\ Fail
  /\ UNCHANGED <<durable, running, bounds>>

\* ... and the runtime that was set aside, which is lost if the place is taken.
PutBack ==
  /\ At("putback")
  /\ Fail
  /\ IF op.aside = Absent \/ Current # Absent
     THEN UNCHANGED <<runtime, running>>
     ELSE /\ SetCurrent(op.aside)
          /\ running' = IF op.run THEN running \cup {op.app} ELSE running
  /\ UNCHANGED <<state, frontend, marker, bounds>>

-----------------------------------------------------------------------------
(* remove                                                                  *)

BeginRemove(a) ==
  /\ ~script /\ Installed(a)
  /\ ~state[a].system /\ image[a] = 0
  /\ Begin("stop", "remove", a, NotInstalled, FALSE)

\* The service's own uninstall action, when there is a runtime.
Uninstall ==
  /\ At("uninstall")
  /\ Goto("hide")
  /\ UNCHANGED <<durable, running, op, bounds>>

\* The state directory goes to a transaction directory, which goes at the end.
Hide ==
  /\ At("hide")
  /\ Goto("delete")
  /\ state' = [state EXCEPT ![op.app] = NotInstalled]
  /\ UNCHANGED <<frontend, runtime, marker, running, op, bounds>>

Delete ==
  /\ At("delete")
  /\ IF Current \in {Absent, Torn}
     THEN Goto("unmark") /\ SetCurrent(Absent)
     ELSE Goto("delete") /\ SetCurrent(Torn)
  /\ UNCHANGED <<state, frontend, marker, running, op, bounds>>

Unmark ==
  /\ At("unmark")
  /\ Goto("deselect")
  /\ marker' = [marker EXCEPT ![op.app] = FALSE]
  /\ UNCHANGED <<state, frontend, runtime, running, op, bounds>>

Deselect ==
  /\ At("deselect")
  /\ Succeed
  /\ frontend' = IF op.web = op.app THEN "none" ELSE frontend
  /\ UNCHANGED <<state, runtime, marker, running, bounds>>

-----------------------------------------------------------------------------
(* service-start and service-stop                                          *)

OperateService(a) ==
  /\ pc = "idle" /\ ~script /\ phase # "off"
  /\ Installed(a) /\ RuntimeOf(a) # Absent
  /\ running' \in {running \cup {a}, running \ {a}}
  /\ UNCHANGED <<durable, boot, report, pc, op, bounds>>

-----------------------------------------------------------------------------
(* The boot scripts: S58 app-restore, S58 system-apps, S65, one after the other. *)

After(script_) == CASE script_ = "restore" -> "reconcile"
                    [] script_ = "reconcile" -> "start"
                    [] script_ = "start" -> "up"

Booting == phase \in {"restore", "reconcile", "start"}

\* The script takes the locks and visits every app, ...
BeginScript ==
  /\ Booting /\ ~script /\ pc = "idle"
  /\ script' = TRUE /\ todo' = Apps
  /\ UNCHANGED <<durable, image, phase, failed, suspect, running, pc, op, bounds>>

\* ... or finds an operation under way and is skipped, ...
SkipScript ==
  /\ Booting /\ ~script /\ pc # "idle"
  /\ phase' = After(phase) /\ failed' = Apps
  /\ UNCHANGED <<durable, image, script, todo, suspect, running, pc, op, bounds>>

\* ... and ends, whatever it reports.
EndScript ==
  /\ script /\ pc = "idle" /\ todo = {}
  /\ script' = FALSE /\ phase' = After(phase)
  /\ UNCHANGED <<durable, image, report, running, pc, op, bounds>>

Visit(a, name) == script /\ pc = "idle" /\ a \in todo /\ phase = name

Visited(a) == todo' = todo \ {a} /\ UNCHANGED <<failed, suspect>>

\* Bug: the script tries a failing app again.
DegradedAgain(a) == failed' = failed \cup {a} /\ UNCHANGED <<todo, suspect>>

Degraded(a) == todo' = todo \ {a} /\ failed' = failed \cup {a} /\ UNCHANGED suspect

\* Bug: the marker and a runtime directory are enough on HOME too.
NeedsNothingMarked(a) == ~Installed(a) \/ (marker[a] /\ RuntimeOf(a) # Absent)

\* On SYS the marker and a runtime directory are enough.
NeedsNothing(a) ==
  \/ ~Installed(a)
  \/ state[a].storage = "sys" /\ marker[a] /\ RuntimeOf(a) # Absent

\* On HOME the files are compared with the cached package.
Retained(a) == state[a].storage = "home" /\ RuntimeOf(a) = state[a].serial

RestoreNothing(a) ==
  /\ Visit(a, "restore") /\ NeedsNothing(a)
  /\ Visited(a)
  /\ UNCHANGED <<durable, boot, running, pc, op, bounds>>

\* Retained files still get their restore action after a SYS reset.
RestoreRetained(a) ==
  /\ Visit(a, "restore") /\ ~NeedsNothing(a) /\ Retained(a)
  /\ marker' = [marker EXCEPT ![a] = TRUE]
  /\ Visited(a)
  /\ UNCHANGED <<state, frontend, runtime, boot, running, pc, op, bounds>>

\* The service is not stopped: nothing runs it yet.
BeginRestore(a) ==
  /\ Visit(a, "restore") /\ ~NeedsNothing(a) /\ ~Retained(a)
  /\ Begin("aside", "restore", a, state[a], FALSE)

SeedInstall(a) ==
  /\ Visit(a, "reconcile") /\ image[a] # 0 /\ ~Installed(a)
  /\ Begin("place", "install", a, Becomes(a, image[a], "sys", TRUE), FALSE)

SeedUpdate(a) ==
  /\ Visit(a, "reconcile") /\ Installed(a) /\ image[a] > state[a].serial
  /\ Begin("stop", "update", a, Becomes(a, image[a], state[a].storage, TRUE), FALSE)

\* Bug: the role is given with a newer release only.
PromoteNothing(a) ==
  /\ Visit(a, "reconcile")
  /\ image[a] # 0 => Installed(a) /\ image[a] <= state[a].serial
  /\ Visited(a)
  /\ UNCHANGED <<durable, boot, running, pc, op, bounds>>

\* The installed release is no older than the seed's, or there is no seed.
Promote(a) ==
  /\ Visit(a, "reconcile")
  /\ image[a] # 0 => Installed(a) /\ image[a] <= state[a].serial
  /\ state' = [state EXCEPT ![a].system = @ \/ image[a] # 0]
  /\ Visited(a)
  /\ UNCHANGED <<frontend, runtime, marker, boot, running, pc, op, bounds>>

Startable(a) == Installed(a) /\ a \in AutoStart

\* A missing runtime, or a torn one without its service, is reported.
StartInstalled(a) ==
  /\ Visit(a, "start")
  /\ \/ /\ ~Startable(a) \/ RuntimeOf(a) # Absent
        /\ Visited(a)
        /\ running' = IF Startable(a) THEN running \cup {a} ELSE running
     \/ /\ Startable(a) /\ RuntimeOf(a) \in {Absent, Torn}
        /\ Degraded(a) /\ UNCHANGED running
  /\ UNCHANGED <<durable, boot, pc, op, bounds>>

-----------------------------------------------------------------------------
(* A step fails.                                                           *)

\* Before anything was moved, or once everything was: the command just ends.
FailOutright ==
  /\ \E step \in {"stop", "aside", "mark", "hide"} : At(step)
  /\ Fault /\ Fail
  /\ UNCHANGED <<durable, running>>

FailNew ==
  /\ \E step \in {"place", "service", "start"} : At(step)
  /\ Fault /\ Goto("discard")
  /\ UNCHANGED <<durable, running, op>>

FailWriting ==
  /\ \E step \in {"select", "detach"} : At(step)
  /\ Fault /\ Goto("undo")
  /\ UNCHANGED <<durable, running, op>>

\* Bug: the old state is not put back.
FailCommitLost ==
  /\ At("commit")
  /\ Fault
  /\ Goto("undo")
  /\ UNCHANGED <<durable, running, op>>

\* The second rename fails, and so may the one that puts the old state back.
FailCommit ==
  /\ At("commit")
  /\ Fault
  /\ \/ Goto("undo") /\ state' = [state EXCEPT ![op.app] = op.old]
     \/ Spoil("undo") /\ UNCHANGED state
  /\ UNCHANGED <<frontend, runtime, marker, running, op>>

\* The selection cannot be taken back, or the new service does not stop.
FailUndo ==
  /\ At("undo")
  /\ Fault /\ Spoil("discard")
  /\ frontend' \in {frontend, IF op.selected THEN "none" ELSE frontend}
  /\ UNCHANGED <<state, runtime, marker, running, op>>

\* rmtree ignores errors.
FailDiscard ==
  /\ At("discard") /\ Current # Absent
  /\ Fault /\ Spoil("putback")
  /\ \E left \in {Current, Torn} : SetCurrent(left)
  /\ UNCHANGED <<state, frontend, marker, running, op>>

\* The old runtime does not come back, or its service does not start.
FailPutBack ==
  /\ At("putback") /\ op.aside # Absent /\ Current = Absent
  /\ Fault
  /\ \/ FailSpoilt /\ UNCHANGED runtime
     \/ op.run /\ Fail /\ SetCurrent(op.aside)
  /\ UNCHANGED <<state, frontend, marker, running>>

\* The app's uninstall action fails: the service is started again, if it starts.
FailUninstall ==
  /\ At("uninstall") /\ Current # Absent
  /\ Fault /\ Fail
  /\ running' \in {running, IF op.run THEN running \cup {op.app} ELSE running}
  /\ UNCHANGED durable

\* What is left of the runtime stays with the state, that comes back, unless its rename
\* fails too.
FailDelete ==
  /\ At("delete") /\ Current # Absent
  /\ Fault
  /\ \E left \in {Current, Torn} :
       /\ SetCurrent(left)
       /\ \/ /\ state' = [state EXCEPT ![op.app] = op.old]
             /\ running' \in {running, IF op.run THEN running \cup {op.app} ELSE running}
             /\ IF left = Torn THEN FailSpoilt ELSE Fail
          \/ FailSpoilt /\ UNCHANGED <<state, running>>
  /\ UNCHANGED <<frontend, marker>>

\* The marker stays, unreported; a selection that stays is reported.
FailForget ==
  /\ Fault
  /\ \/ At("unmark") /\ Goto("deselect") /\ UNCHANGED op
     \/ At("deselect") /\ op.web = op.app /\ FailSpoilt
  /\ UNCHANGED <<durable, running>>

\* A step a script takes outside any operation.
FailVisit(a) ==
  /\ \/ Visit(a, "restore") /\ ~NeedsNothing(a)
     \/ Visit(a, "reconcile") /\ image[a] # 0
     \/ Visit(a, "start") /\ Startable(a)
  /\ Fault /\ Degraded(a)
  /\ UNCHANGED <<durable, boot, running, pc, op>>

StepFails ==
  \/ FailOutright \/ FailNew \/ FailWriting \/ FailCommit \/ FailUndo \/ FailDiscard
  \/ FailPutBack \/ FailUninstall \/ FailDelete \/ FailForget
  \/ \E a \in Apps : FailVisit(a)

-----------------------------------------------------------------------------
(* Kills, power, boot.                                                     *)

CutShort == suspect' = IF pc = "idle" THEN suspect ELSE suspect \cup {op.app}

\* The daemon kills a job that exceeds its time limit; services live on.
Kill ==
  /\ pc # "idle" /\ ~script
  /\ Fault /\ CutShort
  /\ pc' = "idle" /\ op' = NoOp
  /\ UNCHANGED <<durable, boot, todo, failed, running>>

Stopped ==
  /\ phase' = "off" /\ script' = FALSE /\ todo' = {} /\ failed' = {} /\ running' = {}
  /\ pc' = "idle" /\ op' = NoOp
  /\ CutShort
  /\ UNCHANGED <<durable, image>>

PowerLoss == phase # "off" /\ Fault /\ Stopped

\* S65 stop asks the services to end and changes nothing durable.
Reboot ==
  /\ phase = "up" /\ pc = "idle"
  /\ reboots < MaxReboots /\ reboots' = reboots + 1 /\ faults' = faults
  /\ Stopped

\* A SYS reset loses the runtimes on SYS and the markers; an update or an image
\* rollback brings another image and resets SYS.
Boot ==
  /\ phase = "off"
  /\ phase' = "restore"
  /\ \/ UNCHANGED <<runtime, marker, image>>
     \/ /\ runtime' = [a \in Apps |-> [runtime[a] EXCEPT !["sys"] = Absent]]
        /\ marker' = [a \in Apps |-> FALSE]
        /\ image' \in [Apps -> 0..MaxSerial]
  /\ UNCHANGED <<state, frontend, script, report, running, pc, op, bounds>>

-----------------------------------------------------------------------------
Operator ==
  \E a \in Apps : BeginInstall(a) \/ BeginUpdate(a) \/ BeginRemove(a) \/ OperateService(a)

Progress ==
  \/ Stop \/ SetAside \/ Place \/ ServiceAction \/ Start \/ Select \/ Detach \/ Commit \/ Mark
  \/ Undo \/ Discard \/ PutBack
  \/ Uninstall \/ Hide \/ Delete \/ Unmark \/ Deselect

Scripts ==
  \/ BeginScript \/ SkipScript \/ EndScript
  \/ \E a \in Apps :
       \/ RestoreNothing(a) \/ RestoreRetained(a) \/ BeginRestore(a)
       \/ SeedInstall(a) \/ SeedUpdate(a) \/ Promote(a)
       \/ StartInstalled(a)

Next == Operator \/ Progress \/ Scripts \/ StepFails \/ Kill \/ PowerLoss \/ Reboot \/ Boot

Spec == Init /\ [][Next]_vars

\* A service of an app is called, in the foreground and without a time limit: by the
\* operation, ...
Calls ==
  \/ pc \in {"stop", "uninstall"} /\ Current # Absent
  \/ pc = "service"
  \/ pc = "start" /\ Starts
  \/ pc = "undo" /\ op.started
  \/ pc = "putback" /\ op.run

\* ... by the operation of a boot script, or by S65.
BootCalls ==
  /\ script
  /\ Calls \/ (phase = "start" /\ \E a \in todo : Startable(a) /\ RuntimeOf(a) # Absent)

\* A started operation is scheduled to its end, and rcS runs its scripts in turn; nothing
\* is supposed of the services of the apps.
FairSpec == Spec /\ WF_vars(Progress /\ ~Calls) /\ WF_vars(Scripts /\ ~BootCalls)

-----------------------------------------------------------------------------
(* Properties.                                                             *)

\* At rest, every installed app has the runtime of the release that is cached,
\* and a selected frontend is installed: whatever step of whatever operation
\* failed, and whichever boot script ran into an operation.  It excepts the apps
\* whose operation was cut short or whose rollback failed as well, and those a
\* boot script reported.
AppsWhole ==
  /\ TypeOK
  /\ phase = "up" /\ pc = "idle" =>
       \A a \in Apps \ (suspect \cup failed) :
         IF Installed(a) THEN RuntimeOf(a) = state[a].serial ELSE frontend # a

\* When boot recovery ends, every installed app it did not report has a runtime
\* and its marker; the runtime is the cached release on HOME always, on SYS unless
\* an earlier operation on the app was cut short.
RecoveryRestores ==
  [][phase = "restore" /\ script /\ phase' = "reconcile" =>
       \A a \in Apps \ failed : Installed(a) =>
         /\ marker[a] /\ RuntimeOf(a) # Absent
         /\ state[a].storage = "home" \/ a \notin suspect => RuntimeOf(a) = state[a].serial]_vars

\* An operation that fails and whose rollback does not fail as well leaves the app
\* as it found it: state, selection, runtime and service; only a runtime that
\* belonged to no installed app is gone, and a service that a rollback which failed
\* earlier left behind may have ended.
FailureUndone ==
  [][pc = "putback" /\ pc' = "idle" /\ faults' = faults /\ op.app \notin suspect' =>
       /\ state'[op.app] = op.old /\ frontend' = op.web
       /\ runtime'[op.app][Role] = op.aside
       /\ op.kind # "restore" => IF op.run THEN op.app \in running'
                                 ELSE op.started => op.app \notin running']_vars

\* When reconciliation ends, each app of the image that it did not report is an
\* installed system app, no older than the image's.
ReconcileDone ==
  [][phase = "reconcile" /\ script /\ phase' = "start" =>
       \A a \in Apps \ failed : image[a] # 0 =>
         state[a].system /\ Installed(a) /\ state[a].serial >= image[a]]_vars

\* "Optional apps must not block the platform boot": whatever fails in the scripts, and
\* whatever operation hangs beside them, the boot gets past them, provided that each service
\* they call comes back.  Nothing in the code makes it come back: the boot waits for it.
BootCompletes == []<>~BootCalls => (Booting ~> ~Booting)

\* docs/apps.md: the system role survives an "image no longer listing the app" and
\* "cannot be relinquished by a manual package update".  Does not hold: between its
\* two renames write_state has no state at all.
SystemRoleKept ==
  [][pc # "idle" /\ pc' = "idle" /\ op.old.system /\ image[op.app] = 0 =>
       state'[op.app].system]_vars
=============================================================================
