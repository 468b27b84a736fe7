-------------------------- MODULE AppPackagesProofs --------------------------
(* Proofs about AppPackages, for any apps, releases, faults and reboots. *)
EXTENDS AppPackages, TLAPS

USE DEF durable, boot, report, bounds, vars

-----------------------------------------------------------------------------
(* The inductive invariant. *)

\* Boot recovery has not looked at the app in this boot.
Behind(a) == phase = "off" \/ (phase = "restore" /\ (~script \/ a \in todo))

\* What an app has been left with: the runtime of its cached release, or none where boot
\* recovery has yet to come or has reported the app; a selected frontend is installed; a
\* service runs from a runtime.
Rested(a) ==
  /\ IF Installed(a)
     THEN \/ RuntimeOf(a) = state[a].serial
          \/ RuntimeOf(a) = Absent /\ (a \in failed \/ Behind(a))
     ELSE frontend # a
  /\ a \in running => ~Installed(a) \/ RuntimeOf(a) # Absent

\* Every app that no operation is at and none has spoilt.
Rest == \A a \in Apps : a = op.app \/ a \in suspect \/ Rested(a)

\* Where the boot is.
BootInv ==
  /\ phase = "off" => running = {} /\ pc = "idle" /\ ~script
  /\ script => Booting
  /\ script /\ pc # "idle" =>
       /\ op.app \in todo
       /\ \/ phase = "restore" /\ op.kind = "restore"
          \/ /\ phase = "reconcile" /\ op.kind \in {"install", "update"}
             /\ op.new.system /\ op.new.serial >= image[op.app]

\* What a script has done to the apps it visited and did not report.
Recovered(a) ==
  Installed(a) =>
    /\ marker[a] /\ RuntimeOf(a) # Absent
    /\ state[a].storage = "home" \/ a \notin suspect => RuntimeOf(a) = state[a].serial

Reconciled(a) ==
  image[a] # 0 => state[a].system /\ Installed(a) /\ state[a].serial >= image[a]

Visits ==
  \A a \in Apps : script /\ a \notin todo /\ a \notin failed =>
    /\ phase = "restore" => Recovered(a)
    /\ phase = "reconcile" => Reconciled(a)

Before == {"stop", "aside", "uninstall", "hide"}
Placed == {"service", "start", "select", "detach", "commit", "mark"}
Undoing == {"undo", "discard", "putback"}

\* The steps of each kind of operation, and what its arguments are.
Kinds ==
  \/ /\ op.kind = "install" /\ pc \in {"place"} \cup Placed \cup Undoing
     /\ op.old.serial = 0 /\ op.new.serial # 0 /\ op.aside = Absent /\ ~op.run
  \/ /\ op.kind = "update" /\ pc \in {"stop", "aside", "place"} \cup Placed \cup Undoing
     /\ op.old.serial # 0 /\ op.new.serial # 0 /\ op.old.storage = op.new.storage
  \/ /\ op.kind = "restore" /\ pc \in {"aside", "place", "service", "mark", "discard", "putback"}
     /\ op.old.serial # 0 /\ op.new = op.old /\ ~op.run
  \/ /\ op.kind = "remove" /\ pc \in {"stop", "uninstall", "hide", "delete", "unmark", "deselect"}
     /\ op.old.serial # 0

\* The state directory of its app, step by step.
StateStep ==
  /\ pc \in Before \cup {"place", "service", "start", "select", "detach"} => state[op.app] = op.old
  /\ pc \in {"commit", "delete", "unmark", "deselect"} => state[op.app] = NotInstalled
  /\ pc = "mark" => state[op.app] = op.new
  /\ pc \in Undoing => op.app \in suspect \/ state[op.app] = op.old

\* The runtime it works on.
RuntimeStep ==
  /\ pc = "place" /\ op.kind # "install" => Current = Absent
  /\ pc \in Placed => Current = op.new.serial
  /\ pc = "putback" => op.app \in suspect \/ Current = Absent
  /\ pc \in {"unmark", "deselect"} => Current = Absent

\* The runtime the app had when it began.
Former == IF pc \in Before \cup {"delete"} THEN Current ELSE op.aside

OldStep ==
  IF op.old.serial # 0
  THEN \/ Former = op.old.serial
       \/ Former = Absent /\ (op.app \in failed \/ Behind(op.app))
       \/ pc = "delete" /\ Current = Torn
       \/ pc \in {"unmark", "deselect"}
  ELSE op.web # op.app

\* The selection.
FrontendStep ==
  /\ pc \notin {"detach", "commit", "mark", "undo", "discard", "putback"} => frontend = op.web /\ ~op.selected
  /\ pc \in {"detach", "commit", "undo"} =>
       IF op.selected THEN op.kind = "install" /\ op.web = "none" ELSE frontend = op.web
  /\ pc \in {"discard", "putback"} => op.app \in suspect \/ frontend = op.web

\* The service.
ServiceStep ==
  /\ pc = "stop" \/ op.kind = "restore" => (op.app \in running => Former # Absent)
  /\ op.run => Former # Absent \/ pc \in {"delete", "unmark", "deselect"}
  /\ op.kind \in {"update", "remove"} =>
       /\ pc \in {"select", "detach", "commit", "undo"} => (op.app \in running <=> op.started)
       /\ pc \notin {"stop", "select", "detach", "commit", "mark", "undo"} => op.app \notin running
  /\ pc \in {"discard", "putback"} => (op.started => op.app \notin running)
  /\ pc \in {"stop", "aside", "place", "service", "start"} => ~op.started

OpInv ==
  IF pc = "idle" THEN op = NoOp
  ELSE
    /\ op.app \in Apps /\ Kinds /\ StateStep /\ RuntimeStep /\ FrontendStep
    /\ op.app \in suspect \/ (OldStep /\ ServiceStep)

Inv == TypeOK /\ BootInv /\ Visits /\ OpInv /\ Rest

-----------------------------------------------------------------------------
(* The initial state satisfies it. *)

LEMMA InvInit == Init => Inv
<1> SUFFICES ASSUME Init PROVE Inv
  OBVIOUS
<1>1. TypeOK
  <2>1. NotInstalled \in State /\ NoOp \in Op /\ Absent \in Runtimes
    BY AppAssumption DEF NotInstalled, State, NoOp, Op, Roles, Runtimes, Absent
  <2>2. /\ state \in [Apps -> State] /\ runtime \in [Apps -> [Roles -> Runtimes]]
        /\ op \in Op /\ op.kind = "none"
    BY <2>1 DEF Init, NoOp
  <2> QED
    BY <2>2 DEF Init, TypeOK, Steps
<1>2. BootInv /\ Visits /\ OpInv
  BY DEF Init, BootInv, Visits, OpInv
<1>3. Rest
  BY AppAssumption DEF Init, Rest, Rested, Installed, NotInstalled
<1> QED
  BY <1>1, <1>2, <1>3 DEF Inv

-----------------------------------------------------------------------------
(* Facts about an operation and its steps. *)

\* The operation in progress.
LEMMA Operation ==
  ASSUME Inv, pc # "idle"
  PROVE  /\ op \in Op /\ op.app \in Apps /\ op.app # "none" /\ op.kind # "none"
         /\ op.new \in State /\ op.old \in State /\ Role \in Roles /\ Current \in Runtimes
         /\ phase # "off" /\ op.aside \in Runtimes
BY AppAssumption DEF Inv, TypeOK, OpInv, BootInv, Op, State, Role, Current

\* What setting the runtime of the operation does.
LEMMA SetsCurrent ==
  ASSUME Inv, pc # "idle", NEW x \in Runtimes, SetCurrent(x)
  PROVE  /\ runtime' \in [Apps -> [Roles -> Runtimes]]
         /\ runtime'[op.app][Role] = x
         /\ \A a \in Apps : a # op.app => runtime'[a] = runtime[a]
<1>1. /\ op.app \in Apps /\ Role \in Roles /\ runtime \in [Apps -> [Roles -> Runtimes]]
      /\ runtime' = [runtime EXCEPT ![op.app] = [runtime[op.app] EXCEPT ![Role] = x]]
  BY Operation DEF Inv, TypeOK, SetCurrent
<1> QED
  BY <1>1

\* What a step of an operation leaves alone.
Working ==
  /\ UNCHANGED <<phase, script, image>>
  /\ \A a \in Apps \ {op.app} :
       /\ state'[a] = state[a] /\ runtime'[a] = runtime[a] /\ marker'[a] = marker[a]
       /\ a \in running' <=> a \in running
       /\ a \in suspect' <=> a \in suspect
       /\ a \in failed' <=> a \in failed
       /\ a \in todo' <=> a \in todo
  /\ frontend' \in {frontend, op.app, "none"}

LEMMA OthersRest ==
  ASSUME Inv, pc # "idle", Working, NEW a \in Apps, a # op.app
  PROVE  /\ a \in suspect' \/ Rested(a)'
         /\ script' /\ a \notin todo' /\ a \notin failed' =>
              /\ phase' = "restore" => Recovered(a)'
              /\ phase' = "reconcile" => Reconciled(a)'
<1>1. /\ state'[a] = state[a] /\ runtime'[a] = runtime[a] /\ marker'[a] = marker[a]
      /\ image' = image /\ phase' = phase /\ script' = script
      /\ a \in running' <=> a \in running
      /\ a \in suspect' <=> a \in suspect
      /\ a \in failed' <=> a \in failed
      /\ a \in todo' <=> a \in todo
      /\ frontend' = a => frontend = a
  BY AppAssumption DEF Working
<1>2. a \in suspect \/ Rested(a)
  BY DEF Inv, Rest
<1>3. Installed(a)' = Installed(a) /\ RuntimeOf(a)' = RuntimeOf(a) /\ Behind(a)' = Behind(a)
  BY <1>1 DEF Installed, RuntimeOf, Behind
<1>4. a \in suspect' \/ Rested(a)'
  BY <1>1, <1>2, <1>3 DEF Rested
<1>5. Recovered(a) => Recovered(a)'
  BY <1>1, <1>3 DEF Recovered
<1>6. Reconciled(a) => Reconciled(a)'
  BY <1>1, <1>3 DEF Reconciled
<1> QED
  BY <1>1, <1>4, <1>5, <1>6 DEF Inv, Visits

\* An operation that goes on.
LEMMA GoesOn ==
  ASSUME Inv, pc # "idle", Working, UNCHANGED <<todo, failed>>, pc' # "idle",
         op'.app = op.app, op'.kind = op.kind, op'.new = op.new, OpInv'
  PROVE  (BootInv /\ Visits /\ OpInv /\ Rest)'
<1>1. BootInv'
  BY Operation DEF Inv, BootInv, Booting, Working
<1>2. Rest'
  BY OthersRest DEF Rest
<1>3. script => op.app \in todo
  BY DEF Inv, BootInv
<1>4. Visits'
  BY <1>3, OthersRest DEF Visits, Working
<1> QED
  BY <1>1, <1>2, <1>4

\* An operation that ends.
LEMMA Ends ==
  ASSUME Inv, pc # "idle", Working, pc' = "idle", op' = NoOp, NEW a \in Apps, a = op.app,
         a \in suspect' \/ Rested(a)',
         script /\ a \notin failed' /\ a \notin todo' =>
           /\ phase = "restore" => Recovered(a)'
           /\ phase = "reconcile" => Reconciled(a)'
  PROVE  (BootInv /\ Visits /\ OpInv /\ Rest)'
<1>1. BootInv'
  BY Operation DEF Inv, BootInv, Booting, Working
<1>2. Rest'
  BY OthersRest DEF Rest
<1>3. Visits'
  BY OthersRest DEF Visits, Working
<1> QED
  BY <1>1, <1>2, <1>3 DEF OpInv

-----------------------------------------------------------------------------
(* Steps of an operation keep the types, and leave other apps alone. *)

\* The steps of an operation that fail.
OpFails ==
  \/ FailOutright \/ FailNew \/ FailWriting \/ FailCommit \/ FailUndo \/ FailDiscard
  \/ FailPutBack \/ FailUninstall \/ FailDelete \/ FailForget

LEMMA Midway ==
  ASSUME Inv, Progress \/ OpFails
  PROVE  pc # "idle" /\ UNCHANGED <<phase, script, image>>
<1>1. CASE Progress
  BY <1>1 DEF Progress, Stop, SetAside, Place, ServiceAction, Start, Select, Detach, Commit, Mark, Undo, Discard,
     PutBack, Uninstall, Hide, Delete, Unmark, Deselect, At
<1>2. CASE OpFails
  BY <1>2 DEF OpFails, FailOutright, FailNew, FailWriting, FailCommit, FailUndo, FailDiscard, FailPutBack,
     FailUninstall, FailDelete, FailForget, At
<1> QED
  BY <1>1, <1>2

\* What is reported.
Reports ==
  /\ todo' \subseteq Apps /\ failed' \subseteq Apps /\ suspect' \subseteq Apps
  /\ \A a \in Apps \ {op.app} :
       /\ a \in suspect' <=> a \in suspect
       /\ a \in failed' <=> a \in failed
       /\ a \in todo' <=> a \in todo

LEMMA Reporting ==
  ASSUME Inv, pc # "idle",
         \/ UNCHANGED <<todo, failed>> /\ suspect' \in {suspect, suspect \cup {op.app}}
         \/ Succeed \/ Fail \/ FailSpoilt
  PROVE  Reports
<1>1. op.app \in Apps /\ todo \subseteq Apps /\ failed \subseteq Apps /\ suspect \subseteq Apps
  BY Operation DEF Inv, TypeOK
<1>2. /\ todo' \in {todo, todo \ {op.app}} /\ failed' \in {failed, failed \cup {op.app}}
      /\ suspect' \in {suspect, suspect \cup {op.app}, suspect \ {op.app}}
  BY DEF Succeed, Fail, FailSpoilt, Report
<1> QED
  BY <1>1, <1>2 DEF Reports

LEMMA StepReports ==
  ASSUME Inv, Progress \/ OpFails
  PROVE  Reports
<1>1. pc # "idle"
  BY Midway
<1>2. CASE Progress
  <2>1. UNCHANGED <<todo, failed, suspect>> \/ Succeed \/ Fail
    BY <1>2 DEF Progress, Stop, SetAside, Place, ServiceAction, Start, Select, Detach, Commit, Mark, Undo, Discard,
       PutBack, Uninstall, Hide, Delete, Unmark, Deselect, Goto
  <2> QED
    BY <1>1, <2>1, Reporting
<1>3. CASE OpFails
  <2>1. \/ UNCHANGED <<todo, failed>> /\ suspect' \in {suspect, suspect \cup {op.app}}
        \/ Fail \/ FailSpoilt
    BY <1>3 DEF OpFails, FailOutright, FailNew, FailWriting, FailCommit, FailUndo, FailDiscard, FailPutBack,
       FailUninstall, FailDelete, FailForget, Goto, Spoil
  <2> QED
    BY <1>1, <2>1, Reporting
<1> QED
  BY <1>2, <1>3

\* What it makes of the operation: pc and op.
LEMMA StepControl ==
  ASSUME Inv, Progress \/ OpFails
  PROVE  pc' \in Steps /\ op' \in Op /\ (pc' = "idle" <=> op'.kind = "none")
<1> USE Operation, Midway
<1>0. NoOp \in Op /\ NoOp.kind = "none"
  BY AppAssumption DEF NoOp, Op, State, NotInstalled, Runtimes, Absent, Roles
<1>1. ASSUME op' = op, pc' \in Steps \ {"idle"}
      PROVE  pc' \in Steps /\ op' \in Op /\ (pc' = "idle" <=> op'.kind = "none")
  BY <1>1
<1>2. ASSUME Succeed \/ Fail \/ FailSpoilt
      PROVE  pc' \in Steps /\ op' \in Op /\ (pc' = "idle" <=> op'.kind = "none")
  BY <1>0, <1>2 DEF Succeed, Fail, FailSpoilt, Steps
<1>3. CASE Stop \/ SetAside \/ Start \/ Select
  <2>1. ASSUME NEW b \in BOOLEAN, NEW x \in Runtimes,
               \/ op' = [op EXCEPT !.run = b] \/ op' = [op EXCEPT !.aside = x]
               \/ op' = [op EXCEPT !.selected = b] \/ op' = [op EXCEPT !.started = b],
               pc' \in Steps \ {"idle"}
        PROVE  pc' \in Steps /\ op' \in Op /\ (pc' = "idle" <=> op'.kind = "none")
    BY <2>1 DEF Op
  <2>2. CASE Stop
    BY <2>1, <2>2, <1>2 DEF Stop, Goto, Steps
  <2>3. CASE SetAside
    BY <2>1, <2>3 DEF SetAside, Goto, Steps
  <2>4. CASE Start
    <3>1. Starts \in BOOLEAN
      BY DEF Starts, Op
    <3> QED
      BY <2>1, <2>4, <3>1 DEF Start, Goto, Steps
  <2>5. CASE Select
    BY <2>1, <2>5 DEF Select, Selects, Goto, Steps
  <2> QED
    BY <1>3, <2>2, <2>3, <2>4, <2>5
<1>4. CASE Place \/ ServiceAction \/ Detach \/ Commit \/ Undo \/ Discard \/ Uninstall \/ Hide \/ Delete \/ Unmark
  BY <1>1, <1>4 DEF Place, ServiceAction, Detach, Commit, Undo, Discard, Uninstall, Hide, Delete, Unmark, Goto, Steps
<1>5. CASE Mark \/ PutBack \/ Deselect
  BY <1>2, <1>5 DEF Mark, PutBack, Deselect
<1>6. CASE OpFails
  <2>1. (op' = op /\ pc' \in Steps \ {"idle"}) \/ Fail \/ FailSpoilt
    BY <1>6 DEF OpFails, FailOutright, FailNew, FailWriting, FailCommit, FailUndo, FailDiscard, FailPutBack,
       FailUninstall, FailDelete, FailForget, Goto, Spoil, Steps
  <2> QED
    BY <1>1, <1>2, <2>1
<1> QED
  BY <1>3, <1>4, <1>5, <1>6 DEF Progress

\* What it makes of what is durable, and of the services.
LEMMA StepDurable ==
  ASSUME Inv, Progress \/ OpFails
  PROVE  /\ state' \in [Apps -> State] /\ \A a \in Apps \ {op.app} : state'[a] = state[a]
         /\ marker' \in [Apps -> BOOLEAN] /\ \A a \in Apps \ {op.app} : marker'[a] = marker[a]
         /\ frontend' \in WebApps \cup {"none"} /\ frontend' \in {frontend, op.app, "none"}
         /\ running' \subseteq Apps /\ \A a \in Apps \ {op.app} : a \in running' <=> a \in running
<1> USE Operation, Midway
<1>1. state' \in [Apps -> State] /\ \A a \in Apps \ {op.app} : state'[a] = state[a]
  <2>1. NotInstalled \in State
    BY AppAssumption DEF NotInstalled, State, Roles
  <2>2. \/ state' = state
        \/ \E s \in {NotInstalled, op.new, op.old} : state' = [state EXCEPT ![op.app] = s]
    BY DEF Progress, Stop, SetAside, Place, ServiceAction, Start, Select, Detach, Commit, Mark, Undo, Discard,
       PutBack, Uninstall, Hide, Delete, Unmark, Deselect, OpFails, FailOutright, FailNew, FailWriting, FailCommit,
       FailUndo, FailDiscard, FailPutBack, FailUninstall, FailDelete, FailForget
  <2> QED
    BY <2>1, <2>2 DEF Inv, TypeOK
<1>2. marker' \in [Apps -> BOOLEAN] /\ \A a \in Apps \ {op.app} : marker'[a] = marker[a]
  <2>1. marker' = marker \/ \E b \in BOOLEAN : marker' = [marker EXCEPT ![op.app] = b]
    BY DEF Progress, Stop, SetAside, Place, ServiceAction, Start, Select, Detach, Commit, Mark, Undo, Discard,
       PutBack, Uninstall, Hide, Delete, Unmark, Deselect, OpFails, FailOutright, FailNew, FailWriting, FailCommit,
       FailUndo, FailDiscard, FailPutBack, FailUninstall, FailDelete, FailForget
  <2> QED
    BY <2>1 DEF Inv, TypeOK
<1>3. frontend' \in WebApps \cup {"none"} /\ frontend' \in {frontend, op.app, "none"}
  <2>1. frontend' \in {frontend, "none"} \/ (frontend' = op.app /\ op.app \in WebApps)
    BY DEF Progress, Stop, SetAside, Place, ServiceAction, Start, Select, Selects, Detach, Commit, Mark, Undo, Discard,
       PutBack, Uninstall, Hide, Delete, Unmark, Deselect, OpFails, FailOutright, FailNew, FailWriting, FailCommit,
       FailUndo, FailDiscard, FailPutBack, FailUninstall, FailDelete, FailForget
  <2> QED
    BY <2>1 DEF Inv, TypeOK
<1>4. running' \subseteq Apps /\ \A a \in Apps \ {op.app} : a \in running' <=> a \in running
  <2>1. running' \in {running, running \cup {op.app}, running \ {op.app}}
    BY DEF Progress, Stop, SetAside, Place, ServiceAction, Start, Select, Detach, Commit, Mark, Undo, Discard,
       PutBack, Uninstall, Hide, Delete, Unmark, Deselect, OpFails, FailOutright, FailNew, FailWriting, FailCommit,
       FailUndo, FailDiscard, FailPutBack, FailUninstall, FailDelete, FailForget
  <2> QED
    BY <2>1 DEF Inv, TypeOK
<1> QED
  BY <1>1, <1>2, <1>3, <1>4

LEMMA StepRuntime ==
  ASSUME Inv, Progress \/ OpFails
  PROVE  runtime' \in [Apps -> [Roles -> Runtimes]] /\ \A a \in Apps \ {op.app} : runtime'[a] = runtime[a]
<1>1. pc # "idle"
  BY Midway
<1>2. Absent \in Runtimes /\ Torn \in Runtimes /\ Current \in Runtimes /\ op.new.serial \in Runtimes /\ op.aside \in Runtimes
  BY <1>1, Operation, AppAssumption DEF Absent, Torn, Runtimes, State
<1>3. runtime' = runtime \/ \E x \in Runtimes : SetCurrent(x)
  BY <1>2 DEF Progress, Stop, SetAside, Place, ServiceAction, Start, Select, Detach, Commit, Mark, Undo, Discard,
     PutBack, Uninstall, Hide, Delete, Unmark, Deselect, OpFails, FailOutright, FailNew, FailWriting, FailCommit,
     FailUndo, FailDiscard, FailPutBack, FailUninstall, FailDelete, FailForget
<1> QED
  BY <1>1, <1>3, SetsCurrent DEF Inv, TypeOK

LEMMA StepFrame ==
  ASSUME Inv, Progress \/ OpFails
  PROVE  TypeOK' /\ Working
<1>1. faults' \in Nat /\ reboots' \in Nat
  BY DEF Progress, Stop, SetAside, Place, ServiceAction, Start, Select, Detach, Commit, Mark, Undo, Discard,
     PutBack, Uninstall, Hide, Delete, Unmark, Deselect, OpFails, FailOutright, FailNew, FailWriting, FailCommit,
     FailUndo, FailDiscard, FailPutBack, FailUninstall, FailDelete, FailForget, Fault, Inv, TypeOK
<1>2. TypeOK'
  BY <1>1, Midway, StepReports, StepControl, StepDurable, StepRuntime DEF Inv, TypeOK, Reports
<1>3. Working
  BY Midway, StepReports, StepDurable, StepRuntime DEF Working, Reports
<1> QED
  BY <1>2, <1>3

-----------------------------------------------------------------------------
(* Steps after which an operation goes on. *)

\* What an operation was begun with.
OpKept ==
  /\ op'.app = op.app /\ op'.kind = op.kind /\ op'.new = op.new /\ op'.old = op.old
  /\ op'.web = op.web /\ op'.start = op.start

LEMMA Keeps ==
  ASSUME Inv, Progress \/ OpFails, UNCHANGED <<todo, failed>>, OpKept
  PROVE  /\ Role' = Role /\ Current' = runtime'[op.app][Role]
         /\ Behind(op.app)' = Behind(op.app)
         /\ op.app \in Apps
BY Midway, Operation DEF OpKept, Role, Current, Behind

LEMMA GoingOn ==
  ASSUME Inv, Progress \/ OpFails, UNCHANGED <<todo, failed>>, OpKept, pc' # "idle",
         Kinds', StateStep', RuntimeStep', FrontendStep', op.app \in suspect' \/ (OldStep /\ ServiceStep)'
  PROVE  Inv'
<1>1. OpInv'
  BY Midway, Operation DEF OpInv, OpKept
<1> QED
  BY <1>1, GoesOn, StepFrame, Midway DEF Inv, OpKept

LEMMA PlaceNext == ASSUME Inv, Place PROVE Inv'
<1>1. /\ pc = "place" /\ op' = op /\ UNCHANGED <<todo, failed, suspect, state, frontend, marker, running>>
      /\ \/ Current = Absent /\ pc' = "service" /\ SetCurrent(op.new.serial)
         \/ Current # Absent /\ pc' = "discard" /\ UNCHANGED runtime
  BY DEF Place, At, Goto
<1>2. Progress /\ OpKept
  BY <1>1 DEF Progress, OpKept
<1>3. /\ Role' = Role /\ Current' = runtime'[op.app][Role]
      /\ Behind(op.app)' = Behind(op.app) /\ op.app \in Apps
  BY <1>1, <1>2, Keeps
<1>4. Kinds /\ StateStep /\ RuntimeStep /\ FrontendStep /\ (op.app \in suspect \/ (OldStep /\ ServiceStep))
  BY <1>1 DEF Inv, OpInv
<1>5. op.new.serial \in Runtimes
  BY <1>1, Operation, AppAssumption DEF State, Runtimes
<1>6. pc' = "service" => Current' = op.new.serial
  BY <1>1, <1>3, <1>5, SetsCurrent
<1>7. pc' = "discard" => Current' = Current
  BY <1>1, <1>3 DEF Current
<1>8. Kinds'
  BY <1>1, <1>4 DEF Kinds, Placed, Undoing
<1>9. StateStep'
  BY <1>1, <1>4 DEF StateStep, Undoing, Before
<1>10. RuntimeStep'
  BY <1>1, <1>6 DEF RuntimeStep, Placed
<1>11. op.app \in suspect' \/ OldStep'
  BY <1>1, <1>3, <1>4 DEF OldStep, Former, Before
<1>12. FrontendStep'
  BY <1>1, <1>4 DEF FrontendStep
<1>13. op.app \in suspect' \/ ServiceStep'
  BY <1>1, <1>4 DEF ServiceStep, Former, Before, Kinds
<1> QED
  BY <1>1, <1>2, <1>8, <1>9, <1>10, <1>11, <1>12, <1>13, GoingOn


LEMMA SetAsideNext == ASSUME Inv, SetAside PROVE Inv'
<1>1. /\ pc = "aside" /\ pc' = "place" /\ op' = [op EXCEPT !.aside = Current] /\ SetCurrent(Absent)
      /\ UNCHANGED <<todo, failed, suspect, state, frontend, marker, running>>
  BY DEF SetAside, At, Goto
<1>2. Progress /\ OpKept /\ op'.aside = Current /\ op'.run = op.run /\ op'.selected = op.selected /\ op'.started = op.started
  BY <1>1, Operation DEF Progress, OpKept, Op
<1>3. /\ Role' = Role /\ Current' = runtime'[op.app][Role]
      /\ Behind(op.app)' = Behind(op.app) /\ op.app \in Apps
  BY <1>1, <1>2, Keeps
<1>4. Kinds /\ StateStep /\ RuntimeStep /\ FrontendStep /\ (op.app \in suspect \/ (OldStep /\ ServiceStep))
  BY <1>1 DEF Inv, OpInv
<1>5. Absent \in Runtimes
  BY <1>1, Operation, AppAssumption DEF State, Runtimes, Absent, Torn
<1>6. Current' = Absent
  BY <1>1, <1>3, <1>5, SetsCurrent
<1>8. Kinds'
  BY <1>1, <1>2, <1>3, <1>4, <1>6 DEF Kinds, Placed, Undoing, OpKept
<1>9. StateStep'
  BY <1>1, <1>2, <1>3, <1>4, <1>6, Operation DEF StateStep, Undoing, Before, Placed, Kinds, OpKept, Inv, TypeOK
<1>10. RuntimeStep'
  BY <1>1, <1>2, <1>3, <1>4, <1>6 DEF RuntimeStep, Placed, Kinds, OpKept
<1>11. op.app \in suspect' \/ OldStep'
  BY <1>1, <1>2, <1>3, <1>4, <1>6 DEF OldStep, Former, Before, Kinds, OpKept
<1>12. FrontendStep'
  BY <1>1, <1>2, <1>3, <1>4, <1>6 DEF FrontendStep, OpKept, Kinds
<1>13. op.app \in suspect' \/ ServiceStep'
  BY <1>1, <1>2, <1>3, <1>4, <1>6 DEF ServiceStep, Former, Before, Kinds, OpKept
<1> QED
  BY <1>1, <1>2, <1>8, <1>9, <1>10, <1>11, <1>12, <1>13, GoingOn

LEMMA ServiceActionNext == ASSUME Inv, ServiceAction PROVE Inv'
<1>1. /\ pc = "service" /\ pc' = (IF op.kind = "restore" THEN "mark" ELSE "start") /\ op' = op
      /\ UNCHANGED <<todo, failed, suspect, durable, running>>
  BY DEF ServiceAction, At, Goto
<1>2. Progress /\ OpKept
  BY <1>1 DEF Progress, OpKept
<1>3. /\ Role' = Role /\ Current' = runtime'[op.app][Role]
      /\ Behind(op.app)' = Behind(op.app) /\ op.app \in Apps
  BY <1>1, <1>2, Keeps
<1>4. Kinds /\ StateStep /\ RuntimeStep /\ FrontendStep /\ (op.app \in suspect \/ (OldStep /\ ServiceStep))
  BY <1>1 DEF Inv, OpInv
<1>6. Current' = Current
  BY <1>1, <1>3 DEF Current
<1>8. Kinds'
  BY <1>1, <1>2, <1>3, <1>4, <1>6 DEF Kinds, Placed, Undoing, OpKept
<1>9. StateStep'
  BY <1>1, <1>2, <1>3, <1>4, <1>6, Operation DEF StateStep, Undoing, Before, Placed, Kinds, OpKept, Inv, TypeOK
<1>10. RuntimeStep'
  BY <1>1, <1>2, <1>3, <1>4, <1>6 DEF RuntimeStep, Placed, Kinds, OpKept
<1>11. op.app \in suspect' \/ OldStep'
  BY <1>1, <1>2, <1>3, <1>4, <1>6 DEF OldStep, Former, Before, Kinds, OpKept
<1>12. FrontendStep'
  BY <1>1, <1>2, <1>3, <1>4, <1>6 DEF FrontendStep, OpKept, Kinds
<1>13. op.app \in suspect' \/ ServiceStep'
  BY <1>1, <1>2, <1>3, <1>4, <1>6 DEF ServiceStep, Former, Before, Kinds, OpKept
<1> QED
  BY <1>1, <1>2, <1>8, <1>9, <1>10, <1>11, <1>12, <1>13, GoingOn

LEMMA StartNext == ASSUME Inv, Start PROVE Inv'
<1>1. /\ pc = "start" /\ pc' = "select" /\ op' = [op EXCEPT !.started = Starts]
      /\ running' = IF Starts THEN running \cup {op.app} ELSE running
      /\ UNCHANGED <<todo, failed, suspect, durable>>
  BY DEF Start, At, Goto
<1>2. Progress /\ OpKept /\ op'.started = Starts /\ op'.run = op.run /\ op'.selected = op.selected /\ op'.aside = op.aside
  BY <1>1, Operation DEF Progress, OpKept, Op
<1>3. /\ Role' = Role /\ Current' = runtime'[op.app][Role]
      /\ Behind(op.app)' = Behind(op.app) /\ op.app \in Apps
  BY <1>1, <1>2, Keeps
<1>4. Kinds /\ StateStep /\ RuntimeStep /\ FrontendStep /\ (op.app \in suspect \/ (OldStep /\ ServiceStep))
  BY <1>1 DEF Inv, OpInv
<1>6. Current' = Current
  BY <1>1, <1>3 DEF Current
<1>8. Kinds'
  BY <1>1, <1>2, <1>3, <1>4, <1>6 DEF Kinds, Placed, Undoing, OpKept
<1>9. StateStep'
  BY <1>1, <1>2, <1>3, <1>4, <1>6, Operation DEF StateStep, Undoing, Before, Placed, Kinds, OpKept, Inv, TypeOK
<1>10. RuntimeStep'
  BY <1>1, <1>2, <1>3, <1>4, <1>6 DEF RuntimeStep, Placed, Kinds, OpKept
<1>11. op.app \in suspect' \/ OldStep'
  BY <1>1, <1>2, <1>3, <1>4, <1>6 DEF OldStep, Former, Before, Kinds, OpKept
<1>12. FrontendStep'
  BY <1>1, <1>2, <1>3, <1>4, <1>6 DEF FrontendStep, OpKept, Kinds
<1>13. op.app \in suspect' \/ ServiceStep'
  BY <1>1, <1>2, <1>3, <1>4, <1>6 DEF ServiceStep, Former, Before, Kinds, OpKept
<1> QED
  BY <1>1, <1>2, <1>8, <1>9, <1>10, <1>11, <1>12, <1>13, GoingOn

LEMMA SelectNext == ASSUME Inv, Select PROVE Inv'
<1>1. /\ pc = "select" /\ pc' = "detach" /\ op' = [op EXCEPT !.selected = Selects]
      /\ frontend' = IF Selects THEN op.app ELSE frontend
      /\ Selects => op.kind = "install" /\ op.web = "none"
      /\ UNCHANGED <<todo, failed, suspect, state, runtime, marker, running>>
  BY DEF Select, Selects, At, Goto
<1>2. Progress /\ OpKept /\ op'.selected = Selects /\ op'.run = op.run /\ op'.started = op.started /\ op'.aside = op.aside
  BY <1>1, Operation DEF Progress, OpKept, Op
<1>3. /\ Role' = Role /\ Current' = runtime'[op.app][Role]
      /\ Behind(op.app)' = Behind(op.app) /\ op.app \in Apps
  BY <1>1, <1>2, Keeps
<1>4. Kinds /\ StateStep /\ RuntimeStep /\ FrontendStep /\ (op.app \in suspect \/ (OldStep /\ ServiceStep))
  BY <1>1 DEF Inv, OpInv
<1>6. Current' = Current
  BY <1>1, <1>3 DEF Current
<1>8. Kinds'
  BY <1>1, <1>2, <1>3, <1>4, <1>6 DEF Kinds, Placed, Undoing, OpKept
<1>9. StateStep'
  BY <1>1, <1>2, <1>3, <1>4, <1>6, Operation DEF StateStep, Undoing, Before, Placed, Kinds, OpKept, Inv, TypeOK
<1>10. RuntimeStep'
  BY <1>1, <1>2, <1>3, <1>4, <1>6 DEF RuntimeStep, Placed, Kinds, OpKept
<1>11. op.app \in suspect' \/ OldStep'
  BY <1>1, <1>2, <1>3, <1>4, <1>6 DEF OldStep, Former, Before, Kinds, OpKept
<1>12. FrontendStep'
  BY <1>1, <1>2, <1>3, <1>4, <1>6 DEF FrontendStep, OpKept, Kinds
<1>13. op.app \in suspect' \/ ServiceStep'
  BY <1>1, <1>2, <1>3, <1>4, <1>6 DEF ServiceStep, Former, Before, Kinds, OpKept
<1> QED
  BY <1>1, <1>2, <1>8, <1>9, <1>10, <1>11, <1>12, <1>13, GoingOn

LEMMA DetachNext == ASSUME Inv, Detach \/ Hide PROVE Inv'
<1>1. /\ op' = op /\ state' = [state EXCEPT ![op.app] = NotInstalled]
      /\ \/ pc = "detach" /\ pc' = "commit"
         \/ pc = "hide" /\ pc' = "delete"
      /\ UNCHANGED <<todo, failed, suspect, frontend, runtime, marker, running>>
  BY DEF Detach, Hide, At, Goto
<1>2. Progress /\ OpKept
  BY <1>1 DEF Progress, OpKept
<1>3. /\ Role' = Role /\ Current' = runtime'[op.app][Role]
      /\ Behind(op.app)' = Behind(op.app) /\ op.app \in Apps
  BY <1>1, <1>2, Keeps
<1>4. Kinds /\ StateStep /\ RuntimeStep /\ FrontendStep /\ (op.app \in suspect \/ (OldStep /\ ServiceStep))
  BY <1>1 DEF Inv, OpInv
<1>6. Current' = Current
  BY <1>1, <1>3 DEF Current
<1>8. Kinds'
  BY <1>1, <1>2, <1>3, <1>4, <1>6 DEF Kinds, Placed, Undoing, OpKept
<1>9. StateStep'
  BY <1>1, <1>2, <1>3, <1>4, <1>6, Operation DEF StateStep, Undoing, Before, Placed, Kinds, OpKept, Inv, TypeOK
<1>10. RuntimeStep'
  BY <1>1, <1>2, <1>3, <1>4, <1>6 DEF RuntimeStep, Placed, Kinds, OpKept
<1>11. op.app \in suspect' \/ OldStep'
  BY <1>1, <1>2, <1>3, <1>4, <1>6 DEF OldStep, Former, Before, Kinds, OpKept
<1>12. FrontendStep'
  BY <1>1, <1>2, <1>3, <1>4, <1>6 DEF FrontendStep, OpKept, Kinds
<1>13. op.app \in suspect' \/ ServiceStep'
  BY <1>1, <1>2, <1>3, <1>4, <1>6 DEF ServiceStep, Former, Before, Kinds, OpKept
<1> QED
  BY <1>1, <1>2, <1>8, <1>9, <1>10, <1>11, <1>12, <1>13, GoingOn

LEMMA CommitNext == ASSUME Inv, Commit PROVE Inv'
<1>1. /\ pc = "commit" /\ pc' = "mark" /\ op' = op /\ state' = [state EXCEPT ![op.app] = op.new]
      /\ UNCHANGED <<todo, failed, suspect, frontend, runtime, marker, running>>
  BY DEF Commit, At, Goto
<1>2. Progress /\ OpKept
  BY <1>1 DEF Progress, OpKept
<1>3. /\ Role' = Role /\ Current' = runtime'[op.app][Role]
      /\ Behind(op.app)' = Behind(op.app) /\ op.app \in Apps
  BY <1>1, <1>2, Keeps
<1>4. Kinds /\ StateStep /\ RuntimeStep /\ FrontendStep /\ (op.app \in suspect \/ (OldStep /\ ServiceStep))
  BY <1>1 DEF Inv, OpInv
<1>6. Current' = Current
  BY <1>1, <1>3 DEF Current
<1>8. Kinds'
  BY <1>1, <1>2, <1>3, <1>4, <1>6 DEF Kinds, Placed, Undoing, OpKept
<1>9. StateStep'
  BY <1>1, <1>2, <1>3, <1>4, <1>6, Operation DEF StateStep, Undoing, Before, Placed, Kinds, OpKept, Inv, TypeOK
<1>10. RuntimeStep'
  BY <1>1, <1>2, <1>3, <1>4, <1>6 DEF RuntimeStep, Placed, Kinds, OpKept
<1>11. op.app \in suspect' \/ OldStep'
  BY <1>1, <1>2, <1>3, <1>4, <1>6 DEF OldStep, Former, Before, Kinds, OpKept
<1>12. FrontendStep'
  BY <1>1, <1>2, <1>3, <1>4, <1>6 DEF FrontendStep, OpKept, Kinds
<1>13. op.app \in suspect' \/ ServiceStep'
  BY <1>1, <1>2, <1>3, <1>4, <1>6 DEF ServiceStep, Former, Before, Kinds, OpKept
<1> QED
  BY <1>1, <1>2, <1>8, <1>9, <1>10, <1>11, <1>12, <1>13, GoingOn

LEMMA UndoNext == ASSUME Inv, Undo PROVE Inv'
<1>1. /\ pc = "undo" /\ pc' = "discard" /\ op' = op
      /\ frontend' = IF op.selected THEN "none" ELSE frontend
      /\ running' = IF op.started THEN running \ {op.app} ELSE running
      /\ UNCHANGED <<todo, failed, suspect, state, runtime, marker>>
  BY DEF Undo, At, Goto
<1>2. Progress /\ OpKept
  BY <1>1 DEF Progress, OpKept
<1>3. /\ Role' = Role /\ Current' = runtime'[op.app][Role]
      /\ Behind(op.app)' = Behind(op.app) /\ op.app \in Apps
  BY <1>1, <1>2, Keeps
<1>4. Kinds /\ StateStep /\ RuntimeStep /\ FrontendStep /\ (op.app \in suspect \/ (OldStep /\ ServiceStep))
  BY <1>1 DEF Inv, OpInv
<1>6. Current' = Current
  BY <1>1, <1>3 DEF Current
<1>8. Kinds'
  BY <1>1, <1>2, <1>3, <1>4, <1>6 DEF Kinds, Placed, Undoing, OpKept
<1>9. StateStep'
  BY <1>1, <1>2, <1>3, <1>4, <1>6, Operation DEF StateStep, Undoing, Before, Placed, Kinds, OpKept, Inv, TypeOK
<1>10. RuntimeStep'
  BY <1>1, <1>2, <1>3, <1>4, <1>6 DEF RuntimeStep, Placed, Kinds, OpKept
<1>11. op.app \in suspect' \/ OldStep'
  BY <1>1, <1>2, <1>3, <1>4, <1>6 DEF OldStep, Former, Before, Kinds, OpKept
<1>12. FrontendStep'
  BY <1>1, <1>2, <1>3, <1>4, <1>6 DEF FrontendStep, OpKept, Kinds
<1>13. op.app \in suspect' \/ ServiceStep'
  BY <1>1, <1>2, <1>3, <1>4, <1>6 DEF ServiceStep, Former, Before, Kinds, OpKept
<1> QED
  BY <1>1, <1>2, <1>8, <1>9, <1>10, <1>11, <1>12, <1>13, GoingOn

LEMMA DiscardNext == ASSUME Inv, Discard PROVE Inv'
<1>1. /\ pc = "discard" /\ op' = op
      /\ \/ pc' = "putback" /\ SetCurrent(Absent)
         \/ pc' = "discard" /\ SetCurrent(Torn)
      /\ UNCHANGED <<todo, failed, suspect, state, frontend, marker, running>>
  BY DEF Discard, At, Goto
<1>2. Progress /\ OpKept
  BY <1>1 DEF Progress, OpKept
<1>3. /\ Role' = Role /\ Current' = runtime'[op.app][Role]
      /\ Behind(op.app)' = Behind(op.app) /\ op.app \in Apps
  BY <1>1, <1>2, Keeps
<1>4. Kinds /\ StateStep /\ RuntimeStep /\ FrontendStep /\ (op.app \in suspect \/ (OldStep /\ ServiceStep))
  BY <1>1 DEF Inv, OpInv
<1>5. Absent \in Runtimes /\ Torn \in Runtimes
  BY <1>1, Operation, AppAssumption DEF State, Runtimes, Absent, Torn
<1>6. pc' = "putback" => Current' = Absent
  BY <1>1, <1>3, <1>5, SetsCurrent
<1>8. Kinds'
  BY <1>1, <1>2, <1>3, <1>4, <1>6 DEF Kinds, Placed, Undoing, OpKept
<1>9. StateStep'
  BY <1>1, <1>2, <1>3, <1>4, <1>6, Operation DEF StateStep, Undoing, Before, Placed, Kinds, OpKept, Inv, TypeOK
<1>10. RuntimeStep'
  BY <1>1, <1>2, <1>3, <1>4, <1>6 DEF RuntimeStep, Placed, Kinds, OpKept
<1>11. op.app \in suspect' \/ OldStep'
  BY <1>1, <1>2, <1>3, <1>4, <1>6 DEF OldStep, Former, Before, Kinds, OpKept
<1>12. FrontendStep'
  BY <1>1, <1>2, <1>3, <1>4, <1>6 DEF FrontendStep, OpKept, Kinds
<1>13. op.app \in suspect' \/ ServiceStep'
  BY <1>1, <1>2, <1>3, <1>4, <1>6 DEF ServiceStep, Former, Before, Kinds, OpKept
<1> QED
  BY <1>1, <1>2, <1>8, <1>9, <1>10, <1>11, <1>12, <1>13, GoingOn

LEMMA UninstallNext == ASSUME Inv, Uninstall PROVE Inv'
<1>1. /\ pc = "uninstall" /\ pc' = "hide" /\ op' = op /\ UNCHANGED <<todo, failed, suspect, durable, running>>
  BY DEF Uninstall, At, Goto
<1>2. Progress /\ OpKept
  BY <1>1 DEF Progress, OpKept
<1>3. /\ Role' = Role /\ Current' = runtime'[op.app][Role]
      /\ Behind(op.app)' = Behind(op.app) /\ op.app \in Apps
  BY <1>1, <1>2, Keeps
<1>4. Kinds /\ StateStep /\ RuntimeStep /\ FrontendStep /\ (op.app \in suspect \/ (OldStep /\ ServiceStep))
  BY <1>1 DEF Inv, OpInv
<1>6. Current' = Current
  BY <1>1, <1>3 DEF Current
<1>8. Kinds'
  BY <1>1, <1>2, <1>3, <1>4, <1>6 DEF Kinds, Placed, Undoing, OpKept
<1>9. StateStep'
  BY <1>1, <1>2, <1>3, <1>4, <1>6, Operation DEF StateStep, Undoing, Before, Placed, Kinds, OpKept, Inv, TypeOK
<1>10. RuntimeStep'
  BY <1>1, <1>2, <1>3, <1>4, <1>6 DEF RuntimeStep, Placed, Kinds, OpKept
<1>11. op.app \in suspect' \/ OldStep'
  BY <1>1, <1>2, <1>3, <1>4, <1>6 DEF OldStep, Former, Before, Kinds, OpKept
<1>12. FrontendStep'
  BY <1>1, <1>2, <1>3, <1>4, <1>6 DEF FrontendStep, OpKept, Kinds
<1>13. op.app \in suspect' \/ ServiceStep'
  BY <1>1, <1>2, <1>3, <1>4, <1>6 DEF ServiceStep, Former, Before, Kinds, OpKept
<1> QED
  BY <1>1, <1>2, <1>8, <1>9, <1>10, <1>11, <1>12, <1>13, GoingOn

LEMMA DeleteNext == ASSUME Inv, Delete PROVE Inv'
<1>1. /\ pc = "delete" /\ op' = op
      /\ \/ pc' = "unmark" /\ SetCurrent(Absent)
         \/ pc' = "delete" /\ SetCurrent(Torn)
      /\ UNCHANGED <<todo, failed, suspect, state, frontend, marker, running>>
  BY DEF Delete, At, Goto
<1>2. Progress /\ OpKept
  BY <1>1 DEF Progress, OpKept
<1>3. /\ Role' = Role /\ Current' = runtime'[op.app][Role]
      /\ Behind(op.app)' = Behind(op.app) /\ op.app \in Apps
  BY <1>1, <1>2, Keeps
<1>4. Kinds /\ StateStep /\ RuntimeStep /\ FrontendStep /\ (op.app \in suspect \/ (OldStep /\ ServiceStep))
  BY <1>1 DEF Inv, OpInv
<1>5. Absent \in Runtimes /\ Torn \in Runtimes
  BY <1>1, Operation, AppAssumption DEF State, Runtimes, Absent, Torn
<1>6. Current' = IF pc' = "unmark" THEN Absent ELSE Torn
  BY <1>1, <1>3, <1>5, SetsCurrent
<1>8. Kinds'
  BY <1>1, <1>2, <1>3, <1>4, <1>6 DEF Kinds, Placed, Undoing, OpKept
<1>9. StateStep'
  BY <1>1, <1>2, <1>3, <1>4, <1>6, Operation DEF StateStep, Undoing, Before, Placed, Kinds, OpKept, Inv, TypeOK
<1>10. RuntimeStep'
  BY <1>1, <1>2, <1>3, <1>4, <1>6 DEF RuntimeStep, Placed, Kinds, OpKept
<1>11. op.app \in suspect' \/ OldStep'
  BY <1>1, <1>2, <1>3, <1>4, <1>6 DEF OldStep, Former, Before, Kinds, OpKept
<1>12. FrontendStep'
  BY <1>1, <1>2, <1>3, <1>4, <1>6 DEF FrontendStep, OpKept, Kinds
<1>13. op.app \in suspect' \/ ServiceStep'
  BY <1>1, <1>2, <1>3, <1>4, <1>6 DEF ServiceStep, Former, Before, Kinds, OpKept
<1> QED
  BY <1>1, <1>2, <1>8, <1>9, <1>10, <1>11, <1>12, <1>13, GoingOn

LEMMA UnmarkNext == ASSUME Inv, Unmark PROVE Inv'
<1>1. /\ pc = "unmark" /\ pc' = "deselect" /\ op' = op
      /\ marker' = [marker EXCEPT ![op.app] = FALSE]
      /\ UNCHANGED <<todo, failed, suspect, state, frontend, runtime, running>>
  BY DEF Unmark, At, Goto
<1>2. Progress /\ OpKept
  BY <1>1 DEF Progress, OpKept
<1>3. /\ Role' = Role /\ Current' = runtime'[op.app][Role]
      /\ Behind(op.app)' = Behind(op.app) /\ op.app \in Apps
  BY <1>1, <1>2, Keeps
<1>4. Kinds /\ StateStep /\ RuntimeStep /\ FrontendStep /\ (op.app \in suspect \/ (OldStep /\ ServiceStep))
  BY <1>1 DEF Inv, OpInv
<1>6. Current' = Current
  BY <1>1, <1>3 DEF Current
<1>8. Kinds'
  BY <1>1, <1>2, <1>3, <1>4, <1>6 DEF Kinds, Placed, Undoing, OpKept
<1>9. StateStep'
  BY <1>1, <1>2, <1>3, <1>4, <1>6, Operation DEF StateStep, Undoing, Before, Placed, Kinds, OpKept, Inv, TypeOK
<1>10. RuntimeStep'
  BY <1>1, <1>2, <1>3, <1>4, <1>6 DEF RuntimeStep, Placed, Kinds, OpKept
<1>11. op.app \in suspect' \/ OldStep'
  BY <1>1, <1>2, <1>3, <1>4, <1>6 DEF OldStep, Former, Before, Kinds, OpKept
<1>12. FrontendStep'
  BY <1>1, <1>2, <1>3, <1>4, <1>6 DEF FrontendStep, OpKept, Kinds
<1>13. op.app \in suspect' \/ ServiceStep'
  BY <1>1, <1>2, <1>3, <1>4, <1>6 DEF ServiceStep, Former, Before, Kinds, OpKept
<1> QED
  BY <1>1, <1>2, <1>8, <1>9, <1>10, <1>11, <1>12, <1>13, GoingOn

LEMMA FailNewNext == ASSUME Inv, FailNew \/ FailWriting PROVE Inv'
<1>1. /\ op' = op /\ UNCHANGED <<todo, failed, suspect, durable, running>>
      /\ \/ pc \in {"place", "service", "start"} /\ pc' = "discard"
         \/ pc \in {"select", "detach"} /\ pc' = "undo"
  BY DEF FailNew, FailWriting, At, Goto
<1>2. OpFails /\ OpKept
  BY <1>1 DEF OpFails, OpKept
<1>3. /\ Role' = Role /\ Current' = runtime'[op.app][Role]
      /\ Behind(op.app)' = Behind(op.app) /\ op.app \in Apps
  BY <1>1, <1>2, Keeps
<1>4. Kinds /\ StateStep /\ RuntimeStep /\ FrontendStep /\ (op.app \in suspect \/ (OldStep /\ ServiceStep))
  BY <1>1 DEF Inv, OpInv
<1>6. Current' = Current
  BY <1>1, <1>3 DEF Current
<1>8. Kinds'
  BY <1>1, <1>2, <1>3, <1>4, <1>6 DEF Kinds, Placed, Undoing, OpKept
<1>9. StateStep'
  BY <1>1, <1>2, <1>3, <1>4, <1>6, Operation DEF StateStep, Undoing, Before, Placed, Kinds, OpKept, Inv, TypeOK
<1>10. RuntimeStep'
  BY <1>1, <1>2, <1>3, <1>4, <1>6 DEF RuntimeStep, Placed, Kinds, OpKept
<1>11. op.app \in suspect' \/ OldStep'
  BY <1>1, <1>2, <1>3, <1>4, <1>6 DEF OldStep, Former, Before, Kinds, OpKept
<1>12. FrontendStep'
  BY <1>1, <1>2, <1>3, <1>4, <1>6 DEF FrontendStep, OpKept, Kinds
<1>13. op.app \in suspect' \/ ServiceStep'
  BY <1>1, <1>2, <1>3, <1>4, <1>6 DEF ServiceStep, Former, Before, Kinds, OpKept
<1> QED
  BY <1>1, <1>2, <1>8, <1>9, <1>10, <1>11, <1>12, <1>13, GoingOn

LEMMA FailCommitNext == ASSUME Inv, FailCommit PROVE Inv'
<1>1. /\ pc = "commit" /\ pc' = "undo" /\ op' = op /\ UNCHANGED <<todo, failed, frontend, runtime, marker, running>>
      /\ \/ suspect' = suspect /\ state' = [state EXCEPT ![op.app] = op.old]
         \/ suspect' = suspect \cup {op.app} /\ UNCHANGED state
  BY DEF FailCommit, At, Goto, Spoil
<1>2. OpFails /\ OpKept
  BY <1>1 DEF OpFails, OpKept
<1>3. /\ Role' = Role /\ Current' = runtime'[op.app][Role]
      /\ Behind(op.app)' = Behind(op.app) /\ op.app \in Apps
  BY <1>1, <1>2, Keeps
<1>4. Kinds /\ StateStep /\ RuntimeStep /\ FrontendStep /\ (op.app \in suspect \/ (OldStep /\ ServiceStep))
  BY <1>1 DEF Inv, OpInv
<1>6. Current' = Current
  BY <1>1, <1>3 DEF Current
<1>8. Kinds'
  BY <1>1, <1>2, <1>3, <1>4, <1>6 DEF Kinds, Placed, Undoing, OpKept
<1>9. StateStep'
  BY <1>1, <1>2, <1>3, <1>4, <1>6, Operation DEF StateStep, Undoing, Before, Placed, Kinds, OpKept, Inv, TypeOK
<1>10. RuntimeStep'
  BY <1>1, <1>2, <1>3, <1>4, <1>6 DEF RuntimeStep, Placed, Kinds, OpKept
<1>11. op.app \in suspect' \/ OldStep'
  BY <1>1, <1>2, <1>3, <1>4, <1>6 DEF OldStep, Former, Before, Kinds, OpKept
<1>12. FrontendStep'
  BY <1>1, <1>2, <1>3, <1>4, <1>6 DEF FrontendStep, OpKept, Kinds
<1>13. op.app \in suspect' \/ ServiceStep'
  BY <1>1, <1>2, <1>3, <1>4, <1>6 DEF ServiceStep, Former, Before, Kinds, OpKept
<1> QED
  BY <1>1, <1>2, <1>8, <1>9, <1>10, <1>11, <1>12, <1>13, GoingOn

LEMMA FailUndoNext == ASSUME Inv, FailUndo PROVE Inv'
<1>1. /\ pc = "undo" /\ pc' = "discard" /\ op' = op /\ suspect' = suspect \cup {op.app}
      /\ UNCHANGED <<todo, failed, state, runtime, marker, running>>
  BY DEF FailUndo, At, Goto, Spoil
<1>2. OpFails /\ OpKept
  BY <1>1 DEF OpFails, OpKept
<1>3. /\ Role' = Role /\ Current' = runtime'[op.app][Role]
      /\ Behind(op.app)' = Behind(op.app) /\ op.app \in Apps
  BY <1>1, <1>2, Keeps
<1>4. Kinds /\ StateStep /\ RuntimeStep /\ FrontendStep /\ (op.app \in suspect \/ (OldStep /\ ServiceStep))
  BY <1>1 DEF Inv, OpInv
<1>6. Current' = Current
  BY <1>1, <1>3 DEF Current
<1>8. Kinds'
  BY <1>1, <1>2, <1>3, <1>4, <1>6 DEF Kinds, Placed, Undoing, OpKept
<1>9. StateStep'
  BY <1>1, <1>2, <1>3, <1>4, <1>6, Operation DEF StateStep, Undoing, Before, Placed, Kinds, OpKept, Inv, TypeOK
<1>10. RuntimeStep'
  BY <1>1, <1>2, <1>3, <1>4, <1>6 DEF RuntimeStep, Placed, Kinds, OpKept
<1>11. op.app \in suspect' \/ OldStep'
  BY <1>1, <1>2, <1>3, <1>4, <1>6 DEF OldStep, Former, Before, Kinds, OpKept
<1>12. FrontendStep'
  BY <1>1, <1>2, <1>3, <1>4, <1>6 DEF FrontendStep, OpKept, Kinds
<1>13. op.app \in suspect' \/ ServiceStep'
  BY <1>1, <1>2, <1>3, <1>4, <1>6 DEF ServiceStep, Former, Before, Kinds, OpKept
<1> QED
  BY <1>1, <1>2, <1>8, <1>9, <1>10, <1>11, <1>12, <1>13, GoingOn

LEMMA FailDiscardNext == ASSUME Inv, FailDiscard PROVE Inv'
<1>1. /\ pc = "discard" /\ pc' = "putback" /\ op' = op /\ suspect' = suspect \cup {op.app}
      /\ UNCHANGED <<todo, failed, state, frontend, marker, running>>
  BY DEF FailDiscard, At, Goto, Spoil
<1>2. OpFails /\ OpKept
  BY <1>1 DEF OpFails, OpKept
<1>3. /\ Role' = Role /\ Current' = runtime'[op.app][Role]
      /\ Behind(op.app)' = Behind(op.app) /\ op.app \in Apps
  BY <1>1, <1>2, Keeps
<1>4. Kinds /\ StateStep /\ RuntimeStep /\ FrontendStep /\ (op.app \in suspect \/ (OldStep /\ ServiceStep))
  BY <1>1 DEF Inv, OpInv
<1>8. Kinds'
  BY <1>1, <1>2, <1>3, <1>4 DEF Kinds, Placed, Undoing, OpKept
<1>9. StateStep'
  BY <1>1, <1>2, <1>3, <1>4, Operation DEF StateStep, Undoing, Before, Placed, Kinds, OpKept, Inv, TypeOK
<1>10. RuntimeStep'
  BY <1>1, <1>2, <1>3, <1>4 DEF RuntimeStep, Placed, Kinds, OpKept
<1>11. op.app \in suspect' \/ OldStep'
  BY <1>1, <1>2, <1>3, <1>4 DEF OldStep, Former, Before, Kinds, OpKept
<1>12. FrontendStep'
  BY <1>1, <1>2, <1>3, <1>4 DEF FrontendStep, OpKept, Kinds
<1>13. op.app \in suspect' \/ ServiceStep'
  BY <1>1, <1>2, <1>3, <1>4 DEF ServiceStep, Former, Before, Kinds, OpKept
<1> QED
  BY <1>1, <1>2, <1>8, <1>9, <1>10, <1>11, <1>12, <1>13, GoingOn

LEMMA StopNext ==
  ASSUME Inv, pc = "stop", UNCHANGED boot, UNCHANGED durable, UNCHANGED <<todo, failed, suspect>>, Stop,
         pc' = IF op.kind = "remove" THEN "uninstall" ELSE "aside",
         op' = [op EXCEPT !.run = Current # Absent /\ op.app \in running],
         running' = IF Current # Absent THEN running \ {op.app} ELSE running
  PROVE  Inv'
<1>2. /\ Progress /\ OpKept /\ op'.aside = op.aside /\ op'.selected = op.selected /\ op'.started = op.started
      /\ op'.run = (Current # Absent /\ op.app \in running)
  BY Operation DEF Progress, OpKept, Op
<1>3. /\ Role' = Role /\ Current' = Current
      /\ Behind(op.app)' = Behind(op.app) /\ op.app \in Apps
  BY <1>2, Keeps DEF Current
<1>4. Kinds /\ StateStep /\ RuntimeStep /\ FrontendStep /\ (op.app \in suspect \/ (OldStep /\ ServiceStep))
  BY DEF Inv, OpInv
<1>8. Kinds'
  BY <1>2, <1>4 DEF Kinds, Placed, Undoing, OpKept
<1>9. StateStep'
  BY <1>2, <1>4 DEF StateStep, Undoing, Before, Kinds, OpKept
<1>10. RuntimeStep'
  BY <1>2 DEF RuntimeStep, Placed
<1>11. op.app \in suspect' \/ OldStep'
  BY <1>2, <1>3, <1>4 DEF OldStep, Former, Before, Kinds, OpKept
<1>12. FrontendStep'
  BY <1>2, <1>4 DEF FrontendStep, OpKept
<1>13. op.app \in suspect' \/ ServiceStep'
  <2>1. op.kind \in {"update", "remove"} /\ pc' \in {"aside", "uninstall"}
    BY <1>4 DEF Kinds, Placed, Undoing
  <2>2. op.app \in suspect \/ ((op.app \in running => Current # Absent) /\ ~op.started)
    BY <1>4 DEF ServiceStep, Former, Before
  <2>3. op.app \in suspect \/ op.app \notin running'
    BY <2>2
  <2>4. Former' = Current /\ (op'.run => Current # Absent)
    BY <1>2, <1>3, <2>1 DEF Former, Before
  <2> QED
    BY <1>2, <2>1, <2>2, <2>3, <2>4 DEF ServiceStep, OpKept
<1> QED
  BY <1>2, <1>8, <1>9, <1>10, <1>11, <1>12, <1>13, GoingOn

-----------------------------------------------------------------------------
(* Steps that end an operation. *)

LEMMA Ending ==
  ASSUME Inv, Progress \/ OpFails, NEW a \in Apps, a = op.app, a \in suspect' \/ Rested(a)',
         \/ Fail \/ FailSpoilt
         \/ Succeed /\ (script => /\ phase = "restore" => Recovered(a)'
                                  /\ phase = "reconcile" => Reconciled(a)')
  PROVE  Inv'
<1>1. pc # "idle" /\ pc' = "idle" /\ op' = NoOp
  BY Midway DEF Succeed, Fail, FailSpoilt
<1>2. script => a \in failed' \/ (/\ phase = "restore" => Recovered(a)'
                                  /\ phase = "reconcile" => Reconciled(a)')
  BY DEF Fail, FailSpoilt, Report
<1> QED
  BY <1>1, <1>2, StepFrame, Ends DEF Inv

\* One whose step failed leaves its app as it found it.
LEMMA Failing ==
  ASSUME Inv, Progress \/ OpFails, NEW a \in Apps, a = op.app, Fail,
         a \in suspect \/
           /\ state'[a] = op.old /\ frontend' = op.web
           /\ IF op.old.serial # 0
              THEN /\ \/ runtime'[a][Role] = op.old.serial
                      \/ runtime'[a][Role] = Absent /\ (a \in failed \/ Behind(a))
                   /\ a \in running' => runtime'[a][Role] # Absent
              ELSE op.web # a
  PROVE  Inv'
<1>1. ASSUME a \notin suspect PROVE Rested(a)'
  <2>1. Kinds
    BY Midway DEF Inv, OpInv
  <2>2. /\ Installed(a)' <=> op.old.serial # 0
        /\ RuntimeOf(a)' = runtime'[a][op.old.storage]
    BY <1>1 DEF Installed, RuntimeOf
  <2>3. op.old.serial # 0 => Role = op.old.storage
    BY <2>1 DEF Kinds, Role
  <2>4. a \in failed \/ Behind(a) => a \in failed' \/ Behind(a)'
    BY Midway DEF Fail, Report, Behind
  <2> QED
    BY <1>1, <2>2, <2>3, <2>4 DEF Rested
<1>2. suspect' = suspect
  BY DEF Fail
<1> QED
  BY <1>1, <1>2, Ending

LEMMA MarkNext == ASSUME Inv, Mark PROVE Inv'
<1> DEFINE a == op.app
<1>1. /\ pc = "mark" /\ Succeed /\ marker' = [marker EXCEPT ![a] = TRUE]
      /\ UNCHANGED <<state, frontend, runtime, running>>
  BY DEF Mark, At
<1>2. Kinds /\ state[a] = op.new /\ Current = op.new.serial /\ a \in Apps
  BY <1>1, Operation DEF Inv, OpInv, StateStep, RuntimeStep, Placed
<1>3. op.new.serial # 0 /\ Role = op.new.storage
  BY <1>1, <1>2 DEF Kinds, Role
<1>4. script => /\ phase = "restore" \/ phase = "reconcile"
                /\ phase = "reconcile" => op.new.system /\ op.new.serial >= image[a]
  BY <1>1 DEF Inv, BootInv
<1>5. marker'[a] /\ UNCHANGED <<phase, script, image>>
  BY <1>1, <1>2, Midway DEF Inv, TypeOK, Progress
<1> HIDE DEF a
<1>6. ASSUME NEW b \in Apps, b = a
      PROVE  Rested(b)' /\ Recovered(b)' /\ (script /\ phase = "reconcile" => Reconciled(b)')
  <2>1. RuntimeOf(b)' = op.new.serial /\ Installed(b)' /\ state'[b] = op.new /\ op.new.serial # Absent
    BY <1>1, <1>2, <1>3, <1>6 DEF RuntimeOf, Installed, Current, Absent, a
  <2> QED
    BY <1>3, <1>4, <1>5, <1>6, <2>1 DEF Rested, Recovered, Reconciled
<1> QED
  BY <1>1, <1>2, <1>6, Ending DEF Progress, a

LEMMA DeselectNext == ASSUME Inv, Deselect PROVE Inv'
<1>1. /\ pc = "deselect" /\ Succeed /\ frontend' = IF op.web = op.app THEN "none" ELSE frontend
      /\ UNCHANGED <<state, runtime, marker, running>>
  BY DEF Deselect, At
<1>2. state[op.app] = NotInstalled /\ op.app \in Apps /\ op.app # "none" /\ ~script
  BY <1>1, Operation DEF Inv, OpInv, StateStep, BootInv, Kinds, Placed, Undoing
<1>3. frontend = op.web
  BY <1>1 DEF Inv, OpInv, FrontendStep
<1> QED
  <2>1. ASSUME NEW a \in Apps, a = op.app PROVE a \in suspect' \/ Rested(a)'
    BY <1>1, <1>2, <1>3, <2>1 DEF Rested, Installed, NotInstalled
  <2> QED
    BY <1>1, <1>2, <2>1, Ending DEF Progress

LEMMA PutBackNext == ASSUME Inv, PutBack PROVE Inv'
<1>1. /\ pc = "putback" /\ Fail /\ UNCHANGED <<state, frontend, marker>>
      /\ \/ (op.aside = Absent \/ Current # Absent) /\ UNCHANGED <<runtime, running>>
         \/ /\ op.aside # Absent /\ Current = Absent /\ SetCurrent(op.aside)
            /\ running' = IF op.run THEN running \cup {op.app} ELSE running
  BY DEF PutBack, At
<1>2. /\ Kinds /\ FrontendStep /\ op.app \in Apps
      /\ op.app \in suspect \/ (state[op.app] = op.old /\ Current = Absent)
      /\ op.app \in suspect \/ (OldStep /\ ServiceStep)
  BY <1>1, Operation DEF Inv, OpInv, StateStep, RuntimeStep, Undoing
<1>3. op.app \in suspect \/ runtime'[op.app][Role] = op.aside
  BY <1>1, <1>2, Operation, SetsCurrent DEF Current
<1>4. op.app \in suspect \/ (op.app \in running' => op.old.serial = 0 \/ op.aside # Absent)
  BY <1>1, <1>2 DEF ServiceStep, Kinds, Former, Before
<1> QED
  <2>1. op.app \in suspect \/ (/\ frontend' = op.web
                               /\ IF op.old.serial # 0
                                  THEN op.aside = op.old.serial
                                       \/ (op.aside = Absent /\ (op.app \in failed \/ Behind(op.app)))
                                  ELSE op.web # op.app)
    BY <1>1, <1>2 DEF OldStep, FrontendStep, Former, Before
  <2> QED
    BY <1>1, <1>2, <1>3, <1>4, <2>1, Failing DEF Progress

\* Before anything of its app changed.
LEMMA FailingBefore ==
  ASSUME Inv, Progress \/ OpFails, pc \in Before, Fail, UNCHANGED durable,
         op.app \in running' => op.app \in running \/ op.run
  PROVE  Inv'
<1>1. /\ Kinds /\ FrontendStep /\ op.app \in Apps /\ state[op.app] = op.old
      /\ op.app \in suspect \/ (OldStep /\ ServiceStep)
  BY Operation DEF Inv, OpInv, StateStep, Before
<1>2. op.app \in suspect \/ (/\ frontend' = op.web
                             /\ IF op.old.serial # 0
                                THEN Current = op.old.serial
                                     \/ (Current = Absent /\ (op.app \in failed \/ Behind(op.app)))
                                ELSE op.web # op.app)
  BY <1>1 DEF OldStep, FrontendStep, Former, Before
<1>3. op.app \in suspect \/ (op.app \in running' => Current # Absent)
  BY <1>1 DEF ServiceStep, Kinds, Former, Before, Placed, Undoing
<1> QED
  BY <1>1, <1>2, <1>3, Failing DEF Current

LEMMA StopAny == ASSUME Inv, Stop PROVE Inv'
<1>1. pc = "stop" /\ UNCHANGED <<boot, durable>>
  BY DEF Stop, At
<1>2. CASE Fail /\ UNCHANGED running
  BY <1>1, <1>2, FailingBefore DEF Progress, Before
<1>3. CASE ~Fail
  BY <1>1, <1>3, StopNext DEF Stop, Goto
<1> QED
  BY <1>2, <1>3 DEF Stop, Goto, Fail

LEMMA FailOutrightNext == ASSUME Inv, FailOutright PROVE Inv'
<1>1. pc \in {"stop", "aside", "mark", "hide"} /\ Fail /\ UNCHANGED <<durable, running>>
  BY DEF FailOutright, At
<1>2. CASE pc \in Before
  BY <1>1, <1>2, FailingBefore DEF OpFails
<1>3. CASE pc = "mark"
  <2>1. Kinds /\ state[op.app] = op.new /\ Current = op.new.serial /\ op.app \in Apps
    BY <1>3, Operation DEF Inv, OpInv, StateStep, RuntimeStep, Placed
  <2>2. op.new.serial # 0 /\ Role = op.new.storage
    BY <1>3, <2>1 DEF Kinds, Role
  <2>3. ASSUME NEW a \in Apps, a = op.app PROVE Rested(a)'
    BY <1>1, <2>1, <2>2, <2>3 DEF Rested, RuntimeOf, Installed, Current, Absent
  <2> QED
    BY <1>1, <1>3, <2>1, <2>3, Ending DEF OpFails
<1> QED
  BY <1>1, <1>2, <1>3 DEF Before

LEMMA FailPutBackNext == ASSUME Inv, FailPutBack PROVE Inv'
<1>1. /\ pc = "putback" /\ op.aside # Absent /\ Current = Absent /\ UNCHANGED <<state, frontend, marker, running>>
      /\ FailSpoilt \/ (op.run /\ Fail /\ SetCurrent(op.aside))
  BY DEF FailPutBack, At
<1>2. CASE FailSpoilt
  <2>1. op.app \in suspect' /\ op.app \in Apps
    BY <1>1, <1>2, Operation DEF FailSpoilt
  <2>2. ASSUME NEW a \in Apps, a = op.app PROVE a \in suspect'
    BY <2>1, <2>2
  <2> QED
    BY <1>2, <2>1, <2>2, Ending DEF OpFails
<1>3. CASE Fail /\ SetCurrent(op.aside)
  <2>1. /\ Kinds /\ FrontendStep /\ op.app \in Apps
        /\ op.app \in suspect \/ state[op.app] = op.old
        /\ op.app \in suspect \/ (OldStep /\ ServiceStep)
    BY <1>1, Operation DEF Inv, OpInv, StateStep, Undoing
  <2>2. runtime'[op.app][Role] = op.aside
    BY <1>1, <1>3, Operation, SetsCurrent
  <2>3. op.app \in suspect \/ (/\ frontend' = op.web
                               /\ IF op.old.serial # 0
                                  THEN op.aside = op.old.serial
                                       \/ (op.aside = Absent /\ (op.app \in failed \/ Behind(op.app)))
                                  ELSE op.web # op.app)
    BY <1>1, <2>1 DEF OldStep, FrontendStep, Former, Before
  <2> QED
    BY <1>1, <1>3, <2>1, <2>2, <2>3, Failing DEF OpFails
<1> QED
  BY <1>1, <1>2, <1>3

LEMMA FailUninstallNext == ASSUME Inv, FailUninstall PROVE Inv'
<1>1. /\ pc = "uninstall" /\ Fail /\ UNCHANGED durable
      /\ op.app \in running' => op.app \in running \/ op.run
  BY DEF FailUninstall, At
<1> QED
  BY <1>1, FailingBefore DEF OpFails, Before

LEMMA FailDeleteNext == ASSUME Inv, FailDelete PROVE Inv'
<1>1. /\ pc = "delete" /\ Current # Absent /\ UNCHANGED <<frontend, marker>>
      /\ FailSpoilt \/ (/\ Fail /\ Current # Torn /\ SetCurrent(Current)
                       /\ state' = [state EXCEPT ![op.app] = op.old])
  BY DEF FailDelete, At
<1>2. CASE FailSpoilt
  <2>1. op.app \in suspect' /\ op.app \in Apps
    BY <1>1, <1>2, Operation DEF FailSpoilt
  <2>2. ASSUME NEW a \in Apps, a = op.app PROVE a \in suspect'
    BY <2>1, <2>2
  <2> QED
    BY <1>2, <2>1, <2>2, Ending DEF OpFails
<1>3. CASE Fail /\ Current # Torn /\ SetCurrent(Current) /\ state' = [state EXCEPT ![op.app] = op.old]
  <2>1. /\ Kinds /\ FrontendStep /\ op.app \in Apps
        /\ op.app \in suspect \/ OldStep
    BY <1>1, Operation DEF Inv, OpInv
  <2>2. runtime'[op.app][Role] = Current /\ state'[op.app] = op.old
    BY <1>1, <1>3, Operation, SetsCurrent DEF Inv, TypeOK
  <2>3. op.app \in suspect \/ (/\ frontend' = op.web
                               /\ op.old.serial # 0 /\ Current = op.old.serial)
    BY <1>1, <1>3, <2>1 DEF OldStep, FrontendStep, Former, Before, Kinds, Placed, Undoing
  <2> QED
    BY <1>1, <1>3, <2>1, <2>2, <2>3, Failing DEF OpFails
<1> QED
  BY <1>1, <1>2, <1>3

LEMMA FailForgetNext == ASSUME Inv, FailForget PROVE Inv'
<1>1. UNCHANGED <<durable, running>>
  BY DEF FailForget
<1>2. CASE At("unmark") /\ Goto("deselect") /\ UNCHANGED op
  <2>1. /\ pc = "unmark" /\ pc' = "deselect" /\ op' = op /\ UNCHANGED <<todo, failed, suspect>>
    BY <1>2 DEF At, Goto
  <2>2. OpFails /\ OpKept
    BY <2>1 DEF OpFails, OpKept
  <2>3. Kinds /\ StateStep /\ RuntimeStep /\ FrontendStep /\ (op.app \in suspect \/ (OldStep /\ ServiceStep))
    BY <2>1 DEF Inv, OpInv
  <2>4. Kinds' /\ StateStep' /\ RuntimeStep' /\ FrontendStep'
    BY <1>1, <2>1, <2>3 DEF Kinds, FrontendStep, StateStep, RuntimeStep, Current, Role, Placed, Undoing, Before
  <2>5. op.app \in suspect' \/ (OldStep /\ ServiceStep)'
    BY <1>1, <2>1, <2>3 DEF Kinds, OldStep, FrontendStep, ServiceStep, Former
  <2> QED
    BY <2>1, <2>2, <2>4, <2>5, GoingOn
<1>3. CASE At("deselect") /\ FailSpoilt
  <2>1. op.app \in suspect' /\ op.app \in Apps
    BY <1>3, Operation DEF FailSpoilt, At
  <2>2. ASSUME NEW a \in Apps, a = op.app PROVE a \in suspect'
    BY <2>1, <2>2
  <2> QED
    BY <1>3, <2>1, <2>2, Ending DEF OpFails
<1> QED
  BY <1>2, <1>3 DEF FailForget

-----------------------------------------------------------------------------
(* An operation begins. *)

LEMMA Beginning ==
  ASSUME Inv, NEW step \in Steps \ {"idle"}, NEW kind \in {"install", "update", "remove", "restore"},
         NEW a \in Apps, NEW new \in State, NEW start \in BOOLEAN, Begin(step, kind, a, new, start),
         \/ /\ kind = "install" /\ step = "place" /\ ~Installed(a) /\ new.serial # 0
         \/ /\ kind = "update" /\ step = "stop" /\ Installed(a) /\ new.serial # 0
            /\ new.storage = state[a].storage
         \/ /\ kind = "restore" /\ step = "aside" /\ Installed(a) /\ new = state[a]
         \/ /\ kind = "remove" /\ step = "stop" /\ Installed(a),
         script => /\ a \in todo
                   /\ \/ phase = "restore" /\ kind = "restore"
                      \/ /\ phase = "reconcile" /\ kind \in {"install", "update"}
                         /\ new.system /\ new.serial >= image[a]
  PROVE  Inv'
<1>1. /\ pc = "idle" /\ phase # "off" /\ pc' = step /\ UNCHANGED <<durable, boot, report, running, bounds>>
      /\ op' = [NoOp EXCEPT !.kind = kind, !.app = a, !.new = new, !.start = start,
                            !.old = state[a], !.web = frontend]
  BY DEF Begin
<1>2. /\ op'.kind = kind /\ op'.app = a /\ op'.new = new /\ op'.old = state[a] /\ op'.web = frontend
      /\ ~op'.run /\ op'.aside = Absent /\ ~op'.selected /\ ~op'.started
      /\ op' \in Op
  <2>1. NoOp \in Op /\ ~NoOp.run /\ NoOp.aside = Absent /\ ~NoOp.selected /\ ~NoOp.started
    BY AppAssumption DEF NoOp, Op, State, NotInstalled, Runtimes, Absent, Roles
  <2>2. state[a] \in State /\ frontend \in WebApps \cup {"none"}
    BY DEF Inv, TypeOK
  <2> QED
    BY <1>1, <2>1, <2>2 DEF Op
<1>3. op.app \notin Apps
  BY <1>1, AppAssumption DEF Inv, OpInv, NoOp
<1>4. a \in suspect \/ Rested(a)
  BY <1>3 DEF Inv, Rest
<1>5. TypeOK'
  BY <1>1, <1>2 DEF Inv, TypeOK
<1>6. BootInv'
  BY <1>1, <1>2 DEF Inv, BootInv, Booting
<1>7. Visits'
  <2>1. \A b \in Apps : Recovered(b)' = Recovered(b) /\ Reconciled(b)' = Reconciled(b)
    BY <1>1 DEF Recovered, Reconciled, Installed, RuntimeOf
  <2> QED
    BY <1>1, <2>1 DEF Inv, Visits
<1>8. Rest'
  <2>1. \A b \in Apps : Rested(b)' = Rested(b)
    BY <1>1 DEF Rested, Installed, RuntimeOf, Behind
  <2> QED
    BY <1>1, <1>2, <1>3, <2>1 DEF Inv, Rest
<1>9. /\ kind # "install" => Current' = RuntimeOf(a)
      /\ Behind(op.app)' = Behind(a)
  BY <1>1, <1>2 DEF Role, Current, RuntimeOf, Behind
<1>10. Kinds'
  BY <1>2, <1>1 DEF Kinds, Installed
<1>11. StateStep' /\ FrontendStep'
  BY <1>1, <1>2 DEF StateStep, FrontendStep, Before, Undoing
<1>12. RuntimeStep'
  BY <1>1, <1>2 DEF RuntimeStep, Placed
<1>13. a \in suspect \/ OldStep'
  BY <1>1, <1>2, <1>4, <1>9 DEF OldStep, Former, Before, Rested, Installed
<1>14. a \in suspect \/ ServiceStep'
  BY <1>1, <1>2, <1>4, <1>9 DEF ServiceStep, Former, Before, Rested, Installed
<1>15. OpInv'
  BY <1>1, <1>2, <1>10, <1>11, <1>12, <1>13, <1>14 DEF OpInv
<1> QED
  BY <1>5, <1>6, <1>7, <1>8, <1>15 DEF Inv

\* The state an installation or an update makes.
LEMMA Becoming ==
  ASSUME Inv, NEW a \in Apps, NEW serial \in 1..MaxSerial, NEW storage \in Roles, NEW required \in BOOLEAN
  PROVE  /\ Becomes(a, serial, storage, required) \in State
         /\ Becomes(a, serial, storage, required).serial = serial /\ serial # 0
         /\ Becomes(a, serial, storage, required).storage = storage
         /\ required => Becomes(a, serial, storage, required).system
<1>1. state[a].system \in BOOLEAN /\ serial \in 0..MaxSerial
  BY AppAssumption DEF Inv, TypeOK, State
<1> QED
  BY <1>1 DEF Becomes, State

LEMMA BeginNext ==
  ASSUME Inv, NEW a \in Apps,
         BeginInstall(a) \/ BeginUpdate(a) \/ BeginRemove(a) \/ BeginRestore(a) \/ SeedInstall(a) \/ SeedUpdate(a)
  PROVE  Inv'
<1>1. /\ state[a] \in State /\ state[a].storage \in Roles /\ state[a].serial \in 0..MaxSerial
      /\ image[a] \in 0..MaxSerial
      /\ image[a] # 0 => image[a] \in 1..MaxSerial /\ image[a] >= image[a]
  <2>1. state[a] \in State /\ image[a] \in 0..MaxSerial
    BY DEF Inv, TypeOK
  <2> QED
    BY <2>1, AppAssumption DEF State
<1>2. CASE BeginInstall(a)
  <2>1. PICK serial \in 1..MaxSerial, storage \in Roles :
          Begin("place", "install", a, Becomes(a, serial, storage, FALSE), TRUE)
    BY <1>2 DEF BeginInstall, Serials
  <2>2. ~script /\ ~Installed(a)
    BY <1>2 DEF BeginInstall
  <2> DEFINE new == Becomes(a, serial, storage, FALSE)
  <2>3. new \in State /\ new.serial # 0
    BY Becoming
  <2> HIDE DEF new
  <2> QED
    BY <2>1, <2>2, <2>3, Beginning DEF Steps, new
<1>3. CASE BeginUpdate(a)
  <2>1. PICK serial \in 1..MaxSerial :
          Begin("stop", "update", a, Becomes(a, serial, state[a].storage, FALSE), TRUE)
    BY <1>3 DEF BeginUpdate, Serials
  <2>2. ~script /\ Installed(a)
    BY <1>3 DEF BeginUpdate
  <2> DEFINE new == Becomes(a, serial, state[a].storage, FALSE)
  <2>3. new \in State /\ new.serial # 0 /\ new.storage = state[a].storage
    BY <1>1, Becoming
  <2> HIDE DEF new
  <2> QED
    BY <2>1, <2>2, <2>3, Beginning DEF Steps, new
<1>4. CASE BeginRemove(a)
  <2>1. ~script /\ Installed(a) /\ Begin("stop", "remove", a, NotInstalled, FALSE)
    BY <1>4 DEF BeginRemove
  <2>2. NotInstalled \in State
    BY AppAssumption DEF NotInstalled, State, Roles
  <2> QED
    BY <2>1, <2>2, Beginning DEF Steps
<1>5. CASE BeginRestore(a)
  <2>1. /\ script /\ a \in todo /\ phase = "restore" /\ Installed(a)
        /\ Begin("aside", "restore", a, state[a], FALSE)
    BY <1>5 DEF BeginRestore, Visit, NeedsNothing
  <2> QED
    BY <1>1, <2>1, Beginning DEF Steps
<1>6. CASE SeedInstall(a)
  <2> DEFINE new == Becomes(a, image[a], "sys", TRUE)
  <2>1. /\ script /\ a \in todo /\ phase = "reconcile" /\ ~Installed(a) /\ image[a] \in 1..MaxSerial
        /\ Begin("place", "install", a, new, FALSE)
    BY <1>1, <1>6 DEF SeedInstall, Visit
  <2>2. new \in State /\ new.serial # 0 /\ new.serial = image[a] /\ new.system
    <3>1. "sys" \in Roles
      BY DEF Roles
    <3> QED
      BY <2>1, <3>1, Becoming
  <2>3. new.serial >= image[a]
    BY <1>1, <2>2
  <2> HIDE DEF new
  <2> QED
    BY <2>1, <2>2, <2>3, Beginning DEF Steps
<1>7. CASE SeedUpdate(a)
  <2> DEFINE new == Becomes(a, image[a], state[a].storage, TRUE)
  <2>1. /\ script /\ a \in todo /\ phase = "reconcile" /\ Installed(a) /\ image[a] \in 1..MaxSerial
        /\ Begin("stop", "update", a, new, FALSE)
    <3>1. image[a] # 0
      BY <1>1, <1>7 DEF SeedUpdate
    <3> QED
      BY <1>1, <1>7, <3>1 DEF SeedUpdate, Visit
  <2>2. new \in State /\ new.serial # 0 /\ new.serial = image[a] /\ new.system /\ new.storage = state[a].storage
    BY <1>1, <2>1, Becoming
  <2>3. new.serial >= image[a]
    BY <1>1, <2>2
  <2> HIDE DEF new
  <2> QED
    BY <2>1, <2>2, <2>3, Beginning DEF Steps
<1> QED
  BY <1>2, <1>3, <1>4, <1>5, <1>6, <1>7

-----------------------------------------------------------------------------
(* Between operations. *)

\* A script visits an app without beginning an operation.
Seen(a) ==
  /\ script /\ a \in todo /\ todo' = todo \ {a} /\ pc = "idle"
  /\ UNCHANGED <<boot, suspect, pc, op, runtime, frontend>>

LEMMA Visiting ==
  ASSUME Inv, NEW a \in Apps, Seen(a), TypeOK',
         \A b \in Apps \ {a} : /\ state'[b] = state[b] /\ marker'[b] = marker[b]
                               /\ b \in running' <=> b \in running
                               /\ b \in failed' <=> b \in failed,
         a \in suspect \/ Rested(a)',
         \/ a \in failed'
         \/ (phase = "restore" => Recovered(a)') /\ (phase = "reconcile" => Reconciled(a)')
  PROVE  Inv'
<1>1. BootInv' /\ OpInv'
  BY DEF Seen, Inv, BootInv, Booting, OpInv
<1>2. ASSUME NEW b \in Apps, b # a
      PROVE  /\ Rested(b)' = Rested(b) /\ Recovered(b)' = Recovered(b) /\ Reconciled(b)' = Reconciled(b)
  <2>1. Installed(b)' = Installed(b) /\ RuntimeOf(b)' = RuntimeOf(b) /\ Behind(b)' = Behind(b)
    BY <1>2 DEF Seen, Installed, RuntimeOf, Behind
  <2> QED
    BY <1>2, <2>1 DEF Seen, Rested, Recovered, Reconciled
<1>3. Rest'
  BY <1>2 DEF Rest, Inv, Seen
<1>4. Visits'
  BY <1>2 DEF Visits, Inv, Seen
<1> QED
  BY <1>1, <1>3, <1>4 DEF Inv

LEMMA RestoreVisits ==
  ASSUME Inv, NEW a \in Apps, RestoreNothing(a) \/ RestoreRetained(a)
  PROVE  Inv'
<1>1. /\ Seen(a) /\ phase = "restore" /\ UNCHANGED <<state, running, failed, suspect, faults, reboots>>
      /\ marker' = marker \/ marker' = [marker EXCEPT ![a] = TRUE]
  BY DEF RestoreNothing, RestoreRetained, Visit, Visited, Seen
<1>2. TypeOK'
  BY <1>1 DEF Seen, Inv, TypeOK
<1>3. a \in suspect \/ Rested(a)
  BY <1>1, AppAssumption DEF Seen, Inv, OpInv, NoOp, Rest
<1>4. Installed(a)' = Installed(a) /\ RuntimeOf(a)' = RuntimeOf(a) /\ state[a] \in State
  BY <1>1 DEF Seen, Installed, RuntimeOf, Inv, TypeOK
<1>5. Recovered(a)' /\ (a \in suspect \/ Rested(a)')
  <2>1. CASE RestoreNothing(a)
    <3>1. ~Installed(a) \/ (state[a].storage = "sys" /\ marker[a] /\ RuntimeOf(a) # Absent)
      BY <2>1 DEF RestoreNothing, NeedsNothing
    <3> QED
      BY <1>1, <1>3, <1>4, <2>1, <3>1 DEF Rested, Recovered, RestoreNothing, Seen
  <2>2. CASE RestoreRetained(a)
    <3>1. RuntimeOf(a) = state[a].serial /\ Installed(a) /\ marker'[a]
      BY <2>2 DEF RestoreRetained, Retained, NeedsNothing, Inv, TypeOK
    <3>2. state[a].serial # Absent
      BY <3>1 DEF Installed, Absent
    <3> QED
      BY <1>1, <1>4, <3>1, <3>2 DEF Rested, Recovered
  <2> QED
    BY <2>1, <2>2
<1> QED
  BY <1>1, <1>2, <1>5, Visiting DEF Inv, TypeOK

LEMMA PromoteNext == ASSUME Inv, NEW a \in Apps, Promote(a) PROVE Inv'
<1>1. /\ Seen(a) /\ phase = "reconcile" /\ UNCHANGED <<running, failed, suspect, faults, reboots, marker>>
      /\ image[a] # 0 => Installed(a) /\ image[a] <= state[a].serial
      /\ state' = [state EXCEPT ![a].system = @ \/ image[a] # 0]
  BY DEF Promote, Visit, Visited, Seen
<1>2. /\ state' \in [Apps -> State] /\ \A b \in Apps \ {a} : state'[b] = state[b]
      /\ state'[a].serial = state[a].serial /\ state'[a].storage = state[a].storage
      /\ image[a] # 0 => state'[a].system
  BY <1>1 DEF Inv, TypeOK, State
<1>3. TypeOK'
  BY <1>1, <1>2 DEF Seen, Inv, TypeOK
<1>4. a \in suspect \/ Rested(a)
  BY <1>1, AppAssumption DEF Seen, Inv, OpInv, NoOp, Rest
<1>5. Installed(a)' = Installed(a) /\ RuntimeOf(a)' = RuntimeOf(a)
  BY <1>1, <1>2 DEF Seen, Installed, RuntimeOf
<1>6. a \in suspect \/ Rested(a)'
  BY <1>1, <1>2, <1>4, <1>5 DEF Rested, Seen, Behind
<1>7. Reconciled(a)'
  BY <1>1, <1>2, <1>5 DEF Reconciled, Seen, Inv, TypeOK, State
<1> QED
  BY <1>1, <1>2, <1>3, <1>6, <1>7, Visiting

LEMMA StartNextApp ==
  ASSUME Inv, NEW a \in Apps, StartInstalled(a) \/ FailVisit(a)
  PROVE  Inv'
<1>1. /\ Seen(a) /\ phase \in {"restore", "reconcile", "start"} /\ UNCHANGED durable
      /\ UNCHANGED suspect /\ faults' \in Nat /\ reboots' \in Nat
      /\ \/ a \in failed' /\ failed' = failed \cup {a} /\ UNCHANGED running
         \/ /\ phase = "start" /\ UNCHANGED failed
            /\ ~Startable(a) \/ RuntimeOf(a) # Absent
            /\ running' = IF Startable(a) THEN running \cup {a} ELSE running
  BY DEF StartInstalled, FailVisit, Fault, Visit, Visited, Degraded, Seen, Inv, TypeOK
<1>2. TypeOK'
  BY <1>1 DEF Seen, Inv, TypeOK
<1>3. a \in suspect \/ Rested(a)
  BY <1>1, AppAssumption DEF Seen, Inv, OpInv, NoOp, Rest
<1>4. Installed(a)' = Installed(a) /\ RuntimeOf(a)' = RuntimeOf(a)
  BY <1>1 DEF Seen, Installed, RuntimeOf
<1>5. a \in failed \/ Behind(a) => a \in failed' \/ Behind(a)'
  BY <1>1 DEF Seen, Behind
<1>6. a \in suspect \/ Rested(a)'
  BY <1>1, <1>3, <1>4, <1>5 DEF Rested
<1> QED
  BY <1>1, <1>2, <1>6, Visiting

\* Steps that change no app.
LEMMA Turning ==
  ASSUME Inv, UNCHANGED <<durable, image, suspect, running, pc, op, bounds>>, TypeOK', phase # "off",
         phase' # "off", script' => Booting' /\ pc = "idle",
         \A a \in Apps : a \in failed \/ Behind(a) => a \in failed' \/ Behind(a)',
         script' => \A a \in Apps : a \in todo' \/ a \in failed'
  PROVE  Inv'
<1>1. BootInv'
  BY DEF Inv, BootInv
<1>2. Visits'
  BY DEF Visits
<1>3. Rest'
  BY DEF Inv, Rest, Rested, Installed, RuntimeOf
<1>4. OpInv'
  <2>1. /\ Kinds' = Kinds /\ StateStep' = StateStep /\ RuntimeStep' = RuntimeStep /\ FrontendStep' = FrontendStep
        /\ ServiceStep' = ServiceStep
    BY DEF Kinds, StateStep, RuntimeStep, FrontendStep, ServiceStep, Current, Former, Role
  <2>2. op.app \in Apps => (OldStep => OldStep')
    BY DEF OldStep, Former, Current, Role, Behind
  <2> QED
    BY <2>1, <2>2 DEF Inv, OpInv
<1> QED
  BY <1>1, <1>2, <1>3, <1>4 DEF Inv

LEMMA ScriptTurns == ASSUME Inv, BeginScript \/ SkipScript \/ EndScript PROVE Inv'
<1>1. CASE BeginScript
  BY <1>1, Turning DEF BeginScript, Booting, Behind, Inv, TypeOK
<1>2. ASSUME phase \in {"restore", "reconcile", "start"}
      PROVE  After(phase) \in {"reconcile", "start", "up"} /\ After(phase) # "restore"
  BY <1>2 DEF After
<1>3. CASE SkipScript
  <2>1. /\ phase' \in {"reconcile", "start", "up"} /\ failed' = Apps /\ ~script /\ script' = script
    BY <1>2, <1>3 DEF SkipScript, Booting
  <2>2. TypeOK'
    BY <1>3, <2>1 DEF SkipScript, Inv, TypeOK
  <2> QED
    BY <1>3, <2>1, <2>2, Turning DEF SkipScript, Booting
<1>4. CASE EndScript
  <2>1. phase \in {"restore", "reconcile", "start"} /\ todo = {} /\ ~script' /\ script
    BY <1>4 DEF EndScript, Inv, BootInv, Booting
  <2>2. phase' \in {"reconcile", "start", "up"}
    BY <1>2, <1>4, <2>1 DEF EndScript
  <2>3. TypeOK'
    BY <1>4, <2>1, <2>2 DEF EndScript, Inv, TypeOK
  <2>4. \A a \in Apps : ~Behind(a)
    BY <2>1 DEF Behind
  <2> QED
    BY <1>4, <2>1, <2>2, <2>3, <2>4, Turning DEF EndScript
<1> QED
  BY <1>1, <1>3, <1>4

LEMMA OperateNext == ASSUME Inv, NEW a \in Apps, OperateService(a) PROVE Inv'
<1>1. /\ ~script /\ phase # "off" /\ Installed(a) /\ RuntimeOf(a) # Absent /\ pc = "idle"
      /\ running' \subseteq Apps /\ \A b \in Apps : b # a => (b \in running' <=> b \in running)
      /\ UNCHANGED <<durable, boot, report, pc, op, bounds>>
  BY DEF OperateService, Inv, TypeOK
<1>2. TypeOK' /\ BootInv' /\ Visits' /\ OpInv'
  BY <1>1 DEF Inv, TypeOK, BootInv, Booting, Visits, OpInv
<1>3. Rest'
  <2>1. ASSUME NEW b \in Apps PROVE Rested(b) => Rested(b)'
    BY <1>1 DEF Rested, Installed, RuntimeOf, Behind
  <2> QED
    BY <1>1, <2>1 DEF Inv, Rest
<1> QED
  BY <1>2, <1>3 DEF Inv

-----------------------------------------------------------------------------
(* Kills, power, boot. *)

LEMMA Cut ==
  ASSUME Inv, CutShort, op' = NoOp
  PROVE  /\ suspect' \subseteq Apps /\ NoOp \in Op /\ NoOp.kind = "none"
         /\ \A a \in Apps : a = op.app => a \in suspect' \/ Rested(a)
         /\ suspect \subseteq suspect'
<1>1. NoOp \in Op /\ NoOp.kind = "none" /\ NoOp.app \notin Apps
  BY AppAssumption DEF NoOp, Op, State, NotInstalled, Runtimes, Absent, Roles
<1>2. pc = "idle" => op = NoOp
  BY DEF Inv, OpInv
<1>3. suspect' = (IF pc = "idle" THEN suspect ELSE suspect \cup {op.app}) /\ suspect \subseteq Apps
  BY DEF CutShort, Inv, TypeOK
<1> QED
  BY <1>1, <1>2, <1>3, Operation

LEMMA KillNext == ASSUME Inv, Kill PROVE Inv'
<1>1. /\ ~script /\ pc' = "idle" /\ op' = NoOp /\ CutShort /\ faults' \in Nat /\ reboots' \in Nat
      /\ UNCHANGED <<durable, boot, todo, failed, running>>
  BY DEF Kill, Fault, Inv, TypeOK
<1>2. TypeOK'
  BY <1>1, Cut DEF Inv, TypeOK, Steps
<1>3. BootInv' /\ Visits' /\ OpInv'
  BY <1>1 DEF Inv, BootInv, Visits, OpInv, Booting
<1>4. Rest'
  <2>1. \A a \in Apps : Rested(a)' = Rested(a)
    BY <1>1 DEF Rested, Installed, RuntimeOf, Behind
  <2> QED
    BY <1>1, <2>1, Cut DEF Inv, Rest
<1> QED
  BY <1>2, <1>3, <1>4 DEF Inv

LEMMA StopsNext == ASSUME Inv, PowerLoss \/ Reboot PROVE Inv'
<1>1. Stopped /\ faults' \in Nat /\ reboots' \in Nat
  BY DEF PowerLoss, Reboot, Fault, Inv, TypeOK
<1>2. /\ phase' = "off" /\ ~script' /\ todo' = {} /\ failed' = {} /\ running' = {}
      /\ pc' = "idle" /\ op' = NoOp /\ CutShort /\ UNCHANGED <<durable, image>>
  BY <1>1 DEF Stopped
<1>3. TypeOK'
  BY <1>1, <1>2, Cut DEF Stopped, Inv, TypeOK, Steps
<1>4. BootInv' /\ Visits' /\ OpInv'
  BY <1>2 DEF BootInv, Visits, OpInv
<1>5. Rest'
  <2>1. \A a \in Apps : Rested(a) => Rested(a)'
    BY <1>2 DEF Rested, Installed, RuntimeOf, Behind
  <2> QED
    BY <1>2, <2>1, Cut DEF Inv, Rest
<1> QED
  BY <1>3, <1>4, <1>5 DEF Inv

LEMMA BootNext == ASSUME Inv, Boot PROVE Inv'
<1>1. /\ phase = "off" /\ phase' = "restore" /\ ~script' /\ running' = {} /\ pc = "idle"
      /\ UNCHANGED <<state, frontend, script, report, pc, op, bounds, running>>
  BY DEF Boot, Inv, BootInv
<1>2. /\ runtime' \in [Apps -> [Roles -> Runtimes]] /\ marker' \in [Apps -> BOOLEAN]
      /\ image' \in [Apps -> 0..MaxSerial]
      /\ \A a \in Apps : \A r \in Roles : runtime'[a][r] \in {runtime[a][r], Absent}
  <2>1. CASE UNCHANGED <<runtime, marker, image>>
    BY <2>1 DEF Inv, TypeOK
  <2>2. CASE /\ runtime' = [a \in Apps |-> [runtime[a] EXCEPT !["sys"] = Absent]]
             /\ marker' = [a \in Apps |-> FALSE] /\ image' \in [Apps -> 0..MaxSerial]
    <3>1. Absent \in Runtimes
      BY AppAssumption DEF Absent, Runtimes
    <3> QED
      BY <2>2, <3>1 DEF Inv, TypeOK
  <2> QED
    BY <2>1, <2>2 DEF Boot
<1>3. TypeOK' /\ BootInv' /\ Visits' /\ OpInv'
  BY <1>1, <1>2 DEF Inv, TypeOK, BootInv, Visits, OpInv
<1>4. ASSUME NEW a \in Apps, Rested(a) PROVE Rested(a)'
  <2>1. RuntimeOf(a)' \in {RuntimeOf(a), Absent} /\ Installed(a)' = Installed(a)
    BY <1>1, <1>2 DEF RuntimeOf, Installed, Inv, TypeOK, State
  <2>2. Behind(a)'
    BY <1>1 DEF Behind
  <2> QED
    BY <1>1, <1>4, <2>1, <2>2 DEF Rested
<1> QED
  BY <1>1, <1>3, <1>4 DEF Inv, Rest

\* Every step keeps the invariant.
LEMMA InvNext == Inv /\ [Next]_vars => Inv'
<1> SUFFICES ASSUME Inv, [Next]_vars PROVE Inv'
  OBVIOUS
<1>1. CASE Operator
  BY <1>1, BeginNext, OperateNext DEF Operator
<1>2. CASE Progress
  BY <1>2, StopAny, SetAsideNext, PlaceNext, ServiceActionNext, StartNext, SelectNext, DetachNext, CommitNext,
     MarkNext, UndoNext, DiscardNext, PutBackNext, UninstallNext, DeleteNext, UnmarkNext, DeselectNext
     DEF Progress
<1>3. CASE Scripts
  BY <1>3, ScriptTurns, RestoreVisits, BeginNext, PromoteNext, StartNextApp DEF Scripts
<1>4. CASE StepFails
  BY <1>4, FailOutrightNext, FailNewNext, FailCommitNext, FailUndoNext, FailDiscardNext, FailPutBackNext,
     FailUninstallNext, FailDeleteNext, FailForgetNext, StartNextApp DEF StepFails
<1>5. CASE Kill \/ PowerLoss \/ Reboot \/ Boot
  BY <1>5, KillNext, StopsNext, BootNext
<1>6. CASE UNCHANGED vars
  <2>1. TypeOK' /\ BootInv' /\ Visits' /\ Rest'
    BY <1>6 DEF Inv, TypeOK, BootInv, Booting, Visits, Rest, Recovered, Reconciled, Rested, Installed, RuntimeOf, Behind
  <2>2. /\ Kinds' = Kinds /\ StateStep' = StateStep /\ RuntimeStep' = RuntimeStep /\ FrontendStep' = FrontendStep
        /\ ServiceStep' = ServiceStep /\ OldStep' = OldStep
    BY <1>6 DEF Kinds, StateStep, RuntimeStep, FrontendStep, ServiceStep, OldStep, Current, Former, Role, Behind
  <2> QED
    BY <1>6, <2>1, <2>2 DEF Inv, OpInv
<1> QED
  BY <1>1, <1>2, <1>3, <1>4, <1>5, <1>6 DEF Next

-----------------------------------------------------------------------------
(* The safety properties. *)

\* The invariant holds in every reachable state.
THEOREM Invariance == Spec => []Inv
BY InvInit, InvNext, PTL DEF Spec

\* install_package, remove_package, write_state and the boot scripts: at rest, an app that nothing
\* spoilt and no script reported has the runtime of its cached release, and a selected
\* frontend is installed.
THEOREM AppsTheorem == Spec => []AppsWhole
<1>1. ASSUME Inv PROVE AppsWhole
  <2>1. ASSUME phase = "up", pc = "idle", NEW a \in Apps \ (suspect \cup failed)
        PROVE  IF Installed(a) THEN RuntimeOf(a) = state[a].serial ELSE frontend # a
    <3>1. Rested(a)
      BY <1>1, <2>1, AppAssumption DEF Inv, OpInv, NoOp, Rest
    <3> QED
      BY <2>1, <3>1 DEF Rested, Behind
  <2> QED
    BY <1>1, <2>1 DEF Inv, AppsWhole
<1> QED
  BY <1>1, Invariance, PTL

\* The only step that ends a script which holds the locks.
LEMMA ScriptEnds ==
  ASSUME Inv, Next, script, phase \in {"restore", "reconcile"}, phase' \in {"reconcile", "start"}, phase' # phase
  PROVE  todo = {}
<1>1. ~Operator
  BY DEF Operator, BeginInstall, BeginUpdate, BeginRemove, OperateService, Begin
<1>2. ~Progress /\ ~OpFails
  BY Midway
<1>3. ~StepFails
  BY <1>2 DEF StepFails, OpFails, FailVisit
<1>4. ~Kill /\ ~PowerLoss /\ ~Reboot /\ ~Boot
  BY DEF Kill, PowerLoss, Reboot, Stopped, Boot
<1>5. CASE Scripts
  BY <1>5 DEF Scripts, BeginScript, SkipScript, EndScript, RestoreNothing, RestoreRetained, BeginRestore, SeedInstall,
     SeedUpdate, Promote, StartInstalled, Begin
<1> QED
  BY <1>1, <1>2, <1>3, <1>4, <1>5 DEF Next

\* S58fre3nder-app-restore: when boot recovery ends, what it did not report has a runtime
\* and its marker, and the runtime of the cached release but on SYS after an operation
\* that was cut short.
THEOREM RecoveryTheorem == Spec => RecoveryRestores
<1>1. Inv /\ [Next]_vars =>
        [phase = "restore" /\ script /\ phase' = "reconcile" =>
           \A a \in Apps \ failed : Installed(a) =>
             /\ marker[a] /\ RuntimeOf(a) # Absent
             /\ state[a].storage = "home" \/ a \notin suspect => RuntimeOf(a) = state[a].serial]_vars
  <2> SUFFICES ASSUME Inv, Next, phase = "restore", script, phase' = "reconcile", NEW a \in Apps \ failed
               PROVE  Recovered(a)
    BY DEF Recovered
  <2>1. todo = {}
    BY ScriptEnds
  <2> QED
    BY <2>1 DEF Inv, Visits
<1> QED
  BY <1>1, Invariance, PTL DEF Spec, RecoveryRestores

\* S58fre3nder-system-apps: when reconciliation ends, an app of the image that it did not report
\* is an installed system app, no older than the image's.
THEOREM ReconcileTheorem == Spec => ReconcileDone
<1>1. Inv /\ [Next]_vars =>
        [phase = "reconcile" /\ script /\ phase' = "start" =>
           \A a \in Apps \ failed : image[a] # 0 =>
             state[a].system /\ Installed(a) /\ state[a].serial >= image[a]]_vars
  <2> SUFFICES ASSUME Inv, Next, phase = "reconcile", script, phase' = "start", NEW a \in Apps \ failed
               PROVE  Reconciled(a)
    BY DEF Reconciled
  <2>1. todo = {}
    BY ScriptEnds
  <2> QED
    BY <2>1 DEF Inv, Visits
<1> QED
  BY <1>1, Invariance, PTL DEF Spec, ReconcileDone

\* An operation that fails and whose way back does not fail leaves its app as it found it.
THEOREM FailureTheorem == Spec => FailureUndone
<1>1. ASSUME Inv, Next, pc = "putback", pc' = "idle", faults' = faults, op.app \notin suspect'
      PROVE  /\ state'[op.app] = op.old /\ frontend' = op.web
             /\ runtime'[op.app][Role] = op.aside
             /\ op.kind # "restore" => IF op.run THEN op.app \in running'
                                       ELSE op.started => op.app \notin running'
  <2>1. faults' # faults + 1
    BY <1>1 DEF Inv, TypeOK
  <2>2. PutBack
    <3>1. ~Operator /\ ~Scripts
      BY <1>1 DEF Operator, BeginInstall, BeginUpdate, BeginRemove, OperateService, Scripts, BeginScript, SkipScript,
         EndScript, RestoreNothing, RestoreRetained, BeginRestore, SeedInstall, SeedUpdate, Promote, StartInstalled,
         Begin, Visit
    <3>2. ~StepFails /\ ~Kill /\ ~PowerLoss /\ ~Reboot /\ ~Boot
      BY <1>1, <2>1 DEF StepFails, FailOutright, FailNew, FailWriting, FailCommit, FailUndo, FailDiscard, FailPutBack,
         FailUninstall, FailDelete, FailForget, FailVisit, Kill, PowerLoss, Reboot, Boot, Fault, Inv, BootInv
    <3>3. Progress => PutBack
      BY <1>1 DEF Progress, Stop, SetAside, Place, ServiceAction, Start, Select, Detach, Commit, Mark, Undo, Discard,
         Uninstall, Hide, Delete, Unmark, Deselect, At
    <3> QED
      BY <1>1, <3>1, <3>2, <3>3 DEF Next
  <2>3. /\ Fail /\ UNCHANGED <<state, frontend, marker>>
        /\ \/ (op.aside = Absent \/ Current # Absent) /\ UNCHANGED <<runtime, running>>
           \/ /\ op.aside # Absent /\ Current = Absent /\ SetCurrent(op.aside)
              /\ running' = IF op.run THEN running \cup {op.app} ELSE running
    BY <2>2 DEF PutBack
  <2>4. op.app \notin suspect
    BY <1>1, <2>3 DEF Fail
  <2>5. /\ state[op.app] = op.old /\ frontend = op.web /\ Current = Absent /\ Kinds /\ ServiceStep
    BY <1>1, <2>4 DEF Inv, OpInv, StateStep, FrontendStep, RuntimeStep, Undoing
  <2>6. runtime'[op.app][Role] = op.aside
    BY <1>1, <2>3, <2>5, Operation, SetsCurrent DEF Current
  <2>7. op.run => op.aside # Absent
    BY <1>1, <2>5 DEF ServiceStep, Former, Before
  <2>8. op.started => op.app \notin running
    BY <1>1, <2>5 DEF ServiceStep
  <2> QED
    BY <2>3, <2>5, <2>6, <2>7, <2>8
<1>2. Inv /\ [Next]_vars =>
        [pc = "putback" /\ pc' = "idle" /\ faults' = faults /\ op.app \notin suspect' =>
           /\ state'[op.app] = op.old /\ frontend' = op.web
           /\ runtime'[op.app][Role] = op.aside
           /\ op.kind # "restore" => IF op.run THEN op.app \in running'
                                     ELSE op.started => op.app \notin running']_vars
  BY <1>1
<1> QED
  BY <1>2, Invariance, PTL DEF Spec, FailureUndone
=============================================================================
