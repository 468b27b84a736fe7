------------------------ MODULE DisplaySwitchProofs ------------------------
(* Proofs about DisplaySwitch, for any frontends, faults, operations and reboots.  An operation *)
(* that crosses the boot's start of the display leaves only the types; the first one after it   *)
(* that finds nothing running establishes the rest again.                                       *)
EXTENDS DisplaySwitch, TLAPS

USE DEF scripts, bounds, vars, Callers

-----------------------------------------------------------------------------
(* The invariants. *)

\* Package-core and the boot take turns.
Turns ==
  /\ script["boot"] # "idle" => op = Idle
  /\ op.pc \in {"idle", "selection", "recover", "removed"} => script["core"] = "idle"

\* Nothing runs but the selected frontend, and nothing else has tty7.
Only == live \subseteq {sel} /\ (tty = None \/ tty \in live)

\* The script starts a frontend only when none runs.
StartsOnNone == \A c \in Callers : script[c] \in {"start", "check", "prepare", "launch"} => live = {}

\* What the status file says between two runs of the script.
StatusTrue ==
  (\A c \in Callers : script[c] = "idle") =>
    live = {} \/ status = "stop-failed" \/ (status = "active" /\ Shown)

\* Package-core changes the selection, and what is installed, only when nothing runs.
AfterStop ==
  /\ op.pc \in {"selection", "removed"} => live = {}
  /\ op.pc \in {"stopped", "recStopped", "dStopped", "uStopped", "rStopped"} =>
       /\ script["core"] \in {"stop", "kill", "idle"}
       /\ script["core"] = "idle" /\ code => live = {}

\* Failures of the operation.
Failed == faults - op.faults

\* A switch that FailedSwitchRestores speaks of.
Switching == op.what = "select" /\ op.previous # op.app /\ Restorable /\ ~died /\ Failed <= 1

\* The selected frontend is about to have tty7.
Rises == sel \in live /\ sel \notin hung

\* The new frontend is stopped for, started, and found to have failed.
WayThere ==
  /\ op.pc = "stopped" => sel = op.previous /\ sel # None
  /\ op.pc = "stopped" /\ script["core"] = "stop" => Failed = 0 /\ (live = {} \/ Shown)
  /\ op.pc = "stopped" /\ script["core"] = "kill" => Failed = 0 /\ Shown
  /\ op.pc = "stopped" /\ script["core"] = "idle" =>
       IF code THEN Failed = 0 /\ status = "stopped" ELSE Shown
  /\ op.pc = "selection" => sel = op.previous /\ Failed = 0 /\ status # "stop-failed"
  /\ op.pc = "started" => sel = op.app /\ script["core"] \notin {"stop", "kill"}
  /\ op.pc = "started" /\ script["core"] \in {"start", "check", "prepare", "launch"} => Failed = 0
  /\ op.pc = "started" /\ script["core"] = "ready" => Failed = 1 \/ Rises
  /\ op.pc = "started" /\ script["core"] = "undo" => Failed = 1
  /\ op.pc = "started" /\ script["core"] = "idle" =>
       \/ status = "active" /\ Shown
       \/ Failed = 1 /\ live = {} /\ status # "stop-failed"

\* The way back: it meets no further failure.
WayBack ==
  /\ op.pc = "recover" => Failed = 1 /\ live = {} /\ status # "stop-failed"
  /\ op.pc = "recStopped" =>
       /\ Failed = 1 /\ live = {} /\ script["core"] # "kill"
       /\ script["core"] = "idle" => code /\ status = "stopped"
  /\ op.pc = "recStarted" =>
       /\ Failed = 1 /\ sel = op.previous
       /\ script["core"] \in {"start", "check", "prepare", "launch", "ready", "idle"}
       /\ script["core"] \in {"check", "prepare", "launch"} => sel # None
       /\ script["core"] = "ready" => Rises
       /\ script["core"] = "idle" => sel = None \/ Shown
  /\ op.pc = "idle" => IF sel = None THEN op.previous = None ELSE Shown

\* The steps of a switch, the app it is for, and where it is.
Switch ==
  op.what = "select" =>
    /\ op.app \in installed /\ op.faults <= faults
    /\ op.pc \in {"idle", "selection", "same", "stopped", "started", "recover", "recStopped", "recStarted"}
    /\ op.pc = "same" => op.previous = op.app
    /\ Switching => WayThere /\ WayBack

\* What holds as long as operations and the boot have not crossed.
Inv == TypeOK /\ Turns /\ Only /\ StartsOnNone /\ StatusTrue /\ AfterStop /\ Switch

\* The inductive invariant.
Steady == TypeOK /\ (crossed \/ Inv)

-----------------------------------------------------------------------------
(* Initially. *)

LEMMA InvInit == Init => Inv
<1> SUFFICES ASSUME Init PROVE Inv
  OBVIOUS
<1>1. TypeOK
  <2>1. MaxFaults \in Nat /\ MaxOps \in Nat /\ MaxReboots \in Nat
    BY DisplayAssumption
  <2>2. op.faults \in 0..MaxFaults /\ op \in [what : {"none", "select", "disable", "update", "remove"}, app : Apps \cup {None},
             previous : Apps \cup {None}, ran : SUBSET Apps, pc : Steps, faults : 0..MaxFaults]
    BY <2>1 DEF Init, Idle, Steps
  <2>3. script \in [Callers -> ScriptSteps]
    BY DEF Init, ScriptSteps
  <2>4. code \in BOOLEAN /\ died \in BOOLEAN /\ crossed \in BOOLEAN
    BY DEF Init
  <2> QED
    BY <2>1, <2>2, <2>3, <2>4 DEF Init, TypeOK
<1>2. Turns /\ Only /\ StartsOnNone /\ StatusTrue /\ AfterStop
  BY DEF Init, Turns, Only, StartsOnNone, StatusTrue, AfterStop, Idle
<1>3. Switch
  BY DEF Init, Switch, Idle
<1> QED
  BY <1>1, <1>2, <1>3 DEF Inv

-----------------------------------------------------------------------------
(* The script. *)

\* What every step of the script leaves alone.
LEMMA ScriptFrame == ASSUME NEW c \in Callers, Script(c) PROVE UNCHANGED <<installed, sel, op, bounds>>
BY DEF Script, ScriptStart, ScriptCheck, ScriptPrepare, ScriptLaunch, ScriptReady, ScriptUndo, ScriptStop, ScriptKill


\* A fault stays within its bound.
LEMMA FaultType == ASSUME TypeOK, Fault PROVE faults' = faults + 1 /\ faults' \in 0..MaxFaults
<1>1. MaxFaults \in Nat
  BY DisplayAssumption
<1> QED
  BY <1>1 DEF TypeOK, Fault

\* Every step of the script keeps the types.
LEMMA ScriptType == ASSUME TypeOK, NEW c \in Callers, Script(c) PROVE TypeOK'
<1> USE DisplayAssumption DEF TypeOK
<1>0. \A s \in ScriptSteps : Goes(c, s) => script' \in [Callers -> ScriptSteps]
  BY DEF Goes
<1>f. Fault => faults' \in 0..MaxFaults
  BY FaultType
<1>1. CASE ScriptStart(c)
  <2>1. /\ script' \in [Callers -> ScriptSteps] /\ status' \in {status, "disabled", "unavailable"} /\ code' \in BOOLEAN
        /\ faults' \in 0..MaxFaults
    BY <1>0, <1>f, <1>1 DEF ScriptStart, Ends, ScriptSteps
  <2> QED
    BY <1>1, <2>1 DEF ScriptStart
<1>2. CASE ScriptCheck(c)
  <2>1. script' \in [Callers -> ScriptSteps] /\ status' \in {status, "active"} /\ code' \in BOOLEAN
    BY <1>0, <1>2 DEF ScriptCheck, Ends, ScriptSteps
  <2> QED
    BY <1>2, <2>1 DEF ScriptCheck
<1>3. CASE ScriptPrepare(c)
  BY <1>0, <1>f, <1>3 DEF ScriptPrepare, Ends, ScriptSteps
<1>4. CASE ScriptLaunch(c)
  BY <1>0, <1>f, <1>4 DEF ScriptLaunch, ScriptSteps
<1>5. CASE ScriptReady(c)
  <2>1. script' \in [Callers -> ScriptSteps] /\ status' \in {status, "active"} /\ code' \in BOOLEAN
    BY <1>0, <1>5 DEF ScriptReady, Ends, ScriptSteps
  <2> QED
    BY <1>5, <2>1 DEF ScriptReady
<1>6. CASE ScriptUndo(c)
  BY <1>0, <1>f, <1>6 DEF ScriptUndo, Ends, ScriptSteps, Quiet
<1>7. CASE ScriptStop(c)
  <2>1. /\ script' \in [Callers -> ScriptSteps] /\ status' \in {status, "stopped"} /\ code' \in BOOLEAN
        /\ tty' \in {tty, None}
    BY <1>0, <1>7 DEF ScriptStop, Ends, ScriptSteps
  <2>2. UNCHANGED <<installed, sel, live, hung, op, faults, bounds>>
    BY <1>7 DEF ScriptStop
  <2> QED
    BY <2>1, <2>2
<1>8. CASE ScriptKill(c)
  BY <1>0, <1>f, <1>8 DEF ScriptKill, Ends, ScriptSteps, Quiet
<1> QED
  BY <1>1, <1>2, <1>3, <1>4, <1>5, <1>6, <1>7, <1>8 DEF Script

\* The other caller is not in the script.
LEMMA OneScript ==
  ASSUME TypeOK, Turns, NEW c \in Callers, script[c] # "idle"
  PROVE  \A d \in Callers \ {c} : script[d] = "idle"
BY DEF Turns, Idle

\* Nor does a step of the one begin the script of the other.
LEMMA ScriptTurns ==
  ASSUME TypeOK, Turns, NEW c \in Callers, Script(c)
  PROVE  Turns' /\ \A d \in Callers \ {c} : script'[d] = script[d]
<1>1. script[c] # "idle" /\ \A d \in Callers \ {c} : script'[d] = script[d]
  BY DEF TypeOK, Script, ScriptStart, ScriptCheck, ScriptPrepare, ScriptLaunch, ScriptReady, ScriptUndo, ScriptStop,
         ScriptKill, Goes, Ends
<1>2. op' = op
  BY ScriptFrame
<1> QED
  BY <1>1, <1>2 DEF Turns, Idle

\* What the script keeps of Only, StartsOnNone and StatusTrue.
LEMMA ScriptQuiet == ASSUME Inv, NEW c \in Callers, Script(c) PROVE Only' /\ StartsOnNone' /\ StatusTrue'
<1>1. TypeOK /\ TypeOK' /\ sel' = sel /\ installed' = installed
  BY ScriptType, ScriptFrame DEF Inv
<1>2. script[c] # "idle"
  BY DEF Script, ScriptStart, ScriptCheck, ScriptPrepare, ScriptLaunch, ScriptReady, ScriptUndo, ScriptStop, ScriptKill
<1>3. \A d \in Callers \ {c} : script'[d] = "idle"
  BY <1>2, ScriptTurns, OneScript DEF Inv
<1>4. script \in [Callers -> ScriptSteps]
  BY <1>1 DEF TypeOK
<1>5. live \subseteq {sel} /\ (tty = None \/ tty \in live) /\ None \notin live
  BY <1>1, DisplayAssumption DEF Inv, Only, TypeOK
<1>6. script[c] \in {"start", "check", "prepare", "launch"} => live = {}
  BY DEF Inv, StartsOnNone
<1> DEFINE Good == /\ live' \subseteq {sel} /\ (tty' = None \/ tty' \in live')
                   /\ script'[c] \in {"start", "check", "prepare", "launch"} => live' = {}
                   /\ script'[c] = "idle" => live' = {} \/ status' = "stop-failed" \/ (status' = "active" /\ Shown')
<1>7. Good
  <2>1. CASE ScriptStart(c)
    BY <1>4, <1>5, <1>6, <2>1 DEF ScriptStart, Ends, Goes
  <2>2. CASE ScriptCheck(c)
    BY <1>4, <1>5, <1>6, <2>2 DEF ScriptCheck, Ends, Shown, Running, Goes
  <2>3. CASE ScriptPrepare(c)
    BY <1>4, <1>5, <1>6, <2>3 DEF ScriptPrepare, Ends, Goes
  <2>4. CASE ScriptLaunch(c)
    BY <1>4, <1>5, <1>6, <2>4 DEF ScriptLaunch, Goes
  <2>5. CASE ScriptReady(c)
    BY <1>4, <1>5, <2>5 DEF ScriptReady, Ends, Shown, Running, Goes
  <2>6. CASE ScriptUndo(c)
    BY <1>4, <1>5, <2>6 DEF ScriptUndo, Ends, Quiet, Goes
  <2>7. CASE ScriptStop(c)
    BY <1>4, <1>5, <2>7 DEF ScriptStop, Ends, Running, Goes
  <2>8. CASE ScriptKill(c)
    BY <1>4, <1>5, <2>8 DEF ScriptKill, Ends, Quiet, Goes
  <2> QED
    BY <2>1, <2>2, <2>3, <2>4, <2>5, <2>6, <2>7, <2>8 DEF Script
<1>8. Only'
  BY <1>1, <1>7 DEF Only
<1>9. StartsOnNone'
  BY <1>3, <1>7 DEF StartsOnNone
<1>10. StatusTrue'
  BY <1>7 DEF StatusTrue
<1> QED
  BY <1>8, <1>9, <1>10

\* A stop of the script that succeeds leaves nothing running.
LEMMA ScriptStopped == ASSUME Inv, NEW c \in Callers, Script(c) PROVE AfterStop'
<1>1. TypeOK /\ TypeOK' /\ sel' = sel /\ installed' = installed /\ op' = op
  BY ScriptType, ScriptFrame DEF Inv
<1>2. script[c] # "idle"
  BY DEF Script, ScriptStart, ScriptCheck, ScriptPrepare, ScriptLaunch, ScriptReady, ScriptUndo, ScriptStop, ScriptKill
<1>3. CASE c = "boot"
  <2>1. op' = Idle
    BY <1>1, <1>2, <1>3 DEF Inv, Turns
  <2> QED
    BY <2>1 DEF AfterStop, Idle
<1>4. CASE c = "core"
  <2>1. op.pc \notin {"selection", "removed"}
    BY <1>2, <1>4 DEF Inv, Turns
  <2>2. live \subseteq {sel} /\ None \notin live
    BY <1>1, DisplayAssumption DEF Inv, Only, TypeOK
  <2>3. script \in [Callers -> ScriptSteps]
    BY <1>1 DEF TypeOK
  <2>4. CASE op.pc \in {"stopped", "recStopped", "dStopped", "uStopped", "rStopped"}
    <3>1. ScriptStop("core") \/ ScriptKill("core")
      BY <1>2, <1>4, <2>4 DEF Inv, AfterStop, Script, ScriptStart, ScriptCheck, ScriptPrepare, ScriptLaunch, ScriptReady,
        ScriptUndo, ScriptStop, ScriptKill
    <3>2. script'["core"] \in {"kill", "idle"} /\ (script'["core"] = "idle" /\ code' => live' = {})
      <4>1. CASE ScriptStop("core")
        BY <1>4, <2>2, <2>3, <4>1 DEF ScriptStop, Ends, Running, Goes
      <4>2. CASE ScriptKill("core") /\ Quiet /\ Goes("core", "idle")
        BY <2>2, <2>3, <4>2 DEF Quiet, Goes
      <4>3. CASE code' = FALSE /\ Goes("core", "idle")
        BY <2>3, <4>3 DEF Goes
      <4> QED
        BY <3>1, <4>1, <4>2, <4>3 DEF ScriptKill, Ends
    <3> QED
      BY <1>1, <2>1, <3>2 DEF AfterStop
  <2> QED
    BY <1>1, <2>1, <2>4 DEF AfterStop
<1> QED
  BY <1>3, <1>4

\* What the script keeps of a switch.
LEMMA ScriptSwitch == ASSUME Inv, NEW c \in Callers, Script(c) PROVE Switch'
<1>1. TypeOK /\ TypeOK' /\ UNCHANGED <<installed, sel, op, bounds>>
  BY ScriptType, ScriptFrame DEF Inv
<1>2. script[c] # "idle"
  BY DEF Script, ScriptStart, ScriptCheck, ScriptPrepare, ScriptLaunch, ScriptReady, ScriptUndo, ScriptStop, ScriptKill
<1>3. CASE c = "boot"
  <2>1. op' = Idle
    BY <1>1, <1>2, <1>3 DEF Inv, Turns
  <2> QED
    BY <2>1 DEF Switch, Idle
<1>4. CASE c = "core" /\ op.what = "select"
  <2>1. /\ op.app \in installed /\ op.faults <= faults
        /\ op.pc \in {"idle", "selection", "same", "stopped", "started", "recover", "recStopped", "recStarted"}
        /\ op.pc = "same" => op.previous = op.app
        /\ Switching => WayThere /\ WayBack
    BY <1>4 DEF Inv, Switch
  <2>2. faults \in Nat /\ op.faults \in Nat /\ (faults' = faults \/ (Fault /\ faults' = faults + 1))
    BY <1>1 DEF TypeOK, Script, ScriptStart, ScriptCheck, ScriptPrepare, ScriptLaunch, ScriptReady, ScriptUndo, ScriptStop,
      ScriptKill, Fault
  <2>3. SUFFICES ASSUME Switching' PROVE (WayThere /\ WayBack)'
    BY <1>1, <2>1, <2>2 DEF Switch
  <2>4. Switching /\ (faults' = faults + 1 => Failed = 0)
    BY <1>1, <2>1, <2>2, <2>3 DEF Switching, Failed, Restorable
  <2>5. WayThere /\ WayBack
    BY <2>1, <2>4
  <2>6. op.pc \in {"same", "stopped", "started", "recStopped", "recStarted"}
    BY <1>2, <1>4, <2>1 DEF Inv, Turns
  <2>7. op.pc # "same"
    BY <2>1, <2>4 DEF Switching
  <2>8. script \in [Callers -> ScriptSteps]
    BY <1>1 DEF TypeOK
  <2>9. live \subseteq {sel} /\ hung \subseteq live /\ None \notin live /\ (tty = None \/ tty \in live)
    BY <1>1, DisplayAssumption DEF TypeOK, Inv, Only
  <2>10. script["core"] \in {"start", "check", "prepare", "launch"} => live = {}
    BY DEF Inv, StartsOnNone
  <2>11. CASE op.pc = "stopped"
    <3>1. script["core"] \in {"stop", "kill"} /\ sel = op.previous /\ sel # None
      BY <1>2, <1>4, <2>5, <2>11 DEF Inv, AfterStop, WayThere
    <3>2. CASE ScriptStop("core")
      <4>1. Failed = 0 /\ (live = {} \/ Shown)
        BY <2>5, <2>11, <3>2 DEF WayThere, ScriptStop
      <4> QED
        BY <1>1, <2>8, <2>9, <2>11, <3>1, <3>2, <4>1 DEF ScriptStop, Ends, Goes, WayThere, WayBack, Failed, Running, Shown
    <3>3. CASE ScriptKill("core")
      <4>1. Failed = 0 /\ Shown
        BY <2>5, <2>11, <3>3 DEF WayThere, ScriptKill
      <4> QED
        BY <1>1, <2>8, <2>9, <2>11, <3>1, <3>3, <4>1 DEF ScriptKill, Ends, Goes, WayThere, WayBack, Failed, Running, Shown, Quiet
    <3> QED
      BY <1>4, <3>1, <3>2, <3>3 DEF Script, ScriptStart, ScriptCheck, ScriptPrepare, ScriptLaunch, ScriptReady, ScriptUndo
  <2>12. CASE op.pc = "started"
    <3>1. sel = op.app /\ sel \in installed /\ sel # None /\ script["core"] \notin {"stop", "kill"}
      BY <1>1, <2>1, <2>5, <2>12, DisplayAssumption DEF WayThere, TypeOK
    <3>2. CASE script["core"] \in {"start", "check", "prepare", "launch"}
      <4>1. Failed = 0 /\ live = {}
        BY <2>5, <2>10, <2>12, <3>2 DEF WayThere
      <4>2. CASE ScriptStart("core")
        BY <1>1, <2>2, <2>8, <2>9, <2>12, <3>1, <4>1, <4>2 DEF Fault, ScriptStart, Ends, Goes, WayThere, WayBack, Failed
      <4>3. CASE ScriptCheck("core")
        BY <1>1, <2>2, <2>8, <2>9, <2>12, <3>1, <4>1, <4>3 DEF ScriptCheck, Ends, Goes, WayThere, WayBack, Failed, Shown, Running
      <4>4. CASE ScriptPrepare("core")
        BY <1>1, <2>2, <2>8, <2>9, <2>12, <3>1, <4>1, <4>4 DEF Fault, ScriptPrepare, Ends, Goes, WayThere, WayBack, Failed
      <4>5. CASE ScriptLaunch("core")
        BY <1>1, <2>2, <2>8, <2>9, <2>12, <3>1, <4>1, <4>5 DEF Fault, ScriptLaunch, Goes, WayThere, WayBack, Failed, Rises
      <4> QED
        BY <1>4, <3>2, <4>2, <4>3, <4>4, <4>5 DEF Script, ScriptReady, ScriptUndo, ScriptStop, ScriptKill
    <3>3. CASE ScriptReady("core")
      <4>1. Failed = 1 \/ Rises
        BY <2>5, <2>12, <3>3 DEF WayThere, ScriptReady
      <4> QED
        BY <1>1, <2>2, <2>8, <2>9, <2>12, <3>1, <3>3, <4>1 DEF ScriptReady, Ends, Goes, WayThere, WayBack, Failed, Rises, Shown,
           Running
    <3>4. CASE ScriptUndo("core")
      <4>1. Failed = 1
        BY <2>5, <2>12, <3>4 DEF WayThere, ScriptUndo
      <4> QED
        BY <1>1, <2>2, <2>4, <2>8, <2>9, <2>12, <3>1, <3>4, <4>1 DEF ScriptUndo, Ends, Goes, WayThere, WayBack, Failed, Quiet, Fault
    <3> QED
      BY <1>2, <1>4, <3>1, <3>2, <3>3, <3>4 DEF Script, ScriptStart, ScriptCheck, ScriptPrepare, ScriptLaunch, ScriptStop, ScriptKill
  <2>13. CASE op.pc = "recStopped"
    <3>1. Failed = 1 /\ live = {} /\ script["core"] = "stop"
      BY <1>2, <1>4, <2>5, <2>13 DEF Inv, AfterStop, WayBack
    <3>2. ScriptStop("core")
      BY <1>4, <3>1 DEF Script, ScriptStart, ScriptCheck, ScriptPrepare, ScriptLaunch, ScriptReady, ScriptUndo, ScriptStop, ScriptKill
    <3> QED
      BY <1>1, <2>8, <2>9, <2>13, <3>1, <3>2 DEF ScriptStop, Ends, Goes, WayThere, WayBack, Failed, Running
  <2>14. CASE op.pc = "recStarted"
    <3>1. /\ Failed = 1 /\ sel = op.previous /\ sel \in installed \cup {None}
          /\ script["core"] \in {"start", "check", "prepare", "launch", "ready"}
          /\ script["core"] \in {"check", "prepare", "launch"} => sel # None
          /\ script["core"] = "ready" => Rises
      BY <1>2, <1>4, <2>4, <2>5, <2>14 DEF WayBack, Switching, Restorable
    <3>2. ~Fault /\ faults' = faults
      BY <2>2, <2>4, <3>1 DEF Fault
    <3>3. CASE ScriptStart("core")
      BY <1>1, <2>8, <2>9, <2>14, <3>1, <3>2, <3>3 DEF ScriptStart, Ends, Goes, WayThere, WayBack, Failed
    <3>4. CASE ScriptCheck("core")
      BY <1>1, <2>8, <2>9, <2>10, <2>14, <3>1, <3>4 DEF ScriptCheck, Ends, Goes, WayThere, WayBack, Failed, Shown, Running
    <3>5. CASE ScriptPrepare("core")
      BY <1>1, <2>8, <2>9, <2>14, <3>1, <3>2, <3>5 DEF ScriptPrepare, Ends, Goes, WayThere, WayBack, Failed
    <3>6. CASE ScriptLaunch("core")
      BY <1>1, <2>8, <2>9, <2>10, <2>14, <3>1, <3>2, <3>6 DEF ScriptLaunch, Goes, WayThere, WayBack, Failed, Rises
    <3>7. CASE ScriptReady("core")
      BY <1>1, <2>8, <2>9, <2>14, <3>1, <3>7 DEF ScriptReady, Ends, Goes, WayThere, WayBack, Failed, Rises, Shown, Running
    <3> QED
      BY <1>4, <3>1, <3>3, <3>4, <3>5, <3>6, <3>7 DEF Script, ScriptUndo, ScriptStop, ScriptKill
  <2> QED
    BY <2>6, <2>7, <2>11, <2>12, <2>13, <2>14
<1>5. CASE op.what # "select"
  BY <1>1, <1>5 DEF Switch
<1> QED
  BY <1>3, <1>4, <1>5

LEMMA ScriptNext == ASSUME Inv, NEW c \in Callers, Script(c) PROVE Inv'
BY ScriptType, ScriptTurns, ScriptQuiet, ScriptStopped, ScriptSwitch DEF Inv

-----------------------------------------------------------------------------
(* Package-core. *)

\* A step of package-core goes on to another step, and may call the script, or returns.
LEMMA CoreFrame ==
  ASSUME TypeOK, Core
  PROVE  /\ TypeOK' /\ UNCHANGED <<live, hung, tty, status, code, bounds>>
         /\ op' = [op EXCEPT !.pc = op'.pc] /\ op'.pc \in Steps /\ script["core"] = "idle" /\ op.pc # "idle"
         /\ script' = script \/ script' = [script EXCEPT !["core"] = "start"] \/ script' = [script EXCEPT !["core"] = "stop"]
         /\ faults' = faults \/ faults' = faults + 1
<1> USE DEF Core, Others, CoreAt, Continue, Call, Return
<1>1. UNCHANGED <<live, hung, tty, status, code, bounds>> /\ script["core"] = "idle" /\ op.pc # "idle"
  BY DEF SwitchStopped, SwitchSelect, SwitchStarted, SwitchRecover, SwitchRestore, DisableStopped, UpdateStopped, RemoveStopped,
    RemoveSelection, Last
<1>2. \E s \in Steps : op' = [op EXCEPT !.pc = s]
  BY DEF SwitchStopped, SwitchSelect, SwitchStarted, SwitchRecover, SwitchRestore, DisableStopped, UpdateStopped, RemoveStopped,
    RemoveSelection, Last, Steps
<1>3. script' = script \/ script' = [script EXCEPT !["core"] = "start"] \/ script' = [script EXCEPT !["core"] = "stop"]
  BY DEF SwitchStopped, SwitchSelect, SwitchStarted, SwitchRecover, SwitchRestore, DisableStopped, UpdateStopped, RemoveStopped,
    RemoveSelection, Last
<1>4. faults' = faults \/ Fault
  BY DEF SwitchStopped, SwitchSelect, SwitchStarted, SwitchRecover, SwitchRestore, DisableStopped, UpdateStopped, RemoveStopped,
    RemoveSelection, Last
<1>5. sel' \in {sel, None, op.app, op.previous}
  BY DEF SwitchStopped, SwitchSelect, SwitchStarted, SwitchRecover, SwitchRestore, DisableStopped, UpdateStopped, RemoveStopped,
    RemoveSelection, Last
<1>6. installed' \in {installed, installed \ {op.app}}
  BY DEF SwitchStopped, SwitchSelect, SwitchStarted, SwitchRecover, SwitchRestore, DisableStopped, UpdateStopped, RemoveStopped,
    RemoveSelection, Last
<1>7. op \in [what : {"none", "select", "disable", "update", "remove"}, app : Apps \cup {None},
             previous : Apps \cup {None}, ran : SUBSET Apps, pc : Steps, faults : 0..MaxFaults]
  BY DEF TypeOK
<1>8. op' = [op EXCEPT !.pc = op'.pc] /\ op'.pc \in Steps
  BY <1>2, <1>7
<1>9. op' \in [what : {"none", "select", "disable", "update", "remove"}, app : Apps \cup {None},
             previous : Apps \cup {None}, ran : SUBSET Apps, pc : Steps, faults : 0..MaxFaults]
  BY <1>7, <1>8
<1>10. script' \in [Callers -> ScriptSteps]
  BY <1>3 DEF TypeOK, ScriptSteps
<1>11. faults' \in 0..MaxFaults /\ (faults' = faults \/ faults' = faults + 1)
  BY <1>4, FaultType DEF TypeOK
<1>12. sel' \in Apps \cup {None} /\ installed' \subseteq Apps
  BY <1>5, <1>6, <1>7 DEF TypeOK
<1>13. TypeOK'
  BY <1>1, <1>9, <1>10, <1>11, <1>12 DEF TypeOK
<1> QED
  BY <1>1, <1>3, <1>8, <1>11, <1>13

\* Where package-core changes something, or has it started, nothing runs.
LEMMA CoreQuiet ==
  ASSUME Inv, Core
  PROVE  /\ live = {} \/ (sel' = sel /\ installed' = installed /\ script'["core"] # "start")
         /\ op'.pc \in {"idle", "selection", "recover", "removed"} => script'["core"] = "idle"
         /\ op'.pc \in {"selection", "removed"} => live = {}
         /\ op'.pc \notin {"stopped", "dStopped", "uStopped", "rStopped"}
         /\ op'.pc = "recStopped" => script'["core"] = "stop"
<1>1. script \in [Callers -> ScriptSteps] /\ op.pc \in Steps /\ DOMAIN op = {"what", "app", "previous", "ran", "pc", "faults"}
  BY DEF Inv, TypeOK
<1>2. /\ op.pc \in {"selection", "removed"} => live = {}
      /\ op.pc \in {"stopped", "recStopped", "dStopped", "uStopped", "rStopped"} /\ script["core"] = "idle" /\ code => live = {}
  BY DEF Inv, AfterStop
<1>3. \A s \in Steps : op' = [op EXCEPT !.pc = s] => op'.pc = s
  BY <1>1
<1> USE DEF CoreAt, Continue, Call, Return, Steps
<1>4. CASE SwitchStopped
  BY <1>1, <1>2, <1>3, <1>4 DEF SwitchStopped, Confirmed
<1>5. CASE SwitchSelect
  BY <1>1, <1>2, <1>3, <1>5 DEF SwitchSelect
<1>6. CASE SwitchStarted
  BY <1>1, <1>2, <1>3, <1>6 DEF SwitchStarted
<1>7. CASE SwitchRecover
  BY <1>1, <1>2, <1>3, <1>7 DEF SwitchRecover
<1>8. CASE SwitchRestore
  BY <1>1, <1>2, <1>3, <1>8 DEF SwitchRestore, Confirmed
<1>9. CASE DisableStopped
  BY <1>1, <1>2, <1>3, <1>9 DEF DisableStopped
<1>10. CASE UpdateStopped
  BY <1>1, <1>2, <1>3, <1>10 DEF UpdateStopped
<1>11. CASE RemoveStopped
  BY <1>1, <1>2, <1>3, <1>11 DEF RemoveStopped
<1>12. CASE RemoveSelection
  BY <1>1, <1>2, <1>3, <1>12 DEF RemoveSelection
<1>13. CASE Last
  BY <1>1, <1>2, <1>3, <1>13 DEF Last
<1> QED
  BY <1>4, <1>5, <1>6, <1>7, <1>8, <1>9, <1>10, <1>11, <1>12, <1>13 DEF Core


\* What package-core keeps of the other parts.
LEMMA CoreKeeps == ASSUME Inv, Core PROVE (TypeOK /\ Turns /\ Only /\ StartsOnNone /\ StatusTrue /\ AfterStop)'
<1>1. /\ TypeOK /\ TypeOK' /\ UNCHANGED <<live, hung, tty, status, code>> /\ script["core"] = "idle" /\ op.pc # "idle"
      /\ script' = script \/ script' = [script EXCEPT !["core"] = "start"] \/ script' = [script EXCEPT !["core"] = "stop"]
  BY CoreFrame DEF Inv
<1>2. /\ live = {} \/ (sel' = sel /\ installed' = installed /\ script'["core"] # "start")
      /\ op'.pc \in {"idle", "selection", "recover", "removed"} => script'["core"] = "idle"
      /\ op'.pc \in {"selection", "removed"} => live = {}
      /\ op'.pc \notin {"stopped", "dStopped", "uStopped", "rStopped"}
      /\ op'.pc = "recStopped" => script'["core"] = "stop"
  BY CoreQuiet
<1>3. script["boot"] = "idle"
  BY <1>1 DEF Inv, Turns, Idle
<1>4. script'["boot"] = "idle" /\ script'["core"] \in {"idle", "start", "stop"} /\ (script' = script \/ script'["core"] # "idle")
  BY <1>1, <1>3 DEF TypeOK
<1>5. Turns'
  BY <1>2, <1>4 DEF Turns
<1>6. Only'
  BY <1>1, <1>2 DEF Inv, Only
<1>7. StartsOnNone'
  BY <1>1, <1>2, <1>4 DEF StartsOnNone
<1>8. StatusTrue'
  BY <1>1, <1>2, <1>4 DEF Inv, StatusTrue, Shown, Running
<1>9. AfterStop'
  BY <1>1, <1>2 DEF AfterStop
<1> QED
  BY <1>1, <1>5, <1>6, <1>7, <1>8, <1>9

\* What package-core keeps of a switch.
LEMMA CoreSwitch == ASSUME Inv, Core PROVE Switch'
<1>1. /\ TypeOK /\ TypeOK' /\ UNCHANGED <<live, hung, tty, status, code, died>> /\ script["core"] = "idle" /\ op.pc # "idle"
      /\ op' = [op EXCEPT !.pc = op'.pc] /\ op'.pc \in Steps /\ (faults' = faults \/ faults' = faults + 1)
  BY CoreFrame DEF Inv
<1>0. DOMAIN op = {"what", "app", "previous", "ran", "pc", "faults"}
  BY <1>1 DEF TypeOK
<1>2. op'.what = op.what /\ op'.app = op.app /\ op'.previous = op.previous /\ op'.faults = op.faults
  BY <1>0, <1>1
<1>5. \A s \in Steps : op' = [op EXCEPT !.pc = s] => op'.pc = s
  BY <1>0
<1>3. CASE op.what # "select"
  BY <1>2, <1>3 DEF Switch
<1>4. CASE op.what = "select"
  <2>1. /\ op.app \in installed /\ op.faults <= faults
        /\ op.pc \in {"selection", "same", "stopped", "started", "recover", "recStopped", "recStarted"}
        /\ op.pc = "same" => op.previous = op.app
        /\ Switching => WayThere /\ WayBack
    BY <1>1, <1>4 DEF Inv, Switch
  <2>2. SwitchStopped \/ SwitchSelect \/ SwitchStarted \/ SwitchRecover \/ SwitchRestore \/ (Last /\ op.pc # "last")
    BY <2>1 DEF Core, CoreAt, DisableStopped, UpdateStopped, RemoveStopped, RemoveSelection
  <2>5. installed' = installed
    BY <2>2 DEF SwitchStopped, SwitchSelect, SwitchStarted, SwitchRecover, SwitchRestore, Last
  <2>6. op'.pc \in {"idle", "selection", "started", "recover", "recStopped", "recStarted"}
    BY <1>5, <2>2 DEF SwitchStopped, SwitchSelect, SwitchStarted, SwitchRecover, SwitchRestore, Last, Continue, Call, Return, Steps
  <2>3. faults \in Nat /\ op.faults \in Nat /\ op.faults <= faults'
    BY <1>1, <2>1 DEF TypeOK
  <2>4. ASSUME Switching' PROVE (WayThere /\ WayBack)'
    <3>1. Switching /\ (faults' = faults + 1 => Failed = 0)
      <4>1. Switching
        BY <1>1, <1>2, <2>3, <2>4, <2>5 DEF Switching, Failed, Restorable
      <4>2. ASSUME faults' = faults + 1 PROVE Failed = 0
        BY <1>2, <2>1, <2>3, <2>4, <4>2 DEF Switching, Failed
      <4> QED
        BY <4>1, <4>2
    <3>2. WayThere /\ WayBack /\ op.pc # "same" /\ op.app # op.previous /\ op.previous \in installed \cup {None}
      BY <2>1, <3>1 DEF Switching, Restorable
    <3>3. script \in [Callers -> ScriptSteps]
      BY <1>1 DEF TypeOK
    <3>4. (code /\ op.pc = "stopped") \/ op.pc = "selection" => live = {}
      BY <1>1 DEF Inv, AfterStop
    <3> USE DEF CoreAt, Continue, Call, Return, Steps
    <3>5. CASE SwitchStopped
      BY <1>1, <1>2, <1>5, <2>3, <2>5, <3>2, <3>3, <3>5 DEF SwitchStopped, Confirmed, WayThere, WayBack, Failed, Shown, Running
    <3>6. CASE SwitchSelect
      BY <1>1, <1>2, <1>5, <2>3, <2>5, <3>2, <3>3, <3>4, <3>6 DEF SwitchSelect, WayThere, WayBack, Failed, Fault
    <3>7. CASE SwitchStarted
      BY <1>1, <1>2, <1>5, <2>3, <2>5, <3>2, <3>3, <3>7 DEF SwitchStarted, WayThere, WayBack, Failed, Shown, Running
    <3>8. CASE SwitchRecover
      BY <1>1, <1>2, <1>5, <2>3, <2>5, <3>2, <3>3, <3>8 DEF SwitchRecover, WayThere, WayBack, Failed
    <3>9. CASE SwitchRestore
      BY <1>1, <1>2, <1>5, <2>3, <2>5, <3>1, <3>2, <3>3, <3>9 DEF SwitchRestore, Confirmed, Restorable, WayThere, WayBack, Failed, Fault
    <3>10. CASE Last
      BY <1>1, <1>2, <1>5, <2>1, <2>3, <2>5, <3>2, <3>3, <3>10 DEF Last, WayThere, WayBack, Failed, Shown, Running
    <3> QED
      BY <2>2, <3>5, <3>6, <3>7, <3>8, <3>9, <3>10
  <2> QED
    BY <1>2, <2>1, <2>3, <2>4, <2>5, <2>6 DEF Switch
<1> QED
  BY <1>3, <1>4

LEMMA CoreNext == ASSUME Inv, Core PROVE Inv'
BY CoreKeeps, CoreSwitch DEF Inv

-----------------------------------------------------------------------------
(* The beginning of an operation. *)

\* What an operation is when it begins.
New(w, a, s) == [what |-> w, app |-> a, previous |-> sel, ran |-> live, pc |-> s, faults |-> faults]

LEMMA BeginFrame ==
  ASSUME TypeOK, NEW w \in {"select", "disable", "update", "remove"}, NEW a \in Apps, Begin(w, a)
  PROVE  /\ op.pc = "idle" /\ script["core"] = "idle" /\ died' = FALSE
         /\ UNCHANGED <<installed, sel, live, hung, tty, status, code, faults, reboots>>
         /\ \/ /\ w = "select" /\ a \in installed /\ status # "stop-failed"
               /\ \/ sel = a /\ op' = New(w, a, "idle") /\ script' = script /\ status = "active" /\ Shown
                  \/ /\ sel = a /\ ~(status = "active" /\ Shown)
                     /\ op' = New(w, a, "same") /\ script' = [script EXCEPT !["core"] = "start"]
                  \/ sel # a /\ sel = None /\ op' = New(w, a, "selection") /\ script' = script
                  \/ /\ sel # a /\ sel # None
                     /\ op' = New(w, a, "stopped") /\ script' = [script EXCEPT !["core"] = "stop"]
            \/ w = "disable" /\ op' = New(w, a, "dStopped") /\ script' = [script EXCEPT !["core"] = "stop"]
            \/ w = "update" /\ op' = New(w, a, "uStopped") /\ script' = [script EXCEPT !["core"] = "stop"]
            \/ w = "remove" /\ op' = New(w, a, "rStopped") /\ script' = [script EXCEPT !["core"] = "stop"]
<1>1. CASE w = "select"
  BY <1>1 DEF Begin, CoreAt, New
<1>2. CASE w = "disable"
  BY <1>2 DEF Begin, CoreAt, New
<1>3. CASE w = "update"
  BY <1>3 DEF Begin, CoreAt, New
<1>4. CASE w = "remove"
  BY <1>4 DEF Begin, CoreAt, New
<1> QED
  BY <1>1, <1>2, <1>3, <1>4

LEMMA BeginType ==
  ASSUME TypeOK, NEW w \in {"select", "disable", "update", "remove"}, NEW a \in Apps, Begin(w, a)
  PROVE  TypeOK'
<1>1. ops' \in 0..MaxOps
  <2>1. MaxOps \in Nat /\ ops \in 0..MaxOps
    BY DisplayAssumption DEF TypeOK
  <2>2. ops < MaxOps /\ ops' = ops + 1
    BY DEF Begin
  <2> QED
    BY <2>1, <2>2
<1>2. script' \in [Callers -> ScriptSteps]
  BY BeginFrame DEF TypeOK, ScriptSteps
<1>3. \A s \in Steps : New(w, a, s) \in [what : {"none", "select", "disable", "update", "remove"}, app : Apps \cup {None},
           previous : Apps \cup {None}, ran : SUBSET Apps, pc : Steps, faults : 0..MaxFaults]
  BY DEF TypeOK, New
<1>4. \E s \in Steps : op' = New(w, a, s)
  BY BeginFrame DEF Steps
<1>5. op' \in [what : {"none", "select", "disable", "update", "remove"}, app : Apps \cup {None},
           previous : Apps \cup {None}, ran : SUBSET Apps, pc : Steps, faults : 0..MaxFaults]
  BY <1>3, <1>4
<1>6. died' \in BOOLEAN
  BY BeginFrame
<1>7. crossed' \in BOOLEAN
  BY DEF Begin
<1>8. UNCHANGED <<installed, sel, live, hung, tty, status, code, faults, reboots>>
  BY BeginFrame
<1> QED
  BY <1>1, <1>2, <1>5, <1>6, <1>7, <1>8 DEF TypeOK

\* An operation that does not cross: the boot is through, and nothing has crossed or nothing runs.
LEMMA BeginNext ==
  ASSUME Steady, NEW w \in {"select", "disable", "update", "remove"}, NEW a \in Apps, Begin(w, a), ~crossed'
  PROVE  Inv'
<1>0. script["boot"] = "idle" /\ (Inv \/ (live = {} /\ tty = None))
  BY DEF Steady, Begin
<1>1. /\ TypeOK /\ op.pc = "idle" /\ script["core"] = "idle" /\ script["boot"] = "idle"
      /\ died' = FALSE /\ UNCHANGED <<installed, sel, live, hung, tty, status, code, faults, reboots>>
  BY <1>0, BeginFrame DEF Steady
<1>2. \/ /\ w = "select" /\ a \in installed /\ status # "stop-failed"
         /\ \/ sel = a /\ op' = New(w, a, "idle") /\ script' = script
            \/ /\ sel = a /\ ~(status = "active" /\ Shown)
               /\ op' = New(w, a, "same") /\ script' = [script EXCEPT !["core"] = "start"]
            \/ sel # a /\ sel = None /\ op' = New(w, a, "selection") /\ script' = script
            \/ sel # a /\ sel # None /\ op' = New(w, a, "stopped") /\ script' = [script EXCEPT !["core"] = "stop"]
      \/ w = "disable" /\ op' = New(w, a, "dStopped") /\ script' = [script EXCEPT !["core"] = "stop"]
      \/ w = "update" /\ op' = New(w, a, "uStopped") /\ script' = [script EXCEPT !["core"] = "stop"]
      \/ w = "remove" /\ op' = New(w, a, "rStopped") /\ script' = [script EXCEPT !["core"] = "stop"]
  BY <1>1, BeginFrame
<1>3. live = {} \/ status = "stop-failed" \/ (status = "active" /\ Shown)
  BY <1>0, <1>1 DEF Inv, StatusTrue
<1>4. live \subseteq {sel} /\ None \notin live /\ (tty = None \/ tty \in live)
  BY <1>0, <1>1, DisplayAssumption DEF Inv, Only, TypeOK
<1>5. script \in [Callers -> ScriptSteps]
  BY <1>1 DEF TypeOK
<1>6. TypeOK'
  BY <1>1, BeginType
<1> USE DEF New
<1>7. Turns'
  BY <1>1, <1>2, <1>5 DEF Turns
<1>8. Only'
  BY <1>1, <1>4 DEF Only
<1>9. StartsOnNone'
  BY <1>1, <1>2, <1>3, <1>5 DEF StartsOnNone
<1>10. StatusTrue'
  BY <1>1, <1>3 DEF StatusTrue, Shown, Running
<1>11. AfterStop'
  BY <1>1, <1>2, <1>4, <1>5 DEF AfterStop
<1>12. Switch'
  <2>1. CASE w # "select"
    BY <1>2, <2>1 DEF Switch
  <2>2. CASE w = "select"
    <3>1. faults \in Nat /\ faults - faults = 0
      BY <1>1 DEF TypeOK
    <3>2. CASE sel = a
      BY <1>1, <1>2, <2>2, <3>1, <3>2 DEF Switch, Switching
    <3>3. CASE sel # a
      BY <1>1, <1>2, <1>3, <1>5, <2>2, <3>1, <3>3 DEF Switch, Switching, WayThere, WayBack, Failed, Shown, Running
    <3> QED
      BY <3>2, <3>3
  <2> QED
    BY <2>1, <2>2
<1> QED
  BY <1>6, <1>7, <1>8, <1>9, <1>10, <1>11, <1>12 DEF Inv

-----------------------------------------------------------------------------
(* Apps and the printer. *)

LEMMA TakeTtyNext == ASSUME Inv, NEW a \in Apps, TakeTty(a) PROVE Inv'
<1>1. /\ TypeOK /\ a \in live \ hung /\ a # None /\ tty = None /\ tty' = a
      /\ UNCHANGED <<installed, sel, status, live, hung, script, code, op, faults, bounds>>
  BY DisplayAssumption DEF Inv, TakeTty
<1>2. a = sel /\ sel # None
  BY <1>1 DEF Inv, Only
<1>3. TypeOK' /\ Turns' /\ StartsOnNone' /\ AfterStop'
  BY <1>1 DEF Inv, TypeOK, Turns, StartsOnNone, AfterStop
<1>4. Only' /\ StatusTrue'
  BY <1>1, <1>2 DEF Inv, Only, StatusTrue, Shown, Running
<1>5. Switch'
  <2>1. Shown => Shown'
    BY <1>1 DEF Shown, Running
  <2>2. Switching' = Switching /\ (WayThere => WayThere') /\ (WayBack => WayBack')
    BY <1>1, <2>1 DEF Switching, Restorable, Failed, Rises, WayThere, WayBack
  <2> QED
    BY <1>1, <2>2 DEF Inv, Switch
<1> QED
  BY <1>3, <1>4, <1>5 DEF Inv

LEMMA DieNext == ASSUME Inv, NEW a \in Apps, Die(a) PROVE Inv'
<1>1. /\ TypeOK /\ a \in live /\ live' = live \ {a} /\ hung' = hung \ {a} /\ tty' = (IF tty = a THEN None ELSE tty)
      /\ died' = TRUE /\ UNCHANGED <<installed, sel, status, script, code, op, crossed, ops, reboots>>
      /\ faults' = faults + 1 /\ faults' \in 0..MaxFaults
  BY FaultType DEF Inv, Die
<1>2. live \subseteq {sel} /\ live' = {}
  BY <1>1 DEF Inv, Only
<1>3. TypeOK'
  <2>1. died' \in BOOLEAN
    BY <1>1
  <2> QED
    BY <1>1, <2>1 DEF TypeOK
<1>4. Turns' /\ StartsOnNone' /\ StatusTrue' /\ AfterStop'
  BY <1>1, <1>2 DEF Inv, Turns, StartsOnNone, StatusTrue, AfterStop
<1>5. Only'
  BY <1>1, <1>2 DEF Inv, Only
<1>6. Switch'
  <2>1. ~Switching' /\ op.faults \in Nat /\ faults \in Nat
    BY <1>1 DEF Switching, TypeOK
  <2> QED
    BY <1>1, <2>1 DEF Inv, Switch
<1> QED
  BY <1>3, <1>4, <1>5, <1>6 DEF Inv

\* A reboot ends whatever has crossed.
LEMMA RebootNext == ASSUME TypeOK, Reboot PROVE Inv'
<1>1. /\ live' = {} /\ hung' = {} /\ tty' = None /\ status' = "none" /\ op' = Idle /\ code' = TRUE /\ crossed' = FALSE
      /\ script' = [c \in Callers |-> IF c = "boot" THEN "start" ELSE "idle"]
      /\ UNCHANGED <<installed, sel, died, faults, ops>> /\ reboots < MaxReboots /\ reboots' = reboots + 1
  BY DEF Reboot
<1>2. TypeOK'
  <2>1. reboots' \in 0..MaxReboots /\ 0 \in 0..MaxFaults
    <3>1. MaxFaults \in Nat /\ MaxReboots \in Nat
      BY DisplayAssumption
    <3> QED
      BY <1>1, <3>1 DEF TypeOK
  <2>2. op' \in [what : {"none", "select", "disable", "update", "remove"}, app : Apps \cup {None},
             previous : Apps \cup {None}, ran : SUBSET Apps, pc : Steps, faults : 0..MaxFaults]
    BY <1>1, <2>1 DEF Idle, Steps
  <2>3. script' \in [Callers -> ScriptSteps]
    BY <1>1 DEF ScriptSteps
  <2>4. code' \in BOOLEAN /\ crossed' \in BOOLEAN
    BY <1>1
  <2> QED
    BY <1>1, <2>1, <2>2, <2>3, <2>4 DEF TypeOK
<1>3. Turns' /\ Only' /\ StartsOnNone' /\ StatusTrue' /\ AfterStop'
  BY <1>1 DEF Turns, Only, StartsOnNone, StatusTrue, AfterStop, Idle
<1>4. Switch'
  BY <1>1 DEF Switch, Idle
<1> QED
  BY <1>2, <1>3, <1>4 DEF Inv

LEMMA ServiceType == ASSUME TypeOK, NEW a \in Apps, ServiceByName(a) PROVE TypeOK'
<1>1. ops' \in 0..MaxOps
  <2>1. MaxOps \in Nat /\ ops \in 0..MaxOps
    BY DisplayAssumption DEF TypeOK
  <2>2. ops < MaxOps /\ ops' = ops + 1
    BY DEF ServiceByName
  <2> QED
    BY <2>1, <2>2
<1>2. live' \subseteq Apps /\ hung' \subseteq live' /\ tty' \in Apps \cup {None}
  BY DEF TypeOK, ServiceByName
<1>3. crossed' \in BOOLEAN /\ UNCHANGED <<installed, sel, status, script, code, op, died, faults, reboots>>
  BY DEF ServiceByName
<1> QED
  BY <1>1, <1>2, <1>3 DEF TypeOK

LEMMA TakeTtyType == ASSUME TypeOK, NEW a \in Apps, TakeTty(a) PROVE TypeOK'
BY DEF TypeOK, TakeTty

LEMMA DieType == ASSUME TypeOK, NEW a \in Apps, Die(a) PROVE TypeOK'
<1>1. /\ live' = live \ {a} /\ hung' = hung \ {a} /\ tty' = (IF tty = a THEN None ELSE tty)
      /\ UNCHANGED <<installed, sel, status, script, code, op, crossed, ops, reboots>> /\ faults' \in 0..MaxFaults
  BY FaultType DEF Die
<1>2. died' \in BOOLEAN
  BY DEF Die
<1> QED
  BY <1>1, <1>2 DEF TypeOK

\* Every step of the script or of package-core keeps the invariant that holds before a crossing.
LEMMA CalmNext ==
  ASSUME Inv, \/ Core
              \/ \E c \in Callers : Script(c)
              \/ \E a \in Apps : TakeTty(a) \/ Die(a)
  PROVE  Inv'
<1>1. CASE Core
  BY <1>1, CoreNext
<1>2. CASE \E c \in Callers : Script(c)
  BY <1>2, ScriptNext
<1>3. CASE \E a \in Apps : TakeTty(a) \/ Die(a)
  BY <1>3, TakeTtyNext, DieNext
<1> QED
  BY <1>1, <1>2, <1>3

\* Nothing but the beginning of an operation, a service by name and a reboot changes crossed.
LEMMA CrossedStays ==
  ASSUME TypeOK, \/ Core
                 \/ \E c \in Callers : Script(c)
                 \/ \E a \in Apps : TakeTty(a) \/ Die(a)
  PROVE  TypeOK' /\ crossed' = crossed
<1>1. CASE Core
  BY <1>1, CoreFrame
<1>2. CASE \E c \in Callers : Script(c)
  BY <1>2, ScriptType, ScriptFrame
<1>3. CASE \E a \in Apps : TakeTty(a) \/ Die(a)
  <2>1. TypeOK'
    BY <1>3, TakeTtyType, DieType
  <2>2. crossed' = crossed
    BY <1>3 DEF TakeTty, Die
  <2> QED
    BY <2>1, <2>2
<1> QED
  BY <1>1, <1>2, <1>3

\* Every step keeps the inductive invariant.
LEMMA SteadyNext == ASSUME Steady, [Next]_vars PROVE Steady'
<1>1. CASE Begins
  <2>1. PICK w \in {"select", "disable", "update", "remove"}, a \in Apps : Begin(w, a)
    BY <1>1 DEF Begins
  <2>2. TypeOK'
    BY <2>1, BeginType DEF Steady
  <2>3. crossed' \/ Inv'
    BY <2>1, BeginNext
  <2> QED
    BY <2>2, <2>3 DEF Steady
<1>2. CASE Reboot
  <2>1. Inv'
    BY <1>2, RebootNext DEF Steady
  <2> QED
    BY <2>1 DEF Steady, Inv
<1>3. CASE \E a \in Apps : ServiceByName(a)
  <2>1. TypeOK'
    BY <1>3, ServiceType DEF Steady
  <2>2. crossed'
    BY <1>3 DEF ServiceByName
  <2> QED
    BY <2>1, <2>2 DEF Steady
<1>4. CASE Core \/ (\E c \in Callers : Script(c)) \/ \E a \in Apps : TakeTty(a) \/ Die(a)
  <2>1. TypeOK' /\ crossed' = crossed
    BY <1>4, CrossedStays DEF Steady
  <2>2. Inv => Inv'
    BY <1>4, CalmNext
  <2> QED
    BY <2>1, <2>2 DEF Steady
<1>5. CASE UNCHANGED vars
  <2>1. TypeOK' /\ crossed' = crossed
    BY <1>5 DEF Steady, TypeOK
  <2>2. ASSUME Inv PROVE Turns' /\ Only' /\ StartsOnNone' /\ AfterStop'
    BY <1>5, <2>2 DEF Inv, Turns, Only, StartsOnNone, AfterStop
  <2>3. ASSUME Inv PROVE StatusTrue'
    BY <1>5, <2>3 DEF Inv, StatusTrue, Shown, Running
  <2>4. ASSUME Inv PROVE Switch'
    BY <1>5, <2>4 DEF Inv, Switch, Switching, Restorable, WayThere, WayBack, Failed, Rises, Shown, Running
  <2>5. Inv => Inv'
    BY <2>1, <2>2, <2>3, <2>4 DEF Inv
  <2> QED
    BY <2>1, <2>5 DEF Steady
<1> QED
  BY <1>1, <1>2, <1>3, <1>4, <1>5 DEF Next

-----------------------------------------------------------------------------
(* The safety properties. *)

\* The types always hold, and the rest wherever operations and the boot have not crossed.
THEOREM Invariance == Spec => []Steady
<1>1. Init => Steady
  <2>1. Inv => TypeOK
    BY DEF Inv
  <2> QED
    BY <2>1, InvInit DEF Steady
<1>2. Steady /\ [Next]_vars => Steady'
  BY SteadyNext
<1> QED
  BY <1>1, <1>2, PTL DEF Spec

\* package-core and S64fre3nder-display: between operations nothing runs but the selected
\* frontend, whatever failed in them, unless they crossed the boot or a service by name.
THEOREM SelectedTheorem == Spec => []OnlySelectedRuns
<1>1. Steady => OnlySelectedRuns
  BY DEF Steady, Inv, Only, OnlySelectedRuns
<1> QED
  BY <1>1, Invariance, PTL

\* S64fre3nder-display: where the status file says that no frontend runs, and the console is
\* drawn, none does; the same exception.
THEOREM ConsoleTheorem == Spec => []ConsoleNotOverUi
<1>1. Steady => ConsoleNotOverUi
  BY DEF Steady, Inv, StatusTrue, Settled, ConsoleNotOverUi
<1> QED
  BY <1>1, Invariance, PTL

\* switch_display: a switch with one failure ends with the new frontend or the previous one on
\* the display, or with none when there was none; the same exception.
THEOREM SwitchTheorem == Spec => []FailedSwitchRestores
<1>1. ASSUME Steady PROVE FailedSwitchRestores
  <2> SUFFICES ASSUME op.what = "select", Switching, Settled, Inv PROVE IF sel = None THEN op.previous = None ELSE Shown
    BY <1>1 DEF FailedSwitchRestores, Switching, Failed, Steady
  <2>1. WayBack /\ op.pc = "idle"
    BY DEF Inv, Switch, Settled
  <2> QED
    BY <2>1 DEF WayBack
<1> QED
  BY <1>1, Invariance, PTL
=============================================================================
