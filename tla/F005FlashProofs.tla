---------------------------- MODULE F005FlashProofs ----------------------------
(* Proofs about F005Flash, for an image of any number of chunks.                    *)
EXTENDS F005Flash, TLAPS

USE DEF vars

-----------------------------------------------------------------------------
(* The inductive invariant: what holds whoever else is on the line ... *)

\* The steps of a helper before its first request.
Before == {"gate", "gating", "probe", "probing", "reset"}

\* Who holds the port, how far a helper counts, and what the probe of one that is about to
\* reset has found.
Holders ==
  \A p \in Procs :
    /\ proc[p].pc \in Holds => uart = p
    /\ proc[p].pc \in Before \cup (Exchange \ {"data", "application"}) => proc[p].sent = 0
    /\ proc[p].pc = "data" => proc[p].sent < Chunks
    /\ proc[p].await => proc[p].pc \in Exchange
    /\ proc[p].pc = "reset" => mcu.mode = "app" /\ flash = proc[p].source /\ wire = Silence

\* The bootloader on its own.
Mcu ==
  /\ mcu.mode = "app" => mcu = App
  /\ mcu.expects = "length" => mcu.got = 0
  /\ mcu.expects = "data" => mcu.got < Chunks
  /\ wire.to = "mcu" => wire.msg \in Exchange
  /\ wire.to = "host" => wire.msg \in Replies

\* Klippy holds the port of a firmware that answers.
Running == klippy = "running" => uart = "klippy" /\ mcu.mode = "app"

\* A reset MCU that nobody greets.
Parked == mcu = Bootloader /\ wire # [to |-> "mcu", msg |-> "handshake"] /\ \A p \in Procs : proc[p].pc # "handshake"

\* Whoever relies on the target firmware.
Relied == klippy # "off" \/ \E p \in Procs : proc[p].pc = "start" \/ proc[p].result = "complete"

\* He has it, and no flasher gets through to the bootloader.
OnTarget == Relied => flash = "fre3nder" /\ (mcu.mode = "app" \/ Parked)

Base == Holders /\ Mcu /\ Running /\ UnknownKept /\ OnTarget

(* ... and what holds for a helper that is alone. *)

Alone == \A p, q \in Procs : p # q /\ Exchanging(p) => ~Exchanging(q)

\* What is on its way to the bootloader, perhaps from a helper that is gone.
Wire ==
  wire.to = "mcu" =>
    /\ wire.msg # "handshake" => mcu.mode = "boot" /\ mcu.expects # "handshake"
    /\ wire.msg = "application" => mcu.got = Chunks

\* What the bootloader expects when a request of p is on its way ...
Expected(p) ==
  /\ proc[p].pc = "handshake" => mcu.expects \in {"handshake", "command"}
  /\ proc[p].pc \in {"version", "sector", "update", "application"} => mcu.expects = "command"
  /\ proc[p].pc = "length" => mcu.expects = "length" /\ mcu.got = 0
  /\ proc[p].pc = "data" => mcu.expects = "data" /\ mcu.got = proc[p].sent
  /\ proc[p].pc = "application" => mcu.got = Chunks

\* ... and when it has accepted it.
Accepted(p) ==
  /\ proc[p].pc \in {"handshake", "version", "sector"} => mcu.expects = "command"
  /\ proc[p].pc = "update" => mcu.expects = "length" /\ mcu.got = 0
  /\ proc[p].pc = "length" => mcu.expects = "data" /\ mcu.got = 0
  /\ proc[p].pc = "data" => mcu.expects = "data" /\ mcu.got = proc[p].sent + 1

\* ... for the last chunk.
Completed(p) ==
  /\ proc[p].pc = "data" /\ mcu.expects = "command"
  /\ mcu.got = proc[p].sent + 1 /\ mcu.got = Chunks /\ flash \in {"fre3nder", "torn"}

\* A helper and the bootloader agree how far they are, until the application is started.
InStep(p) ==
  /\ mcu.mode = "boot" \/ proc[p].pc = "handshake" \/ (proc[p].pc = "application" /\ proc[p].await)
  /\ proc[p].pc = "handshake" \/ (proc[p].pc = "application" /\ proc[p].await) \/ mcu.expects # "handshake"
  /\ proc[p].pc \in {"handshake", "version", "sector"} => flash = proc[p].source
  /\ proc[p].pc = "application" => flash \in {"fre3nder", "torn"}
  /\ ~proc[p].await => Expected(p) /\ wire.to = "nobody"
  /\ wire.to = "mcu" => wire.msg = proc[p].pc /\ Expected(p)
  /\ proc[p].await /\ wire.to = "host" /\ mcu.mode = "boot" =>
       /\ wire.msg = "accepted" => Accepted(p)
       /\ wire.msg = "complete" => Completed(p)
  /\ proc[p].pc = "handshake" /\ wire.to = "host" => mcu.mode = "boot" /\ mcu.expects = "command"

Flashers == \A p \in Procs : Exchanging(p) => InStep(p)

Solo == Alone /\ Wire /\ Flashers

Inv == TypeOK /\ Base /\ (shared \/ Solo)

USE DEF Exchanging

-----------------------------------------------------------------------------
(* The initial states satisfy it. *)

LEMMA IdleProc == Idle \in Proc
BY FlashAssumption DEF Idle, Proc, Sources

\* The MCU after a reset and with a running application.
LEMMA McuValues ==
  LET States == [mode : {"app", "boot"}, expects : {"handshake", "command", "length", "data"},
                 got : 0..Chunks]
  IN  App \in States /\ Bootloader \in States
BY FlashAssumption DEF App, Bootloader

LEMMA InvInit == Init => Inv
<1> SUFFICES ASSUME Init PROVE Inv
  OBVIOUS
<1>1. TypeOK
  BY IdleProc, McuValues DEF Init, TypeOK, Silence, Exchange
<1>2. Holders /\ Alone /\ Flashers /\ UnknownKept /\ Wire
  BY DEF Init, Holders, Alone, Flashers, UnknownKept, Wire, Idle, Holds, Before, Exchange, Silence
<1>3. Mcu /\ Running
  BY FlashAssumption DEF Init, Mcu, Running, App, Bootloader, Silence
<1>4. OnTarget
  BY DEF Init, OnTarget, Relied, Idle
<1> QED
  BY <1>1, <1>2, <1>3, <1>4 DEF Inv, Base, Solo

-----------------------------------------------------------------------------
(* Steps keep the types. *)

\* A process that goes on, and one that fails.
LEMMA ProcValues ==
  ASSUME NEW state \in Proc
  PROVE  /\ \A pc \in {"idle", "start"} \cup Waits \cup Holds \cup Exchange : [state EXCEPT !.pc = pc] \in Proc
         /\ \A a \in BOOLEAN : [state EXCEPT !.await = a] \in Proc
         /\ \A n \in 0..Chunks : [state EXCEPT !.sent = n] \in Proc
         /\ \A r \in {"none", "complete", "failed"} : [state EXCEPT !.result = r] \in Proc
         /\ \A a \in BOOLEAN, n \in 0..Chunks, pc \in Exchange \cup Waits :
              [state EXCEPT !.await = a, !.sent = n, !.pc = pc] \in Proc
         /\ [Idle EXCEPT !.result = "failed"] \in Proc
<1>1. [Idle EXCEPT !.result = "failed"] \in Proc
  BY IdleProc DEF Proc
<1> QED
  BY <1>1 DEF Proc

LEMMA TypeNext == ASSUME TypeOK, Holders, Mcu, [Next]_vars PROVE TypeOK'
<1> USE DEF TypeOK
<1>f. ASSUME NEW p \in Procs, Fail(p) PROVE proc' \in [Procs -> Proc] /\ uart' \in Procs \cup {"free", "klippy"}
  BY <1>f, IdleProc, ProcValues DEF Fail, Drop
<1>g. ASSUME NEW p \in Procs, NEW pc \in {"idle", "start"} \cup Waits \cup Holds \cup Exchange, Go(p, pc)
      PROVE  proc' \in [Procs -> Proc]
  BY <1>g, ProcValues DEF Go
<1>1. CASE StartGate
  BY <1>1, IdleProc, ProcValues DEF StartGate, Waits
<1>2. ASSUME NEW s \in Sources, StartHelper(s) PROVE TypeOK'
  <2>1. [Idle EXCEPT !.pc = "probe", !.source = s] \in Proc
    BY IdleProc DEF Proc, Waits
  <2> QED
    BY <1>2, <2>1 DEF StartHelper
<1>3. ASSUME NEW p \in Procs, TakeUart(p) PROVE TypeOK'
  BY <1>3, <1>g DEF TakeUart, Waits, Holds
<1>4. ASSUME NEW p \in Procs, GiveUp(p) \/ Unidentified(p) \/ TimeOut(p) PROVE TypeOK'
  BY <1>4, <1>f DEF GiveUp, Unidentified, TimeOut
<1>5. CASE Gate
  BY <1>5, ProcValues DEF Gate, Drop, Waits
<1>6. ASSUME NEW p \in Procs, Probe(p) PROVE TypeOK'
  BY <1>6, <1>f, <1>g DEF Probe, Holds, Silence, Exchange
<1>7. ASSUME NEW p \in Procs, Reset(p) PROVE TypeOK'
  <2>1. shared' \in BOOLEAN
    BY <1>7 DEF Reset
  <2> QED
    BY <1>7, <1>f, <1>g, <2>1, McuValues DEF Reset, Exchange, Drop
<1>8. ASSUME NEW p \in Procs, Send(p) PROVE TypeOK'
  BY <1>8, ProcValues DEF Send, Silence, Exchange
<1>9. ASSUME NEW p \in Procs, Receive(p) PROVE TypeOK'
  <2>1. CASE Fits(p, wire.msg)
    <3>1. proc[p] \in Proc /\ proc[p].sent \in 0..Chunks
      BY DEF Proc
    <3>2. proc[p].pc \in Exchange
      BY <1>9 DEF Receive, Holders
    <3>3. proc[p].pc = "data" => proc[p].sent < Chunks
      BY DEF Holders
    <3>4. (IF proc[p].pc = "data" THEN proc[p].sent + 1 ELSE proc[p].sent) \in 0..Chunks
      BY <3>1, <3>3, FlashAssumption
    <3>5. (IF proc[p].pc = "data" /\ ~Last(p) THEN proc[p].pc ELSE After[proc[p].pc]) \in Exchange \cup Waits
      BY <3>2 DEF After, Exchange, Waits
    <3> DEFINE n == IF proc[p].pc = "data" THEN proc[p].sent + 1 ELSE proc[p].sent
               step == IF proc[p].pc = "data" /\ ~Last(p) THEN proc[p].pc ELSE After[proc[p].pc]
    <3>6. proc' = [proc EXCEPT ![p] = [proc[p] EXCEPT !.await = FALSE, !.sent = n, !.pc = step]]
      BY <1>9, <2>1 DEF Receive
    <3>7. n \in 0..Chunks /\ step \in Exchange \cup Waits
      BY <3>4, <3>5
    <3> HIDE DEF n, step
    <3>8. [proc[p] EXCEPT !.await = FALSE, !.sent = n, !.pc = step] \in Proc
      BY <3>1, <3>7, ProcValues
    <3>9. proc' \in [Procs -> Proc]
      BY <3>6, <3>8
    <3> QED
      BY <1>9, <2>1, <3>9 DEF Receive, Silence, Exchange
  <2>2. CASE ~Fits(p, wire.msg)
    BY <1>9, <2>2, <1>f DEF Receive, Silence, Exchange
  <2> QED
    BY <2>1, <2>2
<1>10. ASSUME NEW p \in Procs, Finish(p) PROVE TypeOK'
  <2>1. CASE Observed = "fre3nder"
    <3>1. 0 \in 0..Chunks
      BY FlashAssumption
    <3>2. \A pc \in {"start", "idle"} :
            [proc[p] EXCEPT !.pc = pc, !.sent = 0, !.result = "complete"] \in Proc
      BY <3>1 DEF Proc
    <3> QED
      BY <1>10, <2>1, <3>2 DEF Finish, Drop
  <2>2. CASE Observed # "fre3nder"
    BY <1>10, <2>2, <1>f DEF Finish
  <2> QED
    BY <2>1, <2>2
<1>11. CASE StartKlippy \/ KlippyConnects \/ FirmwareRestart \/ StopKlippy
  BY <1>11, <1>g, McuValues DEF StartKlippy, KlippyConnects, FirmwareRestart, StopKlippy, Drop, Silence, Exchange
<1>12. CASE Accepts
  <2>1. mcu.got + 1 \in 0..Chunks \/ mcu.expects # "data"
    BY FlashAssumption DEF Mcu
  <2>2. 0 \in 0..Chunks
    BY FlashAssumption
  <2>3. flash' \in Flash /\ wire' \in [to : {"nobody", "mcu", "host"}, msg : Exchange \cup Replies]
    BY <1>12 DEF Accepts, Reply, Replies, Flash, Firmware
  <2>4. mcu' \in [mode : {"app", "boot"}, expects : {"handshake", "command", "length", "data"}, got : 0..Chunks]
    BY <1>12, <2>1, <2>2, McuValues DEF Accepts
  <2> QED
    BY <1>12, <2>3, <2>4 DEF Accepts
<1>13. CASE Rejects
  BY <1>13 DEF Rejects, Reply, Replies, Flash
<1>14. CASE Lost \/ GivesUp
  BY <1>14, McuValues DEF Lost, GivesUp, Silence, Exchange
<1>16. CASE PowerCycle
  <2>1. /\ mcu' = Bootloader /\ wire' = Silence /\ proc' = [p \in Procs |-> Idle] /\ flash' = flash
        /\ uart' = "free" /\ klippy' = "off"
    BY <1>16 DEF PowerCycle
  <2>2. shared' \in BOOLEAN
    BY <1>16 DEF PowerCycle
  <2> QED
    BY <2>1, <2>2, McuValues, IdleProc DEF Silence, Exchange
<1>15. CASE UNCHANGED vars
  BY <1>15
<1> QED
  BY <1>1, <1>2, <1>3, <1>4, <1>5, <1>6, <1>7, <1>8, <1>9, <1>10, <1>11, <1>12, <1>13, <1>14, <1>15, <1>16
     DEF Next, Step

-----------------------------------------------------------------------------
(* Steps keep the rest of it. *)

\* What a process is after a failure, and when it goes on.
LEMMA Failed ==
  ASSUME TypeOK, NEW p \in Procs, Fail(p)
  PROVE  /\ proc'[p].pc = "idle" /\ proc'[p].sent = 0 /\ ~proc'[p].await /\ proc'[p].result = "failed"
         /\ \A q \in Procs : q # p => proc'[q] = proc[q]
         /\ uart' = IF uart = p THEN "free" ELSE uart
<1>1. proc'[p] = [Idle EXCEPT !.result = "failed"]
  BY DEF Fail, TypeOK
<1> QED
  BY <1>1 DEF Fail, Drop, Idle, TypeOK

LEMMA Gone ==
  ASSUME TypeOK, NEW p \in Procs, NEW pc, Go(p, pc)
  PROVE  /\ proc'[p].pc = pc /\ proc'[p].sent = proc[p].sent /\ proc'[p].await = proc[p].await
         /\ proc'[p].result = proc[p].result /\ proc'[p].source = proc[p].source
         /\ \A q \in Procs : q # p => proc'[q] = proc[q]
<1>1. proc'[p] = [proc[p] EXCEPT !.pc = pc] /\ proc[p] \in Proc
  BY DEF Go, TypeOK
<1> QED
  BY <1>1 DEF Go, TypeOK, Proc

\* What the bootloader has done when it has accepted a request, one message at a time.
LEMMA Accepting ==
  ASSUME TypeOK, Accepts
  PROVE  /\ mcu.mode = "boot" /\ wire.to = "mcu" /\ wire'.to = "host" /\ UNCHANGED <<proc, uart, klippy>>
         /\ wire.msg \in Exchange
         /\ wire.msg \in {"handshake", "version", "sector"} =>
              /\ wire'.msg = "accepted" /\ flash' = flash
              /\ mcu'.mode = "boot" /\ mcu'.expects = "command" /\ mcu'.got = mcu.got
         /\ wire.msg = "update" =>
              wire'.msg = "accepted" /\ mcu'.mode = "boot" /\ mcu'.expects = "length" /\ mcu'.got = 0
         /\ wire.msg = "length" =>
              wire'.msg = "accepted" /\ mcu'.mode = "boot" /\ mcu'.expects = "data" /\ mcu'.got = mcu.got
         /\ wire.msg = "data" =>
              /\ mcu.expects = "data" /\ mcu'.mode = "boot" /\ mcu'.got = mcu.got + 1
              /\ IF mcu.got + 1 = Chunks
                 THEN wire'.msg = "complete" /\ mcu'.expects = "command" /\ flash' \in {"fre3nder", "torn"}
                 ELSE wire'.msg = "accepted" /\ mcu'.expects = "data"
         /\ wire.msg = "application" => wire'.msg = "accepted" /\ mcu' = App /\ flash' = flash
<1>1. mcu.mode = "boot" /\ wire.to = "mcu" /\ UNCHANGED <<proc, uart, klippy>>
  BY DEF Accepts
<1>2. wire' \in [to : {"host"}, msg : {"accepted", "complete"}]
  BY DEF Accepts, Reply
<1>3. mcu \in [mode : {"app", "boot"}, expects : {"handshake", "command", "length", "data"}, got : 0..Chunks]
  BY DEF TypeOK
<1>4. CASE wire.msg = "handshake"
  <2>1. mcu' = [mcu EXCEPT !.expects = "command"] /\ wire' = [to |-> "host", msg |-> "accepted"] /\ flash' = flash
    BY <1>4 DEF Accepts, Reply
  <2> QED
    BY <1>1, <1>3, <1>4, <2>1 DEF Exchange
<1>5. CASE wire.msg \in {"version", "sector"}
  <2>1. mcu' = mcu /\ mcu.expects = "command" /\ wire' = [to |-> "host", msg |-> "accepted"] /\ flash' = flash
    BY <1>5 DEF Accepts, Reply
  <2> QED
    BY <1>1, <1>3, <1>5, <2>1 DEF Exchange
<1>6. CASE wire.msg = "update"
  <2>1. mcu' = [mcu EXCEPT !.expects = "length", !.got = 0] /\ wire' = [to |-> "host", msg |-> "accepted"]
    BY <1>6 DEF Accepts, Reply
  <2> QED
    BY <1>1, <1>3, <1>6, <2>1 DEF Exchange
<1>7. CASE wire.msg = "length"
  <2>1. mcu' = [mcu EXCEPT !.expects = "data"] /\ wire' = [to |-> "host", msg |-> "accepted"]
    BY <1>7 DEF Accepts, Reply
  <2> QED
    BY <1>1, <1>3, <1>7, <2>1 DEF Exchange
<1>8. CASE wire.msg = "data"
  <2>1. /\ mcu.expects = "data"
        /\ mcu' = [mcu EXCEPT !.got = mcu.got + 1,
                              !.expects = IF mcu.got + 1 = Chunks THEN "command" ELSE mcu.expects]
    BY <1>8 DEF Accepts
  <2>2. IF mcu.got + 1 = Chunks
        THEN wire' = [to |-> "host", msg |-> "complete"] /\ flash' \in {"fre3nder", "torn"}
        ELSE wire' = [to |-> "host", msg |-> "accepted"]
    BY <1>8 DEF Accepts, Reply
  <2>3. mcu'.mode = mcu.mode /\ mcu'.got = mcu.got + 1
        /\ mcu'.expects = IF mcu.got + 1 = Chunks THEN "command" ELSE mcu.expects
    BY <1>3, <2>1
  <2> QED
    BY <1>1, <1>2, <1>8, <2>1, <2>2, <2>3 DEF Exchange
<1>9. CASE wire.msg = "application"
  <2>1. mcu' = App /\ wire' = [to |-> "host", msg |-> "accepted"] /\ flash' = flash
    BY <1>9 DEF Accepts, Reply
  <2> QED
    BY <1>1, <1>9, <2>1 DEF Exchange
<1> QED
  BY <1>4, <1>5, <1>6, <1>7, <1>8, <1>9 DEF Accepts

\* A process that is, after its step, not at work on the MCU.
LEMMA Outside ==
  ASSUME TypeOK, Base, NEW p \in Procs, \A q \in Procs : q # p => proc'[q] = proc[q],
         UNCHANGED <<flash, mcu, klippy>>, wire' = wire \/ wire' = Silence,
         \A h \in (Procs \cup {"klippy"}) \ {p} : uart = h => uart' = h,
         proc'[p].pc \notin Exchange \cup {"reset"}, ~proc'[p].await,
         proc'[p].pc \in Holds => uart' = p,
         proc'[p].pc \in Before => proc'[p].sent = 0,
         proc'[p].pc = "start" \/ proc'[p].result = "complete" =>
           \/ proc[p].pc = "start" \/ proc[p].result = "complete"
           \/ flash = "fre3nder" /\ mcu.mode = "app"
  PROVE  Base' /\ (Solo => Solo')
<1>1. Holders'
  BY DEF Base, Holders, Exchange
<1>2. Mcu'
  BY DEF Base, Mcu, Silence
<1>3. Running'
  <2>1. p # "klippy"
    BY FlashAssumption
  <2> QED
    BY <2>1 DEF Base, Running
<1>4. UnknownKept'
  BY DEF Base, UnknownKept, Silence
<1>5. OnTarget'
  <2>1. Relied' => Relied \/ (flash = "fre3nder" /\ mcu.mode = "app")
    BY DEF Relied
  <2>2. Parked => Parked'
    BY DEF Parked, Silence, Exchange
  <2> QED
    BY <2>1, <2>2 DEF Base, OnTarget
<1>6. ASSUME Solo PROVE Solo'
  <2>1. Alone' /\ Wire'
    BY <1>6 DEF Solo, Alone, Wire, Silence
  <2>2. ASSUME NEW q \in Procs, Exchanging(q)' PROVE InStep(q)'
    <3>1. proc'[q] = proc[q] /\ InStep(q)
      BY <1>6, <2>2 DEF Solo, Flashers
    <3> QED
      BY <3>1 DEF InStep, Expected, Accepted, Completed, Silence
  <2> QED
    BY <2>1, <2>2 DEF Solo, Flashers
<1> QED
  BY <1>1, <1>2, <1>3, <1>4, <1>5, <1>6 DEF Base

\* A process that fails without doing anything to the MCU.
LEMMA FailNext ==
  ASSUME TypeOK, Base, NEW p \in Procs, Fail(p), UNCHANGED <<flash, mcu, klippy>>, wire' = wire \/ wire' = Silence
  PROVE  Base' /\ (Solo => Solo')
BY Failed, Outside DEF Exchange, Holds, Before

LEMMA GateNext == ASSUME TypeOK, Base, Gate PROVE Base' /\ (Solo => Solo')
<1>1. PICK pc \in {"start", "probe", "idle"} :
        /\ proc' = [proc EXCEPT !["boot"].pc = pc]
        /\ pc = "start" => Observed = "fre3nder"
  BY DEF Gate
<1>2. "boot" \in Procs /\ proc["boot"].pc = "gating"
  BY DEF Gate
<1>3. /\ proc'["boot"].pc = pc /\ proc'["boot"].sent = 0 /\ ~proc'["boot"].await
      /\ proc'["boot"].result = proc["boot"].result
      /\ \A q \in Procs : q # "boot" => proc'[q] = proc[q]
  BY <1>1, <1>2, Gone DEF Go, Base, Holders, Before, Exchange
<1>4. Observed = "fre3nder" => flash = "fre3nder" /\ mcu.mode = "app"
  BY DEF Observed
<1>5. UNCHANGED <<flash, mcu, wire, klippy>> /\ uart' = IF uart = "boot" THEN "free" ELSE uart
  BY DEF Gate, Drop
<1> QED
  BY <1>1, <1>2, <1>3, <1>4, <1>5, Outside DEF Exchange, Holds

LEMMA TakeUartNext == ASSUME TypeOK, Base, NEW p \in Procs, TakeUart(p) PROVE Base' /\ (Solo => Solo')
<1> DEFINE pc == CASE proc[p].pc = "gate" -> "gating"
                   [] proc[p].pc = "probe" -> "probing"
                   [] proc[p].pc = "final" -> "finishing"
<1>1. /\ pc \in {"gating", "probing", "finishing"}
      /\ pc \in Before => proc[p].pc \in Before
  BY DEF TakeUart, Waits, Before
<1>2. Go(p, pc) /\ uart = "free" /\ uart' = p /\ UNCHANGED <<flash, mcu, wire, klippy>>
  BY DEF TakeUart
<1>3. ~proc[p].await
  BY DEF TakeUart, Base, Holders, Waits, Exchange
<1>4. \A h \in Procs \cup {"klippy"} : h # "free"
  BY FlashAssumption
<1> HIDE DEF pc
<1>5. /\ proc'[p].pc = pc /\ proc'[p].sent = proc[p].sent /\ ~proc'[p].await
      /\ proc'[p].result = proc[p].result /\ \A q \in Procs : q # p => proc'[q] = proc[q]
  BY <1>2, <1>3, Gone
<1>6. proc'[p].pc \notin Exchange \cup {"reset", "start"}
  BY <1>1, <1>5 DEF Exchange
<1>7. proc'[p].pc \in Before => proc'[p].sent = 0
  BY <1>1, <1>5 DEF Base, Holders
<1> QED
  BY <1>2, <1>4, <1>5, <1>6, <1>7, Outside

\* The probe has found the source, whoever else is at work.
LEMMA ProbeNext == ASSUME TypeOK, Base, NEW p \in Procs, Probe(p), ~Fail(p) PROVE Base' /\ (Solo => Solo')
<1>1. proc[p].pc = "probing" /\ mcu.mode = "app" /\ flash = proc[p].source /\ flash \in Sources
  BY DEF Probe, Observed, TypeOK, Proc
<1>2. Go(p, "reset") /\ wire' = Silence /\ UNCHANGED <<flash, mcu, uart, klippy>>
  BY DEF Probe
<1>3. /\ proc'[p].pc = "reset" /\ proc'[p].sent = 0 /\ ~proc'[p].await
      /\ proc'[p].result = proc[p].result /\ proc'[p].source = proc[p].source
      /\ \A q \in Procs : q # p => proc'[q] = proc[q]
  BY <1>1, <1>2, Gone DEF Base, Holders, Before, Exchange
<1>4. uart = p
  BY <1>1 DEF Base, Holders, Holds
<1>5. Holders'
  BY <1>1, <1>2, <1>3, <1>4 DEF Base, Holders, Exchange
<1>6. Mcu' /\ Running' /\ UnknownKept'
  BY <1>1, <1>2, <1>3 DEF Base, Mcu, Running, UnknownKept, Silence, Exchange
<1>7. OnTarget'
  <2>1. Relied' => Relied
    BY <1>2, <1>3 DEF Relied
  <2> QED
    BY <1>1, <1>2, <2>1 DEF Base, OnTarget
<1>8. ASSUME Solo PROVE Solo'
  <2>1. Alone' /\ Wire'
    BY <1>2, <1>3, <1>8 DEF Solo, Alone, Wire, Silence, Exchange
  <2>2. ASSUME NEW q \in Procs, Exchanging(q)' PROVE InStep(q)'
    <3>1. proc'[q] = proc[q] /\ InStep(q)
      BY <1>3, <1>8, <2>2 DEF Solo, Flashers, Exchange
    <3> QED
      BY <1>2, <3>1 DEF InStep, Expected, Accepted, Completed, Silence
  <2> QED
    BY <2>1, <2>2 DEF Solo, Flashers
<1> QED
  BY <1>5, <1>6, <1>7, <1>8 DEF Base

\* A reset, heard or not, seen or not.
LEMMA ResetNext == ASSUME TypeOK, Base, NEW p \in Procs, Reset(p) PROVE Base' /\ (shared' \/ Solo')
<1>1. /\ proc[p].pc = "reset" /\ (Go(p, "handshake") \/ Fail(p)) /\ mcu' \in {mcu, Bootloader}
      /\ shared' = (\E q \in Procs \ {p} : Exchanging(q)) /\ UNCHANGED <<flash, wire, klippy>>
  BY DEF Reset
<1>2. /\ uart = p /\ mcu = App /\ flash = proc[p].source /\ flash \in Sources /\ proc[p].sent = 0
      /\ ~proc[p].await /\ wire = Silence
  BY <1>1 DEF Base, Holders, Holds, Before, Exchange, Mcu, TypeOK, Proc
<1>3. uart' = "free"
  BY <1>2 DEF Reset, Drop, Fail
<1>4. /\ proc'[p].pc \in {"handshake", "idle"} /\ proc'[p].sent = 0 /\ ~proc'[p].await
      /\ proc'[p].pc = "handshake" => proc'[p].source = proc[p].source
      /\ proc'[p].result = "complete" => proc[p].result = "complete"
      /\ \A q \in Procs : q # p => proc'[q] = proc[q]
  <2>1. CASE Go(p, "handshake")
    BY <1>2, <2>1, Gone
  <2>2. CASE Fail(p)
    BY <2>2, Failed
  <2> QED
    BY <1>1, <2>1, <2>2
<1>5. \A q \in Procs : q # p => proc[q].pc \notin Holds
  BY <1>2 DEF Base, Holders
<1>6. Holders'
  BY <1>4, <1>5 DEF Base, Holders, Holds, Before, Exchange
<1>7. Mcu'
  BY <1>1, <1>2, FlashAssumption DEF Mcu, App, Bootloader, Silence
<1>8. Running' /\ UnknownKept'
  <2>1. klippy # "running"
    BY <1>2, FlashAssumption DEF Base, Running
  <2> QED
    BY <1>1, <1>2, <2>1 DEF Running, UnknownKept, Sources
<1>9. OnTarget'
  <2>1. Relied' => Relied
    BY <1>1, <1>4 DEF Relied
  <2> QED
    BY <1>1, <1>2, <2>1 DEF Base, OnTarget, Sources
<1>10. ASSUME ~shared' PROVE Solo'
  <2>1. \A q \in Procs : q # p => ~Exchanging(q)'
    BY <1>1, <1>4, <1>10
  <2>2. Alone' /\ Wire'
    BY <1>1, <1>2, <2>1 DEF Alone, Wire, Silence
  <2>3. Exchanging(p)' => proc'[p].pc = "handshake"
    BY <1>4 DEF Exchange
  <2>4. Exchanging(p)' => InStep(p)'
    BY <1>1, <1>2, <1>4, <2>3 DEF InStep, Expected, App, Bootloader, Silence
  <2> QED
    BY <2>1, <2>2, <2>4 DEF Solo, Flashers
<1> QED
  BY <1>6, <1>7, <1>8, <1>9, <1>10 DEF Base

LEMMA SendNext == ASSUME TypeOK, Base, NEW p \in Procs, Send(p) PROVE Base' /\ (Solo => Solo')
<1>1. /\ proc[p].pc \in Exchange /\ ~proc[p].await /\ UNCHANGED <<flash, mcu, uart, klippy>>
      /\ wire' = IF mcu.mode = "boot" THEN [to |-> "mcu", msg |-> proc[p].pc] ELSE Silence
  BY DEF Send
<1>2. /\ proc'[p].pc = proc[p].pc /\ proc'[p].sent = proc[p].sent /\ proc'[p].await
      /\ proc'[p].result = proc[p].result /\ proc'[p].source = proc[p].source
      /\ \A q \in Procs : q # p => proc'[q] = proc[q]
  <2>1. proc[p] \in Proc /\ proc'[p] = [proc[p] EXCEPT !.await = TRUE]
    BY DEF Send, TypeOK
  <2> QED
    BY <2>1 DEF Send, TypeOK, Proc
<1>3. Holders'
  BY <1>1, <1>2 DEF Base, Holders
<1>4. Mcu' /\ Running' /\ UnknownKept'
  BY <1>1, <1>2 DEF Base, Mcu, Running, UnknownKept, Silence
<1>5. OnTarget'
  <2>1. Relied' = Relied
    BY <1>1, <1>2 DEF Relied
  <2>2. Parked => Parked'
    BY <1>1, <1>2 DEF Parked, Silence
  <2> QED
    BY <1>1, <2>1, <2>2 DEF Base, OnTarget
<1>6. ASSUME Solo PROVE Solo'
  <2>1. Alone'
    BY <1>2, <1>6 DEF Solo, Alone
  <2>2. InStep(p) /\ Expected(p)
    BY <1>1, <1>6 DEF Solo, Flashers, InStep
  <2>3. Wire'
    <3>1. CASE mcu.mode = "boot"
      BY <1>1, <2>2, <3>1 DEF Wire, InStep, Expected
    <3>2. CASE mcu.mode # "boot"
      BY <1>1, <3>2 DEF Wire, Silence
    <3> QED
      BY <3>1, <3>2
  <2>4. InStep(p)'
    <3>1. CASE mcu.mode = "boot"
      BY <1>1, <1>2, <2>2, <3>1 DEF InStep, Expected
    <3>2. CASE mcu.mode # "boot"
      BY <1>1, <1>2, <2>2, <3>2 DEF InStep, Silence
    <3> QED
      BY <3>1, <3>2
  <2> QED
    BY <1>1, <1>2, <1>6, <2>1, <2>3, <2>4 DEF Solo, Flashers, Alone
<1> QED
  BY <1>3, <1>4, <1>5, <1>6 DEF Base

LEMMA ReceiveNext == ASSUME TypeOK, Base, NEW p \in Procs, Receive(p), ~Fail(p) PROVE Base' /\ (Solo => Solo')
<1> DEFINE n == IF proc[p].pc = "data" THEN proc[p].sent + 1 ELSE proc[p].sent
           step == IF proc[p].pc = "data" /\ ~Last(p) THEN proc[p].pc ELSE After[proc[p].pc]
<1>1. /\ proc[p].await /\ wire.to = "host" /\ wire' = Silence /\ Fits(p, wire.msg)
      /\ proc' = [proc EXCEPT ![p] = [proc[p] EXCEPT !.await = FALSE, !.sent = n, !.pc = step]]
      /\ UNCHANGED <<flash, mcu, uart, klippy>>
  BY DEF Receive
<1>2. proc[p] \in Proc /\ proc[p].pc \in Exchange
  BY <1>1 DEF TypeOK, Base, Holders
<1>3. /\ proc'[p].pc = step /\ proc'[p].sent = n /\ ~proc'[p].await
      /\ proc'[p].result = proc[p].result /\ proc'[p].source = proc[p].source
      /\ \A q \in Procs : q # p => proc'[q] = proc[q]
  BY <1>1, <1>2 DEF TypeOK, Proc
<1>4. step \in (Exchange \ {"handshake"}) \cup {"final"}
  BY <1>2 DEF After, Exchange
<1>5. /\ step \in Exchange \ {"data", "application"} => n = 0
      /\ step = "data" => n < Chunks
  <2>1. CASE proc[p].pc = "data"
    <3>1. proc[p].sent \in Nat /\ proc[p].sent < Chunks
      BY <1>2, <2>1 DEF Base, Holders, Proc
    <3>2. CASE Last(p)
      BY <2>1, <3>2 DEF After, Last
    <3>3. CASE ~Last(p)
      BY <2>1, <3>1, <3>3, FlashAssumption DEF Last
    <3> QED
      BY <3>2, <3>3
  <2>2. CASE proc[p].pc = "application"
    BY <2>2 DEF After, Exchange
  <2>3. CASE proc[p].pc \notin {"data", "application"}
    <3>1. n = 0
      BY <1>2, <2>3 DEF Base, Holders
    <3> QED
      BY <3>1, FlashAssumption
  <2> QED
    BY <2>1, <2>2, <2>3
<1> HIDE DEF n
<1>6. Holders'
  BY <1>1, <1>3, <1>4, <1>5 DEF Base, Holders, Exchange, Holds, Before
<1>7. Mcu' /\ Running' /\ UnknownKept'
  BY <1>1, <1>2, <1>3 DEF Base, Mcu, Running, UnknownKept, Silence
<1>8. OnTarget'
  <2>1. Relied' => Relied
    BY <1>1, <1>3, <1>4 DEF Relied, Exchange
  <2>2. Parked => Parked'
    BY <1>1, <1>3, <1>4 DEF Parked, Silence, Exchange
  <2> QED
    BY <1>1, <2>1, <2>2 DEF Base, OnTarget
<1>9. ASSUME Solo PROVE Solo'
  <2>1. InStep(p)
    BY <1>2, <1>9 DEF Solo, Flashers
  <2>2. \A q \in Procs : q # p => ~Exchanging(q)
    BY <1>2, <1>9 DEF Solo, Alone
  <2>3. step \in Exchange => InStep(p)'
    <3>1. mcu.mode = "boot" \/ step \notin Exchange
      BY <1>1, <1>2, <2>1 DEF InStep, After, Exchange, TypeOK
    <3>2. CASE Last(p)
      <4>1. proc[p].pc = "data" /\ wire.msg = "complete" /\ step = "application"
        BY <1>1, <1>2, <3>2 DEF Last, Fits, After
      <4>2. n = proc[p].sent + 1
        BY <4>1 DEF n
      <4>3. mcu.mode = "boot" => Completed(p)
        BY <1>1, <2>1, <4>1 DEF InStep
      <4> QED
        BY <1>1, <1>3, <3>1, <4>1, <4>2, <4>3 DEF InStep, Expected, Completed, Silence, Exchange
    <3>3. CASE ~Last(p)
      <4>1. wire.msg = "accepted"
        BY <1>1, <3>3 DEF Fits
      <4>2. mcu.mode = "boot" => Accepted(p)
        BY <1>1, <2>1, <4>1 DEF InStep
      <4>3. CASE proc[p].pc \in {"handshake", "version", "sector"}
        <5>1. step \in {"version", "sector", "update"} /\ n = proc[p].sent
          BY <4>3 DEF After, n
        <5> QED
          BY <1>1, <1>3, <2>1, <3>1, <4>2, <4>3, <5>1 DEF InStep, Expected, Accepted, Silence, After, Exchange
      <4>4. CASE proc[p].pc = "update"
        BY <1>1, <1>3, <2>1, <3>1, <4>2, <4>4 DEF InStep, Expected, Accepted, Silence, After, Exchange
      <4>5. CASE proc[p].pc = "length"
        <5>1. n = 0
          BY <4>5 DEF Base, Holders, Exchange, n
        <5> QED
          BY <1>1, <1>3, <2>1, <3>1, <4>2, <4>5, <5>1, FlashAssumption DEF InStep, Expected, Accepted, Silence, After, Exchange
      <4>6. CASE proc[p].pc = "data"
        <5>1. proc[p].sent \in Nat
          BY <1>2 DEF Proc
        <5>2. step = "data" /\ n = proc[p].sent + 1
          BY <3>3, <4>6 DEF n
        <5> QED
          BY <1>1, <1>3, <3>1, <4>2, <4>6, <5>1, <5>2 DEF InStep, Expected, Accepted, Silence, Exchange
      <4>7. CASE proc[p].pc = "application"
        BY <4>7 DEF After, Exchange
      <4> QED
        BY <1>2, <4>3, <4>4, <4>5, <4>6, <4>7 DEF Exchange
    <3> QED
      BY <3>2, <3>3
  <2>4. Alone' /\ Wire'
    BY <1>1, <1>3, <2>2 DEF Alone, Wire, Silence
  <2> QED
    BY <1>3, <2>2, <2>3, <2>4 DEF Solo, Flashers
<1> QED
  BY <1>6, <1>7, <1>8, <1>9 DEF Base

LEMMA FinishNext == ASSUME TypeOK, Base, NEW p \in Procs, Finish(p), ~Fail(p) PROVE Base' /\ (Solo => Solo')
<1>1. /\ proc[p].pc = "finishing" /\ Observed = "fre3nder" /\ uart' = IF uart = p THEN "free" ELSE uart
      /\ UNCHANGED <<flash, mcu, wire, klippy>>
      /\ proc' = [proc EXCEPT ![p].pc = IF p = "boot" THEN "start" ELSE "idle",
                              ![p].sent = 0, ![p].result = "complete"]
  BY DEF Finish, Drop
<1>2. /\ proc'[p].pc \in {"start", "idle"} /\ proc'[p].sent = 0 /\ ~proc'[p].await
      /\ \A q \in Procs : q # p => proc'[q] = proc[q]
  <2>1. proc[p] \in Proc /\ ~proc[p].await
    BY <1>1 DEF TypeOK, Base, Holders, Exchange
  <2>2. proc'[p] = [proc[p] EXCEPT !.pc = IF p = "boot" THEN "start" ELSE "idle",
                                   !.sent = 0, !.result = "complete"]
    BY <1>1 DEF TypeOK
  <2> QED
    BY <1>1, <2>1, <2>2 DEF TypeOK, Proc
<1>3. flash = "fre3nder" /\ mcu.mode = "app"
  BY <1>1 DEF Observed
<1> QED
  BY <1>1, <1>2, <1>3, Outside DEF Exchange, Holds, Before

LEMMA StepNext == ASSUME TypeOK, Base, NEW p \in Procs, Step(p) PROVE Base' /\ (Reset(p) \/ (Solo => Solo'))
<1>1. CASE Reset(p)
  BY <1>1, ResetNext
<1>2. CASE Fail(p) /\ ~Reset(p)
  <2>1. CASE TakeUart(p) \/ Send(p)
    BY <2>1, TakeUartNext, SendNext
  <2>2. CASE GiveUp(p) \/ Unidentified(p) \/ Probe(p) \/ Receive(p) \/ TimeOut(p) \/ Finish(p)
    BY <1>2, <2>2, FailNext DEF GiveUp, Unidentified, Probe, Receive, TimeOut, Finish
  <2> QED
    BY <1>2, <2>1, <2>2 DEF Step
<1>3. CASE ~Fail(p)
  BY <1>1, <1>3, TakeUartNext, ProbeNext, SendNext, ReceiveNext, FinishNext DEF Step, GiveUp, Unidentified, TimeOut
<1> QED
  BY <1>1, <1>2, <1>3

-----------------------------------------------------------------------------
(* Klippy. *)

LEMMA KlippyNext ==
  ASSUME TypeOK, Base, StartKlippy \/ KlippyConnects \/ StopKlippy PROVE Base' /\ (Solo => Solo')
<1>1. CASE StartKlippy
  <2>1. /\ "boot" \in Procs /\ proc["boot"].pc = "start" /\ Go("boot", "idle") /\ klippy' = "connecting"
        /\ UNCHANGED <<flash, mcu, wire, uart>>
    BY <1>1 DEF StartKlippy
  <2>2. /\ proc'["boot"].pc = "idle" /\ ~proc'["boot"].await
        /\ \A q \in Procs : q # "boot" => proc'[q] = proc[q]
    BY <2>1, Gone DEF Base, Holders, Exchange
  <2>3. Holders'
    BY <2>1, <2>2 DEF Base, Holders, Holds, Before, Exchange
  <2>4. Mcu' /\ Running' /\ UnknownKept'
    BY <2>1, <2>2 DEF Base, Mcu, Running, UnknownKept, Exchange
  <2>5. OnTarget'
    <3>1. Relied /\ (Parked => Parked')
      BY <2>1, <2>2 DEF Relied, Parked
    <3> QED
      BY <2>1, <3>1 DEF Base, OnTarget
  <2>6. ASSUME Solo PROVE Solo'
    <3>1. Alone' /\ Wire'
      BY <2>1, <2>2, <2>6 DEF Solo, Alone, Wire, Exchange
    <3>2. ASSUME NEW q \in Procs, Exchanging(q)' PROVE InStep(q)'
      <4>1. proc'[q] = proc[q] /\ InStep(q)
        BY <2>2, <2>6, <3>2 DEF Solo, Flashers, Exchange
      <4> QED
        BY <2>1, <4>1 DEF InStep, Expected, Accepted, Completed
    <3> QED
      BY <3>1, <3>2 DEF Solo, Flashers
  <2> QED
    BY <2>3, <2>4, <2>5, <2>6 DEF Base
<1>2. CASE KlippyConnects
  <2>1. /\ klippy = "connecting" /\ uart = "free" /\ mcu.mode = "app" /\ uart' = "klippy" /\ klippy' = "running"
        /\ wire' = Silence /\ UNCHANGED <<flash, mcu, proc>>
    BY <1>2 DEF KlippyConnects, Observed
  <2>2. \A p \in Procs : proc[p].pc \notin Holds
    BY <2>1, FlashAssumption DEF Base, Holders
  <2>3. Holders'
    BY <2>1, <2>2 DEF Base, Holders, Holds
  <2>4. Mcu' /\ Running' /\ UnknownKept'
    BY <2>1 DEF Base, Mcu, Running, UnknownKept, Silence
  <2>5. OnTarget'
    BY <2>1 DEF Base, OnTarget, Relied
  <2>6. ASSUME Solo PROVE Solo'
    <3>1. Alone' /\ Wire'
      BY <2>1, <2>6 DEF Solo, Alone, Wire, Silence
    <3>2. Flashers'
      BY <2>1, <2>6 DEF Solo, Flashers, InStep, Expected, Accepted, Completed, Silence
    <3> QED
      BY <3>1, <3>2 DEF Solo
  <2> QED
    BY <2>3, <2>4, <2>5, <2>6 DEF Base
<1>3. CASE StopKlippy
  <2>1. /\ klippy' = "off" /\ klippy # "off" /\ UNCHANGED <<flash, mcu, wire, proc>>
        /\ \A q \in Procs : uart = q => uart' = q
    BY <1>3, FlashAssumption DEF StopKlippy, Drop
  <2>2. Holders' /\ Mcu' /\ Running' /\ UnknownKept'
    BY <2>1 DEF Base, Holders, Mcu, Running, UnknownKept
  <2>3. OnTarget'
    <3>1. Relied /\ Parked' = Parked
      BY <2>1 DEF Relied, Parked
    <3> QED
      BY <2>1, <3>1 DEF Base, OnTarget
  <2>4. ASSUME Solo PROVE Solo'
    <3>1. Alone' /\ Wire'
      BY <2>1, <2>4 DEF Solo, Alone, Wire
    <3>2. Flashers'
      BY <2>1, <2>4 DEF Solo, Flashers, InStep, Expected, Accepted, Completed
    <3> QED
      BY <3>1, <3>2 DEF Solo
  <2> QED
    BY <2>2, <2>3, <2>4 DEF Base
<1> QED
  BY <1>1, <1>2, <1>3

\* Klippy resets the target firmware, which no helper that is left can harm.
LEMMA FirmwareRestartNext == ASSUME TypeOK, Base, FirmwareRestart PROVE Base' /\ (Solo => Solo')
<1>1. /\ klippy = "running" /\ klippy' = "connecting" /\ mcu' \in {mcu, Bootloader} /\ wire' = Silence
      /\ \A p \in Procs : proc[p].pc # "handshake"
      /\ UNCHANGED <<flash, proc>>
  BY DEF FirmwareRestart
<1>2. uart = "klippy" /\ mcu = App /\ flash = "fre3nder"
  BY <1>1 DEF Base, Running, Mcu, OnTarget, Relied
<1>3. \A p \in Procs : proc[p].pc \notin Holds
  BY <1>2, FlashAssumption DEF Base, Holders
<1>4. Holders'
  BY <1>1, <1>3 DEF Base, Holders, Holds
<1>5. Mcu' /\ Running' /\ UnknownKept'
  BY <1>1, <1>2, FlashAssumption DEF Base, Mcu, Running, UnknownKept, Silence, App, Bootloader
<1>6. OnTarget'
  BY <1>1, <1>2 DEF OnTarget, Parked, App, Silence
<1>7. ASSUME Solo PROVE Solo'
  <2>1. Alone' /\ Wire'
    BY <1>1, <1>7 DEF Solo, Alone, Wire, Silence
  <2>2. ASSUME NEW p \in Procs, Exchanging(p)' PROVE InStep(p)'
    <3>1. InStep(p) /\ proc[p].pc = "application" /\ proc[p].await
      BY <1>1, <1>2, <1>7, <2>2 DEF Solo, Flashers, InStep, App
    <3> QED
      BY <1>1, <3>1 DEF InStep, Silence
  <2> QED
    BY <2>1, <2>2 DEF Solo, Flashers
<1> QED
  BY <1>4, <1>5, <1>6, <1>7 DEF Base

-----------------------------------------------------------------------------
(* The MCU. *)

\* No request reaches the bootloader of a firmware that somebody relies on, nor one that
\* nobody has identified, and no helper is about to reset a bootloader.
LEMMA Harmless ==
  ASSUME TypeOK, Base, Accepts \/ Rejects
  PROVE  ~Relied /\ flash # "unknown" /\ klippy # "running" /\ \A p \in Procs : proc[p].pc # "reset"
<1>1. mcu.mode = "boot" /\ wire.to = "mcu"
  BY DEF Accepts, Rejects
<1>2. wire = [to |-> "mcu", msg |-> wire.msg]
  BY <1>1 DEF TypeOK
<1>3. wire.msg # "handshake" => mcu.expects # "handshake"
  BY <1>1 DEF Accepts, Rejects, Base, Mcu
<1>4. ~Relied
  BY <1>1, <1>2, <1>3 DEF Base, OnTarget, Parked, Bootloader
<1> QED
  BY <1>1, <1>4 DEF Base, UnknownKept, Running, Holders

LEMMA AcceptsBase == ASSUME TypeOK, Base, Accepts PROVE Base'
<1>1. mcu.mode = "boot" /\ wire.to = "mcu" /\ UNCHANGED <<proc, uart, klippy>> /\ wire'.to = "host"
  BY Accepting
<1>2. Holders'
  BY <1>1, Harmless DEF Base, Holders
<1>3. Mcu'
  <2>1. wire'.msg \in Replies
    BY DEF Accepts, Reply, Replies
  <2>2. /\ mcu'.mode = "app" => mcu' = App
        /\ mcu'.expects = "length" => mcu'.got = 0
        /\ mcu'.expects = "data" => mcu'.got < Chunks
    <3>1. CASE wire.msg \in {"handshake", "version", "sector"}
      BY <3>1, Accepting
    <3>2. CASE wire.msg = "update"
      BY <3>2, Accepting
    <3>3. CASE wire.msg = "length"
      <4>1. mcu.expects = "length"
        BY <3>3 DEF Accepts
      <4>2. mcu'.got = 0 /\ mcu'.mode = "boot" /\ mcu'.expects = "data"
        BY <3>3, <4>1, Accepting DEF Base, Mcu
      <4> QED
        BY <4>2, FlashAssumption
    <3>4. CASE wire.msg = "data"
      <4>1. mcu.got \in 0..Chunks /\ mcu.got < Chunks
        BY <3>4, Accepting DEF TypeOK, Base, Mcu
      <4>2. /\ mcu'.mode = "boot" /\ mcu'.got = mcu.got + 1
            /\ mcu'.expects = IF mcu.got + 1 = Chunks THEN "command" ELSE "data"
        BY <3>4, Accepting
      <4> QED
        BY <4>1, <4>2, FlashAssumption
    <3>5. CASE wire.msg = "application"
      BY <3>5, Accepting DEF App
    <3> QED
      BY <3>1, <3>2, <3>3, <3>4, <3>5, Accepting DEF Exchange
  <2> QED
    BY <1>1, <2>1, <2>2 DEF Mcu
<1>4. Running' /\ UnknownKept' /\ OnTarget'
  <2>1. flash' # "unknown"
    BY Harmless DEF Accepts
  <2>2. ~Relied'
    BY <1>1, Harmless DEF Relied
  <2> QED
    BY <1>1, <2>1, <2>2, Harmless DEF Running, UnknownKept, OnTarget
<1> QED
  BY <1>2, <1>3, <1>4 DEF Base

LEMMA AcceptsSolo == ASSUME TypeOK, Base, Solo, Accepts PROVE Solo'
<1>1. mcu.mode = "boot" /\ wire.to = "mcu" /\ UNCHANGED <<proc, uart, klippy>> /\ wire'.to = "host"
  BY Accepting
<1>2. ASSUME NEW p \in Procs, Exchanging(p) PROVE InStep(p)'
  <2>1. InStep(p) /\ wire.msg = proc[p].pc /\ Expected(p)
    BY <1>1, <1>2 DEF Solo, Flashers, InStep
  <2>2. proc'[p] = proc[p] /\ wire'.to = "host" /\ proc[p].await
    BY <1>1, <2>1 DEF InStep
  <2>4. CASE wire.msg \in {"handshake", "version", "sector"}
    <3>1. /\ wire'.msg = "accepted" /\ flash' = flash
          /\ mcu'.mode = "boot" /\ mcu'.expects = "command" /\ mcu'.got = mcu.got
      BY <2>4, Accepting
    <3> QED
      BY <2>1, <2>2, <2>4, <3>1 DEF InStep, Expected, Accepted
  <2>5. CASE wire.msg = "update"
    <3>1. wire'.msg = "accepted" /\ mcu'.mode = "boot" /\ mcu'.expects = "length" /\ mcu'.got = 0
      BY <2>5, Accepting
    <3> QED
      BY <2>1, <2>2, <2>5, <3>1 DEF InStep, Accepted
  <2>6. CASE wire.msg = "length"
    <3>1. wire'.msg = "accepted" /\ mcu'.mode = "boot" /\ mcu'.expects = "data" /\ mcu'.got = mcu.got
      BY <2>6, Accepting
    <3> QED
      BY <2>1, <2>2, <2>6, <3>1 DEF InStep, Expected, Accepted
  <2>7. CASE wire.msg = "data"
    <3>1. mcu'.mode = "boot" /\ mcu'.got = mcu.got + 1 /\ mcu.got = proc[p].sent
      BY <2>1, <2>7, Accepting DEF Expected
    <3>2. IF mcu.got + 1 = Chunks
          THEN wire'.msg = "complete" /\ mcu'.expects = "command" /\ flash' \in {"fre3nder", "torn"}
          ELSE wire'.msg = "accepted" /\ mcu'.expects = "data"
      BY <2>7, Accepting
    <3> QED
      BY <2>1, <2>2, <2>7, <3>1, <3>2 DEF InStep, Accepted, Completed
  <2>8. CASE wire.msg = "application"
    <3>1. wire'.msg = "accepted" /\ mcu'.mode = "app" /\ flash' = flash
      BY <2>8, Accepting DEF App
    <3> QED
      BY <2>1, <2>2, <2>8, <3>1 DEF InStep
  <2> QED
    BY <1>2, <2>1, <2>4, <2>5, <2>6, <2>7, <2>8 DEF Exchange
<1> QED
  BY <1>1, <1>2 DEF Solo, Alone, Wire, Flashers

LEMMA RejectsNext == ASSUME TypeOK, Base, Rejects PROVE Base' /\ (Solo => Solo')
<1>1. /\ mcu.mode = "boot" /\ wire.to = "mcu" /\ wire.msg \in {"length", "data"}
      /\ mcu'.mode = "boot" /\ mcu'.expects = "command"
      /\ wire'.to = "host" /\ wire'.msg = "error" /\ UNCHANGED <<proc, uart, klippy>>
      /\ flash' \in {flash, "torn"}
  BY DEF Rejects, Reply, TypeOK
<1>2. Holders'
  BY <1>1, Harmless DEF Base, Holders
<1>3. Mcu'
  BY <1>1 DEF Mcu, Replies
<1>4. Running' /\ UnknownKept' /\ OnTarget'
  <2>1. ~Relied'
    BY <1>1, Harmless DEF Relied
  <2> QED
    BY <1>1, <2>1, Harmless DEF Running, UnknownKept, OnTarget
<1>5. ASSUME Solo PROVE Solo'
  <2>1. ASSUME NEW p \in Procs, Exchanging(p) PROVE InStep(p)'
    <3>1. InStep(p) /\ wire.msg = proc[p].pc /\ proc[p].await
      BY <1>1, <1>5, <2>1 DEF Solo, Flashers, InStep
    <3> QED
      BY <1>1, <3>1 DEF InStep
  <2> QED
    BY <1>1, <1>5, <2>1 DEF Solo, Alone, Wire, Flashers
<1> QED
  BY <1>2, <1>3, <1>4, <1>5 DEF Base

LEMMA LostNext == ASSUME TypeOK, Base, Lost PROVE Base' /\ (Solo => Solo')
<1>1. wire' = Silence /\ UNCHANGED <<flash, mcu, proc, uart, klippy>>
  BY DEF Lost
<1>2. Holders' /\ Mcu' /\ Running' /\ UnknownKept'
  BY <1>1 DEF Base, Holders, Mcu, Running, UnknownKept, Silence
<1>3. OnTarget'
  BY <1>1 DEF Base, OnTarget, Relied, Parked, Silence
<1>4. Solo => Solo'
  BY <1>1 DEF Solo, Alone, Wire, Flashers, InStep, Expected, Accepted, Completed, Silence
<1> QED
  BY <1>2, <1>3, <1>4 DEF Base

LEMMA GivesUpNext == ASSUME TypeOK, Base, GivesUp PROVE Base' /\ (Solo => Solo')
<1>1. mcu = Bootloader /\ mcu' = App /\ UNCHANGED <<flash, wire, proc, uart, klippy>>
  BY DEF GivesUp
<1>2. Holders' /\ Running' /\ UnknownKept'
  BY <1>1 DEF Base, Holders, Running, UnknownKept, App, Bootloader
<1>3. Mcu'
  BY <1>1 DEF Base, Mcu, App
<1>4. OnTarget'
  BY <1>1 DEF Base, OnTarget, Relied, App
<1>5. ASSUME Solo PROVE Solo'
  <2>1. Alone' /\ Wire'
    BY <1>1, <1>5 DEF Solo, Alone, Wire, App, Bootloader
  <2>2. ASSUME NEW p \in Procs, Exchanging(p) PROVE InStep(p)'
    <3>1. InStep(p)
      BY <1>5, <2>2 DEF Solo, Flashers
    <3>2. proc[p].pc = "handshake" \/ (proc[p].pc = "application" /\ proc[p].await)
      BY <1>1, <3>1 DEF InStep, Bootloader
    <3>3. CASE proc[p].pc = "handshake"
      BY <1>1, <3>1, <3>3 DEF InStep, Expected, App, Bootloader
    <3>4. CASE proc[p].pc = "application" /\ proc[p].await
      BY <1>1, <3>1, <3>4 DEF InStep, Expected, App, Bootloader
    <3> QED
      BY <3>2, <3>3, <3>4
  <2> QED
    BY <1>1, <2>1, <2>2 DEF Solo, Flashers
<1> QED
  BY <1>2, <1>3, <1>4, <1>5 DEF Base

LEMMA PowerCycleNext == ASSUME TypeOK, Base, PowerCycle PROVE Base' /\ Solo'
<1>1. /\ mcu' = Bootloader /\ wire' = Silence /\ klippy' = "off" /\ flash' = flash
      /\ \A p \in Procs : proc'[p].pc = "idle" /\ ~proc'[p].await /\ proc'[p].result = "none"
  BY DEF PowerCycle, Idle
<1>2. Holders' /\ Running' /\ UnknownKept' /\ OnTarget' /\ Solo'
  BY <1>1 DEF Holders, Running, UnknownKept, OnTarget, Relied, Solo, Alone, Wire, Flashers, Holds, Before, Exchange, Silence
<1>3. Mcu'
  BY <1>1 DEF Mcu, Bootloader, Silence
<1> QED
  BY <1>2, <1>3 DEF Base

\* Every step keeps the invariant.
LEMMA InvNext == ASSUME Inv, [Next]_vars PROVE Inv'
<1>1. TypeOK /\ Base /\ (shared \/ Solo)
  BY DEF Inv
<1>2. TypeOK'
  BY <1>1, TypeNext DEF Base
<1>3. CASE PowerCycle
  BY <1>1, <1>2, <1>3, PowerCycleNext DEF Inv
<1>4. ASSUME NEW p \in Procs, Reset(p) PROVE Inv'
  BY <1>1, <1>2, <1>4, ResetNext DEF Inv
<1>5. ASSUME shared' = shared, Base', Solo => Solo' PROVE Inv'
  BY <1>1, <1>2, <1>5 DEF Inv
<1>6. CASE StartGate
  <2>1. /\ proc'["boot"].pc = "gate" /\ proc'["boot"].sent = 0 /\ ~proc'["boot"].await
        /\ proc'["boot"].result = "none" /\ "boot" \in Procs
        /\ \A q \in Procs : q # "boot" => proc'[q] = proc[q]
    BY <1>1, <1>6 DEF StartGate, Idle, TypeOK
  <2>2. UNCHANGED <<flash, mcu, wire, uart, klippy, shared>>
    BY <1>6 DEF StartGate
  <2> QED
    BY <1>1, <1>5, <2>1, <2>2, Outside DEF Exchange, Holds
<1>7. CASE \E s \in Sources : StartHelper(s)
  <2>1. /\ proc'["operator"].pc = "probe" /\ proc'["operator"].sent = 0 /\ ~proc'["operator"].await
        /\ proc'["operator"].result = "none" /\ "operator" \in Procs
        /\ \A q \in Procs : q # "operator" => proc'[q] = proc[q]
    BY <1>1, <1>7 DEF StartHelper, Idle, TypeOK
  <2>2. UNCHANGED <<flash, mcu, wire, uart, klippy, shared>>
    BY <1>7 DEF StartHelper
  <2> QED
    BY <1>1, <1>5, <2>1, <2>2, Outside DEF Exchange, Holds
<1>8. CASE Gate
  BY <1>1, <1>5, <1>8, GateNext DEF Gate
<1>9. ASSUME NEW p \in Procs, Step(p), ~Reset(p) PROVE Inv'
  <2>1. shared' = shared
    BY <1>9 DEF Step, TakeUart, GiveUp, Unidentified, Probe, Send, Receive, TimeOut, Finish
  <2> QED
    BY <1>1, <1>5, <1>9, <2>1, StepNext
<1>10. CASE StartKlippy \/ KlippyConnects \/ StopKlippy \/ FirmwareRestart
  <2>1. shared' = shared
    BY <1>10 DEF StartKlippy, KlippyConnects, StopKlippy, FirmwareRestart
  <2> QED
    BY <1>1, <1>5, <1>10, <2>1, KlippyNext, FirmwareRestartNext
<1>11. CASE Accepts \/ Rejects \/ Lost \/ GivesUp
  <2>1. shared' = shared
    BY <1>11 DEF Accepts, Rejects, Lost, GivesUp
  <2> QED
    BY <1>1, <1>5, <1>11, <2>1, AcceptsBase, AcceptsSolo, RejectsNext, LostNext, GivesUpNext
<1>12. CASE UNCHANGED vars
  <2>1. Base'
    BY <1>1, <1>12 DEF Base, Holders, Mcu, Running, UnknownKept, OnTarget, Relied, Parked
  <2>2. Solo => Solo'
    BY <1>12 DEF Solo, Alone, Wire, Flashers, InStep, Expected, Accepted, Completed
  <2> QED
    BY <1>5, <1>12, <2>1, <2>2
<1> QED
  BY <1>3, <1>4, <1>6, <1>7, <1>8, <1>9, <1>10, <1>11, <1>12 DEF Next

-----------------------------------------------------------------------------
(* The theorems. *)

\* The invariant holds in every reachable state, however long the image is.
THEOREM Invariance == Spec => []Inv
<1>1. Init => Inv
  BY InvInit
<1>2. Inv /\ [Next]_vars => Inv'
  BY InvNext
<1> QED
  BY <1>1, <1>2, PTL DEF Spec

\* What Klippy is started on: the exact target firmware, for as long as Klippy is there
\* (S60fre3nder-klipper starts it only after f005-mcu-state or a completed transition),
\* however many helpers were on the line and whenever it restarts the MCU.
THEOREM KlippyTheorem == Spec => []KlippyOnTarget
<1>1. Inv => KlippyOnTarget
  BY DEF Inv, Base, OnTarget, Relied, Running, KlippyOnTarget
<1> QED
  BY <1>1, Invariance, PTL

\* What transition-complete says of the flash stays true.
THEOREM CompleteTheorem == Spec => []CompleteMeansTarget
<1>1. Inv => CompleteMeansTarget
  BY DEF Inv, Base, OnTarget, Relied, CompleteMeansTarget
<1> QED
  BY <1>1, Invariance, PTL

\* Transfers of flash_image: none touches a firmware that nobody identified; one that is
\* alone on the line meets the MCU its helper probed, the firmware untouched until the update
\* request, starts the application on a whole image, and leaves Klippy alone.
THEOREM TransferTheorem == Spec => []TransferSound
<1>1. ASSUME Inv PROVE TransferSound
  <2>1. TypeOK /\ UnknownKept
    BY <1>1 DEF Inv, Base
  <2>2. ResetsSource
    <3> SUFFICES ASSUME NEW p \in Procs, proc[p].pc = "reset" PROVE Observed = proc[p].source
      BY DEF ResetsSource
    <3>1. mcu.mode = "app" /\ flash = proc[p].source /\ proc[p].source \in Sources
      BY <1>1 DEF Inv, Base, Holders, TypeOK, Proc
    <3> QED
      BY <3>1 DEF Observed, Sources
  <2>3. ASSUME ~shared PROVE SourceUntouched /\ StartsWhole /\ KlippyUndisturbed
    <3>1. Solo /\ Base
      BY <1>1, <2>3 DEF Inv
    <3>2. SourceUntouched
      BY <3>1 DEF Solo, Flashers, InStep, SourceUntouched, Exchange
    <3>3. StartsWhole
      BY <3>1 DEF Solo, Wire, StartsWhole
    <3>4. KlippyUndisturbed
      <4> SUFFICES ASSUME klippy # "off", NEW p \in Procs, Exchanging(p)
                   PROVE  proc[p].pc = "application" /\ proc[p].await
        BY DEF KlippyUndisturbed
      <4>1. InStep(p) /\ flash = "fre3nder" /\ (mcu.mode = "app" \/ Parked)
        BY <3>1 DEF Solo, Flashers, Base, OnTarget, Relied
      <4>2. proc[p].pc # "handshake"
        BY <1>1, <4>1 DEF InStep, Inv, TypeOK, Proc, Sources
      <4> QED
        BY <4>1, <4>2 DEF InStep, Parked, Bootloader
    <3> QED
      BY <3>2, <3>3, <3>4
  <2> QED
    BY <2>1, <2>2, <2>3 DEF TransferSound
<1> QED
  BY <1>1, Invariance, PTL
=============================================================================
