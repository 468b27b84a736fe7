------------------------------ MODULE F005Flash ------------------------------
(***************************************************************************)
(* The F005 MCU and everything on the X2000 that talks to it: the start    *)
(* gate of Klipper (S60fre3nder-klipper with f005-mcu-state), the          *)
(* transition helper (f005-stock-to-fre3nder: probe, one reset, one        *)
(* transfer through the bootloader, a last probe) that the gate or an      *)
(* operator runs, and Klippy.                                              *)
(*                                                                         *)
(* Probes and Klippy exclude each other by a lock on the UART; the flasher *)
(* opens the port without it.  On the wire there is at most one request or *)
(* reply; either may be lost or spoiled, a spoiled one is recognised by    *)
(* its checksum, and spoiling that no checksum shows ends in a flash that  *)
(* does not identify itself.  Power may go at any time.                    *)
(*                                                                         *)
(* The MCU and its bootloader are external: they do what the host's code   *)
(* relies on.  When the bootloader erases is not known, so it may erase    *)
(* from the update request on.  A reset has no answer: it may be lost, and *)
(* the helper goes on, so that another one may still identify the MCU and  *)
(* reset it, and two flashers share the line.  Timing assumption: Klippy   *)
(* does not restart the MCU within the 3 s in which a helper that has      *)
(* reset it sleeps and waits for the handshake.                            *)
(***************************************************************************)
EXTENDS Naturals

CONSTANTS
  Procs,       \* "boot": the gate of the init script; "operator": a helper run by hand
  Chunks,      \* chunks of the image
  OptIn        \* f005-auto-transition.enabled holds what it must

ASSUME FlashAssumption ==
  /\ Procs \subseteq {"boot", "operator"}
  /\ Chunks \in Nat \ {0} /\ OptIn \in BOOLEAN

\* What the application flash holds: a firmware that identifies itself, or bytes that
\* do not.
Sources == {"stock", "fre3nder-qualified"}
Firmware == Sources \cup {"fre3nder", "unknown"}
Flash == Firmware \cup {"torn"}

\* The exchanges of flash_image, in their order.
Exchange == {"handshake", "version", "sector", "update", "length", "data", "application"}
After == [handshake |-> "version", version |-> "sector", sector |-> "update",
          update |-> "length", length |-> "data", data |-> "application",
          application |-> "final"]

Waits == {"gate", "probe", "final"}
Holds == {"gating", "probing", "reset", "finishing"}
Proc == [pc : {"idle", "start"} \cup Waits \cup Holds \cup Exchange,
         source : Sources, await : BOOLEAN, sent : 0..Chunks,
         result : {"none", "complete", "failed"}]
Idle == [pc |-> "idle", source |-> "stock", await |-> FALSE, sent |-> 0, result |-> "none"]

VARIABLES
  flash,     \* the application flash of the MCU
  mcu,       \* app or boot; what the bootloader expects; chunks it has
  wire,      \* the message on the UART
  proc,      \* the two processes
  uart,      \* who holds the lock on /dev/ttyS1
  klippy,    \* Klippy: off, connecting or running
  shared     \* history: the latest reset was sent while another helper was talking to the MCU

vars == <<flash, mcu, wire, proc, uart, klippy, shared>>

Silence == [to |-> "nobody", msg |-> "handshake"]
Replies == {"accepted", "complete", "error"}

TypeOK ==
  /\ flash \in Flash
  /\ mcu \in [mode : {"app", "boot"}, expects : {"handshake", "command", "length", "data"},
              got : 0..Chunks]
  /\ wire \in [to : {"nobody", "mcu", "host"}, msg : Exchange \cup Replies]
  /\ proc \in [Procs -> Proc]
  /\ uart \in Procs \cup {"free", "klippy"}
  /\ klippy \in {"off", "connecting", "running"} /\ shared \in BOOLEAN

App == [mode |-> "app", expects |-> "handshake", got |-> 0]
Bootloader == [mode |-> "boot", expects |-> "handshake", got |-> 0]

Init ==
  /\ flash \in Flash /\ mcu \in {App, Bootloader}
  /\ wire = Silence /\ proc = [p \in Procs |-> Idle]
  /\ uart = "free" /\ klippy = "off" /\ shared = FALSE

\* classify_identity of what answers at the application's baud rate; nothing does
\* when the bootloader runs or the flash is no firmware.
Observed == IF mcu.mode = "app" /\ flash # "torn" THEN flash ELSE "silent"

-----------------------------------------------------------------------------
(* Steps of a process. *)

Go(p, pc) == proc' = [proc EXCEPT ![p].pc = pc]
Drop(p) == uart' = IF uart = p THEN "free" ELSE uart

\* Every error ends the helper, whose state is gone but for its exit code.  The gate
\* starts no Klippy.
Fail(p) ==
  /\ proc' = [proc EXCEPT ![p] = [Idle EXCEPT !.result = "failed"]]
  /\ Drop(p)

\* S60 start.
StartGate ==
  /\ "boot" \in Procs /\ proc["boot"].pc = "idle" /\ klippy = "off"
  /\ proc' = [proc EXCEPT !["boot"] = [Idle EXCEPT !.pc = "gate"]]
  /\ UNCHANGED <<flash, mcu, wire, uart, klippy, shared>>

\* An operator runs the helper, with or without --from-qualified.
StartHelper(source) ==
  /\ "operator" \in Procs /\ proc["operator"].pc = "idle"
  /\ proc' = [proc EXCEPT !["operator"] = [Idle EXCEPT !.pc = "probe", !.source = source]]
  /\ UNCHANGED <<flash, mcu, wire, uart, klippy, shared>>

\* connect_uart_passive locks the port ...
TakeUart(p) ==
  /\ proc[p].pc \in Waits /\ uart = "free" /\ uart' = p
  /\ Go(p, CASE proc[p].pc = "gate" -> "gating"
             [] proc[p].pc = "probe" -> "probing"
             [] proc[p].pc = "final" -> "finishing")
  /\ UNCHANGED <<flash, mcu, wire, klippy, shared>>

\* ... or gives up after 90 s.
GiveUp(p) ==
  /\ proc[p].pc \in Waits /\ Fail(p) /\ UNCHANGED <<flash, mcu, wire, klippy, shared>>

\* Nothing answers, or the answer is spoiled.
Unidentified(p) ==
  /\ proc[p].pc \in {"gating", "probing", "finishing"} /\ Fail(p)
  /\ UNCHANGED <<flash, mcu, wire, klippy, shared>>

\* Bug: any Fre3nder firmware will do.
GateAnyFre3nder ==
  /\ "boot" \in Procs /\ proc["boot"].pc = "gating" /\ Observed # "silent"
  /\ proc' = [proc EXCEPT !["boot"].pc =
       CASE Observed \in {"fre3nder", "fre3nder-qualified"} -> "start"
         [] Observed = "stock" /\ OptIn -> "probe"
         [] OTHER -> "idle"]
  /\ Drop("boot") /\ UNCHANGED <<flash, mcu, wire, klippy, shared>>

\* f005-mcu-state, and what S60 does with it.
Gate ==
  /\ "boot" \in Procs /\ proc["boot"].pc = "gating" /\ Observed # "silent"
  /\ proc' = [proc EXCEPT !["boot"].pc =
       CASE Observed = "fre3nder" -> "start"
         [] Observed = "stock" /\ OptIn -> "probe"
         [] OTHER -> "idle"]
  /\ Drop("boot") /\ UNCHANGED <<flash, mcu, wire, klippy, shared>>

\* Bug: whatever can be reset is flashed.
ProbeAny(p) ==
  /\ proc[p].pc = "probing" /\ Observed # "silent" /\ wire' = Silence /\ Go(p, "reset")
  /\ UNCHANGED <<flash, mcu, uart, klippy, shared>>

\* probe_mcu(send_reset=True): the exact source, whose dictionary has reset.  What was on
\* the wire has made way for the probe's own messages.
Probe(p) ==
  /\ proc[p].pc = "probing" /\ Observed # "silent" /\ wire' = Silence
  /\ IF Observed = proc[p].source THEN Go(p, "reset") /\ UNCHANGED uart ELSE Fail(p)
  /\ UNCHANGED <<flash, mcu, klippy, shared>>

Exchanging(p) == proc[p].pc \in Exchange

\* _send_reset_once: the command is written, which the MCU may not hear, and the port
\* is closed.  When no write is seen within 50 ms the helper fails, the MCU having
\* been reset or not.
Reset(p) ==
  /\ proc[p].pc = "reset" /\ ((Go(p, "handshake") /\ Drop(p)) \/ Fail(p))
  /\ mcu' \in {mcu, Bootloader}
  /\ shared' = \E q \in Procs \ {p} : Exchanging(q)
  /\ UNCHANGED <<flash, wire, klippy>>

\* _write: one request, which an application does not understand.
Send(p) ==
  /\ proc[p].pc \in Exchange /\ ~proc[p].await
  /\ wire' = IF mcu.mode = "boot" THEN [to |-> "mcu", msg |-> proc[p].pc] ELSE Silence
  /\ proc' = [proc EXCEPT ![p].await = TRUE]
  /\ UNCHANGED <<flash, mcu, uart, klippy, shared>>

\* transfer_image counts the chunks itself and wants the completion status for the
\* last one and for no other.
Last(p) == proc[p].pc = "data" /\ proc[p].sent + 1 = Chunks
Fits(p, status) == status = IF Last(p) THEN "complete" ELSE "accepted"

\* Bug: an application that was started counts as one that runs.
ReceiveFinal(p) ==
  /\ proc[p].await /\ wire.to = "host" /\ wire' = Silence
  /\ IF ~Fits(p, wire.msg) THEN Fail(p)
     ELSE /\ proc' = [proc EXCEPT ![p] =
                 IF @.pc = "application" THEN [Idle EXCEPT !.result = "complete"]
                 ELSE [@ EXCEPT !.await = FALSE,
                         !.sent = IF @ < Chunks /\ proc[p].pc = "data" THEN @ + 1 ELSE @,
                         !.pc = IF @ = "data" /\ ~Last(p) THEN @ ELSE After[@]]]
          /\ UNCHANGED uart
  /\ UNCHANGED <<flash, mcu, klippy, shared>>

\* The reply: the next request, or the end of the helper.
Receive(p) ==
  /\ proc[p].await /\ wire.to = "host" /\ wire' = Silence
  /\ IF Fits(p, wire.msg)
     THEN /\ proc' = [proc EXCEPT ![p].await = FALSE,
                 ![p].sent = IF proc[p].pc = "data" THEN @ + 1 ELSE @,
                 ![p].pc = IF @ = "data" /\ ~Last(p) THEN @ ELSE After[@]]
          /\ UNCHANGED uart
     ELSE Fail(p)
  /\ UNCHANGED <<flash, mcu, klippy, shared>>

\* Bug: a read waits for its bytes.
TimeOutNever(p) == FALSE /\ UNCHANGED vars

\* A read ends after 2 s with what there is.
TimeOut(p) ==
  /\ proc[p].await /\ Fail(p) /\ UNCHANGED <<flash, mcu, wire, klippy, shared>>

\* The last probe: transition-complete, or another failure.
Finish(p) ==
  /\ proc[p].pc = "finishing" /\ Observed # "silent"
  /\ IF Observed = "fre3nder"
     THEN /\ proc' = [proc EXCEPT ![p].pc = IF p = "boot" THEN "start" ELSE "idle",
                                  ![p].sent = 0, ![p].result = "complete"]
          /\ Drop(p)
     ELSE Fail(p)
  /\ UNCHANGED <<flash, mcu, wire, klippy, shared>>

\* S60 starts Klippy.
StartKlippy ==
  /\ "boot" \in Procs /\ proc["boot"].pc = "start" /\ Go("boot", "idle") /\ klippy' = "connecting"
  /\ UNCHANGED <<flash, mcu, wire, uart, shared>>

\* Klippy locks the port, too, and keeps it when a firmware answers.
KlippyConnects ==
  /\ klippy = "connecting" /\ uart = "free" /\ Observed # "silent"
  /\ uart' = "klippy" /\ klippy' = "running" /\ wire' = Silence
  /\ UNCHANGED <<flash, mcu, proc, shared>>

\* FIRMWARE_RESTART: Klippy resets the MCU, lets go of the port and connects again.
FirmwareRestart ==
  /\ klippy = "running" /\ \A p \in Procs : proc[p].pc # "handshake"
  /\ klippy' = "connecting" /\ Drop("klippy") /\ mcu' \in {mcu, Bootloader} /\ wire' = Silence
  /\ UNCHANGED <<flash, proc, shared>>

\* S60 stop.
StopKlippy ==
  /\ klippy # "off" /\ klippy' = "off" /\ Drop("klippy")
  /\ UNCHANGED <<flash, mcu, wire, proc, shared>>

Step(p) ==
  \/ TakeUart(p) \/ GiveUp(p) \/ Unidentified(p) \/ Probe(p) \/ Reset(p)
  \/ Send(p) \/ Receive(p) \/ TimeOut(p) \/ Finish(p)

-----------------------------------------------------------------------------
(* The MCU. *)

Reply(status) == wire' = [to |-> "host", msg |-> status]

\* The bootloader takes a request it expects.
Accepts ==
  /\ mcu.mode = "boot" /\ wire.to = "mcu"
  /\ \/ /\ wire.msg = "handshake" /\ mcu.expects \in {"handshake", "command"}
        /\ mcu' = [mcu EXCEPT !.expects = "command"] /\ Reply("accepted") /\ UNCHANGED flash
     \/ /\ wire.msg \in {"version", "sector"} /\ mcu.expects = "command"
        /\ Reply("accepted") /\ UNCHANGED <<mcu, flash>>
     \/ /\ wire.msg = "update" /\ mcu.expects = "command"
        /\ mcu' = [mcu EXCEPT !.expects = "length", !.got = 0]
        /\ flash' \in {flash, "torn"} /\ Reply("accepted")
     \/ /\ wire.msg = "length" /\ mcu.expects = "length"
        /\ mcu' = [mcu EXCEPT !.expects = "data"]
        /\ flash' \in {flash, "torn"} /\ Reply("accepted")
     \/ /\ wire.msg = "data" /\ mcu.expects = "data"
        /\ mcu' = [mcu EXCEPT !.got = @ + 1, !.expects = IF mcu.got + 1 = Chunks THEN "command" ELSE @]
        /\ IF mcu.got + 1 = Chunks
           THEN flash' \in {"fre3nder", "torn"} /\ Reply("complete")
           ELSE flash' = "torn" /\ Reply("accepted")
     \/ /\ wire.msg = "application" /\ mcu.expects = "command"
        /\ mcu' = App /\ Reply("accepted") /\ UNCHANGED flash
  /\ UNCHANGED <<proc, uart, klippy, shared>>

\* It finds a wrong checksum or cannot write.
Rejects ==
  /\ mcu.mode = "boot" /\ wire.to = "mcu" /\ wire.msg \in {"length", "data"} /\ mcu.expects = wire.msg
  /\ mcu' = [mcu EXCEPT !.expects = "command"]
  /\ flash' = (IF wire.msg = "data" THEN "torn" ELSE flash)
  /\ Reply("error")
  /\ UNCHANGED <<proc, uart, klippy, shared>>

\* A message is lost, spoiled, or not for whoever runs.
Lost ==
  /\ wire # Silence /\ wire' = Silence
  /\ UNCHANGED <<flash, mcu, proc, uart, klippy, shared>>

\* Nobody spoke to the bootloader: it starts the application.
GivesUp ==
  /\ mcu = Bootloader /\ mcu' = App
  /\ UNCHANGED <<flash, wire, proc, uart, klippy, shared>>

\* Power goes and comes back.
PowerCycle ==
  /\ mcu' = Bootloader /\ wire' = Silence /\ proc' = [p \in Procs |-> Idle]
  /\ uart' = "free" /\ klippy' = "off" /\ shared' = FALSE
  /\ UNCHANGED flash

Next ==
  \/ StartGate \/ Gate \/ StartKlippy \/ KlippyConnects \/ FirmwareRestart \/ StopKlippy
  \/ \E s \in Sources : StartHelper(s)
  \/ \E p \in Procs : Step(p)
  \/ Accepts \/ Rejects \/ Lost \/ GivesUp \/ PowerCycle

Spec == Init /\ [][Next]_vars

\* A started process runs on; nothing is assumed of the MCU.
Fairness == WF_vars(Gate) /\ WF_vars(StartKlippy) /\ \A p \in Procs : WF_vars(Step(p))
LiveSpec == Spec /\ Fairness

-----------------------------------------------------------------------------
(* Properties. *)

\* Klippy only ever meets the firmware it is for: whatever fails between the probe and the
\* start, whoever else flashes or wants to, and whenever Klippy restarts the MCU.
KlippyOnTarget ==
  /\ klippy # "off" => flash = "fre3nder"
  /\ klippy = "running" => mcu.mode = "app"

\* "transition-complete" is true, and stays true whatever runs afterwards.
CompleteMeansTarget == \A p \in Procs : proc[p].result = "complete" => flash = "fre3nder"

\* A firmware that nobody has identified is in no flasher's hands: none of its requests
\* reaches the MCU, whoever else flashes.
UnknownKept == flash = "unknown" => wire.to # "mcu" /\ \A p \in Procs : ~Exchanging(p)

\* A helper resets the firmware that it has identified ...
ResetsSource == \A p \in Procs : proc[p].pc = "reset" => Observed = proc[p].source

\* ... and has it before it until its update request.
SourceUntouched ==
  \A p \in Procs : proc[p].pc \in {"handshake", "version", "sector"} => flash = proc[p].source

\* The application is started only after the bootloader took the whole image.
StartsWhole == wire.to = "mcu" /\ wire.msg = "application" => mcu.got = Chunks

\* No helper sends a request while Klippy is there, although the flasher does not lock the
\* port; it may still read the last answer.
KlippyUndisturbed ==
  klippy # "off" => \A p \in Procs : Exchanging(p) => proc[p].pc = "application" /\ proc[p].await

\* docs/f005-mcu-switching.md wants the UART controlled and free of unexpected owners before
\* the flasher opens it, which nothing verifies.  With a second helper on it an unidentified
\* firmware is safe; a helper that was alone when it reset the MCU, and since, also meets
\* what it probed, starts a whole image, and leaves Klippy alone.
TransferSound ==
  /\ TypeOK /\ UnknownKept /\ ResetsSource
  /\ ~shared => SourceUntouched /\ StartsWhole /\ KlippyUndisturbed

\* Every run of the gate and of the helper ends, whatever the MCU does not answer.
RunsEnd == \A p \in Procs : proc[p].pc # "idle" ~> proc[p].pc = "idle"
=============================================================================
