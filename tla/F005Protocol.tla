---------------------------- MODULE F005Protocol ----------------------------
(***************************************************************************)
(* The research flasher (fre3nder_f005_flasher.py) on the wire: one run of *)
(* its command line, the serial transport, and byte by byte what comes     *)
(* back.  Replies have no framing but their length: a byte too many shifts *)
(* everything behind it, and only one byte of checksum tells.              *)
(*                                                                         *)
(* Requests arrive or do not; a byte of a reply may be lost, and up to     *)
(* MaxFaults bytes are strays or are spoiled.  The identity is scaled from *)
(* 25 bytes to one.  Application and bootloader of the F005 are external.  *)
(***************************************************************************)
EXTENDS Integers, Sequences, SequencesExt

CONSTANTS
  Size,       \* of the image, in units of 1024 bytes; 0 is an empty file
  Sectors,    \* sector sizes the bootloader may have
  Identities, \* identities it may have
  Allowed,    \* those with an allowed hardware ID
  Strays,     \* bytes that noise may produce
  MaxFaults   \* bound: bytes that are strays or spoiled

ASSUME ProtocolAssumption ==
  /\ Size \in Nat /\ MaxFaults \in Nat /\ Sectors \subseteq 0..255
  /\ Allowed \subseteq Identities /\ Identities \subseteq 0..127 /\ Strays \subseteq 0..255

Byte == 0..255
Accepted == 117
Complete == 32
Handshake == 117
Closed == 0

Exchange == {"handshake", "version", "sector", "update", "length", "data", "application"}
After == [handshake |-> "version", version |-> "sector", sector |-> "update",
          update |-> "length", length |-> "data", application |-> "end"]

VARIABLES
  run,     \* the command: action, request (--request-bootloader), whether its policy is
           \* complete and whether the image satisfies it
  pc,      \* where the command is
  await,   \* a request was written, its reply is read
  offset,  \* of transfer_image, in units
  sector,  \* the sector size that was read
  port,    \* of SerialTransport: its baud rate, or Closed
  result,  \* the exit
  toMcu,   \* the request on the wire
  toHost,  \* bytes on their way to the host
  mcu,     \* application or bootloader, and the state of its update
  flash,   \* what the application flash holds
  faults

wire == <<toMcu, toHost>>
host == <<run, pc, await, offset, sector, port, result>>
vars == <<host, wire, mcu, flash, faults>>

Nothing == [kind |-> "none", n |-> 0]

TypeOK ==
  /\ run \in [action : {"inspect", "validate", "identify", "flash"}, request : BOOLEAN,
              complete : BOOLEAN, valid : BOOLEAN]
  /\ pc \in {"check", "open", "request", "close", "reopen", "end", "done"} \cup Exchange
  /\ await \in BOOLEAN /\ offset \in 0..Size /\ sector \in Byte
  /\ port \in {Closed, 115200, 230400} /\ result \in {"none", "ok", "failed"}
  /\ toMcu \in [kind : {"none", "request"} \cup Exchange, n : 0..Size]
  /\ toHost \in Seq(Byte)
  /\ mcu \in [mode : {"app", "boot"}, expects : {"handshake", "command", "length", "data"},
              got : 0..Size, sector : Sectors, id : Identities]
  /\ flash \in {"old", "torn", "new"} /\ faults \in 0..MaxFaults

Init ==
  /\ run \in [action : {"inspect", "validate", "identify", "flash"}, request : BOOLEAN,
              complete : BOOLEAN, valid : BOOLEAN]
  /\ pc = "check" /\ await = FALSE /\ offset = 0 /\ sector = 0
  /\ port = Closed /\ result = "none" /\ toMcu = Nothing /\ toHost = <<>>
  /\ mcu \in [mode : {"app", "boot"}, expects : {"handshake"}, got : {0},
              sector : Sectors, id : Identities]
  /\ flash = "old" /\ faults = 0

-----------------------------------------------------------------------------
(* The command. *)

\* Any FlasherError or OSError: main closes what is open and exits with 1.
Fail == pc' = "end" /\ result' = "failed" /\ await' = FALSE

\* main before the port: inspect and validate end here, flash needs a complete policy
\* and an image that satisfies it.
Check ==
  /\ pc = "check"
  /\ IF run.action = "flash" /\ ~(run.complete /\ run.valid)
     THEN pc' = "done" /\ result' = "failed"
     ELSE IF run.action \in {"inspect", "validate"}
          THEN pc' = "done" /\ result' = IF run.valid THEN "ok" ELSE "failed"
          ELSE pc' = "open" /\ UNCHANGED result
  /\ UNCHANGED <<run, await, offset, sector, port, wire, mcu, flash, faults>>

\* SerialTransport, and set_baudrate in request_bootloader and identify.  When the port
\* cannot be opened there is nothing to close.
Open ==
  /\ pc = "open"
  /\ \/ /\ port' = IF run.request THEN 230400 ELSE 115200
        /\ pc' = IF run.request THEN "request" ELSE "handshake"
        /\ UNCHANGED result
     \/ pc' = "done" /\ result' = "failed" /\ UNCHANGED port
  /\ UNCHANGED <<run, await, offset, sector, wire, mcu, flash, faults>>

\* request_bootloader: the request is written and drained; nobody answers it.
Request ==
  /\ pc = "request" /\ pc' = "close" /\ toMcu' = [Nothing EXCEPT !.kind = "request"]
  /\ UNCHANGED <<run, await, offset, sector, port, result, toHost, mcu, flash, faults>>

\* Then the port is closed for a second, and with it goes what it received ...
Close ==
  /\ pc = "close" /\ pc' = "reopen" /\ port' = Closed /\ toHost' = <<>>
  /\ UNCHANGED <<run, await, offset, sector, result, toMcu, mcu, flash, faults>>

\* ... and opened at the bootloader's rate, if it can be.
Reopen ==
  /\ pc = "reopen"
  /\ \/ port' = 115200 /\ pc' = "handshake" /\ UNCHANGED <<result, await>>
     \/ Fail /\ UNCHANGED port
  /\ UNCHANGED <<run, offset, sector, wire, mcu, flash, faults>>

\* The units of the next chunk.
Unit == IF Size - offset < sector THEN Size - offset ELSE sector

\* _write: the whole request, or a short write that fails.
Send ==
  /\ pc \in Exchange /\ ~await
  /\ IF pc = "update" /\ Size = 0 THEN Fail /\ UNCHANGED toMcu
     ELSE \/ /\ toMcu' = [kind |-> pc, n |-> IF pc = "data" THEN Unit ELSE 0]
             /\ await' = TRUE /\ UNCHANGED <<pc, result>>
          \/ Fail /\ UNCHANGED toMcu
  /\ UNCHANGED <<run, offset, sector, port, toHost, mcu, flash, faults>>

\* How many bytes the reply has.
ReplySize == IF pc = "handshake" THEN 1 ELSE 2

Reply == SubSeq(toHost, 1, ReplySize)

\* Bug: nobody looks at the checksum.
CheckedAny == TRUE

\* wire_checksum of what a reply says.
Checked == pc # "handshake" => Reply[2] = 255 - Reply[1]

\* What the reply has to say: read_identity and the allow-list, read_sector_size,
\* decode_status and the status each exchange wants.
SaysOk ==
  CASE pc = "handshake" -> Reply[1] = Handshake
    [] pc = "version" -> Reply[1] \in (IF run.action = "flash" THEN Allowed ELSE Identities)
    [] pc = "sector" -> Reply[1] # 0
    [] pc = "data" -> Reply[1] = IF offset + Unit = Size THEN Complete ELSE Accepted
    [] OTHER -> Reply[1] = Accepted

\* Where a good reply leads.
Onward ==
  CASE pc = "version" /\ run.action = "identify" -> "end"
    [] pc = "data" -> IF offset + Unit = Size THEN "application" ELSE "data"
    [] OTHER -> After[pc]

Receive ==
  /\ await /\ Len(toHost) >= ReplySize
  /\ toHost' = SubSeq(toHost, ReplySize + 1, Len(toHost))
  /\ IF Checked /\ SaysOk
     THEN /\ pc' = Onward /\ await' = FALSE
          /\ result' = IF Onward = "end" THEN "ok" ELSE result
          /\ sector' = IF pc = "sector" THEN Reply[1] ELSE sector
          /\ offset' = IF pc = "data" THEN offset + Unit ELSE offset
     ELSE Fail /\ UNCHANGED <<sector, offset>>
  /\ UNCHANGED <<run, port, toMcu, mcu, flash, faults>>

\* A read ends after 2 s with fewer bytes.
TimeOut ==
  /\ await /\ Len(toHost) < ReplySize /\ Fail
  /\ UNCHANGED <<run, offset, sector, port, wire, mcu, flash, faults>>

\* finally: transport.close().
End ==
  /\ pc = "end" /\ pc' = "done" /\ port' = Closed /\ toHost' = <<>>
  /\ UNCHANGED <<run, await, offset, sector, result, toMcu, mcu, flash, faults>>

Command == Check \/ Open \/ Request \/ Close \/ Reopen \/ Send \/ Receive \/ TimeOut \/ End

-----------------------------------------------------------------------------
(* The MCU and the wire. *)

Answers(bytes) == toHost' = toHost \o bytes
Status(s) == Answers(<<s, 255 - s>>)

\* The application takes the bootloader request, at its own rate.
EntersBootloader ==
  /\ toMcu.kind = "request" /\ toMcu' = Nothing
  /\ mcu' = IF mcu.mode = "app" THEN [mcu EXCEPT !.mode = "boot"] ELSE mcu
  /\ UNCHANGED <<host, toHost, flash, faults>>

\* The bootloader takes a request that it expects, or reports an error.
Takes ==
  /\ mcu.mode = "boot" /\ port = 115200 /\ toMcu' = Nothing
  /\ \/ /\ toMcu.kind = "handshake" /\ mcu.expects = "handshake"
        /\ mcu' = [mcu EXCEPT !.expects = "command"]
        /\ Answers(<<Handshake>>) /\ UNCHANGED flash
     \/ /\ toMcu.kind = "version" /\ mcu.expects = "command"
        /\ Status(mcu.id) /\ UNCHANGED <<mcu, flash>>
     \/ /\ toMcu.kind = "sector" /\ mcu.expects = "command"
        /\ Status(mcu.sector) /\ UNCHANGED <<mcu, flash>>
     \/ /\ toMcu.kind = "update" /\ mcu.expects = "command"
        /\ mcu' = [mcu EXCEPT !.expects = "length"]
        /\ flash' = "torn" /\ Status(Accepted)
     \/ /\ toMcu.kind = "length" /\ mcu.expects = "length"
        /\ mcu' = [mcu EXCEPT !.expects = "data"]
        /\ Status(Accepted) /\ UNCHANGED flash
     \/ /\ toMcu.kind = "data" /\ mcu.expects = "data"
        /\ toMcu.n = IF Size - mcu.got < mcu.sector THEN Size - mcu.got ELSE mcu.sector
        /\ mcu' = [mcu EXCEPT !.got = @ + toMcu.n,
                              !.expects = IF mcu.got + toMcu.n = Size THEN "command" ELSE @]
        /\ flash' = IF mcu.got + toMcu.n = Size THEN "new" ELSE flash
        /\ Status(IF mcu.got + toMcu.n = Size THEN Complete ELSE Accepted)
     \/ /\ toMcu.kind = "application" /\ mcu.expects = "command"
        /\ mcu' = [mcu EXCEPT !.mode = "app", !.expects = "handshake"]
        /\ Status(Accepted) /\ UNCHANGED flash
     \/ /\ toMcu.kind \in {"length", "data"} /\ mcu.expects = toMcu.kind
        /\ mcu' = [mcu EXCEPT !.expects = "command"] /\ UNCHANGED flash
        /\ \E error \in {31, 33} : Status(error)
  /\ UNCHANGED <<host, faults>>

\* A request is lost or is not for whoever runs.
LosesRequest ==
  /\ toMcu # Nothing /\ toMcu' = Nothing /\ UNCHANGED <<host, toHost, mcu, flash, faults>>

\* A byte of a reply is lost.
LosesByte ==
  /\ \E i \in DOMAIN toHost : toHost' = RemoveAt(toHost, i)
  /\ UNCHANGED <<host, toMcu, mcu, flash, faults>>

\* Noise: a byte too many, or another one.
Noise ==
  /\ port # Closed /\ faults < MaxFaults /\ faults' = faults + 1
  /\ \E b \in Strays :
       \/ \E i \in 1..Len(toHost) + 1 : toHost' = InsertAt(toHost, i, b)
       \/ \E i \in DOMAIN toHost : toHost' = [toHost EXCEPT ![i] = b]
  /\ UNCHANGED <<host, toMcu, mcu, flash>>

Next ==
  Command \/ EntersBootloader \/ Takes \/ LosesRequest \/ LosesByte \/ Noise

Spec == Init /\ [][Next]_vars

-----------------------------------------------------------------------------
(* Properties. *)

\* A chunk that the host counts was taken by the bootloader: no byte too many and no
\* loss makes it read an answer ahead of time.
CountedIsTaken == offset <= mcu.got

\* When the flasher reports success the bootloader has the whole image and has started
\* it.
CompleteMeansStarted ==
  result = "ok" /\ run.action = "flash" => flash = "new" /\ mcu.mode = "app"

\* Nothing is erased unless the command is flash, with a complete policy, an image that
\* satisfies it and an allowed board.
ErasedOnPurpose ==
  flash # "old" => run.action = "flash" /\ run.complete /\ run.valid /\ mcu.id \in Allowed

\* A command that has ended has closed the port.
PortReleased == pc = "done" => port = Closed

\* What the host believes of the bootloader is so, and what it does is on purpose, although
\* replies have no framing.
WireSound ==
  TypeOK /\ CountedIsTaken /\ CompleteMeansStarted /\ ErasedOnPurpose /\ PortReleased
=============================================================================
