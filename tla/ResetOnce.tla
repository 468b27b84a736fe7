------------------------------ MODULE ResetOnce ------------------------------
(***************************************************************************)
(* f005_reset_from_shutdown_once.py: a helper that sends one reset to an   *)
(* F005 whose firmware is in shutdown.  It locks the UART without waiting, *)
(* identifies the MCU, reads its configuration state and resets it only    *)
(* when it is configured and in shutdown.  Each transmission has to be the *)
(* one the gate was opened for.  Several runs of it and Klippy compete for *)
(* the UART.                                                               *)
(*                                                                         *)
(* Klipper's serial layer, which repeats a query, its MCU and Klippy are   *)
(* external.  Closing the port waits for what was written to it.           *)
(***************************************************************************)
EXTENDS Naturals

CONSTANTS
  Runs,      \* runs of the helper
  MaxOffset, \* MAX_IDENTIFY_BYTES, in answers of 40 bytes
  Tries      \* transmissions of one query before Klipper gives up

ASSUME ResetAssumption ==
  MaxOffset \in Nat \ {0} /\ Tries \in Nat \ {0} /\ Runs \cap {"free", "klippy"} = {}

Queries == {"identify", "get_config"}
Inside == {"identify", "get_config", "decide", "written", "close"}
Config == [is_config : BOOLEAN, is_shutdown : BOOLEAN]
Fresh == [is_config |-> FALSE, is_shutdown |-> FALSE]

Run == [pc : {"idle", "open", "exit 0", "exit 1"} \cup Inside,
        approved : Queries \cup {"none"},  \* approved_raw
        offset : 0..MaxOffset + 1,         \* of the next identify
        tries : 0..Tries,
        config : Config,                   \* the answer of get_config
        error : BOOLEAN]

VARIABLES
  run,
  uart,     \* who has locked the port
  toMcu,    \* a message of the holder
  toHost,   \* the answer
  mcu       \* is_config and is_shutdown of the MCU

vars == <<run, uart, toMcu, toHost, mcu>>

NotRun == [pc |-> "idle", approved |-> "none", offset |-> 0, tries |-> 0,
           config |-> Fresh, error |-> FALSE]
Silence == [kind |-> "none", config |-> Fresh]

TypeOK ==
  /\ run \in [Runs -> Run] /\ uart \in Runs \cup {"free", "klippy"}
  /\ toMcu \in {"none", "reset"} \cup Queries
  /\ toHost \in [kind : {"none", "more", "end", "config"}, config : Config]
  /\ mcu \in Config

Init ==
  /\ run = [r \in Runs |-> NotRun] /\ uart = "free"
  /\ toMcu = "none" /\ toHost = Silence /\ mcu \in Config

-----------------------------------------------------------------------------
(* The helper. *)

Set(r, changed) == run' = [run EXCEPT ![r] = changed]

\* Any exception: the error is kept, the reader disconnects and the port is closed.
Failed(state) == [state EXCEPT !.pc = "close", !.error = TRUE, !.approved = "none", !.tries = 0]

Start(r) ==
  /\ run[r].pc = "idle" /\ Set(r, [NotRun EXCEPT !.pc = "open"])
  /\ UNCHANGED <<uart, toMcu, toHost, mcu>>

\* Bug: the port is opened without its lock.
OpenUnlocked(r) ==
  /\ run[r].pc = "open" /\ uart' = r /\ Set(r, [run[r] EXCEPT !.pc = "identify"])
  /\ UNCHANGED <<toMcu, toHost, mcu>>

\* RawUart.open: LOCK_NB.
Open(r) ==
  /\ run[r].pc = "open"
  /\ IF uart = "free"
     THEN uart' = r /\ Set(r, [run[r] EXCEPT !.pc = "identify"])
     ELSE Set(r, [run[r] EXCEPT !.pc = "exit 1", !.error = TRUE]) /\ UNCHANGED uart
  /\ UNCHANGED <<toMcu, toHost, mcu>>

\* begin_query
BeginQuery(r) ==
  /\ run[r].pc \in Queries /\ run[r].approved = "none"
  /\ Set(r, IF run[r].pc = "identify" /\ run[r].offset > MaxOffset
            THEN Failed(run[r]) ELSE [run[r] EXCEPT !.approved = run[r].pc])
  /\ UNCHANGED <<uart, toMcu, toHost, mcu>>

\* raw_send through check_raw: Klipper transmits the query, again when no answer came.
Transmit(r) ==
  /\ run[r].approved # "none" /\ toMcu = "none"
  /\ IF run[r].tries < Tries
     THEN /\ toMcu' = run[r].approved
          /\ Set(r, [run[r] EXCEPT !.tries = @ + 1])
     ELSE Set(r, Failed(run[r])) /\ UNCHANGED toMcu
  /\ UNCHANGED <<uart, toHost, mcu>>

\* send_with_response has its answer and closes the gate.
Answered(r) ==
  /\ run[r].approved # "none" /\ toHost # Silence /\ toHost' = Silence
  /\ LET done == [run[r] EXCEPT !.approved = "none", !.tries = 0]
     IN  Set(r, CASE run[r].pc = "identify" /\ toHost.kind = "more" -> [done EXCEPT !.offset = @ + 1]
                  [] run[r].pc = "identify" /\ toHost.kind = "end" -> [done EXCEPT !.pc = "get_config"]
                  [] run[r].pc = "get_config" /\ toHost.kind = "config" ->
                       [done EXCEPT !.pc = "decide", !.config = toHost.config]
                  [] OTHER -> run[r])
  /\ UNCHANGED <<uart, toMcu, mcu>>

\* The check of main, and reset_once.
Decide(r) ==
  /\ run[r].pc = "decide"
  /\ IF run[r].config = [is_config |-> TRUE, is_shutdown |-> TRUE]
     THEN Set(r, [run[r] EXCEPT !.pc = "written"]) /\ toMcu' = "reset"
     ELSE Set(r, Failed(run[r])) /\ UNCHANGED toMcu
  /\ UNCHANGED <<uart, toHost, mcu>>

\* wait_for_serialqueue_write: the writer has submitted it within 10 ms, or not; then it
\* is queued and goes with the disconnect, or was written unseen.
Wait(r) ==
  /\ run[r].pc = "written"
  /\ \/ Set(r, [run[r] EXCEPT !.pc = "close"]) /\ UNCHANGED toMcu
     \/ Set(r, Failed(run[r])) /\ toMcu' \in {toMcu, "none"}
  /\ UNCHANGED <<uart, toHost, mcu>>

\* finally, on every path.
Close(r) ==
  /\ run[r].pc = "close" /\ toMcu = "none" /\ uart' = IF uart = r THEN "free" ELSE uart
  /\ Set(r, [run[r] EXCEPT !.pc = IF run[r].error THEN "exit 1" ELSE "exit 0"])
  /\ toHost' = Silence /\ UNCHANGED <<toMcu, mcu>>

Step(r) ==
  Open(r) \/ BeginQuery(r) \/ Transmit(r) \/ Answered(r) \/ Decide(r) \/ Wait(r) \/ Close(r)

-----------------------------------------------------------------------------
(* The MCU, the line and Klippy. *)

\* The MCU takes a message.  Its dictionary ends some time.
Takes ==
  /\ toMcu # "none" /\ toMcu' = "none"
  /\ CASE toMcu = "identify" -> toHost' \in {[Silence EXCEPT !.kind = k] : k \in {"more", "end"}}
       [] toMcu = "get_config" -> toHost' = [kind |-> "config", config |-> mcu]
       [] toMcu = "reset" -> UNCHANGED toHost
  /\ mcu' = IF toMcu = "reset" THEN Fresh ELSE mcu
  /\ UNCHANGED <<run, uart>>

Loses ==
  /\ \/ toMcu # "none" /\ toMcu' = "none" /\ UNCHANGED toHost
     \/ toHost # Silence /\ toHost' = Silence /\ UNCHANGED toMcu
  /\ UNCHANGED <<run, uart, mcu>>

\* Klippy locks the port, configures a fresh MCU, stops it or resets it, and leaves.
Klippy ==
  /\ \/ uart = "free" /\ uart' = "klippy" /\ UNCHANGED mcu
     \/ /\ uart = "klippy" /\ UNCHANGED uart
        /\ \/ mcu' = [mcu EXCEPT !.is_config = TRUE]
           \/ mcu' = [mcu EXCEPT !.is_shutdown = TRUE]
           \/ mcu' = Fresh
     \/ uart = "klippy" /\ uart' = "free" /\ UNCHANGED mcu
  /\ UNCHANGED <<run, toMcu, toHost>>

Next == (\E r \in Runs : Start(r) \/ Step(r)) \/ Takes \/ Loses \/ Klippy

Spec == Init /\ [][Next]_vars

-----------------------------------------------------------------------------
(* Properties. *)

\* A reset of the helper meets an MCU that is configured and in shutdown, however long
\* ago it said so and whoever else wants to use it.
ResetInShutdown == toMcu = "reset" => mcu.is_config /\ mcu.is_shutdown

\* Nothing that a helper has written reaches the MCU of a Klippy that was started since.
KlippyAlone == uart = "klippy" => toMcu = "none"

\* Of a run: inside, it holds the port; its gate is open for the query it makes; and what
\* it knows of the MCU, or is about to, is so.
Sound(r) ==
  /\ run[r].pc \in Inside => uart = r
  /\ run[r].approved # "none" => run[r].approved = run[r].pc
  /\ run[r].approved = "identify" => run[r].offset <= MaxOffset
  /\ run[r].pc = "decide" => run[r].config = mcu
  /\ run[r].pc \in Queries /\ toHost.kind = "config" => toHost.config = mcu

\* Messages are the holder's, a reset is its last one, and what it knows is so as long as it
\* is going to act on it.  Why the two above last from step to step.
HolderKnows ==
  /\ toMcu # "none" \/ toHost # Silence => uart \in Runs
  /\ toMcu = "reset" => run[uart].pc \in {"written", "close"}
  /\ \A r \in Runs : Sound(r)

\* The lock and the two answers are enough for a reset that nobody else meets.
ResetSound == TypeOK /\ HolderKnows /\ ResetInShutdown /\ KlippyAlone
=============================================================================
