----------------------------- MODULE FirstPrint -----------------------------
(***************************************************************************)
(* The test-only print of the F005 bring-up: f005_phase2_sanitize_gcode.py *)
(* filters the slicer's file, f005_phase2_pty_feeder.py hands the result   *)
(* to Klippy's PTY one command at a time, waits for each ok, and turns the *)
(* heaters off when anything fails.  A feeder may be killed; what it wrote *)
(* stays in the PTY and is answered to the next one.  A write that is      *)
(* interrupted, killed or given up may leave a part of a line, to which    *)
(* the next line that is written is joined.                                *)
(*                                                                         *)
(* A line is its command word.  Klippy is external: it executes one line   *)
(* after the other, answers each with text and ok, and may fail in a       *)
(* command or shut down, which turns all off.  A joined line is unknown to *)
(* it, fails, or changes one output.                                       *)
(***************************************************************************)
EXTENDS Naturals, Sequences, SequencesExt

CONSTANTS
  Files,        \* slicer files: sequences of lines
  MaxSessions,  \* bound: runs of the feeder
  MaxKills      \* bound: feeders that are killed

ASSUME PrintAssumption ==
  Files \subseteq Seq(STRING) /\ MaxSessions \in Nat /\ MaxKills \in Nat

\* What the filter drops: M73, EXCLUDE_OBJECT_*, PRINTER_PARAM and ACCEL_TO_DECEL.
Dropped == {"M73", "EXCLUDE_OBJECT_START", "ACCEL_TO_DECEL"}
Allowed == {"G1", "G28", "M104", "M190", "M106"}

Preflight == <<"STATUS", "QUERY">>
SafeStop == <<"M104 S0", "M140 S0", "M106 S0">>

\* The heater or fan that a command turns on or off.
Output == [hotend |-> {"M104", "M104 S0"}, bed |-> {"M190", "M140 S0"}, fan |-> {"M106", "M106 S0"}]

VARIABLES
  file,     \* the slicer's file
  pc,       \* of the feeder: idle, check, preflight, print, stop, done
  at,       \* the line, or the line of the safe stop, that is next
  await,    \* it waits for ok
  heard,    \* responses of command()
  part,     \* a part of a line, without its end, is in the PTY
  gaveUp,   \* the safe stop of this session has given up, or was killed
  toKlippy, \* lines in the PTY
  toFeeder, \* responses in the PTY
  klippy,   \* idle, shutdown, or the command that is executed
  on,       \* heaters and fan with a target
  sessions, kills

feeder == <<pc, at, await, heard, part, gaveUp>>
printVars == <<file, feeder, toKlippy, toFeeder, klippy, on, sessions, kills>>

-----------------------------------------------------------------------------
(* The filter. *)

ShouldDrop(line) == line \in Dropped

\* command_type is None for a blank line or a comment.
Supported(line) == line \in Allowed \cup {"comment"}

\* What is left of a file, as the numbers of its lines.
Kept(lines) == {i \in DOMAIN lines : ~ShouldDrop(lines[i])}

\* main: a line that is neither dropped nor supported ends it before anything is written.
Refused(lines) == \E i \in Kept(lines) : ~Supported(lines[i])

\* What the feeder sends of it.
Commands(lines) == {i \in Kept(lines) : lines[i] # "comment"}

-----------------------------------------------------------------------------

Texts == {"ready", "filament", "text"}
Lines == Allowed \cup ToSet(Preflight) \cup ToSet(SafeStop) \cup {"joined"}

PrintTypeOK ==
  /\ file \in Files /\ pc \in {"idle", "preflight", "print", "stop"}
  /\ at \in 1..Len(file) + 4 /\ await \in BOOLEAN /\ heard \subseteq Texts
  /\ part \in BOOLEAN /\ gaveUp \in BOOLEAN
  /\ toKlippy \in Seq(Lines)
  /\ toFeeder \in Seq(Texts \cup {"!!", "ok"})
  /\ klippy \in {"idle", "shutdown"} \cup Lines
  /\ on \subseteq DOMAIN Output /\ sessions \in 0..MaxSessions /\ kills \in 0..MaxKills

PrintInit ==
  /\ file \in Files /\ pc = "idle" /\ at = 1 /\ await = FALSE /\ heard = {}
  /\ part = FALSE /\ gaveUp = FALSE
  /\ toKlippy = <<>> /\ toFeeder = <<>> /\ klippy = "idle" /\ on = {}
  /\ sessions = 0 /\ kills = 0

-----------------------------------------------------------------------------
(* The feeder. *)

\* A file whose digest is another one is not printed: only the filter's output is.  A
\* session drains what is answered already.
StartFeeder ==
  /\ pc = "idle" /\ sessions < MaxSessions /\ ~Refused(file)
  /\ pc' = "preflight" /\ at' = 1 /\ await' = FALSE /\ heard' = {} /\ toFeeder' = <<>>
  /\ gaveUp' = FALSE /\ sessions' = sessions + 1
  /\ UNCHANGED <<file, part, toKlippy, klippy, on, kills>>

\* The lines of the phase.
Script ==
  CASE pc = "preflight" -> Preflight
    [] pc = "print" -> file
    [] OTHER -> SafeStop

\* Those that are still to be sent.
Due == {i \in at..Len(Script) : pc = "print" => i \in Commands(file)}

\* A line is written whole; a part of a line that is there becomes its beginning.
Writes(line) == toKlippy' = Append(toKlippy, IF part THEN "joined" ELSE line) /\ part' = FALSE

\* What ends a write leaves a part of the line that is being written, or none of it.
Writing ==
  \/ pc \in {"preflight", "print"} /\ ~await /\ Due # {}
  \/ pc = "stop" /\ at <= Len(SafeStop)
Broken == part' = part \/ (Writing /\ part' = TRUE)

\* command() writes the next of them.
Send ==
  /\ pc \in {"preflight", "print"} /\ ~await
  /\ \E i \in Due :
       /\ \A j \in Due : i <= j
       /\ at' = i /\ Writes(Script[i])
  /\ await' = TRUE /\ heard' = {}
  /\ UNCHANGED <<file, pc, gaveUp, toFeeder, klippy, on, sessions, kills>>

\* The except clause: a failure, a time-out or a signal in any command.
Abort == pc' = "stop" /\ at' = 1 /\ await' = FALSE

\* Bug: the answer of STATUS is not looked at.
PassesAlways == TRUE

\* The preflight wants Ready, then filament.
Passes == pc = "preflight" => (IF at = 1 THEN "ready" ELSE "filament") \in heard

\* command() takes a response: ok ends it, an error aborts, the rest is remembered.
Receive ==
  /\ await /\ toFeeder # <<>> /\ toFeeder' = Tail(toFeeder)
  /\ CASE Head(toFeeder) = "ok" /\ Passes ->
            pc' = (IF pc = "preflight" /\ at = 2 THEN "print" ELSE pc)
            /\ at' = (IF pc = "preflight" /\ at = 2 THEN 1 ELSE at + 1)
            /\ await' = FALSE /\ UNCHANGED heard
       [] Head(toFeeder) = "ok" /\ ~Passes -> Abort /\ UNCHANGED heard
       [] Head(toFeeder) = "!!" -> Abort /\ UNCHANGED heard
       [] OTHER -> heard' = heard \cup {Head(toFeeder)} /\ UNCHANGED <<pc, at, await>>
  /\ UNCHANGED <<file, part, gaveUp, toKlippy, klippy, on, sessions, kills>>

\* A time-out, request_stop, or a write that fails.
Interrupted ==
  /\ pc \in {"preflight", "print"} /\ Abort /\ Broken
  /\ UNCHANGED <<file, heard, gaveUp, toKlippy, toFeeder, klippy, on, sessions, kills>>

\* Bug: the last line of the safe stop is left out.
StoppingShort ==
  /\ pc = "stop" /\ at <= 2 /\ Writes(Script[at]) /\ at' = at + 1
  /\ UNCHANGED <<file, pc, await, heard, gaveUp, toFeeder, klippy, on, sessions, kills>>

\* safe_stop waits for no answers.
Stopping ==
  /\ pc = "stop" /\ at <= Len(SafeStop) /\ Writes(Script[at]) /\ at' = at + 1
  /\ UNCHANGED <<file, pc, await, heard, gaveUp, toFeeder, klippy, on, sessions, kills>>

\* Its deadline, a write without progress, or an error: it says so and ends.
GivesUp ==
  /\ pc = "stop" /\ at <= Len(SafeStop) /\ Broken /\ gaveUp' = TRUE /\ pc' = "idle"
  /\ UNCHANGED <<file, at, await, heard, toKlippy, toFeeder, klippy, on, sessions, kills>>

\* main returns: PRINT COMPLETE, or after the safe stop.
End ==
  /\ \/ pc = "print" /\ ~await /\ Due = {}
     \/ pc = "stop" /\ at > Len(SafeStop)
  /\ pc' = "idle"
  /\ UNCHANGED <<file, at, await, heard, part, gaveUp, toKlippy, toFeeder, klippy, on, sessions, kills>>

Killed ==
  /\ pc # "idle" /\ kills < MaxKills /\ kills' = kills + 1 /\ pc' = "idle" /\ await' = FALSE
  /\ Broken /\ gaveUp' = (gaveUp \/ pc = "stop")
  /\ UNCHANGED <<file, at, heard, toKlippy, toFeeder, klippy, on, sessions>>

-----------------------------------------------------------------------------
(* Klippy. *)

KlippyTakes ==
  /\ klippy = "idle" /\ toKlippy # <<>>
  /\ klippy' = Head(toKlippy) /\ toKlippy' = Tail(toKlippy)
  /\ UNCHANGED <<file, feeder, toFeeder, on, sessions, kills>>

KlippyExecutes ==
  /\ klippy \in Lines /\ klippy' = "idle"
  /\ \/ /\ klippy # "joined"
        /\ on' = {o \in DOMAIN Output : IF klippy \in Output[o] THEN klippy \in Allowed ELSE o \in on}
        /\ toFeeder' = toFeeder \o
             (CASE klippy = "STATUS" -> <<"ready", "ok">>
                [] klippy = "QUERY" -> <<"filament", "ok">>
                [] OTHER -> <<"ok">>)
     \/ klippy = "QUERY" /\ toFeeder' = toFeeder \o <<"text", "ok">> /\ UNCHANGED on
     \/ klippy \in Allowed \cup {"joined"} /\ toFeeder' = toFeeder \o <<"!!", "ok">> /\ UNCHANGED on
     \/ /\ klippy = "joined" /\ toFeeder' \in {toFeeder \o <<"ok">>, toFeeder \o <<"text", "ok">>}
        /\ \E o \in DOMAIN Output : on' \in {on, on \cup {o}, on \ {o}}
  /\ UNCHANGED <<file, feeder, toKlippy, sessions, kills>>

KlippyShutsDown ==
  /\ klippy # "shutdown" /\ klippy' = "shutdown" /\ on' = {}
  /\ toFeeder' = toFeeder \o (IF klippy = "idle" THEN <<"!!">> ELSE <<"!!", "ok">>)
  /\ UNCHANGED <<file, feeder, toKlippy, sessions, kills>>

\* In shutdown every line is answered with an error, and STATUS with a text.
KlippyDeclines ==
  /\ klippy = "shutdown" /\ toKlippy # <<>> /\ toKlippy' = Tail(toKlippy)
  /\ toFeeder' = toFeeder \o (IF Head(toKlippy) = "STATUS" THEN <<"text", "ok">> ELSE <<"!!", "ok">>)
  /\ UNCHANGED <<file, feeder, klippy, on, sessions, kills>>

Feeder == Send \/ Receive \/ Stopping \/ End
KlippyStep == KlippyTakes \/ KlippyExecutes \/ KlippyDeclines

PrintNext == StartFeeder \/ Feeder \/ Interrupted \/ GivesUp \/ Killed \/ KlippyStep \/ KlippyShutsDown

PrintSpec == PrintInit /\ [][PrintNext]_printVars

\* Both processes run on, and Klippy comes to the end of each command.
PrintLiveSpec == PrintSpec /\ WF_printVars(Feeder) /\ WF_printVars(KlippyStep)

-----------------------------------------------------------------------------
(* Properties. *)

\* The documented transport: one command at a time, the next when the one before is
\* answered, also with what an earlier feeder left in the PTY.  Holds for two feeders;
\* when two have been stopped, a third may take the answers to their preflight for its own.
OneAtATime ==
  /\ PrintTypeOK
  /\ pc = "print" => Len(toKlippy) + (IF klippy \in Lines THEN 1 ELSE 0) <= (IF await THEN 1 ELSE 0)

\* "SAFE STOP: heater/fan targets -> 0".  A stop that writes its lines turns bed and fan off,
\* also when its first line was joined to a part of another one: that costs it the hotend
\* only.  An abort between two lines turns all off, unless the stop says that it gave up, or
\* is killed.
AbortCools ==
  /\ pc = "stop" /\ at > Len(SafeStop) ~> on \subseteq {"hotend"}
  /\ pc = "stop" /\ at = 1 /\ ~part ~> on = {} \/ gaveUp

=============================================================================
