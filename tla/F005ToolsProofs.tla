-------------------------- MODULE F005ToolsProofs --------------------------
(* Proofs about the tools of the F005 bring-up: the reset helper (ResetOnce), the first print *)
(* (FirstPrint) and the image (F005Image), for any files, binaries, manifests and bounds.     *)
EXTENDS ResetOnce, FirstPrint, F005Image, SequenceTheorems, WellFoundedInduction, TLAPS

-----------------------------------------------------------------------------
(* The reset helper: nothing else meets its reset. *)

USE DEF vars

\* The inductive invariant.
Inv == TypeOK /\ HolderKnows /\ ResetInShutdown

\* The values that are not read from a run.
LEMMA Values ==
  /\ NotRun \in Run /\ Fresh \in Config
  /\ Silence \in [kind : {"none", "more", "end", "config"}, config : Config] /\ Silence.kind = "none"
<1>1. Fresh \in Config
  BY DEF Fresh, Config
<1>2. 0 \in 0..MaxOffset + 1 /\ 0 \in 0..Tries
  BY ResetAssumption
<1>3. NotRun \in Run
  BY <1>1, <1>2 DEF NotRun, Run
<1> QED
  BY <1>1, <1>3 DEF Silence

\* What an error leaves of a run.
LEMMA FailedRun ==
  ASSUME NEW state \in Run
  PROVE  /\ Failed(state) \in Run /\ Failed(state).pc = "close"
         /\ Failed(state).approved = "none"
<1>1. 0 \in 0..Tries /\ "close" \in Inside /\ "none" \in Queries \cup {"none"}
  BY ResetAssumption DEF Inside
<1> QED
  BY <1>1 DEF Failed, Run

\* The counters of a run.
LEMMA Counters ==
  ASSUME NEW state \in Run, NEW n
  PROVE  /\ n \in 0..Tries => [state EXCEPT !.tries = n] \in Run
         /\ n \in 0..MaxOffset + 1 => [state EXCEPT !.offset = n] \in Run
BY DEF Run

\* What closing the gate leaves of a run.
LEMMA GateClosed ==
  ASSUME NEW state \in Run
  PROVE  LET done == [state EXCEPT !.approved = "none", !.tries = 0]
         IN  /\ done \in Run /\ done.approved = "none"
             /\ done.pc = state.pc /\ done.offset = state.offset /\ done.config = state.config
<1>1. 0 \in 0..Tries
  BY ResetAssumption
<1> QED
  BY <1>1 DEF Run

\* What a step to p, or opening the gate for q, leaves of a run.
LEMMA Moved ==
  ASSUME NEW state \in Run, NEW p, NEW q
  PROVE  /\ LET next == [state EXCEPT !.pc = p]
             IN  next.pc = p /\ next.approved = state.approved /\ next.config = state.config
         /\ LET next == [state EXCEPT !.approved = q]
             IN  /\ next.pc = state.pc /\ next.approved = q /\ next.config = state.config
                 /\ next.offset = state.offset
         /\ LET next == [state EXCEPT !.tries = q]
             IN  /\ next.pc = state.pc /\ next.approved = state.approved /\ next.config = state.config
                 /\ next.offset = state.offset
BY DEF Run

\* A step of one run leaves the others as they are.
LEMMA SetRun ==
  ASSUME TypeOK, NEW r \in Runs, NEW state, Set(r, state)
  PROVE  run'[r] = state /\ \A s \in Runs : s # r => run'[s] = run[s]
BY DEF Set, TypeOK

\* The initial states satisfy it.
LEMMA InvInit == Init => Inv
<1> SUFFICES ASSUME Init PROVE Inv
  OBVIOUS
<1>1. TypeOK
  BY Values DEF Init, TypeOK
<1>2. HolderKnows
  BY Values DEF Init, HolderKnows, Sound, NotRun, Inside, Queries
<1> QED
  BY <1>1, <1>2 DEF Inv, Init, ResetInShutdown

\* A run that does not hold the port is outside.
LEMMA Outside ==
  ASSUME TypeOK, NEW s \in Runs, Sound(s), uart # s
  PROVE  run[s].pc \notin Inside /\ run[s].approved = "none"
BY DEF TypeOK, Run, Sound, Inside, Queries

\* A step of one run keeps the others sound.
LEMMA OthersSound ==
  ASSUME TypeOK, HolderKnows, NEW r \in Runs, NEW state, Set(r, state), uart \in {r, "free"}
  PROVE  \A s \in Runs : s # r => Sound(s)'
<1> TAKE s \in Runs
<1> HAVE s # r
<1>1. run'[s] = run[s]
  BY SetRun
<1>2. run[s].pc \notin Inside /\ run[s].approved = "none"
  BY Outside, ResetAssumption DEF HolderKnows
<1> QED
  BY <1>1, <1>2 DEF Sound, Inside, Queries

\* The parts of the invariant after a step.
LEMMA Assembled ==
  ASSUME toMcu' # "none" \/ toHost' # Silence => uart' \in Runs,
         toMcu' = "reset" => /\ run'[uart'].pc \in {"written", "close"}
                             /\ mcu'.is_config /\ mcu'.is_shutdown,
         \A r \in Runs : Sound(r)'
  PROVE  HolderKnows' /\ ResetInShutdown'
BY DEF HolderKnows, ResetInShutdown

\* A step keeps the types.
LEMMA TypeNext == ASSUME TypeOK, HolderKnows, [Next]_vars PROVE TypeOK'
<1> USE ResetAssumption, Values DEF TypeOK
<1>r. ASSUME NEW r \in Runs, NEW state \in Run, Set(r, state) PROVE run' \in [Runs -> Run]
  BY <1>r DEF Set
<1>1. ASSUME NEW r \in Runs, Start(r) \/ Open(r) PROVE TypeOK'
  <2>1. /\ [NotRun EXCEPT !.pc = "open"] \in Run /\ [run[r] EXCEPT !.pc = "identify"] \in Run
        /\ [run[r] EXCEPT !.pc = "exit 1", !.error = TRUE] \in Run
    BY DEF Run, Inside
  <2> QED
    BY <1>1, <1>r, <2>1 DEF Start, Open
<1>2. ASSUME NEW r \in Runs, BeginQuery(r) PROVE TypeOK'
  <2>1. run[r].pc \in Queries => [run[r] EXCEPT !.approved = run[r].pc] \in Run
    BY DEF Run
  <2> QED
    BY <1>2, <1>r, <2>1, FailedRun DEF BeginQuery
<1>3. ASSUME NEW r \in Runs, Transmit(r) PROVE TypeOK'
  <2>1. run[r].tries < Tries => [run[r] EXCEPT !.tries = run[r].tries + 1] \in Run
    <3>1. run[r].tries \in 0..Tries
      BY DEF Run
    <3>2. run[r].tries < Tries => run[r].tries + 1 \in 0..Tries
      BY <3>1
    <3> QED
      BY <3>2, Counters
  <2>2. run' \in [Runs -> Run]
    <3>1. CASE run[r].tries < Tries
      BY <1>3, <1>r, <2>1, <3>1 DEF Transmit
    <3>2. CASE ~(run[r].tries < Tries)
      <4>1. Set(r, Failed(run[r])) /\ Failed(run[r]) \in Run
        BY <1>3, <3>2, FailedRun DEF Transmit
      <4> QED
        BY <1>r, <4>1
    <3> QED
      BY <3>1, <3>2
  <2>3. run[r].approved \in Queries \cup {"none"}
    BY DEF Run
  <2> QED
    BY <1>3, <2>2, <2>3 DEF Transmit
<1>4. ASSUME NEW r \in Runs, Answered(r) PROVE TypeOK'
  <2> DEFINE done == [run[r] EXCEPT !.approved = "none", !.tries = 0]
  <2>1. done \in Run /\ done.offset = run[r].offset /\ toHost.config \in Config
    BY GateClosed
  <2>2. /\ [done EXCEPT !.pc = "get_config"] \in Run
        /\ [done EXCEPT !.pc = "decide", !.config = toHost.config] \in Run
    BY <2>1 DEF Run, Inside
  <2>3. run[r].approved = "identify" => [done EXCEPT !.offset = done.offset + 1] \in Run
    <3>1. run[r].offset \in 0..MaxOffset + 1
      BY DEF Run
    <3>2. run[r].approved = "identify" => run[r].offset + 1 \in 0..MaxOffset + 1
      BY <3>1 DEF HolderKnows, Sound
    <3> QED
      BY <2>1, <3>2, Counters
  <2>4. run[r].pc = "identify" => run[r].approved = "identify"
    BY <1>4 DEF Answered, HolderKnows, Sound
  <2> HIDE DEF done
  <2>5. run' \in [Runs -> Run]
    <3>1. PICK state \in Run : Set(r, state)
      <4>1. CASE run[r].pc = "identify" /\ toHost.kind = "more"
        BY <1>4, <2>3, <2>4, <4>1 DEF Answered, done
      <4>2. CASE run[r].pc = "identify" /\ toHost.kind = "end"
        BY <1>4, <2>2, <4>2 DEF Answered, done
      <4>3. CASE run[r].pc = "get_config" /\ toHost.kind = "config"
        BY <1>4, <2>2, <4>3 DEF Answered, done
      <4>4. CASE ~(\/ run[r].pc = "identify" /\ toHost.kind \in {"more", "end"}
                   \/ run[r].pc = "get_config" /\ toHost.kind = "config")
        BY <1>4, <4>4 DEF Answered
      <4> QED
        BY <4>1, <4>2, <4>3, <4>4
    <3> QED
      BY <1>r, <3>1
  <2> QED
    BY <1>4, <2>5 DEF Answered
<1>5. ASSUME NEW r \in Runs, Decide(r) \/ Wait(r) \/ Close(r) PROVE TypeOK'
  <2>1. \A step \in {"written", "close", "exit 0", "exit 1"} : [run[r] EXCEPT !.pc = step] \in Run
    BY DEF Run, Inside
  <2> QED
    BY <1>5, <1>r, <2>1, FailedRun DEF Decide, Wait, Close
<1>6. CASE Takes
  <2>1. /\ \A k \in {"more", "end"} :
             [Silence EXCEPT !.kind = k] \in [kind : {"none", "more", "end", "config"}, config : Config]
        /\ [kind |-> "config", config |-> mcu] \in [kind : {"none", "more", "end", "config"}, config : Config]
    BY DEF Silence
  <2>2. toHost' \in [kind : {"none", "more", "end", "config"}, config : Config]
    <3>1. CASE toMcu = "identify"
      BY <1>6, <2>1, <3>1 DEF Takes
    <3>2. CASE toMcu = "get_config"
      BY <1>6, <2>1, <3>2 DEF Takes
    <3>3. CASE toMcu = "reset"
      BY <1>6, <3>3 DEF Takes
    <3> QED
      BY <1>6, <3>1, <3>2, <3>3 DEF Takes, Queries
  <2> QED
    BY <1>6, <2>2 DEF Takes
<1>7. CASE Loses
  BY <1>7 DEF Loses
<1>8. CASE Klippy
  <2>1. [mcu EXCEPT !.is_config = TRUE] \in Config /\ [mcu EXCEPT !.is_shutdown = TRUE] \in Config
    BY DEF Config
  <2> QED
    BY <1>8, <2>1 DEF Klippy
<1>9. CASE UNCHANGED vars
  BY <1>9
<1> QED
  BY <1>1, <1>2, <1>3, <1>4, <1>5, <1>6, <1>7, <1>8, <1>9 DEF Next, Step

\* A step keeps the rest of the invariant.
LEMMA InvNext == Inv /\ [Next]_vars => Inv'
<1> SUFFICES ASSUME Inv, [Next]_vars PROVE Inv'
  OBVIOUS
<1> USE ResetAssumption DEF Inv, TypeOK, HolderKnows, ResetInShutdown
<1>t. TypeOK'
  BY TypeNext
<1> DEFINE Rest == HolderKnows' /\ ResetInShutdown'
<1>1. ASSUME NEW r \in Runs, Start(r) PROVE Rest
  <2>1. \A s \in Runs : Sound(s)'
    BY <1>1, SetRun DEF Start, Sound, NotRun, Inside, Queries
  <2>2. toMcu = "reset" => run'[uart].pc \in {"written", "close"}
    BY <1>1, SetRun DEF Start
  <2> QED
    BY <1>1, <2>1, <2>2 DEF Start
<1>2. ASSUME NEW r \in Runs, Open(r) PROVE Rest
  <2>1. uart = "free" => toMcu = "none" /\ toHost = Silence
    OBVIOUS
  <2>2. CASE uart = "free"
    <3>1. \A s \in Runs : s # r => Sound(s)'
      BY <1>2, <2>2, OthersSound DEF Open
    <3>2. Sound(r)'
      <4>1. run'[r] = [run[r] EXCEPT !.pc = "identify"] /\ toHost' = Silence /\ uart' = r
        BY <1>2, <2>1, <2>2, SetRun DEF Open
      <4>2. run'[r].pc = "identify" /\ run'[r].approved = "none"
        BY <2>2, <4>1, Moved, Outside
      <4> QED
        BY <4>1, <4>2, Values DEF Sound
    <3> QED
      BY <1>2, <2>1, <2>2, <3>1, <3>2 DEF Open
  <2>3. CASE uart # "free"
    <3> DEFINE refused == [run[r] EXCEPT !.pc = "exit 1", !.error = TRUE]
    <3>1. run'[r] = refused /\ UNCHANGED <<uart, toMcu, toHost, mcu>>
      BY <1>2, <2>3, SetRun DEF Open
    <3>2. refused.pc = "exit 1" /\ refused.approved = run[r].approved /\ run[r].approved \in Queries \cup {"none"}
      BY DEF Run
    <3>3. run[r].pc = "open" /\ run[r].approved = "none"
      BY <1>2, <3>2 DEF Open, Sound, Queries
    <3>4. Sound(r)'
      BY <3>1, <3>2, <3>3 DEF Sound, Queries, Inside
    <3>5. \A s \in Runs : s # r => run'[s] = run[s]
      BY <1>2, <2>3, SetRun DEF Open
    <3>6. \A s \in Runs : s # r => Sound(s)'
      BY <3>1, <3>5 DEF Sound
    <3>7. toMcu = "reset" => uart # r
      BY <3>3
    <3> QED
      BY <3>1, <3>4, <3>5, <3>6, <3>7
  <2> QED
    BY <2>2, <2>3
<1>3. ASSUME NEW r \in Runs, BeginQuery(r) PROVE Rest
  <2>1. uart = r
    BY <1>3 DEF BeginQuery, Sound, Inside, Queries
  <2>2. \A s \in Runs : s # r => Sound(s)'
    BY <1>3, <2>1, OthersSound DEF BeginQuery
  <2>3. CASE run[r].pc = "identify" /\ run[r].offset > MaxOffset
    <3>1. run'[r].pc = "close" /\ run'[r].approved = "none"
      BY <1>3, <2>3, SetRun, FailedRun DEF BeginQuery
    <3> QED
      BY <1>3, <2>1, <2>2, <2>3, <3>1 DEF BeginQuery, Sound, Queries
  <2>4. CASE ~(run[r].pc = "identify" /\ run[r].offset > MaxOffset)
    <3>1. run'[r] = [run[r] EXCEPT !.approved = run[r].pc]
      BY <1>3, <2>4, SetRun DEF BeginQuery
    <3>2. /\ run'[r].pc = run[r].pc /\ run'[r].approved = run[r].pc
          /\ run'[r].offset = run[r].offset /\ run'[r].config = run[r].config
      BY <3>1, Moved
    <3>3. run[r].offset \in Nat
      <4>1. run[r].offset \in 0..MaxOffset + 1
        BY DEF Run
      <4> QED
        BY <4>1
    <3>4. Sound(r)'
      BY <1>3, <2>1, <2>4, <3>2, <3>3 DEF BeginQuery, Sound, Queries
    <3> QED
      BY <1>3, <2>1, <2>2, <3>2, <3>4 DEF BeginQuery, Queries
  <2> QED
    BY <2>3, <2>4
<1>4. ASSUME NEW r \in Runs, Transmit(r) PROVE Rest
  <2>1. uart = r /\ run[r].pc \in Queries /\ run[r].approved # "reset"
    BY <1>4 DEF Transmit, Sound, Inside, Queries, Run
  <2>2. \A s \in Runs : s # r => Sound(s)'
    BY <1>4, <2>1, OthersSound DEF Transmit
  <2>3. CASE run[r].tries < Tries
    <3>1. /\ run'[r].pc = run[r].pc /\ run'[r].approved = run[r].approved
          /\ run'[r].offset = run[r].offset /\ run'[r].config = run[r].config
      <4>1. run'[r] = [run[r] EXCEPT !.tries = run[r].tries + 1]
        BY <1>4, <2>3, SetRun DEF Transmit
      <4> QED
        BY <4>1, Moved
    <3> QED
      BY <1>4, <2>1, <2>2, <2>3, <3>1 DEF Transmit, Sound
  <2>4. CASE ~(run[r].tries < Tries)
    <3>1. run'[r].pc = "close" /\ run'[r].approved = "none"
      BY <1>4, <2>4, SetRun, FailedRun DEF Transmit
    <3> QED
      BY <1>4, <2>1, <2>2, <2>4, <3>1 DEF Transmit, Sound, Queries
  <2> QED
    BY <2>3, <2>4
<1>5. ASSUME NEW r \in Runs, Answered(r) PROVE Rest
  <2>1. uart = r /\ run[r].pc \in Queries /\ toMcu # "reset"
    BY <1>5 DEF Answered, Sound, Inside, Queries, Run
  <2>2. \A s \in Runs : s # r => Sound(s)'
    BY <1>5, <2>1, OthersSound DEF Answered
  <2>3. toHost' = Silence /\ UNCHANGED <<uart, toMcu, mcu>>
    BY <1>5 DEF Answered
  <2> DEFINE done == [run[r] EXCEPT !.approved = "none", !.tries = 0]
  <2>4. /\ done \in Run /\ done.approved = "none" /\ done.pc = run[r].pc
    BY GateClosed
  <2>5. Sound(r)'
    <3>1. CASE run[r].pc = "identify" /\ toHost.kind = "more"
      <4>1. run'[r] = [done EXCEPT !.offset = done.offset + 1]
        BY <1>5, <3>1, SetRun DEF Answered
      <4>2. run'[r].approved = "none" /\ run'[r].pc = "identify"
        BY <2>4, <3>1, <4>1 DEF Run
      <4> QED
        BY <2>1, <2>3, <4>2, Values DEF Sound
    <3>2. CASE run[r].pc = "identify" /\ toHost.kind = "end"
      <4>1. run'[r] = [done EXCEPT !.pc = "get_config"]
        BY <1>5, <3>2, SetRun DEF Answered
      <4>2. run'[r].approved = "none" /\ run'[r].pc = "get_config"
        BY <2>4, <4>1 DEF Run
      <4> QED
        BY <2>1, <2>3, <4>2, Values DEF Sound
    <3>3. CASE run[r].pc = "get_config" /\ toHost.kind = "config"
      <4>1. run'[r] = [done EXCEPT !.pc = "decide", !.config = toHost.config]
        BY <1>5, <3>3, SetRun DEF Answered
      <4>2. run'[r].approved = "none" /\ run'[r].pc = "decide" /\ run'[r].config = toHost.config
        BY <2>4, <4>1 DEF Run
      <4>3. toHost.config = mcu
        BY <2>1, <3>3 DEF Sound
      <4> QED
        BY <2>1, <2>3, <4>2, <4>3 DEF Sound, Queries
    <3>4. CASE ~(\/ run[r].pc = "identify" /\ toHost.kind \in {"more", "end"}
                 \/ run[r].pc = "get_config" /\ toHost.kind = "config")
      <4>1. run'[r] = run[r]
        BY <1>5, <3>4, SetRun DEF Answered
      <4> QED
        BY <2>1, <2>3, <4>1, Values DEF Sound, Queries
    <3> QED
      BY <3>1, <3>2, <3>3, <3>4
  <2> QED
    BY <2>1, <2>2, <2>3, <2>5
<1>6. ASSUME NEW r \in Runs, Decide(r) PROVE Rest
  <2>1. uart = r /\ run[r].config = mcu
    BY <1>6 DEF Decide, Sound, Inside
  <2>2. \A s \in Runs : s # r => Sound(s)'
    BY <1>6, <2>1, OthersSound DEF Decide
  <2>3. CASE run[r].config = [is_config |-> TRUE, is_shutdown |-> TRUE]
    <3>1. run'[r] = [run[r] EXCEPT !.pc = "written"] /\ toMcu' = "reset" /\ mcu.is_config /\ mcu.is_shutdown
      BY <1>6, <2>1, <2>3, SetRun DEF Decide
    <3>2. run'[r].pc = "written" /\ run'[r].approved = "none"
      <4>1. run[r].pc = "decide" /\ run[r].approved = "none"
        BY <1>6 DEF Decide, Sound, Run, Queries
      <4> QED
        BY <3>1, <4>1, Moved
    <3> QED
      BY <1>6, <2>1, <2>2, <3>1, <3>2 DEF Decide, Sound, Queries
  <2>4. CASE run[r].config # [is_config |-> TRUE, is_shutdown |-> TRUE]
    <3>1. run'[r].pc = "close" /\ run'[r].approved = "none"
      BY <1>6, <2>4, SetRun, FailedRun DEF Decide
    <3> QED
      BY <1>6, <2>1, <2>2, <2>4, <3>1 DEF Decide, Sound, Queries
  <2> QED
    BY <2>3, <2>4
<1>7. ASSUME NEW r \in Runs, Wait(r) PROVE Rest
  <2>1. uart = r
    BY <1>7 DEF Wait, Sound, Inside
  <2>2. \A s \in Runs : s # r => Sound(s)'
    BY <1>7, <2>1, OthersSound DEF Wait
  <2>3. run'[r].pc = "close" /\ run'[r].approved = "none"
    <3>1. CASE Set(r, [run[r] EXCEPT !.pc = "close"])
      <4>1. run'[r] = [run[r] EXCEPT !.pc = "close"]
        BY <3>1, SetRun
      <4>2. run[r].pc = "written" /\ run[r].approved = "none"
        BY <1>7 DEF Wait, Sound, Run, Queries
      <4> QED
        BY <4>1, <4>2, Moved
    <3>2. CASE Set(r, Failed(run[r]))
      BY <3>2, SetRun, FailedRun
    <3> QED
      BY <1>7, <3>1, <3>2 DEF Wait
  <2> QED
    BY <1>7, <2>1, <2>2, <2>3 DEF Wait, Sound, Queries
<1>8. ASSUME NEW r \in Runs, Close(r) PROVE Rest
  <2>1. uart = r
    BY <1>8 DEF Close, Sound, Inside
  <2>2. \A s \in Runs : s # r => Sound(s)'
    BY <1>8, <2>1, OthersSound DEF Close
  <2>3. run'[r].pc \in {"exit 0", "exit 1"} /\ run'[r].approved = "none"
    <3> DEFINE end == IF run[r].error THEN "exit 1" ELSE "exit 0"
    <3>1. run'[r] = [run[r] EXCEPT !.pc = end]
      BY <1>8, SetRun DEF Close
    <3>3. end \in {"exit 0", "exit 1"}
      OBVIOUS
    <3> HIDE DEF end
    <3>2. run[r].pc = "close" /\ run[r].approved = "none"
      BY <1>8 DEF Close, Sound, Run, Queries
    <3> QED
      <4>1. run'[r].pc = end /\ run'[r].approved = run[r].approved
        BY <3>1, Moved
      <4> QED
        BY <3>2, <3>3, <4>1
  <2> QED
    BY <1>8, <2>1, <2>2, <2>3 DEF Close, Sound, Inside, Queries
<1>9. ASSUME Takes PROVE Rest
  <2>1. uart \in Runs /\ run' = run /\ uart' = uart /\ toMcu' = "none"
    BY <1>9 DEF Takes
  <2>2. CASE toMcu = "reset"
    <3>1. run[uart].pc \in {"written", "close"} /\ run[uart].approved = "none"
      BY <2>1, <2>2 DEF Sound, Run, Queries
    <3>2. \A s \in Runs : run[s].pc \notin Queries \cup {"decide"} /\ run[s].approved = "none"
      BY <3>1, Outside DEF Inside, Queries
    <3>3. \A s \in Runs : Sound(s)'
      BY <2>1, <3>2 DEF Sound
    <3> QED
      BY <2>1, <3>3, Assembled
  <2>3. CASE toMcu # "reset"
    <3>1. mcu' = mcu /\ (toHost'.kind = "config" => toHost'.config = mcu)
      <4>1. CASE toMcu = "identify"
        BY <1>9, <2>3, <4>1 DEF Takes, Silence
      <4>2. CASE toMcu = "get_config"
        BY <1>9, <2>3, <4>2 DEF Takes
      <4> QED
        BY <1>9, <2>3, <4>1, <4>2 DEF Takes, Queries
    <3>2. \A s \in Runs : Sound(s)'
      BY <2>1, <3>1 DEF Sound
    <3> QED
      BY <2>1, <3>2, Assembled
  <2> QED
    BY <2>2, <2>3
<1>10. ASSUME Loses PROVE Rest
  BY <1>10, Values DEF Loses, Sound
<1>11. ASSUME Klippy PROVE Rest
  <2>1. toMcu = "none" /\ toHost = Silence /\ UNCHANGED <<run, toMcu, toHost>> /\ uart \notin Runs /\ uart' \notin Runs
    BY <1>11 DEF Klippy
  <2>2. \A s \in Runs : run[s].pc \notin Inside /\ run[s].approved = "none"
    BY <2>1, Outside
  <2>3. \A s \in Runs : Sound(s)'
    BY <2>1, <2>2 DEF Sound, Inside, Queries
  <2> QED
    BY <2>1, <2>3, Assembled
<1>12. ASSUME UNCHANGED vars PROVE Rest
  BY <1>12 DEF Sound
<1> HIDE DEF Rest, Inv, TypeOK, HolderKnows, ResetInShutdown
<1>13. ASSUME NEW r \in Runs, Start(r) \/ Step(r) PROVE Rest
  BY <1>1, <1>2, <1>3, <1>4, <1>5, <1>6, <1>7, <1>8, <1>13 DEF Step
<1>14. Rest
  <2>1. ASSUME Next PROVE Rest
    BY <1>9, <1>10, <1>11, <1>13, <2>1 DEF Next
  <2> QED
    BY <1>12, <2>1
<1> QED
  BY <1>t, <1>14 DEF Rest, Inv

\* The invariant holds in every state.
THEOREM Invariance == Spec => []Inv
BY InvInit, InvNext, PTL DEF Spec

\* Whatever is lost, and whoever else wants the port: a reset meets an MCU in shutdown, what
\* a helper acts on is so, and Klippy's MCU gets no message of a helper.
THEOREM OneResetInShutdown == Spec => []ResetSound
<1>1. Inv => KlippyAlone
  BY ResetAssumption DEF Inv, HolderKnows, KlippyAlone
<1>2. Inv => ResetSound
  BY <1>1 DEF Inv, ResetSound
<1> QED
  BY Invariance, <1>2, PTL

-----------------------------------------------------------------------------
(* The print: one command at a time. *)

USE DEF feeder, printVars

\* A response that is on its way to the feeder, and a line that Klippy has yet to answer.
Has(t) == \E i \in DOMAIN toFeeder : toFeeder[i] = t
Owes(l) == klippy = l \/ \E i \in DOMAIN toKlippy : toKlippy[i] = l
Owing == klippy \in Lines \/ toKlippy # <<>>

\* Nothing but the command that is awaited is unanswered, or its ok is on its way.
Clean ==
  /\ ~await => ~Owing /\ ~Has("ok")
  /\ await =>
       \/ /\ ~Has("ok")
          /\ IF klippy \in Lines THEN toKlippy = <<>> ELSE Len(toKlippy) = 1
       \/ /\ ~Owing
          /\ \E i \in DOMAIN toFeeder : \A j \in DOMAIN toFeeder : toFeeder[j] = "ok" <=> j = i

\* The text t, which only line l is answered with, will not come.
Never(t, l) == ~Has(t) /\ ~Owes(l)

\* It comes behind the ok of another line.
Later(t, l) ==
  /\ t \notin heard
  /\ \A i \in DOMAIN toFeeder : toFeeder[i] = t => \E j \in 1..i - 1 : toFeeder[j] = "ok"
  /\ ~Has("ok") => klippy # l /\ (klippy = "idle" /\ toKlippy # <<>> => toKlippy[1] # l)

\* What may be left in the PTY when a feeder is started: one of the preflight's questions at
\* most is unanswered.
OneQuestion == ~Owes("STATUS") \/ ~Owes("QUERY")

\* What the preflight rests on.
Asked ==
  /\ at \in {1, 2}
  /\ at = 1 /\ ~await =>
       /\ Never("ready", "STATUS") \/ Never("filament", "QUERY")
       /\ Has("filament") => Has("ok")
  /\ at = 1 /\ await => Clean \/ Never("filament", "QUERY") \/ Later("ready", "STATUS")
  /\ at = 2 /\ ~await => Clean \/ Never("filament", "QUERY")
  /\ at = 2 /\ await => Clean \/ Later("filament", "QUERY")

\* The inductive invariant of the print.
PrintInv ==
  /\ PrintTypeOK
  /\ await => pc \in {"preflight", "print"}
  /\ pc \in {"preflight", "print"} => ~Refused(file)
  /\ pc = "preflight" => Asked
  /\ pc = "print" => Clean /\ at <= Len(file) + 1 /\ (await => at <= Len(file))

\* What the first feeder meets and leaves.
FirstInv ==
  /\ sessions <= 1 => OneQuestion
  /\ sessions = 0 => pc = "idle" /\ ~Owing
  /\ sessions = 1 /\ pc \in {"preflight", "print"} => Clean

-----------------------------------------------------------------------------
(* What goes over the PTY. *)

\* The responses.
Said == Texts \cup {"!!", "ok"}

\* The lines, by name.
LEMMA LinesAre ==
  Lines = {"G1", "G28", "M104", "M190", "M106", "STATUS", "QUERY", "M104 S0", "M140 S0", "M106 S0",
           "joined"}
<1>1. ToSet(Preflight) = {"STATUS", "QUERY"}
  BY DEF ToSet, Preflight
<1>2. ToSet(SafeStop) = {"M104 S0", "M140 S0", "M106 S0"}
  <2>1. SafeStop[1] = "M104 S0" /\ SafeStop[2] = "M140 S0" /\ SafeStop[3] = "M106 S0"
    BY DEF SafeStop
  <2>2. DOMAIN SafeStop = 1..3
    BY DEF SafeStop
  <2>3. DOMAIN SafeStop = {1, 2, 3}
    BY <2>2
  <2>4. \A x : x \in ToSet(SafeStop) <=> \E i \in {1, 2, 3} : SafeStop[i] = x
    BY Zenon, <2>3 DEF ToSet
  <2>5. \A x : x \in ToSet(SafeStop) <=> x \in {SafeStop[1], SafeStop[2], SafeStop[3]}
    BY Zenon, <2>4
  <2> QED
    BY <2>1, <2>5
<1>3. Allowed = {"G1", "G28", "M104", "M190", "M106"}
  BY DEF Allowed
<1>4. \A x : x \in Lines <=> x \in Allowed \/ x \in ToSet(Preflight) \/ x \in ToSet(SafeStop)
                       \/ x = "joined"
  BY DEF Lines
<1> QED
  BY <1>1, <1>2, <1>3, <1>4

\* The two questions are neither commands nor lines of the safe stop, and no line is a state of
\* Klippy.
LEMMA Words ==
  /\ Allowed \subseteq Lines /\ {"STATUS", "QUERY"} \subseteq Lines
  /\ "idle" \notin Lines /\ "shutdown" \notin Lines
  /\ \A i \in 1..3 : SafeStop[i] \in Lines \ {"STATUS", "QUERY"}
  /\ Allowed \cap {"STATUS", "QUERY"} = {} /\ "joined" \in Lines \ {"STATUS", "QUERY"}
<1>1. Allowed \subseteq Lines /\ Allowed \cap {"STATUS", "QUERY"} = {}
  BY LinesAre DEF Allowed
<1>2. SafeStop[1] = "M104 S0" /\ SafeStop[2] = "M140 S0" /\ SafeStop[3] = "M106 S0"
  BY DEF SafeStop
<1>3. {"STATUS", "QUERY"} \subseteq Lines /\ "idle" \notin Lines /\ "shutdown" \notin Lines
  BY LinesAre
<1>4. {"M104 S0", "M140 S0", "M106 S0", "joined"} \subseteq Lines \ {"STATUS", "QUERY"}
  BY LinesAre
<1>5. ASSUME NEW i \in 1..3 PROVE SafeStop[i] \in {"M104 S0", "M140 S0", "M106 S0", "joined"}
  <2>1. i = 1 \/ i = 2 \/ i = 3
    OBVIOUS
  <2> QED
    BY Zenon, <1>2, <2>1
<1>6. "joined" \in Lines \ {"STATUS", "QUERY"}
  BY <1>4
<1> QED
  BY Zenon, <1>1, <1>3, <1>4, <1>5, <1>6

\* A line is written.
LEMMA Queued ==
  ASSUME toKlippy \in Seq(Lines), NEW l \in Lines, toKlippy' = Append(toKlippy, l), UNCHANGED klippy
  PROVE  /\ toKlippy' \in Seq(Lines) /\ Len(toKlippy') = Len(toKlippy) + 1 /\ toKlippy' # <<>>
         /\ toKlippy'[1] = IF toKlippy = <<>> THEN l ELSE toKlippy[1]
         /\ \A m : Owes(m)' <=> Owes(m) \/ m = l
         /\ Owing'
<1>1. /\ Len(toKlippy) \in Nat /\ DOMAIN toKlippy = 1..Len(toKlippy)
      /\ toKlippy = <<>> => Len(toKlippy) = 0
      /\ toKlippy # <<>> => Len(toKlippy) > 0
  BY LenProperties, EmptySeq
<1>2. /\ toKlippy' \in Seq(Lines) /\ Len(toKlippy') = Len(toKlippy) + 1 /\ toKlippy' # <<>>
      /\ \A i \in 1..Len(toKlippy) : toKlippy'[i] = toKlippy[i]
      /\ toKlippy'[Len(toKlippy) + 1] = l
  BY AppendProperties
<1>3. DOMAIN toKlippy' = 1..Len(toKlippy) + 1
  BY <1>2, LenProperties
<1>4. ASSUME NEW m PROVE Owes(m)' <=> Owes(m) \/ m = l
  BY <1>1, <1>2, <1>3 DEF Owes
<1> QED
  BY <1>1, <1>2, <1>4 DEF Owing

\* Klippy takes one.
LEMMA Taken ==
  ASSUME toKlippy \in Seq(Lines), toKlippy # <<>>, toKlippy' = Tail(toKlippy)
  PROVE  /\ toKlippy' \in Seq(Lines) /\ Len(toKlippy') = Len(toKlippy) - 1
         /\ Head(toKlippy) = toKlippy[1] /\ Head(toKlippy) \in Lines
         /\ \E i \in DOMAIN toKlippy : toKlippy[i] = Head(toKlippy)
         /\ \A m : (\E i \in DOMAIN toKlippy' : toKlippy'[i] = m) => \E i \in DOMAIN toKlippy : toKlippy[i] = m
         /\ Len(toKlippy) = 1 <=> toKlippy' = <<>>
<1>1. Len(toKlippy) \in Nat /\ DOMAIN toKlippy = 1..Len(toKlippy) /\ Len(toKlippy) > 0
  BY LenProperties, EmptySeq
<1>2. /\ Head(toKlippy) \in Lines /\ toKlippy' \in Seq(Lines) /\ Len(toKlippy') = Len(toKlippy) - 1
      /\ \A i \in 1..Len(toKlippy') : toKlippy'[i] = toKlippy[i + 1]
  BY HeadTailProperties
<1>3. DOMAIN toKlippy' = 1..Len(toKlippy) - 1
  BY <1>2, LenProperties
<1>4. Head(toKlippy) = toKlippy[1]
  OBVIOUS
<1>5. Len(toKlippy') = 0 <=> toKlippy' = <<>>
  BY <1>2, EmptySeq
<1>6. ASSUME NEW m, NEW i \in DOMAIN toKlippy', toKlippy'[i] = m
      PROVE  \E j \in DOMAIN toKlippy : toKlippy[j] = m
  BY <1>1, <1>2, <1>3, <1>6
<1> QED
  BY <1>1, <1>2, <1>4, <1>5, <1>6

\* The feeder takes a response.
LEMMA Shorter ==
  ASSUME toFeeder \in Seq(Said), toFeeder # <<>>, toFeeder' = Tail(toFeeder)
  PROVE  /\ toFeeder' \in Seq(Said) /\ Head(toFeeder) = toFeeder[1] /\ Head(toFeeder) \in Said
         /\ Len(toFeeder) \in Nat \ {0} /\ DOMAIN toFeeder = 1..Len(toFeeder)
         /\ DOMAIN toFeeder' = 1..Len(toFeeder) - 1
         /\ \A i \in 1..Len(toFeeder) - 1 : toFeeder'[i] = toFeeder[i + 1]
<1>1. Len(toFeeder) \in Nat \ {0} /\ DOMAIN toFeeder = 1..Len(toFeeder)
  BY LenProperties, EmptySeq
<1>2. /\ Head(toFeeder) \in Said /\ toFeeder' \in Seq(Said) /\ Len(toFeeder') = Len(toFeeder) - 1
      /\ \A i \in 1..Len(toFeeder') : toFeeder'[i] = toFeeder[i + 1]
  BY HeadTailProperties
<1>3. DOMAIN toFeeder' = 1..Len(toFeeder) - 1
  BY <1>2, LenProperties
<1>4. Head(toFeeder) = toFeeder[1]
  OBVIOUS
<1> QED
  BY <1>1, <1>2, <1>3, <1>4

\* Klippy answers.
LEMMA Longer ==
  ASSUME toFeeder \in Seq(Said), NEW a \in Seq(Said), toFeeder' = toFeeder \o a
  PROVE  /\ toFeeder' \in Seq(Said)
         /\ Len(toFeeder) \in Nat /\ Len(a) \in Nat
         /\ DOMAIN toFeeder = 1..Len(toFeeder) /\ DOMAIN toFeeder' = 1..Len(toFeeder) + Len(a)
         /\ \A i \in 1..Len(toFeeder) : toFeeder'[i] = toFeeder[i]
         /\ \A i \in 1..Len(a) : toFeeder'[Len(toFeeder) + i] = a[i]
         /\ \A i \in Len(toFeeder) + 1..Len(toFeeder) + Len(a) : toFeeder'[i] = a[i - Len(toFeeder)]
<1>1. Len(toFeeder) \in Nat /\ Len(a) \in Nat /\ DOMAIN toFeeder = 1..Len(toFeeder)
  BY LenProperties
<1>2. /\ toFeeder' \in Seq(Said) /\ Len(toFeeder') = Len(toFeeder) + Len(a)
      /\ \A i \in 1..Len(toFeeder) + Len(a) :
           toFeeder'[i] = IF i <= Len(toFeeder) THEN toFeeder[i] ELSE a[i - Len(toFeeder)]
  BY ConcatProperties
<1>3. DOMAIN toFeeder' = 1..Len(toFeeder) + Len(a)
  BY <1>2, LenProperties
<1>4. ASSUME NEW i \in 1..Len(a) PROVE toFeeder'[Len(toFeeder) + i] = a[i]
  BY <1>1, <1>2
<1>5. ASSUME NEW i \in Len(toFeeder) + 1..Len(toFeeder) + Len(a) PROVE toFeeder'[i] = a[i - Len(toFeeder)]
  BY <1>1, <1>2
<1>6. ASSUME NEW i \in 1..Len(toFeeder) PROVE toFeeder'[i] = toFeeder[i]
  BY <1>1, <1>2
<1> QED
  BY <1>1, <1>2, <1>3, <1>4, <1>5, <1>6

-----------------------------------------------------------------------------
(* What Klippy does. *)

\* The text that tells a question's answer.
Tells(t, l) == (t = "ready" /\ l = "STATUS") \/ (t = "filament" /\ l = "QUERY")

\* A line is answered with an ok that comes last, and told what only it is.
Reply(a) ==
  /\ a \in Seq(Said) /\ Len(a) \in 1..2 /\ \A i \in 1..Len(a) : a[i] = "ok" <=> i = Len(a)
  /\ \A t, l : Tells(t, l) /\ (\E i \in 1..Len(a) : a[i] = t) => klippy = l

\* The replies that Klippy makes.
LEMMA Alone == Reply(<<"ok">>)
BY DEF Reply, Said, Tells

LEMMA WithText ==
  ASSUME NEW x \in Texts \cup {"!!"}, \A t, l : Tells(t, l) /\ x = t => klippy = l
  PROVE  Reply(<<x, "ok">>)
<1>1. /\ <<x, "ok">> \in Seq(Said) /\ Len(<<x, "ok">>) = 2
      /\ <<x, "ok">>[1] = x /\ <<x, "ok">>[2] = "ok" /\ x # "ok"
  BY DEF Said, Texts
<1>2. \A i \in 1..2 : i = 1 \/ i = 2
  OBVIOUS
<1>3. \A i \in 1..2 : <<x, "ok">>[i] = "ok" <=> i = 2
  BY <1>1, <1>2
<1>4. ASSUME NEW t, NEW l, Tells(t, l), NEW i \in 1..2, <<x, "ok">>[i] = t PROVE klippy = l
  <2>1. t # "ok"
    BY <1>4 DEF Tells
  <2> QED
    BY <1>1, <1>2, <1>4, <2>1
<1> QED
  BY <1>1, <1>3, <1>4 DEF Reply

\* One line is answered, the one that is executed or, in shutdown, the next.
LEMMA Replies ==
  ASSUME PrintTypeOK, KlippyExecutes \/ KlippyDeclines \/ (KlippyShutsDown /\ klippy # "idle")
  PROVE  /\ \E a : Reply(a) /\ toFeeder' = toFeeder \o a
         /\ \/ klippy \in Lines /\ klippy' \in {"idle", "shutdown"} /\ UNCHANGED toKlippy
            \/ /\ klippy = "shutdown" /\ klippy' = "shutdown"
               /\ toKlippy # <<>> /\ toKlippy' = Tail(toKlippy)
         /\ UNCHANGED <<file, feeder, sessions, kills>>
<1>1. {"ready", "filament", "text"} = Texts
  BY DEF Texts
<1>2. Reply(<<"text", "ok">>) /\ Reply(<<"!!", "ok">>)
  <2>1. \A t, l : Tells(t, l) => t # "text" /\ t # "!!"
    BY DEF Tells
  <2> QED
    BY <1>1, <2>1, WithText
<1>3. CASE KlippyExecutes
  <2>1. klippy = "STATUS" => Reply(<<"ready", "ok">>)
    <3>1. \A t, l : Tells(t, l) /\ "ready" = t => l = "STATUS"
      BY DEF Tells
    <3> QED
      BY <1>1, <3>1, WithText
  <2>2. klippy = "QUERY" => Reply(<<"filament", "ok">>)
    <3>1. \A t, l : Tells(t, l) /\ "filament" = t => l = "QUERY"
      BY DEF Tells
    <3> QED
      BY <1>1, <3>1, WithText
  <2>3. /\ klippy \in Lines /\ klippy' = "idle" /\ UNCHANGED <<file, feeder, toKlippy, sessions, kills>>
        /\ \/ klippy = "STATUS" /\ toFeeder' = toFeeder \o <<"ready", "ok">>
           \/ klippy = "QUERY" /\ toFeeder' = toFeeder \o <<"filament", "ok">>
           \/ toFeeder' = toFeeder \o <<"ok">>
           \/ toFeeder' = toFeeder \o <<"text", "ok">>
           \/ toFeeder' = toFeeder \o <<"!!", "ok">>
    <3>1. CASE klippy = "joined"
      BY <1>3, <3>1 DEF KlippyExecutes
    <3>2. CASE klippy # "joined"
      BY <1>3, <3>2 DEF KlippyExecutes
    <3> QED
      BY <3>1, <3>2
  <2> QED
    BY Zenon, <1>2, <2>1, <2>2, <2>3, Alone
<1>4. CASE KlippyDeclines
  BY <1>2, <1>4 DEF KlippyDeclines
<1>5. CASE KlippyShutsDown /\ klippy # "idle"
  <2>1. klippy \in Lines
    BY <1>5 DEF KlippyShutsDown, PrintTypeOK
  <2> QED
    BY <1>2, <1>5, <2>1 DEF KlippyShutsDown
<1> QED
  BY <1>3, <1>4, <1>5

\* Where a reply is put.
LEMMA ReplyShape ==
  ASSUME toFeeder \in Seq(Said), NEW a, Reply(a), toFeeder' = toFeeder \o a
  PROVE  /\ toFeeder' \in Seq(Said)
         /\ Len(toFeeder) \in Nat /\ DOMAIN toFeeder = 1..Len(toFeeder)
         /\ \A i \in 1..Len(toFeeder) : toFeeder'[i] = toFeeder[i]
         /\ \E n \in Nat :
              /\ n > Len(toFeeder) /\ DOMAIN toFeeder' = 1..n /\ toFeeder'[n] = "ok"
              /\ \A i \in Len(toFeeder) + 1..n : toFeeder'[i] = "ok" <=> i = n
              /\ \A t, l : Tells(t, l) /\ (\E i \in Len(toFeeder) + 1..n : toFeeder'[i] = t) => klippy = l
<1>1. /\ a \in Seq(Said) /\ Len(a) \in 1..2 /\ \A i \in 1..Len(a) : a[i] = "ok" <=> i = Len(a)
      /\ \A t, l : Tells(t, l) /\ (\E i \in 1..Len(a) : a[i] = t) => klippy = l
  BY DEF Reply
<1>2. /\ toFeeder' \in Seq(Said)
      /\ Len(toFeeder) \in Nat /\ Len(a) \in Nat
      /\ DOMAIN toFeeder = 1..Len(toFeeder) /\ DOMAIN toFeeder' = 1..Len(toFeeder) + Len(a)
      /\ \A i \in 1..Len(toFeeder) : toFeeder'[i] = toFeeder[i]
      /\ \A i \in Len(toFeeder) + 1..Len(toFeeder) + Len(a) : toFeeder'[i] = a[i - Len(toFeeder)]
  BY Zenon, <1>1, Longer
<1> DEFINE n == Len(toFeeder) + Len(a)
<1>3. n \in Nat /\ n > Len(toFeeder)
  BY <1>1, <1>2
<1>4. \A i \in Len(toFeeder) + 1..n : i - Len(toFeeder) \in 1..Len(a) /\ (i - Len(toFeeder) = Len(a) <=> i = n)
  BY <1>1, <1>2
<1>5. \A i \in Len(toFeeder) + 1..n : toFeeder'[i] = "ok" <=> i = n
  <2> SUFFICES ASSUME NEW i \in Len(toFeeder) + 1..n PROVE toFeeder'[i] = "ok" <=> i = n
    OBVIOUS
  <2>1. toFeeder'[i] = a[i - Len(toFeeder)]
    BY <1>2
  <2> HIDE DEF n
  <2> QED
    BY <1>1, <1>4, <2>1
<1>6. \A t, l : Tells(t, l) /\ (\E i \in Len(toFeeder) + 1..n : toFeeder'[i] = t) => klippy = l
  BY <1>1, <1>2, <1>4
<1>7. n \in Len(toFeeder) + 1..n /\ DOMAIN toFeeder' = 1..n
  BY <1>2, <1>3
<1> HIDE DEF n
<1>8. toFeeder'[n] = "ok"
  BY <1>5, <1>7
<1> QED
  BY <1>2, <1>3, <1>5, <1>6, <1>7, <1>8

\* Nothing that is known of the questions, and no command, is disturbed by a reply.
LEMMA ReplyKeeps ==
  ASSUME toFeeder \in Seq(Said), toKlippy \in Seq(Lines), NEW a, Reply(a), toFeeder' = toFeeder \o a,
         UNCHANGED <<heard, await>>,
         \/ klippy \in Lines /\ klippy' \in {"idle", "shutdown"} /\ UNCHANGED toKlippy
         \/ /\ klippy = "shutdown" /\ klippy' = "shutdown"
            /\ toKlippy # <<>> /\ toKlippy' = Tail(toKlippy)
  PROVE  /\ toFeeder' \in Seq(Said) /\ toKlippy' \in Seq(Lines)
         /\ Clean => Clean'
         /\ Has("ok")'
         /\ \A l \in Lines : Owes(l)' => Owes(l)
         /\ \A t, l : Tells(t, l) => (Never(t, l) => Never(t, l)') /\ (Later(t, l) => Later(t, l)')
         /\ Owing
<1>1. /\ toFeeder' \in Seq(Said)
      /\ Len(toFeeder) \in Nat /\ DOMAIN toFeeder = 1..Len(toFeeder)
      /\ \A i \in 1..Len(toFeeder) : toFeeder'[i] = toFeeder[i]
  BY ReplyShape
<1>2. PICK n \in Nat :
        /\ n > Len(toFeeder) /\ DOMAIN toFeeder' = 1..n /\ toFeeder'[n] = "ok"
        /\ \A i \in Len(toFeeder) + 1..n : toFeeder'[i] = "ok" <=> i = n
        /\ \A t, l : Tells(t, l) /\ (\E i \in Len(toFeeder) + 1..n : toFeeder'[i] = t) => klippy = l
  BY ReplyShape
<1>3. /\ toKlippy' \in Seq(Lines)
      /\ \A m : (\E i \in DOMAIN toKlippy' : toKlippy'[i] = m) => \E i \in DOMAIN toKlippy : toKlippy[i] = m
      /\ klippy \notin Lines => toKlippy # <<>> /\ (Len(toKlippy) = 1 => toKlippy' = <<>>)
  <2>1. CASE UNCHANGED toKlippy /\ klippy \in Lines
    BY <2>1
  <2>2. CASE toKlippy # <<>> /\ toKlippy' = Tail(toKlippy)
    BY Zenon, <2>2, Taken
  <2> QED
    BY <2>1, <2>2
<1>4. \A i \in 1..n : i \in 1..Len(toFeeder) \/ i \in Len(toFeeder) + 1..n
  BY <1>1, <1>2
<1>5. Has("ok")' /\ n \in 1..n
  BY <1>2 DEF Has
<1>6. \A l \in Lines : Owes(l)' => Owes(l)
  BY <1>3, Words DEF Owes
<1>7. Clean => Clean'
  <2> SUFFICES ASSUME Clean PROVE Clean'
    OBVIOUS
  <2>1. Owing /\ klippy' \notin Lines
    BY Words DEF Owing
  <2>2. /\ await /\ ~Has("ok")
        /\ IF klippy \in Lines THEN toKlippy = <<>> ELSE Len(toKlippy) = 1
    BY <2>1 DEF Clean
  <2>3. ~Owing'
    BY <1>3, <2>1, <2>2 DEF Owing
  <2>4. \A j \in DOMAIN toFeeder' : toFeeder'[j] = "ok" <=> j = n
    BY <1>1, <1>2, <1>4, <2>2 DEF Has
  <2>5. n \in DOMAIN toFeeder' /\ await'
    BY <1>2, <1>5, <2>2
  <2>6. \E i \in DOMAIN toFeeder' : \A j \in DOMAIN toFeeder' : toFeeder'[j] = "ok" <=> j = i
    BY Zenon, <2>4, <2>5
  <2> QED
    BY <2>3, <2>5, <2>6 DEF Clean
<1>8. ASSUME NEW t, NEW l, Tells(t, l), Never(t, l) PROVE Never(t, l)'
  <2>1. l \in Lines
    BY <1>8, Words DEF Tells
  <2>2. ~Owes(l)' /\ klippy # l
    BY <1>6, <1>8, <2>1 DEF Never, Owes
  <2>3. ~Has(t)'
    BY <1>1, <1>2, <1>4, <1>8, <2>2 DEF Never, Has
  <2> QED
    BY <2>2, <2>3 DEF Never
<1>9. ASSUME NEW t, NEW l, Tells(t, l), Later(t, l) PROVE Later(t, l)'
  <2>1. ASSUME NEW i \in DOMAIN toFeeder', toFeeder'[i] = t PROVE \E j \in 1..i - 1 : toFeeder'[j] = "ok"
    <3>1. CASE i \in 1..Len(toFeeder)
      <4>1. PICK j \in 1..i - 1 : toFeeder[j] = "ok"
        BY <1>1, <1>9, <2>1, <3>1 DEF Later
      <4>2. j \in 1..Len(toFeeder)
        BY <1>1, <3>1
      <4> QED
        BY <1>1, <4>1, <4>2
    <3>2. CASE i \in Len(toFeeder) + 1..n
      <4>1. klippy = l
        BY <1>2, <1>9, <2>1, <3>2
      <4>2. PICK j \in DOMAIN toFeeder : toFeeder[j] = "ok"
        BY <1>9, <4>1 DEF Later, Has
      <4>3. j \in 1..Len(toFeeder) /\ j \in 1..i - 1
        BY <1>1, <3>2
      <4> QED
        BY <1>1, <4>2, <4>3
    <3> QED
      BY <1>2, <1>4, <2>1, <3>1, <3>2
  <2>2. (t \notin heard)'
    BY <1>9 DEF Later
  <2> QED
    BY <1>5, <2>1, <2>2 DEF Later
<1> QED
  BY Zenon, <1>1, <1>3, <1>5, <1>6, <1>7, <1>8, <1>9 DEF Owing

\* Klippy takes the next line: it stays unanswered, and the only one that is.
LEMMA TakeKeeps ==
  ASSUME PrintTypeOK, KlippyTakes
  PROVE  /\ toKlippy' \in Seq(Lines) /\ klippy' \in Lines /\ Owing
         /\ Clean => Clean'
         /\ \A l \in Lines : Owes(l)' => Owes(l)
         /\ \A t, l : Tells(t, l) => (Never(t, l) => Never(t, l)') /\ (Later(t, l) => Later(t, l)')
<1>1. /\ klippy = "idle" /\ klippy \notin Lines /\ toKlippy # <<>> /\ toKlippy \in Seq(Lines)
      /\ klippy' = Head(toKlippy) /\ toKlippy' = Tail(toKlippy)
      /\ UNCHANGED <<toFeeder, heard, await>>
  BY Words DEF KlippyTakes, PrintTypeOK
<1>2. /\ toKlippy' \in Seq(Lines) /\ klippy' = toKlippy[1] /\ klippy' \in Lines
      /\ \E i \in DOMAIN toKlippy : toKlippy[i] = klippy'
      /\ \A m : (\E i \in DOMAIN toKlippy' : toKlippy'[i] = m) => \E i \in DOMAIN toKlippy : toKlippy[i] = m
      /\ Len(toKlippy) = 1 => toKlippy' = <<>>
  BY Zenon, <1>1, Taken
<1>3. \A l \in Lines : Owes(l)' => Owes(l)
  BY Zenon, <1>2 DEF Owes
<1>4. Clean => Clean'
  BY <1>1, <1>2 DEF Clean, Owing, Has
<1>5. ASSUME NEW t, NEW l, Tells(t, l) PROVE (Never(t, l) => Never(t, l)') /\ (Later(t, l) => Later(t, l)')
  <2>1. l \in Lines
    BY <1>5, Words DEF Tells
  <2>2. Never(t, l) => Never(t, l)'
    BY <1>1, <1>3, <2>1 DEF Never, Has
  <2>3. Later(t, l) => Later(t, l)'
    <3> SUFFICES ASSUME Later(t, l) PROVE Later(t, l)'
      OBVIOUS
    <3>1. ~Has("ok")' => klippy' # l /\ klippy' # "idle"
      BY <1>1, <1>2 DEF Later, Has
    <3> QED
      BY <1>1, <3>1 DEF Later
  <2> QED
    BY <2>2, <2>3
<1> QED
  BY <1>1, <1>2, <1>3, <1>4, <1>5 DEF Owing

\* A shutdown that no command is in is told by an error.
LEMMA ShutdownKeeps ==
  ASSUME PrintTypeOK, KlippyShutsDown, klippy = "idle"
  PROVE  /\ toFeeder' \in Seq(Said)
         /\ Clean => Clean'
         /\ \A t \in Said \ {"!!"} : Has(t)' <=> Has(t)
         /\ \A l \in Lines : Owes(l)' => Owes(l)
         /\ \A t, l : Tells(t, l) => (Never(t, l) => Never(t, l)') /\ (Later(t, l) => Later(t, l)')
         /\ Owing' <=> Owing
<1>1. /\ toFeeder \in Seq(Said) /\ <<"!!">> \in Seq(Said) /\ toFeeder' = toFeeder \o <<"!!">>
      /\ klippy' = "shutdown" /\ klippy \notin Lines /\ klippy' \notin Lines
      /\ UNCHANGED <<toKlippy, heard, await>>
  BY Words DEF KlippyShutsDown, PrintTypeOK, Said
<1> DEFINE n == Len(toFeeder) + 1
<1>2. /\ toFeeder' \in Seq(Said) /\ Len(toFeeder) \in Nat
      /\ DOMAIN toFeeder = 1..Len(toFeeder) /\ DOMAIN toFeeder' = 1..n
      /\ \A i \in 1..Len(toFeeder) : toFeeder'[i] = toFeeder[i]
      /\ toFeeder'[n] = "!!"
  <2>1. Len(<<"!!">>) = 1 /\ <<"!!">>[1] = "!!"
    OBVIOUS
  <2>2. /\ toFeeder' \in Seq(Said)
        /\ Len(toFeeder) \in Nat
        /\ DOMAIN toFeeder = 1..Len(toFeeder) /\ DOMAIN toFeeder' = 1..Len(toFeeder) + Len(<<"!!">>)
        /\ \A i \in 1..Len(toFeeder) : toFeeder'[i] = toFeeder[i]
        /\ \A i \in 1..Len(<<"!!">>) : toFeeder'[Len(toFeeder) + i] = <<"!!">>[i]
    BY Zenon, <1>1, Longer
  <2>3. 1 \in 1..Len(<<"!!">>)
    BY <2>1
  <2> QED
    BY <2>1, <2>2, <2>3
<1>3. \A i \in 1..n : i \in 1..Len(toFeeder) \/ i = n
  BY <1>2
<1>4. 1..Len(toFeeder) \subseteq 1..n
  BY <1>2
<1> HIDE DEF n
<1>5. \A t : t # "!!" => (Has(t)' <=> Has(t))
  BY <1>2, <1>3, <1>4 DEF Has
<1>6. \A l \in Lines : Owes(l)' => Owes(l)
  BY <1>1 DEF Owes
<1>7. Owing' <=> Owing
  BY <1>1 DEF Owing
<1>8. Clean => Clean'
  <2>1. (\E i \in DOMAIN toFeeder : \A j \in DOMAIN toFeeder : toFeeder[j] = "ok" <=> j = i)
        => \E i \in DOMAIN toFeeder' : \A j \in DOMAIN toFeeder' : toFeeder'[j] = "ok" <=> j = i
    <3> SUFFICES ASSUME NEW i \in DOMAIN toFeeder, \A j \in DOMAIN toFeeder : toFeeder[j] = "ok" <=> j = i
                 PROVE  \E k \in DOMAIN toFeeder' : \A j \in DOMAIN toFeeder' : toFeeder'[j] = "ok" <=> j = k
      OBVIOUS
    <3>1. i \in 1..Len(toFeeder) /\ i \in DOMAIN toFeeder' /\ i # n
      BY <1>2, <1>4 DEF n
    <3>2. ASSUME NEW j \in DOMAIN toFeeder' PROVE toFeeder'[j] = "ok" <=> j = i
      BY <1>2, <1>3, <3>1, <3>2
    <3> QED
      BY Zenon, <3>1, <3>2
  <2>2. Has("ok")' <=> Has("ok")
    BY <1>5
  <2> QED
    BY Zenon, <1>1, <1>7, <2>1, <2>2 DEF Clean
<1>9. ASSUME NEW t, NEW l, Tells(t, l) PROVE (Never(t, l) => Never(t, l)') /\ (Later(t, l) => Later(t, l)')
  <2>1. l \in Lines /\ t # "!!"
    BY <1>9, Words DEF Tells
  <2>2. Never(t, l) => Never(t, l)'
    BY <1>5, <1>6, <2>1 DEF Never
  <2>3. Later(t, l) => Later(t, l)'
    <3> SUFFICES ASSUME Later(t, l) PROVE Later(t, l)'
      OBVIOUS
    <3>1. ASSUME NEW i \in DOMAIN toFeeder', toFeeder'[i] = t PROVE \E j \in 1..i - 1 : toFeeder'[j] = "ok"
      <4>1. i \in 1..Len(toFeeder) /\ toFeeder[i] = t
        BY <1>2, <1>3, <2>1, <3>1
      <4>2. PICK j \in 1..i - 1 : toFeeder[j] = "ok"
        BY <1>2, <4>1 DEF Later
      <4>3. j \in 1..Len(toFeeder)
        BY <1>2, <4>1
      <4> QED
        BY <1>2, <4>2, <4>3
    <3>2. (t \notin heard)'
      BY <1>1 DEF Later
    <3>3. klippy' # l /\ klippy' # "idle"
      BY <1>1, <2>1
    <3> QED
      BY <3>1, <3>2, <3>3 DEF Later
  <2> QED
    BY <2>2, <2>3
<1> QED
  BY <1>2, <1>5, <1>6, <1>7, <1>8, <1>9

\* A step of Klippy's.
LEMMA KlippyKeeps ==
  ASSUME PrintTypeOK, KlippyStep \/ KlippyShutsDown
  PROVE  /\ PrintTypeOK'
         /\ Clean => Clean'
         /\ Has("ok") => Has("ok")'
         /\ Has("filament")' => Has("filament") \/ Has("ok")'
         /\ \A l \in Lines : Owes(l)' => Owes(l)
         /\ \A t, l : Tells(t, l) => (Never(t, l) => Never(t, l)') /\ (Later(t, l) => Later(t, l)')
         /\ Owing' => Owing
         /\ UNCHANGED <<file, feeder, sessions, kills>>
<1>1. toFeeder \in Seq(Said) /\ toKlippy \in Seq(Lines)
  BY DEF PrintTypeOK, Said
<1>2. on' \subseteq DOMAIN Output
  BY DEF KlippyStep, KlippyTakes, KlippyExecutes, KlippyShutsDown, KlippyDeclines, PrintTypeOK
<1>3. CASE KlippyTakes
  <2>1. UNCHANGED <<file, feeder, toFeeder, sessions, kills>>
    BY <1>3 DEF KlippyTakes
  <2>2. PrintTypeOK'
    BY <1>2, <1>3, <2>1, TakeKeeps DEF PrintTypeOK
  <2>3. (Has("ok") <=> Has("ok")') /\ (Has("filament") <=> Has("filament")')
    BY <2>1 DEF Has
  <2> QED
    BY Zenon, <1>3, <2>1, <2>2, <2>3, TakeKeeps
<1>4. CASE KlippyShutsDown /\ klippy = "idle"
  <2>1. UNCHANGED <<file, feeder, toKlippy, sessions, kills>> /\ klippy' = "shutdown"
    BY <1>4 DEF KlippyShutsDown
  <2>2. PrintTypeOK'
    BY <1>2, <1>4, <2>1, ShutdownKeeps DEF PrintTypeOK, Said
  <2>3. (Has("ok") <=> Has("ok")') /\ (Has("filament") <=> Has("filament")')
    BY <1>4, ShutdownKeeps DEF Said, Texts
  <2> QED
    BY Zenon, <1>4, <2>1, <2>2, <2>3, ShutdownKeeps
<1>5. CASE KlippyExecutes \/ KlippyDeclines \/ (KlippyShutsDown /\ klippy # "idle")
  <2>1. /\ \E a : Reply(a) /\ toFeeder' = toFeeder \o a
        /\ \/ klippy \in Lines /\ klippy' \in {"idle", "shutdown"} /\ UNCHANGED toKlippy
           \/ /\ klippy = "shutdown" /\ klippy' = "shutdown"
              /\ toKlippy # <<>> /\ toKlippy' = Tail(toKlippy)
        /\ UNCHANGED <<file, feeder, sessions, kills>>
    BY Zenon, <1>5, Replies
  <2>2. UNCHANGED <<heard, await>>
    BY <2>1
  <2>3. /\ toFeeder' \in Seq(Said) /\ toKlippy' \in Seq(Lines)
        /\ Clean => Clean'
        /\ Has("ok")'
        /\ \A l \in Lines : Owes(l)' => Owes(l)
        /\ \A t, l : Tells(t, l) => (Never(t, l) => Never(t, l)') /\ (Later(t, l) => Later(t, l)')
        /\ Owing
    BY Zenon, <1>1, <2>1, <2>2, ReplyKeeps
  <2>4. klippy' \in {"idle", "shutdown"} \cup Lines
    BY <2>1
  <2>5. PrintTypeOK'
    BY <1>2, <2>1, <2>3, <2>4 DEF PrintTypeOK, Said
  <2> QED
    BY Zenon, <2>1, <2>3, <2>5
<1> QED
  BY Zenon, <1>3, <1>4, <1>5 DEF KlippyStep

-----------------------------------------------------------------------------
(* The steps. *)

\* Klippy takes, executes or declines a line, or shuts down.
LEMMA KlippyInv ==
  ASSUME PrintInv, KlippyStep \/ KlippyShutsDown
  PROVE  PrintInv' /\ (FirstInv => FirstInv')
<1>1. /\ PrintTypeOK'
      /\ Clean => Clean'
      /\ Has("ok") => Has("ok")'
      /\ Has("filament")' => Has("filament") \/ Has("ok")'
      /\ \A l \in Lines : Owes(l)' => Owes(l)
      /\ \A t, l : Tells(t, l) => (Never(t, l) => Never(t, l)') /\ (Later(t, l) => Later(t, l)')
      /\ Owing' => Owing
      /\ UNCHANGED <<file, feeder, sessions, kills>>
  BY KlippyKeeps DEF PrintInv
<1>2. Tells("ready", "STATUS") /\ Tells("filament", "QUERY")
  BY DEF Tells
<1>3. /\ Never("ready", "STATUS") => Never("ready", "STATUS")'
      /\ Later("ready", "STATUS") => Later("ready", "STATUS")'
      /\ Never("filament", "QUERY") => Never("filament", "QUERY")'
      /\ Later("filament", "QUERY") => Later("filament", "QUERY")'
  BY Zenon, <1>1, <1>2
<1>4. pc' = pc /\ at' = at /\ await' = await /\ file' = file /\ sessions' = sessions
  BY <1>1
<1>5. Asked => Asked'
  BY <1>1, <1>3, <1>4 DEF Asked
<1>6. Refused(file)' <=> Refused(file)
  BY <1>4
<1>7. PrintInv'
  BY <1>1, <1>4, <1>5, <1>6 DEF PrintInv
<1>8. OneQuestion => OneQuestion'
  BY Zenon, <1>1, Words DEF OneQuestion
<1>9. FirstInv => FirstInv'
  BY Zenon, <1>1, <1>4, <1>8 DEF FirstInv
<1> QED
  BY <1>7, <1>9

\* A file is a sequence.
LEMMA FileLength ==
  ASSUME PrintTypeOK
  PROVE  Len(file) \in Nat /\ file \in Seq(STRING) /\ DOMAIN file = 1..Len(file)
BY PrintAssumption, LenProperties DEF PrintTypeOK

\* With nothing unanswered, no line is.
LEMMA Quiet ==
  ASSUME ~Owing
  PROVE  \A l \in Lines : ~Owes(l)
BY EmptySeq DEF Owing, Owes

\* A feeder is started: it drains what is answered, not what is still to be.
LEMMA StartInv ==
  ASSUME PrintInv, StartFeeder, OneQuestion
  PROVE  PrintInv' /\ (FirstInv => FirstInv')
<1>1. /\ pc = "idle" /\ pc' = "preflight" /\ at' = 1 /\ await' = FALSE /\ heard' = {} /\ toFeeder' = <<>>
      /\ sessions < MaxSessions /\ sessions' = sessions + 1 /\ gaveUp' = FALSE
      /\ UNCHANGED <<file, part, toKlippy, klippy, on, kills>> /\ ~Refused(file)
  BY DEF StartFeeder
<1>2. PrintTypeOK'
  <2>1. at' \in 1..Len(file') + 4
    BY <1>1, FileLength DEF PrintInv
  <2>2. sessions' \in 0..MaxSessions
    BY <1>1, PrintAssumption DEF PrintInv, PrintTypeOK
  <2>3. toFeeder' \in Seq(Texts \cup {"!!", "ok"})
    BY Zenon, <1>1, EmptySeq
  <2> QED
    BY <1>1, <2>1, <2>2, <2>3 DEF PrintInv, PrintTypeOK
<1>3. (\A t : ~Has(t)') /\ (\A l : Owes(l)' <=> Owes(l)) /\ (Owing' <=> Owing)
  BY <1>1 DEF Has, Owes, Owing
<1>4. Asked'
  <2>1. Never("ready", "STATUS")' \/ Never("filament", "QUERY")'
    BY <1>3 DEF Never, OneQuestion
  <2> QED
    BY <1>1, <1>3, <2>1 DEF Asked
<1>5. PrintInv'
  BY <1>1, <1>2, <1>4 DEF PrintInv
<1>6. FirstInv => FirstInv'
  <2> SUFFICES ASSUME FirstInv PROVE FirstInv'
    OBVIOUS
  <2>1. sessions \in Nat
    BY PrintAssumption DEF PrintInv, PrintTypeOK
  <2>2. OneQuestion'
    BY <1>3 DEF OneQuestion
  <2>3. sessions' = 1 => Clean'
    BY <1>1, <1>3, <2>1 DEF FirstInv, Clean
  <2> QED
    BY <1>1, <2>1, <2>2, <2>3 DEF FirstInv
<1> QED
  BY <1>5, <1>6

\* With nothing unanswered, a line that is sent is all there is.
LEMMA OneLine ==
  ASSUME PrintTypeOK, Clean, ~await, NEW l \in Lines, toKlippy' = Append(toKlippy, l), await' = TRUE,
         UNCHANGED <<klippy, toFeeder>>
  PROVE  Clean' /\ OneQuestion'
<1>1. ~Owing /\ ~Has("ok")
  BY DEF Clean
<1>2. toKlippy \in Seq(Lines) /\ toKlippy = <<>> /\ klippy \notin Lines
  BY <1>1 DEF Owing, PrintTypeOK
<1>3. /\ Len(toKlippy') = Len(toKlippy) + 1
      /\ \A m : Owes(m)' <=> Owes(m) \/ m = l
  BY <1>2, Queued
<1>4. Len(toKlippy') = 1
  BY <1>2, <1>3, EmptySeq
<1>5. ~Has("ok")' /\ klippy' \notin Lines
  BY <1>1, <1>2 DEF Has
<1>6. OneQuestion'
  BY <1>1, <1>3, Quiet, Words DEF OneQuestion
<1> QED
  BY <1>4, <1>5, <1>6 DEF Clean

\* What command() writes.
LEMMA Sent ==
  ASSUME PrintInv, Send
  PROVE  /\ ~await /\ await' = TRUE /\ heard' = {}
         /\ UNCHANGED <<file, pc, gaveUp, toFeeder, klippy, on, sessions, kills>> /\ part' = FALSE
         /\ \/ /\ pc = "preflight" /\ at' = at
               /\ \/ at = 1 /\ \E l \in {"STATUS", "joined"} : toKlippy' = Append(toKlippy, l)
                  \/ at = 2 /\ \E l \in {"QUERY", "joined"} : toKlippy' = Append(toKlippy, l)
            \/ /\ pc = "print" /\ at' \in 1..Len(file)
               /\ \E l \in Allowed \cup {"joined"} : toKlippy' = Append(toKlippy, l)
<1>1. /\ ~await /\ await' = TRUE /\ heard' = {} /\ pc \in {"preflight", "print"}
      /\ UNCHANGED <<file, pc, gaveUp, toFeeder, klippy, on, sessions, kills>> /\ part' = FALSE
  BY DEF Send, Writes
<1>2. PICK i \in Due : /\ (\A j \in Due : i <= j) /\ at' = i
                      /\ \E l \in {Script[i], "joined"} : toKlippy' = Append(toKlippy, l)
  BY DEF Send, Writes
<1>3. CASE pc = "preflight"
  <2>1. at \in {1, 2}
    BY <1>3 DEF PrintInv, Asked
  <2>2. Script = Preflight /\ Len(Preflight) = 2 /\ Preflight[1] = "STATUS" /\ Preflight[2] = "QUERY"
    BY <1>3 DEF Script, Preflight
  <2>3. \A k : k \in Due <=> k \in at..2
    BY <1>3, <2>2 DEF Due
  <2>4. i = at
    BY <1>2, <2>1, <2>3
  <2> QED
    BY <1>1, <1>2, <1>3, <2>1, <2>2, <2>4
<1>4. CASE pc = "print"
  <2>1. Script = file
    BY <1>4 DEF Script
  <2>2. i \in Commands(file) /\ i \in at..Len(file)
    BY <1>4, <2>1 DEF Due
  <2>3. i \in Kept(file) /\ file[i] # "comment"
    BY <2>2 DEF Commands
  <2>4. Supported(file[i])
    BY <1>4, <2>3 DEF PrintInv, Refused
  <2>5. file[i] \in Allowed
    BY <2>3, <2>4 DEF Supported
  <2>6. at' \in 1..Len(file)
    BY <1>2, <2>3, FileLength DEF Kept, PrintInv
  <2> QED
    BY <1>1, <1>2, <1>4, <2>1, <2>5, <2>6
<1> QED
  BY <1>1, <1>3, <1>4

\* A question or a command is sent.  STATUS may follow a question of an earlier feeder: an ok
\* that is not its own then comes before its text.  If an earlier STATUS tells the text, QUERY
\* still has to be told its own.
LEMMA SendInv ==
  ASSUME PrintInv, Send
  PROVE  PrintInv' /\ (FirstInv => FirstInv')
<1>1. /\ ~await /\ await' = TRUE /\ heard' = {}
      /\ UNCHANGED <<file, pc, gaveUp, toFeeder, klippy, on, sessions, kills>> /\ part' = FALSE
      /\ \/ /\ pc = "preflight" /\ at' = at
            /\ \/ at = 1 /\ \E l \in {"STATUS", "joined"} : toKlippy' = Append(toKlippy, l)
               \/ at = 2 /\ \E l \in {"QUERY", "joined"} : toKlippy' = Append(toKlippy, l)
         \/ /\ pc = "print" /\ at' \in 1..Len(file)
            /\ \E l \in Allowed \cup {"joined"} : toKlippy' = Append(toKlippy, l)
  BY Sent
<1>2. PICK l \in Lines :
        /\ toKlippy' = Append(toKlippy, l)
        /\ pc = "preflight" => l \in {Preflight[at], "joined"} /\ at' = at /\ at \in {1, 2}
        /\ pc # "preflight" => pc = "print" /\ at' \in 1..Len(file)
  BY <1>1, Words DEF Preflight
<1>3. /\ toKlippy \in Seq(Lines) /\ toKlippy' \in Seq(Lines) /\ toKlippy' # <<>>
      /\ toKlippy'[1] = IF toKlippy = <<>> THEN l ELSE toKlippy[1]
      /\ \A m : Owes(m)' <=> Owes(m) \/ m = l
  BY <1>1, <1>2, Queued DEF PrintInv, PrintTypeOK
<1>4. \A t : Has(t)' <=> Has(t)
  BY <1>1 DEF Has
<1>5. Clean => Clean' /\ OneQuestion'
  BY <1>1, <1>2, OneLine DEF PrintInv
<1>6. PrintTypeOK'
  <2>1. at' \in 1..Len(file') + 4
    BY <1>1, <1>2, FileLength DEF PrintInv, PrintTypeOK
  <2> QED
    BY <1>1, <1>3, <2>1 DEF PrintInv, PrintTypeOK
<1>7. toKlippy # <<>> => \E i \in DOMAIN toKlippy : toKlippy[i] = toKlippy[1]
  BY <1>3, LenProperties, EmptySeq
<1>8. ASSUME pc = "preflight" PROVE Asked'
  <2>1. Asked /\ klippy \in {"idle", "shutdown"} \cup Lines
    BY <1>8 DEF PrintInv, PrintTypeOK
  <2>2. CASE at = 1
    <3>1. l \in {"STATUS", "joined"} /\ at' = 1
      BY <1>2, <1>8, <2>2 DEF Preflight
    <3>2. Never("filament", "QUERY") => Never("filament", "QUERY")'
      BY <1>3, <1>4, <3>1 DEF Never
    <3>3. ASSUME Never("ready", "STATUS"), ~Never("filament", "QUERY") PROVE Later("ready", "STATUS")'
      <4>1. ~Has("ready")' /\ ("ready" \notin heard)'
        BY <1>1, <1>4, <3>3 DEF Never
      <4>2. ~Has("ok")' => Owes("QUERY")
        BY <1>1, <1>4, <2>1, <2>2, <3>3 DEF Asked, Never
      <4>3. klippy' # "STATUS"
        BY <1>1, <3>3 DEF Never, Owes
      <4>4. ~Has("ok")' /\ klippy' = "idle" => toKlippy'[1] # "STATUS"
        <5> SUFFICES ASSUME ~Has("ok")', klippy' = "idle" PROVE toKlippy'[1] # "STATUS"
          OBVIOUS
        <5>1. toKlippy # <<>>
          BY <1>1, <4>2, EmptySeq DEF Owes
        <5>2. Owes(toKlippy[1])
          BY <1>7, <5>1 DEF Owes
        <5> QED
          BY <1>3, <3>3, <5>1, <5>2 DEF Never
      <4> QED
        BY <4>1, <4>3, <4>4 DEF Later, Has
    <3> QED
      BY <1>1, <2>1, <2>2, <3>1, <3>2, <3>3 DEF Asked
  <2>3. CASE at = 2
    <3>1. l \in {"QUERY", "joined"} /\ at' = 2
      BY <1>2, <1>8, <2>3 DEF Preflight
    <3>2. ASSUME Never("filament", "QUERY"), ~Clean PROVE Later("filament", "QUERY")'
      <4>1. ~Has("filament")' /\ ("filament" \notin heard)'
        BY <1>1, <1>4, <3>2 DEF Never
      <4>2. klippy' # "QUERY"
        BY <1>1, <3>2 DEF Never, Owes
      <4>3. ~Has("ok")' /\ klippy' = "idle" => toKlippy'[1] # "QUERY"
        <5> SUFFICES ASSUME ~Has("ok")', klippy' = "idle" PROVE toKlippy'[1] # "QUERY"
          OBVIOUS
        <5>1. toKlippy # <<>>
          BY <1>1, <1>4, <3>2, Words DEF Clean, Owing
        <5>2. Owes(toKlippy[1])
          BY <1>7, <5>1 DEF Owes
        <5> QED
          BY <1>3, <3>2, <5>1, <5>2 DEF Never
      <4> QED
        BY <4>1, <4>2, <4>3 DEF Later, Has
    <3> QED
      BY <1>1, <1>5, <2>1, <2>3, <3>1, <3>2 DEF Asked
  <2> QED
    BY <2>1, <2>2, <2>3 DEF Asked
<1>9. PrintInv'
  <2>1. pc' = "print" => Clean' /\ at' <= Len(file') + 1 /\ at' <= Len(file')
    BY <1>1, <1>2, <1>5, FileLength DEF PrintInv
  <2>2. Refused(file)' <=> Refused(file)
    BY <1>1
  <2>3. pc' \in {"preflight", "print"}
    BY <1>1
  <2> QED
    BY <1>1, <1>6, <1>8, <2>1, <2>2, <2>3 DEF PrintInv
<1>10. FirstInv => FirstInv'
  <2> SUFFICES ASSUME FirstInv PROVE FirstInv'
    OBVIOUS
  <2>1. sessions \in Nat /\ sessions # 0
    BY <1>1, PrintAssumption DEF PrintInv, PrintTypeOK, FirstInv
  <2>2. sessions <= 1 => Clean
    BY <1>1, <2>1 DEF FirstInv
  <2> QED
    BY <1>1, <1>5, <2>1, <2>2 DEF FirstInv
<1> QED
  BY <1>9, <1>10

\* A response that is taken: what is awaited, or not, as before.
LEMMA Heard ==
  ASSUME PrintTypeOK, await, toFeeder # <<>>, toFeeder' = Tail(toFeeder), UNCHANGED <<toKlippy, klippy>>
  PROVE  /\ Head(toFeeder) \in Said /\ toFeeder' \in Seq(Said)
         /\ (Owing' <=> Owing) /\ \A l : Owes(l)' <=> Owes(l)
         /\ \A t : Has(t)' => Has(t)
         /\ \A t, l : Never(t, l) => Never(t, l)'
         /\ Clean /\ Head(toFeeder) = "ok" /\ ~await' => Clean'
         /\ Clean /\ Head(toFeeder) # "ok" /\ await' => Clean'
         /\ \A t, l : Later(t, l) /\ Head(toFeeder) # "ok" =>
              Head(toFeeder) # t /\ (heard' \subseteq heard \cup {Head(toFeeder)} => Later(t, l)')
<1> DEFINE n == Len(toFeeder)
<1>1. /\ toFeeder' \in Seq(Said) /\ Head(toFeeder) = toFeeder[1] /\ Head(toFeeder) \in Said
      /\ n \in Nat \ {0} /\ DOMAIN toFeeder = 1..n
      /\ DOMAIN toFeeder' = 1..n - 1
      /\ \A i \in 1..n - 1 : toFeeder'[i] = toFeeder[i + 1]
  <2>1. toFeeder \in Seq(Said)
    BY DEF PrintTypeOK, Said
  <2> QED
    BY <2>1, Shorter
<1> HIDE DEF n
<1>2. (Owing' <=> Owing) /\ \A l : Owes(l)' <=> Owes(l)
  BY DEF Owing, Owes
<1>3. \A i \in 1..n - 1 : i + 1 \in 1..n /\ i + 1 # 1
  BY <1>1
<1>4. \A i \in 1..n : i # 1 => i - 1 \in 1..n - 1 /\ toFeeder'[i - 1] = toFeeder[i]
  BY <1>1
<1>5. ASSUME NEW t, Has(t)' PROVE Has(t)
  BY <1>1, <1>3, <1>5 DEF Has
<1>6. ASSUME NEW t, NEW l, Never(t, l) PROVE Never(t, l)'
  BY <1>2, <1>5, <1>6 DEF Never
<1>7. 1 \in DOMAIN toFeeder
  BY <1>1
<1>8. ASSUME Clean, Has("ok")
      PROVE ~Owing /\ \E i \in 1..n : \A j \in 1..n : toFeeder[j] = "ok" <=> j = i
  <2>1. ~Owing /\ \E i \in DOMAIN toFeeder : \A j \in DOMAIN toFeeder : toFeeder[j] = "ok" <=> j = i
    BY Zenon, <1>8 DEF Clean
  <2>2. DOMAIN toFeeder = 1..n
    BY <1>1
  <2> QED
    BY <2>1, <2>2
<1>9. ASSUME Clean, Head(toFeeder) = "ok", ~await' PROVE Clean'
  <2>1. Has("ok")
    BY <1>1, <1>7, <1>9 DEF Has
  <2>2. PICK i \in 1..n : \A j \in 1..n : toFeeder[j] = "ok" <=> j = i
    BY <1>8, <1>9, <2>1
  <2>3. i = 1
    BY <1>1, <1>7, <1>9, <2>2
  <2>4. ~Has("ok")'
    BY <1>1, <1>3, <2>2, <2>3 DEF Has
  <2>5. ~Owing'
    BY <1>2, <1>8, <1>9, <2>1
  <2> QED
    BY <1>9, <2>4, <2>5 DEF Clean
<1>10. ASSUME Clean, Head(toFeeder) # "ok", await' PROVE Clean'
  <2>1. CASE Has("ok")
    <3>1. PICK i \in 1..n : \A j \in 1..n : toFeeder[j] = "ok" <=> j = i
      BY <1>8, <1>10, <2>1
    <3>2. i # 1
      BY <1>1, <1>7, <1>10, <3>1
    <3>3. i - 1 \in DOMAIN toFeeder'
      BY <1>1, <1>4, <3>2
    <3>4. ASSUME NEW j \in DOMAIN toFeeder' PROVE toFeeder'[j] = "ok" <=> j = i - 1
      BY <1>1, <1>3, <3>1, <3>4
    <3>5. ~Owing'
      BY <1>2, <1>8, <1>10, <2>1
    <3>6. \E k \in DOMAIN toFeeder' : \A j \in DOMAIN toFeeder' : toFeeder'[j] = "ok" <=> j = k
      BY Zenon, <3>3, <3>4
    <3> QED
      BY <1>10, <3>5, <3>6 DEF Clean
  <2>2. CASE ~Has("ok")
    <3>1. ~Has("ok")'
      BY <1>5, <2>2
    <3>2. IF klippy \in Lines THEN toKlippy = <<>> ELSE Len(toKlippy) = 1
      <4>1. ~\E i \in DOMAIN toFeeder : \A j \in DOMAIN toFeeder : toFeeder[j] = "ok" <=> j = i
        BY <2>2 DEF Has
      <4> QED
        BY <1>10, <4>1 DEF Clean
    <3> QED
      BY <1>10, <3>1, <3>2 DEF Clean
  <2> QED
    BY <2>1, <2>2
<1>11. ASSUME NEW t, NEW l, Later(t, l), Head(toFeeder) # "ok"
       PROVE  Head(toFeeder) # t /\ (heard' \subseteq heard \cup {Head(toFeeder)} => Later(t, l)')
  <2>1. \A i \in 1..n : toFeeder[i] = t => \E j \in 1..i - 1 : toFeeder[j] = "ok"
    BY <1>1, <1>11 DEF Later
  <2>2. toFeeder[1] # t
    BY <1>1, <1>7, <2>1
  <2>3. ASSUME NEW i \in DOMAIN toFeeder', toFeeder'[i] = t PROVE \E j \in 1..i - 1 : toFeeder'[j] = "ok"
    <3>1. i \in Nat /\ i + 1 \in 1..n /\ toFeeder[i + 1] = t
      BY <1>1, <1>3, <2>3
    <3>2. PICK j \in 1..i : toFeeder[j] = "ok"
      BY <2>1, <3>1
    <3>3. j # 1 /\ j \in 1..n
      BY <1>1, <1>11, <3>1, <3>2
    <3>4. j - 1 \in 1..i - 1
      BY <3>1, <3>2, <3>3
    <3> QED
      BY <1>4, <3>2, <3>3, <3>4
  <2>4. ~Has("ok")' => ~Has("ok")
    <3> SUFFICES ASSUME NEW i \in 1..n, toFeeder[i] = "ok" PROVE \E k \in 1..n - 1 : toFeeder'[k] = "ok"
      BY <1>1 DEF Has
    <3>1. i # 1
      BY <1>1, <1>11
    <3> QED
      BY <1>4, <3>1
  <2> QED
    BY <1>1, <1>11, <2>2, <2>3, <2>4 DEF Later
<1> QED
  BY <1>1, <1>2, <1>5, <1>6, <1>9, <1>10, <1>11

\* command() takes a response.  An ok that comes before the text ends the preflight; one that
\* follows it is the last that is due, or leaves QUERY to be told.
LEMMA ReceiveInv ==
  ASSUME PrintInv, Receive
  PROVE  PrintInv' /\ (FirstInv => FirstInv')
<1>1. /\ await /\ toFeeder # <<>> /\ toFeeder' = Tail(toFeeder) /\ pc \in {"preflight", "print"}
      /\ UNCHANGED <<file, part, gaveUp, toKlippy, klippy, on, sessions, kills>> /\ PrintTypeOK
  BY DEF Receive, PrintInv
<1>2. /\ Head(toFeeder) \in Said /\ toFeeder' \in Seq(Said)
      /\ (Owing' <=> Owing) /\ \A l : Owes(l)' <=> Owes(l)
      /\ \A t, l : Never(t, l) => Never(t, l)'
      /\ Clean /\ Head(toFeeder) = "ok" /\ ~await' => Clean'
      /\ Clean /\ Head(toFeeder) # "ok" /\ await' => Clean'
      /\ \A t, l : Later(t, l) /\ Head(toFeeder) # "ok" =>
           Head(toFeeder) # t /\ (heard' \subseteq heard \cup {Head(toFeeder)} => Later(t, l)')
  BY <1>1, Heard
<1>3. \/ /\ Head(toFeeder) = "ok" /\ Passes /\ UNCHANGED heard /\ await' = FALSE
         /\ pc' = (IF pc = "preflight" /\ at = 2 THEN "print" ELSE pc)
         /\ at' = (IF pc = "preflight" /\ at = 2 THEN 1 ELSE at + 1)
      \/ pc' = "stop" /\ at' = 1 /\ await' = FALSE /\ UNCHANGED heard
      \/ /\ Head(toFeeder) \notin {"ok", "!!"} /\ heard' = heard \cup {Head(toFeeder)}
         /\ UNCHANGED <<pc, at, await>>
  <2>1. CASE Head(toFeeder) = "ok" /\ Passes
    BY <2>1 DEF Receive
  <2>2. CASE Head(toFeeder) = "ok" /\ ~Passes
    BY <2>2 DEF Receive, Abort
  <2>3. CASE Head(toFeeder) = "!!"
    BY <2>3 DEF Receive, Abort
  <2>4. CASE Head(toFeeder) \notin {"ok", "!!"}
    BY <2>4 DEF Receive
  <2> QED
    BY <2>1, <2>2, <2>3, <2>4
<1>4. /\ Len(file) \in Nat /\ at \in Nat \ {0}
      /\ IF pc = "print" THEN at <= Len(file) ELSE at \in {1, 2}
  BY <1>1, FileLength DEF PrintInv, Asked, PrintTypeOK
<1>5. PrintTypeOK'
  <2>0. at' \in {1, at, at + 1} /\ pc' \in {"preflight", "print", "stop"}
    BY <1>1, <1>3
  <2>1. at' \in 1..Len(file') + 4
    BY <1>1, <1>4, <2>0
  <2>2. heard' \subseteq Texts /\ await' \in BOOLEAN
    BY <1>1, <1>2, <1>3 DEF PrintTypeOK, Said
  <2> QED
    BY <1>1, <1>2, <2>0, <2>1, <2>2 DEF PrintTypeOK, Said
<1>6. Clean => (await' \/ Head(toFeeder) = "ok" => Clean')
  BY <1>2, <1>3
<1>7. ASSUME pc' = "preflight" PROVE Asked'
  <2>1. pc = "preflight" /\ Asked
    BY <1>1, <1>3, <1>7 DEF PrintInv
  <2>2. CASE Head(toFeeder) = "ok" /\ Passes /\ UNCHANGED heard /\ await' = FALSE /\ at = 1 /\ at' = 2
    <3>1. "ready" \in heard
      BY <2>1, <2>2 DEF Passes
    <3>2. Clean \/ Never("filament", "QUERY")
      BY <1>1, <2>1, <2>2, <3>1 DEF Asked, Later
    <3> QED
      BY <1>2, <2>2, <3>2 DEF Asked
  <2>3. CASE /\ Head(toFeeder) \notin {"ok", "!!"} /\ heard' = heard \cup {Head(toFeeder)}
             /\ UNCHANGED <<pc, at, await>>
    <3>1. heard' \subseteq heard \cup {Head(toFeeder)} /\ Head(toFeeder) # "ok"
      BY <2>3
    <3>2. /\ Clean => Clean'
          /\ Never("filament", "QUERY") => Never("filament", "QUERY")'
          /\ Later("filament", "QUERY") => Later("filament", "QUERY")'
          /\ Later("ready", "STATUS") => Later("ready", "STATUS")'
      BY <1>1, <1>2, <2>3, <3>1
    <3> QED
      BY <1>1, <2>1, <2>3, <3>2 DEF Asked
  <2>4. at = 2 => await'
    BY <1>1, <1>3, <1>7, <2>1
  <2>5. at \in {1, 2}
    BY <2>1 DEF Asked
  <2>6. CASE /\ Head(toFeeder) = "ok" /\ Passes /\ UNCHANGED heard /\ await' = FALSE
             /\ at' = (IF pc = "preflight" /\ at = 2 THEN 1 ELSE at + 1)
    <3>1. at = 1 /\ at' = 2
      BY <2>1, <2>4, <2>5, <2>6
    <3> QED
      BY <2>2, <2>6, <3>1
  <2>7. pc' # "stop"
    BY <1>7
  <2> QED
    BY Zenon, <1>3, <2>3, <2>6, <2>7
<1>8. ASSUME pc' = "print" PROVE Clean' /\ at' <= Len(file') + 1 /\ (await' => at' <= Len(file'))
  <2>1. CASE pc = "print"
    <3>1. Clean
      BY <2>1 DEF PrintInv
    <3>2. \/ Head(toFeeder) = "ok" /\ ~await' /\ at' = at + 1
          \/ await' /\ at' = at
      BY <1>1, <1>3, <1>8, <2>1
    <3> QED
      BY <1>1, <1>4, <1>6, <2>1, <3>1, <3>2
  <2>2. CASE pc = "preflight"
    <3>1. Head(toFeeder) = "ok" /\ Passes /\ at = 2 /\ at' = 1 /\ await' = FALSE
      BY <1>3, <1>8, <2>2
    <3>2. "filament" \in heard
      BY <2>2, <3>1 DEF Passes
    <3>3. Clean
      BY <1>1, <2>2, <3>1, <3>2 DEF PrintInv, Asked, Later
    <3> QED
      BY <1>1, <1>4, <1>6, <3>1, <3>3
  <2> QED
    BY <1>1, <2>1, <2>2
<1>9. PrintInv'
  <2>1. Refused(file)' <=> Refused(file)
    BY <1>1
  <2>2. await' => pc' \in {"preflight", "print"}
    BY <1>1, <1>3
  <2> QED
    BY <1>1, <1>5, <1>7, <1>8, <2>1, <2>2 DEF PrintInv
<1>10. FirstInv => FirstInv'
  <2> SUFFICES ASSUME FirstInv PROVE FirstInv'
    OBVIOUS
  <2>1. sessions # 0 /\ sessions' = sessions
    BY <1>1 DEF FirstInv
  <2>2. OneQuestion' <=> OneQuestion
    BY <1>2 DEF OneQuestion
  <2>3. sessions = 1 /\ pc' \in {"preflight", "print"} => Clean'
    <3>1. pc' \in {"preflight", "print"} => await' \/ Head(toFeeder) = "ok"
      BY <1>1, <1>3
    <3> QED
      BY <1>1, <1>6, <3>1 DEF FirstInv
  <2> QED
    BY <2>1, <2>2, <2>3 DEF FirstInv
<1> QED
  BY <1>9, <1>10

\* A line of the safe stop is none of the questions.
LEMMA StoppingInv ==
  ASSUME PrintInv, Stopping
  PROVE  PrintInv' /\ (FirstInv => FirstInv')
<1> DEFINE l == IF part THEN "joined" ELSE SafeStop[at]
<1>1. /\ pc = "stop" /\ at <= 3 /\ toKlippy' = Append(toKlippy, l) /\ at' = at + 1 /\ part' = FALSE
      /\ UNCHANGED <<file, pc, await, heard, gaveUp, toFeeder, klippy, on, sessions, kills>>
  <2>1. Len(SafeStop) = 3
    BY DEF SafeStop
  <2> QED
    BY <2>1 DEF Stopping, Script, Writes
<1>2. PrintTypeOK /\ ~await /\ at \in 1..3
  BY <1>1 DEF PrintInv, PrintTypeOK
<1>3. l \in Lines \ {"STATUS", "QUERY"}
  BY <1>2, Words
<1> HIDE DEF l
<1>4. /\ toKlippy' \in Seq(Lines)
      /\ \A m : Owes(m)' <=> Owes(m) \/ m = l
  BY <1>1, <1>2, <1>3, Queued DEF PrintTypeOK
<1>5. PrintTypeOK'
  <2>1. at' \in 1..Len(file') + 4
    BY <1>1, <1>2, FileLength
  <2> QED
    BY <1>1, <1>2, <1>4, <2>1 DEF PrintTypeOK
<1>6. PrintInv'
  BY <1>1, <1>2, <1>5 DEF PrintInv
<1>7. OneQuestion' <=> OneQuestion
  BY <1>3, <1>4 DEF OneQuestion
<1>8. FirstInv => FirstInv'
  BY <1>1, <1>7 DEF FirstInv
<1> QED
  BY <1>6, <1>8

\* A feeder that is stopped, returns or is killed leaves what is in the PTY.
LEMMA LeaveInv ==
  ASSUME PrintInv, Interrupted \/ GivesUp \/ End \/ Killed
  PROVE  PrintInv' /\ (FirstInv => FirstInv')
<1>1. /\ UNCHANGED <<file, heard, toKlippy, toFeeder, klippy, on, sessions>> /\ pc # "idle"
      /\ pc' \in {"stop", "idle"} /\ await' = FALSE /\ at' \in {1, at} /\ kills' \in 0..MaxKills
      /\ part' \in BOOLEAN /\ gaveUp' \in BOOLEAN
  <2>1. CASE Interrupted
    BY <2>1 DEF Interrupted, Abort, Broken, PrintInv, PrintTypeOK
  <2>2. CASE End
    BY <2>2 DEF End, PrintInv, PrintTypeOK
  <2>3. CASE Killed
    <3>1. kills' \in 0..MaxKills
      BY <2>3, PrintAssumption DEF Killed, PrintInv, PrintTypeOK
    <3>2. part' \in BOOLEAN /\ gaveUp' \in BOOLEAN
      BY Zenon, <2>3 DEF Killed, Broken, PrintInv, PrintTypeOK
    <3> QED
      BY <2>3, <3>1, <3>2 DEF Killed
  <2>4. CASE GivesUp
    BY <2>4 DEF GivesUp, Broken, PrintInv, PrintTypeOK
  <2> QED
    BY <2>1, <2>2, <2>3, <2>4
<1>2. PrintTypeOK'
  <2>1. at' \in 1..Len(file') + 4
    BY <1>1, FileLength DEF PrintInv, PrintTypeOK
  <2> QED
    BY <1>1, <2>1 DEF PrintInv, PrintTypeOK
<1>3. PrintInv'
  BY <1>1, <1>2 DEF PrintInv
<1>4. OneQuestion' <=> OneQuestion
  BY <1>1 DEF OneQuestion, Owes
<1>5. FirstInv => FirstInv'
  BY <1>1, <1>4 DEF FirstInv
<1> QED
  BY <1>3, <1>5

\* No step lets go of it, when a feeder that is started finds one question unanswered at most.
LEMMA PrintInvNext ==
  ASSUME PrintInv, [PrintNext]_printVars, StartFeeder => OneQuestion
  PROVE  PrintInv' /\ (FirstInv => FirstInv')
<1>1. CASE StartFeeder
  BY <1>1, StartInv
<1>2. CASE Send
  BY <1>2, SendInv
<1>3. CASE Receive
  BY <1>3, ReceiveInv
<1>4. CASE Stopping
  BY <1>4, StoppingInv
<1>5. CASE Interrupted \/ GivesUp \/ End \/ Killed
  BY <1>5, LeaveInv
<1>6. CASE KlippyStep \/ KlippyShutsDown
  BY <1>6, KlippyInv
<1>7. CASE UNCHANGED printVars
  <2>1. UNCHANGED <<file, pc, at, await, heard, part, gaveUp, toKlippy, toFeeder, klippy, on, sessions, kills>>
    BY <1>7
  <2>2. PrintInv' <=> PrintInv
    BY <2>1 DEF PrintInv, PrintTypeOK, Asked, Clean, Never, Later, Owing, Has, Owes
  <2>3. FirstInv' <=> FirstInv
    BY <2>1 DEF FirstInv, OneQuestion, Clean, Owing, Has, Owes
  <2> QED
    BY <2>2, <2>3
<1> QED
  BY Zenon, <1>1, <1>2, <1>3, <1>4, <1>5, <1>6, <1>7 DEF PrintNext, Feeder

\* The first feeder finds an empty PTY.
LEMMA PrintInvInit ==
  ASSUME PrintInit
  PROVE  PrintInv /\ FirstInv
<1>1. /\ file \in Files /\ pc = "idle" /\ at = 1 /\ await = FALSE /\ heard = {}
      /\ part = FALSE /\ gaveUp = FALSE /\ toKlippy = <<>> /\ toFeeder = <<>> /\ klippy = "idle" /\ on = {}
      /\ sessions = 0 /\ kills = 0
  BY DEF PrintInit
<1>2. Len(file) \in Nat
  BY <1>1, PrintAssumption, LenProperties
<1>3. PrintTypeOK
  <2>1. toKlippy \in Seq(Lines) /\ toFeeder \in Seq(Texts \cup {"!!", "ok"})
    BY Zenon, <1>1, EmptySeq
  <2>2. at \in 1..Len(file) + 4 /\ sessions \in 0..MaxSessions /\ kills \in 0..MaxKills
    BY <1>1, <1>2, PrintAssumption
  <2> QED
    BY <1>1, <2>1, <2>2 DEF PrintTypeOK
<1>4. ~Owing
  BY <1>1, Words DEF Owing
<1>5. OneQuestion
  BY <1>4, Quiet, Words DEF OneQuestion
<1> QED
  BY <1>1, <1>3, <1>4, <1>5 DEF PrintInv, FirstInv

\* It implies the property.
LEMMA OneAtMost ==
  ASSUME PrintInv
  PROVE  OneAtATime
<1>1. ASSUME pc = "print"
      PROVE  Len(toKlippy) + (IF klippy \in Lines THEN 1 ELSE 0) <= (IF await THEN 1 ELSE 0)
  <2>1. Clean
    BY <1>1 DEF PrintInv
  <2>2. toKlippy = <<>> => Len(toKlippy) = 0
    BY EmptySeq
  <2>3. CASE ~Owing
    BY <2>2, <2>3 DEF Owing
  <2>4. CASE await /\ IF klippy \in Lines THEN toKlippy = <<>> ELSE Len(toKlippy) = 1
    <3>1. CASE klippy \in Lines
      BY <2>2, <2>4, <3>1
    <3>2. CASE klippy \notin Lines
      <4>1. Len(toKlippy) = 1
        BY <2>4, <3>2
      <4>2. (IF klippy \in Lines THEN 1 ELSE 0) = 0 /\ (IF await THEN 1 ELSE 0) = 1
        BY <2>4, <3>2
      <4> QED
        BY <4>1, <4>2
    <3> QED
      BY <3>1, <3>2
  <2> QED
    BY Zenon, <2>1, <2>3, <2>4 DEF Clean
<1> QED
  BY <1>1 DEF OneAtATime, PrintInv

\* One command at a time, over any number of feeders, as long as a feeder that is started
\* finds one of the preflight's two questions unanswered at most: it can take the answer to
\* one for its own, and waits for the other.  command() and preflight of the feeder.
THEOREM OneCommand ==
  PrintSpec /\ [][StartFeeder => OneQuestion]_printVars => []OneAtATime
<1>1. PrintInit => PrintInv
  BY PrintInvInit
<1>2. PrintInv /\ [PrintNext]_printVars /\ [StartFeeder => OneQuestion]_printVars => PrintInv'
  <2>1. StartFeeder => sessions' # sessions \/ ~PrintInv
    BY PrintAssumption DEF StartFeeder, PrintInv, PrintTypeOK
  <2> QED
    BY <2>1, PrintInvNext
<1>3. PrintInv => OneAtATime
  BY OneAtMost
<1> QED
  BY <1>1, <1>2, <1>3, PTL DEF PrintSpec

\* Two feeders never need that to be supposed: the second finds what one has left.
THEOREM TwoFeeders ==
  ASSUME MaxSessions <= 2
  PROVE  PrintSpec => []OneAtATime
<1>1. PrintInit => PrintInv /\ FirstInv
  BY PrintInvInit
<1>2. PrintInv /\ FirstInv /\ [PrintNext]_printVars => PrintInv' /\ FirstInv'
  <2>1. PrintInv /\ FirstInv /\ StartFeeder => OneQuestion
    BY PrintAssumption DEF StartFeeder, PrintInv, PrintTypeOK, FirstInv
  <2> QED
    BY <2>1, PrintInvNext
<1>3. PrintInv => OneAtATime
  BY OneAtMost
<1> QED
  BY <1>1, <1>2, <1>3, PTL DEF PrintSpec

-----------------------------------------------------------------------------
(* The image: induction, and what the recursive functions of F005Image compute. *)

\* Induction over the naturals, for a set.
LEMMA Induction ==
  ASSUME NEW S, 0 \in S, \A n \in Nat : n \in S => n + 1 \in S
  PROVE  Nat \subseteq S
<1> DEFINE R == {p \in Nat \X Nat : p[1] < p[2]}
           T == Nat \ S
<1>1. IsWellFoundedOn(R, Nat)
  BY NatLessThanWellFounded, Zenon DEF OpToRel
<1> SUFFICES ASSUME T # {}
             PROVE  FALSE
  OBVIOUS
<1>2. PICK x \in T : \A y \in T : ~ (<<y, x>> \in R)
  <2> T \subseteq Nat
    OBVIOUS
  <2> HIDE DEF R, T
  <2> QED BY <1>1, WFMin, Zenon
<1>3. x \in Nat /\ x # 0 /\ x - 1 \in Nat
  BY SMT
<1>4. <<x - 1, x>> \in R
  BY <1>3, SMT
<1>5. x - 1 \in S
  BY <1>2, <1>3, <1>4
<1> QED
  BY <1>3, <1>5, (x - 1) + 1 = x

\* f is computed from start in N steps.
Computes(f, N, X, start, step) ==
  f \in [0..N -> X] /\ f[0] = start /\ \A n \in 1..N : f[n] = step[<<f[n - 1], n>>]

\* Such a function exists.
LEMMA Steps ==
  ASSUME NEW N \in Nat, NEW X, NEW start \in X, NEW step \in [X \X (1..N) -> X]
  PROVE  \E f : Computes(f, N, X, start, step)
<1> DEFINE S == {m \in Nat : m <= N =>
                   \E f \in [0..m -> X] :
                     f[0] = start /\ \A n \in 1..m : f[n] = step[<<f[n - 1], n>>]}
<1>1. 0 \in S
  <2> DEFINE f == [n \in 0..0 |-> start]
  <2>1. f \in [0..0 -> X] /\ f[0] = start
    OBVIOUS
  <2> HIDE DEF f
  <2> QED BY <2>1
<1>2. ASSUME NEW m \in Nat, m \in S
      PROVE  m + 1 \in S
  <2> SUFFICES ASSUME m + 1 <= N
               PROVE  \E f \in [0..m + 1 -> X] :
                        f[0] = start /\ \A n \in 1..m + 1 : f[n] = step[<<f[n - 1], n>>]
    OBVIOUS
  <2>1. PICK f \in [0..m -> X] :
               f[0] = start /\ \A n \in 1..m : f[n] = step[<<f[n - 1], n>>]
    BY <1>2
  <2>2. step[<<f[m], m + 1>>] \in X
    BY <2>1
  <2> DEFINE g == [n \in 0..m + 1 |-> IF n = m + 1 THEN step[<<f[m], m + 1>>] ELSE f[n]]
  <2>3. g \in [0..m + 1 -> X]
    BY <2>1, <2>2
  <2>4. g[m + 1] = step[<<f[m], m + 1>>] /\ \A n \in 0..m : g[n] = f[n]
    OBVIOUS
  <2> HIDE DEF g
  <2>5. g[0] = start
    BY <2>1, <2>4
  <2>6. ASSUME NEW n \in 1..m + 1
        PROVE  g[n] = step[<<g[n - 1], n>>]
    <3>1. CASE n = m + 1
      BY <2>4, <3>1
    <3>2. CASE n \in 1..m
      BY <2>1, <2>4, <3>2
    <3> QED
      BY <3>1, <3>2
  <2> QED
    BY <2>3, <2>5, <2>6
<1>3. N \in S
  <2> HIDE DEF S
  <2> QED BY <1>1, <1>2, Induction
<1> QED
  BY <1>3 DEF Computes

\* The bytes of a file.
LEMMA Bytes ==
  ASSUME NEW data \in Seq(Byte)
  PROVE  /\ Len(data) \in Nat /\ data = [n \in 1..Len(data) |-> data[n]]
         /\ \A n \in 1..Len(data) : data[n] \in Byte /\ data[n] \in Nat
<1>1. \A n \in 1..Len(data) : data[n] \in Byte
  BY ElementOfSeq
<1>2. Byte \subseteq Nat
  BY DEF Byte
<1> QED
  BY <1>1, <1>2, LenProperties

\* What Total computes.
LEMMA TotalSteps ==
  ASSUME NEW data \in Seq(Byte)
  PROVE  \E f \in [0..Len(data) -> Nat] :
           /\ f[0] = 0 /\ \A n \in 1..Len(data) : f[n] = f[n - 1] + data[n]
           /\ Total(data) = f[Len(data)]
<1> DEFINE step == [p \in Nat \X (1..Len(data)) |-> p[1] + data[p[2]]]
<1>1. Len(data) \in Nat /\ \A n \in 1..Len(data) : data[n] \in Nat
  BY Bytes
<1>2. step \in [Nat \X (1..Len(data)) -> Nat]
  BY <1>1
<1>3. \A t \in Nat, n \in 1..Len(data) : step[<<t, n>>] = t + data[n]
  OBVIOUS
<1> HIDE DEF step
<1>4. PICK f : Computes(f, Len(data), Nat, 0, step)
  <2>1. 0 \in Nat
    OBVIOUS
  <2> QED
    BY <1>1, <1>2, <2>1, Steps, Zenon
<1> f \in [0..Len(data) -> Nat] /\ f[0] = 0
  BY <1>4 DEF Computes
<1>5. ASSUME NEW n \in 1..Len(data)
      PROVE  f[n] = f[n - 1] + data[n]
  <2>1. n - 1 \in 0..Len(data)
    BY <1>1
  <2>2. f[n - 1] \in Nat
    BY <1>4, <2>1
  <2> QED
    BY <1>3, <1>4, <2>2 DEF Computes
<1> DEFINE sum == CHOOSE g : g = [n \in 0..Len(data) |-> IF n = 0 THEN 0 ELSE g[n - 1] + data[n]]
<1>6. f = [n \in 0..Len(data) |-> IF n = 0 THEN 0 ELSE f[n - 1] + data[n]]
  BY <1>1, <1>4, <1>5
<1>7. sum = [n \in 0..Len(data) |-> IF n = 0 THEN 0 ELSE sum[n - 1] + data[n]]
  BY <1>6, Zenon
<1>8. Total(data) = sum[Len(data)]
  BY Zenon DEF Total
<1> HIDE DEF sum
<1>9. sum[0] = 0 /\ \A n \in 1..Len(data) : sum[n] = sum[n - 1] + data[n]
  BY <1>1, <1>7
<1>10. \A n \in 0..Len(data) : sum[n] = f[n]
  <2> DEFINE S == {n \in Nat : n <= Len(data) => sum[n] = f[n]}
  <2>1. 0 \in S
    BY <1>4, <1>9
  <2>2. \A n \in Nat : n \in S => n + 1 \in S
    BY <1>1, <1>5, <1>9
  <2> HIDE DEF S
  <2>3. Nat \subseteq S
    BY <2>1, <2>2, Induction
  <2> QED
    BY <1>1, <2>3 DEF S
<1> QED
  BY <1>1, <1>4, <1>5, <1>8, <1>10

Word == 0..65535

\* A round of the CRC keeps to 16 bits and is one to one, in the CRC and in the byte (F005Crc).
OneToOne ==
  \A crc, other \in Word, byte, changed \in Byte :
    /\ CrcByte(crc, byte) \in Word
    /\ crc # other => CrcByte(crc, byte) # CrcByte(other, byte)
    /\ byte # changed => CrcByte(crc, byte) # CrcByte(crc, changed)

\* What Crc16 computes.
LEMMA CrcSteps ==
  ASSUME OneToOne, NEW data \in Seq(Byte)
  PROVE  \E f \in [0..Len(data) -> Word] :
           /\ f[0] = 0 /\ \A n \in 1..Len(data) : f[n] = CrcByte(f[n - 1], data[n])
           /\ Crc16(data) = f[Len(data)]
<1> DEFINE step == [p \in Word \X (1..Len(data)) |-> CrcByte(p[1], data[p[2]])]
<1>1. Len(data) \in Nat /\ \A n \in 1..Len(data) : data[n] \in Byte
  BY Bytes
<1>2. step \in [Word \X (1..Len(data)) -> Word]
  BY <1>1 DEF OneToOne
<1>3. \A w \in Word, n \in 1..Len(data) : step[<<w, n>>] = CrcByte(w, data[n])
  OBVIOUS
<1> HIDE DEF step
<1>4. PICK f : Computes(f, Len(data), Word, 0, step)
  <2>1. 0 \in Word
    BY DEF Word
  <2> QED
    BY <1>1, <1>2, <2>1, Steps, Zenon
<1> f \in [0..Len(data) -> Word] /\ f[0] = 0
  BY <1>4 DEF Computes
<1>5. ASSUME NEW n \in 1..Len(data)
      PROVE  f[n] = CrcByte(f[n - 1], data[n])
  <2>1. n - 1 \in 0..Len(data)
    BY <1>1
  <2>2. f[n - 1] \in Word
    BY <1>4, <2>1
  <2> QED
    BY <1>3, <1>4, <2>2 DEF Computes
<1> DEFINE crc == CHOOSE g : g = [n \in 0..Len(data) |-> IF n = 0 THEN 0 ELSE CrcByte(g[n - 1], data[n])]
<1>6. f = [n \in 0..Len(data) |-> IF n = 0 THEN 0 ELSE CrcByte(f[n - 1], data[n])]
  BY <1>1, <1>4, <1>5
<1>7. crc = [n \in 0..Len(data) |-> IF n = 0 THEN 0 ELSE CrcByte(crc[n - 1], data[n])]
  BY <1>6, Zenon
<1>8. Crc16(data) = crc[Len(data)]
  BY Zenon DEF Crc16
<1> HIDE DEF crc
<1>9. crc[0] = 0 /\ \A n \in 1..Len(data) : crc[n] = CrcByte(crc[n - 1], data[n])
  BY <1>1, <1>7
<1>10. \A n \in 0..Len(data) : crc[n] = f[n]
  <2> DEFINE S == {n \in Nat : n <= Len(data) => crc[n] = f[n]}
  <2>1. 0 \in S
    BY <1>4, <1>9
  <2>2. \A n \in Nat : n \in S => n + 1 \in S
    BY <1>1, <1>5, <1>9
  <2> HIDE DEF S
  <2>3. Nat \subseteq S
    BY <2>1, <2>2, Induction
  <2> QED
    BY <1>1, <2>3 DEF S
<1> QED
  BY <1>1, <1>4, <1>5, <1>8, <1>10

\* A changed byte.
LEMMA Changed ==
  ASSUME NEW data \in Seq(Byte), NEW i \in 1..Len(data), NEW b \in Byte
  PROVE  /\ [data EXCEPT ![i] = b] \in Seq(Byte) /\ Len([data EXCEPT ![i] = b]) = Len(data)
         /\ \A n \in 1..Len(data) : [data EXCEPT ![i] = b][n] = IF n = i THEN b ELSE data[n]
BY ExceptSeq

\* It changes the total by as much.
LEMMA TotalChange ==
  ASSUME NEW data \in Seq(Byte), NEW i \in 1..Len(data), NEW b \in Byte
  PROVE  Total([data EXCEPT ![i] = b]) = Total(data) + b - data[i]
<1> DEFINE other == [data EXCEPT ![i] = b]
<1>1. /\ other \in Seq(Byte) /\ Len(other) = Len(data)
      /\ other[i] = b /\ \A n \in 1..Len(data) : n # i => other[n] = data[n]
  BY Changed
<1> HIDE DEF other
<1>2. PICK f \in [0..Len(data) -> Nat] :
             /\ f[0] = 0 /\ \A n \in 1..Len(data) : f[n] = f[n - 1] + data[n]
             /\ Total(data) = f[Len(data)]
  BY TotalSteps
<1>3. PICK g \in [0..Len(data) -> Nat] :
             /\ g[0] = 0 /\ \A n \in 1..Len(data) : g[n] = g[n - 1] + other[n]
             /\ Total(other) = g[Len(data)]
  BY <1>1, TotalSteps
<1>4. Len(data) \in Nat /\ b \in Nat /\ \A n \in 1..Len(data) : data[n] \in Nat
  <2>1. b \in Nat
    BY DEF Byte
  <2> QED
    BY <2>1, Bytes
<1> DEFINE S == {n \in Nat : n <= Len(data) => g[n] = IF n < i THEN f[n] ELSE f[n] + b - data[i]}
<1>5. 0 \in S
  BY <1>2, <1>3, <1>4
<1>6. ASSUME NEW n \in Nat, n \in S
      PROVE  n + 1 \in S
  <2> SUFFICES ASSUME n + 1 <= Len(data)
               PROVE  g[n + 1] = IF n + 1 < i THEN f[n + 1] ELSE f[n + 1] + b - data[i]
    OBVIOUS
  <2>1. n + 1 \in 1..Len(data) /\ (n + 1) - 1 = n /\ f[n] \in Nat /\ g[n] \in Nat
    BY <1>2, <1>3, <1>4
  <2>2. f[n + 1] = f[n] + data[n + 1] /\ g[n + 1] = g[n] + other[n + 1]
    BY <1>2, <1>3, <2>1
  <2>3. g[n] = IF n < i THEN f[n] ELSE f[n] + b - data[i]
    BY <1>4, <1>6
  <2>4. CASE n + 1 = i
    BY <1>1, <1>4, <2>1, <2>2, <2>3, <2>4
  <2>5. CASE n + 1 # i
    BY <1>1, <1>4, <2>1, <2>2, <2>3, <2>5
  <2> QED
    BY <2>4, <2>5
<1>7. Len(data) \in S
  <2> HIDE DEF S
  <2> QED BY <1>4, <1>5, <1>6, Induction
<1> QED
  BY <1>2, <1>3, <1>4, <1>7 DEF other

\* The CRC of an image shows any changed byte.
LEMMA CrcDetects ==
  ASSUME OneToOne, NEW data \in Seq(Byte), NEW i \in 1..Len(data), NEW b \in Byte, b # data[i]
  PROVE  Crc16([data EXCEPT ![i] = b]) # Crc16(data)
<1> DEFINE other == [data EXCEPT ![i] = b]
<1>1. /\ other \in Seq(Byte) /\ Len(other) = Len(data)
      /\ other[i] = b /\ \A n \in 1..Len(data) : n # i => other[n] = data[n]
  BY Changed
<1> HIDE DEF other
<1>2. PICK f \in [0..Len(data) -> Word] :
             /\ f[0] = 0 /\ \A n \in 1..Len(data) : f[n] = CrcByte(f[n - 1], data[n])
             /\ Crc16(data) = f[Len(data)]
  BY CrcSteps
<1>3. PICK g \in [0..Len(data) -> Word] :
             /\ g[0] = 0 /\ \A n \in 1..Len(data) : g[n] = CrcByte(g[n - 1], other[n])
             /\ Crc16(other) = g[Len(data)]
  BY <1>1, CrcSteps
<1>4. Len(data) \in Nat /\ \A n \in 1..Len(data) : data[n] \in Byte
  BY Bytes
<1> DEFINE S == {n \in Nat : n <= Len(data) => IF n < i THEN g[n] = f[n] ELSE g[n] # f[n]}
<1>5. 0 \in S
  BY <1>2, <1>3, <1>4
<1>6. ASSUME NEW n \in Nat, n \in S
      PROVE  n + 1 \in S
  <2> SUFFICES ASSUME n + 1 <= Len(data)
               PROVE  IF n + 1 < i THEN g[n + 1] = f[n + 1] ELSE g[n + 1] # f[n + 1]
    OBVIOUS
  <2>1. n + 1 \in 1..Len(data) /\ (n + 1) - 1 = n /\ f[n] \in Word /\ g[n] \in Word
    BY <1>2, <1>3, <1>4
  <2>2. f[n + 1] = CrcByte(f[n], data[n + 1]) /\ g[n + 1] = CrcByte(g[n], other[n + 1])
    BY <1>2, <1>3, <2>1
  <2>3. IF n < i THEN g[n] = f[n] ELSE g[n] # f[n]
    BY <1>4, <1>6
  <2>4. CASE n + 1 = i
    BY <1>1, <1>4, <2>1, <2>2, <2>3, <2>4 DEF OneToOne
  <2>5. CASE n + 1 # i
    <3>1. other[n + 1] = data[n + 1] /\ data[n + 1] \in Byte
      BY <1>1, <1>4, <2>1, <2>5
    <3>2. n < i <=> n + 1 < i
      BY <2>5
    <3> QED
      BY <2>1, <2>2, <2>3, <3>1, <3>2 DEF OneToOne
  <2> QED
    BY <2>4, <2>5
<1>7. Len(data) \in S
  <2> HIDE DEF S
  <2> QED BY <1>4, <1>5, <1>6, Induction
<1> QED
  BY <1>2, <1>3, <1>4, <1>7 DEF other

\* The checksum of bytes with this total.
Complement(total) == 255 - (total % 256)

\* It is a byte.
LEMMA ComplementByte ==
  ASSUME NEW a \in Nat
  PROVE  Complement(a) \in Byte
<1>1. a % 256 \in 0..255
  OBVIOUS
<1> QED
  BY <1>1 DEF Complement, Byte

\* It changes with any one byte of the total.
LEMMA ComplementChange ==
  ASSUME NEW a \in Nat, NEW x \in Byte, NEW y \in Byte, x # y, NEW z, z = a + x - y
  PROVE  Complement(z) # Complement(a)
<1> DEFINE d == x - y
<1>1. d \in -255..255 /\ d # 0 /\ z = a + d
  BY DEF Byte
<1> HIDE DEF d
<1>2. a % 256 # (a + d) % 256
  BY <1>1
<1>3. a % 256 \in Int /\ (a + d) % 256 \in Int
  BY <1>1
<1> QED
  BY <1>1, <1>2, <1>3 DEF Complement

\* The checksum is a byte.
LEMMA ChecksumByte ==
  ASSUME NEW data \in Seq(Byte)
  PROVE  /\ Total(data) \in Nat /\ WireChecksum(data) = Complement(Total(data))
         /\ WireChecksum(data) \in Byte
<1>1. Total(data) \in Nat
  <2>1. PICK f \in [0..Len(data) -> Nat] : Total(data) = f[Len(data)]
    BY TotalSteps
  <2> QED
    BY <2>1, LenProperties
<1>2. WireChecksum(data) = Complement(Total(data))
  BY DEF WireChecksum, Complement
<1> QED
  BY <1>1, <1>2, ComplementByte

\* A changed byte shows in the checksum.
LEMMA ChecksumChange ==
  ASSUME NEW data \in Seq(Byte), NEW i \in 1..Len(data), NEW b \in Byte, b # data[i]
  PROVE  WireChecksum([data EXCEPT ![i] = b]) # WireChecksum(data)
<1> DEFINE other == [data EXCEPT ![i] = b]
<1>1. data[i] \in Byte /\ other \in Seq(Byte)
  BY Bytes, Changed
<1>2. Total(other) = Total(data) + b - data[i]
  BY TotalChange
<1> HIDE DEF other
<1>3. Total(data) \in Nat /\ WireChecksum(data) = Complement(Total(data))
  BY ChecksumByte
<1>4. WireChecksum(other) = Complement(Total(other))
  BY <1>1, ChecksumByte
<1>5. Complement(Total(other)) # Complement(Total(data))
  BY <1>1, <1>2, <1>3, ComplementChange, Zenon
<1> QED
  BY <1>3, <1>4, <1>5 DEF other

\* A frame is sound, and shows any changed byte.
LEMMA FrameSound ==
  ASSUME NEW chunk \in Seq(Byte)
  PROVE  /\ FrameHolds(Frame(chunk))
         /\ \A k \in 1..Len(chunk) + 1, b \in Byte :
              b # Frame(chunk)[k] => ~FrameHolds([Frame(chunk) EXCEPT ![k] = b])
<1> DEFINE frame == Frame(chunk)
           c == WireChecksum(chunk)
<1>1. Len(chunk) \in Nat /\ c \in Byte
  BY Bytes, ChecksumByte
<1>2. /\ frame \in Seq(Byte) /\ Len(frame) = Len(chunk) + 1 /\ frame[Len(chunk) + 1] = c
      /\ \A n \in 1..Len(chunk) : frame[n] = chunk[n]
  BY <1>1, AppendProperties DEF Frame
<1>3. ASSUME NEW s \in Seq(Byte), Len(s) = Len(chunk) + 1
      PROVE  /\ Last(s) = s[Len(chunk) + 1] /\ Front(s) \in Seq(Byte) /\ Len(Front(s)) = Len(chunk)
             /\ \A n \in 1..Len(chunk) : Front(s)[n] = s[n]
  <2>1. Front(s) = SubSeq(s, 1, Len(chunk))
    BY <1>1, <1>3 DEF Front
  <2>2. \A n \in 1..Len(chunk) : s[n] \in Byte
    BY <1>1, <1>3, Bytes
  <2>3. 1 \in Int /\ Len(chunk) \in Int
    BY <1>1
  <2>4. /\ SubSeq(s, 1, Len(chunk)) \in Seq(Byte)
        /\ Len(SubSeq(s, 1, Len(chunk))) = IF 1 <= Len(chunk) THEN Len(chunk) - 1 + 1 ELSE 0
        /\ \A n \in 1..Len(chunk) - 1 + 1 : SubSeq(s, 1, Len(chunk))[n] = s[1 + n - 1]
    BY <2>2, <2>3, SubSeqProperties
  <2> QED
    BY <1>1, <1>3, <2>1, <2>4 DEF Last
<1> HIDE DEF frame
<1>4. Front(frame) = chunk
  BY <1>1, <1>2, <1>3, SeqEqual
<1>5. FrameHolds(frame)
  BY <1>2, <1>3, <1>4 DEF FrameHolds
<1>6. ASSUME NEW k \in 1..Len(chunk) + 1, NEW b \in Byte, b # frame[k]
      PROVE  ~FrameHolds([frame EXCEPT ![k] = b])
  <2> DEFINE s == [frame EXCEPT ![k] = b]
  <2>1. /\ s \in Seq(Byte) /\ Len(s) = Len(chunk) + 1
        /\ \A n \in 1..Len(chunk) + 1 : s[n] = IF n = k THEN b ELSE frame[n]
    BY <1>2, Changed
  <2> HIDE DEF s
  <2>2. /\ Last(s) = s[Len(chunk) + 1] /\ Front(s) \in Seq(Byte) /\ Len(Front(s)) = Len(chunk)
        /\ \A n \in 1..Len(chunk) : Front(s)[n] = s[n]
    BY <1>3, <2>1
  <2>3. CASE k = Len(chunk) + 1
    <3>1. Front(s) = chunk
      BY <1>1, <1>2, <2>1, <2>2, <2>3, SeqEqual
    <3>2. Last(s) = b /\ b # c
      BY <1>1, <1>2, <1>6, <2>1, <2>2, <2>3
    <3> QED
      BY <3>1, <3>2 DEF FrameHolds, s
  <2>4. CASE k \in 1..Len(chunk)
    <3>1. b # chunk[k] /\ Last(s) = c
      BY <1>1, <1>2, <1>6, <2>1, <2>2, <2>4
    <3>2. Front(s) = [chunk EXCEPT ![k] = b]
      <4>1. /\ [chunk EXCEPT ![k] = b] \in Seq(Byte) /\ Len([chunk EXCEPT ![k] = b]) = Len(chunk)
            /\ \A n \in 1..Len(chunk) : [chunk EXCEPT ![k] = b][n] = IF n = k THEN b ELSE chunk[n]
        BY <2>4, Changed
      <4>2. \A n \in 1..Len(chunk) : Front(s)[n] = [chunk EXCEPT ![k] = b][n]
        BY <1>1, <1>2, <2>1, <2>2, <4>1
      <4> QED
        BY <2>2, <4>1, <4>2, SeqEqual
    <3>3. WireChecksum([chunk EXCEPT ![k] = b]) # c
      BY <2>4, <3>1, ChecksumChange
    <3> QED
      BY <3>1, <3>2, <3>3 DEF FrameHolds, s
  <2> QED
    BY <1>1, <2>3, <2>4
<1> QED
  BY <1>5, <1>6 DEF frame

\* f is the sequences one after the other.
Joins(f, seqs) ==
  f = [i \in 1..Len(seqs) |-> IF i = 1 THEN seqs[i] ELSE f[i - 1] \o seqs[i]]

\* Such a function, step by step.
LEMMA JoinSteps ==
  ASSUME NEW seqs, Len(seqs) \in Nat \ {0}, NEW f, Joins(f, seqs)
  PROVE  f[1] = seqs[1] /\ \A i \in 1..Len(seqs) : i # 1 => f[i] = f[i - 1] \o seqs[i]
<1>1. \A i \in 1..Len(seqs) : f[i] = IF i = 1 THEN seqs[i] ELSE f[i - 1] \o seqs[i]
  BY Zenon DEF Joins
<1>2. 1 \in 1..Len(seqs)
  OBVIOUS
<1> QED
  BY <1>1, <1>2, Zenon

\* FlattenSeq does that, and nothing else does.
LEMMA FlattenSteps ==
  ASSUME NEW seqs, Len(seqs) \in Nat \ {0}, NEW f, Joins(f, seqs)
  PROVE  FlattenSeq(seqs) = f[Len(seqs)]
<1> DEFINE flatten == CHOOSE g : g = [i \in 1..Len(seqs) |-> IF i = 1 THEN seqs[i] ELSE g[i - 1] \o seqs[i]]
<1>1. Joins(flatten, seqs)
  BY Zenon DEF Joins
<1>2. FlattenSeq(seqs) = flatten[Len(seqs)]
  <2>1. Len(seqs) # 0
    OBVIOUS
  <2> QED
    BY <2>1, Zenon DEF FlattenSeq
<1> HIDE DEF flatten
<1>3. /\ f[1] = seqs[1] /\ flatten[1] = seqs[1]
      /\ \A i \in 1..Len(seqs) : i # 1 => f[i] = f[i - 1] \o seqs[i]
      /\ \A i \in 1..Len(seqs) : i # 1 => flatten[i] = flatten[i - 1] \o seqs[i]
  <2>1. f[1] = seqs[1] /\ \A i \in 1..Len(seqs) : i # 1 => f[i] = f[i - 1] \o seqs[i]
    BY JoinSteps, Zenon
  <2>2. flatten[1] = seqs[1] /\ \A i \in 1..Len(seqs) : i # 1 => flatten[i] = flatten[i - 1] \o seqs[i]
    BY <1>1, JoinSteps, Zenon
  <2> QED
    BY <2>1, <2>2
<1> DEFINE S == {n \in Nat : n + 1 <= Len(seqs) => flatten[n + 1] = f[n + 1]}
<1>4. 0 \in S
  BY <1>3
<1>5. ASSUME NEW n \in Nat, n \in S
      PROVE  n + 1 \in S
  <2> SUFFICES ASSUME n + 1 + 1 <= Len(seqs)
               PROVE  flatten[n + 1 + 1] = f[n + 1 + 1]
    OBVIOUS
  <2> DEFINE i == n + 1 + 1
  <2>1. i \in 1..Len(seqs) /\ i # 1 /\ i - 1 = n + 1
    OBVIOUS
  <2>2. flatten[n + 1] = f[n + 1]
    BY <1>5
  <2> HIDE DEF i
  <2>3. flatten[i] = f[i]
    BY <1>3, <2>1, <2>2
  <2> QED
    BY <2>3 DEF i
<1>6. Len(seqs) - 1 \in S
  <2> HIDE DEF S
  <2> QED BY <1>4, <1>5, Induction
<1> QED
  BY <1>2, <1>6

\* The number of chunks.
LEMMA Ceiling ==
  ASSUME NEW n \in Nat \ {0}, NEW size \in Nat \ {0}, NEW c, c = (n + size - 1) \div size
  PROVE  c \in Nat \ {0} /\ (c - 1) * size < n /\ n <= c * size
BY Z3

\* What is before a chunk, and with it.
LEMMA ChunkEnds ==
  ASSUME NEW n \in Nat \ {0}, NEW size \in Nat \ {0}, NEW c \in Nat, (c - 1) * size < n, n <= c * size,
         NEW i \in 1..c, NEW lo, lo = (i - 1) * size, NEW hi, hi = IF i * size < n THEN i * size ELSE n
  PROVE  /\ lo \in 0..n - 1 /\ hi \in lo + 1..n /\ hi - lo \in 1..size
         /\ i # c => hi = i * size
         /\ i = c => hi = n
BY Z3

\* The chunks of a file are the file.
LEMMA ChunksWhole ==
  ASSUME NEW data \in Seq(Byte), Len(data) # 0, NEW size \in Nat \ {0}
  PROVE  /\ FlattenSeq(Chunks(data, size)) = data
         /\ \A i \in DOMAIN Chunks(data, size) :
              Chunks(data, size)[i] \in Seq(Byte) /\ Len(Chunks(data, size)[i]) \in 1..size
<1> DEFINE n == Len(data)
           c == (n + size - 1) \div size
           Hi(i) == IF i * size < n THEN i * size ELSE n
           Lo(i) == (i - 1) * size
           chunks == Chunks(data, size)
<1>1. n \in Nat \ {0}
  BY LenProperties
<1>2. c \in Nat \ {0} /\ (c - 1) * size < n /\ n <= c * size
  <2> HIDE DEF n
  <2> QED BY <1>1, Ceiling
<1>3. chunks = [i \in 1..c |-> SubSeq(data, Lo(i) + 1, Hi(i))]
  BY DEF Chunks
<1>4. ASSUME NEW i \in 1..c
      PROVE  /\ Lo(i) \in 0..n - 1 /\ Hi(i) \in Lo(i) + 1..n /\ Hi(i) - Lo(i) \in 1..size
             /\ i # c => Hi(i) = i * size
             /\ i = c => Hi(i) = n
  <2> HIDE DEF n, c
  <2> QED BY <1>1, <1>2, ChunkEnds
<1> HIDE DEF c, Hi, Lo, chunks
<1>5. Len(chunks) = c /\ DOMAIN chunks = 1..c
  <2>1. DOMAIN chunks = 1..c
    BY <1>3
  <2> QED
    BY <1>2, <2>1
<1>6. ASSUME NEW i \in 1..c
      PROVE  chunks[i] \in Seq(Byte) /\ Len(chunks[i]) \in 1..size
  <2> DEFINE lo == Lo(i)
             hi == Hi(i)
  <2>1. lo \in 0..n - 1 /\ hi \in lo + 1..n /\ hi - lo \in 1..size
    BY <1>4
  <2>2. chunks[i] = SubSeq(data, lo + 1, hi)
    BY <1>3
  <2> HIDE DEF lo, hi
  <2>3. lo + 1 \in Int /\ hi \in Int /\ \A j \in lo + 1..hi : data[j] \in Byte
    BY <1>1, <2>1, Bytes
  <2>4. /\ SubSeq(data, lo + 1, hi) \in Seq(Byte)
        /\ Len(SubSeq(data, lo + 1, hi)) = IF lo + 1 <= hi THEN hi - (lo + 1) + 1 ELSE 0
    BY <2>3, SubSeqProperties
  <2>5. Len(chunks[i]) = hi - lo
    BY <1>1, <2>1, <2>2, <2>4
  <2> QED
    BY <2>1, <2>2, <2>4, <2>5
<1> DEFINE f == [i \in 1..c |-> SubSeq(data, 1, Hi(i))]
<1>7. Joins(f, chunks)
  <2>1. f = [i \in 1..c |-> IF i = 1 THEN chunks[i] ELSE f[i - 1] \o chunks[i]]
    <3> SUFFICES ASSUME NEW i \in 1..c
                 PROVE  SubSeq(data, 1, Hi(i)) = IF i = 1 THEN chunks[i] ELSE f[i - 1] \o chunks[i]
      OBVIOUS
    <3>1. CASE i = 1
      <4>1. Lo(1) + 1 = 1
        BY <1>1 DEF Lo
      <4> QED
        BY <1>3, <3>1, <4>1
    <3>2. CASE i # 1
      <4>1. i - 1 \in 1..c /\ i - 1 # c
        BY <1>2, <3>2
      <4>2. f[i - 1] = SubSeq(data, 1, Hi(i - 1))
        BY <4>1
      <4>3. Hi(i - 1) = Lo(i)
        BY <1>4, <4>1 DEF Lo
      <4>4. chunks[i] = SubSeq(data, Lo(i) + 1, Hi(i))
        BY <1>3
      <4> DEFINE lo == Lo(i)
                 hi == Hi(i)
      <4>5. 1 \in 1..n + 1 /\ lo \in 1 - 1..n /\ hi \in lo..n
        BY <1>1, <1>4
      <4> HIDE DEF lo, hi
      <4>6. SubSeq(data, 1, lo) \o SubSeq(data, lo + 1, hi) = SubSeq(data, 1, hi)
        BY <4>5, ConcatAdjacentSubSeq
      <4> HIDE DEF f
      <4> QED
        BY <3>2, <4>2, <4>3, <4>4, <4>6 DEF lo, hi
    <3> QED
      BY <3>1, <3>2
  <2> QED
    BY <1>5, <2>1, Zenon DEF Joins
<1>8. f[c] = data
  <2>1. c \in 1..c /\ Hi(c) = n
    BY <1>2, <1>4
  <2> QED
    BY <2>1, SubSeqFull
<1> HIDE DEF f
<1>9. FlattenSeq(chunks) = f[Len(chunks)]
  BY <1>2, <1>5, <1>7, FlattenSteps
<1> QED
  BY <1>5, <1>6, <1>8, <1>9 DEF chunks

-----------------------------------------------------------------------------
(* The image: what the packager makes, and what damage does to it. *)

\* A word of 16 bits in two bytes.
LowOf(w) == w % 256
HighOf(w) == w \div 256

\* The two bytes are the word.
LEMMA TwoBytes ==
  ASSUME NEW w \in Word
  PROVE  LowOf(w) \in Byte /\ HighOf(w) \in Byte /\ LowOf(w) + 256 * HighOf(w) = w
BY DEF Word, LowOf, HighOf, Byte

\* CRC and length are set.
Written(data, x, y, z) == [data EXCEPT ![Crc] = x, ![Crc + 1] = y, ![Length] = z]

Wrote(other, data, x, y, z) ==
  /\ other \in Seq(Byte) /\ Len(other) = Len(data)
  /\ other[Crc] = x /\ other[Crc + 1] = y /\ other[Length] = z
  /\ \A i \in 1..Len(data) : i \notin {Crc, Crc + 1, Length} => other[i] = data[i]

\* Nothing else is.
LEMMA ThreeBytes ==
  ASSUME NEW data \in Seq(Byte), Len(data) >= BoardInfoEnd,
         NEW x \in Byte, NEW y \in Byte, NEW z \in Byte
  PROVE  Wrote(Written(data, x, y, z), data, x, y, z)
<1> DEFINE a == [data EXCEPT ![Crc] = x]
           b == [a EXCEPT ![Crc + 1] = y]
           c == [b EXCEPT ![Length] = z]
<1>1. Len(data) \in Nat /\ Crc \in 1..Len(data) /\ Crc + 1 \in 1..Len(data) /\ Length \in 1..Len(data)
  BY LenProperties DEF Crc, Length, BoardInfoEnd
<1>2. Crc # Crc + 1 /\ Crc # Length /\ Crc + 1 # Length
  BY DEF Crc, Length
<1>3. /\ a \in Seq(Byte) /\ Len(a) = Len(data)
      /\ \A i \in 1..Len(data) : a[i] = IF i = Crc THEN x ELSE data[i]
  BY <1>1, Changed
<1> HIDE DEF a
<1>4. /\ b \in Seq(Byte) /\ Len(b) = Len(data)
      /\ \A i \in 1..Len(data) : b[i] = IF i = Crc + 1 THEN y ELSE a[i]
  BY <1>1, <1>3, Changed
<1> HIDE DEF b
<1>5. /\ c \in Seq(Byte) /\ Len(c) = Len(data)
      /\ \A i \in 1..Len(data) : c[i] = IF i = Length THEN z ELSE b[i]
  BY <1>1, <1>4, Changed
<1> HIDE DEF c
<1>6. Written(data, x, y, z) = c
  BY DEF Written, a, b, c
<1> QED
  BY <1>1, <1>2, <1>3, <1>4, <1>5, <1>6 DEF Wrote

\* What the masked image is.
LEMMA MaskedShape ==
  ASSUME NEW bin \in Seq(Byte), Len(bin) >= BoardInfoEnd
  PROVE  /\ Masked(bin) \in Seq(Byte) /\ Len(Masked(bin)) = Len(bin)
         /\ \A i \in 1..Len(bin) :
              Masked(bin)[i] = IF i \in {Crc, Crc + 1, Length} THEN 0 ELSE bin[i]
<1>1. 0 \in Byte
  BY DEF Byte
<1>2. Masked(bin) = Written(bin, 0, 0, 0)
  BY DEF Masked, Written
<1>3. /\ Masked(bin) \in Seq(Byte) /\ Len(Masked(bin)) = Len(bin)
      /\ Masked(bin)[Crc] = 0 /\ Masked(bin)[Crc + 1] = 0 /\ Masked(bin)[Length] = 0
      /\ \A i \in 1..Len(bin) : i \notin {Crc, Crc + 1, Length} => Masked(bin)[i] = bin[i]
  <2>1. Wrote(Written(bin, 0, 0, 0), bin, 0, 0, 0)
    BY <1>1, ThreeBytes, Zenon
  <2> QED
    BY <1>2, <2>1 DEF Wrote
<1> QED
  BY <1>3

\* A file that carries its length and its CRC.
Sealed(bin) ==
  /\ bin \in Seq(Byte) /\ Len(bin) >= BoardInfoEnd
  /\ bin[Length] = Len(bin) /\ CrcHolds(bin)

\* The packager makes one, and changes only the board information.
LEMMA PackagedShape ==
  ASSUME OneToOne, NEW input \in Inputs, NEW id \in Versions, Packable(input, id)
  PROVE  /\ Sealed(Packaged(input, id)) /\ Len(Packaged(input, id)) = Len(input)
         /\ Packaged(input, id)[Metadata] = id[1]
         /\ \A i \in 1..Len(input) : i \notin Metadata..Length => Packaged(input, id)[i] = input[i]
<1> DEFINE named == [input EXCEPT ![Metadata] = id[1]]
           crc == Crc16(named)
           p == Packaged(input, id)
<1>1. input \in Seq(Byte) /\ Len(input) \in Byte /\ id \in Seq(Byte)
  BY ImageAssumption
<1>2. Len(id) = 1 /\ Len(input) >= BoardInfoEnd /\ \A i \in Metadata..BoardInfoEnd : input[i] = 0
  BY DEF Packable
<1>3. Len(input) \in Nat /\ id[1] \in Byte
  <2>1. 1 \in 1..Len(id)
    BY <1>2
  <2> QED
    BY <1>1, <2>1, Bytes
<1>4. /\ Metadata \in 1..Len(input) /\ Length \in Nat /\ Crc \in Nat
      /\ Metadata \notin {Crc, Crc + 1, Length}
      /\ {Crc, Crc + 1, Length} \subseteq Metadata..BoardInfoEnd
      /\ {Crc, Crc + 1, Length} \subseteq Metadata..Length
      /\ {Crc, Crc + 1, Length} \subseteq 1..Len(input)
  BY <1>2, <1>3 DEF Metadata, BoardInfoEnd, Length, Crc
<1>5. /\ named \in Seq(Byte) /\ Len(named) = Len(input)
      /\ \A i \in 1..Len(input) : named[i] = IF i = Metadata THEN id[1] ELSE input[i]
  BY <1>1, <1>3, <1>4, Changed
<1> HIDE DEF named
<1>6. crc \in Word
  <2>1. PICK f \in [0..Len(named) -> Word] : Crc16(named) = f[Len(named)]
    BY <1>5, CrcSteps
  <2> QED
    BY <1>3, <1>5, <2>1
<1> HIDE DEF crc
<1>7. p = Written(named, LowOf(crc), HighOf(crc), Len(input))
  BY DEF Packaged, Written, LowOf, HighOf, named, crc
<1> HIDE DEF p
<1>8. LowOf(crc) \in Byte /\ HighOf(crc) \in Byte /\ LowOf(crc) + 256 * HighOf(crc) = crc
  BY <1>6, TwoBytes
<1>9. /\ p \in Seq(Byte) /\ Len(p) = Len(named)
      /\ p[Crc] = LowOf(crc) /\ p[Crc + 1] = HighOf(crc) /\ p[Length] = Len(input)
      /\ \A i \in 1..Len(named) : i \notin {Crc, Crc + 1, Length} => p[i] = named[i]
  <2>1. Len(named) >= BoardInfoEnd
    BY <1>2, <1>5
  <2>2. Wrote(p, named, LowOf(crc), HighOf(crc), Len(input))
    BY <1>1, <1>5, <1>7, <1>8, <2>1, ThreeBytes, Zenon
  <2> QED
    BY <2>2 DEF Wrote
<1>10. Masked(p) = named
  <2>1. /\ Masked(p) \in Seq(Byte) /\ Len(Masked(p)) = Len(p)
        /\ \A i \in 1..Len(p) : Masked(p)[i] = IF i \in {Crc, Crc + 1, Length} THEN 0 ELSE p[i]
    BY <1>2, <1>5, <1>9, MaskedShape
  <2>2. \A i \in 1..Len(named) : Masked(p)[i] = named[i]
    BY <1>2, <1>4, <1>5, <1>9, <2>1
  <2> QED
    BY <1>5, <1>9, <2>1, <2>2, SeqEqual
<1>11. CrcHolds(p)
  BY <1>8, <1>9, <1>10 DEF CrcHolds, crc
<1>12. Sealed(p)
  BY <1>2, <1>5, <1>9, <1>11 DEF Sealed
<1>13. p[Metadata] = id[1]
  BY <1>4, <1>5, <1>9
<1>14. \A i \in 1..Len(input) : i \notin Metadata..Length => p[i] = input[i]
  <2>1. \A i \in 1..Len(input) : i \notin Metadata..Length => i # Metadata /\ i \notin {Crc, Crc + 1, Length}
    BY <1>4 DEF Metadata, Length
  <2> QED
    BY <1>5, <1>9, <2>1
<1> QED
  BY <1>5, <1>9, <1>12, <1>13, <1>14 DEF p

\* Two bytes that make the same word are the same.
LEMMA WordBytes ==
  ASSUME NEW x \in Byte, NEW y \in Byte, NEW v \in Byte, NEW w \in Byte, x + 256 * y = v + 256 * w
  PROVE  x = v /\ y = w
BY DEF Byte

\* A sealed file of which a byte is changed is not sealed.
LEMMA ByteBreaks ==
  ASSUME OneToOne, NEW bin, Sealed(bin), NEW i \in 1..Len(bin), NEW b \in Byte, b # bin[i]
  PROVE  ~Sealed([bin EXCEPT ![i] = b])
<1> DEFINE other == [bin EXCEPT ![i] = b]
<1>1. /\ bin \in Seq(Byte) /\ Len(bin) >= BoardInfoEnd /\ bin[Length] = Len(bin)
      /\ bin[Crc] + 256 * bin[Crc + 1] = Crc16(Masked(bin))
  BY DEF Sealed, CrcHolds
<1>2. /\ other \in Seq(Byte) /\ Len(other) = Len(bin)
      /\ \A n \in 1..Len(bin) : other[n] = IF n = i THEN b ELSE bin[n]
  BY <1>1, Changed
<1>3. /\ Len(bin) \in Nat /\ Crc \in 1..Len(bin) /\ Crc + 1 \in 1..Len(bin) /\ Length \in 1..Len(bin)
      /\ Crc # Crc + 1
  BY <1>1, LenProperties DEF Crc, Length, BoardInfoEnd
<1>4. /\ Masked(bin) \in Seq(Byte) /\ Len(Masked(bin)) = Len(bin)
      /\ \A n \in 1..Len(bin) : Masked(bin)[n] = IF n \in {Crc, Crc + 1, Length} THEN 0 ELSE bin[n]
  BY <1>1, MaskedShape
<1>5. /\ Masked(other) \in Seq(Byte) /\ Len(Masked(other)) = Len(bin)
      /\ \A n \in 1..Len(bin) : Masked(other)[n] = IF n \in {Crc, Crc + 1, Length} THEN 0 ELSE other[n]
  BY <1>1, <1>2, MaskedShape
<1> HIDE DEF other
<1>6. SUFFICES ASSUME other[Length] = Len(other),
                      other[Crc] + 256 * other[Crc + 1] = Crc16(Masked(other))
               PROVE  FALSE
  BY DEF Sealed, CrcHolds, other
<1>7. CASE i = Length
  BY <1>1, <1>2, <1>6, <1>7
<1>8. CASE i \in {Crc, Crc + 1}
  <2>1. \A n \in 1..Len(bin) : Masked(other)[n] = Masked(bin)[n]
    BY <1>2, <1>4, <1>5, <1>8
  <2>2. Masked(other) = Masked(bin)
    BY <1>4, <1>5, <2>1, SeqEqual
  <2>3. other[Crc] + 256 * other[Crc + 1] = bin[Crc] + 256 * bin[Crc + 1]
    BY <1>1, <1>6, <2>2
  <2>4. other[Crc] \in Byte /\ other[Crc + 1] \in Byte /\ bin[Crc] \in Byte /\ bin[Crc + 1] \in Byte
    BY <1>1, <1>2, <1>3, Bytes
  <2>5. other[Crc] = bin[Crc] /\ other[Crc + 1] = bin[Crc + 1]
    BY <2>3, <2>4, WordBytes
  <2> QED
    BY <1>2, <1>3, <1>8, <2>5
<1>9. CASE i \notin {Crc, Crc + 1, Length}
  <2>1. [Masked(bin) EXCEPT ![i] = b] = Masked(other)
    <3>1. /\ [Masked(bin) EXCEPT ![i] = b] \in Seq(Byte)
          /\ Len([Masked(bin) EXCEPT ![i] = b]) = Len(bin)
          /\ \A n \in 1..Len(bin) :
               [Masked(bin) EXCEPT ![i] = b][n] = IF n = i THEN b ELSE Masked(bin)[n]
      BY <1>4, Changed
    <3>2. \A n \in 1..Len(bin) : [Masked(bin) EXCEPT ![i] = b][n] = Masked(other)[n]
      BY <1>2, <1>4, <1>5, <1>9, <3>1
    <3> QED
      BY <1>5, <3>1, <3>2, SeqEqual
  <2>2. i \in 1..Len(Masked(bin)) /\ b # Masked(bin)[i]
    BY <1>4, <1>9
  <2>3. Crc16(Masked(other)) # Crc16(Masked(bin))
    <3>1. Crc16([Masked(bin) EXCEPT ![i] = b]) # Crc16(Masked(bin))
      BY <1>4, <2>2, CrcDetects
    <3> QED
      BY <2>1, <3>1
  <2>4. other[Crc] = bin[Crc] /\ other[Crc + 1] = bin[Crc + 1]
    BY <1>2, <1>3, <1>9
  <2> QED
    BY <1>1, <1>6, <2>3, <2>4
<1> QED
  BY <1>7, <1>8, <1>9

\* Nor is one that is cut.
LEMMA CutBreaks ==
  ASSUME NEW bin, Sealed(bin), NEW n \in 0..Len(bin) - 1
  PROVE  SubSeq(bin, 1, n) \in Seq(Byte) /\ ~Sealed(SubSeq(bin, 1, n))
<1>1. bin \in Seq(Byte) /\ bin[Length] = Len(bin)
  BY DEF Sealed
<1>2. Len(bin) \in Nat /\ 1 \in Int /\ n \in Int /\ \A j \in 1..n : bin[j] \in Byte
  BY <1>1, Bytes
<1>3. /\ SubSeq(bin, 1, n) \in Seq(Byte)
      /\ Len(SubSeq(bin, 1, n)) = IF 1 <= n THEN n - 1 + 1 ELSE 0
      /\ \A j \in 1..n - 1 + 1 : SubSeq(bin, 1, n)[j] = bin[1 + j - 1]
  BY <1>2, SubSeqProperties
<1>4. Len(SubSeq(bin, 1, n)) = n /\ \A j \in 1..n : SubSeq(bin, 1, n)[j] = bin[j]
  BY <1>2, <1>3
<1>5. ASSUME Sealed(SubSeq(bin, 1, n))
      PROVE  FALSE
  <2>1. n >= BoardInfoEnd /\ SubSeq(bin, 1, n)[Length] = n
    BY <1>4, <1>5 DEF Sealed
  <2>2. Length \in 1..n
    BY <1>2, <2>1 DEF Length, BoardInfoEnd
  <2> QED
    BY <1>1, <1>2, <1>4, <2>1, <2>2
<1> QED
  BY <1>3, <1>5

\* Nor is one to which something is appended.
LEMMA GrowthBreaks ==
  ASSUME NEW bin, Sealed(bin), NEW b \in Byte
  PROVE  Append(bin, b) \in Seq(Byte) /\ ~Sealed(Append(bin, b))
<1>1. bin \in Seq(Byte) /\ bin[Length] = Len(bin) /\ Len(bin) >= BoardInfoEnd
  BY DEF Sealed
<1>2. /\ Append(bin, b) \in Seq(Byte) /\ Len(Append(bin, b)) = Len(bin) + 1
      /\ \A j \in 1..Len(bin) : Append(bin, b)[j] = bin[j]
  BY <1>1, AppendProperties
<1>3. Len(bin) \in Nat /\ Length \in 1..Len(bin)
  BY <1>1, LenProperties DEF Length, BoardInfoEnd
<1>4. Append(bin, b)[Length] # Len(Append(bin, b))
  BY <1>1, <1>2, <1>3
<1> QED
  BY <1>2, <1>4 DEF Sealed

\* Only a sealed file is well-formed.
LEMMA WellFormedSealed ==
  ASSUME NEW bin \in Seq(Byte), WellFormed(bin)
  PROVE  Sealed(bin) /\ Len(bin) \in BoardInfoEnd..Capacity
<1>1. Len(bin) >= BoardInfoEnd
  BY DEF WellFormed, BoardInfoEnd, Capacity
<1> QED
  BY <1>1 DEF WellFormed, Sealed

-----------------------------------------------------------------------------
(* The image: the invariant of its way. *)

\* A package is a package until it is damaged, and the verdict is about what is there.
ImageInv ==
  /\ ImageTypeOK
  /\ stage \in {"linked", "refused"} => damage = "none" /\ image = <<>>
  /\ stage \in {"packaged", "decided"} =>
       /\ Packable(given, version)
       /\ damage = "none" => image = Packaged(given, version)
       /\ damage # "none" => ~Sealed(image)
  /\ IF stage = "decided"
     THEN manifest \in Manifests /\ verdict = Decision(image, Stated(manifest, Packaged(given, version)))
     ELSE manifest = None /\ verdict = NotDecided

\* A linked binary satisfies the invariant.
LEMMA ImageInvInit == ImageInit => ImageInv
<1> SUFFICES ASSUME ImageInit
             PROVE  ImageInv
  OBVIOUS
<1>1. <<>> \in Seq(Byte)
  OBVIOUS
<1>2. NotDecided \in [product : BOOLEAN, bare : BOOLEAN, research : BOOLEAN]
  BY DEF NotDecided
<1> QED
  BY <1>1, <1>2 DEF ImageInit, ImageInv, ImageTypeOK

\* Packaging, damage and the decision keep it.
LEMMA ImageInvNext ==
  ASSUME OneToOne
  PROVE  ImageInv /\ [ImageNext]_imageVars => ImageInv'
<1> SUFFICES ASSUME ImageInv, [ImageNext]_imageVars
             PROVE  ImageInv'
  OBVIOUS
<1>1. CASE Package
  <2>1. stage = "linked" /\ damage = "none" /\ manifest = None /\ verdict = NotDecided
    BY <1>1 DEF Package, ImageInv
  <2>2. UNCHANGED <<given, version, damage, manifest, verdict>>
    BY <1>1 DEF Package
  <2>3. given \in Inputs /\ version \in Versions
    BY DEF ImageInv, ImageTypeOK
  <2>4. CASE Packable(given, version)
    <3>1. stage' = "packaged" /\ image' = Packaged(given, version)
      BY <1>1, <2>4 DEF Package
    <3>2. image' \in Seq(Byte)
      BY <2>3, <2>4, <3>1, PackagedShape DEF Sealed
    <3> QED
      BY <2>1, <2>2, <2>4, <3>1, <3>2 DEF ImageInv, ImageTypeOK
  <2>5. CASE ~Packable(given, version)
    <3>1. stage' = "refused" /\ image' = image
      BY <1>1, <2>5 DEF Package
    <3> QED
      BY <2>1, <2>2, <3>1 DEF ImageInv, ImageTypeOK
  <2> QED
    BY <2>4, <2>5
<1>2. CASE Damaged
  <2>1. stage = "packaged" /\ damage = "none"
    BY <1>2 DEF Damaged
  <2>2. Packable(given, version) /\ image = Packaged(given, version)
    BY <2>1 DEF ImageInv
  <2>3. Sealed(image)
    BY <2>2, PackagedShape DEF ImageInv, ImageTypeOK
  <2>4. Spoilt \subseteq Byte
    BY ImageAssumption
  <2>5. image' \in Seq(Byte) /\ ~Sealed(image') /\ damage' \in {"byte", "cut", "grown"}
    <3>1. ASSUME NEW i \in DOMAIN image, NEW b \in Spoilt, b # image[i],
                 image' = [image EXCEPT ![i] = b]
          PROVE  image' \in Seq(Byte) /\ ~Sealed(image')
      <4>1. image \in Seq(Byte) /\ DOMAIN image = 1..Len(image)
        BY <2>3, LenProperties DEF Sealed
      <4>2. [image EXCEPT ![i] = b] \in Seq(Byte)
        BY <2>4, <4>1, Changed
      <4>3. ~Sealed([image EXCEPT ![i] = b])
        BY <2>3, <2>4, <3>1, <4>1, ByteBreaks
      <4> QED
        BY <3>1, <4>2, <4>3
    <3>2. ASSUME NEW n \in 0..Len(image) - 1, image' = SubSeq(image, 1, n)
          PROVE  image' \in Seq(Byte) /\ ~Sealed(image')
      BY <2>3, <3>2, CutBreaks
    <3>3. ASSUME NEW b \in Spoilt, image' = Append(image, b)
          PROVE  image' \in Seq(Byte) /\ ~Sealed(image')
      BY <2>3, <2>4, <3>3, GrowthBreaks
    <3> QED
      BY <1>2, <3>1, <3>2, <3>3 DEF Damaged
  <2>6. UNCHANGED <<stage, given, version, manifest, verdict>>
    BY <1>2 DEF Damaged
  <2> QED
    BY <2>1, <2>2, <2>5, <2>6 DEF ImageInv, ImageTypeOK
<1>3. CASE Validate
  <2>1. stage = "packaged" /\ stage' = "decided" /\ UNCHANGED <<given, version, image, damage>>
    BY <1>3 DEF Validate
  <2>2. manifest' \in Manifests /\ verdict' = Decision(image, Stated(manifest', Packaged(given, version)))
    BY <1>3 DEF Validate
  <2>3. verdict' \in [product : BOOLEAN, bare : BOOLEAN, research : BOOLEAN]
    BY <2>2 DEF Decision, Loadable, Usable, Valid, ResearchValid, WellFormed, Complete
  <2> QED
    BY <2>1, <2>2, <2>3 DEF ImageInv, ImageTypeOK
<1>4. CASE UNCHANGED imageVars
  BY <1>4 DEF imageVars, ImageInv, ImageTypeOK
<1> QED
  BY <1>1, <1>2, <1>3, <1>4 DEF ImageNext

\* A well-formed file is the package, undamaged.
LEMMA AcceptedUndamaged ==
  ASSUME ImageInv, stage = "decided", WellFormed(image)
  PROVE  damage = "none" /\ image = Packaged(given, version)
BY WellFormedSealed DEF ImageInv, ImageTypeOK

\* What the manifest says of version and path is left as it is.
LEMMA StatedFields ==
  ASSUME NEW m \in Manifests, NEW whole
  PROVE  /\ Stated(m, whole).path = m.path /\ Stated(m, whole).bootloader = m.bootloader
         /\ Stated(m, whole).digest = IF m.digest = Right THEN whole ELSE m.digest
         /\ Stated(m, whole).size = IF m.size = Right THEN Len(whole) ELSE m.size
<1>1. m \in [path : {"regular", "link", "missing"}, size : Nat \cup {Right, None},
             digest : Seq(Byte) \cup {Right, None}, bootloader : Byte \cup {None}]
  BY ImageAssumption
<1> QED
  BY <1>1 DEF Stated

\* The product accepts the package only.
LEMMA InvAccepted == ASSUME ImageInv PROVE AcceptedIsRelease
<1> SUFFICES ASSUME verdict.product
             PROVE  /\ image = Packaged(given, version) /\ Startable(image)
                    /\ manifest.bootloader = image[Metadata]
  BY DEF AcceptedIsRelease
<1> DEFINE stated == Stated(manifest, Packaged(given, version))
<1>1. stage = "decided" /\ manifest \in Manifests /\ verdict = Decision(image, stated)
  BY DEF ImageInv, NotDecided
<1>2. Valid(image, PolicyOf(stated))
  BY <1>1 DEF Decision
<1>3. WellFormed(image) /\ image[Metadata] = stated.bootloader
  BY <1>2 DEF Valid, PolicyOf
<1>4. stated.bootloader = manifest.bootloader
  BY <1>1, StatedFields
<1>5. image = Packaged(given, version)
  BY <1>1, <1>3, AcceptedUndamaged
<1> QED
  BY <1>3, <1>4, <1>5 DEF WellFormed

\* Nobody accepts a damaged one.
LEMMA InvDamage == ASSUME ImageInv PROVE DamageRejected
<1> SUFFICES ASSUME damage # "none"
             PROVE  ~verdict.bare /\ ~verdict.research /\ ~verdict.product
  BY DEF DamageRejected
<1>1. CASE stage = "decided"
  <2>1. ~WellFormed(image)
    BY <1>1, AcceptedUndamaged
  <2>2. verdict = Decision(image, Stated(manifest, Packaged(given, version)))
    BY <1>1 DEF ImageInv
  <2> QED
    BY <2>1, <2>2 DEF Decision, Valid, ResearchValid
<1>2. CASE stage # "decided"
  BY <1>2 DEF ImageInv, NotDecided
<1> QED
  BY <1>1, <1>2

\* Product and research flasher agree.
LEMMA InvAgree == ASSUME ImageInv PROVE ValidatorsAgree
<1> SUFFICES ASSUME stage = "decided", manifest.path = "regular"
             PROVE  verdict.product = verdict.research
  BY DEF ValidatorsAgree
<1> DEFINE stated == Stated(manifest, Packaged(given, version))
           policy == PolicyOf(stated)
<1>1. manifest \in Manifests /\ verdict = Decision(image, stated)
  BY DEF ImageInv
<1>2. stated.path = "regular"
  BY <1>1, StatedFields
<1>3. Usable(stated) => (Valid(image, policy) <=> ResearchValid(image, policy))
  BY DEF Usable, Valid, ResearchValid, Complete
<1>4. verdict.product = (Loadable(stated) /\ Valid(image, policy))
  BY <1>1 DEF Decision
<1>5. verdict.research = (Usable(stated) /\ ResearchValid(image, policy))
  BY <1>1 DEF Decision
<1>6. Loadable(stated) = Usable(stated)
  BY <1>2 DEF Loadable, Usable
<1> QED
  BY <1>3, <1>4, <1>5, <1>6

\* A package has a length where the packager wants zero.
LEMMA InvPackaged == ASSUME OneToOne, ImageInv PROVE PackagedOnce
<1> SUFFICES ASSUME stage = "packaged", damage = "none", NEW v \in Versions, Packable(image, v)
             PROVE  FALSE
  BY DEF PackagedOnce
<1>1. image = Packaged(given, version) /\ Packable(given, version) /\ given \in Inputs /\ version \in Versions
  BY DEF ImageInv, ImageTypeOK
<1>2. Sealed(image) /\ Len(image) \in Nat
  BY <1>1, PackagedShape, LenProperties DEF Sealed
<1>3. image[Length] # 0
  BY <1>2 DEF Sealed, BoardInfoEnd
<1>4. Length \in Metadata..BoardInfoEnd
  BY DEF Length, Metadata, BoardInfoEnd
<1> QED
  BY <1>3, <1>4 DEF Packable

\* A package is transferred whole.
LEMMA InvChunks == ASSUME OneToOne, ImageInv PROVE ChunksAreImage
<1> SUFFICES ASSUME stage = "packaged", damage = "none", NEW size \in 1..Capacity
             PROVE  LET chunks == Chunks(image, size)
                    IN  /\ FlattenSeq(chunks) = image
                        /\ \A i \in DOMAIN chunks :
                             /\ Len(chunks[i]) \in 1..size
                             /\ FrameHolds(Frame(chunks[i]))
                             /\ \A k \in 1..Len(chunks[i]) + 1, b \in Byte :
                                  b # Frame(chunks[i])[k] => ~FrameHolds([Frame(chunks[i]) EXCEPT ![k] = b])
  BY DEF ChunksAreImage
<1> DEFINE chunks == Chunks(image, size)
<1>1. Sealed(image)
  BY PackagedShape DEF ImageInv, ImageTypeOK
<1>2. image \in Seq(Byte) /\ Len(image) # 0 /\ size \in Nat \ {0}
  BY <1>1 DEF Sealed, BoardInfoEnd, Capacity
<1>3. /\ FlattenSeq(chunks) = image
      /\ \A i \in DOMAIN chunks : chunks[i] \in Seq(Byte) /\ Len(chunks[i]) \in 1..size
  BY <1>2, ChunksWhole
<1> HIDE DEF chunks
<1>4. ASSUME NEW i \in DOMAIN chunks
      PROVE  /\ FrameHolds(Frame(chunks[i]))
             /\ \A k \in 1..Len(chunks[i]) + 1, b \in Byte :
                  b # Frame(chunks[i])[k] => ~FrameHolds([Frame(chunks[i]) EXCEPT ![k] = b])
  BY <1>3, FrameSound
<1> QED
  BY <1>3, <1>4 DEF chunks

\* A package is accepted under its manifest.
LEMMA InvPackageAccepted == ASSUME OneToOne, ImageInv PROVE PackageAccepted
<1> SUFFICES ASSUME stage = "decided", damage = "none", Startable(given), Len(given) <= Capacity,
                    manifest = [path |-> "regular", size |-> Right, digest |-> Right,
                                bootloader |-> version[1]],
                    Target(version[1]) = "mcu0"
             PROVE  verdict.product
  BY DEF PackageAccepted
<1> DEFINE stated == Stated(manifest, image)
           policy == PolicyOf(stated)
<1>1. /\ Packable(given, version) /\ image = Packaged(given, version)
      /\ manifest \in Manifests /\ verdict = Decision(image, stated)
      /\ given \in Inputs /\ version \in Versions
  BY DEF ImageInv, ImageTypeOK
<1>2. /\ Sealed(image) /\ Len(image) = Len(given) /\ image[Metadata] = version[1]
      /\ \A i \in 1..Len(given) : i \notin Metadata..Length => image[i] = given[i]
  BY <1>1, PackagedShape
<1>3. Len(given) \in Nat /\ Len(given) >= BoardInfoEnd /\ given[BoardInfoEnd] = 0 /\ Len(version) = 1
  <2>1. BoardInfoEnd \in Metadata..BoardInfoEnd
    BY DEF Metadata, BoardInfoEnd
  <2> QED
    BY <1>1, <2>1, ImageAssumption, LenProperties DEF Packable
<1>4. image[Stack] = given[Stack] /\ image[Reset] = given[Reset] /\ image[BoardInfoEnd] = 0
  <2>1. {Stack, Reset, BoardInfoEnd} \subseteq 1..Len(given) /\ \A i \in {Stack, Reset, BoardInfoEnd} : i \notin Metadata..Length
    BY <1>3 DEF Stack, Reset, BoardInfoEnd, Metadata, Length
  <2> QED
    BY <1>2, <1>3, <2>1
<1>5. WellFormed(image)
  <2>1. Len(image) \in BoardInfoEnd..Capacity
    <3> DEFINE n == Len(given)
    <3>1. n \in Nat /\ n >= BoardInfoEnd /\ n <= Capacity
      BY <1>3
    <3> HIDE DEF n
    <3>2. n \in BoardInfoEnd..Capacity
      BY <3>1 DEF BoardInfoEnd, Capacity
    <3> QED
      BY <1>2, <3>2 DEF n
  <2>2. Startable(image)
    BY <1>4 DEF Startable
  <2> QED
    BY <1>2, <1>4, <2>1, <2>2 DEF WellFormed, Sealed
<1>6. /\ stated.path = "regular" /\ stated.bootloader = version[1]
      /\ stated.digest = image /\ stated.size = Len(image)
  BY <1>1, StatedFields
<1>7. version[1] # None /\ Len(image) # None /\ image # None
  <2>1. None \notin Nat \cup Seq(Byte)
    BY ImageAssumption
  <2>2. version[1] \in Nat
    <3>1. version \in Seq(Byte) /\ 1 \in 1..Len(version)
      BY <1>1, <1>3, ImageAssumption
    <3> QED
      BY <3>1, Bytes
  <2> QED
    BY <1>2, <1>3, <2>1, <2>2 DEF Sealed
<1>8. Len(image) > 0
  BY <1>2, <1>3 DEF BoardInfoEnd
<1>9. policy = [version |-> version[1], size |-> Len(image), digest |-> image, hardware |-> {"good"}]
  BY <1>6 DEF PolicyOf
<1> HIDE DEF policy
<1>10. Complete(policy)
  BY <1>7, <1>8, <1>9 DEF Complete
<1>11. Valid(image, policy)
  BY <1>2, <1>5, <1>9, <1>10 DEF Valid
<1>12. Loadable(stated)
  BY <1>6, <1>7, <1>10 DEF Loadable, Usable, policy
<1> QED
  BY <1>1, <1>11, <1>12 DEF Decision, policy

\* The way of an image keeps its invariant.
THEOREM ImageInvariance ==
  ASSUME OneToOne
  PROVE  ImageSpec => []ImageInv
<1>1. ImageInit => ImageInv
  BY ImageInvInit
<1>2. ImageInv /\ [ImageNext]_imageVars => ImageInv'
  BY ImageInvNext
<1> QED
  BY <1>1, <1>2, PTL DEF ImageSpec

\* Of any linked binary, and whatever becomes of its package, nothing but the undamaged
\* package that the manifest describes is accepted by the product, and nothing damaged by the
\* research flasher; the two decide alike.
THEOREM OnlyReleases ==
  ASSUME OneToOne
  PROVE  ImageSpec => []OnlyReleaseAccepted
<1>1. ImageInv => OnlyReleaseAccepted
  BY InvAccepted, InvDamage, InvAgree DEF OnlyReleaseAccepted
<1> QED
  BY <1>1, ImageInvariance, PTL

\* What is packaged of any linked binary that can start is accepted under its manifest, is not
\* packaged again, and goes over the line whole, in frames that show any changed byte.
THEOREM Releases ==
  ASSUME OneToOne
  PROVE  ImageSpec => []ReleaseAccepted
<1>1. ImageInv => ReleaseAccepted
  BY InvPackageAccepted, InvPackaged, InvChunks DEF ImageInv, ReleaseAccepted
<1> QED
  BY <1>1, ImageInvariance, PTL
=============================================================================
