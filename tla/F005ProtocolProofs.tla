-------------------------- MODULE F005ProtocolProofs --------------------------
(* Proofs about F005Protocol: for images and sectors of any size, any identities and stray *)
(* bytes and any losses, while at most one byte is a stray or is spoiled.                  *)
EXTENDS F005Protocol, SequenceTheorems, TLAPS

USE DEF wire, host, vars, Byte, Accepted, Complete, Handshake, Closed, Nothing

-----------------------------------------------------------------------------
(* The inductive invariant. *)

\* Nothing is on its way to the host but what noise made.
Quiet == Len(toHost) <= faults

\* What is left of the reply that says s, with the byte that noise has added or changed:
\* of any two bytes at least one is genuine.
Remains(s) ==
  LET check == 255 - s
  IN  /\ Len(toHost) <= 2 + faults
      /\ Len(toHost) = 1 => faults = 1 \/ toHost[1] \in {s, check}
      /\ Len(toHost) = 2 =>
           IF faults = 0 THEN toHost[1] = s /\ toHost[2] = check
                         ELSE toHost[1] \in {s, check} \/ toHost[2] \in {s, check}
      /\ Len(toHost) = 3 => \/ toHost[1] = s /\ toHost[2] = check
                            \/ toHost[1] = s /\ toHost[3] = check
                            \/ toHost[2] = s /\ toHost[3] = check

Errors == {31, 33}

\* What the bootloader has done when it says s.
Answered(s) ==
  /\ s \in Byte
  /\ pc = "version" => s = mcu.id
  /\ pc = "update" => s = Accepted
  /\ pc = "length" => s \in Errors \cup {Accepted}
  /\ pc = "data" =>
       \/ s \in Errors
       \/ /\ s = (IF offset + Unit = Size THEN Complete ELSE Accepted)
          /\ mcu.got = offset + Unit /\ (mcu.got = Size => flash = "new")
  /\ pc = "application" => s = Accepted /\ mcu.mode = "app"

\* What is on the wire at each step of the command.
Wire ==
  /\ pc \in {"check", "open", "request", "close", "reopen"} =>
       Quiet /\ (toMcu = Nothing \/ toMcu.kind = "request")
  /\ pc \in Exchange /\ ~await =>
       /\ Quiet
       /\ \/ toMcu = Nothing
          \/ pc = "handshake" /\ toMcu.kind = "request"
          \/ pc = "version" /\ toMcu.kind = "handshake" /\ faults = 1 /\ toHost = <<>>
  /\ await /\ toMcu # Nothing =>
       /\ Quiet /\ toMcu.kind = pc
       /\ pc = "data" => toMcu.n = Unit /\ mcu.got = offset
  /\ await /\ toMcu = Nothing =>
       \/ Quiet
       \/ pc = "handshake" /\ Len(toHost) <= 1 + faults
       \/ pc # "handshake" /\ \E s \in Byte : Answered(s) /\ Remains(s)

Committed == {"sector", "update", "length", "data", "application"}

\* What the host has made sure of.
Purpose ==
  /\ pc \notin {"check", "done"} =>
       run.action \in {"identify", "flash"} /\ (run.action = "flash" => run.complete /\ run.valid)
  /\ pc \in Committed \/ toMcu.kind \in Committed \/ flash # "old" =>
       run.action = "flash" /\ run.complete /\ run.valid /\ mcu.id \in Allowed

\* How far the host and the bootloader have come.
Progress ==
  /\ CountedIsTaken
  /\ pc \in Exchange \ {"application"} /\ (pc = "data" => ~await) => mcu.got = offset
  /\ pc \notin Exchange \cup {"end", "done"} => mcu.got = offset
  /\ pc = "application" => flash = "new"
  /\ await => pc \in Exchange
  /\ result = "ok" =>
       /\ pc \in {"end", "done"}
       /\ run.action = "flash" => flash = "new" /\ mcu.mode = "app" /\ toMcu = Nothing

\* When the port is open.
Port ==
  /\ pc \in {"check", "open", "reopen", "done"} => port = Closed
  /\ pc \in {"request", "close"} => port = 230400

Inv == TypeOK /\ Wire /\ Purpose /\ Progress /\ Port

-----------------------------------------------------------------------------
(* Sequences of bytes. *)

\* A part of a sequence.
LEMMA PartOf ==
  ASSUME NEW q \in Seq(Byte), NEW m \in 1..Len(q) + 1, NEW n \in 0..Len(q)
  PROVE  /\ SubSeq(q, m, n) \in Seq(Byte)
         /\ Len(SubSeq(q, m, n)) = (IF m <= n THEN n - m + 1 ELSE 0)
         /\ \A i \in 1..n - m + 1 : SubSeq(q, m, n)[i] = q[m + i - 1]
<1>1. Len(q) \in Nat
  BY LenProperties
<1>2. ASSUME NEW i \in m..n PROVE q[i] \in Byte
  <2>1. i \in 1..Len(q)
    BY <1>1
  <2> QED
    BY <2>1, ElementOfSeq
<1> QED
  BY <1>1, <1>2, SubSeqProperties

\* A byte is lost.
LEMMA Shorter ==
  ASSUME NEW q \in Seq(Byte), NEW i \in DOMAIN q
  PROVE  /\ RemoveAt(q, i) \in Seq(Byte) /\ Len(RemoveAt(q, i)) = Len(q) - 1
         /\ \A j \in 1..Len(q) - 1 : RemoveAt(q, i)[j] = (IF j < i THEN q[j] ELSE q[j + 1])
<1>1. Len(q) \in Nat /\ i \in 1..Len(q)
  BY LenProperties
<1> DEFINE a == SubSeq(q, 1, i - 1)
           b == SubSeq(q, i + 1, Len(q))
<1>2. a \in Seq(Byte) /\ Len(a) = i - 1 /\ \A j \in 1..i - 1 : a[j] = q[j]
  <2>1. 1 \in 1..Len(q) + 1 /\ i - 1 \in 0..Len(q)
    BY <1>1
  <2>2. /\ a \in Seq(Byte) /\ Len(a) = (IF 1 <= i - 1 THEN i - 1 - 1 + 1 ELSE 0)
        /\ \A j \in 1..i - 1 - 1 + 1 : a[j] = q[1 + j - 1]
    BY <2>1, PartOf
  <2> HIDE DEF a
  <2> QED
    BY <1>1, <2>2
<1>3. b \in Seq(Byte) /\ Len(b) = Len(q) - i /\ \A j \in 1..Len(q) - i : b[j] = q[i + j]
  BY <1>1, PartOf, i + 1 \in 1..Len(q) + 1, Len(q) \in 0..Len(q)
<1> HIDE DEF a, b
<1>4. /\ a \o b \in Seq(Byte) /\ Len(a \o b) = Len(a) + Len(b)
      /\ \A j \in 1..Len(a) + Len(b) : (a \o b)[j] = (IF j <= Len(a) THEN a[j] ELSE b[j - Len(a)])
  BY <1>2, <1>3, ConcatProperties
<1>5. RemoveAt(q, i) = a \o b
  BY DEF RemoveAt, a, b
<1>6. ASSUME NEW j \in 1..Len(q) - 1 PROVE RemoveAt(q, i)[j] = (IF j < i THEN q[j] ELSE q[j + 1])
  <2>0. j \in 1..Len(a) + Len(b) /\ Len(a) = i - 1
    BY <1>1, <1>2, <1>3
  <2>1. (a \o b)[j] = (IF j <= i - 1 THEN a[j] ELSE b[j - (i - 1)])
    BY <1>4, <2>0
  <2>2. CASE j < i
    BY <1>1, <1>2, <1>5, <2>1, <2>2
  <2>3. CASE ~(j < i)
    <3>1. j - (i - 1) \in 1..Len(q) - i /\ i + (j - (i - 1)) = j + 1
      BY <1>1, <2>3
    <3>2. b[j - (i - 1)] = q[j + 1]
      BY <1>3, <3>1
    <3> QED
      BY <1>1, <1>5, <2>1, <2>3, <3>2
  <2> QED
    BY <2>2, <2>3
<1>7. RemoveAt(q, i) \in Seq(Byte) /\ Len(RemoveAt(q, i)) = Len(q) - 1
  BY SMTT(40), <1>1, <1>2, <1>3, <1>4, <1>5
<1> QED
  BY <1>6, <1>7

\* r is q with the byte e before its i-th.
Grown(r, q, i, e) ==
  /\ r \in Seq(Byte) /\ Len(r) = Len(q) + 1
  /\ \A j \in 1..Len(q) + 1 : r[j] = (IF j < i THEN q[j] ELSE IF j = i THEN e ELSE q[j - 1])

\* A byte too many.
LEMMA Longer ==
  ASSUME NEW q \in Seq(Byte), NEW i \in 1..Len(q) + 1, NEW e \in Byte
  PROVE  Grown(InsertAt(q, i, e), q, i, e)
<1>1. Len(q) \in Nat
  BY LenProperties
<1> DEFINE a == SubSeq(q, 1, i - 1)
           b == SubSeq(q, i, Len(q))
           c == a \o <<e>>
<1>2. a \in Seq(Byte) /\ Len(a) = i - 1 /\ \A j \in 1..i - 1 : a[j] = q[j]
  <2>1. 1 \in 1..Len(q) + 1 /\ i - 1 \in 0..Len(q)
    BY <1>1
  <2>2. /\ a \in Seq(Byte) /\ Len(a) = (IF 1 <= i - 1 THEN i - 1 - 1 + 1 ELSE 0)
        /\ \A j \in 1..i - 1 - 1 + 1 : a[j] = q[1 + j - 1]
    BY ZenonT(60), <2>1, PartOf
  <2> HIDE DEF a
  <2> QED
    BY <1>1, <2>2
<1>3. b \in Seq(Byte) /\ Len(b) = Len(q) - i + 1 /\ \A j \in 1..Len(q) - i + 1 : b[j] = q[i + j - 1]
  BY <1>1, PartOf, i \in 1..Len(q) + 1, Len(q) \in 0..Len(q)
<1>4. <<e>> \in Seq(Byte) /\ Len(<<e>>) = 1 /\ <<e>>[1] = e
  OBVIOUS
<1> HIDE DEF a, b, c
<1>5. c \in Seq(Byte) /\ Len(c) = i /\ \A j \in 1..i : c[j] = (IF j < i THEN q[j] ELSE e)
  <2>1. /\ c \in Seq(Byte) /\ Len(c) = Len(a) + 1
        /\ \A j \in 1..Len(a) + 1 : c[j] = (IF j <= Len(a) THEN a[j] ELSE <<e>>[j - Len(a)])
    BY <1>2, <1>4, ConcatProperties DEF c
  <2> QED
    BY <1>1, <1>2, <1>4, <2>1
<1>6. /\ c \o b \in Seq(Byte) /\ Len(c \o b) = Len(c) + Len(b)
      /\ \A j \in 1..Len(c) + Len(b) : (c \o b)[j] = (IF j <= Len(c) THEN c[j] ELSE b[j - Len(c)])
  BY <1>3, <1>5, ConcatProperties
<1>7. \A j \in 1..Len(q) + 1 : (c \o b)[j] = (IF j < i THEN q[j] ELSE IF j = i THEN e ELSE q[j - 1])
  BY <1>1, <1>3, <1>5, <1>6
<1>8. InsertAt(q, i, e) = c \o b
  BY DEF InsertAt, a, b, c
<1>9. c \o b \in Seq(Byte) /\ Len(c \o b) = Len(q) + 1
  BY <1>1, <1>3, <1>5, <1>6
<1>10. Grown(c \o b, q, i, e)
  BY Zenon, <1>7, <1>9 DEF Grown
<1> QED
  BY Zenon, <1>8, <1>10

\* A reply of two bytes comes behind what is there.
LEMMA Behind ==
  ASSUME NEW q \in Seq(Byte), NEW s \in Byte, NEW t \in Byte
  PROVE  /\ q \o <<s, t>> \in Seq(Byte) /\ Len(q \o <<s, t>>) = Len(q) + 2
         /\ \A j \in 1..Len(q) : (q \o <<s, t>>)[j] = q[j]
         /\ (q \o <<s, t>>)[Len(q) + 1] = s /\ (q \o <<s, t>>)[Len(q) + 2] = t
<1>1. <<s, t>> \in Seq(Byte) /\ Len(<<s, t>>) = 2 /\ <<s, t>>[1] = s /\ <<s, t>>[2] = t /\ Len(q) \in Nat
  BY LenProperties
<1>2. /\ q \o <<s, t>> \in Seq(Byte) /\ Len(q \o <<s, t>>) = Len(q) + Len(<<s, t>>)
      /\ \A j \in 1..Len(q) + Len(<<s, t>>) :
           (q \o <<s, t>>)[j] = (IF j <= Len(q) THEN q[j] ELSE <<s, t>>[j - Len(q)])
  BY <1>1, ConcatProperties
<1> HIDE DEF Byte
<1> QED
  BY <1>1, <1>2

-----------------------------------------------------------------------------
(* The command keeps the invariant. *)

\* The initial states satisfy it.
LEMMA InvInit == Init => Inv
<1> SUFFICES ASSUME Init PROVE Inv
  OBVIOUS
<1>1. TypeOK
  <2>1. offset \in 0..Size /\ toMcu \in [kind : {"none", "request"} \cup Exchange, n : 0..Size] /\ faults \in 0..MaxFaults
    BY ProtocolAssumption DEF Init
  <2>2. mcu \in [mode : {"app", "boot"}, expects : {"handshake", "command", "length", "data"},
                 got : 0..Size, sector : Sectors, id : Identities]
    BY ProtocolAssumption DEF Init
  <2>3. /\ pc \in {"check", "open", "request", "close", "reopen", "end", "done"} \cup Exchange
        /\ sector \in Byte /\ port \in {Closed, 115200, 230400} /\ result \in {"none", "ok", "failed"}
        /\ toHost \in Seq(Byte) /\ flash \in {"old", "torn", "new"}
    BY DEF Init
  <2>4. /\ run \in [action : {"inspect", "validate", "identify", "flash"}, request : BOOLEAN,
                     complete : BOOLEAN, valid : BOOLEAN]
        /\ await \in BOOLEAN
    BY DEF Init
  <2> QED
    BY <2>1, <2>2, <2>3, <2>4 DEF TypeOK
<1>2. toHost = <<>> /\ Len(toHost) = 0 /\ faults = 0 /\ pc = "check" /\ await = FALSE /\ toMcu = Nothing
  BY DEF Init
<1>3. Wire /\ Port
  BY <1>2 DEF Wire, Quiet, Exchange, Port, Init
<1>4. mcu.got = 0 /\ offset = 0
  BY DEF Init
<1>5. Purpose /\ Progress
  BY <1>2, <1>4 DEF Purpose, Progress, Committed, Exchange, CountedIsTaken, Init
<1> QED
  BY <1>1, <1>3, <1>5 DEF Inv

LEMMA CheckInv == Inv /\ Check => Inv'
<1> SUFFICES ASSUME Inv, Check PROVE Inv'
  OBVIOUS
<1>1. pc = "check" /\ pc' \in {"done", "open"} /\ UNCHANGED <<run, await, offset, sector, port, wire, mcu, flash, faults>>
  BY DEF Check
<1>2. TypeOK'
  BY DEF Inv, Check, TypeOK
<1>3. await = FALSE
  BY <1>1 DEF Inv, TypeOK, Progress, Exchange
<1>4. Wire' /\ Port'
  BY <1>1, <1>3 DEF Inv, Wire, Quiet, Exchange, Port
<1>5. run.action \in {"inspect", "validate", "identify", "flash"}
  BY DEF Inv, TypeOK
<1>6. Purpose'
  BY <1>1, <1>5 DEF Inv, Purpose, Check, Committed
<1>7. Progress'
  BY <1>1, <1>3, <1>5 DEF Inv, Progress, Exchange, CountedIsTaken, Check
<1> QED
  BY <1>2, <1>4, <1>6, <1>7 DEF Inv

LEMMA OpenInv == Inv /\ Open => Inv'
<1> SUFFICES ASSUME Inv, Open PROVE Inv'
  OBVIOUS
<1>1. /\ pc = "open" /\ pc' \in {"done", "request", "handshake"} /\ result' \in {result, "failed"}
      /\ UNCHANGED <<run, await, offset, sector, wire, mcu, flash, faults>>
  BY DEF Open
<1>2. TypeOK'
  BY DEF Inv, Open, TypeOK, Exchange
<1>3. await = FALSE
  BY <1>1 DEF Inv, TypeOK, Progress, Exchange
<1>4. Wire'
  <2>1. Quiet /\ (toMcu = Nothing \/ toMcu.kind = "request")
    BY <1>1 DEF Inv, Wire
  <2>2. Quiet'
    BY <1>1, <2>1 DEF Quiet
  <2> QED
    BY <1>1, <1>3, <2>1, <2>2 DEF Wire, Exchange
<1>5. Port'
  BY <1>1 DEF Inv, Open, Port
<1>6. Purpose'
  BY <1>1 DEF Inv, Purpose, Committed
<1>7. Progress'
  BY <1>1, <1>3 DEF Inv, Progress, Exchange, CountedIsTaken
<1> QED
  BY <1>2, <1>4, <1>5, <1>6, <1>7 DEF Inv

LEMMA RequestInv == Inv /\ Request => Inv'
<1> SUFFICES ASSUME Inv, Request PROVE Inv'
  OBVIOUS
<1>1. /\ pc = "request" /\ pc' = "close" /\ toMcu' = [kind |-> "request", n |-> 0]
      /\ UNCHANGED <<run, await, offset, sector, port, result, toHost, mcu, flash, faults>>
  BY DEF Request
<1>2. TypeOK'
  BY <1>1, ProtocolAssumption DEF Inv, TypeOK
<1>3. await = FALSE
  BY <1>1 DEF Inv, TypeOK, Progress, Exchange
<1>4. Wire' /\ Port'
  BY <1>1, <1>3 DEF Inv, Wire, Quiet, Exchange, Port
<1>5. Purpose'
  BY <1>1 DEF Inv, Purpose, Committed
<1>6. Progress'
  BY <1>1, <1>3 DEF Inv, Progress, Exchange, CountedIsTaken
<1> QED
  BY <1>2, <1>4, <1>5, <1>6 DEF Inv

LEMMA CloseInv == Inv /\ Close => Inv'
<1> SUFFICES ASSUME Inv, Close PROVE Inv'
  OBVIOUS
<1>1. /\ pc = "close" /\ pc' = "reopen" /\ port' = Closed /\ toHost' = <<>> /\ Len(toHost') = 0
      /\ UNCHANGED <<run, await, offset, sector, result, toMcu, mcu, flash, faults>>
  BY DEF Close
<1>2. TypeOK'
  BY <1>1 DEF Inv, TypeOK
<1>3. await = FALSE
  BY <1>1 DEF Inv, TypeOK, Progress, Exchange
<1>4. Wire' /\ Port'
  BY <1>1, <1>3 DEF Inv, TypeOK, Wire, Quiet, Exchange, Port
<1>5. Purpose'
  BY <1>1 DEF Inv, Purpose, Committed
<1>6. Progress'
  BY <1>1, <1>3 DEF Inv, Progress, Exchange, CountedIsTaken
<1> QED
  BY <1>2, <1>4, <1>5, <1>6 DEF Inv

LEMMA ReopenInv == Inv /\ Reopen => Inv'
<1> SUFFICES ASSUME Inv, Reopen PROVE Inv'
  OBVIOUS
<1>1. await = FALSE /\ pc = "reopen"
  BY DEF Inv, TypeOK, Progress, Exchange, Reopen
<1>2. /\ pc' \in {"handshake", "end"} /\ result' \in {result, "failed"} /\ await' = FALSE
      /\ UNCHANGED <<run, offset, sector, wire, mcu, flash, faults>>
  BY <1>1 DEF Reopen, Fail
<1>3. TypeOK'
  <2>1. port' \in {Closed, 115200, 230400}
    BY DEF Inv, TypeOK, Reopen
  <2>2. /\ pc' \in {"check", "open", "request", "close", "reopen", "end", "done"} \cup Exchange
        /\ result' \in {"none", "ok", "failed"}
    BY <1>2 DEF Inv, TypeOK, Exchange
  <2>3. await' \in BOOLEAN
    BY <1>2
  <2> QED
    BY <1>2, <2>1, <2>2, <2>3 DEF Inv, TypeOK
<1>4. Wire' /\ Port'
  <2>1. Quiet /\ (toMcu = Nothing \/ toMcu.kind = "request")
    BY <1>1 DEF Inv, Wire
  <2>2. Quiet'
    BY <1>2, <2>1 DEF Quiet
  <2>3. Wire'
    BY <1>2, <2>1, <2>2 DEF Wire, Exchange
  <2> QED
    BY <1>2, <2>3 DEF Port
<1>5. Purpose'
  BY <1>1, <1>2 DEF Inv, Purpose, Committed
<1>6. Progress'
  BY <1>1, <1>2 DEF Inv, Progress, Exchange, CountedIsTaken
<1> QED
  BY <1>3, <1>4, <1>5, <1>6 DEF Inv

\* The facts about the requests and the chunk that every request needs.
LEMMA ChunkFits == TypeOK => Unit \in 0..Size /\ offset + Unit \in 0..Size
BY ProtocolAssumption DEF TypeOK, Unit

\* A command that fails is well typed.
LEMMA FailTypes ==
  ASSUME TypeOK, pc' = "end", result' = "failed", await' = FALSE, UNCHANGED <<run, offset, sector, port>>,
         UNCHANGED <<toMcu, mcu, flash, faults>>, toHost' \in Seq(Byte)
  PROVE  TypeOK'
<1>1. /\ run' \in [action : {"inspect", "validate", "identify", "flash"}, request : BOOLEAN,
                    complete : BOOLEAN, valid : BOOLEAN]
      /\ offset' \in 0..Size /\ sector' \in Byte /\ port' \in {Closed, 115200, 230400}
  BY DEF TypeOK
<1>2. await' \in BOOLEAN /\ result' \in {"none", "ok", "failed"}
  OBVIOUS
<1>3. pc' \in {"check", "open", "request", "close", "reopen", "end", "done"} \cup Exchange
  OBVIOUS
<1>4. /\ toMcu' \in [kind : {"none", "request"} \cup Exchange, n : 0..Size] /\ toHost' \in Seq(Byte)
      /\ mcu' \in [mode : {"app", "boot"}, expects : {"handshake", "command", "length", "data"},
                  got : 0..Size, sector : Sectors, id : Identities]
      /\ flash' \in {"old", "torn", "new"} /\ faults' \in 0..MaxFaults
  BY DEF TypeOK
<1> QED
  BY <1>1, <1>2, <1>3, <1>4 DEF TypeOK

\* A request is written where nothing waits, or the write fails.
LEMMA SendInv == Inv /\ Send => Inv'
<1> SUFFICES ASSUME Inv, Send PROVE Inv'
  OBVIOUS
<1>1. pc \in Exchange /\ await = FALSE /\ UNCHANGED <<run, offset, sector, port, toHost, mcu, flash, faults>>
  BY DEF Send, Inv, TypeOK
<1>2. Quiet /\ TypeOK
  BY <1>1 DEF Inv, Wire
<1>3. CASE Fail /\ UNCHANGED toMcu
  <2>1. pc' = "end" /\ result' = "failed" /\ await' = FALSE /\ UNCHANGED toMcu
    BY <1>3 DEF Fail
  <2>2. TypeOK'
    <3>1. toHost' \in Seq(Byte)
      BY <1>1, <1>2 DEF TypeOK
    <3> QED
      BY <1>1, <1>2, <2>1, <3>1, FailTypes
  <2>3. Wire' /\ Port'
    BY <2>1 DEF Wire, Exchange, Port
  <2>4. Purpose'
    BY <1>1, <2>1 DEF Inv, Purpose, Exchange, Committed
  <2>5. Progress'
    BY <1>1, <2>1 DEF Inv, Progress, Exchange, CountedIsTaken
  <2> QED
    BY <2>2, <2>3, <2>4, <2>5 DEF Inv
<1>4. CASE toMcu' = [kind |-> pc, n |-> IF pc = "data" THEN Unit ELSE 0] /\ await' = TRUE /\ UNCHANGED <<pc, result>>
  <2>1. toMcu' \in [kind : {"none", "request"} \cup Exchange, n : 0..Size]
    BY <1>1, <1>2, <1>4, ChunkFits, ProtocolAssumption
  <2>2. TypeOK'
    BY <1>1, <1>2, <1>4, <2>1 DEF TypeOK
  <2>3. Unit' = Unit /\ Quiet' /\ toMcu'.kind = pc /\ toMcu' # Nothing /\ (pc = "data" => toMcu'.n = Unit)
    BY <1>1, <1>2, <1>4 DEF Unit, Quiet, Exchange
  <2>4. pc = "data" => mcu.got = offset
    BY <1>1 DEF Inv, Progress, Exchange
  <2>5. Wire'
    BY <1>1, <1>4, <2>3, <2>4 DEF Wire, Exchange
  <2>6. Port'
    BY <1>1, <1>4 DEF Inv, Port, Exchange
  <2>7. Purpose'
    BY <1>1, <1>4, <2>3 DEF Inv, Purpose, Exchange, Committed
  <2>8. Progress'
    BY <1>1, <1>4 DEF Inv, Progress, Exchange, CountedIsTaken
  <2> QED
    BY <2>2, <2>5, <2>6, <2>7, <2>8 DEF Inv
<1> QED
  BY <1>3, <1>4 DEF Send

\* A read ends early: whatever was awaited, the command fails.
LEMMA TimeOutInv == Inv /\ TimeOut => Inv'
<1> SUFFICES ASSUME Inv, TimeOut PROVE Inv'
  OBVIOUS
<1>1. /\ await /\ pc' = "end" /\ result' = "failed" /\ await' = FALSE
      /\ UNCHANGED <<run, offset, sector, port, wire, mcu, flash, faults>>
  BY DEF TimeOut, Fail
<1>2. pc \in Exchange
  BY <1>1 DEF Inv, Progress
<1>3. TypeOK'
  <2>1. TypeOK /\ toHost' \in Seq(Byte)
    BY <1>1 DEF Inv, TypeOK
  <2> QED
    BY <1>1, <2>1, FailTypes
<1>4. Wire' /\ Port'
  BY <1>1 DEF Wire, Exchange, Port
<1>5. Purpose'
  BY <1>1, <1>2 DEF Inv, Purpose, Exchange, Committed
<1>6. Progress'
  BY <1>1, <1>2 DEF Inv, Progress, Exchange, CountedIsTaken
<1> QED
  BY <1>3, <1>4, <1>5, <1>6 DEF Inv

LEMMA EndInv == Inv /\ End => Inv'
<1> SUFFICES ASSUME Inv, End PROVE Inv'
  OBVIOUS
<1>1. /\ pc = "end" /\ pc' = "done" /\ port' = Closed /\ toHost' = <<>>
      /\ UNCHANGED <<run, await, offset, sector, result, toMcu, mcu, flash, faults>>
  BY DEF End
<1>2. await = FALSE
  BY <1>1 DEF Inv, TypeOK, Progress, Exchange
<1>3. TypeOK'
  BY <1>1 DEF Inv, TypeOK
<1>4. Wire' /\ Port'
  BY <1>1, <1>2 DEF Wire, Exchange, Port
<1>5. Purpose'
  BY <1>1 DEF Inv, Purpose, Committed
<1>6. Progress'
  BY <1>1, <1>2 DEF Inv, Progress, Exchange, CountedIsTaken
<1> QED
  BY <1>3, <1>4, <1>5, <1>6 DEF Inv

-----------------------------------------------------------------------------
(* A reply is read. *)

\* What is read as a reply of two bytes.
Read == [first |-> toHost[1], second |-> toHost[2]]

\* A byte with its checksum, one of the two being genuine.
LEMMA OneOfTwo ==
  \A s, a, b \in Byte :
    b = 255 - a /\ (a \in {s, 255 - s} \/ b \in {s, 255 - s}) => a \in {s, 255 - s}
OBVIOUS

\* Two bytes of what is left of a reply that says s, one of them being genuine.
LEMMA GenuineByte ==
  ASSUME TypeOK, NEW s \in Byte, Remains(s), MaxFaults <= 1, Len(toHost) >= 2
  PROVE  /\ Read.first \in Byte /\ Read.second \in Byte
         /\ Read.first \in {s, 255 - s} \/ Read.second \in {s, 255 - s}
<1>9. toHost \in Seq(Byte) /\ Len(toHost) \in Nat
  BY LenProperties DEF TypeOK
<1>1. Len(toHost) \in {2, 3}
  <2>1. faults \in 0..MaxFaults /\ Len(toHost) \in Nat
    BY <1>9 DEF TypeOK
  <2>2. faults \in {0, 1}
    BY <2>1, ProtocolAssumption
  <2>3. Len(toHost) <= 2 + faults
    BY DEF Remains
  <2>4. \A n \in Nat : n >= 2 /\ n <= 2 + faults => n \in {2, 3}
    BY <2>2
  <2> QED
    BY Zenon, <2>1, <2>3, <2>4
<1>2. 1 \in 1..Len(toHost) /\ 2 \in 1..Len(toHost)
  BY <1>1
<1>3. Read.first \in Byte /\ Read.second \in Byte
  BY <1>9, <1>2, ElementOfSeq DEF Read
<1>4. Len(toHost) = 2 => Read.first \in {s, 255 - s} \/ Read.second \in {s, 255 - s}
  BY DEF Remains, Read
<1>5. Len(toHost) = 3 => Read.first = s \/ Read.second = s
  BY DEF Remains, Read
<1> QED
  BY <1>1, <1>3, <1>4, <1>5

\* What the command makes of two bytes.
LEMMA ReadChecked ==
  ASSUME TypeOK, pc \in Exchange \ {"handshake"}, Len(toHost) >= 2, Checked
  PROVE  Reply[1] = Read.first /\ Read.second = 255 - Read.first
<1>1. toHost \in Seq(Byte) /\ Len(toHost) \in Nat /\ Reply = SubSeq(toHost, 1, 2)
  BY LenProperties DEF TypeOK, Reply, ReplySize
<1>2. 1 \in 1..Len(toHost) + 1 /\ 2 \in 0..Len(toHost)
  BY <1>1
<1>3. \A i \in 1..2 - 1 + 1 : SubSeq(toHost, 1, 2)[i] = toHost[1 + i - 1]
  BY <1>1, <1>2, PartOf
<1>4. SubSeq(toHost, 1, 2)[1] = toHost[1] /\ SubSeq(toHost, 1, 2)[2] = toHost[2]
  BY <1>3
<1>5. Reply[2] = 255 - Reply[1]
  BY Zenon DEF Checked
<1> QED
  BY <1>1, <1>4, <1>5 DEF Read

\* A reply that is accepted says what the bootloader has said: for every status the other byte
\* of the pair is none that the command accepts, and identities end below 128.  Of the sector
\* size this is not so.
LEMMA AcceptedIsSaid ==
  ASSUME TypeOK, NEW s \in Byte, Answered(s), NEW r \in {s, 255 - s}, pc \in Exchange \ {"handshake", "sector"},
         Reply[1] = r, SaysOk
  PROVE  r = s
<1>1. CASE pc = "version"
  <2>1. s \in 0..127
    <3>1. mcu.id \in Identities
      BY DEF TypeOK
    <3>2. s = mcu.id
      BY <1>1 DEF Answered
    <3> QED
      BY <3>1, <3>2, ProtocolAssumption
  <2>2. r \in 0..127
    BY <1>1, ProtocolAssumption DEF SaysOk
  <2> QED
    BY <2>1, <2>2
<1>2. CASE pc = "data"
  <2>1. s \in {31, 33, 32, 117}
    BY <1>2 DEF Answered, Errors
  <2>2. r \in {32, 117}
    BY <1>2 DEF SaysOk
  <2> QED
    BY <2>1, <2>2
<1>3. CASE pc \in {"update", "length", "application"}
  <2>1. s \in {31, 33, 117}
    BY <1>3 DEF Answered, Errors
  <2>2. r = 117
    BY <1>3 DEF SaysOk
  <2> QED
    BY <2>1, <2>2
<1> QED
  BY <1>1, <1>2, <1>3 DEF Exchange

\* What is left behind a reply.
LEMMA LeftBehind ==
  ASSUME TypeOK, pc \in Exchange, Len(toHost) >= ReplySize, toHost' = SubSeq(toHost, ReplySize + 1, Len(toHost))
  PROVE  toHost' \in Seq(Byte) /\ Len(toHost') = Len(toHost) - ReplySize
<1>1. toHost \in Seq(Byte) /\ Len(toHost) \in Nat /\ ReplySize \in {1, 2}
  BY LenProperties DEF TypeOK, ReplySize
<1>2. ReplySize + 1 \in 1..Len(toHost) + 1 /\ Len(toHost) \in 0..Len(toHost)
  BY <1>1
<1>3. /\ SubSeq(toHost, ReplySize + 1, Len(toHost)) \in Seq(Byte)
      /\ Len(SubSeq(toHost, ReplySize + 1, Len(toHost)))
           = (IF ReplySize + 1 <= Len(toHost) THEN Len(toHost) - (ReplySize + 1) + 1 ELSE 0)
  BY ZenonT(60), <1>1, <1>2, PartOf
<1> HIDE DEF Byte
<1> QED
  BY <1>1, <1>3

\* Where a reply that is accepted leads.
LEMMA Leads ==
  /\ pc = "handshake" => Onward = "version"
  /\ pc = "version" => Onward = (IF run.action = "identify" THEN "end" ELSE "sector")
  /\ pc = "sector" => Onward = "update"
  /\ pc = "update" => Onward = "length"
  /\ pc = "length" => Onward = "data"
  /\ pc = "data" => Onward = (IF offset + Unit = Size THEN "application" ELSE "data")
  /\ pc = "application" => Onward = "end"
BY DEF Onward, After

\* The reply is not good: the command fails.
LEMMA RejectInv ==
  ASSUME Inv, await, pc \in Exchange, toHost' \in Seq(Byte), Fail,
         UNCHANGED <<run, offset, sector, port, toMcu, mcu, flash, faults>>
  PROVE  Inv'
<1>1. pc' = "end" /\ result' = "failed" /\ await' = FALSE
  BY DEF Fail
<1>2. TypeOK'
  BY <1>1, FailTypes DEF Inv
<1>3. Wire' /\ Port'
  BY <1>1 DEF Wire, Exchange, Port
<1>4. Purpose'
  BY <1>1 DEF Inv, Purpose, Exchange, Committed
<1>5. Progress'
  BY <1>1 DEF Inv, Progress, Exchange, CountedIsTaken
<1> QED
  BY <1>2, <1>3, <1>4, <1>5 DEF Inv

\* What the wire is like when nothing is awaited.
LEMMA WireReady ==
  ASSUME await' = FALSE, pc' \in {"end", "done"} \cup Exchange, Quiet',
         \/ toMcu' = Nothing
         \/ pc' = "version" /\ toMcu'.kind = "handshake" /\ faults' = 1 /\ toHost' = <<>>
  PROVE  Wire'
BY DEF Wire, Exchange

\* The handshake is one byte, and may be a stray: the answer that is still to come is then the
\* one byte too many.
LEMMA HandshakeInv ==
  ASSUME Inv, MaxFaults <= 1, Receive, pc = "handshake", Checked /\ SaysOk
  PROVE  Inv'
<1>1. /\ await /\ pc' = "version" /\ await' = FALSE /\ UNCHANGED <<result, sector, offset>>
      /\ UNCHANGED <<run, port, toMcu, mcu, flash, faults>>
  BY Leads DEF Receive
<1>2. pc \in Exchange /\ ReplySize = 1 /\ TypeOK
  BY DEF Exchange, ReplySize, Inv
<1>3. toHost' \in Seq(Byte) /\ Len(toHost') = Len(toHost) - 1 /\ Len(toHost) >= 1
  BY <1>2, LeftBehind DEF Receive
<1>4. TypeOK'
  <2>1. await' \in BOOLEAN /\ pc' \in {"check", "open", "request", "close", "reopen", "end", "done"} \cup Exchange
    BY <1>1 DEF Exchange
  <2> QED
    BY <1>1, <1>2, <1>3, <2>1 DEF TypeOK
<1>5. faults \in {0, 1}
  <2>1. faults \in 0..MaxFaults
    BY <1>2 DEF TypeOK
  <2> QED
    BY <2>1, ProtocolAssumption
<1>6. Len(toHost) \in Nat
  BY <1>2, LenProperties DEF TypeOK
<1>7. ASSUME toMcu = Nothing PROVE Wire'
  <2>1. Quiet \/ Len(toHost) <= 1 + faults
    BY <1>1, <1>7 DEF Inv, Wire
  <2>2. Len(toHost) - 1 <= faults
    BY <1>5, <1>6, <2>1 DEF Quiet
  <2>3. Quiet'
    BY <1>1, <1>3, <2>2 DEF Quiet
  <2>4. toMcu' = Nothing /\ pc' \in {"end", "done"} \cup Exchange
    BY <1>1, <1>7 DEF Exchange
  <2> QED
    BY <1>1, <2>3, <2>4, WireReady
<1>8. ASSUME toMcu # Nothing PROVE Wire'
  <2>1. Quiet /\ toMcu.kind = "handshake"
    BY <1>1, <1>8 DEF Inv, Wire
  <2>2. Len(toHost) = 1 /\ faults = 1
    BY <1>3, <1>5, <1>6, <2>1 DEF Quiet
  <2>3. Len(toHost') = 0 /\ toHost' = <<>>
    BY <1>3, <2>2, EmptySeq
  <2>4. Quiet'
    BY <1>1, <2>2, <2>3 DEF Quiet
  <2>5. toMcu'.kind = "handshake" /\ faults' = 1
    BY <1>1, <2>1, <2>2
  <2>6. pc' \in {"end", "done"} \cup Exchange /\ pc' = "version"
    BY <1>1 DEF Exchange
  <2> QED
    BY <1>1, <2>3, <2>4, <2>5, <2>6, WireReady
<1>9. Purpose' /\ Port'
  BY <1>1 DEF Inv, Purpose, Port, Committed
<1>10. Progress'
  BY <1>1 DEF Inv, Progress, Exchange, CountedIsTaken
<1> QED
  BY <1>4, <1>7, <1>8, <1>9, <1>10 DEF Inv

\* The status of two bytes is what the bootloader has said.
LEMMA SaidInv ==
  ASSUME Inv, MaxFaults <= 1, Receive, pc \in Exchange \ {"handshake"}, Checked /\ SaysOk
  PROVE  Inv'
<1>1. /\ await /\ pc' = Onward /\ await' = FALSE /\ UNCHANGED <<run, port, toMcu, mcu, flash, faults>>
      /\ result' = IF Onward = "end" THEN "ok" ELSE result
      /\ sector' = IF pc = "sector" THEN Reply[1] ELSE sector
      /\ offset' = IF pc = "data" THEN offset + Unit ELSE offset
  BY DEF Receive
<1>2. ReplySize = 2 /\ TypeOK
  BY DEF ReplySize, Inv
<1>3. toHost' \in Seq(Byte) /\ Len(toHost') = Len(toHost) - 2 /\ Len(toHost) >= 2
  BY <1>2, LeftBehind DEF Receive
<1>4. faults \in {0, 1}
  <2>1. faults \in 0..MaxFaults
    BY <1>2 DEF TypeOK
  <2> QED
    BY <2>1, ProtocolAssumption
<1>5. Len(toHost) \in Nat
  BY <1>2, LenProperties DEF TypeOK
<1>6. ~Quiet
  BY <1>3, <1>4, <1>5 DEF Quiet
<1>7. toMcu = Nothing
  BY <1>1, <1>6 DEF Inv, Wire
<1>8. PICK s \in Byte : Answered(s) /\ Remains(s)
  BY <1>1, <1>6, <1>7 DEF Inv, Wire
<1>9. Reply[1] \in Byte /\ Reply[1] \in {s, 255 - s}
  <2>1. /\ Read.first \in Byte /\ Read.second \in Byte
        /\ Read.first \in {s, 255 - s} \/ Read.second \in {s, 255 - s}
    BY ZenonT(60), <1>2, <1>3, <1>8, GenuineByte
  <2>2. Reply[1] = Read.first /\ Read.second = 255 - Read.first
    BY <1>2, <1>3, ReadChecked
  <2>3. Read.first \in {s, 255 - s}
    BY ZenonT(60), <2>1, <2>2, OneOfTwo
  <2> QED
    BY SMTT(40), <2>1, <2>2, <2>3
<1>10. pc # "sector" => Reply[1] = s
  BY <1>2, <1>8, <1>9, AcceptedIsSaid
<1>11. Unit \in 0..Size /\ offset + Unit \in 0..Size
  BY <1>2, ChunkFits
<1>12. Onward \in {"sector", "update", "length", "data", "application", "end"}
  BY Leads DEF Exchange
<1>13. TypeOK'
  <2>1. sector' \in Byte /\ offset' \in 0..Size /\ result' \in {"none", "ok", "failed"}
    BY <1>1, <1>2, <1>9, <1>11 DEF TypeOK
  <2>2. await' \in BOOLEAN /\ pc' \in {"check", "open", "request", "close", "reopen", "end", "done"} \cup Exchange
    BY <1>1, <1>12 DEF Exchange
  <2> QED
    BY <1>1, <1>2, <1>3, <2>1, <2>2 DEF TypeOK
<1>14. Wire'
  <2>1. Len(toHost) - 2 <= faults
    BY <1>4, <1>5, <1>8 DEF Remains
  <2>2. Quiet'
    BY <1>1, <1>3, <2>1 DEF Quiet
  <2>3. toMcu' = Nothing
    BY <1>1, <1>7
  <2> QED
    BY <1>1, <1>12, <2>2, <2>3, WireReady DEF Exchange
<1>15. Port'
  BY <1>1, <1>12 DEF Port
<1>16. Purpose'
  <2>1. run.action \in {"identify", "flash"} /\ (run.action = "flash" => run.complete /\ run.valid)
    BY DEF Inv, Purpose, Exchange
  <2>2. CASE pc = "version"
    <3>1. run.action = "flash" => mcu.id \in Allowed
      BY <1>8, <1>10, <2>2 DEF SaysOk, Answered
    <3>2. pc' = "sector" => run.action = "flash"
      BY <1>1, <2>1, <2>2, Leads
    <3>3. toMcu.kind \notin Committed
      BY <1>7 DEF Committed
    <3> QED
      BY <1>1, <1>12, <2>1, <2>2, <3>1, <3>2, <3>3, Leads DEF Inv, Purpose, Committed
  <2>3. CASE pc # "version"
    <3>1. pc \in Committed
      BY <2>3 DEF Exchange, Committed
    <3> QED
      BY <1>1, <2>1, <3>1 DEF Inv, Purpose
  <2> QED
    BY <2>2, <2>3
<1>17. Progress'
  <2>1. offset \in Nat /\ mcu.got \in Nat /\ result # "ok"
    BY <1>2 DEF Inv, Progress, TypeOK, Exchange
  <2>2. CASE pc \in {"version", "sector", "update", "length"}
    <3>1. mcu.got = offset /\ offset' = offset /\ pc' \in {"sector", "update", "length", "data", "end"}
      BY <1>1, <2>2, Leads DEF Inv, Progress, Exchange
    <3>2. pc' = "end" => run.action = "identify"
      BY <1>1, <2>2, Leads
    <3> QED
      BY <1>1, <2>1, <3>1, <3>2 DEF Progress, Exchange, CountedIsTaken
  <2>3. CASE pc = "data"
    <3>1. s \notin Errors
      BY <1>10, <2>3 DEF SaysOk, Errors
    <3>2. mcu.got = offset + Unit /\ (mcu.got = Size => flash = "new")
      BY <1>8, <2>3, <3>1 DEF Answered
    <3>3. offset' = mcu.got /\ pc' \in {"application", "data"} /\ (pc' = "application" => mcu.got = Size)
      BY <1>1, <2>3, <3>2, Leads
    <3> QED
      BY <1>1, <2>1, <3>2, <3>3 DEF Progress, Exchange, CountedIsTaken
  <2>4. CASE pc = "application"
    <3>1. pc' = "end" /\ offset' = offset /\ flash = "new" /\ mcu.mode = "app"
      BY <1>1, <1>8, <2>4, Leads DEF Answered, Inv, Progress
    <3>2. offset <= mcu.got
      BY DEF Inv, Progress, CountedIsTaken
    <3> QED
      BY <1>1, <1>7, <2>1, <3>1, <3>2 DEF Progress, Exchange, CountedIsTaken
  <2> QED
    BY <2>2, <2>3, <2>4 DEF Exchange
<1> QED
  BY <1>13, <1>14, <1>15, <1>16, <1>17 DEF Inv

\* A reply is read: with one byte of noise at most, nothing is believed that is not so.
LEMMA ReceiveInv == ASSUME MaxFaults <= 1, Inv, Receive PROVE Inv'
<1>1. await /\ pc \in Exchange /\ TypeOK
  BY DEF Receive, Inv, Progress
<1>2. CASE Checked /\ SaysOk
  BY <1>1, <1>2, HandshakeInv, SaidInv
<1>3. CASE ~(Checked /\ SaysOk)
  <2>1. toHost' \in Seq(Byte)
    BY <1>1, LeftBehind DEF Receive
  <2>2. Fail /\ UNCHANGED <<run, offset, sector, port, toMcu, mcu, flash, faults>>
    BY <1>3 DEF Receive
  <2> QED
    BY <1>1, <2>1, <2>2, RejectInv
<1> QED
  BY <1>2, <1>3

-----------------------------------------------------------------------------
(* The MCU and the wire keep the invariant. *)

\* The MCU and the wire leave the command where it is.
LEMMA EntersInv == Inv /\ EntersBootloader => Inv'
<1> SUFFICES ASSUME Inv, EntersBootloader PROVE Inv'
  OBVIOUS
<1>1. /\ toMcu.kind = "request" /\ toMcu' = Nothing /\ UNCHANGED <<toHost, flash, faults>>
      /\ UNCHANGED <<run, pc, await, offset, sector, port, result>>
  BY DEF EntersBootloader
<1>2. /\ mcu' \in [mode : {"app", "boot"}, expects : {"handshake", "command", "length", "data"},
                  got : 0..Size, sector : Sectors, id : Identities]
      /\ mcu'.got = mcu.got /\ mcu'.id = mcu.id /\ mcu'.sector = mcu.sector
  BY DEF Inv, TypeOK, EntersBootloader
<1>3. Nothing \in [kind : {"none", "request"} \cup Exchange, n : 0..Size]
  BY ProtocolAssumption
<1>4. TypeOK'
  BY <1>1, <1>2, <1>3 DEF Inv, TypeOK
\* A request to enter the bootloader is long gone when a reply is awaited.
<1>5. ~await
  BY <1>1 DEF Inv, Wire, Progress, Exchange
<1>6. Wire'
  <2>1. pc \in {"check", "open", "request", "close", "reopen"} \/ pc \in Exchange => Quiet
    BY <1>5 DEF Inv, Wire
  <2>2. Quiet => Quiet'
    BY <1>1 DEF Quiet
  <2> QED
    BY <1>1, <1>5, <2>1, <2>2 DEF Wire
<1>7. Port' /\ Purpose'
  BY <1>1, <1>2 DEF Inv, Port, Purpose, Committed
<1>8. Progress'
  <2>1. result = "ok" /\ run.action = "flash" => toMcu = Nothing
    BY DEF Inv, Progress
  <2>2. ~(result = "ok" /\ run.action = "flash")
    BY <1>1, <2>1
  <2> QED
    BY <1>1, <1>2, <2>2 DEF Inv, Progress, CountedIsTaken
<1> QED
  BY <1>4, <1>6, <1>7, <1>8 DEF Inv

\* A request is lost.
LEMMA LosesRequestInv == Inv /\ LosesRequest => Inv'
<1> SUFFICES ASSUME Inv, LosesRequest PROVE Inv'
  OBVIOUS
<1>1. /\ toMcu # Nothing /\ toMcu' = Nothing /\ UNCHANGED <<toHost, mcu, flash, faults>>
      /\ UNCHANGED <<run, pc, await, offset, sector, port, result>>
  BY DEF LosesRequest
<1>2. Nothing \in [kind : {"none", "request"} \cup Exchange, n : 0..Size]
  BY ProtocolAssumption
<1>3. TypeOK'
  BY <1>1, <1>2 DEF Inv, TypeOK
<1>4. Wire'
  <2>1. pc \in {"check", "open", "request", "close", "reopen"} \/ (pc \in Exchange /\ ~await) \/ await => Quiet
    BY <1>1 DEF Inv, Wire
  <2>2. Quiet => Quiet'
    BY <1>1 DEF Quiet
  <2> QED
    BY <1>1, <2>1, <2>2 DEF Wire
<1>5. Port' /\ Purpose'
  BY <1>1 DEF Inv, Port, Purpose, Committed
<1>6. Progress'
  BY <1>1 DEF Inv, Progress, CountedIsTaken
<1> QED
  BY <1>3, <1>4, <1>5, <1>6 DEF Inv

\* What the bootloader is, and what it says.
Mcu == [mode : {"app", "boot"}, expects : {"handshake", "command", "length", "data"},
        got : 0..Size, sector : Sectors, id : Identities]

\* What it may say of itself.
LEMMA McuBytes == ASSUME TypeOK PROVE mcu.id \in Byte /\ mcu.sector \in Byte
<1>1. mcu.id \in Identities /\ mcu.sector \in Sectors
  BY DEF TypeOK
<1>2. (\A i \in Identities : i \in Byte) /\ (\A z \in Sectors : z \in Byte)
  BY ProtocolAssumption
<1> HIDE DEF Byte
<1> QED
  BY <1>1, <1>2

\* The units the bootloader takes of the image are there to be taken.
LEMMA TakenFits ==
  ASSUME TypeOK, toMcu.n = IF Size - mcu.got < mcu.sector THEN Size - mcu.got ELSE mcu.sector
  PROVE  mcu.got + toMcu.n \in 0..Size /\ mcu.got <= mcu.got + toMcu.n
<1>1. mcu.got \in 0..Size /\ mcu.sector \in 0..255 /\ Size \in Nat
  <2>1. mcu.got \in 0..Size
    BY DEF TypeOK
  <2> QED
    BY <2>1, McuBytes, ProtocolAssumption
<1>2. mcu.got + (Size - mcu.got) = Size
  BY <1>1
<1> DEFINE g == mcu.got
           z == mcu.sector
           n == toMcu.n
<1>3. g \in 0..Size /\ z \in 0..255 /\ Size \in Nat /\ n = IF Size - g < z THEN Size - g ELSE z
  BY <1>1
<1>4. g + n \in 0..Size /\ g <= g + n
  <2> HIDE DEF g, z, n
  <2> QED
    BY <1>3
<1> QED
  BY <1>4

\* What a request that is taken does to the bootloader and the flash.
Taken ==
  /\ mcu' \in Mcu /\ mcu'.id = mcu.id /\ mcu.got <= mcu'.got
  /\ toMcu.kind # "data" => mcu'.got = mcu.got
  /\ flash' \in {"old", "torn", "new"} /\ (flash' # flash => toMcu.kind \in {"update", "data"})
  /\ toMcu.kind \in Exchange

LEMMA TakesMcu == ASSUME TypeOK, Takes PROVE Taken
<1>1. mcu \in Mcu /\ mcu.got \in Nat /\ flash \in {"old", "torn", "new"}
  BY DEF TypeOK, Mcu
<1>2. toMcu.kind \in Exchange
  BY DEF Takes, Exchange
<1>3. CASE toMcu.kind \notin {"update", "data"} /\ UNCHANGED flash
  <2>1. \/ UNCHANGED mcu
        \/ \E e \in {"command", "data"} : mcu' = [mcu EXCEPT !.expects = e]
        \/ mcu' = [mcu EXCEPT !.mode = "app", !.expects = "handshake"]
    BY <1>3 DEF Takes
  <2>2. mcu' \in Mcu /\ mcu'.id = mcu.id /\ mcu'.got = mcu.got
    BY <1>1, <2>1 DEF Mcu
  <2> QED
    BY <1>1, <1>2, <1>3, <2>2 DEF Taken
<1>4. CASE toMcu.kind = "update"
  <2>1. mcu' = [mcu EXCEPT !.expects = "length"] /\ flash' = "torn"
    BY <1>4 DEF Takes
  <2>2. mcu' \in Mcu /\ mcu'.id = mcu.id /\ mcu'.got = mcu.got
    BY <1>1, <2>1 DEF Mcu
  <2> QED
    BY <1>1, <1>2, <1>4, <2>1, <2>2 DEF Taken
<1>5. CASE toMcu.kind = "data"
  <2>1. CASE mcu' = [mcu EXCEPT !.expects = "command"] /\ UNCHANGED flash
    <3>1. mcu' \in Mcu /\ mcu'.id = mcu.id /\ mcu'.got = mcu.got
      BY <1>1, <2>1 DEF Mcu
    <3> QED
      BY <1>1, <1>2, <1>5, <2>1, <3>1 DEF Taken
  <2>2. CASE /\ toMcu.n = IF Size - mcu.got < mcu.sector THEN Size - mcu.got ELSE mcu.sector
             /\ mcu' = [mcu EXCEPT !.got = @ + toMcu.n,
                                   !.expects = IF mcu.got + toMcu.n = Size THEN "command" ELSE @]
             /\ flash' = IF mcu.got + toMcu.n = Size THEN "new" ELSE flash
    <3>1. mcu.got + toMcu.n \in 0..Size /\ mcu.got <= mcu.got + toMcu.n
      BY <2>2, TakenFits
    <3>2. mcu' \in Mcu /\ mcu'.id = mcu.id /\ mcu'.got = mcu.got + toMcu.n
      BY <1>1, <2>2, <3>1 DEF Mcu
    <3>3. flash' \in {"old", "torn", "new"}
      BY <1>1, <2>2
    <3> QED
      BY <1>2, <1>5, <3>1, <3>2, <3>3 DEF Taken
  <2> QED
    BY <1>5, <2>1, <2>2 DEF Takes
<1>6. toMcu.kind \notin {"update", "data"} => UNCHANGED flash
  BY DEF Takes
<1> QED
  BY <1>3, <1>4, <1>5, <1>6

\* Its answer.
LEMMA TakesSays ==
  ASSUME TypeOK, Takes
  PROVE  \/ toMcu.kind = "handshake" /\ toHost' = toHost \o <<Handshake>>
         \/ toMcu.kind # "handshake" /\ \E s \in Byte : toHost' = toHost \o <<s, 255 - s>>
<1>1. \/ toMcu.kind = "handshake" /\ Answers(<<Handshake>>)
      \/ toMcu.kind # "handshake" /\ \E s \in {mcu.id, mcu.sector, Accepted, Complete, 31, 33} : Status(s)
  <2>1. (IF mcu.got + toMcu.n = Size THEN Complete ELSE Accepted) \in {Accepted, Complete}
    OBVIOUS
  <2> QED
    BY <2>1 DEF Takes
<1>2. Accepted \in Byte /\ Complete \in Byte /\ 31 \in Byte /\ 33 \in Byte
  OBVIOUS
<1> HIDE DEF Byte
<1>3. \A s \in {mcu.id, mcu.sector, Accepted, Complete, 31, 33} : s \in Byte
  BY <1>2, McuBytes
<1> QED
  BY Zenon, <1>1, <1>3 DEF Status, Answers

\* And it is well typed.
LEMMA SaysBytes == ASSUME TypeOK, Takes PROVE toHost' \in Seq(Byte)
<1>1. toHost \in Seq(Byte) /\ <<Handshake>> \in Seq(Byte)
  BY DEF TypeOK
<1>2. toHost \o <<Handshake>> \in Seq(Byte)
  BY <1>1, ConcatProperties
<1>3. ASSUME NEW s \in Byte PROVE toHost \o <<s, 255 - s>> \in Seq(Byte)
  <2>1. 255 - s \in Byte
    OBVIOUS
  <2> HIDE DEF Byte
  <2>2. \A t \in Byte : toHost \o <<s, t>> \in Seq(Byte)
    BY <1>1, Behind
  <2> QED
    BY <2>1, <2>2
<1> QED
  BY ZenonT(60), <1>2, <1>3, TakesSays

\* A reply that comes behind no more than noise.
LEMMA ReplyRemains ==
  ASSUME TypeOK, Quiet, MaxFaults <= 1, NEW s \in Byte, toHost' = toHost \o <<s, 255 - s>>, UNCHANGED faults
  PROVE  Remains(s)'
<1>1. toHost \in Seq(Byte) /\ Len(toHost) \in Nat
  BY LenProperties DEF TypeOK
<1>2. /\ Len(toHost') = Len(toHost) + 2
      /\ toHost'[Len(toHost) + 1] = s /\ toHost'[Len(toHost) + 2] = 255 - s
  <2>1. 255 - s \in Byte
    OBVIOUS
  <2> HIDE DEF Byte
  <2>2. PICK t \in Byte : t = 255 - s
    BY <2>1
  <2>3. toHost' = toHost \o <<s, t>>
    BY <2>2
  <2>4. Len(toHost') = Len(toHost) + 2 /\ toHost'[Len(toHost) + 1] = s /\ toHost'[Len(toHost) + 2] = t
    BY <1>1, <2>3, Behind
  <2> QED
    BY <2>2, <2>4
<1>3. faults \in 0..MaxFaults
  BY DEF TypeOK
<1>4. faults \in {0, 1}
  BY <1>3, ProtocolAssumption
<1>5. Len(toHost) \in {0, 1} /\ (Len(toHost) = 1 => faults = 1)
  <2>1. Len(toHost) \in Nat /\ Len(toHost) <= faults
    BY <1>1 DEF Quiet
  <2>2. \A n \in Nat : n <= faults => n \in {0, 1} /\ (n = 1 => faults = 1)
    BY <1>4
  <2> QED
    BY Zenon, <2>1, <2>2
<1>6. CASE Len(toHost) = 0
  <2>1. Len(toHost') = 2 /\ toHost'[1] = s /\ toHost'[2] = 255 - s
    BY <1>2, <1>6
  <2> QED
    BY <1>4, <2>1 DEF Remains
<1>7. CASE Len(toHost) = 1
  <2>1. Len(toHost') = 3 /\ toHost'[2] = s /\ toHost'[3] = 255 - s /\ faults' = 1
    BY <1>2, <1>5, <1>7
  <2> QED
    BY <2>1 DEF Remains
<1> QED
  BY <1>5, <1>6, <1>7

\* The answer to the request that the host awaits an answer to.
LEMMA TakesAnswered ==
  ASSUME Inv, Takes, await, toMcu.kind = pc, pc # "handshake", pc = "data" => toMcu.n = Unit /\ mcu.got = offset
  PROVE  \E s \in Byte : toHost' = toHost \o <<s, 255 - s>> /\ Answered(s)'
<1>1. TypeOK /\ UNCHANGED <<run, pc, await, offset, sector, port, result, faults>> /\ Unit' = Unit
  BY DEF Inv, Takes, Unit
<1>2. mcu.id \in Byte /\ mcu.sector \in Byte /\ mcu'.id = mcu.id
  BY SMTT(40), <1>1, TakesMcu, McuBytes DEF Taken
<1>3. ASSUME NEW s \in Errors, pc \in {"length", "data"}, Status(s)
      PROVE  \E u \in Byte : toHost' = toHost \o <<u, 255 - u>> /\ Answered(u)'
  <2>1. s \in Byte
    BY <1>3 DEF Errors
  <2>2. Answered(s)'
    BY <1>1, <1>3, <2>1 DEF Answered
  <2> QED
    BY ZenonT(60), <1>3, <2>1, <2>2 DEF Status, Answers
<1>4. CASE pc = "version"
  <2>1. PICK u \in Byte : u = mcu.id
    BY <1>2
  <2>2. Status(u)
    BY <1>4, <2>1 DEF Takes
  <2>3. Answered(u)'
    BY <1>1, <1>2, <1>4, <2>1 DEF Answered
  <2> QED
    BY ZenonT(60), <2>2, <2>3 DEF Status, Answers
<1>5. CASE pc = "sector"
  <2>1. PICK u \in Byte : u = mcu.sector
    BY <1>2
  <2>2. Status(u)
    BY <1>5, <2>1 DEF Takes
  <2>3. Answered(u)'
    BY <1>1, <1>5 DEF Answered
  <2> QED
    BY Zenon, <2>2, <2>3 DEF Status, Answers
<1>6. CASE pc = "update"
  <2>1. Status(Accepted)
    BY <1>6 DEF Takes
  <2>2. Answered(Accepted)'
    BY <1>1, <1>6 DEF Answered
  <2>3. Accepted \in Byte
    OBVIOUS
  <2> QED
    BY ZenonT(60), <2>1, <2>2, <2>3 DEF Status, Answers
<1>7. CASE pc = "length"
  <2>1. Status(Accepted) \/ \E e \in Errors : Status(e)
    BY <1>7 DEF Takes, Errors
  <2>2. Answered(Accepted)'
    BY <1>1, <1>7 DEF Answered
  <2>3. Accepted \in Byte
    OBVIOUS
  <2>4. CASE Status(Accepted)
    BY ZenonT(60), <2>2, <2>3, <2>4 DEF Status, Answers
  <2> QED
    BY ZenonT(60), <1>3, <1>7, <2>1, <2>4
<1>8. CASE pc = "data"
  <2>1. mcu.got = offset /\ toMcu.n = Unit /\ offset + Unit \in 0..Size
    BY <1>1, <1>8, ChunkFits
  <2>2. \/ /\ mcu' = [mcu EXCEPT !.got = mcu.got + toMcu.n,
                                 !.expects = IF mcu.got + toMcu.n = Size THEN "command" ELSE mcu.expects]
           /\ flash' = IF mcu.got + toMcu.n = Size THEN "new" ELSE flash
           /\ Status(IF mcu.got + toMcu.n = Size THEN Complete ELSE Accepted)
        \/ \E e \in Errors : Status(e)
    BY SMTT(40), <1>8 DEF Takes, Errors
  <2> DEFINE u == IF offset + Unit = Size THEN Complete ELSE Accepted
  <2>3. ASSUME mcu' = [mcu EXCEPT !.got = mcu.got + toMcu.n,
                                  !.expects = IF mcu.got + toMcu.n = Size THEN "command" ELSE mcu.expects],
               flash' = IF mcu.got + toMcu.n = Size THEN "new" ELSE flash,
               Status(IF mcu.got + toMcu.n = Size THEN Complete ELSE Accepted)
        PROVE  \E s \in Byte : toHost' = toHost \o <<s, 255 - s>> /\ Answered(s)'
    <3>1. mcu'.got = offset + Unit /\ (mcu'.got = Size => flash' = "new")
      <4>1. mcu \in Mcu
        BY <1>1 DEF TypeOK, Mcu
      <4>2. mcu'.got = mcu.got + toMcu.n
        BY <2>3, <4>1 DEF Mcu
      <4> QED
        BY <2>1, <2>3, <4>2
    <3>2. u \in Byte /\ u' = u
      BY <1>1
    <3>3. Answered(u)'
      BY <1>1, <1>8, <3>1, <3>2 DEF Answered
    <3>4. Status(u)
      BY <2>1, <2>3
    <3> HIDE DEF u
    <3> QED
      BY ZenonT(60), <3>2, <3>3, <3>4 DEF Status, Answers
  <2> QED
    BY ZenonT(60), <1>3, <1>8, <2>2, <2>3
<1>9. CASE pc = "application"
  <2>1. Status(Accepted) /\ mcu' = [mcu EXCEPT !.mode = "app", !.expects = "handshake"]
    BY <1>9 DEF Takes
  <2>2. mcu'.mode = "app"
    <3>1. mcu \in Mcu
      BY <1>1 DEF TypeOK, Mcu
    <3> QED
      BY <2>1, <3>1 DEF Mcu
  <2>3. Answered(Accepted)'
    BY <1>1, <1>9, <2>2 DEF Answered
  <2>4. Accepted \in Byte
    OBVIOUS
  <2> QED
    BY Zenon, <2>1, <2>3, <2>4 DEF Status, Answers
<1>10. pc \in Exchange \ {"handshake"}
  <2>1. pc \in Exchange
    BY DEF Inv, Progress
  <2> QED
    BY <2>1
<1> QED
  BY ZenonT(60), <1>4, <1>5, <1>6, <1>7, <1>8, <1>9, <1>10 DEF Exchange

\* What the wire is like when a reply of two bytes is awaited.
LEMMA WireAwaits ==
  ASSUME await', pc' \in Exchange \ {"handshake"}, toMcu' = Nothing,
         NEW s \in Byte, Answered(s)', Remains(s)'
  PROVE  Wire'
<1>1. \E u \in Byte : Answered(u)' /\ Remains(u)'
  OBVIOUS
<1>2. pc' \notin {"check", "open", "request", "close", "reopen"}
  BY DEF Exchange
<1> QED
  BY <1>1, <1>2 DEF Wire

\* The bootloader takes a request: what it says answers what the host awaits, or the one byte of
\* noise has made the host ask again meanwhile, and nothing is awaited.
LEMMA TakesInv == ASSUME MaxFaults <= 1, Inv, Takes PROVE Inv'
<1>1. /\ toMcu' = Nothing /\ port = 115200 /\ UNCHANGED <<run, pc, await, offset, sector, port, result, faults>>
      /\ TypeOK
  BY DEF Takes, Inv
<1>2. /\ mcu' \in Mcu /\ mcu'.id = mcu.id /\ mcu.got <= mcu'.got
      /\ toMcu.kind # "data" => mcu'.got = mcu.got
      /\ flash' \in {"old", "torn", "new"} /\ (flash' # flash => toMcu.kind \in {"update", "data"})
      /\ toMcu.kind \in Exchange
  BY <1>1, TakesMcu DEF Taken
<1>3. TypeOK'
  <2>1. Nothing \in [kind : {"none", "request"} \cup Exchange, n : 0..Size]
    BY ProtocolAssumption
  <2>2. toHost' \in Seq(Byte)
    BY <1>1, SaysBytes
  <2> QED
    BY <1>1, <1>2, <2>1, <2>2 DEF TypeOK, Mcu
<1>4. toMcu.kind \notin {"none", "request"} /\ toMcu # Nothing
  BY <1>2 DEF Exchange
<1>5. pc \in Exchange \cup {"end"}
  <2>1. pc \notin {"check", "open", "request", "close", "reopen"}
    BY <1>4 DEF Inv, Wire
  <2>2. pc # "done"
    BY <1>1 DEF Inv, Port
  <2> QED
    BY <1>1, <2>1, <2>2 DEF TypeOK
<1>6. await \in BOOLEAN /\ (await => pc \in Exchange)
  BY <1>1 DEF TypeOK, Inv, Progress
<1>7. await => Quiet /\ toMcu.kind = pc /\ (pc = "data" => toMcu.n = Unit /\ mcu.got = offset)
  BY <1>4 DEF Inv, Wire
<1>8. ~await /\ pc \in Exchange =>
        pc = "version" /\ toMcu.kind = "handshake" /\ faults = 1 /\ toHost = <<>>
  BY <1>4 DEF Inv, Wire
<1>9. toMcu.kind = "handshake" => toHost' = toHost \o <<Handshake>>
  BY <1>1, TakesSays
<1>10. Wire'
  <2>1. CASE pc = "end"
    BY <1>1, <1>6, <2>1 DEF Wire, Exchange
  <2>2. CASE ~await /\ pc \in Exchange
    <3>1. toHost' = <<>> \o <<Handshake>>
      BY <1>8, <1>9, <2>2
    <3>2. Len(toHost') = 1
      BY <3>1
    <3>3. Quiet'
      BY <1>1, <1>8, <2>2, <3>2 DEF Quiet
    <3>4. await' = FALSE /\ pc' \in {"end", "done"} \cup Exchange /\ toMcu' = Nothing
      BY <1>1, <1>6, <2>2
    <3> QED
      BY <3>3, <3>4, WireReady
  <2>3. CASE await /\ pc = "handshake"
    <3>1. toHost \in Seq(Byte) /\ Len(toHost) \in Nat
      BY <1>1, LenProperties DEF TypeOK
    <3>2. toHost' = toHost \o <<Handshake>>
      BY <1>7, <1>9, <2>3
    <3>3. <<Handshake>> \in Seq(Byte) /\ Len(<<Handshake>>) = 1
      OBVIOUS
    <3>4. Len(toHost') = Len(toHost) + 1
      BY <3>1, <3>2, <3>3, ConcatProperties
    <3>5. Len(toHost) <= faults /\ faults \in Nat
      BY <1>1, <1>7, <2>3, ProtocolAssumption DEF Quiet, TypeOK
    <3>6. Len(toHost') <= 1 + faults'
      BY <1>1, <3>1, <3>4, <3>5
    <3> QED
      BY <1>1, <2>3, <3>6 DEF Wire, Exchange
  <2>4. CASE await /\ pc # "handshake"
    <3>1. PICK s \in Byte : toHost' = toHost \o <<s, 255 - s>> /\ Answered(s)'
      <4>1. await /\ toMcu.kind = pc /\ pc # "handshake" /\ (pc = "data" => toMcu.n = Unit /\ mcu.got = offset)
        BY <1>7, <2>4
      <4> QED
        BY Zenon, <4>1, TakesAnswered
    <3>2. Remains(s)'
      <4>1. TypeOK /\ Quiet /\ UNCHANGED faults
        BY <1>1, <1>7, <2>4
      <4> QED
        BY Zenon, <3>1, <4>1, ReplyRemains
    <3>3. await' /\ pc' \in Exchange \ {"handshake"} /\ toMcu' = Nothing
      BY <1>1, <1>6, <2>4
    <3> QED
      BY <3>1, <3>2, <3>3, WireAwaits
  <2> QED
    BY <1>5, <1>6, <2>1, <2>2, <2>3, <2>4
<1>11. Port'
  BY <1>1 DEF Inv, Port
<1>12. Purpose'
  <2>1. flash' # "old" => flash # "old" \/ toMcu.kind \in Committed
    BY <1>2 DEF Committed
  <2> QED
    BY <1>1, <1>2, <2>1 DEF Inv, Purpose, Committed
<1>13. Progress'
  <2>1. offset \in Nat /\ mcu.got \in Nat /\ mcu'.got \in Nat
    BY <1>1, <1>2 DEF TypeOK, Mcu
  <2>2. ~(result = "ok" /\ run.action = "flash")
    BY <1>4 DEF Inv, Progress
  <2>3. offset <= mcu'.got
    <3>1. offset <= mcu.got
      BY DEF Inv, Progress, CountedIsTaken
    <3> QED
      BY <1>2, <2>1, <3>1
  <2>4. pc \in Exchange \ {"application"} /\ (pc = "data" => ~await) => mcu'.got = offset
    <3>1. pc \in Exchange \ {"application"} /\ (pc = "data" => ~await) => mcu.got = offset
      BY DEF Inv, Progress
    <3>2. pc \in Exchange /\ toMcu.kind = "data" => pc = "data" /\ await
      BY <1>6, <1>7, <1>8
    <3> QED
      BY <1>2, <3>1, <3>2
  <2>5. pc = "application" => flash' = "new"
    <3>1. pc = "application" => toMcu.kind = "application"
      BY <1>6, <1>7, <1>8 DEF Exchange
    <3> QED
      BY <1>2, <3>1 DEF Inv, Progress
  <2> QED
    BY <1>1, <1>5, <1>6, <2>2, <2>3, <2>4, <2>5 DEF Inv, Progress, CountedIsTaken
<1> QED
  BY <1>3, <1>10, <1>11, <1>12, <1>13 DEF Inv

\* What happens to bytes on their way to the host is no concern of anyone but who reads them.
LEMMA ByteStepInv ==
  ASSUME Inv, UNCHANGED <<host, toMcu, mcu, flash>>, toHost' \in Seq(Byte), faults' \in 0..MaxFaults,
         Quiet => Quiet', Len(toHost) <= 1 + faults => Len(toHost') <= 1 + faults',
         \A s \in Byte : Remains(s) => Remains(s)', ~(faults = 1 /\ toHost = <<>>)
  PROVE  Inv'
<1>1. UNCHANGED <<run, pc, await, offset, sector, port, result, toMcu, mcu, flash>>
  OBVIOUS
<1>2. TypeOK'
  BY <1>1 DEF Inv, TypeOK
<1>3. ASSUME NEW s \in Byte, Answered(s) PROVE Answered(s)'
  <2>1. Unit' = Unit
    BY <1>1 DEF Unit
  <2> QED
    BY <1>1, <1>3, <2>1 DEF Answered
<1>4. Wire'
  <2>1. pc \in {"check", "open", "request", "close", "reopen"} =>
          Quiet' /\ (toMcu = Nothing \/ toMcu.kind = "request")
    BY DEF Inv, Wire
  <2>2. pc \in Exchange /\ ~await => Quiet' /\ (toMcu = Nothing \/ (pc = "handshake" /\ toMcu.kind = "request"))
    <3>1. pc \in Exchange /\ ~await =>
            /\ Quiet
            /\ \/ toMcu = Nothing
               \/ pc = "handshake" /\ toMcu.kind = "request"
               \/ faults = 1 /\ toHost = <<>>
      BY DEF Inv, Wire
    <3> QED
      BY Zenon, <3>1
  <2>3. await /\ toMcu # Nothing =>
          Quiet' /\ toMcu.kind = pc /\ (pc = "data" => toMcu.n = Unit' /\ mcu.got = offset)
    <3>1. Unit' = Unit
      BY <1>1 DEF Unit
    <3> QED
      BY <3>1 DEF Inv, Wire
  <2>4. await /\ toMcu = Nothing =>
          \/ Quiet'
          \/ pc = "handshake" /\ Len(toHost') <= 1 + faults'
          \/ pc # "handshake" /\ \E s \in Byte : Answered(s)' /\ Remains(s)'
    BY <1>3 DEF Inv, Wire
  <2> QED
    BY <1>1, <2>1, <2>2, <2>3, <2>4 DEF Wire
<1>5. Purpose' /\ Port'
  BY <1>1 DEF Inv, Purpose, Port
<1>6. Progress'
  BY <1>1 DEF Inv, Progress, CountedIsTaken
<1> QED
  BY <1>2, <1>4, <1>5, <1>6 DEF Inv

\* A byte is lost.
LEMMA LosesByteInv == ASSUME MaxFaults <= 1, Inv, LosesByte PROVE Inv'
<1>1. UNCHANGED <<host, toMcu, mcu, flash>> /\ UNCHANGED faults
  BY DEF LosesByte
<1>2. PICK i \in DOMAIN toHost : toHost' = RemoveAt(toHost, i)
  BY DEF LosesByte
<1>3. toHost \in Seq(Byte) /\ Len(toHost) \in Nat /\ i \in 1..Len(toHost)
  BY LenProperties DEF Inv, TypeOK
<1>4. /\ toHost' \in Seq(Byte) /\ Len(toHost') = Len(toHost) - 1
      /\ \A j \in 1..Len(toHost) - 1 : toHost'[j] = (IF j < i THEN toHost[j] ELSE toHost[j + 1])
  BY <1>2, <1>3, Shorter
<1>5. faults \in 0..MaxFaults
  BY DEF Inv, TypeOK
<1>6. faults \in {0, 1}
  BY <1>5, ProtocolAssumption
<1>7. Quiet => Quiet'
  BY <1>1, <1>3, <1>4, <1>6 DEF Quiet
<1>8. Len(toHost) <= 1 + faults => Len(toHost') <= 1 + faults'
  BY <1>1, <1>3, <1>4, <1>6
<1>9. ASSUME NEW s \in Byte, Remains(s) PROVE Remains(s)'
  <2>1. Len(toHost) \in {1, 2, 3}
    <3>1. Len(toHost) <= 2 + faults
      BY <1>9 DEF Remains
    <3>2. Len(toHost) \in Nat /\ Len(toHost) >= 1
      BY <1>3
    <3>3. \A n \in Nat : n >= 1 /\ n <= 2 + faults => n \in {1, 2, 3}
      BY <1>6
    <3> QED
      BY Zenon, <3>1, <3>2, <3>3
  <2>2. CASE Len(toHost) = 1
    <3>1. Len(toHost') = 0
      BY <1>4, <2>2
    <3> QED
      BY <1>1, <1>6, <3>1 DEF Remains
  <2>3. CASE Len(toHost) = 2
    <3>1. Len(toHost') = 1 /\ (toHost'[1] = toHost[1] \/ toHost'[1] = toHost[2])
      BY <1>3, <1>4, <2>3
    <3>2. faults = 1 \/ (toHost[1] = s /\ toHost[2] = 255 - s)
      <4>1. CASE faults = 0
        BY Zenon, <1>9, <2>3, <4>1 DEF Remains
      <4> QED
        BY <1>6, <4>1
    <3>3. faults' = 1 \/ toHost'[1] \in {s, 255 - s}
      BY <1>1, <3>1, <3>2
    <3> QED
      BY <1>1, <1>6, <3>1, <3>3 DEF Remains
  <2>4. CASE Len(toHost) = 3
    <3>1. /\ Len(toHost') = 2
          /\ toHost'[1] = (IF 1 < i THEN toHost[1] ELSE toHost[2])
          /\ toHost'[2] = (IF 2 < i THEN toHost[2] ELSE toHost[3])
      BY <1>3, <1>4, <2>4
    <3>2. \/ toHost[1] = s /\ toHost[2] = 255 - s
          \/ toHost[1] = s /\ toHost[3] = 255 - s
          \/ toHost[2] = s /\ toHost[3] = 255 - s
      BY <1>9, <2>4 DEF Remains
    <3>3. i \in {1, 2, 3}
      BY <1>3, <2>4
    <3>4. toHost'[1] \in {s, 255 - s} \/ toHost'[2] \in {s, 255 - s}
      BY <3>1, <3>2, <3>3
    <3>5. faults' = 1
      <4>1. Len(toHost) <= 2 + faults
        BY <1>9 DEF Remains
      <4> QED
        BY <1>1, <1>6, <2>4, <4>1
    <3> QED
      BY <3>1, <3>4, <3>5 DEF Remains
  <2> QED
    BY <2>1, <2>2, <2>3, <2>4
<1>10. toHost # <<>>
  <2>1. toHost = <<>> => Len(toHost) = 0
    BY EmptySeq
  <2> QED
    BY <1>3, <2>1
<1>11. faults' \in 0..MaxFaults
  BY <1>1, <1>5
<1> QED
  BY <1>1, <1>4, <1>7, <1>8, <1>9, <1>10, <1>11, ByteStepInv

\* Noise: there has been none before, so that what was there was whole but for its losses.
LEMMA NoiseInv == ASSUME MaxFaults <= 1, Inv, Noise PROVE Inv'
<1>1. UNCHANGED <<host, toMcu, mcu, flash>> /\ TypeOK
  BY DEF Noise, Inv
<1>2. faults = 0 /\ faults' = 1 /\ faults' \in 0..MaxFaults
  <2>1. faults \in 0..MaxFaults /\ faults < MaxFaults /\ faults' = faults + 1 /\ MaxFaults \in Nat
    BY <1>1, ProtocolAssumption DEF Noise, TypeOK
  <2> QED
    BY <2>1
<1>3. toHost \in Seq(Byte) /\ Len(toHost) \in Nat
  BY <1>1, LenProperties DEF TypeOK
<1>4. PICK b \in Strays :
        \/ \E i \in 1..Len(toHost) + 1 : toHost' = InsertAt(toHost, i, b)
        \/ \E i \in DOMAIN toHost : toHost' = [toHost EXCEPT ![i] = b]
  BY DEF Noise
<1>5. b \in Byte
  BY ProtocolAssumption
<1>6. CASE \E i \in 1..Len(toHost) + 1 : toHost' = InsertAt(toHost, i, b)
  <2>1. PICK i \in 1..Len(toHost) + 1 : toHost' = InsertAt(toHost, i, b)
    BY <1>6
  <2>2. /\ toHost' \in Seq(Byte) /\ Len(toHost') = Len(toHost) + 1
        /\ \A j \in 1..Len(toHost) + 1 :
             toHost'[j] = (IF j < i THEN toHost[j] ELSE IF j = i THEN b ELSE toHost[j - 1])
    <3> HIDE DEF Byte
    <3>1. Grown(toHost', toHost, i, b)
      BY Zenon, <1>3, <1>5, <2>1, Longer
    <3> QED
      BY Zenon, <3>1 DEF Grown
  <2>3. Quiet => Quiet'
    BY <1>2, <1>3, <2>2 DEF Quiet
  <2>4. Len(toHost) <= 1 + faults => Len(toHost') <= 1 + faults'
    BY <1>2, <1>3, <2>2
  <2>5. ASSUME NEW s \in Byte, Remains(s) PROVE Remains(s)'
    <3>1. Len(toHost) \in {0, 1, 2}
      <4>1. Len(toHost) <= 2 /\ Len(toHost) \in Nat
        BY <1>2, <1>3, <2>5 DEF Remains
      <4>2. \A n \in Nat : n <= 2 => n \in {0, 1, 2}
        OBVIOUS
      <4> QED
        BY Zenon, <4>1, <4>2
    <3>2. CASE Len(toHost) = 0
      <4>1. Len(toHost') = 1
        BY <2>2, <3>2
      <4> QED
        BY <1>2, <4>1 DEF Remains
    <3>3. CASE Len(toHost) = 1
      <4>1. toHost[1] \in {s, 255 - s}
        BY Zenon, <1>2, <2>5, <3>3 DEF Remains
      <4>2. /\ Len(toHost') = 2
            /\ toHost'[1] = (IF 1 < i THEN toHost[1] ELSE IF 1 = i THEN b ELSE toHost[0])
            /\ toHost'[2] = (IF 2 < i THEN toHost[2] ELSE IF 2 = i THEN b ELSE toHost[1])
        BY <2>2, <3>3
      <4>3. i \in {1, 2}
        BY <2>1, <3>3
      <4>4. toHost'[1] \in {s, 255 - s} \/ toHost'[2] \in {s, 255 - s}
        BY <4>1, <4>2, <4>3
      <4> QED
        BY <1>2, <4>2, <4>4 DEF Remains
    <3>4. CASE Len(toHost) = 2
      <4>1. toHost[1] = s /\ toHost[2] = 255 - s
        BY Zenon, <1>2, <2>5, <3>4 DEF Remains
      <4>2. /\ Len(toHost') = 3
            /\ toHost'[1] = (IF 1 < i THEN toHost[1] ELSE IF 1 = i THEN b ELSE toHost[0])
            /\ toHost'[2] = (IF 2 < i THEN toHost[2] ELSE IF 2 = i THEN b ELSE toHost[1])
            /\ toHost'[3] = (IF 3 < i THEN toHost[3] ELSE IF 3 = i THEN b ELSE toHost[2])
        BY <2>2, <3>4
      <4>3. i \in {1, 2, 3}
        BY <2>1, <3>4
      <4>4. \/ toHost'[1] = s /\ toHost'[2] = 255 - s
            \/ toHost'[1] = s /\ toHost'[3] = 255 - s
            \/ toHost'[2] = s /\ toHost'[3] = 255 - s
        <5>1. CASE i = 1
          BY <4>1, <4>2, <5>1
        <5>2. CASE i = 2
          BY <4>1, <4>2, <5>2
        <5>3. CASE i = 3
          BY <4>1, <4>2, <5>3
        <5> QED
          BY <4>3, <5>1, <5>2, <5>3
      <4> QED
        BY <1>2, <4>2, <4>4 DEF Remains
    <3> QED
      BY <3>1, <3>2, <3>3, <3>4
  <2> QED
    BY <1>1, <1>2, <2>2, <2>3, <2>4, <2>5, ByteStepInv
<1>7. CASE \E i \in DOMAIN toHost : toHost' = [toHost EXCEPT ![i] = b]
  <2>1. PICK i \in DOMAIN toHost : toHost' = [toHost EXCEPT ![i] = b]
    BY <1>7
  <2>2. i \in 1..Len(toHost)
    BY <1>3, LenProperties
  <2>3. /\ toHost' \in Seq(Byte) /\ Len(toHost') = Len(toHost)
        /\ \A j \in 1..Len(toHost) : toHost'[j] = (IF j = i THEN b ELSE toHost[j])
    BY <1>3, <1>5, <2>1, <2>2, ExceptSeq
  <2>4. Quiet => Quiet'
    BY <1>2, <1>3, <2>3 DEF Quiet
  <2>5. Len(toHost) <= 1 + faults => Len(toHost') <= 1 + faults'
    BY <1>2, <1>3, <2>3
  <2>6. ASSUME NEW s \in Byte, Remains(s) PROVE Remains(s)'
    <3>1. Len(toHost) \in {1, 2}
      <4>1. Len(toHost) <= 2 /\ Len(toHost) \in Nat /\ Len(toHost) >= 1
        BY <1>2, <1>3, <2>2, <2>6 DEF Remains
      <4>2. \A n \in Nat : n >= 1 /\ n <= 2 => n \in {1, 2}
        OBVIOUS
      <4> QED
        BY Zenon, <4>1, <4>2
    <3>2. CASE Len(toHost) = 1
      BY <1>2, <2>3, <3>2 DEF Remains
    <3>3. CASE Len(toHost) = 2
      <4>1. toHost[1] = s /\ toHost[2] = 255 - s
        BY Zenon, <1>2, <2>6, <3>3 DEF Remains
      <4>2. /\ Len(toHost') = 2 /\ toHost'[1] = (IF 1 = i THEN b ELSE toHost[1])
            /\ toHost'[2] = (IF 2 = i THEN b ELSE toHost[2])
        BY <2>3, <3>3
      <4>3. toHost'[1] \in {s, 255 - s} \/ toHost'[2] \in {s, 255 - s}
        BY <4>1, <4>2
      <4> QED
        BY <1>2, <4>2, <4>3 DEF Remains
    <3> QED
      BY <3>1, <3>2, <3>3
  <2> QED
    BY <1>1, <1>2, <2>3, <2>4, <2>5, <2>6, ByteStepInv
<1> QED
  BY <1>4, <1>6, <1>7

-----------------------------------------------------------------------------
(* The result. *)

\* A step of Next keeps the invariant.
LEMMA InvNext == ASSUME MaxFaults <= 1, Inv, [Next]_vars PROVE Inv'
<1>1. CASE Command
  BY <1>1, CheckInv, OpenInv, RequestInv, CloseInv, ReopenInv, SendInv, ReceiveInv, TimeOutInv, EndInv
     DEF Command
<1>2. CASE EntersBootloader \/ Takes \/ LosesRequest \/ LosesByte \/ Noise
  BY <1>2, EntersInv, TakesInv, LosesRequestInv, LosesByteInv, NoiseInv
<1>3. CASE UNCHANGED vars
  <2>1. UNCHANGED <<run, pc, await, offset, sector, port, result, toMcu, toHost, mcu, flash, faults>>
    BY <1>3
  <2>2. Unit' = Unit
    BY <2>1 DEF Unit
  <2>3. \A s \in Byte : Answered(s)' <=> Answered(s)
    BY <2>1, <2>2 DEF Answered
  <2>4. \A s \in Byte : Remains(s)' <=> Remains(s)
    BY <2>1 DEF Remains
  <2>5. Wire'
    BY <2>1, <2>2, <2>3, <2>4 DEF Inv, Wire, Quiet
  <2> QED
    BY <2>1, <2>5 DEF Inv, TypeOK, Purpose, Progress, CountedIsTaken, Port
<1> QED
  BY <1>1, <1>2, <1>3 DEF Next

\* With one byte of noise at most, whatever else is lost: what the host believes of the
\* bootloader is so, and what it does is on purpose.
THEOREM OnTheWire == MaxFaults <= 1 => (Spec => []WireSound)
<1>1. Inv => WireSound
  BY DEF Inv, WireSound, Progress, Purpose, Port, Committed, CompleteMeansStarted, ErasedOnPurpose,
         PortReleased
<1>2. ASSUME MaxFaults <= 1 PROVE Spec => []WireSound
  <2>1. Inv /\ [Next]_vars => Inv'
    BY <1>2, InvNext
  <2> QED
    BY <1>1, <2>1, InvInit, PTL DEF Spec
<1> QED
  BY <1>2

-----------------------------------------------------------------------------
(* Any noise. *)

\* What main has checked before it opens the port, and what follows from it alone.
Checks ==
  /\ run.action \in {"inspect", "validate", "identify", "flash"}
  /\ pc \notin {"check", "done"} =>
       run.action \in {"identify", "flash"} /\ (run.action = "flash" => run.complete /\ run.valid)
  /\ pc \in Committed \/ toMcu.kind \in Committed \/ flash # "old" =>
       run.action = "flash" /\ run.complete /\ run.valid
  /\ pc \in {"check", "open", "reopen", "done"} => port = Closed
  /\ await => pc \in Exchange

LEMMA ChecksReceive == Checks /\ Receive => Checks'
<1> SUFFICES ASSUME Checks, Receive PROVE Checks'
  OBVIOUS
<1>1. UNCHANGED <<run, port, toMcu, mcu, flash, faults>> /\ await' = FALSE /\ pc' \in {Onward, "end"}
  BY DEF Receive, Fail
<1>2. pc \in Exchange
  BY DEF Checks, Receive
<1>3. CASE pc' = "end"
  BY <1>1, <1>2, <1>3 DEF Checks, Exchange, Committed
<1>4. CASE pc' = Onward
  <2>1. pc' \in Committed => run.action = "flash" /\ run.complete /\ run.valid
    BY <1>2, <1>4, Leads DEF Checks, Exchange, Committed
  <2>2. pc' \notin {"check", "open", "reopen", "done"}
    BY <1>2, <1>4, Leads DEF Exchange
  <2> QED
    BY <1>1, <1>2, <2>1, <2>2 DEF Checks, Exchange
<1> QED
  BY <1>1, <1>3, <1>4

LEMMA ChecksNext == Checks /\ [Next]_vars => Checks'
<1> SUFFICES ASSUME Checks, [Next]_vars PROVE Checks'
  OBVIOUS
<1>1. CASE Check \/ Open \/ Request
  BY <1>1 DEF Checks, Committed, Exchange, Check, Open, Request
<1>2. CASE Close \/ Reopen \/ End
  BY <1>2 DEF Checks, Committed, Exchange, Close, Reopen, End, Fail
<1>3. CASE TimeOut
  BY <1>3 DEF Checks, Committed, Exchange, TimeOut, Fail
<1>4. CASE Send
  BY <1>4 DEF Checks, Committed, Send, Exchange, Fail
<1>5. CASE Receive
  BY <1>5, ChecksReceive
<1>6. CASE Takes
  BY <1>6 DEF Checks, Committed, Exchange, Takes
<1>7. CASE EntersBootloader \/ LosesRequest \/ LosesByte \/ Noise
  BY <1>7 DEF Checks, Committed, Exchange, EntersBootloader, LosesRequest, LosesByte, Noise
<1>8. CASE UNCHANGED vars
  BY <1>8 DEF Checks, Committed, Exchange
<1> QED
  BY <1>1, <1>2, <1>3, <1>4, <1>5, <1>6, <1>7, <1>8 DEF Next, Command

\* However much noise there is: only the command flash, with a complete policy and an image
\* that satisfies it, erases or writes, and a command that has ended has closed the port.
THEOREM OnlyFlashErases ==
  Spec => [](/\ flash # "old" => run.action = "flash" /\ run.complete /\ run.valid
             /\ PortReleased)
<1>1. Init => Checks
  BY DEF Init, Checks, Committed, Exchange
<1>2. Checks => /\ flash # "old" => run.action = "flash" /\ run.complete /\ run.valid
                /\ PortReleased
  BY DEF Checks, PortReleased
<1> QED
  BY <1>1, <1>2, ChecksNext, PTL DEF Spec
=============================================================================
