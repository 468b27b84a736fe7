--------------------------- MODULE OtaUpdateProofs ---------------------------
(* Proofs about OtaUpdate, for any callers, releases, bounds and crashes.    *)
EXTENDS OtaUpdateInv, TLAPS

\* Writing out the shapes of the data once.
LEMMA DataTypes ==
  /\ NoTxn \in Txn
  /\ NoActivation \in Activation
  /\ \A s \in Slots : Other(s) \in Slots /\ Other(s) # s /\ Other(Other(s)) = s
  /\ \A s, t \in Slots : t = s \/ t = Other(s)
  /\ \A t \in Txn : Target(t) \in Slots
  /\ \A a \in Activation : Target(a) \in Slots
  /\ \A t \in Txn : Handoff(t) \in Activation
BY DEF NoTxn, Txn, NoActivation, Activation, Slots, Other, Target, Handoff, Results, Packages,
       TxnStates

\* The initial state is well typed.
LEMMA TypeInit == Init => TypeOK
<1>1. SUFFICES ASSUME Init PROVE TypeOK
  OBVIOUS
<1>2. pending \in Txn /\ activation \in Activation
  BY <1>1, DataTypes DEF Init
<1>3. knownGood \in KnownGood
  BY <1>1 DEF Init, KnownGood, Results
<1>4. txn \in [Callers -> Txn] /\ pc \in [Callers -> Steps]
  BY <1>1, DataTypes DEF Init, Steps
<1>5. upper \in SUBSET Images
  BY <1>1 DEF Init, Bootable, Images
<1> QED
  BY <1>1, <1>2, <1>3, <1>4, <1>5 DEF Init, TypeOK, Packages, Results

USE DEF durable, system, local, outside, vars

\* An operation's own step.
LEMMA TypeProgress ==
  ASSUME TypeOK, Running, Operations, NEW c \in Callers, Begin(c) \/ Progress(c) \/ Abort(c)
  PROVE  TypeOK'
<1> USE DEF TypeOK
<1>f. Finish(c) => /\ lock' \in Callers \cup {"nobody"}
                   /\ pc' \in [Callers -> Steps]
                   /\ txn' \in [Callers -> Txn]
                   /\ manifest' \in [Callers -> Results]
                   /\ source' \in [Callers -> Packages \cup {"none"}]
  BY DataTypes DEF Finish, Goto, Steps, Results
<1>1. CASE Begin(c)
  <2>1. CASE BeginBackup(c)
    BY <2>1 DEF BeginBackup, Acquire, Goto, Preflight, Steps, Results
  <2>2. ASSUME NEW states, NEW step \in Steps, BeginBound(c, states, step) PROVE TypeOK'
    BY <2>2 DEF BeginBound, Acquire, Goto
  <2>3. CASE BeginReboot(c)
    BY <2>3 DEF BeginReboot, Acquire, Goto, Steps
  <2> QED
    BY <1>1, <2>1, <2>2, <2>3 DEF Begin, BeginConfirm, BeginWrite, BeginReadback, BeginPrepare, Steps
<1>2. CASE Progress(c)
  <2>1. CASE FinishBackup(c)
    <3>1. booted \in Slots
      BY <2>1 DEF FinishBackup, Running, Operations, Knows
    <3>2. pending' \in Txn
      BY <2>1, <3>1 DEF FinishBackup, Txn, Results, TxnStates
    <3>3. archives' \in BOOLEAN
      BY <2>1, Zenon DEF FinishBackup
    <3>4. /\ nextId' \in Nat /\ Finish(c)
          /\ UNCHANGED <<durable, system, file, edits, faults>>
      BY <2>1 DEF FinishBackup
    <3> QED
      BY <1>f, <3>2, <3>3, <3>4
  <2>2. ASSUME NEW t \in Txn, Publish(c, t) PROVE TypeOK'
    BY <2>2, <1>f DEF Publish
  <2>3. CASE Confirm(c)
    BY <2>3, <2>2 DEF Confirm, Txn, TxnStates
  <2>4. CASE ReadManifest(c)
    BY <2>4 DEF ReadManifest, Goto, Steps, Results
  <2>5. ASSUME NEW m \in Members, OpenMember(c, m) PROVE TypeOK'
    BY <2>5, DataTypes DEF OpenMember, Goto, Steps, Images
  <2>6. ASSUME NEW m \in Members, CopyMember(c, m) PROVE TypeOK'
    <3>1. slots' \in [Slots -> [Members -> Images]]
      BY <2>6, DataTypes DEF CopyMember, Images
    <3> QED
      BY <2>6, <1>f, <3>1 DEF CopyMember, Goto, Steps
  <2>7. CASE PublishWritten(c)
    BY <2>7, <2>2 DEF PublishWritten, Txn, TxnStates
  <2>8. ASSUME NEW m \in Members, ReadbackMember(c, m) PROVE TypeOK'
    BY <2>8 DEF ReadbackMember, Goto, Steps
  <2>9. CASE PublishReadback(c)
    BY <2>9, <2>2 DEF PublishReadback, Txn, TxnStates
  <2>10. CASE VerifyTargets(c)
    BY <2>10 DEF VerifyTargets, Goto, Steps
  <2>11. CASE EstablishRecord(c)
    BY <2>11, DataTypes DEF EstablishRecord, Goto, Steps
  <2>12. CASE EstablishMarker(c)
    BY <2>12, DataTypes DEF EstablishMarker, Goto, Steps
  <2>13. CASE SwitchSelector(c)
    BY <2>13 DEF SwitchSelector, Goto, Steps
  <2>14. CASE SyncSelector(c)
    BY <2>14, DataTypes DEF SyncSelector, Goto, Steps
  <2>15. CASE AdvanceRecord(c)
    BY <2>15 DEF AdvanceRecord, Goto, Steps, Activation
  <2>16. CASE PublishPrepared(c)
    BY <2>16, <2>2 DEF PublishPrepared, Txn, TxnStates
  <2>17. CASE RequestReboot(c)
    BY <2>17, <1>f DEF RequestReboot
  <2>18. CASE Refuse(c)
    BY <2>18, <1>f DEF Refuse
  <2> QED
    BY <1>2, <2>1, <2>3, <2>4, <2>5, <2>6, <2>7, <2>8, <2>9, <2>10, <2>11, <2>12, <2>13, <2>14,
       <2>15, <2>16, <2>17, <2>18 DEF Progress
<1>3. CASE Abort(c)
  BY <1>3, <1>f DEF Abort, Fault, CutShort
<1> QED
  BY <1>1, <1>2, <1>3

\* A step of the boot, a fault outside an operation, or the surroundings.
LEMMA TypeSystem ==
  ASSUME TypeOK, Running, StartUp \/ PowerLoss \/ DegradeRoot \/ AbortPostboot \/ Surroundings
  PROVE  TypeOK'
<1> USE DEF TypeOK
<1>1. GoDown /\ faults' \in Nat => TypeOK'
  <2> SUFFICES ASSUME GoDown, faults' \in Nat PROVE TypeOK'
    OBVIOUS
  <2>1. selector' \in Slots \cup {"unknown"}
    BY DEF GoDown, CutShort
  <2> QED
    BY <2>1, DataTypes DEF GoDown, VolatileReset, Steps, Results
<1>2. CASE Halt
  BY <1>2, <1>1 DEF Halt
<1>3. CASE PowerLoss
  BY <1>3, <1>1 DEF PowerLoss, Fault
<1>4. CASE Boot
  BY <1>4, UpdateAssumption DEF Boot, NextSlot
<1>5. CASE ResetOverlay
  BY <1>5 DEF ResetOverlay
<1>6. CASE RemoveMarker
  BY <1>6 DEF RemoveMarker
<1>7. CASE RefuseReset
  BY <1>7 DEF RefuseReset
<1>8. rootStatus # "off" => Written \in SUBSET Images
  BY DEF Written, Members, Running
<1>9. CASE ActivateRoot
  BY <1>9, <1>8 DEF ActivateRoot, ResetSettled
<1>10. CASE DegradeRoot
  BY <1>10, <1>8 DEF DegradeRoot, Fault
<1>11. CASE RecordKnownGood
  BY <1>11 DEF RecordKnownGood, PostbootValid, KnownGood, Activation, Target
<1>12. CASE RetireActivation
  BY <1>12, DataTypes DEF RetireActivation
<1>13. CASE SkipPostboot
  BY <1>13 DEF SkipPostboot
<1>14. CASE AbortPostboot
  BY <1>14 DEF AbortPostboot, Fault
<1>15. CASE ReplacePackage
  BY <1>15 DEF Edit, ReplacePackage
<1>16. CASE ToggleArchives
  BY <1>16 DEF Edit, ToggleArchives
<1>17. CASE ArmLegacyReset
  BY <1>17 DEF Edit, ArmLegacyReset
<1> QED
  BY <1>2, <1>3, <1>4, <1>5, <1>6, <1>7, <1>9, <1>10, <1>11, <1>12, <1>13, <1>14, <1>15, <1>16,
     <1>17 DEF StartUp, Surroundings

-----------------------------------------------------------------------------
(* The inductive invariant.                                                *)

\* What it means for a record to match a transaction, field by field.
LEMMA MatchesFields ==
  ASSUME NEW a \in Activation, NEW t \in Txn
  PROVE  Matches(a, t) <=> /\ a.id = t.id /\ a.version = t.version /\ a.digest = t.digest
                           /\ a.runtime = t.runtime
                           /\ a.written = t.written /\ a.readback = t.readback
BY DEF Matches, Handoff, Activation, Txn

\* The initial state satisfies the inductive invariant.
LEMMA InvInit == Init => IInv
<1> SUFFICES ASSUME Init PROVE IInv
  OBVIOUS
<1>1. TypeOK
  BY TypeInit
<1>2. Running /\ Recorded /\ Validating
  BY DEF Init, Running, Recorded, Validating, NoTxn
<1>3. Handover /\ HandoffBeforeSwitch
  BY DEF Init, Handover, HandoffBeforeSwitch, NoActivation
<1>4. Overlay
  BY DEF Init, Overlay, SysOfRunningRelease, NextSlot, Slots
<1>5. Operations
  BY DEF Init, Operations
<1> QED
  BY <1>1, <1>2, <1>3, <1>4, <1>5 DEF IInv, Consistent

\* At most one operation is past its lock.
LEMMA Alone ==
  ASSUME Operations, NEW c \in Callers, pc[c] # "idle" \/ lock = "nobody"
  PROVE  \A d \in Callers \ {c} : pc[d] = "idle"
BY UpdateAssumption DEF Operations, Knows

\* Consistent speaks of the durable and system state and the transaction.
LEMMA ConsistentFrame ==
  ASSUME Consistent, UNCHANGED <<durable, booted, rootStatus, s89, pending>>
  PROVE  Consistent'
<1>1. Bootable(booted)' = Bootable(booted) /\ Bootable(selector)' = Bootable(selector)
  BY DEF Bootable
<1>2. \A s : Bootable(s)' = Bootable(s)
  BY DEF Bootable
<1>3. NextSlot' = NextSlot
  BY DEF NextSlot
<1>4. HandoffIntact' = HandoffIntact /\ ResetDue' = ResetDue
  BY DEF HandoffIntact, Target, ResetDue, MarkersConflict
<1>5. Running' /\ Recorded' /\ Validating' /\ HandoffBeforeSwitch'
  BY <1>2, <1>3 DEF Consistent, Running, Recorded, Validating, HandoffBeforeSwitch, Target
<1>6. Handover'
  BY <1>2, <1>4 DEF Consistent, Handover, Matches, Handoff
<1>7. Overlay'
  BY <1>3, <1>4 DEF Consistent, Overlay, SysOfRunningRelease
<1> QED
  BY <1>5, <1>6, <1>7 DEF Consistent

\* An operation that ends leaves no operation behind.
LEMMA EndedOperations ==
  ASSUME TypeOK, Operations, NEW c \in Callers, pc[c] # "idle", Finish(c)
  PROVE  Operations' /\ \A d \in Callers : pc'[d] = "idle"
BY Alone DEF TypeOK, Finish, Goto, Operations

\* An operation that goes on only has to know its own next step.
LEMMA OwnOperation ==
  ASSUME TypeOK, Operations, NEW c \in Callers, pc[c] # "idle" \/ lock = "nobody",
         NEW step, Goto(c, step), Knows(c)'
  PROVE  Operations'
BY Alone DEF TypeOK, Goto, Operations

\* Taking the lock.
LEMMA InvBegin ==
  ASSUME IInv, NEW c \in Callers, Begin(c)
  PROVE  Consistent' /\ Operations'
<1> USE DEF IInv
<1>1. CASE BeginBackup(c)
  <2>1. Consistent'
    BY <1>1, ConsistentFrame DEF BeginBackup
  <2>2. Knows(c)'
    BY <1>1 DEF BeginBackup, Acquire, Goto, Preflight, NoTransactionOpen, Knows, TypeOK,
                WriteSteps, ReadbackSteps, PrepareSteps, HandedSteps
  <2> QED
    BY <1>1, <2>1, <2>2, OwnOperation DEF BeginBackup, Acquire
<1>2. ASSUME NEW states, NEW step, BeginBound(c, states, step),
             \/ states = {"awaiting-confirmation"} /\ step = "confirm"
             \/ states = {"confirmed"} /\ step = "write-manifest"
             \/ states = {"written-awaiting-readback"} /\ step = "readback-manifest"
             \/ states = {"readback-verified", "activation-prepared"} /\ step = "prepare-verify"
      PROVE  Consistent' /\ Operations'
  <2>1. Consistent'
    BY <1>2, ConsistentFrame DEF BeginBound
  <2>2. Knows(c)'
    BY <1>2 DEF BeginBound, Acquire, Goto, Bound, Preflight, Knows, TypeOK,
                WriteSteps, ReadbackSteps, PrepareSteps, HandedSteps
  <2> QED
    BY <1>2, <2>1, <2>2, OwnOperation DEF BeginBound, Acquire
<1>3. CASE BeginReboot(c)
  <2>1. Consistent'
    BY <1>3, ConsistentFrame DEF BeginReboot
  <2>2. Knows(c)'
    BY <1>3 DEF BeginReboot, Prepared, Acquire, Goto, Knows, TypeOK, Consistent, Running, Target,
                WriteSteps, ReadbackSteps, PrepareSteps, HandedSteps
  <2> QED
    BY <1>3, <2>1, <2>2, OwnOperation DEF BeginReboot, Acquire
<1> QED
  BY <1>1, <1>2, <1>3 DEF Begin, BeginConfirm, BeginWrite, BeginReadback, BeginPrepare

\* The steps that change nothing but the progress of the operation.
LEMMA InvLocalStep ==
  ASSUME IInv, NEW c \in Callers,
         \/ ReadManifest(c) \/ \E m \in Members : ReadbackMember(c, m)
         \/ VerifyTargets(c) \/ Refuse(c) \/ RequestReboot(c)
  PROVE  Consistent' /\ Operations'
<1> USE DEF IInv
<1>1. CASE ReadManifest(c)
  <2>1. Consistent'
    BY <1>1, ConsistentFrame DEF ReadManifest
  <2>2. Knows(c)'
    BY <1>1 DEF ReadManifest, Goto, Knows, Operations, TypeOK,
                WriteSteps, ReadbackSteps, PrepareSteps, HandedSteps
  <2> QED
    BY <1>1, <2>1, <2>2, OwnOperation DEF ReadManifest
<1>2. ASSUME NEW m \in Members, ReadbackMember(c, m) PROVE Consistent' /\ Operations'
  <2>1. Consistent'
    BY <1>2, ConsistentFrame DEF ReadbackMember
  <2>2. Knows(c)'
    BY <1>2 DEF ReadbackMember, Goto, Knows, Operations, TypeOK,
                WriteSteps, ReadbackSteps, PrepareSteps, HandedSteps
  <2> QED
    BY <1>2, <2>1, <2>2, OwnOperation DEF ReadbackMember
<1>3. CASE VerifyTargets(c)
  <2>1. Consistent'
    BY <1>3, ConsistentFrame DEF VerifyTargets
  <2>2. Knows(c)'
    BY <1>3 DEF VerifyTargets, TargetsVerified, Goto, Knows, Operations, TypeOK, Target,
                WriteSteps, ReadbackSteps, PrepareSteps, HandedSteps
  <2> QED
    BY <1>3, <2>1, <2>2, OwnOperation DEF VerifyTargets
<1>4. CASE Refuse(c)
  BY <1>4, ConsistentFrame, EndedOperations DEF Refuse, Refused
<1>5. CASE RequestReboot(c)
  BY <1>5, ConsistentFrame, EndedOperations DEF RequestReboot
<1> QED
  BY <1>1, <1>2, <1>3, <1>4, <1>5

\* Publishing a new state of the transaction.
LEMMA InvPublish ==
  ASSUME IInv, NEW c \in Callers,
         \/ FinishBackup(c) \/ Confirm(c) \/ PublishWritten(c) \/ PublishReadback(c)
         \/ PublishPrepared(c)
  PROVE  Consistent' /\ Operations'
<1> USE DEF IInv
<1>1. /\ pc[c] # "idle" /\ Finish(c) /\ Knows(c)
      /\ UNCHANGED <<durable, booted, rootStatus, s89>>
  BY DEF FinishBackup, Confirm, PublishWritten, PublishReadback, PublishPrepared, Publish,
         Operations
<1>2. Operations'
  BY <1>1, EndedOperations
<1>3. /\ booted # "off" /\ pending'.runtime = booted
      /\ pending'.state \in {"readback-verified", "activation-prepared"} =>
           pending'.written \in Releases /\ pending'.readback = pending'.written
  <2>1. booted # "off"
    BY <1>1 DEF Knows, Consistent, Running
  <2>2. CASE FinishBackup(c)
    BY <2>1, <2>2 DEF FinishBackup
  <2>3. CASE ~FinishBackup(c)
    <3>1. txn[c] = pending /\ pending.runtime = booted /\ pending \in Txn
      BY <1>1, <2>3 DEF Confirm, PublishWritten, PublishReadback, PublishPrepared, Knows,
             Consistent, Running, TypeOK, WriteSteps, ReadbackSteps, PrepareSteps, HandedSteps
    <3>2. CASE Confirm(c) \/ PublishWritten(c)
      BY <2>1, <3>1, <3>2 DEF Confirm, PublishWritten, Publish, Txn
    <3>3. CASE PublishReadback(c)
      BY <1>1, <2>1, <3>1, <3>3 DEF PublishReadback, Publish, Txn, Knows, ReadbackSteps
    <3>4. CASE PublishPrepared(c)
      BY <1>1, <2>1, <3>1, <3>4 DEF PublishPrepared, Publish, Txn, Knows, PrepareSteps,
             HandedSteps, Consistent, Recorded
    <3> QED
      BY <2>3, <3>2, <3>3, <3>4
  <2> QED
    BY <2>2, <2>3
<1>4. activation.state # "none" =>
        /\ pending'.state \in {"readback-verified", "activation-prepared"}
        /\ Matches(activation, pending')
  <2>1. activation.state # "none" => PublishPrepared(c)
    BY <1>1 DEF FinishBackup, Confirm, PublishWritten, PublishReadback, Publish, Knows,
           Consistent, Handover, NoTransactionOpen, WriteSteps, ReadbackSteps
  <2>2. ASSUME activation.state # "none", PublishPrepared(c)
        PROVE  /\ pending' = [pending EXCEPT !.state = "activation-prepared"]
               /\ Matches(activation, pending)
    BY <1>1, <2>2 DEF PublishPrepared, Publish, Knows, Consistent, Handover, PrepareSteps,
           HandedSteps
  <2> QED
    BY <2>1, <2>2 DEF TypeOK, Txn, Matches, Handoff
<1>5. Running' /\ Recorded'
  BY <1>1, <1>3 DEF Consistent, Running, Recorded, Knows, Bootable
<1>6. Handover'
  BY <1>1, <1>4 DEF Consistent, Handover, Bootable, HandoffIntact, Target, Matches, Handoff
<1>7. Validating' /\ Overlay' /\ HandoffBeforeSwitch'
  BY <1>1 DEF Consistent, Validating, Overlay, HandoffBeforeSwitch, NextSlot, ResetDue,
              MarkersConflict, SysOfRunningRelease, Target
<1> QED
  BY <1>2, <1>5, <1>6, <1>7 DEF Consistent

\* Writing to the target slot: no handoff is open and the selector names the
\* running slot.
LEMMA InvWrite ==
  ASSUME IInv, NEW c \in Callers, NEW m \in Members, OpenMember(c, m) \/ CopyMember(c, m)
  PROVE  Consistent' /\ Operations'
<1> USE DEF IInv
<1>1. pc[c] # "idle" /\ Knows(c) /\ pc[c] \in WriteSteps \ {"write-manifest"}
  BY DEF OpenMember, CopyMember, Operations, WriteSteps
<1>2. /\ pending.state = "confirmed" /\ txn[c] = pending /\ pending.runtime = booted
      /\ booted \in Slots /\ activation.state = "none" /\ selector = booted
  BY <1>1 DEF Knows, Consistent, Running, Handover, WriteSteps, TypeOK
<1>3. \A s \in Slots \ {Other(booted)} : slots'[s] = slots[s]
  BY <1>2, DataTypes DEF OpenMember, CopyMember, Target, TypeOK
<1>4. booted # Other(booted) /\ slots'[booted] = slots[booted] /\ NextSlot = booted
  BY <1>2, <1>3, DataTypes DEF NextSlot, Slots
<1>5. /\ UNCHANGED <<selector, activation, marker, legacy, knownGood, upper, booted, rootStatus,
                     s89, pending>>
  BY DEF OpenMember, CopyMember
<1>6. Running' /\ Recorded' /\ Handover' /\ Validating' /\ HandoffBeforeSwitch'
  BY <1>2, <1>4, <1>5 DEF Consistent, Running, Recorded, Handover, Validating,
     HandoffBeforeSwitch, Bootable, NextSlot, Target
<1>7. Overlay'
  BY <1>2, <1>4, <1>5 DEF Consistent, Overlay, SysOfRunningRelease, NextSlot, ResetDue,
     MarkersConflict
<1>8. Operations'
  <2>1. CASE Finish(c)
    BY <1>1, <2>1, EndedOperations
  <2>2. CASE ~Finish(c)
    <3>1. PICK step \in WriteSteps \ {"write-manifest"} :
             Goto(c, step) /\ UNCHANGED <<lock, txn, manifest>>
      BY <2>2 DEF OpenMember, CopyMember, WriteSteps
    <3>2. pc'[c] = step
      BY <3>1 DEF Goto, TypeOK
    <3>3. Knows(c)'
      BY <1>1, <1>2, <1>5, <3>1, <3>2 DEF Knows, WriteSteps, ReadbackSteps, PrepareSteps,
             HandedSteps
    <3> QED
      BY <1>1, <3>1, <3>3, OwnOperation
  <2> QED
    BY <2>1, <2>2
<1> QED
  BY <1>6, <1>7, <1>8 DEF Consistent

\* prepare-activation: the record.
LEMMA InvEstablishRecord ==
  ASSUME IInv, NEW c \in Callers, EstablishRecord(c)
  PROVE  Consistent' /\ Operations'
<1> USE DEF IInv
<1>1. /\ pc[c] = "prepare-record" /\ Knows(c) /\ txn[c] = pending
      /\ pending.state \in {"readback-verified", "activation-prepared"}
      /\ pending.runtime = booted /\ booted \in Slots /\ pending \in Txn
      /\ Bootable(booted)
      /\ pending.written \in Releases /\ pending.readback = pending.written
      /\ \A m \in Members : slots[Target(pending)][m] = pending.readback
  BY DEF EstablishRecord, Operations, Knows, PrepareSteps, HandedSteps, Consistent, Running,
         Recorded, TypeOK
<1>2. activation'.state # "none" /\ Matches(activation', pending)
  BY <1>1 DEF EstablishRecord, Handoff, Matches
<1>3. activation' \in Activation
  BY <1>1, DataTypes DEF EstablishRecord, TypeOK
<1>4. Target(activation') = Target(pending) /\ activation'.written = pending.written
      /\ activation'.readback = pending.readback
  BY <1>1, <1>2, <1>3, MatchesFields DEF Target
<1>5. \A s \in Slots : Bootable(s)
  BY <1>1, DataTypes DEF Bootable, Members, Target
<1>6. UNCHANGED <<slots, selector, marker, legacy, knownGood, upper, booted, rootStatus, s89,
                  pending, lock, txn, manifest>>
  BY DEF EstablishRecord
<1>7. Running' /\ Recorded' /\ Overlay'
  BY <1>6 DEF Consistent, Running, Recorded, Overlay, Bootable, NextSlot, ResetDue,
     MarkersConflict, SysOfRunningRelease
<1>8. Handover'
  <2>1. HandoffIntact'
    BY <1>1, <1>4, <1>6 DEF HandoffIntact
  <2>2. \A s \in Slots : Bootable(s)'
    BY <1>5, <1>6 DEF Bootable
  <2>3. Matches(activation, pending)'
    BY <1>2, <1>6 DEF Matches, Handoff
  <2> QED
    BY <1>1, <1>2, <1>6, <2>1, <2>2, <2>3 DEF Handover
<1>9. Validating' /\ HandoffBeforeSwitch'
  <2>1. CASE activation.state = "none"
    BY <1>1, <1>6, <2>1 DEF Consistent, Validating, Handover, HandoffBeforeSwitch, NextSlot
  <2>2. CASE activation.state # "none"
    BY <1>6, <2>2 DEF EstablishRecord, Consistent, Validating, HandoffBeforeSwitch, NextSlot,
       Target
  <2> QED
    BY <2>1, <2>2
<1>10. Knows(c)'
  BY <1>1, <1>2, <1>6 DEF EstablishRecord, Goto, Knows, TypeOK, WriteSteps, ReadbackSteps,
     PrepareSteps, HandedSteps
<1>11. Operations'
  BY <1>1, <1>10, OwnOperation DEF EstablishRecord
<1> QED
  BY <1>7, <1>8, <1>9, <1>11 DEF Consistent

\* What holds while prepare-activation is past the record.
LEMMA HandedFacts ==
  ASSUME IInv, NEW c \in Callers, pc[c] \in HandedSteps
  PROVE  /\ pc[c] # "idle" /\ Knows(c) /\ txn[c] = pending /\ pending \in Txn
         /\ pending.state \in {"readback-verified", "activation-prepared"}
         /\ rootStatus = "active" /\ booted \in Slots /\ pending.runtime = booted
         /\ activation.state # "none" /\ activation \in Activation
         /\ Target(activation) = Target(pending) /\ Target(pending) = Other(booted)
         /\ \A s \in Slots : Bootable(s)
         /\ upper = {slots[booted].rootfs}
         /\ s89 # "known-good"
         /\ Matches(activation, pending)
<1>1. /\ pc[c] # "idle" /\ Knows(c) /\ txn[c] = pending /\ pending \in Txn
      /\ pending.state \in {"readback-verified", "activation-prepared"}
      /\ rootStatus = "active" /\ activation.state # "none" /\ activation \in Activation
  BY DEF IInv, Operations, Knows, HandedSteps, PrepareSteps, TypeOK
<1>2. booted \in Slots /\ pending.runtime = booted
  BY <1>1 DEF IInv, Consistent, Running, TypeOK
<1>3. Matches(activation, pending) /\ \A s \in Slots : Bootable(s)
  BY <1>1 DEF IInv, Consistent, Handover
<1>4. activation.runtime = booted
  BY <1>1, <1>2, <1>3, MatchesFields
<1>5. s89 # "known-good"
  BY <1>1, <1>2, <1>4, DataTypes DEF IInv, Consistent, Validating, Target
<1>6. upper = {slots[booted].rootfs}
  BY <1>1 DEF IInv, Consistent, Overlay, SysOfRunningRelease
<1> QED
  BY <1>1, <1>2, <1>3, <1>4, <1>5, <1>6 DEF Target

\* prepare-activation: the marker.
LEMMA InvEstablishMarker ==
  ASSUME IInv, NEW c \in Callers, EstablishMarker(c)
  PROVE  Consistent' /\ Operations'
<1>1. pc[c] \in HandedSteps
  BY DEF EstablishMarker, HandedSteps
<1>2. UNCHANGED <<slots, selector, activation, legacy, knownGood, upper, booted, rootStatus,
                  s89, pending, lock, txn, manifest>>
  BY DEF EstablishMarker
<1>3. marker' = Target(pending) /\ rootStatus = "active" /\ ~legacy
      /\ marker \in {"none", Target(pending)}
  BY <1>1, HandedFacts DEF EstablishMarker, MarkerWritable
<1>4. Running' /\ Recorded' /\ Handover' /\ Validating'
  BY <1>2 DEF IInv, Consistent, Running, Recorded, Handover, Validating, Bootable,
     HandoffIntact, Target, Matches, Handoff
<1>5. HandoffBeforeSwitch'
  BY <1>1, <1>2, <1>3, HandedFacts DEF IInv, Consistent, HandoffBeforeSwitch, NextSlot, Target
<1>6. Overlay'
  <2>1. NextSlot' = NextSlot /\ NextSlot \in Slots
    BY <1>2, UpdateAssumption DEF NextSlot, IInv, TypeOK
  <2> QED
    BY <1>2, <1>3, <2>1 DEF IInv, Consistent, Overlay, SysOfRunningRelease, Slots
<1>7. Knows(c)'
  <2>1. pc'[c] = "prepare-selector"
    BY DEF EstablishMarker, Goto, IInv, TypeOK
  <2>2. Target(pending)' = Target(pending)
    BY <1>2 DEF Target
  <2> QED
    BY <1>1, <1>2, <1>3, <2>1, <2>2, HandedFacts DEF Knows, WriteSteps, ReadbackSteps,
       PrepareSteps, HandedSteps
<1>8. Operations'
  BY <1>1, <1>7, HandedFacts, OwnOperation DEF EstablishMarker, IInv
<1> QED
  BY <1>4, <1>5, <1>6, <1>8 DEF Consistent

\* The selector may take any value once the record and the marker are there.
LEMMA InvSelector ==
  ASSUME IInv, NEW c \in Callers, pc[c] \in HandedSteps \ {"prepare-marker"},
         selector' \in Slots \cup {"unknown"},
         UNCHANGED <<slots, activation, marker, legacy, knownGood, upper, booted, rootStatus,
                     s89, pending>>
  PROVE  Consistent'
<1>1. pc[c] \in HandedSteps /\ marker = Target(pending)
  BY HandedFacts DEF Knows
<1>2. NextSlot' \in Slots
  BY UpdateAssumption DEF NextSlot
<1>3. NextSlot' = booted \/ NextSlot' = Target(pending)
  BY <1>1, <1>2, HandedFacts, DataTypes
<1>4. Running' /\ Recorded' /\ Handover' /\ Validating'
  BY <1>1, HandedFacts DEF IInv, Consistent, Running, Recorded, Handover, Validating,
     Bootable, HandoffIntact, Target, Matches, Handoff
<1>5. HandoffBeforeSwitch'
  BY <1>1, <1>3, HandedFacts DEF HandoffBeforeSwitch, Target
<1>6. Overlay'
  BY <1>1, <1>3, HandedFacts DEF Overlay, SysOfRunningRelease
<1> QED
  BY <1>4, <1>5, <1>6 DEF Consistent

\* prepare-activation: the selector and the advance of the record.
LEMMA InvSwitch ==
  ASSUME IInv, NEW c \in Callers, SwitchSelector(c) \/ SyncSelector(c) \/ AdvanceRecord(c)
  PROVE  Consistent' /\ Operations'
<1>1. pc[c] \in HandedSteps \ {"prepare-marker"}
  BY DEF SwitchSelector, SyncSelector, AdvanceRecord, HandedSteps
<1>2. CASE SwitchSelector(c) \/ SyncSelector(c)
  <2>1. selector' \in Slots \cup {"unknown"}
    BY <1>1, <1>2, HandedFacts, DataTypes DEF SwitchSelector, SyncSelector, IInv, TypeOK
  <2>2. Consistent'
    BY <1>1, <1>2, <2>1, InvSelector DEF SwitchSelector, SyncSelector
  <2>3. Knows(c)'
    BY <1>1, <1>2, HandedFacts DEF SwitchSelector, SyncSelector, Goto, Knows, IInv, TypeOK,
       Target, WriteSteps, ReadbackSteps, PrepareSteps, HandedSteps
  <2>4. Operations'
    BY <1>1, <1>2, <2>3, HandedFacts, OwnOperation DEF SwitchSelector, SyncSelector, IInv
  <2> QED
    BY <2>2, <2>4
<1>3. CASE AdvanceRecord(c)
  <2>1. /\ activation' = [activation EXCEPT !.state = "activation-prepared"]
        /\ UNCHANGED <<slots, selector, marker, legacy, knownGood, upper, booted, rootStatus,
                       s89, pending, lock, txn, manifest>>
    BY <1>3 DEF AdvanceRecord
  <2>2. activation' \in Activation /\ activation'.state = "activation-prepared"
        /\ activation'.runtime = activation.runtime /\ activation'.id = activation.id
        /\ activation'.written = activation.written
        /\ activation'.readback = activation.readback
    BY <1>1, <2>1, HandedFacts DEF Activation
  <2>3. Matches(activation', pending)
    BY <1>1, <2>1, HandedFacts DEF Matches, Activation
  <2>4. Running' /\ Recorded' /\ Overlay' /\ Validating' /\ HandoffBeforeSwitch'
    BY <1>1, <2>1, <2>2, HandedFacts DEF IInv, Consistent, Running, Recorded, Overlay,
       Validating, HandoffBeforeSwitch, Bootable, NextSlot, ResetDue, MarkersConflict,
       SysOfRunningRelease, Target
  <2>5. Handover'
    <3>1. HandoffIntact'
      BY <1>1, <2>1, <2>2, HandedFacts DEF IInv, Consistent, Handover, HandoffIntact, Target
    <3>2. Matches(activation, pending)' /\ \A s \in Slots : Bootable(s)'
      BY <1>1, <2>1, <2>3, HandedFacts DEF Matches, Handoff, Bootable
    <3> QED
      BY <1>1, <2>1, <2>2, <3>1, <3>2, HandedFacts DEF Handover
  <2>6. Knows(c)'
    BY <1>1, <1>3, <2>1, <2>2, HandedFacts DEF AdvanceRecord, Goto, Knows, IInv, TypeOK,
       Target, WriteSteps, ReadbackSteps, PrepareSteps, HandedSteps
  <2>7. Operations'
    BY <1>1, <1>3, <2>6, HandedFacts, OwnOperation DEF AdvanceRecord, IInv
  <2> QED
    BY <2>4, <2>5, <2>7 DEF Consistent
<1> QED
  BY <1>2, <1>3

\* An operation cut short.
LEMMA InvAbort ==
  ASSUME IInv, NEW c \in Callers, Abort(c)
  PROVE  Consistent' /\ Operations'
<1>1. Operations'
  BY EndedOperations DEF Abort, IInv
<1>2. CASE UNCHANGED selector
  BY <1>1, <1>2, ConsistentFrame DEF Abort, IInv
<1>3. CASE pc[c] = "sync-selector" /\ selector' \in Slots
  BY <1>1, <1>3, InvSelector DEF Abort, HandedSteps
<1> QED
  BY <1>2, <1>3 DEF Abort, CutShort

-----------------------------------------------------------------------------
(* Steps outside the operations.                                           *)

\* No operation is in progress until the writable root is active.
LEMMA NoOperation ==
  ASSUME IInv, rootStatus # "active"
  PROVE  pending.state = "none" /\ \A c \in Callers : pc[c] = "idle"
BY DEF IInv, Consistent, Running, Operations, Knows

\* What operations know concerns only these variables.
LEMMA OperationsFrame ==
  ASSUME Operations, UNCHANGED <<slots, activation, marker, rootStatus, pending, lock, pc, txn,
                                 manifest>>
  PROVE  Operations'
BY DEF Operations, Knows, NoTransactionOpen, Target

\* Going down, in the middle of any operation: the volatile state is reset and a
\* selector write in flight lands, or does not, or lands in part.
LEMMA InvGoDown ==
  ASSUME IInv, GoDown
  PROVE  Consistent' /\ Operations'
<1>1. Operations'
  BY DEF GoDown, VolatileReset, Operations
<1>2. PICK c \in Callers : CutShort(c)
  BY DEF GoDown
<1>3. /\ UNCHANGED <<slots, activation, marker, legacy, knownGood, upper>>
      /\ pending' = NoTxn /\ booted' = "off" /\ rootStatus' = "off" /\ s89' = "pending"
  BY DEF GoDown, VolatileReset
<1>4. Running' /\ Recorded' /\ Validating' /\ HandoffBeforeSwitch'
  BY <1>3 DEF Running, Recorded, Validating, HandoffBeforeSwitch, NoTxn
<1>5. CASE UNCHANGED selector
  <2>1. Handover'
    BY <1>3, <1>5 DEF IInv, Consistent, Handover, NoTxn, Bootable, HandoffIntact, Target
  <2>2. Overlay'
    BY <1>3, <1>5 DEF IInv, Consistent, Overlay, NextSlot, SysOfRunningRelease
  <2> QED
    BY <1>1, <1>4, <2>1, <2>2 DEF Consistent
<1>6. CASE pc[c] = "sync-selector" /\ selector' \in Slots
  <2>1. pc[c] \in HandedSteps /\ marker = Target(pending)
    BY <1>6, HandedFacts DEF HandedSteps, Knows
  <2>2. NextSlot' = booted \/ NextSlot' = marker
    BY <1>6, <2>1, HandedFacts, DataTypes DEF NextSlot, Slots
  <2>3. Handover'
    BY <1>3, <2>1, HandedFacts DEF IInv, Consistent, Handover, NoTxn, Bootable, HandoffIntact,
       Target
  <2>4. Overlay'
    BY <1>3, <2>1, <2>2, HandedFacts DEF Overlay, SysOfRunningRelease
  <2> QED
    BY <1>1, <1>4, <2>3, <2>4 DEF Consistent
<1> QED
  BY <1>2, <1>5, <1>6 DEF CutShort

\* The bootloader starts the next slot.
LEMMA InvBoot ==
  ASSUME IInv, Boot
  PROVE  Consistent' /\ Operations'
<1>1. /\ pending.state = "none" /\ s89 # "known-good" /\ booted = "off"
      /\ \A c \in Callers : pc[c] = "idle"
  BY NoOperation DEF Boot, IInv, Consistent, Running, Validating
<1>2. Operations'
  BY <1>1 DEF Boot, Operations
<1>3. /\ booted' = NextSlot /\ Bootable(NextSlot) /\ rootStatus' = "booting"
      /\ UNCHANGED <<slots, selector, activation, marker, legacy, knownGood, upper, s89, pending>>
      /\ NextSlot \in Slots
  BY UpdateAssumption DEF Boot, NextSlot, IInv, TypeOK
<1>4. NextSlot' = NextSlot
  BY <1>3 DEF NextSlot
<1>5. Running' /\ Recorded' /\ Validating' /\ HandoffBeforeSwitch'
  BY <1>1, <1>3, <1>4 DEF Running, Recorded, Validating, HandoffBeforeSwitch, Bootable, Slots
<1>6. Handover'
  <2>1. CASE activation.state = "none"
    BY <1>3, <2>1 DEF IInv, Consistent, Handover, Bootable, NextSlot, Slots
  <2>2. CASE activation.state # "none"
    BY <1>1, <1>3, <2>2 DEF IInv, Consistent, Handover, Bootable, HandoffIntact, Target
  <2> QED
    BY <2>1, <2>2
<1>7. Overlay'
  BY <1>3, <1>4 DEF IInv, Consistent, Overlay, SysOfRunningRelease
<1> QED
  BY <1>2, <1>5, <1>6, <1>7 DEF Consistent

\* The steps of fre3nder-root.
LEMMA InvRoot ==
  ASSUME IInv, ResetOverlay \/ RemoveMarker \/ ActivateRoot \/ RefuseReset \/ DegradeRoot
  PROVE  Consistent' /\ Operations'
<1>1. rootStatus \in {"booting", "reset", "clean"}
  BY DEF ResetOverlay, RemoveMarker, ActivateRoot, ResetSettled, RefuseReset, DegradeRoot
<1>2. /\ pending.state = "none" /\ \A c \in Callers : pc[c] = "idle"
      /\ booted = NextSlot /\ booted \in Slots
  BY <1>1, NoOperation DEF IInv, Consistent, Running, Overlay, TypeOK
<1>3. /\ UNCHANGED <<slots, selector, activation, knownGood, booted, s89, pending, pc>>
      /\ rootStatus' \in {"reset", "clean", "active", "degraded"}
  BY DEF ResetOverlay, RemoveMarker, ActivateRoot, RefuseReset, DegradeRoot
<1>4. NextSlot' = NextSlot
  BY <1>3 DEF NextSlot
<1>5. Operations'
  BY <1>2, <1>3 DEF Operations
<1>6. Running' /\ Recorded' /\ Validating' /\ HandoffBeforeSwitch'
  BY <1>1, <1>2, <1>3, <1>4 DEF IInv, Consistent, Running, Recorded, Validating,
     HandoffBeforeSwitch, Bootable, Target
<1>7. Handover'
  BY <1>2, <1>3 DEF IInv, Consistent, Handover, Bootable, HandoffIntact, Target
<1>8. Overlay'
  <2>1. CASE ResetOverlay
    BY <1>2, <1>4, <2>1 DEF ResetOverlay, IInv, Consistent, Overlay, ResetDue, MarkersConflict,
       SysOfRunningRelease
  <2>2. CASE RemoveMarker
    BY <1>2, <1>4, <2>2 DEF RemoveMarker, IInv, Consistent, Overlay, SysOfRunningRelease
  <2>3. ResetSettled => Written = {slots[booted].rootfs}
    BY <1>2 DEF ResetSettled, ResetDue, MarkersConflict, Written, IInv, Consistent, Overlay
  <2>4. CASE ActivateRoot
    BY <1>2, <1>3, <1>4, <2>3, <2>4 DEF ActivateRoot, Overlay, SysOfRunningRelease
  <2>5. CASE RefuseReset
    BY <1>2, <1>3, <1>4, <2>5 DEF RefuseReset, IInv, Consistent, Overlay, SysOfRunningRelease
  <2>6. CASE DegradeRoot
    BY <1>2, <1>3, <1>4, <2>3, <2>6 DEF DegradeRoot, IInv, Consistent, Overlay,
       SysOfRunningRelease
  <2> QED
    BY <2>1, <2>2, <2>4, <2>5, <2>6
<1> QED
  BY <1>5, <1>6, <1>7, <1>8 DEF Consistent

\* The post-boot validation.
LEMMA InvPostboot ==
  ASSUME IInv, RecordKnownGood \/ RetireActivation \/ SkipPostboot \/ AbortPostboot
  PROVE  Consistent' /\ Operations'
<1>1. /\ UNCHANGED <<slots, selector, marker, legacy, upper, booted, rootStatus, pending, lock,
                     pc, txn, manifest>>
      /\ NextSlot' = NextSlot
  BY DEF RecordKnownGood, RetireActivation, SkipPostboot, AbortPostboot, NextSlot
<1>2. Running' /\ Recorded' /\ Overlay'
  BY <1>1 DEF IInv, Consistent, Running, Recorded, Overlay, Bootable, ResetDue,
     MarkersConflict, SysOfRunningRelease
<1>3. CASE UNCHANGED activation
  <2>1. Operations'
    BY <1>1, <1>3, OperationsFrame DEF IInv
  <2>2. Handover' /\ HandoffBeforeSwitch'
    BY <1>1, <1>3 DEF IInv, Consistent, Handover, HandoffBeforeSwitch, Bootable, HandoffIntact,
       Target, Matches, Handoff
  <2>3. Validating'
    BY <1>1, <1>3 DEF RecordKnownGood, RetireActivation, PostbootValid, SkipPostboot,
       AbortPostboot, Validating, Target, TypeOK, IInv, KnownGood, Slots
  <2> QED
    BY <1>2, <2>1, <2>2, <2>3 DEF Consistent
<1>4. CASE RetireActivation
  <2>1. /\ s89 = "known-good" /\ booted \in Slots /\ selector = booted /\ Bootable(booted)
        /\ activation.state # "none" /\ booted = Target(activation)
        /\ activation \in Activation /\ pending \in Txn
    BY <1>4 DEF RetireActivation, IInv, Consistent, Validating, Running, TypeOK
  <2>2. pending.state = "none"
    <3> SUFFICES ASSUME pending.state # "none" PROVE FALSE
      OBVIOUS
    <3>1. pending.runtime = booted /\ pending.runtime = activation.runtime
      BY <2>1, MatchesFields DEF IInv, Consistent, Running, Handover
    <3> QED
      BY <2>1, <3>1, DataTypes DEF Target
  <2>3. activation'.state = "none" /\ s89' = "done"
    BY <1>4 DEF RetireActivation, NoActivation
  <2>4. Handover' /\ HandoffBeforeSwitch' /\ Validating'
    BY <1>1, <2>1, <2>3 DEF Handover, HandoffBeforeSwitch, Validating, NextSlot, Slots, Bootable
  <2>5. \A c \in Callers : pc[c] = "idle"
    BY <2>1, <2>2 DEF IInv, Operations, Knows, NoTransactionOpen, TypeOK, Steps, WriteSteps,
       ReadbackSteps, PrepareSteps, HandedSteps
  <2>6. Operations'
    BY <1>1, <2>5 DEF Operations
  <2> QED
    BY <1>2, <2>4, <2>6 DEF Consistent
<1> QED
  BY <1>3, <1>4 DEF RecordKnownGood, SkipPostboot, AbortPostboot

\* What the surroundings change is nothing the invariant relies on.
LEMMA InvSurroundings ==
  ASSUME IInv, Surroundings
  PROVE  Consistent' /\ Operations'
<1>1. CASE ReplacePackage \/ ToggleArchives
  BY <1>1, ConsistentFrame, OperationsFrame DEF ReplacePackage, ToggleArchives, IInv
<1>2. CASE ArmLegacyReset
  <2>1. /\ UNCHANGED <<slots, selector, activation, marker, knownGood, upper, booted,
                       rootStatus, s89, pending, lock, pc, txn, manifest>>
        /\ rootStatus = "active"
    BY <1>2 DEF ArmLegacyReset
  <2>2. Operations'
    BY <2>1, OperationsFrame DEF IInv
  <2>3. NextSlot' = NextSlot
    BY <2>1 DEF NextSlot
  <2>4. Running' /\ Recorded' /\ Handover' /\ Validating' /\ HandoffBeforeSwitch'
    BY <2>1, <2>3 DEF IInv, Consistent, Running, Recorded, Handover, Validating,
       HandoffBeforeSwitch, Bootable, HandoffIntact, Target, Matches, Handoff
  <2>5. Overlay'
    BY <1>2, <2>1, <2>3 DEF ArmLegacyReset, IInv, Consistent, Overlay, SysOfRunningRelease
  <2> QED
    BY <2>2, <2>4, <2>5 DEF Consistent
<1> QED
  BY <1>1, <1>2 DEF Surroundings

\* Stuttering.
LEMMA InvStutter == IInv /\ UNCHANGED vars => IInv'
<1> SUFFICES ASSUME IInv, UNCHANGED vars PROVE IInv'
  OBVIOUS
<1>1. TypeOK'
  BY DEF IInv, TypeOK
<1>2. Consistent' /\ Operations'
  BY ConsistentFrame, OperationsFrame DEF IInv
<1> QED
  BY <1>1, <1>2 DEF IInv

\* Every step of ota-core, of the boot and of the surroundings keeps the
\* inductive invariant.
LEMMA InvNext == IInv /\ [Next]_vars => IInv'
<1> SUFFICES ASSUME IInv, Next PROVE IInv'
  BY InvStutter
<1>1. ASSUME NEW c \in Callers, Begin(c) \/ Progress(c) \/ Abort(c) PROVE IInv'
  <2>1. TypeOK'
    BY <1>1, TypeProgress DEF IInv, Consistent
  <2>2. Consistent' /\ Operations'
    BY <1>1, InvBegin, InvAbort, InvLocalStep, InvPublish, InvWrite, InvEstablishRecord,
       InvEstablishMarker, InvSwitch DEF Progress
  <2> QED
    BY <2>1, <2>2 DEF IInv
<1>2. CASE StartUp \/ PowerLoss \/ DegradeRoot \/ AbortPostboot \/ Surroundings
  <2>1. TypeOK'
    BY <1>2, TypeSystem DEF IInv, Consistent
  <2>2. Consistent' /\ Operations'
    BY <1>2, InvGoDown, InvBoot, InvRoot, InvPostboot, InvSurroundings
       DEF StartUp, Halt, PowerLoss
  <2> QED
    BY <2>1, <2>2 DEF IInv
<1> QED
  BY <1>1, <1>2 DEF Next

\* What each operation knows while it holds write.lock, and what the record, the
\* marker, the selector and the overlay say of each other, holds in every
\* reachable state.
THEOREM Inductive == Spec => []IInv
BY InvInit, InvNext, PTL DEF Spec

-----------------------------------------------------------------------------
(* Safety.                                                                 *)

\* The files, the slots and the operations of the update keep their shape.
THEOREM TypeCorrect == Spec => []TypeOK
<1>1. IInv => TypeOK
  BY DEF IInv
<1> QED
  BY <1>1, Inductive, PTL

\* The printer can be started at every moment: the slot that the bootloader
\* takes next holds a whole release.
LEMMA NextIsBootable == IInv => NextSlot \in Slots /\ BootSafe
BY UpdateAssumption DEF IInv, TypeOK, Consistent, Handover, BootSafe, NextSlot, Slots

\* Whenever the power goes, in the middle of a payload copy, of the selector write
\* or between any two durable steps, the next slot holds a whole release.
THEOREM AlwaysBootable == Spec => []BootSafe
BY NextIsBootable, Inductive, PTL

\* From write_activation_record until complete_activation_record nothing, no other
\* caller, no restart and no exchanged package, changes a byte of the target slot.
THEOREM HandoffStaysIntact == Spec => []HandoffIntact
<1>1. IInv => HandoffIntact
  BY DEF IInv, Consistent, Handover, HandoffIntact
<1> QED
  BY <1>1, Inductive, PTL

\* prepare_activation_response: the selector leaves the running slot, even for the
\* instant of its own write, only behind a durable record and reset marker.
THEOREM HandoffPrecedesSwitch == Spec => []HandoffBeforeSwitch
<1>1. IInv => HandoffBeforeSwitch
  BY DEF IInv, Consistent
<1> QED
  BY <1>1, Inductive, PTL

\* handle_reset: a writable root is never a release on the overlay of another one,
\* wherever prepare-activation, the reset or the boot were cut short.
THEOREM OverlayOfRelease == Spec => []SysOfRunningRelease
<1>1. IInv => SysOfRunningRelease
  BY DEF IInv, Consistent, Overlay
<1> QED
  BY <1>1, Inductive, PTL

\* ensure_new_transaction_available: after a reboot no second update is started
\* while the handoff of the first exists.
THEOREM SingleUpdate == Spec => []OneUpdate
<1>1. IInv => OneUpdate
  BY MatchesFields DEF IInv, TypeOK, Consistent, Handover, OneUpdate
<1> QED
  BY <1>1, Inductive, PTL

\* write_payload_member never writes to the slot that the printer runs from.
THEOREM RunningSlotSafe == Spec => RunningSlotUntouched
<1>1. IInv /\ [Next]_vars => [booted # "off" => slots'[booted] = slots[booted]]_vars
  <2> SUFFICES ASSUME IInv, Next, booted # "off", slots' # slots
               PROVE  slots'[booted] = slots[booted]
    OBVIOUS
  <2>1. PICK c \in Callers, m \in Members : OpenMember(c, m) \/ CopyMember(c, m)
    BY DEF Next, Begin, BeginBackup, BeginConfirm, BeginWrite, BeginReadback, BeginPrepare,
       BeginBound, BeginReboot, Progress, FinishBackup, Confirm, ReadManifest, PublishWritten,
       ReadbackMember, PublishReadback, VerifyTargets, EstablishRecord, EstablishMarker,
       SwitchSelector, SyncSelector, AdvanceRecord, PublishPrepared, Publish, RequestReboot,
       Refuse, Abort, StartUp, Halt, GoDown, Boot, ResetOverlay, RemoveMarker, RefuseReset,
       ActivateRoot, RecordKnownGood, RetireActivation, SkipPostboot, PowerLoss, DegradeRoot,
       AbortPostboot, Surroundings, ReplacePackage, ToggleArchives, ArmLegacyReset
  <2>2. pc[c] \in WriteSteps \ {"write-manifest"}
    BY <2>1 DEF OpenMember, CopyMember, WriteSteps
  <2>3. txn[c] = pending /\ pending.runtime = booted /\ booted \in Slots
    BY <2>2 DEF WriteSteps, IInv, Operations, Knows, Consistent, Running, TypeOK
  <2> QED
    BY <2>1, <2>3, DataTypes DEF OpenMember, CopyMember, Target, IInv, TypeOK
<1> QED
  BY <1>1, Inductive, PTL DEF Spec, RunningSlotUntouched

\* What each step leaves alone, so that a property of one variable needs only
\* the steps that change it.
LEMMA WhoChanges ==
  ASSUME Next
  PROVE  /\ knownGood' # knownGood => RecordKnownGood
         /\ activation' # activation =>
              RetireActivation \/ \E c \in Callers : EstablishRecord(c) \/ AdvanceRecord(c)
         /\ pending' # pending =>
              \/ booted' = "off"
              \/ \E c \in Callers : \/ FinishBackup(c) \/ Confirm(c) \/ PublishWritten(c)
                                    \/ PublishReadback(c) \/ PublishPrepared(c)
<1>1. ASSUME NEW c \in Callers, Begin(c) \/ Progress(c) \/ Abort(c)
      PROVE  /\ UNCHANGED knownGood
             /\ UNCHANGED activation \/ EstablishRecord(c) \/ AdvanceRecord(c)
             /\ \/ UNCHANGED pending
                \/ FinishBackup(c) \/ Confirm(c) \/ PublishWritten(c)
                \/ PublishReadback(c) \/ PublishPrepared(c)
  <2>1. CASE Begin(c) \/ Abort(c)
    BY <2>1 DEF Begin, BeginBackup, BeginConfirm, BeginWrite, BeginReadback, BeginPrepare,
       BeginBound, BeginReboot, Abort
  <2>2. CASE \/ FinishBackup(c) \/ Confirm(c) \/ PublishWritten(c)
             \/ PublishReadback(c) \/ PublishPrepared(c)
    BY <2>2 DEF FinishBackup, Confirm, PublishWritten, PublishReadback, PublishPrepared, Publish
  <2>3. CASE EstablishRecord(c) \/ AdvanceRecord(c)
    BY <2>3 DEF EstablishRecord, AdvanceRecord
  <2>4. CASE \/ ReadManifest(c) \/ \E m \in Members : OpenMember(c, m) \/ CopyMember(c, m)
             \/ \E m \in Members : ReadbackMember(c, m)
             \/ VerifyTargets(c) \/ EstablishMarker(c) \/ SwitchSelector(c) \/ SyncSelector(c)
             \/ RequestReboot(c) \/ Refuse(c)
    BY <2>4 DEF ReadManifest, OpenMember, CopyMember, ReadbackMember, VerifyTargets,
       EstablishMarker, SwitchSelector, SyncSelector, RequestReboot, Refuse
  <2> QED
    BY <1>1, <2>1, <2>2, <2>3, <2>4 DEF Progress
<1>2. CASE StartUp \/ PowerLoss \/ DegradeRoot \/ AbortPostboot \/ Surroundings
  BY <1>2 DEF StartUp, Halt, GoDown, Boot, ResetOverlay, RemoveMarker, RefuseReset,
     ActivateRoot, RecordKnownGood, RetireActivation, SkipPostboot, PowerLoss, DegradeRoot,
     AbortPostboot, Surroundings, ReplacePackage, ToggleArchives, ArmLegacyReset
<1> QED
  BY <1>1, <1>2 DEF Next

\* postboot_response: a known-good record is written only by the release it names,
\* running from a whole selected slot on its own overlay.
THEOREM KnownGoodSound == Spec => KnownGoodProved
<1>1. IInv /\ [Next]_vars =>
        [knownGood' # knownGood =>
           /\ knownGood'.slot = booted /\ selector = booted
           /\ \A m \in Members : slots[booted][m] = knownGood'.version
           /\ upper = {knownGood'.version} /\ marker = "none"]_vars
  <2> SUFFICES ASSUME IInv, Next, knownGood' # knownGood
               PROVE  /\ knownGood'.slot = booted /\ selector = booted
                      /\ \A m \in Members : slots[booted][m] = knownGood'.version
                      /\ upper = {knownGood'.version} /\ marker = "none"
    OBVIOUS
  <2>1. RecordKnownGood
    BY WhoChanges
  <2>2. /\ knownGood'.slot = booted /\ knownGood'.version = slots[booted].rootfs
        /\ selector = booted /\ marker = "none" /\ rootStatus = "active" /\ booted # "off"
    BY <2>1 DEF RecordKnownGood, PostbootValid, IInv, Consistent, Running
  <2> QED
    BY <2>2 DEF IInv, Consistent, Running, Overlay, SysOfRunningRelease, Bootable, Members
<1> QED
  BY <1>1, Inductive, PTL DEF Spec, KnownGoodProved

\* complete_activation_record: a handoff is removed only after the known-good
\* record of the same update was written, also when S89 fails in between.
THEOREM HandoffRetained == Spec => HandoffKept
<1>1. IInv /\ [Next]_vars =>
        [activation.state # "none" /\ activation'.state = "none" =>
           knownGood.id = activation.id]_vars
  <2> SUFFICES ASSUME IInv, Next, activation.state # "none", activation'.state = "none"
               PROVE  knownGood.id = activation.id
    OBVIOUS
  <2>1. RetireActivation
    BY WhoChanges DEF EstablishRecord, AdvanceRecord, IInv, TypeOK, Activation
  <2> QED
    BY <2>1 DEF RetireActivation, IInv, Consistent, Validating
<1> QED
  BY <1>1, Inductive, PTL DEF Spec, HandoffKept

\* transaction_operation: whichever callers operate on it, a transaction is never
\* replaced and advances one phase at a time.
THEOREM TransactionMonotone == Spec => TransactionAdvances
<1>1. IInv /\ [Next]_vars =>
        [booted' # "off" /\ pending' # pending =>
           /\ Rank(pending'.state) = Rank(pending.state) + 1
           /\ pending.state # "none" => pending'.id = pending.id]_vars
  <2> SUFFICES ASSUME IInv, Next, booted' # "off", pending' # pending
               PROVE  /\ Rank(pending'.state) = Rank(pending.state) + 1
                      /\ pending.state # "none" => pending'.id = pending.id
    OBVIOUS
  <2>1. PICK c \in Callers : \/ FinishBackup(c) \/ Confirm(c) \/ PublishWritten(c)
                             \/ PublishReadback(c) \/ PublishPrepared(c)
    BY WhoChanges
  <2>2. Knows(c) /\ pc[c] # "idle"
    BY <2>1 DEF IInv, Operations, FinishBackup, Confirm, PublishWritten, PublishReadback,
       PublishPrepared
  <2>3. pending \in Txn
    BY DEF IInv, TypeOK
  <2>4. CASE FinishBackup(c)
    BY <2>2, <2>4 DEF FinishBackup, Knows, NoTransactionOpen, Rank
  <2>5. CASE Confirm(c)
    BY <2>2, <2>3, <2>5 DEF Confirm, Publish, Knows, Rank, Txn
  <2>6. CASE PublishWritten(c)
    BY <2>2, <2>3, <2>6 DEF PublishWritten, Publish, Knows, Rank, Txn, WriteSteps
  <2>7. CASE PublishReadback(c)
    BY <2>2, <2>3, <2>7 DEF PublishReadback, Publish, Knows, Rank, Txn, ReadbackSteps
  <2>8. CASE PublishPrepared(c)
    <3>1. pending' = [pending EXCEPT !.state = "activation-prepared"]
      BY <2>2, <2>8 DEF PublishPrepared, Publish, Knows
    <3>2. pending.state = "readback-verified"
      <4>1. pending.state \in {"readback-verified", "activation-prepared"}
        BY <2>2, <2>8 DEF PublishPrepared, Knows, PrepareSteps, HandedSteps
      <4>2. pending.state = "activation-prepared" => pending' = pending
        BY <2>3, <3>1 DEF Txn
      <4> QED
        BY <4>1, <4>2
    <3> QED
      BY <2>3, <3>1, <3>2 DEF Rank, Txn
  <2> QED
    BY <2>1, <2>4, <2>5, <2>6, <2>7, <2>8
<1> QED
  BY <1>1, Inductive, PTL DEF Spec, TransactionAdvances

-----------------------------------------------------------------------------
(* Refinement of AbUpdate.                                                 *)

\* The image that AbUpdate sees in a slot.
Image == [s \in Slots |-> IF Bootable(s) THEN slots[s].rootfs ELSE "torn"]

\* The abstract image of a slot is a release exactly when the slot is whole.
LEMMA ImageWhole ==
  ASSUME TypeOK
  PROVE  /\ Image \in [Slots -> Releases \cup {"torn"}]
         /\ \A s \in Slots : Image[s] \in Releases <=> Bootable(s)
BY UpdateAssumption DEF Image, Bootable

\* Ab's state functions, spelled out over the mapping.
LEMMA Mapping ==
  /\ Ab!Slots = Slots
  /\ \A s \in Slots : Ab!Whole(s) <=> Image[s] \in Releases
BY DEF Ab!Slots, Slots, Ab!Whole, Image

\* The initial states map to initial states of AbUpdate.
LEMMA AbInit == Init => Ab!Init
<1> SUFFICES ASSUME Init PROVE Ab!Init
  OBVIOUS
<1>1. TypeOK /\ IInv
  BY TypeInit, InvInit
<1>2. NextSlot \in Slots /\ Bootable(NextSlot)
  BY <1>1, NextIsBootable DEF BootSafe
<1>3. booted = "off" /\ knownGood.version = "none"
  BY DEF Init
<1> QED
  BY <1>1, <1>2, <1>3, ImageWhole, Mapping DEF Ab!Init, Image

\* The same of the state after a step.
LEMMA NextIsBootablePrimed == IInv' => (NextSlot \in Slots /\ Bootable(NextSlot))'
<1>1. IInv => NextSlot \in Slots /\ Bootable(NextSlot)
  BY NextIsBootable DEF BootSafe
<1> QED
  BY <1>1, PTL

\* Moving the selector, in whatever way, is aiming at a whole slot.
LEMMA AbAim ==
  ASSUME IInv, IInv', booted # "off", UNCHANGED <<slots, booted, knownGood>>
  PROVE  Ab!Aim
<1>1. NextSlot' \in Slots /\ Bootable(NextSlot)'
  BY NextIsBootablePrimed DEF Slots
<1>2. Image' = Image /\ TypeOK
  BY DEF Image, Bootable, IInv
<1>3. Bootable(NextSlot)' = Bootable(NextSlot')
  BY DEF Bootable
<1> QED
  BY <1>1, <1>2, <1>3, ImageWhole, Mapping DEF Ab!Aim, Image

\* A payload write changes the image of the inactive slot only.
LEMMA AbInstall ==
  ASSUME IInv, NEW c \in Callers, NEW m \in Members, OpenMember(c, m) \/ CopyMember(c, m)
  PROVE  Ab!Install
<1>1. pc[c] \in WriteSteps \ {"write-manifest"}
  BY DEF OpenMember, CopyMember, WriteSteps
<1>2. /\ txn[c] = pending /\ pending.runtime = booted /\ booted \in Slots
      /\ activation.state = "none" /\ selector = booted
  BY <1>1 DEF IInv, Operations, Knows, Consistent, Running, Handover, WriteSteps, TypeOK
<1>3. NextSlot = booted
  BY <1>2 DEF NextSlot, Slots
<1>4. Other(booted) \in Slots /\ Other(booted) # booted /\ Target(txn[c]) = Other(booted)
  BY <1>2, DataTypes DEF Target
<1>5. /\ UNCHANGED <<selector, booted, knownGood>>
      /\ \A s \in Slots \ {Other(booted)} : slots'[s] = slots[s]
      /\ slots' \in [Slots -> [Members -> Images]]
  <2>1. CASE OpenMember(c, m)
    BY <1>4, <2>1 DEF OpenMember, IInv, TypeOK, Images
  <2>2. CASE CopyMember(c, m)
    BY <1>4, <2>2 DEF CopyMember, IInv, TypeOK, Images
  <2> QED
    BY <2>1, <2>2
<1>6. NextSlot' = NextSlot
  BY <1>5 DEF NextSlot
<1>7. Image'[Other(booted)] \in Releases \cup {"torn"}
  BY <1>4, <1>5 DEF Image, Bootable
<1>8. Image' = [Image EXCEPT ![Other(booted)] = Image'[Other(booted)]]
  BY <1>4, <1>5 DEF Image, Bootable
<1>9. Other(booted) \in Ab!Slots \ {booted, NextSlot} /\ booted # "off"
  BY <1>2, <1>3, <1>4, Mapping DEF Slots
<1>10. UNCHANGED <<NextSlot, booted, knownGood.version>>
  BY <1>5, <1>6
<1>11. \E s \in Ab!Slots \ {booted, NextSlot}, i \in Releases \cup {"torn"} :
         Image' = [Image EXCEPT ![s] = i]
  BY <1>7, <1>8, <1>9
<1> QED
  BY <1>9, <1>10, <1>11 DEF Ab!Install, Image

\* Going down leaves the next boot aimed at a whole slot, whatever became of the
\* selector write.
LEMMA AbStop ==
  ASSUME IInv, IInv', GoDown
  PROVE  Ab!Stop
<1>1. NextSlot' \in Slots /\ Bootable(NextSlot)'
  BY NextIsBootablePrimed DEF Slots
<1>2. UNCHANGED <<slots, knownGood>> /\ booted # "off" /\ booted' = "off"
  BY DEF GoDown
<1>3. Image' = Image /\ TypeOK /\ Bootable(NextSlot)' = Bootable(NextSlot')
  BY <1>2 DEF Image, Bootable, IInv
<1> QED
  BY <1>1, <1>2, <1>3, ImageWhole, Mapping DEF Ab!Stop, Image

\* Each step of the update is a step of an A/B update or invisible in it.
LEMMA AbNext == IInv /\ IInv' /\ [Next]_vars => [Ab!Next]_(Ab!vars)
<1> SUFFICES ASSUME IInv, IInv', [Next]_vars PROVE Ab!Next \/ UNCHANGED Ab!vars
  OBVIOUS
<1>1. ASSUME UNCHANGED <<slots, selector, booted, knownGood>> PROVE UNCHANGED Ab!vars
  BY <1>1 DEF Ab!vars, Image, Bootable, NextSlot
<1>2. ASSUME NEW c \in Callers, Begin(c) \/ Progress(c) \/ Abort(c)
      PROVE  Ab!Next \/ UNCHANGED Ab!vars
  <2>1. CASE \E m \in Members : OpenMember(c, m) \/ CopyMember(c, m)
    BY <2>1, AbInstall DEF Ab!Next
  <2>2. CASE SwitchSelector(c) \/ SyncSelector(c) \/ Abort(c)
    <3>1. booted # "off" /\ UNCHANGED <<slots, booted, knownGood>>
      BY <2>2 DEF SwitchSelector, SyncSelector, Abort, IInv, Operations, Knows, Consistent,
         Running
    <3> QED
      BY <3>1, AbAim DEF Ab!Next
  <2>3. CASE Begin(c)
    BY <1>1, <2>3 DEF Begin, BeginBackup, BeginConfirm, BeginWrite, BeginReadback, BeginPrepare,
       BeginBound, BeginReboot
  <2>4. CASE \/ FinishBackup(c) \/ Confirm(c) \/ PublishWritten(c)
             \/ PublishReadback(c) \/ PublishPrepared(c)
    BY <1>1, <2>4 DEF FinishBackup, Confirm, PublishWritten, PublishReadback, PublishPrepared,
       Publish
  <2>5. CASE \/ ReadManifest(c) \/ \E m \in Members : ReadbackMember(c, m)
             \/ VerifyTargets(c) \/ EstablishRecord(c) \/ EstablishMarker(c)
             \/ AdvanceRecord(c) \/ RequestReboot(c) \/ Refuse(c)
    BY <1>1, <2>5 DEF ReadManifest, ReadbackMember, VerifyTargets, EstablishRecord,
       EstablishMarker, AdvanceRecord, RequestReboot, Refuse
  <2> QED
    BY <1>2, <2>1, <2>2, <2>3, <2>4, <2>5 DEF Progress
<1>3. CASE Halt \/ PowerLoss
  BY <1>3, AbStop DEF Halt, PowerLoss, Ab!Next
<1>4. CASE Boot
  <2>1. UNCHANGED <<slots, selector, knownGood>> /\ booted = "off" /\ booted' = NextSlot
    BY <1>4 DEF Boot
  <2>2. Image' = Image /\ NextSlot' = NextSlot
    BY <2>1 DEF Image, Bootable, NextSlot
  <2> QED
    BY <2>1, <2>2 DEF Ab!Next, Ab!Start, Image
<1>5. CASE RecordKnownGood
  <2>1. /\ UNCHANGED <<slots, selector, booted>> /\ selector = booted /\ booted \in Slots
        /\ knownGood'.version = slots[booted].rootfs /\ Bootable(booted)
    <3>1. booted # "off" /\ booted \in Slots
      BY <1>5 DEF RecordKnownGood, PostbootValid, IInv, TypeOK, Consistent, Running
    <3> QED
      BY <1>5, <3>1 DEF RecordKnownGood, PostbootValid, IInv, Consistent, Running
  <2>2. NextSlot' = NextSlot /\ NextSlot = booted /\ Image' = Image
    BY <2>1 DEF NextSlot, Image, Bootable, Slots
  <2>3. knownGood'.version = Image[booted]
    BY <2>1 DEF Image
  <2> QED
    BY <2>1, <2>2, <2>3 DEF Ab!Next, Ab!Accept, Image
<1>6. CASE \/ ResetOverlay \/ RemoveMarker \/ RefuseReset \/ ActivateRoot \/ DegradeRoot
           \/ RetireActivation \/ SkipPostboot \/ AbortPostboot \/ Surroundings
  BY <1>1, <1>6 DEF ResetOverlay, RemoveMarker, RefuseReset, ActivateRoot, DegradeRoot,
     RetireActivation, SkipPostboot, AbortPostboot, Surroundings, ReplacePackage,
     ToggleArchives, ArmLegacyReset
<1>7. CASE UNCHANGED vars
  BY <1>1, <1>7
<1> QED
  BY <1>2, <1>3, <1>4, <1>5, <1>6, <1>7 DEF Next, StartUp

\* Every step of the update, its faults included, is a step of AbUpdate or leaves
\* the slots, the next boot and the known-good release alone.
THEOREM Refinement == Spec => ImplementsAb
BY AbInit, AbNext, Inductive, PTL DEF Spec, ImplementsAb, Ab!Spec
=============================================================================
