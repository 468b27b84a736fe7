---------------------------- MODULE OtaUpdateInv ----------------------------
(***************************************************************************)
(* The inductive invariant behind the safety properties of OtaUpdate: what *)
(* the lock holder knows of the pending transaction, what the record, the  *)
(* marker and the selector say of each other, and whose overlay it is.     *)
(***************************************************************************)
EXTENDS OtaUpdate

\* The steps of each operation after the transaction was loaded and bound.
WriteSteps == {"write-manifest", "write-rootfs", "copy-rootfs", "write-kernel",
               "copy-kernel", "write-publish"}
ReadbackSteps == {"readback-manifest", "readback-rootfs", "readback-kernel",
                  "readback-publish"}
HandedSteps == {"prepare-marker", "prepare-selector", "sync-selector", "prepare-advance",
                "prepare-publish", "reboot"}
PrepareSteps == {"prepare-verify", "prepare-record"} \cup HandedSteps

\* A printer that is up runs from a whole slot; a transaction is of this boot.
Running ==
  /\ rootStatus = "off" <=> booted = "off"
  /\ booted # "off" => Bootable(booted)
  /\ pending.state # "none" => rootStatus = "active" /\ pending.runtime = booted

\* After readback the transaction records one release as written and read back.
Recorded ==
  pending.state \in {"readback-verified", "activation-prepared"} =>
    pending.written \in Releases /\ pending.readback = pending.written

\* Without a handoff the next boot is the running slot; with one, both slots
\* are whole and the pending transaction, if any, is the one handed over.
Handover ==
  IF activation.state = "none"
    THEN /\ selector \in Slots
         /\ Bootable(selector)
         /\ booted # "off" => selector = booted
    ELSE /\ \A s \in Slots : Bootable(s)
         /\ HandoffIntact
         /\ pending.state # "none" =>
              /\ pending.state \in {"readback-verified", "activation-prepared"}
              /\ Matches(activation, pending)

\* Post-boot validation runs in the target of the handoff.
Validating ==
  s89 = "known-good" =>
    /\ booted # "off" /\ selector = booted
    /\ activation.state # "none" /\ booted = Target(activation)
    /\ knownGood.id = activation.id

\* The overlay is of the slot that boots next, or a marker is set for that slot.
Overlay ==
  /\ rootStatus \in {"booting", "reset", "clean"} => booted = NextSlot
  /\ rootStatus = "reset" => ResetDue
  /\ rootStatus \in {"reset", "clean"} => upper = {}
  /\ SysOfRunningRelease
  /\ upper \subseteq {slots[NextSlot].rootfs} \/ marker = NextSlot \/ legacy

Consistent ==
  Running /\ Recorded /\ Handover /\ Validating /\ Overlay /\ HandoffBeforeSwitch

\* What an operation in progress relies on: it holds the lock, its copy of the
\* transaction is current, and what its earlier steps established still holds.
Knows(c) ==
  /\ lock = c
  /\ rootStatus = "active"
  /\ pc[c] = "backup" => NoTransactionOpen
  /\ pc[c] # "backup" => txn[c] = pending
  /\ pc[c] = "confirm" => pending.state = "awaiting-confirmation"
  /\ pc[c] \in WriteSteps => pending.state = "confirmed"
  /\ pc[c] \in ReadbackSteps => pending.state = "written-awaiting-readback"
  /\ pc[c] \in PrepareSteps => pending.state \in {"readback-verified", "activation-prepared"}
  /\ pc[c] \in WriteSteps \ {"write-manifest"} => manifest[c] \in Releases
  /\ pc[c] \in ReadbackSteps \ {"readback-manifest"} =>
       manifest[c] \in Releases /\ pending.written = manifest[c]
  /\ pc[c] = "prepare-record" =>
       \A m \in Members : slots[Target(pending)][m] = pending.readback
  /\ pc[c] \in HandedSteps => activation.state # "none"
  /\ pc[c] \in HandedSteps \ {"prepare-marker"} => marker = Target(pending)

Operations == \A c \in Callers : pc[c] # "idle" => Knows(c)

\* Holds initially and is kept by every step (OtaUpdateProofs).
IInv == TypeOK /\ Consistent /\ Operations
=============================================================================
