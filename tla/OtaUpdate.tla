------------------------------ MODULE OtaUpdate ------------------------------
(***************************************************************************)
(* The platform update of Fre3nder: ota-core (the transaction from backup  *)
(* to reboot, and the post-boot validation), the early-root script         *)
(* fre3nder-root that consumes the SYS reset marker, and S89, which calls  *)
(* the post-boot validation once per boot.                                 *)
(*                                                                         *)
(* Durable state: the two slots, the boot selector, the activation record, *)
(* the reset markers, the known-good record and the SYS overlay.  Volatile *)
(* state: the pending transaction, the transition lock and the operations  *)
(* in progress.  A power loss may come between any two steps.              *)
(*                                                                         *)
(* Simplifications: an image is named by the release it belongs to, or is  *)
(* "torn"; a signature, a size and a SHA-256 are one comparison of names;  *)
(* device identity checks are taken to succeed; transaction IDs, random in *)
(* the code, are fresh numbers.                                            *)
(***************************************************************************)
EXTENDS Naturals

CONSTANTS
  Callers,          \* processes that run ota-core: CLI sessions, managementd
  Releases,         \* releases a validly signed package can carry
  FallbackSlot,     \* slot the (external) bootloader takes on an unreadable selector
  MaxTransactions,  \* bound: transactions started
  MaxFaults,        \* bound: power losses, I/O errors, killed operations
  MaxEdits          \* bound: changes made around the core (package, archives, marker)

Slots == {"A", "B"}
Other(s) == IF s = "A" THEN "B" ELSE "A"
Members == {"rootfs", "kernel"}

ASSUME UpdateAssumption ==
  /\ "none" \notin Releases /\ "torn" \notin Releases /\ "rejected" \notin Releases
  /\ "nobody" \notin Callers
  /\ FallbackSlot \in Slots
  /\ MaxTransactions \in Nat /\ MaxFaults \in Nat /\ MaxEdits \in Nat

Images == Releases \cup {"torn"}
Packages == Releases \cup {"rejected"}     \* what the package path can hold
Results == Releases \cup {"none"}          \* digest in a recorded result, if any

TxnStates == {"none", "awaiting-confirmation", "confirmed",
              "written-awaiting-readback", "readback-verified", "activation-prepared"}

\* The volatile transaction of /run/fre3nder/ota/pending.json.
Txn == [id : Nat, state : TxnStates, version : Results, digest : Packages \cup {"none"},
        runtime : Slots, backups : BOOLEAN, written : Results, readback : Results]

NoTxn == [id |-> 0, state |-> "none", version |-> "none", digest |-> "none",
          runtime |-> "A", backups |-> FALSE, written |-> "none", readback |-> "none"]

\* The durable handoff of .fre3nder-ota-activation.json.
Activation == [id : Nat, state : {"none", "preparing", "activation-prepared"},
               version : Results, digest : Packages \cup {"none"},
               runtime : Slots, written : Results, readback : Results]

NoActivation == [id |-> 0, state |-> "none", version |-> "none", digest |-> "none",
                 runtime |-> "A", written |-> "none", readback |-> "none"]

KnownGood == [id : Nat, version : Results, slot : Slots]

Steps == {"idle", "backup", "confirm",
          "write-manifest", "write-rootfs", "copy-rootfs", "write-kernel", "copy-kernel",
          "write-publish",
          "readback-manifest", "readback-rootfs", "readback-kernel", "readback-publish",
          "prepare-verify", "prepare-record", "prepare-marker", "prepare-selector",
          "sync-selector", "prepare-advance", "prepare-publish", "reboot"}

VARIABLES
  \* durable
  slots,        \* image held by each member of each slot
  selector,     \* slot named by the boot selector, or "unknown"
  activation,   \* activation record
  marker,       \* target of the targeted SYS reset marker, or "none"
  legacy,       \* is the legacy SYS reset marker present?
  knownGood,    \* known-good record
  upper,        \* releases whose running system wrote to the SYS overlay
  \* volatile
  booted,       \* running slot, or "off"
  rootStatus,   \* progress of fre3nder-root
  s89,          \* progress of the post-boot validation in this boot
  halting,      \* has a reboot been requested?
  pending,      \* pending transaction
  lock,         \* holder of write.lock, or "nobody"
  pc, txn, manifest, source,   \* operations in progress, by caller
  \* surroundings
  file,         \* content of the package path
  archives,     \* do the selected backup archives still verify?
  nextId, faults, edits

durable == <<slots, selector, activation, marker, legacy, knownGood, upper>>
system == <<booted, rootStatus, s89, halting>>
local == <<txn, manifest, source>>
outside == <<file, archives, edits>>
vars == <<durable, system, pending, lock, pc, local, outside, nextId, faults>>

\* Bug: the running slot is taken for the target.
RunningTarget(t) == t.runtime

Target(t) == Other(t.runtime)
Bootable(s) == slots[s].rootfs \in Releases /\ slots[s].kernel = slots[s].rootfs

\* The slot the bootloader starts next.
NextSlot == IF selector = "unknown" THEN FallbackSlot ELSE selector

TypeOK ==
  /\ slots \in [Slots -> [Members -> Images]]
  /\ selector \in Slots \cup {"unknown"}
  /\ activation \in Activation
  /\ marker \in Slots \cup {"none"}
  /\ legacy \in BOOLEAN
  /\ knownGood \in KnownGood
  /\ upper \in SUBSET Images
  /\ booted \in Slots \cup {"off"}
  /\ rootStatus \in {"off", "booting", "reset", "clean", "active", "degraded"}
  /\ s89 \in {"pending", "known-good", "done"}
  /\ halting \in BOOLEAN
  /\ pending \in Txn
  /\ lock \in Callers \cup {"nobody"}
  /\ pc \in [Callers -> Steps]
  /\ txn \in [Callers -> Txn]
  /\ manifest \in [Callers -> Results]
  /\ source \in [Callers -> Packages \cup {"none"}]
  /\ file \in Packages
  /\ archives \in BOOLEAN
  /\ nextId \in Nat /\ faults \in Nat /\ edits \in Nat

\* The volatile state before rcS: no operation, no transaction, no lock.
VolatileReset ==
  /\ pending' = NoTxn
  /\ lock' = "nobody"
  /\ pc' = [c \in Callers |-> "idle"]
  /\ txn' = [c \in Callers |-> NoTxn]
  /\ manifest' = [c \in Callers |-> "none"]
  /\ source' = [c \in Callers |-> "none"]

\* A printer that runs one complete slot; the other holds anything.
Init ==
  /\ selector \in Slots
  /\ slots \in [Slots -> [Members -> Images]]
  /\ Bootable(selector)
  /\ activation = NoActivation
  /\ marker = "none"
  /\ legacy = FALSE
  /\ knownGood = [id |-> 0, version |-> "none", slot |-> selector]
  /\ upper = {slots[selector].rootfs}
  /\ booted = "off" /\ rootStatus = "off" /\ s89 = "pending" /\ halting = FALSE
  /\ pending = NoTxn
  /\ lock = "nobody"
  /\ pc = [c \in Callers |-> "idle"]
  /\ txn = [c \in Callers |-> NoTxn]
  /\ manifest = [c \in Callers |-> "none"]
  /\ source = [c \in Callers |-> "none"]
  /\ file \in Packages
  /\ archives = TRUE
  /\ nextId = 1 /\ faults = 0 /\ edits = 0

-----------------------------------------------------------------------------
(* What every transition checks.                                           *)

\* Bug: the transition is not locked.
AcquireUnlocked(c) == pc[c] = "idle" /\ lock' = c

\* transaction_operation: one nonblocking lock for CLI and managementd.
Acquire(c) == lock = "nobody" /\ pc[c] = "idle" /\ lock' = c

Goto(c, step) == pc' = [pc EXCEPT ![c] = step]

\* The operation ends: the process drops its lock and its local state.
Finish(c) ==
  /\ Goto(c, "idle")
  /\ lock' = IF lock = c THEN "nobody" ELSE lock
  /\ txn' = [txn EXCEPT ![c] = NoTxn]
  /\ manifest' = [manifest EXCEPT ![c] = "none"]
  /\ source' = [source EXCEPT ![c] = "none"]

\* verify_package accepts the file and the writable root is active.
Preflight == rootStatus = "active" /\ file \in Releases

\* verify_pending_backup_result.
BackupsVerified(t) == t.backups => archives

\* validate_transaction_binding.
Bound(t) ==
  /\ Preflight
  /\ t.version = file /\ t.digest = file
  /\ t.runtime = booted
  /\ BackupsVerified(t)

\* Take the lock, load the transaction, check its state and its binding.
BeginBound(c, states, step) ==
  /\ Acquire(c)
  /\ pending.state \in states
  /\ Bound(pending)
  /\ txn' = [txn EXCEPT ![c] = pending]
  /\ Goto(c, step)
  /\ UNCHANGED <<durable, system, pending, manifest, source, outside, nextId, faults>>

\* store_transaction_state: replace the pending file by the loaded state, advanced.
Publish(c, t) ==
  /\ pending' = t
  /\ Finish(c)
  /\ UNCHANGED <<durable, system, outside, nextId, faults>>

-----------------------------------------------------------------------------
(* backup and confirm                                                      *)

\* Bug: a handoff of an earlier boot is not looked for.
NoPendingOpen == pending.state = "none"

\* ensure_new_transaction_available.
NoTransactionOpen == activation.state = "none" /\ pending.state = "none"

BeginBackup(c) ==
  /\ Acquire(c)
  /\ NoTransactionOpen
  /\ Preflight
  /\ nextId <= MaxTransactions
  /\ manifest' = [manifest EXCEPT ![c] = file]
  /\ Goto(c, "backup")
  /\ UNCHANGED <<durable, system, pending, txn, source, outside, nextId, faults>>

\* The archives are made and verified; the digest is taken of what the path
\* holds now, the version is that of the preflight.
FinishBackup(c) ==
  /\ pc[c] = "backup"
  /\ \E selected \in BOOLEAN :
       /\ pending' = [id |-> nextId, state |-> "awaiting-confirmation",
                      version |-> manifest[c], digest |-> file, runtime |-> booted,
                      backups |-> selected, written |-> "none", readback |-> "none"]
       /\ archives' = IF selected THEN TRUE ELSE archives
  /\ nextId' = nextId + 1
  /\ Finish(c)
  /\ UNCHANGED <<durable, system, file, edits, faults>>

BeginConfirm(c) == BeginBound(c, {"awaiting-confirmation"}, "confirm")

Confirm(c) == pc[c] = "confirm" /\ Publish(c, [txn[c] EXCEPT !.state = "confirmed"])

-----------------------------------------------------------------------------
(* write: RootFS first, kernel second, each copied from the reopened file  *)

BeginWrite(c) == BeginBound(c, {"confirmed"}, "write-manifest")

\* verify_package once more, for the sizes and digests to write.
ReadManifest(c) ==
  /\ file \in Releases
  /\ \/ pc[c] = "write-manifest" /\ Goto(c, "write-rootfs")
     \/ /\ pc[c] = "readback-manifest" /\ Goto(c, "readback-rootfs")
        /\ txn[c].written = file
  /\ manifest' = [manifest EXCEPT ![c] = file]
  /\ UNCHANGED <<durable, system, pending, lock, txn, source, outside, nextId, faults>>

\* write_payload_member opens the archive again and overwrites the target.
OpenMember(c, m) ==
  /\ pc[c] = (IF m = "rootfs" THEN "write-rootfs" ELSE "write-kernel")
  /\ source' = [source EXCEPT ![c] = file]
  /\ slots' = [slots EXCEPT ![Target(txn[c])][m] = "torn"]
  /\ Goto(c, IF m = "rootfs" THEN "copy-rootfs" ELSE "copy-kernel")
  /\ UNCHANGED <<selector, activation, marker, legacy, knownGood, upper, system, pending,
                 lock, txn, manifest, outside, nextId, faults>>

\* All bytes are copied and synced; the digest of the stream decides.
CopyMember(c, m) ==
  /\ pc[c] = (IF m = "rootfs" THEN "copy-rootfs" ELSE "copy-kernel")
  /\ slots' = [slots EXCEPT ![Target(txn[c])][m] =
                  IF source[c] \in Releases THEN source[c] ELSE "torn"]
  /\ IF source[c] = manifest[c]
       THEN /\ Goto(c, IF m = "rootfs" THEN "write-kernel" ELSE "write-publish")
            /\ UNCHANGED <<lock, local>>
       ELSE Finish(c)
  /\ UNCHANGED <<selector, activation, marker, legacy, knownGood, upper, system, pending,
                 outside, nextId, faults>>

PublishWritten(c) ==
  /\ pc[c] = "write-publish"
  /\ Publish(c, [txn[c] EXCEPT !.state = "written-awaiting-readback",
                               !.written = manifest[c]])

-----------------------------------------------------------------------------
(* readback                                                                *)

BeginReadback(c) == BeginBound(c, {"written-awaiting-readback"}, "readback-manifest")

ReadbackMember(c, m) ==
  /\ pc[c] = (IF m = "rootfs" THEN "readback-rootfs" ELSE "readback-kernel")
  /\ slots[Target(txn[c])][m] = manifest[c]
  /\ Goto(c, IF m = "rootfs" THEN "readback-kernel" ELSE "readback-publish")
  /\ UNCHANGED <<durable, system, pending, lock, local, outside, nextId, faults>>

PublishReadback(c) ==
  /\ pc[c] = "readback-publish"
  /\ Publish(c, [txn[c] EXCEPT !.state = "readback-verified", !.readback = manifest[c]])

-----------------------------------------------------------------------------
(* prepare-activation: record, marker, selector, record again, transaction *)

BeginPrepare(c) ==
  BeginBound(c, {"readback-verified", "activation-prepared"}, "prepare-verify")

\* verify_activation_targets.
TargetsVerified(t) ==
  /\ file \in Releases
  /\ t.readback = file
  /\ \A m \in Members : slots[Target(t)][m] = file

VerifyTargets(c) ==
  /\ pc[c] = "prepare-verify"
  /\ TargetsVerified(txn[c])
  /\ Goto(c, "prepare-record")
  /\ UNCHANGED <<durable, system, pending, lock, local, outside, nextId, faults>>

\* build_activation_record.
Handoff(t) == [id |-> t.id, state |-> "preparing", version |-> t.version, digest |-> t.digest,
               runtime |-> t.runtime, written |-> t.written, readback |-> t.readback]

\* activation_record_matches: every recorded field but the state.
Matches(record, t) == [record EXCEPT !.state = "preparing"] = Handoff(t)

\* Bug: the selector is switched before the marker is written.
RecordThenSelector(c) ==
  /\ pc[c] = "prepare-record"
  /\ \/ activation.state = "none" /\ activation' = Handoff(txn[c])
     \/ activation.state # "none" /\ Matches(activation, txn[c]) /\ UNCHANGED activation
  /\ Goto(c, "prepare-selector")
  /\ UNCHANGED <<slots, selector, marker, legacy, knownGood, upper, system, pending, lock,
                 local, outside, nextId, faults>>

EstablishRecord(c) ==
  /\ pc[c] = "prepare-record"
  /\ \/ activation.state = "none" /\ activation' = Handoff(txn[c])
     \/ activation.state # "none" /\ Matches(activation, txn[c]) /\ UNCHANGED activation
  /\ Goto(c, "prepare-marker")
  /\ UNCHANGED <<slots, selector, marker, legacy, knownGood, upper, system, pending, lock,
                 local, outside, nextId, faults>>

\* Bug: a marker left by an earlier attempt is refused.
MarkerWritableOnce(t) == ~legacy /\ marker = "none"

\* write_target_reset_marker.
MarkerWritable(t) == ~legacy /\ marker \in {"none", Target(t)}

EstablishMarker(c) ==
  /\ pc[c] = "prepare-marker"
  /\ MarkerWritable(txn[c])
  /\ marker' = Target(txn[c])
  /\ Goto(c, "prepare-selector")
  /\ UNCHANGED <<slots, selector, activation, legacy, knownGood, upper, system, pending,
                 lock, local, outside, nextId, faults>>

\* write_selector_target up to the fsync: the record on disk is in flight.
SwitchSelector(c) ==
  /\ pc[c] = "prepare-selector"
  /\ \/ /\ selector = txn[c].runtime
        /\ selector' = "unknown"
        /\ Goto(c, "sync-selector")
     \/ /\ selector = Target(txn[c])
        /\ UNCHANGED selector
        /\ Goto(c, "prepare-advance")
  /\ UNCHANGED <<slots, activation, marker, legacy, knownGood, upper, system, pending, lock,
                 local, outside, nextId, faults>>

SyncSelector(c) ==
  /\ pc[c] = "sync-selector"
  /\ selector' = Target(txn[c])
  /\ Goto(c, "prepare-advance")
  /\ UNCHANGED <<slots, activation, marker, legacy, knownGood, upper, system, pending, lock,
                 local, outside, nextId, faults>>

\* advance_activation_record.
AdvanceRecord(c) ==
  /\ pc[c] = "prepare-advance"
  /\ activation.state # "none" /\ Matches(activation, txn[c])
  /\ activation' = [activation EXCEPT !.state = "activation-prepared"]
  /\ Goto(c, "prepare-publish")
  /\ UNCHANGED <<slots, selector, marker, legacy, knownGood, upper, system, pending, lock,
                 local, outside, nextId, faults>>

PublishPrepared(c) ==
  /\ pc[c] = "prepare-publish"
  /\ Publish(c, [txn[c] EXCEPT !.state = "activation-prepared"])

-----------------------------------------------------------------------------
(* reboot, refusals, faults                                                *)

\* verify_prepared_activation.
Prepared(t) ==
  /\ t.state = "activation-prepared"
  /\ activation.state = "activation-prepared" /\ Matches(activation, t)
  /\ marker = Target(t)
  /\ selector = Target(t)

BeginReboot(c) ==
  /\ Acquire(c)
  /\ Prepared(pending)
  /\ txn' = [txn EXCEPT ![c] = pending]
  /\ Goto(c, "reboot")
  /\ UNCHANGED <<durable, system, pending, manifest, source, outside, nextId, faults>>

\* /sbin/reboot returns at once; the operation ends before the printer does.
RequestReboot(c) ==
  /\ pc[c] = "reboot"
  /\ halting' = TRUE
  /\ Finish(c)
  /\ UNCHANGED <<durable, booted, rootStatus, s89, pending, outside, nextId, faults>>

\* A check of the step the operation is at does not hold: error response.
Refused(c) ==
  CASE pc[c] = "write-manifest" -> file \notin Releases
    [] pc[c] = "readback-manifest" -> file \notin Releases \/ txn[c].written # file
    [] pc[c] \in {"write-rootfs", "write-kernel"} -> file # manifest[c]
    [] pc[c] = "readback-rootfs" -> slots[Target(txn[c])].rootfs # manifest[c]
    [] pc[c] = "readback-kernel" -> slots[Target(txn[c])].kernel # manifest[c]
    [] pc[c] = "prepare-verify" -> ~TargetsVerified(txn[c])
    [] pc[c] = "prepare-record" -> activation.state # "none" /\ ~Matches(activation, txn[c])
    [] pc[c] = "prepare-marker" -> ~MarkerWritable(txn[c])
    [] pc[c] = "prepare-selector" -> selector = "unknown"
    [] pc[c] = "prepare-advance" -> activation.state = "none" \/ ~Matches(activation, txn[c])
    [] OTHER -> FALSE

Refuse(c) ==
  /\ Refused(c)
  /\ Finish(c)
  /\ UNCHANGED <<durable, system, pending, outside, nextId, faults>>

Fault == faults < MaxFaults /\ faults' = faults + 1

\* A selector write that is cut short may have hit the disk, or not, or in part.
CutShort(c) ==
  \/ UNCHANGED selector
  \/ pc[c] = "sync-selector" /\ selector' \in Slots

\* An I/O error, or the process is killed: the files stay as they are.
Abort(c) ==
  /\ pc[c] # "idle"
  /\ Fault
  /\ CutShort(c)
  /\ Finish(c)
  /\ UNCHANGED <<slots, activation, marker, legacy, knownGood, upper, system, pending,
                 outside, nextId>>

\* The printer goes down: what is below /run is gone.
GoDown ==
  /\ booted # "off"
  /\ \E c \in Callers : CutShort(c)
  /\ VolatileReset
  /\ booted' = "off" /\ rootStatus' = "off" /\ s89' = "pending" /\ halting' = FALSE
  /\ UNCHANGED <<slots, activation, marker, legacy, knownGood, upper, outside, nextId>>

Halt == halting /\ GoDown /\ UNCHANGED faults

PowerLoss == GoDown /\ Fault

-----------------------------------------------------------------------------
(* boot: the bootloader, fre3nder-root, S89                                *)

Boot ==
  /\ booted = "off"
  /\ Bootable(NextSlot)
  /\ booted' = NextSlot
  /\ rootStatus' = "booting"
  /\ UNCHANGED <<durable, s89, halting, pending, lock, pc, local, outside, nextId, faults>>

\* handle_reset: a legacy and a targeted marker together authorize nothing.
MarkersConflict == legacy /\ marker # "none"

\* Bug: the targeted marker is not looked at.
LegacyResetDue == legacy

ResetDue == ~MarkersConflict /\ (legacy \/ marker = booted)

ResetOverlay ==
  /\ rootStatus = "booting" /\ ResetDue
  /\ upper' = {}
  /\ rootStatus' = "reset"
  /\ UNCHANGED <<slots, selector, activation, marker, legacy, knownGood, booted, s89, halting,
                 pending, lock, pc, local, outside, nextId, faults>>

RemoveMarker ==
  /\ rootStatus = "reset"
  /\ marker' = IF legacy THEN marker ELSE "none"
  /\ legacy' = FALSE
  /\ rootStatus' = "clean"
  /\ UNCHANGED <<slots, selector, activation, knownGood, upper, booted, s89, halting, pending,
                 lock, pc, local, outside, nextId, faults>>

\* handle_reset is over: nothing to do, deferred to the other slot, or done.
ResetSettled ==
  \/ rootStatus = "booting" /\ ~MarkersConflict /\ ~ResetDue
  \/ rootStatus = "clean"

Written == upper \cup {slots[booted].rootfs}

\* Overlay and /home are mounted and the root is switched; the system that
\* now runs writes below upper.
ActivateRoot ==
  /\ ResetSettled
  /\ rootStatus' = "active"
  /\ upper' = Written
  /\ UNCHANGED <<slots, selector, activation, marker, legacy, knownGood, booted, s89, halting,
                 pending, lock, pc, local, outside, nextId, faults>>

\* handle_reset refuses to choose between two markers; the immutable root
\* stays in use.
RefuseReset ==
  /\ rootStatus = "booting" /\ MarkersConflict
  /\ rootStatus' = "degraded"
  /\ UNCHANGED <<durable, booted, s89, halting, pending, lock, pc, local, outside, nextId, faults>>

\* Another step of fre3nder-root fails; after pivot_root the overlay stays.
DegradeRoot ==
  /\ rootStatus \in {"booting", "reset", "clean"}
  /\ Fault
  /\ rootStatus' = "degraded"
  /\ \/ upper' = upper
     \/ ResetSettled /\ upper' = Written
  /\ UNCHANGED <<slots, selector, activation, marker, legacy, knownGood, booted, s89,
                 halting, pending, lock, pc, local, outside, nextId>>

\* Bug: require_mount_contract is not called.
PostbootUnmounted ==
  /\ activation.state # "none"
  /\ booted = Target(activation)
  /\ slots[booted].rootfs = activation.version
  /\ marker = "none"
  /\ selector = booted

\* The checks of postboot_response.
PostbootValid ==
  /\ activation.state # "none"
  /\ rootStatus = "active"
  /\ booted = Target(activation)
  /\ slots[booted].rootfs = activation.version
  /\ marker = "none"
  /\ selector = booted

RecordKnownGood ==
  /\ s89 = "pending"
  /\ PostbootValid
  /\ knownGood' = [id |-> activation.id, version |-> activation.version, slot |-> booted]
  /\ s89' = "known-good"
  /\ UNCHANGED <<slots, selector, activation, marker, legacy, upper, booted, rootStatus,
                 halting, pending, lock, pc, local, outside, nextId, faults>>

RetireActivation ==
  /\ s89 = "known-good"
  /\ activation' = NoActivation
  /\ s89' = "done"
  /\ UNCHANGED <<slots, selector, marker, legacy, knownGood, upper, booted, rootStatus,
                 halting, pending, lock, pc, local, outside, nextId, faults>>

\* Bug: a failed validation clears the record.
SkipAndClear ==
  /\ s89 = "pending"
  /\ rootStatus \in {"active", "degraded"}
  /\ ~PostbootValid
  /\ activation' = NoActivation
  /\ s89' = "done"
  /\ UNCHANGED <<slots, selector, marker, legacy, knownGood, upper, booted, rootStatus,
                 halting, pending, lock, pc, local, outside, nextId, faults>>

\* No record, no SYS mount, or a failed validation: the record is retained.
SkipPostboot ==
  /\ s89 = "pending"
  /\ rootStatus \in {"active", "degraded"}
  /\ ~PostbootValid
  /\ s89' = "done"
  /\ UNCHANGED <<durable, booted, rootStatus, halting, pending, lock, pc, local, outside,
                 nextId, faults>>

\* An I/O error ends the post-boot validation; the record is retained.
AbortPostboot ==
  /\ \/ s89 = "pending" /\ PostbootValid
     \/ s89 = "known-good"
  /\ Fault
  /\ s89' = "done"
  /\ UNCHANGED <<durable, booted, rootStatus, halting, pending, lock, pc, local, outside,
                 nextId>>

-----------------------------------------------------------------------------
(* the surroundings: nothing the core controls, at any moment              *)

Edit == edits < MaxEdits /\ edits' = edits + 1

ReplacePackage ==
  /\ Edit
  /\ \E p \in Packages \ {file} : file' = p
  /\ UNCHANGED <<durable, system, pending, lock, pc, local, archives, nextId, faults>>

\* The USB volume with the archives is pulled, or comes back.
ToggleArchives ==
  /\ Edit
  /\ archives' \in BOOLEAN \ {archives}
  /\ UNCHANGED <<durable, system, pending, lock, pc, local, file, nextId, faults>>

\* The operator asks for a SYS reset with the legacy marker.
ArmLegacyReset ==
  /\ Edit
  /\ rootStatus = "active" /\ ~legacy
  /\ legacy' = TRUE
  /\ UNCHANGED <<slots, selector, activation, marker, knownGood, upper, system, pending,
                 lock, pc, local, file, archives, nextId, faults>>

-----------------------------------------------------------------------------
\* The steps an operation takes once it holds the lock.
Progress(c) ==
  \/ FinishBackup(c) \/ Confirm(c)
  \/ ReadManifest(c) \/ \E m \in Members : OpenMember(c, m) \/ CopyMember(c, m)
  \/ PublishWritten(c)
  \/ \E m \in Members : ReadbackMember(c, m)
  \/ PublishReadback(c)
  \/ VerifyTargets(c) \/ EstablishRecord(c) \/ EstablishMarker(c)
  \/ SwitchSelector(c) \/ SyncSelector(c) \/ AdvanceRecord(c) \/ PublishPrepared(c)
  \/ RequestReboot(c) \/ Refuse(c)

Begin(c) ==
  \/ BeginBackup(c) \/ BeginConfirm(c) \/ BeginWrite(c) \/ BeginReadback(c)
  \/ BeginPrepare(c) \/ BeginReboot(c)

StartUp ==
  \/ Halt
  \/ Boot \/ ResetOverlay \/ RemoveMarker \/ RefuseReset \/ ActivateRoot
  \/ RecordKnownGood \/ RetireActivation \/ SkipPostboot

Surroundings == ReplacePackage \/ ToggleArchives \/ ArmLegacyReset

Next ==
  \/ \E c \in Callers : Begin(c) \/ Progress(c) \/ Abort(c)
  \/ StartUp
  \/ PowerLoss \/ DegradeRoot \/ AbortPostboot
  \/ Surroundings

Spec == Init /\ [][Next]_vars

\* rcS runs its scripts in turn and a started process is scheduled; nothing
\* obliges anybody to begin an operation.
Fairness ==
  /\ WF_vars(StartUp)
  /\ \A c \in Callers : WF_vars(Progress(c))

FairSpec == Spec /\ Fairness

-----------------------------------------------------------------------------
(* Safety.                                                                 *)

\* Whenever the power goes, the slot the bootloader takes next holds a whole
\* kernel/RootFS pair of one release: writes go to the slot nobody boots, and
\* the selector moves only after that slot is verified.
BootSafe == Bootable(NextSlot)

\* While an activation is handed over, its target slot holds exactly the bytes
\* whose write and readback the record certifies, although the package path may
\* change between any two reads of it, other callers may start operations and
\* the printer may restart in either slot.
HandoffIntact ==
  activation.state # "none" =>
    /\ activation.written \in Releases /\ activation.readback = activation.written
    /\ \A m \in Members : slots[Target(activation)][m] = activation.written

\* If the next boot leaves the running slot, the record and the reset marker
\* that the new system needs are already durable.
HandoffBeforeSwitch ==
  booted # "off" /\ NextSlot # booted =>
    /\ activation.state # "none" /\ Target(activation) = NextSlot
    /\ marker = NextSlot

\* The SYS overlay in use was written by the running release alone: an update
\* never runs on top of the overlay of the release it replaced.
SysOfRunningRelease ==
  rootStatus = "active" => upper = {slots[booted].rootfs}

\* A durable handoff and a pending transaction are never of different updates,
\* and the transaction cannot write any more.
OneUpdate ==
  activation.state # "none" /\ pending.state # "none" =>
    /\ pending.id = activation.id
    /\ pending.state \in {"readback-verified", "activation-prepared"}

\* No step changes an image of the slot the printer runs from.
RunningSlotUntouched ==
  [][booted # "off" => slots'[booted] = slots[booted]]_vars

\* A release becomes known-good only while it runs, on its own fresh overlay,
\* from a whole slot the selector names.
KnownGoodProved ==
  [][knownGood' # knownGood =>
       /\ knownGood'.slot = booted /\ selector = booted
       /\ \A m \in Members : slots[booted][m] = knownGood'.version
       /\ upper = {knownGood'.version} /\ marker = "none"]_vars

\* The durable handoff goes only when its update has been recorded known-good.
HandoffKept ==
  [][activation.state # "none" /\ activation'.state = "none" =>
       knownGood.id = activation.id]_vars

Rank(state) ==
  CASE state = "none" -> 0
    [] state = "awaiting-confirmation" -> 1
    [] state = "confirmed" -> 2
    [] state = "written-awaiting-readback" -> 3
    [] state = "readback-verified" -> 4
    [] state = "activation-prepared" -> 5

\* While the printer is up a transaction is neither replaced nor set back, and
\* it advances by one phase at a time, whichever callers operate on it.
TransactionAdvances ==
  [][booted' # "off" /\ pending' # pending =>
       /\ Rank(pending'.state) = Rank(pending.state) + 1
       /\ pending.state # "none" => pending'.id = pending.id]_vars

-----------------------------------------------------------------------------
(* The update keeps the promise of AbUpdate: every step, with its crashes, is *)
(* one of an A/B update in which the next boot always finds a whole release.  *)

Ab == INSTANCE AbUpdate WITH
        image <- [s \in Slots |-> IF Bootable(s) THEN slots[s].rootfs ELSE "torn"],
        next <- NextSlot,
        running <- booted,
        good <- knownGood.version

ImplementsAb == Ab!Spec

-----------------------------------------------------------------------------
(* Liveness.                                                               *)

\* A printer that went down with its next boot set to the target of a handoff
\* records the new release and retires the handoff, unless another fault
\* comes or the two reset markers conflict.
HandoffRetired ==
  \A n \in 0..MaxFaults :
    (/\ booted = "off" /\ faults = n
     /\ activation.state # "none" /\ selector = Target(activation))
      ~> (activation.state = "none" \/ faults > n \/ rootStatus = "degraded")

\* A prepare-activation cut short before the reboot is finished when a caller keeps
\* retrying it, unless the printer goes down, the selector cannot be read, a bound input
\* is gone or the legacy marker was armed.
RetryFinishes ==
  (\A c \in Callers : WF_vars(BeginPrepare(c))) =>
    ((activation.state # "none" /\ pending.state = "readback-verified")
       ~> \/ pending.state = "activation-prepared"
          \/ booted = "off" \/ selector = "unknown" \/ legacy \/ ~Bound(pending))
=============================================================================
