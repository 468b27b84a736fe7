# Fre3nder: specifications and proofs

Fre3nder is the firmware of a 3D printer: an X2000 board with two A/B slots (a
kernel and a SquashFS RootFS each), a writable SYS overlay, a persistent HOME,
a 512-byte boot selector, an F005 microcontroller, and a set of programs that
update, extend and serve the system. This directory holds TLA+ modules of the
parts whose correctness depends on the order of durable steps, on what runs at
the same time and on what a line loses; the TLC configurations that check them on
small instances; and proofs that hold for every value of the constants.

Line numbers refer to the repository beside this directory; program names without
a path are in `configs/x2000/rootfs-overlay/usr/libexec/fre3nder/` (cores) and
`configs/x2000/rootfs-overlay/etc/init.d/` (scripts).

## 1. Inventory

| Component | State it keeps | Operations | Talks to | What is hard | Modules |
|---|---|---|---|---|---|
| OTA core (`ota-core`) | volatile `pending.json` and `write.lock` below `/run`; durable activation record, known-good record; the inactive slot; the selector | verify, preflight, backup, confirm, write, readback, prepare-activation, reboot, postboot, status | backup core, early root through the reset marker, bootloader through the selector | power loss between durable steps, a package path that changes under it, several callers, retry | `OtaUpdate`, `AbUpdate` |
| Early root (`fre3nder-root`) | SYS overlay, reset markers, root status | resolve, reset, mount, pivot, degrade | ota-core through marker and status | reset and marker removal are two steps; two kinds of marker | `OtaUpdate` (partly) |
| Post-boot script (`S89…`) | none | `ota-core postboot` once per boot | ota-core | must retain the record on failure | `OtaUpdate` |
| Management daemon: jobs (`managementd`, `management_apps.py`) | receipts of the OTA and the app side, staged packages, verified identities | upload, download, verify, start, discard, acknowledge, status | ota-core, package-core | a job outlives the daemon; two kinds of job exclude each other through receipts | `ManagementJobs`, `JobBoard` |
| Management daemon: access (`managementd`) | pairing code, sessions, the opt-in | create code, redeem, use, revoke, enable, disable | maintenance web | expiry, limits, restart | `WebSessions`, `Maintenance` |
| Maintenance web (`S62fre3nder-maintenance-web`) | pid file, status file | start, stop, restart | managementd, lighttpd | no lock; pid file and process are two things | `MaintenanceWeb`, `Maintenance` |
| App package core (`package-core`) | per app: runtime tree, state directory with cached package, recovery marker, service; web and display selection | install, update, remove, service start and stop, restore, reconcile, autostart, switch-display | service scripts, display service, image | replace by two renames, roll-back after partial failure, kills at any step | `AppPackages`, `DisplaySwitch` |
| App boot scripts (`S58…` twice, `S65…`) | none | restore-installed, reconcile-system-apps, start-installed, once per boot | package-core | find the locks taken, or apps half done | `AppPackages` |
| Display service (`S64…`, `console`) | status file, stop-failed flag, tty7 | start, stop, restart, console | package-core | readiness, a display that does not stop, two callers | `DisplaySwitch` |
| F005 transition (`f005_bootloader.py`, `f005_mcu.py`, `f005-stock-to-fre3nder`, `f005-mcu-state`, `scripts/deploy-f005`) | MCU firmware | classify, reset, transfer, probe | bootloader, Klipper service | interrupted flash, one reset only, lost replies | `F005Flash`, `F005Image` |
| Klipper and Moonraker (`S60…`, `S61…`) | pid files | gate, start, stop | MCU classification | the gate and the helper share a UART | `F005Flash` (the gate) |
| F005 packaging and research tools (`scripts/package_f005_firmware.py`, `research/f005-mcu`, `research/scripts/f005_*`) | an image; the state of one command | package, validate, flash; reset once; filter, feed | bootloader, Klippy | unframed replies, a shared UART, answers left in a PTY | `F005Image`, `F005Protocol`, `ResetOnce`, `FirstPrint` |
| Backup core, operator tools, factory app, USB runtime, web client, command line, boot and network services, build tooling, patches | see section 7 | | | | not modelled |

What makes each correct:

* **OTA core, early root, post-boot script.** There is at every moment a whole
  release in the slot the bootloader takes next. The running slot is never
  written. The printer changes slots only behind a durable record and a durable
  reset marker. A release never runs on the overlay of another. A release is
  known-good only after it ran, and the handoff is given up only then. A
  transaction is advanced by one caller at a time. Interrupted preparation can be
  retried to the end.
* **Jobs.** At most one state-changing job, OTA or app. A job whose end the daemon did
  not see is never reported as succeeded or failed. What is installed is what was
  verified, under the name it was verified for.
* **Access.** A code is redeemed once and within its attempts; an expired, revoked or
  disabled session authorizes nothing. What is enabled listens; what is disabled does not.
* **App package core.** An installed app has a state directory and a runtime of
  one version, after a crash at any step as well; a failed operation leaves the
  previous version; the boot always gets past the app scripts.
* **Display.** No frontend but the selected one runs, the console is never drawn over a
  live one, and a failed switch goes back.
* **F005.** Only the image a release describes is written, only to an MCU that identified
  itself as its source; Klipper starts only on the firmware it is for; a run ends whatever
  does not answer. The research tools believe of the MCU and of Klippy only what is so.

## 2. Modules

| Module | What it is |
|---|---|
| `AbUpdate` | Abstract specification: what an A/B platform update promises (`docs/ota.md`, "Design principles"). |
| `OtaUpdate`, `OtaUpdateInv` | The transaction of ota-core with the early root, S89, faults and surroundings, refining `AbUpdate`; its inductive invariant `IInv`, in named parts. |
| `AppPackages` | package-core and the app boot scripts, for every app but display frontends, with faults, kills, power losses, SYS resets and new images. |
| `JobBoard` | Abstract specification: one execution at a time, its outcome known or acknowledged before the next. |
| `ManagementJobs` | Both sides of the daemon's executions with workers, cores, uploads, downloads and status requests, refining `JobBoard`. |
| `WebSessions` | Pairing codes and browser sessions under one lock and a clock. |
| `MaintenanceWeb` | The opt-in, the script and the lighttpd it keeps. |
| `Maintenance` | The composition of the last two: they share the opt-in, a request changes codes and sessions in the step that changes it, and the listener step by step. It refines `WebSessions`. |
| `DisplaySwitch` | Selection, switch, disabling, update and removal of frontends with the display script. |
| `F005Flash` | Start gate, transition helper, bootloader, Klippy and the UART they share. |
| `F005Image` | Packager, manifest and the two validators, byte by byte on a scaled layout, for any CRC. |
| `F005Crc` | The round of the CRC that the programs compute, bit by bit; the instance for TLC takes it. |
| `F005Protocol` | One run of the research flasher, byte by byte on a faulty line. |
| `ResetOnce` | Runs of the one-shot reset helper against each other and Klippy. |
| `FirstPrint` | The G-code filter, the feeder, the PTY and Klippy. |
| `MC…` | Instances for TLC: symmetries, inputs. |
| `OtaUpdateProofs`, `MaintenanceProofs`, `F005ToolsProofs`, `F005FlashProofs`, `F005ProtocolProofs`, `ManagementJobsProofs`, `AppPackagesProofs`, `DisplaySwitchProofs` | Theorems and proofs (section 4). |

### OtaUpdate and the code

| Variable | Code |
|---|---|
| `slots` | contents of `kernel`, `kernel2`, `rootfs`, `rootfs2`: the release an image belongs to, or `"torn"` |
| `selector` | the 512-byte record of the selector partition; `"unknown"` while it is neither of the two valid records |
| `activation` | `.fre3nder-ota-activation.json` (state `"none"`: no file) |
| `marker`, `legacy` | the targeted and the legacy SYS reset marker |
| `knownGood` | the known-good record |
| `upper` | whose running systems wrote to the SYS overlay |
| `booted`, `rootStatus`, `s89`, `halting` | running slot, progress of `fre3nder-root`, of S89, and a reboot on its way |
| `pending` | `/run/fre3nder/ota/pending.json` |
| `lock` | the flock on `write.lock` |
| `pc`, `txn`, `manifest`, `source` | where each process running ota-core is, its loaded transaction, the manifest it read, the archive it has open |
| `file`, `archives` | the package path, and whether the selected backup archives verify |

An operation is a `Begin…` action (take the lock, load the transaction, check its
state, `validate_transaction_binding`) and then one action per durable step or per
read of something that can change:

| Code | Actions |
|---|---|
| `backup_response` | `BeginBackup`, `FinishBackup` |
| `confirm_response` | `BeginConfirm`, `Confirm` |
| `write_response`, `write_payload_member` | `BeginWrite`, `ReadManifest`, `OpenMember`, `CopyMember` (per member), `PublishWritten` |
| `readback_response` | `BeginReadback`, `ReadManifest`, `ReadbackMember`, `PublishReadback` |
| `prepare_activation_response` | `BeginPrepare`, `VerifyTargets`, `EstablishRecord`, `EstablishMarker`, `SwitchSelector`, `SyncSelector`, `AdvanceRecord`, `PublishPrepared` |
| `reboot_response` | `BeginReboot`, `RequestReboot`, then `Halt` by init |
| every raised `ValueError` | `Refuse`, when a check of the step does not hold |
| I/O error, killed process | `Abort` |
| `handle_reset` | `ResetOverlay`, `RemoveMarker`, `RefuseReset` |
| `prepare_overlay`, `switch_root`, `fail` | `ActivateRoot`, `DegradeRoot` |
| `postboot_response` by S89 | `RecordKnownGood`, `RetireActivation`, `SkipPostboot`, `AbortPostboot` |
| bootloader, power (external) | `Boot`, `PowerLoss` |
| operator, USB (external) | `ReplacePackage`, `ToggleArchives`, `ArmLegacyReset` |

Simplifications. An image or a package is named by its release; the comparison
of sizes and SHA-256 digests is a comparison of names; a signed package carries
whole images. `validate_transaction_binding` is read at one instant; the manifest and
payload reads that follow it are separate steps, because the file may change between
them. Device identity checks succeed: no modelled step changes what they look at.
Transaction IDs, random in the code, are fresh numbers. A file that is replaced by
rename is replaced in one step. What a bootloader does with an unreadable selector is not
in the repository: it takes `FallbackSlot`, a parameter, and the properties are proved
for both values. A boot attempt of a slot that is not whole has no step; that it is
never needed is `BootSafe`.

### AppPackages and the code

| Variable | Code |
|---|---|
| `state` | `/home/.fre3nder/packages/<app>`: the release and metadata it caches; serial 0: no such directory |
| `frontend` | `/home/.fre3nder/frontend/active` |
| `runtime` | `<role>/<app>` for each storage role: absent, a release, or what an interrupted `rmtree` left (`Torn`) |
| `marker` | `/ota/apps-v2/<app>/restored` |
| `image` | serial of `/usr/share/fre3nder/system-apps/<app>.fre3app` |
| `phase`, `script`, `todo`, `failed` | whose turn it is at boot, whether that script holds the locks, what it has yet to visit, what it reported DEGRADED |
| `running` | apps whose service runs |
| `pc`, `op` | the operation in progress and its local variables: `exists`/`old`, `selected_before`, `was_running`, `previous`, `selected_new`, `started` |
| `suspect` | history: apps whose last operation was cut short, or whose rollback failed as well |

| Code | Actions |
|---|---|
| `activate_package`, `write_state` | `BeginInstall` or `BeginUpdate`, `Stop`, `SetAside`, `Place`, `ServiceAction`, `Start`, `Select`, `Detach`, `Commit`, `Mark` |
| its `except` blocks | `Undo`, `Discard` (file by file), `PutBack` |
| `remove_package` | `BeginRemove`, `Stop`, `Uninstall`, `Hide`, `Delete`, `Unmark`, `Deselect` |
| `restore_installed` (S58) | `RestoreNothing`, `RestoreRetained`, or `BeginRestore` and the steps from `SetAside` |
| `reconcile_system_apps` (S58) | `SeedInstall`, `SeedUpdate` and the steps of `activate_package`, or `Promote` |
| `start_installed` (S65) | `StartInstalled` |
| `service_command` | `OperateService` |
| locks taken by `__main__` | `pc = "idle"` in every `Begin…`; `BeginScript`, `SkipScript`, `EndScript` |
| a step that raises | `StepFails`, one action per place the exception is caught |
| time limit of `run_core` in `management_apps.py` | `Kill` |
| power, early root (external) | `PowerLoss`, `Reboot`, `Boot` with or without SYS reset, with a new image if it resets |

Every state-changing command takes `ota/write.lock` and then
`.package-operation.lock`, both without waiting, so there is one operation at a time.
Simplifications: a package is its serial; signatures, publishers, capabilities and
space are in order (when they are not, the command ends before it changes anything); a
rename is durable with the files it publishes; a script visits apps in any order. A service
script is called in the foreground without a time limit, under S58 and S65 in the foreground of
the boot: such a call is one step that succeeds or fails when it comes back, and fairness does not
say that it does (`Calls`, `BootCalls`; section 3).

### DisplaySwitch and the code

`script[c]` is the step of S64 that package-core (`"core"`) or the boot runs; `op` is
package-core's operation with the previous selection. `Script…` actions are the steps of
`start_frontend` (nothing selected, devices, `console prepare`, `display-service-start`,
`wait_display_ready`, its undoing) and of stop; `Switch…`, `DisableStopped`,
`UpdateStopped`, `RemoveStopped`, `RemoveSelection` and `Last` are what package-core does
when a script has come back. `status` is believed by package-core instead of the exit code,
as in the code. The app is external: it takes tty7 after a while or never, fails to start or
to stop, or dies. `ServiceByName` starts or stops any app, whatever is selected. Operations may
begin while the boot starts the display, as the script takes no lock; `crossed` is a history
variable that says so until an operation has found nothing running, and the properties except it
(section 6).

### ManagementJobs and the code

`rec` is `_execution` of either module and `disk` its file; `post` is the thread that holds
`_ota_lock` (`do_POST` keeps it from the check to the receipt), `worker` the thread of an
execution, `core` the process it started, `get` one status request. `Probe` and `GetLook`
take `write.lock` as `ota-core status` does. `Upload`, `Received`, `Link`, `Unlink`,
`StartVerify` are the stages of an upload; `DownloadLock` to `DownloadUnlinked` those of
`download_package`; `Spawn`, `Reap`, `Timeout`, `Tail`, `Forget`, `Record` those of `execute` and
`execute_ota`. An installation unlinks the staged file in `Tail` and forgets its identity in
`Forget`, as the code does (359, 360-361). `content`, `accepted`, `applied`, `acked` are history. A restart of managementd
(`Restart`) ends its threads and locks, not the cores it started. A refusal changes nothing and
has no step.

### Access and the code

`WebSessions` has one action per handler, since `_auth_lock` makes each atomic: `CreateCode`,
`Redeem` (right, wrong or late), `Use`, `Look`, `Refuse`, `Revoke`, `LockAll`, `Enable`,
`Disable`, `Restart`. Sessions expire in the code only when some handler looks, and so they do
here. Time passes in ticks; `TTL`, `Idle` and `Age` keep the order of 600 s, 1800 s and 28800 s.
`MaintenanceWeb` has `Decide` and `Look` for the two unlocked reads of `already_active`, `Set` for
`set_maintenance`, `RefreshFails` for a `refresh_web` that cannot run the script, and one
action per step of the script between two looks at pid file, process, opt-in or status; the
failures that `start` writes to the status file are `Failures`, those of `prepare_config` and of
the checks behind it being one.
`Prompt` says that lighttpd ends within the 10 seconds that stop waits, `Runnable` that the script
can be run; a pid is used once.
In `Maintenance` a restart of managementd drops a request that has not come to the script; a
script that runs goes on, as an orphan, beside the requests that follow. Two history variables name
what can be left open: `missed`, an opt-in was set and no script has begun since (managementd ended
in between, or the script could not be run); `crossed`, two scripts ran at once, or an enable that
found the listener active undid a disable.

### The F005 modules and the code

* `F005Flash`: `Gate` is `f005-mcu-state` with what S60 makes of it; `TakeUart`, `Probe`, `Reset`,
  then per exchange `Send` and `Receive`, `TimeOut`, `Finish` are the helper; `Exchange` lists the
  exchanges of `flash_image` in order. The port lock is taken by probes and Klippy and not
  by the transfer, as in the code. A reset is a raw message that nothing acknowledges: it may be
  lost like any other. `shared` is history: the latest reset was sent while another helper was
  exchanging messages. `FirmwareRestart` is Klippy's own. The retries inside a probe are one
  outcome. The bootloader and the MCU (`Accepts`, `Rejects`, `GivesUp`)
  are external, and power may go at any time. Corruption that no checksum shows becomes a
  flash that does not identify itself.
* `F005Image`: an image is a sequence of bytes. A word and the identity are one byte each, the
  memory map is scaled with them, the CRC keeps its 16 bits. `Packaged` is the packager,
  `Valid` the validation of both flashers, `CrcHolds` the masked check. A behaviour is the way of
  one binary: `Package`, `Damaged` (a byte changed, the file cut or grown), `Validate` with a
  manifest. The round of the CRC is the parameter `CrcByte`; `F005Crc` gives the one of the code
  and what TLC evaluates of it, which is what the proofs use (section 4).
* `F005Protocol`: `Check`, then `Send`, `Checked` and the timeouts of each exchange; baud rates,
  the stray bytes that shift a reply, and what the bootloader really did.
* `ResetOnce`: `Open` (LOCK_NB), `BeginQuery`, `Transmit` and `Answered` (the gate that lets
  one raw message pass), `Decide`, `Wait`, `Close`. Closing the port waits for what was written.
* `FirstPrint`: a line is its command word. `Supported`, `ShouldDrop` and `Kept` are the
  filter; `StartFeeder`, `Send`, `Receive`, `Interrupted`, `Stopping`, `GivesUp`, `End`, `Killed` the
  feeder. A write that is interrupted, killed or given up leaves a part of its line (`part`), to
  which the next line is joined; `GivesUp` is each of the three ways in which `safe_stop` ends
  before its lines are written.

## 3. Runs

| Run | Instance | States | Shows |
|---|---|---|---|
| `update` | 2 callers, 2 releases, 2 transactions, 1 fault, 1 edit | 131,300 | the inductive invariant, four state invariants, four action properties, the refinement of `AbUpdate`, and that a switched printer retires its handoff and a retried preparation finishes |
| `apps` | 1 app, 2 releases, 2 faults, 1 reboot | 406,803 | what is at rest, what recovery and reconciliation achieve, what a failure leaves, that the boot gets through |
| `app_role` | the same with 1 fault | – | counterexample (section 5) |
| `jobs` | 2 executions, 1 package, 2 names, 1 restart, failing stores, killed cores | 835,856 | receipts, cores, staged packages and answers agree; the refinement of `JobBoard` |
| `display` | 2 frontends, 3 faults, 4 operations, 1 reboot | 3,498,282 | one frontend, the console, the way back |
| `maintenance` | 2 tokens, 2 codes, TTL 1, Idle 2, Age 3, 3 ticks; 2 callers, 2 processes, 1 crash | 1,120,564 | access and listener together |
| `web_off_pair` | 2 callers | – | counterexample (section 5) |
| `flash` | gate and operator, 3 chunks | 14,598 | the transition under loss, rejection and power cycles, and that runs end |
| `image` | 12 binaries, 5 versions, 10 manifests, every byte changed to 8 values, cut and grown | 30,197 | exactly the packaged release is accepted |
| `flasher` | an image of 5 KiB; sectors of 0, 2 or 138 KiB; 1 stray or spoiled byte | 41,488 | what the host believes is so |
| `reset` | 2 helpers, Klippy, 2 tries | 26,892 | a reset meets an MCU in shutdown |
| `print` | 3 files, 2 sessions, 1 kill | 358,220 | one command at a time; an abort cools |

What the less obvious properties say, and what they except:

* `HandoffIntact` – while a handoff exists the target slot is what its write and
  readback results certify. It speaks of these results and not of the recorded version: the
  link to the version depends on the package path not being exchanged and exchanged back.
* `HandoffRetired` excepts a further fault, and the degraded root of two conflicting
  markers, where the code retains the record on purpose. `RetryFinishes` excepts what a
  retry cannot repair: a restart, an unreadable selector, a package or archive that is
  gone, an armed legacy marker.
* `AppsWhole` excepts an app whose operation was cut short (nothing undoes it until boot
  recovery or a retry) and one a boot script reported. `RecoveryRestores` excepts, on SYS, the
  former. `FailureUndone` excepts a rollback that fails as well, and a service that an earlier such
  rollback left running (section 6).
* `OneCore` excepts a core whose execution an administrator acknowledged as unknown: that is
  what the acknowledgement accepts. `AnswerPaired` is of the app side (section 6).
* `VerifiedStaged` lets an identity outlive its file while the receipt of the installation that has
  consumed it is still running; nothing else starts until it is closed, and `Forget` comes before.
* `BootCompletes` supposes of the app services that each call comes back. A service that hangs
  blocks the boot (section 6), however its script was called.
* `SwitchSettles` says of rest: the listener that there is is the one that the next stop finds; it runs
  while disabled only if `missed`, and is absent while enabled only if `missed`, after a crash, or
  when the status names a failure. What `missed` leaves lasts until the next request; no session is
  served meanwhile (`AuthSound`). It excepts `crossed`, which `web_off_pair` is about.
* `TransferSound` has two parts. Always: an unidentified firmware is in no flasher's hands, and a
  reset meets what was identified. Unless `shared`: a transfer meets what was probed, is whole before
  the application starts, and leaves Klippy alone. `KlippyOnTarget` and `CompleteMeansTarget` have no exception.
* `AbortCools` promises bed and fan of a stop that has written its lines; of an abort between two
  lines everything, unless the stop gives up or is killed. A line joined to a part of another one
  is lost to the hotend.
* `OnlySelectedRuns`, `ConsoleNotOverUi` and `FailedSwitchRestores` except `crossed`.
* `FailedSwitchRestores` holds when nothing fails on the way back and no app died on its own.
* `AuthSound`, `TransferSound`, `WireSound`, `ResetSound`, `ReceiptsTrue`, `ReleaseAccepted` and
  `OnlyReleaseAccepted` are conjunctions of named parts, each with its own comment. The type
  invariant of a module is part of one of them, or of `IInv`, `AppsWhole`, `ConsoleNotOverUi`,
  `SwitchSettles` or `OneAtATime`.

Bounds. Two callers are needed for a race on one lock and a third adds nothing to it. Two
releases distinguish old from new; the second transaction is the one that meets the handoff of
the first after a reboot. The safety of the update is proved for every bound, so TLC is given
one fault and one edit, enough for each liveness property and for every action. App
operations touch one app; two faults are one in an operation and one in its rollback or
recovery, and the safety properties are proved for any number. Two executions are the open one and the next; one restart comes between any two
steps. Status requests are followed until that restart, which ends them. Three faults and four operations of the display allow a failed switch with a failing way
back after another one. Its properties are proved for any number. In `Maintenance` three ticks pass every limit, a second code and token
meet what the first left; `Followed` follows the whole life of codes and sessions beside one request
at a time (two codes beside one listener, one beside two), and requests, orphaned scripts and crashes beside each other while the first code is new.
Both safety properties and `SessionsEnd` are proved without that bound. In `F005Flash` three chunks are a first, a middle and a last one; nothing else is
bounded. In `F005Protocol` one stray byte is what the checksum has to show; two may cancel out. The binaries,
manifests and byte values of `image` are samples of each way to fail; its properties are proved for all. The
second session of `print` meets what an interrupted one left.
`MaxTransactions`, `MaxFaults`, `MaxEdits`, `MaxReboots`, `MaxRestarts`, `MaxOps`, `MaxCodes`,
`MaxTime`, `MaxPids`, `MaxCrashes`, `MaxSessions`, `MaxKills` bound only the actions that begin something or fail.

`CHECK_DEADLOCK FALSE`: nobody is obliged to start another operation, so the system may rest.

Fairness. Update: `WF(StartUp)` – rcS runs its scripts one after the other and init completes a
requested reboot; `WF(Progress(c))` – a started process is scheduled until it ends; none on
`Begin…`, on faults or on the surroundings. `RetryFinishes` assumes in its own statement a
caller that keeps retrying prepare-activation, as `docs/ota.md` asks of the operator. Apps:
`WF(Progress /\ ~Calls)` and `WF(Scripts /\ ~BootCalls)`: what runs goes on, up to the next call of an app's
service script, of which nothing is supposed; `BootCompletes` names in its own statement that the
calls of the boot come back. Flash: a started gate or helper is scheduled, nothing is
assumed of the MCU or the line; every read of the code has a time limit, which is the enabled
`TimeOut`. Print: the feeder and Klippy run on and Klippy ends each command it has begun.

## 4. Proofs

`OtaUpdateProofs` proves, for all values of the constants that satisfy `UpdateAssumption` (the
names are distinct, the fallback is one of the two slots, the bounds are naturals),
`Spec => []IInv`, from it each safety and action property of `update`, and `Spec => ImplementsAb`.

None of the invariants is inductive alone. `BootSafe`, for instance, survives a
payload write only because the write goes to the slot nobody boots; that is
so because the writer's copy of the transaction is the current one, of this boot, and because no
handoff exists while a transaction is `confirmed`. `IInv` says this in three parts:

* `TypeOK`;
* `Consistent`: without a handoff the selector names the running, whole slot; with
  one, both slots are whole, the target holds what the record certifies, and a pending
  transaction is the one handed over and past its writes. The selector leaves the
  running slot only after the marker, so the overlay belongs to the slot that boots next or
  a marker for that slot is set. The post-boot validation runs in the target.
* `Operations`: whoever is past its `Begin` holds the lock, has a current copy of
  the transaction, and what its earlier steps established still holds.

The proof of `IInv /\ [Next]_vars => IInv'` has a lemma per group of actions;
`ConsistentFrame`, `OperationsFrame` and `EndedOperations` say what steps elsewhere
cannot disturb. The refinement maps a slot to its release when whole; payload
steps are `Install`, selector steps `Aim`, going down `Stop`, `Boot` is `Start`, the known-good
record `Accept`, everything else stutters.

`MaintenanceProofs` has three parts. The first is about `WebSessions`, for all tokens, limits and
bounds: `AuthSound` needs that the pending code has made no session and has counted exactly its
wrong attempts, and that a code to come has none (`PendingCounts`); the number of tokens equals
that of redeemed codes by a counting lemma. `SessionsEnd` follows step by step from `Fresh`, the
one place where a token is looked up. The second shows that every step of the composition is a step
of `WebSessions` or leaves its variables alone, and so that the whole keeps both promises, for any
callers, requests and lighttpd behaviour.

The third is the listener: `SwitchesSettle`, for any callers and requests beside each other and any
number of crashes, processes and restarts. `SwitchSettles` speaks
only of states in which no script runs, so the invariant (`Calm`, unless `crossed`) carries it
through one, of which there is one at a time while any number of requests wait for theirs: before it
begins, the listener that there is is the one of the pid file, and one that was told to end and
has not is reported (`Found`); from `stopped` to `spawn` there is none and the pid file goes
before the next is started, from `spawn` to `wait` there is the one just started or a crash took it
(`Running`); after it, the opt-in has had its way, or the status says why not, or a request that
has changed it since has yet to ask the script, or has missed to (`Done`).

`F005ToolsProofs` has three parts. The reset, for any number of helpers, any identify limit and number
of tries: `ResetSound`. That a reset meets an MCU in shutdown is not inductive: it needs `HolderKnows`, that a
run inside holds the port, that its gate is open for the query it makes, that an answer on the
line or in its hands is still so, and that a reset is the holder's last message. Only Klippy could
change what is known, and it cannot while the port is held.

The print, for any files: `OneAtATime`. An answer names no question, so a session that starts while Klippy
still owes an answer to an earlier one counts one `ok` too early and would be a command ahead for ever. What
stops it is the preflight, whose two questions have answers of their own: `Clean` says that nothing but the awaited
command is unanswered, `Never` that the text which answers a question is not to come, `Later` that it comes only behind the
`ok` of another line. `Asked` follows them through the preflight: it passes only into a clean print. This needs that a
feeder which is started finds at most one of the two questions unanswered (`OneQuestion`). Under that condition
`OneCommand` holds for any number of feeders; `TwoFeeders` discharges it for two, because one
feeder leaves at most one question behind (`FirstInv`).

The image, for any binaries, versions, manifests and byte values: `ReleaseAccepted` and
`OnlyReleaseAccepted`. Of the CRC they assume `OneToOne`: a round keeps to 16 bits, and two different
sums, or two different bytes, go to different sums. For the polynomial of the code TLC evaluates
(`RoundsAreOneToOne` of `F005Crc`) that a round without a byte maps the 65,536 sums onto themselves; a byte
enters the round only by being added to the high byte of the sum, as the definition of `CrcByteCcitt`
says (and TLC evaluates for the ends of the range and a few sums with all bytes), so each round is one to one in either argument. The published
check value is evaluated too. No other property of the polynomial matters. `CrcDetects` is what follows
from it: two sequences that differ in one byte have different CRCs, because the sums differ from that
byte on. The invariant (`ImageInv`) says that a package carries its own length and CRC (`Sealed`) and that a damaged
one does not, whichever byte was changed, those of the CRC itself included. `FrameSound` and `ChunksWhole` say
that a changed byte of a frame shows and that the chunks put together are the image. What the recursive functions compute
is shown by induction over a set of numbers (`Induction`, from the well-foundedness of `<`).

`F005FlashProofs`, for an image of any length, with or without the opt-in, and whatever is lost:
`KlippyOnTarget`, `CompleteMeansTarget` and `TransferSound`. Its invariant has two parts. `Base` holds
whoever is on the line: who has the port, that a helper about to reset holds that of an application
it has identified, what the bootloader on its own may hold, and that whoever relies on the target
firmware (`Relied`: Klippy, a helper that reports its completion) has it, with the MCU where no
flasher's request gets through (`OnTarget`). `Solo` holds unless `shared`: how far a
helper and the bootloader agree, what the bootloader expects while a request is on its way and after
it has accepted it, with the two counts of chunks equal or one apart.

`F005ProtocolProofs`, for images and sectors of any size, any identities, stray bytes and losses:
`OnTheWire`, assuming `MaxFaults <= 1`. The assumption is what the checksum is for: two bad
bytes can form a valid reply of their own. The invariant says what the host may
find (`Wire`): while it is not waiting, or its request is still on its way, nothing but noise (`Quiet`);
afterwards what is left of one reply, of which any two bytes contain a genuine one (`Remains`).
A pair that passes the checksum therefore says `s`, which is what the bootloader said, or `255 - s`,
and the latter is none of the statuses that the command accepts at that point (`Answered`); for the
sector size alone it may be taken, and nothing that is promised depends on it. The
handshake has one byte and no checksum: a stray one may pass for it, but it then was the one bad byte,
and the late genuine one is the only byte too many. `Progress` then ties the two counts of
chunks together, `Purpose` carries what was checked to the step that erases. `OnlyFlashErases` needs
no such assumption: however much noise there is, nothing but the command `flash` with a complete
policy and an image that satisfies it erases, and a command that has ended has closed the port.
Only the identity of the board can be forged.

`ManagementJobsProofs`, for any executions, packages and app names and any number of restarts:
every safety property of `jobs`, and `Spec => ImplementsBoard`. The invariant has one part per kind of state.
The board: one receipt is open over both sides, it is what its file says or unknown over a file that is
open, and a worker exists exactly for a running one; a request that was probed still finds nothing open.
The cores: a live core is awaited by its worker, or its receipt is unknown, or an administrator
acknowledged it, so a second one needs an acknowledgement. The files: a temporary name has at most one
writer, the upload or the worker on the board; whoever publishes one has it whole, and what is
remembered of a package is forgotten, though after its file is gone, before the receipt is closed
and so before its bytes can come to be others. The status: what it has read was true of the
receipt when it was read. The refinement shows the open receipt; accepting is `Accept` or `Continue`,
recording an outcome `Settle` or `Lose`, a restart `Lose` or nothing.

`AppPackagesProofs`, for any apps and releases and any number of faults and reboots: `AppsWhole`,
`RecoveryRestores`, `ReconcileDone` and `FailureUndone`. The invariant says what an app is left with
when no operation is at it and none has spoilt it (`Rested`: the runtime of its cached release, or
none while boot recovery has yet to come or has reported it); what a script has done to the apps it
has visited (`Visits`); and, per step of an operation (`OpInv`), where its state directory, old and
new runtime, selection and service are and what it began with. `FailureUndone` is the last of these
at the steps that end a rollback.

`DisplaySwitchProofs`, for any frontends and any number of faults, operations and reboots: its three
properties. The types always hold, the rest of the invariant unless `crossed` (`Steady`); an operation
that begins with nothing running, after the boot is through, restores it. It says that package-core and the boot take turns in the
script (`Turns`); that the script starts a frontend, and package-core changes the selection, only when
nothing runs (`StartsOnNone`, `AfterStop`); what the status file says between two runs of the script
(`StatusTrue`); and, for a switch with at most one failure, where it has been spent at each step of the way
there and back (`WayThere`, `WayBack`): a way back meets no failure because the way there has used it.

Every safety and action property of a passing run is stated by a theorem. Only model-checked are the
liveness properties, since fairness and ENABLED are out of the prover's reach, and the round of the
CRC itself: its definition works on bits, which the provers do not know, so TLC evaluates what the
proofs assume of it. The induction theorems of the library that take an operator
cannot be used, which is why `F005ToolsProofs` has its own over sets.

## 5. Findings

* `SystemRoleKept` (`app_role`): `docs/apps.md:50-52`, the system role survives an "image no longer
  listing the app, and cannot be relinquished by a manual package update". Between the two
  renames of `write_state` (`package-core:1111-1113`) there is no state directory; a crash there
  uninstalls the app and loses the role.
* `DisabledStops` (`web_off_pair`): `docs/api/management.md:390-391`, "When Maintenance is
  disabled, its listener stops". The opt-in changes under `_auth_lock`, the script runs outside of
  it and has no lock (`managementd:961`). A start that has read the opt-in goes on after a
  disable has found nothing to stop.

## 6. Observations

Behaviour met while modelling that the repository accepts or does not speak about; the
properties are stated so that they hold with it.

* The package file may be exchanged between the binding check and the later reads of the manifest and of
  each member (`ota-core:1893`); another signed package is then written under this transaction.
  `HandoffIntact`, `KnownGoodProved` and `BootSafe` hold all the same: readback and preparation
  compare once more.
* An unknown OTA outcome has no acknowledgement; it lasts until the receipts in `/run` vanish
  at a reboot, which is the model's initial state.
* `ota_status` reads its receipt after the state, so a status may show a success with the state before it;
  a status takes `write.lock` for a moment, so an operation that starts then is refused as busy; a core
  that is killed counts as failed although it may have changed something; a receipt of an
  upload whose failure cannot be stored stays `uploading` until a restart; a staged file that still has
  its second name makes a status of the apps fail.
* A crash between writing the frontend selection and the app's state leaves a selection that names
  no installed app. A crash between the exchange of a SYS runtime and `write_state` leaves a
  running release that is not the cached one. Both are the apps that `AppsWhole` excepts.
* A rollback that cannot stop the service it started removes the runtime below it. A later remove finds
  no runtime, so it does not stop that service, and an install that fails after it leaves it running.
  It takes three faults; the proof of `FailureUndone` showed it first.
* An operation during the boot's start of the display, or an app started by its name, can leave an app
  running that is not selected: each step of S64 looks at what is selected then, and takes no lock.
* `S65fre3nder-app-runtime:26` says that apps must not block the boot. A service script that fails does not, one that
  hangs does: `package-core` waits for it without a time limit (1022-1029, 1376-1383).
* managementd that ends between `set_maintenance` and `refresh_web` (960, 961), or whose
  `refresh_web` answers `failed`, leaves the listener of before until the next request: after a disable that is
  a listener which `docs/api/management.md:390` says is stopped. No session is served meanwhile.
* `docs/f005-mcu-switching.md:235` wants the UART controlled and free of unexpected owners. The transfer
  opens it without the lock that probes and Klippy take, and nothing verifies who else has it. After a
  reset that is lost the first helper waits without the lock and the second probes, and both exchange
  messages. What then protects the printer is that a helper resets only what it has identified and that
  its last probe decides (`KlippyOnTarget`, `CompleteMeansTarget`).
* `safe_stop` writes nothing more after its 2 s, when a write makes no progress or fails, or when it is killed:
  what was on stays on. If the line before it was left half written, `M104 S0` is joined to that line and the
  hotend stays on, though the stop says that it wrote its lines.
* An installation removes the staged file and forgets its identity later, so `overview` may show for
  a moment an identity of a file that is gone.
* After a failed transition the gate starts no Klippy; the next boot probes again, and a second
  automatic transition starts only when the MCU identifies itself as stock again.
* A third feeder after two interrupted ones may find both questions of the preflight unanswered, take their
  answers for its own, and go on to print a command ahead of Klippy. The condition `OneQuestion` of `OneCommand`
  is what it lacks.
* An orphan lighttpd whose pid file was removed keeps the port, and the next one that is started ends
  as a failed start.

## 7. Not modelled

* `management_system.py`: each of its requests validates and writes one setting; there is no
  order of steps to get wrong but temporary file and rename. Request and response formats.
* Early root: how SYS and HOME are found, and the clean-up of temporary storage; both are one fault.
* package-core: keys, repositories and the verification of a package, which are decisions about
  data that end before anything changes.
* Display: device links and what is drawn. Moonraker and the configuration files of Klipper.
  `S59`, which starts the host MCU process; `S62fre3nder-web` and `S57`, which have the structure of
  `S62fre3nder-maintenance-web` without an opt-in.
* Backup core: one caller and one operation, under a temporary name; `OtaUpdate` sees whether archives
  verify. USB runtime: its guarantees rest on what mount and udev do, which is not in the source.
* Operator tools (`x2000-ab`, `deploy-x2000`, `quick-start`): they write selector and marker from
  another computer without the core's lock, which `docs/ota.md` leaves to the operator.
* Factory app, command line, web client: they call operations that are modelled and keep no state of
  their own. Boot and network services, build and release tooling, patches: linear scripts, or
  outside the running system.
* Archive formats, signature schemes, JSON validation, HTTP: data below the models. Connections that
  stay open for their 60 s, and the number of threads.

## 8. Plan

`OtaOperator`: the operator tools composed with `OtaUpdate`, and which promises survive a writer
without the lock.
