--------------------------- MODULE ManagementJobs ---------------------------
(***************************************************************************)
(* managementd and management_apps: the operations the management API      *)
(* accepts.  Each HTTP request has a thread.  One that changes something   *)
(* holds _ota_lock from beginning to end, checks that neither side has an  *)
(* execution open, asks ota-core whether another interface is active, and  *)
(* leaves a receipt and a worker thread.  The worker runs a core process   *)
(* (package-core, ota-core) or downloads a package, and stores the outcome *)
(* in the receipt.  Cores and downloads exclude each other, and the        *)
(* command line, by ota/write.lock, which nobody waits for.  The daemon    *)
(* may be restarted at any time: receipts come back from their files, and  *)
(* cores survive.                                                          *)
(*                                                                         *)
(* Simplifications: an execution ID stands for the receipt, package_id and *)
(* arguments that carry it; a refusal changes nothing and is no step; the  *)
(* nine OTA operations and display-select, display-disable and remove      *)
(* differ only in the core they run; the receipt of a failed upload keeps  *)
(* the ID of the upload; a temporary name goes when a failure takes it     *)
(* away.                                                                   *)
(***************************************************************************)
EXTENDS Naturals, FiniteSets

CONSTANTS
  Job,          \* execution IDs
  Package,      \* package IDs
  Name,         \* app names
  None,
  Readers,      \* the sides whose status is requested
  MaxRestarts,  \* bound: restarts of managementd
  IoFails,      \* storing a receipt or a file may fail
  CoreDies      \* a core process may be killed

ASSUME JobAssumption ==
  /\ None \notin Job \cup Package \cup Name
  /\ Readers \subseteq {"apps", "ota"}
  /\ MaxRestarts \in Nat /\ IoFails \in BOOLEAN /\ CoreDies \in BOOLEAN

Sides == {"apps", "ota"}
Stored == {"uploading", "running", "succeeded", "failed", "unknown"}
Receipt == [job : Job \cup {None}, state : Stored \cup {"none"}]
NoReceipt == [job |-> None, state |-> "none"]
Ops == {"upload", "verify", "install", "update", "remove", "repository-download", "ota"}

\* Operations that change the printer; the others only read.
Mutating == {"install", "update", "remove", "ota"}

\* What an execution was accepted with.
Args == [side : Sides, op : Ops, pkg : Package \cup {None}, name : Name \cup {None}]
Fresh == [side |-> "apps", op |-> "upload", pkg |-> None, name |-> None]

Bytes == {"none", "partial", "whole"}
Live == {"started", "locked", "applied"}

VARIABLES
  rec,        \* _execution of either module
  disk,       \* its file under /run/fre3nder-management
  accepted,   \* ghost: the executions accepted so far
  args,       \* their arguments
  worker,     \* execute, execute_ota: where the thread is
  core,       \* the core process of an execution
  applied,    \* ghost: executions whose core changed the printer
  lock,       \* ota/write.lock: a job, "post" or "get" for a status process, "cli"
  content,    \* ghost: the app in the package's bytes, None when they are no valid package
  part,       \* the temporary name of a package: what its bytes are
  pub,        \* the published name of a package
  verified,   \* _verified: the identity the core reported
  post,       \* the request that holds _ota_lock
  get,        \* one status request
  acked,      \* ghost: executions acknowledged as unknown
  restarts

receipts == <<rec, disk>>
jobs == <<accepted, args>>
board == <<rec, disk, accepted, args>>
cores == <<core, applied>>
processes == <<worker, core, applied, lock>>
files == <<content, part, pub, verified>>
requests == <<post, get>>
history == <<acked, restarts>>
vars == <<board, processes, files, requests, history>>

NoPost == [pc |-> "idle", side |-> "apps", job |-> None]
NoGet == [pc |-> "idle", side |-> "apps", receipt |-> NoReceipt, seen |-> {}]

WorkerSteps == {"none", "start", "wait", "tail", "forget", "lock", "stream", "check", "publish", "unlink",
                "succeeded", "failed", "unknown"}

TypeOK ==
  /\ rec \in [Sides -> Receipt] /\ disk \in [Sides -> Receipt]
  /\ accepted \subseteq Job /\ args \in [Job -> Args]
  /\ worker \in [Job -> WorkerSteps]
  /\ core \in [Job -> Live \cup {"none", "ok", "fail", "killed"}]
  /\ applied \subseteq Job /\ acked \subseteq Job
  /\ lock \in Job \cup {None, "post", "get", "cli"}
  /\ content \in [Package -> Name \cup {None}]
  /\ part \in [Package -> Bytes] /\ pub \in [Package -> Bytes]
  /\ verified \in [Package -> Name \cup {None}]
  /\ post \in [pc : {"idle", "probe", "ready", "receive", "link", "linked", "verify"},
               side : Sides, job : Job \cup {None}]
  /\ get \in [pc : {"idle", "read", "files", "look", "peek", "receipt", "ok", "error"}, side : Sides,
              receipt : Receipt, seen : SUBSET Job]
  /\ restarts \in 0..MaxRestarts

Init ==
  /\ rec = [s \in Sides |-> NoReceipt] /\ disk = rec
  /\ accepted = {} /\ args = [j \in Job |-> Fresh]
  /\ worker = [j \in Job |-> "none"] /\ core = [j \in Job |-> "none"]
  /\ applied = {} /\ acked = {} /\ lock = None
  /\ content = [p \in Package |-> None]
  /\ part = [p \in Package |-> "none"] /\ pub = [p \in Package |-> "none"]
  /\ verified = [p \in Package |-> None]
  /\ post = NoPost /\ get = NoGet /\ restarts = 0

-----------------------------------------------------------------------------
(* Receipts. *)

\* Bug: an unknown outcome does not bar the next operation.
BlockingKnown == {"uploading", "running"}

\* apps.running(), and its twin in require_ota_idle.
Blocking == {"uploading", "running", "unknown"}

Busy(s) == rec[s].state \in Blocking

\* store_execution: the file is replaced, then the variable.
Store(s, j, state) ==
  /\ rec' = [rec EXCEPT ![s] = [job |-> j, state |-> state]]
  /\ disk' = [disk EXCEPT ![s] = rec'[s]]

\* A worker's outcome that cannot be stored is kept in memory as unknown.
StoreOutcome(s, j, state) ==
  \/ Store(s, j, state)
  \/ /\ IoFails
     /\ rec' = [rec EXCEPT ![s] = [job |-> j, state |-> "unknown"]]
     /\ UNCHANGED disk

\* secrets.token_hex: an ID nobody had.
Accept(j, a) ==
  /\ j \notin accepted
  /\ accepted' = accepted \cup {j}
  /\ args' = [args EXCEPT ![j] = a]

UsedPackages == {args[j].pkg : j \in accepted}

-----------------------------------------------------------------------------
(* Requests that change something: do_POST. *)

\* Bug: an OTA request does not look at the apps.
ProbeOwnSide(s) ==
  /\ post.pc = "idle" /\ ~Busy("ota")
  /\ lock = None /\ lock' = "post"
  /\ post' = [pc |-> "probe", side |-> s, job |-> None]
  /\ UNCHANGED <<board, worker, cores, files, get, history>>

\* do_POST takes _ota_lock and finds both sides idle; require_ota_idle runs
\* ota-core status, which takes the free write lock for a moment.
Probe(s) ==
  /\ post.pc = "idle" /\ ~Busy("ota") /\ (s = "ota" => ~Busy("apps"))
  /\ lock = None /\ lock' = "post"
  /\ post' = [pc |-> "probe", side |-> s, job |-> None]
  /\ UNCHANGED <<board, worker, cores, files, get, history>>

\* The status process ends: nothing else was active.
Probed ==
  /\ post.pc = "probe" /\ lock' = None
  /\ post' = [post EXCEPT !.pc = "ready"]
  /\ UNCHANGED <<board, worker, cores, files, get, history>>

\* The request is refused: its arguments do not fit or apps.ensure_idle raises.
Refuse ==
  /\ post.pc = "ready" /\ post' = NoPost
  /\ UNCHANGED <<board, processes, files, get, history>>

\* staged: the file of a package that may be handed to the core.  A file with a
\* second name is not one.
Staged(p) == pub[p] # "none" /\ part[p] = "none"

\* Bug: an update does not compare the verified name with the requested one.
StartableAnyName(a) ==
  \/ a.op = "verify" /\ a.name = None /\ a.pkg \in Package /\ Staged(a.pkg)
  \/ a.op \in {"install", "update"} /\ a.pkg \in Package /\ Staged(a.pkg)
       /\ verified[a.pkg] # None /\ a.name \in Name
  \/ a.op = "remove" /\ a.pkg = None /\ a.name \in Name

\* apps.start: what the request must name, operation by operation.
Startable(a) ==
  \/ a.op = "verify" /\ a.name = None /\ a.pkg \in Package /\ Staged(a.pkg)
  \/ a.op \in {"install", "update"} /\ a.pkg \in Package /\ Staged(a.pkg)
       /\ verified[a.pkg] # None /\ a.name = verified[a.pkg]
  \/ a.op = "remove" /\ a.pkg = None /\ a.name \in Name

\* apps.start accepts an operation: receipt and worker.
Start(j, a) ==
  /\ post.pc = "ready" /\ post.side = "apps" /\ ~Busy("apps")
  /\ a.side = "apps" /\ Startable(a)
  /\ Accept(j, a) /\ Store("apps", j, "running")
  /\ worker' = [worker EXCEPT ![j] = "start"]
  /\ post' = NoPost
  /\ UNCHANGED <<cores, lock, files, get, history>>

\* start_ota accepts an operation.
StartOta(j) ==
  /\ post.pc = "ready" /\ post.side = "ota"
  /\ Accept(j, [side |-> "ota", op |-> "ota", pkg |-> None, name |-> None])
  /\ Store("ota", j, "running")
  /\ worker' = [worker EXCEPT ![j] = "start"]
  /\ post' = NoPost
  /\ UNCHANGED <<cores, lock, files, get, history>>

\* apps.start_download accepts the download of the offer of app n.
StartDownload(j, n, p) ==
  /\ post.pc = "ready" /\ post.side = "apps" /\ ~Busy("apps")
  /\ p \notin UsedPackages
  /\ Accept(j, [side |-> "apps", op |-> "repository-download", pkg |-> p, name |-> n])
  /\ Store("apps", j, "running")
  /\ worker' = [worker EXCEPT ![j] = "lock"]
  /\ post' = NoPost
  /\ UNCHANGED <<cores, lock, files, get, history>>

\* Bug: the identity outlives the package.
DiscardFile(p) ==
  /\ post.pc = "ready" /\ post.side = "apps" /\ ~Busy("apps") /\ Staged(p)
  /\ \E j \in accepted : args[j].pkg = p /\ args[j].side = "apps"
  /\ pub' = [pub EXCEPT ![p] = "none"]
  /\ post' = NoPost
  /\ UNCHANGED <<board, processes, content, part, verified, get, history>>

\* apps.discard deletes a staged package.
Discard(p) ==
  /\ post.pc = "ready" /\ post.side = "apps" /\ ~Busy("apps") /\ Staged(p)
  /\ \E j \in accepted : args[j].pkg = p /\ args[j].side = "apps"
  /\ pub' = [pub EXCEPT ![p] = "none"]
  /\ verified' = [verified EXCEPT ![p] = None]
  /\ post' = NoPost
  /\ UNCHANGED <<board, processes, content, part, get, history>>

\* apps.acknowledge: an unknown app operation is closed as failed.
Acknowledge ==
  /\ post.pc = "ready" /\ post.side = "apps" /\ rec["apps"].state = "unknown"
  /\ Store("apps", rec["apps"].job, "failed")
  /\ acked' = acked \cup {rec["apps"].job}
  /\ post' = NoPost
  /\ UNCHANGED <<jobs, processes, files, get, restarts>>

\* upload, upload_ota: the receipt, then the bytes under a temporary name.
Upload(j, p, c) ==
  /\ post.pc = "ready" /\ ~Busy(post.side) /\ p \notin UsedPackages
  /\ Accept(j, [side |-> post.side, op |-> "upload", pkg |-> p, name |-> None])
  /\ Store(post.side, j, "uploading")
  /\ content' = [content EXCEPT ![p] = c]
  /\ part' = [part EXCEPT ![p] = "partial"]
  /\ post' = [post EXCEPT !.pc = "receive", !.job = j]
  /\ UNCHANGED <<processes, pub, verified, get, history>>

\* The last byte arrived and is on the disk.
Received ==
  /\ post.pc = "receive" /\ post' = [post EXCEPT !.pc = "link"]
  /\ part' = [part EXCEPT ![args[post.job].pkg] = "whole"]
  /\ UNCHANGED <<board, processes, content, pub, verified, get, history>>

\* os.link publishes the bytes under the package's name.
Link ==
  /\ post.pc = "link" /\ post' = [post EXCEPT !.pc = "linked"]
  /\ LET p == args[post.job].pkg IN pub' = [pub EXCEPT ![p] = part[p]]
  /\ UNCHANGED <<board, processes, content, part, verified, get, history>>

\* The temporary name goes.
Unlink ==
  /\ post.pc = "linked" /\ post' = [post EXCEPT !.pc = "verify"]
  /\ part' = [part EXCEPT ![args[post.job].pkg] = "none"]
  /\ UNCHANGED <<board, processes, content, pub, verified, get, history>>

\* The upload goes on as the verification of its package: start, start_ota with
\* reserved=True.
StartVerify(j) ==
  /\ post.pc = "verify"
  /\ Accept(j, [side |-> post.side, op |-> "verify", pkg |-> args[post.job].pkg, name |-> None])
  /\ Store(post.side, j, "running")
  /\ worker' = [worker EXCEPT ![j] = "start"]
  /\ post' = NoPost
  /\ UNCHANGED <<cores, lock, files, get, history>>

\* The bytes stop coming, or a step of the upload fails, the removal of the temporary
\* name among them, which is then tried again.  A package that is
\* published stays; the temporary name goes; the receipt says failed if it can be
\* stored, and otherwise stays as it is.
UploadFails ==
  /\ \/ post.pc = "receive"
     \/ post.pc \in {"link", "linked", "verify"} /\ IoFails
  /\ \/ Store(post.side, post.job, "failed")
     \/ IoFails /\ UNCHANGED <<rec, disk>>
  /\ part' = [part EXCEPT ![args[post.job].pkg] = "none"]
  /\ post' = NoPost
  /\ UNCHANGED <<jobs, processes, content, pub, verified, get, history>>

Post ==
  \/ \E s \in Sides : Probe(s)
  \/ Probed \/ Refuse \/ Acknowledge
  \/ \E j \in Job : \/ \E a \in Args : Start(j, a)
                    \/ StartOta(j)
                    \/ \E n \in Name, p \in Package : StartDownload(j, n, p)
                    \/ \E p \in Package, c \in Name \cup {None} : Upload(j, p, c)
                    \/ StartVerify(j)
  \/ \E p \in Package : Discard(p)
  \/ Received \/ Link \/ Unlink \/ UploadFails

-----------------------------------------------------------------------------
(* Core processes: run_core, run_ota_core and what they start. *)

\* execute, execute_ota start the core.
Spawn(j) ==
  /\ worker[j] = "start" /\ worker' = [worker EXCEPT ![j] = "wait"]
  /\ core' = [core EXCEPT ![j] = "started"]
  /\ UNCHANGED <<board, applied, lock, files, requests, history>>

CoreGoes(j, from, to) == core[j] \in from /\ core' = [core EXCEPT ![j] = to]
Release(j) == lock' = IF lock = j THEN None ELSE lock
CoreOnly == UNCHANGED <<board, worker, files, requests, history>>

\* A core that changes something takes the write lock, or fails when it is taken.
CoreLocks(j) ==
  /\ args[j].op \in Mutating
  /\ \/ lock = None /\ lock' = j /\ CoreGoes(j, {"started"}, "locked")
     \/ lock # None /\ CoreGoes(j, {"started"}, "fail") /\ UNCHANGED lock
  /\ UNCHANGED applied /\ CoreOnly

\* The package is there and valid, whatever was found out about it before.
CoreAccepts(p) == p # None => pub[p] = "whole" /\ content[p] # None

\* It changes the printer; packages are validated again under the lock.
CoreApplies(j) ==
  /\ CoreGoes(j, {"locked"}, "applied")
  /\ CoreAccepts(args[j].pkg)
  /\ applied' = applied \cup {j}
  /\ UNCHANGED lock /\ CoreOnly

\* verify only reads.
CoreVerifies(j) ==
  /\ args[j].op = "verify"
  /\ CoreGoes(j, {"started"}, IF CoreAccepts(args[j].pkg) THEN "ok" ELSE "fail")
  /\ UNCHANGED <<applied, lock>> /\ CoreOnly

\* It rejects the request, changing nothing.
CoreRejects(j) ==
  /\ CoreGoes(j, {"locked"}, "fail") /\ Release(j) /\ UNCHANGED applied /\ CoreOnly

\* It answers and ends.
CoreEnds(j) ==
  /\ CoreGoes(j, {"applied"}, "ok") /\ Release(j) /\ UNCHANGED applied /\ CoreOnly

\* It is killed and answers nothing.
CoreKilled(j) ==
  /\ CoreDies /\ CoreGoes(j, Live, "killed") /\ Release(j) /\ UNCHANGED applied /\ CoreOnly

Core(j) ==
  \/ CoreLocks(j) \/ CoreApplies(j) \/ CoreVerifies(j) \/ CoreRejects(j) \/ CoreEnds(j)

-----------------------------------------------------------------------------
(* Workers: execute, execute_ota, download_package. *)

\* What ended without a whole answer counts as failed.
Reap(j) ==
  /\ worker[j] = "wait" /\ core[j] \in {"ok", "fail", "killed"}
  /\ worker' = [worker EXCEPT ![j] = IF core[j] = "ok" THEN "tail" ELSE "failed"]
  /\ UNCHANGED <<board, cores, lock, files, requests, history>>

\* run_core kills package-core after 900 s; ota-core has all the time it needs.
Timeout(j) ==
  /\ worker[j] = "wait" /\ args[j].side = "apps" /\ CoreGoes(j, Live, "killed") /\ Release(j)
  /\ worker' = [worker EXCEPT ![j] = "unknown"]
  /\ UNCHANGED <<board, applied, files, requests, history>>

\* After success: the identity is noted, or the package that was consumed is deleted,
\* which takes no lock.
Tail(j) ==
  /\ worker[j] = "tail"
  /\ LET p == args[j].pkg IN
       \/ /\ args[j].side = "apps" /\ args[j].op \in {"verify", "repository-download"}
          /\ worker' = [worker EXCEPT ![j] = "succeeded"]
          /\ verified' = [verified EXCEPT ![p] = content[p]] /\ UNCHANGED pub
       \/ /\ args[j].op \in {"install", "update"}
          /\ worker' = [worker EXCEPT ![j] = "forget"]
          /\ pub' = [pub EXCEPT ![p] = "none"] /\ UNCHANGED verified
       \/ /\ args[j].op \in {"install", "update"} /\ IoFails
          /\ worker' = [worker EXCEPT ![j] = "unknown"]
          /\ UNCHANGED <<verified, pub>>
       \/ /\ args[j].op = "remove" \/ args[j].side = "ota"
          /\ worker' = [worker EXCEPT ![j] = "succeeded"]
          /\ UNCHANGED <<verified, pub>>
  /\ UNCHANGED <<board, cores, lock, content, part, requests, history>>

\* Its identity is forgotten afterwards, under _lock.
Forget(j) ==
  /\ worker[j] = "forget" /\ worker' = [worker EXCEPT ![j] = "succeeded"]
  /\ verified' = [verified EXCEPT ![args[j].pkg] = None]
  /\ UNCHANGED <<board, cores, lock, content, part, pub, requests, history>>

\* The outcome becomes the receipt: under _lock, and on the OTA side under _ota_lock.
Record(j) ==
  /\ worker[j] \in {"succeeded", "failed", "unknown"}
  /\ args[j].side = "ota" => post.pc = "idle"
  /\ StoreOutcome(args[j].side, j, worker[j])
  /\ worker' = [worker EXCEPT ![j] = "none"]
  /\ UNCHANGED <<jobs, cores, lock, files, requests, history>>

\* download_package: the write lock is held up to the end of stream_download.
DownloadLock(j) ==
  /\ worker[j] = "lock"
  /\ \/ lock = None /\ lock' = j /\ worker' = [worker EXCEPT ![j] = "stream"]
     \/ lock # None /\ worker' = [worker EXCEPT ![j] = "failed"] /\ UNCHANGED lock
  /\ UNCHANGED <<board, cores, files, requests, history>>

\* The unprivileged client sends bytes, whichever it likes.
DownloadBegins(j, c) ==
  /\ worker[j] = "stream" /\ part[args[j].pkg] = "none"
  /\ part' = [part EXCEPT ![args[j].pkg] = "partial"]
  /\ content' = [content EXCEPT ![args[j].pkg] = c]
  /\ UNCHANGED <<board, processes, pub, verified, requests, history>>

\* Size and digest are those of the offer, and the file is on the disk.
DownloadEnds(j) ==
  /\ worker[j] = "stream" /\ part[args[j].pkg] = "partial"
  /\ part' = [part EXCEPT ![args[j].pkg] = "whole"]
  /\ worker' = [worker EXCEPT ![j] = "check"]
  /\ UNCHANGED <<board, cores, lock, content, pub, verified, requests, history>>

\* package-core verifies the file and finds the app that was requested.
DownloadChecked(j) ==
  /\ worker[j] = "check" /\ content[args[j].pkg] = args[j].name
  /\ worker' = [worker EXCEPT ![j] = "publish"]
  /\ UNCHANGED <<board, cores, lock, files, requests, history>>

DownloadPublished(j) ==
  /\ worker[j] = "publish" /\ worker' = [worker EXCEPT ![j] = "unlink"]
  /\ pub' = [pub EXCEPT ![args[j].pkg] = part[args[j].pkg]]
  /\ UNCHANGED <<board, cores, lock, content, part, verified, requests, history>>

DownloadUnlinked(j) ==
  /\ worker[j] = "unlink" /\ worker' = [worker EXCEPT ![j] = "tail"]
  /\ part' = [part EXCEPT ![args[j].pkg] = "none"]
  /\ Release(j)
  /\ UNCHANGED <<board, cores, content, pub, verified, requests, history>>

\* No such offer, a client that fails, other bytes, an I/O error: the temporary file
\* goes, and what was published when its removal failed.  When the verification timed out
\* the outcome is unknown.
DownloadFails(j) ==
  /\ \/ worker[j] \in {"stream", "check"}
     \/ worker[j] \in {"publish", "unlink"} /\ IoFails
  /\ \E outcome \in {"failed"} \cup (IF worker[j] = "check" THEN {"unknown"} ELSE {}) :
       worker' = [worker EXCEPT ![j] = outcome]
  /\ part' = [part EXCEPT ![args[j].pkg] = "none"]
  /\ pub' = IF worker[j] = "unlink" THEN [pub EXCEPT ![args[j].pkg] = "none"] ELSE pub
  /\ Release(j)
  /\ UNCHANGED <<board, cores, content, verified, requests, history>>

Work(j) ==
  \/ Spawn(j) \/ Reap(j) \/ Tail(j) \/ Forget(j) \/ Record(j)
  \/ DownloadLock(j) \/ DownloadEnds(j) \/ DownloadChecked(j)
  \/ (\E c \in Name \cup {None} : DownloadBegins(j, c))
  \/ DownloadPublished(j) \/ DownloadUnlinked(j) \/ DownloadFails(j)

-----------------------------------------------------------------------------
(* Requests that read: overview and ota_status. *)

GetOnly == UNCHANGED <<board, worker, cores, files, post, history>>

\* overview takes the receipt first.
GetApps ==
  /\ "apps" \in Readers /\ get.pc = "idle"
  /\ get' = [pc |-> "read", side |-> "apps", receipt |-> rec["apps"], seen |-> {}]
  /\ UNCHANGED lock /\ GetOnly

\* installed, display-list and frontend-status: what the printer is like.
GetInstalled ==
  /\ get.pc = "read" /\ get' = [get EXCEPT !.pc = "files", !.seen = applied]
  /\ UNCHANGED lock /\ GetOnly

\* Bug: the receipt is read last, as in ota_status.
GetFilesThenReceipt ==
  /\ get.pc = "files"
  /\ get' = [get EXCEPT !.pc = "ok", !.receipt = rec["apps"]]
  /\ UNCHANGED lock /\ GetOnly

\* Every published package must be staged, or the request fails.
GetFiles ==
  /\ get.pc = "files"
  /\ LET mine == {p \in Package : pub[p] # "none" /\ \E j \in accepted :
                                    args[j].pkg = p /\ args[j].side = "apps"}
     IN get' = [get EXCEPT !.pc = IF \A p \in mine : Staged(p) THEN "ok" ELSE "error"]
  /\ UNCHANGED lock /\ GetOnly

\* ota_status runs ota-core status first: the records are read ...
GetOta ==
  /\ "ota" \in Readers /\ get.pc = "idle"
  /\ get' = [pc |-> "look", side |-> "ota", receipt |-> NoReceipt, seen |-> applied]
  /\ UNCHANGED lock /\ GetOnly

\* ... and the write lock is taken to learn whether it is free.
GetLook ==
  /\ get.pc = "look"
  /\ \/ lock = None /\ lock' = "get" /\ get' = [get EXCEPT !.pc = "peek"]
     \/ lock # None /\ get' = [get EXCEPT !.pc = "receipt"] /\ UNCHANGED lock
  /\ GetOnly

GetPeeked ==
  /\ get.pc = "peek" /\ lock' = None /\ get' = [get EXCEPT !.pc = "receipt"] /\ GetOnly

\* The receipt comes last, under _ota_lock.
GetReceipt ==
  /\ get.pc = "receipt" /\ post.pc = "idle"
  /\ get' = [get EXCEPT !.pc = "ok", !.receipt = rec["ota"]]
  /\ UNCHANGED lock /\ GetOnly

GetAnswered ==
  /\ get.pc \in {"ok", "error"} /\ get' = NoGet /\ UNCHANGED lock /\ GetOnly

Get ==
  \/ GetApps \/ GetInstalled \/ GetFiles
  \/ GetOta \/ GetLook \/ GetPeeked \/ GetReceipt \/ GetAnswered

-----------------------------------------------------------------------------
(* The surroundings. *)

\* A command of another interface takes the write lock, and gives it back.
OtherTakes ==
  /\ lock = None /\ lock' = "cli"
  /\ UNCHANGED <<board, worker, cores, files, requests, history>>

OtherEnds ==
  /\ lock = "cli" /\ lock' = None
  /\ UNCHANGED <<board, worker, cores, files, requests, history>>

\* Bug: a receipt is taken as it is.
RestoredAsIs(s) == disk[s]

\* Bug: an interrupted upload counts as failed.
RestoredUpload(s) ==
  IF disk[s].state = "running" THEN [disk[s] EXCEPT !.state = "unknown"]
  ELSE IF disk[s].state = "uploading" THEN [disk[s] EXCEPT !.state = "failed"]
  ELSE disk[s]

\* restore, restore_execution: an open receipt becomes unknown, on the app side
\* also in its file; incomplete files go.
Restored(s) ==
  IF disk[s].state \in {"uploading", "running"} THEN [disk[s] EXCEPT !.state = "unknown"]
  ELSE disk[s]

\* managementd is killed and started again.  Its threads are gone with the locks
\* they held; the cores they started run on.
Restart ==
  /\ restarts < MaxRestarts /\ restarts' = restarts + 1
  /\ rec' = [s \in Sides |-> Restored(s)]
  /\ disk' = [disk EXCEPT !["apps"] = Restored("apps")]
  /\ worker' = [j \in Job |-> "none"]
  /\ verified' = [p \in Package |-> None]
  /\ part' = [p \in Package |-> "none"]
  /\ lock' = IF lock \in {"post", "get"} \cup {j \in Job : core[j] = "none"}
             THEN None ELSE lock
  /\ post' = NoPost /\ get' = NoGet
  /\ UNCHANGED <<jobs, cores, content, pub, acked>>

Next ==
  \/ Post \/ Get \/ OtherTakes \/ OtherEnds \/ Restart
  \/ \E j \in Job : Core(j) \/ CoreKilled(j) \/ Work(j) \/ Timeout(j)

Spec == Init /\ [][Next]_vars

-----------------------------------------------------------------------------
(* Properties. *)

\* No two executions are open, whether both of apps, both of OTA or one of each,
\* although each module only looks at the other's receipt under its own lock: the
\* open one is the one on the board.
Board == IF Busy("apps") THEN rec["apps"] ELSE IF Busy("ota") THEN rec["ota"] ELSE NoReceipt

JobBoard == INSTANCE JobBoard WITH board <- Board.job, lost <- Board.state = "unknown"

\* managementd implements JobBoard: one execution at a time, known or acknowledged
\* before the next, over restarts and receipts that cannot be stored.
ImplementsBoard == JobBoard!Spec

\* A receipt says running exactly while a worker will still decide it: no worker overwrites
\* the receipt of a later execution, and none leaves its own behind.
WorkerOwnsReceipt ==
  \A j \in Job : worker[j] # "none" <=> \E s \in Sides : rec[s] = [job |-> j, state |-> "running"]

\* A receipt that says succeeded is of an operation that was carried out.
SucceededMeansDone ==
  \A s \in Sides : rec[s].state = "succeeded" /\ args[rec[s].job].op \in Mutating =>
    rec[s].job \in applied

\* "no incomplete package was published" (management_apps.py:594), whichever way an
\* upload or a download ends and whenever the daemon is restarted.
PublishedWhole == \A p \in Package : pub[p] # "partial"

\* What a receipt says is so, over failing stores, time-outs, other interfaces and restarts.
ReceiptsTrue == TypeOK /\ WorkerOwnsReceipt /\ SucceededMeansDone /\ PublishedWhole

\* Two core processes are alive at once only when the older one is an execution
\* that an administrator acknowledged as unknown.
OneCore ==
  \A i, j \in Job : i # j /\ core[i] \in Live /\ core[j] \in Live => {i, j} \cap acked # {}

\* An identity in _verified is that of the package's bytes, and these are staged and whole,
\* or the receipt still says running of the operation that has consumed them: then nothing
\* else may start.
VerifiedStaged ==
  \A p \in Package : verified[p] # None =>
    /\ verified[p] = content[p]
    /\ \/ Staged(p) /\ pub[p] = "whole"
       \/ \E j \in applied, s \in Sides :
            /\ args[j].op \in {"install", "update"} /\ args[j].pkg = p
            /\ rec[s] = [job |-> j, state |-> "running"]

\* What an installation or an update changed is the app its request named.
AppliedAsNamed ==
  \A j \in applied : args[j].op \in {"install", "update"} => content[args[j].pkg] = args[j].name

\* A restart neither closes an open execution nor reopens a closed one.
RestartKeepsReceipts ==
  [][restarts' # restarts =>
       \A s \in Sides : IF Busy(s) THEN rec'[s] = [job |-> rec[s].job, state |-> "unknown"]
                        ELSE rec'[s] = rec[s]]_vars

\* A status of the apps that says an operation succeeded shows the printer with it done:
\* "A worker finishing during those reads must leave this response running"
\* (management_apps.py:258).  The status of OTA does not keep this: ota_status reads its
\* receipt after the state.
AnswerPaired ==
  /\ get.pc = "ok" /\ get.side = "apps"
  /\ get.receipt.state = "succeeded" /\ args[get.receipt.job].op \in Mutating
  => get.receipt.job \in get.seen
=============================================================================
