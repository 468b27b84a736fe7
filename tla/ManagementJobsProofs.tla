------------------------- MODULE ManagementJobsProofs -------------------------
(* Proofs about ManagementJobs, for any executions, packages and names, and any     *)
(* number of restarts.                                                              *)
EXTENDS ManagementJobs, TLAPS

USE DEF vars, board, receipts, jobs, cores, processes, files, requests, history

-----------------------------------------------------------------------------
(* The inductive invariant. *)

\* A POST that receives a package.
Receiving == {"receive", "link", "linked", "verify"}

\* ... and may have it under its temporary name.
Publishing == {"receive", "link", "linked"}

\* Workers that have a file under its temporary name, perhaps.
Fetching == {"stream", "check", "publish", "unlink"}
Downloading == Fetching \cup {"lock"}

NeedsPackage == {"upload", "verify", "install", "update", "repository-download"}

\* The executions that were accepted, and those of the receipts.
Executions ==
  /\ \A s \in Sides : rec[s].job = None => rec[s].state = "none"
  /\ \A s \in Sides : rec[s].job # None => rec[s].job \in accepted /\ args[rec[s].job].side = s
  /\ \A j \in accepted : args[j].op \in NeedsPackage => args[j].pkg \in Package

\* A receipt is what its file says, or open in its file and unknown.
OnDisk ==
  \A s \in Sides :
    \/ disk[s] = rec[s]
    \/ /\ rec[s].state = "unknown"
       /\ disk[s].job = rec[s].job /\ disk[s].state \in {"uploading", "running"}

\* One execution is open; a request that was probed found none in its way, and one that
\* receives a package has its own.
OneOpen ==
  /\ ~(Busy("apps") /\ Busy("ota"))
  /\ post.pc \in {"probe", "ready"} => ~Busy("ota") /\ (post.side = "ota" => ~Busy("apps"))
  /\ post.pc \in Receiving =>
       /\ rec[post.side].job = post.job /\ rec[post.side].state = "uploading"
       /\ args[post.job].op = "upload" /\ post.job # None

\* Workers and receipts, field by field.
Workers ==
  /\ \A j \in Job : worker[j] # "none" => \E s \in Sides : rec[s].job = j /\ rec[s].state = "running"
  /\ \A s \in Sides : rec[s].state = "running" => worker[rec[s].job] # "none"
  /\ \A j \in Job : worker[j] \in Downloading =>
       args[j].op = "repository-download" /\ args[j].side = "apps"

\* What a core has done, and who still knows of it.
CoreOf(j) ==
  /\ j \notin accepted => core[j] = "none" /\ j \notin applied
  /\ core[j] \in Live =>
       \/ worker[j] = "wait"
       \/ /\ worker[j] = "none"
          /\ j \in acked \/ \E s \in Sides : rec[s].job = j /\ rec[s].state = "unknown"
  /\ core[j] \in {"locked", "applied"} => args[j].op \in Mutating
  /\ core[j] = "applied" => j \in applied
  /\ core[j] = "ok" => args[j].op = "verify" \/ j \in applied
  /\ worker[j] \in {"tail", "forget", "succeeded"} =>
       args[j].op \in {"verify", "repository-download"} \/ j \in applied
  /\ worker[j] = "forget" => args[j].op \in {"install", "update"}

Cores == \A j \in Job : CoreOf(j)

Succeeded ==
  \A s \in Sides : rec[s].state = "succeeded" =>
    args[rec[s].job].op \notin Mutating \/ rec[s].job \in applied

\* Its bytes were consumed, and its identity is about to be forgotten.
Consumed(p) == \E j \in Job : worker[j] = "forget" /\ args[j].pkg = p

\* The file of a package: who writes it, and what is known of it.
Packages ==
  \A p \in Package :
    /\ pub[p] # "partial"
    /\ pub[p] # "none" => \E j \in accepted : args[j].pkg = p
    /\ part[p] # "none" =>
         \/ post.pc \in Publishing /\ args[post.job].pkg = p
         \/ \E j \in Job : worker[j] \in Fetching /\ args[j].pkg = p
    /\ verified[p] # None =>
         part[p] = "none" /\ (pub[p] = "whole" \/ Consumed(p)) /\ verified[p] = content[p]

\* The files of an upload ...
Uploaded ==
  /\ post.pc = "receive" => part[args[post.job].pkg] = "partial"
  /\ post.pc \in {"link", "linked"} => part[args[post.job].pkg] = "whole"

\* ... and those of a worker.
FetchedBy(j) ==
  /\ worker[j] \in {"check", "publish", "unlink"} => part[args[j].pkg] = "whole"
  /\ worker[j] \in {"lock", "stream", "check", "publish"} => pub[args[j].pkg] = "none"
  /\ worker[j] \in {"lock", "stream"} =>
       \A i \in accepted : i # j => args[i].pkg # args[j].pkg
  /\ worker[j] = "unlink" => pub[args[j].pkg] = "whole"
  /\ /\ worker[j] = "tail" \/ (worker[j] = "wait" /\ core[j] = "ok")
     /\ args[j].side = "apps" /\ args[j].op \in {"verify", "repository-download"}
     => pub[args[j].pkg] = "whole"

Fetched == \A j \in Job : FetchedBy(j)

\* Installations and updates of the app that was asked for.
Named ==
  \A j \in accepted : args[j].op \in {"install", "update"} => content[args[j].pkg] = args[j].name

\* What a status has read so far.
Answers ==
  /\ get.pc \in {"read", "files"} => get.side = "apps"
  /\ get.pc \in {"look", "peek", "receipt"} => get.side = "ota"
  /\ get.side = "apps" /\ get.receipt.state = "succeeded" =>
       /\ get.receipt.job \in accepted
       /\ args[get.receipt.job].op \in Mutating =>
            /\ get.receipt.job \in applied
            /\ get.pc \in {"files", "ok"} => get.receipt.job \in get.seen

BoardInv == Executions /\ OnDisk /\ OneOpen /\ Workers
CoreInv == Cores /\ Succeeded
FileInv == Packages /\ Uploaded /\ Fetched /\ Named

Inv == TypeOK /\ BoardInv /\ CoreInv /\ FileInv /\ Answers

-----------------------------------------------------------------------------
(* The initial state satisfies it. *)

LEMMA InvInit == Init => Inv
<1> SUFFICES ASSUME Init PROVE Inv
  OBVIOUS
<1>1. TypeOK
  BY JobAssumption DEF Init, TypeOK, NoReceipt, Receipt, Stored, Args, Fresh, Sides, Ops, WorkerSteps, Live,
     Bytes, NoPost, NoGet
<1>2. BoardInv
  BY DEF Init, BoardInv, Executions, OnDisk, OneOpen, Workers, NoReceipt, Busy, Blocking, NoPost, Sides,
     Receiving, Downloading, Fetching, Publishing
<1>3. CoreInv
  BY DEF Init, CoreInv, Cores, CoreOf, Succeeded, NoReceipt, Live
<1>4. FileInv
  BY DEF Init, FileInv, Packages, Uploaded, Fetched, FetchedBy, Named, NoPost, Fetching, Publishing
<1>5. Answers
  BY DEF Init, Answers, NoGet, NoReceipt
<1> QED
  BY <1>1, <1>2, <1>3, <1>4, <1>5 DEF Inv

-----------------------------------------------------------------------------
(* Facts about states and steps. *)

\* There is at most one worker, and none beside a request that receives a package or
\* finds nothing open.
LEMMA OneWorker ==
  ASSUME Inv
  PROVE  /\ \A i, j \in Job : worker[i] # "none" /\ worker[j] # "none" => i = j
         /\ post.pc \in Receiving \/ (~Busy("apps") /\ ~Busy("ota")) => \A j \in Job : worker[j] = "none"
BY DEF Inv, BoardInv, OneOpen, Workers, Busy, Blocking, Sides, TypeOK

\* The receipt of a worker is the one of its side.
LEMMA WorkerReceipt ==
  ASSUME Inv, NEW j \in Job, worker[j] # "none"
  PROVE  /\ args[j].side \in Sides /\ j \in accepted
         /\ rec[args[j].side].job = j /\ rec[args[j].side].state = "running"
<1>1. PICK s \in Sides : rec[s].job = j /\ rec[s].state = "running"
  BY DEF Inv, BoardInv, Workers
<1>2. j # None
  BY JobAssumption
<1>3. j \in accepted /\ args[j].side = s
  BY <1>1, <1>2 DEF Inv, BoardInv, Executions
<1> QED
  BY <1>1, <1>3

\* What storing a receipt does.
LEMMA Stores ==
  ASSUME TypeOK, NEW s \in Sides, NEW j \in Job \cup {None}, NEW state \in Stored, Store(s, j, state)
  PROVE  /\ rec' \in [Sides -> Receipt] /\ disk' \in [Sides -> Receipt]
         /\ rec'[s].job = j /\ rec'[s].state = state /\ disk'[s] = rec'[s]
         /\ \A t \in Sides : t # s => rec'[t] = rec[t] /\ disk'[t] = disk[t]
<1>1. [job |-> j, state |-> state] \in Receipt
  BY DEF Receipt
<1>2. rec' = [rec EXCEPT ![s] = [job |-> j, state |-> state]] /\ disk' = [disk EXCEPT ![s] = rec'[s]]
  BY DEF Store
<1>3. rec'[s] = [job |-> j, state |-> state] /\ rec' \in [Sides -> Receipt]
  BY <1>1, <1>2 DEF TypeOK
<1> QED
  BY <1>2, <1>3 DEF TypeOK

\* What accepting an execution does.
LEMMA Accepts ==
  ASSUME Inv, NEW j \in Job, NEW a \in Args, Accept(j, a)
  PROVE  /\ j \notin accepted /\ accepted' = accepted \cup {j} /\ accepted' \subseteq Job
         /\ args' \in [Job -> Args] /\ args'[j] = a /\ \A i \in Job : i # j => args'[i] = args[i]
         /\ worker[j] = "none" /\ core[j] = "none" /\ j \notin applied
         /\ \A s \in Sides : rec[s].job # j
<1>1. j \notin accepted
  BY DEF Accept
<1>2. \A s \in Sides : rec[s].job # j
  BY <1>1, JobAssumption DEF Inv, BoardInv, Executions
<1>3. worker[j] = "none"
  BY <1>2 DEF Inv, BoardInv, Workers
<1> QED
  BY <1>1, <1>2, <1>3 DEF Inv, TypeOK, CoreInv, Cores, CoreOf, Accept

\* Answers stand while executions only are added.
LEMMA AnswersKept ==
  ASSUME Inv, UNCHANGED get, accepted \subseteq accepted', applied \subseteq applied',
         \A i \in accepted : args'[i] = args[i]
  PROVE  Answers'
BY DEF Inv, Answers, TypeOK

\* Steps that leave the board and the workers alone, but for the end of a request.
LEMMA BoardKept ==
  ASSUME Inv, UNCHANGED <<rec, disk, accepted, args, worker>>,
         \/ post' = post
         \/ post'.pc = "idle"
         \/ post'.pc \in Receiving /\ post.pc \in Receiving /\ post'.side = post.side /\ post'.job = post.job
  PROVE  BoardInv'
BY DEF Inv, BoardInv, Executions, OnDisk, OneOpen, Workers, Busy, Receiving

LEMMA CoreKept ==
  ASSUME Inv, UNCHANGED <<rec, accepted, args, worker, core, applied, acked>>
  PROVE  CoreInv'
BY DEF Inv, CoreInv, Cores, CoreOf, Succeeded

\* Steps that leave the files alone.
LEMMA FileKept ==
  ASSUME Inv, UNCHANGED <<accepted, args, worker, content, part, pub, verified>>,
         \A j \in Job : worker[j] = "wait" /\ core'[j] = "ok" => core[j] = "ok",
         post' = post \/ (post.pc \notin Publishing /\ post'.pc \notin Publishing)
  PROVE  FileInv'
<1>1. Packages'
  BY DEF Inv, FileInv, Packages, Consumed, Publishing
<1>2. Uploaded'
  BY DEF Inv, FileInv, Uploaded, Publishing
<1>3. Fetched' /\ Named'
  BY DEF Inv, FileInv, Fetched, FetchedBy, Named
<1> QED
  BY <1>1, <1>2, <1>3 DEF FileInv

-----------------------------------------------------------------------------
(* Accepting an execution. *)

\* Nothing is open, or the upload of the side is that goes on as its verification.
Free(s) ==
  \/ post.pc = "ready" /\ ~Busy("apps") /\ ~Busy("ota")
  \/ post.pc = "verify" /\ s = post.side

LEMMA OpenedBoard ==
  ASSUME Inv, NEW s \in Sides, NEW j \in Job, NEW a \in Args, NEW state \in {"uploading", "running"},
         NEW w \in {"none", "start", "lock"},
         Free(s), Accept(j, a), Store(s, j, state), a.side = s,
         a.op \in NeedsPackage => a.pkg \in Package,
         worker' = [worker EXCEPT ![j] = w], w = "none" <=> state = "uploading",
         w = "lock" => a.op = "repository-download" /\ s = "apps",
         \/ post'.pc = "idle"
         \/ /\ state = "uploading" /\ a.op = "upload"
            /\ post'.pc \in Receiving /\ post'.side = s /\ post'.job = j
  PROVE  BoardInv'
<1>1. /\ rec'[s].job = j /\ rec'[s].state = state /\ disk'[s] = rec'[s]
      /\ \A t \in Sides : t # s => rec'[t] = rec[t] /\ disk'[t] = disk[t]
  BY Stores DEF Inv, Stored
<1>2. /\ accepted' = accepted \cup {j} /\ args'[j] = a /\ \A i \in Job : i # j => args'[i] = args[i]
      /\ \A t \in Sides : rec[t].job # j
  BY Accepts
<1>3. \A i \in Job : i # j => worker[i] = "none"
  BY OneWorker DEF Free, Receiving
<1>4. worker'[j] = w /\ \A i \in Job : i # j => worker'[i] = "none"
  BY <1>3 DEF Inv, TypeOK
<1>5. j # None
  BY JobAssumption
<1>6. \A t \in Sides : t # s => ~Busy(t)
  BY DEF Free, Inv, BoardInv, OneOpen, Busy, Blocking, Sides, Receiving
<1>7. Executions'
  BY <1>1, <1>2, <1>5 DEF Inv, BoardInv, Executions, TypeOK
<1>8. OnDisk'
  BY <1>1 DEF Inv, BoardInv, OnDisk
<1>9. OneOpen'
  BY <1>1, <1>2, <1>5, <1>6 DEF OneOpen, Busy, Blocking, Sides, Receiving
<1>10. Workers'
  <2>1. \A t \in Sides : t # s => rec'[t].state # "running"
    BY <1>1, <1>6 DEF Busy, Blocking
  <2> QED
    BY <1>1, <1>2, <1>4, <2>1 DEF Workers, Downloading, Fetching, Publishing
<1> QED
  BY <1>7, <1>8, <1>9, <1>10 DEF BoardInv

LEMMA OpenedCore ==
  ASSUME Inv, NEW s \in Sides, NEW j \in Job, NEW a \in Args, NEW state \in {"uploading", "running"},
         NEW w \in {"none", "start", "lock"},
         Free(s), Accept(j, a), Store(s, j, state),
         worker' = [worker EXCEPT ![j] = w], UNCHANGED <<core, applied, acked>>
  PROVE  CoreInv'
<1>1. /\ rec'[s].job = j /\ rec'[s].state = state
      /\ \A t \in Sides : t # s => rec'[t] = rec[t]
  BY Stores DEF Inv, Stored
<1>2. /\ accepted' = accepted \cup {j} /\ args'[j] = a /\ \A i \in Job : i # j => args'[i] = args[i]
      /\ core[j] = "none" /\ \A t \in Sides : rec[t].job # j
  BY Accepts
<1>3. worker'[j] = w /\ \A i \in Job : i # j => worker'[i] = worker[i]
  BY DEF Inv, TypeOK
<1>4. rec[s].state # "unknown"
  BY DEF Free, Inv, BoardInv, OneOpen, Busy, Blocking, Sides, Receiving
<1>5. Cores'
  <2> SUFFICES ASSUME NEW i \in Job PROVE CoreOf(i)'
    BY DEF Cores, CoreOf
  <2>1. CASE i = j
    BY <1>2, <1>3, <2>1 DEF CoreOf, Live
  <2>2. CASE i # j
    BY <1>1, <1>2, <1>3, <1>4, <2>2 DEF Inv, CoreInv, Cores, CoreOf
  <2> QED
    BY <2>1, <2>2
<1>6. Succeeded'
  BY <1>1, <1>2 DEF Inv, CoreInv, Succeeded, BoardInv, Executions, TypeOK, Receipt
<1> QED
  BY <1>5, <1>6 DEF CoreInv

LEMMA OpenedFiles ==
  ASSUME Inv, NEW s \in Sides, NEW j \in Job, NEW a \in Args, NEW w \in {"start", "lock"},
         Free(s), Accept(j, a), worker' = [worker EXCEPT ![j] = w], post'.pc = "idle",
         a.op \in {"install", "update"} => content[a.pkg] = a.name,
         w = "lock" => a.pkg \in Package /\ \A i \in accepted : args[i].pkg # a.pkg,
         UNCHANGED <<core, content, part, pub, verified>>
  PROVE  FileInv'
<1>1. /\ j \notin accepted /\ accepted' = accepted \cup {j} /\ args'[j] = a
      /\ \A i \in Job : i # j => args'[i] = args[i]
  BY Accepts
<1>2. \A i \in Job : worker[i] = "none"
  BY OneWorker DEF Free, Receiving
<1>3. worker'[j] = w /\ \A i \in Job : i # j => worker'[i] = "none"
  BY <1>2 DEF Inv, TypeOK
<1>4. \A p \in Package : part[p] = "none"
  BY <1>2 DEF Free, Inv, FileInv, Packages, Fetching, Publishing
<1>5. Packages'
  BY <1>1, <1>2, <1>4 DEF Inv, FileInv, Packages, Consumed, TypeOK
<1>6. Uploaded'
  BY DEF Uploaded
<1>7. Fetched'
  BY <1>1, <1>3 DEF Inv, FileInv, Packages, Fetched, FetchedBy, TypeOK
<1>8. Named'
  BY <1>1 DEF Inv, FileInv, Named, TypeOK
<1> QED
  BY <1>5, <1>6, <1>7, <1>8 DEF FileInv

-----------------------------------------------------------------------------
(* Steps keep the types. *)

\* The upload a request receives.
LEMMA Uploading ==
  ASSUME Inv, post.pc \in Receiving
  PROVE  /\ post.side \in Sides /\ post.job \in Job /\ post.job \in accepted
         /\ rec[post.side].job = post.job /\ rec[post.side].state = "uploading"
         /\ args[post.job].op = "upload" /\ args[post.job].pkg \in Package
         /\ args[post.job].side = post.side
<1>1. /\ post.side \in Sides /\ post.job \in Job /\ rec[post.side].job = post.job
      /\ rec[post.side].state = "uploading" /\ args[post.job].op = "upload" /\ post.job # None
  BY DEF Inv, TypeOK, BoardInv, OneOpen
<1> QED
  BY <1>1 DEF Inv, BoardInv, Executions, NeedsPackage

LEMMA TypePost == ASSUME Inv, Post PROVE TypeOK'
<1>a. ASSUME NEW j \in Job, NEW a \in Args, Accept(j, a)
      PROVE  accepted' \subseteq Job /\ args' \in [Job -> Args]
  BY <1>a, Accepts
<1>s. ASSUME NEW s \in Sides, NEW j \in Job \cup {None}, NEW state \in Stored, Store(s, j, state)
      PROVE  rec' \in [Sides -> Receipt] /\ disk' \in [Sides -> Receipt]
  BY <1>s, Stores DEF Inv
<1>n. NoPost \in [pc : {"idle", "probe", "ready", "receive", "link", "linked", "verify"},
                  side : Sides, job : Job \cup {None}]
  BY DEF NoPost, Sides
<1> USE DEF Inv, TypeOK
<1>1. ASSUME NEW s \in Sides, Probe(s) PROVE TypeOK'
  BY <1>1 DEF Probe
<1>2. CASE Probed \/ Refuse
  BY <1>2, <1>n DEF Probed, Refuse
<1>3. CASE Acknowledge
  <2>1. rec["apps"].job \in Job \cup {None} /\ "apps" \in Sides
    BY DEF Sides, Receipt
  <2>2. acked' \subseteq Job
    <3>1. rec["apps"].job # None
      BY <1>3, <2>1 DEF Acknowledge, BoardInv, Executions
    <3> QED
      BY <1>3, <2>1, <3>1 DEF Acknowledge
  <2> QED
    BY <1>3, <1>n, <1>s, <2>1, <2>2 DEF Acknowledge, Stored
<1>4. ASSUME NEW j \in Job, NEW a \in Args, Start(j, a) PROVE TypeOK'
  BY <1>4, <1>a, <1>n, <1>s DEF Start, Sides, Stored, WorkerSteps
<1>5. ASSUME NEW j \in Job, StartOta(j) PROVE TypeOK'
  <2>1. [side |-> "ota", op |-> "ota", pkg |-> None, name |-> None] \in Args
    BY DEF Args, Sides, Ops
  <2> QED
    BY <1>5, <1>a, <1>n, <1>s, <2>1 DEF StartOta, Sides, Stored, WorkerSteps
<1>6. ASSUME NEW j \in Job, NEW n \in Name, NEW p \in Package, StartDownload(j, n, p) PROVE TypeOK'
  <2>1. [side |-> "apps", op |-> "repository-download", pkg |-> p, name |-> n] \in Args
    BY DEF Args, Sides, Ops
  <2> QED
    BY <1>6, <1>a, <1>n, <1>s, <2>1 DEF StartDownload, Sides, Stored, WorkerSteps
<1>7. ASSUME NEW j \in Job, NEW p \in Package, NEW c \in Name \cup {None}, Upload(j, p, c) PROVE TypeOK'
  <2>1. [side |-> post.side, op |-> "upload", pkg |-> p, name |-> None] \in Args
    BY DEF Args, Ops
  <2> QED
    BY <1>7, <1>a, <1>s, <2>1 DEF Upload, Stored, Bytes
<1>8. ASSUME NEW j \in Job, StartVerify(j) PROVE TypeOK'
  <2>1. [side |-> post.side, op |-> "verify", pkg |-> args[post.job].pkg, name |-> None] \in Args
    BY <1>8, Uploading DEF StartVerify, Receiving, Args, Ops
  <2> QED
    BY <1>8, <1>a, <1>n, <1>s, <2>1 DEF StartVerify, Stored, WorkerSteps
<1>9. ASSUME NEW p \in Package, Discard(p) PROVE TypeOK'
  BY <1>9, <1>n DEF Discard, Bytes
<1>10. CASE Received \/ Link \/ Unlink
  <2>1. args[post.job].pkg \in Package
    BY <1>10, Uploading DEF Received, Link, Unlink, Receiving
  <2> QED
    BY <1>10, <2>1 DEF Received, Link, Unlink, Bytes
<1>11. CASE UploadFails
  <2>1. args[post.job].pkg \in Package /\ post.job \in Job
    BY <1>11, Uploading DEF UploadFails, Receiving
  <2> QED
    BY <1>11, <1>n, <1>s, <2>1 DEF UploadFails, Bytes, Stored
<1> QED
  BY <1>1, <1>2, <1>3, <1>4, <1>5, <1>6, <1>7, <1>8, <1>9, <1>10, <1>11 DEF Post

LEMMA TypeCore == ASSUME Inv, NEW j \in Job, Core(j) \/ CoreKilled(j) \/ Timeout(j) PROVE TypeOK'
<1>1. ASSUME NEW from, NEW to \in Live \cup {"none", "ok", "fail", "killed"}, CoreGoes(j, from, to)
      PROVE  core' \in [Job -> Live \cup {"none", "ok", "fail", "killed"}]
  BY <1>1 DEF CoreGoes, Inv, TypeOK
<1>2. Release(j) => lock' \in Job \cup {None, "post", "get", "cli"}
  BY DEF Release, Inv, TypeOK
<1>3. CASE Core(j) \/ CoreKilled(j)
  BY <1>1, <1>2, <1>3 DEF Core, CoreKilled, CoreLocks, CoreApplies, CoreVerifies, CoreRejects, CoreEnds, CoreOnly,
     Inv, TypeOK, Live
<1>4. CASE Timeout(j)
  BY <1>1, <1>2, <1>4 DEF Timeout, Inv, TypeOK, WorkerSteps
<1> QED
  BY <1>3, <1>4

\* The package of a worker that needs one.
LEMMA WorkerPackage ==
  ASSUME Inv, NEW j \in Job, worker[j] # "none", args[j].op \in NeedsPackage
  PROVE  args[j].pkg \in Package
BY WorkerReceipt DEF Inv, BoardInv, Executions

LEMMA Downloads ==
  ASSUME Inv, NEW j \in Job, worker[j] \in Downloading
  PROVE  args[j].op = "repository-download" /\ args[j].side = "apps" /\ args[j].pkg \in Package
<1>1. args[j].op = "repository-download" /\ args[j].side = "apps"
  BY DEF Inv, BoardInv, Workers
<1> QED
  BY <1>1, WorkerPackage DEF Downloading, Fetching, NeedsPackage

LEMMA TypeWork == ASSUME Inv, NEW j \in Job, Work(j) PROVE TypeOK'
<1> USE DEF Inv, TypeOK
<1>1. CASE Spawn(j) \/ Reap(j)
  BY <1>1 DEF Spawn, Reap, WorkerSteps, Live
<1>2. CASE Tail(j) \/ Forget(j)
  <2> DEFINE p == args[j].pkg
  <2>1. /\ args[j].op \in {"verify", "repository-download", "install", "update"} => p \in Package
        /\ worker[j] = "forget" => p \in Package
    BY <1>2, WorkerPackage DEF Tail, Forget, NeedsPackage, CoreInv, Cores, CoreOf
  <2>2. worker' \in [Job -> WorkerSteps]
    BY <1>2 DEF Tail, Forget, WorkerSteps
  <2>3. \/ UNCHANGED <<verified, pub>>
        \/ /\ p \in Package
           /\ verified' \in {verified, [verified EXCEPT ![p] = content[p]], [verified EXCEPT ![p] = None]}
           /\ pub' \in {pub, [pub EXCEPT ![p] = "none"]}
    BY <1>2, <2>1 DEF Tail, Forget
  <2> HIDE DEF p
  <2>4. verified' \in [Package -> Name \cup {None}] /\ pub' \in [Package -> Bytes]
    BY <2>3 DEF Bytes
  <2> QED
    BY <1>2, <2>2, <2>4 DEF Tail, Forget
<1>3. CASE Record(j)
  <2>1. args[j].side \in Sides /\ worker[j] \in Stored
    BY <1>3, WorkerReceipt DEF Record, Stored
  <2>2. rec' \in [Sides -> Receipt] /\ disk' \in [Sides -> Receipt]
    <3>1. CASE Store(args[j].side, j, worker[j])
      BY <2>1, <3>1, Stores
    <3>2. CASE ~Store(args[j].side, j, worker[j])
      <4>1. [job |-> j, state |-> "unknown"] \in Receipt
        BY DEF Receipt, Stored
      <4>2. rec' = [rec EXCEPT ![args[j].side] = [job |-> j, state |-> "unknown"]] /\ UNCHANGED disk
        BY <1>3, <3>2 DEF Record, StoreOutcome
      <4> QED
        BY <4>1, <4>2
    <3> QED
      BY <3>1, <3>2
  <2> QED
    BY <1>3, <2>2 DEF Record, WorkerSteps
<1>4. CASE worker[j] \in Downloading
  <2>1. args[j].pkg \in Package
    BY <1>4, Downloads
  <2>2. CASE DownloadLock(j) \/ DownloadEnds(j) \/ DownloadChecked(j)
    BY <2>1, <2>2 DEF DownloadLock, DownloadEnds, DownloadChecked, WorkerSteps, Bytes
  <2>3. ASSUME NEW c \in Name \cup {None}, DownloadBegins(j, c) PROVE TypeOK'
    BY <2>1, <2>3 DEF DownloadBegins, Bytes
  <2>4. CASE DownloadPublished(j) \/ DownloadUnlinked(j) \/ DownloadFails(j)
    BY <2>1, <2>4 DEF DownloadPublished, DownloadUnlinked, DownloadFails, Release, WorkerSteps, Bytes
  <2> QED
    BY <1>1, <1>2, <1>3, <2>2, <2>3, <2>4 DEF Work
<1> QED
  BY <1>1, <1>2, <1>3, <1>4 DEF Work, DownloadLock, DownloadEnds, DownloadChecked, DownloadBegins, DownloadPublished,
     DownloadUnlinked, DownloadFails, Downloading, Fetching

LEMMA TypeOther == ASSUME Inv, Get \/ OtherTakes \/ OtherEnds \/ UNCHANGED vars PROVE TypeOK'
<1> USE DEF Inv, TypeOK
<1> DEFINE Gets == [pc : {"idle", "read", "files", "look", "peek", "receipt", "ok", "error"}, side : Sides,
                    receipt : Receipt, seen : SUBSET Job]
<1>1. NoReceipt \in Receipt /\ NoGet \in Gets /\ "apps" \in Sides /\ "ota" \in Sides
  BY DEF NoGet, NoReceipt, Receipt, Sides
<1>2. CASE GetApps \/ GetInstalled
  <2>1. GetApps => get' \in Gets
    BY <1>1 DEF GetApps
  <2>2. GetInstalled => get' \in Gets
    BY DEF GetInstalled
  <2>3. get' \in Gets
    BY <1>2, <2>1, <2>2
  <2> QED
    BY <1>2, <2>3 DEF GetApps, GetInstalled, GetOnly
<1>3. CASE GetFiles
  <2> DEFINE mine == {p \in Package : pub[p] # "none" /\ \E j \in accepted :
                                        args[j].pkg = p /\ args[j].side = "apps"}
             all == \A p \in mine : Staged(p)
  <2>1. get' = [get EXCEPT !.pc = IF all THEN "ok" ELSE "error"]
    BY <1>3 DEF GetFiles
  <2> HIDE DEF all
  <2>2. get' \in Gets
    BY <2>1
  <2> QED
    BY <1>3, <2>2 DEF GetFiles, GetOnly
<1>4. CASE GetOta \/ GetLook \/ GetPeeked
  <2>1. get' \in Gets
    BY <1>1, <1>4 DEF GetOta, GetLook, GetPeeked
  <2>2. lock' \in Job \cup {None, "post", "get", "cli"}
    BY <1>4 DEF GetOta, GetLook, GetPeeked
  <2> QED
    BY <1>4, <2>1, <2>2 DEF GetOta, GetLook, GetPeeked, GetOnly
<1>5. CASE GetReceipt \/ GetAnswered
  <2>1. get' \in Gets
    BY <1>1, <1>5 DEF GetReceipt, GetAnswered
  <2> QED
    BY <1>5, <2>1 DEF GetReceipt, GetAnswered, GetOnly
<1>6. CASE OtherTakes \/ OtherEnds \/ UNCHANGED vars
  BY <1>6 DEF OtherTakes, OtherEnds
<1> QED
  BY <1>2, <1>3, <1>4, <1>5, <1>6 DEF Get

LEMMA TypeRestart == ASSUME Inv, Restart PROVE TypeOK'
<1>1. \A s \in Sides : Restored(s) \in Receipt
  BY DEF Inv, TypeOK, Restored, Receipt, Stored
<1>2. "apps" \in Sides
  BY DEF Sides
<1>3. restarts' \in 0..MaxRestarts
  BY JobAssumption DEF Inv, TypeOK, Restart
<1> QED
  BY <1>1, <1>2, <1>3 DEF Inv, TypeOK, Restart, WorkerSteps, Bytes, NoPost, NoGet, NoReceipt, Receipt, Sides

-----------------------------------------------------------------------------
(* Requests that change something keep the rest of it. *)

Rest == BoardInv /\ CoreInv /\ FileInv /\ Answers

LEMMA OpenNext ==
  ASSUME Inv, NEW j \in Job,
         \/ \E a \in Args : Start(j, a)
         \/ StartOta(j)
         \/ \E n \in Name, p \in Package : StartDownload(j, n, p)
         \/ StartVerify(j)
  PROVE  Rest'
<1>1. ASSUME NEW s \in Sides, NEW a \in Args, NEW w \in {"start", "lock"}, Free(s), Accept(j, a),
             Store(s, j, "running"), a.side = s, a.op \in NeedsPackage => a.pkg \in Package,
             worker' = [worker EXCEPT ![j] = w], w = "lock" => a.op = "repository-download" /\ s = "apps",
             a.op \in {"install", "update"} => content[a.pkg] = a.name,
             w = "lock" => a.pkg \in Package /\ \A i \in accepted : args[i].pkg # a.pkg,
             post' = NoPost, UNCHANGED <<core, applied, acked, content, part, pub, verified, get>>
      PROVE  Rest'
  <2>1. post'.pc = "idle"
    BY <1>1 DEF NoPost
  <2>2. BoardInv'
    BY <1>1, <2>1, OpenedBoard
  <2>3. CoreInv'
    BY <1>1, OpenedCore
  <2>4. FileInv'
    BY <1>1, <2>1, OpenedFiles
  <2>5. Answers'
    BY <1>1, Accepts, AnswersKept DEF Inv, TypeOK
  <2> QED
    BY <2>2, <2>3, <2>4, <2>5 DEF Rest
<1>2. post.pc = "ready" => ~Busy("ota") /\ (post.side = "ota" => ~Busy("apps"))
  BY DEF Inv, BoardInv, OneOpen
<1>3. ASSUME NEW a \in Args, Start(j, a) PROVE Rest'
  <2>1. Free("apps") /\ "apps" \in Sides
    BY <1>2, <1>3 DEF Start, Free, Sides
  <2>2. a.op \in NeedsPackage => a.pkg \in Package
    BY <1>3 DEF Start, Startable, NeedsPackage
  <2>3. a.op \in {"install", "update"} => content[a.pkg] = a.name
    BY <1>3 DEF Start, Startable, Inv, FileInv, Packages
  <2> QED
    BY <1>1, <1>3, <2>1, <2>2, <2>3 DEF Start
<1>4. ASSUME StartOta(j) PROVE Rest'
  <2> DEFINE a == [side |-> "ota", op |-> "ota", pkg |-> None, name |-> None]
  <2>1. a \in Args /\ a.side = "ota" /\ a.op = "ota"
    BY DEF Args, Sides, Ops
  <2>2. Accept(j, a) /\ Free("ota") /\ "ota" \in Sides
    BY <1>2, <1>4 DEF StartOta, Free, Sides
  <2> HIDE DEF a
  <2>3. a.op \notin NeedsPackage
    BY <2>1 DEF NeedsPackage
  <2> QED
    BY <1>1, <1>4, <2>1, <2>2, <2>3 DEF StartOta
<1>5. ASSUME NEW n \in Name, NEW p \in Package, StartDownload(j, n, p) PROVE Rest'
  <2> DEFINE a == [side |-> "apps", op |-> "repository-download", pkg |-> p, name |-> n]
  <2>1. a \in Args /\ a.side = "apps" /\ a.op = "repository-download" /\ a.pkg = p
    BY DEF Args, Sides, Ops
  <2>2. Accept(j, a) /\ Free("apps") /\ "apps" \in Sides
    BY <1>2, <1>5 DEF StartDownload, Free, Sides
  <2>3. \A i \in accepted : args[i].pkg # p
    BY <1>5 DEF StartDownload, UsedPackages
  <2> HIDE DEF a
  <2> QED
    BY <1>1, <1>5, <2>1, <2>2, <2>3 DEF StartDownload
<1>6. ASSUME StartVerify(j) PROVE Rest'
  <2> DEFINE a == [side |-> post.side, op |-> "verify", pkg |-> args[post.job].pkg, name |-> None]
  <2>1. args[post.job].pkg \in Package /\ post.side \in Sides
    BY <1>6, Uploading DEF StartVerify, Receiving
  <2>2. a \in Args /\ a.side = post.side /\ a.op = "verify" /\ a.pkg \in Package
    BY <2>1 DEF Args, Ops
  <2>3. Accept(j, a) /\ Free(post.side)
    BY <1>6 DEF StartVerify, Free
  <2> HIDE DEF a
  <2> QED
    BY <1>1, <1>6, <2>1, <2>2, <2>3 DEF StartVerify
<1> QED
  BY <1>3, <1>4, <1>5, <1>6

LEMMA UploadNext ==
  ASSUME Inv, NEW j \in Job, NEW p \in Package, NEW c \in Name \cup {None}, Upload(j, p, c)
  PROVE  Rest'
<1> DEFINE a == [side |-> post.side, op |-> "upload", pkg |-> p, name |-> None]
<1>1. a \in Args /\ a.side = post.side /\ a.op = "upload" /\ a.pkg = p /\ post.side \in Sides
  BY DEF Args, Ops, Inv, TypeOK
<1>2. Accept(j, a) /\ Store(post.side, j, "uploading") /\ UNCHANGED <<worker, core, applied, acked, pub, verified, get>>
  BY <1>1 DEF Upload
<1> HIDE DEF a
<1>3. Free(post.side) /\ post.pc = "ready"
  BY <1>1 DEF Upload, Free, Inv, BoardInv, OneOpen, Sides
<1>4. /\ j \notin accepted /\ accepted' = accepted \cup {j} /\ args'[j] = a
      /\ \A i \in Job : i # j => args'[i] = args[i]
      /\ worker[j] = "none"
  BY <1>1, <1>2, Accepts
<1>5. worker' = [worker EXCEPT ![j] = "none"]
  BY <1>2, <1>4 DEF Inv, TypeOK
<1>6. post'.pc = "receive" /\ post'.side = post.side /\ post'.job = j
  BY DEF Upload, Inv, TypeOK
<1>7. BoardInv'
  BY <1>1, <1>2, <1>3, <1>5, <1>6, OpenedBoard DEF Receiving
<1>8. CoreInv'
  BY <1>1, <1>2, <1>3, <1>5, OpenedCore
<1>9. Answers'
  BY <1>2, <1>4, AnswersKept DEF Inv, TypeOK
<1>10. /\ part'[p] = "partial" /\ content'[p] = c
       /\ \A q \in Package : q # p => part'[q] = part[q] /\ content'[q] = content[q]
  BY DEF Upload, Inv, TypeOK
<1>11. \A i \in accepted : args[i].pkg # p
  BY DEF Upload, UsedPackages
<1>12. \A i \in Job : worker[i] = "none"
  BY <1>3, OneWorker DEF Free, Receiving
<1>13. pub[p] = "none" /\ verified[p] = None
  BY <1>11, <1>12 DEF Inv, FileInv, Packages, Consumed
<1>14. Packages'
  <2> SUFFICES ASSUME NEW q \in Package
               PROVE  /\ pub[q] # "partial"
                      /\ pub[q] # "none" => \E i \in accepted' : args'[i].pkg = q
                      /\ part'[q] # "none" => q = p
                      /\ verified[q] # None => part'[q] = "none" /\ pub[q] = "whole" /\ verified[q] = content'[q]
    BY <1>1, <1>2, <1>4, <1>6 DEF Packages, Publishing
  <2>1. q # p => part[q] = "none"
    BY <1>3, <1>12 DEF Inv, FileInv, Packages, Publishing, Fetching
  <2>2. pub[q] # "none" => \E i \in accepted' : args'[i].pkg = q
    BY <1>4 DEF Inv, TypeOK, FileInv, Packages
  <2> QED
    BY <1>10, <1>12, <1>13, <2>1, <2>2 DEF Inv, FileInv, Packages, Consumed
<1>15. Uploaded'
  BY <1>1, <1>4, <1>6, <1>10 DEF Uploaded
<1>16. Fetched'
  BY <1>2, <1>12 DEF Fetched, FetchedBy
<1>17. Named'
  <2> SUFFICES ASSUME NEW i \in accepted', args'[i].op \in {"install", "update"}
               PROVE  content'[args'[i].pkg] = args'[i].name
    BY DEF Named
  <2>1. i \in accepted /\ args'[i] = args[i]
    BY <1>1, <1>4 DEF Inv, TypeOK
  <2>2. args[i].pkg \in Package /\ args[i].pkg # p
    BY <1>11, <2>1 DEF Inv, BoardInv, Executions, NeedsPackage
  <2> QED
    BY <1>10, <2>1, <2>2 DEF Inv, FileInv, Named
<1> QED
  BY <1>7, <1>8, <1>9, <1>14, <1>15, <1>16, <1>17 DEF Rest, FileInv

LEMMA ReceiveNext == ASSUME Inv, Received \/ Link \/ Unlink PROVE Rest'
<1> DEFINE p == args[post.job].pkg
<1>1. post.pc \in {"receive", "link", "linked"} /\ UNCHANGED <<board, processes, content, verified, get, history>>
  BY DEF Received, Link, Unlink
<1>2. /\ post'.side = post.side /\ post'.job = post.job
      /\ \/ post.pc = "receive" /\ post'.pc = "link" /\ part' = [part EXCEPT ![p] = "whole"] /\ pub' = pub
         \/ post.pc = "link" /\ post'.pc = "linked" /\ pub' = [pub EXCEPT ![p] = part[p]] /\ part' = part
         \/ post.pc = "linked" /\ post'.pc = "verify" /\ part' = [part EXCEPT ![p] = "none"] /\ pub' = pub
  <2>1. \E pc \in {"link", "linked", "verify"} : post' = [post EXCEPT !.pc = pc]
    BY DEF Received, Link, Unlink
  <2>2. post'.side = post.side /\ post'.job = post.job
    BY <2>1 DEF Inv, TypeOK
  <2>3. CASE Received
    BY <2>2, <2>3 DEF Received, Inv, TypeOK
  <2>4. CASE Link
    BY <2>2, <2>4 DEF Link, Inv, TypeOK
  <2>5. CASE Unlink
    BY <2>2, <2>5 DEF Unlink, Inv, TypeOK
  <2> QED
    BY <2>3, <2>4, <2>5
<1>3. p \in Package /\ post.job \in accepted
  BY <1>1, Uploading DEF Receiving
<1>4. BoardInv'
  BY <1>1, <1>2, BoardKept DEF Receiving
<1>5. CoreInv' /\ Answers'
  BY <1>1, CoreKept, AnswersKept
<1>6. \A i \in Job : worker[i] = "none"
  BY <1>1, OneWorker DEF Receiving
<1>7. part[p] = IF post.pc = "receive" THEN "partial" ELSE "whole"
  BY <1>1 DEF Inv, FileInv, Uploaded
<1>8. verified[p] = None
  BY <1>3, <1>7 DEF Inv, FileInv, Packages
<1>9. \A q \in Package : q # p => part[q] = "none"
  BY <1>6 DEF Inv, FileInv, Packages, Fetching
<1> HIDE DEF p
<1>10. /\ part'[p] = (IF post.pc = "linked" THEN "none" ELSE "whole") /\ pub'[p] \in {pub[p], "whole"}
       /\ \A q \in Package : q # p => part'[q] = part[q] /\ pub'[q] = pub[q]
  BY <1>2, <1>3, <1>7 DEF Inv, TypeOK
<1>11. Packages'
  <2> SUFFICES ASSUME NEW q \in Package
               PROVE  /\ pub'[q] # "partial"
                      /\ pub'[q] # "none" => \E i \in accepted : args[i].pkg = q
                      /\ part'[q] # "none" => post'.pc \in Publishing /\ q = p
                      /\ verified[q] # None => part'[q] = "none" /\ pub'[q] = "whole" /\ verified[q] = content[q]
    BY <1>1, <1>2 DEF Packages, p
  <2>1. CASE q = p
    BY <1>2, <1>3, <1>8, <1>10, <2>1 DEF Publishing, p, Inv, FileInv, Packages
  <2>2. CASE q # p
    BY <1>6, <1>9, <1>10, <2>2 DEF Inv, FileInv, Packages, Consumed
  <2> QED
    BY <2>1, <2>2
<1>12. Uploaded'
  BY <1>1, <1>2, <1>10 DEF Uploaded, p
<1>13. Fetched' /\ Named'
  BY <1>1, <1>6 DEF Fetched, FetchedBy, Inv, FileInv, Named
<1> QED
  BY <1>4, <1>5, <1>11, <1>12, <1>13 DEF Rest, FileInv

LEMMA FailNext == ASSUME Inv, UploadFails PROVE Rest'
<1> DEFINE p == args[post.job].pkg  s == post.side
<1>1. /\ post.pc \in Receiving /\ part' = [part EXCEPT ![p] = "none"] /\ post'.pc = "idle"
      /\ UNCHANGED <<jobs, processes, content, pub, verified, get, history>>
      /\ Store(s, post.job, "failed") \/ UNCHANGED <<rec, disk>>
  BY DEF UploadFails, Receiving, NoPost
<1>2. /\ s \in Sides /\ post.job \in Job /\ p \in Package
      /\ rec[s].job = post.job /\ rec[s].state = "uploading"
  BY <1>1, Uploading
<1>3. \A i \in Job : worker[i] = "none"
  BY <1>1, OneWorker
<1>4. \A q \in Package : part'[q] = "none"
  BY <1>1, <1>2, <1>3 DEF Inv, TypeOK, FileInv, Packages, Fetching
<1> HIDE DEF p, s
<1>5. BoardInv' /\ CoreInv'
  <2>1. CASE UNCHANGED <<rec, disk>>
    BY <1>1, <2>1, BoardKept, CoreKept
  <2>2. CASE Store(s, post.job, "failed")
    <3>1. /\ rec'[s].job = rec[s].job /\ rec'[s].state = "failed" /\ disk'[s] = rec'[s]
          /\ \A t \in Sides : t # s => rec'[t] = rec[t] /\ disk'[t] = disk[t]
      BY <1>2, <2>2, Stores DEF Inv, Stored
    <3>2. Executions' /\ OnDisk'
      BY <1>1, <1>2, <3>1 DEF Inv, BoardInv, Executions, OnDisk
    <3>3. OneOpen'
      BY <1>1, <1>2, <3>1 DEF Inv, BoardInv, OneOpen, Busy, Blocking, Sides, Receiving
    <3>4. Workers'
      BY <1>1, <1>2, <1>3, <3>1 DEF Inv, BoardInv, Workers, Downloading, Fetching
    <3>5. Cores'
      <4> SUFFICES ASSUME NEW i \in Job PROVE CoreOf(i)'
        BY DEF Cores
      <4> QED
        BY <1>1, <1>2, <3>1 DEF Inv, CoreInv, Cores, CoreOf
    <3>6. Succeeded'
      BY <1>1, <1>2, <3>1 DEF Inv, CoreInv, Succeeded
    <3> QED
      BY <3>2, <3>3, <3>4, <3>5, <3>6 DEF BoardInv, CoreInv
  <2> QED
    BY <1>1, <2>1, <2>2
<1>6. FileInv'
  <2>1. Packages' /\ Uploaded'
    BY <1>1, <1>4 DEF Inv, FileInv, Packages, Consumed, Uploaded
  <2>2. Fetched' /\ Named'
    BY <1>1, <1>3 DEF Inv, FileInv, Fetched, FetchedBy, Named
  <2> QED
    BY <2>1, <2>2 DEF FileInv
<1>7. Answers'
  BY <1>1, AnswersKept
<1> QED
  BY <1>5, <1>6, <1>7 DEF Rest

LEMMA AcknowledgeNext == ASSUME Inv, Acknowledge PROVE Rest'
<1> DEFINE j == rec["apps"].job
<1>1. /\ post.pc = "ready" /\ rec["apps"].state = "unknown" /\ Store("apps", j, "failed")
      /\ acked' = acked \cup {j} /\ post'.pc = "idle" /\ UNCHANGED <<jobs, processes, files, get>>
      /\ "apps" \in Sides /\ j \in Job \cup {None}
  BY DEF Acknowledge, NoPost, Sides, Inv, TypeOK, Receipt
<1>2. /\ rec'["apps"].job = j /\ rec'["apps"].state = "failed" /\ disk'["apps"] = rec'["apps"]
      /\ \A t \in Sides : t # "apps" => rec'[t] = rec[t] /\ disk'[t] = disk[t]
  BY <1>1, Stores DEF Inv, Stored
<1>3. Executions' /\ OnDisk'
  BY <1>1, <1>2 DEF Inv, BoardInv, Executions, OnDisk
<1>4. OneOpen'
  BY <1>1, <1>2 DEF OneOpen, Busy, Blocking, Receiving
<1>5. Workers'
  <2>1. \A t \in Sides : rec'[t].state = "running" <=> rec[t].state = "running"
    BY <1>1, <1>2
  <2>2. \A t \in Sides : rec'[t].job = rec[t].job
    BY <1>2
  <2> QED
    BY <1>1, <2>1, <2>2 DEF Inv, BoardInv, Workers, Downloading, Fetching
<1>6. Cores'
  <2> SUFFICES ASSUME NEW i \in Job PROVE CoreOf(i)'
    BY DEF Cores
  <2>1. CoreOf(i)
    BY DEF Inv, CoreInv, Cores
  <2>2. (\E t \in Sides : rec[t].job = i /\ rec[t].state = "unknown")
          => i \in acked' \/ \E t \in Sides : rec'[t].job = i /\ rec'[t].state = "unknown"
    BY <1>1, <1>2
  <2> HIDE DEF j
  <2> QED
    BY <1>1, <2>1, <2>2 DEF CoreOf
<1>7. Succeeded'
  BY <1>1, <1>2 DEF Inv, CoreInv, Succeeded
<1>8. FileInv' /\ Answers'
  BY <1>1, FileKept, AnswersKept DEF Publishing
<1> QED
  BY <1>3, <1>4, <1>5, <1>6, <1>7, <1>8 DEF Rest, BoardInv, CoreInv

LEMMA DiscardNext == ASSUME Inv, NEW p \in Package, Discard(p) PROVE Rest'
<1>1. /\ post.pc = "ready" /\ ~Busy("apps") /\ post'.pc = "idle"
      /\ UNCHANGED <<board, processes, content, part, get, history>>
      /\ pub' = [pub EXCEPT ![p] = "none"] /\ verified' = [verified EXCEPT ![p] = None]
  BY DEF Discard, NoPost
<1>2. BoardInv' /\ CoreInv' /\ Answers'
  BY <1>1, BoardKept, CoreKept, AnswersKept
<1>3. \A i \in Job : worker[i] = "none"
  BY <1>1, OneWorker DEF Inv, BoardInv, OneOpen
<1>4. Packages' /\ Uploaded'
  BY <1>1 DEF Inv, TypeOK, FileInv, Packages, Consumed, Uploaded, Publishing
<1>5. Fetched' /\ Named'
  BY <1>1, <1>3 DEF Inv, FileInv, Fetched, FetchedBy, Named
<1> QED
  BY <1>2, <1>4, <1>5 DEF Rest, FileInv

LEMMA PostNext == ASSUME Inv, Post PROVE Rest'
<1>1. ASSUME NEW s \in Sides, Probe(s) PROVE Rest'
  <2>1. /\ post.pc = "idle" /\ post'.pc = "probe" /\ post'.side = s /\ ~Busy("ota") /\ (s = "ota" => ~Busy("apps"))
        /\ UNCHANGED <<board, worker, cores, files, get, history>>
    BY <1>1 DEF Probe
  <2>2. BoardInv'
    BY <2>1 DEF Inv, BoardInv, Executions, OnDisk, OneOpen, Workers, Busy, Receiving
  <2> QED
    BY <2>1, <2>2, CoreKept, FileKept, AnswersKept DEF Rest, Publishing
<1>2. CASE Probed
  <2>1. /\ post.pc = "probe" /\ post'.pc = "ready" /\ post'.side = post.side
        /\ UNCHANGED <<board, worker, cores, files, get, history>>
    BY <1>2 DEF Probed, Inv, TypeOK
  <2>2. BoardInv'
    BY <2>1 DEF Inv, BoardInv, Executions, OnDisk, OneOpen, Workers, Busy, Receiving
  <2> QED
    BY <2>1, <2>2, CoreKept, FileKept, AnswersKept DEF Rest, Publishing
<1>3. CASE Refuse
  BY <1>3, BoardKept, CoreKept, FileKept, AnswersKept DEF Refuse, NoPost, Rest, Publishing
<1> QED
  BY <1>1, <1>2, <1>3, OpenNext, UploadNext, ReceiveNext, FailNext, AcknowledgeNext, DiscardNext DEF Post

-----------------------------------------------------------------------------
(* Cores and workers keep the rest of it. *)

LEMMA CoreNext == ASSUME Inv, NEW j \in Job, Core(j) \/ CoreKilled(j) PROVE Rest'
<1>1. UNCHANGED <<board, worker, files, post, get, history>>
  BY DEF Core, CoreKilled, CoreLocks, CoreApplies, CoreVerifies, CoreRejects, CoreEnds, CoreOnly
<1>2. /\ core[j] \in Live
      /\ \A i \in Job : i # j => core'[i] = core[i]
      /\ applied' = applied \cup (IF core'[j] = "applied" THEN {j} ELSE {})
      /\ \/ core'[j] = "locked" /\ args[j].op \in Mutating
         \/ core'[j] = "applied" /\ core[j] = "locked"
         \/ core'[j] = "ok" /\ core[j] = "applied"
         \/ core'[j] = "ok" /\ args[j].op = "verify" /\ CoreAccepts(args[j].pkg)
         \/ core'[j] \in {"fail", "killed"}
  <2>1. CASE CoreLocks(j)
    BY <2>1 DEF CoreLocks, CoreGoes, Live, Inv, TypeOK
  <2>2. CASE CoreApplies(j)
    BY <2>2 DEF CoreApplies, CoreGoes, Live, Inv, TypeOK
  <2>3. CASE CoreVerifies(j)
    BY <2>3 DEF CoreVerifies, CoreGoes, Live, Inv, TypeOK
  <2>4. CASE CoreRejects(j)
    BY <2>4 DEF CoreRejects, CoreGoes, Live, Inv, TypeOK
  <2>5. CASE CoreEnds(j)
    BY <2>5 DEF CoreEnds, CoreGoes, Live, Inv, TypeOK
  <2>6. CASE CoreKilled(j)
    BY <2>6 DEF CoreKilled, CoreGoes, Live, Inv, TypeOK
  <2> QED
    BY <2>1, <2>2, <2>3, <2>4, <2>5, <2>6 DEF Core
<1>3. j \in accepted
  BY <1>2 DEF Inv, CoreInv, Cores, CoreOf, Live
<1>4. BoardInv' /\ Answers'
  BY <1>1, <1>2, BoardKept, AnswersKept
<1>5. CoreInv'
  <2>1. ASSUME NEW i \in Job PROVE CoreOf(i)'
    <3>1. CASE i = j
      BY <1>1, <1>2, <1>3, <3>1 DEF Inv, CoreInv, Cores, CoreOf, Live
    <3>2. CASE i # j
      BY <1>1, <1>2, <3>2 DEF Inv, CoreInv, Cores, CoreOf
    <3> QED
      BY <3>1, <3>2
  <2> QED
    BY <1>1, <1>2, <2>1 DEF Inv, CoreInv, Cores, Succeeded
<1>6. FileInv'
  <2>1. Packages' /\ Uploaded' /\ Named'
    BY <1>1 DEF Inv, FileInv, Packages, Consumed, Uploaded, Named
  <2>2. core'[j] = "ok" /\ worker[j] = "wait" /\ args[j].side = "apps"
          /\ args[j].op \in {"verify", "repository-download"} => pub[args[j].pkg] = "whole"
    <3> SUFFICES ASSUME core'[j] = "ok", worker[j] = "wait", args[j].op \in {"verify", "repository-download"}
                 PROVE  pub[args[j].pkg] = "whole"
      OBVIOUS
    <3>1. args[j].pkg \in Package /\ args[j].pkg # None
      BY WorkerPackage, JobAssumption DEF NeedsPackage
    <3>2. core[j] # "applied"
      BY DEF Inv, CoreInv, Cores, CoreOf, Mutating
    <3> QED
      BY <1>2, <3>1, <3>2 DEF CoreAccepts
  <2>3. ASSUME NEW i \in Job PROVE FetchedBy(i)'
    BY <1>1, <1>2, <2>2 DEF Inv, FileInv, Fetched, FetchedBy
  <2> QED
    BY <2>1, <2>3 DEF FileInv, Fetched
<1> QED
  BY <1>4, <1>5, <1>6 DEF Rest

\* A worker that goes on.
LEMMA MovesBoard ==
  ASSUME Inv, NEW j \in Job, NEW w, worker[j] # "none", w # "none", w \in Downloading => worker[j] \in Downloading,
         worker' = [worker EXCEPT ![j] = w], UNCHANGED <<board, post>>
  PROVE  BoardInv'
<1>1. worker'[j] = w /\ \A i \in Job : i # j => worker'[i] = worker[i]
  BY DEF Inv, TypeOK
<1>2. Executions' /\ OnDisk' /\ OneOpen'
  BY DEF Inv, BoardInv, Executions, OnDisk, OneOpen, Busy
<1>3. Workers'
  <2>1. \A s \in Sides : rec[s].state = "running" => worker'[rec[s].job] # "none"
    BY <1>1 DEF Inv, TypeOK, BoardInv, Executions, Workers
  <2>2. \A i \in Job : (worker'[i] # "none") = (worker[i] # "none")
    BY <1>1
  <2>3. \A i \in Job : worker'[i] \in Downloading => worker[i] \in Downloading
    BY <1>1
  <2> QED
    BY <2>1, <2>2, <2>3 DEF Inv, BoardInv, Workers
<1> QED
  BY <1>2, <1>3 DEF BoardInv

LEMMA MovesCore ==
  ASSUME Inv, NEW j \in Job, NEW w, worker' = [worker EXCEPT ![j] = w],
         \A i \in Job : i # j => core'[i] = core[i],
         core'[j] \in {core[j], "killed"} \/ (core'[j] = "started" /\ w = "wait"),
         worker[j] # "none", w = "wait" \/ core'[j] \notin Live,
         w \in {"tail", "forget", "succeeded"} => args[j].op \in {"verify", "repository-download"} \/ j \in applied,
         w = "forget" => args[j].op \in {"install", "update"},
         UNCHANGED <<board, applied, acked>>
  PROVE  CoreInv'
<1>1. /\ worker'[j] = w /\ \A i \in Job : i # j => worker'[i] = worker[i]
  BY DEF Inv, TypeOK
<1>2. j \in accepted
  BY WorkerReceipt
<1>3. ASSUME NEW i \in Job PROVE CoreOf(i)'
  <2>1. CASE i = j
    BY <1>1, <1>2, <2>1 DEF Inv, CoreInv, Cores, CoreOf, Live
  <2>2. CASE i # j
    BY <1>1, <2>2 DEF Inv, CoreInv, Cores, CoreOf
  <2> QED
    BY <2>1, <2>2
<1> QED
  BY <1>3 DEF Inv, CoreInv, Cores, Succeeded

LEMMA MovesFiles ==
  ASSUME Inv, NEW j \in Job, NEW w, worker' = [worker EXCEPT ![j] = w],
         \A i \in Job : i # j => core'[i] = core[i],
         worker[j] \notin Fetching \cup {"forget"}, FetchedBy(j)',
         UNCHANGED <<accepted, args, files, post>>
  PROVE  FileInv'
<1>1. worker'[j] = w /\ \A i \in Job : i # j => worker'[i] = worker[i]
  BY DEF Inv, TypeOK
<1>2. Packages'
  BY <1>1 DEF Inv, FileInv, Packages, Consumed
<1>3. Uploaded' /\ Named'
  BY DEF Inv, FileInv, Uploaded, Named
<1>4. ASSUME NEW i \in Job, i # j PROVE FetchedBy(i)'
  BY <1>1, <1>4 DEF Inv, FileInv, Fetched, FetchedBy
<1> QED
  BY <1>2, <1>3, <1>4 DEF FileInv, Fetched

\* A download that goes on, with the file of its package.
LEMMA FetchFiles ==
  ASSUME Inv, NEW j \in Job, NEW w, NEW p, p = args[j].pkg, worker[j] \in Downloading,
         worker' = [worker EXCEPT ![j] = w], UNCHANGED <<accepted, args, core, verified, post>>,
         \A q \in Package : q # p => part'[q] = part[q] /\ pub'[q] = pub[q] /\ content'[q] = content[q],
         content' = content \/ worker[j] = "stream",
         pub'[p] # "partial", part'[p] # "none" => w \in Fetching,
         FetchedBy(j)'
  PROVE  FileInv'
<1>1. worker'[j] = w /\ \A i \in Job : i # j => worker'[i] = worker[i]
  BY DEF Inv, TypeOK
<1>2. args[j].op = "repository-download" /\ p \in Package /\ worker[j] # "none"
  BY Downloads DEF Downloading, Fetching
<1>3. j \in accepted
  BY <1>2, WorkerReceipt
<1>4. post.pc \notin Receiving /\ \A i \in Job : i # j => worker[i] = "none"
  BY <1>2, OneWorker
<1>5. verified[p] = None
  BY <1>2, <1>4 DEF Inv, FileInv, Fetched, FetchedBy, Packages, Consumed, Downloading, Fetching
<1>6. Packages'
  <2> SUFFICES ASSUME NEW q \in Package
               PROVE  /\ pub'[q] # "partial"
                      /\ pub'[q] # "none" => \E i \in accepted : args[i].pkg = q
                      /\ part'[q] # "none" => worker'[j] \in Fetching /\ args[j].pkg = q
                      /\ verified[q] # None => part'[q] = "none" /\ pub'[q] = "whole" /\ verified[q] = content'[q]
    BY DEF Packages
  <2>1. CASE q = p
    BY <1>1, <1>3, <1>5, <2>1
  <2>2. CASE q # p
    <3>1. part[q] = "none"
      BY <1>4, <2>2 DEF Inv, FileInv, Packages, Publishing, Receiving, Fetching
    <3> QED
      BY <1>2, <1>4, <2>2, <3>1 DEF Inv, FileInv, Packages, Consumed, Downloading, Fetching
  <2> QED
    BY <2>1, <2>2
<1>7. Uploaded'
  BY <1>4 DEF Uploaded, Receiving
<1>8. Fetched'
  <2>1. ASSUME NEW i \in Job, i # j PROVE FetchedBy(i)'
    BY <1>1, <1>4, <2>1 DEF FetchedBy
  <2> QED
    BY <2>1 DEF Fetched
<1>9. Named'
  <2> SUFFICES ASSUME NEW i \in accepted, args[i].op \in {"install", "update"}
               PROVE  content'[args[i].pkg] = args[i].name
    BY DEF Named
  <2>1. args[i].pkg \in Package /\ content[args[i].pkg] = args[i].name /\ i # j
    BY <1>2 DEF Inv, FileInv, Named, BoardInv, Executions, NeedsPackage
  <2>2. worker[j] = "stream" => args[i].pkg # p
    BY <2>1 DEF Inv, FileInv, Fetched, FetchedBy
  <2> QED
    BY <2>1, <2>2
<1> QED
  BY <1>6, <1>7, <1>8, <1>9 DEF FileInv

LEMMA DownloadNext ==
  ASSUME Inv, NEW j \in Job,
         \/ DownloadLock(j) \/ DownloadEnds(j) \/ DownloadChecked(j)
         \/ \E c \in Name \cup {None} : DownloadBegins(j, c)
         \/ DownloadPublished(j) \/ DownloadUnlinked(j) \/ DownloadFails(j)
  PROVE  Rest'
<1> DEFINE p == args[j].pkg
<1>1. /\ worker[j] \in Downloading /\ UNCHANGED <<board, cores, verified, requests, history>>
  BY DEF DownloadLock, DownloadEnds, DownloadChecked, DownloadBegins, DownloadPublished, DownloadUnlinked,
         DownloadFails, Downloading, Fetching
<1>2. args[j].op = "repository-download" /\ args[j].side = "apps" /\ p \in Package /\ worker[j] # "none"
  BY <1>1, Downloads DEF Downloading, Fetching
<1>3. FetchedBy(j) /\ Packages /\ core[j] \notin Live
  BY <1>1 DEF Inv, FileInv, Fetched, CoreInv, Cores, CoreOf, Downloading, Fetching
<1>p. ASSUME NEW w, NEW x, worker' = [worker EXCEPT ![j] = w],
             part' = [part EXCEPT ![p] = x]
      PROVE  worker'[j] = w /\ part'[p] = x /\ \A q \in Package : q # p => part'[q] = part[q]
  BY <1>2, <1>p DEF Inv, TypeOK
<1>w. ASSUME NEW w, worker' = [worker EXCEPT ![j] = w]
      PROVE  worker'[j] = w
  BY <1>w DEF Inv, TypeOK
<1>4. \E w \in Fetching \cup {"tail", "failed", "unknown"} :
        /\ worker' = [worker EXCEPT ![j] = w]
        /\ \A q \in Package : q # p => part'[q] = part[q] /\ pub'[q] = pub[q] /\ content'[q] = content[q]
        /\ content' = content \/ worker[j] = "stream"
        /\ pub'[p] # "partial" /\ (part'[p] # "none" => w \in Fetching)
        /\ FetchedBy(j)'
  <2> HIDE DEF p
  <2>0. p = args[j].pkg
    BY DEF p
  <2>1. CASE DownloadLock(j)
    <3>1. PICK w \in {"stream", "failed"} : worker' = [worker EXCEPT ![j] = w]
      BY <2>1 DEF DownloadLock
    <3>2. part[p] = "none"
      <4>1. \A i \in Job : worker[i] \notin Fetching
        BY <1>2, <2>1, OneWorker DEF DownloadLock, Fetching
      <4>2. post.pc \notin Publishing
        BY <1>2, OneWorker DEF Publishing, Receiving
      <4> QED
        BY <1>2, <1>3, <4>1, <4>2 DEF Packages
    <3>3. UNCHANGED files /\ worker[j] = "lock" /\ worker'[j] = w
      BY <1>w, <2>1, <3>1 DEF DownloadLock
    <3>4. FetchedBy(j)'
      BY <1>1, <1>3, <3>1, <3>3 DEF FetchedBy
    <3> QED
      BY <1>2, <1>3, <3>1, <3>2, <3>3, <3>4 DEF Packages, Fetching
  <2>2. CASE DownloadEnds(j)
    <3>1. /\ worker' = [worker EXCEPT ![j] = "check"] /\ part' = [part EXCEPT ![p] = "whole"]
          /\ UNCHANGED <<content, pub>> /\ worker[j] = "stream"
      BY <2>0, <2>2 DEF DownloadEnds
    <3>2. worker'[j] = "check" /\ part'[p] = "whole" /\ \A q \in Package : q # p => part'[q] = part[q]
      BY <1>p, <3>1 DEF p
    <3>3. FetchedBy(j)'
      BY <1>1, <1>3, <2>0, <3>1, <3>2 DEF FetchedBy
    <3> QED
      BY <1>2, <1>3, <2>0, <3>1, <3>2, <3>3 DEF Packages, Fetching
  <2>3. CASE DownloadChecked(j)
    <3>1. worker' = [worker EXCEPT ![j] = "publish"] /\ UNCHANGED files /\ worker[j] = "check"
      BY <2>3 DEF DownloadChecked
    <3>2. worker'[j] = "publish"
      BY <1>w, <3>1
    <3>3. FetchedBy(j)'
      BY <1>1, <1>3, <2>0, <3>1, <3>2 DEF FetchedBy
    <3> QED
      BY <1>2, <1>3, <2>0, <3>1, <3>3 DEF Packages, Fetching
  <2>4. ASSUME NEW c \in Name \cup {None}, DownloadBegins(j, c)
        PROVE  /\ worker' = [worker EXCEPT ![j] = "stream"] /\ worker[j] = "stream"
               /\ \A q \in Package : q # p => part'[q] = part[q] /\ pub'[q] = pub[q] /\ content'[q] = content[q]
               /\ pub'[p] # "partial" /\ FetchedBy(j)'
    <3>1. /\ part' = [part EXCEPT ![p] = "partial"] /\ content' = [content EXCEPT ![p] = c]
          /\ worker[j] = "stream" /\ UNCHANGED <<worker, pub>>
      BY <2>0, <2>4 DEF DownloadBegins
    <3>2. worker' = [worker EXCEPT ![j] = "stream"]
      BY <3>1 DEF Inv, TypeOK
    <3>3. FetchedBy(j)'
      BY <1>1, <1>3, <3>1 DEF FetchedBy
    <3>4. \A q \in Package : q # p => part'[q] = part[q] /\ content'[q] = content[q]
      BY <3>1 DEF Inv, TypeOK
    <3>5. pub[p] # "partial"
      BY <1>2, <1>3, <2>0 DEF Packages
    <3> QED
      BY <3>1, <3>2, <3>3, <3>4, <3>5
  <2>5. CASE DownloadPublished(j)
    <3>1. /\ worker' = [worker EXCEPT ![j] = "unlink"] /\ pub' = [pub EXCEPT ![p] = part[p]]
          /\ UNCHANGED <<content, part>> /\ worker[j] = "publish"
      BY <2>0, <2>5 DEF DownloadPublished
    <3>2. part[p] = "whole"
      BY <1>3, <2>0, <3>1 DEF FetchedBy
    <3>3. worker'[j] = "unlink" /\ pub'[p] = "whole" /\ \A q \in Package : q # p => pub'[q] = pub[q]
      BY <1>2, <1>w, <3>1, <3>2 DEF Inv, TypeOK
    <3>4. FetchedBy(j)'
      BY <1>1, <2>0, <3>1, <3>2, <3>3 DEF FetchedBy
    <3> QED
      BY <3>1, <3>3, <3>4 DEF Fetching
  <2>6. CASE DownloadUnlinked(j)
    <3>1. /\ worker' = [worker EXCEPT ![j] = "tail"] /\ part' = [part EXCEPT ![p] = "none"]
          /\ UNCHANGED <<content, pub>> /\ worker[j] = "unlink"
      BY <2>0, <2>6 DEF DownloadUnlinked
    <3>2. worker'[j] = "tail" /\ part'[p] = "none" /\ \A q \in Package : q # p => part'[q] = part[q]
      BY <1>p, <3>1 DEF p
    <3>3. FetchedBy(j)'
      BY <1>1, <1>3, <2>0, <3>1, <3>2 DEF FetchedBy
    <3> QED
      BY <1>2, <1>3, <3>1, <3>2, <3>3 DEF Packages
  <2>7. CASE DownloadFails(j)
    <3>1. PICK w \in {"failed", "unknown"} : worker' = [worker EXCEPT ![j] = w]
      BY <2>7 DEF DownloadFails
    <3>2. /\ part' = [part EXCEPT ![p] = "none"] /\ pub' \in {pub, [pub EXCEPT ![p] = "none"]}
          /\ UNCHANGED content
      BY <2>0, <2>7 DEF DownloadFails
    <3>3. worker'[j] = w /\ part'[p] = "none" /\ \A q \in Package : q # p => part'[q] = part[q]
      BY <1>p, <3>1, <3>2 DEF p
    <3>4. pub'[p] \in {pub[p], "none"} /\ \A q \in Package : q # p => pub'[q] = pub[q]
      BY <1>2, <2>0, <3>2 DEF Inv, TypeOK
    <3>5. FetchedBy(j)'
      BY <3>1, <3>3 DEF FetchedBy
    <3> QED
      <4>1. pub[p] # "partial"
        BY <1>2, <1>3, <2>0 DEF Packages
      <4>2. pub'[p] # "partial" /\ (part'[p] # "none" => w \in Fetching)
        BY <3>3, <3>4, <4>1
      <4> QED
        BY <3>1, <3>2, <3>3, <3>4, <3>5, <4>2
  <2> QED
    BY <2>1, <2>2, <2>3, <2>4, <2>5, <2>6, <2>7 DEF Fetching
<1>5. PICK w \in Fetching \cup {"tail", "failed", "unknown"} :
        /\ worker' = [worker EXCEPT ![j] = w]
        /\ \A q \in Package : q # p => part'[q] = part[q] /\ pub'[q] = pub[q] /\ content'[q] = content[q]
        /\ content' = content \/ worker[j] = "stream"
        /\ pub'[p] # "partial" /\ (part'[p] # "none" => w \in Fetching)
        /\ FetchedBy(j)'
  BY <1>4
<1>6. w # "none" /\ w \notin {"wait", "forget", "succeeded"}
  BY DEF Fetching
<1>7. BoardInv'
  BY <1>1, <1>2, <1>5, <1>6, MovesBoard
<1>8. CoreInv'
  <2>1. core' = core /\ core'[j] \notin Live /\ UNCHANGED <<board, applied, acked>>
    BY <1>1, <1>3
  <2>2. w \in {"tail", "forget", "succeeded"} => args[j].op \in {"verify", "repository-download"} \/ j \in applied
    BY <1>2
  <2> QED
    BY <1>2, <1>5, <1>6, <2>1, <2>2, MovesCore
<1>9. FileInv'
  BY <1>1, <1>5, FetchFiles
<1>10. Answers'
  BY <1>1, AnswersKept
<1> QED
  BY <1>7, <1>8, <1>9, <1>10 DEF Rest

LEMMA SpawnNext == ASSUME Inv, NEW j \in Job, Spawn(j) PROVE Rest'
<1>1. /\ worker[j] = "start" /\ worker' = [worker EXCEPT ![j] = "wait"]
      /\ core' = [core EXCEPT ![j] = "started"]
      /\ UNCHANGED <<board, applied, lock, files, requests, history>>
  BY DEF Spawn
<1>2. worker'[j] = "wait" /\ core'[j] = "started" /\ \A i \in Job : i # j => core'[i] = core[i]
  BY <1>1 DEF Inv, TypeOK
<1>3. BoardInv'
  BY <1>1, MovesBoard DEF Downloading, Fetching
<1>4. CoreInv'
  BY <1>1, <1>2, MovesCore
<1>5. FetchedBy(j)'
  BY <1>2 DEF FetchedBy
<1>6. FileInv'
  BY <1>1, <1>2, <1>5, MovesFiles DEF Fetching
<1> QED
  BY <1>1, <1>3, <1>4, <1>6, AnswersKept DEF Rest

LEMMA ReapNext == ASSUME Inv, NEW j \in Job, Reap(j) PROVE Rest'
<1>1. PICK w \in {"tail", "failed"} :
        /\ worker' = [worker EXCEPT ![j] = w] /\ (w = "tail" => core[j] = "ok")
  BY DEF Reap
<1>2. /\ worker[j] = "wait" /\ core[j] \in {"ok", "fail", "killed"}
      /\ UNCHANGED <<board, cores, lock, files, requests, history>>
  BY DEF Reap
<1>3. worker'[j] = w
  BY <1>1 DEF Inv, TypeOK
<1>4. BoardInv'
  BY <1>1, <1>2, MovesBoard DEF Downloading, Fetching
<1>5. CoreInv'
  <2>1. w = "tail" => args[j].op \in {"verify", "repository-download"} \/ j \in applied
    BY <1>1 DEF Inv, CoreInv, Cores, CoreOf
  <2>2. core'[j] \notin Live /\ core' = core
    BY <1>2 DEF Live
  <2> QED
    BY <1>1, <1>2, <2>1, <2>2, MovesCore
<1>6. FetchedBy(j)'
  BY <1>1, <1>2, <1>3 DEF Inv, FileInv, Fetched, FetchedBy
<1>7. FileInv'
  BY <1>1, <1>2, <1>6, MovesFiles DEF Fetching
<1> QED
  BY <1>2, <1>4, <1>5, <1>7, AnswersKept DEF Rest

LEMMA TimeoutNext == ASSUME Inv, NEW j \in Job, Timeout(j) PROVE Rest'
<1>1. /\ worker[j] = "wait" /\ worker' = [worker EXCEPT ![j] = "unknown"]
      /\ core' = [core EXCEPT ![j] = "killed"]
      /\ UNCHANGED <<board, applied, files, requests, history>>
  BY DEF Timeout, CoreGoes
<1>2. worker'[j] = "unknown" /\ core'[j] = "killed" /\ \A i \in Job : i # j => core'[i] = core[i]
  BY <1>1 DEF Inv, TypeOK
<1>3. BoardInv'
  BY <1>1, MovesBoard DEF Downloading, Fetching
<1>4. CoreInv'
  BY <1>1, <1>2, MovesCore DEF Live
<1>5. FetchedBy(j)'
  BY <1>2 DEF FetchedBy
<1>6. FileInv'
  BY <1>1, <1>2, <1>5, MovesFiles DEF Fetching
<1> QED
  BY <1>1, <1>3, <1>4, <1>6, AnswersKept DEF Rest

LEMMA TailNext == ASSUME Inv, NEW j \in Job, Tail(j) \/ Forget(j) PROVE Rest'
<1> DEFINE p == args[j].pkg
<1>1. worker[j] \in {"tail", "forget"} /\ UNCHANGED <<board, cores, lock, content, part, requests, history>>
  BY DEF Tail, Forget
<1>2. PICK w \in {"succeeded", "unknown", "forget"} :
        /\ worker' = [worker EXCEPT ![j] = w]
        /\ \/ /\ w # "forget" /\ UNCHANGED <<verified, pub>> /\ worker[j] = "tail"
           \/ /\ args[j].side = "apps" /\ args[j].op \in {"verify", "repository-download"}
              /\ w # "forget" /\ worker[j] = "tail"
              /\ verified' = [verified EXCEPT ![p] = content[p]] /\ UNCHANGED pub
           \/ /\ args[j].op \in {"install", "update"} /\ worker[j] = "tail"
              /\ w = "forget" /\ UNCHANGED verified /\ pub' = [pub EXCEPT ![p] = "none"]
           \/ /\ worker[j] = "forget" /\ w = "succeeded"
              /\ UNCHANGED pub /\ verified' = [verified EXCEPT ![p] = None]
  <2>1. CASE Tail(j)
    BY <2>1 DEF Tail
  <2>2. CASE Forget(j)
    BY <2>2 DEF Forget
  <2> QED
    BY <2>1, <2>2
<1>3. /\ worker'[j] = w /\ \A i \in Job : i # j => worker'[i] = worker[i] /\ worker[i] = "none"
      /\ post.pc \notin Receiving
  BY <1>1, <1>2, OneWorker DEF Inv, TypeOK
<1>4. BoardInv'
  BY <1>1, <1>2, MovesBoard DEF Downloading, Fetching
<1>5. CoreInv'
  <2>1. core' = core /\ core[j] \notin Live
        /\ (args[j].op \in {"verify", "repository-download"} \/ j \in applied)
    BY <1>1 DEF Inv, CoreInv, Cores, CoreOf
  <2>2. w = "forget" => args[j].op \in {"install", "update"}
    BY <1>2
  <2> QED
    BY <1>1, <1>2, <2>1, <2>2, MovesCore
<1>6. \A q \in Package : part[q] = "none"
  BY <1>1, <1>3 DEF Inv, FileInv, Packages, Receiving, Publishing, Fetching
<1>7. /\ args[j].op \in {"verify", "repository-download", "install", "update"} => p \in Package
      /\ worker[j] = "forget" => p \in Package
  BY <1>1, WorkerPackage DEF NeedsPackage, Inv, CoreInv, Cores, CoreOf
<1>8. worker[j] = "tail" /\ args[j].side = "apps" /\ args[j].op \in {"verify", "repository-download"}
        => pub[p] = "whole"
  BY DEF Inv, FileInv, Fetched, FetchedBy
<1>9. /\ \A q \in Package : Consumed(q) => worker[j] = "forget" /\ q = p
      /\ \A q \in Package : w = "forget" /\ q = p => Consumed(q)'
  BY <1>1, <1>3 DEF Consumed
<1> HIDE DEF p
<1>10. Packages'
  <2> SUFFICES ASSUME NEW q \in Package
               PROVE  /\ pub'[q] # "partial"
                      /\ pub'[q] # "none" => \E i \in accepted : args[i].pkg = q
                      /\ verified'[q] # None => (pub'[q] = "whole" \/ Consumed(q)') /\ verified'[q] = content[q]
    BY <1>1, <1>6 DEF Packages
  <2>1. pub'[q] \in {pub[q], "none"}
    BY <1>2, <1>7 DEF Inv, TypeOK
  <2>2. verified[q] # None => (pub[q] = "whole" \/ Consumed(q)) /\ verified[q] = content[q]
    BY DEF Inv, FileInv, Packages
  <2>3. verified'[q] # None => (pub'[q] = "whole" \/ Consumed(q)') /\ verified'[q] = content[q]
    <3>1. CASE UNCHANGED <<verified, pub>> /\ worker[j] = "tail"
      BY <1>9, <2>2, <3>1
    <3>2. CASE /\ args[j].side = "apps" /\ args[j].op \in {"verify", "repository-download"} /\ worker[j] = "tail"
               /\ verified' = [verified EXCEPT ![p] = content[p]] /\ UNCHANGED pub
      BY <1>7, <1>8, <1>9, <2>2, <3>2 DEF Inv, TypeOK
    <3>3. CASE /\ args[j].op \in {"install", "update"} /\ worker[j] = "tail" /\ w = "forget"
               /\ UNCHANGED verified /\ pub' = [pub EXCEPT ![p] = "none"]
      <4>1. p \in Package /\ pub'[p] = "none" /\ (q # p => pub'[q] = pub[q])
        BY <1>7, <3>3 DEF Inv, TypeOK
      <4>2. CASE q = p
        BY <1>9, <2>2, <3>3, <4>2
      <4>3. CASE q # p
        BY <1>9, <2>2, <3>3, <4>1, <4>3
      <4> QED
        BY <4>2, <4>3
    <3>4. CASE worker[j] = "forget" /\ UNCHANGED pub /\ verified' = [verified EXCEPT ![p] = None]
      BY <1>7, <1>9, <2>2, <3>4 DEF Inv, TypeOK
    <3> QED
      BY <1>2, <3>1, <3>2, <3>3, <3>4
  <2> QED
    BY <2>1, <2>3 DEF Inv, FileInv, Packages
<1>11. Uploaded' /\ Named'
  BY <1>1 DEF Inv, FileInv, Uploaded, Named
<1>12. Fetched'
  BY <1>3 DEF Fetched, FetchedBy
<1> QED
  BY <1>1, <1>4, <1>5, <1>10, <1>11, <1>12, AnswersKept DEF Rest, FileInv

LEMMA RecordNext == ASSUME Inv, NEW j \in Job, Record(j) PROVE Rest'
<1> DEFINE s == args[j].side
<1>1. /\ worker[j] \in {"succeeded", "failed", "unknown"} /\ (s = "ota" => post.pc = "idle")
      /\ worker' = [worker EXCEPT ![j] = "none"]
      /\ UNCHANGED <<jobs, cores, lock, files, requests, history>>
  BY DEF Record
<1>2. s \in Sides /\ j \in accepted /\ rec[s].job = j /\ rec[s].state = "running"
  BY <1>1, WorkerReceipt
<1>3. PICK state \in {"succeeded", "failed", "unknown"} :
        /\ rec'[s].job = j /\ rec'[s].state = state
        /\ \A t \in Sides : t # s => rec'[t] = rec[t] /\ disk'[t] = disk[t]
        /\ disk'[s] = rec'[s] \/ (disk' = disk /\ state = "unknown")
        /\ state = "succeeded" => worker[j] = "succeeded"
  <2>1. CASE Store(s, j, worker[j])
    BY <1>1, <1>2, <2>1, Stores DEF Inv, Stored
  <2>2. CASE rec' = [rec EXCEPT ![s] = [job |-> j, state |-> "unknown"]] /\ UNCHANGED disk
    BY <1>2, <2>2 DEF Inv, TypeOK
  <2> QED
    BY <2>1, <2>2 DEF Record, StoreOutcome
<1>4. /\ worker'[j] = "none" /\ \A i \in Job : i # j => worker'[i] = worker[i] /\ worker[i] = "none"
      /\ post.pc \notin Receiving
  BY <1>1, OneWorker DEF Inv, TypeOK
<1> HIDE DEF s
<1>5. Executions'
  BY <1>1, <1>2, <1>3 DEF Inv, BoardInv, Executions
<1>6. OnDisk'
  BY <1>2, <1>3 DEF Inv, BoardInv, OnDisk
<1>7. OneOpen'
  <2>1. \A t \in Sides : Busy(t)' => Busy(t)
    BY <1>2, <1>3 DEF Busy, Blocking
  <2> QED
    BY <1>1, <1>4, <2>1 DEF Inv, BoardInv, OneOpen, Sides
<1>8. Workers'
  <2>1. \A t \in Sides : rec'[t].state # "running"
    BY <1>2, <1>3 DEF Inv, BoardInv, OneOpen, Busy, Blocking, Sides
  <2> QED
    BY <1>4, <2>1 DEF Workers, Downloading, Fetching
<1>9. Cores'
  <2>1. ASSUME NEW i \in Job PROVE CoreOf(i)'
    <3>1. CASE i = j
      BY <1>1, <1>2, <1>4, <3>1 DEF Inv, CoreInv, Cores, CoreOf
    <3>2. CASE i # j
      BY <1>1, <1>2, <1>3, <1>4, <3>2 DEF Inv, CoreInv, Cores, CoreOf
    <3> QED
      BY <3>1, <3>2
  <2> QED
    BY <2>1 DEF Cores
<1>10. Succeeded'
  <2>1. worker[j] = "succeeded" => args[j].op \notin Mutating \/ j \in applied
    BY DEF Inv, CoreInv, Cores, CoreOf, Mutating
  <2> QED
    BY <1>1, <1>2, <1>3, <2>1 DEF Inv, CoreInv, Succeeded
<1>11. FileInv'
  <2>1. Packages'
    BY <1>1, <1>4 DEF Inv, FileInv, Packages, Consumed, Fetching
  <2>2. Uploaded' /\ Named'
    BY <1>1 DEF Inv, FileInv, Uploaded, Named
  <2>3. Fetched'
    BY <1>4 DEF Fetched, FetchedBy
  <2> QED
    BY <2>1, <2>2, <2>3 DEF FileInv
<1> QED
  BY <1>1, <1>5, <1>6, <1>7, <1>8, <1>9, <1>10, <1>11, AnswersKept DEF Rest, BoardInv, CoreInv

-----------------------------------------------------------------------------
(* Requests that read, other interfaces and a restart keep it. *)

LEMMA GetNext == ASSUME Inv, Get PROVE Rest'
<1>1. UNCHANGED <<board, worker, cores, files, post, history>>
  BY DEF Get, GetApps, GetInstalled, GetFiles, GetOta, GetLook, GetPeeked, GetReceipt, GetAnswered, GetOnly
<1>2. BoardInv' /\ CoreInv' /\ FileInv'
  BY <1>1, BoardKept, CoreKept, FileKept
<1>3. CASE GetApps
  <2>1. get'.pc = "read" /\ get'.side = "apps" /\ get'.receipt = rec["apps"]
    BY <1>3 DEF GetApps
  <2>2. rec["apps"].state = "succeeded" =>
          /\ rec["apps"].job \in accepted
          /\ args[rec["apps"].job].op \in Mutating => rec["apps"].job \in applied
    BY DEF Inv, BoardInv, Executions, CoreInv, Succeeded, Sides
  <2> QED
    BY <1>1, <1>2, <2>1, <2>2 DEF Rest, Answers
<1>4. CASE GetInstalled
  <2>1. /\ get.pc = "read" /\ get'.pc = "files" /\ get'.side = get.side /\ get'.receipt = get.receipt
        /\ get'.seen = applied
    BY <1>4 DEF GetInstalled, Inv, TypeOK
  <2> QED
    BY <1>1, <1>2, <2>1 DEF Rest, Inv, Answers
<1>5. CASE GetFiles
  <2> DEFINE mine == {p \in Package : pub[p] # "none" /\ \E j \in accepted :
                                        args[j].pkg = p /\ args[j].side = "apps"}
             all == \A p \in mine : Staged(p)
  <2>1. get.pc = "files" /\ get' = [get EXCEPT !.pc = IF all THEN "ok" ELSE "error"]
    BY <1>5 DEF GetFiles
  <2> HIDE DEF all
  <2>2. /\ get.pc = "files" /\ get'.pc \in {"ok", "error"} /\ get'.side = get.side
        /\ get'.receipt = get.receipt /\ get'.seen = get.seen
    BY <2>1 DEF Inv, TypeOK
  <2> QED
    BY <1>1, <1>2, <2>2 DEF Rest, Inv, Answers
<1>6. CASE GetOta
  <2>1. get'.pc = "look" /\ get'.side = "ota"
    BY <1>6 DEF GetOta
  <2> QED
    BY <1>2, <2>1 DEF Rest, Answers
<1>7. CASE GetLook \/ GetPeeked \/ GetReceipt
  <2>1. get.pc \in {"look", "peek", "receipt"} /\ get'.side = get.side /\ get'.pc \in {"peek", "receipt", "ok"}
    BY <1>7 DEF GetLook, GetPeeked, GetReceipt, Inv, TypeOK
  <2>2. get'.side = "ota"
    BY <2>1 DEF Inv, Answers
  <2> QED
    BY <1>2, <2>1, <2>2 DEF Rest, Answers
<1>8. CASE GetAnswered
  <2>1. get'.pc = "idle" /\ get'.receipt.state = "none"
    BY <1>8 DEF GetAnswered, NoGet, NoReceipt
  <2> QED
    BY <1>2, <2>1 DEF Rest, Answers
<1> QED
  BY <1>3, <1>4, <1>5, <1>6, <1>7, <1>8 DEF Get

\* What a restart makes of the receipts.
LEMMA Restores ==
  ASSUME Inv, Restart, NEW s \in Sides
  PROVE  /\ rec'[s].job = rec[s].job
         /\ Busy(s) => rec'[s].state = "unknown"
         /\ ~Busy(s) => rec'[s] = rec[s]
         /\ \/ disk'[s] = rec'[s]
            \/ /\ rec'[s].state = "unknown"
               /\ disk'[s].job = rec'[s].job /\ disk'[s].state \in {"uploading", "running"}
<1>1. rec'[s] = Restored(s) /\ disk'[s] = IF s = "apps" THEN Restored("apps") ELSE disk[s]
  BY DEF Restart, Inv, TypeOK
<1>2. /\ disk[s].state \in {"uploading", "running"} =>
           Restored(s).job = disk[s].job /\ Restored(s).state = "unknown"
      /\ disk[s].state \notin {"uploading", "running"} => Restored(s) = disk[s]
  BY DEF Restored, Inv, TypeOK, Receipt
<1>3. \/ disk[s] = rec[s]
      \/ /\ rec[s].state = "unknown"
         /\ disk[s].job = rec[s].job /\ disk[s].state \in {"uploading", "running"}
  BY DEF Inv, BoardInv, OnDisk
<1> QED
  BY <1>1, <1>2, <1>3 DEF Busy, Blocking

LEMMA RestartNext == ASSUME Inv, Restart PROVE Rest'
<1>1. /\ UNCHANGED <<jobs, cores, content, pub, acked>>
      /\ \A j \in Job : worker'[j] = "none"
      /\ \A p \in Package : verified'[p] = None /\ part'[p] = "none"
      /\ post'.pc = "idle" /\ get'.pc = "idle" /\ get'.receipt.state = "none"
  BY DEF Restart, NoPost, NoGet, NoReceipt
<1>2. Executions' /\ OnDisk'
  BY <1>1, Restores DEF Inv, BoardInv, Executions, OnDisk, Busy, Blocking
<1>3. OneOpen'
  <2>1. \A s \in Sides : Busy(s)' => Busy(s)
    BY Restores DEF Busy
  <2> QED
    BY <1>1, <2>1 DEF Inv, BoardInv, OneOpen, Sides, Receiving
<1>4. Workers'
  <2>1. \A s \in Sides : rec'[s].state # "running"
    BY Restores DEF Busy, Blocking
  <2> QED
    BY <1>1, <2>1 DEF Workers, Downloading, Fetching
<1>5. Cores'
  <2>1. ASSUME NEW j \in Job PROVE CoreOf(j)'
    <3>1. CoreOf(j)
      BY DEF Inv, CoreInv, Cores
    <3>2. core[j] \in Live => j \in acked \/ \E s \in Sides : rec'[s].job = j /\ rec'[s].state = "unknown"
      <4> SUFFICES ASSUME core[j] \in Live, j \notin acked
                   PROVE  \E s \in Sides : rec'[s].job = j /\ rec'[s].state = "unknown"
        OBVIOUS
      <4>1. PICK s \in Sides : rec[s].job = j /\ rec[s].state \in {"running", "unknown"}
        BY <3>1 DEF CoreOf, Inv, BoardInv, Workers
      <4> QED
        BY <4>1, Restores DEF Busy, Blocking
    <3> QED
      BY <1>1, <3>1, <3>2 DEF CoreOf
  <2> QED
    BY <2>1 DEF Cores
<1>6. Succeeded'
  BY <1>1, Restores DEF Inv, CoreInv, Succeeded
<1>7. Packages' /\ Uploaded' /\ Fetched' /\ Named'
  BY <1>1 DEF Inv, FileInv, Packages, Uploaded, Fetched, FetchedBy, Named
<1>8. Answers'
  BY <1>1 DEF Answers
<1> QED
  BY <1>2, <1>3, <1>4, <1>5, <1>6, <1>7, <1>8 DEF Rest, BoardInv, CoreInv, FileInv

\* Every step keeps the invariant.
LEMMA InvNext == Inv /\ [Next]_vars => Inv'
<1> SUFFICES ASSUME Inv, [Next]_vars PROVE Inv'
  OBVIOUS
<1>1. CASE Post
  BY <1>1, TypePost, PostNext DEF Inv, Rest
<1>2. ASSUME NEW j \in Job, Core(j) \/ CoreKilled(j) \/ Timeout(j) PROVE Inv'
  BY <1>2, TypeCore, CoreNext, TimeoutNext DEF Inv, Rest
<1>3. ASSUME NEW j \in Job, Work(j) PROVE Inv'
  <2>1. Rest'
    BY <1>3, SpawnNext, ReapNext, TailNext, RecordNext, DownloadNext DEF Work
  <2> QED
    BY <1>3, <2>1, TypeWork DEF Inv, Rest
<1>4. CASE Get
  BY <1>4, TypeOther, GetNext DEF Inv, Rest
<1>5. CASE OtherTakes \/ OtherEnds \/ UNCHANGED vars
  <2>1. UNCHANGED <<board, worker, cores, files, requests, history>>
    BY <1>5 DEF OtherTakes, OtherEnds
  <2> QED
    BY <1>5, <2>1, TypeOther, BoardKept, CoreKept, FileKept, AnswersKept DEF Inv
<1>6. CASE Restart
  BY <1>6, TypeRestart, RestartNext DEF Inv, Rest
<1> QED
  BY <1>1, <1>2, <1>3, <1>4, <1>5, <1>6 DEF Next

-----------------------------------------------------------------------------
(* The safety properties. *)

\* The invariant holds in every reachable state.
THEOREM Invariance == Spec => []Inv
BY InvInit, InvNext, PTL DEF Spec

\* What a receipt says is so (execute, execute_ota, restore, upload, download_package):
\* a running one has its worker, a succeeded one was carried out, and no package is
\* published in part.
THEOREM ReceiptsTheorem == Spec => []ReceiptsTrue
<1>1. ASSUME Inv PROVE ReceiptsTrue
  <2>1. WorkerOwnsReceipt
    <3>1. ASSUME NEW j \in Job, NEW s \in Sides
          PROVE  rec[s] = [job |-> j, state |-> "running"] <=> rec[s].job = j /\ rec[s].state = "running"
      <4>1. rec[s] \in Receipt
        BY <1>1 DEF Inv, TypeOK
      <4> QED
        BY <4>1 DEF Receipt
    <3>2. ASSUME NEW j \in Job
          PROVE  worker[j] # "none" <=> \E s \in Sides : rec[s].job = j /\ rec[s].state = "running"
      BY <1>1 DEF Inv, BoardInv, Workers
    <3> QED
      BY <3>1, <3>2 DEF WorkerOwnsReceipt
  <2>2. SucceededMeansDone
    BY <1>1 DEF Inv, CoreInv, Succeeded, SucceededMeansDone
  <2>3. PublishedWhole
    BY <1>1 DEF Inv, FileInv, Packages, PublishedWhole
  <2> QED
    BY <1>1, <2>1, <2>2, <2>3 DEF Inv, ReceiptsTrue
<1> QED
  BY <1>1, Invariance, PTL

\* Core processes of two executions overlap only after an administrator accepted that the
\* outcome of one is unknown (require_ota_idle, apps.running, restore).
THEOREM OneCoreTheorem == Spec => []OneCore
<1>1. ASSUME Inv PROVE OneCore
  <2> SUFFICES ASSUME NEW i \in Job, NEW j \in Job, core[i] \in Live, core[j] \in Live,
                      i \notin acked, j \notin acked
               PROVE  i = j
    BY DEF OneCore
  <2>1. ASSUME NEW k \in Job, core[k] \in Live, k \notin acked
        PROVE  \E s \in Sides : rec[s].job = k /\ Busy(s)
    <3>1. worker[k] # "none" => \E s \in Sides : rec[s].job = k /\ rec[s].state = "running"
      BY <1>1 DEF Inv, BoardInv, Workers
    <3>2. CoreOf(k)
      BY <1>1 DEF Inv, CoreInv, Cores
    <3> QED
      BY <2>1, <3>1, <3>2 DEF CoreOf, Busy, Blocking
  <2>2. PICK s \in Sides : rec[s].job = i /\ Busy(s)
    BY <2>1
  <2>3. PICK t \in Sides : rec[t].job = j /\ Busy(t)
    BY <2>1
  <2> QED
    BY <1>1, <2>2, <2>3 DEF Inv, BoardInv, OneOpen, Sides
<1> QED
  BY <1>1, Invariance, PTL

\* An identity the core reported (_verified) is of bytes that are still staged, unchanged, or
\* that an operation whose receipt is still open has just consumed.
THEOREM VerifiedTheorem == Spec => []VerifiedStaged
<1>1. ASSUME Inv, NEW p \in Package, verified[p] # None
      PROVE  /\ verified[p] = content[p]
             /\ \/ Staged(p) /\ pub[p] = "whole"
                \/ \E j \in applied, s \in Sides :
                     /\ args[j].op \in {"install", "update"} /\ args[j].pkg = p
                     /\ rec[s] = [job |-> j, state |-> "running"]
  <2>1. part[p] = "none" /\ verified[p] = content[p]
    BY <1>1 DEF Inv, FileInv, Packages
  <2>2. CASE pub[p] = "whole"
    BY <2>1, <2>2 DEF Staged
  <2>3. CASE pub[p] # "whole"
    <3>1. PICK j \in Job : worker[j] = "forget" /\ args[j].pkg = p
      BY <1>1, <2>3 DEF Inv, FileInv, Packages, Consumed
    <3>2. j \in applied /\ args[j].op \in {"install", "update"}
      BY <1>1, <3>1 DEF Inv, CoreInv, Cores, CoreOf
    <3>3. PICK s \in Sides : rec[s].job = j /\ rec[s].state = "running"
      BY <1>1, <3>1 DEF Inv, BoardInv, Workers
    <3>4. rec[s] = [job |-> j, state |-> "running"]
      BY <1>1, <3>3 DEF Inv, TypeOK, Receipt
    <3> QED
      BY <2>1, <3>1, <3>2, <3>4
  <2> QED
    BY <2>1, <2>2, <2>3
<1>2. Inv => VerifiedStaged
  BY <1>1 DEF VerifiedStaged
<1> QED
  BY <1>2, Invariance, PTL

\* What an installation or an update changed is the app that its request named.
THEOREM NamedTheorem == Spec => []AppliedAsNamed
<1>1. Inv => AppliedAsNamed
  BY DEF Inv, TypeOK, CoreInv, Cores, CoreOf, FileInv, Named, AppliedAsNamed
<1> QED
  BY <1>1, Invariance, PTL

\* overview: a status of the apps with a succeeded receipt shows the printer after it.
THEOREM AnswerTheorem == Spec => []AnswerPaired
<1>1. Inv => AnswerPaired
  BY DEF Inv, Answers, AnswerPaired
<1> QED
  BY <1>1, Invariance, PTL

\* restore, restore_execution: a restart neither closes an open execution nor reopens a
\* closed one.
THEOREM RestartTheorem == Spec => RestartKeepsReceipts
<1>1. ASSUME Inv, Inv', Next, restarts' # restarts, NEW s \in Sides
      PROVE  IF Busy(s) THEN rec'[s] = [job |-> rec[s].job, state |-> "unknown"] ELSE rec'[s] = rec[s]
  <2>1. Restart
    <3>1. ~Post
      BY <1>1 DEF Post, Probe, Probed, Refuse, Acknowledge, Start, StartOta, StartDownload, Upload, StartVerify,
         Discard, Received, Link, Unlink, UploadFails
    <3>2. \A j \in Job : ~Core(j) /\ ~CoreKilled(j) /\ ~Timeout(j)
      BY <1>1 DEF Core, CoreKilled, CoreLocks, CoreApplies, CoreVerifies, CoreRejects, CoreEnds, CoreOnly, Timeout
    <3>3. \A j \in Job : ~Work(j)
      BY <1>1 DEF Work, Spawn, Reap, Tail, Forget, Record, DownloadLock, DownloadEnds, DownloadChecked, DownloadBegins,
         DownloadPublished, DownloadUnlinked, DownloadFails
    <3>4. ~Get /\ ~OtherTakes /\ ~OtherEnds
      BY <1>1 DEF Get, GetApps, GetInstalled, GetFiles, GetOta, GetLook, GetPeeked, GetReceipt, GetAnswered,
         GetOnly, OtherTakes, OtherEnds
    <3> QED
      BY <1>1, <3>1, <3>2, <3>3, <3>4 DEF Next
  <2>2. rec'[s] \in Receipt /\ rec[s] \in Receipt
    BY <1>1 DEF Inv, TypeOK
  <2> QED
    BY <1>1, <2>1, <2>2, Restores DEF Receipt
<1>2. Inv /\ Inv' /\ [Next]_vars =>
        [restarts' # restarts =>
           \A s \in Sides : IF Busy(s) THEN rec'[s] = [job |-> rec[s].job, state |-> "unknown"]
                            ELSE rec'[s] = rec[s]]_vars
  BY <1>1
<1> QED
  BY <1>2, Invariance, PTL DEF Spec, RestartKeepsReceipts

-----------------------------------------------------------------------------
(* The refinement. *)

\* The board is the open receipt.
BoardShown ==
  /\ \A s \in Sides : Busy(s) => /\ Board.job = rec[s].job /\ Board.state = rec[s].state
                                 /\ rec[s].job \in Job /\ rec[s].job \in accepted
  /\ ~Busy("apps") /\ ~Busy("ota") => Board.job = None /\ Board.state = "none"

LEMMA OnBoard == Inv => BoardShown
<1> SUFFICES ASSUME Inv PROVE BoardShown
  OBVIOUS
<1>1. ASSUME NEW s \in Sides, Busy(s) PROVE Board = rec[s]
  BY <1>1 DEF Inv, BoardInv, OneOpen, Board, Sides
<1>2. ASSUME NEW s \in Sides, Busy(s) PROVE rec[s].job \in Job /\ rec[s].job \in accepted
  BY <1>2 DEF Inv, BoardInv, Executions, TypeOK, Receipt, Busy, Blocking
<1> QED
  BY <1>1, <1>2 DEF BoardShown, Board, NoReceipt

LEMMA OnBoardNext == Inv' => BoardShown'
BY OnBoard, PTL

\* An execution that is accepted finds the board free, or continues an upload.
LEMMA OpenedRefines ==
  ASSUME Inv, Inv', NEW s \in Sides, NEW j \in Job, NEW a \in Args, NEW state \in {"uploading", "running"},
         Free(s), Accept(j, a), Store(s, j, state)
  PROVE  JobBoard!Next
<1>1. rec'[s].job = j /\ rec'[s].state = state /\ Busy(s)'
  BY Stores DEF Inv, Stored, Busy, Blocking
<1>2. j \notin accepted /\ accepted' = accepted \cup {j}
  BY Accepts
<1>3. Board'.job = j /\ Board'.state # "unknown"
  BY <1>1, OnBoardNext DEF BoardShown
<1>4. CASE ~Busy("apps") /\ ~Busy("ota")
  BY <1>2, <1>3, <1>4, OnBoard DEF BoardShown, JobBoard!Next, JobBoard!Accept
<1>5. CASE post.pc = "verify"
  <2>1. post.side \in Sides /\ rec[post.side].state = "uploading" /\ Busy(post.side)
    BY <1>5, Uploading DEF Receiving, Busy, Blocking
  <2>2. Board.job # None /\ Board.state # "unknown"
    BY <2>1, OnBoard, JobAssumption DEF BoardShown
  <2> QED
    BY <1>2, <1>3, <2>2 DEF JobBoard!Next, JobBoard!Continue
<1> QED
  BY <1>4, <1>5 DEF Free

\* Steps that leave receipts and executions alone leave the board alone.
LEMMA BoardStutters ==
  ASSUME UNCHANGED <<rec, accepted>>
  PROVE  UNCHANGED JobBoard!vars
BY DEF JobBoard!vars, Board, Busy

\* An open receipt that is closed, or loses its outcome.
LEMMA ClosedRefines ==
  ASSUME Inv, Inv', NEW s \in Sides, rec[s].state \in {"uploading", "running"}, UNCHANGED accepted,
         rec'[s].job = rec[s].job, rec'[s].state \in {"succeeded", "failed", "unknown"},
         \A t \in Sides : t # s => rec'[t] = rec[t]
  PROVE  JobBoard!Next
<1>1. Busy(s) /\ Board.job # None /\ Board.state # "unknown" /\ Board.job = rec[s].job
  BY OnBoard, JobAssumption DEF BoardShown, Busy, Blocking
<1>2. CASE rec'[s].state = "unknown"
  <2>1. Board'.job = rec[s].job /\ Board'.state = "unknown"
    BY <1>2, OnBoardNext DEF BoardShown, Busy, Blocking
  <2> QED
    BY <1>1, <2>1 DEF JobBoard!Next, JobBoard!Lose
<1>3. CASE rec'[s].state \in {"succeeded", "failed"}
  <2>1. \A t \in Sides : ~Busy(t)'
    BY <1>1, <1>3 DEF Inv, BoardInv, OneOpen, Busy, Blocking, Sides
  <2>2. Board'.job = None /\ Board'.state = "none"
    BY <2>1, OnBoardNext DEF BoardShown, Sides
  <2> QED
    BY <1>1, <2>2 DEF JobBoard!Next, JobBoard!Settle
<1> QED
  BY <1>2, <1>3

LEMMA PostRefines == ASSUME Inv, Inv', Post PROVE JobBoard!Next \/ UNCHANGED JobBoard!vars
<1>1. CASE (\E s \in Sides : Probe(s)) \/ Probed \/ Refuse \/ (\E p \in Package : Discard(p))
           \/ Received \/ Link \/ Unlink
  BY <1>1, BoardStutters DEF Probe, Probed, Refuse, Discard, Received, Link, Unlink
<1>2. post.pc = "ready" => ~Busy("ota") /\ (post.side = "ota" => ~Busy("apps")) /\ post.side \in Sides
  BY DEF Inv, BoardInv, OneOpen, TypeOK
<1>3. ASSUME NEW j \in Job, NEW a \in Args, Start(j, a) PROVE JobBoard!Next
  <2>1. Free("apps") /\ Accept(j, a) /\ Store("apps", j, "running")
    BY <1>2, <1>3 DEF Start, Free
  <2> QED
    BY <2>1, OpenedRefines DEF Sides
<1>4. ASSUME NEW j \in Job, StartOta(j) PROVE JobBoard!Next
  <2> DEFINE a == [side |-> "ota", op |-> "ota", pkg |-> None, name |-> None]
  <2>1. Free("ota") /\ Accept(j, a) /\ Store("ota", j, "running")
    BY <1>2, <1>4 DEF StartOta, Free
  <2>2. a \in Args
    BY DEF Args, Sides, Ops
  <2> HIDE DEF a
  <2> QED
    BY <2>1, <2>2, OpenedRefines DEF Sides
<1>5. ASSUME NEW j \in Job, NEW n \in Name, NEW p \in Package, StartDownload(j, n, p) PROVE JobBoard!Next
  <2> DEFINE a == [side |-> "apps", op |-> "repository-download", pkg |-> p, name |-> n]
  <2>1. Free("apps") /\ Accept(j, a) /\ Store("apps", j, "running")
    BY <1>2, <1>5 DEF StartDownload, Free
  <2>2. a \in Args
    BY DEF Args, Sides, Ops
  <2> HIDE DEF a
  <2> QED
    BY <2>1, <2>2, OpenedRefines DEF Sides
<1>6. ASSUME NEW j \in Job, NEW p \in Package, NEW c \in Name \cup {None}, Upload(j, p, c) PROVE JobBoard!Next
  <2> DEFINE a == [side |-> post.side, op |-> "upload", pkg |-> p, name |-> None]
  <2>1. Free(post.side) /\ Accept(j, a) /\ Store(post.side, j, "uploading")
    BY <1>2, <1>6 DEF Upload, Free, Sides
  <2>2. a \in Args /\ post.side \in Sides
    BY DEF Args, Ops, Inv, TypeOK
  <2> HIDE DEF a
  <2> QED
    BY <2>1, <2>2, OpenedRefines
<1>7. ASSUME NEW j \in Job, StartVerify(j) PROVE JobBoard!Next
  <2> DEFINE a == [side |-> post.side, op |-> "verify", pkg |-> args[post.job].pkg, name |-> None]
  <2>1. Free(post.side) /\ Accept(j, a) /\ Store(post.side, j, "running")
    BY <1>7 DEF StartVerify, Free
  <2>2. a \in Args /\ post.side \in Sides
    BY <1>7, Uploading DEF StartVerify, Receiving, Args, Ops, Inv, TypeOK
  <2> HIDE DEF a
  <2> QED
    BY <2>1, <2>2, OpenedRefines
<1>8. CASE Acknowledge
  <2>1. /\ rec["apps"].state = "unknown" /\ Store("apps", rec["apps"].job, "failed") /\ UNCHANGED accepted
    BY <1>8 DEF Acknowledge
  <2>2. Busy("apps") /\ "apps" \in Sides /\ Board.job # None /\ Board.state = "unknown"
    BY <2>1, OnBoard, JobAssumption DEF BoardShown, Busy, Blocking, Sides
  <2>3. rec'["apps"].state = "failed" /\ rec'["ota"] = rec["ota"]
    BY <2>1, <2>2, OnBoard, Stores DEF BoardShown, Inv, Stored, Sides
  <2>4. Board'.job = None /\ Board'.state # "unknown"
    BY <2>2, <2>3, OnBoardNext DEF BoardShown, Inv, BoardInv, OneOpen, Busy, Blocking
  <2> QED
    BY <2>1, <2>2, <2>4 DEF JobBoard!Next, JobBoard!Acknowledge
<1>9. CASE UploadFails
  <2>1. /\ post.pc \in Receiving /\ UNCHANGED accepted
        /\ Store(post.side, post.job, "failed") \/ UNCHANGED rec
    BY <1>9 DEF UploadFails, Receiving
  <2>2. CASE Store(post.side, post.job, "failed")
    <3>1. /\ post.side \in Sides /\ post.job \in Job
          /\ rec[post.side].job = post.job /\ rec[post.side].state = "uploading"
      BY <2>1, Uploading
    <3>2. /\ rec'[post.side].job = post.job /\ rec'[post.side].state = "failed"
          /\ \A t \in Sides : t # post.side => rec'[t] = rec[t]
      BY <2>2, <3>1, Stores DEF Inv, Stored
    <3> QED
      BY <2>1, <3>1, <3>2, ClosedRefines
  <2> QED
    BY <2>1, <2>2, BoardStutters
<1> QED
  BY <1>1, <1>3, <1>4, <1>5, <1>6, <1>7, <1>8, <1>9 DEF Post

LEMMA RecordRefines == ASSUME Inv, Inv', NEW j \in Job, Record(j) PROVE JobBoard!Next
<1> DEFINE s == args[j].side
<1>1. /\ worker[j] \in {"succeeded", "failed", "unknown"} /\ UNCHANGED accepted
      /\ Store(s, j, worker[j])
         \/ rec' = [rec EXCEPT ![s] = [job |-> j, state |-> "unknown"]]
  BY DEF Record, StoreOutcome
<1>2. s \in Sides /\ rec[s].job = j /\ rec[s].state = "running"
  BY <1>1, WorkerReceipt
<1>3. /\ rec'[s].job = j /\ rec'[s].state \in {"succeeded", "failed", "unknown"}
      /\ \A t \in Sides : t # s => rec'[t] = rec[t]
  BY <1>1, <1>2, Stores DEF Inv, TypeOK, Stored
<1> HIDE DEF s
<1> QED
  BY <1>1, <1>2, <1>3, ClosedRefines

LEMMA RestartRefines == ASSUME Inv, Inv', Restart PROVE JobBoard!Next \/ UNCHANGED JobBoard!vars
<1>1. UNCHANGED accepted
  BY DEF Restart
<1>2. ASSUME NEW s \in Sides, Busy(s), rec[s].state # "unknown" PROVE JobBoard!Next
  <2>1. rec[s].state \in {"uploading", "running"} /\ rec'[s].job = rec[s].job /\ rec'[s].state = "unknown"
    BY <1>2, Restores DEF Busy, Blocking
  <2>2. \A t \in Sides : t # s => rec'[t] = rec[t]
    BY <1>2, Restores DEF Inv, BoardInv, OneOpen, Sides
  <2> QED
    BY <1>1, <2>1, <2>2, ClosedRefines
<1>3. CASE \A s \in Sides : Busy(s) => rec[s].state = "unknown"
  <2>1. \A s \in Sides : rec'[s].job = rec[s].job /\ rec'[s].state = rec[s].state
    BY <1>3, Restores
  <2>2. \A s \in Sides : Busy(s)' <=> Busy(s)
    BY <2>1 DEF Busy
  <2>3. Board'.job = Board.job /\ Board'.state = Board.state
    BY <2>1, <2>2, OnBoard, OnBoardNext DEF BoardShown, Sides
  <2> QED
    BY <1>1, <2>3 DEF JobBoard!vars
<1> QED
  BY <1>2, <1>3

\* Every step of managementd is one of the board or leaves it as it is.
LEMMA StepRefines == ASSUME Inv, Inv', [Next]_vars PROVE JobBoard!Next \/ UNCHANGED JobBoard!vars
<1>1. ASSUME NEW j \in Job, Core(j) \/ CoreKilled(j) \/ Timeout(j) PROVE UNCHANGED <<rec, accepted>>
  BY <1>1 DEF Core, CoreKilled, CoreLocks, CoreApplies, CoreVerifies, CoreRejects, CoreEnds, CoreOnly, Timeout
<1>2. ASSUME NEW j \in Job, Work(j), ~Record(j) PROVE UNCHANGED <<rec, accepted>>
  BY <1>2 DEF Work, Spawn, Reap, Tail, Forget, DownloadLock, DownloadEnds, DownloadChecked, DownloadBegins,
     DownloadPublished, DownloadUnlinked, DownloadFails
<1>3. ASSUME Get \/ OtherTakes \/ OtherEnds \/ UNCHANGED vars PROVE UNCHANGED <<rec, accepted>>
  BY <1>3 DEF Get, GetApps, GetInstalled, GetFiles, GetOta, GetLook, GetPeeked, GetReceipt, GetAnswered,
     GetOnly, OtherTakes, OtherEnds
<1> QED
  BY <1>1, <1>2, <1>3, BoardStutters, PostRefines, RecordRefines, RestartRefines DEF Next

\* managementd implements JobBoard: one execution at a time, its outcome known or
\* acknowledged before the next (do_POST, require_ota_idle, apps.ensure_idle, restore).
THEOREM Refinement == Spec => ImplementsBoard
<1>1. Init => JobBoard!Init
  BY DEF Init, JobBoard!Init, Board, Busy, Blocking, NoReceipt, Sides
<1>2. Inv /\ Inv' /\ [Next]_vars => [JobBoard!Next]_(JobBoard!vars)
  BY StepRefines
<1> QED
  BY <1>1, <1>2, Invariance, PTL DEF Spec, ImplementsBoard, JobBoard!Spec
===============================================================================
