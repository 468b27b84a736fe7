-------------------------- MODULE MaintenanceProofs --------------------------
(* Proofs about Maintenance Web, for any tokens, limits and bounds: browser administration *)
(* by itself (WebSessions), the whole that implements it, and the switch of the listener     *)
(* with any requests beside each other.                                                     *)
EXTENDS Maintenance, FiniteSetTheorems, TLAPS

USE DEF pairing, session, vars, NoCode

-----------------------------------------------------------------------------
(* Codes and sessions. *)

\* Their inductive invariant.
Inv ==
  /\ TypeOK /\ PairedWhileEnabled /\ AttemptsBounded /\ PendingCounts
  /\ IsFiniteSet(used) /\ IsFiniteSet(redeemed) /\ SessionPerCode

\* The initial states satisfy it.
LEMMA InvInit == Init => Inv
BY SessionAssumption, FS_EmptySet
   DEF Init, Inv, TypeOK, PairedWhileEnabled, AttemptsBounded, PendingCounts, SessionPerCode

\* A step of Next keeps the types.
LEMMA TypeNext == ASSUME TypeOK, PendingCounts, [Next]_vars PROVE TypeOK'
<1> USE SessionAssumption DEF TypeOK
<1>1. CASE Tick
  BY <1>1 DEF Tick
<1>2. CASE Enable \/ Disable \/ LockAll \/ Restart
  BY <1>2 DEF Enable, Disable, LockAll, Restart, Clear, Kept
<1>3. CASE CreateCode
  BY <1>3 DEF CreateCode
<1>4. CASE RedeemRight
  BY <1>4 DEF RedeemRight, Valid, Fresh, PendingCounts
<1>5. CASE RedeemWrong
  BY <1>5 DEF RedeemWrong, Valid, PendingCounts
<1>6. CASE RedeemLate
  BY <1>6 DEF RedeemLate, Clear, Kept
<1>7. ASSUME NEW t \in Tokens, Use(t) \/ Look(t) \/ Revoke(t) PROVE TypeOK'
  <2>1. sessions' \subseteq used /\ UNCHANGED <<enabled, now, pairing, used, created>>
    BY <1>7 DEF Use, Look, Revoke, Fresh
  <2>2. served' \subseteq Tokens
    BY <1>7 DEF Use, Look, Revoke
  <2>3. lastSeen' \in [Tokens -> 0..now]
    <3>1. lastSeen' = lastSeen \/ lastSeen' = [lastSeen EXCEPT ![t] = now]
      BY <1>7 DEF Use, Look, Revoke
    <3>2. now \in 0..now
      OBVIOUS
    <3> QED
      BY <3>1, <3>2
  <2> QED
    BY <2>1, <2>2, <2>3
<1>8. ASSUME NEW t \in Tokens, Refuse(t) PROVE TypeOK'
  BY <1>8 DEF Refuse, Clear, Kept, Fresh
<1>9. CASE UNCHANGED vars
  BY <1>9
<1> QED
  BY <1>1, <1>2, <1>3, <1>4, <1>5, <1>6, <1>7, <1>8, <1>9 DEF Next, Redeem

\* A new token and the code it was made for are counted together.
LEMMA Counted ==
  ASSUME NEW S, NEW T, IsFiniteSet(S), IsFiniteSet(T), Cardinality(S) = Cardinality(T),
         NEW s, NEW t, s \notin S, t \notin T
  PROVE  /\ IsFiniteSet(S \cup {s}) /\ IsFiniteSet(T \cup {t})
         /\ Cardinality(S \cup {s}) = Cardinality(T \cup {t})
BY FS_AddElement

\* A step of Next keeps the rest of the invariant.
LEMMA InvNext == Inv /\ [Next]_vars => Inv'
<1> SUFFICES ASSUME Inv, [Next]_vars PROVE Inv'
  OBVIOUS
<1> USE SessionAssumption DEF Inv
<1>t. TypeOK'
  BY TypeNext
<1>1. CASE RedeemRight
  <2>1. pending # NoCode /\ pending \notin redeemed /\ redeemed' = redeemed \cup {pending}
    BY <1>1 DEF RedeemRight, Valid, PendingCounts
  <2>2. PICK t \in Tokens \ used : used' = used \cup {t}
    BY <1>1 DEF RedeemRight
  <2>3. IsFiniteSet(used)' /\ IsFiniteSet(redeemed)' /\ SessionPerCode'
    BY <2>1, <2>2, Counted DEF SessionPerCode
  <2>4. PairedWhileEnabled' /\ AttemptsBounded' /\ PendingCounts'
    BY <1>1 DEF RedeemRight, PairedWhileEnabled, AttemptsBounded, PendingCounts
  <2> QED
    BY <1>t, <2>3, <2>4
<1>2. CASE UNCHANGED <<used, redeemed>>
  <2>1. IsFiniteSet(used)' /\ IsFiniteSet(redeemed)' /\ SessionPerCode'
    BY <1>2 DEF SessionPerCode
  <2>2. PairedWhileEnabled'
    <3>1. ASSUME NEW t \in Tokens, Use(t) \/ Look(t) \/ Refuse(t) \/ Revoke(t) PROVE PairedWhileEnabled'
      BY <3>1 DEF Use, Look, Refuse, Revoke, Clear, Kept, PairedWhileEnabled
    <3>2. CASE Tick \/ Enable \/ Disable \/ LockAll \/ Restart \/ UNCHANGED vars
      BY <3>2 DEF Tick, Enable, Disable, LockAll, Restart, Clear, PairedWhileEnabled
    <3>3. CASE CreateCode \/ Redeem
      BY <3>3 DEF CreateCode, Redeem, RedeemRight, RedeemWrong, RedeemLate, Clear, PairedWhileEnabled, Kept
    <3> QED
      BY <3>1, <3>2, <3>3 DEF Next
  <2>3. AttemptsBounded' /\ PendingCounts'
    <3>1. CASE RedeemWrong
      BY <3>1 DEF RedeemWrong, Valid, TypeOK, AttemptsBounded, PendingCounts
    <3>2. CASE CreateCode
      BY <3>2 DEF CreateCode, TypeOK, AttemptsBounded, PendingCounts
    <3>3. CASE UNCHANGED <<codes, attempts, wrong, redeemed>> /\ pending' \in {pending, NoCode}
      BY <3>3 DEF AttemptsBounded, PendingCounts
    <3> QED
      BY <1>1, <3>1, <3>2, <3>3 DEF Next, Redeem, Tick, Enable, Disable, LockAll, RedeemRight, RedeemLate,
           Restart, Use, Look, Refuse, Revoke, Clear, Kept
  <2> QED
    BY <1>t, <2>1, <2>2, <2>3
<1> QED
  BY <1>1, <1>2 DEF Next, Redeem, Tick, Enable, Disable, LockAll, CreateCode, RedeemWrong, RedeemLate,
                    Restart, Use, Look, Refuse, Revoke, Kept

\* The invariant holds in every state.
THEOREM Invariance == Spec => []Inv
BY InvInit, InvNext, PTL DEF Spec

\* What browser administration promises of its states.
THEOREM AuthenticationSound == Spec => []AuthSound
<1>1. Inv => AuthSound
  BY DEF Inv, AuthSound
<1> QED
  BY Invariance, <1>1, PTL

\* What is served under a token, and to whom, in a step.
LEMMA ServedStep ==
  ASSUME Inv, Next, NEW t \in used
  PROVE  /\ t \notin sessions => t \notin sessions' /\ t \notin served'
         /\ t \in served' => t \in Fresh
         /\ created'[t] = created[t]
         /\ lastSeen'[t] # lastSeen[t] => t \in served'
<1> USE DEF Inv, TypeOK, Fresh
<1>1. CASE RedeemRight
  BY <1>1 DEF RedeemRight
<1>2. ASSUME NEW u \in Tokens, Use(u) \/ Look(u) \/ Refuse(u) \/ Revoke(u)
      PROVE  /\ t \notin sessions => t \notin sessions' /\ t \notin served'
             /\ t \in served' => t \in Fresh
             /\ created'[t] = created[t]
             /\ lastSeen'[t] # lastSeen[t] => t \in served'
  BY <1>2 DEF Use, Look, Refuse, Revoke, Clear, Kept
<1> QED
  BY <1>1, <1>2 DEF Next, Redeem, Tick, Enable, Disable, LockAll, CreateCode, RedeemWrong, RedeemLate,
                    Restart, Clear, Kept

\* A session ends for good.
THEOREM EndedForGood == Spec => EndedIsOver
<1>1. Inv /\ [Next]_vars => [\A t \in used : t \notin sessions => t \notin sessions' /\ t \notin served']_vars
  BY ServedStep
<1> QED
  BY <1>1, Invariance, PTL DEF Spec, EndedIsOver

\* No session is served past its age or its idle time.
THEOREM ExpiryKept == Spec => SessionsExpire
<1>1. Inv /\ [Next]_vars =>
        [\A t \in used : /\ t \in served' => now - created[t] < Age /\ now - lastSeen[t] < Idle
                         /\ created'[t] = created[t]
                         /\ lastSeen'[t] # lastSeen[t] => t \in served']_vars
  <2>1. \A t \in Fresh : now - created[t] < Age /\ now - lastSeen[t] < Idle
    BY DEF Fresh
  <2> QED
    BY <2>1, ServedStep
<1> QED
  BY <1>1, Invariance, PTL DEF Spec, SessionsExpire

\* A session is served while it is young and used, and never after its end.
THEOREM SessionsEndInTime == Spec => SessionsEnd
BY EndedForGood, ExpiryKept DEF SessionsEnd

-----------------------------------------------------------------------------
(* Maintenance Web as a whole keeps what browser administration promises by itself:         *)
(* whatever the listener does, codes and sessions go on as WebSessions says.                *)

\* A step of the whole is one of codes and sessions, or leaves them alone.
LEMMA StepRefines == [MNext]_mvars => [Next]_vars
<1> SUFFICES ASSUME [MNext]_mvars PROVE [Next]_vars
  OBVIOUS
<1>1. CASE AuthStep
  BY <1>1 DEF AuthStep, Next
<1>2. CASE ListenerStep
  \* At most the answer of the step before is gone, as after an Enable that changes nothing.
  <2>1. enabled' = enabled
    BY <1>2 DEF ListenerStep, Web!Arrive, Web!world, Web!Decide, Web!Look, Web!Script, Web!Stop,
      Web!Stopping, Web!Stopped, Web!Start, Web!Config, Web!Spawn, Web!WritePid, Web!Confirm,
      Web!Bind, Web!Obey, Web!Crash, Web!Gone
  <2> QED
    BY <1>2, <2>1 DEF ListenerStep, auth, Next, Enable
<1>3. CASE Restarts
  BY <1>3 DEF Restarts, Next
<1>4. ASSUME NEW c \in Callers, Switch(c) PROVE Next
  BY <1>4 DEF Switch, Next
<1>5. ASSUME NEW c \in Callers, RefreshFails(c) PROVE Next
  <2>1. UNCHANGED enabled
    BY <1>5 DEF RefreshFails, Web!RefreshFails, Web!world
  <2> QED
    BY <1>5, <2>1 DEF RefreshFails, auth, Next, Enable
<1>6. CASE UNCHANGED mvars
  BY <1>6 DEF mvars
<1> QED
  BY <1>1, <1>2, <1>3, <1>4, <1>5, <1>6 DEF MNext

\* WebSessions is what the composition implements, with its own variables.
THEOREM Refinement == MSpec => Spec
BY StepRefines, PTL DEF MSpec, MInit, Spec

\* The states of the whole.
THEOREM WholeSound == MSpec => []AuthSound
BY Refinement, AuthenticationSound

\* The life of a session, whatever the listener does meanwhile.
THEOREM WholeSessionsEnd == MSpec => SessionsEnd
BY Refinement, SessionsEndInTime

-----------------------------------------------------------------------------
(* The switch, with any number of requests beside each other. *)

\* A request has set the opt-in and is about to ask the script.
Pending == \E c \in Callers : call[c].pc = "refresh"

\* While no script runs, the listener that was not told to end is the one of the pid file and
\* has the port.
Found ==
  /\ \A p \in alive \ told : p = pidFile /\ p = port
  /\ status = "none" => alive = {} /\ pidFile = Web!NoPid

\* The opt-in has its way, unless a script is still to come, was missed or says why not.
Done ==
  \/ Pending \/ missed
  \/ enabled /\ (crashes # 0 \/ Web!Failed \/ alive \ told # {})
  \/ ~enabled /\ alive \subseteq told

\* Where the script of caller c is, and what it has made sure of.
Running(c) ==
  /\ call[c].pc = "stopping" => alive \subseteq told
  /\ call[c].pc = "stopped" => status = "stopped"
  /\ call[c].pc \in {"stopped", "start", "config", "spawn"} => alive \subseteq told /\ pidFile = Web!NoPid
  /\ call[c].pc \in {"spawn", "written", "wait"} => enabled \/ missed \/ Pending
  /\ call[c].pc \in {"written", "wait"} => call[c].pid \notin told /\ \A p \in alive \ told : p = call[c].pid
  /\ call[c].pc = "wait" => pidFile = call[c].pid

\* Nothing has crossed: there is one script at most.
Calm ==
  /\ \A c, d \in Callers : Web!Runs(c) /\ Web!Runs(d) => c = d
  /\ \A c \in Callers : Running(c)
  /\ (\A c \in Callers : ~Web!Runs(c)) => Found /\ Done

\* The types; no pid is yet to come.
Typed == Web!TypeOK /\ missed \in BOOLEAN /\ crossed \in BOOLEAN /\ \A p \in alive : p <= pids

\* The inductive invariant of the switch.
SwitchInv == Typed /\ (crossed \/ Calm)

\* A caller and what it may be.
Caller == [pc : Web!Steps, pid : Web!Pids \cup {Web!NoPid}]

\* The initial states satisfy it.
LEMMA SwitchInit == MInit => SwitchInv
<1> SUFFICES ASSUME MInit PROVE SwitchInv
  OBVIOUS
<1>1. Typed
  <2>1. call \in [Callers -> [pc : Web!Steps, pid : Web!Pids \cup {Web!NoPid}]]
    BY DEF MInit, Web!Init, Web!Steps
  <2>2. 0 \in 0..MaxPids /\ 0 \in 0..MaxCrashes
    BY SwitchAssumption
  <2> QED
    BY <2>1, <2>2 DEF MInit, Web!Init, Typed, Web!TypeOK, Web!Statuses
<1>2. /\ alive = {} /\ told = {} /\ status = "none" /\ pidFile = Web!NoPid
      /\ \A c \in Callers : call[c].pc = "idle"
  BY DEF MInit, Web!Init
<1>3. Calm
  BY <1>2 DEF Calm, Running, Found, Done, Web!Runs, Web!Scripts, Web!Failed, Web!Failures
<1> QED
  BY <1>1, <1>3 DEF SwitchInv

\* Caller c goes to s with pid p, and the others stay where they are.
LEMMA Moved ==
  ASSUME call \in [Callers -> Caller], NEW c \in Callers, NEW s \in Web!Steps,
         NEW p \in Web!Pids \cup {Web!NoPid}, Web!GoWith(c, s, p)
  PROVE  /\ call' \in [Callers -> Caller]
         /\ call'[c].pc = s /\ call'[c].pid = p
         /\ \A d \in Callers : d # c => call'[d] = call[d]
BY DEF Web!GoWith, Caller

\* Likewise, without a pid.
LEMMA MovedOn ==
  ASSUME call \in [Callers -> Caller], NEW c \in Callers, NEW s \in Web!Steps, Web!Go(c, s)
  PROVE  /\ call' \in [Callers -> Caller]
         /\ call'[c].pc = s /\ call'[c].pid = Web!NoPid
         /\ \A d \in Callers : d # c => call'[d] = call[d]
BY Moved DEF Web!Go

-----------------------------------------------------------------------------
(* Types. *)

\* The parts of the types that a step of a request or of the script may change.
LEMMA TypedStep ==
  ASSUME Typed, NEW c \in Callers,
         Web!Arrive(c) \/ Web!Decide(c) \/ Web!Look(c) \/ Web!Set(c) \/ Web!RefreshFails(c) \/ Web!Script(c)
  PROVE  Web!TypeOK' /\ \A p \in alive' : p <= pids'
<1> USE DEF Web!Steps, Web!Asking, Web!Scripts, Web!Statuses, Web!Failures
<1>1. call \in [Callers -> Caller] /\ call[c].pid \in Web!Pids \cup {Web!NoPid}
  BY DEF Typed, Web!TypeOK, Caller
<1>2. /\ enabled \in BOOLEAN /\ status \in Web!Statuses /\ pidFile \in Web!Pids \cup {Web!NoPid}
      /\ alive \subseteq Web!Pids /\ told \subseteq alive /\ port \in alive \cup {Web!NoPid}
      /\ pids \in 0..MaxPids /\ crashes \in 0..MaxCrashes /\ \A p \in alive : p <= pids
  BY DEF Typed, Web!TypeOK
<1>3. CASE Web!Arrive(c)
  <2>1. Web!Go(c, "decide") \/ Web!Go(c, "clear") \/ Web!Go(c, "start")
    BY <1>3, SwitchAssumption DEF Web!Arrive
  <2>2. call' \in [Callers -> Caller]
    BY <1>1, <2>1, MovedOn
  <2> QED
    BY <1>2, <1>3, <2>2 DEF Web!Arrive, Web!world, Web!TypeOK, Caller
<1>4. CASE Web!Decide(c) \/ Web!Look(c) \/ Web!RefreshFails(c) \/ Web!Stopped(c)
  <2>1. \E s \in {"look", "set", "keep", "idle", "start"} : Web!Go(c, s)
    BY <1>4 DEF Web!Decide, Web!Look, Web!RefreshFails, Web!Stopped
  <2>2. call' \in [Callers -> Caller]
    BY <1>1, <2>1, MovedOn
  <2> QED
    BY <1>2, <1>4, <2>2 DEF Web!Decide, Web!Look, Web!RefreshFails, Web!Stopped, Web!world, Web!TypeOK, Caller
<1>5. CASE Web!Set(c) \/ Web!Start(c) \/ Web!Config(c) \/ Web!Confirm(c)
  <2>1. \E s \in {"idle", "refresh", "config", "spawn"} : Web!Go(c, s)
    BY <1>5 DEF Web!Set, Web!Start, Web!Config, Web!Confirm
  <2>2. call' \in [Callers -> Caller]
    BY <1>1, <2>1, MovedOn
  <2>3. UNCHANGED <<alive, told, port, pids, crashes>>
    BY <1>5 DEF Web!Set, Web!Start, Web!Config, Web!Confirm
  <2>4. enabled' \in BOOLEAN /\ status' \in Web!Statuses /\ pidFile' \in Web!Pids \cup {Web!NoPid}
    BY <1>2, <1>5 DEF Web!Set, Web!Start, Web!Config, Web!Confirm
  <2> QED
    BY <1>2, <2>2, <2>3, <2>4 DEF Web!TypeOK, Caller
<1>6. CASE Web!Stop(c) \/ Web!Stopping(c)
  <2>1. call' \in [Callers -> Caller]
    <3>1. (\E s \in {"stopped", "idle"} : Web!Go(c, s)) \/ Web!GoWith(c, "stopping", pidFile)
      BY <1>6 DEF Web!Stop, Web!Stopping
    <3> QED
      BY <1>1, <1>2, <3>1, Moved, MovedOn
  <2>2. UNCHANGED <<enabled, alive, port, pids, crashes>>
    BY <1>6 DEF Web!Stop, Web!Stopping
  <2>3. status' \in Web!Statuses /\ pidFile' \in Web!Pids \cup {Web!NoPid} /\ told' \subseteq alive
    BY <1>2, <1>6 DEF Web!Stop, Web!Stopping
  <2> QED
    BY <1>2, <2>1, <2>2, <2>3 DEF Web!TypeOK, Caller
<1>7. CASE Web!Spawn(c)
  <2>1. pids' = pids + 1 /\ pids < MaxPids /\ alive' = alive \cup {pids'} /\ Web!GoWith(c, "written", pids')
    BY <1>7 DEF Web!Spawn
  <2>2. pids' \in Web!Pids /\ pids' \in 0..MaxPids /\ \A p \in alive' : p <= pids'
    BY <1>2, <2>1, SwitchAssumption DEF Web!Pids
  <2>3. call' \in [Callers -> Caller]
    BY <1>1, <2>1, <2>2, Moved
  <2>4. status' = "starting" /\ UNCHANGED <<enabled, pidFile, told, port, crashes>>
    BY <1>7 DEF Web!Spawn
  <2> QED
    BY <1>2, <2>1, <2>2, <2>3, <2>4 DEF Web!TypeOK, Caller
<1>8. CASE Web!WritePid(c)
  <2>1. call' \in [Callers -> Caller]
    <3>1. Web!Go(c, "idle") \/ Web!GoWith(c, "wait", call[c].pid)
      BY <1>8 DEF Web!WritePid
    <3> QED
      BY <1>1, <3>1, Moved, MovedOn
  <2>2. UNCHANGED <<enabled, alive, port, pids, crashes>>
    BY <1>8 DEF Web!WritePid
  <2>3. status' \in Web!Statuses /\ pidFile' \in Web!Pids \cup {Web!NoPid} /\ told' \subseteq alive
    BY <1>1, <1>2, <1>8 DEF Web!WritePid
  <2> QED
    BY <1>2, <2>1, <2>2, <2>3 DEF Web!TypeOK, Caller
<1> QED
  BY <1>3, <1>4, <1>5, <1>6, <1>7, <1>8 DEF Web!Script

\* A step of the whole keeps the types.
LEMMA TypedNext == ASSUME Typed, [MNext]_mvars PROVE Typed'
<1>1. CASE UNCHANGED <<enabled, listener, history>>
  BY <1>1 DEF listener, history, Typed, Web!TypeOK
<1>2. CASE AuthStep
  <2>1. UNCHANGED enabled
    BY <1>2 DEF AuthStep, Tick, LockAll, CreateCode, Redeem, RedeemRight, RedeemWrong, RedeemLate, Use, Look,
                Refuse, Revoke
  <2> QED
    BY <1>1, <1>2, <2>1 DEF AuthStep
<1>3. CASE ListenerStep
  <2>1. missed' \in BOOLEAN /\ crossed' \in BOOLEAN
    BY <1>3 DEF ListenerStep
  <2>2. ASSUME NEW p \in Web!Pids, Web!Bind(p) \/ Web!Obey(p) \/ Web!Crash(p)
        PROVE  Web!TypeOK' /\ \A q \in alive' : q <= pids'
    <3>1. UNCHANGED <<enabled, status, pidFile, pids, call>> /\ alive' \subseteq alive
      BY <2>2 DEF Web!Bind, Web!Obey, Web!Crash, Web!Gone
    <3>2. told' \subseteq alive' /\ port' \in alive' \cup {Web!NoPid}
      BY <2>2 DEF Typed, Web!TypeOK, Web!Bind, Web!Obey, Web!Crash, Web!Gone
    <3>3. crashes' \in 0..MaxCrashes
      BY <2>2, SwitchAssumption DEF Typed, Web!TypeOK, Web!Bind, Web!Obey, Web!Crash, Web!Gone
    <3> QED
      BY <3>1, <3>2, <3>3 DEF Typed, Web!TypeOK
  <2> QED
    BY <1>3, <2>1, <2>2, TypedStep DEF ListenerStep, Typed
<1>4. ASSUME NEW c \in Callers, Switch(c) PROVE Typed'
  BY <1>4, TypedStep DEF Switch, Typed
<1>5. ASSUME NEW c \in Callers, RefreshFails(c) PROVE Typed'
  BY <1>5, TypedStep DEF RefreshFails, Typed
<1>6. CASE Restarts
  <2>1. call' \in [Callers -> [pc : Web!Steps, pid : Web!Pids \cup {Web!NoPid}]]
    BY <1>6 DEF Restarts, Typed, Web!TypeOK, Web!Steps
  <2> QED
    BY <1>6, <2>1 DEF Restarts, Restart, Typed, Web!TypeOK
<1> QED
  BY <1>1, <1>2, <1>3, <1>4, <1>5, <1>6 DEF MNext, mvars

-----------------------------------------------------------------------------
(* One script at a time. *)

\* A caller without a script that moves outside the scripts disturbs no script.
LEMMA CalmAside ==
  ASSUME Typed, Calm, NEW c \in Callers, ~Web!Runs(c), ~Web!Runs(c)',
         \A d \in Callers : d # c => call'[d] = call[d],
         UNCHANGED <<status, pidFile, alive, told, port, pids, crashes>>,
         (enabled' = enabled /\ (Pending => Pending') /\ (missed => missed')) \/ Pending' \/ missed'
  PROVE  Calm'
<1>1. \A d \in Callers : (Web!Runs(d)' <=> Web!Runs(d)) /\ (Web!Runs(d) => call'[d] = call[d])
  BY DEF Web!Runs
<1>2. \A d \in Callers : Running(d)'
  <2> SUFFICES ASSUME NEW d \in Callers PROVE Running(d)'
    OBVIOUS
  <2>1. CASE Web!Runs(d)
    <3>1. Running(d) /\ call'[d] = call[d]
      BY <1>1, <2>1 DEF Calm
    <3>2. enabled \/ missed \/ Pending => enabled' \/ missed' \/ Pending'
      OBVIOUS
    <3> QED
      BY <3>1, <3>2 DEF Running
  <2>2. CASE ~Web!Runs(d)
    <3>1. call'[d].pc \notin Web!Scripts
      BY <1>1, <2>2 DEF Web!Runs
    <3> QED
      BY <3>1 DEF Running, Web!Scripts
  <2> QED
    BY <2>1, <2>2
<1>3. (\A d \in Callers : ~Web!Runs(d)') => Found' /\ Done'
  <2> SUFFICES ASSUME \A d \in Callers : ~Web!Runs(d)' PROVE Found' /\ Done'
    OBVIOUS
  <2>1. Found /\ Done
    BY <1>1 DEF Calm
  <2>2. Found'
    BY <2>1 DEF Found
  <2>3. Done'
    BY <2>1 DEF Done, Web!Failed
  <2> QED
    BY <2>2, <2>3
<1>4. \A d, e \in Callers : Web!Runs(d)' /\ Web!Runs(e)' => d = e
  BY <1>1 DEF Calm
<1> QED
  BY <1>2, <1>3, <1>4 DEF Calm

\* The only script that runs goes on.
LEMMA CalmOn ==
  ASSUME Calm, NEW c \in Callers, Web!Runs(c), Web!Runs(c)',
         \A d \in Callers : d # c => call'[d] = call[d], Running(c)'
  PROVE  Calm'
<1>1. \A d \in Callers : d # c => ~Web!Runs(d) /\ ~Web!Runs(d)'
  BY DEF Calm, Web!Runs
<1>2. \A d \in Callers : Running(d)'
  BY <1>1 DEF Running, Web!Runs, Web!Scripts
<1> QED
  BY <1>1, <1>2 DEF Calm

\* A script begins where there is none.
LEMMA CalmBegins ==
  ASSUME Calm, NEW c \in Callers, ~Web!Runs(c), Web!Runs(c)', \A d \in Callers : d # c => call'[d] = call[d],
         ~TwoRun', (\A d \in Callers : ~Web!Runs(d)) => Running(c)'
  PROVE  Calm'
<1>1. \A d \in Callers : d # c => ~Web!Runs(d) /\ ~Web!Runs(d)'
  BY DEF TwoRun, Web!Runs
<1>2. \A d \in Callers : Running(d)'
  BY <1>1 DEF Running, Web!Runs, Web!Scripts
<1> QED
  BY <1>1, <1>2 DEF Calm

\* The only script ends.
LEMMA CalmEnds ==
  ASSUME Calm, NEW c \in Callers, Web!Runs(c), ~Web!Runs(c)',
         \A d \in Callers : d # c => call'[d] = call[d], Found', Done'
  PROVE  Calm'
<1>1. \A d \in Callers : ~Web!Runs(d)'
  BY DEF Calm, Web!Runs
<1>2. \A d \in Callers : Running(d)'
  BY <1>1 DEF Running, Web!Runs, Web!Scripts
<1> QED
  BY <1>1, <1>2 DEF Calm

\* What a script that is under way leaves of the history.
LEMMA SameHistory ==
  ASSUME Calm, NEW c \in Callers, Web!Runs(c), \A d \in Callers : d # c => call'[d] = call[d],
         call'[c].pc # "refresh", missed \in BOOLEAN, missed' = (missed /\ ~Begins)
  PROVE  missed' = missed /\ (Pending' <=> Pending)
<1>1. ~Begins
  BY DEF Begins, Web!Runs
<1>2. call[c].pc # "refresh"
  BY DEF Web!Runs, Web!Scripts
<1> QED
  BY <1>1, <1>2 DEF Pending

\* A request arrives, or the boot runs the script.
LEMMA CalmArrive ==
  ASSUME Typed, Calm, NEW c \in Callers, Web!Arrive(c), ~TwoRun', missed' = (missed /\ ~Begins)
  PROVE  Calm'
<1> USE DEF Web!Runs, Web!Scripts
<1>1. call \in [Callers -> Caller] /\ call[c].pc = "idle" /\ UNCHANGED Web!world
  BY DEF Typed, Web!TypeOK, Caller, Web!Arrive, Web!At
<1>2. UNCHANGED <<enabled, status, pidFile, alive, told, port, pids, crashes>>
  BY <1>1 DEF Web!world
<1>3. CASE \E s \in {"decide", "clear"} : Web!Go(c, s)
  <2>1. PICK s \in {"decide", "clear"} : Web!Go(c, s)
    BY <1>3
  <2>2. call'[c].pc = s /\ \A d \in Callers : d # c => call'[d] = call[d]
    BY <1>1, <2>1, MovedOn DEF Web!Steps, Web!Asking
  <2>3. ~Begins /\ (Pending => Pending')
    BY <1>1, <2>2 DEF Begins, Pending
  <2>4. missed' = missed
    BY <2>3 DEF Typed
  <2> QED
    BY <1>1, <1>2, <2>2, <2>3, <2>4, CalmAside
<1>4. CASE Web!Go(c, "start") /\ status = "none"
  <2>1. call'[c].pc = "start" /\ \A d \in Callers : d # c => call'[d] = call[d]
    BY <1>1, <1>4, MovedOn DEF Web!Steps
  <2>2. ASSUME \A d \in Callers : ~Web!Runs(d) PROVE Running(c)'
    BY <1>2, <1>4, <2>1, <2>2 DEF Calm, Found, Running
  <2> QED
    BY <1>1, <2>1, <2>2, CalmBegins
<1> QED
  BY <1>3, <1>4, SwitchAssumption DEF Web!Arrive

\* managementd looks, and sets the opt-in.
LEMMA CalmAsking ==
  ASSUME Typed, Calm, NEW c \in Callers, Web!Decide(c) \/ Web!Look(c) \/ Web!Set(c),
         missed' = (missed /\ ~Begins) \/ UNCHANGED missed,
         ~(Web!Set(c) /\ Web!At(c, "keep") /\ enabled' # enabled)
  PROVE  Calm'
<1> USE DEF Web!Runs, Web!Scripts
<1>1. call \in [Callers -> Caller]
  BY DEF Typed, Web!TypeOK, Caller
<1>2. UNCHANGED <<status, pidFile, alive, told, port, pids, crashes>>
  BY DEF Web!Decide, Web!Look, Web!Set, Web!world
<1>3. call[c].pc \in {"decide", "look", "keep", "set", "clear"}
  BY DEF Web!Decide, Web!Look, Web!Set, Web!At
<1>4. PICK s \in {"idle", "look", "set", "keep", "refresh"} :
        Web!Go(c, s) /\ (s = "refresh" \/ enabled' = enabled)
  BY DEF Web!Decide, Web!Look, Web!Set, Web!At, Web!world
<1>5. call'[c].pc = s /\ \A d \in Callers : d # c => call'[d] = call[d]
  BY <1>1, <1>4, MovedOn DEF Web!Steps, Web!Asking
<1>6. ~Begins /\ (Pending => Pending') /\ (s = "refresh" => Pending')
  BY <1>3, <1>5 DEF Begins, Pending
<1>7. missed' = missed
  BY <1>6 DEF Typed
<1> QED
  BY <1>2, <1>3, <1>4, <1>5, <1>6, <1>7, CalmAside

\* The script is not run.
LEMMA CalmRefreshFails ==
  ASSUME Typed, Calm, NEW c \in Callers, Web!RefreshFails(c), missed' PROVE Calm'
<1> USE DEF Web!Runs, Web!Scripts
<1>1. call \in [Callers -> Caller] /\ call[c].pc = "refresh" /\ Web!Go(c, "idle") /\ UNCHANGED Web!world
  BY DEF Typed, Web!TypeOK, Caller, Web!RefreshFails, Web!At
<1>2. call'[c].pc = "idle" /\ \A d \in Callers : d # c => call'[d] = call[d]
  BY <1>1, MovedOn DEF Web!Steps
<1>3. UNCHANGED <<status, pidFile, alive, told, port, pids, crashes>>
  BY <1>1 DEF Web!world
<1> QED
  BY <1>1, <1>2, <1>3, CalmAside

\* managementd restarts.
LEMMA CalmRestarts == ASSUME Typed, Calm, Restarts PROVE Calm'
<1> USE DEF Web!Runs, Web!Scripts
<1>1. UNCHANGED <<enabled, status, pidFile, alive, told, port, pids, crashes>>
  BY DEF Restarts, Restart
<1>2. \A d \in Callers : call'[d] = (IF call[d].pc \in Web!Asking THEN [pc |-> "idle", pid |-> Web!NoPid] ELSE call[d])
  BY DEF Restarts
<1>3. \A d \in Callers : (Web!Runs(d)' <=> Web!Runs(d)) /\ (Web!Runs(d) => call'[d] = call[d])
  BY <1>2 DEF Web!Asking
<1>4. missed \/ Pending => missed'
  BY DEF Restarts, Pending, Web!At
<1>5. \A d \in Callers : Running(d)'
  <2> SUFFICES ASSUME NEW d \in Callers PROVE Running(d)'
    OBVIOUS
  <2>1. CASE Web!Runs(d)
    BY <1>1, <1>3, <1>4, <2>1 DEF Calm, Running
  <2>2. CASE ~Web!Runs(d)
    BY <1>3, <2>2 DEF Running
  <2> QED
    BY <2>1, <2>2
<1>6. (\A d \in Callers : ~Web!Runs(d)') => Found' /\ Done'
  BY <1>1, <1>3, <1>4 DEF Calm, Found, Done, Web!Failed
<1>7. \A d, e \in Callers : Web!Runs(d)' /\ Web!Runs(e)' => d = e
  BY <1>3 DEF Calm
<1> QED
  BY <1>5, <1>6, <1>7 DEF Calm

\* The script begins with stop.
LEMMA CalmStop ==
  ASSUME Typed, Calm, NEW c \in Callers, Web!Stop(c), ~TwoRun' PROVE Calm'
<1> USE DEF Web!Runs, Web!Scripts
<1>1. call \in [Callers -> Caller] /\ call[c].pc = "refresh" /\ told \subseteq alive
  BY DEF Typed, Web!TypeOK, Caller, Web!Stop, Web!At
<1>2. CASE pidFile \in alive /\ told' = told \cup {pidFile} /\ Web!GoWith(c, "stopping", pidFile)
  <2>1. call'[c].pc = "stopping" /\ \A d \in Callers : d # c => call'[d] = call[d]
    BY <1>1, <1>2, Moved DEF Typed, Web!TypeOK, Web!Steps
  <2>2. ASSUME \A d \in Callers : ~Web!Runs(d) PROVE Running(c)'
    <3>1. Found /\ UNCHANGED alive
      BY <2>2 DEF Calm, Web!Stop
    <3>2. alive' \subseteq told'
      BY <1>2, <3>1 DEF Found
    <3> QED
      BY <2>1, <3>2 DEF Running
  <2> QED
    BY <1>1, <2>1, <2>2, CalmBegins
<1>3. CASE pidFile \notin alive /\ pidFile' = Web!NoPid /\ status' = "stopped" /\ Web!Go(c, "stopped") /\ UNCHANGED told
  <2>1. call'[c].pc = "stopped" /\ \A d \in Callers : d # c => call'[d] = call[d]
    BY <1>1, <1>3, MovedOn DEF Web!Steps
  <2>2. ASSUME \A d \in Callers : ~Web!Runs(d) PROVE Running(c)'
    <3>1. Found /\ UNCHANGED alive
      BY <2>2 DEF Calm, Web!Stop
    <3>2. alive' \subseteq told'
      BY <1>3, <3>1 DEF Found
    <3> QED
      BY <1>3, <2>1, <3>2 DEF Running
  <2> QED
    BY <1>1, <2>1, <2>2, CalmBegins
<1> QED
  BY <1>2, <1>3 DEF Web!Stop

\* The other steps of the script.
LEMMA CalmScript ==
  ASSUME Typed, Calm, NEW c \in Callers,
         \/ Web!Stopping(c) \/ Web!Stopped(c) \/ Web!Start(c) \/ Web!Config(c) \/ Web!Spawn(c)
         \/ Web!WritePid(c) \/ Web!Confirm(c),
         missed' = (missed /\ ~Begins)
  PROVE  Calm'
<1> USE DEF Web!Runs, Web!Scripts
<1>1. call \in [Callers -> Caller] /\ call[c].pid \in Web!Pids \cup {Web!NoPid}
  BY DEF Typed, Web!TypeOK, Caller
<1>2. Web!Runs(c)
  BY DEF Web!Stopping, Web!Stopped, Web!Start, Web!Config, Web!Spawn, Web!WritePid, Web!Confirm, Web!At
<1>3. Running(c) /\ told \subseteq alive /\ missed \in BOOLEAN
  BY DEF Calm, Typed, Web!TypeOK
<1>4. Web!NoPid \notin alive
  BY DEF Typed, Web!TypeOK, Web!Pids, Web!NoPid
<1>5. ASSUME NEW s \in Web!Steps \ {"refresh"}, NEW p \in Web!Pids \cup {Web!NoPid}, Web!GoWith(c, s, p)
      PROVE  /\ call'[c].pc = s /\ call'[c].pid = p /\ \A d \in Callers : d # c => call'[d] = call[d]
             /\ missed' = missed /\ (Pending' <=> Pending)
  <2>1. call'[c].pc = s /\ call'[c].pid = p /\ \A d \in Callers : d # c => call'[d] = call[d]
    BY <1>1, <1>5, Moved
  <2> QED
    BY <1>2, <1>3, <2>1, SameHistory
<1>6. ASSUME NEW s \in Web!Scripts, NEW p \in Web!Pids \cup {Web!NoPid}, Web!GoWith(c, s, p),
             call'[c].pc = s /\ call'[c].pid = p /\ missed' = missed /\ (Pending' <=> Pending) => Running(c)'
      PROVE  Calm'
  BY <1>2, <1>5, <1>6, CalmOn DEF Web!Steps
<1>7. ASSUME Web!Go(c, "idle"), missed' = missed /\ (Pending' <=> Pending) => Found' /\ Done' PROVE Calm'
  BY <1>2, <1>5, <1>7, CalmEnds DEF Web!Go, Web!Steps
<1>8. CASE Web!Stopping(c)
  <2>1. alive \subseteq told /\ UNCHANGED <<enabled, alive, told, port, crashes>>
    BY <1>3, <1>8 DEF Web!Stopping, Web!At, Running
  <2>2. CASE pidFile' = Web!NoPid /\ status' = "stopped" /\ Web!Go(c, "stopped")
    BY <1>6, <2>1, <2>2 DEF Web!Go, Running
  <2>3. CASE status' = "stop-timeout" /\ Web!Go(c, "idle")
    BY <1>7, <2>1, <2>3 DEF Found, Done, Web!Failed, Web!Failures
  <2> QED
    BY <1>8, <2>2, <2>3 DEF Web!Stopping
<1>9. CASE Web!Stopped(c)
  <2>1. status = "stopped" /\ alive \subseteq told /\ pidFile = Web!NoPid
    BY <1>3, <1>9 DEF Web!Stopped, Web!At, Running
  <2>2. Web!Go(c, "start") /\ UNCHANGED <<enabled, status, pidFile, alive, told>>
    BY <1>9, <2>1 DEF Web!Stopped, Web!world
  <2> QED
    BY <1>6, <2>1, <2>2 DEF Web!Go, Running
<1>10. CASE Web!Start(c)
  <2>1. alive \subseteq told /\ pidFile = Web!NoPid
    BY <1>3, <1>10 DEF Web!Start, Web!At, Running
  <2>2. Web!Go(c, "config") /\ pidFile' = Web!NoPid /\ UNCHANGED <<alive, told>>
    BY <1>4, <1>10, <2>1 DEF Web!Start
  <2> QED
    BY <1>6, <2>1, <2>2 DEF Web!Go, Running
<1>11. CASE Web!Config(c)
  <2>1. alive \subseteq told /\ pidFile = Web!NoPid
    BY <1>3, <1>11 DEF Web!Config, Web!At, Running
  <2>2. UNCHANGED <<enabled, pidFile, alive, told, port, crashes>>
    BY <1>11 DEF Web!Config
  <2>3. CASE enabled /\ Web!Go(c, "spawn")
    BY <1>6, <2>1, <2>2, <2>3 DEF Web!Go, Running
  <2>4. CASE Web!Go(c, "idle") /\ (status' = "unavailable" \/ (~enabled /\ status' = "disabled"))
    BY <1>7, <2>1, <2>2, <2>4 DEF Found, Done, Web!Failed, Web!Failures
  <2> QED
    BY <1>11, <2>3, <2>4 DEF Web!Config
<1>12. CASE Web!Spawn(c)
  <2>1. alive \subseteq told /\ (enabled \/ missed \/ Pending)
    BY <1>3, <1>12 DEF Web!Spawn, Web!At, Running
  <2>2. pids' = pids + 1 /\ pids < MaxPids /\ alive' = alive \cup {pids'} /\ Web!GoWith(c, "written", pids')
        /\ UNCHANGED <<enabled, told>>
    BY <1>12 DEF Web!Spawn
  <2>3. pids' \in Web!Pids /\ pids' \notin told
    <3>1. pids \in Nat /\ \A p \in told : p <= pids /\ p \in Nat
      BY <1>3, SwitchAssumption DEF Typed, Web!TypeOK, Web!Pids
    <3> QED
      BY <2>2, <3>1, SwitchAssumption DEF Web!Pids
  <2> QED
    BY <1>6, <2>1, <2>2, <2>3 DEF Running
<1>13. CASE Web!WritePid(c)
  <2>1. /\ enabled \/ missed \/ Pending
        /\ call[c].pid \notin told /\ \A p \in alive \ told : p = call[c].pid
    BY <1>3, <1>13 DEF Web!WritePid, Web!At, Running
  <2>2. UNCHANGED <<enabled, alive, port, crashes>>
    BY <1>13 DEF Web!WritePid
  <2>3. CASE pidFile' = call[c].pid /\ Web!GoWith(c, "wait", call[c].pid) /\ UNCHANGED told
    BY <1>1, <1>6, <2>1, <2>2, <2>3 DEF Running
  <2>4. CASE Web!Go(c, "idle") /\ status' = "pid-write-failed" /\ told' = told \cup ({call[c].pid} \cap alive)
    <3>1. alive' \subseteq told'
      BY <2>1, <2>2, <2>4
    <3> QED
      BY <1>7, <2>2, <2>4, <3>1 DEF Found, Done, Web!Failed, Web!Failures
  <2> QED
    BY <1>13, <2>3, <2>4 DEF Web!WritePid
<1>14. CASE Web!Confirm(c)
  <2>1. /\ enabled \/ missed \/ Pending
        /\ call[c].pid \notin told /\ (\A p \in alive \ told : p = call[c].pid) /\ pidFile = call[c].pid
    BY <1>3, <1>14 DEF Web!Confirm, Web!At, Running
  <2>2. UNCHANGED <<enabled, alive, told, port, crashes>> /\ Web!Go(c, "idle")
    BY <1>14 DEF Web!Confirm
  <2>3. CASE call[c].pid \in alive /\ port = call[c].pid /\ status' = "active" /\ UNCHANGED pidFile
    BY <1>7, <2>1, <2>2, <2>3 DEF Found, Done
  <2>4. CASE call[c].pid \notin alive /\ status' = "startup-failed" /\ pidFile' = Web!NoPid
    <3>1. alive' \subseteq told'
      BY <2>1, <2>2, <2>4
    <3> QED
      BY <1>7, <2>2, <2>4, <3>1 DEF Found, Done, Web!Failed, Web!Failures
  <2> QED
    BY <1>14, <2>1, <2>3, <2>4 DEF Web!Confirm
<1> QED
  BY <1>8, <1>9, <1>10, <1>11, <1>12, <1>13, <1>14

\* What the listener does by itself.
LEMMA CalmListener ==
  ASSUME Typed, Calm, NEW p \in Web!Pids, Web!Bind(p) \/ Web!Obey(p) \/ Web!Crash(p),
         missed' = (missed /\ ~Begins)
  PROVE  Calm'
<1>1. UNCHANGED <<enabled, status, pidFile, pids, call>>
  BY DEF Web!Bind, Web!Obey, Web!Crash, Web!Gone
<1>2. missed' = missed /\ (Pending' <=> Pending) /\ \A d \in Callers : Web!Runs(d)' <=> Web!Runs(d)
  BY <1>1 DEF Begins, Typed, Pending, Web!Runs
<1>3. told \subseteq alive /\ crashes \in Nat
  BY SwitchAssumption DEF Typed, Web!TypeOK
\* The processes that go were told to, or are not those that scripts rely on.
<1>4. alive' \ told' \subseteq alive \ told /\ (alive \subseteq told => alive' \subseteq told') /\ told' \subseteq told
  BY <1>3 DEF Web!Bind, Web!Obey, Web!Crash, Web!Gone
<1>5. \A d \in Callers : Running(d)'
  BY <1>1, <1>2, <1>4 DEF Calm, Running
<1>6. ASSUME Found, Done PROVE Found' /\ Done'
  <2>1. CASE Web!Bind(p)
    \* The only listener has the port, so that none gives way to another.
    <3>1. p \in alive \ told /\ port # p
      BY <2>1 DEF Web!Bind
    <3> QED
      BY <1>6, <3>1 DEF Found
  <2>2. CASE Web!Obey(p)
    <3>1. p \in told /\ alive' = alive \ {p} /\ told' = told \ {p} /\ UNCHANGED crashes
          /\ port' = (IF port = p THEN Web!NoPid ELSE port)
      BY <2>2 DEF Web!Obey, Web!Gone
    <3>2. alive' \ told' = alive \ told
      BY <3>1
    <3>3. Found'
      BY <1>1, <1>6, <3>1, <3>2 DEF Found
    <3>4. Done'
      BY <1>1, <1>2, <1>4, <1>6, <3>1, <3>2 DEF Done, Web!Failed
    <3> QED
      BY <3>3, <3>4
  <2>3. CASE Web!Crash(p)
    <3>1. p \in alive \ told /\ alive' = alive \ {p} /\ told' = told \ {p} /\ crashes' = crashes + 1
      BY <2>3 DEF Web!Crash, Web!Gone
    <3>2. crashes' # 0
      BY <1>3, <3>1
    <3>3. alive' \ told' = {}
      BY <1>6, <3>1 DEF Found
    <3>4. Found'
      BY <1>1, <1>6, <3>1, <3>3 DEF Found
    <3>5. Done'
      BY <1>1, <1>2, <1>6, <3>2, <3>3 DEF Done
    <3> QED
      BY <3>4, <3>5
  <2> QED
    BY <2>1, <2>2, <2>3
<1>7. \A d, e \in Callers : Web!Runs(d)' /\ Web!Runs(e)' => d = e
  BY <1>2 DEF Calm
<1>8. (\A d \in Callers : ~Web!Runs(d)') => Found' /\ Done'
  BY <1>2, <1>6 DEF Calm
<1> QED
  BY <1>5, <1>7, <1>8 DEF Calm

\* A step of the whole keeps the invariant.
LEMMA SwitchNext == SwitchInv /\ [MNext]_mvars => SwitchInv'
<1> SUFFICES ASSUME SwitchInv, [MNext]_mvars PROVE SwitchInv'
  OBVIOUS
<1>1. Typed /\ Typed'
  BY TypedNext DEF SwitchInv
<1>2. crossed => crossed'
  BY DEF MNext, AuthStep, ListenerStep, Switch, RefreshFails, Restarts, history, mvars
<1>3. ASSUME Calm, ~crossed' PROVE Calm'
  <2>1. CASE UNCHANGED <<enabled, listener, history>>
    BY <1>3, <2>1 DEF listener, history, Calm, Running, Found, Done, Pending, Web!Failed, Web!Runs
  <2>2. CASE AuthStep
    <3>1. UNCHANGED enabled
      BY <2>2 DEF AuthStep, Tick, LockAll, CreateCode, Redeem, RedeemRight, RedeemWrong, RedeemLate, Use, Look,
                  Refuse, Revoke
    <3> QED
      BY <2>1, <2>2, <3>1 DEF AuthStep
  <2>3. CASE ListenerStep
    <3>1. ~TwoRun' /\ missed' = (missed /\ ~Begins)
      BY <1>3, <2>3 DEF ListenerStep
    <3>2. ASSUME NEW c \in Callers, Web!Decide(c) \/ Web!Look(c) PROVE Calm'
      <4>1. UNCHANGED enabled
        BY <3>2 DEF Web!Decide, Web!Look, Web!world
      <4> QED
        BY <1>1, <1>3, <3>1, <3>2, <4>1, CalmAsking
    <3>3. ASSUME NEW c \in Callers, Web!Script(c) PROVE Calm'
      BY <1>1, <1>3, <3>1, <3>3, CalmStop, CalmScript DEF Web!Script
    <3> QED
      BY <1>1, <1>3, <2>3, <3>1, <3>2, <3>3, CalmArrive, CalmListener DEF ListenerStep
  <2>4. ASSUME NEW c \in Callers, Switch(c) PROVE Calm'
    BY <1>1, <1>3, <2>4, CalmAsking DEF Switch
  <2>5. ASSUME NEW c \in Callers, RefreshFails(c) PROVE Calm'
    BY <1>1, <1>3, <2>5, CalmRefreshFails DEF RefreshFails
  <2> QED
    BY <1>1, <1>3, <2>1, <2>2, <2>3, <2>4, <2>5, CalmRestarts DEF MNext, mvars
<1> QED
  BY <1>1, <1>2, <1>3 DEF SwitchInv

\* However many requests are at work, restarts and failures among them: unless they cross, the
\* listener comes to be what the opt-in says, or what is left open is what was missed, crashed
\* or is named by the status.
THEOREM SwitchesSettle == MSpec => []SwitchSettles
<1>1. SwitchInv => SwitchSettles
  <2> SUFFICES ASSUME SwitchInv PROVE SwitchSettles
    OBVIOUS
  <2>1. Web!TypeOK
    BY DEF SwitchInv, Typed
  <2>2. ASSUME Web!Settled, ~crossed
        PROVE  /\ alive \subseteq {pidFile}
               /\ ~enabled /\ alive # {} => missed
               /\ enabled /\ alive = {} => missed \/ crashes # 0 \/ Web!Failed
    <3>1. told = {} /\ ~Pending /\ \A c \in Callers : ~Web!Runs(c)
      BY <2>2 DEF Web!Settled, Web!At, Pending, Web!Runs, Web!Scripts
    <3>2. Found /\ Done
      BY <2>2, <3>1 DEF SwitchInv, Calm
    <3> QED
      BY <3>1, <3>2 DEF Found, Done
  <2> QED
    BY <2>1, <2>2 DEF SwitchSettles
<1> QED
  BY <1>1, SwitchInit, SwitchNext, PTL DEF MSpec
=============================================================================
