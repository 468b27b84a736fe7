---------------------------- MODULE WebSessions ----------------------------
(***************************************************************************)
(* Browser administration in managementd: a pairing code, made by a local  *)
(* administrator, is redeemed once for a session, which ends when it is    *)
(* idle or old, is revoked, or Maintenance is disabled.  Codes and         *)
(* sessions live in memory.  _auth_lock makes each handler's part atomic;  *)
(* expired sessions are only removed when some handler looks.              *)
(*                                                                         *)
(* Time passes in ticks: TTL, Idle and Age are 600 s, 1800 s and 28800 s.  *)
(***************************************************************************)
EXTENDS Naturals, FiniteSets

CONSTANTS
  Tokens,       \* session tokens, each made once
  TTL, Idle, Age,
  MaxAttempts,  \* PAIRING_MAX_ATTEMPTS
  MaxTime,      \* bound: ticks
  MaxCodes      \* bound: pairing codes

ASSUME SessionAssumption ==
  /\ TTL \in Nat \ {0} /\ Idle \in Nat \ {0} /\ Age \in Nat \ {0} /\ MaxAttempts \in Nat \ {0}
  /\ MaxTime \in Nat /\ MaxCodes \in Nat /\ Idle <= Age

NoCode == 0

VARIABLES
  enabled,   \* the Maintenance opt-in
  now,
  codes,     \* pairing codes made; the last one is the one that may be pending
  pending,   \* _pairing: a code or NoCode
  made,      \* when the last code was made
  attempts,  \* of _pairing
  wrong,     \* wrong attempts that each code has had
  redeemed,  \* codes that made a session
  sessions,  \* _sessions: tokens
  used,      \* tokens made so far
  created, lastSeen,
  served     \* tokens of the requests that the last step accepted

pairing == <<codes, pending, made, attempts, wrong, redeemed>>
session == <<sessions, used, created, lastSeen>>
vars == <<enabled, now, pairing, session, served>>

TypeOK ==
  /\ enabled \in BOOLEAN /\ now \in 0..MaxTime /\ codes \in 0..MaxCodes
  /\ pending \in {NoCode, codes} /\ made \in 0..now /\ attempts \in 0..MaxAttempts
  /\ wrong \in [1..MaxCodes -> Nat] /\ redeemed \subseteq 1..codes
  /\ sessions \subseteq used /\ used \subseteq Tokens
  /\ created \in [Tokens -> 0..now] /\ lastSeen \in [Tokens -> 0..now] /\ served \subseteq Tokens

Init ==
  /\ enabled \in BOOLEAN /\ now = 0 /\ codes = 0 /\ pending = NoCode /\ made = 0 /\ attempts = 0
  /\ wrong = [c \in 1..MaxCodes |-> 0] /\ redeemed = {} /\ sessions = {} /\ used = {}
  /\ created = [t \in Tokens |-> 0] /\ lastSeen = [t \in Tokens |-> 0] /\ served = {}

-----------------------------------------------------------------------------

Tick ==
  /\ now < MaxTime /\ now' = now + 1 /\ served' = {}
  /\ UNCHANGED <<enabled, pairing, session>>

\* Bug: sessions are judged by their times alone.
FreshRecorded == {t \in used : now - lastSeen[t] < Idle /\ now - created[t] < Age}

\* prune_web_sessions.
Fresh == {t \in sessions : now - lastSeen[t] < Idle /\ now - created[t] < Age}

\* clear_web_auth.
Clear == pending' = NoCode /\ sessions' = {}

Kept == UNCHANGED <<codes, made, attempts, wrong, redeemed, used, created, lastSeen>>

\* Bug: disabling leaves the sessions to their expiry.
DisableOnly ==
  /\ enabled' = FALSE /\ served' = {}
  /\ UNCHANGED <<now, pairing, session>>

\* set_maintenance(False): the file may resist.
Disable ==
  /\ Clear /\ enabled' \in {enabled, FALSE} /\ served' = {} /\ Kept /\ UNCHANGED now

\* set_maintenance(True), likewise.
Enable ==
  /\ enabled' \in {enabled, TRUE} /\ served' = {}
  /\ UNCHANGED <<now, pairing, session>>

\* maintenance/lock.
LockAll == Clear /\ served' = {} /\ Kept /\ UNCHANGED <<enabled, now>>

\* create_pairing_code replaces a pending code.
CreateCode ==
  /\ enabled /\ codes < MaxCodes
  /\ codes' = codes + 1 /\ pending' = codes + 1 /\ made' = now /\ attempts' = 0 /\ served' = {}
  /\ UNCHANGED <<enabled, now, wrong, redeemed, session>>

Valid == pending # NoCode /\ now - made < TTL

\* redeem_pairing_code with the code.
RedeemRight ==
  /\ enabled /\ Valid /\ attempts' = attempts + 1
  /\ pending' = NoCode /\ redeemed' = redeemed \cup {pending}
  /\ \E t \in Tokens \ used :
       /\ sessions' = Fresh \cup {t} /\ used' = used \cup {t}
       /\ created' = [created EXCEPT ![t] = now] /\ lastSeen' = [lastSeen EXCEPT ![t] = now]
  /\ served' = {}
  /\ UNCHANGED <<enabled, now, codes, made, wrong>>

\* redeem_pairing_code with another one: the last attempt drops the code.
RedeemWrong ==
  /\ enabled /\ Valid /\ attempts' = attempts + 1
  /\ pending' = (IF attempts' >= MaxAttempts THEN NoCode ELSE pending)
  /\ wrong' = [wrong EXCEPT ![pending] = @ + 1] /\ served' = {}
  /\ UNCHANGED <<enabled, now, codes, made, redeemed, session>>

\* redeem_pairing_code without a valid one, or with Maintenance disabled.
RedeemLate ==
  /\ IF enabled THEN ~Valid /\ pending' = NoCode /\ UNCHANGED sessions ELSE Clear
  /\ served' = {} /\ Kept /\ UNCHANGED <<enabled, now>>

\* require_web_admin, and current_web_session with touch.
Use(t) ==
  /\ enabled /\ t \in Fresh /\ sessions' = Fresh /\ served' = {t}
  /\ lastSeen' = [lastSeen EXCEPT ![t] = now]
  /\ UNCHANGED <<enabled, now, pairing, used, created>>

\* auth/session looks without touching.
Look(t) ==
  /\ enabled /\ t \in Fresh /\ sessions' = Fresh /\ served' = {}
  /\ UNCHANGED <<enabled, now, pairing, used, created, lastSeen>>

\* A session that is not, or not any more.
Refuse(t) ==
  /\ t \notin Fresh \/ ~enabled
  /\ IF enabled THEN sessions' = Fresh /\ UNCHANGED pending ELSE Clear
  /\ served' = {} /\ Kept /\ UNCHANGED <<enabled, now>>

\* auth/lock.
Revoke(t) ==
  /\ enabled /\ t \in Fresh /\ sessions' = Fresh \ {t} /\ served' = {t}
  /\ lastSeen' = [lastSeen EXCEPT ![t] = now]
  /\ UNCHANGED <<enabled, now, pairing, used, created>>

\* managementd restarts.
Restart ==
  /\ Clear /\ served' = {} /\ Kept /\ UNCHANGED <<enabled, now>>

Redeem == RedeemRight \/ RedeemWrong \/ RedeemLate

Next ==
  \/ Tick \/ Enable \/ Disable \/ LockAll \/ CreateCode \/ Redeem \/ Restart
  \/ \E t \in Tokens : Use(t) \/ Look(t) \/ Refuse(t) \/ Revoke(t)

Spec == Init /\ [][Next]_vars

-----------------------------------------------------------------------------
(* Properties. *)

\* Nobody is paired, and nobody can pair, while Maintenance is disabled.
PairedWhileEnabled == ~enabled => pending = NoCode /\ sessions = {}

\* A code makes one session at most, in whatever order requests and codes come.
SessionPerCode == Cardinality(used) = Cardinality(redeemed)

\* docs/api/management.md: at most five failed redemption attempts for a code.
AttemptsBounded == \A c \in 1..MaxCodes : wrong[c] <= MaxAttempts

\* The pending code has made no session and counts its wrong attempts; a code to come has had
\* none.  What makes the two bounds above last from one code to the next.
PendingCounts ==
  /\ pending # NoCode => pending \notin redeemed /\ attempts < MaxAttempts /\ wrong[pending] = attempts
  /\ \A c \in 1..MaxCodes : c > codes => wrong[c] = 0

\* A session ends for good: once it is gone, no request is served under its token.
EndedIsOver == [][\A t \in used : t \notin sessions => t \notin sessions' /\ t \notin served']_vars

\* A session is served within Age of its making and within Idle of its last request, however
\* often it is used, and asking for its state does not prolong it.
SessionsExpire ==
  [][\A t \in used : /\ t \in served' => now - created[t] < Age /\ now - lastSeen[t] < Idle
                     /\ created'[t] = created[t]
                     /\ lastSeen'[t] # lastSeen[t] => t \in served']_vars

\* The state part of what browser administration promises.
AuthSound == TypeOK /\ PairedWhileEnabled /\ SessionPerCode /\ AttemptsBounded /\ PendingCounts

\* The life of a session: it is served while it is young and used, and never after its end.
SessionsEnd == EndedIsOver /\ SessionsExpire
=============================================================================
