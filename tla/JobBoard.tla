------------------------------ MODULE JobBoard ------------------------------
(***************************************************************************)
(* What managementd promises about the operations it accepts: there is one *)
(* at a time, over apps and OTA together, and the next one is accepted     *)
(* only when the outcome of the last one is known or an administrator      *)
(* acknowledged that it is not.                                            *)
(***************************************************************************)
CONSTANTS Job, None

VARIABLES
  board,      \* the execution that bars any other, None when there is none
  lost,       \* its outcome cannot be established
  accepted    \* the executions accepted so far

vars == <<board, lost, accepted>>

TypeOK == board \in Job \cup {None} /\ lost \in BOOLEAN /\ accepted \subseteq Job

Init == board = None /\ ~lost /\ accepted = {}

\* An execution is accepted when nothing bars it.
Accept(j) ==
  /\ board = None /\ j \notin accepted
  /\ board' = j /\ accepted' = accepted \cup {j} /\ UNCHANGED lost

\* A complete upload goes on as the verification of the package it published.
Continue(j) ==
  /\ board # None /\ ~lost /\ j \notin accepted
  /\ board' = j /\ accepted' = accepted \cup {j} /\ UNCHANGED lost

\* The outcome is known.
Settle == board # None /\ ~lost /\ board' = None /\ UNCHANGED <<lost, accepted>>

\* The outcome is lost, with a worker or with the daemon.
Lose == board # None /\ ~lost /\ lost' = TRUE /\ UNCHANGED <<board, accepted>>

\* An administrator accepts that the outcome is not known.
Acknowledge == board # None /\ lost /\ board' = None /\ lost' = FALSE /\ UNCHANGED accepted

Next ==
  \/ \E j \in Job : Accept(j) \/ Continue(j)
  \/ Settle \/ Lose \/ Acknowledge

Spec == Init /\ [][Next]_vars
=============================================================================
