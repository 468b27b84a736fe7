---------------------------- MODULE MCMaintenance ----------------------------
(* Maintenance Web for TLC.  Tokens are interchangeable, and so are callers. *)
EXTENDS Maintenance, TLC

Symmetric == Permutations(Tokens) \cup Permutations(Callers)

\* Bound: codes and sessions have their whole life beside one request at a time and a lighttpd
\* that ends when told, two codes beside one listener or one beside two; two requests, or one
\* beside an orphaned script, and crashes are followed beside the first code, at the time it is
\* made; and scripts that have run at once, before there is a code.
Busy == {c \in Callers : ~Web!At(c, "idle")}
Followed ==
  \/ Cardinality(Busy) <= 1 /\ ~crossed /\ crashes = 0 /\ (codes <= 1 \/ pids <= 1)
  \/ codes <= (IF crossed THEN 0 ELSE 1) /\ now = 0

MCSpec == MInit /\ [][MNext /\ Followed']_mvars
=============================================================================
