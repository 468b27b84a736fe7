-------------------------- MODULE MCManagementJobs --------------------------
(* ManagementJobs for TLC: IDs are random, so they are interchangeable. *)
EXTENDS ManagementJobs, TLC

JobSymmetry == Permutations(Job) \cup Permutations(Package)

\* Bound: status requests are followed until managementd is restarted, which ends them.
Followed == restarts = 0 \/ get.pc = "idle"

MCSpec == Init /\ [][Next /\ Followed']_vars
=============================================================================
