---------------------------- MODULE MCOtaUpdate ----------------------------
(* Model-checking instance of OtaUpdate. *)
EXTENDS OtaUpdateInv
=============================================================================
