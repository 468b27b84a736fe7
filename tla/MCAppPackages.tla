---------------------------- MODULE MCAppPackages ----------------------------
(* Model-checking instance of AppPackages. *)
EXTENDS AppPackages
=============================================================================
