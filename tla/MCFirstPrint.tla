---------------------------- MODULE MCFirstPrint ----------------------------
(* Instances of FirstPrint for TLC. *)
EXTENDS FirstPrint

\* A print, with what the filter drops and the feeder skips, with a line that the filter
\* refuses, and one that is nearly empty.
Slicer == <<"comment", "M104", "M73", "M190", "M106", "G1">>
MCFiles == {Slicer, Slicer \o <<"M117">>, <<"ACCEL_TO_DECEL", "M104">>}
=============================================================================
