------------------------------ MODULE AbUpdate ------------------------------
(***************************************************************************)
(* What an A/B platform update promises: there is at every moment a whole  *)
(* release in the slot that the printer starts next, whatever is being     *)
(* installed in the other slot and whenever the printer stops.             *)
(*                                                                         *)
(* docs/ota.md, "Design principles" 1-3, states the promise; OtaUpdate     *)
(* describes how ota-core keeps it.                                        *)
(***************************************************************************)
CONSTANT Releases

Slots == {"A", "B"}

VARIABLES
  image,    \* release held by each slot, or "torn"
  next,     \* slot the bootloader takes
  running,  \* running slot, or "off"
  good      \* release recorded known-good, or "none"

vars == <<image, next, running, good>>

Whole(s) == image[s] \in Releases

Init ==
  /\ image \in [Slots -> Releases \cup {"torn"}]
  /\ next \in {s \in Slots : Whole(s)}
  /\ running = "off"
  /\ good = "none"

\* Bytes go to the slot that neither runs nor would be started.
Install ==
  /\ running # "off"
  /\ \E s \in Slots \ {running, next}, i \in Releases \cup {"torn"} :
       image' = [image EXCEPT ![s] = i]
  /\ UNCHANGED <<next, running, good>>

\* The next boot is aimed at a slot that holds a whole release.
Aim ==
  /\ running # "off"
  /\ next' \in {s \in Slots : Whole(s)}
  /\ UNCHANGED <<image, running, good>>

\* The printer goes down, in the middle of anything.
Stop ==
  /\ running # "off"
  /\ running' = "off"
  /\ next' \in {s \in Slots : Whole(s)}
  /\ UNCHANGED <<image, good>>

Start ==
  /\ running = "off"
  /\ running' = next
  /\ UNCHANGED <<image, next, good>>

\* The running release is recorded known-good; the next boot is its own.
Accept ==
  /\ running = next
  /\ good' = image[running]
  /\ UNCHANGED <<image, next, running>>

Next == Install \/ Aim \/ Stop \/ Start \/ Accept

Spec == Init /\ [][Next]_vars
=============================================================================
