----------------------------- MODULE MCF005Image -----------------------------
(* Instances of F005Image for TLC. *)
EXTENDS F005Image, F005Crc

\* The published check value of this CRC (polynomial 0x1021, initial value 0).
ASSUME CrcCheckValue == Crc16(<<49, 50, 51, 52, 53, 54, 55, 56, 57>>) = 12739

\* Binaries at the limits of RAM, of the application flash and of the lengths, and one whose
\* board information is not reserved.
MCInputs ==
  {<<v[1], v[2], 7, 0, 0, 0, 0, 0, 9>> :
     v \in {<<31, 65>>, <<32, 63>>, <<32, 65>>, <<48, 127>>, <<49, 65>>, <<32, 66>>, <<32, 129>>}}
  \cup {<<32, 65, 7, 0, 0, 0, 0>>, <<32, 65, 7, 0, 0, 0, 0, 0>>, <<32, 65, 7, 4, 0, 0, 0, 0>>,
        <<40, 65, 255, 0, 0, 0, 0, 0, 1, 128, 3>>, <<32, 65, 7, 0, 0, 0, 0, 0, 1, 2, 3, 4>>}

\* Identities, zero and the ends of the ranges among them.
MCSpoilt == {0, 1, 5, 20, 64, 65, 128, 255}

MCVersions == {<<4>>, <<20>>, <<77>>, <<4, 4>>, <<200>>}

MCManifests ==
  LET right == [path |-> "regular", size |-> Right, digest |-> Right, bootloader |-> 4]
  IN  {right} \cup
      {[right EXCEPT !.path = p] : p \in {"link", "missing"}} \cup
      {[right EXCEPT !.size = n] : n \in {0, 9, None}} \cup
      {[right EXCEPT !.digest = d] : d \in {<<4>>, None}} \cup
      {[right EXCEPT !.bootloader = b] : b \in {5, None}}
=============================================================================
