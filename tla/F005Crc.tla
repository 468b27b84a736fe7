------------------------------- MODULE F005Crc -------------------------------
(* The CRC of an F005 image: polynomial 0x1021, initial value 0. *)
EXTENDS Integers, SequencesExt, Bitwise

CrcBit(crc) == (IF crc >= 32768 THEN ((2 * crc) ^^ 4129) ELSE (2 * crc)) % 65536

\* crc16_ccitt.  The eight rounds are linear: what is in the low byte only moves up, what
\* is in the high byte is shifted out and leaves its feedback.
Feedback == [high \in 0..255 |-> FoldLeft(LAMBDA c, i : CrcBit(c), 256 * high, <<1, 2, 3, 4, 5, 6, 7, 8>>)]
CrcByteCcitt(crc, byte) == (256 * (crc % 256)) ^^ Feedback[(crc \div 256) ^^ byte]

\* A round that sees no byte is one to one on 16 bits.  A byte only enters it by being added
\* to the high byte, so every round is, in the CRC and in the byte.
ASSUME RoundsAreOneToOne ==
  /\ {CrcByteCcitt(crc, 0) : crc \in 0..65535} = 0..65535
  /\ \A crc \in {0, 1, 4129, 32768, 65535}, byte \in 0..255 :
       CrcByteCcitt(crc, byte) = CrcByteCcitt(crc ^^ (256 * byte), 0)
=============================================================================
