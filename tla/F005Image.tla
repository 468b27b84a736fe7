------------------------------ MODULE F005Image ------------------------------
(***************************************************************************)
(* The F005 firmware image from the packager to the last check before it   *)
(* is sent: package_f005_firmware.py writes the board information into a   *)
(* linked binary, the release manifest says which image is wanted, and     *)
(* validate_image of the product (f005_bootloader.py) and of the research  *)
(* flasher decide about the bytes they are given.                          *)
(*                                                                         *)
(* The layout keeps its order and is scaled: a word (stack pointer, reset  *)
(* vector, length) and the 12 characters of the identity are a byte each,  *)
(* the CRC has its 16 bits in two bytes.  An identity is a number; digest  *)
(* and bytes are the same, SHA-256 being taken for injective.              *)
(***************************************************************************)
EXTENDS Integers, Sequences, SequencesExt

CONSTANTS Inputs,    \* linked binaries
          Versions,  \* what --version is given, as bytes
          Manifests, \* what the release manifest says of the firmware
          Right,     \* in a manifest: what the packager made
          None,      \* missing, malformed
          Spoilt,    \* what a byte may turn into
          CrcByte(_, _) \* crc16_ccitt, a byte's round (F005Crc)

Byte == 0..255

\* Positions, counted from 1.
Stack == 1
Reset == 2
Metadata == 4
Crc == 5
Length == 7
BoardInfoEnd == 8
Capacity == 11

\* The scaled memory map.
Ram == 32..48
AppFlash == 64..127

\* 4 and 5 stand for mcu0_004_000 and mcu0_005_000, 20 for another target's identity.
\* Other bytes below 128 match no identity, those above are not ASCII.
Target(id) == CASE id \in {4, 5} -> "mcu0" [] id = 20 -> "other" [] OTHER -> None

\* A linked binary fits the length word; a digest that is not the package's is no image's.
ASSUME ImageAssumption ==
  /\ Inputs \subseteq Seq(Byte) /\ (\A input \in Inputs : Len(input) \in Byte)
  /\ Versions \subseteq Seq(Byte) /\ Spoilt \subseteq Byte
  /\ Manifests \subseteq [path : {"regular", "link", "missing"}, size : Nat \cup {Right, None},
                         digest : Seq(Byte) \cup {Right, None}, bootloader : Byte \cup {None}]
  /\ \A m \in Manifests : m.digest \in Seq(Byte) => Len(m.digest) < BoardInfoEnd
  /\ Right # None /\ {Right, None} \cap (Nat \cup Seq(Byte) \cup {"mcu0"}) = {}

\* wire_checksum
Total(data) ==
  LET sum[n \in 0..Len(data)] == IF n = 0 THEN 0 ELSE sum[n - 1] + data[n]
  IN  sum[Len(data)]
WireChecksum(data) == 255 - (Total(data) % 256)

\* crc16_ccitt
Crc16(data) ==
  LET crc[n \in 0..Len(data)] == IF n = 0 THEN 0 ELSE CrcByte(crc[n - 1], data[n])
  IN  crc[Len(data)]

-----------------------------------------------------------------------------
(* package *)

\* The input's board information must be what the linker reserved.
Packable(image, version) ==
  /\ Len(version) = 1 /\ version[1] < 128
  /\ Len(image) >= BoardInfoEnd
  /\ \A i \in Metadata..BoardInfoEnd : image[i] = 0

\* The CRC is made with itself and the length still zero.
Packaged(image, version) ==
  LET named == [image EXCEPT ![Metadata] = version[1]]
      crc == Crc16(named)
  IN  [named EXCEPT ![Crc] = crc % 256, ![Crc + 1] = crc \div 256, ![Length] = Len(image)]

-----------------------------------------------------------------------------
(* Policies. *)

\* require_flash_policy
Complete(policy) ==
  /\ policy.version # None
  /\ policy.size # None /\ policy.size > 0
  /\ policy.digest # None
  /\ policy.hardware # {}

\* image_policy_from_manifest.  The image has to be of the version that the bootloader's
\* identity names.
PolicyOf(manifest) ==
  [version |-> manifest.bootloader, size |-> manifest.size,
   digest |-> manifest.digest, hardware |-> {"good"}]

\* A manifest that is not refused.
Usable(manifest) ==
  manifest.path # "missing" /\ manifest.bootloader # None /\ Complete(PolicyOf(manifest))

\* load_validated_image reads a regular file only.
Loadable(manifest) == Usable(manifest) /\ manifest.path = "regular"

-----------------------------------------------------------------------------
(* validate_image. *)

Startable(image) ==
  image[Stack] \in Ram /\ image[Reset] % 2 = 1 /\ image[Reset] - 1 \in AppFlash

Masked(image) == [image EXCEPT ![Crc] = 0, ![Crc + 1] = 0, ![Length] = 0]

\* Bug: the CRC covers the field it is stored in.
CrcHoldsUnmasked(image) == image[Crc] + 256 * image[Crc + 1] = Crc16(image)

\* The CRC of the image with CRC and length masked is the stored one.
CrcHolds(image) ==
  image[Crc] + 256 * image[Crc + 1] = Crc16(Masked(image))

\* The checks that need no policy but the target.
WellFormed(image) ==
  /\ Len(image) \in BoardInfoEnd..Capacity
  /\ Target(image[Metadata]) = "mcu0"
  /\ image[Length] = Len(image) /\ image[BoardInfoEnd] = 0
  /\ Startable(image) /\ CrcHolds(image)

\* Bug: any image of the release's size will do.
ValidBySize(image, policy) ==
  Complete(policy) /\ WellFormed(image) /\ Len(image) = policy.size

\* The product: a complete policy, and the image it names.
Valid(image, policy) ==
  /\ Complete(policy) /\ WellFormed(image)
  /\ image[Metadata] = policy.version
  /\ Len(image) = policy.size /\ image = policy.digest

\* The research flasher: as much of a policy as there is.
ResearchValid(image, policy) ==
  /\ WellFormed(image)
  /\ policy.version # None => image[Metadata] = policy.version
  /\ policy.size # None => Len(image) = policy.size
  /\ policy.digest # None => image = policy.digest

\* inspect, and validate without arguments.
NoPolicy == [version |-> None, size |-> None, digest |-> None, hardware |-> {}]

-----------------------------------------------------------------------------
(* transfer_image: the image in chunks, each with its checksum. *)

Chunks(image, size) ==
  [i \in 1..(Len(image) + size - 1) \div size |->
     SubSeq(image, (i - 1) * size + 1, IF i * size < Len(image) THEN i * size ELSE Len(image))]

Frame(chunk) == Append(chunk, WireChecksum(chunk))

\* What the bootloader checks of a frame.
FrameHolds(frame) == Last(frame) = WireChecksum(Front(frame))

-----------------------------------------------------------------------------
(* An image on its way: linked, packaged, damaged or not, decided about. *)

VARIABLES stage,     \* linked, packaged, refused, decided
          given,     \* the linked binary
          version,   \* --version
          image,     \* the image file
          damage,    \* what happened to it: none, a byte, cut, grown
          manifest,  \* the manifest it is decided with
          verdict    \* of the product, and of the research flasher without and with policy

imageVars == <<stage, given, version, image, damage, manifest, verdict>>

ImageTypeOK ==
  /\ stage \in {"linked", "packaged", "refused", "decided"}
  /\ given \in Inputs /\ version \in Versions
  /\ image \in Seq(Byte)
  /\ damage \in {"none", "byte", "cut", "grown"}
  /\ manifest \in Manifests \cup {None}
  /\ verdict \in [product : BOOLEAN, bare : BOOLEAN, research : BOOLEAN]

NotDecided == [product |-> FALSE, bare |-> FALSE, research |-> FALSE]

ImageInit ==
  /\ stage = "linked" /\ given \in Inputs /\ version \in Versions
  /\ image = <<>> /\ damage = "none" /\ manifest = None /\ verdict = NotDecided

Package ==
  /\ stage = "linked"
  /\ IF Packable(given, version)
     THEN stage' = "packaged" /\ image' = Packaged(given, version)
     ELSE stage' = "refused" /\ UNCHANGED image
  /\ UNCHANGED <<given, version, damage, manifest, verdict>>

\* One byte is changed, the file is cut or something is appended to it.
Damaged ==
  /\ stage = "packaged" /\ damage = "none"
  /\ \/ /\ damage' = "byte"
        /\ \E i \in DOMAIN image, b \in Spoilt : b # image[i] /\ image' = [image EXCEPT ![i] = b]
     \/ \E n \in 0..Len(image) - 1 : damage' = "cut" /\ image' = SubSeq(image, 1, n)
     \/ \E b \in Spoilt : damage' = "grown" /\ image' = Append(image, b)
  /\ UNCHANGED <<stage, given, version, manifest, verdict>>

\* The digest and the size in the manifest are those of the package, or not.
Stated(m, whole) == [m EXCEPT !.digest = IF @ = Right THEN whole ELSE @,
                              !.size = IF @ = Right THEN Len(whole) ELSE @]

Decision(file, stated) ==
  [product |-> Loadable(stated) /\ Valid(file, PolicyOf(stated)),
   bare |-> ResearchValid(file, NoPolicy),
   research |-> Usable(stated) /\ ResearchValid(file, PolicyOf(stated))]

Validate ==
  /\ stage = "packaged" /\ stage' = "decided"
  /\ \E m \in Manifests :
       manifest' = m /\ verdict' = Decision(image, Stated(m, Packaged(given, version)))
  /\ UNCHANGED <<given, version, image, damage>>

ImageNext == Package \/ Damaged \/ Validate
ImageSpec == ImageInit /\ [][ImageNext]_imageVars

-----------------------------------------------------------------------------
(* Properties. *)

\* What the packager makes of a linked binary that can start is accepted by the release
\* manifest that names it: packager and product agree about every field, the CRC and
\* its masking included.
PackageAccepted ==
  /\ stage = "decided" /\ damage = "none" /\ Startable(given) /\ Len(given) <= Capacity
  /\ manifest = [path |-> "regular", size |-> Right, digest |-> Right, bootloader |-> version[1]]
  /\ Target(version[1]) = "mcu0"
  => verdict.product

\* A packaged image of which one byte was changed, or that was cut or grown, is accepted
\* by nobody, not even by a research validation without size and digest.
DamageRejected == damage # "none" => ~verdict.bare /\ ~verdict.research /\ ~verdict.product

\* Only the packaged image that the manifest describes is ever flashed, and it starts in
\* the application flash with its stack in RAM.
AcceptedIsRelease ==
  verdict.product => /\ image = Packaged(given, version) /\ Startable(image)
                     /\ manifest.bootloader = image[Metadata]

\* The two validators decide alike about a regular file under a complete policy.
ValidatorsAgree ==
  stage = "decided" /\ manifest.path = "regular" => verdict.product = verdict.research

\* What the packager has made it refuses to package again.
PackagedOnce ==
  stage = "packaged" /\ damage = "none" => \A v \in Versions : ~Packable(image, v)

\* The chunks are the image, none is longer than a chunk may be or empty, and the
\* checksum of a frame shows any changed byte.
ChunksAreImage ==
  stage = "packaged" /\ damage = "none" =>
    \A size \in 1..Capacity :
      LET chunks == Chunks(image, size)
      IN  /\ FlattenSeq(chunks) = image
          /\ \A i \in DOMAIN chunks :
               /\ Len(chunks[i]) \in 1..size
               /\ FrameHolds(Frame(chunks[i]))
               /\ \A k \in 1..Len(chunks[i]) + 1, b \in Byte :
                    b # Frame(chunks[i])[k] => ~FrameHolds([Frame(chunks[i]) EXCEPT ![k] = b])

\* What is packaged is accepted, and arrives.
ReleaseAccepted == ImageTypeOK /\ PackageAccepted /\ PackagedOnce /\ ChunksAreImage

\* Nothing else is.
OnlyReleaseAccepted == AcceptedIsRelease /\ DamageRejected /\ ValidatorsAgree
=============================================================================
