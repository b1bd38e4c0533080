---------------------------- MODULE UpdatePackage ----------------------------
(***************************************************************************)
(* The update package on its way from the signing tool to the engine:      *)
(* `tpt-cli ota stage` (cli/src/main.rs) writes header, payload and        *)
(* signature to a file, the file is carried to the ECU and may be damaged, *)
(* and the ECU parses it (UpdatePackage::decode_header) and lets           *)
(* OtaEngine::stage judge it.  Everything here is bytes: tool and engine   *)
(* have to agree on each of them.  The signature scheme is a parameter, as *)
(* it is in the code; DemoSigner is the one the tool has.                  *)
(***************************************************************************)
EXTENDS Integers, Sequences, SequencesExt, Option

CONSTANTS
    Payloads,             \* byte sequences handed to the tool
    SlotArgs,             \* values of --slot, an u8
    Keys,                 \* values of --key
    DeviceKey,            \* the key the ECU verifies with
    sign(_, _),           \* SignatureScheme: key and data to a signature
    verify(_, _, _),      \* SignatureScheme: key, data and signature
    OTA_SIGNATURE_LEN,
    OTA_MAX_PAYLOAD,
    altered(_)            \* what damage may make of a byte

Bytes == 0 .. 255

\* What the constants have to be.  Lengths fit the 32 bits of the header, and
\* None is neither a call of the tool nor a decoded header.
ASSUME PackageAssumption ==
    /\ \A payload \in Payloads : /\ payload \in Seq(Bytes)
                                 /\ Len(payload) \div 65536 < 65536
    /\ SlotArgs \subseteq Bytes
    /\ OTA_SIGNATURE_LEN \in Nat
    /\ OTA_MAX_PAYLOAD \in Nat
    /\ \A byte \in Bytes : altered(byte) \subseteq Bytes \ {byte}
    /\ None \notin [payload : Payloads, slot : SlotArgs, key : Keys]
    /\ None \notin [slot : Bytes, payload_len : [hi : Nat, lo : Nat]]

VARIABLES
    args,         \* what the tool was called with, or None
    file,         \* the package
    fileDamaged,  \* a byte of it was changed
    verdict       \* what the ECU made of it, or None before it looked

pkgvars == <<args, file, fileDamaged, verdict>>

-----------------------------------------------------------------------------
OTA_MAGIC == <<84, 80, 84, 49>>
OTA_FORMAT_VERSION == 1
HEADER_LEN == 10

be32(n) == <<n \div 16777216, (n \div 65536) % 256, (n \div 256) % 256, n % 256>>

\* Mutant: the length is written with its low byte first.
encode_headerLe(slot, payload_len) ==
    OTA_MAGIC \o <<OTA_FORMAT_VERSION, slot>> \o Reverse(be32(payload_len))

encode_header(slot, payload_len) ==
    OTA_MAGIC \o <<OTA_FORMAT_VERSION, slot>> \o be32(payload_len)

\* A u32 as its two halves: lengths beyond 31 bits appear in damaged headers.
Word(hi, lo) == [hi |-> hi, lo |-> lo]
u32(n) == Word(n \div 65536, n % 65536)
from_be(b) == Word(b[1] * 256 + b[2], b[3] * 256 + b[4])

decode_header(bytes) ==
    IF \/ Len(bytes) < HEADER_LEN
       \/ SubSeq(bytes, 1, 4) # OTA_MAGIC
       \/ bytes[5] # OTA_FORMAT_VERSION
       \/ bytes[6] > 1
    THEN None
    ELSE [slot |-> bytes[6], payload_len |-> from_be(SubSeq(bytes, 7, 10))]

\* Mutant: the header is not signed.
signedPayload(header, payload) == payload

\* What the signature is made over, in the tool and in stage.
signedData(header, payload) == header \o payload

-----------------------------------------------------------------------------
pkgInit ==
    /\ args = None
    /\ file = <<>>
    /\ fileDamaged = FALSE
    /\ verdict = None

\* `tpt-cli ota stage`: the slot is not checked, and the signature (which `tpt-cli
\* ota sign` prints instead) covers header and payload.
cmd_ota_stage(payload, slot, key) ==
    LET header == encode_header(slot, Len(payload))
    IN  /\ args = None
        /\ args' = [payload |-> payload, slot |-> slot, key |-> key]
        /\ file' = header \o payload \o sign(key, signedData(header, payload))
        /\ UNCHANGED <<fileDamaged, verdict>>

\* One byte of the file is changed on the way.
damageFile(k, byte) ==
    /\ file # <<>>
    /\ ~fileDamaged
    /\ verdict = None
    /\ file' = [file EXCEPT ![k] = byte]
    /\ fileDamaged' = TRUE
    /\ UNCHANGED <<args, verdict>>

Refused(why) == [error |-> why]

\* The ECU cuts the file into its three parts and calls decode_header and
\* stage, which encodes the header again to verify it.
judged(bytes) ==
    LET cut == Len(bytes) - OTA_SIGNATURE_LEN
        package == decode_header(bytes)
        payload == SubSeq(bytes, HEADER_LEN + 1, cut)
        signature == SubSeq(bytes, cut + 1, Len(bytes))
    IN  IF package = None THEN Refused("None")
        ELSE IF package.payload_len # u32(Len(payload)) THEN Refused("BadPackage")
        ELSE IF Len(payload) > OTA_MAX_PAYLOAD THEN Refused("PayloadTooLarge")
        ELSE IF ~verify(DeviceKey,
                        signedData(encode_header(package.slot, Len(payload)), payload),
                        signature)
        THEN Refused("BadSignature")
        ELSE [slot |-> package.slot, payload |-> payload]

deliver ==
    /\ file # <<>>
    /\ verdict = None
    /\ verdict' = judged(file)
    /\ UNCHANGED <<args, file, fileDamaged>>

\* The next package is another story.
forget ==
    /\ verdict # None
    /\ args' = None
    /\ file' = <<>>
    /\ fileDamaged' = FALSE
    /\ verdict' = None

pkgNext ==
    \/ \E payload \in Payloads, slot \in SlotArgs, key \in Keys :
          cmd_ota_stage(payload, slot, key)
    \/ \E k \in DOMAIN file : \E byte \in altered(file[k]) : damageFile(k, byte)
    \/ deliver \/ forget

pkgSpec == pkgInit /\ [][pkgNext]_pkgvars

-----------------------------------------------------------------------------
(* What a signature scheme promises, of the data the tool signs: a         *)
(* signature has its length and is accepted with the key it was made with  *)
(* and no other, and neither data nor signature with a byte changed is     *)
(* accepted.                                                               *)

Signable == {encode_header(slot, Len(payload)) \o payload :
                slot \in SlotArgs, payload \in Payloads}

\* A sequence with one byte changed.
OneAltered(bytes) ==
    UNION {{[bytes EXCEPT ![k] = byte] : byte \in altered(bytes[k])} :
              k \in DOMAIN bytes}

ASSUME SignerAssumption ==
    \A key \in Keys, data \in Signable :
        LET signature == sign(key, data)
        IN  /\ signature \in Seq(Bytes)
            /\ Len(signature) = OTA_SIGNATURE_LEN
            /\ verify(DeviceKey, data, signature) <=> key = DeviceKey
            /\ \A d \in OneAltered(data) : ~verify(DeviceKey, d, signature)
            /\ \A s \in OneAltered(signature) : ~verify(DeviceKey, data, s)

(* Properties *)

\* A package that arrives as the tool wrote it is staged into the slot asked
\* for with the payload given, if the slot exists, the keys agree and the
\* payload is not too long, and is refused otherwise: what the tool does not
\* check the ECU does.
PackageArrives ==
    verdict # None /\ ~fileDamaged =>
        LET welcome == /\ args.slot <= 1
                       /\ args.key = DeviceKey
                       /\ Len(args.payload) <= OTA_MAX_PAYLOAD
        IN  /\ welcome => verdict = [slot |-> args.slot, payload |-> args.payload]
            /\ ~welcome => \E why \in {"None", "PayloadTooLarge", "BadSignature"} :
                              verdict = Refused(why)

\* A package with one byte changed, in the header, the payload or the
\* signature, is never staged.
DamagedIsRefused ==
    verdict # None /\ fileDamaged =>
        \E why \in {"None", "BadPackage", "PayloadTooLarge", "BadSignature"} :
            verdict = Refused(why)
=============================================================================
