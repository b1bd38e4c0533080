------------------------------- MODULE MCIsoTp -------------------------------
(* Instances of IsoTp for TLC: frames of four bytes (three data bytes in a *)
(* single or consecutive frame, two in a first frame) and a sequence       *)
(* number of two bits.                                                     *)
EXTENDS IsoTp

\* In this order: five consecutive frames, so that the sequence number
\* wraps, and a length that fills a buffer of 17; a padded last frame; longer
\* than the link's buffer; more frames than the output holds; a short single
\* frame; empty; longer than the length field; two full consecutive frames; a
\* full single frame, too long for a buffer of two.
MixedMessages == <<1, 2, 3, 4, 5, 6, 7, 8, 9>>
MixedLength   == <<17, 10, 23, 29, 2, 0, 31, 8, 3>>

\* One message that leaves its last frame one byte short.
PaddedMessage == <<1>>
PaddedLength  == <<7>>
=============================================================================
