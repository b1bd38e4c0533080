----------------------------- MODULE MCUdsServer -----------------------------
(* Instances of UdsServer for TLC: a plain, a reserved, an oversized and an *)
(* unreadable data identifier.                                              *)
EXTENDS UdsServer

CONSTANTS plain, vin, huge, secret

MCReadLen == [d \in {plain, vin, huge} |->
                IF d = plain THEN 2 ELSE IF d = vin THEN 7 ELSE 8]
=============================================================================
