----------------------------- MODULE MCStorage -----------------------------
(* The two storage back ends of the update engine, called with the same    *)
(* packages, in one instance.  They share no variable, so each is explored *)
(* with the other at rest.                                                 *)
EXTENDS AglOtaStorage, ZephyrOtaStorage

VARIABLE part

MCInit == part \in {"agl", "zephyr"} /\ Init /\ zephyrInit

aglStep    == part = "agl"    /\ Next       /\ UNCHANGED <<part, zvars>>
zephyrStep == part = "zephyr" /\ zephyrNext /\ UNCHANGED <<part, avars>>

MCNext == aglStep \/ zephyrStep

MCSpec == MCInit /\ [][MCNext]_<<part, avars, zvars>>
=============================================================================
