----------------------------- MODULE MCOtaEngine -----------------------------
(* Instances of OtaEngine for TLC. *)
EXTENDS OtaEngine

CONSTANTS v1, v2, bad, big

\* v1 is the factory image; bad is a signed image that fails its health test;
\* big is a signed image that no slot can hold.
MCImages  == {v1, v2, bad, big}
MCHealthy == {v1, v2, big}
MCSize    == [i \in MCImages |-> CASE i = v1 -> 1 [] i = v2 -> 2
                                   [] i = bad -> 2 [] i = big -> 4]

\* v2 is released for both slots, bad only for slot 1, v1 for none; one
\* message carries a slot byte that no backend has.
MCSigned  == {<<0, 2, v2>>, <<1, 2, v2>>, <<1, 2, bad>>, <<1, 4, big>>,
              <<2, 2, v2>>}
=============================================================================
