---------------------------- MODULE MCDiagnostics ----------------------------
(* Instances of Diagnostics for TLC.  In a "bus" behaviour the requests     *)
(* come over the network; in a "direct" one handle is called with buffers   *)
(* of any length, the bus at rest.  The identifiers: a plain one that just  *)
(* fits an eight-byte answer, a reserved one that does not, one longer than *)
(* UDS_MAX_PAYLOAD, an unreadable one.                                      *)
EXTENDS Diagnostics

CONSTANTS plain, vin, huge, secret

VARIABLE mode

MCReadLen == [d \in {plain, vin, huge} |->
                IF d = plain THEN 5 ELSE IF d = vin THEN 6 ELSE 8]

MCInit == mode \in {"bus", "direct"} /\ diagInit

busNext    == mode = "bus" /\ diagNext /\ UNCHANGED mode
directNext == mode = "direct" /\ Next /\ UNCHANGED <<mode, exchangevars, busvars>>

MCNext == busNext \/ directNext

\* The platform keeps calling tick.
MCSpec ==
    /\ MCInit
    /\ [][MCNext]_<<mode, dvars>>
    /\ WF_<<mode, dvars>>(diagTick /\ UNCHANGED mode)
=============================================================================
