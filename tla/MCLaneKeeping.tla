---------------------------- MODULE MCLaneKeeping ----------------------------
(* An instance of LaneKeeping for TLC.  In a "bus" behaviour three offsets  *)
(* travel over the network; in a "direct" one the interlock is called with  *)
(* offsets at the edges of the 16-bit range and beyond it, the bus at rest. *)
(* At speed 0 the cruise rule's product overflows: 1000 * 100 does not fit  *)
(* 16 bits, as 42949673 * 100 does not fit the u32 of the code.             *)
EXTENDS LaneKeeping

VARIABLE mode

MCOffsets == {-32768, -1, 0, 20, 7000, 32767, 40000}
MCTrack == <<20, -1, 7000>>

MCInit == mode \in {"bus", "direct"} /\ loopInit

busNext    == mode = "bus" /\ loopNext /\ UNCHANGED mode
directNext == mode = "direct" /\ Next /\ UNCHANGED <<mode, loopvars>>

MCNext == busNext \/ directNext

mcvars == <<mode, lvars>>

\* The loops of the ECU and of the actuator keep running.
MCSpec ==
    /\ MCInit
    /\ [][MCNext]_mcvars
    /\ WF_mcvars(mode = "bus" /\ ecuLoop /\ UNCHANGED mode)
    /\ WF_mcvars(mode = "bus" /\ actuate /\ UNCHANGED mode)
=============================================================================
