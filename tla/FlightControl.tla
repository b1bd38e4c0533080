---------------------------- MODULE FlightControl ----------------------------
(***************************************************************************)
(* The telemetry bridge of flight-control/src/lib.rs: a snapshot of the    *)
(* vehicle and of the interlock is encoded into the bridge's one buffer    *)
(* and handed to a Beam transport that may fail.  The ECU's main loop      *)
(* takes a snapshot, publishes it, and after a transient failure publishes *)
(* it again or goes on to the next one; the interlock changes meanwhile.   *)
(* The wire format is modelled byte by byte, little-endian, with a steering *)
(* angle in two's complement.                                              *)
(***************************************************************************)
EXTENDS Integers, Sequences

CONSTANTS
    Speeds, Steers, Codes,    \* u32, i16 and u16 values of a snapshot
    MAX_FRAME_BYTES,
    MaxSnapshots              \* bound on snapshots

\* What the constants have to be.
ASSUME BridgeAssumption ==
    /\ \A speed \in Speeds : speed \in Nat /\ speed \div 65536 < 65536
    /\ \A steer \in Steers : steer \in Int /\ -32768 <= steer /\ steer <= 32767
    /\ \A code \in Codes : code \in Nat /\ code <= 65535
    /\ MAX_FRAME_BYTES \in Nat /\ MAX_FRAME_BYTES >= 19
    /\ MaxSnapshots \in Nat /\ MaxSnapshots \div 65536 < 65536

VARIABLES
    interlock,    \* Armed or Disarmed
    snapshots,    \* the snapshots taken so far
    pending,      \* the main loop still has the last of them to publish
    buf,          \* the bridge's encode buffer
    link,         \* payloads the transport has accepted
    beamResult    \* what the last publish returned

beamvars == <<interlock, snapshots, pending, buf, link, beamResult>>

BeamError == {"LinkDown", "TooLarge", "Transient"}

\* TelemetryFrame::from_state
from_state(timestamp, speed, steer, state, code) ==
    [timestamp_ms |-> timestamp, speed_cmps |-> speed, steer_deci_deg |-> steer,
     autonomy_armed |-> state = "Armed", event_code |-> code]

le16(v) == <<v % 256, (v \div 256) % 256>>
le32(v) == le16(v % 65536) \o le16(v \div 65536)

\* Mutant: the sign of the steering angle is lost.
unsignedAbs(x) == IF x < 0 THEN -x ELSE x

\* The two's complement bits of an i16.
unsigned(x) == IF x < 0 THEN x + 65536 ELSE x

Header == <<84, 80, 84, 1>> \o le16(13)

\* encode_frame: the bytes it returns, and the buffer it leaves.
record(f) ==
    le32(f.timestamp_ms) \o le32(f.speed_cmps)
    \o le16(unsigned(f.steer_deci_deg))
    \o <<IF f.autonomy_armed THEN 1 ELSE 0>> \o le16(f.event_code)

encode_frame(f) == Header \o record(f)

-----------------------------------------------------------------------------
beamInit ==
    /\ interlock = "Disarmed"
    /\ snapshots = <<>>
    /\ pending = FALSE
    /\ buf = [i \in 1 .. MAX_FRAME_BYTES |-> 0]
    /\ link = <<>>
    /\ beamResult = "Ok"

\* The interlock is armed or disarmed beside the main loop.
toggle ==
    /\ interlock' = IF interlock = "Armed" THEN "Disarmed" ELSE "Armed"
    /\ UNCHANGED <<snapshots, pending, buf, link, beamResult>>

\* The main loop takes a snapshot, giving up one that is still pending.
snapshot(speed, steer, code) ==
    /\ Len(snapshots) < MaxSnapshots
    /\ snapshots' = Append(snapshots,
          from_state(Len(snapshots) + 1, speed, steer, interlock, code))
    /\ pending' = TRUE
    /\ UNCHANGED <<interlock, buf, link, beamResult>>

\* FlightControlBridge::publish of the pending snapshot.
publish(outcome) ==
    LET frame == snapshots[Len(snapshots)]
        payload == encode_frame(frame)
    IN  /\ pending
        /\ buf' = payload \o SubSeq(buf, Len(payload) + 1, MAX_FRAME_BYTES)
        /\ beamResult' = outcome
        /\ IF outcome = "Ok"
           THEN link' = Append(link, payload) /\ pending' = FALSE
           ELSE UNCHANGED <<link, pending>>
        /\ UNCHANGED <<interlock, snapshots>>

beamNext ==
    \/ toggle
    \/ \E speed \in Speeds, steer \in Steers, code \in Codes :
          snapshot(speed, steer, code)
    \/ \E outcome \in BeamError \cup {"Ok"} : publish(outcome)

beamSpec == beamInit /\ [][beamNext]_beamvars

-----------------------------------------------------------------------------
(* Properties *)

\* What the receiving service reads from a payload, by the offsets the unit
\* test of encode_frame reads it with.
U16At(p, i) == p[i + 1] + 256 * p[i + 2]
Decoded(p) ==
    [timestamp_ms |-> U16At(p, 6) + 65536 * U16At(p, 8),
     speed_cmps |-> U16At(p, 10) + 65536 * U16At(p, 12),
     steer_deci_deg |-> IF U16At(p, 14) >= 32768 THEN U16At(p, 14) - 65536
                        ELSE U16At(p, 14),
     autonomy_armed |-> p[17] = 1,
     event_code |-> U16At(p, 17)]

\* Every accepted payload decodes to a snapshot that was really taken, with
\* the interlock state of that moment: that half is encode_frame's.  Payloads
\* arrive in the order of the snapshots, none twice, however often publish
\* failed in between: that half is the main loop's, which drops a snapshot
\* once publish returned Ok.  The bridge adds that it keeps nothing of a frame
\* that failed.
StreamIsFaithful ==
    /\ \A i \in DOMAIN link :
          LET f == Decoded(link[i])
          IN  f.timestamp_ms \in DOMAIN snapshots /\ snapshots[f.timestamp_ms] = f
    /\ \A i, j \in DOMAIN link :
          i < j => Decoded(link[i]).timestamp_ms < Decoded(link[j]).timestamp_ms
=============================================================================
