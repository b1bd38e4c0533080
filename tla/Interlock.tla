------------------------------ MODULE Interlock ------------------------------
(***************************************************************************)
(* The kill-switch of core/src/safety.rs around the reference lane-keeping *)
(* stack of core/src/autonomy.rs.  Sensors, the supervisor that arms and   *)
(* disarms, and the control loop that pulls commands take their steps in   *)
(* any order.  Offsets, gain and steering keep the widths of the code: an  *)
(* i32 offset is cut to i16, multiplied with saturation and clamped; the   *)
(* throttle's u32 product panics or wraps, as the build decides.           *)
(***************************************************************************)
EXTENDS TelemetryRing

CONSTANTS
    Offsets,      \* i32 sample values
    Times,        \* sample timestamps
    Speeds,       \* vehicle speeds, cm/s
    gain,         \* i16
    cruise_cmps,
    U32Size,        \* number of values of a u32
    OverflowChecks, \* the build checks arithmetic for overflow
    None,
    Panic,          \* what next_command ends in when a check fails
    MaxEvents     \* bound on arm and disarm calls

ASSUME InterlockAssumption ==
    /\ Offsets \subseteq Int
    /\ Times \subseteq Nat
    /\ U32Size \in Nat \ {0}
    /\ OverflowChecks \in BOOLEAN
    /\ Speeds \subseteq 0 .. U32Size - 1
    /\ gain \in Int /\ gain >= -32768 /\ gain <= 32767
    /\ cruise_cmps \in 0 .. U32Size - 1
    /\ {"TELEMETRY_ARM", "TELEMETRY_DISARM"} = Records
    /\ None \notin Int
    /\ None # Panic
    /\ {None, Panic} \cap
          [steer : Int, throttle : Int, brake : Int, timestamp : Nat] = {}
    /\ MaxEvents \in Nat

VARIABLES
    state,              \* Armed or Disarmed
    events,             \* the audit ring
    history,            \* every event ever pushed
    last_offset_cm, last_timestamp, ready,
    command             \* what the last next_command returned

stack == <<last_offset_cm, last_timestamp, ready>>
svars == <<state, events, history, stack, command>>

Init ==
    /\ state = "Disarmed"
    /\ events = new
    /\ history = <<>>
    /\ last_offset_cm = None
    /\ last_timestamp = 0
    /\ ready = FALSE
    /\ command = None

-----------------------------------------------------------------------------
\* Mutant: the event is recorded only when the state changes its value.
recordChange(to, code) ==
    /\ Len(history) < MaxEvents
    /\ state' = to
    /\ events' = IF state = to THEN events ELSE push(events, code)
    /\ history' = Append(history, code)
    /\ UNCHANGED <<stack, command>>

\* arm and disarm record an event also when the state stays the same.
transition(to, code) ==
    /\ Len(history) < MaxEvents
    /\ state' = to
    /\ events' = push(events, code)
    /\ history' = Append(history, code)
    /\ UNCHANGED <<stack, command>>

arm    == transition("Armed", "TELEMETRY_ARM")
disarm == transition("Disarmed", "TELEMETRY_DISARM")

\* Mutant: a disarmed interlock keeps the samples from the stack.
ingestWhenArmed(kind, value, timestamp) ==
    /\ IF state = "Armed" /\ kind \in {"Camera", "Lidar"}
       THEN /\ last_offset_cm' = value
            /\ last_timestamp' = timestamp
            /\ ready' = TRUE
       ELSE UNCHANGED stack
    /\ UNCHANGED <<state, events, history, command>>

\* ingest is forwarded to the stack whatever the interlock's state; the
\* stack uses the two lateral sensors and ignores the others.
ingest(kind, value, timestamp) ==
    /\ IF kind \in {"Camera", "Lidar"}
       THEN /\ last_offset_cm' = value
            /\ last_timestamp' = timestamp
            /\ ready' = TRUE
       ELSE UNCHANGED stack
    /\ UNCHANGED <<state, events, history, command>>

-----------------------------------------------------------------------------
\* `offset as i16`, saturating_mul and clamp_steer.
as_i16(x) == ((x + 32768) % 65536) - 32768
clamp(x, lo, hi) == IF x < lo THEN lo ELSE IF x > hi THEN hi ELSE x
saturating_mul(x, y) == clamp(x * y, -32768, 32767)

MAX_STEER == 300
clamp_steer(x) == clamp(x, -MAX_STEER, MAX_STEER)

\* Mutant: the product wraps instead of saturating.
steerWrapping(offset) == clamp_steer(as_i16(as_i16(offset) * gain))

steer(offset) == clamp_steer(saturating_mul(as_i16(offset), gain))

\* The product of the cruise rule, before it is put into a u32.
product(speed) == (cruise_cmps - speed) * 100

throttleOverflows(speed) == speed < cruise_cmps /\ product(speed) >= U32Size

\* The throttle where the product does not end in a panic: `as u8` after the
\* division.
throttle(speed) ==
    IF speed < cruise_cmps
    THEN ((product(speed) % U32Size)
             \div (IF cruise_cmps > 1 THEN cruise_cmps ELSE 1)) % 256
    ELSE 0

min100(x) == IF x < 100 THEN x ELSE 100

\* LaneKeepingStack::next_command and ControlCommand::new.
stackCommand(speed) ==
    IF last_offset_cm = None \/ ~ready THEN None
    ELSE IF OverflowChecks /\ throttleOverflows(speed) THEN Panic
    ELSE [steer |-> clamp_steer(steer(last_offset_cm)),
          throttle |-> min100(throttle(speed)),
          brake |-> 0,
          timestamp |-> last_timestamp]

\* Mutant: the stack is asked whatever the state.
nextUngated(speed) == stackCommand(speed)

gated(speed) == IF state # "Armed" THEN None ELSE stackCommand(speed)

\* Mutant: a sample is good for one command.
nextConsumes(speed) ==
    /\ command' = gated(speed)
    /\ ready' = (ready /\ command' = None)
    /\ UNCHANGED <<state, events, history, last_offset_cm, last_timestamp>>

next_command(speed) ==
    /\ command' = gated(speed)
    /\ UNCHANGED <<state, events, history, stack>>

has_control == state = "Armed" /\ ready /\ last_offset_cm # None

Next ==
    \/ arm \/ disarm
    \/ \E kind \in {"Camera", "Lidar", "Odometry"}, value \in Offsets, t \in Times :
          ingest(kind, value, t)
    \/ \E speed \in Speeds : next_command(speed)

Spec == Init /\ [][Next]_svars

-----------------------------------------------------------------------------
(* Properties *)

\* The audit trail is the last N arm and disarm calls, oldest first, however
\* often the ring has wrapped.
AuditIsLastN == iter(events) = LastN(history)

\* The steering of a command stays within the documented range, and for an
\* offset that fits 16 bits it is to the side of the offset, at any gain and
\* however large the product.  (An offset beyond 16 bits is cut first and may
\* steer to the other side.)
SteersInRange ==
    last_offset_cm # None =>
        /\ steer(last_offset_cm) \in -MAX_STEER .. MAX_STEER
        /\ last_offset_cm >= -32768 /\ last_offset_cm <= 32767 =>
              /\ last_offset_cm > 0 /\ gain > 0 => steer(last_offset_cm) > 0
              /\ last_offset_cm < 0 /\ gain > 0 => steer(last_offset_cm) < 0
=============================================================================
