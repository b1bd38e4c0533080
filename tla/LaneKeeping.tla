----------------------------- MODULE LaneKeeping -----------------------------
(***************************************************************************)
(* Sensors in, control commands out: the loop of the repository's          *)
(* autonomy-over-CAN test, with the interlock of its lane-keeping example  *)
(* around the stack.  A sensor node publishes offsets, the ECU ingests     *)
(* them and dispatches the commands of the interlock, the actuator node    *)
(* drains its queue, which also holds the broadcast sensor frames, and     *)
(* acts on the command frames.  A supervisor arms and disarms between any  *)
(* two calls, also between next_command and the transmit of its result.    *)
(*                                                                         *)
(* The test makes one pass; here the ECU makes pass after pass, taking a   *)
(* sample only when can_receive says there is one, as the example asserts. *)
(* The bus stays on: the loop unwraps every call.  A command frame carries *)
(* the timestamp of its sample for the properties only; encode_command     *)
(* leaves it out, so the actuator cannot tell how old a command is.        *)
(***************************************************************************)
EXTENDS Interlock, FiniteSets

CONSTANTS
    SIM_RX_QUEUE_LEN,
    Track             \* the offsets the sensor publishes, one after the other

ASSUME LoopAssumption == SIM_RX_QUEUE_LEN \in Nat /\ Track \in Seq(Int)

VARIABLES
    published,        \* how many it has
    seen,             \* timestamp of the sample the ECU took last, or 0
    at,               \* the call the ECU's loop is at
    acting,           \* timestamp of the command acted on last, or 0
    late,             \* commands acted on since the interlock was disarmed
    attached, queue, bus_off, bus_result

busvars  == <<attached, queue, bus_off, bus_result>>
loopvars == <<published, seen, at, acting, late, busvars>>
lvars    == <<svars, loopvars>>

Ends == {"sensor", "ecu", "actuator"}

BUS == INSTANCE SimNetwork WITH Nodes <- Ends, result <- bus_result

loopInit ==
    /\ Init
    /\ published = 0 /\ seen = 0 /\ acting = 0 /\ late = 0
    /\ at = "ingest"
    /\ attached = Ends
    /\ queue = [n \in Ends |-> <<>>]
    /\ bus_off = FALSE
    /\ bus_result = "Ok"

-----------------------------------------------------------------------------
\* CAN identifiers 0x200 and 0x300.
sensorFrame(value, t) == [id |-> 512, value |-> value, timestamp |-> t]
commandFrame(cmd)     == [id |-> 768, steer |-> cmd.steer, timestamp |-> cmd.timestamp]

\* sensor.transmit(req)
publish ==
    /\ published < Len(Track)
    /\ published' = published + 1
    /\ BUS!transmit("sensor", sensorFrame(Track[published'], published'), TRUE)
    /\ UNCHANGED <<svars, seen, at, acting, late>>

\* if ecu.can_receive(): ecu.receive() and interlock.ingest(...)
ecuIngest ==
    /\ at = "ingest"
    /\ at' = "command"
    /\ \/ queue["ecu"] = <<>> /\ UNCHANGED <<svars, seen, busvars>>
       \/ /\ queue["ecu"] # <<>>
          /\ BUS!receive("ecu")
          /\ LET f == Head(queue["ecu"])
             IN  ingest("Camera", f.value, f.timestamp) /\ seen' = f.timestamp
    /\ UNCHANGED <<published, acting, late>>

\* interlock.next_command(...): a panic in it is the end of the loop.
ecuCommand(speed) ==
    /\ at = "command"
    /\ next_command(speed)
    /\ at' = CASE command' = None  -> "ingest"
               [] command' = Panic -> "panicked"
               [] OTHER            -> "dispatch"
    /\ UNCHANGED <<published, seen, acting, late, busvars>>

\* ecu.transmit(command frame)
ecuDispatch ==
    /\ at = "dispatch"
    /\ BUS!transmit("ecu", commandFrame(command), TRUE)
    /\ at' = "ingest"
    /\ UNCHANGED <<svars, published, seen, acting, late>>

ecuLoop == ecuIngest \/ ecuDispatch \/ (\E speed \in Speeds : ecuCommand(speed))

\* while let Ok(f) = actuator.receive(): act on a command frame, pass over
\* the others.
actuate ==
    /\ queue["actuator"] # <<>>
    /\ BUS!receive("actuator")
    /\ LET f == Head(queue["actuator"])
       IN  IF f.id = 768
           THEN /\ acting' = f.timestamp
                /\ late' = IF state = "Disarmed" THEN late + 1 ELSE late
           ELSE UNCHANGED <<acting, late>>
    /\ UNCHANGED <<svars, published, seen, at>>

\* The supervisor.
supervise ==
    /\ \/ arm /\ late' = 0
       \/ disarm /\ UNCHANGED late
    /\ UNCHANGED <<published, seen, at, acting, busvars>>

loopNext == publish \/ ecuLoop \/ actuate \/ supervise

\* The loops of the ECU and of the actuator keep running.
loopSpec ==
    /\ loopInit
    /\ [][loopNext]_lvars
    /\ WF_lvars(ecuLoop)
    /\ WF_lvars(actuate)

-----------------------------------------------------------------------------
(* Properties *)

commandsIn(q) == Cardinality({i \in DOMAIN q : q[i].id = 768})

commandsOnTheirWay ==
    commandsIn(queue["actuator"]) + (IF at = "dispatch" THEN 1 ELSE 0)

\* The kill-switch gates next_command, not the bus: after a disarm the
\* actuator can still act on what the ECU held and on what was queued, and
\* never on more than a full queue and the one command held.
KillSwitchLagIsBounded ==
    state = "Disarmed" => late + commandsOnTheirWay <= SIM_RX_QUEUE_LEN + 1

\* Commands are acted on in the order of the samples they rest on, whatever
\* the queues dropped in between.
ActsInOrder == [][acting' >= acting]_lvars

\* has_control promises a command, and the command rests on the newest sample
\* the ECU has taken, also when it was taken while disarmed: a re-armed
\* interlock steers by nothing older.  (It speaks of one state: a stop between
\* has_control and next_command takes the command away again.)
ControlIsCurrent ==
    has_control => \A speed \in Speeds :
        /\ gated(speed) # None
        /\ gated(speed) # Panic /\ seen # 0 => gated(speed).timestamp = seen

\* An interlock that stays armed brings the actuator to the newest sample the
\* ECU's queue let through, although full queues drop the newest frame, as
\* long as no panic ends the ECU's loop.
ActuatorCatchesUp ==
    <>[](state = "Armed" /\ at # "panicked") => <>[](queue["ecu"] = <<>> /\ acting = seen)
=============================================================================
