----------------------------- MODULE SimNetwork -----------------------------
(***************************************************************************)
(* The broadcast network of sim/src/can.rs under the VehicleBus interface  *)
(* of core/src/bus.rs: a transmitted frame is checked, refused while the   *)
(* bus is off, and otherwise copied to the receive queue of every other    *)
(* node that has room.  VehicleNetwork explores it on its own; Diagnostics *)
(* and LaneKeeping put their components on it.                             *)
(***************************************************************************)
EXTENDS Naturals, Sequences

CONSTANTS
    Nodes,
    SIM_RX_QUEUE_LEN

VARIABLES
    attached,         \* the nodes on the bus
    queue,            \* the receive queue of each node
    bus_off,
    result            \* what the last call returned

svars == <<attached, queue, bus_off, result>>

new ==
    /\ attached = {}
    /\ queue = [n \in Nodes |-> <<>>]
    /\ bus_off = FALSE
    /\ result = "Ok"

\* SimCanNetwork::node
node(n) ==
    /\ n \notin attached
    /\ attached' = attached \cup {n}
    /\ UNCHANGED <<queue, bus_off, result>>

\* SimCanNetwork::set_bus_off
set_bus_off(off) ==
    /\ bus_off # off
    /\ bus_off' = off
    /\ UNCHANGED <<attached, queue, result>>

\* Mutants: a frame is put in front of the queue; the last place of a queue
\* is never used; the sender hears itself.
broadcastFront(sender, frame) ==
    [n \in Nodes |->
        IF n \in attached \ {sender} /\ Len(queue[n]) < SIM_RX_QUEUE_LEN
        THEN <<frame>> \o queue[n] ELSE queue[n]]
broadcastEarlyDrop(sender, frame) ==
    [n \in Nodes |->
        IF n \in attached \ {sender} /\ Len(queue[n]) + 1 < SIM_RX_QUEUE_LEN
        THEN Append(queue[n], frame) ELSE queue[n]]
broadcastEcho(sender, frame) ==
    [n \in Nodes |->
        IF n \in attached /\ Len(queue[n]) < SIM_RX_QUEUE_LEN
        THEN Append(queue[n], frame) ELSE queue[n]]

\* The queues after a broadcast: a full queue drops the frame.
broadcast(sender, frame) ==
    [n \in Nodes |->
        IF n \in attached \ {sender} /\ Len(queue[n]) < SIM_RX_QUEUE_LEN
        THEN Append(queue[n], frame) ELSE queue[n]]

\* SimCanNode::send
send(n, frame) ==
    \/ bus_off /\ result' = "BusOff" /\ UNCHANGED queue
    \/ ~bus_off /\ result' = "Ok" /\ queue' = broadcast(n, frame)

\* VehicleBus::transmit of every bus: validation, then the transceiver's
\* send.
transmit(n, frame, valid) ==
    /\ n \in attached
    /\ \/ ~valid /\ result' = "InvalidFrame" /\ UNCHANGED queue
       \/ valid /\ send(n, frame)
    /\ UNCHANGED <<attached, bus_off>>

\* SimCanNode::recv, under VehicleBus::receive; frames queued before a
\* bus-off can still be taken.
receive(n) ==
    /\ n \in attached
    /\ \/ queue[n] = <<>> /\ result' = "RxQueueEmpty" /\ UNCHANGED queue
       \/ /\ queue[n] # <<>>
          /\ queue' = [queue EXCEPT ![n] = Tail(@)]
          /\ result' = "Ok"
    /\ UNCHANGED <<attached, bus_off>>
=============================================================================
