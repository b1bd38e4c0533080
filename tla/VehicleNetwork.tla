--------------------------- MODULE VehicleNetwork ---------------------------
(***************************************************************************)
(* Nodes that attach, transmit, receive and lose the bus in any order over *)
(* the network of SimNetwork, with the history needed to say what a        *)
(* network owes its nodes.  CAN and CAN FD frames are built and validated  *)
(* as in CanFrames; LinCluster and SomeIpNetwork extend this module with   *)
(* the networks of the same shape.                                         *)
(*                                                                         *)
(* Data abstraction: on the bus a frame is its position in the order of    *)
(* all broadcast frames; log records who sent each of them.                *)
(***************************************************************************)
EXTENDS SimNetwork, CanFrames, FiniteSets, SequencesExt

CONSTANTS
    RawIds, Lengths,  \* what callers hand to the constructors of frames
    MaxFrames         \* bound on broadcast frames

\* What the constants have to be.
ASSUME NetworkAssumption ==
    /\ SIM_RX_QUEUE_LEN \in Nat \ {0}
    /\ RawIds \subseteq Nat /\ Lengths \subseteq Nat
    /\ MaxFrames \in Nat

VARIABLES
    log,              \* the sender of each broadcast frame
    since,            \* frames broadcast before the node attached
    received          \* what each node has taken from its queue

history == <<log, since, received>>
nvars == <<svars, history>>

Init ==
    /\ new
    /\ log = <<>>
    /\ since = [n \in Nodes |-> 0]
    /\ received = [n \in Nodes |-> <<>>]

attach(n) ==
    /\ node(n)
    /\ since' = [since EXCEPT ![n] = Len(log)]
    /\ UNCHANGED <<log, received>>

busOff(off) == set_bus_off(off) /\ UNCHANGED history

\* A transmit, and the place in the log a frame gets that is broadcast.
transmitted(n, valid) ==
    /\ Len(log) < MaxFrames
    /\ transmit(n, Len(log) + 1, valid)
    /\ log' = IF result' = "Ok" THEN Append(log, n) ELSE log
    /\ UNCHANGED <<since, received>>

taken(n) ==
    /\ receive(n)
    /\ received' = IF queue[n] = <<>> THEN received
                   ELSE [received EXCEPT ![n] = Append(@, Head(queue[n]))]
    /\ UNCHANGED <<log, since>>

\* The identifiers and frames callers can build; None is a refusal of the
\* constructor.
Ids == ({standard(raw) : raw \in RawIds} \cup {extended(raw) : raw \in RawIds})
       \ {None}

BuiltFrames   == {newFrame(id, len)   : id \in Ids, len \in Lengths} \ {None}
BuiltFdFrames == {newFdFrame(id, len) : id \in Ids, len \in Lengths} \ {None}

\* CanBus::transmit
canTransmit(n, frame) == transmitted(n, validate_frame(frame))

\* CanFdBus::transmit; no transceiver of the repository carries FD frames,
\* and the network stands for one that does.
fdTransmit(n, frame) == transmitted(n, validate_fd_frame(frame))

Next ==
    \/ \E n \in Nodes :
          \/ attach(n)
          \/ \E frame \in BuiltFrames : canTransmit(n, frame)
          \/ \E frame \in BuiltFdFrames : fdTransmit(n, frame)
          \/ taken(n)
    \/ \E off \in BOOLEAN : busOff(off)

Spec == Init /\ [][Next]_nvars

-----------------------------------------------------------------------------
(* Properties *)

\* What a constructor built is not refused as invalid.
BuiltAreAccepted ==
    \A n \in Nodes :
        (\/ \E frame \in BuiltFrames : canTransmit(n, frame)
         \/ \E frame \in BuiltFdFrames : fdTransmit(n, frame))
        => result' # "InvalidFrame"

\* The constructors and the validation agree, for both kinds of frame and at
\* every limit: transmit never refuses as invalid what a constructor built.
BuiltIsValid == [][BuiltAreAccepted]_nvars

\* Everything a node has taken or can take, in the order it sees it.
Seen(n) == received[n] \o queue[n]

\* A node sees the frames of the others in bus order, each at most once, and
\* never its own, across attaching, bus-off periods and full queues.
BusOrder ==
    \A n \in Nodes :
        /\ \A i, j \in DOMAIN Seen(n) : i < j => Seen(n)[i] < Seen(n)[j]
        /\ \A i \in DOMAIN Seen(n) : log[Seen(n)[i]] # n

\* Frames broadcast by others since the node attached that never reached it.
Missed(n) ==
    IF n \notin attached THEN {}
    ELSE {f \in since[n] + 1 .. Len(log) : log[f] # n} \ ToSet(Seen(n))

\* A node that misses a frame has been sent at least a queue full before it:
\* below the capacity of the queue nothing is lost.
NoLossBelowCapacity ==
    \A n \in Nodes : \A f \in Missed(n) :
        Cardinality({g \in ToSet(Seen(n)) : g < f}) >= SIM_RX_QUEUE_LEN
=============================================================================
