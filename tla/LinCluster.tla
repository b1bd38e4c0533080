----------------------------- MODULE LinCluster -----------------------------
(***************************************************************************)
(* The LIN cluster of sim/src/lin.rs with the frames of core/src/lin.rs.   *)
(* The cluster is the broadcast network of VehicleNetwork, whose nodes     *)
(* attach as master or slave; a frame carries an identifier of six bits,   *)
(* protected on the wire by two parity bits, and data protected by a       *)
(* checksum with end-around carry.  Bytes are bytes here: the protection   *)
(* is what the properties are about.                                       *)
(***************************************************************************)
EXTENDS VehicleNetwork

CONSTANTS
    Frames        \* frames that nodes send

LIN_MAX_DLC == 8

\* The frames LinId::new and LinFrame::new build.
LinFrame ==
    [id : 0 .. 63, data : {data \in Seq(0 .. 255) : Len(data) <= LIN_MAX_DLC}]

ASSUME LinAssumption == Frames \subseteq LinFrame

VARIABLES
    master,       \* the nodes attached as master
    frame         \* the frame last broadcast, or None

lvars == <<svars, history, master, frame>>

bit(x, i) == (x \div 2 ^ i) % 2

\* Mutant: the first parity bit leaves out ID2.
protectedWithoutID2(id) ==
    id + 64 * ((bit(id, 0) + bit(id, 1) + bit(id, 4)) % 2)
       + 128 * ((1 + bit(id, 1) + bit(id, 3) + bit(id, 4) + bit(id, 5)) % 2)

\* LinId::protected; exclusive or is addition modulo 2.
protected(id) ==
    id + 64 * ((bit(id, 0) + bit(id, 1) + bit(id, 2) + bit(id, 4)) % 2)
       + 128 * ((1 + bit(id, 1) + bit(id, 3) + bit(id, 4) + bit(id, 5)) % 2)

\* Mutant: the carry out of eight bits is dropped.
addDropCarry(sum, byte) == (sum + byte) % 256

\* One step of the checksum loop.
addWithCarry(sum, byte) ==
    IF sum + byte > 255 THEN sum + byte - 255 ELSE sum + byte

carrySum(data) ==
    LET sum[k \in 0 .. Len(data)] ==
            IF k = 0 THEN 0 ELSE addWithCarry(sum[k - 1], data[k])
    IN  sum[Len(data)]

\* LinFrame::checksum
checksum(data) == 255 - carrySum(data)

-----------------------------------------------------------------------------
linInit ==
    /\ Init
    /\ master = {}
    /\ frame = None

\* SimLinCluster::node: a node attaches as whatever it says it is.
linNode(n, is_master) ==
    /\ attach(n)
    /\ master' = IF is_master THEN master \cup {n} ELSE master
    /\ UNCHANGED frame

\* LinBus::transmit: the constructors only build frames validate_frame
\* accepts, and the role of the node is not looked at.
linTransmit(n, f) ==
    /\ transmitted(n, Len(f.data) <= LIN_MAX_DLC)
    /\ frame' = IF log' # log THEN f ELSE frame
    /\ UNCHANGED master

linReceive(n) == taken(n) /\ UNCHANGED <<master, frame>>

linBusOff(off) == busOff(off) /\ UNCHANGED <<master, frame>>

linNext ==
    \/ \E n \in Nodes :
          \/ \E is_master \in BOOLEAN : linNode(n, is_master)
          \/ \E f \in Frames : linTransmit(n, f)
          \/ linReceive(n)
    \/ \E off \in BOOLEAN : linBusOff(off)

linSpec == linInit /\ [][linNext]_lvars

-----------------------------------------------------------------------------
(* Properties *)

\* x with bit i inverted.
Flip(x, i) == IF bit(x, i) = 1 THEN x - 2 ^ i ELSE x + 2 ^ i

Pids == {protected(id) : id \in 0 .. 63}

\* One bit inverted on the wire never turns the protected identifier of a
\* frame into that of another frame.
PidDetectsFlip ==
    frame # None => \A i \in 0 .. 7 : Flip(protected(frame.id), i) \notin Pids

\* The reference: addition with end-around carry is addition modulo 255, and
\* data and checksum of a LIN frame add up to zero in it.
Total(data) ==
    LET sum[k \in 0 .. Len(data)] == IF k = 0 THEN 0 ELSE sum[k - 1] + data[k]
    IN  sum[Len(data)]

Verifies(data, sum) == (Total(data) + sum) % 255 = 0

\* A receiver accepts the checksum of a frame, and with one data bit inverted
\* it does not.
ChecksumVerifies ==
    frame # None =>
        /\ Verifies(frame.data, checksum(frame.data))
        /\ \A k \in DOMAIN frame.data : \A i \in 0 .. 7 :
              ~Verifies([frame.data EXCEPT ![k] = Flip(@, i)],
                        checksum(frame.data))
=============================================================================
