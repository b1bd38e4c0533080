-------------------------------- MODULE IsoTp --------------------------------
(***************************************************************************)
(* The ISO-TP layer of core/src/isotp.rs: encode_message segments messages *)
(* into CAN frames, IsoTpLink::feed reassembles them, and between the two  *)
(* a bus that keeps order but may lose a frame (a full receive queue drops *)
(* it) or deliver it twice (a retransmission after a missed acknowledge).  *)
(*                                                                         *)
(* Data abstraction: byte i of message m is <<m, i>>, so that any mixture, *)
(* gap or padding inside a delivered message shows.  FrameLen (8 in the    *)
(* code) and SnMod (16) are parameters, so that a small instance reaches   *)
(* messages of many frames and a sequence number that wraps.               *)
(***************************************************************************)
EXTENDS Integers, Sequences

CONSTANTS
    FrameLen,     \* bytes of a CAN frame
    SnMod,        \* values of the consecutive-frame sequence number
    Capacities,   \* capacities the receiving link may have: its const generic
    Messages,     \* the messages to send, in the order of sending
    Length,       \* their lengths
    ISOTP_MAX_MESSAGE,
    OutLen,       \* frames the caller's output buffer holds
    Pad,          \* the zero byte that fills the last frame
    MaxLost,      \* bound on frames the bus loses
    MaxTwice      \* bound on frames it delivers twice or that are not ours

ISOTP_SF_MAX == FrameLen - 1
ISOTP_FF_MAX == FrameLen - 2
ISOTP_CF_MAX == FrameLen - 1

ASSUME IsoTpAssumption ==
    /\ FrameLen \in Nat /\ FrameLen > 2
    /\ SnMod \in Nat /\ SnMod > 1
    /\ Capacities \subseteq Nat
    /\ Messages \in Seq(Nat)
    /\ Length \in [{Messages[i] : i \in DOMAIN Messages} -> Nat]
    /\ ISOTP_MAX_MESSAGE \in Nat /\ OutLen \in Nat \ {0}
    /\ MaxLost \in Nat /\ MaxTwice \in Nat

VARIABLES
    N,            \* the capacity of this link, fixed when it is built
    todo,         \* messages still to be sent
    bus,          \* frames in flight
    buf,          \* buf[..filled] of the link
    total, sn, receiving,
    delivered,    \* the payloads of Complete events, in order
    event,        \* what the last feed returned
    lost, twice   \* faults so far

link == <<buf, total, sn, receiving>>
ivars == <<N, todo, bus, link, delivered, event, lost, twice>>

filled == Len(buf)

Init ==
    /\ N \in Capacities
    /\ todo = Messages
    /\ bus = <<>>
    /\ buf = <<>> /\ total = 0 /\ sn = 0 /\ receiving = FALSE
    /\ delivered = <<>>
    /\ event = "none"
    /\ lost = 0 /\ twice = 0

-----------------------------------------------------------------------------
(* encode_message *)

Payload(m) == [i \in 1 .. Length[m] |-> <<m, i>>]

\* A slice of the payload in a frame's data field, zero-filled to its size.
Chunk(m, from, size) ==
    [i \in 1 .. size |->
        IF from + i <= Length[m] THEN <<m, from + i>> ELSE Pad]

SingleFrame(m) == [pci |-> 0, len |-> Length[m], data |-> Chunk(m, 0, ISOTP_SF_MAX)]
FirstFrame(m)  == [pci |-> 1, len |-> Length[m], data |-> Chunk(m, 0, ISOTP_FF_MAX)]

\* Mutant: the sender numbers consecutive frames from zero.
ConsecutiveFromZero(m, k) ==
    [pci |-> 2, sn |-> (k - 1) % SnMod,
     data |-> Chunk(m, ISOTP_FF_MAX + (k - 1) * ISOTP_CF_MAX, ISOTP_CF_MAX)]

ConsecutiveFrame(m, k) ==
    [pci |-> 2, sn |-> k % SnMod,
     data |-> Chunk(m, ISOTP_FF_MAX + (k - 1) * ISOTP_CF_MAX, ISOTP_CF_MAX)]

\* Frames after the first, rounded up.
ConsecutiveFrames(m) ==
    (Length[m] - ISOTP_FF_MAX + ISOTP_CF_MAX - 1) \div ISOTP_CF_MAX

encode_message(m) ==
    IF Length[m] <= ISOTP_SF_MAX THEN <<SingleFrame(m)>>
    ELSE <<FirstFrame(m)>>
         \o [k \in 1 .. ConsecutiveFrames(m) |-> ConsecutiveFrame(m, k)]

\* The messages encode_message does not refuse: neither Overflow nor
\* BufferTooSmall.
Encodable(m) ==
    /\ Length[m] <= ISOTP_MAX_MESSAGE
    /\ Len(encode_message(m)) <= OutLen

\* The sender has one message on the bus at a time; one that was refused
\* puts no frame there.
send ==
    /\ todo # <<>>
    /\ bus = <<>>
    /\ bus' = IF Encodable(Head(todo)) THEN encode_message(Head(todo)) ELSE <<>>
    /\ todo' = Tail(todo)
    /\ UNCHANGED <<N, link, delivered, event, lost, twice>>

-----------------------------------------------------------------------------
(* IsoTpLink::feed *)

Fails(e) == event' = e /\ UNCHANGED <<link, delivered>>

\* The data also goes to the front of the buffer, where nothing reads it: no
\* reception is under way any more.  The length is not compared with the
\* buffer's: a link too small for the frame panics in taking buf[..len].
feedSingle(f) ==
    \/ (f.len = 0 \/ f.len > ISOTP_SF_MAX) /\ Fails("InvalidPci")
    \/ f.len \in 1 .. ISOTP_SF_MAX /\ f.len > N /\ Fails("Panic")
    \/ /\ f.len \in 1 .. ISOTP_SF_MAX /\ f.len <= N
       /\ receiving' = FALSE
       /\ delivered' = Append(delivered, SubSeq(f.data, 1, f.len))
       /\ event' = "Complete"
       /\ UNCHANGED <<buf, total, sn>>

feedFirst(f) ==
    \/ (f.len < ISOTP_FF_MAX + 1 \/ f.len > N) /\ Fails("Overflow")
    \/ /\ f.len \in ISOTP_FF_MAX + 1 .. N
       /\ buf' = f.data
       /\ total' = f.len
       /\ sn' = 1
       /\ receiving' = TRUE
       /\ event' = "NeedFlowControl"
       /\ UNCHANGED delivered

\* Mutant: no bounds check.
takeUnbounded(f) ==
    /\ sn' = (sn + 1) % SnMod
    /\ buf' = buf \o f.data
    /\ event' = "Incomplete"
    /\ UNCHANGED <<total, receiving, delivered>>

\* The part of a consecutive frame behind the sequence check: the sequence
\* number moves on even if the data is then refused.
takeConsecutive(f) ==
    /\ sn' = (sn + 1) % SnMod
    /\ IF filled + Len(f.data) > total
       THEN event' = "Overflow" /\ UNCHANGED <<buf, receiving, delivered>>
       ELSE /\ buf' = buf \o f.data
            /\ IF filled + Len(f.data) >= total
               THEN /\ receiving' = FALSE
                    /\ delivered' = Append(delivered, SubSeq(buf', 1, total))
                    /\ event' = "Complete"
               ELSE event' = "Incomplete" /\ UNCHANGED <<receiving, delivered>>
    /\ UNCHANGED total

\* Mutant: a wrong sequence number is accepted.
feedAnyConsecutive(f) ==
    \/ ~receiving /\ Fails("UnexpectedFrame")
    \/ receiving /\ takeConsecutive(f)

feedConsecutive(f) ==
    \/ ~receiving /\ Fails("UnexpectedFrame")
    \/ receiving /\ f.sn # sn /\ Fails("WrongSequence")
    \/ receiving /\ f.sn = sn /\ takeConsecutive(f)

\* A receiver that panicked takes no more frames.
feed(f) ==
    /\ event # "Panic"
    /\ \/ f.pci = 0 /\ feedSingle(f)
       \/ f.pci = 1 /\ feedFirst(f)
       \/ f.pci = 2 /\ feedConsecutive(f)
       \/ f.pci \notin 0 .. 2 /\ Fails("InvalidPci")

receive ==
    /\ bus # <<>>
    /\ feed(Head(bus))
    /\ bus' = Tail(bus)
    /\ UNCHANGED <<N, todo, lost, twice>>

\* The bus delivers a frame and keeps it for a second delivery.
receiveTwice ==
    /\ bus # <<>>
    /\ twice < MaxTwice
    /\ feed(Head(bus))
    /\ twice' = twice + 1
    /\ UNCHANGED <<N, todo, bus, lost>>

\* The grant a receiver answers a first frame with.
flow_control_frame == [pci |-> 3]

\* The link is fed the flow control of another conversation.
receiveForeign ==
    /\ twice < MaxTwice
    /\ feed(flow_control_frame)
    /\ twice' = twice + 1
    /\ UNCHANGED <<N, todo, bus, lost>>

lose ==
    /\ bus # <<>>
    /\ lost < MaxLost
    /\ bus' = Tail(bus)
    /\ lost' = lost + 1
    /\ UNCHANGED <<N, todo, link, delivered, event, twice>>

Next == send \/ receive \/ receiveTwice \/ receiveForeign \/ lose

Spec == Init /\ [][Next]_ivars

\* The sender sends what it has to send and the bus delivers what it carries.
FairSpec == Spec /\ WF_ivars(send) /\ WF_ivars(receive)

-----------------------------------------------------------------------------
(* Properties *)

\* However frames are lost or repeated, the link never writes past the
\* announced length, and never announces more than the buffer holds; feed
\* panics only in a link that could not hold every single frame.
NeverOverruns ==
    /\ receiving => filled < total /\ total <= N
    /\ event = "Panic" => N < ISOTP_SF_MAX

\* What feed has handed up as complete are messages that were sent, byte for
\* byte: no mixture of two, no gap, no padding.  (Not so once a frame is lost:
\* nothing times a reception out, and the next consecutive frame that fits
\* continues it, whichever message it belongs to.)
DeliveredWasSent ==
    \A i \in DOMAIN delivered :
        \E j \in DOMAIN Messages : delivered[i] = Payload(Messages[j])

\* Until a frame is lost nothing but whole messages is handed up, whatever
\* frames are repeated and whatever messages the link refuses in between.
WholeUntilLoss == lost = 0 => DeliveredWasSent

Delivered(m) == \E i \in DOMAIN delivered : delivered[i] = Payload(m)

\* Every message that encode_message accepts and the link has room for is
\* eventually reassembled.
AllDelivered ==
    \A j \in DOMAIN Messages :
        Encodable(Messages[j]) /\ Length[Messages[j]] <= N => <>Delivered(Messages[j])

\* The messages whose last frame carries no padding behind the payload that
\* a receiver would have to count: a single frame that is not empty, or a
\* segmented message of full frames.
Unpadded(m) ==
    \/ Length[m] \in 1 .. ISOTP_SF_MAX
    \/ (Length[m] - ISOTP_FF_MAX) % ISOTP_CF_MAX = 0

\* As long as no frame is lost (and no panic stops the receiver) every
\* unpadded message arrives, through repeated frames, a sequence number that
\* wraps, and the leftovers of messages before it that could not be
\* reassembled.
UnpaddedDelivered ==
    \A j \in DOMAIN Messages :
        LET m == Messages[j]
        IN  Encodable(m) /\ Unpadded(m) /\ Length[m] <= N =>
                ([](lost = 0 /\ event # "Panic") => <>Delivered(m))
=============================================================================
