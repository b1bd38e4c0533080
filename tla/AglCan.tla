------------------------------- MODULE AglCan -------------------------------
(***************************************************************************)
(* The CAN transceiver of agl/src/can_socket.rs under a CanBus.  The       *)
(* socket is a seam that never opens, so every build uses the loopback: a  *)
(* frame sent is queued for the node's own receive, and a full queue       *)
(* refuses the frame (unlike the simulated network, which drops it and     *)
(* reports success).  The sender retries what was refused, as VehicleBus   *)
(* says it should.  A frame is its number in the sender's order.           *)
(***************************************************************************)
EXTENDS Naturals, Sequences

CONSTANTS
    LOOPBACK_LEN,     \* 64 in the code
    MaxSent           \* bound on the frames the sender has

\* What the constants have to be.
ASSUME LoopbackAssumption == LOOPBACK_LEN \in Nat \ {0} /\ MaxSent \in Nat

VARIABLES
    loopback,
    next,             \* the frame the sender is at
    got,              \* frames received
    answer            \* what the last call returned

cvars == <<loopback, next, got, answer>>

loopInit ==
    /\ loopback = <<>>
    /\ next = 1
    /\ got = <<>>
    /\ answer = "Ok"

can_send == Len(loopback) < LOOPBACK_LEN

\* Mutant: a full queue makes room by dropping its oldest frame.
loopSendDropping ==
    /\ next <= MaxSent
    /\ loopback' = IF can_send THEN Append(loopback, next)
                   ELSE Append(Tail(loopback), next)
    /\ next' = next + 1
    /\ answer' = "Ok"
    /\ UNCHANGED got

\* AglCanTransceiver::send; the sender goes on to its next frame only after
\* an Ok.
loopSend ==
    /\ next <= MaxSent
    /\ IF can_send
       THEN /\ loopback' = Append(loopback, next)
            /\ next' = next + 1
            /\ answer' = "Ok"
       ELSE answer' = "TxQueueFull" /\ UNCHANGED <<loopback, next>>
    /\ UNCHANGED got

\* AglCanTransceiver::recv
loopRecv ==
    /\ IF loopback = <<>>
       THEN answer' = "RxQueueEmpty" /\ UNCHANGED <<loopback, got>>
       ELSE /\ got' = Append(got, Head(loopback))
            /\ loopback' = Tail(loopback)
            /\ answer' = "Ok"
    /\ UNCHANGED next

loopNext == loopSend \/ loopRecv

loopSpec == loopInit /\ [][loopNext]_cvars

-----------------------------------------------------------------------------
(* Properties *)

\* With a sender that retries on TxQueueFull nothing is lost, repeated or
\* reordered, and the queue never holds more than its limit.
LoopbackLosesNothing ==
    /\ got \o loopback = [i \in 1 .. next - 1 |-> i]
    /\ Len(loopback) <= LOOPBACK_LEN
=============================================================================
