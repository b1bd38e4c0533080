---------------------------- MODULE SomeIpNetwork ----------------------------
(***************************************************************************)
(* The simulated Ethernet segment of sim/src/someip.rs: the queues of      *)
(* VehicleNetwork with SOME/IP messages, and a link that goes down where a *)
(* CAN bus goes off.  What a message has to look like is in SomeIp; here   *)
(* it is valid or not (unlike CAN and LIN frames, an invalid message can   *)
(* be built: a Request to service 0).                                      *)
(***************************************************************************)
EXTENDS VehicleNetwork

\* SimSomeIpNetwork::node
someipNode(n) == attach(n)

\* SimSomeIpNetwork::set_link_down; what is queued stays queued.
set_link_down(down) == busOff(down)

\* SomeIpBus::transmit over SimSomeIpNode::send
someipTransmit(n, valid) == transmitted(n, valid)

\* SimSomeIpNode::recv
someipReceive(n) == taken(n)

someipNext ==
    \/ \E n \in Nodes :
          \/ someipNode(n)
          \/ \E valid \in BOOLEAN : someipTransmit(n, valid)
          \/ someipReceive(n)
    \/ \E down \in BOOLEAN : set_link_down(down)

someipSpec == Init /\ [][someipNext]_nvars
=============================================================================
