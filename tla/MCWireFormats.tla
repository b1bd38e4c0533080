---------------------------- MODULE MCWireFormats ----------------------------
(***************************************************************************)
(* The components that put values into bytes and words and carry them, in  *)
(* one instance for TLC: the SOME/IP codec, the AUTOSAR signals and        *)
(* digital channels, the flight-control bridge, the update package with    *)
(* the demo signer, the LIN cluster, the CAN and SOME/IP networks and the  *)
(* AGL loopback.  They share no state (LIN, CAN and SOME/IP are three      *)
(* networks of one shape), so a behaviour of all is an interleaving of     *)
(* behaviours of each, and it is enough to explore each with the others at *)
(* rest: part is the one that moves.                                       *)
(***************************************************************************)
EXTENDS LinCluster, SomeIpNetwork, AglCan, SomeIp, Autosar, FlightControl,
        DemoSigner, TLC

VARIABLES part

-----------------------------------------------------------------------------
(* SOME/IP: messages of every type and of payloads from none to the        *)
(* maximum, a request that may not be sent, one that the buffer does not   *)
(* hold, and damage to the header fields decode looks at, to any of them   *)
(* together.                                                               *)
Msg(service, type, code, bytes) ==
    [service |-> service, method |-> 33025, client |-> 1, session |-> 65535,
     interface_version |-> 2, message_type |-> type, return_code |-> code,
     payload |-> bytes]

MCMessages == {Msg(4660, "Request", "Ok", <<1, 2, 3>>),
               Msg(4660, "RequestNoReturn", "Ok", <<>>),
               Msg(0, "Notification", "Ok", <<7>>),
               Msg(4660, "Response", "NotOk", <<7, 7>>),
               Msg(65535, "Error", "WrongProtocolVersion", <<>>),
               Msg(0, "Request", "Ok", <<1>>),
               Msg(4660, "Request", "Ok", <<1, 2, 3, 4>>)}

\* A length too small to cover the header, one of a single byte of payload
\* (more or less than there is), and together with the byte before it the
\* smallest length that overflows a usize of 16 bits; an upper half that 16
\* bits do not show; a version and a type that do not exist.
MCDamages == {<<8, 7>>, <<8, 9>>, <<8, 248>>, <<7, 255>>, <<5, 1>>,
              <<13, 2>>, <<15, 3>>}

(* AUTOSAR: three signals that fill a word of six bits to its last, three  *)
(* layouts Signal::new rejects, two ports of two pins.                     *)
MCDatabase == {<<0, 1>>, <<1, 2>>, <<3, 3>>, <<0, 0>>, <<0, 7>>, <<5, 2>>}

(* Flight control: steering at both ends of its range, a speed beyond 16   *)
(* bits, an event code of two different bytes.                             *)
MCSpeeds == {70000}
MCSteers == {-300, -1, 300}
MCCodes  == {0, 40961}

(* LIN: every identifier, and payloads whose sums stay below, meet and     *)
(* pass 0xFF, once and twice.                                              *)
MCFrames ==
    {[id |-> i, data |-> <<1, 254>>] : i \in 0 .. 63}
    \cup {[id |-> 32, data |-> d] :
            d \in {<<>>, <<0, 0>>, <<255, 255>>, <<128, 127, 1>>,
                  <<74, 85, 147, 229>>}}

(* Update package: an empty payload, one of three different bytes, one too *)
(* long; all slots there are and one there is not; the right key and a     *)
(* wrong one.  The keys are 0xCAFE (the tool's default) and 0x12340001.    *)
MCPayloads  == {<<>>, <<0, 255, 7>>, <<1, 2, 3, 4, 5>>}
MCSlotArgs  == 0 .. 2
MCDeviceKey == Word(0, 51966)
MCKeys      == {MCDeviceKey, Word(4660, 1)}
MCAltered(byte) == {byte ^^ 1, byte ^^ 128}

(* CAN and SOME/IP networks: three interchangeable nodes, queues that fill *)
(* while others are read; identifiers and lengths at each side of each     *)
(* limit.  The LIN cluster is the same network; what is new are its frames, *)
(* so its nodes only receive once MaxLinFrames are broadcast.              *)
MCRawIds == {2047, 2048, 2 ^ 29}
MCLengths == {8, 9, 65}
MaxLinFrames == 1

EcuSymmetry == Permutations(Nodes)

-----------------------------------------------------------------------------
netvars == <<nvars, master, frame>>
wvars == <<part, netvars, cvars, sipvars, autvars, beamvars, pkgvars>>

MCInit ==
    /\ part \in {"SIP", "AUT", "BEAM", "LIN", "PKG", "CAN", "ETH", "LOOP"}
    /\ linInit /\ loopInit /\ sipInit /\ autInit /\ beamInit /\ pkgInit

sipStep  == part = "SIP" /\ sipNext
              /\ UNCHANGED <<part, netvars, cvars, autvars, beamvars, pkgvars>>
autStep  == part = "AUT" /\ autNext
              /\ UNCHANGED <<part, netvars, cvars, sipvars, beamvars, pkgvars>>
beamStep == part = "BEAM" /\ beamNext
              /\ UNCHANGED <<part, netvars, cvars, sipvars, autvars, pkgvars>>
pkgStep  == part = "PKG" /\ pkgNext
              /\ UNCHANGED <<part, netvars, cvars, sipvars, autvars, beamvars>>
loopStep == part = "LOOP" /\ loopNext
              /\ UNCHANGED <<part, netvars, sipvars, autvars, beamvars, pkgvars>>
linStep  == /\ part = "LIN"
            /\ IF Len(log) < MaxLinFrames THEN linNext
               ELSE \E n \in Nodes : linReceive(n)
            /\ UNCHANGED <<part, cvars, sipvars, autvars, beamvars, pkgvars>>
canStep  == part = "CAN" /\ Next
              /\ UNCHANGED <<part, master, frame, cvars, sipvars, autvars,
                             beamvars, pkgvars>>
ethStep  == part = "ETH" /\ someipNext
              /\ UNCHANGED <<part, master, frame, cvars, sipvars, autvars,
                             beamvars, pkgvars>>

MCNext == sipStep \/ autStep \/ beamStep \/ pkgStep
          \/ loopStep \/ linStep \/ canStep \/ ethStep

MCSpec == MCInit /\ [][MCNext]_wvars
=============================================================================
