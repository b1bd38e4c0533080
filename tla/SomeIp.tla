------------------------------- MODULE SomeIp -------------------------------
(***************************************************************************)
(* The SOME/IP codec of core/src/someip.rs between a sender that encodes   *)
(* one message after the other into the same buffer and a receiver that    *)
(* decodes as much of the buffer as arrived: too little, exactly the       *)
(* message, or more, with the tail of an earlier message behind it.  Any   *)
(* bytes of the header may be damaged on the way.                          *)
(*                                                                         *)
(* The wire layout is modelled byte by byte, since the properties are      *)
(* about lengths and positions.  A big-endian u32 packed from two u16      *)
(* values is the bytes of the one followed by those of the other.  usize   *)
(* has the width of the target, and what an addition past it does is       *)
(* decided by the build: a panic with overflow checks, else it wraps.      *)
(***************************************************************************)
EXTENDS Integers, Sequences, Option

CONSTANTS
    Messages,             \* messages to send
    Damages,              \* <<position, byte>> the medium may overwrite
    OutLen,               \* length of the sender's buffer
    SOMEIP_MAX_PAYLOAD,
    UsizeSize,            \* number of values of usize on the target
    OverflowChecks,       \* the build checks additions for overflow
    Panic                 \* a slice index or an addition out of range

SOMEIP_HEADER_LEN == 16
SOMEIP_PROTOCOL_VERSION == 1

\* Wire values of SomeIpMessageType and SomeIpReturnCode.
MessageType == [Request |-> 0, RequestNoReturn |-> 1, Notification |-> 2,
                Response |-> 128, Error |-> 129]
ReturnCode == [Ok |-> 0, NotOk |-> 1, WrongProtocolVersion |-> 2]

\* from_u8 of both: the name of a wire value, None for an unknown one.
from_u8(code, v) ==
    IF \E name \in DOMAIN code : code[name] = v
    THEN CHOOSE name \in DOMAIN code : code[name] = v
    ELSE None

U16 == {v \in Nat : v <= 65535}

\* SomeIpHeader and SomeIpMessage
Message ==
    [service : U16, method : U16, client : U16, session : U16,
     interface_version : 0 .. 255, message_type : DOMAIN MessageType,
     return_code : DOMAIN ReturnCode, payload : Seq(0 .. 255)]

\* What the constants have to be.  The code's SOMEIP_MAX_PAYLOAD is 1024, so
\* that the upper half of an encoded length field is zero; usize has 16 bits
\* or more.
ASSUME SomeIpAssumption ==
    /\ Messages \subseteq Message
    /\ Damages \subseteq (1 .. SOMEIP_HEADER_LEN) \X (0 .. 255)
    /\ OutLen \in Nat
    /\ SOMEIP_MAX_PAYLOAD \in Nat /\ SOMEIP_MAX_PAYLOAD + 16 <= 65535
    /\ UsizeSize \in Nat /\ UsizeSize >= 65536
    /\ OverflowChecks \in BOOLEAN
    /\ None \notin DOMAIN MessageType \cup DOMAIN ReturnCode
    /\ Panic \notin Message \cup Seq(0 .. 255) \cup Nat \cup {None}

VARIABLES
    out,          \* the sender's buffer
    sent,         \* the message last encoded into it, or None
    sipResult,    \* what the last transmit returned
    headerDamaged, \* a byte of the message in the buffer was overwritten
    arrived,      \* bytes that reached the receiver, 0 before any did
    decoded       \* what decode made of them

sipvars == <<out, sent, sipResult, headerDamaged, arrived, decoded>>

-----------------------------------------------------------------------------
be16(v) == <<v \div 256, v % 256>>
u16(hi, lo) == hi * 256 + lo

\* SomeIpHeader::length_field: everything behind the length itself.
length_field(payload_len) == 8 + payload_len

total(m) == SOMEIP_HEADER_LEN + Len(m.payload)

\* SomeIpHeader::encode, with the length field of SomeIpMessage::encode.
header(m) ==
    be16(m.service) \o be16(m.method)
    \o <<0, 0>> \o be16(length_field(Len(m.payload)))
    \o be16(m.client) \o be16(m.session)
    \o <<SOMEIP_PROTOCOL_VERSION, m.interface_version,
         MessageType[m.message_type], ReturnCode[m.return_code]>>

\* SomeIpMessage::encode: the buffer afterwards, None if it is too small.
encode(m, buf) ==
    IF Len(buf) < total(m) THEN None
    ELSE header(m) \o m.payload \o SubSeq(buf, total(m) + 1, Len(buf))

\* SomeIpMessage::new refuses a payload beyond the maximum.
newMessage(h, payload) ==
    IF Len(payload) > SOMEIP_MAX_PAYLOAD THEN None
    ELSE [service |-> u16(h[1], h[2]), method |-> u16(h[3], h[4]),
          client |-> u16(h[9], h[10]), session |-> u16(h[11], h[12]),
          interface_version |-> h[14],
          message_type |-> from_u8(MessageType, h[15]),
          return_code |-> from_u8(ReturnCode, h[16]),
          payload |-> payload]

\* A slice of the received bytes behind the header.
slice(bytes, to) ==
    IF to \notin SOMEIP_HEADER_LEN .. Len(bytes) THEN Panic
    ELSE SubSeq(bytes, SOMEIP_HEADER_LEN + 1, to)

\* The length field as a usize, cut to the width of the target.
declared_len(bytes) ==
    (65536 * u16(bytes[5], bytes[6]) + u16(bytes[7], bytes[8])) % UsizeSize

usizeAdd(a, b) ==
    IF OverflowChecks /\ a + b >= UsizeSize THEN Panic ELSE (a + b) % UsizeSize

expected_total(bytes) == usizeAdd(SOMEIP_HEADER_LEN, declared_len(bytes) - 8)

\* The headers SomeIpHeader::decode accepts: both codes are known.
headerOk(bytes) ==
    /\ from_u8(MessageType, bytes[15]) # None
    /\ from_u8(ReturnCode, bytes[16]) # None

\* A Request has the right protocol version.
versionOk(bytes) ==
    bytes[15] = MessageType.Request => bytes[13] = SOMEIP_PROTOCOL_VERSION

\* The payload, or Panic, makes the message.
fromSlice(bytes, payload) ==
    IF payload = Panic THEN Panic ELSE newMessage(bytes, payload)

\* Mutants: the declared length is believed; the whole buffer is payload.
decodeTrusting(bytes) ==
    IF Len(bytes) < SOMEIP_HEADER_LEN THEN None
    ELSE IF ~headerOk(bytes) \/ declared_len(bytes) < 8 THEN None
    ELSE IF ~versionOk(bytes) THEN None
    ELSE fromSlice(bytes, slice(bytes, expected_total(bytes)))
decodeWhole(bytes) ==
    IF Len(bytes) < SOMEIP_HEADER_LEN THEN None
    ELSE IF ~headerOk(bytes) \/ ~versionOk(bytes) THEN None
    ELSE fromSlice(bytes, slice(bytes, Len(bytes)))

\* SomeIpMessage::decode.  The sum is taken before the buffer's length and the
\* version are looked at.
decode(bytes) ==
    IF Len(bytes) < SOMEIP_HEADER_LEN THEN None
    ELSE IF ~headerOk(bytes) \/ declared_len(bytes) < 8 THEN None
    ELSE IF expected_total(bytes) = Panic THEN Panic
    ELSE IF Len(bytes) < expected_total(bytes) \/ ~versionOk(bytes) THEN None
    ELSE fromSlice(bytes, slice(bytes, expected_total(bytes)))

\* validate_message
validate_message(m) ==
    /\ Len(m.payload) <= SOMEIP_MAX_PAYLOAD
    /\ ~(m.message_type = "Request" /\ m.service = 0)

-----------------------------------------------------------------------------
sipInit ==
    /\ out = [i \in 1 .. OutLen |-> 0]
    /\ sent = None
    /\ sipResult = "Ok"
    /\ headerDamaged = FALSE
    /\ arrived = 0
    /\ decoded = None

\* SomeIpBus::transmit over a backend that encodes into its buffer.  The
\* message was built by SomeIpMessage::new.
sipTransmit(m) ==
    /\ Len(m.payload) <= SOMEIP_MAX_PAYLOAD
    /\ IF ~validate_message(m)
       THEN sipResult' = "InvalidFrame" /\ UNCHANGED <<out, sent, headerDamaged>>
       ELSE IF encode(m, out) = None
       THEN sipResult' = "None" /\ UNCHANGED <<out, sent, headerDamaged>>
       ELSE /\ out' = encode(m, out)
            /\ sent' = m
            /\ headerDamaged' = FALSE
            /\ sipResult' = "Ok"
    /\ arrived' = 0
    /\ decoded' = None

\* The medium overwrites a byte of the header, and then perhaps another.
damageHeader(d) ==
    /\ sent # None
    /\ out[d[1]] # d[2]
    /\ out' = [out EXCEPT ![d[1]] = d[2]]
    /\ headerDamaged' = TRUE
    /\ arrived' = 0
    /\ decoded' = None
    /\ UNCHANGED <<sent, sipResult>>

\* The receiver decodes the first n bytes.
sipReceive(n) ==
    /\ sent # None
    /\ arrived' = n
    /\ decoded' = decode(SubSeq(out, 1, n))
    /\ UNCHANGED <<out, sent, sipResult, headerDamaged>>

sipNext ==
    \/ \E m \in Messages : sipTransmit(m)
    \/ \E d \in Damages : damageHeader(d)
    \/ \E n \in 1 .. OutLen : sipReceive(n)

sipSpec == sipInit /\ [][sipNext]_sipvars

-----------------------------------------------------------------------------
(* Properties *)

\* The receiver decodes exactly the message last sent, however long the tail
\* an earlier message left in the buffer, and nothing at all as long as a
\* byte of it is missing.
DecodesWhatWasSent ==
    arrived > 0 /\ ~headerDamaged =>
        decoded = (IF arrived < total(sent) THEN None ELSE sent)

\* Whatever a damaged header declares, decode reads no byte that did not
\* arrive, and a payload it returns has the length that was declared.  It
\* panics for the eight largest usize lengths only, for which its sum overflows.
DamageIsContained ==
    /\ decoded = Panic => declared_len(out) + 8 >= UsizeSize
    /\ decoded \notin {None, Panic} => /\ total(decoded) <= arrived
                                       /\ total(decoded) = expected_total(out)
=============================================================================
