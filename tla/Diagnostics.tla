----------------------------- MODULE Diagnostics -----------------------------
(***************************************************************************)
(* A diagnostic session over the vehicle bus: the exchange of cmd_diag     *)
(* (cli/src/main.rs) and of the repository's UDS-over-CAN test.  Tester    *)
(* and ECU are two nodes of a SimNetwork; an exchange is five calls, each  *)
(* of which may end it: the tester transmits, the ECU receives, handles    *)
(* into a buffer of eight bytes and transmits, the tester receives.        *)
(* Between any two of them the bus may go off or on, the platform may tick *)
(* the server, and the tester may stall.                                   *)
(***************************************************************************)
EXTENDS UdsServer, Sequences

CONSTANT SIM_RX_QUEUE_LEN

ASSUME DiagnosticsAssumption == SIM_RX_QUEUE_LEN \in Nat \ {0}

RESPONSE_LEN == 8       \* let mut resp = [0u8; 8]

VARIABLES
    at,           \* the call the exchange is at
    request,      \* what the tester sent last
    incoming,     \* what the ECU is handling
    got,          \* what the tester received: <<request answered, reply>>
    told,         \* the value the tester knows each identifier has, or None
    attached, queue, bus_off, bus_result

busvars == <<attached, queue, bus_off, bus_result>>
exchangevars == <<at, request, incoming, got, told>>
dvars == <<uvars, exchangevars, busvars>>

BUS == INSTANCE SimNetwork WITH
    Nodes <- {"tester", "ecu"}, result <- bus_result

diagInit ==
    /\ Init
    /\ at = "idle"
    /\ request = None
    /\ incoming = None
    /\ got = None
    /\ told = [d \in Writable |-> None]
    /\ attached = {"tester", "ecu"}
    /\ queue = [n \in {"tester", "ecu"} |-> <<>>]
    /\ bus_off = FALSE
    /\ bus_result = "Ok"

-----------------------------------------------------------------------------
\* The exchange returns without an answer: a tester that wrote no longer
\* knows what the ECU has.
forgets == IF request[1] = "WriteDataByIdentifier" /\ request[2] \in Writable
           THEN [told EXCEPT ![request[2]] = None] ELSE told

\* The call returned Ok and the exchange goes on, or it returned an error and
\* the exchange is over.
goOn(to) ==
    \/ bus_result' = "Ok" /\ at' = to /\ UNCHANGED told
    \/ bus_result' # "Ok" /\ at' = "idle" /\ told' = forgets

testerTransmit(req) ==
    /\ at = "idle" /\ ~gone /\ reply # "Panic"
    /\ BUS!transmit("tester", req, TRUE)
    /\ request' = req
    /\ got' = None
    /\ at' = IF bus_result' = "Ok" THEN "sent" ELSE "idle"
    /\ UNCHANGED <<uvars, incoming, told>>

ecuReceive ==
    /\ at = "sent"
    /\ BUS!receive("ecu")
    /\ incoming' = IF queue["ecu"] = <<>> THEN None ELSE Head(queue["ecu"])
    /\ goOn("received")
    /\ UNCHANGED <<uvars, request, got>>

\* server.handle(rx.data(), &mut resp)?  A frame that is not a request has
\* no service the server knows.
ecuHandle ==
    /\ at = "received"
    /\ \/ incoming \in Requests /\ handleRequest(incoming, RESPONSE_LEN)
       \/ incoming \notin Requests /\ Unknown(RESPONSE_LEN)
    /\ at' = IF reply' = "None" THEN "idle"
             ELSE IF reply' = "Panic" THEN "dead" ELSE "handled"
    /\ told' = IF reply' = "None" THEN forgets ELSE told
    /\ incoming' = IF reply' = "None" THEN None ELSE incoming
    /\ UNCHANGED <<gone, request, got, busvars>>

ecuTransmit ==
    /\ at = "handled"
    /\ BUS!transmit("ecu", <<"answer", incoming, reply>>, TRUE)
    /\ goOn("answered")
    /\ incoming' = None
    /\ UNCHANGED <<uvars, request, got>>

\* A positive answer to a write tells the tester what the ECU has now.
learns ==
    IF /\ request[1] = "WriteDataByIdentifier"
       /\ got' # None
       /\ got'[2] = "positive"
    THEN [told EXCEPT ![request[2]] = request[3]] ELSE told

testerReceive ==
    /\ at = "answered" /\ ~gone
    /\ BUS!receive("tester")
    /\ got' = IF queue["tester"] = <<>> THEN None
              ELSE <<Head(queue["tester"])[2], Head(queue["tester"])[3]>>
    /\ told' = IF got' = None THEN forgets ELSE learns
    /\ at' = "idle"
    /\ UNCHANGED <<uvars, request, incoming>>

toggleBus ==
    /\ BUS!set_bus_off(~bus_off)
    /\ UNCHANGED <<uvars, exchangevars>>

\* The steps of the server that are not calls of handle.
diagTick  == tick /\ UNCHANGED <<exchangevars, busvars>>
diagStall == stall /\ UNCHANGED <<exchangevars, busvars>>

diagNext ==
    \/ \E req \in Requests : testerTransmit(req)
    \/ ecuReceive \/ ecuHandle \/ ecuTransmit \/ testerReceive
    \/ toggleBus \/ diagTick \/ diagStall

diagSpec == diagInit /\ [][diagNext]_dvars

-----------------------------------------------------------------------------
(* Properties *)

\* Whatever call of an earlier exchange failed, an answer the tester gets is
\* the answer to the request it has just sent, and an exchange that is over
\* leaves nothing on the bus for the next one to trip over.
AnswersMatch ==
    /\ got # None => got[1] = request
    /\ at = "idle" => \A n \in DOMAIN queue : queue[n] = <<>>

\* What a positive answer told the tester about an identifier stays true
\* until the tester itself has a write of it accepted or its fate unknown:
\* refused writes, re-locks and failed exchanges do not move the data.
ToldIsTrue ==
    at = "idle" => \A d \in Writable : told[d] # None => store[d] = told[d]

\* With the eight bytes every caller provides, the one request that takes the
\* server down is a read of an identifier longer than the five bytes that are
\* left of the buffer (UDS_MAX_PAYLOAD lets six and seven through).
OnlyLongReadsPanic ==
    at = "dead" =>
        /\ incoming[1] = "ReadDataByIdentifier"
        /\ ReadLen[incoming[2]] \in 6 .. 7
=============================================================================
