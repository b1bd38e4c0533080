-------------------------- MODULE Diagnostics_proofs --------------------------
(***************************************************************************)
(* Theorems about UdsServer on its own, for every set of data identifiers, *)
(* every response buffer and every length of the tester-present window,    *)
(* and about Diagnostics, which puts it on the bus, for every queue length *)
(* as well.                                                                *)
(***************************************************************************)
EXTENDS Diagnostics, SequenceTheorems, TLAPS

-----------------------------------------------------------------------------
(* The server: the tester-present window and refused requests. *)

\* WindowIsExact with the types its arithmetic needs; a window that is open
\* always has at least one tick left, which is what makes the subtraction in
\* tick safe.
WindowInv ==
    /\ TypeOK
    /\ WindowIsExact
    /\ is_held => tester_present_pending \in 1 .. TESTER_PRESENT_TIMEOUT

\* A server starts without a window.
LEMMA WindowStart == Init => WindowInv
  <1>. SUFFICES ASSUME Init PROVE WindowInv
    OBVIOUS
  <1>1. ~is_held
    BY DEF Init, is_held
  <1>2. gone \in BOOLEAN
    BY Zenon DEF Init
  <1>. QED
    BY <1>1, <1>2 DEF Init, WindowInv, TypeOK, WindowIsExact

\* handle keeps WindowInv, for every request and every buffer.
LEMMA HandleKeepsWindow ==
    ASSUME WindowInv, NEW req \in Requests, NEW size, handleRequest(req, size), gone' = gone
    PROVE  WindowInv'
  <1>. USE UdsAssumption DEF WindowInv, TypeOK, WindowIsExact, is_held
  <1>r. ASSUME NEW r, ReplyOnly(r) PROVE WindowInv'
    BY <1>r DEF ReplyOnly
  <1>1. CASE TesterPresent(req[2], size)
    BY <1>1, <1>r DEF TesterPresent
  <1>2. CASE DiagnosticSessionControl(req[2], size)
    BY <1>2, <1>r DEF DiagnosticSessionControl
  <1>3. CASE EcuReset(req[2], size)
    BY <1>3, <1>r DEF EcuReset
  <1>4. CASE SecurityAccess(req[2], size)
    BY <1>4, <1>r DEF SecurityAccess
  <1>5. CASE ReadDataByIdentifier(req[2], size)
    BY <1>5, <1>r DEF ReadDataByIdentifier
  <1>6. CASE /\ req[1] = "WriteDataByIdentifier"
             /\ WriteDataByIdentifier(req[2], req[3], size)
    <2>1. req[3] \in Values
      BY <1>6 DEF Requests
    <2>. QED
      BY <1>6, <1>r, <2>1 DEF WriteDataByIdentifier
  <1>7. CASE Unknown(size) \/ ReplyOnly("None")
    BY <1>7, <1>r DEF Unknown
  <1>. QED
    BY <1>1, <1>2, <1>3, <1>4, <1>5, <1>6, <1>7 DEF handleRequest

\* Every request, every tick and a stall keep WindowInv.
LEMMA WindowStep == WindowInv /\ [Next]_uvars => WindowInv'
  <1>. SUFFICES ASSUME WindowInv, [Next]_uvars PROVE WindowInv'
    OBVIOUS
  <1>. USE UdsAssumption DEF WindowInv, TypeOK, WindowIsExact, is_held
  <1>1. CASE handle
    <2>1. PICK req \in Requests, size \in ResponseSizes : handleRequest(req, size)
      BY <1>1 DEF handle
    <2>2. gone' = gone
      BY <1>1 DEF handle
    <2>. QED
      BY <2>1, <2>2, HandleKeepsWindow
  <1>2. CASE tick
    BY <1>2 DEF tick, disarm
  <1>3. CASE stall
    BY <1>3 DEF stall
  <1>4. CASE UNCHANGED uvars
    BY <1>4 DEF uvars
  <1>. QED
    BY <1>1, <1>2, <1>3, <1>4 DEF Next

\* A TesterPresent window lasts exactly TESTER_PRESENT_TIMEOUT ticks, for
\* every timeout: handle never stretches or shortens it except by opening a
\* new one, and tick closes it on the last tick.
THEOREM WindowExact == Spec => []WindowIsExact
  <1>1. WindowInv => WindowIsExact
    BY DEF WindowInv
  <1>. QED
    BY <1>1, WindowStart, WindowStep, PTL DEF Spec

\* What a reply other than a positive one says: nothing else has changed.
LEMMA RefusalOnlyReplies ==
    ASSUME NEW req, NEW size, handleRequest(req, size),
           reply' \notin {"positive", "Panic"}
    PROVE  UNCHANGED <<session, security, tester_present_pending, store>>
  <1>r. ASSUME NEW r, ReplyOnly(r)
        PROVE  UNCHANGED <<session, security, tester_present_pending, store>>
    BY <1>r DEF ReplyOnly
  <1>p. ASSUME NEW need, reply' = positive(need, size) PROVE FALSE
    BY <1>p DEF positive
  <1>1. CASE TesterPresent(req[2], size)
    BY <1>1, <1>r, <1>p DEF TesterPresent
  <1>2. CASE DiagnosticSessionControl(req[2], size)
    BY <1>2, <1>r, <1>p DEF DiagnosticSessionControl
  <1>3. CASE EcuReset(req[2], size)
    BY <1>3, <1>r, <1>p DEF EcuReset
  <1>4. CASE SecurityAccess(req[2], size)
    BY <1>4, <1>r, <1>p DEF SecurityAccess
  <1>5. CASE ReadDataByIdentifier(req[2], size)
    BY <1>5, <1>r, <1>p DEF ReadDataByIdentifier
  <1>6. CASE WriteDataByIdentifier(req[2], req[3], size)
    BY <1>6, <1>r, <1>p DEF WriteDataByIdentifier
  <1>7. CASE Unknown(size) \/ ReplyOnly("None")
    BY <1>7, <1>r DEF Unknown
  <1>. QED
    BY <1>1, <1>2, <1>3, <1>4, <1>5, <1>6, <1>7 DEF handleRequest

\* A request that is refused, or for whose refusal the buffer has no room, has
\* no effect: handle decides before it changes anything, in every service.
THEOREM RefusedUnchanged == Spec => RefusedHasNoEffect
  <1>1. [Next]_uvars => [handle /\ reply' \notin {"positive", "Panic"} =>
            UNCHANGED <<session, security, tester_present_pending, store>>]_uvars
    BY RefusalOnlyReplies DEF handle
  <1>. QED
    BY <1>1, PTL DEF Spec, RefusedHasNoEffect

-----------------------------------------------------------------------------
(* The server on the bus. *)

\* Where the frame of the exchange is: on its way to the ECU, in the ECU, on
\* its way back, and otherwise nowhere.
ExchangeInv ==
    /\ attached = {"tester", "ecu"}
    /\ DOMAIN queue = {"tester", "ecu"} /\ queue = [n \in DOMAIN queue |-> queue[n]]
    /\ at \in {"idle", "sent", "received", "handled", "answered", "dead"}
    /\ at # "idle" => request \in Requests
    /\ queue["ecu"]    = IF at = "sent" THEN <<request>> ELSE <<>>
    /\ queue["tester"] = IF at = "answered" THEN <<<<"answer", request, reply>>>> ELSE <<>>
    /\ at \in {"received", "handled", "dead"} => incoming = request
    /\ got # None => got[1] = request

\* What the tester was told of d is true.
Told(d) == told[d] # None => store[d] = told[d]

\* While a write is between the ECU and the tester, the store may be ahead of
\* what the tester knows, and then by exactly the value written.
ToldInv ==
    /\ store \in [Writable -> Values]
    /\ told \in [Writable -> Values \cup {None}]
    /\ at \in {"idle", "sent", "received"} => \A d \in Writable : Told(d)
    /\ at \in {"handled", "answered"} =>
          IF request[1] = "WriteDataByIdentifier" /\ reply = "positive"
          THEN /\ request[2] \in Writable /\ request[3] \in Values
               /\ store[request[2]] = request[3]
               /\ \A d \in Writable \ {request[2]} : Told(d)
          ELSE \A d \in Writable : Told(d)

DiagInv == ExchangeInv /\ ToldInv /\ WindowInv /\ OnlyLongReadsPanic

-----------------------------------------------------------------------------
(* The server *)

\* handle into a buffer of eight bytes: data change only by a write that is
\* answered positively, and the one panic is that of a read longer than five.
LEMMA HandleEffect ==
    ASSUME NEW req \in Requests, handleRequest(req, RESPONSE_LEN),
           store \in [Writable -> Values]
    PROVE  /\ IF req[1] = "WriteDataByIdentifier" /\ reply' = "positive"
              THEN /\ req[2] \in Writable /\ req[3] \in Values
                   /\ store' = [store EXCEPT ![req[2]] = req[3]]
              ELSE store' = store
           /\ reply' = "Panic" => /\ req[1] = "ReadDataByIdentifier"
                                  /\ ReadLen[req[2]] \in 6 .. 7
  <1>n. \A code : nrc(code, RESPONSE_LEN) = code
    BY DEF nrc, RESPONSE_LEN
  <1>p. positive(2, RESPONSE_LEN) = "positive" /\ positive(3, RESPONSE_LEN) = "positive"
           /\ positive(4, RESPONSE_LEN) = "positive"
    BY DEF positive, RESPONSE_LEN
  <1>1. CASE req[1] = "TesterPresent" /\ TesterPresent(req[2], RESPONSE_LEN)
    BY <1>1, <1>n, <1>p DEF TesterPresent, ReplyOnly
  <1>2. CASE /\ req[1] = "DiagnosticSessionControl"
             /\ DiagnosticSessionControl(req[2], RESPONSE_LEN)
    BY <1>2, <1>n, <1>p DEF DiagnosticSessionControl, ReplyOnly
  <1>3. CASE req[1] = "EcuReset" /\ EcuReset(req[2], RESPONSE_LEN)
    BY <1>3, <1>n, <1>p DEF EcuReset, ReplyOnly
  <1>4. CASE req[1] = "SecurityAccess" /\ SecurityAccess(req[2], RESPONSE_LEN)
    BY <1>4, <1>n, <1>p DEF SecurityAccess, ReplyOnly
  <1>5. CASE /\ req[1] = "ReadDataByIdentifier"
             /\ ReadDataByIdentifier(req[2], RESPONSE_LEN)
    <2>1. store' = store
      BY <1>5 DEF ReadDataByIdentifier, ReplyOnly
    <2>2. SUFFICES ASSUME reply' = "Panic" PROVE ReadLen[req[2]] \in 6 .. 7
      BY <1>5, <2>1
    <2>3. /\ req[2] \in DOMAIN ReadLen
          /\ ~(ReadLen[req[2]] > UDS_MAX_PAYLOAD)
          /\ reply' = positive(3 + ReadLen[req[2]], RESPONSE_LEN)
      BY <1>5, <1>n, <2>2 DEF ReadDataByIdentifier, ReplyOnly
    <2>4. ReadLen[req[2]] \in Nat
      BY <2>3, UdsAssumption
    <2>. QED
      BY <2>2, <2>3, <2>4 DEF positive, RESPONSE_LEN, UDS_MAX_PAYLOAD
  <1>6. CASE /\ req[1] = "WriteDataByIdentifier"
             /\ WriteDataByIdentifier(req[2], req[3], RESPONSE_LEN)
    <2>1. req[3] \in Values
      BY <1>6 DEF Requests
    <2>. QED
      BY <1>6, <1>n, <1>p, <2>1 DEF WriteDataByIdentifier, ReplyOnly
  <1>7. CASE req[1] = "unknown" /\ Unknown(RESPONSE_LEN)
    BY <1>7, <1>n DEF Unknown, ReplyOnly
  <1>8. CASE req[1] = "empty" /\ ReplyOnly("None")
    BY <1>8 DEF ReplyOnly
  <1>. QED
    BY <1>1, <1>2, <1>3, <1>4, <1>5, <1>6, <1>7, <1>8 DEF handleRequest

-----------------------------------------------------------------------------
(* The exchange *)

\* One frame in an empty queue, and out of it again.
LEMMA OneFrame ==
    ASSUME NEW f
    PROVE  /\ Append(<<>>, f) = <<f>> /\ Len(<<>>) = 0
           /\ <<f>> # <<>> /\ Head(<<f>>) = f /\ Tail(<<f>>) = <<>>
  OBVIOUS

other(n) == IF n = "ecu" THEN "tester" ELSE "ecu"

\* A transmit on an empty bus puts the frame before the other node, or the bus
\* is off and nothing happens.
LEMMA TransmitOnEmpty ==
    ASSUME ExchangeInv, NEW n \in {"tester", "ecu"}, NEW f,
           queue["ecu"] = <<>>, queue["tester"] = <<>>, BUS!transmit(n, f, TRUE)
    PROVE  /\ attached' = attached /\ bus_off' = bus_off
           /\ DOMAIN queue' = {"tester", "ecu"} /\ queue' = [m \in DOMAIN queue' |-> queue'[m]]
           /\ \/ bus_result' # "Ok" /\ queue'["ecu"] = <<>> /\ queue'["tester"] = <<>>
              \/ bus_result' = "Ok" /\ queue'[other(n)] = <<f>> /\ queue'[n] = <<>>
  <1>1. /\ attached' = attached /\ bus_off' = bus_off
        /\ \/ bus_result' = "BusOff" /\ queue' = queue
           \/ bus_result' = "Ok" /\ queue' = BUS!broadcast(n, f)
    BY DEF BUS!transmit, BUS!send
  <1>2. CASE bus_result' = "BusOff" /\ queue' = queue
    BY <1>1, <1>2 DEF ExchangeInv
  <1>3. CASE bus_result' = "Ok" /\ queue' = BUS!broadcast(n, f)
    <2>1. /\ Len(queue["ecu"]) < SIM_RX_QUEUE_LEN /\ Len(queue["tester"]) < SIM_RX_QUEUE_LEN
          /\ Append(<<>>, f) = <<f>>
      BY OneFrame, DiagnosticsAssumption
    <2>2. queue' = [m \in {"tester", "ecu"} |->
                      IF m \in {"tester", "ecu"} \ {n} /\ Len(queue[m]) < SIM_RX_QUEUE_LEN
                      THEN Append(queue[m], f) ELSE queue[m]]
      BY <1>3 DEF BUS!broadcast, ExchangeInv
    <2>3. \A m \in {"tester", "ecu"} : queue'[m] = IF m # n THEN <<f>> ELSE <<>>
      BY <2>1, <2>2
    <2>4. other(n) \in {"tester", "ecu"} /\ other(n) # n
      BY DEF other
    <2>. QED
      BY <1>1, <1>3, <2>2, <2>3, <2>4
  <1>. QED
    BY <1>1, <1>2, <1>3

\* A receive of the one frame there is empties the bus.
LEMMA ReceiveOnly ==
    ASSUME ExchangeInv, NEW n \in {"tester", "ecu"}, NEW f,
           queue[n] = <<f>>, BUS!receive(n)
    PROVE  /\ attached' = attached /\ bus_off' = bus_off /\ bus_result' = "Ok"
           /\ Head(queue[n]) = f /\ queue[n] # <<>>
           /\ DOMAIN queue' = {"tester", "ecu"} /\ queue' = [m \in DOMAIN queue' |-> queue'[m]]
           /\ queue'[n] = <<>> /\ queue'[other(n)] = queue[other(n)]
  <1>1. queue[n] # <<>> /\ Head(queue[n]) = f /\ Tail(queue[n]) = <<>>
    BY OneFrame
  <1>2. /\ queue' = [queue EXCEPT ![n] = Tail(queue[n])] /\ bus_result' = "Ok"
        /\ attached' = attached /\ bus_off' = bus_off
    BY <1>1 DEF BUS!receive
  <1>3. other(n) \in {"tester", "ecu"} /\ other(n) # n
    BY DEF other
  <1>. QED
    BY <1>1, <1>2, <1>3 DEF ExchangeInv

\* A step that leaves the server alone keeps the window.
LEMMA WindowKept == WindowInv /\ UNCHANGED uvars => WindowInv'
  BY DEF WindowInv, TypeOK, WindowIsExact, is_held, uvars

\* The tester sends: the request is on the bus, or the bus is off.
LEMMA TransmitStep ==
    ASSUME DiagInv, NEW req \in Requests, testerTransmit(req)
    PROVE  DiagInv'
  <1>. USE DEF DiagInv
  <1>0. /\ at = "idle" /\ BUS!transmit("tester", req, TRUE)
        /\ request' = req /\ got' = None /\ UNCHANGED <<incoming, told>> /\ UNCHANGED uvars
        /\ at' = IF bus_result' = "Ok" THEN "sent" ELSE "idle"
    BY DEF testerTransmit
  <1>1. queue["ecu"] = <<>> /\ queue["tester"] = <<>>
    BY <1>0 DEF ExchangeInv
  <1>2. /\ attached' = attached
        /\ DOMAIN queue' = {"tester", "ecu"} /\ queue' = [m \in DOMAIN queue' |-> queue'[m]]
        /\ \/ bus_result' # "Ok" /\ queue'["ecu"] = <<>> /\ queue'["tester"] = <<>>
           \/ bus_result' = "Ok" /\ queue'["ecu"] = <<req>> /\ queue'["tester"] = <<>>
    BY <1>0, <1>1, TransmitOnEmpty DEF other
  <1>3. ExchangeInv'
    BY <1>0, <1>2 DEF ExchangeInv
  <1>4. ToldInv'
    BY <1>0 DEF ToldInv, Told, uvars
  <1>5. OnlyLongReadsPanic'
    BY <1>0 DEF OnlyLongReadsPanic
  <1>. QED
    BY <1>0, <1>3, <1>4, <1>5, WindowKept

\* The ECU takes the request.
LEMMA ReceiveStep == DiagInv /\ ecuReceive => DiagInv'
  <1>. SUFFICES ASSUME DiagInv, ecuReceive PROVE DiagInv'
    OBVIOUS
  <1>. USE DEF DiagInv
  <1>0. at = "sent" /\ BUS!receive("ecu") /\ UNCHANGED <<request, got>> /\ UNCHANGED uvars
    BY DEF ecuReceive
  <1>1. queue["ecu"] = <<request>> /\ queue["tester"] = <<>>
    BY <1>0 DEF ExchangeInv
  <1>2. /\ attached' = attached /\ bus_result' = "Ok"
        /\ Head(queue["ecu"]) = request /\ queue["ecu"] # <<>>
        /\ DOMAIN queue' = {"tester", "ecu"} /\ queue' = [m \in DOMAIN queue' |-> queue'[m]]
        /\ queue'["ecu"] = <<>> /\ queue'["tester"] = <<>>
    BY <1>0, <1>1, ReceiveOnly DEF other
  <1>3. incoming' = request /\ at' = "received" /\ told' = told
    BY <1>2 DEF ecuReceive, goOn
  <1>4. ExchangeInv'
    BY <1>0, <1>2, <1>3 DEF ExchangeInv
  <1>5. ToldInv'
    BY <1>0, <1>3 DEF ToldInv, Told, uvars
  <1>6. OnlyLongReadsPanic'
    BY <1>3 DEF OnlyLongReadsPanic
  <1>. QED
    BY <1>0, <1>4, <1>5, <1>6, WindowKept

\* A tester that gives an exchange up knows no less truth than before, and
\* nothing of an identifier it may have written.
LEMMA ForgetsSafely ==
    ASSUME NEW tl \in [Writable -> Values \cup {None}],
           NEW st, NEW d \in Writable,
           tl = IF request[1] = "WriteDataByIdentifier" /\ request[2] \in Writable
                THEN [told EXCEPT ![request[2]] = None] ELSE told,
           told \in [Writable -> Values \cup {None}],
           \/ request[1] = "WriteDataByIdentifier" /\ d = request[2]
           \/ told[d] # None => st[d] = told[d]
    PROVE  tl[d] # None => st[d] = tl[d]
  OBVIOUS

\* forgets is a function of the same kind.
LEMMA ForgetsType ==
    ASSUME told \in [Writable -> Values \cup {None}]
    PROVE  forgets \in [Writable -> Values \cup {None}]
  BY DEF forgets

\* The ECU handles the request in its hands.
LEMMA HandleStep == DiagInv /\ ecuHandle => DiagInv'
  <1>. SUFFICES ASSUME DiagInv, ecuHandle PROVE DiagInv'
    OBVIOUS
  <1>. USE DEF DiagInv
  <1>0. /\ at = "received" /\ gone' = gone
        /\ UNCHANGED <<request, got>> /\ UNCHANGED busvars
        /\ at' = IF reply' = "None" THEN "idle"
                 ELSE IF reply' = "Panic" THEN "dead" ELSE "handled"
        /\ told' = IF reply' = "None" THEN forgets ELSE told
        /\ incoming' = IF reply' = "None" THEN None ELSE incoming
    BY DEF ecuHandle
  <1>1. incoming = request /\ request \in Requests
    BY <1>0 DEF ExchangeInv
  <1>2. handleRequest(request, RESPONSE_LEN)
    BY <1>1 DEF ecuHandle
  <1>3. WindowInv'
    BY <1>0, <1>1, <1>2, HandleKeepsWindow
  <1>4. /\ IF request[1] = "WriteDataByIdentifier" /\ reply' = "positive"
           THEN /\ request[2] \in Writable /\ request[3] \in Values
                /\ store' = [store EXCEPT ![request[2]] = request[3]]
           ELSE store' = store
        /\ reply' = "Panic" => /\ request[1] = "ReadDataByIdentifier"
                               /\ ReadLen[request[2]] \in 6 .. 7
    BY <1>1, <1>2, HandleEffect DEF ToldInv
  <1>5. ExchangeInv'
    <2>1. queue["ecu"] = <<>> /\ queue["tester"] = <<>>
      BY <1>0 DEF ExchangeInv
    <2>2. queue' = queue /\ attached' = attached
      BY <1>0 DEF busvars
    <2>. QED
      BY <1>0, <1>1, <2>1, <2>2 DEF ExchangeInv
  <1>6. ToldInv'
    <2>1. /\ store \in [Writable -> Values] /\ told \in [Writable -> Values \cup {None}]
          /\ \A d \in Writable : Told(d)
      BY <1>0 DEF ToldInv
    <2>2. store' \in [Writable -> Values]
      BY <1>4, <2>1
    <2>3. told' \in [Writable -> Values \cup {None}]
      BY <1>0, <2>1, ForgetsType
    <2>4. CASE reply' = "None"
      <3>1. store' = store /\ told' = forgets /\ at' = "idle"
        BY <1>0, <1>4, <2>4
      <3>2. \A d \in Writable : told'[d] # None => store[d] = told'[d]
        BY <2>1, <2>3, <3>1, ForgetsSafely DEF forgets, Told
      <3>. QED
        BY <2>2, <2>3, <3>1, <3>2 DEF ToldInv, Told
    <2>5. CASE reply' # "None"
      <3>1. told' = told /\ at' \in {"dead", "handled"} /\ request' = request
        BY <1>0, <2>5
      <3>2. CASE request[1] = "WriteDataByIdentifier" /\ reply' = "positive"
        <4>1. /\ store'[request[2]] = request[3]
              /\ \A d \in Writable \ {request[2]} : store'[d] = store[d]
          BY <1>4, <2>1, <3>2
        <4>. QED
          BY <1>4, <2>1, <2>2, <2>3, <3>1, <3>2, <4>1 DEF ToldInv, Told
      <3>3. CASE ~(request[1] = "WriteDataByIdentifier" /\ reply' = "positive")
        <4>1. store' = store
          BY <1>4, <3>3
        <4>. QED
          BY <2>1, <2>2, <2>3, <3>1, <3>3, <4>1 DEF ToldInv, Told
      <3>. QED
        BY <3>2, <3>3
    <2>. QED
      BY <2>4, <2>5
  <1>7. OnlyLongReadsPanic'
    BY <1>0, <1>1, <1>4 DEF OnlyLongReadsPanic
  <1>. QED
    BY <1>3, <1>5, <1>6, <1>7

\* When the exchange ends without an answer, what is left in the tester's
\* memory is true although the write may have been made.
LEMMA GivenUp ==
    ASSUME ToldInv, at \in {"handled", "answered"},
           at' = "idle", told' = forgets, store' = store
    PROVE  ToldInv'
  <1>1. store \in [Writable -> Values] /\ told \in [Writable -> Values \cup {None}]
    BY DEF ToldInv
  <1>2. told' \in [Writable -> Values \cup {None}]
    BY <1>1, ForgetsType
  <1>3. ASSUME NEW d \in Writable
        PROVE  \/ request[1] = "WriteDataByIdentifier" /\ d = request[2]
               \/ told[d] # None => store[d] = told[d]
    BY DEF ToldInv, Told
  <1>4. \A d \in Writable : told'[d] # None => store[d] = told'[d]
    BY <1>1, <1>2, <1>3, ForgetsSafely DEF forgets
  <1>. QED
    BY <1>1, <1>2, <1>4 DEF ToldInv, Told

\* The ECU answers, or the bus is off and the tester will not know.
LEMMA AnswerStep == DiagInv /\ ecuTransmit => DiagInv'
  <1>. SUFFICES ASSUME DiagInv, ecuTransmit PROVE DiagInv'
    OBVIOUS
  <1>. USE DEF DiagInv
  <1>. DEFINE f == <<"answer", incoming, reply>>
  <1>0. /\ at = "handled" /\ BUS!transmit("ecu", f, TRUE) /\ goOn("answered")
        /\ incoming' = None /\ UNCHANGED <<request, got>> /\ UNCHANGED uvars
    BY DEF ecuTransmit
  <1>1. /\ queue["ecu"] = <<>> /\ queue["tester"] = <<>>
        /\ request \in Requests /\ f = <<"answer", request, reply>>
    BY <1>0 DEF ExchangeInv
  <1>. HIDE DEF f
  <1>2. /\ attached' = attached
        /\ DOMAIN queue' = {"tester", "ecu"} /\ queue' = [m \in DOMAIN queue' |-> queue'[m]]
        /\ \/ bus_result' # "Ok" /\ queue'["ecu"] = <<>> /\ queue'["tester"] = <<>>
           \/ bus_result' = "Ok" /\ queue'["tester"] = <<f>> /\ queue'["ecu"] = <<>>
    BY <1>0, <1>1, TransmitOnEmpty DEF other
  <1>3. reply' = reply /\ store' = store
    BY <1>0 DEF uvars
  <1>4. CASE bus_result' = "Ok"
    <2>1. at' = "answered" /\ told' = told
      BY <1>0, <1>4 DEF goOn
    <2>2. ExchangeInv'
      BY <1>0, <1>1, <1>2, <1>3, <1>4, <2>1 DEF ExchangeInv
    <2>3. ToldInv'
      BY <1>0, <1>3, <2>1 DEF ToldInv, Told
    <2>. QED
      BY <1>0, <2>1, <2>2, <2>3, WindowKept DEF OnlyLongReadsPanic
  <1>5. CASE bus_result' # "Ok"
    <2>1. at' = "idle" /\ told' = forgets
      BY <1>0, <1>5 DEF goOn
    <2>2. ExchangeInv'
      BY <1>0, <1>2, <1>5, <2>1 DEF ExchangeInv
    <2>3. ToldInv'
      BY <1>0, <1>3, <2>1, GivenUp
    <2>. QED
      BY <1>0, <2>1, <2>2, <2>3, WindowKept DEF OnlyLongReadsPanic
  <1>. QED
    BY <1>4, <1>5

\* The tester takes the answer and learns from it.
LEMMA LearnStep == DiagInv /\ testerReceive => DiagInv'
  <1>. SUFFICES ASSUME DiagInv, testerReceive PROVE DiagInv'
    OBVIOUS
  <1>. USE DEF DiagInv
  <1>. DEFINE f == <<"answer", request, reply>>
  <1>0. /\ at = "answered" /\ BUS!receive("tester") /\ at' = "idle"
        /\ UNCHANGED <<request, incoming>> /\ UNCHANGED uvars
    BY DEF testerReceive
  <1>1. queue["tester"] = <<f>> /\ queue["ecu"] = <<>> /\ request \in Requests
    BY <1>0 DEF ExchangeInv
  <1>2. f[2] = request /\ f[3] = reply
    OBVIOUS
  <1>. HIDE DEF f
  <1>3. /\ attached' = attached
        /\ Head(queue["tester"]) = f /\ queue["tester"] # <<>>
        /\ DOMAIN queue' = {"tester", "ecu"} /\ queue' = [m \in DOMAIN queue' |-> queue'[m]]
        /\ queue'["ecu"] = <<>> /\ queue'["tester"] = <<>>
    BY <1>0, <1>1, ReceiveOnly DEF other
  <1>4. got' = <<request, reply>>
    BY <1>2, <1>3 DEF testerReceive
  <1>5. told' = IF got' = None THEN forgets ELSE learns
    BY DEF testerReceive
  <1>6. reply' = reply /\ store' = store
    BY <1>0 DEF uvars
  <1>7. ExchangeInv'
    <2>1. <<request, reply>>[1] = request
      OBVIOUS
    <2>. QED
      BY <1>0, <1>3, <1>4, <2>1 DEF ExchangeInv
  <1>8. ToldInv'
    <2>1. CASE got' = None
      BY <1>0, <1>5, <1>6, <2>1, GivenUp
    <2>2. CASE got' # None
      <3>1. /\ store \in [Writable -> Values] /\ told \in [Writable -> Values \cup {None}]
        BY DEF ToldInv
      <3>2. got'[2] = reply
        BY <1>4
      <3>3. CASE request[1] = "WriteDataByIdentifier" /\ reply = "positive"
        <4>1. /\ request[2] \in Writable /\ request[3] \in Values
              /\ store[request[2]] = request[3]
              /\ \A d \in Writable \ {request[2]} : Told(d)
          BY <1>0, <3>3 DEF ToldInv
        <4>2. told' = [told EXCEPT ![request[2]] = request[3]]
          BY <1>5, <2>2, <3>2, <3>3 DEF learns
        <4>. QED
          BY <1>0, <1>6, <3>1, <4>1, <4>2 DEF ToldInv, Told
      <3>4. CASE ~(request[1] = "WriteDataByIdentifier" /\ reply = "positive")
        <4>1. \A d \in Writable : Told(d)
          BY <1>0, <3>4 DEF ToldInv
        <4>2. told' = told
          BY <1>5, <2>2, <3>2, <3>4 DEF learns
        <4>. QED
          BY <1>0, <1>6, <3>1, <4>1, <4>2 DEF ToldInv, Told
      <3>. QED
        BY <3>3, <3>4
    <2>. QED
      BY <2>1, <2>2
  <1>. QED
    BY <1>0, <1>7, <1>8, WindowKept DEF OnlyLongReadsPanic

\* The bus goes off or on, the platform ticks, the tester stalls.
LEMMA PlatformStep ==
    ASSUME DiagInv, toggleBus \/ diagTick \/ diagStall
    PROVE  DiagInv'
  <1>. USE DEF DiagInv
  <1>1. /\ UNCHANGED exchangevars /\ UNCHANGED <<attached, queue>>
        /\ UNCHANGED <<store, reply>>
    BY DEF toggleBus, BUS!set_bus_off, diagTick, tick, diagStall, stall, busvars, uvars
  <1>2. WindowInv'
    BY WindowKept, WindowStep DEF toggleBus, diagTick, diagStall, Next
  <1>3. ExchangeInv'
    BY <1>1 DEF ExchangeInv, exchangevars
  <1>4. ToldInv'
    BY <1>1 DEF ToldInv, Told, exchangevars
  <1>5. OnlyLongReadsPanic'
    BY <1>1 DEF OnlyLongReadsPanic, exchangevars
  <1>. QED
    BY <1>2, <1>3, <1>4, <1>5

\* A tester and an ECU that have not exchanged anything yet.
LEMMA DiagStart == diagInit => DiagInv
  <1>. SUFFICES ASSUME diagInit PROVE DiagInv
    OBVIOUS
  <1>1. ExchangeInv
    BY DEF diagInit, ExchangeInv
  <1>2. ToldInv
    BY DEF diagInit, Init, ToldInv, Told
  <1>3. WindowInv
    BY WindowStart DEF diagInit
  <1>4. OnlyLongReadsPanic
    BY DEF diagInit, OnlyLongReadsPanic
  <1>. QED
    BY <1>1, <1>2, <1>3, <1>4 DEF DiagInv

\* Every call of the exchange and everything that happens between two of them
\* keeps the invariant.
LEMMA DiagStep == DiagInv /\ [diagNext]_dvars => DiagInv'
  <1>. SUFFICES ASSUME DiagInv, [diagNext]_dvars PROVE DiagInv'
    OBVIOUS
  <1>1. ASSUME NEW req \in Requests, testerTransmit(req) PROVE DiagInv'
    BY <1>1, TransmitStep
  <1>2. CASE ecuReceive
    BY <1>2, ReceiveStep
  <1>3. CASE ecuHandle
    BY <1>3, HandleStep
  <1>4. CASE ecuTransmit
    BY <1>4, AnswerStep
  <1>5. CASE testerReceive
    BY <1>5, LearnStep
  <1>6. CASE toggleBus \/ diagTick \/ diagStall
    BY <1>6, PlatformStep
  <1>7. CASE UNCHANGED dvars
    <2>1. UNCHANGED uvars /\ UNCHANGED exchangevars /\ UNCHANGED busvars
             /\ UNCHANGED <<store, reply>>
      BY <1>7 DEF dvars, uvars
    <2>2. ExchangeInv' /\ OnlyLongReadsPanic'
      BY <2>1 DEF DiagInv, ExchangeInv, OnlyLongReadsPanic, exchangevars, busvars
    <2>3. ToldInv'
      BY <2>1 DEF DiagInv, ToldInv, Told, exchangevars
    <2>. QED
      BY <2>1, <2>2, <2>3, WindowKept DEF DiagInv
  <1>. QED
    BY <1>1, <1>2, <1>3, <1>4, <1>5, <1>6, <1>7 DEF diagNext

-----------------------------------------------------------------------------
(* Theorems *)

\* DiagInv holds throughout a diagnostic session.
LEMMA DiagInvariant == diagSpec => []DiagInv
  BY DiagStart, DiagStep, PTL DEF diagSpec

\* An answer the tester gets is the answer to its last request, and an
\* exchange that is over, however it failed, leaves nothing on the bus.
THEOREM AnswersAreMatched == diagSpec => []AnswersMatch
  <1>1. DiagInv => AnswersMatch
    BY DEF DiagInv, ExchangeInv, AnswersMatch
  <1>. QED
    BY <1>1, DiagInvariant, PTL

\* What a positive answer told the tester stays true, whatever is refused,
\* re-locked or lost afterwards.
THEOREM ToldStaysTrue == diagSpec => []ToldIsTrue
  <1>1. DiagInv => ToldIsTrue
    BY DEF DiagInv, ToldInv, Told, ToldIsTrue
  <1>. QED
    BY <1>1, DiagInvariant, PTL

\* With eight bytes of response the one way to take the server down is to
\* read an identifier of six or seven bytes.
THEOREM PanicsAreLongReads == diagSpec => []OnlyLongReadsPanic
  <1>1. DiagInv => OnlyLongReadsPanic
    BY DEF DiagInv
  <1>. QED
    BY <1>1, DiagInvariant, PTL

\* On the bus, too, the tester-present window is exact.
THEOREM WindowExactOnBus == diagSpec => []WindowIsExact
  <1>1. DiagInv => WindowIsExact
    BY DEF DiagInv, WindowInv
  <1>. QED
    BY <1>1, DiagInvariant, PTL
=============================================================================
