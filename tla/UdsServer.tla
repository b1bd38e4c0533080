------------------------------ MODULE UdsServer ------------------------------
(***************************************************************************)
(* The diagnostic server of core/src/uds.rs: session, security level and   *)
(* the tester-present window, driven by the requests of one tester and by  *)
(* the periodic tick of the platform.                                      *)
(*                                                                         *)
(* Data abstraction: a request is its service, the parameter the handler   *)
(* tells apart ("missing" where the payload ends before it) and, where one *)
(* is written, a data value; a reply is "positive", the name of a negative *)
(* response code, "None", or "Panic" where an index into the response      *)
(* buffer is out of bounds.                                                *)
(***************************************************************************)
EXTENDS Integers

CONSTANTS
    DIDs,                     \* data identifiers a request may carry
    Reserved,                 \* those did_reserved() names
    ReadLen,                  \* did_read_len, for the readable ones
    Writable,                 \* those did_write accepts
    Values,                   \* data values
    ResponseSizes,            \* lengths of the caller's response buffer
    TESTER_PRESENT_TIMEOUT,
    None

UDS_MAX_PAYLOAD == 7

ASSUME UdsAssumption ==
    /\ Reserved \subseteq DIDs
    /\ Writable \subseteq DIDs
    /\ DOMAIN ReadLen \subseteq DIDs
    /\ \A did \in DOMAIN ReadLen : ReadLen[did] \in Nat
    /\ ResponseSizes \subseteq Nat
    /\ TESTER_PRESENT_TIMEOUT \in Nat \ {0}
    /\ None \notin Nat

VARIABLES
    session, security,
    tester_present_pending,   \* ticks left in the window, or None
    store,                    \* the data provider's values
    reply,                    \* what the last handle returned
    quiet,                    \* ticks since the last TesterPresent, in a window
    gone                      \* the tester has stopped sending

uvars == <<session, security, tester_present_pending, store, reply, quiet, gone>>

is_held  == tester_present_pending # None
Elevated == session # "Default" \/ security # "Locked"

Init ==
    /\ session = "Default"
    /\ security = "Locked"
    /\ tester_present_pending = None
    /\ store \in [Writable -> Values]
    /\ reply = "None"
    /\ quiet = 0
    /\ gone = FALSE

-----------------------------------------------------------------------------
\* A negative response needs three bytes, or there is no response at all;
\* a positive one indexes the buffer without looking at its length.
nrc(code, size)      == IF size < 3 THEN "None" ELSE code

\* Mutant: an answer that just fills the buffer is out of bounds.
positiveOffByOne(need, size) == IF size <= need THEN "Panic" ELSE "positive"

positive(need, size) == IF size < need THEN "Panic" ELSE "positive"

\* A reply without any other effect.
ReplyOnly(r) ==
    /\ reply' = r
    /\ UNCHANGED <<session, security, tester_present_pending, store, quiet>>

TesterPresent(sub, size) ==
    \/ sub = "other" /\ ReplyOnly(nrc("SubFunctionNotSupported", size))
    \/ /\ sub # "other"
       /\ tester_present_pending' = TESTER_PRESENT_TIMEOUT
       /\ quiet' = 0
       /\ reply' = positive(2, size)
       /\ UNCHANGED <<session, security, store>>

DiagnosticSessionControl(sub, size) ==
    \/ sub \notin {"Default", "Extended"} /\ ReplyOnly("None")
    \/ /\ sub \in {"Default", "Extended"}
       /\ session' = sub
       /\ reply' = positive(4, size)
       /\ UNCHANGED <<security, tester_present_pending, store, quiet>>

EcuReset(sub, size) ==
    \/ sub = "missing" /\ ReplyOnly("None")
    \/ sub = "other" /\ ReplyOnly(nrc("SubFunctionNotSupported", size))
    \/ /\ sub = "hard"
       /\ session' = "Default"
       /\ security' = "Locked"
       /\ reply' = positive(2, size)
       /\ UNCHANGED <<tester_present_pending, store, quiet>>

SecurityAccess(sub, size) ==
    \/ sub = "missing" /\ ReplyOnly("None")
    \/ sub = "other" /\ ReplyOnly(nrc("SubFunctionNotSupported", size))
    \/ sub = "wrongKey" /\ ReplyOnly(nrc("InvalidKey", size))
    \/ sub = "seed" /\ ReplyOnly(positive(3, size))
    \/ /\ sub = "key"
       /\ security' = "Unlocked"
       /\ reply' = positive(2, size)
       /\ UNCHANGED <<session, tester_present_pending, store, quiet>>

ReadDataByIdentifier(did, size) ==
    \/ did = None /\ ReplyOnly("None")
    \/ /\ did \in DIDs
       /\ IF did \notin DOMAIN ReadLen
          THEN ReplyOnly(nrc("RequestOutOfRange", size))
          ELSE IF ReadLen[did] > UDS_MAX_PAYLOAD
          THEN ReplyOnly(nrc("RequestOutOfRange", size))
          ELSE IF security = "Locked" /\ did \in Reserved
          THEN ReplyOnly(nrc("SecurityAccessDenied", size))
          ELSE ReplyOnly(positive(3 + ReadLen[did], size))

\* Mutant: the provider is written before the security level is looked at.
WriteBeforeCheck(did, value, size) ==
    /\ did \in DIDs
    /\ store' = IF did \in Writable THEN [store EXCEPT ![did] = value] ELSE store
    /\ reply' = IF security = "Locked" THEN nrc("SecurityAccessDenied", size)
                ELSE IF did \notin Writable THEN nrc("RequestOutOfRange", size)
                ELSE positive(3, size)
    /\ UNCHANGED <<session, security, tester_present_pending, quiet>>

WriteDataByIdentifier(did, value, size) ==
    \/ security = "Locked" /\ ReplyOnly(nrc("SecurityAccessDenied", size))
    \/ security # "Locked" /\ did = None /\ ReplyOnly("None")
    \/ /\ security # "Locked"
       /\ did \in DIDs \ Writable
       /\ ReplyOnly(nrc("RequestOutOfRange", size))
    \/ /\ security # "Locked"
       /\ did \in Writable
       /\ store' = [store EXCEPT ![did] = value]
       /\ reply' = positive(3, size)
       /\ UNCHANGED <<session, security, tester_present_pending, quiet>>

\* An unknown service has a negative reply, an empty payload none.
Unknown(size) == ReplyOnly(nrc("ServiceNotSupported", size))

\* The requests a tester can send: <<service, parameter, value>>.
Requests ==
    ({"TesterPresent"} \X {"missing", "other"} \X {None})
    \cup ({"DiagnosticSessionControl"}
            \X {"Default", "Extended", "other", "missing"} \X {None})
    \cup ({"EcuReset"} \X {"hard", "other", "missing"} \X {None})
    \cup ({"SecurityAccess"}
            \X {"seed", "key", "wrongKey", "other", "missing"} \X {None})
    \cup ({"ReadDataByIdentifier"} \X (DIDs \cup {None}) \X {None})
    \cup ({"WriteDataByIdentifier"} \X (DIDs \cup {None}) \X Values)
    \cup ({"unknown", "empty"} \X {None} \X {None})

\* UdsServer::handle: the match on the service.
handleRequest(req, size) ==
    \/ req[1] = "TesterPresent" /\ TesterPresent(req[2], size)
    \/ req[1] = "DiagnosticSessionControl" /\ DiagnosticSessionControl(req[2], size)
    \/ req[1] = "EcuReset" /\ EcuReset(req[2], size)
    \/ req[1] = "SecurityAccess" /\ SecurityAccess(req[2], size)
    \/ req[1] = "ReadDataByIdentifier" /\ ReadDataByIdentifier(req[2], size)
    \/ req[1] = "WriteDataByIdentifier"
          /\ WriteDataByIdentifier(req[2], req[3], size)
    \/ req[1] = "unknown" /\ Unknown(size)
    \/ req[1] = "empty" /\ ReplyOnly("None")

\* A call of handle; a panic ends the server.
handle ==
    /\ reply # "Panic"
    /\ \E req \in Requests, size \in ResponseSizes : handleRequest(req, size)
    /\ UNCHANGED gone

-----------------------------------------------------------------------------
disarm ==
    /\ session' = "Default"
    /\ security' = "Locked"
    /\ tester_present_pending' = None
    /\ quiet' = 0

\* Mutant: the window closes one tick late.
tickLate ==
    /\ is_held
    /\ reply # "Panic"
    /\ IF tester_present_pending = 0 THEN disarm
       ELSE /\ tester_present_pending' = tester_present_pending - 1
            /\ quiet' = quiet + 1
            /\ UNCHANGED <<session, security>>
    /\ UNCHANGED <<store, reply, gone>>

\* Mutant: an elapsed window is forgotten without a re-lock.
tickForgets ==
    /\ is_held
    /\ reply # "Panic"
    /\ tester_present_pending' =
           IF tester_present_pending <= 1 THEN None ELSE tester_present_pending - 1
    /\ quiet' = IF tester_present_pending <= 1 THEN 0 ELSE quiet + 1
    /\ UNCHANGED <<session, security, store, reply, gone>>

\* tick: without a window it does nothing (and is not a step here); the tick
\* that leaves nothing of the window disarms.
tick ==
    /\ is_held
    /\ reply # "Panic"
    /\ IF tester_present_pending <= 1 THEN disarm
       ELSE /\ tester_present_pending' = tester_present_pending - 1
            /\ quiet' = quiet + 1
            /\ UNCHANGED <<session, security>>
    /\ UNCHANGED <<store, reply, gone>>

\* The tester stalls or is unplugged.
stall ==
    /\ ~gone
    /\ gone' = TRUE
    /\ UNCHANGED <<session, security, tester_present_pending, store, reply,
                   quiet>>

Next == (~gone /\ handle) \/ tick \/ stall

Spec == Init /\ [][Next]_uvars

\* The platform keeps calling tick.
FairSpec == Spec /\ WF_uvars(tick)

-----------------------------------------------------------------------------
(* Properties *)

\* Every variable holds a value of its type.
TypeOK ==
    /\ session \in {"Default", "Extended"}
    /\ security \in {"Locked", "Unlocked"}
    /\ tester_present_pending \in 0 .. TESTER_PRESENT_TIMEOUT \cup {None}
    /\ store \in [Writable -> Values]
    /\ quiet \in Nat
    /\ gone \in BOOLEAN

\* The window a TesterPresent opens is exactly TESTER_PRESENT_TIMEOUT ticks
\* long: what is left of it and the ticks gone by always add up, whatever
\* requests, resets and re-elevations happen inside it.
WindowIsExact ==
    is_held => /\ tester_present_pending + quiet = TESTER_PRESENT_TIMEOUT
               /\ quiet < TESTER_PRESENT_TIMEOUT

\* A request that is answered by a negative response or not at all has left
\* session, security, window and data as they were.
RefusedHasNoEffect ==
    [][handle /\ reply' \notin {"positive", "Panic"} =>
         UNCHANGED <<session, security, tester_present_pending, store>>]_uvars

\* A tester that stalls inside a window loses its session and its access,
\* unless a response buffer too short for its last answer, which may still be
\* on its way when the tester stalls, takes the server down before.
HeldTesterIsDisarmed == (gone /\ is_held) ~> (~Elevated \/ reply = "Panic")

\* The doc of TESTER_PRESENT_TIMEOUT: a stalled tester cannot hold an
\* elevated session.
StalledTesterIsDisarmed == gone ~> ~Elevated
=============================================================================
