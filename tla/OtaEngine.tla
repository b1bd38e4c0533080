------------------------------ MODULE OtaEngine ------------------------------
(***************************************************************************)
(* The A/B update engine of core/src/ota.rs over a storage backend that    *)
(* keeps the contract of trait OtaStorage: write_state is atomic, a slot   *)
(* write is not (a power cut or a backend error inside it may leave the    *)
(* slot torn).  The engine itself holds no mutable state: everything it    *)
(* knows is re-read from the journal by each call, so an operation that    *)
(* performs a single write_state is one atomic step, and stage, which      *)
(* performs a write_slot and then a write_state, is three.                 *)
(*                                                                         *)
(* No operation of the engine changes which image executes: recover,       *)
(* promote, commit and rollback write the journal and return.  The jump is *)
(* the caller's (handOver), and between two calls it may or may not come.  *)
(*                                                                         *)
(* Data abstraction: an image is a model value with a size; a slot holds a *)
(* whole image, a torn one or nothing; a signature is the message it was   *)
(* made over (Signed is everything the holder of the key has signed).      *)
(***************************************************************************)
EXTENDS SlotState

CONSTANTS
    Images,           \* payloads that exist
    Factory,          \* the image slot 0 is provisioned with
    Healthy,          \* images that pass their own health test
    Size,             \* payload.len() of an image
    Capacity,         \* slot_capacity() of the backend
    BackendSlots,     \* slot bytes write_slot of the backend accepts
    OTA_MAX_PAYLOAD,
    Signed,           \* signed messages <<slot, payload_len, image>>
    Torn, Empty,      \* contents of a slot that holds no whole image
    Forged,           \* a signature over nothing that was signed
    None,
    Discipline        \* how the caller uses the engine: MayStage, MayCommit

\* Slot bytes a package header may carry; the engine itself never checks
\* the range (UpdatePackage::decode_header does).  2 stands for every byte
\* that names no slot.
SlotBytes == 0 .. 2

Messages == SlotBytes \X Nat \X Images

ASSUME OtaAssumption ==
    /\ Factory \in Images
    /\ Factory \in Healthy
    /\ Healthy \subseteq Images
    /\ Size \in [Images -> Nat \ {0}]
    /\ Capacity \in Nat
    /\ Slots \subseteq BackendSlots /\ BackendSlots \subseteq SlotBytes
    /\ OTA_MAX_PAYLOAD \in Nat
    /\ Signed \subseteq Messages
    /\ None \notin {Torn, Empty}
    /\ {Torn, Empty, Forged, None} \cap Images = {}
    /\ Forged \notin Messages
    /\ None \notin [slot : SlotBytes, image : Images]
    /\ Discipline \in {"none", "inactive", "settled"}

VARIABLES
    journal,          \* the persisted SlotState, see Readable
    slots,            \* the persisted contents of the two slots
    running,          \* the image in execution, None while down or booting
    pc,               \* "down", "idle", or the storage call stage is at
    upd,              \* the package stage is applying
    result            \* what the last engine call returned

vars == <<journal, slots, running, pc, upd, result>>

Contents == Images \cup {Torn, Empty}
Results == {"none", "Ok", "BadPackage", "PayloadTooLarge", "BadSignature",
            "WriteFailed", "NoCandidate", "InvalidState", "Storage"}

Init ==
    /\ journal = ActiveSlot(0)
    /\ slots = [s \in Slots |-> IF s = 0 THEN Factory ELSE Empty]
    /\ running = None
    /\ pc = "down"
    /\ upd = None
    /\ result = "none"

-----------------------------------------------------------------------------
(* A backend persists bytes: a Pending of a slot that does not exist is    *)
(* written like any other, but no later read_state decodes it.             *)
Readable == journal \in SlotStates

(* The caller.  Three ways to use stage: whenever a package arrives; only  *)
(* into the slot active_slot() does not name, which is what the doc of     *)
(* stage describes; or, in addition, only while no update is in flight and *)
(* the caller is the image of the active slot.                             *)
MayStage(slot) ==
    \/ Discipline = "none"
    \/ Readable /\ Discipline = "inactive" /\ slot # active_slot(journal)
    \/ /\ Readable /\ Discipline = "settled"
       /\ journal.kind = "Active"
       /\ slot # active_slot(journal)
       /\ running = slots[active_slot(journal)]

\* Three ways to use commit: at any time; when the caller passes its own
\* health test; or, in addition, only when the caller is the image on trial.
MayCommit ==
    \/ Discipline = "none"
    \/ Discipline = "inactive" /\ running \in Healthy
    \/ /\ Discipline = "settled"
       /\ running \in Healthy
       /\ running = slots[active_slot(journal)]

\* The boot path (running is None) and an image that boots can call the
\* engine; a torn one cannot.
Callable == pc = "idle" /\ running \in Images \cup {None}

-----------------------------------------------------------------------------
\* recover, called by the boot path at startup, or once more by it, by the
\* application or by a supervisor.  It returns the active slot and leaves
\* the jump to its caller.
recover ==
    /\ pc = "down" \/ Callable
    /\ Readable
    /\ journal' = recovered(journal)
    /\ pc' = "idle"
    /\ result' = "Ok"
    /\ UNCHANGED <<slots, running, upd>>

\* Its read_state or write_state failed: the boot path has to try again.
recoverFails ==
    /\ pc = "down"
    /\ result' = "Storage"
    /\ UNCHANGED <<journal, slots, running, pc, upd>>

\* The caller hands control to the slot the journal calls active.  Nothing
\* makes it: it may as well carry on in the image it is.
handOver ==
    /\ pc = "idle"
    /\ Readable
    /\ running' = slots[active_slot(journal)]
    /\ UNCHANGED <<journal, slots, pc, upd, result>>

-----------------------------------------------------------------------------
\* The message the signature must cover: header || payload.
signedData(slot, payload_len, image) == <<slot, payload_len, image>>

\* Mutant: the signature does not cover the slot of the header.
verifyPayloadOnly(data, sig) == sig \in Signed /\ Tail(sig) = Tail(data)

verify(data, sig) == sig = data /\ sig \in Signed

stageVerdict(slot, payload_len, image, sig) ==
    IF Size[image] # payload_len THEN "BadPackage"
    ELSE IF Size[image] > Capacity \/ Size[image] > OTA_MAX_PAYLOAD
    THEN "PayloadTooLarge"
    ELSE IF ~verify(signedData(slot, payload_len, image), sig)
    THEN "BadSignature"
    ELSE "Ok"

\* stage up to its first storage call.
stage(slot, payload_len, image, sig) ==
    /\ Callable
    /\ MayStage(slot)
    /\ \/ /\ stageVerdict(slot, payload_len, image, sig) # "Ok"
          /\ result' = stageVerdict(slot, payload_len, image, sig)
          /\ UNCHANGED <<pc, upd>>
       \/ /\ stageVerdict(slot, payload_len, image, sig) = "Ok"
          /\ pc' = "write_slot"
          /\ upd' = [slot |-> slot, image |-> image]
          /\ UNCHANGED result
    /\ UNCHANGED <<journal, slots, running>>

\* Mutant: the image goes to the slot the package does not name.
otherTarget(u) == 1 - u.slot

\* The slot stage hands to write_slot.
target(u) == u.slot

\* The two slots after a write of contents to any slot byte.
slotsWith(slot, contents) ==
    [s \in Slots |-> IF s = slot THEN contents ELSE slots[s]]

\* Mutant: the backend accepts any slot byte.
stageWriteAnySlot ==
    /\ pc = "write_slot"
    /\ slots' = slotsWith(target(upd), upd.image)
    /\ pc' = "write_state"
    /\ UNCHANGED <<journal, running, upd, result>>

\* The write_slot call of stage.  Not every backend refuses slot 2; what one
\* writes there is none of the two slots.
stageWriteSlot ==
    /\ pc = "write_slot"
    /\ target(upd) \in BackendSlots
    /\ slots' = slotsWith(target(upd), upd.image)
    /\ pc' = "write_state"
    /\ UNCHANGED <<journal, running, upd, result>>

\* What an incomplete slot write may leave behind.
PartialWrite ==
    \/ slots' = slots
    \/ /\ pc = "write_slot"
       /\ target(upd) \in BackendSlots
       /\ slots' = slotsWith(target(upd), Torn)

\* Mutant: stage ignores the error of write_slot.
stageIgnoresWriteError ==
    /\ pc = "write_slot"
    /\ PartialWrite
    /\ pc' = "write_state"
    /\ UNCHANGED <<journal, running, upd, result>>

stageWriteSlotFails ==
    /\ pc = "write_slot"
    /\ PartialWrite
    /\ pc' = "idle"
    /\ upd' = None
    /\ result' = "WriteFailed"
    /\ UNCHANGED <<journal, running>>

\* The write_state call of stage.
stageWriteState ==
    /\ pc = "write_state"
    /\ journal' = Pending(upd.slot)
    /\ pc' = "idle"
    /\ upd' = None
    /\ result' = "Ok"
    /\ UNCHANGED <<slots, running>>

stageWriteStateFails ==
    /\ pc = "write_state"
    /\ pc' = "idle"
    /\ upd' = None
    /\ result' = "Storage"
    /\ UNCHANGED <<journal, slots, running>>

-----------------------------------------------------------------------------
\* promote: the image it returns need not be the one that goes on.
promote ==
    /\ Callable
    /\ Readable /\ journal.kind = "Pending"
    /\ journal' = promoted(journal)
    /\ result' = "Ok"
    /\ UNCHANGED <<slots, running, pc, upd>>

\* commit confirms the image under test.
commit ==
    /\ Callable
    /\ Readable /\ journal.kind = "Testing"
    /\ MayCommit
    /\ journal' = committed(journal)
    /\ result' = "Ok"
    /\ UNCHANGED <<slots, running, pc, upd>>

\* rollback (the value it returns is the slot it abandoned).
rollback ==
    /\ Callable
    /\ Readable /\ journal.kind = "Testing"
    /\ journal' = rolledback(journal)
    /\ result' = "Ok"
    /\ UNCHANGED <<slots, running, pc, upd>>

\* The calls above made in a state they refuse, or with a failing backend.
callRefused ==
    /\ Callable
    /\ \/ Readable /\ journal.kind # "Pending" /\ result' = "NoCandidate"
       \/ Readable /\ journal.kind # "Testing" /\ result' = "InvalidState"
       \/ result' = "Storage"
    /\ UNCHANGED <<journal, slots, running, pc, upd>>

-----------------------------------------------------------------------------
\* A power cut or reset at any point, inside a slot write included.
crash ==
    /\ pc # "down"
    /\ PartialWrite
    /\ pc' = "down"
    /\ running' = None
    /\ upd' = None
    /\ result' = "none"
    /\ UNCHANGED journal

stageAny ==
    \E slot \in SlotBytes, image \in Images, sig \in Signed \cup {Forged} :
        \E payload_len \in {Size[image], Size[image] + 1} :
            stage(slot, payload_len, image, sig)

Next ==
    \/ recover \/ recoverFails \/ handOver
    \/ stageAny
    \/ stageWriteSlot \/ stageWriteSlotFails
    \/ stageWriteState \/ stageWriteStateFails
    \/ promote \/ commit \/ rollback \/ callRefused
    \/ crash

Spec == Init /\ [][Next]_vars

\* The boot path: recover, then the jump.
boot     == pc = "down" /\ recover
bootJump == running = None /\ handOver

\* An image that does not pass its health test is rolled back or reset.
failedTrialEnds == running \notin Healthy \cup {None} /\ (rollback \/ crash)

\* The boot path runs on every start and the journal write in it does not
\* fail for ever; power is not lost before the jump of every single boot; a
\* failed trial does not hang for ever.
FairSpec ==
    Spec /\ WF_vars(boot) /\ SF_vars(bootJump) /\ WF_vars(failedTrialEnds)

-----------------------------------------------------------------------------
(* Properties *)

\* Every variable holds a value of its type.
TypeOK ==
    /\ journal \in SlotStates \cup {Pending(s) : s \in BackendSlots}
    /\ slots \in [Slots -> Contents]
    /\ running \in Contents \cup {None}
    /\ pc \in {"down", "idle", "write_slot", "write_state"}
    /\ upd \in [slot : SlotBytes, image : Images] \cup {None}
    /\ result \in Results

\* "Cannot brick the vehicle": whatever was interrupted, the journal can be
\* read and the slot that repeated recover calls end in holds a whole image.
Recoverable == Readable /\ slots[Lifeline(journal)] \in Images

\* stage writes the image before it records Pending, so no caller that jumps
\* to the active slot, after whatever calls, enters a torn or empty one.
NeverBootsTorn == running \in Images \cup {None}

\* The signature covers the header: a whole image in a slot was signed for
\* that very slot, or is the factory image, whoever calls stage and whenever.
ImagesAreSigned ==
    \A s \in Slots :
        slots[s] \in Images =>
            \/ <<s, Size[slots[s]], slots[s]>> \in Signed
            \/ s = 0 /\ slots[s] = Factory

\* An image becomes the one every recovery returns to only after it executed
\* and passed its own health test: commit "confirms a Testing image is
\* healthy", and a trial that fails "rolls back to the previous active slot".
ConfirmedIsHealthy == Readable => slots[Lifeline(journal)] \in Healthy

\* Crashes, refused calls and backend errors notwithstanding, the ECU keeps
\* coming back to an image that passes its health test.
KeepsRunningHealthy == []<>(running \in Healthy)

\* The doc of recover: "idempotent and safe to call at every startup".  Two
\* calls in a row leave the journal as one call does.
RecoverIsIdempotent == recovered(recovered(journal)) = recovered(journal)

\* The engine implements the update contract: the confirmed image is the one
\* at the end of every recovery, the trial is the image on the other slot.
Contract == INSTANCE UpdateContract WITH
    confirmed <- slots[Lifeline(journal)],
    trial     <- IF journal.kind = "Active" THEN None
                 ELSE slots[1 - Lifeline(journal)],
    powered   <- pc # "down",
    phase     <- IF journal.kind = "Active" THEN "none"
                 ELSE IF journal.kind = "Pending" THEN "offered"
                 ELSE "trying",
    executing <- running

\* Every step of the engine is a step of the update contract or a stutter.
ImplementsContract == Contract!Spec
=============================================================================
