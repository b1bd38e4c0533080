-------------------------- MODULE ZephyrOtaStorage --------------------------
(***************************************************************************)
(* The update engine over the storage of zephyr/src/ota_storage.rs, in its *)
(* two builds: "flash" (feature flash-ota) reaches the image areas and the *)
(* two-byte state partition through the C functions of zephyr/src/ffi.rs,  *)
(* each of which may fail; "ram" keeps slots and state in the struct and   *)
(* forgets both when the ECU restarts.                                     *)
(*                                                                         *)
(* As in AglOtaStorage only packages that stage accepts appear, so the     *)
(* bound checks of write_slot (offset 0, length at most slot_capacity)     *)
(* pass.  tpt_state_write is external and taken to be atomic, which is     *)
(* what trait OtaStorage asks of it.                                       *)
(***************************************************************************)
EXTENDS OtaCaller

CONSTANTS Torn, Empty       \* contents of a slot that holds no whole image

\* What an instance must give: Torn and Empty are no images, None is neither
\* a slot's contents nor a package, and slot bytes are those of OtaEngine.
ASSUME ZephyrAssumption ==
    /\ Factory \in Images
    /\ None \notin {Torn, Empty}
    /\ {Torn, Empty, None} \cap Images = {}
    /\ PackageSlots \subseteq 0 .. 2
    /\ None \notin [slot : PackageSlots, image : Images]

VARIABLES
    build,        \* "flash" or "ram": cfg(feature = "flash-ota")
    state,        \* flash: the bytes of the state partition; ram: a SlotState
    slots,
    executing,    \* flash: the image in execution, None while down or booting
    pc,           \* "down", "idle", or the call stage is at
    upd,          \* the package stage is applying
    result

zvars == <<build, state, slots, executing, pc, upd, result>>

\* The state partition of a device nobody has provisioned: erased flash.
Erased == <<255, 255>>

\* ZephyrOtaStorage::new of the ram build: zeroed slots, slot 0 active.
newSlots == [s \in Slots |-> Empty]
newState == ActiveSlot(0)

zephyrInit ==
    /\ \/ /\ build = "flash"
          /\ slots = [s \in Slots |-> IF s = 0 THEN Factory ELSE Empty]
          /\ state \in {encode(ActiveSlot(0)), Erased}
       \/ /\ build = "ram"
          /\ slots = newSlots
          /\ state = newState
    /\ executing = None
    /\ pc = "down"
    /\ upd = None
    /\ result = "none"

-----------------------------------------------------------------------------
zephyrState == IF build = "flash" THEN decode(state, None) ELSE state

written(st) == IF build = "flash" THEN encode(st) ELSE st

\* The ram build is linked into the firmware and never executes its slots.
Callable == pc = "idle" /\ (build = "flash" => executing \in Images \cup {None})

\* At boot, or once more by whoever runs then.
zephyrRecover ==
    /\ pc = "down" \/ Callable
    /\ zephyrState # None
    /\ state' = written(recovered(zephyrState))
    /\ pc' = "idle"
    /\ result' = "Ok"
    /\ UNCHANGED <<build, slots, executing, upd>>

\* The jump to the active slot, if and when the caller makes it.
zephyrHandOver ==
    /\ build = "flash"
    /\ pc = "idle"
    /\ executing' = slots[active_slot(zephyrState)]
    /\ UNCHANGED <<build, state, slots, pc, upd, result>>

\* The caller is the image in the active slot.
RunsActive == build = "flash" => executing = slots[active_slot(zephyrState)]

\* A promote, commit or rollback that reads a state of the kind it wants and
\* writes its successor.
updateState(kind, successor(_)) ==
    /\ Callable
    /\ zephyrState.kind = kind
    /\ state' = written(successor(zephyrState))
    /\ result' = "Ok"
    /\ UNCHANGED <<build, slots, executing, pc, upd>>

zephyrPromote  == updateState("Pending", promoted)
zephyrCommit   == updateState("Testing", committed) /\ RunsActive
zephyrRollback == updateState("Testing", rolledback)

\* tpt_state_read or tpt_state_write returns an error code, or the bytes read
\* are no state: recover, promote, commit and rollback change nothing.
stateCallFails ==
    /\ build = "flash"
    /\ pc = "down" \/ Callable
    /\ result' = "Storage"
    /\ UNCHANGED <<build, state, slots, executing, pc, upd>>

-----------------------------------------------------------------------------
\* stage, past its checks, by the caller that stages only while no update is
\* in flight, into the other slot, and as the image of the active one.
zephyrStage(slot, image) ==
    /\ Callable
    /\ zephyrState.kind = "Active"
    /\ RunsActive
    /\ slot # active_slot(zephyrState)
    /\ pc' = "write_slot"
    /\ upd' = [slot |-> slot, image |-> image]
    /\ UNCHANGED <<build, state, slots, executing, result>>

\* How write_slot ends when it does not succeed; stage maps every error of it
\* to WriteFailed.
WriteFailed ==
    /\ pc' = "idle"
    /\ upd' = None
    /\ result' = "WriteFailed"
    /\ UNCHANGED <<build, state, executing>>

\* with_flash_area: only slots 0 and 1 have an area.
flashOpen ==
    /\ build = "flash"
    /\ pc = "write_slot"
    /\ upd.slot \in Slots
    /\ pc' = "flash_write"
    /\ UNCHANGED <<build, state, slots, executing, upd, result>>

flashOpenFails ==
    /\ build = "flash"
    /\ pc = "write_slot"
    /\ WriteFailed
    /\ UNCHANGED slots

\* tpt_flash_write returns 0; the area is closed, and the result of closing
\* it ignored.
flashWrite ==
    /\ pc = "flash_write"
    /\ slots' = [slots EXCEPT ![upd.slot] = upd.image]
    /\ pc' = "write_state"
    /\ UNCHANGED <<build, state, executing, upd, result>>

\* What an interrupted tpt_flash_write leaves.
PartialFlash ==
    \/ slots' = slots
    \/ pc = "flash_write" /\ slots' = [slots EXCEPT ![upd.slot] = Torn]

\* Mutant: the closure's return code is not looked at.
flashWriteUnchecked ==
    /\ pc = "flash_write"
    /\ PartialFlash
    /\ pc' = "write_state"
    /\ UNCHANGED <<build, state, executing, upd, result>>

\* tpt_flash_write returns an error; the area is closed all the same.
flashWriteFails ==
    /\ pc = "flash_write"
    /\ PartialFlash
    /\ WriteFailed

\* Mutant: the ram build accepts any slot byte.
ramWriteAny ==
    /\ build = "ram"
    /\ pc = "write_slot"
    /\ slots' = [slots EXCEPT ![upd.slot] = upd.image]
    /\ pc' = "write_state"
    /\ UNCHANGED <<build, state, executing, upd, result>>

\* slots.get_mut(slot) and copy_from_slice.
ramWrite ==
    /\ build = "ram"
    /\ pc = "write_slot"
    /\ upd.slot \in Slots
    /\ slots' = [slots EXCEPT ![upd.slot] = upd.image]
    /\ pc' = "write_state"
    /\ UNCHANGED <<build, state, executing, upd, result>>

ramNoSlot ==
    /\ build = "ram"
    /\ pc = "write_slot"
    /\ upd.slot \notin Slots
    /\ WriteFailed
    /\ UNCHANGED slots

\* The write_state call of stage.
stageWriteState ==
    /\ pc = "write_state"
    /\ state' = written(Pending(upd.slot))
    /\ pc' = "idle"
    /\ upd' = None
    /\ result' = "Ok"
    /\ UNCHANGED <<build, slots, executing>>

stageWriteStateFails ==
    /\ build = "flash"
    /\ pc = "write_state"
    /\ pc' = "idle"
    /\ upd' = None
    /\ result' = "Storage"
    /\ UNCHANGED <<build, state, slots, executing>>

-----------------------------------------------------------------------------
\* Power loss: flash keeps what it has, ram starts from new().
powerLoss ==
    /\ pc # "down"
    /\ IF build = "flash"
       THEN PartialFlash /\ UNCHANGED state
       ELSE slots' = newSlots /\ state' = newState
    /\ executing' = None
    /\ pc' = "down"
    /\ upd' = None
    /\ result' = "none"
    /\ UNCHANGED build

zephyrNext ==
    \/ zephyrRecover \/ zephyrHandOver
    \/ zephyrPromote \/ zephyrCommit \/ zephyrRollback \/ stateCallFails
    \/ \E slot \in PackageSlots, image \in Images : zephyrStage(slot, image)
    \/ flashOpen \/ flashOpenFails \/ flashWrite \/ flashWriteFails
    \/ ramWrite \/ ramNoSlot
    \/ stageWriteState \/ stageWriteStateFails
    \/ powerLoss

zephyrSpec == zephyrInit /\ [][zephyrNext]_zvars

-----------------------------------------------------------------------------
(* Properties *)

\* In both builds, whatever write or C call failed before: when the journal
\* offers or tries a candidate, that slot exists and holds the whole image.
CandidateIsWhole ==
    zephyrState # None /\ zephyrState.kind # "Active" =>
        LET c == IF zephyrState.kind = "Pending" THEN zephyrState.candidate
                                                ELSE zephyrState.active
        IN  c \in Slots /\ slots[c] \in Images

\* The engine the flash build gives is the engine of OtaEngine over its
\* atomic storage.  An erased state partition reads as an engine that never
\* starts, and the ram build (volatile by design) is left out.
Provisioned == build = "flash" /\ state # Erased
Engine == INSTANCE OtaEngine WITH
    Healthy <- Images, Size <- [i \in Images |-> 1],
    Capacity <- 1, OTA_MAX_PAYLOAD <- 1, BackendSlots <- Slots,
    Signed <- PackageSlots \X {1} \X Images,
    Forged <- None, Discipline <- "settled",
    journal <- IF Provisioned THEN decode(state, None) ELSE ActiveSlot(0),
    slots   <- IF Provisioned THEN slots
               ELSE [s \in Slots |-> IF s = 0 THEN Factory ELSE Empty],
    running <- executing,
    pc      <- IF ~Provisioned THEN "down"
               ELSE IF pc = "flash_write" THEN "write_slot" ELSE pc,
    upd     <- IF Provisioned THEN upd ELSE None,
    result  <- IF Provisioned THEN result ELSE "none"

\* Every step of the flash build, every failing C call and every power cut
\* included, is a step of the engine over atomic storage or a stutter: a
\* failed flash write never becomes a recorded candidate.
ImplementsEngine == Engine!Spec
=============================================================================
