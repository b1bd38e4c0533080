--------------------------- MODULE OtaEngine_proofs ---------------------------
(***************************************************************************)
(* Theorems about OtaEngine, for every set of images, every assignment of  *)
(* signatures and sizes, every capacity, and any backend unless said.      *)
(***************************************************************************)
EXTENDS OtaEngine, SlotState_proofs, TLAPS

\* Only slot bytes that the backend accepts are ever recorded.
TypeInv ==
    /\ TypeOK
    /\ pc \in {"write_slot", "write_state"} => upd # None
    /\ pc = "write_state" => upd.slot \in BackendSlots

\* Every action preserves the type invariant and the fact that a package in
\* flight has passed write_slot before its slot is used as a journal slot.
LEMMA TypeInvStep == TypeInv /\ [Next]_vars => TypeInv'
  <1>. SUFFICES ASSUME TypeInv, [Next]_vars PROVE TypeInv'
    OBVIOUS
  <1>. USE OtaAssumption DEF TypeInv, TypeOK, Contents, Results
  <1>1. CASE recover
    BY <1>1, RecoveredType DEF recover, Readable, Callable
  <1>2. CASE recoverFails
    BY <1>2 DEF recoverFails
  <1>3. CASE stageAny
    BY <1>3 DEF stageAny, stage, stageVerdict
  <1>4. CASE stageWriteSlot
    BY <1>4 DEF stageWriteSlot, target, slotsWith
  <1>5. CASE stageWriteSlotFails
    BY <1>5 DEF stageWriteSlotFails, PartialWrite, target, slotsWith
  <1>6. CASE stageWriteState
    BY <1>6 DEF stageWriteState
  <1>7. CASE stageWriteStateFails
    BY <1>7 DEF stageWriteStateFails
  <1>8. CASE promote
    BY <1>8, JournalCases DEF promote, promoted, Readable, SlotStates, Pending,
       ActiveSlot, Testing, Slots
  <1>9. CASE commit
    BY <1>9, JournalCases DEF commit, committed, Readable, SlotStates, Pending,
       ActiveSlot, Testing, Slots
  <1>10. CASE rollback
    BY <1>10, JournalCases DEF rollback, rolledback, Readable, SlotStates, Pending,
       ActiveSlot, Testing, Slots
  <1>11. CASE callRefused
    BY <1>11 DEF callRefused
  <1>12. CASE crash
    BY <1>12 DEF crash, PartialWrite, target, slotsWith
  <1>13. CASE handOver
    BY <1>13, RecoveredType DEF handOver, Readable
  <1>14. CASE UNCHANGED vars
    BY <1>14 DEF vars
  <1>. QED
    BY <1>1, <1>2, <1>3, <1>4, <1>5, <1>6, <1>7, <1>8, <1>9, <1>10, <1>11, <1>12,
       <1>13, <1>14 DEF Next

\* Type correctness: whatever packages arrive, in whatever order calls,
\* crashes and backend errors occur.
THEOREM TypeCorrect == Spec => []TypeOK
  <1>1. Init => TypeInv
    BY OtaAssumption DEF Init, TypeInv, TypeOK, Contents, Results, SlotStates, Slots
  <1>2. TypeInv => TypeOK
    BY DEF TypeInv
  <1>. QED
    BY <1>1, <1>2, TypeInvStep, PTL DEF Spec

-----------------------------------------------------------------------------
(* Only signed images, for any caller: the package in flight between the   *)
(* signature check and the slot write is signed for the slot it names.     *)
InFlightSigned ==
    pc \in {"write_slot", "write_state"} =>
        <<upd.slot, Size[upd.image], upd.image>> \in Signed

SignedInv == TypeInv /\ InFlightSigned /\ ImagesAreSigned

\* Every action keeps slots, and the package in flight, signed.
LEMMA SignedInvStep == SignedInv /\ [Next]_vars => SignedInv'
  <1>. SUFFICES ASSUME SignedInv, [Next]_vars
               PROVE  InFlightSigned' /\ ImagesAreSigned'
    BY TypeInvStep DEF SignedInv
  <1>0. TypeInv /\ TypeInv' /\ InFlightSigned /\ ImagesAreSigned
    BY TypeInvStep DEF SignedInv
  <1>. USE OtaAssumption DEF InFlightSigned, ImagesAreSigned
  <1>1. CASE recover \/ recoverFails \/ handOver \/ promote \/ commit \/ rollback
             \/ callRefused \/ stageWriteState \/ stageWriteStateFails
             \/ UNCHANGED vars
    BY <1>0, <1>1 DEF recover, recoverFails, handOver, promote, commit, rollback,
         callRefused, stageWriteState, stageWriteStateFails, vars, Callable
  <1>2. CASE stageAny
    <2>0. PICK slot \in SlotBytes, image \in Images, sig \in Signed \cup {Forged} :
             \E payload_len \in {Size[image], Size[image] + 1} :
                 stage(slot, payload_len, image, sig)
      BY <1>2 DEF stageAny
    <2>1. PICK payload_len \in {Size[image], Size[image] + 1} :
                 stage(slot, payload_len, image, sig)
      BY <2>0
    <2>2. CASE stageVerdict(slot, payload_len, image, sig) # "Ok"
      BY <1>0, <2>1, <2>2 DEF stage, Callable
    <2>3. CASE stageVerdict(slot, payload_len, image, sig) = "Ok"
      <3>1. /\ upd' = [slot |-> slot, image |-> image]
            /\ slots' = slots
        BY <2>1, <2>3 DEF stage
      <3>2. <<slot, Size[image], image>> \in Signed
        BY <2>3 DEF stageVerdict, verify, signedData
      <3>. QED
        BY <1>0, <3>1, <3>2
    <2>. QED
      BY <2>2, <2>3
  <1>3. CASE stageWriteSlot
    BY <1>0, <1>3 DEF stageWriteSlot, target, slotsWith, TypeInv, TypeOK
  <1>4. CASE stageWriteSlotFails \/ crash
    BY <1>0, <1>4 DEF stageWriteSlotFails, crash, PartialWrite, target, slotsWith,
         TypeInv, TypeOK
  <1>. QED
    BY <1>1, <1>2, <1>3, <1>4 DEF Next

\* stage verifies header and payload before it writes, so a slot never holds
\* a whole image that was not signed for that slot, however calls, crashes
\* and errors interleave.
THEOREM SignedOnly == Spec => []ImagesAreSigned
  <1>1. Init => SignedInv
    <2>1. Init => TypeInv
      BY OtaAssumption DEF Init, TypeInv, TypeOK, Contents, Results, SlotStates, Slots
    <2>. QED
      BY <2>1, OtaAssumption DEF Init, SignedInv, InFlightSigned, ImagesAreSigned, Slots
  <1>2. SignedInv => ImagesAreSigned
    BY DEF SignedInv
  <1>. QED
    BY <1>1, <1>2, SignedInvStep, PTL DEF Spec

-----------------------------------------------------------------------------
(* The disciplined caller, over a backend that refuses slots that do not   *)
(* exist.  Recoverable is not inductive by itself: it needs that stage     *)
(* writes the slot recovery does not end in, that the journal records a    *)
(* candidate only once its slot is whole, and that a trial's fallback is   *)
(* the other slot.  Which image executes is the caller's affair; all that  *)
(* holds of it is that it is whole.                                        *)
StagesOtherSlot ==
    pc \in {"write_slot", "write_state"} =>
        journal.kind = "Active" /\ upd.slot # journal.slot

RecordsWhole ==
    /\ pc = "write_state" => slots[upd.slot] = upd.image
    /\ journal.kind = "Pending" => slots[journal.candidate] \in Images
    /\ journal.kind = "Testing" => /\ slots[journal.active] \in Images
                                   /\ journal.fallback = 1 - journal.active

RunsWhole ==
    /\ pc = "down" => running = None
    /\ NeverBootsTorn

SettledInv ==
    TypeInv /\ Recoverable /\ StagesOtherSlot /\ RecordsWhole /\ RunsWhole

SettledUse == Discipline = "settled" /\ BackendSlots = Slots

\* The factory state satisfies the inductive invariant of the settled caller.
LEMMA SettledInit == Init => SettledInv
  <1>. SUFFICES ASSUME Init PROVE SettledInv
    OBVIOUS
  <1>1. TypeInv
    BY OtaAssumption DEF Init, TypeInv, TypeOK, Contents, Results, SlotStates, Slots
  <1>2. Readable
    BY DEF Init, Readable, SlotStates, Slots
  <1>. QED
    BY <1>1, <1>2, OtaAssumption DEF Init, SettledInv, Recoverable, StagesOtherSlot,
         RecordsWhole, RunsWhole, NeverBootsTorn, Lifeline, active_slot, ActiveSlot, Slots

\* Every action of an engine whose caller stages only when no update is in
\* flight preserves that invariant.
LEMMA SettledStep ==
    ASSUME SettledUse
    PROVE  SettledInv /\ [Next]_vars => SettledInv'
  <1>. SUFFICES ASSUME SettledInv, [Next]_vars
               PROVE  Recoverable' /\ StagesOtherSlot' /\ RecordsWhole' /\ RunsWhole'
    BY TypeInvStep DEF SettledInv
  <1>0. TypeInv /\ TypeInv'
    BY TypeInvStep DEF SettledInv
  <1>a. /\ journal \in SlotStates
        /\ slots \in [Slots -> Contents]
    BY <1>0 DEF TypeInv, TypeOK, SettledInv, Recoverable, Readable
  <1>b. Readable'
    BY <1>0 DEF TypeInv, TypeOK, Readable, SettledUse, SlotStates
  <1>. USE <1>b, OtaAssumption DEF SettledUse, SettledInv, Recoverable, StagesOtherSlot,
             RecordsWhole, RunsWhole, NeverBootsTorn, Lifeline, active_slot, ActiveSlot,
             Pending, Testing, Slots
  <1>1. CASE recover
    BY <1>1, <1>a, JournalCases DEF recover, recovered, Callable
  <1>2. CASE recoverFails \/ callRefused \/ stageWriteStateFails \/ UNCHANGED vars
    BY <1>2 DEF recoverFails, callRefused, stageWriteStateFails, vars, Callable
  <1>3. CASE stageAny
    BY <1>3, <1>a, JournalCases DEF stageAny, stage, Callable, MayStage
  <1>4. CASE stageWriteSlot
    BY <1>4, <1>a, JournalCases, <1>0 DEF stageWriteSlot, target, slotsWith, TypeInv, TypeOK
  <1>5. CASE stageWriteSlotFails
    BY <1>5, <1>a, JournalCases DEF stageWriteSlotFails, PartialWrite, target, slotsWith
  <1>6. CASE stageWriteState
    BY <1>6, <1>a, <1>0, JournalCases DEF stageWriteState, TypeInv, TypeOK
  <1>7. CASE promote
    BY <1>7, <1>a, JournalCases DEF promote, promoted, Callable
  <1>8. CASE commit
    BY <1>8, <1>a, JournalCases DEF commit, committed, Callable
  <1>9. CASE rollback
    BY <1>9, <1>a, JournalCases DEF rollback, rolledback, Callable
  <1>10. CASE crash
    BY <1>10, <1>a, JournalCases DEF crash, PartialWrite, target, slotsWith
  <1>11. CASE handOver
    BY <1>11, <1>a, JournalCases DEF handOver
  <1>. QED
    BY <1>1, <1>2, <1>3, <1>4, <1>5, <1>6, <1>7, <1>8, <1>9, <1>10, <1>11 DEF Next

\* A caller that stages only while no update is in flight, and only into the
\* other slot, cannot brick the ECU: at every moment, inside a slot write and
\* after any sequence of crashes and errors, the slot that recover ends in
\* holds a whole image.  The backend has to refuse slots that do not exist.
THEOREM NeverBricked ==
    ASSUME SettledUse
    PROVE  Spec => []Recoverable
  <1>1. SettledInv => Recoverable
    BY DEF SettledInv
  <1>. QED
    BY <1>1, SettledInit, SettledStep, PTL DEF Spec

\* Under the same discipline a caller that jumps to the active slot, after
\* whatever calls, never enters a slot whose image is torn or missing.
THEOREM BootsWhole ==
    ASSUME SettledUse
    PROVE  Spec => []NeverBootsTorn
  <1>1. SettledInv => NeverBootsTorn
    BY DEF SettledInv, RunsWhole
  <1>. QED
    BY <1>1, SettledInit, SettledStep, PTL DEF Spec

\* The image every recovery returns to has executed and passed its health
\* test, however calls, jumps, crashes and errors interleave: in particular
\* a trial that never came to execute is never confirmed.
THEOREM ConfirmedHealthy ==
    ASSUME SettledUse
    PROVE  Spec => []ConfirmedIsHealthy
  <1>. DEFINE Inv == SettledInv /\ ConfirmedIsHealthy
  <1>1. Init => Inv
    BY SettledInit, OtaAssumption DEF Init, ConfirmedIsHealthy, Lifeline, ActiveSlot, Slots
  <1>2. Inv /\ [Next]_vars => Inv'
    <2>. SUFFICES ASSUME SettledInv, SettledInv', ConfirmedIsHealthy, [Next]_vars
                 PROVE  ConfirmedIsHealthy'
      BY SettledStep
    <2>a. /\ journal \in SlotStates
          /\ slots \in [Slots -> Contents]
      BY DEF SettledInv, TypeInv, TypeOK, Recoverable, Readable
    <2>. USE <2>a, JournalCases DEF SettledUse, ConfirmedIsHealthy, Readable, Lifeline,
             ActiveSlot, Pending, Testing, Slots
    <2>1. CASE recover
      BY <2>1 DEF recover, recovered
    <2>2. CASE recoverFails \/ callRefused \/ stageWriteStateFails \/ handOver \/ stageAny
               \/ UNCHANGED vars
      BY <2>2 DEF recoverFails, callRefused, stageWriteStateFails, handOver, stageAny, stage,
           vars
    <2>3. CASE stageWriteSlot
      BY <2>3 DEF stageWriteSlot, target, slotsWith, SettledInv, StagesOtherSlot
    <2>4. CASE stageWriteSlotFails \/ crash
      BY <2>4 DEF stageWriteSlotFails, crash, PartialWrite, target, slotsWith, SettledInv,
           StagesOtherSlot
    <2>5. CASE stageWriteState
      BY <2>5 DEF stageWriteState, SettledInv, StagesOtherSlot, TypeInv, TypeOK
    <2>6. CASE promote
      BY <2>6 DEF promote, promoted
    <2>7. CASE commit
      BY <2>7 DEF commit, committed, MayCommit, active_slot
    <2>8. CASE rollback
      BY <2>8 DEF rollback, rolledback
    <2>. QED
      BY <2>1, <2>2, <2>3, <2>4, <2>5, <2>6, <2>7, <2>8 DEF Next
  <1>. QED
    BY <1>1, <1>2, PTL DEF Spec

-----------------------------------------------------------------------------
\* The engine under the disciplined caller implements the update contract,
\* whether and whenever that caller jumps: the image recovery ends in changes
\* only by the commit of an image that is itself executing, and an
\* uncommitted trial is over with the next boot.
THEOREM Refinement ==
    ASSUME SettledUse
    PROVE  Spec => ImplementsContract
  <1>. USE OtaAssumption
  <1>1. Init => Contract!Init
    BY DEF Init, Contract!Init, Lifeline, ActiveSlot, Slots
  <1>2. SettledInv /\ SettledInv' /\ [Next]_vars => [Contract!Next]_(Contract!cvars)
    <2>. SUFFICES ASSUME SettledInv, SettledInv', [Next]_vars
                 PROVE  [Contract!Next]_(Contract!cvars)
      OBVIOUS
    <2>a. /\ journal \in SlotStates
          /\ slots \in [Slots -> Contents]
          /\ pc \in {"down", "idle", "write_slot", "write_state"}
      BY DEF SettledInv, TypeInv, TypeOK, Recoverable, Readable
    <2>. USE DEF SettledUse, Lifeline, ActiveSlot, Pending, Testing, Slots
    <2>1. CASE recover
      <3>1. CASE journal.kind = "Active"
        BY <2>1, <3>1, <2>a, JournalCases
           DEF recover, recovered, Callable, Contract!Next, Contract!Boot, Contract!cvars
      <3>2. CASE journal.kind = "Pending"
        BY <2>1, <3>2, <2>a, JournalCases
           DEF recover, recovered, Callable, Contract!Next, Contract!Boot, Contract!Try,
               Contract!BeginTrial
      <3>3. CASE journal.kind = "Testing"
        BY <2>1, <3>3, <2>a, JournalCases
           DEF recover, recovered, Callable, Contract!Next, Contract!Boot, Contract!Abandon,
               Contract!EndTrial
      <3>. QED
        BY <3>1, <3>2, <3>3, <2>a, JournalCases
    <2>2. CASE recoverFails \/ callRefused \/ stageAny \/ stageWriteStateFails
               \/ UNCHANGED vars
      BY <2>2 DEF recoverFails, callRefused, stageAny, stage, stageWriteStateFails,
           Callable, vars, Contract!cvars
    <2>3. CASE stageWriteSlot
      BY <2>3, <2>a, JournalCases DEF stageWriteSlot, target, slotsWith, SettledInv,
           StagesOtherSlot, Contract!cvars
    <2>4. CASE stageWriteSlotFails
      BY <2>4, <2>a, JournalCases DEF stageWriteSlotFails, PartialWrite, target, slotsWith,
           SettledInv, StagesOtherSlot, Contract!cvars
    <2>5. CASE stageWriteState
      BY <2>5, <2>a, JournalCases DEF stageWriteState, SettledInv, TypeInv, TypeOK,
           StagesOtherSlot, RecordsWhole, Contract!Next, Contract!Offer
    <2>6. CASE promote
      BY <2>6, <2>a, JournalCases DEF promote, promoted, Callable, Contract!Next,
           Contract!Try, Contract!BeginTrial
    <2>7. CASE commit
      BY <2>7, <2>a, JournalCases DEF commit, committed, MayCommit, Callable, SettledInv,
           RecordsWhole, active_slot, Contract!Next, Contract!Confirm
    <2>8. CASE rollback
      BY <2>8, <2>a, JournalCases DEF rollback, rolledback, Callable, Contract!Next,
           Contract!Abandon, Contract!EndTrial
    <2>9. CASE crash
      BY <2>9, <2>a, JournalCases DEF crash, PartialWrite, target, slotsWith, SettledInv,
           StagesOtherSlot, Contract!Next, Contract!PowerOff
    <2>10. CASE handOver
      BY <2>10, <2>a, JournalCases DEF handOver, active_slot, SettledInv, RecordsWhole,
           Contract!Next, Contract!Enter
    <2>. QED
      BY <2>1, <2>2, <2>3, <2>4, <2>5, <2>6, <2>7, <2>8, <2>9, <2>10 DEF Next
  <1>. QED
    BY <1>1, <1>2, SettledInit, SettledStep, PTL DEF Spec, ImplementsContract, Contract!Spec
=============================================================================
