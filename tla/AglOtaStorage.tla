--------------------------- MODULE AglOtaStorage ---------------------------
(***************************************************************************)
(* The update engine over the file-backed storage of agl/src/              *)
(* ota_storage.rs.  A state file and one file per slot are each replaced   *)
(* by File::create, which truncates, followed by write_all; neither pair   *)
(* is atomic, and a write_slot first reads the whole of the file it is     *)
(* about to replace.  An engine call is the list of file writes it makes,  *)
(* executed one system call at a time, so that a reset or an I/O error can *)
(* fall between any two of them.                                           *)
(*                                                                         *)
(* Package checks and health tests are those of OtaEngine and are not      *)
(* repeated: only packages that stage accepts appear here, and they are    *)
(* staged by the disciplined caller (no update in flight, other slot).  As *)
(* there, a call only writes; the jump is the caller's.                    *)
(***************************************************************************)
EXTENDS OtaCaller

CONSTANTS Absent,       \* no such file
          Short         \* a slot file shorter than slot_capacity

ASSUME AglAssumption ==
    /\ Factory \in Images
    /\ {None, Absent, Short} \cap Images = {}
    /\ None # Absent /\ None # Short /\ Absent # Short
    /\ None \notin Nat /\ Absent \notin Seq(Nat)
    /\ PackageSlots \subseteq Nat
    /\ Slots \subseteq PackageSlots

VARIABLES
    stateFile,    \* bytes of state.bin, or Absent
    slotFile,     \* contents of slot<n>.img
    up,           \* the boot path's recover has returned Ok
    running,      \* the image in execution, None while down or booting
    writes,       \* the file writes the current call still has to make
    created       \* File::create has truncated the file of Head(writes)

avars == <<stateFile, slotFile, up, running, writes, created>>

\* AglOtaStorage::read_state: no file reads as the factory state, a short or
\* unrecognised one is an error (None).
read_state ==
    CASE stateFile = Absent -> ActiveSlot(0)
      [] stateFile # Absent /\ Len(stateFile) < 2 -> None
      [] OTHER -> decode(stateFile, None)

Readable == read_state # None

\* Mutant: the other slot's file is replaced.
SlotWriteOther(s, image) ==
    [slot |-> IF s = 0 THEN 1 ELSE 0, data |-> image]

\* A file write: of an image to a slot, or of an encoded state (slot None).
SlotWrite(s, image) == [slot |-> s, data |-> image]
StateWrite(st)      == [slot |-> None, data |-> encode(st)]

Init ==
    /\ stateFile = Absent
    /\ slotFile = [s \in PackageSlots |-> IF s = 0 THEN Factory ELSE Absent]
    /\ up = FALSE
    /\ running = None
    /\ writes = <<>>
    /\ created = FALSE

-----------------------------------------------------------------------------
Idle == up /\ writes = <<>>

\* recover, on boot or once more: nothing runs before the write_state of the
\* boot path's call is complete.
recover ==
    /\ writes = <<>>
    /\ Readable
    /\ writes' = <<StateWrite(recovered(read_state))>>
    /\ UNCHANGED <<stateFile, slotFile, up, running, created>>

\* Its read_state fails: the boot path gets an error and no slot.
recoverFails ==
    /\ ~up
    /\ writes = <<>>
    /\ ~Readable
    /\ UNCHANGED avars

\* The caller jumps to the slot the journal calls active, or carries on.
handOver ==
    /\ Idle
    /\ Readable
    /\ running' = slotFile[active_slot(read_state)]
    /\ UNCHANGED <<stateFile, slotFile, up, writes, created>>

\* Mutant: the journal is written before the image.
stageWritesSwapped(s, image) == <<StateWrite(Pending(s)), SlotWrite(s, image)>>

\* The writes of stage: image first, journal second.
stageWrites(s, image) == <<SlotWrite(s, image), StateWrite(Pending(s))>>

\* stage itself never reads the journal: the second and third conjuncts are
\* the caller's discipline.
stage(s, image) ==
    /\ Idle
    /\ Readable /\ read_state.kind = "Active"
    /\ s # active_slot(read_state)
    /\ writes' = stageWrites(s, image)
    /\ UNCHANGED <<stateFile, slotFile, up, running, created>>

\* The calls that read the journal and write its successor.
journalCall(kind, successor) ==
    /\ Idle
    /\ Readable /\ read_state.kind = kind
    /\ writes' = <<StateWrite(successor)>>
    /\ UNCHANGED <<stateFile, slotFile, up, running, created>>

promote  == journalCall("Pending", promoted(read_state))
commit   == journalCall("Testing", committed(read_state))
rollback == journalCall("Testing", rolledback(read_state))

-----------------------------------------------------------------------------
\* Mutant: the slot file is replaced without reading it first.
createFileBlind ==
    /\ writes # <<>> /\ ~created
    /\ IF Head(writes).slot = None
       THEN stateFile' = <<>> /\ UNCHANGED slotFile
       ELSE /\ slotFile' = [slotFile EXCEPT ![Head(writes).slot] = Short]
            /\ UNCHANGED stateFile
    /\ created' = TRUE
    /\ UNCHANGED <<up, running, writes>>

\* File::create truncates the file.  write_slot gets here only if it could
\* read slot_capacity bytes of an existing file.
createFile ==
    /\ writes # <<>> /\ ~created
    /\ IF Head(writes).slot = None
       THEN stateFile' = <<>> /\ UNCHANGED slotFile
       ELSE /\ slotFile[Head(writes).slot] # Short
            /\ slotFile' = [slotFile EXCEPT ![Head(writes).slot] = Short]
            /\ UNCHANGED stateFile
    /\ created' = TRUE
    /\ UNCHANGED <<up, running, writes>>

\* write_all completes the file; after the last file the call returns Ok.
writeAll ==
    /\ created
    /\ IF Head(writes).slot = None
       THEN stateFile' = Head(writes).data /\ UNCHANGED slotFile
       ELSE /\ slotFile' = [slotFile EXCEPT
                              ![Head(writes).slot] = Head(writes).data]
            /\ UNCHANGED stateFile
    /\ created' = FALSE
    /\ writes' = Tail(writes)
    /\ up' = (up \/ Tail(writes) = <<>>)
    /\ UNCHANGED running

\* What an unfinished write_all leaves: any proper prefix of the bytes.
PartialFile ==
    /\ \/ UNCHANGED stateFile
       \/ /\ created /\ Head(writes).slot = None
          /\ stateFile' = SubSeq(Head(writes).data, 1, 1)
    /\ writes' = <<>>
    /\ created' = FALSE
    /\ UNCHANGED slotFile

\* An I/O error inside a call, a failed read of a short slot file included:
\* the call returns an error.
ioError ==
    /\ writes # <<>>
    /\ PartialFile
    /\ UNCHANGED <<up, running>>

crash ==
    /\ up \/ writes # <<>>
    /\ PartialFile
    /\ up' = FALSE
    /\ running' = None

Next ==
    \/ recover \/ recoverFails \/ handOver
    \/ \E s \in PackageSlots, image \in Images : stage(s, image)
    \/ promote \/ commit \/ rollback
    \/ createFile \/ writeAll
    \/ crash \/ ioError

Spec == Init /\ [][Next]_avars

-----------------------------------------------------------------------------
(* Properties *)

\* As long as the journal can be read, the slot that recovery ends in holds
\* a whole image, at every point inside the file writes.
ReadableIsRecoverable ==
    Readable => slotFile[Lifeline(read_state)] \in Images

\* write_slot completes before write_state starts, so a caller that jumps to
\* the active slot never enters a slot file that is missing or short.
BootsWholeImage == running \in Images \cup {None}

\* A slot file an interrupted write_slot left short is never whole again:
\* every later write_slot fails in the read_exact before it.
TornSlotStaysTorn ==
    \A s \in PackageSlots :
        [](slotFile[s] = Short /\ ~created => [](slotFile[s] = Short))

\* "A crash always lands in a known, recoverable state": while the ECU is
\* down the journal can be read.
CrashLeavesJournalReadable == ~up /\ writes = <<>> => Readable
=============================================================================
