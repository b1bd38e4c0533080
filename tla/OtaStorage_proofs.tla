-------------------------- MODULE OtaStorage_proofs --------------------------
(***************************************************************************)
(* Theorems about the two storage back ends of the update engine, which    *)
(* share no variable: AglOtaStorage, for every set of images and every set *)
(* of slot bytes that accepted packages carry, and ZephyrOtaStorage in     *)
(* both of its builds, for every set of images; the flash build implements *)
(* the engine of OtaEngine.                                                *)
(***************************************************************************)
EXTENDS AglOtaStorage, ZephyrOtaStorage, SlotState_proofs, SequenceTheorems, TLAPS

-----------------------------------------------------------------------------
(* AglOtaStorage                                                           *)

(***************************************************************************)
(* The journal as a function of the bytes of its file, so that the bytes a *)
(* call has still to write can be judged like those already there.         *)
(***************************************************************************)
journalIn(bytes) ==
    IF bytes = Absent THEN ActiveSlot(0)
    ELSE IF Len(bytes) < 2 THEN None
    ELSE decode(bytes, None)

\* Each slot the journal names holds a whole image.
Backed(bytes) ==
    journalIn(bytes) # None =>
        \A s \in Named(journalIn(bytes)) : slotFile[s] \in Images

FileBytes == {Absent, <<>>} \cup {<<a>> : a \in Nat} \cup (Nat \X Nat)

\* What is left of a call: nothing, a journal write whose slots are whole
\* already, or the two writes of stage, which leave the journal's slot alone.
CallInv ==
    \/ writes = <<>> /\ ~created
    \/ \E bytes \in Nat \X Nat :
           writes = <<[slot |-> None, data |-> bytes]>> /\ Backed(bytes)
    \/ \E s \in PackageSlots, image \in Images :
           /\ writes = <<SlotWrite(s, image), StateWrite(Pending(s))>>
           /\ Readable /\ read_state.kind = "Active"
           /\ s # active_slot(read_state)

FilesInv ==
    /\ stateFile \in FileBytes
    /\ slotFile \in [PackageSlots -> Images \cup {Absent, Short}]
    /\ created \in BOOLEAN

AglInv ==
    /\ FilesInv
    /\ Backed(stateFile)
    /\ CallInv
    /\ BootsWholeImage

-----------------------------------------------------------------------------
\* read_state is the journal in the state file.
LEMMA ReadStateIs == read_state = journalIn(stateFile)
  BY DEF read_state, journalIn

\* The bytes of the state file decode to a state of the enum or to none.
LEMMA JournalInType ==
    ASSUME NEW bytes \in FileBytes
    PROVE  journalIn(bytes) \in SlotStates \cup {None}
  <1>1. CASE bytes = Absent
    BY <1>1 DEF journalIn, SlotStates, Slots
  <1>2. CASE bytes # Absent /\ Len(bytes) < 2
    BY <1>2 DEF journalIn
  <1>3. CASE bytes \in Nat \X Nat /\ bytes # Absent
    <2>1. Len(bytes) = 2
      BY <1>3
    <2>. QED
      BY <2>1, <1>3, DecodeType DEF journalIn
  <1>4. bytes \in {<<>>} \cup {<<a>> : a \in Nat} => Len(bytes) < 2
    OBVIOUS
  <1>. QED
    BY <1>1, <1>2, <1>3, <1>4 DEF FileBytes

\* A file of two bytes exists and is long enough.
LEMMA TwoBytes ==
    ASSUME NEW bytes \in Nat \X Nat
    PROVE  journalIn(bytes) = decode(bytes, None)
  <1>0. PICK a \in Nat, b \in Nat : bytes = <<a, b>>
    OBVIOUS
  <1>1. bytes \in Seq(Nat) /\ ~(Len(bytes) < 2)
    BY <1>0
  <1>2. bytes # Absent
    BY <1>1, AglAssumption
  <1>. QED
    BY <1>1, <1>2 DEF journalIn

\* An encoded state reads as itself; a Pending of a slot byte that no back
\* end has reads as no state.
LEMMA EncodedReads ==
    /\ \A st \in SlotStates :
           encode(st) \in Nat \X Nat /\ journalIn(encode(st)) = st
    /\ \A c \in Nat :
           /\ encode(Pending(c)) \in Nat \X Nat
           /\ journalIn(encode(Pending(c))) \in {Pending(c), None}
           /\ journalIn(encode(Pending(c))) # None => c \in Slots
  <1>1. ASSUME NEW st \in SlotStates
        PROVE  encode(st) \in Nat \X Nat /\ journalIn(encode(st)) = st
    BY JournalRoundTrip, TwoBytes
  <1>2. ASSUME NEW c \in Nat
        PROVE  /\ encode(Pending(c)) \in Nat \X Nat
               /\ journalIn(encode(Pending(c))) \in {Pending(c), None}
               /\ journalIn(encode(Pending(c))) # None => c \in Slots
    BY PendingRoundTrip, TwoBytes
  <1>. QED
    BY <1>1, <1>2

\* A call that starts from a readable journal st and will write a successor
\* of st names only slots that are whole.
LEMMA JournalWriteReady ==
    ASSUME AglInv, Readable,
           NEW successor \in SlotStates,
           Named(successor) \subseteq Named(read_state)
    PROVE  /\ encode(successor) \in Nat \X Nat
           /\ Backed(encode(successor))
  <1>1. \A s \in Named(read_state) : slotFile[s] \in Images
    BY ReadStateIs DEF AglInv, Backed, Readable
  <1>2. encode(successor) \in Nat \X Nat /\ journalIn(encode(successor)) = successor
    BY EncodedReads
  <1>. QED
    BY <1>1, <1>2 DEF Backed

\* The journal of a state in which it is readable.
LEMMA JournalType == AglInv /\ Readable => read_state \in SlotStates
  BY JournalInType, ReadStateIs DEF AglInv, FilesInv, Readable

\* The calls start with every slot that they will name whole.
LEMMA CallStart ==
    ASSUME AglInv,
           recover \/ promote \/ commit \/ rollback
           \/ \E s \in PackageSlots, image \in Images : stage(s, image)
    PROVE  CallInv' /\ UNCHANGED <<stateFile, slotFile, running, created>>
  <1>1. /\ writes = <<>> /\ Readable
        /\ UNCHANGED <<stateFile, slotFile, running, created>>
    BY DEF recover, promote, commit, rollback, journalCall, stage, Idle
  <1>2. read_state \in SlotStates
    BY <1>1, JournalType
  <1>3. ASSUME NEW successor \in SlotStates,
               Named(successor) \subseteq Named(read_state),
               writes' = <<StateWrite(successor)>>
        PROVE  CallInv'
    <2>1. /\ encode(successor) \in Nat \X Nat
          /\ Backed(encode(successor))
      BY <1>1, <1>3, JournalWriteReady
    <2>2. Backed(encode(successor))'
      BY <2>1, <1>1 DEF Backed, journalIn
    <2>. QED
      BY <2>1, <2>2, <1>3 DEF CallInv, StateWrite
  <1>4. CASE recover
    BY <1>2, <1>3, <1>4, SuccessorNames DEF recover
  <1>5. CASE promote
    BY <1>2, <1>3, <1>5, SuccessorNames DEF promote, journalCall
  <1>6. CASE commit
    BY <1>2, <1>3, <1>6, SuccessorNames DEF commit, journalCall
  <1>7. CASE rollback
    BY <1>2, <1>3, <1>7, SuccessorNames DEF rollback, journalCall
  <1>8. CASE \E s \in PackageSlots, image \in Images : stage(s, image)
    <2>1. PICK s \in PackageSlots, image \in Images : stage(s, image)
      BY <1>8
    <2>2. /\ writes' = <<SlotWrite(s, image), StateWrite(Pending(s))>>
          /\ read_state.kind = "Active" /\ s # active_slot(read_state)
      BY <2>1 DEF stage, stageWrites
    <2>3. read_state' = read_state
      BY <1>1 DEF read_state
    <2>. QED
      BY <1>1, <2>2, <2>3 DEF CallInv, Readable
  <1>. QED
    BY <1>1, <1>4, <1>5, <1>6, <1>7, <1>8

-----------------------------------------------------------------------------
(* The three shapes CallInv allows a call under way.                       *)
WritesJournal(bytes) ==
    writes = <<[slot |-> None, data |-> bytes]>> /\ Backed(bytes)

WritesImage(s, image) ==
    /\ writes = <<SlotWrite(s, image), StateWrite(Pending(s))>>
    /\ Readable /\ read_state.kind = "Active"
    /\ s # active_slot(read_state)

LEMMA UnderWay ==
    ASSUME CallInv, writes # <<>> \/ created
    PROVE  \/ \E bytes \in Nat \X Nat : WritesJournal(bytes)
           \/ \E s \in PackageSlots, image \in Images : WritesImage(s, image)
  BY DEF CallInv, WritesJournal, WritesImage

\* An empty or half-written state file is not readable.
LEMMA ShortJournal ==
    /\ journalIn(<<>>) = None
    /\ \A bytes \in Nat \X Nat :
           SubSeq(bytes, 1, 1) \in FileBytes /\ journalIn(SubSeq(bytes, 1, 1)) = None
  <1>1. \A a \in Nat : <<a>> \in Seq(Nat) /\ Len(<<a>>) < 2
    OBVIOUS
  <1>2. <<>> \in Seq(Nat) /\ Len(<<>>) < 2
    OBVIOUS
  <1>3. ASSUME NEW a \in Nat, NEW b \in Nat
        PROVE  SubSeq(<<a, b>>, 1, 1) = <<a>>
    <2>. DEFINE t == SubSeq(<<a, b>>, 1, 1)
    <2>1. <<a, b>> \in Seq(Nat) /\ Len(<<a, b>>) = 2
      OBVIOUS
    <2>2. 1 \in 1 .. Len(<<a, b>>) + 1 /\ 1 \in 1 - 1 .. Len(<<a, b>>)
      BY <2>1
    <2>3. t \in Seq(Nat) /\ Len(t) = 1 - 1 + 1
          /\ \A i \in 1 .. 1 - 1 + 1 : t[i] = <<a, b>>[1 + i - 1]
      BY <2>1, <2>2, SubSeqProperties
    <2>. HIDE DEF t
    <2>4. t[1] = a
      BY <2>3
    <2>5. t = <<a>>
      BY <2>3, <2>4
    <2>. QED
      BY <2>5 DEF t
  <1>4. journalIn(<<>>) = None
    BY <1>2, AglAssumption DEF journalIn
  <1>5. ASSUME NEW bytes \in Nat \X Nat
        PROVE  SubSeq(bytes, 1, 1) \in FileBytes /\ journalIn(SubSeq(bytes, 1, 1)) = None
    <2>1. PICK a \in Nat, b \in Nat : bytes = <<a, b>>
      OBVIOUS
    <2>2. SubSeq(bytes, 1, 1) = <<a>>
      BY <2>1, <1>3
    <2>. QED
      BY <2>2, <1>1, AglAssumption DEF journalIn, FileBytes
  <1>. QED
    BY <1>4, <1>5

\* File::create under a journal write.
LEMMA CreateJournal ==
    ASSUME AglInv, createFile,
           NEW bytes \in Nat \X Nat, WritesJournal(bytes)
    PROVE  AglInv'
  <1>1. /\ stateFile' = <<>> /\ created' = TRUE
        /\ UNCHANGED <<slotFile, running, writes>>
    BY DEF createFile, WritesJournal
  <1>2. Backed(stateFile)'
    BY <1>1, ShortJournal DEF Backed, journalIn
  <1>3. CallInv'
    BY <1>1 DEF CallInv, WritesJournal, Backed, journalIn
  <1>. QED
    BY <1>1, <1>2, <1>3 DEF AglInv, FilesInv, FileBytes, BootsWholeImage

\* A slot's file may change as long as the journal does not name the slot.
LEMMA OtherSlotKeepsBacked ==
    ASSUME AglInv, Readable, read_state.kind = "Active",
           NEW s \in PackageSlots, s # active_slot(read_state),
           NEW contents,
           slotFile' = [slotFile EXCEPT ![s] = contents],
           stateFile' = stateFile
    PROVE  Backed(stateFile)' /\ slotFile'[active_slot(read_state)] \in Images
  <1>1. Named(read_state) = {active_slot(read_state)}
    BY DEF Named, active_slot
  <1>2. slotFile[active_slot(read_state)] \in Images
    BY <1>1, ReadStateIs DEF AglInv, Backed, Readable
  <1>3. read_state \in SlotStates
    BY JournalType
  <1>4. active_slot(read_state) \in PackageSlots
    BY <1>1, <1>3, SuccessorNames, AglAssumption
  <1>5. slotFile'[active_slot(read_state)] = slotFile[active_slot(read_state)]
    BY <1>4 DEF AglInv, FilesInv
  <1>6. journalIn(stateFile)' = read_state
    BY ReadStateIs DEF journalIn
  <1>. QED
    BY <1>1, <1>2, <1>5, <1>6 DEF Backed

\* File::create under the slot write of stage.
LEMMA CreateImage ==
    ASSUME AglInv, createFile,
           NEW s \in PackageSlots, NEW image \in Images, WritesImage(s, image)
    PROVE  AglInv'
  <1>1. Head(writes).slot = s /\ s # None
    BY AglAssumption DEF WritesImage, SlotWrite
  <1>2. /\ slotFile' = [slotFile EXCEPT ![s] = Short] /\ created' = TRUE
        /\ UNCHANGED <<stateFile, running, writes>>
    BY <1>1 DEF createFile
  <1>3. Backed(stateFile)'
    BY <1>2, OtherSlotKeepsBacked DEF WritesImage
  <1>4. read_state' = read_state
    BY <1>2 DEF read_state
  <1>5. CallInv'
    BY <1>2, <1>4 DEF CallInv, WritesImage, Readable
  <1>. QED
    BY <1>2, <1>3, <1>5 DEF AglInv, FilesInv, BootsWholeImage

\* write_all completes a journal write.
LEMMA WriteJournal ==
    ASSUME AglInv, writeAll,
           NEW bytes \in Nat \X Nat, WritesJournal(bytes)
    PROVE  AglInv'
  <1>1. /\ stateFile' = bytes /\ created' = FALSE /\ writes' = <<>>
        /\ UNCHANGED <<slotFile, running>>
    BY DEF writeAll, WritesJournal
  <1>2. stateFile' \in FileBytes
    BY <1>1 DEF FileBytes
  <1>3. Backed(stateFile)'
    BY <1>1 DEF WritesJournal, Backed, journalIn
  <1>. QED
    BY <1>1, <1>2, <1>3 DEF AglInv, FilesInv, CallInv, BootsWholeImage

\* write_all completes the image; from here the journal write of stage may
\* name both slots.
LEMMA WriteImage ==
    ASSUME AglInv, writeAll,
           NEW s \in PackageSlots, NEW image \in Images, WritesImage(s, image)
    PROVE  AglInv'
  <1>1. /\ Head(writes) = SlotWrite(s, image)
        /\ Tail(writes) = <<StateWrite(Pending(s))>> /\ Tail(writes) # <<>>
    BY DEF WritesImage
  <1>2. Head(writes).slot = s /\ s # None /\ Head(writes).data = image
    BY <1>1, AglAssumption DEF SlotWrite
  <1>3. /\ slotFile' = [slotFile EXCEPT ![s] = image] /\ created' = FALSE
        /\ writes' = <<StateWrite(Pending(s))>>
        /\ UNCHANGED <<stateFile, running>>
    BY <1>1, <1>2 DEF writeAll
  <1>4. Backed(stateFile)' /\ slotFile'[active_slot(read_state)] \in Images
    BY <1>3, OtherSlotKeepsBacked DEF WritesImage
  <1>5. s \in Nat /\ slotFile'[s] = image
    BY <1>3, AglAssumption DEF AglInv, FilesInv
  <1>6. active_slot(read_state) \in Slots /\ s # active_slot(read_state)
    BY JournalType, SuccessorNames DEF WritesImage
  <1>7. Backed(encode(Pending(s)))'
    <2>. DEFINE j == journalIn(encode(Pending(s)))
    <2>1. j \in {Pending(s), None} /\ (j # None => s \in Slots)
      BY <1>5, EncodedReads
    <2>. HIDE DEF j
    <2>2. CASE j # None
      <3>1. j = Pending(s) /\ s \in Slots
        BY <2>1, <2>2
      <3>2. Named(j) = {s, 1 - s}
        BY <3>1 DEF Named, Pending
      <3>3. 1 - s = active_slot(read_state)
        BY <3>1, <1>6 DEF Slots
      <3>4. \A t \in Named(j) : slotFile'[t] \in Images
        BY <3>2, <3>3, <1>4, <1>5
      <3>. QED
        BY <3>4 DEF Backed, journalIn, j
    <2>3. CASE j = None
      BY <2>3 DEF Backed, journalIn, j
    <2>. QED
      BY <2>2, <2>3
  <1>8. CallInv'
    BY <1>3, <1>5, <1>7, EncodedReads DEF CallInv, StateWrite
  <1>9. slotFile' \in [PackageSlots -> Images \cup {Absent, Short}]
    BY <1>3 DEF AglInv, FilesInv
  <1>. QED
    BY <1>3, <1>4, <1>8, <1>9 DEF AglInv, FilesInv, BootsWholeImage

\* An I/O error or a reset leaves the journal as it was or unreadable.
LEMMA Interrupted ==
    ASSUME AglInv, PartialFile, running' \in {running, None}
    PROVE  AglInv'
  <1>1. writes' = <<>> /\ created' = FALSE /\ slotFile' = slotFile
    BY DEF PartialFile
  <1>2. stateFile' \in FileBytes /\ Backed(stateFile)'
    <2>1. CASE stateFile' = stateFile
      BY <1>1, <2>1 DEF AglInv, FilesInv, Backed, journalIn
    <2>2. CASE created /\ Head(writes).slot = None
               /\ stateFile' = SubSeq(Head(writes).data, 1, 1)
      <3>1. PICK bytes \in Nat \X Nat : WritesJournal(bytes)
        <4>1. ASSUME NEW s \in PackageSlots, NEW image \in Images, WritesImage(s, image)
              PROVE  Head(writes).slot = s /\ s # None
          BY <4>1, AglAssumption DEF WritesImage, SlotWrite
        <4>. QED
          BY <4>1, <2>2, UnderWay DEF AglInv
      <3>2. stateFile' = SubSeq(bytes, 1, 1)
        BY <2>2, <3>1 DEF WritesJournal
      <3>. QED
        BY <3>2, ShortJournal DEF Backed, journalIn
    <2>. QED
      BY <2>1, <2>2 DEF PartialFile
  <1>. QED
    BY <1>1, <1>2 DEF AglInv, FilesInv, CallInv, BootsWholeImage

\* Every system call and every interruption keeps the invariant.
LEMMA AglStep == AglInv /\ [Next]_avars => AglInv'
  <1>. SUFFICES ASSUME AglInv, [Next]_avars PROVE AglInv'
    OBVIOUS
  <1>1. ASSUME UNCHANGED <<stateFile, slotFile, running, created>>, CallInv'
        PROVE  AglInv'
    BY <1>1 DEF AglInv, FilesInv, Backed, journalIn, BootsWholeImage
  <1>2. CASE recover \/ promote \/ commit \/ rollback
             \/ \E s \in PackageSlots, image \in Images : stage(s, image)
    BY <1>1, <1>2, CallStart
  <1>3. CASE recoverFails \/ UNCHANGED avars
    BY <1>1, <1>3 DEF recoverFails, avars, AglInv, CallInv, Readable, read_state, Backed,
         journalIn
  <1>7. CASE handOver
    <2>1. slotFile[active_slot(read_state)] \in Images
      BY <1>7, JournalType, SuccessorNames, ReadStateIs
      DEF handOver, AglInv, Backed, Readable
    <2>2. CallInv'
      BY <1>7 DEF handOver, AglInv, CallInv, Readable, read_state, Backed, journalIn
    <2>. QED
      BY <1>7, <2>1, <2>2
      DEF handOver, AglInv, FilesInv, Backed, journalIn, BootsWholeImage
  <1>4. CASE createFile
    BY <1>4, UnderWay, CreateJournal, CreateImage DEF createFile, AglInv
  <1>5. CASE writeAll
    BY <1>5, UnderWay, WriteJournal, WriteImage DEF writeAll, AglInv
  <1>6. CASE ioError \/ crash
    BY <1>6, Interrupted DEF ioError, crash
  <1>. QED
    BY <1>2, <1>3, <1>4, <1>5, <1>6, <1>7 DEF Next

\* The provisioned device.
LEMMA AglStart == Init => AglInv
  <1>. SUFFICES ASSUME Init PROVE AglInv
    OBVIOUS
  <1>1. journalIn(stateFile) = ActiveSlot(0) /\ Named(ActiveSlot(0)) = {0}
    BY DEF Init, journalIn, Named, ActiveSlot
  <1>2. slotFile[0] = Factory
    BY AglAssumption DEF Init, Slots
  <1>. QED
    BY <1>1, <1>2, AglAssumption
    DEF Init, AglInv, FilesInv, FileBytes, Backed, CallInv, BootsWholeImage

LEMMA AglInvariant == Spec => []AglInv
  BY AglStart, AglStep, PTL DEF Spec

\* File::create and write_all are not atomic and may fail anywhere between
\* the system calls of a stage or a journal write, yet while the journal can
\* be read the slot that recovery ends in holds a whole image.
THEOREM RecoverableOnFiles == Spec => []ReadableIsRecoverable
  <1>1. AglInv => ReadableIsRecoverable
    BY JournalType, SuccessorNames, ReadStateIs
    DEF ReadableIsRecoverable, AglInv, Backed, Readable
  <1>. QED
    BY <1>1, AglInvariant, PTL

\* Whatever was interrupted before, no jump to the active slot enters a
\* missing or a half-written slot file.
THEOREM BootsWhole == Spec => []BootsWholeImage
  <1>1. AglInv => BootsWholeImage
    BY DEF AglInv
  <1>. QED
    BY <1>1, AglInvariant, PTL

-----------------------------------------------------------------------------
\* A slot file is short, and the write under way, if any, is of another file.
TornSlot(s) == slotFile[s] = Short /\ (created => Head(writes).slot # s)

\* No step makes such a file whole: write_slot reads it before it truncates
\* it, and that read fails.
LEMMA TornSlotStep ==
    ASSUME NEW s \in PackageSlots
    PROVE  AglInv /\ TornSlot(s) /\ [Next]_avars => TornSlot(s)'
  <1>. SUFFICES ASSUME AglInv, TornSlot(s), [Next]_avars PROVE TornSlot(s)'
    OBVIOUS
  <1>1. CASE recover \/ promote \/ commit \/ rollback
             \/ \E t \in PackageSlots, image \in Images : stage(t, image)
    <2>1. writes = <<>> /\ UNCHANGED <<slotFile, created>>
      BY <1>1 DEF recover, promote, commit, rollback, journalCall, stage, Idle
    <2>2. ~created
      BY <2>1 DEF AglInv, CallInv
    <2>. QED
      BY <2>1, <2>2 DEF TornSlot
  <1>2. CASE recoverFails \/ handOver \/ UNCHANGED avars
    BY <1>2 DEF recoverFails, handOver, avars, TornSlot
  <1>3. CASE createFile
    <2>1. Head(writes).slot # s /\ writes' = writes
      BY <1>3, AglAssumption DEF createFile, TornSlot
    <2>2. slotFile'[s] = slotFile[s]
      BY <1>3, <2>1 DEF createFile, AglInv, FilesInv
    <2>. QED
      BY <2>1, <2>2 DEF TornSlot
  <1>4. CASE writeAll
    <2>1. Head(writes).slot # s /\ created' = FALSE
      BY <1>4 DEF writeAll, TornSlot
    <2>2. slotFile'[s] = slotFile[s]
      BY <1>4, <2>1 DEF writeAll, AglInv, FilesInv
    <2>. QED
      BY <2>1, <2>2 DEF TornSlot
  <1>5. CASE ioError \/ crash
    BY <1>5 DEF ioError, crash, PartialFile, TornSlot
  <1>. QED
    BY <1>1, <1>2, <1>3, <1>4, <1>5 DEF Next

\* A slot file left short by an interrupted write_slot is short for ever:
\* the backend reads the old file before it replaces it.
THEOREM TornForEver == Spec => TornSlotStaysTorn
  <1>1. ASSUME NEW s \in PackageSlots
        PROVE  Spec => [](slotFile[s] = Short /\ ~created => [](slotFile[s] = Short))
    <2>1. slotFile[s] = Short /\ ~created => TornSlot(s)
      BY DEF TornSlot
    <2>2. TornSlot(s) => slotFile[s] = Short
      BY DEF TornSlot
    <2>3. AglInv /\ TornSlot(s) /\ [Next]_avars => TornSlot(s)'
      BY TornSlotStep
    <2>. QED
      BY <2>1, <2>2, <2>3, AglInvariant, PTL DEF Spec
  <1>. QED
    BY <1>1 DEF TornSlotStaysTorn

-----------------------------------------------------------------------------
(* ZephyrOtaStorage                                                        *)

Staging == {"write_slot", "flash_write", "write_state"}

ZTypeInv ==
    /\ build \in {"flash", "ram"}
    /\ state \in IF build = "flash" THEN {Erased} \cup {encode(st) : st \in SlotStates}
                                    ELSE SlotStates
    /\ slots \in [Slots -> Images \cup {Torn, Empty}]
    /\ pc \in {"down", "idle"} \cup Staging
    /\ upd \in [slot : PackageSlots, image : Images] \cup {None}

\* A device whose state partition is erased never gets past recover.
ErasedIsDown == Provisioned \/ build = "ram" \/ (pc = "down" /\ executing = None /\ upd = None)

\* The package in flight goes to the slot that is not active; past the open
\* of the area its slot exists, and before the journal write it is whole.
StageInv ==
    pc \in Staging =>
        /\ upd # None
        /\ zephyrState.kind = "Active" /\ upd.slot # zephyrState.slot
        /\ pc # "write_slot" => upd.slot \in Slots
        /\ pc = "flash_write" => build = "flash"
        /\ pc = "write_state" => slots[upd.slot] = upd.image

\* In the flash build every slot the journal names is whole and so is the
\* image that executes; the ram build executes none of its slots.
FlashInv ==
    IF Provisioned
    THEN /\ \A s \in Named(zephyrState) : slots[s] \in Images
         /\ pc = "down" => executing = None
         /\ executing \in Images \cup {None}
    ELSE executing = None

\* In both builds the image offered or tried is whole.
CandidateInv ==
    Provisioned \/ build = "ram" =>
        /\ zephyrState.kind = "Pending" => slots[zephyrState.candidate] \in Images
        /\ zephyrState.kind = "Testing" => slots[zephyrState.active] \in Images

ZInv == ZTypeInv /\ ErasedIsDown /\ StageInv /\ FlashInv /\ CandidateInv

-----------------------------------------------------------------------------
\* Erased flash is no encoding of a state and decodes to none.
LEMMA ErasedIsNoState ==
    /\ decode(Erased, None) = None
    /\ \A st \in SlotStates : encode(st) # Erased
  <1>1. decode(Erased, None) = None
    BY DEF decode, Erased
  <1>2. ASSUME NEW st \in SlotStates PROVE encode(st) # Erased
    <2>1. encode(st)[1] <= 2
      BY JournalCases DEF encode, ActiveSlot, Pending, Testing
    <2>2. Erased[1] = 255
      BY DEF Erased
    <2>. QED
      BY <2>1, <2>2
  <1>. QED
    BY <1>1, <1>2

\* What is written is read back, in both builds.
LEMMA WrittenReads ==
    ASSUME NEW st \in SlotStates, build' = build, state' = written(st), ZTypeInv
    PROVE  /\ zephyrState' = st
           /\ state' \in IF build = "flash"
                         THEN {Erased} \cup {encode(t) : t \in SlotStates} ELSE SlotStates
           /\ build = "flash" => Provisioned'
  BY JournalRoundTrip, ErasedIsNoState DEF written, zephyrState, Provisioned, ZTypeInv

\* The journal is readable except on a device nobody has provisioned.
LEMMA ReadType ==
    ASSUME ZTypeInv
    PROVE  /\ Provisioned \/ build = "ram" => zephyrState \in SlotStates
           /\ build = "flash" /\ ~Provisioned => zephyrState = None
  BY JournalRoundTrip, ErasedIsNoState DEF zephyrState, Provisioned, ZTypeInv

\* The slots under a journal that names no other slot than the journal
\* before it.
LEMMA JournalMoves ==
    ASSUME ZInv, Provisioned \/ build = "ram", pc \notin Staging,
           NEW st \in SlotStates, Named(st) \subseteq Named(zephyrState),
           st.kind = "Testing" =>
               zephyrState.kind = "Pending" /\ st.active = zephyrState.candidate,
           st.kind # "Pending" \/ st = zephyrState,
           build' = build, slots' = slots, upd' = upd, pc' = "idle",
           state' = written(st), executing' = executing
    PROVE  ZInv' /\ zephyrState' = st
  <1>1. /\ zephyrState' = st
        /\ state' \in IF build = "flash"
                      THEN {Erased} \cup {encode(t) : t \in SlotStates} ELSE SlotStates
        /\ build = "flash" => Provisioned'
    BY WrittenReads DEF ZInv
  <1>2. ZTypeInv'
    BY <1>1 DEF ZInv, ZTypeInv
  <1>3. build = "flash" => Provisioned
    OBVIOUS
  <1>4. FlashInv'
    <2>1. CASE build = "flash"
      BY <1>1, <1>3, <2>1 DEF ZInv, FlashInv
    <2>2. CASE build = "ram"
      BY <2>2 DEF ZInv, FlashInv, Provisioned
    <2>. QED
      BY <2>1, <2>2 DEF ZInv, ZTypeInv
  <1>5. CandidateInv'
    BY <1>1 DEF ZInv, CandidateInv
  <1>6. ErasedIsDown'
    BY <1>1 DEF ErasedIsDown, ZInv, ZTypeInv
  <1>7. StageInv'
    BY DEF StageInv, Staging
  <1>. QED
    BY <1>1, <1>2, <1>4, <1>5, <1>6, <1>7 DEF ZInv

\* recover, promote, commit and rollback.
LEMMA CallSteps ==
    ASSUME ZInv
    PROVE  /\ zephyrRecover  => ZInv' /\ zephyrState' = recovered(zephyrState)
           /\ zephyrPromote  => ZInv' /\ zephyrState' = promoted(zephyrState)
           /\ zephyrCommit   => ZInv' /\ zephyrState' = committed(zephyrState)
           /\ zephyrRollback => ZInv' /\ zephyrState' = rolledback(zephyrState)
  <1>1. ASSUME zephyrRecover PROVE ZInv' /\ zephyrState' = recovered(zephyrState)
    <2>1. /\ Provisioned \/ build = "ram"
          /\ zephyrState \in SlotStates /\ pc \notin Staging
      BY <1>1, ReadType DEF zephyrRecover, Callable, ZInv, ZTypeInv, Staging
    <2>2. /\ recovered(zephyrState) \in SlotStates
          /\ Named(recovered(zephyrState)) \subseteq Named(zephyrState)
      BY <2>1, SuccessorNames
    <2>3. /\ recovered(zephyrState).kind = "Testing" =>
                 /\ zephyrState.kind = "Pending"
                 /\ recovered(zephyrState).active = zephyrState.candidate
          /\ recovered(zephyrState).kind # "Pending"
      BY <2>1, JournalCases DEF recovered, ActiveSlot, Pending, Testing
    <2>. QED
      BY <1>1, <2>1, <2>2, <2>3, JournalMoves DEF zephyrRecover
  <1>2. pc = "idle" =>
            /\ Provisioned \/ build = "ram"
            /\ zephyrState \in SlotStates /\ pc \notin Staging
    BY ReadType DEF ZInv, ZTypeInv, ErasedIsDown, Staging
  <1>. USE DEF updateState, Callable
  <1>3. ASSUME zephyrPromote PROVE ZInv' /\ zephyrState' = promoted(zephyrState)
    <2>1. /\ Provisioned \/ build = "ram"
          /\ zephyrState \in SlotStates /\ pc \notin Staging /\ zephyrState.kind = "Pending"
      BY <1>2, <1>3 DEF zephyrPromote
    <2>2. /\ promoted(zephyrState) \in SlotStates
          /\ Named(promoted(zephyrState)) \subseteq Named(zephyrState)
      BY <2>1, SuccessorNames
    <2>3. /\ promoted(zephyrState).kind = "Testing"
          /\ promoted(zephyrState).active = zephyrState.candidate
      BY DEF promoted, Testing
    <2>. QED
      BY <1>3, <2>1, <2>2, <2>3, JournalMoves DEF zephyrPromote
  <1>4. ASSUME zephyrCommit PROVE ZInv' /\ zephyrState' = committed(zephyrState)
    <2>1. /\ Provisioned \/ build = "ram"
          /\ zephyrState \in SlotStates /\ pc \notin Staging /\ zephyrState.kind = "Testing"
      BY <1>2, <1>4 DEF zephyrCommit
    <2>2. /\ committed(zephyrState) \in SlotStates
          /\ Named(committed(zephyrState)) \subseteq Named(zephyrState)
      BY <2>1, SuccessorNames
    <2>3. committed(zephyrState).kind = "Active"
      BY DEF committed, ActiveSlot
    <2>. QED
      BY <1>4, <2>1, <2>2, <2>3, JournalMoves DEF zephyrCommit
  <1>5. ASSUME zephyrRollback PROVE ZInv' /\ zephyrState' = rolledback(zephyrState)
    <2>1. /\ Provisioned \/ build = "ram"
          /\ zephyrState \in SlotStates /\ pc \notin Staging /\ zephyrState.kind = "Testing"
      BY <1>2, <1>5 DEF zephyrRollback
    <2>2. /\ rolledback(zephyrState) \in SlotStates
          /\ Named(rolledback(zephyrState)) \subseteq Named(zephyrState)
      BY <2>1, SuccessorNames
    <2>3. rolledback(zephyrState).kind = "Active"
      BY DEF rolledback, ActiveSlot
    <2>. QED
      BY <1>5, <2>1, <2>2, <2>3, JournalMoves DEF zephyrRollback
  <1>. QED
    BY <1>1, <1>3, <1>4, <1>5

-----------------------------------------------------------------------------
\* Nothing is read from or written to the journal.
LEMMA JournalKept ==
    ASSUME UNCHANGED <<build, state>>
    PROVE  zephyrState' = zephyrState /\ Provisioned' = Provisioned
  BY DEF zephyrState, Provisioned

\* The steps of stage that keep every slot's contents.
LEMMA StageSteps ==
    ASSUME ZInv,
           \/ \E slot \in PackageSlots, image \in Images : zephyrStage(slot, image)
           \/ flashOpen \/ flashOpenFails \/ ramNoSlot \/ stageWriteStateFails
           \/ stateCallFails
           \/ UNCHANGED zvars
    PROVE  ZInv'
  <1>1. /\ UNCHANGED <<build, state, slots, executing>>
        /\ pc = "down" <=> pc' = "down"
        /\ pc = "down" => upd' = upd
    BY DEF zephyrStage, flashOpen, flashOpenFails, ramNoSlot, stageWriteStateFails,
         stateCallFails, WriteFailed, zvars, Callable
  <1>2. zephyrState' = zephyrState /\ Provisioned' = Provisioned
    BY <1>1, JournalKept
  <1>3. FlashInv' /\ CandidateInv'
    BY <1>1, <1>2 DEF ZInv, FlashInv, CandidateInv
  <1>4. ErasedIsDown'
    BY <1>1, <1>2 DEF ZInv, ErasedIsDown
  <1>5. ZTypeInv' /\ StageInv'
    <2>. USE DEF ZInv, ZTypeInv, StageInv, Staging
    <2>1. CASE \E slot \in PackageSlots, image \in Images : zephyrStage(slot, image)
      <3>1. PICK slot \in PackageSlots, image \in Images : zephyrStage(slot, image)
        BY <2>1
      <3>2. Provisioned \/ build = "ram"
        BY <3>1 DEF zephyrStage, Callable, ErasedIsDown
      <3>3. zephyrState.kind = "Active" /\ slot # zephyrState.slot
        BY <3>1, <3>2 DEF zephyrStage, active_slot
      <3>4. pc' = "write_slot" /\ upd' = [slot |-> slot, image |-> image]
        BY <3>1 DEF zephyrStage
      <3>. QED
        BY <1>1, <1>2, <3>3, <3>4, ZephyrAssumption
    <2>2. CASE flashOpen
      BY <1>1, <1>2, <2>2 DEF flashOpen
    <2>3. CASE flashOpenFails \/ ramNoSlot \/ stageWriteStateFails
      BY <1>1, <1>2, <2>3 DEF flashOpenFails, ramNoSlot, stageWriteStateFails, WriteFailed
    <2>4. CASE stateCallFails \/ UNCHANGED zvars
      BY <1>1, <1>2, <2>4 DEF stateCallFails, zvars
    <2>. QED
      BY <2>1, <2>2, <2>3, <2>4
  <1>. QED
    BY <1>3, <1>4, <1>5 DEF ZInv

\* A slot write, whole or not, touches no slot that the journal names in the
\* flash build, and no candidate in either.
LEMMA SlotWriteKeeps ==
    ASSUME ZInv, pc \in Staging, NEW contents \in Images \cup {Torn, Empty},
           slots' = [slots EXCEPT ![upd.slot] = contents],
           UNCHANGED <<build, state>>
    PROVE  /\ zephyrState' = zephyrState /\ Provisioned' = Provisioned
           /\ slots' \in [Slots -> Images \cup {Torn, Empty}]
           /\ CandidateInv'
           /\ Provisioned => \A s \in Named(zephyrState) : slots'[s] \in Images
  <1>1. zephyrState' = zephyrState /\ Provisioned' = Provisioned
    BY JournalKept
  <1>2. zephyrState.kind = "Active" /\ upd.slot # zephyrState.slot
    BY DEF ZInv, StageInv
  <1>3. slots' \in [Slots -> Images \cup {Torn, Empty}]
    BY DEF ZInv, ZTypeInv
  <1>4. Named(zephyrState) = {zephyrState.slot}
    BY <1>2 DEF Named
  <1>5. slots'[zephyrState.slot] = slots[zephyrState.slot] \/ zephyrState.slot \notin Slots
    BY <1>2 DEF ZInv, ZTypeInv
  <1>6. Provisioned => zephyrState.slot \in Slots
    BY <1>4, ReadType, SuccessorNames DEF ZInv
  <1>7. Provisioned => slots[zephyrState.slot] \in Images
    BY <1>4 DEF ZInv, FlashInv
  <1>8. CandidateInv'
    BY <1>1, <1>2 DEF CandidateInv
  <1>. QED
    BY <1>1, <1>3, <1>4, <1>5, <1>6, <1>7, <1>8

\* flashWrite, ramWrite and the failing flash write.
LEMMA WriteSteps ==
    ASSUME ZInv, flashWrite \/ ramWrite \/ flashWriteFails
    PROVE  ZInv'
  <1>1. pc \in Staging /\ UNCHANGED <<build, state, executing>> /\ pc' # "down"
        /\ upd # None
    BY DEF flashWrite, ramWrite, flashWriteFails, WriteFailed, Staging, ZInv, StageInv
  <1>2. upd.image \in Images
    BY <1>1 DEF ZInv, ZTypeInv
  <1>3. ErasedIsDown'
    BY <1>1, JournalKept DEF ZInv, ErasedIsDown, Staging
  <1>4. ASSUME NEW contents \in Images \cup {Torn, Empty},
               slots' = [slots EXCEPT ![upd.slot] = contents]
        PROVE  /\ slots' \in [Slots -> Images \cup {Torn, Empty}]
               /\ FlashInv' /\ CandidateInv'
    <2>1. /\ zephyrState' = zephyrState /\ Provisioned' = Provisioned
          /\ slots' \in [Slots -> Images \cup {Torn, Empty}]
          /\ CandidateInv'
          /\ Provisioned => \A s \in Named(zephyrState) : slots'[s] \in Images
      BY <1>1, <1>4, SlotWriteKeeps
    <2>2. pc # "down"
      BY <1>1 DEF Staging
    <2>3. FlashInv'
      BY <1>1, <2>1, <2>2 DEF ZInv, FlashInv
    <2>. QED
      BY <2>1, <2>3
  <1>5. CASE flashWrite \/ ramWrite
    <2>1. /\ slots' = [slots EXCEPT ![upd.slot] = upd.image]
          /\ upd.slot \in Slots /\ pc' = "write_state" /\ upd' = upd
      BY <1>5 DEF flashWrite, ramWrite, ZInv, StageInv, Staging
    <2>2. /\ slots' \in [Slots -> Images \cup {Torn, Empty}]
          /\ FlashInv' /\ CandidateInv'
      BY <1>2, <1>4, <2>1
    <2>3. StageInv'
      BY <1>1, <2>1, JournalKept DEF StageInv, ZInv, ZTypeInv, Staging
    <2>4. ZTypeInv'
      BY <1>1, <2>1, <2>2 DEF ZInv, ZTypeInv, Staging
    <2>. QED
      BY <1>3, <2>2, <2>3, <2>4 DEF ZInv
  <1>6. CASE flashWriteFails
    <2>1. pc' = "idle" /\ upd' = None
      BY <1>6 DEF flashWriteFails, WriteFailed
    <2>2. /\ slots' \in [Slots -> Images \cup {Torn, Empty}]
          /\ FlashInv' /\ CandidateInv'
      <3>1. CASE slots' = slots
        BY <1>1, <3>1, JournalKept DEF ZInv, ZTypeInv, FlashInv, CandidateInv, Staging
      <3>2. CASE slots' = [slots EXCEPT ![upd.slot] = Torn]
        BY <1>4, <3>2
      <3>. QED
        BY <1>6, <3>1, <3>2 DEF flashWriteFails, PartialFlash
    <2>3. StageInv'
      BY <2>1 DEF StageInv, Staging
    <2>4. ZTypeInv'
      BY <1>1, <2>1, <2>2 DEF ZInv, ZTypeInv
    <2>. QED
      BY <1>3, <2>2, <2>3, <2>4 DEF ZInv
  <1>. QED
    BY <1>5, <1>6

\* The journal write of stage: the slot it offers is whole, and the other
\* one is the slot that was active.
LEMMA OfferStep ==
    ASSUME ZInv, stageWriteState
    PROVE  ZInv' /\ zephyrState' = Pending(upd.slot)
  <1>1. /\ state' = written(Pending(upd.slot)) /\ pc' = "idle" /\ upd' = None
        /\ pc = "write_state" /\ UNCHANGED <<build, slots, executing>>
    BY DEF stageWriteState
  <1>2. /\ upd.slot \in Slots /\ slots[upd.slot] = upd.image /\ upd.image \in Images
        /\ zephyrState.kind = "Active" /\ upd.slot # zephyrState.slot
    BY <1>1 DEF ZInv, StageInv, ZTypeInv, Staging
  <1>3. Provisioned \/ build = "ram"
    BY <1>1 DEF ZInv, ErasedIsDown
  <1>4. zephyrState \in SlotStates
    BY <1>3, ReadType DEF ZInv
  <1>5. zephyrState.slot \in Slots /\ 1 - upd.slot = zephyrState.slot
    BY <1>2, <1>4, JournalCases DEF ActiveSlot, Pending, Testing, Slots
  <1>6. Pending(upd.slot) \in SlotStates
    BY <1>2 DEF SlotStates
  <1>7. /\ zephyrState' = Pending(upd.slot)
        /\ state' \in IF build = "flash"
                      THEN {Erased} \cup {encode(t) : t \in SlotStates} ELSE SlotStates
        /\ build = "flash" => Provisioned'
    BY <1>1, <1>6, WrittenReads DEF ZInv
  <1>9. ZTypeInv'
    BY <1>1, <1>7 DEF ZInv, ZTypeInv
  <1>10. FlashInv'
    <2>1. CASE build = "flash"
      <3>1. Provisioned
        BY <1>3, <2>1
      <3>2. slots[zephyrState.slot] \in Images
        BY <1>2, <3>1 DEF ZInv, FlashInv, Named
      <3>3. Named(zephyrState') = {upd.slot, 1 - upd.slot}
        BY <1>7 DEF Named, Pending
      <3>4. \A s \in Named(zephyrState') : slots'[s] \in Images
        BY <1>1, <1>2, <1>5, <3>2, <3>3
      <3>. QED
        BY <1>1, <1>7, <2>1, <3>1, <3>4 DEF ZInv, FlashInv
    <2>2. CASE build = "ram"
      BY <1>1, <2>2 DEF ZInv, FlashInv, Provisioned
    <2>. QED
      BY <2>1, <2>2 DEF ZInv, ZTypeInv
  <1>11. CandidateInv'
    BY <1>1, <1>2, <1>7 DEF CandidateInv, Pending
  <1>12. ErasedIsDown'
    BY <1>1, <1>7 DEF ZInv, ZTypeInv, ErasedIsDown
  <1>13. StageInv'
    BY <1>1 DEF StageInv, Staging
  <1>. QED
    BY <1>7, <1>9, <1>10, <1>11, <1>12, <1>13 DEF ZInv

\* Power loss.
LEMMA CrashStep == ZInv /\ powerLoss => ZInv'
  <1>. SUFFICES ASSUME ZInv, powerLoss PROVE ZInv'
    OBVIOUS
  <1>1. executing' = None /\ pc' = "down" /\ upd' = None /\ build' = build
    BY DEF powerLoss
  <1>2. ErasedIsDown' /\ StageInv'
    BY <1>1 DEF ErasedIsDown, StageInv, Staging
  <1>3. CASE build = "ram"
    <2>1. slots' = [s \in Slots |-> Empty] /\ state' = ActiveSlot(0)
      BY <1>3 DEF powerLoss, newSlots, newState
    <2>2. state' \in SlotStates
      BY <2>1 DEF SlotStates, Slots
    <2>3. ZTypeInv'
      BY <1>1, <1>3, <2>1, <2>2 DEF ZTypeInv
    <2>4. FlashInv'
      BY <1>1, <1>3 DEF FlashInv, Provisioned
    <2>5. CandidateInv'
      BY <1>1, <1>3, <2>1 DEF CandidateInv, zephyrState, ActiveSlot
    <2>. QED
      BY <1>2, <2>3, <2>4, <2>5 DEF ZInv
  <1>4. CASE build = "flash"
    <2>1. PartialFlash /\ state' = state
      BY <1>4 DEF powerLoss
    <2>2. zephyrState' = zephyrState /\ Provisioned' = Provisioned
      BY <1>1, <2>1, JournalKept
    <2>3. CASE slots' = slots
      BY <1>1, <1>2, <2>1, <2>2, <2>3 DEF ZInv, ZTypeInv, FlashInv, CandidateInv
    <2>4. CASE pc = "flash_write" /\ slots' = [slots EXCEPT ![upd.slot] = Torn]
      <3>1. /\ slots' \in [Slots -> Images \cup {Torn, Empty}]
            /\ CandidateInv'
            /\ Provisioned => \A s \in Named(zephyrState) : slots'[s] \in Images
        BY <1>1, <2>1, <2>4, SlotWriteKeeps DEF Staging
      <3>2. FlashInv'
        BY <1>1, <2>2, <3>1 DEF FlashInv
      <3>3. ZTypeInv'
        BY <1>1, <2>1, <3>1 DEF ZInv, ZTypeInv
      <3>. QED
        BY <1>2, <3>1, <3>2, <3>3 DEF ZInv
    <2>. QED
      BY <2>1, <2>3, <2>4 DEF PartialFlash
  <1>. QED
    BY <1>3, <1>4 DEF ZInv, ZTypeInv

\* The jump enters a whole image: the active slot is one the journal names.
LEMMA HandOverStep == ZInv /\ zephyrHandOver => ZInv'
  <1>. SUFFICES ASSUME ZInv, zephyrHandOver PROVE ZInv'
    OBVIOUS
  <1>1. /\ build = "flash" /\ pc = "idle" /\ executing' = slots[active_slot(zephyrState)]
        /\ UNCHANGED <<build, state, slots, pc, upd>>
    BY DEF zephyrHandOver
  <1>2. zephyrState' = zephyrState /\ Provisioned' = Provisioned
    BY <1>1, JournalKept
  <1>3. Provisioned
    BY <1>1 DEF ZInv, ErasedIsDown
  <1>4. slots[active_slot(zephyrState)] \in Images
    BY <1>3, ReadType, SuccessorNames DEF ZInv, FlashInv
  <1>5. FlashInv'
    BY <1>1, <1>2, <1>3, <1>4 DEF ZInv, FlashInv
  <1>. QED
    BY <1>1, <1>2, <1>3, <1>5
    DEF ZInv, ZTypeInv, ErasedIsDown, StageInv, CandidateInv, Staging

\* Every step of either build keeps the invariant.
LEMMA ZStep == ZInv /\ [zephyrNext]_zvars => ZInv'
  BY CallSteps, HandOverStep, StageSteps, WriteSteps, OfferStep, CrashStep DEF zephyrNext

\* The three devices zephyrInit describes: provisioned flash, erased flash, ram.
LEMMA ZInit == zephyrInit => ZInv
  <1>. SUFFICES ASSUME zephyrInit PROVE ZInv
    OBVIOUS
  <1>1. ActiveSlot(0) \in SlotStates
    BY DEF SlotStates, Slots
  <1>2. ZTypeInv
    BY <1>1, ZephyrAssumption DEF zephyrInit, ZTypeInv, newSlots, newState, Slots
  <1>3. ErasedIsDown /\ StageInv
    BY DEF zephyrInit, ErasedIsDown, StageInv, Staging
  <1>4. Provisioned => zephyrState = ActiveSlot(0) /\ slots[0] = Factory
    BY <1>1, JournalRoundTrip DEF zephyrInit, Provisioned, zephyrState, Slots
  <1>5. FlashInv
    BY <1>4, ZephyrAssumption DEF zephyrInit, FlashInv, Named, ActiveSlot
  <1>6. build = "ram" => zephyrState = ActiveSlot(0)
    BY DEF zephyrInit, zephyrState, newState
  <1>7. CandidateInv
    BY <1>4, <1>6 DEF CandidateInv, ActiveSlot
  <1>. QED
    BY <1>2, <1>3, <1>5, <1>7 DEF ZInv

\* Whatever flash write, state write or power supply failed before, in
\* either build: a candidate the journal offers or tries exists and is whole.
THEOREM CandidateWhole == zephyrSpec => []CandidateIsWhole
  <1>1. ZInv => CandidateIsWhole
    <2>. SUFFICES ASSUME ZInv, zephyrState # None, zephyrState.kind # "Active"
                  PROVE  LET c == IF zephyrState.kind = "Pending" THEN zephyrState.candidate
                                                                 ELSE zephyrState.active
                         IN  c \in Slots /\ slots[c] \in Images
      BY DEF CandidateIsWhole
    <2>1. Provisioned \/ build = "ram"
      BY ReadType DEF ZInv, ZTypeInv
    <2>2. zephyrState \in SlotStates
      BY <2>1, ReadType DEF ZInv
    <2>. QED
      BY <2>1, <2>2, JournalCases DEF ZInv, CandidateInv, ActiveSlot, Pending, Testing
  <1>. QED
    BY <1>1, ZInit, ZStep, PTL DEF zephyrSpec

-----------------------------------------------------------------------------
(***************************************************************************)
(* The flash build is the engine of OtaEngine: one action of the engine    *)
(* for each of its steps.                                                  *)
(***************************************************************************)
Mapped == <<IF Provisioned THEN decode(state, None) ELSE ActiveSlot(0),
            IF Provisioned THEN slots
            ELSE [s \in Slots |-> IF s = 0 THEN Factory ELSE Empty],
            executing,
            IF ~Provisioned THEN "down" ELSE IF pc = "flash_write" THEN "write_slot" ELSE pc,
            IF Provisioned THEN upd ELSE None,
            IF Provisioned THEN result ELSE "none">>

\* On an unprovisioned device and in the ram build nothing of the engine
\* moves.
LEMMA NotProvisioned ==
    ASSUME ZInv, [zephyrNext]_zvars, ~Provisioned
    PROVE  ~Provisioned' /\ UNCHANGED Mapped
  <1>1. executing = None /\ executing' = None /\ build' = build /\ (build = "flash" => state' = state)
    <2>1. ZInv'
      BY ZStep
    <2>2. build' = build
      BY DEF zephyrNext, zvars, zephyrRecover, zephyrHandOver, zephyrPromote, zephyrCommit, zephyrRollback, updateState, stateCallFails,
           zephyrStage, flashOpen, flashOpenFails, flashWrite, flashWriteFails, ramWrite, ramNoSlot,
           stageWriteState, stageWriteStateFails, powerLoss, WriteFailed
    <2>3. build = "flash" => state' = state
      <3>1. ASSUME build = "flash" PROVE pc = "down" /\ zephyrState = None
        BY <3>1, ReadType DEF ZInv, ErasedIsDown
      <3>. QED
        BY <3>1 DEF zephyrNext, zvars, zephyrRecover, zephyrHandOver, zephyrPromote, zephyrCommit, zephyrRollback, updateState, Callable,
           stateCallFails, zephyrStage, flashOpen, flashOpenFails, flashWrite, flashWriteFails,
           ramWrite, ramNoSlot, stageWriteState, stageWriteStateFails, powerLoss, WriteFailed
    <2>4. ~Provisioned'
      BY <2>2, <2>3 DEF Provisioned
    <2>. QED
      BY <2>1, <2>2, <2>3, <2>4 DEF ZInv, FlashInv
  <1>2. ~Provisioned'
    BY <1>1 DEF Provisioned
  <1>. QED
    BY <1>1, <1>2 DEF Mapped

\* The journal of the engine is the one the flash build reads.
LEMMA ProvisionedReads == Provisioned => zephyrState = decode(state, None)
  BY DEF Provisioned, zephyrState

\* A provisioned device stays provisioned.
LEMMA StaysProvisioned ==
    ASSUME ZInv, [zephyrNext]_zvars, Provisioned
    PROVE  Provisioned' /\ zephyrState' = decode(state', None)
  <1>1. build = "flash" /\ build' = build
    BY DEF Provisioned, zephyrNext, zvars, zephyrRecover, zephyrHandOver, zephyrPromote, zephyrCommit, zephyrRollback, updateState,
         stateCallFails, zephyrStage, flashOpen, flashOpenFails, flashWrite, flashWriteFails,
         ramWrite, ramNoSlot, stageWriteState, stageWriteStateFails, powerLoss, WriteFailed
  <1>2. state' = state \/ \E st \in SlotStates : state' = encode(st)
    <2>1. zephyrState \in SlotStates
      BY ReadType DEF ZInv
    <2>2. CASE zephyrRecover
      BY <1>1, <2>1, <2>2, SuccessorNames DEF zephyrRecover, written
    <2>3. CASE zephyrPromote \/ zephyrCommit \/ zephyrRollback
      BY <1>1, <2>1, <2>3, SuccessorNames
      DEF zephyrPromote, zephyrCommit, zephyrRollback, updateState, written
    <2>4. CASE stageWriteState
      <3>1. upd.slot \in Slots
        BY <2>4 DEF stageWriteState, ZInv, StageInv, Staging
      <3>. QED
        BY <1>1, <2>4, <3>1 DEF stageWriteState, written, SlotStates
    <2>5. CASE ~(zephyrRecover \/ zephyrPromote \/ zephyrCommit \/ zephyrRollback \/ stageWriteState)
      BY <1>1, <2>5 DEF zephyrNext, zvars, zephyrHandOver, stateCallFails, zephyrStage, flashOpen, flashOpenFails,
           flashWrite, flashWriteFails, ramWrite, ramNoSlot, stageWriteStateFails, powerLoss,
           WriteFailed
    <2>. QED
      BY <2>2, <2>3, <2>4, <2>5
  <1>3. Provisioned'
    BY <1>1, <1>2, ErasedIsNoState DEF Provisioned
  <1>. QED
    BY <1>1, <1>3 DEF zephyrState

\* OtaEngine's journal operators are those of SlotState.
LEMMA SameOperators ==
    /\ Engine!Slots = Slots /\ Engine!SlotStates = SlotStates
    /\ \A s : Engine!ActiveSlot(s) = ActiveSlot(s) /\ Engine!Pending(s) = Pending(s)
    /\ \A st : /\ Engine!active_slot(st) = active_slot(st)
               /\ Engine!recovered(st) = recovered(st)
               /\ Engine!promoted(st) = promoted(st)
               /\ Engine!committed(st) = committed(st)
               /\ Engine!rolledback(st) = rolledback(st)
  BY DEF Engine!SlotStates, SlotStates, Engine!Slots, Engine!ActiveSlot, Engine!Pending, Engine!Testing,
     Engine!active_slot, Engine!recovered, Engine!promoted, Engine!committed,
     Engine!rolledback, Slots, ActiveSlot, Pending, Testing, active_slot, recovered,
     promoted, committed, rolledback

\* recover, promote, commit and rollback, the failing journal calls and the
\* jump.
LEMMA MapsCalls ==
    ASSUME ZInv, [zephyrNext]_zvars, Provisioned
    PROVE  /\ zephyrRecover  => Engine!recover
           /\ zephyrPromote  => Engine!promote
           /\ zephyrCommit   => Engine!commit
           /\ zephyrRollback => Engine!rollback
           /\ zephyrHandOver => Engine!handOver
           /\ stateCallFails => Engine!recoverFails \/ Engine!callRefused
  <1>1. Provisioned' /\ zephyrState' = decode(state', None)
    BY StaysProvisioned
  <1>2. zephyrState = decode(state, None) /\ zephyrState \in SlotStates
    BY ProvisionedReads, ReadType DEF ZInv
  <1>3. build = "flash"
    BY DEF Provisioned
  <1>. USE <1>1, <1>2, <1>3, SameOperators
  <1>9. Engine!Readable
    BY DEF Engine!Readable
  <1>4. zephyrRecover => Engine!recover
    BY <1>9, CallSteps DEF zephyrRecover, Callable, Engine!recover, Engine!Callable
  <1>5. zephyrPromote => Engine!promote
    BY <1>9, CallSteps DEF zephyrPromote, updateState, Callable, Engine!promote, Engine!Callable
  <1>6. zephyrCommit => Engine!commit
    <2>. SUFFICES ASSUME zephyrCommit PROVE Engine!commit
      OBVIOUS
    <2>1. /\ pc = "idle" /\ zephyrState.kind = "Testing"
          /\ executing \in Images \cup {None}
          /\ executing = slots[active_slot(zephyrState)]
      BY DEF zephyrCommit, updateState, Callable, RunsActive
    <2>2. executing \in Images
      BY <2>1, SuccessorNames DEF ZInv, FlashInv
    <2>3. zephyrState' = committed(zephyrState)
      BY CallSteps
    <2>. QED
      BY <1>9, <2>1, <2>2, <2>3 DEF zephyrCommit, updateState, Engine!commit, Engine!Callable,
         Engine!MayCommit
  <1>7. zephyrRollback => Engine!rollback
    BY <1>9, CallSteps DEF zephyrRollback, updateState, Callable, Engine!rollback,
       Engine!Callable
  <1>10. zephyrHandOver => Engine!handOver
    <2>. SUFFICES ASSUME zephyrHandOver PROVE Engine!handOver
      OBVIOUS
    <2>1. zephyrState' = zephyrState
      BY JournalKept DEF zephyrHandOver
    <2>. QED
      BY <1>9, <2>1 DEF zephyrHandOver, Engine!handOver
  <1>8. stateCallFails => Engine!recoverFails \/ Engine!callRefused
    BY DEF stateCallFails, Callable, Engine!recoverFails, Engine!callRefused, Engine!Callable
  <1>. QED
    BY <1>4, <1>5, <1>6, <1>7, <1>8, <1>10

\* stage up to its slot write: the packages of this module are the signed
\* ones, and the caller is the settled one.
LEMMA MapsStage ==
    ASSUME ZInv, [zephyrNext]_zvars, Provisioned,
           NEW slot \in PackageSlots, NEW image \in Images, zephyrStage(slot, image)
    PROVE  Engine!stageAny
  <1>1. Provisioned' /\ zephyrState' = decode(state', None)
    BY StaysProvisioned
  <1>2. zephyrState = decode(state, None) /\ zephyrState \in SlotStates
    BY ProvisionedReads, ReadType DEF ZInv
  <1>3. /\ pc = "idle" /\ zephyrState.kind = "Active"
        /\ executing \in Images \cup {None}
        /\ slot # active_slot(zephyrState)
        /\ executing = slots[active_slot(zephyrState)]
        /\ pc' = "write_slot" /\ upd' = [slot |-> slot, image |-> image]
        /\ UNCHANGED <<build, state, slots, executing, result>>
    BY DEF zephyrStage, Callable, RunsActive, Provisioned
  <1>4. Engine!Readable
    BY <1>2, SameOperators DEF Engine!Readable
  <1>. DEFINE size == [i \in Images |-> 1]
              signed == PackageSlots \X {1} \X Images
  <1>5. size[image] = 1 /\ <<slot, 1, image>> \in signed
    OBVIOUS
  <1>6. slot \in Engine!SlotBytes
    BY ZephyrAssumption DEF Engine!SlotBytes
  <1>7. Engine!stageVerdict(slot, 1, image, <<slot, 1, image>>) = "Ok"
    BY <1>5 DEF Engine!stageVerdict, Engine!verify, Engine!signedData
  <1>8. Engine!Callable /\ Engine!MayStage(slot)
    BY <1>2, <1>3, <1>4, SameOperators DEF Engine!Callable, Engine!MayStage
  <1>9. Engine!stage(slot, 1, image, <<slot, 1, image>>)
    BY <1>1, <1>2, <1>3, <1>7, <1>8 DEF Engine!stage
  <1>. QED
    BY <1>5, <1>6, <1>9 DEF Engine!stageAny

\* The slot write and the journal write of stage, whole or failing, and the
\* power cut.
LEMMA MapsWrites ==
    ASSUME ZInv, [zephyrNext]_zvars, Provisioned
    PROVE  /\ flashOpen => UNCHANGED Mapped
           /\ flashOpenFails \/ flashWriteFails => Engine!stageWriteSlotFails
           /\ flashWrite => Engine!stageWriteSlot
           /\ stageWriteState => Engine!stageWriteState
           /\ stageWriteStateFails => Engine!stageWriteStateFails
           /\ powerLoss => Engine!crash
           /\ ~ramWrite /\ ~ramNoSlot
  <1>1. Provisioned' /\ zephyrState' = decode(state', None)
    BY StaysProvisioned
  <1>2. zephyrState = decode(state, None) /\ zephyrState \in SlotStates
    BY ProvisionedReads, ReadType DEF ZInv
  <1>3. build = "flash"
    BY DEF Provisioned
  <1>4. pc = "flash_write" => upd.slot \in Slots
    BY DEF ZInv, StageInv, Staging
  <1>. USE <1>1, <1>2, <1>3, <1>4, SameOperators
  <1>5. flashOpen => UNCHANGED Mapped
    BY DEF flashOpen, Mapped
  <1>6. flashOpenFails \/ flashWriteFails => Engine!stageWriteSlotFails
    BY DEF flashOpenFails, flashWriteFails, WriteFailed, PartialFlash,
       Engine!stageWriteSlotFails, Engine!PartialWrite, Engine!target, Engine!slotsWith,
       ZInv, ZTypeInv
  <1>7. flashWrite => Engine!stageWriteSlot
    BY DEF flashWrite, Engine!stageWriteSlot, Engine!target, Engine!slotsWith, ZInv, ZTypeInv
  <1>8. stageWriteState => Engine!stageWriteState
    BY OfferStep DEF stageWriteState, Engine!stageWriteState
  <1>9. stageWriteStateFails => Engine!stageWriteStateFails
    BY DEF stageWriteStateFails, Engine!stageWriteStateFails
  <1>10. powerLoss => Engine!crash
    BY DEF powerLoss, PartialFlash, Engine!crash, Engine!PartialWrite, Engine!target,
       Engine!slotsWith, ZInv, ZTypeInv
  <1>11. ~ramWrite /\ ~ramNoSlot
    BY DEF ramWrite, ramNoSlot
  <1>. QED
    BY <1>5, <1>6, <1>7, <1>8, <1>9, <1>10, <1>11

\* Every step of the storage, every failing C call and every power cut
\* included, is a step of the engine over atomic storage or a stutter: a
\* failed flash write never becomes a recorded candidate.
THEOREM FlashIsAnEngine == zephyrSpec => ImplementsEngine
  <1>1. zephyrInit => Engine!Init
    <2>1. ActiveSlot(0) \in SlotStates
      BY DEF SlotStates, Slots
    <2>2. ASSUME zephyrInit, Provisioned
          PROVE  decode(state, None) = ActiveSlot(0)
                 /\ slots = [s \in Slots |-> IF s = 0 THEN Factory ELSE Empty]
      BY <2>1, <2>2, JournalRoundTrip DEF zephyrInit, Provisioned
    <2>. QED
      BY <2>2, SameOperators DEF zephyrInit, Engine!Init
  <1>2. ZInv /\ [zephyrNext]_zvars => [Engine!Next]_(Engine!vars)
    <2>. SUFFICES ASSUME ZInv, [zephyrNext]_zvars PROVE [Engine!Next]_(Engine!vars)
      OBVIOUS
    <2>1. UNCHANGED Mapped => UNCHANGED Engine!vars
      BY DEF Mapped, Engine!vars
    <2>2. CASE ~Provisioned
      BY <2>1, <2>2, NotProvisioned
    <2>3. CASE Provisioned
      <3>1. CASE zephyrRecover \/ zephyrHandOver \/ zephyrPromote \/ zephyrCommit
                 \/ zephyrRollback \/ stateCallFails
        BY <2>3, <3>1, MapsCalls DEF Engine!Next
      <3>2. CASE \E slot \in PackageSlots, image \in Images : zephyrStage(slot, image)
        BY <2>3, <3>2, MapsStage DEF Engine!Next
      <3>3. CASE flashOpen \/ flashOpenFails \/ flashWrite \/ flashWriteFails
                 \/ ramWrite \/ ramNoSlot
                 \/ stageWriteState \/ stageWriteStateFails \/ powerLoss
        BY <2>1, <2>3, <3>3, MapsWrites DEF Engine!Next
      <3>4. CASE UNCHANGED zvars
        BY <2>1, <3>4 DEF zvars, Mapped, Provisioned
      <3>. QED
        BY <3>1, <3>2, <3>3, <3>4 DEF zephyrNext
    <2>. QED
      BY <2>2, <2>3
  <1>. QED
    BY <1>1, <1>2, ZInit, ZStep, PTL DEF zephyrSpec, ImplementsEngine, Engine!Spec

\* What the engine promises of its image, on a flash device: whichever C call
\* failed and wherever power was lost, the slot repeated recover calls end in
\* holds a whole image, and the ECU executes only whole images.
THEOREM FlashNeverBricked == zephyrSpec => [](Engine!Recoverable /\ Engine!NeverBootsTorn)
  <1>1. ASSUME ZInv PROVE Engine!Recoverable /\ Engine!NeverBootsTorn
    <2>1. CASE ~Provisioned
      <3>1. executing = None
        BY <1>1, <2>1 DEF ZInv, FlashInv
      <3>. QED
        BY <2>1, <3>1, ZephyrAssumption, SameOperators
        DEF Engine!Recoverable, Engine!Readable, Engine!NeverBootsTorn,
           Engine!Lifeline, ActiveSlot, SlotStates, Slots
    <2>2. CASE Provisioned
      <3>1. /\ decode(state, None) = zephyrState
            /\ zephyrState \in SlotStates
            /\ \A s \in Named(zephyrState) : slots[s] \in Images
        BY <1>1, <2>2, ReadType, ProvisionedReads DEF ZInv, FlashInv
      <3>2. Engine!Lifeline(zephyrState) \in Named(zephyrState)
        BY <3>1, JournalCases DEF Engine!Lifeline, Named, ActiveSlot, Pending, Testing, Slots
      <3>3. Engine!Recoverable
        BY <2>2, <3>1, <3>2, SameOperators DEF Engine!Recoverable, Engine!Readable
      <3>5. Engine!NeverBootsTorn
        BY <1>1, <2>2 DEF ZInv, FlashInv, Engine!NeverBootsTorn
      <3>. QED
        BY <3>3, <3>5
    <2>. QED
      BY <2>1, <2>2
  <1>. QED
    BY <1>1, ZInit, ZStep, PTL DEF zephyrSpec
=============================================================================
