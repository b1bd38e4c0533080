--------------------------- MODULE SlotState_proofs ---------------------------
(***************************************************************************)
(* What the proofs about the engine and about its two storage back ends    *)
(* need of the journal: its values, their encoding in two bytes, and the   *)
(* slots that a state and its successors name.                             *)
(***************************************************************************)
EXTENDS SlotState, TLAPS

\* The journal is one of the three kinds, with slots for fields.
LEMMA JournalCases ==
    ASSUME NEW st \in SlotStates
    PROVE  \/ \E s \in Slots : st = ActiveSlot(s)
           \/ \E c \in Slots : st = Pending(c)
           \/ \E a, f \in Slots : st = Testing(a, f)
  BY DEF SlotStates

\* What recover computes from a journal value is a journal value.
LEMMA RecoveredType ==
    ASSUME NEW st \in SlotStates
    PROVE  recovered(st) \in SlotStates /\ active_slot(st) \in Slots
  BY JournalCases DEF SlotStates, Slots, recovered, active_slot, ActiveSlot, Pending, Testing

\* Every slot the journal names, as active, as candidate or as fallback.
Named(st) ==
    IF st.kind = "Active" THEN {st.slot}
    ELSE IF st.kind = "Pending" THEN {st.candidate, 1 - st.candidate}
    ELSE {st.active, st.fallback}

\* Slots that a journal state names are slots 0 and 1; the successor states
\* of recover, promote, commit and rollback name no other slot than the
\* state they are computed from.
LEMMA SuccessorNames ==
    ASSUME NEW st \in SlotStates
    PROVE  /\ Named(st) \subseteq Slots
           /\ Lifeline(st) \in Named(st)
           /\ active_slot(st) \in Named(st)
           /\ recovered(st) \in SlotStates
           /\ Named(recovered(st)) \subseteq Named(st)
           /\ st.kind = "Pending" =>
                promoted(st) \in SlotStates /\ Named(promoted(st)) \subseteq Named(st)
           /\ st.kind = "Testing" =>
                /\ committed(st) \in SlotStates /\ Named(committed(st)) \subseteq Named(st)
                /\ rolledback(st) \in SlotStates /\ Named(rolledback(st)) \subseteq Named(st)
  <1>. USE DEF Named, Lifeline, active_slot, recovered, promoted, committed, rolledback,
               SlotStates, ActiveSlot, Pending, Testing, Slots
  <1>1. CASE \E s \in Slots : st = ActiveSlot(s)
    BY <1>1
  <1>2. CASE \E c \in Slots : st = Pending(c)
    BY <1>2
  <1>3. CASE \E a, f \in Slots : st = Testing(a, f)
    BY <1>3
  <1>. QED
    BY <1>1, <1>2, <1>3

-----------------------------------------------------------------------------
\* Any two bytes decode to a state of the enum or to none.
LEMMA DecodeType ==
    ASSUME NEW None, NEW bytes \in Nat \X Nat
    PROVE  decode(bytes, None) \in SlotStates \cup {None}
  <1>1. PICK a \in Nat, b \in Nat : bytes = <<a, b>>
    OBVIOUS
  <1>2. b \div 2 \in Nat /\ b % 2 \in Slots
    BY DEF Slots
  <1>. QED
    BY <1>1, <1>2 DEF decode, SlotStates, Slots

\* decode undoes encode: no journal value is lost or becomes another one in
\* the two bytes the back ends persist.
THEOREM JournalRoundTrip ==
    ASSUME NEW None, NEW st \in SlotStates
    PROVE  encode(st) \in Nat \X Nat /\ decode(encode(st), None) = st
  <1>1. CASE \E s \in Slots : st = ActiveSlot(s)
    BY <1>1 DEF encode, decode, ActiveSlot, Slots
  <1>2. CASE \E c \in Slots : st = Pending(c)
    BY <1>2 DEF encode, decode, Pending, Slots
  <1>3. CASE \E a, f \in Slots : st = Testing(a, f)
    <2>1. PICK a \in Slots, f \in Slots : st = Testing(a, f)
      BY <1>3
    <2>2. /\ a * 2 + f \in Nat /\ (a * 2 + f) \div 2 = a /\ (a * 2 + f) % 2 = f
      BY DEF Slots
    <2>3. encode(st) = <<2, a * 2 + f>>
      BY <2>1 DEF encode, Testing
    <2>4. decode(<<2, a * 2 + f>>, None) = Testing(a, f)
      BY <2>2 DEF decode, Slots
    <2>. QED
      BY <2>1, <2>2, <2>3, <2>4
  <1>. QED
    BY <1>1, <1>2, <1>3, JournalCases

\* A Pending of a slot byte that no back end has is written by a stage whose
\* backend accepts the slot, but decodes to no state.
LEMMA PendingRoundTrip ==
    ASSUME NEW None, NEW c \in Nat
    PROVE  /\ encode(Pending(c)) \in Nat \X Nat
           /\ decode(encode(Pending(c)), None) \in {Pending(c), None}
           /\ decode(encode(Pending(c)), None) # None => c \in Slots
  <1>1. encode(Pending(c)) = <<1, c>>
    BY DEF encode, Pending
  <1>2. decode(<<1, c>>, None) = IF c <= 1 THEN Pending(c) ELSE None
    BY DEF decode
  <1>3. CASE c <= 1
    BY <1>1, <1>2, <1>3 DEF Slots
  <1>4. CASE ~(c <= 1)
    BY <1>1, <1>2, <1>4
  <1>. QED
    BY <1>3, <1>4
=============================================================================
