------------------------------ MODULE SlotState ------------------------------
(***************************************************************************)
(* The slot-state journal of the A/B update engine (core/src/ota.rs): the  *)
(* values of enum SlotState, the slot each one calls active, the two-byte  *)
(* encoding the storage backends persist, and the successor states that    *)
(* recover, promote, commit and rollback compute from the one they read.   *)
(***************************************************************************)
EXTENDS Naturals, Sequences

Slots == {0, 1}

ActiveSlot(s) == [kind |-> "Active", slot |-> s]
Pending(c)    == [kind |-> "Pending", candidate |-> c]
Testing(a, f) == [kind |-> "Testing", active |-> a, fallback |-> f]

\* Every value of the enum a decode can yield; the engine itself only ever
\* builds Testing(c, 1 - c).
SlotStates == {ActiveSlot(s) : s \in Slots}
              \cup {Pending(c) : c \in Slots}
              \cup {Testing(a, f) : a, f \in Slots}

\* SlotState::active_slot: the slot the engine considers to be running.
active_slot(st) ==
    IF st.kind = "Active" THEN st.slot
    ELSE IF st.kind = "Pending" THEN 1 - st.candidate
    ELSE st.active

\* Where repeated reboots end when nobody commits: recover takes Pending to
\* Testing and Testing to its fallback.
Lifeline(st) ==
    IF st.kind = "Active" THEN st.slot
    ELSE IF st.kind = "Pending" THEN 1 - st.candidate
    ELSE st.fallback

-----------------------------------------------------------------------------
\* SlotState::encode and SlotState::decode; None stands for Rust's None.
encode(st) ==
    IF st.kind = "Active" THEN <<0, st.slot>>
    ELSE IF st.kind = "Pending" THEN <<1, st.candidate>>
    ELSE <<2, st.active * 2 + st.fallback>>

decode(bytes, None) ==
    IF bytes[1] = 0 /\ bytes[2] <= 1 THEN ActiveSlot(bytes[2])
    ELSE IF bytes[1] = 1 /\ bytes[2] <= 1 THEN Pending(bytes[2])
    ELSE IF bytes[1] = 2 /\ bytes[2] \div 2 <= 1
    THEN Testing(bytes[2] \div 2, bytes[2] % 2)
    ELSE None

-----------------------------------------------------------------------------
\* Mutants of recovered: a trial interrupted by a reboot is tried again, or
\* is kept without a commit.
recoveredRetries(st) ==
    IF st.kind = "Pending" THEN Testing(st.candidate, 1 - st.candidate) ELSE st
recoveredKeeps(st) ==
    IF st.kind = "Pending" THEN Testing(st.candidate, 1 - st.candidate)
    ELSE IF st.kind = "Testing" THEN ActiveSlot(st.active)
    ELSE st

\* The state recover writes back for the state it read.
recovered(st) ==
    IF st.kind = "Pending" THEN Testing(st.candidate, 1 - st.candidate)
    ELSE IF st.kind = "Testing" THEN ActiveSlot(st.fallback)
    ELSE st

\* The states promote, commit and rollback write, from a state they accept.
promoted(st)   == Testing(st.candidate, 1 - st.candidate)
committed(st)  == ActiveSlot(st.active)
rolledback(st) == ActiveSlot(st.fallback)
=============================================================================
