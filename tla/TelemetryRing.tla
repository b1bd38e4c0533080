---------------------------- MODULE TelemetryRing ----------------------------
(***************************************************************************)
(* The fixed-capacity event buffer of core/src/safety.rs as operators on a *)
(* ring [buf, head, len] of capacity N, indexed from 0 as in the code.     *)
(***************************************************************************)
EXTENDS Integers, Sequences

CONSTANTS N, Records, Zero

ASSUME RingAssumption == N \in Nat \ {0} /\ Zero \notin Records

new == [buf |-> [i \in 0 .. N - 1 |-> Zero], head |-> 0, len |-> 0]

push(ring, record) ==
    [buf  |-> [ring.buf EXCEPT ![ring.head] = record],
     head |-> (ring.head + 1) % N,
     len  |-> IF ring.len < N THEN ring.len + 1 ELSE ring.len]

\* The stored records, oldest first.
iter(ring) ==
    LET start == IF ring.len = N THEN ring.head ELSE 0
    IN  [i \in 1 .. ring.len |-> ring.buf[(start + i - 1) % N]]

\* What a ring is for: the last N entries of a history.
LastN(history) ==
    IF Len(history) <= N THEN history
    ELSE SubSeq(history, Len(history) - N + 1, Len(history))
=============================================================================
