-------------------------- MODULE LaneKeeping_proofs --------------------------
(***************************************************************************)
(* Theorems about TelemetryRing and Interlock, for every capacity of the   *)
(* ring, every gain and every set of samples, and, in the second half,     *)
(* about LaneKeeping, for every queue length, every track and every number *)
(* of supervisor calls.                                                    *)
(***************************************************************************)
EXTENDS LaneKeeping, SequenceTheorems, FunctionTheorems, FiniteSetTheorems, TLAPS

-----------------------------------------------------------------------------
(* The ring *)

\* What `% N` does to the indices of the ring, which never reach 2N.
LEMMA RingIndex ==
    ASSUME NEW i \in 0 .. 2 * N - 1
    PROVE  i % N = IF i < N THEN i ELSE i - N
  <1>1. N \in Nat /\ N > 0
    BY RingAssumption
  <1>. QED
    BY <1>1

\* A ring and the history it records: below capacity the ring is the history
\* from slot 0; after that the slots before head hold the newest records and
\* the slots from head on the oldest ones kept.
RingHolds(ring, hist) ==
    /\ ring \in [buf : [0 .. N - 1 -> Records \cup {Zero}],
                 head : 0 .. N - 1, len : 0 .. N]
    /\ hist \in Seq(Records)
    /\ ring.head <= Len(hist)
    /\ Len(hist) < N => ring.len = Len(hist) /\ ring.head = Len(hist)
    /\ Len(hist) >= N => ring.len = N
    /\ \A k \in 0 .. N - 1 :
          /\ k < ring.head => ring.buf[k] = hist[Len(hist) - ring.head + k + 1]
          /\ k >= ring.head /\ Len(hist) >= N =>
                ring.buf[k] = hist[Len(hist) - ring.head + k + 1 - N]

\* push keeps a ring and its history together, also when head wraps.
LEMMA PushHolds ==
    ASSUME NEW ring, NEW hist, NEW record \in Records, RingHolds(ring, hist)
    PROVE  RingHolds(push(ring, record), Append(hist, record))
  <1>. DEFINE r2 == push(ring, record)
              h2 == Append(hist, record)
              L  == Len(hist)
              hd == ring.head
  <1>1. /\ N \in Nat /\ N > 0
        /\ L \in Nat
        /\ hd \in 0 .. N - 1 /\ hd <= L
        /\ L < N => hd = L
    BY RingAssumption, LenProperties DEF RingHolds
  <1>2. \A k \in 0 .. N - 1 :
          /\ k < hd => ring.buf[k] = hist[L - hd + k + 1]
          /\ k >= hd /\ L >= N => ring.buf[k] = hist[L - hd + k + 1 - N]
    BY DEF RingHolds
  <1>3. /\ h2 \in Seq(Records)
        /\ Len(h2) = L + 1
        /\ \A i \in 1 .. L : h2[i] = hist[i]
        /\ h2[L + 1] = record
    BY AppendProperties DEF RingHolds
  <1>4. r2.head = IF hd + 1 < N THEN hd + 1 ELSE 0
    <2>. DEFINE next == hd + 1
    <2>1. next \in 0 .. 2 * N - 1
      BY <1>1
    <2>2. r2.head = next % N
      BY DEF push
    <2>. HIDE DEF r2, hd, next
    <2>3. r2.head = IF next < N THEN next ELSE next - N
      BY <2>1, <2>2, RingIndex, Zenon
    <2>. QED
      BY <1>1, <2>3 DEF next
  <1>5. r2.len = IF ring.len < N THEN ring.len + 1 ELSE ring.len
    BY DEF push
  <1>6. \A k \in 0 .. N - 1 : r2.buf[k] = IF k = hd THEN record ELSE ring.buf[k]
    BY DEF push, RingHolds
  <1>7. r2 \in [buf : [0 .. N - 1 -> Records \cup {Zero}],
                head : 0 .. N - 1, len : 0 .. N]
    BY <1>1, <1>4 DEF push, RingHolds
  <1>. HIDE DEF r2, h2, L, hd
  <1>8. ASSUME NEW k \in 0 .. N - 1
        PROVE  /\ k < r2.head => r2.buf[k] = h2[Len(h2) - r2.head + k + 1]
               /\ k >= r2.head /\ Len(h2) >= N =>
                     r2.buf[k] = h2[Len(h2) - r2.head + k + 1 - N]
    <2>1. CASE k = hd
      <3>1. /\ k < r2.head => Len(h2) - r2.head + k + 1 = L + 1
            /\ k >= r2.head => Len(h2) - r2.head + k + 1 - N = L + 1
        <4>1. CASE hd + 1 < N
          BY <1>1, <1>3, <1>4, <2>1, <4>1
        <4>2. CASE ~(hd + 1 < N)
          <5>1. r2.head = 0 /\ hd + 1 = N /\ k = hd /\ ~(k < r2.head)
            BY <1>1, <1>4, <2>1, <4>2
          <5>. QED
            BY <1>1, <1>3, <5>1
        <4>. QED
          BY <4>1, <4>2
      <3>. QED
        BY <1>3, <1>6, <2>1, <3>1
    <2>2. CASE k < hd
      <3>1. L - hd + k + 1 \in 1 .. L
        BY <1>1, <2>2
      <3>2. r2.buf[k] = h2[L - hd + k + 1]
        BY <1>2, <1>3, <1>6, <2>2, <3>1
      <3>3. /\ k < r2.head => Len(h2) - r2.head + k + 1 = L - hd + k + 1
            /\ k >= r2.head => Len(h2) - r2.head + k + 1 - N = L - hd + k + 1
        BY <1>1, <1>3, <1>4, <2>2
      <3>. QED
        BY <3>2, <3>3
    <2>3. CASE k > hd
      <3>1. hd + 1 < N /\ r2.head = hd + 1 /\ ~(k < r2.head)
        BY <1>1, <1>4, <2>3
      <3>2. SUFFICES ASSUME Len(h2) >= N
                     PROVE  r2.buf[k] = h2[Len(h2) - r2.head + k + 1 - N]
        BY <3>1
      <3>3. L >= N
        BY <1>1, <1>3, <3>1, <3>2
      <3>4. L - hd + k + 1 - N \in 1 .. L
        BY <1>1, <2>3, <3>3
      <3>5. Len(h2) - r2.head + k + 1 - N = L - hd + k + 1 - N
        BY <1>1, <1>3, <3>1
      <3>6. ring.buf[k] = hist[L - hd + k + 1 - N] /\ r2.buf[k] = ring.buf[k]
        BY <1>1, <1>2, <1>6, <2>3, <3>3
      <3>. QED
        BY <1>3, <3>4, <3>5, <3>6
    <2>. QED
      BY <1>1, <2>1, <2>2, <2>3
  <1>9. /\ r2.head <= Len(h2)
        /\ Len(h2) < N => r2.len = Len(h2) /\ r2.head = Len(h2)
        /\ Len(h2) >= N => r2.len = N
    <2>1. /\ L < N => ring.len = L
          /\ L >= N => ring.len = N
      BY DEF RingHolds, L
    <2>. QED
      BY <1>1, <1>3, <1>4, <1>5, <2>1
  <1>. QED
    BY <1>3, <1>7, <1>8, <1>9 DEF r2, h2, RingHolds

\* Reading such a ring gives the last N records of the history.
LEMMA IterIsLastN ==
    ASSUME NEW ring, NEW hist, RingHolds(ring, hist)
    PROVE  iter(ring) = LastN(hist)
  <1>. DEFINE L  == Len(hist)
              hd == ring.head
              start == IF ring.len = N THEN hd ELSE 0
              last == LastN(hist)
  <1>1. /\ N \in Nat /\ N > 0
        /\ L \in Nat
        /\ hist \in [1 .. L -> Records]
        /\ hd \in 0 .. N - 1 /\ hd <= L
        /\ L < N => hd = L /\ ring.len = L
        /\ L >= N => ring.len = N
    BY RingAssumption, LenProperties DEF RingHolds
  <1>2. \A k \in 0 .. N - 1 :
          /\ k < hd => ring.buf[k] = hist[L - hd + k + 1]
          /\ k >= hd /\ L >= N => ring.buf[k] = hist[L - hd + k + 1 - N]
    BY DEF RingHolds
  <1>3. last = [i \in 1 .. ring.len |-> hist[L - ring.len + i]]
    <2>1. CASE L <= N
      <3>1. last = hist
        BY <2>1 DEF LastN
      <3>2. ring.len = L
        BY <1>1, <2>1
      <3>. HIDE DEF L, last
      <3>3. \A i \in 1 .. L : L - L + i = i
        BY <1>1
      <3>. QED
        BY <1>1, <3>1, <3>2, <3>3
    <2>2. CASE L > N
      <3>1. last = SubSeq(hist, L - N + 1, L)
        BY <1>1, <2>2 DEF LastN
      <3>. HIDE DEF L, last
      <3>2. \A i \in L - N + 1 .. L : hist[i] \in Records
        BY <1>1, <2>2
      <3>3. /\ last \in Seq(Records)
            /\ Len(last) = N
            /\ \A i \in 1 .. N : last[i] = hist[(L - N + 1) + i - 1]
        BY <1>1, <2>2, <3>1, <3>2, SubSeqProperties
      <3>4. last = [i \in 1 .. N |-> last[i]]
        BY <3>3, LenProperties
      <3>5. \A i \in 1 .. N : (L - N + 1) + i - 1 = L - N + i
        BY <1>1
      <3>. QED
        BY <1>1, <2>2, <3>3, <3>4, <3>5
    <2>. QED
      BY <1>1, <2>1, <2>2
  <1>4. iter(ring) = [i \in 1 .. ring.len |-> ring.buf[(start + i - 1) % N]]
    BY Zenon DEF iter
  <1>. HIDE DEF L, hd, last
  <1>5. ASSUME NEW i \in 1 .. ring.len
        PROVE  ring.buf[(start + i - 1) % N] = hist[L - ring.len + i]
    <2>. DEFINE k == start + i - 1
    <2>0. start \in 0 .. N - 1 /\ k \in 0 .. 2 * N - 1
      BY <1>1
    <2>. HIDE DEF k
    <2>1. k % N = IF k < N THEN k ELSE k - N
      BY <2>0, RingIndex, Zenon
    <2>2. CASE k < N
      <3>1. k \in 0 .. N - 1
        BY <1>1, <2>0, <2>2
      <3>2. ring.buf[k] = hist[L - ring.len + i]
        <4>1. CASE L < N
          BY <1>1, <1>2, <2>0, <3>1, <4>1 DEF k
        <4>2. CASE L >= N
          <5>1. k >= hd /\ L - hd + k + 1 - N = L - ring.len + i
            BY <1>1, <4>2 DEF k
          <5>. QED
            BY <1>2, <3>1, <4>2, <5>1
        <4>. QED
          BY <1>1, <4>1, <4>2
      <3>3. k % N = k
        BY <2>1, <2>2, Zenon
      <3>. QED
        BY <3>2, <3>3, Zenon DEF k
    <2>3. CASE ~(k < N)
      <3>1. L >= N
        BY <1>1, <2>0, <2>3 DEF k
      <3>2. /\ k - N \in 0 .. N - 1 /\ k - N < hd
            /\ L - hd + (k - N) + 1 = L - ring.len + i
        BY <1>1, <2>0, <2>3, <3>1 DEF k
      <3>3. ring.buf[k - N] = hist[L - ring.len + i]
        BY <1>2, <3>2
      <3>4. k % N = k - N
        BY <2>1, <2>3, Zenon
      <3>. QED
        BY <3>3, <3>4, Zenon DEF k
    <2>. QED
      BY <2>2, <2>3
  <1>. QED
    BY <1>3, <1>4, <1>5, Zenon DEF last

-----------------------------------------------------------------------------
(* The interlock *)

\* What the calls keep between the audit ring, the history and the state.
InterlockInv ==
    /\ RingHolds(events, history)
    /\ state \in {"Armed", "Disarmed"}
    /\ last_offset_cm \in Int \cup {None}

\* Init establishes it: an empty ring for an empty history.
LEMMA InterlockStart == Init => InterlockInv
  <1>. SUFFICES ASSUME Init PROVE InterlockInv
    OBVIOUS
  <1>1. N \in Nat /\ N > 0
    BY RingAssumption
  <1>2. history \in Seq(Records) /\ Len(history) = 0
    BY DEF Init
  <1>3. RingHolds(events, history)
    BY <1>1, <1>2 DEF Init, new, RingHolds
  <1>. QED
    BY <1>3 DEF Init, InterlockInv

\* arm and disarm keep it, whatever the state they find.
LEMMA SupervisorStep == InterlockInv /\ (arm \/ disarm) => InterlockInv'
  <1>. SUFFICES ASSUME InterlockInv, arm \/ disarm PROVE InterlockInv'
    OBVIOUS
  <1>1. ASSUME NEW to \in {"Armed", "Disarmed"}, NEW code \in Records,
               transition(to, code)
        PROVE  InterlockInv'
    BY <1>1, PushHolds DEF InterlockInv, transition, stack
  <1>2. "TELEMETRY_ARM" \in Records /\ "TELEMETRY_DISARM" \in Records
    BY InterlockAssumption
  <1>. QED
    BY <1>1, <1>2, Zenon DEF arm, disarm

\* So does every step that leaves the supervisor's state alone and gives the
\* stack an integer offset.
LEMMA StackStep ==
    ASSUME InterlockInv, UNCHANGED <<state, events, history>>,
           last_offset_cm' \in Int \cup {None}
    PROVE  InterlockInv'
  BY DEF InterlockInv

\* Every call of the interlock keeps it.
LEMMA InterlockStep == InterlockInv /\ [Next]_svars => InterlockInv'
  <1>. SUFFICES ASSUME InterlockInv, [Next]_svars PROVE InterlockInv'
    OBVIOUS
  <1>1. CASE arm \/ disarm
    BY <1>1, SupervisorStep
  <1>2. ASSUME NEW kind, NEW value \in Offsets, NEW t \in Times,
               ingest(kind, value, t)
        PROVE  InterlockInv'
    BY <1>2, StackStep, InterlockAssumption DEF ingest, stack, InterlockInv
  <1>3. ASSUME NEW speed, next_command(speed) PROVE InterlockInv'
    BY <1>3, StackStep DEF next_command, stack, InterlockInv
  <1>4. CASE UNCHANGED svars
    BY <1>4, StackStep DEF svars, stack, InterlockInv
  <1>. QED
    BY <1>1, <1>2, <1>3, <1>4 DEF Next

\* The audit trail a field engineer reads is the last N arm and disarm calls,
\* oldest first, for every capacity and however often the ring has wrapped.
THEOREM AuditExact == Spec => []AuditIsLastN
  <1>1. InterlockInv => AuditIsLastN
    BY IterIsLastN DEF InterlockInv, AuditIsLastN
  <1>. QED
    BY <1>1, InterlockStart, InterlockStep, PTL DEF Spec

-----------------------------------------------------------------------------
(* The arithmetic of the stack *)

\* A product of positive integers is positive, and one of a negative and a
\* positive integer is negative.
LEMMA ProductSign ==
    ASSUME NEW x \in Int, NEW y \in Int, y > 0
    PROVE  /\ x * y \in Int
           /\ x > 0 => x * y > 0
           /\ x < 0 => x * y < 0
  OBVIOUS

\* `as i16` is the identity on the values that fit.
LEMMA CutToI16 ==
    ASSUME NEW x \in Int
    PROVE  /\ as_i16(x) \in Int
           /\ x >= -32768 /\ x <= 32767 => as_i16(x) = x
  <1>. DEFINE y == x + 32768
  <1>1. y \in Int /\ (x >= -32768 /\ x <= 32767 => y >= 0 /\ y < 65536)
    OBVIOUS
  <1>2. as_i16(x) = (y % 65536) - 32768
    BY DEF as_i16
  <1>3. x = y - 32768
    OBVIOUS
  <1>. HIDE DEF y
  <1>4. y % 65536 \in Int /\ (y >= 0 /\ y < 65536 => y % 65536 = y)
    BY <1>1
  <1>. QED
    BY <1>1, <1>2, <1>3, <1>4

\* clamp keeps the bounds and the sign.
LEMMA ClampRange ==
    ASSUME NEW x \in Int, NEW bound \in Nat, bound > 0
    PROVE  /\ clamp(x, -bound, bound) \in -bound .. bound
           /\ x > 0 => clamp(x, -bound, bound) > 0
           /\ x < 0 => clamp(x, -bound, bound) < 0
  BY DEF clamp

\* saturating_mul keeps the sign of the product.
LEMMA SaturatingSign ==
    ASSUME NEW x \in Int, NEW y \in Int
    PROVE  /\ saturating_mul(x, y) \in Int
           /\ x > 0 /\ y > 0 => saturating_mul(x, y) > 0
           /\ x < 0 /\ y > 0 => saturating_mul(x, y) < 0
  <1>. DEFINE p == x * y
  <1>1. p \in Int /\ (x > 0 /\ y > 0 => p > 0) /\ (x < 0 /\ y > 0 => p < 0)
    BY ProductSign
  <1>. HIDE DEF p
  <1>2. saturating_mul(x, y) = clamp(p, -32768, 32767)
    BY DEF saturating_mul, p
  <1>3. /\ clamp(p, -32768, 32767) \in Int
        /\ p > 0 => clamp(p, -32768, 32767) > 0
        /\ p < 0 => clamp(p, -32768, 32767) < 0
    BY <1>1 DEF clamp
  <1>. QED
    BY <1>1, <1>2, <1>3

\* steer stays within the actuator's range for every offset, and for one that
\* fits 16 bits it keeps the side of the offset: the product saturates.
LEMMA SteerRange ==
    ASSUME NEW offset \in Int
    PROVE  /\ steer(offset) \in -MAX_STEER .. MAX_STEER
           /\ offset >= -32768 /\ offset <= 32767 =>
                 /\ offset > 0 /\ gain > 0 => steer(offset) > 0
                 /\ offset < 0 /\ gain > 0 => steer(offset) < 0
  <1>. DEFINE cut == as_i16(offset)
              turned == saturating_mul(cut, gain)
  <1>1. cut \in Int /\ (offset >= -32768 /\ offset <= 32767 => cut = offset)
    BY CutToI16
  <1>2. gain \in Int
    BY InterlockAssumption
  <1>. HIDE DEF cut
  <1>3. /\ turned \in Int
        /\ cut > 0 /\ gain > 0 => turned > 0
        /\ cut < 0 /\ gain > 0 => turned < 0
    BY <1>1, <1>2, SaturatingSign
  <1>. HIDE DEF turned
  <1>4. steer(offset) = clamp(turned, -MAX_STEER, MAX_STEER)
    BY DEF steer, clamp_steer, cut, turned
  <1>5. MAX_STEER \in Nat /\ MAX_STEER > 0
    BY DEF MAX_STEER
  <1>6. /\ clamp(turned, -MAX_STEER, MAX_STEER) \in -MAX_STEER .. MAX_STEER
        /\ turned > 0 => clamp(turned, -MAX_STEER, MAX_STEER) > 0
        /\ turned < 0 => clamp(turned, -MAX_STEER, MAX_STEER) < 0
    BY <1>3, <1>5, ClampRange, Zenon
  <1>. QED
    BY <1>1, <1>3, <1>4, <1>6

\* steer is an integer.
LEMMA SteerInt == ASSUME NEW offset \in Int PROVE steer(offset) \in Int
  <1>1. steer(offset) \in -MAX_STEER .. MAX_STEER
    BY SteerRange
  <1>2. MAX_STEER \in Int
    BY DEF MAX_STEER
  <1>. QED
    BY <1>1, <1>2

\* Every offset the stack can hold is steered within range and to its side.
THEOREM SteeringSafe == Spec => []SteersInRange
  <1>1. InterlockInv => SteersInRange
    <2>1. CASE last_offset_cm = None
      BY <2>1 DEF SteersInRange
    <2>2. CASE last_offset_cm \in Int
      BY <2>2, SteerRange DEF SteersInRange
    <2>. QED
      BY <2>1, <2>2 DEF InterlockInv
  <1>. QED
    BY <1>1, InterlockStart, InterlockStep, PTL DEF Spec

-----------------------------------------------------------------------------
(* Counting commands in a queue *)

SensorFrames  == [id : {512}, value : Int, timestamp : Nat]
CommandFrames == [id : {768}, steer : Int, timestamp : Nat]
Frames        == SensorFrames \cup CommandFrames

\* There are at most as many commands in a queue as frames.
LEMMA CountBounds ==
    ASSUME NEW q \in Seq(Frames)
    PROVE  /\ commandsIn(q) \in Nat
           /\ commandsIn(q) <= Len(q)
  <1>. DEFINE C == {i \in DOMAIN q : q[i].id = 768}
  <1>1. Len(q) \in Nat /\ DOMAIN q = 1 .. Len(q)
    BY LenProperties
  <1>2. IsFiniteSet(1 .. Len(q)) /\ Cardinality(1 .. Len(q)) = Len(q)
    BY <1>1, FS_Interval
  <1>3. C \in SUBSET (1 .. Len(q))
    BY <1>1
  <1>. HIDE DEF C
  <1>4. IsFiniteSet(C) /\ Cardinality(C) <= Len(q)
    BY <1>2, <1>3, FS_Subset
  <1>5. Cardinality(C) \in Nat
    BY <1>4, FS_CardinalityType
  <1>. QED
    BY <1>4, <1>5 DEF commandsIn, C

\* A frame put at the end of a queue counts if it is a command.
LEMMA CountAppend ==
    ASSUME NEW q \in Seq(Frames), NEW f \in Frames
    PROVE  commandsIn(Append(q, f)) = commandsIn(q) + (IF f.id = 768 THEN 1 ELSE 0)
  <1>. DEFINE C == {i \in DOMAIN q : q[i].id = 768}
              D == {i \in DOMAIN Append(q, f) : Append(q, f)[i].id = 768}
              n == Len(q) + 1
  <1>1. Len(q) \in Nat /\ DOMAIN q = 1 .. Len(q)
    BY LenProperties
  <1>2. /\ DOMAIN Append(q, f) = 1 .. n
        /\ \A i \in 1 .. Len(q) : Append(q, f)[i] = q[i]
        /\ Append(q, f)[n] = f
    BY AppendProperties, LenProperties
  <1>3. n \notin C /\ D = IF f.id = 768 THEN C \cup {n} ELSE C
    BY <1>1, <1>2
  <1>4. IsFiniteSet(C)
    <2>1. IsFiniteSet(1 .. Len(q)) /\ C \in SUBSET (1 .. Len(q))
      BY <1>1, FS_Interval
    <2>. HIDE DEF C
    <2>. QED
      BY <2>1, FS_Subset, Zenon
  <1>5. Cardinality(C) \in Nat
    BY <1>4, FS_CardinalityType
  <1>. HIDE DEF C, D, n
  <1>6. Cardinality(C \cup {n}) = Cardinality(C) + 1
    <2>1. Cardinality(C \cup {n}) =
            IF n \in C THEN Cardinality(C) ELSE Cardinality(C) + 1
      BY <1>4, FS_AddElement, Zenon
    <2>. QED
      BY <1>3, <2>1
  <1>7. Cardinality(D) = Cardinality(C) + (IF f.id = 768 THEN 1 ELSE 0)
    BY <1>3, <1>5, <1>6
  <1>. QED
    BY <1>7 DEF commandsIn, C, D

\* Taking the first frame of a queue takes a command if it is one.
LEMMA CountTail ==
    ASSUME NEW q \in Seq(Frames), q # <<>>
    PROVE  commandsIn(q) = commandsIn(Tail(q)) + (IF Head(q).id = 768 THEN 1 ELSE 0)
  <1>. DEFINE C == {i \in DOMAIN q : q[i].id = 768}
              D == {i \in DOMAIN Tail(q) : Tail(q)[i].id = 768}
              shift == [i \in D |-> i + 1]
  <1>1. Len(q) \in Nat \ {0} /\ DOMAIN q = 1 .. Len(q) /\ Head(q) = q[1]
    BY LenProperties, EmptySeq
  <1>2. /\ DOMAIN Tail(q) = 1 .. Len(q) - 1
        /\ \A i \in 1 .. Len(q) - 1 : Tail(q)[i] = q[i + 1]
    BY HeadTailProperties, LenProperties
  <1>3. \A i \in D : i \in Int /\ i + 1 \in C \ {1}
    BY <1>1, <1>2
  <1>4. \A j \in C \ {1} : j - 1 \in D /\ (j - 1) + 1 = j
    BY <1>1, <1>2
  <1>5. IsFiniteSet(C) /\ IsFiniteSet(D)
    <2>1. IsFiniteSet(1 .. Len(q))
      BY <1>1, FS_Interval
    <2>2. C \in SUBSET (1 .. Len(q)) /\ D \in SUBSET (1 .. Len(q))
      BY <1>1, <1>2
    <2>. HIDE DEF C, D
    <2>. QED
      BY <2>1, <2>2, FS_Subset, Zenon
  <1>6. 1 \in C <=> Head(q).id = 768
    BY <1>1
  <1>. HIDE DEF C, D
  <1>7. shift \in Bijection(D, C \ {1})
    <2>1. shift \in [D -> C \ {1}]
      BY <1>3
    <2>2. \A a, b \in D : shift[a] = shift[b] => a = b
      BY <1>3
    <2>3. \A j \in C \ {1} : \E i \in D : shift[i] = j
      BY <1>4
    <2>. QED
      BY <2>1, <2>2, <2>3, Fun_IsBij
  <1>8. Cardinality(D) = Cardinality(C \ {1})
    BY <1>5, <1>7, FS_Bijection, FS_RemoveElement, Zenon DEF ExistsBijection
  <1>9. Cardinality(C) \in Nat /\ Cardinality(D) \in Nat
    BY <1>5, FS_CardinalityType
  <1>10. Cardinality(C) = Cardinality(D) + (IF Head(q).id = 768 THEN 1 ELSE 0)
    <2>1. Cardinality(C \ {1}) =
            IF 1 \in C THEN Cardinality(C) - 1 ELSE Cardinality(C)
      BY <1>5, FS_RemoveElement, Zenon
    <2>. QED
      BY <1>6, <1>8, <1>9, <2>1
  <1>. QED
    BY <1>10 DEF commandsIn, C, D

-----------------------------------------------------------------------------
(* Timestamps in a queue *)

\* The frames of one identifier carry timestamps between lo and hi and never
\* decreasing; frames of other identifiers may lie between them.
Sorted(q, id, lo, hi) ==
    \A i \in 1 .. Len(q) : q[i].id = id =>
        /\ lo <= q[i].timestamp /\ q[i].timestamp <= hi
        /\ \A j \in i .. Len(q) : q[j].id = id => q[i].timestamp <= q[j].timestamp

\* A frame no older than the rest may be appended, and hi may grow.
LEMMA SortedAppend ==
    ASSUME NEW q \in Seq(Frames), NEW f \in Frames, NEW id,
           NEW lo \in Nat, NEW hi \in Nat, NEW hi2 \in Nat,
           Sorted(q, id, lo, hi), lo <= hi, hi <= hi2,
           f.id = id => hi <= f.timestamp /\ f.timestamp <= hi2
    PROVE  Sorted(q, id, lo, hi2) /\ Sorted(Append(q, f), id, lo, hi2)
  <1>1. Len(q) \in Nat /\ \A i \in 1 .. Len(q) : q[i] \in Frames
    BY LenProperties, ElementOfSeq
  <1>2. \A g \in Frames : g.timestamp \in Nat
    BY DEF Frames, SensorFrames, CommandFrames
  <1>3. /\ Len(Append(q, f)) = Len(q) + 1
        /\ \A i \in 1 .. Len(q) : Append(q, f)[i] = q[i]
        /\ Append(q, f)[Len(q) + 1] = f
    BY AppendProperties
  <1>4. \A i \in 1 .. Len(q) : q[i].id = id =>
           lo <= q[i].timestamp /\ q[i].timestamp <= hi2
    BY <1>1, <1>2 DEF Sorted
  <1>5. Sorted(q, id, lo, hi2)
    BY <1>4 DEF Sorted
  <1>. DEFINE q2 == Append(q, f)
  <1>. HIDE DEF q2
  <1>6. ASSUME NEW i \in 1 .. Len(q2), q2[i].id = id
        PROVE  /\ lo <= q2[i].timestamp /\ q2[i].timestamp <= hi2
               /\ \A j \in i .. Len(q2) : q2[j].id = id =>
                     q2[i].timestamp <= q2[j].timestamp
    <2>1. CASE i = Len(q) + 1
      BY <1>1, <1>2, <1>3, <1>6, <2>1 DEF q2
    <2>2. CASE i \in 1 .. Len(q)
      <3>1. q2[i] = q[i] /\ q[i].id = id /\ q[i].timestamp \in Nat /\ f.timestamp \in Nat
        BY <1>1, <1>2, <1>3, <1>6, <2>2 DEF q2
      <3>2. lo <= q[i].timestamp /\ q[i].timestamp <= hi
        BY <2>2, <3>1 DEF Sorted
      <3>3. ASSUME NEW j \in i .. Len(q2), q2[j].id = id
            PROVE  q2[i].timestamp <= q2[j].timestamp
        <4>1. CASE j = Len(q) + 1
          BY <1>3, <3>1, <3>2, <3>3, <4>1 DEF q2
        <4>2. CASE j \in i .. Len(q)
          BY <1>1, <1>3, <2>2, <3>1, <3>3, <4>2 DEF q2, Sorted
        <4>. QED
          BY <1>1, <1>3, <2>2, <3>3, <4>1, <4>2 DEF q2
      <3>. QED
        BY <3>1, <3>2, <3>3
    <2>. QED
      BY <1>1, <1>3, <2>1, <2>2 DEF q2
  <1>. QED
    BY <1>5, <1>6 DEF Sorted, q2

\* What is left after the first frame is no older than it.
LEMMA SortedTail ==
    ASSUME NEW q \in Seq(Frames), q # <<>>, NEW id,
           NEW lo \in Nat, NEW hi \in Nat, Sorted(q, id, lo, hi)
    PROVE  /\ Head(q) \in Frames
           /\ Head(q).id = id => lo <= Head(q).timestamp /\ Head(q).timestamp <= hi
           /\ Sorted(Tail(q), id, IF Head(q).id = id THEN Head(q).timestamp ELSE lo, hi)
  <1>1. Len(q) \in Nat \ {0} /\ Head(q) = q[1] /\ q[1] \in Frames
    BY EmptySeq, HeadTailProperties
  <1>2. /\ Len(Tail(q)) = Len(q) - 1
        /\ \A i \in 1 .. Len(Tail(q)) : Tail(q)[i] = q[i + 1]
    BY HeadTailProperties
  <1>. DEFINE t == Tail(q)
              lo2 == IF q[1].id = id THEN q[1].timestamp ELSE lo
  <1>3. ASSUME NEW i \in 1 .. Len(t), t[i].id = id
        PROVE  /\ lo2 <= t[i].timestamp /\ t[i].timestamp <= hi
               /\ \A j \in i .. Len(t) : t[j].id = id => t[i].timestamp <= t[j].timestamp
    <2>. HIDE DEF t
    <2>1. t[i] = q[i + 1] /\ i + 1 \in 1 .. Len(q) /\ q[i + 1].id = id
      BY <1>1, <1>2, <1>3 DEF t
    <2>2. lo <= t[i].timestamp /\ t[i].timestamp <= hi
      BY <2>1 DEF Sorted
    <2>3. q[1].id = id => q[1].timestamp <= t[i].timestamp
      <3>1. 1 \in 1 .. Len(q) /\ i + 1 \in 1 .. Len(q)
        BY <1>1, <2>1
      <3>. QED
        BY <2>1, <3>1 DEF Sorted
    <2>4. ASSUME NEW j \in i .. Len(t), t[j].id = id
          PROVE  t[i].timestamp <= t[j].timestamp
      <3>1. t[j] = q[j + 1] /\ j + 1 \in (i + 1) .. Len(q)
        BY <1>1, <1>2, <2>4 DEF t
      <3>. QED
        BY <2>1, <2>4, <3>1 DEF Sorted
    <2>. QED
      BY <2>2, <2>3, <2>4
  <1>4. Sorted(t, id, lo2, hi)
    BY <1>3 DEF Sorted
  <1>5. Head(q).id = id => lo <= Head(q).timestamp /\ Head(q).timestamp <= hi
    BY <1>1 DEF Sorted
  <1>. QED
    BY <1>1, <1>4, <1>5

-----------------------------------------------------------------------------
(* The invariants of the loop *)

\* The bus stays on with all three nodes, no queue exceeds its length, and
\* the ECU, which hears the sensor only, queues nothing but samples.
QueueInv ==
    /\ attached = Ends /\ bus_off = FALSE
    /\ queue \in [Ends -> Seq(Frames)]
    /\ \A n \in Ends : Len(queue[n]) <= SIM_RX_QUEUE_LEN
    /\ \A i \in 1 .. Len(queue["ecu"]) : queue["ecu"][i] \in SensorFrames

Commands == [steer : Int, throttle : Int, brake : Int, timestamp : Nat]

\* From the actuator back to the sensor, time never decreases: acting, the
\* commands queued, the one held, seen, the samples queued, published.
OrderInv ==
    /\ published \in 0 .. Len(Track) /\ seen \in Nat /\ acting \in Nat
    /\ acting <= seen /\ seen <= published
    /\ last_timestamp = seen
    /\ command \in Commands \cup {None, Panic}
    /\ at \in {"ingest", "command", "dispatch", "panicked"}
    /\ at = "dispatch" => command \in Commands /\ command.timestamp = seen
    /\ Sorted(queue["ecu"], 512, seen, published)
    /\ Sorted(queue["actuator"], 768, acting, seen)

\* While armed nothing is late; a disarm starts from there.
LagInv ==
    /\ late \in Nat
    /\ state = "Armed" => late = 0
    /\ KillSwitchLagIsBounded

LoopInv == InterlockInv /\ QueueInv /\ OrderInv /\ LagInv

\* A transmit reaches every other node that has room.
LEMMA TransmitStep ==
    ASSUME QueueInv, NEW sender \in Ends, NEW f \in Frames,
           sender # "ecu" => f \in SensorFrames, BUS!transmit(sender, f, TRUE)
    PROVE  /\ QueueInv'
           /\ \A n \in Ends : queue'[n] =
                 IF n # sender /\ Len(queue[n]) < SIM_RX_QUEUE_LEN
                 THEN Append(queue[n], f) ELSE queue[n]
  <1>1. UNCHANGED <<attached, bus_off>> /\ attached = Ends /\ bus_off = FALSE
    BY DEF QueueInv, BUS!transmit
  <1>2. queue' = [n \in Ends |->
                    IF n # sender /\ Len(queue[n]) < SIM_RX_QUEUE_LEN
                    THEN Append(queue[n], f) ELSE queue[n]]
    BY <1>1 DEF BUS!transmit, BUS!send, BUS!broadcast
  <1>3. \A n \in Ends : queue'[n] =
           IF n # sender /\ Len(queue[n]) < SIM_RX_QUEUE_LEN
           THEN Append(queue[n], f) ELSE queue[n]
    BY <1>2
  <1>4. ASSUME NEW n \in Ends
        PROVE  queue'[n] \in Seq(Frames) /\ Len(queue'[n]) <= SIM_RX_QUEUE_LEN
    <2>1. queue[n] \in Seq(Frames) /\ Len(queue[n]) <= SIM_RX_QUEUE_LEN
      BY DEF QueueInv
    <2>2. Len(queue[n]) \in Nat /\ SIM_RX_QUEUE_LEN \in Nat
      BY <2>1, LenProperties, LoopAssumption
    <2>3. /\ Append(queue[n], f) \in Seq(Frames)
          /\ Len(Append(queue[n], f)) = Len(queue[n]) + 1
      BY <2>1, AppendProperties
    <2>4. CASE n # sender /\ Len(queue[n]) < SIM_RX_QUEUE_LEN
      <3>1. queue'[n] = Append(queue[n], f)
        BY <1>3, <2>4
      <3>2. Len(queue[n]) + 1 <= SIM_RX_QUEUE_LEN
        BY <2>2, <2>4
      <3>. QED
        BY <2>3, <3>1, <3>2
    <2>5. CASE ~(n # sender /\ Len(queue[n]) < SIM_RX_QUEUE_LEN)
      BY <1>3, <2>1, <2>5
    <2>. QED
      BY <2>4, <2>5
  <1>5. ASSUME NEW i \in 1 .. Len(queue'["ecu"])
        PROVE  queue'["ecu"][i] \in SensorFrames
    <2>. DEFINE q == queue["ecu"]
    <2>1. "ecu" \in Ends /\ q \in Seq(Frames)
             /\ \A k \in 1 .. Len(q) : q[k] \in SensorFrames
      BY DEF QueueInv, Ends
    <2>. HIDE DEF q
    <2>2. CASE queue'["ecu"] = q
      BY <1>5, <2>1, <2>2
    <2>3. CASE sender # "ecu" /\ queue'["ecu"] = Append(q, f)
      BY <1>5, <2>1, <2>3, AppendProperties, LenProperties
    <2>. QED
      BY <1>3, <2>1, <2>2, <2>3 DEF q
  <1>6. queue' \in [Ends -> Seq(Frames)]
    BY <1>2, <1>3, <1>4
  <1>. QED
    BY <1>1, <1>3, <1>4, <1>5, <1>6 DEF QueueInv

\* A receive takes the first frame of one queue.
LEMMA ReceiveStep ==
    ASSUME QueueInv, NEW n \in Ends, queue[n] # <<>>, BUS!receive(n)
    PROVE  /\ QueueInv'
           /\ \A m \in Ends : queue'[m] = IF m = n THEN Tail(queue[n]) ELSE queue[m]
  <1>1. UNCHANGED <<attached, bus_off>>
    BY DEF BUS!receive
  <1>2. queue' = [queue EXCEPT ![n] = Tail(queue[n])]
    BY DEF BUS!receive
  <1>3. \A m \in Ends : queue'[m] = IF m = n THEN Tail(queue[n]) ELSE queue[m]
    BY <1>2 DEF QueueInv
  <1>4. /\ queue[n] \in Seq(Frames) /\ Tail(queue[n]) \in Seq(Frames)
        /\ Len(Tail(queue[n])) = Len(queue[n]) - 1
        /\ \A i \in 1 .. Len(queue[n]) - 1 : Tail(queue[n])[i] = queue[n][i + 1]
        /\ Len(queue[n]) \in Nat /\ Len(queue[n]) <= SIM_RX_QUEUE_LEN
    BY HeadTailProperties, LenProperties DEF QueueInv
  <1>5. ASSUME NEW m \in Ends
        PROVE  queue'[m] \in Seq(Frames) /\ Len(queue'[m]) <= SIM_RX_QUEUE_LEN
    <2>1. SIM_RX_QUEUE_LEN \in Nat
      BY LoopAssumption
    <2>2. CASE m = n
      <3>1. queue'[m] = Tail(queue[n])
        BY <1>3, <2>2
      <3>2. Len(Tail(queue[n])) <= SIM_RX_QUEUE_LEN
        BY <1>4, <2>1
      <3>. QED
        BY <1>4, <3>1, <3>2
    <2>3. CASE m # n
      BY <1>3, <2>3 DEF QueueInv
    <2>. QED
      BY <2>2, <2>3
  <1>6. ASSUME NEW i \in 1 .. Len(queue'["ecu"])
        PROVE  queue'["ecu"][i] \in SensorFrames
    <2>1. \A k \in 1 .. Len(queue["ecu"]) : queue["ecu"][k] \in SensorFrames
      BY DEF QueueInv
    <2>2. CASE n = "ecu"
      <3>1. queue'["ecu"] = Tail(queue[n])
        BY <1>3, <2>2
      <3>2. i \in 1 .. Len(queue[n]) - 1 /\ i + 1 \in 1 .. Len(queue[n])
        BY <1>4, <1>6, <3>1
      <3>. QED
        BY <1>4, <2>1, <2>2, <3>1, <3>2
    <2>3. CASE n # "ecu"
      BY <1>3, <1>6, <2>1, <2>3 DEF Ends
    <2>. QED
      BY <2>2, <2>3
  <1>7. queue' \in [Ends -> Seq(Frames)]
    BY <1>2, <1>3, <1>5 DEF QueueInv
  <1>. QED
    BY <1>1, <1>3, <1>5, <1>6, <1>7 DEF QueueInv

\* What the actions need of the types, gathered once.
LEMMA LoopFacts ==
    ASSUME LoopInv
    PROVE  /\ Ends = {"sensor", "ecu", "actuator"}
           /\ queue["ecu"] \in Seq(Frames) /\ queue["actuator"] \in Seq(Frames)
           /\ Len(queue["actuator"]) <= SIM_RX_QUEUE_LEN
           /\ SIM_RX_QUEUE_LEN \in Nat /\ Len(queue["actuator"]) \in Nat
           /\ published \in Nat /\ seen \in Nat /\ acting \in Nat /\ late \in Nat
           /\ acting <= seen /\ seen <= published
           /\ Sorted(queue["ecu"], 512, seen, published)
           /\ Sorted(queue["actuator"], 768, acting, seen)
           /\ commandsIn(queue["actuator"]) \in Nat
           /\ commandsIn(queue["actuator"]) <= SIM_RX_QUEUE_LEN
  <1>1. /\ queue["ecu"] \in Seq(Frames) /\ queue["actuator"] \in Seq(Frames)
        /\ Len(queue["actuator"]) <= SIM_RX_QUEUE_LEN
    BY DEF LoopInv, QueueInv, Ends
  <1>2. SIM_RX_QUEUE_LEN \in Nat
    BY LoopAssumption
  <1>3. Len(queue["actuator"]) \in Nat
    BY <1>1, LenProperties
  <1>4. /\ published \in Nat /\ seen \in Nat /\ acting \in Nat /\ late \in Nat
        /\ acting <= seen /\ seen <= published
        /\ Sorted(queue["ecu"], 512, seen, published)
        /\ Sorted(queue["actuator"], 768, acting, seen)
    BY DEF LoopInv, OrderInv, LagInv
  <1>5. /\ commandsIn(queue["actuator"]) \in Nat
        /\ commandsIn(queue["actuator"]) <= Len(queue["actuator"])
    BY <1>1, CountBounds
  <1>6. commandsIn(queue["actuator"]) <= SIM_RX_QUEUE_LEN
    BY <1>1, <1>2, <1>3, <1>5
  <1>. QED
    BY <1>1, <1>2, <1>3, <1>4, <1>5, <1>6 DEF Ends

\* The sensor publishes its next sample: newer than all others, and no command.
LEMMA PublishStep == LoopInv /\ publish => LoopInv'
  <1>. SUFFICES ASSUME LoopInv, publish PROVE LoopInv'
    OBVIOUS
  <1>. DEFINE f == sensorFrame(Track[published'], published')
  <1>0. /\ published' = published + 1 /\ published' \in 1 .. Len(Track)
        /\ BUS!transmit("sensor", f, TRUE)
        /\ UNCHANGED <<svars, seen, at, acting, late>>
    <2>1. Len(Track) \in Nat
      BY LoopAssumption, LenProperties
    <2>2. published \in Nat
      BY LoopFacts
    <2>3. published < Len(Track) /\ published' = published + 1
      BY DEF publish
    <2>4. published' \in 1 .. Len(Track)
      BY <2>1, <2>2, <2>3
    <2>. QED
      BY <2>3, <2>4, Zenon DEF publish
  <1>1. f \in SensorFrames /\ f \in Frames /\ f.id = 512 /\ f.timestamp = published'
    <2>1. Track[published'] \in Int
      BY <1>0, LoopAssumption, ElementOfSeq
    <2>. QED
      BY <1>0, <2>1 DEF sensorFrame, SensorFrames, Frames
  <1>. HIDE DEF f
  <1>2. /\ QueueInv'
        /\ \A n \in Ends : queue'[n] =
              IF n # "sensor" /\ Len(queue[n]) < SIM_RX_QUEUE_LEN
              THEN Append(queue[n], f) ELSE queue[n]
    <2>1. QueueInv /\ "sensor" \in Ends
      BY DEF LoopInv, Ends
    <2>2. BUS!transmit("sensor", f, TRUE) /\ f \in Frames
             /\ ("sensor" # "ecu" => f \in SensorFrames)
      BY <1>0, <1>1
    <2>. QED
      BY <2>1, <2>2, TransmitStep
  <1>3. /\ queue'["ecu"] = queue["ecu"] \/ queue'["ecu"] = Append(queue["ecu"], f)
        /\ \/ queue'["actuator"] = queue["actuator"]
           \/ queue'["actuator"] = Append(queue["actuator"], f)
    BY <1>2 DEF Ends
  <1>4. InterlockInv'
    BY <1>0, StackStep DEF LoopInv, svars, stack, InterlockInv
  <1>5. Sorted(queue["ecu"], 512, seen, published)'
    <2>1. f.id = 512 => published <= f.timestamp /\ f.timestamp <= published'
      BY <1>0, <1>1, LoopFacts
    <2>2. published' \in Nat /\ published <= published'
      BY <1>0, LoopFacts
    <2>3. /\ Sorted(queue["ecu"], 512, seen, published')
          /\ Sorted(Append(queue["ecu"], f), 512, seen, published')
      BY <1>1, <2>1, <2>2, LoopFacts, SortedAppend
    <2>4. seen' = seen
      BY <1>0
    <2>5. CASE queue'["ecu"] = queue["ecu"]
      BY <2>3, <2>4, <2>5
    <2>6. CASE queue'["ecu"] = Append(queue["ecu"], f)
      BY <2>3, <2>4, <2>6
    <2>. QED
      BY <1>3, <2>5, <2>6
  <1>6. Sorted(queue["actuator"], 768, acting, seen)'
    <2>1. Sorted(Append(queue["actuator"], f), 768, acting, seen)
      BY <1>1, LoopFacts, SortedAppend
    <2>2. seen' = seen /\ acting' = acting /\ Sorted(queue["actuator"], 768, acting, seen)
      BY <1>0, LoopFacts
    <2>3. CASE queue'["actuator"] = queue["actuator"]
      BY <2>2, <2>3
    <2>4. CASE queue'["actuator"] = Append(queue["actuator"], f)
      BY <2>1, <2>2, <2>4
    <2>. QED
      BY <1>3, <2>3, <2>4
  <1>7. OrderInv'
    <2>1. published' \in 0 .. Len(Track) /\ seen <= published'
      BY <1>0, LoopFacts
    <2>. QED
      BY <1>0, <1>5, <1>6, <2>1 DEF LoopInv, OrderInv, svars, stack
  <1>8. LagInv'
    <2>1. commandsIn(queue'["actuator"]) = commandsIn(queue["actuator"])
      <3>1. commandsIn(queue["actuator"]) \in Nat /\ queue["actuator"] \in Seq(Frames)
        BY LoopFacts
      <3>2. commandsIn(Append(queue["actuator"], f)) = commandsIn(queue["actuator"])
        BY <1>1, <3>1, CountAppend
      <3>. QED
        BY <1>3, <3>2
    <2>. QED
      BY <1>0, <2>1 DEF LoopInv, LagInv, KillSwitchLagIsBounded, commandsOnTheirWay, svars
  <1>. QED
    BY <1>2, <1>4, <1>7, <1>8 DEF LoopInv

\* The ECU takes the oldest sample of its queue, or finds none.
LEMMA IngestStep == LoopInv /\ ecuIngest => LoopInv'
  <1>. SUFFICES ASSUME LoopInv, ecuIngest PROVE LoopInv'
    OBVIOUS
  <1>0. at = "ingest" /\ at' = "command" /\ UNCHANGED <<published, acting, late>>
    BY DEF ecuIngest
  <1>1. CASE queue["ecu"] = <<>>
    <2>1. UNCHANGED <<svars, seen, busvars>>
      BY <1>1 DEF ecuIngest
    <2>2. InterlockInv'
      BY <2>1, StackStep DEF LoopInv, svars, stack, InterlockInv
    <2>3. QueueInv'
      BY <2>1 DEF LoopInv, QueueInv, busvars
    <2>4. OrderInv'
      BY <1>0, <2>1 DEF LoopInv, OrderInv, svars, stack, busvars
    <2>5. LagInv'
      BY <1>0, <2>1 DEF LoopInv, LagInv, KillSwitchLagIsBounded, commandsOnTheirWay,
                        svars, busvars
    <2>. QED
      BY <2>2, <2>3, <2>4, <2>5 DEF LoopInv
  <1>2. CASE queue["ecu"] # <<>>
    <2>. DEFINE f == Head(queue["ecu"])
    <2>1. BUS!receive("ecu") /\ ingest("Camera", f.value, f.timestamp) /\ seen' = f.timestamp
      BY <1>2 DEF ecuIngest
    <2>2. f \in SensorFrames
      <3>1. 1 \in 1 .. Len(queue["ecu"]) /\ f = queue["ecu"][1]
        BY <1>2, LoopFacts, EmptySeq
      <3>. QED
        BY <3>1 DEF LoopInv, QueueInv
    <2>3. f.value \in Int /\ f.timestamp \in Nat /\ f.id = 512
      BY <2>2 DEF SensorFrames
    <2>4. /\ seen <= f.timestamp /\ f.timestamp <= published
          /\ Sorted(Tail(queue["ecu"]), 512, f.timestamp, published)
      BY <1>2, <2>3, LoopFacts, SortedTail
    <2>. HIDE DEF f
    <2>5. /\ last_offset_cm' = f.value /\ last_timestamp' = f.timestamp
          /\ UNCHANGED <<state, events, history, command>>
      BY <2>1 DEF ingest
    <2>6. InterlockInv'
      BY <2>3, <2>5, StackStep DEF LoopInv
    <2>7. QueueInv' /\ queue'["ecu"] = Tail(queue["ecu"])
            /\ queue'["actuator"] = queue["actuator"]
      BY <1>2, <2>1, ReceiveStep DEF LoopInv, Ends
    <2>8. Sorted(queue["actuator"], 768, acting, seen)'
      <3>1. f \in Frames /\ f.id # 768
        BY <2>2, <2>3 DEF Frames
      <3>2. Sorted(queue["actuator"], 768, acting, f.timestamp)
        BY <2>3, <2>4, <3>1, LoopFacts, SortedAppend
      <3>. QED
        BY <1>0, <2>1, <2>7, <3>2
    <2>9. OrderInv'
      <3>1. acting <= seen' /\ seen' \in Nat /\ seen' <= published
        BY <2>1, <2>3, <2>4, LoopFacts
      <3>. QED
        BY <1>0, <2>1, <2>4, <2>5, <2>7, <2>8, <3>1 DEF LoopInv, OrderInv
    <2>10. LagInv'
      BY <1>0, <2>5, <2>7 DEF LoopInv, LagInv, KillSwitchLagIsBounded, commandsOnTheirWay
    <2>. QED
      BY <2>6, <2>7, <2>9, <2>10 DEF LoopInv
  <1>. QED
    BY <1>1, <1>2

\* steer and throttle are integers for every offset and speed.
LEMMA ReturnTypes ==
    ASSUME NEW speed \in Speeds, NEW offset \in Int
    PROVE  clamp_steer(steer(offset)) \in Int /\ min100(throttle(speed)) \in Int
  <1>1. clamp_steer(steer(offset)) \in Int
    <2>1. steer(offset) \in Int
      BY SteerInt
    <2>. QED
      BY <2>1 DEF clamp_steer, clamp, MAX_STEER
  <1>2. min100(throttle(speed)) \in Int
    <2>1. /\ speed \in Nat /\ cruise_cmps \in Nat
          /\ U32Size \in Nat /\ U32Size > 0
      BY InterlockAssumption
    <2>. DEFINE d == IF cruise_cmps > 1 THEN cruise_cmps ELSE 1
                w == product(speed) % U32Size
    <2>2. d \in Nat /\ d > 0
      BY <2>1
    <2>3. speed < cruise_cmps => product(speed) \in Nat
      BY <2>1 DEF product
    <2>4. speed < cruise_cmps => w \in Nat
      BY <2>1, <2>3
    <2>. HIDE DEF d, w
    <2>5. speed < cruise_cmps => w \div d \in Nat
      BY <2>2, <2>4
    <2>6. throttle(speed) = IF speed < cruise_cmps THEN (w \div d) % 256 ELSE 0
      BY Zenon DEF throttle, d, w
    <2>. DEFINE q == w \div d
    <2>. HIDE DEF q
    <2>7. speed < cruise_cmps => q % 256 \in Int
      BY <2>5 DEF q
    <2>8. throttle(speed) \in Int
      BY <2>6, <2>7 DEF q
    <2>. QED
      BY <2>8 DEF min100
  <1>. QED
    BY <1>1, <1>2

\* What the interlock returns is nothing, a panic, or a command resting on the
\* sample ingested last.
LEMMA GatedCommand ==
    ASSUME NEW speed \in Speeds, last_offset_cm \in Int \cup {None}, last_timestamp \in Nat
    PROVE  \/ gated(speed) = None
           \/ gated(speed) = Panic
           \/ /\ gated(speed) \in Commands
              /\ gated(speed).timestamp = last_timestamp
              /\ state = "Armed"
  <1>. SUFFICES ASSUME gated(speed) # None, gated(speed) # Panic
                PROVE  /\ gated(speed) \in Commands
                       /\ gated(speed).timestamp = last_timestamp
                       /\ state = "Armed"
    OBVIOUS
  <1>1. state = "Armed" /\ gated(speed) = stackCommand(speed)
    BY DEF gated
  <1>2. last_offset_cm # None
    BY <1>1 DEF stackCommand
  <1>3. clamp_steer(steer(last_offset_cm)) \in Int /\ min100(throttle(speed)) \in Int
    BY <1>2, ReturnTypes
  <1>4. stackCommand(speed) =
          [steer |-> clamp_steer(steer(last_offset_cm)),
           throttle |-> min100(throttle(speed)), brake |-> 0,
           timestamp |-> last_timestamp]
    BY <1>1, Zenon DEF stackCommand
  <1>. QED
    BY <1>1, <1>3, <1>4 DEF Commands

\* Neither of the two is a command, nor are they the same.
LEMMA NoCommand == None \notin Commands /\ Panic \notin Commands /\ None # Panic
  BY InterlockAssumption DEF Commands

\* The ECU asks the interlock: no command while disarmed.
LEMMA CommandStep ==
    ASSUME LoopInv, NEW speed \in Speeds, ecuCommand(speed)
    PROVE  LoopInv'
  <1>0. /\ at = "command" /\ command' = gated(speed)
        /\ at' = CASE command' = None  -> "ingest"
                   [] command' = Panic -> "panicked"
                   [] OTHER            -> "dispatch"
        /\ UNCHANGED <<state, events, history, last_offset_cm, last_timestamp, ready>>
        /\ UNCHANGED <<published, seen, acting, late>> /\ UNCHANGED busvars
    BY DEF ecuCommand, next_command, stack
  <1>1. InterlockInv'
    BY <1>0, StackStep DEF LoopInv, InterlockInv
  <1>2. QueueInv'
    BY <1>0 DEF LoopInv, QueueInv, busvars
  <1>3. last_offset_cm \in Int \cup {None} /\ last_timestamp = seen /\ seen \in Nat
    BY DEF LoopInv, InterlockInv, OrderInv
  <1>4. \/ command' = None /\ at' = "ingest"
        \/ command' = Panic /\ at' = "panicked"
        \/ /\ command' \in Commands /\ at' = "dispatch"
           /\ command'.timestamp = seen
           /\ state = "Armed"
    BY <1>0, <1>3, GatedCommand, NoCommand
  <1>5. OrderInv'
    BY <1>0, <1>4 DEF LoopInv, OrderInv, busvars
  <1>6. LagInv'
    <2>1. CASE state = "Armed"
      BY <1>0, <2>1 DEF LoopInv, LagInv, KillSwitchLagIsBounded
    <2>2. CASE state # "Armed"
      BY <1>0, <1>4, <2>2 DEF LoopInv, LagInv, KillSwitchLagIsBounded,
                              commandsOnTheirWay, busvars
    <2>. QED
      BY <2>1, <2>2
  <1>. QED
    BY <1>1, <1>2, <1>5, <1>6 DEF LoopInv

\* The ECU dispatches the command it holds, which is then in the queue or
\* dropped.
LEMMA DispatchStep == LoopInv /\ ecuDispatch => LoopInv'
  <1>. SUFFICES ASSUME LoopInv, ecuDispatch PROVE LoopInv'
    OBVIOUS
  <1>. DEFINE f == commandFrame(command)
  <1>0. /\ at = "dispatch" /\ at' = "ingest"
        /\ BUS!transmit("ecu", f, TRUE)
        /\ UNCHANGED <<svars, published, seen, acting, late>>
    BY DEF ecuDispatch
  <1>1. f \in Frames /\ f.id = 768 /\ f.timestamp = seen
    <2>1. command \in Commands /\ command.timestamp = seen
      BY <1>0 DEF LoopInv, OrderInv
    <2>. QED
      BY <2>1 DEF commandFrame, Commands, Frames, CommandFrames
  <1>. HIDE DEF f
  <1>2. /\ QueueInv'
        /\ queue'["ecu"] = queue["ecu"]
        /\ \/ queue'["actuator"] = queue["actuator"]
           \/ queue'["actuator"] = Append(queue["actuator"], f)
    <2>1. QueueInv /\ "ecu" \in Ends /\ "actuator" \in Ends /\ "ecu" # "actuator"
      BY DEF LoopInv, Ends
    <2>2. /\ QueueInv'
          /\ \A n \in Ends : queue'[n] =
                IF n # "ecu" /\ Len(queue[n]) < SIM_RX_QUEUE_LEN
                THEN Append(queue[n], f) ELSE queue[n]
      <3>1. BUS!transmit("ecu", f, TRUE) /\ f \in Frames
               /\ ("ecu" # "ecu" => f \in SensorFrames)
        BY <1>0, <1>1
      <3>. QED
        BY <2>1, <3>1, TransmitStep
    <2>. QED
      BY <2>1, <2>2
  <1>3. InterlockInv'
    BY <1>0, StackStep DEF LoopInv, svars, stack, InterlockInv
  <1>4. Sorted(queue["actuator"], 768, acting, seen)'
    <2>1. f.id = 768 => seen <= f.timestamp /\ f.timestamp <= seen
      BY <1>1, LoopFacts
    <2>2. Sorted(Append(queue["actuator"], f), 768, acting, seen)
      BY <1>1, <2>1, LoopFacts, SortedAppend
    <2>3. acting' = acting /\ seen' = seen /\ Sorted(queue["actuator"], 768, acting, seen)
      BY <1>0, LoopFacts
    <2>4. CASE queue'["actuator"] = queue["actuator"]
      BY <2>3, <2>4
    <2>5. CASE queue'["actuator"] = Append(queue["actuator"], f)
      BY <2>2, <2>3, <2>5
    <2>. QED
      BY <1>2, <2>4, <2>5
  <1>5. OrderInv'
    BY <1>0, <1>2, <1>4 DEF LoopInv, OrderInv, svars, stack
  <1>6. LagInv'
    <2>. DEFINE c == commandsIn(queue["actuator"])
    <2>1. c \in Nat /\ late \in Nat /\ SIM_RX_QUEUE_LEN \in Nat /\ queue["actuator"] \in Seq(Frames)
      BY LoopFacts
    <2>2. commandsIn(Append(queue["actuator"], f)) = c + 1
      BY <1>1, <2>1, CountAppend
    <2>3. commandsIn(queue'["actuator"]) = c \/ commandsIn(queue'["actuator"]) = c + 1
      BY <1>2, <2>2
    <2>4. state' = state /\ late' = late
      BY <1>0 DEF svars
    <2>5. state = "Disarmed" => late + (c + 1) <= SIM_RX_QUEUE_LEN + 1
      BY <1>0 DEF LoopInv, LagInv, KillSwitchLagIsBounded, commandsOnTheirWay
    <2>. HIDE DEF c
    <2>6. (state = "Disarmed" => late + commandsOnTheirWay <= SIM_RX_QUEUE_LEN + 1)'
      BY <1>0, <2>1, <2>3, <2>4, <2>5 DEF commandsOnTheirWay
    <2>. QED
      BY <2>4, <2>6 DEF LoopInv, LagInv, KillSwitchLagIsBounded
  <1>. QED
    BY <1>2, <1>3, <1>5, <1>6 DEF LoopInv

\* The actuator takes a frame: a command leaves the queue when it is counted.
LEMMA ActuateStep == LoopInv /\ actuate => LoopInv' /\ acting' >= acting
  <1>. SUFFICES ASSUME LoopInv, actuate PROVE LoopInv' /\ acting' >= acting
    OBVIOUS
  <1>. DEFINE q == queue["actuator"]
              f == Head(q)
  <1>0. /\ q # <<>> /\ BUS!receive("actuator")
        /\ IF f.id = 768
           THEN /\ acting' = f.timestamp
                /\ late' = IF state = "Disarmed" THEN late + 1 ELSE late
           ELSE UNCHANGED <<acting, late>>
        /\ UNCHANGED <<svars, published, seen, at>>
    BY DEF actuate
  <1>1. QueueInv' /\ queue'["ecu"] = queue["ecu"] /\ queue'["actuator"] = Tail(q)
    BY <1>0, ReceiveStep DEF LoopInv, Ends
  <1>2. InterlockInv'
    BY <1>0, StackStep DEF LoopInv, svars, stack, InterlockInv
  <1>3. /\ q \in Seq(Frames) /\ Sorted(q, 768, acting, seen)
        /\ acting \in Nat /\ seen \in Nat /\ acting <= seen
    BY LoopFacts
  <1>. HIDE DEF q
  <1>4. /\ f \in Frames
        /\ f.id = 768 => acting <= f.timestamp /\ f.timestamp <= seen
        /\ Sorted(Tail(q), 768, IF f.id = 768 THEN f.timestamp ELSE acting, seen)
    BY <1>0, <1>3, SortedTail
  <1>5. commandsIn(q) = commandsIn(Tail(q)) + (IF f.id = 768 THEN 1 ELSE 0)
    BY <1>0, <1>3, CountTail
  <1>. HIDE DEF f
  <1>6. /\ acting' = IF f.id = 768 THEN f.timestamp ELSE acting
        /\ acting' \in Nat /\ acting <= acting' /\ acting' <= seen
    <2>1. f.timestamp \in Nat
      BY <1>4 DEF Frames, SensorFrames, CommandFrames
    <2>. QED
      BY <1>0, <1>3, <1>4, <2>1
  <1>7. OrderInv'
    <2>1. Sorted(queue["actuator"], 768, acting, seen)'
      BY <1>0, <1>1, <1>4, <1>6
    <2>. QED
      BY <1>0, <1>1, <1>6, <2>1 DEF LoopInv, OrderInv, svars, stack
  <1>8. LagInv'
    <2>1. commandsIn(q) \in Nat /\ late \in Nat /\ SIM_RX_QUEUE_LEN \in Nat
      BY LoopFacts DEF q
    <2>2. commandsIn(Tail(q)) \in Nat
      <3>1. Tail(q) \in Seq(Frames)
        BY <1>0, <1>3, HeadTailProperties
      <3>. QED
        BY <3>1, CountBounds
    <2>3. state' = state /\ at' = at
      BY <1>0 DEF svars
    <2>4. late' \in Nat /\ (state = "Armed" => late' = late)
      BY <1>0, <2>1
    <2>5. state = "Disarmed" => late' + commandsIn(Tail(q)) = late + commandsIn(q)
      BY <1>0, <1>5, <2>1, <2>2
    <2>6. (state = "Disarmed" => late + commandsOnTheirWay <= SIM_RX_QUEUE_LEN + 1)'
      <3>1. state = "Disarmed" =>
              late + (commandsIn(q) + (IF at = "dispatch" THEN 1 ELSE 0)) <= SIM_RX_QUEUE_LEN + 1
        BY DEF LoopInv, LagInv, KillSwitchLagIsBounded, commandsOnTheirWay, q
      <3>. QED
        BY <1>1, <2>1, <2>2, <2>3, <2>4, <2>5, <3>1 DEF commandsOnTheirWay
    <2>. QED
      BY <2>3, <2>4, <2>6 DEF LoopInv, LagInv, KillSwitchLagIsBounded
  <1>. QED
    BY <1>1, <1>2, <1>3, <1>6, <1>7, <1>8 DEF LoopInv

\* The supervisor: arm forgets what was late, and at a disarm there is no
\* more on the way than a full queue and the command held.
LEMMA SuperviseStep == LoopInv /\ supervise => LoopInv'
  <1>. SUFFICES ASSUME LoopInv, supervise PROVE LoopInv'
    OBVIOUS
  <1>0. /\ UNCHANGED <<published, seen, at, acting>> /\ UNCHANGED busvars
        /\ UNCHANGED <<last_timestamp, command>>
    BY DEF supervise, arm, disarm, transition, stack
  <1>1. InterlockInv'
    BY SupervisorStep DEF LoopInv, supervise
  <1>2. QueueInv'
    BY <1>0 DEF LoopInv, QueueInv, busvars
  <1>3. OrderInv'
    BY <1>0 DEF LoopInv, OrderInv, busvars
  <1>4. LagInv'
    <2>. DEFINE c == commandsIn(queue["actuator"])
    <2>1. c \in Nat /\ c <= SIM_RX_QUEUE_LEN /\ late \in Nat /\ SIM_RX_QUEUE_LEN \in Nat
      BY LoopFacts
    <2>2. queue' = queue /\ at' = at
      BY <1>0 DEF busvars
    <2>3. CASE arm /\ late' = 0
      <3>1. state' = "Armed" /\ late' = 0
        BY <2>3 DEF arm, transition
      <3>2. KillSwitchLagIsBounded'
        BY <3>1 DEF KillSwitchLagIsBounded
      <3>. QED
        BY <3>1, <3>2 DEF LagInv
    <2>4. CASE disarm /\ late' = late
      <3>1. state' = "Disarmed"
        BY <2>4 DEF disarm, transition
      <3>2. state \in {"Armed", "Disarmed"}
        BY DEF LoopInv, InterlockInv
      <3>3. late + (c + (IF at = "dispatch" THEN 1 ELSE 0)) <= SIM_RX_QUEUE_LEN + 1
        <4>1. CASE state = "Armed"
          <5>1. late = 0
            BY <4>1 DEF LoopInv, LagInv
          <5>. HIDE DEF c
          <5>. QED
            BY <2>1, <5>1
        <4>2. CASE state = "Disarmed"
          BY <4>2 DEF LoopInv, LagInv, KillSwitchLagIsBounded, commandsOnTheirWay
        <4>. QED
          BY <3>2, <4>1, <4>2
      <3>. QED
        BY <2>1, <2>2, <2>4, <3>1, <3>3
           DEF LagInv, KillSwitchLagIsBounded, commandsOnTheirWay
    <2>. QED
      BY <2>3, <2>4 DEF supervise
  <1>. QED
    BY <1>1, <1>2, <1>3, <1>4 DEF LoopInv

\* The loop starts in the invariant: nothing published, queued or held.
LEMMA LoopStart == loopInit => LoopInv
  <1>. SUFFICES ASSUME loopInit PROVE LoopInv
    OBVIOUS
  <1>1. InterlockInv
    BY InterlockStart DEF loopInit
  <1>2. \A n \in Ends : queue[n] = <<>>
    BY DEF loopInit
  <1>3. SIM_RX_QUEUE_LEN \in Nat /\ Len(Track) \in Nat
    BY LoopAssumption, LenProperties
  <1>4. <<>> \in Seq(Frames) /\ Len(<<>>) = 0
    BY EmptySeq
  <1>5. QueueInv
    BY <1>2, <1>3, <1>4 DEF loopInit, QueueInv, Ends
  <1>6. Sorted(queue["ecu"], 512, 0, 0) /\ Sorted(queue["actuator"], 768, 0, 0)
    BY <1>2, <1>4 DEF Sorted, Ends
  <1>7. OrderInv
    BY <1>3, <1>6 DEF loopInit, Init, OrderInv
  <1>8. commandsIn(queue["actuator"]) = 0
    <2>1. commandsIn(<<>>) \in Nat /\ commandsIn(<<>>) <= 0
      BY <1>4, CountBounds
    <2>. QED
      BY <1>2, <2>1 DEF Ends
  <1>9. LagInv
    BY <1>3, <1>8 DEF loopInit, Init, LagInv, KillSwitchLagIsBounded, commandsOnTheirWay
  <1>. QED
    BY <1>1, <1>5, <1>7, <1>9 DEF LoopInv

\* Every step of the sensor, the ECU, the actuator and the supervisor keeps
\* the invariant, and none moves acting back.
LEMMA LoopStep == LoopInv /\ [loopNext]_lvars => LoopInv' /\ acting' >= acting
  <1>. SUFFICES ASSUME LoopInv, [loopNext]_lvars PROVE LoopInv' /\ acting' >= acting
    OBVIOUS
  <1>0. acting \in Nat
    BY LoopFacts
  <1>1. CASE publish
    BY <1>0, <1>1, PublishStep DEF publish
  <1>2. CASE ecuIngest
    BY <1>0, <1>2, IngestStep DEF ecuIngest
  <1>3. ASSUME NEW speed \in Speeds, ecuCommand(speed)
        PROVE  LoopInv' /\ acting' >= acting
    BY <1>0, <1>3, CommandStep DEF ecuCommand
  <1>4. CASE ecuDispatch
    BY <1>0, <1>4, DispatchStep DEF ecuDispatch
  <1>5. CASE actuate
    BY <1>5, ActuateStep
  <1>6. CASE supervise
    BY <1>0, <1>6, SuperviseStep DEF supervise
  <1>7. CASE UNCHANGED lvars
    <2>1. UNCHANGED svars /\ UNCHANGED <<published, seen, at, acting, late>>
             /\ UNCHANGED busvars
      BY <1>7 DEF lvars, loopvars
    <2>2. InterlockInv'
      BY <2>1, StackStep DEF LoopInv, svars, stack, InterlockInv
    <2>3. QueueInv'
      BY <2>1 DEF LoopInv, QueueInv, busvars
    <2>4. OrderInv'
      BY <2>1 DEF LoopInv, OrderInv, svars, stack, busvars
    <2>5. LagInv'
      BY <2>1 DEF LoopInv, LagInv, KillSwitchLagIsBounded, commandsOnTheirWay, svars, busvars
    <2>. QED
      BY <1>0, <2>1, <2>2, <2>3, <2>4, <2>5 DEF LoopInv
  <1>. QED
    BY <1>1, <1>2, <1>3, <1>4, <1>5, <1>6, <1>7 DEF loopNext, ecuLoop

-----------------------------------------------------------------------------
(* Theorems *)

\* LoopInv holds throughout the loop.
LEMMA LoopInvariant == loopSpec => []LoopInv
  BY LoopStart, LoopStep, PTL DEF loopSpec

\* After a disarm the actuator acts on at most SIM_RX_QUEUE_LEN + 1 commands,
\* wherever between next_command, transmit and receive the disarm falls.
THEOREM KillSwitchBounded == loopSpec => []KillSwitchLagIsBounded
  <1>1. LoopInv => KillSwitchLagIsBounded
    BY DEF LoopInv, LagInv
  <1>. QED
    BY <1>1, LoopInvariant, PTL

\* The actuator never acts on an older sample after a newer one, whatever the
\* full queues drop.
THEOREM ActuatorInOrder == loopSpec => ActsInOrder
  <1>1. LoopInv /\ [loopNext]_lvars => [acting' >= acting]_lvars
    BY LoopStep
  <1>. QED
    BY <1>1, LoopInvariant, PTL DEF loopSpec, ActsInOrder

\* An interlock that reports control has a command, resting on the newest
\* sample the ECU has taken.
THEOREM ControlCurrent == loopSpec => []ControlIsCurrent
  <1>1. LoopInv => ControlIsCurrent
    <2>. SUFFICES ASSUME LoopInv, has_control, NEW speed \in Speeds
                  PROVE  /\ gated(speed) # None
                         /\ gated(speed) # Panic => gated(speed).timestamp = seen
      BY DEF ControlIsCurrent
    <2>1. last_offset_cm \in Int /\ last_timestamp = seen /\ seen \in Nat
      BY DEF LoopInv, InterlockInv, OrderInv, has_control
    <2>. DEFINE r == [steer |-> clamp_steer(steer(last_offset_cm)),
                      throttle |-> min100(throttle(speed)), brake |-> 0,
                      timestamp |-> last_timestamp]
    <2>2. gated(speed) = Panic \/ gated(speed) = r
      BY Zenon DEF gated, stackCommand, has_control
    <2>3. clamp_steer(steer(last_offset_cm)) \in Int /\ min100(throttle(speed)) \in Int
      BY <2>1, ReturnTypes
    <2>4. r \in Commands /\ r.timestamp = seen
      BY <2>1, <2>3 DEF Commands
    <2>. QED
      BY <2>2, <2>4, NoCommand
  <1>. QED
    BY <1>1, LoopInvariant, PTL

\* The audit trail stays exact while the loop runs.
THEOREM AuditExactInLoop == loopSpec => []AuditIsLastN
  <1>1. LoopInv => AuditIsLastN
    BY IterIsLastN DEF LoopInv, InterlockInv, AuditIsLastN
  <1>. QED
    BY <1>1, LoopInvariant, PTL
=============================================================================
