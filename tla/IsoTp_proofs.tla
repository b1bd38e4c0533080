---------------------------- MODULE IsoTp_proofs ----------------------------
(***************************************************************************)
(* Theorems about IsoTp, for every frame size, every sequence-number width,*)
(* every capacity of the link, every list of messages and any number of    *)
(* repeated and foreign frames.                                            *)
(***************************************************************************)
EXTENDS IsoTp, SequenceTheorems, TLAPS

-----------------------------------------------------------------------------
(* Sizes and frames *)

Sent  == {Messages[j] : j \in DOMAIN Messages}
Bytes == (Nat \X Nat) \cup {Pad}

LEMMA Sizes ==
    /\ ISOTP_CF_MAX \in Nat /\ ISOTP_CF_MAX >= 2
    /\ ISOTP_SF_MAX = ISOTP_CF_MAX
    /\ ISOTP_FF_MAX \in Nat /\ ISOTP_FF_MAX = ISOTP_CF_MAX - 1
    /\ SnMod \in Nat /\ SnMod > 1
  BY IsoTpAssumption DEF ISOTP_CF_MAX, ISOTP_SF_MAX, ISOTP_FF_MAX

LEMMA SentTypes ==
    /\ Sent \subseteq Nat
    /\ \A m \in Sent : Length[m] \in Nat
    /\ Messages \in Seq(Sent)
  <1>1. Messages \in Seq(Nat) /\ Length \in [Sent -> Nat]
    BY IsoTpAssumption DEF Sent
  <1>2. \A j \in 1 .. Len(Messages) : Messages[j] \in Nat
    BY <1>1, ElementOfSeq
  <1>3. DOMAIN Messages = 1 .. Len(Messages) /\ Len(Messages) \in Nat
        /\ Messages \in [1 .. Len(Messages) -> Nat]
    BY <1>1, LenProperties
  <1>4. Messages \in [1 .. Len(Messages) -> Sent]
    BY <1>3 DEF Sent
  <1>5. Messages \in Seq(Sent)
    BY <1>3, <1>4, SeqDef
  <1>. QED
    BY <1>1, <1>2, <1>3, <1>5 DEF Sent

\* Where the data of consecutive frame k starts in the payload.
Start(k) == ISOTP_FF_MAX + (k - 1) * ISOTP_CF_MAX

LEMMA StartNext ==
    ASSUME NEW k \in Nat
    PROVE  /\ Start(k + 1) \in Nat
           /\ Start(k + 1) = ISOTP_FF_MAX + k * ISOTP_CF_MAX
           /\ Start(1) = ISOTP_FF_MAX
           /\ k > 0 => Start(k) \in Nat /\ Start(k + 1) = Start(k) + ISOTP_CF_MAX
  <1>. DEFINE c == ISOTP_CF_MAX
  <1>1. c \in Nat
    BY Sizes
  <1>. HIDE DEF c
  <1>2. (k + 1 - 1) * c = k * c /\ k * c \in Nat
    BY <1>1
  <1>3. (1 - 1) * c = 0
    BY <1>1
  <1>4. k > 0 => k * c = (k - 1) * c + c /\ (k - 1) * c \in Nat
    BY <1>1
  <1>. QED
    BY <1>1, <1>2, <1>3, <1>4, Sizes DEF Start, c

\* Rounding up: the frames after the first carry the whole payload.
LEMMA FramesSuffice ==
    ASSUME NEW m \in Sent, Length[m] > ISOTP_SF_MAX
    PROVE  /\ ConsecutiveFrames(m) \in Nat
           /\ Start(ConsecutiveFrames(m) + 1) >= Length[m]
  <1>. DEFINE c == ISOTP_CF_MAX
              a == Length[m] - ISOTP_FF_MAX + c - 1
              q == ConsecutiveFrames(m)
  <1>1. Length[m] \in Nat /\ ISOTP_FF_MAX \in Nat /\ ISOTP_FF_MAX = c - 1
        /\ c \in Nat /\ c > 0 /\ Length[m] > c
    BY Sizes, SentTypes
  <1>2. q = a \div c
    BY DEF ConsecutiveFrames
  <1>3. \A k \in Nat : Start(k + 1) = ISOTP_FF_MAX + k * c
    BY StartNext
  <1>. HIDE DEF c, q
  <1>4. a \in Nat /\ a = Length[m]
    BY <1>1
  <1>. HIDE DEF a
  <1>5. q \in Nat /\ a < q * c + c
    BY <1>1, <1>2, <1>4
  <1>6. Start(q + 1) = ISOTP_FF_MAX + q * c /\ q * c \in Nat
    BY <1>1, <1>3, <1>5
  <1>7. Start(q + 1) >= Length[m]
    BY <1>1, <1>4, <1>5, <1>6
  <1>. QED
    BY <1>5, <1>7 DEF q

\* The data field of a frame is filled with payload or padding.
LEMMA ChunkType ==
    ASSUME NEW m \in Sent, NEW from \in Nat, NEW size \in Nat
    PROVE  /\ Chunk(m, from, size) \in Seq(Bytes)
           /\ Len(Chunk(m, from, size)) = size
           /\ \A i \in 1 .. size : from + i <= Length[m] =>
                  Chunk(m, from, size)[i] = <<m, from + i>>
  <1>. DEFINE d == Chunk(m, from, size)
  <1>1. \A i \in 1 .. size : <<m, from + i>> \in Bytes
    BY SentTypes DEF Bytes
  <1>2. d \in [1 .. size -> Bytes]
    BY <1>1 DEF Chunk, Bytes
  <1>3. d \in Seq(Bytes)
    BY <1>2, SeqDef
  <1>4. Len(d) = size
    BY <1>2, <1>3, LenProperties
  <1>. QED
    BY <1>3, <1>4 DEF Chunk

\* A message of at most one frame comes back whole from its single frame.
LEMMA SingleIsWhole ==
    ASSUME NEW m \in Sent, Length[m] \in 1 .. ISOTP_SF_MAX
    PROVE  /\ SubSeq(Chunk(m, 0, ISOTP_SF_MAX), 1, Length[m]) = Payload(m)
           /\ Payload(m) \in Seq(Bytes)
  <1>. DEFINE d == Chunk(m, 0, ISOTP_SF_MAX)
              n == Length[m]
  <1>1. n \in Nat /\ n > 0 /\ n <= ISOTP_SF_MAX /\ ISOTP_SF_MAX \in Nat
    BY SentTypes, Sizes
  <1>2. d \in Seq(Bytes) /\ Len(d) = ISOTP_SF_MAX
        /\ \A i \in 1 .. ISOTP_SF_MAX : i <= n => d[i] = <<m, i>>
    <2>1. 0 \in Nat /\ \A i \in 1 .. ISOTP_SF_MAX : 0 + i = i
      BY <1>1
    <2>2. d \in Seq(Bytes) /\ Len(d) = ISOTP_SF_MAX
          /\ \A i \in 1 .. ISOTP_SF_MAX : 0 + i <= n => d[i] = <<m, 0 + i>>
      BY <1>1, <2>1, ChunkType
    <2>. QED
      BY <2>1, <2>2
  <1>3. Payload(m) = [i \in 1 .. n |-> <<m, i>>]
    BY DEF Payload
  <1>. HIDE DEF d, n
  <1>4. \A i \in 1 .. n : d[i] \in Bytes /\ d[i] = <<m, i>>
    BY <1>1, <1>2, ElementOfSeq
  <1>5. SubSeq(d, 1, n) \in Seq(Bytes) /\ Len(SubSeq(d, 1, n)) = n
        /\ \A i \in 1 .. n : SubSeq(d, 1, n)[i] = d[i]
    BY <1>1, <1>4, SubSeqProperties
  <1>6. SubSeq(d, 1, n) \in [1 .. n -> Bytes]
    BY <1>5, LenProperties
  <1>7. SubSeq(d, 1, n) = [i \in 1 .. n |-> <<m, i>>]
    BY <1>4, <1>5, <1>6
  <1>8. SubSeq(d, 1, n) = Payload(m)
    BY <1>3, <1>7
  <1>. QED
    BY <1>5, <1>8 DEF d, n

\* Sequence numbers of neighbours differ, and counting goes on after a wrap.
LEMMA SequenceNumbers ==
    ASSUME NEW k \in Nat
    PROVE  /\ k % SnMod \in Nat
           /\ ((k % SnMod) + 1) % SnMod = (k + 1) % SnMod
           /\ (k + 1) % SnMod # k % SnMod
  <1>. DEFINE n == SnMod
              q == k \div n
              r == k % n
  <1>1. n \in Nat /\ n > 1
    BY Sizes
  <1>. HIDE DEF n
  <1>2. q \in Nat /\ r \in 0 .. n - 1 /\ k = n * q + r
    BY <1>1
  <1>. HIDE DEF q, r
  <1>3. CASE r + 1 < n
    <2>1. k + 1 = n * q + (r + 1) /\ r + 1 \in 0 .. n - 1
      BY <1>1, <1>2, <1>3
    <2>2. (k + 1) % n = r + 1 /\ (r + 1) % n = r + 1
      BY <1>1, <1>2, <2>1
    <2>. QED
      BY <1>2, <2>2 DEF r, n
  <1>4. CASE r + 1 = n
    <2>1. k + 1 = n * (q + 1)
      BY <1>1, <1>2, <1>4
    <2>2. (k + 1) % n = 0 /\ (r + 1) % n = 0
      BY <1>1, <1>2, <1>4, <2>1
    <2>3. r # 0
      BY <1>1, <1>4
    <2>. QED
      BY <1>2, <2>2, <2>3 DEF r, n
  <1>. QED
    BY <1>1, <1>2, <1>3, <1>4

-----------------------------------------------------------------------------
(* The reassembly buffer *)

\* The buffer holds the front of a message.
Front(m, b) == b \in Seq(Bytes) /\ \A i \in 1 .. Len(b) : b[i] = <<m, i>>

LEMMA FrontGrows ==
    ASSUME NEW m \in Sent, NEW b, NEW d \in Seq(Bytes), Front(m, b),
           \A i \in 1 .. Len(d) : d[i] = <<m, Len(b) + i>>
    PROVE  Front(m, b \o d)
  <1>1. Len(b) \in Nat /\ Len(d) \in Nat /\ b \in Seq(Bytes)
    BY LenProperties DEF Front
  <1>2. b \o d \in Seq(Bytes) /\ Len(b \o d) = Len(b) + Len(d)
        /\ \A i \in 1 .. Len(b) + Len(d) :
              (b \o d)[i] = IF i <= Len(b) THEN b[i] ELSE d[i - Len(b)]
    BY <1>1, ConcatProperties
  <1>3. ASSUME NEW i \in 1 .. Len(b) + Len(d) PROVE (b \o d)[i] = <<m, i>>
    <2>1. CASE i <= Len(b)
      BY <1>1, <1>2, <2>1 DEF Front
    <2>2. CASE i > Len(b)
      <3>1. i - Len(b) \in 1 .. Len(d) /\ Len(b) + (i - Len(b)) = i
        BY <1>1, <2>2
      <3>2. d[i - Len(b)] = <<m, i>>
        BY <3>1
      <3>. QED
        BY <1>1, <1>2, <2>2, <3>2
    <2>. QED
      BY <1>1, <2>1, <2>2
  <1>. QED
    BY <1>2, <1>3 DEF Front

LEMMA FrontIsWhole ==
    ASSUME NEW m \in Sent, NEW b, Front(m, b), Len(b) = Length[m]
    PROVE  SubSeq(b, 1, Length[m]) = Payload(m)
  <1>. DEFINE n == Length[m]
  <1>1. n \in Nat /\ b \in Seq(Bytes) /\ b \in [1 .. n -> Bytes]
    BY SentTypes, LenProperties DEF Front
  <1>2. SubSeq(b, 1, n) = b
    BY <1>1, SubSeqFull
  <1>3. \A i \in 1 .. n : b[i] = <<m, i>>
    BY DEF Front
  <1>4. Payload(m) = [i \in 1 .. n |-> <<m, i>>]
    BY DEF Payload
  <1>. HIDE DEF n
  <1>5. b = [i \in 1 .. n |-> <<m, i>>]
    BY <1>1, <1>3
  <1>. QED
    BY <1>2, <1>4, <1>5 DEF n

\* One more message of the sender's among those handed up.
LEMMA OneMoreSent ==
    ASSUME delivered \in Seq(Seq(Bytes)), DeliveredWasSent, NEW m \in Sent,
           Payload(m) \in Seq(Bytes), delivered' = Append(delivered, Payload(m))
    PROVE  DeliveredWasSent'
  <1>. DEFINE n == Len(delivered)
              t == Append(delivered, Payload(m))
  <1>1. n \in Nat /\ DOMAIN delivered = 1 .. n
    BY LenProperties
  <1>2. t \in Seq(Seq(Bytes)) /\ Len(t) = n + 1
        /\ (\A i \in 1 .. n : t[i] = delivered[i]) /\ t[n + 1] = Payload(m)
    BY AppendProperties
  <1>3. DOMAIN t = 1 .. n + 1
    BY <1>2, LenProperties
  <1>4. \E j \in DOMAIN Messages : m = Messages[j]
    BY DEF Sent
  <1>. HIDE DEF n, t
  <1>5. ASSUME NEW i \in 1 .. n + 1
        PROVE  \E j \in DOMAIN Messages : t[i] = Payload(Messages[j])
    <2>1. CASE i \in 1 .. n
      BY <1>1, <1>2, <2>1 DEF DeliveredWasSent
    <2>2. CASE i = n + 1
      BY <1>2, <1>4, <2>2
    <2>. QED
      BY <1>1, <2>1, <2>2
  <1>6. delivered' = t
    BY DEF t
  <1>7. \A x : Payload(x)' = Payload(x)
    BY DEF Payload
  <1>. QED
    BY <1>3, <1>5, <1>6, <1>7 DEF DeliveredWasSent

-----------------------------------------------------------------------------
(* The inductive invariant *)

\* Frame k of a segmented message, the first frame being frame zero.
FrameOf(m, k) == IF k = 0 THEN FirstFrame(m) ELSE ConsecutiveFrame(m, k)

FramesOf(m) == {FrameOf(m, k) : k \in 0 .. ConsecutiveFrames(m)}

\* The bus carries what is left of segmented message m from frame k on.
Carries(m, k) ==
    /\ Length[m] > ISOTP_SF_MAX
    /\ k <= ConsecutiveFrames(m)
    /\ bus \in Seq(FramesOf(m))
    /\ Len(bus) = ConsecutiveFrames(m) - k + 1
    /\ \A i \in 1 .. Len(bus) : bus[i] = FrameOf(m, k + i - 1)

\* No frame was lost and yet a reception is open: it is one that no frame can
\* complete, because its last frame was refused for its padding.
Stuck == filled + ISOTP_CF_MAX > total
Quiet == lost = 0 /\ receiving => Stuck

\* The link has taken the frames of m up to and including frame k.
Taken(m, k) ==
    /\ total = Length[m]
    /\ Front(m, buf)
    /\ filled = Start(k + 1)
    /\ sn = (k + 1) % SnMod

\* The reception under way, if any, stays inside the buffer.
Bounded == receiving => filled < total /\ total <= N

\* Where the link stands with respect to the bus.
EmptyBus  == bus = <<>> /\ Quiet
OneFrame  == \E m \in Sent : /\ Length[m] <= ISOTP_SF_MAX
                             /\ bus = <<SingleFrame(m)>>
                             /\ Quiet
Segmented == \E m \in Sent, k \in Nat :
                 /\ Carries(m, k)
                 /\ Quiet \/ Taken(m, k) \/ (k > 0 /\ Taken(m, k - 1))

LinkInv ==
    /\ N \in Nat
    /\ buf \in Seq(Bytes)
    /\ total \in Nat
    /\ delivered \in Seq(Seq(Bytes))
    /\ receiving \in BOOLEAN
    /\ Bounded
    /\ WholeUntilLoss

IsoInv ==
    /\ todo \in Seq(Sent)
    /\ lost \in Nat
    /\ LinkInv
    /\ EmptyBus \/ OneFrame \/ Segmented

\* Both sides of the invariant speak of the state and of constants only.
LEMMA SegmentedKept ==
    /\ bus' = bus => \A m, k : Carries(m, k) => Carries(m, k)'
    /\ UNCHANGED <<buf, total, sn>> => \A m, k : Taken(m, k) => Taken(m, k)'
  <1>1. \A m : ConsecutiveFrames(m)' = ConsecutiveFrames(m)
    BY DEF ConsecutiveFrames
  <1>2. \A m, k : FrameOf(m, k)' = FrameOf(m, k)
    BY DEF FrameOf, FirstFrame, ConsecutiveFrame, Chunk
  <1>3. \A m : FramesOf(m)' = FramesOf(m)
    BY <1>1, <1>2 DEF FramesOf
  <1>4. ASSUME bus' = bus, NEW m, NEW k, Carries(m, k) PROVE Carries(m, k)'
    BY <1>1, <1>2, <1>3, <1>4 DEF Carries
  <1>5. ASSUME UNCHANGED <<buf, total, sn>>, NEW m, NEW k, Taken(m, k)
        PROVE  Taken(m, k)'
    BY <1>5 DEF Taken, Front, filled, Start
  <1>. QED
    BY <1>4, <1>5

-----------------------------------------------------------------------------
(* What feed does with the frame at the head of the bus *)

\* A refused frame leaves everything but a sequence number as it is.
LEMMA RefusedStep ==
    ASSUME LinkInv, UNCHANGED <<N, buf, total, receiving, delivered, lost>>
    PROVE  LinkInv' /\ (Quiet => Quiet')
  BY DEF LinkInv, Bounded, WholeUntilLoss, DeliveredWasSent, Payload,
         Quiet, Stuck, filled

LEMMA FeedSingleStep ==
    ASSUME LinkInv, NEW m \in Sent, Length[m] <= ISOTP_SF_MAX,
           feed(SingleFrame(m)), UNCHANGED <<N, lost>>
    PROVE  LinkInv' /\ (Quiet => Quiet')
  <1>. DEFINE f == SingleFrame(m)
  <1>1. f.pci = 0 /\ f.len = Length[m] /\ f.data = Chunk(m, 0, ISOTP_SF_MAX)
    BY DEF SingleFrame
  <1>. HIDE DEF f
  <1>2. feedSingle(f)
    BY <1>1 DEF feed, f
  <1>3. CASE Fails("InvalidPci") \/ Fails("Panic")
    BY <1>3, RefusedStep DEF Fails, link
  <1>4. CASE /\ f.len \in 1 .. ISOTP_SF_MAX
             /\ receiving' = FALSE
             /\ delivered' = Append(delivered, SubSeq(f.data, 1, f.len))
             /\ UNCHANGED <<buf, total, sn>>
    <2>1. Payload(m) \in Seq(Bytes) /\ delivered' = Append(delivered, Payload(m))
      BY <1>1, <1>4, SingleIsWhole
    <2>2. delivered' \in Seq(Seq(Bytes))
      BY <2>1, AppendProperties DEF LinkInv
    <2>3. WholeUntilLoss'
      BY <2>1, OneMoreSent DEF LinkInv, WholeUntilLoss
    <2>. QED
      BY <1>4, <2>2, <2>3 DEF LinkInv, Bounded, Quiet
  <1>. QED
    BY <1>2, <1>3, <1>4 DEF feedSingle

LEMMA FeedFirstStep ==
    ASSUME LinkInv, NEW m \in Sent, Length[m] > ISOTP_SF_MAX,
           feed(FirstFrame(m)), UNCHANGED <<N, lost>>,
           Quiet \/ Taken(m, 0)
    PROVE  LinkInv' /\ (Quiet' \/ Taken(m, 0)')
  <1>. DEFINE f == FirstFrame(m)
  <1>1. f.pci = 1 /\ f.len = Length[m] /\ f.data = Chunk(m, 0, ISOTP_FF_MAX)
    BY DEF FirstFrame
  <1>. HIDE DEF f
  <1>2. feedFirst(f)
    BY <1>1 DEF feed, f
  <1>3. CASE Fails("Overflow")
    <2>1. UNCHANGED <<N, buf, total, sn, receiving, delivered, lost>>
      BY <1>3 DEF Fails, link
    <2>. QED
      BY <2>1, RefusedStep DEF Taken, Front, filled
  <1>4. CASE /\ f.len \in ISOTP_FF_MAX + 1 .. N
             /\ buf' = f.data
             /\ total' = f.len
             /\ sn' = 1
             /\ receiving' = TRUE
             /\ UNCHANGED delivered
    <2>. DEFINE d == Chunk(m, 0, ISOTP_FF_MAX)
    <2>1. Length[m] \in Nat /\ ISOTP_FF_MAX \in Nat /\ ISOTP_FF_MAX < Length[m]
          /\ Length[m] <= N
      BY <1>1, <1>4, Sizes, SentTypes
    <2>2. \A i \in 1 .. ISOTP_FF_MAX : 0 + i = i /\ i <= Length[m]
      BY <2>1
    <2>3. d \in Seq(Bytes) /\ Len(d) = ISOTP_FF_MAX
          /\ \A i \in 1 .. ISOTP_FF_MAX : 0 + i <= Length[m] => d[i] = <<m, 0 + i>>
      BY <2>1, ChunkType
    <2>4. buf' = d
      BY <1>1, <1>4
    <2>. HIDE DEF d
    <2>5. Front(m, buf)' /\ filled' = ISOTP_FF_MAX
      BY <2>2, <2>3, <2>4 DEF Front, filled
    <2>6. Start(0 + 1) = ISOTP_FF_MAX /\ (0 + 1) % SnMod = 1
      <3>1. 0 \in Nat /\ 0 + 1 = 1
        OBVIOUS
      <3>2. Start(1) = ISOTP_FF_MAX
        BY <3>1, StartNext
      <3>3. 1 % SnMod = 1
        BY Sizes
      <3>. QED
        BY <3>1, <3>2, <3>3
    <2>7. Taken(m, 0)'
      BY <1>1, <1>4, <2>5, <2>6 DEF Taken, filled
    <2>8. LinkInv'
      BY <1>1, <1>4, <2>1, <2>3, <2>4, <2>5
         DEF LinkInv, Bounded, WholeUntilLoss, DeliveredWasSent, Payload, filled
    <2>. QED
      BY <2>7, <2>8
  <1>. QED
    BY <1>2, <1>3, <1>4 DEF feedFirst

LEMMA FeedConsecutiveStep ==
    ASSUME LinkInv, NEW m \in Sent, NEW k \in Nat, k > 0,
           feed(ConsecutiveFrame(m, k)), UNCHANGED <<N, lost>>, lost \in Nat,
           Quiet \/ Taken(m, k) \/ Taken(m, k - 1)
    PROVE  LinkInv' /\ (Quiet' \/ Taken(m, k)')
  <1>. DEFINE f == ConsecutiveFrame(m, k)
              c == ISOTP_CF_MAX
  <1>1. f.pci = 2 /\ f.sn = k % SnMod /\ f.data = Chunk(m, Start(k), c)
    BY DEF ConsecutiveFrame, Start
  <1>2. c \in Nat /\ Start(k) \in Nat /\ Start(k + 1) = Start(k) + c
    BY Sizes, StartNext
  <1>3. /\ f.data \in Seq(Bytes) /\ Len(f.data) = c
        /\ \A i \in 1 .. c : Start(k) + i <= Length[m] =>
               f.data[i] = <<m, Start(k) + i>>
    BY <1>1, <1>2, ChunkType
  <1>4. k - 1 \in Nat /\ k - 1 + 1 = k
    OBVIOUS
  <1>5. Taken(m, k - 1) => filled = Start(k) /\ sn = k % SnMod
    BY <1>4 DEF Taken
  <1>6. Taken(m, k) => sn # k % SnMod
    BY SequenceNumbers DEF Taken
  <1>7. filled \in Nat
    BY LenProperties DEF LinkInv, filled
  <1>. HIDE DEF f, c
  <1>8. feedConsecutive(f)
    BY <1>1 DEF feed, f
  <1>9. CASE ~receiving /\ Fails("UnexpectedFrame")
    BY <1>9, RefusedStep DEF Fails, link, Quiet
  <1>10. CASE receiving /\ f.sn # sn /\ Fails("WrongSequence")
    <2>1. UNCHANGED <<N, buf, total, sn, receiving, delivered, lost>>
      BY <1>10 DEF Fails, link
    <2>2. Quiet \/ Taken(m, k)
      BY <1>1, <1>5, <1>10
    <2>3. Taken(m, k) => Taken(m, k)'
      BY <2>1 DEF Taken, Front, filled
    <2>. QED
      BY <2>1, <2>2, <2>3, RefusedStep
  <1>11. CASE receiving /\ f.sn = sn /\ takeConsecutive(f)
    <2>1. CASE filled + Len(f.data) > total
      <3>1. UNCHANGED <<N, buf, total, receiving, delivered, lost>>
        BY <1>11, <2>1 DEF takeConsecutive
      <3>2. filled' + ISOTP_CF_MAX > total'
        BY <1>3, <2>1, <3>1 DEF filled, c
      <3>. QED
        BY <3>1, <3>2, RefusedStep DEF Quiet, Stuck
    <2>2. CASE ~(filled + Len(f.data) > total)
      <3>1. filled + c <= total /\ total \in Nat
        BY <1>2, <1>3, <1>7, <2>2 DEF LinkInv
      <3>2. /\ buf' = buf \o f.data /\ total' = total
            /\ sn' = (sn + 1) % SnMod
        BY <1>11, <2>2 DEF takeConsecutive
      <3>3. buf' \in Seq(Bytes) /\ filled' = filled + c
        BY <1>3, <3>2, ConcatProperties DEF LinkInv, filled
      <3>4. lost # 0 \/ Taken(m, k - 1)
        BY <1>1, <1>2, <1>6, <1>7, <1>11, <3>1 DEF Quiet, Stuck, c
      <3>5. ASSUME Taken(m, k - 1) PROVE Taken(m, k)'
        <4>1. /\ total = Length[m] /\ Front(m, buf)
              /\ filled = Start(k) /\ sn = k % SnMod
          BY <1>5, <3>5 DEF Taken
        <4>2. \A i \in 1 .. c : f.data[i] = <<m, Len(buf) + i>>
          <5>1. \A i \in 1 .. c : Start(k) + i <= Length[m]
            BY <1>2, <3>1, <4>1
          <5>. QED
            BY <1>3, <4>1, <5>1 DEF filled
        <4>3. Front(m, buf \o f.data)
          BY <1>3, <4>1, <4>2, FrontGrows
        <4>4. Front(m, buf)'
          BY <3>2, <4>3 DEF Front
        <4>5. sn' = (k + 1) % SnMod
          BY <3>2, <4>1, SequenceNumbers
        <4>6. filled' = Start(k + 1)
          BY <1>2, <3>3, <4>1
        <4>. QED
          BY <3>2, <4>1, <4>4, <4>5, <4>6 DEF Taken
      <3>6. CASE filled + Len(f.data) >= total
        <4>1. /\ receiving' = FALSE
              /\ delivered' = Append(delivered, SubSeq(buf', 1, total))
          BY <1>11, <2>2, <3>6 DEF takeConsecutive
        <4>2. filled' = total
          BY <1>3, <1>7, <3>1, <3>3, <3>6
        <4>3. SubSeq(buf', 1, total) = buf'
          BY <3>3, <4>2, SubSeqFull DEF filled
        <4>4. delivered' \in Seq(Seq(Bytes))
          BY <3>3, <4>1, <4>3, AppendProperties DEF LinkInv
        <4>5. ASSUME lost = 0 PROVE DeliveredWasSent'
          <5>1. Taken(m, k)' /\ total' = Length[m] /\ Front(m, buf)'
            BY <3>4, <3>5, <4>5 DEF Taken
          <5>2. Front(m, buf') /\ Len(buf') = Length[m]
            BY <3>2, <4>2, <5>1 DEF Front, filled
          <5>3. SubSeq(buf', 1, Length[m]) = Payload(m)
            BY <5>2, FrontIsWhole
          <5>4. delivered' = Append(delivered, Payload(m))
            BY <3>2, <4>1, <5>1, <5>3
          <5>5. Payload(m) \in Seq(Bytes)
            BY <3>2, <3>3, <4>3, <5>1, <5>3
          <5>. QED
            BY <4>5, <5>4, <5>5, OneMoreSent DEF LinkInv, WholeUntilLoss
        <4>. QED
          BY <3>2, <3>3, <4>1, <4>4, <4>5
             DEF LinkInv, Bounded, WholeUntilLoss, Quiet
      <3>7. CASE ~(filled + Len(f.data) >= total)
        <4>1. UNCHANGED <<receiving, delivered>>
          BY <1>11, <2>2, <3>7 DEF takeConsecutive
        <4>2. filled' < total' /\ total' <= N
          BY <1>2, <1>3, <1>7, <1>11, <3>1, <3>2, <3>3, <3>7, Sizes
             DEF LinkInv, Bounded
        <4>3. LinkInv'
          BY <3>2, <3>3, <4>1, <4>2
             DEF LinkInv, Bounded, WholeUntilLoss, DeliveredWasSent, Payload
        <4>4. Quiet' \/ Taken(m, k)'
          BY <3>4, <3>5 DEF Quiet
        <4>. QED
          BY <4>3, <4>4
      <3>. QED
        BY <3>6, <3>7
    <2>. QED
      BY <2>1, <2>2
  <1>. QED
    BY <1>8, <1>9, <1>10, <1>11 DEF feedConsecutive

-----------------------------------------------------------------------------
(* What the bus carries *)

\* encode_message puts the first frame and all consecutive ones on the bus.
LEMMA EncodeCarries ==
    ASSUME NEW m \in Sent, Length[m] > ISOTP_SF_MAX, bus' = encode_message(m)
    PROVE  Carries(m, 0)'
  <1>. DEFINE K == ConsecutiveFrames(m)
              S == FramesOf(m)
              c == [k \in 1 .. K |-> ConsecutiveFrame(m, k)]
              h == <<FirstFrame(m)>>
              e == encode_message(m)
  <1>1. K \in Nat
    BY FramesSuffice
  <1>2. Length[m] \in Nat /\ ISOTP_SF_MAX \in Nat /\ ~(Length[m] <= ISOTP_SF_MAX)
    BY Sizes, SentTypes
  <1>3. e = h \o c
    BY <1>2 DEF encode_message
  <1>4. \A k \in 0 .. K : FrameOf(m, k) \in S
    BY DEF FramesOf
  <1>5. FrameOf(m, 0) = FirstFrame(m)
        /\ \A k \in 1 .. K : FrameOf(m, k) = ConsecutiveFrame(m, k)
    BY DEF FrameOf
  <1>6. c \in [1 .. K -> S] /\ \A k \in 1 .. K : c[k] = FrameOf(m, k)
    BY <1>1, <1>4, <1>5
  <1>7. FirstFrame(m) \in S
    BY <1>1, <1>4, <1>5
  <1>. HIDE DEF K, S, c, e
  <1>8. c \in Seq(S) /\ Len(c) = K
    BY <1>1, <1>6, SeqDef, LenProperties
  <1>9. h \in Seq(S) /\ Len(h) = 1 /\ h[1] = FrameOf(m, 0)
    BY <1>5, <1>7
  <1>. HIDE DEF h
  <1>10. h \o c \in Seq(S) /\ Len(h \o c) = 1 + K
         /\ \A i \in 1 .. 1 + K : (h \o c)[i] = IF i <= 1 THEN h[i] ELSE c[i - 1]
    <2>1. h \o c \in Seq(S) /\ Len(h \o c) = Len(h) + Len(c)
          /\ \A i \in 1 .. Len(h) + Len(c) :
                (h \o c)[i] = IF i <= Len(h) THEN h[i] ELSE c[i - Len(h)]
      BY <1>8, <1>9, ConcatProperties
    <2>. QED
      BY <1>8, <1>9, <2>1
  <1>11. ASSUME NEW i \in 1 .. 1 + K PROVE (h \o c)[i] = FrameOf(m, 0 + i - 1)
    <2>1. CASE i = 1
      <3>1. 0 + i - 1 = 0 /\ i <= 1
        BY <2>1
      <3>. QED
        BY <1>9, <1>10, <2>1, <3>1
    <2>2. CASE i # 1
      <3>1. i - 1 \in 1 .. K /\ ~(i <= 1) /\ 0 + i - 1 = i - 1
        BY <1>1, <2>2
      <3>. QED
        BY <1>6, <1>10, <3>1
    <2>. QED
      BY <2>1, <2>2
  <1>12. bus' \in Seq(S) /\ Len(bus') = K - 0 + 1 /\ 0 <= K
         /\ \A i \in 1 .. Len(bus') : bus'[i] = FrameOf(m, 0 + i - 1)
    BY <1>1, <1>3, <1>10, <1>11 DEF e
  <1>. QED
    BY <1>12 DEF Carries, K, S, FramesOf, FrameOf, ConsecutiveFrames, FirstFrame,
                 ConsecutiveFrame, Chunk

\* The head of a segmented message, and what is left without it.
LEMMA CarriesHead ==
    ASSUME NEW m \in Sent, NEW k \in Nat, Carries(m, k)
    PROVE  bus # <<>> /\ Head(bus) = FrameOf(m, k)
  <1>1. ConsecutiveFrames(m) \in Nat /\ bus \in Seq(FramesOf(m)) /\ Len(bus) >= 1
    BY FramesSuffice DEF Carries
  <1>2. bus # <<>> /\ Head(bus) = bus[1]
    BY <1>1
  <1>3. 1 \in 1 .. Len(bus) /\ k + 1 - 1 = k
    BY <1>1
  <1>. QED
    BY <1>2, <1>3 DEF Carries

LEMMA CarriesTail ==
    ASSUME NEW m \in Sent, NEW k \in Nat, Carries(m, k), bus' = Tail(bus)
    PROVE  \/ k = ConsecutiveFrames(m) /\ bus' = <<>>
           \/ Carries(m, k + 1)'
  <1>. DEFINE K == ConsecutiveFrames(m)
              S == FramesOf(m)
  <1>1. K \in Nat /\ k <= K /\ bus \in Seq(S) /\ Len(bus) = K - k + 1 /\ bus # <<>>
    BY FramesSuffice, CarriesHead DEF Carries
  <1>2. \A i \in 1 .. Len(bus) : bus[i] = FrameOf(m, k + i - 1)
    BY DEF Carries
  <1>. HIDE DEF K, S
  <1>3. bus' \in Seq(S) /\ Len(bus') = K - k
        /\ \A i \in 1 .. Len(bus') : bus'[i] = bus[i + 1]
    BY <1>1, HeadTailProperties
  <1>4. CASE k = K
    <2>1. Len(bus') = 0
      BY <1>1, <1>3, <1>4
    <2>2. bus' = <<>>
      BY <1>3, <2>1, EmptySeq
    <2>. QED
      BY <1>4, <2>2 DEF K
  <1>5. CASE k # K
    <2>1. k + 1 <= K /\ Len(bus') = K - (k + 1) + 1
      BY <1>1, <1>3, <1>5
    <2>2. ASSUME NEW i \in 1 .. Len(bus') PROVE bus'[i] = FrameOf(m, k + 1 + i - 1)
      <3>1. i + 1 \in 1 .. Len(bus) /\ k + (i + 1) - 1 = k + 1 + i - 1
        BY <1>1, <1>3
      <3>. QED
        BY <1>2, <1>3, <3>1
    <2>. QED
      BY <1>3, <2>1, <2>2 DEF Carries, K, S, FramesOf, FrameOf, ConsecutiveFrames,
                             FirstFrame, ConsecutiveFrame, Chunk
  <1>. QED
    BY <1>4, <1>5

\* The frame at the head was fed to the link and is still on the bus.
HeadFed ==
    \/ \E m \in Sent : /\ Length[m] <= ISOTP_SF_MAX
                       /\ bus = <<SingleFrame(m)>>
                       /\ Quiet'
    \/ \E m \in Sent, k \in Nat : Carries(m, k) /\ (Quiet' \/ Taken(m, k)')

LEMMA FeedHeadStep ==
    ASSUME IsoInv, bus # <<>>, feed(Head(bus)), UNCHANGED <<N, lost>>
    PROVE  LinkInv' /\ HeadFed
  <1>1. LinkInv /\ lost \in Nat
    BY DEF IsoInv
  <1>2. CASE OneFrame
    <2>1. PICK m \in Sent : Length[m] <= ISOTP_SF_MAX /\ bus = <<SingleFrame(m)>> /\ Quiet
      BY <1>2 DEF OneFrame
    <2>2. feed(SingleFrame(m))
      BY <2>1
    <2>. QED
      BY <1>1, <2>1, <2>2, FeedSingleStep DEF HeadFed
  <1>3. CASE Segmented
    <2>1. PICK m \in Sent, k \in Nat :
              Carries(m, k) /\ (Quiet \/ Taken(m, k) \/ (k > 0 /\ Taken(m, k - 1)))
      BY <1>3 DEF Segmented
    <2>2. feed(FrameOf(m, k)) /\ Length[m] > ISOTP_SF_MAX
      BY <2>1, CarriesHead DEF Carries
    <2>3. LinkInv' /\ (Quiet' \/ Taken(m, k)')
      <3>1. CASE k = 0
        BY <1>1, <2>1, <2>2, <3>1, FeedFirstStep DEF FrameOf
      <3>2. CASE k > 0
        <4>1. feed(ConsecutiveFrame(m, k))
          BY <2>2, <3>2 DEF FrameOf
        <4>. QED
          BY <1>1, <2>1, <3>2, <4>1, FeedConsecutiveStep
      <3>. QED
        BY <3>1, <3>2
    <2>. QED
      BY <2>1, <2>3 DEF HeadFed
  <1>. QED
    BY <1>2, <1>3 DEF IsoInv, EmptyBus

\* After the last frame nothing is left that a later frame could complete.
LEMMA LastTaken ==
    ASSUME NEW m \in Sent, Length[m] > ISOTP_SF_MAX, LinkInv',
           Taken(m, ConsecutiveFrames(m))'
    PROVE  Quiet'
  <1>1. /\ total' = Length[m] /\ buf' \in Seq(Bytes)
        /\ Len(buf') = Start(ConsecutiveFrames(m) + 1)
        /\ receiving' => Len(buf') < total'
    BY DEF Taken, LinkInv, Bounded, filled, Start, ConsecutiveFrames
  <1>2. Length[m] \in Nat /\ Len(buf') >= Length[m] /\ Len(buf') \in Nat
    BY <1>1, FramesSuffice, SentTypes, LenProperties
  <1>3. ~receiving'
    BY <1>1, <1>2
  <1>. QED
    BY <1>3 DEF Quiet

-----------------------------------------------------------------------------
(* Every step keeps the invariant *)

LEMMA IsoStart == Init => IsoInv
  <1>. SUFFICES ASSUME Init PROVE IsoInv
    OBVIOUS
  <1>1. <<>> \in Seq(Bytes) /\ <<>> \in Seq(Seq(Bytes)) /\ DOMAIN <<>> = {}
    OBVIOUS
  <1>2. LinkInv
    BY <1>1, IsoTpAssumption DEF Init, LinkInv, Bounded, WholeUntilLoss, DeliveredWasSent
  <1>3. EmptyBus
    BY DEF Init, EmptyBus, Quiet
  <1>. QED
    BY <1>2, <1>3, SentTypes DEF Init, IsoInv

LEMMA SendStep == IsoInv /\ send => IsoInv'
  <1>. SUFFICES ASSUME IsoInv, send PROVE IsoInv'
    OBVIOUS
  <1>1. /\ todo \in Seq(Sent) /\ todo # <<>> /\ bus = <<>>
        /\ bus' = IF Encodable(Head(todo)) THEN encode_message(Head(todo)) ELSE <<>>
        /\ todo' = Tail(todo)
        /\ UNCHANGED <<N, buf, total, sn, receiving, delivered, lost>>
    BY DEF send, IsoInv, link
  <1>2. Head(todo) \in Sent /\ todo' \in Seq(Sent)
    BY <1>1, HeadTailProperties
  <1>3. Quiet
    <2>1. CASE OneFrame
      BY <2>1 DEF OneFrame
    <2>2. ~Segmented
      BY <1>1, CarriesHead DEF Segmented
    <2>. QED
      BY <2>1, <2>2 DEF IsoInv, EmptyBus
  <1>4. LinkInv' /\ Quiet'
    BY <1>1, <1>3, RefusedStep DEF IsoInv
  <1>5. (EmptyBus \/ OneFrame \/ Segmented)'
    <2>. PICK m \in Sent : m = Head(todo)
      BY <1>2
    <2>1. CASE ~Encodable(m)
      BY <1>1, <1>4, <2>1 DEF EmptyBus
    <2>2. CASE Encodable(m) /\ Length[m] <= ISOTP_SF_MAX
      <3>1. bus' = <<SingleFrame(m)>>
        BY <1>1, <2>2 DEF encode_message
      <3>. QED
        BY <1>4, <2>2, <3>1 DEF OneFrame, SingleFrame, Chunk
    <2>3. CASE Encodable(m) /\ ~(Length[m] <= ISOTP_SF_MAX)
      <3>1. Length[m] > ISOTP_SF_MAX
        BY <2>3, Sizes, SentTypes
      <3>2. bus' = encode_message(m)
        BY <1>1, <2>3
      <3>3. Carries(m, 0)'
        BY <3>1, <3>2, EncodeCarries
      <3>4. 0 \in Nat
        OBVIOUS
      <3>. QED
        BY <1>4, <3>3, <3>4 DEF Segmented
    <2>. QED
      BY <2>1, <2>2, <2>3
  <1>. QED
    BY <1>1, <1>2, <1>4, <1>5 DEF IsoInv

\* What remains when the frame that was fed is taken off the bus.
LEMMA ReceiveStep == IsoInv /\ receive => IsoInv'
  <1>. SUFFICES ASSUME IsoInv, receive PROVE IsoInv'
    OBVIOUS
  <1>1. /\ bus # <<>> /\ feed(Head(bus)) /\ bus' = Tail(bus)
        /\ UNCHANGED <<N, todo, lost>>
    BY DEF receive
  <1>2. LinkInv' /\ HeadFed
    BY <1>1, FeedHeadStep
  <1>3. CASE \E m \in Sent : /\ Length[m] <= ISOTP_SF_MAX
                             /\ bus = <<SingleFrame(m)>>
                             /\ Quiet'
    <2>1. bus' = <<>>
      BY <1>1, <1>3
    <2>. QED
      BY <1>1, <1>2, <1>3, <2>1 DEF IsoInv, EmptyBus
  <1>4. CASE \E m \in Sent, k \in Nat : Carries(m, k) /\ (Quiet' \/ Taken(m, k)')
    <2>1. PICK m \in Sent, k \in Nat : Carries(m, k) /\ (Quiet' \/ Taken(m, k)')
      BY <1>4
    <2>2. CASE k = ConsecutiveFrames(m) /\ bus' = <<>>
      <3>1. Taken(m, k)' => Taken(m, ConsecutiveFrames(m))'
        BY <2>2 DEF Taken, Front, Start, ConsecutiveFrames
      <3>2. Length[m] > ISOTP_SF_MAX
        BY <2>1 DEF Carries
      <3>3. Taken(m, ConsecutiveFrames(m))' => Quiet'
        BY <1>2, <3>2, LastTaken
      <3>. QED
        BY <1>1, <1>2, <2>1, <2>2, <3>1, <3>3 DEF IsoInv, EmptyBus
    <2>3. CASE Carries(m, k + 1)'
      <3>1. k + 1 \in Nat /\ k + 1 > 0 /\ k + 1 - 1 = k
        OBVIOUS
      <3>2. Quiet' \/ Taken(m, k + 1 - 1)'
        BY <2>1, <3>1
      <3>3. Segmented'
        BY <2>3, <3>1, <3>2 DEF Segmented
      <3>. QED
        BY <1>1, <1>2, <3>3 DEF IsoInv
    <2>. QED
      BY <1>1, <2>1, <2>2, <2>3, CarriesTail
  <1>. QED
    BY <1>2, <1>3, <1>4 DEF HeadFed

LEMMA ReceiveTwiceStep == IsoInv /\ receiveTwice => IsoInv'
  <1>. SUFFICES ASSUME IsoInv, receiveTwice PROVE IsoInv'
    OBVIOUS
  <1>1. /\ bus # <<>> /\ feed(Head(bus)) /\ bus' = bus
        /\ UNCHANGED <<N, todo, lost>>
    BY DEF receiveTwice
  <1>2. LinkInv' /\ HeadFed
    BY <1>1, FeedHeadStep
  <1>3. CASE \E m \in Sent : /\ Length[m] <= ISOTP_SF_MAX
                             /\ bus = <<SingleFrame(m)>>
                             /\ Quiet'
    <2>1. OneFrame'
      BY <1>1, <1>3 DEF OneFrame, SingleFrame, Chunk
    <2>. QED
      BY <1>1, <1>2, <2>1 DEF IsoInv
  <1>4. CASE \E m \in Sent, k \in Nat : Carries(m, k) /\ (Quiet' \/ Taken(m, k)')
    <2>1. \A m, k : Carries(m, k) => Carries(m, k)'
      BY <1>1, SegmentedKept
    <2>2. Segmented'
      BY <1>4, <2>1 DEF Segmented
    <2>. QED
      BY <1>1, <1>2, <2>2 DEF IsoInv
  <1>. QED
    BY <1>2, <1>3, <1>4 DEF HeadFed

\* A foreign flow control is refused, wherever it falls.
LEMMA ReceiveForeignStep == IsoInv /\ receiveForeign => IsoInv'
  <1>. SUFFICES ASSUME IsoInv, receiveForeign PROVE IsoInv'
    OBVIOUS
  <1>1. feed(flow_control_frame) /\ UNCHANGED <<N, todo, bus, lost>>
    BY DEF receiveForeign
  <1>2. UNCHANGED <<buf, total, sn, receiving, delivered>>
    BY <1>1 DEF feed, flow_control_frame, Fails, link
  <1>3. LinkInv' /\ (Quiet => Quiet')
    BY <1>1, <1>2, RefusedStep DEF IsoInv
  <1>4. EmptyBus => EmptyBus'
    BY <1>1, <1>3 DEF EmptyBus
  <1>5. OneFrame => OneFrame'
    BY <1>1, <1>3 DEF OneFrame, SingleFrame, Chunk
  <1>6. Segmented => Segmented'
    <2>1. \A m, k : Carries(m, k) => Carries(m, k)'
      BY <1>1, SegmentedKept
    <2>2. \A m, k : Taken(m, k) => Taken(m, k)'
      BY <1>2, SegmentedKept
    <2>. QED
      BY <1>3, <2>1, <2>2 DEF Segmented
  <1>. QED
    BY <1>1, <1>3, <1>4, <1>5, <1>6 DEF IsoInv

\* A lost frame: from here on only the sizes of frames and buffer matter.
LEMMA LoseStep == IsoInv /\ lose => IsoInv'
  <1>. SUFFICES ASSUME IsoInv, lose PROVE IsoInv'
    OBVIOUS
  <1>1. /\ bus # <<>> /\ bus' = Tail(bus) /\ lost' = lost + 1 /\ lost \in Nat
        /\ UNCHANGED <<N, todo, buf, total, sn, receiving, delivered>>
    BY DEF lose, link, IsoInv
  <1>2. lost' \in Nat /\ lost' # 0
    BY <1>1
  <1>3. LinkInv' /\ Quiet'
    BY <1>1, <1>2 DEF IsoInv, LinkInv, Bounded, WholeUntilLoss, Quiet, filled
  <1>4. (EmptyBus \/ Segmented)'
    <2>1. CASE OneFrame
      BY <1>1, <1>3, <2>1 DEF OneFrame, EmptyBus
    <2>2. CASE Segmented
      <3>1. PICK m \in Sent, k \in Nat : Carries(m, k)
        BY <2>2 DEF Segmented
      <3>2. bus' = <<>> \/ Carries(m, k + 1)'
        BY <1>1, <3>1, CarriesTail
      <3>3. k + 1 \in Nat
        OBVIOUS
      <3>. QED
        BY <1>3, <3>2, <3>3 DEF EmptyBus, Segmented
    <2>. QED
      BY <1>1, <2>1, <2>2 DEF IsoInv, EmptyBus
  <1>. QED
    BY <1>1, <1>2, <1>3, <1>4 DEF IsoInv

LEMMA IsoStep == IsoInv /\ [Next]_ivars => IsoInv'
  <1>. SUFFICES ASSUME IsoInv, [Next]_ivars PROVE IsoInv'
    OBVIOUS
  <1>1. CASE UNCHANGED ivars
    <2>1. UNCHANGED <<N, todo, bus, buf, total, sn, receiving, delivered, lost>>
      BY <1>1 DEF ivars, link
    <2>2. LinkInv' /\ (Quiet => Quiet')
      BY <2>1, RefusedStep DEF IsoInv
    <2>3. OneFrame => OneFrame'
      BY <2>1, <2>2 DEF OneFrame, SingleFrame, Chunk
    <2>4. \A m, k : Carries(m, k) => Carries(m, k)'
      BY <2>1, SegmentedKept
    <2>5. \A m, k : Taken(m, k) => Taken(m, k)'
      BY <2>1, SegmentedKept
    <2>6. Segmented => Segmented'
      BY <2>2, <2>4, <2>5 DEF Segmented
    <2>. QED
      BY <2>1, <2>2, <2>3, <2>6 DEF IsoInv, EmptyBus
  <1>. QED
    BY <1>1, SendStep, ReceiveStep, ReceiveTwiceStep, ReceiveForeignStep, LoseStep
       DEF Next

LEMMA IsoInvariant == Spec => []IsoInv
  BY IsoStart, IsoStep, PTL DEF Spec


\* Only a link smaller than a single frame is ever stopped by a panic.
OnlySmallPanics == event = "Panic" => N < ISOTP_SF_MAX

LEMMA PanicStep ==
    ASSUME N \in Nat, OnlySmallPanics, [Next]_ivars
    PROVE  OnlySmallPanics'
  <1>1. N' = N /\ ISOTP_SF_MAX' = ISOTP_SF_MAX
    BY DEF Next, send, receive, receiveTwice, receiveForeign, lose, ivars,
           ISOTP_SF_MAX
  <1>2. CASE event' = event
    BY <1>1, <1>2 DEF OnlySmallPanics
  <1>3. ASSUME NEW f, feed(f) PROVE event' = "Panic" => N < ISOTP_SF_MAX
    <2>1. CASE feedSingle(f)
      BY <2>1, Sizes DEF feedSingle, Fails
    <2>2. CASE feedFirst(f) \/ feedConsecutive(f) \/ Fails("InvalidPci")
      BY <2>2 DEF feedFirst, feedConsecutive, takeConsecutive, Fails
    <2>. QED
      BY <1>3, <2>1, <2>2 DEF feed
  <1>4. \/ event' = event
        \/ \E f : feed(f)
    BY DEF Next, send, receive, receiveTwice, receiveForeign, lose, ivars
  <1>. QED
    BY <1>1, <1>2, <1>3, <1>4 DEF OnlySmallPanics

-----------------------------------------------------------------------------
(* Theorems *)

\* However frames are lost, repeated or foreign, IsoTpLink::feed never lets
\* the reassembly pass the length it was told, nor that length the capacity of
\* the link; and its unchecked copy of a single frame panics only in a link
\* whose capacity is below one single frame.
THEOREM BufferSafe == Spec => []NeverOverruns
  <1>1. Init => OnlySmallPanics
    BY DEF Init, OnlySmallPanics
  <1>2. IsoInv /\ OnlySmallPanics /\ [Next]_ivars => OnlySmallPanics'
    BY PanicStep DEF IsoInv, LinkInv
  <1>3. IsoInv /\ OnlySmallPanics => NeverOverruns
    BY DEF IsoInv, LinkInv, Bounded, OnlySmallPanics, NeverOverruns
  <1>. QED
    BY <1>1, <1>2, <1>3, IsoInvariant, PTL DEF Spec

\* As long as the bus loses no frame, what feed hands up as complete is byte
\* for byte a message encode_message was given: padding, a wrapped sequence
\* number, repeated frames and messages the link refuses do not change that.
THEOREM WholeMessages == Spec => []WholeUntilLoss
  <1>1. IsoInv => WholeUntilLoss
    BY DEF IsoInv, LinkInv
  <1>. QED
    BY <1>1, IsoInvariant, PTL
=============================================================================
