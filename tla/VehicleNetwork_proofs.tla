------------------------ MODULE VehicleNetwork_proofs ------------------------
(***************************************************************************)
(* Theorems about VehicleNetwork, for any number of nodes and of frames    *)
(* and every length of the receive queue, and about the two networks of    *)
(* the same shape, the Ethernet segment and the LIN cluster.               *)
(***************************************************************************)
EXTENDS SomeIpNetwork, LinCluster, AglCan, SequenceTheorems,
        FunctionTheorems, FiniteSetTheorems, TLAPS

\* Frames are positions in log.  What a node has seen grows in bus order; a
\* node that is not attached has seen nothing.
NetTypeInv ==
    /\ attached \subseteq Nodes
    /\ log \in Seq(Nodes)
    /\ queue \in [Nodes -> Seq(1 .. Len(log))]
    /\ received \in [Nodes -> Seq(1 .. Len(log))]
    /\ since \in [Nodes -> 0 .. Len(log)]

NetInv == NetTypeInv /\ BusOrder /\ NoLossBelowCapacity

-----------------------------------------------------------------------------
(* Sequences of frames *)

Increasing(s) == \A i, j \in DOMAIN s : i < j => s[i] < s[j]

\* A frame behind all others keeps a sequence increasing.
LEMMA IncreasingAppend ==
    ASSUME NEW m \in Nat, NEW s \in Seq(1 .. m), Increasing(s)
    PROVE  /\ Append(s, m + 1) \in Seq(1 .. m + 1)
           /\ Increasing(Append(s, m + 1))
           /\ ToSet(Append(s, m + 1)) = ToSet(s) \cup {m + 1}
  <1>. DEFINE t == Append(s, m + 1)
              n == Len(s)
  <1>1. n \in Nat /\ DOMAIN s = 1 .. n /\ \A i \in 1 .. n : s[i] \in 1 .. m
    BY LenProperties, ElementOfSeq
  <1>2. s \in Seq(1 .. m + 1)
    <2>1. 1 .. m \subseteq 1 .. m + 1
      OBVIOUS
    <2>. QED
      BY <2>1, SeqMonotonic
  <1>3. /\ t \in Seq(1 .. m + 1) /\ Len(t) = n + 1 /\ DOMAIN t = 1 .. n + 1
        /\ \A i \in 1 .. n : t[i] = s[i]
        /\ t[n + 1] = m + 1
    BY <1>1, <1>2, AppendProperties, LenProperties
  <1>. HIDE DEF t, n
  <1>4. \A i \in 1 .. n + 1 : i \in 1 .. n \/ i = n + 1
    BY <1>1
  <1>5. Increasing(t)
    <2>. SUFFICES ASSUME NEW i \in 1 .. n + 1, NEW j \in 1 .. n + 1, i < j
                  PROVE  t[i] < t[j]
      BY <1>3 DEF Increasing
    <2>1. i \in 1 .. n /\ t[i] = s[i] /\ s[i] \in 1 .. m
      BY <1>1, <1>3
    <2>2. CASE j \in 1 .. n
      BY <1>1, <1>3, <2>1, <2>2 DEF Increasing
    <2>3. CASE j = n + 1
      BY <1>3, <2>1, <2>3
    <2>. QED
      BY <1>4, <2>2, <2>3
  <1>6. ToSet(t) = ToSet(s) \cup {m + 1}
    <2>1. \A x : x \in ToSet(s) <=> \E i \in 1 .. n : x = s[i]
      BY <1>1 DEF ToSet
    <2>2. \A x : x \in ToSet(t) <=> \E i \in 1 .. n + 1 : x = t[i]
      BY <1>3 DEF ToSet
    <2>3. n + 1 \in 1 .. n + 1 /\ 1 .. n \subseteq 1 .. n + 1
      BY <1>1
    <2>4. ASSUME NEW x \in ToSet(t) PROVE x \in ToSet(s) \cup {m + 1}
      <3>1. PICK i \in 1 .. n + 1 : x = t[i]
        BY <2>2
      <3>2. CASE i \in 1 .. n
        BY <1>3, <2>1, <3>1, <3>2
      <3>3. CASE i = n + 1
        BY <1>3, <3>1, <3>3
      <3>. QED
        BY <1>4, <3>2, <3>3
    <2>5. ASSUME NEW x \in ToSet(s) PROVE x \in ToSet(t)
      <3>1. PICK i \in 1 .. n : x = s[i]
        BY <2>1
      <3>2. i \in 1 .. n + 1 /\ x = t[i]
        BY <1>3, <2>3, <3>1
      <3>. QED
        BY <2>2, <3>2
    <2>6. m + 1 \in ToSet(t)
      BY <1>3, <2>2, <2>3
    <2>. QED
      BY <2>4, <2>5, <2>6
  <1>. QED
    BY <1>3, <1>5, <1>6 DEF t

\* An increasing sequence has as many elements as places.
LEMMA IncreasingCount ==
    ASSUME NEW m \in Nat, NEW s \in Seq(1 .. m), Increasing(s)
    PROVE  IsFiniteSet(ToSet(s)) /\ Cardinality(ToSet(s)) = Len(s)
  <1>. DEFINE n == Len(s)
              T == ToSet(s)
  <1>1. n \in Nat /\ DOMAIN s = 1 .. n /\ s \in [1 .. n -> 1 .. m]
    BY LenProperties
  <1>2. T = {s[i] : i \in 1 .. n} /\ s \in [1 .. n -> T]
    BY <1>1 DEF ToSet
  <1>3. \A i, j \in 1 .. n : s[i] = s[j] => i = j
    <2>. SUFFICES ASSUME NEW i \in 1 .. n, NEW j \in 1 .. n, s[i] = s[j] PROVE i = j
      OBVIOUS
    <2>1. s[i] \in Nat /\ ~(s[i] < s[j]) /\ ~(s[j] < s[i])
      BY <1>1
    <2>. QED
      BY <1>1, <2>1 DEF Increasing
  <1>4. \A x \in T : \E i \in 1 .. n : s[i] = x
    BY <1>2
  <1>. HIDE DEF n, T
  <1>5. ExistsBijection(1 .. n, T)
    BY <1>2, <1>3, <1>4, Fun_IsBij DEF ExistsBijection
  <1>6. IsFiniteSet(1 .. n) /\ Cardinality(1 .. n) = n
    BY <1>1, FS_Interval
  <1>. QED
    BY <1>5, <1>6, FS_Bijection DEF n, T

\* What a sequence of positions holds.
LEMMA SetOfSeq ==
    ASSUME NEW m \in Nat, NEW s \in Seq(1 .. m)
    PROVE  ToSet(s) \subseteq 1 .. m
  <1>1. DOMAIN s = 1 .. Len(s) /\ \A i \in 1 .. Len(s) : s[i] \in 1 .. m
    BY LenProperties, ElementOfSeq
  <1>. QED
    BY <1>1 DEF ToSet

\* Moving the head of one sequence to the end of another.
LEMMA MoveHead ==
    ASSUME NEW S, NEW r \in Seq(S), NEW q \in Seq(S), q # <<>>
    PROVE  /\ Append(r, Head(q)) \in Seq(S) /\ Tail(q) \in Seq(S)
           /\ Append(r, Head(q)) \o Tail(q) = r \o q
  <1>1. Head(q) \in S /\ Tail(q) \in Seq(S) /\ <<Head(q)>> \in Seq(S)
    BY HeadTailProperties
  <1>2. Append(r, Head(q)) = r \o <<Head(q)>>
    BY <1>1, AppendIsConcat
  <1>3. q = <<Head(q)>> \o Tail(q)
    <2>1. Len(q) \in Nat \ {0} /\ 1 \in 1 .. Len(q) /\ Len(q) \in 1 .. Len(q)
      BY EmptySeq
    <2>2. SubSeq(q, 1, Len(q)) = <<q[1]>> \o SubSeq(q, 1 + 1, Len(q))
      BY <2>1, SubSeqRecursiveFirst
    <2>3. Head(q) = q[1] /\ Tail(q) = SubSeq(q, 2, Len(q)) /\ SubSeq(q, 1, Len(q)) = q
      BY TailIsSubSeq, SubSeqFull
    <2>. QED
      BY <2>2, <2>3
  <1>4. (r \o <<Head(q)>>) \o Tail(q) = r \o (<<Head(q)>> \o Tail(q))
    BY <1>1, ConcatAssociative
  <1>5. Append(r, Head(q)) \in Seq(S)
    BY <1>1, AppendProperties
  <1>. QED
    BY <1>1, <1>2, <1>3, <1>4, <1>5

\* Appending to the second of two sequences appends to both.
LEMMA ConcatAppend ==
    ASSUME NEW S, NEW r \in Seq(S), NEW q \in Seq(S), NEW x \in S
    PROVE  r \o Append(q, x) = Append(r \o q, x)
  <1>1. <<x>> \in Seq(S) /\ r \o q \in Seq(S)
    BY ConcatProperties
  <1>2. Append(q, x) = q \o <<x>> /\ Append(r \o q, x) = (r \o q) \o <<x>>
    BY <1>1, AppendIsConcat
  <1>. QED
    BY <1>1, <1>2, ConcatAssociative

-----------------------------------------------------------------------------
(* Steps of the network *)

\* What a node has seen is a sequence of positions in the log.
LEMMA SeenType ==
    ASSUME NetTypeInv, NEW n \in Nodes
    PROVE  /\ Len(log) \in Nat
           /\ queue[n] \in Seq(1 .. Len(log)) /\ received[n] \in Seq(1 .. Len(log))
           /\ Seen(n) \in Seq(1 .. Len(log))
           /\ Len(Seen(n)) = Len(received[n]) + Len(queue[n])
  <1>1. Len(log) \in Nat
    BY LenProperties DEF NetTypeInv
  <1>2. queue[n] \in Seq(1 .. Len(log)) /\ received[n] \in Seq(1 .. Len(log))
    BY DEF NetTypeInv
  <1>. QED
    BY <1>1, <1>2, ConcatProperties DEF Seen

\* A step in which no frame is broadcast and nobody attaches.
LEMMA QuietStep ==
    ASSUME NetInv, UNCHANGED <<attached, log, since>>,
           queue' \in [Nodes -> Seq(1 .. Len(log))],
           received' \in [Nodes -> Seq(1 .. Len(log))],
           \A n \in Nodes : Seen(n)' = Seen(n)
    PROVE  NetInv'
  <1>1. NetTypeInv'
    BY DEF NetInv, NetTypeInv
  <1>2. BusOrder'
    BY DEF NetInv, BusOrder
  <1>3. \A n \in Nodes : Missed(n)' = Missed(n)
    BY DEF Missed
  <1>4. NoLossBelowCapacity'
    BY <1>3 DEF NetInv, NoLossBelowCapacity
  <1>. QED
    BY <1>1, <1>2, <1>4 DEF NetInv

\* SimCanNetwork::node, and the nodes of the other networks.
LEMMA AttachStep == \A n \in Nodes : NetInv /\ attach(n) => NetInv'
  <1>. SUFFICES ASSUME NEW n \in Nodes, NetInv, attach(n) PROVE NetInv'
    OBVIOUS
  <1>1. /\ attached' = attached \cup {n} /\ n \notin attached
        /\ since' = [since EXCEPT ![n] = Len(log)]
        /\ UNCHANGED <<queue, log, received>>
    BY DEF attach, node
  <1>2. Len(log) \in Nat
    BY SeenType DEF NetInv
  <1>3. NetTypeInv'
    BY <1>1, <1>2 DEF NetInv, NetTypeInv
  <1>4. \A m \in Nodes : Seen(m)' = Seen(m)
    BY <1>1 DEF Seen
  <1>5. BusOrder'
    BY <1>1, <1>4 DEF NetInv, BusOrder
  <1>6. ASSUME NEW m \in Nodes PROVE Missed(m)' \subseteq Missed(m)
    <2>1. CASE m = n
      <3>1. since'[m] + 1 .. Len(log') = {}
        BY <1>1, <1>2, <2>1 DEF NetInv, NetTypeInv
      <3>. QED
        BY <3>1 DEF Missed
    <2>2. CASE m # n
      <3>1. since'[m] = since[m] /\ (m \in attached' <=> m \in attached)
        BY <1>1, <2>2 DEF NetInv, NetTypeInv
      <3>. QED
        BY <1>1, <1>4, <3>1 DEF Missed
    <2>. QED
      BY <2>1, <2>2
  <1>7. NoLossBelowCapacity'
    BY <1>4, <1>6 DEF NetInv, NoLossBelowCapacity
  <1>. QED
    BY <1>3, <1>5, <1>7 DEF NetInv

\* SimCanNode::recv moves a frame from the queue to what was received.
LEMMA TakenStep == \A n \in Nodes : NetInv /\ taken(n) => NetInv'
  <1>. SUFFICES ASSUME NEW n \in Nodes, NetInv, taken(n) PROVE NetInv'
    OBVIOUS
  <1>1. UNCHANGED <<attached, log, since>>
    BY DEF taken, receive
  <1>2. CASE queue[n] = <<>>
    <2>1. queue' = queue /\ received' = received
      BY <1>2 DEF taken, receive
    <2>. QED
      BY <1>1, <2>1, QuietStep DEF NetInv, NetTypeInv, Seen
  <1>3. CASE queue[n] # <<>>
    <2>1. /\ queue' = [queue EXCEPT ![n] = Tail(queue[n])]
          /\ received' = [received EXCEPT ![n] = Append(received[n], Head(queue[n]))]
      BY <1>3 DEF taken, receive
    <2>2. queue[n] \in Seq(1 .. Len(log)) /\ received[n] \in Seq(1 .. Len(log))
      BY DEF NetInv, NetTypeInv
    <2>3. /\ Append(received[n], Head(queue[n])) \in Seq(1 .. Len(log))
          /\ Tail(queue[n]) \in Seq(1 .. Len(log))
          /\ Append(received[n], Head(queue[n])) \o Tail(queue[n]) = received[n] \o queue[n]
      <3>. DEFINE q == queue[n]
                  r == received[n]
                  S == 1 .. Len(log)
      <3>. HIDE DEF q, r, S
      <3>1. q \in Seq(S) /\ r \in Seq(S) /\ q # <<>>
        BY <1>3, <2>2 DEF q, r, S
      <3>2. /\ Append(r, Head(q)) \in Seq(S) /\ Tail(q) \in Seq(S)
            /\ Append(r, Head(q)) \o Tail(q) = r \o q
        BY <3>1, MoveHead
      <3>. QED
        BY <3>2 DEF q, r, S
    <2>4. /\ queue' \in [Nodes -> Seq(1 .. Len(log))]
          /\ received' \in [Nodes -> Seq(1 .. Len(log))]
      BY <2>1, <2>3 DEF NetInv, NetTypeInv
    <2>5. \A m \in Nodes : Seen(m)' = Seen(m)
      BY <2>1, <2>3 DEF NetInv, NetTypeInv, Seen
    <2>. QED
      BY <1>1, <2>4, <2>5, QuietStep
  <1>. QED
    BY <1>2, <1>3

\* What a broadcast does to one node: a receiver with room has seen one frame
\* more, everyone else what it had seen.
Gets(sender, n) == n \in attached \ {sender} /\ Len(queue[n]) < SIM_RX_QUEUE_LEN

LEMMA BroadcastSeen ==
    ASSUME NetTypeInv, NEW sender \in Nodes, NEW n \in Nodes,
           queue' = broadcast(sender, Len(log) + 1), received' = received
    PROVE  /\ queue[n] \in Seq(1 .. Len(log) + 1)
           /\ queue'[n] \in Seq(1 .. Len(log) + 1)
           /\ received[n] \in Seq(1 .. Len(log) + 1)
           /\ Seen(n)' = IF Gets(sender, n) THEN Append(Seen(n), Len(log) + 1) ELSE Seen(n)
  <1>. DEFINE S == 1 .. Len(log) + 1
  <1>1. /\ Len(log) \in Nat
        /\ queue[n] \in Seq(1 .. Len(log)) /\ received[n] \in Seq(1 .. Len(log))
    BY SeenType
  <1>2. 1 .. Len(log) \subseteq S /\ Len(log) + 1 \in S
    BY <1>1
  <1>3. queue'[n] = IF Gets(sender, n) THEN Append(queue[n], Len(log) + 1) ELSE queue[n]
    BY DEF broadcast, Gets
  <1>. HIDE DEF S
  <1>4. queue[n] \in Seq(S) /\ received[n] \in Seq(S)
    BY <1>1, <1>2, SeqMonotonic
  <1>5. Append(queue[n], Len(log) + 1) \in Seq(S)
    BY <1>2, <1>4, AppendProperties
  <1>6. received[n] \o Append(queue[n], Len(log) + 1)
           = Append(received[n] \o queue[n], Len(log) + 1)
    <2>. DEFINE q == queue[n]
                r == received[n]
                x == Len(log) + 1
    <2>. HIDE DEF q, r, x
    <2>1. q \in Seq(S) /\ r \in Seq(S) /\ x \in S
      BY <1>2, <1>4 DEF q, r, x
    <2>2. r \o Append(q, x) = Append(r \o q, x)
      BY <2>1, ConcatAppend
    <2>. QED
      BY <2>2 DEF q, r, x
  <1>. QED
    BY <1>3, <1>4, <1>5, <1>6 DEF Seen, S

\* A broadcast keeps the order: the frame is behind everything seen so far,
\* and its sender is not among those who get it.
LEMMA BroadcastKeepsOrder ==
    ASSUME NetInv, NEW sender \in Nodes, NEW n \in Nodes,
           log' = Append(log, sender),
           Seen(n)' = IF Gets(sender, n) THEN Append(Seen(n), Len(log) + 1) ELSE Seen(n)
    PROVE  /\ Increasing(Seen(n)')
           /\ \A i \in DOMAIN Seen(n)' : log'[Seen(n)'[i]] # n
  <1>. DEFINE s == Seen(n)
              k == Len(log) + 1
  <1>1. /\ Len(log) \in Nat /\ s \in Seq(1 .. Len(log)) /\ Increasing(s)
        /\ \A i \in DOMAIN s : log[s[i]] # n
    BY SeenType DEF NetInv, BusOrder, Increasing
  <1>2. /\ \A f \in 1 .. Len(log) : log'[f] = log[f]
        /\ log'[k] = sender
    BY AppendProperties DEF NetInv, NetTypeInv
  <1>3. \A i \in DOMAIN s : s[i] \in 1 .. Len(log)
    BY <1>1, ElementOfSeq, LenProperties
  <1>4. CASE ~Gets(sender, n)
    <2>1. Seen(n)' = s
      BY <1>4
    <2>. HIDE DEF s
    <2>. QED
      BY <1>1, <1>2, <1>3, <2>1
  <1>5. CASE Gets(sender, n)
    <2>1. Seen(n)' = Append(s, k) /\ sender # n
      BY <1>5 DEF Gets
    <2>. HIDE DEF s
    <2>2. Increasing(Append(s, k)) /\ ToSet(Append(s, k)) = ToSet(s) \cup {k}
      BY <1>1, IncreasingAppend
    <2>3. ASSUME NEW i \in DOMAIN Append(s, k) PROVE log'[Append(s, k)[i]] # n
      <3>1. Append(s, k)[i] \in ToSet(s) \cup {k}
        BY <2>2 DEF ToSet
      <3>2. CASE Append(s, k)[i] = k
        BY <1>2, <2>1, <3>2
      <3>3. CASE Append(s, k)[i] \in ToSet(s)
        BY <1>1, <1>2, <1>3, <3>3 DEF ToSet
      <3>. QED
        BY <3>1, <3>2, <3>3
    <2>. QED
      BY <2>1, <2>2, <2>3
  <1>. QED
    BY <1>4, <1>5

\* A broadcast loses nothing to a node whose queue has room, and a node
\* whose queue is full has seen at least a queue full.
LEMMA BroadcastLoss ==
    ASSUME NetInv, NEW sender \in Nodes, NEW n \in Nodes,
           log' = Append(log, sender), UNCHANGED <<attached, since>>,
           Seen(n)' = IF Gets(sender, n) THEN Append(Seen(n), Len(log) + 1) ELSE Seen(n),
           NEW f \in Missed(n)'
    PROVE  Cardinality({g \in ToSet(Seen(n)') : g < f}) >= SIM_RX_QUEUE_LEN
  <1>. DEFINE s == Seen(n)
              k == Len(log) + 1
  <1>1. /\ Len(log) \in Nat /\ s \in Seq(1 .. Len(log)) /\ Increasing(s)
        /\ Len(s) = Len(received[n]) + Len(queue[n])
        /\ Len(received[n]) \in Nat /\ Len(queue[n]) \in Nat
    BY SeenType, LenProperties DEF NetInv, BusOrder, Increasing
  <1>2. /\ \A g \in 1 .. Len(log) : log'[g] = log[g]
        /\ log'[k] = sender /\ Len(log') = k
    BY AppendProperties, LenProperties DEF NetInv, NetTypeInv
  <1>3. ToSet(s) \subseteq 1 .. Len(log)
    BY <1>1, SetOfSeq
  <1>4. ToSet(Seen(n)') = IF Gets(sender, n) THEN ToSet(s) \cup {k} ELSE ToSet(s)
    <2>. HIDE DEF s
    <2>1. ToSet(Append(s, k)) = ToSet(s) \cup {k}
      BY <1>1, IncreasingAppend
    <2>. QED
      BY <2>1 DEF s
  <1>5. /\ n \in attached /\ f \in since[n] + 1 .. k /\ log'[f] # n
        /\ f \notin ToSet(Seen(n)')
    BY <1>2 DEF Missed
  <1>6. since[n] \in Nat /\ f \in Nat
    BY <1>1, <1>5 DEF NetInv, NetTypeInv
  <1>. HIDE DEF s
  <1>7. CASE f <= Len(log)
    <2>1. f \in Missed(n)
      BY <1>1, <1>2, <1>4, <1>5, <1>6, <1>7 DEF Missed, s
    <2>2. Cardinality({g \in ToSet(s) : g < f}) >= SIM_RX_QUEUE_LEN
      BY <2>1 DEF NetInv, NoLossBelowCapacity, s
    <2>3. {g \in ToSet(Seen(n)') : g < f} = {g \in ToSet(s) : g < f}
      BY <1>1, <1>4, <1>6, <1>7
    <2>. QED
      BY <2>2, <2>3
  <1>8. CASE ~(f <= Len(log))
    <2>1. f = k
      BY <1>1, <1>5, <1>6, <1>8
    <2>2. n # sender /\ ~Gets(sender, n)
      BY <1>2, <1>4, <1>5, <2>1
    <2>3. ~(Len(queue[n]) < SIM_RX_QUEUE_LEN)
      BY <1>5, <2>2 DEF Gets
    <2>4. Cardinality(ToSet(s)) = Len(s)
      BY <1>1, IncreasingCount
    <2>5. {g \in ToSet(Seen(n)') : g < f} = ToSet(s)
      BY <1>1, <1>3, <1>4, <2>1, <2>2
    <2>6. Len(s) >= SIM_RX_QUEUE_LEN
      <3>1. SIM_RX_QUEUE_LEN \in Nat
        BY NetworkAssumption
      <3>2. \A a, b, c \in Nat : ~(a < c) => b + a >= c
        OBVIOUS
      <3>. QED
        BY <1>1, <2>3, <3>1, <3>2
    <2>. QED
      BY <2>4, <2>5, <2>6
  <1>. QED
    BY <1>7, <1>8

\* VehicleBus::transmit over SimCanNode::send, valid or not, on a bus that is
\* off or not.
LEMMA TransmittedStep ==
    \A n \in Nodes, valid \in BOOLEAN : NetInv /\ transmitted(n, valid) => NetInv'
  <1>. SUFFICES ASSUME NEW sender \in Nodes, NEW valid \in BOOLEAN,
                       NetInv, transmitted(sender, valid)
                PROVE  NetInv'
    OBVIOUS
  <1>1. UNCHANGED <<attached, since, received>>
    BY DEF transmitted, transmit
  <1>2. CASE ~valid \/ bus_off
    <2>1. queue' = queue /\ log' = log
      BY <1>2 DEF transmitted, transmit, send
    <2>. QED
      BY <1>1, <2>1, QuietStep DEF NetInv, NetTypeInv, Seen
  <1>3. CASE valid /\ ~bus_off
    <2>1. queue' = broadcast(sender, Len(log) + 1) /\ log' = Append(log, sender)
      BY <1>3 DEF transmitted, transmit, send
    <2>2. Len(log) \in Nat /\ log' \in Seq(Nodes) /\ Len(log') = Len(log) + 1
      BY <2>1, AppendProperties, LenProperties DEF NetInv, NetTypeInv
    <2>3. ASSUME NEW n \in Nodes
          PROVE  /\ queue'[n] \in Seq(1 .. Len(log'))
                 /\ received'[n] \in Seq(1 .. Len(log'))
                 /\ Seen(n)' = IF Gets(sender, n)
                               THEN Append(Seen(n), Len(log) + 1) ELSE Seen(n)
      BY <1>1, <2>1, <2>2, BroadcastSeen DEF NetInv
    <2>4. NetTypeInv'
      <3>1. queue' \in [Nodes -> Seq(1 .. Len(log'))]
        <4>1. queue' = [n \in Nodes |-> queue'[n]]
          BY <2>1 DEF broadcast
        <4>. QED
          BY <2>3, <4>1
      <3>2. received' \in [Nodes -> Seq(1 .. Len(log'))]
        <4>1. received' = [n \in Nodes |-> received'[n]]
          BY <1>1 DEF NetInv, NetTypeInv
        <4>. QED
          BY <2>3, <4>1
      <3>3. since' \in [Nodes -> 0 .. Len(log')]
        <4>1. 0 .. Len(log) \subseteq 0 .. Len(log')
          BY <2>2
        <4>. QED
          BY <1>1, <4>1 DEF NetInv, NetTypeInv
      <3>. QED
        BY <1>1, <2>2, <3>1, <3>2, <3>3 DEF NetInv, NetTypeInv
    <2>5. BusOrder'
      BY <2>1, <2>3, BroadcastKeepsOrder DEF BusOrder, Increasing
    <2>6. NoLossBelowCapacity'
      BY <1>1, <2>1, <2>3, BroadcastLoss DEF NoLossBelowCapacity
    <2>. QED
      BY <2>4, <2>5, <2>6 DEF NetInv
  <1>. QED
    BY <1>2, <1>3

\* set_bus_off and set_link_down.
LEMMA BusOffStep == \A off : NetInv /\ busOff(off) => NetInv'
  BY QuietStep DEF busOff, set_bus_off, history, NetInv, NetTypeInv, Seen

\* A network without nodes.
LEMMA NetStart == Init => NetInv
  <1>. SUFFICES ASSUME Init PROVE NetInv
    OBVIOUS
  <1>1. Len(log) = 0 /\ <<>> \in Seq(Nodes) /\ <<>> \in Seq(1 .. Len(log))
    BY DEF Init
  <1>2. NetTypeInv
    BY <1>1 DEF Init, new, NetTypeInv
  <1>3. ASSUME NEW n \in Nodes PROVE Seen(n) = <<>> /\ Missed(n) = {}
    <2>1. queue[n] = <<>> /\ received[n] = <<>> /\ n \notin attached
      BY DEF Init, new
    <2>2. <<>> \o <<>> = <<>>
      BY <1>1, ConcatEmptySeq
    <2>. QED
      BY <2>1, <2>2 DEF Seen, Missed
  <1>. QED
    BY <1>2, <1>3 DEF NetInv, BusOrder, NoLossBelowCapacity

\* Every step of the CAN network, of the Ethernet segment and of the LIN
\* cluster is one of the steps above.
LEMMA NetStep ==
    /\ NetInv /\ [Next]_nvars => NetInv'
    /\ NetInv /\ [someipNext]_nvars => NetInv'
    /\ NetInv /\ [linNext]_lvars => NetInv'
  <1>1. NetInv /\ UNCHANGED nvars => NetInv'
    BY QuietStep DEF nvars, svars, history, NetInv, NetTypeInv, Seen
  <1>2. \A f : validate_frame(f) \in BOOLEAN /\ validate_fd_frame(f) \in BOOLEAN
    BY DEF validate_frame, validate_fd_frame
  <1>3. NetInv /\ Next => NetInv'
    <2>1. \A n \in Nodes, f \in BuiltFrames : NetInv /\ canTransmit(n, f) => NetInv'
      BY <1>2, TransmittedStep DEF canTransmit
    <2>2. \A n \in Nodes, f \in BuiltFdFrames : NetInv /\ fdTransmit(n, f) => NetInv'
      BY <1>2, TransmittedStep DEF fdTransmit
    <2>. QED
      BY <2>1, <2>2, AttachStep, TakenStep, BusOffStep DEF Next
  <1>4. NetInv /\ someipNext => NetInv'
    BY TransmittedStep, AttachStep, TakenStep, BusOffStep
    DEF someipNext, someipNode, set_link_down, someipTransmit, someipReceive
  <1>5. NetInv /\ [linNext]_lvars => NetInv'
    <2>1. \A n \in Nodes, f \in Frames : NetInv /\ linTransmit(n, f) => NetInv'
      <3>1. \A f : (Len(f.data) <= LIN_MAX_DLC) \in BOOLEAN
        OBVIOUS
      <3>. QED
        BY <3>1, TransmittedStep DEF linTransmit
    <2>2. UNCHANGED lvars => UNCHANGED nvars
      BY DEF lvars, nvars
    <2>. QED
      BY <1>1, <2>1, <2>2, AttachStep, TakenStep, BusOffStep
      DEF linNext, linNode, linReceive, linBusOff
  <1>. QED
    BY <1>1, <1>3, <1>4, <1>5

\* In all three networks: a node sees the frames of the others in bus order,
\* each at most once and never its own, while nodes attach, queues overflow
\* and the bus goes off and on.
THEOREM BusOrderKept ==
    /\ Spec => []BusOrder
    /\ someipSpec => []BusOrder
    /\ linSpec => []BusOrder
  <1>1. NetInv => BusOrder
    BY DEF NetInv
  <1>2. linInit => NetInv
    BY NetStart DEF linInit
  <1>3. Spec => []BusOrder
    BY <1>1, NetStart, NetStep, PTL DEF Spec
  <1>4. someipSpec => []BusOrder
    BY <1>1, NetStart, NetStep, PTL DEF someipSpec
  <1>5. linSpec => []BusOrder
    BY <1>1, <1>2, NetStep, PTL DEF linSpec
  <1>. QED
    BY <1>3, <1>4, <1>5

\* In all three networks: a frame that does not reach an attached node was
\* dropped by a full queue, so that node has seen a queue full before it.
THEOREM LossNeedsFullQueue ==
    /\ Spec => []NoLossBelowCapacity
    /\ someipSpec => []NoLossBelowCapacity
    /\ linSpec => []NoLossBelowCapacity
  <1>1. NetInv => NoLossBelowCapacity
    BY DEF NetInv
  <1>2. linInit => NetInv
    BY NetStart DEF linInit
  <1>3. Spec => []NoLossBelowCapacity
    BY <1>1, NetStart, NetStep, PTL DEF Spec
  <1>4. someipSpec => []NoLossBelowCapacity
    BY <1>1, NetStart, NetStep, PTL DEF someipSpec
  <1>5. linSpec => []NoLossBelowCapacity
    BY <1>1, <1>2, NetStep, PTL DEF linSpec
  <1>. QED
    BY <1>3, <1>4, <1>5

-----------------------------------------------------------------------------
\* What a constructor built, transmit validates.
LEMMA BuiltValidates ==
    /\ \A f \in BuiltFrames   : validate_frame(f)
    /\ \A f \in BuiltFdFrames : validate_fd_frame(f)
  <1>1. STANDARD_MAX \in Nat /\ EXTENDED_MAX \in Nat
    BY DEF STANDARD_MAX, EXTENDED_MAX
  <1>2. ASSUME NEW id \in Ids PROVE id.raw <= max(id)
    <2>1. PICK raw \in RawIds : id = standard(raw) \/ id = extended(raw)
      BY DEF Ids
    <2>2. id # None /\ raw \in Nat
      BY NetworkAssumption DEF Ids
    <2>3. CASE id = standard(raw)
      BY <1>1, <2>2, <2>3 DEF standard, max
    <2>4. CASE id = extended(raw)
      BY <1>1, <2>2, <2>4 DEF extended, max
    <2>. QED
      BY <2>1, <2>3, <2>4
  <1>3. ASSUME NEW f \in BuiltFrames PROVE validate_frame(f)
    <2>1. PICK id \in Ids, len \in Lengths : f = newFrame(id, len) /\ f # None
      BY DEF BuiltFrames
    <2>2. len \in Nat /\ CAN_MAX_DLC \in Nat
      BY NetworkAssumption DEF CAN_MAX_DLC
    <2>3. f = [id |-> id, len |-> len] /\ len <= CAN_MAX_DLC
      BY <2>1, <2>2 DEF newFrame
    <2>. QED
      BY <1>2, <2>3 DEF validate_frame
  <1>4. ASSUME NEW f \in BuiltFdFrames PROVE validate_fd_frame(f)
    <2>1. PICK id \in Ids, len \in Lengths : f = newFdFrame(id, len) /\ f # None
      BY DEF BuiltFdFrames
    <2>2. len \in Nat /\ CANFD_MAX_DLC \in Nat
      BY NetworkAssumption DEF CANFD_MAX_DLC
    <2>3. f = [id |-> id, len |-> len] /\ len <= CANFD_MAX_DLC
      BY <2>1, <2>2 DEF newFdFrame
    <2>. QED
      BY <1>2, <2>3 DEF validate_fd_frame
  <1>. QED
    BY <1>3, <1>4

\* CanFrame::new, CanFdFrame::new and the validation of transmit agree on
\* every identifier and every length: no built frame is refused as invalid.
\* It rests on the limits alone, whatever state the network is in, so the
\* proof needs no invariant.
THEOREM ConstructorsAgree ==
    Spec => BuiltIsValid
  <1>1. ASSUME NEW n \in Nodes, NEW f \in BuiltFrames, canTransmit(n, f)
        PROVE  result' # "InvalidFrame"
    BY <1>1, BuiltValidates DEF canTransmit, transmitted, transmit, send
  <1>2. ASSUME NEW n \in Nodes, NEW f \in BuiltFdFrames, fdTransmit(n, f)
        PROVE  result' # "InvalidFrame"
    BY <1>2, BuiltValidates DEF fdTransmit, transmitted, transmit, send
  <1>3. BuiltAreAccepted
    BY <1>1, <1>2 DEF BuiltAreAccepted
  <1>. QED
    BY <1>3, PTL DEF BuiltIsValid

-----------------------------------------------------------------------------
(* The AGL loopback, which refuses a frame instead of dropping it *)

\* The invariant is inductive once the types are known.
LoopInv ==
    /\ loopback \in Seq(Nat)
    /\ got \in Seq(Nat)
    /\ next \in Nat \ {0}
    /\ LoopbackLosesNothing

LEMMA LoopSendStep ==
    ASSUME LoopInv, loopSend
    PROVE  LoopInv'
  <1>. USE DEF LoopbackLosesNothing
  <1>1. /\ loopback \in Seq(Nat) /\ got \in Seq(Nat) /\ next \in Nat /\ next > 0
        /\ got' = got
        /\ got \o loopback = [i \in 1 .. next - 1 |-> i]
        /\ Len(loopback) <= LOOPBACK_LEN
    BY DEF LoopInv, loopSend
  <1>2. LOOPBACK_LEN \in Nat
    BY LoopbackAssumption
  <1>3. CASE ~can_send
    BY <1>1, <1>3 DEF LoopInv, loopSend
  <1>4. CASE can_send
    <2>. DEFINE t == Append(loopback, next)
                g == Len(got)
                n == Len(loopback)
                s == got \o loopback
                u == got \o t
    <2>1. loopback' = t /\ next' = next + 1
      BY <1>4 DEF loopSend
    <2>2. g \in Nat /\ n \in Nat /\ n < LOOPBACK_LEN
      BY <1>1, <1>4, LenProperties DEF can_send
    <2>3. t \in Seq(Nat) /\ Len(t) = n + 1
          /\ (\A i \in 1 .. n : t[i] = loopback[i]) /\ t[n + 1] = next
      BY <1>1, AppendProperties
    <2>4. s \in Seq(Nat) /\ Len(s) = g + n
          /\ \A i \in 1 .. g + n : s[i] = IF i <= g THEN got[i] ELSE loopback[i - g]
      <3>1. got \in Seq(Nat) /\ loopback \in Seq(Nat)
        BY <1>1
      <3>. QED
        BY <3>1, ConcatProperties
    <2>5. s = [i \in 1 .. next - 1 |-> i]
      BY <1>1
    <2>. HIDE DEF t, n, s
    <2>6. u \in Seq(Nat) /\ Len(u) = g + (n + 1)
          /\ \A i \in 1 .. g + (n + 1) : u[i] = IF i <= g THEN got[i] ELSE t[i - g]
      <3>1. u \in Seq(Nat) /\ Len(u) = g + Len(t)
            /\ \A i \in 1 .. g + Len(t) : u[i] = IF i <= g THEN got[i] ELSE t[i - g]
        <4>1. got \in Seq(Nat) /\ t \in Seq(Nat)
          BY <1>1, <2>3
        <4>. QED
          BY <4>1, ConcatProperties
      <3>. QED
        BY <2>3, <3>1
    <2>. HIDE DEF g, u
    <2>7. g + n = next - 1
      BY <1>1, <2>2, <2>4, <2>5
    <2>8. ASSUME NEW i \in 1 .. next PROVE u[i] = i
      <3>1. CASE i <= g
        <4>1. i \in 1 .. g + n /\ i \in 1 .. g + (n + 1) /\ i \in 1 .. next - 1
          BY <1>1, <2>2, <2>7, <3>1
        <4>2. u[i] = got[i] /\ s[i] = got[i]
          BY <2>4, <2>6, <3>1, <4>1
        <4>3. s[i] = i
          BY <2>5, <4>1
        <4>. QED
          BY <4>2, <4>3
      <3>2. CASE i > g /\ i < next
        <4>1. i - g \in 1 .. n /\ i \in 1 .. g + n /\ ~(i <= g) /\ i \in 1 .. next - 1
          BY <1>1, <2>2, <2>7, <3>2
        <4>2. s[i] = loopback[i - g] /\ s[i] = i
          BY <2>4, <2>5, <4>1
        <4>3. u[i] = t[i - g]
          BY <1>1, <2>2, <2>6, <2>7, <4>1
        <4>. QED
          BY <2>3, <4>1, <4>2, <4>3
      <3>3. CASE i = next
        <4>1. i - g = n + 1 /\ ~(i <= g) /\ i \in 1 .. g + (n + 1)
          BY <1>1, <2>2, <2>7, <3>3
        <4>. QED
          BY <2>3, <2>6, <3>3, <4>1
      <3>. QED
        BY <1>1, <2>2, <3>1, <3>2, <3>3
    <2>9. u = [i \in 1 .. next |-> i]
      <3>1. Len(u) = next
        BY <1>1, <2>2, <2>6, <2>7
      <3>2. u \in [1 .. next -> Nat]
        BY <2>6, <3>1, LenProperties
      <3>. QED
        BY <2>8, <3>2
    <2>10. (got \o loopback)' = [i \in 1 .. next' - 1 |-> i]
      BY <1>1, <2>1, <2>9 DEF u
    <2>11. Len(loopback') <= LOOPBACK_LEN
      BY <1>2, <2>1, <2>2, <2>3
    <2>. QED
      BY <1>1, <2>1, <2>3, <2>10, <2>11 DEF LoopInv
  <1>. QED
    BY <1>3, <1>4

LEMMA LoopRecvStep ==
    ASSUME LoopInv, loopRecv
    PROVE  LoopInv'
  <1>. USE DEF LoopbackLosesNothing
  <1>1. /\ loopback \in Seq(Nat) /\ got \in Seq(Nat) /\ next' = next
        /\ Len(loopback) <= LOOPBACK_LEN /\ LOOPBACK_LEN \in Nat
    BY LoopbackAssumption DEF LoopInv, loopRecv
  <1>2. CASE loopback = <<>>
    BY <1>2 DEF LoopInv, loopRecv
  <1>3. CASE loopback # <<>>
    <2>. DEFINE h == Head(loopback)
                t == Tail(loopback)
                b == Append(got, h)
                g == Len(got)
                n == Len(loopback)
                s == got \o loopback
                u == b \o t
    <2>1. got' = b /\ loopback' = t
      BY <1>3 DEF loopRecv
    <2>2. g \in Nat /\ n \in Nat \ {0}
      BY <1>1, <1>3, EmptySeq, LenProperties
    <2>3. h \in Nat /\ h = loopback[1] /\ t \in Seq(Nat) /\ Len(t) = n - 1
          /\ \A i \in 1 .. n - 1 : t[i] = loopback[i + 1]
      BY <1>1, <1>3, HeadTailProperties
    <2>. HIDE DEF h, t, n
    <2>4. b \in Seq(Nat) /\ Len(b) = g + 1
          /\ (\A i \in 1 .. g : b[i] = got[i]) /\ b[g + 1] = h
      BY <1>1, <2>3, AppendProperties
    <2>5. s \in Seq(Nat) /\ Len(s) = g + n
          /\ \A i \in 1 .. g + n : s[i] = IF i <= g THEN got[i] ELSE loopback[i - g]
      BY <1>1, ConcatProperties DEF n
    <2>. HIDE DEF b, s, g
    <2>6. u \in Seq(Nat) /\ Len(u) = g + n
          /\ \A i \in 1 .. g + n : u[i] = IF i <= g + 1 THEN b[i] ELSE t[i - (g + 1)]
      <3>1. u \in Seq(Nat) /\ Len(u) = Len(b) + Len(t)
            /\ \A i \in 1 .. Len(b) + Len(t) :
                  u[i] = IF i <= Len(b) THEN b[i] ELSE t[i - Len(b)]
        BY <2>3, <2>4, ConcatProperties
      <3>2. Len(b) + Len(t) = g + n
        BY <2>2, <2>3, <2>4
      <3>. QED
        BY <2>4, <3>1, <3>2
    <2>. HIDE DEF u
    <2>7. ASSUME NEW i \in 1 .. g + n PROVE u[i] = s[i]
      <3>1. CASE i <= g
        <4>1. i <= g + 1 /\ i \in 1 .. g
          BY <2>2, <3>1
        <4>2. u[i] = b[i] /\ s[i] = got[i]
          BY <2>5, <2>6, <3>1, <4>1
        <4>. QED
          BY <2>4, <4>1, <4>2
      <3>2. CASE i = g + 1
        <4>1. i <= g + 1 /\ ~(i <= g) /\ i - g = 1
          BY <2>2, <3>2
        <4>2. u[i] = b[g + 1] /\ s[i] = loopback[1]
          BY <2>5, <2>6, <3>2, <4>1
        <4>. QED
          BY <2>3, <2>4, <4>2
      <3>3. CASE i > g + 1
        <4>1. i - (g + 1) \in 1 .. n - 1 /\ i - (g + 1) + 1 = i - g
              /\ ~(i <= g) /\ ~(i <= g + 1)
          BY <2>2, <3>3
        <4>2. u[i] = t[i - (g + 1)] /\ s[i] = loopback[i - g]
          BY <2>5, <2>6, <4>1
        <4>. QED
          BY <2>3, <4>1, <4>2
      <3>. QED
        BY <2>2, <3>1, <3>2, <3>3
    <2>8. u = s
      BY <2>2, <2>5, <2>6, <2>7, SeqEqual
    <2>9. (got \o loopback)' = got \o loopback
      BY <2>1, <2>8 DEF u, s
    <2>10. Len(loopback') <= LOOPBACK_LEN
      BY <1>1, <2>1, <2>2, <2>3 DEF n
    <2>. QED
      BY <1>1, <2>1, <2>3, <2>4, <2>9, <2>10 DEF LoopInv
  <1>. QED
    BY <1>2, <1>3

\* A sender that goes on to its next frame only after an Ok loses nothing to
\* AglCanTransceiver's loopback, for every length of its queue, and its frames
\* come back once each and in order.
THEOREM LoopbackExact ==
    loopSpec => []LoopbackLosesNothing
  <1>1. loopInit => LoopInv
    <2>. SUFFICES ASSUME loopInit PROVE LoopInv
      OBVIOUS
    <2>1. loopback = <<>> /\ got = <<>> /\ next = 1
      BY DEF loopInit
    <2>2. <<>> \in Seq(Nat) /\ <<>> \o <<>> = <<>> /\ Len(<<>>) = 0
      BY EmptySeq, ConcatEmptySeq
    <2>3. <<>> = [i \in 1 .. 1 - 1 |-> i]
      OBVIOUS
    <2>4. 0 <= LOOPBACK_LEN
      BY LoopbackAssumption
    <2>. QED
      BY <2>1, <2>2, <2>3, <2>4 DEF LoopInv, LoopbackLosesNothing
  <1>2. LoopInv /\ [loopNext]_cvars => LoopInv'
    <2>. SUFFICES ASSUME LoopInv, [loopNext]_cvars PROVE LoopInv'
      OBVIOUS
    <2>1. CASE UNCHANGED cvars
      BY <2>1 DEF cvars, LoopInv, LoopbackLosesNothing
    <2>. QED
      BY <2>1, LoopSendStep, LoopRecvStep DEF loopNext
  <1>3. LoopInv => LoopbackLosesNothing
    BY DEF LoopInv
  <1>. QED
    BY <1>1, <1>2, <1>3, PTL DEF loopSpec
=============================================================================
