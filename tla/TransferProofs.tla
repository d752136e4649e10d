--------------------------- MODULE TransferProofs ---------------------------
(***************************************************************************)
(* Theorems about what passes in pieces: the voice recordings (Recoder),   *)
(* the aiding data (Agps), and from them and the theorems about the        *)
(* firmware (UpdateProofs) those about the composed specification          *)
(* (Transfers); and that both ring buffers are queues, for every size.     *)
(***************************************************************************)
EXTENDS Transfers, UpdateProofs, SequenceTheorems, WellFoundedInduction

-----------------------------------------------------------------------------
(* The ring buffers: Rings.                                                *)

USE RingsAssumption DEF RingsAssumption, Cells, Slots

(* One turn round a ring ends inside it. *)
LEMMA WrapInRange ==
  ASSUME NEW size \in Nat \ {0}, NEW i \in Nat, i < 2 * size
  PROVE  Wrap(i, size) \in 0 .. size - 1
  BY DEF Wrap

(* The indices never leave the memory. *)
THEOREM RingsTypes == RingsSpec => []RingsTypeOK
  <1>1. RingsInit => RingsTypeOK
    BY DEF RingsInit, RingsTypeOK, NoBytes, NoValues
  <1>2. RingsTypeOK /\ [RingsNext]_ringVars => RingsTypeOK'
    <2> SUFFICES ASSUME RingsTypeOK, [RingsNext]_ringVars PROVE RingsTypeOK'
      OBVIOUS
    <2>1. ASSUME NEW n \in 0 .. MaxBlock, NEW block \in [1 .. n -> Value],
                 FifoInsert(block)
          PROVE  RingsTypeOK'
      <3>1. Len(block) = n
        BY DEF FifoInsert
      <3>2. \A i \in Cells : Wrap(i + FifoSize - fifo.write_idx, FifoSize) \in Nat
        BY DEF RingsTypeOK, Wrap
      <3>3. Wrap(fifo.write_idx + n, FifoSize) \in Cells
        <4>1. /\ fifo.read_idx \in 0 .. FifoSize - 1
              /\ fifo.write_idx \in 0 .. FifoSize - 1
          BY DEF RingsTypeOK
        <4>2. n \in Nat /\ Left > n
          BY <2>1, <3>1 DEF FifoInsert, HasRoom
        <4>3. Left <= FifoSize
          BY <4>1 DEF Left
        <4>4. Left \in Int
          BY <4>1 DEF Left
        <4>5. fifo.write_idx + n \in Nat /\ fifo.write_idx + n < 2 * FifoSize
          BY <4>1, <4>2, <4>3, <4>4
        <4> QED
          BY <4>5, WrapInRange
      <3>4. [i \in Cells |-> IF Wrap(i + FifoSize - fifo.write_idx, FifoSize) < n
                               THEN block[Wrap(i + FifoSize - fifo.write_idx, FifoSize) + 1]
                               ELSE fifo.base_addr[i]]
              \in [Cells -> Value \cup {Unset}]
        <4> SUFFICES ASSUME NEW i \in Cells
                     PROVE  (IF Wrap(i + FifoSize - fifo.write_idx, FifoSize) < n
                               THEN block[Wrap(i + FifoSize - fifo.write_idx, FifoSize) + 1]
                               ELSE fifo.base_addr[i]) \in Value \cup {Unset}
          OBVIOUS
        <4> DEFINE at == Wrap(i + FifoSize - fifo.write_idx, FifoSize)
        <4>1. at \in Nat
          BY <3>2
        <4>2. fifo.base_addr[i] \in Value \cup {Unset}
          BY DEF RingsTypeOK
        <4>3. ASSUME at < n PROVE block[at + 1] \in Value
          <5> HIDE DEF at
          <5>1. at + 1 \in 1 .. n
            BY <4>1, <4>3
          <5> QED
            BY <5>1
        <4> QED
          BY <4>2, <4>3
      <3> QED
        BY <2>1, <3>1, <3>3, <3>4 DEF RingsTypeOK, FifoInsert
    <2>2. ASSUME NEW n \in 0 .. FifoSize, FifoPop(n) PROVE RingsTypeOK'
      <3>1. fifo.read_idx \in 0 .. FifoSize - 1 /\ fifo.write_idx \in 0 .. FifoSize - 1
        BY DEF RingsTypeOK
      <3>2. Wrap(fifo.read_idx + n, FifoSize) \in 0 .. FifoSize - 1
        BY <2>2, <3>1 DEF FifoPop, Used, Wrap
      <3> QED
        BY <2>2, <3>2 DEF RingsTypeOK, FifoPop
    <2>3. CASE FifoReset
      <3>1. fifo' \in [base_addr : [Cells -> Value \cup {Unset}],
                       read_idx  : Cells,
                       write_idx : Cells]
        BY <2>3 DEF FifoReset, NoBytes
      <3> QED
        BY <2>3, <3>1 DEF RingsTypeOK, FifoReset
    <2>4. ASSUME NEW v \in Value, EnQueue(v) PROVE RingsTypeOK'
      <3>1. queue.head \in 0 .. Capacity /\ queue.tail \in 0 .. Capacity
        BY DEF RingsTypeOK
      <3>2. /\ Wrap(queue.head + 1, Capacity + 1) \in 0 .. Capacity
            /\ Wrap(queue.tail + 1, Capacity + 1) \in 0 .. Capacity
        BY <3>1 DEF Wrap
      <3>3. [queue.buf EXCEPT ![queue.tail] = v] \in [Slots -> Value \cup {Unset}]
        BY <3>1 DEF RingsTypeOK
      <3>4. queue' \in [buf  : [Slots -> Value \cup {Unset}],
                        head : Slots,
                        tail : Slots]
        BY <2>4, <3>1, <3>2, <3>3 DEF EnQueue
      <3> QED
        BY <2>4, <3>4 DEF RingsTypeOK, EnQueue
    <2>5. CASE DeQueue
      <3>1. queue.head \in 0 .. Capacity
        BY DEF RingsTypeOK
      <3>2. Wrap(queue.head + 1, Capacity + 1) \in 0 .. Capacity
        BY <3>1 DEF Wrap
      <3> QED
        BY <2>5, <3>2 DEF RingsTypeOK, DeQueue
    <2>6. CASE QueueEmpty
      <3>1. 0 \in 0 .. Capacity
        OBVIOUS
      <3> QED
        BY <2>6, <3>1 DEF RingsTypeOK, QueueEmpty
    <2>7. CASE UNCHANGED ringVars
      BY <2>7 DEF RingsTypeOK, ringVars
    <2> QED
      BY <2>1, <2>2, <2>3, <2>4, <2>5, <2>6, <2>7 DEF RingsNext
  <1> QED
    BY <1>1, <1>2, PTL DEF RingsSpec

---------------------------------------------------------------------------
(* What the indices of the fifo say of it. *)
LEMMA FifoIndices ==
  ASSUME RingsTypeOK
  PROVE  /\ Used \in 0 .. FifoSize - 1
         /\ Left = FifoSize - Used
         /\ fifo.write_idx = Wrap(fifo.read_idx + Used, FifoSize)
         /\ Len(Waiting) = Used
         /\ \A k \in 1 .. Used :
               Waiting[k] = fifo.base_addr[Wrap(fifo.read_idx + k - 1, FifoSize)]
  <1>1. /\ Used \in 0 .. FifoSize - 1
        /\ Left = FifoSize - Used
        /\ fifo.write_idx = Wrap(fifo.read_idx + Used, FifoSize)
    <2>1. fifo.read_idx \in 0 .. FifoSize - 1 /\ fifo.write_idx \in 0 .. FifoSize - 1
      BY DEF RingsTypeOK
    <2> QED
      BY <2>1 DEF Used, Left, Wrap
  <1> QED
    BY <1>1 DEF Waiting

(* What the indices of the circular queue say of it. *)
LEMMA QueueIndices ==
  ASSUME RingsTypeOK
  PROVE  /\ QueueLen \in 0 .. Capacity
         /\ queue.tail = Wrap(queue.head + QueueLen, Capacity + 1)
         /\ IsEmpty <=> QueueLen = 0
         /\ IsFull <=> QueueLen = Capacity
         /\ Len(Remembered) = QueueLen
         /\ \A k \in 1 .. QueueLen :
               Remembered[k] = queue.buf[Wrap(queue.head + k - 1, Capacity + 1)]
  <1>1. /\ QueueLen \in 0 .. Capacity
        /\ queue.tail = Wrap(queue.head + QueueLen, Capacity + 1)
        /\ IsEmpty <=> QueueLen = 0
        /\ IsFull <=> QueueLen = Capacity
    <2>1. queue.head \in 0 .. Capacity /\ queue.tail \in 0 .. Capacity
      BY DEF RingsTypeOK
    <2>2. QueueLen \in 0 .. Capacity
      BY <2>1 DEF QueueLen, Wrap
    <2>3. queue.tail = Wrap(queue.head + QueueLen, Capacity + 1)
      BY <2>1 DEF QueueLen, Wrap
    <2>4. queue.head = queue.tail <=> QueueLen = 0
      BY <2>1 DEF QueueLen, Wrap
    <2>5. queue.head = Wrap(queue.tail + 1, Capacity + 1) <=> QueueLen = Capacity
      BY <2>1 DEF QueueLen, Wrap
    <2> QED
      BY <2>2, <2>3, <2>4, <2>5 DEF IsEmpty, IsFull
  <1> QED
    BY <1>1 DEF Remembered

(* Two sequences given as functions are equal when they agree everywhere. *)
LEMMA SameSequence ==
  ASSUME NEW m \in Nat, NEW f, f = [k \in 1 .. m |-> f[k]],
         NEW g, g = [k \in 1 .. m |-> g[k]],
         \A k \in 1 .. m : f[k] = g[k]
  PROVE  f = g
  OBVIOUS

---------------------------------------------------------------------------
Data == Value \cup {Unset}

(* What is waiting is a sequence. *)
LEMMA WaitingSequence ==
  ASSUME RingsTypeOK
  PROVE  Waiting \in Seq(Data) /\ Remembered \in Seq(Data)
  <1>1. \A k \in 1 .. Used : fifo.base_addr[Wrap(fifo.read_idx + k - 1, FifoSize)] \in Data
    <2>1. /\ fifo.read_idx \in 0 .. FifoSize - 1
          /\ fifo.base_addr \in [0 .. FifoSize - 1 -> Data]
      BY DEF RingsTypeOK, Data
    <2> QED
      BY <2>1, FifoIndices DEF Wrap
  <1>2. \A k \in 1 .. QueueLen : queue.buf[Wrap(queue.head + k - 1, Capacity + 1)] \in Data
    <2>1. queue.head \in 0 .. Capacity /\ queue.buf \in [0 .. Capacity -> Data]
      BY DEF RingsTypeOK, Data
    <2> QED
      BY <2>1, QueueIndices DEF Wrap
  <1>3. Used \in Nat /\ QueueLen \in Nat
    BY FifoIndices, QueueIndices
  <1> QED
    BY <1>1, <1>2, <1>3 DEF Waiting, Remembered

(* The distance, round the ring, from the end of u values to the k-th cell. *)
LEMMA Distance ==
  ASSUME NEW size \in Nat \ {0}, NEW r \in 0 .. size - 1, NEW u \in 0 .. size - 1,
         NEW k \in 1 .. size
  PROVE  Wrap(Wrap(r + k - 1, size) + size - Wrap(r + u, size), size)
           = IF k <= u THEN k - 1 - u + size ELSE k - 1 - u
  <1>1. CASE r + k - 1 >= size /\ r + u >= size
    BY <1>1 DEF Wrap
  <1>2. CASE r + k - 1 >= size /\ ~(r + u >= size)
    BY <1>2 DEF Wrap
  <1>3. CASE ~(r + k - 1 >= size) /\ r + u >= size
    BY <1>3 DEF Wrap
  <1>4. CASE ~(r + k - 1 >= size) /\ ~(r + u >= size)
    BY <1>4 DEF Wrap
  <1> QED
    BY <1>1, <1>2, <1>3, <1>4

(* Two moves along the ring are one. *)
LEMMA WrapTwice ==
  ASSUME NEW size \in Nat \ {0}, NEW r \in 0 .. size - 1, NEW u \in Nat,
         NEW n \in Nat, u + n < size
  PROVE  Wrap(Wrap(r + u, size) + n, size) = Wrap(r + u + n, size)
  <1>1. CASE r + u >= size
    BY <1>1 DEF Wrap
  <1>2. CASE ~(r + u >= size)
    BY <1>2 DEF Wrap
  <1> QED
    BY <1>1, <1>2

(* A sequence is the function of its elements. *)
LEMMA SequenceIsFunction ==
  ASSUME NEW S, NEW seq \in Seq(S)
  PROVE  seq = [k \in 1 .. Len(seq) |-> seq[k]]
  <1>1. seq \in [1 .. Len(seq) -> S]
    BY LenProperties
  <1> QED
    BY <1>1

(* A block goes to the end of what is waiting, across the end of the memory. *)
LEMMA InsertAppends ==
  ASSUME RingsTypeOK, RingsTypeOK',
         NEW n \in 0 .. MaxBlock, NEW block \in [1 .. n -> Value],
         FifoInsert(block)
  PROVE  Len(Waiting) + n <= FifoSize - 1 /\ Waiting' = Waiting \o block
  <1> DEFINE r == fifo.read_idx
             w == fifo.write_idx
             At(i) == Wrap(i + FifoSize - w, FifoSize)
  <1>1. r \in 0 .. FifoSize - 1 /\ w \in 0 .. FifoSize - 1
    BY DEF RingsTypeOK
  <1>2. Len(block) = n /\ block \in Seq(Data)
    BY DEF Data
  <1>3. /\ Used \in 0 .. FifoSize - 1
        /\ w = Wrap(r + Used, FifoSize)
        /\ Left = FifoSize - Used
        /\ Len(Waiting) = Used
    BY FifoIndices
  <1>4. Used + n <= FifoSize - 1
    BY <1>2, <1>3 DEF FifoInsert, HasRoom
  <1>5. /\ fifo'.read_idx = r
        /\ fifo'.write_idx = Wrap(w + n, FifoSize)
        /\ fifo'.base_addr = [i \in 0 .. FifoSize - 1 |->
             IF At(i) < n THEN block[At(i) + 1] ELSE fifo.base_addr[i]]
    BY <1>2 DEF FifoInsert, RingsTypeOK
  <1>6. Used' = Used + n
    <2>1. fifo'.write_idx = Wrap(r + (Used + n), FifoSize)
      <3>1. /\ FifoSize \in Nat \ {0} /\ Used \in 0 .. FifoSize - 1
            /\ n \in Nat /\ Used + n <= FifoSize - 1
        BY <1>3, <1>4
      <3>2. Wrap(Wrap(r + Used, FifoSize) + n, FifoSize) = Wrap(r + Used + n, FifoSize)
        <4>1. Used \in Nat /\ Used + n < FifoSize
          BY <3>1
        <4> HIDE DEF r, w, At
        <4> QED
          BY <1>1, <3>1, <4>1, WrapTwice
      <3>3. r + (Used + n) = r + Used + n
        BY <1>1, <3>1
      <3> QED
        BY <1>3, <1>5, <3>2, <3>3
    <2>2. fifo'.write_idx - fifo'.read_idx
            = IF r + (Used + n) >= FifoSize THEN Used + n - FifoSize ELSE Used + n
      BY <1>1, <1>3, <1>4, <1>5, <2>1 DEF Wrap
    <2> QED
      BY <1>1, <1>3, <1>4, <2>2 DEF Used
  <1>7. \A k \in 1 .. Used + n :
          Waiting'[k] = IF k <= Used THEN Waiting[k] ELSE block[k - Used]
    <2> SUFFICES ASSUME NEW k \in 1 .. Used + n
                 PROVE  Waiting'[k] = IF k <= Used THEN Waiting[k] ELSE block[k - Used]
      OBVIOUS
    <2> DEFINE i == Wrap(r + k - 1, FifoSize)
    <2>1. Waiting'[k] = fifo'.base_addr[i]
      BY <1>5, <1>6 DEF Waiting
    <2>2. i \in 0 .. FifoSize - 1
      BY <1>1, <1>3, <1>4 DEF Wrap
    <2>3. At(i) = IF k <= Used THEN k - 1 - Used + FifoSize ELSE k - 1 - Used
      <3>1. /\ FifoSize \in Nat \ {0} /\ Used \in 0 .. FifoSize - 1
            /\ k \in 1 .. FifoSize
        BY <1>3, <1>4
      <3>2. Wrap(Wrap(r + k - 1, FifoSize) + FifoSize - Wrap(r + Used, FifoSize), FifoSize)
              = IF k <= Used THEN k - 1 - Used + FifoSize ELSE k - 1 - Used
        BY <1>1, <3>1, Distance
      <3> QED
        BY <1>3, <3>2
    <2>4. CASE k <= Used
      <3>1. ~(At(i) < n)
        BY <1>3, <1>4, <2>3, <2>4
      <3>2. Waiting[k] = fifo.base_addr[i]
        BY <1>3, <2>4 DEF Waiting
      <3> QED
        BY <1>5, <2>1, <2>2, <2>4, <3>1, <3>2
    <2>5. CASE k > Used
      <3>1. At(i) < n /\ At(i) + 1 = k - Used
        BY <1>3, <1>4, <2>3, <2>5
      <3> HIDE DEF At, i
      <3> QED
        BY <1>3, <1>5, <2>1, <2>2, <2>5, <3>1
    <2> QED
      BY <1>3, <2>4, <2>5
  <1>8. Waiting \in Seq(Data)
    BY WaitingSequence
  <1>9. Waiting \o block \in Seq(Data)
        /\ Len(Waiting \o block) = Used + n
        /\ \A k \in 1 .. Used + n : (Waiting \o block)[k]
              = IF k <= Used THEN Waiting[k] ELSE block[k - Used]
    <2>1. /\ Waiting \o block \in Seq(Data)
          /\ Len(Waiting \o block) = Len(Waiting) + Len(block)
          /\ \A k \in 1 .. Len(Waiting) + Len(block) : (Waiting \o block)[k]
                = IF k <= Len(Waiting) THEN Waiting[k] ELSE block[k - Len(Waiting)]
      BY <1>2, <1>8, ConcatProperties
    <2> QED
      BY <1>2, <1>3, <2>1
  <1>10. Waiting' = [k \in 1 .. Used + n |-> Waiting'[k]]
    BY <1>6 DEF Waiting
  <1>11. Waiting \o block = [k \in 1 .. Used + n |-> (Waiting \o block)[k]]
    BY <1>9, SequenceIsFunction
  <1> HIDE DEF At
  <1>12. Used + n \in Nat
    BY <1>3
  <1> QED
    BY <1>3, <1>4, <1>7, <1>9, <1>10, <1>11, <1>12, SameSequence

(* A pop drops the oldest bytes. *)
LEMMA PopTakes ==
  ASSUME RingsTypeOK, NEW n \in 0 .. FifoSize, FifoPop(n)
  PROVE  /\ n \in 0 .. Len(Waiting)
         /\ Waiting' = SubSeq(Waiting, n + 1, Len(Waiting))
  <1> DEFINE r == fifo.read_idx
  <1>1. r \in 0 .. FifoSize - 1 /\ fifo.write_idx \in 0 .. FifoSize - 1
    BY DEF RingsTypeOK
  <1>2. /\ Used \in 0 .. FifoSize - 1
        /\ fifo.write_idx = Wrap(r + Used, FifoSize)
        /\ Len(Waiting) = Used
        /\ Waiting \in Seq(Data)
    BY FifoIndices, WaitingSequence
  <1>3. n <= Used
    BY <1>2 DEF FifoPop
  <1>4. /\ fifo'.read_idx = Wrap(r + n, FifoSize)
        /\ fifo'.write_idx = fifo.write_idx
        /\ fifo'.base_addr = fifo.base_addr
    BY DEF FifoPop, RingsTypeOK
  <1>5. Used' = Used - n
    <2>1. fifo'.write_idx - fifo'.read_idx = Wrap(r + Used, FifoSize) - Wrap(r + n, FifoSize)
      BY <1>2, <1>4
    <2>2. LET d == Wrap(r + Used, FifoSize) - Wrap(r + n, FifoSize)
          IN  Used - n = IF d < 0 THEN d + FifoSize ELSE d
      BY <1>1, <1>2, <1>3 DEF Wrap
    <2> QED
      BY <2>1, <2>2 DEF Used
  <1>6. \A k \in 1 .. Used - n : Waiting'[k] = Waiting[n + k]
    <2> SUFFICES ASSUME NEW k \in 1 .. Used - n PROVE Waiting'[k] = Waiting[n + k]
      OBVIOUS
    <2>1. Wrap(Wrap(r + n, FifoSize) + k - 1, FifoSize) = Wrap(r + (n + k) - 1, FifoSize)
      BY <1>1, <1>2, <1>3 DEF Wrap
    <2>2. Waiting'[k] = fifo.base_addr[Wrap(Wrap(r + n, FifoSize) + k - 1, FifoSize)]
      BY <1>4, <1>5 DEF Waiting
    <2>3. Waiting[n + k] = fifo.base_addr[Wrap(r + (n + k) - 1, FifoSize)]
      BY <1>2, <1>3 DEF Waiting
    <2> QED
      BY <2>1, <2>2, <2>3
  <1> DEFINE Rest == SubSeq(Waiting, n + 1, Len(Waiting))
  <1>7. /\ Rest \in Seq(Data)
        /\ Len(Rest) = Used - n
        /\ \A k \in 1 .. Used - n : Rest[k] = Waiting[n + k]
    <2>1. \A k \in n + 1 .. Used : Waiting[k] \in Data
      BY <1>2
    <2>2. n + 1 \in Int /\ Used \in Int
      BY <1>2
    <2>3. /\ Rest \in Seq(Data)
          /\ Len(Rest) = IF n + 1 <= Used THEN Used - (n + 1) + 1 ELSE 0
          /\ \A k \in 1 .. Used - (n + 1) + 1 : Rest[k] = Waiting[n + 1 + k - 1]
      BY <1>2, <2>1, <2>2, SubSeqProperties
    <2> QED
      BY <1>2, <1>3, <2>3
  <1>8. Waiting' = [k \in 1 .. Used - n |-> Waiting'[k]]
    BY <1>5 DEF Waiting
  <1>9. Rest = [k \in 1 .. Used - n |-> Rest[k]]
    BY <1>7, SequenceIsFunction
  <1>10. Used - n \in Nat
    BY <1>2, <1>3
  <1> HIDE DEF Rest
  <1>11. Waiting' = Rest
    BY <1>6, <1>7, <1>8, <1>9, <1>10, SameSequence
  <1> QED
    BY <1>2, <1>3, <1>11 DEF Rest

(* A value goes to the end; a full queue forgets its oldest. *)
LEMMA EnQueuePushes ==
  ASSUME RingsTypeOK, NEW v \in Value, EnQueue(v)
  PROVE  \/ Len(Remembered) < Capacity /\ Remembered' = Append(Remembered, v)
         \/ Len(Remembered) = Capacity /\ Remembered' = Append(Tail(Remembered), v)
  <1> DEFINE h == queue.head
             n == QueueLen
             m == Capacity + 1
             Old == IF n = Capacity THEN Tail(Remembered) ELSE Remembered
             b == IF n = Capacity THEN 1 ELSE 0
  <1>1. h \in 0 .. Capacity /\ queue.tail \in 0 .. Capacity /\ m \in Nat \ {0}
    BY DEF RingsTypeOK
  <1>2. /\ n \in 0 .. Capacity
        /\ queue.tail = Wrap(h + n, m)
        /\ IsFull <=> n = Capacity
        /\ Len(Remembered) = n
        /\ Remembered \in Seq(Data)
        /\ \A k \in 1 .. n : Remembered[k] = queue.buf[Wrap(h + k - 1, m)]
    BY QueueIndices, WaitingSequence
  <1>3. /\ queue'.head = Wrap(h + b, m)
        /\ queue'.tail = Wrap(queue.tail + 1, m)
        /\ queue'.buf = [queue.buf EXCEPT ![queue.tail] = v]
    BY <1>1, <1>2 DEF EnQueue, Wrap
  <1>4. QueueLen' = n + 1 - b
    <2>1. QueueLen' = Wrap(queue'.tail + Capacity + 1 - queue'.head, m)
      BY DEF QueueLen
    <2>2. Wrap(Wrap(Wrap(h + n, m) + 1, m) + Capacity + 1 - Wrap(h + b, m), m)
            = n + 1 - b
      <3>1. Wrap(Wrap(h + n, m) + 1, m) = Wrap(h + (n + 1), m)
        <4>1. CASE h + n >= m
          BY <1>1, <1>2, <4>1 DEF Wrap
        <4>2. CASE ~(h + n >= m)
          <5>1. Wrap(h + n, m) = h + n
            BY <1>1, <1>2, <4>2 DEF Wrap
          <5>2. h + n + 1 = h + (n + 1)
            BY <1>1, <1>2
          <5> QED
            BY <5>1, <5>2
        <4> QED
          BY <4>1, <4>2
      <3>2. CASE n = Capacity
        <4>1. Wrap(h + (n + 1), m) = h
          BY <1>1, <3>2 DEF Wrap
        <4> QED
          BY <1>1, <3>1, <3>2, <4>1 DEF Wrap
      <3>3. CASE n # Capacity
        <4>1. Wrap(Wrap(h + (n + 1), m) + Capacity + 1 - h, m) = n + 1
          <5>1. n + 1 \in 1 .. Capacity
            BY <1>2, <3>3
          <5> HIDE DEF n, h
          <5>2. CASE h + (n + 1) >= m
            BY <1>1, <5>1, <5>2 DEF Wrap
          <5>3. CASE ~(h + (n + 1) >= m)
            BY <1>1, <5>1, <5>3 DEF Wrap
          <5> QED
            BY <1>1, <5>1, <5>2, <5>3
        <4> QED
          BY <1>1, <3>1, <3>3, <4>1 DEF Wrap
      <3> QED
        BY <3>2, <3>3
    <2> QED
      BY <1>2, <1>3, <2>1, <2>2
  <1>5. /\ Old \in Seq(Data)
        /\ Len(Old) = n - b
        /\ \A k \in 1 .. n - b : Old[k] = Remembered[k + b]
    <2>1. CASE n = Capacity
      <3>1. Remembered # << >>
        BY <1>2, <2>1
      <3>2. /\ Tail(Remembered) \in Seq(Data)
            /\ Len(Tail(Remembered)) = Len(Remembered) - 1
            /\ \A k \in 1 .. Len(Tail(Remembered)) : Tail(Remembered)[k] = Remembered[k + 1]
        BY <1>2, <3>1, HeadTailProperties
      <3> QED
        BY <1>2, <2>1, <3>2
    <2>2. CASE n # Capacity
      BY <1>2, <2>2
    <2> QED
      BY <2>1, <2>2
  <1>6. /\ Append(Old, v) \in Seq(Data)
        /\ Len(Append(Old, v)) = n + 1 - b
        /\ \A k \in 1 .. n - b : Append(Old, v)[k] = Old[k]
        /\ Append(Old, v)[n + 1 - b] = v
    <2> HIDE DEF Old
    <2>1. v \in Data
      BY DEF Data
    <2>2. /\ Append(Old, v) \in Seq(Data)
          /\ Len(Append(Old, v)) = Len(Old) + 1
          /\ \A k \in 1 .. Len(Old) : Append(Old, v)[k] = Old[k]
          /\ Append(Old, v)[Len(Old) + 1] = v
      BY <1>5, <2>1, AppendProperties
    <2>3. n - b + 1 = n + 1 - b
      BY <1>2
    <2> QED
      BY <1>2, <1>5, <2>2, <2>3
  <1>7. \A k \in 1 .. n + 1 - b : Remembered'[k] = Append(Old, v)[k]
    <2> SUFFICES ASSUME NEW k \in 1 .. n + 1 - b
                 PROVE  Remembered'[k] = Append(Old, v)[k]
      OBVIOUS
    <2>1. Remembered'[k] = queue'.buf[Wrap(queue'.head + k - 1, m)]
      BY <1>4 DEF Remembered
    <2>2. Wrap(Wrap(h + b, m) + k - 1, m) = Wrap(h + (k + b) - 1, m)
      BY <1>1, <1>2 DEF Wrap
    <2>3. Wrap(h + (k + b) - 1, m) \in 0 .. Capacity
      BY <1>1, <1>2 DEF Wrap
    <2>4. queue.buf \in [0 .. Capacity -> Data]
      BY DEF RingsTypeOK, Data
    <2>5. CASE k = n + 1 - b
      <3>1. Wrap(h + (k + b) - 1, m) = queue.tail
        BY <1>1, <1>2, <2>5
      <3> HIDE DEF Old
      <3> QED
        BY <1>3, <1>6, <2>1, <2>2, <2>3, <2>4, <2>5, <3>1
    <2>6. CASE k # n + 1 - b
      <3>1. k \in 1 .. n - b /\ k + b \in 1 .. n
        BY <1>2, <2>6
      <3>2. Wrap(h + (k + b) - 1, m) # queue.tail
        BY <1>1, <1>2, <3>1 DEF Wrap
      <3>3. Remembered'[k] = queue.buf[Wrap(h + (k + b) - 1, m)]
        BY <1>3, <2>1, <2>2, <2>3, <2>4, <3>2
      <3>4. Remembered[k + b] = queue.buf[Wrap(h + (k + b) - 1, m)]
        BY <1>2, <3>1
      <3> HIDE DEF Old, b
      <3> QED
        BY <1>5, <1>6, <3>1, <3>3, <3>4
    <2> QED
      BY <2>5, <2>6
  <1>8. Remembered' = [k \in 1 .. n + 1 - b |-> Remembered'[k]]
    BY <1>4 DEF Remembered
  <1> HIDE DEF Old
  <1>9. Append(Old, v) = [k \in 1 .. n + 1 - b |-> Append(Old, v)[k]]
    BY <1>6, SequenceIsFunction
  <1>10. n + 1 - b \in Nat
    BY <1>2
  <1>11. Remembered' = Append(Old, v)
    BY <1>7, <1>8, <1>9, <1>10, SameSequence
  <1> QED
    BY <1>2, <1>11 DEF Old

(* Removing the head. *)
LEMMA DeQueueTakes ==
  ASSUME RingsTypeOK, DeQueue
  PROVE  1 \in 0 .. Len(Remembered) /\ Remembered' = SubSeq(Remembered, 2, Len(Remembered))
  <1> DEFINE h == queue.head
             n == QueueLen
             m == Capacity + 1
  <1>1. h \in 0 .. Capacity /\ queue.tail \in 0 .. Capacity
    BY DEF RingsTypeOK
  <1>2. /\ n \in 1 .. Capacity
        /\ queue.tail = Wrap(h + n, m)
        /\ Len(Remembered) = n
        /\ Remembered \in Seq(Data)
        /\ \A k \in 1 .. n : Remembered[k] = queue.buf[Wrap(h + k - 1, m)]
    BY QueueIndices, WaitingSequence DEF DeQueue
  <1>3. /\ queue'.head = Wrap(h + 1, m)
        /\ queue'.tail = queue.tail
        /\ queue'.buf = queue.buf
    BY DEF DeQueue, RingsTypeOK
  <1>4. QueueLen' = n - 1
    <2>1. QueueLen' = Wrap(queue'.tail + Capacity + 1 - queue'.head, m)
      BY DEF QueueLen
    <2>2. Capacity \in Nat /\ h \in 0 .. Capacity /\ n \in 1 .. Capacity
      BY <1>1, <1>2, RingsAssumption
    <2> HIDE DEF h, n
    <2>3. Wrap(Wrap(h + n, m) + Capacity + 1 - Wrap(h + 1, m), m) = n - 1
      <3>1. CASE h + 1 = m
        <4>1. Wrap(h + 1, m) = 0 /\ Wrap(h + n, m) = n - 1
          BY <2>2, <3>1 DEF Wrap
        <4> QED
          BY <2>2, <4>1 DEF Wrap
      <3>2. CASE h + 1 < m /\ h + n >= m
        <4>1. Wrap(h + 1, m) = h + 1 /\ Wrap(h + n, m) = h + n - m
          BY <2>2, <3>2 DEF Wrap
        <4> QED
          BY <2>2, <4>1 DEF Wrap
      <3>3. CASE h + 1 < m /\ h + n < m
        <4>1. Wrap(h + 1, m) = h + 1 /\ Wrap(h + n, m) = h + n
          BY <2>2, <3>3 DEF Wrap
        <4> QED
          BY <2>2, <4>1 DEF Wrap
      <3> QED
        BY <2>2, <3>1, <3>2, <3>3
    <2> QED
      BY <1>2, <1>3, <2>1, <2>3
  <1>5. \A k \in 1 .. n - 1 : Remembered'[k] = Remembered[k + 1]
    <2> SUFFICES ASSUME NEW k \in 1 .. n - 1 PROVE Remembered'[k] = Remembered[k + 1]
      OBVIOUS
    <2>1. Wrap(Wrap(h + 1, m) + k - 1, m) = Wrap(h + (k + 1) - 1, m)
      <3>1. k \in 1 .. Capacity
        BY <1>1, <1>2
      <3> QED
        BY <1>1, <3>1 DEF Wrap
    <2>2. Remembered'[k] = queue.buf[Wrap(Wrap(h + 1, m) + k - 1, m)]
      BY <1>3, <1>4 DEF Remembered
    <2>3. Remembered[k + 1] = queue.buf[Wrap(h + (k + 1) - 1, m)]
      BY <1>2
    <2> QED
      BY <2>1, <2>2, <2>3
  <1>6. Remembered # << >>
    BY <1>2
  <1>7. /\ Tail(Remembered) \in Seq(Data)
        /\ Len(Tail(Remembered)) = Len(Remembered) - 1
        /\ \A k \in 1 .. Len(Tail(Remembered)) : Tail(Remembered)[k] = Remembered[k + 1]
    BY <1>2, <1>6, HeadTailProperties
  <1>8. Remembered' = [k \in 1 .. n - 1 |-> Remembered'[k]]
    BY <1>4 DEF Remembered
  <1>9. Tail(Remembered) = [k \in 1 .. n - 1 |-> Tail(Remembered)[k]]
    BY <1>2, <1>7, SequenceIsFunction
  <1>10. n - 1 \in Nat
    BY <1>2
  <1>11. Remembered' = Tail(Remembered)
    BY <1>2, <1>5, <1>7, <1>8, <1>9, <1>10, SameSequence
  <1> QED
    BY <1>2, <1>6, <1>11, TailIsSubSeq

---------------------------------------------------------------------------
(* What the two rings do maps to what the two queues do. *)
THEOREM RingsImplementQueues == RingsSpec => RingsAreQueues
  <1> DEFINE ByteStep  == Bytes!Put \/ Bytes!Take \/ Bytes!Clear
             ValueStep == Values!Push \/ Values!Take \/ Values!Clear
             Seen      == << Waiting, call.fifo >>
             SeenToo   == << Remembered, call.queue >>
  <1>1. RingsInit => Bytes!Init /\ Values!Init
    BY DEF RingsInit, NoBytes, NoValues, Bytes!Init, Values!Init, Waiting, Remembered,
           Used, QueueLen, Wrap
  <1>2. RingsTypeOK /\ RingsTypeOK' /\ [RingsNext]_ringVars
          => [ByteStep]_Seen /\ [ValueStep]_SeenToo
    <2> SUFFICES ASSUME RingsTypeOK, RingsTypeOK', [RingsNext]_ringVars
                 PROVE  [ByteStep]_Seen /\ [ValueStep]_SeenToo
      OBVIOUS
    <2>1. ASSUME UNCHANGED fifo PROVE UNCHANGED Waiting
      BY <2>1 DEF Waiting, Used
    <2>2. ASSUME UNCHANGED queue PROVE UNCHANGED Remembered
      BY <2>2 DEF Remembered, QueueLen
    <2>a. call = [fifo |-> call.fifo, queue |-> call.queue]
      BY DEF RingsTypeOK
    <2>3. ASSUME NEW n \in 0 .. MaxBlock, NEW block \in [1 .. n -> Value],
                 FifoInsert(block)
          PROVE  Bytes!Put /\ UNCHANGED << Remembered, call.queue >>
      BY <2>2, <2>a, <2>3, InsertAppends DEF Bytes!Put, FifoInsert
    <2>4. ASSUME NEW n \in 0 .. FifoSize, FifoPop(n)
          PROVE  Bytes!Take /\ UNCHANGED << Remembered, call.queue >>
      BY <2>2, <2>a, <2>4, PopTakes DEF Bytes!Take, FifoPop
    <2>5. CASE FifoReset
      <3>1. Waiting' = << >>
        BY <2>5 DEF FifoReset, NoBytes, Waiting, Used
      <3> QED
        BY <2>2, <2>5, <2>a, <3>1 DEF FifoReset, Bytes!Clear
    <2>6. ASSUME NEW v \in Value, EnQueue(v)
          PROVE  Values!Push /\ UNCHANGED << Waiting, call.fifo >>
      BY <2>1, <2>a, <2>6, EnQueuePushes DEF Values!Push, EnQueue
    <2>7. CASE DeQueue
      <3>1. 1 \in 0 .. Len(Remembered) /\ Remembered' = SubSeq(Remembered, 1 + 1, Len(Remembered))
        BY <2>7, DeQueueTakes
      <3> QED
        BY <2>1, <2>7, <2>a, <3>1 DEF DeQueue, Values!Take
    <2>8. CASE QueueEmpty
      <3>1. queue'.head = 0 /\ queue'.tail = 0
        BY <2>8 DEF QueueEmpty, RingsTypeOK
      <3>2. QueueLen' = 0
        BY <3>1 DEF QueueLen, Wrap
      <3>3. Remembered' = << >>
        BY <3>2 DEF Remembered
      <3> QED
        BY <2>1, <2>8, <2>a, <3>3 DEF QueueEmpty, Values!Clear
    <2>9. CASE UNCHANGED ringVars
      BY <2>1, <2>2, <2>9 DEF ringVars
    <2> QED
      BY <2>1, <2>2, <2>3, <2>4, <2>5, <2>6, <2>7, <2>8, <2>9 DEF RingsNext
  <1> QED
    BY <1>1, <1>2, RingsTypes, PTL
       DEF RingsSpec, RingsAreQueues, Bytes!RefusingSpec, Values!ForgettingSpec,
           Bytes!vars, Values!vars

(* The readers that count from the newest value get the values put in. *)
THEOREM NewestRead == RingsSpec => []NewestFirst
  <1> DEFINE InQueue == \A k \in 1 .. Len(Remembered) : Remembered[k] \in Value
  <1>1. RingsInit => InQueue
    BY DEF RingsInit, NoValues, Remembered, QueueLen, Wrap
  <1>2. RingsTypeOK /\ RingsTypeOK' /\ InQueue /\ [RingsNext]_ringVars => InQueue'
    <2> SUFFICES ASSUME RingsTypeOK, RingsTypeOK', InQueue, [RingsNext]_ringVars PROVE InQueue'
      OBVIOUS
    <2>1. ASSUME UNCHANGED queue PROVE InQueue'
      BY <2>1 DEF Remembered, QueueLen
    <2>2. Remembered \in Seq(Data) /\ Len(Remembered) \in Nat
      BY WaitingSequence
    <2>3. ASSUME NEW v \in Value, EnQueue(v) PROVE InQueue'
      <3>1. Remembered \in Seq(Value)
        BY <2>2, SequenceIsFunction
      <3>2. Remembered' \in Seq(Value)
        <4>1. CASE Remembered' = Append(Remembered, v)
          BY <3>1, <4>1, AppendProperties
        <4>2. CASE Len(Remembered) = Capacity /\ Remembered' = Append(Tail(Remembered), v)
          <5>1. Tail(Remembered) \in Seq(Value)
            BY <2>2, <3>1, <4>2, HeadTailProperties
          <5> QED
            BY <4>2, <5>1, AppendProperties
        <4> QED
          BY <2>3, <4>1, <4>2, EnQueuePushes
      <3> QED
        BY <3>2
    <2>4. CASE DeQueue
      <3>1. Remembered' = SubSeq(Remembered, 2, Len(Remembered)) /\ Len(Remembered) \in Nat \ {0}
        BY <2>2, <2>4, DeQueueTakes
      <3>2. \A k \in 2 .. Len(Remembered) : Remembered[k] \in Value
        OBVIOUS
      <3>3. Remembered' \in Seq(Value)
        BY <3>1, <3>2, SubSeqProperties
      <3> QED
        BY <3>3
    <2>5. CASE QueueEmpty
      <3>1. queue'.head = 0 /\ queue'.tail = 0
        BY <2>5 DEF QueueEmpty, RingsTypeOK
      <3>2. QueueLen' = 0
        BY <3>1 DEF QueueLen, Wrap
      <3> QED
        BY <3>2 DEF Remembered
    <2>6. CASE UNCHANGED queue
      BY <2>1, <2>6
    <2> QED
      BY <2>3, <2>4, <2>5, <2>6
         DEF RingsNext, ringVars, FifoInsert, FifoPop, FifoReset
  <1>3. RingsTypeOK /\ InQueue => NewestFirst
    <2> SUFFICES ASSUME RingsTypeOK, InQueue, NEW k \in 0 .. QueueLen - 1
                 PROVE  /\ ByIndex(k) = Remembered[QueueLen - k]
                        /\ ByIndex(k) \in Value
      BY DEF NewestFirst
    <2> DEFINE h == queue.head
               n == QueueLen
               m == Capacity + 1
    <2>1. h \in 0 .. Capacity
      BY DEF RingsTypeOK
    <2>2. /\ n \in 0 .. Capacity
          /\ queue.tail = Wrap(h + n, m)
          /\ Len(Remembered) = n
          /\ \A j \in 1 .. n : Remembered[j] = queue.buf[Wrap(h + j - 1, m)]
      BY QueueIndices
    <2>3. Wrap(Wrap(Wrap(h + n, m) - 1 - k + 2 * m, m), m) = Wrap(h + (n - k) - 1, m)
      BY <2>1, <2>2 DEF Wrap
    <2>4. n - k \in 1 .. n
      BY <2>2
    <2>5. ByIndex(k) = queue.buf[Wrap(h + (n - k) - 1, m)]
      BY <2>2, <2>3 DEF ByIndex
    <2> QED
      BY <2>2, <2>4, <2>5
  <1> QED
    BY <1>1, <1>2, <1>3, RingsTypes, PTL DEF RingsSpec

HIDE RingsAssumption DEF RingsAssumption, Cells, Slots

-----------------------------------------------------------------------------
(* The recorder: Recoder.                                                  *)

\* What the bounds are, as the proofs of the recorder need it.
LEMMA RecoderLimits ==
  /\ MaxVoice \in Nat /\ MaxVoice >= 1 /\ MaxCount \in Nat /\ MaxCount >= 1 /\ Packs \in Nat
  /\ Lengths \subseteq 0 .. Packs /\ Times \subseteq Nat
  /\ IndexRange \in Nat /\ IndexRange > MaxVoice
  BY RecoderAssumption

\* An index stands for a slot, and the next index is another one.
LEMMA IndexIs ==
  ASSUME NEW k \in 0 .. IndexRange - 1
  PROVE  /\ (k % MaxVoice) \in VoiceSlots
         /\ Next1(k) \in 0 .. IndexRange - 1 /\ Next1(k) # k
         /\ Next1(k) = IF k = IndexRange - 1 THEN 0 ELSE k + 1
<1>1. (k % MaxVoice) \in VoiceSlots
  BY RecoderLimits DEF VoiceSlots
<1>2. Next1(k) = IF k = IndexRange - 1 THEN 0 ELSE k + 1
  <2>1. CASE k = IndexRange - 1
    <3>1. IndexRange % IndexRange = 0
      BY RecoderLimits
    <3>2. k + 1 = IndexRange
      BY <2>1, RecoderLimits
    <3> QED
      BY <2>1, <3>1, <3>2 DEF Next1
  <2>2. CASE k # IndexRange - 1
    <3>1. k + 1 \in 0 .. IndexRange - 1
      BY <2>2, RecoderLimits
    <3>2. ((k + 1) % IndexRange) = k + 1
      BY <3>1, RecoderLimits
    <3> QED
      BY <2>2, <3>2 DEF Next1
  <2> QED
    BY <2>1, <2>2
<1>3. Next1(k) \in 0 .. IndexRange - 1 /\ Next1(k) # k
  BY <1>2, RecoderLimits
<1> QED
  BY <1>1, <1>2, <1>3

\* The slots that have no recording are not a slot.
LEMMA SlotsAre ==
  NoSlot \notin VoiceSlots /\ MaxVoice \notin VoiceSlots /\ 0 \in VoiceSlots
  BY RecoderLimits DEF NoSlot, VoiceSlots

\* The fields of a slot.
LEMMA VoiceIs ==
  ASSUME NEW x \in Voice
  PROVE  /\ x.lock \in BOOLEAN /\ x.complete \in BOOLEAN /\ x.time \in Times \cup {0}
         /\ x.open \in BOOLEAN /\ x.ack \subseteq 0 .. Packs - 1
         /\ x.send \subseteq 0 .. Packs - 1 /\ x.size \in NoVoice .. Packs
         /\ x.over \in BOOLEAN
  BY DEF Voice

\* Any of them may be changed, and the others are left.
LEMMA VoiceWith ==
  ASSUME NEW x \in Voice
  PROVE  /\ \A l \in BOOLEAN : [x EXCEPT !.lock = l] \in Voice
         /\ \A o \in BOOLEAN : [x EXCEPT !.open = o] \in Voice
         /\ \A a \in SUBSET (0 .. Packs - 1) : [x EXCEPT !.ack = a] \in Voice
         /\ \A a \in SUBSET (0 .. Packs - 1) : [x EXCEPT !.send = a] \in Voice
  BY DEF Voice

\* A slot of the beginning holds no recording.
LEMMA BlankIs ==
  /\ BlankSlot \in Voice
  /\ ~BlankSlot.lock /\ ~BlankSlot.complete /\ BlankSlot.time = 0 /\ ~BlankSlot.open
  /\ ~BlankSlot.over
<1>1. NoVoice \in NoVoice .. Packs
  BY RecoderLimits DEF NoVoice
<1>2. {} \in SUBSET (0 .. Packs - 1)
  OBVIOUS
<1>3. BlankSlot \in Voice
  BY <1>1, <1>2 DEF BlankSlot, Voice
<1> QED
  BY <1>3 DEF BlankSlot

\* A slot that is deleted holds nothing, but what is being recorded goes on.
LEMMA DeletedIs ==
  ASSUME NEW x \in Voice, NEW busy \in BOOLEAN
  PROVE  /\ Deleted(x, busy) \in Voice
         /\ ~Deleted(x, busy).lock /\ ~Deleted(x, busy).complete
         /\ Deleted(x, busy).time = 0 /\ ~Deleted(x, busy).open
         /\ Deleted(x, busy).over = busy
<1>1. NoVoice \in NoVoice .. Packs /\ x.size \in NoVoice .. Packs
  BY VoiceIs, RecoderLimits DEF NoVoice
<1>2. (IF busy THEN x.size ELSE NoVoice) \in NoVoice .. Packs
  BY <1>1
<1> DEFINE z == IF busy THEN x.size ELSE NoVoice
<1>3. Deleted(x, busy) = [BlankSlot EXCEPT !.over = busy, !.size = z]
  BY DEF Deleted
<1>4. z \in NoVoice .. Packs
  BY <1>2
<1> HIDE DEF z
<1>5. [BlankSlot EXCEPT !.over = busy, !.size = z] \in Voice
  BY <1>4, BlankIs DEF Voice
<1> QED
  BY <1>3, <1>5, BlankIs DEF BlankSlot

\* A file that is opened for sending is complete in ack, unless it is being recorded.
LEMMA OpenedIs ==
  ASSUME NEW x \in Voice, NEW busy \in BOOLEAN, NEW y \in Opened(x, busy)
  PROVE  /\ y \in Voice /\ y.lock /\ y.open
         /\ y.complete = x.complete /\ y.time = x.time /\ y.size = x.size /\ y.over = x.over
         /\ ~busy => (x.open /\ y.ack = x.ack) \/ \A j \in 0 .. y.size - 1 : j \in y.ack
<1>1. CASE x.open
  <2>1. y = [x EXCEPT !.lock = TRUE]
    BY <1>1 DEF Opened
  <2>2. y \in Voice
    BY <2>1, VoiceWith
  <2> QED
    BY <1>1, <2>1, <2>2 DEF Voice
<1>2. CASE ~x.open
  <2>1. PICK n \in IF busy THEN Lengths ELSE {x.size} \ {NoVoice} :
          y = [x EXCEPT !.lock = TRUE, !.open = TRUE, !.ack = AllPacks(n),
                        !.send = x.send \cup AllPacks(n)]
    BY <1>2 DEF Opened
  <2>2. n \in 0 .. Packs
    BY VoiceIs, RecoderLimits DEF NoVoice
  <2>3. AllPacks(n) \subseteq 0 .. Packs - 1
    BY <2>2, RecoderLimits DEF AllPacks
  <2>4. (x.send \cup AllPacks(n)) \in SUBSET (0 .. Packs - 1)
    BY <2>3, VoiceIs
  <2> DEFINE a == AllPacks(n)
             z == x.send \cup AllPacks(n)
  <2>5. \A b, c \in SUBSET (0 .. Packs - 1) :
          [x EXCEPT !.lock = TRUE, !.open = TRUE, !.ack = b, !.send = c] \in Voice
    BY DEF Voice
  <2>6. y \in Voice
    BY <2>1, <2>3, <2>4, <2>5
  <2>7. /\ y.lock /\ y.open /\ y.ack = AllPacks(n)
        /\ y.complete = x.complete /\ y.time = x.time /\ y.size = x.size /\ y.over = x.over
    BY <2>1 DEF Voice
  <2>8. ~busy => n = x.size
    BY <2>1
  <2> QED
    BY <2>6, <2>7, <2>8 DEF AllPacks
<1> QED
  BY <1>1, <1>2 DEF Voice

\* The values of what an upload works on.
Slotted(v, a, g) ==
  v \in [VoiceSlots -> Voice] /\ a \subseteq Ack /\ g \subseteq VoiceSlots \X (0 .. Packs - 1)

\* What an upload does to the slot i of v that is next: it leaves it, passes by it, lets it
\* go, or sends of it.
UploadRests(v, a, g) ==
  voice' = v /\ acks' = a /\ got' = g /\ out' = out
UploadPasses(v, a, g, i) ==
  /\ in # out /\ out' = Next1(out) /\ acks' = a /\ got' = g
  /\ ~v[i].complete /\ ~v[i].lock
  /\ voice' = [v EXCEPT ![i] = [v[i] EXCEPT !.open = FALSE]]
UploadLeaves(v, a, g, i) ==
  /\ in # out /\ out' = Next1(out) /\ acks' = a /\ got' = {p \in g : p[1] # i}
  /\ v[i].complete
  /\ voice' = [v EXCEPT ![i] = Deleted(v[i], mic' = i)]
UploadSends(v, a, g, i) ==
  /\ out' = out /\ v[i].complete
  /\ \E x \in Opened(v[i], mic' = i), z \in SUBSET (0 .. Packs - 1) :
       voice' = [v EXCEPT ![i] = [x EXCEPT !.send = z]]
  /\ \/ acks' = a /\ got' = g
     \/ \E j \in 0 .. Packs - 1 :
          acks' = a \cup {[pack |-> j, time |-> v[i].time]} /\ got' = g \cup {<<i, j>>}

\* These are the outcomes of an upload, and they keep its indices and counts in range.
LEMMA UploadIs ==
  ASSUME NEW v, NEW a, NEW g, Slotted(v, a, g), out \in 0 .. IndexRange - 1,
         sendIndex \in VoiceSlots, sendCount \in 0 .. MaxCount - 1, Upload(v, a, g)
  PROVE  /\ \/ UploadRests(v, a, g)
            \/ UploadPasses(v, a, g, out % MaxVoice)
            \/ UploadLeaves(v, a, g, out % MaxVoice)
            \/ UploadSends(v, a, g, out % MaxVoice)
         /\ sendIndex' \in VoiceSlots /\ sendCount' \in 0 .. MaxCount - 1
<1> DEFINE i == out % MaxVoice
<1>1. i \in VoiceSlots /\ Next1(out) # out
  BY IndexIs
<1>2. v[i] \in Voice /\ 0 \in 0 .. MaxCount - 1
  BY <1>1, RecoderLimits DEF Slotted
<1>3. CASE ~(begun /\ online /\ in # out)
  BY <1>3 DEF Upload, UploadRests
<1>4. CASE begun /\ online /\ in # out
  <2>1. /\ sendIndex' = i
        /\ \/ PassBy(v, i) /\ acks' = a /\ got' = g
           \/ OpenFails(v, i) /\ Forgets(i, a, g)
           \/ /\ v[i].complete
              /\ \E x \in Opened(v[i], mic' = i) :
                   \/ SendPack(v, i, x, a, g)
                   \/ /\ Waits(v, i, x) \/ Resend(v, i, x) \/ Finish(v, i, x)
                      /\ Forgets(i, a, g)
    BY <1>4 DEF Upload
  <2> HIDE DEF i
  <2>2. \A x : UNCHANGED out /\ Forgets(x, a, g) => acks' = a /\ got' = g
    BY DEF Forgets
  <2>3. out' = Next1(out) /\ Forgets(i, a, g) => acks' = a /\ got' = {p \in g : p[1] # i}
    BY <1>1 DEF Forgets
  <2>4. CASE PassBy(v, i) /\ acks' = a /\ got' = g
    BY <1>4, <2>1, <2>4, <1>1, <1>2 DEF PassBy, UploadRests, UploadPasses, i
  <2>5. CASE v[i].complete /\ Leaves(v, i) /\ Forgets(i, a, g)
    BY <1>4, <2>1, <2>3, <2>5, <1>1, <1>2 DEF Leaves, UploadLeaves, i
  <2>6. ASSUME v[i].complete, NEW x \in Opened(v[i], mic' = i),
               \/ SendPack(v, i, x, a, g)
               \/ Waits(v, i, x) /\ Forgets(i, a, g)
               \/ x.send = {} /\ x.ack # {} /\ Counted < MaxCount
                    /\ voice' = [v EXCEPT ![i] = [x EXCEPT !.send = x.ack]]
                    /\ sendCount' = Counted /\ UNCHANGED out /\ Forgets(i, a, g)
        PROVE  UploadSends(v, a, g, i) /\ sendCount' \in 0 .. MaxCount - 1
    <3>1. (mic' = i) \in BOOLEAN
      OBVIOUS
    <3>2. x \in Voice /\ x.time = v[i].time
      BY <1>2, <2>6, <3>1, OpenedIs
    <3>3. x.send \subseteq 0 .. Packs - 1 /\ x.ack \subseteq 0 .. Packs - 1
      BY <3>2, VoiceIs
    <3>4. CASE SendPack(v, i, x, a, g)
      <4>1. PICK j \in x.send :
              /\ voice' = [v EXCEPT ![i] = [x EXCEPT !.send = x.send \ {j}]]
              /\ \/ /\ got' = g \cup {<<i, j>>}
                    /\ acks' = a \cup {[pack |-> j, time |-> x.time]}
                 \/ got' = g /\ acks' = a
        BY <3>4 DEF SendPack
      <4>2. x.send \ {j} \in SUBSET (0 .. Packs - 1) /\ j \in 0 .. Packs - 1
        BY <3>3
      <4>3. \E y \in Opened(v[i], mic' = i), z \in SUBSET (0 .. Packs - 1) :
              voice' = [v EXCEPT ![i] = [y EXCEPT !.send = z]]
        BY <2>6, <4>1, <4>2
      <4>4. \/ acks' = a /\ got' = g
            \/ acks' = a \cup {[pack |-> j, time |-> v[i].time]} /\ got' = g \cup {<<i, j>>}
        BY <3>2, <4>1
      <4>5. out' = out /\ sendCount' = sendCount
        BY <3>4 DEF SendPack
      <4> QED
        BY <2>6, <4>2, <4>3, <4>4, <4>5 DEF UploadSends
    <3>5. CASE Waits(v, i, x) /\ Forgets(i, a, g)
      <4>1. x = [x EXCEPT !.send = x.send]
        BY <3>2 DEF Voice
      <4>2. voice' = [v EXCEPT ![i] = [x EXCEPT !.send = x.send]] /\ out' = out
              /\ sendCount' = sendCount
        BY <3>5, <4>1 DEF Waits
      <4>3. acks' = a /\ got' = g
        BY <2>2, <3>5, <4>2
      <4> QED
        BY <2>6, <3>3, <4>2, <4>3 DEF UploadSends
    <3>6. CASE /\ x.send = {} /\ x.ack # {} /\ Counted < MaxCount
               /\ voice' = [v EXCEPT ![i] = [x EXCEPT !.send = x.ack]]
               /\ sendCount' = Counted /\ UNCHANGED out /\ Forgets(i, a, g)
      <4>1. acks' = a /\ got' = g
        BY <2>2, <3>6
      <4>2. sendCount' \in 0 .. MaxCount - 1
        BY <3>6, RecoderLimits DEF Counted
      <4>3. UploadSends(v, a, g, i)
        BY <2>6, <3>3, <3>6, <4>1 DEF UploadSends
      <4> QED
        BY <4>2, <4>3
    <3> QED
      BY <2>6, <3>4, <3>5, <3>6
  <2>7. \A x : Resend(v, i, x) =>
          \/ Leaves(v, i)
          \/ x.send = {} /\ x.ack # {} /\ Counted < MaxCount
               /\ voice' = [v EXCEPT ![i] = [x EXCEPT !.send = x.ack]]
               /\ sendCount' = Counted /\ UNCHANGED out
    BY DEF Resend
  <2>8. CASE OpenFails(v, i) /\ Forgets(i, a, g)
    BY <2>5, <2>8 DEF OpenFails
  <2>9. CASE /\ v[i].complete
             /\ \E x \in Opened(v[i], mic' = i) :
                   \/ SendPack(v, i, x, a, g)
                   \/ /\ Waits(v, i, x) \/ Resend(v, i, x) \/ Finish(v, i, x)
                      /\ Forgets(i, a, g)
    <3>1. PICK x \in Opened(v[i], mic' = i) :
             \/ SendPack(v, i, x, a, g)
             \/ /\ Waits(v, i, x) \/ Resend(v, i, x) \/ Finish(v, i, x)
                /\ Forgets(i, a, g)
      BY <2>9
    <3>2. CASE Leaves(v, i) /\ Forgets(i, a, g)
      BY <2>5, <2>9, <3>2
    <3>3. CASE ~(Leaves(v, i) /\ Forgets(i, a, g))
      <4>1. \/ SendPack(v, i, x, a, g)
            \/ Waits(v, i, x) /\ Forgets(i, a, g)
            \/ Resend(v, i, x) /\ ~Leaves(v, i) /\ Forgets(i, a, g)
        BY <3>1, <3>3 DEF Finish
      <4>2. \/ SendPack(v, i, x, a, g)
            \/ Waits(v, i, x) /\ Forgets(i, a, g)
            \/ x.send = {} /\ x.ack # {} /\ Counted < MaxCount
                    /\ voice' = [v EXCEPT ![i] = [x EXCEPT !.send = x.ack]]
                    /\ sendCount' = Counted /\ UNCHANGED out /\ Forgets(i, a, g)
        BY <2>7, <4>1
      <4>3. UploadSends(v, a, g, i) /\ sendCount' \in 0 .. MaxCount - 1
        BY <2>6, <2>9, <4>2
      <4> QED
        BY <1>1, <2>1, <4>3 DEF i
    <3> QED
      BY <3>2, <3>3
  <2> QED
    BY <2>1, <2>4, <2>8, <2>9
<1> QED
  BY <1>3, <1>4

-----------------------------------------------------------------------------
(* What a step of the recorder leaves of the slots.                        *)

\* Changing one slot: each other is what it was.
LEMMA OneSlot ==
  ASSUME NEW v \in [VoiceSlots -> Voice], NEW i \in VoiceSlots, NEW y \in Voice
  PROVE  /\ [v EXCEPT ![i] = y] \in [VoiceSlots -> Voice]
         /\ [v EXCEPT ![i] = y][i] = y
         /\ \A k \in VoiceSlots \ {i} : [v EXCEPT ![i] = y][k] = v[k]
  OBVIOUS

\* An upload passes over no recording that is going on, and makes none complete.
LEMMA UploadSpares ==
  ASSUME NEW v, NEW a, NEW g, Slotted(v, a, g), NEW i \in VoiceSlots,
         \/ UploadRests(v, a, g) \/ UploadPasses(v, a, g, i)
         \/ UploadLeaves(v, a, g, i) \/ UploadSends(v, a, g, i)
  PROVE  /\ Slotted(voice', acks', got')
         /\ \A k \in VoiceSlots :
              /\ ~v[k].complete /\ v[k].lock => voice'[k] = v[k]
              /\ voice'[k].complete => v[k].complete /\ voice'[k].over = v[k].over
              /\ (mic' = k => (v[k].complete => v[k].over)) /\ voice'[k].over => v[k].over
              /\ mic' = k => voice'[k].over \/ voice'[k].time = v[k].time
              /\ mic' = k /\ v[k].over => voice'[k].over
              /\ voice'[k].lock \/ voice'[k].complete =>
                   voice'[k].time = v[k].time /\ (v[k].lock \/ v[k].complete)
              /\ out' # out /\ k = i => ~voice'[k].complete
<1>1. v[i] \in Voice /\ v \in [VoiceSlots -> Voice]
  BY DEF Slotted
<1>2. CASE UploadRests(v, a, g)
  BY <1>2 DEF UploadRests
<1>3. CASE UploadPasses(v, a, g, i)
  <2> DEFINE y == [v[i] EXCEPT !.open = FALSE]
  <2>1. y \in Voice /\ y.time = v[i].time /\ y.complete = v[i].complete
          /\ y.over = v[i].over /\ y.lock = v[i].lock
    BY <1>1, VoiceWith DEF Voice
  <2>2. voice' = [v EXCEPT ![i] = y] /\ acks' = a /\ got' = g /\ ~v[i].complete /\ ~v[i].lock
    BY <1>3 DEF UploadPasses
  <2> HIDE DEF y
  <2>4. /\ voice' \in [VoiceSlots -> Voice] /\ voice'[i] = y
        /\ \A k \in VoiceSlots \ {i} : voice'[k] = v[k]
    BY <1>1, <2>1, <2>2, OneSlot
  <2> QED
    BY <2>1, <2>2, <2>4 DEF Slotted
<1>4. CASE UploadLeaves(v, a, g, i)
  <2> DEFINE y == Deleted(v[i], mic' = i)
  <2>1. /\ y \in Voice /\ ~y.lock /\ ~y.complete /\ y.time = 0 /\ ~y.open
        /\ y.over = (mic' = i)
    BY <1>1, DeletedIs
  <2>2. /\ voice' = [v EXCEPT ![i] = y] /\ acks' = a /\ got' \subseteq g /\ v[i].complete
    BY <1>4 DEF UploadLeaves
  <2> HIDE DEF y
  <2>4. /\ voice' \in [VoiceSlots -> Voice] /\ voice'[i] = y
        /\ \A k \in VoiceSlots \ {i} : voice'[k] = v[k]
    BY <1>1, <2>1, <2>2, OneSlot
  <2>5. Slotted(voice', acks', got')
    BY <2>2, <2>4 DEF Slotted
  <2> QED
    BY <2>1, <2>2, <2>4, <2>5
<1>5. CASE UploadSends(v, a, g, i)
  <2>1. PICK x \in Opened(v[i], mic' = i), z \in SUBSET (0 .. Packs - 1) :
          voice' = [v EXCEPT ![i] = [x EXCEPT !.send = z]]
    BY <1>5 DEF UploadSends
  <2> DEFINE y == [x EXCEPT !.send = z]
  <2>2. (mic' = i) \in BOOLEAN
    OBVIOUS
  <2>3. /\ x \in Voice
        /\ x.complete = v[i].complete /\ x.time = v[i].time /\ x.over = v[i].over
    BY <1>1, <2>2, OpenedIs
  <2>4. /\ y \in Voice /\ y.complete = v[i].complete /\ y.time = v[i].time
        /\ y.over = v[i].over
    BY <2>3, VoiceWith DEF Voice
  <2>5. voice' = [v EXCEPT ![i] = y] /\ v[i].complete /\ out' = out
    BY <1>5, <2>1 DEF UploadSends
  <2> HIDE DEF y
  <2>6. /\ voice' \in [VoiceSlots -> Voice] /\ voice'[i] = y
        /\ \A k \in VoiceSlots \ {i} : voice'[k] = v[k]
    BY <1>1, <2>4, <2>5, OneSlot
  <2>7. \A j \in 0 .. Packs - 1 : [pack |-> j, time |-> v[i].time] \in Ack
    BY <1>1, VoiceIs DEF Ack
  <2>8. acks' \subseteq Ack /\ got' \subseteq VoiceSlots \X (0 .. Packs - 1)
    BY <1>5, <2>7 DEF UploadSends, Slotted
  <2> QED
    BY <2>4, <2>5, <2>6, <2>8 DEF Slotted
<1> QED
  BY <1>2, <1>3, <1>4, <1>5

-----------------------------------------------------------------------------
(* What is sent, and what of it the server has.                            *)

\* Only what was recorded is opened, no two recordings begin at one second, and what the
\* server answers it has.
Kept(v) == \A i \in VoiceSlots : v[i].open => v[i].complete
Apart(v) == \A i, k \in VoiceSlots : v[i].time = v[k].time /\ v[i].time # 0 => i = k
Heard(v, a, g) ==
  \A x \in a, i \in VoiceSlots : x.time # 0 /\ v[i].time = x.time => <<i, x.pack>> \in g
Awaited(v, g) ==
  \A i \in VoiceSlots : v[i].open /\ ~v[i].over =>
    /\ v[i].time # 0
    /\ \A j \in 0 .. v[i].size - 1 : j \in v[i].ack \/ <<i, j>> \in g
Dated(v) == \A i \in VoiceSlots : v[i].complete /\ ~v[i].over => v[i].time # 0
Sent(v, a, g) == Slotted(v, a, g) /\ Kept(v) /\ Apart(v) /\ Heard(v, a, g) /\ Awaited(v, g)

\* A slot that keeps its recording, or has none, in the same or another file.
LEMMA SentSlot ==
  ASSUME NEW v, NEW a, NEW g, Sent(v, a, g), NEW i \in VoiceSlots, NEW y \in Voice,
         y.open => y.complete,
         y.time = v[i].time \/ y.time = 0,
         y.open /\ ~y.over =>
           y.time # 0 /\ \A j \in 0 .. y.size - 1 : j \in y.ack \/ <<i, j>> \in g
  PROVE  Sent([v EXCEPT ![i] = y], a, g)
<1> DEFINE w == [v EXCEPT ![i] = y]
<1>1. /\ w \in [VoiceSlots -> Voice] /\ w[i] = y
      /\ \A k \in VoiceSlots \ {i} : w[k] = v[k]
  BY OneSlot DEF Sent, Slotted
<1> HIDE DEF w
<1>2. \A k \in VoiceSlots : w[k].time = v[k].time \/ w[k].time = 0
  BY <1>1
<1>3. Slotted(w, a, g) /\ Kept(w)
  BY <1>1 DEF Sent, Slotted, Kept
<1>4. Apart(w)
  BY <1>2 DEF Sent, Apart
<1>5. Heard(w, a, g)
  BY <1>2 DEF Sent, Heard
<1>6. Awaited(w, g)
  BY <1>1 DEF Sent, Awaited
<1> QED
  BY <1>3, <1>4, <1>5, <1>6 DEF Sent, w

\* An upload keeps all this.
LEMMA UploadKeeps ==
  ASSUME NEW v, NEW a, NEW g, Sent(v, a, g), Dated(v), NEW i \in VoiceSlots,
         \/ UploadRests(v, a, g) \/ UploadPasses(v, a, g, i)
         \/ UploadLeaves(v, a, g, i) \/ UploadSends(v, a, g, i),
         mic' \in VoiceSlots => (v[mic'].complete => v[mic'].over)
  PROVE  Sent(voice', acks', got') /\ Dated(voice')
<1>1. v[i] \in Voice /\ v \in [VoiceSlots -> Voice]
  BY DEF Sent, Slotted
<1>2. CASE UploadRests(v, a, g)
  BY <1>2 DEF UploadRests
<1>3. CASE UploadPasses(v, a, g, i)
  <2> DEFINE y == [v[i] EXCEPT !.open = FALSE]
  <2>1. y \in Voice /\ ~y.open /\ y.time = v[i].time /\ y.complete = v[i].complete
          /\ y.over = v[i].over /\ y.lock = v[i].lock
    BY <1>1, VoiceWith DEF Voice
  <2>2. voice' = [v EXCEPT ![i] = y] /\ acks' = a /\ got' = g /\ ~v[i].complete /\ ~v[i].lock
    BY <1>3 DEF UploadPasses
  <2> HIDE DEF y
  <2>3. Sent(voice', acks', got')
    BY <2>1, <2>2, SentSlot
  <2>4. voice'[i] = y /\ \A k \in VoiceSlots \ {i} : voice'[k] = v[k]
    BY <1>1, <2>1, <2>2, OneSlot
  <2> QED
    BY <2>1, <2>2, <2>3, <2>4 DEF Dated
<1>4. CASE UploadLeaves(v, a, g, i)
  <2> DEFINE y == Deleted(v[i], mic' = i)
             h == {p \in g : p[1] # i}
  <2>1. /\ y \in Voice /\ ~y.lock /\ ~y.complete /\ y.time = 0 /\ ~y.open
        /\ y.over = (mic' = i)
    BY <1>1, DeletedIs
  <2>2. voice' = [v EXCEPT ![i] = y] /\ acks' = a /\ got' = h /\ v[i].complete
    BY <1>4 DEF UploadLeaves
  <2> HIDE DEF y
  <2>3. Sent(voice', a, g)
    BY <2>1, <2>2, SentSlot
  <2>4. voice'[i] = y /\ \A k \in VoiceSlots \ {i} : voice'[k] = v[k]
    BY <1>1, <2>1, <2>2, OneSlot
  <2>5. h \subseteq g /\ \A k \in VoiceSlots \ {i} : \A j : <<k, j>> \in g => <<k, j>> \in h
    OBVIOUS
  <2> HIDE DEF h
  <2>6. Slotted(voice', a, h) /\ Kept(voice') /\ Apart(voice')
    BY <2>3, <2>5 DEF Sent, Slotted
  <2>7. Heard(voice', a, h)
    BY <2>1, <2>3, <2>4, <2>5 DEF Sent, Heard
  <2>8. Awaited(voice', h)
    BY <2>1, <2>3, <2>4, <2>5 DEF Sent, Awaited
  <2>9. Sent(voice', acks', got')
    BY <2>2, <2>6, <2>7, <2>8 DEF Sent
  <2> QED
    BY <2>1, <2>2, <2>4, <2>9 DEF Dated
<1>5. CASE UploadSends(v, a, g, i)
  <2>1. PICK x \in Opened(v[i], mic' = i), z \in SUBSET (0 .. Packs - 1) :
          voice' = [v EXCEPT ![i] = [x EXCEPT !.send = z]]
    BY <1>5 DEF UploadSends
  <2> DEFINE y == [x EXCEPT !.send = z]
  <2>2. (mic' = i) \in BOOLEAN
    OBVIOUS
  <2>3. /\ x \in Voice /\ x.open
        /\ x.complete = v[i].complete /\ x.time = v[i].time /\ x.size = v[i].size
        /\ x.over = v[i].over
        /\ mic' # i => (v[i].open /\ x.ack = v[i].ack) \/ \A j \in 0 .. x.size - 1 : j \in x.ack
    BY <1>1, <2>2, OpenedIs
  <2>4. /\ y \in Voice /\ y.open /\ y.complete = v[i].complete /\ y.time = v[i].time
        /\ y.over = v[i].over /\ y.ack = x.ack /\ y.size = v[i].size
    BY <2>3, VoiceWith DEF Voice
  <2>5. voice' = [v EXCEPT ![i] = y] /\ v[i].complete /\ out' = out
    BY <1>5, <2>1 DEF UploadSends
  <2> HIDE DEF y
  <2>6. ~v[i].over => mic' # i
    BY <2>5
  <2>7. ~v[i].over => v[i].time # 0
    BY <2>5 DEF Dated
  <2>8. ~y.over => \A j \in 0 .. y.size - 1 : j \in y.ack \/ <<i, j>> \in g
    <3>1. ~v[i].over /\ v[i].open => \A j \in 0 .. v[i].size - 1 : j \in v[i].ack \/ <<i, j>> \in g
      BY DEF Sent, Awaited
    <3> QED
      BY <2>3, <2>4, <2>6, <3>1
  <2>9. Sent(voice', a, g)
    BY <2>4, <2>5, <2>7, <2>8, SentSlot
  <2>10. voice'[i] = y /\ \A k \in VoiceSlots \ {i} : voice'[k] = v[k]
    BY <1>1, <2>4, <2>5, OneSlot
  <2>11. Sent(voice', acks', got')
    <3>1. CASE acks' = a /\ got' = g
      BY <2>9, <3>1
    <3>2. ASSUME NEW j \in 0 .. Packs - 1,
                 acks' = a \cup {[pack |-> j, time |-> v[i].time]}, got' = g \cup {<<i, j>>}
          PROVE  Sent(voice', acks', got')
      <4> DEFINE n == [pack |-> j, time |-> v[i].time]
      <4>1. n \in Ack /\ n.time = v[i].time /\ n.pack = j
        BY <1>1, VoiceIs DEF Ack
      <4>2. Slotted(voice', acks', got')
        BY <2>9, <3>2, <4>1 DEF Sent, Slotted
      <4>3. Awaited(voice', got')
        BY <2>9, <3>2 DEF Sent, Awaited
      <4>4. Heard(voice', acks', got')
        <5> SUFFICES ASSUME NEW m \in acks', NEW k \in VoiceSlots, m.time # 0,
                            voice'[k].time = m.time
                     PROVE  <<k, m.pack>> \in got'
          BY DEF Heard
        <5>1. CASE m \in a
          BY <2>9, <3>2, <5>1 DEF Sent, Heard
        <5>2. CASE m = n
          <6>1. voice'[k].time = voice'[i].time /\ voice'[k].time # 0
            BY <2>4, <2>10, <4>1, <5>2
          <6>2. k = i
            BY <2>9, <6>1 DEF Sent, Apart
          <6> QED
            BY <3>2, <4>1, <5>2, <6>2
        <5> QED
          BY <3>2, <5>1, <5>2
      <4> QED
        BY <2>9, <4>2, <4>3, <4>4 DEF Sent
    <3> QED
      BY <1>5, <3>1, <3>2 DEF UploadSends
  <2> QED
    BY <2>4, <2>5, <2>10, <2>11 DEF Dated
<1> QED
  BY <1>2, <1>3, <1>4, <1>5

-----------------------------------------------------------------------------
(* The types of the recorder.                                              *)

\* All but the slots, the answers and what the server has.
PlainTypes ==
  /\ status \in {"INIT", "WORK", "FAIL"} /\ state \in {"IDLE", "INIT", "GOING", "BROK"}
  /\ cb \in BOOLEAN /\ begun \in BOOLEAN /\ lapped \in BOOLEAN /\ online \in BOOLEAN
  /\ in \in 0 .. IndexRange - 1 /\ out \in 0 .. IndexRange - 1
  /\ sendIndex \in VoiceSlots /\ sendCount \in 0 .. MaxCount - 1
  /\ mic \in VoiceSlots \cup {NoSlot} /\ due \subseteq VoiceSlots

\* The values of the recorder are those of its control, its slots, its queue and the network.
LEMMA RecoderParts == RecoderTypeOK <=> PlainTypes /\ Slotted(voice, acks, got)
  BY DEF RecoderTypeOK, PlainTypes, Slotted

\* And after a step.
LEMMA RecoderPartsNext == PlainTypes' /\ Slotted(voice', acks', got') => RecoderTypeOK'
  BY DEF RecoderTypeOK, PlainTypes, Slotted

\* Zero is a value of every count.
LEMMA Zeros == 0 \in 0 .. IndexRange - 1 /\ 0 \in 0 .. MaxCount - 1
  BY RecoderLimits

\* A session that begins or ends leaves nothing in the slots.
LEMMA ControlTypes ==
  ASSUME RecoderTypeOK, ControlInit, status' \in {"INIT", "WORK", "FAIL"}, cb' \in BOOLEAN,
         mic' \in VoiceSlots \cup {NoSlot}, due' \subseteq VoiceSlots
  PROVE  RecoderTypeOK'
<1>1. Slotted(voice', acks', got')
  BY RecoderParts, BlankIs DEF ControlInit, Slotted
<1>2. PlainTypes'
  BY RecoderParts, Zeros, SlotsAre DEF ControlInit, PlainTypes
<1> QED
  BY <1>1, <1>2, RecoderPartsNext

\* The slots that are stopped are slots.
LEMMA StoppedIs ==
  ASSUME PlainTypes, Stopped
  PROVE  /\ mic' = NoSlot /\ due' \subseteq VoiceSlots
         /\ due' = due \cup (IF mic = NoSlot THEN {} ELSE {mic})
  BY SlotsAre DEF Stopped, PlainTypes

\* A command to record or to stop keeps the types.
LEMMA CommandTypes ==
  ASSUME RecoderTypeOK,
         \/ \E service \in BOOLEAN : StartRecode(service) \/ StopIdle(service)
         \/ StopRecode \/ FailProc
  PROVE  RecoderTypeOK'
<1>1. PlainTypes /\ Slotted(voice, acks, got)
  BY RecoderParts
<1>2. CASE \E service \in BOOLEAN : StartRecode(service)
  BY <1>1, <1>2, ControlTypes DEF StartRecode, PlainTypes
<1>3. CASE \E service \in BOOLEAN : StopIdle(service)
  <2>1. PlainTypes' /\ UNCHANGED <<voice, acks, got>>
    BY <1>1, <1>3 DEF StopIdle, PlainTypes, ring, net
  <2>2. Slotted(voice', acks', got')
    BY <1>1, <2>1
  <2> QED
    BY <2>1, <2>2, RecoderPartsNext
<1>4. CASE Destroy
  <2>1. /\ ControlInit /\ status' = "INIT" /\ cb' = FALSE
        /\ IF state = "GOING" THEN Stopped ELSE UNCHANGED <<mic, due>>
    BY <1>4 DEF Destroy
  <2>2. mic' \in VoiceSlots \cup {NoSlot} /\ due' \subseteq VoiceSlots
    BY <1>1, <2>1, StoppedIs DEF PlainTypes
  <2> QED
    BY <2>1, <2>2, ControlTypes
<1> QED
  BY <1>2, <1>3, <1>4 DEF StopRecode, FailProc

\* The slots without files.
LEMMA FileCreateIs ==
  ASSUME NEW x \in Voice
  PROVE  /\ [x EXCEPT !.size = NoVoice, !.open = FALSE] \in Voice
         /\ [x EXCEPT !.size = NoVoice, !.open = FALSE].time = x.time
         /\ [x EXCEPT !.size = NoVoice, !.open = FALSE].complete = x.complete
         /\ ~[x EXCEPT !.size = NoVoice, !.open = FALSE].open
<1>1. NoVoice \in NoVoice .. Packs
  BY RecoderLimits DEF NoVoice
<1>2. [x EXCEPT !.size = NoVoice, !.open = FALSE] \in Voice
  BY <1>1 DEF Voice
<1> QED
  BY <1>2 DEF Voice

\* Making the files anew when the device starts keeps the types.
LEMMA FileCreateTypes ==
  ASSUME RecoderTypeOK, FileCreate
  PROVE  RecoderTypeOK'
<1>1. PlainTypes /\ Slotted(voice, acks, got)
  BY RecoderParts
<1>2. Slotted(voice', acks', got')
  BY <1>1, FileCreateIs DEF Slotted, FileCreate, net
<1>3. due' \subseteq VoiceSlots
  BY <1>1 DEF FileCreate, PlainTypes
<1>4. PlainTypes'
  BY <1>1, <1>3, Zeros DEF PlainTypes, FileCreate, net
<1> QED
  BY <1>2, <1>4, RecoderPartsNext

\* The slot in which a recording begins.
Fresher(x, t) == [x EXCEPT !.lock = TRUE, !.time = t, !.size = 0, !.over = x.complete]
\* A recording that begins in a slot locks it, dates it, and tells whether it overwrites another.
LEMMA FresherIs ==
  ASSUME NEW x \in Voice, NEW t \in Times
  PROVE  /\ Fresher(x, t) \in Voice /\ Fresher(x, t).lock /\ Fresher(x, t).time = t
         /\ Fresher(x, t).over = x.complete /\ Fresher(x, t).complete = x.complete
         /\ Fresher(x, t).open = x.open
<1>1. 0 \in NoVoice .. Packs /\ x.complete \in BOOLEAN
  BY RecoderLimits, VoiceIs DEF NoVoice
<1>2. Fresher(x, t) \in Voice
  BY <1>1 DEF Fresher, Voice
<1> QED
  BY <1>2 DEF Fresher, Voice

\* What StartRecord does before the upload.
LEMMA StartIs ==
  ASSUME RecoderTypeOK, NEW t \in Times, StartRecord(t)
  PROVE  /\ Recording \in VoiceSlots /\ InWork /\ ~voice[Recording].lock /\ mic = NoSlot
         /\ MayBegin(Recording, t) /\ mic' = Recording
         /\ Slotted([voice EXCEPT ![Recording] = Fresher(voice[Recording], t)],
                    {a \in acks : Distinct => a.time # t}, {g \in got : g[1] # Recording})
         /\ Upload([voice EXCEPT ![Recording] = Fresher(voice[Recording], t)],
                   {a \in acks : Distinct => a.time # t}, {g \in got : g[1] # Recording})
         /\ UNCHANGED <<status, cb, state, begun, in, lapped, due, online>>
<1>1. PlainTypes /\ Slotted(voice, acks, got)
  BY RecoderParts
<1>2. Recording \in VoiceSlots
  BY <1>1, IndexIs DEF PlainTypes, Recording
<1>3. voice[Recording] \in Voice
  BY <1>1, <1>2 DEF Slotted
<1>4. Slotted([voice EXCEPT ![Recording] = Fresher(voice[Recording], t)],
              {a \in acks : Distinct => a.time # t}, {g \in got : g[1] # Recording})
  BY <1>1, <1>2, <1>3, FresherIs DEF Slotted
<1> QED
  BY <1>2, <1>4 DEF StartRecord, Fresher

\* One call of the timer keeps the types.
LEMMA WorkTypes ==
  ASSUME RecoderTypeOK, Work
  PROVE  RecoderTypeOK'
<1>1. PlainTypes /\ Slotted(voice, acks, got)
  BY RecoderParts
<1>2. out % MaxVoice \in VoiceSlots
  BY <1>1, IndexIs DEF PlainTypes
<1>3. ASSUME NEW v, NEW a, NEW g, Slotted(v, a, g), Upload(v, a, g)
      PROVE  /\ Slotted(voice', acks', got') /\ out' \in 0 .. IndexRange - 1
             /\ sendIndex' \in VoiceSlots /\ sendCount' \in 0 .. MaxCount - 1
  <2>1. /\ \/ UploadRests(v, a, g)
           \/ UploadPasses(v, a, g, out % MaxVoice)
           \/ UploadLeaves(v, a, g, out % MaxVoice)
           \/ UploadSends(v, a, g, out % MaxVoice)
        /\ sendIndex' \in VoiceSlots /\ sendCount' \in 0 .. MaxCount - 1
    BY <1>1, <1>3, UploadIs DEF PlainTypes
  <2>2. Slotted(voice', acks', got')
    BY <1>2, <1>3, <2>1, UploadSpares
  <2>3. out' \in {out, Next1(out)}
    BY <2>1 DEF UploadRests, UploadPasses, UploadLeaves, UploadSends
  <2> QED
    BY <1>1, <2>1, <2>2, <2>3, IndexIs DEF PlainTypes
<1>4. CASE \E t \in Times : StartRecord(t)
  <2>1. PICK t \in Times : StartRecord(t)
    BY <1>4
  <2>2. PlainTypes' /\ Slotted(voice', acks', got')
    BY <1>1, <1>3, <2>1, StartIs DEF PlainTypes
  <2> QED
    BY <2>2, RecoderPartsNext
<1>5. CASE StartFails
  <2>1. PlainTypes' /\ Slotted(voice', acks', got')
    BY <1>1, <1>3, <1>5, StoppedIs DEF PlainTypes, StartFails
  <2> QED
    BY <2>1, RecoderPartsNext
<1>6. CASE Goes
  <2>1. PlainTypes' /\ Slotted(voice', acks', got')
    BY <1>1, <1>3, <1>6, StoppedIs DEF PlainTypes, Goes
  <2> QED
    BY <2>1, RecoderPartsNext
<1> QED
  BY <1>4, <1>5, <1>6 DEF Work

\* A slot whose recording is complete.
Taped(x, n) ==
  [x EXCEPT !.lock = FALSE, !.complete = TRUE, !.size = IF cb THEN n ELSE NoVoice]
\* A recording that has ended is complete and its file is closed to the recorder.
LEMMA TapedIs ==
  ASSUME NEW x \in Voice, NEW n \in Lengths
  PROVE  /\ Taped(x, n) \in Voice /\ ~Taped(x, n).lock /\ Taped(x, n).complete
         /\ Taped(x, n).open = x.open /\ Taped(x, n).time = x.time /\ Taped(x, n).over = x.over
<1> DEFINE z == IF cb THEN n ELSE NoVoice
<1>1. z \in NoVoice .. Packs
  BY RecoderLimits DEF NoVoice
<1>2. Taped(x, n) = [x EXCEPT !.lock = FALSE, !.complete = TRUE, !.size = z]
  BY DEF Taped
<1> HIDE DEF z
<1>3. Taped(x, n) \in Voice
  BY <1>1, <1>2 DEF Voice
<1> QED
  BY <1>2, <1>3 DEF Voice

\* What the end of a recording does.
LEMMA ResultIs ==
  ASSUME RecoderTypeOK, NEW i \in VoiceSlots, Result(i)
  PROVE  /\ \/ i \in due /\ due' = due \ {i} /\ mic' = mic
            \/ i \notin due /\ mic = i /\ mic' = NoSlot /\ due' = due
         /\ UNCHANGED <<status, cb, out, sendIndex, sendCount, net>>
         /\ \/ state \in {"IDLE", "INIT"} /\ UNCHANGED <<state, begun, in, lapped, voice>>
            \/ /\ state \in {"GOING", "BROK"} /\ state' = state /\ in' = Next1(in)
               /\ lapped' = (lapped \/ in' = out) /\ begun' = (begun \/ cb)
               /\ \E n \in Lengths : voice' = [voice EXCEPT ![i] = Taped(voice[i], n)]
            \/ /\ state \in {"GOING", "BROK"} /\ state' = "BROK" /\ lapped' = FALSE
               /\ UNCHANGED <<begun, in>>
               /\ voice' \in {voice, [voice EXCEPT ![i] = BlankSlot]}
<1>1. voice[i] \in Voice
  BY RecoderParts DEF Slotted
<1>2. \/ i \in due /\ due' = due \ {i} /\ mic' = mic
      \/ i \notin due /\ mic = i /\ mic' = NoSlot /\ due' = due
  BY DEF Result
<1>3. CASE state \in {"IDLE", "INIT"}
  BY <1>2, <1>3 DEF Result, ring, net
<1>4. CASE state \notin {"IDLE", "INIT"}
  <2>1. state \in {"GOING", "BROK"}
    BY <1>4, RecoderParts DEF PlainTypes
  <2>2. PICK r \in Results : IF r \in 1 .. 3 THEN \E n \in Lengths : Completed(i, n)
                             ELSE SessionBroken(i, r)
    BY <1>4 DEF Result
  <2>3. CASE \E n \in Lengths : Completed(i, n)
    <3>1. PICK n \in Lengths : Completed(i, n)
      BY <2>3
    <3>2. voice' = [voice EXCEPT ![i] = Taped(voice[i], n)]
      BY <1>1, <3>1 DEF Completed, Taped, Voice
    <3> QED
      BY <1>2, <2>1, <3>1, <3>2 DEF Completed, net
  <2>4. CASE SessionBroken(i, r)
    BY <1>2, <2>1, <2>4 DEF SessionBroken, net
  <2> QED
    BY <2>2, <2>3, <2>4
<1> QED
  BY <1>3, <1>4

\* The report of a recording that has ended keeps the types.
LEMMA ResultTypes ==
  ASSUME RecoderTypeOK, NEW i \in VoiceSlots, Result(i)
  PROVE  RecoderTypeOK'
<1>1. PlainTypes /\ Slotted(voice, acks, got)
  BY RecoderParts
<1>2. /\ mic' \in VoiceSlots \cup {NoSlot} /\ due' \subseteq VoiceSlots
  BY <1>1, ResultIs DEF PlainTypes
<1>3. PlainTypes'
  BY <1>1, <1>2, ResultIs, IndexIs DEF PlainTypes, net
<1>4. voice[i] \in Voice
  BY <1>1 DEF Slotted
<1>5. voice' \in [VoiceSlots -> Voice]
  <2>1. voice \in [VoiceSlots -> Voice]
    BY <1>1 DEF Slotted
  <2>2. \A n \in Lengths : [voice EXCEPT ![i] = Taped(voice[i], n)] \in [VoiceSlots -> Voice]
    BY <1>4, <2>1, TapedIs, OneSlot
  <2>3. [voice EXCEPT ![i] = BlankSlot] \in [VoiceSlots -> Voice]
    BY <2>1, BlankIs, OneSlot
  <2>4. \/ voice' \in {voice, [voice EXCEPT ![i] = BlankSlot]}
        \/ \E n \in Lengths : voice' = [voice EXCEPT ![i] = Taped(voice[i], n)]
    BY ResultIs
  <2> QED
    BY <2>1, <2>2, <2>3, <2>4
<1>6. Slotted(voice', acks', got')
  BY <1>1, <1>5, ResultIs DEF Slotted, net
<1> QED
  BY <1>3, <1>6, RecoderPartsNext

\* A set of natural numbers that is not empty has a least one.
LEMMA LeastOf ==
  ASSUME NEW T, T \subseteq Nat, T # {}
  PROVE  \E x \in T : \A y \in T : ~(y < x)
<1> DEFINE R == OpToRel(<, Nat)
<1>1. IsWellFoundedOn(R, Nat)
  BY NatLessThanWellFounded
<1>2. PICK x \in T : \A y \in T : ~(<< y, x >> \in R)
  <2> HIDE DEF R
  <2> QED
    BY <1>1, WFMin
<1> QED
  BY <1>2 DEF OpToRel

\* A pack that was answered.
LEMMA SendAckIs ==
  ASSUME RecoderTypeOK, NEW a \in acks, SendAck(a)
  PROVE  /\ acks' = acks \ {a}
         /\ UNCHANGED <<status, cb, state, begun, in, out, sendIndex, lapped, mic, due, online,
                        got>>
         /\ \/ voice' = voice /\ sendCount' = sendCount
            \/ /\ voice[sendIndex].time = a.time /\ sendCount' = 0
               /\ voice' = [voice EXCEPT ![sendIndex] =
                              [voice[sendIndex] EXCEPT !.ack = voice[sendIndex].ack \ {a.pack}]]
<1>1. sendIndex \in VoiceSlots /\ voice[sendIndex] \in Voice
  BY RecoderParts DEF PlainTypes, Slotted
<1>2. CASE sendIndex = Find(a.time)
  <2>1. Find(a.time) # MaxVoice
    BY <1>1, <1>2, SlotsAre
  <2>2. PICK i \in VoiceSlots : voice[i].time = a.time
    BY <2>1 DEF Find
  <2>3. \E k \in VoiceSlots : /\ voice[k].time = a.time
                              /\ \A m \in VoiceSlots : voice[m].time = a.time => k <= m
    <3> DEFINE T == {k \in VoiceSlots : voice[k].time = a.time}
    <3>1. T \subseteq Nat /\ T # {}
      BY <2>2 DEF VoiceSlots
    <3>2. PICK k \in T : \A m \in T : ~(m < k)
      <4> HIDE DEF T
      <4> QED
        BY <3>1, LeastOf
    <3>3. \A m \in VoiceSlots : ~(m < k) => k <= m
      BY <3>1, <3>2 DEF VoiceSlots
    <3> QED
      BY <3>2, <3>3
  <2>4. voice[Find(a.time)].time = a.time
    BY <2>2, <2>3 DEF Find
  <2>5. voice' = [voice EXCEPT ![sendIndex].ack = @ \ {a.pack}] /\ sendCount' = 0
    BY <1>2 DEF SendAck
  <2> QED
    BY <1>1, <1>2, <2>4, <2>5 DEF SendAck, Voice
<1>3. CASE sendIndex # Find(a.time)
  BY <1>3 DEF SendAck
<1> QED
  BY <1>2, <1>3

\* What the network and the server do keeps the types.
LEMMA NetworkTypes ==
  ASSUME RecoderTypeOK, Lost \/ Bearer \/ \E a \in acks : SendAck(a)
  PROVE  RecoderTypeOK'
<1>1. PlainTypes /\ Slotted(voice, acks, got)
  BY RecoderParts
<1>2. CASE Lost
  <2>1. PlainTypes' /\ Slotted(voice', acks', got')
    BY <1>1, <1>2 DEF PlainTypes, Slotted, Lost, ring
  <2> QED
    BY <2>1, RecoderPartsNext
<1>3. CASE Bearer
  <2>1. PlainTypes' /\ Slotted(voice', acks', got')
    BY <1>1, <1>3 DEF PlainTypes, Slotted, Bearer, ring
  <2> QED
    BY <2>1, RecoderPartsNext
<1>4. CASE \E a \in acks : SendAck(a)
  <2>1. PICK a \in acks : SendAck(a)
    BY <1>4
  <2>2. sendCount' \in 0 .. MaxCount - 1
    BY <1>1, <2>1, SendAckIs, Zeros DEF PlainTypes
  <2>3. PlainTypes'
    BY <1>1, <2>1, <2>2, SendAckIs DEF PlainTypes
  <2>4. voice[sendIndex] \in Voice /\ sendIndex \in VoiceSlots /\ voice \in [VoiceSlots -> Voice]
    BY <1>1 DEF PlainTypes, Slotted
  <2> DEFINE y == [voice[sendIndex] EXCEPT !.ack = voice[sendIndex].ack \ {a.pack}]
  <2>5. y \in Voice
    BY <2>4, VoiceWith, VoiceIs
  <2>6. voice' \in {voice, [voice EXCEPT ![sendIndex] = y]}
    BY <2>1, SendAckIs
  <2> HIDE DEF y
  <2>7. voice' \in [VoiceSlots -> Voice]
    BY <2>4, <2>5, <2>6, OneSlot
  <2>8. Slotted(voice', acks', got')
    BY <1>1, <2>1, <2>7, SendAckIs DEF Slotted
  <2> QED
    BY <2>3, <2>8, RecoderPartsNext
<1> QED
  BY <1>2, <1>3, <1>4

\* The types hold in the beginning.
LEMMA RecoderTypesInit == RecoderInit => RecoderTypeOK
<1> SUFFICES ASSUME RecoderInit
             PROVE  RecoderTypeOK
  OBVIOUS
<1>1. Slotted(voice, acks, got)
  BY BlankIs DEF RecoderInit, Slotted
<1>2. PlainTypes
  BY Zeros, SlotsAre DEF RecoderInit, PlainTypes
<1> QED
  BY <1>1, <1>2, RecoderParts

\* Every step keeps the types.
LEMMA RecoderTypesStep == RecoderTypeOK /\ [RecoderNext]_recoderVars => RecoderTypeOK'
<1> SUFFICES ASSUME RecoderTypeOK, [RecoderNext]_recoderVars
             PROVE  RecoderTypeOK'
  OBVIOUS
<1>1. CASE UNCHANGED recoderVars
  BY <1>1 DEF recoderVars, ring, net, RecoderTypeOK
<1>2. CASE RecoderNext
  BY <1>2, CommandTypes, FileCreateTypes, WorkTypes, ResultTypes, NetworkTypes
     DEF RecoderNext, Timer
<1> QED
  BY <1>1, <1>2

\* The recorder's variables have their types.
THEOREM RecoderTypes == RecoderSpec => []RecoderTypeOK
<1> QED
  BY RecoderTypesInit, RecoderTypesStep, PTL DEF RecoderSpec

-----------------------------------------------------------------------------
(* One recording at a time.                                                *)

\* What ends in a slot does not hide a recording that still waits there.
Ended(x) == x.complete => x.over

\* A session records into the slot of the queue's input and into no other; what was
\* stopped is reported before anything else is recorded; none begins with recordings.
RunInv ==
  /\ status = "INIT" => state \in {"IDLE", "INIT"}
  /\ state \in {"IDLE", "INIT"} => \A i \in VoiceSlots : ~voice[i].complete
  /\ state # "GOING" => mic = NoSlot
  /\ state = "BROK" => due = {}
  /\ state = "GOING" =>
       /\ mic \in {NoSlot, Recording} /\ due \subseteq {Recording}
       /\ mic = NoSlot \/ due = {}
       /\ \A i \in VoiceSlots : i \in due \/ mic = i => Ended(voice[i])
       /\ status = "WORK" => \A i \in due : voice[i].lock /\ ~voice[i].complete

\* The outcomes of an upload of v.
Uploaded(v, a, g) ==
  \/ UploadRests(v, a, g) \/ UploadPasses(v, a, g, out % MaxVoice)
  \/ UploadLeaves(v, a, g, out % MaxVoice) \/ UploadSends(v, a, g, out % MaxVoice)

\* What an upload makes of the slots of v.
Spared(v) ==
  \A k \in VoiceSlots :
    /\ ~v[k].complete /\ v[k].lock => voice'[k] = v[k]
    /\ voice'[k].complete => v[k].complete /\ voice'[k].over = v[k].over
    /\ (mic' = k => (v[k].complete => v[k].over)) /\ voice'[k].over => v[k].over
    /\ mic' = k => voice'[k].over \/ voice'[k].time = v[k].time
    /\ mic' = k /\ v[k].over => voice'[k].over
    /\ voice'[k].lock \/ voice'[k].complete =>
         voice'[k].time = v[k].time /\ (v[k].lock \/ v[k].complete)
    /\ out' # out /\ k = out % MaxVoice => ~voice'[k].complete

\* Work is a recording that begins or one that goes on or is stopped, and an upload.
Begun(v, a, g) ==
  /\ ~voice[Recording].lock /\ mic = NoSlot /\ mic' = Recording
  /\ UNCHANGED <<status, due>>
  /\ \E t \in Times :
       /\ v = [voice EXCEPT ![Recording] = Fresher(voice[Recording], t)]
       /\ a = {x \in acks : Distinct => x.time # t}
       /\ g = {x \in got : x[1] # Recording}
       /\ MayBegin(Recording, t)
Halted ==
  \/ UNCHANGED <<status, mic, due>>
  \/ /\ mic' = NoSlot /\ due' = due \cup (IF mic = NoSlot THEN {} ELSE {mic})
     /\ \/ status' = "FAIL"
        \/ status' = status /\ voice[Recording].lock /\ ~voice[Recording].complete
WorkOn(v, a, g) ==
  /\ Slotted(v, a, g) /\ Uploaded(v, a, g) /\ Spared(v)
  /\ Begun(v, a, g) \/ (Halted /\ v = voice /\ a = acks /\ g = got)

\* What a call of the timer leaves alone, and what it does to the slots and the network.
LEMMA WorkIs ==
  ASSUME RecoderTypeOK, Work
  PROVE  /\ InWork /\ Recording \in VoiceSlots
         /\ UNCHANGED <<state, begun, in, lapped>>
         /\ \E v, a, g : WorkOn(v, a, g)
<1>1. PlainTypes /\ Slotted(voice, acks, got)
  BY RecoderParts
<1>2. out % MaxVoice \in VoiceSlots /\ Recording \in VoiceSlots
  BY <1>1, IndexIs DEF PlainTypes, Recording
<1>3. ASSUME NEW v, NEW a, NEW g, Slotted(v, a, g), Upload(v, a, g)
      PROVE  Uploaded(v, a, g) /\ Spared(v)
  <2>1. Uploaded(v, a, g)
    BY <1>1, <1>3, UploadIs DEF PlainTypes, Uploaded
  <2> DEFINE i == out % MaxVoice
  <2>2. /\ i \in VoiceSlots
        /\ \/ UploadRests(v, a, g) \/ UploadPasses(v, a, g, i)
           \/ UploadLeaves(v, a, g, i) \/ UploadSends(v, a, g, i)
    BY <1>2, <2>1 DEF Uploaded
  <2> HIDE DEF i
  <2>3. \A k \in VoiceSlots :
          /\ ~v[k].complete /\ v[k].lock => voice'[k] = v[k]
          /\ voice'[k].complete => v[k].complete /\ voice'[k].over = v[k].over
          /\ (mic' = k => (v[k].complete => v[k].over)) /\ voice'[k].over => v[k].over
          /\ mic' = k => voice'[k].over \/ voice'[k].time = v[k].time
          /\ mic' = k /\ v[k].over => voice'[k].over
          /\ voice'[k].lock \/ voice'[k].complete =>
               voice'[k].time = v[k].time /\ (v[k].lock \/ v[k].complete)
          /\ out' # out /\ k = i => ~voice'[k].complete
    BY <1>3, <2>2, UploadSpares
  <2> QED
    BY <2>1, <2>3 DEF Spared, i
<1>4. CASE \E t \in Times : StartRecord(t)
  <2>1. PICK t \in Times : StartRecord(t)
    BY <1>4
  <2> DEFINE v == [voice EXCEPT ![Recording] = Fresher(voice[Recording], t)]
             a == {x \in acks : Distinct => x.time # t}
             g == {x \in got : x[1] # Recording}
  <2>2. /\ InWork /\ ~voice[Recording].lock /\ mic = NoSlot
        /\ MayBegin(Recording, t) /\ mic' = Recording
        /\ Slotted(v, a, g) /\ Upload(v, a, g)
        /\ UNCHANGED <<status, cb, state, begun, in, lapped, due, online>>
    BY <2>1, StartIs
  <2>3. Begun(v, a, g)
    BY <2>2 DEF Begun
  <2> HIDE DEF v, a, g
  <2>4. WorkOn(v, a, g)
    BY <1>3, <2>2, <2>3 DEF WorkOn
  <2> QED
    BY <1>2, <2>2, <2>4
<1>5. CASE StartFails
  <2>1. Halted /\ InWork /\ Upload(voice, acks, got) /\ UNCHANGED <<state, begun, in, lapped>>
    BY <1>1, <1>5, StoppedIs DEF StartFails, Halted
  <2>2. WorkOn(voice, acks, got)
    BY <1>1, <1>3, <2>1 DEF WorkOn
  <2> QED
    BY <1>2, <2>1, <2>2
<1>6. CASE Goes
  <2>1. Halted /\ InWork /\ Upload(voice, acks, got) /\ UNCHANGED <<state, begun, in, lapped>>
    BY <1>1, <1>6, StoppedIs DEF Goes, Halted
  <2>2. WorkOn(voice, acks, got)
    BY <1>1, <1>3, <2>1 DEF WorkOn
  <2> QED
    BY <1>2, <2>1, <2>2
<1> QED
  BY <1>4, <1>5, <1>6 DEF Work

\* What Begun leaves of the slots.
LEMMA BegunIs ==
  ASSUME RecoderTypeOK, NEW v, NEW a, NEW g, Begun(v, a, g)
  PROVE  /\ Recording \in VoiceSlots
         /\ v[Recording].lock /\ v[Recording].complete = voice[Recording].complete
         /\ v[Recording].over = voice[Recording].complete
         /\ v[Recording].open = voice[Recording].open
         /\ \A k \in VoiceSlots \ {Recording} : v[k] = voice[k]
<1>1. PlainTypes /\ voice \in [VoiceSlots -> Voice]
  BY RecoderParts DEF Slotted
<1>2. Recording \in VoiceSlots
  BY <1>1, IndexIs DEF PlainTypes, Recording
<1>3. PICK t \in Times : v = [voice EXCEPT ![Recording] = Fresher(voice[Recording], t)]
  BY DEF Begun
<1>4. voice[Recording] \in Voice
  BY <1>1, <1>2
<1> DEFINE y == Fresher(voice[Recording], t)
<1>5. /\ y \in Voice /\ y.lock /\ y.over = voice[Recording].complete
      /\ y.complete = voice[Recording].complete /\ y.open = voice[Recording].open
  BY <1>4, FresherIs
<1>6. v = [voice EXCEPT ![Recording] = y]
  BY <1>3
<1> HIDE DEF y
<1>7. v[Recording] = y /\ \A k \in VoiceSlots \ {Recording} : v[k] = voice[k]
  BY <1>1, <1>2, <1>5, <1>6, OneSlot
<1> QED
  BY <1>2, <1>5, <1>7

\* A call of the timer starts no second recording.
LEMMA WorkRuns ==
  ASSUME RecoderTypeOK, RunInv, Work
  PROVE  RunInv'
<1>1. /\ InWork /\ Recording \in VoiceSlots /\ UNCHANGED <<state, begun, in, lapped>>
      /\ Recording' = Recording
  BY WorkIs DEF Recording
<1>2. PICK v, a, g : WorkOn(v, a, g)
  BY WorkIs
<1>3. Spared(v)
  BY <1>2 DEF WorkOn
<1>4. /\ state = "GOING" /\ status = "WORK" /\ state' = "GOING"
      /\ mic \in {NoSlot, Recording} /\ due \subseteq {Recording}
      /\ mic = NoSlot \/ due = {}
      /\ \A i \in VoiceSlots : i \in due \/ mic = i => Ended(voice[i])
      /\ \A i \in due : voice[i].lock /\ ~voice[i].complete
  BY <1>1 DEF RunInv, InWork
<1>5. status' # "INIT"
  BY <1>2, <1>4 DEF WorkOn, Begun, Halted
<1> SUFFICES /\ mic' \in {NoSlot, Recording} /\ due' \subseteq {Recording}
             /\ mic' = NoSlot \/ due' = {}
             /\ \A i \in VoiceSlots : i \in due' \/ mic' = i => Ended(voice'[i])
             /\ status' = "WORK" => \A i \in due' : voice'[i].lock /\ ~voice'[i].complete
  BY <1>1, <1>4, <1>5 DEF RunInv
<1>6. \A i \in VoiceSlots : Ended(v[i]) => Ended(voice'[i])
  BY <1>3 DEF Spared, Ended
<1>7. CASE Begun(v, a, g)
  <2>1. due = {}
    BY <1>1, <1>4, <1>7 DEF Begun
  <2>2. Ended(v[Recording])
    BY <1>7, BegunIs DEF Ended
  <2> QED
    BY <1>6, <1>7, <2>1, <2>2 DEF Begun
<1>8. CASE Halted /\ v = voice
  <2>1. due' \subseteq due \cup (IF mic = NoSlot THEN {} ELSE {mic})
    BY <1>8 DEF Halted
  <2>2. /\ mic' \in {NoSlot, Recording} /\ due' \subseteq {Recording}
        /\ mic' = NoSlot \/ due' = {}
    BY <1>4, <1>8, <2>1 DEF Halted
  <2>3. \A i \in VoiceSlots : i \in due' \/ mic' = i => Ended(voice'[i])
    <3> SUFFICES ASSUME NEW i \in VoiceSlots, i \in due' \/ mic' = i
                 PROVE  Ended(voice'[i])
      OBVIOUS
    <3>1. i # NoSlot
      BY SlotsAre
    <3>2. mic' = mic \/ mic' = NoSlot
      BY <1>8 DEF Halted
    <3>3. i \in due \/ mic = i
      BY <2>1, <3>1, <3>2
    <3>4. Ended(v[i])
      BY <1>4, <1>8, <3>3
    <3> QED
      BY <1>6, <3>4
  <2>4. ASSUME status' = "WORK", NEW i \in due'
        PROVE  voice[i].lock /\ ~voice[i].complete
    BY <1>4, <1>8, <2>1, <2>4 DEF Halted
  <2>5. status' = "WORK" => \A i \in due' : voice'[i].lock /\ ~voice'[i].complete
    BY <1>1, <1>3, <1>8, <2>2, <2>4 DEF Spared
  <2> QED
    BY <2>2, <2>3, <2>5
<1> QED
  BY <1>2, <1>7, <1>8 DEF WorkOn

\* Creating and destroying the module leaves no recording behind.
LEMMA ControlRuns ==
  ASSUME ControlInit, mic' = NoSlot
  PROVE  RunInv'
  BY BlankIs DEF ControlInit, RunInv

\* A command starts no second recording.
LEMMA CommandRuns ==
  ASSUME RecoderTypeOK, RunInv,
         \/ \E service \in BOOLEAN : StartRecode(service) \/ StopIdle(service)
         \/ StopRecode \/ FailProc
  PROVE  RunInv'
<1>1. CASE \E service \in BOOLEAN : StartRecode(service)
  <2>1. state # "GOING"
    BY <1>1 DEF StartRecode, RunInv
  <2> QED
    BY <1>1, <2>1, ControlRuns DEF StartRecode, RunInv
<1>2. CASE \E service \in BOOLEAN : StopIdle(service)
  BY <1>2 DEF StopIdle, RunInv, Recording, ring, net
<1>3. CASE Destroy
  <2>1. ControlInit /\ IF state = "GOING" THEN Stopped ELSE UNCHANGED <<mic, due>>
    BY <1>3 DEF Destroy
  <2>2. mic' = NoSlot
    BY <2>1 DEF RunInv, Stopped
  <2> QED
    BY <2>1, <2>2, ControlRuns
<1> QED
  BY <1>1, <1>2, <1>3 DEF StopRecode, FailProc

\* Making the files anew ends whatever was recorded.
LEMMA FileCreateRuns ==
  ASSUME ~LateResult, RecoderTypeOK, RunInv, FileCreate
  PROVE  RunInv'
<1>1. /\ mic' = NoSlot /\ due' = {} /\ state' = "GOING" /\ status' = "WORK"
  BY DEF FileCreate, RunInv
<1>2. NoSlot \notin VoiceSlots
  BY SlotsAre
<1> QED
  BY <1>1, <1>2 DEF RunInv

\* The report of a recording ends that recording and no other.
LEMMA ResultRuns ==
  ASSUME RecoderTypeOK, RunInv, NEW i \in VoiceSlots, Result(i)
  PROVE  RunInv'
<1>1. /\ \/ i \in due /\ due' = due \ {i} /\ mic' = mic
         \/ i \notin due /\ mic = i /\ mic' = NoSlot /\ due' = due
      /\ status' = status /\ i # NoSlot
  BY ResultIs, SlotsAre
<1>2. CASE state \in {"IDLE", "INIT"} /\ UNCHANGED <<state, begun, in, lapped, voice>>
  BY <1>1, <1>2 DEF RunInv
<1>3. CASE state = "GOING" /\ state' \in {"GOING", "BROK"}
  <2>1. mic' = NoSlot /\ due' = {}
    BY <1>1, <1>3 DEF RunInv
  <2> QED
    BY <1>1, <1>3, <2>1, SlotsAre DEF RunInv
<1>4. state # "BROK"
  BY <1>1 DEF RunInv
<1> QED
  BY <1>2, <1>3, <1>4, ResultIs

\* The network records nothing.
LEMMA NetworkRuns ==
  ASSUME RecoderTypeOK, RunInv, Lost \/ Bearer \/ \E a \in acks : SendAck(a)
  PROVE  RunInv'
<1>1. CASE Lost \/ Bearer
  BY <1>1 DEF Lost, Bearer, ring, net, RunInv, Recording
<1>2. CASE \E a \in acks : SendAck(a)
  <2>1. PICK a \in acks : SendAck(a)
    BY <1>2
  <2>2. UNCHANGED <<status, state, in, mic, due>>
    BY <2>1, SendAckIs
  <2>3. voice[sendIndex] \in Voice /\ sendIndex \in VoiceSlots /\ voice \in [VoiceSlots -> Voice]
    BY RecoderParts DEF PlainTypes, Slotted
  <2> DEFINE y == [voice[sendIndex] EXCEPT !.ack = voice[sendIndex].ack \ {a.pack}]
  <2>4. /\ y \in Voice /\ y.lock = voice[sendIndex].lock /\ y.over = voice[sendIndex].over
        /\ y.complete = voice[sendIndex].complete
    BY <2>3, VoiceWith, VoiceIs DEF Voice
  <2>5. voice' \in {voice, [voice EXCEPT ![sendIndex] = y]}
    BY <2>1, SendAckIs
  <2> HIDE DEF y
  <2>6. \A k \in VoiceSlots : /\ voice'[k].lock = voice[k].lock /\ voice'[k].over = voice[k].over
                              /\ voice'[k].complete = voice[k].complete
    BY <2>3, <2>4, <2>5, OneSlot
  <2>7. due \subseteq VoiceSlots
    BY RecoderParts DEF PlainTypes
  <2> QED
    BY <2>2, <2>6, <2>7 DEF RunInv, Ended, Recording
<1> QED
  BY <1>1, <1>2

\* Every step keeps the one recording.
LEMMA RunStep ==
  ~LateResult /\ RecoderTypeOK /\ RunInv /\ [RecoderNext]_recoderVars => RunInv'
<1> SUFFICES ASSUME ~LateResult, RecoderTypeOK, RunInv, [RecoderNext]_recoderVars
             PROVE  RunInv'
  OBVIOUS
<1>1. CASE UNCHANGED recoderVars
  BY <1>1 DEF recoderVars, ring, net, RunInv, Recording
<1>2. CASE RecoderNext
  BY <1>2, CommandRuns, FileCreateRuns, WorkRuns, ResultRuns, NetworkRuns
     DEF RecoderNext, Timer
<1> QED
  BY <1>1, <1>2

\* In the beginning nothing is recorded.
LEMMA RunInit == RecoderInit => RunInv
  BY BlankIs DEF RecoderInit, RunInv

\* As long as no recording is reported in a later session than it was stopped in, at most one
\* slot is being recorded, and it is the one the microphone and the state know of (recoder.c).
THEOREM OneRecording == ~LateResult /\ RecoderSpec => []RunInv
<1> SUFFICES ASSUME ~LateResult
             PROVE  RecoderSpec => []RunInv
  OBVIOUS
<1>1. RecoderTypeOK /\ RunInv /\ [RecoderNext]_recoderVars => RunInv'
  BY RunStep
<1> QED
  BY <1>1, RunInit, RecoderTypes, PTL DEF RecoderSpec

-----------------------------------------------------------------------------
(* What waits is in the queue.                                             *)

\* The indices of the queue.
Unsent == IF out <= in THEN out .. in - 1 ELSE (out .. IndexRange - 1) \cup (0 .. in - 1)

\* As long as the input has not come round to the output each recording that waits has an
\* index in the queue.
WaitInv ==
  state = "GOING" /\ ~lapped =>
    \A k \in VoiceSlots : voice[k].complete => \E q \in Unsent : (q % MaxVoice) = k

\* Two indices of one slot are as far apart as there are slots.
LEMMA FarApart ==
  ASSUME NEW p \in 0 .. IndexRange - 1, NEW q \in 0 .. IndexRange - 1, q < p,
         (q % MaxVoice) = (p % MaxVoice)
  PROVE  p - q >= MaxVoice
<1> DEFINE d == p - q
<1>1. MaxVoice \in Nat /\ MaxVoice >= 1 /\ d \in Nat /\ d >= 1 /\ p \in Nat /\ q \in Nat
  BY RecoderLimits
<1>2. SUFFICES ASSUME d < MaxVoice
               PROVE  FALSE
  BY <1>1
<1> DEFINE r == q % MaxVoice
           u == q \div MaxVoice
           w == p \div MaxVoice
<1>3. q = MaxVoice * u + r /\ p = MaxVoice * w + r /\ u \in Int /\ w \in Int /\ r \in Int
  BY <1>1
<1>4. d = MaxVoice * (w - u)
  BY <1>1, <1>3
<1>5. w - u >= 1
  BY <1>1, <1>3, <1>4
<1>6. MaxVoice * (w - u) >= MaxVoice
  BY <1>1, <1>3, <1>5
<1> QED
  BY <1>1, <1>2, <1>4, <1>6

\* The queue after its output or its input has gone on.
LEMMA UnsentNext ==
  ASSUME in \in 0 .. IndexRange - 1, out \in 0 .. IndexRange - 1
  PROVE  /\ in # out /\ in' = in /\ out' = Next1(out) => Unsent \subseteq Unsent' \cup {out}
         /\ out' = out /\ in' = Next1(in) /\ in' # out => Unsent \cup {in} \subseteq Unsent'
         /\ in' = in /\ out' = out => Unsent' = Unsent
<1>1. IndexRange \in Nat
  BY RecoderLimits
<1>2. \A k \in 0 .. IndexRange - 1 :
        Next1(k) = IF k = IndexRange - 1 THEN 0 ELSE k + 1
  BY IndexIs
<1>3. ASSUME in # out, in' = in, out' = Next1(out)
      PROVE  Unsent \subseteq Unsent' \cup {out}
  <2>1. out' = IF out = IndexRange - 1 THEN 0 ELSE out + 1
    BY <1>2, <1>3
  <2> QED
    BY <1>1, <1>3, <2>1 DEF Unsent
<1>4. ASSUME out' = out, in' = Next1(in), in' # out
      PROVE  Unsent \cup {in} \subseteq Unsent'
  <2>1. in' = IF in = IndexRange - 1 THEN 0 ELSE in + 1
    BY <1>2, <1>4
  <2> QED
    BY <1>1, <1>4, <2>1 DEF Unsent
<1> QED
  BY <1>3, <1>4 DEF Unsent

\* A call of the timer keeps each complete recording in the queue.
LEMMA WorkWaits ==
  ASSUME RecoderTypeOK, WaitInv, Work
  PROVE  WaitInv'
<1>1. /\ InWork /\ Recording \in VoiceSlots /\ UNCHANGED <<state, in, lapped>>
  BY WorkIs
<1>2. PICK v, a, g : WorkOn(v, a, g)
  BY WorkIs
<1>3. Spared(v) /\ Uploaded(v, a, g)
  BY <1>2 DEF WorkOn
<1>4. in \in 0 .. IndexRange - 1 /\ out \in 0 .. IndexRange - 1
  BY RecoderParts DEF PlainTypes
<1>5. \A k \in VoiceSlots : v[k].complete = voice[k].complete
  BY <1>2, BegunIs DEF WorkOn
<1>6. \/ out' = out
      \/ in # out /\ out' = Next1(out) /\ out' # out
  BY <1>3, <1>4, IndexIs DEF Uploaded, UploadRests, UploadPasses, UploadLeaves, UploadSends
<1> SUFFICES ASSUME state = "GOING", ~lapped, NEW k \in VoiceSlots, voice'[k].complete
             PROVE  \E q \in Unsent' : (q % MaxVoice) = k
  BY <1>1 DEF WaitInv
<1>7. voice[k].complete
  BY <1>3, <1>5 DEF Spared
<1>8. PICK q \in Unsent : (q % MaxVoice) = k
  BY <1>7 DEF WaitInv
<1>9. CASE out' = out
  BY <1>1, <1>4, <1>8, <1>9, UnsentNext
<1>10. CASE in # out /\ out' = Next1(out) /\ out' # out
  <2>1. k # out % MaxVoice
    BY <1>3, <1>10 DEF Spared
  <2>2. q \in Unsent' \cup {out}
    BY <1>1, <1>4, <1>8, <1>10, UnsentNext
  <2> QED
    BY <1>8, <2>1, <2>2
<1> QED
  BY <1>6, <1>9, <1>10

\* A recording that has ended is waited for in the queue.
LEMMA ResultWaits ==
  ASSUME RecoderTypeOK, RunInv, WaitInv, NEW i \in VoiceSlots, Result(i)
  PROVE  WaitInv'
<1>1. in \in 0 .. IndexRange - 1 /\ out \in 0 .. IndexRange - 1 /\ voice \in [VoiceSlots -> Voice]
  BY RecoderParts DEF PlainTypes, Slotted
<1>2. out' = out /\ i # NoSlot
  BY ResultIs, SlotsAre
<1>3. CASE state' # "GOING"
  BY <1>3 DEF WaitInv
<1>4. CASE /\ state = "GOING" /\ in' = Next1(in) /\ lapped' = (lapped \/ in' = out)
           /\ \E n \in Lengths : voice' = [voice EXCEPT ![i] = Taped(voice[i], n)]
  <2>1. i = Recording
    BY <1>2, <1>4 DEF RunInv, Result
  <2> SUFFICES ASSUME ~lapped', NEW k \in VoiceSlots, voice'[k].complete
               PROVE  \E q \in Unsent' : (q % MaxVoice) = k
    BY DEF WaitInv
  <2>2. Unsent \cup {in} \subseteq Unsent' /\ ~lapped
    BY <1>1, <1>2, <1>4, UnsentNext
  <2>3. CASE k = i
    BY <2>1, <2>2, <2>3 DEF Recording
  <2>4. CASE k # i
    <3>1. voice[k].complete
      BY <1>1, <1>4, <2>4, TapedIs
    <3>2. PICK q \in Unsent : (q % MaxVoice) = k
      BY <1>4, <2>2, <3>1 DEF WaitInv
    <3> QED
      BY <2>2, <3>2
  <2> QED
    BY <2>3, <2>4
<1>5. state = "BROK" => FALSE
  BY <1>2 DEF RunInv, Result
<1> QED
  BY <1>3, <1>4, <1>5, ResultIs

\* Every step keeps each complete recording in the queue.
LEMMA WaitStep ==
  /\ ~LateResult /\ RecoderTypeOK /\ RunInv /\ WaitInv /\ [RecoderNext]_recoderVars => WaitInv'
<1> SUFFICES ASSUME RecoderTypeOK, RunInv, WaitInv, [RecoderNext]_recoderVars
             PROVE  WaitInv'
  OBVIOUS
<1>1. CASE UNCHANGED recoderVars \/ Lost \/ Bearer \/ \E b \in BOOLEAN : StopIdle(b)
  BY <1>1 DEF recoderVars, ring, net, WaitInv, Unsent, Lost, Bearer, StopIdle
<1>2. CASE Destroy \/ \E b \in BOOLEAN : StartRecode(b)
  BY <1>2 DEF Destroy, StartRecode, ControlInit, WaitInv
<1>3. CASE FileCreate
  <2>1. \A k \in VoiceSlots : ~voice[k].complete /\ voice[k] \in Voice
    BY <1>3, RecoderParts DEF FileCreate, RunInv, Slotted
  <2>2. \A k \in VoiceSlots : ~voice'[k].complete
    BY <1>3, <2>1, FileCreateIs DEF FileCreate
  <2> QED
    BY <2>2 DEF WaitInv
<1>4. CASE \E a \in acks : SendAck(a)
  <2>1. PICK a \in acks : SendAck(a)
    BY <1>4
  <2>2. UNCHANGED <<state, in, out, lapped>>
    BY <2>1, SendAckIs
  <2>3. voice[sendIndex] \in Voice /\ sendIndex \in VoiceSlots /\ voice \in [VoiceSlots -> Voice]
    BY RecoderParts DEF PlainTypes, Slotted
  <2> DEFINE y == [voice[sendIndex] EXCEPT !.ack = voice[sendIndex].ack \ {a.pack}]
  <2>4. y \in Voice /\ y.complete = voice[sendIndex].complete
    BY <2>3, VoiceWith, VoiceIs DEF Voice
  <2>5. voice' \in {voice, [voice EXCEPT ![sendIndex] = y]}
    BY <2>1, SendAckIs
  <2> HIDE DEF y
  <2>6. \A k \in VoiceSlots : voice'[k].complete = voice[k].complete
    BY <2>3, <2>4, <2>5, OneSlot
  <2> QED
    BY <2>2, <2>6 DEF WaitInv, Unsent
<1> QED
  BY <1>1, <1>2, <1>3, <1>4, WorkWaits, ResultWaits
     DEF RecoderNext, Timer, StopRecode, FailProc

\* A recording that begins is over one that waits only as NoOverwrite says.
LEMMA OverwriteStep ==
  ASSUME RecoderTypeOK, RunInv, WaitInv, [RecoderNext]_recoderVars
  PROVE  [\A i \in VoiceSlots : voice'[i].over /\ ~voice[i].over =>
            in - out >= MaxVoice \/ in < out \/ lapped]_recoderVars
<1> SUFFICES ASSUME RecoderNext, NEW i \in VoiceSlots, voice'[i].over, ~voice[i].over,
                    in >= out, ~lapped
             PROVE  in - out >= MaxVoice
  <2>1. in \in Int /\ out \in Int /\ lapped \in BOOLEAN
    BY RecoderParts DEF PlainTypes
  <2> QED
    BY <2>1
<1>1. /\ in \in 0 .. IndexRange - 1 /\ out \in 0 .. IndexRange - 1
      /\ voice \in [VoiceSlots -> Voice] /\ voice[i] \in Voice
  BY RecoderParts DEF PlainTypes, Slotted
<1>2. CASE Work
  <2>1. PICK v, a, g : WorkOn(v, a, g)
    BY <1>2, WorkIs
  <2>2. InWork /\ Spared(v)
    BY <1>2, <2>1, WorkIs DEF WorkOn
  <2>3. CASE Begun(v, a, g)
    <3>1. i = Recording /\ voice[i].complete
      <4>1. CASE mic' = i
        <5>1. i = Recording /\ v[i].over = voice[i].complete /\ v[i].complete = voice[i].complete
          BY <2>3, <4>1, BegunIs DEF Begun
        <5>2. v[i].over
          BY <2>2, <5>1 DEF Spared
        <5> QED
          BY <5>1, <5>2
      <4>2. CASE mic' # i
        <5>1. v[i].over /\ i # Recording
          BY <2>2, <2>3, <4>2 DEF Spared, Begun
        <5> QED
          BY <2>3, <5>1, BegunIs
      <4> QED
        BY <4>1, <4>2
    <3>2. PICK q \in Unsent : (q % MaxVoice) = i
      BY <2>2, <3>1 DEF InWork, WaitInv
    <3>3. q \in out .. in - 1
      BY <1>1 DEF Unsent
    <3>4. q \in 0 .. IndexRange - 1 /\ q < in /\ (q % MaxVoice) = (in % MaxVoice)
      BY <1>1, <3>1, <3>2, <3>3, RecoderLimits DEF Recording
    <3>5. in - q >= MaxVoice
      BY <1>1, <3>4, FarApart
    <3> QED
      BY <1>1, <3>3, <3>5, RecoderLimits
  <2>4. CASE Halted /\ v = voice
    <3>1. mic' = i => Ended(voice[i])
      <4>1. i # NoSlot
        BY SlotsAre
      <4>2. mic' = i => mic = i
        BY <2>4, <4>1 DEF Halted
      <4> QED
        BY <2>2, <4>2 DEF RunInv, InWork
    <3>2. v[i].over
      BY <2>2, <2>4, <3>1 DEF Spared, Ended
    <3> QED
      BY <2>4, <3>2
  <2> QED
    BY <2>1, <2>3, <2>4 DEF WorkOn
<1>3. CASE Destroy \/ \E b \in BOOLEAN : StartRecode(b)
  BY <1>3, BlankIs DEF Destroy, StartRecode, ControlInit
<1>4. CASE Lost \/ Bearer \/ \E b \in BOOLEAN : StopIdle(b)
  BY <1>4 DEF Lost, Bearer, StopIdle
<1>5. CASE FileCreate
  <2>1. voice'[i] = [voice[i] EXCEPT !.size = NoVoice, !.open = FALSE]
    BY <1>5 DEF FileCreate
  <2> QED
    BY <1>1, <2>1 DEF Voice
<1>6. CASE \E k \in VoiceSlots : Result(k)
  <2>1. PICK k \in VoiceSlots : Result(k)
    BY <1>6
  <2>2. \/ voice' = voice
        \/ \E n \in Lengths : voice' = [voice EXCEPT ![k] = Taped(voice[k], n)]
        \/ voice' = [voice EXCEPT ![k] = BlankSlot]
    BY <2>1, ResultIs
  <2>3. voice[k] \in Voice
    BY <1>1
  <2>4. \A n \in Lengths : Taped(voice[k], n).over = voice[k].over
    BY <2>3, TapedIs
  <2> QED
    BY <1>1, <2>2, <2>4, BlankIs
<1>7. CASE \E a \in acks : SendAck(a)
  <2>1. PICK a \in acks : SendAck(a)
    BY <1>7
  <2>3. voice[sendIndex] \in Voice /\ sendIndex \in VoiceSlots /\ voice \in [VoiceSlots -> Voice]
    BY RecoderParts DEF PlainTypes, Slotted
  <2> DEFINE y == [voice[sendIndex] EXCEPT !.ack = voice[sendIndex].ack \ {a.pack}]
  <2>4. y \in Voice /\ y.over = voice[sendIndex].over
    BY <2>3, VoiceWith, VoiceIs DEF Voice
  <2>5. voice' \in {voice, [voice EXCEPT ![sendIndex] = y]}
    BY <2>1, SendAckIs
  <2> HIDE DEF y
  <2> QED
    BY <2>3, <2>4, <2>5, OneSlot
<1> QED
  BY <1>2, <1>3, <1>4, <1>5, <1>6, <1>7 DEF RecoderNext, Timer, StopRecode, FailProc

\* The recordings that wait are in the queue.
THEOREM QueueHoldsAll == ~LateResult /\ RecoderSpec => []WaitInv
<1> SUFFICES ASSUME ~LateResult
             PROVE  RecoderSpec => []WaitInv
  OBVIOUS
<1>1. RecoderTypeOK /\ RunInv /\ WaitInv /\ [RecoderNext]_recoderVars => WaitInv'
  BY WaitStep
<1>2. RecoderInit => WaitInv
  BY DEF RecoderInit, WaitInv
<1>3. RecoderSpec => []RunInv
  BY OneRecording
<1> QED
  BY <1>1, <1>2, <1>3, RecoderTypes, PTL DEF RecoderSpec

\* A recording that waits is only recorded over when the queue is full or out of step.
THEOREM OverwritesWhenFull == ~LateResult /\ RecoderSpec => NoOverwrite
<1> SUFFICES ASSUME ~LateResult
             PROVE  RecoderSpec => NoOverwrite
  OBVIOUS
<1>1. RecoderTypeOK /\ RunInv /\ WaitInv /\ [RecoderNext]_recoderVars =>
        [\A i \in VoiceSlots : voice'[i].over /\ ~voice[i].over =>
           in - out >= MaxVoice \/ in < out \/ lapped]_recoderVars
  BY OverwriteStep
<1>2. RecoderSpec => []RunInv
  BY OneRecording
<1>3. RecoderSpec => []WaitInv
  BY QueueHoldsAll
<1> QED
  BY <1>1, <1>2, <1>3, RecoderTypes, PTL DEF RecoderSpec, NoOverwrite

-----------------------------------------------------------------------------
(* What the server answered it has.                                        *)

\* Sent, and what the packs of a recording are told apart by: the second it began.
SentInv ==
  /\ Sent(voice, acks, got)
  /\ status = "WORK" => Dated(voice)
  /\ state = "GOING" /\ status = "WORK" =>
       /\ \A i \in due : voice[i].time # 0
       /\ mic # NoSlot => voice[mic].over \/ voice[mic].time # 0
       /\ mic # NoSlot => (voice[mic].lock \/ voice[mic].complete => voice[mic].time # 0)

\* Slots that are all empty.
LEMMA BlankSent ==
  ASSUME NEW a, a \subseteq Ack
  PROVE  /\ Sent([i \in VoiceSlots |-> BlankSlot], a, {})
         /\ Dated([i \in VoiceSlots |-> BlankSlot])
<1> DEFINE v == [i \in VoiceSlots |-> BlankSlot]
<1>1. \A i \in VoiceSlots : v[i] = BlankSlot
  OBVIOUS
<1>2. v \in [VoiceSlots -> Voice]
  BY BlankIs
<1> HIDE DEF v
<1>3. \A i \in VoiceSlots : ~v[i].complete /\ v[i].time = 0 /\ ~v[i].open
  BY <1>1, BlankIs
<1>4. Slotted(v, a, {})
  BY <1>2 DEF Slotted
<1>5. Sent(v, a, {}) /\ Dated(v)
  BY <1>3, <1>4 DEF Sent, Kept, Apart, Heard, Awaited, Dated
<1> QED
  BY <1>5 DEF v

\* A recording begins at a second that no other has, and the answers to one that began at
\* the same second are out of the way.
LEMMA BegunSent ==
  ASSUME Distinct, RecoderTypeOK, SentInv, InWork, NEW v, NEW a, NEW g, Slotted(v, a, g),
         Begun(v, a, g)
  PROVE  Sent(v, a, g) /\ Dated(v) /\ v[Recording].time # 0
<1>1. /\ Recording \in VoiceSlots
      /\ v[Recording].lock /\ v[Recording].complete = voice[Recording].complete
      /\ v[Recording].over = voice[Recording].complete
      /\ v[Recording].open = voice[Recording].open
      /\ \A k \in VoiceSlots \ {Recording} : v[k] = voice[k]
  BY BegunIs
<1>2. PICK t \in Times :
        /\ v = [voice EXCEPT ![Recording] = Fresher(voice[Recording], t)]
        /\ a = {x \in acks : Distinct => x.time # t}
        /\ g = {x \in got : x[1] # Recording}
        /\ MayBegin(Recording, t)
  BY DEF Begun
<1>3. t # 0 /\ \A k \in VoiceSlots \ {Recording} : voice[k].time # t
  BY <1>2 DEF MayBegin
<1>4. v[Recording].time = t
  <2>1. voice \in [VoiceSlots -> Voice] /\ voice[Recording] \in Voice
    BY <1>1, RecoderParts DEF Slotted
  <2>2. v[Recording] = Fresher(voice[Recording], t)
    BY <1>1, <1>2, <2>1
  <2> QED
    BY <2>1, <2>2, FresherIs
<1>5. /\ Slotted(voice, acks, got) /\ Kept(voice) /\ Apart(voice) /\ Heard(voice, acks, got)
      /\ Awaited(voice, got) /\ Dated(voice)
  BY DEF SentInv, Sent, InWork
<1>6. Kept(v)
  BY <1>1, <1>5 DEF Kept
<1>7. Apart(v)
  BY <1>1, <1>3, <1>4, <1>5 DEF Apart
<1>8. Heard(v, a, g)
  <2> SUFFICES ASSUME NEW x \in a, NEW i \in VoiceSlots, x.time # 0, v[i].time = x.time
               PROVE  <<i, x.pack>> \in g
    BY DEF Heard
  <2>1. x \in acks /\ x.time # t
    BY <1>2
  <2>2. i # Recording
    BY <1>4, <2>1
  <2>3. <<i, x.pack>> \in got
    BY <1>1, <1>5, <2>1, <2>2 DEF Heard
  <2> QED
    BY <1>2, <2>2, <2>3
<1>9. Awaited(v, g)
  <2> SUFFICES ASSUME NEW i \in VoiceSlots, v[i].open, ~v[i].over
               PROVE  /\ v[i].time # 0
                      /\ \A j \in 0 .. v[i].size - 1 : j \in v[i].ack \/ <<i, j>> \in g
    BY DEF Awaited
  <2>1. i # Recording
    BY <1>1, <1>5 DEF Kept
  <2>2. v[i] = voice[i]
    BY <1>1, <2>1
  <2>3. /\ v[i].time # 0
        /\ \A j \in 0 .. v[i].size - 1 : j \in v[i].ack \/ <<i, j>> \in got
    BY <1>5, <2>2 DEF Awaited
  <2>4. \A j : <<i, j>> \in got => <<i, j>> \in g
    BY <1>2, <2>1
  <2> QED
    BY <2>3, <2>4
<1>10. Dated(v)
  BY <1>1, <1>3, <1>4, <1>5 DEF Dated
<1> QED
  BY <1>3, <1>4, <1>6, <1>7, <1>8, <1>9, <1>10 DEF Sent

\* A pack that is sent is the next of its recording; a file is given up when all have arrived.
LEMMA WorkSent ==
  ASSUME Distinct, RecoderTypeOK, RunInv, SentInv, Work
  PROVE  SentInv'
<1>1. InWork /\ Recording \in VoiceSlots /\ UNCHANGED <<state, in>> /\ out % MaxVoice \in VoiceSlots
  BY WorkIs, RecoderParts, IndexIs DEF PlainTypes
<1>2. PICK v, a, g : WorkOn(v, a, g)
  BY WorkIs
<1>3. Slotted(v, a, g) /\ Spared(v) /\ Uploaded(v, a, g)
  BY <1>2 DEF WorkOn
<1>4. /\ state = "GOING" /\ status = "WORK" /\ state' = "GOING"
      /\ mic \in {NoSlot, Recording} /\ due \subseteq {Recording}
      /\ \A i \in VoiceSlots : i \in due \/ mic = i => Ended(voice[i])
      /\ \A i \in due : voice[i].lock /\ ~voice[i].complete
  BY <1>1 DEF RunInv, InWork
<1>5. CASE Begun(v, a, g)
  <2>1. Sent(v, a, g) /\ Dated(v) /\ v[Recording].time # 0
    BY <1>1, <1>3, <1>5, BegunSent
  <2>2. mic' = Recording /\ due' = due /\ Recording \notin due
    BY <1>4, <1>5 DEF Begun
  <2>3. v[Recording].complete => v[Recording].over
    BY <1>5, BegunIs
  <2>4. Sent(voice', acks', got') /\ Dated(voice')
    BY <1>1, <1>3, <2>1, <2>2, <2>3, UploadKeeps DEF Uploaded
  <2>5. /\ voice'[Recording].over \/ voice'[Recording].time = v[Recording].time
        /\ voice'[Recording].lock \/ voice'[Recording].complete =>
             voice'[Recording].time = v[Recording].time
    BY <1>1, <1>3, <2>2 DEF Spared
  <2>6. due' = {}
    BY <1>4, <2>2
  <2> QED
    BY <2>1, <2>2, <2>4, <2>5, <2>6 DEF SentInv
<1>6. CASE Halted /\ v = voice /\ a = acks /\ g = got
  <2>1. Sent(voice, acks, got) /\ Dated(voice)
    BY <1>4 DEF SentInv
  <2>2. mic' \in {mic, NoSlot} /\ NoSlot \notin VoiceSlots
    BY <1>6, SlotsAre DEF Halted
  <2>3. mic' \in VoiceSlots => (voice[mic'].complete => voice[mic'].over)
    BY <1>4, <2>2 DEF Ended
  <2>4. Sent(voice', acks', got') /\ Dated(voice')
    BY <1>1, <1>3, <1>6, <2>1, <2>3, UploadKeeps DEF Uploaded
  <2>5. status' = "WORK" => \A i \in due' : voice'[i].time # 0
    <3> SUFFICES ASSUME status' = "WORK", NEW i \in due'
                 PROVE  voice'[i].time # 0
      OBVIOUS
    <3>1. i \in due \/ (i = mic /\ mic # NoSlot)
      <4>1. due' \subseteq due \cup (IF mic = NoSlot THEN {} ELSE {mic})
        BY <1>6 DEF Halted
      <4> QED
        BY <4>1
    <3>2. due' = due \/ (voice[Recording].lock /\ ~voice[Recording].complete)
      <4>1. \/ due' = due \/ status' = "FAIL"
            \/ voice[Recording].lock /\ ~voice[Recording].complete
        BY <1>6, Zenon DEF Halted
      <4>2. status' # "FAIL"
        OBVIOUS
      <4> QED
        BY <4>1, <4>2
    <3>3. i = Recording /\ voice[i].lock /\ ~voice[i].complete
      BY <1>4, <3>1, <3>2
    <3>4. voice[i].time # 0
      BY <1>4, <3>1, <3>3 DEF SentInv
    <3> QED
      BY <1>1, <1>3, <1>6, <3>3, <3>4 DEF Spared
  <2>6. mic' # NoSlot => /\ voice'[mic'].over \/ voice'[mic'].time # 0
                         /\ voice'[mic'].lock \/ voice'[mic'].complete => voice'[mic'].time # 0
    <3> SUFFICES ASSUME mic' # NoSlot
                 PROVE  /\ voice'[mic'].over \/ voice'[mic'].time # 0
                        /\ voice'[mic'].lock \/ voice'[mic'].complete => voice'[mic'].time # 0
      OBVIOUS
    <3>1. mic' = mic /\ mic = Recording
      BY <1>4, <2>2
    <3>2. voice[mic].over \/ voice[mic].time # 0
      BY <1>4, <3>1 DEF SentInv
    <3>3. voice[mic].lock \/ voice[mic].complete => voice[mic].time # 0
      BY <1>4, <3>1 DEF SentInv
    <3>4. /\ voice'[mic].over \/ voice'[mic].time = voice[mic].time
          /\ voice[mic].over => voice'[mic].over
          /\ voice'[mic].lock \/ voice'[mic].complete =>
               voice'[mic].time = voice[mic].time /\ (voice[mic].lock \/ voice[mic].complete)
      BY <1>1, <1>3, <1>6, <3>1 DEF Spared
    <3> QED
      BY <3>1, <3>2, <3>3, <3>4
  <2> QED
    BY <2>4, <2>5, <2>6 DEF SentInv
<1> QED
  BY <1>2, <1>5, <1>6 DEF WorkOn

\* The report of a recording leaves what has been sent alone.
LEMMA ResultSent ==
  ASSUME RecoderTypeOK, RunInv, SentInv, NEW i \in VoiceSlots, Result(i)
  PROVE  SentInv'
<1>1. /\ \/ i \in due /\ due' = due \ {i} /\ mic' = mic
         \/ i \notin due /\ mic = i /\ mic' = NoSlot /\ due' = due
      /\ status' = status /\ acks' = acks /\ got' = got /\ i # NoSlot
  BY ResultIs, SlotsAre DEF net
<1>2. Sent(voice, acks, got) /\ voice \in [VoiceSlots -> Voice] /\ voice[i] \in Voice
  BY DEF SentInv, Sent, Slotted
<1>3. CASE state \in {"IDLE", "INIT"} /\ UNCHANGED <<state, begun, in, lapped, voice>>
  BY <1>1, <1>3 DEF SentInv
<1>4. CASE state = "GOING"
  <2>1. mic' = NoSlot /\ due' = {}
    BY <1>1, <1>4 DEF RunInv
  <2>2. voice[i].complete => voice[i].over
    BY <1>1, <1>4 DEF RunInv, Ended
  <2>3. voice[i].open => voice[i].over
    BY <1>2, <2>2 DEF Sent, Kept
  <2>4. status = "WORK" => voice[i].over \/ voice[i].time # 0
    BY <1>1, <1>4 DEF SentInv
  <2>5. CASE \E n \in Lengths : voice' = [voice EXCEPT ![i] = Taped(voice[i], n)]
    <3>1. PICK n \in Lengths : voice' = [voice EXCEPT ![i] = Taped(voice[i], n)]
      BY <2>5
    <3> DEFINE y == Taped(voice[i], n)
    <3>2. /\ y \in Voice /\ y.complete /\ y.open = voice[i].open
          /\ y.time = voice[i].time /\ y.over = voice[i].over
      BY <1>2, TapedIs
    <3>3. voice' = [voice EXCEPT ![i] = y]
      BY <3>1
    <3> HIDE DEF y
    <3>4. Sent(voice', acks, got)
      BY <1>2, <2>3, <3>2, <3>3, SentSlot
    <3>5. voice'[i] = y /\ \A k \in VoiceSlots \ {i} : voice'[k] = voice[k]
      BY <1>2, <3>2, <3>3, OneSlot
    <3>6. status = "WORK" => Dated(voice')
      BY <2>4, <3>2, <3>5 DEF SentInv, Dated
    <3> QED
      BY <1>1, <2>1, <3>4, <3>6 DEF SentInv
  <2>6. CASE voice' = [voice EXCEPT ![i] = BlankSlot]
    <3>1. Sent(voice', acks, got)
      BY <1>2, <2>6, BlankIs, SentSlot
    <3>2. voice'[i] = BlankSlot /\ \A k \in VoiceSlots \ {i} : voice'[k] = voice[k]
      BY <1>2, <2>6
    <3>3. status = "WORK" => Dated(voice')
      BY <3>2, BlankIs DEF SentInv, Dated
    <3> QED
      BY <1>1, <2>1, <3>1, <3>3 DEF SentInv
  <2>7. CASE voice' = voice
    BY <1>1, <2>1, <2>7 DEF SentInv
  <2> QED
    BY <1>4, <2>5, <2>6, <2>7, ResultIs
<1>5. state # "BROK"
  BY <1>1 DEF RunInv
<1> QED
  BY <1>3, <1>4, <1>5, ResultIs

\* The server's answer is about a pack it has.
LEMMA AckSent ==
  ASSUME RecoderTypeOK, SentInv, NEW m \in acks, SendAck(m)
  PROVE  SentInv'
<1>1. /\ acks' = acks \ {m} /\ UNCHANGED <<status, state, mic, due, got>>
  BY SendAckIs
<1>2. sendIndex \in VoiceSlots /\ voice[sendIndex] \in Voice /\ voice \in [VoiceSlots -> Voice]
  BY RecoderParts DEF PlainTypes, Slotted
<1>3. Slotted(voice, acks', got)
  BY <1>1 DEF SentInv, Sent, Slotted
<1>4. Sent(voice, acks', got)
  BY <1>1, <1>3 DEF SentInv, Sent, Heard
<1>5. CASE voice' = voice
  BY <1>1, <1>4, <1>5 DEF SentInv
<1>6. CASE /\ voice[sendIndex].time = m.time
           /\ voice' = [voice EXCEPT ![sendIndex] =
                              [voice[sendIndex] EXCEPT !.ack = voice[sendIndex].ack \ {m.pack}]]
  <2> DEFINE x == voice[sendIndex]
             y == [voice[sendIndex] EXCEPT !.ack = voice[sendIndex].ack \ {m.pack}]
  <2>1. y \in Voice
    BY <1>2, VoiceWith, VoiceIs
  <2>2. /\ y.open = x.open /\ y.complete = x.complete /\ y.over = x.over /\ y.time = x.time
        /\ y.lock = x.lock /\ y.size = x.size /\ y.ack = x.ack \ {m.pack}
    BY <1>2 DEF Voice
  <2>3. voice' = [voice EXCEPT ![sendIndex] = y] /\ x.time = m.time /\ x = voice[sendIndex]
    BY <1>6
  <2> HIDE DEF x, y
  <2>4. y.open => y.complete
    BY <1>2, <2>2, <2>3 DEF SentInv, Sent, Kept
  <2>5. ASSUME y.open, ~y.over
        PROVE  y.time # 0 /\ \A j \in 0 .. y.size - 1 : j \in y.ack \/ <<sendIndex, j>> \in got
    <3>1. x.time # 0 /\ \A j \in 0 .. x.size - 1 : j \in x.ack \/ <<sendIndex, j>> \in got
      BY <1>2, <2>2, <2>3, <2>5 DEF SentInv, Sent, Awaited
    <3>2. <<sendIndex, m.pack>> \in got
      BY <1>2, <2>3, <3>1 DEF SentInv, Sent, Heard
    <3> QED
      BY <2>2, <3>1, <3>2
  <2>6. Sent(voice', acks', got)
    BY <1>2, <1>4, <2>1, <2>2, <2>3, <2>4, <2>5, SentSlot
  <2>7. \A k \in VoiceSlots : /\ voice'[k].complete = voice[k].complete
                              /\ voice'[k].over = voice[k].over /\ voice'[k].lock = voice[k].lock
                              /\ voice'[k].time = voice[k].time
    BY <1>2, <2>1, <2>2, <2>3, OneSlot
  <2>8. status = "WORK" => Dated(voice')
    BY <2>7 DEF SentInv, Dated
  <2>9. due \subseteq VoiceSlots /\ mic \in VoiceSlots \cup {NoSlot}
    BY RecoderParts DEF PlainTypes
  <2> QED
    BY <1>1, <2>6, <2>7, <2>8, <2>9 DEF SentInv
<1> QED
  BY <1>5, <1>6, SendAckIs

\* Every step keeps what the server has and what is waited for together.
LEMMA SentStep ==
  ASSUME Distinct, ~LateResult, RecoderTypeOK, RunInv, SentInv, [RecoderNext]_recoderVars
  PROVE  SentInv'
<1>1. CASE UNCHANGED recoderVars
  BY <1>1 DEF recoderVars, ring, net, SentInv
<1>2. CASE Bearer \/ \E b \in BOOLEAN : StopIdle(b)
  <2>1. UNCHANGED <<voice, acks, got, state, mic, due>> /\ (status' = status \/ state # "GOING")
    BY <1>2 DEF Bearer, StopIdle, net, ring
  <2>2. status' = status
    BY <1>2 DEF Bearer, StopIdle
  <2> QED
    BY <2>1, <2>2 DEF SentInv
<1>3. CASE Lost
  <2>1. UNCHANGED <<voice, got, status, state, mic, due>> /\ acks' = {}
    BY <1>3 DEF Lost
  <2>2. Sent(voice, {}, got)
    BY DEF SentInv, Sent, Slotted, Heard
  <2> QED
    BY <2>1, <2>2 DEF SentInv
<1>4. CASE Destroy \/ \E b \in BOOLEAN : StartRecode(b)
  <2>1. ControlInit /\ acks' = acks /\ state' = "INIT"
    BY <1>4 DEF Destroy, StartRecode, ControlInit
  <2>2. acks \subseteq Ack
    BY DEF SentInv, Sent, Slotted
  <2>3. Sent(voice', acks', got') /\ Dated(voice')
    BY <2>1, <2>2, BlankSent DEF ControlInit
  <2> QED
    BY <2>1, <2>3 DEF SentInv
<1>5. CASE FileCreate
  <2>1. /\ \A k \in VoiceSlots : ~voice[k].complete /\ voice[k] \in Voice
        /\ mic = NoSlot /\ voice \in [VoiceSlots -> Voice]
    BY <1>5, RecoderParts DEF FileCreate, RunInv, Slotted
  <2>2. \A k \in VoiceSlots : /\ ~voice'[k].complete /\ voice'[k] \in Voice
                              /\ voice'[k].time = voice[k].time /\ ~voice'[k].open
    BY <1>5, <2>1, FileCreateIs DEF FileCreate
  <2>3. voice' \in [VoiceSlots -> Voice] /\ UNCHANGED <<acks, got>> /\ mic' = NoSlot /\ due' = {}
    BY <1>5, <2>1, <2>2 DEF FileCreate, net
  <2>4. Slotted(voice', acks', got') /\ Kept(voice') /\ Awaited(voice', got') /\ Dated(voice')
    BY <2>2, <2>3 DEF SentInv, Sent, Slotted, Kept, Awaited, Dated
  <2>5. Apart(voice') /\ Heard(voice', acks', got')
    BY <2>2, <2>3 DEF SentInv, Sent, Apart, Heard
  <2> QED
    BY <2>3, <2>4, <2>5 DEF SentInv, Sent
<1> QED
  BY <1>1, <1>2, <1>3, <1>4, <1>5, WorkSent, ResultSent, AckSent
     DEF RecoderNext, Timer, StopRecode, FailProc

\* What of a recording is not waited for the server has.
THEOREM WhatIsSentArrives == Distinct /\ ~LateResult /\ RecoderSpec => []SentInv
<1> SUFFICES ASSUME Distinct, ~LateResult
             PROVE  RecoderSpec => []SentInv
  OBVIOUS
<1>1. RecoderTypeOK /\ RunInv /\ SentInv /\ [RecoderNext]_recoderVars => SentInv'
  BY SentStep
<1>2. RecoderInit => SentInv
  BY BlankSent DEF RecoderInit, SentInv
<1>3. RecoderSpec => []RunInv
  BY OneRecording
<1> QED
  BY <1>1, <1>2, <1>3, RecoderTypes, PTL DEF RecoderSpec

\* A file that leaves the ring answered has arrived.
THEOREM NothingAnsweredIsMissing == Distinct /\ ~LateResult /\ RecoderSpec => []AckedWasReceived
<1> SUFFICES ASSUME Distinct, ~LateResult
             PROVE  RecoderSpec => []AckedWasReceived
  OBVIOUS
<1>1. SentInv => AckedWasReceived
  BY DEF SentInv, Sent, Awaited, AckedWasReceived
<1>2. RecoderSpec => []SentInv
  BY WhatIsSentArrives
<1> QED
  BY <1>1, <1>2, PTL

-----------------------------------------------------------------------------
(* The aiding data: Agps.                                                  *)

\* What the bounds are, as the proofs of the service need it.
LEMMA AidingLimits ==
  /\ Blocks \in Nat /\ Blocks >= 1 /\ Skip \in Nat /\ MaxFlag \in Nat /\ MaxFlag >= 1
  /\ MaxLoss \in Nat /\ MaxBoot \in Nat
  BY AidingAssumption

AidingStatus == {"init", "connecting", "work", "finish", "error"}

\* What is asked and answered: the time, or a block by its number.
Blocked == 1 .. Skip + 2 * Blocks
Request == [what : {"time"}, at : {0}] \cup [what : {"file"}, at : Blocked]
Reply == [what : {"time"}, flag : 1 .. MaxFlag, at : {0}]
           \cup [what : {"file"}, flag : 1 .. MaxFlag, at : Blocked]

\* The values of the service's record.
Service ==
  [status : AidingStatus, link : {"none", "opening", "up"}, timing : BOOLEAN,
   flag : 0 .. MaxFlag, start : Nat \ {0}, total : {0, Blocks}, data : Aiding!File,
   inuse : Aiding!File \cup {NoFile}, asked : Seq(Request), fifo : Seq(Reply), old : Nat]

\* The fields of the record.
LEMMA ServiceIs ==
  ASSUME NEW x \in Service
  PROVE  /\ x.status \in AidingStatus /\ x.link \in {"none", "opening", "up"}
         /\ x.timing \in BOOLEAN /\ x.flag \in 0 .. MaxFlag /\ x.start \in Nat \ {0}
         /\ x.total \in {0, Blocks} /\ x.data \in Aiding!File
         /\ x.inuse \in Aiding!File \cup {NoFile} /\ x.asked \in Seq(Request)
         /\ x.fifo \in Seq(Reply) /\ x.old \in Nat
  BY DEF Service

\* What of the record says how far the file has come.
SameFetch(y, x) ==
  /\ y.flag = x.flag /\ y.start = x.start /\ y.total = x.total /\ y.data = x.data
  /\ y.inuse = x.inuse /\ y.fifo = x.fifo

\* A connection that is closed takes its requests with it; what was answered stays.
LEMMA CloseIs ==
  ASSUME NEW x \in Service, NEW st \in AidingStatus
  PROVE  LET y == [Aiding!Close(x) EXCEPT !.status = st]
         IN  /\ y \in Service /\ SameFetch(y, x) /\ y.timing = x.timing
             /\ y.status = st /\ y.link = "none" /\ y.asked = <<>> /\ y.old = Len(y.fifo)
<1> DEFINE n == Len(x.fifo)
           y == [x EXCEPT !.link = "none", !.asked = <<>>, !.old = n, !.status = st]
<1>1. n \in Nat /\ <<>> \in Seq(Request)
  BY ServiceIs, LenProperties
<1> HIDE DEF n
<1>2. y \in Service
  BY <1>1 DEF Service
<1>3. [Aiding!Close(x) EXCEPT !.status = st] = y
  BY DEF Aiding!Close, n, Service
<1>4. /\ SameFetch(y, x) /\ y.timing = x.timing
      /\ y.status = st /\ y.link = "none" /\ y.asked = <<>> /\ y.old = n
  BY DEF Service, SameFetch
<1>5. n = Len(y.fifo)
  BY <1>4 DEF SameFetch, n
<1> QED
  BY <1>2, <1>3, <1>4, <1>5

\* The same for agps_service_close_for_reconnect.
LEMMA FinishIs ==
  ASSUME NEW x \in Service
  PROVE  LET y == Aiding!Finish(x)
         IN  /\ y \in Service /\ SameFetch(y, x) /\ y.timing = x.timing
             /\ y.status = "finish" /\ y.link = "none" /\ y.asked = <<>> /\ y.old = Len(y.fifo)
<1>1. "finish" \in AidingStatus
  BY DEF AidingStatus
<1> QED
  BY <1>1, CloseIs DEF Aiding!Finish

\* A request is the last that waits for its answer, or the connection is closed.
LEMMA SendIs ==
  ASSUME NEW x \in Service, NEW q \in Request
  PROVE  LET y == Aiding!Send(x, q)
         IN  /\ y \in Service /\ SameFetch(y, x) /\ y.timing = x.timing
             /\ \/ /\ x.status = "work" /\ y.status = "work" /\ y.asked = Append(x.asked, q)
                   /\ y.old = x.old /\ y.link = x.link
                \/ /\ x.status # "work" /\ y.status = "finish" /\ y.asked = <<>>
                   /\ y.old = Len(y.fifo) /\ y.link = "none"
<1>1. CASE x.status = "work"
  <2> DEFINE z == Append(x.asked, q)
             y == [x EXCEPT !.asked = z]
  <2>1. z \in Seq(Request)
    BY ServiceIs, AppendProperties
  <2>2. Aiding!Send(x, q) = y
    BY <1>1 DEF Aiding!Send, Service
  <2> HIDE DEF z
  <2>3. y \in Service
    BY <2>1 DEF Service
  <2>4. /\ SameFetch(y, x) /\ y.timing = x.timing /\ y.status = x.status /\ y.asked = z
        /\ y.old = x.old /\ y.link = x.link
    BY DEF Service, SameFetch
  <2> QED
    BY <1>1, <2>2, <2>3, <2>4 DEF z
<1>2. CASE x.status # "work"
  BY <1>2, FinishIs DEF Aiding!Send
<1> QED
  BY <1>1, <1>2

\* A record with other values of some fields.
LEMMA ServiceWith ==
  ASSUME NEW x \in Service
  PROVE  /\ \A t \in BOOLEAN : [x EXCEPT !.timing = t] \in Service
         /\ \A f \in Aiding!File \cup {NoFile} : [x EXCEPT !.inuse = f] \in Service
         /\ \A d \in Aiding!File, n \in Nat \ {0} :
              [x EXCEPT !.data = d, !.start = n] \in Service
         /\ [x EXCEPT !.flag = 0, !.total = 0, !.start = 1] \in Service
         /\ \A n \in Nat \ {0}, f \in 0 .. MaxFlag, d \in Aiding!File :
              [x EXCEPT !.start = n, !.flag = f, !.total = Blocks, !.data = d] \in Service
         /\ \A q \in Seq(Reply), n \in Nat : [x EXCEPT !.fifo = q, !.old = n] \in Service
         /\ \A a \in Seq(Request), q \in Seq(Reply) :
              [x EXCEPT !.asked = a, !.fifo = q] \in Service
         /\ \A l \in {"none", "opening", "up"}, st \in AidingStatus :
              [x EXCEPT !.status = st, !.link = l] \in Service
<1>1. 0 \in 0 .. MaxFlag /\ 1 \in Nat \ {0}
  BY AidingLimits
<1>2. \A t \in BOOLEAN : [x EXCEPT !.timing = t] \in Service
  BY DEF Service
<1>3. \A f \in Aiding!File \cup {NoFile} : [x EXCEPT !.inuse = f] \in Service
  BY DEF Service
<1>4. \A d \in Aiding!File, n \in Nat \ {0} : [x EXCEPT !.data = d, !.start = n] \in Service
  BY DEF Service
<1>5. [x EXCEPT !.flag = 0, !.total = 0, !.start = 1] \in Service
  BY <1>1 DEF Service
<1>6. \A n \in Nat \ {0}, f \in 0 .. MaxFlag, d \in Aiding!File :
        [x EXCEPT !.start = n, !.flag = f, !.total = Blocks, !.data = d] \in Service
  BY DEF Service
<1>7. \A q \in Seq(Reply), n \in Nat : [x EXCEPT !.fifo = q, !.old = n] \in Service
  BY DEF Service
<1>8. \A a \in Seq(Request), q \in Seq(Reply) : [x EXCEPT !.asked = a, !.fifo = q] \in Service
  BY DEF Service
<1>9. \A l \in {"none", "opening", "up"}, st \in AidingStatus :
        [x EXCEPT !.status = st, !.link = l] \in Service
  BY DEF Service
<1> QED
  BY <1>2, <1>3, <1>4, <1>5, <1>6, <1>7, <1>8, <1>9

-----------------------------------------------------------------------------
(* What an answer does to the file that is fetched.                        *)

KindOk == kind \in {"mtk", "td"}
FlashOk == flash \in Aiding!File \cup {NoFile, Torn}

\* Nothing was answered, or a flag is known and `start` tells how many blocks there are.
Fetching(x) ==
  /\ Aiding!IsFirst(x) => x.start = 1
  /\ ~Aiding!IsFirst(x) =>
       x.total = Blocks /\ x.flag > 0 /\ x.start = Aiding!FirstBlock + Len(x.data)

\* The file is not complete.
Short(x) == Aiding!IsFirst(x) \/ Len(x.data) < Blocks \/ Len(x.data) = 1

\* The blocks are those of one file in their order.
OfOne(x) ==
  ~Aiding!IsFirst(x) =>
    \A i \in 1 .. Len(x.data) : x.data[i] = <<x.flag, Aiding!FirstBlock + i - 1>>
WholeFile(f) == f \in {NoFile, Torn} \/ \E flag \in 1 .. MaxFlag : f = Aiding!Wanted(flag)

\* The first block that is wanted is one the server has.
LEMMA FirstBlockIs ==
  KindOk => Aiding!FirstBlock \in Nat /\ Aiding!FirstBlock >= 1 /\ Aiding!FirstBlock <= Skip + 1
  BY AidingLimits DEF KindOk, Aiding!FirstBlock

\* As long as the file is not complete its next block is one the server has.
LEMMA NextBlock ==
  ASSUME KindOk, NEW x \in Service, Fetching(x), Short(x)
  PROVE  x.start \in Blocked /\ [what |-> "file", at |-> x.start] \in Request
<1>1. x.start \in Nat \ {0} /\ Len(x.data) \in Nat
  BY ServiceIs, LenProperties DEF Aiding!File
<1>2. x.start \in Blocked
  <2>1. CASE Aiding!IsFirst(x)
    <3>1. x.start = 1
      BY <2>1 DEF Fetching
    <3> QED
      BY <3>1, AidingLimits DEF Blocked
  <2>2. CASE ~Aiding!IsFirst(x)
    <3>1. x.start = Aiding!FirstBlock + Len(x.data)
      BY <2>2 DEF Fetching
    <3>2. Len(x.data) < Blocks \/ Len(x.data) = 1
      BY <2>2 DEF Short
    <3> QED
      <4> DEFINE b == Aiding!FirstBlock
                 l == Len(x.data)
      <4>1. b \in Nat /\ b >= 1 /\ b <= Skip + 1 /\ l \in Nat /\ (l < Blocks \/ l = 1)
        BY <1>1, <3>2, FirstBlockIs
      <4>2. x.start = b + l
        BY <3>1
      <4> HIDE DEF b, l
      <4>3. b + l \in 1 .. Skip + 2 * Blocks
        BY <4>1, AidingLimits
      <4> QED
        BY <4>2, <4>3 DEF Blocked
  <2> QED
    BY <2>1, <2>2
<1> QED
  BY <1>2 DEF Request

\* After an answer the next block is asked for, or the connection is closed.
Turns(x, y) ==
  /\ y \in Service /\ y.fifo = x.fifo
  /\ \/ /\ x.status = "work" /\ y.status = "work" /\ y.old = x.old
        /\ y.asked = Append(x.asked, [what |-> "file", at |-> y.start])
        /\ [what |-> "file", at |-> y.start] \in Request
     \/ y.status = "finish" /\ y.asked = <<>> /\ y.old = Len(y.fifo)

\* The next block is asked for, or the connection is closed.
LEMMA AskFileIs ==
  ASSUME KindOk, NEW x \in Service, Fetching(x), Short(x)
  PROVE  LET y == Aiding!AskFile(x)
         IN  Turns(x, y) /\ SameFetch(y, x) /\ y.timing = x.timing
<1> DEFINE q == [what |-> "file", at |-> x.start]
           y == Aiding!Send(x, q)
<1>1. q \in Request
  BY NextBlock
<1>2. Aiding!AskFile(x) = y
  BY DEF Aiding!AskFile
<1> HIDE DEF q
<1>3. /\ y \in Service /\ SameFetch(y, x) /\ y.timing = x.timing
      /\ \/ /\ x.status = "work" /\ y.status = "work" /\ y.asked = Append(x.asked, q)
            /\ y.old = x.old /\ y.link = x.link
         \/ /\ x.status # "work" /\ y.status = "finish" /\ y.asked = <<>>
            /\ y.old = Len(y.fifo) /\ y.link = "none"
  BY <1>1, SendIs
<1> HIDE DEF y
<1>4. y.start = x.start /\ y.fifo = x.fifo
  BY <1>3 DEF SameFetch
<1>5. q = [what |-> "file", at |-> y.start]
  BY <1>4 DEF q
<1>6. Turns(x, y)
  BY <1>1, <1>3, <1>4, <1>5 DEF Turns
<1> QED
  BY <1>2, <1>3, <1>6

\* What the flash has is taken when nothing is in use.
LEMMA ReadFileIs ==
  ASSUME FlashOk, NEW x \in Service
  PROVE  LET y == Aiding!ReadFile(x)
         IN  /\ y \in Service /\ y.status = x.status /\ y.link = x.link /\ y.timing = x.timing
             /\ y.flag = x.flag /\ y.start = x.start /\ y.total = x.total /\ y.data = x.data
             /\ y.asked = x.asked /\ y.fifo = x.fifo /\ y.old = x.old
             /\ y.inuse = x.inuse \/ (y.inuse = flash /\ flash # Torn)
<1> DEFINE f == IF x.inuse = NoFile /\ flash # Torn THEN flash ELSE x.inuse
           y == [x EXCEPT !.inuse = f]
<1>1. f \in Aiding!File \cup {NoFile} /\ (f = x.inuse \/ (f = flash /\ flash # Torn))
  BY ServiceIs DEF FlashOk
<1>2. Aiding!ReadFile(x) = y
  BY DEF Aiding!ReadFile, Service
<1> HIDE DEF f
<1>3. y \in Service
  BY <1>1, ServiceWith
<1>4. /\ y.status = x.status /\ y.link = x.link /\ y.timing = x.timing
      /\ y.flag = x.flag /\ y.start = x.start /\ y.total = x.total /\ y.data = x.data
      /\ y.asked = x.asked /\ y.fifo = x.fifo /\ y.old = x.old /\ y.inuse = f
  BY DEF Service
<1> QED
  BY <1>1, <1>2, <1>3, <1>4

\* A fetch that begins again.
LEMMA RestartedIs ==
  ASSUME KindOk, NEW x \in Service
  PROVE  LET y == Aiding!Restarted(x)
         IN  /\ y \in Service /\ y.status = x.status /\ y.link = x.link /\ y.timing = x.timing
             /\ Aiding!IsFirst(y) /\ Fetching(y) /\ Short(y) /\ OfOne(y)
             /\ y.asked = x.asked /\ y.fifo = x.fifo /\ y.old = x.old /\ y.inuse = x.inuse
<1> DEFINE y == [x EXCEPT !.flag = 0, !.total = 0, !.start = 1]
<1>1. y \in Service
  BY ServiceWith
<1>2. Aiding!Restarted(x) = y
  BY DEF Aiding!Restarted
<1>3. /\ y.status = x.status /\ y.link = x.link /\ y.timing = x.timing /\ y.flag = 0
      /\ y.start = 1 /\ y.asked = x.asked /\ y.fifo = x.fifo /\ y.old = x.old
      /\ y.inuse = x.inuse
  BY DEF Service
<1> HIDE DEF y
<1>4. Aiding!IsFirst(y)
  BY <1>3 DEF Aiding!IsFirst
<1> QED
  BY <1>1, <1>2, <1>3, <1>4 DEF Fetching, Short, OfOne

\* The time makes the service begin with a file, or end when the one it has is good.
LEMMA AfterTimeIs ==
  ASSUME KindOk, FlashOk, NEW x \in Service
  PROVE  LET y == Aiding!AfterTime(x)
         IN  /\ Turns(x, y) /\ y.timing = FALSE /\ Fetching(y) /\ Short(y) /\ OfOne(y)
             /\ y.inuse = x.inuse \/ (y.inuse = flash /\ flash # Torn)
<1> DEFINE t == [x EXCEPT !.timing = FALSE]
           r == Aiding!Restarted(t)
           n == Aiding!ReadFile(r)
           y == Aiding!AfterTime(x)
<1>1. /\ t \in Service /\ t.status = x.status /\ t.link = x.link /\ t.timing = FALSE
      /\ t.asked = x.asked /\ t.fifo = x.fifo /\ t.old = x.old /\ t.inuse = x.inuse
  <2>1. FALSE \in BOOLEAN
    OBVIOUS
  <2>2. t \in Service
    BY <2>1, ServiceWith
  <2> QED
    BY <2>2 DEF Service
<1> HIDE DEF t
<1>2. /\ r \in Service /\ r.status = t.status /\ r.link = t.link /\ r.timing = t.timing
      /\ Aiding!IsFirst(r) /\ Fetching(r)
      /\ r.asked = t.asked /\ r.fifo = t.fifo /\ r.old = t.old /\ r.inuse = t.inuse
  BY <1>1, RestartedIs
<1> HIDE DEF r
<1>3. /\ n \in Service /\ n.status = r.status /\ n.link = r.link /\ n.timing = r.timing
      /\ n.flag = r.flag /\ n.start = r.start /\ n.total = r.total /\ n.data = r.data
      /\ n.asked = r.asked /\ n.fifo = r.fifo /\ n.old = r.old
      /\ n.inuse = r.inuse \/ (n.inuse = flash /\ flash # Torn)
  BY <1>2, ReadFileIs
<1>4. y = IF Aiding!Usable(n.inuse) THEN Aiding!Finish(n) ELSE Aiding!AskFile(n)
  BY DEF Aiding!AfterTime, n, r, t
<1> HIDE DEF n, y
<1>5. Aiding!IsFirst(n) /\ n.start = 1
  BY <1>2, <1>3 DEF Fetching, Aiding!IsFirst
<1>6. Fetching(n) /\ Short(n)
  BY <1>5 DEF Fetching, Short
<1>7. /\ y \in Service /\ SameFetch(y, n) /\ y.timing = n.timing
      /\ Turns(n, y)
  <2>1. CASE Aiding!Usable(n.inuse)
    <3>1. y = Aiding!Finish(n)
      BY <1>4, <2>1
    <3>2. /\ y \in Service /\ SameFetch(y, n) /\ y.timing = n.timing
          /\ y.status = "finish" /\ y.link = "none" /\ y.asked = <<>> /\ y.old = Len(y.fifo)
      BY <1>3, <3>1, FinishIs
    <3> QED
      BY <3>2 DEF Turns, SameFetch
  <2>2. CASE ~Aiding!Usable(n.inuse)
    <3>1. y = Aiding!AskFile(n)
      BY <1>4, <2>2
    <3>2. Turns(n, y) /\ SameFetch(y, n) /\ y.timing = n.timing
      BY <1>3, <1>6, <3>1, AskFileIs
    <3> QED
      BY <3>2 DEF Turns
  <2> QED
    BY <2>1, <2>2
<1>8. Aiding!IsFirst(y) /\ y.start = 1
  BY <1>5, <1>7 DEF SameFetch, Aiding!IsFirst
<1>9. Turns(x, y)
  BY <1>1, <1>2, <1>3, <1>7 DEF Turns
<1>10. y.inuse = x.inuse \/ (y.inuse = flash /\ flash # Torn)
  BY <1>1, <1>2, <1>3, <1>7 DEF SameFetch
<1> QED
  BY <1>1, <1>2, <1>3, <1>7, <1>8, <1>9, <1>10 DEF Fetching, Short, OfOne, y

\* A block that is taken is the next of its file.
LEMMA AppendedIs ==
  ASSUME KindOk, NEW x \in Service, Fetching(x), Short(x), ~Aiding!IsFirst(x),
         NEW block \in (1 .. MaxFlag) \X (1 .. Skip + 2 * Blocks)
  PROVE  LET y == Aiding!Appended(x, block)
         IN  /\ y \in Service /\ y.status = x.status /\ y.link = x.link /\ y.timing = x.timing
             /\ y.flag = x.flag /\ y.total = x.total /\ y.inuse = x.inuse
             /\ y.asked = x.asked /\ y.fifo = x.fifo /\ y.old = x.old
             /\ y.start = x.start + 1 /\ y.data = Append(x.data, block)
             /\ Len(y.data) = Len(x.data) + 1 /\ ~Aiding!IsFirst(y) /\ Fetching(y)
             /\ OfOne(x) /\ block = <<x.flag, x.start>> => OfOne(y)
<1> DEFINE d == Append(x.data, block)
           n == x.start + 1
           y == [x EXCEPT !.data = d, !.start = n]
<1>1. x.data \in Aiding!File /\ x.start \in Nat \ {0}
  BY ServiceIs
<1>2. /\ d \in Aiding!File /\ Len(d) = Len(x.data) + 1
      /\ \A i \in 1 .. Len(x.data) : d[i] = x.data[i]
      /\ d[Len(x.data) + 1] = block /\ Len(x.data) \in Nat
  BY <1>1, AppendProperties, LenProperties DEF Aiding!File
<1>3. n \in Nat \ {0}
  BY <1>1
<1>4. Aiding!Appended(x, block) = y
  BY DEF Aiding!Appended, Service
<1>5. n = x.start + 1 /\ d = Append(x.data, block)
  OBVIOUS
<1> HIDE DEF d, n
<1>6. y \in Service
  BY <1>2, <1>3, ServiceWith
<1>7. /\ y.status = x.status /\ y.link = x.link /\ y.timing = x.timing
      /\ y.flag = x.flag /\ y.total = x.total /\ y.inuse = x.inuse
      /\ y.asked = x.asked /\ y.fifo = x.fifo /\ y.old = x.old
      /\ y.start = n /\ y.data = d
  BY DEF Service
<1> HIDE DEF y
<1>8. x.total = Blocks /\ x.flag > 0 /\ x.start = Aiding!FirstBlock + Len(x.data)
  BY DEF Fetching
<1>9. Aiding!FirstBlock \in Nat /\ x.flag \in Nat
  BY FirstBlockIs, ServiceIs
<1>10. ~Aiding!IsFirst(y)
  <2>1. y.start # 1 /\ y.flag # 0
    BY <1>1, <1>5, <1>7, <1>8, <1>9
  <2> QED
    BY <2>1 DEF Aiding!IsFirst
<1>11. y.start = Aiding!FirstBlock + Len(y.data)
  BY <1>2, <1>5, <1>7, <1>8, <1>9
<1>12. Fetching(y)
  BY <1>7, <1>8, <1>10, <1>11 DEF Fetching
<1>13. ASSUME OfOne(x), block = <<x.flag, x.start>>
       PROVE  OfOne(y)
  <2> SUFFICES ASSUME NEW i \in 1 .. Len(d)
               PROVE  d[i] = <<x.flag, Aiding!FirstBlock + i - 1>>
    BY <1>7 DEF OfOne
  <2>1. CASE i \in 1 .. Len(x.data)
    BY <1>2, <1>13, <2>1 DEF OfOne
  <2>2. CASE i = Len(x.data) + 1
    <3>1. Aiding!FirstBlock + i - 1 = x.start
      BY <1>2, <1>8, <1>9, <2>2
    <3> QED
      BY <1>2, <1>13, <2>2, <3>1
  <2>3. i \in 1 .. Len(x.data) \/ i = Len(x.data) + 1
    BY <1>2
  <2> QED
    BY <2>1, <2>2, <2>3
<1> QED
  BY <1>2, <1>4, <1>5, <1>6, <1>7, <1>10, <1>12, <1>13

\* A complete file of one flag is that file.
LEMMA CompleteIs ==
  ASSUME KindOk, NEW x \in Service, Fetching(x), ~Aiding!IsFirst(x), Aiding!Enough(x)
  PROVE  LET y == Aiding!Complete(x)
         IN  /\ y \in Service /\ y.status = x.status /\ y.link = x.link /\ y.timing = x.timing
             /\ y.flag = x.flag /\ y.start = x.start /\ y.total = x.total /\ y.data = x.data
             /\ y.asked = x.asked /\ y.fifo = x.fifo /\ y.old = x.old
             /\ y.inuse \in Aiding!File
             /\ OfOne(x) => y.inuse = Aiding!Wanted(x.flag) /\ x.flag \in 1 .. MaxFlag
<1> DEFINE f == SubSeq(x.data, 1, x.total)
           y == [x EXCEPT !.inuse = f]
           Piece == (1 .. MaxFlag) \X (1 .. Skip + 2 * Blocks)
<1>1. /\ x.data \in Seq(Piece) /\ x.total = Blocks /\ Len(x.data) \in Nat
      /\ Len(x.data) >= Blocks /\ x.flag \in 1 .. MaxFlag
  <2>1. x.data \in Seq(Piece) /\ x.flag \in 0 .. MaxFlag
    BY ServiceIs DEF Aiding!File
  <2>2. x.total = Blocks /\ x.flag > 0
    BY DEF Fetching
  <2>3. Len(x.data) >= Blocks
    BY <2>2 DEF Aiding!Enough
  <2>4. Len(x.data) \in Nat
    BY <2>1, LenProperties
  <2> HIDE DEF Piece
  <2>5. x.flag \in 1 .. MaxFlag
    BY <2>1, <2>2, AidingLimits
  <2> QED
    BY <2>1, <2>2, <2>3, <2>4, <2>5
<1>2. \A i \in 1 .. x.total : x.data[i] \in Piece
  <2> HIDE DEF Piece
  <2>1. \A i \in 1 .. Blocks : i \in 1 .. Len(x.data)
    BY <1>1, AidingLimits
  <2>2. \A i \in 1 .. Len(x.data) : x.data[i] \in Piece
    BY <1>1, ElementOfSeq
  <2> QED
    BY <1>1, <2>1, <2>2
<1>3. /\ f \in Seq(Piece) /\ Len(f) = Blocks
      /\ \A i \in 1 .. Blocks : f[i] = x.data[i]
  <2> HIDE DEF Piece
  <2>1. /\ f \in Seq(Piece) /\ Len(f) = IF 1 <= x.total THEN x.total - 1 + 1 ELSE 0
        /\ \A i \in 1 .. x.total - 1 + 1 : f[i] = x.data[1 + i - 1]
    <3>1. x.total \in Int /\ 1 \in Int
      BY <1>1, AidingLimits
    <3> QED
      BY <1>2, <3>1, SubSeqProperties
  <2>2. x.total - 1 + 1 = Blocks /\ 1 <= x.total
    BY <1>1, AidingLimits
  <2>3. \A i \in 1 .. Blocks : 1 + i - 1 = i
    OBVIOUS
  <2> HIDE DEF f
  <2> QED
    BY <1>1, <2>1, <2>2, <2>3
<1>4. f \in Aiding!File
  BY <1>3 DEF Aiding!File
<1>5. Aiding!Complete(x) = y
  BY DEF Aiding!Complete
<1> HIDE DEF f
<1>6. y \in Service
  BY <1>4, ServiceWith
<1>7. /\ y.status = x.status /\ y.link = x.link /\ y.timing = x.timing
      /\ y.flag = x.flag /\ y.start = x.start /\ y.total = x.total /\ y.data = x.data
      /\ y.asked = x.asked /\ y.fifo = x.fifo /\ y.old = x.old /\ y.inuse = f
  BY DEF Service
<1>8. ASSUME OfOne(x)
      PROVE  f = Aiding!Wanted(x.flag)
  <2>1. f \in [1 .. Blocks -> Piece]
    <3> HIDE DEF Piece
    <3> QED
      BY <1>3, LenProperties
  <2>2. \A i \in 1 .. Blocks : i \in 1 .. Len(x.data)
    BY <1>1, AidingLimits
  <2>3. \A i \in 1 .. Blocks : f[i] = <<x.flag, Aiding!FirstBlock + i - 1>>
    BY <1>3, <1>8, <2>2 DEF OfOne
  <2> HIDE DEF Piece
  <2> QED
    BY <2>1, <2>3 DEF Aiding!Wanted
<1> QED
  BY <1>1, <1>4, <1>5, <1>6, <1>7, <1>8

\* What is said of the file alone holds of every record with the same file.
LEMMA SameFetchIs ==
  ASSUME NEW x \in Service, NEW y \in Service, SameFetch(y, x)
  PROVE  /\ Aiding!IsFirst(y) = Aiding!IsFirst(x) /\ (Fetching(x) => Fetching(y))
         /\ (Short(x) => Short(y)) /\ (OfOne(x) => OfOne(y))
<1>1. Aiding!IsFirst(y) = Aiding!IsFirst(x)
  BY DEF SameFetch, Aiding!IsFirst
<1> QED
  BY <1>1 DEF SameFetch, Fetching, Short, OfOne

\* The first answer.
LEMMA FirstIs ==
  ASSUME KindOk, NEW x \in Service, NEW m \in Reply, m.what = "file", Aiding!IsFirst(x)
  PROVE  /\ kind = "mtk" =>
              LET y == Aiding!EpoFirst(x, m)
              IN  /\ y \in Service /\ Fetching(y) /\ Short(y) /\ OfOne(y)
                  /\ y.status = x.status /\ y.timing = x.timing /\ y.inuse = x.inuse
                  /\ y.asked = x.asked /\ y.fifo = x.fifo /\ y.old = x.old
         /\ kind # "mtk" /\ m.at = 1 =>
              LET y == Aiding!TdFirst(x, m)
              IN  /\ y \in Service /\ Fetching(y) /\ Short(y) /\ OfOne(y)
                  /\ y.status = x.status /\ y.timing = x.timing /\ y.inuse = x.inuse
                  /\ y.asked = x.asked /\ y.fifo = x.fifo /\ y.old = x.old
<1>1. m.flag \in 1 .. MaxFlag /\ m.at \in Blocked
  BY DEF Reply
<1>2. m.flag \in 0 .. MaxFlag /\ m.flag > 0 /\ m.flag # 0
  BY <1>1, AidingLimits
<1>3. Aiding!FirstBlock \in Nat \ {0}
  BY FirstBlockIs
<1>4. ASSUME kind = "mtk"
      PROVE  LET y == Aiding!EpoFirst(x, m)
             IN  /\ y \in Service /\ Fetching(y) /\ Short(y) /\ OfOne(y)
                 /\ y.status = x.status /\ y.timing = x.timing /\ y.inuse = x.inuse
                 /\ y.asked = x.asked /\ y.fifo = x.fifo /\ y.old = x.old
  <2> DEFINE b == Aiding!FirstBlock
             f == m.flag
             y == [x EXCEPT !.start = b, !.flag = f, !.total = Blocks, !.data = <<>>]
  <2>1. <<>> \in Aiding!File
    BY DEF Aiding!File
  <2>2. Aiding!EpoFirst(x, m) = y /\ b \in Nat \ {0} /\ f \in 0 .. MaxFlag /\ f > 0 /\ f # 0
    BY <1>2, <1>3 DEF Aiding!EpoFirst
  <2>3. b = Aiding!FirstBlock
    OBVIOUS
  <2> HIDE DEF b, f
  <2>4. y \in Service
    BY <2>1, <2>2, ServiceWith
  <2>5. /\ y.status = x.status /\ y.timing = x.timing /\ y.inuse = x.inuse
        /\ y.asked = x.asked /\ y.fifo = x.fifo /\ y.old = x.old
        /\ y.start = b /\ y.flag = f /\ y.total = Blocks /\ y.data = <<>>
    BY DEF Service
  <2> HIDE DEF y
  <2>6. ~Aiding!IsFirst(y)
    BY <1>4, <2>2, <2>5 DEF Aiding!IsFirst
  <2>7. Len(y.data) = 0
    BY <2>5
  <2>8. y.start = Aiding!FirstBlock + Len(y.data)
    BY <2>2, <2>3, <2>5, <2>7
  <2>9. Fetching(y)
    BY <2>2, <2>5, <2>6, <2>8 DEF Fetching
  <2>10. Short(y)
    BY <2>7, AidingLimits DEF Short
  <2>11. OfOne(y)
    <3>1. 1 .. 0 = {}
      OBVIOUS
    <3> QED
      BY <2>7, <3>1 DEF OfOne
  <2> QED
    BY <2>2, <2>4, <2>5, <2>9, <2>10, <2>11
<1>5. ASSUME kind # "mtk", m.at = 1
      PROVE  LET y == Aiding!TdFirst(x, m)
             IN  /\ y \in Service /\ Fetching(y) /\ Short(y) /\ OfOne(y)
                 /\ y.status = x.status /\ y.timing = x.timing /\ y.inuse = x.inuse
                 /\ y.asked = x.asked /\ y.fifo = x.fifo /\ y.old = x.old
  <2> DEFINE d == <<<<m.flag, m.at>>>>
             f == m.flag
             y == [x EXCEPT !.start = 2, !.flag = f, !.total = Blocks, !.data = d]
  <2>1. d \in Aiding!File /\ Len(d) = 1 /\ d[1] = <<f, 1>>
    <3>1. <<m.flag, m.at>> \in (1 .. MaxFlag) \X (1 .. Skip + 2 * Blocks)
      BY <1>1 DEF Blocked
    <3> QED
      BY <1>5, <3>1 DEF Aiding!File
  <2>2. Aiding!TdFirst(x, m) = y /\ f \in 0 .. MaxFlag /\ f > 0 /\ f # 0
    BY <1>2 DEF Aiding!TdFirst, Service
  <2>3. Aiding!FirstBlock = 1
    BY <1>5 DEF Aiding!FirstBlock
  <2> HIDE DEF d, f
  <2>4. y \in Service
    <3>1. 2 \in Nat \ {0}
      OBVIOUS
    <3> QED
      BY <2>1, <2>2, <3>1, ServiceWith
  <2>5. /\ y.status = x.status /\ y.timing = x.timing /\ y.inuse = x.inuse
        /\ y.asked = x.asked /\ y.fifo = x.fifo /\ y.old = x.old
        /\ y.start = 2 /\ y.flag = f /\ y.total = Blocks /\ y.data = d
    BY DEF Service
  <2> HIDE DEF y
  <2>6. ~Aiding!IsFirst(y)
    BY <1>5, <2>5 DEF Aiding!IsFirst
  <2>7. y.start = Aiding!FirstBlock + Len(y.data)
    <3>1. Len(y.data) = 1
      BY <2>1, <2>5
    <3>2. 1 + 1 = 2
      OBVIOUS
    <3> QED
      BY <2>3, <2>5, <3>1, <3>2
  <2>8. Fetching(y) /\ Short(y)
    BY <2>1, <2>2, <2>5, <2>6, <2>7 DEF Fetching, Short
  <2>9. OfOne(y)
    <3>1. \A i \in 1 .. 1 : d[i] = <<f, 1 + i - 1>>
      <4>1. \A i \in 1 .. 1 : i = 1 /\ 1 + i - 1 = 1
        OBVIOUS
      <4> QED
        BY <2>1, <4>1
    <3> QED
      BY <2>1, <2>3, <2>5, <3>1 DEF OfOne
  <2> QED
    BY <2>2, <2>4, <2>5, <2>8, <2>9
<1> QED
  BY <1>4, <1>5

\* What an answer m makes of the record: x before it and y after it.
Taken(x, m, y) ==
  /\ Turns(x, y) /\ y.timing = x.timing /\ Fetching(y)
  /\ y.status = "work" => Short(y)
  /\ Aiding!IsComplete(x, m) => y.inuse \in Aiding!File
  /\ ~Aiding!IsComplete(x, m) => y.inuse = x.inuse
  /\ OfOne(x) /\ m.at = x.start =>
       /\ OfOne(y)
       /\ Aiding!IsComplete(x, m) => \E flag \in 1 .. MaxFlag : y.inuse = Aiding!Wanted(flag)

\* What stays when only the file is concerned.
SameLink(z, x) ==
  /\ z.status = x.status /\ z.timing = x.timing
  /\ z.asked = x.asked /\ z.fifo = x.fifo /\ z.old = x.old

\* An answer that leaves the file incomplete has the next block asked for.
LEMMA TakenAsks ==
  ASSUME KindOk, NEW x \in Service, NEW m, ~Aiding!IsComplete(x, m), NEW z \in Service,
         SameLink(z, x), z.inuse = x.inuse, Fetching(z), Short(z),
         OfOne(x) /\ m.at = x.start => OfOne(z)
  PROVE  Taken(x, m, Aiding!AskFile(z))
<1> DEFINE y == Aiding!AskFile(z)
<1>1. Turns(z, y) /\ SameFetch(y, z) /\ y.timing = z.timing
  BY AskFileIs
<1> HIDE DEF y
<1>2. y \in Service
  BY <1>1 DEF Turns
<1>3. Fetching(y) /\ Short(y) /\ (OfOne(z) => OfOne(y))
  BY <1>1, <1>2, SameFetchIs
<1>4. Turns(x, y)
  BY <1>1 DEF Turns, SameLink
<1>5. y.timing = x.timing /\ y.inuse = x.inuse
  BY <1>1 DEF SameLink, SameFetch
<1>6. Taken(x, m, y)
  BY <1>3, <1>4, <1>5 DEF Taken
<1> QED
  BY <1>6 DEF y

\* An answer that completes the file, or spoils the exchange, ends the connection.
LEMMA TakenEnds ==
  ASSUME KindOk, NEW x \in Service, NEW m, NEW z \in Service,
         SameLink(z, x), Fetching(z),
         OfOne(x) /\ m.at = x.start => OfOne(z),
         Aiding!IsComplete(x, m) => z.inuse \in Aiding!File,
         ~Aiding!IsComplete(x, m) => z.inuse = x.inuse,
         OfOne(x) /\ m.at = x.start /\ Aiding!IsComplete(x, m) =>
           \E flag \in 1 .. MaxFlag : z.inuse = Aiding!Wanted(flag)
  PROVE  Taken(x, m, Aiding!Finish(z))
<1> DEFINE y == Aiding!Finish(z)
<1>1. /\ y \in Service /\ SameFetch(y, z) /\ y.timing = z.timing
      /\ y.status = "finish" /\ y.link = "none" /\ y.asked = <<>> /\ y.old = Len(y.fifo)
  BY FinishIs
<1> HIDE DEF y
<1>2. Fetching(y) /\ (OfOne(z) => OfOne(y))
  BY <1>1, SameFetchIs
<1>3. Turns(x, y)
  BY <1>1 DEF Turns, SameLink, SameFetch
<1>4. y.timing = x.timing /\ y.inuse = z.inuse /\ y.status # "work"
  BY <1>1 DEF SameLink, SameFetch
<1>5. Taken(x, m, y)
  BY <1>2, <1>3, <1>4 DEF Taken
<1> QED
  BY <1>5 DEF y

\* What a block does, in all of the cases of agps_msg_parse_epo_ack and its likes.
LEMMA AfterFileIs ==
  ASSUME KindOk, NEW x \in Service, NEW m \in Reply, m.what = "file", Fetching(x), Short(x)
  PROVE  Taken(x, m, Aiding!AfterFile(x, m))
<1> DEFINE y == Aiding!AfterFile(x, m)
<1>1. CASE Aiding!IsFirst(x)
  <2>1. ~Aiding!IsComplete(x, m)
    BY <1>1 DEF Aiding!IsComplete
  <2>2. CASE kind = "mtk"
    <3> DEFINE z == Aiding!EpoFirst(x, m)
    <3>1. y = Aiding!AskFile(z)
      BY <1>1, <2>2 DEF Aiding!AfterFile
    <3>2. /\ z \in Service /\ Fetching(z) /\ Short(z) /\ OfOne(z)
          /\ SameLink(z, x) /\ z.inuse = x.inuse
      BY <1>1, <2>2, FirstIs DEF SameLink
    <3> HIDE DEF y, z
    <3> QED
      BY <2>1, <3>1, <3>2, TakenAsks DEF y
  <2>3. CASE kind # "mtk" /\ m.at = 1
    <3> DEFINE z == Aiding!TdFirst(x, m)
    <3>1. y = Aiding!AskFile(z)
      BY <1>1, <2>3 DEF Aiding!AfterFile
    <3>2. /\ z \in Service /\ Fetching(z) /\ Short(z) /\ OfOne(z)
          /\ SameLink(z, x) /\ z.inuse = x.inuse
      BY <1>1, <2>3, FirstIs DEF SameLink
    <3> HIDE DEF y, z
    <3> QED
      BY <2>1, <3>1, <3>2, TakenAsks DEF y
  <2>4. CASE kind # "mtk" /\ m.at # 1
    <3>1. y = Aiding!Finish(x)
      BY <1>1, <2>4 DEF Aiding!AfterFile
    <3>2. SameLink(x, x)
      BY DEF SameLink
    <3> HIDE DEF y
    <3> QED
      BY <2>1, <3>1, <3>2, TakenEnds DEF y
  <2> QED
    BY <2>2, <2>3, <2>4
<1>2. CASE ~Aiding!IsFirst(x) /\ ~Aiding!SameFile(x, m.flag)
  <2> DEFINE z == Aiding!Restarted(x)
  <2>1. ~Aiding!IsComplete(x, m)
    BY <1>2 DEF Aiding!IsComplete
  <2>2. y = Aiding!AskFile(z)
    BY <1>2 DEF Aiding!AfterFile
  <2>3. /\ z \in Service /\ Fetching(z) /\ Short(z) /\ OfOne(z)
        /\ SameLink(z, x) /\ z.inuse = x.inuse
    BY RestartedIs DEF SameLink
  <2> HIDE DEF y, z
  <2> QED
    BY <2>1, <2>2, <2>3, TakenAsks DEF y
<1>3. CASE ~Aiding!IsFirst(x) /\ Aiding!SameFile(x, m.flag)
  <2> DEFINE block == <<m.flag, m.at>>
             z == Aiding!Appended(x, block)
  <2>1. block \in (1 .. MaxFlag) \X (1 .. Skip + 2 * Blocks) /\ m.flag = x.flag
    BY <1>3 DEF Reply, Blocked, Aiding!SameFile
  <2>2. m.at = x.start => block = <<x.flag, x.start>>
    BY <2>1
  <2>3. /\ y = IF Aiding!Enough(z) THEN Aiding!Finish(Aiding!Complete(z)) ELSE Aiding!AskFile(z)
        /\ Aiding!IsComplete(x, m) <=> Aiding!Enough(z)
    BY <1>3 DEF Aiding!AfterFile, Aiding!IsComplete
  <2> HIDE DEF block
  <2>4. /\ z \in Service /\ z.status = x.status /\ z.link = x.link /\ z.timing = x.timing
        /\ z.flag = x.flag /\ z.total = x.total /\ z.inuse = x.inuse
        /\ z.asked = x.asked /\ z.fifo = x.fifo /\ z.old = x.old
        /\ Len(z.data) = Len(x.data) + 1 /\ ~Aiding!IsFirst(z) /\ Fetching(z)
        /\ OfOne(x) /\ block = <<x.flag, x.start>> => OfOne(z)
    BY <1>3, <2>1, AppendedIs
  <2>5. SameLink(z, x)
    BY <2>4 DEF SameLink
  <2> HIDE DEF y, z
  <2>6. CASE ~Aiding!Enough(z)
    <3>1. Short(z)
      <4>1. z.total = Blocks /\ Len(z.data) \in Nat
        <5>1. z.data \in Aiding!File
          BY <2>4, ServiceIs
        <5> QED
          BY <2>4, <5>1, LenProperties DEF Fetching, Aiding!File
      <4> QED
        BY <2>6, <4>1, AidingLimits DEF Short, Aiding!Enough
    <3> QED
      BY <2>2, <2>3, <2>4, <2>5, <2>6, <3>1, TakenAsks DEF y
  <2>7. CASE Aiding!Enough(z)
    <3> DEFINE c == Aiding!Complete(z)
    <3>1. /\ c \in Service /\ c.status = z.status /\ c.link = z.link /\ c.timing = z.timing
          /\ c.flag = z.flag /\ c.start = z.start /\ c.total = z.total /\ c.data = z.data
          /\ c.asked = z.asked /\ c.fifo = z.fifo /\ c.old = z.old
          /\ c.inuse \in Aiding!File
          /\ OfOne(z) => c.inuse = Aiding!Wanted(z.flag) /\ z.flag \in 1 .. MaxFlag
      BY <2>4, <2>7, CompleteIs
    <3>2. y = Aiding!Finish(c)
      BY <2>3, <2>7
    <3> HIDE DEF c
    <3>3. Fetching(c) /\ (OfOne(z) => OfOne(c)) /\ SameLink(c, x)
      <4>1. Aiding!IsFirst(c) = Aiding!IsFirst(z)
        BY <3>1 DEF Aiding!IsFirst
      <4> QED
        BY <2>4, <3>1, <4>1 DEF Fetching, OfOne, SameLink
    <3>4. OfOne(x) /\ m.at = x.start => \E flag \in 1 .. MaxFlag : c.inuse = Aiding!Wanted(flag)
      BY <2>2, <2>4, <3>1
    <3>5. OfOne(x) /\ m.at = x.start => OfOne(c)
      BY <2>2, <2>4, <3>3
    <3> QED
      BY <2>3, <2>7, <3>1, <3>2, <3>3, <3>4, <3>5, TakenEnds DEF y
  <2> QED
    BY <2>6, <2>7
<1> QED
  BY <1>1, <1>2, <1>3

-----------------------------------------------------------------------------
(* The invariant of the service.                                           *)

ServiceInv ==
  /\ KindOk /\ FlashOk /\ s \in Service /\ Fetching(s) /\ s.old <= Len(s.fifo)
  /\ s.status \in {"init", "connecting"} => Aiding!IsFirst(s)
  /\ s.status = "work" => Short(s)
  /\ server \in 1 .. MaxFlag

\* An answer to request q fits what the service waits for.
Meets(x, q) == IF x.timing THEN q.what = "time" ELSE q.what = "file" /\ q.at = x.start

\* Requests and answers that no earlier connection left.
Current(x) ==
  /\ x.status = "work" => Len(x.asked) + Len(x.fifo) <= x.old + 1
  /\ x.status # "work" => x.asked = <<>> /\ x.old = Len(x.fifo)
  /\ \A i \in 1 .. Len(x.asked) : Meets(x, x.asked[i])
  /\ \A i \in 1 .. Len(x.fifo) : i > x.old => Meets(x, x.fifo[i])

\* As long as none is taken for a current one, every file is one file of the server.
WholeInv == stale \/ (WholeFile(s.inuse) /\ WholeFile(flash) /\ OfOne(s) /\ Current(s))

\* Everything that has gone is not current.
LEMMA ClosedIsCurrent ==
  ASSUME NEW x \in Service, x.status # "work", x.asked = <<>>, x.old = Len(x.fifo)
  PROVE  Current(x) /\ x.old <= Len(x.fifo)
<1>1. Len(x.fifo) \in Nat /\ Len(x.asked) = 0
  BY ServiceIs, LenProperties
<1>2. 1 .. Len(x.asked) = {} /\ \A i \in 1 .. Len(x.fifo) : ~(i > x.old)
  BY <1>1
<1> QED
  BY <1>1, <1>2 DEF Current

\* The step of a service that does not read.
LEMMA ServiceStep ==
  ASSUME KindOk, kind' = kind, flash' = flash, server' \in 1 .. MaxFlag, FlashOk,
         NEW y \in Service, s' = y, Fetching(y), y.old <= Len(y.fifo),
         y.status \in {"init", "connecting"} => Aiding!IsFirst(y),
         y.status = "work" => Short(y)
  PROVE  ServiceInv'
  BY DEF ServiceInv, KindOk, FlashOk, Fetching, Short, Aiding!IsFirst, Aiding!FirstBlock

\* The step to a record whose file is whole and whose requests are current.
LEMMA FileStep ==
  ASSUME kind' = kind, NEW y, s' = y, flash' = flash, WholeFile(y.inuse), WholeFile(flash),
         OfOne(y), Current(y)
  PROVE  WholeInv'
  BY DEF WholeInv, WholeFile, OfOne, Current, Meets, Aiding!IsFirst, Aiding!FirstBlock,
         Aiding!Wanted

\* An answer is taken out of the buffer.
Popped(x) == [x EXCEPT !.fifo = Tail(x.fifo), !.old = IF x.old > 0 THEN x.old - 1 ELSE 0]

\* Taking an answer out leaves the file as it was.
LEMMA PoppedIs ==
  ASSUME KindOk, NEW x \in Service, x.fifo # <<>>, x.old <= Len(x.fifo)
  PROVE  LET y == Popped(x)
         IN  /\ y \in Service /\ y.status = x.status /\ y.timing = x.timing
             /\ y.flag = x.flag /\ y.start = x.start /\ y.total = x.total /\ y.data = x.data
             /\ y.inuse = x.inuse /\ y.asked = x.asked
             /\ Len(y.fifo) = Len(x.fifo) - 1 /\ y.old <= Len(y.fifo)
             /\ Aiding!IsFirst(y) = Aiding!IsFirst(x) /\ (Fetching(x) => Fetching(y))
             /\ (Short(x) => Short(y)) /\ (OfOne(x) => OfOne(y))
             /\ Head(x.fifo) \in Reply /\ Head(x.fifo) = x.fifo[1]
             /\ x.old = 0 => y.old = 0
<1> DEFINE f == Tail(x.fifo)
           n == IF x.old > 0 THEN x.old - 1 ELSE 0
           y == [x EXCEPT !.fifo = f, !.old = n]
<1>1. /\ x.fifo \in Seq(Reply) /\ x.old \in Nat /\ Len(x.fifo) \in Nat
  BY ServiceIs, LenProperties
<1>2. /\ Head(x.fifo) \in Reply /\ f \in Seq(Reply) /\ Len(f) = Len(x.fifo) - 1
      /\ Head(x.fifo) = x.fifo[1]
  BY <1>1, HeadTailProperties
<1>3. n \in Nat /\ (x.old = 0 => n = 0) /\ n <= Len(x.fifo) - 1
  <2>1. Len(x.fifo) # 0
    BY <1>1, EmptySeq
  <2> QED
    BY <1>1, <2>1
<1>4. Popped(x) = y
  BY DEF Popped
<1> HIDE DEF f, n
<1>5. y \in Service
  BY <1>2, <1>3, ServiceWith
<1>6. /\ y.status = x.status /\ y.timing = x.timing
      /\ y.flag = x.flag /\ y.start = x.start /\ y.total = x.total /\ y.data = x.data
      /\ y.inuse = x.inuse /\ y.asked = x.asked /\ y.fifo = f /\ y.old = n
  BY DEF Service
<1> HIDE DEF y
<1>7. Aiding!IsFirst(y) = Aiding!IsFirst(x)
  BY <1>6 DEF Aiding!IsFirst
<1>8. /\ Fetching(x) => Fetching(y)
      /\ Short(x) => Short(y)
      /\ OfOne(x) => OfOne(y)
  BY <1>6, <1>7 DEF Fetching, Short, OfOne
<1>9. Len(y.fifo) = Len(x.fifo) - 1 /\ y.old <= Len(y.fifo) /\ (x.old = 0 => y.old = 0)
  BY <1>2, <1>3, <1>6
<1> QED
  BY <1>2, <1>4, <1>5, <1>6, <1>7, <1>8, <1>9

\* After an answer was read, what was asked for is all that is current.
LEMMA TurnsCurrent ==
  ASSUME NEW x \in Service, NEW y, Turns(x, y), x.asked = <<>>, x.fifo = <<>>, x.old = 0,
         y.timing = FALSE
  PROVE  Current(y)
<1>1. y \in Service /\ y.fifo = <<>> /\ Len(y.fifo) = 0
  BY DEF Turns
<1>2. CASE y.status = "finish" /\ y.asked = <<>> /\ y.old = Len(y.fifo)
  BY <1>1, <1>2, ClosedIsCurrent
<1>3. CASE /\ y.status = "work" /\ y.old = x.old
           /\ y.asked = Append(x.asked, [what |-> "file", at |-> y.start])
           /\ [what |-> "file", at |-> y.start] \in Request
  <2> DEFINE q == [what |-> "file", at |-> y.start]
  <2>1. y.asked = <<q>> /\ Len(y.asked) = 1 /\ y.asked[1] = q
    BY <1>3
  <2>2. Meets(y, q)
    BY DEF Meets
  <2> HIDE DEF q
  <2>3. \A i \in 1 .. Len(y.asked) : Meets(y, y.asked[i])
    BY <2>1, <2>2
  <2>4. \A i \in 1 .. Len(y.fifo) : i > y.old => Meets(y, y.fifo[i])
    BY <1>1
  <2>5. Len(y.asked) + Len(y.fifo) <= y.old + 1
    BY <1>1, <1>3, <2>1
  <2> QED
    BY <1>3, <2>3, <2>4, <2>5 DEF Current
<1> QED
  BY <1>2, <1>3 DEF Turns

\* What Read does, with the record n that is left and the answer m.
LEMMA ReadIs ==
  ASSUME NEW x \in Service, NEW l, Aiding!Read(x, l)
  PROVE  /\ x.fifo = <<>> => s' = x /\ loss' = l /\ UNCHANGED <<flash, fresh, aid, stale>>
         /\ x.fifo # <<>> =>
              LET m == Head(x.fifo)
                  n == Popped(x)
              IN  /\ stale' = (stale \/ s.old > 0)
                  /\ m.what = "time" =>
                       /\ s' = IF n.timing THEN Aiding!AfterTime(n) ELSE n
                       /\ UNCHANGED <<flash, fresh>> /\ loss' = l
                       /\ aid' = aid \/ \E b \in BOOLEAN : aid' \in Aiding!Aidings(aid, b)
                  /\ m.what # "time" =>
                       /\ s' = Aiding!AfterFile(n, m)
                       /\ ~Aiding!IsComplete(n, m) =>
                            loss' = l /\ UNCHANGED <<flash, fresh, aid>>
                       /\ Aiding!IsComplete(n, m) =>
                            /\ fresh' = TRUE /\ aid' \in Aiding!Aidings(aid, TRUE)
                            /\ \/ flash' = s'.inuse /\ loss' = l
                               \/ flash' = Torn /\ l < MaxLoss /\ loss' = l + 1
<1>1. CASE x.fifo = <<>>
  BY <1>1 DEF Aiding!Read
<1>2. CASE x.fifo # <<>>
  <2> DEFINE m == Head(x.fifo)
             n == [x EXCEPT !.fifo = Tail(@), !.old = IF @ > 0 THEN @ - 1 ELSE 0]
  <2>1. n = Popped(x)
    BY DEF Popped, Service
  <2>2. /\ stale' = (stale \/ s.old > 0)
        /\ IF m.what = "time"
            THEN /\ s' = (IF n.timing THEN Aiding!AfterTime(n) ELSE n)
                 /\ aid' \in (IF n.timing
                                THEN Aiding!Aidings(aid, Aiding!Usable(Aiding!ReadFile(n).inuse))
                              ELSE {aid})
                 /\ loss' = l /\ UNCHANGED <<flash, fresh>>
           ELSE /\ s' = Aiding!AfterFile(n, m)
                /\ IF Aiding!IsComplete(n, m)
                     THEN /\ fresh' = TRUE /\ aid' \in Aiding!Aidings(aid, TRUE)
                          /\ Aiding!Store(s'.inuse, l)
                     ELSE loss' = l /\ UNCHANGED <<flash, fresh, aid>>
    BY <1>2 DEF Aiding!Read
  <2> HIDE DEF m, n
  <2>3. CASE m.what = "time"
    <3> DEFINE u == Aiding!Usable(Aiding!ReadFile(n).inuse)
    <3>1. u \in BOOLEAN
      BY DEF Aiding!Usable
    <3> HIDE DEF u
    <3>2. aid' \in (IF n.timing THEN Aiding!Aidings(aid, u) ELSE {aid})
      BY <2>2, <2>3 DEF u
    <3>3. aid' = aid \/ \E b \in BOOLEAN : aid' \in Aiding!Aidings(aid, b)
      BY <3>1, <3>2
    <3> QED
      BY <1>2, <2>1, <2>2, <2>3, <3>3 DEF m
  <2>4. CASE m.what # "time"
    <3>1. s' = Aiding!AfterFile(n, m)
      BY <2>2, <2>4
    <3>2. ~Aiding!IsComplete(n, m) => loss' = l /\ UNCHANGED <<flash, fresh, aid>>
      BY <2>2, <2>4
    <3>3. Aiding!IsComplete(n, m) =>
            /\ fresh' = TRUE /\ aid' \in Aiding!Aidings(aid, TRUE)
            /\ \/ flash' = s'.inuse /\ loss' = l
               \/ flash' = Torn /\ l < MaxLoss /\ loss' = l + 1
      BY <2>2, <2>4 DEF Aiding!Store
    <3> QED
      BY <1>2, <2>1, <2>2, <2>4, <3>1, <3>2, <3>3 DEF m
  <2> QED
    BY <2>3, <2>4
<1> QED
  BY <1>1, <1>2

\* The record from which an answer is read: that of the service, or one just closed.
Reads(x) ==
  /\ x \in Service /\ SameFetch(x, s) /\ x.timing = s.timing /\ s.status = "work"
  /\ \/ x = s
     \/ x.status = "finish" /\ x.asked = <<>> /\ x.old = Len(x.fifo)

\* Reading an answer keeps the invariant: the one there is to read, when no earlier connection left
\* any, is the answer to the one request that waits.
LEMMA ReadKeeps ==
  ASSUME ServiceInv, WholeInv, NEW x, Reads(x), NEW l, Aiding!Read(x, l),
         kind' = kind, server' = server
  PROVE  ServiceInv' /\ WholeInv'
<1>1. /\ KindOk /\ FlashOk /\ s \in Service /\ Fetching(s) /\ s.old <= Len(s.fifo)
      /\ Short(s) /\ s.status = "work" /\ server \in 1 .. MaxFlag
  BY DEF ServiceInv, Reads
<1>2. /\ x \in Service /\ x.fifo = s.fifo /\ x.inuse = s.inuse /\ x.timing = s.timing
      /\ x.start = s.start
      /\ Fetching(x) /\ Short(x) /\ (OfOne(s) => OfOne(x)) /\ x.old <= Len(x.fifo)
      /\ x.status \in {"work", "finish"}
  <2>1. x \in Service /\ SameFetch(x, s)
    BY DEF Reads
  <2>2. Fetching(x) /\ Short(x) /\ (OfOne(s) => OfOne(x))
    BY <1>1, <2>1, SameFetchIs
  <2>3. x.old <= Len(x.fifo)
    <3>1. Len(x.fifo) \in Nat
      BY <2>1, ServiceIs, LenProperties
    <3> QED
      BY <1>1, <3>1 DEF Reads
  <2> QED
    BY <1>1, <2>1, <2>2, <2>3 DEF Reads, SameFetch
<1>3. CASE x.fifo = <<>>
  <2>1. s' = x /\ flash' = flash /\ stale' = stale
    BY <1>2, <1>3, ReadIs
  <2>2. ServiceInv'
    BY <1>1, <1>2, <2>1, ServiceStep
  <2>3. ~stale => Current(x)
    BY <1>1, <1>2, ClosedIsCurrent DEF WholeInv, Reads
  <2>4. ~stale => WholeFile(x.inuse) /\ WholeFile(flash) /\ OfOne(x)
    BY <1>2 DEF WholeInv
  <2>5. CASE ~stale
    <3>1. WholeFile(x.inuse) /\ WholeFile(flash) /\ OfOne(x) /\ Current(x)
      BY <2>3, <2>4, <2>5
    <3> QED
      BY <2>1, <2>2, <3>1, FileStep
  <2>6. CASE stale
    <3>1. stale'
      BY <2>1, <2>6
    <3> QED
      BY <2>2, <3>1 DEF WholeInv
  <2> QED
    BY <2>2, <2>5, <2>6
<1>4. CASE x.fifo # <<>>
  <2> DEFINE m == Head(x.fifo)
             n == Popped(x)
             y == s'
  <2>1. /\ n \in Service /\ n.status = x.status /\ n.timing = x.timing
        /\ n.start = x.start /\ n.inuse = x.inuse /\ n.asked = x.asked
        /\ Len(n.fifo) = Len(x.fifo) - 1 /\ n.old <= Len(n.fifo)
        /\ Fetching(n) /\ Short(n) /\ (OfOne(s) => OfOne(n))
        /\ m \in Reply /\ m = x.fifo[1] /\ (x.old = 0 => n.old = 0)
    BY <1>1, <1>2, <1>4, PoppedIs
  <2>2. /\ stale' = (stale \/ s.old > 0)
        /\ m.what = "time" =>
             s' = (IF n.timing THEN Aiding!AfterTime(n) ELSE n) /\ UNCHANGED <<flash, fresh>>
        /\ m.what # "time" =>
             /\ s' = Aiding!AfterFile(n, m)
             /\ ~Aiding!IsComplete(n, m) => flash' = flash
             /\ Aiding!IsComplete(n, m) => flash' = s'.inuse \/ flash' = Torn
    BY <1>2, <1>4, ReadIs
  <2> HIDE DEF m, n
  <2>3. m.what = "time" \/ m.what = "file"
    BY <2>1 DEF Reply
  \* What is read when no answer of an earlier connection is.
  <2>4. ASSUME ~stale'
        PROVE  /\ ~stale /\ WholeFile(s.inuse) /\ WholeFile(flash) /\ OfOne(s)
               /\ Meets(s, m) /\ n.asked = <<>> /\ n.fifo = <<>> /\ n.old = 0
    <3>0. ~stale
      BY <2>2, <2>4
    <3>1. ~(s.old > 0)
      BY <2>2, <2>4
    <3>2. WholeFile(s.inuse) /\ WholeFile(flash) /\ OfOne(s) /\ Current(s)
      BY <3>0 DEF WholeInv
    <3>3. /\ s.old \in Nat /\ s.fifo \in Seq(Reply) /\ s.asked \in Seq(Request)
          /\ Len(s.fifo) \in Nat /\ Len(s.asked) \in Nat /\ Len(s.fifo) # 0
      BY <1>1, <1>2, <1>4, ServiceIs, LenProperties, EmptySeq
    <3>4. Len(s.asked) + Len(s.fifo) <= s.old + 1
      BY <1>1, <3>2 DEF Current
    <3>5. s.old = 0 /\ Len(s.fifo) = 1 /\ Len(s.asked) = 0
      <4> DEFINE a == Len(s.asked)
                 f == Len(s.fifo)
                 o == s.old
      <4>1. a \in Nat /\ f \in Nat /\ o \in Nat /\ f # 0 /\ a + f <= o + 1
        BY <3>3, <3>4
      <4>2. ~(o > 0)
        BY <3>1
      <4> HIDE DEF a, f, o
      <4>3. o = 0 /\ f = 1 /\ a = 0
        BY ONLY <4>1, <4>2
      <4> QED
        BY <4>3 DEF a, f, o
    <3>6. s.asked = <<>>
      BY <3>3, <3>5, EmptySeq
    <3>7. Meets(s, m)
      <4>1. 1 \in 1 .. Len(s.fifo) /\ 1 > s.old
        BY <3>5
      <4> QED
        BY <1>2, <2>1, <3>2, <4>1 DEF Current
    <3>8. Len(n.fifo) = 0 /\ n.fifo \in Seq(Reply) /\ n.old \in Nat
      BY <1>2, <2>1, <3>5, ServiceIs
    <3>9. n.fifo = <<>> /\ n.old = 0
      BY <2>1, <3>8, EmptySeq
    <3>10. n.asked = <<>>
      BY <2>1, <3>6 DEF Reads
    <3> QED
      BY <3>0, <3>2, <3>7, <3>9, <3>10
  <2>5. \A z : Turns(n, z) =>
          z \in Service /\ z.old <= Len(z.fifo) /\ z.status \in {"work", "finish"}
    <3> SUFFICES ASSUME NEW z, Turns(n, z)
                 PROVE  z \in Service /\ z.old <= Len(z.fifo) /\ z.status \in {"work", "finish"}
      OBVIOUS
    <3>1. z \in Service /\ z.fifo = n.fifo /\ Len(z.fifo) \in Nat
      BY ServiceIs, LenProperties DEF Turns
    <3> QED
      BY <2>1, <3>1 DEF Turns
  <2>6. CASE m.what = "time" /\ n.timing
    <3> DEFINE z == Aiding!AfterTime(n)
    <3>1. /\ Turns(n, z) /\ z.timing = FALSE /\ Fetching(z) /\ Short(z) /\ OfOne(z)
          /\ z.inuse = n.inuse \/ (z.inuse = flash /\ flash # Torn)
      BY <1>1, <2>1, AfterTimeIs
    <3>2. s' = z /\ flash' = flash
      BY <2>2, <2>6
    <3> HIDE DEF z
    <3>3. z \in Service /\ z.old <= Len(z.fifo) /\ z.status \in {"work", "finish"}
      BY <2>5, <3>1
    <3>4. ServiceInv'
      BY <1>1, <3>1, <3>2, <3>3, ServiceStep
    <3>5. ASSUME ~stale'
          PROVE  WholeInv'
      <4>1. Current(z)
        BY <2>1, <2>4, <3>1, <3>5, TurnsCurrent
      <4>2. WholeFile(z.inuse) /\ WholeFile(flash)
        BY <1>2, <2>1, <2>4, <3>1, <3>5
      <4> QED
        BY <3>1, <3>2, <4>1, <4>2, FileStep
    <3> QED
      BY <3>4, <3>5 DEF WholeInv
  <2>7. CASE m.what = "time" /\ ~n.timing
    <3>1. s' = n /\ flash' = flash
      BY <2>2, <2>7
    <3>2. ServiceInv'
      BY <1>1, <1>2, <2>1, <3>1, ServiceStep
    <3>3. ~stale' => FALSE
      BY <1>2, <2>1, <2>4, <2>7 DEF Meets
    <3> QED
      BY <3>2, <3>3 DEF WholeInv
  <2>8. CASE m.what = "file"
    <3> DEFINE z == Aiding!AfterFile(n, m)
    <3>1. Taken(n, m, z)
      BY <1>1, <2>1, <2>8, AfterFileIs
    <3>2. /\ s' = z
          /\ ~Aiding!IsComplete(n, m) => flash' = flash
          /\ Aiding!IsComplete(n, m) => flash' = z.inuse \/ flash' = Torn
      BY <2>2, <2>8
    <3> HIDE DEF z
    <3>3. z \in Service /\ z.old <= Len(z.fifo) /\ z.status \in {"work", "finish"}
      BY <2>5, <3>1 DEF Taken
    <3>4. FlashOk'
      <4>1. flash' \in Aiding!File \cup {NoFile, Torn}
        BY <1>1, <3>1, <3>2 DEF FlashOk, Taken
      <4> QED
        BY <4>1 DEF FlashOk
    <3>5. ServiceInv'
      BY <1>1, <3>1, <3>2, <3>3, <3>4 DEF Taken, ServiceInv, KindOk, Fetching, Short,
         Aiding!IsFirst, Aiding!FirstBlock
    <3>6. ASSUME ~stale'
          PROVE  WholeInv'
      <4>1. s.timing = FALSE /\ m.at = s.start
        <5>1. s.timing \in BOOLEAN
          BY <1>1, ServiceIs
        <5> QED
          BY <2>4, <2>8, <3>6, <5>1 DEF Meets
      <4>2. OfOne(n) /\ m.at = n.start /\ z.timing = FALSE
        BY <1>2, <2>1, <2>4, <3>1, <3>6, <4>1 DEF Taken
      <4>3. OfOne(z) /\ Turns(n, z)
        BY <3>1, <4>2 DEF Taken
      <4>4. Current(z)
        BY <2>1, <2>4, <3>6, <4>2, <4>3, TurnsCurrent
      <4>5. WholeFile(z.inuse) /\ WholeFile(flash')
        BY <1>2, <2>1, <2>4, <3>1, <3>2, <3>6, <4>2 DEF Taken, WholeFile
      <4> QED
        BY <3>2, <4>3, <4>4, <4>5 DEF WholeInv, WholeFile, OfOne, Current, Meets,
           Aiding!IsFirst, Aiding!FirstBlock, Aiding!Wanted
    <3> QED
      BY <3>5, <3>6 DEF WholeInv
  <2> QED
    BY <2>3, <2>6, <2>7, <2>8
<1> QED
  BY <1>3, <1>4

-----------------------------------------------------------------------------
(* The exchange with the chip.                                             *)

Writings == {"time", "pos", "data"}
Phases == {"before", "data", "working"}
Exchange ==
  [required : BOOLEAN, known : BOOLEAN, out : SUBSET Writings,
   seg : 0 .. Blocks - 1, phase : Phases]

\* The fields of the exchange.
LEMMA ExchangeIs ==
  ASSUME NEW a \in Exchange
  PROVE  /\ a.required \in BOOLEAN /\ a.known \in BOOLEAN
         /\ a.out \subseteq Writings /\ a.seg \in 0 .. Blocks - 1
         /\ a.phase \in Phases
  BY DEF Exchange

\* The exchange with other values of some fields.
LEMMA ExchangeWith ==
  ASSUME NEW a \in Exchange
  PROVE  /\ \A r \in BOOLEAN :
              [a EXCEPT !.required = r] \in Exchange
         /\ \A k \in BOOLEAN :
              [a EXCEPT !.known = k] \in Exchange
         /\ \A o \in SUBSET Writings :
              [a EXCEPT !.out = o] \in Exchange
         /\ \A p \in Phases :
              [a EXCEPT !.phase = p] \in Exchange
         /\ \A g \in 0 .. Blocks - 1, o \in SUBSET Writings :
              [a EXCEPT !.seg = g, !.out = o] \in Exchange
         /\ \A r \in BOOLEAN, g \in 0 .. Blocks - 1 :
              [a EXCEPT !.required = r, !.seg = g] \in Exchange
         /\ \A r \in BOOLEAN, g \in 0 .. Blocks - 1, o \in SUBSET Writings :
              [a EXCEPT !.required = r, !.seg = g, !.out = o] \in Exchange
         /\ \A k \in BOOLEAN, r \in BOOLEAN :
              [a EXCEPT !.known = k, !.required = r] \in Exchange
         /\ \A k \in BOOLEAN, o \in SUBSET Writings :
              [a EXCEPT !.out = o, !.known = k] \in Exchange
<1>1. \A r \in BOOLEAN :
        [a EXCEPT !.required = r] \in Exchange
  BY DEF Exchange
<1>2. \A k \in BOOLEAN :
        [a EXCEPT !.known = k] \in Exchange
  BY DEF Exchange
<1>3. \A o \in SUBSET Writings :
        [a EXCEPT !.out = o] \in Exchange
  BY DEF Exchange
<1>4. \A p \in Phases :
        [a EXCEPT !.phase = p] \in Exchange
  BY DEF Exchange
<1>5. \A g \in 0 .. Blocks - 1, o \in SUBSET Writings :
        [a EXCEPT !.seg = g, !.out = o] \in Exchange
  BY DEF Exchange
<1>6. \A r \in BOOLEAN, g \in 0 .. Blocks - 1 :
        [a EXCEPT !.required = r, !.seg = g] \in Exchange
  BY DEF Exchange
<1>7. \A r \in BOOLEAN, g \in 0 .. Blocks - 1, o \in SUBSET Writings :
        [a EXCEPT !.required = r, !.seg = g, !.out = o] \in Exchange
  BY DEF Exchange
<1>8. \A k \in BOOLEAN, r \in BOOLEAN :
        [a EXCEPT !.known = k, !.required = r] \in Exchange
  BY DEF Exchange
<1>9. \A k \in BOOLEAN, o \in SUBSET Writings :
        [a EXCEPT !.out = o, !.known = k] \in Exchange
  BY DEF Exchange
<1> QED
  BY <1>1, <1>2, <1>3, <1>4, <1>5, <1>6, <1>7, <1>8, <1>9

\* A chip that is silent.
LEMMA SilentIs ==
  Aiding!Silent \in Exchange /\ 0 \in 0 .. Blocks - 1
<1>1. 0 \in 0 .. Blocks - 1 /\ {} \in SUBSET Writings
  BY AidingLimits
<1> QED
  BY <1>1 DEF Aiding!Silent, Exchange, Writings, Phases

\* What the service gives the chip.
LEMMA AidingsAre ==
  ASSUME NEW a \in Exchange, NEW u \in BOOLEAN, NEW b \in Aiding!Aidings(a, u)
  PROVE  b \in Exchange
<1>1. 0 \in 0 .. Blocks - 1 /\ {} \in SUBSET Writings
  BY AidingLimits
<1>2. ASSUME NEW c \in Exchange
      PROVE  Aiding!WriteTime(c) \in Exchange /\ Aiding!Reopened(c) \in Exchange
  <2> DEFINE o == IF c.known THEN c.out \cup {"time"} ELSE c.out
  <2>1. o \in SUBSET Writings
    BY ExchangeIs DEF Writings
  <2>2. Aiding!WriteTime(c) = [c EXCEPT !.seg = 0, !.out = o]
    BY DEF Aiding!WriteTime, Exchange
  <2> HIDE DEF o
  <2>3. [c EXCEPT !.seg = 0, !.out = o] \in Exchange
    BY <1>1, <2>1, ExchangeWith
  <2>4. Aiding!Reopened(c) \in Exchange
    <3> DEFINE d == [c EXCEPT !.seg = 0, !.out = {}]
               f == [d EXCEPT !.known = FALSE]
    <3>1. d \in Exchange
      BY <1>1, ExchangeWith
    <3>2. Aiding!Reopened(c) = [f EXCEPT !.phase = "before"]
      BY DEF Aiding!Reopened, Exchange
    <3> HIDE DEF d
    <3>3. FALSE \in BOOLEAN /\ "before" \in Phases
      BY DEF Phases
    <3>4. f \in Exchange
      BY <3>1, <3>3, ExchangeWith
    <3> HIDE DEF f
    <3> QED
      BY <3>2, <3>3, <3>4, ExchangeWith
  <2> QED
    BY <2>2, <2>3, <2>4
<1>3. [a EXCEPT !.required = TRUE] \in Exchange
  <2>1. TRUE \in BOOLEAN
    OBVIOUS
  <2> QED
    BY <2>1, ExchangeWith
<1>4. \A c \in Aiding!TimeRequired(a, u) : c \in Exchange
  <2> DEFINE d == [a EXCEPT !.required = TRUE]
  <2>1. Aiding!TimeRequired(a, u) \subseteq {d, Aiding!WriteTime(d), Aiding!Reopened(d)}
    BY DEF Aiding!TimeRequired
  <2>2. d \in Exchange
    BY <1>3
  <2> HIDE DEF d
  <2> QED
    BY <1>2, <2>1, <2>2
<1>5. b = a \/ b \in Aiding!TimeRequired(a, u)
  BY DEF Aiding!Aidings
<1> QED
  BY <1>4, <1>5

\* The chip takes a segment and the next is written.
LEMMA DataRequiredIs ==
  ASSUME NEW a \in Exchange
  PROVE  Aiding!DataRequired(a) \in Exchange
<1>1. /\ a.required \in BOOLEAN /\ a.known \in BOOLEAN
      /\ a.out \subseteq Writings /\ a.seg \in 0 .. Blocks - 1
  BY ExchangeIs
<1>2. 0 \in 0 .. Blocks - 1 /\ TRUE \in BOOLEAN
  BY AidingLimits
<1>3. CASE s.inuse = NoFile
  <2>1. Aiding!DataRequired(a) = [a EXCEPT !.required = TRUE]
    BY <1>3 DEF Aiding!DataRequired
  <2> QED
    BY <1>2, <2>1, ExchangeWith
<1>4. CASE s.inuse # NoFile /\ ~fresh
  <2>1. Aiding!DataRequired(a) = [a EXCEPT !.required = TRUE, !.seg = 0]
    BY <1>4 DEF Aiding!DataRequired
  <2> QED
    BY <1>2, <2>1, ExchangeWith
<1>5. CASE s.inuse # NoFile /\ fresh
  <2> DEFINE last == Aiding!LastSegment(a)
             r == ~Aiding!LastSegment(a)
             g == IF Aiding!LastSegment(a) THEN 0 ELSE a.seg + 1
             o == IF a.phase = "data" THEN a.out \cup {"data"} ELSE a.out
  <2>1. Aiding!DataRequired(a) = [a EXCEPT !.required = r, !.seg = g, !.out = o]
    BY <1>5 DEF Aiding!DataRequired, Exchange
  <2>2. r \in BOOLEAN /\ o \in SUBSET Writings
    BY <1>1 DEF Writings, Aiding!LastSegment
  <2>3. g \in 0 .. Blocks - 1
    <3>1. CASE Aiding!LastSegment(a)
      BY <1>2, <3>1
    <3>2. CASE ~Aiding!LastSegment(a)
      <4>1. a.seg + 1 # Blocks
        BY <3>2 DEF Aiding!LastSegment
      <4>2. a.seg + 1 \in 0 .. Blocks - 1
        BY <1>1, <4>1, AidingLimits
      <4> QED
        BY <3>2, <4>2
    <3> QED
      BY <3>1, <3>2
  <2> HIDE DEF r, g, o
  <2>4. [a EXCEPT !.required = r, !.seg = g, !.out = o] \in Exchange
    BY <2>2, <2>3, ExchangeWith
  <2> QED
    BY <2>1, <2>4
<1> QED
  BY <1>3, <1>4, <1>5

\* What the chip answers and how it is switched keep the exchange.
LEMMA ChipKeeps ==
  ASSUME aid \in Exchange,
         Aiding!Acknowledge \/ Aiding!Announce \/ Aiding!Receiver \/ Aiding!LoseAck
  PROVE  aid' \in Exchange
<1>1. /\ aid.required \in BOOLEAN /\ aid.known \in BOOLEAN
      /\ aid.out \subseteq Writings /\ aid.seg \in 0 .. Blocks - 1 /\ aid.phase \in Phases
      /\ TRUE \in BOOLEAN /\ FALSE \in BOOLEAN /\ 0 \in 0 .. Blocks - 1
  BY ExchangeIs, AidingLimits DEF Phases
<1>2. \A m : Aiding!Took(m) \in Exchange
  <2> SUFFICES ASSUME NEW m
               PROVE  Aiding!Took(m) \in Exchange
    OBVIOUS
  <2> DEFINE o == aid.out \ {m}
  <2>1. Aiding!Took(m) = [aid EXCEPT !.out = o] /\ o \in SUBSET Writings
    BY <1>1 DEF Aiding!Took, Exchange
  <2> HIDE DEF o
  <2> QED
    BY <2>1, ExchangeWith
<1>3. \A a \in Exchange : \A p \in Phases : [a EXCEPT !.phase = p] \in Exchange
  BY ExchangeWith
<1>4. "before" \in Phases /\ "data" \in Phases /\ "working" \in Phases
  BY DEF Phases
<1>5. CASE Aiding!Acknowledge
  <2>1. CASE "time" \in aid.out /\ aid' = [Aiding!Took("time") EXCEPT !.out = @ \cup {"pos"}]
    <3> DEFINE a == Aiding!Took("time")
               o == a.out \cup {"pos"}
    <3>1. a \in Exchange
      BY <1>2
    <3>2. a.out \subseteq Writings
      BY <3>1, ExchangeIs
    <3>3. o \in SUBSET Writings
      BY <3>2 DEF Writings
    <3>4. aid' = [a EXCEPT !.out = o]
      BY <2>1, <3>1 DEF Exchange
    <3> HIDE DEF a, o
    <3> QED
      BY <3>1, <3>3, <3>4, ExchangeWith
  <2>2. CASE aid' = Aiding!DataRequired([Aiding!Took("pos") EXCEPT !.phase = "data"])
    <3>1. [Aiding!Took("pos") EXCEPT !.phase = "data"] \in Exchange
      BY <1>2, <1>3, <1>4
    <3> QED
      BY <2>2, <3>1, DataRequiredIs
  <2>3. CASE LET more == Aiding!Usable(s.inuse) /\ ~Aiding!LastSegment(aid) IN
             aid' = (IF aid.phase # "data" THEN Aiding!Took("data")
                     ELSE [Aiding!DataRequired(Aiding!Took("data")) EXCEPT
                            !.phase = IF more THEN "data" ELSE "working"])
    <3> DEFINE d == Aiding!DataRequired(Aiding!Took("data"))
               more == Aiding!Usable(s.inuse) /\ ~Aiding!LastSegment(aid)
               p == IF more THEN "data" ELSE "working"
    <3>1. d \in Exchange
      BY <1>2, DataRequiredIs
    <3>2. p \in Phases
      BY <1>4
    <3>3. aid' = Aiding!Took("data") \/ aid' = [d EXCEPT !.phase = p]
      BY <2>3
    <3> HIDE DEF d, p
    <3> QED
      BY <1>2, <1>3, <3>1, <3>2, <3>3
  <2> QED
    BY <1>5, <2>1, <2>2, <2>3 DEF Aiding!Acknowledge
<1>6. CASE Aiding!Announce
  <2> DEFINE k == [aid EXCEPT !.known = TRUE, !.required = TRUE]
             r == aid.required \/ aid.phase = "before"
             o == IF k.known THEN k.out \cup {"time"} ELSE k.out
  <2>1. r \in BOOLEAN
    OBVIOUS
  <2>2. k \in Exchange
    BY <1>1, ExchangeWith
  <2>3. o \in SUBSET Writings
    <3>1. k.out \subseteq Writings
      BY <2>2, ExchangeIs
    <3> QED
      BY <3>1 DEF Writings
  <2>4. Aiding!WriteTime(k) = [k EXCEPT !.seg = 0, !.out = o]
    BY <2>2 DEF Aiding!WriteTime, Exchange
  <2>5. \/ aid' = Aiding!WriteTime(k)
        \/ aid' = [aid EXCEPT !.known = TRUE, !.required = r]
    BY <1>6 DEF Aiding!Announce, Exchange
  <2> HIDE DEF k, r, o
  <2>6. [k EXCEPT !.seg = 0, !.out = o] \in Exchange
    BY <1>1, <2>2, <2>3, ExchangeWith
  <2>7. [aid EXCEPT !.known = TRUE, !.required = r] \in Exchange
    BY <1>1, <2>1, ExchangeWith
  <2> QED
    BY <2>4, <2>5, <2>6, <2>7
<1>7. CASE Aiding!Receiver
  <2>1. [Aiding!Silent EXCEPT !.required = aid.required, !.seg = aid.seg] \in Exchange
    <3> DEFINE r == aid.required
               g == aid.seg
    <3>1. r \in BOOLEAN /\ g \in 0 .. Blocks - 1
      BY <1>1
    <3> HIDE DEF r, g
    <3>2. [Aiding!Silent EXCEPT !.required = r, !.seg = g] \in Exchange
      BY <3>1, SilentIs, ExchangeWith
    <3> QED
      BY <3>2 DEF r, g
  <2>2. [aid EXCEPT !.out = {}, !.known = FALSE] \in Exchange
    <3>1. {} \in SUBSET Writings
      OBVIOUS
    <3> QED
      BY <1>1, <3>1, ExchangeWith
  <2>3. [aid EXCEPT !.phase = "working"] \in Exchange
    BY <1>3, <1>4
  <2>4. \/ aid' = [Aiding!Silent EXCEPT !.required = aid.required, !.seg = aid.seg]
        \/ aid' = [aid EXCEPT !.out = {}, !.known = FALSE]
        \/ aid' = [aid EXCEPT !.phase = "working"]
        \/ aid' = aid
    BY <1>7 DEF Aiding!Receiver
  <2> QED
    BY <2>1, <2>2, <2>3, <2>4
<1>8. CASE Aiding!LoseAck
  BY <1>2, <1>8 DEF Aiding!LoseAck
<1> QED
  BY <1>5, <1>6, <1>7, <1>8

-----------------------------------------------------------------------------
(* The steps of the service.                                               *)

AidingInv ==
  /\ ServiceInv /\ WholeInv /\ aid \in Exchange
  /\ loss \in 0 .. MaxLoss /\ boots \in 0 .. MaxBoot

\* Steps that leave the service and its file alone.
LEMMA ServiceStays ==
  ASSUME ServiceInv, WholeInv, kind' = kind, s' = s, flash' = flash, stale' = stale,
         server' \in 1 .. MaxFlag
  PROVE  ServiceInv' /\ WholeInv'
<1>1. ServiceInv'
  BY DEF ServiceInv, KindOk, FlashOk, Fetching, Short, Aiding!IsFirst, Aiding!FirstBlock
<1>2. WholeInv'
  BY DEF WholeInv, WholeFile, OfOne, Current, Meets, Aiding!IsFirst, Aiding!FirstBlock,
     Aiding!Wanted
<1> QED
  BY <1>1, <1>2

\* A step to a record y that fetches what s does, or nothing.
LEMMA ServiceGoes ==
  ASSUME ServiceInv, WholeInv, kind' = kind, flash' = flash, stale' = stale, server' = server,
         NEW y \in Service, s' = y, Fetching(y), y.old <= Len(y.fifo),
         y.status \in {"init", "connecting"} => Aiding!IsFirst(y),
         y.status = "work" => Short(y),
         y.inuse = s.inuse \/ (y.inuse = flash /\ flash # Torn),
         OfOne(s) => OfOne(y), Current(s) => Current(y)
  PROVE  ServiceInv' /\ WholeInv'
<1>1. KindOk /\ FlashOk /\ server' \in 1 .. MaxFlag
  BY DEF ServiceInv
<1>2. ServiceInv'
  BY <1>1, ServiceStep
<1>3. CASE stale
  BY <1>2, <1>3 DEF WholeInv
<1>4. CASE ~stale
  <2>1. WholeFile(y.inuse) /\ WholeFile(flash) /\ OfOne(y) /\ Current(y)
    BY <1>4 DEF WholeInv
  <2> QED
    BY <1>2, <2>1, FileStep
<1> QED
  BY <1>3, <1>4

\* The connection is closed, in whatever state.
LEMMA Closes ==
  ASSUME ServiceInv, WholeInv, kind' = kind, flash' = flash, stale' = stale, server' = server,
         NEW st \in {"finish", "error"}, s' = [Aiding!Close(s) EXCEPT !.status = st]
  PROVE  ServiceInv' /\ WholeInv'
<1> DEFINE y == [Aiding!Close(s) EXCEPT !.status = st]
<1>1. s \in Service /\ st \in AidingStatus /\ Fetching(s)
  BY DEF ServiceInv, AidingStatus
<1>2. /\ y \in Service /\ SameFetch(y, s) /\ y.timing = s.timing
      /\ y.status = st /\ y.link = "none" /\ y.asked = <<>> /\ y.old = Len(y.fifo)
  BY <1>1, CloseIs
<1>3. s' = y
  OBVIOUS
<1> HIDE DEF y
<1>4. Fetching(y) /\ (OfOne(s) => OfOne(y)) /\ y.inuse = s.inuse
  BY <1>1, <1>2, SameFetchIs DEF SameFetch
<1>5. y.status \notin {"init", "connecting", "work"}
  BY <1>2
<1>6. Current(y) /\ y.old <= Len(y.fifo)
  BY <1>2, <1>5, ClosedIsCurrent
<1> QED
  BY <1>2, <1>3, <1>4, <1>5, <1>6, ServiceGoes

\* agps_service_close_for_reconnect closes the connection.
LEMMA FinishCloses == \A r : Aiding!Finish(r) = [Aiding!Close(r) EXCEPT !.status = "finish"]
  BY DEF Aiding!Finish

\* A service that begins opens a connection, or has its file.
LEMMA InitProcKeeps ==
  ASSUME ServiceInv, WholeInv, Aiding!InitProc
  PROVE  ServiceInv' /\ WholeInv'
<1> DEFINE n == IF Aiding!Fixed THEN Aiding!ReadFile(s) ELSE s
<1>1. /\ kind' = kind /\ flash' = flash /\ stale' = stale /\ server' = server
      /\ s.status = "init"
      /\ s' = IF Aiding!Fixed /\ Aiding!Usable(n.inuse) THEN Aiding!Finish(n)
              ELSE [n EXCEPT !.status = "connecting", !.link = "opening"]
  BY DEF Aiding!InitProc, Aiding!Outside
<1>2. /\ s \in Service /\ FlashOk /\ KindOk /\ Fetching(s) /\ Aiding!IsFirst(s)
      /\ s.old <= Len(s.fifo)
  BY <1>1 DEF ServiceInv
<1>3. /\ n \in Service /\ n.status = s.status /\ n.timing = s.timing
      /\ n.flag = s.flag /\ n.start = s.start /\ n.total = s.total /\ n.data = s.data
      /\ n.asked = s.asked /\ n.fifo = s.fifo /\ n.old = s.old
      /\ n.inuse = s.inuse \/ (n.inuse = flash /\ flash # Torn)
  BY <1>2, ReadFileIs
<1> HIDE DEF n
<1>4. Aiding!IsFirst(n) /\ Fetching(n) /\ (OfOne(s) => OfOne(n))
  <2>1. Aiding!IsFirst(n)
    BY <1>2, <1>3 DEF Aiding!IsFirst
  <2> QED
    BY <1>2, <1>3, <2>1 DEF Fetching, OfOne
<1>5. CASE s' = Aiding!Finish(n)
  <2> DEFINE y == Aiding!Finish(n)
  <2>1. /\ y \in Service /\ SameFetch(y, n) /\ y.status = "finish" /\ y.asked = <<>>
        /\ y.old = Len(y.fifo)
    BY <1>3, FinishIs
  <2>2. s' = y
    BY <1>5
  <2> HIDE DEF y
  <2>3. Fetching(y) /\ (OfOne(n) => OfOne(y)) /\ y.inuse = n.inuse
    BY <1>3, <1>4, <2>1, SameFetchIs DEF SameFetch
  <2>4. Current(y) /\ y.old <= Len(y.fifo)
    BY <2>1, ClosedIsCurrent
  <2> QED
    BY <1>1, <1>3, <1>4, <2>1, <2>2, <2>3, <2>4, ServiceGoes
<1>6. CASE s' = [n EXCEPT !.status = "connecting", !.link = "opening"]
  <2> DEFINE y == [n EXCEPT !.status = "connecting", !.link = "opening"]
  <2>1. "connecting" \in AidingStatus /\ "opening" \in {"none", "opening", "up"}
    BY DEF AidingStatus
  <2>2. y \in Service
    BY <1>3, <2>1, ServiceWith
  <2>3. /\ SameFetch(y, n) /\ y.status = "connecting" /\ y.asked = n.asked /\ y.old = n.old
    BY <1>3 DEF Service, SameFetch
  <2>4. s' = y
    BY <1>6
  <2> HIDE DEF y
  <2>5. Fetching(y) /\ (OfOne(n) => OfOne(y)) /\ y.inuse = n.inuse /\ Aiding!IsFirst(y)
    BY <1>3, <1>4, <2>2, <2>3, SameFetchIs DEF SameFetch
  <2>6. y.old <= Len(y.fifo)
    BY <1>2, <1>3, <2>3 DEF SameFetch
  <2>7. Current(s) => Current(y)
    <3>1. Current(s) => y.asked = <<>> /\ y.old = Len(y.fifo)
      BY <1>1, <1>3, <2>3 DEF Current, SameFetch
    <3> QED
      BY <2>2, <2>3, <3>1, ClosedIsCurrent
  <2> QED
    BY <1>1, <1>3, <1>4, <2>2, <2>3, <2>4, <2>5, <2>6, <2>7, ServiceGoes
<1> QED
  BY <1>1, <1>5, <1>6

\* The time is the first that a new connection asks for.
LEMMA ConnectedKeeps ==
  ASSUME ServiceInv, WholeInv, Aiding!Connected
  PROVE  ServiceInv' /\ WholeInv'
<1> DEFINE c == [s EXCEPT !.status = "work", !.link = "up"]
           d == [c EXCEPT !.timing = TRUE]
           q == [what |-> "time", at |-> 0]
           y == Aiding!Send(d, q)
<1>1. /\ kind' = kind /\ flash' = flash /\ stale' = stale /\ server' = server
      /\ s.status = "connecting" /\ s' = Aiding!AskTime([s EXCEPT !.link = "up", !.status = "work"])
  BY DEF Aiding!Connected, Aiding!Outside
<1>2. s \in Service /\ Fetching(s) /\ Aiding!IsFirst(s) /\ s.old <= Len(s.fifo)
  BY <1>1 DEF ServiceInv
<1>3. c \in Service
  <2>1. "work" \in AidingStatus /\ "up" \in {"none", "opening", "up"}
    BY DEF AidingStatus
  <2> QED
    BY <1>2, <2>1, ServiceWith
<1>4. /\ SameFetch(c, s) /\ c.status = "work" /\ c.asked = s.asked /\ c.old = s.old
  BY <1>2 DEF Service, SameFetch
<1>5. c = [s EXCEPT !.link = "up", !.status = "work"]
  BY <1>2 DEF Service
<1> HIDE DEF c
<1>6. Aiding!AskTime(c) = Aiding!Send([c EXCEPT !.timing = TRUE], q)
  <2>1. (c.status = "work") = TRUE
    BY <1>4
  <2> QED
    BY <2>1 DEF Aiding!AskTime
<1>7. d \in Service
  <2>1. TRUE \in BOOLEAN
    OBVIOUS
  <2> QED
    BY <1>3, <2>1, ServiceWith
<1>8. /\ SameFetch(d, c) /\ d.status = "work" /\ d.asked = c.asked /\ d.old = c.old
      /\ d.timing = TRUE
  BY <1>3, <1>4 DEF Service, SameFetch
<1>9. s' = y
  BY <1>1, <1>5, <1>6
<1>10. q \in Request
  BY DEF Request
<1>11. q.what = "time"
  OBVIOUS
<1> HIDE DEF d, q
<1>12. /\ y \in Service /\ SameFetch(y, d) /\ y.timing = d.timing
       /\ y.status = "work" /\ y.asked = Append(d.asked, q) /\ y.old = d.old
  BY <1>7, <1>8, <1>10, SendIs
<1> HIDE DEF y
<1>13. SameFetch(y, s)
  BY <1>4, <1>8, <1>12 DEF SameFetch
<1>14. /\ Fetching(y) /\ (OfOne(s) => OfOne(y)) /\ Aiding!IsFirst(y) /\ Short(y)
       /\ y.inuse = s.inuse
  <2>1. Fetching(y) /\ (OfOne(s) => OfOne(y)) /\ Aiding!IsFirst(y)
    BY <1>2, <1>12, <1>13, SameFetchIs
  <2> QED
    BY <1>13, <2>1 DEF Short, SameFetch
<1>15. y.old <= Len(y.fifo)
  BY <1>2, <1>4, <1>8, <1>12, <1>13 DEF SameFetch
<1>16. ASSUME Current(s)
       PROVE  Current(y)
  <2>1. s.asked = <<>> /\ s.old = Len(s.fifo)
    BY <1>1, <1>16 DEF Current
  <2>2. y.asked = <<q>> /\ Len(y.asked) = 1 /\ y.asked[1] = q
    BY <1>4, <1>8, <1>12, <2>1
  <2>3. y.old = Len(y.fifo) /\ Len(y.fifo) \in Nat
    BY <1>4, <1>8, <1>12, <1>13, <2>1, ServiceIs, LenProperties DEF SameFetch
  <2>4. Meets(y, q)
    BY <1>8, <1>11, <1>12 DEF Meets
  <2>5. \A i \in 1 .. Len(y.asked) : Meets(y, y.asked[i])
    BY <2>2, <2>4
  <2>6. \A i \in 1 .. Len(y.fifo) : ~(i > y.old)
    BY <2>3
  <2>7. Len(y.asked) + Len(y.fifo) <= y.old + 1
    BY <2>2, <2>3
  <2> QED
    BY <1>12, <2>5, <2>6, <2>7 DEF Current
<1> QED
  BY <1>1, <1>9, <1>12, <1>14, <1>15, <1>16, ServiceGoes

\* The answer to the first request is the last of the buffer.
LEMMA AnswerKeeps ==
  ASSUME ServiceInv, WholeInv, Aiding!Answer
  PROVE  ServiceInv' /\ WholeInv'
<1> DEFINE r == Head(s.asked)
           m == [what |-> r.what, flag |-> server, at |-> r.at]
           a == Tail(s.asked)
           f == Append(s.fifo, m)
           y == [s EXCEPT !.asked = a, !.fifo = f]
<1>1. /\ kind' = kind /\ flash' = flash /\ stale' = stale /\ server' = server
      /\ s.status = "work" /\ s.asked # <<>>
  BY DEF Aiding!Answer, Aiding!Outside
<1>2. /\ s \in Service /\ Fetching(s) /\ Short(s) /\ s.old <= Len(s.fifo)
      /\ server \in 1 .. MaxFlag
  BY <1>1 DEF ServiceInv
<1>3. s' = y
  BY <1>2 DEF Aiding!Answer, Service
<1>4. /\ s.asked \in Seq(Request) /\ s.fifo \in Seq(Reply) /\ s.old \in Nat
      /\ Len(s.asked) \in Nat /\ Len(s.fifo) \in Nat
  BY <1>2, ServiceIs, LenProperties
<1>5. /\ r \in Request /\ a \in Seq(Request) /\ Len(a) = Len(s.asked) - 1 /\ r = s.asked[1]
      /\ \A i \in 1 .. Len(a) : a[i] = s.asked[i + 1]
  BY <1>1, <1>4, HeadTailProperties
<1>6. m \in Reply
  BY <1>2, <1>5 DEF Request, Reply
<1>7. m.what = r.what /\ m.at = r.at
  OBVIOUS
<1> HIDE DEF m
<1>8. /\ f \in Seq(Reply) /\ Len(f) = Len(s.fifo) + 1
      /\ \A i \in 1 .. Len(s.fifo) : f[i] = s.fifo[i]
      /\ f[Len(s.fifo) + 1] = m
  BY <1>4, <1>6, AppendProperties
<1> HIDE DEF a, f, r
<1>9. y \in Service
  BY <1>2, <1>5, <1>8, ServiceWith
<1>10. /\ y.status = "work" /\ y.timing = s.timing /\ y.start = s.start /\ y.flag = s.flag
       /\ y.total = s.total /\ y.data = s.data /\ y.inuse = s.inuse
       /\ y.asked = a /\ y.fifo = f /\ y.old = s.old
  BY <1>1, <1>2 DEF Service
<1> HIDE DEF y
<1>11. Fetching(y) /\ Short(y) /\ (OfOne(s) => OfOne(y))
  <2>1. Aiding!IsFirst(y) = Aiding!IsFirst(s)
    BY <1>10 DEF Aiding!IsFirst
  <2> QED
    BY <1>2, <1>10, <2>1 DEF Fetching, Short, OfOne
<1>12. y.old <= Len(y.fifo)
  BY <1>2, <1>4, <1>8, <1>10
<1>13. ASSUME Current(s)
       PROVE  Current(y)
  <2>1. \A p : Meets(s, p) => Meets(y, p)
    BY <1>10 DEF Meets
  <2>2. Len(s.asked) # 0
    BY <1>1, <1>4, EmptySeq
  <2>3. \A i \in 1 .. Len(a) : i + 1 \in 1 .. Len(s.asked)
    BY <1>4, <1>5
  <2>4. \A i \in 1 .. Len(y.asked) : Meets(y, y.asked[i])
    BY <1>5, <1>10, <1>13, <2>1, <2>3 DEF Current
  <2>5. Meets(s, m)
    <3>1. 1 \in 1 .. Len(s.asked)
      BY <1>4, <2>2
    <3>2. Meets(s, r)
      BY <1>5, <1>13, <3>1 DEF Current
    <3> QED
      BY <1>7, <3>2 DEF Meets
  <2>6. \A i \in 1 .. Len(f) : i \in 1 .. Len(s.fifo) \/ i = Len(s.fifo) + 1
    BY <1>4, <1>8
  <2>7. \A i \in 1 .. Len(f) : i > s.old => Meets(s, f[i])
    BY <1>8, <1>13, <2>5, <2>6 DEF Current
  <2>8. \A i \in 1 .. Len(y.fifo) : i > y.old => Meets(y, y.fifo[i])
    BY <1>10, <2>1, <2>7
  <2>9. Len(y.asked) + Len(y.fifo) <= y.old + 1
    <3>1. Len(s.asked) + Len(s.fifo) <= s.old + 1
      BY <1>1, <1>13 DEF Current
    <3>2. Len(y.asked) = Len(s.asked) - 1 /\ Len(y.fifo) = Len(s.fifo) + 1 /\ y.old = s.old
      BY <1>5, <1>8, <1>10
    <3> DEFINE k == Len(s.asked)
               n == Len(s.fifo)
               o == s.old
    <3>3. k \in Nat /\ n \in Nat /\ o \in Nat /\ k + n <= o + 1
      BY <1>4, <3>1
    <3> HIDE DEF k, n, o
    <3>4. (k - 1) + (n + 1) <= o + 1
      BY ONLY <3>3
    <3> QED
      BY <3>2, <3>4 DEF k, n, o
  <2> QED
    BY <1>10, <2>4, <2>8, <2>9 DEF Current
<1> QED
  BY <1>1, <1>3, <1>9, <1>10, <1>11, <1>12, <1>13, ServiceGoes

\* A service that is done rests, or begins again when its file is needed.
LEMMA FinishProcKeeps ==
  ASSUME ServiceInv, WholeInv, aid \in Exchange, Aiding!FinishProc
  PROVE  ServiceInv' /\ WholeInv' /\ aid' \in Exchange
<1>1. /\ kind' = kind /\ flash' = flash /\ stale' = stale /\ server' = server
      /\ s.status \in {"finish", "error"}
      /\ \/ s' = s
         \/ s' = [Aiding!Restarted(s) EXCEPT !.timing = FALSE, !.status = "init"]
  BY DEF Aiding!FinishProc, Aiding!Outside
<1>2. aid' \in Exchange
  <2> DEFINE r == aid.required /\ pos = "search"
  <2>1. r \in BOOLEAN
    BY ExchangeIs
  <2>2. aid' = [aid EXCEPT !.required = r]
    BY DEF Aiding!FinishProc
  <2> HIDE DEF r
  <2> QED
    BY <2>1, <2>2, ExchangeWith
<1>3. s \in Service /\ KindOk /\ s.old <= Len(s.fifo) /\ server' \in 1 .. MaxFlag
  BY <1>1 DEF ServiceInv
<1>4. CASE s' = s
  BY <1>1, <1>2, <1>3, <1>4, ServiceStays
<1>5. CASE s' = [Aiding!Restarted(s) EXCEPT !.timing = FALSE, !.status = "init"]
  <2> DEFINE n == Aiding!Restarted(s)
             t == [n EXCEPT !.timing = FALSE]
             l == t.link
             y == [t EXCEPT !.status = "init", !.link = l]
  <2>1. /\ n \in Service /\ n.status = s.status /\ n.link = s.link /\ n.timing = s.timing
        /\ Aiding!IsFirst(n) /\ Fetching(n) /\ Short(n) /\ OfOne(n)
        /\ n.asked = s.asked /\ n.fifo = s.fifo /\ n.old = s.old /\ n.inuse = s.inuse
    BY <1>3, RestartedIs
  <2>2. s' = [n EXCEPT !.timing = FALSE, !.status = "init"]
    BY <1>5
  <2> HIDE DEF n
  <2>3. t \in Service
    <3>1. FALSE \in BOOLEAN
      OBVIOUS
    <3> QED
      BY <2>1, <3>1, ServiceWith
  <2>4. y \in Service
    <3>1. "init" \in AidingStatus /\ l \in {"none", "opening", "up"}
      BY <2>3, ServiceIs DEF AidingStatus
    <3> HIDE DEF t, l
    <3> QED
      BY <2>3, <3>1, ServiceWith
  <2>5. s' = y
    BY <2>1, <2>2 DEF Service
  <2>6. /\ y.status = "init" /\ y.flag = n.flag /\ y.start = n.start /\ y.total = n.total
        /\ y.data = n.data /\ y.inuse = n.inuse /\ y.asked = n.asked /\ y.fifo = n.fifo
        /\ y.old = n.old
    BY <2>1 DEF Service
  <2> HIDE DEF t, l, y
  <2>7. Aiding!IsFirst(y) /\ Fetching(y) /\ OfOne(y) /\ y.inuse = s.inuse
    <3>1. Aiding!IsFirst(y)
      BY <2>1, <2>6 DEF Aiding!IsFirst
    <3> QED
      BY <2>1, <2>6, <3>1 DEF Fetching, OfOne
  <2>8. y.old <= Len(y.fifo)
    BY <1>3, <2>1, <2>6
  <2>9. Current(s) => Current(y)
    <3>1. Current(s) => y.asked = <<>> /\ y.old = Len(y.fifo)
      BY <1>1, <2>1, <2>6 DEF Current
    <3> QED
      BY <2>4, <2>6, <3>1, ClosedIsCurrent
  <2>10. ServiceInv' /\ WholeInv'
    BY <1>1, <2>4, <2>5, <2>6, <2>7, <2>8, <2>9, ServiceGoes
  <2> QED
    BY <1>2, <2>10
<1> QED
  BY <1>1, <1>4, <1>5

\* A service that has just been created.
LEMMA IdleIs ==
  KindOk => /\ Aiding!Idle \in Service /\ Fetching(Aiding!Idle) /\ Aiding!IsFirst(Aiding!Idle)
            /\ OfOne(Aiding!Idle) /\ Aiding!Idle.old = Len(Aiding!Idle.fifo)
            /\ Aiding!Idle.status = "init" /\ Aiding!Idle.asked = <<>>
            /\ Aiding!Idle.inuse = NoFile
<1>1. 0 \in 0 .. MaxFlag /\ 1 \in Nat \ {0} /\ <<>> \in Aiding!File /\ <<>> \in Seq(Request)
      /\ <<>> \in Seq(Reply) /\ 0 \in Nat /\ FALSE \in BOOLEAN
  BY AidingLimits DEF Aiding!File
<1>2. Aiding!Idle \in Service
  BY <1>1 DEF Aiding!Idle, Service, AidingStatus
<1>3. /\ Aiding!Idle.status = "init" /\ Aiding!Idle.asked = <<>> /\ Aiding!Idle.fifo = <<>>
      /\ Aiding!Idle.old = 0 /\ Aiding!Idle.inuse = NoFile /\ Aiding!Idle.flag = 0
      /\ Aiding!Idle.start = 1
  BY DEF Aiding!Idle
<1>4. Aiding!IsFirst(Aiding!Idle)
  BY <1>3 DEF Aiding!IsFirst
<1>5. Aiding!Idle.old = Len(Aiding!Idle.fifo)
  BY <1>3
<1> QED
  BY <1>2, <1>3, <1>4, <1>5 DEF Fetching, OfOne

\* A restart forgets the file in use but not the one on the flash.
LEMMA RestartKeeps ==
  ASSUME ServiceInv, WholeInv, Aiding!Restart
  PROVE  ServiceInv' /\ WholeInv'
<1>1. /\ kind' = kind /\ flash' = flash /\ stale' = stale /\ server' = server
      /\ s' = Aiding!Idle
  BY DEF Aiding!Restart
<1> DEFINE y == Aiding!Idle
<1>2. KindOk /\ FlashOk /\ server' \in 1 .. MaxFlag
  BY <1>1 DEF ServiceInv
<1>3. /\ y \in Service /\ Fetching(y) /\ Aiding!IsFirst(y) /\ OfOne(y)
      /\ y.old = Len(y.fifo) /\ y.status = "init" /\ y.asked = <<>> /\ y.inuse = NoFile
  BY <1>2, IdleIs
<1>4. s' = y
  BY <1>1
<1> HIDE DEF y
<1>5. Current(y) /\ y.old <= Len(y.fifo)
  BY <1>3, ClosedIsCurrent
<1>6. ServiceInv'
  BY <1>1, <1>2, <1>3, <1>4, <1>5, ServiceStep
<1>7. CASE stale
  BY <1>1, <1>6, <1>7 DEF WholeInv
<1>8. CASE ~stale
  <2>1. WholeFile(y.inuse) /\ WholeFile(flash)
    BY <1>3, <1>8 DEF WholeInv, WholeFile
  <2> QED
    BY <1>1, <1>3, <1>4, <1>5, <1>6, <2>1, FileStep
<1> QED
  BY <1>7, <1>8

\* A step that reads counts at most one loss more.
LEMMA ReadCounts ==
  ASSUME NEW x \in Service, NEW l \in 0 .. MaxLoss, Aiding!Read(x, l), aid \in Exchange
  PROVE  loss' \in 0 .. MaxLoss /\ aid' \in Exchange
<1>1. l + 1 \in 0 .. MaxLoss \/ ~(l < MaxLoss)
  BY AidingLimits
<1>2. CASE x.fifo = <<>>
  BY <1>2, ReadIs
<1>3. CASE x.fifo # <<>>
  <2> DEFINE m == Head(x.fifo)
             n == Popped(x)
  <2>1. /\ m.what = "time" =>
             /\ loss' = l
             /\ aid' = aid \/ \E b \in BOOLEAN : aid' \in Aiding!Aidings(aid, b)
        /\ m.what # "time" =>
             /\ ~Aiding!IsComplete(n, m) => loss' = l /\ UNCHANGED <<flash, fresh, aid>>
             /\ Aiding!IsComplete(n, m) =>
                  /\ aid' \in Aiding!Aidings(aid, TRUE)
                  /\ loss' = l \/ (l < MaxLoss /\ loss' = l + 1)
    BY <1>3, ReadIs
  <2> HIDE DEF m, n
  <2>2. loss' = l \/ (l < MaxLoss /\ loss' = l + 1)
    BY <2>1
  <2>3. aid' = aid \/ \E b \in BOOLEAN : aid' \in Aiding!Aidings(aid, b)
    <3>1. TRUE \in BOOLEAN
      OBVIOUS
    <3> QED
      BY <2>1, <3>1
  <2> QED
    BY <1>1, <2>2, <2>3, AidingsAre
<1> QED
  BY <1>2, <1>3

\* Reading the answer that is there.
LEMMA WorkProcKeeps ==
  ASSUME AidingInv, Aiding!WorkProc
  PROVE  AidingInv'
<1>1. /\ s.status = "work" /\ Aiding!Read(s, loss) /\ kind' = kind /\ server' = server
      /\ boots' = boots
  BY DEF Aiding!WorkProc
<1>2. /\ ServiceInv /\ WholeInv /\ aid \in Exchange /\ loss \in 0 .. MaxLoss
      /\ boots \in 0 .. MaxBoot
  BY DEF AidingInv
<1>3. s \in Service
  BY <1>2 DEF ServiceInv
<1>4. Reads(s)
  BY <1>1, <1>3 DEF Reads, SameFetch
<1>5. ServiceInv' /\ WholeInv'
  BY <1>1, <1>2, <1>4, ReadKeeps
<1>6. loss' \in 0 .. MaxLoss /\ aid' \in Exchange
  BY <1>1, <1>2, <1>3, ReadCounts
<1> QED
  BY <1>1, <1>2, <1>5, <1>6 DEF AidingInv

\* Reading what is there when the answer is late, with the connection closed before.
LEMMA TimedOutKeeps ==
  ASSUME AidingInv, Aiding!TimedOut
  PROVE  AidingInv'
<1> DEFINE x == Aiding!Finish(s)
           l == IF Aiding!Quiet THEN loss ELSE loss + 1
<1>1. /\ s.status = "work" /\ Aiding!Read(x, l) /\ kind' = kind /\ server' = server
      /\ boots' = boots /\ (loss < MaxLoss \/ Aiding!Quiet)
  BY DEF Aiding!TimedOut
<1>2. /\ ServiceInv /\ WholeInv /\ aid \in Exchange /\ loss \in 0 .. MaxLoss
      /\ boots \in 0 .. MaxBoot
  BY DEF AidingInv
<1>3. s \in Service
  BY <1>2 DEF ServiceInv
<1>4. /\ x \in Service /\ SameFetch(x, s) /\ x.timing = s.timing
      /\ x.status = "finish" /\ x.link = "none" /\ x.asked = <<>> /\ x.old = Len(x.fifo)
  BY <1>3, FinishIs
<1>5. l \in 0 .. MaxLoss
  BY <1>1, <1>2, AidingLimits
<1> HIDE DEF x, l
<1>6. Reads(x)
  BY <1>1, <1>4 DEF Reads
<1>7. ServiceInv' /\ WholeInv'
  BY <1>1, <1>2, <1>6, ReadKeeps
<1>8. loss' \in 0 .. MaxLoss /\ aid' \in Exchange
  BY <1>1, <1>2, <1>4, <1>5, ReadCounts
<1> QED
  BY <1>1, <1>2, <1>7, <1>8 DEF AidingInv

\* Every step of the service, the server, the chip and the device keeps the invariant.
LEMMA AidingKeeps ==
  ASSUME AidingInv, [Aiding!Next]_aidingVars
  PROVE  AidingInv'
<1>1. /\ ServiceInv /\ WholeInv /\ aid \in Exchange /\ loss \in 0 .. MaxLoss
      /\ boots \in 0 .. MaxBoot /\ s \in Service /\ server \in 1 .. MaxFlag
  BY DEF AidingInv, ServiceInv
<1>2. MaxLoss \in Nat /\ MaxBoot \in Nat /\ MaxFlag \in Nat
  BY AidingLimits
<1>3. loss < MaxLoss => loss + 1 \in 0 .. MaxLoss
  BY <1>1, <1>2
<1>4. CASE Aiding!InitProc
  <2>1. ServiceInv' /\ WholeInv'
    BY <1>1, <1>4, InitProcKeeps
  <2>2. aid' = aid /\ loss' = loss /\ boots' = boots
    BY <1>4 DEF Aiding!InitProc, Aiding!Outside
  <2> QED
    BY <1>1, <2>1, <2>2 DEF AidingInv
<1>5. CASE Aiding!ConnectingProc
  <2>1. /\ kind' = kind /\ flash' = flash /\ stale' = stale /\ server' = server
        /\ s' = [Aiding!Close(s) EXCEPT !.status = "finish"]
    BY <1>5, FinishCloses DEF Aiding!ConnectingProc
  <2>2. ServiceInv' /\ WholeInv'
    BY <1>1, <2>1, Closes
  <2>3. aid' = aid /\ loss' \in 0 .. MaxLoss /\ boots' = boots
    BY <1>3, <1>5 DEF Aiding!ConnectingProc
  <2> QED
    BY <1>1, <2>2, <2>3 DEF AidingInv
<1>6. CASE Aiding!WorkProc
  BY <1>6, WorkProcKeeps
<1>7. CASE Aiding!TimedOut
  BY <1>7, TimedOutKeeps
<1>8. CASE Aiding!FinishProc
  <2>1. ServiceInv' /\ WholeInv' /\ aid' \in Exchange
    BY <1>1, <1>8, FinishProcKeeps
  <2>2. loss' = loss /\ boots' = boots
    BY <1>8 DEF Aiding!FinishProc, Aiding!Outside
  <2> QED
    BY <1>1, <2>1, <2>2 DEF AidingInv
<1>9. CASE Aiding!Connected
  <2>1. ServiceInv' /\ WholeInv'
    BY <1>1, <1>9, ConnectedKeeps
  <2>2. aid' = aid /\ loss' = loss /\ boots' = boots
    BY <1>9 DEF Aiding!Connected, Aiding!Outside
  <2> QED
    BY <1>1, <2>1, <2>2 DEF AidingInv
<1>10. CASE Aiding!Answer
  <2>1. ServiceInv' /\ WholeInv'
    BY <1>1, <1>10, AnswerKeeps
  <2>2. aid' = aid /\ loss' = loss /\ boots' = boots
    BY <1>10 DEF Aiding!Answer, Aiding!Outside
  <2> QED
    BY <1>1, <2>1, <2>2 DEF AidingInv
<1>11. CASE Aiding!Breaks
  <2>1. /\ kind' = kind /\ flash' = flash /\ stale' = stale /\ server' = server
        /\ \E st \in {"finish", "error"} : s' = [Aiding!Close(s) EXCEPT !.status = st]
    BY <1>11, FinishCloses DEF Aiding!Breaks
  <2>2. ServiceInv' /\ WholeInv'
    BY <1>1, <2>1, Closes
  <2>3. aid' = aid /\ loss' \in 0 .. MaxLoss /\ boots' = boots
    BY <1>3, <1>11 DEF Aiding!Breaks
  <2> QED
    BY <1>1, <2>2, <2>3 DEF AidingInv
<1>12. CASE Aiding!Acknowledge \/ Aiding!Announce \/ Aiding!Receiver \/ Aiding!LoseAck
  <2>1. /\ kind' = kind /\ s' = s /\ flash' = flash /\ stale' = stale /\ server' = server
        /\ boots' = boots
    BY <1>12 DEF Aiding!Acknowledge, Aiding!Announce, Aiding!Receiver, Aiding!LoseAck
  <2>2. ServiceInv' /\ WholeInv'
    BY <1>1, <2>1, ServiceStays
  <2>3. loss' \in 0 .. MaxLoss
    BY <1>1, <1>3, <1>12 DEF Aiding!Acknowledge, Aiding!Announce, Aiding!Receiver, Aiding!LoseAck
  <2>4. aid' \in Exchange
    BY <1>1, <1>12, ChipKeeps
  <2> QED
    BY <1>1, <2>1, <2>2, <2>3, <2>4 DEF AidingInv
<1>13. CASE Aiding!NewFile
  <2>1. /\ kind' = kind /\ s' = s /\ flash' = flash /\ stale' = stale
        /\ boots' = boots /\ loss' = loss /\ aid' = aid
    BY <1>13 DEF Aiding!NewFile
  <2>2. server' \in 1 .. MaxFlag
    BY <1>1, <1>2, <1>13 DEF Aiding!NewFile
  <2>3. ServiceInv' /\ WholeInv'
    BY <1>1, <2>1, <2>2, ServiceStays
  <2> QED
    BY <1>1, <2>1, <2>3 DEF AidingInv
<1>14. CASE Aiding!Restart
  <2>1. ServiceInv' /\ WholeInv'
    BY <1>1, <1>14, RestartKeeps
  <2>2. loss' \in 0 .. MaxLoss /\ boots' \in 0 .. MaxBoot
    BY <1>1, <1>2, <1>3, <1>14 DEF Aiding!Restart
  <2>3. aid' \in Exchange
    BY <1>14, SilentIs DEF Aiding!Restart
  <2> QED
    BY <2>1, <2>2, <2>3 DEF AidingInv
<1>15. CASE UNCHANGED aidingVars
  <2>1. /\ kind' = kind /\ s' = s /\ flash' = flash /\ stale' = stale /\ server' = server
        /\ boots' = boots /\ loss' = loss /\ aid' = aid
    BY <1>15 DEF aidingVars
  <2>2. ServiceInv' /\ WholeInv'
    BY <1>1, <2>1, ServiceStays
  <2> QED
    BY <1>1, <2>1, <2>2 DEF AidingInv
<1> QED
  BY <1>4, <1>5, <1>6, <1>7, <1>8, <1>9, <1>10, <1>11, <1>12, <1>13, <1>14, <1>15
     DEF Aiding!Next

\* The invariant holds in the beginning.
LEMMA AidingBegins ==
  ASSUME Aiding!Init
  PROVE  AidingInv
<1>1. /\ kind \in {"mtk", "td"} /\ s = Aiding!Idle /\ server = 1 /\ flash = NoFile
      /\ aid = Aiding!Silent /\ loss = 0 /\ boots = 0
  BY DEF Aiding!Init
<1>2. KindOk /\ FlashOk
  BY <1>1 DEF KindOk, FlashOk
<1>3. /\ s \in Service /\ Fetching(s) /\ Aiding!IsFirst(s) /\ OfOne(s)
      /\ s.old = Len(s.fifo) /\ s.status = "init" /\ s.asked = <<>> /\ s.inuse = NoFile
  BY <1>1, <1>2, IdleIs
<1>4. Current(s) /\ s.old <= Len(s.fifo)
  BY <1>3, ClosedIsCurrent
<1>5. server \in 1 .. MaxFlag /\ loss \in 0 .. MaxLoss /\ boots \in 0 .. MaxBoot
  BY <1>1, AidingLimits
<1>6. ServiceInv
  BY <1>2, <1>3, <1>4, <1>5 DEF ServiceInv
<1>7. WholeInv
  BY <1>1, <1>3, <1>4 DEF WholeInv, WholeFile
<1> QED
  BY <1>1, <1>5, <1>6, <1>7, SilentIs DEF AidingInv

\* What the module's own properties say follows from the invariant.
LEMMA AidingMeans ==
  ASSUME AidingInv
  PROVE  Aiding!OneFile /\ Aiding!TypeOK
<1>1. s \in Service /\ FlashOk /\ aid \in Exchange
  BY DEF AidingInv, ServiceInv
<1>2. Aiding!OneFile
  <2>1. CASE stale
    BY <2>1 DEF Aiding!OneFile
  <2>2. CASE ~stale
    <3>1. WholeFile(s.inuse) /\ WholeFile(flash)
      BY <2>2 DEF AidingInv, WholeInv
    <3> QED
      BY <3>1 DEF Aiding!OneFile, WholeFile
  <2> QED
    BY <2>1, <2>2
<1>3. Aiding!TypeOK
  <2>1. /\ aid.out \subseteq Writings /\ aid.seg \in 0 .. Blocks - 1
    BY <1>1, ExchangeIs
  <2>2. /\ s.status \in AidingStatus /\ s.link \in {"none", "opening", "up"}
        /\ s.timing \in BOOLEAN /\ s.flag \in 0 .. MaxFlag
        /\ s.total \in {0, Blocks} /\ s.data \in Aiding!File
        /\ s.inuse \in Aiding!File \cup {NoFile}
    BY <1>1, ServiceIs
  <2> QED
    BY <1>1, <2>1, <2>2 DEF AidingInv, Aiding!TypeOK, FlashOk, AidingStatus, Writings
<1> QED
  BY <1>2, <1>3

-----------------------------------------------------------------------------
(* The theorems of the service, and of all four parts together.            *)

\* What is fetched comes from one file, block by block, up to the connections' leftovers;
\* every exchange with the chip and every count stays in its range.
THEOREM AidingInvariance == Aiding!Spec => []AidingInv
<1>2. AidingInv /\ [Aiding!Next]_(Aiding!vars) => AidingInv'
  BY AidingKeeps DEF Aiding!vars, aidingVars
<1> QED
  BY <1>2, AidingBegins, PTL DEF Aiding!Spec

\* The file in use and the one on the flash are each the wanted blocks of one file of the
\* server, in their order, as long as no leftover was read (agps_service.c:336).
THEOREM OneFileIsUsed == Aiding!Spec => []Aiding!OneFile
<1>1. AidingInv => Aiding!OneFile
  BY AidingMeans
<1> QED
  BY <1>1, AidingInvariance, PTL

\* The composed specification is that of each part: the others stay as they began.
THEOREM TransfersImplementParts ==
  TransfersSpec => Steps /\ RingsSpec /\ RecoderSpec /\ Aiding!Spec
<1>1. TransfersInit => Init /\ RingsInit /\ RecoderInit /\ Aiding!Init
  BY DEF TransfersInit
<1>2. [TransfersNext]_transfersVars => [Next]_vars
  BY DEF TransfersNext, OthersStay, transfersVars
<1>3. [TransfersNext]_transfersVars => [RingsNext]_ringVars
  BY DEF TransfersNext, OthersStay, transfersVars
<1>4. [TransfersNext]_transfersVars => [RecoderNext]_recoderVars
  BY DEF TransfersNext, OthersStay, transfersVars
<1>5. [TransfersNext]_transfersVars => [Aiding!Next]_(Aiding!vars)
  BY DEF TransfersNext, OthersStay, transfersVars, aidingVars, Aiding!vars
<1> QED
  BY <1>1, <1>2, <1>3, <1>4, <1>5, PTL DEF TransfersSpec, Steps, RingsSpec, RecoderSpec, Aiding!Spec

\* The values of all four parts stay what they may be.
THEOREM TransfersTypes == TransfersSpec => []TransfersTypeOK
<1>1. TypeOK /\ RingsTypeOK /\ RecoderTypeOK /\ AidingInv => TransfersTypeOK
  BY AidingMeans DEF TransfersTypeOK
<1> QED
  BY <1>1, TransfersImplementParts, TypeCorrect, RingsTypes, RecoderTypes, AidingInvariance, PTL

\* OneFileIsUsed, of the composed specification.
THEOREM AidingStaysWhole == TransfersSpec => []AidingWhole
<1>1. Aiding!OneFile => AidingWhole
  BY DEF AidingWhole
<1> QED
  BY <1>1, TransfersImplementParts, OneFileIsUsed, PTL

\* Whatever a download, a recording or a ring buffer meets on its way, what the parts'
\* own theorems promise holds of the composed specification: the rings are queues; as
\* long as nothing closes between an update and its reboot (Steady) the device can be
\* started; as long as a recording is reported before the next session (~LateResult) one
\* that was not answered is overwritten only when the ring is full or recordings were
\* lost, and, if recordings begin at different seconds (Distinct), one that was answered
\* has arrived.
THEOREM TransfersAreSound ==
  /\ TransfersSpec => RingsAreQueues
  /\ Steady /\ TransfersSpec => []AlwaysBootable
  /\ ~LateResult /\ TransfersSpec => NoOverwrite
  /\ Distinct /\ ~LateResult /\ TransfersSpec => []AckedWasReceived
<1>1. TransfersSpec => RingsAreQueues
  BY TransfersImplementParts, RingsImplementQueues
<1>2. Steady /\ TransfersSpec => []AlwaysBootable
  <2> SUFFICES ASSUME Steady
               PROVE  TransfersSpec => []AlwaysBootable
    OBVIOUS
  <2>1. Steps => []AlwaysBootable
    BY DeviceStaysBootable
  <2> QED
    BY <2>1, TransfersImplementParts
<1>3. ~LateResult /\ TransfersSpec => NoOverwrite
  BY TransfersImplementParts, OverwritesWhenFull
<1>4. Distinct /\ ~LateResult /\ TransfersSpec => []AckedWasReceived
  BY TransfersImplementParts, NothingAnsweredIsMissing
<1> QED
  BY <1>1, <1>2, <1>3, <1>4
=============================================================================
