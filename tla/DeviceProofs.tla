----------------------------- MODULE DeviceProofs -----------------------------
(***************************************************************************)
(* What senses the car keeps its promises, for every value of the          *)
(* constants: the safety properties of Device and the invariants behind    *)
(* them, part by part.  How the sentences of the GPS chip come through the *)
(* port is first and longest (Serial, the part "serial"): a line that is   *)
(* read is handed over, or waits, or something before it was lost          *)
(* (gps_port_on_receive, fifo_peek_until).                                 *)
(***************************************************************************)
EXTENDS Device, SequenceTheorems, WellFoundedInduction, TLAPS

-------------------------------------------------------------------------------
(* The sentences of the GPS chip: Serial.                                  *)

\* Pieces are said in an order: frame by frame, the text or head first.
IsFirst(p) == p.is \in {"text", "head", "noise"}
Said(p) ==
  /\ p.of \in DOMAIN frames
  /\ \/ p.is \in {"text", "end"} /\ frames[p.of] = "line"
     \/ p.is \in {"head", "body"} /\ frames[p.of] = "packet"
     \/ p.is = "noise" /\ frames[p.of] = "noise"
Earlier(p, r) ==
  p.of < r.of \/ (p.of = r.of /\ p.is \in {"text", "head"} /\ r.is \in {"end", "body"})

\* What the port has not read is the end of what was said, with nothing missing.
Stream ==
  /\ \A i \in DOMAIN air : Said(air[i])
  /\ \A i, j \in DOMAIN air : i < j => Earlier(air[i], air[j])
  /\ air # <<>> =>
       \A p \in Reading!Piece : Said(p) => Earlier(p, air[1]) \/ \E i \in DOMAIN air : p = air[i]

\* Where the next read begins: in which frame, and whether in its middle.
At == IF air = <<>> THEN Len(frames) + 1 ELSE air[1].of
Mid == air # <<>> /\ ~IsFirst(air[1])

\* Nothing before a frame spoils it: LinesKept says so of a line that is not kept.
Clean(n, lost) ==
  \A m \in 1 .. n - 1 : (m \in lost \/ frames[m] = "noise") =>
    \E k \in m + 1 .. n - 1 : frames[k] # "packet"

\* A number of no set is the least of none.
LEMMA LeastOf ==
  ASSUME NEW T, T \subseteq Nat, T # {}
  PROVE  \E x \in T : \A y \in T : ~(y < x)
  <1> DEFINE R == OpToRel(<, Nat)
  <1>1. IsWellFoundedOn(R, Nat)
    BY NatLessThanWellFounded
  <1>2. PICK x \in T : \A y \in T : ~(<< y, x >> \in R)
    <2> HIDE DEF R
    <2> QED
      BY <1>1, WFMin
  <1> QED
    BY <1>2 DEF OpToRel

\* What is said of numbers up to a bound, one after the other, holds of them all.
LEMMA UpTo ==
  ASSUME NEW n \in Nat, NEW T, 0 \in T, \A m \in 0 .. n - 1 : m \in T => m + 1 \in T
  PROVE  0 .. n \subseteq T
  <1> DEFINE Bad == {m \in 0 .. n : m \notin T}
  <1>1. Bad \subseteq Nat
    OBVIOUS
  <1> SUFFICES ASSUME Bad # {} PROVE FALSE
    OBVIOUS
  <1>2. PICK x \in Bad : \A y \in Bad : ~(y < x)
    <2> HIDE DEF Bad
    <2> QED
      BY <1>1, LeastOf
  <1>3. x # 0 /\ x \in 0 .. n /\ x \notin T
    OBVIOUS
  <1>4. x - 1 \in 0 .. n - 1 /\ x - 1 \in T
    BY <1>2, <1>3
  <1> QED
    BY <1>3, <1>4

\* A set of numbers below a bound has a greatest.
LEMMA GreatestOf ==
  ASSUME NEW n \in Nat, NEW T, T \subseteq 0 .. n, T # {}
  PROVE  \E x \in T : \A y \in T : ~(x < y)
  <1> DEFINE U == {n - x : x \in T}
  <1>1. U \subseteq Nat /\ U # {}
    <2>1. \A x \in T : n - x \in Nat
      OBVIOUS
    <2> QED
      BY <2>1
  <1>2. PICK u \in U : \A y \in U : ~(y < u)
    <2> HIDE DEF U
    <2> QED
      BY <1>1, LeastOf
  <1>3. PICK x \in T : u = n - x
    BY <1>2
  <1>4. \A y \in T : ~(x < y)
    <2> SUFFICES ASSUME NEW y \in T, x < y PROVE FALSE
      OBVIOUS
    <2>1. n - y \in U /\ n - y < n - x
      OBVIOUS
    <2> QED
      BY <1>2, <1>3, <2>1
  <1> QED
    BY <1>4

\* The bounds of the port.
LEMMA SerialLimits ==
  BufMax \in Nat /\ FifoMax \in Nat /\ MaxFrame \in Nat /\ MaxClose \in Nat
  BY DeviceAssumption DEF DeviceAssumption

\* A piece has a frame's number and one of five kinds.
LEMMA PieceIs ==
  /\ \A p \in Reading!Piece :
       /\ p.of \in 1 .. MaxFrame /\ p.of \in Nat
       /\ p.is \in {"text", "end", "head", "body", "noise"}
       /\ p = [of |-> p.of, is |-> p.is]
  /\ \A n \in 1 .. MaxFrame, s \in {"text", "end", "head", "body", "noise"} :
       /\ [of |-> n, is |-> s] \in Reading!Piece
       /\ [of |-> n, is |-> s].of = n /\ [of |-> n, is |-> s].is = s
  BY SerialLimits DEF Reading!Piece

\* The stream, the queue and the frames are sequences, of these elements.
LEMMA SerialShape ==
  ASSUME Reading!TypeOK
  PROVE  /\ Len(air) \in Nat /\ DOMAIN air = 1 .. Len(air) /\ (air = <<>> <=> Len(air) = 0)
         /\ \A i \in 1 .. Len(air) : air[i] \in Reading!Piece
         /\ Len(rcv_fifo) \in Nat /\ DOMAIN rcv_fifo = 1 .. Len(rcv_fifo)
         /\ (rcv_fifo = <<>> <=> Len(rcv_fifo) = 0)
         /\ \A i \in 1 .. Len(rcv_fifo) : rcv_fifo[i] \in Reading!Piece
         /\ Len(frames) \in Nat /\ Len(frames) <= MaxFrame /\ DOMAIN frames = 1 .. Len(frames)
         /\ \A k \in 1 .. Len(frames) :
              k \in 1 .. MaxFrame /\ frames[k] \in {"line", "packet", "noise"}
         /\ Len(accepted) \in Nat /\ DOMAIN accepted = 1 .. Len(accepted)
         /\ \A i \in 1 .. Len(accepted) : accepted[i] \in 1 .. MaxFrame
  <1>1. /\ air \in Seq(Reading!Piece) /\ rcv_fifo \in Seq(Reading!Piece)
        /\ frames \in Seq({"line", "packet", "noise"}) /\ accepted \in Seq(1 .. MaxFrame)
        /\ Len(frames) <= MaxFrame
    BY DEF Reading!TypeOK, Reading!Kinds
  <1>2. /\ Len(air) \in Nat /\ DOMAIN air = 1 .. Len(air) /\ (air = <<>> <=> Len(air) = 0)
        /\ \A i \in 1 .. Len(air) : air[i] \in Reading!Piece
    BY <1>1, LenProperties, ElementOfSeq, EmptySeq
  <1>3. /\ Len(rcv_fifo) \in Nat /\ DOMAIN rcv_fifo = 1 .. Len(rcv_fifo)
        /\ (rcv_fifo = <<>> <=> Len(rcv_fifo) = 0)
        /\ \A i \in 1 .. Len(rcv_fifo) : rcv_fifo[i] \in Reading!Piece
    BY <1>1, LenProperties, ElementOfSeq, EmptySeq
  <1>4. /\ Len(frames) \in Nat /\ DOMAIN frames = 1 .. Len(frames)
        /\ \A k \in 1 .. Len(frames) : frames[k] \in {"line", "packet", "noise"}
    BY <1>1, LenProperties, ElementOfSeq
  <1>5. /\ Len(accepted) \in Nat /\ DOMAIN accepted = 1 .. Len(accepted)
        /\ \A i \in 1 .. Len(accepted) : accepted[i] \in 1 .. MaxFrame
    BY <1>1, LenProperties, ElementOfSeq
  <1>6. \A k \in 1 .. Len(frames) : k \in 1 .. MaxFrame
    BY <1>1, <1>4, SerialLimits
  <1> QED
    BY <1>1, <1>2, <1>3, <1>4, <1>5, <1>6

\* The order of pieces is one.
LEMMA EarlierOrders ==
  ASSUME NEW p \in Reading!Piece, NEW r \in Reading!Piece, NEW t \in Reading!Piece
  PROVE  /\ ~Earlier(p, p)
         /\ Earlier(p, r) => ~Earlier(r, p) /\ p.of <= r.of
         /\ Earlier(p, r) /\ Earlier(r, t) => Earlier(p, t) /\ p.of < t.of
  BY PieceIs DEF Earlier

\* An earlier piece has an earlier place.
LEMMA PlaceOf ==
  ASSUME Reading!TypeOK, Stream, NEW i \in 1 .. Len(air), NEW j \in 1 .. Len(air),
         Earlier(air[i], air[j]) \/ air[i] = air[j]
  PROVE  /\ Earlier(air[i], air[j]) => i < j
         /\ air[i] = air[j] => i = j
  <1>1. air[i] \in Reading!Piece /\ air[j] \in Reading!Piece /\ i \in Nat /\ j \in Nat
        /\ DOMAIN air = 1 .. Len(air)
    BY SerialShape
  <1>2. ~Earlier(air[i], air[i]) /\ (Earlier(air[i], air[j]) => ~Earlier(air[j], air[i]))
    BY <1>1, EarlierOrders
  <1>3. j < i => Earlier(air[j], air[i])
    BY <1>1 DEF Stream
  <1>4. i < j => Earlier(air[i], air[j])
    BY <1>1 DEF Stream
  <1> QED
    BY <1>1, <1>2, <1>3, <1>4

\* A piece that is not earlier than one that is still to come is to come.
LEMMA StillToCome ==
  ASSUME Reading!TypeOK, Stream, NEW s \in 1 .. Len(air), NEW p \in Reading!Piece, Said(p),
         ~Earlier(p, air[s])
  PROVE  \E i \in s .. Len(air) : air[i] = p
  <1>1. /\ DOMAIN air = 1 .. Len(air) /\ Len(air) \in Nat /\ 1 \in 1 .. Len(air)
        /\ air # <<>> /\ air[1] \in Reading!Piece /\ air[s] \in Reading!Piece
    BY SerialShape
  <1>2. ~Earlier(p, air[1])
    <2>1. s = 1 \/ Earlier(air[1], air[s])
      BY <1>1 DEF Stream
    <2> QED
      BY <1>1, <2>1, EarlierOrders
  <1>3. PICK i \in 1 .. Len(air) : p = air[i]
    BY <1>1, <1>2 DEF Stream
  <1>4. ~(i < s)
    BY <1>1, <1>3 DEF Stream
  <1> QED
    BY <1>1, <1>3, <1>4

\* The end of a line whose frame is not over is still to come.
LEMMA LineEnds ==
  ASSUME Reading!TypeOK, Stream, NEW s \in 1 .. Len(air), NEW k \in 1 .. Len(frames),
         frames[k] = "line", air[s].of <= k
  PROVE  \E i \in s .. Len(air) : air[i] = [of |-> k, is |-> "end"]
  <1> DEFINE p == [of |-> k, is |-> "end"]
  <1>1. p \in Reading!Piece /\ p.of = k /\ p.is = "end" /\ k \in DOMAIN frames
        /\ k \in Nat
    BY SerialShape, PieceIs
  <1> HIDE DEF p
  <1>2. Said(p)
    BY <1>1 DEF Said
  <1>3. air[s].of \in Nat
    BY SerialShape, PieceIs
  <1>4. ~Earlier(p, air[s])
    BY <1>1, <1>3 DEF Earlier
  <1>5. \E i \in s .. Len(air) : air[i] = p
    BY <1>1, <1>2, <1>4, StillToCome
  <1> QED
    BY <1>5 DEF p

\* A text or a head is followed by its end or body.
LEMMA FirstHasSecond ==
  ASSUME Reading!TypeOK, Stream, NEW d \in 1 .. Len(air), air[d].is \in {"text", "head"}
  PROVE  /\ d + 1 \in 1 .. Len(air)
         /\ air[d + 1] = [of |-> air[d].of, is |-> IF air[d].is = "text" THEN "end" ELSE "body"]
  <1> DEFINE p == [of |-> air[d].of, is |-> IF air[d].is = "text" THEN "end" ELSE "body"]
  <1>0. /\ air[d] \in Reading!Piece /\ air[d].of \in 1 .. MaxFrame /\ air[d].of \in Nat
        /\ Len(air) \in Nat /\ DOMAIN air = 1 .. Len(air) /\ d \in Nat
    BY SerialShape, PieceIs
  <1>1. /\ p \in Reading!Piece /\ p.of = air[d].of /\ p.is \in {"end", "body"}
        /\ (p.is = "end" <=> air[d].is = "text")
    BY <1>0, PieceIs
  <1>2. Said(p)
    <2>1. Said(air[d])
      BY <1>0 DEF Stream
    <2> HIDE DEF p
    <2> QED
      BY <1>1, <2>1 DEF Said
  <1> HIDE DEF p
  <1>3. ~Earlier(p, air[d]) /\ Earlier(air[d], p) /\ p # air[d]
    BY <1>0, <1>1 DEF Earlier
  <1>4. PICK i \in d .. Len(air) : air[i] = p
    BY <1>1, <1>2, <1>3, StillToCome
  <1>5. i # d /\ d + 1 \in 1 .. Len(air) /\ i \in d + 1 .. Len(air)
    BY <1>0, <1>3, <1>4
  <1>6. ~(d + 1 < i)
    <2> SUFFICES ASSUME d + 1 < i PROVE FALSE
      OBVIOUS
    <2>1. Earlier(air[d], air[d + 1]) /\ Earlier(air[d + 1], air[i])
      BY <1>0, <1>5 DEF Stream
    <2>2. air[d + 1] \in Reading!Piece
      BY <1>5, SerialShape
    <2>3. air[d].of < p.of
      BY <1>0, <1>1, <1>4, <2>1, <2>2, EarlierOrders
    <2> QED
      BY <1>0, <1>1, <2>3
  <1>7. i = d + 1
    BY <1>0, <1>5, <1>6
  <1> QED
    BY <1>4, <1>5, <1>7 DEF p

\* An end or a body follows its text or head.
LEMMA SecondHasFirst ==
  ASSUME Reading!TypeOK, Stream, NEW d \in 1 .. Len(air), d + 1 \in 1 .. Len(air),
         ~IsFirst(air[d + 1])
  PROVE  /\ air[d].of = air[d + 1].of
         /\ air[d].is = IF air[d + 1].is = "end" THEN "text" ELSE "head"
  <1> DEFINE r == air[d + 1]
             p == [of |-> r.of, is |-> IF r.is = "end" THEN "text" ELSE "head"]
  <1>0. /\ r \in Reading!Piece /\ r.of \in 1 .. MaxFrame /\ r.of \in Nat /\ d \in Nat
        /\ air[d] \in Reading!Piece /\ air[1] \in Reading!Piece /\ 1 \in 1 .. Len(air)
        /\ Len(air) \in Nat /\ DOMAIN air = 1 .. Len(air) /\ r.is \in {"end", "body"}
    BY SerialShape, PieceIs DEF IsFirst
  <1>1. /\ p \in Reading!Piece /\ p.of = r.of /\ p.is \in {"text", "head"}
        /\ (p.is = "text" <=> r.is = "end")
    BY <1>0, PieceIs
  <1>2. Said(p)
    <2>1. Said(r)
      BY <1>0 DEF Stream
    <2> HIDE DEF p, r
    <2> QED
      BY <1>0, <1>1, <2>1 DEF Said
  <1>a. p.is = IF r.is = "end" THEN "text" ELSE "head"
    OBVIOUS
  <1>3. Earlier(p, r)
    <2> HIDE DEF p, r
    <2> QED
      BY <1>0, <1>1 DEF Earlier
  <1>4. Earlier(air[d], r) /\ (d = 1 \/ Earlier(air[1], air[d])) /\ Earlier(air[1], r)
    BY <1>0 DEF Stream
  <1> HIDE DEF p, r
  <1>5. ~Earlier(p, air[1])
    <2> SUFFICES ASSUME Earlier(p, air[1]) PROVE FALSE
      OBVIOUS
    <2>1. p.of < r.of
      BY <1>0, <1>1, <1>4, EarlierOrders
    <2> QED
      BY <1>0, <1>1, <2>1
  <1>6. PICK i \in 1 .. Len(air) : air[i] = p
    BY <1>0, <1>1, <1>2, <1>5, StillToCome
  <1>7. i < d + 1
    <2>1. Earlier(air[i], air[d + 1])
      BY <1>3, <1>6 DEF r
    <2> QED
      BY <1>0, <2>1, PlaceOf
  <1>8. ~(i < d)
    <2> SUFFICES ASSUME i < d PROVE FALSE
      OBVIOUS
    <2>1. Earlier(air[i], air[d])
      BY <1>0 DEF Stream
    <2>2. p.of < r.of
      BY <1>0, <1>1, <1>4, <1>6, <2>1, EarlierOrders
    <2> QED
      BY <1>0, <1>1, <2>2
  <1>9. i = d
    BY <1>0, <1>7, <1>8
  <1> QED
    BY <1>1, <1>6, <1>9, <1>a DEF r

\* Frames are said without a gap: what is later than a piece is not before the next.
LEMMA NoGap ==
  ASSUME Reading!TypeOK, Stream, NEW d \in 1 .. Len(air), NEW k \in 1 .. Len(frames),
         air[d].of < k
  PROVE  d + 1 \in 1 .. Len(air) /\ air[d + 1].of <= k
  <1> DEFINE p == [of |-> k, is |-> IF frames[k] = "line" THEN "text"
                                    ELSE IF frames[k] = "packet" THEN "head" ELSE "noise"]
  <1>0. /\ k \in 1 .. MaxFrame /\ k \in DOMAIN frames /\ frames[k] \in {"line", "packet", "noise"}
        /\ air[d] \in Reading!Piece /\ air[d].of \in Nat /\ k \in Nat /\ d \in Nat
        /\ Len(air) \in Nat /\ DOMAIN air = 1 .. Len(air)
    BY SerialShape, PieceIs
  <1>1. /\ p \in Reading!Piece /\ p.of = k
        /\ p.is = IF frames[k] = "line" THEN "text"
                  ELSE IF frames[k] = "packet" THEN "head" ELSE "noise"
    BY <1>0, PieceIs
  <1> HIDE DEF p
  <1>2. Said(p) /\ ~Earlier(p, air[d]) /\ p # air[d]
    BY <1>0, <1>1 DEF Said, Earlier
  <1>3. PICK i \in d .. Len(air) : air[i] = p
    BY <1>1, <1>2, StillToCome
  <1>4. d + 1 \in 1 .. Len(air) /\ (i = d + 1 \/ d + 1 < i)
    BY <1>0, <1>2, <1>3
  <1>5. air[d + 1] \in Reading!Piece /\ air[i] \in Reading!Piece /\ air[d + 1].of \in Nat
    BY <1>0, <1>4, SerialShape, PieceIs
  <1>6. air[d + 1].of <= p.of
    <2>1. CASE i = d + 1
      BY <1>1, <1>3, <1>5, <2>1
    <2>2. CASE d + 1 < i
      <3>1. Earlier(air[d + 1], air[i])
        BY <1>0, <1>4, <2>2 DEF Stream
      <3> QED
        BY <1>3, <1>5, <3>1, EarlierOrders
    <2> QED
      BY <1>4, <2>1, <2>2
  <1> QED
    BY <1>1, <1>4, <1>6

\* Between a frame that is not spoilt and the line before it there are whole packets.
LEMMA AllPackets ==
  ASSUME Reading!TypeOK, NEW n \in 1 .. Len(frames) + 1, NEW a \in 1 .. n, NEW lost,
         Clean(n, lost), \A k \in a .. n - 1 : frames[k] # "line"
  PROVE  /\ \A k \in a .. n - 1 : frames[k] = "packet" /\ k \notin lost
         /\ Clean(a, lost)
  <1> DEFINE T == {k \in a .. n - 1 : frames[k] # "packet"}
  <1>0. /\ Len(frames) \in Nat /\ n \in Nat /\ a \in Nat /\ n - 1 <= Len(frames) /\ 1 <= a
        /\ \A k \in a .. n - 1 : frames[k] \in {"line", "packet", "noise"}
    BY SerialShape
  <1>1. T = {}
    <2> SUFFICES ASSUME T # {} PROVE FALSE
      OBVIOUS
    <2>1. T \subseteq 0 .. n
      BY <1>0
    <2>2. PICK g \in T : \A y \in T : ~(g < y)
      <3> HIDE DEF T
      <3> QED
        BY <1>0, <2>1, GreatestOf
    <2>3. g \in 1 .. n - 1 /\ g \in a .. n - 1 /\ frames[g] = "noise"
      BY <1>0, <2>2
    <2>4. PICK k \in g + 1 .. n - 1 : frames[k] # "packet"
      BY <2>3 DEF Clean
    <2>5. k \in T /\ g < k
      BY <1>0, <2>3, <2>4
    <2> QED
      BY <2>2, <2>5
  <1>2. \A k \in a .. n - 1 : frames[k] = "packet"
    BY <1>1
  <1>3. ASSUME NEW k \in a .. n - 1, k \in lost PROVE FALSE
    <2>1. PICK j \in k + 1 .. n - 1 : frames[j] # "packet"
      BY <1>0, <1>3 DEF Clean
    <2> QED
      BY <1>0, <1>2, <2>1
  <1>4. ASSUME NEW m \in 1 .. a - 1, m \in lost \/ frames[m] = "noise"
        PROVE  \E k \in m + 1 .. a - 1 : frames[k] # "packet"
    <2>1. PICK k \in m + 1 .. n - 1 : frames[k] # "packet"
      BY <1>0, <1>4 DEF Clean
    <2>2. ~(a <= k)
      BY <1>0, <1>2, <2>1
    <2> QED
      BY <1>0, <2>1, <2>2
  <1> QED
    BY <1>2, <1>3, <1>4 DEF Clean

\* Before an end and behind no other there are whole packets, if nothing spoils its line.
LEMMA BeforeEnd ==
  ASSUME Reading!TypeOK, Stream, NEW s \in 1 .. Len(air), NEW e \in s .. Len(air), NEW lost,
         \A i \in s .. e - 1 : air[i].is # "end", Clean(air[e].of, lost)
  PROVE  /\ air[s].of \in 1 .. air[e].of
         /\ \A k \in air[s].of .. air[e].of - 1 : frames[k] = "packet" /\ k \notin lost
         /\ Clean(air[s].of, lost)
  <1> DEFINE a == air[s].of
             n == air[e].of
  <1>0. /\ air[s] \in Reading!Piece /\ air[e] \in Reading!Piece /\ a \in Nat /\ n \in Nat
        /\ Len(air) \in Nat /\ DOMAIN air = 1 .. Len(air) /\ s \in Nat /\ e \in 1 .. Len(air)
        /\ a \in 1 .. MaxFrame
        /\ Len(frames) \in Nat /\ DOMAIN frames = 1 .. Len(frames)
    BY SerialShape, PieceIs
  <1>1. Said(air[e]) /\ (s = e \/ Earlier(air[s], air[e]))
    BY <1>0 DEF Stream
  <1>2. n \in 1 .. Len(frames) /\ a \in 1 .. n
    <2>1. n \in 1 .. Len(frames)
      BY <1>0, <1>1 DEF Said
    <2>2. a <= n
      BY <1>0, <1>1, EarlierOrders
    <2> HIDE DEF a, n
    <2> QED
      BY <1>0, <2>1, <2>2
  <1>3. ASSUME NEW k \in a .. n - 1, frames[k] = "line" PROVE FALSE
    <2>1. k \in 1 .. Len(frames) /\ a <= k /\ k < n /\ k \in Nat
      BY <1>0, <1>2
    <2>2. PICK i \in s .. Len(air) : air[i] = [of |-> k, is |-> "end"]
      BY <1>3, <2>1, LineEnds
    <2>3. air[i].of = k /\ air[i].is = "end" /\ i \in 1 .. Len(air)
      BY <1>0, <2>2
    <2>4. Earlier(air[i], air[e])
      BY <2>1, <2>3 DEF Earlier
    <2>5. i < e
      BY <1>0, <2>3, <2>4, PlaceOf
    <2> QED
      BY <1>0, <2>2, <2>3, <2>5
  <1>4. n \in 1 .. Len(frames) + 1 /\ Clean(n, lost) /\ \A k \in a .. n - 1 : frames[k] # "line"
    BY <1>0, <1>2, <1>3
  <1> HIDE DEF a, n
  <1>5. (\A k \in a .. n - 1 : frames[k] = "packet" /\ k \notin lost) /\ Clean(a, lost)
    BY <1>2, <1>4, AllPackets
  <1> QED
    BY <1>2, <1>5 DEF a, n

\* A line that nothing spoils stands alone before its end.
LEMMA WholeLine ==
  ASSUME Reading!TypeOK, Stream, NEW s \in 1 .. Len(air), NEW e \in s .. Len(air), NEW lost,
         IsFirst(air[s]), air[s].is # "head", air[e].is = "end",
         \A i \in s .. e - 1 : air[i].is # "end", Clean(air[e].of, lost)
  PROVE  e = s + 1 /\ air[s] = [of |-> air[e].of, is |-> "text"]
  <1> DEFINE a == air[s].of
             n == air[e].of
  <1>0. /\ air[s] \in Reading!Piece /\ air[e] \in Reading!Piece /\ a \in Nat /\ n \in Nat
        /\ Len(air) \in Nat /\ DOMAIN air = 1 .. Len(air) /\ s \in Nat /\ e \in 1 .. Len(air)
        /\ s # e
    BY SerialShape, PieceIs DEF IsFirst
  <1>1. Said(air[s]) /\ Earlier(air[s], air[e])
    BY <1>0 DEF Stream
  <1>2. a \in 1 .. n /\ \A k \in a .. n - 1 : frames[k] = "packet"
    BY BeforeEnd
  <1>3. air[s].is = "text" /\ a = n
    <2>1. a < n => frames[a] = "packet"
      BY <1>0, <1>2
    <2>2. air[s].is = "noise" \/ air[s].is = "text"
      BY DEF IsFirst
    <2>3. air[s].is = "noise" => a < n
      BY <1>0, <1>1 DEF Earlier
    <2>4. a = n \/ a < n
      BY <1>0, <1>2
    <2> QED
      BY <1>1, <2>1, <2>2, <2>3, <2>4 DEF Said
  <1>4. s + 1 \in 1 .. Len(air) /\ air[s + 1] = [of |-> a, is |-> "end"]
    BY <1>3, FirstHasSecond
  <1>5. air[e] = [of |-> n, is |-> "end"] /\ air[s] = [of |-> a, is |-> "text"]
    BY <1>0, <1>3, PieceIs
  <1>6. air[s + 1] = air[e]
    BY <1>3, <1>4, <1>5
  <1>7. s + 1 = e
    BY <1>0, <1>4, <1>6, PlaceOf
  <1> QED
    BY <1>3, <1>5, <1>7

\* Where the next read begins after one of n pieces.
LEMMA NextAt ==
  ASSUME Reading!TypeOK, NEW n \in 1 .. Len(air), air' = SubSeq(air, n + 1, Len(air)),
         frames' = frames
  PROVE  /\ Len(air') = Len(air) - n /\ DOMAIN air' = 1 .. Len(air) - n
         /\ \A i \in 1 .. Len(air) - n : air'[i] = air[n + i]
         /\ air' \in Seq(Reading!Piece)
         /\ n = Len(air) => At' = Len(frames) + 1 /\ ~Mid'
         /\ n < Len(air) => At' = air[n + 1].of /\ (Mid' <=> ~IsFirst(air[n + 1]))
  <1> DEFINE L == Len(air)
  <1>0. L \in Nat /\ air \in Seq(Reading!Piece) /\ n \in Nat /\ n <= L
        /\ DOMAIN air = 1 .. L
    BY SerialShape DEF Reading!TypeOK
  <1>1. /\ air' \in Seq(Reading!Piece) /\ Len(air') = L - n
        /\ \A i \in 1 .. L - n : air'[i] = air[n + i]
    <2>1. \A i \in n + 1 .. L : air[i] \in Reading!Piece
      BY <1>0, SerialShape
    <2>2. /\ SubSeq(air, n + 1, L) \in Seq(Reading!Piece)
          /\ Len(SubSeq(air, n + 1, L)) = IF n + 1 <= L THEN L - (n + 1) + 1 ELSE 0
          /\ \A i \in 1 .. L - (n + 1) + 1 : SubSeq(air, n + 1, L)[i] = air[n + 1 + i - 1]
      BY <1>0, <2>1, SubSeqProperties
    <2> HIDE DEF L
    <2>3. L - (n + 1) + 1 = L - n /\ (~(n + 1 <= L) => L - n = 0)
          /\ \A i \in 1 .. L - n : n + 1 + i - 1 = n + i
      BY <1>0
    <2> QED
      BY <2>2, <2>3 DEF L
  <1>2. DOMAIN air' = 1 .. L - n /\ (air' = <<>> <=> L - n = 0)
    BY <1>0, <1>1, LenProperties, EmptySeq
  <1>3. n = L => air' = <<>>
    BY <1>0, <1>2
  <1>4. n < L => air' # <<>> /\ air'[1] = air[n + 1]
    <2> HIDE DEF L
    <2>1. n < L => L - n # 0 /\ 1 \in 1 .. L - n
      BY <1>0
    <2> QED
      BY <1>1, <1>2, <2>1
  <1> QED
    BY <1>1, <1>2, <1>3, <1>4 DEF At, Mid, IsFirst

\* Between a piece and the next read, with no end, there are whole packets.
LEMMA BeforeNext ==
  ASSUME Reading!TypeOK, Stream, NEW n \in 1 .. Len(air), NEW s \in 1 .. n, NEW lost,
         air' = SubSeq(air, n + 1, Len(air)), frames' = frames,
         \A i \in s .. n : air[i].is # "end", Clean(At', lost)
  PROVE  /\ At' \in 1 .. Len(frames) + 1 /\ air[s].of \in 1 .. At'
         /\ \A k \in air[s].of .. At' - 1 : frames[k] = "packet" /\ k \notin lost
         /\ Clean(air[s].of, lost)
         /\ air[s].is \notin {"text", "head"} => air[s].of < At'
         /\ air[s].of < At' \/ (n < Len(air) /\ At' = air[n + 1].of)
  <1> DEFINE a == air[s].of
             m == At'
  <1>0. /\ air[s] \in Reading!Piece /\ a \in Nat /\ a \in 1 .. MaxFrame /\ s \in Nat
        /\ s \in 1 .. Len(air) /\ n \in Nat /\ Len(air) \in Nat /\ DOMAIN air = 1 .. Len(air)
        /\ Len(frames) \in Nat /\ DOMAIN frames = 1 .. Len(frames)
    BY SerialShape, PieceIs
  <1>1. /\ n = Len(air) => m = Len(frames) + 1
        /\ n < Len(air) => m = air[n + 1].of
    BY NextAt
  <1>p. Clean(m, lost)
    OBVIOUS
  <1> HIDE DEF m
  <1>2. Said(air[s]) /\ a \in 1 .. Len(frames)
    BY <1>0 DEF Stream, Said
  <1>c. /\ n = Len(air) \/ n < Len(air)
        /\ n < Len(air) => n + 1 \in 1 .. Len(air) /\ s < n + 1
    <2> DEFINE L == Len(air)
    <2>1. L \in Nat /\ n \in Nat /\ s \in Nat /\ n <= L /\ s <= n
      BY <1>0
    <2> HIDE DEF L, a
    <2>2. /\ n = L \/ n < L
          /\ n < L => n + 1 \in 1 .. L /\ s < n + 1
      BY <2>1
    <2> QED
      BY <2>2 DEF L
  <1>3. n < Len(air) => /\ Earlier(air[s], air[n + 1]) /\ air[n + 1] \in Reading!Piece
                        /\ Said(air[n + 1]) /\ n + 1 \in 1 .. Len(air)
    <2> HIDE DEF a
    <2> QED
      BY <1>0, <1>c, SerialShape DEF Stream
  <1>4. m \in 1 .. Len(frames) + 1 /\ a \in 1 .. m
    <2>1. CASE n = Len(air)
      BY <1>0, <1>1, <1>2, <2>1
    <2>2. CASE n < Len(air)
      <3>1. a <= air[n + 1].of /\ air[n + 1].of \in 1 .. Len(frames)
        BY <1>0, <1>3, <2>2, EarlierOrders DEF Said
      <3>2. m = air[n + 1].of
        BY <1>1, <2>2
      <3>3. \A y \in 1 .. Len(frames) : a <= y => y \in 1 .. Len(frames) + 1 /\ a \in 1 .. y
        BY <1>0, <1>2
      <3> QED
        BY <3>1, <3>2, <3>3
    <2> QED
      BY <1>c, <2>1, <2>2
  <1>5. ASSUME NEW k \in a .. m - 1, frames[k] = "line" PROVE FALSE
    <2>1. k \in 1 .. Len(frames) /\ a <= k /\ k < m /\ k \in Nat
      BY <1>0, <1>4
    <2>2. PICK i \in s .. Len(air) : air[i] = [of |-> k, is |-> "end"]
      BY <1>0, <1>5, <2>1, LineEnds
    <2>3. air[i].of = k /\ air[i].is = "end" /\ i \in 1 .. Len(air)
      BY <1>0, <2>2
    <2>4. n < i
      BY <1>0, <2>2, <2>3
    <2>a. n < Len(air) /\ (i = n + 1 \/ n + 1 < i)
      BY <1>0, <2>3, <2>4
    <2>5. n < Len(air) /\ (i = n + 1 \/ Earlier(air[n + 1], air[i]))
      <3> HIDE DEF a
      <3> QED
        BY <1>0, <1>c, <2>3, <2>a DEF Stream
    <2>6. air[n + 1].of <= k
      BY <1>3, <2>3, <2>5, SerialShape, EarlierOrders, <2>1
    <2> QED
      BY <1>1, <1>3, <2>1, <2>5, <2>6, PieceIs
  <1>6. (\A k \in a .. m - 1 : frames[k] = "packet" /\ k \notin lost) /\ Clean(a, lost)
    <2>1. \A k \in a .. m - 1 : frames[k] # "line"
      BY <1>5
    <2> HIDE DEF a
    <2> QED
      BY <1>4, <1>p, <2>1, AllPackets
  <1>7. air[s].is \notin {"text", "head"} => a < m
    <2>1. CASE n = Len(air)
      BY <1>1, <1>2, <2>1
    <2>2. CASE n < Len(air)
      BY <1>1, <1>3, <2>2 DEF Earlier
    <2> QED
      BY <1>c, <2>1, <2>2
  <1>8. a < m \/ (n < Len(air) /\ m = air[n + 1].of)
    <2>1. n = Len(air) => m = Len(frames) + 1
      BY <1>1
    <2>2. n = Len(air) => a < m
      BY <1>0, <1>2, <2>1
    <2> QED
      BY <1>1, <1>c, <2>2
  <1> QED
    BY <1>4, <1>6, <1>7, <1>8 DEF m

\* What a read leaves behind without an end, before a frame that nothing spoils, is the
\* text of that frame.
LEMMA EndsInText ==
  ASSUME Reading!TypeOK, Stream, NEW n \in 1 .. Len(air), NEW s \in 1 .. n, NEW lost,
         air' = SubSeq(air, n + 1, Len(air)), frames' = frames,
         IsFirst(air[s]), air[s].is # "head", \A i \in s .. n : air[i].is # "end",
         Clean(At', lost)
  PROVE  s = n /\ Mid' /\ air[s] = [of |-> At', is |-> "text"]
  <1> DEFINE a == air[s].of
             m == At'
  <1>0. /\ air[s] \in Reading!Piece /\ a \in Nat /\ s \in Nat
        /\ s \in 1 .. Len(air) /\ n \in Nat /\ Len(air) \in Nat /\ DOMAIN air = 1 .. Len(air)
        /\ air[s] = [of |-> a, is |-> air[s].is]
    BY SerialShape, PieceIs
  <1>1. n < Len(air) => m = air[n + 1].of /\ (Mid' <=> ~IsFirst(air[n + 1]))
    BY NextAt
  <1>2. /\ m \in Nat /\ a \in 1 .. m /\ \A k \in a .. m - 1 : frames[k] = "packet"
        /\ air[s].is \notin {"text", "head"} => a < m
        /\ a < m \/ n < Len(air)
    <2>1. m \in 1 .. Len(frames) + 1 => m \in Nat
      BY SerialShape
    <2> QED
      BY <2>1, BeforeNext
  <1> HIDE DEF m
  <1>3. Said(air[s])
    BY <1>0 DEF Stream
  <1>4. air[s].is = "text" /\ a = m /\ n < Len(air)
    <2>1. a < m => frames[a] = "packet"
      BY <1>0, <1>2
    <2>2. air[s].is = "noise" \/ air[s].is = "text"
      BY DEF IsFirst
    <2>3. a = m \/ a < m
      BY <1>0, <1>2
    <2> QED
      BY <1>2, <1>3, <2>1, <2>2, <2>3 DEF Said
  <1>5. s + 1 \in 1 .. Len(air) /\ air[s + 1] = [of |-> a, is |-> "end"]
    BY <1>0, <1>4, FirstHasSecond
  <1>6. s = n
    <2>1. air[s + 1].is = "end"
      BY <1>5
    <2> QED
      BY <1>0, <2>1
  <1>7. Mid'
    BY <1>1, <1>4, <1>5, <1>6 DEF IsFirst
  <1> QED
    BY <1>0, <1>4, <1>6, <1>7 DEF m

\* What stays in the queue has no end that is looked for, and, before a frame that
\* nothing spoils, is nothing but the text of that frame.
NoEnd(q) == \A i \in DOMAIN q : q[i].is # "end"
Finished(q) == q = <<>> \/ (q[1].is # "head" /\ Reading!Ends(q) = {})
Waiting ==
  /\ \A i \in DOMAIN rcv_fifo : Said(rcv_fifo[i])
  /\ Finished(rcv_fifo)
  /\ Clean(At, spoilt) /\ NoEnd(rcv_fifo) =>
       IF Mid THEN At \in spoilt \/ rcv_fifo = <<[of |-> At, is |-> "text"]>>
       ELSE rcv_fifo = <<>>

\* What was accepted was said before all that was not.
InOrder ==
  /\ \A i, j \in DOMAIN accepted : i < j => accepted[i] < accepted[j]
  /\ \A i \in DOMAIN accepted :
       /\ accepted[i] \in DOMAIN frames
       /\ \A j \in DOMAIN rcv_fifo : accepted[i] < rcv_fifo[j].of
       /\ \A j \in DOMAIN air : accepted[i] < air[j].of

\* A line that was read and that nothing spoils was accepted, or its end waits.
Kept ==
  \A n \in DOMAIN frames :
    frames[n] = "line" /\ n \notin Reading!Of(air) /\ n \notin spoilt /\ Clean(n, spoilt) =>
      \/ \E i \in DOMAIN accepted : accepted[i] = n
      \/ \E i \in DOMAIN rcv_fifo : rcv_fifo[i] = [of |-> n, is |-> "end"]

SerialInv == Reading!TypeOK /\ Stream /\ Waiting /\ InOrder /\ Kept

\* What a read has come to: nothing was taken out; or up to the piece d of the read all
\* was, and every line that nothing spoils was accepted; or what was left was cut.
Begun(x, q) == x = [left |-> q, out |-> <<>>, cut |-> {}]
OutTo(out, d) ==
  /\ out \in Seq(1 .. MaxFrame)
  /\ \A i, j \in DOMAIN out : i < j => out[i] < out[j]
  /\ \A i \in DOMAIN out :
       /\ out[i] \in DOMAIN frames /\ out[i] <= air[d].of
       /\ \A j \in DOMAIN accepted : accepted[j] < out[i]
KeptTo(out, d) ==
  \A b \in 1 .. d :
    air[b].is = "end" /\ air[b].of \notin spoilt /\ Clean(air[b].of, spoilt) =>
      \E i \in DOMAIN out : out[i] = air[b].of
Taken(x, n, d) ==
  /\ NoEnd(rcv_fifo) /\ ~IsFirst(air[d])
  /\ x = [left |-> x.left, out |-> x.out, cut |-> {}]
  /\ x.left \in Seq(Reading!Piece) /\ Len(x.left) = n - d
  /\ \A i \in 1 .. n - d : x.left[i] = air[d + i]
  /\ OutTo(x.out, d) /\ KeptTo(x.out, d)
CutShort(x, n) ==
  /\ NoEnd(rcv_fifo) /\ air[n].is = "head"
  /\ x = [left |-> <<>>, out |-> x.out, cut |-> {air[n].of}]
  /\ OutTo(x.out, n) /\ KeptTo(x.out, n)
  /\ \A i \in DOMAIN x.out : x.out[i] < air[n].of

\* What the loop has before it when n pieces were read, and all that it may come to.
Queued(n) == rcv_fifo \o SubSeq(air, 1, n)
Looped(x, n) == Begun(x, Queued(n)) \/ (\E d \in 1 .. n : Taken(x, n, d)) \/ CutShort(x, n)

\* A loop is a function of the passes, and its last value is what Sentences says.
LEMMA LoopExists ==
  ASSUME NEW q, Len(q) \in Nat
  PROVE  \E f : /\ f[0] = [left |-> q, out |-> <<>>, cut |-> {}]
                /\ \A j \in 1 .. Len(q) : f[j] = Reading!Pass(f[j - 1])
                /\ Reading!Sentences(q) = f[Len(q)]
  <1> DEFINE n == Len(q)
             start == [left |-> q, out |-> <<>>, cut |-> {}]
             body(f, m) == [k \in 0 .. m |-> IF k = 0 THEN start ELSE Reading!Pass(f[k - 1])]
             P(m) == \E g : /\ g = [k \in 0 .. m |-> g[k]] /\ g[0] = start
                            /\ \A k \in 1 .. m : g[k] = Reading!Pass(g[k - 1])
             T == {m \in 0 .. n : P(m)}
             IsLoop(f) == f = body(f, n)
  <1>1. 0 \in T
    <2> DEFINE z == [k \in 0 .. 0 |-> start]
    <2>1. z = [k \in 0 .. 0 |-> z[k]] /\ z[0] = start /\ 1 .. 0 = {}
      OBVIOUS
    <2> HIDE DEF z, start
    <2> QED
      BY <2>1
  <1>2. ASSUME NEW m \in 0 .. n - 1, m \in T PROVE m + 1 \in T
    <2>1. PICK g : /\ g = [k \in 0 .. m |-> g[k]] /\ g[0] = start
                   /\ \A k \in 1 .. m : g[k] = Reading!Pass(g[k - 1])
      BY <1>2
    <2> DEFINE h == [k \in 0 .. m + 1 |-> IF k = m + 1 THEN Reading!Pass(g[m]) ELSE g[k]]
    <2> HIDE DEF start
    <2>2. h = [k \in 0 .. m + 1 |-> h[k]] /\ h[0] = start
      BY <2>1
    <2>3. \A k \in 1 .. m + 1 : h[k] = Reading!Pass(h[k - 1])
      <3> SUFFICES ASSUME NEW k \in 1 .. m + 1 PROVE h[k] = Reading!Pass(h[k - 1])
        OBVIOUS
      <3>1. k - 1 \in 0 .. m + 1 /\ k - 1 # m + 1 /\ k \in 0 .. m + 1
        OBVIOUS
      <3>2. h[k - 1] = g[k - 1]
        BY <3>1
      <3>3. CASE k = m + 1
        <4>1. h[k] = Reading!Pass(g[m]) /\ k - 1 = m
          BY <3>1, <3>3
        <4> QED
          BY <3>2, <4>1
      <3>4. CASE k # m + 1
        <4>1. h[k] = g[k] /\ k \in 1 .. m
          BY <3>1, <3>4
        <4> QED
          BY <2>1, <3>2, <4>1
      <3> QED
        BY <3>3, <3>4
    <2> HIDE DEF h
    <2>4. P(m + 1)
      BY <2>2, <2>3
    <2> HIDE DEF P
    <2> QED
      BY <2>4
  <1>3. P(n)
    <2> HIDE DEF T
    <2>1. \A m \in 0 .. n - 1 : m \in T => m + 1 \in T
      BY <1>2
    <2>2. 0 .. n \subseteq T
      BY <1>1, <2>1, UpTo
    <2>3. n \in T
      BY <2>2
    <2> USE DEF T
    <2> HIDE DEF P
    <2> QED
      BY <2>3
  <1>4. PICK g : /\ g = [k \in 0 .. n |-> g[k]] /\ g[0] = start
                 /\ \A k \in 1 .. n : g[k] = Reading!Pass(g[k - 1])
    BY <1>3
  <1>5. IsLoop(g)
    <2> HIDE DEF start
    <2>1. \A k \in 0 .. n : g[k] = IF k = 0 THEN start ELSE Reading!Pass(g[k - 1])
      <3>1. \A k \in 0 .. n : k = 0 \/ (k # 0 /\ k \in 1 .. n)
        OBVIOUS
      <3> HIDE DEF n
      <3> QED
        BY <1>4, <3>1
    <2> QED
      BY <1>4, <2>1
  <1> DEFINE after == CHOOSE f : IsLoop(f)
  <1>6. Reading!Sentences(q) = after[n]
    BY DEF Reading!Sentences
  <1> HIDE DEF IsLoop
  <1>7. IsLoop(after)
    BY <1>5
  <1> HIDE DEF after
  <1> USE DEF IsLoop
  <1>8. \A k \in 0 .. n : after[k] = IF k = 0 THEN start ELSE Reading!Pass(after[k - 1])
    <2> HIDE DEF start
    <2> QED
      BY <1>7
  <1>9. after[0] = start /\ \A k \in 1 .. n : after[k] = Reading!Pass(after[k - 1])
    <2> HIDE DEF start
    <2> QED
      BY <1>8
  <1> QED
    BY <1>6, <1>9

\* The first end that is looked for.
LEMMA LineLenIs ==
  ASSUME NEW l \in Seq(Reading!Piece), Reading!Ends(l) # {}
  PROVE  LET h == Reading!LineLen(l) IN
         /\ h \in 1 .. Len(l) /\ h <= BufMax /\ l[h].is = "end"
         /\ \A j \in 1 .. h - 1 : l[j].is # "end"
  <1> DEFINE E == Reading!Ends(l)
             IsLeast(i) == \A j \in E : i <= j
             h == Reading!LineLen(l)
  <1>0. Len(l) \in Nat /\ DOMAIN l = 1 .. Len(l) /\ BufMax \in Nat
    BY LenProperties, SerialLimits
  <1>1. E = {i \in 1 .. Len(l) : i <= BufMax /\ l[i].is = "end"}
    BY <1>0 DEF Reading!Ends
  <1>2. E \subseteq Nat
    BY <1>1
  <1> HIDE DEF E
  <1>3. \E i \in E : IsLeast(i)
    <2>1. PICK i \in E : \A j \in E : ~(j < i)
      BY <1>2, LeastOf DEF E
    <2> QED
      BY <1>2, <2>1
  <1>4. h = CHOOSE i \in E : IsLeast(i)
    BY DEF Reading!LineLen, E
  <1> HIDE DEF IsLeast, h
  <1>5. h \in E /\ IsLeast(h)
    BY <1>3, <1>4
  <1>6. ASSUME NEW j \in 1 .. h - 1, l[j].is = "end" PROVE FALSE
    <2>1. j \in E
      BY <1>0, <1>1, <1>5, <1>6
    <2>2. h <= j
      BY <1>5, <2>1 DEF IsLeast
    <2> QED
      BY <1>0, <1>1, <1>5, <2>2
  <1> QED
    BY <1>1, <1>5, <1>6 DEF h

\* What handing over the first h pieces leaves, and when that is a sentence.
LEMMA HandedIs ==
  ASSUME NEW l \in Seq(Reading!Piece), NEW out \in Seq(1 .. MaxFrame), NEW h \in 1 .. Len(l)
  PROVE  LET y == Reading!Handed([left |-> l, out |-> out, cut |-> {}], h)
             whole == h = 2 /\ l[1].of = l[2].of /\ l[1].is \in {"text", "head"}
         IN /\ y = [left |-> y.left, out |-> y.out, cut |-> {}]
            /\ y.left \in Seq(Reading!Piece) /\ Len(y.left) = Len(l) - h
            /\ \A i \in 1 .. Len(l) - h : y.left[i] = l[h + i]
            /\ whole => y.out = Append(out, l[1].of)
            /\ ~whole => y.out = out
  <1> DEFINE x == [left |-> l, out |-> out, cut |-> {}]
             L == Len(l)
             s == SubSeq(l, 1, h)
             t == SubSeq(l, h + 1, L)
             y == Reading!Handed(x, h)
             whole == h = 2 /\ l[1].of = l[2].of /\ l[1].is \in {"text", "head"}
  <1>0. L \in Nat /\ DOMAIN l = 1 .. L /\ h \in Nat /\ h <= L
        /\ \A i \in 1 .. L : l[i] \in Reading!Piece
    BY LenProperties, ElementOfSeq
  <1>1. /\ x.left = l /\ x.out = out /\ x.cut = {}
        /\ y = [left |-> t, out |-> IF Reading!IsWhole(s) THEN Append(out, l[1].of) ELSE out,
                cut |-> {}]
    <2>1. \A a, b : [x EXCEPT !.left = a, !.out = b] = [left |-> a, out |-> b, cut |-> {}]
      <3> SUFFICES ASSUME NEW a, NEW b
                   PROVE  [x EXCEPT !.left = a, !.out = b] = [left |-> a, out |-> b, cut |-> {}]
        OBVIOUS
      <3> DEFINE v == [x EXCEPT !.left = a, !.out = b]
      <3>1. v.left = a /\ v.out = b /\ v.cut = {}
        OBVIOUS
      <3>2. DOMAIN v = {"left", "out", "cut"} /\ v = [i \in DOMAIN v |-> v[i]]
        OBVIOUS
      <3> HIDE DEF v
      <3>3. v = [left |-> a, out |-> b, cut |-> {}]
        BY <3>1, <3>2
      <3> QED
        BY <3>3 DEF v
    <2>2. x.left = l /\ x.out = out /\ x.cut = {}
      OBVIOUS
    <2> HIDE DEF x
    <2>3. y = [x EXCEPT !.left = SubSeq(x.left, h + 1, Len(x.left)),
                        !.out = IF Reading!IsWhole(SubSeq(x.left, 1, h))
                                THEN Append(x.out, x.left[1].of) ELSE x.out]
      BY DEF Reading!Handed
    <2> HIDE DEF y
    <2> QED
      BY <2>1, <2>2, <2>3
  <1>2. /\ t \in Seq(Reading!Piece) /\ Len(t) = L - h
        /\ \A i \in 1 .. L - h : t[i] = l[h + i]
    <2>1. \A i \in h + 1 .. L : l[i] \in Reading!Piece
      BY <1>0
    <2>2. /\ SubSeq(l, h + 1, L) \in Seq(Reading!Piece)
          /\ Len(SubSeq(l, h + 1, L)) = IF h + 1 <= L THEN L - (h + 1) + 1 ELSE 0
          /\ \A i \in 1 .. L - (h + 1) + 1 : SubSeq(l, h + 1, L)[i] = l[h + 1 + i - 1]
      <3> HIDE DEF L
      <3> QED
        BY <1>0, <2>1, SubSeqProperties
    <2> HIDE DEF L
    <2>3. L - (h + 1) + 1 = L - h /\ (~(h + 1 <= L) => L - h = 0)
          /\ \A i \in 1 .. L - h : h + 1 + i - 1 = h + i
      BY <1>0
    <2> QED
      BY <2>2, <2>3
  <1>3. /\ Len(s) = h /\ \A i \in 1 .. h : s[i] = l[i]
    <2>1. \A i \in 1 .. h : l[i] \in Reading!Piece
      BY <1>0
    <2>2. /\ Len(SubSeq(l, 1, h)) = IF 1 <= h THEN h - 1 + 1 ELSE 0
          /\ \A i \in 1 .. h - 1 + 1 : SubSeq(l, 1, h)[i] = l[1 + i - 1]
      BY <1>0, <2>1, SubSeqProperties
    <2>3. h - 1 + 1 = h /\ 1 <= h /\ \A i \in 1 .. h : 1 + i - 1 = i
      BY <1>0
    <2> QED
      BY <2>2, <2>3
  <1> HIDE DEF s
  <1>4. Reading!IsWhole(s) <=> whole
    <2>1. h = 2 => s[1] = l[1] /\ s[2] = l[2]
      BY <1>0, <1>3
    <2> QED
      BY <1>3, <2>1 DEF Reading!IsWhole
  <1> HIDE DEF x, t, y, whole, L
  <1>5. /\ y.left = t /\ y = [left |-> y.left, out |-> y.out, cut |-> {}]
        /\ whole => y.out = Append(out, l[1].of)
        /\ ~whole => y.out = out
    BY <1>1, <1>4
  <1> USE DEF L
  <1>6. /\ y.left \in Seq(Reading!Piece) /\ Len(y.left) = Len(l) - h
        /\ \A i \in 1 .. Len(l) - h : y.left[i] = l[h + i]
    BY <1>2, <1>5
  <1> QED
    BY <1>5, <1>6 DEF x, y, whole

\* A pass that finds nothing to take changes nothing.
LEMMA PassStays ==
  ASSUME NEW l, NEW out, NEW cut, Finished(l)
  PROVE  Reading!Pass([left |-> l, out |-> out, cut |-> cut]) = [left |-> l, out |-> out, cut |-> cut]
  <1> DEFINE x == [left |-> l, out |-> out, cut |-> cut]
  <1>1. x.left = l /\ [x EXCEPT !.left = l] = x
    OBVIOUS
  <1> HIDE DEF x
  <1>2. CASE l = <<>>
    <2>1. Reading!Pass(x) = x
      BY <1>1, <1>2 DEF Reading!Pass
    <2> QED
      BY <2>1 DEF x
  <1>3. CASE l # <<>>
    <2>1. Reading!Pass(x) = [x EXCEPT !.left = l]
      BY <1>1, <1>3 DEF Reading!Pass, Finished, Reading!Unfinished
    <2> QED
      BY <1>1, <2>1 DEF x
  <1> QED
    BY <1>2, <1>3

\* The queue, and behind it what was read.
LEMMA QueueIs ==
  ASSUME Reading!TypeOK, NEW n \in 1 .. Len(air)
  PROVE  /\ Queued(n) \in Seq(Reading!Piece) /\ Len(Queued(n)) = Len(rcv_fifo) + n
         /\ DOMAIN Queued(n) = 1 .. Len(rcv_fifo) + n /\ Queued(n) # <<>>
         /\ \A i \in 1 .. Len(rcv_fifo) : Queued(n)[i] = rcv_fifo[i]
         /\ \A i \in 1 .. n : Queued(n)[Len(rcv_fifo) + i] = air[i]
  <1> DEFINE F == Len(rcv_fifo)
             r == SubSeq(air, 1, n)
             q == rcv_fifo \o r
  <1>0. F \in Nat /\ rcv_fifo \in Seq(Reading!Piece) /\ n \in Nat /\ Len(air) \in Nat
        /\ n <= Len(air) /\ \A i \in 1 .. Len(air) : air[i] \in Reading!Piece
    BY SerialShape DEF Reading!TypeOK
  <1>1. r \in Seq(Reading!Piece) /\ Len(r) = n /\ \A i \in 1 .. n : r[i] = air[i]
    <2>1. \A i \in 1 .. n : air[i] \in Reading!Piece
      BY <1>0
    <2>2. /\ r \in Seq(Reading!Piece)
          /\ Len(r) = IF 1 <= n THEN n - 1 + 1 ELSE 0
          /\ \A i \in 1 .. n - 1 + 1 : r[i] = air[1 + i - 1]
      BY <1>0, <2>1, SubSeqProperties
    <2>3. n - 1 + 1 = n /\ 1 <= n /\ \A i \in 1 .. n : 1 + i - 1 = i
      BY <1>0
    <2> HIDE DEF r
    <2> QED
      BY <2>2, <2>3
  <1> HIDE DEF r
  <1>2. /\ q \in Seq(Reading!Piece) /\ Len(q) = F + n
        /\ \A i \in 1 .. F + n : q[i] = IF i <= F THEN rcv_fifo[i] ELSE r[i - F]
    <2>1. /\ q \in Seq(Reading!Piece) /\ Len(q) = Len(rcv_fifo) + Len(r)
          /\ \A i \in 1 .. Len(rcv_fifo) + Len(r) :
               q[i] = IF i <= Len(rcv_fifo) THEN rcv_fifo[i] ELSE r[i - Len(rcv_fifo)]
      BY <1>0, <1>1, ConcatProperties
    <2> HIDE DEF q
    <2> QED
      BY <1>1, <2>1
  <1> HIDE DEF q, F
  <1>3. \A i \in 1 .. F : q[i] = rcv_fifo[i]
    BY <1>0, <1>2
  <1>4. \A i \in 1 .. n : q[F + i] = air[i]
    <2> SUFFICES ASSUME NEW i \in 1 .. n PROVE q[F + i] = air[i]
      OBVIOUS
    <2> DEFINE j == F + i
    <2>1. j \in 1 .. F + n /\ ~(j <= F) /\ j - F = i
      BY <1>0
    <2> HIDE DEF j
    <2>2. q[j] = r[i]
      BY <1>2, <2>1
    <2>3. q[j] = air[i]
      BY <1>1, <2>2
    <2> QED
      BY <2>3 DEF j
  <1>5. DOMAIN q = 1 .. F + n /\ q # <<>>
    <2>1. F + n # 0
      BY <1>0
    <2> QED
      BY <1>2, <2>1, LenProperties, EmptySeq
  <1> QED
    BY <1>2, <1>3, <1>4, <1>5 DEF Queued, q, r, F

\* The empty sequence of accepted frames.
LEMMA NothingOut ==
  /\ <<>> \in Seq(1 .. MaxFrame) /\ DOMAIN <<>> = {}
  /\ \A d : OutTo(<<>>, d)
  BY EmptySeq DEF OutTo

\* One frame more is accepted.
LEMMA OneMoreOut ==
  ASSUME NEW out \in Seq(1 .. MaxFrame), NEW k \in 1 .. MaxFrame
  PROVE  LET o == Append(out, k) IN
         /\ o \in Seq(1 .. MaxFrame) /\ Len(out) \in Nat /\ DOMAIN out = 1 .. Len(out)
         /\ DOMAIN o = 1 .. Len(out) + 1 /\ o[Len(out) + 1] = k
         /\ \A i \in 1 .. Len(out) : o[i] = out[i]
  <1> DEFINE o == Append(out, k)
             L == Len(out)
  <1>1. L \in Nat /\ DOMAIN out = 1 .. L
    BY LenProperties
  <1>2. o \in Seq(1 .. MaxFrame) /\ Len(o) = L + 1 /\ (\A i \in 1 .. L : o[i] = out[i])
        /\ o[L + 1] = k
    BY AppendProperties
  <1> HIDE DEF o, L
  <1>3. DOMAIN o = 1 .. L + 1
    BY <1>2, LenProperties
  <1> QED
    BY <1>1, <1>2, <1>3 DEF o, L

\* A line or packet whose last piece is the piece d of the read is handed over.
LEMMA HandOver ==
  ASSUME SerialInv, NEW n \in 1 .. Len(air), NEW d \in 1 .. n, ~IsFirst(air[d]),
         NEW l \in Seq(Reading!Piece), NEW h \in 1 .. Len(l), NoEnd(rcv_fifo),
         Len(l) - h = n - d, \A i \in 1 .. n - d : l[h + i] = air[d + i], l[h] = air[d],
         NEW out \in Seq(1 .. MaxFrame), OutTo(out, d), KeptTo(out, d - 1),
         \A i \in DOMAIN out : out[i] < air[d].of,
         air[d].is = "end" /\ air[d].of \notin spoilt /\ Clean(air[d].of, spoilt) =>
           h = 2 /\ l[1].of = l[2].of /\ l[1].is \in {"text", "head"}
  PROVE  Taken(Reading!Handed([left |-> l, out |-> out, cut |-> {}], h), n, d)
  <1> DEFINE y == Reading!Handed([left |-> l, out |-> out, cut |-> {}], h)
             whole == h = 2 /\ l[1].of = l[2].of /\ l[1].is \in {"text", "head"}
             k == air[d].of
             O == Len(out)
  <1>1. /\ y = [left |-> y.left, out |-> y.out, cut |-> {}]
        /\ y.left \in Seq(Reading!Piece) /\ Len(y.left) = Len(l) - h
        /\ \A i \in 1 .. Len(l) - h : y.left[i] = l[h + i]
        /\ whole => y.out = Append(out, l[1].of)
        /\ ~whole => y.out = out
    BY HandedIs
  <1>a. whole => l[1].of = k
    OBVIOUS
  <1>b. air[d].is = "end" /\ k \notin spoilt /\ Clean(k, spoilt) => whole
    OBVIOUS
  <1>c. \A i \in DOMAIN out : out[i] < k
    OBVIOUS
  <1> HIDE DEF y, whole
  <1>2. /\ Len(y.left) = n - d /\ \A i \in 1 .. n - d : y.left[i] = air[d + i]
    BY <1>1
  <1>3. /\ d \in 1 .. Len(air) /\ d \in Nat /\ k \in 1 .. MaxFrame /\ k \in Nat
        /\ air[d] \in Reading!Piece /\ DOMAIN air = 1 .. Len(air)
    <2>1. /\ Len(air) \in Nat /\ DOMAIN air = 1 .. Len(air)
          /\ \A i \in 1 .. Len(air) : air[i] \in Reading!Piece
      BY SerialShape DEF SerialInv
    <2>2. d \in 1 .. Len(air) /\ d \in Nat
      BY <2>1
    <2> QED
      BY <2>1, <2>2, PieceIs
  <1>4. k \in DOMAIN frames /\ \A j \in DOMAIN accepted : accepted[j] < k
    BY <1>3 DEF SerialInv, Stream, Said, InOrder
  <1> HIDE DEF k
  <1>5. CASE whole
    <2> DEFINE o == Append(out, k)
    <2>0. y.out = o
      BY <1>1, <1>a, <1>5
    <2>1. /\ o \in Seq(1 .. MaxFrame) /\ O \in Nat /\ DOMAIN out = 1 .. O
          /\ DOMAIN o = 1 .. O + 1 /\ o[O + 1] = k
          /\ \A i \in 1 .. O : o[i] = out[i]
      BY <1>3, OneMoreOut
    <2> HIDE DEF o, O
    <2>2. \A i \in 1 .. O + 1 : (i = O + 1 /\ o[i] = k) \/ (i \in 1 .. O /\ o[i] = out[i])
      BY <2>1
    <2>3. ASSUME NEW i \in DOMAIN o, NEW j \in DOMAIN o, i < j PROVE o[i] < o[j]
      <3>1. i \in 1 .. O /\ o[i] = out[i]
        BY <2>1, <2>3
      <3>2. CASE j = O + 1
        BY <1>c, <2>1, <3>1, <3>2
      <3>3. CASE j \in 1 .. O
        <4>1. o[j] = out[j]
          BY <2>1, <3>3
        <4> QED
          BY <2>1, <2>3, <3>1, <3>3, <4>1 DEF OutTo
      <3> QED
        BY <2>1, <2>2, <3>2, <3>3
    <2>4. ASSUME NEW i \in DOMAIN o
          PROVE  /\ o[i] \in DOMAIN frames /\ o[i] <= k
                 /\ \A j \in DOMAIN accepted : accepted[j] < o[i]
      <3>1. CASE o[i] = k
        BY <1>3, <1>4, <3>1
      <3>2. CASE i \in 1 .. O /\ o[i] = out[i]
        BY <2>1, <3>2 DEF OutTo, k
      <3> QED
        BY <2>1, <2>2, <3>1, <3>2
    <2>5. OutTo(o, d)
      BY <2>1, <2>3, <2>4 DEF OutTo, k
    <2>6. KeptTo(o, d)
      <3> SUFFICES ASSUME NEW b \in 1 .. d, air[b].is = "end", air[b].of \notin spoilt,
                          Clean(air[b].of, spoilt)
                   PROVE  \E i \in DOMAIN o : o[i] = air[b].of
        BY DEF KeptTo
      <3>1. CASE b = d
        <4>1. O + 1 \in DOMAIN o
          BY <2>1
        <4> QED
          BY <2>1, <3>1, <4>1 DEF k
      <3>2. CASE b \in 1 .. d - 1
        <4>1. PICK i \in DOMAIN out : out[i] = air[b].of
          BY <3>2 DEF KeptTo
        <4>2. i \in DOMAIN o /\ o[i] = out[i]
          BY <2>1
        <4> QED
          BY <4>1, <4>2
      <3> QED
        BY <1>3, <3>1, <3>2
    <2> QED
      BY <1>1, <1>2, <2>0, <2>5, <2>6 DEF Taken, y
  <1>6. CASE ~whole
    <2>0. y.out = out
      BY <1>1, <1>6
    <2>1. KeptTo(out, d)
      <3> SUFFICES ASSUME NEW b \in 1 .. d, air[b].is = "end", air[b].of \notin spoilt,
                          Clean(air[b].of, spoilt)
                   PROVE  \E i \in DOMAIN out : out[i] = air[b].of
        BY DEF KeptTo
      <3>1. b # d
        BY <1>6, <1>b DEF k
      <3>2. b \in 1 .. d - 1
        BY <1>3, <3>1
      <3> QED
        BY <3>2 DEF KeptTo
    <2> QED
      BY <1>1, <1>2, <2>0, <2>1 DEF Taken, y
  <1> QED
    BY <1>5, <1>6

\* Where there is something to take out, the first pass is one of two.
LEMMA PassIs ==
  ASSUME NEW l \in Seq(Reading!Piece), NEW out, ~Finished(l)
  PROVE  LET x == [left |-> l, out |-> out, cut |-> {}] IN
         /\ l[1].is = "head" /\ Len(l) < 2 =>
              Reading!Pass(x) = [left |-> <<>>, out |-> out, cut |-> {l[1].of}]
         /\ l[1].is = "head" /\ ~(Len(l) < 2) => Reading!Pass(x) = Reading!Handed(x, 2)
         /\ l[1].is # "head" => /\ Reading!Ends(l) # {}
                                /\ Reading!Pass(x) = Reading!Handed(x, Reading!LineLen(l))
  <1> DEFINE x == [left |-> l, out |-> out, cut |-> {}]
  <1>1. x.left = l /\ l # <<>>
    BY DEF Finished
  <1>2. l[1].is # "head" => Reading!Ends(l) # {}
    BY DEF Finished
  <1>3. [x EXCEPT !.left = <<>>, !.cut = {l[1].of}] = [left |-> <<>>, out |-> out, cut |-> {l[1].of}]
    <2> DEFINE v == [x EXCEPT !.left = <<>>, !.cut = {l[1].of}]
    <2>1. v.left = <<>> /\ v.out = out /\ v.cut = {l[1].of}
      OBVIOUS
    <2>2. DOMAIN v = {"left", "out", "cut"} /\ v = [i \in DOMAIN v |-> v[i]]
      OBVIOUS
    <2> HIDE DEF v
    <2>3. v = [left |-> <<>>, out |-> out, cut |-> {l[1].of}]
      BY <2>1, <2>2
    <2> QED
      BY <2>3 DEF v
  <1> HIDE DEF x
  <1>4. l[1].is = "head" /\ Len(l) < 2 =>
          Reading!Pass(x) = [x EXCEPT !.left = <<>>, !.cut = {l[1].of}]
    BY <1>1 DEF Reading!Pass
  <1>5. l[1].is = "head" /\ ~(Len(l) < 2) => Reading!Pass(x) = Reading!Handed(x, 2)
    BY <1>1 DEF Reading!Pass
  <1>6. l[1].is # "head" => Reading!Pass(x) = Reading!Handed(x, Reading!LineLen(l))
    BY <1>1, <1>2 DEF Reading!Pass
  <1> QED
    BY <1>2, <1>3, <1>4, <1>5, <1>6 DEF x

\* Before a first pass that takes something out no end waits.
LEMMA NoEndWaits ==
  ASSUME SerialInv, NEW n \in 1 .. Len(air), ~Finished(Queued(n))
  PROVE  NoEnd(rcv_fifo) /\ (Queued(n)[1].is = "head" => rcv_fifo = <<>>)
  <1> DEFINE q == Queued(n)
             F == Len(rcv_fifo)
  <1>0. /\ F \in Nat /\ DOMAIN rcv_fifo = 1 .. F /\ (rcv_fifo = <<>> <=> F = 0)
        /\ BufMax \in Nat /\ n \in Nat
    BY SerialShape, SerialLimits DEF SerialInv
  <1>1. /\ DOMAIN q = 1 .. F + n /\ q # <<>>
        /\ \A i \in 1 .. F : q[i] = rcv_fifo[i]
    BY QueueIs DEF SerialInv
  <1>2. ~Finished(q)
    OBVIOUS
  <1> HIDE DEF q, F
  <1>3. rcv_fifo # <<>> =>
          /\ rcv_fifo[1].is # "head" /\ Reading!Ends(rcv_fifo) = {} /\ q[1] = rcv_fifo[1]
    <2>1. F # 0 => 1 \in 1 .. F
      BY <1>0
    <2> QED
      BY <1>0, <1>1, <2>1 DEF SerialInv, Waiting, Finished
  <1>4. ASSUME NEW e \in DOMAIN rcv_fifo, rcv_fifo[e].is = "end" PROVE FALSE
    <2>1. rcv_fifo # <<>>
      BY <1>0, <1>4
    <2>2. ~(e <= BufMax)
      BY <1>3, <1>4, <2>1 DEF Reading!Ends
    <2>3. PICK i \in DOMAIN q : i <= BufMax /\ q[i].is = "end"
      BY <1>1, <1>2, <1>3, <2>1 DEF Finished, Reading!Ends
    <2>4. i \in 1 .. F
      BY <1>0, <1>1, <1>4, <2>2, <2>3
    <2>5. i \in Reading!Ends(rcv_fifo)
      BY <1>0, <1>1, <2>3, <2>4 DEF Reading!Ends
    <2> QED
      BY <1>3, <2>1, <2>5
  <1>5. q[1].is = "head" => rcv_fifo = <<>>
    BY <1>3
  <1> QED
    BY <1>4, <1>5 DEF NoEnd, q

\* The first line of a queue is whole if nothing spoils the frame of its end.
LEMMA FirstLine ==
  ASSUME SerialInv, NEW n \in 1 .. Len(air), NEW d \in 1 .. n, NoEnd(rcv_fifo),
         air[d].is = "end", \A b \in 1 .. d - 1 : air[b].is # "end",
         air[d].of \notin spoilt, Clean(air[d].of, spoilt),
         rcv_fifo = <<>> => air[1].is # "head"
  PROVE  /\ Len(rcv_fifo) + d = 2
         /\ Queued(n)[1] = [of |-> air[d].of, is |-> "text"] /\ Queued(n)[2] = air[d]
  <1> DEFINE F == Len(rcv_fifo)
             k == air[d].of
             q == Queued(n)
  <1>0. /\ F \in Nat /\ DOMAIN rcv_fifo = 1 .. F /\ (rcv_fifo = <<>> <=> F = 0)
        /\ n \in Nat /\ d \in Nat /\ d \in 1 .. Len(air) /\ 1 \in 1 .. Len(air)
        /\ air # <<>> /\ DOMAIN air = 1 .. Len(air)
        /\ air[d] \in Reading!Piece /\ k \in Nat /\ air[1] \in Reading!Piece /\ air[1].of \in Nat
        /\ Reading!TypeOK /\ Stream /\ Waiting
    <2>1. Reading!TypeOK /\ Stream /\ Waiting
      BY DEF SerialInv
    <2>2. /\ F \in Nat /\ DOMAIN rcv_fifo = 1 .. F /\ (rcv_fifo = <<>> <=> F = 0)
          /\ Len(air) \in Nat /\ DOMAIN air = 1 .. Len(air) /\ (air = <<>> <=> Len(air) = 0)
      BY <2>1, SerialShape
    <2>3. n \in Nat /\ d \in Nat /\ d \in 1 .. Len(air) /\ 1 \in 1 .. Len(air) /\ Len(air) # 0
      BY <2>2
    <2>4. air[d] \in Reading!Piece /\ k \in Nat /\ air[1] \in Reading!Piece /\ air[1].of \in Nat
      BY <2>1, <2>3, SerialShape, PieceIs
    <2> QED
      BY <2>1, <2>2, <2>3, <2>4
  <1>1. /\ \A i \in 1 .. F : q[i] = rcv_fifo[i]
        /\ \A i \in 1 .. n : q[F + i] = air[i]
    BY <1>0, QueueIs
  <1>2. /\ air[1].of \in 1 .. k
        /\ \A j \in air[1].of .. k - 1 : frames[j] = "packet" /\ j \notin spoilt
        /\ Clean(air[1].of, spoilt)
    BY <1>0, BeforeEnd
  <1> HIDE DEF k, q, F
  <1>3. air[1].of \notin spoilt
    <2>1. air[1].of = k \/ air[1].of \in air[1].of .. k - 1
      BY <1>0, <1>2
    <2> QED
      BY <1>2, <2>1 DEF k
  <1>4. At = air[1].of /\ (Mid <=> ~IsFirst(air[1]))
    BY <1>0 DEF At, Mid
  <1>5. IF Mid THEN rcv_fifo = <<[of |-> At, is |-> "text"]>> ELSE rcv_fifo = <<>>
    BY <1>0, <1>2, <1>3, <1>4 DEF Waiting
  <1>6. CASE ~Mid
    <2>1. F = 0 /\ IsFirst(air[1]) /\ air[1].is # "head"
      BY <1>0, <1>4, <1>5, <1>6
    <2>2. d = 1 + 1 /\ air[1] = [of |-> k, is |-> "text"]
      BY <1>0, <2>1, WholeLine DEF k
    <2>3. q[1] = air[1] /\ q[2] = air[2]
      BY <1>0, <1>1, <2>1, <2>2
    <2> QED
      BY <2>1, <2>2, <2>3 DEF k, q, F
  <1>7. CASE Mid
    <2>1. rcv_fifo = <<[of |-> At, is |-> "text"]>>
      BY <1>5, <1>7
    <2>2. F = 1 /\ rcv_fifo[1] = [of |-> At, is |-> "text"]
      BY <2>1 DEF F
    <2>3. frames[At] = "line"
      <3>1. Said(rcv_fifo[1])
        BY <1>0, <2>2 DEF Waiting
      <3> QED
        BY <2>2, <3>1 DEF Said
    <2>4. At = k
      BY <1>0, <1>2, <1>4, <2>3
    <2>5. d = 1
      <3>1. d = 1 \/ Earlier(air[1], air[d])
        BY <1>0 DEF Stream
      <3>2. ~Earlier(air[1], air[d])
        BY <1>0, <1>4, <1>7, <2>4 DEF Earlier, IsFirst, k
      <3> QED
        BY <3>1, <3>2
    <2>6. q[1] = rcv_fifo[1] /\ q[2] = air[1]
      BY <1>0, <1>1, <2>2, <2>5
    <2> QED
      BY <2>2, <2>4, <2>5, <2>6 DEF k, q, F
  <1> QED
    BY <1>6, <1>7

\* The first pass of a read.
LEMMA PassBegun ==
  ASSUME SerialInv, NEW n \in 1 .. Len(air), ~Finished(Queued(n))
  PROVE  LET y == Reading!Pass([left |-> Queued(n), out |-> <<>>, cut |-> {}]) IN
         (\E d \in 1 .. n : Taken(y, n, d)) \/ CutShort(y, n)
  <1> DEFINE q == Queued(n)
             F == Len(rcv_fifo)
             x == [left |-> q, out |-> <<>>, cut |-> {}]
             y == Reading!Pass(x)
             h == Reading!LineLen(q)
             o == <<>>
  <1>0. /\ F \in Nat /\ DOMAIN rcv_fifo = 1 .. F /\ (rcv_fifo = <<>> <=> F = 0)
        /\ n \in Nat /\ Len(air) \in Nat /\ 1 \in 1 .. Len(air) /\ n <= Len(air)
        /\ Reading!TypeOK /\ Stream
    BY SerialShape DEF SerialInv
  <1>1. /\ q \in Seq(Reading!Piece) /\ Len(q) = F + n
        /\ \A i \in 1 .. F : q[i] = rcv_fifo[i]
        /\ \A i \in 1 .. n : q[F + i] = air[i]
    BY <1>0, QueueIs
  <1>2. NoEnd(rcv_fifo) /\ (q[1].is = "head" => rcv_fifo = <<>>)
    BY NoEndWaits
  <1>3. /\ q[1].is = "head" /\ Len(q) < 2 => y = [left |-> <<>>, out |-> <<>>, cut |-> {q[1].of}]
        /\ q[1].is = "head" /\ ~(Len(q) < 2) => y = Reading!Handed(x, 2)
        /\ q[1].is # "head" => Reading!Ends(q) # {} /\ y = Reading!Handed(x, h)
    BY <1>1, PassIs
  <1>4. /\ o \in Seq(1 .. MaxFrame) /\ DOMAIN o = {} /\ \A d : OutTo(o, d)
        /\ \A i \in DOMAIN o : \A k : o[i] < k
    BY NothingOut
  <1>x. x = [left |-> q, out |-> o, cut |-> {}]
    OBVIOUS
  <1> HIDE DEF q, F, y, o
  <1>5. CASE q[1].is = "head"
    <2>1. F = 0 /\ Len(q) = n /\ \A i \in 1 .. n : q[i] = air[i]
      BY <1>0, <1>1, <1>2, <1>5
    <2>2. q[1] = air[1] /\ air[1].is = "head"
      BY <1>0, <1>5, <2>1
    <2>3. CASE n < 2
      <3>1. n = 1
        BY <1>0, <2>3
      <3>2. y = [left |-> <<>>, out |-> o, cut |-> {air[n].of}]
        BY <1>3, <1>5, <2>1, <2>2, <2>3, <3>1 DEF o
      <3>3. KeptTo(o, n)
        BY <2>2, <3>1 DEF KeptTo
      <3>4. CutShort(y, n)
        BY <1>2, <1>4, <2>2, <3>1, <3>2, <3>3 DEF CutShort
      <3> QED
        BY <3>4 DEF y, o, q, x
    <2>4. CASE ~(n < 2)
      <3>1. 2 \in 1 .. n /\ 2 \in 1 .. Len(q) /\ 1 + 1 = 2
        BY <1>0, <2>1, <2>4
      <3>2. air[2].is = "body"
        <4>1. air[1 + 1] = [of |-> air[1].of, is |-> "body"]
          BY <1>0, <2>2, FirstHasSecond
        <4> QED
          BY <3>1, <4>1
      <3>3. KeptTo(o, 2 - 1)
        BY <2>2 DEF KeptTo
      <3>4. /\ Len(q) - 2 = n - 2 /\ q[2] = air[2]
            /\ \A i \in 1 .. n - 2 : q[2 + i] = air[2 + i]
        BY <1>0, <2>1, <3>1
      <3> HIDE DEF x
      <3>5. Taken(Reading!Handed(x, 2), n, 2)
        BY <1>1, <1>2, <1>4, <1>x, <3>1, <3>2, <3>3, <3>4, HandOver DEF IsFirst
      <3>6. y = Reading!Handed(x, 2)
        BY <1>3, <1>5, <2>1, <2>4
      <3>7. Taken(y, n, 2)
        BY <3>5, <3>6
      <3> QED
        BY <3>1, <3>7 DEF y, q, x
    <2> QED
      BY <2>3, <2>4
  <1>6. CASE q[1].is # "head"
    <2>1. /\ h \in 1 .. F + n /\ q[h].is = "end" /\ \A j \in 1 .. h - 1 : q[j].is # "end"
      BY <1>1, <1>3, <1>6, LineLenIs
    <2> DEFINE d == h - F
    <2>2. ~(h <= F)
      <3> SUFFICES ASSUME h <= F PROVE FALSE
        OBVIOUS
      <3>1. h \in 1 .. F /\ h \in DOMAIN rcv_fifo
        BY <1>0, <2>1
      <3>2. q[h] = rcv_fifo[h]
        BY <1>1, <3>1
      <3> QED
        BY <1>2, <2>1, <3>1, <3>2 DEF NoEnd
    <2> HIDE DEF h
    <2>3. d \in 1 .. n /\ h = F + d /\ h \in 1 .. F + n /\ d \in Nat /\ h \in Nat
      BY <1>0, <2>1, <2>2
    <2> HIDE DEF d
    <2>4. q[h] = air[d] /\ air[d].is = "end"
      BY <1>1, <2>1, <2>3
    <2>5. \A b \in 1 .. d - 1 : air[b].is # "end"
      <3> SUFFICES ASSUME NEW b \in 1 .. d - 1 PROVE air[b].is # "end"
        OBVIOUS
      <3>1. b \in 1 .. n /\ F + b \in 1 .. h - 1
        BY <1>0, <2>3
      <3>2. q[F + b] = air[b]
        BY <1>1, <3>1
      <3> QED
        BY <2>1, <3>1, <3>2
    <2>6. KeptTo(o, d - 1)
      BY <2>5 DEF KeptTo
    <2>7. rcv_fifo = <<>> => air[1].is # "head"
      <3>1. F = 0 => q[1] = air[1]
        <4>1. 1 \in 1 .. n
          BY <1>0
        <4>2. F = 0 => F + 1 = 1
          OBVIOUS
        <4> QED
          BY <1>1, <4>1, <4>2
      <3> QED
        BY <1>0, <1>6, <3>1
    <2>8. air[d].is = "end" /\ air[d].of \notin spoilt /\ Clean(air[d].of, spoilt) =>
            h = 2 /\ q[1].of = q[2].of /\ q[1].is \in {"text", "head"}
      <3> SUFFICES ASSUME air[d].of \notin spoilt, Clean(air[d].of, spoilt)
                   PROVE  h = 2 /\ q[1].of = q[2].of /\ q[1].is \in {"text", "head"}
        OBVIOUS
      <3>1. F + d = 2 /\ q[1] = [of |-> air[d].of, is |-> "text"] /\ q[2] = air[d]
        BY <1>2, <2>3, <2>4, <2>5, <2>7, FirstLine DEF q, F
      <3> QED
        BY <2>3, <3>1
    <2>9. Len(q) - h = n - d /\ \A i \in 1 .. n - d : q[h + i] = air[d + i]
      <3>1. Len(q) - h = n - d
        BY <1>0, <1>1, <2>3
      <3>2. ASSUME NEW i \in 1 .. n - d PROVE q[h + i] = air[d + i]
        <4>1. d + i \in 1 .. n /\ h + i = F + (d + i)
          BY <1>0, <2>3
        <4> QED
          BY <1>1, <4>1
      <3> QED
        BY <3>1, <3>2
    <2>a. ~IsFirst(air[d]) /\ h \in 1 .. Len(q)
      BY <1>1, <2>3, <2>4 DEF IsFirst
    <2> HIDE DEF x
    <2>b. Taken(Reading!Handed(x, h), n, d)
      BY <1>1, <1>2, <1>4, <1>x, <2>3, <2>4, <2>6, <2>8, <2>9, <2>a, HandOver
    <2>c. Taken(y, n, d)
      BY <1>3, <1>6, <2>b
    <2> QED
      BY <2>3, <2>c DEF y, q, x
  <1> QED
    BY <1>5, <1>6

\* A later pass.
LEMMA PassTaken ==
  ASSUME SerialInv, NEW n \in 1 .. Len(air), NEW c \in 1 .. n, NEW x, Taken(x, n, c),
         ~Finished(x.left)
  PROVE  /\ (\E d \in c + 1 .. n : Taken(Reading!Pass(x), n, d)) \/ CutShort(Reading!Pass(x), n)
         /\ x.left # <<>>
  <1> DEFINE l == x.left
             o == x.out
             y == Reading!Pass(x)
             h == Reading!LineLen(l)
             s == c + 1
  <1>0. /\ n \in Nat /\ Len(air) \in Nat /\ n <= Len(air) /\ c \in Nat /\ c \in 1 .. Len(air)
        /\ DOMAIN air = 1 .. Len(air) /\ Reading!TypeOK /\ Stream
        /\ \A i \in 1 .. Len(air) : air[i] \in Reading!Piece /\ air[i].of \in Nat
    <2>1. Reading!TypeOK /\ Stream
      BY DEF SerialInv
    <2>2. /\ Len(air) \in Nat /\ DOMAIN air = 1 .. Len(air)
          /\ \A i \in 1 .. Len(air) : air[i] \in Reading!Piece /\ air[i].of \in Nat
      BY <2>1, SerialShape, PieceIs
    <2> QED
      BY <2>1, <2>2
  <1>1. /\ l \in Seq(Reading!Piece) /\ Len(l) = n - c /\ \A i \in 1 .. n - c : l[i] = air[c + i]
        /\ OutTo(o, c) /\ KeptTo(o, c) /\ o \in Seq(1 .. MaxFrame)
        /\ NoEnd(rcv_fifo) /\ ~IsFirst(air[c]) /\ x = [left |-> l, out |-> o, cut |-> {}]
    BY DEF Taken, OutTo
  <1>2. ~Finished(l)
    OBVIOUS
  <1> HIDE DEF l, o
  <1>3. l # <<>> /\ c < n
    BY <1>0, <1>1, <1>2, EmptySeq DEF Finished
  <1>4. s \in 1 .. n /\ s \in 1 .. Len(air) /\ 1 \in 1 .. n - c /\ s \in Nat
    BY <1>0, <1>3
  <1>5. l[1] = air[s] /\ IsFirst(air[s])
    <2>1. l[1] = air[s]
      BY <1>1, <1>4
    <2>2. IsFirst(air[s])
      BY <1>0, <1>1, <1>4, SecondHasFirst DEF IsFirst
    <2> QED
      BY <2>1, <2>2
  <1>6. /\ l[1].is = "head" /\ Len(l) < 2 => y = [left |-> <<>>, out |-> o, cut |-> {l[1].of}]
        /\ l[1].is = "head" /\ ~(Len(l) < 2) => y = Reading!Handed(x, 2)
        /\ l[1].is # "head" => Reading!Ends(l) # {} /\ y = Reading!Handed(x, h)
    BY <1>1, <1>2, PassIs
  <1> HIDE DEF y, s
  <1>7. \A d \in 1 .. Len(air) : c < d => air[c].of < air[d].of
    <2> SUFFICES ASSUME NEW d \in 1 .. Len(air), c < d PROVE air[c].of < air[d].of
      OBVIOUS
    <2>1. Earlier(air[c], air[d])
      BY <1>0 DEF Stream
    <2> QED
      BY <1>1, <2>1 DEF Earlier, IsFirst
  <1>8. ASSUME NEW d \in 1 .. n, c < d
        PROVE  OutTo(o, d) /\ \A i \in DOMAIN o : o[i] < air[d].of
    <2>1. d \in 1 .. Len(air)
      BY <1>0
    <2>2. air[c].of < air[d].of /\ air[c].of \in Nat /\ air[d].of \in Nat
      BY <1>0, <1>7, <1>8, <2>1
    <2>3. \A i \in DOMAIN o : o[i] \in Nat /\ o[i] <= air[c].of
      <3>1. \A i \in DOMAIN o : o[i] \in 1 .. Len(frames)
        BY <1>0, <1>1, SerialShape DEF OutTo
      <3> QED
        BY <1>0, <1>1, <3>1, SerialShape DEF OutTo
    <2>4. \A i \in DOMAIN o : o[i] < air[d].of /\ o[i] <= air[d].of
      BY <2>2, <2>3
    <2> QED
      BY <1>1, <2>4 DEF OutTo
  <1>9. ASSUME NEW d \in 1 .. n, c < d, \A b \in c + 1 .. d - 1 : air[b].is # "end"
        PROVE  KeptTo(o, d - 1)
    <2> SUFFICES ASSUME NEW b \in 1 .. d - 1, air[b].is = "end", air[b].of \notin spoilt,
                        Clean(air[b].of, spoilt)
                 PROVE  \E i \in DOMAIN o : o[i] = air[b].of
      BY DEF KeptTo
    <2>1. b \in 1 .. c \/ b \in c + 1 .. d - 1
      BY <1>0
    <2> QED
      BY <1>1, <1>9, <2>1 DEF KeptTo
  <1>a. CASE l[1].is = "head" /\ n = s
    <2>1. Len(l) < 2
      BY <1>0, <1>1, <1>a DEF s
    <2>2. y = [left |-> <<>>, out |-> o, cut |-> {air[n].of}]
      BY <1>5, <1>6, <1>a, <2>1
    <2>3. n \in 1 .. n /\ c < n /\ \A b \in c + 1 .. n - 1 : FALSE
      BY <1>0, <1>3, <1>a DEF s
    <2>4. OutTo(o, n) /\ \A i \in DOMAIN o : o[i] < air[n].of
      BY <1>8, <2>3
    <2>5. KeptTo(o, n - 1)
      BY <1>9, <2>3
    <2>6. KeptTo(o, n)
      <3>1. \A b \in 1 .. n : b \in 1 .. n - 1 \/ b = n
        BY <1>0
      <3> QED
        BY <1>5, <1>a, <2>5, <3>1 DEF KeptTo
    <2>7. CutShort(y, n)
      BY <1>1, <1>5, <1>a, <2>2, <2>4, <2>6 DEF CutShort
    <2> QED
      BY <1>3, <2>7 DEF y, l
  <1>b. CASE l[1].is = "head" /\ n # s
    <2> DEFINE d == s + 1
    <2>1. /\ d \in 1 .. n /\ d = c + 2 /\ c < d /\ ~(Len(l) < 2) /\ 2 \in 1 .. Len(l)
          /\ d \in c + 1 .. n /\ d - 1 = s /\ \A b \in c + 1 .. d - 1 : b = s
      BY <1>0, <1>1, <1>4, <1>b DEF s
    <2>2. air[d].is = "body"
      <3>1. air[s].is = "head"
        BY <1>5, <1>b
      <3>2. air[d] = [of |-> air[s].of, is |-> "body"]
        BY <1>0, <1>4, <3>1, FirstHasSecond
      <3> HIDE DEF d
      <3> QED
        BY <3>2
    <2> HIDE DEF d
    <2>3. \A b \in c + 1 .. d - 1 : air[b].is # "end"
      BY <1>5, <1>b, <2>1
    <2>4. KeptTo(o, d - 1) /\ OutTo(o, d) /\ \A i \in DOMAIN o : o[i] < air[d].of
      BY <1>8, <1>9, <2>1, <2>3
    <2>5. Len(l) - 2 = n - d /\ l[2] = air[d]
      <3>1. 2 \in 1 .. n - c
        BY <1>1, <2>1
      <3> QED
        BY <1>0, <1>1, <2>1, <3>1
    <2>6. ASSUME NEW i \in 1 .. n - d PROVE l[2 + i] = air[d + i]
      <3>1. 2 + i \in 1 .. n - c /\ c + (2 + i) = d + i
        BY <1>0, <2>1
      <3> QED
        BY <1>1, <3>1
    <2>7. Taken(Reading!Handed([left |-> l, out |-> o, cut |-> {}], 2), n, d)
      BY <1>1, <2>1, <2>2, <2>4, <2>5, <2>6, HandOver DEF IsFirst
    <2>8. Taken(y, n, d)
      BY <1>1, <1>6, <1>b, <2>1, <2>7
    <2> QED
      BY <1>3, <2>1, <2>8 DEF y, l
  <1>c. CASE l[1].is # "head"
    <2>1. /\ h \in 1 .. n - c /\ h \in 1 .. Len(l) /\ l[h].is = "end"
          /\ \A j \in 1 .. h - 1 : l[j].is # "end"
      BY <1>1, <1>6, <1>c, LineLenIs
    <2> HIDE DEF h
    <2> DEFINE d == c + h
    <2>2. /\ d \in 1 .. n /\ c < d /\ d \in c + 1 .. n /\ d \in s .. Len(air) /\ h \in Nat
          /\ n - c - h = n - d
      BY <1>0, <1>4, <2>1 DEF s
    <2>3. l[h] = air[d] /\ air[d].is = "end"
      BY <1>1, <2>1
    <2>4. \A b \in c + 1 .. d - 1 : air[b].is # "end"
      <3> SUFFICES ASSUME NEW b \in c + 1 .. d - 1 PROVE air[b].is # "end"
        OBVIOUS
      <3>1. b - c \in 1 .. h - 1 /\ b - c \in 1 .. n - c /\ c + (b - c) = b
        <4>1. c \in Nat /\ n \in Nat /\ h \in Nat /\ h <= n - c
          BY <1>0, <2>1, <2>2
        <4> QED
          BY <4>1
      <3>2. l[b - c] = air[b]
        BY <1>1, <3>1
      <3> QED
        BY <2>1, <3>1, <3>2
    <2>5. ASSUME NEW i \in 1 .. n - d PROVE l[h + i] = air[d + i]
      <3>1. h + i \in 1 .. n - c /\ c + (h + i) = d + i
        BY <1>0, <2>1, <2>2
      <3> QED
        BY <1>1, <3>1
    <2> HIDE DEF d
    <2>6. KeptTo(o, d - 1) /\ OutTo(o, d) /\ \A i \in DOMAIN o : o[i] < air[d].of
      BY <1>8, <1>9, <2>2, <2>4
    <2>7. air[d].is = "end" /\ air[d].of \notin spoilt /\ Clean(air[d].of, spoilt) =>
            h = 2 /\ l[1].of = l[2].of /\ l[1].is \in {"text", "head"}
      <3> SUFFICES ASSUME air[d].of \notin spoilt, Clean(air[d].of, spoilt)
                   PROVE  h = 2 /\ l[1].of = l[2].of /\ l[1].is \in {"text", "head"}
        OBVIOUS
      <3>1. \A i \in s .. d - 1 : air[i].is # "end"
        BY <2>4 DEF s
      <3>2. d = s + 1 /\ air[s] = [of |-> air[d].of, is |-> "text"]
        BY <1>0, <1>4, <1>5, <1>c, <2>2, <2>3, <3>1, WholeLine
      <3>3. h = 2
        BY <1>0, <2>2, <3>2 DEF d, s
      <3> QED
        BY <1>5, <2>3, <3>2, <3>3
    <2>8. Taken(Reading!Handed([left |-> l, out |-> o, cut |-> {}], h), n, d)
      BY <1>1, <2>1, <2>2, <2>3, <2>5, <2>6, <2>7, HandOver DEF IsFirst
    <2>9. Taken(y, n, d)
      BY <1>1, <1>6, <1>c, <2>8
    <2> QED
      BY <1>3, <2>2, <2>9 DEF y, l
  <1> QED
    BY <1>a, <1>b, <1>c

\* What the loop has come to has the fields of a read, and is never longer than the queue.
LEMMA LoopedIs ==
  ASSUME SerialInv, NEW n \in 1 .. Len(air), NEW x, Looped(x, n)
  PROVE  /\ x = [left |-> x.left, out |-> x.out, cut |-> x.cut]
         /\ x.left \in Seq(Reading!Piece) /\ Len(x.left) \in Nat
         /\ Len(x.left) <= Len(rcv_fifo) + n
         /\ (x.left = <<>> <=> Len(x.left) = 0)
  <1>0. Len(rcv_fifo) \in Nat /\ n \in Nat /\ Reading!TypeOK
    BY SerialShape DEF SerialInv
  <1>1. /\ x = [left |-> x.left, out |-> x.out, cut |-> x.cut]
        /\ x.left \in Seq(Reading!Piece) /\ Len(x.left) <= Len(rcv_fifo) + n
    <2>1. CASE Begun(x, Queued(n))
      <3>1. x.left = Queued(n) /\ x = [left |-> x.left, out |-> x.out, cut |-> x.cut]
        BY <2>1 DEF Begun
      <3> QED
        BY <1>0, <3>1, QueueIs
    <2>2. ASSUME NEW d \in 1 .. n, Taken(x, n, d)
          PROVE  /\ x = [left |-> x.left, out |-> x.out, cut |-> x.cut]
                 /\ x.left \in Seq(Reading!Piece) /\ Len(x.left) <= Len(rcv_fifo) + n
      <3>1. /\ x = [left |-> x.left, out |-> x.out, cut |-> {}]
            /\ x.left \in Seq(Reading!Piece) /\ Len(x.left) = n - d
        BY <2>2 DEF Taken
      <3>2. x.cut = {}
        BY <3>1
      <3>3. n - d <= Len(rcv_fifo) + n
        BY <1>0
      <3> QED
        BY <3>1, <3>2, <3>3
    <2>3. CASE CutShort(x, n)
      <3>1. x = [left |-> <<>>, out |-> x.out, cut |-> {air[n].of}]
        BY <2>3 DEF CutShort
      <3>2. x.left = <<>> /\ x.cut = {air[n].of}
        BY <3>1
      <3>3. <<>> \in Seq(Reading!Piece) /\ Len(<<>>) = 0
        BY EmptySeq
      <3> QED
        BY <1>0, <3>1, <3>2, <3>3
    <2> QED
      BY <2>1, <2>2, <2>3 DEF Looped
  <1> QED
    BY <1>1, LenProperties, EmptySeq

\* A pass that is not the last one takes something out.
LEMMA LoopStep ==
  ASSUME SerialInv, NEW n \in 1 .. Len(air), NEW x, Looped(x, n), ~Finished(x.left)
  PROVE  Looped(Reading!Pass(x), n) /\ Len(Reading!Pass(x).left) < Len(x.left)
  <1> DEFINE y == Reading!Pass(x)
  <1>0. /\ Len(rcv_fifo) \in Nat /\ n \in Nat /\ Reading!TypeOK
        /\ Len(x.left) \in Nat /\ Len(x.left) # 0
    BY SerialShape, LoopedIs DEF SerialInv, Finished
  <1>1. CASE Begun(x, Queued(n))
    <2>1. x = [left |-> Queued(n), out |-> <<>>, cut |-> {}] /\ x.left = Queued(n)
      BY <1>1 DEF Begun
    <2>2. (\E d \in 1 .. n : Taken(y, n, d)) \/ CutShort(y, n)
      BY <2>1, PassBegun
    <2>3. Len(x.left) = Len(rcv_fifo) + n
      BY <1>0, <2>1, QueueIs
    <2> HIDE DEF y
    <2>4. ASSUME NEW d \in 1 .. n, Taken(y, n, d) PROVE Len(y.left) < Len(x.left)
      <3>1. Len(y.left) = n - d
        BY <2>4 DEF Taken
      <3> QED
        BY <1>0, <2>3, <3>1
    <2>5. CutShort(y, n) => Len(y.left) < Len(x.left)
      <3>1. CutShort(y, n) => y.left = <<>>
        BY DEF CutShort
      <3> QED
        BY <1>0, <3>1, EmptySeq
    <2>6. Looped(y, n) /\ Len(y.left) < Len(x.left)
      BY <2>2, <2>4, <2>5 DEF Looped
    <2> QED
      BY <2>6 DEF y
  <1>2. ASSUME NEW c \in 1 .. n, Taken(x, n, c)
        PROVE  Looped(y, n) /\ Len(y.left) < Len(x.left)
    <2>1. (\E d \in c + 1 .. n : Taken(y, n, d)) \/ CutShort(y, n)
      BY <1>2, PassTaken
    <2>2. Len(x.left) = n - c
      BY <1>2 DEF Taken
    <2> HIDE DEF y
    <2>3. ASSUME NEW d \in c + 1 .. n, Taken(y, n, d)
          PROVE  d \in 1 .. n /\ Len(y.left) < Len(x.left)
      <3>1. Len(y.left) = n - d
        BY <2>3 DEF Taken
      <3> QED
        BY <1>0, <2>2, <3>1
    <2>4. CutShort(y, n) => Len(y.left) < Len(x.left)
      <3>1. CutShort(y, n) => y.left = <<>>
        BY DEF CutShort
      <3> QED
        BY <1>0, <3>1, EmptySeq
    <2> QED
      BY <2>1, <2>3, <2>4 DEF Looped
  <1>3. ~CutShort(x, n)
    BY DEF CutShort, Finished
  <1> QED
    BY <1>1, <1>2, <1>3 DEF Looped

\* The loop runs until there is nothing to take out.
LEMMA SentencesAre ==
  ASSUME SerialInv, NEW n \in 1 .. Len(air)
  PROVE  LET x == Reading!Sentences(Queued(n)) IN Looped(x, n) /\ Finished(x.left)
  <1> DEFINE q == Queued(n)
             L == Len(q)
             z == [left |-> q, out |-> <<>>, cut |-> {}]
  <1>0. /\ Reading!TypeOK /\ L \in Nat
    <2>1. Reading!TypeOK /\ Len(rcv_fifo) \in Nat /\ n \in Nat
      BY SerialShape DEF SerialInv
    <2>2. L = Len(rcv_fifo) + n
      BY <2>1, QueueIs
    <2> QED
      BY <2>1, <2>2
  <1>1. PICK f : /\ f[0] = z /\ \A j \in 1 .. L : f[j] = Reading!Pass(f[j - 1])
                 /\ Reading!Sentences(q) = f[L]
    BY <1>0, LoopExists
  <1> DEFINE Good(j) == /\ Looped(f[j], n)
                        /\ Finished(f[j].left) \/ Len(f[j].left) + j <= L
             T == {j \in 0 .. L : Good(j)}
  <1>2. 0 \in T
    <2>1. Looped(f[0], n) /\ f[0].left = q
      BY <1>1 DEF Looped, Begun
    <2> HIDE DEF L
    <2>2. Len(q) + 0 <= L
      BY <1>0 DEF L
    <2> QED
      BY <1>0, <2>1, <2>2
  <1> HIDE DEF L
  <1>3. ASSUME NEW j \in 0 .. L - 1, j \in T PROVE j + 1 \in T
    <2>1. f[j + 1] = Reading!Pass(f[j]) /\ Looped(f[j], n) /\ j + 1 \in 0 .. L
      <3>1. j + 1 \in 1 .. L /\ j + 1 - 1 = j /\ j + 1 \in 0 .. L
        BY <1>0
      <3> QED
        BY <1>1, <1>3, <3>1
    <2>2. CASE Finished(f[j].left)
      <3>1. f[j + 1] = f[j]
        BY <2>1, <2>2, LoopedIs, PassStays
      <3> QED
        BY <2>1, <2>2, <3>1
    <2>3. CASE ~Finished(f[j].left)
      <3>1. Looped(f[j + 1], n) /\ Len(f[j + 1].left) < Len(f[j].left)
        BY <2>1, <2>3, LoopStep
      <3>2. Len(f[j + 1].left) \in Nat /\ Len(f[j].left) \in Nat /\ Len(f[j].left) + j <= L
        BY <1>3, <2>1, <2>3, <3>1, LoopedIs
      <3>3. Len(f[j + 1].left) + (j + 1) <= L
        <4> DEFINE a == Len(f[j + 1].left)
                   b == Len(f[j].left)
        <4>1. a \in Nat /\ b \in Nat /\ b + j <= L /\ a < b /\ j \in Nat
          BY <1>0, <3>1, <3>2
        <4> HIDE DEF a, b
        <4>2. a + (j + 1) <= L
          BY <1>0, <4>1
        <4> QED
          BY <4>2 DEF a
      <3> QED
        BY <2>1, <3>1, <3>3
    <2> QED
      BY <2>2, <2>3
  <1>4. 0 .. L \subseteq T
    <2> HIDE DEF T
    <2>1. \A j \in 0 .. L - 1 : j \in T => j + 1 \in T
      BY <1>3
    <2> QED
      BY <1>0, <1>2, <2>1, UpTo
  <1>5. Looped(f[L], n) /\ (Finished(f[L].left) \/ Len(f[L].left) + L <= L)
    BY <1>0, <1>4
  <1>6. Finished(f[L].left)
    <2>1. Len(f[L].left) \in Nat /\ (f[L].left = <<>> <=> Len(f[L].left) = 0)
      BY <1>5, LoopedIs
    <2> QED
      BY <1>0, <1>5, <2>1 DEF Finished
  <1> QED
    BY <1>1, <1>5, <1>6

\* The loop finds nothing to take out of a queue it has been through.
LEMMA SentencesStay ==
  ASSUME NEW q \in Seq(Reading!Piece), Finished(q)
  PROVE  Reading!Sentences(q) = [left |-> q, out |-> <<>>, cut |-> {}]
  <1> DEFINE L == Len(q)
             z == [left |-> q, out |-> <<>>, cut |-> {}]
  <1>0. L \in Nat
    BY LenProperties
  <1>1. PICK f : /\ f[0] = z /\ \A j \in 1 .. L : f[j] = Reading!Pass(f[j - 1])
                 /\ Reading!Sentences(q) = f[L]
    BY <1>0, LoopExists
  <1>2. Reading!Pass(z) = z
    BY PassStays
  <1> DEFINE T == {j \in 0 .. L : f[j] = z}
  <1> HIDE DEF L, z
  <1>3. 0 \in T
    BY <1>0, <1>1
  <1>4. ASSUME NEW j \in 0 .. L - 1, j \in T PROVE j + 1 \in T
    <2>1. j + 1 \in 1 .. L /\ j + 1 - 1 = j /\ j + 1 \in 0 .. L
      BY <1>0
    <2> QED
      BY <1>1, <1>2, <1>4, <2>1
  <1>5. 0 .. L \subseteq T
    <2> HIDE DEF T
    <2>1. \A j \in 0 .. L - 1 : j \in T => j + 1 \in T
      BY <1>4
    <2> QED
      BY <1>0, <1>3, <2>1, UpTo
  <1>6. f[L] = z
    BY <1>0, <1>5
  <1> QED
    BY <1>1, <1>6 DEF z

\* What nothing spoils nothing spoilt before.
LEMMA CleanBefore ==
  ASSUME NEW m, NEW lost, NEW more, lost \subseteq more, Clean(m, more)
  PROVE  Clean(m, lost)
  BY DEF Clean

\* A read of n pieces leaves the stream as it is.
LEMMA StreamReads ==
  ASSUME Reading!TypeOK, Stream, NEW n \in 1 .. Len(air),
         air' = SubSeq(air, n + 1, Len(air)), frames' = frames
  PROVE  Stream'
  <1> DEFINE L == Len(air)
             a == air'
  <1>0. L \in Nat /\ n \in Nat /\ n <= L /\ DOMAIN air = 1 .. L
    BY SerialShape
  <1>1. /\ Len(a) = L - n /\ DOMAIN a = 1 .. L - n /\ (a = <<>> <=> L - n = 0)
        /\ \A i \in 1 .. L - n : a[i] = air[n + i]
    BY NextAt, EmptySeq
  <1> HIDE DEF L, a
  <1>2. \A i \in DOMAIN a : n + i \in 1 .. L /\ n + i \in DOMAIN air /\ i \in Nat
                            /\ a[i] = air[n + i]
    BY <1>0, <1>1
  <1>3. \A i \in DOMAIN a : Said(a[i])
    BY <1>2 DEF Stream
  <1>4. ASSUME NEW i \in DOMAIN a, NEW j \in DOMAIN a, i < j PROVE Earlier(a[i], a[j])
    <2>1. n + i < n + j
      BY <1>0, <1>2, <1>4
    <2>2. Earlier(air[n + i], air[n + j])
      BY <1>2, <2>1 DEF Stream
    <2> QED
      BY <1>2, <2>2
  <1>5. ASSUME a # <<>>, NEW p \in Reading!Piece, Said(p), ~Earlier(p, a[1])
        PROVE  \E i \in DOMAIN a : p = a[i]
    <2>1. n + 1 \in 1 .. L /\ 1 \in DOMAIN a
      BY <1>0, <1>1, <1>5
    <2>2. a[1] = air[n + 1]
      BY <1>2, <2>1
    <2>3. PICK k \in n + 1 .. L : air[k] = p
      BY <1>5, <2>1, <2>2, StillToCome DEF L
    <2>4. k - n \in DOMAIN a /\ n + (k - n) = k
      BY <1>0, <1>1, <2>3
    <2>5. a[k - n] = p
      BY <1>2, <2>3, <2>4
    <2> QED
      BY <2>4, <2>5
  <1>6. /\ \A i \in DOMAIN air' : Said(air'[i])
        /\ \A i, j \in DOMAIN air' : i < j => Earlier(air'[i], air'[j])
        /\ air' # <<>> =>
             \A p \in Reading!Piece : Said(p) => Earlier(p, air'[1]) \/ \E i \in DOMAIN air' : p = air'[i]
    BY <1>3, <1>4, <1>5 DEF a
  <1> QED
    BY <1>6 DEF Stream, Said, Earlier, Reading!Piece

\* A queue of one piece.
LEMMA OneLeft ==
  ASSUME NEW l \in Seq(Reading!Piece), Len(l) = 1, NEW p, l[1] = p
  PROVE  l = <<p>>
  <1>1. DOMAIN l = 1 .. 1
    BY LenProperties
  <1>2. l = [i \in 1 .. 1 |-> l[i]]
    BY <1>1, SeqDef
  <1>3. 1 .. 1 = {1}
    OBVIOUS
  <1> QED
    BY <1>2, <1>3

\* Behind a read, in the middle of a frame: what came last is its text or head.
LEMMA MidAfter ==
  ASSUME Reading!TypeOK, Stream, NEW n \in 1 .. Len(air),
         air' = SubSeq(air, n + 1, Len(air)), frames' = frames, Mid'
  PROVE  /\ n < Len(air) /\ At' = air[n].of /\ At' = air[n + 1].of
         /\ air[n].is \in {"text", "head"}
  <1>0. Len(air) \in Nat /\ n \in Nat /\ (n = Len(air) \/ n < Len(air))
        /\ (n < Len(air) => n + 1 \in 1 .. Len(air))
    <2> DEFINE L == Len(air)
    <2>1. L \in Nat /\ n \in 1 .. L
      BY SerialShape
    <2> HIDE DEF L
    <2>2. /\ L \in Nat /\ n \in Nat /\ (n = L \/ n < L)
          /\ (n < L => n + 1 \in 1 .. L)
      BY <2>1
    <2> QED
      BY <2>2 DEF L
  <1>1. n < Len(air) /\ At' = air[n + 1].of /\ ~IsFirst(air[n + 1])
    BY <1>0, NextAt
  <1>2. /\ air[n].of = air[n + 1].of
        /\ air[n].is = IF air[n + 1].is = "end" THEN "text" ELSE "head"
    BY <1>0, <1>1, SecondHasFirst
  <1> QED
    BY <1>1, <1>2

\* What a read that fits leaves in the queue.
LEMMA WaitingAfterLoop ==
  ASSUME SerialInv, NEW n \in 1 .. Len(air), NEW x, Looped(x, n), Finished(x.left),
         air' = SubSeq(air, n + 1, Len(air)), frames' = frames, rcv_fifo' = x.left,
         spoilt' = spoilt \cup x.cut
  PROVE  Waiting'
  <1> DEFINE F == Len(rcv_fifo)
             text == [of |-> At', is |-> "text"]
             q == Queued(n)
             l == x.left
  <1>0. /\ Reading!TypeOK /\ Stream /\ Waiting /\ F \in Nat /\ DOMAIN rcv_fifo = 1 .. F
        /\ (rcv_fifo = <<>> <=> F = 0)
        /\ n \in Nat /\ Len(air) \in Nat /\ DOMAIN air = 1 .. Len(air) /\ air # <<>>
        /\ 1 \in 1 .. n /\ 1 \in 1 .. Len(air) /\ n <= Len(air) /\ n \in 1 .. n
    <2>1. Reading!TypeOK /\ Stream /\ Waiting
      BY DEF SerialInv
    <2>2. /\ F \in Nat /\ DOMAIN rcv_fifo = 1 .. F /\ (rcv_fifo = <<>> <=> F = 0)
          /\ Len(air) \in Nat /\ DOMAIN air = 1 .. Len(air) /\ (air = <<>> <=> Len(air) = 0)
      BY <2>1, SerialShape
    <2> QED
      BY <2>1, <2>2
  <1>1. /\ q \in Seq(Reading!Piece) /\ Len(q) = F + n /\ DOMAIN q = 1 .. F + n
        /\ \A i \in 1 .. F : q[i] = rcv_fifo[i]
        /\ \A i \in 1 .. n : q[F + i] = air[i]
    BY <1>0, QueueIs
  <1>2. /\ x = [left |-> l, out |-> x.out, cut |-> x.cut] /\ l \in Seq(Reading!Piece)
        /\ Finished(l)
    BY LoopedIs
  <1> HIDE DEF F, q, l
  <1>t. At' = At' /\ text = [of |-> At', is |-> "text"]
    OBVIOUS
  <1>3. CASE Begun(x, q)
    <2>1. l = q /\ x.cut = {} /\ Finished(q)
      BY <1>2, <1>3 DEF Begun, l
    <2>2. \A i \in DOMAIN q : Said(q[i])
      <3> SUFFICES ASSUME NEW i \in 1 .. F + n PROVE Said(q[i])
        BY <1>1
      <3>1. CASE i \in 1 .. F
        BY <1>0, <1>1, <3>1 DEF Waiting
      <3>2. CASE i \notin 1 .. F
        <4>1. i - F \in 1 .. n /\ F + (i - F) = i /\ i - F \in 1 .. Len(air)
          BY <1>0, <3>2
        <4>2. q[i] = air[i - F]
          BY <1>1, <4>1
        <4> QED
          BY <1>0, <4>1, <4>2 DEF Stream
      <3> QED
        BY <3>1, <3>2
    <2>3. ASSUME Clean(At', spoilt), NoEnd(q) PROVE Mid' /\ q = <<text>>
      <3>1. NoEnd(rcv_fifo)
        <4>1. \A i \in 1 .. F : i \in 1 .. F + n
          BY <1>0
        <4> QED
          BY <1>0, <1>1, <2>3, <4>1 DEF NoEnd
      <3>2. \A i \in 1 .. n : air[i].is # "end"
        <4>1. \A i \in 1 .. n : F + i \in 1 .. F + n
          BY <1>0
        <4> QED
          BY <1>1, <2>3, <4>1 DEF NoEnd
      <3>3. /\ air[1].of \in 1 .. At'
            /\ \A k \in air[1].of .. At' - 1 : frames[k] = "packet" /\ k \notin spoilt
            /\ Clean(air[1].of, spoilt)
            /\ air[1].is \notin {"text", "head"} => air[1].of < At'
            /\ At' \in 1 .. Len(frames) + 1
        BY <1>0, <2>3, <3>2, BeforeNext
      <3>4. At = air[1].of /\ (Mid <=> ~IsFirst(air[1]))
        BY <1>0 DEF At, Mid
      <3>5. IF Mid THEN At \in spoilt \/ rcv_fifo = <<[of |-> At, is |-> "text"]>>
            ELSE rcv_fifo = <<>>
        BY <1>0, <3>1, <3>3, <3>4 DEF Waiting
      <3>6. ~Mid
        <4> SUFFICES ASSUME Mid PROVE FALSE
          OBVIOUS
        <4>1. Said(air[1]) /\ air[1].is = "body"
          <5>1. air[1] \in Reading!Piece /\ air[1].is # "end" /\ Said(air[1])
            BY <1>0, <3>2, SerialShape DEF Stream
          <5> QED
            BY <3>4, <5>1, PieceIs DEF IsFirst
        <4>2. frames[At] = "packet" /\ At < At'
          BY <3>3, <3>4, <4>1 DEF Said
        <4>3. At \notin spoilt
          <5> DEFINE w == At'
          <5>1. At < w /\ At \in 1 .. w /\ \A k \in At .. w - 1 : k \notin spoilt
            BY <3>3, <3>4, <4>2
          <5>2. w \in Nat
            BY <1>0, <3>3, SerialShape
          <5> HIDE DEF w
          <5> QED
            BY <5>1, <5>2
        <4>4. rcv_fifo = <<[of |-> At, is |-> "text"]>>
          BY <3>5, <4>3
        <4>5. F = 1 /\ rcv_fifo[1] = [of |-> At, is |-> "text"]
          BY <4>4 DEF F
        <4>6. Said(rcv_fifo[1])
          BY <1>0, <4>5 DEF Waiting
        <4> QED
          BY <4>2, <4>5, <4>6 DEF Said
      <3>7. F = 0 /\ Len(q) = n /\ q[1] = air[1]
        <4>1. F = 0
          BY <1>0, <3>5, <3>6
        <4>2. q[F + 1] = air[1]
          BY <1>0, <1>1
        <4> QED
          BY <1>0, <1>1, <4>1, <4>2
      <3>8. air[1].is # "head" /\ IsFirst(air[1])
        <4>1. q # <<>>
          BY <1>0, <1>1, <3>7, EmptySeq
        <4> QED
          BY <2>1, <3>4, <3>6, <3>7, <4>1 DEF Finished
      <3>9. 1 = n /\ Mid' /\ air[1] = text
        BY <1>0, <2>3, <3>2, <3>8, EndsInText
      <3> HIDE DEF text
      <3>a. q = <<text>>
        BY <1>1, <3>7, <3>9, OneLeft
      <3> QED
        BY <3>9, <3>a
    <2>4. /\ \A i \in DOMAIN rcv_fifo' : Said(rcv_fifo'[i])
          /\ Finished(rcv_fifo')
          /\ Clean(At', spoilt') /\ NoEnd(rcv_fifo') => Mid' /\ rcv_fifo' = <<text>>
      <3>1. rcv_fifo' = q /\ spoilt' = spoilt
        BY <2>1 DEF l
      <3> QED
        BY <2>1, <2>2, <2>3, <3>1
    <2> QED
      BY <2>4 DEF Waiting, Said, Finished, NoEnd, Clean, Reading!Ends
  <1>4. ASSUME NEW d \in 1 .. n, Taken(x, n, d) PROVE Waiting'
    <2>1. /\ Len(l) = n - d /\ \A i \in 1 .. n - d : l[i] = air[d + i]
          /\ x.cut = {} /\ ~IsFirst(air[d]) /\ DOMAIN l = 1 .. n - d /\ (l = <<>> <=> n - d = 0)
      <3>1. /\ Len(l) = n - d /\ \A i \in 1 .. n - d : l[i] = air[d + i]
            /\ x = [left |-> x.left, out |-> x.out, cut |-> {}] /\ ~IsFirst(air[d])
        BY <1>4 DEF Taken, l
      <3>2. x.cut = {}
        BY <3>1
      <3> QED
        BY <1>2, <3>1, <3>2, LenProperties, EmptySeq
    <2>2. \A i \in DOMAIN l : Said(l[i])
      <3>1. \A i \in 1 .. n - d : d + i \in 1 .. Len(air)
        BY <1>0
      <3> QED
        BY <1>0, <2>1, <3>1 DEF Stream
    <2>3. d = n => ~Mid' /\ l = <<>>
      <3>1. d = n /\ Mid' => air[d].is \in {"text", "head"}
        BY <1>0, MidAfter
      <3> QED
        BY <1>0, <2>1, <3>1 DEF IsFirst
    <2>4. ASSUME d < n, Clean(At', spoilt), NoEnd(l) PROVE Mid' /\ l = <<text>>
      <3> DEFINE s == d + 1
      <3>1. /\ s \in 1 .. n /\ s \in 1 .. Len(air) /\ 1 \in 1 .. n - d /\ d \in 1 .. Len(air)
            /\ s \in Nat /\ n - d # 0
        BY <1>0, <2>4
      <3>2. IsFirst(air[s])
        BY <1>0, <2>1, <3>1, SecondHasFirst DEF IsFirst
      <3>3. l[1] = air[s] /\ air[s].is # "head"
        BY <1>2, <2>1, <3>1 DEF Finished
      <3>4. ASSUME NEW i \in s .. n PROVE air[i].is # "end"
        <4>1. i - d \in 1 .. n - d /\ d + (i - d) = i
          BY <1>0
        <4> QED
          BY <2>1, <2>4, <4>1 DEF NoEnd
      <3> HIDE DEF s
      <3>5. s = n /\ Mid' /\ air[s] = text
        BY <1>0, <2>4, <3>1, <3>2, <3>3, <3>4, EndsInText
      <3>6. Len(l) = 1
        BY <1>0, <2>1, <3>5 DEF s
      <3> HIDE DEF text
      <3>7. l = <<text>>
        BY <1>2, <3>3, <3>5, <3>6, OneLeft
      <3> QED
        BY <3>5, <3>7
    <2>5. /\ \A i \in DOMAIN rcv_fifo' : Said(rcv_fifo'[i])
          /\ Finished(rcv_fifo')
          /\ Clean(At', spoilt') /\ NoEnd(rcv_fifo') =>
               (Mid' /\ rcv_fifo' = <<text>>) \/ (~Mid' /\ rcv_fifo' = <<>>)
      <3>1. rcv_fifo' = l /\ spoilt' = spoilt
        BY <2>1 DEF l
      <3>2. d = n \/ d < n
        BY <1>0
      <3> QED
        BY <1>2, <2>2, <2>3, <2>4, <3>1, <3>2
    <2> QED
      BY <2>5 DEF Waiting, Said, Finished, NoEnd, Clean, Reading!Ends
  <1>5. CASE CutShort(x, n)
    <2>1. l = <<>> /\ x.cut = {air[n].of}
      <3>1. x = [left |-> <<>>, out |-> x.out, cut |-> {air[n].of}]
        BY <1>5 DEF CutShort
      <3> QED
        BY <3>1 DEF l
    <2>2. Mid' => At' \in spoilt'
      <3>1. Mid' => At' = air[n].of
        BY <1>0, MidAfter
      <3> QED
        BY <2>1, <3>1
    <2>3. /\ \A i \in DOMAIN rcv_fifo' : Said(rcv_fifo'[i])
          /\ Finished(rcv_fifo') /\ rcv_fifo' = <<>>
      BY <2>1 DEF l, Finished
    <2> QED
      BY <2>2, <2>3 DEF Waiting, Said, Finished, NoEnd, Clean, Reading!Ends
  <1> QED
    BY <1>3, <1>4, <1>5 DEF Looped, q

\* The frames of a part of the stream.
LEMMA OfIs ==
  ASSUME NEW q \in Seq(Reading!Piece)
  PROVE  Reading!Of(q) = {q[i].of : i \in 1 .. Len(q)}
  BY LenProperties DEF Reading!Of

\* What is handed to gps.c comes behind what was.
LEMMA AcceptedIs ==
  ASSUME Reading!TypeOK, NEW out \in Seq(1 .. MaxFrame), accepted' = accepted \o out
  PROVE  /\ accepted' \in Seq(1 .. MaxFrame)
         /\ \A i \in DOMAIN accepted : i \in DOMAIN accepted' /\ accepted'[i] = accepted[i]
         /\ \A j \in DOMAIN out : \E i \in DOMAIN accepted' : accepted'[i] = out[j]
         /\ \A i \in DOMAIN accepted' :
              \/ i \in DOMAIN accepted /\ accepted'[i] = accepted[i]
              \/ \E j \in DOMAIN out : accepted'[i] = out[j]
         /\ (\A i, j \in DOMAIN accepted : i < j => accepted[i] < accepted[j])
            /\ (\A i, j \in DOMAIN out : i < j => out[i] < out[j])
            /\ (\A i \in DOMAIN accepted, j \in DOMAIN out : accepted[i] < out[j])
            => \A i, j \in DOMAIN accepted' : i < j => accepted'[i] < accepted'[j]
  <1> DEFINE A == Len(accepted)
             O == Len(out)
             a == accepted \o out
  <1>0. accepted \in Seq(1 .. MaxFrame)
    BY DEF Reading!TypeOK
  <1>1. /\ A \in Nat /\ DOMAIN accepted = 1 .. A /\ O \in Nat /\ DOMAIN out = 1 .. O
    BY <1>0, LenProperties
  <1>2. /\ a \in Seq(1 .. MaxFrame) /\ Len(a) = A + O
        /\ \A i \in 1 .. A + O : a[i] = IF i <= A THEN accepted[i] ELSE out[i - A]
    BY <1>0, ConcatProperties
  <1>3. a = accepted'
    OBVIOUS
  <1> HIDE DEF A, O, a
  <1>4. DOMAIN a = 1 .. A + O
    BY <1>2, LenProperties
  <1>5. \A i \in 1 .. A : i \in DOMAIN a /\ a[i] = accepted[i]
    BY <1>1, <1>2, <1>4
  <1>6. ASSUME NEW j \in 1 .. O PROVE A + j \in DOMAIN a /\ a[A + j] = out[j]
    <2> DEFINE i == A + j
    <2>1. i \in 1 .. A + O /\ ~(i <= A) /\ i - A = j
      BY <1>1
    <2> HIDE DEF i
    <2>2. i \in DOMAIN a /\ a[i] = out[j]
      BY <1>2, <1>4, <2>1
    <2> QED
      BY <2>2 DEF i
  <1>7. ASSUME NEW i \in DOMAIN a
        PROVE  \/ i \in 1 .. A /\ a[i] = accepted[i]
               \/ A < i /\ i - A \in 1 .. O /\ a[i] = out[i - A]
    <2>1. \/ i \in 1 .. A /\ i <= A
          \/ A < i /\ i - A \in 1 .. O /\ ~(i <= A)
      BY <1>1, <1>4
    <2> QED
      BY <1>2, <1>4, <2>1
  <1>8. ASSUME \A i, j \in DOMAIN accepted : i < j => accepted[i] < accepted[j],
               \A i, j \in DOMAIN out : i < j => out[i] < out[j],
               \A i \in DOMAIN accepted, j \in DOMAIN out : accepted[i] < out[j],
               NEW i \in DOMAIN a, NEW j \in DOMAIN a, i < j
        PROVE  a[i] < a[j]
    <2>1. CASE j \in 1 .. A /\ a[j] = accepted[j]
      <3>1. i \in 1 .. A /\ a[i] = accepted[i]
        BY <1>1, <1>4, <1>5, <1>8, <2>1
      <3> QED
        BY <1>1, <1>8, <2>1, <3>1
    <2>2. CASE A < j /\ j - A \in 1 .. O /\ a[j] = out[j - A]
      <3>1. CASE i \in 1 .. A /\ a[i] = accepted[i]
        BY <1>1, <1>8, <2>2, <3>1
      <3>2. CASE A < i /\ i - A \in 1 .. O /\ a[i] = out[i - A]
        <4>1. i - A < j - A
          BY <1>1, <1>4, <1>8
        <4> QED
          BY <1>1, <1>8, <2>2, <3>2, <4>1
      <3> QED
        BY <1>7, <3>1, <3>2
    <2> QED
      BY <1>7, <2>1, <2>2
  <1>9. /\ a \in Seq(1 .. MaxFrame)
        /\ \A i \in DOMAIN accepted : i \in DOMAIN a /\ a[i] = accepted[i]
        /\ \A j \in DOMAIN out : \E i \in DOMAIN a : a[i] = out[j]
        /\ \A i \in DOMAIN a :
              \/ i \in DOMAIN accepted /\ a[i] = accepted[i]
              \/ \E j \in DOMAIN out : a[i] = out[j]
    BY <1>1, <1>2, <1>5, <1>6, <1>7
  <1> QED
    BY <1>3, <1>8, <1>9

\* What was accepted was said before what is left.
LEMMA OrderAfterLoop ==
  ASSUME SerialInv, NEW n \in 1 .. Len(air), NEW x, Looped(x, n),
         air' = SubSeq(air, n + 1, Len(air)), frames' = frames, rcv_fifo' = x.left,
         accepted' = accepted \o x.out
  PROVE  InOrder' /\ accepted' \in Seq(1 .. MaxFrame)
  <1> DEFINE F == Len(rcv_fifo)
             L == Len(air)
             q == Queued(n)
             l == x.left
             o == x.out
             a == air'
             c == accepted'
  <1>0. /\ Reading!TypeOK /\ Stream /\ InOrder /\ F \in Nat /\ DOMAIN rcv_fifo = 1 .. F
        /\ n \in Nat /\ L \in Nat /\ DOMAIN air = 1 .. L /\ n <= L /\ n \in 1 .. L
        /\ \A i \in 1 .. L : air[i] \in Reading!Piece /\ air[i].of \in Nat
    <2>1. Reading!TypeOK /\ Stream /\ InOrder
      BY DEF SerialInv
    <2>2. /\ F \in Nat /\ DOMAIN rcv_fifo = 1 .. F
          /\ L \in Nat /\ DOMAIN air = 1 .. L
          /\ \A i \in 1 .. L : air[i] \in Reading!Piece /\ air[i].of \in Nat
      BY <2>1, SerialShape, PieceIs
    <2> QED
      BY <2>1, <2>2
  <1>1. /\ q \in Seq(Reading!Piece) /\ DOMAIN q = 1 .. F + n
        /\ \A i \in 1 .. F : q[i] = rcv_fifo[i]
        /\ \A i \in 1 .. n : q[F + i] = air[i]
    BY <1>0, QueueIs
  <1>2. /\ DOMAIN a = 1 .. L - n /\ \A i \in 1 .. L - n : a[i] = air[n + i]
    BY <1>0, NextAt
  <1>3. \A i \in DOMAIN a : n + i \in DOMAIN air /\ a[i] = air[n + i] /\ n < n + i /\ i \in Nat
    BY <1>0, <1>2
  <1>4. \A i \in DOMAIN accepted :
          /\ accepted[i] \in DOMAIN frames
          /\ \A j \in DOMAIN rcv_fifo : accepted[i] < rcv_fifo[j].of
          /\ \A j \in DOMAIN air : accepted[i] < air[j].of
          /\ \A j \in DOMAIN a : accepted[i] < a[j].of
    BY <1>0, <1>3 DEF InOrder
  <1> DEFINE Fine == /\ o \in Seq(1 .. MaxFrame)
                     /\ \A i, j \in DOMAIN o : i < j => o[i] < o[j]
                     /\ \A i \in DOMAIN accepted, j \in DOMAIN l : accepted[i] < l[j].of
                     /\ \A i \in DOMAIN o :
                          /\ o[i] \in DOMAIN frames
                          /\ \A j \in DOMAIN accepted : accepted[j] < o[i]
                          /\ \A j \in DOMAIN l : o[i] < l[j].of
                          /\ \A j \in DOMAIN a : o[i] < a[j].of
  <1>w. x.left = l /\ x.out = o
    OBVIOUS
  <1> HIDE DEF F, L, q, a, l, o
  <1>5. ASSUME Begun(x, q) PROVE Fine
    <2>1. l = q /\ o = <<>>
      BY <1>5 DEF Begun, l, o
    <2>2. o \in Seq(1 .. MaxFrame) /\ DOMAIN o = {}
      BY <2>1, NothingOut
    <2>3. ASSUME NEW i \in DOMAIN accepted, NEW j \in DOMAIN l PROVE accepted[i] < l[j].of
      <3>1. CASE j \in 1 .. F
        BY <1>0, <1>1, <1>4, <2>1, <3>1
      <3>2. CASE j \notin 1 .. F
        <4>1. j - F \in 1 .. n /\ F + (j - F) = j /\ j - F \in 1 .. L
          BY <1>0, <1>1, <2>1, <3>2
        <4>2. l[j] = air[j - F]
          BY <1>1, <2>1, <4>1
        <4> QED
          BY <1>0, <1>4, <4>1, <4>2
      <3> QED
        BY <3>1, <3>2
    <2> QED
      BY <2>2, <2>3
  <1>6. ASSUME NEW d \in 1 .. n, Taken(x, n, d) PROVE Fine
    <2>1. /\ DOMAIN l = 1 .. n - d /\ \A i \in 1 .. n - d : l[i] = air[d + i]
          /\ ~IsFirst(air[d]) /\ OutTo(o, d)
      <3>1. /\ l \in Seq(Reading!Piece) /\ Len(l) = n - d /\ \A i \in 1 .. n - d : l[i] = air[d + i]
            /\ ~IsFirst(air[d]) /\ OutTo(o, d)
        BY <1>6 DEF Taken, l, o
      <3> QED
        BY <3>1, LenProperties
    <2>2. ASSUME NEW j \in DOMAIN air, d < j PROVE air[d].of < air[j].of
      <3>1. d \in DOMAIN air /\ d \in Nat
        BY <1>0
      <3>2. Earlier(air[d], air[j])
        BY <1>0, <2>2, <3>1 DEF Stream
      <3> QED
        BY <2>1, <3>2 DEF Earlier, IsFirst
    <2>3. ASSUME NEW i \in DOMAIN o, NEW j \in DOMAIN air, d < j PROVE o[i] < air[j].of
      <3>1. air[d].of < air[j].of /\ air[d].of \in Nat /\ air[j].of \in Nat
        BY <1>0, <2>2, <2>3
      <3>2. o[i] \in Nat /\ o[i] <= air[d].of
        BY <2>1, <1>0, SerialShape DEF OutTo
      <3> QED
        BY <3>1, <3>2
    <2>4. ASSUME NEW j \in DOMAIN l
          PROVE  l[j] = air[d + j] /\ d + j \in DOMAIN air /\ d < d + j
      <3>1. j \in 1 .. n - d
        BY <2>1
      <3>2. d + j \in 1 .. L /\ d < d + j
        BY <1>0, <3>1
      <3> QED
        BY <1>0, <2>1, <3>1, <3>2
    <2>5. \A j \in DOMAIN a : d < n + j
      BY <1>0, <1>3
    <2>6. \A i \in DOMAIN o : \A j \in DOMAIN a : o[i] < a[j].of
      BY <1>3, <2>3, <2>5
    <2>7. \A i \in DOMAIN o : \A j \in DOMAIN l : o[i] < l[j].of
      BY <2>3, <2>4
    <2>8. \A i \in DOMAIN accepted, j \in DOMAIN l : accepted[i] < l[j].of
      BY <1>4, <2>4
    <2> QED
      BY <2>1, <2>6, <2>7, <2>8 DEF OutTo
  <1>7. ASSUME CutShort(x, n) PROVE Fine
    <2>1. /\ l = <<>> /\ OutTo(o, n) /\ \A i \in DOMAIN o : o[i] < air[n].of
      <3>1. /\ x = [left |-> <<>>, out |-> x.out, cut |-> {air[n].of}]
            /\ OutTo(o, n) /\ \A i \in DOMAIN o : o[i] < air[n].of
        BY <1>7 DEF CutShort, o
      <3> QED
        BY <3>1 DEF l
    <2>2. DOMAIN l = {}
      BY <2>1, EmptySeq
    <2>3. ASSUME NEW i \in DOMAIN o, NEW j \in DOMAIN a PROVE o[i] < a[j].of
      <3>1. Earlier(air[n], air[n + j])
        BY <1>0, <1>3 DEF Stream
      <3>2. air[n].of <= a[j].of /\ air[n].of \in Nat /\ a[j].of \in Nat
        BY <1>0, <1>3, <3>1, EarlierOrders
      <3>3. o[i] \in Nat /\ o[i] < air[n].of
        BY <1>0, <2>1, SerialShape DEF OutTo
      <3> QED
        BY <3>2, <3>3
    <2> QED
      BY <2>1, <2>2, <2>3 DEF OutTo
  <1>8. Fine
    BY <1>5, <1>6, <1>7 DEF Looped, q
  <1>9. /\ c \in Seq(1 .. MaxFrame)
        /\ \A i \in DOMAIN c :
              \/ i \in DOMAIN accepted /\ c[i] = accepted[i]
              \/ \E j \in DOMAIN o : c[i] = o[j]
        /\ \A i, j \in DOMAIN c : i < j => c[i] < c[j]
    <2>1. c = accepted \o o
      BY DEF o
    <2>2. \A i, j \in DOMAIN accepted : i < j => accepted[i] < accepted[j]
      BY <1>0 DEF InOrder
    <2> QED
      BY <1>0, <1>8, <2>1, <2>2, AcceptedIs
  <1> HIDE DEF c
  <1>a. \A i \in DOMAIN c : /\ c[i] \in DOMAIN frames
                            /\ \A j \in DOMAIN l : c[i] < l[j].of
                            /\ \A j \in DOMAIN a : c[i] < a[j].of
    <2> SUFFICES ASSUME NEW i \in DOMAIN c
                 PROVE  /\ c[i] \in DOMAIN frames
                        /\ \A j \in DOMAIN l : c[i] < l[j].of
                        /\ \A j \in DOMAIN a : c[i] < a[j].of
      OBVIOUS
    <2>1. CASE i \in DOMAIN accepted /\ c[i] = accepted[i]
      BY <1>4, <1>8, <2>1
    <2>2. ASSUME NEW k \in DOMAIN o, c[i] = o[k]
          PROVE  /\ c[i] \in DOMAIN frames
                 /\ \A j \in DOMAIN l : c[i] < l[j].of
                 /\ \A j \in DOMAIN a : c[i] < a[j].of
      BY <1>8, <2>2
    <2> QED
      BY <1>9, <2>1, <2>2
  <1>b. rcv_fifo' = l /\ air' = a /\ accepted' = c
    BY DEF l, a, c
  <1> QED
    BY <1>9, <1>a, <1>b DEF InOrder

\* A line that was read and that nothing spoils was accepted, or its end waits.
LEMMA KeptAfterLoop ==
  ASSUME SerialInv, NEW n \in 1 .. Len(air), NEW x, Looped(x, n),
         air' = SubSeq(air, n + 1, Len(air)), frames' = frames, rcv_fifo' = x.left,
         accepted' = accepted \o x.out, spoilt' = spoilt \cup x.cut, x.out \in Seq(1 .. MaxFrame)
  PROVE  Kept'
  <1> DEFINE F == Len(rcv_fifo)
             L == Len(air)
             q == Queued(n)
             l == x.left
             o == x.out
             a == air'
             c == accepted'
             s == spoilt'
             Held(m) == \/ \E i \in DOMAIN c : c[i] = m
                        \/ \E i \in DOMAIN l : l[i] = [of |-> m, is |-> "end"]
  <1>0. /\ Reading!TypeOK /\ Stream /\ Kept /\ F \in Nat /\ DOMAIN rcv_fifo = 1 .. F
        /\ n \in Nat /\ L \in Nat /\ DOMAIN air = 1 .. L /\ n <= L /\ n \in 1 .. L
        /\ 1 \in 1 .. L /\ DOMAIN frames = 1 .. Len(frames) /\ Len(frames) \in Nat
        /\ \A i \in 1 .. L : air[i] \in Reading!Piece /\ air[i].of \in Nat
    <2>1. Reading!TypeOK /\ Stream /\ Kept
      BY DEF SerialInv
    <2>2. /\ F \in Nat /\ DOMAIN rcv_fifo = 1 .. F
          /\ L \in Nat /\ DOMAIN air = 1 .. L
          /\ DOMAIN frames = 1 .. Len(frames) /\ Len(frames) \in Nat
          /\ \A i \in 1 .. L : air[i] \in Reading!Piece /\ air[i].of \in Nat
      BY <2>1, SerialShape, PieceIs
    <2> QED
      BY <2>1, <2>2
  <1>1. /\ DOMAIN q = 1 .. F + n
        /\ \A i \in 1 .. F : q[i] = rcv_fifo[i]
        /\ \A i \in 1 .. n : q[F + i] = air[i]
    BY <1>0, QueueIs
  <1>2. /\ DOMAIN a = 1 .. L - n /\ \A i \in 1 .. L - n : a[i] = air[n + i]
        /\ a \in Seq(Reading!Piece)
    BY <1>0, NextAt
  <1>3. \A i \in n + 1 .. L : i - n \in DOMAIN a /\ a[i - n] = air[i]
    <2> SUFFICES ASSUME NEW i \in n + 1 .. L PROVE i - n \in DOMAIN a /\ a[i - n] = air[i]
      OBVIOUS
    <2>1. i - n \in 1 .. L - n /\ n + (i - n) = i
      BY <1>0
    <2> QED
      BY <1>2, <2>1
  <1>4. /\ \A i \in DOMAIN accepted : i \in DOMAIN c /\ c[i] = accepted[i]
        /\ \A j \in DOMAIN o : \E i \in DOMAIN c : c[i] = o[j]
    BY <1>0, AcceptedIs
  <1>5. s = spoilt \cup x.cut
    OBVIOUS
  <1> HIDE DEF F, L, q, l, o, a, c, s
  <1>6. ASSUME NEW m \in 1 .. Len(frames), frames[m] = "line", m \notin Reading!Of(a), m \notin s,
               Clean(m, s)
        PROVE  Held(m)
    <2>1. m \notin spoilt /\ Clean(m, spoilt)
      BY <1>5, <1>6, CleanBefore
    <2>2. ASSUME m \notin Reading!Of(air)
          PROVE  \/ \E i \in DOMAIN accepted : accepted[i] = m
                 \/ \E i \in 1 .. F : rcv_fifo[i] = [of |-> m, is |-> "end"]
      BY <1>0, <1>6, <2>1, <2>2 DEF Kept
    <2>3. ASSUME m \in Reading!Of(air)
          PROVE  \E i \in 1 .. n : air[i] = [of |-> m, is |-> "end"]
      <3>1. PICK k \in 1 .. L : air[k].of = m
        BY <1>0, <2>3 DEF Reading!Of
      <3>2. air[1].of <= m
        <4>0. k = 1 \/ 1 < k
          BY <1>0
        <4>1. k = 1 \/ Earlier(air[1], air[k])
          BY <1>0, <4>0 DEF Stream
        <4> QED
          BY <1>0, <3>1, <4>1, EarlierOrders
      <3>3. PICK i \in 1 .. L : air[i] = [of |-> m, is |-> "end"]
        BY <1>0, <1>6, <3>2, LineEnds DEF L
      <3>4. i \in 1 .. n
        <4> SUFFICES ASSUME i \in n + 1 .. L PROVE FALSE
          BY <1>0
        <4>1. i - n \in DOMAIN a /\ a[i - n].of = m
          BY <1>3, <3>3
        <4> QED
          BY <1>6, <4>1 DEF Reading!Of
      <3> QED
        BY <3>3, <3>4
    <2>4. CASE Begun(x, q)
      <3>1. l = q
        BY <2>4 DEF Begun, l
      <3>2. \A i \in 1 .. F : i \in DOMAIN l /\ l[i] = rcv_fifo[i]
        <4>1. \A i \in 1 .. F : i \in 1 .. F + n
          BY <1>0
        <4> QED
          BY <1>1, <3>1, <4>1
      <3>3. \A i \in 1 .. n : F + i \in DOMAIN l /\ l[F + i] = air[i]
        <4>1. \A i \in 1 .. n : F + i \in 1 .. F + n
          BY <1>0
        <4> QED
          BY <1>1, <3>1, <4>1
      <3>4. m \notin Reading!Of(air) => Held(m)
        BY <1>4, <2>2, <3>2
      <3>5. m \in Reading!Of(air) => Held(m)
        BY <2>3, <3>3
      <3> QED
        BY <3>4, <3>5
    <2>5. m \notin Reading!Of(air) /\ NoEnd(rcv_fifo) => Held(m)
      <3>1. NoEnd(rcv_fifo) => ~\E i \in 1 .. F : rcv_fifo[i] = [of |-> m, is |-> "end"]
        <4>1. \A i \in 1 .. F : rcv_fifo[i] = [of |-> m, is |-> "end"] => rcv_fifo[i].is = "end"
          OBVIOUS
        <4> QED
          BY <1>0, <4>1 DEF NoEnd
      <3> QED
        BY <1>4, <2>2, <3>1
    <2>6. ASSUME NEW d \in 1 .. n, Taken(x, n, d) PROVE Held(m)
      <3>1. /\ NoEnd(rcv_fifo) /\ DOMAIN l = 1 .. n - d /\ \A i \in 1 .. n - d : l[i] = air[d + i]
            /\ KeptTo(o, d)
        <4>1. /\ NoEnd(rcv_fifo) /\ l \in Seq(Reading!Piece) /\ Len(l) = n - d
              /\ \A i \in 1 .. n - d : l[i] = air[d + i] /\ KeptTo(o, d)
          BY <2>6 DEF Taken, l, o
        <4>2. KeptTo(o, d)
          BY <2>6 DEF Taken, o
        <4> QED
          BY <4>1, <4>2, LenProperties
      <3>2. ASSUME m \in Reading!Of(air) PROVE Held(m)
        <4>1. PICK i \in 1 .. n : air[i] = [of |-> m, is |-> "end"]
          BY <2>3, <3>2
        <4>2. CASE i \in 1 .. d
          <5>1. air[i].of = m /\ air[i].is = "end"
            BY <4>1
          <5>2. \E j \in DOMAIN o : o[j] = m
            BY <2>1, <3>1, <4>2, <5>1 DEF KeptTo
          <5> QED
            BY <1>4, <5>2
        <4>3. CASE i \notin 1 .. d
          <5>1. i - d \in 1 .. n - d /\ d + (i - d) = i
            BY <1>0, <4>3
          <5>2. i - d \in DOMAIN l /\ l[i - d] = air[i]
            BY <3>1, <5>1
          <5> QED
            BY <4>1, <5>2
        <4> QED
          BY <4>2, <4>3
      <3> QED
        BY <2>5, <3>1, <3>2
    <2>7. CASE CutShort(x, n)
      <3>1. NoEnd(rcv_fifo) /\ KeptTo(o, n)
        BY <2>7 DEF CutShort, o
      <3>2. ASSUME m \in Reading!Of(air) PROVE Held(m)
        <4>1. PICK i \in 1 .. n : air[i] = [of |-> m, is |-> "end"]
          BY <2>3, <3>2
        <4>2. air[i].of = m /\ air[i].is = "end"
          BY <4>1
        <4>3. \E j \in DOMAIN o : o[j] = m
          BY <2>1, <3>1, <4>2 DEF KeptTo
        <4> QED
          BY <1>4, <4>3
      <3> QED
        BY <2>5, <3>1, <3>2
    <2> QED
      BY <2>4, <2>6, <2>7 DEF Looped, q
  <1>7. rcv_fifo' = l /\ air' = a /\ accepted' = c /\ spoilt' = s
    BY DEF l, a, c, s
  <1> HIDE DEF Held
  <1>8. \A m \in DOMAIN frames' :
          frames'[m] = "line" /\ m \notin Reading!Of(a) /\ m \notin s /\ Clean(m, s) => Held(m)
    BY <1>0, <1>6
  <1> QED
    BY <1>7, <1>8 DEF Kept, Held, Clean, Reading!Of

\* A read that does not fit is lost, and the queue stays.
LEMMA DropKeeps ==
  ASSUME SerialInv, NEW n \in 1 .. Len(air),
         air' = SubSeq(air, n + 1, Len(air)), frames' = frames, rcv_fifo' = rcv_fifo,
         accepted' = accepted, spoilt' = spoilt \cup {air[i].of : i \in 1 .. n}
  PROVE  Waiting' /\ InOrder' /\ Kept'
  <1> DEFINE L == Len(air)
             a == air'
             s == spoilt'
             m == At'
             text(p) == [of |-> p, is |-> "text"]
  <1>0. /\ Reading!TypeOK /\ Stream /\ Waiting /\ InOrder /\ Kept
        /\ n \in Nat /\ L \in Nat /\ DOMAIN air = 1 .. L /\ n <= L /\ n \in 1 .. L /\ 1 \in 1 .. L
        /\ DOMAIN frames = 1 .. Len(frames) /\ Len(frames) \in Nat
        /\ \A i \in 1 .. L : air[i] \in Reading!Piece /\ air[i].of \in Nat
        /\ (n = L \/ n < L) /\ (n < L => n + 1 \in 1 .. L)
    <2>1. Reading!TypeOK /\ Stream /\ Waiting /\ InOrder /\ Kept
      BY DEF SerialInv
    <2>2. /\ L \in Nat /\ DOMAIN air = 1 .. L /\ n \in 1 .. L
          /\ DOMAIN frames = 1 .. Len(frames) /\ Len(frames) \in Nat
          /\ \A i \in 1 .. L : air[i] \in Reading!Piece /\ air[i].of \in Nat
      BY <2>1, SerialShape, PieceIs
    <2> HIDE DEF L
    <2>3. /\ n \in Nat /\ n <= L /\ n \in 1 .. L /\ 1 \in 1 .. L
          /\ (n = L \/ n < L) /\ (n < L => n + 1 \in 1 .. L)
      BY <2>2
    <2> QED
      BY <2>1, <2>2, <2>3
  <1>2. /\ DOMAIN a = 1 .. L - n /\ \A i \in 1 .. L - n : a[i] = air[n + i]
        /\ n = L => m = Len(frames) + 1 /\ ~Mid'
        /\ n < L => m = air[n + 1].of /\ (Mid' <=> ~IsFirst(air[n + 1]))
    BY <1>0, NextAt
  <1>p. s = spoilt \cup {air[i].of : i \in 1 .. n}
    OBVIOUS
  <1>q. Mid' => m = air[n].of
    BY <1>0, MidAfter
  <1>r. /\ rcv_fifo' = rcv_fifo /\ spoilt' = s /\ At' = m /\ frames' = frames /\ air' = a
        /\ accepted' = accepted
    OBVIOUS
  <1> HIDE DEF L, a, s, m
  <1>3. \A i \in 1 .. n : air[i].of \in s /\ i \in 1 .. L
    <2>1. \A i \in 1 .. n : i \in 1 .. L
      BY <1>0
    <2>2. \A i \in 1 .. n : air[i].of \in s
      BY <1>p
    <2> QED
      BY <2>1, <2>2
  <1>4. \A i \in DOMAIN a : n + i \in DOMAIN air /\ a[i] = air[n + i] /\ i \in Nat
    BY <1>0, <1>2
  <1>5. \A i \in n + 1 .. L : i - n \in DOMAIN a /\ a[i - n] = air[i]
    <2> SUFFICES ASSUME NEW i \in n + 1 .. L PROVE i - n \in DOMAIN a /\ a[i - n] = air[i]
      OBVIOUS
    <2>1. i - n \in 1 .. L - n /\ n + (i - n) = i
      BY <1>0
    <2> QED
      BY <1>2, <2>1
  <1>6. Mid' => m \in s
    <2>1. n \in 1 .. n
      BY <1>0
    <2> QED
      BY <1>q, <1>3, <2>1
  <1>7. ~Mid' => ~Clean(m, s)
    <2> SUFFICES ASSUME ~Mid', Clean(m, s) PROVE FALSE
      OBVIOUS
    <2> DEFINE g == air[n].of
    <2>0. g \in s /\ g \in Nat /\ Said(air[n]) /\ g \in 1 .. Len(frames)
      <3>1. n \in 1 .. n /\ n \in DOMAIN air
        BY <1>0
      <3>2. Said(air[n]) /\ g \in s /\ g \in Nat
        BY <1>0, <1>3, <3>1 DEF Stream
      <3> QED
        BY <1>0, <3>2 DEF Said
    <2>1. n < L => g < m
      <3> SUFFICES ASSUME n < L PROVE g < m
        OBVIOUS
      <3>0. n + 1 \in DOMAIN air /\ n \in DOMAIN air /\ n < n + 1
        BY <1>0
      <3>1. Earlier(air[n], air[n + 1]) /\ IsFirst(air[n + 1]) /\ m = air[n + 1].of
        BY <1>0, <1>2, <3>0 DEF Stream
      <3> QED
        BY <3>1 DEF Earlier, IsFirst
    <2>2. n = L => g < m
      BY <1>0, <1>2, <2>0
    <2>3. g < m /\ m \in Nat /\ m <= Len(frames) + 1
      <3>1. n < L => m \in Nat /\ m <= Len(frames)
        <4> SUFFICES ASSUME n < L PROVE m \in Nat /\ m <= Len(frames)
          OBVIOUS
        <4>1. Said(air[n + 1]) /\ m = air[n + 1].of
          BY <1>0, <1>2 DEF Stream
        <4>2. m \in 1 .. Len(frames)
          BY <1>0, <4>1 DEF Said
        <4> QED
          BY <1>0, <4>2
      <3>2. n = L => m \in Nat /\ m <= Len(frames) + 1
        BY <1>0, <1>2
      <3> QED
        BY <1>0, <2>1, <2>2, <3>1, <3>2
    <2> HIDE DEF g
    <2>4. g \in 1 .. m - 1
      BY <1>0, <2>0, <2>3
    <2>5. PICK k \in g + 1 .. m - 1 : frames[k] # "packet"
      BY <2>0, <2>4 DEF Clean
    <2>6. k \in 1 .. Len(frames) /\ g < k /\ k < m
      BY <1>0, <2>0, <2>3
    <2>7. n + 1 \in 1 .. L /\ air[n + 1].of <= k
      BY <1>0, <2>6, NoGap DEF L, g
    <2>8. m = air[n + 1].of
      BY <1>0, <1>2, <2>7
    <2> QED
      BY <2>3, <2>6, <2>7, <2>8
  <1>8. Waiting'
    <2>1. /\ \A i \in DOMAIN rcv_fifo : Said(rcv_fifo[i])
          /\ Finished(rcv_fifo)
      BY <1>0 DEF Waiting
    <2> QED
      BY <1>r, <1>6, <1>7, <2>1 DEF Waiting, Said, Finished, NoEnd, Clean, Reading!Ends
  <1>9. InOrder'
    <2>1. \A i \in DOMAIN accepted :
            /\ accepted[i] \in DOMAIN frames
            /\ \A j \in DOMAIN rcv_fifo : accepted[i] < rcv_fifo[j].of
            /\ \A j \in DOMAIN a : accepted[i] < a[j].of
      BY <1>0, <1>4 DEF InOrder
    <2>2. \A i, j \in DOMAIN accepted : i < j => accepted[i] < accepted[j]
      BY <1>0 DEF InOrder
    <2> QED
      BY <1>r, <2>1, <2>2 DEF InOrder
  <1>a. Kept'
    <2> DEFINE Held(k) == \/ \E i \in DOMAIN accepted : accepted[i] = k
                          \/ \E i \in DOMAIN rcv_fifo : rcv_fifo[i] = [of |-> k, is |-> "end"]
    <2>1. ASSUME NEW k \in DOMAIN frames, frames[k] = "line", k \notin Reading!Of(a), k \notin s,
                 Clean(k, s)
          PROVE  Held(k)
      <3>1. k \notin spoilt /\ Clean(k, spoilt)
        BY <1>p, <2>1, CleanBefore
      <3>2. k \notin Reading!Of(air)
        <4> SUFFICES ASSUME NEW i \in 1 .. L, air[i].of = k PROVE FALSE
          BY <1>0 DEF Reading!Of
        <4>1. i \in 1 .. n \/ i \in n + 1 .. L
          BY <1>0
        <4>2. i \in n + 1 .. L => k \in Reading!Of(a)
          BY <1>5 DEF Reading!Of
        <4> QED
          BY <1>3, <2>1, <4>1, <4>2
      <3> QED
        BY <1>0, <2>1, <3>1, <3>2 DEF Kept
    <2> HIDE DEF Held
    <2>2. \A k \in DOMAIN frames' :
            frames'[k] = "line" /\ k \notin Reading!Of(a) /\ k \notin s /\ Clean(k, s) => Held(k)
      BY <1>r, <2>1
    <2> QED
      BY <1>r, <2>2 DEF Kept, Held, Clean, Reading!Of
  <1> QED
    BY <1>8, <1>9, <1>a

\* gps_port_on_receive keeps the invariant.
LEMMA ReadKeeps ==
  ASSUME SerialInv, Reading!OnReceive
  PROVE  SerialInv'
  <1>0. /\ Reading!TypeOK /\ Stream /\ Waiting /\ InOrder /\ Kept
        /\ Len(rcv_fifo) \in Nat /\ DOMAIN air = 1 .. Len(air) /\ Len(air) \in Nat
        /\ air \in Seq(Reading!Piece) /\ Len(air) <= BufMax + 1
        /\ rcv_fifo \in Seq(Reading!Piece) /\ Len(rcv_fifo) <= FifoMax
        /\ frames \in Seq(Reading!Kinds) /\ Len(frames) <= MaxFrame
        /\ accepted \in Seq(1 .. MaxFrame) /\ spoilt \subseteq 1 .. MaxFrame
        /\ closes \in 0 .. MaxClose
        /\ BufMax \in Nat /\ FifoMax \in Nat /\ MaxFrame \in Nat
    <2>1. Reading!TypeOK /\ Stream /\ Waiting /\ InOrder /\ Kept
      BY DEF SerialInv
    <2> QED
      BY <2>1, SerialShape, SerialLimits DEF Reading!TypeOK
  <1>1. PICK n \in 1 .. BufMax :
          /\ n <= Len(air) /\ air' = SubSeq(air, n + 1, Len(air))
          /\ LET read == SubSeq(air, 1, n)
                 fits == Len(rcv_fifo) + n <= FifoMax
                 done == Reading!Sentences(IF fits THEN rcv_fifo \o read ELSE rcv_fifo)
             IN /\ rcv_fifo' = done.left
                /\ accepted' = accepted \o done.out
                /\ spoilt' = spoilt \cup done.cut \cup (IF fits THEN {} ELSE Reading!Of(read))
          /\ frames' = frames /\ closes' = closes
    BY DEF Reading!OnReceive
  <1>2. n \in 1 .. Len(air) /\ n \in Nat
    BY <1>0, <1>1
  <1>3. /\ Stream' /\ air' \in Seq(Reading!Piece) /\ Len(air') = Len(air) - n
        /\ \A i \in 1 .. n : air[i].of \in 1 .. MaxFrame
    <2>1. \A i \in 1 .. n : i \in 1 .. Len(air)
      BY <1>0, <1>2
    <2> QED
      BY <1>0, <1>1, <1>2, <2>1, StreamReads, NextAt, SerialShape, PieceIs
  <1>4. Len(air') <= BufMax + 1
    BY <1>0, <1>2, <1>3
  <1>5. CASE Len(rcv_fifo) + n <= FifoMax
    <2> DEFINE x == Reading!Sentences(Queued(n))
    <2>1. /\ rcv_fifo' = x.left /\ accepted' = accepted \o x.out /\ spoilt' = spoilt \cup x.cut
      BY <1>1, <1>5 DEF Queued
    <2>2. Looped(x, n) /\ Finished(x.left)
      BY <1>2, SentencesAre
    <2> HIDE DEF x
    <2>3. /\ x.left \in Seq(Reading!Piece) /\ Len(x.left) \in Nat
          /\ Len(x.left) <= Len(rcv_fifo) + n
      BY <1>2, <2>2, LoopedIs
    <2>4. Waiting'
      BY <1>1, <1>2, <2>1, <2>2, WaitingAfterLoop
    <2>5. InOrder' /\ accepted' \in Seq(1 .. MaxFrame)
      BY <1>1, <1>2, <2>1, <2>2, OrderAfterLoop
    <2>6. x.out \in Seq(1 .. MaxFrame) /\ x.cut \subseteq 1 .. MaxFrame
      <3>1. CASE Begun(x, Queued(n))
        BY <3>1, NothingOut DEF Begun
      <3>2. ASSUME NEW d \in 1 .. n, Taken(x, n, d)
            PROVE  x.out \in Seq(1 .. MaxFrame) /\ x.cut \subseteq 1 .. MaxFrame
        <4>1. x = [left |-> x.left, out |-> x.out, cut |-> {}] /\ x.out \in Seq(1 .. MaxFrame)
          BY <3>2 DEF Taken, OutTo
        <4>2. x.cut = {}
          BY <4>1
        <4> QED
          BY <4>1, <4>2
      <3>3. CASE CutShort(x, n)
        <4>1. x = [left |-> <<>>, out |-> x.out, cut |-> {air[n].of}] /\ x.out \in Seq(1 .. MaxFrame)
          BY <3>3 DEF CutShort, OutTo
        <4>2. x.cut = {air[n].of}
          BY <4>1
        <4>3. n \in 1 .. n
          BY <1>2
        <4> QED
          BY <1>3, <4>1, <4>2, <4>3
      <3> QED
        BY <2>2, <3>1, <3>2, <3>3 DEF Looped
    <2>7. Kept'
      BY <1>1, <1>2, <2>1, <2>2, <2>6, KeptAfterLoop
    <2>8. rcv_fifo' \in Seq(Reading!Piece) /\ Len(rcv_fifo') <= FifoMax
          /\ spoilt' \subseteq 1 .. MaxFrame
      <3>1. \A y, z \in Nat : y <= z /\ z <= FifoMax => y <= FifoMax
        BY <1>0
      <3>2. Len(rcv_fifo) + n \in Nat
        BY <1>0, <1>2
      <3> QED
        BY <1>0, <1>5, <2>1, <2>3, <2>6, <3>1, <3>2
    <2>9. Reading!TypeOK'
      BY <1>0, <1>1, <1>3, <1>4, <2>5, <2>8 DEF Reading!TypeOK, Reading!Piece, Reading!Kinds
    <2> QED
      BY <1>3, <2>4, <2>5, <2>7, <2>9 DEF SerialInv
  <1>6. CASE ~(Len(rcv_fifo) + n <= FifoMax)
    <2> DEFINE x == Reading!Sentences(rcv_fifo)
    <2>1. /\ rcv_fifo' = x.left /\ accepted' = accepted \o x.out
          /\ spoilt' = spoilt \cup x.cut \cup Reading!Of(SubSeq(air, 1, n))
      BY <1>1, <1>6
    <2>2. x = [left |-> rcv_fifo, out |-> <<>>, cut |-> {}]
      BY <1>0, SentencesStay DEF Waiting
    <2> HIDE DEF x
    <2>3. Reading!Of(SubSeq(air, 1, n)) = {air[i].of : i \in 1 .. n}
      <3> DEFINE r == SubSeq(air, 1, n)
      <3>1. r \in Seq(Reading!Piece) /\ Len(r) = n /\ \A i \in 1 .. n : r[i] = air[i]
        <4>1. \A i \in 1 .. n : air[i] \in Reading!Piece
          BY <1>0, <1>2, SerialShape
        <4>2. /\ r \in Seq(Reading!Piece)
              /\ Len(r) = IF 1 <= n THEN n - 1 + 1 ELSE 0
              /\ \A i \in 1 .. n - 1 + 1 : r[i] = air[1 + i - 1]
          BY <1>2, <4>1, SubSeqProperties
        <4>3. n - 1 + 1 = n /\ 1 <= n /\ \A i \in 1 .. n : 1 + i - 1 = i
          BY <1>2
        <4> HIDE DEF r
        <4> QED
          BY <4>2, <4>3
      <3> HIDE DEF r
      <3>2. Reading!Of(r) = {r[i].of : i \in 1 .. n}
        BY <3>1, OfIs
      <3>3. {r[i].of : i \in 1 .. n} = {air[i].of : i \in 1 .. n}
        BY <3>1
      <3> QED
        BY <3>2, <3>3 DEF r
    <2>4. /\ rcv_fifo' = rcv_fifo /\ accepted' = accepted
          /\ spoilt' = spoilt \cup {air[i].of : i \in 1 .. n}
      <3>1. accepted \o <<>> = accepted
        BY <1>0, ConcatEmptySeq
      <3> QED
        BY <2>1, <2>2, <2>3, <3>1
    <2>5. Waiting' /\ InOrder' /\ Kept'
      BY <1>1, <1>2, <2>4, DropKeeps
    <2>6. spoilt' \subseteq 1 .. MaxFrame
      BY <1>0, <1>3, <2>4
    <2>7. Reading!TypeOK'
      BY <1>0, <1>1, <1>3, <1>4, <2>4, <2>6 DEF Reading!TypeOK, Reading!Piece, Reading!Kinds
    <2> QED
      BY <1>3, <2>5, <2>7 DEF SerialInv
  <1> QED
    BY <1>5, <1>6

\* The pieces a frame of this sort is said in.
SaidOf(p, sort) ==
  \/ p.is \in {"text", "end"} /\ sort = "line"
  \/ p.is \in {"head", "body"} /\ sort = "packet"
  \/ p.is = "noise" /\ sort = "noise"

\* A frame is said in one piece or two, the second behind the first.
LEMMA PiecesAre ==
  ASSUME NEW k \in 1 .. MaxFrame, NEW sort \in {"line", "packet", "noise"}
  PROVE  LET P == Reading!Pieces(k, sort) IN
         /\ P \in Seq(Reading!Piece) /\ Len(P) \in 1 .. 2 /\ DOMAIN P = 1 .. Len(P)
         /\ \A i \in 1 .. Len(P) : P[i].of = k /\ SaidOf(P[i], sort)
         /\ IsFirst(P[1])
         /\ \A i, j \in 1 .. Len(P) : i < j => Earlier(P[i], P[j])
         /\ \A p \in Reading!Piece : p.of = k /\ SaidOf(p, sort) => \E i \in 1 .. Len(P) : p = P[i]
  <1> DEFINE P == Reading!Pieces(k, sort)
             K(s) == [of |-> k, is |-> s]
  <1>1. \A s \in {"text", "end", "head", "body", "noise"} :
          K(s) \in Reading!Piece /\ K(s).of = k /\ K(s).is = s
    BY PieceIs
  <1>2. \A p \in Reading!Piece : p.of = k => p = K(p.is)
    BY PieceIs
  <1>3. k \in Nat
    BY SerialLimits
  <1> DEFINE Goal(q) == /\ q \in Seq(Reading!Piece) /\ Len(q) \in 1 .. 2 /\ DOMAIN q = 1 .. Len(q)
                        /\ \A i \in 1 .. Len(q) : q[i].of = k /\ SaidOf(q[i], sort)
                        /\ IsFirst(q[1])
                        /\ \A i, j \in 1 .. Len(q) : i < j => Earlier(q[i], q[j])
                        /\ \A p \in Reading!Piece : p.of = k /\ SaidOf(p, sort) =>
                             \E i \in 1 .. Len(q) : p = q[i]
  <1>4. ASSUME NEW a \in Reading!Piece, NEW b \in Reading!Piece, a.of = k, b.of = k,
               SaidOf(a, sort), SaidOf(b, sort), IsFirst(a), Earlier(a, b),
               \A p \in Reading!Piece : p.of = k /\ SaidOf(p, sort) => p = a \/ p = b
        PROVE  Goal(<<a, b>>)
    <2> DEFINE q == <<a, b>>
    <2>1. q \in Seq(Reading!Piece) /\ Len(q) = 2 /\ q[1] = a /\ q[2] = b
      OBVIOUS
    <2>2. DOMAIN q = 1 .. 2
      BY <2>1, LenProperties
    <2> HIDE DEF q
    <2>3. \A i \in 1 .. 2 : i = 1 \/ i = 2
      OBVIOUS
    <2>4. \A i \in 1 .. 2 : q[i].of = k /\ SaidOf(q[i], sort)
      BY <1>4, <2>1, <2>3
    <2>5. \A i, j \in 1 .. 2 : i < j => Earlier(q[i], q[j])
      <3>1. \A i, j \in 1 .. 2 : i < j => i = 1 /\ j = 2
        OBVIOUS
      <3> QED
        BY <1>4, <2>1, <3>1
    <2>6. \A p \in Reading!Piece : p.of = k /\ SaidOf(p, sort) => \E i \in 1 .. 2 : p = q[i]
      <3>1. 1 \in 1 .. 2 /\ 2 \in 1 .. 2
        OBVIOUS
      <3> QED
        BY <1>4, <2>1, <3>1
    <2>7. 2 \in 1 .. 2
      OBVIOUS
    <2>8. Goal(q)
      BY <1>4, <2>1, <2>2, <2>4, <2>5, <2>6, <2>7
    <2> HIDE DEF Goal
    <2> QED
      BY <2>8 DEF q
  <1>5. ASSUME NEW a \in Reading!Piece, a.of = k, SaidOf(a, sort), IsFirst(a),
               \A p \in Reading!Piece : p.of = k /\ SaidOf(p, sort) => p = a
        PROVE  Goal(<<a>>)
    <2> DEFINE q == <<a>>
    <2>1. q \in Seq(Reading!Piece) /\ Len(q) = 1 /\ q[1] = a
      OBVIOUS
    <2>2. DOMAIN q = 1 .. 1
      BY <2>1, LenProperties
    <2> HIDE DEF q
    <2>3. \A i \in 1 .. 1 : i = 1
      OBVIOUS
    <2>4. 1 \in 1 .. 1 /\ 1 \in 1 .. 2 /\ \A i, j \in 1 .. 1 : ~(i < j)
      OBVIOUS
    <2>8. Goal(q)
      BY <1>5, <2>1, <2>2, <2>3, <2>4
    <2> HIDE DEF Goal
    <2> QED
      BY <2>8 DEF q
  <1> HIDE DEF Goal, K
  <1>6. sort = "line" => Goal(P)
    <2>1. sort = "line" => P = <<K("text"), K("end")>>
      BY DEF Reading!Pieces, K
    <2>2. sort = "line" =>
            \A p \in Reading!Piece : p.of = k /\ SaidOf(p, sort) => p = K("text") \/ p = K("end")
      BY <1>2 DEF SaidOf
    <2>3. sort = "line" =>
            /\ SaidOf(K("text"), sort) /\ SaidOf(K("end"), sort) /\ IsFirst(K("text"))
            /\ Earlier(K("text"), K("end"))
      BY <1>1, <1>3 DEF SaidOf, IsFirst, Earlier
    <2> QED
      BY <1>1, <1>4, <2>1, <2>2, <2>3
  <1>7. sort = "packet" => Goal(P)
    <2>1. sort = "packet" => P = <<K("head"), K("body")>>
      BY DEF Reading!Pieces, K
    <2>2. sort = "packet" =>
            \A p \in Reading!Piece : p.of = k /\ SaidOf(p, sort) => p = K("head") \/ p = K("body")
      BY <1>2 DEF SaidOf
    <2>3. sort = "packet" =>
            /\ SaidOf(K("head"), sort) /\ SaidOf(K("body"), sort) /\ IsFirst(K("head"))
            /\ Earlier(K("head"), K("body"))
      BY <1>1, <1>3 DEF SaidOf, IsFirst, Earlier
    <2> QED
      BY <1>1, <1>4, <2>1, <2>2, <2>3
  <1>8. sort = "noise" => Goal(P)
    <2>1. sort = "noise" => P = <<K("noise")>>
      BY DEF Reading!Pieces, K
    <2>2. sort = "noise" =>
            \A p \in Reading!Piece : p.of = k /\ SaidOf(p, sort) => p = K("noise")
      BY <1>2 DEF SaidOf
    <2>3. sort = "noise" => SaidOf(K("noise"), sort) /\ IsFirst(K("noise"))
      BY <1>1 DEF SaidOf, IsFirst
    <2> QED
      BY <1>1, <1>5, <2>1, <2>2, <2>3
  <1>9. Goal(P)
    BY <1>6, <1>7, <1>8
  <1> HIDE DEF P
  <1> USE DEF Goal
  <1> QED
    BY <1>9 DEF P

\* The chip says something more.
LEMMA SayKeeps ==
  ASSUME SerialInv, Reading!Say
  PROVE  SerialInv'
  <1> DEFINE L == Len(air)
             N == Len(frames)
             a == air'
             f == frames'
             Now(p) == p.of \in DOMAIN f /\ SaidOf(p, f[p.of])
             C(m, lost) == \A j \in 1 .. m - 1 : (j \in lost \/ f[j] = "noise") =>
                             \E k \in j + 1 .. m - 1 : f[k] # "packet"
  <1>0. /\ Reading!TypeOK /\ Stream /\ Waiting /\ InOrder /\ Kept
        /\ DOMAIN air = 1 .. L /\ L \in Nat /\ (air = <<>> <=> L = 0)
        /\ air \in Seq(Reading!Piece)
        /\ DOMAIN frames = 1 .. N /\ N \in Nat /\ frames \in Seq({"line", "packet", "noise"})
        /\ BufMax \in Nat /\ MaxFrame \in Nat
        /\ \A i \in 1 .. L : air[i] \in Reading!Piece /\ air[i].of \in Nat
    <2>1. Reading!TypeOK /\ Stream /\ Waiting /\ InOrder /\ Kept
      BY DEF SerialInv
    <2> QED
      BY <2>1, SerialShape, SerialLimits, PieceIs DEF Reading!TypeOK, Reading!Kinds
  <1>1. /\ N < MaxFrame /\ L < BufMax
        /\ rcv_fifo' = rcv_fifo /\ accepted' = accepted /\ spoilt' = spoilt /\ closes' = closes
    BY DEF Reading!Say
  <1>2. PICK sort \in {"line", "packet", "noise"} :
          f = Append(frames, sort) /\ a = air \o Reading!Pieces(Len(f), sort)
    BY DEF Reading!Say, Reading!Kinds
  <1> DEFINE P == Reading!Pieces(N + 1, sort)
             M == Len(P)
  <1>r. air' = a /\ frames' = f
    OBVIOUS
  <1>s. L = Len(air) /\ N = Len(frames)
    OBVIOUS
  <1> HIDE DEF a, f, L, N
  <1>3. /\ f \in Seq({"line", "packet", "noise"}) /\ Len(f) = N + 1 /\ DOMAIN f = 1 .. N + 1
        /\ f[N + 1] = sort /\ \A k \in 1 .. N : f[k] = frames[k]
    <2>1. /\ f \in Seq({"line", "packet", "noise"}) /\ Len(f) = Len(frames) + 1
          /\ f[Len(frames) + 1] = sort /\ \A k \in 1 .. Len(frames) : f[k] = frames[k]
      BY <1>0, <1>2, AppendProperties
    <2> QED
      BY <1>s, <2>1, LenProperties
  <1>4. N + 1 \in 1 .. MaxFrame /\ a = air \o P
    BY <1>0, <1>1, <1>2, <1>3
  <1>5. /\ P \in Seq(Reading!Piece) /\ M \in 1 .. 2 /\ DOMAIN P = 1 .. M
        /\ \A i \in 1 .. M : P[i].of = N + 1 /\ SaidOf(P[i], sort)
        /\ IsFirst(P[1])
        /\ \A i, j \in 1 .. M : i < j => Earlier(P[i], P[j])
        /\ \A p \in Reading!Piece : p.of = N + 1 /\ SaidOf(p, sort) => \E i \in 1 .. M : p = P[i]
    BY <1>4, PiecesAre
  <1> HIDE DEF P, M
  <1>6. /\ a \in Seq(Reading!Piece) /\ Len(a) = L + M /\ DOMAIN a = 1 .. L + M
        /\ \A i \in 1 .. L : a[i] = air[i]
        /\ \A i \in 1 .. M : a[L + i] = P[i]
    <2>1. /\ a \in Seq(Reading!Piece) /\ Len(a) = L + M
          /\ \A i \in 1 .. L + M : a[i] = IF i <= L THEN air[i] ELSE P[i - L]
      <3>1. /\ air \o P \in Seq(Reading!Piece) /\ Len(air \o P) = Len(air) + Len(P)
            /\ \A i \in 1 .. Len(air) + Len(P) :
                 (air \o P)[i] = IF i <= Len(air) THEN air[i] ELSE P[i - Len(air)]
        BY <1>0, <1>5, ConcatProperties
      <3> QED
        BY <1>4, <1>s, <3>1 DEF M
    <2>2. DOMAIN a = 1 .. L + M
      BY <2>1, LenProperties
    <2>3. \A i \in 1 .. L : a[i] = air[i]
      BY <1>0, <1>5, <2>1
    <2>4. ASSUME NEW i \in 1 .. M PROVE a[L + i] = P[i]
      <3> DEFINE j == L + i
      <3>1. j \in 1 .. L + M /\ ~(j <= L) /\ j - L = i
        BY <1>0, <1>5
      <3> HIDE DEF j
      <3>2. a[j] = P[i]
        BY <2>1, <3>1
      <3> QED
        BY <3>2 DEF j
    <2> QED
      BY <2>1, <2>2, <2>3, <2>4
  <1>7. \A i \in 1 .. L + M :
          \/ i \in 1 .. L /\ a[i] = air[i]
          \/ \E j \in 1 .. M : i = L + j /\ a[i] = P[j]
    <2> SUFFICES ASSUME NEW i \in 1 .. L + M, i \notin 1 .. L
                 PROVE  \E j \in 1 .. M : i = L + j /\ a[i] = P[j]
      BY <1>6
    <2>1. i - L \in 1 .. M /\ i = L + (i - L)
      BY <1>0, <1>5
    <2> QED
      BY <1>6, <2>1
  <1>8. ASSUME NEW p \in Reading!Piece
        PROVE  /\ Said(p) => p.of \in 1 .. N /\ Now(p)
               /\ Now(p) => Said(p) \/ (p.of = N + 1 /\ SaidOf(p, sort))
               /\ p.of = N + 1 /\ SaidOf(p, sort) => Now(p)
    <2>1. \A k \in 1 .. N + 1 : k \in 1 .. N \/ k = N + 1
      BY <1>0
    <2>2. 1 .. N \subseteq 1 .. N + 1 /\ N + 1 \in 1 .. N + 1
      BY <1>0
    <2> QED
      BY <1>0, <1>3, <1>r, <2>1, <2>2 DEF Said, SaidOf
  <1>9. \A i \in 1 .. L : Said(air[i]) /\ air[i].of \in 1 .. N
    BY <1>0, <1>8 DEF Stream
  <1>a. \A i \in 1 .. M : P[i] \in Reading!Piece
    BY <1>5, ElementOfSeq DEF M
  <1>b. \A i \in DOMAIN a : Now(a[i])
    <2> SUFFICES ASSUME NEW i \in 1 .. L + M PROVE Now(a[i])
      BY <1>6
    <2> HIDE DEF Now
    <2>1. CASE i \in 1 .. L /\ a[i] = air[i]
      BY <1>0, <1>8, <1>9, <2>1
    <2>2. ASSUME NEW j \in 1 .. M, a[i] = P[j] PROVE Now(a[i])
      BY <1>5, <1>8, <1>a, <2>2
    <2> QED
      BY <1>7, <2>1, <2>2
  <1>c. ASSUME NEW i \in DOMAIN a, NEW j \in DOMAIN a, i < j PROVE Earlier(a[i], a[j])
    <2>1. CASE i \in 1 .. L /\ j \in 1 .. L
      BY <1>0, <1>6, <1>c, <2>1 DEF Stream
    <2>2. ASSUME i \in 1 .. L, NEW m \in 1 .. M, a[j] = P[m] PROVE Earlier(a[i], a[j])
      <3>1. a[i].of \in 1 .. N
        BY <1>6, <1>9, <2>2
      <3>2. a[j].of = N + 1
        BY <1>5, <2>2
      <3>3. a[i].of < a[j].of
        BY <1>0, <3>1, <3>2
      <3> QED
        BY <3>3 DEF Earlier
    <2>3. ASSUME NEW k \in 1 .. M, i = L + k, a[i] = P[k], NEW m \in 1 .. M, j = L + m, a[j] = P[m]
          PROVE  Earlier(a[i], a[j])
      <3>1. k < m
        BY <1>0, <1>5, <1>c, <2>3
      <3> QED
        BY <1>5, <2>3, <3>1
    <2>4. ASSUME NEW k \in 1 .. M, i = L + k PROVE j \notin 1 .. L
      BY <1>0, <1>5, <1>c, <2>4
    <2> QED
      BY <1>6, <1>7, <2>1, <2>2, <2>3, <2>4
  <1>d. ASSUME NEW p \in Reading!Piece, Now(p)
        PROVE  Earlier(p, a[1]) \/ \E i \in DOMAIN a : p = a[i]
    <2>1. CASE p.of = N + 1 /\ SaidOf(p, sort)
      <3>1. PICK i \in 1 .. M : p = P[i]
        BY <1>5, <2>1
      <3>2. L + i \in 1 .. L + M
        BY <1>0, <1>5
      <3> QED
        BY <1>6, <3>1, <3>2
    <2>2. CASE Said(p)
      <3>1. CASE L = 0
        <4>1. 1 \in 1 .. M /\ L + 1 = 1
          BY <1>5, <3>1
        <4>2. a[1] = P[1] /\ P[1].of = N + 1
          BY <1>5, <1>6, <4>1
        <4>3. p.of < N + 1
          BY <1>0, <1>8, <2>2
        <4> QED
          BY <4>2, <4>3 DEF Earlier
      <3>2. CASE L # 0
        <4>1. 1 \in 1 .. L /\ air # <<>> /\ 1 .. L \subseteq 1 .. L + M
          BY <1>0, <1>5, <3>2
        <4>2. a[1] = air[1]
          BY <1>6, <4>1
        <4>3. Earlier(p, air[1]) \/ \E i \in 1 .. L : p = air[i]
          BY <1>0, <2>2, <4>1 DEF Stream
        <4> QED
          BY <1>6, <4>1, <4>2, <4>3
      <3> QED
        BY <3>1, <3>2
    <2> QED
      BY <1>8, <1>d, <2>1, <2>2
  <1>e. Stream'
    <2>1. /\ \A i \in DOMAIN air' : Now(air'[i])
          /\ \A i, j \in DOMAIN air' : i < j => Earlier(air'[i], air'[j])
          /\ \A p \in Reading!Piece : Now(p) =>
               Earlier(p, air'[1]) \/ \E i \in DOMAIN air' : p = air'[i]
      <3> HIDE DEF Now
      <3> QED
        BY <1>b, <1>c, <1>d, <1>r
    <2> QED
      BY <1>r, <2>1 DEF Stream, Said, SaidOf, Earlier, Reading!Piece
  <1>f. At' = At /\ (Mid' <=> Mid) /\ At \in 1 .. N + 1
    <2>1. a # <<>>
      BY <1>0, <1>5, <1>6, EmptySeq
    <2>2. CASE L = 0
      <3>1. 1 \in 1 .. M /\ L + 1 = 1 /\ air = <<>>
        BY <1>0, <1>5, <2>2
      <3>2. a[1] = P[1] /\ P[1].of = N + 1 /\ IsFirst(P[1])
        BY <1>5, <1>6, <3>1
      <3>3. At = N + 1 /\ ~Mid /\ N + 1 \in 1 .. N + 1
        BY <1>0, <1>s, <3>1 DEF At, Mid
      <3> QED
        BY <1>r, <2>1, <3>2, <3>3 DEF At, Mid, IsFirst
    <2>3. CASE L # 0
      <3>1. 1 \in 1 .. L /\ air # <<>>
        BY <1>0, <2>3
      <3>2. a[1] = air[1] /\ At = air[1].of /\ At \in 1 .. N
        BY <1>6, <1>9, <3>1 DEF At
      <3>3. At \in 1 .. N + 1
        BY <1>0, <3>2
      <3> QED
        BY <1>r, <2>1, <3>1, <3>2, <3>3 DEF At, Mid, IsFirst
    <2> QED
      BY <2>2, <2>3
  <1>g. \A m \in 1 .. N + 1 : \A lost : C(m, lost) <=> Clean(m, lost)
    <2> SUFFICES ASSUME NEW m \in 1 .. N + 1, NEW lost PROVE C(m, lost) <=> Clean(m, lost)
      OBVIOUS
    <2>1. \A k \in 1 .. m - 1 : k \in 1 .. N
      BY <1>0
    <2>2. \A i \in 1 .. m - 1 : i + 1 .. m - 1 \subseteq 1 .. m - 1
      BY <1>0
    <2>3. \A k \in 1 .. m - 1 : f[k] = frames[k]
      BY <1>3, <2>1
    <2> QED
      BY <2>2, <2>3 DEF Clean
  <1>h. Waiting'
    <2>1. \A i \in DOMAIN rcv_fifo : Now(rcv_fifo[i])
      <3>1. \A i \in DOMAIN rcv_fifo : rcv_fifo[i] \in Reading!Piece /\ Said(rcv_fifo[i])
        BY <1>0, SerialShape DEF Waiting
      <3> HIDE DEF Now
      <3> QED
        BY <1>8, <3>1
    <2>2. Finished(rcv_fifo)
      BY <1>0 DEF Waiting
    <2>3. C(At, spoilt) <=> Clean(At, spoilt)
      <3> HIDE DEF C
      <3> QED
        BY <1>f, <1>g
    <2>4. Clean(At, spoilt) /\ NoEnd(rcv_fifo) =>
            IF Mid THEN At \in spoilt \/ rcv_fifo = <<[of |-> At, is |-> "text"]>>
            ELSE rcv_fifo = <<>>
      BY <1>0 DEF Waiting
    <2>5. (\A i \in DOMAIN rcv_fifo' : Said(rcv_fifo[i])') /\ Finished(rcv_fifo)'
      BY <1>1, <1>r, <2>1, <2>2 DEF Said, SaidOf, Finished, Reading!Ends
    <2>6. Clean(At, spoilt)' /\ NoEnd(rcv_fifo)' => Clean(At, spoilt) /\ NoEnd(rcv_fifo)
      <3>1. Clean(At, spoilt)' <=> C(At, spoilt)
        BY <1>1, <1>f, <1>r DEF Clean
      <3>2. NoEnd(rcv_fifo)' <=> NoEnd(rcv_fifo)
        BY <1>1 DEF NoEnd
      <3> HIDE DEF C
      <3> QED
        BY <2>3, <3>1, <3>2
    <2>7. Clean(At, spoilt)' /\ NoEnd(rcv_fifo)' =>
            IF Mid' THEN At' \in spoilt' \/ rcv_fifo' = <<[of |-> At', is |-> "text"]>>
            ELSE rcv_fifo' = <<>>
      BY <1>1, <1>f, <2>4, <2>6
    <2> QED
      BY <2>5, <2>7 DEF Waiting
  <1>i. InOrder'
    <2>1. \A i \in DOMAIN accepted :
            /\ accepted[i] \in 1 .. N
            /\ \A j \in DOMAIN rcv_fifo : accepted[i] < rcv_fifo[j].of
            /\ \A j \in DOMAIN air : accepted[i] < air[j].of
      BY <1>0 DEF InOrder
    <2>2. ASSUME NEW i \in DOMAIN accepted, NEW j \in DOMAIN a PROVE accepted[i] < a[j].of
      <3>1. accepted[i] < N + 1
        BY <1>0, <2>1
      <3> QED
        BY <1>0, <1>5, <1>6, <1>7, <2>1, <3>1
    <2>3. \A i \in DOMAIN accepted : accepted[i] \in 1 .. N + 1
      BY <1>0, <2>1
    <2>4. \A i, j \in DOMAIN accepted : i < j => accepted[i] < accepted[j]
      BY <1>0 DEF InOrder
    <2> QED
      BY <1>1, <1>3, <1>r, <2>1, <2>2, <2>3, <2>4 DEF InOrder
  <1>j. Kept'
    <2>1. ASSUME NEW m \in 1 .. N + 1, f[m] = "line", m \notin Reading!Of(a), m \notin spoilt,
                 Clean(m, spoilt)
          PROVE  \/ \E i \in DOMAIN accepted : accepted[i] = m
                 \/ \E i \in DOMAIN rcv_fifo : rcv_fifo[i] = [of |-> m, is |-> "end"]
      <3>1. m # N + 1
        <4>1. 1 \in 1 .. M /\ L + 1 \in 1 .. L + M
          BY <1>0, <1>5
        <4>2. a[L + 1].of = N + 1 /\ L + 1 \in DOMAIN a
          BY <1>5, <1>6, <4>1
        <4>3. N + 1 \in Reading!Of(a)
          BY <4>2 DEF Reading!Of
        <4> QED
          BY <2>1, <4>3
      <3>2. m \in 1 .. N
        BY <1>0, <3>1
      <3>3. m \notin Reading!Of(air)
        <4> SUFFICES ASSUME NEW i \in 1 .. L, air[i].of = m PROVE FALSE
          BY <1>0 DEF Reading!Of
        <4>1. i \in DOMAIN a /\ a[i] = air[i]
          BY <1>0, <1>5, <1>6
        <4>2. m \in Reading!Of(a)
          BY <4>1 DEF Reading!Of
        <4> QED
          BY <2>1, <4>2
      <3> QED
        BY <1>0, <1>3, <2>1, <3>2, <3>3 DEF Kept
    <2>2. \A m \in 1 .. N + 1 : C(m, spoilt) => Clean(m, spoilt)
      <3> HIDE DEF C
      <3> QED
        BY <1>g
    <2>3. /\ DOMAIN frames' = 1 .. N + 1 /\ frames' = f /\ air' = a /\ spoilt' = spoilt
          /\ accepted' = accepted /\ rcv_fifo' = rcv_fifo
      BY <1>1, <1>3, <1>r
    <2>4. ASSUME NEW m \in 1 .. N + 1, f[m] = "line", m \notin Reading!Of(a), m \notin spoilt,
                 C(m, spoilt)
          PROVE  \/ \E i \in DOMAIN accepted : accepted[i] = m
                 \/ \E i \in DOMAIN rcv_fifo : rcv_fifo[i] = [of |-> m, is |-> "end"]
      <3> HIDE DEF C
      <3> QED
        BY <2>1, <2>2, <2>4
    <2> QED
      BY <2>3, <2>4 DEF Kept, Clean, Reading!Of
  <1>k. Reading!TypeOK'
    <2>1. Len(a) <= BufMax + 1 /\ Len(f) <= MaxFrame
      BY <1>0, <1>1, <1>3, <1>4, <1>5, <1>6
    <2>2. /\ rcv_fifo \in Seq(Reading!Piece) /\ Len(rcv_fifo) <= FifoMax
          /\ accepted \in Seq(1 .. MaxFrame) /\ spoilt \subseteq 1 .. MaxFrame
          /\ closes \in 0 .. MaxClose
      BY <1>0 DEF Reading!TypeOK
    <2> QED
      BY <1>1, <1>3, <1>6, <1>r, <2>1, <2>2 DEF Reading!TypeOK, Reading!Piece, Reading!Kinds
  <1> QED
    BY <1>e, <1>h, <1>i, <1>j, <1>k DEF SerialInv

\* The port is closed, and what is in it is lost.
LEMMA CloseKeeps ==
  ASSUME SerialInv, Reading!ClosePort
  PROVE  SerialInv'
  <1>0. /\ Reading!TypeOK /\ Stream /\ Waiting /\ InOrder /\ Kept
        /\ DOMAIN air = 1 .. Len(air) /\ DOMAIN rcv_fifo = 1 .. Len(rcv_fifo)
        /\ BufMax \in Nat /\ FifoMax \in Nat /\ MaxFrame \in Nat /\ MaxClose \in Nat
        /\ \A i \in DOMAIN air : air[i].of \in 1 .. MaxFrame
        /\ \A i \in DOMAIN rcv_fifo : rcv_fifo[i].of \in 1 .. MaxFrame
    <2>1. Reading!TypeOK /\ Stream /\ Waiting /\ InOrder /\ Kept
      BY DEF SerialInv
    <2> QED
      BY <2>1, SerialShape, SerialLimits, PieceIs
  <1>1. /\ air' = <<>> /\ rcv_fifo' = <<>> /\ frames' = frames /\ accepted' = accepted
        /\ spoilt' = spoilt \cup Reading!Of(air) \cup Reading!Of(rcv_fifo)
        /\ closes < MaxClose /\ closes' = closes + 1
    BY DEF Reading!ClosePort
  <1>2. DOMAIN air' = {} /\ DOMAIN rcv_fifo' = {} /\ Len(air') = 0 /\ Len(rcv_fifo') = 0
        /\ <<>> \in Seq(Reading!Piece)
    BY <1>1, EmptySeq
  <1>3. Stream'
    BY <1>1, <1>2 DEF Stream
  <1>4. ~Mid'
    BY <1>1 DEF Mid
  <1>5. Waiting'
    BY <1>1, <1>2, <1>4 DEF Waiting, Finished
  <1>6. InOrder'
    BY <1>0, <1>1, <1>2 DEF InOrder
  <1>7. Kept'
    <2> DEFINE s == spoilt'
    <2>1. ASSUME NEW n \in DOMAIN frames, frames[n] = "line", n \notin s, Clean(n, s)
          PROVE  \E i \in DOMAIN accepted : accepted[i] = n
      <3>1. n \notin spoilt /\ Clean(n, spoilt) /\ n \notin Reading!Of(air)
            /\ n \notin Reading!Of(rcv_fifo)
        BY <1>1, <2>1, CleanBefore
      <3>2. ~\E i \in DOMAIN rcv_fifo : rcv_fifo[i] = [of |-> n, is |-> "end"]
        BY <3>1 DEF Reading!Of
      <3> QED
        BY <1>0, <2>1, <3>1, <3>2 DEF Kept
    <2>2. frames' = frames /\ accepted' = accepted /\ spoilt' = s
      BY <1>1
    <2> HIDE DEF s
    <2> QED
      BY <2>1, <2>2 DEF Kept, Clean
  <1>8. Reading!TypeOK'
    <2>1. Reading!Of(air) \subseteq 1 .. MaxFrame /\ Reading!Of(rcv_fifo) \subseteq 1 .. MaxFrame
      BY <1>0 DEF Reading!Of
    <2>2. spoilt' \subseteq 1 .. MaxFrame
      BY <1>0, <1>1, <2>1 DEF Reading!TypeOK
    <2>3. closes' \in 0 .. MaxClose
      BY <1>0, <1>1 DEF Reading!TypeOK
    <2>4. 0 <= BufMax + 1 /\ 0 <= FifoMax
      BY <1>0
    <2>5. air' \in Seq(Reading!Piece) /\ rcv_fifo' \in Seq(Reading!Piece)
          /\ Len(air') <= BufMax + 1 /\ Len(rcv_fifo') <= FifoMax
      BY <1>1, <1>2, <2>4
    <2> QED
      BY <1>0, <1>1, <2>2, <2>3, <2>5 DEF Reading!TypeOK, Reading!Piece, Reading!Kinds
  <1> QED
    BY <1>3, <1>5, <1>6, <1>7, <1>8 DEF SerialInv

\* A step of the port, or none, keeps the invariant.
LEMMA SerialGoesOn ==
  ASSUME SerialInv, Reading!Next \/ UNCHANGED serialVars
  PROVE  SerialInv'
  <1>1. CASE Reading!Say
    BY <1>1, SayKeeps
  <1>2. CASE Reading!OnReceive
    BY <1>2, ReadKeeps
  <1>3. CASE Reading!ClosePort
    BY <1>3, CloseKeeps
  <1>4. CASE UNCHANGED serialVars
    <2>1. /\ air' = air /\ rcv_fifo' = rcv_fifo /\ frames' = frames /\ accepted' = accepted
          /\ spoilt' = spoilt /\ closes' = closes
      BY <1>4 DEF serialVars
    <2>2. Reading!TypeOK /\ Stream /\ Waiting /\ InOrder /\ Kept
      BY DEF SerialInv
    <2>3. At' = At /\ (Mid' <=> Mid)
      BY <2>1 DEF At, Mid, IsFirst
    <2>4. Reading!TypeOK' /\ Stream'
      BY <2>1, <2>2 DEF Reading!TypeOK, Reading!Piece, Reading!Kinds, Stream, Said, Earlier
    <2>5. Waiting'
      BY <2>1, <2>2, <2>3 DEF Waiting, Said, Finished, NoEnd, Clean, Reading!Ends
    <2>6. InOrder' /\ Kept'
      BY <2>1, <2>2 DEF InOrder, Kept, Clean, Reading!Of
    <2> QED
      BY <2>4, <2>5, <2>6 DEF SerialInv
  <1> QED
    BY <1>1, <1>2, <1>3, <1>4 DEF Reading!Next

\* The port begins with nothing said.
LEMMA SerialBegins ==
  ASSUME Reading!Init
  PROVE  SerialInv
  <1>1. /\ air = <<>> /\ rcv_fifo = <<>> /\ frames = <<>>
        /\ accepted = <<>> /\ spoilt = {} /\ closes = 0
    BY DEF Reading!Init
  <1>2. /\ BufMax \in Nat /\ FifoMax \in Nat /\ MaxFrame \in Nat /\ MaxClose \in Nat
    BY SerialLimits
  <1>3. /\ DOMAIN air = {} /\ DOMAIN rcv_fifo = {} /\ DOMAIN frames = {} /\ DOMAIN accepted = {}
        /\ Len(air) = 0 /\ Len(rcv_fifo) = 0 /\ Len(frames) = 0
        /\ air \in Seq(Reading!Piece) /\ rcv_fifo \in Seq(Reading!Piece)
        /\ frames \in Seq(Reading!Kinds) /\ accepted \in Seq(1 .. MaxFrame)
    BY <1>1, EmptySeq
  <1>4. Reading!TypeOK
    BY <1>1, <1>2, <1>3 DEF Reading!TypeOK
  <1>5. Stream /\ Waiting /\ InOrder /\ Kept
    BY <1>1, <1>3 DEF Stream, Waiting, Finished, Mid, InOrder, Kept
  <1> QED
    BY <1>4, <1>5 DEF SerialInv

\* What the invariant says of the port.
LEMMA SerialSound ==
  ASSUME SerialInv
  PROVE  Reading!TypeOK /\ Reading!LinesKept
  <1>0. Reading!TypeOK /\ Stream /\ Waiting /\ InOrder /\ Kept
    BY DEF SerialInv
  <1>1. \A i, j \in DOMAIN accepted : i < j => accepted[i] < accepted[j]
    BY <1>0 DEF InOrder
  <1>2. ASSUME NEW n \in DOMAIN frames, frames[n] = "line", n \notin Reading!Of(air)
        PROVE  \/ n \in Reading!ToSet(accepted)
               \/ n \in Reading!Of(rcv_fifo) /\ Reading!Ends(rcv_fifo) = {}
               \/ n \in spoilt
               \/ \E m \in 1 .. n - 1 :
                    Reading!Spoils(m) /\ \A k \in m + 1 .. n - 1 : frames[k] = "packet"
    <2>1. CASE n \notin spoilt /\ Clean(n, spoilt)
      <3>1. CASE \E i \in DOMAIN accepted : accepted[i] = n
        BY <3>1 DEF Reading!ToSet
      <3>2. ASSUME NEW i \in DOMAIN rcv_fifo, rcv_fifo[i] = [of |-> n, is |-> "end"]
            PROVE  n \in Reading!Of(rcv_fifo) /\ Reading!Ends(rcv_fifo) = {}
        <4>1. n \in Reading!Of(rcv_fifo)
          BY <3>2 DEF Reading!Of
        <4>2. rcv_fifo # <<>>
          BY EmptySeq
        <4>3. Reading!Ends(rcv_fifo) = {}
          BY <1>0, <4>2 DEF Waiting, Finished
        <4> QED
          BY <4>1, <4>3
      <3> QED
        BY <1>0, <1>2, <2>1, <3>1, <3>2 DEF Kept
    <2>2. CASE ~Clean(n, spoilt)
      BY <2>2 DEF Clean, Reading!Spoils
    <2> QED
      BY <2>1, <2>2
  <1> QED
    BY <1>0, <1>1, <1>2 DEF Reading!LinesKept

-------------------------------------------------------------------------------
(* The alarms of the supply: Power.                                        *)

PowerInv == PowerTypeOK /\ AlarmsAgree

\* The times the power alarms are filtered for are numbers.
LEMMA PowerLimits ==
  {OnTime, OffTime, MaxBoot, MaxMend} \subseteq Nat
  BY DeviceAssumption DEF DeviceAssumption

\* A record keeps to its values whatever the voltage is.
LEMMA CheckChangeIs ==
  ASSUME NEW r \in Records, NEW b \in BOOLEAN
  PROVE  CheckChange(r, b) \in Records
  <1>1. r.state \in BOOLEAN /\ r.held \in Nat /\ r.held <= Longest /\ Longest \in Nat
    BY PowerLimits DEF Records, Longest
  <1>2. CASE b = r.state \/ r.held + 1 >= (IF b THEN OnTime ELSE OffTime)
    <2>1. CheckChange(r, b) = [state |-> b, held |-> 0]
      BY <1>2 DEF CheckChange, Fresh
    <2> QED
      BY <1>1, <2>1 DEF Records
  <1>3. CASE ~(b = r.state \/ r.held + 1 >= (IF b THEN OnTime ELSE OffTime))
    <2>1. r.held + 1 \in 0 .. Longest
      BY <1>1, <1>3, PowerLimits DEF Longest
    <2>2. CheckChange(r, b) = [r EXCEPT !.held = r.held + 1]
      BY <1>3 DEF CheckChange, Fresh
    <2> QED
      BY <1>1, <2>1, <2>2 DEF Records
  <1> QED
    BY <1>2, <1>3

\* So do the three records in a second.
LEMMA NextRecords ==
  ASSUME PowerTypeOK, NEW p \in Levels
  PROVE  /\ MainsOff(rec["off"]) \in Records /\ HighVoltage(rec["high"]) \in Records
         /\ LowBattery(rec["low"], p) \in Records
  <1>1. rec["off"] \in Records /\ rec["high"] \in Records /\ rec["low"] \in Records
        /\ rec["low"].state \in BOOLEAN
    BY DEF PowerTypeOK, Alarms, Records
  <1>2. MainsOff(rec["off"]) \in Records
    BY <1>1, CheckChangeIs DEF MainsOff
  <1>3. HighVoltage(rec["high"]) \in Records
    BY <1>1, CheckChangeIs DEF HighVoltage
  <1>4. (CASE p = "good" -> FALSE [] p = "low" -> TRUE [] OTHER -> rec["low"].state) \in BOOLEAN
    BY <1>1 DEF Levels
  <1>5. LowBattery(rec["low"], p) \in Records
    BY <1>1, <1>4, CheckChangeIs DEF LowBattery
  <1> QED
    BY <1>2, <1>3, <1>5

\* The level of the battery moves between its values.
LEMMA PercentIs ==
  ASSUME PowerTypeOK
  PROVE  Percent.now \in Levels /\ Percent.moving \in {"no", "fall", "rise"}
  <1>1. Wanted \in {"no", "fall", "rise"}
    BY DEF Wanted
  <1> QED
    BY <1>1 DEF PowerTypeOK, Percent, Levels

\* A second moves a bit with its record.
LEMMA SecondAgrees ==
  ASSUME PowerInv, Second
  PROVE  PowerInv'
  <1> DEFINE next == [off |-> MainsOff(rec["off"]), low |-> LowBattery(rec["low"], Percent.now),
                      high |-> HighVoltage(rec["high"])]
             up == {a \in Alarms : next[a].state /\ ~rec[a].state}
             down == {a \in Alarms : ~next[a].state /\ rec[a].state}
  <1>1. /\ percent' = Percent.now /\ moving' = Percent.moving /\ rec' = next
        /\ bits' = (bits \ down) \cup up
        /\ raised' = (raised \/ "low" \in up)
        /\ masked' = (masked /\ "high" \notin up \cup down)
        /\ UNCHANGED <<kind, mains, battery, plugged, disabled, wiped, boots, mends>>
    BY DEF Second
  <1>2. next \in [Alarms -> Records]
    <2>1. \A a \in Alarms : next[a] \in Records
      BY NextRecords, PercentIs DEF PowerInv, Alarms
    <2>2. next = [a \in Alarms |-> next[a]]
      BY DEF Alarms
    <2> HIDE DEF next
    <2> QED
      BY <2>1, <2>2
  <1> HIDE DEF next
  <1>3. PowerTypeOK'
    <2>1. bits' \subseteq Alarms /\ {plugged, wiped, masked, raised}' \subseteq BOOLEAN
      BY <1>1 DEF PowerInv, PowerTypeOK
    <2> QED
      BY <1>1, <1>2, <2>1, PercentIs DEF PowerInv, PowerTypeOK
  <1>4. ASSUME ~wiped, NEW a \in Alarms
        PROVE  (a \in bits') <=> (next[a].state /\ ~(a = "high" /\ masked'))
    <2>1. (a \in bits) <=> (rec[a].state /\ ~(a = "high" /\ masked))
      BY <1>4 DEF PowerInv, AlarmsAgree
    <2>2. CASE next[a].state
      BY <1>1, <2>1, <2>2
    <2>3. CASE ~next[a].state
      BY <1>1, <2>1, <2>3
    <2> QED
      BY <2>2, <2>3
  <1>5. AlarmsAgree'
    <2>1. wiped' = wiped /\ rec' = next
      BY <1>1
    <2>2. \A a \in Alarms : next[a].state \in BOOLEAN
      BY <1>2 DEF Records
    <2> QED
      BY <1>4, <2>1, <2>2 DEF AlarmsAgree
  <1> QED
    BY <1>3, <1>5 DEF PowerInv

\* A restart takes the records from the bits.
LEMMA RestartAgrees ==
  ASSUME PowerInv, NEW torn \in BOOLEAN, Restart(torn)
  PROVE  PowerInv'
  <1> DEFINE kept == IF torn THEN {} ELSE bits
  <1>1. /\ rec' = [a \in Alarms |-> Fresh(a \in kept)] /\ bits' = kept
        /\ masked' = FALSE /\ percent' = "unset" /\ moving' = "no" /\ wiped' = FALSE
        /\ raised' = FALSE /\ boots' \in 0 .. MaxBoot
        /\ UNCHANGED <<kind, mains, battery, plugged, disabled, mends>>
    BY PowerLimits DEF Restart, Created, PowerInv, PowerTypeOK
  <1>2. kept \subseteq Alarms
    BY DEF PowerInv, PowerTypeOK
  <1> HIDE DEF kept
  <1>3. \A b \in BOOLEAN : [state |-> b, held |-> 0] \in Records
    BY PowerLimits DEF Records, Longest
  <1>4. /\ rec' \in [Alarms -> Records]
        /\ \A a \in Alarms : rec'[a].state <=> (a \in bits')
    <2>1. rec' = [a \in Alarms |-> [state |-> (a \in kept), held |-> 0]]
      BY <1>1 DEF Fresh
    <2>2. \A a \in Alarms : (a \in kept) \in BOOLEAN
      OBVIOUS
    <2>3. rec' \in [Alarms -> Records]
      BY <1>3, <2>1, <2>2
    <2>4. \A a \in Alarms : rec'[a] = [state |-> (a \in kept), held |-> 0]
      BY <2>1
    <2>5. ASSUME NEW a \in Alarms PROVE rec'[a].state <=> (a \in kept)
      <3>1. CASE a \in kept
        <4>1. rec'[a] = [state |-> TRUE, held |-> 0]
          BY <2>4, <3>1, Zenon
        <4> QED
          BY <3>1, <4>1
      <3>2. CASE a \notin kept
        <4>1. (a \in kept) = FALSE
          BY <3>2
        <4>2. rec'[a] = [state |-> FALSE, held |-> 0]
          BY <2>4, <4>1
        <4> QED
          BY <3>2, <4>2
      <3> QED
        BY <3>1, <3>2
    <2> QED
      BY <1>1, <2>3, <2>5
  <1>5. PowerTypeOK'
    BY <1>1, <1>2, <1>4 DEF PowerInv, PowerTypeOK
  <1>6. AlarmsAgree'
    BY <1>1, <1>4 DEF AlarmsAgree
  <1> QED
    BY <1>5, <1>6 DEF PowerInv

\* A step of the power alarms keeps their status bits and records in agreement.
LEMMA PowerGoesOn ==
  ASSUME PowerInv, PowerNext
  PROVE  PowerInv'
  <1>1. CASE ChangeWork
    <2>1. PowerTypeOK'
      BY <1>1 DEF ChangeWork, PowerInv, PowerTypeOK
    <2>2. AlarmsAgree'
      BY <1>1 DEF ChangeWork, PowerInv, AlarmsAgree
    <2> QED
      BY <2>1, <2>2 DEF PowerInv
  <1>2. CASE Switch
    <2>1. PowerTypeOK'
      BY <1>2, PowerLimits DEF Switch, PowerInv, PowerTypeOK
    <2>2. AlarmsAgree'
      BY <1>2 DEF Switch, PowerInv, AlarmsAgree
    <2> QED
      BY <2>1, <2>2 DEF PowerInv
  <1>3. CASE Factory
    <2>1. PowerTypeOK'
      BY <1>3, PowerLimits DEF Factory, PowerInv, PowerTypeOK
    <2>2. AlarmsAgree'
      BY <1>3 DEF Factory, AlarmsAgree
    <2> QED
      BY <2>1, <2>2 DEF PowerInv
  <1>4. CASE Reboot \/ Crash
    BY <1>4, RestartAgrees DEF Reboot, Crash
  <1>5. CASE Supply
    <2>1. PowerTypeOK'
      BY <1>5 DEF Supply, PowerInv, PowerTypeOK
    <2>2. AlarmsAgree'
      BY <1>5 DEF Supply, PowerInv, AlarmsAgree
    <2> QED
      BY <2>1, <2>2 DEF PowerInv
  <1> QED
    BY <1>1, <1>2, <1>3, <1>4, <1>5, SecondAgrees DEF PowerNext

\* The power alarms begin in agreement.
LEMMA PowerBegins == PowerInit => PowerInv
  <1> SUFFICES ASSUME PowerInit PROVE PowerInv
    OBVIOUS
  <1>1. [state |-> FALSE, held |-> 0] \in Records
    BY PowerLimits DEF Records, Longest
  <1>2. rec = [a \in Alarms |-> [state |-> FALSE, held |-> 0]] /\ bits = {}
    BY DEF PowerInit, Fresh
  <1>3. PowerTypeOK
    <2>1. {plugged, wiped, masked, raised} \subseteq BOOLEAN
      BY DEF PowerInit
    <2>2. boots \in 0 .. MaxBoot /\ mends \in 0 .. MaxMend
      BY PowerLimits DEF PowerInit
    <2>3. rec \in [Alarms -> Records] /\ bits \subseteq Alarms
      BY <1>1, <1>2
    <2> QED
      BY <2>1, <2>2, <2>3 DEF PowerInit, PowerTypeOK
  <1>4. AlarmsAgree
    BY <1>1, <1>2 DEF AlarmsAgree
  <1> QED
    BY <1>3, <1>4 DEF PowerInv

-------------------------------------------------------------------------------
(* The ignition and the arming: Defence.                                   *)

\* With the ignition on in automatic mode nothing arms; the mode was not changed since.
ArmingInv == Arming!TypeOK /\ Arming!DrivingDisarmed /\ (clean => ~manual)

\* The bounds of the arming.
LEMMA ArmingLimits ==
  Hold \in Nat \ {0} /\ {Long, MaxMode, MaxBoot} \subseteq Nat
  BY DeviceAssumption DEF DeviceAssumption

\* A clock that stops past its limit does not run over it.
LEMMA UpIs == ASSUME NEW n \in 0 .. Long + 1 PROVE Arming!Up(n) \in 0 .. Long + 1
  BY ArmingLimits DEF Arming!Up

\* What the filter and the clocks are after a second.
LEMMA ClocksAre ==
  ASSUME Arming!TypeOK
  PROVE  /\ Arming!Checked \in [state : BOOLEAN, held : 0 .. Hold - 1]
         /\ Arming!LineHigh \in 0 .. Long + 1 /\ Arming!LowRuns \in 0 .. Long + 1
  <1>1. /\ acc.state \in BOOLEAN /\ acc.held \in Nat /\ acc.held < Hold /\ line \in BOOLEAN
        /\ acc \in [state : BOOLEAN, held : 0 .. Hold - 1]
    BY ArmingLimits DEF Arming!TypeOK
  <1>2. Arming!Checked \in [state : BOOLEAN, held : 0 .. Hold - 1]
    <2>1. CASE line = acc.state
      <3>1. Arming!Checked = [acc EXCEPT !.held = 0]
        BY <2>1 DEF Arming!Checked
      <3> QED
        BY <1>1, <3>1, ArmingLimits
    <2>2. CASE line # acc.state /\ acc.held + 1 >= Hold
      <3>1. Arming!Checked = [state |-> line, held |-> 0]
        BY <2>2 DEF Arming!Checked
      <3> QED
        BY <1>1, <3>1, ArmingLimits
    <2>3. CASE line # acc.state /\ ~(acc.held + 1 >= Hold)
      <3>1. Arming!Checked = [acc EXCEPT !.held = acc.held + 1] /\ acc.held + 1 \in 0 .. Hold - 1
        BY <1>1, <2>3, ArmingLimits DEF Arming!Checked
      <3> QED
        BY <1>1, <3>1
    <2> QED
      BY <2>1, <2>2, <2>3
  <1>3. Arming!LineHigh \in 0 .. Long + 1
    BY UpIs, ArmingLimits DEF Arming!LineHigh, Arming!TypeOK
  <1>4. Arming!LowRuns \in 0 .. Long + 1
    BY UpIs, ArmingLimits DEF Arming!LowRuns, Arming!TypeOK
  <1> QED
    BY <1>2, <1>3, <1>4

\* A second of the ignition line, which disarms a car that drives.
LEMMA CheckAccDisarms ==
  ASSUME ArmingInv, Arming!CheckAcc
  PROVE  ArmingInv'
  <1>1. /\ wired
        /\ acc' = Arming!Checked /\ high' = Arming!LineHigh /\ runs' = Arming!LowRuns
        /\ lineMode' = ~Arming!Implausible
        /\ arming' = ((arming \/ Arming!Arms) /\ ~Arming!Disarms)
        /\ defence' = (defence /\ ~Arming!Disarms)
        /\ clean' = IF Arming!WentOn THEN ~manual ELSE clean /\ Arming!LowRuns <= Long
        /\ alarm' = (alarm /\ ~Arming!WentOn)
        /\ UNCHANGED <<wired, line, driving, manual, checking, modes, resets>>
    BY DEF Arming!CheckAcc
  <1>2. Arming!TypeOK /\ Arming!DrivingDisarmed /\ (clean => ~manual)
    BY DEF ArmingInv
  <1>3. Arming!TypeOK'
    <2>1. {wired, line, driving, lineMode, manual, defence, arming, checking, alarm, clean}'
             \subseteq BOOLEAN
      <3>1. {wired, line, driving, manual, checking}' \subseteq BOOLEAN
        BY <1>1, <1>2 DEF Arming!TypeOK
      <3>2. {lineMode, arming, defence, alarm}' \subseteq BOOLEAN
        BY <1>1
      <3>3. clean' \in BOOLEAN
        <4>1. (~manual) \in BOOLEAN /\ (clean /\ Arming!LowRuns <= Long) \in BOOLEAN
          OBVIOUS
        <4>2. clean' = (~manual) \/ clean' = (clean /\ Arming!LowRuns <= Long)
          BY <1>1
        <4> QED
          BY <4>1, <4>2
      <3> QED
        BY <3>1, <3>2, <3>3
    <2> QED
      BY <1>1, <1>2, <2>1, ClocksAre DEF Arming!TypeOK
  <1>4. clean' => ~manual'
    BY <1>1, <1>2
  <1>5. ASSUME clean', acc'.state PROVE ~defence' /\ ~arming'
    <2>1. CASE Arming!WentOn
      <3>1. Arming!Disarms
        BY <1>1, <1>5, <2>1 DEF Arming!Disarms
      <3> QED
        BY <1>1, <3>1
    <2>2. CASE ~Arming!WentOn
      <3>1. clean /\ acc.state
        BY <1>1, <1>5, <2>2 DEF Arming!WentOn
      <3>2. ~Arming!Arms
        BY <1>1, <1>5 DEF Arming!Arms, Arming!WentOff
      <3> QED
        BY <1>1, <1>2, <3>1, <3>2 DEF Arming!DrivingDisarmed
    <2> QED
      BY <2>1, <2>2
  <1>6. Arming!DrivingDisarmed'
    BY <1>5 DEF Arming!DrivingDisarmed
  <1> QED
    BY <1>3, <1>4, <1>6 DEF ArmingInv

\* A step of the ignition or the arming keeps a driving car disarmed.
LEMMA ArmingGoesOn ==
  ASSUME ArmingInv, Arming!Next
  PROVE  ArmingInv'
  <1>0. Arming!TypeOK /\ Arming!DrivingDisarmed /\ (clean => ~manual)
    BY DEF ArmingInv
  <1>1. CASE Arming!NoLine
    BY <1>0, <1>1 DEF Arming!NoLine, ArmingInv, Arming!TypeOK, Arming!DrivingDisarmed
  <1>2. CASE Arming!AutoDefence
    BY <1>0, <1>2 DEF Arming!AutoDefence, ArmingInv, Arming!TypeOK, Arming!DrivingDisarmed
  <1>3. CASE Arming!SetMode
    <2>1. modes' \in 0 .. MaxMode
      BY <1>0, <1>3, ArmingLimits DEF Arming!SetMode, Arming!TypeOK
    <2> QED
      BY <1>0, <1>3, <2>1 DEF Arming!SetMode, ArmingInv, Arming!TypeOK, Arming!DrivingDisarmed
  <1>4. CASE Arming!Order
    BY <1>0, <1>4 DEF Arming!Order, ArmingInv, Arming!TypeOK, Arming!DrivingDisarmed
  <1>5. CASE Arming!Shake
    BY <1>0, <1>5 DEF Arming!Shake, ArmingInv, Arming!TypeOK, Arming!DrivingDisarmed
  <1>6. CASE Arming!ReportShake
    BY <1>0, <1>6 DEF Arming!ReportShake, ArmingInv, Arming!TypeOK, Arming!DrivingDisarmed
  <1>7. CASE Arming!Boot
    <2>1. PICK kept \in BOOLEAN : Arming!Restart(kept)
      BY <1>7 DEF Arming!Boot
    <2>2. resets' \in 0 .. MaxBoot
      BY <1>0, <2>1, ArmingLimits DEF Arming!Restart, Arming!TypeOK
    <2>3. acc' \in [state : BOOLEAN, held : 0 .. Hold - 1] /\ ~acc'.state
          /\ high' \in 0 .. Long + 1 /\ runs' \in 0 .. Long + 1
      BY <2>1, ArmingLimits DEF Arming!Restart
    <2>4. {wired, line, driving, lineMode, manual, defence, arming, checking, alarm, clean}'
             \subseteq BOOLEAN
      BY <1>0, <2>1 DEF Arming!Restart, Arming!TypeOK
    <2>5. modes' \in 0 .. MaxMode /\ (clean' => ~manual')
      BY <1>0, <2>1 DEF Arming!Restart, Arming!TypeOK
    <2> QED
      BY <2>2, <2>3, <2>4, <2>5 DEF ArmingInv, Arming!TypeOK, Arming!DrivingDisarmed
  <1>8. CASE Arming!Drive
    BY <1>0, <1>8 DEF Arming!Drive, ArmingInv, Arming!TypeOK, Arming!DrivingDisarmed
  <1> QED
    BY <1>1, <1>2, <1>3, <1>4, <1>5, <1>6, <1>7, <1>8, CheckAccDisarms DEF Arming!Next

\* The arming begins with its invariant.
LEMMA ArmingBegins == Arming!Init => ArmingInv
  <1> SUFFICES ASSUME Arming!Init PROVE ArmingInv
    OBVIOUS
  <1>1. Arming!TypeOK
    <2>1. {wired, line, driving, lineMode, manual, defence, arming, checking, alarm, clean}
            \subseteq BOOLEAN
      BY DEF Arming!Init
    <2>2. acc \in [state : BOOLEAN, held : 0 .. Hold - 1]
      BY ArmingLimits DEF Arming!Init
    <2>3. /\ high \in 0 .. Long + 1 /\ runs \in 0 .. Long + 1
          /\ modes \in 0 .. MaxMode /\ resets \in 0 .. MaxBoot
      BY ArmingLimits DEF Arming!Init
    <2> QED
      BY <2>1, <2>2, <2>3 DEF Arming!TypeOK
  <1>2. ~clean
    BY DEF Arming!Init
  <1> QED
    BY <1>1, <1>2 DEF ArmingInv, Arming!DrivingDisarmed

-------------------------------------------------------------------------------
(* The motion sensor: Motion.                                              *)

\* A car that has been parked for some seconds is known to stand, or as many seconds
\* went into learning gravity and into calm samples.
Noticed == never \/ still = 0 \/ vehicle = "static" \/ still <= learnt + low
MotionInv == MotionTypeOK /\ Noticed

\* The bounds of the motion sensor.
LEMMA MotionLimits ==
  /\ Window \in Nat /\ Sleep \in Nat /\ Study \in Nat /\ Low \in Nat /\ MaxOrder \in Nat
  /\ MaxStart \in Nat
  BY DeviceAssumption DEF DeviceAssumption

\* A sample counts towards standing, unless the receiver tells of a constant speed.
LEMMA StaticOrRunIs ==
  ASSUME MotionTypeOK, NEW a \in {"run", "mid", "low", "super"}, NEW cruise \in BOOLEAN
  PROVE  /\ StaticOrRun(a, cruise).low \in 0 .. Low /\ StaticOrRun(a, cruise).calm \in 0 .. Low
         /\ StaticOrRun(a, cruise).state \in {"run", "static"}
         /\ StaticOrRun(a, cruise).moved \in BOOLEAN
         /\ ~never /\ ~cruise /\ a \in {"low", "super"} =>
              \/ StaticOrRun(a, cruise).state = "static"
              \/ /\ StaticOrRun(a, cruise).state = vehicle
                 /\ StaticOrRun(a, cruise).low = low + 1
  <1> DEFINE calmNow == IF a = "super" THEN Least(calm + 1, Low) ELSE 0
             lowNow == Least(low + 1, Low)
             counted == CASE a = "run" -> [low |-> 0, calm |-> 0, state |-> "run",
                                           moved |-> moved \/ vehicle = "static"]
                        [] a = "mid" -> [low |-> low, calm |-> calm, state |-> vehicle, moved |-> moved]
                        [] OTHER -> [low |-> lowNow, calm |-> calmNow, moved |-> moved,
                             state |-> IF lowNow >= Low \/ calmNow >= Low \div 2 THEN "static"
                                       ELSE vehicle]
  <1>1. /\ low \in 0 .. Low /\ calm \in 0 .. Low /\ vehicle \in {"run", "static"}
        /\ moved \in BOOLEAN /\ never \in BOOLEAN /\ Low \in Nat
    BY MotionLimits DEF MotionTypeOK
  <1>2. /\ lowNow \in 0 .. Low /\ calmNow \in 0 .. Low
        /\ lowNow >= Low \/ lowNow = low + 1
    BY <1>1 DEF Least
  <1>3. StaticOrRun(a, cruise) =
          IF never THEN [low |-> low, calm |-> calm, state |-> "run", moved |-> moved]
          ELSE Cruise(counted, cruise)
    BY DEF StaticOrRun
  <1> HIDE DEF calmNow, lowNow
  <1>4. /\ counted.low \in 0 .. Low /\ counted.calm \in 0 .. Low
        /\ counted.state \in {"run", "static"} /\ counted.moved \in BOOLEAN
        /\ counted = [low |-> counted.low, calm |-> counted.calm, state |-> counted.state,
                      moved |-> counted.moved]
        /\ a \in {"low", "super"} =>
             \/ counted.state = "static"
             \/ counted.state = vehicle /\ counted.low = low + 1
    <2>1. CASE a = "run"
      <3>1. counted = [low |-> 0, calm |-> 0, state |-> "run", moved |-> moved \/ vehicle = "static"]
        BY <2>1
      <3>2. (moved \/ vehicle = "static") \in BOOLEAN
        OBVIOUS
      <3> HIDE DEF counted
      <3> QED
        BY <1>1, <2>1, <3>1, <3>2
    <2>2. CASE a = "mid"
      <3>1. counted = [low |-> low, calm |-> calm, state |-> vehicle, moved |-> moved]
        BY <2>2
      <3> HIDE DEF counted
      <3> QED
        BY <1>1, <2>2, <3>1
    <2>3. CASE a \in {"low", "super"}
      <3>1. \/ counted = [low |-> lowNow, calm |-> calmNow, moved |-> moved, state |-> "static"]
            \/ /\ lowNow < Low
               /\ counted = [low |-> lowNow, calm |-> calmNow, moved |-> moved, state |-> vehicle]
        BY <1>1, <1>2, <2>3
      <3> HIDE DEF counted
      <3> QED
        BY <1>1, <1>2, <2>3, <3>1
    <2> QED
      BY <2>1, <2>2, <2>3
  <1> HIDE DEF counted
  <1>5. CASE never
    BY <1>1, <1>3, <1>5
  <1>6. CASE ~never /\ ~cruise
    <2>1. StaticOrRun(a, cruise) = counted
      BY <1>3, <1>6 DEF Cruise
    <2> QED
      BY <1>4, <1>6, <2>1
  <1>7. CASE ~never /\ cruise
    <2>1. StaticOrRun(a, cruise) = [counted EXCEPT !.low = 0, !.calm = 0, !.state = "run"]
      BY <1>3, <1>7 DEF Cruise
    <2>2. StaticOrRun(a, cruise) = [low |-> 0, calm |-> 0, state |-> "run", moved |-> counted.moved]
      BY <1>4, <2>1
    <2>3. /\ StaticOrRun(a, cruise).low = 0 /\ StaticOrRun(a, cruise).calm = 0
          /\ StaticOrRun(a, cruise).state = "run"
          /\ StaticOrRun(a, cruise).moved = counted.moved
      BY <2>2
    <2>4. 0 \in 0 .. Low /\ counted.moved \in BOOLEAN
      BY <1>1, <1>4
    <2> QED
      BY <1>7, <2>3, <2>4
  <1> QED
    BY <1>5, <1>6, <1>7

\* The window forgets the entries that are older than it.
LEMMA AgedIs ==
  ASSUME NEW set \in SUBSET (0 .. Window), NEW shaken \in BOOLEAN
  PROVE  Aged(set, shaken) \in SUBSET (0 .. Window)
  BY MotionLimits DEF Aged

\* A second of samples keeps the invariant.
LEMMA SampledNotices ==
  ASSUME MotionInv, Sampled
  PROVE  MotionInv'
  <1>1. PICK a \in Accelerations, byRead \in Shakes, byEint \in Shakes, speed \in Speeds :
          Sample(a, byRead, byEint, speed)
    BY DEF Sampled
  <1> DEFINE by == [read |-> Aged(ages.read, byRead), eint |-> Aged(ages.eint, byEint)]
             wakes == Wakes(by)
             dozes == Dozes(by)
             on1 == (work \/ wakes) /\ ~dozes
             cruise == speed /\ ~(wakes /\ ForgetsSpeed)
             v == StaticOrRun(a, cruise)
             sure == car = "parked" /\ ((gps /\ sky) \/ ~fast) /\ on1
  <1>2. /\ ages' = by /\ quiet' = Quiet(by) /\ work' = on1
        /\ chain' = (IF Starts(by) THEN TRUE ELSE chain /\ on1)
        /\ gps' = (IF dozes THEN FALSE ELSE IF wakes THEN PoweredOn ELSE gps)
        /\ fast' = cruise /\ asked' = (asked /\ ~dozes)
        /\ IF ~on1 THEN /\ UNCHANGED <<learnt, low, calm, vehicle>>
                        /\ moved' = (moved /\ ~dozes)
           ELSE IF learnt < Study
           THEN /\ learnt' = learnt + 1 /\ moved' = (moved /\ ~wakes)
                /\ UNCHANGED <<low, calm, vehicle>>
           ELSE /\ low' = v.low /\ calm' = v.calm /\ vehicle' = v.state
                /\ moved' = (IF wakes THEN v.moved /\ ~moved ELSE v.moved)
                /\ learnt' = learnt
        /\ still' = (IF sure THEN Least(still + 1, Settled) ELSE IF on1 THEN 0 ELSE still)
        /\ UNCHANGED <<car, sky, chip, never, closed, orders, starts>>
    BY <1>1 DEF Sample
  <1>3. /\ MotionTypeOK
        /\ car \in {"parked", "smooth", "rough"} /\ vehicle \in {"run", "static"}
        /\ ages \in [{"read", "eint"} -> SUBSET (0 .. Window)]
        /\ quiet \in 0 .. Sleep /\ learnt \in 0 .. Study /\ {low, calm} \subseteq 0 .. Low
        /\ {sky, chip, work, chain, never, closed, gps, fast, moved, asked} \subseteq BOOLEAN
        /\ still \in 0 .. Settled /\ orders \in 0 .. MaxOrder /\ starts \in 0 .. MaxStart
    BY DEF MotionInv, MotionTypeOK
  <1>4. byRead \in BOOLEAN /\ byEint \in BOOLEAN /\ speed \in BOOLEAN
        /\ a \in {"run", "mid", "low", "super"}
    BY <1>3 DEF Shakes, Speeds, Accelerations
  <1>5. wakes \in BOOLEAN /\ dozes \in BOOLEAN /\ on1 \in BOOLEAN /\ cruise \in BOOLEAN
        /\ Starts(by) \in BOOLEAN /\ PoweredOn \in BOOLEAN
    BY <1>3, <1>4 DEF Wakes, Dozes, Starts, PoweredOn, Shaken
  <1>6. by \in [{"read", "eint"} -> SUBSET (0 .. Window)]
    <2>1. Aged(ages.read, byRead) \in SUBSET (0 .. Window)
      BY <1>3, <1>4, AgedIs
    <2>2. Aged(ages.eint, byEint) \in SUBSET (0 .. Window)
      BY <1>3, <1>4, AgedIs
    <2> QED
      BY <2>1, <2>2
  <1>7. Quiet(by) \in 0 .. Sleep
    BY <1>3, MotionLimits DEF Quiet, Least
  <1>8. /\ v.low \in 0 .. Low /\ v.calm \in 0 .. Low /\ v.state \in {"run", "static"}
        /\ v.moved \in BOOLEAN
        /\ ~never /\ ~cruise /\ a \in {"low", "super"} =>
             v.state = "static" \/ (v.state = vehicle /\ v.low = low + 1)
    BY <1>3, <1>4, <1>5, StaticOrRunIs
  <1>9. sure => ~cruise /\ a \in {"low", "super"}
    <2>1. car = "parked" => a \in {"low", "super"}
      BY <1>1 DEF Accelerations
    <2>2. car = "parked" /\ ((gps /\ sky) \/ ~fast) => ~speed
      BY <1>3, <1>4 DEF Speeds
    <2> QED
      BY <2>1, <2>2
  <1> HIDE DEF by, wakes, dozes, cruise, v
  <1>10. MotionTypeOK'
    <2>1. /\ learnt' \in 0 .. Study /\ {low, calm}' \subseteq 0 .. Low
          /\ vehicle' \in {"run", "static"}
      BY <1>2, <1>3, <1>8, MotionLimits
    <2>2. {sky, chip, work, chain, never, closed, gps, fast, moved, asked}' \subseteq BOOLEAN
      <3>1. moved' \in BOOLEAN
        <4>1. moved' \in {moved /\ ~dozes, moved /\ ~wakes, v.moved /\ ~moved, v.moved}
          BY <1>2
        <4> QED
          BY <1>3, <1>5, <1>8, <4>1
      <3>2. work' \in BOOLEAN /\ chain' \in BOOLEAN /\ fast' \in BOOLEAN /\ asked' \in BOOLEAN
        BY <1>2, <1>3, <1>5
      <3>3. gps' \in BOOLEAN
        BY <1>2, <1>3, <1>5
      <3>4. sky' \in BOOLEAN /\ chip' \in BOOLEAN /\ never' \in BOOLEAN /\ closed' \in BOOLEAN
        BY <1>2, <1>3
      <3> QED
        BY <3>1, <3>2, <3>3, <3>4
    <2>3. still' \in 0 .. Settled
      BY <1>2, <1>3, MotionLimits DEF Least, Settled
    <2> QED
      BY <1>2, <1>3, <1>6, <1>7, <2>1, <2>2, <2>3 DEF MotionTypeOK
  <1>11. Noticed'
    <2> SUFFICES ASSUME ~never, still' # 0, vehicle' # "static"
                 PROVE  still' <= learnt' + low'
      BY <1>2 DEF Noticed
    <2>0. /\ still \in Nat /\ learnt \in Nat /\ low \in Nat /\ Study \in Nat /\ Low \in Nat
          /\ learnt' \in Nat /\ low' \in Nat /\ still' \in Nat /\ Settled \in Nat
      BY <1>3, <1>10, MotionLimits DEF MotionTypeOK, Settled
    <2>1. CASE ~on1
      BY <1>2, <2>1 DEF MotionInv, Noticed
    <2>2. CASE on1 /\ ~sure
      BY <1>2, <2>2
    <2>3. CASE sure
      <3>1. on1
        BY <2>3
      <3>2. still' = Least(still + 1, Settled)
        BY <1>2, <2>3
      <3>3. still' <= still + 1
        BY ONLY <3>2, <2>0 DEF Least
      <3>4. vehicle # "static"
        BY <1>2, <1>3, <1>8, <1>9, <2>3
      <3>5. still <= learnt + low
        BY <2>0, <3>4 DEF MotionInv, Noticed
      <3>6. \/ learnt' = learnt + 1 /\ low' = low
            \/ learnt' = learnt /\ low' = low + 1
        <4>1. CASE learnt < Study
          BY <1>2, <3>1, <4>1
        <4>2. CASE ~(learnt < Study)
          <5>1. low' = v.low /\ vehicle' = v.state /\ learnt' = learnt
            BY <1>2, <3>1, <4>2
          <5>2. v.low = low + 1
            BY <1>8, <1>9, <2>3, <5>1
          <5> QED
            BY <5>1, <5>2
        <4> QED
          BY <4>1, <4>2
      <3>7. \E x, y \in Nat : x = learnt' /\ y = low' /\ still' <= x + y
        <4>1. CASE learnt' = learnt + 1 /\ low' = low
          <5>1. still' <= (learnt + 1) + low
            BY <2>0, <3>3, <3>5
          <5> QED
            BY <2>0, <4>1, <5>1
        <4>2. CASE learnt' = learnt /\ low' = low + 1
          <5>1. still' <= learnt + (low + 1)
            BY <2>0, <3>3, <3>5
          <5> QED
            BY <2>0, <4>2, <5>1
        <4> QED
          BY <3>6, <4>1, <4>2
      <3> QED
        BY <3>7
    <2> QED
      BY <2>1, <2>2, <2>3
  <1> QED
    BY <1>10, <1>11 DEF MotionInv

\* A step of the car, the sensor or the timers keeps the invariant.
LEMMA MotionGoesOn ==
  ASSUME MotionInv, MotionNext
  PROVE  MotionInv'
  <1>0. MotionTypeOK /\ Noticed
    BY DEF MotionInv
  <1>1. CASE FindChip
    BY <1>0, <1>1 DEF FindChip, MotionInv, MotionTypeOK, Noticed
  <1>2. CASE Relearn
    <2>1. MotionTypeOK'
      BY <1>0, <1>2, MotionLimits DEF Relearn, MotionTypeOK, Settled
    <2> QED
      BY <1>2, <2>1 DEF Relearn, MotionInv, Noticed
  <1>3. CASE GpsOn
    <2>1. MotionTypeOK'
      <3>1. {sky, chip, work, chain, never, closed, gps, fast, moved, asked}' \subseteq BOOLEAN
        BY <1>0, <1>3 DEF GpsOn, MotionTypeOK, PoweredOn, ForgetsSpeed
      <3>2. quiet' \in 0 .. Sleep /\ orders' \in 0 .. MaxOrder
        BY <1>0, <1>3, MotionLimits DEF GpsOn, MotionTypeOK
      <3> QED
        BY <1>0, <1>3, <3>1, <3>2 DEF GpsOn, MotionTypeOK
    <2> QED
      BY <1>0, <1>3, <2>1 DEF GpsOn, MotionInv, Noticed
  <1>4. CASE GpsOff
    <2>1. MotionTypeOK'
      BY <1>0, <1>4, MotionLimits DEF GpsOff, MotionTypeOK
    <2> QED
      BY <1>0, <1>4, <2>1 DEF GpsOff, MotionInv, Noticed
  <1>5. CASE Starting
    <2>1. MotionTypeOK'
      <3>1. {sky, chip, work, chain, never, closed, gps, fast, moved, asked}' \subseteq BOOLEAN
        BY <1>0, <1>5 DEF Starting, MotionTypeOK
      <3>2. ages' \in [{"read", "eint"} -> SUBSET (0 .. Window)]
        BY <1>5 DEF Starting
      <3>3. /\ quiet' \in 0 .. Sleep /\ learnt' \in 0 .. Study /\ {low, calm}' \subseteq 0 .. Low
            /\ still' \in 0 .. Settled /\ starts' \in 0 .. MaxStart
        BY <1>0, <1>5, MotionLimits DEF Starting, MotionTypeOK, Settled
      <3> QED
        BY <1>0, <1>5, <3>1, <3>2, <3>3 DEF Starting, MotionTypeOK
    <2> QED
      BY <1>5, <2>1 DEF Starting, MotionInv, Noticed
  <1>6. CASE Drive
    <2>1. still' = 0 \/ still' = still
      BY <1>6 DEF Drive
    <2>2. MotionTypeOK'
      <3>1. still' \in 0 .. Settled
        BY <1>0, <2>1, MotionLimits DEF MotionTypeOK, Settled
      <3> QED
        BY <1>0, <1>6, <3>1 DEF Drive, MotionTypeOK
    <2> QED
      BY <1>0, <1>6, <2>1, <2>2 DEF Drive, MotionInv, Noticed
  <1> QED
    BY <1>1, <1>2, <1>3, <1>4, <1>5, <1>6, SampledNotices DEF MotionNext

\* The motion sensor begins with its invariant.
LEMMA MotionBegins == MotionInit => MotionInv
  <1> SUFFICES ASSUME MotionInit PROVE MotionInv
    OBVIOUS
  <1>1. {sky, chip, work, chain, never, closed, gps, fast, moved, asked} \subseteq BOOLEAN
    BY DEF MotionInit
  <1>2. ages \in [{"read", "eint"} -> SUBSET (0 .. Window)]
    BY DEF MotionInit
  <1>3. /\ quiet \in 0 .. Sleep /\ learnt \in 0 .. Study /\ {low, calm} \subseteq 0 .. Low
        /\ still \in 0 .. Settled /\ orders \in 0 .. MaxOrder /\ starts \in 0 .. MaxStart
    BY MotionLimits DEF MotionInit, Settled
  <1> QED
    BY <1>1, <1>2, <1>3 DEF MotionInit, MotionInv, MotionTypeOK, Noticed

\* A car that was parked long enough has been noticed.
LEMMA MotionSound == MotionInv => MotionTypeOK /\ StillIsStatic
  BY MotionLimits DEF MotionInv, MotionTypeOK, Noticed, StillIsStatic, Settled

-------------------------------------------------------------------------------
(* The GPS receiver's chip: GpsReceiver.                                   *)

\* The speed the chip speaks at, and whether the saved kind leads to it.
RightSpeed == Finding!Speed(finder)
Findable == saved \in {"unknown", finder}
Searching == on /\ internal <= Finding!WaitVersion

\* A receiver that is switched off has no port and is not looked for; aiding begins
\* when the kind is known; what is tried is what is saved, or both speeds.
Tried ==
  /\ finder # "unknown"
  /\ ~on => port = "closed" /\ ~check
  /\ internal > Finding!WaitVersion => saved = finder /\ type = finder
  /\ on => type = saved \/ (type = "unknown" /\ saved = finder)
  /\ Searching /\ type = finder => baud = RightSpeed

\* A kind that is saved wrong is never heard, and nothing else leads to a restart.
Unheard ==
  /\ ~Findable => port # RightSpeed /\ (on => baud # RightSpeed)
  /\ rebooting => ~Findable

\* The rounds of a search that can succeed: two for each fault, one that is heard.
RoundsBounded ==
  Findable /\ Searching =>
    /\ rounds <= 2 * faults + 1
    /\ ~Finding!Audible => rounds <= 2 * faults
    /\ ~Finding!Audible /\ baud = RightSpeed => rounds < 2 * faults

FinderInv == Finding!TypeOK /\ Tried /\ Unheard /\ RoundsBounded

\* The bounds of the receiver.
LEMMA FinderLimits == MaxRounds \in Nat /\ MaxFault \in Nat /\ 2 * MaxFault < MaxRounds
  BY DeviceAssumption DEF DeviceAssumption

\* What the variables of the receiver are, one by one.
LEMMA FinderTypes ==
  Finding!TypeOK <=>
    /\ finder \in {"unknown", "mtk", "td"} /\ saved \in {"unknown", "mtk", "td"}
    /\ type \in {"unknown", "mtk", "td"}
    /\ baud \in {"low", "high"} /\ port \in {"low", "high", "closed"}
    /\ powered \in BOOLEAN /\ starting \in BOOLEAN /\ on \in BOOLEAN /\ check \in BOOLEAN
    /\ rebooting \in BOOLEAN /\ unopened \in BOOLEAN
    /\ internal \in 0 .. 4 /\ rounds \in 0 .. MaxRounds /\ faults \in 0 .. MaxFault
  BY DEF Finding!TypeOK, Finding!Kinds, Finding!Speeds, Finding!Inited, Finding!Working

\* Numbers that are compared in a search.
LEMMA FinderNumbers ==
  ASSUME Finding!TypeOK
  PROVE  rounds \in Nat /\ faults \in Nat /\ internal \in Nat /\ faults <= MaxFault
  BY FinderTypes, FinderLimits

\* The speed of a chip, and the other one.
LEMMA SpeedIs ==
  ASSUME NEW t \in {"mtk", "td"}, NEW s \in {"low", "high"}
  PROVE  /\ Finding!Speed(t) \in {"low", "high"}
         /\ Finding!Other(s) \in {"low", "high"} /\ Finding!Other(s) # s
         /\ s # Finding!Speed(t) => Finding!Other(s) = Finding!Speed(t)
  BY DEF Finding!Speed, Finding!Other

\* Switching on begins a search.
LEMMA PowerOnSearches ==
  ASSUME FinderInv, Finding!PowerOn
  PROVE  FinderInv'
  <1>1. /\ ~on /\ on' = TRUE /\ internal' = 1 /\ check' = TRUE /\ rounds' = 0 /\ type' = saved
        /\ baud' = Finding!Speed(saved) /\ Finding!OpenPort(Finding!Speed(saved))
        /\ powered' = TRUE /\ starting' = TRUE
        /\ finder' = finder /\ saved' = saved /\ rebooting' = rebooting
        /\ unopened' = unopened
    BY DEF Finding!PowerOn, Finding!PowerUp, Finding!WaitVersion
  <1>2. Finding!TypeOK /\ finder \in {"mtk", "td"} /\ port = "closed"
    BY <1>1, FinderTypes DEF FinderInv, Tried
  <1>3. Finding!Speed(saved) \in {"low", "high"}
    BY DEF Finding!Speed
  <1>4. \/ port' = Finding!Speed(saved) /\ faults' = faults
        \/ port' = "closed" /\ faults < MaxFault /\ faults' = faults + 1
    BY <1>1, <1>2 DEF Finding!OpenPort
  <1>5. Finding!TypeOK'
    <2>1. faults' \in 0 .. MaxFault /\ port' \in {"low", "high", "closed"}
      <3>1. faults' \in 0 .. MaxFault
        BY <1>2, <1>4, FinderTypes, FinderLimits
      <3> QED
        BY <1>3, <1>4, <3>1
    <2>2. internal' \in 0 .. 4 /\ rounds' \in 0 .. MaxRounds
      BY <1>1, FinderLimits
    <2> QED
      BY <1>1, <1>2, <1>3, <2>1, <2>2, FinderTypes
         DEF Finding!TypeOK, Finding!Kinds, Finding!Speeds, Finding!Inited, Finding!Working
  <1>6. RightSpeed' = Finding!Speed(finder) /\ (Findable' <=> Findable)
    BY <1>1 DEF RightSpeed, Findable
  <1>7. Tried'
    BY <1>1, <1>2, <1>6 DEF FinderInv, Tried, Searching, Finding!WaitVersion, RightSpeed
  <1>8. ~Findable => Finding!Speed(saved) # Finding!Speed(finder)
    BY <1>2, FinderTypes DEF Findable, Finding!Speed
  <1>9. Unheard'
    <2>1. "closed" # Finding!Speed(finder)
      BY <1>2 DEF Finding!Speed
    <2> QED
      BY <1>1, <1>4, <1>6, <1>8, <2>1 DEF FinderInv, Unheard
  <1>10. RoundsBounded'
    <2>1. /\ faults \in Nat /\ faults' \in Nat
          /\ ~(port' = Finding!Speed(saved)) => 0 < 2 * faults'
      BY <1>2, <1>4, FinderNumbers
    <2>2. baud' = RightSpeed' /\ port' = Finding!Speed(saved) => Finding!Audible'
      BY <1>1, <1>6 DEF Finding!Audible, Finding!Talks, RightSpeed
    <2>0. rounds' = 0
      BY <1>1
    <2>3. 0 <= 2 * faults' + 1 /\ 0 <= 2 * faults'
      <3>1. PICK f \in Nat : f = faults'
        BY <2>1
      <3>2. 0 <= 2 * f + 1 /\ 0 <= 2 * f
        OBVIOUS
      <3> QED
        BY <3>1, <3>2
    <2>4. ~(port' = Finding!Speed(saved)) => 0 < 2 * faults'
      BY <2>1
    <2> QED
      BY <2>0, <2>2, <2>3, <2>4 DEF RoundsBounded
  <1> QED
    BY <1>5, <1>7, <1>9, <1>10 DEF FinderInv

\* A round of the search.
LEMMA CheckReceivedSearches ==
  ASSUME FinderInv, Finding!CheckReceived
  PROVE  FinderInv'
  <1>1. /\ check /\ ~rebooting /\ (internal <= 1 => ~Finding!Audible)
        /\ finder' = finder /\ saved' = saved /\ type' = type /\ on' = on
        /\ internal' = internal
    BY DEF Finding!CheckReceived, Finding!WaitVersion
  <1>2. /\ Finding!TypeOK /\ finder \in {"mtk", "td"} /\ on = TRUE /\ Tried /\ Unheard
        /\ RoundsBounded
    BY <1>1, FinderTypes DEF FinderInv, Tried
  <1>3. /\ rounds \in Nat /\ faults \in Nat /\ internal \in Nat /\ faults <= MaxFault
        /\ RightSpeed \in {"low", "high"}
    BY <1>2, FinderNumbers, SpeedIs, FinderTypes DEF RightSpeed
  <1>4. RightSpeed' = RightSpeed /\ (Findable' <=> Findable) /\ (Searching' <=> Searching)
    BY <1>1 DEF RightSpeed, Findable, Searching
  <1>5. CASE internal > 1
    <2>1. /\ check' = FALSE
          /\ UNCHANGED <<baud, port, powered, starting, rounds, rebooting, unopened, faults>>
      BY <1>5, <1>1 DEF Finding!CheckReceived, Finding!WaitVersion
    <2>2. Finding!TypeOK'
      BY <1>1, <1>2, <2>1 DEF Finding!TypeOK
    <2>3. ~Searching
      BY <1>3, <1>5 DEF Searching, Finding!WaitVersion
    <2>4. Tried'
      BY <1>1, <1>2, <1>4, <2>1 DEF Tried, Finding!WaitVersion
    <2>5. Unheard'
      BY <1>1, <1>2, <1>4, <2>1 DEF Unheard
    <2>6. RoundsBounded'
      BY <1>4, <2>3 DEF RoundsBounded
    <2> QED
      BY <2>2, <2>4, <2>5, <2>6 DEF FinderInv
  <1>6. CASE ~(internal > 1) /\ rounds >= MaxRounds
    <2>1. /\ check' = FALSE /\ rebooting' = TRUE
          /\ UNCHANGED <<baud, port, powered, starting, rounds, unopened, faults>>
      BY <1>6, <1>1 DEF Finding!CheckReceived, Finding!WaitVersion
    <2>2. Searching /\ ~Finding!Audible
      BY <1>1, <1>2, <1>3, <1>6 DEF Searching, Finding!WaitVersion
    <2>3. ~Findable
      <3>1. ~(rounds <= 2 * faults)
        BY <1>3, <1>6, FinderLimits
      <3> QED
        BY <1>2, <2>2, <3>1 DEF RoundsBounded
    <2>4. Finding!TypeOK'
      BY <1>1, <1>2, <2>1 DEF Finding!TypeOK
    <2>5. Tried'
      BY <1>1, <1>2, <1>4, <2>1 DEF Tried, Finding!WaitVersion
    <2>6. Unheard'
      BY <1>1, <1>2, <1>4, <2>1, <2>3 DEF Unheard
    <2>7. RoundsBounded'
      BY <1>4, <2>3 DEF RoundsBounded
    <2> QED
      BY <2>4, <2>5, <2>6, <2>7 DEF FinderInv
  <1>7. CASE ~(internal > 1) /\ ~(rounds >= MaxRounds)
    <2> DEFINE next == Finding!NextSpeed
    <2>1. /\ baud' = next /\ rounds' = rounds + 1 /\ rebooting' = rebooting
          /\ \/ port' = next /\ check' = TRUE /\ powered' = TRUE /\ starting' = TRUE
                /\ faults' = faults /\ unopened' = unopened
             \/ port' = "closed" /\ check' = FALSE /\ powered' = FALSE /\ starting' = FALSE
                /\ faults < MaxFault /\ faults' = faults + 1 /\ unopened' = TRUE
      BY <1>7, <1>1 DEF Finding!CheckReceived, Finding!WaitVersion, Finding!PowerUp,
                         Finding!PowerDown
    <2>2. /\ next \in {"low", "high"}
          /\ type # "unknown" => next = baud
          /\ type = "unknown" => next # baud /\ (baud # RightSpeed => next = RightSpeed)
      BY <1>2, FinderTypes, SpeedIs DEF Finding!NextSpeed, RightSpeed
    <2> HIDE DEF next
    <2>3. Searching /\ ~Finding!Audible
      BY <1>1, <1>2, <1>3, <1>7 DEF Searching, Finding!WaitVersion
    <2>4. Finding!TypeOK'
      <3>1. rounds' \in 0 .. MaxRounds
        BY <1>3, <1>7, <2>1, FinderLimits
      <3>2. faults' \in 0 .. MaxFault
        BY <1>3, <2>1, FinderLimits
      <3>3. /\ baud' \in {"low", "high"} /\ port' \in {"low", "high", "closed"}
            /\ powered' \in BOOLEAN /\ starting' \in BOOLEAN /\ check' \in BOOLEAN
        BY <2>1, <2>2
      <3>4. unopened' \in BOOLEAN
        BY <1>2, <2>1, FinderTypes
      <3> QED
        BY <1>1, <1>2, <2>1, <3>1, <3>2, <3>3, <3>4, FinderTypes
           DEF Finding!TypeOK, Finding!Kinds, Finding!Speeds, Finding!Inited, Finding!Working
    <2>5. Tried'
      <3>1. type = finder => next = baud /\ baud = RightSpeed
        BY <1>2, <2>2, <2>3 DEF Tried
      <3> QED
        BY <1>1, <1>2, <1>4, <2>1, <3>1 DEF Tried, Finding!WaitVersion
    <2>6. Unheard'
      <3>1. ~Findable => type = saved /\ type # "unknown"
        BY <1>2 DEF Tried, Findable
      <3>2. ~Findable => next # RightSpeed
        BY <1>2, <2>2, <3>1 DEF Unheard
      <3>3. "closed" # RightSpeed
        BY <1>3
      <3> QED
        BY <1>1, <1>2, <1>4, <2>1, <3>2, <3>3 DEF Unheard
    <2>7. RoundsBounded'
      <3> SUFFICES ASSUME Findable
                   PROVE  /\ rounds' <= 2 * faults' + 1
                          /\ ~Finding!Audible' => rounds' <= 2 * faults'
                          /\ ~Finding!Audible' /\ baud' = RightSpeed' => rounds' < 2 * faults'
        BY <1>4 DEF RoundsBounded
      <3>1. rounds <= 2 * faults /\ (baud = RightSpeed => rounds < 2 * faults)
        BY <1>2, <2>3 DEF RoundsBounded
      <3>2. next = RightSpeed \/ (baud = RightSpeed /\ next # RightSpeed)
        <4>1. type = "unknown" \/ type = finder
          BY <1>2 DEF Findable, Tried
        <4> QED
          BY <1>2, <2>2, <2>3, <4>1 DEF Tried
      <3>3. faults' \in Nat /\ rounds' = rounds + 1 /\ (faults' = faults \/ faults' = faults + 1)
        BY <1>3, <2>1
      <3>4. CASE faults' = faults + 1
        BY <1>3, <3>1, <3>3, <3>4
      <3>5. CASE faults' = faults
        <4>1. port' = next /\ powered' = TRUE /\ starting' = TRUE
          BY <1>3, <2>1, <3>5
        <4>2. next = RightSpeed => Finding!Audible'
          BY <1>1, <1>2, <1>4, <4>1 DEF Finding!Audible, Finding!Talks, RightSpeed
        <4>3. rounds' <= 2 * faults' + 1
          BY <1>3, <3>1, <3>3, <3>5
        <4>4. baud = RightSpeed => rounds' <= 2 * faults'
          BY <1>3, <3>1, <3>3, <3>5
        <4> QED
          BY <1>4, <2>1, <3>2, <4>2, <4>3, <4>4
      <3> QED
        BY <3>3, <3>4, <3>5
    <2> QED
      BY <2>4, <2>5, <2>6, <2>7 DEF FinderInv
  <1> QED
    BY <1>5, <1>6, <1>7

\* Every other step.
LEMMA FinderGoesOn ==
  ASSUME FinderInv, Finding!Next
  PROVE  FinderInv'
  <1>0. /\ Finding!TypeOK /\ finder \in {"mtk", "td"} /\ Tried /\ Unheard /\ RoundsBounded
        /\ rounds \in Nat /\ faults \in Nat /\ internal \in Nat /\ faults <= MaxFault
        /\ RightSpeed \in {"low", "high"}
    BY FinderTypes, FinderNumbers, SpeedIs DEF FinderInv, Tried, RightSpeed
  <1>1. CASE Finding!PowerOff
    <2>1. /\ on' = FALSE /\ check' = FALSE /\ port' = "closed" /\ unopened' = FALSE
          /\ powered' = FALSE /\ starting' = FALSE
          /\ UNCHANGED <<finder, saved, type, baud, internal, rounds, rebooting, faults>>
      BY <1>1 DEF Finding!PowerOff, Finding!PowerDown
    <2>2. Finding!TypeOK'
      BY <1>0, <2>1 DEF Finding!TypeOK, Finding!Speeds
    <2> QED
      BY <1>0, <2>1, <2>2 DEF FinderInv, Tried, Unheard, RoundsBounded, Searching, Findable,
                              RightSpeed, Finding!WaitVersion
  <1>2. CASE Finding!Restart
    <2>1. /\ rebooting' = FALSE /\ type' = "unknown" /\ baud' = "low" /\ port' = "closed"
          /\ on' = FALSE /\ internal' = 0 /\ check' = FALSE /\ rounds' = 0
          /\ unopened' = FALSE /\ powered' = FALSE /\ starting' = FALSE
          /\ UNCHANGED <<finder, saved, faults>>
      BY <1>2 DEF Finding!Restart, Finding!PowerDown, Finding!Inited
    <2>2. Finding!TypeOK'
      <3>1. 0 \in 0 .. 4 /\ 0 \in 0 .. MaxRounds
        BY FinderLimits
      <3> QED
        BY <1>0, <2>1, <3>1
           DEF Finding!TypeOK, Finding!Speeds, Finding!Kinds, Finding!Inited, Finding!Working
    <2>3. ~(internal' > Finding!WaitVersion)
      BY <2>1 DEF Finding!WaitVersion
    <2> QED
      BY <1>0, <2>1, <2>2, <2>3 DEF FinderInv, Tried, Unheard, RoundsBounded, Searching, Findable,
                              RightSpeed
  <1>3. CASE Finding!Reopen
    <2>1. /\ on /\ type = "mtk" /\ internal > 1
          /\ type' = "unknown" /\ baud' = "low" /\ internal' = 1 /\ check' = TRUE
          /\ rounds' = 0 /\ powered' = TRUE /\ starting' = TRUE
          /\ UNCHANGED <<finder, saved, port, on, rebooting, unopened, faults>>
      BY <1>3 DEF Finding!Reopen, Finding!PowerUp, Finding!WaitVersion
    <2>2. saved = finder /\ finder = "mtk" /\ RightSpeed = "high" /\ RightSpeed' = "high"
      BY <1>0, <2>1 DEF Tried, RightSpeed, Finding!Speed, Finding!WaitVersion
    <2>3. Finding!TypeOK'
      BY <1>0, <2>1, FinderLimits
         DEF Finding!TypeOK, Finding!Speeds, Finding!Kinds, Finding!Inited, Finding!Working
    <2>4. Tried'
      BY <1>0, <2>1, <2>2 DEF Tried, Finding!WaitVersion
    <2>5. Unheard'
      BY <1>0, <2>1, <2>2 DEF Unheard, Findable
    <2>6. RoundsBounded'
      <3>1. rounds' <= 2 * faults' + 1 /\ rounds' <= 2 * faults'
        BY <1>0, <2>1
      <3>2. baud' # RightSpeed'
        BY <2>1, <2>2
      <3> QED
        BY <3>1, <3>2 DEF RoundsBounded
    <2> QED
      BY <2>3, <2>4, <2>5, <2>6 DEF FinderInv
  <1>4. CASE Finding!Hear
    <2>1. /\ Finding!Audible /\ rounds' = 0 /\ starting' = FALSE /\ type' = finder
          /\ saved' = finder
          /\ internal' = (IF internal < 2 THEN 2 ELSE internal)
          /\ UNCHANGED <<finder, baud, port, powered, on, check, rebooting, unopened, faults>>
      BY <1>4 DEF Finding!Hear, Finding!WaitTime
    <2>2. Findable /\ ~rebooting
      BY <1>0, <2>1 DEF Finding!Audible, Finding!Talks, Unheard, RightSpeed
    <2>3. internal' \in 0 .. 4 /\ internal' > 1 /\ ~(internal' <= 1) /\ rounds' \in 0 .. MaxRounds
      <3>1. internal' = (IF internal < 2 THEN 2 ELSE internal) /\ rounds' = 0
        BY <2>1
      <3>2. internal \in 0 .. 4
        BY <1>0, FinderTypes
      <3> QED
        BY <3>1, <3>2, FinderLimits
    <2>4. Finding!TypeOK'
      BY <1>0, <2>1, <2>3
         DEF Finding!TypeOK, Finding!Speeds, Finding!Kinds, Finding!Inited, Finding!Working
    <2>5. ~Searching' /\ Findable'
      BY <2>1, <2>3 DEF Searching, Findable, Finding!WaitVersion
    <2>6. Tried'
      BY <1>0, <2>1, <2>5 DEF Tried
    <2> QED
      BY <2>1, <2>2, <2>4, <2>5, <2>6 DEF FinderInv, Unheard, RoundsBounded
  <1>5. CASE Finding!Acked \/ Finding!Fix
    <2>1. /\ internal > 1 /\ internal' \in 0 .. 4 /\ internal' > 1 /\ ~(internal' <= 1)
          /\ UNCHANGED <<finder, saved, type, baud, port, powered, starting, on, check, rounds,
                         rebooting, unopened, faults>>
      <3>1. /\ internal > 1 /\ internal' \in 3 .. 4
            /\ UNCHANGED <<finder, saved, type, baud, port, powered, starting, on, check, rounds,
                         rebooting, unopened, faults>>
        BY <1>0, <1>5 DEF Finding!Acked, Finding!Fix, Finding!WaitVersion, Finding!WaitTime,
                          Finding!WaitData, Finding!Working
      <3> QED
        BY <3>1
    <2>2. Finding!TypeOK'
      BY <1>0, <2>1
         DEF Finding!TypeOK, Finding!Speeds, Finding!Kinds, Finding!Inited, Finding!Working
    <2>3. ~Searching' /\ saved = finder /\ type = finder
      BY <1>0, <2>1 DEF Searching, Finding!WaitVersion, Tried
    <2>4. Tried'
      BY <1>0, <2>1, <2>3 DEF Tried
    <2>5. Unheard'
      BY <1>0, <2>1 DEF Unheard, Findable, RightSpeed
    <2> QED
      BY <2>2, <2>3, <2>4, <2>5 DEF FinderInv, RoundsBounded
  <1>6. CASE Finding!Lose \/ Finding!UartTimer
    <2>1. /\ faults < MaxFault /\ faults' = faults + 1
          /\ UNCHANGED <<finder, saved, type, baud, powered, on, internal, check, rounds,
                         rebooting>>
          /\ port' = port \/ port' = "closed"
          /\ starting' = FALSE \/ starting' = starting
          /\ unopened' = TRUE \/ unopened' = unopened
      BY <1>6 DEF Finding!Lose, Finding!UartTimer
    <2>2. Finding!TypeOK'
      <3>1. faults' \in 0 .. MaxFault
        BY <1>0, <2>1, FinderLimits
      <3>2. starting' \in BOOLEAN /\ unopened' \in BOOLEAN /\ port' \in {"low", "high", "closed"}
        BY <1>0, <2>1, FinderTypes
      <3> QED
        BY <1>0, <2>1, <3>1, <3>2, FinderTypes
           DEF Finding!TypeOK, Finding!Speeds, Finding!Kinds, Finding!Inited, Finding!Working
    <2>3. /\ RightSpeed' = RightSpeed /\ (Findable' <=> Findable) /\ (Searching' <=> Searching)
          /\ "closed" # RightSpeed
      BY <1>0, <2>1 DEF RightSpeed, Findable, Searching
    <2>4. Tried'
      BY <1>0, <2>1, <2>3 DEF Tried, Finding!WaitVersion
    <2>5. Unheard'
      BY <1>0, <2>1, <2>3 DEF Unheard
    <2>6. RoundsBounded'
      <3>1. Findable /\ Searching => rounds <= 2 * faults + 1
        BY <1>0 DEF RoundsBounded
      <3>2. rounds <= 2 * faults + 1 =>
              rounds' <= 2 * faults' + 1 /\ rounds' <= 2 * faults' /\ rounds' < 2 * faults'
        BY <1>0, <2>1
      <3> QED
        BY <2>3, <3>1, <3>2 DEF RoundsBounded
    <2> QED
      BY <2>2, <2>4, <2>5, <2>6 DEF FinderInv
  <1> QED
    BY <1>1, <1>2, <1>3, <1>4, <1>5, <1>6, PowerOnSearches, CheckReceivedSearches
       DEF Finding!Next

\* A receiver that was never on.
LEMMA FinderBegins == Finding!Init => FinderInv
  <1> SUFFICES ASSUME Finding!Init PROVE FinderInv
    OBVIOUS
  <1>1. /\ finder \in {"mtk", "td"} /\ saved \in {"unknown", "mtk", "td"} /\ type = "unknown"
        /\ baud = "low" /\ port = "closed" /\ powered = FALSE /\ starting = FALSE /\ on = FALSE
        /\ internal = 0 /\ check = FALSE /\ rounds = 0 /\ rebooting = FALSE
        /\ unopened = FALSE /\ faults = 0
    BY DEF Finding!Init, Finding!Kinds, Finding!Inited
  <1>2. Finding!TypeOK
    <2>1. 0 \in 0 .. 4 /\ 0 \in 0 .. MaxRounds /\ 0 \in 0 .. MaxFault
      BY FinderLimits
    <2> QED
      BY <1>1, <2>1, FinderTypes
  <1>3. ~(internal > Finding!WaitVersion) /\ "closed" # RightSpeed
    BY <1>1 DEF Finding!WaitVersion, RightSpeed, Finding!Speed
  <1> QED
    BY <1>1, <1>2, <1>3 DEF FinderInv, Tried, Unheard, RoundsBounded, Searching

\* A restart is ordered over a receiver whose kind is saved wrong, and over no other.
LEMMA FinderSound == FinderInv => Finding!TypeOK /\ Finding!RestartNeeded
  BY DEF FinderInv, Unheard, Findable, Finding!RestartNeeded

-------------------------------------------------------------------------------
(* The filtered state of the fix: GpsFix.                                  *)

\* The record that filters "3D" waits no longer than its holding times.
HeldOK(r) ==
  /\ r \in [state : BOOLEAN, held : Nat]
  /\ r.state => r.held + 1 <= LostHold
  /\ ~r.state => r.held <= FixHold

\* The record tells what the state does, and a position that is some intervals old was
\* missed at half the sentences that are held against it.
FixHeld ==
  /\ satellites \in {"none", "2d", "3d", "diff"}
  /\ HeldOK(fixes)
  /\ fixing => (fixes.state <=> "3d" \in st)
FixYoung ==
  fixing /\ st = Fixing!Fix3D /\ shown =>
    2 * age <= fixes.held + 1 /\ (age > 0 => "3d" \notin flags)
FixInv == Fixing!TypeOK /\ FixHeld /\ FixYoung

\* The bounds of the fix.
LEMMA FixLimits == FixHold \in Nat /\ LostHold \in Nat /\ LostHold > 0 /\ MaxPower \in Nat
  BY DeviceAssumption DEF DeviceAssumption

\* What the variables of the fix are, one by one.
LEMMA FixTypes ==
  Fixing!TypeOK <=>
    /\ flags \subseteq Fixing!Flags /\ st \subseteq Fixing!Flags /\ fixes.state \in BOOLEAN
    /\ fixes.held \in 0 .. FixHold + LostHold /\ age \in 0 .. LostHold + 1
    /\ since \subseteq {"boot", "ip"}
    /\ fixing \in BOOLEAN /\ lbs \in BOOLEAN /\ pending \in BOOLEAN /\ scan \in BOOLEAN
    /\ shown \in BOOLEAN /\ powers \in 0 .. MaxPower
  BY DEF Fixing!TypeOK, Fixing!Oldest

\* A fix is filtered: what is told of "3D" is dropped, taken, or held.
LEMMA FilteredIs ==
  ASSUME NEW f \in SUBSET Fixing!Flags, NEW b \in BOOLEAN, NEW h \in Nat
  PROVE  LET r == [state |-> b, held |-> h] IN
         /\ b = TRUE /\ "3d" \in f =>
              ~Fixing!Changes(f, r) /\ Fixing!Filtered(f, r) = [state |-> TRUE, held |-> 0]
         /\ b = FALSE /\ "3d" \notin f =>
              ~Fixing!Changes(f, r) /\ Fixing!Filtered(f, r) = [state |-> FALSE, held |-> 0]
         /\ b = TRUE /\ "3d" \notin f =>
              \/ /\ h + 1 >= LostHold /\ Fixing!Changes(f, r)
                 /\ Fixing!Filtered(f, r) = [state |-> FALSE, held |-> 0]
              \/ /\ ~(h + 1 >= LostHold) /\ ~Fixing!Changes(f, r)
                 /\ Fixing!Filtered(f, r) = [state |-> TRUE, held |-> h + 1]
         /\ b = FALSE /\ "3d" \in f =>
              \/ /\ h + 1 >= FixHold /\ Fixing!Changes(f, r)
                 /\ Fixing!Filtered(f, r) = [state |-> TRUE, held |-> 0]
              \/ /\ ~(h + 1 >= FixHold) /\ ~Fixing!Changes(f, r)
                 /\ Fixing!Filtered(f, r) = [state |-> FALSE, held |-> h + 1]
  <1> DEFINE r == [state |-> b, held |-> h]
  <1>1. r.state = b /\ r.held = h
    OBVIOUS
  <1>2. /\ [r EXCEPT !.held = 0] = [state |-> b, held |-> 0]
        /\ [r EXCEPT !.held = r.held + 1] = [state |-> b, held |-> h + 1]
    OBVIOUS
  <1>3. Fixing!Changes(f, r) <=>
          ("3d" \in f) # r.state /\ h + 1 >= (IF "3d" \in f THEN FixHold ELSE LostHold)
    BY <1>1 DEF Fixing!Changes
  <1>4. Fixing!Filtered(f, r) =
          (IF ("3d" \in f) = r.state THEN [r EXCEPT !.held = 0]
           ELSE IF Fixing!Changes(f, r) THEN [state |-> ~r.state, held |-> 0]
           ELSE [r EXCEPT !.held = r.held + 1])
    BY DEF Fixing!Filtered
  <1> HIDE DEF r
  <1>5. CASE b = TRUE /\ "3d" \in f
    <2>1. ~Fixing!Changes(f, r)
      BY <1>1, <1>3, <1>5
    <2>2. Fixing!Filtered(f, r) = [state |-> TRUE, held |-> 0]
      BY <1>1, <1>2, <1>4, <1>5
    <2> QED
      BY <1>5, <2>1, <2>2 DEF r
  <1>6. CASE b = TRUE /\ "3d" \notin f
    <2>1. Fixing!Changes(f, r) <=> h + 1 >= LostHold
      BY <1>1, <1>3, <1>6
    <2>2. Fixing!Filtered(f, r) = IF Fixing!Changes(f, r) THEN [state |-> FALSE, held |-> 0]
                                  ELSE [state |-> TRUE, held |-> h + 1]
      BY <1>1, <1>2, <1>4, <1>6
    <2> QED
      BY <1>6, <2>1, <2>2 DEF r
  <1>7. CASE b = FALSE /\ "3d" \in f
    <2>1. Fixing!Changes(f, r) <=> h + 1 >= FixHold
      BY <1>1, <1>3, <1>7
    <2>2. Fixing!Filtered(f, r) = IF Fixing!Changes(f, r) THEN [state |-> TRUE, held |-> 0]
                                  ELSE [state |-> FALSE, held |-> h + 1]
      BY <1>1, <1>2, <1>4, <1>7
    <2> QED
      BY <1>7, <2>1, <2>2 DEF r
  <1>8. CASE b = FALSE /\ "3d" \notin f
    <2>1. ~Fixing!Changes(f, r)
      BY <1>1, <1>3, <1>8
    <2>2. ("3d" \in f) = r.state
      BY <1>1, <1>8
    <2>3. Fixing!Filtered(f, r) = [r EXCEPT !.held = 0]
      BY <1>4, <2>2
    <2>4. Fixing!Filtered(f, r) = [state |-> FALSE, held |-> 0]
      BY <1>2, <1>8, <2>3
    <2> QED
      BY <1>8, <2>1, <2>4 DEF r
  <1> QED
    BY <1>5, <1>6, <1>7, <1>8

\* One check of the state: it follows the record, and what is held of a lost fix grows
\* until the state is given up.
LEMMA CheckedIs ==
  ASSUME NEW f \in SUBSET Fixing!Flags, NEW g \in SUBSET Fixing!Flags,
         NEW s \in SUBSET Fixing!Flags, NEW r, HeldOK(r)
  PROVE  LET c == Fixing!Checked([flags |-> g, rec |-> r, st |-> s], f) IN
         /\ c = [flags |-> f, rec |-> c.rec, st |-> c.st]
         /\ HeldOK(c.rec) /\ c.st \in SUBSET Fixing!Flags
         /\ (r.state <=> "3d" \in s) => (c.rec.state <=> "3d" \in c.st)
         /\ r.state /\ "3d" \notin f =>
              \/ c.rec.state /\ c.st = s /\ c.rec.held = r.held + 1
              \/ ~c.rec.state /\ c.st = f
         /\ ~r.state /\ "3d" \notin f => ~c.rec.state /\ c.st = s
  <1> DEFINE c == Fixing!Checked([flags |-> g, rec |-> r, st |-> s], f)
  <1>1. /\ c.flags = f /\ c.rec = Fixing!Filtered(f, r)
        /\ c.st = (IF Fixing!Changes(f, r) THEN f ELSE s)
        /\ c = [flags |-> f, rec |-> c.rec, st |-> c.st]
    BY DEF Fixing!Checked, Fixing!NewState
  <1> HIDE DEF c
  <1>2. PICK b \in BOOLEAN, h \in Nat : r = [state |-> b, held |-> h]
    BY DEF HeldOK
  <1>3. /\ r.state = b /\ r.held = h
        /\ (b => h + 1 <= LostHold) /\ (~b => h <= FixHold)
    BY <1>2 DEF HeldOK
  <1> DEFINE w == Fixing!Filtered(f, r)
             z == Fixing!Changes(f, r)
  <1>4. /\ c.rec = w /\ c.st = (IF z THEN f ELSE s)
        /\ b = TRUE /\ "3d" \in f => ~z /\ w = [state |-> TRUE, held |-> 0]
        /\ b = FALSE /\ "3d" \notin f => ~z /\ w = [state |-> FALSE, held |-> 0]
        /\ b = TRUE /\ "3d" \notin f =>
             \/ h + 1 >= LostHold /\ z /\ w = [state |-> FALSE, held |-> 0]
             \/ ~(h + 1 >= LostHold) /\ ~z /\ w = [state |-> TRUE, held |-> h + 1]
        /\ b = FALSE /\ "3d" \in f =>
             \/ h + 1 >= FixHold /\ z /\ w = [state |-> TRUE, held |-> 0]
             \/ ~(h + 1 >= FixHold) /\ ~z /\ w = [state |-> FALSE, held |-> h + 1]
    BY <1>1, <1>2, FilteredIs
  <1> HIDE DEF w, z
  <1>5. c.st \in SUBSET Fixing!Flags
    BY <1>1
  <1>6. HeldOK([state |-> TRUE, held |-> 0]) /\ HeldOK([state |-> FALSE, held |-> 0])
    BY FixLimits DEF HeldOK
  <1>7. CASE b = TRUE /\ "3d" \in f
    <2>1. c.rec = [state |-> TRUE, held |-> 0] /\ c.st = s
      BY <1>4, <1>7
    <2> QED
      BY <1>1, <1>3, <1>5, <1>6, <1>7, <2>1 DEF c
  <1>8. CASE b = FALSE /\ "3d" \notin f
    <2>1. c.rec = [state |-> FALSE, held |-> 0] /\ c.st = s
      BY <1>4, <1>8
    <2> QED
      BY <1>1, <1>3, <1>5, <1>6, <1>8, <2>1 DEF c
  <1>9. CASE b = TRUE /\ "3d" \notin f
    <2>1. CASE h + 1 >= LostHold
      <3>1. c.rec = [state |-> FALSE, held |-> 0] /\ c.st = f
        BY <1>4, <1>9, <2>1
      <3> QED
        BY <1>1, <1>3, <1>5, <1>6, <1>9, <3>1 DEF c
    <2>2. CASE ~(h + 1 >= LostHold)
      <3>1. c.rec = [state |-> TRUE, held |-> h + 1] /\ c.st = s
        BY <1>4, <1>9, <2>2
      <3>2. h + 1 + 1 <= LostHold
        BY <2>2, FixLimits
      <3>3. HeldOK(c.rec)
        BY <3>1, <3>2 DEF HeldOK
      <3>4. c.rec.state = TRUE /\ c.rec.held = h + 1
        BY <3>1
      <3> QED
        BY <1>1, <1>3, <1>5, <1>9, <3>1, <3>3, <3>4 DEF c
    <2> QED
      BY <2>1, <2>2
  <1>10. CASE b = FALSE /\ "3d" \in f
    <2>1. CASE h + 1 >= FixHold
      <3>1. c.rec = [state |-> TRUE, held |-> 0] /\ c.st = f
        BY <1>4, <1>10, <2>1
      <3> QED
        BY <1>1, <1>3, <1>5, <1>6, <1>10, <3>1 DEF c
    <2>2. CASE ~(h + 1 >= FixHold)
      <3>1. c.rec = [state |-> FALSE, held |-> h + 1] /\ c.st = s
        BY <1>4, <1>10, <2>2
      <3>2. h + 1 <= FixHold
        BY <2>2, FixLimits
      <3>3. HeldOK(c.rec)
        BY <3>1, <3>2 DEF HeldOK
      <3>4. c.rec.state = FALSE /\ c.rec.held = h + 1
        BY <3>1
      <3> QED
        BY <1>1, <1>3, <1>5, <1>10, <3>1, <3>3, <3>4 DEF c
    <2> QED
      BY <2>1, <2>2
  <1> QED
    BY <1>7, <1>8, <1>9, <1>10

\* What the sentences of an interval make of the flags.
LEMMA AfterIs ==
  ASSUME NEW f \in SUBSET Fixing!Flags
  PROVE  /\ Fixing!AfterGga(f) \in SUBSET Fixing!Flags
         /\ Fixing!AfterDimension(f) \in SUBSET Fixing!Flags
         /\ satellites = "none" => Fixing!AfterDimension(f) = {}
         /\ satellites = "none" => Fixing!AfterGga(f) \in {f, {}}
  BY DEF Fixing!AfterGga, Fixing!AfterDimension, Fixing!Set, Fixing!Flags

\* The sentences of an interval: two checks.
LEMMA SecondYoung ==
  ASSUME FixInv, Fixing!Second
  PROVE  FixInv'
  <1> DEFINE fa == Fixing!AfterGga(flags)
             a == Fixing!Checked([flags |-> flags, rec |-> fixes, st |-> st], fa)
             fb == Fixing!AfterDimension(fa)
             b == Fixing!Batch
             queued == b.st = Fixing!Fix3D /\ satellites # "none"
  <1>1. /\ fixing /\ Fixing!TypeOK /\ FixHeld /\ FixYoung
        /\ flags \in SUBSET Fixing!Flags /\ st \in SUBSET Fixing!Flags
        /\ age \in Nat /\ age <= LostHold + 1 /\ HeldOK(fixes)
        /\ (fixes.state <=> "3d" \in st)
    BY FixTypes, FixLimits DEF FixInv, FixHeld, Fixing!Second
  <1>2. /\ flags' = b.flags /\ fixes' = b.rec /\ st' = b.st
        /\ age' = (IF queued THEN 0 ELSE IF age < Fixing!Oldest THEN age + 1 ELSE age)
        /\ since' = (IF queued THEN since \cup Fixing!Mode ELSE since)
        /\ shown' = (queued \/ (shown /\ b.st = st))
        /\ UNCHANGED <<nmea, satellites, fixing, lbs, pending, scan, powers>>
    BY DEF Fixing!Second
  <1>3. /\ fa \in SUBSET Fixing!Flags /\ fb \in SUBSET Fixing!Flags
        /\ satellites = "none" => fb = {} /\ fa \in {flags, {}}
    BY <1>1, AfterIs
  <1>4. /\ a = [flags |-> fa, rec |-> a.rec, st |-> a.st]
        /\ HeldOK(a.rec) /\ a.st \in SUBSET Fixing!Flags
        /\ (a.rec.state <=> "3d" \in a.st)
        /\ fixes.state /\ "3d" \notin fa =>
             \/ a.rec.state /\ a.st = st /\ a.rec.held = fixes.held + 1
             \/ ~a.rec.state /\ a.st = fa
    <2> HIDE DEF fa
    <2> QED
      BY <1>1, <1>3, CheckedIs
  <1>5. b = Fixing!Checked([flags |-> fa, rec |-> a.rec, st |-> a.st], fb)
    <2>1. b = Fixing!Checked(a, Fixing!AfterDimension(a.flags))
      BY DEF Fixing!Batch
    <2>2. a.flags = fa
      BY <1>4
    <2> HIDE DEF a, fa, b
    <2> QED
      BY <1>4, <2>1, <2>2
  <1> HIDE DEF a, fa, fb, b
  <1>6. /\ b.flags = fb /\ HeldOK(b.rec) /\ b.st \in SUBSET Fixing!Flags
        /\ (b.rec.state <=> "3d" \in b.st)
        /\ a.rec.state /\ "3d" \notin fb =>
             \/ b.rec.state /\ b.st = a.st /\ b.rec.held = a.rec.held + 1
             \/ ~b.rec.state /\ b.st = fb
        /\ ~a.rec.state /\ "3d" \notin fb => ~b.rec.state /\ b.st = a.st
    <2>1. b = [flags |-> fb, rec |-> b.rec, st |-> b.st] => b.flags = fb
      OBVIOUS
    <2> QED
      BY <1>3, <1>4, <1>5, <2>1, CheckedIs
  <1>7. /\ fixes.held \in Nat /\ a.rec.held \in Nat /\ b.rec.held \in Nat
        /\ b.rec.held <= FixHold + LostHold /\ b.rec.state \in BOOLEAN
    <2>1. /\ b.rec.state \in BOOLEAN /\ b.rec.held \in Nat
          /\ b.rec.held + 1 <= LostHold \/ b.rec.held <= FixHold
      BY <1>6 DEF HeldOK
    <2>2. fixes.held \in Nat /\ a.rec.held \in Nat
      BY <1>1, <1>4 DEF HeldOK
    <2> HIDE DEF HeldOK
    <2> QED
      BY <2>1, <2>2, FixLimits
  <1>8. queued \in BOOLEAN
    OBVIOUS
  <1> HIDE DEF queued
  <1>9. /\ age' \in Nat /\ age' <= LostHold + 1 /\ (queued => age' = 0) /\ age' <= age + 1
    BY <1>1, <1>2, FixLimits DEF Fixing!Oldest
  <1>10. Fixing!TypeOK'
    <2>1. since' \subseteq {"boot", "ip"}
      BY <1>1, <1>2, FixTypes DEF Fixing!Mode
    <2>2. shown' \in BOOLEAN
      BY <1>1, <1>2, <1>8, FixTypes
    <2>3. age' \in 0 .. LostHold + 1
      BY <1>9, FixLimits
    <2>4. fixes'.held \in 0 .. FixHold + LostHold
      BY <1>2, <1>7
    <2> QED
      BY <1>1, <1>2, <1>3, <1>6, <1>7, <2>1, <2>2, <2>3, <2>4
         DEF Fixing!TypeOK, Fixing!Oldest
  <1>11. FixHeld'
    BY <1>1, <1>2, <1>6 DEF FixHeld, HeldOK
  <1>12. FixYoung'
    <2> SUFFICES ASSUME st' = Fixing!Fix3D, shown'
                 PROVE  2 * age' <= fixes'.held + 1 /\ (age' > 0 => "3d" \notin flags')
      BY DEF FixYoung
    <2>1. CASE queued
      <3>1. age' = 0 /\ b.rec.held \in Nat
        BY <1>7, <1>9, <2>1
      <3>2. 0 <= b.rec.held + 1 /\ ~(0 > 0) /\ 2 * 0 = 0
        BY <3>1
      <3> QED
        BY <1>2, <3>1, <3>2
    <2>2. CASE ~queued
      <3>1. /\ satellites = "none" /\ shown /\ st = Fixing!Fix3D
            /\ "3d" \in st /\ fb = {} /\ b.st = Fixing!Fix3D
        BY <1>2, <1>3, <2>2 DEF queued, Fixing!Fix3D
      <3>2. b.rec.state /\ b.st = a.st /\ b.rec.held = a.rec.held + 1 /\ a.rec.state
        <4>1. "3d" \notin fb /\ "3d" \in b.st
          BY <3>1 DEF Fixing!Fix3D
        <4> QED
          BY <1>6, <4>1
      <3>3. fixes.state
        BY <1>1, <3>1
      <3>4. 2 * age <= fixes.held + 1 /\ (age > 0 => "3d" \notin flags)
        BY <1>1, <3>1 DEF FixYoung
      <3>5. 2 * age' <= b.rec.held + 1
        <4>1. CASE age > 0
          <5>1. "3d" \notin fa
            BY <1>3, <3>1, <3>4, <4>1
          <5>2. a.rec.held = fixes.held + 1
            BY <1>4, <3>2, <3>3, <5>1
          <5> QED
            BY <1>1, <1>7, <1>9, <3>2, <3>4, <5>2
        <4>2. CASE ~(age > 0)
          <5>1. age' <= 1 /\ b.rec.held >= 1
            BY <1>1, <1>7, <1>9, <3>2, <4>2
          <5> QED
            BY <1>7, <1>9, <5>1
        <4> QED
          BY <4>1, <4>2
      <3> QED
        BY <1>2, <1>6, <3>1, <3>5
    <2> QED
      BY <2>1, <2>2
  <1> QED
    BY <1>10, <1>11, <1>12 DEF FixInv

\* Every other step.
LEMMA FixGoesOn ==
  ASSUME FixInv, Fixing!Next
  PROVE  FixInv'
  <1>0. Fixing!TypeOK /\ FixHeld /\ FixYoung
    BY DEF FixInv
  <1>1. CASE Fixing!CheckState
    BY <1>0, <1>1 DEF Fixing!CheckState, FixInv, Fixing!TypeOK, FixHeld, FixYoung
  <1>2. CASE Fixing!ScanDone
    BY <1>0, <1>2 DEF Fixing!ScanDone, FixInv, Fixing!TypeOK, FixHeld, FixYoung
  <1>3. CASE Fixing!Power
    <2>1. /\ powers < MaxPower /\ powers' = powers + 1
          /\ fixing' = ~fixing /\ st' = {} /\ shown' = FALSE /\ pending' = fixing'
          /\ UNCHANGED <<nmea, satellites, age, since, lbs, scan>>
          /\ \/ fixing /\ flags' = flags /\ fixes' = fixes
             \/ ~fixing /\ flags' = {} /\ fixes' = [state |-> FALSE, held |-> 0]
      BY <1>3 DEF Fixing!Power
    <2>2. HeldOK(fixes') /\ flags' \subseteq Fixing!Flags
      <3>1. HeldOK([state |-> FALSE, held |-> 0])
        BY FixLimits DEF HeldOK
      <3>2. HeldOK(fixes) /\ flags \subseteq Fixing!Flags
        BY <1>0, FixTypes DEF FixHeld
      <3> QED
        BY <2>1, <3>1, <3>2
    <2>3. Fixing!TypeOK'
      <3>1. powers' \in 0 .. MaxPower
        BY <1>0, <2>1, FixTypes, FixLimits
      <3>2. fixes'.state \in BOOLEAN /\ fixes'.held \in 0 .. FixHold + LostHold
        <4>1. CASE fixes' = fixes
          BY <1>0, <4>1, FixTypes
        <4>2. CASE fixes' = [state |-> FALSE, held |-> 0]
          BY <4>2, FixLimits
        <4> QED
          BY <2>1, <4>1, <4>2
      <3>3. fixing' \in BOOLEAN /\ pending' \in BOOLEAN /\ shown' \in BOOLEAN
        <4>1. fixing' = ~fixing /\ pending' = fixing' /\ shown' = FALSE
          BY <2>1
        <4> QED
          BY ONLY <4>1
      <3> QED
        BY <1>0, <2>1, <2>2, <3>1, <3>2, <3>3, FixTypes DEF Fixing!TypeOK, Fixing!Oldest
    <2>4. FixHeld'
      <3>1. fixing' => ~fixes'.state
        <4>1. [state |-> FALSE, held |-> 0].state = FALSE
          OBVIOUS
        <4> QED
          BY <2>1, <4>1
      <3> QED
        BY <1>0, <2>1, <2>2, <3>1 DEF FixHeld, HeldOK
    <2>5. FixYoung'
      BY <2>1 DEF FixYoung
    <2> QED
      BY <2>3, <2>4, <2>5 DEF FixInv
  <1>4. CASE Fixing!NewServer
    <2>1. powers' \in 0 .. MaxPower /\ since' \subseteq {"boot", "ip"}
      BY <1>0, <1>4, FixTypes, FixLimits DEF Fixing!NewServer
    <2> QED
      BY <1>0, <1>4, <2>1 DEF Fixing!NewServer, FixInv, Fixing!TypeOK, FixHeld, FixYoung
  <1>5. CASE Fixing!Sky
    <2>1. satellites' \in {"none", "2d", "3d", "diff"}
      BY <1>5 DEF Fixing!Sky
    <2> QED
      BY <1>0, <1>5, <2>1 DEF Fixing!Sky, FixInv, Fixing!TypeOK, FixHeld, FixYoung
  <1> QED
    BY <1>1, <1>2, <1>3, <1>4, <1>5, SecondYoung DEF Fixing!Next

\* A receiver that was never on has no fix.
LEMMA FixBegins == Fixing!Init => FixInv
  <1> SUFFICES ASSUME Fixing!Init PROVE FixInv
    OBVIOUS
  <1>1. fixes = [state |-> FALSE, held |-> 0] /\ HeldOK(fixes)
    BY FixLimits DEF Fixing!Init, HeldOK
  <1>2. fixes.state \in BOOLEAN /\ fixes.held \in 0 .. FixHold + LostHold
    BY <1>1, FixLimits
  <1>3. age \in 0 .. LostHold + 1 /\ powers \in 0 .. MaxPower
    BY FixLimits DEF Fixing!Init, Fixing!Oldest
  <1> QED
    BY <1>1, <1>2, <1>3, FixTypes DEF Fixing!Init, FixInv, FixHeld, FixYoung

\* A position that was reported is young while the state says "3D".
LEMMA FixSound == FixInv => Fixing!TypeOK /\ Fixing!SpeedFresh
  <1> SUFFICES ASSUME FixInv, fixing, st = Fixing!Fix3D, shown
               PROVE  2 * age <= LostHold
    BY DEF FixInv, Fixing!SpeedFresh
  <1>1. 2 * age <= fixes.held + 1 /\ fixes.held + 1 <= LostHold
    BY DEF FixInv, FixYoung, FixHeld, HeldOK, Fixing!Fix3D
  <1>2. age \in Nat /\ fixes.held \in Nat
    BY FixTypes, FixLimits DEF FixInv
  <1> QED
    BY <1>1, <1>2, FixLimits

-------------------------------------------------------------------------------
(* The parts together: Device.                                             *)

DeviceInv ==
  /\ part \in Parts
  /\ part = "power" => PowerInv
  /\ part = "defence" => ArmingInv
  /\ part = "motion" => MotionInv
  /\ part = "receiver" => FinderInv
  /\ part = "fix" => FixInv
  /\ part = "serial" => SerialInv

\* The parts begin with their invariants.
LEMMA DeviceBegins == DeviceInit => DeviceInv
  BY PowerBegins, ArmingBegins, MotionBegins, FinderBegins, FixBegins, SerialBegins
     DEF DeviceInit, DeviceInv

\* The part that moves keeps its own, and the others stay.
LEMMA DeviceMoves == DeviceInv /\ DeviceNext => DeviceInv'
  <1> SUFFICES ASSUME DeviceInv, DeviceNext PROVE DeviceInv'
    OBVIOUS
  <1>1. part' = part /\ part \in Parts
    BY DEF DeviceInv, DeviceNext, OthersStay
  <1>2. CASE part = "power" /\ PowerNext
    BY <1>1, <1>2, PowerGoesOn DEF DeviceInv
  <1>3. CASE part = "defence" /\ Arming!Next
    BY <1>1, <1>3, ArmingGoesOn DEF DeviceInv
  <1>4. CASE part = "motion" /\ MotionNext
    BY <1>1, <1>4, MotionGoesOn DEF DeviceInv
  <1>5. CASE part = "receiver" /\ Finding!Next
    BY <1>1, <1>5, FinderGoesOn DEF DeviceInv
  <1>6. CASE part = "fix" /\ Fixing!Next
    BY <1>1, <1>6, FixGoesOn DEF DeviceInv
  <1>7. CASE part = "serial" /\ Reading!Next
    BY <1>1, <1>7, SerialGoesOn DEF DeviceInv
  <1> QED
    BY <1>2, <1>3, <1>4, <1>5, <1>6, <1>7 DEF DeviceNext

\* The invariants speak of nothing but the variables.
LEMMA PowerStays == PowerInv /\ UNCHANGED powerVars => PowerInv'
  BY DEF PowerInv, PowerTypeOK, AlarmsAgree, powerVars
\* What the invariant of the arming says is about its variables alone.
LEMMA ArmingStays == ArmingInv /\ UNCHANGED defenceVars => ArmingInv'
  BY DEF ArmingInv, Arming!TypeOK, Arming!DrivingDisarmed, defenceVars
\* The same for the motion sensor.
LEMMA MotionStays == MotionInv /\ UNCHANGED motionVars => MotionInv'
  BY DEF MotionInv, MotionTypeOK, Noticed, motionVars
\* The same for the receiver.
LEMMA FinderStays == FinderInv /\ UNCHANGED receiverVars => FinderInv'
  <1> SUFFICES ASSUME FinderInv, UNCHANGED receiverVars PROVE FinderInv'
    OBVIOUS
  <1>1. UNCHANGED << finder, saved, type, baud, port, powered, starting, on, internal, check,
                     rounds, rebooting, unopened, faults >>
    BY DEF receiverVars
  <1>2. Finding!TypeOK'
    BY <1>1 DEF FinderInv, Finding!TypeOK
  <1>3. /\ RightSpeed' = RightSpeed /\ (Findable' <=> Findable)
        /\ (Searching' <=> Searching) /\ (Finding!Audible' <=> Finding!Audible)
    <2>1. RightSpeed' = RightSpeed /\ (Findable' <=> Findable) /\ (Searching' <=> Searching)
      BY <1>1 DEF RightSpeed, Finding!Speed, Findable, Searching
    <2>2. Finding!Audible' <=> Finding!Audible
      BY <1>1 DEF Finding!Audible, Finding!Talks, Finding!Speed
    <2> QED
      BY <2>1, <2>2
  <1>4. Tried' /\ Unheard'
    BY <1>1, <1>3 DEF FinderInv, Tried, Unheard
  <1>5. RoundsBounded'
    BY <1>1, <1>3 DEF FinderInv, RoundsBounded
  <1> QED
    BY <1>2, <1>4, <1>5 DEF FinderInv
\* The same for the fix.
LEMMA FixStays == FixInv /\ UNCHANGED fixVars => FixInv'
  BY DEF FixInv, Fixing!TypeOK, FixHeld, FixYoung, HeldOK, fixVars

\* A step that changes nothing keeps them.
LEMMA DeviceStays == DeviceInv /\ UNCHANGED deviceVars => DeviceInv'
  <1> SUFFICES ASSUME DeviceInv, UNCHANGED deviceVars PROVE DeviceInv'
    OBVIOUS
  <1>1. /\ part' = part
        /\ UNCHANGED << powerVars, defenceVars, motionVars, receiverVars, fixVars, serialVars >>
    BY DEF deviceVars
  <1> QED
    BY <1>1, PowerStays, ArmingStays, MotionStays, FinderStays, FixStays, SerialGoesOn
       DEF DeviceInv

\* What senses the car keeps the invariant, whatever the constants are.
THEOREM DeviceInvariant == DeviceSpec => []DeviceInv
  <1>1. DeviceInv /\ [DeviceNext]_deviceVars => DeviceInv'
    BY DeviceMoves, DeviceStays
  <1> QED
    BY DeviceBegins, <1>1, PTL DEF DeviceSpec

\* Every variable of every part keeps to its values: the filters of the alarms and of the
\* fix to their hold times, the clocks to their limits, the receiver's rounds to ten minutes
\* of them, the queue of the port to its length.
THEOREM DeviceTypes == DeviceSpec => []DeviceTypeOK
  <1>1. DeviceInv => DeviceTypeOK
    BY MotionSound, FinderSound, FixSound, SerialSound
       DEF DeviceInv, DeviceTypeOK, PowerInv, ArmingInv
  <1> QED
    BY DeviceInvariant, <1>1, PTL

\* The status bits of the power alarms say what the filters of the voltage say, restarts
\* included, and no car that drives is armed (hard_ware.c, power_alarm_check).
THEOREM SensorsAlwaysAgree == DeviceSpec => []SensorsAgree
  <1>1. DeviceInv => SensorsAgree
    BY DEF DeviceInv, SensorsAgree, PowerInv, ArmingInv
  <1> QED
    BY DeviceInvariant, <1>1, PTL

\* A parked car is known to stand, a "3D" that was reached by a position is young, the device
\* restarts over a silent receiver only if its kind is saved wrong, and no line the receiver
\* says is lost without a cause, however reads cut it (g_sensor.c, gps.c, uart.c).
THEOREM MovementIsKnown == DeviceSpec => []MovementKnown
  <1>1. DeviceInv => MovementKnown
    BY MotionSound, FinderSound, FixSound, SerialSound DEF DeviceInv, MovementKnown
  <1> QED
    BY DeviceInvariant, <1>1, PTL
================================================================================
