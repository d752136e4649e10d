--------------------------------- MODULE Serial ---------------------------------
(***************************************************************************)
(* What the GPS chip says, from its port to the sentences gps.c is handed: *)
(* gps_port_on_receive of src/src/uart.c, fifo_peek_until of fifo.c and    *)
(* the check of nmea_protocol.c.  The chip says lines of text, binary      *)
(* packets and noise without a line's end; a read takes any part of it.    *)
(* Bytes are taken in pieces that hold at least the six bytes the handler  *)
(* looks at first: a line is a text and its end, a packet a head, which    *)
(* tells its length, and a body.                                           *)
(***************************************************************************)
EXTENDS Naturals, Sequences, SequencesExt

CONSTANTS
  BufMax,   \* pieces a read or a line takes: GM_UART_RCV_BUFF_LEN
  FifoMax,  \* pieces rcv_fifo takes: GM_UART_RCV_FIFO_LEN
  MaxFrame, \* lines, packets and noises a behaviour explores
  MaxClose  \* times the port is closed

VARIABLES
  air,      \* pieces the chip has said and the port has not read
  rcv_fifo,
  frames,   \* history: the kind of each frame said
  accepted, \* history: frames gps.c was handed whole
  spoilt,   \* history: frames lost otherwise: cut packets, full queue, closed port
  closes

vars == <<air, rcv_fifo, frames, accepted, spoilt, closes>>

Pieces(n, kind) ==
  CASE kind = "line" -> <<[of |-> n, is |-> "text"], [of |-> n, is |-> "end"]>>
    [] kind = "packet" -> <<[of |-> n, is |-> "head"], [of |-> n, is |-> "body"]>>
    [] kind = "noise" -> <<[of |-> n, is |-> "noise"]>>
Kinds == {"line", "packet", "noise"}
Piece == [of : 1..MaxFrame, is : {"text", "end", "head", "body", "noise"}]
Of(pieces) == {pieces[i].of : i \in DOMAIN pieces}

TypeOK ==
  /\ air \in Seq(Piece) /\ Len(air) <= BufMax + 1
  /\ rcv_fifo \in Seq(Piece) /\ Len(rcv_fifo) <= FifoMax
  /\ frames \in Seq(Kinds) /\ Len(frames) <= MaxFrame
  /\ accepted \in Seq(1..MaxFrame) /\ spoilt \subseteq 1..MaxFrame
  /\ closes \in 0..MaxClose

Init ==
  /\ air = <<>> /\ rcv_fifo = <<>> /\ frames = <<>>
  /\ accepted = <<>> /\ spoilt = {} /\ closes = 0

\* The chip (external) says something.
Say ==
  /\ Len(frames) < MaxFrame /\ Len(air) < BufMax
  /\ \E kind \in Kinds :
       /\ frames' = Append(frames, kind)
       /\ air' = air \o Pieces(Len(frames'), kind)
  /\ UNCHANGED <<rcv_fifo, accepted, spoilt, closes>>

\* fifo_peek_until: how far the first line's end is, if a line can be that long.
Ends(q) == {i \in DOMAIN q : i <= BufMax /\ q[i].is = "end"}
LineLen(q) == CHOOSE i \in Ends(q) : \A j \in Ends(q) : i <= j

\* nmea_sentence_id with nmea_check: a sentence is one frame, whole; the check is taken
\* to refuse every other text.
IsWhole(s) == Len(s) = 2 /\ s[1].of = s[2].of /\ s[1].is \in {"text", "head"}

\* Mutant: what may be a line cut short is thrown away.
NothingLeft(q) == <<>>

\* What is no whole line yet stays in the queue.
Unfinished(q) == q

\* The first n pieces are handed over; x is what one read has come to: the queue, the
\* frames that were accepted, the packets that were cut.
Handed(x, n) ==
  [x EXCEPT !.left = SubSeq(@, n + 1, Len(@)),
            !.out = IF IsWhole(SubSeq(x.left, 1, n)) THEN Append(@, x.left[1].of) ELSE @]

\* One pass of the loop of gps_port_on_receive: a packet of the length in its head, or
\* a line, is taken out. A packet that is not all there empties the queue.
Pass(x) ==
  IF x.left = <<>> THEN x
  ELSE IF x.left[1].is = "head"
    THEN IF Len(x.left) < 2 THEN [x EXCEPT !.left = <<>>, !.cut = {x.left[1].of}]
                            ELSE Handed(x, 2)
  ELSE IF Ends(x.left) = {} THEN [x EXCEPT !.left = Unfinished(@)]
  ELSE Handed(x, LineLen(x.left))

\* The loop: each pass takes a piece at least, or is the last.
Sentences(q) ==
  LET after[n \in 0 .. Len(q)] ==
        IF n = 0 THEN [left |-> q, out |-> <<>>, cut |-> {}] ELSE Pass(after[n - 1])
  IN after[Len(q)]

\* One read: what does not fit into the queue is dropped, and the loop runs.
OnReceive ==
  \E n \in 1..BufMax :
    /\ n <= Len(air) /\ air' = SubSeq(air, n + 1, Len(air))
    /\ LET read == SubSeq(air, 1, n)
           fits == Len(rcv_fifo) + n <= FifoMax
           done == Sentences(IF fits THEN rcv_fifo \o read ELSE rcv_fifo)
       IN /\ rcv_fifo' = done.left
          /\ accepted' = accepted \o done.out
          /\ spoilt' = spoilt \cup done.cut \cup (IF fits THEN {} ELSE Of(read))
    /\ UNCHANGED <<frames, closes>>

\* uart_close_port, when the receiver is switched off or says nothing: what the port
\* and the queue hold is lost.
ClosePort ==
  /\ closes < MaxClose /\ closes' = closes + 1
  /\ air' = <<>> /\ rcv_fifo' = <<>>
  /\ spoilt' = spoilt \cup Of(air) \cup Of(rcv_fifo)
  /\ UNCHANGED <<frames, accepted>>

Next == Say \/ OnReceive \/ ClosePort
Spec == Init /\ [][Next]_vars

--------------------------------------------------------------------------------

\* What gps.c accepts is said once and in order, however reads cut it. A line that is
\* not accepted comes behind a packet that was cut by a read (uart.c:373), a noise, or
\* what was dropped, with nothing between but packets; none of these costs a second
\* line. A line stays in the queue only behind so much noise that its end is not looked
\* for (fifo.c:379).
Spoils(n) == n \in spoilt \/ frames[n] = "noise"
LinesKept ==
  /\ \A i, j \in DOMAIN accepted : i < j => accepted[i] < accepted[j]
  /\ \A n \in DOMAIN frames :
       (frames[n] = "line" /\ n \notin Of(air)) =>
         \/ n \in ToSet(accepted)
         \/ n \in Of(rcv_fifo) /\ Ends(rcv_fifo) = {}
         \/ n \in spoilt
         \/ \E m \in 1 .. n - 1 :
              Spoils(m) /\ \A k \in m + 1 .. n - 1 : frames[k] = "packet"
================================================================================
