------------------------------- MODULE Rings -------------------------------
(***************************************************************************)
(* The two ring buffers under everything else.                             *)
(*                                                                         *)
(* fifo.c keeps bytes: a block is inserted whole or refused, read with a   *)
(* peek and dropped with a pop; it is behind the sockets, the serial       *)
(* ports, the text messages and the log.  circular_queue.c keeps the last  *)
(* few readings: a new value overwrites the oldest; it is behind the GPS   *)
(* positions, the voltages and the motion samples.  Both tell full from    *)
(* empty by leaving one cell unused.                                       *)
(*                                                                         *)
(* Each is shown to implement BoundedQueue.                                *)
(***************************************************************************)
EXTENDS Integers, Sequences

CONSTANTS Value,        \* the values stored
          Unset,        \* a cell no value was written to
          FifoSize,         \* cells of the fifo
          Capacity,     \* values the circular queue was created for
          MaxBlock      \* MAX_FIFO_MSG_LEN: the longest block

ASSUME RingsAssumption ==
  /\ FifoSize \in Nat \ {0}
  /\ Capacity \in Nat \ {0}
  /\ MaxBlock \in Nat
  /\ Unset \notin Value

VARIABLES fifo,         \* base_addr, read_idx, write_idx
          queue,        \* buf, head, tail
          call          \* the last operation on each

ringVars == << fifo, queue, call >>

Cells == 0 .. FifoSize - 1
Slots == 0 .. Capacity        \* "one more cell is allocated, one stays empty"

Wrap(i, n) == IF i >= n THEN i - n ELSE i

---------------------------------------------------------------------------
(* fifo.c *)

(* fifo_get_msg_length: the difference of the indices, modulo the size. *)
Used == LET d == fifo.write_idx - fifo.read_idx
        IN  IF d < 0 THEN d + FifoSize ELSE d

(* fifo_insert's left_size: from 1 when full to FifoSize when empty. *)
Left == LET d == fifo.read_idx - fifo.write_idx
        IN  IF d <= 0 THEN d + FifoSize ELSE d

NoBytes == [base_addr |-> [i \in Cells |-> Unset],
            read_idx  |-> 0,
            write_idx |-> 0]

(* Mutant: the last cell is filled too. *)
HasRoomFull(len) == Left >= len

(* A block that filled the last cell would make the fifo look empty. *)
HasRoom(len) == Left > len

(* fifo_insert: nothing when the block would fill the last cell, else one *)
(* copy up to the end of the memory and one from its start.               *)
FifoInsert(block) ==
  LET len   == Len(block)
      At(i) == Wrap(i + FifoSize - fifo.write_idx, FifoSize)
  IN  /\ HasRoom(len)
      /\ fifo' = [fifo EXCEPT
           !.base_addr = [i \in Cells |-> IF At(i) < len
                                            THEN block[At(i) + 1]
                                            ELSE fifo.base_addr[i]],
           !.write_idx = Wrap(fifo.write_idx + len, FifoSize)]
      /\ call' = [call EXCEPT !.fifo = "put"]
      /\ UNCHANGED queue

(* fifo_pop_len: refused when fewer bytes are waiting. *)
FifoPop(len) ==
  /\ Used >= len
  /\ fifo' = [fifo EXCEPT !.read_idx = Wrap(fifo.read_idx + len, FifoSize)]
  /\ call' = [call EXCEPT !.fifo = "take"]
  /\ UNCHANGED queue

(* fifo_reset, and fifo_delete followed by fifo_init. *)
FifoReset ==
  /\ fifo' = NoBytes
  /\ call' = [call EXCEPT !.fifo = "clear"]
  /\ UNCHANGED queue

(* fifo_peek: the oldest bytes. *)
Waiting == [k \in 1 .. Used |->
              fifo.base_addr[Wrap(fifo.read_idx + k - 1, FifoSize)]]

---------------------------------------------------------------------------
(* circular_queue.c *)

IsEmpty == queue.head = queue.tail
IsFull  == queue.head = Wrap(queue.tail + 1, Capacity + 1)

(* circular_queue_get_len *)
QueueLen == LET d == queue.tail + Capacity + 1 - queue.head
            IN  Wrap(d, Capacity + 1)

NoValues == [buf  |-> [i \in Slots |-> Unset],
             head |-> 0,
             tail |-> 0]

(* circular_queue_en_queue: the head is overwritten when it is full. *)
EnQueue(v) ==
  /\ queue' = [buf  |-> [queue.buf EXCEPT ![queue.tail] = v],
               head |-> IF IsFull THEN Wrap(queue.head + 1, Capacity + 1)
                                  ELSE queue.head,
               tail |-> Wrap(queue.tail + 1, Capacity + 1)]
  /\ call' = [call EXCEPT !.queue = "push"]
  /\ UNCHANGED fifo

(* circular_queue_de_queue *)
DeQueue ==
  /\ ~IsEmpty
  /\ queue' = [queue EXCEPT !.head = Wrap(queue.head + 1, Capacity + 1)]
  /\ call' = [call EXCEPT !.queue = "take"]
  /\ UNCHANGED fifo

(* circular_queue_empty: the cells keep their values. *)
QueueEmpty ==
  /\ queue' = [queue EXCEPT !.head = 0, !.tail = 0]
  /\ call' = [call EXCEPT !.queue = "clear"]
  /\ UNCHANGED fifo

(* circular_queue_get_head and _de_queue read from the head on. *)
Remembered == [k \in 1 .. QueueLen |->
           queue.buf[Wrap(queue.head + k - 1, Capacity + 1)]]

(* circular_queue_get_by_index: 0 is the newest. *)
ByIndex(k) ==
  queue.buf[Wrap(Wrap(queue.tail - 1 - k + 2 * (Capacity + 1),
                      Capacity + 1), Capacity + 1)]

---------------------------------------------------------------------------
RingsInit ==
  /\ fifo = NoBytes
  /\ queue = NoValues
  /\ call = [fifo |-> "clear", queue |-> "clear"]

RingsNext ==
  \/ \E n \in 0 .. MaxBlock : \E block \in [1 .. n -> Value] : FifoInsert(block)
  \/ \E n \in 0 .. FifoSize : FifoPop(n)
  \/ FifoReset
  \/ \E v \in Value : EnQueue(v)
  \/ DeQueue
  \/ QueueEmpty

RingsSpec == RingsInit /\ [][RingsNext]_ringVars

---------------------------------------------------------------------------
(* The indices stay inside the memory. *)
RingsTypeOK ==
  /\ fifo \in [base_addr : [Cells -> Value \cup {Unset}],
               read_idx  : Cells,
               write_idx : Cells]
  /\ queue \in [buf  : [Slots -> Value \cup {Unset}],
                head : Slots,
                tail : Slots]
  /\ call \in [fifo  : {"clear", "put", "take"},
               queue : {"clear", "push", "take"}]

Bytes  == INSTANCE BoundedQueue
            WITH contents <- Waiting, Bound <- FifoSize - 1, call <- call.fifo
Values == INSTANCE BoundedQueue
            WITH contents <- Remembered, Bound <- Capacity, call <- call.queue

(* Both rings are queues: bytes leave in the order they came and none is   *)
(* lost or made up where the memory wraps, a block goes in whole or not at *)
(* all; the circular queue holds the last Capacity values.                 *)
RingsAreQueues == Bytes!RefusingSpec /\ Values!ForgettingSpec

(* The readers that count from the newest value (the smoothing of speed,   *)
(* voltage and acceleration) see the values that were put in, in reverse   *)
(* order, and never a cell nothing was written to.                         *)
NewestFirst ==
  \A k \in 0 .. QueueLen - 1 :
     /\ ByIndex(k) = Remembered[QueueLen - k]
     /\ ByIndex(k) \in Value
===========================================================================
