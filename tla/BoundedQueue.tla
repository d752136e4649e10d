--------------------------- MODULE BoundedQueue ---------------------------
(***************************************************************************)
(* What the users of fifo.c and circular_queue.c rely on: values leave in  *)
(* the order in which they came, and never more than Bound are waiting.    *)
(* Put is refused whole when it does not fit (fifo_insert); Push makes     *)
(* room by forgetting the oldest value (circular_queue_en_queue).          *)
(***************************************************************************)
EXTENDS Integers, Sequences

CONSTANTS Value,        \* what is stored: bytes, or numbers
          Bound,        \* how many may wait
          MaxBlock      \* the longest block of one Put

VARIABLES contents,     \* the values waiting, the oldest first
          call          \* the last operation: a loss is not a Take

vars == << contents, call >>

Init == contents = << >> /\ call = "clear"

Put == \E n \in 0 .. MaxBlock : \E block \in [1 .. n -> Value] :
         /\ Len(contents) + n <= Bound
         /\ contents' = contents \o block
         /\ call' = "put"

Push == \E v \in Value :
          /\ \/ /\ Len(contents) < Bound
                /\ contents' = Append(contents, v)
             \/ /\ Len(contents) = Bound
                /\ contents' = Append(Tail(contents), v)
          /\ call' = "push"

Take == \E n \in 0 .. Len(contents) :
          /\ contents' = SubSeq(contents, n + 1, Len(contents))
          /\ call' = "take"

Clear == contents' = << >> /\ call' = "clear"

(* A queue that refuses, and one that forgets. *)
RefusingSpec   == Init /\ [][Put \/ Take \/ Clear]_vars
ForgettingSpec == Init /\ [][Push \/ Take \/ Clear]_vars
===========================================================================
