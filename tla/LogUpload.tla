------------------------------- MODULE LogUpload -------------------------------
(***************************************************************************)
(* The upload of the logs, src/src/log_service.c: logs wait in a queue of  *)
(* pointers to memory and go out, at most one a second, over a datagram    *)
(* socket of the service's own, in the order they came.  A log leaves the  *)
(* queue when the socket has taken it; that the server has it nobody says. *)
(***************************************************************************)
EXTENDS Naturals, Sequences, FiniteSets

CONSTANTS
  MaxRepeat, \* MAX_CONNECT_REPEAT
  Room,      \* logs the queue holds
  MaxLog,    \* logs a behaviour explores
  MaxDown    \* times the bearer is lost

VARIABLES
  status, fails, \* of the log socket
  up,       \* the bearer is up: gprs_is_ok
  queue,    \* s_log_data_fifo: logs by their number
  memory,   \* the logs that memory is held for
  next,     \* logs that were made
  sent,     \* what the socket took, in order
  refused,  \* history: logs that found no room
  downs

vars == <<status, fails, up, queue, memory, next, sent, refused, downs>>

Init ==
  /\ status = "init" /\ fails = 0 /\ up = TRUE /\ queue = <<>> /\ memory = {}
  /\ next = 0 /\ sent = <<>> /\ refused = {} /\ downs = 0

\* log_service_transfer_status: allowed changes reset the count.
Moved(to) == status' = to /\ fails' = 0

--------------------------------------------------------------------------------

\* Mutant: the memory of a log that finds no room is not freed.
KeptAlways(n) == memory \cup {n}

\* log_service_upload, log_data_insert_one: a log that finds no room is freed.
Kept(n) == IF Len(queue) < Room THEN memory \cup {n} ELSE memory
Upload ==
  /\ next < MaxLog /\ next' = next + 1
  /\ queue' = (IF Len(queue) < Room THEN Append(queue, next') ELSE queue)
  /\ memory' = Kept(next')
  /\ refused' = (IF Len(queue) < Room THEN refused ELSE refused \cup {next'})
  /\ UNCHANGED <<status, fails, up, sent, downs>>

\* log_service_init_proc: the datagram socket connects at once or not at all.
InitProc ==
  /\ up /\ status = "init"
  /\ \E to \in {"connecting", "work"} : Moved(to)
  /\ UNCHANGED <<up, queue, memory, next, sent, refused, downs>>

\* log_service_connecting_proc, log_service_connection_failed.
ConnectingProc ==
  /\ up /\ status = "connecting"
  /\ IF fails + 1 >= MaxRepeat THEN \E to \in {"finish", "init"} : Moved(to)
     ELSE \/ fails' = fails + 1 /\ UNCHANGED status
          \/ Moved("work")
  /\ UNCHANGED <<up, queue, memory, next, sent, refused, downs>>

\* Mutant: the log leaves the queue before the socket has taken it.
PopsEarly(taken) == TRUE

\* log_service_send_msg, from log_service_work_proc: peek, send, and only then pop.
\* A log that is too long is dropped; a socket that refuses is closed.
Pops(taken) == taken
Send(taken) ==
  /\ up /\ status = "work" /\ queue # <<>>
  /\ IF Pops(taken)
     THEN queue' = Tail(queue) /\ memory' = memory \ {Head(queue)}
     ELSE UNCHANGED <<queue, memory>>
  /\ IF taken THEN sent' = Append(sent, Head(queue)) /\ UNCHANGED <<status, fails>>
     ELSE Moved("finish") /\ UNCHANGED sent
  /\ UNCHANGED <<up, next, refused, downs>>
WorkProc == \E taken \in BOOLEAN : Send(taken)

\* log_service_data_finish_proc, after LOG_PING_TIME; from ERROR too.
FinishProc ==
  /\ up /\ status \in {"finish", "error"} /\ Moved("init")
  /\ UNCHANGED <<up, queue, memory, next, sent, refused, downs>>

\* log_service_close_for_reconnect.
SocketError ==
  /\ up /\ status \in {"connecting", "work"} /\ downs < MaxDown /\ downs' = downs + 1
  /\ Moved("finish")
  /\ UNCHANGED <<up, queue, memory, next, sent, refused>>

\* log_service_destroy, when the bearer goes; the queue stays.
Down ==
  /\ up /\ downs < MaxDown /\ downs' = downs + 1 /\ up' = FALSE
  /\ Moved("error")
  /\ UNCHANGED <<queue, memory, next, sent, refused>>
Up == ~up /\ up' = TRUE /\ UNCHANGED <<status, fails, queue, memory, next, sent, refused, downs>>

Next ==
  \/ Upload \/ InitProc \/ ConnectingProc \/ WorkProc \/ FinishProc \/ SocketError
  \/ Down \/ Up

Spec == Init /\ [][Next]_vars
\* The timer goes on, the bearer comes back, sockets connect and send in the end.
Fairness ==
  /\ WF_vars(Up) /\ WF_vars(ConnectingProc) /\ WF_vars(FinishProc) /\ WF_vars(InitProc)
  /\ SF_vars(InitProc /\ status' = "work") /\ SF_vars(Send(TRUE))
FairSpec == Spec /\ Fairness

--------------------------------------------------------------------------------

TypeOK ==
  /\ status \in {"init", "connecting", "work", "finish", "error"}
  /\ fails \in 0 .. MaxRepeat - 1 /\ up \in BOOLEAN
  /\ Len(queue) <= Room /\ next \in 0 .. MaxLog /\ downs \in 0 .. MaxDown

\* Each log is in one place: waiting with its memory, or taken by the socket, once
\* and in order; one that found no room holds nothing, and no other is missing.
EachOnce ==
  LET all == sent \o queue
  IN /\ memory = {queue[i] : i \in DOMAIN queue}
     /\ \A i, j \in DOMAIN all : i < j => all[i] < all[j]
     /\ {all[i] : i \in DOMAIN all} = 1 .. next \ refused

\* The logs that are kept go out in the end, and no memory stays taken.
Drains == memory # {} ~> memory = {}
================================================================================
