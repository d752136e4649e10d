---------------------------------- MODULE Sms ----------------------------------
(***************************************************************************)
(* Outgoing text messages, src/src/sms.c: a queue whose head is handed to  *)
(* the modem when a message joins the queue and 300 ms after each report   *)
(* of the modem.  The report does not say which message it is about, and   *)
(* the head may be handed over again while it is on its way.  A report     *)
(* always holds a result: what send_sms_callback does without one is to    *)
(* return and start no timer, and the queue would wait for the next        *)
(* sms_send.  Whether the SDK gives such a report the code does not tell.  *)
(***************************************************************************)
EXTENDS Naturals, Sequences, FiniteSets, Bags

CONSTANTS
  QueueLen, \* messages the queue holds: GM_SMS_QUEUE_LEN less the cell fifo.c keeps
  MaxTimes, \* failures until a message is dropped: 3
  MaxMsg,   \* messages a behaviour explores
  MaxFail   \* failures of the modem in a row that are followed by a success

VARIABLES
  message_queue, \* messages by their number
  send_error_times,
  flights,       \* bag of the messages the modem has and will report on
  timer,         \* GM_TIMER_SMS_SEND is set
  made,          \* messages so far
  sent, dropped, \* messages that went out; that were popped by a failure
  popped,        \* that were popped by a success
  fails          \* failures since the last success

vars == <<message_queue, send_error_times, flights, timer, made, sent, dropped, popped, fails>>

Init ==
  /\ message_queue = <<>> /\ send_error_times = 0 /\ flights = EmptyBag
  /\ timer = FALSE /\ made = 0 /\ sent = {} /\ dropped = {} /\ popped = {} /\ fails = 0

\* send_sms_real: the head of the queue, if there is one, goes to the modem.
Started(q) == IF q = <<>> THEN EmptyBag ELSE SetToBag({Head(q)})
Front(q) == IF q = <<>> THEN {} ELSE {Head(q)}
Rest(q) == IF q = <<>> THEN <<>> ELSE Tail(q)

\* sms_send, from the answers to commands and from the protocols: it starts the head
\* of the queue, which need not be the message that joined it.
SmsSend ==
  /\ made < MaxMsg /\ made' = made + 1
  /\ IF Len(message_queue) < QueueLen
     THEN /\ message_queue' = Append(message_queue, made')
          /\ flights' = flights (+) Started(message_queue')
     ELSE UNCHANGED <<message_queue, flights>>
  /\ UNCHANGED <<send_error_times, timer, sent, dropped, popped, fails>>

\* Mutant: the timer of the next message is not started.
StartsUnset == FALSE

\* The end of send_sms_callback starts the timer, whatever the result was.
StartsTimer == TRUE

\* send_sms_callback: whatever was sent, it is the head that leaves the queue, after a
\* success or the third failure.
ReportSent(m) ==
  /\ BagIn(m, flights)
  /\ flights' = flights (-) SetToBag({m}) /\ sent' = sent \cup {m} /\ fails' = 0
  /\ send_error_times' = 0 /\ message_queue' = Rest(message_queue)
  /\ popped' = popped \cup Front(message_queue)
  /\ timer' = StartsTimer
  /\ UNCHANGED <<made, dropped>>
ReportFailed(m) ==
  /\ BagIn(m, flights) /\ fails < MaxFail /\ fails' = fails + 1
  /\ flights' = flights (-) SetToBag({m})
  /\ IF send_error_times + 1 >= MaxTimes
     THEN /\ send_error_times' = 0 /\ message_queue' = Rest(message_queue)
          /\ dropped' = dropped \cup Front(message_queue)
     ELSE send_error_times' = send_error_times + 1 /\ UNCHANGED <<message_queue, dropped>>
  /\ timer' = StartsTimer
  /\ UNCHANGED <<made, sent, popped>>
Report == \E m \in BagToSet(flights) : ReportSent(m) \/ ReportFailed(m)

\* The timer: send_sms_real.
Timer ==
  /\ timer /\ timer' = FALSE
  /\ flights' = flights (+) Started(message_queue)
  /\ UNCHANGED <<message_queue, send_error_times, made, sent, dropped, popped, fails>>

Next == SmsSend \/ Report \/ Timer
Spec == Init /\ [][Next]_vars
\* The modem reports on what it has, and the timer fires.
FairSpec == Spec /\ WF_vars(Report) /\ WF_vars(Timer)

--------------------------------------------------------------------------------

TypeOK ==
  /\ message_queue \in Seq(1 .. MaxMsg) /\ Len(message_queue) <= QueueLen
  /\ send_error_times \in 0 .. MaxTimes - 1 /\ IsABag(flights) /\ timer \in BOOLEAN

\* A message that waits is never left: the modem has one, or the timer will fire
\* (sms.c:119, the only place that goes on with the queue).
NeverStuck == message_queue # <<>> => timer \/ flights # EmptyBag

\* Every message that joined the queue leaves it.
QueueDrains == (Len(message_queue) > 0) ~> (Len(message_queue) = 0)

\* sms.c:108 "sent successfully, removed from the queue": what a success removes went
\* out.
PoppedWasSent == popped \subseteq sent
================================================================================
