-------------------------------- MODULE Receive --------------------------------
(***************************************************************************)
(* How the main connection logs in and finds the messages in what the      *)
(* platform sends: gps_service.c, protocol.c and the receiving side of     *)
(* socket.c and of the three protocols.  Bytes are tokens: a JT808 frame   *)
(* is its flag, its body in two parts and its flag; a message of the other *)
(* two is its head and what follows the seven bytes the code looks at,     *)
(* where "end" is the short tail of an answer and "text" that of a longer  *)
(* request.                                                                *)
(* The queue of received bytes outlives a connection, and so does the time *)
(* of the last incomplete message.                                         *)
(***************************************************************************)
EXTENDS Naturals, Sequences, FiniteSetsExt

CONSTANTS
  Protocols, \* subset of {"goome", "concox", "jt808"}: what devices speak
  FifoMax,   \* tokens the queue holds: SIZE_OF_SOCK_FIFO
  Patience,  \* lost connections until gprs_check_need_reboot
  MaxBad,    \* connections lost, answers late and logins refused, together
  MaxSpeak   \* requests of the platform

VARIABLES
  proto,       \* config_service_get_app_protocol
  link,        \* "finish", "login", "work": status of s_gps_socket
  registered,  \* CFG_JT_ISREGISTERED
  fifo, wire,  \* received; on its way
  part,        \* packet_error_start: "none", "fresh", or "old", past its 3 seconds
  lost,        \* connections since the last login: heart_receive_time's age
  handed,      \* last thing done with the queue: "none", "skip",
               \* "whole", "torn" or "empty" (two flags and nothing between)
  bad, spoken

net == <<link, registered, fifo, wire, part>>
vars == <<proto, net, lost, handed, bad, spoken>>

Flag == "7e"
Answers == {"accepted", "registered", "refused"}
Kinds == Answers \cup {"request"}
\* A message as it is sent.
Message(kind) ==
  IF proto = "jt808" THEN <<Flag, kind, "end", Flag>>
  ELSE <<kind, IF kind = "request" THEN "text" ELSE "end">>

Init ==
  /\ proto \in Protocols /\ link = "finish" /\ registered = FALSE
  /\ fifo = <<>> /\ wire = <<>> /\ part = "none" /\ lost = 0 /\ handed = "none"
  /\ bad = 0 /\ spoken = 0

\* gps_service_close: the queue of received bytes stays as it is.
Emptied == <<>>
Closed == link' = "finish" /\ wire' = <<>>
\* fifo_reset and gm_socket_close_for_reconnect.
Dropped == Closed /\ fifo' = Emptied

\* protocol_send_login_msg and what the platform answers.
Asks(known, before) ==
  \E a \in IF proto = "jt808" /\ ~known THEN {"registered"}
           ELSE {"accepted"} \cup (IF proto = "jt808" THEN {"refused"} ELSE {}) :
    /\ a = "refused" => bad < MaxBad
    /\ bad' = IF a = "refused" THEN bad + 1 ELSE bad
    /\ wire' = before \o Message(a)

--------------------------------------------------------------------------------

\* gps_service_data_finish_proc up to gps_service_connection_ok.
Connect ==
  /\ link = "finish" /\ lost < Patience
  /\ link' = "login" /\ lost' = lost + 1 /\ handed' = "none"
  /\ Asks(registered, <<>>)
  /\ UNCHANGED <<proto, registered, fifo, part, spoken>>

\* Mutant: no reboot after a long time without a connection.
WaitsForEver(n) == FALSE

\* gprs_check_need_reboot in gps_service_data_finish_proc: memory starts anew.
Waited(n) == n >= Patience
Reboot ==
  /\ link = "finish" /\ Waited(lost)
  /\ lost' = 0 /\ fifo' = <<>> /\ part' = "none" /\ handed' = "none"
  /\ UNCHANGED <<proto, link, registered, wire, bad, spoken>>

\* gm_socket_recv: all there is, in one piece or more; what does not fit resets.
Deliver ==
  /\ link # "finish" /\ wire # <<>>
  /\ \E n \in 1 .. Len(wire) :
       IF Len(fifo) + n > FifoMax THEN Dropped
       ELSE /\ fifo' = fifo \o SubSeq(wire, 1, n)
            /\ wire' = SubSeq(wire, n + 1, Len(wire)) /\ UNCHANGED link
  /\ UNCHANGED <<proto, registered, part, lost, handed, bad, spoken>>

\* The platform, a gateway or the radio ends the connection.
Break ==
  /\ link # "finish" /\ bad < MaxBad /\ bad' = bad + 1 /\ Closed
  /\ UNCHANGED <<proto, registered, fifo, part, lost, handed, spoken>>

ServerSpeaks ==
  /\ link = "work" /\ spoken < MaxSpeak /\ spoken' = spoken + 1
  /\ wire' = wire \o Message("request")
  /\ UNCHANGED <<proto, link, registered, fifo, part, lost, handed, bad>>

\* Three seconds pass since packet_error_start; bytes that are later are counted.
Age ==
  /\ part = "fresh" /\ part' = "old"
  /\ IF wire = <<>> THEN UNCHANGED bad ELSE bad < MaxBad /\ bad' = bad + 1
  /\ UNCHANGED <<proto, link, registered, fifo, wire, lost, handed, spoken>>

--------------------------------------------------------------------------------

\* The parsers act: gps_service_after_login_response, after_register_response and
\* protocol_jt_parse_plat_ack; rest is what stays in the queue.
Acts(kind, rest) ==
  /\ fifo' = rest /\ handed' = "whole" /\ UNCHANGED part
  /\ CASE kind = "accepted" /\ link = "login" ->
            /\ link' = "work" /\ lost' = 0 /\ UNCHANGED <<registered, wire, bad>>
       [] kind = "registered" ->
            /\ registered' = TRUE /\ UNCHANGED <<link, lost>>
            /\ IF link = "login" THEN Asks(TRUE, wire) ELSE UNCHANGED <<wire, bad>>
       [] kind = "refused" ->
            registered' = FALSE /\ UNCHANGED <<link, lost, wire, bad>>
       [] OTHER -> UNCHANGED <<link, registered, lost, wire, bad>>

\* fifo_pop_len and a parser that refuses, or protocol_msg_skiped_wrong.
Skips(rest, what) ==
  fifo' = rest /\ handed' = what /\ UNCHANGED <<link, registered, wire, part, lost, bad>>
\* The message is not complete.
Waits ==
  /\ UNCHANGED <<registered, lost, bad, handed>>
  /\ IF part = "old" THEN Dropped /\ part' = "none"
     ELSE part' = (IF part = "none" THEN "fresh" ELSE part) /\ UNCHANGED <<link, fifo, wire>>
Stays == UNCHANGED <<net, lost, handed, bad>>

After(i) == SubSeq(fifo, i + 1, Len(fifo))
Ends == {i \in 2 .. Len(fifo) : fifo[i] = Flag}

\* protocol_msg_skiped_wrong: all before the next flag goes.
Realigns == Skips(IF Ends = {} THEN <<>> ELSE After(Min(Ends) - 1), "skip")

\* get_jt808_message takes flag to flag, for the parser.
TakesFrame ==
  LET end == Min(Ends)
  IN IF end = 4 /\ fifo[2] \in Kinds THEN Acts(fifo[2], After(4))
     ELSE Skips(After(end), IF end = 2 THEN "empty" ELSE "torn")

\* protocol_msg_receive, PROTOCOL_JT808: protocol_msg_skiped_wrong looks at seven
\* bytes, which only a body fills.
JtReceive ==
  IF \A i \in DOMAIN fifo : fifo[i] = Flag THEN Stays
  ELSE IF fifo[1] # Flag THEN Realigns
  ELSE IF Ends = {} THEN Stays ELSE TakesFrame

\* PROTOCOL_GOOME: whatever is first gives the length.
GoomeReceive ==
  CASE fifo = <<>> -> Stays
    [] fifo # <<>> /\ fifo[1] \in Kinds ->
         IF Len(fifo) < 2 THEN Waits ELSE Acts(fifo[1], After(2))
    [] fifo # <<>> /\ fifo[1] = "text" ->
         \/ Waits
         \/ \E n \in 1 .. 2 : n <= Len(fifo) /\ Skips(After(n), "torn")
    [] OTHER -> IF Len(fifo) < 2 THEN Stays ELSE Waits

\* PROTOCOL_CONCOX: a wrong head is reported and left where it is.
ConcoxReceive ==
  IF fifo = <<>> \/ fifo[1] \notin Kinds THEN Stays
  ELSE IF Len(fifo) < 2 THEN Waits ELSE Acts(fifo[1], After(2))

Receive ==
  CASE proto = "jt808" -> JtReceive
    [] proto = "goome" -> GoomeReceive
    [] OTHER -> ConcoxReceive

\* gps_service_work_proc, and gps_service_login_proc before its timeout.
Tick == link # "finish" /\ Receive /\ UNCHANGED <<proto, spoken>>

\* gps_service_login_proc after MESSAGE_TIME_OUT: GPS_LOGIN_MSG_FAIL_MAX is one.
\* The ten seconds are many ticks; answers that are later than that are counted.
NothingComes ==
  /\ wire = <<>>
  /\ CASE proto = "jt808" -> fifo = <<>> \/ (fifo[1] = Flag /\ Ends = {})
                             \/ \A i \in DOMAIN fifo : fifo[i] = Flag
       [] proto = "goome" -> fifo \in {<<>>, <<"end">>}
       [] OTHER -> fifo = <<>> \/ fifo[1] \notin Kinds
LoginTimeout ==
  /\ link = "login" /\ Closed
  /\ IF NothingComes THEN UNCHANGED bad ELSE bad < MaxBad /\ bad' = bad + 1
  /\ UNCHANGED <<proto, registered, fifo, part, lost, handed, spoken>>

Next ==
  \/ Connect \/ Reboot \/ Deliver \/ Break \/ ServerSpeaks \/ Age \/ Tick \/ LoginTimeout

Spec == Init /\ [][Next]_vars
\* The timers run, and what was sent arrives before the next second is over.
Fairness ==
  /\ WF_vars(Connect) /\ WF_vars(Reboot) /\ WF_vars(Deliver) /\ WF_vars(Age)
  /\ WF_vars(Tick) /\ WF_vars(LoginTimeout /\ NothingComes)
FairSpec == Spec /\ Fairness

--------------------------------------------------------------------------------

TypeOK ==
  /\ proto \in Protocols /\ link \in {"finish", "login", "work"} /\ registered \in BOOLEAN
  /\ Len(fifo) <= FifoMax /\ part \in {"none", "fresh", "old"} /\ lost \in 0 .. Patience
  /\ handed \in {"none", "skip", "whole", "torn", "empty"} /\ bad \in 0 .. MaxBad

\* A device that is not logged in gets there, whatever the broken connections left in
\* the queue of received bytes (gps_service.c:592, protocol.c:159, protocol.c:224).
LoginCompletes == (link # "work") ~> (link = "work")

\* What protocol.c:56 says of a skip: the wrong bytes are passed over and the next
\* loop reads the head of a message.  When a frame that a broken connection left
\* unfinished is completed by the flag that starts the next one, what follows is a body
\* without a start: the skip stops at the flag that ends it, and that flag and the start
\* of the next frame are taken for a frame with nothing in it.
HeadAfterSkip == [][handed = "skip" => handed' # "empty"]_vars
================================================================================
