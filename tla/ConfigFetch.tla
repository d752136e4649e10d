------------------------------ MODULE ConfigFetch ------------------------------
(***************************************************************************)
(* The fetching of the configuration, src/src/config_service.c: twice a    *)
(* day the service asks over a datagram socket, applies and saves what the *)
(* server answers, confirms it and closes.  Requests and answers are lost, *)
(* doubled, delayed and damaged; an answer says neither its age nor the    *)
(* request it belongs to, and the buffer of received bytes outlives the    *)
(* socket.  The bearer, whose loss ends the service, is GprsLink's; what   *)
(* the settings are and how they are kept is ConfigStore's.                *)
(*                                                                         *)
(* The service's own variables are one record, s; a handler takes it from  *)
(* one to the next.                                                        *)
(***************************************************************************)
EXTENDS Naturals, Sequences

CONSTANTS
  MaxRepeat,  \* MAX_CONNECT_REPEAT
  FifoMax,    \* answers the receive buffer holds
  MaxVersion, \* changes at the server
  MaxFault,   \* requests and answers lost, doubled or damaged
  MaxBoot     \* restarts

VARIABLES
  s,      \* the service, see Idle
  asked,  \* requests on their way
  net,    \* answers on their way: a set of versions
  server, \* the version of the configuration at the server
  mine,   \* the version that is saved
  since,  \* the server's version when the connection was made
  stale,  \* an answer to an earlier connection was taken
  faults, boots

vars == <<s, asked, net, server, mine, since, stale, faults, boots>>

\* fifo holds versions, 0 for a damaged message; old says how many of them came on
\* an earlier connection; answered, that the last connection ended with an answer.
Idle == [status |-> "init", fails |-> 0, open |-> FALSE, fifo |-> <<>>, old |-> 0,
         answered |-> FALSE]

Init ==
  /\ s = Idle /\ asked = 0 /\ net = {} /\ server = 1 /\ mine = 1 /\ since = 0
  /\ stale = FALSE /\ faults = 0 /\ boots = 0

--------------------------------------------------------------------------------

\* Mutant: the first failure is the last attempt.
RetriesNever(status) == FALSE

\* config_service_transfer_status: every change resets the count.
Retries(status) == status = "finish"
Moved(r, status) == [r EXCEPT !.status = status, !.fails = 0]
\* config_service_close, and config_service_finish.
Closed(r) == [r EXCEPT !.open = FALSE, !.old = Len(r.fifo)]
Finished(r) == Moved(Closed(r), "finish")
\* config_service_destroy of a connection at work: connect again at once.
Reconnected(r) == Moved(Closed(r), "init")

\* config_msg_request, when the socket takes the message and when it does not.
Requests(r) == {[s |-> r, sent |-> 1], [s |-> Finished(r), sent |-> 0]}

\* gm_socket_connect: a datagram socket is connected at once, or not at all.
Connects(r) ==
  {[s |-> r, sent |-> 0]} \cup Requests([Moved(r, "work") EXCEPT !.open = TRUE, !.answered = FALSE])

\* What is on its way to a socket that is closed is lost.
Exchange(step) ==
  /\ s' = step.s
  /\ asked' = IF step.s.open THEN asked + step.sent ELSE 0
  /\ net' = IF step.s.open THEN net ELSE {}
  /\ since' = IF step.s.open /\ ~s.open THEN server ELSE since

--------------------------------------------------------------------------------

InitProc ==
  /\ s.status = "init"
  /\ \E step \in Connects(Moved(s, "connecting")) : Exchange(step)
  /\ UNCHANGED <<server, mine, stale, faults, boots>>

\* config_service_connecting_proc and config_service_connection_failed: after the
\* last attempt the service ends, or looks the name up if it has not.
ConnectingProc ==
  /\ s.status = "connecting"
  /\ LET r == [Closed(s) EXCEPT !.fails = @ + 1] IN
     IF r.fails >= MaxRepeat
     THEN \E to \in {Finished(r), Moved(r, "init")} : Exchange([s |-> to, sent |-> 0])
     ELSE \E step \in Connects(r) : Exchange(step)
  /\ UNCHANGED <<server, mine, stale, faults, boots>>

\* config_service_work_proc before it reads: after a timeout ask again or give up.
\* What has been received was read long before the timeout.
TimedOut(r) ==
  IF r.fifo # <<>> THEN {}
  ELSE IF r.fails + 1 >= MaxRepeat THEN {[s |-> Finished(r), sent |-> 0]}
  ELSE Requests([r EXCEPT !.fails = @ + 1])

\* Mutant: a damaged message is taken for a whole one.
ValidAll(m) == TRUE

\* config_msg_receive: damaged messages are dropped, or the connection is.
Valid(m) == m # 0
Popped(r) == [r EXCEPT !.fifo = Tail(@), !.old = IF @ > 0 THEN @ - 1 ELSE 0]
Outcomes(r) ==
  IF r.status # "work" \/ r.fifo = <<>> THEN {r}
  ELSE IF Valid(Head(r.fifo)) THEN {[Finished(Popped(r)) EXCEPT !.answered = TRUE]}
  ELSE {Popped(r), Reconnected([r EXCEPT !.fifo = <<>>])}
Takes(r) == r.status = "work" /\ r.fifo # <<>> /\ Valid(Head(r.fifo))

WorkProc ==
  /\ s.status = "work"
  /\ \E step \in {[s |-> s, sent |-> 0]} \cup TimedOut(s) :
       /\ \E to \in Outcomes(step.s) : Exchange([s |-> to, sent |-> step.sent])
       /\ mine' = (IF Takes(step.s) THEN Head(step.s.fifo) ELSE mine)
       /\ stale' = (IF Takes(step.s) THEN step.s.old > 0 ELSE stale)
  /\ UNCHANGED <<server, faults, boots>>

\* config_service_retry_config, after CONFIG_PING_TIME.
FinishProc ==
  /\ Retries(s.status) /\ s' = Moved(s, "init")
  /\ UNCHANGED <<asked, net, server, mine, since, stale, faults, boots>>

--------------------------------------------------------------------------------

\* The server answers with what it has.
Serve ==
  /\ asked > 0 /\ asked' = asked - 1 /\ net' = net \cup {server}
  /\ UNCHANGED <<s, server, mine, since, stale, faults, boots>>

\* gm_socket_recv: an answer that does not fit costs the buffer and the connection.
Received(m) ==
  s' = (IF Len(s.fifo) < FifoMax THEN [s EXCEPT !.fifo = Append(@, m)]
        ELSE Reconnected([s EXCEPT !.fifo = <<>>]))
Deliver ==
  /\ s.status = "work"
  /\ \E v \in net :
       /\ Received(v)
       /\ net' = (IF s'.open THEN net \ {v} ELSE {})
       /\ asked' = (IF s'.open THEN asked ELSE 0)
  /\ UNCHANGED <<server, mine, since, stale, faults, boots>>

Fault ==
  /\ faults < MaxFault /\ faults' = faults + 1
  /\ \/ asked > 0 /\ asked' = asked - 1 /\ UNCHANGED <<s, net>>
     \/ net' \in {net \ {v} : v \in net} /\ UNCHANGED <<s, asked>>
     \/ /\ s.status = "work" /\ Len(s.fifo) < FifoMax
        /\ \E v \in net \cup {0} : s' = [s EXCEPT !.fifo = Append(@, v)]
        /\ UNCHANGED <<asked, net>>
  /\ UNCHANGED <<server, mine, since, stale, boots>>

\* gm_socket_close_for_reconnect by an error of the socket.
SocketError ==
  /\ s.open /\ faults < MaxFault /\ faults' = faults + 1
  /\ Exchange([s |-> Reconnected(s), sent |-> 0])
  /\ UNCHANGED <<server, mine, stale, boots>>

Change ==
  /\ server < MaxVersion /\ server' = server + 1
  /\ UNCHANGED <<s, asked, net, mine, since, stale, faults, boots>>

\* A restart keeps what is saved.
Restart ==
  /\ boots < MaxBoot /\ boots' = boots + 1
  /\ s' = Idle /\ asked' = 0 /\ net' = {} /\ since' = 0 /\ stale' = FALSE
  /\ UNCHANGED <<server, mine, faults>>

Next ==
  \/ InitProc \/ ConnectingProc \/ WorkProc \/ FinishProc \/ Serve \/ Deliver \/ Fault
  \/ SocketError \/ Change \/ Restart

Spec == Init /\ [][Next]_vars
\* The timer goes on, sockets are made and send in the end, and messages arrive.
Fairness ==
  /\ WF_vars(ConnectingProc) /\ WF_vars(WorkProc) /\ WF_vars(FinishProc)
  /\ WF_vars(InitProc) /\ SF_vars(s.status = "init" /\ InitProc /\ s'.open)
  /\ SF_vars(Serve) /\ SF_vars(Deliver)
FairSpec == Spec /\ Fairness

--------------------------------------------------------------------------------

Versions == 0 .. MaxVersion
TypeOK ==
  /\ s.status \in {"init", "connecting", "work", "finish"} /\ s.fails \in 0 .. MaxRepeat
  /\ s.open = (s.status = "work") /\ s.answered \in BOOLEAN
  /\ s.fifo \in UNION {[1 .. n -> Versions] : n \in 0 .. FifoMax}
  /\ s.old \in 0 .. Len(s.fifo)
  /\ asked \in 0 .. MaxRepeat /\ net \subseteq 1 .. MaxVersion
  /\ {server, mine} \subseteq 1 .. MaxVersion /\ since \in Versions
  /\ stale \in BOOLEAN /\ faults \in 0 .. MaxFault /\ boots \in 0 .. MaxBoot

\* A connection that ended with an answer, and so was confirmed to the server, has
\* saved a configuration at least as new as the server's when it began - unless it
\* took an answer that an earlier connection had left in the buffer.
Current ==
  (s.status = "finish" /\ s.answered /\ ~stale) => mine >= since

\* The server's configuration changes finitely often, and the device comes to have
\* the last one, whatever was lost, doubled, damaged or left behind.
Arrives ==
  <>[](mine = server)
================================================================================
