------------------------------- MODULE GprsLink -------------------------------
(***************************************************************************)
(* The bearer (gprs.c) and the three services whose lives hang together:   *)
(* the main connection (gps_service.c), the configuration service          *)
(* (config_service.c), which alone recreates the main one, and the update  *)
(* service (update_service.c), which alone is spared when the main one     *)
(* gives up. The name lookup is DnsArbiter's; here an address is known or  *)
(* is not.                                                                 *)
(*                                                                         *)
(* Everything runs in one thread, so an action is one timer procedure, one *)
(* callback of the SDK or one command with all the calls it makes. A       *)
(* timeout is a branch that may be taken; fairness says that it is.        *)
(***************************************************************************)
EXTENDS Integers

CONSTANTS
  MaxRepeat,  \* MAX_CONNECT_REPEAT and MAX_MESSAGE_REPEAT
  Width       \* 2^8, the range of status_fail_count

ASSUME LinkAssumption ==
  /\ MaxRepeat \in Nat \ {0}
  /\ Width \in Nat /\ Width > MaxRepeat

Services == {"gps", "config", "update"}
SocketStatus ==
  {"INIT", "CONNECTING", "LOGIN", "WORK", "DATA_FINISH", "ERROR"}

VARIABLES
  gprs,       \* s_gprs.status
  link,       \* of each service: status, socket, status_fail_count, fifo,
              \* and asked, excuted_get_host
  known,      \* a valid IP of the main server is in the cache
  badLong,    \* 7 heartbeat intervals passed since last_good_time
  silentLong, \* and since heart_receive_time
  rebooting   \* hard_ware_reboot was called

vars == <<gprs, link, known, badLong, silentLong, rebooting>>

\* sock is "none" for an id of -1, "wait" for a stream that has not connected.
Link == [st : SocketStatus, sock : {"none", "wait", "open"},
         fails : 0 .. Width - 1, fifo : BOOLEAN, asked : BOOLEAN]

TypeOK ==
  /\ gprs \in {"INIT", "CALL_OK", "ACTIVATED", "TIME_PROC", "FAILED"}
  /\ link \in [Services -> Link]
  /\ known \in BOOLEAN /\ badLong \in BOOLEAN
  /\ silentLong \in BOOLEAN /\ rebooting \in BOOLEAN

\* gm_socket_init.
Fresh ==
  [st |-> "INIT", sock |-> "none", fails |-> 0, fifo |-> TRUE, asked |-> FALSE]

\* gprs_create.
Init ==
  /\ gprs = "INIT"
  /\ link = [s \in Services |-> Fresh]
  /\ known \in BOOLEAN
  /\ badLong = FALSE /\ silentLong = FALSE /\ rebooting = FALSE

-----------------------------------------------------------------------------
(* The transition tables. Each of the three functions is one table of the  *)
(* transitions that are not refused.                                       *)

Unfinished == {"INIT", "CONNECTING", "LOGIN", "WORK"}

\* gps_service_transfer_status.
GpsAllows(old, new) ==
  \/ old \in Unfinished /\ new \in {"INIT", "DATA_FINISH", "ERROR"}
  \/ old = "INIT" /\ new = "CONNECTING"
  \/ old = "CONNECTING" /\ new \in {"LOGIN", "WORK"}
  \/ old = "LOGIN" /\ new = "WORK"
  \/ old = "DATA_FINISH" /\ new \in {"INIT", "ERROR"}
  \/ old = "ERROR" /\ new = "INIT"

\* config_service_transfer_status: there is no way out of ERROR.
ConfigAllows(old, new) ==
  \/ old \in Unfinished /\ new \in {"INIT", "DATA_FINISH", "ERROR"}
  \/ old = "INIT" /\ new = "CONNECTING"
  \/ old = "CONNECTING" /\ new = "WORK"
  \/ old = "DATA_FINISH" /\ new \in {"INIT", "ERROR"}
  \/ old = "ERROR" /\ new = "ERROR"

\* update_service_transfer_status: nothing unfinished goes back to INIT.
UpdateAllows(old, new) ==
  \/ old \in Unfinished /\ new \in {"DATA_FINISH", "ERROR"}
  \/ old = "INIT" /\ new = "CONNECTING"
  \/ old = "CONNECTING" /\ new = "WORK"
  \/ old = "DATA_FINISH" /\ new \in {"INIT", "ERROR"}
  \/ old = "ERROR" /\ new \in {"INIT", "ERROR"}

Allows(s, old, new) ==
  \/ s = "gps" /\ GpsAllows(old, new)
  \/ s = "config" /\ ConfigAllows(old, new)
  \/ s = "update" /\ UpdateAllows(old, new)

\* A transition that is refused changes nothing.
Moved(l, s, new) ==
  IF Allows(s, l[s].st, new)
  THEN [l EXCEPT ![s].st = new, ![s].fails = 0]
  ELSE l

\* Mutant: the count is taken for an int.
FailedWide(l, s) == [l EXCEPT ![s].fails = @ + 1]

\* status_fail_count ++
Failed(l, s) == [l EXCEPT ![s].fails = (@ + 1) % Width]

-----------------------------------------------------------------------------
(* Closing, finishing and destroying.                                      *)

\* gps_service_close, config_service_close, update_service_close.
Closed(l, s) == [l EXCEPT ![s].sock = "none"]

\* Mutant: the socket is left for the next connection.
FinishedOpen(l, s) == Moved(l, s, "DATA_FINISH")

\* gps_service_close_for_reconnect and the like, *_service_finish.
Finished(l, s) == Moved(Closed(l, s), s, "DATA_FINISH")

\* gps_service_destroy.
GpsDestroyed(l) ==
  IF l["gps"].st = "ERROR"
  THEN l
  ELSE Moved([Closed(l, "gps") EXCEPT !["gps"].fifo = FALSE], "gps", "ERROR")

\* Mutant: a service that is still at work is not closed.
ConfigDestroyedOpen(l) ==
  IF l["config"].st = "ERROR"
  THEN l
  ELSE IF l["config"].st \in Unfinished
  THEN Moved(l, "config", "INIT")
  ELSE Moved(Closed(l, "config"), "config", "ERROR")

\* config_service_destroy.
ConfigDestroyed(l) ==
  IF l["config"].st = "ERROR"
  THEN l
  ELSE Moved(Closed(l, "config"), "config",
             IF l["config"].st \in Unfinished THEN "INIT" ELSE "ERROR")

\* update_service_destroy.
UpdateDestroyed(l) ==
  IF l["update"].st = "ERROR"
  THEN l
  ELSE Moved(Closed(l, "update"), "update", "ERROR")

\* gm_socket_destroy.
Destroyed(l, s) ==
  IF s = "gps" THEN GpsDestroyed(l)
  ELSE IF s = "config" THEN ConfigDestroyed(l) ELSE UpdateDestroyed(l)

\* gm_socket_global_destroy.
AllDestroyed(l) == UpdateDestroyed(GpsDestroyed(ConfigDestroyed(l)))

\* Mutant: only a finished update lets the bearer stay.
BearerGoesAnyway(l) == l["update"].st # "DATA_FINISH"

\* gps_service_destroy_gprs gives the bearer up unless an update is under way.
BearerGoes(l) == l["update"].st \in {"DATA_FINISH", "ERROR"}

LinksLost(l) == IF BearerGoes(l) THEN AllDestroyed(l) ELSE GpsDestroyed(l)

GprsLost(l) == IF BearerGoes(l) THEN "FAILED" ELSE gprs

\* gps_service_destroy_gprs, when the links are l.
DestroyGprs(l) == link' = LinksLost(l) /\ gprs' = GprsLost(l)

\* gprs_destroy.
GprsDestroyed == link' = AllDestroyed(link) /\ gprs' = "FAILED"

-----------------------------------------------------------------------------
(* Connecting.                                                             *)

\* config_msg_request and update_msg_send_request when the socket sends or
\* does not.
Requested(l, s, sends) == IF sends THEN l ELSE Finished(l, s)

\* The connection is made: *_service_connection_ok, with the first message.
ConnectionOk(l, s, sends) ==
  IF s = "gps"
  THEN IF sends
       THEN link' = Moved(l, s, "LOGIN") /\ UNCHANGED gprs
       ELSE DestroyGprs(Moved(l, s, "LOGIN"))
  ELSE link' = Requested(Moved(l, s, "WORK"), s, sends) /\ UNCHANGED gprs

\* gm_socket_connect: no socket, a stream that waits for the callback, or a
\* datagram socket, which is connected at once. When the SDK refuses to
\* connect, *_service_connection_failed closes the socket again: with fewer
\* than MaxRepeat failures it does no more.
Connect(l, s, sends) ==
  IF l[s].sock # "none" THEN link' = l /\ UNCHANGED gprs ELSE
  \/ link' = l /\ UNCHANGED gprs
  \/ /\ s # "config"
     /\ link' = [l EXCEPT ![s].sock = "wait"] /\ UNCHANGED gprs
  \/ /\ s # "gps"
     /\ ConnectionOk([l EXCEPT ![s].sock = "open"], s, sends)

\* The end of *_service_connection_failed after the last attempt.
GiveUp(l, s) ==
  IF ~l[s].asked
  THEN link' = Moved(l, s, "INIT") /\ UNCHANGED gprs
  ELSE IF s = "gps"
  THEN DestroyGprs(l)
  ELSE link' = Finished(l, s) /\ UNCHANGED gprs

Running(s) == gprs = "TIME_PROC" /\ link[s].fifo

\* Of every timer procedure in TIME_PROC: last_good_time is now.
Tick == badLong' = FALSE /\ UNCHANGED <<known, silentLong>>

\* gps_service_init_proc, config_service_init_proc, update_service_init_proc.
InitProc(s) ==
  /\ Running(s) /\ link[s].st = "INIT"
  /\ s = "gps" => known
  /\ \E sends \in BOOLEAN : Connect(Moved(link, s, "CONNECTING"), s, sends)
  /\ Tick /\ UNCHANGED rebooting

\* gps_service_connecting_proc and the like, after CONNECT_TIME_OUT.
ConnectingProc(s) ==
  /\ Running(s) /\ link[s].st = "CONNECTING"
  /\ LET l == Closed(Failed(link, s), s) IN
     IF l[s].fails >= MaxRepeat
     THEN GiveUp(l, s)
     ELSE \E sends \in BOOLEAN : Connect(l, s, sends)
  /\ Tick /\ UNCHANGED rebooting

-----------------------------------------------------------------------------
(* The main service at work.                                               *)

\* gps_service_login_proc after MESSAGE_TIME_OUT (GPS_LOGIN_MSG_FAIL_MAX is 1).
LoginProc ==
  /\ Running("gps") /\ link["gps"].st = "LOGIN"
  /\ link' = Finished(link, "gps")
  /\ Tick /\ UNCHANGED <<gprs, rebooting>>

\* gps_service_work_proc: sends tells whether LBS, heartbeat and position
\* messages go out, broken whether the server's heartbeats are overdue. A
\* service that was destroyed by a send is closed once more, and stays in ERROR.
WorkProc ==
  /\ Running("gps") /\ link["gps"].st = "WORK"
  /\ \E sends, broken \in BOOLEAN :
       LET l == IF sends THEN link ELSE LinksLost(link) IN
       /\ link' = IF broken THEN Finished(l, "gps") ELSE l
       /\ gprs' = IF sends THEN gprs ELSE GprsLost(link)
  /\ Tick /\ UNCHANGED rebooting

\* A record, an alarm or a reply is sent from elsewhere and the socket refuses:
\* gps_service_cache_send, gps_service_push_lbs and the like.
SendFails ==
  /\ link["gps"].st \in {"LOGIN", "WORK"}
  /\ DestroyGprs(link)
  /\ UNCHANGED <<known, badLong, silentLong, rebooting>>

\* gps_service_after_login_response: the device message and the heartbeat.
LoginResponse ==
  /\ Running("gps") /\ link["gps"].st = "LOGIN"
  /\ \/ link' = Moved(link, "gps", "WORK") /\ UNCHANGED gprs
     \/ link' = Moved(LinksLost(link), "gps", "WORK") /\ gprs' = GprsLost(link)
     \/ DestroyGprs(link)
  /\ Tick /\ UNCHANGED rebooting

\* gps_service_after_receive_heartbeat.
Heartbeat ==
  /\ Running("gps") /\ link["gps"].st \in {"LOGIN", "WORK"}
  /\ silentLong' = FALSE /\ badLong' = FALSE
  /\ UNCHANGED <<gprs, link, known, rebooting>>

\* protocol_msg_receive meets a message it cannot take.
Damaged ==
  /\ Running("gps") /\ link["gps"].st \in {"LOGIN", "WORK"}
  /\ link' = Finished(link, "gps")
  /\ Tick /\ UNCHANGED <<gprs, rebooting>>

\* gps_service_data_finish_proc, after GPS_PING_TIME or 7 silent heartbeats.
DataFinishProc ==
  /\ Running("gps") /\ link["gps"].st \in {"DATA_FINISH", "ERROR"}
  /\ IF silentLong
     THEN rebooting' = TRUE /\ UNCHANGED link
     ELSE link' = Moved(link, "gps", "INIT") /\ UNCHANGED rebooting
  /\ Tick /\ UNCHANGED gprs

\* gps_service_change_config: a new server, whose IP may be known at once.
ChangeConfig ==
  /\ link' = [Moved(Closed(link, "gps"), "gps", "ERROR") EXCEPT !["gps"] = Fresh]
  /\ known' \in BOOLEAN
  /\ UNCHANGED <<gprs, badLong, silentLong, rebooting>>

\* gm_socket_get_host_by_name: the lookup is handed to the SDK. A service whose
\* server has no name (addr[0] = 0) behaves as one whose lookup came first.
LookUp(s) ==
  /\ Running(s) /\ ~link[s].asked
  /\ link' = [link EXCEPT ![s].asked = TRUE]
  /\ UNCHANGED <<gprs, known, badLong, silentLong, rebooting>>

\* socket_get_host_by_name_callback for the main server.
LookupDone ==
  /\ ~known /\ known' = TRUE
  /\ UNCHANGED <<gprs, link, badLong, silentLong, rebooting>>

-----------------------------------------------------------------------------
(* The configuration service.                                              *)

\* config_service_work_proc after MESSAGE_TIME_OUT.
ConfigWorkProc ==
  /\ Running("config") /\ link["config"].st = "WORK"
  /\ LET l == Failed(link, "config") IN
     IF l["config"].fails >= MaxRepeat
     THEN link' = Finished(l, "config")
     ELSE \E sends \in BOOLEAN : link' = Requested(l, "config", sends)
  /\ Tick /\ UNCHANGED <<gprs, rebooting>>

\* config_msg_receive: the server's answer, with a new main server or without,
\* or a message that cannot be taken.
ConfigReceive ==
  /\ Running("config") /\ link["config"].st = "WORK"
  /\ \/ link' = Finished(link, "config") /\ UNCHANGED known
     \/ /\ link' = [Finished(link, "config") EXCEPT !["gps"] = Fresh]
        /\ known' \in BOOLEAN
     \/ link' = ConfigDestroyed(link) /\ UNCHANGED known
  /\ badLong' = FALSE /\ UNCHANGED <<gprs, silentLong, rebooting>>

\* Mutant: a main service in ERROR is left to its own timer.
RecreatedUnlessDead(l) ==
  IF l["gps"].fifo \/ l["gps"].st = "ERROR" THEN l ELSE [l EXCEPT !["gps"] = Fresh]

\* config_srevice_create_other_services: a main service without a fifo is new.
Recreated(l) == IF l["gps"].fifo THEN l ELSE [l EXCEPT !["gps"] = Fresh]

\* config_service_finish_proc: retry after CONFIG_PING_TIME.
ConfigFinishProc ==
  /\ Running("config") /\ link["config"].st \in {"DATA_FINISH", "ERROR"}
  /\ \E retry \in BOOLEAN :
       link' = IF retry THEN Moved(Recreated(link), "config", "INIT")
               ELSE Recreated(link)
  /\ Tick /\ UNCHANGED <<gprs, rebooting>>

-----------------------------------------------------------------------------
(* The update service.                                                     *)

\* update_service_work_proc after MESSAGE_TIME_OUT.
UpdateWorkProc ==
  /\ Running("update") /\ link["update"].st = "WORK"
  /\ LET l == Failed(link, "update") IN
     IF l["update"].fails >= MaxRepeat
     THEN link' = Finished(l, "update")
     ELSE \E sends \in BOOLEAN : link' = Requested(l, "update", sends)
  /\ Tick /\ UNCHANGED <<gprs, rebooting>>

\* update_msg_receive: a block, which resets the count, or the end.
UpdateReceive ==
  /\ Running("update") /\ link["update"].st = "WORK"
  /\ \/ link' = [link EXCEPT !["update"].fails = 0]
     \/ link' = Finished(link, "update")
  /\ Tick /\ UNCHANGED <<gprs, rebooting>>

\* update_service_data_finish_proc, after the wait.
UpdateFinishProc ==
  /\ Running("update") /\ link["update"].st \in {"DATA_FINISH", "ERROR"}
  /\ link' = Moved(link, "update", "INIT")
  /\ Tick /\ UNCHANGED <<gprs, rebooting>>

-----------------------------------------------------------------------------
(* The bearer.                                                             *)

\* gprs_init_proc: the network is there, or it is not for 90 s.
GprsInitProc ==
  /\ gprs = "INIT"
  /\ \/ gprs' = "CALL_OK" /\ UNCHANGED link
     \/ GprsDestroyed
  /\ UNCHANGED <<known, badLong, silentLong, rebooting>>

\* gprs_call_ok_proc: the bearer is up, or it is not for 90 s.
GprsCallOkProc ==
  /\ gprs = "CALL_OK"
  /\ \/ gprs' = "ACTIVATED" /\ UNCHANGED link
     \/ GprsDestroyed
  /\ UNCHANGED <<known, badLong, silentLong, rebooting>>

GprsActivatedProc ==
  /\ gprs = "ACTIVATED" /\ gprs' = "TIME_PROC"
  /\ UNCHANGED <<link, known, badLong, silentLong, rebooting>>

\* Mutant: the bearer is only tried again.
GprsFailedProcRetries ==
  /\ gprs = "FAILED" /\ gprs' = "INIT"
  /\ UNCHANGED <<link, known, badLong, silentLong, rebooting>>

\* gprs_failed_proc: reboot, or start again after 5 s.
GprsFailedProc ==
  /\ gprs = "FAILED"
  /\ IF badLong
     THEN rebooting' = TRUE /\ UNCHANGED gprs
     ELSE gprs' = "INIT" /\ UNCHANGED rebooting
  /\ UNCHANGED <<link, known, badLong, silentLong>>

\* Commands that change the APN or the server's parameters: gprs_destroy.
Command ==
  /\ GprsDestroyed
  /\ UNCHANGED <<known, badLong, silentLong, rebooting>>

\* Whether gprs_socket_notify is registered.
Notified == gprs \in {"CALL_OK", "ACTIVATED", "TIME_PROC"}

\* gprs_socket_notify, GM_SOC_CONNECT.
Connected(s) ==
  /\ Notified /\ link[s].sock = "wait"
  /\ \E sends \in BOOLEAN :
       ConnectionOk([link EXCEPT ![s].sock = "open"], s, sends)
  /\ UNCHANGED <<known, badLong, silentLong, rebooting>>

\* gprs_socket_notify with a result of false.
SocketError(s) ==
  /\ Notified /\ link[s].sock # "none"
  /\ IF s = "gps"
     THEN DestroyGprs(link)
     ELSE link' = Destroyed(link, s) /\ UNCHANGED gprs
  /\ UNCHANGED <<known, badLong, silentLong, rebooting>>

\* gm_socket_recv ends with anything but "would block", or the fifo is full:
\* gm_socket_close_for_reconnect.
RecvError(s) ==
  /\ Notified /\ link[s].sock = "open" /\ link[s].st \in {"LOGIN", "WORK"}
  /\ link' = IF s = "config" THEN ConfigDestroyed(link) ELSE Finished(link, s)
  /\ UNCHANGED <<gprs, known, badLong, silentLong, rebooting>>

\* Seven heartbeat intervals without a good network, without an answer.
GoodAgo ==
  /\ gprs # "TIME_PROC" /\ ~badLong /\ badLong' = TRUE
  /\ UNCHANGED <<gprs, link, known, silentLong, rebooting>>

HeardAgo ==
  /\ ~silentLong /\ silentLong' = TRUE
  /\ UNCHANGED <<gprs, link, known, badLong, rebooting>>

\* The timer of hard_ware_reboot runs out and the system starts again.
Restart ==
  /\ rebooting
  /\ rebooting' = FALSE
  /\ gprs' = "INIT" /\ link' = [s \in Services |-> Fresh]
  /\ badLong' = FALSE /\ silentLong' = FALSE /\ known' \in BOOLEAN

GprsProc == GprsInitProc \/ GprsCallOkProc \/ GprsActivatedProc \/ GprsFailedProc

Next ==
  \/ GprsProc
  \/ \E s \in Services : InitProc(s) \/ ConnectingProc(s) \/ LookUp(s)
  \/ LoginProc \/ WorkProc \/ SendFails \/ LoginResponse \/ Heartbeat
  \/ Damaged \/ DataFinishProc \/ ChangeConfig \/ LookupDone
  \/ ConfigWorkProc \/ ConfigReceive \/ ConfigFinishProc
  \/ UpdateWorkProc \/ UpdateReceive \/ UpdateFinishProc
  \/ Command
  \/ \E s \in Services : Connected(s) \/ SocketError(s) \/ RecvError(s)
  \/ GoodAgo \/ HeardAgo \/ Restart

Spec == Init /\ [][Next]_vars

\* The second timer runs and timeouts come; nothing the network or a user does
\* need ever happen.
FairSpec ==
  /\ Spec
  /\ WF_vars(GprsProc)
  /\ \A s \in Services : WF_vars(InitProc(s)) /\ WF_vars(ConnectingProc(s))
  /\ WF_vars(LoginProc) /\ WF_vars(DataFinishProc)
  /\ WF_vars(ConfigWorkProc) /\ WF_vars(ConfigFinishProc)
  /\ WF_vars(UpdateWorkProc) /\ WF_vars(UpdateFinishProc)
  /\ WF_vars(GoodAgo) /\ WF_vars(HeardAgo) /\ WF_vars(Restart)

-----------------------------------------------------------------------------
(* Whoever gives the bearer up, and from inside whichever handler: no      *)
(* service keeps a socket on it (gprs_destroy, gm_socket_global_destroy).  *)
SocketsNeedBearer ==
  gprs # "TIME_PROC" => \A s \in Services : link[s].sock = "none"

(* A service that has nothing to do has no socket, and one that is at work *)
(* has one that is connected: none leaks, none is used after its close.    *)
SocketsMatchStatus ==
  \A s \in Services :
    /\ link[s].st \in {"INIT", "DATA_FINISH", "ERROR"} => link[s].sock = "none"
    /\ link[s].st = "CONNECTING" => link[s].sock # "open"
    /\ link[s].st \in {"LOGIN", "WORK"} => link[s].sock = "open"

(* The main service is without a fifo exactly when it is in ERROR: then    *)
(* its timer does nothing and only config_srevice_create_other_services,   *)
(* which looks for a missing fifo, brings it back.                         *)
FifoMatchesStatus == link["gps"].fifo <=> link["gps"].st # "ERROR"

(* A firmware transfer survives the main connection: from inside whichever *)
(* handler the main service gives up, an update that is not finished keeps *)
(* its socket and its state (gps_service_destroy_gprs).                    *)
UpdateSpared ==
  [][/\ \/ InitProc("gps") \/ ConnectingProc("gps") \/ WorkProc
        \/ SendFails \/ LoginResponse \/ SocketError("gps")
     /\ link["update"].st \in Unfinished
     => link'["update"] = link["update"]]_vars

(* When the network stays away the device reboots, as gprs_check_need_     *)
(* reboot says, although the bearer is set up again and again.             *)
AwayReboots == gprs # "TIME_PROC" ~> (gprs = "TIME_PROC" \/ rebooting)

(* A main service that was given up tries to connect again, or waits for a *)
(* name, or the device reboots, unless users keep dropping the bearer or   *)
(* the configuration service keeps losing its socket.                      *)
GpsComesBack ==
  \/ []<><<gprs = "TIME_PROC" /\ Command>>_vars
  \/ <>[]~link["config"].asked
  \/ []<><<SocketError("config") \/ RecvError("config") \/ ConfigReceive>>_vars
  \/ (link["gps"].st \in {"DATA_FINISH", "ERROR"}
      ~> \/ link["gps"].st = "CONNECTING" \/ rebooting
         \/ link["gps"].st = "INIT" /\ ~known)

(* config_service.c:780 says that the service is kept for reconnecting:    *)
(* after the bearer was lost the server is asked again, some day, unless   *)
(* commands keep dropping the bearer.                                      *)
ConfigAsksAgain ==
  \/ []<><<gprs = "TIME_PROC" /\ Command>>_vars
  \/ link["config"].st = "ERROR" ~> (link["config"].st # "ERROR" \/ rebooting)
=============================================================================
