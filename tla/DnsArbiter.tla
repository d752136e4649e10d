----------------------------- MODULE DnsArbiter -----------------------------
(***************************************************************************)
(* One name lookup at a time, shared by every service (socket.c), and the  *)
(* part of the services that asks for it: their init procedures and the    *)
(* change of the main server's address (gps_service.c).                    *)
(*                                                                         *)
(* A service is its access id; the lower id has the priority. An address   *)
(* that resolves is written as the name itself, so an entry of the IP      *)
(* cache tells which name it answers. DnsTick is one call of gprs_timer_proc: *)
(* the DNS timer procedure, then every service's.                          *)
(***************************************************************************)
EXTENDS Integers

CONSTANTS
  Last,        \* the highest access id in use
  Names,       \* domain names
  NoName,      \* an empty socket address
  NoIp,        \* 0.0.0.0
  FixedIp,     \* an address that was configured and not looked up
  MaxFail,     \* MAX_GET_HOST_REPEAT
  LateAnswers  \* whether the SDK may answer a lookup that was given up

Sockets == 0 .. Last
Main == 0      \* SOCKET_INDEX_MAIN
NoSocket == -1

ASSUME DnsAssumption ==
  /\ Last \in Nat /\ MaxFail \in Nat \ {0}
  /\ LateAnswers \in BOOLEAN
  /\ NoName \notin Names /\ NoIp \notin Names /\ FixedIp \notin Names
  /\ NoIp # FixedIp /\ NoName # NoIp /\ NoName # FixedIp

VARIABLES
  status,     \* of each service: "init", "up" (beyond INIT) or "error"
  addr,       \* SocketType.addr
  ipCache,    \* s_system_state.ip_cache
  requested,  \* the services whose GetHostItem.requested is set
  fail,       \* GetHostItem.fail_count
  cur,        \* current_get_host.socket
  curName,    \* current_get_host.addr
  curStatus,  \* current_get_host.status
  expired,    \* more than GET_HOST_TIME_OUT since the current lookup began
  pending     \* names the SDK is still looking up

slotVars == <<cur, curName, curStatus, expired, pending>>
dnsVars == <<status, addr, ipCache, requested, fail, slotVars>>

DnsTypeOK ==
  /\ status \in [Sockets -> {"init", "up", "error"}]
  /\ addr \in [Sockets -> Names \cup {NoName}]
  /\ ipCache \in [Sockets -> Names \cup {NoIp, FixedIp}]
  /\ requested \subseteq Sockets
  /\ fail \in [Sockets -> 0 .. MaxFail - 1]
  /\ cur \in Sockets \cup {NoSocket}
  /\ curName \in Names \cup {NoName}
  /\ curStatus \in {"INIT", "CONTINUE", "SUCCESS", "FAILED"}
  /\ expired \in BOOLEAN
  /\ pending \subseteq Names

\* The cache of a service starts with the address that is built in, except
\* for a main server that is not one of the maker's (init_para). A main
\* server that is configured by its IP has no name.
DnsInit ==
  /\ status = [s \in Sockets |-> "init"]
  /\ addr \in [Sockets -> Names \cup {NoName}]
  /\ \A s \in Sockets : addr[s] = NoName => s = Main
  /\ ipCache \in [Sockets -> {NoIp, FixedIp}]
  /\ \A s \in Sockets : s # Main \/ addr[s] = NoName => ipCache[s] = FixedIp
  /\ requested = {}
  /\ fail = [s \in Sockets |-> 0]
  /\ cur = NoSocket /\ curName = NoName /\ curStatus = "INIT"
  /\ expired = FALSE /\ pending = {}

-----------------------------------------------------------------------------
(* The slot.                                                               *)

\* current_get_host_init.
Free ==
  /\ cur' = NoSocket /\ curName' = NoName /\ curStatus' = "INIT"
  /\ expired' = FALSE
  /\ UNCHANGED pending

\* gm_socket_get_host_by_name on a free slot: an empty address is refused.
StartLookup(s) ==
  IF addr[s] = NoName
  THEN Free
  ELSE /\ cur' = s /\ curName' = addr[s] /\ curStatus' = "CONTINUE"
       /\ expired' = FALSE
       /\ pending' = (IF LateAnswers THEN pending ELSE {}) \cup {addr[s]}

\* The init procedures of the services: each that waits asks for a lookup,
\* and goes on if there is an address in the cache.
InitProcs(req) ==
  /\ requested' = req \cup {s \in Sockets : status[s] = "init" /\ addr[s] # NoName}
  /\ status' = [s \in Sockets |->
       IF status[s] = "init" /\ ipCache[s] # NoIp THEN "up" ELSE status[s]]
  /\ UNCHANGED <<addr, ipCache>>

\* Mutant: the requests are scanned from the highest id down.
IsFirstFromAbove(s) == s \in requested /\ \A t \in requested : s >= t

IsFirst(s) == s \in requested /\ \A t \in requested : s <= t

LookupEnded == curStatus \in {"SUCCESS", "FAILED"}

\* A lookup is over: the next one starts at once, unless the one that is over
\* is the first that is requested.
HandOver(first) == IF first = cur THEN Free ELSE StartLookup(first)

TickIdle ==
  /\ requested = {}
  /\ InitProcs(requested)
  /\ UNCHANGED <<fail, slotVars>>

TickStart ==
  /\ cur = NoSocket
  /\ \E first \in Sockets : IsFirst(first) /\ StartLookup(first)
  /\ InitProcs(requested)
  /\ UNCHANGED fail

\* Mutant: the request that is cleared is the first one, not the current one.
TickFinishedClearsFirst ==
  /\ cur # NoSocket /\ LookupEnded
  /\ \E first \in Sockets :
       /\ IsFirst(first) /\ HandOver(first)
       /\ InitProcs(requested \ {first})
  /\ fail' = [fail EXCEPT ![cur] = 0]

TickFinished ==
  /\ cur # NoSocket /\ LookupEnded
  /\ \E first \in Sockets : IsFirst(first) /\ HandOver(first)
  /\ InitProcs(requested \ {cur})
  /\ fail' = [fail EXCEPT ![cur] = 0]

\* Mutant: one timeout too many.
TickTimeoutOnceMore ==
  /\ cur # NoSocket /\ ~LookupEnded /\ expired
  /\ \E first \in Sockets :
       /\ IsFirst(first)
       /\ IF fail[cur] + 1 > MaxFail
          THEN /\ HandOver(first)
               /\ InitProcs(requested \ {cur})
               /\ fail' = [fail EXCEPT ![cur] = 0]
          ELSE /\ StartLookup(first)
               /\ InitProcs(requested)
               /\ fail' = [fail EXCEPT ![cur] = @ + 1]

\* Mutant: timeouts are not counted.
TickTimeoutUncounted ==
  /\ cur # NoSocket /\ ~LookupEnded /\ expired
  /\ \E first \in Sockets : IsFirst(first) /\ StartLookup(first)
  /\ InitProcs(requested)
  /\ UNCHANGED fail

\* The third time in a row the request is dropped; before that the lookup
\* competes again.
TickTimeout ==
  /\ cur # NoSocket /\ ~LookupEnded /\ expired
  /\ \E first \in Sockets :
       /\ IsFirst(first)
       /\ IF fail[cur] + 1 >= MaxFail
          THEN /\ HandOver(first)
               /\ InitProcs(requested \ {cur})
               /\ fail' = [fail EXCEPT ![cur] = 0]
          ELSE /\ StartLookup(first)
               /\ InitProcs(requested)
               /\ fail' = [fail EXCEPT ![cur] = @ + 1]

TickWait ==
  /\ requested # {}
  /\ cur # NoSocket /\ ~LookupEnded /\ ~expired
  /\ InitProcs(requested)
  /\ UNCHANGED <<fail, slotVars>>

\* gprs_timer_proc in the state TIME_PROC.
DnsTick == TickIdle \/ TickStart \/ TickFinished \/ TickTimeout \/ TickWait

\* The ten seconds of the current lookup are over.
Expire ==
  /\ cur # NoSocket /\ ~expired
  /\ expired' = TRUE
  /\ UNCHANGED <<status, addr, ipCache, requested, fail,
                 cur, curName, curStatus, pending>>

-----------------------------------------------------------------------------
(* The callback of the SDK: it carries an address, and no name.            *)

\* Mutant: the socket's address is not compared with the name looked up.
AnswerUncompared(n, valid) ==
  /\ n \in pending
  /\ pending' = pending \ {n}
  /\ IF cur = NoSocket
     THEN curStatus' = "INIT" /\ UNCHANGED ipCache
     ELSE IF ~valid
     THEN curStatus' = "FAILED" /\ UNCHANGED ipCache
     ELSE curStatus' = "SUCCESS" /\ ipCache' = [ipCache EXCEPT ![cur] = n]
  /\ UNCHANGED <<status, addr, requested, fail, cur, curName, expired>>

\* socket_get_host_by_name_callback for the lookup of n.
Answer(n, valid) ==
  /\ n \in pending
  /\ pending' = pending \ {n}
  /\ \/ /\ cur = NoSocket
        /\ curStatus' = "INIT" /\ UNCHANGED ipCache
     \/ /\ cur # NoSocket /\ curName # addr[cur]
        /\ curStatus' = "INIT" /\ UNCHANGED ipCache
     \/ /\ cur # NoSocket /\ curName = addr[cur] /\ ~valid
        /\ curStatus' = "FAILED" /\ UNCHANGED ipCache
     \/ /\ cur # NoSocket /\ curName = addr[cur] /\ valid
        /\ curStatus' = "SUCCESS"
        /\ ipCache' = [ipCache EXCEPT ![cur] = n]
  /\ UNCHANGED <<status, addr, requested, fail, cur, curName, expired>>

-----------------------------------------------------------------------------
(* The services, as far as lookups are concerned.                          *)

\* A connection fails or ends and the service starts again.
Reconnect(s) ==
  /\ status[s] = "up"
  /\ status' = [status EXCEPT ![s] = "init"]
  /\ UNCHANGED <<addr, ipCache, requested, fail, slotVars>>

\* The bearer is given up, or the service is: the socket keeps its address.
Destroy(s) ==
  /\ status[s] # "error"
  /\ status' = [status EXCEPT ![s] = "error"]
  /\ UNCHANGED <<addr, ipCache, requested, fail, slotVars>>

\* The service is created again with the address it has in the configuration.
Create(s) ==
  /\ status[s] = "error"
  /\ status' = [status EXCEPT ![s] = "init"]
  /\ UNCHANGED <<addr, ipCache, requested, fail, slotVars>>

\* Mutant: the old address stays in the cache.
ChangeConfigKeepsCache(new) ==
  /\ new # addr[Main]
  /\ addr' = [addr EXCEPT ![Main] = new]
  /\ ipCache' = [ipCache EXCEPT ![Main] = IF new = NoName THEN FixedIp ELSE @]
  /\ status' = [status EXCEPT ![Main] = "init"]
  /\ UNCHANGED <<requested, fail, slotVars>>

\* gps_service_change_config to a server with the name new, or to one that is
\* given by its IP (NoName): the cache is cleared, and created anew.
ChangeServer(new) ==
  /\ new # addr[Main]
  /\ addr' = [addr EXCEPT ![Main] = new]
  /\ ipCache' = [ipCache EXCEPT ![Main] = IF new = NoName THEN FixedIp ELSE NoIp]
  /\ status' = [status EXCEPT ![Main] = "init"]
  /\ UNCHANGED <<requested, fail, slotVars>>

DnsNext ==
  \/ DnsTick
  \/ Expire
  \/ \E n \in Names, valid \in BOOLEAN : Answer(n, valid)
  \/ \E s \in Sockets : Reconnect(s) \/ Destroy(s) \/ Create(s)
  \/ \E new \in Names \cup {NoName} : ChangeServer(new)

DnsSpec == DnsInit /\ [][DnsNext]_dnsVars

\* The SDK's timer runs, and time passes; no lookup need be answered.
DnsFairSpec == DnsSpec /\ WF_dnsVars(DnsTick) /\ WF_dnsVars(Expire)

-----------------------------------------------------------------------------
(* A lookup is under way only for a service whose request stands, and a    *)
(* free slot is one that the next lookup can take. If it were otherwise    *)
(* gm_socket_get_host_timer_proc would return before it looks at the slot, *)
(* or gm_socket_get_host_by_name would answer GM_NOT_INIT for ever.        *)
SlotConsistent ==
  /\ cur # NoSocket => cur \in requested
  /\ cur = NoSocket => curStatus = "INIT"

(* An address in the cache belongs to the name that the service has now:   *)
(* socket_get_host_by_name_callback drops the answer for a name that was   *)
(* configured away, and gps_service_change_config clears the cache.        *)
CacheIsOwn == \A s \in Sockets : ipCache[s] \in {addr[s], NoIp, FixedIp}

(* No lookup holds the slot for ever, answered or not: after an answer or  *)
(* MAX_GET_HOST_REPEAT timeouts gm_socket_get_host_timer_proc takes the    *)
(* slot from the service.                                                  *)
LookupEnds == \A s \in Sockets : cur = s ~> cur # s

\* Services before s have no request.
NoneBefore(s) == \A t \in requested : s <= t

(* A service whose request stands gets the slot, if from some time on no   *)
(* service with a lower access id asks.                                    *)
ServedWhenFirst ==
  \A s \in Sockets :
    <>[]NoneBefore(s) =>
      (s \in requested ~> (cur = s \/ s \notin requested \/ addr[s] = NoName))
=============================================================================
