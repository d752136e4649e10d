------------------------------ MODULE LinkProofs ------------------------------
(***************************************************************************)
(* Theorems about Link, for every number of repetitions and of restarts    *)
(* and every width of the failure count, part by part: GprsLink (a socket  *)
(* never outlives its bearer or the state its service needs it in),        *)
(* DnsArbiter (the slot never gets stuck in a state from which no lookup   *)
(* can begin, and a cached address is its service's own while the SDK      *)
(* drops the lookups that are given up) and SystemState (the relay is      *)
(* where the user's last order and the status have it).                    *)
(***************************************************************************)
EXTENDS Link, TLAPS

-----------------------------------------------------------------------------
(* The bearer and the services: GprsLink.                                  *)
(*                                                                         *)
(* The three properties hold of the links at the end of every handler, not *)
(* inside it: a service is closed before it is moved. The lemmas therefore *)
(* say of each composite operation (finish, destroy, give up the bearer)   *)
(* that it takes sound links to sound links.                               *)

\* What TypeOK, SocketsMatchStatus and FifoMatchesStatus say of the links.
Sound(l) ==
  /\ l \in [Services -> Link]
  /\ \A s \in Services :
       /\ l[s].st \in {"INIT", "DATA_FINISH", "ERROR"} => l[s].sock = "none"
       /\ l[s].st = "CONNECTING" => l[s].sock # "open"
       /\ l[s].st \in {"LOGIN", "WORK"} => l[s].sock = "open"
  /\ l["gps"].fifo <=> l["gps"].st # "ERROR"

NoSockets(l) == \A s \in Services : l[s].sock = "none"

Bearer == {"INIT", "CALL_OK", "ACTIVATED", "TIME_PROC", "FAILED"}

LinksOk ==
  /\ Sound(link) /\ gprs \in Bearer
  /\ gprs # "TIME_PROC" => NoSockets(link)

FlagTypes ==
  known \in BOOLEAN /\ badLong \in BOOLEAN /\ silentLong \in BOOLEAN
  /\ rebooting \in BOOLEAN

IInv == LinksOk /\ FlagTypes

\* The invariant is the types and the three properties of the runs.
LEMMA IInvIs ==
  IInv <=> /\ TypeOK /\ SocketsNeedBearer
           /\ SocketsMatchStatus /\ FifoMatchesStatus
BY DEF IInv, LinksOk, FlagTypes, Sound, NoSockets, Bearer, TypeOK,
       SocketsNeedBearer, SocketsMatchStatus, FifoMatchesStatus

-----------------------------------------------------------------------------
\* What the two elementary operations do to one service and to the others.
LEMMA MovedIs ==
  ASSUME NEW l \in [Services -> Link], NEW s \in Services,
         NEW new \in SocketStatus
  PROVE  /\ Moved(l, s, new) \in [Services -> Link]
         /\ \A t \in Services \ {s} : Moved(l, s, new)[t] = l[t]
         /\ Moved(l, s, new)[s].st =
              IF Allows(s, l[s].st, new) THEN new ELSE l[s].st
         /\ Moved(l, s, new)[s].sock = l[s].sock
         /\ Moved(l, s, new)[s].fifo = l[s].fifo
<1>1. CASE Allows(s, l[s].st, new)
  <2>1. l[s] \in Link
    OBVIOUS
  <2>2. 0 \in 0 .. Width - 1
    BY LinkAssumption
  <2>3. Moved(l, s, new) =
          [l EXCEPT ![s] = [@ EXCEPT !.st = new, !.fails = 0]]
    BY <1>1, <2>1 DEF Moved, Link
  <2>4. [l[s] EXCEPT !.st = new, !.fails = 0] \in Link
    BY <2>1, <2>2 DEF Link
  <2>5. QED
    BY <1>1, <2>1, <2>3, <2>4 DEF Link
<1>2. CASE ~Allows(s, l[s].st, new)
  BY <1>2 DEF Moved
<1>3. QED
  BY <1>1, <1>2

\* Closing a socket concerns its service alone.
LEMMA ClosedIs ==
  ASSUME NEW l \in [Services -> Link], NEW s \in Services
  PROVE  /\ Closed(l, s) \in [Services -> Link]
         /\ \A t \in Services \ {s} : Closed(l, s)[t] = l[t]
         /\ Closed(l, s)[s].st = l[s].st
         /\ Closed(l, s)[s].sock = "none"
         /\ Closed(l, s)[s].fifo = l[s].fifo
<1>1. l[s] \in Link
  OBVIOUS
<1>2. Closed(l, s) = [l EXCEPT ![s] = [@ EXCEPT !.sock = "none"]]
  BY <1>1 DEF Closed, Link
<1>3. [l[s] EXCEPT !.sock = "none"] \in Link
  BY <1>1 DEF Link
<1>4. QED
  BY <1>1, <1>2, <1>3 DEF Link

\* Closing and finishing a service, in whatever state, leaves sound links.
LEMMA FinishedSound ==
  ASSUME NEW l, Sound(l), NEW s \in Services
  PROVE  /\ Sound(Finished(l, s))
         /\ Finished(l, s)[s].sock = "none"
         /\ \A t \in Services \ {s} : Finished(l, s)[t] = l[t]
<1> DEFINE c == Closed(l, s)
           f == Moved(c, s, "DATA_FINISH")
<1>1. /\ c \in [Services -> Link]
      /\ \A t \in Services \ {s} : c[t] = l[t]
      /\ c[s].st = l[s].st /\ c[s].sock = "none" /\ c[s].fifo = l[s].fifo
  BY ClosedIs DEF Sound
<1> HIDE DEF c
<1>2. /\ f \in [Services -> Link]
      /\ \A t \in Services \ {s} : f[t] = c[t]
      /\ f[s].st = IF Allows(s, c[s].st, "DATA_FINISH")
                   THEN "DATA_FINISH" ELSE c[s].st
      /\ f[s].sock = c[s].sock /\ f[s].fifo = c[s].fifo
  BY <1>1, MovedIs DEF SocketStatus
<1>3. Finished(l, s) = f
  BY DEF Finished, c
<1> HIDE DEF f
<1>4. l[s].st \in SocketStatus
  BY DEF Sound, Link
<1>5. f[s].st \in {"DATA_FINISH", "ERROR"} /\ (f[s].st = "ERROR" <=> l[s].st = "ERROR")
  BY <1>1, <1>2, <1>4
  DEF Allows, GpsAllows, ConfigAllows, UpdateAllows, Unfinished, SocketStatus,
      Services
<1>6. QED
  BY <1>1, <1>2, <1>3, <1>5 DEF Sound, Services

\* gps_service_destroy leaves no socket of its own open.
LEMMA GpsDestroyedSound ==
  ASSUME NEW l, Sound(l)
  PROVE  /\ Sound(GpsDestroyed(l))
         /\ GpsDestroyed(l)["gps"].sock = "none"
         /\ GpsDestroyed(l)["gps"].st = "ERROR"
         /\ \A t \in Services \ {"gps"} : GpsDestroyed(l)[t] = l[t]
<1>1. CASE l["gps"].st = "ERROR"
  BY <1>1 DEF GpsDestroyed, Sound, Services
<1>2. CASE l["gps"].st # "ERROR"
  <2> DEFINE c == Closed(l, "gps")
             d == [c EXCEPT !["gps"].fifo = FALSE]
             g == Moved(d, "gps", "ERROR")
  <2>0. "gps" \in Services
    BY DEF Services
  <2>1. /\ c \in [Services -> Link]
        /\ \A t \in Services \ {"gps"} : c[t] = l[t]
        /\ c["gps"].st = l["gps"].st /\ c["gps"].sock = "none"
    BY <2>0, ClosedIs DEF Sound
  <2> HIDE DEF c
  <2>2. c["gps"] \in Link
    BY <2>0, <2>1
  <2>3. d = [c EXCEPT !["gps"] = [@ EXCEPT !.fifo = FALSE]]
    BY <2>0, <2>1, <2>2 DEF Link
  <2>4. [c["gps"] EXCEPT !.fifo = FALSE] \in Link
    BY <2>2 DEF Link
  <2>5. /\ d \in [Services -> Link]
        /\ \A t \in Services \ {"gps"} : d[t] = l[t]
        /\ d["gps"].st = l["gps"].st /\ d["gps"].sock = "none"
        /\ d["gps"].fifo = FALSE
    BY <2>0, <2>1, <2>2, <2>3, <2>4 DEF Link
  <2> HIDE DEF d
  <2>6. /\ g \in [Services -> Link]
        /\ \A t \in Services \ {"gps"} : g[t] = d[t]
        /\ g["gps"].st = IF Allows("gps", d["gps"].st, "ERROR")
                         THEN "ERROR" ELSE d["gps"].st
        /\ g["gps"].sock = d["gps"].sock /\ g["gps"].fifo = d["gps"].fifo
    BY <2>0, <2>5, MovedIs DEF SocketStatus
  <2>7. GpsDestroyed(l) = g
    BY <1>2 DEF GpsDestroyed, d, c
  <2> HIDE DEF g
  <2>8. l["gps"].st \in SocketStatus
    BY <2>0 DEF Sound, Link
  <2>9. g["gps"].st = "ERROR"
    BY <1>2, <2>5, <2>6, <2>8 DEF Allows, GpsAllows, Unfinished, SocketStatus
  <2>10. QED
    BY <2>5, <2>6, <2>7, <2>9 DEF Sound, Services
<1>3. QED
  BY <1>1, <1>2

\* The same for config_service_destroy.
LEMMA ConfigDestroyedSound ==
  ASSUME NEW l, Sound(l)
  PROVE  /\ Sound(ConfigDestroyed(l))
         /\ ConfigDestroyed(l)["config"].sock = "none"
         /\ \A t \in Services \ {"config"} : ConfigDestroyed(l)[t] = l[t]
<1>1. CASE l["config"].st = "ERROR"
  BY <1>1 DEF ConfigDestroyed, Sound, Services
<1>2. CASE l["config"].st # "ERROR"
  <2> DEFINE c == Closed(l, "config")
             new == IF l["config"].st \in Unfinished THEN "INIT" ELSE "ERROR"
             g == Moved(c, "config", new)
  <2>0. "config" \in Services /\ new \in SocketStatus
    BY DEF Services, SocketStatus
  <2>1. /\ c \in [Services -> Link]
        /\ \A t \in Services \ {"config"} : c[t] = l[t]
        /\ c["config"].st = l["config"].st /\ c["config"].sock = "none"
    BY <2>0, ClosedIs DEF Sound
  <2> HIDE DEF c
  <2>2. /\ g \in [Services -> Link]
        /\ \A t \in Services \ {"config"} : g[t] = c[t]
        /\ g["config"].st = IF Allows("config", c["config"].st, new)
                            THEN new ELSE c["config"].st
        /\ g["config"].sock = c["config"].sock
    BY <2>0, <2>1, MovedIs
  <2>3. ConfigDestroyed(l) = g
    BY <1>2 DEF ConfigDestroyed, c
  <2> HIDE DEF g
  <2>4. l["config"].st \in SocketStatus
    BY <2>0 DEF Sound, Link
  <2>5. g["config"].st = new
    BY <1>2, <2>1, <2>2, <2>4 DEF Allows, ConfigAllows, Unfinished, SocketStatus
  <2>6. g["config"].st \in {"INIT", "ERROR"}
    BY <2>5
  <2>7. QED
    BY <2>1, <2>2, <2>3, <2>6 DEF Sound, Services
<1>3. QED
  BY <1>1, <1>2

\* The same for update_service_destroy.
LEMMA UpdateDestroyedSound ==
  ASSUME NEW l, Sound(l)
  PROVE  /\ Sound(UpdateDestroyed(l))
         /\ UpdateDestroyed(l)["update"].sock = "none"
         /\ \A t \in Services \ {"update"} : UpdateDestroyed(l)[t] = l[t]
<1>1. CASE l["update"].st = "ERROR"
  BY <1>1 DEF UpdateDestroyed, Sound, Services
<1>2. CASE l["update"].st # "ERROR"
  <2> DEFINE c == Closed(l, "update")
             g == Moved(c, "update", "ERROR")
  <2>0. "update" \in Services
    BY DEF Services
  <2>1. /\ c \in [Services -> Link]
        /\ \A t \in Services \ {"update"} : c[t] = l[t]
        /\ c["update"].st = l["update"].st /\ c["update"].sock = "none"
    BY <2>0, ClosedIs DEF Sound
  <2> HIDE DEF c
  <2>2. /\ g \in [Services -> Link]
        /\ \A t \in Services \ {"update"} : g[t] = c[t]
        /\ g["update"].st = IF Allows("update", c["update"].st, "ERROR")
                            THEN "ERROR" ELSE c["update"].st
        /\ g["update"].sock = c["update"].sock
    BY <2>0, <2>1, MovedIs DEF SocketStatus
  <2>3. UpdateDestroyed(l) = g
    BY <1>2 DEF UpdateDestroyed, c
  <2> HIDE DEF g
  <2>4. l["update"].st \in SocketStatus
    BY <2>0 DEF Sound, Link
  <2>5. g["update"].st = "ERROR"
    BY <1>2, <2>1, <2>2, <2>4 DEF Allows, UpdateAllows, Unfinished, SocketStatus
  <2>6. QED
    BY <2>1, <2>2, <2>3, <2>5 DEF Sound, Services
<1>3. QED
  BY <1>1, <1>2

\* After all three, no socket is open.
LEMMA AllDestroyedSound ==
  ASSUME NEW l, Sound(l)
  PROVE  Sound(AllDestroyed(l)) /\ NoSockets(AllDestroyed(l))
<1> DEFINE c == ConfigDestroyed(l)
           g == GpsDestroyed(c)
<1>1. Sound(c) /\ c["config"].sock = "none"
  BY ConfigDestroyedSound
<1> HIDE DEF c
<1>2. /\ Sound(g) /\ g["gps"].sock = "none"
      /\ \A t \in Services \ {"gps"} : g[t] = c[t]
  BY <1>1, GpsDestroyedSound
<1> HIDE DEF g
<1>3. /\ Sound(UpdateDestroyed(g)) /\ UpdateDestroyed(g)["update"].sock = "none"
      /\ \A t \in Services \ {"update"} : UpdateDestroyed(g)[t] = g[t]
  BY <1>2, UpdateDestroyedSound
<1>4. AllDestroyed(l) = UpdateDestroyed(g)
  BY DEF AllDestroyed, g, c
<1>5. QED
  BY <1>1, <1>2, <1>3, <1>4 DEF NoSockets, Services

\* Giving the bearer up or only the main service: without a bearer there are no
\* sockets.
LEMMA LinksLostSound ==
  ASSUME NEW l, Sound(l)
  PROVE  /\ Sound(LinksLost(l))
         /\ BearerGoes(l) => NoSockets(LinksLost(l))
         /\ LinksLost(l)["gps"].st = "ERROR"
<1>1. CASE BearerGoes(l)
  <2>1. LinksLost(l) = AllDestroyed(l)
    BY <1>1 DEF LinksLost
  <2>2. AllDestroyed(l)["gps"].st = "ERROR"
    <3>1. Sound(ConfigDestroyed(l))
      BY ConfigDestroyedSound
    <3>2. /\ Sound(GpsDestroyed(ConfigDestroyed(l)))
          /\ GpsDestroyed(ConfigDestroyed(l))["gps"].st = "ERROR"
      BY <3>1, GpsDestroyedSound
    <3>3. QED
      BY <3>2, UpdateDestroyedSound DEF AllDestroyed, Services
  <2>3. QED
    BY <2>1, <2>2, AllDestroyedSound
<1>2. CASE ~BearerGoes(l)
  BY <1>2, GpsDestroyedSound DEF LinksLost
<1>3. QED
  BY <1>1, <1>2

\* A service that was created anew.
LEMMA RenewedSound ==
  ASSUME NEW l, Sound(l)
  PROVE  /\ Sound([l EXCEPT !["gps"] = Fresh])
         /\ NoSockets(l) => NoSockets([l EXCEPT !["gps"] = Fresh])
<1>1. Fresh \in Link
  BY LinkAssumption DEF Fresh, Link, SocketStatus
<1>2. QED
  BY <1>1 DEF Sound, Fresh, Services, NoSockets

\* gps_service_destroy_gprs keeps the bearer and its sockets together.
LEMMA DestroyGprsOk ==
  ASSUME NEW l, Sound(l), gprs \in Bearer,
         gprs # "TIME_PROC" => NoSockets(l), DestroyGprs(l)
  PROVE  LinksOk'
<1>1. Sound(link') /\ (BearerGoes(l) => NoSockets(link'))
  BY LinksLostSound DEF DestroyGprs
<1>2. CASE BearerGoes(l)
  BY <1>1, <1>2 DEF LinksOk, DestroyGprs, GprsLost, Bearer
<1>3. CASE ~BearerGoes(l)
  <2>1. gprs' = gprs /\ link' = GpsDestroyed(l)
    BY <1>3 DEF DestroyGprs, GprsLost, LinksLost
  <2>2. NoSockets(l) => NoSockets(GpsDestroyed(l))
    BY GpsDestroyedSound DEF NoSockets, Services
  <2>3. QED
    BY <1>1, <2>1, <2>2 DEF LinksOk
<1>4. QED
  BY <1>2, <1>3

\* gprs_destroy keeps the invariant.
LEMMA GprsDestroyedOk ==
  ASSUME LinksOk, GprsDestroyed
  PROVE  LinksOk'
BY AllDestroyedSound DEF LinksOk, GprsDestroyed, Bearer

\* A socket is given to a service that connects.
WithSocket(l, s, k) == [l EXCEPT ![s].sock = k]

\* So does opening one.
LEMMA SocketIs ==
  ASSUME NEW l, Sound(l), NEW s \in Services, NEW k \in {"wait", "open"}
  PROVE  /\ WithSocket(l, s, k) \in [Services -> Link]
         /\ \A t \in Services \ {s} : WithSocket(l, s, k)[t] = l[t]
         /\ WithSocket(l, s, k)[s].sock = k
         /\ WithSocket(l, s, k)[s].st = l[s].st
         /\ WithSocket(l, s, k)[s].fifo = l[s].fifo
<1> DEFINE m == WithSocket(l, s, k)
<1>1. l \in [Services -> Link] /\ l[s] \in Link
  BY DEF Sound
<1>2. m = [l EXCEPT ![s] = [@ EXCEPT !.sock = k]]
  BY <1>1 DEF Link, WithSocket
<1> HIDE DEF m
<1>3. [l[s] EXCEPT !.sock = k] \in Link
  BY <1>1 DEF Link
<1>4. /\ m \in [Services -> Link]
      /\ \A t \in Services \ {s} : m[t] = l[t]
      /\ m[s].sock = k /\ m[s].st = l[s].st /\ m[s].fifo = l[s].fifo
  BY <1>1, <1>2, <1>3 DEF Link
<1>5. QED
  BY <1>4 DEF m

\* The connection is made, at once or by the callback.
LEMMA ConnectionOkOk ==
  ASSUME NEW l, Sound(l), gprs = "TIME_PROC",
         NEW s \in Services, l[s].st = "CONNECTING", NEW sends \in BOOLEAN,
         ConnectionOk([l EXCEPT ![s].sock = "open"], s, sends)
  PROVE  LinksOk'
<1> DEFINE m == WithSocket(l, s, "open")
           next == IF s = "gps" THEN "LOGIN" ELSE "WORK"
           n == Moved(m, s, next)
<1>0. next \in SocketStatus
  BY DEF SocketStatus
<1>1. /\ m \in [Services -> Link]
      /\ \A t \in Services \ {s} : m[t] = l[t]
      /\ m[s].sock = "open" /\ m[s].st = l[s].st /\ m[s].fifo = l[s].fifo
  BY SocketIs
<1>2. ConnectionOk(m, s, sends)
  BY DEF WithSocket
<1> HIDE DEF m
<1>3. /\ n \in [Services -> Link]
      /\ \A t \in Services \ {s} : n[t] = m[t]
      /\ n[s].st = IF Allows(s, m[s].st, next) THEN next ELSE m[s].st
      /\ n[s].sock = m[s].sock /\ n[s].fifo = m[s].fifo
  BY <1>0, <1>1, MovedIs
<1>4. Allows(s, "CONNECTING", next)
  BY DEF Allows, GpsAllows, ConfigAllows, UpdateAllows, Services
<1>5. CASE s = "gps"
  <2>1. \/ link' = n /\ UNCHANGED gprs
        \/ DestroyGprs(n)
    BY <1>2, <1>5 DEF ConnectionOk
  <2> HIDE DEF n
  <2>2. n[s].st = "LOGIN"
    BY <1>1, <1>3, <1>4, <1>5
  <2>3. Sound(n)
    BY <1>1, <1>3, <1>5, <2>2 DEF Sound
  <2>4. QED
    BY <2>1, <2>3, DestroyGprsOk DEF LinksOk, Bearer
<1>6. CASE s # "gps"
  <2>1. \/ link' = n /\ UNCHANGED gprs
        \/ link' = Finished(n, s) /\ UNCHANGED gprs
    BY <1>2, <1>6 DEF ConnectionOk, Requested
  <2> HIDE DEF n
  <2>2. n[s].st = "WORK"
    BY <1>1, <1>3, <1>4, <1>6
  <2>3. Sound(n)
    BY <1>1, <1>3, <1>6, <2>2 DEF Sound, Services
  <2>4. QED
    BY <2>1, <2>3, FinishedSound DEF LinksOk, Bearer
<1>7. QED
  BY <1>5, <1>6

\* Connecting a service keeps the invariant.
LEMMA ConnectOk ==
  ASSUME NEW l, Sound(l), gprs = "TIME_PROC",
         NEW s \in Services, l[s].st = "CONNECTING", NEW sends \in BOOLEAN,
         Connect(l, s, sends)
  PROVE  LinksOk'
<1>1. CASE link' = l /\ UNCHANGED gprs
  BY <1>1 DEF LinksOk, Bearer
<1>2. CASE link' = [l EXCEPT ![s].sock = "wait"] /\ UNCHANGED gprs
  <2>0. link' = WithSocket(l, s, "wait")
    BY <1>2 DEF WithSocket
  <2>1. /\ link' \in [Services -> Link]
        /\ \A t \in Services \ {s} : link'[t] = l[t]
        /\ link'[s].sock = "wait" /\ link'[s].st = l[s].st
        /\ link'[s].fifo = l[s].fifo
    BY <2>0, SocketIs
  <2>2. Sound(link')
    BY <2>1 DEF Sound, Services
  <2>3. QED
    BY <1>2, <2>2 DEF LinksOk, Bearer
<1>3. CASE ConnectionOk([l EXCEPT ![s].sock = "open"], s, sends)
  BY <1>3, ConnectionOkOk
<1>4. QED
  BY <1>1, <1>2, <1>3 DEF Connect

\* A transition to INIT, DATA_FINISH or ERROR of a service without a socket,
\* the main service's to ERROR apart.
LEMMA MovedSound ==
  ASSUME NEW l, Sound(l), NEW s \in Services, l[s].sock = "none",
         NEW new \in {"INIT", "CONNECTING", "DATA_FINISH"},
         s = "gps" => l[s].st # "ERROR"
  PROVE  /\ Sound(Moved(l, s, new))
         /\ NoSockets(l) => NoSockets(Moved(l, s, new))
<1> DEFINE m == Moved(l, s, new)
<1>1. /\ m \in [Services -> Link]
      /\ \A t \in Services \ {s} : m[t] = l[t]
      /\ m[s].st = IF Allows(s, l[s].st, new) THEN new ELSE l[s].st
      /\ m[s].sock = l[s].sock /\ m[s].fifo = l[s].fifo
  BY MovedIs DEF Sound, SocketStatus
<1> HIDE DEF m
<1>2. Sound(m) /\ (NoSockets(l) => NoSockets(m))
  BY <1>1 DEF Sound, Services, NoSockets
<1>3. QED
  BY <1>2 DEF m

\* Counting a failure disturbs nothing else.
LEMMA FailedSound ==
  ASSUME NEW l, Sound(l), NEW s \in Services
  PROVE  /\ Sound(Failed(l, s))
         /\ \A t \in Services : /\ Failed(l, s)[t].st = l[t].st
                                /\ Failed(l, s)[t].sock = l[t].sock
         /\ \A t \in Services \ {s} : Failed(l, s)[t] = l[t]
<1> DEFINE n == (l[s].fails + 1) % Width
           m == Failed(l, s)
<1>1. l \in [Services -> Link] /\ l[s] \in Link
  BY DEF Sound
<1>2. n \in 0 .. Width - 1
  BY <1>1, LinkAssumption DEF Link
<1>3. m = [l EXCEPT ![s] = [@ EXCEPT !.fails = n]]
  BY <1>1 DEF Failed, Link
<1> HIDE DEF n
<1>4. [l[s] EXCEPT !.fails = n] \in Link
  BY <1>1, <1>2 DEF Link
<1>5. /\ m \in [Services -> Link]
      /\ \A t \in Services \ {s} : m[t] = l[t]
      /\ m[s].st = l[s].st /\ m[s].sock = l[s].sock /\ m[s].fifo = l[s].fifo
  BY <1>1, <1>3, <1>4 DEF Link
<1> HIDE DEF m
<1>6. Sound(m)
  BY <1>5 DEF Sound, Services
<1>7. QED
  BY <1>5, <1>6 DEF m

-----------------------------------------------------------------------------
(* The actions, by the part they belong to.                                *)

\* gps_service_init_proc keeps it.
LEMMA InitProcOk ==
  ASSUME LinksOk, NEW s \in Services, InitProc(s)
  PROVE  LinksOk'
<1>1. /\ Sound(link) /\ gprs = "TIME_PROC" /\ link[s].st = "INIT"
      /\ link[s].sock = "none"
  BY DEF InitProc, Running, LinksOk, Sound
<1> DEFINE m == Moved(link, s, "CONNECTING")
<1>2. Sound(m)
  BY <1>1, MovedSound
<1>3. m[s].st = "CONNECTING"
  <2>1. Allows(s, "INIT", "CONNECTING")
    BY DEF Allows, GpsAllows, ConfigAllows, UpdateAllows, Services
  <2>2. QED
    BY <1>1, <2>1, MovedIs DEF Sound, SocketStatus
<1>4. PICK sends \in BOOLEAN : Connect(m, s, sends)
  BY DEF InitProc
<1> HIDE DEF m
<1>5. QED
  BY <1>1, <1>2, <1>3, <1>4, ConnectOk

\* gps_service_connecting_proc keeps it.
LEMMA ConnectingProcOk ==
  ASSUME LinksOk, NEW s \in Services, ConnectingProc(s)
  PROVE  LinksOk'
<1> DEFINE f == Failed(link, s)
           c == Closed(f, s)
<1>1. /\ Sound(link) /\ gprs = "TIME_PROC" /\ link[s].st = "CONNECTING"
  BY DEF ConnectingProc, Running, LinksOk
<1>2. Sound(f) /\ f[s].st = "CONNECTING"
  BY <1>1, FailedSound
<1> HIDE DEF f
<1>3. /\ c \in [Services -> Link]
      /\ \A t \in Services \ {s} : c[t] = f[t]
      /\ c[s].st = f[s].st /\ c[s].sock = "none" /\ c[s].fifo = f[s].fifo
  BY <1>2, ClosedIs DEF Sound
<1>4. \/ GiveUp(c, s)
      \/ \E sends \in BOOLEAN : Connect(c, s, sends)
  BY DEF ConnectingProc, f
<1> HIDE DEF c
<1>5. Sound(c) /\ c[s].st = "CONNECTING"
  BY <1>2, <1>3 DEF Sound, Services
<1>6. CASE GiveUp(c, s)
  <2>1. \/ link' = Moved(c, s, "INIT") /\ UNCHANGED gprs
        \/ DestroyGprs(c)
        \/ link' = Finished(c, s) /\ UNCHANGED gprs
    BY <1>6 DEF GiveUp
  <2>2. Sound(Moved(c, s, "INIT"))
    BY <1>3, <1>5, MovedSound
  <2>3. Sound(Finished(c, s))
    BY <1>5, FinishedSound
  <2>4. QED
    BY <1>1, <1>5, <2>1, <2>2, <2>3, DestroyGprsOk DEF LinksOk, Bearer
<1>7. CASE \E sends \in BOOLEAN : Connect(c, s, sends)
  BY <1>1, <1>5, <1>7, ConnectOk
<1>8. QED
  BY <1>4, <1>6, <1>7

\* Finishing a service while the bearer is up.
LEMMA FinishedOk ==
  ASSUME LinksOk, NEW s \in Services, link' = Finished(link, s), UNCHANGED gprs
  PROVE  LinksOk'
<1>1. /\ Sound(link') /\ link'[s].sock = "none"
      /\ \A t \in Services \ {s} : link'[t] = link[t]
  BY FinishedSound DEF LinksOk
<1>2. NoSockets(link) => NoSockets(link')
  BY <1>1 DEF NoSockets
<1>3. QED
  BY <1>1, <1>2 DEF LinksOk

\* gps_service_work_proc keeps it.
LEMMA WorkProcOk ==
  ASSUME LinksOk, WorkProc
  PROVE  LinksOk'
<1>1. PICK sends \in BOOLEAN, broken \in BOOLEAN :
        LET l == IF sends THEN link ELSE LinksLost(link) IN
        /\ link' = IF broken THEN Finished(l, "gps") ELSE l
        /\ gprs' = IF sends THEN gprs ELSE GprsLost(link)
  BY DEF WorkProc
<1>2. Sound(link) /\ gprs = "TIME_PROC" /\ "gps" \in Services
  BY DEF LinksOk, WorkProc, Running, Services
<1>3. CASE sends
  <2>1. (link' = link \/ link' = Finished(link, "gps")) /\ UNCHANGED gprs
    BY <1>1, <1>3
  <2>2. QED
    BY <1>2, <2>1, FinishedOk DEF LinksOk
<1>4. CASE ~sends
  <2> DEFINE l == LinksLost(link)
  <2>1. /\ Sound(l) /\ l["gps"].st = "ERROR"
        /\ BearerGoes(link) => NoSockets(l)
    BY <1>2, LinksLostSound
  <2>2. link' = l \/ link' = Finished(l, "gps")
    BY <1>1, <1>4
  <2> HIDE DEF l
  <2>3. /\ Sound(Finished(l, "gps"))
        /\ NoSockets(l) => NoSockets(Finished(l, "gps"))
    BY <1>2, <2>1, FinishedSound DEF NoSockets
  <2>4. gprs' \in Bearer /\ (gprs' # "TIME_PROC" => BearerGoes(link))
    BY <1>1, <1>2, <1>4 DEF GprsLost, Bearer
  <2>5. QED
    BY <2>1, <2>2, <2>3, <2>4 DEF LinksOk
<1>5. QED
  BY <1>3, <1>4

\* The server's answer to the login keeps it.
LEMMA LoginResponseOk ==
  ASSUME LinksOk, LoginResponse
  PROVE  LinksOk'
<1>1. /\ Sound(link) /\ gprs = "TIME_PROC" /\ "gps" \in Services
      /\ link["gps"].st = "LOGIN" /\ "WORK" \in SocketStatus
  BY DEF LinksOk, LoginResponse, Running, Services, SocketStatus
<1>2. CASE link' = Moved(link, "gps", "WORK") /\ UNCHANGED gprs
  <2>1. /\ link' \in [Services -> Link]
        /\ \A t \in Services \ {"gps"} : link'[t] = link[t]
        /\ link'["gps"].st = "WORK"
        /\ link'["gps"].sock = link["gps"].sock
        /\ link'["gps"].fifo = link["gps"].fifo
    BY <1>1, <1>2, MovedIs DEF Sound, Allows, GpsAllows
  <2>2. Sound(link')
    BY <1>1, <2>1 DEF Sound, Services
  <2>3. QED
    BY <1>1, <1>2, <2>2 DEF LinksOk, Bearer
<1>3. CASE link' = Moved(LinksLost(link), "gps", "WORK") /\ gprs' = GprsLost(link)
  <2> DEFINE l == LinksLost(link)
  <2>1. /\ Sound(l) /\ l["gps"].st = "ERROR"
        /\ BearerGoes(link) => NoSockets(l)
    BY <1>1, LinksLostSound
  <2>2. link' = Moved(l, "gps", "WORK")
    BY <1>3
  <2> HIDE DEF l
  <2>3. link' = l
    BY <2>1, <2>2 DEF Moved, Allows, GpsAllows, Unfinished
  <2>4. gprs' \in Bearer /\ (gprs' # "TIME_PROC" => BearerGoes(link))
    BY <1>1, <1>3 DEF GprsLost, Bearer
  <2>5. QED
    BY <2>1, <2>3, <2>4 DEF LinksOk
<1>4. CASE DestroyGprs(link)
  BY <1>4, DestroyGprsOk DEF LinksOk
<1>5. QED
  BY <1>2, <1>3, <1>4 DEF LoginResponse

\* The other actions of the main service.
LEMMA GpsActionsOk ==
  ASSUME LinksOk,
         \/ LoginProc \/ SendFails \/ Heartbeat \/ Damaged
         \/ DataFinishProc \/ ChangeConfig \/ LookupDone
  PROVE  LinksOk'
<1>0. "gps" \in Services
  BY DEF Services
<1>1. CASE LoginProc \/ Damaged
  BY <1>0, <1>1, FinishedOk DEF LoginProc, Damaged
<1>2. CASE SendFails
  BY <1>2, DestroyGprsOk DEF SendFails, LinksOk
<1>3. CASE Heartbeat \/ LookupDone
  BY <1>3 DEF Heartbeat, LookupDone, LinksOk
<1>4. CASE DataFinishProc
  <2>1. /\ Sound(link) /\ link["gps"].st # "ERROR"
        /\ link["gps"].sock = "none"
    BY <1>0, <1>4 DEF DataFinishProc, Running, LinksOk, Sound
  <2>2. /\ Sound(Moved(link, "gps", "INIT"))
        /\ NoSockets(link) => NoSockets(Moved(link, "gps", "INIT"))
    BY <1>0, <2>1, MovedSound
  <2>3. (link' = link \/ link' = Moved(link, "gps", "INIT")) /\ UNCHANGED gprs
    BY <1>4 DEF DataFinishProc
  <2>4. QED
    BY <2>2, <2>3 DEF LinksOk
<1>5. CASE ChangeConfig
  <2> DEFINE c == Closed(link, "gps")
             m == Moved(c, "gps", "ERROR")
  <2>1. /\ c \in [Services -> Link]
        /\ \A t \in Services \ {"gps"} : c[t] = link[t]
    BY <1>0, ClosedIs DEF LinksOk, Sound
  <2> HIDE DEF c
  <2>2. /\ m \in [Services -> Link]
        /\ \A t \in Services \ {"gps"} : m[t] = link[t]
    BY <1>0, <2>1, MovedIs DEF SocketStatus
  <2>3. link' = [m EXCEPT !["gps"] = Fresh] /\ UNCHANGED gprs
    BY <1>5 DEF ChangeConfig, c
  <2> HIDE DEF m
  <2>4. Fresh \in Link
    BY LinkAssumption DEF Fresh, Link, SocketStatus
  <2>5. Sound(link') /\ (NoSockets(link) => NoSockets(link'))
    BY <2>2, <2>3, <2>4 DEF LinksOk, Sound, Fresh, Services, NoSockets
  <2>6. QED
    BY <2>3, <2>5 DEF LinksOk
<1>6. QED
  BY <1>1, <1>2, <1>3, <1>4, <1>5

\* config_msg_request or update_msg_send_request after one more failure.
LEMMA WorkFailedOk ==
  ASSUME LinksOk, NEW s \in Services, gprs = "TIME_PROC", UNCHANGED gprs,
         \/ link' = Finished(Failed(link, s), s)
         \/ \E sends \in BOOLEAN : link' = Requested(Failed(link, s), s, sends)
  PROVE  LinksOk'
<1>1. Sound(Failed(link, s))
  BY FailedSound DEF LinksOk
<1>2. Sound(Finished(Failed(link, s), s))
  BY <1>1, FinishedSound
<1>3. link' = Failed(link, s) \/ link' = Finished(Failed(link, s), s)
  BY DEF Requested
<1>4. QED
  BY <1>1, <1>2, <1>3 DEF LinksOk, Bearer

\* The configuration service keeps it.
LEMMA ConfigActionsOk ==
  ASSUME LinksOk, ConfigWorkProc \/ ConfigReceive \/ ConfigFinishProc
  PROVE  LinksOk'
<1>0. "config" \in Services /\ Sound(link)
  BY DEF Services, LinksOk
<1>1. CASE ConfigWorkProc
  <2>1. \/ link' = Finished(Failed(link, "config"), "config")
        \/ \E sends \in BOOLEAN :
             link' = Requested(Failed(link, "config"), "config", sends)
    BY <1>1 DEF ConfigWorkProc
  <2>2. QED
    BY <1>0, <1>1, <2>1, WorkFailedOk DEF ConfigWorkProc, Running
<1>2. CASE ConfigReceive
  <2>1. gprs = "TIME_PROC" /\ UNCHANGED gprs
    BY <1>2 DEF ConfigReceive, Running
  <2>2. \/ link' = Finished(link, "config")
        \/ link' = [Finished(link, "config") EXCEPT !["gps"] = Fresh]
        \/ link' = ConfigDestroyed(link)
    BY <1>2 DEF ConfigReceive
  <2>3. Sound(Finished(link, "config")) /\ Sound(ConfigDestroyed(link))
    BY <1>0, FinishedSound, ConfigDestroyedSound
  <2>4. Sound([Finished(link, "config") EXCEPT !["gps"] = Fresh])
    BY <2>3, RenewedSound
  <2>5. QED
    BY <2>1, <2>2, <2>3, <2>4 DEF LinksOk, Bearer
<1>3. CASE ConfigFinishProc
  <2> DEFINE r == Recreated(link)
  <2>1. /\ gprs = "TIME_PROC" /\ UNCHANGED gprs
        /\ link["config"].st \in {"DATA_FINISH", "ERROR"}
    BY <1>3 DEF ConfigFinishProc, Running
  <2>2. link' = r \/ link' = Moved(r, "config", "INIT")
    BY <1>3 DEF ConfigFinishProc
  <2>3. Sound(r)
    BY <1>0, RenewedSound DEF Recreated
  <2>4. r["config"] = link["config"]
    BY <1>0 DEF Recreated, Sound, Services
  <2> HIDE DEF r
  <2>5. r["config"].sock = "none"
    BY <1>0, <2>1, <2>4 DEF Sound
  <2>6. Sound(Moved(r, "config", "INIT"))
    BY <1>0, <2>3, <2>5, MovedSound
  <2>7. QED
    BY <2>1, <2>2, <2>3, <2>6 DEF LinksOk, Bearer
<1>4. QED
  BY <1>1, <1>2, <1>3

\* The update service keeps it.
LEMMA UpdateActionsOk ==
  ASSUME LinksOk, UpdateWorkProc \/ UpdateReceive \/ UpdateFinishProc
  PROVE  LinksOk'
<1>0. "update" \in Services /\ Sound(link)
  BY DEF Services, LinksOk
<1>1. CASE UpdateWorkProc
  <2>1. \/ link' = Finished(Failed(link, "update"), "update")
        \/ \E sends \in BOOLEAN :
             link' = Requested(Failed(link, "update"), "update", sends)
    BY <1>1 DEF UpdateWorkProc
  <2>2. QED
    BY <1>0, <1>1, <2>1, WorkFailedOk DEF UpdateWorkProc, Running
<1>2. CASE UpdateReceive
  <2>1. gprs = "TIME_PROC" /\ UNCHANGED gprs
    BY <1>2 DEF UpdateReceive, Running
  <2>2. CASE link' = Finished(link, "update")
    BY <1>0, <2>1, <2>2, FinishedOk
  <2>3. CASE link' = [link EXCEPT !["update"].fails = 0]
    <3>1. link \in [Services -> Link] /\ link["update"] \in Link
      BY <1>0 DEF Sound
    <3>2. link' = [link EXCEPT !["update"] = [@ EXCEPT !.fails = 0]]
      BY <1>0, <2>3, <3>1 DEF Link
    <3>3. [link["update"] EXCEPT !.fails = 0] \in Link
      BY <3>1, LinkAssumption DEF Link
    <3>4. /\ link' \in [Services -> Link]
          /\ \A t \in Services \ {"update"} : link'[t] = link[t]
          /\ link'["update"].st = link["update"].st
          /\ link'["update"].sock = link["update"].sock
      BY <1>0, <3>1, <3>2, <3>3 DEF Link
    <3>5. Sound(link')
      BY <1>0, <3>4 DEF Sound, Services
    <3>6. QED
      BY <2>1, <3>5 DEF LinksOk, Bearer
  <2>4. QED
    BY <1>2, <2>2, <2>3 DEF UpdateReceive
<1>3. CASE UpdateFinishProc
  <2>1. /\ gprs = "TIME_PROC" /\ UNCHANGED gprs
        /\ link["update"].st \in {"DATA_FINISH", "ERROR"}
        /\ link' = Moved(link, "update", "INIT")
    BY <1>3 DEF UpdateFinishProc, Running
  <2>2. link["update"].sock = "none"
    BY <1>0, <2>1 DEF Sound
  <2>3. Sound(link')
    BY <1>0, <2>1, <2>2, MovedSound
  <2>4. QED
    BY <2>1, <2>3 DEF LinksOk, Bearer
<1>4. QED
  BY <1>1, <1>2, <1>3

\* What becomes of the bearer keeps it.
LEMMA BearerActionsOk ==
  ASSUME LinksOk,
         GprsProc \/ Command \/ GoodAgo \/ HeardAgo \/ Restart
  PROVE  LinksOk'
<1>1. CASE GprsProc
  <2>1. \/ GprsDestroyed
        \/ /\ gprs # "TIME_PROC" /\ gprs' \in Bearer
           /\ UNCHANGED link
    BY <1>1 DEF GprsProc, GprsInitProc, GprsCallOkProc, GprsActivatedProc,
                GprsFailedProc, Bearer
  <2>2. QED
    BY <2>1, GprsDestroyedOk DEF LinksOk
<1>2. CASE Command
  BY <1>2, GprsDestroyedOk DEF Command
<1>3. CASE GoodAgo \/ HeardAgo
  BY <1>3 DEF GoodAgo, HeardAgo, LinksOk
<1>4. CASE Restart
  <2>1. link' = [s \in Services |-> Fresh] /\ gprs' = "INIT"
    BY <1>4 DEF Restart
  <2>2. Fresh \in Link
    BY LinkAssumption DEF Fresh, Link, SocketStatus
  <2>3. QED
    BY <2>1, <2>2 DEF LinksOk, Sound, NoSockets, Fresh, Bearer, Services
<1>5. QED
  BY <1>1, <1>2, <1>3, <1>4

\* The sockets' callbacks keep it.
LEMMA CallbacksOk ==
  ASSUME LinksOk, NEW s \in Services,
         Connected(s) \/ SocketError(s) \/ RecvError(s)
  PROVE  LinksOk'
<1>0. Sound(link)
  BY DEF LinksOk
<1>1. CASE Connected(s)
  <2>1. /\ link[s].sock = "wait"
        /\ \E sends \in BOOLEAN :
             ConnectionOk([link EXCEPT ![s].sock = "open"], s, sends)
    BY <1>1 DEF Connected
  <2>2. gprs = "TIME_PROC"
    BY <2>1 DEF LinksOk, NoSockets
  <2>3. link[s].st = "CONNECTING"
    BY <1>0, <2>1 DEF Sound, Link, SocketStatus
  <2>4. QED
    BY <1>0, <2>1, <2>2, <2>3, ConnectionOkOk
<1>2. CASE SocketError(s)
  <2>1. \/ DestroyGprs(link)
        \/ /\ UNCHANGED gprs
           /\ \/ link' = ConfigDestroyed(link)
              \/ link' = UpdateDestroyed(link)
    BY <1>2 DEF SocketError, Destroyed, Services
  <2>2. gprs = "TIME_PROC"
    BY <1>2 DEF SocketError, LinksOk, NoSockets
  <2>3. Sound(ConfigDestroyed(link)) /\ Sound(UpdateDestroyed(link))
    BY <1>0, ConfigDestroyedSound, UpdateDestroyedSound
  <2>4. QED
    BY <1>0, <2>1, <2>2, <2>3, DestroyGprsOk DEF LinksOk, Bearer
<1>3. CASE RecvError(s)
  <2>1. /\ UNCHANGED gprs
        /\ \/ link' = ConfigDestroyed(link)
           \/ link' = Finished(link, s)
    BY <1>3 DEF RecvError
  <2>2. gprs = "TIME_PROC"
    BY <1>3 DEF RecvError, LinksOk, NoSockets
  <2>3. Sound(ConfigDestroyed(link)) /\ Sound(Finished(link, s))
    BY <1>0, ConfigDestroyedSound, FinishedSound
  <2>4. QED
    BY <2>1, <2>2, <2>3 DEF LinksOk, Bearer
<1>4. QED
  BY <1>1, <1>2, <1>3

-----------------------------------------------------------------------------
(* The inductive invariant.                                                *)

\* The flags stay what they may be.
LEMMA FlagTypesStep ==
  ASSUME FlagTypes, [Next]_vars
  PROVE  FlagTypes'
BY DEF FlagTypes, Next, vars, GprsProc, GprsInitProc, GprsCallOkProc,
       GprsActivatedProc, GprsFailedProc, InitProc, ConnectingProc, LookUp, Tick,
       LoginProc, WorkProc, SendFails, LoginResponse, Heartbeat, Damaged,
       DataFinishProc, ChangeConfig, LookupDone, ConfigWorkProc, ConfigReceive,
       ConfigFinishProc, UpdateWorkProc, UpdateReceive, UpdateFinishProc,
       Command, Connected, SocketError, RecvError, GoodAgo, HeardAgo, Restart

\* Asking for an address keeps the invariant of the bearer.
LEMMA LookUpOk ==
  ASSUME LinksOk, NEW s \in Services, LookUp(s)
  PROVE  LinksOk'
<1>1. link \in [Services -> Link] /\ link[s] \in Link
  BY DEF LinksOk, Sound
<1>2. link' = [link EXCEPT ![s] = [@ EXCEPT !.asked = TRUE]] /\ UNCHANGED gprs
  BY <1>1 DEF LookUp, Link
<1>3. [link[s] EXCEPT !.asked = TRUE] \in Link
  BY <1>1 DEF Link
<1>4. /\ link' \in [Services -> Link]
      /\ \A t \in Services \ {s} : link'[t] = link[t]
      /\ link'[s].st = link[s].st /\ link'[s].sock = link[s].sock
      /\ link'[s].fifo = link[s].fifo
  BY <1>1, <1>2, <1>3 DEF Link
<1>5. Sound(link') /\ (NoSockets(link) => NoSockets(link'))
  BY <1>4 DEF LinksOk, Sound, Services, NoSockets
<1>6. QED
  BY <1>2, <1>5 DEF LinksOk

(* No handler, callback or command breaks the invariant, however its sends *)
(* and connections end.                                                    *)
THEOREM LinkInvariance == Spec => []IInv
<1>1. Init => IInv
  <2>1. Fresh \in Link
    BY LinkAssumption DEF Fresh, Link, SocketStatus
  <2>2. Init => LinksOk
    BY <2>1 DEF Init, LinksOk, Sound, NoSockets, Fresh, Bearer, Services
  <2>3. Init => FlagTypes
    BY DEF Init, FlagTypes
  <2>4. QED
    BY <2>2, <2>3 DEF IInv
<1>2. IInv /\ [Next]_vars => IInv'
  <2> SUFFICES ASSUME IInv, [Next]_vars
               PROVE  LinksOk'
    BY FlagTypesStep DEF IInv
  <2>0. LinksOk
    BY DEF IInv
  <2>1. CASE UNCHANGED vars
    BY <2>0, <2>1 DEF vars, LinksOk
  <2>2. CASE GprsProc \/ Command \/ GoodAgo \/ HeardAgo \/ Restart
    BY <2>0, <2>2, BearerActionsOk
  <2>3. CASE \E s \in Services : InitProc(s) \/ ConnectingProc(s) \/ LookUp(s)
    BY <2>0, <2>3, InitProcOk, ConnectingProcOk, LookUpOk
  <2>4. CASE \/ LoginProc \/ SendFails \/ Heartbeat \/ Damaged
             \/ DataFinishProc \/ ChangeConfig \/ LookupDone
    BY <2>0, <2>4, GpsActionsOk
  <2>5. CASE WorkProc \/ LoginResponse
    BY <2>0, <2>5, WorkProcOk, LoginResponseOk
  <2>6. CASE ConfigWorkProc \/ ConfigReceive \/ ConfigFinishProc
    BY <2>0, <2>6, ConfigActionsOk
  <2>7. CASE UpdateWorkProc \/ UpdateReceive \/ UpdateFinishProc
    BY <2>0, <2>7, UpdateActionsOk
  <2>8. CASE \E s \in Services : Connected(s) \/ SocketError(s) \/ RecvError(s)
    BY <2>0, <2>8, CallbacksOk
  <2>9. QED
    BY <2>1, <2>2, <2>3, <2>4, <2>5, <2>6, <2>7, <2>8 DEF Next
<1>3. QED
  BY <1>1, <1>2, PTL DEF Spec

(* Every state has the right types: the failure counts stay in their 8     *)
(* bits although the update service's grows without end.                   *)
THEOREM BearerTypes == Spec => []TypeOK
<1>1. IInv => TypeOK
  BY IInvIs
<1>2. QED
  BY <1>1, LinkInvariance, PTL

(* Whichever handler gives the bearer up, no socket stays open on it.      *)
THEOREM NoSocketWithoutBearer == Spec => []SocketsNeedBearer
<1>1. IInv => SocketsNeedBearer
  BY IInvIs
<1>2. QED
  BY <1>1, LinkInvariance, PTL

(* A service has a connected socket exactly when it is at work.            *)
THEOREM SocketsFollowStatus == Spec => []SocketsMatchStatus
<1>1. IInv => SocketsMatchStatus
  BY IInvIs
<1>2. QED
  BY <1>1, LinkInvariance, PTL

(* A main service that was destroyed has no fifo, which is how it is found *)
(* and created again, and one that lives has its fifo.                     *)
THEOREM FifoFollowsStatus == Spec => []FifoMatchesStatus
<1>1. IInv => FifoMatchesStatus
  BY IInvIs
<1>2. QED
  BY <1>1, LinkInvariance, PTL

-----------------------------------------------------------------------------
(* The lookups of names: DnsArbiter.                                       *)

\* The types of the slot, of what the init procedures write, and of the rest.
SlotTypes ==
  /\ cur \in Sockets \cup {NoSocket}
  /\ curName \in Names \cup {NoName}
  /\ curStatus \in {"INIT", "CONTINUE", "SUCCESS", "FAILED"}
  /\ expired \in BOOLEAN
  /\ pending \subseteq Names

ServiceTypes ==
  /\ status \in [Sockets -> {"init", "up", "error"}]
  /\ addr \in [Sockets -> Names \cup {NoName}]
  /\ ipCache \in [Sockets -> Names \cup {NoIp, FixedIp}]
  /\ requested \subseteq Sockets

FailTypes == fail \in [Sockets -> 0 .. MaxFail - 1]

\* The types of the arbiter are those of its slot and of its flags.
LEMMA TypeParts == DnsTypeOK <=> SlotTypes /\ ServiceTypes /\ FailTypes
  BY DEF DnsTypeOK, SlotTypes, ServiceTypes, FailTypes

\* A slot that is freed keeps the types.
LEMMA FreeTypes == SlotTypes /\ Free => SlotTypes'
  BY DEF SlotTypes, Free

\* A lookup that begins keeps them.
LEMMA StartTypes ==
  ASSUME SlotTypes, ServiceTypes, NEW s \in Sockets, StartLookup(s)
  PROVE  SlotTypes'
<1>1. CASE addr[s] = NoName
  BY <1>1, FreeTypes DEF StartLookup
<1>2. CASE addr[s] # NoName
  <2>1. addr[s] \in Names
    BY <1>2 DEF ServiceTypes
  <2> QED
    BY <1>2, <2>1 DEF StartLookup, SlotTypes
<1> QED
  BY <1>1, <1>2

\* A result that is handed over keeps them.
LEMMA HandOverTypes ==
  ASSUME SlotTypes, ServiceTypes, NEW s \in Sockets, HandOver(s)
  PROVE  SlotTypes'
  BY FreeTypes, StartTypes DEF HandOver

\* The services' init procedures keep them.
LEMMA InitProcsTypes ==
  ASSUME ServiceTypes, NEW req \in SUBSET Sockets, InitProcs(req)
  PROVE  ServiceTypes'
<1>1. status' \in [Sockets -> {"init", "up", "error"}]
  BY DEF InitProcs, ServiceTypes
<1> QED
  BY <1>1 DEF InitProcs, ServiceTypes

(* Every state has the right types: in particular a request never counts   *)
(* MAX_GET_HOST_REPEAT failures without being dropped.                     *)
THEOREM NamesTypes == DnsSpec => []DnsTypeOK
<1>1. DnsInit => DnsTypeOK
  <2> SUFFICES ASSUME DnsInit PROVE DnsTypeOK
    OBVIOUS
  <2>1. SlotTypes
    BY DEF DnsInit, SlotTypes
  <2>2. ServiceTypes
    BY DEF DnsInit, ServiceTypes
  <2>3. FailTypes
    BY DnsAssumption DEF DnsInit, FailTypes, DnsAssumption
  <2> QED
    BY <2>1, <2>2, <2>3, TypeParts
<1>2. DnsTypeOK /\ [DnsNext]_dnsVars => DnsTypeOK'
  <2> SUFFICES ASSUME DnsTypeOK, [DnsNext]_dnsVars PROVE DnsTypeOK'
    OBVIOUS
  <2>a. SlotTypes /\ ServiceTypes /\ FailTypes
    BY TypeParts
  <2>b. SUFFICES SlotTypes' /\ ServiceTypes' /\ FailTypes'
    BY DEF DnsTypeOK, SlotTypes, ServiceTypes, FailTypes
  <2>c. requested \in SUBSET Sockets /\ requested \ {cur} \in SUBSET Sockets
    BY <2>a DEF ServiceTypes
  <2>d. ASSUME NEW n \in 0 .. MaxFail - 1, fail' = [fail EXCEPT ![cur] = n]
        PROVE  FailTypes'
    BY <2>a, <2>d DEF FailTypes
  <2>e. 0 \in 0 .. MaxFail - 1
    BY DnsAssumption DEF DnsAssumption
  <2>1. CASE TickIdle
    BY <2>1, <2>a, <2>c, InitProcsTypes
       DEF TickIdle, slotVars, SlotTypes, FailTypes
  <2>2. CASE TickStart
    BY <2>2, <2>a, <2>c, StartTypes, InitProcsTypes DEF TickStart, FailTypes
  <2>3. CASE TickFinished
    BY <2>3, <2>a, <2>c, <2>d, <2>e, HandOverTypes, InitProcsTypes
       DEF TickFinished
  <2>4. CASE TickTimeout
    <3>1. PICK first \in Sockets :
            IF fail[cur] + 1 >= MaxFail
            THEN /\ HandOver(first)
                 /\ InitProcs(requested \ {cur})
                 /\ fail' = [fail EXCEPT ![cur] = 0]
            ELSE /\ StartLookup(first)
                 /\ InitProcs(requested)
                 /\ fail' = [fail EXCEPT ![cur] = @ + 1]
      BY <2>4 DEF TickTimeout
    <3>2. CASE fail[cur] + 1 >= MaxFail
      BY <3>1, <3>2, <2>a, <2>c, <2>d, <2>e, HandOverTypes, InitProcsTypes
    <3>3. CASE ~(fail[cur] + 1 >= MaxFail)
      <4>1. cur \in Sockets
        BY <2>4, <2>a DEF TickTimeout, SlotTypes
      <4>2. fail[cur] + 1 \in 0 .. MaxFail - 1
        BY <3>3, <4>1, <2>a, DnsAssumption DEF FailTypes, DnsAssumption
      <4> QED
        BY <3>1, <3>3, <4>2, <2>a, <2>c, <2>d, StartTypes, InitProcsTypes
    <3> QED
      BY <3>2, <3>3
  <2>5. CASE TickWait
    BY <2>5, <2>a, <2>c, InitProcsTypes
       DEF TickWait, slotVars, SlotTypes, FailTypes
  <2>6. CASE Expire
    BY <2>6, <2>a DEF Expire, SlotTypes, ServiceTypes, FailTypes
  <2>7. ASSUME NEW n \in Names, NEW valid \in BOOLEAN, Answer(n, valid)
        PROVE  SlotTypes' /\ ServiceTypes' /\ FailTypes'
    BY <2>7, <2>a DEF Answer, SlotTypes, ServiceTypes, FailTypes
  <2>8. ASSUME NEW s \in Sockets, Reconnect(s) \/ Destroy(s) \/ Create(s)
        PROVE  SlotTypes' /\ ServiceTypes' /\ FailTypes'
    BY <2>8, <2>a DEF Reconnect, Destroy, Create, slotVars,
                      SlotTypes, ServiceTypes, FailTypes
  <2>9. ASSUME NEW new \in Names \cup {NoName}, ChangeServer(new)
        PROVE  SlotTypes' /\ ServiceTypes' /\ FailTypes'
    BY <2>9, <2>a DEF ChangeServer, slotVars,
                      SlotTypes, ServiceTypes, FailTypes
  <2>10. CASE UNCHANGED dnsVars
    BY <2>10, <2>a DEF dnsVars, slotVars, SlotTypes, ServiceTypes, FailTypes
  <2> QED
    BY <2>1, <2>2, <2>3, <2>4, <2>5, <2>6, <2>7, <2>8, <2>9, <2>10
       DEF DnsNext, DnsTick
<1> QED
  BY <1>1, <1>2, PTL DEF DnsSpec

-----------------------------------------------------------------------------
\* Requests only grow in the init procedures.
LEMMA InitProcsKeep ==
  ASSUME NEW req, InitProcs(req) PROVE req \subseteq requested'
  BY DEF InitProcs

\* Whoever gets the slot has a request that stands.
LEMMA StartConsistent ==
  ASSUME NEW s \in Sockets, NEW req, s \in req, InitProcs(req), StartLookup(s)
  PROVE  SlotConsistent'
  BY InitProcsKeep DEF StartLookup, Free, SlotConsistent, Sockets, NoSocket

\* A result that is handed over leaves the slot consistent.
LEMMA HandOverConsistent ==
  ASSUME NEW s \in Sockets, s \in requested,
         InitProcs(requested \ {cur}), HandOver(s)
  PROVE  SlotConsistent'
<1>1. CASE s = cur
  BY <1>1 DEF HandOver, Free, SlotConsistent
<1>2. CASE s # cur
  BY <1>2, StartConsistent DEF HandOver
<1> QED
  BY <1>1, <1>2

(* The slot is held only by a service whose request stands, and a free     *)
(* slot can be taken: gm_socket_get_host_timer_proc always gets to see a   *)
(* lookup that is over or too old.                                         *)
THEOREM SlotIsConsistent == DnsSpec => []SlotConsistent
<1>1. DnsInit => SlotConsistent
  BY DEF DnsInit, SlotConsistent
<1>2. SlotConsistent /\ [DnsNext]_dnsVars => SlotConsistent'
  <2> SUFFICES ASSUME SlotConsistent, [DnsNext]_dnsVars PROVE SlotConsistent'
    OBVIOUS
  <2>1. CASE TickIdle
    BY <2>1 DEF TickIdle, InitProcs, slotVars, SlotConsistent
  <2>2. CASE TickStart
    BY <2>2, StartConsistent DEF TickStart, IsFirst
  <2>3. CASE TickFinished
    BY <2>3, HandOverConsistent DEF TickFinished, IsFirst
  <2>4. CASE TickTimeout
    BY <2>4, HandOverConsistent, StartConsistent DEF TickTimeout, IsFirst
  <2>5. CASE TickWait
    BY <2>5, InitProcsKeep DEF TickWait, slotVars, SlotConsistent
  <2>6. CASE Expire
    BY <2>6 DEF Expire, SlotConsistent
  <2>7. ASSUME NEW n \in Names, NEW valid \in BOOLEAN, Answer(n, valid)
        PROVE  SlotConsistent'
    BY <2>7 DEF Answer, SlotConsistent
  <2>8. ASSUME NEW s \in Sockets, Reconnect(s) \/ Destroy(s) \/ Create(s)
        PROVE  SlotConsistent'
    BY <2>8 DEF Reconnect, Destroy, Create, slotVars, SlotConsistent
  <2>9. ASSUME NEW new \in Names \cup {NoName}, ChangeServer(new)
        PROVE  SlotConsistent'
    BY <2>9 DEF ChangeServer, slotVars, SlotConsistent
  <2>10. CASE UNCHANGED dnsVars
    BY <2>10 DEF dnsVars, slotVars, SlotConsistent
  <2> QED
    BY <2>1, <2>2, <2>3, <2>4, <2>5, <2>6, <2>7, <2>8, <2>9, <2>10
       DEF DnsNext, DnsTick
<1> QED
  BY <1>1, <1>2, PTL DEF DnsSpec

-----------------------------------------------------------------------------
\* While the SDK drops a lookup that was given up, it has no other than the
\* one that holds the slot.
PendingIsCurrent == cur # NoSocket => pending \subseteq {curName}

\* A lookup that begins or is handed over leaves no answer to an earlier one pending.
LEMMA StartPending ==
  ASSUME ~LateAnswers, NEW s, StartLookup(s) \/ HandOver(s)
  PROVE  PendingIsCurrent'
  BY DEF StartLookup, HandOver, Free, PendingIsCurrent

\* The tick leaves the cached addresses alone.
LEMMA TickKeepsCache ==
  ASSUME DnsTick PROVE UNCHANGED <<addr, ipCache>>
  BY DEF DnsTick, TickIdle, TickStart, TickFinished, TickTimeout, TickWait,
         InitProcs

\* Nor does the tick.
LEMMA TickPending ==
  ASSUME ~LateAnswers, PendingIsCurrent, DnsTick PROVE PendingIsCurrent'
<1>1. CASE TickIdle \/ TickWait
  BY <1>1 DEF TickIdle, TickWait, slotVars, PendingIsCurrent
<1>2. CASE TickStart \/ TickFinished \/ TickTimeout
  BY <1>2, StartPending DEF TickStart, TickFinished, TickTimeout
<1> QED
  BY <1>1, <1>2 DEF DnsTick

(* A service never connects to an address that was looked up for another   *)
(* name, if the SDK does not answer a lookup that was given up. Without    *)
(* the condition it may.                                                   *)
THEOREM CacheStaysOwn == DnsSpec /\ ~LateAnswers => []CacheIsOwn
<1> SUFFICES ASSUME ~LateAnswers PROVE DnsSpec => []CacheIsOwn
  OBVIOUS
<1>1. DnsInit => PendingIsCurrent /\ CacheIsOwn
  BY DEF DnsInit, PendingIsCurrent, CacheIsOwn
<1>2. /\ DnsTypeOK /\ PendingIsCurrent /\ CacheIsOwn
      /\ [DnsNext]_dnsVars
      => PendingIsCurrent' /\ CacheIsOwn'
  <2> SUFFICES ASSUME DnsTypeOK, PendingIsCurrent, CacheIsOwn, [DnsNext]_dnsVars
               PROVE  PendingIsCurrent' /\ CacheIsOwn'
    OBVIOUS
  <2>1. CASE DnsTick
    BY <2>1, TickPending, TickKeepsCache DEF CacheIsOwn
  <2>2. CASE Expire
    BY <2>2 DEF Expire, PendingIsCurrent, CacheIsOwn
  <2>3. ASSUME NEW n \in Names, NEW valid \in BOOLEAN, Answer(n, valid)
        PROVE  PendingIsCurrent' /\ CacheIsOwn'
    <3>1. PendingIsCurrent'
      BY <2>3 DEF Answer, PendingIsCurrent
    <3>2. CASE UNCHANGED ipCache
      BY <2>3, <3>1, <3>2 DEF Answer, CacheIsOwn
    <3>3. CASE /\ cur # NoSocket /\ curName = addr[cur]
               /\ ipCache' = [ipCache EXCEPT ![cur] = n]
      <4>1. n = addr[cur]
        BY <2>3, <3>3 DEF Answer, PendingIsCurrent
      <4> QED
        BY <2>3, <3>1, <3>3, <4>1 DEF Answer, CacheIsOwn, DnsTypeOK
    <3> QED
      BY <2>3, <3>1, <3>2, <3>3 DEF Answer
  <2>4. ASSUME NEW s \in Sockets, Reconnect(s) \/ Destroy(s) \/ Create(s)
        PROVE  PendingIsCurrent' /\ CacheIsOwn'
    BY <2>4 DEF Reconnect, Destroy, Create, slotVars,
                PendingIsCurrent, CacheIsOwn
  <2>5. ASSUME NEW new \in Names \cup {NoName}, ChangeServer(new)
        PROVE  PendingIsCurrent' /\ CacheIsOwn'
    BY <2>5 DEF ChangeServer, slotVars, DnsTypeOK, PendingIsCurrent, CacheIsOwn
  <2>6. CASE UNCHANGED dnsVars
    BY <2>6 DEF dnsVars, slotVars, PendingIsCurrent, CacheIsOwn
  <2> QED
    BY <2>1, <2>2, <2>3, <2>4, <2>5, <2>6 DEF DnsNext
<1>3. DnsSpec => []DnsTypeOK
  BY NamesTypes
<1> QED
  BY <1>1, <1>2, <1>3, PTL DEF DnsSpec

-----------------------------------------------------------------------------
(* The status of the device and the fuel relay: SystemState.               *)

\* What upload_boot_log counts.
SameNotes(r, s) == r.boot = s.boot /\ r.exceptions = s.exceptions

StateTypes ==
  /\ pc \in {"down", "run"} /\ speed \in {"low", "high"}
  /\ st \in State!Status /\ file \in State!Status \cup {Torn}
  /\ {retained, pin, logged, restarting, ordered, forced, lost, half} \subseteq BOOLEAN

\* Restarts, orders, and how often a boot can have been counted.
Restarts == downs["power"] + downs["exception"] + downs["ordered"]
StateCounts ==
  /\ downs \in [State!Causes -> Nat] /\ Restarts <= MaxDown
  /\ orders \in 0 .. MaxOrder /\ early \in Nat /\ early <= orders
  /\ st.exceptions <= Restarts + 1
  /\ pc = "run" /\ ~logged => st.exceptions <= Restarts
  /\ pc = "down" => State!Read.exceptions <= Restarts

\* While the device runs the file has what the status has, the pin is where the status says,
\* and the status what the user ordered; a device that is down has it in the file.
Placed ==
  /\ pc = "run" =>
       /\ file \in State!Status /\ file.bits = st.bits /\ SameNotes(file, st)
       /\ ~lost => ("user" \in st.bits <=> ordered)
       /\ pin /\ "device" \notin st.bits => restarting
       /\ "device" \in st.bits /\ ~pin => half
       /\ "device" \in st.bits /\ "user" \notin st.bits => half
  /\ pc = "down" /\ file # Torn =>
       /\ ~lost => ("user" \in file.bits <=> ordered)
       /\ "device" \in file.bits /\ "user" \notin file.bits => half

\* Boots that will be counted have a restart that nobody ordered, or one that was ordered
\* before the boot was logged.
Blamed == downs["exception"] + early
Noted ==
  /\ pc = "run" /\ ~logged /\ st.boot = "unknown" => st.exceptions + 1 <= Blamed
  /\ pc = "run" /\ restarting /\ (st.boot # "ordered" \/ ~logged) => st.exceptions + 1 <= Blamed
  /\ pc = "run" /\ restarting /\ ~logged => st.boot = "ordered"
  /\ st.exceptions <= Blamed
  /\ pc = "down" => State!Read.exceptions <= Blamed
  /\ pc = "down" /\ retained /\ State!Read.boot = "unknown" => State!Read.exceptions + 1 <= Blamed

StateInv == StateTypes /\ StateCounts /\ Placed /\ Noted

-----------------------------------------------------------------------------

\* The bounds are natural numbers, and nothing of the status is a torn file.
LEMMA StateLimits == MaxDown \in Nat /\ MaxOrder \in Nat /\ Torn \notin State!Status
  BY StateAssumption

\* The cleared status is a status.
LEMMA ClearedIs ==
  /\ State!Cleared \in State!Status
  /\ State!Cleared.bits = {} /\ State!Cleared.boot = "unknown" /\ State!Cleared.exceptions = 0
<1>1. 0 \in 0 .. MaxDown + 1
  BY StateLimits
<1>2. State!Cleared \in State!Status
  BY <1>1 DEF State!Cleared, State!Status, State!StatusBits, State!Reasons
<1> QED
  BY <1>2 DEF State!Cleared

\* What a status has in its fields.
LEMMA StatusIs ==
  ASSUME NEW s \in State!Status
  PROVE /\ s.bits \in SUBSET State!StatusBits /\ s.boot \in State!Reasons
        /\ s.asleep \in BOOLEAN /\ s.static \in BOOLEAN /\ s.fresh \in BOOLEAN
        /\ s.exceptions \in 0 .. MaxDown + 1 /\ s.exceptions \in Nat /\ s # Torn
<1>1. s # Torn
  BY StateLimits
<1>2. s.exceptions \in 0 .. MaxDown + 1
  BY DEF State!Status
<1>3. s.exceptions \in Nat
  BY <1>2
<1> QED
  BY <1>1, <1>2, <1>3 DEF State!Status

\* Setting a bit changes no other part of the status.
LEMMA WithIs ==
  ASSUME NEW s \in State!Status, NEW bit \in State!StatusBits, NEW on \in BOOLEAN
  PROVE /\ State!With(s, bit, on) \in State!Status /\ SameNotes(State!With(s, bit, on), s)
        /\ \A b \in State!StatusBits :
             b \in State!With(s, bit, on).bits <=> (IF b = bit THEN on ELSE b \in s.bits)
        /\ State!With(s, bit, on).bits = IF on THEN s.bits \cup {bit} ELSE s.bits \ {bit}
<1>1. /\ State!With(s, bit, on) \in State!Status
      /\ State!With(s, bit, on).bits = IF on THEN s.bits \cup {bit} ELSE s.bits \ {bit}
      /\ SameNotes(State!With(s, bit, on), s)
  BY StatusIs DEF State!With, State!Status, SameNotes
<1> QED
  BY <1>1

\* A change of the work state leaves the orders, the notes and the relay's bits alone.
LEMMA WorkStateIs ==
  ASSUME NEW s \in State!Status, NEW asleep \in BOOLEAN
  PROVE /\ State!WorkState(s, asleep) \in State!Status
        /\ SameNotes(State!WorkState(s, asleep), s)
        /\ "user" \in State!WorkState(s, asleep).bits <=> "user" \in s.bits
        /\ "device" \in State!WorkState(s, asleep).bits <=> "device" \in s.bits
  BY StatusIs DEF State!WorkState, State!Status, SameNotes

\* An opened relay has neither of its bits.
LEMMA OpenedIs ==
  ASSUME NEW s \in State!Status
  PROVE /\ State!Opened(s) \in State!Status /\ SameNotes(State!Opened(s), s)
        /\ "user" \notin State!Opened(s).bits /\ "device" \notin State!Opened(s).bits
<1>1. {"user", "device"} \subseteq State!StatusBits
  BY DEF State!StatusBits
<1> DEFINE u == State!With(s, "user", FALSE)
<1>2. /\ u \in State!Status /\ SameNotes(u, s) /\ "user" \notin u.bits
  BY <1>1, WithIs
<1>3. /\ State!With(u, "device", FALSE) \in State!Status
      /\ SameNotes(State!With(u, "device", FALSE), u)
      /\ "device" \notin State!With(u, "device", FALSE).bits
      /\ "user" \notin State!With(u, "device", FALSE).bits
  <2> HIDE DEF u
  <2> QED
    BY <1>1, <1>2, WithIs
<1> QED
  BY <1>2, <1>3 DEF State!Opened, SameNotes

\* The file as a boot reads it is a status.
LEMMA ReadIs ==
  ASSUME StateTypes
  PROVE /\ State!Read \in State!Status
        /\ file # Torn => State!Read = file
        /\ file = Torn => State!Read = State!Cleared
  BY ClearedIs DEF State!Read, StateTypes

\* The restarts are counted with natural numbers.
LEMMA CausesAre ==
  ASSUME StateCounts
  PROVE /\ downs["power"] \in Nat /\ downs["exception"] \in Nat /\ downs["ordered"] \in Nat
        /\ early \in Nat /\ orders \in Nat /\ Restarts \in Nat /\ Blamed \in Nat
<1>1. /\ downs["power"] \in Nat /\ downs["exception"] \in Nat /\ downs["ordered"] \in Nat
  BY DEF StateCounts, State!Causes
<1>2. early \in Nat /\ orders \in Nat
  BY StateLimits DEF StateCounts
<1> QED
  BY <1>1, <1>2 DEF Restarts, Blamed

\* What a step keeps that starts no restart and orders none, and leaves the counter and the
\* reason of the status alone.
Keeps ==
  UNCHANGED <<pc, retained, logged, restarting, downs, early>>

\* Such a step keeps the counts and the notes.
LEMMA SavesNotes ==
  ASSUME StateInv, Keeps, SameNotes(st', st), file' # Torn, file # Torn,
         SameNotes(file', file), orders' \in 0 .. MaxOrder, orders <= orders'
  PROVE StateCounts' /\ Noted'
<1>1. st'.exceptions = st.exceptions /\ st'.boot = st.boot
  BY DEF SameNotes
<1>2. State!Read'.exceptions = State!Read.exceptions /\ State!Read'.boot = State!Read.boot
  BY DEF SameNotes, State!Read
<1>3. Restarts' = Restarts /\ Blamed' = Blamed
  BY DEF Keeps, Restarts, Blamed
<1>4. early' <= orders'
  <2>1. early \in Nat /\ orders \in Nat /\ early <= orders /\ early' = early
    BY CausesAre DEF StateInv, StateCounts, Keeps
  <2>2. orders' \in Nat
    BY StateLimits
  <2> QED
    BY <2>1, <2>2
<1>5. StateCounts'
  BY <1>1, <1>2, <1>3, <1>4 DEF StateInv, StateCounts, Keeps
<1>6. Noted'
  BY <1>1, <1>2, <1>3 DEF StateInv, Noted, Keeps
<1> QED
  BY <1>5, <1>6

\* While the device runs the file is not torn and has the notes of the status.
LEMMA RunningFile ==
  ASSUME StateInv, pc = "run"
  PROVE /\ file \in State!Status /\ file # Torn /\ st \in State!Status
        /\ file.bits = st.bits /\ SameNotes(file, st)
  BY StatusIs DEF StateInv, Placed, StateTypes

\* A status that is saved as it is: the file agrees with it.
LEMMA SavedBoth ==
  ASSUME StateInv, pc = "run", Keeps, NEW s \in State!Status, SameNotes(s, st),
         st' = s, file' = s \/ (file' = file /\ s.bits = st.bits),
         orders' \in 0 .. MaxOrder, orders <= orders',
         {pin', ordered', forced', lost', half'} \subseteq BOOLEAN, speed' \in {"low", "high"}
  PROVE /\ StateTypes' /\ StateCounts' /\ Noted'
        /\ file' \in State!Status /\ file'.bits = st'.bits /\ SameNotes(file', st')
<1>1. /\ file \in State!Status /\ file # Torn
      /\ file.bits = st.bits /\ SameNotes(file, st)
  BY RunningFile
<1>2. file' \in State!Status /\ file'.bits = st'.bits /\ SameNotes(file', st')
  BY <1>1 DEF SameNotes
<1>3. file' # Torn
  BY <1>2, StateLimits
<1>4. StateCounts' /\ Noted'
  BY <1>1, <1>2, <1>3, SavesNotes DEF SameNotes
<1>5. StateTypes'
  BY <1>2 DEF StateInv, StateTypes, Keeps
<1> QED
  BY <1>2, <1>4, <1>5

\* The orders counted so far, and one more while there is room.
LEMMA OrderCounts ==
  ASSUME StateInv
  PROVE /\ orders \in 0 .. MaxOrder /\ orders <= orders
        /\ orders < MaxOrder => orders + 1 \in 0 .. MaxOrder /\ orders <= orders + 1
<1>1. orders \in 0 .. MaxOrder /\ MaxOrder \in Nat
  BY StateLimits DEF StateInv, StateCounts
<1> QED
  BY <1>1

\* The user orders a cut: it is carried out or waits, and is saved either way.
LEMMA CutKeeps ==
  ASSUME StateInv, NEW checked \in BOOLEAN, State!Cut(checked)
  PROVE StateInv'
<1> DEFINE user == State!With(st, "user", TRUE)
           may == State!MayCut(user, checked)
           s == IF may THEN State!With(user, "device", TRUE) ELSE user
<1>1. /\ pc = "run" /\ orders < MaxOrder /\ orders' = orders + 1
      /\ ordered' = TRUE /\ forced' = ~checked /\ lost' = FALSE
      /\ st' = s /\ file' = (IF s.bits # st.bits THEN s ELSE file)
      /\ pin' = (pin \/ may) /\ Keeps /\ UNCHANGED <<speed, half>>
  BY DEF State!Cut, Keeps
<1>2. st \in State!Status /\ {"user", "device"} \subseteq State!StatusBits
  BY DEF StateInv, StateTypes, State!StatusBits
<1>3. /\ user \in State!Status /\ SameNotes(user, st)
      /\ "user" \in user.bits /\ ("device" \in user.bits <=> "device" \in st.bits)
  BY <1>2, WithIs
<1>4. /\ s \in State!Status /\ SameNotes(s, st) /\ "user" \in s.bits
      /\ "device" \in s.bits <=> (may \/ "device" \in st.bits)
  <2>1. /\ State!With(user, "device", TRUE) \in State!Status
        /\ SameNotes(State!With(user, "device", TRUE), user)
        /\ "user" \in State!With(user, "device", TRUE).bits
        /\ "device" \in State!With(user, "device", TRUE).bits
    <3> HIDE DEF user
    <3> QED
      BY <1>2, <1>3, WithIs
  <2> HIDE DEF user, may
  <2> QED
    BY <1>3, <2>1 DEF SameNotes
<1>5. may \in BOOLEAN
  BY DEF State!MayCut, State!Calm
<1> HIDE DEF user, may, s
<1>6. orders' \in 0 .. MaxOrder /\ orders <= orders'
  BY <1>1, OrderCounts
<1>7. {pin', ordered', forced', lost', half'} \subseteq BOOLEAN /\ speed' \in {"low", "high"}
  BY <1>1, <1>5 DEF StateInv, StateTypes
<1>8. /\ StateTypes' /\ StateCounts' /\ Noted'
      /\ file' \in State!Status /\ file'.bits = st'.bits /\ SameNotes(file', st')
  BY <1>1, <1>4, <1>6, <1>7, SavedBoth
<1>9. Placed'
  BY <1>1, <1>4, <1>8 DEF StateInv, Placed, Keeps
<1> QED
  BY <1>8, <1>9 DEF StateInv

\* The user takes the cut back.
LEMMA RestoreKeeps ==
  ASSUME StateInv, State!Restore
  PROVE StateInv'
<1> DEFINE s == State!Opened(st)
<1>1. /\ pc = "run" /\ orders < MaxOrder /\ orders' = orders + 1
      /\ ordered' = FALSE /\ forced' = FALSE /\ lost' = FALSE
      /\ st' = s /\ file' = (IF s.bits # st.bits THEN s ELSE file)
      /\ pin' = (pin /\ "device" \notin st.bits) /\ Keeps /\ UNCHANGED <<speed, half>>
  BY DEF State!Restore, Keeps
<1>2. /\ s \in State!Status /\ SameNotes(s, st)
      /\ "user" \notin s.bits /\ "device" \notin s.bits
  BY OpenedIs DEF StateInv, StateTypes
<1> HIDE DEF s
<1>3. orders' \in 0 .. MaxOrder /\ orders <= orders'
  BY <1>1, OrderCounts
<1>4. {pin', ordered', forced', lost', half'} \subseteq BOOLEAN /\ speed' \in {"low", "high"}
  BY <1>1 DEF StateInv, StateTypes
<1>5. /\ StateTypes' /\ StateCounts' /\ Noted'
      /\ file' \in State!Status /\ file'.bits = st'.bits /\ SameNotes(file', st')
  BY <1>1, <1>2, <1>3, <1>4, SavedBoth
<1>6. Placed'
  BY <1>1, <1>2, <1>5 DEF StateInv, Placed, Keeps
<1> QED
  BY <1>5, <1>6 DEF StateInv

\* Each second the pin follows the orders, as far as they are carried out by now.
LEMMA RelayTimerKeeps ==
  ASSUME StateInv, State!RelayTimer
  PROVE StateInv'
<1> DEFINE s == [st EXCEPT !.fresh = FALSE]
           cut == "user" \in st.bits /\ "device" \notin st.bits /\ State!MayCut(s, TRUE)
           open == "user" \notin st.bits /\ "device" \in st.bits
           next == IF cut THEN State!With(s, "device", TRUE)
                   ELSE IF open THEN State!Opened(s) ELSE s
<1>1. /\ pc = "run" /\ st' = next /\ file' = (IF cut \/ open THEN st' ELSE file)
      /\ pin' = ((pin \/ cut) /\ ~open) /\ half' = (half /\ ~open)
      /\ Keeps /\ UNCHANGED <<speed, ordered, forced, lost, orders>>
  BY DEF State!RelayTimer, Keeps
<1>2. /\ s \in State!Status /\ SameNotes(s, st) /\ s.bits = st.bits
  <2>1. st \in State!Status
    BY DEF StateInv, StateTypes
  <2> QED
    BY <2>1, StatusIs DEF State!Status, SameNotes
<1>3. cut \in BOOLEAN /\ open \in BOOLEAN
  BY DEF State!MayCut, State!Calm
<1>4. /\ next \in State!Status /\ SameNotes(next, st)
      /\ "user" \in next.bits <=> "user" \in st.bits
      /\ "device" \in next.bits <=> (cut \/ ("device" \in st.bits /\ "user" \in st.bits))
      /\ ~cut /\ ~open => next.bits = st.bits
  <2>1. {"user", "device"} \subseteq State!StatusBits
    BY DEF State!StatusBits
  <2>2. /\ State!With(s, "device", TRUE) \in State!Status
        /\ SameNotes(State!With(s, "device", TRUE), s)
        /\ "user" \in State!With(s, "device", TRUE).bits <=> "user" \in s.bits
        /\ "device" \in State!With(s, "device", TRUE).bits
    <3> HIDE DEF s
    <3> QED
      BY <1>2, <2>1, WithIs
  <2>3. /\ State!Opened(s) \in State!Status /\ SameNotes(State!Opened(s), s)
        /\ "user" \notin State!Opened(s).bits /\ "device" \notin State!Opened(s).bits
    <3> HIDE DEF s
    <3> QED
      BY <1>2, OpenedIs
  <2>4. cut => "user" \in st.bits /\ "device" \notin st.bits
    OBVIOUS
  <2> HIDE DEF s, cut
  <2> QED
    BY <1>2, <2>2, <2>3, <2>4 DEF SameNotes
<1>5. cut => "user" \in st.bits /\ "device" \notin st.bits
  OBVIOUS
<1> HIDE DEF s, cut, next
<1>6. orders' \in 0 .. MaxOrder /\ orders <= orders'
  BY <1>1, OrderCounts
<1>7. {pin', ordered', forced', lost', half'} \subseteq BOOLEAN /\ speed' \in {"low", "high"}
  BY <1>1, <1>3 DEF StateInv, StateTypes
<1>8. file' = next \/ (file' = file /\ next.bits = st.bits)
  BY <1>1, <1>4
<1>9. /\ StateTypes' /\ StateCounts' /\ Noted'
      /\ file' \in State!Status /\ file'.bits = st'.bits /\ SameNotes(file', st')
  BY <1>1, <1>4, <1>6, <1>7, <1>8, SavedBoth
<1>10. Placed'
  BY <1>1, <1>4, <1>5, <1>9 DEF StateInv, Placed, Keeps
<1> QED
  BY <1>9, <1>10 DEF StateInv

\* The setters that have nothing to do with the relay.
LEMMA SetKeeps ==
  ASSUME StateInv, NEW s \in State!Status, State!Set(s), State!OthersKept, SameNotes(s, st),
         "user" \in s.bits <=> "user" \in st.bits, "device" \in s.bits <=> "device" \in st.bits
  PROVE StateInv'
<1>1. /\ pc = "run" /\ st' = s /\ file' = s /\ Keeps
      /\ UNCHANGED <<pin, speed, ordered, forced, lost, half, orders>>
  BY DEF State!Set, State!OthersKept, Keeps
<1>2. orders' \in 0 .. MaxOrder /\ orders <= orders'
  BY <1>1, OrderCounts
<1>3. {pin', ordered', forced', lost', half'} \subseteq BOOLEAN /\ speed' \in {"low", "high"}
  BY <1>1 DEF StateInv, StateTypes
<1>4. /\ StateTypes' /\ StateCounts' /\ Noted'
      /\ file' \in State!Status /\ file'.bits = st'.bits /\ SameNotes(file', st')
  BY <1>1, <1>2, <1>3, SavedBoth
<1>5. Placed'
  BY <1>1, <1>4 DEF StateInv, Placed, Keeps
<1> QED
  BY <1>4, <1>5 DEF StateInv

\* The setters of the system's state keep its invariant.
LEMMA SettersKeep ==
  ASSUME StateInv, State!SetAlarm \/ State!SetWorkState \/ State!SetVehicle
  PROVE StateInv'
<1>1. st \in State!Status
  BY DEF StateInv, StateTypes
<1>2. {"user", "device", "alarm"} \subseteq State!StatusBits
  BY DEF State!StatusBits
<1>3. CASE State!SetAlarm
  <2>1. PICK on \in BOOLEAN : State!Set(State!With(st, "alarm", on)) /\ State!OthersKept
    BY <1>3 DEF State!SetAlarm
  <2> DEFINE s == State!With(st, "alarm", on)
  <2>2. /\ s \in State!Status /\ SameNotes(s, st)
        /\ "user" \in s.bits <=> "user" \in st.bits
        /\ "device" \in s.bits <=> "device" \in st.bits
    BY <1>1, <1>2, WithIs
  <2> HIDE DEF s
  <2>3. State!Set(s) /\ State!OthersKept
    BY <2>1 DEF s
  <2> QED
    BY <2>2, <2>3, SetKeeps
<1>4. CASE State!SetWorkState
  <2> DEFINE s == State!WorkState(st, ~st.asleep)
  <2>1. /\ s \in State!Status /\ SameNotes(s, st)
        /\ "user" \in s.bits <=> "user" \in st.bits
        /\ "device" \in s.bits <=> "device" \in st.bits
    BY <1>1, WorkStateIs
  <2>2. State!Set(s) /\ State!OthersKept
    BY <1>4 DEF State!SetWorkState
  <2> HIDE DEF s
  <2> QED
    BY <2>1, <2>2, SetKeeps
<1>5. CASE State!SetVehicle
  <2> DEFINE s == [st EXCEPT !.static = ~@]
  <2>1. /\ s \in State!Status /\ SameNotes(s, st)
        /\ "user" \in s.bits <=> "user" \in st.bits
        /\ "device" \in s.bits <=> "device" \in st.bits
    BY <1>1, StatusIs DEF State!Status, SameNotes
  <2>2. State!Set(s) /\ State!OthersKept
    BY <1>5 DEF State!SetVehicle
  <2> HIDE DEF s
  <2> QED
    BY <2>1, <2>2, SetKeeps
<1> QED
  BY <1>3, <1>4, <1>5

\* The car is not the program's.
LEMMA DriveKeeps ==
  ASSUME StateInv, State!Drive
  PROVE StateInv'
<1>1. /\ speed' \in {"low", "high"}
      /\ UNCHANGED <<pc, st, file, retained, pin, logged, restarting, ordered, forced, lost,
                     half, downs, early, orders>>
  BY DEF State!Drive
<1>2. StateTypes'
  BY <1>1 DEF StateInv, StateTypes
<1>3. StateCounts'
  BY <1>1 DEF StateInv, StateCounts, Restarts, State!Read
<1>4. Placed'
  BY <1>1 DEF StateInv, Placed
<1>5. Noted'
  BY <1>1 DEF StateInv, Noted, Blamed, State!Read
<1> QED
  BY <1>2, <1>3, <1>4, <1>5 DEF StateInv

\* What a boot makes of the status it reads.
LEMMA BootedIs ==
  ASSUME NEW s \in State!Status
  PROVE LET b == State!WorkState(State!Restored(State!Explained(s)), FALSE)
        IN /\ b \in State!Status /\ b.exceptions = s.exceptions
           /\ b.boot = (IF ~retained /\ s.boot = "unknown" THEN "power_on" ELSE s.boot)
           /\ "user" \in b.bits <=> "user" \in s.bits
           /\ "device" \in b.bits <=> ("user" \in s.bits \/ "device" \in s.bits)
<1> DEFINE e == State!Explained(s)
           r == State!Restored(e)
<1>1. /\ e \in State!Status /\ e.exceptions = s.exceptions /\ e.bits = s.bits
      /\ e.boot = (IF ~retained /\ s.boot = "unknown" THEN "power_on" ELSE s.boot)
  BY StatusIs DEF State!Explained, State!PoweredOn, State!Status, State!Reasons
<1>2. /\ r \in State!Status /\ SameNotes(r, e)
      /\ "user" \in r.bits <=> "user" \in e.bits
      /\ "device" \in r.bits <=> ("user" \in e.bits \/ "device" \in e.bits)
  <2>1. {"user", "device"} \subseteq State!StatusBits
    BY DEF State!StatusBits
  <2> HIDE DEF e
  <2>2. /\ State!With(e, "device", TRUE) \in State!Status
        /\ SameNotes(State!With(e, "device", TRUE), e)
        /\ "user" \in State!With(e, "device", TRUE).bits <=> "user" \in e.bits
        /\ "device" \in State!With(e, "device", TRUE).bits
    BY <1>1, <2>1, WithIs
  <2> QED
    BY <1>1, <2>2 DEF State!Restored, SameNotes
<1> DEFINE b == State!WorkState(r, FALSE)
<1>3. /\ b \in State!Status /\ SameNotes(b, r)
      /\ "user" \in b.bits <=> "user" \in r.bits
      /\ "device" \in b.bits <=> "device" \in r.bits
  <2> HIDE DEF r
  <2> QED
    BY <1>2, WorkStateIs
<1>4. b = State!WorkState(State!Restored(State!Explained(s)), FALSE)
  OBVIOUS
<1> HIDE DEF e, r, b
<1>5. /\ b \in State!Status /\ b.exceptions = s.exceptions
      /\ b.boot = (IF ~retained /\ s.boot = "unknown" THEN "power_on" ELSE s.boot)
      /\ "user" \in b.bits <=> "user" \in s.bits
      /\ "device" \in b.bits <=> ("user" \in s.bits \/ "device" \in s.bits)
  BY <1>1, <1>2, <1>3 DEF SameNotes
<1> QED
  BY <1>4, <1>5

\* A boot restores what the file has.
LEMMA BootKeeps ==
  ASSUME StateInv, State!Boot
  PROVE StateInv'
<1> DEFINE b == State!WorkState(State!Restored(State!Explained(State!Read)), FALSE)
<1>1. /\ pc = "down" /\ st' = b /\ file' = b /\ pin' = ("user" \in b.bits)
      /\ half' = (half /\ file # Torn) /\ pc' = "run" /\ logged' = FALSE
      /\ restarting' = FALSE /\ lost' = (lost \/ (file = Torn))
      /\ UNCHANGED <<retained, speed, ordered, forced, downs, early, orders>>
  BY DEF State!Boot
<1>2. /\ State!Read \in State!Status
      /\ file # Torn => State!Read = file
      /\ file = Torn => State!Read = State!Cleared
  BY ReadIs DEF StateInv
<1>3. /\ b \in State!Status /\ b.exceptions = State!Read.exceptions
      /\ b.boot = (IF ~retained /\ State!Read.boot = "unknown" THEN "power_on"
                   ELSE State!Read.boot)
      /\ "user" \in b.bits <=> "user" \in State!Read.bits
      /\ "device" \in b.bits <=> ("user" \in State!Read.bits \/ "device" \in State!Read.bits)
  BY <1>2, BootedIs
<1> HIDE DEF b
<1>4. StateTypes'
  <2>1. pin' \in BOOLEAN /\ half' \in BOOLEAN /\ lost' \in BOOLEAN
    BY <1>1 DEF StateInv, StateTypes
  <2> QED
    BY <1>1, <1>3, <2>1 DEF StateInv, StateTypes
<1>5. StateCounts'
  <2>1. st'.exceptions <= Restarts'
    BY <1>1, <1>3 DEF StateInv, StateCounts, Restarts
  <2>2. st'.exceptions <= Restarts' + 1
    <3>1. st'.exceptions \in Nat
      BY <1>1, <1>3, StatusIs
    <3>2. Restarts' \in Nat
      BY <1>1, CausesAre DEF StateInv, Restarts
    <3> QED
      BY <2>1, <3>1, <3>2
  <2> QED
    BY <1>1, <2>1, <2>2 DEF StateInv, StateCounts, Restarts
<1>6. Placed'
  <2>1. State!Cleared.bits = {}
    BY ClearedIs
  <2>2. CASE file = Torn
    BY <1>1, <1>2, <1>3, <2>1, <2>2 DEF Placed, SameNotes
  <2>3. CASE file # Torn
    BY <1>1, <1>2, <1>3, <2>3 DEF StateInv, Placed, SameNotes
  <2> QED
    BY <2>2, <2>3
<1>7. Noted'
  <2>1. Blamed' = Blamed
    BY <1>1 DEF Blamed
  <2> QED
    BY <1>1, <1>3, <2>1 DEF StateInv, Noted
<1> QED
  BY <1>4, <1>5, <1>6, <1>7 DEF StateInv

\* The boot is counted and its reason forgotten.
LEMMA LogBootKeeps ==
  ASSUME StateInv, State!LogBoot
  PROVE StateInv'
<1> DEFINE s == [st EXCEPT !.boot = "unknown",
                           !.exceptions = @ + IF st.boot = "unknown" THEN 1 ELSE 0]
<1>1. /\ pc = "run" /\ ~logged /\ st' = s /\ file' = s /\ logged' = TRUE
      /\ UNCHANGED <<pc, retained, pin, speed, restarting, ordered, forced, lost,
                     half, downs, early, orders>>
  BY DEF State!LogBoot
<1>2. st \in State!Status
  BY DEF StateInv, StateTypes
<1>3. st.exceptions \in Nat /\ Restarts \in Nat /\ Restarts <= MaxDown /\ MaxDown \in Nat
      /\ Blamed \in Nat
  BY <1>2, StatusIs, CausesAre, StateLimits DEF StateInv, StateCounts
<1>4. /\ s.exceptions = st.exceptions + IF st.boot = "unknown" THEN 1 ELSE 0
      /\ s.boot = "unknown" /\ s.bits = st.bits
  BY <1>2 DEF State!Status
<1>5. st.exceptions <= Restarts
  BY <1>1 DEF StateInv, StateCounts
<1>6. /\ s.exceptions \in 0 .. MaxDown + 1 /\ s.exceptions <= Restarts + 1
  BY <1>3, <1>4, <1>5
<1>7. s \in State!Status
  <2>1. "unknown" \in State!Reasons
    BY DEF State!Reasons
  <2>2. \A e \in 0 .. MaxDown + 1 :
          [st EXCEPT !.boot = "unknown", !.exceptions = e] \in State!Status
    BY <1>2, <2>1 DEF State!Status
  <2>3. s = [st EXCEPT !.boot = "unknown", !.exceptions = s.exceptions]
    BY <1>2 DEF State!Status
  <2> HIDE DEF s
  <2> QED
    BY <1>6, <2>2, <2>3
<1>8. s.exceptions <= Blamed
  <2>1. st.exceptions <= Blamed /\ (st.boot = "unknown" => st.exceptions + 1 <= Blamed)
    BY <1>1 DEF StateInv, Noted
  <2> QED
    BY <1>3, <1>4, <2>1
<1>9. restarting => s.exceptions + 1 <= Blamed
  <2>1. restarting => st.boot = "ordered" /\ st.exceptions + 1 <= Blamed
    BY <1>1 DEF StateInv, Noted
  <2>2. st.boot = "ordered" => s.exceptions = st.exceptions
    BY <1>3, <1>4
  <2> QED
    BY <2>1, <2>2
<1> HIDE DEF s
<1>10. Restarts' = Restarts /\ Blamed' = Blamed
  BY <1>1 DEF Restarts, Blamed
<1>11. StateTypes'
  BY <1>1, <1>7 DEF StateInv, StateTypes
<1>12. StateCounts'
  BY <1>1, <1>6, <1>10 DEF StateInv, StateCounts
<1>13. Placed'
  BY <1>1, <1>4, <1>7 DEF StateInv, Placed, SameNotes
<1>14. Noted'
  BY <1>1, <1>4, <1>8, <1>9, <1>10 DEF StateInv, Noted
<1> QED
  BY <1>11, <1>12, <1>13, <1>14 DEF StateInv

\* A restart is ordered: its reason is saved, and once more if the boot is not logged.
LEMMA OrderRebootKeeps ==
  ASSUME StateInv, State!OrderReboot
  PROVE StateInv'
<1> DEFINE s == [st EXCEPT !.boot = "ordered"]
<1>1. /\ pc = "run" /\ orders < MaxOrder /\ st' = s /\ file' = s /\ restarting' = TRUE
      /\ orders' = orders + 1 /\ early' = early + IF logged THEN 0 ELSE 1
      /\ UNCHANGED <<pc, retained, pin, speed, logged, ordered, forced, lost, half, downs>>
  BY DEF State!OrderReboot, State!Set
<1>2. /\ s \in State!Status /\ s.boot = "ordered" /\ s.exceptions = st.exceptions
      /\ s.bits = st.bits /\ st \in State!Status
  <2>1. st \in State!Status /\ "ordered" \in State!Reasons
    BY DEF StateInv, StateTypes, State!Reasons
  <2> QED
    BY <2>1 DEF State!Status
<1>3. st.exceptions \in Nat /\ early \in Nat /\ orders \in Nat /\ early <= orders
      /\ MaxOrder \in Nat /\ downs["exception"] \in Nat
  BY <1>2, StatusIs, CausesAre, StateLimits DEF StateInv, StateCounts
<1> HIDE DEF s
<1>4. /\ orders' \in 0 .. MaxOrder /\ early' \in Nat /\ early' <= orders'
  BY <1>1, <1>3
<1>5. Restarts' = Restarts /\ Blamed <= Blamed' /\ (~logged => Blamed' = Blamed + 1)
      /\ Blamed \in Nat /\ Blamed' \in Nat
  BY <1>1, <1>3 DEF Restarts, Blamed
<1>6. st.exceptions <= Blamed' /\ (~logged => st.exceptions + 1 <= Blamed')
  <2>1. st.exceptions <= Blamed
    BY DEF StateInv, Noted
  <2> QED
    BY <1>3, <1>5, <2>1
<1>7. StateTypes'
  BY <1>1, <1>2 DEF StateInv, StateTypes
<1>8. StateCounts'
  BY <1>1, <1>2, <1>4, <1>5 DEF StateInv, StateCounts
<1>9. Placed'
  BY <1>1, <1>2 DEF StateInv, Placed, SameNotes
<1>10. Noted'
  BY <1>1, <1>2, <1>6 DEF StateInv, Noted
<1> QED
  BY <1>7, <1>8, <1>9, <1>10 DEF StateInv

\* A factory reset wipes the status and orders a restart.
LEMMA FactoryResetKeeps ==
  ASSUME StateInv, State!FactoryReset
  PROVE StateInv'
<1> DEFINE s == [State!Cleared EXCEPT !.boot = "ordered"]
<1>1. /\ pc = "run" /\ orders < MaxOrder /\ st' = s /\ file' = s /\ restarting' = TRUE
      /\ lost' = TRUE
      /\ orders' = orders + 1 /\ early' = early + IF logged THEN 0 ELSE 1
      /\ UNCHANGED <<pc, retained, pin, speed, logged, ordered, forced, half, downs>>
  BY DEF State!FactoryReset
<1>2. /\ s \in State!Status /\ s.boot = "ordered" /\ s.exceptions = 0 /\ s.bits = {}
  <2>1. "ordered" \in State!Reasons
    BY DEF State!Reasons
  <2> QED
    BY <2>1, ClearedIs DEF State!Status
<1>3. early \in Nat /\ orders \in Nat /\ early <= orders
      /\ MaxOrder \in Nat /\ downs["exception"] \in Nat /\ Restarts \in Nat
  BY CausesAre, StateLimits DEF StateInv, StateCounts
<1> HIDE DEF s
<1>4. /\ orders' \in 0 .. MaxOrder /\ early' \in Nat /\ early' <= orders'
  BY <1>1, <1>3
<1>5. Restarts' = Restarts /\ 0 <= Blamed' /\ (~logged => 0 + 1 <= Blamed')
      /\ 0 <= Restarts + 1 /\ 0 <= Restarts
  BY <1>1, <1>3 DEF Restarts, Blamed
<1>7. StateTypes'
  BY <1>1, <1>2 DEF StateInv, StateTypes
<1>8. StateCounts'
  BY <1>1, <1>2, <1>4, <1>5 DEF StateInv, StateCounts
<1>9. Placed'
  BY <1>1, <1>2 DEF StateInv, Placed, SameNotes
<1>10. Noted'
  BY <1>1, <1>2, <1>5 DEF StateInv, Noted
<1> QED
  BY <1>7, <1>8, <1>9, <1>10 DEF StateInv

\* One restart more, by some cause.
LEMMA OneMore ==
  ASSUME StateInv, NEW cause \in State!Causes, Restarts < MaxDown,
         downs' = [downs EXCEPT ![cause] = @ + 1]
  PROVE /\ downs' \in [State!Causes -> Nat] /\ Restarts' = Restarts + 1
        /\ downs'["exception"] = downs["exception"] + (IF cause = "exception" THEN 1 ELSE 0)
        /\ Restarts' <= MaxDown
<1>1. downs \in [State!Causes -> Nat]
  BY DEF StateInv, StateCounts
<1>2. /\ downs["power"] \in Nat /\ downs["exception"] \in Nat /\ downs["ordered"] \in Nat
      /\ MaxDown \in Nat
  BY CausesAre, StateLimits DEF StateInv
<1>3. CASE cause = "power"
  <2>1. /\ downs'["power"] = downs["power"] + 1 /\ downs'["exception"] = downs["exception"]
        /\ downs'["ordered"] = downs["ordered"] /\ downs' \in [State!Causes -> Nat]
    BY <1>1, <1>2, <1>3 DEF State!Causes
  <2> QED
    BY <1>2, <1>3, <2>1 DEF Restarts
<1>4. CASE cause = "exception"
  <2>1. /\ downs'["power"] = downs["power"] /\ downs'["exception"] = downs["exception"] + 1
        /\ downs'["ordered"] = downs["ordered"] /\ downs' \in [State!Causes -> Nat]
    BY <1>1, <1>2, <1>4 DEF State!Causes
  <2> QED
    BY <1>2, <1>4, <2>1 DEF Restarts
<1>5. CASE cause = "ordered"
  <2>1. /\ downs'["power"] = downs["power"] /\ downs'["exception"] = downs["exception"]
        /\ downs'["ordered"] = downs["ordered"] + 1 /\ downs' \in [State!Causes -> Nat]
    BY <1>1, <1>2, <1>5 DEF State!Causes
  <2> QED
    BY <1>2, <1>5, <2>1 DEF Restarts
<1> QED
  BY <1>3, <1>4, <1>5 DEF State!Causes

\* Power fails in the middle of a restore: the file has no order, but still the cut.
LEMMA RestoreHalfKeeps ==
  ASSUME StateInv, State!RestoreHalf
  PROVE StateInv'
<1> DEFINE s == State!With(st, "user", FALSE)
<1>1. /\ pc = "run" /\ orders < MaxOrder /\ orders' = orders + 1 /\ Restarts < MaxDown
      /\ ordered' = FALSE /\ forced' = FALSE /\ lost' = FALSE /\ file' = s
      /\ pc' = "down" /\ retained' = FALSE /\ half' = TRUE
      /\ downs' = [downs EXCEPT !["power"] = @ + 1]
      /\ UNCHANGED <<st, pin, speed, logged, restarting, early>>
  BY DEF State!RestoreHalf, Restarts
<1>2. /\ s \in State!Status /\ s.exceptions = st.exceptions /\ "user" \notin s.bits
      /\ st \in State!Status
  <2>1. st \in State!Status /\ "user" \in State!StatusBits
    BY DEF StateInv, StateTypes, State!StatusBits
  <2> QED
    BY <2>1, WithIs DEF SameNotes
<1>3. s # Torn
  BY <1>2, StateLimits
<1> HIDE DEF s
<1>4. /\ downs' \in [State!Causes -> Nat] /\ Restarts' = Restarts + 1
      /\ downs'["exception"] = downs["exception"] /\ Restarts' <= MaxDown
  <2>1. "power" \in State!Causes
    BY DEF State!Causes
  <2>2. /\ downs' \in [State!Causes -> Nat] /\ Restarts' = Restarts + 1
        /\ downs'["exception"] = downs["exception"] + (IF "power" = "exception" THEN 1 ELSE 0)
        /\ Restarts' <= MaxDown
    BY <1>1, <2>1, OneMore
  <2>3. downs["exception"] \in Nat
    BY CausesAre DEF StateInv
  <2> QED
    BY <2>2, <2>3
<1>5. orders' \in 0 .. MaxOrder /\ early' \in Nat /\ early' <= orders'
  <2>1. early \in Nat /\ orders \in Nat /\ early <= orders /\ MaxOrder \in Nat
    BY CausesAre, StateLimits DEF StateInv, StateCounts
  <2> QED
    BY <1>1, <2>1
<1>6. /\ st.exceptions <= Restarts' /\ st.exceptions <= Restarts' + 1
  <2>1. st.exceptions <= Restarts + 1 /\ Restarts \in Nat /\ st.exceptions \in Nat
    BY <1>2, CausesAre, StatusIs DEF StateInv, StateCounts
  <2> QED
    BY <1>4, <2>1
<1>7. State!Read' = s
  BY <1>1, <1>3 DEF State!Read
<1>8. Blamed' = Blamed
  BY <1>1, <1>4 DEF Blamed
<1>9. StateTypes'
  BY <1>1, <1>2 DEF StateInv, StateTypes
<1>10. StateCounts'
  BY <1>1, <1>2, <1>4, <1>5, <1>6, <1>7 DEF StateCounts
<1>11. Placed'
  BY <1>1, <1>2 DEF Placed
<1>12. Noted'
  BY <1>1, <1>2, <1>7, <1>8 DEF StateInv, Noted
<1> QED
  BY <1>9, <1>10, <1>11, <1>12 DEF StateInv

\* The device goes down, and the file is what it was or torn.  An ordered restart tears
\* nothing and has its reason in the file, or was ordered before the boot was logged.
LEMMA DownKeeps ==
  ASSUME StateInv, NEW cause \in State!Causes, NEW torn \in BOOLEAN, State!Down(cause, torn),
         cause = "ordered" => restarting /\ ~torn
  PROVE StateInv'
<1>1. /\ pc = "run" /\ Restarts < MaxDown /\ downs' = [downs EXCEPT ![cause] = @ + 1]
      /\ pc' = "down" /\ retained' = (cause # "power")
      /\ file' = (IF torn THEN Torn ELSE file)
      /\ UNCHANGED <<st, pin, speed, logged, restarting, ordered, forced, lost, half,
                     early, orders>>
  BY DEF State!Down, Restarts
<1>2. /\ file \in State!Status /\ file # Torn /\ st \in State!Status
      /\ file.bits = st.bits /\ file.boot = st.boot /\ file.exceptions = st.exceptions
  BY <1>1, RunningFile DEF SameNotes
<1>3. /\ downs' \in [State!Causes -> Nat] /\ Restarts' = Restarts + 1
      /\ downs'["exception"] = downs["exception"] + (IF cause = "exception" THEN 1 ELSE 0)
      /\ Restarts' <= MaxDown
  BY <1>1, OneMore
<1>4. /\ torn => State!Read'.exceptions = 0
      /\ ~torn => State!Read'.exceptions = st.exceptions /\ State!Read'.boot = st.boot
  BY <1>1, <1>2, ClearedIs DEF State!Read
<1>5. /\ st.exceptions \in Nat /\ Restarts \in Nat /\ Blamed \in Nat
      /\ downs["exception"] \in Nat /\ early \in Nat
  BY <1>2, StatusIs, CausesAre DEF StateInv
<1>6. /\ st.exceptions <= Restarts' /\ st.exceptions <= Restarts' + 1 /\ 0 <= Restarts'
  <2>1. st.exceptions <= Restarts + 1
    BY DEF StateInv, StateCounts
  <2> QED
    BY <1>3, <1>5, <2>1
<1>7. /\ Blamed' = Blamed + (IF cause = "exception" THEN 1 ELSE 0)
      /\ cause = "exception" => Blamed' = Blamed + 1
      /\ cause # "exception" => Blamed' = Blamed
  BY <1>1, <1>3, <1>5 DEF Blamed
<1>8. /\ st.exceptions <= Blamed' /\ 0 <= Blamed'
      /\ cause = "exception" => st.exceptions + 1 <= Blamed' /\ 0 + 1 <= Blamed'
  <2>1. st.exceptions <= Blamed
    BY DEF StateInv, Noted
  <2> QED
    BY <1>5, <1>7, <2>1
<1>9. cause = "ordered" /\ st.boot = "unknown" => st.exceptions + 1 <= Blamed'
  <2>1. restarting /\ st.boot # "ordered" => st.exceptions + 1 <= Blamed
    BY <1>1 DEF StateInv, Noted
  <2> QED
    BY <1>7, <2>1
<1>10. StateTypes'
  BY <1>1, <1>2 DEF StateInv, StateTypes
<1>11. StateCounts'
  <2>1. State!Read'.exceptions <= Restarts'
    BY <1>4, <1>6
  <2> QED
    BY <1>1, <1>3, <1>6, <2>1 DEF StateInv, StateCounts
<1>12. Placed'
  BY <1>1, <1>2 DEF StateInv, Placed
<1>13. Noted'
  <2>1. State!Read'.exceptions <= Blamed'
    BY <1>4, <1>8
  <2>2. retained' => cause \in {"exception", "ordered"}
    BY <1>1 DEF State!Causes
  <2>3. retained' /\ State!Read'.boot = "unknown" => State!Read'.exceptions + 1 <= Blamed'
    <3>1. CASE cause = "exception"
      BY <1>4, <1>8, <3>1
    <3>2. CASE cause = "ordered"
      BY <1>4, <1>9, <3>2
    <3> QED
      BY <2>2, <3>1, <3>2
  <2> QED
    BY <1>1, <1>8, <2>1, <2>3 DEF Noted
<1> QED
  BY <1>10, <1>11, <1>12, <1>13 DEF StateInv

\* Every step of the status and the relay keeps the invariant.
LEMMA StateStep ==
  ASSUME StateInv, State!Next
  PROVE StateInv'
<1>1. CASE State!Boot
  BY <1>1, BootKeeps
<1>2. CASE State!LogBoot
  BY <1>2, LogBootKeeps
<1>3. CASE State!RelayTimer
  BY <1>3, RelayTimerKeeps
<1>4. CASE \E checked \in BOOLEAN : State!Cut(checked)
  BY <1>4, CutKeeps
<1>5. CASE State!Restore
  BY <1>5, RestoreKeeps
<1>6. CASE State!RestoreHalf
  BY <1>6, RestoreHalfKeeps
<1>7. CASE State!SetAlarm \/ State!SetWorkState \/ State!SetVehicle
  BY <1>7, SettersKeep
<1>8. CASE State!OrderReboot
  BY <1>8, OrderRebootKeeps
<1>9. CASE State!FactoryReset
  BY <1>9, FactoryResetKeeps
<1>10. CASE State!Reboot
  <2>1. restarting /\ State!Down("ordered", FALSE) /\ "ordered" \in State!Causes
    BY <1>10 DEF State!Reboot, State!Causes
  <2> QED
    BY <2>1, DownKeeps
<1>11. CASE State!Crash
  <2>1. PICK cause \in {"power", "exception"}, torn \in BOOLEAN : State!Down(cause, torn)
    BY <1>11 DEF State!Crash
  <2>2. cause \in State!Causes /\ cause # "ordered"
    BY DEF State!Causes
  <2> QED
    BY <2>1, <2>2, DownKeeps
<1>12. CASE State!Drive
  BY <1>12, DriveKeeps
<1> QED
  BY <1>1, <1>2, <1>3, <1>4, <1>5, <1>6, <1>7, <1>8, <1>9, <1>10, <1>11, <1>12 DEF State!Next

\* Nothing changes for the invariant in a step of something else.
LEMMA StateStutter ==
  ASSUME StateInv, UNCHANGED stateVars
  PROVE StateInv'
  BY DEF StateInv, StateTypes, StateCounts, Placed, Noted, Restarts, Blamed, State!Read,
         SameNotes, stateVars

\* The invariant holds at the start, with the device off and no file.
LEMMA StateStarts ==
  ASSUME State!Init
  PROVE StateInv
<1>1. StateTypes
  BY ClearedIs DEF State!Init, StateTypes
<1>2. /\ downs["power"] = 0 /\ downs["exception"] = 0 /\ downs["ordered"] = 0
      /\ downs \in [State!Causes -> Nat] /\ early = 0 /\ orders = 0
  BY DEF State!Init, State!Causes
<1>3. st.exceptions = 0 /\ State!Read.exceptions = 0 /\ pc = "down" /\ ~retained
      /\ file = Torn
  BY ClearedIs DEF State!Init, State!Read
<1>4. Restarts = 0 /\ Blamed = 0 /\ MaxDown \in Nat /\ MaxOrder \in Nat
  BY <1>2, StateLimits DEF Restarts, Blamed
<1>5. StateCounts
  BY <1>2, <1>3, <1>4 DEF StateCounts
<1>6. Placed /\ Noted
  BY <1>3, <1>4 DEF Placed, Noted
<1> QED
  BY <1>1, <1>5, <1>6 DEF StateInv

(* However orders, seconds, restarts and cut-short writes follow on each   *)
(* other, the status keeps the invariant: the last order is in it, the pin *)
(* where it says, and its counters are what they should be.                *)
THEOREM StateInvariance == State!Spec => []StateInv
<1>1. State!Init => StateInv
  BY StateStarts
<1>2. StateInv /\ [State!Next]_(State!vars) => StateInv'
  <2> SUFFICES ASSUME StateInv, [State!Next]_(State!vars) PROVE StateInv'
    OBVIOUS
  <2>1. CASE State!Next
    BY <2>1, StateStep
  <2>2. CASE UNCHANGED State!vars
    <3>1. UNCHANGED stateVars
      BY <2>2 DEF State!vars, stateVars
    <3> QED
      BY <3>1, StateStutter
  <2> QED
    BY <2>1, <2>2
<1> QED
  BY <1>1, <1>2, PTL DEF State!Spec

\* The counters stay within the bounds of the behaviour.
LEMMA StateTyped ==
  ASSUME StateInv
  PROVE State!TypeOK
<1>1. /\ downs["power"] \in Nat /\ downs["exception"] \in Nat /\ downs["ordered"] \in Nat
      /\ early \in Nat /\ orders \in Nat /\ MaxDown \in Nat /\ MaxOrder \in Nat
  BY CausesAre, StateLimits DEF StateInv
<1>2. /\ downs["power"] + downs["exception"] + downs["ordered"] <= MaxDown
      /\ early <= orders /\ orders <= MaxOrder /\ orders \in 0 .. MaxOrder
      /\ downs \in [State!Causes -> Nat]
  BY <1>1 DEF StateInv, StateCounts, Restarts
<1>3. /\ downs["power"] <= MaxDown /\ downs["exception"] <= MaxDown
      /\ downs["ordered"] <= MaxDown /\ early \in 0 .. MaxOrder
  BY ONLY <1>1, <1>2
<1>4. downs \in [State!Causes -> 0 .. MaxDown]
  <2>1. \A c \in State!Causes : downs[c] \in 0 .. MaxDown
    BY <1>1, <1>3 DEF State!Causes
  <2> QED
    BY <1>2, <2>1
<1> QED
  BY <1>2, <1>3, <1>4 DEF State!TypeOK, StateInv, StateTypes

\* What the run checks of the status and the relay follows from the invariant.
LEMMA StateShows ==
  ASSUME StateInv
  PROVE State!OrderSurvives /\ State!PinAgrees /\ State!ExceptionsCounted
<1>1. State!OrderSurvives
  BY DEF State!OrderSurvives, StateInv, Placed
<1>2. State!PinAgrees
  BY DEF State!PinAgrees, StateInv, Placed
<1>3. State!ExceptionsCounted
  BY DEF State!ExceptionsCounted, StateInv, Noted, Blamed
<1> QED
  BY <1>1, <1>2, <1>3

-----------------------------------------------------------------------------
(* The parts together: Link.                                               *)

(* Each behaviour of Link is one of each of its parts: what moves is a     *)
(* step of the part whose turn it is, and a stutter of the others.         *)
THEOREM LinkImplementsParts == LinkSpec => Spec /\ DnsSpec /\ State!Spec
<1>1. LinkInit => Init /\ DnsInit /\ State!Init
  BY DEF LinkInit
<1>2. [LinkNext]_linkVars => [Next]_vars
  BY DEF LinkNext, OthersStay, linkVars
<1>3. [LinkNext]_linkVars => [DnsNext]_dnsVars
  BY DEF LinkNext, OthersStay, linkVars
<1>4. [LinkNext]_linkVars => [State!Next]_(State!vars)
  BY DEF LinkNext, OthersStay, linkVars, stateVars, State!vars
<1> QED
  BY <1>1, <1>2, <1>3, <1>4, PTL DEF LinkSpec, Spec, DnsSpec, State!Spec

(* The values of all three parts stay what they may be, however long the   *)
(* update service goes on failing and whatever is restarted.               *)
THEOREM LinkTypes == LinkSpec => []LinkTypeOK
<1>1. TypeOK /\ DnsTypeOK /\ StateInv => LinkTypeOK
  BY StateTyped DEF LinkTypeOK
<1> QED
  BY <1>1, LinkImplementsParts, BearerTypes, NamesTypes, StateInvariance, PTL

(* The user's last order to the relay outlives restarts, the pin agrees    *)
(* with the status but for the second after a restore that lost power, and *)
(* only unordered restarts are counted as exceptions, whatever the order   *)
(* of ticks, orders, torn writes and restarts.                             *)
THEOREM RelayFollowsOrders == LinkSpec => []RelayAgrees
<1>1. StateInv => RelayAgrees
  BY StateShows DEF RelayAgrees
<1> QED
  BY <1>1, LinkImplementsParts, StateInvariance, PTL

(* No socket is open without a bearer, none on a service that does not     *)
(* work, the lookup slot is never stuck, and a cached address is its own   *)
(* service's: the properties of the parts, of the composed system.         *)
THEOREM LinkIsSound ==
  LinkSpec => /\ []SocketsNeedBearer /\ []SocketsMatchStatus /\ []SlotConsistent
              /\ ~LateAnswers => []CacheIsOwn
  BY LinkImplementsParts, NoSocketWithoutBearer, SocketsFollowStatus, SlotIsConsistent,
     CacheStaysOwn, PTL

(* Nobody who asked for the check is cut off at speed: only the boot, that *)
(* restores the order, closes the relay without asking.                    *)
THEOREM RelayHeeds == LinkSpec => RelayObeys
<1>1. ASSUME State!Next, ~pin, pin', speed = "high", ~State!Calm(st), ~forced', StateInv
      PROVE pc = "down"
  <2>1. CASE State!Boot
    BY <2>1 DEF State!Boot
  <2>2. CASE State!RelayTimer
    <3> DEFINE s == [st EXCEPT !.fresh = FALSE]
    <3>1. State!MayCut(s, TRUE)
      BY <1>1, <2>2 DEF State!RelayTimer
    <3>2. State!Calm(s)
      BY <1>1, <3>1 DEF State!MayCut
    <3>3. /\ s.asleep = st.asleep /\ s.static = st.static /\ ~s.fresh
      BY <1>1 DEF StateInv, StateTypes, State!Status
    <3> QED
      BY <1>1, <3>2, <3>3 DEF State!Calm
  <2>3. ASSUME NEW checked \in BOOLEAN, State!Cut(checked) PROVE pc = "down"
    <3> DEFINE u == State!With(st, "user", TRUE)
    <3>1. checked /\ State!MayCut(u, checked)
      BY <1>1, <2>3 DEF State!Cut
    <3>2. State!Calm(u)
      BY <1>1, <3>1 DEF State!MayCut
    <3>3. u.asleep = st.asleep /\ u.static = st.static /\ u.fresh = st.fresh
      BY <1>1 DEF StateInv, StateTypes, State!Status, State!With
    <3> QED
      BY <1>1, <3>2, <3>3 DEF State!Calm
  <2>4. CASE State!Restore
    BY <1>1, <2>4 DEF State!Restore
  <2>5. ~(State!Boot \/ State!RelayTimer \/ (\E checked \in BOOLEAN : State!Cut(checked))
          \/ State!Restore) => pin' = pin
    BY <1>1 DEF State!Next, State!LogBoot, State!RestoreHalf, State!SetAlarm,
                State!SetWorkState, State!SetVehicle, State!OthersKept, State!OrderReboot,
                State!FactoryReset, State!Reboot, State!Crash, State!Down, State!Drive
  <2> QED
    BY <1>1, <2>1, <2>2, <2>3, <2>4, <2>5
<1>2. StateInv /\ [LinkNext]_linkVars =>
        [part = "state" /\ ~pin /\ pin' /\ speed = "high" /\ ~State!Calm(st) /\ ~forced'
           => pc = "down"]_linkVars
  BY <1>1 DEF LinkNext
<1> QED
  BY <1>2, LinkImplementsParts, StateInvariance, PTL DEF LinkSpec, RelayObeys

-----------------------------------------------------------------------------
(* An update that is under way is left alone.                              *)

\* The links m are the links l as far as the update service goes.
Spared(l, m) == m \in [Services -> Link] /\ m["update"] = l["update"]

\* Whatever is done to the main service, the others stay as they are.
LEMMA GpsSpares ==
  ASSUME NEW l \in [Services -> Link]
  PROVE  /\ \A new \in SocketStatus : Spared(l, Moved(l, "gps", new))
         /\ Spared(l, Closed(l, "gps")) /\ Spared(l, Finished(l, "gps"))
         /\ Spared(l, GpsDestroyed(l)) /\ Spared(l, Failed(l, "gps"))
<1>1. "gps" \in Services /\ "update" \in Services \ {"gps"}
  BY DEF Services
<1>2. \A m \in [Services -> Link], new \in SocketStatus : Spared(m, Moved(m, "gps", new))
  BY <1>1, MovedIs DEF Spared
<1>3. Spared(l, Closed(l, "gps"))
  BY <1>1, ClosedIs DEF Spared
<1>4. {"DATA_FINISH", "ERROR"} \subseteq SocketStatus
  BY DEF SocketStatus
<1>5. Spared(l, Finished(l, "gps"))
  BY <1>2, <1>3, <1>4 DEF Spared, Finished
<1>6. Spared(l, GpsDestroyed(l))
  <2> DEFINE m == [Closed(l, "gps") EXCEPT !["gps"].fifo = FALSE]
  <2>1. Spared(l, m)
    <3> DEFINE c == Closed(l, "gps")
    <3>1. c \in [Services -> Link] /\ c["update"] = l["update"]
      BY <1>3 DEF Spared
    <3> HIDE DEF c
    <3>2. [c["gps"] EXCEPT !.fifo = FALSE] \in Link
      BY <1>1, <3>1 DEF Link
    <3>3. [c EXCEPT !["gps"].fifo = FALSE] = [c EXCEPT !["gps"] = [c["gps"] EXCEPT !.fifo = FALSE]]
      BY <1>1, <3>1
    <3> QED
      BY <1>1, <3>1, <3>2, <3>3 DEF Spared, c
  <2> HIDE DEF m
  <2>2. Spared(m, Moved(m, "gps", "ERROR"))
    BY <1>2, <1>4, <2>1 DEF Spared
  <2>3. Spared(l, Moved(m, "gps", "ERROR"))
    BY <2>1, <2>2 DEF Spared
  <2> QED
    BY <2>3 DEF GpsDestroyed, Spared, m
<1>7. Spared(l, Failed(l, "gps"))
  <2> DEFINE n == (l["gps"].fails + 1) % Width
  <2>1. l["gps"] \in Link
    BY <1>1
  <2>2. n \in 0 .. Width - 1
    BY <2>1, LinkAssumption DEF Link
  <2>3. Failed(l, "gps") = [l EXCEPT !["gps"] = [l["gps"] EXCEPT !.fails = n]]
    BY <1>1 DEF Failed
  <2> HIDE DEF n
  <2>4. [l["gps"] EXCEPT !.fails = n] \in Link
    BY <2>1, <2>2 DEF Link
  <2> QED
    BY <1>1, <2>3, <2>4 DEF Spared
<1> QED
  BY <1>2, <1>3, <1>5, <1>6, <1>7

\* While an update is under way, a main service that is lost does not take it along.
LEMMA LossSpares ==
  ASSUME NEW l \in [Services -> Link], l["update"].st \in Unfinished
  PROVE  Spared(l, LinksLost(l))
<1>1. ~BearerGoes(l)
  BY DEF BearerGoes, Unfinished
<1> QED
  BY <1>1, GpsSpares DEF LinksLost

\* The main service connects, or tries to.
LEMMA ConnectSpares ==
  ASSUME NEW l \in [Services -> Link], l["update"].st \in Unfinished,
         NEW sends \in BOOLEAN, Connect(l, "gps", sends)
  PROVE  Spared(l, link')
<1>1. CASE link' = l
  BY <1>1 DEF Spared
<1>2. CASE link' = [l EXCEPT !["gps"].sock = "wait"]
  <2>1. "gps" \in Services /\ "update" \in Services \ {"gps"} /\ l["gps"] \in Link
    BY DEF Services
  <2>2. [l["gps"] EXCEPT !.sock = "wait"] \in Link
    BY <2>1 DEF Link
  <2>3. link' = [l EXCEPT !["gps"] = [l["gps"] EXCEPT !.sock = "wait"]]
    BY <1>2, <2>1
  <2> QED
    BY <2>1, <2>2, <2>3 DEF Spared
<1> QED
  BY <1>1, <1>2 DEF Connect

(* Nothing that happens to the main service, losing the bearer included,   *)
(* touches the link of a firmware update that is under way.                *)
THEOREM UpdateIsSpared == LinkSpec => UpdateSpared
<1> DEFINE GpsMoves == \/ InitProc("gps") \/ ConnectingProc("gps") \/ WorkProc
                       \/ SendFails \/ LoginResponse \/ SocketError("gps")
<1>1. ASSUME link \in [Services -> Link], link["update"].st \in Unfinished, GpsMoves
      PROVE  link'["update"] = link["update"]
  <2>1. {"INIT", "CONNECTING", "LOGIN", "WORK", "DATA_FINISH"} \subseteq SocketStatus
    BY DEF SocketStatus
  <2>2. Spared(link, LinksLost(link))
    BY <1>1, LossSpares
  <2>3. CASE InitProc("gps")
    <3> DEFINE m == Moved(link, "gps", "CONNECTING")
    <3>1. Spared(link, m)
      BY <1>1, <2>1, GpsSpares
    <3>2. PICK sends \in BOOLEAN : Connect(m, "gps", sends)
      BY <2>3 DEF InitProc
    <3> HIDE DEF m
    <3> QED
      BY <1>1, <3>1, <3>2, ConnectSpares DEF Spared
  <2>4. CASE ConnectingProc("gps")
    <3> DEFINE f == Failed(link, "gps")
               m == Closed(f, "gps")
    <3>1. Spared(link, f)
      BY <1>1, GpsSpares
    <3>2. Spared(link, m)
      <4> HIDE DEF f
      <4>1. Spared(f, m)
        BY <3>1, GpsSpares DEF Spared
      <4> QED
        BY <3>1, <4>1 DEF Spared
    <3>3. \/ GiveUp(m, "gps")
          \/ \E sends \in BOOLEAN : Connect(m, "gps", sends)
      BY <2>4 DEF ConnectingProc
    <3> HIDE DEF f, m
    <3>4. Spared(m, LinksLost(m)) /\ Spared(m, Moved(m, "gps", "INIT"))
      BY <1>1, <2>1, <3>2, LossSpares, GpsSpares DEF Spared
    <3>5. CASE GiveUp(m, "gps")
      BY <3>2, <3>4, <3>5 DEF GiveUp, DestroyGprs, Spared
    <3>6. CASE \E sends \in BOOLEAN : Connect(m, "gps", sends)
      BY <1>1, <3>2, <3>6, ConnectSpares DEF Spared
    <3> QED
      BY <3>3, <3>5, <3>6
  <2>5. CASE WorkProc
    <3>1. PICK sends, broken \in BOOLEAN :
            LET l == IF sends THEN link ELSE LinksLost(link)
            IN link' = IF broken THEN Finished(l, "gps") ELSE l
      BY <2>5 DEF WorkProc
    <3> DEFINE l == IF sends THEN link ELSE LinksLost(link)
    <3>2. Spared(link, l)
      BY <1>1, <2>2 DEF Spared
    <3>3. link' = IF broken THEN Finished(l, "gps") ELSE l
      BY <3>1
    <3> HIDE DEF l
    <3>4. Spared(l, Finished(l, "gps"))
      BY <3>2, GpsSpares DEF Spared
    <3> QED
      BY <3>2, <3>3, <3>4 DEF Spared
  <2>6. CASE SendFails
    BY <2>2, <2>6 DEF SendFails, DestroyGprs, Spared
  <2>7. CASE LoginResponse
    <3>1. Spared(link, Moved(link, "gps", "WORK"))
      BY <1>1, <2>1, GpsSpares
    <3>2. Spared(link, Moved(LinksLost(link), "gps", "WORK"))
      <4>1. Spared(LinksLost(link), Moved(LinksLost(link), "gps", "WORK"))
        BY <2>1, <2>2, GpsSpares DEF Spared
      <4> QED
        BY <2>2, <4>1 DEF Spared
    <3> QED
      BY <2>2, <2>7, <3>1, <3>2 DEF LoginResponse, DestroyGprs, Spared
  <2>8. CASE SocketError("gps")
    BY <1>1, <2>2, <2>8, GpsSpares DEF SocketError, DestroyGprs, Spared
  <2> QED
    BY <1>1, <2>3, <2>4, <2>5, <2>6, <2>7, <2>8
<1>2. TypeOK /\ [Next]_vars =>
        [/\ \/ InitProc("gps") \/ ConnectingProc("gps") \/ WorkProc
            \/ SendFails \/ LoginResponse \/ SocketError("gps")
         /\ link["update"].st \in Unfinished
         => link'["update"] = link["update"]]_vars
  <2>1. TypeOK => link \in [Services -> Link]
    BY DEF TypeOK
  <2> QED
    BY <1>1, <2>1
<1> QED
  BY <1>2, LinkImplementsParts, BearerTypes, PTL DEF Spec, UpdateSpared
=============================================================================
