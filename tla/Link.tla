--------------------------------- MODULE Link ---------------------------------
(***************************************************************************)
(* The connections and what commands over them act on, in one              *)
(* specification: the bearer and the services (GprsLink), the name lookups *)
(* they share (DnsArbiter), and the status of the device with the fuel     *)
(* relay, which orders from the platform and restarts change               *)
(* (SystemState).  They share no state: `part` is the one that moves.      *)
(***************************************************************************)
EXTENDS GprsLink, DnsArbiter

CONSTANTS MaxDown, MaxOrder, Torn  \* of SystemState

VARIABLES
  part,
  pc, st, file, retained, pin, speed, logged, restarting, ordered, forced, lost, half, downs,
  early, orders

stateVars ==
  <<pc, st, file, retained, pin, speed, logged, restarting, ordered, forced, lost, half,
    downs, early, orders>>
linkVars == <<part, vars, dnsVars, stateVars>>

State == INSTANCE SystemState WITH rebooting <- restarting

ASSUME StateAssumption == MaxDown \in Nat /\ MaxOrder \in Nat /\ Torn \notin State!Status

AnyName == CHOOSE n \in Names : TRUE

LinkInit ==
  /\ part \in {"bearer", "names", "state"}
  /\ Init /\ DnsInit /\ State!Init
  /\ part # "bearer" => ~known
  /\ part # "names" => addr = [s \in Sockets |-> IF s = Main THEN NoName ELSE AnyName]

OthersStay ==
  /\ UNCHANGED part
  /\ IF part = "bearer" THEN TRUE ELSE UNCHANGED vars
  /\ IF part = "names" THEN TRUE ELSE UNCHANGED dnsVars
  /\ IF part = "state" THEN TRUE ELSE UNCHANGED stateVars

LinkNext ==
  \/ part = "bearer" /\ Next /\ OthersStay
  \/ part = "names" /\ DnsNext /\ OthersStay
  \/ part = "state" /\ State!Next /\ OthersStay

LinkSpec == LinkInit /\ [][LinkNext]_linkVars

\* The fairness of each module, for the reasons given there.  A liveness property of a
\* part has that of its module for premise, and no other.
BearerFair ==
  /\ WF_vars(part = "bearer" /\ GprsProc)
  /\ \A s \in Services :
       /\ WF_vars(part = "bearer" /\ InitProc(s))
       /\ WF_vars(part = "bearer" /\ ConnectingProc(s))
  /\ WF_vars(part = "bearer" /\ LoginProc) /\ WF_vars(part = "bearer" /\ DataFinishProc)
  /\ WF_vars(part = "bearer" /\ ConfigWorkProc) /\ WF_vars(part = "bearer" /\ ConfigFinishProc)
  /\ WF_vars(part = "bearer" /\ UpdateWorkProc) /\ WF_vars(part = "bearer" /\ UpdateFinishProc)
  /\ WF_vars(part = "bearer" /\ GoodAgo) /\ WF_vars(part = "bearer" /\ HeardAgo)
  /\ WF_vars(part = "bearer" /\ Restart)
NamesFair ==
  WF_dnsVars(part = "names" /\ DnsTick) /\ WF_dnsVars(part = "names" /\ Expire)
StateFair ==
  /\ WF_stateVars(part = "state" /\ State!Boot)
  /\ WF_stateVars(part = "state" /\ State!RelayTimer)

-----------------------------------------------------------------------------

\* The values the variables of all parts may have.
LinkTypeOK ==
  /\ part = "bearer" => TypeOK
  /\ part = "names" => DnsTypeOK
  /\ part = "state" => State!TypeOK

\* The user's last order to the relay outlives restarts, the pin agrees with the
\* status, and only unordered restarts are counted as exceptions (SystemState).
RelayAgrees ==
  part = "state" => State!OrderSurvives /\ State!PinAgrees /\ State!ExceptionsCounted

\* The relay cuts at speed for nobody who asked for the check (SystemState).
RelayObeys ==
  [][part = "state" /\ ~pin /\ pin' /\ speed = "high" /\ ~State!Calm(st) /\ ~forced'
       => pc = "down"]_linkVars

\* The device reboots when the network stays away, the main service comes back after
\* it was given up, no lookup holds the slot for ever, a service that is first in turn
\* gets it, and a cut that had to wait for a low speed comes in the end (AwayReboots,
\* GpsComesBack, LookupEnds, ServedWhenFirst and CutCarriedOut).
LinkRecovers ==
  /\ part = "bearer" /\ BearerFair => AwayReboots /\ GpsComesBack
  /\ part = "names" /\ NamesFair => LookupEnds /\ ServedWhenFirst
  /\ part = "state" /\ StateFair => State!CutCarriedOut
===============================================================================
