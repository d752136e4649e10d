----------------------------- MODULE GpsReceiver -----------------------------
(***************************************************************************)
(* Finding the GPS chip: src/src/gps.c and the port of src/src/uart.c it   *)
(* talks through.                                                          *)
(*                                                                         *)
(* The chip is of one of two kinds: "mtk" speaks 115200 baud and tells who *)
(* it is once, after its power comes up; "td" stands for the chips of 9600 *)
(* baud, which also answer a query.  Until it is known who is there, a     *)
(* timer turns the power off and on again and tries the other speed.  What *)
(* is written to the chip then, to aid it, is module Agps; here it shows   *)
(* in internal_state only.                                                 *)
(***************************************************************************)
EXTENDS Naturals

CONSTANTS
  MaxRounds, \* rounds of the check timer in ten minutes
  MaxFault   \* lost announcements and ports that do not open

VARIABLES
  chip,      \* the kind of chip that is there
  saved,     \* CFG_GPS_TYPE
  type,      \* gpsdev_type
  baud,      \* baud_rate
  port,      \* the speed the port is open at, or "closed"
  powered,   \* the power pin
  starting,  \* the chip has just started and has not told who it is
  on,        \* state is not GM_GPS_OFF
  internal,  \* internal_state
  check,     \* GM_TIMER_GPS_CHECK_RECEIVED runs
  rounds,    \* rounds since a sentence was received
  rebooting, \* a restart was ordered
  unopened,  \* the port did not open: no timer runs that would try again
  faults

vars == <<chip, saved, type, baud, port, powered, starting, on, internal, check, rounds,
          rebooting, unopened, faults>>

Inited == 0
WaitVersion == 1
WaitTime == 2
WaitData == 3
Working == 4

Kinds == {"unknown", "mtk", "td"}
Speeds == {"low", "high"}
Speed(t) == IF t = "mtk" THEN "high" ELSE "low"

Init ==
  /\ chip \in {"mtk", "td"} /\ saved \in Kinds /\ type = "unknown"
  /\ baud = "low" /\ port = "closed" /\ powered = FALSE /\ starting = FALSE /\ on = FALSE
  /\ internal = Inited /\ check = FALSE /\ rounds = 0 /\ rebooting = FALSE
  /\ unopened = FALSE /\ faults = 0

--------------------------------------------------------------------------------
(* Power. *)

\* uart_open_port: an open port keeps its speed; the system may refuse.
OpenPort(s) ==
  \/ /\ port' = (IF port = "closed" THEN s ELSE port)
     /\ faults' = faults
  \/ port = "closed" /\ port' = "closed" /\ faults < MaxFault /\ faults' = faults + 1

\* hard_ware_open_gps, after a pause with the power off.
PowerUp == powered' = TRUE /\ starting' = TRUE
PowerDown == powered' = FALSE /\ starting' = FALSE

\* gps_power_on: from boot, wake-up and the commands GPSON and SERVER.
PowerOn ==
  /\ ~on
  /\ on' = TRUE /\ internal' = WaitVersion /\ check' = TRUE /\ rounds' = 0
  /\ type' = saved /\ baud' = Speed(saved)
  /\ OpenPort(Speed(saved))
  /\ PowerUp
  /\ UNCHANGED <<chip, saved, rebooting, unopened>>

\* gps_power_off.
PowerOff ==
  /\ on
  /\ on' = FALSE /\ check' = FALSE /\ port' = "closed" /\ unopened' = FALSE
  /\ PowerDown
  /\ UNCHANGED <<chip, saved, type, baud, internal, rounds, rebooting, faults>>

\* reopen_gps, by gps_write_agps_info for an MTK chip that has been up for too
\* long: the port stays open, at the speed it has.
Reopen ==
  /\ on /\ type = "mtk" /\ internal > WaitVersion
  /\ type' = "unknown" /\ baud' = "low" /\ internal' = WaitVersion /\ check' = TRUE
  /\ rounds' = 0
  /\ PowerUp
  /\ UNCHANGED <<chip, saved, port, on, rebooting, unopened, faults>>

--------------------------------------------------------------------------------
(* Looking for the chip. *)

\* What the chip says within the five seconds between two checks.
Talks == powered /\ port = Speed(chip)
Audible == Talks /\ on /\ (chip = "mtk" => starting)

\* Mutant: the same speed is tried again.
NextSpeedFixed == baud

\* check_has_received_data.  A port that does not open ends the search: the
\* power is off, and the timer is not started again.
Other(s) == IF s = "low" THEN "high" ELSE "low"
NextSpeed == IF type = "unknown" THEN Other(baud) ELSE baud
CheckReceived ==
  /\ check /\ ~rebooting /\ (internal <= WaitVersion => ~Audible)
  /\ IF internal > WaitVersion
       THEN /\ check' = FALSE
            /\ UNCHANGED <<baud, port, powered, starting, rounds, rebooting, unopened, faults>>
     ELSE IF rounds >= MaxRounds
       THEN /\ check' = FALSE /\ rebooting' = TRUE
            /\ UNCHANGED <<baud, port, powered, starting, rounds, unopened, faults>>
     ELSE /\ baud' = NextSpeed /\ rounds' = rounds + 1
          /\ \/ port' = NextSpeed /\ check' = TRUE /\ PowerUp
                /\ UNCHANGED <<faults, unopened>>
             \/ port' = "closed" /\ check' = FALSE /\ PowerDown
                /\ faults < MaxFault /\ faults' = faults + 1 /\ unopened' = TRUE
          /\ UNCHANGED rebooting
  /\ UNCHANGED <<chip, saved, type, on, internal>>

\* The restart the timer orders: what is saved stays, right or wrong.
Restart ==
  /\ rebooting /\ rebooting' = FALSE
  /\ type' = "unknown" /\ baud' = "low" /\ port' = "closed" /\ on' = FALSE
  /\ internal' = Inited /\ check' = FALSE /\ rounds' = 0 /\ unopened' = FALSE
  /\ PowerDown
  /\ UNCHANGED <<chip, saved, faults>>

--------------------------------------------------------------------------------
(* What the chip says. *)

\* gps_on_rcv_uart_data for the sentences that tell who the chip is: who is not
\* known yet is recorded, and aiding begins.
Hear ==
  /\ Audible
  /\ rounds' = 0 /\ starting' = FALSE
  /\ type' = chip /\ saved' = chip
  /\ internal' = IF internal < WaitTime THEN WaitTime ELSE internal
  /\ UNCHANGED <<chip, baud, port, powered, on, check, rebooting, unopened, faults>>

\* The acknowledgement of the place, and that of the last block of data.
Acked ==
  /\ Talks /\ on
  /\ \/ internal > WaitVersion /\ internal' = WaitData
     \/ internal = WaitData /\ internal' = Working
  /\ UNCHANGED <<chip, saved, type, baud, port, powered, starting, on, check, rounds,
                 rebooting, unopened, faults>>

\* check_fix_state_change: the first fix ends the aiding.
Fix ==
  /\ Talks /\ on /\ internal \in {WaitTime, WaitData}
  /\ internal' = Working
  /\ UNCHANGED <<chip, saved, type, baud, port, powered, starting, on, check, rounds,
                 rebooting, unopened, faults>>

--------------------------------------------------------------------------------
(* What may go wrong or change outside. *)

\* The announcement of an MTK chip is lost.
Lose ==
  /\ faults < MaxFault /\ faults' = faults + 1
  /\ starting /\ starting' = FALSE
  /\ UNCHANGED <<chip, saved, type, baud, port, powered, on, internal, check, rounds,
                 rebooting, unopened>>

\* uart_timer_proc reopens a port that has long been silent.
UartTimer ==
  /\ port # "closed" /\ ~Talks
  /\ faults < MaxFault /\ faults' = faults + 1
  /\ port' = "closed" /\ unopened' = TRUE
  /\ UNCHANGED <<chip, saved, type, baud, powered, starting, on, internal, check, rounds,
                 rebooting>>

Next ==
  \/ PowerOn \/ PowerOff \/ Restart \/ Reopen \/ CheckReceived \/ Hear \/ Acked \/ Fix \/ Lose
  \/ UartTimer

Spec == Init /\ [][Next]_vars
\* The timer runs, and a chip that talks is heard before it.
Fairness == WF_vars(CheckReceived) /\ WF_vars(Hear)
FairSpec == Spec /\ Fairness

--------------------------------------------------------------------------------

TypeOK ==
  /\ chip \in Kinds /\ saved \in Kinds /\ type \in Kinds
  /\ baud \in Speeds /\ port \in Speeds \cup {"closed"}
  /\ {powered, starting, on, check, rebooting, unopened} \subseteq BOOLEAN
  /\ internal \in Inited .. Working /\ rounds \in 0 .. MaxRounds
  /\ faults \in 0 .. MaxFault

\* The device is restarted over a silent receiver only when it looks for a chip of
\* the wrong kind, which a type that is saved wrong makes it do for ever: a chip
\* whose kind is not known, or known rightly, is found before the ten minutes are
\* over, at either speed, though announcements are lost - or a port did not open.
RestartNeeded == rebooting => saved \notin {"unknown", chip}

\* A receiver that is switched on is found, switched off, or the device restarts -
\* unless the port did not open: then nothing looks for it any more.
Ended == internal > WaitVersion \/ ~on \/ rebooting \/ unopened
Found == on ~> Ended
================================================================================
