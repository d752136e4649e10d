------------------------------- MODULE Defence -------------------------------
(***************************************************************************)
(* Arming the car: hard_ware_check_acc and the delay timer of src/src/     *)
(* hard_ware.c, the commands DEFMODE, DEFENCE ON and OFF of src/src/       *)
(* command.c, and the shake alarm of src/src/g_sensor.c, which looks at    *)
(* the defence and, later, at the ignition (ACC).                          *)
(*                                                                         *)
(* In automatic mode the ignition disarms at once and arms after a delay.  *)
(* The filter and both timers are in RAM, the mode and the defence are not,*)
(* and an ignition line that is found implausible counts as not connected. *)
(***************************************************************************)
EXTENDS Naturals

CONSTANTS
  Hold,     \* seconds the line must hold (5 in check_acc)
  Long,     \* seconds after which a line is implausible (a day, an hour)
  MaxMode,  \* mode commands a behaviour explores
  MaxBoot   \* restarts a behaviour explores

VARIABLES
  wired,    \* has this type of device an ignition line
  line,     \* the level of the line: TRUE is ignition on
  driving,  \* does the sensor see the car run
  acc,      \* acc_record: state, and the seconds of the other value
  high,     \* true_state_hold_seconds, seconds the level has been TRUE
  runs,     \* acc_low_but_run_seconds
  lineMode, \* system_state's acc_is_line_mode
  manual,   \* CFG_IS_MANUAL_DEFENCE
  defence,  \* system_state's defence
  arming,   \* GM_TIMER_HARDWARE_AUTODEFENCE runs
  checking, \* GM_TIMER_GSENSOR_CHECK_ACC_AFTER_SHAKE runs
  alarm,    \* shake alarms pushed, since the ignition was last seen to go on
  clean,    \* nothing has come between the mode and the ignition since then
  modes, boots

vars == <<wired, line, driving, acc, high, runs, lineMode, manual, defence, arming, checking,
          alarm, clean, modes, boots>>

Init ==
  /\ wired \in BOOLEAN /\ line = FALSE /\ driving = FALSE
  /\ acc = [state |-> FALSE, held |-> 0] /\ high = 0 /\ runs = 0
  /\ lineMode \in BOOLEAN /\ manual \in BOOLEAN /\ defence = FALSE
  /\ arming = FALSE /\ checking = FALSE /\ alarm = FALSE /\ clean = FALSE
  /\ modes = 0 /\ boots = 0

Up(n) == IF n > Long THEN n ELSE n + 1

--------------------------------------------------------------------------------

\* Mutant: a value must hold a second longer.
CheckedLate ==
  IF line = acc.state THEN [acc EXCEPT !.held = 0]
  ELSE IF acc.held + 1 > Hold THEN [state |-> line, held |-> 0]
  ELSE [acc EXCEPT !.held = @ + 1]

\* util_check_state_change with the thresholds of check_acc.
Checked ==
  IF line = acc.state THEN [acc EXCEPT !.held = 0]
  ELSE IF acc.held + 1 >= Hold THEN [state |-> line, held |-> 0]
  ELSE [acc EXCEPT !.held = @ + 1]

\* hard_ware_check_acc, each second; without a line hard_ware_timer_proc only
\* clears the line mode.
WentOn == Checked.state /\ ~acc.state
WentOff == ~Checked.state /\ acc.state
LineHigh == IF line THEN Up(high) ELSE 0
LowRuns == IF Checked.state THEN 0 ELSE IF driving THEN Up(runs) ELSE runs
Implausible == LineHigh > Long \/ LowRuns > Long

\* Mutant: only an implausible line disarms.
DisarmsLate == ~manual /\ Implausible

\* The ignition going on, and a line that cannot be trusted, disarm.
Disarms == ~manual /\ (WentOn \/ Implausible)

\* Mutant: armed only if the car still moves.
ArmsMoving == ~manual /\ WentOff /\ driving

\* The ignition going off starts the arming timer.
Arms == ~manual /\ WentOff
CheckAcc ==
  /\ wired
  /\ acc' = Checked /\ high' = LineHigh /\ runs' = LowRuns
  /\ lineMode' = ~Implausible
  /\ arming' = ((arming \/ Arms) /\ ~Disarms)
  /\ defence' = (defence /\ ~Disarms)
  /\ clean' = IF WentOn THEN ~manual ELSE clean /\ LowRuns <= Long
  /\ alarm' = (alarm /\ ~WentOn)
  /\ UNCHANGED <<wired, line, driving, manual, checking, modes, boots>>
NoLine ==
  /\ ~wired /\ lineMode /\ lineMode' = FALSE
  /\ UNCHANGED <<wired, line, driving, acc, high, runs, manual, defence, arming, checking,
                 alarm, clean, modes, boots>>

\* hard_ware_set_auto_defence, when the timer ends: nothing is looked at again.
AutoDefence ==
  /\ arming /\ arming' = FALSE /\ defence' = TRUE
  /\ UNCHANGED <<wired, line, driving, acc, high, runs, lineMode, manual, checking, alarm,
                 clean, modes, boots>>

--------------------------------------------------------------------------------

\* DEFMODE: only the setting is changed.
SetMode ==
  /\ modes < MaxMode /\ modes' = modes + 1
  /\ manual' = ~manual /\ clean' = FALSE
  /\ UNCHANGED <<wired, line, driving, acc, high, runs, lineMode, defence, arming, checking,
                 alarm, boots>>

\* DEFENCE ON and OFF are refused in automatic mode.
Order ==
  /\ manual /\ defence' = ~defence
  /\ UNCHANGED <<wired, line, driving, acc, high, runs, lineMode, manual, arming, checking,
                 alarm, clean, modes, boots>>

--------------------------------------------------------------------------------

\* hard_ware_get_acc_line_level: an implausible line counts as off.
AccOn == lineMode /\ acc.state

\* check_shake_alarm after shakes enough: reported at once in manual mode, after
\* a look at the ignition in automatic mode.  Each shake restarts the delay.
Shake ==
  /\ defence
  /\ IF manual THEN alarm' = TRUE /\ checking' = checking
     ELSE checking' = TRUE /\ alarm' = alarm
  /\ UNCHANGED <<wired, line, driving, acc, high, runs, lineMode, manual, defence, arming,
                 clean, modes, boots>>

\* check_acc_and_report_shake_alarm: the defence is not looked at again.
ReportShake ==
  /\ checking /\ checking' = FALSE
  /\ alarm' = (alarm \/ ~AccOn)
  /\ UNCHANGED <<wired, line, driving, acc, high, runs, lineMode, manual, defence, arming,
                 clean, modes, boots>>

--------------------------------------------------------------------------------

\* hard_ware_create and g_sensor_create after a restart: the timers and the
\* filter are gone.  FACTORY or a torn file wipes the status first.
Restart(kept) ==
  /\ boots < MaxBoot /\ boots' = boots + 1
  /\ acc' = [state |-> FALSE, held |-> 0] /\ high' = 0 /\ runs' = 0
  /\ arming' = FALSE /\ checking' = FALSE
  /\ defence' = (defence /\ kept) /\ lineMode' = (lineMode /\ kept)
  /\ clean' = (clean /\ kept /\ ~arming /\ ~acc.state)
  /\ UNCHANGED <<wired, line, driving, manual, alarm, modes>>
Boot == \E kept \in BOOLEAN : Restart(kept)

Drive ==
  /\ \/ line' = ~line /\ driving' = driving
     \/ driving' = ~driving /\ line' = line
  /\ UNCHANGED <<wired, acc, high, runs, lineMode, manual, defence, arming, checking, alarm,
                 clean, modes, boots>>

Next ==
  \/ CheckAcc \/ NoLine \/ AutoDefence \/ SetMode \/ Order \/ Shake \/ ReportShake
  \/ Boot \/ Drive

Spec == Init /\ [][Next]_vars
\* The timers of the device run and end.
Fairness == WF_vars(CheckAcc) /\ WF_vars(AutoDefence) /\ WF_vars(ReportShake)
FairSpec == Spec /\ Fairness

--------------------------------------------------------------------------------

TypeOK ==
  /\ acc \in [state : BOOLEAN, held : 0 .. Hold - 1] /\ high \in 0 .. Long + 1
  /\ runs \in 0 .. Long + 1
  /\ {wired, line, driving, lineMode, manual, defence, arming, checking, alarm, clean}
       \subseteq BOOLEAN
  /\ modes \in 0 .. MaxMode /\ boots \in 0 .. MaxBoot

\* With the ignition on, in automatic mode, the car is not armed and no timer is
\* about to arm it - as long as the mode was not switched and no restart came in
\* between: DEFMODE leaves the defence and the timer of the other mode behind.
DrivingDisarmed ==
  (clean /\ acc.state) => (~defence /\ ~arming)

\* A car that stays parked is armed in the end: the ignition was seen to go on
\* and off in automatic mode, the line is plausible, and neither a mode switch nor
\* a restart that cost the timer came in between.
Parked == clean /\ ~line /\ lineMode
ParkedArmed == <>[]Parked => <>[](defence \/ ~clean)
================================================================================
