-------------------------------- MODULE Device --------------------------------
(***************************************************************************)
(* What senses the car and its surroundings, in one specification: the     *)
(* power alarms (Power), the ignition and the arming (Defence), the motion *)
(* sensor with the timers it stops and starts (Motion), and the GPS        *)
(* receiver: how its chip is found (GpsReceiver), how its sentences are    *)
(* put together (Serial) and what becomes of them (GpsFix).  They share no *)
(* state: `part` is the one that moves, and the others stay as they began. *)
(***************************************************************************)
EXTENDS Power, Motion

CONSTANTS
  Hold, Long, MaxMode,      \* of Defence
  MaxRounds, MaxFault,      \* of GpsReceiver
  FixHold, LostHold, MaxPower, \* of GpsFix
  BufMax, FifoMax, MaxFrame, MaxClose  \* of Serial

\* What the bounds are: a second that counts and a sentence at least, ten minutes of
\* rounds that outlast the faults, each of which costs the search two of them.
ASSUME DeviceAssumption ==
  /\ {OnTime, OffTime, MaxBoot, MaxMend, Long, MaxMode, Window, Enough, Sleep, Study, Low,
      MaxOrder, MaxStart, MaxFault, FixHold, MaxPower, BufMax, FifoMax, MaxFrame,
      MaxClose} \subseteq Nat
  /\ {Hold, LostHold} \subseteq Nat \ {0}
  /\ MaxRounds \in Nat /\ MaxRounds > 2 * MaxFault

VARIABLES
  part,
  wired, line, driving, acc, high, runs, lineMode, manual, defence, arming, checking,
  alarm, clean, modes, resets,
  finder, saved, type, baud, port, powered, starting, on, internal, check, rounds,
  rebooting, unopened, faults,
  nmea, satellites, fixing, flags, fixes, st, age, since, lbs, pending, scan, powers, shown,
  air, rcv_fifo, frames, accepted, spoilt, closes

defenceVars ==
  <<wired, line, driving, acc, high, runs, lineMode, manual, defence, arming, checking,
    alarm, clean, modes, resets>>
receiverVars ==
  <<finder, saved, type, baud, port, powered, starting, on, internal, check, rounds,
    rebooting, unopened, faults>>
fixVars ==
  <<nmea, satellites, fixing, flags, fixes, st, age, since, lbs, pending, scan, powers,
    shown>>
serialVars == <<air, rcv_fifo, frames, accepted, spoilt, closes>>
deviceVars ==
  <<part, powerVars, defenceVars, motionVars, receiverVars, fixVars, serialVars>>

Arming == INSTANCE Defence WITH boots <- resets
Finding == INSTANCE GpsReceiver WITH chip <- finder
Fixing == INSTANCE GpsFix WITH kind <- nmea, sky <- satellites, on <- fixing, rec <- fixes
Reading == INSTANCE Serial

Parts == {"power", "defence", "motion", "receiver", "fix", "serial"}

DeviceInit ==
  /\ part \in Parts
  /\ PowerInit /\ Arming!Init /\ MotionInit /\ Finding!Init /\ Fixing!Init
  /\ Reading!Init
  /\ part # "power" => kind = "w" /\ battery = "good" /\ disabled = {}
  /\ part # "defence" => wired /\ lineMode /\ manual
  /\ part # "motion" => car = "parked" /\ sky /\ ~never /\ vehicle = "static"
  /\ part # "receiver" => finder = "mtk" /\ saved = "mtk"
  /\ part # "fix" => nmea = "mtk" /\ since = {}

\* Everything but the part that moves.
OthersStay ==
  /\ UNCHANGED part
  /\ IF part = "power" THEN TRUE ELSE UNCHANGED powerVars
  /\ IF part = "defence" THEN TRUE ELSE UNCHANGED defenceVars
  /\ IF part = "motion" THEN TRUE ELSE UNCHANGED motionVars
  /\ IF part = "receiver" THEN TRUE ELSE UNCHANGED receiverVars
  /\ IF part = "fix" THEN TRUE ELSE UNCHANGED fixVars
  /\ IF part = "serial" THEN TRUE ELSE UNCHANGED serialVars

DeviceNext ==
  \/ part = "power" /\ PowerNext /\ OthersStay
  \/ part = "defence" /\ Arming!Next /\ OthersStay
  \/ part = "motion" /\ MotionNext /\ OthersStay
  \/ part = "receiver" /\ Finding!Next /\ OthersStay
  \/ part = "fix" /\ Fixing!Next /\ OthersStay
  \/ part = "serial" /\ Reading!Next /\ OthersStay

DeviceSpec == DeviceInit /\ [][DeviceNext]_deviceVars

-------------------------------------------------------------------------------

\* The values the variables of all parts may have.
DeviceTypeOK ==
  /\ part = "power" => PowerTypeOK
  /\ part = "defence" => Arming!TypeOK
  /\ part = "motion" => MotionTypeOK
  /\ part = "receiver" => Finding!TypeOK
  /\ part = "fix" => Fixing!TypeOK
  /\ part = "serial" => Reading!TypeOK

\* What is kept twice agrees: the status bits of the power alarms and the records that
\* filter the voltage, the arming and the ignition (AlarmsAgree of Power and
\* DrivingDisarmed of Defence).
SensorsAgree ==
  /\ part = "power" => AlarmsAgree
  /\ part = "defence" => Arming!DrivingDisarmed

\* What is told of the movement is not out of date: a parked car is known to stand, a
\* "3D" state has a young position, the device restarts over a silent receiver only if
\* its kind is saved wrong, and a line the receiver says is lost for a cause only
\* (StillIsStatic, SpeedFresh, RestartNeeded and LinesKept).
MovementKnown ==
  /\ part = "motion" => StillIsStatic
  /\ part = "fix" => Fixing!SpeedFresh
  /\ part = "receiver" => Finding!RestartNeeded
  /\ part = "serial" => Reading!LinesKept

\* The fairness of each module, for the reasons given there.  A liveness property of a
\* part has that of its module for premise, and no other.
PowerFair ==
  /\ WF_powerVars(part = "power" /\ Second)
  /\ WF_powerVars(part = "power" /\ Reboot)
DefenceFair ==
  /\ WF_defenceVars(part = "defence" /\ Arming!CheckAcc)
  /\ WF_defenceVars(part = "defence" /\ Arming!AutoDefence)
  /\ WF_defenceVars(part = "defence" /\ Arming!ReportShake)
MotionFair ==
  /\ WF_motionVars(part = "motion" /\ FindChip)
  /\ WF_motionVars(part = "motion" /\ Sampled)
ReceiverFair ==
  /\ WF_receiverVars(part = "receiver" /\ Finding!CheckReceived)
  /\ WF_receiverVars(part = "receiver" /\ Finding!Hear)
FixFair ==
  /\ WF_fixVars(part = "fix" /\ Fixing!Second)
  /\ WF_fixVars(part = "fix" /\ Fixing!CheckState)
  /\ WF_fixVars(part = "fix" /\ Fixing!ScanDone)

\* A cut supply is reported for good, a low battery is withdrawn by a charger only, and
\* a car that stays parked is armed (CutReported and LowStays of Power, ParkedArmed of
\* Defence).
AlarmsCome ==
  /\ LowStays
  /\ part = "power" /\ PowerFair => CutReported
  /\ part = "defence" /\ DefenceFair => Arming!ParkedArmed

\* Device and receiver sleep with the parked car and wake with the shaken one, a
\* receiver that is switched on is found, and where the car is gets reported
\* (FollowsCar, Found and Located).
PositionsCome ==
  /\ part = "motion" /\ MotionFair => FollowsCar
  /\ part = "receiver" /\ ReceiverFair => Finding!Found
  /\ part = "fix" /\ FixFair => Fixing!Located
===============================================================================
