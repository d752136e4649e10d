-------------------------------- MODULE Power --------------------------------
(***************************************************************************)
(* The power alarms of src/src/hard_ware.c: mains cut, low battery and too *)
(* high a voltage, each with its hold time (util_check_state_change), the  *)
(* percentage of the battery and the charging state.                       *)
(*                                                                         *)
(* Each alarm is kept twice: as a record in RAM that filters the voltage,  *)
(* and as a bit of the status, which is what the server sees and what a    *)
(* restart starts again from.  A step of Second is one run of              *)
(* hard_ware_timer_proc past its first line of reading; the readings are   *)
(* already smoothed.                                                       *)
(***************************************************************************)
EXTENDS Naturals

CONSTANTS
  OnTime,   \* seconds a voltage must hold to raise an alarm (POWER_CHECK_TIME)
  OffTime,  \* seconds it must hold to withdraw one
  MaxBoot,  \* restarts a behaviour explores
  MaxMend   \* commands that a behaviour explores

VARIABLES
  kind,     \* "w": no mains; "app", "mtk": charged by the application, by the chip
  mains,    \* the supply: "none" (below 7 V), "normal", "high"
  battery,  \* how full the battery really is
  plugged,  \* is the charger in (vcdt, or chr_plug)
  disabled, \* alarms switched off by command
  percent,  \* battery_voltage_percent; "unset" is 0
  moving,   \* which way the percentage has been about to change for a second
  rec,      \* the record of each alarm; "held" counts the seconds of the other
            \* value only, the counter of the same value is never looked at
  bits,     \* the status bits of the alarms
  wiped,    \* FACTORY has reset the status and the restart has not come yet
  masked,   \* the high bit was cleared by a change of the work state
  raised,   \* was a low battery reported since the boot
  boots, mends

powerVars == <<kind, mains, battery, plugged, disabled, percent, moving, rec, bits,
          wiped, masked, raised, boots, mends>>

Kinds == {"w", "app", "mtk"}
Alarms == {"off", "low", "high"}
\* Up to 15 per cent, between, and from 20 per cent on.
Levels == {"low", "mid", "good"}
Rank == [l \in Levels |-> CASE l = "low" -> 1 [] l = "mid" -> 2 [] OTHER -> 3]
Longest == IF OnTime > OffTime THEN OnTime ELSE OffTime
Records == [state : BOOLEAN, held : 0 .. Longest]

Fresh(on) == [state |-> on, held |-> 0]

PowerInit ==
  /\ kind \in Kinds /\ mains = "none" /\ battery \in Levels /\ plugged = FALSE
  /\ disabled \in SUBSET {"off", "low"} /\ percent = "unset" /\ moving = "no"
  /\ rec = [a \in Alarms |-> Fresh(FALSE)] /\ bits = {}
  /\ wiped = FALSE /\ masked = FALSE /\ raised = FALSE /\ boots = 0 /\ mends = 0

--------------------------------------------------------------------------------

\* util_check_state_change: the state follows a value that has held.
CheckChange(r, now) ==
  IF now = r.state THEN Fresh(now)
  ELSE IF r.held + 1 >= (IF now THEN OnTime ELSE OffTime) THEN Fresh(now)
  ELSE [r EXCEPT !.held = @ + 1]

\* Mutant: any device that is plugged in is ready.
ChargeReadyAny == plugged

\* hard_ware_is_charge_voltage_ready: other devices than W compare the voltage
\* of the battery with 7 V, which it never has.
ChargeReady == kind = "w" /\ plugged

\* hard_ware_internal_battery_percent: the percentage follows a lower reading
\* once it has held, and an equal or higher one only when ready to charge.
\* (One more second stands for 180 and for 60.)
Wanted ==
  CASE percent # "unset" /\ Rank[battery] < Rank[percent] -> "fall"
    [] OTHER -> IF ChargeReady THEN "rise" ELSE "no"
Percent ==
  IF percent = "unset" THEN [now |-> battery, moving |-> Wanted]
  ELSE IF Wanted # "no" /\ Wanted = moving THEN [now |-> battery, moving |-> "no"]
  ELSE [now |-> percent, moving |-> Wanted]

\* hard_ware_check_battery, up to system_state_set_has_started_charge.  With
\* app_battery_mgr a battery that is not ready is never charging.
Charging ==
  IF kind = "mtk" THEN plugged ELSE ChargeReady

\* The alarm half of hard_ware_check_battery: frozen while charging or disabled.
LowBattery(r, now) ==
  IF Charging \/ "low" \in disabled THEN r
  ELSE CheckChange(r, CASE now = "good" -> FALSE [] now = "low" -> TRUE [] OTHER -> r.state)

\* hard_ware_check_power_off_alarm and hard_ware_check_high_voltage_alarm.
MainsOff(r) ==
  IF kind = "w" \/ "off" \in disabled THEN r ELSE CheckChange(r, mains = "none")
HighVoltage(r) == IF kind = "w" THEN r ELSE CheckChange(r, mains = "high")

\* hard_ware_timer_proc.  Only a change of a record touches its bit.
Second ==
  LET p == Percent
      next == [off |-> MainsOff(rec["off"]), low |-> LowBattery(rec["low"], p.now),
               high |-> HighVoltage(rec["high"])]
      up == {a \in Alarms : next[a].state /\ ~rec[a].state}
      down == {a \in Alarms : ~next[a].state /\ rec[a].state}
  IN /\ percent' = p.now /\ moving' = p.moving
     /\ rec' = next
     /\ bits' = (bits \ down) \cup up
     /\ raised' = (raised \/ "low" \in up)
     /\ masked' = (masked /\ "high" \notin up \cup down)
     /\ UNCHANGED <<kind, mains, battery, plugged, disabled, wiped, boots, mends>>

\* system_state_set_work_state, at a change between sleep and work, clears the
\* bits above 18; bit 19 is the high voltage.
ChangeWork ==
  /\ "high" \in bits
  /\ bits' = bits \ {"high"}
  /\ masked' = TRUE
  /\ UNCHANGED <<kind, mains, battery, plugged, disabled, percent, moving, rec, wiped, raised, boots, mends>>

\* CUTOFFALM and BATALM.
Switch ==
  /\ mends < MaxMend /\ mends' = mends + 1
  /\ \E a \in {"off", "low"} :
       disabled' = IF a \in disabled THEN disabled \ {a} ELSE disabled \cup {a}
  /\ UNCHANGED <<kind, mains, battery, plugged, percent, moving, rec, bits, wiped,
                 masked, raised, boots>>

\* FACTORY: the status is wiped, the records are not, and a restart is ordered.
Factory ==
  /\ mends < MaxMend /\ boots < MaxBoot /\ mends' = mends + 1
  /\ bits' = {} /\ wiped' = TRUE
  /\ UNCHANGED <<kind, mains, battery, plugged, disabled, percent, moving, rec,
                 masked, raised, boots>>

\* Mutant: all alarms are taken to be on.
CreatedFull(kept) == [a \in Alarms |-> Fresh(TRUE)]

\* Mutant: the records begin anew.
CreatedBlind(kept) == [a \in Alarms |-> Fresh(FALSE)]

\* hard_ware_create takes the state of each record from the status.
Created(kept) == [a \in Alarms |-> Fresh(a \in kept)]

\* A restart; a torn status file comes back empty.
Restart(torn) ==
  /\ boots < MaxBoot /\ boots' = boots + 1
  /\ LET kept == IF torn THEN {} ELSE bits
     IN /\ rec' = Created(kept)
        /\ bits' = kept
  /\ masked' = FALSE
  /\ percent' = "unset" /\ moving' = "no" /\ wiped' = FALSE
  /\ raised' = FALSE
  /\ UNCHANGED <<kind, mains, battery, plugged, disabled, mends>>

Reboot == wiped /\ Restart(FALSE)
Crash == \E torn \in BOOLEAN : Restart(torn)

\* The car and its user.
Supply ==
  /\ \/ mains' \in {"none", "normal", "high"} /\ UNCHANGED <<battery, plugged>>
     \/ battery' \in Levels /\ UNCHANGED <<mains, plugged>>
     \/ plugged' = ~plugged /\ UNCHANGED <<mains, battery>>
  /\ UNCHANGED <<kind, disabled, percent, moving, rec, bits, wiped, masked, raised,
                 boots, mends>>

PowerNext ==
  \/ Second \/ ChangeWork \/ Switch \/ Factory \/ Reboot \/ Crash \/ Supply

PowerSpec == PowerInit /\ [][PowerNext]_powerVars

\* The ten-millisecond and the one-second timer call hard_ware_timer_proc for
\* ever, and the timer of an ordered restart ends.
PowerFairness == WF_powerVars(Second) /\ WF_powerVars(Reboot)
PowerFairSpec == PowerSpec /\ PowerFairness

--------------------------------------------------------------------------------

PowerTypeOK ==
  /\ kind \in Kinds /\ mains \in {"none", "normal", "high"} /\ battery \in Levels
  /\ percent \in Levels \cup {"unset"} /\ moving \in {"no", "fall", "rise"}
  /\ disabled \subseteq {"off", "low"}
  /\ rec \in [Alarms -> Records]
  /\ bits \subseteq Alarms 
  /\ {plugged, wiped, masked, raised} \subseteq BOOLEAN
  /\ boots \in 0 .. MaxBoot /\ mends \in 0 .. MaxMend

\* What the status says of an alarm is what the filter in RAM has decided, over
\* restarts and lost status files: only a factory reset parts them until its
\* restart, and only a change between sleep and work hides a high voltage.
AlarmsAgree ==
  ~wiped => \A a \in Alarms :
              (a \in bits) <=> (rec[a].state /\ ~(a = "high" /\ masked))

\* A low battery that was reported since the boot is reported well again by
\* nothing but a charger on a W device: the percentage of the others never rises
\* before the next boot.
LowStays ==
  [][(raised /\ raised' /\ "low" \in bits /\ "low" \notin bits')
        => (kind = "w" \/ wiped')]_powerVars

\* A supply that stays cut is reported and stays reported, whatever was switched,
\* restarted or wiped before, unless the alarm is left switched off.
Cut == mains = "none" /\ "off" \notin disabled /\ kind # "w"
CutReported == <>[]Cut => <>[]("off" \in bits)
================================================================================
