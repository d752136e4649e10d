-------------------------------- MODULE Motion --------------------------------
(***************************************************************************)
(* The motion sensor and the saving of power: src/src/g_sensor.c, the      *)
(* timers of src/src/main.c that run the procedures while the device works *)
(* and while it sleeps, and what gps_power_on and gps_power_off of         *)
(* src/src/gps.c do to the receiver.                                       *)
(*                                                                         *)
(* While it works two timers start themselves again and again; asleep they *)
(* end, and a timer of the kernel does all the work.  The sensor decides   *)
(* to sleep and to wake, and whether the car runs or stands.  A step of    *)
(* Sample stands for a second of samples; a sample that cannot be read     *)
(* changes nothing but a counter of errors and is left out.                *)
(***************************************************************************)
EXTENDS Naturals, FiniteSets

CONSTANTS
  Window,   \* seconds in which shakes are counted (CFG_AWAKE_CHECK_TIME)
  Enough,   \* shakes that wake (CFG_AWAKE_COUNT)
  Sleep,    \* seconds without enough shakes until it sleeps (CFG_SLEEP_TIME)
  Study,    \* seconds to learn gravity (MIN_STUDY_GRAVITY_TIMES)
  Low,      \* calm seconds until the car stands (MIN_LOW_ACLR_NUM)
  MaxOrder, \* commands a behaviour explores
  MaxStart   \* restarts a behaviour explores

VARIABLES
  car,      \* "parked", "smooth" (drives, may not shake), "rough" (shakes each second)
  sky,      \* does the receiver, when it is on, report positions
  chip,     \* is the type of the sensor known
  work,     \* work_state: TRUE is GM_SYSTEM_STATE_WORK
  chain,    \* the 10 ms and the 1 s timer will fire
  ages,     \* ages of the shakes that were read, and that interrupted
  quiet,    \* no_shake_time
  never,    \* CFG_SLEEP_TIME is 0
  closed,   \* CFG_GPS_CLOSE
  gps,      \* the receiver is on
  fast,     \* gps.c: constant speed for long enough
  learnt,   \* study_aclr_count
  low, calm,\* static_low_aclr_count, super_low_aclr_count
  vehicle,  \* "run" or "static", kept in the status file
  moved,    \* the move alarm of the status
  still,    \* seconds the car has been parked, awake and known to be slow
  asked,    \* a command turned the receiver on while the device slept
  orders, starts

motionVars == <<car, sky, chip, work, chain, ages, quiet, never, closed, gps, fast, learnt, low,
          calm, vehicle, moved, still, asked, orders, starts>>

MotionInit ==
  /\ car \in {"parked", "smooth", "rough"} /\ sky \in BOOLEAN /\ chip = FALSE
  /\ work = TRUE /\ chain = TRUE /\ ages = [read |-> {}, eint |-> {}] /\ quiet = 0
  /\ never \in BOOLEAN /\ closed = FALSE /\ gps = TRUE /\ fast = FALSE
  /\ learnt = 0 /\ low = 0 /\ calm = 0 /\ vehicle \in {"run", "static"} /\ moved = FALSE
  /\ still = 0 /\ asked = FALSE /\ orders = 0 /\ starts = 0

Least(a, b) == IF a < b THEN a ELSE b
Settled == Study + Low + 2

--------------------------------------------------------------------------------

\* The timers: the chain while it works, the kernel timer while it sleeps.
Runs == work => chain

\* init_gsensor_chip, tried at each call until a type answers.
FindChip ==
  /\ Runs /\ ~chip /\ chip' = TRUE
  /\ UNCHANGED <<car, sky, work, chain, ages, quiet, never, closed, gps, fast, learnt, low,
                 calm, vehicle, moved, still, asked, orders, starts>>

\* check_shake_event and g_sensor_eint_callback: one entry a second.
Aged(set, shaken) ==
  {a + 1 : a \in {b \in set : b < Window}} \cup (IF shaken THEN {0} ELSE {})
Shaken(by) == Cardinality(by.read) >= Enough \/ Cardinality(by.eint) >= Enough

\* gps_power_on: nothing when closed, and nothing new when on; clear_data forgets
\* the constant speed.
PoweredOn == gps \/ ~closed
ForgetsSpeed == ~gps /\ ~closed

\* check_static_or_run; a is the acceleration: "run", "mid", "low" or "super" low.
Cruise(v, cruise) == IF cruise THEN [v EXCEPT !.low = 0, !.calm = 0, !.state = "run"] ELSE v
StaticOrRun(a, cruise) ==
  LET calmNow == IF a = "super" THEN Least(calm + 1, Low) ELSE 0
      lowNow == Least(low + 1, Low)
  IN IF never THEN [low |-> low, calm |-> calm, state |-> "run", moved |-> moved]
     ELSE Cruise(
       CASE a = "run" -> [low |-> 0, calm |-> 0, state |-> "run",
                          moved |-> moved \/ vehicle = "static"]
         [] a = "mid" -> [low |-> low, calm |-> calm, state |-> vehicle, moved |-> moved]
         [] OTHER -> [low |-> lowNow, calm |-> calmNow, moved |-> moved,
                      state |-> IF lowNow >= Low \/ calmNow >= Low \div 2 THEN "static"
                                ELSE vehicle],
       cruise)

\* What the car does to the sensor in a second.
Accelerations == IF car = "parked" THEN {"low", "super"} ELSE {"run", "mid", "low", "super"}
Shakes == CASE car = "parked" -> {FALSE} [] car = "rough" -> {TRUE} [] OTHER -> BOOLEAN

\* Mutant: a car that stands keeps its last speed.
SpeedsOnce == IF ~(gps /\ sky) \/ car = "parked" THEN {fast} ELSE BOOLEAN

\* calc_alcr_by_speed: only a position changes what is known of the speed.
Speeds == IF ~(gps /\ sky) THEN {fast} ELSE IF car = "parked" THEN {FALSE} ELSE BOOLEAN

\* check_awake_sleep: wake first, with both timers, then count, then perhaps sleep.
Wakes(by) == Shaken(by) /\ ~work

\* Mutant: waking does not start the receiver.
StartsNot(by) == FALSE

\* A waking device switches the receiver on.
Starts(by) == Wakes(by)
Quiet(by) == IF Shaken(by) THEN 0 ELSE Least(quiet + 1, Sleep)
Dozes(by) == work /\ Quiet(by) >= Sleep /\ ~never

\* read_data_from_chip, with a report of the receiver in the same second.
Sample(a, byRead, byEint, speed) ==
  LET by == [read |-> Aged(ages.read, byRead), eint |-> Aged(ages.eint, byEint)]
      wakes == Wakes(by)
      dozes == Dozes(by)
      on == (work \/ wakes) /\ ~dozes
      cruise == speed /\ ~(wakes /\ ForgetsSpeed)
      v == StaticOrRun(a, cruise)
  IN /\ Runs /\ chip
     /\ ages' = by /\ quiet' = Quiet(by)
     /\ work' = on
     /\ chain' = (IF Starts(by) THEN TRUE ELSE chain /\ on)
     /\ gps' = (IF dozes THEN FALSE ELSE IF wakes THEN PoweredOn ELSE gps)
     /\ fast' = cruise
     /\ asked' = (asked /\ ~dozes)
     /\ IF ~on THEN /\ UNCHANGED <<learnt, low, calm, vehicle>>
                    /\ moved' = (moved /\ ~dozes)
        ELSE IF learnt < Study
        THEN /\ learnt' = learnt + 1 /\ moved' = (moved /\ ~wakes)
             /\ UNCHANGED <<low, calm, vehicle>>
        ELSE /\ low' = v.low /\ calm' = v.calm /\ vehicle' = v.state
             /\ moved' = (IF wakes THEN v.moved /\ ~moved ELSE v.moved)
             /\ learnt' = learnt
     /\ still' = (IF car = "parked" /\ ((gps /\ sky) \/ ~fast) /\ on
                  THEN Least(still + 1, Settled) ELSE IF on THEN 0 ELSE still)
     /\ UNCHANGED <<car, sky, chip, never, closed, orders, starts>>

Sampled ==
  \E a \in Accelerations, byRead, byEint \in Shakes, speed \in Speeds :
    Sample(a, byRead, byEint, speed)

\* A year of samples: gravity is learnt again.
Relearn ==
  /\ orders < MaxOrder /\ orders' = orders + 1
  /\ work /\ learnt = Study
  /\ learnt' = 0 /\ low' = 0 /\ calm' = 0 /\ still' = 0
  /\ UNCHANGED <<car, sky, chip, work, chain, ages, quiet, never, closed, gps, fast,
                 vehicle, moved, asked, starts>>

--------------------------------------------------------------------------------

\* GPSON and SERVER: asleep too, the receiver goes on; the device sleeps on.
GpsOn ==
  /\ orders < MaxOrder /\ orders' = orders + 1
  /\ gps' = PoweredOn /\ fast' = (fast /\ ~ForgetsSpeed) /\ quiet' = 0
  /\ asked' = (asked \/ (~work /\ PoweredOn))
  /\ UNCHANGED <<car, sky, chip, work, chain, ages, never, closed, learnt, low, calm,
                 vehicle, moved, still, starts>>

\* GPSOFF: only the setting; nothing but a new configuration takes it back.
GpsOff ==
  /\ ~closed /\ orders < MaxOrder /\ orders' = orders + 1
  /\ closed' = TRUE
  /\ UNCHANGED <<car, sky, chip, work, chain, ages, quiet, never, gps, fast, learnt, low,
                 calm, vehicle, moved, still, asked, starts>>

\* A restart: app_main_entry.
Starting ==
  /\ starts < MaxStart /\ starts' = starts + 1
  /\ chip' = FALSE /\ work' = TRUE /\ chain' = TRUE /\ ages' = [read |-> {}, eint |-> {}]
  /\ quiet' = 0 /\ gps' = ~closed /\ fast' = FALSE /\ asked' = FALSE
  /\ learnt' = 0 /\ low' = 0 /\ calm' = 0 /\ still' = 0
  \* the status says awake already, or is changed and loses its alarms
  /\ moved' = (moved /\ work)
  /\ UNCHANGED <<car, sky, never, closed, vehicle, orders>>

\* The driver and the road.
Drive ==
  /\ \/ car' \in {"parked", "smooth", "rough"} \ {car} /\ sky' = sky
     \/ sky' = ~sky /\ car' = car
  /\ still' = IF work THEN 0 ELSE still
  /\ UNCHANGED <<chip, work, chain, ages, quiet, never, closed, gps, fast, learnt, low,
                 calm, vehicle, moved, asked, orders, starts>>

MotionNext == FindChip \/ Sampled \/ Relearn \/ GpsOn \/ GpsOff \/ Starting \/ Drive

MotionSpec == MotionInit /\ [][MotionNext]_motionVars
\* The timers fire, and the sensor is found.
MotionFairness == WF_motionVars(FindChip) /\ WF_motionVars(Sampled)
MotionFairSpec == MotionSpec /\ MotionFairness

--------------------------------------------------------------------------------

MotionTypeOK ==
  /\ car \in {"parked", "smooth", "rough"} /\ vehicle \in {"run", "static"}
  /\ ages \in [{"read", "eint"} -> SUBSET (0 .. Window)]
  /\ quiet \in 0 .. Sleep /\ learnt \in 0 .. Study /\ {low, calm} \subseteq 0 .. Low
  /\ {sky, chip, work, chain, never, closed, gps, fast, moved, asked} \subseteq BOOLEAN
  /\ still \in 0 .. Settled /\ orders \in 0 .. MaxOrder /\ starts \in 0 .. MaxStart

\* A car that was parked long enough while the device was awake is known to stand
\* and stays so through the sleep: else the ignition line is taken for not
\* connected after an hour, and the car is disarmed.  It takes positions, or a slow
\* car, to see it: a constant speed that was reported before the fix was lost, or
\* before the receiver was closed, counts for ever; and a device that never sleeps
\* never says so.
StillIsStatic ==
  (still = Settled /\ ~never) => vehicle = "static"

\* A car left parked puts the device and its receiver to sleep, unless it may not
\* sleep or a command turned the receiver on; a shaken car wakes both, unless the
\* receiver was closed.
LeftParked == car = "parked" /\ ~never
Asleep == ~work /\ (gps => asked)
Awake == work /\ (gps \/ closed)
FollowsCar ==
  /\ <>[]LeftParked => <>[]Asleep
  /\ <>[](car = "rough") => <>[]Awake
================================================================================
