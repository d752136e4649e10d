------------------------------ MODULE SystemState ------------------------------
(***************************************************************************)
(* The status of the device and the fuel relay: src/src/system_state.c,    *)
(* src/src/relay.c, the boot order of src/src/main.c and the restart of    *)
(* src/src/hard_ware.c.                                                    *)
(*                                                                         *)
(* The status lives in RAM and in ONE file that nearly every setter        *)
(* rewrites in place; a file whose write was cut short fails its check sum *)
(* at the next boot and everything in it starts again from nothing.  The   *)
(* relay pin is not part of it: every boot drives the pin low and then     *)
(* closes the relay again if the user's last order, as the file has it, is *)
(* a cut.                                                                  *)
(***************************************************************************)
EXTENDS Naturals, FiniteSets

CONSTANTS
  MaxDown,    \* restarts a behaviour explores
  MaxOrder,   \* relay orders and ordered restarts a behaviour explores
  Torn        \* a status file whose check sum does not fit

VARIABLES
  pc,         \* "down", "run": the device is off or restarting, or running
  st,         \* the status in RAM
  file,       \* the status on disk, or Torn
  retained,   \* did the retained RAM survive the last restart
  pin,        \* the relay pin: TRUE cuts fuel and power
  speed,      \* "low": a fix and less than 20 km/h; "high": anything else
  logged,     \* has upload_boot_log run since the boot
  rebooting,  \* is the restart timer running (has_reboot)
  ordered,    \* what the user last ordered
  forced,     \* was the last cut ordered with PRELAY or DYD
  lost,       \* has the status been wiped since the last order
  half,       \* was a restoring order cut short since the last good boot
  downs,      \* restarts so far, by what brought them about
  early,      \* restarts ordered before the boot was logged
  orders      \* orders so far

vars == <<pc, st, file, retained, pin, speed, logged, rebooting, ordered,
          forced, lost, half, downs, early, orders>>

StatusBits == {"user", "device", "alarm"}
Reasons == {"unknown", "ordered", "power_on"}
Causes == {"exception", "ordered", "power"}
Status ==
  [bits : SUBSET StatusBits, boot : Reasons, asleep : BOOLEAN, static : BOOLEAN,
   fresh : BOOLEAN, exceptions : 0 .. MaxDown + 1]

\* init_para: "fresh" stands for a start_time below two seconds, "exceptions"
\* for the counter of restarts nobody ordered.
Cleared ==
  [bits |-> {}, boot |-> "unknown", asleep |-> FALSE, static |-> FALSE,
   fresh |-> TRUE, exceptions |-> 0]

With(s, bit, on) ==
  [s EXCEPT !.bits = IF on THEN s.bits \cup {bit} ELSE s.bits \ {bit}]

\* system_state_set_work_state: the status bits above the voltage alarms are
\* cleared, but only when the state changes.
WorkState(s, asleep) ==
  IF s.asleep = asleep THEN s
  ELSE [s EXCEPT !.asleep = asleep, !.bits = @ \ {"alarm"}]

\* system_state_set_boot_reason for a power-on.
PoweredOn(s) == [s EXCEPT !.boot = "power_on", !.fresh = TRUE]

\* Mutants: a relay that asks only whether the car is at rest, or nothing.
MayCutAtRest(s, checked) == s.asleep \/ s.static \/ s.fresh \/ ~checked
MayCutAlways(s, checked) == s \in Status /\ checked \in BOOLEAN

\* What relay_on asks before it closes the relay.
Calm(s) == s.asleep \/ s.static \/ s.fresh
MayCut(s, checked) == Calm(s) \/ ~checked \/ speed = "low"

Init ==
  /\ pc = "down" /\ st = Cleared /\ file = Torn /\ retained = FALSE
  /\ pin = FALSE /\ speed = "low" /\ logged = FALSE /\ rebooting = FALSE
  /\ ordered = FALSE /\ forced = FALSE /\ lost = FALSE /\ half = FALSE
  /\ downs = [c \in Causes |-> 0] /\ early = 0 /\ orders = 0

--------------------------------------------------------------------------------
(* Boot. *)

\* system_state_create: a file that is missing or torn is replaced.  One that is too
\* short to be read is replaced by the next setter that saves, upload_boot_log at the
\* latest; here it is replaced at once, and what a restart in these two seconds would
\* find is in either case nothing.
Read == IF file = Torn THEN Cleared ELSE file

\* Mutant: a power-on that is not told apart.
Unexplained(s) == s

\* config_service_read_from_local takes a lost retained RAM for a power-on,
\* unless the file already has a reason.
Explained(s) ==
  IF ~retained /\ s.boot = "unknown" THEN PoweredOn(s) ELSE s

\* Mutant: a boot that leaves the device bit alone.
RestoredOnly(s) == s

\* relay_create cuts without a look at the speed.
Restored(s) == IF "user" \in s.bits THEN With(s, "device", TRUE) ELSE s

Boot ==
  /\ pc = "down"
  /\ LET s == WorkState(Restored(Explained(Read)), FALSE)
     IN /\ st' = s
        /\ file' = s
        /\ pin' = ("user" \in s.bits)
        /\ half' = (half /\ file # Torn)
  /\ pc' = "run" /\ logged' = FALSE /\ rebooting' = FALSE
  /\ lost' = (lost \/ (file = Torn))
  /\ UNCHANGED <<retained, speed, ordered, forced, downs, early, orders>>

\* upload_boot_log, two seconds later: the reason is counted and forgotten.
LogBoot ==
  /\ pc = "run" /\ ~logged
  /\ LET s == [st EXCEPT !.boot = "unknown",
                         !.exceptions = @ + IF st.boot = "unknown" THEN 1 ELSE 0]
     IN st' = s /\ file' = s
  /\ logged' = TRUE
  /\ UNCHANGED <<pc, retained, pin, speed, rebooting, ordered, forced, lost,
                 half, downs, early, orders>>

--------------------------------------------------------------------------------
(* The relay. *)

\* Mutant: an order that has to wait is not saved.
CutUnsaved(checked) ==
  /\ pc = "run" /\ orders < MaxOrder
  /\ orders' = orders + 1
  /\ ordered' = TRUE /\ forced' = ~checked /\ lost' = FALSE
  /\ LET user == With(st, "user", TRUE)
     IN /\ st' = IF MayCut(user, checked) THEN With(user, "device", TRUE) ELSE user
        /\ file' = IF MayCut(user, checked) THEN st' ELSE file
        /\ pin' = (pin \/ MayCut(user, checked))
  /\ UNCHANGED <<pc, retained, speed, logged, rebooting, half, downs, early>>

\* relay_on from a command: RELAY checks the speed, PRELAY and DYD do not (they
\* pass cmd_id == CMD_RELAY).  The order is saved even if the cut has to wait.
Cut(checked) ==
  /\ pc = "run" /\ orders < MaxOrder
  /\ orders' = orders + 1
  /\ ordered' = TRUE /\ forced' = ~checked /\ lost' = FALSE
  /\ LET user == With(st, "user", TRUE)
         s == IF MayCut(user, checked) THEN With(user, "device", TRUE) ELSE user
     IN /\ st' = s
        /\ file' = IF s.bits # st.bits THEN s ELSE file
        /\ pin' = (pin \/ MayCut(user, checked))
  /\ UNCHANGED <<pc, retained, speed, logged, rebooting, half, downs, early>>

\* relay_off: nothing is done to a relay that counts as open.
Opened(s) == With(With(s, "user", FALSE), "device", FALSE)
Restore ==
  /\ pc = "run" /\ orders < MaxOrder
  /\ orders' = orders + 1
  /\ ordered' = FALSE /\ forced' = FALSE /\ lost' = FALSE
  /\ st' = Opened(st)
  /\ file' = IF Opened(st).bits # st.bits THEN Opened(st) ELSE file
  /\ pin' = (pin /\ "device" \notin st.bits)
  /\ UNCHANGED <<pc, retained, speed, logged, rebooting, half, downs, early>>

\* Power fails between the two saves of relay_off.
RestoreHalf ==
  /\ pc = "run" /\ orders < MaxOrder /\ {"user", "device"} \subseteq st.bits
  /\ orders' = orders + 1
  /\ ordered' = FALSE /\ forced' = FALSE /\ lost' = FALSE
  /\ file' = With(st, "user", FALSE)
  /\ pc' = "down" /\ retained' = FALSE /\ half' = TRUE
  /\ downs' = [downs EXCEPT !["power"] = @ + 1]
  /\ downs["power"] + downs["exception"] + downs["ordered"] < MaxDown
  /\ UNCHANGED <<st, pin, speed, logged, rebooting, early>>

\* relay_timer_proc, each second: an order that is not carried out yet is tried
\* again, with the check.  The seconds since the start go on with it.
RelayTimer ==
  /\ pc = "run"
  /\ LET s == [st EXCEPT !.fresh = FALSE]
         user == "user" \in st.bits
         cut == user /\ "device" \notin st.bits /\ MayCut(s, TRUE)
         open == ~user /\ "device" \in st.bits
     IN /\ st' = IF cut THEN With(s, "device", TRUE)
                 ELSE IF open THEN Opened(s) ELSE s
        /\ file' = IF cut \/ open THEN st' ELSE file
        /\ pin' = ((pin \/ cut) /\ ~open)
        /\ half' = (half /\ ~open)
  /\ UNCHANGED <<pc, retained, speed, logged, rebooting, ordered, forced, lost,
                 downs, early, orders>>

--------------------------------------------------------------------------------
(* The other setters: each returns early if nothing changes, else it saves. *)

Set(s) == st' = s /\ file' = s /\ pc = "run" /\ s # st
OthersKept ==
  UNCHANGED <<pc, retained, pin, speed, logged, rebooting, ordered, forced, lost,
              half, downs, early, orders>>

SetAlarm == (\E on \in BOOLEAN : Set(With(st, "alarm", on))) /\ OthersKept
SetWorkState == Set(WorkState(st, ~st.asleep)) /\ OthersKept
SetVehicle == Set([st EXCEPT !.static = ~@]) /\ OthersKept

\* hard_ware_reboot: the reason is saved at each call, the timer is started
\* once.
OrderReboot ==
  /\ orders < MaxOrder
  /\ Set([st EXCEPT !.boot = "ordered"])
  /\ rebooting' = TRUE
  /\ orders' = orders + 1
  /\ early' = early + IF logged THEN 0 ELSE 1
  /\ UNCHANGED <<pc, retained, pin, speed, logged, ordered, forced, lost, half,
                 downs>>

\* FACTORY: system_state_reset wipes the status, then the restart is ordered.
\* The relay itself stays as it is until the restart.
FactoryReset ==
  /\ pc = "run" /\ orders < MaxOrder
  /\ orders' = orders + 1
  /\ st' = [Cleared EXCEPT !.boot = "ordered"] /\ file' = st'
  /\ rebooting' = TRUE /\ lost' = TRUE
  /\ early' = early + IF logged THEN 0 ELSE 1
  /\ UNCHANGED <<pc, retained, pin, speed, logged, ordered, forced, half, downs>>

--------------------------------------------------------------------------------
(* Restarts. *)

\* The device goes down; a write it was in the middle of is torn, and only a
\* loss of power loses the retained RAM.
Down(cause, torn) ==
  /\ pc = "run"
  /\ downs["power"] + downs["exception"] + downs["ordered"] < MaxDown
  /\ downs' = [downs EXCEPT ![cause] = @ + 1]
  /\ pc' = "down"
  /\ retained' = (cause # "power")
  /\ file' = IF torn THEN Torn ELSE file
  /\ UNCHANGED <<st, pin, speed, logged, rebooting, ordered, forced, lost, half,
                 early, orders>>

\* hard_ware_reboot_atonce, when the timer ends.
Reboot == rebooting /\ Down("ordered", FALSE)
Crash == \E cause \in {"power", "exception"}, torn \in BOOLEAN : Down(cause, torn)

\* The car: not the program's.
Drive ==
  /\ speed' = IF speed = "low" THEN "high" ELSE "low"
  /\ UNCHANGED <<pc, st, file, retained, pin, logged, rebooting, ordered, forced,
                 lost, half, downs, early, orders>>

Next ==
  \/ Boot \/ LogBoot \/ RelayTimer
  \/ (\E checked \in BOOLEAN : Cut(checked)) \/ Restore \/ RestoreHalf
  \/ SetAlarm \/ SetWorkState \/ SetVehicle \/ OrderReboot \/ FactoryReset
  \/ Reboot \/ Crash \/ Drive

Spec == Init /\ [][Next]_vars

\* The boot runs to its end, and the second timer calls relay_timer_proc.
Fairness == WF_vars(Boot) /\ WF_vars(RelayTimer)
FairSpec == Spec /\ Fairness

--------------------------------------------------------------------------------
(* Properties. *)

TypeOK ==
  /\ pc \in {"down", "run"} /\ st \in Status /\ file \in Status \cup {Torn}
  /\ {retained, pin, logged, rebooting, ordered, forced, lost, half}
       \subseteq BOOLEAN
  /\ speed \in {"low", "high"}
  /\ downs \in [Causes -> 0 .. MaxDown]
  /\ early \in 0 .. MaxOrder /\ orders \in 0 .. MaxOrder

\* The last order of the user is remembered over any restart, unless the status
\* was wiped since by a factory reset or by a write that was cut short.
OrderSurvives == (pc = "run" /\ ~lost) => (("user" \in st.bits) <=> ordered)

\* The relay is where the status says it is: closed only if the device bit is
\* set, and open with the bit set only until the first tick after a restore that
\* lost power half-way; a factory reset alone leaves it closed, until the
\* restart that it ordered.
PinAgrees ==
  pc = "run" =>
    /\ (pin /\ "device" \notin st.bits) => rebooting
    /\ ("device" \in st.bits /\ ~pin) => half

\* A cut that was ordered with the check is carried out at speed by nothing but
\* a boot: relay_create does not look at the speed again.
CheckedCut ==
  [][(~pin /\ pin' /\ speed = "high" /\ ~Calm(st) /\ ~forced')
        => pc = "down"]_vars

\* An order to cut that has to wait is carried out once the car stays slow,
\* whatever restarts in between, unless it is taken back, the status is wiped, or
\* the restore before it lost power half-way: then the device bit still says
\* "cut", and relay_timer_proc takes the order for done.
CutCarriedOut ==
  <>[](speed = "low") => (ordered ~> (pin \/ ~ordered \/ lost \/ half))

\* Only restarts that nobody ordered are counted as exceptions, except for a
\* restart ordered in the two seconds before the boot was logged, whose reason
\* upload_boot_log has already forgotten.
ExceptionsCounted == st.exceptions <= downs["exception"] + early
================================================================================
