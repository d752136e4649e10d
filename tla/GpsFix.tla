-------------------------------- MODULE GpsFix --------------------------------
(***************************************************************************)
(* What src/src/gps.c makes of the sentences of a chip that is found: the  *)
(* filtered state of the fix, the queue of positions, and which position   *)
(* goes to the server; where there is no fix after a minute, the scan of   *)
(* Wi-Fi (src/src/wifi.c) whose end reports that or the cells instead.     *)
(*                                                                         *)
(* A step of Second is the sentences of one interval.  The state that      *)
(* others read is set only when the filtered value of "3D" changes, and a  *)
(* position is queued and reported only if it is exactly "3D".             *)
(***************************************************************************)
EXTENDS Naturals

CONSTANTS
  FixHold,  \* sentences a 3D fix must last, 10 / CFG_NMEATIME or 2
  LostHold, \* sentences its absence must last, 60 / CFG_NMEATIME or 12
  MaxPower  \* times the receiver is switched, the server changed

VARIABLES
  kind,    \* "mtk", or "td" for the others
  sky,     \* what the chip sees: "none", "2d", "3d", "diff"
  on,      \* is the receiver on
  flags,   \* those of is_fix, is_3d, is_diff that are set
  rec,     \* state_record: its value, and for how many sentences it was the other
  st,      \* state, as the set of its bits; GM_GPS_OFF is "on" being false
  age,     \* intervals since a position was queued, up to a maximum
  since,   \* which of "boot", "ip" system_state has as reported since
  lbs,     \* system_state_has_reported_lbs_since_boot
  pending, \* GM_TIMER_GPS_CHECK_STATE runs
  scan,    \* a Wi-Fi scan for it runs
  powers,
  shown    \* history: a position was queued since the state became what it is

vars == <<kind, sky, on, flags, rec, st, age, since, lbs, pending, scan, powers, shown>>

Flags == {"fix", "3d", "diff"}
Fix3D == {"fix", "3d"}
Oldest == LostHold + 1

Init ==
  /\ kind \in {"mtk", "td"} /\ sky = "none" /\ on = FALSE /\ flags = {}
  /\ rec = [state |-> FALSE, held |-> 0] /\ st = {} /\ age = Oldest
  /\ since \in SUBSET {"boot", "ip"} /\ lbs = FALSE /\ pending = FALSE /\ scan = FALSE
  /\ powers = 0 /\ shown = FALSE

--------------------------------------------------------------------------------
(* The sentences. *)

Sees3D == sky \in {"3d", "diff"}
Set(f, x, wanted) == IF wanted THEN f \cup {x} ELSE f \ {x}

\* on_received_gga: the quality; it says nothing of the dimension.
AfterGga(f) ==
  IF kind = "mtk" THEN f
  ELSE IF sky = "none" THEN {}
  ELSE Set(f \cup {"fix"}, "diff", sky = "diff")
\* on_received_fixed_state, by GSA or, for an MTK chip, by the validity of RMC, any
\* of which it takes for 3D.
AfterDimension(f) ==
  IF sky = "none" THEN {}
  ELSE Set(f \cup {"fix"}, "3d", kind = "mtk" \/ Sees3D)

\* check_fix_state_change, with util_check_state_change.
Changes(f, r) ==
  ("3d" \in f) # r.state /\ r.held + 1 >= (IF "3d" \in f THEN FixHold ELSE LostHold)
Filtered(f, r) ==
  IF ("3d" \in f) = r.state THEN [r EXCEPT !.held = 0]
  ELSE IF Changes(f, r) THEN [state |-> ~r.state, held |-> 0]
  ELSE [r EXCEPT !.held = @ + 1]

\* Mutant: a change is taken at its first second.
NewStateOnce(f, r, old) == IF Changes(f, r) /\ ~r.state THEN f ELSE old

\* check_fix_state_change: the state is that of the sentences once it has held.
NewState(f, r, old) == IF Changes(f, r) THEN f ELSE old
Checked(x, f) ==
  [flags |-> f, rec |-> Filtered(f, x.rec), st |-> NewState(f, x.rec, x.st)]

\* One interval: GGA, then GSA or the first part of on_received_rmc.
Batch ==
  LET a == Checked([flags |-> flags, rec |-> rec, st |-> st], AfterGga(flags))
  IN Checked(a, AfterDimension(a.flags))

--------------------------------------------------------------------------------
(* What becomes of a position: upload_mode and upload_gps_data. *)

\* The first position after a boot or a change of the server goes out as such; the
\* others as the interval, the turns and the vehicle's state (is_turn_point) allow,
\* which leaves no trace here.
Mode == CASE "boot" \notin since -> {"boot"} [] "ip" \notin since -> {"ip"} [] OTHER -> {}

Second ==
  /\ on
  /\ LET b == Batch
         queued == b.st = Fix3D /\ sky # "none"
     IN
     /\ flags' = b.flags /\ rec' = b.rec /\ st' = b.st
     /\ age' = IF queued THEN 0 ELSE IF age < Oldest THEN age + 1 ELSE age
     /\ since' = IF queued THEN since \cup Mode ELSE since
     /\ shown' = (queued \/ (shown /\ b.st = st))
  /\ UNCHANGED <<kind, sky, on, lbs, pending, scan, powers>>

--------------------------------------------------------------------------------
(* Without a fix. *)

Below3D == on /\ "3d" \notin st

\* check_fix_state, once, a minute after the receiver is switched on.
CheckState ==
  /\ pending /\ pending' = FALSE
  /\ scan' = (scan \/ (Below3D /\ ~lbs))
  /\ UNCHANGED <<kind, sky, on, flags, rec, st, age, since, lbs, powers, shown>>

\* Mutant: a scan without a result is not reported.
ReportsFound(found) == found

\* gps_service_wifi_scan_callback: what was found is reported, or the cells are.
Reports(found) == TRUE
ScanDone ==
  /\ scan /\ scan' = FALSE
  /\ \E found \in BOOLEAN : lbs' = (lbs \/ (Below3D /\ Reports(found)))
  /\ UNCHANGED <<kind, sky, on, flags, rec, st, age, since, pending, powers, shown>>

--------------------------------------------------------------------------------
(* Power, and the world. *)

\* gps_power_on clears the fix, never the queue; gps_power_off stops the timer and
\* leaves the scan.
Power ==
  /\ powers < MaxPower /\ powers' = powers + 1
  /\ on' = ~on /\ st' = {} /\ shown' = FALSE /\ pending' = on'
  /\ IF on THEN UNCHANGED <<flags, rec>>
     ELSE flags' = {} /\ rec' = [state |-> FALSE, held |-> 0]
  /\ UNCHANGED <<kind, sky, age, since, lbs, scan>>

\* The command SERVER: system_state_set_reported_gps_since_modify_ip(false).
NewServer ==
  /\ powers < MaxPower /\ powers' = powers + 1
  /\ since' = since \ {"ip"}
  /\ UNCHANGED <<kind, sky, on, flags, rec, st, age, lbs, pending, scan, shown>>

Sky ==
  /\ sky' \in {"none", "2d", "3d"} \cup (IF kind = "td" THEN {"diff"} ELSE {})
  /\ UNCHANGED <<kind, on, flags, rec, st, age, since, lbs, pending, scan, powers, shown>>

Next == Second \/ CheckState \/ ScanDone \/ Power \/ NewServer \/ Sky

Spec == Init /\ [][Next]_vars
\* The chip talks, the timer and the end of the scan come.
Fairness == WF_vars(Second) /\ WF_vars(CheckState) /\ WF_vars(ScanDone)
FairSpec == Spec /\ Fairness

--------------------------------------------------------------------------------

TypeOK ==
  /\ flags \subseteq Flags /\ st \subseteq Flags /\ rec.state \in BOOLEAN
  /\ rec.held \in 0 .. FixHold + LostHold /\ age \in 0 .. Oldest
  /\ since \subseteq {"boot", "ip"}
  /\ {on, lbs, pending, scan, shown} \subseteq BOOLEAN /\ powers \in 0 .. MaxPower

\* Who reads "3D" (relay_on does, for the speed) reads a position that is not older
\* than the time a lost fix is overlooked - gaps are filtered in the state, never
\* hidden by it - if there was one since the state became "3D": a fix that is lost in
\* the interval in which it has held long enough is announced without a position.
SpeedFresh == (on /\ st = Fix3D /\ shown) => 2 * age <= LostHold

\* After it is switched on, the device reports where it is, by a position, Wi-Fi or
\* cells, or it is switched off - unless the fix was differential when it came, or was
\* lost in the interval in which it was announced: the first is taken for one that
\* reports itself and never does, the second for one that did.
Unlocated == pending
Unshown == st = Flags \/ (st = Fix3D /\ ~shown)
Settled == "boot" \in since \/ lbs \/ ~on \/ Unshown
Located == Unlocated ~> Settled
================================================================================
