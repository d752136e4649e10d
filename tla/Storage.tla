------------------------------- MODULE Storage -------------------------------
(***************************************************************************)
(* What the device stores, in one specification: the position records with *)
(* every fault of the file system (GpsSave), the settings (ConfigStore),   *)
(* the firmware with blocks of earlier downloads still arriving            *)
(* (UpdateFile) and the calendar that dates the records (Calendar).  They  *)
(* share no state: `part` is the one that moves.                           *)
(***************************************************************************)
EXTENDS GpsSave, ConfigStore, Calendar

CONSTANTS
  Versions, Sizes, Window, Factory, Broken, NoImage, Zero, NoFile, NoState, Torn,
  Steady \* does nothing close between an update and its reboot (see UpdateFile)

VARIABLES
  part,
  target, minor, upgrade, disk, stateFile, running, phase, ext, fsock, asked, rebooting, op

updateVars ==
  <<target, minor, upgrade, disk, stateFile, running, phase, ext, fsock, asked, rebooting, op>>
parts == <<vars, configVars, calendarVars, updateVars>>

Firmware == INSTANCE UpdateFile WITH Late <- TRUE, pc <- op,
  saved <- stateFile

ASSUME FirmwareAssumption ==
  /\ Sizes \subseteq Nat \ {0} /\ Window \in Nat \ {0} /\ Steady \in BOOLEAN
  /\ Factory \notin Firmware!Images /\ Zero \notin Firmware!Images
  /\ NoImage \notin Firmware!Images \cup {Factory, Broken}
  /\ NoFile \notin Firmware!File

StorageInit ==
  /\ Init /\ ConfigInit /\ CalendarInit /\ Firmware!Init
  /\ part \in {"records", "config", "calendar", "firmware"}
  /\ part # "config" => nv = NoType
  /\ part # "firmware" => minor = NoImage

\* The last day: time is not looked at any further.
CalendarOver == (now + Stride) \div Day > LastDay /\ UNCHANGED calendarVars

OthersStay ==
  /\ UNCHANGED part
  /\ IF part = "records" THEN TRUE ELSE UNCHANGED vars
  /\ IF part = "config" THEN TRUE ELSE UNCHANGED configVars
  /\ IF part = "calendar" THEN TRUE ELSE UNCHANGED calendarVars
  /\ IF part = "firmware" THEN TRUE ELSE UNCHANGED updateVars

StorageNext ==
  \/ part = "records" /\ Next /\ OthersStay
  \/ part = "config" /\ ConfigNext /\ OthersStay
  \/ part = "calendar" /\ (CalendarNext \/ CalendarOver) /\ OthersStay
  \/ part = "firmware" /\ Firmware!Next /\ OthersStay

StorageSpec == StorageInit /\ [][StorageNext]_<<part, parts>>

-----------------------------------------------------------------------------

\* The values the variables of all parts may have.
StorageTypeOK ==
  /\ part = "records" => TypeOK
  /\ part = "config" => ConfigTypeOK
  /\ part = "calendar" => CalendarTypeOK
  /\ part = "firmware" => Firmware!TypeOK

\* With blocks and answers of earlier downloads arriving, a whole image boots whenever
\* power fails, what the state file continues is on flash up to there, and flash never
\* holds a third image (AlwaysBootable, ResumeStored and AtMostTwoCopies of UpdateFile).
\* This is so as long as nothing closes between an update and its reboot (Steady), which
\* the code does not ensure (update_service.c:572), and no two images have one length.
FirmwareKept ==
  part = "firmware" =>
    Firmware!AlwaysBootable /\ Firmware!ResumeStored /\ Firmware!AtMostTwoCopies
=============================================================================
