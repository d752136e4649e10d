------------------------------ MODULE Transfers ------------------------------
(***************************************************************************)
(* What passes in pieces, in one specification: the firmware (UpdateFile)  *)
(* and the aiding data of the GPS chip (Agps) on their way in, voice       *)
(* recordings (Recoder) on their way out, and the ring buffers that the    *)
(* pieces pass (Rings).  They share no state: `part` is the one that       *)
(* moves, and the others stay as they began.                               *)
(***************************************************************************)
EXTENDS UpdateFile, Rings, Recoder

CONSTANTS Blocks, Skip, MaxFlag, MaxLoss, MaxBoot  \* of Agps

ASSUME AidingAssumption ==
  /\ Blocks \in Nat \ {0} /\ Skip \in Nat /\ MaxFlag \in Nat \ {0}
  /\ MaxLoss \in Nat /\ MaxBoot \in Nat

VARIABLES
  part,
  kind, s, server, flash, fresh, aid, pos, loss, boots, stale

aidingVars == <<kind, s, server, flash, fresh, aid, pos, loss, boots, stale>>
transfersVars == <<part, vars, ringVars, recoderVars, aidingVars>>

Aiding == INSTANCE Agps WITH disk <- flash

TransfersInit ==
  /\ part \in {"firmware", "rings", "recorder", "aiding"}
  /\ Init /\ RingsInit /\ RecoderInit /\ Aiding!Init
  /\ part # "firmware" => minor = NoImage
  /\ part # "recorder" => online
  /\ part # "aiding" => kind = "mtk"

OthersStay ==
  /\ UNCHANGED part
  /\ IF part = "firmware" THEN TRUE ELSE UNCHANGED vars
  /\ IF part = "rings" THEN TRUE ELSE UNCHANGED ringVars
  /\ IF part = "recorder" THEN TRUE ELSE UNCHANGED recoderVars
  /\ IF part = "aiding" THEN TRUE ELSE UNCHANGED aidingVars

TransfersNext ==
  \/ part = "firmware" /\ Next /\ OthersStay
  \/ part = "rings" /\ RingsNext /\ OthersStay
  \/ part = "recorder" /\ RecoderNext /\ OthersStay
  \/ part = "aiding" /\ Aiding!Next /\ OthersStay

TransfersSpec == TransfersInit /\ [][TransfersNext]_transfersVars

\* The fairness of each module, for the reasons given there.  A liveness property of a
\* part has that of its module for premise, and no other.
FirmwareFair ==
  /\ WF_vars(part = "firmware" /\ Handler) /\ WF_vars(part = "firmware" /\ Ask)
  /\ WF_vars(part = "firmware" /\ Answers) /\ WF_vars(part = "firmware" /\ FileConnect)
  /\ WF_vars(part = "firmware" /\ FileConnected) /\ WF_vars(part = "firmware" /\ Requested)
  /\ WF_vars(part = "firmware" /\ Unanswered) /\ WF_vars(part = "firmware" /\ Rested)
  /\ WF_vars(part = "firmware" /\ Reboot)
RecorderFair ==
  /\ WF_recoderVars(part = "recorder" /\ Timer)
  /\ WF_recoderVars(part = "recorder" /\ \E i \in VoiceSlots : Result(i))
AidingFair ==
  /\ WF_aidingVars(part = "aiding" /\ Aiding!InitProc)
  /\ WF_aidingVars(part = "aiding" /\ Aiding!WorkProc)
  /\ WF_aidingVars(part = "aiding" /\ Aiding!FinishProc)
  /\ WF_aidingVars(part = "aiding" /\ Aiding!Connected)
  /\ WF_aidingVars(part = "aiding" /\ Aiding!Quiet /\ Aiding!TimedOut)
  /\ WF_aidingVars(part = "aiding" /\ Aiding!Answer)
  /\ WF_aidingVars(part = "aiding" /\ Aiding!Acknowledge)
  /\ WF_aidingVars(part = "aiding" /\ Aiding!Announce)

-----------------------------------------------------------------------------

\* The values the variables of all parts may have.
TransfersTypeOK ==
  /\ part = "firmware" => TypeOK
  /\ part = "rings" => RingsTypeOK
  /\ part = "recorder" => RecoderTypeOK
  /\ part = "aiding" => Aiding!TypeOK

\* The aiding file in use, and the one on the flash, is the wanted blocks of one file
\* of the server in their order (OneFile of Agps; agps_service.c:336).
AidingWhole == part = "aiding" => Aiding!OneFile

\* When nothing goes wrong any more the device takes the image the server offers,
\* again and again, whatever earlier failures left behind on flash.
Updated == part = "firmware" /\ FirmwareFair => EventuallyUpdated

\* A receiver that searches gets its aiding file, or no longer needs it, and the chip
\* is given all of it, whatever connections break (FileComes and Aided of Agps).
AidingComes == part = "aiding" /\ AidingFair => Aiding!FileComes /\ Aiding!Aided

\* A recording leaves the ring in the end, and the recorder never waits for a free file
\* for ever (EventuallyLeaves and RecordsOn of Recoder; recoder.c:384, 636).
RecorderGoesOn == part = "recorder" /\ RecorderFair => EventuallyLeaves /\ RecordsOn
=============================================================================
