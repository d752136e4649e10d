------------------------------- MODULE Records -------------------------------
(***************************************************************************)
(* Two instances of the position-record store in one specification: "mild" *)
(* loses power and connections at any step, "quiet" sees no fault, is      *)
(* given fairness and is compared with RecordStore.                        *)
(***************************************************************************)
EXTENDS GpsSave

CONSTANT QuietRecord    \* how many records the quiet store is given

ASSUME QuietAssumption == QuietRecord \in Nat

VARIABLE part

Quiet == INSTANCE GpsSave WITH MaxRecord <- QuietRecord, Faults <- {}

RecordsInit == Init /\ part \in {"mild", "quiet"}

RecordsNext ==
  \/ part = "mild" /\ Next /\ UNCHANGED part
  \/ part = "quiet" /\ Quiet!Next /\ UNCHANGED part

RecordsSpec ==
  /\ RecordsInit /\ [][RecordsNext]_<<part, vars>>
  /\ WF_vars(part = "quiet" /\ Quiet!HandlerStep)
  /\ SF_vars(part = "quiet" /\ Quiet!SendNewest)
  /\ SF_vars(part = "quiet" /\ Quiet!ConfirmCache)

-----------------------------------------------------------------------------
\* What RecordStore sees of the quiet store; the mild one never starts.
Seen(value, nothing) == IF part = "quiet" THEN value ELSE nothing

Abstract == INSTANCE RecordStore
  WITH MaxRecord <- QuietRecord, Capacity <- HisMax,
       produced <- Seen(produced, 0), pending <- Seen(Stored, {}),
       confirmed <- Seen(confirmed, {}), evicted <- Seen(evicted, {})

\* As long as no operation fails, the store implements RecordStore: whatever
\* is moved between RAM, cache and file, each record is accepted once,
\* confirmed once, and evicted only while the store holds more than the file
\* has room for (gps_save.c).
QuietStore == Abstract!Spec

\* As long as no operation fails, a record is stored once, and not any more
\* once it was confirmed or evicted: nothing is reported twice.
QuietOnce == part = "quiet" => StoredOnce

\* While the link is fair every record is confirmed or evicted in the end.
QuietReported == part = "quiet" => Quiet!EventuallyReported
=============================================================================
