---------------------------- MODULE RecordsProofs ----------------------------
(***************************************************************************)
(* The theorems of GpsSaveProofs for the two stores of Records, for every  *)
(* MaxRecord, QuietRecord and capacity: the quiet one implements           *)
(* RecordStore (QuietStore) and holds no record twice (QuietOnce), and     *)
(* neither of them loses one (Conservation, NoDurableLoss).                *)
(***************************************************************************)
EXTENDS Records, GpsSaveProofs

\* The quiet store, with what is proved about any store.
QP == INSTANCE GpsSaveProofs WITH MaxRecord <- QuietRecord, Faults <- {}

-----------------------------------------------------------------------------
(* The quiet store.                                                        *)

USE DEF Quiet!May, QP!May, Quiet!BlankFrames, QP!BlankFrames, Quiet!Slot, QP!Slot,
        Quiet!None, QP!None, Quiet!HasFrame, QP!HasFrame,
        Quiet!WriteHead, QP!WriteHead, Quiet!Pushed, QP!Pushed,
        Quiet!Restart, QP!Restart, Quiet!FileFull, QP!FileFull,
        Quiet!EvictCount, QP!EvictCount, Quiet!DrainRamOnly, QP!DrainRamOnly,
        Quiet!memVars, QP!memVars, Quiet!diskVars, QP!diskVars,
        Quiet!callVars, QP!callVars, Quiet!scanVars, QP!scanVars,
        Quiet!ghostVars, QP!ghostVars, Quiet!Last, QP!Last, Quiet!Front, QP!Front

\* What the quiet store does is what any store does to which nothing happens.
LEMMA QuietNext == Quiet!Next => QP!Next
  <1>1. Quiet!ReportOffline => QP!ReportOffline
    BY DEF Quiet!ReportOffline, QP!ReportOffline
  <1>2. Quiet!ReportOnline => QP!ReportOnline
    BY DEF Quiet!ReportOnline, QP!ReportOnline
  <1>3. Quiet!SendNewest => QP!SendNewest
    BY DEF Quiet!SendNewest, QP!SendNewest
  <1>4. Quiet!SaveToHistoryFile => QP!SaveToHistoryFile
    BY DEF Quiet!SaveToHistoryFile, QP!SaveToHistoryFile
  <1>5. Quiet!ConfirmCache => QP!ConfirmCache
    BY DEF Quiet!ConfirmCache, QP!ConfirmCache
  <1>6. Quiet!HisFileDelete => QP!HisFileDelete
    BY DEF Quiet!HisFileDelete, QP!HisFileDelete
  <1>7. Quiet!PushToStack => QP!PushToStack
    BY DEF Quiet!PushToStack, QP!PushToStack
  <1>8. Quiet!InsertOne => QP!InsertOne
    BY DEF Quiet!InsertOne, QP!InsertOne
  <1>9. Quiet!Drain => QP!Drain
    BY DEF Quiet!Drain, QP!Drain
  <1>10. Quiet!Flushed => QP!Flushed
    BY DEF Quiet!Flushed, QP!Flushed
  <1>11. Quiet!PeekFile => QP!PeekFile
    BY DEF Quiet!PeekFile, QP!PeekFile
  <1>12. Quiet!SendPeeked => QP!SendPeeked
    BY DEF Quiet!SendPeeked, QP!SendPeeked
  <1>13. Quiet!ReadHead => QP!ReadHead
    BY DEF Quiet!ReadHead, QP!ReadHead
  <1>14. Quiet!ReadStop => QP!ReadStop
    BY DEF Quiet!ReadStop, QP!ReadStop
  <1>15. Quiet!ReadIntoRam => QP!ReadIntoRam
    BY DEF Quiet!ReadIntoRam, QP!ReadIntoRam
  <1>16. Quiet!ReadMoveDown => QP!ReadMoveDown
    BY DEF Quiet!ReadMoveDown, QP!ReadMoveDown
  <1>17. Quiet!ReadEnd => QP!ReadEnd
    BY DEF Quiet!ReadEnd, QP!ReadEnd
  <1>18. Quiet!SaveHead => QP!SaveHead
    BY DEF Quiet!SaveHead, QP!SaveHead
  <1>19. Quiet!HisFileCreate => QP!HisFileCreate
    BY DEF Quiet!HisFileCreate, QP!HisFileCreate
  <1>20. Quiet!SaveLoop => QP!SaveLoop
    BY DEF Quiet!SaveLoop, QP!SaveLoop
  <1>21. Quiet!SaveFrame => QP!SaveFrame
    BY DEF Quiet!SaveFrame, QP!SaveFrame
  <1>22. Quiet!SaveEnd => QP!SaveEnd
    BY DEF Quiet!SaveEnd, QP!SaveEnd
  <1>23. Quiet!EvictStop => QP!EvictStop
    BY DEF Quiet!EvictStop, QP!EvictStop
  <1>24. Quiet!EvictSkip => QP!EvictSkip
    BY DEF Quiet!EvictSkip, QP!EvictSkip
  <1>25. Quiet!EvictMoveDown => QP!EvictMoveDown
    BY DEF Quiet!EvictMoveDown, QP!EvictMoveDown
  <1>26. Quiet!EvictEnd => QP!EvictEnd
    BY DEF Quiet!EvictEnd, QP!EvictEnd
  <1>27. Quiet!Crash => QP!Crash
    BY DEF Quiet!Crash, QP!Crash
  <1> QED
    BY <1>1, <1>2, <1>3, <1>4, <1>5, <1>6, <1>7, <1>8, <1>9, <1>10, <1>11, <1>12, <1>13, <1>14, <1>15, <1>16, <1>17, <1>18, <1>19, <1>20, <1>21, <1>22, <1>23, <1>24, <1>25, <1>26, <1>27
       DEF Quiet!Next, QP!Next, Quiet!HandlerStep, QP!HandlerStep

\* What the quiet store is seen to hold is what any store is.
LEMMA QuietSeen ==
  /\ QP!vars = vars
  /\ QP!Stored = Stored /\ QP!Stored' = Stored'
  /\ QP!Durable = Durable /\ QP!Durable' = Durable'
  /\ QP!LiveSlots = LiveSlots /\ QP!InHand = InHand
  /\ \A s : QP!ToSet(s) = ToSet(s)
  /\ \A S : QP!Cardinality(S) = Cardinality(S)
  <1>1. QP!vars = vars
    BY DEF QP!vars, vars, memVars, diskVars, callVars, scanVars, ghostVars
  <1>2. \A s : QP!ToSet(s) = ToSet(s)
    BY DEF QP!ToSet, ToSet
  <1>3. QP!LiveSlots = LiveSlots /\ QP!LiveSlots' = LiveSlots'
    BY DEF QP!LiveSlots, LiveSlots, Slot
  <1>4. QP!InHand = InHand /\ QP!InHand' = InHand'
    BY DEF QP!InHand, InHand, None
  <1>5. QP!InFile = InFile /\ QP!InFile' = InFile'
    BY <1>3 DEF QP!InFile, InFile
  <1>6. QP!Stored = Stored /\ QP!Stored' = Stored'
    BY <1>2, <1>4, <1>5 DEF QP!Stored, Stored
  <1>7. QP!Durable = Durable /\ QP!Durable' = Durable'
    BY DEF QP!Durable, Durable, Slot
  <1>8. \A S : QP!Cardinality(S) = Cardinality(S)
    BY DEF QP!Cardinality, Cardinality
  <1> QED
    BY <1>1, <1>2, <1>3, <1>4, <1>6, <1>7, <1>8

\* The assumptions of GpsSave hold of the quiet store.
LEMMA QuietSizes == QP!SizesAssumption /\ QP!FaultsAssumption /\ QP!MildFaults
  BY SizesAssumption, QuietAssumption
     DEF QP!SizesAssumption, QP!FaultsAssumption, QP!MildFaults

-----------------------------------------------------------------------------
(* Both stores.                                                            *)

\* Each store satisfies its invariant.
RecordsInv ==
  /\ part \in {"mild", "quiet"}
  /\ part = "mild" => SafeInv
  /\ part = "quiet" => QP!SafeInv /\ QP!OnceInv

\* One of the two stores takes a step, or none does.
Stepped ==
  /\ part' = part
  /\ part = "mild" => [Next]_vars
  /\ part = "quiet" => [QP!Next]_(QP!vars)

\* Only the store that was chosen takes steps.
LEMMA OneSteps == RecordsInv /\ [RecordsNext]_<<part, vars>> => Stepped
  <1> SUFFICES ASSUME RecordsInv, [RecordsNext]_<<part, vars>> PROVE Stepped
    OBVIOUS
  <1>1. CASE part = "mild" /\ Next /\ UNCHANGED part
    BY <1>1 DEF Stepped
  <1>2. CASE part = "quiet" /\ Quiet!Next /\ UNCHANGED part
    BY <1>2, QuietNext DEF Stepped
  <1>3. CASE UNCHANGED <<part, vars>>
    <2>1. part' = part /\ vars' = vars
      BY <1>3
    <2>2. QP!vars' = QP!vars
      BY <2>1, QuietSeen DEF QP!vars, vars, memVars, diskVars, callVars, scanVars, ghostVars
    <2> QED
      BY <2>1, <2>2 DEF Stepped
  <1> QED
    BY <1>1, <1>2, <1>3 DEF RecordsNext

\* RecordsInv holds when the device boots for the first time.
LEMMA InitRecords == RecordsInit => RecordsInv
  <1> SUFFICES ASSUME RecordsInit PROVE RecordsInv
    OBVIOUS
  <1>1. QP!Init
    BY DEF RecordsInit, Init, QP!Init, BlankFrames, Slot, None
  <1>2. SafeInv
    BY InitSafe DEF RecordsInit
  <1>3. QP!SafeInv /\ QP!OnceInv
    BY <1>1, QuietSizes, QP!InitSafe, QP!InitOnce
  <1> QED
    BY <1>2, <1>3 DEF RecordsInit, RecordsInv

\* No step of either store breaks RecordsInv.
LEMMA RecordsStep ==
  ASSUME MildFaults, RecordsInv, Stepped
  PROVE  RecordsInv'
  <1>1. CASE part = "mild"
    BY <1>1, SafeStep DEF RecordsInv, Stepped
  <1>2. CASE part = "quiet"
    BY <1>2, QuietSizes, QP!SafeStep, QP!OnceStep DEF RecordsInv, Stepped
  <1> QED
    BY <1>1, <1>2 DEF RecordsInv

\* Both stores keep their invariants, while the mild one only loses power and connections.
THEOREM RecordsInvariance ==
  ASSUME MildFaults
  PROVE  RecordsSpec => []RecordsInv
  <1>1. RecordsInv /\ [RecordsNext]_<<part, vars>> => RecordsInv'
    BY OneSteps, RecordsStep
  <1> QED
    BY InitRecords, <1>1, PTL DEF RecordsSpec

\* While nothing fails each record the store holds is in one place, and none of them was
\* confirmed or evicted: it is never reported again.
THEOREM QuietStoresOnce ==
  ASSUME MildFaults
  PROVE  RecordsSpec => []QuietOnce
  <1>1. RecordsInv => QuietOnce
    <2> SUFFICES ASSUME RecordsInv, part = "quiet" PROVE StoredOnce
      BY DEF QuietOnce
    <2>1. QP!StoredOnce
      BY QuietSizes, QP!OnceCounts DEF RecordsInv
    <2> QED
      BY <2>1, QuietSeen DEF QP!StoredOnce, StoredOnce
  <1> QED
    BY RecordsInvariance, <1>1, PTL

\* While nothing fails the store implements RecordStore, whatever is done to the mild one.
THEOREM QuietImplementsRecordStore ==
  ASSUME MildFaults
  PROVE  RecordsSpec => QuietStore
  <1>1. RecordsInit => Abstract!Init
    <2> SUFFICES ASSUME RecordsInit PROVE Abstract!Init
      OBVIOUS
    <2>1. LiveSlots = {}
      BY SizesAssumption DEF RecordsInit, Init, LiveSlots, Slot
    <2>2. Stored = {}
      BY <2>1 DEF RecordsInit, Init, Stored, InFile, InHand, ToSet
    <2> QED
      BY <2>2 DEF RecordsInit, Init, Abstract!Init, Seen
  <1>2. RecordsInv /\ [RecordsNext]_<<part, vars>> => [Abstract!Next]_(Abstract!vars)
    <2> SUFFICES ASSUME RecordsInv, Stepped PROVE [Abstract!Next]_(Abstract!vars)
      BY OneSteps
    <2>1. CASE part = "mild"
      BY <2>1 DEF Stepped, Abstract!vars, Seen
    <2>2. CASE part = "quiet"
      <3>1. QP!Tracked
        BY <2>2, QuietSizes, QP!OnceStep DEF RecordsInv, Stepped
      <3>2. part' = "quiet"
        BY <2>2 DEF Stepped
      <3>3. \A x, y : Seen(x, y) = x
        BY <2>2 DEF Seen
      <3>4. Abstract!Cardinality(Seen(Stored, {})) = Cardinality(Stored)
        BY <3>3 DEF Abstract!Cardinality, Cardinality
      <3>5. ASSUME QP!Shuffled PROVE UNCHANGED Abstract!vars
        BY <2>2, <3>2, <3>5, QuietSeen DEF QP!Shuffled, Abstract!vars, Seen
      <3>6. ASSUME QP!Accepted PROVE Abstract!Accept
        BY <2>2, <3>2, <3>6, QuietSeen DEF QP!Accepted, Abstract!Accept, Seen
      <3>7. ASSUME NEW r \in Stored, QP!Confirmed(r) PROVE Abstract!Confirm(r)
        BY <2>2, <3>2, <3>7, QuietSeen DEF QP!Confirmed, Abstract!Confirm, Seen
      <3>8. ASSUME NEW r \in Stored, QP!Evicted(r) PROVE Abstract!Evict(r)
        BY <2>2, <3>2, <3>4, <3>8, QuietSeen DEF QP!Evicted, Abstract!Evict, Seen
      <3>9. Seen(Stored, {}) = Stored
        BY <3>3
      <3> QED
        BY <3>1, <3>5, <3>6, <3>7, <3>8, <3>9, QuietSeen DEF QP!Tracked, Abstract!Next
    <2> QED
      BY <2>1, <2>2 DEF RecordsInv
  <1> QED
    BY RecordsInvariance, <1>1, <1>2, PTL DEF RecordsSpec, QuietStore, Abstract!Spec

\* Neither store loses a record: it is stored, confirmed, evicted, or was in RAM when power
\* failed.
THEOREM BothConserve ==
  ASSUME MildFaults
  PROVE  RecordsSpec => []Conservation
  <1>1. RecordsInit => Conservation
    BY DEF RecordsInit, Init, Conservation
  <1>2. RecordsInv /\ Conservation /\ [RecordsNext]_<<part, vars>> => Conservation'
    <2> SUFFICES ASSUME RecordsInv, Conservation, Stepped PROVE Conservation'
      BY OneSteps
    <2>1. CASE part = "mild"
      BY <2>1, ConservationStep DEF RecordsInv, Stepped
    <2>2. CASE part = "quiet"
      <3>1. QP!Conservation
        BY QuietSeen DEF Conservation, QP!Conservation
      <3>2. QP!Conservation'
        BY <2>2, <3>1, QuietSizes, QP!ConservationStep DEF RecordsInv, Stepped
      <3> QED
        BY <3>2, QuietSeen DEF Conservation, QP!Conservation
    <2> QED
      BY <2>1, <2>2 DEF RecordsInv
  <1> QED
    BY RecordsInvariance, <1>1, <1>2, PTL DEF RecordsSpec

\* No step of either store, power failures included, costs a record its file held.
THEOREM BothKeepTheFile ==
  ASSUME MildFaults
  PROVE  RecordsSpec => NoDurableLoss
  <1> DEFINE Held == Durable \subseteq Durable' \cup ToSet(ram') \cup ToSet(cache') \cup evicted'
  <1>1. RecordsInv /\ [RecordsNext]_<<part, vars>> => [Held]_vars
    <2> SUFFICES ASSUME RecordsInv, Stepped PROVE [Held]_vars
      BY OneSteps
    <2>1. CASE part = "mild"
      BY <2>1, DurableStep DEF RecordsInv, Stepped
    <2>2. CASE part = "quiet"
      BY <2>2, QuietSizes, QuietSeen, QP!DurableStep DEF RecordsInv, Stepped
    <2> QED
      BY <2>1, <2>2 DEF RecordsInv
  <1> QED
    BY RecordsInvariance, <1>1, PTL DEF RecordsSpec, NoDurableLoss
=============================================================================
