---------------------------- MODULE GpsSaveProofs ----------------------------
(***************************************************************************)
(* Machine-checked theorems about GpsSave, for every MaxRecord, RamMax,    *)
(* CacheMax and HisMax: what the file is like whatever the Faults are, and *)
(* that the store loses nothing while the only failures are power failures *)
(* and refused sends (MildFaults): Conservation, NoDurableLoss and         *)
(* EvictionTight; and, when nothing fails at all, that each record is in   *)
(* one place, stored or confirmed or evicted (StoredOnce).                 *)
(***************************************************************************)
EXTENDS GpsSave, SequenceTheorems, FiniteSetTheorems, TLAPS

-----------------------------------------------------------------------------
(* Whatever fails.                                                         *)

\* The ends of a deque: what gps_data_peek_one and gps_data_commit_peek return.
LEMMA DequeEnds ==
  ASSUME NEW S, NEW s \in Seq(S), s # <<>>
  PROVE  /\ Head(s) \in S
         /\ Tail(s) \in Seq(S)
         /\ Len(s) \in Nat \ {0}
         /\ Last(s) \in S
         /\ Front(s) \in Seq(S)
  <1>1. /\ Head(s) \in S /\ Tail(s) \in Seq(S) /\ Len(s) \in Nat \ {0}
    BY HeadTailProperties, EmptySeq
  <1>2. Last(s) \in S
    BY <1>1 DEF Last
  <1>3. Front(s) \in Seq(S)
    BY <1>1 DEF Front
  <1> QED
    BY <1>1, <1>2, <1>3

\* Everything the store holds, in RAM or in a live frame, is a record: no frame
\* that was never written is ever taken for one.
LEMMA StoredAreRecords == IInv => Stored \subseteq Record
  <1> SUFFICES ASSUME IInv PROVE Stored \subseteq Record
    OBVIOUS
  <1>1. ToSet(ram) \subseteq Record /\ ToSet(cache) \subseteq Record
    BY ElementOfSeq DEF IInv, TypeOK, ToSet
  <1>2. \A i \in LiveSlots : i \in Slot /\ frame[i] # None
    BY SizesAssumption
       DEF IInv, TypeOK, FileSound, ScanInv, LiveSlots, Scanning, Slot
  <1>3. InFile \subseteq Record
    BY <1>2 DEF InFile, IInv, TypeOK
  <1>4. InHand \subseteq Record
    BY DEF InHand, IInv, TypeOK
  <1> QED
    BY <1>1, <1>3, <1>4 DEF Stored

\* The inductive invariant holds when the device boots for the first time.
LEMMA InitIInv == Init => IInv
  <1> SUFFICES ASSUME Init PROVE IInv
    OBVIOUS
  <1> USE SizesAssumption DEF Init
  <1>1. TypeOK
    <2>1. BlankFrames \in [Slot -> Record \cup {None}]
      BY DEF BlankFrames
    <2>2. <<>> \in Seq(Record)
      BY EmptySeq
    <2>3. /\ produced \in 0 .. MaxRecord
          /\ confirmed \in SUBSET Record /\ evicted \in SUBSET Record
          /\ lost \in SUBSET Record
      OBVIOUS
    <2> QED
      BY <2>1, <2>2, <2>3 DEF TypeOK, PCs
  <1>2. FileSound
    BY DEF FileSound, BlankFrames, None, Slot
  <1>3. CallInv
    BY DEF CallInv, Caller, Saving, Reading
  <1>4. ScanInv
    BY DEF ScanInv, Scanning, Saving
  <1> QED
    BY <1>1, <1>2, <1>3, <1>4 DEF IInv

\* Every step keeps the variables in their types.
LEMMA TypeStep == IInv /\ [Next]_vars => TypeOK'
  <1> SUFFICES ASSUME IInv, [Next]_vars PROVE TypeOK'
    OBVIOUS
  <1>a. <<>> \in Seq(Record)
    BY EmptySeq
  <1>b. \A s \in Seq(Record), r \in Record : Append(s, r) \in Seq(Record)
    BY AppendProperties
  <1>c. \A s \in Seq(Record) : s # <<>> =>
          /\ Head(s) \in Record /\ Tail(s) \in Seq(Record)
          /\ Last(s) \in Record /\ Front(s) \in Seq(Record)
          /\ Len(s) \in Nat
    BY DequeEnds
  <1>d. HasFrame => idx \in Slot /\ newIdx \in Slot /\ frame[idx] \in Record
    BY SizesAssumption DEF HasFrame, IInv, TypeOK, FileSound, ScanInv, Slot
  <1> USE SizesAssumption DEF IInv, TypeOK, FileSound, CallInv, ScanInv, Caller,
        Scanning, Saving, Reading, PCs, BlankFrames, HasFrame, Record, None,
        Restart, May, WriteHead, vars, memVars, diskVars, callVars,
        scanVars, ghostVars
  <1>1. CASE ReportOffline
    BY <1>1 DEF ReportOffline
  <1>2. CASE ReportOnline
    BY <1>2 DEF ReportOnline
  <1>3. CASE SendNewest
    BY <1>3 DEF SendNewest
  <1>4. CASE SaveToHistoryFile
    BY <1>4 DEF SaveToHistoryFile
  <1>5. CASE ConfirmCache
    BY <1>5, <1>a, <1>b, <1>c, <1>d DEF ConfirmCache
  <1>6. CASE HisFileDelete
    BY <1>6 DEF HisFileDelete
  <1>7. CASE PushToStack
    BY <1>7 DEF PushToStack
  <1>8. CASE InsertOne
    <2>1. Pushed \in Record
      BY <1>8, <1>c DEF InsertOne, Pushed
    <2>2. ram' \in Seq(Record)
      BY <1>8, <1>b, <2>1 DEF InsertOne
    <2>3. cache' \in Seq(Record)
      BY <1>8, <1>c DEF InsertOne
    <2>4. pc' \in PCs /\ inHand' \in Record \cup {None}
      BY <1>8 DEF InsertOne
    <2> QED
      BY <1>8, <2>2, <2>3, <2>4 DEF InsertOne
  <1>9. CASE Drain
    BY <1>9 DEF Drain
  <1>10. CASE Flushed
    BY <1>10, <1>a, <1>b, <1>c, <1>d DEF Flushed
  <1>11. CASE PeekFile
    BY <1>11 DEF PeekFile
  <1>12. CASE SendPeeked
    BY <1>12, <1>a, <1>b, <1>c, <1>d DEF SendPeeked
  <1>13. CASE ReadHead
    BY <1>13 DEF ReadHead
  <1>14. CASE ReadStop
    BY <1>14 DEF ReadStop
  <1>15. CASE ReadIntoRam
    <2>1. ram' \in Seq(Record)
      BY <1>15, <1>b, <1>d DEF ReadIntoRam
    <2> QED
      BY <1>15, <2>1 DEF ReadIntoRam
  <1>16. CASE ReadMoveDown
    <2>1. frame' \in [Slot -> Record \cup {None}]
      BY <1>16, <1>d DEF ReadMoveDown
    <2> QED
      BY <1>16, <2>1 DEF ReadMoveDown
  <1>17. CASE ReadEnd
    BY <1>17 DEF ReadEnd
  <1>18. CASE SaveHead
    BY <1>18 DEF SaveHead
  <1>19. CASE HisFileCreate
    BY <1>19 DEF HisFileCreate
  <1>20. CASE SaveLoop
    BY <1>20 DEF SaveLoop, FileFull, EvictCount
  <1>21. CASE SaveFrame
    <2>1. ram # <<>>
      BY <1>21 DEF SaveFrame
    <2>2. frame' \in [Slot -> Record \cup {None}]
      BY <1>21, <1>c, <2>1 DEF SaveFrame
    <2>3. ram' \in Seq(Record)
      BY <1>21, <1>c, <2>1 DEF SaveFrame
    <2> QED
      BY <1>21, <2>2, <2>3 DEF SaveFrame
  <1>22. CASE SaveEnd
    BY <1>22 DEF SaveEnd
  <1>23. CASE EvictStop
    BY <1>23 DEF EvictStop
  <1>24. CASE EvictSkip
    <2>1. evicted' \in SUBSET Record
      BY <1>24, <1>d DEF EvictSkip
    <2> QED
      BY <1>24, <2>1 DEF EvictSkip
  <1>25. CASE EvictMoveDown
    <2>1. frame' \in [Slot -> Record \cup {None}]
      BY <1>25, <1>d DEF EvictMoveDown
    <2> QED
      BY <1>25, <2>1 DEF EvictMoveDown
  <1>26. CASE EvictEnd
    BY <1>26 DEF EvictEnd
  <1>27. CASE Crash
    BY <1>27, <1>a, StoredAreRecords DEF Crash
  <1>28. CASE UNCHANGED vars
    BY <1>28
  <1> QED
    BY <1>1, <1>2, <1>3, <1>4, <1>5, <1>6, <1>7, <1>8, <1>9, <1>10,
       <1>11, <1>12, <1>13, <1>14, <1>15, <1>16, <1>17, <1>18, <1>19, <1>20,
       <1>21, <1>22, <1>23, <1>24, <1>25, <1>26, <1>27, <1>28
       DEF Next, HandlerStep

\* Every step keeps the header truthful and the file bounded.
LEMMA FileStep == IInv /\ [Next]_vars => FileSound'
  <1> SUFFICES ASSUME IInv, [Next]_vars PROVE FileSound'
    OBVIOUS
  <1>d. HasFrame => idx \in Slot /\ newIdx \in Slot /\ frame[idx] # None
    BY SizesAssumption DEF HasFrame, IInv, TypeOK, FileSound, ScanInv, Slot
  <1> USE SizesAssumption DEF IInv, TypeOK, FileSound, ScanInv, Scanning, Slot,
        BlankFrames, Record, None, Restart, May, WriteHead, vars, memVars, diskVars, callVars,
        scanVars, ghostVars
  <1>1. CASE ReportOffline
    BY <1>1 DEF ReportOffline
  <1>2. CASE ReportOnline
    BY <1>2 DEF ReportOnline
  <1>3. CASE SendNewest
    BY <1>3 DEF SendNewest
  <1>4. CASE SaveToHistoryFile
    BY <1>4 DEF SaveToHistoryFile
  <1>5. CASE ConfirmCache
    BY <1>5 DEF ConfirmCache
  <1>6. CASE HisFileDelete
    BY <1>6 DEF HisFileDelete
  <1>7. CASE PushToStack
    BY <1>7 DEF PushToStack
  <1>8. CASE InsertOne
    BY <1>8 DEF InsertOne
  <1>9. CASE Drain
    BY <1>9 DEF Drain
  <1>10. CASE Flushed
    BY <1>10 DEF Flushed
  <1>11. CASE PeekFile
    BY <1>11 DEF PeekFile
  <1>12. CASE SendPeeked
    BY <1>12 DEF SendPeeked
  <1>13. CASE ReadHead
    BY <1>13 DEF ReadHead
  <1>14. CASE ReadStop
    BY <1>14 DEF ReadStop
  <1>15. CASE ReadIntoRam
    BY <1>15 DEF ReadIntoRam
  <1>16. CASE ReadMoveDown
    <2>1. pc' = "saveFrame" => FALSE
      BY <1>16 DEF ReadMoveDown
    <2>2. \A i \in Slot : frame[i] # None => frame'[i] # None
      BY <1>16, <1>d DEF ReadMoveDown
    <2> QED
      BY <1>16, <2>1, <2>2 DEF ReadMoveDown
  <1>17. CASE ReadEnd
    BY <1>17 DEF ReadEnd
  <1>18. CASE SaveHead
    BY <1>18 DEF SaveHead
  <1>19. CASE HisFileCreate
    BY <1>19 DEF HisFileCreate
  <1>20. CASE SaveLoop
    BY <1>20 DEF SaveLoop, FileFull, EvictCount
  <1>21. CASE SaveFrame
    <2>1. recordNum < HisMax /\ recordNum' <= HisMax /\ pc' # "saveFrame"
      BY <1>21 DEF SaveFrame
    <2>2. \A i \in Slot : frame[i] # None => frame'[i] # None
      <3> SUFFICES ASSUME NEW i \in Slot, frame[i] # None PROVE frame'[i] # None
        OBVIOUS
      <3>1. Head(ram) \in Record
        BY <1>21, DequeEnds DEF SaveFrame
      <3> QED
        BY <1>21, <3>1, <2>1 DEF SaveFrame
    <2> QED
      BY <1>21, <2>1, <2>2 DEF SaveFrame
  <1>22. CASE SaveEnd
    BY <1>22 DEF SaveEnd
  <1>23. CASE EvictStop
    BY <1>23 DEF EvictStop
  <1>24. CASE EvictSkip
    BY <1>24 DEF EvictSkip
  <1>25. CASE EvictMoveDown
    <2>1. pc' = "saveFrame" => FALSE
      BY <1>25 DEF EvictMoveDown
    <2>2. \A i \in Slot : frame[i] # None => frame'[i] # None
      BY <1>25, <1>d DEF EvictMoveDown
    <2> QED
      BY <1>25, <2>1, <2>2 DEF EvictMoveDown
  <1>26. CASE EvictEnd
    BY <1>26 DEF EvictEnd
  <1>27. CASE Crash
    BY <1>27 DEF Crash
  <1>28. CASE UNCHANGED vars
    BY <1>28
  <1> QED
    BY <1>1, <1>2, <1>3, <1>4, <1>5, <1>6, <1>7, <1>8, <1>9, <1>10,
       <1>11, <1>12, <1>13, <1>14, <1>15, <1>16, <1>17, <1>18, <1>19, <1>20,
       <1>21, <1>22, <1>23, <1>24, <1>25, <1>26, <1>27, <1>28
       DEF Next, HandlerStep

\* Every step keeps the copying loops within the frames that were written.
LEMMA ScanStep == IInv /\ [Next]_vars => ScanInv'
  <1> SUFFICES ASSUME IInv, [Next]_vars PROVE ScanInv'
    OBVIOUS
  <1>d. HasFrame => idx \in Slot /\ newIdx \in Slot /\ frame[idx] # None
    BY SizesAssumption DEF HasFrame, IInv, TypeOK, FileSound, ScanInv, Slot
  <1> USE SizesAssumption DEF IInv, TypeOK, FileSound, ScanInv, Scanning, Slot,
        BlankFrames, HasFrame, Record, None, Restart, May, WriteHead, vars, memVars, diskVars, callVars,
        scanVars, ghostVars
  <1>1. CASE ReportOffline
    BY <1>1 DEF ReportOffline
  <1>2. CASE ReportOnline
    BY <1>2 DEF ReportOnline
  <1>3. CASE SendNewest
    BY <1>3 DEF SendNewest
  <1>4. CASE SaveToHistoryFile
    BY <1>4 DEF SaveToHistoryFile
  <1>5. CASE ConfirmCache
    BY <1>5 DEF ConfirmCache
  <1>6. CASE HisFileDelete
    BY <1>6 DEF HisFileDelete
  <1>7. CASE PushToStack
    BY <1>7 DEF PushToStack
  <1>8. CASE InsertOne
    BY <1>8 DEF InsertOne
  <1>9. CASE Drain
    BY <1>9 DEF Drain
  <1>10. CASE Flushed
    BY <1>10 DEF Flushed
  <1>11. CASE PeekFile
    BY <1>11 DEF PeekFile
  <1>12. CASE SendPeeked
    BY <1>12 DEF SendPeeked
  <1>13. CASE ReadHead
    BY <1>13 DEF ReadHead
  <1>14. CASE ReadStop
    BY <1>14 DEF ReadStop
  <1>15. CASE ReadIntoRam
    BY <1>15 DEF ReadIntoRam
  <1>16. CASE ReadMoveDown
    <2>1. \A i \in Slot : frame[i] # None => frame'[i] # None
      BY <1>16, <1>d DEF ReadMoveDown
    <2>2. \A i \in Slot : i < recordNum' => frame'[i] # None
      BY <1>16, <2>1 DEF ReadMoveDown
    <2>3. idx < recordNum /\ recordNum' = recordNum /\ pc' \in {"readLoop", "readEnd"}
      BY <1>16 DEF ReadMoveDown
    <2>4. newIdx' <= idx' /\ idx' <= HisMax /\ idx' <= recordNum'
      BY <1>16, <2>3 DEF ReadMoveDown
    <2> QED
      BY <2>2, <2>3, <2>4
  <1>17. CASE ReadEnd
    BY <1>17 DEF ReadEnd
  <1>18. CASE SaveHead
    BY <1>18 DEF SaveHead
  <1>19. CASE HisFileCreate
    BY <1>19 DEF HisFileCreate
  <1>20. CASE SaveLoop
    BY <1>20 DEF SaveLoop, FileFull, EvictCount
  <1>21. CASE SaveFrame
    <2>1. \A i \in Slot : frame[i] # None => frame'[i] # None
      <3> SUFFICES ASSUME NEW i \in Slot, frame[i] # None PROVE frame'[i] # None
        OBVIOUS
      <3>1. Head(ram) \in Record /\ recordNum \in Slot
        BY <1>21, DequeEnds DEF SaveFrame
      <3> QED
        BY <1>21, <3>1 DEF SaveFrame
    <2>2. \A i \in Slot : i < recordNum' => frame'[i] # None
      <3> SUFFICES ASSUME NEW i \in Slot, i < recordNum' PROVE frame'[i] # None
        OBVIOUS
      <3>1. CASE i < recordNum
        BY <1>21, <2>1, <3>1 DEF SaveFrame
      <3>2. CASE i = recordNum
        <4>1. Head(ram) \in Record
          BY <1>21, DequeEnds DEF SaveFrame
        <4> QED
          BY <1>21, <3>2, <4>1 DEF SaveFrame
      <3> QED
        BY <1>21, <3>1, <3>2 DEF SaveFrame
    <2>3. idx' = idx /\ newIdx' = newIdx /\ pc' \in {"saveLoop", "saveEnd"}
      BY <1>21 DEF SaveFrame
    <2>4. idx = 0 /\ newIdx = 0
      BY <1>21 DEF SaveFrame
    <2> QED
      BY <2>2, <2>3, <2>4
  <1>22. CASE SaveEnd
    BY <1>22 DEF SaveEnd
  <1>23. CASE EvictStop
    BY <1>23 DEF EvictStop
  <1>24. CASE EvictSkip
    BY <1>24 DEF EvictSkip
  <1>25. CASE EvictMoveDown
    <2>1. \A i \in Slot : frame[i] # None => frame'[i] # None
      BY <1>25, <1>d DEF EvictMoveDown
    <2>2. CASE pc' = "evict"
      <3>1. idx' = idx + 1 /\ newIdx' = newIdx + 1
        BY <1>25, <2>2 DEF EvictMoveDown
      <3>2. newIdx + delNum <= idx /\ idx < recordNum
        BY <1>25 DEF EvictMoveDown
      <3>3. newIdx' + delNum' <= idx' /\ idx' <= recordNum' /\ idx' <= HisMax
        BY <1>25, <3>1, <3>2 DEF EvictMoveDown
      <3>4. delNum' > 0 /\ ram' # <<>> /\ recordNum' = recordNum
        BY <1>25 DEF EvictMoveDown
      <3> QED
        BY <1>25, <2>1, <2>2, <3>1, <3>2, <3>3, <3>4 DEF EvictMoveDown
    <2>3. CASE pc' = "evictEnd"
      BY <1>25, <2>3 DEF EvictMoveDown
    <2> QED
      BY <1>25, <2>2, <2>3 DEF EvictMoveDown
  <1>26. CASE EvictEnd
    BY <1>26 DEF EvictEnd
  <1>27. CASE Crash
    BY <1>27 DEF Crash
  <1>28. CASE UNCHANGED vars
    BY <1>28
  <1> QED
    BY <1>1, <1>2, <1>3, <1>4, <1>5, <1>6, <1>7, <1>8, <1>9, <1>10,
       <1>11, <1>12, <1>13, <1>14, <1>15, <1>16, <1>17, <1>18, <1>19, <1>20,
       <1>21, <1>22, <1>23, <1>24, <1>25, <1>26, <1>27, <1>28
       DEF Next, HandlerStep

\* Every step keeps a record in the hands of the handlers that insert one.
LEMMA CallStep == IInv /\ [Next]_vars => CallInv'
  <1> SUFFICES ASSUME IInv, [Next]_vars PROVE CallInv'
    OBVIOUS
  <1> USE SizesAssumption DEF IInv, TypeOK, CallInv, Caller, Saving, Reading, Record,
        None, Restart, May, WriteHead, vars, memVars, diskVars, callVars,
        scanVars, ghostVars
  <1>1. CASE ReportOffline
    BY <1>1 DEF ReportOffline
  <1>2. CASE ReportOnline
    BY <1>2 DEF ReportOnline
  <1>3. CASE SendNewest
    BY <1>3 DEF SendNewest
  <1>4. CASE SaveToHistoryFile
    BY <1>4 DEF SaveToHistoryFile
  <1>5. CASE ConfirmCache
    BY <1>5 DEF ConfirmCache
  <1>6. CASE HisFileDelete
    BY <1>6 DEF HisFileDelete
  <1>7. CASE PushToStack
    BY <1>7 DEF PushToStack
  <1>8. CASE InsertOne
    BY <1>8 DEF InsertOne
  <1>9. CASE Drain
    BY <1>9 DEF Drain
  <1>10. CASE Flushed
    BY <1>10 DEF Flushed
  <1>11. CASE PeekFile
    BY <1>11 DEF PeekFile
  <1>12. CASE SendPeeked
    BY <1>12 DEF SendPeeked
  <1>13. CASE ReadHead
    BY <1>13 DEF ReadHead
  <1>14. CASE ReadStop
    BY <1>14 DEF ReadStop
  <1>15. CASE ReadIntoRam
    BY <1>15 DEF ReadIntoRam
  <1>16. CASE ReadMoveDown
    BY <1>16 DEF ReadMoveDown
  <1>17. CASE ReadEnd
    BY <1>17 DEF ReadEnd
  <1>18. CASE SaveHead
    BY <1>18 DEF SaveHead
  <1>19. CASE HisFileCreate
    BY <1>19 DEF HisFileCreate
  <1>20. CASE SaveLoop
    BY <1>20 DEF SaveLoop, FileFull, EvictCount
  <1>21. CASE SaveFrame
    BY <1>21 DEF SaveFrame
  <1>22. CASE SaveEnd
    BY <1>22 DEF SaveEnd
  <1>23. CASE EvictStop
    BY <1>23 DEF EvictStop
  <1>24. CASE EvictSkip
    BY <1>24 DEF EvictSkip
  <1>25. CASE EvictMoveDown
    BY <1>25 DEF EvictMoveDown
  <1>26. CASE EvictEnd
    BY <1>26 DEF EvictEnd
  <1>27. CASE Crash
    BY <1>27 DEF Crash
  <1>28. CASE UNCHANGED vars
    BY <1>28
  <1> QED
    BY <1>1, <1>2, <1>3, <1>4, <1>5, <1>6, <1>7, <1>8, <1>9, <1>10,
       <1>11, <1>12, <1>13, <1>14, <1>15, <1>16, <1>17, <1>18, <1>19, <1>20,
       <1>21, <1>22, <1>23, <1>24, <1>25, <1>26, <1>27, <1>28
       DEF Next, HandlerStep

\* IInv is an inductive invariant of the store.
THEOREM Invariance == Spec => []IInv
  <1>1. IInv /\ [Next]_vars => IInv'
    BY TypeStep, FileStep, CallStep, ScanStep DEF IInv
  <1> QED
    BY InitIInv, <1>1, PTL DEF Spec

\* Every variable keeps its type, whatever fails.
THEOREM TypeCorrect == Spec => []TypeOK
  <1>1. IInv => TypeOK
    BY DEF IInv
  <1> QED
    BY Invariance, <1>1, PTL

\* After any crash and any failing file operation the header of the history
\* file only promises frames that were written, and the file is bounded.
THEOREM FileAlwaysSound == Spec => []FileSound
  <1>1. IInv => FileSound
    BY DEF IInv
  <1> QED
    BY Invariance, <1>1, PTL

-----------------------------------------------------------------------------
(* What is lost: nothing, when only power failures and refused sends are.  *)

\* What appending to and removing from a deque does to its length.
LEMMA DequeLengths ==
  ASSUME NEW S, NEW s \in Seq(S)
  PROVE  /\ Len(s) \in Nat
         /\ s = <<>> <=> Len(s) = 0
         /\ \A x \in S : Len(Append(s, x)) = Len(s) + 1
         /\ s # <<>> => Len(Tail(s)) = Len(s) - 1
         /\ s # <<>> => Len(Front(s)) = Len(s) - 1
  <1>1. Len(s) \in Nat /\ (s = <<>> <=> Len(s) = 0)
    BY EmptySeq
  <1>2. \A x \in S : Len(Append(s, x)) = Len(s) + 1
    BY AppendProperties
  <1>3. s # <<>> => Len(Tail(s)) = Len(s) - 1
    BY HeadTailProperties
  <1>4. ASSUME s # <<>> PROVE Len(Front(s)) = Len(s) - 1
    <2>1. Front(s) \in Seq(S)
      BY <1>4, DequeEnds
    <2>2. DOMAIN Front(s) = 1 .. Len(s) - 1
      BY <1>1, <1>4, LenProperties DEF Front
    <2>3. DOMAIN Front(s) = 1 .. Len(Front(s)) /\ Len(Front(s)) \in Nat
      BY <2>1, LenProperties
    <2>4. Len(s) - 1 \in Nat
      BY <1>1, <1>4
    <2>5. \A m, n \in Nat : 1 .. m = 1 .. n => m = n
      <3> SUFFICES ASSUME NEW m \in Nat, NEW n \in Nat, 1 .. m = 1 .. n, m # n
                   PROVE  FALSE
        OBVIOUS
      <3>1. CASE m < n
        BY <3>1, n \in 1 .. n, n \notin 1 .. m
      <3>2. CASE n < m
        BY <3>2, m \in 1 .. m, m \notin 1 .. n
      <3> QED
        BY <3>1, <3>2
    <2> QED
      BY <2>2, <2>3, <2>4, <2>5
  <1> QED
    BY <1>1, <1>2, <1>3, <1>4

\* What appending to and removing from a deque does to its content.
LEMMA DequeContents ==
  ASSUME NEW S, NEW s \in Seq(S)
  PROVE  /\ ToSet(<<>>) = {}
         /\ \A x \in S : ToSet(Append(s, x)) = ToSet(s) \cup {x}
         /\ s # <<>> => ToSet(s) = ToSet(Tail(s)) \cup {Head(s)}
         /\ s # <<>> => ToSet(s) = ToSet(Front(s)) \cup {Last(s)}
  <1>1. ToSet(<<>>) = {}
    BY DEF ToSet
  <1>2. ASSUME NEW x \in S PROVE ToSet(Append(s, x)) = ToSet(s) \cup {x}
    <2>1. /\ DOMAIN s = 1 .. Len(s) /\ Len(s) \in Nat
          /\ DOMAIN Append(s, x) = 1 .. Len(s) + 1
          /\ \A i \in 1 .. Len(s) : Append(s, x)[i] = s[i]
          /\ Append(s, x)[Len(s) + 1] = x
      BY AppendProperties, LenProperties
    <2> QED
      BY <2>1 DEF ToSet
  <1>3. ASSUME s # <<>> PROVE ToSet(s) = ToSet(Tail(s)) \cup {Head(s)}
    <2>1. /\ DOMAIN s = 1 .. Len(s) /\ Len(s) \in Nat \ {0}
          /\ DOMAIN Tail(s) = 1 .. Len(s) - 1
          /\ \A i \in 1 .. Len(s) - 1 : Tail(s)[i] = s[i + 1]
          /\ Head(s) = s[1]
      BY <1>3, HeadTailProperties, LenProperties, EmptySeq
    <2>2. \A i \in DOMAIN s : i = 1 \/ (i - 1 \in DOMAIN Tail(s) /\ s[i] = Tail(s)[i - 1])
      BY <2>1
    <2>3. \A i \in DOMAIN Tail(s) : i + 1 \in DOMAIN s /\ Tail(s)[i] = s[i + 1]
      BY <2>1
    <2>4. ToSet(s) \subseteq ToSet(Tail(s)) \cup {Head(s)}
      BY <2>1, <2>2 DEF ToSet
    <2>5. ToSet(Tail(s)) \cup {Head(s)} \subseteq ToSet(s)
      BY <2>1, <2>3 DEF ToSet
    <2> QED
      BY <2>4, <2>5
  <1>4. ASSUME s # <<>> PROVE ToSet(s) = ToSet(Front(s)) \cup {Last(s)}
    <2>1. /\ DOMAIN s = 1 .. Len(s) /\ Len(s) \in Nat \ {0}
          /\ DOMAIN Front(s) = 1 .. Len(s) - 1
          /\ \A i \in 1 .. Len(s) - 1 : Front(s)[i] = s[i]
          /\ Last(s) = s[Len(s)]
      BY <1>4, LenProperties, EmptySeq DEF Front, Last
    <2> QED
      BY <2>1 DEF ToSet
  <1> QED
    BY <1>1, <1>2, <1>3, <1>4

\* A handler that runs to its end has nothing left in its hands.
LEMMA FlowStep ==
  ASSUME MildFaults, SafeInv, [Next]_vars
  PROVE  FlowInv'
  <1>m. ~May("read") /\ ~May("write") /\ ~May("alloc") /\ ~May("wipe")
    BY DEF MildFaults, May
  <1>l. Len(<<>>) = 0 /\ (ram = <<>> <=> Len(ram) = 0) /\ Len(ram) \in Nat
    BY DequeLengths DEF SafeInv, IInv, TypeOK
  <1> USE <1>m, SizesAssumption DEF SafeInv, IInv, CallInv, FlowInv, EvictInv,
        Caller, Saving, Reading, Record, None, Restart, WriteHead,
        vars, memVars, diskVars, callVars, scanVars, ghostVars
  <1>1. CASE ReportOffline
    BY <1>1 DEF ReportOffline
  <1>2. CASE ReportOnline
    BY <1>2 DEF ReportOnline
  <1>3. CASE SendNewest
    BY <1>3 DEF SendNewest
  <1>4. CASE SaveToHistoryFile
    BY <1>4 DEF SaveToHistoryFile
  <1>5. CASE ConfirmCache
    BY <1>5 DEF ConfirmCache
  <1>6. CASE HisFileDelete
    BY <1>6 DEF HisFileDelete
  <1>7. CASE PushToStack
    BY <1>7, <1>l DEF PushToStack, TypeOK
  <1>8. CASE InsertOne
    BY <1>8, <1>l DEF InsertOne, TypeOK
  <1>9. CASE Drain
    BY <1>9 DEF Drain
  <1>10. CASE Flushed
    BY <1>10 DEF Flushed
  <1>11. CASE PeekFile
    BY <1>11 DEF PeekFile
  <1>12. CASE SendPeeked
    BY <1>12 DEF SendPeeked
  <1>13. CASE ReadHead
    BY <1>13 DEF ReadHead
  <1>14. CASE ReadStop
    BY <1>14 DEF ReadStop
  <1>15. CASE ReadIntoRam
    BY <1>15 DEF ReadIntoRam
  <1>16. CASE ReadMoveDown
    BY <1>16 DEF ReadMoveDown
  <1>17. CASE ReadEnd
    BY <1>17 DEF ReadEnd, TypeOK
  <1>18. CASE SaveHead
    BY <1>18 DEF SaveHead
  <1>19. CASE HisFileCreate
    BY <1>19 DEF HisFileCreate
  <1>20. CASE SaveLoop
    BY <1>20 DEF SaveLoop
  <1>21. CASE SaveFrame
    BY <1>21 DEF SaveFrame
  <1>22. CASE SaveEnd
    BY <1>22, <1>l DEF SaveEnd, TypeOK
  <1>23. CASE EvictStop
    BY <1>23 DEF EvictStop
  <1>24. CASE EvictSkip
    BY <1>24 DEF EvictSkip
  <1>25. CASE EvictMoveDown
    BY <1>25 DEF EvictMoveDown
  <1>26. CASE EvictEnd
    BY <1>26 DEF EvictEnd
  <1>27. CASE Crash
    BY <1>27 DEF Crash
  <1>28. CASE UNCHANGED vars
    BY <1>28
  <1> QED
    BY <1>1, <1>2, <1>3, <1>4, <1>5, <1>6, <1>7, <1>8, <1>9, <1>10,
       <1>11, <1>12, <1>13, <1>14, <1>15, <1>16, <1>17, <1>18, <1>19, <1>20,
       <1>21, <1>22, <1>23, <1>24, <1>25, <1>26, <1>27, <1>28
       DEF Next, HandlerStep

\* A save keeps the number of frames it still has to append in step with the
\* room it made.
LEMMA EvictStep ==
  ASSUME MildFaults, SafeInv, [Next]_vars
  PROVE  EvictInv'
  <1>m. ~May("read") /\ ~May("write") /\ ~May("alloc") /\ ~May("wipe")
    BY DEF MildFaults, May
  <1>a. /\ Len(<<>>) = 0 /\ Len(ram) \in Nat
        /\ ram = <<>> <=> Len(ram) = 0
        /\ \A r \in Record : Len(Append(ram, r)) = Len(ram) + 1
        /\ ram # <<>> => Len(Tail(ram)) = Len(ram) - 1
        /\ ram # <<>> => Len(Front(ram)) = Len(ram) - 1
    BY DequeLengths DEF SafeInv, IInv, TypeOK
  <1>b. pc = "insert" => Pushed \in Record
    BY DequeEnds DEF SafeInv, IInv, TypeOK, CallInv, Caller, Saving, Reading, Pushed
  <1>c. HasFrame => frame[idx] \in Record /\ idx < HisMax
    BY SizesAssumption DEF HasFrame, SafeInv, IInv, TypeOK, FileSound, ScanInv, Slot
  <1>t. /\ recordNum \in Nat /\ idx \in Nat /\ newIdx \in Nat /\ delNum \in Nat
        /\ recordNum <= HisMax
        /\ ret \in {"push", "insert", "peek", "flushed"}
    BY DEF SafeInv, IInv, TypeOK, FileSound
  <1> USE <1>m, <1>a, <1>t, SizesAssumption DEF SafeInv, IInv, ScanInv, Scanning,
        FlowInv, EvictInv, Restart, WriteHead, FileFull, EvictCount,
        vars, memVars, diskVars, callVars, scanVars, ghostVars
  <1>1. CASE ReportOffline
    BY <1>1 DEF ReportOffline
  <1>2. CASE ReportOnline
    BY <1>2 DEF ReportOnline
  <1>3. CASE SendNewest
    BY <1>3 DEF SendNewest
  <1>4. CASE SaveToHistoryFile
    BY <1>4 DEF SaveToHistoryFile
  <1>5. CASE ConfirmCache
    BY <1>5 DEF ConfirmCache
  <1>6. CASE HisFileDelete
    BY <1>6 DEF HisFileDelete
  <1>7. CASE PushToStack
    BY <1>7 DEF PushToStack
  <1>8. CASE InsertOne
    BY <1>8, <1>b DEF InsertOne
  <1>9. CASE Drain
    BY <1>9 DEF Drain
  <1>10. CASE Flushed
    BY <1>10 DEF Flushed
  <1>11. CASE PeekFile
    BY <1>11 DEF PeekFile
  <1>12. CASE SendPeeked
    BY <1>12 DEF SendPeeked
  <1>13. CASE ReadHead
    BY <1>13 DEF ReadHead
  <1>14. CASE ReadStop
    BY <1>14 DEF ReadStop
  <1>15. CASE ReadIntoRam
    BY <1>15, <1>c DEF ReadIntoRam
  <1>16. CASE ReadMoveDown
    BY <1>16 DEF ReadMoveDown
  <1>17. CASE ReadEnd
    BY <1>17 DEF ReadEnd
  <1>18. CASE SaveHead
    BY <1>18 DEF SaveHead
  <1>19. CASE HisFileCreate
    BY <1>19 DEF HisFileCreate
  <1>20. CASE SaveLoop
    BY <1>20 DEF SaveLoop
  <1>21. CASE SaveFrame
    <2>1. ram # <<>> /\ ram' = Tail(ram) /\ recordNum' = recordNum + 1 /\ pc' = "saveLoop"
      BY <1>21 DEF SaveFrame
    <2>2. Len(ram') = Len(ram) - 1
      BY <2>1
    <2>3. delNum' = delNum
      BY <1>21 DEF SaveFrame
    <2> QED
      BY <1>21, <2>1, <2>2, <2>3 DEF SaveFrame
  <1>22. CASE SaveEnd
    BY <1>22 DEF SaveEnd
  <1>23. CASE EvictStop
    BY <1>23 DEF EvictStop
  <1>24. CASE EvictSkip
    BY <1>24 DEF EvictSkip
  <1>25. CASE EvictMoveDown
    <2>1. ram' = ram /\ delNum' = delNum /\ recordNum' = recordNum
      BY <1>25 DEF EvictMoveDown
    <2>2. pc' = "evict" /\ idx' = idx + 1 /\ newIdx' = newIdx + 1
      BY <1>25 DEF EvictMoveDown
    <2>3. delNum = Len(ram) /\ recordNum = HisMax /\ newIdx + delNum = idx
      BY <1>25 DEF EvictMoveDown
    <2>4. newIdx' + delNum' = idx'
      BY <2>1, <2>2, <2>3
    <2> QED
      BY <1>25, <2>1, <2>2, <2>3, <2>4
  <1>26. CASE EvictEnd
    BY <1>26 DEF EvictEnd, CopyInv
  <1>27. CASE Crash
    BY <1>27 DEF Crash
  <1>28. CASE UNCHANGED vars
    BY <1>28
  <1> QED
    BY <1>1, <1>2, <1>3, <1>4, <1>5, <1>6, <1>7, <1>8, <1>9, <1>10,
       <1>11, <1>12, <1>13, <1>14, <1>15, <1>16, <1>17, <1>18, <1>19, <1>20,
       <1>21, <1>22, <1>23, <1>24, <1>25, <1>26, <1>27, <1>28
       DEF Next, HandlerStep

\* The copying loops stop only at the last frame.
LEMMA StopsAtEnd ==
  ASSUME IInv, pc \in {"readLoop", "evict"}, ~HasFrame
  PROVE  idx = recordNum
  BY SizesAssumption
     DEF IInv, TypeOK, FileSound, ScanInv, Scanning, HasFrame, Slot

\* The copying loops only overwrite frames they have a copy of.
LEMMA CopyStep ==
  ASSUME MildFaults, SafeInv, [Next]_vars
  PROVE  CopyInv'
  <1>m. ~May("read") /\ ~May("write") /\ ~May("alloc") /\ ~May("wipe")
    BY DEF MildFaults, May
  <1>t. /\ recordNum \in Nat /\ idx \in Nat /\ newIdx \in Nat /\ count \in Nat
        /\ recordNum <= HisMax /\ newIdx <= idx
        /\ frame \in [Slot -> Record \cup {None}]
        /\ ret \in {"push", "insert", "peek", "flushed"}
    BY DEF SafeInv, IInv, TypeOK, FileSound, ScanInv
  <1>d. HasFrame => idx \in Slot /\ newIdx \in Slot /\ frame[idx] \in Record
    BY <1>t, SizesAssumption DEF HasFrame, Slot
  <1>e. \A r \in Record : ToSet(Append(ram, r)) = ToSet(ram) \cup {r}
    BY DequeContents DEF SafeInv, IInv, TypeOK
  <1>k. Kept' = {frame'[i] : i \in {j \in Slot : j < newIdx'}}
    BY DEF Kept
  <1> USE <1>m, <1>t, SizesAssumption DEF SafeInv, IInv, CopyInv, Scanning,
        Restart, WriteHead,
        vars, memVars, diskVars, callVars, scanVars, ghostVars
  <1>1. CASE ReportOffline
    BY <1>1 DEF ReportOffline
  <1>2. CASE ReportOnline
    BY <1>2 DEF ReportOnline
  <1>3. CASE SendNewest
    BY <1>3 DEF SendNewest
  <1>4. CASE SaveToHistoryFile
    BY <1>4 DEF SaveToHistoryFile
  <1>5. CASE ConfirmCache
    BY <1>5 DEF ConfirmCache
  <1>6. CASE HisFileDelete
    BY <1>6 DEF HisFileDelete
  <1>7. CASE PushToStack
    BY <1>7 DEF PushToStack
  <1>8. CASE InsertOne
    BY <1>8 DEF InsertOne
  <1>9. CASE Drain
    BY <1>9 DEF Drain
  <1>10. CASE Flushed
    BY <1>10 DEF Flushed
  <1>11. CASE PeekFile
    BY <1>11 DEF PeekFile
  <1>12. CASE SendPeeked
    BY <1>12 DEF SendPeeked
  <1>13. CASE ReadHead
    BY <1>13 DEF ReadHead, ScanInv, Slot
  <1>14. CASE ReadStop
    BY <1>14, StopsAtEnd DEF ReadStop, Kept
  <1>15. CASE ReadIntoRam
    <2>0. newIdx' = newIdx /\ frame' = frame
      BY <1>15 DEF ReadIntoRam
    <2>3. Kept' = Kept
      BY <2>0 DEF Kept
    <2>4. ram' = Append(ram, frame[idx])
      BY <1>15 DEF ReadIntoRam
    <2>5. ToSet(ram') = ToSet(ram) \cup {frame[idx]}
      BY <1>15, <1>d, <1>e, <2>4 DEF ReadIntoRam
    <2>1. Kept' = Kept /\ ToSet(ram') = ToSet(ram) \cup {frame[idx]}
      BY <2>3, <2>5
    <2>2. \A i \in Slot : i < idx' => i < idx \/ i = idx
      BY <1>15 DEF ReadIntoRam, Slot
    <2> QED
      BY <1>15, <2>1, <2>2 DEF ReadIntoRam
  <1>16. CASE ReadMoveDown
    <2>0. frame' = [frame EXCEPT ![newIdx] = frame[idx]]
          /\ idx' = idx + 1 /\ newIdx' = newIdx + 1 /\ pc' = pc
      BY <1>16 DEF ReadMoveDown
    <2>1. \A i \in Slot : i # newIdx => frame'[i] = frame[i]
      BY <2>0
    <2>2. frame'[newIdx] = frame[idx]
      BY <2>0, <1>d, <1>16 DEF ReadMoveDown
    <2>3. Kept' = Kept \cup {frame[idx]}
      <3>1. newIdx \in Slot /\ \A j \in Slot : j < newIdx' <=> j < newIdx \/ j = newIdx
        BY <2>0, <1>d, <1>16 DEF ReadMoveDown, Slot
      <3> QED
        BY <2>0, <2>1, <2>2, <1>k, <3>1 DEF Kept
    <2>4. \A i \in Slot : newIdx' <= i /\ i < idx' =>
            frame'[i] = frame[idx] \/ (newIdx <= i /\ i < idx /\ frame'[i] = frame[i])
      BY <2>0, <2>1, <2>2 DEF Slot
    <2> QED
      BY <1>16, <2>0, <2>3, <2>4 DEF ReadMoveDown
  <1>17. CASE ReadEnd
    BY <1>17 DEF ReadEnd
  <1>18. CASE SaveHead
    BY <1>18 DEF SaveHead, ScanInv, FileSound
  <1>19. CASE HisFileCreate
    BY <1>19 DEF HisFileCreate
  <1>20. CASE SaveLoop
    BY <1>20 DEF SaveLoop, ScanInv, Slot
  <1>21. CASE SaveFrame
    BY <1>21 DEF SaveFrame
  <1>22. CASE SaveEnd
    BY <1>22 DEF SaveEnd
  <1>23. CASE EvictStop
    BY <1>23, StopsAtEnd DEF EvictStop, Kept
  <1>24. CASE EvictSkip
    <2>1. Kept' = Kept /\ evicted' = evicted \cup {frame[idx]}
      BY <1>24 DEF EvictSkip, Kept
    <2>2. \A i \in Slot : i < idx' => i < idx \/ i = idx
      BY <1>24 DEF EvictSkip, Slot
    <2> QED
      BY <1>24, <2>1, <2>2 DEF EvictSkip
  <1>25. CASE EvictMoveDown
    <2>0. frame' = [frame EXCEPT ![newIdx] = frame[idx]]
          /\ idx' = idx + 1 /\ newIdx' = newIdx + 1 /\ pc' = pc
      BY <1>25 DEF EvictMoveDown
    <2>1. \A i \in Slot : i # newIdx => frame'[i] = frame[i]
      BY <2>0
    <2>2. frame'[newIdx] = frame[idx]
      BY <2>0, <1>d, <1>25 DEF EvictMoveDown
    <2>3. Kept' = Kept \cup {frame[idx]}
      <3>1. newIdx \in Slot /\ \A j \in Slot : j < newIdx' <=> j < newIdx \/ j = newIdx
        BY <2>0, <1>d, <1>25 DEF EvictMoveDown, Slot
      <3> QED
        BY <2>0, <2>1, <2>2, <1>k, <3>1 DEF Kept
    <2>4. \A i \in Slot : newIdx' <= i /\ i < idx' =>
            frame'[i] = frame[idx] \/ (newIdx <= i /\ i < idx /\ frame'[i] = frame[i])
      BY <2>0, <2>1, <2>2 DEF Slot
    <2> QED
      BY <1>25, <2>0, <2>3, <2>4 DEF EvictMoveDown
  <1>26. CASE EvictEnd
    BY <1>26 DEF EvictEnd, ScanInv
  <1>27. CASE Crash
    BY <1>27 DEF Crash
  <1>28. CASE UNCHANGED vars
    <2>1. Kept' = Kept /\ ToSet(ram') = ToSet(ram)
      BY <1>28 DEF Kept
    <2> QED
      BY <1>28, <2>1
  <1> QED
    BY <1>1, <1>2, <1>3, <1>4, <1>5, <1>6, <1>7, <1>8, <1>9, <1>10,
       <1>11, <1>12, <1>13, <1>14, <1>15, <1>16, <1>17, <1>18, <1>19, <1>20,
       <1>21, <1>22, <1>23, <1>24, <1>25, <1>26, <1>27, <1>28
       DEF Next, HandlerStep

\* Whatever the next boot would find is still there after a step, or was read
\* to RAM, or evicted.
LEMMA DurableStep ==
  ASSUME MildFaults, SafeInv, [Next]_vars
  PROVE  Durable \subseteq Durable' \cup ToSet(ram') \cup ToSet(cache') \cup evicted'
  <1>m. ~May("read") /\ ~May("write") /\ ~May("alloc") /\ ~May("wipe")
    BY DEF MildFaults, May
  <1>t. /\ recordNum \in Nat /\ idx \in Nat /\ newIdx \in Nat /\ count \in Nat
        /\ recordNum <= HisMax /\ count <= HisMax /\ newIdx <= idx
        /\ frame \in [Slot -> Record \cup {None}]
    BY DEF SafeInv, IInv, TypeOK, FileSound, ScanInv
  <1>d. HasFrame => idx \in Slot /\ newIdx \in Slot /\ frame[idx] \in Record
    BY <1>t, SizesAssumption DEF HasFrame, Slot
  <1>k. Durable' = {frame'[i] : i \in {j \in Slot : j < count'}}
    BY DEF Durable
  <1>u. UNCHANGED diskVars => Durable' = Durable
    BY DEF diskVars, Durable
  <1>z. count = 0 => Durable = {}
    BY DEF Durable, Slot
  <1> USE <1>m, <1>t, SizesAssumption DEF WriteHead
  <1>1. CASE ReportOffline
    BY <1>1, <1>u DEF ReportOffline
  <1>2. CASE ReportOnline
    BY <1>2, <1>u DEF ReportOnline
  <1>3. CASE SendNewest
    BY <1>3, <1>u DEF SendNewest
  <1>4. CASE SaveToHistoryFile
    BY <1>4, <1>u DEF SaveToHistoryFile
  <1>5. CASE ConfirmCache
    BY <1>5, <1>u DEF ConfirmCache
  <1>6. CASE HisFileDelete
    BY <1>6 DEF HisFileDelete
  <1>7. CASE PushToStack
    BY <1>7, <1>u DEF PushToStack
  <1>8. CASE InsertOne
    BY <1>8, <1>u DEF InsertOne
  <1>9. CASE Drain
    BY <1>9, <1>u DEF Drain
  <1>10. CASE Flushed
    BY <1>10, <1>u DEF Flushed, Restart, diskVars
  <1>11. CASE PeekFile
    BY <1>11, <1>u DEF PeekFile
  <1>12. CASE SendPeeked
    BY <1>12, <1>u DEF SendPeeked
  <1>13. CASE ReadHead
    BY <1>13, <1>u DEF ReadHead
  <1>14. CASE ReadStop
    BY <1>14, <1>u DEF ReadStop
  <1>15. CASE ReadIntoRam
    BY <1>15, <1>u DEF ReadIntoRam
  <1>16. CASE ReadMoveDown
    <2>1. CASE pc' = pc
      <3>1. \A i \in Slot : i # newIdx => frame'[i] = frame[i]
        BY <1>16, <2>1, <1>d DEF ReadMoveDown
      <3>2. count' = count
        BY <1>16 DEF ReadMoveDown
      <3>3. newIdx < idx => frame[newIdx] \in ToSet(ram) \cup Kept
        BY <1>16, <1>d DEF ReadMoveDown, SafeInv, CopyInv
      <3>4. Kept \subseteq {frame'[i] : i \in {j \in Slot : j < newIdx}}
        BY <3>1 DEF Kept
      <3>5. newIdx = idx => frame' = frame
        BY <1>16, <2>1, <1>d DEF ReadMoveDown
      <3>6. ToSet(ram)' = ToSet(ram)
        BY <1>16 DEF ReadMoveDown, memVars, ghostVars
      <3>7. CASE newIdx >= count
        BY <3>1, <3>2, <3>7, <1>k DEF Durable
      <3>8. CASE newIdx < count
        BY <3>1, <3>2, <3>3, <3>4, <3>5, <3>6, <3>8, <1>k DEF Durable, Slot
      <3> QED
        BY <3>7, <3>8
    <2>2. CASE UNCHANGED frame
      BY <1>16, <2>2, <1>u DEF ReadMoveDown, diskVars
    <2> QED
      BY <1>16, <2>1, <2>2 DEF ReadMoveDown
  <1>17. CASE ReadEnd
    <2>1. \A i \in Slot : i < count => i < newIdx \/ (newIdx <= i /\ i < idx)
      BY <1>17 DEF ReadEnd, SafeInv, CopyInv, Slot
    <2>2. Durable \subseteq ToSet(ram) \cup Kept
      BY <1>17, <2>1 DEF ReadEnd, SafeInv, CopyInv, Durable, Kept
    <2>3. Kept \subseteq Durable'
      BY <1>17, <1>k DEF ReadEnd, Kept
    <2>4. ToSet(ram)' = ToSet(ram)
      BY <1>17 DEF ReadEnd, ghostVars
    <2> QED
      BY <2>2, <2>3, <2>4
  <1>18. CASE SaveHead
    BY <1>18, <1>u, <1>z DEF SaveHead, SafeInv, IInv, FileSound
  <1>19. CASE HisFileCreate
    BY <1>19, <1>z DEF HisFileCreate, SafeInv, IInv, ScanInv
  <1>20. CASE SaveLoop
    BY <1>20, <1>u DEF SaveLoop
  <1>21. CASE SaveFrame
    <2>1. \A i \in Slot : i < count => frame'[i] = frame[i]
      BY <1>21 DEF SaveFrame, SafeInv, CopyInv, Slot
    <2>2. count' = count
      BY <1>21 DEF SaveFrame
    <2> QED
      BY <2>1, <2>2, <1>k DEF Durable
  <1>22. CASE SaveEnd
    <2>1. frame' = frame /\ count <= count' /\ count' \in Nat
      BY <1>22 DEF SaveEnd, SafeInv, CopyInv
    <2> QED
      BY <2>1, <1>k DEF Durable, Slot
  <1>23. CASE EvictStop
    BY <1>23, <1>u DEF EvictStop
  <1>24. CASE EvictSkip
    BY <1>24, <1>u DEF EvictSkip
  <1>25. CASE EvictMoveDown
    <2>1. CASE pc' = pc
      <3>1. \A i \in Slot : i # newIdx => frame'[i] = frame[i]
        BY <1>25, <2>1, <1>d DEF EvictMoveDown
      <3>2. count' = count
        BY <1>25 DEF EvictMoveDown
      <3>3. newIdx < idx => frame[newIdx] \in evicted \cup Kept
        BY <1>25, <1>d DEF EvictMoveDown, SafeInv, CopyInv
      <3>4. Kept \subseteq {frame'[i] : i \in {j \in Slot : j < newIdx}}
        BY <3>1 DEF Kept
      <3>5. newIdx = idx => frame' = frame
        BY <1>25, <2>1, <1>d DEF EvictMoveDown
      <3>6. evicted' = evicted
        BY <1>25 DEF EvictMoveDown, memVars, ghostVars
      <3>7. CASE newIdx >= count
        BY <3>1, <3>2, <3>7, <1>k DEF Durable
      <3>8. CASE newIdx < count
        BY <3>1, <3>2, <3>3, <3>4, <3>5, <3>6, <3>8, <1>k DEF Durable, Slot
      <3> QED
        BY <3>7, <3>8
    <2>2. CASE UNCHANGED frame
      BY <1>25, <2>2, <1>u DEF EvictMoveDown, diskVars
    <2> QED
      BY <1>25, <2>1, <2>2 DEF EvictMoveDown
  <1>26. CASE EvictEnd
    <2>1. \A i \in Slot : i < count => i < newIdx \/ (newIdx <= i /\ i < idx)
      BY <1>26 DEF EvictEnd, SafeInv, CopyInv, Slot
    <2>2. Durable \subseteq evicted \cup Kept
      BY <1>26, <2>1 DEF EvictEnd, SafeInv, CopyInv, Durable, Kept
    <2>3. Kept \subseteq Durable'
      BY <1>26, <1>k DEF EvictEnd, Kept
    <2>4. evicted' = evicted
      BY <1>26 DEF EvictEnd, ghostVars
    <2> QED
      BY <2>2, <2>3, <2>4
  <1>27. CASE Crash
    BY <1>27, <1>u DEF Crash, Restart, diskVars
  <1>28. CASE UNCHANGED vars
    BY <1>28, <1>u DEF vars
  <1> QED
    BY <1>1, <1>2, <1>3, <1>4, <1>5, <1>6, <1>7, <1>8, <1>9, <1>10,
       <1>11, <1>12, <1>13, <1>14, <1>15, <1>16, <1>17, <1>18, <1>19, <1>20,
       <1>21, <1>22, <1>23, <1>24, <1>25, <1>26, <1>27, <1>28
       DEF Next, HandlerStep

\* A step keeps every record that is stored or accounted for, and the record
\* it reports is one of them.
LEMMA ConservationStep ==
  ASSUME MildFaults, SafeInv, Conservation, [Next]_vars
  PROVE  Conservation'
  <1> DEFINE All == Stored \cup confirmed \cup evicted \cup lost
  <1>m. ~May("read") /\ ~May("write") /\ ~May("alloc") /\ ~May("wipe")
    BY DEF MildFaults, May
  <1>t. /\ recordNum \in Nat /\ idx \in Nat /\ newIdx \in Nat /\ count \in Nat
        /\ recordNum <= HisMax /\ count <= HisMax /\ newIdx <= idx
        /\ frame \in [Slot -> Record \cup {None}]
        /\ produced \in Nat /\ inHand \in Record \cup {None}
        /\ ret \in {"push", "insert", "peek", "flushed"}
    BY DEF SafeInv, IInv, TypeOK, FileSound, ScanInv
  <1>d. HasFrame => idx \in Slot /\ newIdx \in Slot /\ frame[idx] \in Record
    BY <1>t, SizesAssumption DEF HasFrame, Slot
  <1>r. /\ ToSet(<<>>) = {}
        /\ \A x \in Record : ToSet(Append(ram, x)) = ToSet(ram) \cup {x}
        /\ \A x \in Record : ToSet(Append(cache, x)) = ToSet(cache) \cup {x}
        /\ ram # <<>> => /\ ToSet(ram) = ToSet(Tail(ram)) \cup {Head(ram)}
                        /\ ToSet(ram) = ToSet(Front(ram)) \cup {Last(ram)}
        /\ cache # <<>> => ToSet(cache) = ToSet(Tail(cache)) \cup {Head(cache)}
    BY DequeContents DEF SafeInv, IInv, TypeOK
  <1>e. /\ ram # <<>> => Head(ram) \in Record /\ Last(ram) \in Record
        /\ cache # <<>> => Head(cache) \in Record
    BY DequeEnds DEF SafeInv, IInv, TypeOK
  <1>s. Stored' = ToSet(ram') \cup ToSet(cache') \cup InFile' \cup InHand'
    BY DEF Stored
  <1>f. InFile' = {frame'[i] : i \in LiveSlots'}
    BY DEF InFile
  <1>h. InHand' = {inHand'} \ {None}
    BY DEF InHand
  <1>n. (produced' = produced /\ All \subseteq All') => Conservation'
    BY DEF Conservation
  <1>p. (produced' = produced + 1 /\ produced' \in All' /\ All \subseteq All') => Conservation'
    <2> SUFFICES ASSUME produced' = produced + 1, produced' \in All', All \subseteq All'
                 PROVE  Conservation'
      OBVIOUS
    <2>1. \A r \in 1 .. produced' : r \in 1 .. produced \/ r = produced'
      BY <1>t
    <2> QED
      BY <2>1 DEF Conservation
  <1> DEFINE Copying == {"readLoop", "readEnd", "evict", "evictEnd"}
             Appending == {"saveLoop", "saveFrame", "saveEnd"}
  <1>q. ASSUME pc \notin Copying \cup Appending, pc' \notin Copying \cup Appending,
               UNCHANGED diskVars
        PROVE  InFile' = InFile
    BY <1>q DEF LiveSlots, InFile, diskVars
  <1>1. CASE ReportOffline
    <2>1. InFile' = InFile
      BY <1>1, <1>q DEF ReportOffline, diskVars, callVars
    <2>2. produced' \in Record /\ produced' # None
      BY <1>1, <1>t, SizesAssumption DEF ReportOffline, Record, None
    <2>3. inHand = None
      BY <1>1 DEF ReportOffline, SafeInv, IInv, CallInv, FlowInv, Caller, Saving, Reading
    <2>4. produced' \in ToSet(cache') \cup InHand' /\ UNCHANGED <<ram, confirmed, evicted, lost>>
      BY <1>1, <2>2, <1>h, <1>r DEF ReportOffline, memVars
    <2>5. ToSet(cache) \subseteq ToSet(cache') /\ InHand = {}
      BY <1>1, <2>2, <2>3, <1>r DEF ReportOffline, InHand, memVars
    <2>6. produced' = produced + 1
      BY <1>1 DEF ReportOffline
    <2>7. produced' \in All' /\ All \subseteq All'
      BY <2>1, <2>4, <2>5, <1>s DEF Stored
    <2> QED
      BY <2>6, <2>7, <1>p
  <1>2. CASE ReportOnline
    <2>1. InFile' = InFile
      BY <1>2, <1>q DEF ReportOnline, diskVars, callVars
    <2>2. produced' \in Record /\ produced' # None
      BY <1>2, <1>t, SizesAssumption DEF ReportOnline, Record, None
    <2>3. inHand = None
      BY <1>2 DEF ReportOnline, SafeInv, IInv, CallInv, FlowInv, Caller, Saving, Reading
    <2>4. produced' \in ToSet(cache') \cup InHand' /\ UNCHANGED <<ram, confirmed, evicted, lost>>
      BY <1>2, <2>2, <1>h, <1>r DEF ReportOnline, memVars
    <2>5. ToSet(cache) \subseteq ToSet(cache') /\ InHand = {}
      BY <1>2, <2>2, <2>3, <1>r DEF ReportOnline, InHand, memVars
    <2>6. produced' = produced + 1
      BY <1>2 DEF ReportOnline
    <2>7. produced' \in All' /\ All \subseteq All'
      BY <2>1, <2>4, <2>5, <1>s DEF Stored
    <2> QED
      BY <2>6, <2>7, <1>p
  <1>3. CASE SendNewest
    <2>1. InFile' = InFile
      BY <1>3, <1>q DEF SendNewest, diskVars, callVars
    <2> QED
      BY <1>3, <2>1, <1>s, <1>h, <1>r, <1>e, <1>t, <1>n DEF SendNewest, Stored, InHand, None, memVars, ghostVars, callVars
  <1>4. CASE SaveToHistoryFile
    <2>1. InFile' = InFile
      BY <1>4, <1>q DEF SaveToHistoryFile, diskVars
    <2>2. UNCHANGED <<ram, cache, inHand, produced, confirmed, evicted, lost>>
      BY <1>4 DEF SaveToHistoryFile, memVars, ghostVars
    <2> QED
      BY <2>1, <2>2, <1>s, <1>h, <1>n DEF Stored, InHand
  <1>5. CASE ConfirmCache
    <2>1. InFile' = InFile
      BY <1>5, <1>q DEF ConfirmCache, diskVars, callVars
    <2> QED
      BY <1>5, <2>1, <1>s, <1>h, <1>r, <1>e, <1>t, <1>n DEF ConfirmCache, Stored, InHand, None, memVars, ghostVars, callVars
  <1>6. CASE HisFileDelete
    BY <1>6, <1>m DEF HisFileDelete
  <1>7. CASE PushToStack
    <2>1. InFile' = InFile
      BY <1>7, <1>q DEF PushToStack, diskVars, callVars
    <2> QED
      BY <1>7, <2>1, <1>s, <1>h, <1>r, <1>e, <1>t, <1>n DEF PushToStack, Stored, InHand, None, memVars, ghostVars, callVars
  <1>8. CASE InsertOne
    <2>1. InFile' = InFile
      BY <1>8, <1>q DEF InsertOne, diskVars
    <2>2. Len(ram) < RamMax /\ ram' = Append(ram, Pushed)
      BY <1>8, <1>m DEF InsertOne, SafeInv, FlowInv
    <2>3. Pushed \in Record
      BY <1>8, <1>e DEF InsertOne, Pushed, SafeInv, IInv, CallInv, Caller, Saving, Reading
    <2>4. ToSet(ram') = ToSet(ram) \cup {Pushed}
      BY <2>2, <2>3, <1>r
    <2>5. ToSet(cache) \cup InHand \subseteq ToSet(ram') \cup ToSet(cache') \cup InHand'
      BY <1>8, <2>4, <1>r, <1>e, <1>h DEF InsertOne, Pushed, InHand, SafeInv, IInv, CallInv, Caller, Saving, Reading
    <2> QED
      BY <1>8, <2>1, <2>4, <2>5, <1>s, <1>n DEF InsertOne, Stored, ghostVars
  <1>9. CASE Drain
    <2>1. InFile' = InFile
      BY <1>9, <1>q DEF Drain, diskVars, callVars
    <2> QED
      BY <1>9, <2>1, <1>s, <1>h, <1>r, <1>e, <1>t, <1>n DEF Drain, Stored, InHand, None, memVars, ghostVars, callVars
  <1>10. CASE Flushed
    <2>1. InFile' = InFile
      BY <1>10, <1>q DEF Flushed, Restart, diskVars
    <2>2. ram = <<>> /\ cache = <<>> /\ (after = "reboot" => inHand = None)
      BY <1>10 DEF Flushed, SafeInv, FlowInv, Caller, Saving, Reading
    <2> QED
      BY <1>10, <2>1, <2>2, <1>s, <1>h, <1>r, <1>n DEF Flushed, Restart, Stored, InHand, memVars, ghostVars
  <1>11. CASE PeekFile
    <2>1. InFile' = InFile
      BY <1>11, <1>q DEF PeekFile, diskVars, callVars
    <2> QED
      BY <1>11, <2>1, <1>s, <1>h, <1>r, <1>e, <1>t, <1>n DEF PeekFile, Stored, InHand, None, memVars, ghostVars, callVars
  <1>12. CASE SendPeeked
    <2>1. InFile' = InFile
      BY <1>12, <1>q DEF SendPeeked, diskVars
    <2>2. UNCHANGED <<inHand, produced, confirmed, evicted, lost>>
      BY <1>12 DEF SendPeeked, ghostVars
    <2>3. ToSet(ram) \cup ToSet(cache) \subseteq ToSet(ram') \cup ToSet(cache')
      BY <1>12, <1>r, <1>e DEF SendPeeked
    <2> QED
      BY <2>1, <2>2, <2>3, <1>s, <1>h, <1>n DEF Stored, InHand
  <1>13. CASE ReadHead
    <2>0. InFile \subseteq InFile'
      BY <1>13, <1>m, <1>f, <1>t, <1>d DEF ReadHead, InFile, LiveSlots, SafeInv, IInv, ScanInv, FileSound, Scanning, CopyInv, memVars, scanVars, diskVars, Slot
    <2> QED
      BY <1>13, <2>0, <1>s, <1>h, <1>r, <1>n DEF ReadHead, Stored, InHand, memVars, ghostVars
  <1>14. CASE ReadStop
    <2>0. InFile \subseteq InFile'
      BY <1>14, <1>m, <1>f, <1>t, <1>d, StopsAtEnd DEF ReadStop, InFile, LiveSlots, SafeInv, IInv, ScanInv, FileSound, Scanning, CopyInv, memVars, scanVars, diskVars, Slot, HasFrame
    <2> QED
      BY <1>14, <2>0, <1>s, <1>h, <1>r, <1>n DEF ReadStop, Stored, InHand, memVars, ghostVars
  <1>15. CASE ReadIntoRam
    <2>1. \A i \in LiveSlots : i = idx \/ i \in LiveSlots'
      BY <1>15, <1>t DEF ReadIntoRam, LiveSlots, callVars, Slot
    <2>2. InFile \subseteq InFile' \cup {frame[idx]} /\ ToSet(ram') = ToSet(ram) \cup {frame[idx]}
      BY <1>15, <2>1, <1>f, <1>m, <1>d, <1>r DEF ReadIntoRam, InFile, diskVars
    <2> QED
      BY <1>15, <2>2, <1>s, <1>h, <1>n DEF ReadIntoRam, Stored, InHand, callVars, ghostVars
  <1>16. CASE ReadMoveDown
    <2>1. /\ frame' = [frame EXCEPT ![newIdx] = frame[idx]]
          /\ idx' = idx + 1 /\ newIdx' = newIdx + 1 /\ pc' = pc /\ recordNum' = recordNum
      BY <1>16, <1>m DEF ReadMoveDown, memVars
    <2>2. newIdx \in LiveSlots' /\ frame'[newIdx] = frame[idx]
      BY <1>16, <2>1, <1>d, <1>t DEF ReadMoveDown, LiveSlots, Slot
    <2>3. \A i \in LiveSlots : i = idx \/ (i \in LiveSlots' /\ frame'[i] = frame[i])
      BY <1>16, <2>1, <1>d, <1>t DEF ReadMoveDown, LiveSlots, Slot
    <2>0. InFile \subseteq InFile'
      BY <2>2, <2>3, <1>f DEF InFile
    <2> QED
      BY <1>16, <2>0, <1>s, <1>h, <1>r, <1>n DEF ReadMoveDown, Stored, InHand, memVars, ghostVars
  <1>17. CASE ReadEnd
    <2>1. /\ count' = newIdx /\ pc' = ret /\ frame' = frame /\ pc = "readEnd"
          /\ ret \in {"push", "peek"} /\ idx = recordNum
      BY <1>17, <1>m DEF ReadEnd, WriteHead, SafeInv, CopyInv, FlowInv, Reading
    <2>2. LiveSlots = {i \in Slot : i < newIdx}
      BY <2>1, <1>t DEF LiveSlots, Slot
    <2>3. LiveSlots' = {i \in Slot : i < newIdx}
      BY <2>1 DEF LiveSlots
    <2>4. InFile' = InFile
      BY <2>1, <2>2, <2>3, <1>f DEF InFile
    <2> QED
      BY <1>17, <2>4, <1>s, <1>h, <1>n DEF ReadEnd, Stored, InHand, ghostVars
  <1>18. CASE SaveHead
    <2>1. fileOk => InFile \subseteq InFile'
      <3> SUFFICES ASSUME fileOk PROVE InFile \subseteq InFile'
        OBVIOUS
      <3>1. frame' = frame /\ recordNum' = count /\ pc' = "saveLoop" /\ pc = "saveHead"
        BY <1>18, <1>m DEF SaveHead, diskVars
      <3>2. LiveSlots = {i \in Slot : i < count} /\ LiveSlots' = {i \in Slot : i < count}
        BY <3>1 DEF LiveSlots
      <3> QED
        BY <3>1, <3>2, <1>f DEF InFile
    <2>2. ~fileOk => InFile \subseteq InFile'
      <3> SUFFICES ASSUME ~fileOk PROVE InFile \subseteq InFile'
        OBVIOUS
      <3>1. count = 0 /\ pc = "saveHead"
        BY <1>18 DEF SaveHead, SafeInv, IInv, FileSound
      <3> QED
        BY <3>1 DEF InFile, LiveSlots, Slot
    <2>0. InFile \subseteq InFile'
      BY <2>1, <2>2
    <2> QED
      BY <1>18, <2>0, <1>s, <1>h, <1>n DEF SaveHead, Stored, InHand, ghostVars
  <1>19. CASE HisFileCreate
    <2>0. InFile \subseteq InFile'
      BY <1>19, <1>m, <1>f, <1>t, <1>d DEF HisFileCreate, InFile, LiveSlots, SafeInv, IInv, ScanInv, FileSound, Scanning, CopyInv, memVars, scanVars, diskVars, Slot
    <2> QED
      BY <1>19, <2>0, <1>s, <1>h, <1>r, <1>n DEF HisFileCreate, Stored, InHand, memVars, ghostVars
  <1>20. CASE SaveLoop
    <2>0. InFile \subseteq InFile'
      BY <1>20, <1>m, <1>f, <1>t, <1>d DEF SaveLoop, InFile, LiveSlots, SafeInv, IInv, ScanInv, FileSound, Scanning, CopyInv, memVars, scanVars, diskVars, Slot
    <2> QED
      BY <1>20, <2>0, <1>s, <1>h, <1>r, <1>n DEF SaveLoop, Stored, InHand, memVars, ghostVars
  <1>21. CASE SaveFrame
    <2>1. /\ frame' = [frame EXCEPT ![recordNum] = Head(ram)]
          /\ recordNum' = recordNum + 1 /\ pc' = "saveLoop" /\ ram' = Tail(ram)
          /\ ram # <<>> /\ recordNum \in Slot
      BY <1>21, <1>m, <1>t, SizesAssumption DEF SaveFrame, SafeInv, IInv, ScanInv, FileSound, Slot
    <2>2. recordNum \in LiveSlots' /\ frame'[recordNum] = Head(ram)
      BY <1>21, <2>1, <1>t DEF LiveSlots
    <2>3. \A i \in LiveSlots : i \in LiveSlots' /\ frame'[i] = frame[i]
      BY <1>21, <2>1, <1>t DEF SaveFrame, LiveSlots, Slot
    <2>4. InFile \cup {Head(ram)} \subseteq InFile'
      BY <2>2, <2>3, <1>f DEF InFile
    <2>0. InFile \subseteq InFile' /\ ToSet(ram) \subseteq ToSet(ram') \cup InFile'
      BY <2>1, <2>4, <1>r
    <2> QED
      BY <1>21, <2>0, <1>s, <1>h, <1>r, <1>n DEF SaveFrame, Stored, InHand, memVars, ghostVars
  <1>22. CASE SaveEnd
    <2>0. InFile \subseteq InFile'
      BY <1>22, <1>m, <1>f, <1>t, <1>d DEF SaveEnd, InFile, LiveSlots, SafeInv, IInv, ScanInv, FileSound, Scanning, CopyInv, memVars, scanVars, diskVars, Slot, WriteHead
    <2> QED
      BY <1>22, <2>0, <1>s, <1>h, <1>r, <1>n DEF SaveEnd, Stored, InHand, memVars, ghostVars
  <1>23. CASE EvictStop
    <2>0. InFile \subseteq InFile'
      BY <1>23, <1>m, <1>f, <1>t, <1>d, StopsAtEnd DEF EvictStop, InFile, LiveSlots, SafeInv, IInv, ScanInv, FileSound, Scanning, CopyInv, memVars, scanVars, diskVars, Slot, HasFrame
    <2> QED
      BY <1>23, <2>0, <1>s, <1>h, <1>r, <1>n DEF EvictStop, Stored, InHand, memVars, ghostVars
  <1>24. CASE EvictSkip
    <2>1. \A i \in LiveSlots : i = idx \/ i \in LiveSlots'
      BY <1>24, <1>t DEF EvictSkip, LiveSlots, callVars, memVars, Slot
    <2>2. InFile \subseteq InFile' \cup {frame[idx]}
      BY <1>24, <2>1, <1>f DEF EvictSkip, InFile, diskVars
    <2> QED
      BY <1>24, <2>2, <1>s, <1>h, <1>n DEF EvictSkip, Stored, InHand, callVars, memVars
  <1>25. CASE EvictMoveDown
    <2>1. /\ frame' = [frame EXCEPT ![newIdx] = frame[idx]]
          /\ idx' = idx + 1 /\ newIdx' = newIdx + 1 /\ pc' = pc /\ recordNum' = recordNum
      BY <1>25, <1>m DEF EvictMoveDown, memVars
    <2>2. newIdx \in LiveSlots' /\ frame'[newIdx] = frame[idx]
      BY <1>25, <2>1, <1>d, <1>t DEF EvictMoveDown, LiveSlots, Slot
    <2>3. \A i \in LiveSlots : i = idx \/ (i \in LiveSlots' /\ frame'[i] = frame[i])
      BY <1>25, <2>1, <1>d, <1>t DEF EvictMoveDown, LiveSlots, Slot
    <2>0. InFile \subseteq InFile'
      BY <2>2, <2>3, <1>f DEF InFile
    <2> QED
      BY <1>25, <2>0, <1>s, <1>h, <1>r, <1>n DEF EvictMoveDown, Stored, InHand, memVars, ghostVars
  <1>26. CASE EvictEnd
    <2>0. InFile \subseteq InFile'
      BY <1>26, <1>m, <1>f, <1>t, <1>d DEF EvictEnd, InFile, LiveSlots, SafeInv, IInv, ScanInv, FileSound, Scanning, CopyInv, memVars, scanVars, diskVars, Slot, WriteHead
    <2> QED
      BY <1>26, <2>0, <1>s, <1>h, <1>r, <1>n DEF EvictEnd, Stored, InHand, memVars, ghostVars
  <1>27. CASE Crash
    <2>1. InFile' = Durable
      BY <1>27, <1>f DEF Crash, Restart, LiveSlots, diskVars, Durable
    <2>2. Durable \subseteq Stored' /\ lost' = lost \cup (Stored \ Durable)
      BY <1>27, <2>1, <1>s DEF Crash
    <2> QED
      BY <1>27, <2>2, <1>n DEF Crash, Restart
  <1>28. CASE UNCHANGED vars
    <2>1. LiveSlots' = LiveSlots
      BY <1>28 DEF vars, LiveSlots, callVars, scanVars, memVars, diskVars
    <2> QED
      BY <1>28, <2>1, <1>s, <1>f, <1>h, <1>n DEF Stored, InFile, InHand, vars, memVars, diskVars, callVars, ghostVars
  <1> QED
    BY <1>1, <1>2, <1>3, <1>4, <1>5, <1>6, <1>7, <1>8, <1>9, <1>10,
       <1>11, <1>12, <1>13, <1>14, <1>15, <1>16, <1>17, <1>18, <1>19, <1>20,
       <1>21, <1>22, <1>23, <1>24, <1>25, <1>26, <1>27, <1>28
       DEF Next, HandlerStep

\* SafeInv holds when the device boots for the first time, whatever may fail.
LEMMA InitSafe == Init => SafeInv
  <1> SUFFICES ASSUME Init PROVE SafeInv
    OBVIOUS
  <1>1. IInv
    BY InitIInv
  <1>2. Len(ram) = 0
    BY DEF Init
  <1> QED
    BY <1>1, <1>2, SizesAssumption
       DEF Init, SafeInv, CopyInv, FlowInv, EvictInv, Caller, Saving, Reading

\* While only power and sends fail, no step breaks SafeInv.
LEMMA SafeStep ==
  ASSUME MildFaults, SafeInv, [Next]_vars
  PROVE  SafeInv'
  <1>1. IInv'
    BY TypeStep, FileStep, CallStep, ScanStep DEF IInv, SafeInv
  <1> QED
    BY <1>1, FlowStep, EvictStep, CopyStep DEF SafeInv

\* While only power and sends fail, SafeInv is an inductive invariant.
THEOREM SafeInvariance ==
  ASSUME MildFaults
  PROVE  Spec => []SafeInv
  <1>1. SafeInv /\ [Next]_vars => SafeInv'
    BY SafeStep
  <1> QED
    BY InitSafe, <1>1, PTL DEF Spec

\* A save that evicts makes exactly the room it needs.
THEOREM EvictionIsTight ==
  ASSUME MildFaults
  PROVE  Spec => []EvictionTight
  <1>1. SafeInv => EvictionTight
    <2> SUFFICES ASSUME SafeInv, pc = "saveEnd"
                 PROVE  ram = <<>> /\ (delNum > 0 => recordNum = HisMax)
      BY DEF EvictionTight
    <2>1. ram = <<>> /\ Len(ram) = 0
      BY DEF SafeInv, FlowInv
    <2> QED
      BY <2>1 DEF SafeInv, EvictInv, IInv, TypeOK
  <1> QED
    BY SafeInvariance, <1>1, PTL

\* No crash, at any point of any file operation, costs a record the file held.
THEOREM NoDurableRecordLost ==
  ASSUME MildFaults
  PROVE  Spec => NoDurableLoss
  <1>1. SafeInv /\ [Next]_vars
          => [Durable \subseteq Durable' \cup ToSet(ram') \cup ToSet(cache')
                                \cup evicted']_vars
    BY DurableStep
  <1> QED
    BY SafeInvariance, <1>1, PTL DEF Spec, NoDurableLoss

\* Every reported record is stored, confirmed, evicted, or was in RAM when
\* power failed.
THEOREM RecordsConserved ==
  ASSUME MildFaults
  PROVE  Spec => []Conservation
  <1>1. Init => Conservation
    BY DEF Init, Conservation
  <1>2. SafeInv /\ Conservation /\ [Next]_vars => Conservation'
    BY ConservationStep
  <1> QED
    BY SafeInvariance, <1>1, <1>2, PTL DEF Spec

-----------------------------------------------------------------------------
(* Without faults: each record is in one place, and the store promises     *)
(* what RecordStore does.                                                  *)

\* A deque that holds each record once still does when a new one is appended or one
\* end is removed, and what was removed is not in it any more.
LEMMA DequeOnce ==
  ASSUME NEW S, NEW s \in Seq(S), IsInjective(s)
  PROVE  /\ \A x \in S : x \notin ToSet(s) => IsInjective(Append(s, x))
         /\ s # <<>> => IsInjective(Tail(s)) /\ Head(s) \notin ToSet(Tail(s))
         /\ s # <<>> => IsInjective(Front(s)) /\ Last(s) \notin ToSet(Front(s))
  <1>0. DOMAIN s = 1 .. Len(s) /\ Len(s) \in Nat
    BY LenProperties
  <1>1. ASSUME NEW x \in S, x \notin ToSet(s) PROVE IsInjective(Append(s, x))
    <2>1. /\ DOMAIN Append(s, x) = 1 .. Len(s) + 1
          /\ \A i \in 1 .. Len(s) : Append(s, x)[i] = s[i]
          /\ Append(s, x)[Len(s) + 1] = x
      BY AppendProperties, LenProperties
    <2>2. \A i \in 1 .. Len(s) : s[i] # x
      BY <1>0, <1>1 DEF ToSet
    <2>3. \A i \in 1 .. Len(s) + 1 : i = Len(s) + 1 \/ i \in 1 .. Len(s)
      BY <1>0
    <2> QED
      BY <1>0, <2>1, <2>2, <2>3 DEF IsInjective
  <1>2. ASSUME s # <<>> PROVE IsInjective(Tail(s)) /\ Head(s) \notin ToSet(Tail(s))
    <2>1. /\ Len(s) \in Nat \ {0}
          /\ DOMAIN Tail(s) = 1 .. Len(s) - 1
          /\ \A i \in 1 .. Len(s) - 1 : Tail(s)[i] = s[i + 1]
          /\ Head(s) = s[1]
      BY <1>2, HeadTailProperties, LenProperties, EmptySeq
    <2>2. \A i \in 1 .. Len(s) - 1 : i + 1 \in 1 .. Len(s) /\ i + 1 # 1
      BY <2>1
    <2>3. 1 \in 1 .. Len(s)
      BY <2>1
    <2>4. \A i, j \in 1 .. Len(s) - 1 : i + 1 = j + 1 => i = j
      OBVIOUS
    <2>5. IsInjective(Tail(s))
      BY <1>0, <2>1, <2>2, <2>4 DEF IsInjective
    <2>6. \A i \in 1 .. Len(s) - 1 : Tail(s)[i] # s[1]
      BY <1>0, <2>1, <2>2, <2>3 DEF IsInjective
    <2> QED
      BY <2>1, <2>5, <2>6 DEF ToSet
  <1>3. ASSUME s # <<>> PROVE IsInjective(Front(s)) /\ Last(s) \notin ToSet(Front(s))
    <2>1. /\ Len(s) \in Nat \ {0}
          /\ DOMAIN Front(s) = 1 .. Len(s) - 1
          /\ \A i \in 1 .. Len(s) - 1 : Front(s)[i] = s[i]
          /\ Last(s) = s[Len(s)]
      BY <1>3, LenProperties, EmptySeq DEF Front, Last
    <2>2. \A i \in 1 .. Len(s) - 1 : i \in 1 .. Len(s) /\ i # Len(s)
      BY <2>1
    <2>3. Len(s) \in 1 .. Len(s)
      BY <2>1
    <2>4. IsInjective(Front(s))
      BY <1>0, <2>1, <2>2 DEF IsInjective
    <2>5. \A i \in 1 .. Len(s) - 1 : Front(s)[i] # s[Len(s)]
      BY <1>0, <2>1, <2>2, <2>3 DEF IsInjective
    <2> QED
      BY <2>1, <2>4, <2>5 DEF ToSet
  <1> QED
    BY <1>1, <1>2, <1>3

\* The record a slot has is in the file, and no other slot has it.
FileOnce == \A i, j \in LiveSlots : frame[i] = frame[j] => i = j

\* What a copying loop has at hand is a live frame, which it gives up or moves down to a
\* slot that is not live, or its own.
LEMMA LiveFrame ==
  ASSUME SafeInv, pc \in {"readLoop", "evict"}, HasFrame
  PROVE  /\ idx \in LiveSlots /\ idx \in Slot /\ newIdx \in Slot
         /\ frame[idx] \in Record /\ frame[idx] # None
         /\ newIdx = idx \/ newIdx \notin LiveSlots
         /\ LiveSlots \ {idx} = {i \in Slot : i < newIdx \/ (idx + 1 <= i /\ i < recordNum)}
         /\ (LiveSlots \ {idx}) \cup {newIdx}
              = {i \in Slot : i < newIdx + 1 \/ (idx + 1 <= i /\ i < recordNum)}
  <1>1. /\ recordNum \in Nat /\ idx \in Nat /\ newIdx \in Nat /\ recordNum <= HisMax
        /\ newIdx <= idx /\ idx < recordNum /\ HisMax \in Nat
        /\ frame \in [Slot -> Record \cup {None}] /\ frame[idx] # None
    BY SizesAssumption DEF SafeInv, IInv, TypeOK, FileSound, ScanInv, HasFrame
  <1>2. idx \in Slot /\ newIdx \in Slot
    BY <1>1 DEF Slot
  <1>3. LiveSlots = {i \in Slot : i < newIdx \/ (idx <= i /\ i < recordNum)}
    BY DEF LiveSlots
  <1>4. \A i \in Slot : i \in Nat
    BY <1>1 DEF Slot
  <1>5. idx \in LiveSlots /\ (newIdx = idx \/ newIdx \notin LiveSlots)
    BY <1>1, <1>2, <1>3
  <1>6. \A i \in Slot : (i < newIdx \/ (idx <= i /\ i < recordNum)) /\ i # idx
                          <=> (i < newIdx \/ (idx + 1 <= i /\ i < recordNum))
    BY <1>1, <1>4
  <1>7. \A i \in Slot :
          ((i < newIdx \/ (idx <= i /\ i < recordNum)) /\ i # idx) \/ i = newIdx
            <=> (i < newIdx + 1 \/ (idx + 1 <= i /\ i < recordNum))
    BY <1>1, <1>4
  <1> QED
    BY <1>1, <1>2, <1>3, <1>5, <1>6, <1>7

\* The live frames, whatever happens to them: nothing, one is taken, one is put, or one is
\* moved.
LEMMA FramesKept ==
  ASSUME FileOnce, LiveSlots' = LiveSlots, \A i \in LiveSlots : frame'[i] = frame[i]
  PROVE  FileOnce' /\ InFile' = InFile
  BY DEF FileOnce, InFile

\* One frame is given up.
LEMMA FrameTaken ==
  ASSUME FileOnce, NEW k \in LiveSlots, LiveSlots' = LiveSlots \ {k}, frame' = frame
  PROVE  FileOnce' /\ InFile' = InFile \ {frame[k]} /\ frame[k] \in InFile
  BY DEF FileOnce, InFile

\* One frame is written that the file did not have.
LEMMA FramePut ==
  ASSUME FileOnce, NEW k, k \notin LiveSlots, NEW x, x \notin InFile,
         LiveSlots' = LiveSlots \cup {k}, frame'[k] = x,
         \A i \in LiveSlots : frame'[i] = frame[i]
  PROVE  FileOnce' /\ InFile' = InFile \cup {x}
  <1>1. FileOnce'
    BY DEF FileOnce, InFile
  <1>2. InFile' = InFile \cup {x}
    BY DEF InFile
  <1> QED
    BY <1>1, <1>2
\* One frame is moved.
LEMMA FrameMoved ==
  ASSUME FileOnce, NEW k \in LiveSlots, NEW n, n = k \/ n \notin LiveSlots,
         LiveSlots' = (LiveSlots \ {k}) \cup {n}, frame'[n] = frame[k],
         \A i \in LiveSlots \ {k} : frame'[i] = frame[i]
  PROVE  FileOnce' /\ InFile' = InFile
  <1>1. FileOnce'
    BY DEF FileOnce
  <1>2. InFile' = InFile
    BY DEF InFile
  <1> QED
    BY <1>1, <1>2

\* What a step does to the records as RecordStore sees them.
Shuffled == Stored' = Stored /\ UNCHANGED <<produced, confirmed, evicted>>
Accepted ==
  /\ produced < MaxRecord /\ produced' = produced + 1
  /\ Stored' = Stored \cup {produced'} /\ UNCHANGED <<confirmed, evicted>>
Confirmed(r) ==
  /\ r \in Stored /\ Stored' = Stored \ {r}
  /\ confirmed' = confirmed \cup {r} /\ UNCHANGED <<produced, evicted>>
Evicted(r) ==
  /\ r \in Stored /\ Cardinality(Stored) > HisMax /\ Stored' = Stored \ {r}
  /\ evicted' = evicted \cup {r} /\ UNCHANGED <<produced, confirmed>>
Tracked == Shuffled \/ Accepted \/ \E r \in Stored : Confirmed(r) \/ Evicted(r)

\* How many records the store holds is the sum over its places.
LEMMA Counted ==
  ASSUME SafeInv, EachOnce, Apart
  PROVE  /\ IsFiniteSet(LiveSlots) /\ Cardinality(LiveSlots) \in Nat
         /\ Cardinality(InHand) \in Nat
         /\ Cardinality(Stored) = Len(ram) + Len(cache) + Cardinality(LiveSlots)
                                     + Cardinality(InHand)
  <1>1. ASSUME NEW S, NEW s \in Seq(S), IsInjective(s)
        PROVE  IsFiniteSet(ToSet(s)) /\ Cardinality(ToSet(s)) = Len(s)
    <2>1. DOMAIN s = 1 .. Len(s) /\ Len(s) \in Nat /\ s \in [1 .. Len(s) -> S]
      BY LenProperties
    <2>2. s \in Bijection(1 .. Len(s), ToSet(s))
      BY <1>1, <2>1 DEF Bijection, Injection, Surjection, IsInjective, ToSet
    <2>3. ExistsBijection(1 .. Len(s), ToSet(s))
      BY <2>2 DEF ExistsBijection
    <2>4. IsFiniteSet(1 .. Len(s)) /\ Cardinality(1 .. Len(s)) = Len(s)
      BY <2>1, FS_Interval
    <2> QED
      BY <2>3, <2>4, FS_Bijection
  <1>2. /\ IsFiniteSet(ToSet(ram)) /\ Cardinality(ToSet(ram)) = Len(ram) /\ Len(ram) \in Nat
        /\ IsFiniteSet(ToSet(cache)) /\ Cardinality(ToSet(cache)) = Len(cache) /\ Len(cache) \in Nat
    BY <1>1, LenProperties DEF SafeInv, IInv, TypeOK, EachOnce
  <1>3. IsFiniteSet(LiveSlots)
    <2>1. IsFiniteSet(Slot)
      BY SizesAssumption, FS_Interval DEF Slot
    <2>2. LiveSlots \in SUBSET Slot
      BY DEF LiveSlots
    <2> QED
      BY <2>1, <2>2, FS_Subset
  <1>4. IsFiniteSet(InFile) /\ Cardinality(InFile) = Cardinality(LiveSlots)
    <2> DEFINE f == [i \in LiveSlots |-> frame[i]]
    <2>1. f \in Bijection(LiveSlots, InFile)
      BY DEF Bijection, Injection, Surjection, IsInjective, InFile, EachOnce
    <2>2. ExistsBijection(LiveSlots, InFile)
      BY <2>1 DEF ExistsBijection
    <2> QED
      BY <1>3, <2>2, FS_Bijection
  <1>5. IsFiniteSet(InHand)
    <2>1. IsFiniteSet({inHand})
      BY FS_Singleton
    <2> QED
      BY <2>1, FS_RemoveElement DEF InHand
  <1>6. Cardinality(LiveSlots) \in Nat /\ Cardinality(InHand) \in Nat
    BY <1>3, <1>5, FS_CardinalityType
  <1>7. ASSUME NEW A, NEW B, IsFiniteSet(A), IsFiniteSet(B), A \cap B = {}
        PROVE  IsFiniteSet(A \cup B) /\ Cardinality(A \cup B) = Cardinality(A) + Cardinality(B)
    <2>1. Cardinality(A) \in Nat /\ Cardinality(B) \in Nat
      BY <1>7, FS_CardinalityType
    <2>2. IsFiniteSet(A \cup B) /\ Cardinality(A \cup B)
            = Cardinality(A) + Cardinality(B) - Cardinality(A \cap B)
      BY <1>7, FS_Union
    <2>3. Cardinality(A \cap B) = 0
      BY <1>7, FS_EmptySet
    <2> QED
      BY <2>1, <2>2, <2>3
  <1> DEFINE A == ToSet(ram) \cup ToSet(cache)
             B == A \cup InFile
  <1>8. IsFiniteSet(A) /\ Cardinality(A) = Len(ram) + Len(cache)
    BY <1>2, <1>7 DEF Apart
  <1>9. IsFiniteSet(B) /\ Cardinality(B) = Cardinality(A) + Cardinality(LiveSlots)
    <2>1. A \cap InFile = {}
      BY DEF Apart
    <2> QED
      BY <1>4, <1>7, <1>8, <2>1
  <1>10. Cardinality(Stored) = Cardinality(B) + Cardinality(InHand)
    <2>1. B \cap InHand = {} /\ Stored = B \cup InHand
      BY DEF Apart, Stored
    <2> QED
      BY <1>5, <1>7, <1>9, <2>1
  <1> QED
    BY <1>2, <1>3, <1>6, <1>8, <1>9, <1>10

\* A frame is only given up while the store holds more than the file has room for.
LEMMA HoldsMore ==
  ASSUME SafeInv, OnceInv, pc = "evict", HasFrame, idx < delNum
  PROVE  Cardinality(Stored) > HisMax
  <1>1. /\ recordNum = HisMax /\ delNum = Len(ram) /\ newIdx = 0
        /\ idx \in Nat /\ HisMax \in Nat /\ idx < HisMax /\ Len(ram) \in Nat
    BY SizesAssumption, LenProperties
       DEF SafeInv, IInv, TypeOK, ScanInv, EvictInv, HasFrame
  <1>2. LiveSlots = idx .. HisMax - 1
    BY <1>1 DEF LiveSlots, Slot
  <1>3. Cardinality(LiveSlots) = HisMax - idx
    BY <1>1, <1>2, FS_Interval
  <1>4. Len(cache) \in Nat
    BY LenProperties DEF SafeInv, IInv, TypeOK
  <1> QED
    BY <1>1, <1>3, <1>4, Counted DEF OnceInv

\* Without faults a step keeps each record in one place, and is one of RecordStore or none.
LEMMA OnceStep ==
  ASSUME Faults = {}, SafeInv, OnceInv, [Next]_vars
  PROVE  OnceInv' /\ Tracked
  <1> DEFINE Goal == OnceInv' /\ Tracked
  <1>m. /\ ~May("read") /\ ~May("write") /\ ~May("alloc") /\ ~May("wipe")
        /\ ~May("send") /\ ~May("crash")
    BY DEF May
  <1>t. /\ recordNum \in Nat /\ idx \in Nat /\ newIdx \in Nat /\ count \in Nat
        /\ recordNum <= HisMax /\ count <= HisMax /\ newIdx <= idx
        /\ frame \in [Slot -> Record \cup {None}]
        /\ produced \in 0 .. MaxRecord /\ inHand \in Record \cup {None}
        /\ ret \in {"push", "insert", "peek", "flushed"}
    BY DEF SafeInv, IInv, TypeOK, FileSound, ScanInv
  <1>o. /\ IsInjective(ram) /\ IsInjective(cache) /\ FileOnce /\ Apart /\ after # "push"
        /\ Stored \cap (confirmed \cup evicted) = {}
        /\ Stored \cup confirmed \cup evicted \subseteq 1 .. produced
    BY DEF OnceInv, EachOnce, FileOnce
  <1>r. /\ ToSet(<<>>) = {}
        /\ \A x \in Record : ToSet(Append(ram, x)) = ToSet(ram) \cup {x}
        /\ \A x \in Record : ToSet(Append(cache, x)) = ToSet(cache) \cup {x}
        /\ ram # <<>> => /\ ToSet(ram) = ToSet(Tail(ram)) \cup {Head(ram)}
                        /\ ToSet(ram) = ToSet(Front(ram)) \cup {Last(ram)}
        /\ cache # <<>> => ToSet(cache) = ToSet(Tail(cache)) \cup {Head(cache)}
    BY DequeContents DEF SafeInv, IInv, TypeOK
  <1>i. /\ \A x \in Record : x \notin ToSet(ram) => IsInjective(Append(ram, x))
        /\ \A x \in Record : x \notin ToSet(cache) => IsInjective(Append(cache, x))
        /\ ram # <<>> => /\ IsInjective(Tail(ram)) /\ Head(ram) \notin ToSet(Tail(ram))
                        /\ IsInjective(Front(ram)) /\ Last(ram) \notin ToSet(Front(ram))
        /\ cache # <<>> => IsInjective(Tail(cache)) /\ Head(cache) \notin ToSet(Tail(cache))
    BY <1>o, DequeOnce DEF SafeInv, IInv, TypeOK
  <1>e. /\ ram # <<>> => Head(ram) \in Record /\ Last(ram) \in Record
        /\ cache # <<>> => Head(cache) \in Record
    BY DequeEnds DEF SafeInv, IInv, TypeOK
  <1>s. /\ Stored' = ToSet(ram') \cup ToSet(cache') \cup InFile' \cup InHand'
        /\ InHand' = {inHand'} \ {None}
    BY DEF Stored, InHand
  \* A step that moves records, or none.
  <1>n. ASSUME IsInjective(ram'), IsInjective(cache'), FileOnce', Apart', after' # "push", Shuffled
        PROVE  Goal
    BY <1>n, <1>o DEF OnceInv, EachOnce, FileOnce, Shuffled, Tracked
  \* A step that moves none.
  <1>k. ASSUME UNCHANGED <<ram, cache, inHand, produced, confirmed, evicted>>, after' # "push",
               LiveSlots' = LiveSlots, \A i \in LiveSlots : frame'[i] = frame[i]
        PROVE  Goal
    <2>1. FileOnce' /\ InFile' = InFile /\ InHand' = InHand
      BY <1>k, <1>o, FramesKept DEF InHand
    <2>2. Apart' /\ Shuffled /\ IsInjective(ram') /\ IsInjective(cache')
      BY <1>k, <1>o, <1>s, <2>1 DEF Apart, Shuffled, Stored
    <2> QED
      BY <1>k, <1>n, <2>1, <2>2
  <1> DEFINE Copying == {"readLoop", "readEnd", "evict", "evictEnd"}
             Appending == {"saveLoop", "saveFrame", "saveEnd"}
  <1>q. ASSUME pc \notin Copying \cup Appending, pc' \notin Copying \cup Appending,
               UNCHANGED diskVars
        PROVE  LiveSlots' = LiveSlots /\ frame' = frame
    BY <1>q DEF LiveSlots, diskVars
  <1>1. CASE ReportOffline
    <2>1. FileOnce' /\ InFile' = InFile
      BY <1>1, <1>q, <1>o, FramesKept DEF ReportOffline, diskVars, callVars
    <2>2. /\ produced' = produced + 1 /\ produced' \in Record /\ produced' # None
          /\ produced' \notin 1 .. produced /\ produced < MaxRecord
          /\ 1 .. produced \subseteq 1 .. produced' /\ produced' \in 1 .. produced'
      BY <1>1, <1>t, SizesAssumption DEF ReportOffline, Record, None
    <2>3. inHand = None
      BY <1>1, <1>o DEF ReportOffline, SafeInv, FlowInv, Caller, Saving, Reading
    <2>4. /\ UNCHANGED <<ram, cache, confirmed, evicted, after>>
          /\ InHand = {} /\ InHand' = {produced'}
      BY <1>1, <1>s, <2>2, <2>3 DEF ReportOffline, InHand, memVars
    <2>5. Stored' = Stored \cup {produced'} /\ produced' \notin Stored \cup confirmed \cup evicted
      BY <1>o, <1>s, <2>1, <2>2, <2>4 DEF Stored
    <2>6. Apart' /\ EachOnce'
      BY <1>o, <2>1, <2>4, <2>5 DEF Apart, Stored, EachOnce, FileOnce
    <2>7. OnceInv'
      BY <1>o, <2>2, <2>4, <2>5, <2>6 DEF OnceInv
    <2> QED
      BY <2>2, <2>4, <2>5, <2>7 DEF Tracked, Accepted
  <1>2. CASE ReportOnline
    <2>1. FileOnce' /\ InFile' = InFile
      BY <1>2, <1>m, <1>q, <1>o, FramesKept DEF ReportOnline, diskVars, callVars
    <2>2. /\ produced' = produced + 1 /\ produced' \in Record /\ produced' # None
          /\ produced' \notin 1 .. produced /\ produced < MaxRecord
          /\ 1 .. produced \subseteq 1 .. produced' /\ produced' \in 1 .. produced'
      BY <1>2, <1>t, SizesAssumption DEF ReportOnline, Record, None
    <2>3. inHand = None /\ InHand = {} /\ InHand' = {}
      BY <1>2, <1>o, <1>m, <1>s
         DEF ReportOnline, SafeInv, FlowInv, Caller, Saving, Reading, InHand, callVars
    <2>4. UNCHANGED <<ram, confirmed, evicted, after>> /\ cache' = Append(cache, produced')
      BY <1>2, <1>m DEF ReportOnline, callVars
    <2>5. produced' \notin Stored \cup confirmed \cup evicted
      BY <1>o, <2>2
    <2>6. ToSet(cache') = ToSet(cache) \cup {produced'} /\ IsInjective(cache')
      BY <1>r, <1>i, <2>2, <2>4, <2>5 DEF Stored
    <2>7. Stored' = Stored \cup {produced'}
      BY <1>s, <2>1, <2>3, <2>4, <2>6 DEF Stored
    <2>8. Apart' /\ EachOnce'
      BY <1>o, <2>1, <2>3, <2>4, <2>5, <2>6 DEF Apart, Stored, EachOnce, FileOnce
    <2>9. OnceInv'
      BY <1>o, <2>2, <2>4, <2>5, <2>7, <2>8 DEF OnceInv
    <2> QED
      BY <2>2, <2>4, <2>7, <2>9 DEF Tracked, Accepted
  <1>3. CASE SendNewest
    BY <1>3, <1>k, <1>q, <1>o DEF SendNewest, diskVars, memVars, ghostVars
  <1>4. CASE SaveToHistoryFile
    BY <1>4, <1>k, <1>q, <1>o DEF SaveToHistoryFile, diskVars, memVars, ghostVars
  <1>5. CASE ConfirmCache
    <2>1. FileOnce' /\ InFile' = InFile
      BY <1>5, <1>q, <1>o, FramesKept DEF ConfirmCache, diskVars, callVars
    <2>2. /\ cache' = Tail(cache) /\ cache # <<>> /\ confirmed' = confirmed \cup {Head(cache)}
          /\ UNCHANGED <<ram, inHand, produced, evicted, after>>
      BY <1>5 DEF ConfirmCache, callVars
    <2>3. InHand' = InHand
      BY <2>2 DEF InHand
    <2>4. ToSet(cache') = ToSet(cache) \ {Head(cache)} /\ IsInjective(cache')
          /\ Head(cache) \in ToSet(cache)
      BY <1>r, <1>i, <2>2
    <2>5. Stored' = Stored \ {Head(cache)} /\ Head(cache) \in Stored
      BY <1>o, <1>s, <2>1, <2>2, <2>3, <2>4 DEF Stored, Apart
    <2>6. Apart' /\ EachOnce'
      BY <1>o, <2>1, <2>2, <2>3, <2>4 DEF Apart, EachOnce, FileOnce
    <2>7. OnceInv'
      BY <1>o, <2>2, <2>5, <2>6 DEF OnceInv
    <2> QED
      BY <2>2, <2>5, <2>7 DEF Tracked, Confirmed
  <1>6. CASE HisFileDelete
    BY <1>6, <1>m DEF HisFileDelete
  <1>7. CASE PushToStack
    BY <1>7, <1>k, <1>q, <1>o DEF PushToStack, diskVars, ghostVars
  <1>8. CASE InsertOne
    <2>1. FileOnce' /\ InFile' = InFile
      BY <1>8, <1>q, <1>o, FramesKept DEF InsertOne, diskVars
    <2>2. ram' = Append(ram, Pushed) /\ UNCHANGED <<after, produced, confirmed, evicted>>
      BY <1>8, <1>m DEF InsertOne, SafeInv, FlowInv, ghostVars
    <2>3. Pushed \in Record
      BY <1>8, <1>e DEF InsertOne, Pushed, SafeInv, IInv, CallInv, Caller, Saving, Reading
    <2>4. ToSet(ram') = ToSet(ram) \cup {Pushed}
      BY <2>2, <2>3, <1>r
    <2>5. CASE draining
      <3>1. /\ cache' = Tail(cache) /\ cache # <<>> /\ Pushed = Head(cache) /\ InHand' = InHand
        BY <1>8, <2>5 DEF InsertOne, Pushed, SafeInv, IInv, CallInv, Caller, Saving, Reading,
                          InHand
      <3>2. ToSet(cache') = ToSet(cache) \ {Pushed} /\ IsInjective(cache') /\ Pushed \in ToSet(cache)
        BY <1>r, <1>i, <3>1
      <3>3. IsInjective(ram')
        BY <1>i, <1>o, <2>2, <2>3, <3>2 DEF Apart
      <3>4. Apart' /\ Stored' = Stored
        BY <1>o, <1>s, <2>1, <2>4, <3>1, <3>2 DEF Apart, Stored
      <3> QED
        BY <1>n, <1>o, <2>1, <2>2, <3>2, <3>3, <3>4 DEF Shuffled
    <2>6. CASE ~draining
      <3>1. /\ cache' = cache /\ inHand \in Record /\ Pushed = inHand /\ inHand' = None
        BY <1>8, <2>6 DEF InsertOne, Pushed, SafeInv, IInv, CallInv, Caller, Saving, Reading
      <3>2. InHand = {Pushed} /\ InHand' = {}
        BY <3>1, <1>s, SizesAssumption DEF InHand, None, Record
      <3>3. IsInjective(ram')
        BY <1>i, <1>o, <2>2, <2>3, <3>2 DEF Apart
      <3>4. Apart' /\ Stored' = Stored
        BY <1>o, <1>s, <2>1, <2>4, <3>1, <3>2 DEF Apart, Stored
      <3> QED
        BY <1>n, <1>o, <2>1, <2>2, <3>1, <3>3, <3>4 DEF Shuffled
    <2> QED
      BY <2>5, <2>6
  <1>9. CASE Drain
    BY <1>9, <1>k, <1>q, <1>o DEF Drain, diskVars, memVars, ghostVars
  <1>10. CASE Flushed
    <2>1. LiveSlots' = LiveSlots /\ frame' = frame
      BY <1>10, <1>q, <1>o DEF Flushed, Restart, diskVars
    <2>2. ram = <<>> /\ cache = <<>> /\ inHand = None
      BY <1>10, <1>o DEF Flushed, SafeInv, FlowInv, Caller, Saving, Reading
    <2>3. UNCHANGED <<ram, cache, inHand, produced, confirmed, evicted>> /\ after' # "push"
      BY <1>10, <2>2, <1>o DEF Flushed, Restart, memVars, ghostVars
    <2> QED
      BY <1>k, <2>1, <2>3
  <1>11. CASE PeekFile
    BY <1>11, <1>k, <1>q, <1>o DEF PeekFile, diskVars, ghostVars
  <1>12. CASE SendPeeked
    <2>1. FileOnce' /\ InFile' = InFile
      BY <1>12, <1>m, <1>q, <1>o, FramesKept DEF SendPeeked, diskVars
    <2>2. UNCHANGED <<inHand, produced, confirmed, evicted, after>> /\ InHand' = InHand
      BY <1>12, <1>m DEF SendPeeked, ghostVars, InHand
    <2>3. CASE UNCHANGED <<ram, cache>>
      <3>1. Apart' /\ Stored' = Stored /\ IsInjective(ram') /\ IsInjective(cache')
        BY <1>o, <1>s, <2>1, <2>2, <2>3 DEF Apart, Stored
      <3> QED
        BY <1>n, <1>o, <2>1, <2>2, <3>1 DEF Shuffled
    <2>4. CASE cache' = Append(cache, Last(ram)) /\ ram' = Front(ram) /\ ram # <<>>
      <3>1. ToSet(ram') = ToSet(ram) \ {Last(ram)} /\ IsInjective(ram') /\ Last(ram) \in ToSet(ram)
        BY <1>r, <1>i, <2>4
      <3>2. ToSet(cache') = ToSet(cache) \cup {Last(ram)} /\ IsInjective(cache')
        BY <1>r, <1>i, <1>e, <1>o, <2>4, <3>1 DEF Apart
      <3>3. Apart' /\ Stored' = Stored
        BY <1>o, <1>s, <2>1, <2>2, <3>1, <3>2 DEF Apart, Stored
      <3> QED
        BY <1>n, <1>o, <2>1, <2>2, <3>1, <3>2, <3>3 DEF Shuffled
    <2> QED
      BY <1>12, <1>m, <2>3, <2>4 DEF SendPeeked
  <1>13. CASE ReadHead
    <2>1. LiveSlots' = LiveSlots /\ frame' = frame
      BY <1>13, <1>m, <1>t DEF ReadHead, LiveSlots, SafeInv, IInv, ScanInv, Scanning, scanVars,
                               diskVars, Slot
    <2> QED
      BY <1>13, <2>1, <1>k, <1>o DEF ReadHead, ghostVars
  <1>14. CASE ReadStop
    <2>1. LiveSlots' = LiveSlots /\ frame' = frame
      BY <1>14 DEF ReadStop, LiveSlots, memVars, scanVars, diskVars
    <2> QED
      BY <1>14, <2>1, <1>k, <1>o DEF ReadStop, memVars, ghostVars
  <1>15. CASE ReadIntoRam
    <2>1. /\ pc = "readLoop" /\ HasFrame /\ ram' = Append(ram, frame[idx]) /\ idx' = idx + 1
          /\ UNCHANGED <<recordNum, cache, frame, pc, newIdx, inHand, after,
                         produced, confirmed, evicted>>
      BY <1>15, <1>m DEF ReadIntoRam, diskVars, callVars, ghostVars
    <2>2. LiveSlots' = LiveSlots \ {idx} /\ idx \in LiveSlots /\ frame[idx] \in Record
      BY <2>1, LiveFrame DEF LiveSlots
    <2>3. FileOnce' /\ InFile' = InFile \ {frame[idx]} /\ frame[idx] \in InFile
      BY <1>o, <2>1, <2>2, FrameTaken
    <2>4. ToSet(ram') = ToSet(ram) \cup {frame[idx]} /\ IsInjective(ram') /\ InHand' = InHand
      BY <1>r, <1>i, <1>o, <2>1, <2>2, <2>3 DEF Apart, InHand
    <2>5. Apart' /\ Stored' = Stored
      BY <1>o, <1>s, <2>1, <2>3, <2>4 DEF Apart, Stored
    <2> QED
      BY <1>n, <1>o, <2>1, <2>3, <2>4, <2>5 DEF Shuffled
  <1>16. CASE ReadMoveDown
    <2>1. /\ frame' = [frame EXCEPT ![newIdx] = frame[idx]] /\ pc = "readLoop" /\ HasFrame
          /\ idx' = idx + 1 /\ newIdx' = newIdx + 1
          /\ UNCHANGED <<pc, recordNum, ram, cache, inHand, after, produced, confirmed, evicted>>
      BY <1>16, <1>m DEF ReadMoveDown, memVars, ghostVars
    <2>2. LiveSlots' = (LiveSlots \ {idx}) \cup {newIdx}
      BY <2>1, LiveFrame DEF LiveSlots
    <2>3. frame'[newIdx] = frame[idx] /\ \A i \in LiveSlots \ {idx} : frame'[i] = frame[i]
      BY <2>1, <1>t, LiveFrame DEF LiveSlots
    <2>4. FileOnce' /\ InFile' = InFile /\ InHand' = InHand
      BY <1>o, <2>1, <2>2, <2>3, LiveFrame, FrameMoved DEF InHand
    <2>5. Apart' /\ Stored' = Stored /\ IsInjective(ram') /\ IsInjective(cache')
      BY <1>o, <1>s, <2>1, <2>4 DEF Apart, Stored
    <2> QED
      BY <1>n, <1>o, <2>1, <2>4, <2>5 DEF Shuffled
  <1>17. CASE ReadEnd
    <2>1. /\ count' = newIdx /\ pc' = ret /\ frame' = frame /\ pc = "readEnd"
          /\ ret \in {"push", "peek"} /\ idx = recordNum
      BY <1>17, <1>m DEF ReadEnd, WriteHead, SafeInv, CopyInv, FlowInv, Reading
    <2>2. LiveSlots = {i \in Slot : i < newIdx}
      BY <2>1, <1>t DEF LiveSlots, Slot
    <2>3. LiveSlots' = {i \in Slot : i < newIdx}
      BY <2>1 DEF LiveSlots
    <2> QED
      BY <1>17, <2>1, <2>2, <2>3, <1>k, <1>o DEF ReadEnd, ghostVars
  <1>18. CASE SaveHead
    <2>1. LiveSlots' = LiveSlots /\ \A i \in LiveSlots : frame'[i] = frame[i]
      <3>1. CASE fileOk
        <4>1. frame' = frame /\ recordNum' = count /\ pc' = "saveLoop" /\ pc = "saveHead"
          BY <1>18, <1>m, <3>1 DEF SaveHead, diskVars
        <4> QED
          BY <4>1 DEF LiveSlots
      <3>2. CASE ~fileOk
        <4>1. count = 0 /\ pc = "saveHead" /\ count' = 0 /\ pc' = "create"
          BY <1>18, <3>2 DEF SaveHead, SafeInv, IInv, FileSound
        <4> QED
          BY <4>1 DEF LiveSlots, Slot
      <3> QED
        BY <3>1, <3>2
    <2> QED
      BY <1>18, <2>1, <1>k, <1>o DEF SaveHead, ghostVars
  <1>19. CASE HisFileCreate
    <2>1. LiveSlots' = LiveSlots /\ frame' = frame
      BY <1>19, <1>m, <1>t DEF HisFileCreate, LiveSlots, SafeInv, IInv, ScanInv, Slot
    <2> QED
      BY <1>19, <2>1, <1>k, <1>o DEF HisFileCreate, ghostVars
  <1>20. CASE SaveLoop
    <2>1. LiveSlots' = LiveSlots /\ frame' = frame
      BY <1>20, <1>t DEF SaveLoop, LiveSlots, SafeInv, IInv, ScanInv, Scanning, memVars, diskVars,
                         Slot
    <2> QED
      BY <1>20, <2>1, <1>k, <1>o DEF SaveLoop, memVars, ghostVars
  <1>21. CASE SaveFrame
    <2>1. /\ frame' = [frame EXCEPT ![recordNum] = Head(ram)] /\ pc = "saveFrame"
          /\ recordNum' = recordNum + 1 /\ pc' = "saveLoop" /\ ram' = Tail(ram)
          /\ ram # <<>> /\ recordNum \in Slot
          /\ UNCHANGED <<cache, inHand, after, produced, confirmed, evicted>>
      BY <1>21, <1>m, <1>t, SizesAssumption
         DEF SaveFrame, SafeInv, IInv, ScanInv, FileSound, Slot, ghostVars
    <2>2. LiveSlots = {i \in Slot : i < recordNum} /\ recordNum \notin LiveSlots
      BY <2>1, <1>t DEF LiveSlots
    <2>3. LiveSlots' = LiveSlots \cup {recordNum}
      <3>1. LiveSlots' = {i \in Slot : i < recordNum + 1}
        BY <2>1 DEF LiveSlots
      <3>2. \A i \in Slot : i < recordNum + 1 <=> i < recordNum \/ i = recordNum
        BY <1>t, SizesAssumption DEF Slot
      <3> QED
        BY <2>1, <2>2, <3>1, <3>2
    <2>4. frame'[recordNum] = Head(ram) /\ \A i \in LiveSlots : frame'[i] = frame[i]
      BY <2>1, <2>2, <1>t
    <2>5. ToSet(ram') = ToSet(ram) \ {Head(ram)} /\ IsInjective(ram') /\ Head(ram) \in ToSet(ram)
      BY <1>r, <1>i, <2>1
    <2>6. FileOnce' /\ InFile' = InFile \cup {Head(ram)} /\ InHand' = InHand
      BY <1>o, <2>1, <2>2, <2>3, <2>4, <2>5, FramePut DEF Apart, InHand
    <2>7. Apart' /\ Stored' = Stored /\ IsInjective(cache')
      BY <1>o, <1>s, <2>1, <2>5, <2>6 DEF Apart, Stored
    <2> QED
      BY <1>n, <1>o, <2>1, <2>5, <2>6, <2>7 DEF Shuffled
  <1>22. CASE SaveEnd
    <2>1. /\ count' = recordNum /\ pc' = ret /\ pc = "saveEnd" /\ frame' = frame
          /\ ret \in {"insert", "flushed"}
      BY <1>22, <1>m DEF SaveEnd, WriteHead, SafeInv, FlowInv, Saving
    <2>2. LiveSlots' = LiveSlots
      BY <2>1 DEF LiveSlots
    <2> QED
      BY <1>22, <2>1, <2>2, <1>k, <1>o DEF SaveEnd, memVars, ghostVars
  <1>23. CASE EvictStop
    <2>1. LiveSlots' = LiveSlots /\ frame' = frame
      BY <1>23 DEF EvictStop, LiveSlots, memVars, scanVars, diskVars
    <2> QED
      BY <1>23, <2>1, <1>k, <1>o DEF EvictStop, memVars, ghostVars
  <1>24. CASE EvictSkip
    <2>1. /\ pc = "evict" /\ HasFrame /\ idx < delNum /\ idx' = idx + 1
          /\ evicted' = evicted \cup {frame[idx]}
          /\ UNCHANGED <<recordNum, ram, cache, frame, pc, newIdx, inHand, after,
                         produced, confirmed>>
      BY <1>24 DEF EvictSkip, diskVars, callVars, memVars
    <2>2. LiveSlots' = LiveSlots \ {idx} /\ idx \in LiveSlots
      BY <2>1, LiveFrame DEF LiveSlots
    <2>3. FileOnce' /\ InFile' = InFile \ {frame[idx]} /\ frame[idx] \in InFile /\ InHand' = InHand
      BY <1>o, <2>1, <2>2, FrameTaken DEF InHand
    <2>4. /\ Apart' /\ IsInjective(ram') /\ IsInjective(cache')
          /\ frame[idx] \in Stored /\ Stored' = Stored \ {frame[idx]}
      BY <1>o, <1>s, <2>1, <2>3 DEF Apart, Stored
    <2>5. OnceInv'
      BY <1>o, <2>1, <2>3, <2>4 DEF OnceInv, EachOnce, FileOnce
    <2>6. Cardinality(Stored) > HisMax
      BY <2>1, HoldsMore
    <2> QED
      BY <2>1, <2>4, <2>5, <2>6 DEF Tracked, Evicted
  <1>25. CASE EvictMoveDown
    <2>1. /\ frame' = [frame EXCEPT ![newIdx] = frame[idx]] /\ pc = "evict" /\ HasFrame
          /\ idx' = idx + 1 /\ newIdx' = newIdx + 1
          /\ UNCHANGED <<pc, recordNum, ram, cache, inHand, after, produced, confirmed, evicted>>
      BY <1>25, <1>m DEF EvictMoveDown, memVars, ghostVars
    <2>2. LiveSlots' = (LiveSlots \ {idx}) \cup {newIdx}
      BY <2>1, LiveFrame DEF LiveSlots
    <2>3. frame'[newIdx] = frame[idx] /\ \A i \in LiveSlots \ {idx} : frame'[i] = frame[i]
      BY <2>1, <1>t, LiveFrame DEF LiveSlots
    <2>4. FileOnce' /\ InFile' = InFile /\ InHand' = InHand
      BY <1>o, <2>1, <2>2, <2>3, LiveFrame, FrameMoved DEF InHand
    <2>5. Apart' /\ Stored' = Stored /\ IsInjective(ram') /\ IsInjective(cache')
      BY <1>o, <1>s, <2>1, <2>4 DEF Apart, Stored
    <2> QED
      BY <1>n, <1>o, <2>1, <2>4, <2>5 DEF Shuffled
  <1>26. CASE EvictEnd
    <2>1. /\ recordNum' = newIdx /\ pc' = "saveFrame" /\ frame' = frame /\ pc = "evictEnd"
          /\ idx = recordNum
      BY <1>26, <1>m DEF EvictEnd, WriteHead, SafeInv, CopyInv
    <2>2. LiveSlots = {i \in Slot : i < newIdx}
      BY <2>1, <1>t DEF LiveSlots, Slot
    <2>3. LiveSlots' = {i \in Slot : i < newIdx}
      BY <2>1 DEF LiveSlots
    <2> QED
      BY <1>26, <2>1, <2>2, <2>3, <1>k, <1>o DEF EvictEnd, ghostVars
  <1>27. CASE Crash
    BY <1>27, <1>m DEF Crash
  <1>28. CASE UNCHANGED vars
    <2>1. LiveSlots' = LiveSlots /\ frame' = frame
      BY <1>28 DEF vars, LiveSlots, callVars, scanVars, memVars, diskVars
    <2> QED
      BY <1>28, <2>1, <1>k, <1>o DEF vars, memVars, callVars, ghostVars
  <1> QED
    BY <1>1, <1>2, <1>3, <1>4, <1>5, <1>6, <1>7, <1>8, <1>9, <1>10,
       <1>11, <1>12, <1>13, <1>14, <1>15, <1>16, <1>17, <1>18, <1>19, <1>20,
       <1>21, <1>22, <1>23, <1>24, <1>25, <1>26, <1>27, <1>28
       DEF Next, HandlerStep

\* Nothing is stored yet when the device boots for the first time.
LEMMA InitOnce == Init => OnceInv
  <1> SUFFICES ASSUME Init PROVE OnceInv
    OBVIOUS
  <1>1. LiveSlots = {}
    BY SizesAssumption DEF Init, LiveSlots, Slot
  <1>2. InFile = {} /\ InHand = {} /\ ToSet(ram) = {} /\ ToSet(cache) = {}
    BY <1>1 DEF Init, InFile, InHand, ToSet
  <1>3. IsInjective(ram) /\ IsInjective(cache)
    BY DEF Init, IsInjective
  <1> QED
    BY <1>1, <1>2, <1>3 DEF Init, OnceInv, EachOnce, Apart, Stored

\* OnceInv is what StoredOnce needs: places that share nothing add up.
LEMMA OnceCounts == SafeInv /\ OnceInv => StoredOnce
  BY Counted DEF OnceInv, StoredOnce

\* While nothing fails, SafeInv and OnceInv are inductive together.
THEOREM OnceInvariance ==
  ASSUME Faults = {}
  PROVE  Spec => [](SafeInv /\ OnceInv)
  <1>1. MildFaults
    BY DEF MildFaults
  <1>2. SafeInv /\ OnceInv /\ [Next]_vars => SafeInv' /\ OnceInv'
    BY <1>1, SafeStep, OnceStep
  <1> QED
    BY InitSafe, InitOnce, <1>2, PTL DEF Spec

\* What RecordStore sees of the store.
Promise == INSTANCE RecordStore WITH Capacity <- HisMax, pending <- Stored

\* A step that RecordStore knows is one of its steps, or none.
LEMMA TrackedStep == Tracked => [Promise!Next]_(Promise!vars)
  <1>1. ASSUME Shuffled PROVE UNCHANGED Promise!vars
    BY <1>1 DEF Shuffled, Promise!vars
  <1>2. ASSUME Accepted PROVE Promise!Accept
    BY <1>2 DEF Accepted, Promise!Accept
  <1>3. ASSUME NEW r \in Stored, Confirmed(r) PROVE Promise!Confirm(r)
    BY <1>3 DEF Confirmed, Promise!Confirm
  <1>4. ASSUME NEW r \in Stored, Evicted(r) PROVE Promise!Evict(r)
    <2>1. Promise!Cardinality(Stored) = Cardinality(Stored)
      BY DEF Promise!Cardinality, Cardinality
    <2> QED
      BY <1>4, <2>1 DEF Evicted, Promise!Evict
  <1> QED
    BY <1>1, <1>2, <1>3, <1>4 DEF Tracked, Promise!Next

\* While nothing fails the store implements RecordStore: overflowing into the file, being
\* read back, sent, lost with the connection and saved again are no steps for its users.
THEOREM StoreImplementsRecordStore ==
  ASSUME Faults = {}
  PROVE  Spec => Promise!Spec
  <1>1. Init => Promise!Init
    <2>1. ASSUME Init PROVE Stored = {}
      <3>1. LiveSlots = {}
        BY <2>1, SizesAssumption DEF Init, LiveSlots, Slot
      <3> QED
        BY <2>1, <3>1 DEF Init, Stored, InFile, InHand, ToSet
    <2> QED
      BY <2>1 DEF Init, Promise!Init
  <1>2. SafeInv /\ OnceInv /\ [Next]_vars => [Promise!Next]_(Promise!vars)
    BY OnceStep, TrackedStep
  <1> QED
    BY OnceInvariance, <1>1, <1>2, PTL DEF Spec, Promise!Spec
=============================================================================
