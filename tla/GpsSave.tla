------------------------------- MODULE GpsSave -------------------------------
(***************************************************************************)
(* The position-record store of the tracker (src/src/gps_save.c) and the   *)
(* calls that drive it (gps_service.c, protocol.c, hard_ware.c).           *)
(*                                                                         *)
(* A record lives in one of three places: the RAM deque s_gps_data, the    *)
(* history file it overflows into, or s_gps_sending, the deque of records  *)
(* that were handed to the socket and are not acknowledged yet.            *)
(*                                                                         *)
(* Handlers run to completion on the one task of the device, but every     *)
(* file operation inside them is durable on its own (each write is         *)
(* followed by GM_FS_Commit), and power may fail between any two of them.  *)
(* So pc walks through a handler one file operation at a time, and Crash   *)
(* may strike at every value of pc.                                        *)
(***************************************************************************)
EXTENDS Integers, Sequences, FiniteSets, SequencesExt

CONSTANTS
  MaxRecord,  \* bound of the model: how many records the device produces
  RamMax,     \* SAVE_HIS_MAX_NUM / 3, capacity of s_gps_data
  CacheMax,   \* SAVE_CATCH_MAX_NUM, capacity of s_gps_sending
  HisMax,     \* SAVE_HIS_MAX_NUM, capacity of the history file
  Faults      \* which failures the environment may inject

FaultKinds == {"crash", "read", "write", "alloc", "send", "wipe"}

ASSUME SizesAssumption ==
  /\ MaxRecord \in Nat
  /\ RamMax \in Nat \ {0}
  /\ CacheMax \in Nat \ {0}
  /\ HisMax \in Nat
  /\ RamMax <= HisMax

ASSUME FaultsAssumption == Faults \subseteq FaultKinds

Record == 1 .. MaxRecord  \* in the order in which they are produced
None == 0                 \* no record; a frame slot that was never written
Slot == 0 .. HisMax - 1

VARIABLES
  ram,        \* s_gps_data, oldest insertion first
  up,         \* s_gps_data.his # NULL: gps_data_init has run since boot
  recordNum,  \* s_his_dat.record_num, the RAM copy of the header's count
  cache,      \* s_gps_sending
  fileOk,     \* the history file exists and its header carries the flag
  count,      \* record count in the header on disk
  frame,      \* the frames on disk
  pc,         \* the operation the running handler is about to execute
  ret,        \* where save_file / read_file return to
  draining,   \* inside the loop of gps_service_save_to_history_file
  after,      \* what the handler does after save_to_history_file
  inHand,     \* the record the handler was called with
  idx, newIdx, delNum,              \* loop locals of the file functions
  produced, confirmed, evicted, lost \* history variables

memVars   == <<ram, up, recordNum, cache>>
diskVars  == <<fileOk, count, frame>>
callVars  == <<pc, ret, draining, after, inHand>>
scanVars  == <<idx, newIdx, delNum>>
ghostVars == <<produced, confirmed, evicted, lost>>
vars == <<memVars, diskVars, callVars, scanVars, ghostVars>>

PCs == {"idle", "push", "insert", "drain", "flushed", "peek",
        "readHead", "readLoop", "readEnd",
        "saveHead", "create", "saveLoop", "saveFrame", "saveEnd",
        "evict", "evictEnd"}

TypeOK ==
  /\ ram \in Seq(Record)
  /\ cache \in Seq(Record)
  /\ up \in BOOLEAN
  /\ recordNum \in Nat
  /\ fileOk \in BOOLEAN
  /\ count \in Nat
  /\ frame \in [Slot -> Record \cup {None}]
  /\ pc \in PCs
  /\ ret \in {"push", "insert", "peek", "flushed"}
  /\ draining \in BOOLEAN
  /\ after \in {"none", "push", "reboot"}
  /\ inHand \in Record \cup {None}
  /\ idx \in Nat
  /\ newIdx \in Nat
  /\ delNum \in Nat
  /\ produced \in 0 .. MaxRecord
  /\ confirmed \in SUBSET Record
  /\ evicted \in SUBSET Record
  /\ lost \in SUBSET Record

BlankFrames == [i \in Slot |-> None]

Init ==
  /\ ram = <<>> /\ up = FALSE /\ recordNum = 0 /\ cache = <<>>
  /\ fileOk = FALSE /\ count = 0 /\ frame = BlankFrames
  /\ pc = "idle" /\ ret = "push" /\ draining = FALSE /\ after = "none"
  /\ inHand = None
  /\ idx = 0 /\ newIdx = 0 /\ delNum = 0
  /\ produced = 0 /\ confirmed = {} /\ evicted = {} /\ lost = {}

May(fault) == fault \in Faults

-----------------------------------------------------------------------------
(* What the rest of the firmware asks of the store.                        *)

\* A new report while not logged in, or with the sending cache full: the
\* record goes to gps_service_push_to_stack.
ReportOffline ==
  /\ pc = "idle"
  /\ produced < MaxRecord
  /\ produced' = produced + 1
  /\ inHand' = produced'
  /\ pc' = "push"
  /\ UNCHANGED <<memVars, diskVars, scanVars, ret, draining, after,
                 confirmed, evicted, lost>>

\* A new report while logged in: gps_service_cache_send remembers it until it
\* is acknowledged. When the socket refuses it the connection is destroyed,
\* which flushes the store, and then the caller pushes the same record again.
ReportOnline ==
  /\ pc = "idle"
  /\ produced < MaxRecord
  /\ Len(cache) < CacheMax
  /\ produced' = produced + 1
  /\ cache' = Append(cache, produced')
  /\ \/ UNCHANGED callVars
     \/ /\ May("send")
        /\ pc' = "drain"
        /\ after' = "push"
        /\ inHand' = produced'
        /\ UNCHANGED <<ret, draining>>
  /\ UNCHANGED <<ram, up, recordNum, diskVars, scanVars, confirmed,
                 evicted, lost>>

\* One iteration of protocol_send_gps_msg begins.
SendNewest ==
  /\ pc = "idle"
  /\ pc' = "peek"
  /\ UNCHANGED <<memVars, diskVars, scanVars, ret, draining, after, inHand,
                 ghostVars>>

\* The socket closes, or hard_ware_reboot_atonce runs before GM_SystemReboot.
SaveToHistoryFile ==
  /\ pc = "idle"
  /\ pc' = "drain"
  /\ after' \in {"none", "reboot"}
  /\ UNCHANGED <<memVars, diskVars, scanVars, ret, draining, inHand,
                 ghostVars>>

\* The server's acknowledgement covers the oldest record of the cache.
ConfirmCache ==
  /\ pc = "idle"
  /\ cache # <<>>
  /\ confirmed' = confirmed \cup {Head(cache)}
  /\ cache' = Tail(cache)
  /\ UNCHANGED <<ram, up, recordNum, diskVars, callVars, scanVars,
                 produced, evicted, lost>>

\* A factory-reset or cold-start command removes the file, and nothing else.
HisFileDelete ==
  /\ May("wipe")
  /\ pc = "idle"
  /\ fileOk' = FALSE /\ count' = 0 /\ frame' = BlankFrames
  /\ UNCHANGED <<memVars, callVars, scanVars, ghostVars>>

-----------------------------------------------------------------------------
(* gps_service_push_to_stack, gps_data_init, gps_data_insert_one.          *)

PushToStack ==
  /\ pc = "push"
  /\ \/ /\ ~up
        /\ up' = TRUE /\ recordNum' = 0
        /\ pc' = "readHead" /\ ret' = "push"
     \/ /\ up /\ Len(ram) = RamMax
        /\ pc' = "saveHead" /\ ret' = "insert"
        /\ UNCHANGED <<up, recordNum>>
     \/ /\ up /\ Len(ram) < RamMax
        /\ pc' = "insert"
        /\ UNCHANGED <<up, recordNum, ret>>
  /\ UNCHANGED <<ram, cache, diskVars, scanVars, draining, after, inHand,
                 ghostVars>>

\* Mutant: the drain loop pushes the report it interrupted.
PushedInHand == inHand

\* The record gps_service_push_to_stack was called with.
Pushed == IF draining THEN Head(cache) ELSE inHand

\* The result of gps_data_insert_one is what push_to_stack returns; neither
\* the drain loop nor the report functions' callers look at it.
InsertOne ==
  /\ pc = "insert"
  /\ \/ /\ Len(ram) < RamMax
        /\ ram' = Append(ram, Pushed)
     \/ /\ Len(ram) = RamMax \/ May("alloc")
        /\ ram' = ram
  /\ \/ /\ draining
        /\ cache' = Tail(cache)
        /\ pc' = "drain"
        /\ UNCHANGED inHand
     \/ /\ ~draining
        /\ pc' = "idle"
        /\ inHand' = None
        /\ UNCHANGED cache
  /\ UNCHANGED <<up, recordNum, diskVars, scanVars, ret, draining, after,
                 ghostVars>>

\* Mutant: only the RAM deque is saved.
DrainRamOnly ==
  /\ pc = "drain"
  /\ IF ram # <<>> THEN pc' = "saveHead" /\ ret' = "flushed"
                   ELSE pc' = "flushed" /\ ret' = ret
  /\ UNCHANGED <<memVars, diskVars, scanVars, draining, after, inHand, ghostVars>>

\* The loop of gps_service_save_to_history_file, and the save after it.
Drain ==
  /\ pc = "drain"
  /\ \/ /\ cache # <<>>
        /\ draining' = TRUE /\ pc' = "push"
        /\ UNCHANGED ret
     \/ /\ cache = <<>> /\ ram # <<>>
        /\ draining' = FALSE /\ pc' = "saveHead" /\ ret' = "flushed"
     \/ /\ cache = <<>> /\ ram = <<>>
        /\ draining' = FALSE /\ pc' = "flushed"
        /\ UNCHANGED ret
  /\ UNCHANGED <<memVars, diskVars, scanVars, after, inHand, ghostVars>>

\* RAM is gone, the file stays.
Restart ==
  /\ ram' = <<>> /\ cache' = <<>> /\ up' = FALSE /\ recordNum' = 0
  /\ pc' = "idle" /\ draining' = FALSE /\ after' = "none" /\ inHand' = None
  /\ idx' = 0 /\ newIdx' = 0 /\ delNum' = 0
  /\ UNCHANGED <<diskVars, ret, produced, confirmed, evicted>>

Flushed ==
  /\ pc = "flushed"
  /\ \/ /\ after = "reboot"
        /\ Restart
        /\ UNCHANGED lost
     \/ /\ after # "reboot"
        /\ pc' = IF after = "push" THEN "push" ELSE "idle"
        /\ after' = "none"
        /\ UNCHANGED <<memVars, diskVars, scanVars, ret, draining, inHand,
                       ghostVars>>

-----------------------------------------------------------------------------
(* gps_data_peek_one(from tail) and the send it is for.                    *)

\* Mutant: the file is only read at boot.
PeekFileOnce ==
  /\ pc = "peek"
  /\ ram = <<>>
  /\ up' = TRUE
  /\ IF up THEN pc' = "idle" /\ UNCHANGED <<recordNum, ret>>
           ELSE recordNum' = 0 /\ pc' = "readHead" /\ ret' = "peek"
  /\ UNCHANGED <<ram, cache, diskVars, scanVars, draining, after, inHand,
                 ghostVars>>

PeekFile ==
  /\ pc = "peek"
  /\ ram = <<>>
  /\ \/ /\ ~up
        /\ up' = TRUE /\ recordNum' = 0
        /\ pc' = "readHead" /\ ret' = "peek"
     \/ /\ up /\ recordNum > 0
        /\ pc' = "readHead" /\ ret' = "peek"
        /\ UNCHANGED <<up, recordNum>>
     \/ /\ up /\ recordNum = 0
        /\ pc' = "idle"
        /\ UNCHANGED <<up, recordNum, ret>>
  /\ UNCHANGED <<ram, cache, diskVars, scanVars, draining, after, inHand,
                 ghostVars>>

SendPeeked ==
  /\ pc = "peek"
  /\ ram # <<>>
  /\ \/ /\ Len(cache) >= CacheMax \/ May("alloc")
        /\ pc' = "idle"
        /\ UNCHANGED <<ram, cache, after>>
     \/ /\ Len(cache) < CacheMax
        /\ cache' = Append(cache, Last(ram))
        /\ ram' = Front(ram)
        /\ pc' = "idle"
        /\ UNCHANGED after
     \/ /\ Len(cache) < CacheMax
        /\ May("send")
        /\ cache' = Append(cache, Last(ram))
        /\ pc' = "drain" /\ after' = "none"
        /\ UNCHANGED ram
  /\ UNCHANGED <<up, recordNum, diskVars, scanVars, ret, draining, inHand,
                 ghostVars>>

-----------------------------------------------------------------------------
(* gps_his_file_write_head: the RAM count goes to the header, or the write *)
(* fails and the old header stays.                                         *)

\* Mutant: the header gets the count from before the copying loop.
WriteOldHead(n) == fileOk' = TRUE /\ count' = recordNum

WriteHead(n) ==
  \/ fileOk' = TRUE /\ count' = n
  \/ May("write") /\ UNCHANGED <<fileOk, count>>

(* gps_data_read_file: fill ram from the file, move the rest down.         *)

ReadHead ==
  /\ pc = "readHead"
  /\ \/ /\ fileOk
        /\ recordNum' = count
        /\ pc' = "readLoop"
     \/ /\ ~fileOk \/ May("read")
        /\ recordNum' = 0
        /\ pc' = ret
  /\ UNCHANGED <<ram, up, cache, diskVars, scanVars, ret, draining, after,
                 inHand, ghostVars>>

\* There is a record at idx, and reading it yields a whole frame.
HasFrame == idx < recordNum /\ frame[idx] # None

\* Mutant: the loop ends when RAM is full, and moves nothing down.
ReadStopAtRamFull ==
  /\ pc = "readLoop"
  /\ ~HasFrame \/ Len(ram) >= RamMax
  /\ pc' = "readEnd"
  /\ UNCHANGED <<memVars, diskVars, scanVars, ret, draining, after, inHand,
                 ghostVars>>

\* The loop ends at the last record, or breaks on a short read.
ReadStop ==
  /\ pc = "readLoop"
  /\ ~HasFrame \/ May("read")
  /\ pc' = "readEnd"
  /\ UNCHANGED <<memVars, diskVars, scanVars, ret, draining, after, inHand,
                 ghostVars>>

\* An insertion that fails for want of memory loses the record.
ReadIntoRam ==
  /\ pc = "readLoop"
  /\ HasFrame
  /\ Len(ram) < RamMax
  /\ ram' = Append(ram, frame[idx]) \/ (May("alloc") /\ ram' = ram)
  /\ idx' = idx + 1
  /\ UNCHANGED <<up, recordNum, cache, diskVars, callVars, newIdx, delNum,
                 ghostVars>>

ReadMoveDown ==
  /\ pc = "readLoop"
  /\ HasFrame
  /\ Len(ram) >= RamMax
  /\ \/ /\ frame' = [frame EXCEPT ![newIdx] = frame[idx]]
        /\ idx' = idx + 1 /\ newIdx' = newIdx + 1
        /\ UNCHANGED pc
     \/ /\ May("write")
        /\ pc' = "readEnd"
        /\ UNCHANGED <<frame, idx, newIdx>>
  /\ UNCHANGED <<memVars, fileOk, count, delNum, ret, draining, after, inHand,
                 ghostVars>>

ReadEnd ==
  /\ pc = "readEnd"
  /\ recordNum' = newIdx
  /\ WriteHead(newIdx)
  /\ idx' = 0 /\ newIdx' = 0
  /\ pc' = ret
  /\ UNCHANGED <<ram, up, cache, frame, delNum, ret, draining, after,
                 inHand, ghostVars>>

-----------------------------------------------------------------------------
(* gps_data_save_file: append ram to the file, evicting when it is full.   *)

\* A header that cannot be read, for whatever reason, deletes the file.
SaveHead ==
  /\ pc = "saveHead"
  /\ \/ /\ fileOk
        /\ recordNum' = count
        /\ pc' = "saveLoop"
        /\ UNCHANGED diskVars
     \/ /\ ~fileOk \/ May("read")
        /\ fileOk' = FALSE /\ count' = 0 /\ frame' = BlankFrames
        /\ pc' = "create"
        /\ UNCHANGED recordNum
  /\ UNCHANGED <<ram, up, cache, scanVars, ret, draining, after, inHand,
                 ghostVars>>

HisFileCreate ==
  /\ pc = "create"
  /\ \/ /\ fileOk' = TRUE /\ count' = 0
        /\ recordNum' = 0
        /\ pc' = "saveLoop"
     \/ /\ May("write")
        /\ pc' = ret
        /\ UNCHANGED <<fileOk, count, recordNum>>
  /\ UNCHANGED <<ram, up, cache, frame, scanVars, ret, draining, after,
                 inHand, ghostVars>>

\* Mutant: the file may grow by one frame too many.
FileFullLate == recordNum > HisMax

\* No room for another frame.
FileFull == recordNum >= HisMax

\* Mutant: one frame too many is evicted.
EvictOneMore == Len(ram) + 1

\* How many frames a save evicts: as many as it still has to append.
EvictCount == Len(ram)

SaveLoop ==
  /\ pc = "saveLoop"
  /\ \/ /\ ram = <<>>
        /\ pc' = "saveEnd"
        /\ UNCHANGED scanVars
     \/ /\ ram # <<>> /\ ~FileFull
        /\ pc' = "saveFrame"
        /\ UNCHANGED scanVars
     \/ /\ ram # <<>> /\ FileFull
        /\ pc' = "evict"
        /\ delNum' = EvictCount
        /\ UNCHANGED <<idx, newIdx>>
  /\ UNCHANGED <<memVars, diskVars, ret, draining, after, inHand, ghostVars>>

SaveFrame ==
  /\ pc = "saveFrame"
  /\ \/ /\ frame' = [frame EXCEPT ![recordNum] = Head(ram)]
        /\ recordNum' = recordNum + 1
        /\ ram' = Tail(ram)
        /\ pc' = "saveLoop"
     \/ /\ May("write")
        /\ pc' = "saveEnd"
        /\ UNCHANGED <<frame, recordNum, ram>>
  /\ UNCHANGED <<up, cache, fileOk, count, scanVars, ret, draining, after,
                 inHand, ghostVars>>

SaveEnd ==
  /\ pc = "saveEnd"
  /\ WriteHead(recordNum)
  /\ delNum' = 0
  /\ pc' = ret
  /\ UNCHANGED <<memVars, frame, idx, newIdx, ret, draining, after, inHand,
                 ghostVars>>

(* gps_his_file_delete_record: drop the first delNum frames.               *)

EvictStop ==
  /\ pc = "evict"
  /\ ~HasFrame \/ May("read")
  /\ pc' = "evictEnd"
  /\ UNCHANGED <<memVars, diskVars, scanVars, ret, draining, after, inHand,
                 ghostVars>>

EvictSkip ==
  /\ pc = "evict"
  /\ HasFrame
  /\ idx < delNum
  /\ evicted' = evicted \cup {frame[idx]}
  /\ idx' = idx + 1
  /\ UNCHANGED <<memVars, diskVars, callVars, newIdx, delNum, produced,
                 confirmed, lost>>

EvictMoveDown ==
  /\ pc = "evict"
  /\ HasFrame
  /\ idx >= delNum
  /\ \/ /\ frame' = [frame EXCEPT ![newIdx] = frame[idx]]
        /\ idx' = idx + 1 /\ newIdx' = newIdx + 1
        /\ UNCHANGED pc
     \/ /\ May("write")
        /\ pc' = "evictEnd"
        /\ UNCHANGED <<frame, idx, newIdx>>
  /\ UNCHANGED <<memVars, fileOk, count, delNum, ret, draining, after, inHand,
                 ghostVars>>

EvictEnd ==
  /\ pc = "evictEnd"
  /\ recordNum' = newIdx
  /\ WriteHead(newIdx)
  /\ idx' = 0 /\ newIdx' = 0
  /\ pc' = "saveFrame"
  /\ UNCHANGED <<ram, up, cache, frame, delNum, ret, draining, after,
                 inHand, ghostVars>>

-----------------------------------------------------------------------------
(* Where the records are.                                                  *)

\* Slots of the frames the running code still counts as the file's content.
LiveSlots ==
  CASE pc \in {"readLoop", "readEnd", "evict", "evictEnd"} ->
         {i \in Slot : i < newIdx \/ (idx <= i /\ i < recordNum)}
    [] pc \in {"saveLoop", "saveFrame", "saveEnd"} -> {i \in Slot : i < recordNum}
    [] OTHER -> {i \in Slot : i < count}

InFile == {frame[i] : i \in LiveSlots}
InHand == {inHand} \ {None}
Stored == ToSet(ram) \cup ToSet(cache) \cup InFile \cup InHand

\* What the next boot will find in the file.
Durable == {frame[i] : i \in {j \in Slot : j < count}}

-----------------------------------------------------------------------------
\* Power fails, wherever the handler is.
Crash ==
  /\ May("crash")
  /\ Restart
  /\ lost' = lost \cup (Stored \ Durable)

\* A step of the handler that is running.
HandlerStep ==
  \/ PushToStack \/ InsertOne \/ Drain \/ Flushed
  \/ PeekFile \/ SendPeeked
  \/ ReadHead \/ ReadStop \/ ReadIntoRam \/ ReadMoveDown \/ ReadEnd
  \/ SaveHead \/ HisFileCreate \/ SaveLoop \/ SaveFrame \/ SaveEnd
  \/ EvictStop \/ EvictSkip \/ EvictMoveDown \/ EvictEnd

Next ==
  \/ ReportOffline \/ ReportOnline \/ SendNewest \/ SaveToHistoryFile
  \/ ConfirmCache \/ HisFileDelete
  \/ HandlerStep
  \/ Crash

Spec == Init /\ [][Next]_vars

\* The handler that runs is the only thread: it always takes its next step.
\* Fairness of the link: the 1 s timer calls protocol_send_gps_msg for ever
\* while logged in, and the server acknowledges what it receives, although
\* the connection may be lost (SaveToHistoryFile) between any two of these.
FairSpec ==
  /\ Spec
  /\ WF_vars(HandlerStep)
  /\ SF_vars(SendNewest)
  /\ SF_vars(ConfirmCache)

-----------------------------------------------------------------------------
(* Properties.                                                             *)

\* The header never promises a frame that was not written, the file never
\* outgrows SAVE_HIS_MAX_NUM frames, and no frame is written beyond them,
\* after whatever crash or failing file operation.
FileSound ==
  /\ count <= HisMax
  /\ \A i \in Slot : i < count => frame[i] # None
  /\ ~fileOk => count = 0
  /\ recordNum <= HisMax
  /\ pc = "saveFrame" => recordNum < HisMax

\* As long as the file operations work, a record that was reported is stored,
\* was confirmed by the server or evicted by a full file, or was in RAM when
\* power failed: overflowing, re-reading, resending, losing the connection
\* and a planned reboot lose nothing.
Conservation ==
  1 .. produced \subseteq Stored \cup confirmed \cup evicted \cup lost

\* As long as no operation fails, a record is stored once, and not any more
\* once it was confirmed or evicted: nothing is reported twice.
StoredOnce ==
  /\ Cardinality(Stored) = Len(ram) + Len(cache) + Cardinality(LiveSlots)
                             + Cardinality(InHand)
  /\ Stored \cap (confirmed \cup evicted) = {}

\* A save that had to evict makes exactly the room it needs: it ends with an
\* empty RAM deque and a full file.
EvictionTight ==
  pc = "saveEnd" => ram = <<>> /\ (delNum > 0 => recordNum = HisMax)

\* Crashes at any point of any file operation: a record the next boot would
\* find in the file stays there until it has been read back to RAM or evicted.
NoDurableLoss ==
  [][Durable \subseteq Durable' \cup ToSet(ram') \cup ToSet(cache')
                        \cup evicted']_vars

\* While the link is fair every record is confirmed or evicted in the end.
Reported == 1 .. produced \subseteq confirmed \cup evicted
EventuallyReported == ~Reported ~> Reported

-----------------------------------------------------------------------------
(* The strengthening that makes FileSound inductive.                       *)

Scanning == {"readLoop", "readEnd", "evict", "evictEnd"}
Saving == {"saveHead", "create", "saveLoop", "saveFrame", "saveEnd", "evict",
           "evictEnd"}
Reading == {"readHead", "readLoop", "readEnd"}

\* The caller of the file function that runs, or the running operation.
Caller == IF pc \in Saving \cup Reading THEN ret ELSE pc

\* Every handler has the record it is about to insert, and the drain loop is
\* entered and left where it should.
CallInv ==
  /\ Caller \in {"push", "insert"} =>
       IF draining THEN cache # <<>> ELSE inHand \in Record /\ after = "none"
  /\ Caller \in {"idle", "peek"} => ~draining /\ after = "none"
  /\ Caller = "flushed" => ~draining
  /\ after = "push" => inHand \in Record

\* The two indices of a copying loop, and the frames it walks over.
ScanInv ==
  /\ pc \in Scanning \cup {"saveLoop", "saveFrame", "saveEnd"}
       => \A i \in Slot : i < recordNum => frame[i] # None
  /\ newIdx <= idx
  /\ idx <= HisMax
  /\ pc \notin Scanning => idx = 0 /\ newIdx = 0
  /\ pc \in {"evict", "evictEnd"} =>
       /\ delNum > 0
       /\ newIdx = 0 \/ newIdx + delNum <= idx
       /\ ram # <<>>
  /\ pc \in Scanning => idx <= recordNum
  /\ pc = "saveFrame" => ram # <<>>
  /\ pc = "create" => count = 0

IInv == TypeOK /\ FileSound /\ CallInv /\ ScanInv

-----------------------------------------------------------------------------
(* The strengthening behind Conservation, NoDurableLoss and EvictionTight, *)
(* while no file operation and no allocation fails.                        *)

MildFaults == Faults \subseteq {"crash", "send"}

\* The frames a copying loop has moved down so far.
Kept == {frame[i] : i \in {j \in Slot : j < newIdx}}

\* A copying loop only overwrites what it has a copy of, or gave up.
CopyInv ==
  /\ pc \in {"readLoop", "readEnd"} =>
       /\ recordNum = count
       /\ \A i \in Slot : newIdx <= i /\ i < idx => frame[i] \in ToSet(ram) \cup Kept
  /\ pc \in {"evict", "evictEnd"} =>
       \A i \in Slot : newIdx <= i /\ i < idx => frame[i] \in evicted \cup Kept
  /\ pc \in {"saveLoop", "saveFrame", "saveEnd", "evict", "evictEnd"}
       => count <= recordNum
  /\ pc \in {"readEnd", "evictEnd"} => idx = recordNum

\* A save empties ram, and a handler ends with nothing left to insert.
FlowInv ==
  /\ draining \/ Caller \in {"drain", "flushed", "idle", "peek"}
       => after = "push" \/ inHand = None
  /\ pc = "insert" => Len(ram) < RamMax
  /\ pc \in {"saveEnd", "flushed"} => ram = <<>>
  /\ pc \in Reading => ret \in {"push", "peek"}
  /\ pc \in Saving => ret \in {"insert", "flushed"}
  /\ Caller = "flushed" => cache = <<>>

\* A save evicts at most once, and exactly as many frames as it appends.
EvictInv ==
  /\ Len(ram) <= RamMax
  /\ pc \notin {"saveLoop", "saveFrame", "saveEnd", "evict", "evictEnd"}
       => delNum = 0
  /\ pc \in {"saveLoop", "saveFrame", "saveEnd"} /\ delNum > 0
       => recordNum + Len(ram) = HisMax
  /\ pc \in {"evict", "evictEnd"} =>
       /\ delNum = Len(ram)
       /\ recordNum = HisMax
       /\ idx >= delNum => newIdx + delNum = idx

SafeInv == IInv /\ CopyInv /\ FlowInv /\ EvictInv

-----------------------------------------------------------------------------
(* The strengthening behind StoredOnce, while no operation fails.          *)

\* Each place holds a record once.
EachOnce ==
  /\ IsInjective(ram) /\ IsInjective(cache)
  /\ \A i, j \in LiveSlots : frame[i] = frame[j] => i = j

\* No two places hold the same record.
Apart ==
  /\ ToSet(ram) \cap ToSet(cache) = {} /\ ToSet(ram) \cap InFile = {}
  /\ ToSet(cache) \cap InFile = {}
  /\ InHand \cap (ToSet(ram) \cup ToSet(cache) \cup InFile) = {}

\* What the store holds was reported and is neither confirmed nor evicted, and no
\* report is interrupted by a refused send.
OnceInv ==
  /\ EachOnce /\ Apart
  /\ Stored \cap (confirmed \cup evicted) = {}
  /\ Stored \cup confirmed \cup evicted \subseteq 1 .. produced
  /\ after # "push"
=============================================================================
