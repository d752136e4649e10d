------------------------------- MODULE Recoder -------------------------------
(***************************************************************************)
(* The voice recorder (recoder.c): recordings go round a ring of files,    *)
(* and the oldest one is sent to the server in packs while the next is     *)
(* recorded.                                                               *)
(*                                                                         *)
(* Work is one call of recoder_timer_proc, which first sees to the         *)
(* recording and then to the upload. The SDK ends a recording and reports  *)
(* it by a callback; a recording that was stopped is reported later. The   *)
(* module is created if and only if its status is not INIT.                *)
(*                                                                         *)
(* Of the time at which a recording began only the seconds are kept, for   *)
(* find_voice_file_index_by_time returns a file whose seconds agree.       *)
(***************************************************************************)
EXTENDS Integers

CONSTANTS
  MaxVoice,    \* MAX_VOICE_FILE
  MaxCount,    \* RECODER_FILE_SEND_COUNT
  IndexRange,  \* 2^8, the range of the queue's indices
  Packs,       \* the packs of the longest recording
  Lengths,     \* the numbers of packs that a file may have
  Times,       \* seconds at which a recording may begin
  Distinct,    \* do recordings of the ring begin at different seconds
  LateResult   \* may a stopped recording be reported in the next session

VoiceSlots == 0 .. MaxVoice - 1
NoSlot == -1
NoVoice == -1

ASSUME RecoderAssumption ==
  /\ MaxVoice \in Nat \ {0} /\ MaxCount \in Nat \ {0} /\ Packs \in Nat
  /\ Lengths \subseteq 0 .. Packs
  /\ IndexRange \in Nat /\ IndexRange > MaxVoice
  /\ Times \subseteq Nat
  /\ Distinct \in BOOLEAN /\ LateResult \in BOOLEAN

VARIABLES
  status,     \* s_recoder.status
  cb,         \* is a callback registered
  state,      \* s_recoder_ctrl.state
  begun,      \* has the upload left VOICE_UP_NONE
  in, out,    \* the queue
  sendIndex, sendCount,
  lapped,     \* has `in` come round to `out` in this session
  voice,      \* of each slot its voice_file_struct and its file
  mic,        \* the slot that is being recorded
  due,        \* slots whose recording was stopped and is yet to be reported
  online,     \* gprs_is_ok
  acks,       \* answers of the server on their way
  got         \* what it has of the recordings in the slots

net == <<online, acks, got>>
ring == <<begun, in, out, sendIndex, sendCount, lapped>>
recoderVars == <<status, cb, state, ring, voice, mic, due, net>>

\* size is the length of the file in packs. over, unknown to the code, says that
\* a recording began in a slot whose last one had not been sent.
Voice ==
  [lock : BOOLEAN, complete : BOOLEAN, time : Times \cup {0}, open : BOOLEAN,
   ack : SUBSET (0 .. Packs - 1), send : SUBSET (0 .. Packs - 1),
   size : NoVoice .. Packs, over : BOOLEAN]

Ack == [pack : 0 .. Packs - 1, time : Times \cup {0}]

RecoderTypeOK ==
  /\ status \in {"INIT", "WORK", "FAIL"}
  /\ state \in {"IDLE", "INIT", "GOING", "BROK"}
  /\ cb \in BOOLEAN /\ begun \in BOOLEAN /\ lapped \in BOOLEAN
  /\ in \in 0 .. IndexRange - 1 /\ out \in 0 .. IndexRange - 1
  /\ sendIndex \in VoiceSlots /\ sendCount \in 0 .. MaxCount - 1
  /\ voice \in [VoiceSlots -> Voice]
  /\ mic \in VoiceSlots \cup {NoSlot} /\ due \subseteq VoiceSlots
  /\ online \in BOOLEAN
  /\ acks \subseteq Ack
  /\ got \subseteq VoiceSlots \X (0 .. Packs - 1)

BlankSlot == [lock |-> FALSE, complete |-> FALSE, time |-> 0, open |-> FALSE,
          ack |-> {}, send |-> {}, size |-> NoVoice, over |-> FALSE]

RecoderInit ==
  /\ status = "INIT" /\ cb = FALSE /\ state = "IDLE"
  /\ begun = FALSE /\ in = 0 /\ out = 0 /\ sendIndex = 0 /\ sendCount = 0 /\ lapped = FALSE
  /\ voice = [i \in VoiceSlots |-> BlankSlot]
  /\ mic = NoSlot /\ due = {}
  /\ online \in BOOLEAN /\ acks = {} /\ got = {}

-----------------------------------------------------------------------------
(* Commands: start_recode, stop_recode.                                    *)

\* recoder_control_init. What the files hold is of no interest any more, for
\* recoder_file_create deletes them.
ControlInit ==
  /\ state' = "INIT"
  /\ begun' = FALSE /\ in' = 0 /\ out' = 0 /\ sendIndex' = 0 /\ sendCount' = 0
  /\ lapped' = FALSE
  /\ voice' = [i \in VoiceSlots |-> BlankSlot]
  /\ got' = {}
  /\ UNCHANGED <<online, acks>>

\* GM_StopRecord; the result is reported later.
Stopped ==
  /\ mic' = NoSlot
  /\ due' = due \cup ({mic} \ {NoSlot})

\* recoder_create.
StartRecode(service) ==
  /\ status = "INIT"
  /\ status' = "WORK"
  /\ cb' = (cb \/ service)
  /\ ControlInit
  /\ UNCHANGED <<mic, due>>

\* recoder_destroy. What a callback finds now is dropped as long as the state
\* is not beyond INIT.
Destroy ==
  /\ status' = "INIT"
  /\ cb' = FALSE
  /\ IF state = "GOING" THEN Stopped ELSE UNCHANGED <<mic, due>>
  /\ ControlInit

StopRecode ==
  /\ status # "INIT"
  /\ Destroy

\* A recorder that does not run registers the callback all the same.
StopIdle(service) ==
  /\ status = "INIT"
  /\ cb' = (cb \/ service)
  /\ UNCHANGED <<status, state, ring, voice, mic, due, net>>

\* recoder_timer_proc after GM_StartRecord failed.
FailProc ==
  /\ status = "FAIL"
  /\ Destroy

\* recoder_file_create.
FileCreate ==
  /\ status = "WORK" /\ state = "INIT"
  /\ state' = "GOING"
  /\ in' = 0 /\ out' = 0 /\ lapped' = FALSE
  /\ voice' = [i \in VoiceSlots |-> [voice[i] EXCEPT !.size = NoVoice, !.open = FALSE]]
  /\ due' = IF LateResult THEN due ELSE {}
  /\ UNCHANGED <<status, cb, begun, sendIndex, sendCount, mic, net>>

-----------------------------------------------------------------------------
(* The upload: recoder_voice_file_upload_proc, on the slots v as they are  *)
(* when it is called.                                                      *)

\* Mutant: an index that is wider than the u8 of the code.
NextWide(k) == k + 1

\* An index of the queue, plus one.
Next1(k) == (k + 1) % IndexRange

\* Mutant: a slot that is deleted stays locked.
DeletedLocked(s, busy) ==
  [BlankSlot EXCEPT !.lock = TRUE, !.over = busy, !.size = IF busy THEN s.size ELSE NoVoice]

\* delete_voice_file; a file that is being recorded stays.
Deleted(s, busy) ==
  [BlankSlot EXCEPT !.over = busy, !.size = IF busy THEN s.size ELSE NoVoice]

\* The file leaves the ring.
Leaves(v, i) ==
  /\ voice' = [v EXCEPT ![i] = Deleted(v[i], mic' = i)]
  /\ out' = Next1(out)
  /\ sendCount' = 0

\* Mutant: the last pack, which is shorter than the others, is forgotten.
AllButLast(n) == 0 .. n - 2

\* A bit for each pack of a file of n packs.
AllPacks(n) == 0 .. n - 1

\* open_voice_file; a file that is still being recorded may have any length.
Opened(s, busy) ==
  IF s.open THEN {[s EXCEPT !.lock = TRUE]}
  ELSE {[s EXCEPT !.lock = TRUE, !.open = TRUE, !.ack = AllPacks(n),
                  !.send = s.send \cup AllPacks(n)] :
          n \in IF busy THEN Lengths ELSE {s.size} \ {NoVoice}}

\* Mutant: packs are sent again without end.
CountsNot == 0

\* Counting the times that all packs without an answer are sent again.
Counted == sendCount + 1

\* The next pack is sent, as the last one was answered or given up; or it is
\* not time yet; or the pack cannot be read, allocated or sent. The server may
\* never get it.
SendPack(v, i, s, a, g) ==
  /\ \E j \in s.send :
       /\ \A k \in s.send : j <= k
       /\ voice' = [v EXCEPT ![i] = [s EXCEPT !.send = s.send \ {j}]]
       /\ \/ /\ got' = g \cup {<<i, j>>}
             /\ acks' = a \cup {[pack |-> j, time |-> s.time]}
          \/ got' = g /\ acks' = a
  /\ UNCHANGED <<out, sendCount>>

Waits(v, i, s) ==
  /\ s.send \cup s.ack # {}
  /\ voice' = [v EXCEPT ![i] = s]
  /\ UNCHANGED <<out, sendCount>>

\* Everything was sent, and something was not answered for a long time.
Resend(v, i, s) ==
  /\ s.send = {} /\ s.ack # {}
  /\ IF Counted < MaxCount
     THEN /\ voice' = [v EXCEPT ![i] = [s EXCEPT !.send = s.ack]]
          /\ sendCount' = Counted
          /\ UNCHANGED out
     ELSE Leaves(v, i)

\* Everything is answered, though it may be that some is to be sent again.
Finish(v, i, s) ==
  /\ s.ack = {}
  /\ Leaves(v, i)

OpenFails(v, i) ==
  /\ v[i].complete /\ ~v[i].open
  /\ Leaves(v, i)

\* A slot that was not recorded is passed by.
PassBy(v, i) ==
  /\ ~v[i].complete
  /\ IF v[i].lock THEN voice' = v /\ UNCHANGED out
     ELSE /\ voice' = [v EXCEPT ![i].open = FALSE]
          /\ out' = Next1(out)
  /\ UNCHANGED sendCount

\* What the server has of a file is of no interest when the file has left.
Forgets(i, a, g) == acks' = a /\ got' = {p \in g : p[1] = i => out' = out}

\* a and g are what the network and the server have.
Upload(v, a, g) ==
  IF begun /\ online /\ in # out
  THEN LET i == out % MaxVoice
       IN /\ sendIndex' = i
          /\ \/ PassBy(v, i) /\ acks' = a /\ got' = g
             \/ OpenFails(v, i) /\ Forgets(i, a, g)
             \/ /\ v[i].complete
                /\ \E s \in Opened(v[i], mic' = i) :
                     \/ SendPack(v, i, s, a, g)
                     \/ /\ Waits(v, i, s) \/ Resend(v, i, s) \/ Finish(v, i, s)
                        /\ Forgets(i, a, g)
  ELSE voice' = v /\ acks' = a /\ got' = g /\ UNCHANGED <<out, sendIndex, sendCount>>

-----------------------------------------------------------------------------
(* The recording: recoder_work_recoding_proc, with the upload after it.    *)

\* Mutant: a ring of one file less.
RecordingShort == in % (MaxVoice - 1)

Recording == in % MaxVoice

InWork == status = "WORK" /\ state = "GOING"

\* The second of the minute. If Distinct it is not that of another slot, nor 0,
\* which is that of empty ones; which of the others it is does not matter then.
MayBegin(i, t) ==
  LET taken == {0} \cup {voice[k].time : k \in VoiceSlots \ {i}}
  IN Distinct => t \notin taken /\ \A u \in Times \ taken : t <= u

\* GM_StartRecord succeeds.
StartRecord(t) ==
  LET i == Recording
      s == voice[i]
  IN /\ InWork /\ ~s.lock /\ mic = NoSlot
     /\ MayBegin(i, t)
     /\ mic' = i
     /\ Upload([voice EXCEPT ![i] = [s EXCEPT !.lock = TRUE, !.time = t,
                                              !.size = 0, !.over = s.complete]],
               {a \in acks : Distinct => a.time # t},
               {g \in got : g[1] # i})
     /\ UNCHANGED <<status, cb, state, begun, in, lapped, due, online>>

\* It fails, as it must while another recording goes on.
StartFails ==
  /\ InWork /\ ~voice[Recording].lock
  /\ status' = "FAIL"
  /\ Stopped
  /\ Upload(voice, acks, got)
  /\ UNCHANGED <<cb, state, begun, in, lapped, online>>

\* The recording goes on, or its time is over.
Goes ==
  /\ InWork /\ voice[Recording].lock
  /\ \/ UNCHANGED <<mic, due>>
     \/ ~voice[Recording].complete /\ Stopped
  /\ Upload(voice, acks, got)
  /\ UNCHANGED <<status, cb, state, begun, in, lapped, online>>

\* What the SDK reports (gm_record.h): 1 failure, 2 success, 3 terminated,
\* 4 disc full, 5 end of file, 6 no space. The code counts from 0.
Results == 1 .. 6

\* recoder_recode_result_call_back: RES_RECD_SUCESS, TERMINATED, DISC_FULL.
Completed(i, n) ==
  /\ in' = Next1(in)
  /\ lapped' = (lapped \/ in' = out)
  /\ voice' = [voice EXCEPT ![i].lock = FALSE, ![i].complete = TRUE,
                            ![i].size = IF cb THEN n ELSE NoVoice]
  /\ begun' = (begun \/ cb)
  /\ UNCHANGED <<status, cb, state, out, sendIndex, sendCount, net>>

\* RES_RECD_END_OF_FILE, NO_SPACE, and all others: the session is over.
SessionBroken(i, r) ==
  /\ state' = "BROK"
  /\ voice' = IF r \in {4, 5} THEN [voice EXCEPT ![i] = BlankSlot] ELSE voice
  /\ lapped' = FALSE
  /\ UNCHANGED <<status, cb, begun, in, out, sendIndex, sendCount, net>>

\* The recording in slot i has ended, on its own or because it was stopped.
Result(i) ==
  /\ mic = i \/ i \in due
  /\ IF i \in due THEN due' = due \ {i} /\ UNCHANGED mic
                  ELSE mic' = NoSlot /\ UNCHANGED due
  /\ IF state \in {"IDLE", "INIT"}
     THEN UNCHANGED <<status, cb, state, ring, voice, net>>
     ELSE \E r \in Results :
            IF r \in 1 .. 3 THEN \E n \in Lengths : Completed(i, n)
                            ELSE SessionBroken(i, r)

-----------------------------------------------------------------------------
(* The server, the network and time.                                       *)

\* Mutant: whatever file is being sent takes the answer.
FindAny(t) == sendIndex

\* find_voice_file_index_by_time.
Find(t) ==
  IF \E i \in VoiceSlots : voice[i].time = t
  THEN CHOOSE i \in VoiceSlots :
         voice[i].time = t /\ \A k \in VoiceSlots : voice[k].time = t => i <= k
  ELSE MaxVoice

\* recoder_file_send_ack.
SendAck(a) ==
  /\ a \in acks
  /\ acks' = acks \ {a}
  /\ IF sendIndex = Find(a.time)
     THEN /\ voice' = [voice EXCEPT ![sendIndex].ack = @ \ {a.pack}]
          /\ sendCount' = 0
     ELSE UNCHANGED <<voice, sendCount>>
  /\ UNCHANGED <<status, cb, state, begun, in, out, sendIndex, lapped, mic, due, online, got>>

\* The connection is lost with every answer on it.
Lost ==
  /\ acks # {}
  /\ acks' = {}
  /\ UNCHANGED <<status, cb, state, ring, voice, mic, due, online, got>>

Bearer ==
  /\ online' = ~online
  /\ UNCHANGED <<status, cb, state, ring, voice, mic, due, acks, got>>

Work == (\E t \in Times : StartRecord(t)) \/ StartFails \/ Goes

\* recoder_timer_proc.
Timer == FailProc \/ FileCreate \/ Work

RecoderNext ==
  \/ \E service \in BOOLEAN : StartRecode(service) \/ StopIdle(service)
  \/ StopRecode \/ Timer
  \/ \E i \in VoiceSlots : Result(i)
  \/ \E a \in acks : SendAck(a)
  \/ Lost \/ Bearer

RecoderSpec == RecoderInit /\ [][RecoderNext]_recoderVars

\* The timer runs, and does not find that it is not time yet, or that a pack
\* cannot be sent, for ever; the SDK ends recordings. The server need not answer.
RecoderFairness ==
  WF_recoderVars(Timer) /\ WF_recoderVars(\E i \in VoiceSlots : Result(i))
RecoderFairSpec == RecoderSpec /\ RecoderFairness

-----------------------------------------------------------------------------
(* Properties.                                                             *)

\* Every pack of a file that is being sent is still waited for, or the server
\* has it, so that a file that leaves the ring answered has arrived: packs and
\* answers may be lost, doubled and late (recoder_file_send_ack).
AckedWasReceived ==
  \A i \in VoiceSlots :
    voice[i].open /\ ~voice[i].over =>
      \A j \in 0 .. voice[i].size - 1 : j \in voice[i].ack \/ <<i, j>> \in got

\* A recording that waits to be sent is only recorded over when the queue counts at
\* least as many recordings as there are files, or when its index has wrapped, which
\* 2^8 not being a multiple of MAX_VOICE_FILE brings back to the same slot, or has
\* come round to the one to be sent.  The count is not that of the files: it stays
\* what it was when a recording is lost this way.
NoOverwrite ==
  [][\A i \in VoiceSlots : voice'[i].over /\ ~voice[i].over =>
       in - out >= MaxVoice \/ in < out \/ lapped]_recoderVars

\* The queue seems empty, for so many recordings waited that its index has come
\* round to that of the next to be sent, and nothing is sent any more.
Overtaken == in = out /\ \E i \in VoiceSlots : voice[i].complete

\* A recording waits to be sent while the bearer is there; it has left the ring, or
\* the bearer, the session or the order of the ring is gone.
Queued(i) == InWork /\ begun /\ voice[i].complete /\ online
Dequeued(i) == ~voice[i].complete \/ ~InWork \/ Overtaken \/ ~online

\* While the bearer is there a recording leaves the ring in the end, whether or
\* not the server answers, or the session does.
EventuallyLeaves == \A i \in VoiceSlots : Queued(i) ~> Dequeued(i)

\* While the bearer is there the recorder never waits for a slot for ever.
Resting == InWork /\ mic = NoSlot /\ online
Resumed == mic # NoSlot \/ ~InWork \/ Overtaken \/ ~online
RecordsOn == Resting ~> Resumed
=============================================================================
