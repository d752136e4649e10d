-------------------------------- MODULE Agps --------------------------------
(***************************************************************************)
(* The service that fetches the aiding data of the GPS chip,               *)
(* src/src/agps_service.c, and the exchange with the chip by which         *)
(* src/src/gps.c takes it.                                                 *)
(*                                                                         *)
(* On a connection of its own the service asks for the time, and then, if  *)
(* the file in use does not cover that time, for one file in blocks, each  *)
(* after the answer to the one before.  No answer says which request it    *)
(* belongs to: the service takes it for the one it waits for.  The buffer  *)
(* of received bytes outlives the connection.                              *)
(*                                                                         *)
(* The service's own variables are one record, s, and the operators of the *)
(* second section take it from one to the next within a handler.           *)
(*                                                                         *)
(* Two branches of the code are dead and left out.  The connection is      *)
(* always a stream (config_service_agps_socket_type), so that the first    *)
(* answer that is late ends it and nothing is repeated; and nobody asks    *)
(* for another download with re_download (the one call in gps.c that did   *)
(* is a comment), so that agps_service_reset never runs.                   *)
(***************************************************************************)
EXTENDS Naturals, Sequences, FiniteSets

CONSTANTS
  Blocks,   \* blocks of a file
  Skip,     \* blocks of the server's file before the six hours that are wanted
  MaxFlag,  \* files the server has in turn
  MaxLoss,  \* losses: connections, acknowledgements of the chip, broken writes, restarts
  MaxBoot,  \* restarts among them
  NoFile, Torn

VARIABLES
  kind,   \* the kind of chip: "mtk" or "td", which decides the protocol
  s,      \* the service's state, see Idle
  server, \* the flag of the file the server has
  disk,   \* the file on the flash: a sequence of blocks, NoFile or Torn
  fresh,  \* the newest file covers the present time
  aid,    \* the exchange with the chip, see Silent
  pos,    \* the receiver: "off", "search" or "fixed"
  loss, boots,
  stale   \* an answer of an earlier connection was read

vars == <<kind, s, server, disk, fresh, aid, pos, loss, boots, stale>>

\* status; link, the socket; timing, s_agps_socket_extend.timing; flag, start, total
\* and data of the file that is fetched; inuse, the file that is used; asked, the
\* requests the server has not answered; fifo, answers received and not read; old,
\* how many of them came on an earlier connection.
Idle == [status |-> "init", link |-> "none", timing |-> FALSE, flag |-> 0, start |-> 1,
         total |-> 0, data |-> <<>>, inuse |-> NoFile, asked |-> <<>>, fifo |-> <<>>,
         old |-> 0]
\* required, s_agps_socket_extend.required_agps; known, the chip has said who it is;
\* out, what it has been written and has not acknowledged; seg, seg_index; phase,
\* internal_state: before the data, at the data, at work.
Silent == [required |-> FALSE, known |-> FALSE, out |-> {}, seg |-> 0, phase |-> "before"]

Init ==
  /\ kind \in {"mtk", "td"} /\ s = Idle /\ server = 1 /\ disk = NoFile /\ fresh = FALSE
  /\ aid = Silent /\ pos = "off" /\ loss = 0 /\ boots = 0 /\ stale = FALSE

\* A fixed receiver, by gps_is_fixed.
Fixed == pos = "fixed"

--------------------------------------------------------------------------------
(* The chip: what agps_service_require_to_gps and the acknowledgements do. *)

Usable(file) == file # NoFile /\ fresh

\* agps_service_require_to_gps(AGPS_TO_GPS_LNGLAT_TIME): an MTK chip that has been
\* up too long is restarted, and will ask again when it is.
WriteTime(a) == [a EXCEPT !.seg = 0, !.out = IF a.known THEN @ \cup {"time"} ELSE @]
Reopened(a) == [a EXCEPT !.seg = 0, !.out = {}, !.known = FALSE, !.phase = "before"]
TimeRequired(a, usable) ==
  LET b == [a EXCEPT !.required = TRUE] IN
  IF ~usable THEN {b}
  ELSE {WriteTime(b)} \cup (IF kind = "mtk" /\ a.known /\ pos # "off" THEN {Reopened(b)} ELSE {})

\* Mutant: the receiver is never written the files' data.
NoAidings(a, usable) == {a}

\* agps_service_write_to_gps, once the file is read: a receiver that waits for its
\* data is given the time, which begins the exchange.
Aidings(a, usable) == IF usable /\ a.required /\ ~Fixed THEN TimeRequired(a, usable) ELSE {a}

\* agps_service_require_to_gps(AGPS_TO_GPS_DATA), then gps_write_agps_data.
LastSegment(a) == a.seg + 1 = Blocks
DataRequired(a) ==
  IF s.inuse = NoFile THEN [a EXCEPT !.required = TRUE]
  ELSE IF ~fresh THEN [a EXCEPT !.required = TRUE, !.seg = 0]
  ELSE [a EXCEPT !.required = ~LastSegment(a), !.seg = IF LastSegment(a) THEN 0 ELSE @ + 1,
                 !.out = IF a.phase = "data" THEN @ \cup {"data"} ELSE @]

Took(m) == [aid EXCEPT !.out = @ \ {m}]
Acknowledge ==
  /\ pos # "off"
  /\ \/ "time" \in aid.out /\ aid' = [Took("time") EXCEPT !.out = @ \cup {"pos"}]
     \/ "pos" \in aid.out /\ aid' = DataRequired([Took("pos") EXCEPT !.phase = "data"])
     \/ /\ "data" \in aid.out
        /\ LET more == Usable(s.inuse) /\ ~LastSegment(aid) IN
           aid' = (IF aid.phase # "data" THEN Took("data")
                   ELSE [DataRequired(Took("data")) EXCEPT !.phase = IF more THEN "data" ELSE "working"])
  /\ UNCHANGED <<kind, s, server, disk, fresh, pos, loss, boots, stale>>

\* The chip says who it is: request_write_time.
Announce ==
  /\ pos # "off" /\ ~aid.known
  /\ aid' = (IF aid.phase = "before" /\ Usable(s.inuse)
               THEN WriteTime([aid EXCEPT !.known = TRUE, !.required = TRUE])
             ELSE [aid EXCEPT !.known = TRUE, !.required = @ \/ aid.phase = "before"])
  /\ UNCHANGED <<kind, s, server, disk, fresh, pos, loss, boots, stale>>

\* gps_power_on, gps_power_off, a fix and its loss.
Receiver ==
  /\ \/ pos = "off" /\ pos' = "search" /\ aid' = [Silent EXCEPT !.required = aid.required, !.seg = aid.seg]
     \/ pos # "off" /\ pos' = "off" /\ aid' = [aid EXCEPT !.out = {}, !.known = FALSE]
     \/ pos = "search" /\ aid.known /\ pos' = "fixed" /\ aid' = [aid EXCEPT !.phase = "working"]
     \/ pos = "fixed" /\ pos' = "search" /\ UNCHANGED aid
  /\ UNCHANGED <<kind, s, server, disk, fresh, loss, boots, stale>>

--------------------------------------------------------------------------------
(* The service, from record to record. *)

Close(r) == [r EXCEPT !.link = "none", !.asked = <<>>, !.old = Len(r.fifo)]
\* agps_service_close_for_reconnect
Finish(r) == [Close(r) EXCEPT !.status = "finish"]
\* agps_msg_send_timing, agps_msg_send_get_file: gm_socket_send refuses in any
\* status but that of work, and the refusal closes the connection.
Send(r, request) ==
  IF r.status = "work" THEN [r EXCEPT !.asked = Append(@, request)] ELSE Finish(r)
AskFile(r) == Send(r, [what |-> "file", at |-> r.start])
AskTime(r) == Send([r EXCEPT !.timing = (r.status = "work")], [what |-> "time", at |-> 0])

FirstBlock == IF kind = "mtk" THEN Skip + 1 ELSE 1
Wanted(flag) == [i \in 1 .. Blocks |-> <<flag, FirstBlock + i - 1>>]

\* agps_service_check_and_read_file: the flash is read when nothing is in use, and
\* what is torn fails its checksum.
ReadFile(r) == [r EXCEPT !.inuse = IF @ = NoFile /\ disk # Torn THEN disk ELSE @]

\* Mutant: blocks are taken whatever file they belong to.
SameFileUnchecked(r, flag) == TRUE

\* agps_msg_parse_epo_ack.  The first answer only tells the flag and, with the
\* time, where the wanted blocks begin.
SameFile(r, flag) == flag = r.flag
Restarted(r) == [r EXCEPT !.flag = 0, !.total = 0, !.start = 1]
Appended(r, block) == [r EXCEPT !.data = Append(@, block), !.start = @ + 1]
Enough(r) == Len(r.data) >= r.total
\* A file that is complete takes the place of the one in use.
Complete(r) == [r EXCEPT !.inuse = SubSeq(r.data, 1, r.total)]

EpoFirst(r, m) ==
  [r EXCEPT !.start = FirstBlock, !.flag = m.flag, !.total = Blocks, !.data = <<>>]
\* agps_msg_parse_taidou_ack, agps_msg_parse_zkw_ack: the first answer holds the
\* length and the first block; when its text is missing the connection is given up.
TdFirst(r, m) ==
  [r EXCEPT !.flag = m.flag, !.total = Blocks, !.data = <<<<m.flag, m.at>>>>, !.start = 2]

IsFirst(r) == IF kind = "mtk" THEN r.flag = 0 ELSE r.start = 1
AfterFile(r, m) ==
  IF IsFirst(r)
    THEN IF kind = "mtk" THEN AskFile(EpoFirst(r, m))
         ELSE IF m.at = 1 THEN AskFile(TdFirst(r, m)) ELSE Finish(r)
  ELSE IF ~SameFile(r, m.flag) THEN AskFile(Restarted(r))
  ELSE LET n == Appended(r, <<m.flag, m.at>>) IN
       IF Enough(n) THEN Finish(Complete(n)) ELSE AskFile(n)
IsComplete(r, m) ==
  ~IsFirst(r) /\ SameFile(r, m.flag) /\ Enough(Appended(r, <<m.flag, m.at>>))

\* agps_msg_parse_timing_ack: the clock is set, and a file that covers the time
\* makes fetching one needless.
AfterTime(r) ==
  LET n == ReadFile(Restarted([r EXCEPT !.timing = FALSE])) IN
  IF Usable(n.inuse) THEN Finish(n) ELSE AskFile(n)

--------------------------------------------------------------------------------
(* The timer: agps_service_timer_proc. *)

Outside == <<kind, server, loss, boots>>

\* agps_service_init_proc: a fixed receiver with a file that is good needs nothing.
InitProc ==
  /\ s.status = "init"
  /\ LET n == IF Fixed THEN ReadFile(s) ELSE s IN
     /\ s' = (IF Fixed /\ Usable(n.inuse) THEN Finish(n)
              ELSE [n EXCEPT !.status = "connecting", !.link = "opening"])
     /\ aid' = aid
  /\ UNCHANGED <<Outside, disk, fresh, pos, stale>>

\* agps_service_connecting_proc and agps_service_connection_failed, the last try.
ConnectingProc ==
  /\ s.status = "connecting" /\ loss < MaxLoss /\ loss' = loss + 1
  /\ s' = Finish(s)
  /\ UNCHANGED <<kind, server, disk, fresh, aid, pos, boots, stale>>

\* agps_msg_receive reads one answer; agps_write_data_file then stores the file, and
\* a write that breaks off leaves a torn one.
Store(file, l) == 
  \/ disk' = file /\ loss' = l
  \/ disk' = Torn /\ l < MaxLoss /\ loss' = l + 1
Read(r, l) ==
  IF r.fifo = <<>>
    THEN s' = r /\ loss' = l /\ UNCHANGED <<disk, fresh, aid, stale>>
  ELSE LET m == Head(r.fifo)
           n == [r EXCEPT !.fifo = Tail(@), !.old = IF @ > 0 THEN @ - 1 ELSE 0]
       IN
       /\ stale' = (stale \/ s.old > 0)
       /\ IF m.what = "time"
            THEN /\ s' = (IF n.timing THEN AfterTime(n) ELSE n)
                 /\ aid' \in (IF n.timing THEN Aidings(aid, Usable(ReadFile(n).inuse)) ELSE {aid})
                 /\ loss' = l /\ UNCHANGED <<disk, fresh>>
          ELSE /\ s' = AfterFile(n, m)
               /\ IF IsComplete(n, m)
                    THEN fresh' = TRUE /\ aid' \in Aidings(aid, TRUE) /\ Store(s'.inuse, l)
                    ELSE loss' = l /\ UNCHANGED <<disk, fresh, aid>>

\* agps_service_work_proc: an answer that is late by ten seconds ends the
\* connection, as it is a stream; what is in the buffer is read all the same.
WorkProc ==
  /\ s.status = "work" /\ s.fifo # <<>>
  /\ Read(s, loss)
  /\ UNCHANGED <<kind, server, boots, pos>>
Quiet == s.asked = <<>> /\ s.fifo = <<>>
TimedOut ==
  /\ s.status = "work" /\ (loss < MaxLoss \/ Quiet)
  /\ Read(Finish(s), IF Quiet THEN loss ELSE loss + 1)
  /\ UNCHANGED <<kind, server, boots, pos>>

\* Mutant: the service is done whatever is missing.
LacksAny(file) == file = NoFile

\* agps_service_data_finish_proc, in this state and that of error.
Lacks(file) == ~Usable(file)
FinishProc ==
  /\ s.status \in {"finish", "error"}
  /\ LET required == aid.required /\ pos = "search" IN
     /\ aid' = [aid EXCEPT !.required = required]
     /\ s' = (IF required /\ Lacks(s.inuse)
                THEN [Restarted(s) EXCEPT !.timing = FALSE, !.status = "init"]
              ELSE s)
  /\ aid' # aid \/ s' # s
  /\ UNCHANGED <<Outside, disk, fresh, pos, stale>>

--------------------------------------------------------------------------------
(* The network and the rest of the device. *)

\* agps_service_connection_ok
Connected ==
  /\ s.link = "opening" /\ s.status = "connecting"
  /\ s' = AskTime([s EXCEPT !.link = "up", !.status = "work"])
  /\ UNCHANGED <<Outside, disk, fresh, aid, pos, stale>>

\* The server answers in order, and gm_socket_recv puts the answer into the buffer.
Answer ==
  /\ s.status = "work" /\ s.asked # <<>>
  /\ LET r == Head(s.asked)
         m == [what |-> r.what, flag |-> server, at |-> r.at]
     IN s' = [s EXCEPT !.asked = Tail(@), !.fifo = Append(@, m)]
  /\ UNCHANGED <<Outside, disk, fresh, aid, pos, stale>>

\* The connection breaks, or GPRS destroys the service, in any state.
Breaks ==
  /\ loss < MaxLoss /\ loss' = loss + 1
  /\ \/ s.status = "work" /\ s' = Finish(s)
     \/ s.status # "error" /\ s' = [Close(s) EXCEPT !.status = "error"]
  /\ UNCHANGED <<kind, server, disk, fresh, aid, pos, boots, stale>>

\* An acknowledgement of the chip is lost.
LoseAck ==
  /\ loss < MaxLoss /\ loss' = loss + 1
  /\ \E m \in aid.out : aid' = Took(m)
  /\ UNCHANGED <<kind, s, server, disk, fresh, pos, boots, stale>>

\* The server has a new file; the old one no longer covers the time.
NewFile ==
  /\ server < MaxFlag /\ server' = server + 1
  /\ fresh' = FALSE
  /\ UNCHANGED <<kind, s, disk, aid, pos, loss, boots, stale>>

\* agps_service_create, at boot.
Restart ==
  /\ boots < MaxBoot /\ boots' = boots + 1
  /\ loss < MaxLoss /\ loss' = loss + 1
  /\ s' = Idle /\ aid' = Silent /\ pos' = "off"
  /\ UNCHANGED <<kind, server, disk, fresh, stale>>

Next ==
  \/ InitProc \/ ConnectingProc \/ WorkProc \/ TimedOut \/ FinishProc \/ Connected \/ Answer
  \/ Breaks \/ Acknowledge \/ Announce \/ Receiver \/ LoseAck \/ NewFile \/ Restart

Spec == Init /\ [][Next]_vars
\* The timer runs every second; the server answers, and so does the chip.
Fairness ==
  /\ WF_vars(InitProc) /\ WF_vars(WorkProc) /\ WF_vars(FinishProc) /\ WF_vars(Connected)
  /\ WF_vars(Quiet /\ TimedOut) /\ WF_vars(Answer) /\ WF_vars(Acknowledge) /\ WF_vars(Announce)
FairSpec == Spec /\ Fairness

--------------------------------------------------------------------------------

File == Seq((1 .. MaxFlag) \X (1 .. Skip + 2 * Blocks))
TypeOK ==
  /\ s.status \in {"init", "connecting", "work", "finish", "error"}
  /\ s.link \in {"none", "opening", "up"} /\ s.timing \in BOOLEAN
  /\ s.flag \in 0 .. MaxFlag /\ s.total \in {0, Blocks} /\ s.data \in File
  /\ disk \in File \cup {NoFile, Torn} /\ s.inuse \in File \cup {NoFile}
  /\ aid.out \subseteq {"time", "pos", "data"} /\ aid.seg \in 0 .. Blocks - 1
  /\ loss \in 0 .. MaxLoss /\ boots \in 0 .. MaxBoot

\* The file in use, and the one on the flash, is the wanted blocks of one file of
\* the server, in their order - as long as no answer that was left in the buffer by
\* an earlier connection was taken for the answer to a request of this one.
OneFile ==
  stale \/ \A f \in {s.inuse, disk} \ {NoFile, Torn} : \E flag \in 1 .. MaxFlag : f = Wanted(flag)

Starved == aid.required /\ pos = "search"
Fed == Usable(s.inuse) \/ pos # "search" \/ ~aid.required \/ stale
Unaided == aid.required /\ aid.phase = "before" /\ Usable(s.inuse) /\ pos = "search"
Served == ~aid.required \/ ~fresh \/ pos # "search" \/ loss > 0 \/ boots > 0

\* A receiver that searches gets a file, or finds its position without, or is
\* switched off, whatever connections break on the way - with the same exception: one
\* answer left behind can leave the next one behind, and so on without end.
FileComes == Starved ~> Fed

\* A receiver that searches is given the whole file that is there, as long as the
\* chip acknowledges all it is sent: no timer makes good what is lost.
Aided == Unaided ~> Served
================================================================================
