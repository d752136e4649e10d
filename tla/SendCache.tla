------------------------------ MODULE SendCache ------------------------------
(***************************************************************************)
(* The deque s_gps_sending of records that were handed to the main socket  *)
(* (gps_save.c), and the byte arithmetic that decides when the server has  *)
(* them: the protocols have no reply to a position record, so the device   *)
(* compares the acknowledged byte count of the TCP connection with the     *)
(* value saved when the cache was last empty (gps_service.c, socket.c).    *)
(*                                                                         *)
(* sent and acked are true offsets into the byte stream of the connection; *)
(* the code only sees (base + acked) % Width, the counter the SDK reports. *)
(* Closing the connection moves the cache to the history file (GpsSave).   *)
(***************************************************************************)
EXTENDS Integers, Sequences, SequencesExt, FiniteSetsExt

CONSTANTS
  CacheMax,    \* SAVE_CATCH_MAX_NUM
  Width,       \* 2^32, the range of the acknowledgement counter (u32)
  Bases,       \* the counter values a new connection may start from
  RecordLens,  \* lengths of position records
  OtherLens,   \* lengths of logins, heartbeats and replies
  Escapes,     \* bytes that protocol_jt_pack_escape may add to a record
  StreamMax    \* bound of the model: bytes sent on one connection

ASSUME SendCacheAssumption ==
  /\ CacheMax \in Nat \ {0} /\ StreamMax \in Nat
  /\ Width \in Nat /\ Width > StreamMax
  /\ Bases \subseteq 0 .. Width - 1 /\ Bases # {}
  /\ RecordLens \subseteq Nat \ {0} /\ OtherLens \subseteq Nat \ {0}
  /\ Escapes \subseteq Nat

VARIABLES
  cache,      \* s_gps_sending: length of each record, and where it starts
  savedAck,   \* s_gps_socket_extend.saved_socket_ack
  online,     \* s_gps_socket.id >= 0 and the status is LOGIN or WORK
  working,    \* the status is WORK
  base,       \* the counter's value when the connection was made
  sent,       \* bytes the socket took
  acked,      \* bytes the server acknowledged
  confirmedLen, \* history: bytes of the records confirmed on this connection
  confirmedStart \* history: where the last of them starts in the stream

connVars == <<online, working, base, sent, acked>>
ghostVars == <<confirmedLen, confirmedStart>>
vars == <<cache, savedAck, connVars, ghostVars>>

Offset == 0 .. StreamMax
Counter == 0 .. Width - 1

TypeOK ==
  /\ cache \in Seq([len : RecordLens, start : Offset])
  /\ Len(cache) <= CacheMax
  /\ savedAck \in Counter
  /\ online \in BOOLEAN /\ working \in BOOLEAN
  /\ base \in Counter
  /\ sent \in Offset
  /\ acked \in 0 .. sent
  /\ confirmedLen \in Nat
  /\ confirmedStart \in Offset

Init ==
  /\ cache = <<>> /\ savedAck = 0
  /\ online = FALSE /\ working = FALSE /\ base = 0 /\ sent = 0 /\ acked = 0
  /\ confirmedLen = 0 /\ confirmedStart = 0

\* GM_GetTcpStatus, read by gm_socket_get_ackseq: external.
AckSeq == (base + acked) % Width

-----------------------------------------------------------------------------
(* gps_service_confirm_cache.                                              *)

\* Bytes of the first k records.
Total[k \in 0 .. Len(cache)] == IF k = 0 THEN 0 ELSE Total[k - 1] + cache[k].len

\* u32 subtraction: bytes acknowledged since savedAck. It is computed before
\* the case of two zeros sets ack_place, so that case changes nothing else.
ConfirmLen == (AckSeq - savedAck) % Width

\* Mutant: a record needs one byte more than it has.
CoveredLate == Max({k \in 0 .. Len(cache) : k = 0 \/ Total[k] < ConfirmLen})

\* How many of the oldest records those bytes cover.
Covered == Max({k \in 0 .. Len(cache) : Total[k] <= ConfirmLen})

\* Mutant: the saved value is advanced, and does not wrap.
AdvancedNoWrap(k) == IF k = Len(cache) THEN AckSeq ELSE savedAck + Total[k]

\* saved_socket_ack after k records were confirmed.
Advanced(k) ==
  IF k = Len(cache) THEN AckSeq ELSE (savedAck + Total[k]) % Width

Confirm(rest) ==
  LET k == Covered IN
  /\ rest = SubSeq(cache, k + 1, Len(cache))
  /\ savedAck' = Advanced(k)
  /\ confirmedLen' = confirmedLen + Total[k]
  /\ confirmedStart' = IF k = 0 THEN confirmedStart ELSE cache[k].start

-----------------------------------------------------------------------------
\* gps_service_connection_ok: a login of n bytes is the first on every connection.
Connect(n) ==
  /\ ~online /\ n <= StreamMax
  /\ online' = TRUE
  /\ base' \in Bases
  /\ sent' = n /\ acked' = 0
  /\ confirmedLen' = 0 /\ confirmedStart' = 0
  /\ UNCHANGED <<cache, savedAck, working>>

\* gps_service_after_login_response: n bytes of device data and a heartbeat, then WORK.
\* The segment that brings the answer acknowledges what it answers.
LoggedIn(n) ==
  /\ online /\ ~working /\ acked = sent
  /\ sent + n <= StreamMax /\ sent' = sent + n
  /\ working' = TRUE
  /\ UNCHANGED <<cache, savedAck, online, base, acked, ghostVars>>

\* Mutant: the saved counter survives, and so do the records.
CloseForgetsNothing ==
  /\ online
  /\ online' = FALSE /\ working' = FALSE
  /\ UNCHANGED <<cache, savedAck, base, sent, acked, ghostVars>>

\* gps_service_close: the records go back to the store.
Close ==
  /\ online
  /\ cache' = <<>> /\ savedAck' = 0
  /\ online' = FALSE /\ working' = FALSE
  /\ UNCHANGED <<base, sent, acked, ghostVars>>

\* gm_socket_send of anything but a position record of cache_send.
SendOther(n) ==
  /\ online
  /\ sent + n <= StreamMax
  /\ sent' = sent + n
  /\ UNCHANGED <<cache, savedAck, online, working, base, acked, ghostVars>>

\* gps_service_cache_send in status WORK: confirm, remember, send; a full cache sends nothing,
\* and the caller keeps the record.
CacheSend(n, escape) ==
  LET end == sent + n + escape
      rest == SubSeq(cache, Covered + 1, Len(cache)) IN
  /\ online /\ working
  /\ end <= StreamMax
  /\ Confirm(rest)
  /\ IF Len(rest) < CacheMax
       THEN cache' = Append(rest, [len |-> n, start |-> sent]) /\ sent' = end
       ELSE cache' = rest /\ sent' = sent
  /\ UNCHANGED <<online, working, base, acked>>

\* gm_socket_recv: the server sent something.
Receive ==
  /\ online
  /\ Confirm(cache')
  /\ UNCHANGED connVars

\* The network, external: the server's TCP acknowledges some more bytes.
NetAck ==
  /\ online
  /\ acked' \in acked + 1 .. sent
  /\ UNCHANGED <<cache, savedAck, online, working, base, sent, ghostVars>>

Next ==
  \/ Close \/ Receive \/ NetAck
  \/ \E n \in OtherLens : Connect(n) \/ LoggedIn(n) \/ SendOther(n)
  \/ \E n \in RecordLens, e \in Escapes : CacheSend(n, e)

Spec == Init /\ [][Next]_vars

\* While it is connected the server acknowledges what it gets, and answers the
\* heartbeats that gps_service_work_proc sends for ever.
FairSpec == Spec /\ WF_vars(NetAck) /\ WF_vars(Receive)

-----------------------------------------------------------------------------
(* Properties.                                                             *)

\* The device never takes more bytes for delivered than the server has
\* acknowledged on this connection: the counter may wrap, and neither a value
\* saved on an earlier connection nor records of it are counted on this one.
NoOverCount == online => confirmedLen <= acked

\* Records do not block the cache: what was sent leaves it again, although
\* other messages share the counter and escaped records are longer on the
\* wire than in the cache.
CacheDrains == cache # <<>> ~> cache = <<>>

-----------------------------------------------------------------------------
\* "Because gps data have no ack msg. it depends on ack_seq to confirm msg is
\* received" (socket.h:64): of what was confirmed at least the first byte had been
\* acknowledged.  The code takes the bytes of other messages, sent before the record
\* and acknowledged after the counter was saved, for the record's.
ConfirmedWasAcked == online /\ confirmedLen > 0 => confirmedStart < acked
=============================================================================
