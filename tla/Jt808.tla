--------------------------------- MODULE Jt808 ---------------------------------
(***************************************************************************)
(* A device on a JT808 platform, src/src/protocol_jt808.c: it registers,   *)
(* gets a code, logs in with it, and takes and reports parameters.  The    *)
(* settings are in RAM and on disk; ConfigStore has how they are saved.    *)
(* Each parameter has the values 0..2, of which its range check refuses    *)
(* one or none.  The result an acknowledgement carries, texts, positions   *)
(* and terminal control are left out.                                      *)
(***************************************************************************)
EXTENDS Naturals, Sequences

CONSTANTS
  MaxCode,  \* codes the platforms give
  MaxSet,   \* parameter messages
  MaxBreak, \* broken sessions, refused or codeless registrations, forgotten devices
  MaxBoot   \* losses of power

VARIABLES
  ram, disk,   \* settings
  session,     \* "down", "login" or "work"
  said,        \* the login message the platform has not answered
  coming,      \* the answer on its way to the device
  codes,       \* per platform: the code it knows the device by, 0 when it does not
  confirmed,   \* per parameter: the value of the last setting, if acknowledged, in a set
  reading,     \* the set of what the last query was answered, until the next setting
  given, sets, breaks, boots

vars == <<ram, disk, session, said, coming, codes, confirmed, reading, given, sets,
          breaks, boots>>

Params == {"heart", "angle", "seconds", "speed"}
Hosts == 1..2
\* Each host listens on one port, and the bytes of an address are none of these ports.
BytesAsPort == 0
Listening == {[host |-> h, port |-> h] : h \in Hosts}

Settings == [heart : 0..2, angle : 0..2, seconds : 0..2, threshold : 0..2,
             alarm : BOOLEAN, locked : BOOLEAN, registered : BOOLEAN,
             code : 0..MaxCode, address : [host : Hosts, port : 0..2]]
TypeOK ==
  /\ ram \in Settings /\ disk \in Settings
  /\ session \in {"down", "login", "work"}
  /\ said \in {<<>>} \cup ({"register", "auth"} \X (0..MaxCode))
  /\ coming \in {<<>>} \cup ({"registered", "accepted", "refused"} \X (0..MaxCode))
  /\ codes \in [Hosts -> 0..MaxCode]
  /\ confirmed \in [Params -> SUBSET (0..2)]
  /\ reading \subseteq [Params -> 0..2]
  /\ given \in 0..MaxCode /\ sets \in 0..MaxSet
  /\ breaks \in 0..MaxBreak /\ boots \in 0..MaxBoot

Init ==
  /\ \E lock \in BOOLEAN :
       ram = [heart |-> 1, angle |-> 0, seconds |-> 1, threshold |-> 1, alarm |-> FALSE,
              locked |-> lock, registered |-> FALSE, code |-> 0,
              address |-> [host |-> 1, port |-> 1]]
  /\ disk = ram /\ session = "down" /\ said = <<>> /\ coming = <<>>
  /\ codes = [h \in Hosts |-> 0] /\ confirmed = [p \in Params |-> {}]
  /\ reading = {} /\ given = 0 /\ sets = 0 /\ breaks = 0 /\ boots = 0

Served == ram.address \in Listening
Platform == ram.address.host

\* protocol_send_login_msg: a registered device sends its code, another registers.
LoginMsg(s) == IF s.registered THEN <<"auth", s.code>> ELSE <<"register", 0>>
Connect ==
  /\ session = "down" /\ Served
  /\ session' = "login" /\ said' = LoginMsg(ram)
  /\ UNCHANGED <<ram, disk, coming, codes, confirmed, reading, given, sets, breaks, boots>>

\* The platform (external) registers a device with a new code, and lets the device in
\* that shows the code.  It may also refuse to register it, or give it no code.
AnswerRegister ==
  /\ said = <<"register", 0>> /\ given < MaxCode /\ given' = given + 1
  /\ coming' = <<"registered", given'>> /\ said' = <<>>
  /\ codes' = [codes EXCEPT ![Platform] = given']
  /\ UNCHANGED <<ram, disk, session, confirmed, reading, sets, breaks, boots>>
NoCode ==
  /\ said = <<"register", 0>> /\ breaks < MaxBreak /\ breaks' = breaks + 1 /\ said' = <<>>
  /\ coming' \in {<<>>, <<"registered", 0>>}
  /\ UNCHANGED <<ram, disk, session, codes, confirmed, reading, given, sets, boots>>
AnswerLogin ==
  /\ \E c \in 0..MaxCode :
       /\ said = <<"auth", c>>
       /\ coming' = <<IF c # 0 /\ c = codes[Platform] THEN "accepted" ELSE "refused", 0>>
  /\ said' = <<>>
  /\ UNCHANGED <<ram, disk, session, codes, confirmed, reading, given, sets, breaks, boots>>
Forget ==
  /\ breaks < MaxBreak /\ breaks' = breaks + 1
  /\ \E h \in Hosts : codes[h] # 0 /\ codes' = [codes EXCEPT ![h] = 0]
  /\ UNCHANGED <<ram, disk, session, said, coming, confirmed, reading, given, sets, boots>>

\* protocol_jt_parse_register_ack: the code, if there is one, and the fact are saved, and
\* the device logs in.
WithCode(s, code) == [s EXCEPT !.registered = TRUE, !.code = IF code = 0 THEN @ ELSE code]
TakeRegistered ==
  /\ session = "login" /\ coming # <<>> /\ coming[1] = "registered" /\ coming' = <<>>
  /\ ram' = WithCode(ram, coming[2]) /\ disk' = ram' /\ said' = LoginMsg(ram')
  /\ UNCHANGED <<session, codes, confirmed, reading, given, sets, breaks, boots>>

\* Mutant: the refusal is not noted.
StillRegistered(s) == s

\* protocol_jt_parse_plat_ack: the next login message of a device that was refused
\* registers it anew; that is not saved.
Refused(s) == [s EXCEPT !.registered = FALSE]
TakeAuth ==
  /\ session = "login" /\ coming # <<>> /\ coming[1] \in {"accepted", "refused"}
  /\ coming' = <<>>
  /\ IF coming[1] = "accepted"
     THEN session' = "work" /\ UNCHANGED ram
     ELSE ram' = Refused(ram) /\ UNCHANGED session
  /\ UNCHANGED <<disk, said, codes, confirmed, reading, given, sets, breaks, boots>>

\* gps_service_change_config: another address ends the registration as well.
At(s, address) ==
  IF address = s.address THEN s ELSE [s EXCEPT !.address = address, !.registered = FALSE]
WithPort(s, port) == At(s, [s.address EXCEPT !.port = port])
WithHost(s, host) == IF s.locked THEN s ELSE At(s, [s.address EXCEPT !.host = host])

\* protocol_jt_parse_set_param, one item.  A host's case goes on into the port's, which
\* takes the bytes of the host for a port, and does not ask for the lock.
InRange(item, v) ==
  /\ item = "heart" => v >= 1
  /\ item = "angle" => v <= 1
Taken(s, m) ==
  CASE m.item = "heart" /\ InRange("heart", m.v) -> [s EXCEPT !.heart = m.v]
    [] m.item = "angle" /\ InRange("angle", m.v) -> [s EXCEPT !.angle = m.v]
    [] m.item = "seconds" -> [s EXCEPT !.seconds = m.v]
    [] m.item = "speed" /\ m.v = 0 -> [s EXCEPT !.alarm = FALSE]
    [] m.item = "speed" /\ m.v # 0 -> [s EXCEPT !.threshold = m.v, !.alarm = TRUE]
    [] m.item = "host" -> WithPort(WithHost(s, m.v), BytesAsPort)
    [] m.item = "port" -> WithPort(s, m.v)
    [] OTHER -> s

\* Mutant: the settings are saved as they were before the message.
SavedBefore(old, new) == old

\* config_service_save_to_local, at the end of the message.
Saved(old, new) == new

\* A message of one or two items, of which the first `whole` have all their bytes: at one that
\* has not the handler returns, neither saving nor acknowledging what came before it.
\* A device that leaves for another address does not acknowledge either.
Items == [item : Params, v : 0..2] \cup [item : {"host", "port"}, v : Hosts]
Confirming(was, p, m, acked) ==
  IF m.item = p /\ InRange(p, m.v) /\ (p = "speed" => m.v # 0)
  THEN IF acked THEN {m.v} ELSE {} ELSE was
SettingOf(items, p, acked) ==
  LET first == Confirming(confirmed[p], p, items[1], acked)
  IN IF Len(items) = 1 THEN first ELSE Confirming(first, p, items[2], acked)
AllTaken(items, whole) ==
  LET first == Taken(ram, items[1]) IN IF whole = 1 THEN first ELSE Taken(first, items[2])
SetParam(items, whole) ==
  LET taken == AllTaken(items, whole)
      moves == taken.address # ram.address
      acked == whole = Len(items) /\ ~moves
  IN /\ session = "work" /\ sets < MaxSet /\ sets' = sets + 1
     /\ ram' = taken
     /\ disk' = IF whole = Len(items) THEN Saved(ram, taken) ELSE disk
     /\ session' = IF moves THEN "down" ELSE session
     /\ confirmed' = [p \in Params |-> SettingOf(items, p, acked)]
     /\ reading' = {}
     /\ UNCHANGED <<said, coming, codes, given, breaks, boots>>
\* Messages of one item are explored, and these of two.
Pairs == {<<"host", "port">>, <<"heart", "speed">>, <<"angle", "host">>}
SetParams ==
  \/ \E m \in Items : SetParam(<<m>>, 1)
  \/ \E m, n \in Items, whole \in 1..2 :
       <<m.item, n.item>> \in Pairs /\ SetParam(<<m, n>>, whole)

\* protocol_jt_pack_param_info: the seconds a speed must last are answered with the
\* variable that holds the turn angle.
Reported(s) ==
  [heart |-> s.heart, angle |-> s.angle, seconds |-> s.angle, speed |-> s.threshold]
GetParam ==
  /\ session = "work" /\ reading' = {Reported(ram)}
  /\ UNCHANGED <<ram, disk, session, said, coming, codes, confirmed, given, sets, breaks,
                 boots>>

\* The connection goes: the login has failed, any other failure, or the device loses
\* power.
Down ==
  /\ session' = "down" /\ said' = <<>> /\ coming' = <<>>
  /\ UNCHANGED <<codes, confirmed, reading, given, sets>>
\* gps_service_login_proc: a login that gets no answer in time is sent again, as
\* another message if the settings have changed, or given up with the connection.
LoginAgain ==
  /\ said' = LoginMsg(ram)
  /\ UNCHANGED <<session, coming, codes, confirmed, reading, given, sets>>
LoginProc ==
  /\ session = "login" /\ said = <<>> /\ coming = <<>>
  /\ LoginAgain \/ Down
  /\ UNCHANGED <<ram, disk, breaks, boots>>
Break ==
  /\ session # "down" /\ breaks < MaxBreak /\ breaks' = breaks + 1
  /\ Down /\ UNCHANGED <<ram, disk, boots>>
Restart ==
  /\ boots < MaxBoot /\ boots' = boots + 1 /\ ram' = disk
  /\ Down /\ UNCHANGED <<disk, breaks>>

Next ==
  \/ Connect \/ AnswerRegister \/ NoCode \/ AnswerLogin \/ Forget
  \/ TakeRegistered \/ TakeAuth \/ SetParams \/ GetParam
  \/ LoginProc \/ Break \/ Restart
Spec == Init /\ [][Next]_vars

\* The timers and the network go on, and a platform answers.
Fairness ==
  /\ WF_vars(Connect) /\ WF_vars(AnswerRegister) /\ WF_vars(AnswerLogin)
  /\ WF_vars(TakeRegistered) /\ WF_vars(TakeAuth) /\ WF_vars(LoginProc)
FairSpec == Spec /\ Fairness

--------------------------------------------------------------------------------

\* What a query is answered is what the platform set and the device acknowledged, in
\* range, whatever connections and restarts lie between; the seconds a speed must last
\* are not, as they are answered with the turn angle (protocol_jt808.c:1799).
ReadsBack ==
  \A r \in reading, p \in Params \ {"seconds"} : confirmed[p] \subseteq {r[p]}

\* A device whose settings name a platform that listens gets in, though the platform
\* may have forgotten it and the saved settings may say it is registered
\* (protocol_jt808.c:1604), or it is sent elsewhere.  `given < MaxCode` is the bound.
LogsIn ==
  (session # "work" /\ Served /\ given < MaxCode)
    ~> (session = "work" \/ ~Served \/ given = MaxCode)
================================================================================
