----------------------------- MODULE ConfigStore -----------------------------
(* The settings of the device (config_save.c) and the commands and messages  *)
(* that change them (command.c, config_service.c).                           *)
(*                                                                           *)
(* In RAM the settings are `cfg` (s_configs). They are kept as a packed      *)
(* record in three places: RAM that survives a warm reset ("mem"), a main    *)
(* and a minor file; the device type is kept in NVRAM once more. A save      *)
(* writes the places one after the other, each in place; a boot repairs what *)
(* an interrupted save left, unpacks the record and saves it again.          *)
(*                                                                           *)
(* `step` is where the running handler is, `left` the places it has yet to   *)
(* write; at "idle" the device waits for the next command.                   *)
EXTENDS Naturals, Sequences

CONSTANTS Types,       \* device types
          DefaultType, \* what an unknown device becomes (DEVICE_W1)
          NoType,      \* NVRAM that was never written
          Bad,         \* a place whose magic number or checksum is wrong
          MaxChange    \* bound: commands that change a setting

VARIABLES cfg,     \* s_configs
          work,    \* s_Para, Bad while is_valid is UOP_PARA_ERR
          work2,   \* s_Para2
          copy,    \* the three places
          nv,      \* s_nvram->DeviceType
          step, left, opened, \* opened: the first place of `left` is being written
          again,   \* one more save follows (app_main_entry)
          changes, \* commands so far
          \* what the code does not have
          legit,   \* the settings last saved completely and those of interrupted saves since
          saved,   \* a save was completed
          worn     \* a write of a file has failed

handler == <<step, left, opened, again>>
configVars == <<cfg, work, work2, copy, nv, handler, changes, legit, saved, worn>>

Places == {"mem", "main", "minor"}

(* "long" is an address that cannot be packed, because it is too long or has *)
(* no port, "odd" one that is packed but is not accepted at boot. A telephone*)
(* number fits its field or is "long". Of the protocols and their versions   *)
(* there are PROTOCOL_NONE and PROTOCOL_GOOME, unknown and GT02. `volume` is *)
(* CFG_VOICE_ENERGY, 0 by default; `edition` stands for the settings that    *)
(* are copied as they are.                                                   *)
Servers == {"default", "own", "odd", "long"}
Numbers == {"none", "short", "long"}
Settings == [type : Types, server : Servers, lock : BOOLEAN, protocol : 0 .. 1,
             version : 0 .. 1, static : BOOLEAN, number : Numbers, volume : 0 .. 1,
             edition : 0 .. MaxChange]
Paras == [type : Types, server : Servers \cup {"none"}, lock : BOOLEAN,
          merged : {0, 1, 16, 17}, bits : SUBSET {13}, number : Numbers, volume : 0 .. 1,
          edition : 0 .. MaxChange]

ASSUME ConfigAssumption ==
  DefaultType \in Types /\ NoType \notin Types /\ MaxChange \in Nat /\ Bad \notin Paras

(* config_service_set_device replaces what is not a device type and locks    *)
(* the server of the manufacturer.                                           *)
TypeFor(type) == IF type \in Types THEN type ELSE DefaultType
OfDevice(c, type) == [c EXCEPT !.type = TypeFor(type), !.lock = c.server = "default"]

(* The factory settings keep the server and the protocol there are; the      *)
(* defaults do not.                                                          *)
FactorySettings(kept, type) ==
  [type |-> TypeFor(type), server |-> kept.server, lock |-> kept.server = "default",
   protocol |-> kept.protocol, version |-> kept.version,
   static |-> FALSE, number |-> "none", volume |-> 0, edition |-> 0]
Shipped == [server |-> "default", protocol |-> 1, version |-> 1]
Defaults(type) == FactorySettings(Shipped, type)

\* Mutant: the version is put where the protocol is looked for.
MergedSwapped(c) == 16 * c.version + c.protocol

(* Protocol and version share a byte, four bits each.                        *)
Merged(c) == 16 * c.protocol + c.version

(* The switches have a bit each; `static` stands for them all. Its own, 13,  *)
(* is the negation of CFG_IS_STATIC_UPLOAD.                                  *)
PackedBits(c) == IF c.static THEN {} ELSE {13}

(* A number too long for its field is not copied.                            *)
PackedNumber(number) == IF number = "long" THEN "none" ELSE number

PackRest(c) ==
  [type |-> c.type, server |-> c.server, lock |-> c.lock, merged |-> Merged(c),
   bits |-> PackedBits(c), number |-> PackedNumber(c.number), volume |-> c.volume,
   edition |-> c.edition]

(* convert_cfg_to_para gives up at a server address it cannot read: only the *)
(* type was filled in by then.                                               *)
ToPara(c) ==
  IF c.server = "long"
    THEN [type |-> c.type, server |-> "none", lock |-> FALSE, merged |-> 0, bits |-> {},
          number |-> "none", volume |-> 0, edition |-> 0]
    ELSE PackRest(c)

ProtocolOf(p) == p.merged \div 16
VersionOf(p) == p.merged % 16
StaticOf(p) == 13 \notin p.bits

(* convert_para_to_cfg leaves the volume what it was, though it was packed.  *)
FromPara(p, c) ==
  [type |-> p.type, server |-> p.server, lock |-> p.lock,
   protocol |-> ProtocolOf(p), version |-> VersionOf(p), static |-> StaticOf(p),
   number |-> p.number, volume |-> c.volume, edition |-> p.edition]

(* check_para_ok, of a record whose checksum is right.                       *)
ParaOk(p) == p # Bad /\ p.server \in {"default", "own"}

-----------------------------------------------------------------------------
ConfigInit ==
  /\ nv \in {NoType} \cup Types
  /\ cfg = Defaults(DefaultType)
  /\ work = Bad /\ work2 = Bad
  /\ copy = [p \in Places |-> Bad]
  /\ step = "read" /\ left = <<>> /\ opened = FALSE /\ again = FALSE
  /\ changes = 0
  /\ legit = {Defaults(nv)}
  /\ saved = FALSE /\ worn = FALSE

Repair(places) == step' = "load" /\ left' = places

(* read_param_from_file. A place in RAM that is whole replaces the files     *)
(* that are not.                                                             *)
FromMem ==
  /\ copy["mem"] # Bad
  /\ work' = IF copy["main"] = Bad THEN copy["mem"] ELSE copy["main"]
  /\ work2' = IF copy["minor"] = Bad THEN copy["mem"] ELSE copy["minor"]
  /\ CASE copy["main"] # Bad /\ copy["minor"] # Bad -> Repair(<<>>)
       [] copy["main"] # Bad /\ copy["minor"] = Bad -> Repair(<<"minor">>)
       [] copy["main"] = Bad /\ copy["minor"] # Bad -> Repair(<<"main">>)
       [] OTHER -> Repair(<<"main", "minor">>)

\* Mutant: a boot that reads the file that is whole and does not repair the other.
FromFileOnly ==
  /\ copy["mem"] = Bad
  /\ work' = IF copy["main"] = Bad THEN copy["minor"] ELSE copy["main"]
  /\ work2' = IF copy["minor"] = Bad THEN copy["main"] ELSE copy["minor"]
  /\ Repair(<<>>)

(* Without it, one file replaces the other, and the place in RAM.            *)
FromFile ==
  /\ copy["mem"] = Bad
  /\ work' = IF copy["main"] = Bad THEN copy["minor"] ELSE copy["main"]
  /\ work2' = IF copy["minor"] = Bad THEN copy["main"] ELSE copy["minor"]
  /\ CASE copy["main"] # Bad /\ copy["minor"] = Bad -> Repair(<<"minor", "mem">>)
       [] copy["main"] = Bad /\ copy["minor"] # Bad -> Repair(<<"main", "mem">>)
       [] OTHER -> Repair(<<>>)

(* config_service_read_from_local, up to the files.                          *)
Read ==
  /\ step = "read"
  /\ cfg' = Defaults(nv)
  /\ FromMem \/ FromFile
  /\ UNCHANGED <<copy, nv, opened, again, changes, legit, saved, worn>>

(* The end of config_service_read_from_local, which saves the defaults if    *)
(* there is nothing else, and the save in app_main_entry that follows.       *)
Load ==
  /\ step = "load" /\ left = <<>>
  /\ cfg' = IF ParaOk(work) THEN FromPara(work, cfg) ELSE cfg
  /\ again' = ~ParaOk(work)
  /\ step' = "convert"
  /\ UNCHANGED <<work, work2, copy, nv, left, opened, changes, legit, saved, worn>>

(* The start of config_service_save_to_local.                                *)
Convert ==
  /\ step = "convert"
  /\ work' = ToPara(cfg) /\ work2' = ToPara(cfg)
  /\ legit' = legit \cup {cfg}
  /\ step' = "save" /\ left' = <<"mem", "main", "minor">>
  /\ UNCHANGED <<cfg, copy, nv, opened, again, changes, saved, worn>>

(* A place that is being written is worth nothing until it is complete: the  *)
(* files are written in place, or deleted and written.                       *)
Clear ==
  /\ left # <<>> /\ ~opened
  /\ copy' = [copy EXCEPT ![Head(left)] = Bad]
  /\ opened' = TRUE
  /\ UNCHANGED <<cfg, work, work2, nv, step, left, again, changes, legit, saved, worn>>

Content(place) == IF place = "minor" THEN work2 ELSE work

Fill ==
  /\ opened
  /\ copy' = [copy EXCEPT ![Head(left)] = Content(Head(left))]
  /\ opened' = FALSE /\ left' = Tail(left)
  /\ UNCHANGED <<cfg, work, work2, nv, step, again, changes, legit, saved, worn>>

(* A file that cannot be opened or written: its result is not used.          *)
FillFails ==
  /\ left # <<>> /\ Head(left) # "mem"
  /\ opened' = FALSE /\ left' = Tail(left)
  /\ worn' = TRUE
  /\ UNCHANGED <<cfg, work, work2, copy, nv, step, again, changes, legit, saved>>

(* goome_file_nvram_save, the last step of a save.                           *)
WriteNvram ==
  /\ step = "save" /\ left = <<>>
  /\ nv' = work.type
  /\ legit' = {cfg} /\ saved' = TRUE
  /\ step' = IF again THEN "convert" ELSE "idle"
  /\ again' = FALSE
  /\ UNCHANGED <<cfg, work, work2, copy, left, opened, changes, worn>>

-----------------------------------------------------------------------------
(* A command changes the settings in RAM and saves them, unless there is no  *)
(* memory for the packed record.                                             *)
Command(new) ==
  /\ step = "idle" /\ changes < MaxChange
  /\ changes' = changes + 1
  /\ cfg' = new
  /\ step' \in {"convert", "idle"}
  /\ UNCHANGED <<work, work2, copy, nv, left, opened, again, legit, saved, worn>>

(* The volume is only set by a command, RECORDVOL.                           *)
SetVolume == \E v \in 0 .. 1 : Command([cfg EXCEPT !.volume = v])

(* The numbers of SOS and CENTER, and a switch that is kept negated, are     *)
(* only set by commands too.                                                 *)
SetNumber == \E n \in Numbers : Command([cfg EXCEPT !.number = n])
SetStatic == \E b \in BOOLEAN : Command([cfg EXCEPT !.static = b])

(* Set by commands and by the configuration server's message: the protocol,  *)
(* and the values that are copied as they are (intervals, heartbeats,        *)
(* thresholds).                                                              *)
SetProtocol ==
  \E p, v \in 0 .. 1 : Command([cfg EXCEPT !.protocol = p, !.version = v])
SetValue == Command([cfg EXCEPT !.edition = changes + 1])

(* The message has the lock and the server as well; an address must be a     *)
(* name with a dot or an IP address, and a port, but may be too long to be   *)
(* packed. A message of several settings is several of these steps.          *)
SetParam ==
  \/ SetProtocol \/ SetValue
  \/ \E b \in BOOLEAN : Command([cfg EXCEPT !.lock = b])
  \/ \E s \in Servers \ {"odd"} : Command([cfg EXCEPT !.server = s])

(* The SERVER command cuts the address off at 30 characters and checks       *)
(* nothing but the lock.                                                     *)
SetServer == ~cfg.lock /\ \E s \in Servers : Command([cfg EXCEPT !.server = s])

SetDevice == \E t \in Types : Command(OfDevice(cfg, t))

(* The type is the one in NVRAM; FACTORYALL resets the server and the        *)
(* protocol, FACTORY does not.                                               *)
RestoreFactory ==
  \/ Command(FactorySettings(Shipped, nv))
  \/ Command(FactorySettings(cfg, nv))

(* The device stops: a warm reset keeps the retained RAM, a power failure    *)
(* does not.                                                                 *)
DeviceStops ==
  /\ step' = "read" /\ left' = <<>> /\ opened' = FALSE /\ again' = FALSE
  /\ \E power \in BOOLEAN : copy' = IF power THEN [copy EXCEPT !["mem"] = Bad] ELSE copy
  /\ work' = Bad /\ work2' = Bad
  /\ UNCHANGED <<cfg, nv, changes, legit, saved, worn>>

ConfigNext ==
  \/ Read \/ Load \/ Convert \/ Clear \/ Fill \/ FillFails \/ WriteNvram
  \/ SetParam \/ SetNumber \/ SetStatic \/ SetVolume \/ SetServer \/ SetDevice \/ RestoreFactory
  \/ DeviceStops

ConfigSpec == ConfigInit /\ [][ConfigNext]_configVars

-----------------------------------------------------------------------------
(* The values the variables may have.                                        *)
ConfigTypeOK ==
  /\ cfg \in Settings
  /\ work \in Paras \cup {Bad} /\ work2 \in Paras \cup {Bad}
  /\ copy \in [Places -> Paras \cup {Bad}]
  /\ nv \in Types \cup {NoType}
  /\ step \in {"read", "load", "convert", "save", "idle"}
  /\ left \in {<<>>, <<"minor">>, <<"main">>, <<"mem">>, <<"main", "minor">>, <<"minor", "mem">>,
               <<"main", "mem">>, <<"mem", "main", "minor">>}
  /\ opened \in BOOLEAN /\ again \in BOOLEAN
  /\ changes \in 0 .. MaxChange
  /\ legit \subseteq Settings
  /\ saved \in BOOLEAN /\ worn \in BOOLEAN

(* Once the settings were saved, one of the two files is whole at every      *)
(* moment, whatever is interrupted, as long as no write fails: a file is     *)
(* only written while the other one can replace it (goome_file_param_save,   *)
(* read_param_from_file).                                                    *)
FileWhole == ~worn /\ saved => copy["main"] # Bad \/ copy["minor"] # Bad

(* What a boot may make of settings that were saved: a number too long for   *)
(* its field is lost, so is the volume, and with a server that boot refuses  *)
(* everything becomes the default.                                           *)
FittingNumber(c) == IF c.number = "long" THEN "none" ELSE c.number
Restorable(c) ==
  IF c.server \in {"default", "own"}
    THEN {[type |-> c.type, server |-> c.server, lock |-> c.lock,
           protocol |-> c.protocol, version |-> c.version, static |-> c.static,
           number |-> FittingNumber(c), volume |-> 0, edition |-> c.edition]}
    ELSE {Defaults(t) : t \in Types}

(* A boot ends with settings that were saved: the last ones that were saved  *)
(* completely, or those of a save that was interrupted since, never a        *)
(* mixture of two and never older ones (read_param_from_file,                *)
(* convert_cfg_to_para, convert_para_to_cfg), as long as no write fails.     *)
RestoredSettings ==
  [][Load /\ ~worn => cfg' \in UNION {Restorable(c) : c \in legit}]_configVars
=============================================================================
