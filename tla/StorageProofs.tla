---------------------------- MODULE StorageProofs ----------------------------
(***************************************************************************)
(* What the device stores stays usable, for every value of the constants:  *)
(* the settings (ConfigStore), the dates of the calendar to the end of     *)
(* 2099 (Calendar), and, with the records (GpsSaveProofs) and the firmware *)
(* (UpdateProofs), the whole of Storage.                                   *)
(***************************************************************************)
EXTENDS Storage, GpsSaveProofs

-----------------------------------------------------------------------------
(* The settings: types, that one of the two files is whole at every        *)
(* moment, and that a boot restores settings that were saved.              *)

USE ConfigAssumption DEF ConfigAssumption

\* What is left to be written in a repair and in a save.
RepairLists == {<<>>, <<"main">>, <<"minor">>, <<"mem">>, <<"main", "minor">>, <<"minor", "mem">>,
                <<"main", "mem">>}
SaveLists == {<<"mem", "main", "minor">>, <<"main", "minor">>, <<"minor">>, <<>>}

Shape ==
  /\ step \in {"read", "convert", "idle"} => left = <<>>
  /\ step = "load" => left \in RepairLists
  /\ step = "save" => left \in SaveLists /\ work # Bad /\ work2 # Bad
  /\ opened => left # <<>>
  /\ left # <<>> => work # Bad /\ work2 # Bad

-----------------------------------------------------------------------------
\* Head and tail of every list that may be left.
LEMMA ListFacts ==
  /\ Head(<<"main">>) = "main" /\ Tail(<<"main">>) = <<>>
  /\ Head(<<"minor">>) = "minor" /\ Tail(<<"minor">>) = <<>>
  /\ Head(<<"mem">>) = "mem" /\ Tail(<<"mem">>) = <<>>
  /\ Head(<<"main", "minor">>) = "main" /\ Tail(<<"main", "minor">>) = <<"minor">>
  /\ Head(<<"minor", "mem">>) = "minor" /\ Tail(<<"minor", "mem">>) = <<"mem">>
  /\ Head(<<"main", "mem">>) = "main" /\ Tail(<<"main", "mem">>) = <<"mem">>
  /\ Head(<<"mem", "main", "minor">>) = "mem"
  /\ Tail(<<"mem", "main", "minor">>) = <<"main", "minor">>
  OBVIOUS

\* A list of files to repair begins with a file, and so does the rest of it.
LEMMA RepairFacts ==
  ASSUME NEW l \in RepairLists, l # <<>>
  PROVE  Head(l) \in Places /\ Tail(l) \in RepairLists
  BY ListFacts DEF RepairLists, Places

\* The same for a list of files to save.
LEMMA SaveFacts ==
  ASSUME NEW l \in SaveLists, l # <<>>
  PROVE  Head(l) \in Places /\ Tail(l) \in SaveLists
  BY ListFacts DEF SaveLists, Places

\* Packing, unpacking and the defaults stay within their types.
LEMMA PackTypes ==
  ASSUME NEW c \in Settings
  PROVE  ToPara(c) \in Paras /\ ToPara(c) # Bad
<1>1. PackRest(c) \in Paras
  <2>1. PackedNumber(c.number) \in Numbers
    BY DEF PackedNumber, Settings, Numbers
  <2>2. PackedBits(c) \in SUBSET {13}
    BY DEF PackedBits
  <2>3. Merged(c) \in {0, 1, 16, 17}
    BY DEF Merged, Settings
  <2> QED
    BY <2>1, <2>2, <2>3 DEF PackRest, Settings, Paras
<1>2. ToPara(c) \in Paras
  BY <1>1 DEF ToPara, Settings, Paras, Numbers
<1> QED
  BY <1>2

\* Unpacking gives values of the types.
LEMMA UnpackTypes ==
  ASSUME NEW p \in Paras, ParaOk(p), NEW c \in Settings
  PROVE  FromPara(p, c) \in Settings
<1>1. ProtocolOf(p) \in 0 .. 1 /\ VersionOf(p) \in 0 .. 1
  <2>1. p.merged \in {0, 1, 16, 17}
    BY DEF Paras
  <2> QED
    BY <2>1 DEF ProtocolOf, VersionOf
<1> QED
  BY <1>1 DEF ParaOk, FromPara, StaticOf, Settings, Paras, Servers, Numbers

\* The factory values are of the types.
LEMMA FactoryTypes ==
  ASSUME NEW kept, kept.server \in Servers, kept.protocol \in 0 .. 1, kept.version \in 0 .. 1,
         NEW t \in Types \cup {NoType}
  PROVE  FactorySettings(kept, t) \in Settings
  BY DEF FactorySettings, TypeFor, Settings, Servers, Numbers

\* So are the defaults.
LEMMA DefaultsTypes ==
  ASSUME NEW t \in Types \cup {NoType}
  PROVE  Defaults(t) \in Settings
  BY FactoryTypes DEF Defaults, Shipped, Servers

-----------------------------------------------------------------------------
TypeInv == ConfigTypeOK /\ Shape

\* Reading the files keeps the types.
LEMMA ReadTypes == TypeInv /\ Read => TypeInv'
<1> SUFFICES ASSUME TypeInv, Read PROVE TypeInv'
  OBVIOUS
<1>1. cfg' \in Settings
  BY DefaultsTypes DEF TypeInv, ConfigTypeOK, Read
<1>2. left' \in RepairLists /\ step' = "load"
  <2>1. CASE FromMem
    BY <2>1 DEF FromMem, Repair, RepairLists
  <2>2. CASE FromFile
    BY <2>2 DEF FromFile, Repair, RepairLists
  <2> QED
    BY <2>1, <2>2 DEF Read
<1>3. copy["mem"] \in Paras \cup {Bad} /\ copy["main"] \in Paras \cup {Bad}
      /\ copy["minor"] \in Paras \cup {Bad}
  BY DEF TypeInv, ConfigTypeOK, Places
<1>4. work' \in Paras \cup {Bad} /\ work2' \in Paras \cup {Bad}
  BY <1>3 DEF Read, FromMem, FromFile
<1>5. left' # <<>> => work' # Bad /\ work2' # Bad
  BY DEF Read, FromMem, FromFile, Repair
<1>6. left = <<>> /\ ~opened /\ opened' = opened
  BY DEF TypeInv, ConfigTypeOK, Shape, Read
<1>7. ConfigTypeOK'
  BY <1>1, <1>2, <1>4, <1>6 DEF TypeInv, ConfigTypeOK, Read, RepairLists
<1> QED
  BY <1>2, <1>5, <1>6, <1>7 DEF TypeInv, Shape

\* Loading at boot keeps them.
LEMMA LoadTypes == TypeInv /\ Load => TypeInv'
<1> SUFFICES ASSUME TypeInv, Load PROVE TypeInv'
  OBVIOUS
<1>1. cfg' \in Settings
  BY UnpackTypes DEF TypeInv, ConfigTypeOK, Load, ParaOk
<1>2. ConfigTypeOK'
  BY <1>1 DEF TypeInv, ConfigTypeOK, Load, ParaOk
<1> QED
  BY <1>2 DEF TypeInv, Shape, Load

\* Converting an old configuration keeps them.
LEMMA ConvertTypes == TypeInv /\ Convert => TypeInv'
<1> SUFFICES ASSUME TypeInv, Convert PROVE TypeInv'
  OBVIOUS
<1>1. ToPara(cfg) \in Paras /\ ToPara(cfg) # Bad
  BY PackTypes DEF TypeInv, ConfigTypeOK
<1>2. ConfigTypeOK'
  BY <1>1 DEF TypeInv, ConfigTypeOK, Convert
<1> QED
  BY <1>1, <1>2 DEF TypeInv, Shape, Convert, SaveLists

\* The lists stay lists when their first place was written.
LEMMA LeftTypes ==
  ASSUME TypeInv, left # <<>>, left' = Tail(left), step' = step
  PROVE  /\ Head(left) \in Places
         /\ \/ step = "load" /\ left' \in RepairLists
            \/ step = "save" /\ left' \in SaveLists
<1>1. CASE step = "load"
  <2>1. left \in RepairLists
    BY <1>1 DEF TypeInv, Shape
  <2>2. Head(left) \in Places /\ Tail(left) \in RepairLists
    BY <2>1, RepairFacts, Zenon
  <2> QED
    BY <1>1, <2>2
<1>2. CASE step = "save"
  <2>1. left \in SaveLists
    BY <1>2 DEF TypeInv, Shape
  <2>2. Head(left) \in Places /\ Tail(left) \in SaveLists
    BY <2>1, SaveFacts, Zenon
  <2> QED
    BY <1>2, <2>2
<1> QED
  BY <1>1, <1>2 DEF TypeInv, ConfigTypeOK, Shape

\* Clearing keeps them.
LEMMA ClearTypes == TypeInv /\ Clear => TypeInv'
<1> SUFFICES ASSUME TypeInv, Clear PROVE TypeInv'
  OBVIOUS
<1>1. copy' \in [Places -> Paras \cup {Bad}]
  BY DEF TypeInv, ConfigTypeOK, Clear
<1>2. ConfigTypeOK'
  BY <1>1 DEF TypeInv, ConfigTypeOK, Clear
<1> QED
  BY <1>2 DEF TypeInv, Shape, Clear

\* Filling a file keeps them.
LEMMA FillTypes == TypeInv /\ Fill => TypeInv'
<1> SUFFICES ASSUME TypeInv, Fill PROVE TypeInv'
  OBVIOUS
<1>1. left # <<>> /\ left' = Tail(left) /\ step' = step
  BY DEF Fill, TypeInv, Shape
<1>2. copy' \in [Places -> Paras \cup {Bad}]
  BY DEF TypeInv, ConfigTypeOK, Fill, Content
<1>3. left' \in RepairLists \cup SaveLists
  BY <1>1, LeftTypes
<1>4. ConfigTypeOK'
  BY <1>2, <1>3 DEF TypeInv, ConfigTypeOK, Fill, RepairLists, SaveLists
<1> QED
  BY <1>1, <1>4, LeftTypes DEF TypeInv, Shape, Fill

\* Filling that fails keeps them.
LEMMA FillFailsTypes == TypeInv /\ FillFails => TypeInv'
<1> SUFFICES ASSUME TypeInv, FillFails PROVE TypeInv'
  OBVIOUS
<1>1. left # <<>> /\ left' = Tail(left) /\ step' = step
  BY DEF FillFails
<1>2. left' \in RepairLists \cup SaveLists
  BY <1>1, LeftTypes
<1>3. ConfigTypeOK'
  BY <1>2 DEF TypeInv, ConfigTypeOK, FillFails, RepairLists, SaveLists
<1> QED
  BY <1>1, <1>3, LeftTypes DEF TypeInv, Shape, FillFails

\* Writing the NVRAM keeps them.
LEMMA NvramTypes == TypeInv /\ WriteNvram => TypeInv'
<1> SUFFICES ASSUME TypeInv, WriteNvram PROVE TypeInv'
  OBVIOUS
<1>1. work.type \in Types
  BY DEF TypeInv, ConfigTypeOK, Shape, WriteNvram, Paras
<1>2. ConfigTypeOK'
  BY <1>1 DEF TypeInv, ConfigTypeOK, WriteNvram
<1> QED
  BY <1>2 DEF TypeInv, Shape, WriteNvram

\* A command keeps them.
LEMMA CommandTypes ==
  ASSUME TypeInv, NEW new \in Settings, Command(new)
  PROVE  TypeInv'
<1>1. changes' \in 0 .. MaxChange
  BY DEF TypeInv, ConfigTypeOK, Command
<1>2. ConfigTypeOK'
  BY <1>1 DEF TypeInv, ConfigTypeOK, Command
<1> QED
  BY <1>2 DEF TypeInv, Shape, Command

\* A step of a command, with the settings it makes.
LEMMA Commands ==
  ASSUME TypeInv,
         \/ SetParam \/ SetNumber \/ SetStatic \/ SetVolume
         \/ SetServer \/ SetDevice \/ RestoreFactory
  PROVE  \E new \in Settings : Command(new)
<1> USE DEF TypeInv, ConfigTypeOK
<1>1. CASE SetParam
  <2>1. ASSUME NEW p \in 0 .. 1, NEW v \in 0 .. 1,
               Command([cfg EXCEPT !.protocol = p, !.version = v])
        PROVE  \E new \in Settings : Command(new)
    BY <2>1 DEF Settings
  <2>3. ASSUME NEW b \in BOOLEAN, Command([cfg EXCEPT !.lock = b])
        PROVE  \E new \in Settings : Command(new)
    BY <2>3 DEF Settings
  <2>5. ASSUME Command([cfg EXCEPT !.edition = changes + 1])
        PROVE  \E new \in Settings : Command(new)
    <3>1. changes + 1 \in 0 .. MaxChange
      BY <2>5 DEF Command
    <3> QED
      BY <2>5, <3>1 DEF Settings
  <2>6. ASSUME NEW s \in Servers, Command([cfg EXCEPT !.server = s])
        PROVE  \E new \in Settings : Command(new)
    BY <2>6 DEF Settings
  <2> QED
    BY <1>1, <2>1, <2>3, <2>5, <2>6 DEF SetParam, SetProtocol, SetValue
<1>6. CASE SetNumber
  BY <1>6 DEF SetNumber, Settings
<1>7. CASE SetStatic
  BY <1>7 DEF SetStatic, Settings
<1>5. CASE SetVolume
  BY <1>5 DEF SetVolume, Settings
<1>2. CASE SetServer
  <2>1. PICK s \in Servers : Command([cfg EXCEPT !.server = s])
    BY <1>2 DEF SetServer
  <2> QED
    BY <2>1 DEF Settings
<1>3. CASE SetDevice
  <2>1. PICK t \in Types : Command(OfDevice(cfg, t))
    BY <1>3 DEF SetDevice
  <2>2. OfDevice(cfg, t) \in Settings
    BY DEF OfDevice, TypeFor, Settings
  <2> QED
    BY <2>1, <2>2
<1>4. CASE RestoreFactory
  <2>1. FactorySettings(Shipped, nv) \in Settings
    BY DefaultsTypes DEF Defaults
  <2>2. FactorySettings(cfg, nv) \in Settings
    BY FactoryTypes DEF Settings
  <2> QED
    BY <1>4, <2>1, <2>2 DEF RestoreFactory
<1> QED
  BY <1>1, <1>2, <1>3, <1>4, <1>5, <1>6, <1>7

\* A crash keeps them.
LEMMA CrashTypes == TypeInv /\ DeviceStops => TypeInv'
<1> SUFFICES ASSUME TypeInv, DeviceStops PROVE TypeInv'
  OBVIOUS
<1>1. copy' \in [Places -> Paras \cup {Bad}]
  BY DEF TypeInv, ConfigTypeOK, DeviceStops
<1>2. ConfigTypeOK'
  BY <1>1 DEF TypeInv, ConfigTypeOK, DeviceStops
<1> QED
  BY <1>2 DEF TypeInv, Shape, DeviceStops

\* They hold in the beginning.
LEMMA InitTypes == ConfigInit => TypeInv
<1> SUFFICES ASSUME ConfigInit PROVE TypeInv
  OBVIOUS
<1>1. cfg \in Settings /\ legit \subseteq Settings
  BY DefaultsTypes DEF ConfigInit
<1>2. copy \in [Places -> Paras \cup {Bad}]
  BY DEF ConfigInit
<1>3. changes \in 0 .. MaxChange
  BY DEF ConfigInit
<1>4. left = <<>> /\ nv \in Types \cup {NoType} /\ saved \in BOOLEAN /\ worn \in BOOLEAN
      /\ opened \in BOOLEAN /\ again \in BOOLEAN
  BY DEF ConfigInit
<1>5. work \in Paras \cup {Bad} /\ work2 \in Paras \cup {Bad}
      /\ step \in {"read", "load", "convert", "save", "idle"}
  BY DEF ConfigInit
<1>6. ConfigTypeOK
  BY <1>1, <1>2, <1>3, <1>4, <1>5 DEF ConfigTypeOK
<1> QED
  BY <1>6 DEF TypeInv, Shape, ConfigInit

\* Every step keeps them.
LEMMA NextTypes == TypeInv /\ [ConfigNext]_configVars => TypeInv'
<1> SUFFICES ASSUME TypeInv, [ConfigNext]_configVars PROVE TypeInv'
  OBVIOUS
<1>1. CASE UNCHANGED configVars
  BY <1>1 DEF TypeInv, ConfigTypeOK, Shape, configVars, handler
<1>2. CASE \/ SetParam \/ SetNumber \/ SetStatic \/ SetVolume
             \/ SetServer \/ SetDevice \/ RestoreFactory
  BY <1>2, Commands, CommandTypes
<1> QED
  BY <1>1, <1>2, ReadTypes, LoadTypes, ConvertTypes, ClearTypes, FillTypes, FillFailsTypes,
     NvramTypes, CrashTypes DEF ConfigNext

(* Every state has the right types.                                        *)
THEOREM SettingsHaveTypes == ConfigSpec => []ConfigTypeOK
<1>1. TypeInv => ConfigTypeOK
  BY DEF TypeInv
<1> QED
  BY <1>1, InitTypes, NextTypes, PTL DEF ConfigSpec

-----------------------------------------------------------------------------
\* Whole: a file that can be read; Images: the records of settings that may
\* be restored.
Whole(file) == copy[file] # Bad
Images == {ToPara(c) : c \in legit}

\* While a file is written the other one is whole; only a handler that writes
\* files ever has one that is not.
Files ==
  ~worn /\ saved =>
    /\ step = "read" => Whole("main") \/ Whole("minor")
    /\ step \in {"convert", "idle"} => Whole("main") /\ Whole("minor")
    /\ step = "load" => work # Bad
    /\ step \in {"load", "save"} =>
         \/ Whole("main") /\ Whole("minor")
         \/ left # <<>> /\ Head(left) = "main" /\ Whole("minor")
         \/ left # <<>> /\ Head(left) = "minor" /\ Whole("main")

\* What a save has written so far.
Done ==
  step = "save" =>
    /\ work = ToPara(cfg) /\ work2 = ToPara(cfg) /\ cfg \in legit
    /\ ~worn =>
         /\ left # <<"mem", "main", "minor">> => copy["mem"] = ToPara(cfg)
         /\ left \in {<<"minor">>, <<>>} => copy["main"] = ToPara(cfg)
         /\ left = <<>> => copy["minor"] = ToPara(cfg)

\* Every place holds settings that may be restored, or nothing.
Kinds ==
  /\ ~worn => \A p \in Places : copy[p] \in Images \cup {Bad}
  /\ ~worn /\ step = "load" => work \in Images \cup {Bad} /\ work2 \in Images \cup {Bad}
  /\ step = "load" => cfg = Defaults(nv)
  /\ ~saved => Defaults(nv) \in legit

StoreInv == TypeInv /\ Files /\ Done /\ Kinds

\* The invariant of the store holds in the beginning.
LEMMA InitStore == ConfigInit => StoreInv
<1> SUFFICES ASSUME ConfigInit PROVE StoreInv
  OBVIOUS
<1>1. TypeInv
  BY InitTypes
<1>2. \A p \in Places : copy[p] = Bad
  BY DEF ConfigInit
<1> QED
  BY <1>1, <1>2 DEF StoreInv, Files, Done, Kinds, ConfigInit

\* Reading the files keeps it.
LEMMA ReadStore == StoreInv /\ Read => StoreInv'
<1> SUFFICES ASSUME StoreInv, Read PROVE StoreInv'
  OBVIOUS
<1>1. TypeInv'
  BY ReadTypes DEF StoreInv
<1>2. step' = "load" /\ cfg' = Defaults(nv) /\ UNCHANGED <<copy, nv, legit, saved, worn>>
  BY DEF Read, FromMem, FromFile, Repair
<1>3. Files'
  <2>1. SUFFICES ASSUME ~worn, saved PROVE Files'
    BY <1>2 DEF Files
  <2>2. Whole("main") \/ Whole("minor")
    BY <2>1 DEF StoreInv, Files, Read
  <2>3. CASE FromMem
    <3>1. work' # Bad
      BY <2>3 DEF FromMem
    <3>2. \/ Whole("main") /\ Whole("minor")
          \/ left' = <<"minor">> /\ Whole("main")
          \/ left' = <<"main">> /\ Whole("minor")
      BY <2>2, <2>3 DEF FromMem, Repair, Whole
    <3> QED
      BY <1>2, <3>1, <3>2, ListFacts DEF Files, Whole
  <2>4. CASE FromFile
    <3>1. work' # Bad
      BY <2>2, <2>4 DEF FromFile, Whole
    <3>2. \/ Whole("main") /\ Whole("minor")
          \/ left' = <<"minor", "mem">> /\ Whole("main")
          \/ left' = <<"main", "mem">> /\ Whole("minor")
      BY <2>2, <2>4 DEF FromFile, Repair, Whole
    <3> QED
      BY <1>2, <3>1, <3>2, ListFacts DEF Files, Whole
  <2> QED
    BY <2>3, <2>4 DEF Read
<1>4. Kinds'
  <2>1. Images' = Images
    BY <1>2 DEF Images
  <2>2. ~worn => work' \in Images \cup {Bad} /\ work2' \in Images \cup {Bad}
    BY DEF StoreInv, Kinds, Read, FromMem, FromFile, Places
  <2> QED
    BY <1>2, <2>1, <2>2 DEF StoreInv, Kinds
<1> QED
  BY <1>1, <1>2, <1>3, <1>4 DEF StoreInv, Done

\* Loading at boot keeps it.
LEMMA LoadStore == StoreInv /\ Load => StoreInv'
<1> SUFFICES ASSUME StoreInv, Load PROVE StoreInv'
  OBVIOUS
<1>1. TypeInv'
  BY LoadTypes DEF StoreInv
<1>2. Files'
  BY DEF StoreInv, Files, Load, Whole
<1>3. Kinds'
  BY DEF StoreInv, Kinds, Load, Images
<1> QED
  BY <1>1, <1>2, <1>3 DEF StoreInv, Done, Load

\* Converting an old configuration keeps it.
LEMMA ConvertStore == StoreInv /\ Convert => StoreInv'
<1> SUFFICES ASSUME StoreInv, Convert PROVE StoreInv'
  OBVIOUS
<1>1. TypeInv'
  BY ConvertTypes DEF StoreInv
<1>2. Files'
  BY DEF StoreInv, Files, Convert, Whole
<1>3. Done'
  BY DEF Done, Convert
<1>4. Kinds'
  <2>1. Images \subseteq Images'
    BY DEF Images, Convert
  <2> QED
    BY <2>1 DEF StoreInv, Kinds, Convert
<1> QED
  BY <1>1, <1>2, <1>3, <1>4 DEF StoreInv

\* The place that Clear, Fill and FillFails are about.
LEMMA Current ==
  ASSUME TypeInv, left # <<>>
  PROVE  \/ step = "load" /\ left \in {<<"main">>, <<"minor">>, <<"mem">>, <<"main", "minor">>,
                                   <<"minor", "mem">>, <<"main", "mem">>}
         \/ step = "save" /\ left \in {<<"mem", "main", "minor">>, <<"main", "minor">>, <<"minor">>}
  BY DEF TypeInv, ConfigTypeOK, Shape, RepairLists, SaveLists

\* Clearing keeps it.
LEMMA ClearStore == StoreInv /\ Clear => StoreInv'
<1> SUFFICES ASSUME StoreInv, Clear PROVE StoreInv'
  OBVIOUS
<1>0. left # <<>> /\ Head(left) \in Places
  BY Current, ListFacts DEF Clear, StoreInv, Places
<1>1. TypeInv'
  BY ClearTypes DEF StoreInv
<1>2. copy' = [copy EXCEPT ![Head(left)] = Bad] /\ copy \in [Places -> Paras \cup {Bad}]
  BY DEF Clear, StoreInv, TypeInv, ConfigTypeOK
<1>3. Files'
  BY <1>0, <1>2, Current, ListFacts DEF StoreInv, Files, Clear, Whole, Places
<1>4. Done'
  BY <1>0, <1>2, Current, ListFacts DEF StoreInv, Done, Clear, Places
<1>5. Kinds'
  BY <1>0, <1>2 DEF StoreInv, Kinds, Clear, Images
<1> QED
  BY <1>1, <1>3, <1>4, <1>5 DEF StoreInv

\* Filling a file keeps it.
LEMMA FillStore == StoreInv /\ Fill => StoreInv'
<1> SUFFICES ASSUME StoreInv, Fill PROVE StoreInv'
  OBVIOUS
<1>0. left # <<>> /\ Head(left) \in Places
  <2>1. left # <<>>
    BY DEF Fill, StoreInv, TypeInv, Shape
  <2> QED
    BY <2>1, Current, ListFacts DEF StoreInv, Places
<1>1. TypeInv'
  BY FillTypes DEF StoreInv
<1>2. copy \in [Places -> Paras \cup {Bad}] /\ work # Bad /\ work2 # Bad
  BY <1>0 DEF StoreInv, TypeInv, ConfigTypeOK, Shape
<1>3. copy' = [copy EXCEPT ![Head(left)] = Content(Head(left))] /\ left' = Tail(left)
  BY DEF Fill
<1>4. Content(Head(left)) # Bad
  BY <1>2 DEF Content
<1>5. Files'
  BY <1>0, <1>2, <1>3, <1>4, Current, ListFacts DEF StoreInv, Files, Fill, Whole, Places
<1>6. Done'
  <2>1. SUFFICES ASSUME step = "save" PROVE Done'
    BY DEF Done, Fill
  <2>2. /\ UNCHANGED <<work, work2, cfg, legit, worn>>
        /\ work = ToPara(cfg) /\ work2 = ToPara(cfg) /\ cfg \in legit
    BY <2>1 DEF Fill, StoreInv, Done
  <2>3. copy'[Head(left)] = ToPara(cfg) /\ \A p \in Places : p # Head(left) => copy'[p] = copy[p]
    BY <1>0, <1>2, <1>3, <2>2 DEF Content
  <2>4. CASE left = <<"mem", "main", "minor">>
    BY <2>1, <2>2, <2>3, <2>4, <1>3, ListFacts DEF Done, Places
  <2>5. CASE left = <<"main", "minor">>
    BY <2>1, <2>2, <2>3, <2>5, <1>3, ListFacts DEF StoreInv, Done, Places
  <2>6. CASE left = <<"minor">>
    BY <2>1, <2>2, <2>3, <2>6, <1>3, ListFacts DEF StoreInv, Done, Places
  <2> QED
    BY <1>0, <2>1, <2>4, <2>5, <2>6, Current DEF StoreInv
<1>7. Kinds'
  <2>1. Images' = Images
    BY DEF Images, Fill
  <2>2. ~worn => Content(Head(left)) \in Images
    <3>1. CASE step = "load"
      BY <1>2, <3>1 DEF StoreInv, Kinds, Content
    <3>2. CASE step = "save"
      BY <3>2 DEF StoreInv, Done, Content, Images
    <3> QED
      BY <1>0, <3>1, <3>2, Current DEF StoreInv
  <2> QED
    BY <1>0, <1>2, <1>3, <2>1, <2>2 DEF StoreInv, Kinds, Fill
<1> QED
  BY <1>1, <1>5, <1>6, <1>7 DEF StoreInv

\* Filling that fails keeps it.
LEMMA FillFailsStore == StoreInv /\ FillFails => StoreInv'
<1> SUFFICES ASSUME StoreInv, FillFails PROVE StoreInv'
  OBVIOUS
<1>1. TypeInv'
  BY FillFailsTypes DEF StoreInv
<1> QED
  BY <1>1 DEF StoreInv, Files, Done, Kinds, FillFails

\* Writing the NVRAM keeps it.
LEMMA NvramStore == StoreInv /\ WriteNvram => StoreInv'
<1> SUFFICES ASSUME StoreInv, WriteNvram PROVE StoreInv'
  OBVIOUS
<1>1. TypeInv'
  BY NvramTypes DEF StoreInv
<1>2. ~worn => \A p \in Places : copy[p] = ToPara(cfg)
  BY ListFacts DEF StoreInv, Done, WriteNvram, Places
<1>3. work # Bad /\ work = ToPara(cfg)
  BY DEF StoreInv, TypeInv, Shape, Done, WriteNvram
<1>4. Files'
  BY <1>2, <1>3 DEF Files, WriteNvram, Whole, Places
<1>5. Kinds'
  <2>1. ToPara(cfg) \in Images'
    BY DEF Images, WriteNvram
  <2> QED
    BY <1>2, <2>1 DEF Kinds, WriteNvram
<1> QED
  BY <1>1, <1>4, <1>5 DEF StoreInv, Done, WriteNvram

\* A command keeps it.
LEMMA CommandStore ==
  ASSUME StoreInv, NEW new \in Settings, Command(new)
  PROVE  StoreInv'
<1>1. TypeInv'
  BY CommandTypes DEF StoreInv
<1>2. Files'
  BY DEF StoreInv, Files, Command, Whole
<1>3. Kinds'
  BY DEF StoreInv, Kinds, Command, Images
<1> QED
  BY <1>1, <1>2, <1>3 DEF StoreInv, Done, Command

\* The invariant has one of the files whole.
LEMMA FilesWhole == StoreInv => FileWhole
  BY Current DEF StoreInv, Files, FileWhole, Whole, TypeInv, ConfigTypeOK

\* A crash keeps it.
LEMMA CrashStore == StoreInv /\ DeviceStops => StoreInv'
<1> SUFFICES ASSUME StoreInv, DeviceStops PROVE StoreInv'
  OBVIOUS
<1>1. TypeInv'
  BY CrashTypes DEF StoreInv
<1>2. copy \in [Places -> Paras \cup {Bad}]
  BY DEF StoreInv, TypeInv, ConfigTypeOK
<1>3. /\ copy'["main"] = copy["main"] /\ copy'["minor"] = copy["minor"]
      /\ \A p \in Places : copy'[p] \in {copy[p], Bad}
  BY <1>2 DEF DeviceStops, Places
<1>4. Files'
  BY <1>3, FilesWhole DEF Files, FileWhole, DeviceStops, Whole
<1>5. Kinds'
  BY <1>3 DEF StoreInv, Kinds, DeviceStops, Images
<1> QED
  BY <1>1, <1>4, <1>5 DEF StoreInv, Done, DeviceStops

\* Every step keeps it.
LEMMA NextStore == StoreInv /\ [ConfigNext]_configVars => StoreInv'
<1> SUFFICES ASSUME StoreInv, [ConfigNext]_configVars PROVE StoreInv'
  OBVIOUS
<1>1. CASE UNCHANGED configVars
  <2>1. TypeInv'
    BY <1>1, NextTypes DEF StoreInv
  <2> QED
    BY <1>1, <2>1 DEF StoreInv, Files, Done, Kinds, Images, Whole, configVars, handler
<1>2. CASE \/ SetParam \/ SetNumber \/ SetStatic \/ SetVolume
             \/ SetServer \/ SetDevice \/ RestoreFactory
  <2>1. PICK new \in Settings : Command(new)
    BY <1>2, Commands DEF StoreInv
  <2> QED
    BY <2>1, CommandStore
<1> QED
  BY <1>1, <1>2, ReadStore, LoadStore, ConvertStore, ClearStore, FillStore, FillFailsStore,
     NvramStore, CrashStore DEF ConfigNext

\* The invariant of the store holds at every moment.
LEMMA StoreCorrect == ConfigSpec => []StoreInv
  BY InitStore, NextStore, PTL DEF ConfigSpec

(* Once the settings were saved, one of the two files is whole at every    *)
(* moment, as long as no write fails.                                      *)
THEOREM FileAlwaysWhole == ConfigSpec => []FileWhole
  BY StoreCorrect, FilesWhole, PTL

\* What boot makes of a packed record.
LEMMA Unpacked ==
  ASSUME NEW c \in Settings, ParaOk(ToPara(c)), NEW old, old.volume = 0
  PROVE  c.server \in {"default", "own"} /\ FromPara(ToPara(c), old) \in Restorable(c)
<1>1. ToPara(c) = PackRest(c) /\ c.server \in {"default", "own"}
  BY DEF ToPara, PackRest, ParaOk
<1>2. PackRest(c).merged = 16 * c.protocol + c.version /\ c.protocol \in 0 .. 1
      /\ c.version \in 0 .. 1
  BY DEF PackRest, Merged, Settings
<1>3. ProtocolOf(PackRest(c)) = c.protocol /\ VersionOf(PackRest(c)) = c.version
  BY <1>2 DEF ProtocolOf, VersionOf
<1>5. StaticOf(PackRest(c)) = c.static
  <2>1. PackRest(c).bits = IF c.static THEN {} ELSE {13}
    BY DEF PackRest, PackedBits
  <2>2. c.static \in BOOLEAN
    BY DEF Settings
  <2>3. 13 \in PackRest(c).bits <=> ~c.static
    BY <2>1, <2>2
  <2> QED
    BY <2>2, <2>3, Zenon DEF StaticOf
<1>4. FromPara(PackRest(c), old) =
        [type |-> c.type, server |-> c.server, lock |-> c.lock, protocol |-> c.protocol,
         version |-> c.version, static |-> c.static, number |-> FittingNumber(c), volume |-> 0,
         edition |-> c.edition]
  BY <1>3, <1>5 DEF FromPara, PackRest, PackedNumber, FittingNumber
<1> QED
  BY <1>1, <1>4 DEF Restorable

\* A record that the check at boot refuses gives way to the defaults.
LEMMA Refused ==
  ASSUME NEW c \in Settings, ~ParaOk(ToPara(c))
  PROVE  Restorable(c) = {Defaults(t) : t \in Types}
<1>1. c.server \notin {"default", "own"}
  BY PackTypes DEF ToPara, PackRest, ParaOk
<1> QED
  BY <1>1 DEF Restorable

\* Boot loads what can be restored of settings that were in force.
LEMMA LoadRestores ==
  ASSUME StoreInv, Load, ~worn
  PROVE  cfg' \in UNION {Restorable(c) : c \in legit}
<1>1. legit \subseteq Settings /\ cfg = Defaults(nv) /\ work \in Images \cup {Bad}
  BY DEF StoreInv, TypeInv, ConfigTypeOK, Kinds, Load
<1>4. cfg.volume = 0
  BY <1>1 DEF Defaults, FactorySettings
<1>2. CASE work # Bad
  <2>1. PICK c \in legit : work = ToPara(c)
    BY <1>1, <1>2 DEF Images
  <2>2. cfg' \in Restorable(c)
    <3>1. CASE ParaOk(work)
      BY <1>1, <1>4, <2>1, <3>1, Unpacked DEF Load
    <3>2. CASE ~ParaOk(work)
      <4>1. cfg' = Defaults(TypeFor(nv)) /\ TypeFor(nv) \in Types
        BY <1>1, <3>2 DEF Load, Defaults, FactorySettings, TypeFor
      <4> QED
        BY <1>1, <2>1, <3>2, <4>1, Refused
    <3> QED
      BY <3>1, <3>2
  <2> QED
    BY <2>1, <2>2
<1>3. CASE work = Bad
  <2>1. Defaults(nv) \in legit
    BY <1>3 DEF StoreInv, Files, Kinds, Load
  <2>2. cfg' = Defaults(nv)
    BY <1>1, <1>3 DEF Load, ParaOk
  <2>3. Defaults(nv) \in Restorable(Defaults(nv))
    <3>1. FittingNumber(Defaults(nv)) = Defaults(nv).number
          /\ Defaults(nv).server = "default"
      BY DEF FittingNumber, Defaults, FactorySettings, Shipped
    <3>2. Defaults(nv) =
            [type |-> Defaults(nv).type, server |-> Defaults(nv).server, lock |-> Defaults(nv).lock,
             protocol |-> Defaults(nv).protocol, version |-> Defaults(nv).version,
             static |-> Defaults(nv).static,
             number |-> Defaults(nv).number, volume |-> 0, edition |-> Defaults(nv).edition]
      BY DEF Defaults, FactorySettings
    <3> QED
      BY <3>1, <3>2 DEF Restorable
  <2> QED
    BY <2>1, <2>2, <2>3
<1> QED
  BY <1>2, <1>3

(* A boot ends with settings that were saved, as far as the packed record  *)
(* can hold them, as long as no write fails.                               *)
THEOREM SettingsRestored == ConfigSpec => RestoredSettings
<1>1. StoreInv /\ [ConfigNext]_configVars => [Load /\ ~worn => cfg' \in UNION {Restorable(c) : c \in legit}]_configVars
  BY LoadRestores
<1> QED
  BY <1>1, StoreCorrect, PTL DEF ConfigSpec, RestoredSettings

HIDE ConfigAssumption DEF ConfigAssumption

-----------------------------------------------------------------------------
(* The dates of the calendar.                                              *)

\* What is counted from a year on, one after the other, holds of all years.
LEMMA YearAfterYear ==
  ASSUME NEW a \in Nat, NEW b \in Nat, NEW T, a \in T,
         \A y \in a .. b - 1 : y \in T => y + 1 \in T
  PROVE  a .. b \subseteq T
  <1> DEFINE R == OpToRel(<, Nat)
             Left == {y \in a .. b : y \notin T}
  <1> SUFFICES ASSUME Left # {} PROVE FALSE
    OBVIOUS
  <1>1. Left \subseteq Nat
    OBVIOUS
  <1>2. PICK y \in Left : \A z \in Left : ~(<<z, y>> \in R)
    <2>1. IsWellFoundedOn(R, Nat)
      BY NatLessThanWellFounded
    <2> HIDE DEF R, Left
    <2> QED
      BY <1>1, <2>1, WFMin
  <1>3. \A z \in Left : ~(z < y)
    BY <1>1, <1>2 DEF OpToRel
  <1>4. y - 1 \in a .. b - 1 /\ y - 1 \notin Left
    BY <1>3
  <1> QED
    BY <1>4

\* Up to 2099 each fourth year is a leap year.
LEMMA FourthYears ==
  ASSUME NEW y \in 1970 .. 2099
  PROVE  Leap(y) <=> y % 4 = 0
  <1>1. y % 400 = 0 <=> y = 2000
    OBVIOUS
  <1>2. y % 100 = 0 <=> y = 2000
    OBVIOUS
  <1> QED
    BY <1>1, <1>2 DEF Leap

\* The days before a year since 1970.
StartOf(year) == (year - 1970) * 365 + (year - 1969) \div 4

\* Added year by year they are these.
LEMMA DaysAdded ==
  ASSUME NEW y \in 1970 .. 2100
  PROVE  YearDays(1970, y) = StartOf(y)
  <1> DEFINE Leaps(z) == {k \in 1970 .. z - 1 : Leap(k)}
             T == {z \in 1970 .. 2100 : IsFiniteSet(Leaps(z))
                                        /\ Cardinality(Leaps(z)) = (z - 1969) \div 4}
  <1>1. 1970 \in T
    <2>1. Leaps(1970) = {}
      OBVIOUS
    <2> QED
      BY <2>1, FS_EmptySet
  <1>2. ASSUME NEW z \in 1970 .. 2099, z \in T PROVE z + 1 \in T
    <2>1. IsFiniteSet(Leaps(z)) /\ Cardinality(Leaps(z)) = (z - 1969) \div 4
      BY <1>2
    <2>2. CASE Leap(z)
      <3>1. Leaps(z + 1) = Leaps(z) \cup {z} /\ z \notin Leaps(z)
        BY <2>2
      <3>2. IsFiniteSet(Leaps(z + 1)) /\ Cardinality(Leaps(z + 1)) = Cardinality(Leaps(z)) + 1
        <4> HIDE DEF Leaps
        <4> QED
          BY <2>1, <3>1, FS_AddElement
      <3>3. (z + 1 - 1969) \div 4 = (z - 1969) \div 4 + 1
        BY <2>2, FourthYears
      <3> QED
        BY <2>1, <3>2, <3>3
    <2>3. CASE ~Leap(z)
      <3>1. Leaps(z + 1) = Leaps(z)
        BY <2>3
      <3>2. (z + 1 - 1969) \div 4 = (z - 1969) \div 4
        BY <2>3, FourthYears
      <3> QED
        BY <2>1, <3>1, <3>2
    <2> QED
      BY <2>2, <2>3
  <1>3. 1970 .. 2100 \subseteq T
    <2> HIDE DEF T
    <2> QED
      BY <1>1, <1>2, YearAfterYear
  <1>4. y \in T
    <2> HIDE DEF T
    <2> QED
      BY <1>3
  <1>5. Cardinality(Leaps(y)) = (y - 1969) \div 4
    BY <1>4
  <1>6. YearDays(1970, y) = (y - 1970) * 365 + Cardinality(Leaps(y))
    BY DEF YearDays
  <1> HIDE DEF Leaps
  <1> QED
    BY <1>5, <1>6 DEF StartOf

\* The tables of the months: each begins when the one before it is over.
LEMMA Months ==
  ASSUME NEW leap \in BOOLEAN, NEW m \in 1 .. 12
  PROVE  /\ MonthStart(leap)[m] \in 0 .. 335
         /\ MonthDays(leap)[m] = CASE m = 2 -> IF leap THEN 29 ELSE 28
                                   [] m \in {4, 6, 9, 11} -> 30
                                   [] OTHER -> 31
         /\ m = 1 => MonthStart(leap)[m] = 0
         /\ m < 12 => MonthStart(leap)[m + 1] = MonthOver(leap, m)
         /\ m = 12 => MonthOver(leap, m) = IF leap THEN 366 ELSE 365
         /\ leap => MonthStart(leap)[m] = MonthStart(FALSE)[m] + IF m > 2 THEN 1 ELSE 0
  <1>1. m \in {1, 2, 3, 4, 5, 6, 7, 8, 9, 10, 11, 12}
    OBVIOUS
  <1>2. CASE leap
    BY <1>1, <1>2 DEF MonthStart, MonthDays, MonthOver
  <1>3. CASE ~leap
    BY <1>1, <1>3 DEF MonthStart, MonthDays, MonthOver
  <1> QED
    BY <1>2, <1>3

\* The first day of a month and its length.
LEMMA MonthTables ==
  ASSUME NEW leap \in BOOLEAN, NEW m \in 1 .. 12
  PROVE  MonthStart(leap)[m] \in 0 .. 335 /\ MonthDays(leap)[m] \in 28 .. 31
  <1>1. m \in {1, 2, 3, 4, 5, 6, 7, 8, 9, 10, 11, 12}
    OBVIOUS
  <1>2. CASE leap
    BY <1>1, <1>2 DEF MonthStart, MonthDays
  <1>3. CASE ~leap
    BY <1>1, <1>3 DEF MonthStart, MonthDays
  <1> QED
    BY <1>2, <1>3

\* An earlier month is over before a later one begins.
LEMMA MonthsInOrder ==
  ASSUME NEW leap \in BOOLEAN, NEW m \in 1 .. 12, NEW n \in 1 .. 12, m < n
  PROVE  MonthOver(leap, m) <= MonthStart(leap)[n]
  <1>1. m \in {1, 2, 3, 4, 5, 6, 7, 8, 9, 10, 11, 12} /\ n \in {1, 2, 3, 4, 5, 6, 7, 8, 9, 10, 11, 12}
    OBVIOUS
  <1>2. CASE leap
    BY <1>1, <1>2 DEF MonthStart, MonthDays, MonthOver
  <1>3. CASE ~leap
    BY <1>1, <1>3 DEF MonthStart, MonthDays, MonthOver
  <1> QED
    BY <1>2, <1>3

\* The k-th day of a month, as a day of the year.
MonthDay(leap, m, k, day) ==
  /\ leap \in BOOLEAN /\ m \in 1 .. 12
  /\ k \in 1 .. MonthDays(leap)[m]
  /\ day = MonthStart(leap)[m] + k

\* The month loop finds the month a day of the year is in.
LEMMA MonthOfDay ==
  ASSUME NEW leap, NEW month, NEW mday, NEW yday, MonthDay(leap, month, mday, yday)
  PROVE  InMonth(yday, leap) = <<month, mday>>
  <1>0. leap \in BOOLEAN
    BY DEF MonthDay
  <1>a. PICK m \in 1 .. 12 : m = month
    BY DEF MonthDay
  <1>b. PICK k \in 1 .. MonthDays(leap)[m] : k = mday
    BY <1>a DEF MonthDay
  <1>c. k \in 1 .. MonthDays(leap)[m]
    OBVIOUS
  <1> DEFINE day == MonthStart(leap)[m] + k
             In(n) == MonthStart(leap)[n] < day /\ day <= MonthOver(leap, n)
  <1>1. MonthStart(leap)[m] \in 0 .. 335 /\ MonthDays(leap)[m] \in 28 .. 31
    <2> HIDE DEF day, In
    <2> QED
      BY <1>0, MonthTables
  <1>2. In(m)
    <2>1. MonthOver(leap, m) = MonthStart(leap)[m] + MonthDays(leap)[m]
      BY DEF MonthOver
    <2> QED
      BY <1>1, <1>c, <2>1
  <1>3. ASSUME NEW n \in 1 .. 12, In(n) PROVE n = m
    <2>1. MonthStart(leap)[n] \in 0 .. 335 /\ MonthDays(leap)[n] \in 28 .. 31
      <3> HIDE DEF day, In
      <3> QED
        BY <1>0, MonthTables
    <2>2. n < m => MonthOver(leap, n) <= MonthStart(leap)[m]
      <3> HIDE DEF day, In
      <3> QED
        BY <1>0, MonthsInOrder
    <2>3. m < n => MonthOver(leap, m) <= MonthStart(leap)[n]
      <3> HIDE DEF day, In
      <3> QED
        BY <1>0, MonthsInOrder
    <2>4. /\ MonthOver(leap, n) = MonthStart(leap)[n] + MonthDays(leap)[n]
          /\ MonthOver(leap, m) = MonthStart(leap)[m] + MonthDays(leap)[m]
      BY DEF MonthOver
    <2>5. day = MonthStart(leap)[m] + k /\ k \in 1 .. MonthDays(leap)[m]
      OBVIOUS
    <2>6. MonthStart(leap)[n] < day /\ day <= MonthOver(leap, n)
      BY <1>3
    <2> HIDE DEF day, In
    <2> DEFINE sn == MonthStart(leap)[n]
               dn == MonthDays(leap)[n]
               sm == MonthStart(leap)[m]
               dm == MonthDays(leap)[m]
    <2>7. sn \in Int /\ dn \in Int /\ sm \in Int /\ dm \in Int
      BY <1>1, <2>1
    <2>8. k \in 1 .. dm /\ day = sm + k /\ sn < day /\ day <= sn + dn
      BY <2>4, <2>5, <2>6
    <2>9. (n < m => sn + dn <= sm) /\ (m < n => sm + dm <= sn)
      BY <2>2, <2>3, <2>4
    <2> HIDE DEF sn, dn, sm, dm
    <2> QED
      BY <2>7, <2>8, <2>9
  <1> HIDE DEF In
  <1>4. (CHOOSE n \in 1 .. 12 : In(n)) = m
    BY <1>2, <1>3
  <1>5. InMonth(day, leap) = <<CHOOSE n \in 1 .. 12 : In(n),
                             day - MonthStart(leap)[CHOOSE n \in 1 .. 12 : In(n)]>>
    BY DEF InMonth, In
  <1> HIDE DEF day
  <1>6. InMonth(day, leap) = <<m, day - MonthStart(leap)[m]>>
    BY <1>4, <1>5
  <1>7. day - MonthStart(leap)[m] = k
    BY <1>1 DEF day
  <1>8. day = yday
    BY <1>a, <1>b DEF day, MonthDay
  <1> QED
    BY <1>a, <1>b, <1>6, <1>7, <1>8

\* How long a year is, and that later years begin later.
LEMMA Years ==
  ASSUME NEW y \in 1970 .. 2100
  PROVE  /\ StartOf(y) \in Nat
         /\ StartOf(y + 1) = StartOf(y) + IF y % 4 = 0 THEN 366 ELSE 365
         /\ (y - 1970) * 365 <= StartOf(y)
         /\ \A z \in 1970 .. 2100 : y < z => StartOf(y + 1) <= StartOf(z)
  BY DEF StartOf

\* The day of a year that rest days went before.
YearDay(year, rest, days) ==
  /\ year \in 1970 .. 2099
  /\ rest \in 0 .. IF year % 4 = 0 THEN 365 ELSE 364
  /\ days = StartOf(year) + rest

\* util_gmtime subtracts years until the rest is within one.
LEMMA YearOfDays ==
  ASSUME NEW year, NEW rest, NEW since, YearDay(year, rest, since)
  PROVE  InYear(since) = <<year, rest>>
  <1>a. PICK y \in 1970 .. 2099 : y = year
    BY DEF YearDay
  <1>b. PICK r \in 0 .. IF y % 4 = 0 THEN 365 ELSE 364 : r = rest
    BY <1>a DEF YearDay
  <1> DEFINE days == StartOf(y) + r
             In(z) == YearDays(1970, z) <= days /\ days < YearDays(1970, z + 1)
             Between == 1970 + (days \div 366) .. 1970 + (days \div 365)
  <1>1. YearDays(1970, y) = StartOf(y) /\ YearDays(1970, y + 1) = StartOf(y + 1)
    BY DaysAdded
  <1>0. /\ StartOf(y) \in Nat
        /\ StartOf(y + 1) = StartOf(y) + IF y % 4 = 0 THEN 366 ELSE 365
    <2> HIDE DEF days, In, Between
    <2> QED
      BY DEF StartOf
  <1>2. In(y)
    BY <1>0, <1>1
  <1>3. y \in Between
    BY DEF StartOf
  <1>4. ASSUME NEW z \in Between, In(z) PROVE z = y
    <2>1. z \in 1970 .. 2100
      BY DEF StartOf
    <2>2. YearDays(1970, z) = StartOf(z)
      BY <2>1, DaysAdded
    <2>3. z < 2100 => YearDays(1970, z + 1) = StartOf(z + 1)
      BY <2>1, DaysAdded
    <2>4. StartOf(y) \in Nat /\ StartOf(z) \in Nat /\ StartOf(y + 1) \in Nat
      <3> HIDE DEF days, In, Between
      <3> QED
        BY <2>1, <1>0 DEF StartOf
    <2>5. y < z => StartOf(y + 1) <= StartOf(z)
      <3> HIDE DEF days, In, Between
      <3> QED
        BY <2>1 DEF StartOf
    <2>6. z < y => StartOf(z + 1) <= StartOf(y) /\ StartOf(z + 1) \in Nat
      <3> HIDE DEF days, In, Between
      <3>1. /\ z < y => StartOf(z + 1) <= StartOf(y)
            /\ StartOf(z) \in Nat
            /\ StartOf(z + 1) = StartOf(z) + IF z % 4 = 0 THEN 366 ELSE 365
        BY <2>1 DEF StartOf
      <3> QED
        BY <3>1
    <2>7. days \in Nat /\ StartOf(y) <= days /\ days < StartOf(y + 1)
      BY <1>1, <1>2, <2>4
    <2>8. StartOf(z) <= days /\ (z < y => days < StartOf(z + 1))
      BY <1>4, <2>1, <2>2, <2>3
    <2> HIDE DEF days, In, Between
    <2> QED
      BY <2>1, <2>4, <2>5, <2>6, <2>7, <2>8
  <1> DEFINE found == CHOOSE z \in Between : In(z)
  <1>5. found = y
    <2> HIDE DEF In, Between
    <2> QED
      BY <1>2, <1>3, <1>4
  <1>6. InYear(days) = <<found, days - YearDays(1970, found)>>
    BY DEF InYear
  <1>7. days - YearDays(1970, y) = r
    BY <1>0, <1>1
  <1> HIDE DEF found, In, Between, days
  <1>8. InYear(days) = <<y, days - YearDays(1970, y)>>
    BY <1>5, <1>6
  <1>9. InYear(days) = <<y, r>>
    BY <1>7, <1>8
  <1>10. days = since
    BY <1>a, <1>b DEF days, YearDay
  <1> QED
    BY <1>a, <1>b, <1>9, <1>10

\* Leaps are the years that four divides, of the first j from 1970 + 4 * q on.
FourLeaps(q, j, Leaps) ==
  /\ q \in Nat /\ j \in 0 .. 4
  /\ \A y : y \in Leaps <=> y \in 1970 + 4 * q .. 1970 + 4 * q + j - 1 /\ y % 4 = 0

\* Of four years the third is the leap year, when the first is 1970 or four times as many
\* years later.
LEMMA FourYears ==
  ASSUME NEW period, NEW years, NEW Leaps, FourLeaps(period, years, Leaps)
  PROVE  Cardinality(Leaps) = IF years > 2 THEN 1 ELSE 0
  <1>a. PICK q \in Nat : q = period
    BY DEF FourLeaps
  <1>b. PICK j \in 0 .. 4 : j = years
    BY DEF FourLeaps
  <1>0. \A y : y \in Leaps <=> y \in 1970 + 4 * q .. 1970 + 4 * q + j - 1 /\ y % 4 = 0
    BY <1>a, <1>b DEF FourLeaps
  <1>1. CASE j > 2
    <2>1. PICK leap : leap = 1970 + 4 * q + 2
      OBVIOUS
    <2>2. Leaps = {leap}
      BY <1>0, <1>1, <2>1
    <2>3. Cardinality(Leaps) = 1
      BY <2>2, FS_Singleton, ZenonT(30)
    <2> QED
      BY <1>b, <1>1, <2>3
  <1>2. CASE j <= 2
    <2>1. Leaps = {}
      BY <1>0, <1>2
    <2>2. Cardinality(Leaps) = 0
      BY <2>1, FS_EmptySet
    <2> QED
      BY <1>b, <1>2, <2>2
  <1> QED
    BY <1>b, <1>1, <1>2

\* An hour s of a year, the j-th of the four from first on, and of these years.
HourOfYear(first, j, s, hours, year) ==
  /\ \E q \in Nat : first = 1970 + 4 * q
  /\ j \in 0 .. 3 /\ s \in Nat /\ hours \in Int
  /\ s < 8760 \/ (j = 2 /\ s < 8784)
  /\ hours = (365 * j + IF j > 2 THEN 1 ELSE 0) * 24 + s
  /\ year = first + j

\* util_localtime finds the year within four years by their hours.
LEMMA YearOfHours ==
  ASSUME NEW from, NEW place, NEW rest, NEW into, NEW year,
         HourOfYear(from, place, rest, into, year)
  PROVE  InHours(into, from) = <<year, rest>>
  <1>a. PICK q \in Nat : from = 1970 + 4 * q
    BY DEF HourOfYear
  <1>b. PICK j \in 0 .. 3 : j = place
    BY DEF HourOfYear
  <1>c. PICK s \in Nat : s = rest
    BY DEF HourOfYear
  <1>d. PICK hours \in Int : hours = into
    BY DEF HourOfYear
  <1>0. /\ s < 8760 \/ (j = 2 /\ s < 8784)
        /\ hours = (365 * j + IF j > 2 THEN 1 ELSE 0) * 24 + s
        /\ year = from + j
    BY <1>b, <1>c, <1>d DEF HourOfYear
  <1> DEFINE first == 1970 + 4 * q
             Hours(i) == (365 * i + IF i > 2 THEN 1 ELSE 0) * 24
             h == Hours(j) + s
             In(y) == YearHours(first, y) <= h /\ h < YearHours(first, y + 1)
             found == CHOOSE y \in first .. first + 3 : In(y)
  <1>1. \A i \in 0 .. 4 : YearHours(first, first + i) = Hours(i)
    <2> TAKE i \in 0 .. 4
    <2> DEFINE Leaps == {y \in first .. first + i - 1 : y % 4 = 0}
               leaps == Cardinality(Leaps)
    <2>1. leaps = IF i > 2 THEN 1 ELSE 0
      <3>0. i \in 0 .. 4
        OBVIOUS
      <3>1. \A y : y \in Leaps <=> y \in 1970 + 4 * q .. 1970 + 4 * q + i - 1 /\ y % 4 = 0
        OBVIOUS
      <3> HIDE DEF Leaps, Hours, h, In, found
      <3>2. FourLeaps(q, i, Leaps)
        BY <3>0, <3>1 DEF FourLeaps
      <3> QED
        BY <3>2, FourYears
    <2>2. YearHours(first, first + i) = ((first + i - first) * 365 + leaps) * 24
      BY DEF YearHours
    <2>3. first + i - first = i
      OBVIOUS
    <2> HIDE DEF first, leaps
    <2> QED
      BY <2>1, <2>2, <2>3
  <1>2. \A i \in 0 .. 3 : first + i + 1 = first + (i + 1) /\ i + 1 \in 0 .. 4
    OBVIOUS
  <1>3. In(first + j)
    <2>1. YearHours(first, first + j) = Hours(j)
      <3> HIDE DEF first, Hours
      <3> QED
        BY <1>1
    <2>2. YearHours(first, first + j + 1) = Hours(j + 1)
      <3> HIDE DEF first, Hours
      <3> QED
        BY <1>1, <1>2
    <2>3. Hours(j) <= h /\ h < Hours(j + 1)
      BY <1>0
    <2> HIDE DEF first, Hours, h
    <2> QED
      BY <2>1, <2>2, <2>3
  <1>4. ASSUME NEW y \in first .. first + 3, In(y) PROVE y = first + j
    <2>1. PICK i \in 0 .. 3 : y = first + i
      <3>1. y - first \in 0 .. 3 /\ y = first + (y - first)
        OBVIOUS
      <3> QED
        BY <3>1
    <2>2. YearHours(first, y) = Hours(i)
      <3> HIDE DEF first, Hours
      <3> QED
        BY <1>1, <2>1
    <2>3. YearHours(first, y + 1) = Hours(i + 1)
      <3> HIDE DEF first, Hours
      <3> QED
        BY <1>1, <1>2, <2>1
    <2>4. Hours(i) <= h /\ h < Hours(i + 1)
      <3> HIDE DEF first, Hours, h
      <3> QED
        BY <1>4, <2>2, <2>3
    <2>5. i = j
      <3> HIDE DEF first
      <3> QED
        BY <1>0, <2>4
    <2> QED
      BY <2>1, <2>5
  <1>5. found = first + j
    <2>1. first + j \in first .. first + 3
      OBVIOUS
    <2> HIDE DEF In, first
    <2> QED
      BY <1>3, <1>4, <2>1
  <1>6. InHours(h, first) = <<found, h - YearHours(first, found)>>
    BY DEF InHours
  <1>7. h - YearHours(first, first + j) = s
    <2>1. YearHours(first, first + j) = Hours(j)
      <3> HIDE DEF first, Hours
      <3> QED
        BY <1>1
    <2> HIDE DEF first
    <2> QED
      BY <2>1
  <1> HIDE DEF found, In, h, first
  <1>8. InHours(h, first) = <<first + j, s>>
    BY <1>5, <1>6, <1>7
  <1>9. h = hours
    BY <1>0 DEF h
  <1>10. first = from
    BY <1>a DEF first
  <1> HIDE DEF Hours
  <1> QED
    BY <1>0, <1>b, <1>c, <1>d, <1>8, <1>9, <1>10

\* The hours into a period of four years.
LEMMA IntoPeriod ==
  ASSUME NEW q \in Nat, NEW j \in 0 .. 3, NEW leap \in 0 .. 1, leap = IF j > 2 THEN 1 ELSE 0,
         NEW s \in Nat, s < 8760 \/ (j = 2 /\ s < 8784),
         NEW into \in Int, into = (365 * j + leap) * 24 + s,
         NEW hours \in Int, hours = 35064 * q + into
  PROVE  hours % 35064 = into /\ hours \div 35064 = q
  <1>1. 0 <= into
    OBVIOUS
  <1>2. into < 35064
    OBVIOUS
  <1> QED
    BY <1>1, <1>2

\* An hour of a year, in its day rest.
YearHour(year, rest, of, hours) ==
  /\ year \in 1970 .. 2099
  /\ rest \in 0 .. IF year % 4 = 0 THEN 365 ELSE 364
  /\ \E hour \in 0 .. 23 : of = rest * 24 + hour
  /\ hours \in Int /\ hours = StartOf(year) * 24 + of

\* The years in periods of four.
LEMMA YearOfPeriods ==
  ASSUME NEW year, NEW rest, NEW of, NEW since, YearHour(year, rest, of, since)
  PROVE  InHours(since % (1461 * 24), 1970 + 4 * (since \div (1461 * 24))) = <<year, of>>
  <1>a. PICK y \in 1970 .. 2099 : y = year
    BY DEF YearHour
  <1>b. PICK r \in 0 .. IF y % 4 = 0 THEN 365 ELSE 364 : r = rest
    BY <1>a DEF YearHour
  <1>c. PICK hour \in 0 .. 23 : of = r * 24 + hour
    BY <1>a, <1>b DEF YearHour
  <1>d. PICK hours \in Int : hours = since
    BY DEF YearHour
  <1>e. hours = (StartOf(y) + r) * 24 + hour
    <2>1. StartOf(y) \in Int
      BY DEF StartOf
    <2>2. hours = StartOf(y) * 24 + of
      BY <1>a, <1>d DEF YearHour
    <2> QED
      BY <1>c, <2>1, <2>2
  <1>1. PICK q \in Nat : q = (y - 1970) \div 4
    OBVIOUS
  <1>2. PICK j \in 0 .. 3 : j = (y - 1970) % 4
    OBVIOUS
  <1>3. y = 1970 + 4 * q + j /\ (y % 4 = 0 <=> j = 2)
    BY <1>1, <1>2
  <1>4. PICK leap \in 0 .. 1 : leap = IF j > 2 THEN 1 ELSE 0
    OBVIOUS
  <1>5. PICK s \in Nat : s = r * 24 + hour
    OBVIOUS
  <1>6. s < 8760 \/ (j = 2 /\ s < 8784)
    BY <1>3, <1>5
  <1>7. PICK into \in Int : into = (365 * j + leap) * 24 + s
    OBVIOUS
  <1>8. StartOf(y) = 1461 * q + 365 * j + leap
    BY <1>3, <1>4 DEF StartOf
  <1>9. hours = 35064 * q + into
    BY <1>e, <1>5, <1>7, <1>8
  <1>10. hours % 35064 = into /\ hours \div 35064 = q
    BY <1>4, <1>6, <1>7, <1>9, IntoPeriod
  <1>11. InHours(into, 1970 + 4 * q) = <<y, s>>
    <2>1. PICK from \in Int : from = 1970 + 4 * q
      OBVIOUS
    <2>2. HourOfYear(from, j, s, into, y)
      BY <1>3, <1>4, <1>6, <1>7, <2>1 DEF HourOfYear
    <2>3. InHours(into, from) = <<y, s>>
      BY <2>2, YearOfHours
    <2> QED
      BY <2>1, <2>3
  <1>12. 1461 * 24 = 35064
    OBVIOUS
  <1> QED
    BY <1>a, <1>c, <1>d, <1>5, <1>10, <1>11, <1>12

\* The day of a year with, and of a year without a 29th of February.
LeapYearDay(m, k, day)  == MonthDay(TRUE, m, k, day)
PlainYearDay(m, k, day) == MonthDay(FALSE, m, k, day)

\* A day of a leap year falls before, on or after the 29th of February.
LEMMA LeapDay ==
  ASSUME NEW m, NEW k, NEW day, LeapYearDay(m, k, day)
  PROVE  /\ day \in 1 .. 366
         /\ day = 60 => m = 2 /\ k = 29
         /\ day < 60 => PlainYearDay(m, k, day)
         /\ day > 60 => PlainYearDay(m, k, day - 1)
  <1>1. m \in {1, 2, 3, 4, 5, 6, 7, 8, 9, 10, 11, 12}
    BY DEF LeapYearDay, MonthDay
  <1> QED
    BY <1>1 DEF LeapYearDay, PlainYearDay, MonthDay, MonthStart, MonthDays

InPlainMonth(day) == InMonth(day, FALSE)

\* The month loop in a year without one.
LEMMA PlainMonth ==
  ASSUME NEW m, NEW k, NEW day, PlainYearDay(m, k, day)
  PROVE  InPlainMonth(day) = <<m, k>> /\ day \in 1 .. 365
  <1> DEFINE leap == FALSE
  <1>1. MonthDay(leap, m, k, day)
    BY DEF PlainYearDay
  <1>2. m \in {1, 2, 3, 4, 5, 6, 7, 8, 9, 10, 11, 12}
    BY DEF PlainYearDay, MonthDay
  <1>3. day \in 1 .. 365
    BY <1>2 DEF PlainYearDay, MonthDay, MonthStart, MonthDays
  <1>4. InMonth(day, leap) = <<m, k>>
    <2> HIDE DEF leap
    <2> QED
      BY <1>1, MonthOfDay
  <1>5. InPlainMonth(day) = InMonth(day, leap)
    BY DEF InPlainMonth
  <1> HIDE DEF leap
  <1> QED
    BY <1>3, <1>4, <1>5

YearMonthDay(y, m, k, day) ==
  /\ y \in 1970 .. 2099
  /\ y % 4 = 0 => LeapYearDay(m, k, day)
  /\ y % 4 # 0 => PlainYearDay(m, k, day)

\* util_localtime's table without the 29th of February.
LEMMA LocalDates ==
  ASSUME NEW y, NEW m, NEW k, NEW day, YearMonthDay(y, m, k, day)
  PROVE  LocalDate(y, day) = [year |-> y, mon |-> m, mday |-> k]
  <1>0. /\ y \in 1970 .. 2099
        /\ y % 4 = 0 => LeapYearDay(m, k, day)
        /\ y % 4 # 0 => PlainYearDay(m, k, day)
    BY DEF YearMonthDay
  <1>1. CASE y % 4 # 0
    <2>1. InPlainMonth(day) = <<m, k>>
      BY <1>0, <1>1, PlainMonth
    <2>2. LocalDate(y, day)
            = [year |-> y, mon |-> InPlainMonth(day)[1], mday |-> InPlainMonth(day)[2]]
      BY <1>1 DEF LocalDate, InPlainMonth
    <2> QED
      BY <2>1, <2>2
  <1>2. CASE y % 4 = 0 /\ day = 60
    <2>1. m = 2 /\ k = 29
      BY <1>2, <1>0, LeapDay
    <2>2. LocalDate(y, day) = [year |-> y, mon |-> 2, mday |-> 29]
      BY <1>2 DEF LocalDate, InPlainMonth
    <2> QED
      BY <2>1, <2>2
  <1>3. CASE y % 4 = 0 /\ day < 60
    <2>0. ~(day > 60) /\ ~(day = 60)
      BY <1>3, <1>0, LeapDay
    <2>1. InPlainMonth(day) = <<m, k>>
      BY <1>3, <1>0, LeapDay, PlainMonth
    <2>2. LocalDate(y, day)
            = [year |-> y, mon |-> InPlainMonth(day)[1], mday |-> InPlainMonth(day)[2]]
      BY <1>3, <2>0 DEF LocalDate, InPlainMonth
    <2> QED
      BY <2>1, <2>2
  <1>4. CASE y % 4 = 0 /\ day > 60
    <2>0. ~(day = 60)
      BY <1>4, <1>0, LeapDay
    <2>1. InPlainMonth(day - 1) = <<m, k>>
      BY <1>4, <1>0, LeapDay, PlainMonth
    <2>2. LocalDate(y, day)
            = [year |-> y, mon |-> InPlainMonth(day - 1)[1], mday |-> InPlainMonth(day - 1)[2]]
      BY <1>4, <2>0 DEF LocalDate, InPlainMonth
    <2> QED
      BY <2>1, <2>2
  <1>5. y % 4 = 0 => day \in 1 .. 366
    BY <1>0, LeapDay
  <1> QED
    BY <1>0, <1>1, <1>2, <1>3, <1>4, <1>5

\* The day of the year of a date.
DayOfYear(d) == MonthStart(d.year % 4 = 0)[d.mon] + d.mday - 1

\* The dates there are.
Dates == {d \in [year : 1970 .. 2099, mon : 1 .. 12, mday : 1 .. 31] :
            d.mday <= MonthDays(d.year % 4 = 0)[d.mon]}

\* A date is within its year.
LEMMA WithinYear ==
  ASSUME NEW d \in Dates
  PROVE  DayOfYear(d) \in 0 .. IF d.year % 4 = 0 THEN 365 ELSE 364
  <1> DEFINE leap == d.year % 4 = 0
  <1>1. /\ leap \in BOOLEAN /\ d.mon \in 1 .. 12 /\ d.mday \in 1 .. 31
        /\ d.mday <= MonthDays(leap)[d.mon]
    BY DEF Dates
  <1>2. DayOfYear(d) = MonthStart(leap)[d.mon] + d.mday - 1
    BY DEF DayOfYear
  <1>3. IF leap THEN d.year % 4 = 0 ELSE d.year % 4 # 0
    OBVIOUS
  <1> HIDE DEF leap
  <1> DEFINE start == MonthStart(leap)[d.mon]
             length == MonthDays(leap)[d.mon]
  <1>4. start \in 0 .. 335 /\ length \in 28 .. 31
    BY <1>1, MonthTables
  <1>5. start + length <= IF leap THEN 366 ELSE 365
    <2>1. MonthOver(leap, d.mon) = start + length
      BY DEF MonthOver
    <2>2. d.mon < 12 => start + length <= MonthStart(leap)[12]
      BY <1>1, <2>1, MonthsInOrder
    <2>3. MonthStart(leap)[12] = (IF leap THEN 335 ELSE 334) /\ MonthDays(leap)[12] = 31
      BY <1>1 DEF MonthStart, MonthDays
    <2>4. d.mon = 12 => start = MonthStart(leap)[12] /\ length = MonthDays(leap)[12]
      OBVIOUS
    <2> HIDE DEF start, length
    <2> QED
      BY <1>1, <1>4, <2>2, <2>3, <2>4
  <1>6. DayOfYear(d) = start + d.mday - 1 /\ d.mday <= length
    BY <1>1, <1>2
  <1> HIDE DEF start, length
  <1>7. DayOfYear(d) \in 0 .. IF leap THEN 365 ELSE 364
    <2>1. CASE leap
      BY <1>1, <1>4, <1>5, <1>6, <2>1
    <2>2. CASE ~leap
      BY <1>1, <1>4, <1>5, <1>6, <2>2
    <2> QED
      BY <2>1, <2>2
  <1> QED
    BY <1>3, <1>7

\* The day shown is the day counted.
DateInv ==
  /\ now \in 0 .. (LastDay + 1) * Day - 1
  /\ date \in Dates
  /\ now \div Day = StartOf(date.year) + DayOfYear(date)

\* The limits of what is looked at.
LEMMA Limits ==
  /\ LastDay \in Nat /\ LastDay <= 47481
  /\ Stride \in Nat /\ 1 <= Stride /\ Stride <= 86400
  <1>1. LastDay \in Nat /\ LastDay <= 47481
    BY CalendarAssumption DEF CalendarAssumption
  <1>2. Stride \in Nat /\ 0 < Stride /\ Stride <= Day
    BY CalendarAssumption DEF CalendarAssumption
  <1>3. Stride \in Nat /\ 1 <= Stride /\ Stride <= 86400
    BY <1>2 DEF Day
  <1> QED
    BY <1>1, <1>3

\* The first of January 1970.
LEMMA InitDate == CalendarInit => DateInv
  <1> SUFFICES ASSUME CalendarInit PROVE DateInv
    OBVIOUS
  <1>1. now = 0 /\ now \div Day = 0
    BY DEF CalendarInit, Day
  <1>2. date = [year |-> 1970, mon |-> 1, mday |-> 1]
    BY DEF CalendarInit
  <1>3. date \in Dates
    BY <1>2 DEF Dates, MonthDays
  <1>4. StartOf(date.year) = 0
    BY <1>2 DEF StartOf
  <1>5. DayOfYear(date) = 0
    BY <1>2 DEF DayOfYear, MonthStart
  <1>6. now \in 0 .. (LastDay + 1) * Day - 1
    BY <1>1, Limits DEF Day
  <1> QED
    BY <1>1, <1>3, <1>4, <1>5, <1>6 DEF DateInv

\* The lengths of the months the calendar counts by are those of the table.
LEMMA EndOfMonth ==
  ASSUME NEW d \in Dates
  PROVE  MonthEnd(d) = MonthDays(d.year % 4 = 0)[d.mon]
  <1> DEFINE leap == d.year % 4 = 0
  <1>1. leap \in BOOLEAN /\ d.mon \in 1 .. 12
    BY DEF Dates
  <1>2. d.mon \in {1, 2, 3, 4, 5, 6, 7, 8, 9, 10, 11, 12}
    BY <1>1
  <1>3. MonthEnd(d) = CASE d.mon = 2 -> IF leap THEN 29 ELSE 28
                        [] d.mon \in {4, 6, 9, 11} -> 30
                        [] OTHER -> 31
    BY DEF MonthEnd
  <1> HIDE DEF leap
  <1>4. MonthEnd(d) = MonthDays(leap)[d.mon]
    <2>1. CASE leap
      BY <1>2, <1>3, <2>1 DEF MonthDays
    <2>2. CASE ~leap
      BY <1>2, <1>3, <2>2 DEF MonthDays
    <2> QED
      BY <2>1, <2>2
  <1> QED
    BY <1>4 DEF leap

\* The month after another.
LEMMA NextMonth ==
  ASSUME NEW leap \in BOOLEAN, NEW m \in 1 .. 11
  PROVE  MonthStart(leap)[m + 1] = MonthOver(leap, m)
  <1>1. m \in {1, 2, 3, 4, 5, 6, 7, 8, 9, 10, 11}
    OBVIOUS
  <1>2. CASE leap
    BY <1>1, <1>2 DEF MonthStart, MonthDays, MonthOver
  <1>3. CASE ~leap
    BY <1>1, <1>3 DEF MonthStart, MonthDays, MonthOver
  <1> QED
    BY <1>2, <1>3

\* The next day is counted one further, until 2100.
LEMMA NextDay ==
  ASSUME NEW d \in Dates
  PROVE  \/ d.year = 2099 /\ StartOf(d.year) + DayOfYear(d) = 47481
         \/ /\ Tomorrow(d) \in Dates
            /\ StartOf(Tomorrow(d).year) + DayOfYear(Tomorrow(d))
                 = StartOf(d.year) + DayOfYear(d) + 1
  <1>1. PICK y \in 1970 .. 2099 : y = d.year
    BY DEF Dates
  <1>2. PICK m \in 1 .. 12 : m = d.mon
    BY DEF Dates
  <1>3. PICK k \in 1 .. 31 : k = d.mday
    BY DEF Dates
  <1> DEFINE leap == y % 4 = 0
  <1>4. leap \in BOOLEAN /\ (leap <=> y % 4 = 0)
    OBVIOUS
  <1> HIDE DEF leap
  <1>5. d = [year |-> y, mon |-> m, mday |-> k]
    BY <1>1, <1>2, <1>3 DEF Dates
  <1>6. PICK length \in 28 .. 31 : length = MonthDays(leap)[m]
    BY <1>4, MonthTables
  <1>7. PICK start \in 0 .. 335 : start = MonthStart(leap)[m]
    BY <1>4, MonthTables
  <1>8. k <= length /\ MonthEnd(d) = length
    <2>1. MonthEnd(d) = MonthDays(leap)[m]
      BY <1>1, <1>2, <1>4, EndOfMonth
    <2>2. k <= MonthDays(leap)[m]
      BY <1>1, <1>2, <1>3, <1>4 DEF Dates
    <2> QED
      BY <1>6, <2>1, <2>2
  <1>9. DayOfYear(d) = start + k - 1
    BY <1>1, <1>2, <1>3, <1>4, <1>7 DEF DayOfYear
  <1>10. PICK base \in Int : base = StartOf(y)
    BY DEF StartOf
  <1>11. Tomorrow(d) = IF k < length THEN [d EXCEPT !.mday = k + 1]
                       ELSE IF m < 12 THEN [year |-> y, mon |-> m + 1, mday |-> 1]
                       ELSE [year |-> y + 1, mon |-> 1, mday |-> 1]
    <2>1. CASE k < length
      BY <1>1, <1>2, <1>3, <1>8, <2>1 DEF Tomorrow
    <2>2. CASE k = length /\ m < 12
      BY <1>1, <1>2, <1>3, <1>8, <2>2 DEF Tomorrow
    <2>3. CASE k = length /\ m = 12
      BY <1>1, <1>2, <1>3, <1>8, <2>3 DEF Tomorrow
    <2> QED
      BY <1>8, <2>1, <2>2, <2>3
  <1>12. CASE k < length
    <2>1. Tomorrow(d) = [year |-> y, mon |-> m, mday |-> k + 1]
      BY <1>5, <1>11, <1>12
    <2>2. Tomorrow(d) \in Dates
      BY <1>4, <1>6, <1>12, <2>1 DEF Dates
    <2>3. DayOfYear(Tomorrow(d)) = start + (k + 1) - 1
      BY <1>4, <1>7, <2>1 DEF DayOfYear
    <2>4. StartOf(Tomorrow(d).year) = base
      BY <1>10, <2>1
    <2> QED
      BY <1>1, <1>9, <1>10, <2>2, <2>3, <2>4
  <1>13. CASE k = length /\ m < 12
    <2>1. PICK n \in 2 .. 12 : n = m + 1
      BY <1>13
    <2>2. Tomorrow(d) = [year |-> y, mon |-> n, mday |-> 1]
      BY <1>11, <1>13, <2>1
    <2>3. MonthDays(leap)[n] \in 28 .. 31
      BY <1>4, <2>1, MonthTables
    <2>4. MonthStart(leap)[n] = start + length
      <3>1. m \in 1 .. 11
        BY <1>13
      <3>2. MonthStart(leap)[m + 1] = MonthOver(leap, m)
        BY <1>4, <3>1, NextMonth
      <3> QED
        BY <1>6, <1>7, <2>1, <3>2 DEF MonthOver
    <2>5. Tomorrow(d) \in Dates
      BY <1>4, <2>2, <2>3 DEF Dates
    <2>6. DayOfYear(Tomorrow(d)) = start + length + 1 - 1
      BY <1>4, <2>2, <2>4 DEF DayOfYear
    <2>7. StartOf(Tomorrow(d).year) = base
      BY <1>10, <2>2
    <2> QED
      BY <1>1, <1>9, <1>10, <1>13, <2>5, <2>6, <2>7
  <1>14. CASE k = length /\ m = 12
    <2>1. Tomorrow(d) = [year |-> y + 1, mon |-> 1, mday |-> 1]
      BY <1>11, <1>14
    <2>2. start = (IF leap THEN 335 ELSE 334) /\ length = 31
      BY <1>6, <1>7, <1>14 DEF MonthStart, MonthDays
    <2>3. CASE y = 2099
      <3>1. base = 47117 /\ ~leap
        BY <1>4, <1>10, <2>3 DEF StartOf
      <3> QED
        BY <1>1, <1>9, <1>10, <1>14, <2>2, <2>3, <3>1
    <2>4. CASE y # 2099
      <3>1. y + 1 \in 1970 .. 2099
        BY <2>4
      <3>2. Tomorrow(d) \in Dates
        BY <2>1, <3>1 DEF Dates, MonthDays
      <3>3. DayOfYear(Tomorrow(d)) = 0
        BY <2>1 DEF DayOfYear, MonthStart
      <3>4. StartOf(Tomorrow(d).year) = base + IF leap THEN 366 ELSE 365
        BY <1>4, <1>10, <2>1 DEF StartOf
      <3> QED
        BY <1>1, <1>9, <1>10, <1>14, <2>2, <3>2, <3>3, <3>4
    <2> QED
      BY <2>3, <2>4
  <1> QED
    BY <1>8, <1>12, <1>13, <1>14

\* Looking at the time again keeps the date right.
LEMMA NextDate == DateInv /\ CalendarNext => DateInv'
  <1> SUFFICES ASSUME DateInv, CalendarNext PROVE DateInv'
    OBVIOUS
  <1>1. /\ LastDay \in Nat /\ LastDay <= 47481
        /\ Stride \in Nat /\ 1 <= Stride /\ Stride <= 86400
    BY Limits
  <1>2. now \in Nat /\ now' = now + Stride /\ now' \in Nat
    BY <1>1 DEF DateInv, CalendarNext, Day
  <1>3. now' \div 86400 <= LastDay
    BY DEF CalendarNext, Day
  <1>4. now' \in 0 .. (LastDay + 1) * 86400 - 1
    BY <1>1, <1>2, <1>3
  <1>5. date \in Dates /\ now \div 86400 = StartOf(date.year) + DayOfYear(date)
    BY DEF DateInv, Day
  <1>6. date' = IF now' \div 86400 = now \div 86400 THEN date ELSE Tomorrow(date)
    BY DEF CalendarNext, Day
  <1>7. CASE now' \div 86400 = now \div 86400
    <2>1. date' = date
      BY <1>6, <1>7
    <2>2. date' \in Dates /\ now' \div 86400 = StartOf(date'.year) + DayOfYear(date')
      BY <1>5, <1>7, <2>1
    <2> QED
      BY <1>4, <2>2 DEF DateInv, Day
  <1>8. CASE now' \div 86400 # now \div 86400
    <2>1. date' = Tomorrow(date)
      BY <1>6, <1>8
    <2>2. now' \div 86400 = now \div 86400 + 1
      BY <1>1, <1>2, <1>8
    <2>3. now \div 86400 < 47481
      BY <1>1, <1>2, <1>3, <2>2
    <2>4. \/ StartOf(date.year) + DayOfYear(date) = 47481
          \/ /\ date' \in Dates
             /\ StartOf(date'.year) + DayOfYear(date') = StartOf(date.year) + DayOfYear(date) + 1
      BY <1>5, <2>1, NextDay
    <2>5. date' \in Dates /\ now' \div 86400 = StartOf(date'.year) + DayOfYear(date')
      BY <1>5, <2>2, <2>3, <2>4
    <2> QED
      BY <1>4, <2>5 DEF DateInv, Day
  <1> QED
    BY <1>7, <1>8

\* util_mktime counts the same days.
LEMMA DaysBeforeYear ==
  ASSUME NEW y \in 1970 .. 2099
  PROVE  DaysBefore(y) - DaysBefore(1970) = StartOf(y)
  <1>1. DaysBefore(1970) = 719162
    BY DEF DaysBefore
  <1>2. CASE y <= 2000
    <2>1. (y - 1) \div 100 = 19
      BY <1>2
    <2>2. (y - 1) \div 400 = 4
      BY <1>2
    <2> QED
      BY <1>1, <2>1, <2>2 DEF DaysBefore, StartOf
  <1>3. CASE y > 2000
    <2>1. (y - 1) \div 100 = 20
      BY <1>3
    <2>2. (y - 1) \div 400 = 5
      BY <1>3
    <2> QED
      BY <1>1, <2>1, <2>2 DEF DaysBefore, StartOf
  <1> QED
    BY <1>2, <1>3

\* All three conversions give the day counted.
LEMMA DatesAgree == DateInv => CalendarTypeOK /\ CalendarAgrees
  <1> SUFFICES ASSUME DateInv PROVE CalendarTypeOK /\ CalendarAgrees
    OBVIOUS
  <1>1. CalendarTypeOK
    BY DEF DateInv, CalendarTypeOK, Dates
  <1>2. PICK y \in 1970 .. 2099 : y = date.year
    BY DEF DateInv, Dates
  <1>3. PICK m \in 1 .. 12 : m = date.mon
    BY DEF DateInv, Dates
  <1>4. PICK k \in 1 .. 31 : k = date.mday
    BY DEF DateInv, Dates
  <1> DEFINE leap == Leap(y)
  <1>5. leap \in BOOLEAN /\ (leap <=> y % 4 = 0)
    <2>1. leap \in BOOLEAN
      BY DEF Leap
    <2>2. leap <=> y % 4 = 0
      BY FourthYears
    <2> QED
      BY <2>1, <2>2
  <1>15. Leap(y) = leap
    OBVIOUS
  <1> HIDE DEF leap
  <1>6. date = [year |-> y, mon |-> m, mday |-> k] /\ k <= MonthDays(leap)[m]
    BY <1>2, <1>3, <1>4, <1>5 DEF DateInv, Dates
  <1>7. PICK start \in 0 .. 335 : start = MonthStart(leap)[m]
    BY <1>5, MonthTables
  <1>8. PICK r \in 0 .. IF y % 4 = 0 THEN 365 ELSE 364 : r = start + k - 1
    <2>1. DayOfYear(date) = start + k - 1
      BY <1>2, <1>3, <1>4, <1>5, <1>7 DEF DayOfYear
    <2>2. DayOfYear(date) \in 0 .. IF y % 4 = 0 THEN 365 ELSE 364
      BY <1>2, WithinYear DEF DateInv
    <2> QED
      BY <2>1, <2>2
  <1>9. now \div 86400 = StartOf(y) + r /\ now \in Nat /\ StartOf(y) \in Nat
    <2>1. DayOfYear(date) = start + k - 1
      BY <1>2, <1>3, <1>4, <1>5, <1>7 DEF DayOfYear
    <2>2. now \in Nat
      BY Limits DEF DateInv, Day
    <2>3. StartOf(y) \in Nat
      BY DEF StartOf
    <2> QED
      BY <1>2, <1>8, <2>1, <2>2, <2>3 DEF DateInv, Day
  <1>10. k \in 1 .. MonthDays(leap)[m] /\ MonthDays(leap)[m] \in 28 .. 31
    BY <1>5, <1>6, MonthTables
  <1>11. PICK day \in 1 .. 366 : day = start + k /\ day = r + 1
    BY <1>8
  <1>16. MonthDay(leap, m, k, day)
    BY <1>5, <1>7, <1>10, <1>11 DEF MonthDay
  <1>12. GmTime(now) = date
    <2>1. YearDay(y, r, now \div 86400)
      BY <1>9 DEF YearDay
    <2>2. InYear(now \div 86400) = <<y, r>>
      BY <2>1, YearOfDays
    <2>3. InMonth(day, leap) = <<m, k>>
      BY <1>16, MonthOfDay
    <2> QED
      BY <1>6, <1>11, <1>15, <2>2, <2>3 DEF GmTime, Day
  <1>13. LocalTime(now) = date
    <2>1. PICK hours \in Int : hours = now \div 3600
      BY <1>9
    <2>2. PICK hour \in 0 .. 23 : hours = (StartOf(y) + r) * 24 + hour
      <3>1. hours - (StartOf(y) + r) * 24 \in 0 .. 23
        BY <1>9, <2>1
      <3> QED
        BY <1>9, <3>1
    <2>3. PICK of \in Nat : of = r * 24 + hour
      OBVIOUS
    <2>4. YearHour(y, r, of, hours)
      BY <1>9, <2>2, <2>3 DEF YearHour
    <2>5. InHours(hours % (1461 * 24), 1970 + 4 * (hours \div (1461 * 24))) = <<y, of>>
      BY <2>4, YearOfPeriods
    <2>6. of \div 24 + 1 = day
      BY <1>11, <2>3
    <2>7. LocalTime(now) = LocalDate(y, day)
      BY <2>1, <2>5, <2>6 DEF LocalTime
    <2>8. YearMonthDay(y, m, k, day)
      <3>0. m \in {1, 2, 3, 4, 5, 6, 7, 8, 9, 10, 11, 12}
        OBVIOUS
      <3>1. CASE leap
        <4>1. start = <<0, 31, 60, 91, 121, 152, 182, 213, 244, 274, 305, 335>>[m]
          BY <1>7, <3>0, <3>1 DEF MonthStart
        <4>2. k <= <<31, 29, 31, 30, 31, 30, 31, 31, 30, 31, 30, 31>>[m]
          BY <1>10, <3>0, <3>1 DEF MonthDays
        <4>4. LeapYearDay(m, k, day)
          BY <1>11, <3>0, <4>1, <4>2 DEF LeapYearDay, MonthDay, MonthStart, MonthDays
        <4> QED
          BY <1>5, <3>1, <4>4 DEF YearMonthDay
      <3>2. CASE ~leap
        <4>1. start = <<0, 31, 59, 90, 120, 151, 181, 212, 243, 273, 304, 334>>[m]
          BY <1>7, <3>0, <3>2 DEF MonthStart
        <4>2. k <= <<31, 28, 31, 30, 31, 30, 31, 31, 30, 31, 30, 31>>[m]
          BY <1>10, <3>0, <3>2 DEF MonthDays
        <4>4. PlainYearDay(m, k, day)
          BY <1>11, <3>0, <4>1, <4>2 DEF PlainYearDay, MonthDay, MonthStart, MonthDays
        <4> QED
          BY <1>5, <3>2, <4>4 DEF YearMonthDay
      <3> QED
        BY <3>1, <3>2
    <2>9. LocalDate(y, day) = [year |-> y, mon |-> m, mday |-> k]
      BY <2>8, LocalDates
    <2> QED
      BY <1>6, <2>7, <2>9
  <1>14. MkTime(date, now % Day) = now
    <2>1. DaysBefore(y) - DaysBefore(1970) = StartOf(y)
      BY DaysBeforeYear
    <2>2. MkTime(date, now % Day)
            = (DaysBefore(y) - DaysBefore(1970) + MonthStart(leap)[m] + k - 1) * Day + (now % Day)
      BY <1>2, <1>3, <1>4, <1>15 DEF MkTime
    <2>3. now = 86400 * (now \div 86400) + (now % 86400)
      BY <1>9
    <2>4. MonthStart(leap)[m] + k - 1 = r
      BY <1>7, <1>8
    <2>5. MkTime(date, now % Day) = (StartOf(y) + r) * 86400 + (now % 86400)
      BY <1>7, <1>8, <1>9, <2>1, <2>2 DEF Day
    <2> QED
      BY <1>9, <2>3, <2>5
  <1> QED
    BY <1>1, <1>12, <1>13, <1>14 DEF CalendarAgrees

-----------------------------------------------------------------------------
(* The firmware.                                                           *)

\* The download of Storage, with what is proved about any download.
FP == INSTANCE UpdateProofs WITH Late <- TRUE, pc <- op, saved <- stateFile

USE DEF Firmware!Images, FP!Images, Firmware!Size, FP!Size, Firmware!Known, FP!Known,
        Firmware!Written, FP!Written, Firmware!Marked, FP!Marked, Firmware!WindowFull,
        FP!WindowFull, Firmware!Fits, FP!Fits, Firmware!SameImage, FP!SameImage,
        Firmware!MinorLeft, FP!MinorLeft, Firmware!Closed, FP!Closed, Firmware!Report,
        FP!Report, Firmware!Start, FP!Start, Firmware!Blank, FP!Blank, Firmware!Holds,
        FP!Holds, Firmware!Content, FP!Content, Firmware!State, FP!State,
        Firmware!Survivor, FP!Survivor, Firmware!Survives, FP!Survives, Firmware!Boot,
        FP!Boot, Firmware!BootImage, FP!BootImage, Firmware!NoExtend, FP!NoExtend,
        Firmware!BlockComes, FP!BlockComes, Firmware!images, FP!images, Firmware!file,
        FP!file

\* What the firmware of Storage does is what any download does.
LEMMA FirmwareNext == Firmware!Next => FP!Next
  <1>1. Firmware!OpenFile => FP!OpenFile
    BY DEF Firmware!OpenFile, FP!OpenFile
  <1>2. Firmware!DeleteFile => FP!DeleteFile
    BY DEF Firmware!DeleteFile, FP!DeleteFile
  <1>3. Firmware!CreateFile => FP!CreateFile
    BY DEF Firmware!CreateFile, FP!CreateFile
  <1>4. Firmware!Commit => FP!Commit
    BY DEF Firmware!Commit, FP!Commit
  <1>5. Firmware!SaveState => FP!SaveState
    BY DEF Firmware!SaveState, FP!SaveState
  <1>6. Firmware!Rename => FP!Rename
    BY DEF Firmware!Rename, FP!Rename
  <1>7. Firmware!Remove => FP!Remove
    BY DEF Firmware!Remove, FP!Remove
  <1>8. Firmware!Send => FP!Send
    BY DEF Firmware!Send, FP!Send
  <1>9. Firmware!Ask => FP!Ask
    BY DEF Firmware!Ask, FP!Ask
  <1>10. Firmware!FileConnect => FP!FileConnect
    BY DEF Firmware!FileConnect, FP!FileConnect
  <1>11. Firmware!FileConnected => FP!FileConnected
    BY DEF Firmware!FileConnected, FP!FileConnected
  <1>12. Firmware!GiveUp => FP!GiveUp
    BY DEF Firmware!GiveUp, FP!GiveUp
  <1>13. Firmware!Rested => FP!Rested
    BY DEF Firmware!Rested, FP!Rested
  <1>14. Firmware!Reboot => FP!Reboot
    BY DEF Firmware!Reboot, FP!Reboot
  <1>15. Firmware!CreateFails => FP!CreateFails
    BY DEF Firmware!CreateFails, FP!CreateFails
  <1>16. Firmware!SaveFails => FP!SaveFails
    BY DEF Firmware!SaveFails, FP!SaveFails
  <1>17. Firmware!SessionEnds => FP!SessionEnds
    BY DEF Firmware!SessionEnds, FP!SessionEnds
  <1>18. Firmware!BearerLost => FP!BearerLost
    BY DEF Firmware!BearerLost, FP!BearerLost
  <1>19. Firmware!FileSocketLost => FP!FileSocketLost
    BY DEF Firmware!FileSocketLost, FP!FileSocketLost
  <1>20. Firmware!Crash => FP!Crash
    BY DEF Firmware!Crash, FP!Crash
  <1>21. ASSUME NEW img, NEW new, Firmware!Ready(img, new)
       PROVE  FP!Ready(img, new)
    BY <1>21 DEF Firmware!Ready, FP!Ready
  <1>22. ASSUME NEW img, NEW new, Firmware!ReadyAgain(img, new)
       PROVE  FP!ReadyAgain(img, new)
    BY <1>22 DEF Firmware!ReadyAgain, FP!ReadyAgain
  <1>23. ASSUME NEW img, NEW b, Firmware!Block(b, img)
       PROVE  FP!Block(b, img)
    BY <1>23 DEF Firmware!Block, FP!Block
  <1>24. ASSUME NEW img, NEW b, Firmware!BlockFillsWindow(b, img)
       PROVE  FP!BlockFillsWindow(b, img)
    BY <1>24 DEF Firmware!BlockFillsWindow, FP!BlockFillsWindow
  <1>25. ASSUME NEW img, NEW b, Firmware!BlockFinishes(b, img)
       PROVE  FP!BlockFinishes(b, img)
    BY <1>25 DEF Firmware!BlockFinishes, FP!BlockFinishes
  <1>26. ASSUME NEW img, NEW b, Firmware!BlockLost(b, img)
       PROVE  FP!BlockLost(b, img)
    BY <1>26 DEF Firmware!BlockLost, FP!BlockLost
  <1> QED
    BY <1>1, <1>2, <1>3, <1>4, <1>5, <1>6, <1>7, <1>8, <1>9, <1>10, <1>11,
       <1>12, <1>13, <1>14, <1>15, <1>16, <1>17, <1>18, <1>19, <1>20, <1>21, <1>22, <1>23,
       <1>24, <1>25, <1>26
       DEF Firmware!Answers, FP!Answers, Firmware!BlockStored, FP!BlockStored, Firmware!Handler, FP!Handler, Firmware!Unanswered, FP!Unanswered, Firmware!Regular, FP!Regular, Firmware!Failure, FP!Failure, Firmware!Next, FP!Next

\* What is said of the firmware is what is said of any download.
LEMMA FirmwareSeen ==
  /\ Firmware!Init => FP!Init
  /\ UNCHANGED updateVars => UNCHANGED FP!vars
  /\ FP!TypeOK => Firmware!TypeOK
  /\ FP!AlwaysBootable => Firmware!AlwaysBootable
  /\ FP!AtMostTwoCopies => Firmware!AtMostTwoCopies
  /\ FP!ResumeStored => Firmware!ResumeStored
  <1>1. Firmware!Init => FP!Init
    BY DEF Firmware!Init, FP!Init
  <1>2. FP!TypeOK => Firmware!TypeOK
    BY DEF Firmware!TypeOK, FP!TypeOK, Firmware!File, FP!File,
           Firmware!UpdateFileExtend, FP!UpdateFileExtend
  <1>3. FP!AlwaysBootable => Firmware!AlwaysBootable
    BY DEF Firmware!AlwaysBootable, FP!AlwaysBootable
  <1>4. FP!AtMostTwoCopies => Firmware!AtMostTwoCopies
    BY DEF Firmware!AtMostTwoCopies, FP!AtMostTwoCopies
  <1>5. FP!ResumeStored => Firmware!ResumeStored
    BY DEF Firmware!ResumeStored, FP!ResumeStored
  <1>6. UNCHANGED updateVars => UNCHANGED FP!vars
    BY DEF FP!vars, updateVars
  <1> QED
    BY <1>1, <1>2, <1>3, <1>4, <1>5, <1>6

\* The assumptions of UpdateFile hold of the firmware.
LEMMA FirmwareSizes == FP!UpdateAssumption /\ FP!FileAssumption
  <1>1. FP!UpdateAssumption
    BY FirmwareAssumption DEF FP!UpdateAssumption
  <1>2. FP!FileAssumption
    BY FirmwareAssumption DEF FP!FileAssumption, FP!File, Firmware!File
  <1> QED
    BY <1>1, <1>2

\* No two images on offer have the same length, so that a file tells which image
\* it is of.
OneLength == \A i, j \in Firmware!Images : Firmware!Size(i) = Firmware!Size(j) => i = j

\* What is proved of the firmware; the state file only if OneLength.
FirmwareInv ==
  /\ FP!IInv
  /\ Steady => FP!SwapInv
  /\ OneLength => FP!ResumeInv

\* The firmware starts right.
LEMMA InitFirmware == Firmware!Init => FirmwareInv
  <1> SUFFICES ASSUME Firmware!Init PROVE FirmwareInv
    OBVIOUS
  <1>1. FP!Init
    BY FirmwareSeen
  <1>2. FP!IInv
    BY <1>1, FirmwareSizes, FP!InitInv
  <1>3. FP!SwapInv
    BY <1>1, FirmwareSizes, FP!InitSwap
  <1>4. FP!ResumeInv
    BY <1>1, FirmwareSizes, FP!InitResume
  <1> QED
    BY <1>2, <1>3, <1>4 DEF FirmwareInv

\* Every step of it keeps it right.
LEMMA StepFirmware ==
  ASSUME FirmwareInv, Firmware!Next \/ UNCHANGED updateVars
  PROVE  FirmwareInv'
  <1>1. [FP!Next]_(FP!vars)
    BY FirmwareNext, FirmwareSeen
  <1>2. FP!IInv'
    BY <1>1, FirmwareSizes, FP!StepInv DEF FirmwareInv
  <1>3. Steady => FP!SwapInv'
    BY <1>1, FirmwareSizes, FP!StepSwap DEF FirmwareInv
  <1>4. OneLength => FP!ResumeInv'
    <2> SUFFICES ASSUME OneLength PROVE FP!ResumeInv'
      OBVIOUS
    <2>1. FP!OneLength
      BY DEF OneLength, FP!OneLength
    <2> QED
      BY <1>1, <2>1, FirmwareSizes, FP!StepResume DEF FirmwareInv
  <1> QED
    BY <1>2, <1>3, <1>4 DEF FirmwareInv, OneLength

\* What follows for what a reader sees of it.
LEMMA FirmwareFacts ==
  ASSUME FirmwareInv
  PROVE  /\ Firmware!TypeOK
         /\ Steady => Firmware!AlwaysBootable /\ Firmware!AtMostTwoCopies
         /\ OneLength => Firmware!ResumeStored
  <1>1. FP!TypeOK
    BY DEF FirmwareInv, FP!IInv
  <1>2. Steady => FP!AlwaysBootable
    BY DEF FirmwareInv, FP!SwapInv, FP!AlwaysBootable, FP!Bootable
  <1>3. Steady => FP!AtMostTwoCopies
    BY DEF FirmwareInv, FP!SwapInv
  <1>4. OneLength => FP!ResumeStored
    BY DEF FirmwareInv, FP!ResumeInv, FP!Backs, FP!ResumeStored
  <1> QED
    BY <1>1, <1>2, <1>3, <1>4, FirmwareSeen

-----------------------------------------------------------------------------
(* All that is stored. Only the part that was chosen takes steps, but each *)
(* of the four is kept right, whichever it is.                             *)

StorageInv == IInv /\ StoreInv /\ DateInv /\ FirmwareInv

\* All four start right.
LEMMA InitStorage == StorageInit => StorageInv
  BY InitIInv, InitStore, InitDate, InitFirmware DEF StorageInit, StorageInv

\* A step of one part is a step of it, and no step of another.
LEMMA PartSteps ==
  ASSUME [StorageNext]_<<part, parts>>
  PROVE  /\ [Next]_vars
         /\ [ConfigNext]_configVars
         /\ [CalendarNext]_calendarVars
         /\ Firmware!Next \/ UNCHANGED updateVars
  <1>1. CASE part = "records" /\ Next /\ OthersStay
    BY <1>1 DEF OthersStay
  <1>2. CASE part = "config" /\ ConfigNext /\ OthersStay
    BY <1>2 DEF OthersStay
  <1>3. CASE part = "calendar" /\ (CalendarNext \/ CalendarOver) /\ OthersStay
    BY <1>3 DEF OthersStay, CalendarOver
  <1>4. CASE part = "firmware" /\ Firmware!Next /\ OthersStay
    BY <1>4 DEF OthersStay
  <1>5. CASE UNCHANGED <<part, parts>>
    BY <1>5 DEF parts
  <1> QED
    BY <1>1, <1>2, <1>3, <1>4, <1>5 DEF StorageNext

\* Every step keeps all four right.
LEMMA StepStorage == StorageInv /\ [StorageNext]_<<part, parts>> => StorageInv'
  <1> SUFFICES ASSUME StorageInv, [StorageNext]_<<part, parts>> PROVE StorageInv'
    OBVIOUS
  <1>1. IInv /\ StoreInv /\ DateInv /\ FirmwareInv
    BY DEF StorageInv
  <1>2. IInv'
    BY <1>1, PartSteps, TypeStep, FileStep, CallStep, ScanStep DEF IInv
  <1>3. StoreInv'
    BY <1>1, PartSteps, NextStore
  <1>4. DateInv'
    <2>1. CASE CalendarNext
      BY <1>1, <2>1, NextDate
    <2>2. CASE UNCHANGED calendarVars
      BY <1>1, <2>2 DEF DateInv, calendarVars
    <2> QED
      BY <2>1, <2>2, PartSteps
  <1>5. FirmwareInv'
    BY <1>1, PartSteps, StepFirmware
  <1> QED
    BY <1>2, <1>3, <1>4, <1>5 DEF StorageInv

\* What the device stores is right at every moment.
LEMMA StorageCorrect == StorageSpec => []StorageInv
  BY InitStorage, StepStorage, PTL DEF StorageSpec

(* The variables of all parts keep their types, with every fault of the    *)
(* file system, any settings and any images, until the end of 2099.        *)
THEOREM StorageTypes == StorageSpec => []StorageTypeOK
<1>1. StorageInv => StorageTypeOK
  BY FirmwareFacts, DatesAgree DEF StorageInv, IInv, StoreInv, TypeInv, StorageTypeOK
<1> QED
  BY <1>1, StorageCorrect, PTL

(* With every fault of the file system the header of the history file only *)
(* promises frames that were written (FileSound of GpsSave).               *)
THEOREM StoredFileSound == StorageSpec => []FileSound
<1>1. StorageInv => FileSound
  BY DEF StorageInv, IInv
<1> QED
  BY <1>1, StorageCorrect, PTL

(* On every day up to the end of 2099 util_gmtime, util_localtime and      *)
(* util_mktime agree with the calendar (CalendarAgrees).                   *)
THEOREM DatesAlwaysAgree == StorageSpec => []CalendarAgrees
<1>1. StorageInv => CalendarAgrees
  BY DatesAgree DEF StorageInv
<1> QED
  BY <1>1, StorageCorrect, PTL

(* If nothing closes between an update and its reboot (Steady), a whole    *)
(* image boots whenever power fails and flash never holds a third one,     *)
(* with blocks of earlier downloads still arriving (update_file.c,         *)
(* update_service_result_to_server). The code does not ensure Steady:      *)
(* without it the image can be lost, which is the run UpdateBrick.         *)
THEOREM FirmwareBoots ==
  ASSUME Steady
  PROVE  StorageSpec => [](Firmware!AlwaysBootable /\ Firmware!AtMostTwoCopies)
<1>1. StorageInv => Firmware!AlwaysBootable /\ Firmware!AtMostTwoCopies
  BY FirmwareFacts DEF StorageInv
<1> QED
  BY <1>1, StorageCorrect, PTL

(* Besides, what the state file continues is on flash up to there, if also *)
(* no two images on offer have the same length (OneLength):                *)
(* update_filemod_file_open tells a file by its length.                    *)
THEOREM FirmwareAlwaysKept ==
  ASSUME Steady, OneLength
  PROVE  StorageSpec => []FirmwareKept
<1>1. StorageInv => FirmwareKept
  BY FirmwareFacts DEF StorageInv, FirmwareKept
<1> QED
  BY <1>1, StorageCorrect, PTL

(* One of the two files of the settings is whole at every moment, and a    *)
(* boot ends with settings that were saved, as long as no write fails.     *)
THEOREM StoredSettingsRestored == StorageSpec => []FileWhole /\ RestoredSettings
<1>1. StorageInv => FileWhole
  BY FilesWhole DEF StorageInv
<1>2. StorageInv /\ [StorageNext]_<<part, parts>> =>
        [Load /\ ~worn => cfg' \in UNION {Restorable(c) : c \in legit}]_configVars
  <2> SUFFICES ASSUME StorageInv, [StorageNext]_<<part, parts>>, configVars' # configVars,
                      Load, ~worn
               PROVE  cfg' \in UNION {Restorable(c) : c \in legit}
    OBVIOUS
  <2> QED
    BY LoadRestores DEF StorageInv
<1> QED
  BY <1>1, <1>2, StorageCorrect, PTL DEF StorageSpec, RestoredSettings

=============================================================================
