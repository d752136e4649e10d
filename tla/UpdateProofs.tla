----------------------------- MODULE UpdateProofs -----------------------------
(***************************************************************************)
(* Theorems about the firmware download, for every set of images, every    *)
(* window and, but for the exchange of the images, whether or not          *)
(* something closes between an update and its reboot: its types, what a    *)
(* reboot starts, and what a download that is continued finds.             *)
(***************************************************************************)
EXTENDS UpdateFile, TLAPS

(***************************************************************************)
(* Where a handler can be and what the open file and the two views of it   *)
(* then are. TypeOK alone is not inductive: what survives a crash has a    *)
(* type only if both views have one length.                                *)
(***************************************************************************)
FileInv ==
  /\ upgrade = NoFile <=> disk = NoFile
  /\ upgrade # NoFile => DOMAIN disk.data = DOMAIN upgrade.data
  /\ ext.open => /\ upgrade # NoFile
                 /\ ext.img # NoImage
                 /\ ext.result # "UPDATED"
  /\ pc \in {"open", "delete", "create"} => /\ ~ext.open
                                            /\ ext.img # NoImage
                                            /\ ext.result = "FAILED"
  /\ pc \in {"commit", "state"} => ext.open
  /\ pc \in {"rename", "removeMinor", "removeTarget"} => ext.result = "UPDATED"

\* The length of an image.
LEMMA SizeType ==
  ASSUME NEW img \in Images
  PROVE  Size(img) \in Sizes /\ Size(img) \in Nat \ {0}
BY UpdateAssumption DEF Images, Size

\* What the members of File are.
LEMMA FileShape ==
  ASSUME NEW f \in File
  PROVE  \E n \in Sizes : f \in [whole : BOOLEAN, data : [0 .. n - 1 -> Images \cup {Zero}]]
BY DEF File

\* The fields of a file.
LEMMA FileMember ==
  ASSUME NEW n \in Sizes, NEW w \in BOOLEAN,
         NEW d \in [0 .. n - 1 -> Images \cup {Zero}]
  PROVE  [whole |-> w, data |-> d] \in File
BY DEF File

\* update_filemod_file_create makes a file.
LEMMA BlankType ==
  ASSUME ext.img \in Images, NEW w \in BOOLEAN
  PROVE  /\ Blank(w) \in File
         /\ Blank(w) # NoFile
         /\ DOMAIN Blank(w).data = 0 .. Size(ext.img) - 1
<1>1. [b \in 0 .. Size(ext.img) - 1 |-> Zero] \in [0 .. Size(ext.img) - 1 -> Images \cup {Zero}]
  OBVIOUS
<1>2. Blank(w) \in File
  BY <1>1, FileMember, SizeType DEF Blank
<1>. QED
  BY <1>2, FileAssumption DEF Blank

\* Storing a block keeps a file a file, and its blocks in place.
LEMMA WrittenType ==
  ASSUME upgrade \in File, NEW img \in Images, NEW b
  PROVE  /\ Written(b, img) \in File
         /\ Written(b, img) # NoFile
         /\ DOMAIN Written(b, img).data = DOMAIN upgrade.data
<1>1. PICK n \in Sizes :
        upgrade \in [whole : BOOLEAN, data : [0 .. n - 1 -> Images \cup {Zero}]]
  BY FileShape
<1>2. Written(b, img) \in [whole : BOOLEAN, data : [0 .. n - 1 -> Images \cup {Zero}]]
  BY <1>1 DEF Written
<1>3. DOMAIN Written(b, img).data = DOMAIN upgrade.data
  BY <1>1, <1>2
<1>4. Written(b, img) \in File
  BY <1>2 DEF File
<1>. QED
  BY <1>3, <1>4, FileAssumption

\* What survives a crash is a file.
LEMMA SurvivesType ==
  ASSUME upgrade \in File \cup {NoFile}, disk \in File \cup {NoFile}, FileInv,
         NEW f \in Survives
  PROVE  f \in File \cup {NoFile}
<1>1. CASE upgrade = NoFile
  BY <1>1 DEF Survives
<1>2. CASE upgrade # NoFile
  <2>1. upgrade \in File /\ disk \in File /\ DOMAIN disk.data = DOMAIN upgrade.data
    BY <1>2 DEF FileInv
  <2>2. PICK n \in Sizes :
          upgrade \in [whole : BOOLEAN, data : [0 .. n - 1 -> Images \cup {Zero}]]
    BY <2>1, FileShape
  <2>3. PICK m \in Sizes :
          disk \in [whole : BOOLEAN, data : [0 .. m - 1 -> Images \cup {Zero}]]
    BY <2>1, FileShape
  <2>4. DOMAIN upgrade.data = 0 .. n - 1 /\ DOMAIN disk.data = 0 .. n - 1
    BY <2>1, <2>2
  <2>5. \A b \in 0 .. n - 1 : disk.data[b] \in Images \cup {Zero}
    BY <2>3, <2>4
  <2>6. PICK w \in {upgrade.whole, disk.whole}, S \in SUBSET DOMAIN upgrade.data :
          f = Survivor(w, S)
    BY <1>2 DEF Survives
  <2>7. [b \in 0 .. n - 1 |-> IF b \in S THEN upgrade.data[b] ELSE disk.data[b]]
          \in [0 .. n - 1 -> Images \cup {Zero}]
    BY <2>2, <2>5
  <2>8. w \in BOOLEAN
    BY <2>2, <2>3, <2>6
  <2>. QED
    BY <2>4, <2>6, <2>7, <2>8, FileMember DEF Survivor
<1>. QED
  BY <1>1, <1>2

-----------------------------------------------------------------------------
(* The invariant, one step per action.                                     *)

IInv == TypeOK /\ FileInv

\* The invariant holds in the beginning.
LEMMA InitInv == Init => IInv
<1>. SUFFICES ASSUME Init PROVE IInv
  OBVIOUS
<1>1. NoExtend \in UpdateFileExtend
  BY DEF NoExtend, UpdateFileExtend
<1>2. TypeOK
  BY <1>1 DEF Init, TypeOK
<1>3. FileInv
  BY DEF Init, FileInv, NoExtend
<1>. QED
  BY <1>2, <1>3 DEF IInv

\* A download that starts.
LEMMA StartInv ==
  ASSUME IInv, NEW img \in Images \cup {NoImage}, NEW new \in BOOLEAN,
         pc = "idle", Start(img, new), img = NoImage => ext.img = NoImage,
         UNCHANGED <<target, running, upgrade, saved, asked, rebooting>>,
         phase' \in {"idle", "asking", "getting", "rest"},
         fsock' \in {"none", "init", "connecting", "work", "error"}
  PROVE  IInv'
<1>. USE DEF IInv
<1>1. CASE img = NoImage
  <2>1. ext' = [ext EXCEPT !.total = 0, !.cur = 0, !.bits = {}, !.result = "FAILED"]
        /\ minor' = minor /\ disk' = disk /\ pc' = pc
    BY <1>1 DEF Start
  <2>2. ext' \in UpdateFileExtend
    BY <2>1 DEF TypeOK, UpdateFileExtend
  <2>4. TypeOK'
    BY <2>1, <2>2 DEF TypeOK
  <2>3. FileInv'
    BY <2>1, <1>1 DEF TypeOK, UpdateFileExtend, images, file, FileInv
  <2>. QED
    BY <2>3, <2>4
<1>2. CASE img # NoImage
  <2>1. /\ ext' = [ext EXCEPT !.img = img, !.new = new, !.total = Size(img),
                             !.cur = IF SameImage(img) THEN saved.cur ELSE 0,
                             !.bits = {}, !.open = FALSE, !.result = "FAILED"]
        /\ minor' \in {minor, NoImage}
        /\ disk' = IF ext.open THEN upgrade ELSE disk
        /\ pc' \in {"open", "delete"}
    BY <1>2 DEF Start, MinorLeft, Closed
  <2>2. (IF SameImage(img) THEN saved.cur ELSE 0) \in Nat
    BY DEF SameImage, TypeOK, UpdateFileExtend, images, file
  <2>3. Size(img) \in Nat /\ img \in Images
    BY <1>2, SizeType
  <2>6. ext' \in UpdateFileExtend
    BY <2>1, <2>2, <2>3 DEF TypeOK, UpdateFileExtend
  <2>4. TypeOK'
    BY <2>1, <2>6 DEF TypeOK
  <2>5. FileInv'
    BY <2>1, <1>2 DEF TypeOK, UpdateFileExtend, images, file, FileInv
  <2>. QED
    BY <2>4, <2>5
<1>. QED
  BY <1>1, <1>2

\* The operations on files.
LEMMA HandlerInv ==
  ASSUME IInv, Handler \/ CreateFails \/ SaveFails
  PROVE  IInv'
<1>. USE DEF IInv
<1>1. CASE OpenFile
  <2>1. pc = "open" /\ UNCHANGED <<target, minor, running, upgrade, disk, phase,
                                   fsock, rebooting>>
    BY <1>1 DEF OpenFile, images, file
  <2>2. ext.img \in Images /\ ext \in UpdateFileExtend
    BY <2>1 DEF TypeOK, UpdateFileExtend, FileInv
  <2>3. CASE Fits(ext.img)
    <3>1. /\ ext' = [ext EXCEPT !.open = TRUE] /\ asked' = asked \cup {ext.img}
          /\ pc' = "idle" /\ saved' = saved
      BY <1>1, <2>3 DEF OpenFile
    <3>2. ext' \in UpdateFileExtend
      BY <2>2, <3>1 DEF UpdateFileExtend
    <3>3. TypeOK'
      BY <2>1, <2>2, <3>1, <3>2 DEF TypeOK
    <3>4. FileInv'
      BY <2>1, <2>2, <2>3, <3>1 DEF UpdateFileExtend, FileInv, Fits
    <3>. QED
      BY <3>3, <3>4
  <2>4. CASE ~Fits(ext.img)
    <3>1. /\ ext' = [ext EXCEPT !.cur = 0] /\ asked' = asked
          /\ pc' = "delete" /\ saved' = NoState
      BY <1>1, <2>4 DEF OpenFile
    <3>2. ext' \in UpdateFileExtend
      BY <2>2, <3>1 DEF UpdateFileExtend
    <3>3. TypeOK'
      BY <2>1, <3>1, <3>2 DEF TypeOK
    <3>4. FileInv'
      BY <2>1, <2>2, <3>1 DEF UpdateFileExtend, FileInv
    <3>. QED
      BY <3>3, <3>4
  <2>. QED
    BY <2>3, <2>4
<1>2. CASE DeleteFile
  BY <1>2 DEF DeleteFile, TypeOK, images, file, FileInv
<1>3. CASE CreateFile
  <2>1. ext.img \in Images
    BY <1>3 DEF CreateFile, TypeOK, UpdateFileExtend, images, file, FileInv
  <2>4. ext' \in UpdateFileExtend
    BY <1>3 DEF CreateFile, TypeOK, UpdateFileExtend
  <2>2. TypeOK'
    <3>1. asked' \subseteq Images
      BY <1>3, <2>1 DEF CreateFile, TypeOK
    <3>2. upgrade' \in File /\ disk' \in File
      BY <1>3, <2>1, BlankType DEF CreateFile
    <3>3. /\ pc' = "idle"
          /\ UNCHANGED <<target, minor, running, saved, phase, fsock, rebooting>>
      BY <1>3 DEF CreateFile, images
    <3>. QED
      BY <2>4, <3>1, <3>2, <3>3 DEF TypeOK
  <2>3. FileInv'
    BY <1>3, <2>1, BlankType DEF CreateFile, TypeOK, UpdateFileExtend, images, file, FileInv
  <2>. QED
    BY <2>2, <2>3
<1>4. CASE CreateFails
  <2>1. ext.img \in Images
    BY <1>4 DEF CreateFails, TypeOK, UpdateFileExtend, images, file, FileInv
  <2>2. TypeOK'
    <3>1. upgrade' \in File /\ disk' \in File
      BY <1>4, <2>1, BlankType DEF CreateFails
    <3>2. /\ pc' = "send"
          /\ fsock' \in {fsock, "error"}
          /\ UNCHANGED <<target, minor, running, saved, phase, ext, asked, rebooting>>
      BY <1>4 DEF CreateFails, Report, images
    <3>. QED
      BY <3>1, <3>2 DEF TypeOK
  <2>3. FileInv'
    BY <1>4, <2>1, BlankType DEF CreateFails, Report, TypeOK, images, file, FileInv
  <2>. QED
    BY <2>2, <2>3
<1>5. CASE Commit
  BY <1>5 DEF Commit, TypeOK, images, file, FileInv
<1>6. CASE SaveState
  <2>1. State \in [img : Images, cur : Nat]
    BY <1>6 DEF SaveState, State, TypeOK, UpdateFileExtend, images, file, FileInv
  <2>. QED
    BY <1>6, <2>1 DEF SaveState, TypeOK, images, file, FileInv
<1>7. CASE SaveFails
  BY <1>7 DEF SaveFails, TypeOK, images, file, FileInv
<1>8. CASE Rename
  <2>1. Content \in Images \cup {Broken}
    BY DEF Content
  <2>2. TypeOK'
    BY <1>8, <2>1 DEF Rename, TypeOK, images, file
  <2>3. FileInv'
    BY <1>8 DEF Rename, TypeOK, images, file, FileInv
  <2>. QED
    BY <2>2, <2>3
<1>9. CASE Remove
  BY <1>9 DEF Remove, TypeOK, images, file, FileInv
<1>10. CASE Send
  BY <1>10 DEF Send, TypeOK, images, file, FileInv
<1>. QED
  BY <1>1, <1>2, <1>3, <1>4, <1>5, <1>6, <1>7, <1>8, <1>9, <1>10 DEF Handler

\* The conversation with the server, but for the blocks.
LEMMA TalkInv ==
  ASSUME IInv,
         \/ Ask \/ SessionEnds \/ Answers \/ FileConnect \/ FileConnected
         \/ GiveUp
         \/ \E img \in Images, new \in BOOLEAN : ReadyAgain(img, new)
  PROVE  IInv'
<1>. USE DEF IInv
<1>1. CASE Ask
  BY <1>1 DEF Ask, TypeOK, images, file, FileInv
<1>2. CASE SessionEnds
  BY <1>2 DEF SessionEnds, TypeOK, images, file, FileInv
<1>3. CASE Answers
  <2>1. PICK img \in Images, new \in BOOLEAN : Ready(img, new)
    BY <1>3 DEF Answers
  <2>2. CASE new
    <3>1. /\ ext' = [ext EXCEPT !.img = img, !.new = TRUE]
          /\ fsock' = "init" /\ phase' = "getting" /\ pc = "idle"
          /\ UNCHANGED <<target, minor, running, upgrade, disk, saved, asked,
                         rebooting, pc>>
      BY <2>1, <2>2 DEF Ready
    <3>2. ext' \in UpdateFileExtend
      BY <3>1 DEF TypeOK, UpdateFileExtend
    <3>3. TypeOK'
      BY <3>1, <3>2 DEF TypeOK
    <3>4. img # NoImage
      BY UpdateAssumption
    <3>5. FileInv'
      BY <3>1, <3>4 DEF TypeOK, UpdateFileExtend, FileInv
    <3>. QED
      BY <3>3, <3>5
  <2>3. CASE ~new
    <3>1. Start(img, FALSE) /\ UNCHANGED fsock /\ pc = "idle" /\ phase' = "getting"
          /\ UNCHANGED <<target, running, upgrade, saved, asked, rebooting>>
      BY <2>1, <2>3 DEF Ready
    <3>2. fsock' \in {"none", "init", "connecting", "work", "error"}
      BY <3>1 DEF TypeOK, images, file
    <3>3. img # NoImage
      BY UpdateAssumption
    <3>. QED
      BY <3>1, <3>2, <3>3, StartInv
  <2>. QED
    BY <2>2, <2>3
<1>4. CASE FileConnect
  BY <1>4 DEF FileConnect, TypeOK, images, file, FileInv
<1>5. CASE FileConnected
  <2>1. ext.img \in Images \cup {NoImage} /\ ext.new \in BOOLEAN
        /\ phase' \in {"idle", "asking", "getting", "rest"}
    BY <1>5 DEF FileConnected, TypeOK, UpdateFileExtend, images, file
  <2>. QED
    BY <1>5, <2>1, StartInv DEF FileConnected
<1>6. CASE GiveUp
  BY <1>6 DEF GiveUp, Report, TypeOK, UpdateFileExtend, images, file, FileInv
<1>7. ASSUME NEW img \in Images, NEW new \in BOOLEAN, ReadyAgain(img, new)
      PROVE  IInv'
  <2>1. img # NoImage
    BY UpdateAssumption
  <2>2. ext' \in UpdateFileExtend
    BY <1>7 DEF ReadyAgain, TypeOK, UpdateFileExtend
  <2>3. TypeOK'
    <3>1. asked' \subseteq Images /\ fsock' \in {"init", fsock}
      BY <1>7 DEF ReadyAgain, TypeOK
    <3>2. UNCHANGED <<target, minor, running, upgrade, disk, saved, phase,
                      rebooting, pc>>
      BY <1>7 DEF ReadyAgain, images, file
    <3>. QED
      BY <2>2, <3>1, <3>2 DEF TypeOK
  <2>4. FileInv'
    BY <1>7, <2>1 DEF ReadyAgain, TypeOK, UpdateFileExtend, images, file, FileInv
  <2>. QED
    BY <2>3, <2>4
<1>. QED
  BY <1>1, <1>2, <1>3, <1>4, <1>5, <1>6, <1>7

\* A block.
LEMMA BlockInv ==
  ASSUME IInv, NEW img \in Images, NEW b \in 0 .. Size(img) - 1,
         \/ Block(b, img) \/ BlockFillsWindow(b, img)
         \/ BlockFinishes(b, img) \/ BlockLost(b, img)
  PROVE  IInv'
<1>. USE DEF IInv
<1>1. ext.open => upgrade \in File
  BY DEF TypeOK, images, file, FileInv
<1>2. Marked(b) \in SUBSET (0 .. Window - 1)
  BY DEF Marked
<1>3. CASE Block(b, img)
  BY <1>1, <1>2, <1>3, WrittenType DEF Block, BlockComes, TypeOK, UpdateFileExtend, images, file, FileInv
<1>4. CASE BlockFillsWindow(b, img)
  <2>1. ext.cur + Window \in Nat
    BY UpdateAssumption DEF TypeOK, UpdateFileExtend, images, file
  <2>2. ext' \in UpdateFileExtend
    BY <1>4, <2>1 DEF BlockFillsWindow, TypeOK, UpdateFileExtend
  <2>3. TypeOK'
    BY <1>1, <1>4, <2>2, WrittenType DEF BlockFillsWindow, TypeOK, images, file
  <2>4. FileInv'
    BY <1>1, <1>4, WrittenType
       DEF BlockFillsWindow, BlockComes, TypeOK, UpdateFileExtend, images, file, FileInv
  <2>. QED
    BY <2>3, <2>4
<1>5. CASE BlockFinishes(b, img)
  <2>1. PICK result \in {"UPDATED", "FINISH"} :
          /\ ext' = [ext EXCEPT !.cur = ext.total, !.bits = {}, !.open = FALSE,
                              !.result = result]
          /\ Report(result)
    BY <1>5 DEF BlockFinishes
  <2>4. ext' \in UpdateFileExtend
    BY <2>1 DEF TypeOK, UpdateFileExtend
  <2>2. TypeOK'
    BY <1>1, <1>5, <2>1, <2>4, WrittenType
       DEF BlockFinishes, BlockComes, Report, TypeOK, images, file
  <2>3. FileInv'
    BY <1>1, <1>5, <2>1, WrittenType DEF BlockFinishes, BlockComes, Report, TypeOK, UpdateFileExtend, images, file, FileInv
  <2>. QED
    BY <2>2, <2>3
<1>6. CASE BlockLost(b, img)
  <2>1. ext' \in UpdateFileExtend
    BY <1>6 DEF BlockLost, TypeOK, UpdateFileExtend
  <2>2. TypeOK'
    BY <1>6, <2>1 DEF BlockLost, Closed, Report, TypeOK, images, file
  <2>3. FileInv'
    BY <1>6 DEF BlockLost, BlockComes, Closed, Report, TypeOK, UpdateFileExtend,
                images, file, FileInv
  <2>. QED
    BY <2>2, <2>3
<1>. QED
  BY <1>3, <1>4, <1>5, <1>6

\* Interruptions.
LEMMA BreakInv ==
  ASSUME IInv, BearerLost \/ FileSocketLost \/ Rested \/ Reboot \/ Crash
  PROVE  IInv'
<1>. USE DEF IInv
<1>1. CASE BearerLost
  BY <1>1 DEF BearerLost, Report, TypeOK, images, file, FileInv
<1>2. CASE FileSocketLost
  BY <1>2 DEF FileSocketLost, Report, TypeOK, images, file, FileInv
<1>3. NoExtend \in UpdateFileExtend
      /\ ~NoExtend.open
  BY DEF NoExtend, UpdateFileExtend
<1>4. CASE Rested
  BY <1>3, <1>4 DEF Rested, Closed, TypeOK, images, file, FileInv
<1>5. BootImage \in Images \cup {Factory, Broken, NoImage}
  BY DEF TypeOK, images, file, BootImage
<1>6. CASE Reboot
  BY <1>3, <1>5, <1>6 DEF Reboot, Boot, TypeOK, images, file, FileInv
<1>7. CASE Crash
  <2>1. upgrade' \in File \cup {NoFile} /\ disk' = upgrade'
    BY <1>7, SurvivesType DEF Crash, TypeOK, images, file
  <2>2. saved' \in [img : Images, cur : Nat] \cup {NoState, Torn}
    <3>1. pc = "state" => State \in [img : Images, cur : Nat]
      BY DEF State, TypeOK, UpdateFileExtend, images, file, FileInv
    <3>. QED
      BY <1>7, <3>1 DEF Crash, TypeOK, images, file
  <2>3. TypeOK'
    BY <1>3, <1>5, <1>7, <2>1, <2>2 DEF Crash, Boot, TypeOK, images, file
  <2>4. FileInv'
    BY <1>3, <1>7, <2>1 DEF Crash, Boot, FileInv
  <2>. QED
    BY <2>3, <2>4
<1>. QED
  BY <1>1, <1>2, <1>4, <1>6, <1>7

\* Every step keeps the invariant.
LEMMA StepInv == IInv /\ [Next]_vars => IInv'
<1>. SUFFICES ASSUME IInv, [Next]_vars PROVE IInv'
  OBVIOUS
<1>1. CASE UNCHANGED vars
  BY <1>1 DEF IInv, TypeOK, images, file, FileInv, vars, images, file
<1>2. CASE Regular
  BY <1>2, HandlerInv, TalkInv, BlockInv, BreakInv DEF Regular, BlockStored, Unanswered
<1>3. CASE Failure
  BY <1>3, HandlerInv, TalkInv, BlockInv, BreakInv DEF Failure
<1>. QED
  BY <1>1, <1>2, <1>3 DEF Next

\* A handler that is at work has the file it works on, and flash and memory have views of one length.
THEOREM FileInvariance == Steps => []IInv
BY InitInv, StepInv, PTL DEF Steps

\* The variables of update_file.c and update_service.c keep their types.
THEOREM TypeCorrect == Steps => []TypeOK
<1>1. IInv => TypeOK
  BY DEF IInv
<1>. QED
  BY <1>1, FileInvariance, PTL

-----------------------------------------------------------------------------
(***************************************************************************)
(* The exchange of the images. A report of success is made once: it comes  *)
(* with a whole download and one image missing, and after it the device is *)
(* about to reboot, so that with Steady nothing reports it again. Two      *)
(* images may be left by a crash between the renaming and the removal;     *)
(* then there is no download.                                              *)
(***************************************************************************)
Bootable == Images \cup {Factory}

SwapInv ==
  /\ target \in Bootable \cup {NoImage}
  /\ minor \in Bootable \cup {NoImage}
  /\ target # NoImage \/ minor # NoImage
  /\ AtMostTwoCopies
  /\ pc \in {"open", "delete", "create"} => target = NoImage \/ minor = NoImage
  /\ pc = "rename" => /\ upgrade # NoFile
                      /\ ext.img \in Images
                      /\ Holds(upgrade, ext.img)
  /\ pc = "removeMinor" => target # NoImage
  /\ pc = "removeTarget" => minor # NoImage
  /\ pc = "idle" /\ ext.result = "UPDATED" => rebooting

\* An image of the server is not the one of the factory, nor a broken one.
LEMMA ImagesDiffer ==
  Factory # NoImage /\ Factory \in Bootable /\ NoImage \notin Images
BY UpdateAssumption DEF Bootable

\* A download that starts makes room for itself.
LEMMA StartSwap ==
  ASSUME IInv, SwapInv, NEW img, NEW new, pc = "idle", Start(img, new),
         UNCHANGED <<target, running, upgrade, saved, asked, rebooting>>
  PROVE  SwapInv'
<1>1. CASE img = NoImage
  BY <1>1 DEF Start, SwapInv, AtMostTwoCopies, IInv, TypeOK, UpdateFileExtend
<1>2. CASE img # NoImage
  <2>1. /\ minor' = IF target # NoImage THEN NoImage ELSE minor
        /\ pc' \in {"open", "delete"}
    BY <1>2 DEF Start, MinorLeft
  <2>. QED
    BY <2>1 DEF SwapInv, AtMostTwoCopies
<1>. QED
  BY <1>1, <1>2

\* The operations on files.
LEMMA HandlerSwap ==
  ASSUME IInv, SwapInv, Handler \/ CreateFails \/ SaveFails
  PROVE  SwapInv'
<1>. USE DEF SwapInv, AtMostTwoCopies
<1>1. CASE OpenFile
  BY <1>1 DEF OpenFile, images, file, IInv, TypeOK, FileInv, UpdateFileExtend
<1>2. CASE DeleteFile
  BY <1>2 DEF DeleteFile, images
<1>3. CASE CreateFile
  BY <1>3 DEF CreateFile, images, IInv, TypeOK, FileInv, UpdateFileExtend
<1>4. CASE CreateFails
  BY <1>4 DEF CreateFails, Report, images
<1>5. CASE Commit
  BY <1>5 DEF Commit, images
<1>6. CASE SaveState
  BY <1>6 DEF SaveState, images, file, IInv, FileInv
<1>7. CASE SaveFails
  BY <1>7 DEF SaveFails, images, file, IInv, FileInv
<1>8. CASE Rename
  <2>1. Content \in Images
    BY <1>8 DEF Rename, Content
  <2>2. pc = "rename" /\ (target = NoImage \/ minor = NoImage) /\ upgrade # NoFile
    BY <1>8 DEF Rename
  <2>3. /\ upgrade' = NoFile
        /\ target' = IF target = NoImage THEN Content ELSE target
        /\ minor' = IF target # NoImage THEN Content ELSE minor
        /\ pc' = IF target = NoImage THEN "removeMinor" ELSE "removeTarget"
    BY <1>8, <2>2 DEF Rename
  <2>4. Content \in Bootable /\ Content # NoImage
    BY <2>1, ImagesDiffer DEF Bootable
  <2>. QED
    BY <2>2, <2>3, <2>4
<1>9. CASE Remove
  BY <1>9 DEF Remove, file
<1>10. CASE Send
  BY <1>10 DEF Send, images, file
<1>. QED
  BY <1>1, <1>2, <1>3, <1>4, <1>5, <1>6, <1>7, <1>8, <1>9, <1>10 DEF Handler

\* The conversation with the server, but for the blocks.
LEMMA TalkSwap ==
  ASSUME IInv, SwapInv,
         \/ Ask \/ SessionEnds \/ Answers \/ FileConnect \/ FileConnected
         \/ GiveUp
         \/ \E img \in Images, new \in BOOLEAN : ReadyAgain(img, new)
  PROVE  SwapInv'
<1>1. CASE Ask
  BY <1>1 DEF Ask, images, file, SwapInv, AtMostTwoCopies
<1>2. CASE SessionEnds
  BY <1>2 DEF SessionEnds, images, file, SwapInv, AtMostTwoCopies
<1>3. CASE Answers
  <2>1. PICK img \in Images, new \in BOOLEAN : Ready(img, new)
    BY <1>3 DEF Answers
  <2>2. CASE new
    BY <2>1, <2>2 DEF Ready, SwapInv, AtMostTwoCopies, IInv, TypeOK, UpdateFileExtend
  <2>3. CASE ~new
    BY <2>1, <2>3, StartSwap DEF Ready
  <2>. QED
    BY <2>2, <2>3
<1>4. CASE FileConnect
  BY <1>4 DEF FileConnect, images, file, SwapInv, AtMostTwoCopies
<1>5. CASE FileConnected
  BY <1>5, StartSwap DEF FileConnected
<1>6. CASE GiveUp
  BY <1>6 DEF GiveUp, Report, images, file, SwapInv, AtMostTwoCopies
<1>7. ASSUME NEW img \in Images, NEW new \in BOOLEAN, ReadyAgain(img, new)
      PROVE  SwapInv'
  BY <1>7 DEF ReadyAgain, images, file, SwapInv, AtMostTwoCopies, IInv, TypeOK,
              UpdateFileExtend
<1>. QED
  BY <1>1, <1>2, <1>3, <1>4, <1>5, <1>6, <1>7

\* A block; the last one is checked before it is reported.
LEMMA BlockSwap ==
  ASSUME IInv, SwapInv, NEW img \in Images, NEW b \in 0 .. Size(img) - 1,
         \/ Block(b, img) \/ BlockFillsWindow(b, img)
         \/ BlockFinishes(b, img) \/ BlockLost(b, img)
  PROVE  SwapInv'
<1>. USE DEF SwapInv, AtMostTwoCopies
<1>1. pc = "idle" /\ UNCHANGED <<target, minor, rebooting>>
  BY DEF Block, BlockFillsWindow, BlockFinishes, BlockLost, BlockComes, images
<1>2. ext.open => /\ target = NoImage \/ minor = NoImage
                  /\ ext.img \in Images /\ upgrade \in File
  BY DEF IInv, TypeOK, FileInv, UpdateFileExtend
<1>3. CASE Block(b, img)
  BY <1>1, <1>2, <1>3 DEF Block, IInv, TypeOK, UpdateFileExtend
<1>4. CASE BlockFillsWindow(b, img)
  BY <1>1, <1>2, <1>4 DEF BlockFillsWindow
<1>5. CASE BlockFinishes(b, img)
  <2>1. CASE Holds(Written(b, img), ext.img)
    <3>1. upgrade' = Written(b, img) /\ pc' = "rename" /\ ext'.img = ext.img /\ ext.open
      BY <1>5, <2>1 DEF BlockFinishes, Report, IInv, TypeOK, UpdateFileExtend
    <3>2. upgrade' # NoFile
      BY <1>2, <3>1, WrittenType
    <3>3. Holds(upgrade, ext.img)'
      BY <2>1, <3>1 DEF Holds
    <3>. QED
      BY <1>1, <1>2, <3>1, <3>2, <3>3
  <2>2. CASE ~Holds(Written(b, img), ext.img)
    BY <1>1, <1>2, <1>5, <2>2 DEF BlockFinishes, Report
  <2>. QED
    BY <2>1, <2>2
<1>6. CASE BlockLost(b, img)
  BY <1>1, <1>6 DEF BlockLost, Report
<1>. QED
  BY <1>3, <1>4, <1>5, <1>6

\* Interruptions: none reports a success that was reported.
LEMMA BreakSwap ==
  ASSUME Steady, IInv, SwapInv,
         BearerLost \/ FileSocketLost \/ Rested \/ Reboot \/ Crash
  PROVE  SwapInv'
<1>. USE DEF SwapInv, AtMostTwoCopies
<1>1. CASE BearerLost
  BY <1>1 DEF BearerLost, Report, images, file
<1>2. CASE FileSocketLost
  BY <1>2 DEF FileSocketLost, Report, images, file
<1>3. CASE Rested
  BY <1>3 DEF Rested, images, NoExtend
<1>4. CASE Reboot
  BY <1>4 DEF Reboot, Boot, NoExtend
<1>5. CASE Crash
  <2>1. upgrade = NoFile => upgrade' = NoFile
    BY <1>5 DEF Crash, Survives
  <2>. QED
    BY <1>5, <2>1 DEF Crash, Boot, NoExtend
<1>. QED
  BY <1>1, <1>2, <1>3, <1>4, <1>5

\* At first one image is there.
LEMMA InitSwap == Init => SwapInv
  BY ImagesDiffer DEF Init, SwapInv, AtMostTwoCopies, NoExtend, Bootable

\* Every step keeps one image.
LEMMA StepSwap ==
  ASSUME Steady, IInv, SwapInv, [Next]_vars
  PROVE  SwapInv'
<1>1. CASE UNCHANGED vars
  BY <1>1 DEF SwapInv, AtMostTwoCopies, vars, images, file
<1>2. CASE Regular
  BY <1>2, HandlerSwap, TalkSwap, BlockSwap, BreakSwap
     DEF Regular, BlockStored, Unanswered
<1>3. CASE Failure
  BY <1>3, HandlerSwap, TalkSwap, BlockSwap, BreakSwap DEF Failure
<1>. QED
  BY <1>1, <1>2, <1>3 DEF Next

\* If nothing closes between an update and its reboot, there is always an image to start, and the
\* exchange removes one only when it has the other (update_file.c).
THEOREM SwapInvariance ==
  ASSUME Steady
  PROVE  Steps => []SwapInv
<1>1. IInv /\ SwapInv /\ [Next]_vars => SwapInv'
  BY StepSwap
<1>. QED
  BY <1>1, InitSwap, FileInvariance, PTL DEF Steps

\* If nothing closes between an update and its reboot, power may fail at any
\* step and the device starts the first image or a whole one of the server's.
THEOREM DeviceStaysBootable ==
  ASSUME Steady
  PROVE  Steps => []AlwaysBootable
<1>1. SwapInv => AlwaysBootable
  BY DEF SwapInv, AlwaysBootable, BootImage, Bootable
<1>. QED
  BY <1>1, SwapInvariance, PTL

\* Under the same condition flash never holds three images.
THEOREM TwoCopies ==
  ASSUME Steady
  PROVE  Steps => []AtMostTwoCopies
<1>1. SwapInv => AtMostTwoCopies
  BY DEF SwapInv
<1>. QED
  BY <1>1, SwapInvariance, PTL

-----------------------------------------------------------------------------
(***************************************************************************)
(* What the state file promises. A file is told from another one by its    *)
(* length only (update_filemod_file_open), so it is kept under the         *)
(* condition that no two images on offer have the same length: then the    *)
(* file the state file was written for is never taken for another one,     *)
(* although a new download does not delete the state file of the old one.  *)
(* Any images of different lengths are one version in as many lengths.     *)
(***************************************************************************)
OneLength == \A i, j \in Images : Size(i) = Size(j) => i = j

\* A file of the length the state file was written for has every block before
\* the point where it continues.
Backs(f) ==
  (/\ saved \notin {NoState, Torn}
   /\ f # NoFile
   /\ DOMAIN f.data = 0 .. Size(saved.img) - 1)
     => /\ saved.cur <= Size(saved.img)
        /\ \A b \in 0 .. saved.cur - 1 : f.data[b] # Zero

\* Nothing is in memory only but while the file is open, and then what is below
\* the window or marked in it has been stored.
ResumeInv ==
  /\ ~ext.open \/ pc = "state" => upgrade = disk
  /\ ext.open =>
       /\ DOMAIN upgrade.data = 0 .. ext.total - 1
       /\ \A b \in DOMAIN upgrade.data :
            b < ext.cur \/ b - ext.cur \in ext.bits => upgrade.data[b] # Zero
  /\ pc \in {"open", "delete", "create"} => ext.total = Size(ext.img) /\ ext.bits = {}
  /\ pc \in {"delete", "create"} => ~SameImage(ext.img) /\ ext.cur = 0
  /\ pc = "open" => SameImage(ext.img) /\ ext.cur = saved.cur
  /\ pc \in {"commit", "state"} => ext.cur <= ext.total
  /\ Backs(upgrade) /\ Backs(disk)

\* The fields of what is kept in memory about the file.
LEMMA ExtFields ==
  ASSUME IInv
  PROVE  /\ ext.total \in Nat /\ ext.cur \in Nat /\ ext.bits \in SUBSET (0 .. Window - 1)
         /\ ext.open \in BOOLEAN /\ ext.img \in Images \cup {NoImage}
         /\ Window \in Nat \ {0}
BY UpdateAssumption DEF IInv, TypeOK, UpdateFileExtend

\* The intervals of two lengths are different.
LEMMA SameLength ==
  ASSUME NEW m \in Nat, NEW n \in Nat, 0 .. m - 1 = 0 .. n - 1
  PROVE  m = n
<1>1. CASE m < n
  <2>1. m \in 0 .. n - 1 /\ m \notin 0 .. m - 1
    BY <1>1
  <2>. QED
    BY <2>1
<1>2. CASE n < m
  <2>1. n \in 0 .. m - 1 /\ n \notin 0 .. n - 1
    BY <1>2
  <2>. QED
    BY <2>1
<1>. QED
  BY <1>1, <1>2

\* A block that is stored is there, and the others are as they were.
LEMMA WrittenData ==
  ASSUME upgrade \in File, NEW img \in Images, NEW b
  PROVE  \A c \in DOMAIN upgrade.data :
           Written(b, img).data[c] = IF c = b THEN img ELSE upgrade.data[c]
<1>1. PICK n \in Sizes :
        upgrade \in [whole : BOOLEAN, data : [0 .. n - 1 -> Images \cup {Zero}]]
  BY FileShape
<1>. QED
  BY <1>1 DEF Written

\* Storing a block takes nothing from what the state file promises.
LEMMA WrittenBacks ==
  ASSUME IInv, ResumeInv, ext.open, NEW img \in Images, NEW b,
         upgrade' = Written(b, img), saved' = saved
  PROVE  Backs(upgrade)'
<1>1. upgrade \in File /\ upgrade # NoFile
  BY DEF IInv, TypeOK, FileInv
<1>2. /\ DOMAIN upgrade'.data = DOMAIN upgrade.data
      /\ \A c \in DOMAIN upgrade.data :
           upgrade'.data[c] = IF c = b THEN img ELSE upgrade.data[c]
  BY <1>1, WrittenType, WrittenData
<1>3. img # Zero
  BY UpdateAssumption
<1>. SUFFICES ASSUME saved \notin {NoState, Torn}, upgrade' # NoFile,
                     DOMAIN upgrade'.data = 0 .. Size(saved.img) - 1
              PROVE  /\ saved.cur <= Size(saved.img)
                     /\ \A c \in 0 .. saved.cur - 1 : upgrade'.data[c] # Zero
  BY DEF Backs
<1>4. /\ saved.cur <= Size(saved.img)
      /\ \A c \in 0 .. saved.cur - 1 : upgrade.data[c] # Zero
  BY <1>1, <1>2 DEF ResumeInv, Backs
<1>5. saved.cur \in Nat /\ Size(saved.img) \in Nat
  BY SizeType DEF IInv, TypeOK
<1>6. \A c \in 0 .. saved.cur - 1 : c \in DOMAIN upgrade.data
  BY <1>2, <1>4, <1>5
<1>. QED
  BY <1>2, <1>3, <1>4, <1>6

\* The state that is about to be saved says of the file what it has.
LEMMA StateBacks ==
  ASSUME IInv, ResumeInv, pc = "state", NEW f, f # NoFile,
         DOMAIN f.data = DOMAIN upgrade.data,
         \A c \in DOMAIN upgrade.data : f.data[c] = upgrade.data[c],
         DOMAIN f.data = 0 .. Size(State.img) - 1
  PROVE  /\ State.cur <= Size(State.img)
         /\ \A b \in 0 .. State.cur - 1 : f.data[b] # Zero
<1>1. ext.open /\ ext.img \in Images /\ State.img = ext.img /\ State.cur = ext.cur
  BY DEF IInv, TypeOK, FileInv, UpdateFileExtend, State
<1>2. ext.total \in Nat /\ ext.cur \in Nat /\ Size(ext.img) \in Nat
  BY <1>1, ExtFields, SizeType
<1>3. 0 .. ext.total - 1 = 0 .. Size(ext.img) - 1
  BY <1>1 DEF ResumeInv
<1>4. ext.total = Size(ext.img)
  BY <1>2, <1>3, SameLength
<1>5. ext.cur <= ext.total
  BY DEF ResumeInv
<1>6. \A b \in 0 .. ext.cur - 1 : b \in DOMAIN upgrade.data /\ b < ext.cur
  BY <1>1, <1>2, <1>5 DEF ResumeInv
<1>7. \A b \in 0 .. ext.cur - 1 : upgrade.data[b] # Zero
  BY <1>1, <1>6 DEF ResumeInv
<1>. QED
  BY <1>1, <1>4, <1>5, <1>6, <1>7

\* A download that starts is ready to go on, or to make a new file.
LEMMA StartResume ==
  ASSUME IInv, ResumeInv, NEW img \in Images \cup {NoImage}, NEW new \in BOOLEAN,
         pc = "idle", Start(img, new), img = NoImage => ext.img = NoImage,
         UNCHANGED <<upgrade, saved>>
  PROVE  ResumeInv'
<1>1. CASE img = NoImage
  <2>1. /\ ~ext.open /\ ~ext'.open
        /\ disk' = disk /\ pc' = pc
    BY <1>1 DEF Start, IInv, FileInv, TypeOK, UpdateFileExtend
  <2>. QED
    BY <2>1 DEF ResumeInv, Backs
<1>2. CASE img # NoImage
  <2>1. /\ ~ext'.open /\ ext'.img = img /\ ext'.total = Size(img) /\ ext'.bits = {}
        /\ ext'.cur = IF SameImage(img) THEN saved.cur ELSE 0
        /\ disk' = upgrade
        /\ pc' = IF SameImage(img) THEN "open" ELSE "delete"
    BY <1>2 DEF Start, Closed, IInv, TypeOK, UpdateFileExtend, ResumeInv
  <2>2. SameImage(ext.img)' <=> SameImage(img)
    BY <2>1 DEF SameImage
  <2>3. Backs(upgrade)' /\ Backs(disk)'
    BY <2>1 DEF ResumeInv, Backs
  <2>. QED
    BY <2>1, <2>2, <2>3 DEF ResumeInv
<1>. QED
  BY <1>1, <1>2

\* The operations on files.
LEMMA HandlerResume ==
  ASSUME OneLength, IInv, ResumeInv, Handler \/ CreateFails \/ SaveFails
  PROVE  ResumeInv'
<1>1. CASE OpenFile
  <2>1. /\ pc = "open" /\ UNCHANGED <<upgrade, disk>> /\ ~ext.open /\ upgrade = disk
        /\ ext.img \in Images /\ SameImage(ext.img) /\ ext.cur = saved.cur
        /\ ext.total = Size(ext.img) /\ ext.bits = {}
    BY <1>1 DEF OpenFile, file, IInv, TypeOK, FileInv, UpdateFileExtend, ResumeInv
  <2>2. CASE Fits(ext.img)
    <3>1. /\ ext' = [ext EXCEPT !.open = TRUE] /\ pc' = "idle" /\ saved' = saved
      BY <1>1, <2>2 DEF OpenFile
    <3>2. /\ ext'.open /\ ext'.total = ext.total /\ ext'.cur = ext.cur /\ ext'.bits = {}
      BY <2>1, <3>1 DEF IInv, TypeOK, UpdateFileExtend
    <3>3. DOMAIN upgrade.data = 0 .. ext.total - 1 /\ upgrade # NoFile
      BY <2>1, <2>2 DEF Fits
    <3>4. \A b \in 0 .. saved.cur - 1 : upgrade.data[b] # Zero
      BY <2>1, <3>3 DEF ResumeInv, Backs, SameImage
    <3>5. \A b \in DOMAIN upgrade.data : b < ext.cur => upgrade.data[b] # Zero
      BY <2>1, <3>3, <3>4, ExtFields
    <3>6. Backs(upgrade)' /\ Backs(disk)'
      BY <2>1, <3>1 DEF ResumeInv, Backs
    <3>. QED
      BY <2>1, <3>1, <3>2, <3>3, <3>5, <3>6 DEF ResumeInv
  <2>3. CASE ~Fits(ext.img)
    <3>1. /\ ext' = [ext EXCEPT !.cur = 0] /\ pc' = "delete" /\ saved' = NoState
      BY <1>1, <2>3 DEF OpenFile
    <3>2. /\ ~ext'.open /\ ext'.total = ext.total /\ ext'.cur = 0 /\ ext'.bits = {}
          /\ ext'.img = ext.img
      BY <2>1, <3>1 DEF IInv, TypeOK, UpdateFileExtend
    <3>3. Backs(upgrade)' /\ Backs(disk)'
      BY <3>1 DEF Backs
    <3>. QED
      BY <2>1, <3>1, <3>2, <3>3 DEF ResumeInv, SameImage
  <2>. QED
    BY <2>2, <2>3
<1>2. CASE DeleteFile
  <2>1. /\ pc = "delete" /\ pc' = "create" /\ upgrade' = NoFile /\ disk' = NoFile
        /\ UNCHANGED <<ext, saved>>
    BY <1>2 DEF DeleteFile
  <2>2. ~ext.open
    BY <2>1 DEF IInv, FileInv
  <2>3. Backs(upgrade)' /\ Backs(disk)' /\ (SameImage(ext.img)' <=> SameImage(ext.img))
    BY <2>1 DEF Backs, SameImage
  <2>. QED
    BY <2>1, <2>2, <2>3 DEF ResumeInv
<1>3. ASSUME CreateFile \/ CreateFails PROVE Backs(upgrade)' /\ Backs(disk)'
  <2>1. /\ pc = "create" /\ saved' = saved /\ ext.img \in Images /\ ~SameImage(ext.img)
        /\ \E w \in BOOLEAN : upgrade' = Blank(w)
        /\ \E w \in BOOLEAN : disk' = Blank(w)
    BY <1>3 DEF CreateFile, CreateFails, IInv, TypeOK, FileInv, UpdateFileExtend, ResumeInv
  <2>2. /\ DOMAIN upgrade'.data = 0 .. Size(ext.img) - 1
        /\ DOMAIN disk'.data = 0 .. Size(ext.img) - 1
    BY <2>1, BlankType
  <2>3. ASSUME saved \notin {NoState, Torn}, 0 .. Size(ext.img) - 1 = 0 .. Size(saved.img) - 1
        PROVE  FALSE
    <3>1. saved.img \in Images /\ saved.img # ext.img
      BY <2>1, <2>3 DEF SameImage, IInv, TypeOK
    <3>2. Size(ext.img) = Size(saved.img)
      BY <2>1, <2>3, <3>1, SizeType, SameLength
    <3>. QED
      BY <2>1, <3>1, <3>2 DEF OneLength
  <2>. QED
    BY <2>1, <2>2, <2>3 DEF Backs
<1>4. CASE CreateFile
  <2>1. /\ pc = "create" /\ pc' = "idle" /\ upgrade' = Blank(TRUE)
        /\ ext' = [ext EXCEPT !.open = TRUE]
    BY <1>4 DEF CreateFile
  <2>2. /\ ext.img \in Images /\ ext.total = Size(ext.img) /\ ext.bits = {} /\ ext.cur = 0
    BY <2>1 DEF IInv, TypeOK, FileInv, UpdateFileExtend, ResumeInv
  <2>3. /\ ext'.open /\ ext'.total = ext.total /\ ext'.cur = 0 /\ ext'.bits = {}
    BY <2>1, <2>2 DEF IInv, TypeOK, UpdateFileExtend
  <2>4. DOMAIN upgrade'.data = 0 .. ext.total - 1
    BY <2>1, <2>2, BlankType
  <2>5. \A b \in DOMAIN upgrade'.data : ~(b < 0)
    BY <2>4, ExtFields
  <2>. QED
    BY <1>3, <1>4, <2>1, <2>3, <2>4, <2>5 DEF ResumeInv
<1>5. CASE CreateFails
  <2>1. /\ pc = "create" /\ pc' \in {"rename", "send"} /\ upgrade' = disk' /\ ext' = ext
    BY <1>5 DEF CreateFails, Report
  <2>2. ~ext.open
    BY <2>1 DEF IInv, FileInv
  <2>. QED
    BY <1>3, <1>5, <2>1, <2>2 DEF ResumeInv
<1>6. CASE Commit
  <2>1. /\ pc = "commit" /\ pc' = "state" /\ disk' = upgrade
        /\ UNCHANGED <<upgrade, saved, ext>>
    BY <1>6 DEF Commit
  <2>2. Backs(upgrade)' /\ Backs(disk)'
    BY <2>1 DEF ResumeInv, Backs
  <2>. QED
    BY <2>1, <2>2 DEF ResumeInv
<1>7. CASE SaveState
  <2>1. /\ pc = "state" /\ pc' = "idle" /\ saved' = State /\ UNCHANGED <<upgrade, disk, ext>>
    BY <1>7 DEF SaveState, file
  <2>2. upgrade = disk
    BY <2>1 DEF ResumeInv
  <2>3. ASSUME upgrade # NoFile, DOMAIN upgrade.data = 0 .. Size(State.img) - 1
        PROVE  /\ State.cur <= Size(State.img)
               /\ \A b \in 0 .. State.cur - 1 : upgrade.data[b] # Zero
    BY <2>1, <2>3, StateBacks
  <2>4. Backs(upgrade)' /\ Backs(disk)'
    BY <2>1, <2>2, <2>3 DEF Backs
  <2>. QED
    BY <2>1, <2>2, <2>4 DEF ResumeInv
<1>8. CASE SaveFails
  <2>1. /\ pc = "state" /\ pc' = "idle" /\ saved' \in {saved, Torn}
        /\ UNCHANGED <<upgrade, disk, ext>>
    BY <1>8 DEF SaveFails, file
  <2>2. Backs(upgrade)' /\ Backs(disk)'
    BY <2>1 DEF ResumeInv, Backs
  <2>. QED
    BY <2>1, <2>2 DEF ResumeInv
<1>9. CASE Rename
  <2>1. /\ pc = "rename" /\ pc' \in {"removeMinor", "removeTarget"} /\ UNCHANGED <<ext, saved>>
        /\ \/ upgrade' = NoFile /\ disk' = NoFile
           \/ UNCHANGED <<upgrade, disk>>
    BY <1>9 DEF Rename
  <2>2. ~ext.open
    BY <2>1 DEF IInv, FileInv
  <2>3. Backs(upgrade)' /\ Backs(disk)'
    BY <2>1 DEF ResumeInv, Backs
  <2>. QED
    BY <2>1, <2>2, <2>3 DEF ResumeInv
<1>10. CASE Remove
  BY <1>10 DEF Remove, file, ResumeInv, Backs
<1>11. CASE Send
  BY <1>11 DEF Send, file, ResumeInv, Backs
<1>. QED
  BY <1>1, <1>2, <1>4, <1>5, <1>6, <1>7, <1>8, <1>9, <1>10, <1>11 DEF Handler

\* The conversation with the server, but for the blocks.
LEMMA TalkResume ==
  ASSUME IInv, ResumeInv,
         \/ Ask \/ SessionEnds \/ Answers \/ FileConnect \/ FileConnected
         \/ GiveUp
         \/ \E img \in Images, new \in BOOLEAN : ReadyAgain(img, new)
  PROVE  ResumeInv'
<1>0. ASSUME pc = "idle", pc' \in {"idle", "rename", "send"}, UNCHANGED <<upgrade, disk, saved>>,
             ext'.open = ext.open, ext'.total = ext.total, ext'.cur = ext.cur,
             ext'.bits = ext.bits
      PROVE  ResumeInv'
  BY <1>0 DEF ResumeInv, Backs
<1>1. CASE Ask
  BY <1>0, <1>1 DEF Ask, file
<1>2. CASE SessionEnds
  BY <1>0, <1>2 DEF SessionEnds, file
<1>3. CASE Answers
  <2>1. PICK img \in Images, new \in BOOLEAN : Ready(img, new)
    BY <1>3 DEF Answers
  <2>2. CASE new
    BY <1>0, <2>1, <2>2 DEF Ready, IInv, TypeOK, UpdateFileExtend
  <2>3. CASE ~new
    BY <2>1, <2>3, StartResume, UpdateAssumption DEF Ready
  <2>. QED
    BY <2>2, <2>3
<1>4. CASE FileConnect
  BY <1>0, <1>4 DEF FileConnect, file
<1>5. CASE FileConnected
  <2>1. ext.img \in Images \cup {NoImage} /\ ext.new \in BOOLEAN
    BY DEF IInv, TypeOK, UpdateFileExtend
  <2>. QED
    BY <1>5, <2>1, StartResume DEF FileConnected
<1>6. CASE GiveUp
  BY <1>0, <1>6 DEF GiveUp, Report, file, IInv, TypeOK, UpdateFileExtend
<1>7. ASSUME NEW img \in Images, NEW new \in BOOLEAN, ReadyAgain(img, new)
      PROVE  ResumeInv'
  BY <1>0, <1>7 DEF ReadyAgain, file, IInv, TypeOK, UpdateFileExtend
<1>. QED
  BY <1>1, <1>2, <1>3, <1>4, <1>5, <1>6, <1>7

\* A block, of whatever download.
LEMMA BlockResume ==
  ASSUME IInv, ResumeInv, NEW img \in Images, NEW b \in 0 .. Size(img) - 1,
         \/ Block(b, img) \/ BlockFillsWindow(b, img)
         \/ BlockFinishes(b, img) \/ BlockLost(b, img)
  PROVE  ResumeInv'
<1>1. pc = "idle" /\ saved' = saved
  BY DEF Block, BlockFillsWindow, BlockFinishes, BlockLost, BlockComes
<1>2. ASSUME ext.open, upgrade' = Written(b, img)
      PROVE  /\ DOMAIN upgrade'.data = 0 .. ext.total - 1
             /\ \A c \in DOMAIN upgrade'.data :
                  c < ext.cur \/ c - ext.cur \in Marked(b) => upgrade'.data[c] # Zero
             /\ Backs(upgrade)'
  <2>1. upgrade \in File
    BY <1>2 DEF IInv, TypeOK, FileInv
  <2>2. /\ DOMAIN upgrade'.data = DOMAIN upgrade.data
        /\ \A c \in DOMAIN upgrade.data :
             upgrade'.data[c] = IF c = b THEN img ELSE upgrade.data[c]
    BY <1>2, <2>1, WrittenType, WrittenData
  <2>3. img # Zero
    BY UpdateAssumption
  <2>4. ASSUME NEW c \in DOMAIN upgrade.data, c # b, c - ext.cur \in Marked(b)
        PROVE  c - ext.cur \in ext.bits
    <3>1. c \in 0 .. ext.total - 1 /\ ext.total \in Nat /\ ext.cur \in Nat
      BY <1>2, ExtFields DEF ResumeInv
    <3>2. b \in Int
      BY SizeType
    <3>3. c - ext.cur # b - ext.cur
      BY <2>4, <3>1, <3>2
    <3>. QED
      BY <2>4, <3>3 DEF Marked
  <2>. QED
    BY <1>1, <1>2, <2>2, <2>3, <2>4, WrittenBacks DEF ResumeInv
<1>3. CASE Block(b, img)
  <2>1. /\ ext.open /\ upgrade' = Written(b, img) /\ ext' = [ext EXCEPT !.bits = Marked(b)]
        /\ disk' = disk /\ pc' = "idle"
    BY <1>1, <1>3 DEF Block
  <2>2. ext'.open /\ ext'.total = ext.total /\ ext'.cur = ext.cur /\ ext'.bits = Marked(b)
    BY <2>1 DEF IInv, TypeOK, UpdateFileExtend
  <2>3. Backs(disk)'
    BY <1>1, <2>1 DEF ResumeInv, Backs
  <2>. QED
    BY <1>2, <2>1, <2>2, <2>3 DEF ResumeInv
<1>4. CASE BlockFillsWindow(b, img)
  <2>1. /\ ext.open /\ upgrade' = Written(b, img)
        /\ ext' = [ext EXCEPT !.cur = ext.cur + Window, !.bits = {}]
        /\ disk' = disk /\ pc' = "commit"
        /\ WindowFull(Marked(b)) /\ ext.cur + Window < ext.total
    BY <1>4 DEF BlockFillsWindow
  <2>2. ext'.open /\ ext'.total = ext.total /\ ext'.cur = ext.cur + Window /\ ext'.bits = {}
    BY <2>1 DEF IInv, TypeOK, UpdateFileExtend
  <2>3. Backs(disk)'
    BY <1>1, <2>1 DEF ResumeInv, Backs
  <2>4. ASSUME NEW c \in DOMAIN upgrade'.data, c < ext.cur + Window
        PROVE  upgrade'.data[c] # Zero
    <3>1. c \in 0 .. ext.total - 1 /\ ext.total \in Nat /\ ext.cur \in Nat /\ Window \in Nat
      BY <1>2, <2>1, ExtFields
    <3>2. CASE c < ext.cur
      BY <1>2, <2>1, <3>2
    <3>3. CASE c >= ext.cur
      <4>1. c - ext.cur \in 0 .. Window - 1 /\ ext.cur + (c - ext.cur) < ext.total
        BY <2>4, <3>1, <3>3
      <4>2. c - ext.cur \in Marked(b)
        BY <2>1, <4>1 DEF WindowFull
      <4>. QED
        BY <1>2, <2>1, <4>2
    <3>. QED
      BY <3>1, <3>2, <3>3
  <2>5. ext.cur + Window <= ext.total
    BY <2>1, ExtFields
  <2>. QED
    BY <1>2, <2>1, <2>2, <2>3, <2>4, <2>5 DEF ResumeInv
<1>5. CASE BlockFinishes(b, img)
  <2>1. /\ ext.open /\ upgrade' = Written(b, img) /\ disk' = upgrade'
        /\ pc' \in {"rename", "send"}
    BY <1>5 DEF BlockFinishes, Report
  <2>2. ~ext'.open
    BY <1>5 DEF BlockFinishes, IInv, TypeOK, UpdateFileExtend
  <2>3. Backs(upgrade)' /\ Backs(disk)'
    BY <1>2, <2>1 DEF Backs
  <2>. QED
    BY <2>1, <2>2, <2>3 DEF ResumeInv
<1>6. CASE BlockLost(b, img)
  <2>1. /\ disk' = upgrade /\ upgrade' = upgrade /\ pc' \in {"rename", "send"}
    BY <1>6 DEF BlockLost, Closed, Report, ResumeInv
  <2>2. ~ext'.open
    BY <1>6 DEF BlockLost, IInv, TypeOK, UpdateFileExtend
  <2>3. Backs(upgrade)' /\ Backs(disk)'
    BY <1>1, <2>1 DEF ResumeInv, Backs
  <2>. QED
    BY <2>1, <2>2, <2>3 DEF ResumeInv
<1>. QED
  BY <1>3, <1>4, <1>5, <1>6

\* What survives of two files that keep the promise keeps it.
LEMMA SurvivorBacks ==
  ASSUME IInv, Backs(upgrade), Backs(disk), NEW f \in Survives
  PROVE  Backs(f)
<1>1. CASE upgrade = NoFile
  BY <1>1 DEF Survives, Backs
<1>2. CASE upgrade # NoFile
  <2>1. disk # NoFile /\ DOMAIN disk.data = DOMAIN upgrade.data
    BY <1>2 DEF IInv, FileInv
  <2>2. PICK w \in {upgrade.whole, disk.whole}, S \in SUBSET DOMAIN upgrade.data :
          f = Survivor(w, S)
    BY <1>2 DEF Survives
  <2>3. f.data = [b \in DOMAIN upgrade.data |->
                    IF b \in S THEN upgrade.data[b] ELSE disk.data[b]]
    BY <2>2 DEF Survivor
  <2>. SUFFICES ASSUME saved \notin {NoState, Torn}, DOMAIN f.data = 0 .. Size(saved.img) - 1
                PROVE  /\ saved.cur <= Size(saved.img)
                       /\ \A b \in 0 .. saved.cur - 1 : f.data[b] # Zero
    BY DEF Backs
  <2>4. DOMAIN upgrade.data = 0 .. Size(saved.img) - 1
    BY <2>3
  <2>5. /\ saved.cur <= Size(saved.img)
        /\ \A b \in 0 .. saved.cur - 1 : upgrade.data[b] # Zero /\ disk.data[b] # Zero
    BY <1>2, <2>1, <2>4 DEF Backs
  <2>6. saved.cur \in Nat /\ Size(saved.img) \in Nat
    BY SizeType DEF IInv, TypeOK
  <2>7. \A b \in 0 .. saved.cur - 1 : b \in DOMAIN upgrade.data
    BY <2>4, <2>5, <2>6
  <2>. QED
    BY <2>3, <2>5, <2>7
<1>. QED
  BY <1>1, <1>2

\* Interruptions.
LEMMA BreakResume ==
  ASSUME IInv, ResumeInv, BearerLost \/ FileSocketLost \/ Rested \/ Reboot \/ Crash
  PROVE  ResumeInv'
<1>1. ~NoExtend.open
  BY DEF NoExtend
<1>2. CASE BearerLost
  BY <1>2 DEF BearerLost, Report, file, ResumeInv, Backs
<1>3. CASE FileSocketLost
  BY <1>3 DEF FileSocketLost, Report, file, ResumeInv, Backs
<1>4. ASSUME ~ext'.open, pc' = "idle", disk' = upgrade, upgrade' = upgrade, saved' = saved
      PROVE  ResumeInv'
  BY <1>4 DEF ResumeInv, Backs
<1>5. CASE Rested
  BY <1>1, <1>4, <1>5 DEF Rested, Closed, ResumeInv
<1>6. CASE Reboot
  BY <1>1, <1>4, <1>6 DEF Reboot, Boot
<1>7. CASE Crash
  <2>1. /\ ~ext'.open /\ pc' = "idle" /\ upgrade' \in Survives /\ disk' = upgrade'
        /\ saved' \in {saved} \cup IF pc = "state" THEN {Torn, State} ELSE {}
    BY <1>1, <1>7 DEF Crash, Boot
  <2>2. Backs(upgrade)'
    <3>1. CASE saved' = saved
      <4>1. Backs(upgrade')
        BY <2>1, SurvivorBacks DEF ResumeInv
      <4>. QED
        BY <3>1, <4>1 DEF Backs
    <3>2. CASE saved' = Torn
      BY <3>2 DEF Backs
    <3>3. CASE saved' = State /\ pc = "state"
      <4>1. upgrade = disk /\ upgrade # NoFile
        BY <3>3 DEF ResumeInv, IInv, FileInv
      <4>2. DOMAIN upgrade'.data = DOMAIN upgrade.data
             /\ \A c \in DOMAIN upgrade.data : upgrade'.data[c] = upgrade.data[c]
        BY <2>1, <4>1 DEF Survives, Survivor
      <4>3. ASSUME upgrade' # NoFile, DOMAIN upgrade'.data = 0 .. Size(State.img) - 1
            PROVE  /\ State.cur <= Size(State.img)
                   /\ \A b \in 0 .. State.cur - 1 : upgrade'.data[b] # Zero
        BY <3>3, <4>1, <4>2, <4>3, StateBacks
      <4>. QED
        BY <3>3, <4>3 DEF Backs
    <3>. QED
      BY <2>1, <3>1, <3>2, <3>3
  <2>3. Backs(disk)'
    BY <2>1, <2>2 DEF Backs
  <2>. QED
    BY <2>1, <2>2, <2>3 DEF ResumeInv
<1>. QED
  BY <1>2, <1>3, <1>5, <1>6, <1>7

\* At first nothing was stored.
LEMMA InitResume == Init => ResumeInv
  BY DEF Init, ResumeInv, Backs, NoExtend

\* Every step keeps what the state file promises.
LEMMA StepResume ==
  ASSUME OneLength, IInv, ResumeInv, [Next]_vars
  PROVE  ResumeInv'
<1>1. CASE UNCHANGED vars
  BY <1>1 DEF ResumeInv, Backs, SameImage, vars, images, file
<1>2. CASE Regular
  BY <1>2, HandlerResume, TalkResume, BlockResume, BreakResume
     DEF Regular, BlockStored, Unanswered
<1>3. CASE Failure
  BY <1>3, HandlerResume, TalkResume, BlockResume, BreakResume DEF Failure
<1>. QED
  BY <1>1, <1>2, <1>3 DEF Next

\* If no two images have one length, the state file keeps its promise at every moment.
THEOREM ResumeInvariance ==
  ASSUME OneLength
  PROVE  Steps => []ResumeInv
<1>1. IInv /\ ResumeInv /\ [Next]_vars => ResumeInv'
  BY StepResume
<1>. QED
  BY <1>1, InitResume, FileInvariance, PTL DEF Steps

\* Under that condition a download that is continued has on flash every block before the
\* point where it continues, whatever failed, closed or came late before.
THEOREM ResumesWhatIsStored ==
  ASSUME OneLength
  PROVE  Steps => []ResumeStored
<1>1. ResumeInv => ResumeStored
  BY DEF ResumeInv, Backs, ResumeStored
<1>. QED
  BY <1>1, ResumeInvariance, PTL
=============================================================================
