------------------------------ MODULE UpdateFile ------------------------------
(***************************************************************************)
(* The firmware download (update_file.c) and the part of update_service.c  *)
(* that starts it, ends it and exchanges the images.                       *)
(*                                                                         *)
(* A handler runs to completion, but power may fail between two operations *)
(* on files, so a handler that makes several is several steps: pc names    *)
(* the next one, and "idle" means that no handler runs. The connection of  *)
(* the update service is GprsLink's; here it asks, gets data or rests. The *)
(* blocks may come on a socket of their own (use_new_socket), whose entry  *)
(* in the socket table outlives the download.                              *)
(*                                                                         *)
(* An image is a version and a number of blocks, and a block of the file   *)
(* is the image it came from: the sum of the bytes is taken to tell an     *)
(* image from any mixture, and the sum of the state file to reveal a torn  *)
(* write.                                                                  *)
(***************************************************************************)
EXTENDS Integers

CONSTANTS
  Versions, Sizes, \* what the server may offer: a version, a number of blocks
  Window,          \* UPDATE_MAX_PACK_ONE_SEND
  Late,            \* do messages of an earlier download still arrive
  Steady,          \* does nothing close between an update and its reboot
  Factory,         \* the image on the device at first
  Broken,          \* any other content of an image file
  NoImage, Zero, NoFile, NoState, Torn

Images == Versions \X Sizes
Size(img) == img[2]

ASSUME UpdateAssumption ==
  /\ Sizes \subseteq Nat \ {0}
  /\ Window \in Nat \ {0}
  /\ Late \in BOOLEAN /\ Steady \in BOOLEAN
  /\ Factory \notin Images /\ NoImage \notin Images \cup {Factory, Broken}
  /\ Zero \notin Images

VARIABLES
  target, minor,  \* GmAppMain.ex and GmAppMinor.ex
  upgrade,        \* GmUpGrade as the program reads it
  disk,           \* GmUpGrade as it is sure to survive
  saved,          \* GmUpState
  running,        \* the image that was booted
  phase,          \* of the update service: idle, asking, getting, rest
  ext,            \* s_file_extend
  fsock,          \* s_file_socket: none, init, connecting, work, error
  asked,          \* images of which blocks were requested since boot
  rebooting,      \* hard_ware_reboot was called
  pc              \* the next file operation of the running handler

images == <<target, minor, running>>
file == <<upgrade, disk>>
vars == <<images, file, saved, phase, ext, fsock, asked, rebooting, pc>>

File == UNION {[whole : BOOLEAN, data : [0 .. n - 1 -> Images \cup {Zero}]] :
                 n \in Sizes}

UpdateFileExtend ==
  [img : Images \cup {NoImage}, new : BOOLEAN, total : Nat, cur : Nat,
   bits : SUBSET (0 .. Window - 1), open : BOOLEAN,
   result : {"FINISH", "UPDATED", "FAILED"}]

ASSUME FileAssumption == NoFile \notin File

TypeOK ==
  /\ target \in Images \cup {Factory, Broken, NoImage}
  /\ minor \in Images \cup {Factory, Broken, NoImage}
  /\ running \in Images \cup {Factory, Broken, NoImage}
  /\ upgrade \in File \cup {NoFile} /\ disk \in File \cup {NoFile}
  /\ saved \in [img : Images, cur : Nat] \cup {NoState, Torn}
  /\ phase \in {"idle", "asking", "getting", "rest"}
  /\ ext \in UpdateFileExtend
  /\ fsock \in {"none", "init", "connecting", "work", "error"}
  /\ asked \subseteq Images
  /\ rebooting \in BOOLEAN
  /\ pc \in {"idle", "open", "delete", "create", "commit", "state", "rename",
             "removeMinor", "removeTarget", "send"}

\* init_file_extend.
NoExtend == [img |-> NoImage, new |-> FALSE, total |-> 0, cur |-> 0,
             bits |-> {}, open |-> FALSE, result |-> "FINISH"]

\* gprs_create and update_service_create, when either image has been booted.
Init ==
  /\ target \in {Factory, NoImage}
  /\ minor = IF target = NoImage THEN Factory ELSE NoImage
  /\ running = Factory
  /\ upgrade = NoFile /\ disk = NoFile /\ saved = NoState
  /\ phase = "idle" /\ ext = NoExtend /\ fsock = "none" /\ asked = {}
  /\ rebooting = FALSE /\ pc = "idle"

\* The image that boots: of two, the main one.
BootImage == IF target # NoImage THEN target ELSE minor

-----------------------------------------------------------------------------
(* Ending a download: update_filemod_destroy, update_service_result_to_    *)
(* server, update_msg_send_result_to_server.                               *)

\* The handler goes on to exchange the images, or at once to the message.
Report(result) ==
  /\ fsock' = IF ext'.new THEN "error" ELSE fsock
  /\ pc' = IF result = "UPDATED" THEN "rename" ELSE "send"

\* update_filemod_get_checksum of the file is that of the image.
Holds(f, img) == f.whole /\ f.data = [b \in 0 .. Size(img) - 1 |-> img]

\* What the file is when it is booted.
Content == IF \E img \in Images : Holds(upgrade, img)
           THEN CHOOSE img \in Images : Holds(upgrade, img) ELSE Broken

\* GM_FS_Rename fails without its source or with its destination there; nobody
\* looks at what it returns.
Rename ==
  /\ pc = "rename"
  /\ LET moved == upgrade # NoFile /\ (target = NoImage \/ minor = NoImage)
     IN /\ upgrade' = IF moved THEN NoFile ELSE upgrade
        /\ disk' = IF moved THEN NoFile ELSE disk
        /\ target' = IF moved /\ target = NoImage THEN Content ELSE target
        /\ minor' = IF moved /\ target # NoImage THEN Content ELSE minor
  /\ pc' = IF target = NoImage THEN "removeMinor" ELSE "removeTarget"
  /\ UNCHANGED <<running, saved, phase, ext, fsock, asked, rebooting>>

Remove ==
  /\ pc \in {"removeMinor", "removeTarget"}
  /\ minor' = IF pc = "removeMinor" THEN NoImage ELSE minor
  /\ target' = IF pc = "removeTarget" THEN NoImage ELSE target
  /\ pc' = "send"
  /\ UNCHANGED <<running, file, saved, phase, ext, fsock, asked, rebooting>>

\* Whether or not the message is sent, the service rests.
Send ==
  /\ pc = "send"
  /\ rebooting' = (rebooting \/ ext.result = "UPDATED")
  /\ phase' = "rest"
  /\ pc' = "idle"
  /\ UNCHANGED <<images, file, saved, ext, fsock, asked>>

-----------------------------------------------------------------------------
(* Starting a download: update_msg_start_data_block_request.               *)

\* Closing the file makes it durable.
Closed == disk' = IF ext.open THEN upgrade ELSE disk

\* update_filemod_state_file_load and is_update_file_extend_same.
SameImage(img) == saved \notin {NoState, Torn} /\ saved.img = img

\* Mutant: two images are kept.
MinorKept == minor

\* Mutant: the minor image is deleted even if it is the only one.
MinorAnyway == NoImage

\* Of two images the minor one is deleted.
MinorLeft == IF target # NoImage THEN NoImage ELSE minor

\* The state file is compared, room is made, and a file that is still open is
\* closed. Without an image there is nothing to do.
Start(img, new) ==
  IF img = NoImage
  THEN /\ ext' = [ext EXCEPT !.total = 0, !.cur = 0, !.bits = {}, !.result = "FAILED"]
       /\ UNCHANGED <<minor, disk, pc>>
  ELSE /\ ext' = [ext EXCEPT !.img = img, !.new = new, !.total = Size(img),
                             !.cur = IF SameImage(img) THEN saved.cur ELSE 0,
                             !.bits = {}, !.open = FALSE, !.result = "FAILED"]
       /\ minor' = MinorLeft
       /\ Closed
       /\ pc' = IF SameImage(img) THEN "open" ELSE "delete"

\* Mutant: the length of the file is not compared.
FitsAny(img) == upgrade # NoFile

\* update_filemod_file_open: the file is there and has the right length.
Fits(img) == upgrade # NoFile /\ upgrade.whole /\ DOMAIN upgrade.data = 0 .. Size(img) - 1

\* The old file is opened, or its state is deleted.
OpenFile ==
  /\ pc = "open"
  /\ \/ /\ Fits(ext.img)
        /\ ext' = [ext EXCEPT !.open = TRUE]
        /\ asked' = asked \cup {ext.img}
        /\ pc' = "idle" /\ UNCHANGED saved
     \/ /\ ~Fits(ext.img)
        /\ saved' = NoState
        /\ ext' = [ext EXCEPT !.cur = 0]
        /\ pc' = "delete" /\ UNCHANGED asked
  /\ UNCHANGED <<images, file, phase, fsock, rebooting>>

DeleteFile ==
  /\ pc = "delete"
  /\ upgrade' = NoFile /\ disk' = NoFile /\ pc' = "create"
  /\ UNCHANGED <<images, saved, phase, ext, fsock, asked, rebooting>>

\* update_filemod_file_create fills the file, but nothing commits it.
Blank(whole) == [whole |-> whole, data |-> [b \in 0 .. Size(ext.img) - 1 |-> Zero]]

CreateFile ==
  /\ pc = "create"
  /\ upgrade' = Blank(TRUE) /\ disk' = Blank(FALSE)
  /\ ext' = [ext EXCEPT !.open = TRUE]
  /\ asked' = asked \cup {ext.img}
  /\ pc' = "idle"
  /\ UNCHANGED <<images, saved, phase, fsock, rebooting>>

\* There is no room for it.
CreateFails ==
  /\ pc = "create"
  /\ upgrade' = Blank(FALSE) /\ disk' = Blank(FALSE)
  /\ UNCHANGED ext /\ Report("FAILED")
  /\ UNCHANGED <<images, saved, phase, asked, rebooting>>

-----------------------------------------------------------------------------
(* The conversation with the server.                                       *)

\* update_service_init_proc, connecting_proc and connection_ok.
Ask ==
  /\ pc = "idle" /\ phase = "idle"
  /\ phase' = "asking"
  /\ UNCHANGED <<images, file, saved, ext, fsock, asked, rebooting, pc>>

\* update_service_finish: UPDATE_NONE or UPDATE_QUE, whenever they come, an
\* image that is too long, no answer, or the connection is lost.
SessionEnds ==
  /\ pc = "idle" /\ phase \in {"asking", "getting"}
  /\ phase' = "rest"
  /\ UNCHANGED <<images, file, saved, ext, fsock, asked, rebooting, pc>>

\* UPDATE_READY. A download on the same socket starts at once.
Ready(img, new) ==
  /\ pc = "idle" /\ phase = "asking"
  /\ img # running
  /\ phase' = "getting"
  /\ IF new
     THEN /\ ext' = [ext EXCEPT !.img = img, !.new = TRUE]
          /\ fsock' = "init"
          /\ UNCHANGED <<minor, disk, pc>>
     ELSE Start(img, FALSE) /\ UNCHANGED fsock
  /\ UNCHANGED <<target, running, upgrade, saved, asked, rebooting>>

\* Another UPDATE_READY during the download overwrites what it announces, and
\* creates the file socket again, but starts nothing.
ReadyAgain(img, new) ==
  /\ pc = "idle" /\ phase = "getting"
  /\ Late \/ img = ext.img
  /\ ext' = [ext EXCEPT !.img = img, !.new = new]
  /\ fsock' = IF new THEN "init" ELSE fsock
  /\ asked' = asked \cup {img}
  /\ UNCHANGED <<images, file, saved, phase, rebooting, pc>>

\* update_filemod_init_proc, which runs only while data is awaited.
FileConnect ==
  /\ pc = "idle" /\ phase = "getting" /\ ext.new /\ fsock = "init"
  /\ fsock' = "connecting"
  /\ UNCHANGED <<images, file, saved, phase, ext, asked, rebooting, pc>>

\* update_filemod_connection_ok, a callback that may come at any time.
FileConnected ==
  /\ pc = "idle" /\ fsock = "connecting"
  /\ fsock' = "work"
  /\ Start(ext.img, ext.new)
  /\ UNCHANGED <<target, running, upgrade, saved, phase, asked, rebooting>>

-----------------------------------------------------------------------------
(* Blocks: update_msg_parse_file_data.                                     *)

\* Already dealt with: below the window, or stored, unless it is the last of
\* the window, which calls for the next one.
Known(b) ==
  \/ b < ext.cur
  \/ b - ext.cur \in ext.bits /\ b - ext.cur < Window - 1

\* update_filemod_file_write of a block of img; one past the end lengthens the
\* file.
Written(b, img) ==
  IF b \in DOMAIN upgrade.data THEN [upgrade EXCEPT !.data[b] = img]
                               ELSE [upgrade EXCEPT !.whole = FALSE]

\* Mutant: a bit may lie outside the window.
MarkedAny(b) == ext.bits \cup {b - ext.cur}

\* update_msg_parse_check_block_bits: the bits after block b.
Marked(b) == (ext.bits \cup {b - ext.cur}) \cap 0 .. Window - 1

WindowFull(bits) ==
  \A k \in 0 .. Window - 1 : ext.cur + k < ext.total => k \in bits

\* The server's message b arrives; it does not say of which image it is.
BlockComes(b, img) ==
  /\ pc = "idle" /\ phase \in {"asking", "getting"}
  /\ img \in {ext.img} \cup IF Late THEN asked ELSE {}
  /\ b < Size(img)
  /\ ~Known(b)

\* It is stored.
Block(b, img) ==
  /\ BlockComes(b, img) /\ ext.open
  /\ ~WindowFull(Marked(b))
  /\ upgrade' = Written(b, img)
  /\ ext' = [ext EXCEPT !.bits = Marked(b)]
  /\ UNCHANGED <<images, disk, saved, phase, fsock, asked, rebooting, pc>>

\* It completes a window; what was stored is to be committed.
BlockFillsWindow(b, img) ==
  /\ BlockComes(b, img) /\ ext.open
  /\ WindowFull(Marked(b)) /\ ext.cur + Window < ext.total
  /\ upgrade' = Written(b, img)
  /\ ext' = [ext EXCEPT !.cur = ext.cur + Window, !.bits = {}]
  /\ pc' = "commit"
  /\ UNCHANGED <<images, disk, saved, phase, fsock, asked, rebooting>>

\* Mutant: the checksum is not compared.
BlockTrusted(b, img) ==
  /\ BlockComes(b, img) /\ ext.open
  /\ WindowFull(Marked(b)) /\ ext.cur + Window >= ext.total
  /\ upgrade' = Written(b, img)
  /\ disk' = upgrade'
  /\ ext' = [ext EXCEPT !.cur = ext.total, !.bits = {}, !.open = FALSE,
                        !.result = "UPDATED"]
  /\ Report("UPDATED")
  /\ UNCHANGED <<images, saved, phase, asked, rebooting>>

\* It is the last one: update_filemod_file_finish compares the checksum.
BlockFinishes(b, img) ==
  /\ BlockComes(b, img) /\ ext.open
  /\ WindowFull(Marked(b)) /\ ext.cur + Window >= ext.total
  /\ upgrade' = Written(b, img)
  /\ disk' = upgrade'
  /\ LET result == IF Holds(Written(b, img), ext.img) THEN "UPDATED" ELSE "FINISH"
     IN /\ ext' = [ext EXCEPT !.cur = ext.total, !.bits = {}, !.open = FALSE,
                              !.result = result]
        /\ Report(result)
  /\ UNCHANGED <<images, saved, phase, asked, rebooting>>

\* It cannot be written, because the file system fails or no file is open.
BlockLost(b, img) ==
  /\ BlockComes(b, img)
  /\ ext' = [ext EXCEPT !.open = FALSE, !.result = "FAILED"]
  /\ Closed
  /\ Report("FAILED")
  /\ UNCHANGED <<images, upgrade, saved, phase, asked, rebooting>>

\* Mutant: the state file is written without a commit before it.
CommitSkipped ==
  /\ pc = "commit"
  /\ pc' = "state"
  /\ UNCHANGED <<images, file, saved, phase, ext, fsock, asked, rebooting>>

\* update_filemod_state_file_save: GM_FS_Commit, then the state file.
Commit ==
  /\ pc = "commit"
  /\ disk' = upgrade
  /\ pc' = "state"
  /\ UNCHANGED <<images, upgrade, saved, phase, ext, fsock, asked, rebooting>>

State == [img |-> ext.img, cur |-> ext.cur]

SaveState ==
  /\ pc = "state"
  /\ saved' = State
  /\ pc' = "idle"
  /\ UNCHANGED <<images, file, phase, ext, fsock, asked, rebooting>>

\* It is not opened, or only partly written; the download goes on.
SaveFails ==
  /\ pc = "state"
  /\ saved' \in {saved, Torn}
  /\ pc' = "idle"
  /\ UNCHANGED <<images, file, phase, ext, fsock, asked, rebooting>>

\* No answer to many requests, a request that is refused, or no connection.
GiveUp ==
  /\ pc = "idle" /\ phase = "getting"
  /\ ext' = [ext EXCEPT !.result = "FAILED"]
  /\ Report("FAILED")
  /\ UNCHANGED <<images, file, saved, phase, asked, rebooting>>

-----------------------------------------------------------------------------
(* Interruptions.                                                          *)

\* gm_socket_global_destroy: update_service_destroy, and update_filemod_destroy
\* for a file socket that was ever created, with the result as it stands.
BearerLost ==
  /\ pc = "idle" /\ ~(Steady /\ rebooting)
  /\ phase' = "rest"
  /\ UNCHANGED ext
  /\ IF fsock = "none" THEN UNCHANGED <<fsock, pc>> ELSE Report(ext.result)
  /\ UNCHANGED <<images, file, saved, asked, rebooting>>

\* update_filemod_close_for_reconnect.
FileSocketLost ==
  /\ pc = "idle" /\ fsock = "work" /\ ~(Steady /\ rebooting)
  /\ UNCHANGED ext
  /\ Report(ext.result)
  /\ UNCHANGED <<images, file, saved, phase, asked, rebooting>>

\* update_service_data_finish_proc, after three minutes or twelve hours.
Rested ==
  /\ pc = "idle" /\ phase = "rest" /\ ~rebooting
  /\ phase' = "idle"
  /\ ext' = NoExtend
  /\ Closed
  /\ UNCHANGED <<images, upgrade, saved, fsock, asked, rebooting, pc>>

\* The loader starts the program anew.
Boot ==
  /\ running' = BootImage
  /\ phase' = "idle" /\ ext' = NoExtend /\ fsock' = "none" /\ asked' = {}
  /\ rebooting' = FALSE /\ pc' = "idle"
  /\ UNCHANGED <<target, minor>>

\* hard_ware_reboot_atonce.
Reboot ==
  /\ pc = "idle" /\ rebooting
  /\ Boot
  /\ disk' = upgrade
  /\ UNCHANGED <<upgrade, saved>>

\* Of a file that was not committed, any blocks S may survive.
Survivor(w, S) ==
  [whole |-> w, data |-> [b \in DOMAIN upgrade.data |->
                            IF b \in S THEN upgrade.data[b] ELSE disk.data[b]]]

Survives ==
  IF upgrade = NoFile THEN {NoFile}
  ELSE {Survivor(w, S) : w \in {upgrade.whole, disk.whole},
                         S \in SUBSET DOMAIN upgrade.data}

\* Power fails; a state file that is being written may be torn.
Crash ==
  /\ Boot
  /\ upgrade' \in Survives
  /\ disk' = upgrade'
  /\ saved' \in {saved} \cup IF pc = "state" THEN {Torn, State} ELSE {}

-----------------------------------------------------------------------------
Answers == \E img \in Images, new \in BOOLEAN : Ready(img, new)

BlockStored ==
  \E img \in Images : \E b \in 0 .. Size(img) - 1 :
    \/ Block(b, img)
    \/ BlockFillsWindow(b, img)
    \/ BlockFinishes(b, img)

\* A step of a handler that has begun.
Handler ==
  \/ OpenFile \/ DeleteFile \/ CreateFile
  \/ Commit \/ SaveState
  \/ Rename \/ Remove \/ Send

\* After a second UPDATE_READY nothing may be under way; time runs out.
Unanswered ==
  /\ ~ext.open
  /\ fsock # "connecting" /\ ~(fsock = "init" /\ ext.new)
  /\ GiveUp

\* What happens when nothing goes wrong.
Regular ==
  \/ Handler
  \/ Ask \/ Answers \/ FileConnect \/ FileConnected
  \/ BlockStored \/ Unanswered
  \/ Rested \/ Reboot

Failure ==
  \/ CreateFails \/ SaveFails
  \/ \E img \in Images : \E b \in 0 .. Size(img) - 1 : BlockLost(b, img)
  \/ SessionEnds \/ GiveUp \/ BearerLost \/ FileSocketLost
  \/ \E img \in Images, new \in BOOLEAN : ReadyAgain(img, new)
  \/ Crash

Next == Regular \/ Failure

\* A block that was asked for arrives.
Requested ==
  \E b \in 0 .. ext.total - 1 :
    /\ b - ext.cur < Window /\ b - ext.cur \notin ext.bits
    /\ \/ Block(b, ext.img)
       \/ BlockFillsWindow(b, ext.img)
       \/ BlockFinishes(b, ext.img)

\* The timers run, and while nothing goes wrong the server answers.
Fairness ==
  /\ WF_vars(Handler) /\ WF_vars(Ask) /\ WF_vars(Answers)
  /\ WF_vars(FileConnect) /\ WF_vars(FileConnected)
  /\ WF_vars(Requested) /\ WF_vars(Unanswered)
  /\ WF_vars(Rested) /\ WF_vars(Reboot)

Steps == Init /\ [][Next]_vars
Spec == Steps /\ Fairness

-----------------------------------------------------------------------------
(* Properties.                                                             *)

\* At any moment power may fail and the device starts a whole image, the first
\* one or one the server offered (update_service_result_to_server; main.c:221
\* takes it for certain).
AlwaysBootable == BootImage \in Images \cup {Factory}

\* Flash has room for two images and never holds a third, be it a download
\* (update_msg_start_data_block_request, update_service_result_to_server: "only
\* save at most 2 copies").
AtMostTwoCopies == target = NoImage \/ minor = NoImage \/ upgrade = NoFile

\* A download that the state file continues has on flash every block before the
\* point where it continues, whatever failed before (update_filemod_state_
\* file_save, update_msg_start_data_block_request).
ResumeStored ==
  /\ saved \notin {NoState, Torn}
  /\ disk # NoFile
  /\ disk.whole /\ DOMAIN disk.data = 0 .. Size(saved.img) - 1
  => \A b \in 0 .. saved.cur - 1 : disk.data[b] # Zero

\* When nothing goes wrong any more and the server has an image to offer, the
\* device takes it, again and again, whatever earlier failures and earlier
\* updates left behind on flash (update_service_timer_proc, update_filemod_
\* timer_proc, update_msg_start_data_block_request).
Calm == <>[][Regular]_vars
EventuallyUpdated == Calm => []<>rebooting
=============================================================================
