--------------------------------- MODULE Wifi ----------------------------------
(***************************************************************************)
(* The search for wireless networks, src/src/wifi.c, for its two callers:  *)
(* gps.c, which tells the platform what was found and ends the search from *)
(* within the callback, and auto_test.c, which ends it when the test does. *)
(* Requests to the chip are answered later, perhaps to a search they do    *)
(* not belong to.                                                          *)
(***************************************************************************)
EXTENDS Naturals, FiniteSets

CONSTANTS
  RetryMax,   \* WIFI_RETRY_MAX_CNT
  MaxCreate,  \* searches a behaviour explores
  MaxNothing  \* scans that find nothing

VARIABLES
  status, inited, fail_count, caller, found, \* s_wifi; caller is call_back_func
  asked,   \* requests the chip has not answered
  creates, nothing

wifi == <<status, inited, fail_count, caller, found>>
vars == <<wifi, asked, creates, nothing>>

Init ==
  /\ status = "uninit" /\ inited = FALSE /\ fail_count = 0 /\ caller = "none"
  /\ found = FALSE /\ asked = {} /\ creates = 0 /\ nothing = 0

\* wifi_transfer_status: the changes it allows; another leaves the status.
Allowed ==
  {<<"uninit", "init">>, <<"init", "uninit">>, <<"init", "scan">>, <<"init", "fail">>,
   <<"scan", "uninit">>, <<"scan", "deinit">>, <<"scan", "fail">>, <<"deinit", "uninit">>,
   <<"fail", "uninit">>, <<"fail", "deinit">>}
Moved(from, to) == IF <<from, to>> \in Allowed THEN to ELSE from

\* wlan_init, wlan_scan and wlan_deinit may refuse a request at once, and then no
\* callback comes: all but wifi_init_proc leave the result unread.
Requests(what, open) == asked' \in {open, open \cup {what}}

\* wifi_create: the chip is asked at once, whatever it was doing.
Create ==
  /\ creates < MaxCreate /\ creates' = creates + 1
  /\ \E who \in {"gps", "test"} : caller' = who
  /\ status' = Moved("uninit", "init") /\ inited' = TRUE /\ fail_count' = 0
  /\ found' = FALSE /\ Requests("init", asked)
  /\ UNCHANGED nothing

\* Mutant: the chip is noted as put down in the middle of a scan.
StaysInited(st) == FALSE

\* wifi_destroy, in status st: only a scan leaves the chip to be put down.
EndsInited(st) == st = "scan"
Destroyed(st) ==
  /\ fail_count' = 0 /\ caller' = "none"
  /\ IF st = "scan" THEN status' = Moved(st, "deinit") ELSE status' = Moved(st, "uninit")
  /\ inited' = (inited /\ EndsInited(st))
\* wifi_scan_result: gps_service_wifi_scan_callback reports and destroys, the test
\* keeps the search, and no callback is no more than a line in the log.
Result(st) ==
  IF caller = "gps" THEN Destroyed(st)
  ELSE status' = st /\ fail_count' = 0 /\ UNCHANGED <<caller, inited>>

\* auto_test_wifi_destroy.
TestEnds ==
  /\ caller = "test" /\ Destroyed(status) /\ UNCHANGED <<found, asked, creates, nothing>>

--------------------------------------------------------------------------------

\* The chip answers a request, left are the others: the callbacks.  They look at
\* inited and not at the status, and never at the search the request belongs to.
Failed == fail_count' = fail_count + 1 /\ UNCHANGED <<status, inited, caller, found, nothing>>
Ignored == UNCHANGED <<wifi, nothing>>

\* wifi_init_call_back.
InitBack(ok, left) ==
  IF inited /\ ok
  THEN /\ fail_count' = 0 /\ Requests("scan", left) /\ status' = Moved(status, "scan")
       /\ UNCHANGED <<inited, caller, found, nothing>>
  ELSE asked' = left /\ IF inited THEN Failed ELSE Ignored
\* wifi_scan_call_back: a scan that found nothing tells nobody.
ScanBack(ok, left) ==
  /\ asked' = left
  /\ IF inited /\ ok
     THEN \E some \in BOOLEAN :
            /\ found' = some
            /\ IF some THEN Result(status) /\ UNCHANGED nothing
               ELSE /\ nothing < MaxNothing /\ nothing' = nothing + 1
                    /\ fail_count' = 0 /\ UNCHANGED <<status, inited, caller>>
     ELSE IF inited THEN Failed ELSE Ignored
\* wifi_deinit_call_back.
DeinitBack(ok, left) ==
  /\ asked' = left
  /\ IF inited /\ ok
     THEN /\ fail_count' = 0 /\ inited' = FALSE /\ found' = FALSE
          /\ status' = Moved(status, "uninit") /\ UNCHANGED <<caller, nothing>>
     ELSE IF inited THEN Failed ELSE Ignored

Few == fail_count < RetryMax
Answers(request, Back(_, _)) ==
  /\ request \in asked /\ UNCHANGED creates
  /\ \E ok \in BOOLEAN : Back(ok, asked \ {request})
AnswerInit == Answers("init", InitBack)
AnswerScan == Answers("scan", ScanBack)
AnswerDeinit == Answers("deinit", DeinitBack)

\* wifi_timer_proc every WIFI_RETRY_INTERVALL: wifi_init_proc, which counts a refusal.
InitProc ==
  /\ status = "init" /\ inited
  /\ IF Few
     THEN /\ \/ asked' = asked \cup {"init"} /\ UNCHANGED fail_count
             \/ fail_count' = fail_count + 1 /\ UNCHANGED asked
          /\ UNCHANGED <<status, inited, caller>>
     ELSE Result(Moved("init", "fail")) /\ UNCHANGED asked
  /\ UNCHANGED <<found, creates, nothing>>
\* wifi_scan_proc.
ScanProc ==
  /\ status = "scan" /\ inited
  /\ IF Few THEN Requests("scan", asked) /\ UNCHANGED <<status, fail_count, inited, caller>>
     ELSE Result(Moved("scan", "deinit")) /\ UNCHANGED asked
  /\ UNCHANGED <<found, creates, nothing>>
\* wifi_deinit_proc.
DeinitProc ==
  /\ status = "deinit" /\ inited
  /\ IF Few THEN Requests("deinit", asked) /\ UNCHANGED <<status, fail_count, inited>>
     ELSE /\ fail_count' = 0 /\ inited' = FALSE /\ status' = Moved("deinit", "uninit")
          /\ UNCHANGED asked
  /\ UNCHANGED <<caller, found, creates, nothing>>
\* CURRENT_WIFI_FAIL: wifi_destroy.
FailProc ==
  /\ status = "fail" /\ Destroyed("fail") /\ UNCHANGED <<found, asked, creates, nothing>>

Next ==
  \/ Create \/ TestEnds \/ AnswerInit \/ AnswerScan \/ AnswerDeinit
  \/ InitProc \/ ScanProc \/ DeinitProc \/ FailProc

Spec == Init /\ [][Next]_vars
\* The timer runs, the chip answers and a test ends.  A scan or deinit refused at once
\* changes nothing and is no step here, so the chip accepts one in the end: if it refused
\* for ever, the timer would ask for ever (wifi.c:370, 431).  That scans find something
\* in the end, or fail, is MaxNothing's: without it a search over nothing has no end.
Fairness ==
  /\ WF_vars(InitProc) /\ WF_vars(ScanProc) /\ WF_vars(DeinitProc) /\ WF_vars(FailProc)
  /\ WF_vars(TestEnds)
  /\ WF_vars(AnswerInit) /\ WF_vars(AnswerScan) /\ WF_vars(AnswerDeinit)
FairSpec == Spec /\ Fairness

--------------------------------------------------------------------------------

TypeOK ==
  /\ status \in {"uninit", "init", "scan", "deinit", "fail"} /\ inited \in BOOLEAN
  /\ fail_count \in 0 .. RetryMax + 3 /\ caller \in {"gps", "test", "none"}
  /\ asked \subseteq {"init", "scan", "deinit"}

\* The flag that makes callbacks and timers act agrees with the status, whichever
\* search a callback came from: else a status could not be left (wifi.c:468).
InitedAgrees == inited <=> status # "uninit"

\* Every search ends, with late callbacks of an earlier one and with a chip that fails.
SearchEnds == (status # "uninit") ~> (status = "uninit")
================================================================================
