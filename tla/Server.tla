-------------------------------- MODULE Server --------------------------------
(***************************************************************************)
(* What talks to a server, in one specification: the acknowledged records  *)
(* of the main connection (SendCache), how it logs in and finds messages   *)
(* (Receive), registration and parameters on a JT808 platform (Jt808), the *)
(* services of connections of their own (ConfigFetch, LogUpload), the text *)
(* messages (Sms) and the search for networks whose result is reported     *)
(* (Wifi).  They share no state: `part` is the one that moves, and the     *)
(* others stay as they began.                                              *)
(***************************************************************************)
EXTENDS SendCache

CONSTANTS
  MaxRepeat, AnswerMax, MaxVersion, MaxFault, MaxBoot,   \* of ConfigFetch
  Room, MaxLog, MaxDown,                                 \* of LogUpload
  Protocols, FifoMax, Patience, MaxBad, MaxSpeak,        \* of Receive
  SmsMax, MaxTimes, MaxMsg, MaxFail,                     \* of Sms
  RetryMax, MaxCreate, MaxNothing,                       \* of Wifi
  MaxCode, MaxSet, MaxBreak                              \* of Jt808

ASSUME ServerAssumption ==
  /\ MaxRepeat \in Nat \ {0} /\ AnswerMax \in Nat /\ MaxVersion \in Nat \ {0}
  /\ MaxFault \in Nat /\ MaxBoot \in Nat
  /\ Room \in Nat /\ MaxLog \in Nat /\ MaxDown \in Nat
  /\ FifoMax \in Nat /\ Patience \in Nat /\ MaxBad \in Nat /\ MaxSpeak \in Nat
  /\ SmsMax \in Nat /\ MaxTimes \in Nat \ {0} /\ MaxMsg \in Nat /\ MaxFail \in Nat
  /\ RetryMax \in Nat /\ MaxCreate \in Nat /\ MaxNothing \in Nat
  /\ MaxCode \in Nat /\ MaxSet \in Nat /\ MaxBreak \in Nat

VARIABLES
  part,
  config, requests, answers, theirs, mine, since, older, faults, restarts,
  logStatus, logFails, up, logs, memory, next, uploaded, refused, downs,
  proto, link, registered, tokens, wire, partial, lost, handed, bad, spoken,
  message_queue, send_error_times, flights, timer, made, out, dropped, popped, fails,
  status, inited, fail_count, caller, found, asked, creates, nothing,
  ram, disk, session, said, coming, codes, confirmed, reading, given, sets, breaks, boots

FetchingVars == <<config, requests, answers, theirs, mine, since, older, faults, restarts>>
LoggingVars == <<logStatus, logFails, up, logs, memory, next, uploaded, refused, downs>>
IncomingVars ==
  <<proto, link, registered, tokens, wire, partial, lost, handed, bad, spoken>>
TextingVars ==
  <<message_queue, send_error_times, flights, timer, made, out, dropped, popped, fails>>
SearchingVars == <<status, inited, fail_count, caller, found, asked, creates, nothing>>
RegisteringVars ==
  <<ram, disk, session, said, coming, codes, confirmed, reading, given, sets, breaks, boots>>
ServerVars ==
  <<part, vars, FetchingVars, LoggingVars, IncomingVars, TextingVars,
    SearchingVars, RegisteringVars>>

Fetching == INSTANCE ConfigFetch
  WITH s <- config, asked <- requests, net <- answers, server <- theirs,
       stale <- older, boots <- restarts, FifoMax <- AnswerMax
Logging == INSTANCE LogUpload
  WITH status <- logStatus, fails <- logFails, queue <- logs, sent <- uploaded
Incoming == INSTANCE Receive WITH fifo <- tokens, part <- partial
Texting == INSTANCE Sms WITH sent <- out, QueueLen <- SmsMax
Searching == INSTANCE Wifi
Registering == INSTANCE Jt808

Parts == {"cache", "fetching", "logging", "incoming", "texting", "searching",
          "registering"}

ServerInit ==
  /\ part \in Parts
  /\ Init /\ Fetching!Init /\ Logging!Init /\ Incoming!Init
  /\ Texting!Init /\ Searching!Init /\ Registering!Init
  /\ part # "incoming" => proto = "goome"
  /\ part # "registering" => ~ram.locked

\* Everything but the part that moves.
OthersStay ==
  /\ UNCHANGED part
  /\ IF part = "cache" THEN TRUE ELSE UNCHANGED vars
  /\ IF part = "fetching" THEN TRUE ELSE UNCHANGED FetchingVars
  /\ IF part = "logging" THEN TRUE ELSE UNCHANGED LoggingVars
  /\ IF part = "incoming" THEN TRUE ELSE UNCHANGED IncomingVars
  /\ IF part = "texting" THEN TRUE ELSE UNCHANGED TextingVars
  /\ IF part = "searching" THEN TRUE ELSE UNCHANGED SearchingVars
  /\ IF part = "registering" THEN TRUE ELSE UNCHANGED RegisteringVars

ServerNext ==
  \/ part = "cache" /\ Next /\ OthersStay
  \/ part = "fetching" /\ Fetching!Next /\ OthersStay
  \/ part = "logging" /\ Logging!Next /\ OthersStay
  \/ part = "incoming" /\ Incoming!Next /\ OthersStay
  \/ part = "texting" /\ Texting!Next /\ OthersStay
  \/ part = "searching" /\ Searching!Next /\ OthersStay
  \/ part = "registering" /\ Registering!Next /\ OthersStay

ServerSpec == ServerInit /\ [][ServerNext]_ServerVars

\* The fairness of each module, for the reasons given there.  A liveness property of a
\* part has that of its module for premise, and no other.
CacheFair == WF_vars(part = "cache" /\ NetAck) /\ WF_vars(part = "cache" /\ Receive)
FetchingFair ==
  /\ WF_FetchingVars(part = "fetching" /\ Fetching!ConnectingProc)
  /\ WF_FetchingVars(part = "fetching" /\ Fetching!WorkProc)
  /\ WF_FetchingVars(part = "fetching" /\ Fetching!FinishProc)
  /\ WF_FetchingVars(part = "fetching" /\ Fetching!InitProc)
  /\ SF_FetchingVars(/\ part = "fetching" /\ config.status = "init"
                     /\ Fetching!InitProc /\ config'.open)
  /\ SF_FetchingVars(part = "fetching" /\ Fetching!Serve)
  /\ SF_FetchingVars(part = "fetching" /\ Fetching!Deliver)
LoggingFair ==
  /\ WF_LoggingVars(part = "logging" /\ Logging!Up)
  /\ WF_LoggingVars(part = "logging" /\ Logging!ConnectingProc)
  /\ WF_LoggingVars(part = "logging" /\ Logging!FinishProc)
  /\ WF_LoggingVars(part = "logging" /\ Logging!InitProc)
  /\ SF_LoggingVars(part = "logging" /\ Logging!InitProc /\ logStatus' = "work")
  /\ SF_LoggingVars(part = "logging" /\ Logging!Send(TRUE))
IncomingFair ==
  /\ WF_IncomingVars(part = "incoming" /\ Incoming!Connect)
  /\ WF_IncomingVars(part = "incoming" /\ Incoming!Reboot)
  /\ WF_IncomingVars(part = "incoming" /\ Incoming!Deliver)
  /\ WF_IncomingVars(part = "incoming" /\ Incoming!Age)
  /\ WF_IncomingVars(part = "incoming" /\ Incoming!Tick)
  /\ WF_IncomingVars(part = "incoming" /\ Incoming!LoginTimeout /\ Incoming!NothingComes)
TextingFair ==
  /\ WF_TextingVars(part = "texting" /\ Texting!Report)
  /\ WF_TextingVars(part = "texting" /\ Texting!Timer)
SearchingFair ==
  /\ WF_SearchingVars(part = "searching" /\ Searching!InitProc)
  /\ WF_SearchingVars(part = "searching" /\ Searching!ScanProc)
  /\ WF_SearchingVars(part = "searching" /\ Searching!DeinitProc)
  /\ WF_SearchingVars(part = "searching" /\ Searching!FailProc)
  /\ WF_SearchingVars(part = "searching" /\ Searching!TestEnds)
  /\ WF_SearchingVars(part = "searching" /\ Searching!AnswerInit)
  /\ WF_SearchingVars(part = "searching" /\ Searching!AnswerScan)
  /\ WF_SearchingVars(part = "searching" /\ Searching!AnswerDeinit)
RegisteringFair ==
  /\ WF_RegisteringVars(part = "registering" /\ Registering!Connect)
  /\ WF_RegisteringVars(part = "registering" /\ Registering!AnswerRegister)
  /\ WF_RegisteringVars(part = "registering" /\ Registering!AnswerLogin)
  /\ WF_RegisteringVars(part = "registering" /\ Registering!TakeRegistered)
  /\ WF_RegisteringVars(part = "registering" /\ Registering!TakeAuth)
  /\ WF_RegisteringVars(part = "registering" /\ Registering!LoginProc)

-----------------------------------------------------------------------------

\* The values the variables of all parts may have.
ServerTypeOK ==
  /\ part = "cache" => TypeOK
  /\ part = "fetching" => Fetching!TypeOK
  /\ part = "logging" => Logging!TypeOK
  /\ part = "incoming" => Incoming!TypeOK
  /\ part = "texting" => Texting!TypeOK
  /\ part = "searching" => Searching!TypeOK
  /\ part = "registering" => Registering!TypeOK

\* No service loses or mistakes what it handles: a configuration that was confirmed is
\* not older than the connection, a log is kept or gone, never both nor neither, and a
\* platform reads the parameters it set and the device acknowledged (Current of
\* ConfigFetch, EachOnce of LogUpload, ReadsBack of Jt808).
AnswersTaken ==
  /\ part = "fetching" => Fetching!Current
  /\ part = "logging" => Logging!EachOnce
  /\ part = "registering" => Registering!ReadsBack

\* Nothing waits without somebody to go on with it: a text message has the modem or
\* the timer, and the Wi-Fi chip is put down exactly when no search uses it
\* (sms.c:119, wifi.c:468).
SomebodyGoesOn ==
  /\ part = "texting" => Texting!NeverStuck
  /\ part = "searching" => Searching!InitedAgrees

\* The services get what they connect for, whatever breaks on the way: a configuration
\* arrives, logs leave the memory, records that wait for their bytes to be acknowledged
\* leave the cache, and a search for networks ends (Arrives, Drains, CacheDrains and
\* SearchEnds of the modules).
ServicesEnd ==
  /\ part = "fetching" /\ FetchingFair => Fetching!Arrives
  /\ part = "logging" /\ LoggingFair => Logging!Drains
  /\ part = "cache" /\ CacheFair => CacheDrains
  /\ part = "searching" /\ SearchingFair => Searching!SearchEnds

\* What is to be said is said in the end: the device logs in, with whatever an earlier
\* connection left in the queue of received bytes and whatever code it kept, and text
\* messages leave (LoginCompletes, LogsIn and QueueDrains of the modules).
MessagesEnd ==
  /\ part = "incoming" /\ IncomingFair => Incoming!LoginCompletes
  /\ part = "registering" /\ RegisteringFair => Registering!LogsIn
  /\ part = "texting" /\ TextingFair => Texting!QueueDrains
===============================================================================
