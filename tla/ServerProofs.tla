----------------------------- MODULE ServerProofs -----------------------------
(***************************************************************************)
(* What talks to a server keeps its promises, for every value of the       *)
(* constants: the safety properties of Server and the invariants behind    *)
(* them, part by part.                                                     *)
(***************************************************************************)
EXTENDS Server, SequenceTheorems, WellFoundedInduction, TLAPS

-------------------------------------------------------------------------------
(* The search for networks: Wifi.                                          *)

\* Failures beyond the limit come from answers that were still on their way.
Unanswered ==
  (IF "init" \in asked THEN 1 ELSE 0) + (IF "scan" \in asked THEN 1 ELSE 0)
    + (IF "deinit" \in asked THEN 1 ELSE 0)
SearchControl ==
  /\ status \in {"uninit", "init", "scan", "deinit", "fail"} /\ inited \in BOOLEAN
  /\ caller \in {"gps", "test", "none"}
  /\ asked \subseteq {"init", "scan", "deinit"}
  /\ Searching!InitedAgrees
SearchCount == fail_count \in Nat /\ fail_count + Unanswered <= RetryMax + 3

\* The assumption this part needs.
LEMMA SearchLimit == RetryMax \in Nat
  BY ServerAssumption DEF ServerAssumption

\* Every step keeps the flag in agreement with the status, late answers included.
LEMMA ControlGoesOn ==
  ASSUME SearchControl, Searching!Next
  PROVE  SearchControl'
  <1> USE DEF SearchControl, Searching!InitedAgrees,
              Searching!Moved, Searching!Allowed, Searching!Destroyed,
              Searching!EndsInited, Searching!Result, Searching!Failed,
              Searching!Ignored, Searching!wifi, Searching!Requests
  <1>1. CASE Searching!Create
    BY <1>1 DEF Searching!Create
  <1>2. CASE Searching!TestEnds
    BY <1>2 DEF Searching!TestEnds
  <1>3. CASE Searching!AnswerInit
    BY <1>3 DEF Searching!AnswerInit, Searching!Answers, Searching!InitBack
  <1>4. CASE Searching!AnswerScan
    BY <1>4 DEF Searching!AnswerScan, Searching!Answers, Searching!ScanBack
  <1>5. CASE Searching!AnswerDeinit
    BY <1>5 DEF Searching!AnswerDeinit, Searching!Answers, Searching!DeinitBack
  <1>6. CASE Searching!InitProc
    BY <1>6 DEF Searching!InitProc
  <1>7. CASE Searching!ScanProc
    BY <1>7 DEF Searching!ScanProc
  <1>8. CASE Searching!DeinitProc
    BY <1>8 DEF Searching!DeinitProc
  <1>9. CASE Searching!FailProc
    BY <1>9 DEF Searching!FailProc
  <1> QED
    BY <1>1, <1>2, <1>3, <1>4, <1>5, <1>6, <1>7, <1>8, <1>9 DEF Searching!Next

\* Every step keeps failures and open requests together below their limit.
LEMMA CountGoesOn ==
  ASSUME SearchControl, SearchCount, Searching!Next
  PROVE  SearchCount'
  <1> USE SearchLimit DEF SearchCount, SearchControl, Unanswered, Searching!Destroyed,
              Searching!Result, Searching!Failed, Searching!Ignored, Searching!wifi,
              Searching!Few, Searching!Requests
  <1>1. CASE Searching!Create
    BY <1>1 DEF Searching!Create
  <1>2. CASE Searching!TestEnds
    BY <1>2 DEF Searching!TestEnds
  <1>3. CASE Searching!AnswerInit
    BY <1>3 DEF Searching!AnswerInit, Searching!Answers, Searching!InitBack
  <1>4. CASE Searching!AnswerScan
    BY <1>4 DEF Searching!AnswerScan, Searching!Answers, Searching!ScanBack
  <1>5. CASE Searching!AnswerDeinit
    BY <1>5 DEF Searching!AnswerDeinit, Searching!Answers, Searching!DeinitBack
  <1>6. CASE Searching!InitProc
    <2>1. \/ /\ Searching!Few /\ UNCHANGED fail_count /\ asked' = asked \cup {"init"}
          \/ /\ Searching!Few /\ fail_count' = fail_count + 1 /\ UNCHANGED asked
          \/ fail_count' = 0 /\ UNCHANGED asked
      BY <1>6 DEF Searching!InitProc
    <2> QED
      BY <2>1
  <1>7. CASE Searching!ScanProc
    <2>1. \/ /\ Searching!Few /\ UNCHANGED fail_count /\ asked' = asked \cup {"scan"}
          \/ UNCHANGED << fail_count, asked >>
          \/ fail_count' = 0 /\ UNCHANGED asked
      BY <1>7 DEF Searching!ScanProc
    <2> QED
      BY <2>1
  <1>8. CASE Searching!DeinitProc
    <2>1. \/ /\ Searching!Few /\ UNCHANGED fail_count /\ asked' = asked \cup {"deinit"}
          \/ UNCHANGED << fail_count, asked >>
          \/ fail_count' = 0 /\ UNCHANGED asked
      BY <1>8 DEF Searching!DeinitProc
    <2> QED
      BY <2>1
  <1>9. CASE Searching!FailProc
    BY <1>9 DEF Searching!FailProc
  <1> QED
    BY <1>1, <1>2, <1>3, <1>4, <1>5, <1>6, <1>7, <1>8, <1>9 DEF Searching!Next

\* What the two invariants of a search say of its variables.
LEMMA SearchTypes == SearchControl /\ SearchCount => Searching!TypeOK /\ Searching!InitedAgrees
  <1> SUFFICES ASSUME SearchControl, SearchCount
               PROVE  Searching!TypeOK /\ Searching!InitedAgrees
    OBVIOUS
  <1>1. fail_count \in 0 .. RetryMax + 3
    <2>1. Unanswered \in Nat /\ fail_count \in Nat /\ fail_count + Unanswered <= RetryMax + 3
      BY DEF SearchCount, Unanswered
    <2> QED
      BY ONLY <2>1, SearchLimit
  <1> QED
    BY <1>1 DEF SearchControl, Searching!TypeOK

\* They hold when the device starts.
LEMMA SearchBegins == Searching!Init => SearchControl /\ SearchCount
  <1> SUFFICES ASSUME Searching!Init PROVE SearchControl /\ SearchCount
    OBVIOUS
  <1>1. SearchControl
    BY DEF Searching!Init, SearchControl, Searching!InitedAgrees
  <1>2. fail_count = 0 /\ asked = {}
    BY DEF Searching!Init
  <1>3. SearchCount
    BY <1>2, SearchLimit DEF SearchCount, Unanswered
  <1> QED
    BY <1>1, <1>3

-------------------------------------------------------------------------------
(* The text messages: Sms.                                                   *)

\* The assumptions this part needs.
LEMMA TextLimits == SmsMax \in Nat /\ MaxTimes \in Nat \ {0} /\ MaxMsg \in Nat
  BY ServerAssumption DEF ServerAssumption

TextQueue ==
  /\ made \in 0 .. MaxMsg
  /\ message_queue \in Seq(1 .. MaxMsg) /\ Len(message_queue) <= SmsMax
  /\ send_error_times \in 0 .. MaxTimes - 1
TextInv == TextQueue /\ Texting!IsABag(flights) /\ timer \in BOOLEAN /\ Texting!NeverStuck

\* What the modem has stays a bag, and one message in it makes it a bag that is not empty.
LEMMA MoreFlights ==
  ASSUME NEW b, Texting!IsABag(b), NEW m
  PROVE  /\ Texting!IsABag(Texting!(+)(b, Texting!SetToBag({m})))
         /\ Texting!(+)(b, Texting!SetToBag({m})) # Texting!EmptyBag
  BY DEF Texting!IsABag, Texting!SetToBag, Texting!(+), Texting!EmptyBag

\* Adding nothing to a bag changes nothing.
LEMMA SameFlights ==
  ASSUME NEW b, Texting!IsABag(b)
  PROVE  Texting!(+)(b, Texting!EmptyBag) = b
  BY DEF Texting!IsABag, Texting!SetToBag, Texting!(+), Texting!EmptyBag

\* A bag stays a bag when a message is taken out of it.
LEMMA FewerFlights ==
  ASSUME NEW b, Texting!IsABag(b), NEW m
  PROVE  Texting!IsABag(Texting!(-)(b, Texting!SetToBag({m})))
  BY DEF Texting!IsABag, Texting!SetToBag, Texting!(-)

\* The modem is given the head of the queue, if there is one.
LEMMA StartedFlights ==
  ASSUME NEW b, Texting!IsABag(b), NEW q
  PROVE  /\ Texting!IsABag(Texting!(+)(b, Texting!Started(q)))
         /\ q # << >> => Texting!(+)(b, Texting!Started(q)) # Texting!EmptyBag
  <1>1. CASE q = << >>
    BY <1>1, SameFlights DEF Texting!Started
  <1>2. CASE q # << >>
    BY <1>2, MoreFlights DEF Texting!Started
  <1> QED
    BY <1>1, <1>2

\* What the invariant says of the variables.
LEMMA TextTypes == TextInv => Texting!TypeOK
  BY DEF TextInv, TextQueue, Texting!TypeOK

\* It holds when the device starts.
LEMMA TextBegins == Texting!Init => TextInv
  <1> SUFFICES ASSUME Texting!Init PROVE TextInv
    OBVIOUS
  <1>1. Texting!IsABag(flights)
    BY DEF Texting!Init, Texting!IsABag, Texting!EmptyBag, Texting!SetToBag
  <1>2. TextQueue
    BY TextLimits DEF Texting!Init, TextQueue
  <1>3. timer \in BOOLEAN /\ Texting!NeverStuck
    BY DEF Texting!Init, Texting!NeverStuck
  <1> QED
    BY <1>1, <1>2, <1>3 DEF TextInv

\* What leaves the queue leaves a queue.
LEMMA RestOfQueue ==
  ASSUME TextQueue
  PROVE  /\ Texting!Rest(message_queue) \in Seq(1 .. MaxMsg)
         /\ Len(Texting!Rest(message_queue)) <= SmsMax
  <1>1. CASE message_queue = << >>
    BY <1>1 DEF TextQueue, Texting!Rest
  <1>2. CASE message_queue # << >>
    BY <1>2, HeadTailProperties, TextLimits DEF TextQueue, Texting!Rest
  <1> QED
    BY <1>1, <1>2

\* Every step keeps it: who takes a message from the queue leaves the next one to the
\* modem or the timer.
LEMMA TextGoesOn ==
  ASSUME TextInv, Texting!Next
  PROVE  TextInv'
  <1>0. /\ TextQueue /\ Texting!IsABag(flights) /\ timer \in BOOLEAN
        /\ message_queue # << >> => timer \/ flights # Texting!EmptyBag
    BY DEF TextInv, Texting!NeverStuck
  <1>1. CASE Texting!SmsSend
    <2>1. CASE Len(message_queue) < SmsMax
      <3>1. /\ made' = made + 1 /\ made < MaxMsg /\ send_error_times' = send_error_times
            /\ message_queue' = Append(message_queue, made')
            /\ flights' = Texting!(+)(flights, Texting!Started(message_queue'))
            /\ UNCHANGED timer
        BY <1>1, <2>1 DEF Texting!SmsSend
      <3>2. made' \in 1 .. MaxMsg
        BY <1>0, <3>1, TextLimits DEF TextQueue
      <3>3. /\ message_queue' \in Seq(1 .. MaxMsg) /\ message_queue' # << >>
            /\ Len(message_queue') = Len(message_queue) + 1
        BY <1>0, <3>1, <3>2, AppendProperties DEF TextQueue
      <3>4. TextQueue'
        BY <1>0, <2>1, <3>1, <3>2, <3>3, TextLimits DEF TextQueue
      <3>5. Texting!IsABag(flights') /\ flights' # Texting!EmptyBag
        BY <1>0, <3>1, <3>3, StartedFlights
      <3> QED
        BY <1>0, <3>1, <3>4, <3>5 DEF TextInv, Texting!NeverStuck, Texting!IsABag
    <2>2. CASE ~(Len(message_queue) < SmsMax)
      <3>1. /\ made' = made + 1 /\ made < MaxMsg
            /\ UNCHANGED << send_error_times, message_queue, flights, timer >>
        BY <1>1, <2>2 DEF Texting!SmsSend
      <3>2. TextQueue'
        BY <1>0, <3>1, TextLimits DEF TextQueue
      <3> QED
        BY <1>0, <3>1, <3>2 DEF TextInv, Texting!NeverStuck, Texting!IsABag
    <2> QED
      BY <2>1, <2>2
  <1>2. ASSUME NEW m, Texting!ReportSent(m) PROVE TextInv'
    <2>1. /\ flights' = Texting!(-)(flights, Texting!SetToBag({m}))
          /\ send_error_times' = 0 /\ message_queue' = Texting!Rest(message_queue)
          /\ UNCHANGED made
      BY <1>2 DEF Texting!ReportSent
    <2>2. TextQueue'
      BY <1>0, <2>1, RestOfQueue, TextLimits DEF TextQueue
    <2>3. Texting!IsABag(flights')
      BY <1>0, <2>1, FewerFlights
    <2>4. timer' = TRUE
      BY <1>2 DEF Texting!ReportSent, Texting!StartsTimer
    <2> QED
      BY <2>2, <2>3, <2>4 DEF TextInv, Texting!NeverStuck, Texting!IsABag
  <1>3. ASSUME NEW m, Texting!ReportFailed(m) PROVE TextInv'
    <2>1. /\ flights' = Texting!(-)(flights, Texting!SetToBag({m}))
          /\ \/ send_error_times' = 0 /\ message_queue' = Texting!Rest(message_queue)
             \/ /\ ~(send_error_times + 1 >= MaxTimes)
                /\ send_error_times' = send_error_times + 1
                /\ UNCHANGED message_queue
          /\ UNCHANGED made
      BY <1>3 DEF Texting!ReportFailed
    <2>2. TextQueue'
      BY <1>0, <2>1, RestOfQueue, TextLimits DEF TextQueue
    <2>3. Texting!IsABag(flights')
      BY <1>0, <2>1, FewerFlights
    <2>4. timer' = TRUE
      BY <1>3 DEF Texting!ReportFailed, Texting!StartsTimer
    <2> QED
      BY <2>2, <2>3, <2>4 DEF TextInv, Texting!NeverStuck, Texting!IsABag
  <1>4. CASE Texting!Timer
    <2>1. /\ timer' = FALSE
          /\ flights' = Texting!(+)(flights, Texting!Started(message_queue))
          /\ UNCHANGED << message_queue, send_error_times, made >>
      BY <1>4 DEF Texting!Timer
    <2>2. TextQueue'
      BY <1>0, <2>1 DEF TextQueue
    <2>3. Texting!IsABag(flights') /\ (message_queue' # << >> => flights' # Texting!EmptyBag)
      BY <1>0, <2>1, StartedFlights
    <2> QED
      BY <2>1, <2>2, <2>3 DEF TextInv, Texting!NeverStuck, Texting!IsABag
  <1> QED
    BY <1>1, <1>2, <1>3, <1>4 DEF Texting!Next, Texting!Report

-------------------------------------------------------------------------------
(* The logs: LogUpload.                                                      *)

\* The assumptions this part needs.
LEMMA LogLimits == MaxRepeat \in Nat \ {0} /\ Room \in Nat /\ MaxLog \in Nat /\ MaxDown \in Nat
  BY ServerAssumption DEF ServerAssumption

\* What an index of a sequence, of its front and of its end finds.
LEMMA MoveHead ==
  ASSUME NEW S, NEW s \in Seq(S), NEW q \in Seq(S), q # << >>
  PROVE  Append(s, Head(q)) \o Tail(q) = s \o q
  <1>1. /\ Head(q) \in S /\ Tail(q) \in Seq(S) /\ Len(Tail(q)) = Len(q) - 1
        /\ \A i \in 1 .. Len(Tail(q)) : Tail(q)[i] = q[i + 1]
        /\ Len(q) \in Nat \ {0} /\ Head(q) = q[1] /\ Len(s) \in Nat
    BY HeadTailProperties, EmptySeq
  <1> DEFINE a == Append(s, Head(q))
  <1>2. /\ a \in Seq(S) /\ Len(a) = Len(s) + 1
        /\ \A i \in 1 .. Len(s) : a[i] = s[i]
        /\ a[Len(s) + 1] = q[1]
    BY <1>1, AppendProperties
  <1> HIDE DEF a
  <1> DEFINE t == Tail(q)
  <1>3. /\ t \in Seq(S) /\ Len(t) = Len(q) - 1
        /\ \A i \in 1 .. Len(q) - 1 : t[i] = q[i + 1]
    BY <1>1
  <1> HIDE DEF t
  <1>4. /\ a \o t \in Seq(S) /\ Len(a \o t) = Len(s) + Len(q)
        /\ \A i \in 1 .. Len(s) + Len(q) :
              (a \o t)[i] = IF i <= Len(s) + 1 THEN a[i] ELSE t[i - (Len(s) + 1)]
    <2>1. Len(a) + Len(t) = Len(s) + Len(q)
      BY <1>1, <1>2, <1>3
    <2>2. /\ a \o t \in Seq(S) /\ Len(a \o t) = Len(a) + Len(t)
          /\ \A i \in 1 .. Len(a) + Len(t) :
                (a \o t)[i] = IF i <= Len(a) THEN a[i] ELSE t[i - Len(a)]
      BY <1>2, <1>3, ConcatProperties
    <2> QED
      BY <1>2, <2>1, <2>2
  <1>5. /\ s \o q \in Seq(S) /\ Len(s \o q) = Len(s) + Len(q)
        /\ \A i \in 1 .. Len(s) + Len(q) :
              (s \o q)[i] = IF i <= Len(s) THEN s[i] ELSE q[i - Len(s)]
    BY <1>1, ConcatProperties
  <1>6. ASSUME NEW i \in 1 .. Len(s) + Len(q) PROVE (a \o t)[i] = (s \o q)[i]
    <2>1. CASE i <= Len(s)
      BY <1>1, <1>2, <1>4, <1>5, <2>1
    <2>2. CASE i = Len(s) + 1
      <3>1. (a \o t)[i] = a[Len(s) + 1]
        BY <1>1, <1>4, <2>2
      <3>2. (s \o q)[i] = q[i - Len(s)] /\ i - Len(s) = 1
        BY <1>1, <1>5, <2>2
      <3> QED
        BY <1>2, <3>1, <3>2
    <2>3. CASE i > Len(s) + 1
      <3>1. i - (Len(s) + 1) \in 1 .. Len(q) - 1
        BY <1>1, <2>3
      <3>2. t[i - (Len(s) + 1)] = q[i - (Len(s) + 1) + 1]
        BY <1>3, <3>1
      <3>3. i - (Len(s) + 1) + 1 = i - Len(s)
        BY <1>1
      <3> QED
        BY <1>1, <1>4, <1>5, <2>3, <3>2, <3>3
    <2> QED
      <3>1. i \in Nat /\ (i <= Len(s) \/ i = Len(s) + 1 \/ i > Len(s) + 1)
        BY <1>1
      <3> QED
        BY <2>1, <2>2, <2>3, <3>1
  <1>7. a \o t = s \o q
    BY <1>4, <1>5, <1>6, SeqEqual
  <1> QED
    BY <1>7 DEF a, t

\* Appending to the second of two joined sequences appends to the whole.
LEMMA AddLast ==
  ASSUME NEW S, NEW s \in Seq(S), NEW q \in Seq(S), NEW e \in S
  PROVE  s \o Append(q, e) = Append(s \o q, e)
  <1>1. /\ Append(q, e) = q \o << e >> /\ << e >> \in Seq(S)
        /\ s \o q \in Seq(S) /\ Append(s \o q, e) = (s \o q) \o << e >>
    BY AppendIsConcat, ConcatProperties
  <1> QED
    BY <1>1, ConcatAssociative

LogQueue ==
  /\ logs \in Seq(Nat) /\ uploaded \in Seq(Nat) /\ Len(logs) <= Room
  /\ next \in 0 .. MaxLog /\ downs \in 0 .. MaxDown
  /\ refused \subseteq 1 .. next
LogSocket ==
  /\ logStatus \in {"init", "connecting", "work", "finish", "error"}
  /\ logFails \in 0 .. MaxRepeat - 1
LogInv == LogQueue /\ LogSocket /\ up \in BOOLEAN /\ Logging!EachOnce

\* What the invariant says of the variables.
LEMMA LogTypes == LogInv => Logging!TypeOK
  BY DEF LogInv, LogQueue, LogSocket, Logging!TypeOK

\* It holds when the device starts.
LEMMA LogBegins == Logging!Init => LogInv
  <1> SUFFICES ASSUME Logging!Init PROVE LogInv
    OBVIOUS
  <1>1. LogQueue /\ LogSocket
    BY LogLimits DEF Logging!Init, LogQueue, LogSocket
  <1>2. Logging!EachOnce
    BY DEF Logging!Init, Logging!EachOnce
  <1>3. up \in BOOLEAN
    BY DEF Logging!Init
  <1> QED
    BY <1>1, <1>2, <1>3 DEF LogInv

\* Every step keeps the status, the failures and the bearer to their values.
LEMMA SocketGoesOn ==
  ASSUME LogInv, Logging!Next
  PROVE  LogSocket' /\ up' \in BOOLEAN
  <1> USE LogLimits DEF Logging!Moved
  <1>1. LogSocket'
    BY DEF LogInv, LogSocket, Logging!Next, Logging!Upload, Logging!InitProc,
           Logging!ConnectingProc, Logging!WorkProc, Logging!Send, Logging!FinishProc,
           Logging!SocketError, Logging!Down, Logging!Up
  <1>2. up' \in BOOLEAN
    BY DEF LogInv, Logging!Next, Logging!Upload, Logging!InitProc,
           Logging!ConnectingProc, Logging!WorkProc, Logging!Send, Logging!FinishProc,
           Logging!SocketError, Logging!Down, Logging!Up
  <1> QED
    BY <1>1, <1>2

\* The logs that are neither added nor sent stay as they are.
LEMMA NoLogMoves ==
  ASSUME LogInv, Logging!Next
  PROVE  \/ Logging!Upload
         \/ logStatus = "work" /\ logs # << >> /\ Logging!Send(TRUE)
         \/ /\ UNCHANGED << logs, memory, next, uploaded, refused >>
            /\ (downs' = downs \/ (downs < MaxDown /\ downs' = downs + 1))
  <1>1. CASE Logging!WorkProc
    <2>1. Logging!Send(TRUE) \/ Logging!Send(FALSE)
      BY <1>1 DEF Logging!WorkProc
    <2>2. CASE Logging!Send(TRUE)
      BY <2>2 DEF Logging!Send
    <2>3. CASE Logging!Send(FALSE)
      <3>1. UNCHANGED << logs, memory >>
        BY <2>3 DEF Logging!Send, Logging!Pops
      <3>2. UNCHANGED << next, uploaded, refused >> /\ downs' = downs
        BY <2>3 DEF Logging!Send
      <3> QED
        BY <3>1, <3>2
    <2> QED
      BY <2>1, <2>2, <2>3
  <1>2. CASE Logging!InitProc \/ Logging!ConnectingProc \/ Logging!FinishProc \/ Logging!Up
    <2>1. UNCHANGED << logs, memory, next, uploaded, refused >> /\ downs' = downs
      BY <1>2 DEF Logging!InitProc, Logging!ConnectingProc, Logging!FinishProc, Logging!Up
    <2> QED
      BY <2>1
  <1>3. CASE Logging!SocketError \/ Logging!Down
    BY <1>3 DEF Logging!SocketError, Logging!Down
  <1> QED
    BY <1>1, <1>2, <1>3 DEF Logging!Next

\* Every step keeps each log once: in the memory, at the server or refused.
LEMMA LogsGoOn ==
  ASSUME LogInv, Logging!Next
  PROVE  LogQueue' /\ Logging!EachOnce'
  <1> DEFINE all == uploaded \o logs
  <1>0. LogQueue /\ Logging!EachOnce
    BY DEF LogInv
  <1>1. /\ logs \in Seq(Nat) /\ uploaded \in Seq(Nat) /\ Len(logs) \in Nat
        /\ DOMAIN logs = 1 .. Len(logs)
        /\ all \in Seq(Nat) /\ Len(all) = Len(uploaded) + Len(logs) /\ Len(all) \in Nat
        /\ DOMAIN all = 1 .. Len(all)
        /\ \A i \in 1 .. Len(logs) : logs[i] = all[Len(uploaded) + i]
        /\ Len(uploaded) \in Nat
    BY <1>0, ConcatProperties, LenProperties DEF LogQueue
  <1> HIDE DEF all
  <1>2. /\ memory = {logs[i] : i \in 1 .. Len(logs)}
        /\ \A i, j \in 1 .. Len(all) : i < j => all[i] < all[j]
        /\ {all[i] : i \in 1 .. Len(all)} = 1 .. next \ refused
    BY <1>0, <1>1 DEF Logging!EachOnce, all
  <1>3. next \in Nat /\ next <= MaxLog
    BY <1>0, LogLimits DEF LogQueue
  <1>4. CASE Logging!Upload /\ Len(logs) < Room
    <2>1. /\ next' = next + 1 /\ next < MaxLog /\ logs' = Append(logs, next')
          /\ memory' = memory \cup {next'}
          /\ UNCHANGED << uploaded, refused, downs >>
      BY <1>4 DEF Logging!Upload, Logging!Kept
    <2> DEFINE n == next'
    <2>2. n \in Nat /\ n = next + 1 /\ n \in 0 .. MaxLog
      BY <1>3, <2>1, LogLimits
    <2> HIDE DEF n
    <2>3. /\ logs' \in Seq(Nat) /\ Len(logs') = Len(logs) + 1
          /\ \A i \in 1 .. Len(logs) : logs'[i] = logs[i]
          /\ logs'[Len(logs) + 1] = n
          /\ DOMAIN logs' = 1 .. Len(logs')
      BY <1>1, <2>1, <2>2, AppendProperties, LenProperties DEF n
    <2>4. /\ all' = Append(all, n)
          /\ all' \in Seq(Nat) /\ Len(all') = Len(all) + 1
          /\ \A i \in 1 .. Len(all) : all'[i] = all[i]
          /\ all'[Len(all) + 1] = n
          /\ DOMAIN all' = 1 .. Len(all')
      <3>1. uploaded' \o logs' = Append(uploaded \o logs, n)
        <4>1. logs' = Append(logs, n) /\ uploaded' = uploaded
          BY <2>1 DEF n
        <4>2. uploaded \o Append(logs, n) = Append(uploaded \o logs, n)
          BY <1>1, <2>2, AddLast
        <4> QED
          BY <4>1, <4>2
      <3>2. all' = Append(all, n)
        BY <3>1 DEF all
      <3> QED
        <4>1. /\ Append(all, n) \in Seq(Nat) /\ Len(Append(all, n)) = Len(all) + 1
              /\ \A i \in 1 .. Len(all) : Append(all, n)[i] = all[i]
              /\ Append(all, n)[Len(all) + 1] = n
          <5>1. all \in Seq(Nat) /\ n \in Nat
            BY <1>1, <2>2
          <5> QED
            BY <5>1, AppendProperties
        <4> QED
          BY <3>2, <4>1, LenProperties
    <2>5. LogQueue'
      <3>1. refused' \subseteq 1 .. next' /\ next' \in 0 .. MaxLog
        BY <1>0, <1>3, <2>1, <2>2 DEF LogQueue, n
      <3>2. Len(logs') <= Room
        BY <1>1, <1>4, <2>3, LogLimits
      <3> QED
        BY <1>0, <2>1, <2>3, <3>1, <3>2 DEF LogQueue
    <2>6. memory' = {logs'[i] : i \in 1 .. Len(logs')}
      <3>1. 1 .. Len(logs') = (1 .. Len(logs)) \cup {Len(logs) + 1}
        BY <1>1, <2>3
      <3> QED
        BY <1>2, <2>1, <2>3, <3>1 DEF n
    <2>7. \A i \in 1 .. Len(all) : all[i] \in 1 .. next
      <3>1. ASSUME NEW i \in 1 .. Len(all) PROVE all[i] \in 1 .. next \ refused
        BY <1>2
      <3> QED
        BY <3>1
    <2>8. \A i, j \in 1 .. Len(all') : i < j => all'[i] < all'[j]
      <3> SUFFICES ASSUME NEW i \in 1 .. Len(all'), NEW j \in 1 .. Len(all'), i < j
                   PROVE  all'[i] < all'[j]
        OBVIOUS
      <3>0. Len(all') = Len(all) + 1 /\ Len(all) \in Nat
        BY <1>1, <2>4
      <3>1. i \in 1 .. Len(all) /\ (j \in 1 .. Len(all) \/ j = Len(all) + 1)
        BY <3>0
      <3>2. CASE j \in 1 .. Len(all)
        BY <1>2, <2>4, <3>1, <3>2
      <3>3. CASE j = Len(all) + 1
        BY <1>3, <2>2, <2>4, <2>7, <3>1, <3>3
      <3> QED
        BY <3>1, <3>2, <3>3
    <2>9. {all'[i] : i \in 1 .. Len(all')} = 1 .. next' \ refused'
      <3>1. {all'[i] : i \in 1 .. Len(all')} = {all[i] : i \in 1 .. Len(all)} \cup {n}
        <4>1. 1 .. Len(all') = (1 .. Len(all)) \cup {Len(all) + 1}
          BY <1>1, <2>4
        <4>2. {all'[i] : i \in 1 .. Len(all')}
                = {all'[i] : i \in 1 .. Len(all)} \cup {all'[Len(all) + 1]}
          BY <4>1
        <4>3. \A i \in 1 .. Len(all) : all'[i] = all[i]
          BY <2>4
        <4>4. {all'[i] : i \in 1 .. Len(all)} = {all[i] : i \in 1 .. Len(all)}
          BY <4>3
        <4> QED
          BY <2>4, <4>2, <4>4
      <3>2. n \notin refused /\ 1 .. n = (1 .. next) \cup {n}
        BY <1>0, <1>3, <2>2 DEF LogQueue
      <3> QED
        BY <1>2, <2>1, <3>1, <3>2 DEF n
    <2> QED
      BY <2>3, <2>4, <2>5, <2>6, <2>8, <2>9 DEF Logging!EachOnce, all
  <1>5. CASE Logging!Upload /\ ~(Len(logs) < Room)
    <2>1. /\ next' = next + 1 /\ next < MaxLog
          /\ refused' = refused \cup {next'}
          /\ UNCHANGED << logs, memory, uploaded, downs >>
      BY <1>5 DEF Logging!Upload, Logging!Kept
    <2>2. next' \in 0 .. MaxLog /\ refused' \subseteq 1 .. next'
      BY <1>0, <1>3, <2>1, LogLimits DEF LogQueue
    <2>3. LogQueue'
      BY <1>0, <2>1, <2>2 DEF LogQueue
    <2>4. 1 .. next' \ refused' = 1 .. next \ refused
      BY <1>3, <2>1
    <2> QED
      BY <1>0, <2>1, <2>3, <2>4 DEF Logging!EachOnce
  <1>6. CASE logStatus = "work" /\ logs # << >> /\ Logging!Send(TRUE)
    <2>1. /\ logs' = Tail(logs) /\ memory' = memory \ {Head(logs)}
          /\ uploaded' = Append(uploaded, Head(logs))
          /\ UNCHANGED << next, refused, downs >>
      BY <1>6 DEF Logging!Send, Logging!Pops
    <2>2. /\ logs' \in Seq(Nat) /\ Len(logs') = Len(logs) - 1
          /\ \A i \in 1 .. Len(logs') : logs'[i] = logs[i + 1]
          /\ Head(logs) \in Nat /\ Head(logs) = logs[1] /\ Len(logs) >= 1
          /\ DOMAIN logs' = 1 .. Len(logs')
      BY <1>1, <1>6, <2>1, HeadTailProperties, LenProperties, EmptySeq
    <2>3. uploaded' \in Seq(Nat)
      BY <1>1, <2>1, <2>2, AppendProperties
    <2>4. uploaded' \o logs' = uploaded \o logs
      BY <1>1, <1>6, <2>1, MoveHead
    <2>5. LogQueue'
      <3>1. Len(logs) <= Room
        BY <1>0 DEF LogQueue
      <3>2. Len(logs') <= Room
        BY <1>1, <2>2, <3>1, LogLimits
      <3> QED
        BY <1>0, <2>1, <2>2, <2>3, <3>2 DEF LogQueue
    <2>6. memory' = {logs'[i] : i \in 1 .. Len(logs')}
      <3>1. \A i, j \in 1 .. Len(logs) : i < j => logs[i] # logs[j]
        <4> SUFFICES ASSUME NEW i \in 1 .. Len(logs), NEW j \in 1 .. Len(logs), i < j
                     PROVE  logs[i] # logs[j]
          OBVIOUS
        <4>1. /\ Len(uploaded) + i \in 1 .. Len(all) /\ Len(uploaded) + j \in 1 .. Len(all)
              /\ Len(uploaded) + i < Len(uploaded) + j
          BY <1>1
        <4>2. logs[i] < logs[j] /\ logs[i] \in Nat /\ logs[j] \in Nat
          BY <1>1, <1>2, <4>1, ElementOfSeq
        <4> QED
          BY <4>2
      <3>2. {logs[i] : i \in 1 .. Len(logs)} = {logs[1]} \cup {logs[i] : i \in 2 .. Len(logs)}
        BY <1>1, <2>2
      <3>3. logs[1] \notin {logs[i] : i \in 2 .. Len(logs)}
        BY <1>1, <2>2, <3>1
      <3>4. {logs[i] : i \in 2 .. Len(logs)} = {logs'[i] : i \in 1 .. Len(logs')}
        <4>1. ASSUME NEW i \in 2 .. Len(logs) PROVE \E k \in 1 .. Len(logs') : logs[i] = logs'[k]
          <5>1. i - 1 \in 1 .. Len(logs') /\ i - 1 + 1 = i
            BY <1>1, <2>2
          <5> QED
            BY <2>2, <5>1
        <4>2. ASSUME NEW k \in 1 .. Len(logs') PROVE \E i \in 2 .. Len(logs) : logs'[k] = logs[i]
          <5>1. k + 1 \in 2 .. Len(logs)
            BY <1>1, <2>2
          <5> QED
            BY <2>2, <5>1
        <4> QED
          BY <4>1, <4>2
      <3> QED
        BY <1>2, <2>1, <2>2, <3>2, <3>3, <3>4
    <2> QED
      <3>1. all' = all
        BY <2>4 DEF all
      <3>2. memory' = {logs'[i] : i \in DOMAIN logs'}
        BY <2>2, <2>6
      <3>3. 1 .. next' \ refused' = 1 .. next \ refused
        BY <2>1
      <3>4. /\ \A i, j \in DOMAIN all' : i < j => all'[i] < all'[j]
            /\ {all'[i] : i \in DOMAIN all'} = 1 .. next' \ refused'
        BY <1>1, <1>2, <3>1, <3>3
      <3> QED
        BY <2>5, <3>2, <3>4 DEF Logging!EachOnce, all
  <1>7. CASE /\ UNCHANGED << logs, memory, next, uploaded, refused >>
             /\ (downs' = downs \/ (downs < MaxDown /\ downs' = downs + 1))
    <2>1. downs' \in 0 .. MaxDown
      BY <1>0, <1>7, LogLimits DEF LogQueue
    <2> QED
      BY <1>0, <1>7, <2>1 DEF LogQueue, Logging!EachOnce
  <1> QED
    BY <1>4, <1>5, <1>6, <1>7, NoLogMoves

\* Every step keeps the whole invariant.
LEMMA LogGoesOn ==
  ASSUME LogInv, Logging!Next
  PROVE  LogInv'
  BY SocketGoesOn, LogsGoOn DEF LogInv

-------------------------------------------------------------------------------
(* The records in flight: SendCache.                                         *)

\* The assumptions this part needs.
LEMMA StreamLimits ==
  /\ CacheMax \in Nat \ {0} /\ StreamMax \in Nat
  /\ Width \in Nat /\ Width > StreamMax
  /\ Bases \subseteq 0 .. Width - 1
  /\ RecordLens \subseteq Nat \ {0} /\ OtherLens \subseteq Nat \ {0}
  /\ Escapes \subseteq Nat
  BY SendCacheAssumption DEF SendCacheAssumption

\* What is said of numbers up to a bound, one after the other, holds of them all.
LEMMA LeastOf ==
  ASSUME NEW T, T \subseteq Nat, T # {}
  PROVE  \E x \in T : \A y \in T : ~(y < x)
  <1> DEFINE R == OpToRel(<, Nat)
  <1>1. IsWellFoundedOn(R, Nat)
    BY NatLessThanWellFounded
  <1>2. PICK x \in T : \A y \in T : ~(<< y, x >> \in R)
    <2> HIDE DEF R
    <2> QED
      BY <1>1, WFMin
  <1> QED
    BY <1>2 DEF OpToRel

\* A set of numbers that has 0 and with each number the next has them all.
LEMMA UpTo ==
  ASSUME NEW n \in Nat, NEW T, 0 \in T, \A m \in 0 .. n - 1 : m \in T => m + 1 \in T
  PROVE  0 .. n \subseteq T
  <1> DEFINE Bad == {m \in 0 .. n : m \notin T}
  <1>1. Bad \subseteq Nat
    OBVIOUS
  <1> SUFFICES ASSUME Bad # {} PROVE FALSE
    OBVIOUS
  <1>2. PICK x \in Bad : \A y \in Bad : ~(y < x)
    <2> HIDE DEF Bad
    <2> QED
      BY <1>1, LeastOf
  <1>3. x # 0 /\ x \in 0 .. n /\ x \notin T
    OBVIOUS
  <1>4. x - 1 \in 0 .. n - 1 /\ x - 1 \in T
    BY <1>2, <1>3
  <1> QED
    BY <1>3, <1>4

\* A set of numbers below a bound has a greatest.
LEMMA GreatestOf ==
  ASSUME NEW n \in Nat, NEW T, T \subseteq 0 .. n, T # {}
  PROVE  Max(T) \in T
  <1> DEFINE U == {n - x : x \in T}
  <1>1. U \subseteq Nat /\ U # {}
    <2>1. \A x \in T : n - x \in Nat
      OBVIOUS
    <2> QED
      BY <2>1
  <1>2. PICK u \in U : \A y \in U : ~(y < u)
    <2> HIDE DEF U
    <2> QED
      BY <1>1, LeastOf
  <1>3. PICK x \in T : u = n - x
    BY <1>2
  <1>4. \A y \in T : x >= y
    BY <1>2, <1>3
  <1> QED
    BY <1>3, <1>4 DEF Max

\* The sums of the first lengths exist, as a function.
LEMMA SumExists ==
  ASSUME NEW n \in Nat, NEW len \in [1 .. n -> Nat]
  PROVE  \E g \in [0 .. n -> Nat] : g[0] = 0 /\ \A k \in 1 .. n : g[k] = g[k - 1] + len[k]
  <1> DEFINE P(m) == \E g \in [0 .. m -> Nat] :
                        g[0] = 0 /\ \A k \in 1 .. m : g[k] = g[k - 1] + len[k]
             T == {m \in 0 .. n : P(m)}
  <1>1. 0 \in T
    <2> DEFINE z == [k \in 0 .. 0 |-> 0]
    <2>1. z \in [0 .. 0 -> Nat] /\ z[0] = 0 /\ 1 .. 0 = {}
      OBVIOUS
    <2> HIDE DEF z
    <2> QED
      BY <2>1
  <1>2. ASSUME NEW m \in 0 .. n - 1, m \in T PROVE m + 1 \in T
    <2>1. PICK g \in [0 .. m -> Nat] : g[0] = 0 /\ \A k \in 1 .. m : g[k] = g[k - 1] + len[k]
      BY <1>2
    <2> DEFINE h == [k \in 0 .. m + 1 |-> IF k = m + 1 THEN g[m] + len[m + 1] ELSE g[k]]
    <2>2. h \in [0 .. m + 1 -> Nat]
      BY <2>1
    <2>3. h[0] = 0 /\ \A k \in 1 .. m + 1 : h[k] = h[k - 1] + len[k]
      BY <2>1
    <2> HIDE DEF h
    <2>4. P(m + 1)
      BY <2>2, <2>3
    <2> HIDE DEF P
    <2> QED
      BY <2>4
  <1>3. n \in T
    <2> HIDE DEF T
    <2>1. \A m \in 0 .. n - 1 : m \in T => m + 1 \in T
      BY <1>2
    <2>2. 0 .. n \subseteq T
      BY <1>1, <2>1, UpTo
    <2> QED
      BY <2>2
  <1> QED
    BY <1>3

\* The bytes of the first records: nothing at the start, and each adds its own.
Sums(total) ==
  /\ total \in [0 .. Len(cache) -> Nat] /\ total[0] = 0
  /\ \A k \in 1 .. Len(cache) : total[k] = total[k - 1] + cache[k].len
\* Total is such a function.
LEMMA TotalSums ==
  ASSUME cache \in Seq([len : RecordLens, start : Offset])
  PROVE  Sums(Total)
  <1> DEFINE n == Len(cache)
             len == [k \in 1 .. n |-> cache[k].len]
  <1>1. n \in Nat /\ \A k \in 1 .. n : cache[k].len \in Nat
    <2>1. n \in Nat /\ \A k \in 1 .. n : cache[k] \in [len : RecordLens, start : Offset]
      BY ElementOfSeq, LenProperties
    <2> QED
      BY <2>1, StreamLimits
  <1>2. len \in [1 .. n -> Nat] /\ \A k \in 1 .. n : len[k] = cache[k].len
    BY <1>1
  <1> HIDE DEF len
  <1>3. PICK g \in [0 .. n -> Nat] : g[0] = 0 /\ \A k \in 1 .. n : g[k] = g[k - 1] + len[k]
    <2> HIDE DEF n
    <2> QED
      BY <1>1, <1>2, SumExists
  <1> DEFINE body(f) == [k \in 0 .. n |-> IF k = 0 THEN 0 ELSE f[k - 1] + cache[k].len]
             IsTotal(f) == f = body(f)
  <1>4. IsTotal(g)
    <2>1. \A k \in 0 .. n : g[k] = IF k = 0 THEN 0 ELSE g[k - 1] + cache[k].len
      BY <1>1, <1>2, <1>3
    <2> QED
      BY <1>3, <2>1
  <1>5. Total = CHOOSE f : IsTotal(f)
    BY DEF Total
  <1> HIDE DEF IsTotal
  <1>6. IsTotal(Total)
    BY <1>4, <1>5
  <1> USE DEF IsTotal
  <1>7. \A k \in 0 .. n : Total[k] = IF k = 0 THEN 0 ELSE Total[k - 1] + cache[k].len
    BY <1>1, <1>6
  <1>8. Total \in [0 .. n -> Nat]
    <2> DEFINE T == {k \in 0 .. n : Total[k] \in Nat}
    <2>1. 0 \in T
      BY <1>1, <1>7
    <2>2. \A m \in 0 .. n - 1 : m \in T => m + 1 \in T
      <3> SUFFICES ASSUME NEW m \in 0 .. n - 1, m \in T PROVE m + 1 \in T
        OBVIOUS
      <3>1. /\ m + 1 \in 0 .. n /\ m + 1 # 0 /\ m + 1 \in 1 .. n /\ m + 1 - 1 = m
            /\ Total[m] \in Nat
        BY <1>1
      <3>2. Total[m + 1] = Total[m] + cache[m + 1].len
        BY <1>7, <3>1
      <3> QED
        BY <1>1, <3>1, <3>2
    <2> HIDE DEF T, n
    <2>3. 0 .. n \subseteq T
      BY <1>1, <2>1, <2>2, UpTo
    <2> USE DEF n
    <2>4. \A k \in 0 .. n : Total[k] \in Nat
      BY <2>3 DEF T
    <2>5. Total = [k \in 0 .. n |-> IF k = 0 THEN 0 ELSE Total[k - 1] + cache[k].len]
      BY <1>6
    <2>6. Total = [k \in 0 .. n |-> Total[k]]
      BY <1>7, <2>5
    <2> QED
      BY <2>4, <2>6
  <1> QED
    BY <1>1, <1>7, <1>8 DEF Sums

\* The counter wraps: what it does on the range that occurs, at most one turn ahead.
LEMMA Wraps ==
  ASSUME NEW x \in Int, -Width < x, x < 2 * Width
  PROVE  x % Width = IF x < 0 THEN x + Width ELSE IF x < Width THEN x ELSE x - Width
  <1>1. Width \in Nat /\ Width > 0
    BY StreamLimits
  <1>2. CASE x < 0
    BY <1>1, <1>2
  <1>3. CASE 0 <= x /\ x < Width
    BY <1>1, <1>3
  <1>4. CASE Width <= x
    BY <1>1, <1>4
  <1> QED
    BY <1>1, <1>2, <1>3, <1>4

\* The bytes between two values of the counter are those between the offsets.
LEMMA CounterDistance ==
  ASSUME NEW b \in Counter, NEW a \in Offset, NEW s \in 0 .. a
  PROVE  (((b + a) % Width) - ((b + s) % Width)) % Width = a - s
  <1>1. /\ Width \in Nat /\ a \in Nat /\ s \in Nat /\ s <= a /\ a < Width
        /\ b \in Nat /\ b < Width
    BY StreamLimits DEF Counter, Offset
  <1> DEFINE x == (b + a) % Width
             y == (b + s) % Width
  <1>2. x = IF b + a < Width THEN b + a ELSE b + a - Width
    BY <1>1, Wraps
  <1>3. y = IF b + s < Width THEN b + s ELSE b + s - Width
    BY <1>1, Wraps
  <1>4. /\ x - y \in Int /\ -Width < x - y /\ x - y < 2 * Width
        /\ (IF x - y < 0 THEN x - y + Width ELSE x - y) = a - s
        /\ x - y < Width
    <2> HIDE DEF x, y
    <2> QED
      BY <1>1, <1>2, <1>3
  <1>5. (x - y) % Width = IF x - y < 0 THEN x - y + Width ELSE x - y
    <2> HIDE DEF x, y
    <2> QED
      BY <1>1, <1>4, Wraps
  <1> QED
    <2> HIDE DEF x, y
    <2>1. (x - y) % Width = a - s
      BY <1>4, <1>5
    <2> QED
      BY <1>1, <2>1 DEF x, y

\* A value of the counter moved on is that of the offset moved on.
LEMMA CounterMoves ==
  ASSUME NEW b \in Counter, NEW s \in Offset, NEW t \in Nat, s + t \in Offset
  PROVE  (((b + s) % Width) + t) % Width = (b + (s + t)) % Width
  <1>1. /\ Width \in Nat /\ s \in Nat /\ t \in Nat /\ s + t < Width
        /\ b \in Nat /\ b < Width
    BY StreamLimits DEF Counter, Offset
  <1> DEFINE y == (b + s) % Width
  <1>2. y = IF b + s < Width THEN b + s ELSE b + s - Width
    BY <1>1, Wraps
  <1>3. (b + (s + t)) % Width = IF b + (s + t) < Width THEN b + (s + t) ELSE b + (s + t) - Width
    BY <1>1, Wraps
  <1>4. (y + t) % Width = IF y + t < Width THEN y + t ELSE y + t - Width
    <2> HIDE DEF y
    <2> DEFINE z == y + t
    <2>1. z \in Int /\ -Width < z /\ z < 2 * Width /\ ~(z < 0)
      BY <1>1, <1>2
    <2> HIDE DEF z
    <2>2. z % Width = IF z < Width THEN z ELSE z - Width
      BY <1>1, <2>1, Wraps
    <2> QED
      BY <1>1, <1>2, <2>1, <2>2 DEF z
  <1> QED
    <2> HIDE DEF y
    <2>1. (y + t) % Width = (b + (s + t)) % Width
      BY <1>1, <1>2, <1>3, <1>4
    <2> QED
      BY <2>1 DEF y

\* While records wait, the saved counter is that of an offset between what was confirmed
\* and what is acknowledged, on this connection.
Counting ==
  /\ NoOverCount
  /\ cache # << >> => /\ online
                     /\ \E s \in confirmedLen .. acked : savedAck = (base + s) % Width
CacheInv == TypeOK /\ Counting

\* The records that are confirmed have no more bytes than the counter has moved.
LEMMA CoveredFits ==
  ASSUME CacheInv
  PROVE  /\ ConfirmLen \in Nat
         /\ Covered \in 0 .. Len(cache)
         /\ Total[Covered] \in Nat /\ Total[Covered] <= ConfirmLen
         /\ Len(cache) \in Nat
  <1> DEFINE C == {k \in 0 .. Len(cache) : Total[k] <= ConfirmLen}
             n == Len(cache)
  <1>1. n \in Nat /\ Sums(Total)
    BY TotalSums, LenProperties DEF CacheInv, TypeOK
  <1>2. ConfirmLen \in Nat
    BY StreamLimits DEF CacheInv, TypeOK, ConfirmLen, AckSeq, Counter, Offset
  <1>3. C \subseteq 0 .. n /\ 0 \in C
    BY <1>1, <1>2 DEF Sums
  <1>4. Max(C) \in C
    <2> HIDE DEF C, n
    <2> QED
      BY <1>1, <1>3, GreatestOf
  <1>5. Covered = Max(C)
    BY DEF Covered
  <1>6. Total[Covered] \in Nat
    BY <1>1, <1>4, <1>5 DEF Sums
  <1> QED
    BY <1>1, <1>2, <1>4, <1>5, <1>6

\* Confirming leaves a cache, and a saved counter that is that of an offset not yet
\* confirmed.
LEMMA ConfirmKeeps ==
  ASSUME CacheInv, online, NEW rest, Confirm(rest)
  PROVE  /\ rest \in Seq([len : RecordLens, start : Offset]) /\ Len(rest) <= Len(cache)
         /\ Len(rest) \in Nat
         /\ savedAck' \in Counter /\ confirmedLen' \in Nat /\ confirmedStart' \in Offset
         /\ \E s \in confirmedLen' .. acked : savedAck' = (base + s) % Width
  <1> DEFINE R == [len : RecordLens, start : Offset]
             k == Covered
             n == Len(cache)
             t == Total[k]
  <1>1. /\ ConfirmLen \in Nat /\ k \in 0 .. n /\ t \in Nat /\ t <= ConfirmLen /\ n \in Nat
    BY CoveredFits
  <1>2. /\ cache \in Seq(R) /\ savedAck \in Counter /\ base \in Counter /\ acked \in Offset
        /\ acked \in Nat /\ confirmedLen \in Nat /\ confirmedStart \in Offset /\ confirmedLen <= acked
    BY StreamLimits DEF CacheInv, Counting, NoOverCount, TypeOK, Offset
  <1>3. /\ rest = SubSeq(cache, k + 1, n) /\ savedAck' = Advanced(k)
        /\ confirmedLen' = confirmedLen + t
        /\ confirmedStart' = IF k = 0 THEN confirmedStart ELSE cache[k].start
    BY DEF Confirm
  <1>4. rest \in Seq(R) /\ Len(rest) = IF k + 1 <= n THEN n - (k + 1) + 1 ELSE 0
    <2> HIDE DEF R, k, n
    <2>1. k + 1 \in 1 .. Len(cache) + 1 /\ n \in 0 .. Len(cache)
      BY <1>1 DEF n
    <2> QED
      BY <1>2, <1>3, <2>1, SubSeqProperties
  <1>5. confirmedStart' \in Offset
    <2>1. CASE k = 0
      BY <1>2, <1>3, <2>1
    <2>2. CASE k # 0
      <3>1. cache[k] \in R
        <4> HIDE DEF R, k, n
        <4>1. k \in 1 .. Len(cache)
          BY <1>1, <2>2 DEF n
        <4> QED
          BY <1>2, <4>1, ElementOfSeq
      <3> QED
        BY <1>3, <2>2, <3>1
    <2> QED
      BY <2>1, <2>2
  <1>6. t + confirmedLen \in Nat /\ \E s \in confirmedLen' .. acked : savedAck' = (base + s) % Width
    <2>1. CASE cache = << >>
      <3>1. n = 0 /\ k = 0 /\ t = 0
        <4>1. n = 0
          BY <2>1, EmptySeq
        <4>2. Sums(Total)
          BY TotalSums DEF CacheInv, TypeOK
        <4> QED
          BY <1>1, <4>1, <4>2 DEF Sums
      <3>2. savedAck' = (base + acked) % Width
        BY <1>3, <3>1 DEF Advanced, AckSeq
      <3> QED
        BY <1>2, <1>3, <3>1, <3>2
    <2>2. CASE cache # << >>
      <3>1. PICK s \in confirmedLen .. acked : savedAck = (base + s) % Width
        BY <2>2 DEF CacheInv, Counting
      <3>2. s \in 0 .. acked /\ s \in Offset /\ s \in Nat
        BY <1>2, StreamLimits DEF Offset
      <3>3. ConfirmLen = acked - s
        <4>1. ConfirmLen = (((base + acked) % Width) - ((base + s) % Width)) % Width
          <5>1. ConfirmLen = (AckSeq - savedAck) % Width
            BY DEF ConfirmLen
          <5>2. AckSeq = (base + acked) % Width /\ savedAck = (base + s) % Width
            BY <3>1 DEF AckSeq
          <5> QED
            BY ONLY <5>1, <5>2
        <4> QED
          BY <1>2, <3>2, <4>1, CounterDistance
      <3>4. s + t \in confirmedLen' .. acked /\ s + t \in Offset
        <4> HIDE DEF k, n, t
        <4>1. /\ t \in Nat /\ t <= acked - s /\ s \in Nat /\ s >= confirmedLen
              /\ confirmedLen \in Nat /\ acked \in 0 .. StreamMax /\ StreamMax \in Nat
              /\ confirmedLen' = confirmedLen + t
          BY <1>1, <1>2, <1>3, <3>1, <3>2, <3>3, StreamLimits DEF Offset
        <4> QED
          BY ONLY <4>1 DEF Offset
      <3>5. CASE k = n
        <4>1. savedAck' = (base + acked) % Width
          BY <1>3, <3>5 DEF Advanced, AckSeq
        <4>2. acked \in confirmedLen' .. acked
          BY <1>1, <1>2, <1>3, <3>2, <3>4
        <4> QED
          BY <1>1, <1>2, <4>1, <4>2
      <3>6. CASE k # n
        <4>1. savedAck' = (((base + s) % Width) + t) % Width
          BY <1>3, <3>1, <3>6 DEF Advanced
        <4>2. savedAck' = (base + (s + t)) % Width
          BY <1>1, <1>2, <3>2, <3>4, <4>1, CounterMoves
        <4> QED
          BY <1>1, <1>2, <3>4, <4>2
      <3> QED
        BY <3>5, <3>6
    <2> QED
      BY <2>1, <2>2
  <1>7. savedAck' \in Counter
    <2>1. PICK s \in confirmedLen' .. acked : savedAck' = (base + s) % Width
      BY <1>6
    <2>2. base + s \in Int /\ Width \in Nat /\ Width > 0
      BY <1>1, <1>2, <1>3, StreamLimits DEF Counter
    <2> QED
      BY <2>1, <2>2 DEF Counter
  <1> QED
    <2>1. Len(rest) <= Len(cache) /\ Len(rest) \in Nat
      BY <1>1, <1>4
    <2>2. confirmedLen' \in Nat
      BY <1>1, <1>2, <1>3
    <2> QED
      BY <1>4, <1>5, <1>6, <1>7, <2>1, <2>2

\* The invariant holds when the device starts.
LEMMA CacheBegins == Init => CacheInv
  <1> SUFFICES ASSUME Init PROVE CacheInv
    OBVIOUS
  <1>1. /\ cache \in Seq([len : RecordLens, start : Offset]) /\ Len(cache) = 0
    BY EmptySeq DEF Init
  <1>2. TypeOK
    <2>1. Len(cache) <= CacheMax /\ 0 \in Counter /\ 0 \in Offset
      BY <1>1, StreamLimits DEF Counter, Offset
    <2>2. /\ savedAck \in Counter /\ base \in Counter /\ sent \in Offset /\ acked \in 0 .. sent
          /\ confirmedLen \in Nat /\ confirmedStart \in Offset
      BY <2>1 DEF Init
    <2>3. online \in BOOLEAN /\ working \in BOOLEAN
      BY DEF Init
    <2> QED
      BY <1>1, <2>1, <2>2, <2>3 DEF TypeOK
  <1>3. Counting
    BY DEF Init, Counting, NoOverCount
  <1> QED
    BY <1>2, <1>3 DEF CacheInv

\* Every step of the connection keeps it.
LEMMA CacheGoesOn ==
  ASSUME CacheInv, Next
  PROVE  CacheInv'
  <1> USE DEF connVars, ghostVars
  <1>0. TypeOK /\ Counting
    BY DEF CacheInv
  <1>1. ASSUME NEW n \in OtherLens, Connect(n) PROVE CacheInv'
    <2>1. cache = << >>
      BY <1>0, <1>1 DEF Counting, Connect
    <2>2. sent' \in Offset /\ acked' = 0 /\ acked' \in 0 .. sent'
      BY <1>1, StreamLimits DEF Connect, Offset
    <2>3. /\ base' \in Counter /\ online' = TRUE /\ confirmedLen' = 0 /\ confirmedStart' = 0
          /\ confirmedStart' \in Offset
      BY <1>1, StreamLimits DEF Connect, Counter, Offset
    <2>4. UNCHANGED << cache, savedAck, working >>
      BY <1>1 DEF Connect
    <2>5. TypeOK'
      BY <1>0, <2>2, <2>3, <2>4 DEF TypeOK, Counter, Offset
    <2>6. Counting'
      BY <2>1, <2>2, <2>3, <2>4 DEF Counting, NoOverCount
    <2> QED
      BY <2>5, <2>6 DEF CacheInv
  <1>2. CASE Close
    <2>1. cache' \in Seq([len : RecordLens, start : Offset]) /\ Len(cache') = 0 /\ cache' = << >>
      BY <1>2, EmptySeq DEF Close
    <2>2. TypeOK'
      <3>1. Len(cache') <= CacheMax /\ 0 \in Counter
        BY <2>1, StreamLimits DEF Counter
      <3> QED
        BY <1>0, <1>2, <2>1, <3>1 DEF Close, TypeOK, Counter, Offset
    <2>3. Counting'
      BY <1>2, <2>1 DEF Close, Counting, NoOverCount
    <2> QED
      BY <2>2, <2>3 DEF CacheInv
  <1>3. ASSUME NEW n \in OtherLens, SendOther(n) PROVE CacheInv'
    <2>1. sent' = sent + n /\ sent + n <= StreamMax /\ n \in Nat
      BY <1>3, StreamLimits DEF SendOther
    <2>2. UNCHANGED << cache, savedAck, online, working, base, acked, ghostVars >>
      BY <1>3 DEF SendOther
    <2>3. sent' \in Offset /\ acked \in 0 .. sent'
      BY <1>0, <2>1, StreamLimits DEF TypeOK, Offset
    <2>4. TypeOK'
      BY <1>0, <2>2, <2>3 DEF TypeOK, Offset, Counter
    <2>5. Counting'
      BY <1>0, <2>2 DEF Counting, NoOverCount
    <2> QED
      BY <2>4, <2>5 DEF CacheInv
  <1>4. ASSUME NEW n \in RecordLens, NEW e \in Escapes, CacheSend(n, e) PROVE CacheInv'
    <2> DEFINE end == sent + n + e
               rest == SubSeq(cache, Covered + 1, Len(cache))
               R == [len : RecordLens, start : Offset]
    <2>1. /\ online /\ working /\ end <= StreamMax /\ Confirm(rest)
          /\ IF Len(rest) < CacheMax
             THEN cache' = Append(rest, [len |-> n, start |-> sent]) /\ sent' = end
             ELSE cache' = rest /\ sent' = sent
          /\ UNCHANGED << online, working, base, acked >>
      BY <1>4 DEF CacheSend
    <2> HIDE DEF rest
    <2>2. /\ rest \in Seq(R) /\ Len(rest) <= Len(cache) /\ Len(rest) \in Nat
          /\ savedAck' \in Counter /\ confirmedLen' \in Nat /\ confirmedStart' \in Offset
          /\ \E s \in confirmedLen' .. acked : savedAck' = (base + s) % Width
      BY <2>1, ConfirmKeeps
    <2>3. n \in Nat /\ e \in Nat /\ sent \in Nat /\ end \in Offset /\ end >= sent /\ acked \in 0 .. sent
      BY <1>0, <2>1, StreamLimits DEF TypeOK, Offset
    <2>4. sent' \in Offset /\ acked' \in 0 .. sent'
      BY <1>0, <2>1, <2>3 DEF TypeOK
    <2>5. cache' \in Seq(R) /\ Len(cache') <= CacheMax
      <3>1. CASE Len(rest) < CacheMax
        <4>1. sent \in Offset
          BY <1>0 DEF TypeOK
        <4>2. [len |-> n, start |-> sent] \in R
          BY <4>1
        <4>3. cache' = Append(rest, [len |-> n, start |-> sent])
          BY <2>1, <3>1
        <4> HIDE DEF R
        <4>4. cache' \in Seq(R) /\ Len(cache') = Len(rest) + 1
          BY <2>2, <4>2, <4>3, AppendProperties
        <4> QED
          BY <2>2, <3>1, <4>4, StreamLimits
      <3>2. CASE ~(Len(rest) < CacheMax)
        <4>1. cache' = rest
          BY <2>1, <3>2
        <4>2. Len(cache) \in Nat /\ Len(cache) <= CacheMax
          BY <1>0, LenProperties DEF TypeOK
        <4> QED
          BY <2>2, <4>1, <4>2, StreamLimits
      <3> QED
        BY <3>1, <3>2
    <2>6. TypeOK'
      BY <1>0, <2>1, <2>2, <2>4, <2>5 DEF TypeOK, Offset, Counter
    <2>7. Counting'
      <3>1. \E s \in confirmedLen' .. acked' : savedAck' = (base' + s) % Width
        BY <2>1, <2>2
      <3>2. confirmedLen' <= acked'
        BY <2>2, <2>3, <3>1, <2>1
      <3> QED
        BY <2>1, <3>1, <3>2 DEF Counting, NoOverCount
    <2> QED
      BY <2>6, <2>7 DEF CacheInv
  <1>5. CASE Receive
    <2>1. online /\ Confirm(cache') /\ UNCHANGED connVars
      BY <1>5 DEF Receive
    <2>2. /\ cache' \in Seq([len : RecordLens, start : Offset]) /\ Len(cache') <= Len(cache)
          /\ Len(cache') \in Nat
          /\ savedAck' \in Counter /\ confirmedLen' \in Nat /\ confirmedStart' \in Offset
          /\ \E s \in confirmedLen' .. acked : savedAck' = (base + s) % Width
      BY <2>1, ConfirmKeeps
    <2>3. Len(cache') <= CacheMax
      BY <1>0, <2>2, LenProperties, StreamLimits DEF TypeOK
    <2>4. TypeOK'
      BY <1>0, <2>1, <2>2, <2>3 DEF TypeOK, Offset, Counter
    <2>5. Counting'
      <3>1. \E s \in confirmedLen' .. acked' : savedAck' = (base' + s) % Width
        BY <2>1, <2>2
      <3>2. confirmedLen' <= acked'
        BY <1>0, <2>1, <2>2, <3>1 DEF TypeOK
      <3> QED
        BY <2>1, <3>1, <3>2 DEF Counting, NoOverCount
    <2> QED
      BY <2>4, <2>5 DEF CacheInv
  <1>6. CASE NetAck
    <2>1. acked' \in acked + 1 .. sent /\ online
      BY <1>6 DEF NetAck
    <2>2. UNCHANGED << cache, savedAck, online, working, base, sent, ghostVars >>
      BY <1>6 DEF NetAck
    <2>3. /\ acked' \in 0 .. sent /\ acked \in Nat /\ acked' \in Nat /\ acked' >= acked
          /\ confirmedLen \in Nat
      BY <1>0, <2>1 DEF TypeOK, Offset
    <2>4. TypeOK'
      BY <1>0, <2>2, <2>3 DEF TypeOK, Offset, Counter
    <2>5. Counting'
      <3>1. confirmedLen .. acked \subseteq confirmedLen' .. acked'
        BY <2>2, <2>3
      <3>2. confirmedLen' <= acked'
        BY <1>0, <2>1, <2>2, <2>3 DEF Counting, NoOverCount
      <3>3. ASSUME cache' # << >>
            PROVE  \E s \in confirmedLen' .. acked' : savedAck' = (base' + s) % Width
        BY <1>0, <2>2, <3>1, <3>3 DEF Counting
      <3> QED
        BY <2>1, <2>2, <3>2, <3>3 DEF Counting, NoOverCount
    <2> QED
      BY <2>4, <2>5 DEF CacheInv
  <1>7. ASSUME NEW n \in OtherLens, LoggedIn(n) PROVE CacheInv'
    <2>1. sent' = sent + n /\ sent + n <= StreamMax /\ n \in Nat /\ working' = TRUE
      BY <1>7, StreamLimits DEF LoggedIn
    <2>2. UNCHANGED << cache, savedAck, online, base, acked, ghostVars >>
      BY <1>7 DEF LoggedIn
    <2>3. sent' \in Offset /\ acked \in 0 .. sent'
      BY <1>0, <2>1, StreamLimits DEF TypeOK, Offset
    <2>4. TypeOK'
      BY <1>0, <2>1, <2>2, <2>3 DEF TypeOK, Offset, Counter
    <2>5. Counting'
      BY <1>0, <2>2 DEF Counting, NoOverCount
    <2> QED
      BY <2>4, <2>5 DEF CacheInv
  <1> QED
    BY <1>1, <1>2, <1>3, <1>4, <1>5, <1>6, <1>7 DEF Next

-------------------------------------------------------------------------------
(* What comes from the server: Receive.                                      *)

\* The assumptions this part needs.
LEMMA HearingLimits == FifoMax \in Nat /\ Patience \in Nat /\ MaxBad \in Nat
  BY ServerAssumption DEF ServerAssumption

\* What bytes are in the model.
Tokens == {"7e", "accepted", "registered", "refused", "request", "end", "text"}
Heard == tokens \in Seq(Tokens) /\ wire \in Seq(Tokens) /\ Len(tokens) <= FifoMax
Talk ==
  /\ proto \in Protocols /\ link \in {"finish", "login", "work"}
  /\ partial \in {"none", "fresh", "old"}
  /\ handed \in {"none", "skip", "whole", "torn", "empty"}
Tried == lost \in 0 .. Patience /\ bad \in 0 .. MaxBad
IncomingInv == Heard /\ Talk /\ Tried /\ registered \in BOOLEAN

\* What the invariant says of the variables.
LEMMA IncomingTypes == IncomingInv => Incoming!TypeOK
  BY DEF IncomingInv, Heard, Talk, Tried, Incoming!TypeOK

\* It holds when the device starts.
LEMMA IncomingBegins == Incoming!Init => IncomingInv
  <1> SUFFICES ASSUME Incoming!Init PROVE IncomingInv
    OBVIOUS
  <1>1. Heard
    <2>1. << >> \in Seq(Tokens) /\ Len(<< >>) = 0
      BY EmptySeq
    <2> QED
      BY <2>1, HearingLimits DEF Heard, Incoming!Init
  <1>2. Talk
    BY DEF Talk, Incoming!Init
  <1>3. Tried
    BY HearingLimits DEF Tried, Incoming!Init
  <1>4. registered \in BOOLEAN
    BY DEF Incoming!Init
  <1> QED
    BY <1>1, <1>2, <1>3, <1>4 DEF IncomingInv

\* The end of a sequence after some of its elements, and the first of them.
LEMMA Pieces ==
  ASSUME NEW S, NEW s \in Seq(S), NEW i \in 0 .. Len(s)
  PROVE  /\ SubSeq(s, i + 1, Len(s)) \in Seq(S) /\ Len(SubSeq(s, i + 1, Len(s))) = Len(s) - i
         /\ SubSeq(s, 1, i) \in Seq(S) /\ Len(SubSeq(s, 1, i)) = i
  <1>1. Len(s) \in Nat
    BY LenProperties
  <1> DEFINE n == Len(s)
             j == i + 1
  <1>2. j \in 1 .. n + 1 /\ n \in 0 .. n /\ i \in 0 .. n /\ 1 \in 1 .. n + 1
    BY <1>1
  <1> HIDE DEF j
  <1>3. SubSeq(s, j, n) \in Seq(S) /\ Len(SubSeq(s, j, n)) = IF j <= n THEN n - j + 1 ELSE 0
    BY <1>2, SubSeqProperties
  <1>4. SubSeq(s, 1, i) \in Seq(S) /\ Len(SubSeq(s, 1, i)) = IF 1 <= i THEN i - 1 + 1 ELSE 0
    BY <1>2, SubSeqProperties
  <1> QED
    BY <1>1, <1>2, <1>3, <1>4 DEF j

\* A message is made of tokens.
LEMMA MessageTokens ==
  ASSUME NEW kind \in Incoming!Kinds
  PROVE  Incoming!Message(kind) \in Seq(Tokens)
  <1>1. kind \in Tokens /\ Incoming!Flag \in Tokens /\ "end" \in Tokens /\ "text" \in Tokens
    BY DEF Incoming!Kinds, Incoming!Answers, Incoming!Flag, Tokens
  <1>2. << Incoming!Flag, kind, "end", Incoming!Flag >> \in Seq(Tokens)
    BY <1>1
  <1>3. << kind, IF kind = "request" THEN "text" ELSE "end" >> \in Seq(Tokens)
    BY <1>1
  <1> QED
    BY <1>2, <1>3 DEF Incoming!Message

\* The least number of a set.
LEMMA SmallestOf ==
  ASSUME NEW T, T \subseteq Nat, T # {}
  PROVE  Incoming!Min(T) \in T
  <1>1. PICK x \in T : \A y \in T : ~(y < x)
    BY LeastOf
  <1>2. \A y \in T : x <= y
    BY <1>1
  <1> QED
    BY <1>2 DEF Incoming!Min

\* The handler leaves the queue, what is left of it, or nothing.
LEMMA QueueShrinks ==
  ASSUME IncomingInv, Incoming!Receive
  PROVE  \/ tokens' = tokens \/ tokens' = << >>
         \/ \E i \in 0 .. Len(tokens) : tokens' = SubSeq(tokens, i + 1, Len(tokens))
  <1> DEFINE n == Len(tokens)
  <1>0. /\ \A kind, rest : Incoming!Acts(kind, rest) => tokens' = rest
        /\ \A rest, what : Incoming!Skips(rest, what) => tokens' = rest
        /\ Incoming!Waits => tokens' = tokens \/ tokens' = << >>
        /\ Incoming!Stays => tokens' = tokens
    BY DEF Incoming!Acts, Incoming!Skips, Incoming!Waits, Incoming!Stays, Incoming!net,
           Incoming!Dropped, Incoming!Emptied
  <1>1. n \in Nat
    BY LenProperties DEF IncomingInv, Heard
  <1>2. CASE Incoming!JtReceive
    <2> DEFINE E == Incoming!Ends
    <2>1. E # {} => Incoming!Min(E) \in 2 .. n
      <3>1. E \subseteq Nat /\ E \subseteq 2 .. n
        BY <1>1 DEF Incoming!Ends
      <3> HIDE DEF E
      <3> QED
        BY <3>1, SmallestOf
    <2>2. \/ tokens' = tokens
          \/ E = {} /\ tokens' = << >>
          \/ E # {} /\ tokens' = Incoming!After(Incoming!Min(E) - 1)
          \/ E # {} /\ Incoming!Min(E) = 4 /\ tokens' = Incoming!After(4)
          \/ E # {} /\ tokens' = Incoming!After(Incoming!Min(E))
      <3>1. Incoming!Stays \/ Incoming!Realigns \/ (E # {} /\ Incoming!TakesFrame)
        BY <1>2 DEF Incoming!JtReceive
      <3>2. CASE Incoming!Stays
        BY <1>0, <3>2
      <3>3. CASE Incoming!Realigns
        <4>1. tokens' = IF E = {} THEN << >> ELSE Incoming!After(Incoming!Min(E) - 1)
          BY <3>3 DEF Incoming!Realigns, Incoming!Skips
        <4> HIDE DEF E
        <4> QED
          BY <4>1
      <3>4. CASE E # {} /\ Incoming!TakesFrame
        <4>1. CASE Incoming!Min(E) = 4 /\ tokens[2] \in Incoming!Kinds
          BY <3>4, <4>1 DEF Incoming!TakesFrame, Incoming!Acts
        <4>2. CASE ~(Incoming!Min(E) = 4 /\ tokens[2] \in Incoming!Kinds)
          BY <3>4, <4>2 DEF Incoming!TakesFrame, Incoming!Skips
        <4> QED
          BY <4>1, <4>2
      <3> QED
        BY <3>1, <3>2, <3>3, <3>4
    <2>3. ASSUME E # {} PROVE Incoming!Min(E) - 1 \in 0 .. n /\ Incoming!Min(E) \in 0 .. n
      <3> HIDE DEF E
      <3> QED
        BY <1>1, <2>1, <2>3
    <2> HIDE DEF E
    <2> QED
      BY <2>2, <2>3 DEF Incoming!After
  <1>3. CASE Incoming!GoomeReceive
    <2>1. \/ tokens' = tokens \/ tokens' = << >>
          \/ ~(n < 2) /\ tokens' = Incoming!After(2)
          \/ \E k \in 1 .. 2 : k <= n /\ tokens' = Incoming!After(k)
      BY <1>0, <1>3 DEF Incoming!GoomeReceive
    <2> QED
      BY <1>1, <2>1 DEF Incoming!After
  <1>4. CASE Incoming!ConcoxReceive
    <2>1. \/ tokens' = tokens \/ tokens' = << >>
          \/ ~(n < 2) /\ tokens' = Incoming!After(2)
      BY <1>0, <1>4 DEF Incoming!ConcoxReceive
    <2> QED
      BY <1>1, <2>1 DEF Incoming!After
  <1> QED
    BY <1>2, <1>3, <1>4 DEF Incoming!Receive

\* What the platform answers is a message, and a refusal is counted.
LEMMA AsksFor ==
  ASSUME NEW known, NEW before \in Seq(Tokens), Incoming!Asks(known, before), Tried
  PROVE  wire' \in Seq(Tokens) /\ bad' \in 0 .. MaxBad
  <1>1. PICK a \in Incoming!Kinds :
            /\ a = "refused" => bad < MaxBad
            /\ bad' = IF a = "refused" THEN bad + 1 ELSE bad
            /\ wire' = before \o Incoming!Message(a)
    BY DEF Incoming!Asks, Incoming!Kinds, Incoming!Answers
  <1>2. wire' \in Seq(Tokens)
    <2>1. Incoming!Message(a) \in Seq(Tokens)
      BY MessageTokens
    <2> QED
      BY <1>1, <2>1, ConcatProperties
  <1>3. bad' \in 0 .. MaxBad
    BY <1>1, HearingLimits DEF Tried
  <1> QED
    BY <1>2, <1>3

\* What the handler does to the rest.
LEMMA HandlerKeeps ==
  ASSUME IncomingInv, Incoming!Receive
  PROVE  /\ wire' \in Seq(Tokens) /\ bad' \in 0 .. MaxBad
         /\ lost' \in 0 .. Patience /\ registered' \in BOOLEAN
         /\ link' \in {"finish", "login", "work"} /\ partial' \in {"none", "fresh", "old"}
         /\ handed' \in {"none", "skip", "whole", "torn", "empty"}
  <1>1. Heard /\ Talk /\ Tried /\ registered \in BOOLEAN
    BY DEF IncomingInv
  <1> DEFINE Kept ==
         /\ wire' \in Seq(Tokens) /\ bad' \in 0 .. MaxBad
         /\ lost' \in 0 .. Patience /\ registered' \in BOOLEAN
         /\ link' \in {"finish", "login", "work"} /\ partial' \in {"none", "fresh", "old"}
         /\ handed' \in {"none", "skip", "whole", "torn", "empty"}
  <1>2. ASSUME NEW kind, NEW rest, Incoming!Acts(kind, rest) PROVE Kept
    <2>1. handed' = "whole" /\ partial' = partial
      BY <1>2 DEF Incoming!Acts
    <2>2. CASE kind = "accepted" /\ link = "login"
      <3>1. link' = "work" /\ lost' = 0 /\ UNCHANGED << registered, wire, bad >>
        BY <1>2, <2>2 DEF Incoming!Acts
      <3> QED
        BY <1>1, <2>1, <3>1, HearingLimits DEF Heard, Talk, Tried
    <2>3. CASE kind = "registered"
      <3>1. /\ registered' = TRUE /\ UNCHANGED << link, lost >>
            /\ IF link = "login" THEN Incoming!Asks(TRUE, wire) ELSE UNCHANGED << wire, bad >>
        BY <1>2, <2>3 DEF Incoming!Acts
      <3>2. wire' \in Seq(Tokens) /\ bad' \in 0 .. MaxBad
        BY <1>1, <3>1, AsksFor DEF Heard, Tried
      <3> QED
        BY <1>1, <2>1, <3>1, <3>2 DEF Talk, Tried
    <2>4. CASE kind = "refused"
      <3>1. registered' = FALSE /\ UNCHANGED << link, lost, wire, bad >>
        BY <1>2, <2>4 DEF Incoming!Acts
      <3> QED
        BY <1>1, <2>1, <3>1 DEF Heard, Talk, Tried
    <2>5. CASE kind \notin {"registered", "refused"} /\ ~(kind = "accepted" /\ link = "login")
      <3>1. UNCHANGED << link, registered, lost, wire, bad >>
        BY <1>2, <2>5 DEF Incoming!Acts
      <3> QED
        BY <1>1, <2>1, <3>1 DEF Heard, Talk, Tried
    <2> QED
      BY <2>2, <2>3, <2>4, <2>5
  <1>3. ASSUME NEW rest, NEW what \in {"skip", "torn", "empty"}, Incoming!Skips(rest, what)
        PROVE  Kept
    BY <1>1, <1>3 DEF Incoming!Skips, Heard, Talk, Tried
  <1>4. CASE Incoming!Waits
    <2>1. << >> \in Seq(Tokens)
      BY EmptySeq
    <2>2. UNCHANGED << registered, lost, bad, handed >>
      BY <1>4 DEF Incoming!Waits
    <2>3. /\ wire' = << >> \/ wire' = wire
          /\ link' = "finish" \/ link' = link
          /\ partial' \in {"none", "fresh"} \/ partial' = partial
      BY <1>4 DEF Incoming!Waits, Incoming!Dropped, Incoming!Closed
    <2> QED
      BY <1>1, <2>1, <2>2, <2>3 DEF Heard, Talk, Tried
  <1>5. CASE Incoming!Stays
    BY <1>1, <1>5 DEF Incoming!Stays, Incoming!net, Heard, Talk, Tried
  <1>6. CASE Incoming!JtReceive
    <2>1. Incoming!Stays \/ Incoming!Realigns \/ Incoming!TakesFrame
      BY <1>6 DEF Incoming!JtReceive
    <2>2. CASE Incoming!Realigns
      BY <1>3, <2>2 DEF Incoming!Realigns
    <2>3. CASE Incoming!TakesFrame
      <3> DEFINE end == Incoming!Min(Incoming!Ends)
      <3>1. CASE end = 4 /\ tokens[2] \in Incoming!Kinds
        BY <1>2, <2>3, <3>1 DEF Incoming!TakesFrame
      <3>2. CASE ~(end = 4 /\ tokens[2] \in Incoming!Kinds)
        <4>1. Incoming!Skips(Incoming!After(end), IF end = 2 THEN "empty" ELSE "torn")
          BY <2>3, <3>2 DEF Incoming!TakesFrame
        <4> DEFINE what == IF end = 2 THEN "empty" ELSE "torn"
        <4>2. what \in {"skip", "torn", "empty"}
          OBVIOUS
        <4> HIDE DEF end
        <4> QED
          BY <1>3, <4>1, <4>2
      <3> QED
        BY <3>1, <3>2
    <2> QED
      BY <1>5, <2>1, <2>2, <2>3
  <1>7. CASE Incoming!GoomeReceive
    <2>1. \/ Incoming!Stays \/ Incoming!Waits \/ Incoming!Acts(tokens[1], Incoming!After(2))
          \/ \E k \in 1 .. 2 : Incoming!Skips(Incoming!After(k), "torn")
      BY <1>7 DEF Incoming!GoomeReceive
    <2> QED
      BY <1>2, <1>3, <1>4, <1>5, <2>1
  <1>8. CASE Incoming!ConcoxReceive
    <2>1. \/ Incoming!Stays \/ Incoming!Waits \/ Incoming!Acts(tokens[1], Incoming!After(2))
      BY <1>8 DEF Incoming!ConcoxReceive
    <2> QED
      BY <1>2, <1>4, <1>5, <2>1
  <1>9. Kept
    BY <1>6, <1>7, <1>8 DEF Incoming!Receive
  <1> QED
    BY <1>9 DEF Kept

\* Every step keeps it, whatever bytes come.
LEMMA IncomingGoesOn ==
  ASSUME IncomingInv, Incoming!Next
  PROVE  IncomingInv'
  <1>0. Heard /\ Talk /\ Tried /\ registered \in BOOLEAN
    BY DEF IncomingInv
  <1>1. << >> \in Seq(Tokens) /\ Len(<< >>) = 0
    BY EmptySeq
  <1>2. CASE Incoming!Connect
    <2>1. /\ lost < Patience /\ link' = "login" /\ lost' = lost + 1 /\ handed' = "none"
          /\ Incoming!Asks(registered, << >>)
          /\ UNCHANGED << proto, registered, tokens, partial, spoken >>
      BY <1>2 DEF Incoming!Connect
    <2>2. wire' \in Seq(Tokens) /\ bad' \in 0 .. MaxBad
      BY <1>0, <1>1, <2>1, AsksFor
    <2>3. Heard'
      BY <1>0, <2>1, <2>2 DEF Heard
    <2>4. Talk' /\ registered' \in BOOLEAN
      BY <1>0, <2>1 DEF Talk
    <2>5. Tried'
      BY <1>0, <2>1, <2>2, HearingLimits DEF Tried
    <2> QED
      BY <2>3, <2>4, <2>5 DEF IncomingInv
  <1>3. CASE Incoming!Reboot
    <2>1. /\ lost' = 0 /\ tokens' = << >> /\ partial' = "none" /\ handed' = "none"
          /\ UNCHANGED << proto, link, registered, wire, bad, spoken >>
      BY <1>3 DEF Incoming!Reboot
    <2>2. Heard'
      BY <1>0, <1>1, <2>1, HearingLimits DEF Heard
    <2>3. Talk' /\ registered' \in BOOLEAN
      BY <1>0, <2>1 DEF Talk
    <2>4. Tried'
      BY <1>0, <2>1, HearingLimits DEF Tried
    <2> QED
      BY <2>2, <2>3, <2>4 DEF IncomingInv
  <1>4. CASE Incoming!Deliver
    <2>1. PICK n \in 1 .. Len(wire) :
            IF Len(tokens) + n > FifoMax THEN Incoming!Dropped
            ELSE /\ tokens' = tokens \o SubSeq(wire, 1, n)
                 /\ wire' = SubSeq(wire, n + 1, Len(wire)) /\ UNCHANGED link
      BY <1>4 DEF Incoming!Deliver
    <2>2. UNCHANGED << proto, registered, partial, lost, handed, bad, spoken >>
      BY <1>4 DEF Incoming!Deliver
    <2>3. /\ SubSeq(wire, 1, n) \in Seq(Tokens) /\ Len(SubSeq(wire, 1, n)) = n
          /\ SubSeq(wire, n + 1, Len(wire)) \in Seq(Tokens)
          /\ n \in Nat /\ Len(tokens) \in Nat
      <3>1. n \in 0 .. Len(wire) /\ n \in Nat /\ Len(tokens) \in Nat
        BY <1>0, LenProperties DEF Heard
      <3> QED
        BY <1>0, <3>1, Pieces DEF Heard
    <2>4. Heard' /\ link' \in {"finish", "login", "work"}
      <3>1. CASE Len(tokens) + n > FifoMax
        <4>1. tokens' = << >> /\ wire' = << >> /\ link' = "finish"
          BY <2>1, <3>1 DEF Incoming!Dropped, Incoming!Closed, Incoming!Emptied
        <4> QED
          BY <1>1, <4>1, HearingLimits DEF Heard
      <3>2. CASE ~(Len(tokens) + n > FifoMax)
        <4>1. /\ tokens' = tokens \o SubSeq(wire, 1, n)
              /\ wire' = SubSeq(wire, n + 1, Len(wire)) /\ link' = link
          BY <2>1, <3>2
        <4>2. tokens' \in Seq(Tokens) /\ Len(tokens') = Len(tokens) + n
          BY <1>0, <2>3, <4>1, ConcatProperties DEF Heard
        <4>3. Len(tokens') <= FifoMax
          BY <2>3, <3>2, <4>2, HearingLimits
        <4> QED
          BY <1>0, <2>3, <4>1, <4>2, <4>3 DEF Heard, Talk
      <3> QED
        BY <3>1, <3>2
    <2> QED
      BY <1>0, <2>2, <2>4 DEF IncomingInv, Talk, Tried
  <1>5. CASE Incoming!Break
    <2>1. /\ bad < MaxBad /\ bad' = bad + 1 /\ link' = "finish" /\ wire' = << >>
          /\ UNCHANGED << proto, registered, tokens, partial, lost, handed, spoken >>
      BY <1>5 DEF Incoming!Break, Incoming!Closed
    <2>2. Heard'
      BY <1>0, <1>1, <2>1 DEF Heard
    <2>3. Talk' /\ registered' \in BOOLEAN
      BY <1>0, <2>1 DEF Talk
    <2>4. Tried'
      BY <1>0, <2>1, HearingLimits DEF Tried
    <2> QED
      BY <2>2, <2>3, <2>4 DEF IncomingInv
  <1>6. CASE Incoming!ServerSpeaks
    <2>1. /\ wire' = wire \o Incoming!Message("request")
          /\ UNCHANGED << proto, link, registered, tokens, partial, lost, handed, bad >>
      BY <1>6 DEF Incoming!ServerSpeaks
    <2>2. Incoming!Message("request") \in Seq(Tokens)
      BY MessageTokens DEF Incoming!Kinds
    <2>3. Heard'
      BY <1>0, <2>1, <2>2, ConcatProperties DEF Heard
    <2>4. Talk' /\ registered' \in BOOLEAN /\ Tried'
      BY <1>0, <2>1 DEF Talk, Tried
    <2> QED
      BY <2>3, <2>4 DEF IncomingInv
  <1>7. CASE Incoming!Age
    <2>1. /\ partial' = "old"
          /\ bad' = bad \/ (bad < MaxBad /\ bad' = bad + 1)
          /\ UNCHANGED << proto, link, registered, tokens, wire, lost, handed, spoken >>
      BY <1>7 DEF Incoming!Age
    <2>2. Heard' /\ Talk' /\ registered' \in BOOLEAN
      BY <1>0, <2>1 DEF Heard, Talk
    <2>3. Tried'
      BY <1>0, <2>1, HearingLimits DEF Tried
    <2> QED
      BY <2>2, <2>3 DEF IncomingInv
  <1>8. CASE Incoming!Tick
    <2>1. Incoming!Receive /\ UNCHANGED << proto, spoken >>
      BY <1>8 DEF Incoming!Tick
    <2>2. \/ tokens' = tokens \/ tokens' = << >>
          \/ \E i \in 0 .. Len(tokens) : tokens' = SubSeq(tokens, i + 1, Len(tokens))
      BY <2>1, QueueShrinks
    <2>3. tokens' \in Seq(Tokens) /\ Len(tokens') <= FifoMax
      <3>1. CASE tokens' = tokens \/ tokens' = << >>
        <4>1. Len(tokens') <= FifoMax
          BY <1>0, <1>1, <3>1, HearingLimits DEF Heard
        <4>2. tokens' \in Seq(Tokens)
          BY <1>0, <1>1, <3>1 DEF Heard
        <4> QED
          BY <4>1, <4>2
      <3>2. ASSUME NEW i \in 0 .. Len(tokens), tokens' = SubSeq(tokens, i + 1, Len(tokens))
            PROVE  tokens' \in Seq(Tokens) /\ Len(tokens') <= FifoMax
        <4>1. tokens' \in Seq(Tokens) /\ Len(tokens') = Len(tokens) - i /\ Len(tokens) \in Nat
          BY <1>0, <3>2, Pieces, LenProperties DEF Heard
        <4> QED
          BY <1>0, <4>1, HearingLimits DEF Heard
      <3> QED
        BY <2>2, <3>1, <3>2
    <2> QED
      BY <1>0, <2>1, <2>3, HandlerKeeps DEF IncomingInv, Heard, Talk, Tried
  <1>9. CASE Incoming!LoginTimeout
    <2>1. /\ link' = "finish" /\ wire' = << >>
          /\ bad' = bad \/ (bad < MaxBad /\ bad' = bad + 1)
          /\ UNCHANGED << proto, registered, tokens, partial, lost, handed, spoken >>
      BY <1>9 DEF Incoming!LoginTimeout, Incoming!Closed
    <2>2. Heard'
      BY <1>0, <1>1, <2>1 DEF Heard
    <2>3. Talk' /\ registered' \in BOOLEAN
      BY <1>0, <2>1 DEF Talk
    <2>4. Tried'
      BY <1>0, <2>1, HearingLimits DEF Tried
    <2> QED
      BY <2>2, <2>3, <2>4 DEF IncomingInv
  <1> QED
    BY <1>2, <1>3, <1>4, <1>5, <1>6, <1>7, <1>8, <1>9 DEF Incoming!Next

-------------------------------------------------------------------------------
(* The configuration: ConfigFetch.                                           *)

\* The assumptions this part needs.
LEMMA FetchLimits ==
  /\ MaxRepeat \in Nat \ {0} /\ AnswerMax \in Nat /\ MaxVersion \in Nat \ {0}
  /\ MaxFault \in Nat /\ MaxBoot \in Nat
  BY ServerAssumption DEF ServerAssumption

Stages == {"init", "connecting", "work", "finish"}
Service == [status : Stages, fails : 0 .. MaxRepeat, open : BOOLEAN,
            fifo : Seq(Fetching!Versions), old : Nat, answered : BOOLEAN]

\* The operators on the record of the service.
LEMMA MovedIs ==
  ASSUME NEW r \in Service, NEW to \in Stages
  PROVE  /\ Fetching!Moved(r, to) \in Service
         /\ Fetching!Moved(r, to).status = to /\ Fetching!Moved(r, to).fails = 0
         /\ Fetching!Moved(r, to).open = r.open /\ Fetching!Moved(r, to).fifo = r.fifo
         /\ Fetching!Moved(r, to).old = r.old /\ Fetching!Moved(r, to).answered = r.answered
  <1> DEFINE F == 0 .. MaxRepeat
  <1>1. 0 \in F
    BY FetchLimits
  <1> HIDE DEF F
  <1>2. r \in [status : Stages, fails : F, open : BOOLEAN, fifo : Seq(Fetching!Versions), old : Nat,
              answered : BOOLEAN]
    BY DEF Service, F
  <1>3. Fetching!Moved(r, to) = [r EXCEPT !.status = to, !.fails = 0]
    BY DEF Fetching!Moved
  <1>4. Fetching!Moved(r, to) \in
          [status : Stages, fails : F, open : BOOLEAN, fifo : Seq(Fetching!Versions), old : Nat,
           answered : BOOLEAN]
    BY <1>1, <1>2, <1>3
  <1>5. Fetching!Moved(r, to) \in Service
    BY <1>4 DEF Service, F
  <1> QED
    BY <1>2, <1>3, <1>5

\* A closed connection has only old messages.
LEMMA ClosedIs ==
  ASSUME NEW r \in Service
  PROVE  /\ Fetching!Closed(r) \in Service
         /\ Fetching!Closed(r).status = r.status /\ Fetching!Closed(r).fails = r.fails
         /\ Fetching!Closed(r).open = FALSE /\ Fetching!Closed(r).fifo = r.fifo
         /\ Fetching!Closed(r).old = Len(r.fifo) /\ Fetching!Closed(r).answered = r.answered
  BY FetchLimits, LenProperties DEF Service, Fetching!Closed

\* So has one that has ended.
LEMMA FinishedIs ==
  ASSUME NEW r \in Service
  PROVE  /\ Fetching!Finished(r) \in Service
         /\ Fetching!Finished(r).status = "finish" /\ Fetching!Finished(r).fails = 0
         /\ Fetching!Finished(r).open = FALSE /\ Fetching!Finished(r).fifo = r.fifo
         /\ Fetching!Finished(r).old = Len(r.fifo) /\ Fetching!Finished(r).answered = r.answered
  <1>1. "finish" \in Stages
    BY DEF Stages
  <1> DEFINE c == Fetching!Closed(r)
  <1>2. /\ c \in Service /\ c.open = FALSE /\ c.fifo = r.fifo /\ c.old = Len(r.fifo)
        /\ c.answered = r.answered
    BY ClosedIs
  <1> HIDE DEF c
  <1> DEFINE m == Fetching!Moved(c, "finish")
  <1>3. /\ m \in Service /\ m.status = "finish" /\ m.fails = 0 /\ m.open = c.open
        /\ m.fifo = c.fifo /\ m.old = c.old /\ m.answered = c.answered
    BY <1>1, <1>2, MovedIs
  <1>4. Fetching!Finished(r) = m
    BY DEF Fetching!Finished, c
  <1> HIDE DEF m
  <1> QED
    BY <1>2, <1>3, <1>4

\* So has one that will be made again.
LEMMA ReconnectedIs ==
  ASSUME NEW r \in Service
  PROVE  /\ Fetching!Reconnected(r) \in Service
         /\ Fetching!Reconnected(r).status = "init" /\ Fetching!Reconnected(r).fails = 0
         /\ Fetching!Reconnected(r).open = FALSE /\ Fetching!Reconnected(r).fifo = r.fifo
         /\ Fetching!Reconnected(r).old = Len(r.fifo)
         /\ Fetching!Reconnected(r).answered = r.answered
  <1>1. "init" \in Stages
    BY DEF Stages
  <1> DEFINE c == Fetching!Closed(r)
  <1>2. /\ c \in Service /\ c.open = FALSE /\ c.fifo = r.fifo /\ c.old = Len(r.fifo)
        /\ c.answered = r.answered
    BY ClosedIs
  <1> HIDE DEF c
  <1> DEFINE m == Fetching!Moved(c, "init")
  <1>3. /\ m \in Service /\ m.status = "init" /\ m.fails = 0 /\ m.open = c.open
        /\ m.fifo = c.fifo /\ m.old = c.old /\ m.answered = c.answered
    BY <1>1, <1>2, MovedIs
  <1>4. Fetching!Reconnected(r) = m
    BY DEF Fetching!Reconnected, c
  <1> HIDE DEF m
  <1> QED
    BY <1>2, <1>3, <1>4

\* The state of the service: a closed connection has left nothing that is not old, and an
\* open one has asked at most once for each of its failures and once before.
Serving ==
  /\ config \in Service /\ config.fails < MaxRepeat
  /\ config.open = (config.status = "work")
  /\ Len(config.fifo) <= AnswerMax /\ config.old <= Len(config.fifo)
  /\ ~config.open => config.old = Len(config.fifo)
Asked ==
  /\ requests \in Nat /\ requests <= (IF config.open THEN config.fails + 1 ELSE 0)
  /\ theirs \in 1 .. MaxVersion /\ mine \in 1 .. MaxVersion /\ since \in 0 .. theirs
Bounds == older \in BOOLEAN /\ faults \in 0 .. MaxFault /\ restarts \in 0 .. MaxBoot
\* What is on its way or came on this connection is not older than the connection.
NotOlder ==
  /\ answers \subseteq (1 .. MaxVersion) \cap (since .. theirs)
  /\ ~config.open => answers = {}
  /\ config.open => /\ ~config.answered
                    /\ \A i \in config.old + 1 .. Len(config.fifo) :
                         config.fifo[i] = 0 \/ config.fifo[i] >= since
FetchInv ==
  /\ Serving /\ Asked /\ Bounds /\ NotOlder
  /\ config.answered /\ ~older => mine >= since

\* What the invariant says of the variables, and that what was confirmed is current.
LEMMA FetchTypes == FetchInv => Fetching!TypeOK /\ Fetching!Current
  <1> SUFFICES ASSUME FetchInv PROVE Fetching!TypeOK /\ Fetching!Current
    OBVIOUS
  <1>1. /\ config.status \in Stages /\ config.fails \in 0 .. MaxRepeat
        /\ config.answered \in BOOLEAN /\ config.fifo \in Seq(Fetching!Versions)
        /\ config.old \in Nat /\ (config.open = (config.status = "work"))
        /\ Len(config.fifo) <= AnswerMax /\ config.old <= Len(config.fifo)
    BY DEF FetchInv, Serving, Service
  <1>3. /\ Len(config.fifo) \in 0 .. AnswerMax /\ config.old \in 0 .. Len(config.fifo)
        /\ Len(config.fifo) \in Nat
    BY <1>1, FetchLimits, LenProperties
  <1>4. config.fifo \in UNION {[1 .. n -> Fetching!Versions] : n \in 0 .. AnswerMax}
    <2>1. config.fifo \in [1 .. Len(config.fifo) -> Fetching!Versions]
      BY <1>1, LenProperties
    <2> QED
      BY <1>3, <2>1
  <1>5. /\ requests \in 0 .. MaxRepeat /\ answers \subseteq 1 .. MaxVersion
        /\ {theirs, mine} \subseteq 1 .. MaxVersion /\ since \in Fetching!Versions
    <2>1. answers \subseteq 1 .. MaxVersion /\ {theirs, mine} \subseteq 1 .. MaxVersion
      BY DEF FetchInv, Asked, NotOlder
    <2>2. since \in Fetching!Versions
      BY FetchLimits DEF FetchInv, Asked, Fetching!Versions
    <2>3. config.fails \in Nat /\ config.fails < MaxRepeat
      BY <1>1, FetchLimits DEF FetchInv, Serving
    <2>4. requests \in Nat /\ (requests <= config.fails + 1 \/ requests <= 0)
      BY DEF FetchInv, Asked
    <2>5. requests \in 0 .. MaxRepeat
      BY <2>3, <2>4, FetchLimits
    <2> QED
      BY <2>1, <2>2, <2>5
  <1>6. Fetching!Current
    BY DEF FetchInv, Fetching!Current
  <1>7. Fetching!TypeOK
    BY <1>1, <1>3, <1>4, <1>5 DEF FetchInv, Bounds, Stages, Fetching!TypeOK
  <1> QED
    BY <1>6, <1>7

\* It holds when the device starts.
LEMMA FetchBegins == Fetching!Init => FetchInv
  <1> SUFFICES ASSUME Fetching!Init PROVE FetchInv
    OBVIOUS
  <1>1. << >> \in Seq(Fetching!Versions) /\ Len(<< >>) = 0
    BY EmptySeq
  <1>2. /\ config.status = "init" /\ config.fails = 0 /\ config.open = FALSE /\ config.fifo = << >>
        /\ config.old = 0 /\ config.answered = FALSE
    BY DEF Fetching!Init, Fetching!Idle
  <1>3. config \in Service
    <2>1. 0 \in 0 .. MaxRepeat /\ "init" \in Stages
      BY FetchLimits DEF Stages
    <2> QED
      BY <1>1, <2>1 DEF Fetching!Init, Fetching!Idle, Service
  <1>4. Serving
    <2>1. Len(config.fifo) <= AnswerMax /\ config.old = Len(config.fifo)
      BY <1>1, <1>2, FetchLimits
    <2>2. config.old <= Len(config.fifo)
      BY <1>1, <1>2, <2>1
    <2>3. config.fails < MaxRepeat
      BY <1>2, FetchLimits
    <2> QED
      BY <1>2, <1>3, <2>1, <2>2, <2>3 DEF Serving
  <1>5. Asked
    BY <1>2, FetchLimits DEF Asked, Fetching!Init
  <1>6. Bounds
    <2>1. faults \in 0 .. MaxFault /\ restarts \in 0 .. MaxBoot
      BY FetchLimits DEF Fetching!Init
    <2> QED
      BY <2>1 DEF Bounds, Fetching!Init
  <1>7. NotOlder
    BY <1>2 DEF NotOlder, Fetching!Init
  <1> QED
    BY <1>2, <1>4, <1>5, <1>6, <1>7 DEF FetchInv

\* A step that ends with the connection closed keeps what is promised, as nothing is left
\* of it but what it received.
LEMMA GoesAway ==
  ASSUME FetchInv,
         config' \in Service, config'.fails < MaxRepeat, config'.status # "work", ~config'.open,
         config'.old = Len(config'.fifo), Len(config'.fifo) <= AnswerMax,
         requests' = 0, answers' = {}, UNCHANGED << theirs, since >>,
         mine' \in 1 .. MaxVersion, Bounds',
         config'.answered /\ ~older' => mine' >= since
  PROVE  FetchInv'
  <1>1. Serving'
    <2>1. Len(config'.fifo) \in Nat
      BY LenProperties DEF Service
    <2>2. config'.open = (config'.status = "work")
      BY DEF Service
    <2>3. config'.old <= Len(config'.fifo)
      BY <2>1
    <2> QED
      BY <2>2, <2>3 DEF Serving
  <1>2. Asked'
    BY DEF FetchInv, Asked
  <1>3. NotOlder'
    BY DEF NotOlder
  <1> QED
    BY <1>1, <1>2, <1>3 DEF FetchInv

\* A connection that opens begins with nothing on its way that belongs to it.
LEMMA Opens ==
  ASSUME FetchInv, ~config.open,
         config' \in Service, config'.status = "work", config'.open, config'.fails = 0,
         config'.fifo = config.fifo, config'.old = config.old, ~config'.answered,
         requests' = requests + 1, answers' = answers, since' = theirs,
         UNCHANGED << theirs, mine >>, Bounds'
  PROVE  FetchInv'
  <1>1. Serving'
    <2>1. config'.open = (config'.status = "work")
      BY DEF Service
    <2>2. config'.fails < MaxRepeat
      BY FetchLimits
    <2> QED
      BY <2>1, <2>2 DEF Serving, FetchInv
  <1>2. Asked'
    <2>1. requests = 0
      BY DEF FetchInv, Asked
    <2> QED
      BY <2>1, FetchLimits DEF FetchInv, Asked
  <1>3. NotOlder'
    <2>1. answers' = {}
      BY DEF FetchInv, NotOlder
    <2>2. config'.old = Len(config'.fifo) /\ Len(config'.fifo) \in Nat
      BY LenProperties DEF FetchInv, Serving, Service
    <2>3. config'.old + 1 .. Len(config'.fifo) = {}
      BY <2>2
    <2> QED
      BY <2>1, <2>3 DEF NotOlder
  <1> QED
    BY <1>1, <1>2, <1>3 DEF FetchInv

\* What an attempt to connect comes to: nothing, a connection that asked, or the end.
LEMMA ConnectsTo ==
  ASSUME NEW r \in Service, NEW step \in Fetching!Connects(r)
  PROVE  \/ step.s = r /\ step.sent = 0
         \/ /\ step.s \in Service /\ step.s.status = "work" /\ step.s.open /\ step.s.fails = 0
            /\ step.s.fifo = r.fifo /\ step.s.old = r.old /\ ~step.s.answered /\ step.sent = 1
         \/ /\ step.s \in Service /\ step.s.status = "finish" /\ ~step.s.open /\ step.s.fails = 0
            /\ step.s.fifo = r.fifo /\ step.s.old = Len(r.fifo) /\ ~step.s.answered
            /\ step.sent = 0
  <1> DEFINE m == Fetching!Moved(r, "work")
             q == [m EXCEPT !.open = TRUE, !.answered = FALSE]
  <1>1. /\ m \in Service /\ m.status = "work" /\ m.fails = 0 /\ m.fifo = r.fifo /\ m.old = r.old
    <2>1. "work" \in Stages
      BY DEF Stages
    <2> HIDE DEF m
    <2> QED
      BY <2>1, MovedIs DEF m
  <1> HIDE DEF m
  <1>2. /\ q \in Service /\ q.status = "work" /\ q.open = TRUE /\ q.answered = FALSE
        /\ q.fails = 0 /\ q.fifo = r.fifo /\ q.old = r.old
    BY <1>1 DEF Service
  <1>3. step = [s |-> r, sent |-> 0] \/ step \in Fetching!Requests(q)
    BY DEF Fetching!Connects, m
  <1> HIDE DEF q
  <1>4. /\ Fetching!Finished(q) \in Service
        /\ Fetching!Finished(q).status = "finish" /\ Fetching!Finished(q).fails = 0
        /\ Fetching!Finished(q).open = FALSE /\ Fetching!Finished(q).fifo = q.fifo
        /\ Fetching!Finished(q).old = Len(q.fifo) /\ Fetching!Finished(q).answered = q.answered
    BY <1>2, FinishedIs
  <1>5. \/ step = [s |-> r, sent |-> 0] \/ step = [s |-> q, sent |-> 1]
        \/ step = [s |-> Fetching!Finished(q), sent |-> 0]
    BY <1>3 DEF Fetching!Requests
  <1> QED
    BY <1>2, <1>4, <1>5

\* A closed connection has nothing on its way.
LEMMA Shut ==
  ASSUME FetchInv, ~config.open
  PROVE  config.old = Len(config.fifo) /\ requests = 0 /\ answers = {}
  <1>1. requests \in Nat /\ requests <= 0
    BY DEF FetchInv, Asked
  <1>2. config.old = Len(config.fifo) /\ answers = {}
    BY DEF FetchInv, Serving, NotOlder
  <1> QED
    BY <1>1, <1>2

\* The service connects.
LEMMA InitGoesOn ==
  ASSUME FetchInv, Fetching!InitProc
  PROVE  FetchInv'
  <1>0. Serving /\ Asked /\ Bounds /\ NotOlder
    BY DEF FetchInv
  <1> DEFINE r == Fetching!Moved(config, "connecting")
  <1>1. ~config.open /\ config.old = Len(config.fifo) /\ requests = 0 /\ answers = {}
    <2>1. ~config.open
      BY <1>0 DEF Fetching!InitProc, Serving
    <2> QED
      BY <1>0, <2>1, Shut
  <1>2. PICK step \in Fetching!Connects(r) : Fetching!Exchange(step)
    BY DEF Fetching!InitProc
  <1>3. UNCHANGED << theirs, mine, older, faults, restarts >> /\ Bounds'
    BY <1>0 DEF Fetching!InitProc, Bounds
  <1>4. /\ r \in Service /\ r.status = "connecting" /\ r.fails = 0 /\ r.open = config.open
        /\ r.fifo = config.fifo /\ r.old = config.old /\ r.answered = config.answered
    BY <1>0, MovedIs DEF Serving, Stages
  <1> HIDE DEF r
  <1>5. /\ config' = step.s
        /\ requests' = IF step.s.open THEN requests + step.sent ELSE 0
        /\ answers' = IF step.s.open THEN answers ELSE {}
        /\ since' = IF step.s.open /\ ~config.open THEN theirs ELSE since
    BY <1>2 DEF Fetching!Exchange
  <1>6. CASE step.s = r /\ step.sent = 0
    <2>1. config' = r /\ requests' = 0 /\ answers' = {} /\ since' = since
      BY <1>1, <1>4, <1>5, <1>6
    <2>2. config'.answered /\ ~older' => mine' >= since
      BY <1>3, <1>4, <2>1 DEF FetchInv
    <2>3. 0 < MaxRepeat
      BY FetchLimits
    <2> QED
      BY <1>0, <1>1, <1>3, <1>4, <2>1, <2>2, <2>3, GoesAway DEF Serving, Asked
  <1>7. CASE /\ step.s \in Service /\ step.s.status = "work" /\ step.s.open /\ step.s.fails = 0
             /\ step.s.fifo = r.fifo /\ step.s.old = r.old /\ ~step.s.answered /\ step.sent = 1
    <2>1. requests' = requests + 1 /\ answers' = answers /\ since' = theirs
      BY <1>1, <1>5, <1>7
    <2> QED
      BY <1>0, <1>1, <1>3, <1>4, <1>5, <1>7, <2>1, Opens
  <1>8. CASE /\ step.s \in Service /\ step.s.status = "finish" /\ ~step.s.open /\ step.s.fails = 0
             /\ step.s.fifo = r.fifo /\ step.s.old = Len(r.fifo) /\ ~step.s.answered
             /\ step.sent = 0
    <2>1. requests' = 0 /\ answers' = {} /\ since' = since
      BY <1>5, <1>8
    <2>2. 0 < MaxRepeat
      BY FetchLimits
    <2> QED
      BY <1>0, <1>3, <1>4, <1>5, <1>8, <2>1, <2>2, GoesAway DEF Serving, Asked
  <1> QED
    BY <1>2, <1>4, <1>6, <1>7, <1>8, ConnectsTo

\* It connects again, or ends.
LEMMA ConnectingGoesOn ==
  ASSUME FetchInv, Fetching!ConnectingProc
  PROVE  FetchInv'
  <1>0. Serving /\ Asked /\ Bounds /\ NotOlder
    BY DEF FetchInv
  <1> DEFINE c == Fetching!Closed(config)
             r == [c EXCEPT !.fails = @ + 1]
  <1>1. ~config.open /\ config.old = Len(config.fifo) /\ requests = 0 /\ answers = {}
    <2>1. ~config.open
      BY <1>0 DEF Fetching!ConnectingProc, Serving
    <2> QED
      BY <2>1, Shut
  <1>2. UNCHANGED << theirs, mine, older, faults, restarts >> /\ Bounds'
    BY <1>0 DEF Fetching!ConnectingProc, Bounds
  <1>3. /\ c \in Service /\ c.status = "connecting" /\ c.fails = config.fails /\ c.open = FALSE
        /\ c.fifo = config.fifo /\ c.old = Len(config.fifo) /\ c.answered = config.answered
        /\ config.fails \in Nat /\ config.fails < MaxRepeat
    <2>1. config \in Service /\ config.status = "connecting" /\ config.fails < MaxRepeat
      BY <1>0 DEF Fetching!ConnectingProc, Serving
    <2>2. config.fails \in Nat
      BY <2>1 DEF Service
    <2> QED
      BY <2>1, <2>2, ClosedIs
  <1>4. IF r.fails >= MaxRepeat
        THEN \E to \in {Fetching!Finished(r), Fetching!Moved(r, "init")} :
               Fetching!Exchange([s |-> to, sent |-> 0])
        ELSE \E step \in Fetching!Connects(r) : Fetching!Exchange(step)
    BY DEF Fetching!ConnectingProc
  <1> HIDE DEF c
  <1>5. /\ r \in Service /\ r.status = "connecting" /\ r.fails = config.fails + 1 /\ r.open = FALSE
        /\ r.fifo = config.fifo /\ r.old = Len(config.fifo) /\ r.answered = config.answered
    <2>1. c.fails + 1 \in 0 .. MaxRepeat
      BY <1>3, FetchLimits
    <2> QED
      BY <1>3, <2>1 DEF Service
  <1> HIDE DEF r
  <1>6. 0 < MaxRepeat /\ (config.answered /\ ~older' => mine' >= since) /\ mine' \in 1 .. MaxVersion
    BY <1>0, <1>2, FetchLimits DEF FetchInv, Asked
  <1>7. CASE r.fails >= MaxRepeat
    <2>1. PICK to \in {Fetching!Finished(r), Fetching!Moved(r, "init")} :
               Fetching!Exchange([s |-> to, sent |-> 0])
      BY <1>4, <1>7
    <2>2. /\ to \in Service /\ to.status # "work" /\ to.fails = 0 /\ ~to.open
          /\ to.fifo = r.fifo /\ to.old = Len(r.fifo) /\ to.answered = r.answered
      <3>1. CASE to = Fetching!Finished(r)
        BY <1>5, <3>1, FinishedIs
      <3>2. CASE to = Fetching!Moved(r, "init")
        <4>1. "init" \in Stages
          BY DEF Stages
        <4>2. /\ to \in Service /\ to.status = "init" /\ to.fails = 0 /\ to.open = r.open
              /\ to.fifo = r.fifo /\ to.old = r.old /\ to.answered = r.answered
          BY <1>5, <3>2, <4>1, MovedIs
        <4> QED
          BY <1>5, <4>2
      <3> QED
        BY <2>1, <3>1, <3>2
    <2>3. config' = to /\ requests' = 0 /\ answers' = {} /\ since' = since
      BY <2>1, <2>2 DEF Fetching!Exchange
    <2> QED
      BY <1>0, <1>2, <1>5, <1>6, <2>2, <2>3, GoesAway DEF Serving
  <1>8. CASE ~(r.fails >= MaxRepeat)
    <2>1. PICK step \in Fetching!Connects(r) : Fetching!Exchange(step)
      BY <1>4, <1>8
    <2>2. /\ config' = step.s
          /\ requests' = IF step.s.open THEN requests + step.sent ELSE 0
          /\ answers' = IF step.s.open THEN answers ELSE {}
          /\ since' = IF step.s.open /\ ~config.open THEN theirs ELSE since
      BY <2>1 DEF Fetching!Exchange
    <2>3. CASE step.s = r /\ step.sent = 0
      <3>1. config' = r /\ requests' = 0 /\ answers' = {} /\ since' = since
        BY <1>5, <2>2, <2>3
      <3>2. r.fails < MaxRepeat
        BY <1>3, <1>5, <1>8, FetchLimits
      <3> QED
        BY <1>0, <1>2, <1>5, <1>6, <3>1, <3>2, GoesAway DEF Serving
    <2>4. CASE /\ step.s \in Service /\ step.s.status = "work" /\ step.s.open /\ step.s.fails = 0
               /\ step.s.fifo = r.fifo /\ step.s.old = r.old /\ ~step.s.answered /\ step.sent = 1
      <3>1. requests' = requests + 1 /\ answers' = answers /\ since' = theirs
        BY <1>1, <2>2, <2>4
      <3> QED
        BY <1>0, <1>1, <1>2, <1>5, <2>2, <2>4, <3>1, Opens
    <2>5. CASE /\ step.s \in Service /\ step.s.status = "finish" /\ ~step.s.open /\ step.s.fails = 0
               /\ step.s.fifo = r.fifo /\ step.s.old = Len(r.fifo) /\ ~step.s.answered
               /\ step.sent = 0
      <3>1. requests' = 0 /\ answers' = {} /\ since' = since
        BY <2>2, <2>5
      <3> QED
        BY <1>0, <1>2, <1>5, <1>6, <2>2, <2>5, <3>1, GoesAway DEF Serving
    <2> QED
      BY <1>5, <2>1, <2>3, <2>4, <2>5, ConnectsTo
  <1> QED
    BY <1>7, <1>8

\* One message leaves the buffer.
LEMMA PoppedIs ==
  ASSUME NEW r \in Service, r.fifo # << >>
  PROVE  /\ Fetching!Popped(r) \in Service
         /\ Fetching!Popped(r).status = r.status /\ Fetching!Popped(r).fails = r.fails
         /\ Fetching!Popped(r).open = r.open /\ Fetching!Popped(r).answered = r.answered
         /\ Fetching!Popped(r).fifo = Tail(r.fifo)
         /\ Fetching!Popped(r).old = IF r.old > 0 THEN r.old - 1 ELSE 0
         /\ Tail(r.fifo) \in Seq(Fetching!Versions) /\ Len(Tail(r.fifo)) = Len(r.fifo) - 1
         /\ Head(r.fifo) = r.fifo[1] /\ Head(r.fifo) \in Fetching!Versions
         /\ \A i \in 1 .. Len(r.fifo) - 1 : Tail(r.fifo)[i] = r.fifo[i + 1]
         /\ Len(r.fifo) \in Nat /\ Len(r.fifo) >= 1
  <1>1. r.fifo \in Seq(Fetching!Versions) /\ r.old \in Nat
    BY DEF Service
  <1>2. /\ Tail(r.fifo) \in Seq(Fetching!Versions) /\ Len(Tail(r.fifo)) = Len(r.fifo) - 1
        /\ Head(r.fifo) = r.fifo[1] /\ Head(r.fifo) \in Fetching!Versions
        /\ \A i \in 1 .. Len(r.fifo) - 1 : Tail(r.fifo)[i] = r.fifo[i + 1]
    <2>1. /\ Tail(r.fifo) \in Seq(Fetching!Versions) /\ Len(Tail(r.fifo)) = Len(r.fifo) - 1
          /\ Head(r.fifo) \in Fetching!Versions
          /\ \A i \in 1 .. Len(Tail(r.fifo)) : Tail(r.fifo)[i] = r.fifo[i + 1]
      BY <1>1, HeadTailProperties
    <2> QED
      BY <1>1, <2>1
  <1>3. Len(r.fifo) \in Nat /\ Len(r.fifo) # 0
    BY <1>1, EmptySeq, LenProperties
  <1> DEFINE old == IF r.old > 0 THEN r.old - 1 ELSE 0
  <1>4. old \in Nat
    BY <1>1
  <1>5. Fetching!Popped(r) = [r EXCEPT !.fifo = Tail(r.fifo), !.old = old]
    BY DEF Fetching!Popped
  <1> HIDE DEF old
  <1>6. /\ Fetching!Popped(r) \in Service /\ Fetching!Popped(r).status = r.status
        /\ Fetching!Popped(r).fails = r.fails
        /\ Fetching!Popped(r).open = r.open /\ Fetching!Popped(r).answered = r.answered
        /\ Fetching!Popped(r).fifo = Tail(r.fifo)
        /\ Fetching!Popped(r).old = old
    BY <1>2, <1>4, <1>5 DEF Service
  <1> QED
    BY <1>2, <1>3, <1>6 DEF old

\* It waits, asks again, takes a message or ends.
LEMMA WorkGoesOn ==
  ASSUME FetchInv, Fetching!WorkProc
  PROVE  FetchInv'
  <1>0. Serving /\ Asked /\ Bounds /\ NotOlder /\ config \in Service
    BY DEF FetchInv, Serving
  <1>1. PICK step \in {[s |-> config, sent |-> 0]} \cup Fetching!TimedOut(config) :
          /\ \E to \in Fetching!Outcomes(step.s) :
               Fetching!Exchange([s |-> to, sent |-> step.sent])
          /\ mine' = (IF Fetching!Takes(step.s) THEN Head(step.s.fifo) ELSE mine)
          /\ older' = (IF Fetching!Takes(step.s) THEN step.s.old > 0 ELSE older)
    BY DEF Fetching!WorkProc
  <1>2. PICK to \in Fetching!Outcomes(step.s) :
          Fetching!Exchange([s |-> to, sent |-> step.sent])
    BY <1>1
  <1>3. config.status = "work" /\ config.open /\ UNCHANGED << theirs, faults, restarts >>
    BY <1>0 DEF Fetching!WorkProc, Serving
  <1>4. /\ config' = to /\ since' = since
        /\ requests' = IF to.open THEN requests + step.sent ELSE 0
        /\ answers' = IF to.open THEN answers ELSE {}
    BY <1>2, <1>3 DEF Fetching!Exchange
  <1>5. 0 < MaxRepeat /\ config.fails \in Nat /\ config.fails < MaxRepeat
    BY <1>0, FetchLimits DEF Serving, Service
  <1>6. CASE config.fifo = << >>
    <2> DEFINE r == [config EXCEPT !.fails = @ + 1]
    <2>1. \/ step = [s |-> config, sent |-> 0]
          \/ step = [s |-> Fetching!Finished(config), sent |-> 0]
          \/ config.fails + 1 < MaxRepeat /\ step = [s |-> r, sent |-> 1]
          \/ config.fails + 1 < MaxRepeat /\ step = [s |-> Fetching!Finished(r), sent |-> 0]
      BY <1>1, <1>5, <1>6, FetchLimits DEF Fetching!TimedOut, Fetching!Requests
    <2>2. ASSUME config.fails + 1 < MaxRepeat
          PROVE  /\ r \in Service /\ r.status = "work" /\ r.open = config.open /\ r.fifo = << >>
                 /\ r.fails = config.fails + 1 /\ r.old = config.old
                 /\ r.answered = config.answered
      <3>1. config.fails + 1 \in 0 .. MaxRepeat
        BY <1>5, <2>2, FetchLimits
      <3> QED
        BY <1>0, <1>3, <1>6, <3>1 DEF Service
    <2> HIDE DEF r
    <2>3. step.s.fifo = << >>
      <3>1. Fetching!Finished(config).fifo = << >>
        BY <1>0, <1>6, FinishedIs
      <3>2. config.fails + 1 < MaxRepeat => Fetching!Finished(r).fifo = << >>
        BY <2>2, FinishedIs
      <3> QED
        BY <1>6, <2>1, <2>2, <3>1, <3>2
    <2>4. to = step.s /\ mine' = mine /\ older' = older
      BY <1>1, <1>2, <2>3 DEF Fetching!Outcomes, Fetching!Takes
    <2>5. Bounds' /\ mine' \in 1 .. MaxVersion
      BY <1>0, <1>3, <2>4 DEF Bounds, Asked
    <2>6. CASE step = [s |-> config, sent |-> 0]
      <3>1. config' = config /\ requests' = requests /\ answers' = answers
        BY <1>0, <1>3, <1>4, <2>4, <2>6 DEF Asked
      <3> QED
        BY <1>3, <1>4, <2>4, <2>5, <3>1
           DEF FetchInv, Serving, Asked, Bounds, NotOlder
    <2>7. CASE step = [s |-> Fetching!Finished(config), sent |-> 0]
      <3>1. /\ to \in Service /\ to.status = "finish" /\ to.fails = 0 /\ ~to.open
            /\ to.old = Len(to.fifo) /\ to.fifo = config.fifo /\ to.answered = config.answered
        BY <1>0, <2>4, <2>7, FinishedIs
      <3>2. requests' = 0 /\ answers' = {}
        BY <1>4, <3>1
      <3> QED
        BY <1>0, <1>3, <1>4, <1>5, <2>4, <2>5, <3>1, <3>2, GoesAway DEF Serving, NotOlder
    <2>8. CASE config.fails + 1 < MaxRepeat /\ step = [s |-> r, sent |-> 1]
      <3>1. config' = r /\ requests' = requests + 1 /\ answers' = answers
        BY <1>3, <1>4, <2>2, <2>4, <2>8
      <3>2. Serving'
        <4>1. config'.fails < MaxRepeat
          BY <1>5, <2>2, <2>8, <3>1
        <4>2. /\ config'.fifo = config.fifo /\ config'.old = config.old /\ config'.open = config.open
              /\ config'.status = config.status /\ config' \in Service
          BY <1>3, <1>6, <2>2, <2>8, <3>1
        <4> QED
          BY <1>0, <4>1, <4>2 DEF Serving
      <3>3. Asked'
        <4>1. requests \in Nat /\ requests <= config.fails + 1
          BY <1>0, <1>3 DEF Asked
        <4>3. config'.fails = config.fails + 1 /\ config'.open
          BY <1>3, <2>2, <2>8, <3>1
        <4>2. requests' \in Nat /\ requests' <= config'.fails + 1 /\ config'.open
          BY <1>5, <3>1, <4>1, <4>3
        <4> QED
          BY <1>0, <1>3, <1>4, <2>4, <4>2 DEF Asked
      <3>4. NotOlder'
        BY <1>0, <1>3, <1>4, <1>6, <2>2, <2>8, <3>1 DEF NotOlder
      <3> QED
        BY <1>3, <2>2, <2>5, <2>8, <3>1, <3>2, <3>3, <3>4 DEF FetchInv, NotOlder
    <2>9. CASE config.fails + 1 < MaxRepeat /\ step = [s |-> Fetching!Finished(r), sent |-> 0]
      <3>1. /\ to \in Service /\ to.status = "finish" /\ to.fails = 0 /\ ~to.open
            /\ to.old = Len(to.fifo) /\ to.fifo = config.fifo /\ to.answered = config.answered
        BY <1>6, <2>2, <2>4, <2>9, FinishedIs
      <3>2. requests' = 0 /\ answers' = {}
        BY <1>4, <3>1
      <3> QED
        BY <1>0, <1>3, <1>4, <1>5, <2>4, <2>5, <3>1, <3>2, GoesAway DEF Serving, NotOlder
    <2> QED
      BY <2>1, <2>6, <2>7, <2>8, <2>9
  <1>7. CASE config.fifo # << >>
    <2>1. step.s = config /\ step.sent = 0
      BY <1>1, <1>7 DEF Fetching!TimedOut
    <2> DEFINE p == Fetching!Popped(config)
    <2>2. /\ p \in Service /\ p.status = config.status /\ p.fails = config.fails
          /\ p.open = config.open /\ p.answered = config.answered
          /\ p.fifo = Tail(config.fifo)
          /\ p.old = IF config.old > 0 THEN config.old - 1 ELSE 0
          /\ Tail(config.fifo) \in Seq(Fetching!Versions)
          /\ Len(Tail(config.fifo)) = Len(config.fifo) - 1
          /\ Head(config.fifo) = config.fifo[1] /\ Head(config.fifo) \in Fetching!Versions
          /\ \A i \in 1 .. Len(config.fifo) - 1 : Tail(config.fifo)[i] = config.fifo[i + 1]
          /\ Len(config.fifo) \in Nat /\ Len(config.fifo) >= 1
      BY <1>0, <1>7, PoppedIs
    <2>3. config.old \in Nat /\ config.old <= Len(config.fifo) /\ Len(config.fifo) <= AnswerMax
      BY <1>0 DEF Serving, Service
    <2>4. Len(p.fifo) <= AnswerMax /\ p.old <= Len(p.fifo) /\ p.old \in Nat
      BY <2>2, <2>3, FetchLimits
    <2>5. CASE Fetching!Valid(Head(config.fifo))
      <3> DEFINE f == Fetching!Finished(p)
      <3>1. /\ f \in Service /\ f.status = "finish" /\ f.fails = 0 /\ f.open = FALSE
            /\ f.fifo = p.fifo /\ f.old = Len(p.fifo)
        BY <2>2, FinishedIs
      <3>2. to = [f EXCEPT !.answered = TRUE]
        BY <1>2, <1>3, <1>7, <2>1, <2>5 DEF Fetching!Outcomes
      <3>3. mine' = Head(config.fifo) /\ older' = (config.old > 0)
        BY <1>1, <1>3, <1>7, <2>1, <2>5 DEF Fetching!Takes
      <3> HIDE DEF p, f
      <3>4. /\ to \in Service /\ to.status = "finish" /\ to.fails = 0 /\ to.open = FALSE
            /\ to.fifo = p.fifo /\ to.old = Len(p.fifo)
        BY <3>1, <3>2 DEF Service
      <3>5. mine' \in 1 .. MaxVersion
        BY <2>2, <2>5, <3>3, FetchLimits DEF Fetching!Valid, Fetching!Versions
      <3>6. older' \in BOOLEAN
        BY <3>3
      <3>7. Bounds'
        BY <1>0, <1>3, <3>6 DEF Bounds
      <3>8. ~older' => mine' >= since
        <4> SUFFICES ASSUME ~older' PROVE mine' >= since
          OBVIOUS
        <4>1. ~(config.old > 0)
          BY <3>3
        <4>2. config.old = 0
          BY <2>3, <4>1
        <4>3. 1 \in config.old + 1 .. Len(config.fifo)
          BY <2>2, <4>2
        <4>4. config.fifo[1] = 0 \/ config.fifo[1] >= since
          BY <1>0, <1>3, <4>3 DEF NotOlder
        <4> QED
          BY <2>2, <2>5, <3>3, <4>4 DEF Fetching!Valid
      <3>9. requests' = 0 /\ answers' = {}
        BY <1>4, <3>4
      <3> QED
        BY <1>3, <1>4, <1>5, <2>4, <3>4, <3>5, <3>7, <3>8, <3>9, GoesAway
    <2>6. CASE ~Fetching!Valid(Head(config.fifo))
      <3> DEFINE e == [config EXCEPT !.fifo = << >>]
      <3>1. to = p \/ to = Fetching!Reconnected(e)
        BY <1>2, <1>3, <1>7, <2>1, <2>6 DEF Fetching!Outcomes
      <3>2. mine' = mine /\ older' = older
        BY <1>1, <2>1, <2>6 DEF Fetching!Takes
      <3>3. Bounds' /\ mine' \in 1 .. MaxVersion
        BY <1>0, <1>3, <3>2 DEF Bounds, Asked
      <3> HIDE DEF p
      <3>4. CASE to = p
        <4>7. config' = p /\ answers' = answers /\ requests' = requests + step.sent
          BY <1>3, <1>4, <2>2, <3>4
        <4>8. requests \in Nat
          BY <1>0 DEF Asked
        <4>9. requests' = requests
          BY <2>1, <4>7, <4>8
        <4>1. config' = p /\ requests' = requests /\ answers' = answers
          BY <4>7, <4>9
        <4>2. Serving'
          BY <1>0, <1>3, <1>5, <2>2, <2>4, <4>1 DEF Serving
        <4>3. Asked'
          BY <1>0, <1>3, <1>4, <2>2, <3>2, <4>1 DEF Asked
        <4>4. \A i \in p.old + 1 .. Len(p.fifo) : p.fifo[i] = 0 \/ p.fifo[i] >= since
          <5> SUFFICES ASSUME NEW i \in p.old + 1 .. Len(p.fifo)
                       PROVE  p.fifo[i] = 0 \/ p.fifo[i] >= since
            OBVIOUS
          <5>1. i \in 1 .. Len(config.fifo) - 1 /\ i + 1 \in config.old + 1 .. Len(config.fifo)
            BY <2>2, <2>3, <2>4
          <5>2. p.fifo[i] = config.fifo[i + 1]
            BY <2>2, <5>1
          <5> QED
            BY <1>0, <1>3, <5>1, <5>2 DEF NotOlder
        <4>5. NotOlder'
          BY <1>0, <1>3, <1>4, <2>2, <4>1, <4>4 DEF NotOlder
        <4>6. ~config'.answered
          BY <1>0, <1>3, <2>2, <4>1 DEF NotOlder
        <4> QED
          BY <3>3, <4>2, <4>3, <4>5, <4>6 DEF FetchInv
      <3>5. CASE to = Fetching!Reconnected(e)
        <4>1. << >> \in Seq(Fetching!Versions) /\ Len(<< >>) = 0
          BY EmptySeq
        <4>2. e \in Service /\ e.fifo = << >> /\ e.answered = config.answered
          BY <1>0, <4>1 DEF Service
        <4> HIDE DEF e
        <4>3. /\ to \in Service /\ to.status = "init" /\ to.fails = 0 /\ ~to.open
              /\ to.fifo = << >> /\ to.old = Len(to.fifo) /\ ~to.answered
          BY <1>0, <1>3, <3>5, <4>2, ReconnectedIs DEF NotOlder
        <4>4. requests' = 0 /\ answers' = {} /\ Len(to.fifo) <= AnswerMax
          BY <1>4, <4>1, <4>3, FetchLimits
        <4> QED
          BY <1>3, <1>4, <1>5, <3>3, <4>3, <4>4, GoesAway
      <3> QED
        BY <3>1, <3>4, <3>5
    <2> QED
      BY <2>5, <2>6
  <1> QED
    BY <1>6, <1>7

\* After a while the service starts again.
LEMMA FinishGoesOn ==
  ASSUME FetchInv, Fetching!FinishProc
  PROVE  FetchInv'
  <1>0. Serving /\ Asked /\ Bounds /\ config \in Service
    BY DEF FetchInv, Serving
  <1>1. ~config.open /\ config.old = Len(config.fifo) /\ requests = 0 /\ answers = {}
    <2>1. ~config.open
      BY <1>0 DEF Fetching!FinishProc, Fetching!Retries, Serving
    <2> QED
      BY <2>1, Shut
  <1>2. /\ UNCHANGED << requests, answers, theirs, mine, since, older, faults, restarts >>
        /\ config' = Fetching!Moved(config, "init")
    BY DEF Fetching!FinishProc
  <1>3. /\ config' \in Service /\ config'.status = "init" /\ config'.fails = 0
        /\ config'.open = config.open /\ config'.fifo = config.fifo /\ config'.old = config.old
        /\ config'.answered = config.answered
    BY <1>0, <1>2, MovedIs DEF Stages
  <1>4. /\ config'.fails < MaxRepeat /\ Len(config'.fifo) <= AnswerMax
        /\ config'.old = Len(config'.fifo)
    BY <1>0, <1>1, <1>3, FetchLimits DEF Serving
  <1>5. Bounds' /\ mine' \in 1 .. MaxVersion
    BY <1>0, <1>2 DEF Bounds, Asked
  <1>6. config'.answered /\ ~older' => mine' >= since
    BY <1>2, <1>3 DEF FetchInv
  <1> QED
    BY <1>1, <1>2, <1>3, <1>4, <1>5, <1>6, GoesAway

\* The server answers one request with what it has now.
LEMMA ServeGoesOn ==
  ASSUME FetchInv, Fetching!Serve
  PROVE  FetchInv'
  <1>0. Serving /\ Asked /\ Bounds /\ NotOlder
    BY DEF FetchInv
  <1>1. /\ requests > 0 /\ requests' = requests - 1 /\ answers' = answers \cup {theirs}
        /\ UNCHANGED << config, theirs, mine, since, older, faults, restarts >>
    BY DEF Fetching!Serve
  <1>2. Asked' /\ config.open
    <2>1. /\ requests \in Nat /\ requests <= (IF config.open THEN config.fails + 1 ELSE 0)
      BY <1>0 DEF Asked
    <2>2. config.open
      BY <1>1, <2>1
    <2>3. config.fails \in Nat
      BY <1>0 DEF Serving, Service
    <2>4. requests' \in Nat /\ requests' <= config.fails + 1
      BY <1>1, <2>1, <2>2, <2>3
    <2> QED
      BY <1>0, <1>1, <2>2, <2>4 DEF Asked
  <1>3. theirs \in (1 .. MaxVersion) \cap (since .. theirs)
    BY <1>0, FetchLimits DEF Asked
  <1>4. NotOlder'
    BY <1>0, <1>1, <1>2, <1>3 DEF NotOlder
  <1>5. Serving' /\ Bounds'
    BY <1>0, <1>1 DEF Serving, Bounds
  <1> QED
    BY <1>1, <1>2, <1>4, <1>5 DEF FetchInv

\* A message that fits is appended.
LEMMA Appends ==
  ASSUME FetchInv, config.open, NEW v \in Fetching!Versions, v = 0 \/ v >= since,
         Len(config.fifo) < AnswerMax, config' = [config EXCEPT !.fifo = Append(@, v)],
         requests' = requests, answers' \subseteq answers,
         UNCHANGED << theirs, mine, since, older >>, Bounds'
  PROVE  FetchInv'
  <1>0. Serving /\ Asked /\ NotOlder /\ config \in Service
    BY DEF FetchInv, Serving
  <1> DEFINE q == Append(config.fifo, v)
  <1>1. config.fifo \in Seq(Fetching!Versions) /\ Len(config.fifo) \in Nat /\ config.old \in Nat
    BY <1>0, LenProperties DEF Service
  <1>2. /\ q \in Seq(Fetching!Versions) /\ Len(q) = Len(config.fifo) + 1
        /\ q[Len(config.fifo) + 1] = v
        /\ \A i \in 1 .. Len(config.fifo) : q[i] = config.fifo[i]
    BY <1>1, AppendProperties
  <1> HIDE DEF q
  <1>3. /\ config' \in Service /\ config'.fifo = q /\ config'.old = config.old
        /\ config'.open = config.open /\ config'.status = config.status
        /\ config'.fails = config.fails /\ config'.answered = config.answered
    <2>1. config' = [config EXCEPT !.fifo = q]
      BY DEF q
    <2> QED
      BY <1>0, <1>2, <2>1 DEF Service
  <1>4. Len(q) <= AnswerMax /\ config.old <= Len(q)
    BY <1>0, <1>1, <1>2, FetchLimits DEF Serving
  <1>5. Serving'
    BY <1>0, <1>3, <1>4 DEF Serving
  <1>6. Asked'
    BY <1>0, <1>3 DEF Asked
  <1>7. \A i \in config.old + 1 .. Len(q) : q[i] = 0 \/ q[i] >= since
    <2> SUFFICES ASSUME NEW i \in config.old + 1 .. Len(q)
                 PROVE  q[i] = 0 \/ q[i] >= since
      OBVIOUS
    <2>1. i = Len(config.fifo) + 1 \/ (/\ i \in 1 .. Len(config.fifo)
                                       /\ i \in config.old + 1 .. Len(config.fifo))
      BY <1>1, <1>2
    <2> QED
      BY <1>0, <1>2, <2>1 DEF NotOlder
  <1>8. NotOlder'
    BY <1>0, <1>3, <1>7 DEF NotOlder
  <1>9. ~config'.answered
    BY <1>0, <1>3 DEF NotOlder
  <1> QED
    BY <1>5, <1>6, <1>8, <1>9 DEF FetchInv

\* A message that does not fit ends the connection.
LEMMA Overflows ==
  ASSUME FetchInv, config.open,
         config' = Fetching!Reconnected([config EXCEPT !.fifo = << >>]),
         requests' = 0, answers' = {}, UNCHANGED << theirs, mine, since, older >>, Bounds'
  PROVE  FetchInv'
  <1>0. Serving /\ Asked /\ NotOlder /\ config \in Service
    BY DEF FetchInv, Serving
  <1> DEFINE e == [config EXCEPT !.fifo = << >>]
  <1>1. << >> \in Seq(Fetching!Versions) /\ Len(<< >>) = 0
    BY EmptySeq
  <1>2. e \in Service /\ e.fifo = << >> /\ e.answered = config.answered
    BY <1>0, <1>1 DEF Service
  <1> HIDE DEF e
  <1>3. config' = Fetching!Reconnected(e)
    BY DEF e
  <1>4. /\ config' \in Service /\ config'.status = "init" /\ config'.fails = 0 /\ ~config'.open
        /\ config'.fifo = << >> /\ config'.old = Len(config'.fifo) /\ ~config'.answered
    <2>1. ~e.answered
      BY <1>0, <1>2 DEF NotOlder
    <2>2. /\ Fetching!Reconnected(e) \in Service
          /\ Fetching!Reconnected(e).status = "init" /\ Fetching!Reconnected(e).fails = 0
          /\ Fetching!Reconnected(e).open = FALSE /\ Fetching!Reconnected(e).fifo = e.fifo
          /\ Fetching!Reconnected(e).old = Len(e.fifo)
          /\ Fetching!Reconnected(e).answered = e.answered
      BY <1>2, ReconnectedIs
    <2> QED
      BY <1>2, <1>3, <2>1, <2>2
  <1>5. Len(config'.fifo) <= AnswerMax /\ config'.fails < MaxRepeat
    BY <1>1, <1>4, FetchLimits
  <1>6. mine' \in 1 .. MaxVersion
    BY <1>0 DEF Asked
  <1> QED
    BY <1>4, <1>5, <1>6, GoesAway

\* What arrives is put into the buffer.
LEMMA DeliverGoesOn ==
  ASSUME FetchInv, Fetching!Deliver
  PROVE  FetchInv'
  <1>0. Serving /\ Asked /\ Bounds /\ NotOlder
    BY DEF FetchInv
  <1>1. config.open
    BY <1>0 DEF Fetching!Deliver, Serving
  <1>2. PICK v \in answers :
          /\ Fetching!Received(v)
          /\ answers' = (IF config'.open THEN answers \ {v} ELSE {})
          /\ requests' = (IF config'.open THEN requests ELSE 0)
    BY DEF Fetching!Deliver
  <1>3. UNCHANGED << theirs, mine, since, older, faults, restarts >> /\ Bounds'
    BY <1>0 DEF Fetching!Deliver, Bounds
  <1>4. v \in Fetching!Versions /\ v >= since
    BY <1>0, <1>2, FetchLimits DEF NotOlder, Asked, Fetching!Versions
  <1>5. CASE Len(config.fifo) < AnswerMax
    <2>1. config' = [config EXCEPT !.fifo = Append(@, v)]
      BY <1>2, <1>5 DEF Fetching!Received
    <2>2. config'.open
      BY <1>0, <1>1, <2>1 DEF Serving, Service
    <2>3. requests' = requests /\ answers' \subseteq answers
      BY <1>2, <2>2
    <2> QED
      BY <1>1, <1>3, <1>4, <1>5, <2>1, <2>3, Appends
  <1>6. CASE ~(Len(config.fifo) < AnswerMax)
    <2>1. config' = Fetching!Reconnected([config EXCEPT !.fifo = << >>])
      BY <1>2, <1>6 DEF Fetching!Received
    <2>2. ~config'.open
      <3> DEFINE e == [config EXCEPT !.fifo = << >>]
      <3>1. << >> \in Seq(Fetching!Versions)
        BY EmptySeq
      <3>2. e \in Service
        BY <1>0, <3>1 DEF Serving, Service
      <3> HIDE DEF e
      <3>3. Fetching!Reconnected(e).open = FALSE
        BY <3>2, ReconnectedIs
      <3> QED
        BY <2>1, <3>3 DEF e
    <2>3. requests' = 0 /\ answers' = {}
      BY <1>2, <2>2
    <2> QED
      BY <1>1, <1>3, <2>1, <2>3, Overflows
  <1> QED
    BY <1>5, <1>6

\* Requests and answers are lost, and answers doubled or damaged.
LEMMA FaultGoesOn ==
  ASSUME FetchInv, Fetching!Fault
  PROVE  FetchInv'
  <1>0. Serving /\ Asked /\ Bounds /\ NotOlder
    BY DEF FetchInv
  <1>1. UNCHANGED << theirs, mine, since, older, restarts >> /\ Bounds'
    <2>1. UNCHANGED << theirs, mine, since, older, restarts >>
      BY DEF Fetching!Fault
    <2>2. faults' \in 0 .. MaxFault
      BY <1>0, FetchLimits DEF Bounds, Fetching!Fault
    <2> QED
      BY <1>0, <2>1, <2>2 DEF Bounds
  <1>2. CASE requests > 0 /\ requests' = requests - 1 /\ UNCHANGED << config, answers >>
    <2>1. Asked'
      <3>1. config.fails \in Nat /\ requests \in Nat
        BY <1>0 DEF Serving, Service, Asked
      <3>2. requests <= (IF config.open THEN config.fails + 1 ELSE 0)
        BY <1>0 DEF Asked
      <3>3. requests' \in Nat /\ requests' <= (IF config.open THEN config.fails + 1 ELSE 0)
        BY <1>2, <3>1, <3>2
      <3> QED
        BY <1>0, <1>1, <1>2, <3>3 DEF Asked
    <2>2. Serving' /\ NotOlder'
      BY <1>0, <1>1, <1>2 DEF Serving, NotOlder
    <2> QED
      BY <1>1, <1>2, <2>1, <2>2 DEF FetchInv
  <1>3. CASE answers' \in {answers \ {v} : v \in answers} /\ UNCHANGED << config, requests >>
    <2>1. answers' \subseteq answers
      BY <1>3
    <2>2. Serving' /\ Asked' /\ NotOlder'
      BY <1>0, <1>1, <1>3, <2>1 DEF Serving, Asked, NotOlder
    <2> QED
      BY <1>1, <1>3, <2>2 DEF FetchInv
  <1>4. CASE /\ config.status = "work" /\ Len(config.fifo) < AnswerMax
             /\ \E v \in answers \cup {0} : config' = [config EXCEPT !.fifo = Append(@, v)]
             /\ UNCHANGED << requests, answers >>
    <2>1. PICK v \in answers \cup {0} : config' = [config EXCEPT !.fifo = Append(@, v)]
      BY <1>4
    <2>2. v \in Fetching!Versions /\ (v = 0 \/ v >= since)
      BY <1>0, <2>1, FetchLimits DEF NotOlder, Asked, Fetching!Versions
    <2>3. config.open
      BY <1>0, <1>4 DEF Serving
    <2> QED
      BY <1>1, <1>4, <2>1, <2>2, <2>3, Appends
  <1> QED
    BY <1>2, <1>3, <1>4 DEF Fetching!Fault

\* An error of the socket closes it; what was received stays.
LEMMA ErrorGoesOn ==
  ASSUME FetchInv, Fetching!SocketError
  PROVE  FetchInv'
  <1>0. Serving /\ Asked /\ Bounds /\ NotOlder /\ config \in Service
    BY DEF FetchInv, Serving
  <1>1. UNCHANGED << theirs, mine, older, restarts >> /\ Bounds'
    <2>1. UNCHANGED << theirs, mine, older, restarts >>
      BY DEF Fetching!SocketError
    <2>2. faults' \in 0 .. MaxFault
      BY <1>0, FetchLimits DEF Bounds, Fetching!SocketError
    <2> QED
      BY <1>0, <2>1, <2>2 DEF Bounds
  <1> DEFINE r == Fetching!Reconnected(config)
  <1>2. /\ r \in Service /\ r.status = "init" /\ r.fails = 0 /\ r.open = FALSE
        /\ r.fifo = config.fifo /\ r.old = Len(config.fifo) /\ r.answered = config.answered
    BY <1>0, ReconnectedIs
  <1>3. Fetching!Exchange([s |-> r, sent |-> 0]) /\ config.open
    BY DEF Fetching!SocketError
  <1> HIDE DEF r
  <1>4. config' = r /\ requests' = 0 /\ answers' = {} /\ since' = since
    BY <1>2, <1>3 DEF Fetching!Exchange
  <1>5. /\ config'.fails < MaxRepeat /\ Len(config'.fifo) <= AnswerMax
        /\ mine' \in 1 .. MaxVersion /\ ~config'.answered
    BY <1>0, <1>1, <1>2, <1>3, <1>4, FetchLimits DEF Serving, Asked, NotOlder
  <1> QED
    BY <1>1, <1>2, <1>4, <1>5, GoesAway

\* The configuration at the server changes.
LEMMA ChangeGoesOn ==
  ASSUME FetchInv, Fetching!Change
  PROVE  FetchInv'
  <1>0. Serving /\ Asked /\ Bounds /\ NotOlder
    BY DEF FetchInv
  <1>1. /\ theirs < MaxVersion /\ theirs' = theirs + 1
        /\ UNCHANGED << config, requests, answers, mine, since, older, faults, restarts >>
    BY DEF Fetching!Change
  <1>2. /\ theirs' \in 1 .. MaxVersion /\ since \in 0 .. theirs'
        /\ \A n \in 1 .. MaxVersion : n \in since .. theirs => n \in since .. theirs'
    BY <1>0, <1>1, FetchLimits DEF Asked
  <1>3. Asked' /\ NotOlder'
    BY <1>0, <1>1, <1>2 DEF Asked, NotOlder
  <1>4. Serving' /\ Bounds'
    BY <1>0, <1>1 DEF Serving, Bounds
  <1> QED
    BY <1>1, <1>3, <1>4 DEF FetchInv

\* A restart keeps what is saved and nothing else.
LEMMA FetchRestarts ==
  ASSUME FetchInv, Fetching!Restart
  PROVE  FetchInv'
  <1>0. Asked /\ Bounds
    BY DEF FetchInv
  <1>1. /\ config' = Fetching!Idle /\ requests' = 0 /\ answers' = {} /\ since' = 0
        /\ older' = FALSE /\ UNCHANGED << theirs, mine, faults >>
    BY DEF Fetching!Restart
  <1>2. restarts' \in 0 .. MaxBoot
    BY <1>0, FetchLimits DEF Fetching!Restart, Bounds
  <1>3. << >> \in Seq(Fetching!Versions) /\ Len(<< >>) = 0
    BY EmptySeq
  <1>4. 0 \in 0 .. MaxRepeat /\ "init" \in Stages /\ 0 < MaxRepeat /\ 0 <= AnswerMax
    BY FetchLimits DEF Stages
  <1>5. /\ config' \in Service /\ config'.status = "init" /\ config'.fails = 0
        /\ config'.open = FALSE /\ config'.fifo = << >> /\ config'.old = 0
        /\ config'.answered = FALSE
    BY <1>1, <1>3, <1>4 DEF Fetching!Idle, Service
  <1>6. Serving'
    <2>1. config'.fails < MaxRepeat /\ Len(config'.fifo) = 0
      BY <1>3, <1>4, <1>5
    <2>2. Len(config'.fifo) <= AnswerMax /\ config'.old <= Len(config'.fifo)
      BY <1>4, <1>5, <2>1
    <2> QED
      BY <1>5, <2>1, <2>2 DEF Serving
  <1>7. Asked'
    BY <1>0, <1>1, <1>5, FetchLimits DEF Asked
  <1>8. NotOlder' /\ Bounds'
    BY <1>0, <1>1, <1>2, <1>5 DEF NotOlder, Bounds
  <1> QED
    BY <1>5, <1>6, <1>7, <1>8 DEF FetchInv

\* Every step of the service, the server and the network keeps the invariant.
LEMMA FetchGoesOn ==
  ASSUME FetchInv, Fetching!Next
  PROVE  FetchInv'
  BY InitGoesOn, ConnectingGoesOn, WorkGoesOn, FinishGoesOn, ServeGoesOn, DeliverGoesOn,
     FaultGoesOn, ErrorGoesOn, ChangeGoesOn, FetchRestarts DEF Fetching!Next

-------------------------------------------------------------------------------
(* The parameters of a JT808 platform: Jt808.                                *)

\* The assumptions this part needs.
LEMMA RegisterLimits ==
  MaxCode \in Nat /\ MaxSet \in Nat /\ MaxBreak \in Nat /\ MaxBoot \in Nat
  BY ServerAssumption DEF ServerAssumption

\* The parameters that are answered with their own variable, and the setting of each.
Faithful == {"heart", "angle", "speed"}
Kept(p, r) ==
  CASE p = "heart" -> r.heart [] p = "angle" -> r.angle [] p = "speed" -> r.threshold

Codes == 0 .. MaxCode
Settings == Registering!Settings
Messages == {<< >>} \cup ({"register", "auth"} \X Codes)
Replies == {<< >>} \cup ({"registered", "accepted", "refused"} \X Codes)
Holding == ram \in Settings /\ disk \in Settings
Talking ==
  /\ session \in {"down", "login", "work"} /\ said \in Messages /\ coming \in Replies
  /\ codes \in [Registering!Hosts -> Codes] /\ given \in Codes
Counts == sets \in 0 .. MaxSet /\ breaks \in 0 .. MaxBreak /\ boots \in 0 .. MaxBoot
\* What was acknowledged is in RAM and on disk, and was so when it was last asked for.
Agreed ==
  /\ confirmed \in [Registering!Params -> SUBSET (0 .. 2)]
  /\ reading \subseteq [Registering!Params -> 0 .. 2]
  /\ \A p \in Faithful : confirmed[p] \subseteq {Kept(p, ram)}
                         /\ confirmed[p] \subseteq {Kept(p, disk)}
  /\ \A r \in reading, p \in Faithful : confirmed[p] \subseteq {r[p]}
RegisterInv == Holding /\ Talking /\ Counts /\ Agreed

\* What the invariant says of the variables, and that a platform reads what it set.
LEMMA RegisterTypes == RegisterInv => Registering!TypeOK /\ Registering!ReadsBack
  <1>1. Registering!Params \ {"seconds"} = Faithful
    BY DEF Registering!Params, Faithful
  <1>2. RegisterInv => Registering!ReadsBack
    BY <1>1 DEF RegisterInv, Agreed, Registering!ReadsBack
  <1>3. RegisterInv => Registering!TypeOK
    BY DEF RegisterInv, Holding, Talking, Counts, Agreed, Settings, Codes, Messages, Replies,
           Registering!TypeOK
  <1> QED
    BY <1>2, <1>3

\* It holds when the device starts.
LEMMA RegisterBegins == Registering!Init => RegisterInv
  <1> SUFFICES ASSUME Registering!Init PROVE RegisterInv
    OBVIOUS
  <1>1. 0 \in Codes /\ 0 \in 0 .. MaxSet /\ 0 \in 0 .. MaxBreak /\ 0 \in 0 .. MaxBoot
    BY RegisterLimits DEF Codes
  <1>2. 0 \in 0 .. 2 /\ 1 \in 0 .. 2 /\ 1 \in Registering!Hosts
    BY DEF Registering!Hosts
  <1>3. Holding
    BY <1>1, <1>2 DEF Registering!Init, Holding, Settings, Registering!Settings, Codes
  <1>4. Talking
    BY <1>1 DEF Registering!Init, Talking, Messages, Replies
  <1>5. Counts
    BY <1>1 DEF Registering!Init, Counts
  <1>6. Agreed
    BY DEF Registering!Init, Agreed, Faithful, Registering!Params
  <1> QED
    BY <1>3, <1>4, <1>5, <1>6 DEF RegisterInv

\* Another address changes nothing else but that the device is not registered there.
LEMMA AddressIs ==
  ASSUME NEW r \in Settings, NEW to \in [host : Registering!Hosts, port : 0 .. 2]
  PROVE  /\ Registering!At(r, to) \in Settings
         /\ \A p \in Faithful : Kept(p, Registering!At(r, to)) = Kept(p, r)
  BY DEF Registering!At, Settings, Registering!Settings, Kept, Faithful

\* One item of a message is taken.
LEMMA TakenIs ==
  ASSUME NEW r \in Settings, NEW m \in Registering!Items
  PROVE  /\ Registering!Taken(r, m) \in Settings
         /\ \A p \in Faithful :
              Kept(p, Registering!Taken(r, m)) =
                IF m.item = p /\ Registering!InRange(p, m.v) /\ (p = "speed" => m.v # 0)
                THEN m.v ELSE Kept(p, r)
  <1> DEFINE t == Registering!Taken(r, m)
  <1>1. /\ m.item \in {"heart", "angle", "seconds", "speed", "host", "port"}
        /\ m.v \in 0 .. 2 /\ (m.item \in {"host", "port"} => m.v \in Registering!Hosts)
    BY DEF Registering!Items, Registering!Params, Registering!Hosts
  <1>2. r \in [heart : 0 .. 2, angle : 0 .. 2, seconds : 0 .. 2, threshold : 0 .. 2,
              alarm : BOOLEAN, locked : BOOLEAN, registered : BOOLEAN,
              code : Codes, address : [host : Registering!Hosts, port : 0 .. 2]]
    BY DEF Settings, Registering!Settings, Codes
  <1>3. CASE m.item = "heart"
    <2>1. t = IF Registering!InRange("heart", m.v) THEN [r EXCEPT !.heart = m.v] ELSE r
      BY <1>3 DEF Registering!Taken
    <2> HIDE DEF t
    <2>2. t \in Settings
      BY <1>1, <1>2, <2>1 DEF Settings, Registering!Settings, Codes
    <2> QED
      BY <1>2, <1>3, <2>1, <2>2 DEF Faithful, Kept, t
  <1>4. CASE m.item = "angle"
    <2>1. t = IF Registering!InRange("angle", m.v) THEN [r EXCEPT !.angle = m.v] ELSE r
      BY <1>4 DEF Registering!Taken
    <2> HIDE DEF t
    <2>2. t \in Settings
      BY <1>1, <1>2, <2>1 DEF Settings, Registering!Settings, Codes
    <2> QED
      BY <1>2, <1>4, <2>1, <2>2 DEF Faithful, Kept, t
  <1>5. CASE m.item = "seconds"
    <2>1. t = [r EXCEPT !.seconds = m.v]
      BY <1>5 DEF Registering!Taken
    <2> HIDE DEF t
    <2>2. t \in Settings
      BY <1>1, <1>2, <2>1 DEF Settings, Registering!Settings, Codes
    <2> QED
      BY <1>2, <1>5, <2>1, <2>2 DEF Faithful, Kept, t
  <1>6. CASE m.item = "speed"
    <2>1. t = IF m.v = 0 THEN [r EXCEPT !.alarm = FALSE]
              ELSE [r EXCEPT !.threshold = m.v, !.alarm = TRUE]
      BY <1>6 DEF Registering!Taken
    <2> HIDE DEF t
    <2>2. t \in Settings
      BY <1>1, <1>2, <2>1 DEF Settings, Registering!Settings, Codes
    <2>3. Registering!InRange("speed", m.v)
      BY DEF Registering!InRange
    <2> QED
      BY <1>2, <1>6, <2>1, <2>2, <2>3 DEF Faithful, Kept, t
  <1>7. CASE m.item = "host"
    <2> DEFINE w == Registering!WithHost(r, m.v)
    <2>1. t = Registering!WithPort(w, 0)
      BY <1>7 DEF Registering!Taken, Registering!BytesAsPort
    <2>2. w \in Settings /\ \A p \in Faithful : Kept(p, w) = Kept(p, r)
      <3>1. [r.address EXCEPT !.host = m.v] \in [host : Registering!Hosts, port : 0 .. 2]
        BY <1>1, <1>2, <1>7
      <3> QED
        BY <3>1, AddressIs DEF Registering!WithHost
    <2> HIDE DEF w
    <2>3. [w.address EXCEPT !.port = 0] \in [host : Registering!Hosts, port : 0 .. 2]
      <3>1. w.address \in [host : Registering!Hosts, port : 0 .. 2]
        BY <2>2 DEF Settings, Registering!Settings
      <3> QED
        BY <3>1
    <2>4. t \in Settings /\ \A p \in Faithful : Kept(p, t) = Kept(p, w)
      BY <2>1, <2>2, <2>3, AddressIs DEF Registering!WithPort
    <2> QED
      BY <1>7, <2>2, <2>4 DEF Faithful
  <1>8. CASE m.item = "port"
    <2>1. t = Registering!WithPort(r, m.v)
      BY <1>8 DEF Registering!Taken
    <2>2. [r.address EXCEPT !.port = m.v] \in [host : Registering!Hosts, port : 0 .. 2]
      BY <1>1, <1>2, <1>8 DEF Registering!Hosts
    <2>3. t \in Settings /\ \A p \in Faithful : Kept(p, t) = Kept(p, r)
      BY <2>1, <2>2, AddressIs DEF Registering!WithPort
    <2> QED
      BY <1>8, <2>3 DEF Faithful
  <1> QED
    BY <1>1, <1>3, <1>4, <1>5, <1>6, <1>7, <1>8

\* What a message is acknowledged to have set is what the settings then are, and nothing
\* is when it is not acknowledged.
LEMMA ConfirmingIs ==
  ASSUME NEW r \in Settings, NEW m \in Registering!Items, NEW p \in Registering!Params,
         NEW was \in SUBSET (0 .. 2), NEW told \in BOOLEAN
  PROVE  /\ Registering!Confirming(was, p, m, told) \in SUBSET (0 .. 2)
         /\ p \in Faithful /\ was \subseteq {Kept(p, r)} =>
              Registering!Confirming(was, p, m, told)
                \subseteq {Kept(p, Registering!Taken(r, m))}
         /\ ~told => Registering!Confirming(was, p, m, told) \subseteq was
  <1>1. m.v \in 0 .. 2
    BY DEF Registering!Items, Registering!Hosts
  <1>2. Registering!Confirming(was, p, m, told) \in SUBSET (0 .. 2)
    BY <1>1 DEF Registering!Confirming
  <1>3. p \in Faithful /\ was \subseteq {Kept(p, r)} =>
              Registering!Confirming(was, p, m, told)
                \subseteq {Kept(p, Registering!Taken(r, m))}
    BY TakenIs DEF Registering!Confirming
  <1>4. ~told => Registering!Confirming(was, p, m, told) \subseteq was
    BY DEF Registering!Confirming
  <1> QED
    BY <1>2, <1>3, <1>4

\* A parameter message of one item or two, whole or not.
LEMMA SetKeeps ==
  ASSUME RegisterInv, NEW items, NEW whole,
         \/ /\ whole = 1
            /\ \E m \in Registering!Items : items = << m >>
         \/ /\ whole \in 1 .. 2
            /\ \E m, n \in Registering!Items : items = << m, n >>,
         Registering!SetParam(items, whole)
  PROVE  RegisterInv'
  <1> DEFINE taken == Registering!AllTaken(items, whole)
             moves == taken.address # ram.address
             told == whole = Len(items) /\ ~moves
  <1>0. Holding /\ Talking /\ Counts /\ Agreed
    BY DEF RegisterInv
  <1>1. /\ sets < MaxSet /\ sets' = sets + 1 /\ ram' = taken
        /\ disk' = IF whole = Len(items) THEN Registering!Saved(ram, taken) ELSE disk
        /\ session' = IF moves THEN "down" ELSE session
        /\ confirmed' = [p \in Registering!Params |-> Registering!SettingOf(items, p, told)]
        /\ reading' = {}
        /\ UNCHANGED << said, coming, codes, given, breaks, boots >>
    BY DEF Registering!SetParam
  <1>2. /\ taken \in Settings
        /\ \A p \in Registering!Params :
             LET c == Registering!SettingOf(items, p, told) IN
             /\ c \in SUBSET (0 .. 2)
             /\ p \in Faithful => c \subseteq {Kept(p, taken)}
             /\ whole # Len(items) => c \subseteq confirmed[p]
    <2>1. CASE whole = 1 /\ \E m \in Registering!Items : items = << m >>
      <3>1. PICK m \in Registering!Items : items = << m >>
        BY <2>1
      <3>2. Len(items) = 1 /\ items[1] = m
        BY <3>1
      <3>3. taken = Registering!Taken(ram, m)
        BY <2>1, <3>2 DEF Registering!AllTaken
      <3> DEFINE a == told
      <3>4. a \in BOOLEAN
        OBVIOUS
      <3>5. \A p \in Registering!Params :
              Registering!SettingOf(items, p, a) = Registering!Confirming(confirmed[p], p, m, a)
        BY <3>2 DEF Registering!SettingOf
      <3> HIDE DEF a
      <3>6. ram \in Settings /\ \A p \in Registering!Params :
              /\ confirmed[p] \in SUBSET (0 .. 2)
              /\ p \in Faithful => confirmed[p] \subseteq {Kept(p, ram)}
        BY <1>0 DEF Holding, Agreed
      <3>7. taken \in Settings
        BY <3>3, <3>6, TakenIs
      <3>8. \A p \in Registering!Params :
             LET c == Registering!SettingOf(items, p, a) IN
             /\ c \in SUBSET (0 .. 2)
             /\ p \in Faithful => c \subseteq {Kept(p, taken)}
        BY <3>3, <3>4, <3>5, <3>6, ConfirmingIs
      <3> QED
        BY <2>1, <3>2, <3>7, <3>8 DEF a
    <2>2. CASE whole \in 1 .. 2 /\ \E m, n \in Registering!Items : items = << m, n >>
      <3>1. PICK m \in Registering!Items, n \in Registering!Items : items = << m, n >>
        BY <2>2
      <3>2. Len(items) = 2 /\ items[1] = m /\ items[2] = n
        BY <3>1
      <3> DEFINE one == Registering!Taken(ram, m)
                 a == told
                 C1(p) == Registering!Confirming(confirmed[p], p, m, a)
                 C2(p) == Registering!Confirming(C1(p), p, n, a)
      <3>3. taken = IF whole = 1 THEN one ELSE Registering!Taken(one, n)
        BY <3>2 DEF Registering!AllTaken
      <3>4. a \in BOOLEAN /\ (whole = 1 => a = FALSE)
        BY <3>2
      <3>5. \A p \in Registering!Params : Registering!SettingOf(items, p, a) = C2(p)
        BY <3>2 DEF Registering!SettingOf
      <3> HIDE DEF a
      <3>6. ram \in Settings /\ \A p \in Registering!Params :
              /\ confirmed[p] \in SUBSET (0 .. 2)
              /\ p \in Faithful => confirmed[p] \subseteq {Kept(p, ram)}
        BY <1>0 DEF Holding, Agreed
      <3>7. one \in Settings
        BY <3>6, TakenIs
      <3>8. taken \in Settings
        BY <3>3, <3>7, TakenIs
      <3>9. \A p \in Registering!Params :
              /\ C1(p) \in SUBSET (0 .. 2)
              /\ p \in Faithful => C1(p) \subseteq {Kept(p, one)}
              /\ whole = 1 => C1(p) \subseteq confirmed[p]
        BY <3>4, <3>6, ConfirmingIs
      <3> HIDE DEF one, C1
      <3>10. \A p \in Registering!Params :
              /\ C2(p) \in SUBSET (0 .. 2)
              /\ p \in Faithful => C2(p) \subseteq {Kept(p, Registering!Taken(one, n))}
              /\ whole = 1 => C2(p) \subseteq C1(p)
        BY <3>4, <3>7, <3>9, ConfirmingIs
      <3> HIDE DEF C2
      <3>11. CASE whole = 1
        BY <3>2, <3>3, <3>5, <3>8, <3>9, <3>10, <3>11 DEF a
      <3>12. CASE whole = 2
        BY <3>2, <3>3, <3>5, <3>8, <3>10, <3>12 DEF a
      <3> QED
        BY <2>2, <3>11, <3>12
    <2> QED
      BY <2>1, <2>2
  <1>3. disk' = IF whole = Len(items) THEN taken ELSE disk
    BY <1>1 DEF Registering!Saved
  <1> DEFINE C == [p \in Registering!Params |-> Registering!SettingOf(items, p, told)]
  <1>4. /\ C \in [Registering!Params -> SUBSET (0 .. 2)]
        /\ \A p \in Faithful : /\ C[p] \subseteq {Kept(p, taken)}
                               /\ whole # Len(items) => C[p] \subseteq confirmed[p]
    BY <1>2 DEF Faithful, Registering!Params
  <1>5. confirmed' = C
    BY <1>1
  <1> HIDE DEF C, taken, told
  <1>6. Holding'
    BY <1>0, <1>1, <1>2, <1>3 DEF Holding
  <1>7. Talking'
    BY <1>0, <1>1 DEF Talking
  <1>8. Counts'
    BY <1>0, <1>1, RegisterLimits DEF Counts
  <1>9. Agreed'
    <2>1. \A p \in Faithful : C[p] \subseteq {Kept(p, disk')}
      <3>1. CASE whole = Len(items)
        BY <1>3, <1>4, <3>1
      <3>2. CASE whole # Len(items)
        BY <1>0, <1>3, <1>4, <3>2 DEF Agreed
      <3> QED
        BY <3>1, <3>2
    <2> QED
      BY <1>0, <1>1, <1>4, <1>5, <2>1 DEF Agreed
  <1> QED
    BY <1>6, <1>7, <1>8, <1>9 DEF RegisterInv

\* Settings that name the same parameters and another registration.
LEMMA NotesIs ==
  ASSUME NEW r \in Settings, NEW c \in Codes
  PROVE  /\ Registering!WithCode(r, c) \in Settings /\ Registering!Refused(r) \in Settings
         /\ \A p \in Faithful : /\ Kept(p, Registering!WithCode(r, c)) = Kept(p, r)
                                /\ Kept(p, Registering!Refused(r)) = Kept(p, r)
         /\ Registering!LoginMsg(r) \in Messages
  <1>1. r \in [heart : 0 .. 2, angle : 0 .. 2, seconds : 0 .. 2, threshold : 0 .. 2,
              alarm : BOOLEAN, locked : BOOLEAN, registered : BOOLEAN,
              code : Codes, address : [host : Registering!Hosts, port : 0 .. 2]]
    BY DEF Settings, Registering!Settings, Codes
  <1>2. Registering!WithCode(r, c) =
          [r EXCEPT !.registered = TRUE, !.code = IF c = 0 THEN r.code ELSE c]
    BY DEF Registering!WithCode
  <1>3. Registering!WithCode(r, c) \in Settings
    BY <1>1, <1>2 DEF Settings, Registering!Settings, Codes
  <1>4. Registering!Refused(r) \in Settings
    BY <1>1 DEF Registering!Refused, Settings, Registering!Settings, Codes
  <1>5. \A p \in Faithful : /\ Kept(p, Registering!WithCode(r, c)) = Kept(p, r)
                            /\ Kept(p, Registering!Refused(r)) = Kept(p, r)
    BY <1>1, <1>2 DEF Registering!Refused, Faithful, Kept
  <1>6. Registering!LoginMsg(r) \in Messages
    <2>1. r.code \in Codes /\ 0 \in Codes
      BY <1>1, RegisterLimits DEF Codes
    <2> QED
      BY <2>1 DEF Registering!LoginMsg, Messages
  <1> QED
    BY <1>3, <1>4, <1>5, <1>6

\* A step that leaves settings, acknowledgements and answers as they are.
LEMMA TalkKeeps ==
  ASSUME RegisterInv, Talking', Counts', UNCHANGED << ram, disk, confirmed, reading >>
  PROVE  RegisterInv'
  <1>1. Holding' /\ Agreed'
    BY DEF RegisterInv, Holding, Agreed
  <1> QED
    BY <1>1 DEF RegisterInv

\* The answer on its way is a word and a code.
LEMMA ReplyIs ==
  ASSUME coming \in Replies, coming # << >>
  PROVE  coming[1] \in {"registered", "accepted", "refused"} /\ coming[2] \in Codes
  BY DEF Replies

\* The platform's steps and those by which the device connects.
LEMMA PlatformGoesOn ==
  ASSUME RegisterInv,
         \/ Registering!Connect \/ Registering!AnswerRegister \/ Registering!NoCode
         \/ Registering!AnswerLogin \/ Registering!Forget
  PROVE  RegisterInv'
  <1>0. Holding /\ Talking /\ Counts
    BY DEF RegisterInv
  <1>1. << >> \in Messages /\ << >> \in Replies /\ 0 \in Codes
    BY RegisterLimits DEF Messages, Replies, Codes
  <1>2. CASE Registering!Connect
    <2>1. Registering!LoginMsg(ram) \in Messages
      BY <1>0, <1>1, NotesIs DEF Holding
    <2>2. Talking'
      BY <1>0, <1>2, <2>1 DEF Registering!Connect, Talking
    <2>3. Counts' /\ UNCHANGED << ram, disk, confirmed, reading >>
      BY <1>0, <1>2 DEF Registering!Connect, Counts
    <2> QED
      BY <2>2, <2>3, TalkKeeps
  <1>3. CASE Registering!AnswerRegister
    <2>1. given' \in Codes
      BY <1>0, <1>3, RegisterLimits DEF Registering!AnswerRegister, Talking, Codes
    <2>2. coming' \in Replies
      BY <1>3, <2>1 DEF Registering!AnswerRegister, Replies
    <2>3. Talking'
      BY <1>0, <1>1, <1>3, <2>1, <2>2 DEF Registering!AnswerRegister, Talking
    <2>4. Counts' /\ UNCHANGED << ram, disk, confirmed, reading >>
      BY <1>0, <1>3 DEF Registering!AnswerRegister, Counts
    <2> QED
      BY <2>3, <2>4, TalkKeeps
  <1>4. CASE Registering!NoCode
    <2>1. coming' \in Replies
      BY <1>1, <1>4 DEF Registering!NoCode, Replies
    <2>2. Talking'
      BY <1>0, <1>1, <1>4, <2>1 DEF Registering!NoCode, Talking
    <2>3. Counts'
      BY <1>0, <1>4, RegisterLimits DEF Registering!NoCode, Counts
    <2>4. UNCHANGED << ram, disk, confirmed, reading >>
      BY <1>4 DEF Registering!NoCode
    <2> QED
      BY <2>2, <2>3, <2>4, TalkKeeps
  <1>5. CASE Registering!AnswerLogin
    <2>1. coming' \in Replies
      BY <1>1, <1>5 DEF Registering!AnswerLogin, Replies
    <2>2. Talking'
      BY <1>0, <1>1, <1>5, <2>1 DEF Registering!AnswerLogin, Talking
    <2>3. Counts' /\ UNCHANGED << ram, disk, confirmed, reading >>
      BY <1>0, <1>5 DEF Registering!AnswerLogin, Counts
    <2> QED
      BY <2>2, <2>3, TalkKeeps
  <1>6. CASE Registering!Forget
    <2>2. Talking'
      BY <1>0, <1>1, <1>6 DEF Registering!Forget, Talking
    <2>3. Counts'
      BY <1>0, <1>6, RegisterLimits DEF Registering!Forget, Counts
    <2>4. UNCHANGED << ram, disk, confirmed, reading >>
      BY <1>6 DEF Registering!Forget
    <2> QED
      BY <2>2, <2>3, <2>4, TalkKeeps
  <1> QED
    BY <1>2, <1>3, <1>4, <1>5, <1>6

\* The device takes the answers to its registration and its login.
LEMMA AnswersGoOn ==
  ASSUME RegisterInv, Registering!TakeRegistered \/ Registering!TakeAuth
  PROVE  RegisterInv'
  <1>0. Holding /\ Talking /\ Counts /\ Agreed
    BY DEF RegisterInv
  <1>1. << >> \in Replies /\ coming[2] \in Codes /\ 0 \in Codes /\ coming' = << >>
    BY <1>0, ReplyIs, RegisterLimits
       DEF Talking, Replies, Codes, Registering!TakeRegistered, Registering!TakeAuth
  <1>2. CASE Registering!TakeRegistered
    <2> DEFINE r == Registering!WithCode(ram, coming[2])
    <2>1. r \in Settings /\ \A p \in Faithful : Kept(p, r) = Kept(p, ram)
      BY <1>0, <1>1, NotesIs DEF Holding
    <2>2. ram' = r /\ disk' = r /\ said' = Registering!LoginMsg(r)
      BY <1>2 DEF Registering!TakeRegistered
    <2>3. UNCHANGED << session, codes, confirmed, reading, given, sets, breaks, boots >>
      BY <1>2 DEF Registering!TakeRegistered
    <2> HIDE DEF r
    <2>4. said' \in Messages
      BY <1>1, <2>1, <2>2, NotesIs
    <2>5. Holding' /\ Talking' /\ Counts'
      BY <1>0, <1>1, <2>1, <2>2, <2>3, <2>4 DEF Holding, Talking, Counts
    <2>6. Agreed'
      BY <1>0, <2>1, <2>2, <2>3 DEF Agreed
    <2> QED
      BY <2>5, <2>6 DEF RegisterInv
  <1>3. CASE Registering!TakeAuth
    <2> DEFINE r == Registering!Refused(ram)
    <2>1. r \in Settings /\ \A p \in Faithful : Kept(p, r) = Kept(p, ram)
      BY <1>0, <1>1, NotesIs DEF Holding
    <2>2. (ram' = ram /\ session' = "work") \/ (ram' = r /\ session' = session)
      BY <1>3 DEF Registering!TakeAuth
    <2>3. UNCHANGED << disk, said, codes, confirmed, reading, given, sets, breaks, boots >>
      BY <1>3 DEF Registering!TakeAuth
    <2> HIDE DEF r
    <2>4. Holding' /\ Talking' /\ Counts'
      BY <1>0, <1>1, <2>1, <2>2, <2>3 DEF Holding, Talking, Counts
    <2>5. Agreed'
      BY <1>0, <2>1, <2>2, <2>3 DEF Agreed
    <2> QED
      BY <2>4, <2>5 DEF RegisterInv
  <1> QED
    BY <1>2, <1>3

\* Parameters are set and asked for.
LEMMA ParametersGoOn ==
  ASSUME RegisterInv, Registering!SetParams \/ Registering!GetParam
  PROVE  RegisterInv'
  <1>0. Holding /\ Talking /\ Counts /\ Agreed
    BY DEF RegisterInv
  <1>1. CASE Registering!SetParams
    <2>1. CASE \E m \in Registering!Items : Registering!SetParam(<< m >>, 1)
      BY <2>1, SetKeeps
    <2>2. CASE \E m, n \in Registering!Items, whole \in 1 .. 2 :
                 Registering!SetParam(<< m, n >>, whole)
      BY <2>2, SetKeeps
    <2> QED
      BY <1>1, <2>1, <2>2 DEF Registering!SetParams
  <1>2. CASE Registering!GetParam
    <2>1. /\ reading' = {Registering!Reported(ram)}
          /\ UNCHANGED << ram, disk, session, said, coming, codes, confirmed, given, sets, breaks,
                          boots >>
      BY <1>2 DEF Registering!GetParam
    <2>2. /\ Registering!Reported(ram) \in [Registering!Params -> 0 .. 2]
          /\ \A p \in Faithful : Registering!Reported(ram)[p] = Kept(p, ram)
      <3>1. ram.heart \in 0 .. 2 /\ ram.angle \in 0 .. 2 /\ ram.threshold \in 0 .. 2
        BY <1>0 DEF Holding, Settings, Registering!Settings
      <3>2. Registering!Reported(ram) = [heart |-> ram.heart, angle |-> ram.angle,
                                         seconds |-> ram.angle, speed |-> ram.threshold]
        BY DEF Registering!Reported
      <3>3. Registering!Reported(ram) \in [Registering!Params -> 0 .. 2]
        BY <3>1, <3>2 DEF Registering!Params
      <3>4. \A p \in Faithful : Registering!Reported(ram)[p] = Kept(p, ram)
        BY <3>2 DEF Faithful, Kept
      <3> QED
        BY <3>3, <3>4
    <2>3. Holding' /\ Talking' /\ Counts'
      BY <1>0, <2>1 DEF Holding, Talking, Counts
    <2>4. Agreed'
      BY <1>0, <2>1, <2>2 DEF Agreed
    <2> QED
      BY <2>3, <2>4 DEF RegisterInv
  <1> QED
    BY <1>1, <1>2

\* The connection goes, the login is sent again, or the device starts again with what it
\* saved.
LEMMA BreaksGoOn ==
  ASSUME RegisterInv, Registering!LoginProc \/ Registering!Break \/ Registering!Restart
  PROVE  RegisterInv'
  <1>0. Holding /\ Talking /\ Counts /\ Agreed
    BY DEF RegisterInv
  <1>1. /\ << >> \in Messages /\ << >> \in Replies /\ 0 \in Codes
        /\ Registering!LoginMsg(ram) \in Messages
    BY <1>0, NotesIs, RegisterLimits DEF Messages, Replies, Codes, Holding
  <1>2. /\ UNCHANGED << codes, confirmed, reading, given, sets, disk >>
        /\ ram' = ram \/ ram' = disk
    BY DEF Registering!LoginProc, Registering!LoginAgain, Registering!Down, Registering!Break,
           Registering!Restart
  <1>3. /\ session' = session \/ session' = "down"
        /\ said' = Registering!LoginMsg(ram) \/ said' = << >>
        /\ coming' = coming \/ coming' = << >>
    BY DEF Registering!LoginProc, Registering!LoginAgain, Registering!Down, Registering!Break,
           Registering!Restart
  <1>4. breaks' \in 0 .. MaxBreak /\ boots' \in 0 .. MaxBoot
    BY <1>0, RegisterLimits
       DEF Registering!LoginProc, Registering!LoginAgain, Registering!Down, Registering!Break,
           Registering!Restart, Counts
  <1>5. Holding' /\ Talking' /\ Counts'
    BY <1>0, <1>1, <1>2, <1>3, <1>4 DEF Holding, Talking, Counts
  <1>6. Agreed'
    BY <1>0, <1>2 DEF Agreed
  <1> QED
    BY <1>5, <1>6 DEF RegisterInv

\* Every step of the device and the platform keeps the invariant.
LEMMA RegisterGoesOn ==
  ASSUME RegisterInv, Registering!Next
  PROVE  RegisterInv'
  BY PlatformGoesOn, AnswersGoOn, ParametersGoOn, BreaksGoOn DEF Registering!Next

-------------------------------------------------------------------------------
(* All parts: only the one that moves changes.                              *)

ServerInv ==
  /\ part \in Parts
  /\ IF part = "cache" THEN CacheInv ELSE ~online
  /\ part = "fetching" => FetchInv
  /\ part = "logging" => LogInv
  /\ part = "incoming" => IncomingInv
  /\ part = "texting" => TextInv
  /\ part = "searching" => SearchControl /\ SearchCount
  /\ part = "registering" => RegisterInv

\* The parts begin with their invariants.
LEMMA ServerBegins == ServerInit => ServerInv
  BY CacheBegins, FetchBegins, LogBegins, IncomingBegins, TextBegins, SearchBegins,
     RegisterBegins DEF ServerInit, ServerInv, Init

\* The part that moves keeps its own, and the others stay.
LEMMA ServerMoves == ServerInv /\ ServerNext => ServerInv'
  <1> SUFFICES ASSUME ServerInv, ServerNext PROVE ServerInv'
    OBVIOUS
  <1>1. part' = part /\ part \in Parts /\ (part # "cache" => ~online')
    BY DEF ServerInv, ServerNext, OthersStay, vars, connVars
  <1>2. CASE part = "cache" /\ Next
    BY <1>1, <1>2, CacheGoesOn DEF ServerInv
  <1>3. CASE part = "fetching" /\ Fetching!Next
    BY <1>1, <1>3, FetchGoesOn DEF ServerInv
  <1>4. CASE part = "logging" /\ Logging!Next
    BY <1>1, <1>4, LogGoesOn DEF ServerInv
  <1>5. CASE part = "incoming" /\ Incoming!Next
    BY <1>1, <1>5, IncomingGoesOn DEF ServerInv
  <1>6. CASE part = "texting" /\ Texting!Next
    BY <1>1, <1>6, TextGoesOn DEF ServerInv
  <1>7. CASE part = "searching" /\ Searching!Next
    BY <1>1, <1>7, ControlGoesOn, CountGoesOn DEF ServerInv
  <1>8. CASE part = "registering" /\ Registering!Next
    BY <1>1, <1>8, RegisterGoesOn DEF ServerInv
  <1> QED
    BY <1>2, <1>3, <1>4, <1>5, <1>6, <1>7, <1>8 DEF ServerNext

\* The invariants speak of nothing but the variables.
LEMMA CacheStays == CacheInv /\ UNCHANGED vars => CacheInv'
  BY DEF CacheInv, Counting, NoOverCount, TypeOK, vars, connVars, ghostVars
\* What the invariant of fetching the log says is about its variables alone.
LEMMA FetchStays == FetchInv /\ UNCHANGED FetchingVars => FetchInv'
  BY DEF FetchInv, Serving, Asked, Bounds, NotOlder, FetchingVars
\* The same for the storing of the log.
LEMMA LogStays == LogInv /\ UNCHANGED LoggingVars => LogInv'
  BY DEF LogInv, LogQueue, LogSocket, Logging!EachOnce, LoggingVars
\* The same for the buffer of received bytes.
LEMMA IncomingStays == IncomingInv /\ UNCHANGED IncomingVars => IncomingInv'
  BY DEF IncomingInv, Heard, Talk, Tried, IncomingVars
\* The same for the messages.
LEMMA TextStays == TextInv /\ UNCHANGED TextingVars => TextInv'
  BY DEF TextInv, TextQueue, Texting!NeverStuck, TextingVars
\* The same for the parameters that are set and confirmed.
LEMMA SearchStays ==
  SearchControl /\ SearchCount /\ UNCHANGED SearchingVars => SearchControl' /\ SearchCount'
  <1> SUFFICES ASSUME SearchControl, SearchCount, UNCHANGED SearchingVars
               PROVE  SearchControl' /\ SearchCount'
    OBVIOUS
  <1>1. UNCHANGED << status, inited, fail_count, caller, asked >>
    BY DEF SearchingVars
  <1>2. SearchControl'
    BY <1>1 DEF SearchControl, Searching!InitedAgrees
  <1>3. Unanswered' = Unanswered
    BY <1>1 DEF Unanswered
  <1>4. SearchCount'
    BY <1>1, <1>3 DEF SearchCount
  <1> QED
    BY <1>2, <1>4
\* The same for the registration.
LEMMA RegisterStays == RegisterInv /\ UNCHANGED RegisteringVars => RegisterInv'
  BY DEF RegisterInv, Holding, Talking, Counts, Agreed, RegisteringVars

\* A step that changes nothing keeps them.
LEMMA ServerStays == ServerInv /\ UNCHANGED ServerVars => ServerInv'
  <1> SUFFICES ASSUME ServerInv, UNCHANGED ServerVars PROVE ServerInv'
    OBVIOUS
  <1>1. /\ part' = part
        /\ UNCHANGED << vars, FetchingVars, LoggingVars, IncomingVars, TextingVars, SearchingVars,
                        RegisteringVars >>
        /\ UNCHANGED online
    BY DEF ServerVars, vars, connVars
  <1> QED
    BY <1>1, CacheStays, FetchStays, LogStays, IncomingStays, TextStays, SearchStays, RegisterStays
       DEF ServerInv

\* What talks to a server keeps the invariant, whatever the constants are.
THEOREM ServerInvariant == ServerSpec => []ServerInv
  <1>1. ServerInv /\ [ServerNext]_ServerVars => ServerInv'
    BY ServerMoves, ServerStays
  <1> QED
    BY ServerBegins, <1>1, PTL DEF ServerSpec

\* Every variable of every part keeps to its values: counters of failures and of repeats to
\* their limits, queues and buffers to their lengths, a status to what the code gives it.
THEOREM ServerTypes == ServerSpec => []ServerTypeOK
  <1>1. ServerInv => ServerTypeOK
    BY FetchTypes, LogTypes, IncomingTypes, TextTypes, SearchTypes, RegisterTypes
       DEF ServerInv, ServerTypeOK, CacheInv
  <1> QED
    BY ServerInvariant, <1>1, PTL

\* The bytes of the records that were confirmed are not more than the bytes the server has
\* acknowledged, though the counter wraps and the connection is shared
\* (gps_service_confirm_cache).
THEOREM NeverOverCounts == ServerSpec => []NoOverCount
  <1>1. ServerInv => NoOverCount
    BY DEF ServerInv, CacheInv, Counting, NoOverCount
  <1> QED
    BY ServerInvariant, <1>1, PTL

\* A configuration that was confirmed is not older than its connection, a log is either kept
\* or gone, and a platform reads back what it set (config_service.c, log_service.c,
\* protocol_jt808.c).
THEOREM TakesAnswers == ServerSpec => []AnswersTaken
  <1>1. LogInv => Logging!EachOnce
    BY DEF LogInv
  <1>2. ServerInv => AnswersTaken
    BY <1>1, FetchTypes, RegisterTypes DEF ServerInv, AnswersTaken
  <1> QED
    BY ServerInvariant, <1>2, PTL

\* A text message that waits has the modem or the timer to go on, and the Wi-Fi chip is up
\* exactly when a search uses it (sms.c, wifi.c).
THEOREM SomebodyAlwaysGoesOn == ServerSpec => []SomebodyGoesOn
  <1>1. TextInv => Texting!NeverStuck
    BY DEF TextInv
  <1>2. ServerInv => SomebodyGoesOn
    BY <1>1, SearchTypes DEF ServerInv, SomebodyGoesOn
  <1> QED
    BY ServerInvariant, <1>2, PTL
================================================================================
