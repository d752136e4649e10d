SPECIFICATION ServerSpec
CONSTANTS
  CacheMax = 2
  Width = 20
  Bases = {0, 17}
  RecordLens = {2, 3}
  OtherLens = {1, 2}
  Escapes = {0, 1}
  StreamMax = 10
  MaxBoot = 1
  MaxRepeat = 2
  AnswerMax = 2
  MaxVersion = 2
  MaxFault = 2
  Room = 2
  MaxLog = 4
  MaxDown = 2
  Protocols = {"goome", "concox", "jt808"}
  FifoMax = 9
  Patience = 3
  MaxBad = 2
  MaxSpeak = 2
  SmsMax = 2
  MaxTimes = 3
  MaxMsg = 4
  MaxFail = 3
  RetryMax = 2
  MaxCreate = 3
  MaxNothing = 2
  MaxCode = 3
  MaxSet = 2
  MaxBreak = 2
CHECK_DEADLOCK FALSE
INVARIANTS ServerTypeOK NoOverCount AnswersTaken SomebodyGoesOn
PROPERTIES ServicesEnd MessagesEnd
