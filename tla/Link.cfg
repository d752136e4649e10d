SPECIFICATION LinkSpec
CONSTANTS
  MaxRepeat = 2
  Width = 4
  Last = 1
  Names = {a, b}
  NoName = NoName
  NoIp = NoIp
  FixedIp = FixedIp
  MaxFail = 3
  LateAnswers = FALSE
  MaxDown = 2
  MaxOrder = 3
  Torn = Torn
CHECK_DEADLOCK FALSE
INVARIANTS LinkTypeOK SocketsNeedBearer SocketsMatchStatus SlotConsistent CacheIsOwn RelayAgrees
PROPERTIES UpdateSpared RelayObeys LinkRecovers
