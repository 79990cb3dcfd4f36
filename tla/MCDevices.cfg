SPECIFICATION MCSpec
CONSTANTS
  MbUnits = 2
  HoldingChunks = 2
  MaxRequests = 3
  MaxEdits = 2
  MaxEntries = 3
  MaxFrameId = 2
  ScriptFrames = {"f1", "f2"}
  LogFrames <- MCLogFrames
  LogLevels = {1, 2}
  MaxLogged = 3
  MaxRecorded = 2
  MaxMbLogged = 5
  DidFile <- MCDidFile
  CacheFiles <- MCCacheFiles
  DidAnswers <- MCDidAnswers
  DidTexts <- MCDidTexts
  ByteLimit = 8
  MaxReads = 2
  MaxDidEdits = 1
 RxCapacity = 7
 LineLimit = 7
 MaxRxFrames = 3
 MaxDamage = 2
INVARIANT ModbusTypeOK
INVARIANT ModbusSafe
INVARIANT CanBusSafe
INVARIANT ScriptSafe
INVARIANT GridsRight
CHECK_DEADLOCK FALSE
