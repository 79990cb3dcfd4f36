SPECIFICATION MCSpec
CONSTANTS
  DataQueueMax = 1
  MaxEntries = 2
  MaxSends = 2
  Letters = {"a", "b"}
  MaxBytes = 5
  Clients = {"a", "b"}
  MaxSessions = 2
  MaxMessages = 2
  CountModulus = 3
  GraphResolution = 3
  MaxMeasurements = 4
  MaxRows = 4
  MaxDuration = 2
  Timeouts = {1, 2000, 2002}
  IdleTimes = {0, 1, 2, 2001, 2003}
  LockTimeout = 1
  QueueSize = 4
  MaxTurns = 4
  Sources <- MCSources
  PrefixOf <- MCPrefixOf
  OrderOf <- MCOrderOf
  Destinations <- MCDestinations
  Maxes = {0, 1, 2}
  MaxFiles = 1
  MaxRuns = 2
  ItemTypes = {"uint16_t", "uint32_t"}
  MaxItems = 2
  IndexModulus = 2
  Bits = 8
  ByteBits = 2
  IntBits = 4
  MaxFields = 2
  FrameMaps <- MCFrameMaps
  FrameSizes = {2, 4}
  FrameData = {236}
  InputNumbers = {3}
  MaxApplies = 1
  RegisterMaps <- MCRegisterMaps
  RegisterData = {0, 240}
  RegisterInputs = {3}
  MaxRegEdits = 2
  MaxInside = 1
  MaxAgain = 2
  KeyNames = {"k"}
  MaxReports = 3
  MaxOnLine = 4
  LogThreads = {1, 2}
  Texts = {"x"}
  MaxLogged = 3
  MaxAsked = 2
INVARIANT DataSenderSafe
INVARIANT StreamsWhole
INVARIANT TcpServerSafe
INVARIANT SensorsAndBitsSafe
INVARIANT MacroKeysSafe
INVARIANT PowerAndExitSafe
INVARIANT BackupsSafe
PROPERTY EditsFaithful
CHECK_DEADLOCK FALSE
