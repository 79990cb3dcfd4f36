SPECIFICATION MCSpec
CONSTANTS
  FileNames = {"p", "q"}
  CmdFiles <- MCFiles
  MaxPages = 2
  MaxColumns = 2
  MaxInColumn = 1
  MaxCommands = 3
  MaxLoads = 3
  Values <- MCValues
  MaxHoles = 3
  Gaps = {0, 2}
  MaxEdits = 1
  Columns = 2
  MaxButtons = 5
  MacroKeysOf = {"k1", "k2"}
  Reserved = {"k2"}
  AppNames = {"Global", "x"}
  MaxApps = 3
  MaxElements = 2
  MaxMenus = 2
  Letters = {"a", "b"}
  Modifiers = {"m"}
  Wordless = {"enter"}
  MaxEvents = 3
  MaxSessions = 2
  Levels = {0, 1}
  MaxChanges = 2
  Addresses = {1, 2}
  Picks = {0, 9, 10}
  MaxMade = 3
  MaxStarts = 2
INVARIANT CommandsSafe
INVARIANT EditorsSafe
INVARIANT SettingsKept
CHECK_DEADLOCK FALSE
