SPECIFICATION MCSpec
CONSTANTS
  Parts = {"logger"}
  Posix = TRUE
  Stems <- MCStems
  CleanStem <- MCClean
  FirstTrees <- MCTrees
  FsPaths <- MCPaths
  FsDirs <- MCDirs
  MaxFsCalls = 2
  MaxDays = 3
  MaxRecords = 2
  MaxRestarts = 1
  MaxRounds = 2
  RotationThread = {TRUE, FALSE}
  MaxRows = 3
  MaxRotations = 3
  MaxPolls = 3
  LoggerCalls <- MCExampleCalls
  LogChildren = {"c"}
  MaxLogged = 2
  CsvNames = {"errors", "rows"}
  CustomHeaders = {0, 1, 2}
  MaxCsvObjects = 2
  MaxCsvRows = 2
  PcapMessages <- MCMessages
  MAX_CHUNK = 2
  SeqLimit = 6
  MaxPcapMessages = 3
  MaxPcapDays = 2
  MaxPcapRuns = 2
  Urls = {"a/1", "a/2", "ip/"}
  HostOf <- MCUrlHost
  DomainOf <- MCHostDomain
  RowSizes <- MCSizes
  Windows = {1, 2}
  Percentage <- MCPercentage
  SkipCounts = {0, 2}
  Filters <- MCFilters
  DayLength = 2
  MaxMoments = 4
  MaxStatRows = 3
  TomlTexts <- MCTexts
  TomlFiles <- MCTomlFiles
  Changes <- MCChanges
  ChangesFiles <- MCChangesFiles
  MaxUpdates = 2
PROPERTY
  CreateLoggerReturns
CHECK_DEADLOCK FALSE
