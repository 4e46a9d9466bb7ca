SPECIFICATION OrderedSpec
CONSTANTS
  Files = {f1, f2}
  NoFile = NoFile
  Size = 2
  Chunk = 1
  MaxFaults = 1
INVARIANTS TypeOK ContentSurvives DownloadIsExact
PROPERTY MigrationCompletes
CHECK_DEADLOCK FALSE
