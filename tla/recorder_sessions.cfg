SPECIFICATION FairSpec
CONSTANTS
  Capacity = 2
  BatchSize = 2
  MaxSessions = 2
  MaxFrames = 3
  MaxKills = 1
INVARIANTS
  TypeOK
  WorkerAgrees
  FilesExact
PROPERTIES
  SessionCycle
  SessionEnds
