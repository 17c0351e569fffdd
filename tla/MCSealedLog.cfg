\* Appends, syncs and compaction with kills, power failures, a failed write and
\* a new master key.
SPECIFICATION Spec
CONSTANTS
  ChunkSize = 2
  HeaderLen = 1
  TagLen = 2
  MaxRecords = 2
  MaxKey = 2
  MaxCrashes = 2
  MaxFaults = 1
INVARIANTS
  SyncedSurvive
  Reopens
  WholeOrRefused
CHECK_DEADLOCK FALSE
