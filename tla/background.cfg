SPECIFICATION Spec
CONSTANTS
  Scanned <- MCScanned
  Configured = {2}
  Savers = {"checkpoint", "final", "rescan"}
  MaxChanges = 1
  MaxRuns = 2
  MaxSaves = 3
  NewNames <- MCNewNames
  Clients = {"a", "b"}
  MaxInstances = 2
  MaxTime = 1
  IdleTime = 1
  MaxAsks = 1
  DupeDisks <- MCDupeDisks
  SampleFloor = 4
  MinSize = 1
  Limit = 2
  MaxDupeRows = 4
  Rewritten <- MCRewritten
  MaxWrites = 2
  Programs = {"tui", "status"}
  MaxAge = 2
  Slow = 1
  MaxClock = 5
  MaxVersions = 2
INVARIANTS VolumeReadBack SnapshotWhole StopsInOrder FramesInStep DupesRight ReleasesNoticed
PROPERTY WokenStops
CHECK_DEADLOCK FALSE
