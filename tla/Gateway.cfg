CONSTANTS
  k1 = k1
  k2 = k2
  n1 = n1
  n2 = n2
  b1 = b1
  Keys = {k1, k2}
  Leftovers = {k1}
  Carries <- CarriesDef
  Broken = {1}
  MaxRelease = 2
  MaxFaults = 1
  Servers = 2
  Endpoints = 2
  WithBackup = {2}
  MaxUpdates = 3
  Requests = {n1, n2}
  Nodes = {n1, n2}
  BackupNodes = {b1}
  Statuses = {200, 503}
  Settings <- SettingsDef
  BackendLists <- BackendListsDef
  Instances <- InstancesDef
  TLSConfigs = {"c1"}
  Chunks <- ChunksDef
  MaxReads = 3
SPECIFICATION MCSpec
INVARIANTS
  ReloadIsSound
  CurrentStaysOpen DrainSparesCounted NoClientLeaks
   

  
CHECK_DEADLOCK FALSE
