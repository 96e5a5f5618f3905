SPECIFICATION Spec
CONSTANTS
  Runs = {r1, r2}
  NoRun = NoRun
  Histories <- MCHistories
  Empty <- MCEmpty
  StoresAround <- NoStore
  Absent = Absent
  Unreadable = Unreadable
  Instants <- MCInstants
  Later <- MCLater
  Inventories <- MCInventories
  AllInventories <- MCAllInventories
  NoInventory = NoInventory
  Loaded <- MCLoaded
  HasDrive <- HasRecordableDrive
  NewIn <- HasNewReadings
  Folded <- MCFolded
  Fits <- MCFits
  StartedAs <- Interactive
  MaxPolls = 1
  MaxOutside = 0
  OutsiderWaits = TRUE
  Drives <- OneDrive
  MaxHour = 2
  Cap = 3
  MaxRows = 9
CHECK_DEADLOCK FALSE
INVARIANT SamplesChronological
