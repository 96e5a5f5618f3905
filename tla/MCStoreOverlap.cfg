SPECIFICATION Spec
CONSTANTS
  Runs = {r1, r2}
  NoRun = NoRun
  Histories <- MCHistories
  Empty <- MCEmpty
  StoresAround <- NoStoreOrOld
  Absent = Absent
  Unreadable = Unreadable
  Instants <- MCInstants
  Later <- MCLater
  Inventories <- MCInventories
  AllInventories <- MCAllInventories
  NoInventory = NoInventory
  Loaded <- MCLoaded
  HasDrive <- HasRecordableDrive
  NewIn <- HasNewReadings
  Folded <- MCFolded
  Fits <- MCFits
  StartedAs <- AddsToStore
  MaxPolls = 1
  MaxOutside = 0
  OutsiderWaits = TRUE
  Drives <- OneDrive
  MaxHour = 2
  Cap = 3
  MaxRows = 2
CHECK_DEADLOCK FALSE
INVARIANT TypeOK
INVARIANT LockIsHeldInside
INVARIANT WriterKeepsItsTemporary
INVARIANT WorksFromTheStore
INVARIANT OwnStoreIsReadable
PROPERTY TakesWholeReadings
PROPERTY ZeroMeansTheReadingIsThere
PROPERTY EveryRunEnds
