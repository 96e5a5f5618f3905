SPECIFICATION Spec
CONSTANTS
  Runs = {r1, r2}
  NoRun = NoRun
  Histories <- MCHistories
  Empty <- MCEmpty
  StoresAround <- AnyStore
  Absent = Absent
  Unreadable = Unreadable
  Instants <- MCInstants
  Later <- MCLater
  Inventories <- MCInventories
  AllInventories <- MCAllInventories
  NoInventory = NoInventory
  Loaded <- MCLoaded
  HasDrive <- HasRecordableDrive
  NewIn <- HasNewReadings
  Folded <- MCFolded
  Fits <- MCFits
  StartedAs <- AllCommands
  MaxPolls = 1
  MaxOutside = 1
  OutsiderWaits = FALSE
  Drives <- OneDrive
  MaxHour = 1
  Cap = 3
  MaxRows = 9
CHECK_DEADLOCK FALSE
INVARIANT AnnouncedOncePerCreation
PROPERTY UnreadableStoreStays
