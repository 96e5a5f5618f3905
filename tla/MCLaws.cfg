SPECIFICATION Spec
CONSTANTS
  Names = {"a", "b"}
  Serials = {"b"}
  MaxHour = 1
  MaxCount = 1
  MaxRows = 3
  MaxCopies = 2
  MaxDisks = 2
  SampleCap = 3
  MaxNodes = 4
  Carries <- LinksOfATree
  Cards <- CardsOfABoard
  Ports <- PortsOfABoard
  Others <- OthersOnABoard
  Runs <- RunsOfACard
  Ceilings <- CeilingsAbove
  Demands <- DemandsOnACard
  MaxSlots = 2
  MaxPorts = 3
  Rates = {3, 6, 12}
  UsbRanks = {2, 3, 4, 6}
  MaxDrives = 4
  MaxShared = 3
  MaxControllers = 3
  Urgencies = {"critical", "warning", "hint"}
  Subjects = {1, 2}
  MaxFindings = 4
  MaxUnits = 40
  Lengths = {512, 1024, 1536, 4096, 1048576, 536870912}
  MaxExtents = 3
  MaxMounts = 3
  Places = {1, 2, 3, 4}
  Batch = 2
  MaxRecords = 5
  RecordCap = 3
  MaxWrites = 2
  Steps = {"a", "b"}
  MaxDepth = 2
  MaxTable = 4
  Unknown = Unknown
  MaxPhys = 3
  MaxSasDrives = 2
  Pools = {"tank", "old"}
  FirstReply = 1
  MaxReply = 4
  Attempts = 3
  MaxMoves = 2
  MaxClusters = 5
  MaxVolumeWrites = 1
  Keys = {"k1", "k2"}
  MaxLeaves = 4
  MaxSets = 2
  BlockDrives = {"sda", "sdb"}
  Uppers = {"md", "dm"}
  Bridges = {"p1", "p2"}
  Seated = {"c1", "c2"}
  MaxChanges = 3
  MaxOffset = 3
  MaxHubs = 3
  MaxUsbDrives = 3
  WindowsDrives = {"d1", "d2"}
  MaxDriveMoves = 2
  MaxPluggedIn = 3
  MaxDrivesHere = 2
  VendorIds = {1, 2}
  DeviceIds <- DevicesOfTwoVendors
  MaxLines = 4
  MaxBytes = 12
  MaxTotal = 5
  ExtentCap = 3
  Base = 3
  MaxListed = 5
CHECK_DEADLOCK FALSE
INVARIANT RecordingLosesNothing
INVARIANT TourAnswersForTheTree
INVARIANT CardsAreToldTheTruth
INVARIANT DrivesAreToldTheTruth
INVARIANT VerdictsFollowTheReadings
INVARIANT StorageIsToldAsUsed
INVARIANT MachineIsToldAsRead
INVARIANT NothingIsLostInSilence
INVARIANT ConfigurationIsHonest
INVARIANT ReplayTellsTheSame
