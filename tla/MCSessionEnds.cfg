CONSTANTS
  MaxInterrupts = 1
  Signal = 9
  Platforms = {"linux", "darwin", "other"}
  MaxEdits = 1
  Settings = {"level", "theme"}
  Variables = {"LOG_LEVEL", "LOG_TIMEOUT"}
  Layers <- TwoLayers
  Disks <- TwoDisks
  Machine = "machine"
  NoSubject = "-"
  Parent <- Fabric
  Lines <- TwoDensities
  LineCount <- Heights2
  Widths = {4, 5}
  Heights = {1}
  MaxMoves = 2
SPECIFICATION EndingSpec
PROPERTY HeldCtrlCIsHeard
PROPERTY OpenViewSettles
CHECK_DEADLOCK FALSE
