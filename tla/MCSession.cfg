CONSTANTS
  MaxInterrupts = 2
  Signal = 9
  Platforms = {"linux", "darwin", "other"}
  MaxEdits = 1
  Settings = {"level", "theme"}
  Variables = {"LOG_LEVEL", "LOG_TIMEOUT"}
  Layers <- TwoLayers
  Disks <- TwoDisks
  Machine = "machine"
  NoSubject = "-"
  Parent <- Fabric
  Lines <- TwoDensities
  LineCount <- Heights2
  Widths = {4, 5}
  Heights = {1}
  MaxMoves = 3
SPECIFICATION SessionSpec
CHECK_DEADLOCK FALSE
INVARIANT SessionIsInOrder
INVARIANT TerminalIsSharedInTurn
INVARIANT OfferDoesAsItSays
INVARIANT RefusedSettingsFallBack
INVARIANT DeploymentIsAsReported
INVARIANT ScreenAgrees
