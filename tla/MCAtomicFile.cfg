SPECIFICATION Spec
CONSTANTS
  Writers = {store, shot}
  InPlace = {shot}
  MaxMeddling = 2
CHECK_DEADLOCK FALSE
INVARIANT TypeOK
INVARIANT OldOrNew
INVARIANT LinksAreNotTraversed
INVARIANT StreamsSurvive
INVARIANT FailedWritesReplaceNothing
INVARIANT NothingIsLeftBehind
