SPECIFICATION Spec
CONSTANTS
  Console = {"out", "err"}
  Decisions = {1, 78, 130}
  MaxWrites = 2
  MaxLines = 2
  MaxNotes = 1
CHECK_DEADLOCK FALSE
INVARIANT CodeIsTrueOfTheOutput
INVARIANT StreamsAreGivenBack
PROPERTY RunEnds
