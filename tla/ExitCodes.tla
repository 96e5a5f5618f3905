------------------------------ MODULE ExitCodes ------------------------------
(* The codes a run leaves with, by the names ExitCode gives them.           *)
EXTENDS Integers

ExitCode ==
  [SUCCESS |-> 0, GENERAL_ERROR |-> 1, USAGE_ERROR |-> 2, PERMISSION_DENIED |-> 13,
   INVALID_ARGUMENT |-> 22, SOFTWARE_ERROR |-> 70, IO_ERROR |-> 74, CONFIG_ERROR |-> 78,
   SIGNAL_INT |-> 130, BROKEN_PIPE |-> 141, SIGNAL_TERM |-> 143]

\* Any exception but the system's own refusals: a bug, not a bad argument.
ForABug == ExitCode.SOFTWARE_ERROR
=============================================================================
