--------------------------- MODULE MCDriveHistory ---------------------------
(* Small instances of DriveHistory for TLC.  A drive in order lives long    *)
(* and reports truly; one in disorder is misread, unread, reset or swapped. *)
EXTENDS DriveHistory

InOrder    == [caps |-> {5, 6}, hours |-> 8, errors |-> 2, readings |-> 8,
               falls |-> 0, strays |-> 0, unread |-> 0]
InDisorder == [caps |-> {2, 5}, hours |-> 2, errors |-> 1, readings |-> 6,
               falls |-> 1, strays |-> 1, unread |-> 1]
Reset      == [caps |-> {5}, hours |-> 3, errors |-> 1, readings |-> 4,
               falls |-> 1, strays |-> 0, unread |-> 0]

Swapped    == [caps |-> {5}, hours |-> 3, errors |-> 1, readings |-> 6,
               falls |-> 1, strays |-> 0, unread |-> 0]

EveryLife    == {InOrder, InDisorder}
AfterAReset  == {Reset}
AfterASwap   == {Swapped}
=============================================================================
