--------------------------- MODULE CounterRecord ---------------------------
(***************************************************************************)
(* What the counter store promises, whatever runs do to reach it: it       *)
(* changes only by one run's whole reading being folded into what it then   *)
(* held, at most once per run and never where it could not be read, or by  *)
(* somebody else replacing the file.                                       *)
(***************************************************************************)
CONSTANTS Runs, Histories, Empty, StoresAround, Absent, Unreadable,
          AllInventories, Loaded(_), NewIn(_, _), Folded(_, _), Fits(_)

VARIABLES
  file,    \* what stands at the store's path
  taken    \* the runs whose reading it has taken

vars == <<file, taken>>

Init == file \in StoresAround /\ taken = {}

Held == IF file = Absent THEN Empty ELSE Loaded(file)

\* A reading with something new to say is folded in as a whole.
Take(r) ==
  /\ r \notin taken /\ taken' = taken \cup {r}
  /\ file # Unreadable
  /\ file # Absent => Fits(file)
  /\ \E d \in AllInventories :
       /\ NewIn(Held, d)
       /\ file' = Folded(Held, d)
       /\ Fits(file')

Replace == file' \in StoresAround /\ UNCHANGED taken

Next == Replace \/ \E r \in Runs : Take(r)

Spec == Init /\ [][Next]_vars
=============================================================================
