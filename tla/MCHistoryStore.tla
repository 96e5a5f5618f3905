--------------------------- MODULE MCHistoryStore ---------------------------
(***************************************************************************)
(* HistoryStore with the operations of Recording, over a few drives whose  *)
(* clocks show a few hours, and the properties that look into the series.  *)
(***************************************************************************)
EXTENDS HistoryStore, CounterSeries, TLC

CONSTANTS
  Drives,     \* wwn of each drive of the machine, in the order it is read
  MaxHour,    \* bound: the drives' clocks
  Cap,        \* max_samples_per_drive
  MaxRows     \* rows in all that a store may hold and still be read

Identities  == ToSet(Drives)
MCInstants  == [DOMAIN Drives -> 0..MaxHour]
MCLater(t)  == {u \in MCInstants : \E i \in DOMAIN Drives :
                  t[i] < MaxHour /\ u = [t EXCEPT ![i] = @ + 1]}

DiskAt(i, h) == [wwn |-> Drives[i], serial |-> NoIdentity, hours |-> h, count |-> 0]

\* Read with the privilege SMART needs, or without.
MCInventories(t)  == {[i \in DOMAIN Drives |-> DiskAt(i, t[i])],
                      [i \in DOMAIN Drives |-> DiskAt(i, Unread)]}
MCAllInventories  == UNION {MCInventories(t) : t \in MCInstants}

Row(h)       == [hours |-> h, count |-> 0]
Rows         == {Row(h) : h \in 0..MaxHour}
MCHistories  == UNION {[ids -> BoundedSeq(Rows, Cap)] : ids \in SUBSET Identities}
MCEmpty      == [id \in {} |-> <<>>]
MCLoaded(h)  == Capped(h, Cap)
MCFolded(h, d) == RecordInto(h, d, Cap)
MCFits(h)    == SumFunction([id \in DOMAIN h |-> Len(h[id])]) <= MaxRows

NoStore      == {Absent}
AnyStore     == {Absent, Unreadable, MCEmpty}
NoStoreOrOld == {Absent} \cup {h \in MCHistories :
                  DOMAIN h = Identities /\ \A id \in Identities : h[id] = <<Row(0)>>}
Interactive  == {"human"}
AddsToStore  == {"record", "human"}
AllCommands  == Commands
OneDrive     == <<"a">>
Interchangeable == Permutations(Runs)

\* record leaves 0 only when the store ends on the hour it read, of every drive
\* that can be tracked: a success code never hides a record that stopped growing.
ExitCode(o) ==
  CASE o \in {"recorded", "nothing new", "recording off"} -> 0
    [] o = "no drive readable"  -> 1
    [] o = "not permitted"      -> 13
    [] o = "could not write"    -> 74
    [] o = "store not readable" -> 78

ZeroMeansTheReadingIsThere ==
  [][\A r \in Runs :
       (/\ kind[r].command \in {"record", "replay"}
        /\ outcome[r] = "none" /\ outcome'[r] # "none" /\ ExitCode(outcome'[r]) = 0) =>
       \A i \in Tracked(disks[r]) :
          Last(file'[IdentityOf(disks[r][i])]).hours = disks[r][i].hours]_vars

\* Samples stand in chronological order, on a machine whose clocks only climb.
SamplesChronological ==
  InStore => \A id \in DOMAIN file : \A i \in 1..Len(file[id])-1 :
                file[id][i].hours < file[id][i + 1].hours
=============================================================================
