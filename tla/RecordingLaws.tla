--------------------------- MODULE RecordingLaws ---------------------------
(***************************************************************************)
(* The operations of Recording over every small store file and every small *)
(* inventory: a file is built up row by row, copies and disorder included, *)
(* an inventory drive by drive, and the laws are asked of each.            *)
(***************************************************************************)
EXTENDS CounterSeries, Readings

CONSTANTS
  Names,       \* world-wide names drives answer to
  Serials,     \* serials drives answer to, which may be another's name
  MaxHour,     \* bound: power-on hours
  MaxCount,    \* bound: the counter
  MaxRows,     \* bound: rows in the file
  MaxCopies,   \* bound: series in the file
  MaxDisks,    \* bound: drives one run reads
  SampleCap    \* max_samples_per_drive

ASSUME NamesAreNames == NoIdentity \notin Names \cup Serials
ASSUME SizesAreNat   ==
  {MaxHour, MaxCount, MaxRows, MaxCopies, MaxDisks, SampleCap} \subseteq Nat /\ SampleCap > 0

OnRecordings == topic = "recordings"
stored       == input.stored   \* the series of the file, in file order
disks        == input.disks    \* the drives a run read, in order

AskAboutRecordings == Ask("recordings", [stored |-> <<>>, disks |-> <<>>])

AddSeries ==
  /\ OnRecordings /\ disks = <<>> /\ Len(stored) < MaxCopies
  /\ \E id \in Names :
       Build("recordings",
             [input EXCEPT !.stored = Append(@, [identity |-> id, samples |-> <<>>])])

RowCount == SumFunction([k \in DOMAIN stored |-> Len(stored[k].samples)])

\* A hand-edited file may hold rows in any order.
AddRow ==
  /\ OnRecordings /\ disks = <<>> /\ RowCount < MaxRows
  /\ \E k \in DOMAIN stored, h \in 0..MaxHour, c \in 0..MaxCount :
       Build("recordings",
             [input EXCEPT !.stored[k].samples = Append(@, [hours |-> h, count |-> c])])

\* Bound: the longest files are read into by one drive less.
ReadDisk ==
  /\ OnRecordings /\ Len(disks) < MaxDisks - (IF RowCount < MaxRows THEN 0 ELSE 1)
  /\ \E w \in Names \cup {NoIdentity}, s \in Serials \cup {NoIdentity},
        h \in 0..MaxHour \cup {Unread} :
       Build("recordings", [input EXCEPT !.disks =
         Append(@, [wwn |-> w, serial |-> s, hours |-> h, count |-> 0])])

-----------------------------------------------------------------------------

History == Capped(MergeDuplicateSeries(stored), SampleCap)
Hours(s) == {s[i].hours : i \in DOMAIN s}
CopiesOf(id) == {k \in DOMAIN stored : stored[k].identity = id}

\* Merging the copies of a drive keeps every hour any copy holds, each once, in
\* the clock's order, with the reading that stands last in the file.
MergeLosesNoHour ==
  OnRecordings =>
  \A id \in {i \in Names : Cardinality(CopiesOf(i)) > 1} :
    LET merged == MergeDuplicateSeries(stored)[id]
    IN  /\ Hours(merged) = UNION {Hours(stored[k].samples) : k \in CopiesOf(id)}
        /\ \A i \in 1..Len(merged)-1 : merged[i].hours < merged[i + 1].hours
        /\ \A i \in DOMAIN merged : \E k \in CopiesOf(id) : \E j \in DOMAIN stored[k].samples :
             /\ stored[k].samples[j] = merged[i]
             /\ \A l \in CopiesOf(id) : \A m \in DOMAIN stored[l].samples :
                  (l > k \/ (l = k /\ m > j)) => stored[l].samples[m].hours # merged[i].hours

\* Every drive a run reads is either tracked or named with the reason it is not.
EveryDriveAccountedFor ==
  OnRecordings =>
  LET named == {pair[1] : pair \in UntrackedDisks(disks)}
  IN  Tracked(disks) \cup named = DOMAIN disks /\ Tracked(disks) \cap named = {}

\* Recording touches the series of the drives it tracks and no other: what drives
\* sharing an identity report is never spliced onto either.
OnlyTrackedAreTouched ==
  OnRecordings =>
  LET after == RecordInto(History, disks, SampleCap)
  IN  \A id \in DOMAIN after :
        (\E i, j \in DOMAIN disks : i # j /\ IdentityOf(disks[i]) = id
                                          /\ IdentityOf(disks[j]) = id)
          => id \in DOMAIN History /\ after[id] = History[id]

\* Declining to record loses no hour: where nothing is new, recording would have
\* left every series with the hours it has.
DecliningLosesNoHour ==
  (OnRecordings /\ ~HasNewReadings(History, disks)) =>
    LET after == RecordInto(History, disks, SampleCap)
    IN  /\ DOMAIN after = DOMAIN History
        /\ \A id \in DOMAIN after : Hours(after[id]) = Hours(History[id])

\* A reading is stored once however often it is recorded: an hour already stored
\* is folded into its row, so two runs inside one hour add one row between them.
RecordingAgainChangesNothing ==
  OnRecordings =>
  LET once == RecordInto(History, disks, SampleCap)
  IN  RecordInto(once, disks, SampleCap) = once
=============================================================================
