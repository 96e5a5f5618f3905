----------------------------- MODULE SpaceRules -----------------------------
(***************************************************************************)
(* How full a filesystem is, how broken up its free space is, and at which *)
(* of its mountpoints the free space of a mounted one is read.             *)
(***************************************************************************)
EXTENDS Readings

CONSTANTS
  MaxUnits,    \* bound: blocks of a filesystem
  Lengths,     \* lengths of free extents, in bytes
  MaxExtents,  \* bound: free extents of a filesystem
  MaxMounts,   \* bound: mountpoints of the machine
  Places,      \* where records of the map can begin, in order
  Batch,       \* records the kernel answers with at once
  MaxRecords,  \* max_records: where the walk gives up
  RecordCap,   \* free extents from which it gives up as well
  MaxWrites    \* bound: changes of the filesystem during one walk

ASSUME SpaceIsBounded == {MaxUnits, MaxExtents, MaxMounts} \subseteq Nat
ASSUME WalkIsBounded ==
  /\ Places \subseteq Nat /\ {MaxRecords, RecordCap, MaxWrites} \subseteq Nat /\ Batch \in Nat \ {0}

-----------------------------------------------------------------------------
(* A filesystem is [kind, used, free, table, inodes, inodesFree, readOnly].*)

FloorPercent(part, whole) == IF whole <= 0 THEN NotRead ELSE (100 * part) \div whole
CeilPercent(part, whole)  == IF whole <= 0 THEN NotRead ELSE -((-100 * part) \div whole)

\* Slip: of the whole size, which counts what is kept back for root as free.
SlipUsedPercent(fs) ==
  IF NotRead \in {fs.used, fs.free} THEN NotRead
  ELSE CeilPercent(fs.used, fs.used + fs.free + 1)

\* A pool is rounded as its own tool rounds it, everything else as df does.
UsedPercent(fs) ==
  IF NotRead \in {fs.used, fs.free} THEN NotRead
  ELSE IF fs.kind = "pool" THEN FloorPercent(fs.used, fs.used + fs.free)
  ELSE CeilPercent(fs.used, fs.used + fs.free)

\* Slip: inodes that are made as they are needed run out as well.
SlipInodesUsedPercent(fs) ==
  IF NotRead \in {fs.inodes, fs.inodesFree} THEN NotRead
  ELSE CeilPercent(fs.inodes - fs.inodesFree, fs.inodes)

InodesUsedPercent(fs) ==
  IF fs.table # "fixed" \/ NotRead \in {fs.inodes, fs.inodesFree} THEN NotRead
  ELSE CeilPercent(fs.inodes - fs.inodesFree, fs.inodes)

SeverityAt(percent) == IF percent >= 95 THEN "warning" ELSE IF percent >= 85 THEN "hint" ELSE "none"

DiagnoseFilesystem(fs) ==
  IF fs.readOnly THEN [space |-> "none", inodes |-> "none"]
  ELSE [space |-> SeverityAt(UsedPercent(fs)), inodes |-> SeverityAt(InodesUsedPercent(fs))]

FillWasRead(fs) == UsedPercent(fs) # NotRead \/ InodesUsedPercent(fs) # NotRead

-----------------------------------------------------------------------------
(* How broken up free space is, as a pool scores it.                       *)

FragTable == <<100, 99, 97, 93, 88, 83, 77, 71, 64, 57, 50, 43, 36, 29, 23, 17, 12, 7, 3, 1, 0>>

BitLength(n) == CHOOSE b \in 0..31 : (b = 31 \/ n < 2^b) /\ (b = 0 \/ n >= 2^(b-1))

BucketOf(length) == Min({Max({BitLength(length) - 10, 0}), Len(FragTable) - 1})

\* Slip: the extents of a bucket are counted, not what they hold.
SlipFragmentation(extents) ==
  LET total == Len(extents)
  IN  IF total <= 0 THEN NotRead
      ELSE FoldLeft(LAMBDA t, e : t + FragTable[BucketOf(e) + 1], 0, extents) \div total

\* The score of the mean free byte; 0 is the first bucket in the source.
Fragmentation(extents) ==
  LET total == FoldLeft(+, 0, extents)
  IN  IF total <= 0 THEN NotRead
      ELSE FoldLeft(LAMBDA t, e : t + e * FragTable[BucketOf(e) + 1], 0, extents) \div total

-----------------------------------------------------------------------------
(* Where the free space of the mounted filesystems is read.  A row of the  *)
(* mount table is [dev, wanted, hidden, opens]; answers says per device    *)
(* what its space map comes to once a mountpoint of it could be opened.    *)

\* Slip: a device is done with once it has been asked about.
SlipIsSettled(answer) == TRUE

\* Asking at another mountpoint would be told the same again.
IsSettled(answer) == answer # "did not open"

\* Slip: that every mountpoint of a device is hidden outranks a reading of it.
SlipHiddenReading(reading) == "hidden"

HiddenReading(reading) == IF reading = "none" THEN "hidden" ELSE reading

IsError(answer) == answer # "read"

\* The reading of every device of the table, "none" where nobody wanted one.
ReadFreeExtents(rows, answers) ==
  LET asked1(t, row) ==
        LET answer == IF row.opens THEN answers[row.dev] ELSE "did not open"
            settled == IF IsSettled(answer) THEN t.settled \cup {row.dev} ELSE t.settled
        IN  IF ~row.wanted \/ row.dev \in t.settled THEN t
            ELSE IF row.hidden THEN [t EXCEPT !.hidden = @ \cup {row.dev}]
            ELSE IF IsError(answer) /\ t.readings[row.dev] # "none" THEN [t EXCEPT !.settled = settled]
            ELSE [t EXCEPT !.settled = settled, !.readings[row.dev] = answer]
      end == FoldLeft(asked1, [readings |-> [d \in DOMAIN answers |-> "none"],
                               settled |-> {}, hidden |-> {}], rows)
  IN  [d \in DOMAIN answers |->
         IF d \in end.hidden THEN HiddenReading(end.readings[d]) ELSE end.readings[d]]

-----------------------------------------------------------------------------

Units == {NotRead} \cup 0..MaxUnits

AskAboutFills ==
  \E kind \in {"mount", "pool"}, used \in Units, free \in Units, ro \in BOOLEAN :
    Ask("fill", [kind |-> kind, used |-> used, free |-> free, table |-> "dynamic",
                 inodes |-> NotRead, inodesFree |-> NotRead, readOnly |-> ro])

AskAboutInodes ==
  \E table \in {"fixed", "dynamic"}, total \in Units, free \in Units :
    /\ total # NotRead => free <= total
    /\ Ask("fill", [kind |-> "mount", used |-> NotRead, free |-> 1, table |-> table,
                    inodes |-> total, inodesFree |-> free, readOnly |-> FALSE])

AskAboutExtents == Ask("extents", <<>>)

AnExtentIsFree ==
  /\ topic = "extents" /\ Len(input) < MaxExtents
  /\ \E length \in Lengths : Build("extents", Append(input, length))

AskAboutMounts == Ask("mounts", <<>>)

AMountIsListed ==
  /\ topic = "mounts" /\ Len(input) < MaxMounts
  /\ \E row \in [dev : {"a", "b"}, wanted : BOOLEAN, hidden : BOOLEAN, opens : BOOLEAN] :
       Build("mounts", Append(input, row))

-----------------------------------------------------------------------------

\* Exactly the filesystems that are full say so: a pool from the very percent on, a
\* mount from a fraction below it, since df rounds up; a table of inodes runs out
\* only where it cannot grow; and what is mounted to be read has nothing to be freed.
TheFullAreNamed ==
  topic = "fill" =>
    LET v == DiagnoseFilesystem(input)
        whole == input.used + input.free
        past(at) == IF input.kind = "pool" THEN 100 * input.used >= at * whole
                    ELSE 100 * input.used > (at - 1) * whole
    IN  /\ (v.space = "warning") <=>
             ~input.readOnly /\ NotRead \notin {input.used, input.free} /\ whole > 0 /\ past(95)
        /\ (v.space # "none") <=>
             ~input.readOnly /\ NotRead \notin {input.used, input.free} /\ whole > 0 /\ past(85)
        /\ v.inodes # "none" => input.table = "fixed" /\ 100 * input.inodesFree < 16 * input.inodes
        /\ input.table = "fixed" /\ input.inodesFree = 0 /\ input.inodes > 0 => v.inodes = "warning"

\* Breaking a free extent in two never makes the free space look less broken up, and
\* the score is one of the table's whatever the extents are.
SplittingNeverLooksBetter ==
  (topic = "extents" /\ input # <<>>) =>
    LET now == Fragmentation(input)
    IN  /\ now \in Min(Range(FragTable))..Max(Range(FragTable))
        /\ \A i \in DOMAIN input, part \in Lengths :
             part < input[i] =>
               Fragmentation(Append([input EXCEPT ![i] = @ - part], part)) >= now

\* The free space of a filesystem is read if any mountpoint of it can be opened and
\* seen, whichever comes first in the table, and otherwise the reading says why not.
ReadWhereItCanBe ==
  topic = "mounts" =>
    \A answers \in [{"a", "b"} -> {"read", "unsupported"}] :
      LET got == ReadFreeExtents(input, answers)
          rows(d) == {i \in DOMAIN input : input[i].dev = d /\ input[i].wanted}
          seen(d) == {i \in rows(d) : ~input[i].hidden}
      IN  \A d \in {"a", "b"} :
            /\ (got[d] = "none") <=> rows(d) = {}
            /\ (got[d] = "read") <=> answers[d] = "read" /\ \E i \in seen(d) : input[i].opens
            /\ (got[d] = "hidden") <=> rows(d) # {} /\ seen(d) = {}
            /\ got[d] = "unsupported" => answers[d] = "unsupported"

-----------------------------------------------------------------------------
(* Reading the space map of a mounted filesystem from the kernel, batch by *)
(* batch, while the filesystem is in use: between two batches anything may *)
(* be written or freed, the kernel may refuse to go on, and a kernel that  *)
(* does not move on from its own last record must not be asked for ever.   *)

\* A record is [at, ours, free, length]: a filesystem's log lies on a device of its
\* own, whose records come first and are not the filesystem's.
Records ==
  {r \in [at : Places, ours : BOOLEAN, free : BOOLEAN, length : 1..2] : r.length = 1 \/ (r.ours /\ r.free)}
NoRecord == [at |-> NotRead, ours |-> FALSE, free |-> FALSE, length |-> 0]

InOrder(records) ==
  LET first(k) == CHOOSE r \in records : Cardinality({s \in records : s.at < r.at}) = k - 1
  IN  [k \in 1..Cardinality(records) |-> first(k)]

\* What the kernel answers after a key: the next records of the map as it is now.
AnswerAfter(map, key) ==
  LET rest == InOrder({r \in map : r.at > key.at}) IN SubSeq(rest, 1, Min({Batch, Len(rest)}))

NothingTallied == [count |-> 0, total |-> 0, largest |-> 0]

\* Slip: what is free on the device of the log counts as well.
SlipCounts(record) == record.free

Counts(record) == record.ours /\ record.free

\* The cap is looked at before an extent is added, and one too many ends the walk.
FoldBatch(tally, records) ==
  FoldLeft(LAMBDA t, r :
             IF t.count = NotRead \/ ~Counts(r) THEN t
             ELSE IF t.count >= RecordCap THEN [t EXCEPT !.count = NotRead]
             ELSE [count |-> t.count + 1, total |-> t.total + r.length, largest |-> Max({t.largest, r.length})],
           tally, records)

\* Slip: only a walk that goes back is noticed, not one that stays.
SlipDidNotAdvance(last, key) == key # NoRecord /\ last.at < key.at

DidNotAdvance(last, key) == key # NoRecord /\ (last.at < key.at \/ last = key)

\* What one answer does to the walk; final: the kernel marks it as its last.
Answered(w, got, final) ==
  LET seen  == w.seen + Len(got)
      tally == FoldBatch(w.tally, got)
      last  == got[Len(got)]
      next  == [w EXCEPT !.seen = seen, !.tally = tally, !.calls = @ + 1,
                         !.ours = @ \/ \E i \in DOMAIN got : got[i].ours,
                         !.counted = @ \o SelectSeq(got, Counts)]
  IN  IF got = <<>> THEN [w EXCEPT !.says = "ended", !.calls = @ + 1]
      ELSE IF seen > MaxRecords \/ tally.count = NotRead THEN [w EXCEPT !.says = "gave up", !.calls = @ + 1]
      ELSE IF final THEN [next EXCEPT !.says = "ended"]
      ELSE IF DidNotAdvance(last, w.key) THEN [next EXCEPT !.says = "gave up"]
      ELSE [next EXCEPT !.key = last, !.before = got]

\* A map without a record of the filesystem's own device is no reading of it.
Reading(w) ==
  CASE w.says = "ended" /\ (w.seen = 0 \/ w.ours) -> w.tally
    [] OTHER -> [NothingTallied EXCEPT !.count = NotRead]

-----------------------------------------------------------------------------

AskAboutWalks ==
  \E map \in {Range(f) \ {NoRecord} : f \in [Places -> Records \cup {NoRecord}]} :
    /\ \A r, s \in map : r.at = s.at => r = s
    /\ \A r, s \in map : r.at < s.at /\ r.ours => s.ours
    /\ Ask("walk", [map |-> map, key |-> NoRecord, before |-> <<>>, tally |-> NothingTallied,
                    seen |-> 0, ours |-> FALSE, calls |-> 0, writes |-> 0, says |-> "reading",
                    counted |-> <<>>])

Walking == topic = "walk" /\ input.says = "reading"

KernelAnswers ==
  /\ Walking
  /\ LET got == AnswerAfter(input.map, input.key)
     IN  Build("walk", Answered(input, got, \A r \in input.map : got # <<>> /\ r.at <= Last(got).at))

\* A kernel that answers as it answered before.
KernelStandsStill ==
  Walking /\ input.before # <<>> /\ Build("walk", Answered(input, input.before, FALSE))

KernelRefuses ==
  Walking /\ Build("walk", [input EXCEPT !.says = IF input.seen = 0 THEN "refused" ELSE "broke off"])

\* The filesystem is in use: a record of the map changes, goes or comes.
FilesystemIsWritten ==
  /\ Walking /\ input.writes < MaxWrites
  /\ \E at \in {r.at : r \in {x \in input.map : x.ours}} :
       \E new \in {{}} \cup {{r} : r \in {x \in Records : x.ours /\ x.at = at}} :
         Build("walk", [input EXCEPT !.writes = @ + 1, !.map = {r \in @ : r.at # at} \cup new])

-----------------------------------------------------------------------------

\* Whatever is written meanwhile and however the kernel answers, no place of the
\* filesystem is counted twice in a reading, and no call is made that did not move on.
NoPlaceIsCountedTwice ==
  topic = "walk" =>
    /\ input.says = "ended" =>
         \A i, j \in DOMAIN input.counted : i # j => input.counted[i].at # input.counted[j].at
    /\ input.calls <= Cardinality(Places) + 1

\* The reading of a filesystem nobody wrote to meanwhile is that of its map: its own
\* free extents, all of them, or no reading at all.
StillMapIsReadWhole ==
  (topic = "walk" /\ input.writes = 0 /\ input.says # "reading") =>
    LET free == {r \in input.map : r.ours /\ r.free}
        got  == Reading(input)
    IN  /\ got.count # NotRead =>
             /\ got.count = Cardinality(free)
             /\ got.total = MapThenSumSet(LAMBDA r : r.length, free)
             /\ got.largest = Max({r.length : r \in free} \cup {0})
        /\ (input.says = "ended" /\ (\E r \in input.map : r.ours)) => got.count # NotRead
=============================================================================
