--------------------------- MODULE CounterSeries ---------------------------
(***************************************************************************)
(* The rules lsdsk applies to the readings it keeps of a drive: how one    *)
(* reading is folded into a series, how a series is thinned to a cap, how  *)
(* the copies of one drive are merged, and what verdict a series supports. *)
(* Source: src/lsdsk/domain/history.py, pure functions over tuples.        *)
(*                                                                         *)
(* A sample is a record with the drive's power-on hours and one counter;   *)
(* the other counters of a row behave as this one does, each on its own.   *)
(* Nothing here is a RECURSIVE operator: loops over a series are written   *)
(* as the sets of positions they select, or as a recursive function.       *)
(***************************************************************************)
EXTENDS Integers, SequencesExt, Positions

Unread == -1        \* a counter, or a clock, this reading could not see

-----------------------------------------------------------------------------
(* Folding a reading in, and thinning to a cap.                            *)

\* Slip: a repeated hour becomes a row of its own.
SlipAppendAlways(s, x) == Append(s, x)

\* A reading inside the hour of the newest row replaces that row.
FoldIn(s, x) ==
  IF s # <<>> /\ Last(s).hours = x.hours THEN [s EXCEPT ![Len(s)] = x]
                                         ELSE Append(s, x)

\* The bucket of one reading on the drive's clock, clamped at both ends.
Bucket(h, start, span, room) ==
  LET raw == ((h - start) * room) \div span
  IN  IF raw < 0 THEN 0 ELSE IF raw > room - 1 THEN room - 1 ELSE raw

\* Slip: a bucket different from the one before, not beyond the last one kept.
SlipSpreadOnChange(middle, room, start) ==
  LET B(i) == Bucket(middle[i].hours, start, Last(middle).hours - start, room)
  IN  IF Len(middle) <= room \/ Last(middle).hours <= start THEN DOMAIN middle
      ELSE {i \in DOMAIN middle : i = 1 \/ B(i) # B(i - 1)}

\* Positions of the middle that survive: all when they fit, a stride when the
\* clock did not advance, else the first sample of each bucket beyond the last.
SpreadOverHours(middle, room, start) ==
  LET n    == Len(middle)
      end  == middle[n].hours
      step == (n + room - 1) \div room
      B(i) == Bucket(middle[i].hours, start, end - start, room)
  IN  CASE n <= room    -> 1..n
        [] n > room /\ end <= start
                        -> {i \in 1..n : /\ (i - 1) % step = 0
                                         /\ (i - 1) \div step < room}
        [] OTHER        -> {i \in 1..n : \A j \in 1..i-1 : B(j) < B(i)}

\* Slip: only the newest rows.
SlipKeepNewest(s, cap) ==
  IF Len(s) <= cap THEN DOMAIN s ELSE (Len(s) - cap + 1)..Len(s)

\* Slip: the whole series is spread, the newest row apart.
SlipKeepSpread(s, cap) ==
  IF Len(s) <= cap \/ cap < 3 THEN SlipKeepNewest(s, cap)
  ELSE {1, Len(s)} \cup {i + 1 : i \in SpreadOverHours(SubSeq(s, 2, Len(s) - 1),
                                                     cap - 2, s[1].hours)}

\* Positions of s that survive a pass of thin: the baseline, the recent half,
\* and the middle spread over the hours it covers.
Kept(s, cap) ==
  LET n      == Len(s)
      recent == cap \div 2
      middle == SubSeq(s, 2, n - recent)
      spread == SpreadOverHours(middle, cap - 1 - recent, s[1].hours)
  IN  CASE n <= cap            -> 1..n
        [] n > cap /\ cap < 3  -> (n - cap + 1)..n
        [] OTHER -> {1} \cup {i + 1 : i \in spread} \cup ((n - recent + 1)..n)

\* Slip: the kept rows are put in the order of their hours.
SlipThinSorted(s, cap) == SortSeq(At(s, Kept(s, cap)), LAMBDA a, b : a.hours < b.hours)

Thin(s, cap) == At(s, Kept(s, cap))

\* Where the rows of some copies stand, copy by copy, which of two places is the later,
\* and the hours the rows are of.
RowPlaces(copies)     == UNION {{<<k, j>> : j \in DOMAIN copies[k]} : k \in DOMAIN copies}
RowAt(copies, at)     == copies[at[1]][at[2]]
StandsAfter(at, than) == at[1] > than[1] \/ (at[1] = than[1] /\ at[2] > than[2])
HoursOf(copies)       == {RowAt(copies, at).hours : at \in RowPlaces(copies)}

\* Slip: a repeated hour is taken from the copy that stands first.
SlipMergeFirstWins(copies) ==
  LET first(h) == CHOOSE at \in RowPlaces(copies) :
                    /\ RowAt(copies, at).hours = h
                    /\ \A b \in RowPlaces(copies) : StandsAfter(at, b) => RowAt(copies, b).hours # h
  IN  [i \in 1..Cardinality(HoursOf(copies)) |-> RowAt(copies, first(Nth(HoursOf(copies), i)))]

\* The copies of one drive in a store become one series: ordered by the drive's
\* clock, a repeated hour taken from the copy that stands later in the file.
MergeCopies(copies) ==
  LET last(h) == CHOOSE at \in RowPlaces(copies) :
                   /\ RowAt(copies, at).hours = h
                   /\ \A b \in RowPlaces(copies) : StandsAfter(b, at) => RowAt(copies, b).hours # h
  IN  [i \in 1..Cardinality(HoursOf(copies)) |-> RowAt(copies, last(Nth(HoursOf(copies), i)))]

-----------------------------------------------------------------------------
(* What a series supports saying about the counter.                        *)

\* Slip: any row up to the newest hour.
SlipAnchorsUpToNewest(s) == {i \in DOMAIN s : s[i].hours <= Last(s).hours}

\* Rows that may anchor a span ending at the newest row: not past its hour,
\* and not below a row of the same run that the newest one has regained.
Anchors(s) ==
  LET newest == Last(s).hours
  IN  {i \in DOMAIN s :
         /\ s[i].hours <= newest
         /\ \A j \in 1..i-1 :
              (\A k \in j..i-1 : s[k].hours <= newest) => s[j].hours <= s[i].hours}

\* Position of the reading the newest one is compared with.
PreviousReading(s) ==
  LET earlier  == {i \in 1..Len(s)-1 : s[i].hours # Last(s).hours}
      anchored == earlier \cap Anchors(s)
  IN  CASE anchored # {}                 -> Max(anchored)
        [] anchored = {} /\ earlier # {} -> Max(earlier)
        [] OTHER                         -> Len(s) - 1

\* Slip: the walk back does not stop where the clock fell.
SlipQuietAcrossAFall(s) ==
  LET n == Len(s)
      same == {i \in Anchors(s) : \A k \in i..n : s[k].count = s[n].count}
  IN  Min(same)

\* Position of the oldest anchor of the unbroken run that holds the newest
\* value. The run is broken by another value, and by a clock that stood past the
\* oldest anchor after it.
QuietRunStart(s) ==
  LET n == Len(s)
      anchors     == Anchors(s)
      since(k)    == Min({i \in anchors : i > k})
      unbroken(i) == \A k \in i..n-1 : /\ s[k].count = s[n].count
                                       /\ s[k].hours <= s[since(k)].hours
  IN  Min({i \in anchors : unbroken(i)})

Verdicts == {"first-sample", "too-close", "rising", "quiet", "reset"}

\* A refusal carries no span.
Refusal(v) == [verdict |-> v, from |-> 0, span |-> Unread, delta |-> Unread]

Rising(u, prev, minSpan) ==
  LET span == Last(u).hours - u[prev].hours
  IN  [verdict |-> IF span < minSpan THEN "too-close" ELSE "rising",
       from |-> prev, span |-> span, delta |-> Last(u).count - u[prev].count]

\* Silence is evidence only where the lifetime rate predicts errors in the span.
Quiet(u, minSpan, quietMin) ==
  LET start == QuietRunStart(u)
      span  == Last(u).hours - u[start].hours
      convincing == /\ span >= minSpan
                    /\ Last(u).hours > 0
                    /\ Last(u).count * span >= quietMin * Last(u).hours
  IN  [verdict |-> IF convincing THEN "quiet" ELSE "too-close",
       from |-> start, span |-> span, delta |-> 0]

Usable(s) == At(s, {i \in DOMAIN s : s[i].count # Unread})

TrendFor(s, minSpan, quietMin) ==
  LET u    == Usable(s)
      prev == PreviousReading(u)
  IN  CASE Len(u) < 2 -> Refusal("first-sample")
        [] Len(u) >= 2 /\ (\/ Last(u).count < u[prev].count
                           \/ Last(u).hours < u[prev].hours) -> Refusal("reset")
        [] Len(u) >= 2 /\ Last(u).hours >= u[prev].hours
                       /\ Last(u).count > u[prev].count -> Rising(u, prev, minSpan)
        [] OTHER -> Quiet(u, minSpan, quietMin)

-----------------------------------------------------------------------------
(* What one run does with the whole history of a machine: whether a reading *)
(* of its drives has anything new to say, which drives can be tracked, and *)
(* the history with the reading folded in.  A history is a function from   *)
(* the identities recorded to their series; a reading is the sequence of   *)
(* drives one run saw.                                                     *)

NoIdentity == ""    \* a drive with neither a world-wide name nor a serial

\* A drive as a run reads it: world-wide name first, then serial, and a sample
\* only where the power-on hours could be read.
IdentityOf(disk)   == IF disk.wwn # NoIdentity THEN disk.wwn ELSE disk.serial
SampleFrom(disk)   == [hours |-> disk.hours, count |-> disk.count]
Identified(disk)   == IdentityOf(disk) # NoIdentity
HasTimeBase(disk)  == disk.hours # Unread
Recordable(disk)   == Identified(disk) /\ HasTimeBase(disk)

HasRecordableDrive(disks) == \E i \in DOMAIN disks : Recordable(disks[i])

\* Slip: only a clock that moved forward is news.
SlipNewOnlyForward(history, disks) ==
  \E i \in DOMAIN disks :
    LET id == IdentityOf(disks[i])
    IN  /\ Recordable(disks[i])
        /\ id \in DOMAIN history => history[id] = <<>> \/ Last(history[id]).hours < disks[i].hours

\* Any drive at an hour its series does not end on; the clock may move either way.
HasNewReadings(history, disks) ==
  \E i \in DOMAIN disks :
    LET id == IdentityOf(disks[i])
    IN  /\ Recordable(disks[i])
        /\ \/ id \notin DOMAIN history
           \/ history[id] = <<>>
           \/ Last(history[id]).hours # disks[i].hours

\* Two drives answering to one identity are both left alone.
Colliding(disks) ==
  {IdentityOf(disks[i]) : i \in {k \in DOMAIN disks :
     \E j \in DOMAIN disks \ {k} : IdentityOf(disks[j]) = IdentityOf(disks[k])}}

\* Slip: drives that share an identity are recorded under it.
SlipTrackShared(disks) == {i \in DOMAIN disks : Recordable(disks[i])}

Tracked(disks) ==
  {i \in DOMAIN disks : /\ Recordable(disks[i])
                        /\ IdentityOf(disks[i]) \notin Colliding(disks)}

RecordInto(history, disks, cap) ==
  LET at(id)     == CHOOSE i \in Tracked(disks) : IdentityOf(disks[i]) = id
      tracked    == {IdentityOf(disks[i]) : i \in Tracked(disks)}
      before(id) == IF id \in DOMAIN history THEN history[id] ELSE <<>>
  IN  [id \in DOMAIN history \cup tracked |->
         IF id \in tracked
         THEN Thin(FoldIn(before(id), SampleFrom(disks[at(id)])), cap)
         ELSE history[id]]

\* Why a drive is not tracked, one reason each, in the order the code asks.
UntrackedReason(disks, i) ==
  CASE Identified(disks[i]) /\ IdentityOf(disks[i]) \in Colliding(disks) -> "shared identity"
    [] ~Identified(disks[i])                                           -> "no identity"
    [] OTHER                                                           -> "no time base"

\* Slip: a drive is only asked for its identity.
SlipReasonsOfIdentity(disks) ==
  {<<i, UntrackedReason(disks, i)>> : i \in {k \in DOMAIN disks :
     IdentityOf(disks[k]) \in Colliding(disks) \/ ~Identified(disks[k])}}

UntrackedDisks(disks) ==
  {<<i, UntrackedReason(disks, i)>> : i \in {k \in DOMAIN disks :
     \/ IdentityOf(disks[k]) \in Colliding(disks)
     \/ ~Recordable(disks[k])}}

\* A store names a drive in one series or, edited by hand or joined from two, in
\* several: one copy stays as it is, several are merged. stored is the file's
\* sequence of series, each with its identity.
MergeDuplicateSeries(stored) ==
  LET places(id) == {k \in DOMAIN stored : stored[k].identity = id}
      copies(id) == [i \in 1..Cardinality(places(id)) |-> stored[Nth(places(id), i)].samples]
  IN  [id \in {stored[k].identity : k \in DOMAIN stored} |->
         IF Cardinality(places(id)) = 1 THEN copies(id)[1] ELSE MergeCopies(copies(id))]

\* What the reader makes of a stored history: each series at most cap long.
Capped(history, cap) == [id \in DOMAIN history |-> Thin(history[id], cap)]
=============================================================================
