------------------------- MODULE DriveHistoryProofs -------------------------
(***************************************************************************)
(* DriveHistory's three invariants, for every cap, every life and any      *)
(* number of passes.  What is stored of a drive is a selection of what was *)
(* read of it; what a verdict claims is read off the rows it names; and a  *)
(* selection of a life that only climbs climbs too.                        *)
(***************************************************************************)
EXTENDS DriveHistory, SeriesProofs

-----------------------------------------------------------------------------
(* Every life of a drive, every cap, every number of passes.               *)

\* What is stored is a selection of the drive's life under the smallest cap any
\* recording has used, and within the cap of the last one.
SeriesInv ==
  /\ TypeOK
  /\ CapRespected
  /\ written # 0 => life # <<>> /\ floor <= written
  /\ floor \in Nat \ {0}
  /\ \E f : Selects(series, life, f, floor)

LEMMA SeriesStarts == Init => SeriesInv
<1> SUFFICES ASSUME Init
             PROVE  SeriesInv
  OBVIOUS
<1>1. TypeOK
  BY LivesAreBounded DEF Init, TypeOK
<1>2. floor \in Nat \ {0}
  BY LivesAreBounded DEF Init
<1>3. Selects(<<>>, <<>>, <<>>, floor)
  BY DEF Selects
<1> QED
  BY <1>1, <1>2, <1>3 DEF Init, SeriesInv, CapRespected

\* A reading of the drive folded in and thinned: whatever it read.
LEMMA RecordingKeepsASelection ==
  ASSUME SeriesInv, NEW x \in Reading, Record(x)
  PROVE  /\ series' \in Seq(Reading) /\ life' \in Seq(Reading)
         /\ written' = cap /\ Len(series') <= cap /\ life' # <<>>
         /\ floor' \in bound.caps /\ floor' \in Nat \ {0} /\ floor' <= cap
         /\ \E f : Selects(series', life', f, floor')
<1> USE DEF SeriesInv
<1>1. \A r \in Reading : r.hours \in Int
  BY LivesAreBounded DEF TypeOK, Reading
<1>2. cap \in Nat \ {0} /\ cap \in bound.caps /\ floor \in bound.caps
  BY LivesAreBounded DEF TypeOK
<1>3. series \in Seq(Reading) /\ life \in Seq(Reading)
  BY DEF TypeOK
<1>4. floor' \in bound.caps /\ floor' \in Nat \ {0} /\ floor' <= cap /\ floor' <= floor
  BY <1>2 DEF Record
<1> DEFINE loaded == Thin(series, cap)
           folded == FoldIn(loaded, x)
           lived  == FoldIn(life, x)
<1>5. PICK f : Selects(series, life, f, floor)
  OBVIOUS
<1>6. loaded \in Seq(Reading) /\ \E g : Selects(loaded, series, g, cap)
  BY <1>1, <1>2, <1>3, ThinSelects
<1>7. \E h : Selects(loaded, life, h, floor')
  BY <1>2, <1>3, <1>4, <1>5, <1>6, SelectionsCompose
<1>8. /\ lived \in Seq(Reading) /\ folded \in Seq(Reading) /\ lived # <<>>
      /\ \E h : Selects(folded, lived, h, floor')
  BY <1>3, <1>4, <1>6, <1>7, FoldSelects
<1>9. /\ Thin(folded, cap) \in Seq(Reading) /\ Len(Thin(folded, cap)) <= cap
      /\ \E g : Selects(Thin(folded, cap), folded, g, cap)
  BY <1>1, <1>2, <1>8, ThinSelects
<1>10. \E h : Selects(Thin(folded, cap), lived, h, floor')
  BY <1>2, <1>4, <1>8, <1>9, SelectionsCompose
<1> QED
  BY <1>4, <1>8, <1>9, <1>10 DEF Record

LEMMA SeriesStays == SeriesInv /\ [Next]_vars => SeriesInv'
<1> SUFFICES ASSUME SeriesInv, [Next]_vars
             PROVE  SeriesInv'
  OBVIOUS
<1>1. TypeOK
  BY DEF SeriesInv
<1>2. ReadingNow \in Reading
  BY <1>1, LivesAreBounded DEF TypeOK, ReadingNow, Reading
<1>3. ASSUME NEW x \in Reading, Record(x),
             mishaps' \in [strays : 0..bound.strays, unread : 0..bound.unread]
      PROVE  SeriesInv'
  <2>1. UNCHANGED <<bound, drive, cap>>
    BY <1>3 DEF Record
  <2>2. Reading' = Reading
    BY <2>1 DEF Reading
  <2>3. TypeOK'
    BY <1>1, <1>3, <2>1, <2>2, RecordingKeepsASelection DEF TypeOK
  <2> QED
    BY <1>3, <2>3, RecordingKeepsASelection DEF SeriesInv, CapRespected
<1>4. ASSUME drive' \in [clock : 0..bound.hours, errors : 0..bound.errors,
                          run : 0..bound.falls, age : Nat],
             UNCHANGED <<bound, cap, series, written, floor, life, mishaps>>
      PROVE  SeriesInv'
  <2>1. TypeOK'
    BY <1>1, <1>4 DEF TypeOK, Reading
  <2> QED
    BY <1>4, <2>1 DEF SeriesInv, CapRespected
<1>5. /\ bound.hours \in Nat /\ bound.errors \in Nat /\ bound.falls \in Nat
      /\ bound.strays \in Nat /\ bound.unread \in Nat
      /\ drive \in [clock : 0..bound.hours, errors : 0..bound.errors,
                    run : 0..bound.falls, age : Nat]
      /\ mishaps \in [strays : 0..bound.strays, unread : 0..bound.unread]
  BY <1>1, LivesAreBounded DEF TypeOK
<1>6. CASE PowerOnHour \/ GainError \/ ClockFalls
  <2>1. CASE PowerOnHour
    <3>1. drive' = [clock |-> drive.clock + 1, errors |-> drive.errors,
                    run |-> drive.run, age |-> drive.age + 1]
      BY <1>5, <2>1 DEF PowerOnHour
    <3>2. drive.clock + 1 \in 0..bound.hours
      BY <1>5, <2>1 DEF PowerOnHour
    <3> QED
      BY <1>4, <1>5, <2>1, <3>1, <3>2 DEF PowerOnHour
  <2>2. CASE GainError
    <3>1. drive' = [clock |-> drive.clock, errors |-> drive.errors + 1,
                    run |-> drive.run, age |-> drive.age]
      BY <1>5, <2>2 DEF GainError
    <3>2. drive.errors + 1 \in 0..bound.errors
      BY <1>5, <2>2 DEF GainError
    <3> QED
      BY <1>4, <1>5, <2>2, <3>1, <3>2 DEF GainError
  <2>3. CASE ClockFalls
    <3>1. PICK h \in 0..drive.clock-1, e \in 0..bound.errors :
                 drive' = [drive EXCEPT !.clock = h, !.errors = e, !.run = @ + 1]
      BY <2>3 DEF ClockFalls
    <3>2. drive' = [clock |-> h, errors |-> e, run |-> drive.run + 1, age |-> drive.age]
      BY <1>5, <3>1
    <3>3. h \in 0..bound.hours /\ drive.run + 1 \in 0..bound.falls
      BY <1>5, <2>3 DEF ClockFalls
    <3> QED
      BY <1>4, <1>5, <2>3, <3>2, <3>3 DEF ClockFalls
  <2> QED
    BY <1>6, <2>1, <2>2, <2>3
<1>7. CASE RecordReading
  BY <1>1, <1>2, <1>3, <1>7 DEF RecordReading, TypeOK
<1>8. CASE RecordStrayHours
  <2>1. PICK h \in 0..drive.clock-1 : Record([ReadingNow EXCEPT !.hours = h])
    BY <1>8 DEF RecordStrayHours
  <2>2. [ReadingNow EXCEPT !.hours = h] \in Reading
    <3>1. h \in 0..bound.hours
      BY <1>5
    <3> QED
      BY <1>2, <3>1 DEF Reading
  <2>3. mishaps' \in [strays : 0..bound.strays, unread : 0..bound.unread]
    <3>1. mishaps' = [strays |-> mishaps.strays + 1, unread |-> mishaps.unread]
      BY <1>5, <1>8 DEF RecordStrayHours
    <3>2. mishaps.strays + 1 \in 0..bound.strays
      BY <1>5, <1>8 DEF RecordStrayHours
    <3> QED
      BY <1>5, <3>1, <3>2
  <2> QED
    BY <1>3, <2>1, <2>2, <2>3
<1>9. CASE RecordUnreadCounter
  <2>1. [ReadingNow EXCEPT !.count = Unread] \in Reading
    BY <1>2 DEF Reading
  <2>2. mishaps' \in [strays : 0..bound.strays, unread : 0..bound.unread]
    <3>1. mishaps' = [strays |-> mishaps.strays, unread |-> mishaps.unread + 1]
      BY <1>5, <1>9 DEF RecordUnreadCounter
    <3>2. mishaps.unread + 1 \in 0..bound.unread
      BY <1>5, <1>9 DEF RecordUnreadCounter
    <3> QED
      BY <1>5, <3>1, <3>2
  <2> QED
    BY <1>3, <1>9, <2>1, <2>2 DEF RecordUnreadCounter
<1>10. CASE SetCap
  <2>1. TypeOK'
    BY <1>1, <1>10 DEF TypeOK, SetCap, Reading
  <2> QED
    BY <1>10, <2>1 DEF SeriesInv, SetCap, CapRespected
<1>11. CASE UNCHANGED vars
  BY <1>1, <1>11 DEF SeriesInv, vars, TypeOK, Reading, CapRespected
<1> QED
  BY <1>6, <1>7, <1>8, <1>9, <1>10, <1>11 DEF Next

\* Where a selection holds, the first row and the newest half are there.
LEMMA SelectionIsSound == SeriesInv => SeriesIsSound
<1> SUFFICES ASSUME SeriesInv
             PROVE  SeriesIsSound
  OBVIOUS
<1>1. /\ TypeOK /\ CapRespected /\ (written # 0 => life # <<>>)
      /\ series \in Seq(Reading) /\ life \in Seq(Reading) /\ floor \in Nat \ {0}
  BY DEF SeriesInv, TypeOK
<1>2. PICK f : Selects(series, life, f, floor)
  BY DEF SeriesInv
<1>3. NothingInvented
  BY <1>1, <1>2, SelectionIsAt DEF NothingInvented
<1>4. /\ \A k \in 1..Len(series) : series[k] = life[f[k]]
      /\ Len(life) > 0 => Len(series) > 0 /\ f[Len(series)] = Len(life)
      /\ floor >= 3 /\ Len(life) > 0 => f[1] = 1
      /\ floor >= 3 => \A k \in 0..(floor \div 2)-1 :
            k < Len(life) => k < Len(series) /\ f[Len(series) - k] = Len(life) - k
      /\ Len(life) \in Nat /\ Len(series) \in Nat
      /\ life # <<>> => Len(life) > 0
  BY <1>1, <1>2 DEF Selects
<1>5. BaselineKept
  BY <1>1, <1>4 DEF BaselineKept
<1>6. RecentKeptInFull
  <2> DEFINE half == floor \div 2
             n    == IF Len(life) < half THEN Len(life) ELSE half
  <2> SUFFICES ASSUME floor >= 3, NEW k \in 0..n-1
               PROVE  series[Len(series) - k] = life[Len(life) - k]
    BY DEF RecentKeptInFull
  <2>1. half \in Nat
    BY <1>1
  <2>2. k \in 0..half-1 /\ k < Len(life)
    BY <1>4, <2>1
  <2>3. k < Len(series) /\ f[Len(series) - k] = Len(life) - k
    BY <1>4, <2>2
  <2>4. Len(series) - k \in 1..Len(series)
    BY <1>4, <2>3
  <2> QED
    BY <1>4, <2>3, <2>4
<1> QED
  BY <1>1, <1>3, <1>5, <1>6 DEF SeriesIsSound

\* Through any number of passes, under any caps, what is stored of a drive is
\* within the cap and a selection of what was read of it, in order, with its
\* first row and its newest half.
THEOREM SelectionOfTheLife == Spec => []SeriesIsSound
<1>1. Spec => []SeriesInv
  BY SeriesStarts, SeriesStays, PTL DEF Spec
<1> QED
  BY <1>1, SelectionIsSound, PTL

-----------------------------------------------------------------------------
(* No span is stated that the drive did not live.                          *)

\* No row a silence is claimed over stands past the newest hour.
LEMMA QuietKeepsBelow ==
  ASSUME TypeOK, Judged.verdict = "quiet"
  PROVE  \A i \in Judged.from..Len(Usable(series)) : Usable(series)[i].hours <= Newest.hours
<1> DEFINE u == Usable(series)
<1>1. series \in Seq(Reading) /\ \A r \in Reading : r.hours \in Int
  BY LivesAreBounded DEF TypeOK, Reading
<1>2. u \in Seq(Reading)
  BY <1>1, UsableRows
<1>3. ~ (Len(u) < 2) /\ Judged = Quiet(u, MinSpan, QuietMin)
  BY WhatAVerdictMeans DEF Judged
<1>4. Judged.from = QuietRunStart(u)
  BY <1>3 DEF Quiet
<1> HIDE DEF u
<1>5. u # <<>>
  BY <1>3
<1>6. \A i \in QuietRunStart(u)..Len(u) : u[i].hours <= u[Len(u)].hours
  BY <1>1, <1>2, <1>5, QuietRunHolds
<1> QED
  BY <1>4, <1>6 DEF Newest, Last, u

\* Had the span a row of a run whose end shows, it would hold the row that shows it.
LEMMA QuietIsOfOneRun ==
  ASSUME TypeOK
  PROVE  QuietStaysInOneRun
<1> DEFINE u == Usable(series)
<1> SUFFICES ASSUME Judged.verdict = "quiet",
                    NEW i \in Judged.from..Len(u), FallShows(u, u[i].run)
             PROVE  FALSE
  BY DEF QuietStaysInOneRun, QuietIsApartFrom
<1>1. series \in Seq(Reading) /\ \A r \in Reading : r.hours \in Int
  BY LivesAreBounded DEF TypeOK, Reading
<1>2. u \in Seq(Reading)
  BY <1>1, UsableRows
<1>3. \A k \in Judged.from..Len(u) : u[k].hours <= Newest.hours
  BY QuietKeepsBelow
<1>4. ~ (Len(u) < 2) /\ Judged = Quiet(u, MinSpan, QuietMin)
  BY WhatAVerdictMeans DEF Judged
<1>5. Judged.from = QuietRunStart(u)
  BY <1>4 DEF Quiet
<1> HIDE DEF u
<1>6. Judged.from \in 1..Len(u)
  <2>1. u # <<>>
    BY <1>4
  <2>2. Anchors(u) \in SUBSET (1..Len(u))
    BY <1>1, <1>2, <2>1, AnchorsHold
  <2>3. QuietRunStart(u) \in Anchors(u)
    BY <1>1, <1>2, <2>1, QuietRunHolds
  <2> QED
    BY <1>5, <2>2, <2>3
<1>7. i \in 1..Len(u)
  BY <1>2, <1>6
<1>8. PICK j \in DOMAIN u : /\ u[j].hours > Newest.hours
                            /\ \A k \in DOMAIN u : u[k].run = u[i].run => k <= j
  BY DEF FallShows
<1>9. i <= j /\ j \in Judged.from..Len(u)
  BY <1>2, <1>6, <1>7, <1>8
<1>10. u[j].hours \in Int /\ Newest.hours \in Int
  BY <1>1, <1>2, <1>4, <1>8 DEF Newest, Last, u
<1> QED
  BY <1>3, <1>8, <1>9, <1>10

\* Where strays show and nothing else stands past the newest hour, a row a span
\* starts at was read truly: an earlier row above it would have kept it from
\* being an anchor.
LEMMA AnchorsAreTrue ==
  ASSUME TypeOK, StraysShow,
         NEW p \in Anchors(Usable(life)), Len(Usable(life)) >= 2,
         \A i \in 1..Len(life)-1 : life[i].hours <= Last(Usable(life)).hours
  PROVE  LET u == Usable(life)
         IN  /\ u[p].hours = u[p].age /\ Last(u).hours = Last(u).age
             /\ u[p].hours \in Int /\ Last(u).hours \in Int
<1> DEFINE u == Usable(life)
           n == Len(u)
<1>1. life \in Seq(Reading) /\ \A r \in Reading : r.hours \in Int
  BY LivesAreBounded DEF TypeOK, Reading
<1>2. u \in Seq(Reading)
  BY <1>1, UsableRows
<1>3. PICK g \in [1..n -> 1..Len(life)] :
         /\ \A k \in 1..n : u[k] = life[g[k]]
         /\ \A k, l \in 1..n : k < l => g[k] < g[l]
  BY <1>1, UsableRows
<1>4. \A i \in DOMAIN u : u[i].hours # u[i].age =>
         \E j \in 1..i-1 : u[j].hours > u[i].hours
  BY DEF StraysShow
<1> HIDE DEF u
<1>5. n \in Nat /\ n >= 2 /\ DOMAIN u = 1..n /\ Last(u) = u[n] /\ Len(life) \in Nat
  BY <1>1, <1>2 DEF Last, u
<1>6. \A k \in 1..n : u[k].hours \in Int
  BY <1>1, <1>2
<1>7. ASSUME NEW k \in 1..n-1
      PROVE  u[k].hours <= u[n].hours
  <2>1. k \in 1..n /\ n \in 1..n /\ k < n
    BY <1>5
  <2>2. g[k] \in 1..Len(life) /\ g[n] \in 1..Len(life) /\ g[k] < g[n]
    BY <1>3, <2>1
  <2>3. g[k] \in 1..Len(life)-1
    BY <1>5, <2>2
  <2> QED
    BY <1>3, <1>5, <2>1, <2>3 DEF u
<1>8. p \in 1..n /\ \A j \in 1..p-1 :
         (\A k \in j..p-1 : u[k].hours <= u[n].hours) => u[j].hours <= u[p].hours
  BY <1>5 DEF Anchors, u
<1>9. u[p].hours = u[p].age
  <2> SUFFICES ASSUME u[p].hours # u[p].age
               PROVE  FALSE
    OBVIOUS
  <2>1. PICK j \in 1..p-1 : u[j].hours > u[p].hours
    BY <1>4, <1>5, <1>8
  <2>2. \A k \in j..p-1 : k \in 1..n-1
    BY <1>5, <1>8
  <2>3. u[j].hours <= u[p].hours
    BY <1>7, <1>8, <2>2
  <2>4. j \in 1..n
    BY <1>5, <1>8
  <2> QED
    BY <1>6, <1>8, <2>1, <2>3, <2>4
<1>10. u[n].hours = u[n].age
  <2> SUFFICES ASSUME u[n].hours # u[n].age
               PROVE  FALSE
    OBVIOUS
  <2>1. PICK j \in 1..n-1 : u[j].hours > u[n].hours
    BY <1>4, <1>5
  <2>2. j \in 1..n /\ n \in 1..n
    BY <1>5
  <2> QED
    BY <1>6, <1>7, <2>1, <2>2
<1>11. u[p].hours \in Int /\ u[n].hours \in Int
  BY <1>5, <1>6, <1>8
<1> QED
  BY <1>5, <1>9, <1>10, <1>11 DEF u

LEMMA SpansAreReal ==
  ASSUME TypeOK
  PROVE  SpanIsReal
<1> DEFINE u == Usable(series)
           n == Len(u)
           others == 1..Len(life)-1
<1> SUFFICES ASSUME StraysShow, series = life,
                    \/ Judged.verdict = "quiet" /\ \A i \in others : life[i].hours <= Newest.hours
                    \/ Judged.verdict = "rising" /\ \A i \in others : life[i].hours < Newest.hours
             PROVE  Judged.span = SpanOfHours
  BY DEF SpanIsReal
<1>1. life \in Seq(Reading) /\ \A r \in Reading : r.hours \in Int
  BY LivesAreBounded DEF TypeOK, Reading
<1>2. u \in Seq(Reading) /\ Newest = Last(u)
  BY <1>1, UsableRows DEF Newest
<1>3. PICK g \in [1..n -> 1..Len(life)] :
         /\ \A k \in 1..n : u[k] = life[g[k]]
         /\ \A k, l \in 1..n : k < l => g[k] < g[l]
  BY <1>1, UsableRows
<1>4. ASSUME NEW p \in Anchors(u), n >= 2, Judged.from = p,
             Judged.span = Last(u).hours - u[p].hours,
             \A i \in others : life[i].hours <= Newest.hours
      PROVE  Judged.span = SpanOfHours
  <2>1. u[p].hours = u[p].age /\ Last(u).hours = Last(u).age
    BY <1>2, <1>4, AnchorsAreTrue
  <2> QED
    BY <1>4, <2>1 DEF SpanOfHours, SpanRow, Newest
<1>5. n \in Nat
  BY <1>2
<1>6. CASE Judged.verdict = "quiet" /\ \A i \in others : life[i].hours <= Newest.hours
  <2>1. ~ (n < 2) /\ Judged = Quiet(u, MinSpan, QuietMin)
    BY <1>6, WhatAVerdictMeans DEF Judged
  <2>2. Judged.from = QuietRunStart(u) /\ Judged.span = Last(u).hours - u[QuietRunStart(u)].hours
    BY <2>1 DEF Quiet
  <2>3. QuietRunStart(u) \in Anchors(u)
    <3> HIDE DEF u
    <3>1. u # <<>>
      BY <2>1
    <3> QED
      BY <1>1, <1>2, <3>1, QuietRunHolds
  <2> QED
    BY <1>4, <1>5, <1>6, <2>1, <2>2, <2>3
<1>7. CASE Judged.verdict = "rising" /\ \A i \in others : life[i].hours < Newest.hours
  <2> DEFINE p == PreviousReading(u)
  <2>1. ~ (n < 2) /\ Judged = Rising(u, p, MinSpan)
    BY <1>7, WhatAVerdictMeans DEF Judged
  <2>2. Judged.from = p /\ Judged.span = Last(u).hours - u[p].hours
    BY <2>1 DEF Rising
  <2> HIDE DEF u
  <2>3. Last(u) = u[n] /\ n \in 1..n /\ DOMAIN u = 1..n
    BY <1>2, <1>5, <2>1 DEF Last
  <2>4. \A k \in 1..n : u[k].hours \in Int
    BY <1>1, <1>2
  <2>5. \A k \in 1..n-1 : u[k].hours < u[n].hours
    <3> SUFFICES ASSUME NEW k \in 1..n-1
                 PROVE  u[k].hours < u[n].hours
      OBVIOUS
    <3>1. k \in 1..n /\ k < n
      BY <1>5
    <3>2. g[k] \in 1..Len(life) /\ g[n] \in 1..Len(life) /\ g[k] < g[n]
      BY <1>3, <2>3, <3>1
    <3>3. g[k] \in others
      BY <1>1, <3>2
    <3> QED
      BY <1>2, <1>3, <1>7, <2>3, <3>1, <3>3
  <2>6. p \in Anchors(u)
    <3> DEFINE earlier  == {i \in 1..n-1 : u[i].hours # Last(u).hours}
               anchored == earlier \cap Anchors(u)
    <3>1. 1 \in Anchors(u) /\ 1 \in 1..n-1
      <4>1. 1 \in 1..n /\ 1 \in 1..n-1 /\ 1..1-1 = {}
        BY <1>5, <2>1
      <4>2. u[1].hours <= u[n].hours
        BY <2>3, <2>4, <2>5, <4>1
      <4> QED
        BY <2>3, <4>1, <4>2 DEF Anchors
    <3>2. 1 \in anchored
      BY <2>3, <2>4, <2>5, <3>1
    <3>3. anchored \in SUBSET (1..n)
      BY <1>5
    <3>4. p = Max(anchored)
      BY <3>2 DEF PreviousReading
    <3> HIDE DEF anchored
    <3>5. Max(anchored) \in anchored
      BY <1>5, <3>2, <3>3, EndsOf
    <3> QED
      BY <3>4, <3>5 DEF anchored
  <2>7. \A i \in others : life[i].hours <= Newest.hours
    <3>1. \A i \in others : life[i].hours \in Int
      BY <1>1
    <3>2. Newest.hours \in Int
      BY <1>2, <2>3, <2>4
    <3> QED
      BY <1>7, <3>1, <3>2
  <2> QED
    BY <1>4, <1>5, <2>1, <2>2, <2>6, <2>7
<1> QED
  BY <1>6, <1>7

\* No span is stated that the drive did not live, and no silence of another
\* drive's: a misread row anchors nothing, and a silence stays within one run of
\* the clock.
THEOREM OnlyTheLivedIsClaimed == Spec => []NothingUnlivedIsClaimed
<1>1. Spec => []TypeOK
  BY SeriesStarts, SeriesStays, PTL DEF Spec, SeriesInv
<1>2. TypeOK => NothingUnlivedIsClaimed
  BY QuietIsOfOneRun, SpansAreReal DEF NothingUnlivedIsClaimed
<1> QED
  BY <1>1, <1>2, PTL

-----------------------------------------------------------------------------
(* On a drive in order, thinning changes no verdict.                       *)

\* Clock and counter only climb from row to row.
Climbs(s) ==
  /\ \A i \in 1..Len(s) : s[i].hours \in Nat /\ s[i].count \in Nat
  /\ \A i, j \in 1..Len(s) : i < j => s[i].hours < s[j].hours /\ s[i].count <= s[j].count

\* Rows picked from a climb climb.
LEMMA SelectionClimbs ==
  ASSUME NEW t, NEW s, NEW f, NEW c, Selects(t, s, f, c), Climbs(s)
  PROVE  Climbs(t)
<1>1. /\ \A k \in 1..Len(t) : f[k] \in 1..Len(s) /\ t[k] = s[f[k]]
      /\ \A k, l \in 1..Len(t) : k < l => f[k] < f[l]
  BY DEF Selects
<1>2. /\ \A i \in 1..Len(s) : s[i].hours \in Nat /\ s[i].count \in Nat
      /\ \A i, j \in 1..Len(s) : i < j => s[i].hours < s[j].hours /\ s[i].count <= s[j].count
  BY DEF Climbs
<1>3. \A k \in 1..Len(t) : t[k].hours \in Nat /\ t[k].count \in Nat
  BY <1>1, <1>2
<1>4. ASSUME NEW k \in 1..Len(t), NEW l \in 1..Len(t), k < l
      PROVE  t[k].hours < t[l].hours /\ t[k].count <= t[l].count
  <2>1. f[k] \in 1..Len(s) /\ f[l] \in 1..Len(s) /\ f[k] < f[l]
    BY <1>1, <1>4
  <2>2. s[f[k]].hours < s[f[l]].hours /\ s[f[k]].count <= s[f[l]].count
    BY <1>2, <2>1
  <2> QED
    BY <1>1, <2>2
<1> QED
  BY <1>3, <1>4 DEF Climbs

\* A reading no lower than the last folded into a climb leaves one.
LEMMA FoldClimbs ==
  ASSUME NEW S, NEW s \in Seq(S), NEW x \in S, Climbs(s),
         x.hours \in Nat, x.count \in Nat,
         s # <<>> => Last(s).hours <= x.hours /\ Last(s).count <= x.count
  PROVE  Climbs(FoldIn(s, x)) /\ Last(FoldIn(s, x)) = x
<1> DEFINE n == Len(s)
<1>0. n \in Nat /\ (s # <<>> <=> n > 0)
  OBVIOUS
<1>1. /\ \A i \in 1..n : s[i].hours \in Nat /\ s[i].count \in Nat
      /\ \A i, j \in 1..n : i < j => s[i].hours < s[j].hours /\ s[i].count <= s[j].count
      /\ s # <<>> => s[n].hours <= x.hours /\ s[n].count <= x.count
  BY DEF Climbs, Last
<1>2. CASE s # <<>> /\ Last(s).hours = x.hours
  <2> DEFINE r == [s EXCEPT ![n] = x]
  <2>1. FoldIn(s, x) = r /\ n \in 1..n /\ s[n].hours = x.hours
    BY <1>0, <1>2 DEF FoldIn, Last
  <2>2. Len(r) = n /\ \A i \in 1..n : r[i] = IF i = n THEN x ELSE s[i]
    BY <2>1, ExceptSeq
  <2> HIDE DEF r
  <2>3. \A i \in 1..n : r[i].hours \in Nat /\ r[i].count \in Nat
    BY <1>1, <2>2
  <2>4. ASSUME NEW i \in 1..n, NEW j \in 1..n, i < j
        PROVE  r[i].hours < r[j].hours /\ r[i].count <= r[j].count
    <3>1. i # n /\ r[i] = s[i]
      BY <1>0, <2>2, <2>4
    <3>2. s[i].hours < s[j].hours /\ s[i].count <= s[j].count
      BY <1>1, <2>4
    <3>3. CASE j = n
      <4>1. r[j] = x /\ s[i].hours < x.hours
        BY <2>1, <2>2, <3>2, <3>3
      <4>2. s[i].count <= s[n].count /\ s[n].count <= x.count
        BY <1>1, <1>2, <3>2, <3>3
      <4>3. s[i].count \in Nat /\ s[n].count \in Nat
        BY <1>1, <2>1
      <4> QED
        BY <3>1, <4>1, <4>2, <4>3
    <3>4. CASE j # n
      BY <2>2, <3>1, <3>2, <3>4
    <3> QED
      BY <3>3, <3>4
  <2>5. Last(r) = x
    BY <2>1, <2>2 DEF Last
  <2> QED
    BY <2>1, <2>2, <2>3, <2>4, <2>5 DEF Climbs
<1>3. CASE ~ (s # <<>> /\ Last(s).hours = x.hours)
  <2> DEFINE r == Append(s, x)
  <2>1. FoldIn(s, x) = r
    BY <1>3 DEF FoldIn
  <2>2. Len(r) = n + 1 /\ r[n + 1] = x /\ \A i \in 1..n : r[i] = s[i]
    OBVIOUS
  <2> HIDE DEF r
  <2>3. \A i \in 1..n+1 : i = n + 1 \/ i \in 1..n
    BY <1>0
  <2>4. \A i \in 1..n+1 : r[i].hours \in Nat /\ r[i].count \in Nat
    BY <1>1, <2>2, <2>3
  <2>5. ASSUME NEW i \in 1..n
        PROVE  s[i].hours < x.hours /\ s[i].count <= x.count
    <3>1. n \in 1..n /\ s # <<>>
      BY <1>0
    <3>2. s[n].hours < x.hours /\ s[n].count <= x.count
      BY <1>1, <1>3, <3>1 DEF Last
    <3>3. i = n \/ (s[i].hours < s[n].hours /\ s[i].count <= s[n].count)
      BY <1>0, <1>1, <3>1
    <3>4. /\ s[i].hours \in Nat /\ s[n].hours \in Nat
          /\ s[i].count \in Nat /\ s[n].count \in Nat
      BY <1>1, <3>1
    <3> QED
      BY <3>2, <3>3, <3>4
  <2>6. ASSUME NEW i \in 1..n+1, NEW j \in 1..n+1, i < j
        PROVE  r[i].hours < r[j].hours /\ r[i].count <= r[j].count
    <3>1. i \in 1..n
      BY <1>0, <2>6
    <3>2. CASE j = n + 1
      BY <2>2, <2>5, <3>1, <3>2
    <3>3. CASE j \in 1..n
      BY <1>1, <2>2, <2>6, <3>1, <3>3
    <3> QED
      BY <2>3, <3>2, <3>3
  <2>7. Last(r) = x
    BY <2>2 DEF Last
  <2> QED
    BY <2>1, <2>2, <2>4, <2>6, <2>7 DEF Climbs
<1> QED
  BY <1>2, <1>3

\* On a climb every row may anchor, the reading before is the row before, and
\* the quiet run starts at the first row that holds the newest value.
LEMMA VerdictOfAClimb ==
  ASSUME NEW S, \A x \in S : x.hours \in Int, NEW s \in Seq(S), Climbs(s),
         NEW minSpan, NEW quietMin
  PROVE  LET n == Len(s)
             q == QuietRunStart(s)
         IN  /\ Usable(s) = s
             /\ n < 2 => TrendFor(s, minSpan, quietMin) = Refusal("first-sample")
             /\ ~ (n < 2) =>
                 /\ TrendFor(s, minSpan, quietMin) =
                      IF s[n].count > s[n - 1].count THEN Rising(s, n - 1, minSpan)
                                                     ELSE Quiet(s, minSpan, quietMin)
                 /\ q \in 1..n /\ s[q].count = s[n].count
                 /\ \A i \in 1..n : s[i].count = s[n].count => q <= i
<1> DEFINE n == Len(s)
           q == QuietRunStart(s)
<1>0. n \in Nat /\ DOMAIN s = 1..n
  OBVIOUS
<1>1. /\ \A i \in 1..n : s[i].hours \in Nat /\ s[i].count \in Nat
      /\ \A i, j \in 1..n : i < j => s[i].hours < s[j].hours /\ s[i].count <= s[j].count
  BY DEF Climbs
<1>2. Usable(s) = s
  <2>1. \A i \in 1..n : s[i].count # Unread
    BY <1>1 DEF Unread
  <2> QED
    BY <2>1, UsableRows
<1>3. n < 2 => TrendFor(s, minSpan, quietMin) = Refusal("first-sample")
  BY <1>0, <1>2 DEF TrendFor
<1>4. ASSUME ~ (n < 2)
      PROVE  /\ TrendFor(s, minSpan, quietMin) =
                   IF s[n].count > s[n - 1].count THEN Rising(s, n - 1, minSpan)
                                                  ELSE Quiet(s, minSpan, quietMin)
             /\ q \in 1..n /\ s[q].count = s[n].count
             /\ \A i \in 1..n : s[i].count = s[n].count => q <= i
  <2>1. n \in 1..n /\ n - 1 \in 1..n /\ n - 1 \in 1..n-1 /\ s # <<>> /\ Last(s) = s[n]
    BY <1>0, <1>4 DEF Last
  <2>2. \A i \in 1..n : s[i].hours <= s[n].hours /\ s[i].count <= s[n].count
    <3> SUFFICES ASSUME NEW i \in 1..n
                 PROVE  s[i].hours <= s[n].hours /\ s[i].count <= s[n].count
      OBVIOUS
    <3>1. CASE i = n
      <4>1. s[n].hours \in Nat /\ s[n].count \in Nat
        BY <1>1, <2>1
      <4>2. s[n].hours <= s[n].hours /\ s[n].count <= s[n].count
        BY <4>1
      <4> QED
        BY <3>1, <4>2
    <3>2. CASE i # n
      <4>1. i < n
        <5>1. n \in Nat /\ i \in 1..n /\ i # n
          BY <1>0, <3>2
        <5> HIDE DEF n
        <5> QED
          BY <5>1
      <4>2. s[i].hours < s[n].hours /\ s[i].count <= s[n].count
        BY <1>1, <2>1, <4>1
      <4>3. s[i].hours \in Nat /\ s[n].hours \in Nat
        BY <1>1, <2>1
      <4> QED
        BY <4>2, <4>3
    <3> QED
      BY <3>1, <3>2
  <2>3. Anchors(s) = 1..n
    <3>1. ASSUME NEW i \in 1..n, NEW j \in 1..i-1
          PROVE  s[j].hours <= s[i].hours
      <4>1. j \in 1..n /\ j < i
        BY <1>0
      <4> QED
        BY <1>1, <4>1
    <3> QED
      BY <1>0, <2>1, <2>2, <3>1 DEF Anchors
  <2>4. PreviousReading(s) = n - 1
    <3> DEFINE earlier  == {i \in 1..n-1 : s[i].hours # Last(s).hours}
               anchored == earlier \cap Anchors(s)
    <3>1. \A i \in 1..n-1 : i \in 1..n /\ s[i].hours # s[n].hours
      <4> SUFFICES ASSUME NEW i \in 1..n-1
                   PROVE  i \in 1..n /\ s[i].hours # s[n].hours
        OBVIOUS
      <4>1. i \in 1..n /\ i < n
        BY <1>0
      <4>2. s[i].hours < s[n].hours /\ s[i].hours \in Nat /\ s[n].hours \in Nat
        BY <1>1, <2>1, <4>1
      <4> QED
        BY <4>1, <4>2
    <3>2. anchored = 1..n-1
      BY <2>1, <2>3, <3>1
    <3>3. anchored # {} /\ PreviousReading(s) = Max(anchored)
      <4>1. anchored # {}
        BY <2>1, <3>2
      <4> QED
        BY <4>1 DEF PreviousReading
    <3> HIDE DEF anchored
    <3>4. Max(anchored) \in anchored /\ \A i \in anchored : i <= Max(anchored)
      <4>1. anchored \in SUBSET (1..n)
        BY <1>0, <3>2
      <4> QED
        BY <1>0, <3>3, <4>1, EndsOf
    <3>5. n - 1 \in anchored /\ Max(anchored) \in 1..n-1
      BY <2>1, <3>2, <3>4
    <3>6. n - 1 <= Max(anchored) /\ Max(anchored) <= n - 1 /\ Max(anchored) \in Int
      BY <1>0, <3>4, <3>5
    <3> QED
      BY <1>0, <3>3, <3>6
  <2>5. TrendFor(s, minSpan, quietMin) =
           IF s[n].count > s[n - 1].count THEN Rising(s, n - 1, minSpan)
                                          ELSE Quiet(s, minSpan, quietMin)
    <3>1. /\ s[n].hours >= s[n - 1].hours /\ ~ (s[n].hours < s[n - 1].hours)
          /\ ~ (s[n].count < s[n - 1].count)
      <4>1. s[n - 1].hours <= s[n].hours /\ s[n - 1].count <= s[n].count
        BY <2>1, <2>2
      <4>2. /\ s[n - 1].hours \in Nat /\ s[n].hours \in Nat
            /\ s[n - 1].count \in Nat /\ s[n].count \in Nat
        BY <1>1, <2>1
      <4> QED
        BY <4>1, <4>2
    <3>2. n >= 2 /\ ~ (n < 2)
      BY <1>0, <1>4
    <3> QED
      BY <1>2, <2>1, <2>4, <3>1, <3>2 DEF TrendFor
  <2>6. q \in 1..n /\ s[q].count = s[n].count
    <3>1. q \in Anchors(s) /\ \A i \in q..n : s[i].count = s[n].count
      BY <2>1, QuietRunHolds
    <3> QED
      BY <2>3, <3>1
  <2>7. ASSUME NEW i \in 1..n, s[i].count = s[n].count
        PROVE  q <= i
    <3>1. ASSUME NEW k \in i..n-1
          PROVE  /\ s[k].count = s[n].count
                 /\ \A a \in Anchors(s) : k < a => s[k].hours <= s[a].hours
      <4>1. k \in 1..n /\ (i = k \/ i < k)
        BY <1>0
      <4>2. s[i].count <= s[k].count /\ s[k].count <= s[n].count
        BY <1>1, <2>2, <4>1
      <4>3. s[k].count \in Nat /\ s[n].count \in Nat
        BY <1>1, <2>1, <4>1
      <4>4. s[k].count = s[n].count
        BY <2>7, <4>2, <4>3
      <4>5. \A a \in 1..n : k < a => s[k].hours <= s[a].hours
        BY <1>1, <4>1
      <4> QED
        BY <2>3, <4>4, <4>5
    <3>2. i \in Anchors(s)
      BY <2>3
    <3> QED
      BY <2>1, <3>1, <3>2, QuietRunHolds
  <2> QED
    BY <2>5, <2>6, <2>7
<1> QED
  BY <1>2, <1>3, <1>4

\* While a drive is in order its life climbs, up to what it reads now.
LifeClimbs ==
  Orderly => /\ Climbs(life)
             /\ life # <<>> => Last(life).hours <= drive.clock /\ Last(life).count <= drive.errors

LEMMA LifeKeepsClimbing ==
  ASSUME TypeOK, LifeClimbs, [Next]_vars
  PROVE  LifeClimbs'
<1>1. /\ drive \in [clock : 0..bound.hours, errors : 0..bound.errors,
                    run : 0..bound.falls, age : Nat]
      /\ mishaps \in [strays : 0..bound.strays, unread : 0..bound.unread]
      /\ life \in Seq(Reading)
  BY DEF TypeOK
<1>2. /\ drive.clock \in Nat /\ drive.errors \in Nat /\ drive.run \in Nat
      /\ mishaps.strays \in Nat /\ mishaps.unread \in Nat
  BY <1>1, LivesAreBounded DEF TypeOK
<1>3. life # <<>> => Last(life).hours \in Int /\ Last(life).count \in Int
  <2>1. \A r \in Reading : r.hours \in Int /\ r.count \in Int
    BY LivesAreBounded DEF TypeOK, Reading, Unread
  <2> QED
    BY <1>1, <2>1 DEF Last
<1>4. CASE UNCHANGED <<drive, mishaps, life>>
  BY <1>4 DEF LifeClimbs, Orderly
<1>5. CASE PowerOnHour
  <2>1. drive' = [clock |-> drive.clock + 1, errors |-> drive.errors,
                  run |-> drive.run, age |-> drive.age + 1]
    BY <1>1, <1>5 DEF PowerOnHour
  <2> QED
    BY <1>2, <1>3, <1>5, <2>1 DEF LifeClimbs, Orderly, PowerOnHour
<1>6. CASE GainError
  <2>1. drive' = [clock |-> drive.clock, errors |-> drive.errors + 1,
                  run |-> drive.run, age |-> drive.age]
    BY <1>1, <1>6 DEF GainError
  <2> QED
    BY <1>2, <1>3, <1>6, <2>1 DEF LifeClimbs, Orderly, GainError
<1>7. CASE ClockFalls
  <2>1. drive'.run = drive.run + 1
    BY <1>1, <1>7 DEF ClockFalls
  <2> QED
    BY <1>2, <2>1 DEF LifeClimbs, Orderly
<1>8. CASE RecordReading
  <2>1. /\ life' = FoldIn(life, ReadingNow) /\ UNCHANGED <<drive, mishaps>>
    BY <1>8 DEF RecordReading, Record
  <2>2. /\ ReadingNow \in Reading
        /\ ReadingNow.hours = drive.clock /\ ReadingNow.count = drive.errors
    BY <1>1 DEF ReadingNow, Reading
  <2> SUFFICES ASSUME Orderly
               PROVE  Climbs(life') /\ Last(life') = ReadingNow
    BY <1>2, <2>1, <2>2 DEF LifeClimbs, Orderly
  <2>3. Climbs(life) /\ (life # <<>> => /\ Last(life).hours <= ReadingNow.hours
                                       /\ Last(life).count <= ReadingNow.count)
    BY <2>2 DEF LifeClimbs
  <2> QED
    BY <1>1, <1>2, <2>1, <2>2, <2>3, FoldClimbs
<1>9. CASE RecordStrayHours
  <2>1. mishaps'.strays = mishaps.strays + 1
    BY <1>1, <1>9 DEF RecordStrayHours
  <2> QED
    BY <1>2, <2>1 DEF LifeClimbs, Orderly
<1>10. CASE RecordUnreadCounter
  <2>1. mishaps'.unread = mishaps.unread + 1
    BY <1>1, <1>10 DEF RecordUnreadCounter
  <2> QED
    BY <1>2, <2>1 DEF LifeClimbs, Orderly
<1>11. CASE SetCap
  BY <1>4, <1>11 DEF SetCap
<1>12. CASE UNCHANGED vars
  BY <1>4, <1>12 DEF vars
<1> QED
  BY <1>5, <1>6, <1>7, <1>8, <1>9, <1>10, <1>11, <1>12 DEF Next

\* A silence long enough to convince is convincing over any longer span too.
LEMMA LongerSilence ==
  ASSUME NEW count \in Nat, NEW a \in Int, NEW b \in Int, NEW c \in Int,
         a <= b, count * a >= c
  PROVE  count * b >= c
<1> DEFINE d == b - a
<1>1. d \in Nat /\ b = a + d
  OBVIOUS
<1> HIDE DEF d
<1>2. count * b = count * a + count * d
  BY <1>1
<1>3. count * d \in Nat /\ count * a \in Int
  BY <1>1
<1> QED
  BY <1>2, <1>3

LEMMA ThinnedTellsTheSame ==
  ASSUME SeriesInv, LifeClimbs
  PROVE  ThinningKeepsTheVerdict
<1> DEFINE n == Len(life)
           m == Len(series)
<1> SUFFICES ASSUME Orderly, floor >= 4
             PROVE  /\ Judged.verdict = "rising" <=> Known.verdict = "rising"
                    /\ Judged.verdict = "rising" =>
                         Judged.span = Known.span /\ Judged.delta = Known.delta
                    /\ Judged.verdict = "quiet" => Known.verdict = "quiet"
  BY DEF ThinningKeepsTheVerdict
<1>1. /\ series \in Seq(Reading) /\ life \in Seq(Reading)
      /\ \A r \in Reading : r.hours \in Int
      /\ floor \in Nat \ {0}
  BY LivesAreBounded DEF SeriesInv, TypeOK, Reading
<1>2. PICK f : Selects(series, life, f, floor)
  BY DEF SeriesInv
<1>3. Climbs(life) /\ Climbs(series)
  BY <1>2, SelectionClimbs DEF LifeClimbs
<1>4. n \in Nat /\ m \in Nat
  BY <1>1
<1>5. /\ f \in [1..m -> 1..n]
      /\ \A k \in 1..m : series[k] = life[f[k]]
      /\ \A k, l \in 1..m : k < l => f[k] < f[l]
      /\ n > 0 => m > 0 /\ f[m] = n
      /\ \A k \in 0..(floor \div 2)-1 : k < n => k < m /\ f[m - k] = n - k
  BY <1>1, <1>2 DEF Selects
<1>6. m < 2 <=> n < 2
  <2>1. n >= 2 => m >= 2
    <3>1. 1 \in 0..(floor \div 2)-1
      BY <1>1
    <3> QED
      BY <1>4, <1>5, <3>1
  <2>2. m >= 2 => n >= 2
    <3> SUFFICES ASSUME m >= 2
                 PROVE  n >= 2
      OBVIOUS
    <3>1. 1 \in 1..m /\ 2 \in 1..m
      BY <1>4
    <3>2. f[1] \in 1..n /\ f[2] \in 1..n /\ f[1] < f[2]
      BY <1>5, <3>1
    <3> QED
      BY <1>4, <3>2
  <2> QED
    BY <1>4, <2>1, <2>2
<1>7. CASE n < 2
  <2>1. Judged = Refusal("first-sample") /\ Known = Refusal("first-sample")
    BY <1>1, <1>3, <1>6, <1>7, VerdictOfAClimb DEF Judged, Known
  <2> QED
    BY <2>1 DEF Refusal
<1>8. CASE ~ (n < 2)
  <2>1. /\ m \in 1..m /\ n \in 1..n /\ m - 1 \in 1..m /\ n - 1 \in 1..n
        /\ ~ (m < 2)
        /\ series[m] = life[n] /\ series[m - 1] = life[n - 1]
    <3>1. 1 \in 0..(floor \div 2)-1
      BY <1>1
    <3>2. ~ (m < 2) /\ f[m] = n /\ f[m - 1] = n - 1
      BY <1>4, <1>5, <1>6, <1>8, <3>1
    <3>3. m \in 1..m /\ n \in 1..n /\ m - 1 \in 1..m /\ n - 1 \in 1..n
      BY <1>4, <1>8, <3>2
    <3>4. series[m] = life[f[m]] /\ series[m - 1] = life[f[m - 1]]
      BY <1>5, <3>3
    <3> QED
      BY <3>2, <3>3, <3>4
  <2>2. Last(series) = series[m] /\ Last(life) = life[n]
    BY DEF Last
  <2>3. /\ Judged = IF series[m].count > series[m - 1].count
                    THEN Rising(series, m - 1, MinSpan)
                    ELSE Quiet(series, MinSpan, QuietMin)
        /\ Known = IF life[n].count > life[n - 1].count
                   THEN Rising(life, n - 1, MinSpan)
                   ELSE Quiet(life, MinSpan, QuietMin)
    BY <1>1, <1>3, <1>8, <2>1, VerdictOfAClimb DEF Judged, Known
  <2>4. CASE life[n].count > life[n - 1].count
    <3>1. Judged = Rising(series, m - 1, MinSpan) /\ Known = Rising(life, n - 1, MinSpan)
      BY <2>1, <2>3, <2>4
    <3>2. /\ Judged.verdict = Known.verdict /\ Judged.span = Known.span
          /\ Judged.delta = Known.delta /\ Judged.verdict # "quiet"
      BY <2>1, <2>2, <3>1 DEF Rising
    <3> QED
      BY <3>2
  <2>5. CASE ~ (life[n].count > life[n - 1].count)
    <3> DEFINE p == QuietRunStart(series)
               q == QuietRunStart(life)
               a == life[n].hours - series[p].hours
               b == life[n].hours - life[q].hours
    <3>1. Judged = Quiet(series, MinSpan, QuietMin) /\ Known = Quiet(life, MinSpan, QuietMin)
      BY <2>1, <2>3, <2>5
    <3>2. Judged.verdict # "rising" /\ Known.verdict # "rising"
      BY <3>1 DEF Quiet
    <3>3. /\ p \in 1..m /\ series[p].count = series[m].count
          /\ q \in 1..n /\ \A i \in 1..n : life[i].count = life[n].count => q <= i
      BY <1>1, <1>3, <1>8, <2>1, VerdictOfAClimb
    <3>4. f[p] \in 1..n /\ series[p] = life[f[p]] /\ q <= f[p]
      BY <1>5, <2>1, <3>3
    <3>5. a \in Int /\ b \in Int /\ a <= b /\ life[n].count \in Nat /\ life[n].hours \in Nat
      <4>1. life[q].hours \in Nat /\ life[f[p]].hours \in Nat
        BY <1>3, <3>3, <3>4 DEF Climbs
      <4>2. q < f[p] => life[q].hours < life[f[p]].hours
        BY <1>3, <3>3, <3>4 DEF Climbs
      <4>3. q = f[p] \/ q < f[p]
        BY <3>3, <3>4
      <4>4. life[q].hours <= life[f[p]].hours
        BY <4>1, <4>2, <4>3
      <4>5. life[n].count \in Nat /\ life[n].hours \in Nat
        BY <1>3, <2>1 DEF Climbs
      <4> QED
        BY <3>4, <4>1, <4>4, <4>5
    <3>6. Judged.verdict = "quiet" => /\ a >= MinSpan /\ life[n].hours > 0
                                      /\ life[n].count * a >= QuietMin * life[n].hours
      BY <2>1, <2>2, <3>1 DEF Quiet
    <3>7. /\ b >= MinSpan /\ life[n].hours > 0
          /\ life[n].count * b >= QuietMin * life[n].hours
          => Known.verdict = "quiet"
      BY <2>2, <3>1 DEF Quiet
    <3> HIDE DEF a, b
    <3>8. ASSUME Judged.verdict = "quiet"
          PROVE  Known.verdict = "quiet"
      <4>1. MinSpan \in Nat /\ QuietMin \in Nat
        BY ThresholdsAreSet
      <4>2. QuietMin * life[n].hours \in Int
        BY <3>5, <4>1
      <4>3. life[n].count * b >= QuietMin * life[n].hours
        BY <3>5, <3>6, <3>8, <4>2, LongerSilence
      <4>4. b >= MinSpan
        BY <3>5, <3>6, <3>8, <4>1
      <4> QED
        BY <3>6, <3>7, <3>8, <4>3, <4>4
    <3> QED
      BY <3>2, <3>8
  <2> QED
    BY <2>4, <2>5
<1> QED
  BY <1>7, <1>8

\* However often and under whatever caps a drive's series was thinned, a counter
\* is called rising when the whole record would call it so, at the same rate, and
\* quiet only when the whole record would.
THEOREM VerdictsSurviveThinning == Spec => []ThinningKeepsTheVerdict
<1>1. Init => LifeClimbs
  BY DEF Init, LifeClimbs, Climbs
<1>2. SeriesInv /\ LifeClimbs /\ [Next]_vars => SeriesInv' /\ LifeClimbs'
  BY SeriesStays, LifeKeepsClimbing DEF SeriesInv
<1>3. SeriesInv /\ LifeClimbs => ThinningKeepsTheVerdict
  BY ThinnedTellsTheSame
<1> QED
  BY <1>1, <1>2, <1>3, SeriesStarts, PTL DEF Spec
=============================================================================
