---------------------------- MODULE DriveHistory ----------------------------
(***************************************************************************)
(* One drive, watched over years: its clock and one error counter move,    *)
(* every run of lsdsk that records folds a reading into the stored series  *)
(* and thins it again, and the verdict is computed from what is left.      *)
(* Beside the stored series the model keeps the drive's whole life, which  *)
(* no run of the program ever holds, so that what thinning and the verdict *)
(* rules conclude can be compared with what happened.                      *)
(***************************************************************************)
EXTENDS CounterSeries

CONSTANTS
  MinSpan,       \* thresholds.min_span_hours
  QuietMin,      \* thresholds.quiet_expected_min
  Lives          \* bounds on a drive's life, one record for each kind of life

\* caps: the values of max_samples_per_drive a user sets; hours and errors: what
\* clock and counter reach; readings: how many are recorded; falls: how often the
\* clock restarts (a swap, a firmware reset); strays: readings whose hours were
\* misread; unread: readings whose counter could not be seen.
ASSUME LivesAreBounded ==
  \A l \in Lives :
    /\ l.caps \subseteq Nat \ {0} /\ l.caps # {}
    /\ {l.hours, l.errors, l.readings, l.falls, l.strays, l.unread} \subseteq Nat
ASSUME ThresholdsAreSet == MinSpan \in Nat \ {0} /\ QuietMin \in Nat \ {0}

VARIABLES
  bound,    \* the bounds on this life
  drive,    \* the drive itself: its clock, its counter, which run of the clock this is
  cap,      \* max_samples_per_drive as configured now
  series,   \* the series as stored
  written,  \* the cap series was last written under (0: never)
  floor,    \* the smallest cap any recording has used
  life,     \* every reading ever recorded, unthinned
  mishaps   \* how many strays and unread counters there have been

vars == <<bound, drive, cap, series, written, floor, life, mishaps>>

\* age counts the hours of the drive's whole record, through every restart; run
\* and age are the model's, the program sees hours and count only.
Reading == [hours : 0..bound.hours, count : 0..bound.errors \cup {Unread},
            run : 0..bound.falls, age : Nat]

TypeOK ==
  /\ bound \in Lives
  /\ drive \in [clock : 0..bound.hours, errors : 0..bound.errors, run : 0..bound.falls, age : Nat]
  /\ cap \in bound.caps /\ written \in bound.caps \cup {0} /\ floor \in bound.caps
  /\ series \in Seq(Reading) /\ life \in Seq(Reading)
  /\ mishaps \in [strays : 0..bound.strays, unread : 0..bound.unread]

Init ==
  /\ bound \in Lives
  /\ drive = [clock |-> 0, errors |-> 0, run |-> 0, age |-> 0]
  /\ cap \in bound.caps /\ written = 0 /\ floor = cap
  /\ series = <<>> /\ life = <<>>
  /\ mishaps = [strays |-> 0, unread |-> 0]

-----------------------------------------------------------------------------
(* The drive.                                                              *)

PowerOnHour ==
  /\ drive.clock < bound.hours
  /\ drive' = [drive EXCEPT !.clock = @ + 1, !.age = @ + 1]
  /\ UNCHANGED <<bound, cap, series, written, floor, life, mishaps>>

GainError ==
  /\ drive.errors < bound.errors
  /\ drive' = [drive EXCEPT !.errors = @ + 1]
  /\ UNCHANGED <<bound, cap, series, written, floor, life, mishaps>>

\* A firmware reset, or another drive behind an unchanged identity.
ClockFalls ==
  /\ drive.run < bound.falls
  /\ \E h \in 0..drive.clock-1, e \in 0..bound.errors :
       drive' = [drive EXCEPT !.clock = h, !.errors = e, !.run = @ + 1]
  /\ UNCHANGED <<bound, cap, series, written, floor, life, mishaps>>

-----------------------------------------------------------------------------
(* The program.                                                            *)

\* Slip: the hour the drive is in counts as completed.
SlipReadingAhead == [hours |-> drive.clock + 1, count |-> drive.errors,
                     run |-> drive.run, age |-> drive.age]

ReadingNow == [hours |-> drive.clock, count |-> drive.errors,
               run |-> drive.run, age |-> drive.age]

\* One run: load caps the stored series, record folds the reading in and thins.
Record(x) ==
  /\ Len(life) < bound.readings
  /\ series'  = Thin(FoldIn(Thin(series, cap), x), cap)
  /\ written' = cap
  /\ floor'   = IF cap < floor THEN cap ELSE floor
  /\ life'    = FoldIn(life, x)
  /\ UNCHANGED <<bound, drive, cap>>

RecordReading == Record(ReadingNow) /\ UNCHANGED mishaps

RecordStrayHours ==
  /\ mishaps.strays < bound.strays
  /\ \E h \in 0..drive.clock-1 : Record([ReadingNow EXCEPT !.hours = h])
  /\ mishaps' = [mishaps EXCEPT !.strays = @ + 1]

RecordUnreadCounter ==
  /\ mishaps.unread < bound.unread
  /\ Record([ReadingNow EXCEPT !.count = Unread])
  /\ mishaps' = [mishaps EXCEPT !.unread = @ + 1]

\* The user sets max_samples_per_drive; the store is thinned when it is next read.
SetCap ==
  /\ cap' \in bound.caps \ {cap}
  /\ UNCHANGED <<bound, drive, series, written, floor, life, mishaps>>

Next ==
  \/ PowerOnHour \/ GainError \/ ClockFalls
  \/ RecordReading \/ RecordStrayHours \/ RecordUnreadCounter
  \/ SetCap

Spec == Init /\ [][Next]_vars

-----------------------------------------------------------------------------
(* What thinning promises.                                                 *)

\* The store never grows past the cap it was written under, whatever the clock
\* does: an oscillating one once kept every reading of a cap of 512.
CapRespected == written # 0 => Len(series) <= written

\* What is stored is a selection of what was read, in the order it was read:
\* thinning an already thinned series invents, repeats and reorders nothing.
NothingInvented ==
  \E I \in SUBSET DOMAIN life : Cardinality(I) = Len(series) /\ series = At(life, I)

\* The first reading ever recorded stays, through any number of passes and any
\* change of the cap among values that can hold a baseline.
BaselineKept == (written # 0 /\ floor >= 3) => series[1] = life[1]

\* The newest half-cap of readings is there in full: a live fault is judged on it.
RecentKeptInFull ==
  LET half == floor \div 2
      n    == IF Len(life) < half THEN Len(life) ELSE half
  IN  (written # 0 /\ floor >= 3) =>
        \A k \in 0..n-1 : series[Len(series) - k] = life[Len(life) - k]

-----------------------------------------------------------------------------
(* What a verdict promises.                                                *)

Judged  == TrendFor(series, MinSpan, QuietMin)
Known   == TrendFor(life, MinSpan, QuietMin)
Newest  == Last(Usable(series))
SpanRow == Usable(series)[Judged.from]
Orderly == drive.run = 0 /\ mishaps = [strays |-> 0, unread |-> 0]

\* On a drive whose clock and counter only climb, thinning never changes whether
\* a counter is called rising, nor at what rate, and never turns a refusal into
\* the claim that it is quiet: losing rows can only shorten the silence seen.
ThinningKeepsTheVerdict ==
  (Orderly /\ floor >= 4) =>
     /\ Judged.verdict = "rising" <=> Known.verdict = "rising"
     /\ Judged.verdict = "rising" =>
          Judged.span = Known.span /\ Judged.delta = Known.delta
     /\ Judged.verdict = "quiet" => Known.verdict = "quiet"

\* A misread row can be told for one when an earlier row stands above it; only
\* rows that saw the counter are looked at, so only they can tell.
StraysShow ==
  LET seen == Usable(life)
  IN  \A i \in DOMAIN seen : seen[i].hours # seen[i].age =>
         \E j \in 1..i-1 : seen[j].hours > seen[i].hours

SpanOfHours == Newest.age - SpanRow.age

\* A span lsdsk states is one the drive was really powered for: a misread row
\* the clock has carried on past anchors neither a silence nor, once the clock
\* stands above every earlier row, a rate. It is the rule for anchors that is in
\* question, so nothing has been thinned away yet.
SpanIsReal ==
  LET others == 1..Len(life)-1
      back   == \A i \in others : life[i].hours <= Newest.hours
      past   == \A i \in others : life[i].hours <  Newest.hours
  IN  (/\ drive.run = 0 /\ StraysShow /\ series = life
       /\ \/ Judged.verdict = "quiet" /\ back
          \/ Judged.verdict = "rising" /\ past) => Judged.span = SpanOfHours

\* After the last of run r among these rows, or in it, a row stands past the
\* newest hour: to whoever reads them the clock has fallen since that run.
FallShows(rows, r) ==
  \E j \in DOMAIN rows :
    /\ rows[j].hours > Newest.hours
    /\ \A i \in DOMAIN rows : rows[i].run = r => i <= j

QuietIsApartFrom(rows) ==
  LET seen == Usable(series)
  IN  Judged.verdict = "quiet" =>
        \A i \in Judged.from..Len(seen) :
          seen[i].run = Newest.run \/ ~FallShows(rows, seen[i].run)

\* A silence holds no row of an earlier run of the clock whose end the stored rows
\* show: a swapped drive does not vouch for the one before it.  A clock that has
\* climbed back past all that is stored of that run looks like one run.
QuietStaysInOneRun == QuietIsApartFrom(Usable(series))

\* The same of every end that was ever read.  Thinning breaks it: it may drop the
\* rows that stood past the newest hour and keep older ones of the same run.
ThinningKeepsTheFall == QuietIsApartFrom(Usable(life))

\* After a real reset a rate is based on the new run, never on the old clock: no
\* row of its span stands past the newest hour.  The first reading of the new run
\* breaks it.
RateStaysInOneRun ==
  Judged.verdict = "rising" =>
    \A i \in Judged.from..Len(Usable(series)) : Usable(series)[i].hours <= Newest.hours

\* What is stored through any number of passes: within the cap, a selection of
\* what was read, with its first row and its newest half.
SeriesIsSound ==
  TypeOK /\ CapRespected /\ NothingInvented /\ BaselineKept /\ RecentKeptInFull

\* No span is stated that the drive did not live, and no silence of another drive's
\* where what is stored tells the two apart.
NothingUnlivedIsClaimed == SpanIsReal /\ QuietStaysInOneRun
=============================================================================
