----------------------------- MODULE LawsProofs -----------------------------
(***************************************************************************)
(* Theorems about the rules: what each of them is held to, for any input   *)
(* the question about it can grow to, however large.                       *)
(***************************************************************************)
EXTENDS Laws, PortProofs

-----------------------------------------------------------------------------
(* Recording.                                                              *)

\* What a file may hold and a run may read.
RowsOfAFile == [hours : 0..MaxHour, count : 0..MaxCount]
SeriesOfAFile == [identity : Names, samples : Seq(RowsOfAFile)]
DisksOfARun == [wwn : Names \cup {NoIdentity}, serial : Serials \cup {NoIdentity},
                hours : 0..MaxHour \cup {Unread}, count : {0}]

RecordingAsked ==
  topic = "recordings" =>
    /\ input = [stored |-> stored, disks |-> disks]
    /\ stored \in Seq(SeriesOfAFile) /\ disks \in Seq(DisksOfARun)

LEMMA RowsAreRows ==
  /\ MaxHour \in Nat /\ MaxCount \in Nat /\ SampleCap \in Nat /\ SampleCap > 0
  /\ \A x \in RowsOfAFile : x.hours \in 0..MaxHour
  /\ \A x \in RowsOfAFile : x.hours \in Int
  /\ \A d \in DisksOfARun : d.hours # Unread => SampleFrom(d) \in RowsOfAFile
<1>1. MaxHour \in Nat /\ MaxCount \in Nat /\ SampleCap \in Nat /\ SampleCap > 0
  BY SizesAreNat
<1>2. \A x \in RowsOfAFile : x.hours \in 0..MaxHour /\ x.hours \in Int
  BY <1>1 DEF RowsOfAFile
<1>3. ASSUME NEW d \in DisksOfARun, d.hours # Unread
      PROVE  SampleFrom(d) \in RowsOfAFile
  <2>1. d.hours \in 0..MaxHour /\ d.count = 0
    BY <1>3 DEF DisksOfARun
  <2> QED BY <1>1, <2>1 DEF SampleFrom, RowsOfAFile
<1> QED BY <1>1, <1>2, <1>3

\* The copies of one drive, in file order.
CopiesTaken(id) ==
  [i \in 1..Cardinality(CopiesOf(id)) |-> stored[Nth(CopiesOf(id), i)].samples]

LEMMA CopiesAre ==
  ASSUME stored \in Seq(SeriesOfAFile), NEW id
  PROVE  /\ CopiesOf(id) \in SUBSET (1..Len(stored)) /\ Cardinality(CopiesOf(id)) \in Nat
         /\ CopiesTaken(id) \in Seq(Seq(RowsOfAFile))
         /\ DOMAIN CopiesTaken(id) = 1..Cardinality(CopiesOf(id))
         /\ \A i \in 1..Cardinality(CopiesOf(id)) :
              /\ Nth(CopiesOf(id), i) \in CopiesOf(id)
              /\ CopiesTaken(id)[i] = stored[Nth(CopiesOf(id), i)].samples
         /\ \A k \in CopiesOf(id) :
              /\ PlaceOf(CopiesOf(id), k) \in 1..Cardinality(CopiesOf(id))
              /\ Nth(CopiesOf(id), PlaceOf(CopiesOf(id), k)) = k
         /\ \A k, l \in CopiesOf(id) : k < l => PlaceOf(CopiesOf(id), k) < PlaceOf(CopiesOf(id), l)
<1> DEFINE K == CopiesOf(id)
           c == CopiesTaken(id)
<1>1. K \in SUBSET (1..Len(stored)) /\ Len(stored) \in Nat
  BY DEF CopiesOf
<1>2. \A k \in K : stored[k].samples \in Seq(RowsOfAFile)
  <2>1. \A k \in K : stored[k] \in SeriesOfAFile
    BY <1>1
  <2> QED BY <2>1 DEF SeriesOfAFile
<1>3. c = [i \in 1..Cardinality(K) |-> stored[Nth(K, i)].samples]
  BY DEF CopiesTaken
<1> HIDE DEF K, c
<1>4. /\ Cardinality(K) \in Nat
      /\ \A i \in 1..Cardinality(K) : Nth(K, i) \in K
      /\ \A k \in K : Nth(K, PlaceOf(K, k)) = k
      /\ \A k \in K : PlaceOf(K, k) \in 1..Cardinality(K)
      /\ \A k, l \in K : k < l => PlaceOf(K, k) < PlaceOf(K, l)
  BY <1>1, PositionsAreFinite, NthInOrder, RankGrows
<1>5. \A i \in 1..Cardinality(K) : c[i] = stored[Nth(K, i)].samples /\ c[i] \in Seq(RowsOfAFile)
  BY <1>2, <1>3, <1>4
<1>6. c \in Seq(Seq(RowsOfAFile)) /\ DOMAIN c = 1..Cardinality(K)
  <2>1. c = [i \in 1..Cardinality(K) |-> c[i]]
    BY <1>3
  <2> QED BY <1>4, <1>5, <2>1
<1> QED BY <1>1, <1>4, <1>5, <1>6 DEF K, c

LEMMA MergedStoreIs ==
  ASSUME stored \in Seq(SeriesOfAFile)
  PROVE  /\ DOMAIN MergeDuplicateSeries(stored) = {stored[k].identity : k \in DOMAIN stored}
         /\ \A id \in DOMAIN MergeDuplicateSeries(stored) :
              /\ MergeDuplicateSeries(stored)[id] \in Seq(RowsOfAFile)
              /\ Cardinality(CopiesOf(id)) # 1 =>
                   MergeDuplicateSeries(stored)[id] = MergeCopies(CopiesTaken(id))
<1> DEFINE m == MergeDuplicateSeries(stored)
           ids == {stored[k].identity : k \in DOMAIN stored}
<1>1. m = [id \in ids |-> IF Cardinality(CopiesOf(id)) = 1 THEN CopiesTaken(id)[1]
                                                           ELSE MergeCopies(CopiesTaken(id))]
  BY DEF MergeDuplicateSeries, CopiesOf, CopiesTaken
<1> HIDE DEF m
<1>2. ASSUME NEW id \in ids
      PROVE  m[id] \in Seq(RowsOfAFile)
  <2>1. CopiesTaken(id) \in Seq(Seq(RowsOfAFile))
        /\ DOMAIN CopiesTaken(id) = 1..Cardinality(CopiesOf(id))
    BY CopiesAre
  <2>2. MergeCopies(CopiesTaken(id)) \in Seq(RowsOfAFile)
    BY <2>1, RowsAreRows, MergedCopies DEF MergesRight
  <2>3. ASSUME Cardinality(CopiesOf(id)) = 1
        PROVE  CopiesTaken(id)[1] \in Seq(RowsOfAFile)
    <3> DEFINE c == CopiesTaken(id)
    <3>1. c \in Seq(Seq(RowsOfAFile)) /\ 1 \in DOMAIN c
      BY <2>1, <2>3
    <3> HIDE DEF c
    <3>2. c[1] \in Seq(RowsOfAFile)
      BY <3>1
    <3> QED BY <3>2 DEF c
  <2>4. m[id] = IF Cardinality(CopiesOf(id)) = 1 THEN CopiesTaken(id)[1]
                                                 ELSE MergeCopies(CopiesTaken(id))
    BY <1>1
  <2> QED BY <2>2, <2>3, <2>4
<1> QED BY <1>1, <1>2 DEF m

\* The history a run starts from: rows of the file, no series longer than the cap.
LEMMA HistoryIs ==
  ASSUME stored \in Seq(SeriesOfAFile)
  PROVE  \A id \in DOMAIN History : History[id] \in Seq(RowsOfAFile) /\ Len(History[id]) <= SampleCap
<1>1. /\ DOMAIN History = DOMAIN MergeDuplicateSeries(stored)
      /\ \A id \in DOMAIN History : History[id] = Thin(MergeDuplicateSeries(stored)[id], SampleCap)
  BY DEF History, Capped
<1>2. SampleCap \in Nat \ {0} /\ \A x \in RowsOfAFile : x.hours \in Int
  BY RowsAreRows
<1> QED BY <1>1, <1>2, MergedStoreIs, ThinSelects

LEMMA TrackedAreRead ==
  ASSUME disks \in Seq(DisksOfARun)
  PROVE  \A i \in Tracked(disks) : SampleFrom(disks[i]) \in RowsOfAFile
<1>1. ASSUME NEW i \in Tracked(disks)
      PROVE  SampleFrom(disks[i]) \in RowsOfAFile
  <2>1. i \in DOMAIN disks /\ disks[i].hours # Unread
    BY DEF Tracked, Recordable, HasTimeBase
  <2>2. disks[i] \in DisksOfARun
    BY <2>1
  <2> QED BY <2>1, <2>2, RowsAreRows
<1> QED BY <1>1

LEMMA NoHourIsLost ==
  ASSUME RecordingAsked
  PROVE  MergeLosesNoHour
<1> SUFFICES ASSUME topic = "recordings", stored \in Seq(SeriesOfAFile),
                    NEW id \in {i \in Names : Cardinality(CopiesOf(i)) > 1}
             PROVE  LET merged == MergeDuplicateSeries(stored)[id] IN
                    /\ Hours(merged) = UNION {Hours(stored[k].samples) : k \in CopiesOf(id)}
                    /\ \A i \in 1..Len(merged)-1 : merged[i].hours < merged[i + 1].hours
                    /\ \A i \in DOMAIN merged : \E k \in CopiesOf(id) : \E j \in DOMAIN stored[k].samples :
                         /\ stored[k].samples[j] = merged[i]
                         /\ \A l \in CopiesOf(id) : \A m \in DOMAIN stored[l].samples :
                              (l > k \/ (l = k /\ m > j)) => stored[l].samples[m].hours # merged[i].hours
  BY DEF RecordingAsked, MergeLosesNoHour, OnRecordings
<1> DEFINE K == CopiesOf(id)
           c == CopiesTaken(id)
           merged == MergeDuplicateSeries(stored)[id]
<1>1. /\ K \in SUBSET (1..Len(stored)) /\ c \in Seq(Seq(RowsOfAFile)) /\ DOMAIN c = 1..Cardinality(K)
      /\ \A i \in 1..Cardinality(K) : Nth(K, i) \in K /\ c[i] = stored[Nth(K, i)].samples
      /\ \A k \in K : PlaceOf(K, k) \in 1..Cardinality(K) /\ Nth(K, PlaceOf(K, k)) = k
      /\ \A k, l \in K : k < l => PlaceOf(K, k) < PlaceOf(K, l)
  BY CopiesAre
<1>2. id \in DOMAIN MergeDuplicateSeries(stored) /\ Cardinality(K) > 1 /\ Cardinality(K) \in Nat
  <2>1. Cardinality(K) > 1 /\ Cardinality(K) \in Nat
    BY CopiesAre
  <2>2. Nth(K, 1) \in K
    BY <1>1, <2>1
  <2>3. Nth(K, 1) \in DOMAIN stored /\ stored[Nth(K, 1)].identity = id
    BY <2>2 DEF CopiesOf
  <2> QED BY <2>1, <2>3, MergedStoreIs
<1>3. merged = MergeCopies(c)
  BY <1>2, MergedStoreIs
<1> HIDE DEF K, c, merged
<1>4. /\ {merged[i].hours : i \in DOMAIN merged} = HoursOf(c)
      /\ \A i \in 1..Len(merged)-1 : merged[i].hours < merged[i + 1].hours
      /\ \A i \in DOMAIN merged : \E at : StandsLast(c, at) /\ RowAt(c, at) = merged[i]
  <2>1. MaxHour \in Nat /\ \A x \in RowsOfAFile : x.hours \in 0..MaxHour
    BY RowsAreRows
  <2>2. MergesRight(RowsOfAFile, c, MergeCopies(c))
    BY <1>1, <2>1, MergedCopies
  <2> QED BY <1>3, <2>2 DEF MergesRight
<1>5. Hours(merged) = UNION {Hours(stored[k].samples) : k \in K}
  <2>1. ASSUME NEW h \in HoursOf(c)
        PROVE  \E k \in K : h \in Hours(stored[k].samples)
    <3>1. PICK at \in RowPlaces(c) : h = RowAt(c, at).hours
      BY <2>1 DEF HoursOf
    <3>2. PICK i, j : i \in DOMAIN c /\ j \in DOMAIN c[i] /\ at = <<i, j>>
      BY <3>1, WhereRowsStand
    <3>3. c[i] = stored[Nth(K, i)].samples /\ Nth(K, i) \in K /\ h = c[i][j].hours
      BY <1>1, <3>1, <3>2 DEF RowAt
    <3> QED BY <3>2, <3>3 DEF Hours
  <2>2. ASSUME NEW k \in K, NEW h \in Hours(stored[k].samples)
        PROVE  h \in HoursOf(c)
    <3> DEFINE i == PlaceOf(K, k)
    <3>1. i \in DOMAIN c /\ c[i] = stored[k].samples
      BY <1>1
    <3>2. PICK j \in DOMAIN c[i] : h = c[i][j].hours
      BY <2>2, <3>1 DEF Hours
    <3>3. <<i, j>> \in RowPlaces(c) /\ RowAt(c, <<i, j>>).hours = h
      BY <3>1, <3>2, WhereRowsStand DEF RowAt
    <3> QED BY <3>3 DEF HoursOf
  <2>3. Hours(merged) = HoursOf(c)
    BY <1>4 DEF Hours
  <2> QED BY <2>1, <2>2, <2>3
<1>6. ASSUME NEW i \in DOMAIN merged
      PROVE  \E k \in K : \E j \in DOMAIN stored[k].samples :
               /\ stored[k].samples[j] = merged[i]
               /\ \A l \in K : \A m \in DOMAIN stored[l].samples :
                    (l > k \/ (l = k /\ m > j)) => stored[l].samples[m].hours # merged[i].hours
  <2>1. PICK at : StandsLast(c, at) /\ RowAt(c, at) = merged[i]
    BY <1>4
  <2>2. PICK p, j : p \in DOMAIN c /\ j \in DOMAIN c[p] /\ at = <<p, j>>
    BY <2>1, WhereRowsStand DEF StandsLast
  <2> DEFINE k == Nth(K, p)
  <2>3. k \in K /\ c[p] = stored[k].samples /\ stored[k].samples[j] = merged[i] /\ PlaceOf(K, k) = p
    <3>1. k \in K /\ c[p] = stored[k].samples
      BY <1>1, <2>2
    <3>2. c[p][j] = merged[i]
      BY <2>1, <2>2 DEF RowAt
    <3>3. PlaceOf(K, Nth(K, p)) = p
      <4>1. Len(stored) \in Nat
        OBVIOUS
      <4> QED BY <1>1, <2>2, <4>1, NthInOrder
    <3> QED BY <3>1, <3>2, <3>3
  <2> HIDE DEF k
  <2>4. ASSUME NEW l \in K, NEW m \in DOMAIN stored[l].samples, l > k \/ (l = k /\ m > j)
        PROVE  stored[l].samples[m].hours # merged[i].hours
    <3> DEFINE r == PlaceOf(K, l)
    <3>1. r \in DOMAIN c /\ c[r] = stored[l].samples
      BY <1>1
    <3>2. k \in Int /\ l \in Int /\ (l > k => r > p) /\ (l = k => r = p)
      BY <1>1, <2>3
    <3>3. StandsAfter(<<r, m>>, at)
      BY <2>2, <2>4, <3>2 DEF StandsAfter
    <3>4. <<r, m>> \in RowPlaces(c) /\ RowAt(c, <<r, m>>) = stored[l].samples[m]
      BY <3>1, WhereRowsStand DEF RowAt
    <3> QED BY <2>1, <3>3, <3>4 DEF StandsLast
  <2> QED BY <2>2, <2>3, <2>4
<1> QED BY <1>4, <1>5, <1>6 DEF K, merged

LEMMA AllAccountedFor ==
  EveryDriveAccountedFor
<1> DEFINE named == {pair[1] : pair \in UntrackedDisks(disks)}
<1>1. \A i : i \in named <=>
        i \in DOMAIN disks /\ (IdentityOf(disks[i]) \in Colliding(disks) \/ ~Recordable(disks[i]))
  <2> DEFINE untracked == {k \in DOMAIN disks : \/ IdentityOf(disks[k]) \in Colliding(disks)
                                                \/ ~Recordable(disks[k])}
  <2>1. UntrackedDisks(disks) = {<<i, UntrackedReason(disks, i)>> : i \in untracked}
    BY DEF UntrackedDisks
  <2> HIDE DEF untracked
  <2>2. named = untracked
    <3>1. ASSUME NEW i \in named
          PROVE  i \in untracked
      BY <2>1, <3>1
    <3>2. ASSUME NEW i \in untracked
          PROVE  i \in named
      <4>1. <<i, UntrackedReason(disks, i)>> \in UntrackedDisks(disks)
        BY <2>1
      <4> QED BY <4>1
    <3> QED BY <3>1, <3>2
  <2> QED BY <2>2 DEF untracked
<1>2. \A i : i \in Tracked(disks) <=>
        i \in DOMAIN disks /\ Recordable(disks[i]) /\ IdentityOf(disks[i]) \notin Colliding(disks)
  BY DEF Tracked
<1> HIDE DEF named
<1>3. Tracked(disks) \cup named = DOMAIN disks /\ Tracked(disks) \cap named = {}
  BY <1>1, <1>2
<1> QED BY <1>3 DEF EveryDriveAccountedFor, named

LEMMA SharedAreLeftAlone ==
  ASSUME RecordingAsked
  PROVE  OnlyTrackedAreTouched
<1> SUFFICES ASSUME NEW after, after = RecordInto(History, disks, SampleCap),
                    NEW id \in DOMAIN after,
                    NEW i \in DOMAIN disks, NEW j \in DOMAIN disks, i # j,
                    IdentityOf(disks[i]) = id, IdentityOf(disks[j]) = id
             PROVE  id \in DOMAIN History /\ after[id] = History[id]
  BY DEF OnlyTrackedAreTouched
<1>1. id \in Colliding(disks)
  BY DEF Colliding
<1>2. id \notin TrackedNames(disks)
  BY <1>1 DEF TrackedNames, Tracked
<1>3. SampleCap \in Nat
  BY RowsAreRows
<1>4. DOMAIN after = DOMAIN History \cup TrackedNames(disks)
  BY <1>3, RecordedIs
<1>5. id \in DOMAIN History
  BY <1>2, <1>4
<1> QED BY <1>2, <1>3, <1>5, RecordedIs

LEMMA DecliningLosesNothing ==
  ASSUME RecordingAsked
  PROVE  DecliningLosesNoHour
<1> SUFFICES ASSUME topic = "recordings", stored \in Seq(SeriesOfAFile), disks \in Seq(DisksOfARun),
                    ~HasNewReadings(History, disks),
                    NEW after, after = RecordInto(History, disks, SampleCap)
             PROVE  /\ DOMAIN after = DOMAIN History
                    /\ \A id \in DOMAIN after : Hours(after[id]) = Hours(History[id])
  BY DEF RecordingAsked, DecliningLosesNoHour, OnRecordings
<1>1. SameHours(after, History)
  <2>1. SampleCap \in Nat /\ \A x \in RowsOfAFile : x.hours \in Int
    BY RowsAreRows
  <2>2. \A id \in DOMAIN History : History[id] \in Seq(RowsOfAFile) /\ Len(History[id]) <= SampleCap
    BY HistoryIs
  <2>3. \A i \in Tracked(disks) : SampleFrom(disks[i]) \in RowsOfAFile
    BY TrackedAreRead
  <2> QED BY <2>1, <2>2, <2>3, DecliningChangesNoHour
<1>2. ASSUME NEW id \in DOMAIN after
      PROVE  Hours(after[id]) = Hours(History[id])
  BY <1>1 DEF Hours, SameHours
<1> QED BY <1>1, <1>2 DEF SameHours

LEMMA AgainIsOnce ==
  ASSUME RecordingAsked
  PROVE  RecordingAgainChangesNothing
<1> SUFFICES ASSUME topic = "recordings", stored \in Seq(SeriesOfAFile), disks \in Seq(DisksOfARun)
             PROVE  TakenInOnce(History, disks, SampleCap)
  BY DEF TakenInOnce, RecordingAsked, RecordingAgainChangesNothing, OnRecordings
<1> QED
  <2>1. SampleCap \in Nat /\ SampleCap > 0 /\ \A x \in RowsOfAFile : x.hours \in Int
    BY RowsAreRows
  <2>2. \A id \in DOMAIN History : History[id] \in Seq(RowsOfAFile)
    BY HistoryIs
  <2>3. \A i \in Tracked(disks) : SampleFrom(disks[i]) \in RowsOfAFile
    BY TrackedAreRead
  <2> QED BY <2>1, <2>2, <2>3, RecordingTwiceIsOnce

\* A file grows by series and by rows, a reading by drives.
LEMMA RecordingsGrow ==
  ASSUME topic = "recordings", RecordingAsked, AddSeries \/ AddRow \/ ReadDisk
  PROVE  /\ input' = [stored |-> stored, disks |-> disks]'
         /\ stored' \in Seq(SeriesOfAFile) /\ disks' \in Seq(DisksOfARun)
<1>1. /\ input = [stored |-> stored, disks |-> disks]
      /\ stored \in Seq(SeriesOfAFile) /\ disks \in Seq(DisksOfARun)
  BY DEF RecordingAsked
<1>2. MaxHour \in Nat /\ MaxCount \in Nat
  BY RowsAreRows
<1>3. CASE AddSeries
  <2>1. PICK id \in Names :
          input' = [input EXCEPT !.stored = Append(@, [identity |-> id, samples |-> <<>>])]
    BY <1>3 DEF AddSeries, Build
  <2> DEFINE one == [identity |-> id, samples |-> <<>>]
             more == Append(stored, one)
  <2>2. one \in SeriesOfAFile
    BY DEF SeriesOfAFile
  <2>3. more \in Seq(SeriesOfAFile)
    BY <1>1, <2>2
  <2> HIDE DEF one
  <2>6. input' = [input EXCEPT !.stored = more]
    BY <2>1 DEF stored, one
  <2> HIDE DEF more
  <2>4. input' = [stored |-> more, disks |-> disks]
    BY <1>1, <2>6
  <2>5. stored' = more /\ disks' = disks
    BY <2>4 DEF stored, disks
  <2> QED BY <1>1, <2>3, <2>4, <2>5
<1>4. CASE AddRow
  <2>1. PICK k \in DOMAIN stored, h \in 0..MaxHour, c \in 0..MaxCount :
          input' = [input EXCEPT !.stored[k].samples = Append(@, [hours |-> h, count |-> c])]
    BY <1>4 DEF AddRow, Build
  <2> DEFINE row == [hours |-> h, count |-> c]
             one == [stored[k] EXCEPT !.samples = Append(stored[k].samples, row)]
             more == [stored EXCEPT ![k] = one]
  <2>2. row \in RowsOfAFile /\ stored[k] \in SeriesOfAFile
    BY <1>1 DEF RowsOfAFile
  <2>3. one \in SeriesOfAFile
    <3>1. stored[k].samples \in Seq(RowsOfAFile)
      BY <2>2 DEF SeriesOfAFile
    <3> DEFINE rows == Append(stored[k].samples, row)
    <3>2. rows \in Seq(RowsOfAFile)
      <4> HIDE DEF row
      <4> QED BY <2>2, <3>1
    <3> HIDE DEF rows
    <3>3. [stored[k] EXCEPT !.samples = rows] \in SeriesOfAFile
      BY <2>2, <3>2 DEF SeriesOfAFile
    <3> QED BY <3>3 DEF rows
  <2>4. more \in Seq(SeriesOfAFile)
    <3> HIDE DEF one
    <3> QED BY <1>1, <2>3
  <2>5. input' = [input EXCEPT !.stored = more]
    BY <2>1 DEF stored
  <2> HIDE DEF more
  <2>6. input' = [stored |-> more, disks |-> disks]
    BY <1>1, <2>5
  <2>7. stored' = more /\ disks' = disks
    BY <2>6 DEF stored, disks
  <2> QED BY <1>1, <2>4, <2>6, <2>7
<1>5. CASE ReadDisk
  <2>1. PICK w \in Names \cup {NoIdentity}, s \in Serials \cup {NoIdentity},
             h \in 0..MaxHour \cup {Unread} :
          input' = [input EXCEPT !.disks =
                     Append(@, [wwn |-> w, serial |-> s, hours |-> h, count |-> 0])]
    BY <1>5 DEF ReadDisk, Build
  <2> DEFINE one == [wwn |-> w, serial |-> s, hours |-> h, count |-> 0]
             more == Append(disks, one)
  <2>2. one \in DisksOfARun
    BY DEF DisksOfARun
  <2>3. more \in Seq(DisksOfARun)
    <3> HIDE DEF one
    <3> QED BY <1>1, <2>2
  <2>4. input' = [input EXCEPT !.disks = more]
    BY <2>1 DEF disks
  <2> HIDE DEF more
  <2>5. input' = [stored |-> stored, disks |-> more]
    BY <1>1, <2>4
  <2>6. stored' = stored /\ disks' = more
    BY <2>5 DEF stored, disks
  <2> QED BY <1>1, <2>3, <2>5, <2>6
<1> QED BY <1>3, <1>4, <1>5

-----------------------------------------------------------------------------
(* Verdicts on a drive.                                                    *)

\* What a drive can be read as.
DriveReadings ==
  [ok : {"unread", "passed", "failed"}, failing : Int, used : Int, reallocated : Int,
   pending : Int, uncorrectable : Int, media : Int, crc : Int, slow : BOOLEAN,
   temperature : Int, warm : Int, hot : Int]

Trends == {"rising", "quiet", "untold"}
Organs == HistoryKinds \cup {"wear", "temperature", "attributes"}
Severities == {"critical", "warning", "hint"}

\* How urgent a counter is before its history is asked.
Plain(d, about) ==
  IF about \in {"pending", "uncorrectable"} THEN "critical"
  ELSE IF about = "crc" /\ d.crc < 100 /\ ~d.slow THEN "hint" ELSE "warning"

\* What is said of one organ of a drive.
Spoken(d, h, about) ==
  IF about = "self-assessment" THEN (IF d.ok = "failed" THEN {"critical"} ELSE {})
  ELSE IF about = "attributes" THEN (IF d.failing > 0 THEN {"critical"} ELSE {})
  ELSE IF about = "wear"
       THEN (IF d.used < 80 THEN {} ELSE IF d.used >= 95 THEN {"critical"} ELSE {"warning"})
  ELSE IF about = "temperature"
       THEN (IF d.temperature = NotRead THEN {}
             ELSE IF d.hot # NotRead /\ d.temperature >= d.hot THEN {"critical"}
             ELSE IF d.warm # NotRead /\ d.temperature >= d.warm THEN {"warning"} ELSE {})
  ELSE IF d[about] \in {NotRead, 0} THEN {} ELSE {Refined(Plain(d, about), h[about])}

\* The grades, and how a history moves them.
LEMMA Grades ==
  /\ Rank("critical") = 1 /\ Rank("warning") = 2 /\ Rank("hint") = 3
  /\ \A s \in Severities : OneStepInSeverity(s, TRUE) = (IF s = "hint" THEN "warning" ELSE "critical")
  /\ \A s \in Severities : OneStepInSeverity(s, FALSE) = (IF s = "critical" THEN "warning" ELSE "hint")
<1>1. Rank("critical") = 1 /\ Rank("warning") = 2 /\ Rank("hint") = 3
  <2>1. /\ SeverityRanking[1] = "critical" /\ SeverityRanking[2] = "warning"
        /\ SeverityRanking[3] = "hint" /\ 1..3 = {1, 2, 3}
    BY DEF SeverityRanking
  <2> QED BY <2>1 DEF Rank
<1>2. /\ \A x \in 1..3 : Max({x - 1, 1}) = IF x = 1 THEN 1 ELSE x - 1
      /\ \A x \in 1..3 : Min({x + 1, 3}) = IF x = 3 THEN 3 ELSE x + 1
  BY DEF Max, Min
<1>3. /\ SeverityRanking[1] = "critical" /\ SeverityRanking[2] = "warning" /\ SeverityRanking[3] = "hint"
  BY DEF SeverityRanking
<1> QED
  BY <1>1, <1>2, <1>3 DEF OneStepInSeverity, Severities

\* A finding is always graded, and a history changes its grade by a step at most.
LEMMA RefinedGrades ==
  ASSUME NEW s \in Severities, NEW t \in Trends
  PROVE  /\ Refined(s, t) \in Severities
         /\ Rank(Refined(s, "rising")) <= Rank(Refined(s, t))
         /\ Rank(Refined(s, t)) <= Rank(Refined(s, "quiet"))
         /\ Rank(Refined(s, t)) \in 1..3 /\ Refined(s, "untold") = s
         /\ \A r \in Severities : Rank(r) <= Rank(s) => Rank(Refined(r, t)) <= Rank(Refined(s, t))
<1>1. /\ Refined(s, "rising") = IF s = "hint" THEN "warning" ELSE "critical"
      /\ Refined(s, "quiet") = IF s = "critical" THEN "warning" ELSE "hint"
      /\ Refined(s, "untold") = s
  BY Grades DEF Refined
<1>2. \A r \in Severities :
        /\ Refined(r, "rising") = IF r = "hint" THEN "warning" ELSE "critical"
        /\ Refined(r, "quiet") = IF r = "critical" THEN "warning" ELSE "hint"
        /\ Refined(r, "untold") = r
  BY Grades DEF Refined
<1>3. Rank("critical") = 1 /\ Rank("warning") = 2 /\ Rank("hint") = 3
  BY Grades
<1>4. CASE t = "rising"
  BY <1>1, <1>2, <1>3, <1>4 DEF Severities
<1>5. CASE t = "quiet"
  BY <1>1, <1>2, <1>3, <1>5 DEF Severities
<1>6. CASE t = "untold"
  BY <1>1, <1>2, <1>3, <1>6 DEF Severities
<1> QED
  BY <1>4, <1>5, <1>6 DEF Trends

\* The findings of a drive are, organ by organ, what is said of it.
LEMMA WhatIsSaid ==
  ASSUME NEW d \in DriveReadings, NEW h \in [HistoryKinds -> Trends]
  PROVE  Range(DiagnoseHealth(d, h)) =
           UNION {{[about |-> a, severity |-> s] : s \in Spoken(d, h, a)} :
                    a \in Organs \cup {"self-assessment"}}
<1> DEFINE F == [about : Organs \cup {"self-assessment"}, severity : Severities]
           One(a) == {[about |-> a, severity |-> s] : s \in Spoken(d, h, a)}
<1>1. \A s, t \in Seq(F) : s \o t \in Seq(F) /\ Range(s \o t) = Range(s) \cup Range(t)
  BY RangeConcatenation, ConcatProperties
<1>2. /\ <<>> \in Seq(F) /\ Range(<<>>) = {}
      /\ \A f \in F : <<f>> \in Seq(F) /\ Range(<<f>>) = {f}
  BY DEF Range
<1>3. \A a \in HistoryKinds : d[a] \in Int /\ Plain(d, a) \in Severities /\ h[a] \in Trends
  BY DEF HistoryKinds, DriveReadings, Plain, Severities
<1>4. ASSUME NEW a \in HistoryKinds
      PROVE  /\ Counted(a, d[a], Plain(d, a), h) \in Seq(F)
             /\ Range(Counted(a, d[a], Plain(d, a), h)) = One(a)
  <2>1. [about |-> a, severity |-> Refined(Plain(d, a), h[a])] \in F
    BY <1>3, RefinedGrades DEF Organs
  <2>2. Spoken(d, h, a) = IF d[a] \in {NotRead, 0} THEN {} ELSE {Refined(Plain(d, a), h[a])}
    BY DEF Spoken, HistoryKinds
  <2> HIDE DEF F
  <2> QED BY <1>2, <2>1, <2>2 DEF Counted
<1>5. /\ SelftestFindings(d) \in Seq(F) /\ Range(SelftestFindings(d)) = One("self-assessment")
  <2>1. Spoken(d, h, "self-assessment") = IF d.ok = "failed" THEN {"critical"} ELSE {}
    BY DEF Spoken
  <2>2. [about |-> "self-assessment", severity |-> "critical"] \in F
    BY DEF Severities, Organs
  <2> HIDE DEF F
  <2> QED BY <1>2, <2>1, <2>2 DEF SelftestFindings
<1>6. /\ AttributeFindings(d) \in Seq(F) /\ Range(AttributeFindings(d)) = One("attributes")
  <2>1. Spoken(d, h, "attributes") = IF d.failing > 0 THEN {"critical"} ELSE {}
    BY DEF Spoken
  <2>2. [about |-> "attributes", severity |-> "critical"] \in F
    BY DEF Severities, Organs
  <2> HIDE DEF F
  <2> QED BY <1>2, <2>1, <2>2 DEF AttributeFindings
<1>7. /\ WearFindings(d) \in Seq(F) /\ Range(WearFindings(d)) = One("wear")
  <2>1. Spoken(d, h, "wear") = IF d.used < 80 THEN {} ELSE IF d.used >= 95 THEN {"critical"} ELSE {"warning"}
    BY DEF Spoken
  <2>2. /\ [about |-> "wear", severity |-> "critical"] \in F
        /\ [about |-> "wear", severity |-> "warning"] \in F
    BY DEF Severities, Organs
  <2> HIDE DEF F
  <2> QED BY <1>2, <2>1, <2>2 DEF WearFindings, Thresholds
<1>8. /\ TemperatureFindings(d) \in Seq(F) /\ Range(TemperatureFindings(d)) = One("temperature")
  <2>1. Spoken(d, h, "temperature") =
         IF d.temperature = NotRead THEN {}
         ELSE IF d.hot # NotRead /\ d.temperature >= d.hot THEN {"critical"}
         ELSE IF d.warm # NotRead /\ d.temperature >= d.warm THEN {"warning"} ELSE {}
    BY DEF Spoken
  <2>2. /\ [about |-> "temperature", severity |-> "critical"] \in F
        /\ [about |-> "temperature", severity |-> "warning"] \in F
    BY DEF Severities, Organs
  <2> HIDE DEF F
  <2> QED BY <1>2, <2>1, <2>2 DEF TemperatureFindings
<1>9. /\ SectorFindings(d, h) \in Seq(F)
      /\ Range(SectorFindings(d, h)) = One("reallocated") \cup One("pending") \cup One("uncorrectable") \cup One("media")
  <2>1. /\ Plain(d, "reallocated") = "warning" /\ Plain(d, "pending") = "critical"
        /\ Plain(d, "uncorrectable") = "critical" /\ Plain(d, "media") = "warning"
    BY DEF Plain
  <2>2. {"reallocated", "pending", "uncorrectable", "media"} \subseteq HistoryKinds
    BY DEF HistoryKinds
  <2> DEFINE r == Counted("reallocated", d.reallocated, "warning", h)
             p == Counted("pending", d.pending, "critical", h)
             u == Counted("uncorrectable", d.uncorrectable, "critical", h)
             m == Counted("media", d.media, "warning", h)
  <2> HIDE DEF F, One
  <2>3. /\ r \in Seq(F) /\ Range(r) = One("reallocated") /\ p \in Seq(F) /\ Range(p) = One("pending")
        /\ u \in Seq(F) /\ Range(u) = One("uncorrectable") /\ m \in Seq(F) /\ Range(m) = One("media")
    BY <1>4, <2>1, <2>2
  <2>4. SectorFindings(d, h) = r \o p \o u \o m
    BY DEF SectorFindings
  <2> HIDE DEF r, p, u, m
  <2>5. /\ r \o p \in Seq(F) /\ Range(r \o p) = Range(r) \cup Range(p)
    BY <1>1, <2>3
  <2>6. /\ r \o p \o u \in Seq(F) /\ Range(r \o p \o u) = Range(r \o p) \cup Range(u)
    BY <1>1, <2>3, <2>5
  <2>7. /\ r \o p \o u \o m \in Seq(F) /\ Range(r \o p \o u \o m) = Range(r \o p \o u) \cup Range(m)
    BY <1>1, <2>3, <2>6
  <2> QED BY <2>3, <2>4, <2>5, <2>6, <2>7
<1>10. /\ CrcFindings(d, h) \in Seq(F) /\ Range(CrcFindings(d, h)) = One("crc")
  <2>1. Plain(d, "crc") = IF d.crc < Thresholds.crc /\ ~d.slow THEN "hint" ELSE "warning"
    BY DEF Plain, Thresholds
  <2>2. "crc" \in HistoryKinds
    BY DEF HistoryKinds
  <2> HIDE DEF F, One
  <2> QED BY <1>4, <2>1, <2>2 DEF CrcFindings
<1>11. Range(DiagnoseHealth(d, h)) =
         One("self-assessment") \cup One("attributes") \cup One("wear")
           \cup (One("reallocated") \cup One("pending") \cup One("uncorrectable") \cup One("media"))
           \cup One("crc") \cup One("temperature")
  <2> DEFINE o == SelftestFindings(d)
             f == AttributeFindings(d)
             w == WearFindings(d)
             c == SectorFindings(d, h)
             x == CrcFindings(d, h)
             t == TemperatureFindings(d)
  <2>1. DiagnoseHealth(d, h) = o \o f \o w \o c \o x \o t
    BY DEF DiagnoseHealth
  <2> HIDE DEF F, One
  <2>2. /\ o \in Seq(F) /\ f \in Seq(F) /\ w \in Seq(F) /\ c \in Seq(F) /\ x \in Seq(F) /\ t \in Seq(F)
    BY <1>5, <1>6, <1>7, <1>8, <1>9, <1>10
  <2>3. /\ Range(o) = One("self-assessment") /\ Range(f) = One("attributes") /\ Range(w) = One("wear")
        /\ Range(c) = One("reallocated") \cup One("pending") \cup One("uncorrectable") \cup One("media")
        /\ Range(x) = One("crc") /\ Range(t) = One("temperature")
    BY <1>5, <1>6, <1>7, <1>8, <1>9, <1>10
  <2> HIDE DEF o, f, w, c, x, t
  <2>4. o \o f \in Seq(F) /\ Range(o \o f) = Range(o) \cup Range(f)
    BY <1>1, <2>2
  <2>5. o \o f \o w \in Seq(F) /\ Range(o \o f \o w) = Range(o \o f) \cup Range(w)
    BY <1>1, <2>2, <2>4
  <2>6. o \o f \o w \o c \in Seq(F) /\ Range(o \o f \o w \o c) = Range(o \o f \o w) \cup Range(c)
    BY <1>1, <2>2, <2>5
  <2>7. o \o f \o w \o c \o x \in Seq(F)
        /\ Range(o \o f \o w \o c \o x) = Range(o \o f \o w \o c) \cup Range(x)
    BY <1>1, <2>2, <2>6
  <2>8. Range(o \o f \o w \o c \o x \o t) = Range(o \o f \o w \o c \o x) \cup Range(t)
    BY <1>1, <2>2, <2>7
  <2> QED BY <2>1, <2>3, <2>4, <2>5, <2>6, <2>7, <2>8
<1> HIDE DEF One
<1>12. UNION {One(a) : a \in Organs \cup {"self-assessment"}} =
         One("self-assessment") \cup One("attributes") \cup One("wear")
           \cup (One("reallocated") \cup One("pending") \cup One("uncorrectable") \cup One("media"))
           \cup One("crc") \cup One("temperature")
  BY DEF Organs, HistoryKinds
<1> QED
  BY <1>11, <1>12 DEF One

LEMMA OneAtMost ==
  ASSUME NEW d \in DriveReadings, NEW h \in [HistoryKinds -> Trends],
         NEW a \in Organs
  PROVE  Spoken(d, h, a) = {} \/ \E s \in Severities : Spoken(d, h, a) = {s}
<1>1. CASE a \in HistoryKinds
  <2>1. Plain(d, a) \in Severities /\ h[a] \in Trends
    BY <1>1 DEF Plain, Severities
  <2>2. Refined(Plain(d, a), h[a]) \in Severities
    BY <2>1, RefinedGrades
  <2>3. Spoken(d, h, a) = IF d[a] \in {NotRead, 0} THEN {} ELSE {Refined(Plain(d, a), h[a])}
    BY <1>1 DEF Spoken, HistoryKinds
  <2> QED BY <2>2, <2>3
<1>2. CASE a = "wear"
  BY <1>2 DEF Spoken, Severities
<1>3. CASE a = "temperature"
  BY <1>3 DEF Spoken, Severities
<1>4. CASE a = "attributes"
  BY <1>4 DEF Spoken, Severities
<1> QED
  BY <1>1, <1>2, <1>3, <1>4 DEF Organs

\* How urgent an organ is: the grade of what is said of it, and the last where nothing is.
LEMMA RankOfAnOrgan ==
  ASSUME NEW d \in DriveReadings, NEW h \in [HistoryKinds -> Trends], NEW a \in Organs
  PROVE  /\ Spoken(d, h, a) = {} => RankOf(d, h, a) = 4
         /\ \A s \in Severities : Spoken(d, h, a) = {s} => RankOf(d, h, a) = Rank(s)
<1> DEFINE said == {f \in Range(DiagnoseHealth(d, h)) : f.about = a}
<1>1. said = {[about |-> a, severity |-> s] : s \in Spoken(d, h, a)}
  <2>1. Range(DiagnoseHealth(d, h)) =
           UNION {{[about |-> b, severity |-> s] : s \in Spoken(d, h, b)} :
                    b \in Organs \cup {"self-assessment"}}
    BY WhatIsSaid
  <2>2. ASSUME NEW f \in said
        PROVE  f \in {[about |-> a, severity |-> s] : s \in Spoken(d, h, a)}
    <3>1. PICK b \in Organs \cup {"self-assessment"} :
            \E s \in Spoken(d, h, b) : f = [about |-> b, severity |-> s]
      BY <2>1
    <3>2. b = a
      BY <3>1
    <3> QED BY <3>1, <3>2
  <2>3. ASSUME NEW s \in Spoken(d, h, a)
        PROVE  [about |-> a, severity |-> s] \in said
    BY <2>1
  <2> HIDE DEF said
  <2> QED BY <2>2, <2>3
<1>2. RankOf(d, h, a) = IF said = {} THEN 4 ELSE Min({Rank(f.severity) : f \in said})
  BY DEF RankOf
<1>3. ASSUME Spoken(d, h, a) = {}
      PROVE  RankOf(d, h, a) = 4
  <2> HIDE DEF said
  <2> QED BY <1>1, <1>2, <1>3
<1>4. ASSUME NEW s \in Severities, Spoken(d, h, a) = {s}
      PROVE  RankOf(d, h, a) = Rank(s)
  <2>1. said = {[about |-> a, severity |-> s]}
    <3> HIDE DEF said
    <3> QED BY <1>1, <1>4
  <2>2. {Rank(f.severity) : f \in said} = {Rank(s)}
    <3> HIDE DEF said
    <3> QED BY <2>1
  <2>3. Rank(s) \in Int
    BY Grades DEF Severities
  <2>4. Min({Rank(s)}) = Rank(s)
    BY <2>3 DEF Min
  <2> HIDE DEF said
  <2> QED BY <1>2, <2>1, <2>2, <2>4
<1> QED
  BY <1>3, <1>4

\* The drives that are asked about are readings, of counters that are not negative.
LEMMA DrivesAreReadings ==
  /\ Drives \subseteq DriveReadings
  /\ \A d \in Drives : \A a \in HistoryKinds \cup {"temperature"} : d[a] >= -1
  /\ Histories \subseteq [HistoryKinds -> Trends]
<1>1. Healthy \in DriveReadings
  BY DEF Healthy, DriveReadings, NotRead
<1>2. Counters \subseteq Int /\ \A c \in Counters : c >= -1
  BY DEF Counters, NotRead
<1> DEFINE Low(d) == /\ d.reallocated >= -1 /\ d.pending >= -1 /\ d.uncorrectable >= -1
                     /\ d.media >= -1 /\ d.crc >= -1 /\ d.temperature >= -1
<1>3. ASSUME NEW d \in Drives
      PROVE  d \in DriveReadings /\ Low(d)
  <2>1. ASSUME NEW r \in Counters, NEW p \in Counters,
               d = WithSectors(r, p)
        PROVE  d \in DriveReadings /\ Low(d)
    <3>1. r \in Int /\ p \in Int /\ r >= -1 /\ p >= -1 /\ NotRead \in Int /\ NotRead >= -1
      BY <1>2 DEF NotRead
    <3>2. d = [ok |-> "unread", failing |-> 0, used |-> NotRead, reallocated |-> r, pending |-> p, uncorrectable |-> NotRead,
               media |-> NotRead, crc |-> NotRead, slow |-> FALSE, temperature |-> NotRead, warm |-> NotRead, hot |-> NotRead]
      BY <2>1 DEF WithSectors, Healthy
    <3>3. d \in DriveReadings
      BY <3>1, <3>2 DEF DriveReadings
    <3>4. Low(d)
      BY <3>1, <3>2
    <3> HIDE DEF Low
    <3> QED BY <3>3, <3>4
  <2>2. ASSUME NEW c \in Counters \cup {99}, NEW s \in BOOLEAN, NEW m \in Counters,
               d = WithErrors(c, s, m)
        PROVE  d \in DriveReadings /\ Low(d)
    <3>1. c \in Int /\ m \in Int /\ c >= -1 /\ m >= -1 /\ NotRead \in Int /\ NotRead >= -1
      BY <1>2 DEF NotRead
    <3>2. d = [ok |-> "unread", failing |-> 0, used |-> NotRead, reallocated |-> NotRead, pending |-> NotRead, uncorrectable |-> NotRead,
               media |-> m, crc |-> c, slow |-> s, temperature |-> NotRead, warm |-> NotRead, hot |-> NotRead]
      BY <2>2 DEF WithErrors, Healthy
    <3>3. d \in DriveReadings
      BY <3>1, <3>2 DEF DriveReadings
    <3>4. Low(d)
      BY <3>1, <3>2
    <3> HIDE DEF Low
    <3> QED BY <3>3, <3>4
  <2>3. ASSUME NEW t \in {NotRead, 50, 60, 70}, NEW w \in {NotRead, 60}, NEW x \in {NotRead, 60, 70},
               NEW u \in {NotRead, 79, 80, 94, 95},
               d = WithWear(t, w, x, u)
        PROVE  d \in DriveReadings /\ Low(d)
    <3>1. t \in Int /\ w \in Int /\ x \in Int /\ u \in Int /\ t >= -1 /\ NotRead \in Int /\ NotRead >= -1
      BY <1>2 DEF NotRead
    <3>2. d = [ok |-> "unread", failing |-> 0, used |-> u, reallocated |-> NotRead, pending |-> NotRead, uncorrectable |-> NotRead,
               media |-> NotRead, crc |-> NotRead, slow |-> FALSE, temperature |-> t, warm |-> w, hot |-> x]
      BY <2>3 DEF WithWear, Healthy
    <3>3. d \in DriveReadings
      BY <3>1, <3>2 DEF DriveReadings
    <3>4. Low(d)
      BY <3>1, <3>2
    <3> HIDE DEF Low
    <3> QED BY <3>3, <3>4
  <2>4. ASSUME NEW o \in {"unread", "passed", "failed"}, NEW f \in 0..1, NEW c \in Counters,
               d = WithATest(o, f, c)
        PROVE  d \in DriveReadings /\ Low(d)
    <3>1. f \in Int /\ c \in Int /\ c >= -1 /\ NotRead \in Int /\ NotRead >= -1
      BY <1>2 DEF NotRead
    <3>2. d = [ok |-> o, failing |-> f, used |-> NotRead, reallocated |-> NotRead, pending |-> NotRead, uncorrectable |-> c,
               media |-> NotRead, crc |-> NotRead, slow |-> FALSE, temperature |-> NotRead, warm |-> NotRead, hot |-> NotRead]
      BY <2>4 DEF WithATest, Healthy
    <3>3. d \in DriveReadings
      BY <3>1, <3>2 DEF DriveReadings
    <3>4. Low(d)
      BY <3>1, <3>2
    <3> HIDE DEF Low
    <3> QED BY <3>3, <3>4
  <2> HIDE DEF Low
  <2>6. CASE d \in {WithSectors(r, p) : r \in Counters, p \in Counters}
    BY <2>1, <2>6
  <2>7. CASE d \in {WithErrors(c, s, m) : c \in Counters \cup {99}, s \in BOOLEAN, m \in Counters}
    BY <2>2, <2>7
  <2>8. CASE d \in {WithWear(t, w, x, u) :
                      t \in {NotRead, 50, 60, 70}, w \in {NotRead, 60}, x \in {NotRead, 60, 70},
                      u \in {NotRead, 79, 80, 94, 95}}
    BY <2>3, <2>8
  <2>9. CASE d \in {WithATest(o, f, c) : o \in {"unread", "passed", "failed"}, f \in 0..1, c \in Counters}
    BY <2>4, <2>9
  <2> QED BY <2>6, <2>7, <2>8, <2>9 DEF Drives
<1>4. ASSUME NEW d \in DriveReadings, Low(d)
      PROVE  \A a \in HistoryKinds \cup {"temperature"} : d[a] >= -1
  BY <1>4 DEF HistoryKinds
<1> QED
  BY <1>3, <1>4 DEF Histories, Trends

\* How far a counter is from being spoken of decides which of two drives is worse.
LEMMA WorseOrgans ==
  ASSUME NEW d \in Drives, NEW e \in Drives, NEW h \in Histories, NEW a \in Organs,
         NoBetter(d, e)
  PROVE  RankOf(e, h, a) <= RankOf(d, h, a)
<1>1. d \in DriveReadings /\ e \in DriveReadings /\ h \in [HistoryKinds -> Trends]
  BY DrivesAreReadings
<1>2. Spoken(d, h, a) # {} =>
        \E s, t \in Severities : Spoken(d, h, a) = {s} /\ Spoken(e, h, a) = {t} /\ Rank(t) <= Rank(s)
  <2>1. CASE a \in HistoryKinds
    <3>1. e[a] >= d[a] /\ d[a] >= -1
      BY <2>1, DrivesAreReadings DEF NoBetter, HistoryKinds
    <3>2. /\ Spoken(d, h, a) = IF d[a] \in {NotRead, 0} THEN {} ELSE {Refined(Plain(d, a), h[a])}
          /\ Spoken(e, h, a) = IF e[a] \in {NotRead, 0} THEN {} ELSE {Refined(Plain(e, a), h[a])}
      BY <2>1 DEF Spoken, HistoryKinds
    <3>3. Plain(d, a) \in Severities /\ Plain(e, a) \in Severities /\ h[a] \in Trends
      BY <1>1, <2>1 DEF Plain, Severities
    <3>4. Rank(Plain(e, a)) <= Rank(Plain(d, a))
      <4>1. CASE a = "crc"
        <5>1. e.crc >= d.crc /\ (d.slow => e.slow) /\ d.crc \in Int /\ e.crc \in Int
          BY <1>1 DEF NoBetter, DriveReadings
        <5>2. Rank("hint") = 3 /\ Rank("warning") = 2
          BY Grades
        <5> QED BY <4>1, <5>1, <5>2 DEF Plain
      <4>2. CASE a # "crc"
        <5>1. Plain(e, a) = Plain(d, a)
          BY <4>2 DEF Plain
        <5>2. Rank(Plain(d, a)) \in Int
          BY <3>3, Grades DEF Severities
        <5> QED BY <5>1, <5>2
      <4> QED BY <4>1, <4>2
    <3>5. /\ Rank(Refined(Plain(e, a), h[a])) <= Rank(Refined(Plain(d, a), h[a]))
          /\ Refined(Plain(d, a), h[a]) \in Severities /\ Refined(Plain(e, a), h[a]) \in Severities
      BY <3>3, <3>4, RefinedGrades
    <3>6. d[a] \in Int /\ e[a] \in Int
      BY <1>1, <2>1 DEF HistoryKinds, DriveReadings
    <3> QED BY <3>1, <3>2, <3>5, <3>6 DEF NotRead
  <2>2. CASE a = "wear"
    <3>1. d.used \in Int /\ e.used \in Int /\ e.used >= d.used
      BY <1>1 DEF NoBetter, DriveReadings
    <3> QED BY <2>2, <3>1, Grades DEF Spoken, Severities
  <2>3. CASE a = "attributes"
    <3>1. d.failing \in Int /\ e.failing \in Int /\ e.failing >= d.failing
      BY <1>1 DEF NoBetter, DriveReadings
    <3> QED BY <2>3, <3>1, Grades DEF Spoken, Severities
  <2>4. CASE a = "temperature"
    <3>1. /\ d.temperature \in Int /\ e.temperature \in Int /\ e.temperature >= d.temperature
          /\ d.temperature >= -1
          /\ e.hot = d.hot /\ e.warm = d.warm /\ d.hot \in Int /\ d.warm \in Int
      BY <1>1, DrivesAreReadings DEF NoBetter, DriveReadings
    <3> QED BY <2>4, <3>1, Grades DEF Spoken, Severities, NotRead
  <2> QED BY <2>1, <2>2, <2>3, <2>4 DEF Organs
<1>3. \A x \in DriveReadings :
        /\ Spoken(x, h, a) = {} => RankOf(x, h, a) = 4
        /\ \A s \in Severities : Spoken(x, h, a) = {s} => RankOf(x, h, a) = Rank(s) /\ Rank(s) \in 1..3
  BY <1>1, RankOfAnOrgan, Grades DEF Severities
<1>4. Spoken(e, h, a) = {} \/ \E s \in Severities : Spoken(e, h, a) = {s}
  BY <1>1, OneAtMost
<1>5. CASE Spoken(d, h, a) = {}
  BY <1>1, <1>3, <1>4, <1>5
<1>6. CASE Spoken(d, h, a) # {}
  BY <1>1, <1>2, <1>3, <1>6
<1> QED
  BY <1>5, <1>6

\* Histories only differ in what was never seen: a rising count is the most urgent of
\* them, a quiet one the least, and neither is silent where the other speaks.
LEMMA HistoriesMove ==
  ASSUME NEW d \in Drives, NEW h \in Histories, NEW a \in Organs
  PROVE  /\ RankOf(d, [k \in HistoryKinds |-> "rising"], a) <= RankOf(d, h, a)
         /\ RankOf(d, h, a) <= RankOf(d, [k \in HistoryKinds |-> "quiet"], a)
         /\ Spoken(d, h, a) = {} <=> Spoken(d, [k \in HistoryKinds |-> "untold"], a) = {}
<1> DEFINE up   == [k \in HistoryKinds |-> "rising"]
           down == [k \in HistoryKinds |-> "quiet"]
           none == [k \in HistoryKinds |-> "untold"]
<1>1. /\ d \in DriveReadings /\ h \in [HistoryKinds -> Trends] /\ up \in [HistoryKinds -> Trends]
      /\ down \in [HistoryKinds -> Trends] /\ none \in [HistoryKinds -> Trends]
  BY DrivesAreReadings DEF Trends
<1>2. \A g \in [HistoryKinds -> Trends] :
        /\ Spoken(d, g, a) = {} => RankOf(d, g, a) = 4
        /\ \A s \in Severities : Spoken(d, g, a) = {s} => RankOf(d, g, a) = Rank(s) /\ Rank(s) \in 1..3
  BY <1>1, RankOfAnOrgan, Grades DEF Severities
<1>3. CASE a \in HistoryKinds
  <2>1. \A g \in [HistoryKinds -> Trends] :
          Spoken(d, g, a) = IF d[a] \in {NotRead, 0} THEN {} ELSE {Refined(Plain(d, a), g[a])}
    BY <1>3 DEF Spoken, HistoryKinds
  <2>2. up[a] = "rising" /\ down[a] = "quiet" /\ none[a] = "untold" /\ h[a] \in Trends
    BY <1>1, <1>3
  <2>3. Plain(d, a) \in Severities
    BY DEF Plain, Severities
  <2>4. /\ Rank(Refined(Plain(d, a), "rising")) <= Rank(Refined(Plain(d, a), h[a]))
        /\ Rank(Refined(Plain(d, a), h[a])) <= Rank(Refined(Plain(d, a), "quiet"))
        /\ Refined(Plain(d, a), "rising") \in Severities /\ Refined(Plain(d, a), "quiet") \in Severities
        /\ Refined(Plain(d, a), h[a]) \in Severities
    BY <2>2, <2>3, RefinedGrades DEF Trends
  <2> HIDE DEF up, down, none
  <2>5. CASE d[a] \in {NotRead, 0}
    <3>1. RankOf(d, up, a) = 4 /\ RankOf(d, h, a) = 4 /\ RankOf(d, down, a) = 4
      BY <1>1, <1>2, <2>1, <2>5
    <3> QED BY <1>1, <2>1, <2>5, <3>1 DEF up, down, none
  <2>6. CASE d[a] \notin {NotRead, 0}
    <3>1. /\ Spoken(d, up, a) = {Refined(Plain(d, a), "rising")}
          /\ Spoken(d, down, a) = {Refined(Plain(d, a), "quiet")}
          /\ Spoken(d, h, a) = {Refined(Plain(d, a), h[a])}
          /\ Spoken(d, none, a) = {Refined(Plain(d, a), none[a])}
      BY <1>1, <2>1, <2>2, <2>6
    <3>2. /\ RankOf(d, up, a) = Rank(Refined(Plain(d, a), "rising"))
          /\ RankOf(d, h, a) = Rank(Refined(Plain(d, a), h[a]))
          /\ RankOf(d, down, a) = Rank(Refined(Plain(d, a), "quiet"))
      BY <1>1, <1>2, <2>4, <3>1
    <3> QED BY <2>4, <3>1, <3>2 DEF up, down, none
  <2> QED BY <2>5, <2>6
<1>4. CASE a \in {"wear", "temperature", "attributes"}
  <2>1. \A g \in [HistoryKinds -> Trends] : Spoken(d, g, a) = Spoken(d, h, a)
    BY <1>4 DEF Spoken
  <2>2. Spoken(d, h, a) = {} \/ \E s \in Severities : Spoken(d, h, a) = {s}
    BY <1>1, OneAtMost
  <2> HIDE DEF up, down, none
  <2>3. CASE Spoken(d, h, a) = {}
    <3>1. RankOf(d, up, a) = 4 /\ RankOf(d, h, a) = 4 /\ RankOf(d, down, a) = 4
      BY <1>1, <1>2, <2>1, <2>3
    <3> QED BY <1>1, <2>1, <3>1 DEF up, down, none
  <2>4. CASE \E s \in Severities : Spoken(d, h, a) = {s}
    <3>1. PICK s \in Severities : Spoken(d, h, a) = {s}
      BY <2>4
    <3>2. /\ RankOf(d, up, a) = Rank(s) /\ RankOf(d, h, a) = Rank(s) /\ RankOf(d, down, a) = Rank(s)
          /\ Rank(s) \in 1..3
      BY <1>1, <1>2, <2>1, <3>1
    <3> QED BY <1>1, <2>1, <3>2 DEF up, down, none
  <2> QED BY <2>2, <2>3, <2>4
<1> QED
  BY <1>3, <1>4 DEF Organs

LEMMA NoMilderWord ==
  ASSUME topic = "health" => input \in Drives
  PROVE  WorseIsNeverMilder
<1> SUFFICES ASSUME topic = "health", NEW h \in Histories, NEW a \in Organs
             PROVE  /\ \A e \in Drives : NoBetter(input, e) => RankOf(e, h, a) <= RankOf(input, h, a)
                    /\ RankOf(input, [k \in HistoryKinds |-> "rising"], a) <= RankOf(input, h, a)
                    /\ RankOf(input, h, a) <= RankOf(input, [k \in HistoryKinds |-> "quiet"], a)
  BY DEF WorseIsNeverMilder, Organs
<1> QED
  BY WorseOrgans, HistoriesMove

LEMMA NothingIsHushed ==
  ASSUME topic = "health" => input \in Drives
  PROVE  OnlyAQuietHistoryCalms
<1> DEFINE plain == [k \in HistoryKinds |-> "untold"]
           bare(h) == {f.about : f \in Range(DiagnoseHealth(input, h))}
<1> SUFFICES ASSUME topic = "health"
             PROVE  /\ \A h \in Histories : bare(h) = bare(plain)
                    /\ \A about \in {"pending", "uncorrectable"} :
                         input[about] > 0 => RankOf(input, plain, about) = 1
                    /\ input.temperature # NotRead /\ input.hot # NotRead /\ input.temperature >= input.hot =>
                         \A h \in Histories : RankOf(input, h, "temperature") = 1
  BY DEF OnlyAQuietHistoryCalms
<1>1. input \in Drives /\ input \in DriveReadings
  BY DrivesAreReadings
<1>2. plain \in [HistoryKinds -> Trends] /\ Histories \subseteq [HistoryKinds -> Trends]
  BY DrivesAreReadings DEF Trends
<1>3. ASSUME NEW h \in [HistoryKinds -> Trends]
      PROVE  bare(h) = {a \in Organs \cup {"self-assessment"} : Spoken(input, h, a) # {}}
  <2>1. Range(DiagnoseHealth(input, h)) =
           UNION {{[about |-> b, severity |-> s] : s \in Spoken(input, h, b)} :
                    b \in Organs \cup {"self-assessment"}}
    BY <1>1, WhatIsSaid
  <2>2. ASSUME NEW f \in Range(DiagnoseHealth(input, h))
        PROVE  f.about \in {a \in Organs \cup {"self-assessment"} : Spoken(input, h, a) # {}}
    <3>1. PICK b \in Organs \cup {"self-assessment"} :
            \E s \in Spoken(input, h, b) : f = [about |-> b, severity |-> s]
      BY <2>1
    <3> QED BY <3>1
  <2>3. ASSUME NEW b \in Organs \cup {"self-assessment"}, Spoken(input, h, b) # {}
        PROVE  \E f \in Range(DiagnoseHealth(input, h)) : f.about = b
    <3>1. PICK s : s \in Spoken(input, h, b)
      BY <2>3
    <3>2. [about |-> b, severity |-> s] \in Range(DiagnoseHealth(input, h))
      BY <2>1, <3>1
    <3> QED BY <3>2
  <2> QED BY <2>2, <2>3
<1>4. ASSUME NEW h \in Histories
      PROVE  bare(h) = bare(plain)
  <2>1. \A a \in Organs : Spoken(input, h, a) = {} <=> Spoken(input, plain, a) = {}
    BY <1>1, HistoriesMove
  <2>2. Spoken(input, h, "self-assessment") = Spoken(input, plain, "self-assessment")
    BY DEF Spoken
  <2>3. /\ bare(h) = {a \in Organs \cup {"self-assessment"} : Spoken(input, h, a) # {}}
        /\ bare(plain) = {a \in Organs \cup {"self-assessment"} : Spoken(input, plain, a) # {}}
    BY <1>2, <1>3
  <2> HIDE DEF bare, plain
  <2> QED BY <2>1, <2>2, <2>3
<1>5. ASSUME NEW a \in {"pending", "uncorrectable"}, input[a] > 0
      PROVE  RankOf(input, plain, a) = 1
  <2>1. a \in HistoryKinds /\ a \in Organs
    BY DEF HistoryKinds, Organs
  <2>2. Spoken(input, plain, a) = {Refined("critical", "untold")}
    BY <1>5, <2>1 DEF Spoken, Plain, NotRead
  <2>3. Refined("critical", "untold") = "critical" /\ "critical" \in Severities /\ Rank("critical") = 1
    BY Grades DEF Refined, Severities
  <2> HIDE DEF plain
  <2> QED BY <1>1, <1>2, <2>1, <2>2, <2>3, RankOfAnOrgan
<1>6. ASSUME input.temperature # NotRead, input.hot # NotRead, input.temperature >= input.hot,
             NEW h \in Histories
      PROVE  RankOf(input, h, "temperature") = 1
  <2>1. Spoken(input, h, "temperature") = {"critical"}
    BY <1>6 DEF Spoken
  <2>2. "critical" \in Severities /\ Rank("critical") = 1 /\ "temperature" \in Organs
    BY Grades DEF Severities, Organs
  <2> QED BY <1>1, <1>2, <2>1, <2>2, RankOfAnOrgan
<1> HIDE DEF bare, plain
<1> QED
  BY <1>4, <1>5, <1>6

-----------------------------------------------------------------------------
(* The findings of a machine.                                              *)

SmallFindings == [severity : {"critical", "warning", "hint"}, subject : Int, physical : BOOLEAN]

\* How findings are put in order, and that they are: at says where each came from.
Sorts(all, place, at) ==
  /\ place = [k \in DOMAIN all |-> Cardinality({j \in DOMAIN all : Ahead(all, j, k)})]
  /\ at = [i \in DOMAIN all |-> CHOOSE k \in DOMAIN all : place[k] = i]

PutInOrder(all, at) ==
  /\ at \in [1..Len(all) -> 1..Len(all)]
  /\ \A i, j \in 1..Len(all) : at[i] = at[j] => i = j
  /\ \A k \in 1..Len(all) : \E i \in 1..Len(all) : at[i] = k
  /\ \A i \in 1..Len(all) : Rank(all[at[1]].severity) <= Rank(all[at[i]].severity)

\* Where the findings of a machine come out: each of those kept in one place, the first
\* of them no milder than any other.
LEMMA SortedFindings ==
  ASSUME NEW all \in Seq(SmallFindings), NEW place, NEW at, Sorts(all, place, at)
  PROVE  PutInOrder(all, at)
<1> USE DEF Sorts
<1> DEFINE n == Len(all)
           R == {p \in (1..n) \X (1..n) : Ahead(all, p[1], p[2])}
           before == [k \in 1..n |-> {j \in 1..n : Ahead(all, j, k)}]
<1>1. n \in Nat /\ DOMAIN all = 1..n /\ \A i \in 1..n : all[i] \in SmallFindings
  OBVIOUS
<1>2. \A f \in SmallFindings : f.subject \in Int /\ Rank(f.severity) \in 1..3
  BY Grades DEF SmallFindings
<1>2a. \A f, g \in SmallFindings : Rank(f.severity) = Rank(g.severity) => f.severity = g.severity
  BY Grades DEF SmallFindings
<1>3. \A f, g, h \in SmallFindings :
        /\ ~Before(f, f)
        /\ Before(f, g) => ~Before(g, f)
        /\ Before(f, g) /\ Before(g, h) => Before(f, h)
        /\ Before(f, h) => Before(f, g) \/ Before(g, h)
        /\ Before(f, g) => Rank(f.severity) <= Rank(g.severity)
        /\ ~Before(g, f) => Rank(f.severity) <= Rank(g.severity)
  <2> TAKE f, g, h \in SmallFindings
  <2>1. /\ f.subject \in Int /\ g.subject \in Int /\ h.subject \in Int
        /\ Rank(f.severity) \in 1..3 /\ Rank(g.severity) \in 1..3 /\ Rank(h.severity) \in 1..3
    BY <1>2
  <2>2. /\ Rank(f.severity) = Rank(g.severity) => f.severity = g.severity
        /\ Rank(g.severity) = Rank(h.severity) => g.severity = h.severity
        /\ Rank(f.severity) = Rank(h.severity) => f.severity = h.severity
    BY <1>2a
  <2> QED BY <2>1, <2>2 DEF Before
<1> HIDE DEF n
<1>4. \A i, j, k \in 1..n :
        /\ Ahead(all, i, i) /\ (Ahead(all, i, j) \/ Ahead(all, j, i))
        /\ (Ahead(all, i, j) /\ Ahead(all, j, i) => i = j)
        /\ (Ahead(all, i, j) /\ Ahead(all, j, k) => Ahead(all, i, k))
        /\ (Ahead(all, i, j) => Rank(all[i].severity) <= Rank(all[j].severity))
  <2> TAKE i, j, k \in 1..n
  <2>1. /\ all[i] \in SmallFindings /\ all[j] \in SmallFindings /\ all[k] \in SmallFindings
        /\ i \in Int /\ j \in Int /\ k \in Int
    BY <1>1
  <2>2. /\ ~Before(all[i], all[i])
        /\ Before(all[i], all[j]) => ~Before(all[j], all[i])
        /\ Before(all[j], all[k]) => ~Before(all[k], all[j])
        /\ Before(all[i], all[j]) /\ Before(all[j], all[k]) => Before(all[i], all[k])
        /\ Before(all[i], all[j]) => Before(all[i], all[k]) \/ Before(all[k], all[j])
        /\ Before(all[j], all[k]) => Before(all[j], all[i]) \/ Before(all[i], all[k])
        /\ Before(all[k], all[i]) => Before(all[k], all[j]) \/ Before(all[j], all[i])
        /\ Before(all[i], all[j]) => Rank(all[i].severity) <= Rank(all[j].severity)
        /\ ~Before(all[j], all[i]) => Rank(all[i].severity) <= Rank(all[j].severity)
    BY <1>3, <2>1
  <2> QED BY <2>1, <2>2 DEF Ahead
<1>5. /\ R \in SUBSET ((1..n) \X (1..n)) /\ \A i, j \in 1..n : <<i, j>> \in R <=> Ahead(all, i, j)
  OBVIOUS
<1>6. /\ before \in [1..n -> SUBSET (1..n)]
      /\ \A j, k \in 1..n : j \in before[k] <=> Ahead(all, j, k)
      /\ \A k \in 1..n : place[k] = Cardinality(before[k])
  BY <1>1
<1> HIDE DEF R, before
<1>7. /\ \A i \in 1..n : at[i] \in 1..n /\ place[at[i]] = i
      /\ \A k \in 1..n : place[k] \in 1..n /\ at[place[k]] = k
      /\ \A i, j \in 1..n : i <= j => <<at[i], at[j]>> \in R
  <2>1. Orders(n, R)
    BY <1>4, <1>5 DEF Orders
  <2>2. CountsAhead(n, R, before, place, at)
    <3>1. \A i \in 1..n : (\E k \in 1..n : place[k] = i) => at[i] \in 1..n /\ place[at[i]] = i
      BY <1>1
    <3> QED BY <1>5, <1>6, <3>1 DEF CountsAhead
  <2>3. Lists(n, R, place, at)
    BY <1>1, <2>1, <2>2, RankedByAnOrder
  <2> QED BY <2>3 DEF Lists
<1>9. \A i \in 1..n : Rank(all[at[1]].severity) <= Rank(all[at[i]].severity)
  <2>1. ASSUME NEW i \in 1..n
        PROVE  Ahead(all, at[1], at[i])
    <3>1. 1 \in 1..n /\ 1 <= i
      BY <1>1
    <3>2. <<at[1], at[i]>> \in R /\ at[1] \in 1..n /\ at[i] \in 1..n
      BY <1>7, <3>1
    <3> QED BY <1>5, <3>2
  <2>2. ASSUME NEW i \in 1..n
        PROVE  1 \in 1..n /\ at[1] \in 1..n /\ at[i] \in 1..n
    <3>1. 1 \in 1..n
      BY <1>1
    <3> QED BY <1>7, <3>1
  <2>3. ASSUME NEW i \in 1..n
        PROVE  Rank(all[at[1]].severity) <= Rank(all[at[i]].severity)
    <3>1. Ahead(all, at[1], at[i]) /\ at[1] \in 1..n /\ at[i] \in 1..n
      BY <2>1, <2>2
    <3> QED BY <1>4, <3>1
  <2> QED BY <2>3
<1>10. /\ \A i, j \in 1..n : at[i] = at[j] => i = j
       /\ \A k \in 1..n : \E i \in 1..n : at[i] = k
  <2>1. ASSUME NEW i \in 1..n, NEW j \in 1..n, at[i] = at[j]
        PROVE  i = j
    <3>1. place[at[i]] = i /\ place[at[j]] = j
      BY <1>7
    <3> QED BY <2>1, <3>1
  <2>2. ASSUME NEW k \in 1..n
        PROVE  \E i \in 1..n : at[i] = k
    BY <1>7
  <2> QED BY <2>1, <2>2
<1>11. at \in [1..n -> 1..n]
  BY <1>1, <1>7
<1> QED
  BY <1>9, <1>10, <1>11 DEF n, PutInOrder

LEMMA FirstLineTells ==
  ASSUME topic = "findings" => input \in Seq(SmallFindings)
  PROVE  FirstLineDecidesTheExit
<1> DEFINE Told(physical, out, kept) ==
             /\ Len(out) = Cardinality(kept)
             /\ \A f \in Range(out) : Cardinality({k \in kept : input[k] = f})
                                       = Cardinality({i \in DOMAIN out : out[i] = f})
             /\ ExitCodeFor(out) = IF out # <<>> /\ out[1].severity \in {"critical", "warning"} THEN 1 ELSE 0
             /\ ~physical => \A f \in Range(out) : ~f.physical
<1> SUFFICES ASSUME topic = "findings", NEW physical \in BOOLEAN
             PROVE  Told(physical, Diagnose(input, physical), {k \in DOMAIN input : physical \/ ~input[k].physical})
  BY DEF FirstLineDecidesTheExit
<1> DEFINE out  == Diagnose(input, physical)
           kept == {k \in DOMAIN input : physical \/ ~input[k].physical}
<1> SUFFICES Told(physical, out, kept)
  OBVIOUS
<1> DEFINE all   == Judged(input, physical)
           place == [k \in DOMAIN all |-> Cardinality({j \in DOMAIN all : Ahead(all, j, k)})]
           at    == [i \in DOMAIN all |-> CHOOSE k \in DOMAIN all : place[k] = i]
           n     == Cardinality(kept)
<1>1. input \in Seq(SmallFindings) /\ Len(input) \in Nat /\ kept \in SUBSET (1..Len(input))
      /\ DOMAIN input = 1..Len(input)
  OBVIOUS
<1>2. /\ all = At(input, kept) /\ all = [k \in 1..n |-> input[Nth(kept, k)]]
      /\ all \in Seq(SmallFindings) /\ Len(all) = n /\ DOMAIN all = 1..n /\ n \in Nat
      /\ IsFiniteSet(kept)
  <2>1. all = At(input, kept)
    BY DEF Judged
  <2>2. n \in Nat /\ IsFiniteSet(kept)
    BY <1>1, PositionsAreFinite
  <2>3. At(input, kept) = [k \in 1..n |-> input[Nth(kept, k)]]
    BY DEF At
  <2> HIDE DEF kept
  <2>4. At(input, kept) \in Seq(SmallFindings) /\ Len(At(input, kept)) = n
    BY <1>1, AtLists
  <2> HIDE DEF all, n
  <2> QED BY <2>1, <2>2, <2>3, <2>4
<1> HIDE DEF kept
<1>3. /\ \A k \in 1..n : Nth(kept, k) \in kept
      /\ \A k, l \in 1..n : Nth(kept, k) = Nth(kept, l) => k = l
      /\ \A i \in kept : \E k \in 1..n : Nth(kept, k) = i
  <2>1. kept \in SUBSET Int
    BY <1>1
  <2>2. /\ \A k \in 1..n : Nth(kept, k) \in kept /\ PlaceOf(kept, Nth(kept, k)) = k
        /\ \A i \in kept : Nth(kept, PlaceOf(kept, i)) = i
    BY <1>2, <2>1, ListedInOrder
  <2>3. \A i \in kept : PlaceOf(kept, i) \in 1..n
    BY <1>2, <2>1, PlacesGrow
  <2> HIDE DEF n
  <2>4. ASSUME NEW k \in 1..n, NEW l \in 1..n, Nth(kept, k) = Nth(kept, l)
        PROVE  k = l
    BY <2>2, <2>4
  <2> QED BY <2>2, <2>3, <2>4
<1>4. /\ at \in [1..n -> 1..n]
      /\ \A i, j \in 1..n : at[i] = at[j] => i = j
      /\ \A k \in 1..n : \E i \in 1..n : at[i] = k
      /\ \A i \in 1..n : Rank(all[at[1]].severity) <= Rank(all[at[i]].severity)
  <2>1. place = [k \in DOMAIN all |-> Cardinality({j \in DOMAIN all : Ahead(all, j, k)})]
    OBVIOUS
  <2>2. at = [i \in DOMAIN all |-> CHOOSE k \in DOMAIN all : place[k] = i]
    OBVIOUS
  <2> HIDE DEF all, place, at, n
  <2>3. Sorts(all, place, at)
    BY <2>1, <2>2 DEF Sorts
  <2>4. PutInOrder(all, at)
    BY <1>2, <2>3, SortedFindings
  <2> QED BY <1>2, <2>4 DEF PutInOrder
<1>5. out = [i \in 1..n |-> all[at[i]]]
  <2>1. out = [i \in DOMAIN all |-> all[at[i]]]
    BY DEF Diagnose
  <2> HIDE DEF all, at, n, out
  <2> QED BY <1>2, <2>1
<1> HIDE DEF all, place, at, n, out
<1> DEFINE from == [i \in 1..n |-> Nth(kept, at[i])]
<1>6. /\ from \in [1..n -> kept] /\ \A i \in 1..n : out[i] = input[from[i]]
      /\ \A i, j \in 1..n : from[i] = from[j] => i = j
      /\ \A k \in kept : \E i \in 1..n : from[i] = k
  <2>1. from \in [1..n -> kept]
    BY <1>3, <1>4
  <2>2. ASSUME NEW i \in 1..n
        PROVE  out[i] = input[from[i]]
    <3>1. at[i] \in 1..n
      BY <1>4
    <3>2. out[i] = all[at[i]] /\ all[at[i]] = input[Nth(kept, at[i])]
      BY <1>2, <1>5, <3>1
    <3> QED BY <3>2
  <2>3. ASSUME NEW i \in 1..n, NEW j \in 1..n, from[i] = from[j]
        PROVE  i = j
    BY <1>3, <1>4, <2>3
  <2>4. ASSUME NEW k \in kept
        PROVE  \E i \in 1..n : from[i] = k
    <3>1. PICK l \in 1..n : Nth(kept, l) = k
      BY <1>3
    <3>2. PICK i \in 1..n : at[i] = l
      BY <1>4
    <3> QED BY <3>1, <3>2
  <2> QED BY <2>1, <2>2, <2>3, <2>4
<1> HIDE DEF from
<1>7. DOMAIN out = 1..n /\ Len(out) = n /\ out \in Seq(SmallFindings)
  <2>1. ASSUME NEW i \in 1..n
        PROVE  all[at[i]] \in SmallFindings
    <3>1. at[i] \in 1..Len(all)
      BY <1>2, <1>4
    <3> QED BY <1>2, <3>1
  <2> QED BY <1>2, <1>5, <2>1
<1>8. Len(out) = Cardinality(kept)
  BY <1>7 DEF n
<1>9. ASSUME NEW f \in Range(out)
      PROVE  Cardinality({k \in kept : input[k] = f}) = Cardinality({i \in DOMAIN out : out[i] = f})
  <2> DEFINE S == {i \in 1..n : out[i] = f}
             T == {k \in kept : input[k] = f}
             g == [i \in S |-> from[i]]
  <2>1. S \in SUBSET (1..n) /\ \A i \in S : i \in 1..n /\ out[i] = f
    OBVIOUS
  <2>2. IsFiniteSet(S)
    <3> HIDE DEF S
    <3> QED BY <1>2, <2>1, PositionsAreFinite
  <2>3. g \in [S -> T]
    BY <1>6
  <2>4. \A x, y \in S : g[x] = g[y] => x = y
    BY <1>6
  <2>5. \A t \in T : \E x \in S : g[x] = t
    <3> TAKE t \in T
    <3>1. PICK i \in 1..n : from[i] = t
      BY <1>6
    <3>2. i \in S
      BY <1>6, <3>1
    <3> QED BY <3>1, <3>2
  <2>6. Cardinality(T) = Cardinality(S)
    <3> HIDE DEF S, T, g
    <3> QED BY <2>2, <2>3, <2>4, <2>5, AsManyRenamed
  <2>7. {i \in DOMAIN out : out[i] = f} = S
    BY <1>7
  <2> QED BY <2>6, <2>7
<1>10. ASSUME ~physical, NEW f \in Range(out)
       PROVE  ~f.physical
  <2>1. PICK i \in 1..n : f = out[i]
    BY <1>7, Zenon DEF Range
  <2>2. from[i] \in kept /\ f = input[from[i]]
    BY <1>6, <2>1
  <2> QED BY <1>10, <2>2 DEF kept
<1>11. ExitCodeFor(out) = IF out # <<>> /\ out[1].severity \in {"critical", "warning"} THEN 1 ELSE 0
  <2> DEFINE C(s) == {i \in DOMAIN out : out[i].severity = s}
  <2>1. /\ CountBySeverity(out)["critical"] = Cardinality(C("critical"))
        /\ CountBySeverity(out)["warning"] = Cardinality(C("warning"))
    <3>1. "critical" \in Range(SeverityRanking) /\ "warning" \in Range(SeverityRanking)
      BY DEF SeverityRanking, Range
    <3> QED BY <3>1 DEF CountBySeverity
  <2>2. \A s \in {"critical", "warning"} : Cardinality(C(s)) \in Nat /\ (Cardinality(C(s)) = 0 <=> C(s) = {})
    <3> TAKE s \in {"critical", "warning"}
    <3>1. C(s) \in SUBSET (1..n)
      BY <1>7
    <3> HIDE DEF C
    <3>2. IsFiniteSet(C(s)) /\ Cardinality(C(s)) \in Nat
      BY <1>2, <3>1, PositionsAreFinite
    <3> QED BY <3>2, FS_EmptySet
  <2>3. ExitCodeFor(out) = IF C("critical") # {} \/ C("warning") # {} THEN 1 ELSE 0
    <3> HIDE DEF C
    <3> QED BY <2>1, <2>2 DEF ExitCodeFor
  <2>4. (C("critical") # {} \/ C("warning") # {}) <=>
          \E i \in 1..n : out[i].severity \in {"critical", "warning"}
    BY <1>7
  <2>5. ASSUME NEW i \in 1..n, out[i].severity \in {"critical", "warning"}
        PROVE  out # <<>> /\ out[1].severity \in {"critical", "warning"}
    <3>1. 1 \in 1..n /\ out # <<>>
      BY <1>2, <1>7
    <3>2. out[1].severity \in {"critical", "warning", "hint"}
      <4>1. out[1] \in SmallFindings
        BY <1>7, <3>1
      <4> QED BY <4>1 DEF SmallFindings
    <3>3. Rank(out[1].severity) <= Rank(out[i].severity)
      BY <1>4, <1>5, <3>1
    <3>4. Rank("critical") = 1 /\ Rank("warning") = 2 /\ Rank("hint") = 3
      BY Grades
    <3> QED BY <2>5, <3>1, <3>2, <3>3, <3>4
  <2>6. out # <<>> => 1 \in 1..n
    BY <1>2, <1>7
  <2> HIDE DEF C
  <2> QED BY <2>3, <2>4, <2>5, <2>6
<1> QED
  BY <1>8, <1>9, <1>10, <1>11

\* A revision nobody read is not among those of a model.
LEMMA UnreadIsNoRevision ==
  UnreadFirmwareMixesNothing
<1> SUFFICES ASSUME NEW drives
             PROVE  DiagnoseFirmwareConsistency(drives) =
                      DiagnoseFirmwareConsistency({d \in drives : d.firmware # ""})
  BY DEF UnreadFirmwareMixesNothing
<1> DEFINE known == {d \in drives : d.firmware # ""}
<1>1. \A m : RevisionsOf(drives, m) = RevisionsOf(known, m)
  BY DEF RevisionsOf
<1>2. ASSUME NEW m, m \notin {d.model : d \in known}
      PROVE  Cardinality(RevisionsOf(drives, m)) = 0
  <2>1. RevisionsOf(drives, m) = {}
    BY <1>2 DEF RevisionsOf
  <2> QED BY <2>1, FS_EmptySet
<1>3. {d.model : d \in known} \subseteq {d.model : d \in drives}
  OBVIOUS
<1> HIDE DEF known
<1> DEFINE models(S) == {d.model : d \in S}
<1>4. ASSUME NEW m, m \in models(drives), Cardinality(RevisionsOf(drives, m)) >= 2
      PROVE  m \in models(known) /\ Cardinality(RevisionsOf(known, m)) >= 2
  BY <1>1, <1>2, <1>4
<1>5. ASSUME NEW m, m \in models(known), Cardinality(RevisionsOf(known, m)) >= 2
      PROVE  m \in models(drives) /\ Cardinality(RevisionsOf(drives, m)) >= 2
  BY <1>1, <1>3, <1>5
<1>6. \A S : DiagnoseFirmwareConsistency(S) = {m \in models(S) : Cardinality(RevisionsOf(S, m)) >= 2}
  BY DEF DiagnoseFirmwareConsistency, Thresholds
<1> HIDE DEF models
<1> QED
  BY <1>4, <1>5, <1>6 DEF known

-----------------------------------------------------------------------------
(* What a card is told.                                                    *)

Figures == Nat \cup {NotRead}

LinkReadings == [speed : Figures, width : Figures, maxSpeed : Figures, maxWidth : Figures]

Slots == [link : LinkReadings, ceiling : Figures, connector : {"yes", "no", "unread"},
          occupied : BOOLEAN, display : BOOLEAN, occupant : LinkReadings]

Seats == [link : LinkReadings, port : LinkReadings, at : Nat, own : SUBSET Nat]

\* The lower of two readings is one of them, and the lower of all where both were read.
LEMMA LowerOfTwo ==
  ASSUME NEW a \in Figures, NEW b \in Figures
  PROVE  LeastRead({a, b}) = IF a = NotRead THEN b ELSE IF b = NotRead \/ a <= b THEN a ELSE b
<1>1. CASE a = NotRead /\ b = NotRead
  <2>1. Read({a, b}) = {}
    BY <1>1 DEF Read
  <2> QED BY <1>1, <2>1 DEF LeastRead
<1>2. CASE ~(a = NotRead /\ b = NotRead)
  <2> DEFINE m == IF a = NotRead THEN b ELSE IF b = NotRead \/ a <= b THEN a ELSE b
  <2>1. m \in Read({a, b}) /\ (\A k \in Read({a, b}) : m <= k /\ k \in Nat) /\ m \in Nat
    BY <1>2 DEF Read, Figures, NotRead
  <2>2. \A x \in Read({a, b}) : (\A k \in Read({a, b}) : x <= k) => x = m
    <3> HIDE DEF m
    <3> QED BY <2>1
  <2>3. Min(Read({a, b})) = m
    <3> HIDE DEF m
    <3> QED BY <2>1, <2>2 DEF Min
  <2> QED BY <2>1, <2>3 DEF LeastRead
<1> QED BY <1>1, <1>2

LEMMA LowerIsAFigure ==
  ASSUME NEW a \in Figures, NEW b \in Figures
  PROVE  LeastRead({a, b}) \in Figures
<1> QED
  BY LowerOfTwo

LEMMA LeastOfTwo ==
  ASSUME NEW a \in Int, NEW b \in Int
  PROVE  Min({a, b}) = IF a <= b THEN a ELSE b
<1> DEFINE m == IF a <= b THEN a ELSE b
<1>1. m \in {a, b} /\ \A k \in {a, b} : m <= k
  OBVIOUS
<1>2. \A x \in {a, b} : (\A k \in {a, b} : x <= k) => x = m
  OBVIOUS
<1> HIDE DEF m
<1>3. Min({a, b}) = m
  BY <1>1, <1>2 DEF Min
<1> QED BY <1>3 DEF m

\* A bandwidth is a number above nothing where it is known.
LEMMA BandwidthIsAFigure ==
  ASSUME NEW s \in Figures, NEW w \in Figures
  PROVE  /\ PcieBandwidth(s, w) \in Figures
         /\ PcieBandwidth(s, w) # NotRead => PcieBandwidth(s, w) > 0
<1>1. CASE NotRead \in {s, w} \/ w <= 0 \/ s \notin DOMAIN LaneRate
  BY <1>1 DEF PcieBandwidth, Figures, NotRead
<1>2. CASE ~(NotRead \in {s, w} \/ w <= 0 \/ s \notin DOMAIN LaneRate)
  <2>1. LaneRate \in [1..6 -> Nat \ {0}]
    BY DEF LaneRate
  <2>2. LaneRate[s] \in Nat \ {0} /\ w \in Nat \ {0}
    BY <1>2, <2>1 DEF Figures, NotRead
  <2>3. \A x, y \in Nat \ {0} : x * y \in Nat \ {0}
    OBVIOUS
  <2>4. PcieBandwidth(s, w) = LaneRate[s] * w
    BY <1>2 DEF PcieBandwidth
  <2> QED BY <2>2, <2>3, <2>4 DEF Figures
<1> QED BY <1>1, <1>2

LEMMA LinksAreFigures ==
  ASSUME NEW l \in LinkReadings
  PROVE  /\ MaxBandwidth(l) \in Figures /\ (MaxBandwidth(l) # NotRead => MaxBandwidth(l) > 0)
         /\ CurrentBandwidth(l) \in Figures
<1> QED
  BY BandwidthIsAFigure DEF LinkReadings, MaxBandwidth, CurrentBandwidth

LEMMA GainIsAFigure ==
  ASSUME NEW slot \in Slots, NEW seat \in Seats
  PROVE  GainIn(slot, seat) \in Figures
<1>1. slot.link \in LinkReadings /\ seat.link \in LinkReadings /\ slot.ceiling \in Figures
  BY DEF Slots, Seats
<1> DEFINE s == LeastRead({slot.link.maxSpeed, seat.link.maxSpeed})
           w == LeastRead({slot.link.maxWidth, seat.link.maxWidth})
           gain == PcieBandwidth(s, w)
<1>2. s \in Figures /\ w \in Figures
  BY <1>1, LowerIsAFigure DEF LinkReadings
<1>3. gain \in Figures
  <2> HIDE DEF s, w
  <2> QED BY <1>2, BandwidthIsAFigure
<1>4. GainIn(slot, seat) = IF ~CapabilityIsKnown(slot.link) \/ slot.ceiling = NotRead \/ gain = NotRead
                           THEN NotRead ELSE Min({gain, slot.ceiling})
  BY DEF GainIn
<1> HIDE DEF gain
<1>5. Min({gain, slot.ceiling}) \in {gain, slot.ceiling}
  <2>1. gain \in Int /\ slot.ceiling \in Int
    BY <1>1, <1>3 DEF Figures, NotRead
  <2> QED BY <2>1, LeastOfTwo
<1> QED BY <1>1, <1>3, <1>4, <1>5 DEF Figures

LEMMA SeatCarriesAFigure ==
  ASSUME NEW seat \in Seats
  PROVE  /\ AchievableBandwidth(seat) \in Figures
         /\ AchievableBandwidth(seat) # NotRead => AchievableBandwidth(seat) > 0
<1>1. seat.link \in LinkReadings /\ seat.port \in LinkReadings
  BY DEF Seats
<1>2. Achievable(seat).speed \in Figures /\ Achievable(seat).width \in Figures
  <2>1. CASE CapabilityIsKnown(seat.link) /\ CapabilityIsKnown(seat.port)
    <3>1. /\ seat.link.maxSpeed \in Nat /\ seat.port.maxSpeed \in Nat
          /\ seat.link.maxWidth \in Nat /\ seat.port.maxWidth \in Nat
      BY <1>1, <2>1 DEF CapabilityIsKnown, LinkReadings, Figures
    <3>2. Min({seat.link.maxSpeed, seat.port.maxSpeed}) \in Nat /\ Min({seat.link.maxWidth, seat.port.maxWidth}) \in Nat
      BY <3>1, LeastOfTwo
    <3> QED BY <2>1, <3>2 DEF Achievable, Figures
  <2>2. CASE ~(CapabilityIsKnown(seat.link) /\ CapabilityIsKnown(seat.port))
    BY <2>2 DEF Achievable, Figures
  <2> QED BY <2>1, <2>2
<1> QED BY <1>2, BandwidthIsAFigure DEF AchievableBandwidth

\* Ports of one key are alike to every question about a placement.
LEMMA KeysAnswerAlike ==
  ASSUME NEW s, NEW t, PlacementKey(s) = PlacementKey(t)
  PROVE  /\ \A seat : GainIn(s, seat) = GainIn(t, seat)
         /\ IsMoveTarget(s) = IsMoveTarget(t)
         /\ s.occupied = t.occupied /\ s.connector = t.connector
         /\ \A seat : IsWorthwhile(s, seat) <=> IsWorthwhile(t, seat)
<1>1. /\ <<s.link.maxSpeed, s.link.maxWidth, s.ceiling>> = <<t.link.maxSpeed, t.link.maxWidth, t.ceiling>>
      /\ <<s.occupied, s.connector, IsMoveTarget(s), IsSwapCandidate(s)>>
         = <<t.occupied, t.connector, IsMoveTarget(t), IsSwapCandidate(t)>>
      /\ (IF IsSwapCandidate(s) THEN OccupantNeed(s) ELSE NotRead)
         = (IF IsSwapCandidate(t) THEN OccupantNeed(t) ELSE NotRead)
  <2>1. /\ PlacementKey(s).offers = PlacementKey(t).offers
        /\ PlacementKey(s).holds = PlacementKey(t).holds
        /\ PlacementKey(s).need = PlacementKey(t).need
    OBVIOUS
  <2> QED BY <2>1 DEF PlacementKey
<1>2. /\ s.link.maxSpeed = t.link.maxSpeed /\ s.link.maxWidth = t.link.maxWidth /\ s.ceiling = t.ceiling
      /\ s.occupied = t.occupied /\ s.connector = t.connector
      /\ IsMoveTarget(s) = IsMoveTarget(t) /\ IsSwapCandidate(s) = IsSwapCandidate(t)
  BY <1>1
<1>3. \A seat : GainIn(s, seat) = GainIn(t, seat)
  BY <1>2 DEF GainIn, CapabilityIsKnown
<1>4. \A seat : IsWorthwhile(s, seat) <=> IsWorthwhile(t, seat)
  <2>1. IsSwapCandidate(s) => OccupantNeed(s) = OccupantNeed(t)
    BY <1>1, <1>2
  <2> QED BY <1>2, <2>1 DEF IsWorthwhile
<1> QED BY <1>2, <1>3, <1>4

\* The ports that are asked: each open and admitted, in the order of the board, and one
\* no further along for every open port that is admitted.
Asks(slots, besides, admitted, inside, c) ==
  /\ c \in Seq(DOMAIN slots)
  /\ \A i \in DOMAIN c : c[i] # besides /\ c[i] \notin inside /\ c[i] \in admitted
  /\ \A i, j \in DOMAIN c : i < j => c[i] < c[j]
  /\ \A k \in admitted : k # besides /\ k \notin inside =>
       \E i \in DOMAIN c : c[i] <= k /\ PlacementKey(slots[c[i]]) = PlacementKey(slots[k])

\* Whether a port is admitted is told by its key.
AdmittedByKey(slots, admitted) ==
  /\ admitted \in SUBSET DOMAIN slots
  /\ \A j, k \in DOMAIN slots :
       PlacementKey(slots[j]) = PlacementKey(slots[k]) => (j \in admitted <=> k \in admitted)

LEMMA FirstIsOpen ==
  ASSUME NEW n \in Nat, NEW slots, DOMAIN slots = 1..n, NEW besides, NEW inside, NEW key
  PROVE  LET first == FirstOfItsKey(slots, key, besides, inside)
             open == {k \in 1..n : PlacementKey(slots[k]) = key /\ k # besides /\ k \notin inside}
         IN  \/ open = {} /\ first = 0
             \/ first \in open /\ \A k \in open : first <= k
<1> DEFINE open == {k \in 1..n : PlacementKey(slots[k]) = key /\ k # besides /\ k \notin inside}
<1>1. FirstOfItsKey(slots, key, besides, inside) = IF open = {} THEN 0 ELSE Min(open)
  BY DEF FirstOfItsKey
<1>2. open # {} => Min(open) \in open /\ \A k \in open : Min(open) <= k
  <2>1. open \in SUBSET (1..n)
    OBVIOUS
  <2> HIDE DEF open
  <2> QED BY <2>1, EndsOf
<1> QED
  <2> HIDE DEF open
  <2> SUFFICES LET first == FirstOfItsKey(slots, key, besides, inside)
               IN  \/ open = {} /\ first = 0
                   \/ first \in open /\ \A k \in open : first <= k
    BY DEF open
  <2> QED BY <1>1, <1>2

LEMMA CandidatesAreAsked ==
  ASSUME NEW n \in Nat, NEW slots, DOMAIN slots = 1..n, NEW besides, NEW inside,
         NEW admitted, AdmittedByKey(slots, admitted)
  PROVE  Asks(slots, besides, admitted, inside, PlacementCandidates(slots, besides, admitted, inside))
<1> DEFINE keys == {PlacementKey(slots[k]) : k \in DOMAIN slots}
           ask(key) == CHOOSE k \in DOMAIN slots : PlacementKey(slots[k]) = key
           first(key) == FirstOfItsKey(slots, key, besides, inside)
           chosen == {first(key) : key \in {y \in keys : ask(y) \in admitted}}
           J == chosen \ {0}
           open(key) == {k \in 1..n : PlacementKey(slots[k]) = key /\ k # besides /\ k \notin inside}
<1>1. ASSUME NEW key \in keys
      PROVE  /\ ask(key) \in 1..n /\ PlacementKey(slots[ask(key)]) = key
  <2>1. \E k \in DOMAIN slots : PlacementKey(slots[k]) = key
    OBVIOUS
  <2> QED BY <2>1
<1>2. ASSUME NEW key
      PROVE  \/ open(key) = {} /\ first(key) = 0
             \/ first(key) \in open(key) /\ \A k \in open(key) : first(key) <= k
  BY FirstIsOpen
<1>3. ASSUME NEW j \in J
      PROVE  j \in 1..n /\ j # besides /\ j \notin inside /\ j \in admitted
  <2>1. PICK key \in keys : ask(key) \in admitted /\ j = first(key)
    OBVIOUS
  <2>2. j \in open(key)
    <3> HIDE DEF first, open
    <3> QED BY <1>2, <1>3, <2>1
  <2>3. j \in 1..n /\ PlacementKey(slots[j]) = key /\ j # besides /\ j \notin inside
    BY <2>2
  <2> HIDE DEF ask, first, open, keys
  <2>4. ask(key) \in 1..n /\ PlacementKey(slots[ask(key)]) = key
    BY <1>1
  <2> QED BY <2>1, <2>3, <2>4 DEF AdmittedByKey
<1>4. ASSUME NEW k \in admitted, k # besides, k \notin inside
      PROVE  \E j \in J : j <= k /\ PlacementKey(slots[j]) = PlacementKey(slots[k])
  <2> DEFINE key == PlacementKey(slots[k])
  <2>1. k \in 1..n
    BY DEF AdmittedByKey
  <2>2. key \in keys /\ k \in open(key)
    BY <1>4, <2>1
  <2>3. first(key) \in open(key) /\ first(key) <= k
    <3> HIDE DEF first, open, key
    <3> QED BY <1>2, <2>2
  <2>4. first(key) \in 1..n /\ PlacementKey(slots[first(key)]) = key
    <3> HIDE DEF first
    <3> QED BY <2>3
  <2>5. ask(key) \in admitted
    <3>1. ask(key) \in 1..n /\ PlacementKey(slots[ask(key)]) = key
      <4> HIDE DEF ask, key, keys
      <4> QED BY <1>1, <2>2
    <3> HIDE DEF ask, keys
    <3> QED BY <2>1, <3>1 DEF AdmittedByKey
  <2>6. first(key) \in chosen
    <3> HIDE DEF ask, first, key, keys
    <3> QED BY <2>2, <2>5
  <2>7. first(key) # 0
    BY <2>4
  <2> QED
    <3> HIDE DEF first, chosen
    <3> QED BY <2>3, <2>4, <2>6, <2>7
<1>5. PlacementCandidates(slots, besides, admitted, inside) = Ascending(J)
  BY DEF PlacementCandidates
<1>6. J \in SUBSET (1..n)
  BY <1>3
<1> HIDE DEF J
<1> DEFINE c == Ascending(J)
           m == Cardinality(J)
<1>7. m \in Nat /\ c = [k \in 1..m |-> Nth(J, k)] /\ DOMAIN c = 1..m
  BY <1>6, PositionsAreFinite DEF Ascending
<1>8. /\ \A k \in 1..m : Nth(J, k) \in J
      /\ \A i \in J : Nth(J, PlaceOf(J, i)) = i /\ PlaceOf(J, i) \in 1..m
      /\ \A k, l \in 1..m : k < l => Nth(J, k) < Nth(J, l)
  BY <1>6, NthInOrder, RankGrows
<1> HIDE DEF c, m
<1>9. \A i \in 1..m : c[i] = Nth(J, i) /\ c[i] \in J
  BY <1>7, <1>8
<1>10. \A j \in J : \E i \in 1..m : c[i] = j
  BY <1>8, <1>9
<1>11. c \in Seq(DOMAIN slots)
  <2>1. \A i \in 1..m : c[i] \in DOMAIN slots
    BY <1>6, <1>9
  <2> QED BY <1>7, <2>1
<1>12. Asks(slots, besides, admitted, inside, c)
  <2>1. \A i \in DOMAIN c : c[i] # besides /\ c[i] \notin inside /\ c[i] \in admitted
    BY <1>3, <1>7, <1>9
  <2>2. \A i, j \in DOMAIN c : i < j => c[i] < c[j]
    BY <1>7, <1>8, <1>9
  <2>3. \A k \in admitted : k # besides /\ k \notin inside =>
       \E i \in DOMAIN c : c[i] <= k /\ PlacementKey(slots[c[i]]) = PlacementKey(slots[k])
    BY <1>4, <1>7, <1>10
  <2> QED BY <1>11, <2>1, <2>2, <2>3 DEF Asks
<1> QED BY <1>5, <1>12 DEF c

\* The best of the ports asked so far, 0 where none has more to give than the seat.
Bids == [at : Nat, gain : Int]

GainsAreKnown(slots, seat, c) == \A i \in 1..Len(c) : GainIn(slots[c[i]], seat) \in Int

\* Bidding for the most, and ranking, from port to port of those that are asked.
BidsInTurn(f, slots, seat, now, c) ==
  /\ f[0] = [at |-> 0, gain |-> now]
  /\ \A k \in 1..Len(c) : f[k] = Outbid(f[k - 1], c[k], GainIn(slots[c[k]], seat))
  /\ FoldLeft(LAMBDA b, k : Outbid(b, k, GainIn(slots[k], seat)), [at |-> 0, gain |-> now], c) = f[Len(c)]

RanksInTurn(f, slots, seat, offers, now, c) ==
  /\ f[0] = [at |-> 0, gain |-> now]
  /\ \A k \in 1..Len(c) : f[k] = Outranks(f[k - 1], c[k], GainIn(slots[c[k]], seat), offers)
  /\ FoldLeft(LAMBDA b, k : Outranks(b, k, GainIn(slots[k], seat), offers), [at |-> 0, gain |-> now], c) = f[Len(c)]

\* Bidding for the most port by port, each in its turn.
LEMMA BiddingIsALoop ==
  ASSUME NEW slots, NEW seat, NEW now \in Int, NEW c \in Seq(Nat),
         GainsAreKnown(slots, seat, c)
  PROVE  \E f \in [0..Len(c) -> Bids] : BidsInTurn(f, slots, seat, now, c)
<1> DEFINE n == Len(c)
           base == [at |-> 0, gain |-> now]
           st == [x \in (1..n) \X Bids |-> Outbid(x[2], c[x[1]], GainIn(slots[c[x[1]]], seat))]
           Eq(it) == it = [T \in SUBSET (DOMAIN c) |->
                             IF T = {} THEN base ELSE LET x == Max(T) IN Outbid(it[T \ {x}], c[x], GainIn(slots[c[x]], seat))]
           iter == CHOOSE it : Eq(it)
<1>0. n \in Nat /\ DOMAIN c = 1..n /\ base \in Bids
  BY DEF Bids
<1>1. ASSUME NEW i \in 1..n, NEW x \in Bids
      PROVE  Outbid(x, c[i], GainIn(slots[c[i]], seat)) \in Bids
  BY <1>0 DEF Outbid, Bids, GainsAreKnown
<1>2. st \in [(1..n) \X Bids -> Bids] /\ \A i \in 1..n, x \in Bids : st[<<i, x>>] = Outbid(x, c[i], GainIn(slots[c[i]], seat))
  <2>1. ASSUME NEW x \in (1..n) \X Bids
        PROVE  Outbid(x[2], c[x[1]], GainIn(slots[c[x[1]]], seat)) \in Bids
    <3>1. x[1] \in 1..n /\ x[2] \in Bids
      OBVIOUS
    <3> HIDE DEF n, base
    <3> QED BY <1>1, <3>1
  <2>2. st \in [(1..n) \X Bids -> Bids]
    <3> HIDE DEF n, base
    <3> QED BY <2>1
  <2>3. ASSUME NEW i \in 1..n, NEW x \in Bids
        PROVE  st[<<i, x>>] = Outbid(x, c[i], GainIn(slots[c[i]], seat))
    <3>1. <<i, x>> \in (1..n) \X Bids /\ <<i, x>>[1] = i /\ <<i, x>>[2] = x
      OBVIOUS
    <3> HIDE DEF n, base
    <3> QED BY <3>1
  <2> QED BY <2>2, <2>3
<1> HIDE DEF base, st
<1>3. PICK it \in [SUBSET (1..n) -> Bids] : IsFold(it, n, base, st)
  <2> HIDE DEF n
  <2> QED BY <1>0, <1>2, FoldRuns
<1>4. \A T \in SUBSET (1..n) : T # {} => Max(T) \in 1..n /\ T \ {Max(T)} \in SUBSET (1..n)
  <2> HIDE DEF n
  <2> QED BY <1>0, GreatestIn
<1>5. Eq(it)
  <2>1. ASSUME NEW T \in SUBSET (1..n)
        PROVE  it[T] = IF T = {} THEN base ELSE Outbid(it[T \ {Max(T)}], c[Max(T)], GainIn(slots[c[Max(T)]], seat))
    <3>1. it[T] = IF T = {} THEN base ELSE st[<<Max(T), it[T \ {Max(T)}]>>]
      BY <1>3 DEF IsFold
    <3>2. T # {} => Max(T) \in 1..n /\ it[T \ {Max(T)}] \in Bids
      BY <1>3, <1>4
    <3> HIDE DEF n
    <3> QED BY <3>1, <3>2, <1>2
  <2> HIDE DEF n
  <2> QED BY <1>0, <1>3, <2>1
<1>6. Eq(iter)
  <2> HIDE DEF Eq
  <2> QED BY <1>5
<1>7. FoldLeft(LAMBDA b, k : Outbid(b, k, GainIn(slots[k], seat)), [at |-> 0, gain |-> now], c) = iter[1..n]
  BY <1>0 DEF FoldLeft, MapThenFoldSet, base
<1>8. \A T \in SUBSET (1..n) : iter[T] = IF T = {} THEN base ELSE Outbid(iter[T \ {Max(T)}], c[Max(T)], GainIn(slots[c[Max(T)]], seat))
  <2> HIDE DEF iter
  <2> QED BY <1>0, <1>6
<1> HIDE DEF iter, n
<1>9. Reaches(iter, n, Bids, base, st)
  <2>1. iter[{}] = base
    <3>1. {} \in SUBSET (1..n)
      OBVIOUS
    <3>2. \A T \in SUBSET (1..n) : T = {} => iter[T] = base
      BY <1>8
    <3> QED BY <3>1, <3>2
  <2>2. ASSUME NEW T \in SUBSET (1..n), T # {}, iter[T \ {Max(T)}] \in Bids
        PROVE  iter[T] = st[<<Max(T), iter[T \ {Max(T)}]>>]
    BY <1>2, <1>4, <1>8, <2>2
  <2>3. Proceeds(iter, n, Bids, base, st)
    BY <2>1, <2>2 DEF Proceeds
  <2> QED BY <1>0, <1>2, <2>3, FoldSteps
<1> DEFINE f == [k \in 0..n |-> iter[1..k]]
<1>10. f \in [0..n -> Bids] /\ f[0] = base /\ f[n] = iter[1..n]
  BY <1>0, <1>9 DEF Reaches
<1>11. ASSUME NEW k \in 1..n
       PROVE  f[k] = Outbid(f[k - 1], c[k], GainIn(slots[c[k]], seat))
  <2>1. f[k] = iter[1..k] /\ f[k - 1] = iter[1..(k - 1)] /\ iter[1..(k - 1)] \in Bids
    BY <1>0, <1>9 DEF Reaches
  <2>2. iter[1..k] = st[<<k, iter[1..(k - 1)]>>]
    BY <1>9 DEF Reaches
  <2> HIDE DEF f
  <2> QED BY <1>2, <2>1, <2>2
<1> QED
  <2> HIDE DEF f
  <2> QED BY <1>7, <1>10, <1>11 DEF n, base, BidsInTurn

\* Ranking port by port, by gain and then by what each offers.
LEMMA RankingIsALoop ==
  ASSUME NEW slots, NEW seat, NEW offers, NEW now \in Int, NEW c \in Seq(Nat),
         GainsAreKnown(slots, seat, c)
  PROVE  \E f \in [0..Len(c) -> Bids] : RanksInTurn(f, slots, seat, offers, now, c)
<1> DEFINE n == Len(c)
           base == [at |-> 0, gain |-> now]
           st == [x \in (1..n) \X Bids |-> Outranks(x[2], c[x[1]], GainIn(slots[c[x[1]]], seat), offers)]
           Eq(it) == it = [T \in SUBSET (DOMAIN c) |->
                             IF T = {} THEN base ELSE LET x == Max(T) IN Outranks(it[T \ {x}], c[x], GainIn(slots[c[x]], seat), offers)]
           iter == CHOOSE it : Eq(it)
<1>0. n \in Nat /\ DOMAIN c = 1..n /\ base \in Bids
  BY DEF Bids
<1>1. ASSUME NEW i \in 1..n, NEW x \in Bids
      PROVE  Outranks(x, c[i], GainIn(slots[c[i]], seat), offers) \in Bids
  BY <1>0 DEF Outranks, Bids, GainsAreKnown
<1>2. st \in [(1..n) \X Bids -> Bids] /\ \A i \in 1..n, x \in Bids : st[<<i, x>>] = Outranks(x, c[i], GainIn(slots[c[i]], seat), offers)
  <2>1. ASSUME NEW x \in (1..n) \X Bids
        PROVE  Outranks(x[2], c[x[1]], GainIn(slots[c[x[1]]], seat), offers) \in Bids
    <3>1. x[1] \in 1..n /\ x[2] \in Bids
      OBVIOUS
    <3> HIDE DEF n, base
    <3> QED BY <1>1, <3>1
  <2>2. st \in [(1..n) \X Bids -> Bids]
    <3> HIDE DEF n, base
    <3> QED BY <2>1
  <2>3. ASSUME NEW i \in 1..n, NEW x \in Bids
        PROVE  st[<<i, x>>] = Outranks(x, c[i], GainIn(slots[c[i]], seat), offers)
    <3>1. <<i, x>> \in (1..n) \X Bids /\ <<i, x>>[1] = i /\ <<i, x>>[2] = x
      OBVIOUS
    <3> HIDE DEF n, base
    <3> QED BY <3>1
  <2> QED BY <2>2, <2>3
<1> HIDE DEF base, st
<1>3. PICK it \in [SUBSET (1..n) -> Bids] : IsFold(it, n, base, st)
  <2> HIDE DEF n
  <2> QED BY <1>0, <1>2, FoldRuns
<1>4. \A T \in SUBSET (1..n) : T # {} => Max(T) \in 1..n /\ T \ {Max(T)} \in SUBSET (1..n)
  <2> HIDE DEF n
  <2> QED BY <1>0, GreatestIn
<1>5. Eq(it)
  <2>1. ASSUME NEW T \in SUBSET (1..n)
        PROVE  it[T] = IF T = {} THEN base ELSE Outranks(it[T \ {Max(T)}], c[Max(T)], GainIn(slots[c[Max(T)]], seat), offers)
    <3>1. it[T] = IF T = {} THEN base ELSE st[<<Max(T), it[T \ {Max(T)}]>>]
      BY <1>3 DEF IsFold
    <3>2. T # {} => Max(T) \in 1..n /\ it[T \ {Max(T)}] \in Bids
      BY <1>3, <1>4
    <3> HIDE DEF n
    <3> QED BY <3>1, <3>2, <1>2
  <2> HIDE DEF n
  <2> QED BY <1>0, <1>3, <2>1
<1>6. Eq(iter)
  <2> HIDE DEF Eq
  <2> QED BY <1>5
<1>7. FoldLeft(LAMBDA b, k : Outranks(b, k, GainIn(slots[k], seat), offers), [at |-> 0, gain |-> now], c) = iter[1..n]
  BY <1>0 DEF FoldLeft, MapThenFoldSet, base
<1>8. \A T \in SUBSET (1..n) : iter[T] = IF T = {} THEN base ELSE Outranks(iter[T \ {Max(T)}], c[Max(T)], GainIn(slots[c[Max(T)]], seat), offers)
  <2> HIDE DEF iter
  <2> QED BY <1>0, <1>6
<1> HIDE DEF iter, n
<1>9. Reaches(iter, n, Bids, base, st)
  <2>1. iter[{}] = base
    <3>1. {} \in SUBSET (1..n)
      OBVIOUS
    <3>2. \A T \in SUBSET (1..n) : T = {} => iter[T] = base
      BY <1>8
    <3> QED BY <3>1, <3>2
  <2>2. ASSUME NEW T \in SUBSET (1..n), T # {}, iter[T \ {Max(T)}] \in Bids
        PROVE  iter[T] = st[<<Max(T), iter[T \ {Max(T)}]>>]
    BY <1>2, <1>4, <1>8, <2>2
  <2>3. Proceeds(iter, n, Bids, base, st)
    BY <2>1, <2>2 DEF Proceeds
  <2> QED BY <1>0, <1>2, <2>3, FoldSteps
<1> DEFINE f == [k \in 0..n |-> iter[1..k]]
<1>10. f \in [0..n -> Bids] /\ f[0] = base /\ f[n] = iter[1..n]
  BY <1>0, <1>9 DEF Reaches
<1>11. ASSUME NEW k \in 1..n
       PROVE  f[k] = Outranks(f[k - 1], c[k], GainIn(slots[c[k]], seat), offers)
  <2>1. f[k] = iter[1..k] /\ f[k - 1] = iter[1..(k - 1)] /\ iter[1..(k - 1)] \in Bids
    BY <1>0, <1>9 DEF Reaches
  <2>2. iter[1..k] = st[<<k, iter[1..(k - 1)]>>]
    BY <1>9 DEF Reaches
  <2> HIDE DEF f
  <2> QED BY <1>2, <2>1, <2>2
<1> QED
  <2> HIDE DEF f
  <2> QED BY <1>7, <1>10, <1>11 DEF n, base, RanksInTurn

\* Which of the ports asked bidding has come to.
Leads(b, m, c, slots, seat, now) ==
  \/ /\ b = [at |-> 0, gain |-> now]
     /\ \A i \in 1..m : GainIn(slots[c[i]], seat) = NotRead \/ GainIn(slots[c[i]], seat) <= now
  \/ \E i \in 1..m :
       /\ b = [at |-> c[i], gain |-> GainIn(slots[c[i]], seat)]
       /\ GainIn(slots[c[i]], seat) # NotRead /\ GainIn(slots[c[i]], seat) > now
       /\ \A j \in 1..m : \/ GainIn(slots[c[j]], seat) = NotRead
                          \/ GainIn(slots[c[j]], seat) < GainIn(slots[c[i]], seat)
                          \/ GainIn(slots[c[j]], seat) = GainIn(slots[c[i]], seat) /\ i <= j

LEMMA TheLeaderIsOutbid ==
  ASSUME NEW slots, NEW seat, NEW now \in Int, NEW c, NEW m \in Nat, NEW b \in Bids,
         \A i \in 1..m + 1 : GainIn(slots[c[i]], seat) \in Int,
         Leads(b, m, c, slots, seat, now)
  PROVE  Leads(Outbid(b, c[m + 1], GainIn(slots[c[m + 1]], seat)), m + 1, c, slots, seat, now)
<1> DEFINE G(i) == GainIn(slots[c[i]], seat)
           next == Outbid(b, c[m + 1], GainIn(slots[c[m + 1]], seat))
<1>1. b.gain \in Int /\ b.gain >= now /\ \A i \in 1..m : G(i) = NotRead \/ G(i) <= b.gain
  BY DEF Leads, Bids
<1>2. 1..m + 1 = (1..m) \cup {m + 1} /\ m + 1 \in 1..m + 1
  OBVIOUS
<1>3. CASE G(m + 1) # NotRead /\ G(m + 1) > b.gain
  <2>1. next = [at |-> c[m + 1], gain |-> G(m + 1)]
    BY <1>3 DEF Outbid, Better
  <2>2. G(m + 1) > now
    BY <1>1, <1>2, <1>3
  <2>3. ASSUME NEW j \in 1..m + 1
        PROVE  G(j) = NotRead \/ G(j) < G(m + 1) \/ (G(j) = G(m + 1) /\ m + 1 <= j)
    <3>1. CASE j = m + 1
      BY <3>1
    <3>2. CASE j \in 1..m
      <4>1. G(j) \in Int /\ G(m + 1) \in Int /\ (G(j) = NotRead \/ G(j) <= b.gain)
        BY <1>1, <1>2, <3>2
      <4> HIDE DEF G
      <4> QED BY <1>1, <1>3, <4>1
    <3> QED BY <1>2, <3>1, <3>2
  <2> HIDE DEF next
  <2>4. Leads(next, m + 1, c, slots, seat, now)
    BY <1>2, <1>3, <2>1, <2>2, <2>3 DEF Leads
  <2> QED BY <2>4 DEF next
<1>4. CASE ~(G(m + 1) # NotRead /\ G(m + 1) > b.gain)
  <2>1. next = b
    BY <1>4 DEF Outbid, Better
  <2>2. CASE /\ b = [at |-> 0, gain |-> now]
             /\ \A i \in 1..m : G(i) = NotRead \/ G(i) <= now
    <3>1. \A i \in 1..m + 1 : G(i) = NotRead \/ G(i) <= now
      BY <1>2, <1>4, <2>2
    <3> HIDE DEF next
    <3>2. Leads(next, m + 1, c, slots, seat, now)
      BY <2>1, <2>2, <3>1 DEF Leads
    <3> QED BY <3>2 DEF next
  <2> DEFINE IsTop(i) ==
               /\ b = [at |-> c[i], gain |-> G(i)] /\ G(i) # NotRead /\ G(i) > now
               /\ \A j \in 1..m : G(j) = NotRead \/ G(j) < G(i) \/ (G(j) = G(i) /\ i <= j)
  <2>3. ASSUME NEW i \in 1..m, IsTop(i)
        PROVE  Leads(next, m + 1, c, slots, seat, now)
    <3>1. b.gain = G(i)
      BY <2>3
    <3>2. G(m + 1) = NotRead \/ G(m + 1) < G(i) \/ (G(m + 1) = G(i) /\ i <= m + 1)
      BY <1>1, <1>2, <1>4, <3>1
    <3>3. i \in 1..m + 1 /\ \A j \in 1..m + 1 : G(j) = NotRead \/ G(j) < G(i) \/ (G(j) = G(i) /\ i <= j)
      BY <1>2, <2>3, <3>2
    <3> HIDE DEF next
    <3> QED BY <2>1, <2>3, <3>3 DEF Leads
  <2>4. \/ /\ b = [at |-> 0, gain |-> now]
           /\ \A i \in 1..m : G(i) = NotRead \/ G(i) <= now
        \/ \E i \in 1..m : IsTop(i)
    BY DEF Leads
  <2> HIDE DEF G, IsTop
  <2>5. Leads(next, m + 1, c, slots, seat, now)
    BY <2>2, <2>3, <2>4
  <2> QED BY <2>5 DEF G
<1> QED BY <1>3, <1>4

Bidding(slots, seat, now, c) ==
  FoldLeft(LAMBDA b, k : Outbid(b, k, GainIn(slots[k], seat)), [at |-> 0, gain |-> now], c)

LEMMA BiddingFindsTheMost ==
  ASSUME NEW slots, NEW seat, NEW now \in Int, NEW c \in Seq(Nat),
         GainsAreKnown(slots, seat, c)
  PROVE  Leads(Bidding(slots, seat, now, c), Len(c), c, slots, seat, now)
<1> DEFINE n == Len(c)
           last == Bidding(slots, seat, now, c)
<1>9. PICK f \in [0..Len(c) -> Bids] : BidsInTurn(f, slots, seat, now, c)
  BY BiddingIsALoop
<1>1. /\ f \in [0..n -> Bids]
      /\ f[0] = [at |-> 0, gain |-> now]
      /\ \A k \in 1..n : f[k] = Outbid(f[k - 1], c[k], GainIn(slots[c[k]], seat))
      /\ last = f[n]
  BY <1>9 DEF BidsInTurn, Bidding
<1> DEFINE A == {m \in 0..n : Leads(f[m], m, c, slots, seat, now)}
<1>0. n \in Nat
  OBVIOUS
<1> HIDE DEF n, last
<1>2. 0 \in A
  <2>1. \A i \in 1..0 : FALSE
    OBVIOUS
  <2> QED BY <1>0, <1>1, <2>1 DEF Leads
<1>3. ASSUME NEW m \in 0..n-1, m \in A
      PROVE  m + 1 \in A
  <2>1. m \in Nat /\ m + 1 \in 1..n /\ m + 1 \in 0..n /\ (m + 1) - 1 = m /\ \A i \in 1..m + 1 : i \in 1..n
    BY <1>0
  <2>2. f[m] \in Bids /\ Leads(f[m], m, c, slots, seat, now)
    BY <1>1, <1>3
  <2>3. f[m + 1] = Outbid(f[m], c[m + 1], GainIn(slots[c[m + 1]], seat))
    BY <1>1, <2>1
  <2>4. \A i \in 1..m + 1 : GainIn(slots[c[i]], seat) \in Int
    BY <2>1 DEF n, GainsAreKnown
  <2>5. Leads(Outbid(f[m], c[m + 1], GainIn(slots[c[m + 1]], seat)), m + 1, c, slots, seat, now)
    BY <2>1, <2>2, <2>4, TheLeaderIsOutbid
  <2> QED BY <2>1, <2>3, <2>5
<1>4. n \in A
  <2> HIDE DEF A
  <2>1. 0..n \subseteq A
    BY <1>0, <1>2, <1>3, UpTo
  <2> QED BY <1>0, <2>1
<1>5. Leads(last, n, c, slots, seat, now)
  BY <1>1, <1>4
<1> QED BY <1>5 DEF last, n

\* What is best of some ports: 0 where there are none.
IsBest(r, open, slots, seat) ==
  IF open = {} THEN r = 0
  ELSE /\ r \in open
       /\ \A j \in open : \/ GainIn(slots[j], seat) < GainIn(slots[r], seat)
                          \/ GainIn(slots[j], seat) = GainIn(slots[r], seat) /\ r <= j

\* The ports among some that would give a seat more than it has.
WaysOut(seat, slots, admitted) ==
  {k \in admitted : /\ k # seat.at /\ k \notin seat.own
                    /\ AchievableBandwidth(seat) # NotRead /\ GainIn(slots[k], seat) # NotRead
                    /\ GainIn(slots[k], seat) > AchievableBandwidth(seat)}

LEMMA BestSlotIsBest ==
  ASSUME NEW slots \in Seq(Slots), NEW seat \in Seats, NEW admitted, AdmittedByKey(slots, admitted)
  PROVE  IsBest(BestSlot(seat, slots, admitted), WaysOut(seat, slots, admitted), slots, seat)
<1> DEFINE now == AchievableBandwidth(seat)
           c == PlacementCandidates(slots, seat.at, admitted, seat.own)
           last == Bidding(slots, seat, now, c)
           open == WaysOut(seat, slots, admitted)
           G(k) == GainIn(slots[k], seat)
<1>0. /\ Len(slots) \in Nat /\ DOMAIN slots = 1..Len(slots) /\ now \in Int
      /\ \A k \in DOMAIN slots : G(k) \in Int
  <2>1. \A k \in DOMAIN slots : slots[k] \in Slots
    OBVIOUS
  <2>2. \A x \in Figures : x \in Int
    BY DEF Figures, NotRead
  <2> QED BY <2>1, <2>2, SeatCarriesAFigure, GainIsAFigure
<1>1. Asks(slots, seat.at, admitted, seat.own, c)
  BY <1>0, CandidatesAreAsked
<1>2. BestSlot(seat, slots, admitted) = IF now = NotRead THEN 0 ELSE last.at
  BY DEF BestSlot, Bidding
<1>3. c \in Seq(DOMAIN slots)
  BY <1>1 DEF Asks
<1> HIDE DEF c
<1>4. c \in Seq(Nat) /\ Len(c) \in Nat /\ DOMAIN c = 1..Len(c) /\ \A i \in 1..Len(c) : c[i] \in DOMAIN slots /\ G(c[i]) \in Int
  <2>1. Len(c) \in Nat /\ DOMAIN c = 1..Len(c) /\ \A i \in 1..Len(c) : c[i] \in DOMAIN slots
    BY <1>3
  <2>2. c \in Seq(Nat)
    BY <1>0, <1>3
  <2> QED BY <1>0, <2>1, <2>2
<1> HIDE DEF now
<1>5. Leads(last, Len(c), c, slots, seat, now)
  <2>1. GainsAreKnown(slots, seat, c)
    BY <1>4 DEF GainsAreKnown
  <2> QED BY <1>0, <1>4, <2>1, BiddingFindsTheMost
<1> HIDE DEF last
<1>6. CASE now = NotRead
  <2>1. open = {}
    BY <1>6 DEF WaysOut, now
  <2> QED BY <1>2, <1>6, <2>1 DEF IsBest
<1>7. CASE now # NotRead
  <2>1. open = {k \in admitted : k # seat.at /\ k \notin seat.own /\ G(k) # NotRead /\ G(k) > now}
    BY <1>7 DEF WaysOut, now
  <2>2. ASSUME NEW k \in open
        PROVE  \E i \in 1..Len(c) : c[i] <= k /\ G(c[i]) = G(k)
    <3>1. k \in admitted /\ k # seat.at /\ k \notin seat.own
      BY <2>1
    <3>2. PICK i \in DOMAIN c : c[i] <= k /\ PlacementKey(slots[c[i]]) = PlacementKey(slots[k])
      BY <1>1, <3>1 DEF Asks
    <3>3. GainIn(slots[c[i]], seat) = GainIn(slots[k], seat)
      BY <3>2, KeysAnswerAlike
    <3> QED BY <1>4, <3>2, <3>3
  <2>3. ASSUME NEW i \in 1..Len(c)
        PROVE  /\ c[i] \in admitted /\ c[i] # seat.at /\ c[i] \notin seat.own
               /\ \A j \in 1..Len(c) : i < j => c[i] < c[j]
    BY <1>1, <1>4 DEF Asks
  <2>9. \A k \in open : k \in DOMAIN slots
    BY <2>1 DEF AdmittedByKey
  <2> HIDE DEF open
  <2>4. CASE /\ last = [at |-> 0, gain |-> now]
             /\ \A i \in 1..Len(c) : G(c[i]) = NotRead \/ G(c[i]) <= now
    <3>1. open = {}
      <4> SUFFICES ASSUME NEW k \in open PROVE FALSE
        OBVIOUS
      <4>1. PICK i \in 1..Len(c) : c[i] <= k /\ G(c[i]) = G(k)
        BY <2>2
      <4>2. G(k) # NotRead /\ G(k) > now
        BY <2>1
      <4> QED BY <1>0, <1>4, <2>4, <4>1, <4>2
    <3> QED BY <1>2, <1>7, <2>4, <3>1 DEF IsBest, open
  <2>5. ASSUME NEW i \in 1..Len(c),
               last = [at |-> c[i], gain |-> G(c[i])], G(c[i]) # NotRead, G(c[i]) > now,
               \A j \in 1..Len(c) : G(c[j]) = NotRead \/ G(c[j]) < G(c[i]) \/ (G(c[j]) = G(c[i]) /\ i <= j)
        PROVE  IsBest(BestSlot(seat, slots, admitted), open, slots, seat)
    <3> DEFINE r == c[i]
    <3>1. r \in open
      BY <2>1, <2>3, <2>5
    <3>2. ASSUME NEW k \in open
          PROVE  G(k) < G(r) \/ (G(k) = G(r) /\ r <= k)
      <4>1. PICK j \in 1..Len(c) : c[j] <= k /\ G(c[j]) = G(k)
        BY <2>2
      <4>2. G(k) # NotRead /\ k \in DOMAIN slots
        BY <2>1, <2>9
      <4>3. G(c[j]) < G(r) \/ (G(c[j]) = G(r) /\ i <= j)
        BY <2>5, <4>1, <4>2
      <4>4. i <= j => c[i] <= c[j]
        <5>1. i < j => c[i] < c[j]
          BY <2>3
        <5>2. c[i] \in Nat /\ c[j] \in Nat
          BY <1>4
        <5> QED BY <5>1, <5>2
      <4>5. c[j] \in Nat /\ k \in Nat /\ r \in Nat
        BY <1>0, <1>4, <4>2
      <4> QED BY <4>1, <4>3, <4>4, <4>5
    <3>3. BestSlot(seat, slots, admitted) = r
      BY <1>2, <1>7, <2>5
    <3> HIDE DEF r
    <3> QED BY <3>1, <3>2, <3>3 DEF IsBest
  <2>6. \/ /\ last = [at |-> 0, gain |-> now]
           /\ \A i \in 1..Len(c) : G(c[i]) = NotRead \/ G(c[i]) <= now
        \/ \E i \in 1..Len(c) :
             /\ last = [at |-> c[i], gain |-> G(c[i])] /\ G(c[i]) # NotRead /\ G(c[i]) > now
             /\ \A j \in 1..Len(c) : G(c[j]) = NotRead \/ G(c[j]) < G(c[i]) \/ (G(c[j]) = G(c[i]) /\ i <= j)
    BY <1>5 DEF Leads
  <2>7. IsBest(BestSlot(seat, slots, admitted), open, slots, seat)
    <3> HIDE DEF G
    <3>1. last = [at |-> 0, gain |-> now] /\ (\A i \in 1..Len(c) : G(c[i]) = NotRead \/ G(c[i]) <= now)
             => IsBest(BestSlot(seat, slots, admitted), open, slots, seat)
      BY <2>4 DEF open
    <3> QED BY <2>5, <2>6, <3>1
  <2> QED BY <2>7 DEF open
<1> QED BY <1>6, <1>7

\* Which of the ports asked ranking has come to.
Ranks(b, m, c, slots, seat) ==
  \/ b = [at |-> 0, gain |-> NotRead] /\ \A i \in 1..m : GainIn(slots[c[i]], seat) = NotRead
  \/ \E i \in 1..m :
       /\ b = [at |-> c[i], gain |-> GainIn(slots[c[i]], seat)]
       /\ GainIn(slots[c[i]], seat) # NotRead
       /\ \A j \in 1..m : \/ GainIn(slots[c[j]], seat) = NotRead
                          \/ GainIn(slots[c[j]], seat) <= GainIn(slots[c[i]], seat)

LEMMA TheRankIsKept ==
  ASSUME NEW slots, NEW seat, NEW offers, NEW c, NEW m \in Nat, NEW b \in Bids,
         \A i \in 1..m + 1 : GainIn(slots[c[i]], seat) \in Int,
         Ranks(b, m, c, slots, seat), \A i \in 1..m : c[i] # 0
  PROVE  Ranks(Outranks(b, c[m + 1], GainIn(slots[c[m + 1]], seat), offers), m + 1, c, slots, seat)
<1> DEFINE G(i) == GainIn(slots[c[i]], seat)
           next == Outranks(b, c[m + 1], GainIn(slots[c[m + 1]], seat), offers)
           None(k) == \A i \in 1..k : G(i) = NotRead
           IsTop(i, k) == G(i) # NotRead /\ \A j \in 1..k : G(j) = NotRead \/ G(j) <= G(i)
<1>1. 1..m + 1 = (1..m) \cup {m + 1} /\ m + 1 \in 1..m + 1 /\ \A i \in 1..m + 1 : G(i) \in Int
  OBVIOUS
<1>2. \/ b = [at |-> 0, gain |-> NotRead] /\ None(m)
      \/ \E i \in 1..m : b = [at |-> c[i], gain |-> G(i)] /\ IsTop(i, m)
  BY DEF Ranks
<1>3. \/ next = b
      \/ G(m + 1) # NotRead /\ next = [at |-> c[m + 1], gain |-> G(m + 1)]
  BY DEF Outranks
<1>4. b.gain \in Int /\ (b.at # 0 => \A j \in 1..m : G(j) = NotRead \/ G(j) <= b.gain)
  BY <1>2 DEF Bids
<1>5. next # b => G(m + 1) # NotRead /\ (b.at = 0 \/ G(m + 1) >= b.gain)
  <2>1. next # b => G(m + 1) # NotRead /\ (b.at = 0 \/ ~(G(m + 1) < b.gain))
    BY DEF Outranks
  <2> HIDE DEF next, G
  <2> QED BY <1>1, <1>4, <2>1
<1>6. next = b => G(m + 1) = NotRead \/ (b.at # 0 /\ G(m + 1) <= b.gain)
  <2>1. CASE G(m + 1) = NotRead
    BY <2>1
  <2>2. CASE G(m + 1) # NotRead /\ b.at # 0 /\ ~(G(m + 1) <= b.gain)
    <3>1. ~(G(m + 1) < b.gain) /\ G(m + 1) # b.gain
      <4> HIDE DEF G, next
      <4> QED BY <1>1, <1>4, <2>2
    <3>2. next = [at |-> c[m + 1], gain |-> G(m + 1)]
      BY <2>2, <3>1 DEF Outranks
    <3>3. next.gain # b.gain
      <4> HIDE DEF next, G
      <4> QED BY <3>1, <3>2
    <3> HIDE DEF next, G
    <3> QED BY <3>3
  <2>3. CASE G(m + 1) # NotRead /\ b.at = 0
    <3>1. next = [at |-> c[m + 1], gain |-> G(m + 1)]
      BY <2>3 DEF Outranks
    <3>2. b = [at |-> 0, gain |-> NotRead]
      BY <1>2, <2>3
    <3>3. next.gain # b.gain
      <4> HIDE DEF next, G
      <4> QED BY <2>3, <3>1, <3>2
    <3> HIDE DEF next, G
    <3> QED BY <3>3
  <2> HIDE DEF next, G
  <2> QED BY <2>1, <2>2, <2>3
<1> HIDE DEF G, next
<1>7. CASE next # b
  <2>1. next = [at |-> c[m + 1], gain |-> G(m + 1)] /\ G(m + 1) # NotRead
    BY <1>3, <1>7
  <2>2. ASSUME NEW j \in 1..m + 1
        PROVE  G(j) = NotRead \/ G(j) <= G(m + 1)
    <3>1. CASE j = m + 1
      BY <1>1, <3>1
    <3>2. CASE j \in 1..m /\ b.at = 0
      BY <1>2, <3>2
    <3>3. CASE j \in 1..m /\ b.at # 0
      BY <1>1, <1>4, <1>5, <1>7, <3>3
    <3> QED BY <1>1, <3>1, <3>2, <3>3
  <2>3. Ranks(next, m + 1, c, slots, seat)
    BY <1>1, <2>1, <2>2 DEF Ranks, G
  <2> QED BY <2>3 DEF next
<1>8. CASE next = b
  <2>1. CASE b = [at |-> 0, gain |-> NotRead] /\ None(m)
    <3>1. G(m + 1) = NotRead
      BY <1>6, <1>8, <2>1
    <3>2. None(m + 1)
      BY <1>1, <2>1, <3>1
    <3>3. Ranks(next, m + 1, c, slots, seat)
      BY <1>8, <2>1, <3>2 DEF Ranks, G
    <3> QED BY <3>3 DEF next
  <2>2. ASSUME NEW i \in 1..m, b = [at |-> c[i], gain |-> G(i)], IsTop(i, m)
        PROVE  Ranks(next, m + 1, c, slots, seat)
    <3>1. G(m + 1) = NotRead \/ G(m + 1) <= G(i)
      BY <1>6, <1>8, <2>2
    <3>2. i \in 1..m + 1 /\ IsTop(i, m + 1)
      BY <1>1, <2>2, <3>1
    <3> QED BY <1>8, <2>2, <3>2 DEF Ranks, G
  <2>3. Ranks(next, m + 1, c, slots, seat)
    <3>1. b = [at |-> 0, gain |-> NotRead] /\ None(m) => Ranks(next, m + 1, c, slots, seat)
      BY <2>1 DEF next
    <3> HIDE DEF None, IsTop
    <3> QED BY <1>2, <2>2, <3>1
  <2> QED BY <2>3 DEF next
<1> QED BY <1>7, <1>8

Ranking(slots, seat, offers, now, c) ==
  FoldLeft(LAMBDA b, k : Outranks(b, k, GainIn(slots[k], seat), offers), [at |-> 0, gain |-> now], c)

LEMMA RankingFindsTheMost ==
  ASSUME NEW slots, NEW seat, NEW offers, NEW c \in Seq(Nat),
         GainsAreKnown(slots, seat, c), \A i \in 1..Len(c) : c[i] # 0
  PROVE  Ranks(Ranking(slots, seat, offers, NotRead, c), Len(c), c, slots, seat)
<1> DEFINE n == Len(c)
           last == Ranking(slots, seat, offers, NotRead, c)
<1>0. n \in Nat /\ NotRead \in Int
  BY DEF NotRead
<1>9. PICK f \in [0..Len(c) -> Bids] : RanksInTurn(f, slots, seat, offers, NotRead, c)
  BY <1>0, RankingIsALoop
<1>1. /\ f \in [0..n -> Bids]
      /\ f[0] = [at |-> 0, gain |-> NotRead]
      /\ \A k \in 1..n : f[k] = Outranks(f[k - 1], c[k], GainIn(slots[c[k]], seat), offers)
      /\ last = f[n]
  BY <1>9 DEF RanksInTurn, Ranking
<1> DEFINE A == {m \in 0..n : Ranks(f[m], m, c, slots, seat)}
<1> HIDE DEF n, last
<1>2. 0 \in A
  <2>1. \A i \in 1..0 : FALSE
    OBVIOUS
  <2> QED BY <1>0, <1>1, <2>1 DEF Ranks
<1>3. ASSUME NEW m \in 0..n-1, m \in A
      PROVE  m + 1 \in A
  <2>1. m \in Nat /\ m + 1 \in 1..n /\ m + 1 \in 0..n /\ (m + 1) - 1 = m /\ \A i \in 1..m + 1 : i \in 1..n
    BY <1>0
  <2>2. f[m] \in Bids /\ Ranks(f[m], m, c, slots, seat)
    BY <1>1, <1>3
  <2>3. f[m + 1] = Outranks(f[m], c[m + 1], GainIn(slots[c[m + 1]], seat), offers)
    BY <1>1, <2>1
  <2>4. \A i \in 1..m + 1 : GainIn(slots[c[i]], seat) \in Int
    BY <2>1 DEF n, GainsAreKnown
  <2>5. \A i \in 1..m : c[i] # 0
    BY <2>1 DEF n
  <2>6. Ranks(Outranks(f[m], c[m + 1], GainIn(slots[c[m + 1]], seat), offers), m + 1, c, slots, seat)
    BY <2>1, <2>2, <2>4, <2>5, TheRankIsKept
  <2> QED BY <2>1, <2>3, <2>6
<1>4. n \in A
  <2> HIDE DEF A
  <2>1. 0..n \subseteq A
    BY <1>0, <1>2, <1>3, UpTo
  <2> QED BY <1>0, <2>1
<1>5. Ranks(last, n, c, slots, seat)
  BY <1>1, <1>4
<1> QED BY <1>5 DEF last, n

\* The best port of the board is one beside the card's own that gives as much as any.
LEMMA BestPortIsBest ==
  ASSUME NEW slots \in Seq(Slots), NEW seat \in Seats
  PROVE  LET best == BestPortFor(seat, slots)
         IN  /\ best.gain \in Figures
             /\ best.gain # NotRead => /\ best.at \in DOMAIN slots /\ best.at # seat.at
                                       /\ best.gain = GainIn(slots[best.at], seat)
             /\ \A k \in DOMAIN slots : k # seat.at /\ GainIn(slots[k], seat) # NotRead =>
                  GainIn(slots[k], seat) <= best.gain
<1> DEFINE c == PlacementCandidates(slots, seat.at, DOMAIN slots, {})
           offers == [k \in DOMAIN slots |->
                        IF MaxBandwidth(slots[k].link) = NotRead THEN 0 ELSE MaxBandwidth(slots[k].link)]
           best == Ranking(slots, seat, offers, NotRead, c)
           G(k) == GainIn(slots[k], seat)
<1>0. Len(slots) \in Nat /\ DOMAIN slots = 1..Len(slots) /\ \A k \in DOMAIN slots : G(k) \in Int /\ G(k) \in Figures
  <2>1. \A k \in DOMAIN slots : slots[k] \in Slots
    OBVIOUS
  <2>2. \A x \in Figures : x \in Int
    BY DEF Figures, NotRead
  <2> QED BY <2>1, <2>2, GainIsAFigure
<1>1. Asks(slots, seat.at, DOMAIN slots, {}, c)
  <2>1. AdmittedByKey(slots, DOMAIN slots)
    BY DEF AdmittedByKey
  <2> QED BY <1>0, <2>1, CandidatesAreAsked
<1>2. BestPortFor(seat, slots) = best
  BY DEF BestPortFor, Ranking
<1>3. c \in Seq(DOMAIN slots)
  BY <1>1 DEF Asks
<1> HIDE DEF c, offers
<1>4. /\ c \in Seq(Nat) /\ Len(c) \in Nat /\ DOMAIN c = 1..Len(c)
      /\ \A i \in 1..Len(c) : c[i] \in DOMAIN slots /\ G(c[i]) \in Int /\ c[i] # 0
  <2>1. Len(c) \in Nat /\ DOMAIN c = 1..Len(c) /\ \A i \in 1..Len(c) : c[i] \in DOMAIN slots
    BY <1>3
  <2>2. c \in Seq(Nat)
    BY <1>0, <1>3
  <2> QED BY <1>0, <2>1, <2>2
<1>5. Ranks(best, Len(c), c, slots, seat)
  <2>1. GainsAreKnown(slots, seat, c) /\ \A i \in 1..Len(c) : c[i] # 0
    BY <1>4 DEF GainsAreKnown
  <2> QED BY <1>4, <2>1, RankingFindsTheMost
<1> HIDE DEF best
<1> DEFINE IsTop(i) == G(c[i]) # NotRead /\ \A j \in 1..Len(c) : G(c[j]) = NotRead \/ G(c[j]) <= G(c[i])
<1>6. \/ best = [at |-> 0, gain |-> NotRead] /\ \A i \in 1..Len(c) : G(c[i]) = NotRead
      \/ \E i \in 1..Len(c) : best = [at |-> c[i], gain |-> G(c[i])] /\ IsTop(i)
  BY <1>5 DEF Ranks
<1>7. ASSUME NEW k \in DOMAIN slots, k # seat.at
      PROVE  \E i \in 1..Len(c) : G(c[i]) = G(k)
  <2>1. PICK i \in DOMAIN c : PlacementKey(slots[c[i]]) = PlacementKey(slots[k])
    BY <1>1, <1>7 DEF Asks
  <2>2. G(c[i]) = G(k)
    BY <2>1, KeysAnswerAlike
  <2> QED BY <1>4, <2>2
<1>8. \A i \in 1..Len(c) : c[i] # seat.at
  BY <1>1, <1>4 DEF Asks
<1> HIDE DEF G
<1>9. /\ best.gain \in Figures
      /\ best.gain # NotRead => best.at \in DOMAIN slots /\ best.at # seat.at /\ best.gain = G(best.at)
      /\ \A k \in DOMAIN slots : k # seat.at /\ G(k) # NotRead => G(k) <= best.gain
  <2>1. CASE best = [at |-> 0, gain |-> NotRead] /\ \A i \in 1..Len(c) : G(c[i]) = NotRead
    BY <1>7, <2>1 DEF Figures
  <2>2. ASSUME NEW i \in 1..Len(c), best = [at |-> c[i], gain |-> G(c[i])], IsTop(i)
        PROVE  /\ best.gain \in Figures
               /\ best.gain # NotRead => best.at \in DOMAIN slots /\ best.at # seat.at /\ best.gain = G(best.at)
               /\ \A k \in DOMAIN slots : k # seat.at /\ G(k) # NotRead => G(k) <= best.gain
    BY <1>0, <1>4, <1>7, <1>8, <2>2
  <2> HIDE DEF IsTop
  <2> QED BY <1>6, <2>1, <2>2
<1> QED BY <1>2, <1>9 DEF G

-----------------------------------------------------------------------------
(* The findings about a card.                                              *)

FirstOfTheBest(open, slots, seat) ==
  {k \in open :
     \A j \in open : \/ GainIn(slots[j], seat) < GainIn(slots[k], seat)
                     \/ GainIn(slots[j], seat) = GainIn(slots[k], seat) /\ k <= j}

TheBest(open, slots, seat) ==
  IF open = {} THEN 0 ELSE CHOOSE k \in FirstOfTheBest(open, slots, seat) : TRUE

LEMMA BestIsUnique ==
  ASSUME NEW slots, NEW seat, NEW open \in SUBSET Nat, NEW r,
         \A j \in open : GainIn(slots[j], seat) \in Int, IsBest(r, open, slots, seat)
  PROVE  r = TheBest(open, slots, seat)
<1>1. CASE open = {}
  BY <1>1 DEF IsBest, TheBest
<1>2. CASE open # {}
  <2> DEFINE best == FirstOfTheBest(open, slots, seat)
  <2>1. r \in best
    BY <1>2 DEF IsBest, FirstOfTheBest
  <2>2. \A k \in best : k = r
    BY <2>1 DEF FirstOfTheBest
  <2>3. TheBest(open, slots, seat) = CHOOSE k \in best : TRUE
    BY <1>2 DEF TheBest
  <2> HIDE DEF best
  <2>4. r = CHOOSE k \in best : TRUE
    BY <2>1, <2>2
  <2> QED BY <2>3, <2>4
<1> QED BY <1>1, <1>2

\* What a verdict on a card's link rests on.
RestsAsItSays(seat, slots, peaks) ==
  LET v    == DiagnoseControllerLink(seat, slots, peaks)
      now  == AchievableBandwidth(seat)
      free == FreeSlotFor(seat, slots)
      swap == SwapSlotFor(seat, slots)
      best == BestPortFor(seat, slots)
      said == IF DrivesWouldNotice(peaks, now) THEN "warning" ELSE "hint"
  IN  /\ v.says = "a faster slot is free" => now # NotRead /\ free # 0 /\ v.at = free /\ v.severity = said
      /\ v.says = "a faster slot can be swapped for" =>
           now # NotRead /\ free = 0 /\ swap # 0 /\ v.at = swap /\ v.severity = said
      /\ v.says = "faster ports are taken" =>
           now # NotRead /\ free = 0 /\ swap = 0 /\ best.gain > now /\ v.at = best.at
      /\ v.says = "no port would give it more" =>
           now # NotRead /\ free = 0 /\ swap = 0 /\ ~(best.gain > now)
      /\ v.says = "below what both ends support" => now # NotRead

LEMMA WhatVerdictsRestOn ==
  ASSUME NEW seat, NEW slots, NEW peaks
  PROVE  RestsAsItSays(seat, slots, peaks)
<1> DEFINE v    == DiagnoseControllerLink(seat, slots, peaks)
           now  == AchievableBandwidth(seat)
           cur  == CurrentBandwidth(seat.link)
           own  == MaxBandwidth(seat.link)
           free == FreeSlotFor(seat, slots)
           swap == SwapSlotFor(seat, slots)
           best == BestPortFor(seat, slots)
           more == best.gain > now
           said == IF DrivesWouldNotice(peaks, now) THEN "warning" ELSE "hint"
           p    == PlatformLimitedFinding(seat, slots, peaks)
<1> DEFINE unmeasured == UnmeasuredPortFinding(seat)
           fault == Found("warning", "below what both ends support", 0)
<1>1. \/ v = Found("critical", "never trained", 0) \/ v = NoFinding \/ v = unmeasured
      \/ v = fault /\ Short(cur, now)
      \/ v = p /\ Short(now, own)
  <2> DEFINE dead == IsDead(seat.link)
             gone == Found("critical", "never trained", 0)
  <2>1. v = CASE dead -> gone
              [] ~dead /\ Short(cur, now) -> fault
              [] ~dead /\ ~Short(cur, now) /\ now = NotRead -> unmeasured
              [] ~dead /\ ~Short(cur, now) /\ Short(now, own) -> p
              [] OTHER -> NoFinding
    BY DEF DiagnoseControllerLink
  <2>2. now = NotRead => ~Short(now, own)
    BY DEF Short
  <2> HIDE DEF v, p, now, cur, own, dead, unmeasured, fault, gone
  <2>3. CASE dead
    <3>1. v = gone
      BY <2>1, <2>3
    <3> QED BY <3>1 DEF gone
  <2>4. CASE ~dead /\ Short(cur, now)
    BY <2>1, <2>4
  <2>5. CASE ~dead /\ ~Short(cur, now) /\ now = NotRead
    BY <2>1, <2>2, <2>5
  <2>6. CASE ~dead /\ ~Short(cur, now) /\ now # NotRead /\ Short(now, own)
    BY <2>1, <2>6
  <2>7. CASE ~dead /\ ~Short(cur, now) /\ now # NotRead /\ ~Short(now, own)
    BY <2>1, <2>7
  <2> QED BY <2>3, <2>4, <2>5, <2>6, <2>7
<1>2. /\ free # 0 => p = Found(said, "a faster slot is free", free)
      /\ free = 0 /\ swap # 0 => p = Found(said, "a faster slot can be swapped for", swap)
      /\ free = 0 /\ swap = 0 /\ more => p = Found("hint", "faster ports are taken", best.at)
      /\ free = 0 /\ swap = 0 /\ ~more => p = Found("hint", "no port would give it more", 0)
  BY DEF PlatformLimitedFinding, GradedByTheDrives
<1>3. (Short(now, own) => now # NotRead) /\ (Short(cur, now) => now # NotRead)
  BY DEF Short
<1>4. /\ unmeasured.says = "below its own maximum, port not measured" \/ unmeasured.says = "nothing"
      /\ fault.says = "below what both ends support" /\ NoFinding.says = "nothing"
      /\ Found("critical", "never trained", 0).says = "never trained"
  BY DEF UnmeasuredPortFinding, NoFinding, Found
<1>5. free # 0 => p.says = "a faster slot is free" /\ p.at = free /\ p.severity = said
  <2> SUFFICES ASSUME free # 0 PROVE p.says = "a faster slot is free" /\ p.at = free /\ p.severity = said
    OBVIOUS
  <2>1. p = Found(said, "a faster slot is free", free)
    BY <1>2
  <2> HIDE DEF p, free, said
  <2> QED BY <2>1 DEF Found
<1>6. free = 0 /\ swap # 0 => p.says = "a faster slot can be swapped for" /\ p.at = swap /\ p.severity = said
  <2> SUFFICES ASSUME free = 0, swap # 0
               PROVE  p.says = "a faster slot can be swapped for" /\ p.at = swap /\ p.severity = said
    OBVIOUS
  <2>1. p = Found(said, "a faster slot can be swapped for", swap)
    BY <1>2
  <2> HIDE DEF p, free, swap, said
  <2> QED BY <2>1 DEF Found
<1>7. free = 0 /\ swap = 0 /\ more => p.says = "faster ports are taken" /\ p.at = best.at
  <2> SUFFICES ASSUME free = 0, swap = 0, more PROVE p.says = "faster ports are taken" /\ p.at = best.at
    OBVIOUS
  <2>1. p = Found("hint", "faster ports are taken", best.at)
    BY <1>2
  <2> HIDE DEF p, free, swap, best, more
  <2> QED BY <2>1 DEF Found
<1>8. free = 0 /\ swap = 0 /\ ~more => p.says = "no port would give it more"
  <2> SUFFICES ASSUME free = 0, swap = 0, ~more PROVE p.says = "no port would give it more"
    OBVIOUS
  <2>1. p = Found("hint", "no port would give it more", 0)
    BY <1>2
  <2> HIDE DEF p, free, swap, best, more
  <2> QED BY <2>1 DEF Found
<1> HIDE DEF v, now, cur, own, free, swap, best, said, p, more, unmeasured, fault
<1>9. \/ v.says \in {"never trained", "nothing", "below its own maximum, port not measured"}
      \/ v.says = "below what both ends support" /\ now # NotRead
      \/ v = p /\ now # NotRead
  BY <1>1, <1>3, <1>4
<1>10. /\ v.says = "a faster slot is free" => now # NotRead /\ free # 0 /\ v.at = free /\ v.severity = said
       /\ v.says = "a faster slot can be swapped for" =>
            now # NotRead /\ free = 0 /\ swap # 0 /\ v.at = swap /\ v.severity = said
       /\ v.says = "faster ports are taken" =>
            now # NotRead /\ free = 0 /\ swap = 0 /\ more /\ v.at = best.at
       /\ v.says = "no port would give it more" =>
            now # NotRead /\ free = 0 /\ swap = 0 /\ ~more
       /\ v.says = "below what both ends support" => now # NotRead
  <2>1. CASE v = p /\ now # NotRead
    BY <1>5, <1>6, <1>7, <1>8, <2>1
  <2>2. CASE v.says \in {"never trained", "nothing", "below its own maximum, port not measured"}
    BY <2>2
  <2>3. CASE v.says = "below what both ends support" /\ now # NotRead
    BY <2>3
  <2> QED BY <1>9, <2>1, <2>2, <2>3
<1> QED
  BY <1>10 DEF v, now, free, swap, best, said, more, RestsAsItSays

-----------------------------------------------------------------------------
(* The board that is asked about.                                          *)

Boards == [seat : Seats, slots : Seq(Slots), peaks : Seq(Int)]

\* A board is an empty one, or one with a card in its first port.
BoardsAsked ==
  topic = "board" => \/ input = NoFinding
                     \/ /\ input \in Boards /\ input.slots # <<>>
                        /\ input.seat.at = 1 /\ input.seat.own = {}

LEMMA CapsAreLinks ==
  ASSUME NEW cap \in Ends
  PROVE  Cap(cap) \in LinkReadings /\ \A run \in Ends : Link(run, cap) \in LinkReadings
<1> QED
  BY DEF Cap, Link, LinkReadings, Figures, Ends

LEMMA HoldingsAreKnown ==
  ASSUME NEW h \in Holdings
  PROVE  h.connector \in {"yes", "no", "unread"} /\ h.occupied \in BOOLEAN /\ h.display \in BOOLEAN /\ h.occupant \in LinkReadings
<1>1. NoPort \in LinkReadings /\ Cap(<<3, 1>>) \in LinkReadings
  BY DEF NoPort, Cap, Link, LinkReadings, Figures
<1> DEFINE none == NoPort
           small == Cap(<<3, 1>>)
           Empty == {[connector |-> c, occupied |-> FALSE, display |-> FALSE, occupant |-> none] :
                       c \in {"yes", "no", "unread"}}
           Small == {[connector |-> "yes", occupied |-> TRUE, display |-> d, occupant |-> small] :
                       d \in BOOLEAN}
           unknown == [connector |-> "yes", occupied |-> TRUE, display |-> FALSE, occupant |-> none]
<1>2. h \in Empty \/ h \in Small \/ h = unknown
  BY DEF Holdings
<1> HIDE DEF none, small
<1>3. none \in LinkReadings /\ small \in LinkReadings
  BY <1>1 DEF none, small
<1>4. CASE h \in Empty
  <2>1. PICK c \in {"yes", "no", "unread"} :
          h = [connector |-> c, occupied |-> FALSE, display |-> FALSE, occupant |-> none]
    BY <1>4
  <2> QED BY <1>3, <2>1
<1>5. CASE h \in Small
  <2>1. PICK d \in BOOLEAN : h = [connector |-> "yes", occupied |-> TRUE, display |-> d, occupant |-> small]
    BY <1>5
  <2>2. h.connector = "yes" /\ h.occupied = TRUE /\ h.occupant = small
    BY <2>1
  <2>3. h.display = d
    BY <2>1
  <2> QED BY <1>3, <2>2, <2>3
<1>6. CASE h = unknown
  BY <1>3, <1>6
<1> HIDE DEF Empty, Small, unknown
<1> QED
  BY <1>2, <1>4, <1>5, <1>6

LEMMA SlotsAreKnown ==
  ASSUME NEW cap \in Ends, NEW ceiling \in Figures, NEW h,
         h.connector \in {"yes", "no", "unread"}, h.occupied \in BOOLEAN, h.display \in BOOLEAN, h.occupant \in LinkReadings
  PROVE  Slot(cap, ceiling, h) \in Slots
<1> QED
  BY CapsAreLinks DEF Slot, Slots

LEMMA BoardIsSeated ==
  ASSUME NEW card \in Cards, NEW port \in Ports, NEW run \in Runs, NEW peaks \in Demands
  PROVE  LET b == Board(card, port, run, peaks)
         IN  b \in Boards /\ b.slots # <<>> /\ b.seat.at = 1 /\ b.seat.own = {}
<1>1. card \in Ends /\ port \in Ends /\ run \in Ends /\ peaks \in Seq(Int)
  BY BoardsAreReadings
<1> DEFINE h == [connector |-> "yes", occupied |-> TRUE, display |-> FALSE, occupant |-> Cap(card)]
           slot == Slot(port, Unlimited, h)
           seat == [link |-> Link(run, card), port |-> Cap(port), at |-> 1, own |-> {}]
<1>2. Link(run, card) \in LinkReadings /\ Cap(port) \in LinkReadings /\ Cap(card) \in LinkReadings
  BY <1>1, CapsAreLinks
<1>3. slot \in Slots
  <2>1. Unlimited \in Figures
    BY DEF Unlimited, Figures
  <2>2. h.connector \in {"yes", "no", "unread"} /\ h.occupied \in BOOLEAN /\ h.display \in BOOLEAN /\ h.occupant \in LinkReadings
    BY <1>2
  <2> HIDE DEF h
  <2> QED BY <1>1, <2>1, <2>2, SlotsAreKnown
<1>4. seat \in Seats
  BY <1>2 DEF Seats
<1>5. Board(card, port, run, peaks) = [seat |-> seat, slots |-> <<slot>>, peaks |-> peaks]
  BY DEF Board
<1>6. seat.at = 1 /\ seat.own = {}
  OBVIOUS
<1> HIDE DEF slot, seat, h
<1>7. <<slot>> \in Seq(Slots) /\ <<slot>> # <<>>
  BY <1>3
<1> QED
  BY <1>1, <1>4, <1>5, <1>6, <1>7 DEF Boards

LEMMA BoardsGrow ==
  ASSUME BoardsAsked, topic = "board", topic' = topic, SeatTheCard \/ AddPort
  PROVE  BoardsAsked'
<1>1. CASE SeatTheCard
  <2>1. PICK card \in Cards, port \in Ports, run \in Runs, peaks \in Demands :
          input' = Board(card, port, run, peaks)
    BY <1>1 DEF SeatTheCard, Build
  <2> QED BY <2>1, BoardIsSeated DEF BoardsAsked
<1>2. CASE AddPort
  <2>1. PICK port \in Others, ceiling \in Ceilings, h \in Holdings :
          input' = [input EXCEPT !.slots = Append(@, Slot(port, ceiling, h))]
    BY <1>2 DEF AddPort, Build
  <2>2. input \in Boards /\ input.slots # <<>> /\ input.seat.at = 1 /\ input.seat.own = {}
    BY <1>2 DEF AddPort, BoardsAsked
  <2> DEFINE slot == Slot(port, ceiling, h)
  <2>3. slot \in Slots
    <3>1. port \in Ends /\ ceiling \in Figures
      BY BoardsAreReadings DEF Figures
    <3> QED BY <3>1, HoldingsAreKnown, SlotsAreKnown
  <2> HIDE DEF slot
  <2>4. Append(input.slots, slot) \in Seq(Slots) /\ Append(input.slots, slot) # <<>>
    BY <2>2, <2>3 DEF Boards
  <2>5. input' = [input EXCEPT !.slots = Append(input.slots, slot)]
    BY <2>1 DEF slot
  <2>6. input'.slots = Append(input.slots, slot) /\ input'.seat = input.seat /\ input' \in Boards
    BY <2>2, <2>4, <2>5 DEF Boards
  <2> QED BY <2>2, <2>4, <2>6 DEF BoardsAsked
<1> QED BY <1>1, <1>2

\* What is known of the drives' demands is numbers, and all of them where all are known.
LEMMA KnownPeaksAre ==
  ASSUME NEW peaks \in Seq(Int)
  PROVE  /\ KnownPeaks(peaks) \in Seq(Int)
         /\ Len(KnownPeaks(peaks)) >= Len(peaks) => KnownPeaks(peaks) = peaks /\ \A i \in DOMAIN peaks : peaks[i] > 0
<1> DEFINE n == Len(peaks)
           J == {i \in DOMAIN peaks : peaks[i] > 0}
<1>1. n \in Nat /\ DOMAIN peaks = 1..n /\ J \in SUBSET (1..n) /\ KnownPeaks(peaks) = At(peaks, J)
  BY DEF KnownPeaks
<1>2. /\ At(peaks, J) = [k \in 1..Cardinality(J) |-> peaks[Nth(J, k)]]
      /\ At(peaks, J) \in Seq(Int) /\ Len(At(peaks, J)) = Cardinality(J)
  <2> HIDE DEF J
  <2> QED BY <1>1, AtLists
<1> HIDE DEF n
<1>3. ASSUME Cardinality(J) >= n
      PROVE  J = 1..n
  <2>1. IsFiniteSet(1..n) /\ Cardinality(1..n) = n
    <3>1. Cardinality(1..n) = IF 1 > n THEN 0 ELSE n - 1 + 1
      BY <1>1, FS_Interval
    <3> QED BY <1>1, <3>1, FS_Interval
  <2>2. Cardinality(J) <= n /\ Cardinality(J) \in Nat
    <3> HIDE DEF J
    <3> QED BY <1>1, PositionsAreFinite
  <2> HIDE DEF J
  <2>3. Cardinality(J) = Cardinality(1..n)
    BY <1>1, <1>3, <2>1, <2>2
  <2> QED BY <1>1, <2>1, <2>3, FS_Subset
<1>4. ASSUME J = 1..n
      PROVE  At(peaks, J) = peaks
  <2>2. Cardinality(J) = n
    <3>1. Cardinality(1..n) = IF 1 > n THEN 0 ELSE n - 1 + 1
      BY <1>1, FS_Interval
    <3> HIDE DEF J
    <3> QED BY <1>1, <1>4, <3>1
  <2> HIDE DEF J
  <2>1. \A k \in 1..n : Nth(J, k) = k
    <3> SUFFICES ASSUME NEW k \in 1..n PROVE Nth(J, k) = k
      OBVIOUS
    <3>1. \A i \in 0..n-1 : Nth(J, Cardinality(J) - i) = n - i
      <4>1. n \in 0..n /\ (n - n + 1)..n \subseteq J
        BY <1>1, <1>4
      <4> QED BY <1>1, <4>1, NthAtTheEnds
    <3>2. n - k \in 0..n-1 /\ n - (n - k) = k
      BY <1>1
    <3>3. Nth(J, n - (n - k)) = n - (n - k)
      BY <2>2, <3>1, <3>2
    <3> QED BY <3>2, <3>3
  <2>3. At(peaks, J) = [k \in 1..n |-> peaks[k]]
    BY <1>2, <2>1, <2>2
  <2>4. peaks = [k \in 1..n |-> peaks[k]]
    BY <1>1
  <2> QED BY <2>3, <2>4
<1>5. J = 1..n => \A i \in DOMAIN peaks : peaks[i] > 0
  BY <1>1
<1> HIDE DEF J
<1>6. Len(KnownPeaks(peaks)) >= n => KnownPeaks(peaks) = peaks /\ \A i \in DOMAIN peaks : peaks[i] > 0
  BY <1>1, <1>2, <1>3, <1>4, <1>5
<1> QED BY <1>1, <1>2, <1>6 DEF n

\* A board that was built: a card in its first port.
LEMMA OnABoard ==
  ASSUME BoardsAsked, OnBoard
  PROVE  /\ input.seat \in Seats /\ input.slots \in Seq(Slots) /\ input.peaks \in Seq(Int)
         /\ input.seat.at = 1 /\ input.seat.own = {}
         /\ Len(input.slots) \in Nat /\ DOMAIN input.slots = 1..Len(input.slots)
         /\ Now \in Figures /\ \A k \in DOMAIN input.slots : Gain(k) \in Int
<1>1. /\ input \in Boards /\ input.seat.at = 1 /\ input.seat.own = {}
  BY DEF BoardsAsked, OnBoard
<1>2. input.seat \in Seats /\ input.slots \in Seq(Slots) /\ input.peaks \in Seq(Int)
  BY <1>1 DEF Boards
<1>3. Len(input.slots) \in Nat /\ DOMAIN input.slots = 1..Len(input.slots) /\ \A k \in DOMAIN input.slots : input.slots[k] \in Slots
  BY <1>2
<1>4. \A k \in DOMAIN input.slots : Gain(k) \in Int
  <2>1. \A x \in Figures : x \in Int
    BY DEF Figures, NotRead
  <2> QED BY <1>2, <1>3, <2>1, GainIsAFigure DEF Gain
<1>5. Now \in Figures
  BY <1>2, SeatCarriesAFigure DEF Now
<1> QED BY <1>1, <1>2, <1>3, <1>4, <1>5

\* The ports a card is offered are told by their keys.
MoveTargets(slots) == {k \in DOMAIN slots : IsMoveTarget(slots[k])}
UnreadTargets(slots) == {k \in DOMAIN slots : ~slots[k].occupied /\ slots[k].connector = "unread"}
SwapTargets(slots, seat) == {k \in DOMAIN slots : IsWorthwhile(slots[k], seat)}

LEMMA OffersAreByKey ==
  ASSUME NEW slots, NEW seat
  PROVE  /\ AdmittedByKey(slots, MoveTargets(slots))
         /\ AdmittedByKey(slots, UnreadTargets(slots))
         /\ AdmittedByKey(slots, SwapTargets(slots, seat))
         /\ FreeSlotFor(seat, slots) = BestSlot(seat, slots, MoveTargets(slots))
         /\ UnreadFreeSlotFor(seat, slots) = BestSlot(seat, slots, UnreadTargets(slots))
         /\ SwapSlotFor(seat, slots) = BestSlot(seat, slots, SwapTargets(slots, seat))
<1>1. ASSUME NEW j \in DOMAIN slots, NEW k \in DOMAIN slots, PlacementKey(slots[j]) = PlacementKey(slots[k])
      PROVE  /\ j \in MoveTargets(slots) <=> k \in MoveTargets(slots)
             /\ j \in UnreadTargets(slots) <=> k \in UnreadTargets(slots)
             /\ j \in SwapTargets(slots, seat) <=> k \in SwapTargets(slots, seat)
  <2>1. /\ IsMoveTarget(slots[j]) = IsMoveTarget(slots[k])
        /\ slots[j].occupied = slots[k].occupied /\ slots[j].connector = slots[k].connector
        /\ IsWorthwhile(slots[j], seat) <=> IsWorthwhile(slots[k], seat)
    BY <1>1, KeysAnswerAlike
  <2> QED BY <2>1 DEF MoveTargets, UnreadTargets, SwapTargets
<1>2. /\ MoveTargets(slots) \in SUBSET DOMAIN slots /\ UnreadTargets(slots) \in SUBSET DOMAIN slots
      /\ SwapTargets(slots, seat) \in SUBSET DOMAIN slots
  BY DEF MoveTargets, UnreadTargets, SwapTargets
<1>3. /\ AdmittedByKey(slots, MoveTargets(slots)) /\ AdmittedByKey(slots, UnreadTargets(slots))
      /\ AdmittedByKey(slots, SwapTargets(slots, seat))
  BY <1>1, <1>2 DEF AdmittedByKey
<1>4. /\ FreeSlotFor(seat, slots) = BestSlot(seat, slots, MoveTargets(slots))
      /\ UnreadFreeSlotFor(seat, slots) = BestSlot(seat, slots, UnreadTargets(slots))
      /\ SwapSlotFor(seat, slots) = BestSlot(seat, slots, SwapTargets(slots, seat))
  BY DEF FreeSlotFor, UnreadFreeSlotFor, SwapSlotFor, MoveTargets, UnreadTargets, SwapTargets
<1> QED BY <1>3, <1>4

\* The ports that are open to the card where some functions below it are its own.
OpenTo(own, admitted) == {k \in admitted : k # 1 /\ k \notin own /\ IsGain(k)}

LEMMA AdvisedIsBest ==
  ASSUME BoardsAsked, OnBoard, NEW own \in SUBSET (2..Len(input.slots)),
         NEW admitted, AdmittedByKey(input.slots, admitted)
  PROVE  BestSlot([input.seat EXCEPT !.own = own], input.slots, admitted)
           = TheBest(OpenTo(own, admitted), input.slots, input.seat)
<1> DEFINE seat == [input.seat EXCEPT !.own = own]
           slots == input.slots
           open == WaysOut(seat, slots, admitted)
<1>1. /\ input.seat \in Seats /\ slots \in Seq(Slots) /\ input.seat.at = 1
      /\ Len(slots) \in Nat /\ DOMAIN slots = 1..Len(slots) /\ \A k \in DOMAIN slots : Gain(k) \in Int
  BY OnABoard
<1>2. seat \in Seats /\ seat.at = 1 /\ seat.own = own /\ seat.link = input.seat.link /\ seat.port = input.seat.port
  <2>1. own \in SUBSET Nat
    BY <1>1
  <2> QED BY <1>1, <2>1 DEF Seats
<1> HIDE DEF seat
<1>3. AchievableBandwidth(seat) = Now /\ \A s : GainIn(s, seat) = GainIn(s, input.seat)
  BY <1>2 DEF AchievableBandwidth, Achievable, GainIn, Now
<1>4. open = OpenTo(own, admitted)
  BY <1>2, <1>3 DEF WaysOut, OpenTo, IsGain, Gain
<1>5. IsBest(BestSlot(seat, slots, admitted), open, slots, seat)
  BY <1>1, <1>2, BestSlotIsBest
<1>6. open \in SUBSET Nat /\ \A j \in open : GainIn(slots[j], seat) \in Int
  <2>1. \A j \in open : j \in DOMAIN slots
    BY DEF WaysOut, AdmittedByKey
  <2> HIDE DEF open
  <2> QED BY <1>1, <1>3, <2>1 DEF Gain
<1> HIDE DEF slots, open
<1>7. BestSlot(seat, slots, admitted) = TheBest(open, slots, seat)
  BY <1>5, <1>6, BestIsUnique
<1>8. TheBest(open, slots, seat) = TheBest(open, slots, input.seat)
  <2>1. FirstOfTheBest(open, slots, seat) = FirstOfTheBest(open, slots, input.seat)
    BY <1>3 DEF FirstOfTheBest
  <2> QED BY <2>1 DEF TheBest
<1> QED
  BY <1>4, <1>7, <1>8 DEF seat, slots

LEMMA AdviceIsTheBest ==
  ASSUME BoardsAsked
  PROVE  AdvisedPortIsTheBest
<1> SUFFICES ASSUME OnBoard, NEW own \in SUBSET (2..Len(input.slots))
             PROVE  LET seat == [input.seat EXCEPT !.own = own]
                    IN  /\ FreeSlotFor(seat, input.slots) = PlainBest(input.slots, own, IsMoveTarget)
                        /\ UnreadFreeSlotFor(seat, input.slots) =
                             PlainBest(input.slots, own, LAMBDA s : ~s.occupied /\ s.connector = "unread")
                        /\ SwapSlotFor(seat, input.slots) =
                             PlainBest(input.slots, own, LAMBDA s : IsWorthwhile(s, seat))
  BY DEF AdvisedPortIsTheBest
<1> DEFINE seat == [input.seat EXCEPT !.own = own]
           slots == input.slots
<1> HIDE DEF seat
<1>1. /\ OpenTo(own, MoveTargets(slots))
           = {k \in DOMAIN input.slots : k # 1 /\ k \notin own /\ IsMoveTarget(input.slots[k]) /\ IsGain(k)}
      /\ OpenTo(own, UnreadTargets(slots))
           = {k \in DOMAIN input.slots : k # 1 /\ k \notin own
                /\ (~input.slots[k].occupied /\ input.slots[k].connector = "unread") /\ IsGain(k)}
      /\ OpenTo(own, SwapTargets(slots, seat))
           = {k \in DOMAIN input.slots : k # 1 /\ k \notin own /\ IsWorthwhile(input.slots[k], seat) /\ IsGain(k)}
  BY DEF OpenTo, MoveTargets, UnreadTargets, SwapTargets
<1>2. FreeSlotFor(seat, slots) = TheBest(OpenTo(own, MoveTargets(slots)), slots, input.seat)
  BY OffersAreByKey, AdvisedIsBest DEF seat
<1>3. UnreadFreeSlotFor(seat, slots) = TheBest(OpenTo(own, UnreadTargets(slots)), slots, input.seat)
  BY OffersAreByKey, AdvisedIsBest DEF seat
<1>4. SwapSlotFor(seat, slots) = TheBest(OpenTo(own, SwapTargets(slots, seat)), slots, input.seat)
  BY OffersAreByKey, AdvisedIsBest DEF seat
<1>5. TheBest(OpenTo(own, MoveTargets(slots)), slots, input.seat) = PlainBest(input.slots, own, IsMoveTarget)
  BY <1>1 DEF PlainBest, TheBest, FirstOfTheBest, Gain
<1>6. TheBest(OpenTo(own, UnreadTargets(slots)), slots, input.seat)
        = PlainBest(input.slots, own, LAMBDA s : ~s.occupied /\ s.connector = "unread")
  BY <1>1 DEF PlainBest, TheBest, FirstOfTheBest, Gain
<1>7. TheBest(OpenTo(own, SwapTargets(slots, seat)), slots, input.seat)
        = PlainBest(input.slots, own, LAMBDA s : IsWorthwhile(s, seat))
  BY <1>1 DEF PlainBest, TheBest, FirstOfTheBest, Gain
<1> QED
  BY <1>2, <1>3, <1>4, <1>5, <1>6, <1>7 DEF seat

\* What a fabric link's finding rests on.
LEMMA WhatTheFabricRestsOn ==
  ASSUME NEW seat, NEW slots
  PROVE  LET f      == DiagnoseFabricLink(seat, slots)
             free   == FreeSlotFor(seat, slots)
             unread == UnreadFreeSlotFor(seat, slots)
         IN  /\ f.says = "capped by its slot, a free one carries more" => free # 0 /\ f.at = free
             /\ f.says = "capped by its slot, no free slot carries more" => free = 0 /\ unread = 0
<1> DEFINE f      == DiagnoseFabricLink(seat, slots)
           free   == FreeSlotFor(seat, slots)
           unread == UnreadFreeSlotFor(seat, slots)
           w      == WhereItCouldGo(seat, slots)
           lanes  == Found("hint", "lanes did not train", 0)
<1>1. f = lanes \/ f = NoFinding \/ f = w
  BY DEF DiagnoseFabricLink
<1>2. lanes.says = "lanes did not train" /\ NoFinding.says = "nothing"
  BY DEF Found, NoFinding
<1>3. /\ free # 0 => w = Found("hint", "capped by its slot, a free one carries more", free)
      /\ free = 0 /\ unread # 0 => w = Found("hint", "capped by its slot, a port may be a slot", unread)
      /\ free = 0 /\ unread = 0 => w = Found("hint", "capped by its slot, no free slot carries more", 0)
  BY DEF WhereItCouldGo
<1> HIDE DEF f, free, unread, w, lanes
<1>4. free # 0 => w.says = "capped by its slot, a free one carries more" /\ w.at = free
  <2> SUFFICES ASSUME free # 0
               PROVE  w.says = "capped by its slot, a free one carries more" /\ w.at = free
    OBVIOUS
  <2>1. w = Found("hint", "capped by its slot, a free one carries more", free)
    BY <1>3
  <2> QED BY <2>1 DEF Found
<1>5. free = 0 /\ unread # 0 => w.says = "capped by its slot, a port may be a slot"
  <2> SUFFICES ASSUME free = 0, unread # 0 PROVE w.says = "capped by its slot, a port may be a slot"
    OBVIOUS
  <2>1. w = Found("hint", "capped by its slot, a port may be a slot", unread)
    BY <1>3
  <2> QED BY <2>1 DEF Found
<1>6. f.says = "capped by its slot, a free one carries more" => free # 0 /\ f.at = free
  <2> SUFFICES ASSUME f.says = "capped by its slot, a free one carries more" PROVE free # 0 /\ f.at = free
    OBVIOUS
  <2>1. f = w
    BY <1>1, <1>2
  <2>2. CASE free # 0
    BY <1>4, <2>1, <2>2
  <2>3. CASE free = 0 /\ unread # 0
    BY <1>5, <2>1, <2>3
  <2>4. CASE free = 0 /\ unread = 0
    <3>1. w.says = "capped by its slot, no free slot carries more"
      <4>1. w = Found("hint", "capped by its slot, no free slot carries more", 0)
        BY <1>3, <2>4
      <4> QED BY <4>1 DEF Found
    <3> QED BY <2>1, <3>1
  <2> QED BY <2>2, <2>3, <2>4
<1>7. f.says = "capped by its slot, no free slot carries more" => free = 0 /\ unread = 0
  BY <1>1, <1>2, <1>4, <1>5
<1> QED
  BY <1>6, <1>7 DEF f, free, unread

\* The ports that give more, and what is found among them.
MoreOnTheBoard(admitted) == {k \in 2..Len(input.slots) : IsGain(k)} \cap admitted

LEMMA WhatIsFoundGivesMore ==
  ASSUME BoardsAsked, OnBoard, NEW admitted, AdmittedByKey(input.slots, admitted)
  PROVE  LET r == BestSlot(input.seat, input.slots, admitted)
         IN  /\ r = 0 => MoreOnTheBoard(admitted) = {}
             /\ r # 0 => r \in MoreOnTheBoard(admitted)
<1> DEFINE r == BestSlot(input.seat, input.slots, admitted)
           open == WaysOut(input.seat, input.slots, admitted)
<1>1. /\ input.seat \in Seats /\ input.slots \in Seq(Slots) /\ input.seat.at = 1 /\ input.seat.own = {}
      /\ Len(input.slots) \in Nat /\ DOMAIN input.slots = 1..Len(input.slots)
  BY OnABoard
<1>2. IsBest(r, open, input.slots, input.seat)
  BY <1>1, BestSlotIsBest
<1>3. open = MoreOnTheBoard(admitted)
  <2>1. admitted \in SUBSET (1..Len(input.slots))
    BY <1>1 DEF AdmittedByKey
  <2>2. \A k \in 1..Len(input.slots) : k # 1 <=> k \in 2..Len(input.slots)
    BY <1>1
  <2>3. open = {k \in admitted : k # 1 /\ IsGain(k)}
    BY <1>1 DEF WaysOut, IsGain, Gain, Now
  <2> HIDE DEF open
  <2> QED BY <2>1, <2>2, <2>3 DEF MoreOnTheBoard
<1>4. 0 \notin MoreOnTheBoard(admitted)
  BY DEF MoreOnTheBoard
<1> HIDE DEF r, open
<1>5. (r = 0 => open = {}) /\ (r # 0 => r \in open)
  BY <1>2, <1>3, <1>4 DEF IsBest
<1> QED BY <1>3, <1>5 DEF r

LEMMA CappedCardsAreTold ==
  ASSUME BoardsAsked
  PROVE  CappedCardIsToldTheTruth
<1> SUFFICES ASSUME OnBoard
             PROVE  LET ways == {k \in 2..Len(input.slots) : IsGain(k)}
                        free == {k \in ways : IsMoveTarget(input.slots[k])}
                    IN  /\ Verdict.says = "a faster slot is free" => Verdict.at \in free
                        /\ Verdict.says = "a faster slot can be swapped for" => free = {} /\ Verdict.at \in ways
                        /\ Verdict.says = "faster ports are taken" => free = {} /\ Verdict.at \in ways
                        /\ Verdict.says = "no port would give it more" => ways = {}
                        /\ Fabric.says = "capped by its slot, a free one carries more" => Fabric.at \in free
                        /\ Fabric.says = "capped by its slot, no free slot carries more" =>
                             \A k \in ways : input.slots[k].occupied \/ input.slots[k].connector = "no"
  BY DEF CappedCardIsToldTheTruth
<1> DEFINE slots == input.slots
           seat == input.seat
           ways == {k \in 2..Len(slots) : IsGain(k)}
           free == {k \in ways : IsMoveTarget(slots[k])}
           move == FreeSlotFor(seat, slots)
           swap == SwapSlotFor(seat, slots)
           dark == UnreadFreeSlotFor(seat, slots)
           best == BestPortFor(seat, slots)
<1>1. /\ seat \in Seats /\ slots \in Seq(Slots) /\ seat.at = 1 /\ seat.own = {}
      /\ Len(slots) \in Nat /\ DOMAIN slots = 1..Len(slots)
      /\ Now \in Figures /\ \A k \in DOMAIN slots : Gain(k) \in Int
  BY OnABoard
<1>2. free = MoreOnTheBoard(MoveTargets(slots)) /\ free \subseteq ways
  BY <1>1 DEF MoreOnTheBoard, MoveTargets
<1>3. (move = 0 => free = {}) /\ (move # 0 => move \in free)
  <2> HIDE DEF free
  <2> QED BY <1>2, OffersAreByKey, WhatIsFoundGivesMore
<1>4. swap # 0 => swap \in ways
  <2>1. swap # 0 => swap \in MoreOnTheBoard(SwapTargets(slots, seat))
    BY OffersAreByKey, WhatIsFoundGivesMore
  <2> QED BY <2>1 DEF MoreOnTheBoard
<1>5. dark = 0 => \A k \in ways : slots[k].occupied \/ slots[k].connector # "unread"
  <2>1. dark = 0 => MoreOnTheBoard(UnreadTargets(slots)) = {}
    BY OffersAreByKey, WhatIsFoundGivesMore
  <2>2. \A k \in ways : k \in DOMAIN slots
    BY <1>1
  <2> HIDE DEF dark
  <2> QED BY <2>1, <2>2 DEF MoreOnTheBoard, UnreadTargets
<1>6. /\ best.gain > Now /\ Now # NotRead => best.at \in ways
      /\ ~(best.gain > Now) /\ Now # NotRead => ways = {}
  <2>1. /\ best.gain \in Figures
        /\ best.gain # NotRead => best.at \in DOMAIN slots /\ best.at # 1 /\ best.gain = Gain(best.at)
        /\ \A k \in DOMAIN slots : k # 1 /\ Gain(k) # NotRead => Gain(k) <= best.gain
    BY <1>1, BestPortIsBest DEF Gain
  <2>2. \A k \in DOMAIN slots : k # 1 <=> k \in 2..Len(slots)
    BY <1>1
  <2>3. \A k \in ways : k \in DOMAIN slots /\ k # 1 /\ Gain(k) # NotRead /\ Gain(k) > Now
    BY <1>1 DEF IsGain
  <2> HIDE DEF best
  <2>4. ASSUME best.gain > Now, Now # NotRead
        PROVE  best.at \in ways
    <3>1. best.gain # NotRead
      BY <1>1, <2>1, <2>4 DEF Figures, NotRead
    <3> QED BY <2>1, <2>2, <2>4, <3>1 DEF IsGain
  <2> HIDE DEF ways
  <2>5. ASSUME ~(best.gain > Now), Now # NotRead, NEW k \in ways
        PROVE  FALSE
    <3>1. Gain(k) > Now /\ Gain(k) <= best.gain /\ Gain(k) \in Int /\ best.gain \in Int /\ Now \in Int
      BY <1>1, <2>1, <2>3 DEF Figures, NotRead
    <3> QED BY <2>5, <3>1
  <2> QED BY <2>4, <2>5
<1>7. /\ Verdict.says = "a faster slot is free" => move # 0 /\ Verdict.at = move
      /\ Verdict.says = "a faster slot can be swapped for" => move = 0 /\ swap # 0 /\ Verdict.at = swap
      /\ Verdict.says = "faster ports are taken" =>
           Now # NotRead /\ move = 0 /\ best.gain > Now /\ Verdict.at = best.at
      /\ Verdict.says = "no port would give it more" => Now # NotRead /\ ~(best.gain > Now)
  <2>1. Verdict = DiagnoseControllerLink(seat, slots, input.peaks) /\ Now = AchievableBandwidth(seat)
    BY DEF Verdict, Now
  <2> DEFINE v == DiagnoseControllerLink(seat, slots, input.peaks)
             now == AchievableBandwidth(seat)
             said == IF DrivesWouldNotice(input.peaks, now) THEN "warning" ELSE "hint"
             more == best.gain > now
  <2>2. /\ v.says = "a faster slot is free" => now # NotRead /\ move # 0 /\ v.at = move /\ v.severity = said
        /\ v.says = "a faster slot can be swapped for" =>
             now # NotRead /\ move = 0 /\ swap # 0 /\ v.at = swap /\ v.severity = said
        /\ v.says = "faster ports are taken" =>
             now # NotRead /\ move = 0 /\ swap = 0 /\ more /\ v.at = best.at
        /\ v.says = "no port would give it more" =>
             now # NotRead /\ move = 0 /\ swap = 0 /\ ~more
        /\ v.says = "below what both ends support" => now # NotRead
    <3>1. RestsAsItSays(seat, slots, input.peaks)
      BY WhatVerdictsRestOn
    <3> QED BY <3>1 DEF RestsAsItSays
  <2> HIDE DEF v, now, move, swap, best, said
  <2>3. Verdict = v /\ Now = now
    BY <2>1 DEF v, now
  <2> QED BY <2>2, <2>3
<1>8. /\ Fabric.says = "capped by its slot, a free one carries more" => move # 0 /\ Fabric.at = move
      /\ Fabric.says = "capped by its slot, no free slot carries more" => move = 0 /\ dark = 0
  BY WhatTheFabricRestsOn DEF Fabric
<1>9. \A k \in ways : slots[k].connector \in {"yes", "no", "unread"} /\ slots[k].occupied \in BOOLEAN
  <2>1. \A k \in DOMAIN slots : slots[k] \in Slots
    BY <1>1
  <2>2. \A k \in ways : k \in DOMAIN slots
    BY <1>1
  <2> HIDE DEF ways
  <2> QED BY <2>1, <2>2 DEF Slots
<1>10. \A k \in ways : k \in free <=> slots[k].connector = "yes" /\ ~slots[k].occupied
  BY DEF IsMoveTarget
<1> HIDE DEF ways, free, move, swap, dark, best
<1>11. free = {} /\ dark = 0 => \A k \in ways : slots[k].occupied \/ slots[k].connector = "no"
  BY <1>5, <1>9, <1>10
<1> QED
  BY <1>2, <1>3, <1>4, <1>6, <1>7, <1>8, <1>11 DEF ways, free

\* A reading that failed may have said anything; one that did not is what it was.
LEMMA FillingKeepsTheRead ==
  ASSUME NEW l \in LinkReadings, NEW f \in Filled(l)
  PROVE  /\ f \in LinkReadings
         /\ CapabilityIsKnown(l) => f = l
         /\ MaxBandwidth(l) # NotRead => f = l
<1>1. PICK s \in (IF l.maxSpeed = NotRead THEN {1, 3} ELSE {l.maxSpeed}),
           w \in (IF l.maxWidth = NotRead THEN {1, 8} ELSE {l.maxWidth}) :
        f = MightBe(l, s, w)
  BY DEF Filled
<1>2. s \in Figures /\ w \in Figures
  BY DEF LinkReadings, Figures
<1>3. f \in LinkReadings
  BY <1>1, <1>2 DEF LinkReadings, MightBe
<1>4. CapabilityIsKnown(l) => s = l.maxSpeed /\ w = l.maxWidth
  BY DEF CapabilityIsKnown
<1>5. CapabilityIsKnown(l) => f = l
  BY <1>1, <1>4 DEF LinkReadings, MightBe
<1>6. MaxBandwidth(l) # NotRead => CapabilityIsKnown(l)
  BY DEF MaxBandwidth, PcieBandwidth, CapabilityIsKnown
<1> QED BY <1>3, <1>5, <1>6

LEMMA BlameOutlasts ==
  ASSUME BoardsAsked
  PROVE  BlameOutlastsTheUnread
<1> DEFINE demand == FoldLeft(+, 0, KnownPeaks(input.peaks))
           over(seat) == Short(UplinkBandwidth(seat), demand)
<1> SUFFICES ASSUME OnBoard, NEW seat \in Completions(input.seat)
             PROVE  /\ Verdict.says = "below what both ends support" =>
                         DiagnoseControllerLink(seat, input.slots, input.peaks).says = Verdict.says
                    /\ over(input.seat) => over(seat)
  BY DEF BlameOutlastsTheUnread
<1>1. input.seat \in Seats /\ input.seat.link \in LinkReadings /\ input.seat.port \in LinkReadings /\ input.peaks \in Seq(Int)
  BY OnABoard DEF Seats
<1>2. PICK l \in Filled(input.seat.link), p \in Filled(input.seat.port) :
        seat = Refitted(input.seat, l, p)
  BY DEF Completions
<1>3. /\ l \in LinkReadings /\ (CapabilityIsKnown(input.seat.link) => l = input.seat.link)
      /\ MaxBandwidth(input.seat.link) # NotRead => l = input.seat.link
      /\ p \in LinkReadings /\ (CapabilityIsKnown(input.seat.port) => p = input.seat.port)
      /\ MaxBandwidth(input.seat.port) # NotRead => p = input.seat.port
  BY <1>1, FillingKeepsTheRead
<1>4. ASSUME Verdict.says = "below what both ends support"
      PROVE  seat = input.seat
  <2>1. Now # NotRead
    <3>1. RestsAsItSays(input.seat, input.slots, input.peaks)
      BY WhatVerdictsRestOn
    <3> QED BY <1>4, <3>1 DEF RestsAsItSays, Verdict, Now
  <2>2. CapabilityIsKnown(input.seat.link) /\ CapabilityIsKnown(input.seat.port)
    BY <2>1 DEF Now, AchievableBandwidth, Achievable, PcieBandwidth
  <2> QED BY <1>1, <1>2, <1>3, <2>2 DEF Seats, Refitted
<1>5. over(input.seat) => over(seat)
  <2> DEFINE a == MaxBandwidth(input.seat.link)
             b == MaxBandwidth(input.seat.port)
             c == MaxBandwidth(l)
             d == MaxBandwidth(p)
  <2>1. demand \in Int
    <3>1. KnownPeaks(input.peaks) \in Seq(Int)
      BY <1>1, KnownPeaksAre
    <3> DEFINE known == KnownPeaks(input.peaks)
    <3> HIDE DEF known
    <3>2. known \in Seq(Int)
      BY <3>1 DEF known
    <3>3. PICK f \in [0..Len(known) -> Int] : FoldLeft(+, 0, known) = f[Len(known)]
      BY <3>2, SumIsALoop
    <3>4. Len(known) \in 0..Len(known)
      BY <3>2
    <3>5. FoldLeft(+, 0, known) \in Int
      BY <3>3, <3>4
    <3> QED BY <3>5 DEF known
  <2>2. a \in Figures /\ b \in Figures /\ c \in Figures /\ d \in Figures
    BY <1>1, <1>3, LinksAreFigures
  <2>3. (a # NotRead => c = a) /\ (b # NotRead => d = b)
    BY <1>3
  <2>4. UplinkBandwidth(input.seat) = LeastRead({a, b}) /\ UplinkBandwidth(seat) = LeastRead({c, d})
    <3>1. seat.link = l /\ seat.port = p
      BY <1>1, <1>2 DEF Seats, Refitted
    <3> QED BY <3>1 DEF UplinkBandwidth
  <2> HIDE DEF a, b, c, d, demand
  <2>5. /\ LeastRead({a, b}) = (IF a = NotRead THEN b ELSE IF b = NotRead \/ a <= b THEN a ELSE b)
        /\ LeastRead({c, d}) = (IF c = NotRead THEN d ELSE IF d = NotRead \/ c <= d THEN c ELSE d)
    BY <2>2, LowerOfTwo
  <2>6. LeastRead({a, b}) # NotRead => LeastRead({c, d}) # NotRead /\ LeastRead({c, d}) <= LeastRead({a, b})
    BY <2>2, <2>3, <2>5 DEF Figures, NotRead
  <2>7. LeastRead({a, b}) \in Int /\ LeastRead({c, d}) \in Int
    BY <2>2, <2>5 DEF Figures, NotRead
  <2> QED BY <2>1, <2>4, <2>6, <2>7 DEF Short
<1> HIDE DEF over
<1> QED BY <1>4, <1>5 DEF Verdict

LEMMA OnlyKnownNeedIsDismissed ==
  ASSUME BoardsAsked
  PROVE  OnlyAKnownNeedIsDismissed
<1> DEFINE known == KnownPeaks(input.peaks)
<1>1. ASSUME Verdict.severity = "hint", SaysToRearrange
      PROVE  ~DrivesWouldNotice(input.peaks, Now)
  <2>1. RestsAsItSays(input.seat, input.slots, input.peaks)
    BY WhatVerdictsRestOn
  <2> DEFINE said == IF DrivesWouldNotice(input.peaks, Now) THEN "warning" ELSE "hint"
  <2>2. Verdict.says = "a faster slot is free" \/ Verdict.says = "a faster slot can be swapped for"
    BY <1>1 DEF SaysToRearrange
  <2>3. Verdict.severity = said
    BY <2>1, <2>2 DEF RestsAsItSays, Verdict, Now
  <2> QED BY <1>1, <2>3
<1>2. SUFFICES ASSUME OnBoard, ~DrivesWouldNotice(input.peaks, Now), NEW more
               PROVE  NotFelt(FilledPeaks(input.peaks, more))
  BY <1>1 DEF OnlyAKnownNeedIsDismissed
<1> DEFINE peaks == FilledPeaks(input.peaks, more)
<1>9. input.peaks \in Seq(Int) /\ Now \in Figures
  BY <1>2, OnABoard
<1> DEFINE sum == FoldLeft(+, 0, known)
<1>3. ~(Len(known) < Len(input.peaks)) /\ ~(known # <<>> /\ sum >= Now)
  BY <1>2 DEF DrivesWouldNotice
<1>4. known \in Seq(Int) /\ (Len(known) >= Len(input.peaks) => known = input.peaks /\ \A i \in DOMAIN input.peaks : input.peaks[i] > 0)
  BY <1>9, KnownPeaksAre
<1> HIDE DEF known, sum
<1>5. known = input.peaks /\ \A i \in DOMAIN input.peaks : input.peaks[i] > 0
  <2>1. Len(known) \in Nat /\ Len(input.peaks) \in Nat
    BY <1>9, <1>4
  <2> QED BY <1>3, <1>4, <2>1
<1>6. peaks = known
  <2>1. peaks = [i \in DOMAIN input.peaks |-> input.peaks[i]]
    BY <1>5 DEF FilledPeaks
  <2>2. input.peaks = [i \in DOMAIN input.peaks |-> input.peaks[i]]
    BY <1>9
  <2> QED BY <1>5, <2>1, <2>2
<1> HIDE DEF peaks
<1>7. sum \in Int
  <2>1. PICK f \in [0..Len(known) -> Int] : FoldLeft(+, 0, known) = f[Len(known)]
    BY <1>4, SumIsALoop
  <2>2. Len(known) \in 0..Len(known)
    BY <1>4
  <2> QED BY <2>1, <2>2 DEF sum
<1>8. peaks = <<>> \/ FoldLeft(+, 0, peaks) < Now
  <2>1. CASE known = <<>>
    BY <1>6, <2>1
  <2>2. CASE known # <<>>
    <3>1. ~(sum >= Now) /\ sum \in Int /\ Now \in Int
      BY <1>9, <1>3, <1>7, <2>2 DEF Figures, NotRead
    <3>2. sum < Now
      BY <3>1
    <3> QED BY <1>6, <3>2 DEF sum
  <2> QED BY <2>1, <2>2
<1> QED BY <1>8 DEF peaks, NotFelt

-----------------------------------------------------------------------------
(* The switch that is asked about.                                         *)

\* What its ports are, in what matters here.
FloorPart(p) == p.part = "built in" /\ p.link = "floor" /\ ~p.denies /\ p.occupant = "chip" /\ ~p.leads
CardPart(p, wide, seen) ==
  /\ p.part = "card" /\ (p.denies <=> wide /\ seen)
  /\ p.occupant \in {"chip", "other"} /\ p.maker \in {"chip", "unread"} /\ (~wide => ~p.leads)
PortsKnown(machine) ==
  \A k \in DOMAIN machine.ports : \/ FloorPart(machine.ports[k])
                                  \/ CardPart(machine.ports[k], machine.wide, machine.seen)

Parts ==
  [part : {"built in", "card"}, maker : {"chip", "unread"}, denies : BOOLEAN,
   occupant : {"chip", "other"}, link : {"floor", "above", "beneath"}, leads : BOOLEAN]
PciSwitches == [ports : Seq(Parts), physical : BOOLEAN, bridged : BOOLEAN, wide : BOOLEAN, seen : BOOLEAN]

SwitchAsked == topic = "switch" => input = <<>> \/ (input \in PciSwitches /\ PortsKnown(input))

LEMMA PartsAreKnown ==
  ASSUME NEW wide \in BOOLEAN, NEW seen \in BOOLEAN, NEW p \in BuiltIn \cup SwitchCards(wide, seen)
  PROVE  p \in Parts /\ (FloorPart(p) \/ CardPart(p, wide, seen))
<1>1. CASE p \in BuiltIn
  <2>1. PICK m \in {"chip", "unread"} :
          p = [part |-> "built in", maker |-> m, denies |-> FALSE, occupant |-> "chip",
               link |-> "floor", leads |-> FALSE]
    BY <1>1 DEF BuiltIn
  <2>2. p.part = "built in" /\ p.link = "floor" /\ p.denies = FALSE /\ p.occupant = "chip" /\ p.leads = FALSE
    BY <2>1
  <2>3. p \in Parts
    BY <2>1 DEF Parts
  <2> QED BY <2>2, <2>3 DEF FloorPart
<1>2. CASE p \in SwitchCards(wide, seen)
  <2> DEFINE L == IF wide THEN {"floor", "above", "beneath"} ELSE {"floor"}
             Card(m, o, l) == [part |-> "card", maker |-> m, denies |-> wide /\ seen, occupant |-> o,
                               link |-> l, leads |-> l # "floor"]
  <2>1. PICK m \in {"chip", "unread"}, o \in {"chip", "other"}, l \in L :
          p = Card(m, o, l)
    BY <1>2 DEF SwitchCards
  <2>2. p.part = "card" /\ p.occupant = o /\ p.maker = m
    BY <2>1
  <2>3. p.denies <=> wide /\ seen
    BY <2>1
  <2>4. p.leads <=> l # "floor"
    BY <2>1
  <2>5. ~wide => l = "floor"
    OBVIOUS
  <2>6. p \in Parts
    <3>1. l \in {"floor", "above", "beneath"} /\ (wide /\ seen) \in BOOLEAN /\ (l # "floor") \in BOOLEAN
      OBVIOUS
    <3> HIDE DEF L
    <3> QED BY <2>1, <3>1 DEF Parts
  <2> HIDE DEF L, Card
  <2> QED BY <2>2, <2>3, <2>4, <2>5, <2>6 DEF CardPart
<1> QED BY <1>1, <1>2

\* What is needed for a port to have a twin, and that it is enough.
HasTwin(machine, k) ==
  LET maker == SharedMaker(machine.ports[k].maker, machine.ports[k].occupant)
  IN  /\ machine.bridged /\ maker # "none" /\ FloorFunctions(machine.ports, maker) \ {k} # {}
      /\ machine.ports[k].link = "floor" /\ ~machine.ports[k].denies
      /\ \E p \in DOMAIN machine.ports \ {k} : machine.ports[p].leads

LEMMA TwinsAreFound ==
  ASSUME NEW machine, NEW n \in Nat, DOMAIN machine.ports = 1..n, NEW k \in 1..n
  PROVE  TwinOf(machine.ports, machine.bridged, k) # 0 <=> HasTwin(machine, k)
<1> DEFINE maker == SharedMaker(machine.ports[k].maker, machine.ports[k].occupant)
           twins == FloorFunctions(machine.ports, maker) \ {k}
           first == CHOOSE t \in twins : \A u \in twins : t <= u
<1>1. twins \in SUBSET (1..n)
  BY DEF FloorFunctions
<1>2. TwinOf(machine.ports, machine.bridged, k) = IF HasTwin(machine, k) THEN first ELSE 0
  BY DEF TwinOf, HasTwin
<1>3. HasTwin(machine, k) => twins # {}
  BY DEF HasTwin
<1> HIDE DEF twins
<1>4. twins # {} => \E t \in twins : \A u \in twins : t <= u
  BY <1>1, EndsOf
<1>5. twins # {} => first \in 1..n
  BY <1>1, <1>4
<1> HIDE DEF first
<1>6. HasTwin(machine, k) => first \in Nat /\ first # 0
  BY <1>3, <1>5
<1> QED BY <1>2, <1>6

LEMMA ExcusedAre ==
  ASSUME NEW n \in Nat, DOMAIN input.ports = 1..n
  PROVE  /\ \A k \in Excused : k \in 1..n /\ HasTwin(input, k)
         /\ input.physical => \A k \in 1..n : HasTwin(input, k) => k \in Marked
<1>1. \A k \in 1..n : TwinOf(input.ports, input.bridged, k) # 0 <=> HasTwin(input, k)
  BY TwinsAreFound
<1>2. \A k \in 1..n : Oversubscribed(input, k) = "hint" => HasTwin(input, k)
  BY <1>1 DEF Oversubscribed
<1>3. Marked \subseteq {k \in 1..n : HasTwin(input, k)}
  BY <1>1 DEF Marked, RegisterDefaults
<1>4. input.physical => \A k \in 1..n : HasTwin(input, k) => k \in Marked
  BY <1>1 DEF Marked, RegisterDefaults
<1> QED BY <1>2, <1>3, <1>4 DEF Excused, SwitchPorts

LEMMA RealBottlenecksStand ==
  ASSUME SwitchAsked
  PROVE  NoRealBottleneckIsExcused
<1> SUFFICES ASSUME OnSwitch
             PROVE  /\ \A k \in Excused : SwitchPorts[k].part = "card" => SwitchPorts[k].occupant = "chip" /\ ~input.seen
                    /\ ~input.wide \/ ~input.bridged => Excused = {}
  BY DEF NoRealBottleneckIsExcused
<1>1. (\E n \in Nat : DOMAIN input.ports = 1..n) /\ PortsKnown(input)
  <2>1. PortsKnown(input) /\ input.ports \in Seq(Parts)
    BY DEF SwitchAsked, OnSwitch, PciSwitches
  <2>2. Len(input.ports) \in Nat /\ DOMAIN input.ports = 1..Len(input.ports)
    BY <2>1
  <2> QED BY <2>1, <2>2
<1>2. PICK n \in Nat : DOMAIN input.ports = 1..n
  BY <1>1
<1>3. \A k \in Excused : k \in 1..n /\ HasTwin(input, k)
  BY <1>2, ExcusedAre
<1>4. ASSUME NEW k \in Excused
      PROVE  input.wide /\ input.bridged
  <2>1. HasTwin(input, k)
    BY <1>3
  <2>2. PICK p \in DOMAIN input.ports : input.ports[p].leads
    BY <2>1 DEF HasTwin
  <2>3. FloorPart(input.ports[p]) \/ CardPart(input.ports[p], input.wide, input.seen)
    BY <1>1 DEF PortsKnown
  <2>4. input.wide
    BY <2>2, <2>3 DEF FloorPart, CardPart
  <2> QED BY <2>1, <2>4 DEF HasTwin
<1>5. ASSUME NEW k \in Excused, SwitchPorts[k].part = "card"
      PROVE  SwitchPorts[k].occupant = "chip" /\ ~input.seen
  <2>1. HasTwin(input, k) /\ k \in DOMAIN input.ports /\ input.ports[k].part = "card"
    BY <1>2, <1>3, <1>5 DEF SwitchPorts
  <2>2. CardPart(input.ports[k], input.wide, input.seen)
    BY <1>1, <2>1 DEF PortsKnown, FloorPart
  <2>3. ~input.ports[k].denies /\ SharedMaker(input.ports[k].maker, input.ports[k].occupant) # "none"
    BY <2>1 DEF HasTwin
  <2>4. input.ports[k].occupant = "chip"
    BY <2>2, <2>3 DEF SharedMaker, CardPart
  <2>5. ~input.seen
    BY <1>4, <2>2, <2>3 DEF CardPart
  <2> QED BY <2>4, <2>5 DEF SwitchPorts
<1> QED BY <1>4, <1>5

LEMMA BuiltInPartsPass ==
  ASSUME SwitchAsked
  PROVE  BuiltInPartsAreExcused
<1> DEFINE Chip(k) == SwitchPorts[k].part = "built in" /\ SwitchPorts[k].maker = "chip"
<1> SUFFICES ASSUME OnSwitch, NEW k \in DOMAIN SwitchPorts, Chip(k), input.bridged, input.physical,
                    \E p \in DOMAIN SwitchPorts \ {k} : Chip(p),
                    \E p \in DOMAIN SwitchPorts \ {k} : SwitchPorts[p].leads
             PROVE  k \in Marked
  BY DEF BuiltInPartsAreExcused
<1> HIDE DEF Chip
<1>1. (\E n \in Nat : DOMAIN input.ports = 1..n) /\ PortsKnown(input)
  <2>1. PortsKnown(input) /\ input.ports \in Seq(Parts)
    BY DEF SwitchAsked, OnSwitch, PciSwitches
  <2>2. Len(input.ports) \in Nat /\ DOMAIN input.ports = 1..Len(input.ports)
    BY <2>1
  <2> QED BY <2>1, <2>2
<1>2. PICK n \in Nat : DOMAIN input.ports = 1..n
  BY <1>1
<1>3. ASSUME NEW i \in DOMAIN SwitchPorts, Chip(i)
      PROVE  i \in FloorFunctions(input.ports, "chip")
  <2>1. FloorPart(input.ports[i]) /\ input.ports[i].maker = "chip"
    BY <1>1, <1>3 DEF PortsKnown, CardPart, SwitchPorts, Chip
  <2>2. SharedMaker(input.ports[i].maker, input.ports[i].occupant) = "chip"
    BY <2>1 DEF FloorPart, SharedMaker
  <2> QED BY <2>1, <2>2 DEF FloorPart, FloorFunctions, SwitchPorts
<1>4. k \in FloorFunctions(input.ports, "chip")
  BY <1>3
<1>5. PICK p \in DOMAIN SwitchPorts \ {k} : Chip(p)
  OBVIOUS
<1>6. p \in FloorFunctions(input.ports, "chip") \ {k}
  BY <1>3, <1>5
<1>7. /\ SharedMaker(input.ports[k].maker, input.ports[k].occupant) = "chip"
      /\ input.ports[k].link = "floor" /\ ~input.ports[k].denies
  BY <1>4 DEF FloorFunctions
<1>8. HasTwin(input, k)
  BY <1>6, <1>7 DEF HasTwin, SwitchPorts
<1> QED BY <1>2, <1>8, ExcusedAre DEF SwitchPorts

LEMMA SwitchesGrow ==
  ASSUME SwitchAsked, topic = "switch", topic' = topic, PlaceTheSwitch \/ FillAPort
  PROVE  SwitchAsked'
<1>1. CASE PlaceTheSwitch
  <2>1. PICK physical, bridged, wide, seen \in BOOLEAN :
          input' = [ports |-> <<>>, physical |-> physical, bridged |-> bridged, wide |-> wide, seen |-> seen]
    BY <1>1 DEF PlaceTheSwitch, Build
  <2>2. <<>> \in Seq(Parts)
    OBVIOUS
  <2>3. input' \in PciSwitches /\ input'.ports = <<>>
    BY <2>1, <2>2 DEF PciSwitches
  <2>4. PortsKnown(input')
    BY <2>3 DEF PortsKnown
  <2> QED BY <2>3, <2>4 DEF SwitchAsked
<1>2. CASE FillAPort
  <2>1. PICK p \in BuiltIn \cup SwitchCards(input.wide, input.seen) :
          input' = [input EXCEPT !.ports = Append(input.ports, p)]
    BY <1>2 DEF FillAPort, Build
  <2>2. input \in PciSwitches /\ PortsKnown(input)
    BY <1>2 DEF FillAPort, SwitchAsked
  <2>3. input.ports \in Seq(Parts) /\ input.wide \in BOOLEAN /\ input.seen \in BOOLEAN
    BY <2>2 DEF PciSwitches
  <2>4. p \in Parts /\ (FloorPart(p) \/ CardPart(p, input.wide, input.seen))
    BY <2>3, PartsAreKnown
  <2> DEFINE more == Append(input.ports, p)
  <2>5. more \in Seq(Parts)
    BY <2>3, <2>4
  <2>6. \A k \in DOMAIN more : (k \in DOMAIN input.ports /\ more[k] = input.ports[k]) \/ more[k] = p
    BY <2>3, <2>4
  <2> HIDE DEF more
  <2>7. input' \in PciSwitches /\ input'.ports = more /\ input'.wide = input.wide /\ input'.seen = input.seen
    BY <2>1, <2>2, <2>5 DEF PciSwitches, more
  <2>8. PortsKnown(input')
    BY <2>2, <2>4, <2>6, <2>7 DEF PortsKnown
  <2> QED BY <2>7, <2>8 DEF SwitchAsked
<1> QED BY <1>1, <1>2

-----------------------------------------------------------------------------
(* Configuration.                                                          *)

\* Who may have given a leaf, none of them where the table holds no keys.
Givers == {"shipped", "user", "dotenv", "env", "cli", NoKeys}

\* Any table: where its leaves are, and who gave each of them.
Tables == UNION {[D -> Givers] : D \in SUBSET Seq(Keys)}

\* No leaf of a table is near this path; none of its leaves is a table without keys.
Clear(p, t) == \A q \in DOMAIN t : ~Near(p, q)
Full(t) == \A p \in DOMAIN t : t[p] # NoKeys

LEMMA TablesAre ==
  /\ \A t : t \in Tables <=> DOMAIN t \in SUBSET Seq(Keys) /\ t \in [DOMAIN t -> Givers]
  /\ NoTable \in Tables /\ DOMAIN NoTable = {}
<1>1. ASSUME NEW t, t \in Tables
      PROVE  DOMAIN t \in SUBSET Seq(Keys) /\ t \in [DOMAIN t -> Givers]
  <2>1. PICK D \in SUBSET Seq(Keys) : t \in [D -> Givers]
    BY <1>1 DEF Tables
  <2>2. DOMAIN t = D
    BY <2>1
  <2> QED BY <2>1, <2>2
<1>2. ASSUME NEW t, DOMAIN t \in SUBSET Seq(Keys), t \in [DOMAIN t -> Givers]
      PROVE  t \in Tables
  BY <1>2 DEF Tables
<1>3. DOMAIN NoTable = {} /\ NoTable \in [{} -> Givers]
  BY DEF NoTable
<1> QED BY <1>1, <1>2, <1>3

\* Two tables alike in their leaves and in who gave them are one.
LEMMA AlikeAreOne ==
  ASSUME NEW s \in Tables, NEW t \in Tables, DOMAIN s = DOMAIN t,
         \A p \in DOMAIN s : s[p] = t[p]
  PROVE  s = t
<1>1. s \in [DOMAIN s -> Givers] /\ t \in [DOMAIN s -> Givers]
  BY TablesAre
<1> QED BY <1>1

\* One table put over another has the leaves of both, its own where both have one.
LEMMA OverIs ==
  ASSUME NEW s \in Tables, NEW t \in Tables
  PROVE  /\ Over(s, t) \in Tables
         /\ DOMAIN Over(s, t) = DOMAIN s \cup DOMAIN t
         /\ \A p \in DOMAIN s : Over(s, t)[p] = s[p]
         /\ \A p \in DOMAIN t \ DOMAIN s : Over(s, t)[p] = t[p]
<1>1. /\ DOMAIN s \in SUBSET Seq(Keys) /\ s \in [DOMAIN s -> Givers]
      /\ DOMAIN t \in SUBSET Seq(Keys) /\ t \in [DOMAIN t -> Givers]
  BY TablesAre
<1>2. /\ DOMAIN Over(s, t) = DOMAIN s \cup DOMAIN t
      /\ \A p \in DOMAIN s : Over(s, t)[p] = s[p]
      /\ \A p \in DOMAIN t \ DOMAIN s : Over(s, t)[p] = t[p]
  BY DEF Over
<1>3. Over(s, t) \in [DOMAIN s \cup DOMAIN t -> Givers]
  BY <1>1 DEF Over
<1>4. DOMAIN Over(s, t) \in SUBSET Seq(Keys)
  BY <1>1, <1>2
<1> QED
  BY <1>2, <1>3, <1>4, TablesAre

LEMMA RestrictIs ==
  ASSUME NEW t \in Tables, NEW D \in SUBSET DOMAIN t
  PROVE  /\ Restrict(t, D) \in Tables
         /\ DOMAIN Restrict(t, D) = D /\ \A p \in D : Restrict(t, D)[p] = t[p]
<1>1. DOMAIN t \in SUBSET Seq(Keys) /\ t \in [DOMAIN t -> Givers]
  BY TablesAre
<1>2. DOMAIN Restrict(t, D) = D /\ \A p \in D : Restrict(t, D)[p] = t[p]
  BY DEF Restrict
<1>3. Restrict(t, D) \in [D -> Givers]
  BY <1>1 DEF Restrict
<1> QED
  BY <1>1, <1>2, <1>3, TablesAre

\* The leaves a table without keys does not hold back, and what they leave of a table.
Lying(base, over) == {q \in DOMAIN over : ~(over[q] = NoKeys /\ \E p \in DOMAIN base : Beneath(p, q))}
Spared(base, over) == {p \in DOMAIN base : \A q \in Lying(base, over) : ~Near(p, q)}

\* A merge has the leaves that lie over the base, and those of the base they spare.
LEMMA MergedIs ==
  ASSUME NEW base \in Tables, NEW over \in Tables
  PROVE  /\ Merged(base, over) \in Tables
         /\ DOMAIN Merged(base, over) = Lying(base, over) \cup Spared(base, over)
         /\ \A p \in Lying(base, over) : Merged(base, over)[p] = over[p]
         /\ \A p \in Spared(base, over) \ Lying(base, over) : Merged(base, over)[p] = base[p]
<1> DEFINE L == Lying(base, over)
           over1 == Restrict(over, L)
           lost == {p \in DOMAIN base : \E q \in DOMAIN over1 : Near(p, q)}
           below == Restrict(base, DOMAIN base \ lost)
<1>1. L \in SUBSET DOMAIN over
  BY DEF Lying
<1>2. over1 \in Tables /\ DOMAIN over1 = L /\ \A p \in L : over1[p] = over[p]
  <2> HIDE DEF L
  <2> QED BY <1>1, RestrictIs
<1>3. DOMAIN base \ lost = Spared(base, over)
  <2> HIDE DEF over1
  <2> QED BY <1>2 DEF Spared
<1>4. /\ below \in Tables /\ DOMAIN below = Spared(base, over)
      /\ \A p \in Spared(base, over) : below[p] = base[p]
  <2>1. DOMAIN base \ lost \in SUBSET DOMAIN base
    OBVIOUS
  <2> HIDE DEF lost
  <2> QED BY <1>3, <2>1, RestrictIs
<1>5. Merged(base, over) = Over(over1, below)
  BY DEF Merged, Lying
<1> HIDE DEF over1, below
<1>6. /\ Over(over1, below) \in Tables
      /\ DOMAIN Over(over1, below) = DOMAIN over1 \cup DOMAIN below
      /\ \A p \in DOMAIN over1 : Over(over1, below)[p] = over1[p]
      /\ \A p \in DOMAIN below \ DOMAIN over1 : Over(over1, below)[p] = below[p]
  BY <1>2, <1>4, OverIs
<1> QED
  BY <1>2, <1>4, <1>5, <1>6

\* Merging two tables that hold no leaf inside another leaves none that does.
LEMMA MergedIsATable ==
  ASSUME NEW base \in Tables, NEW over \in Tables, IsTable(base), IsTable(over)
  PROVE  IsTable(Merged(base, over))
<1> SUFFICES ASSUME NEW p \in DOMAIN Merged(base, over), NEW q \in DOMAIN Merged(base, over), Beneath(p, q)
             PROVE  FALSE
  BY DEF IsTable
<1>1. /\ p \in Lying(base, over) \cup Spared(base, over)
      /\ q \in Lying(base, over) \cup Spared(base, over)
  BY MergedIs
<1>2. Near(p, q) /\ Near(q, p)
  BY DEF Near
<1>3. /\ \A x \in Lying(base, over) : x \in DOMAIN over
      /\ \A x \in Spared(base, over) : x \in DOMAIN base /\ \A y \in Lying(base, over) : ~Near(x, y)
  BY DEF Lying, Spared
<1>4. ~(p \in DOMAIN over /\ q \in DOMAIN over) /\ ~(p \in DOMAIN base /\ q \in DOMAIN base)
  BY DEF IsTable
<1> QED BY <1>1, <1>2, <1>3, <1>4

\* What a merge holds was given by one of the two.
LEMMA MergedHolds ==
  ASSUME NEW base \in Tables, NEW over \in Tables, NEW p \in DOMAIN Merged(base, over)
  PROVE  \/ p \in DOMAIN over /\ Merged(base, over)[p] = over[p]
         \/ p \in DOMAIN base /\ Merged(base, over)[p] = base[p]
<1>1. p \in Lying(base, over) \/ p \in Spared(base, over) \ Lying(base, over)
  BY MergedIs
<1>2. CASE p \in Lying(base, over)
  <2>1. Merged(base, over)[p] = over[p]
    BY <1>2, MergedIs
  <2> QED BY <1>2, <2>1 DEF Lying
<1>3. CASE p \in Spared(base, over) \ Lying(base, over)
  <2>1. Merged(base, over)[p] = base[p]
    BY <1>3, MergedIs
  <2> QED BY <1>3, <2>1 DEF Spared
<1> QED BY <1>1, <1>2, <1>3

\* A full table takes its place whole.
LEMMA FullLiesOver ==
  ASSUME NEW base \in Tables, NEW over \in Tables, Full(over)
  PROVE  /\ Merged(base, over) \in Tables
         /\ \A p : p \in DOMAIN Merged(base, over) <=>
                     p \in DOMAIN over \/ (p \in DOMAIN base /\ Clear(p, over))
         /\ \A p \in DOMAIN over : Merged(base, over)[p] = over[p]
         /\ \A p \in DOMAIN base : Clear(p, over) => Merged(base, over)[p] = base[p]
<1>1. Lying(base, over) = DOMAIN over
  BY DEF Lying, Full
<1>2. \A p : p \in Spared(base, over) <=> p \in DOMAIN base /\ Clear(p, over)
  BY <1>1 DEF Spared, Clear
<1>3. \A p : Clear(p, over) => p \notin DOMAIN over
  BY DEF Clear, Near
<1>4. /\ Merged(base, over) \in Tables
      /\ DOMAIN Merged(base, over) = DOMAIN over \cup Spared(base, over)
      /\ \A p \in DOMAIN over : Merged(base, over)[p] = over[p]
      /\ \A p \in Spared(base, over) \ DOMAIN over : Merged(base, over)[p] = base[p]
  <2>1. /\ Merged(base, over) \in Tables
        /\ DOMAIN Merged(base, over) = Lying(base, over) \cup Spared(base, over)
        /\ \A p \in Lying(base, over) : Merged(base, over)[p] = over[p]
        /\ \A p \in Spared(base, over) \ Lying(base, over) : Merged(base, over)[p] = base[p]
    BY MergedIs
  <2> QED BY <1>1, <2>1
<1> QED
  BY <1>2, <1>3, <1>4

\* Nothing under a table leaves it as it is, and so does nothing over it.
LEMMA NothingMerged ==
  ASSUME NEW t \in Tables
  PROVE  Merged(NoTable, t) = t /\ Merged(t, NoTable) = t
<1>0. NoTable \in Tables /\ DOMAIN NoTable = {}
  BY TablesAre
<1>1. Merged(NoTable, t) = t
  <2>1. Lying(NoTable, t) = DOMAIN t /\ Spared(NoTable, t) = {}
    BY <1>0 DEF Lying, Spared
  <2>3. /\ Merged(NoTable, t) \in Tables
        /\ DOMAIN Merged(NoTable, t) = Lying(NoTable, t) \cup Spared(NoTable, t)
        /\ \A p \in Lying(NoTable, t) : Merged(NoTable, t)[p] = t[p]
        /\ \A p \in Spared(NoTable, t) \ Lying(NoTable, t) : Merged(NoTable, t)[p] = NoTable[p]
    BY <1>0, MergedIs
  <2>2. /\ Merged(NoTable, t) \in Tables /\ DOMAIN Merged(NoTable, t) = DOMAIN t
        /\ \A p \in DOMAIN t : Merged(NoTable, t)[p] = t[p]
    BY <2>1, <2>3
  <2> QED BY <2>2, AlikeAreOne
<1>2. Merged(t, NoTable) = t
  <2>1. Lying(t, NoTable) = {} /\ Spared(t, NoTable) = DOMAIN t
    BY <1>0 DEF Lying, Spared
  <2>3. /\ Merged(t, NoTable) \in Tables
        /\ DOMAIN Merged(t, NoTable) = Lying(t, NoTable) \cup Spared(t, NoTable)
        /\ \A p \in Lying(t, NoTable) : Merged(t, NoTable)[p] = NoTable[p]
        /\ \A p \in Spared(t, NoTable) \ Lying(t, NoTable) : Merged(t, NoTable)[p] = t[p]
    BY <1>0, MergedIs
  <2>2. /\ Merged(t, NoTable) \in Tables /\ DOMAIN Merged(t, NoTable) = DOMAIN t
        /\ \A p \in DOMAIN t : Merged(t, NoTable)[p] = t[p]
    BY <2>1, <2>3
  <2> QED BY <2>2, AlikeAreOne
<1> QED BY <1>1, <1>2

\* Merging layer by layer, each over what the ones before it came to.
MergesInTurn(f, c) ==
  /\ f[0] = NoTable
  /\ \A k \in 1..Len(c) : f[k] = Merged(f[k - 1], c[k])
  /\ MergeLayers(c) = f[Len(c)]

LEMMA MergingIsALoop ==
  ASSUME NEW c \in Seq(Tables)
  PROVE  \E f \in [0..Len(c) -> Tables] : MergesInTurn(f, c)
<1> DEFINE n == Len(c)
           base == NoTable
           st == [x \in (1..n) \X Tables |-> Merged(x[2], c[x[1]])]
           Eq(it) == it = [T \in SUBSET (DOMAIN c) |->
                             IF T = {} THEN base ELSE LET x == Max(T) IN Merged(it[T \ {x}], c[x])]
           iter == CHOOSE it : Eq(it)
<1>0. n \in Nat /\ DOMAIN c = 1..n /\ base \in Tables
  BY TablesAre
<1>1. ASSUME NEW i \in 1..n, NEW x \in Tables
      PROVE  Merged(x, c[i]) \in Tables
  <2>1. c[i] \in Tables
    BY <1>0
  <2> QED BY <2>1, MergedIs
<1>2. st \in [(1..n) \X Tables -> Tables] /\ \A i \in 1..n, x \in Tables : st[<<i, x>>] = Merged(x, c[i])
  <2>1. ASSUME NEW x \in (1..n) \X Tables
        PROVE  Merged(x[2], c[x[1]]) \in Tables
    <3>1. x[1] \in 1..n /\ x[2] \in Tables
      OBVIOUS
    <3> HIDE DEF n, base
    <3> QED BY <1>1, <3>1
  <2>2. st \in [(1..n) \X Tables -> Tables]
    <3> HIDE DEF n, base
    <3> QED BY <2>1
  <2>3. ASSUME NEW i \in 1..n, NEW x \in Tables
        PROVE  st[<<i, x>>] = Merged(x, c[i])
    <3>1. <<i, x>> \in (1..n) \X Tables /\ <<i, x>>[1] = i /\ <<i, x>>[2] = x
      OBVIOUS
    <3> HIDE DEF n, base
    <3> QED BY <3>1
  <2> QED BY <2>2, <2>3
<1> HIDE DEF base, st
<1>3. PICK it \in [SUBSET (1..n) -> Tables] : IsFold(it, n, base, st)
  <2> HIDE DEF n
  <2> QED BY <1>0, <1>2, FoldRuns
<1>4. \A T \in SUBSET (1..n) : T # {} => Max(T) \in 1..n /\ T \ {Max(T)} \in SUBSET (1..n)
  <2> HIDE DEF n
  <2> QED BY <1>0, GreatestIn
<1>5. Eq(it)
  <2>1. ASSUME NEW T \in SUBSET (1..n)
        PROVE  it[T] = IF T = {} THEN base ELSE Merged(it[T \ {Max(T)}], c[Max(T)])
    <3>1. it[T] = IF T = {} THEN base ELSE st[<<Max(T), it[T \ {Max(T)}]>>]
      BY <1>3 DEF IsFold
    <3>2. T # {} => Max(T) \in 1..n /\ it[T \ {Max(T)}] \in Tables
      BY <1>3, <1>4
    <3> HIDE DEF n
    <3> QED BY <3>1, <3>2, <1>2
  <2> HIDE DEF n
  <2> QED BY <1>0, <1>3, <2>1
<1>6. Eq(iter)
  <2> HIDE DEF Eq
  <2> QED BY <1>5
<1>7. MergeLayers(c) = iter[1..n]
  BY <1>0 DEF MergeLayers, FoldLeft, MapThenFoldSet, base
<1>8. \A T \in SUBSET (1..n) : iter[T] = IF T = {} THEN base ELSE Merged(iter[T \ {Max(T)}], c[Max(T)])
  <2> HIDE DEF iter
  <2> QED BY <1>0, <1>6
<1> HIDE DEF iter, n
<1>9. Reaches(iter, n, Tables, base, st)
  <2>1. iter[{}] = base
    <3>1. {} \in SUBSET (1..n)
      OBVIOUS
    <3>2. \A T \in SUBSET (1..n) : T = {} => iter[T] = base
      BY <1>8
    <3> QED BY <3>1, <3>2
  <2>2. ASSUME NEW T \in SUBSET (1..n), T # {}, iter[T \ {Max(T)}] \in Tables
        PROVE  iter[T] = st[<<Max(T), iter[T \ {Max(T)}]>>]
    BY <1>2, <1>4, <1>8, <2>2
  <2>3. Proceeds(iter, n, Tables, base, st)
    BY <2>1, <2>2 DEF Proceeds
  <2> QED BY <1>0, <1>2, <2>3, FoldSteps
<1> DEFINE f == [k \in 0..n |-> iter[1..k]]
<1>10. f \in [0..n -> Tables] /\ f[0] = base /\ f[n] = iter[1..n]
  BY <1>0, <1>9 DEF Reaches
<1>11. ASSUME NEW k \in 1..n
       PROVE  f[k] = Merged(f[k - 1], c[k])
  <2>1. f[k] = iter[1..k] /\ f[k - 1] = iter[1..(k - 1)] /\ iter[1..(k - 1)] \in Tables
    BY <1>0, <1>9 DEF Reaches
  <2>2. iter[1..k] = st[<<k, iter[1..(k - 1)]>>]
    BY <1>9 DEF Reaches
  <2> HIDE DEF f
  <2> QED BY <1>2, <2>1, <2>2
<1> QED
  <2> HIDE DEF f
  <2> QED BY <1>7, <1>10, <1>11 DEF n, base, MergesInTurn

\* Three layers, and four.
LEMMA MergesOfAFew ==
  ASSUME NEW c \in Seq(Tables)
  PROVE  /\ Len(c) = 3 => MergeLayers(c) = Merged(Merged(c[1], c[2]), c[3])
         /\ Len(c) = 4 => MergeLayers(c) = Merged(Merged(Merged(c[1], c[2]), c[3]), c[4])
<1>1. PICK f \in [0..Len(c) -> Tables] : MergesInTurn(f, c)
  BY MergingIsALoop
<1>2. f[0] = NoTable /\ \A k \in 1..Len(c) : f[k] = Merged(f[k - 1], c[k])
  BY <1>1 DEF MergesInTurn
<1>3. ASSUME Len(c) \in {3, 4}
      PROVE  /\ f[3] = Merged(Merged(c[1], c[2]), c[3])
             /\ Len(c) = 4 => f[4] = Merged(Merged(Merged(c[1], c[2]), c[3]), c[4])
  <2>1. 1 \in 1..Len(c) /\ 2 \in 1..Len(c) /\ 3 \in 1..Len(c) /\ (Len(c) = 4 => 4 \in 1..Len(c))
    BY <1>3
  <2>2. c[1] \in Tables /\ 1 - 1 = 0 /\ 2 - 1 = 1 /\ 3 - 1 = 2 /\ 4 - 1 = 3
    BY <2>1
  <2>3. f[1] = c[1]
    BY <1>2, <2>1, <2>2, NothingMerged
  <2>4. f[2] = Merged(c[1], c[2])
    BY <1>2, <2>1, <2>2, <2>3
  <2>5. f[3] = Merged(f[2], c[3])
    BY <1>2, <2>1, <2>2
  <2>6. Len(c) = 4 => f[4] = Merged(f[3], c[4])
    BY <1>2, <2>1, <2>2
  <2> QED BY <2>4, <2>5, <2>6
<1>4. MergeLayers(c) = f[Len(c)]
  BY <1>1 DEF MergesInTurn
<1> QED BY <1>3, <1>4

\* What the layers of a question are: tables, each of its own giver, and only a file may
\* hold a table without keys.
LayersAsked(t) ==
  /\ DOMAIN t = {"shipped", "user", "dotenv", "env"}
  /\ \A l \in DOMAIN t :
       /\ t[l] \in Tables /\ IsTable(t[l])
       /\ \A p \in DOMAIN t[l] : t[l][p] = l \/ (l \in {"shipped", "user"} /\ t[l][p] = NoKeys)

\* The leaves credited to one layer, of a table merged from the files and the
\* environment.
LEMMA CreditedIs ==
  ASSUME NEW t \in Tables, NEW l
  PROVE  /\ CreditedTo(t, l) \in Tables
         /\ \A p : p \in DOMAIN CreditedTo(t, l) <=> p \in DOMAIN t /\ Origin(t, p) = l
         /\ \A p \in DOMAIN CreditedTo(t, l) : CreditedTo(t, l)[p] = t[p]
<1> DEFINE D == {p \in DOMAIN t : Origin(t, p) = l}
<1>1. CreditedTo(t, l) = Restrict(t, D)
  BY DEF CreditedTo
<1>2. D \in SUBSET DOMAIN t /\ \A p : p \in D <=> p \in DOMAIN t /\ Origin(t, p) = l
  OBVIOUS
<1> HIDE DEF D
<1> QED
  BY <1>1, <1>2, RestrictIs

\* The leaves of the files that the environment leaves, and where the dotenv file's go.
LEMMA TakenApart ==
  ASSUME NEW B \in Tables, NEW D \in Tables, NEW E \in Tables, IsTable(B),
         \A p \in DOMAIN B : B[p] \in {"shipped", "user", NoKeys},
         \A p \in DOMAIN D : D[p] = "dotenv", \A p \in DOMAIN E : E[p] = "env",
         NEW C, C = Merged(B, E)
  PROVE  Merged(Merged(Merged(CreditedTo(C, "shipped"), CreditedTo(C, "user")), D),
                CreditedTo(C, "env"))
           = Merged(Merged(B, D), E)
<1> DEFINE S == CreditedTo(C, "shipped")
           U == CreditedTo(C, "user")
           V == CreditedTo(C, "env")
           Left(p) == p \in DOMAIN B /\ Clear(p, E)
<1>1. Full(D) /\ Full(E)
  BY DEF Full, NoKeys
<1>2. /\ C \in Tables
      /\ \A p : p \in DOMAIN C <=> p \in DOMAIN E \/ Left(p)
      /\ \A p \in DOMAIN E : C[p] = "env"
      /\ \A p : Left(p) => C[p] = B[p]
  <2>1. /\ Merged(B, E) \in Tables
        /\ \A p : p \in DOMAIN Merged(B, E) <=> p \in DOMAIN E \/ (p \in DOMAIN B /\ Clear(p, E))
        /\ \A p \in DOMAIN E : Merged(B, E)[p] = E[p]
        /\ \A p \in DOMAIN B : Clear(p, E) => Merged(B, E)[p] = B[p]
    BY <1>1, FullLiesOver
  <2> QED BY <2>1
<1>3. \A p : p \in DOMAIN E => ~Left(p)
  BY DEF Clear, Near
<1>4. \A p \in DOMAIN C : Origin(C, p) = IF p \in DOMAIN E THEN "env"
                                         ELSE IF B[p] = "user" THEN "user" ELSE "shipped"
  <2>1. NoKeys # "env" /\ NoKeys # "user" /\ NoKeys # "shipped"
    BY DEF NoKeys
  <2>2. \A p \in DOMAIN C : p \in DOMAIN E \/ (p \in DOMAIN B /\ Left(p) /\ C[p] = B[p])
    BY <1>2
  <2> HIDE DEF Left
  <2> QED BY <1>2, <2>1, <2>2 DEF Origin
<1>5. /\ S \in Tables
      /\ \A p : p \in DOMAIN S <=> Left(p) /\ B[p] # "user"
      /\ \A p \in DOMAIN S : S[p] = B[p]
  <2>1. /\ S \in Tables
        /\ \A p : p \in DOMAIN S <=> p \in DOMAIN C /\ Origin(C, p) = "shipped"
        /\ \A p \in DOMAIN S : S[p] = C[p]
    BY <1>2, CreditedIs
  <2> HIDE DEF S, Left
  <2> QED BY <1>2, <1>3, <1>4, <2>1
<1>6. /\ U \in Tables
      /\ \A p : p \in DOMAIN U <=> Left(p) /\ B[p] = "user"
      /\ \A p \in DOMAIN U : U[p] = B[p]
  <2>1. /\ U \in Tables
        /\ \A p : p \in DOMAIN U <=> p \in DOMAIN C /\ Origin(C, p) = "user"
        /\ \A p \in DOMAIN U : U[p] = C[p]
    BY <1>2, CreditedIs
  <2> HIDE DEF U, Left
  <2> QED BY <1>2, <1>3, <1>4, <2>1
<1>7. V = E
  <2>1. /\ V \in Tables
        /\ \A p : p \in DOMAIN V <=> p \in DOMAIN C /\ Origin(C, p) = "env"
        /\ \A p \in DOMAIN V : V[p] = C[p]
    BY <1>2, CreditedIs
  <2> HIDE DEF V, Left
  <2>2. DOMAIN V = DOMAIN E /\ \A p \in DOMAIN V : V[p] = E[p]
    BY <1>2, <1>3, <1>4, <2>1
  <2> QED BY <2>1, <2>2, AlikeAreOne
<1> DEFINE F == Merged(S, U)
<1>8. /\ F \in Tables
      /\ \A p : p \in DOMAIN F <=> Left(p)
      /\ \A p \in DOMAIN F : F[p] = B[p]
  <2> HIDE DEF S, U
  <2>1. Full(U)
    BY <1>6 DEF Full, NoKeys
  <2>2. /\ F \in Tables
        /\ \A p : p \in DOMAIN F <=> p \in DOMAIN U \/ (p \in DOMAIN S /\ Clear(p, U))
        /\ \A p \in DOMAIN U : F[p] = U[p]
        /\ \A p \in DOMAIN S : Clear(p, U) => F[p] = S[p]
    BY <1>5, <1>6, <2>1, FullLiesOver
  <2>3. \A p \in DOMAIN S : Clear(p, U)
    BY <1>5, <1>6 DEF Clear, Near, IsTable
  <2> HIDE DEF F, Left
  <2> QED BY <1>5, <1>6, <2>2, <2>3
<1> HIDE DEF S, U, V, F
<1>9. /\ Merged(F, D) \in Tables
      /\ \A p : p \in DOMAIN Merged(F, D) <=> p \in DOMAIN D \/ (Left(p) /\ Clear(p, D))
      /\ \A p \in DOMAIN D : Merged(F, D)[p] = D[p]
      /\ \A p : Left(p) /\ Clear(p, D) => Merged(F, D)[p] = B[p]
  <2>1. /\ Merged(F, D) \in Tables
        /\ \A p : p \in DOMAIN Merged(F, D) <=> p \in DOMAIN D \/ (p \in DOMAIN F /\ Clear(p, D))
        /\ \A p \in DOMAIN D : Merged(F, D)[p] = D[p]
        /\ \A p \in DOMAIN F : Clear(p, D) => Merged(F, D)[p] = F[p]
    BY <1>1, <1>8, FullLiesOver
  <2> HIDE DEF Left
  <2> QED BY <1>8, <2>1
<1>10. /\ Merged(Merged(F, D), E) \in Tables
       /\ \A p : p \in DOMAIN Merged(Merged(F, D), E) <=>
                   \/ p \in DOMAIN E
                   \/ Clear(p, E) /\ (p \in DOMAIN D \/ (p \in DOMAIN B /\ Clear(p, D)))
       /\ \A p \in DOMAIN E : Merged(Merged(F, D), E)[p] = E[p]
       /\ \A p \in DOMAIN D : Clear(p, E) => Merged(Merged(F, D), E)[p] = D[p]
       /\ \A p \in DOMAIN B : Clear(p, D) /\ Clear(p, E) => Merged(Merged(F, D), E)[p] = B[p]
  <2>1. /\ Merged(Merged(F, D), E) \in Tables
        /\ \A p : p \in DOMAIN Merged(Merged(F, D), E) <=>
                    p \in DOMAIN E \/ (p \in DOMAIN Merged(F, D) /\ Clear(p, E))
        /\ \A p \in DOMAIN E : Merged(Merged(F, D), E)[p] = E[p]
        /\ \A p \in DOMAIN Merged(F, D) : Clear(p, E) => Merged(Merged(F, D), E)[p] = Merged(F, D)[p]
    BY <1>1, <1>9, FullLiesOver
  <2> QED BY <1>9, <2>1
<1>11. /\ Merged(B, D) \in Tables
       /\ \A p : p \in DOMAIN Merged(B, D) <=> p \in DOMAIN D \/ (p \in DOMAIN B /\ Clear(p, D))
       /\ \A p \in DOMAIN D : Merged(B, D)[p] = D[p]
       /\ \A p \in DOMAIN B : Clear(p, D) => Merged(B, D)[p] = B[p]
  BY <1>1, FullLiesOver
<1>12. /\ Merged(Merged(B, D), E) \in Tables
       /\ \A p : p \in DOMAIN Merged(Merged(B, D), E) <=>
                   \/ p \in DOMAIN E
                   \/ Clear(p, E) /\ (p \in DOMAIN D \/ (p \in DOMAIN B /\ Clear(p, D)))
       /\ \A p \in DOMAIN E : Merged(Merged(B, D), E)[p] = E[p]
       /\ \A p \in DOMAIN D : Clear(p, E) => Merged(Merged(B, D), E)[p] = D[p]
       /\ \A p \in DOMAIN B : Clear(p, D) /\ Clear(p, E) => Merged(Merged(B, D), E)[p] = B[p]
  <2>1. /\ Merged(Merged(B, D), E) \in Tables
        /\ \A p : p \in DOMAIN Merged(Merged(B, D), E) <=>
                    p \in DOMAIN E \/ (p \in DOMAIN Merged(B, D) /\ Clear(p, E))
        /\ \A p \in DOMAIN E : Merged(Merged(B, D), E)[p] = E[p]
        /\ \A p \in DOMAIN Merged(B, D) : Clear(p, E) => Merged(Merged(B, D), E)[p] = Merged(B, D)[p]
    BY <1>1, <1>11, FullLiesOver
  <2> QED BY <1>11, <2>1
<1>13. Merged(Merged(F, D), E) = Merged(Merged(B, D), E)
  <2> DEFINE X == Merged(Merged(F, D), E)
             Y == Merged(Merged(B, D), E)
  <2>1. X \in Tables /\ Y \in Tables /\ DOMAIN X = DOMAIN Y
    BY <1>10, <1>12
  <2>2. \A p \in DOMAIN X : X[p] = Y[p]
    BY <1>10, <1>12
  <2> HIDE DEF X, Y
  <2>3. X = Y
    BY <2>1, <2>2, AlikeAreOne
  <2> QED BY <2>3 DEF X, Y
<1> QED
  BY <1>7, <1>13 DEF F, S, U, V

\* Reading everything but what is skipped, and the dotenv file put back in its place, is
\* reading the layers in order.
LEMMA SkippingIsReading ==
  ASSUME NEW t, LayersAsked(t)
  PROVE  ReadRunConfigSkipping(t) = MergeLayers([k \in DOMAIN Layers |-> t[Layers[k]]])
<1> DEFINE T1 == t["shipped"]
           T2 == t["user"]
           D == t["dotenv"]
           E == t["env"]
           B == Merged(T1, T2)
           C == Merged(B, E)
           some == [k \in DOMAIN Files |-> t[Files[k]]] \o <<t["env"]>>
           all == [k \in DOMAIN Layers |-> t[Layers[k]]]
           back == [k \in DOMAIN Files |-> CreditedTo(C, Files[k])] \o <<D, CreditedTo(C, "env")>>
<1>1. /\ Len(Files) = 2 /\ DOMAIN Files = 1..2 /\ Files[1] = "shipped" /\ Files[2] = "user"
      /\ Len(Layers) = 4 /\ DOMAIN Layers = 1..4 /\ Layers[1] = "shipped" /\ Layers[2] = "user"
      /\ Layers[3] = "dotenv" /\ Layers[4] = "env"
  BY DEF Files, Layers
<1>2. /\ T1 \in Tables /\ T2 \in Tables /\ D \in Tables /\ E \in Tables
      /\ IsTable(T1) /\ IsTable(T2)
      /\ \A p \in DOMAIN T1 : T1[p] \in {"shipped", NoKeys}
      /\ \A p \in DOMAIN T2 : T2[p] \in {"user", NoKeys}
      /\ \A p \in DOMAIN D : D[p] = "dotenv"
      /\ \A p \in DOMAIN E : E[p] = "env"
  BY DEF LayersAsked
<1> HIDE DEF T1, T2, D, E
<1>3. B \in Tables /\ IsTable(B) /\ \A p \in DOMAIN B : B[p] \in {"shipped", "user", NoKeys}
  <2>1. B \in Tables /\ IsTable(B)
    BY <1>2, MergedIs, MergedIsATable
  <2>2. ASSUME NEW p \in DOMAIN B
        PROVE  B[p] \in {"shipped", "user", NoKeys}
    BY <1>2, MergedHolds
  <2> QED BY <2>1, <2>2
<1>4. C \in Tables /\ CreditedTo(C, "shipped") \in Tables /\ CreditedTo(C, "user") \in Tables
      /\ CreditedTo(C, "env") \in Tables
  <2> HIDE DEF B
  <2>1. C \in Tables
    BY <1>2, <1>3, MergedIs
  <2> HIDE DEF C
  <2> QED BY <2>1, CreditedIs
<1> HIDE DEF B, C
<1>5. MergeLayers(some) = C
  <2>1. some \in Seq(Tables) /\ Len(some) = 3 /\ some[1] = T1 /\ some[2] = T2 /\ some[3] = E
    BY <1>1, <1>2 DEF T1, T2, E
  <2> HIDE DEF some
  <2>2. MergeLayers(some) = Merged(Merged(some[1], some[2]), some[3])
    BY <2>1, MergesOfAFew
  <2> QED BY <2>1, <2>2 DEF B, C
<1>6. MergeLayers(all) = Merged(Merged(B, D), E)
  <2>1. all \in Seq(Tables) /\ Len(all) = 4 /\ all[1] = T1 /\ all[2] = T2 /\ all[3] = D /\ all[4] = E
    BY <1>1, <1>2 DEF T1, T2, D, E
  <2> HIDE DEF all
  <2>2. MergeLayers(all) = Merged(Merged(Merged(all[1], all[2]), all[3]), all[4])
    BY <2>1, MergesOfAFew
  <2> QED BY <2>1, <2>2 DEF B
<1>7. MergeLayers(back) = Merged(Merged(B, D), E)
  <2>1. /\ back \in Seq(Tables) /\ Len(back) = 4
        /\ back[1] = CreditedTo(C, "shipped") /\ back[2] = CreditedTo(C, "user")
        /\ back[3] = D /\ back[4] = CreditedTo(C, "env")
    BY <1>1, <1>2, <1>4
  <2> HIDE DEF back
  <2>2. MergeLayers(back) = Merged(Merged(Merged(back[1], back[2]), back[3]), back[4])
    BY <2>1, MergesOfAFew
  <2>3. C = Merged(B, E)
    BY DEF C
  <2> QED BY <1>2, <1>3, <2>1, <2>2, <2>3, TakenApart
<1>8. ReadRunConfigSkipping(t) = IF D = NoTable THEN C ELSE MergeLayers(back)
  BY <1>5 DEF ReadRunConfigSkipping, BeneathTheEnvironment, D
<1>9. D = NoTable => C = Merged(Merged(B, D), E)
  <2>1. Merged(B, NoTable) = B
    BY <1>3, NothingMerged
  <2> QED BY <2>1 DEF C
<1> QED
  BY <1>6, <1>7, <1>8, <1>9

-----------------------------------------------------------------------------
(* What the command line sets.                                             *)

Overrides == [path : Seq(Keys), at : {<<>>} \cup {<<k>> : k \in Keys}]

LeafOf(s) == s.path \o s.at

\* A path is a beginning of another where it is no longer and runs with it.
LEMMA BeginsWith ==
  ASSUME NEW x \in Seq(Keys), NEW y \in Seq(Keys)
  PROVE  IsPrefix(x, y) <=> Len(x) <= Len(y) /\ \A i \in 1..Len(x) : x[i] = y[i]
<1>1. Len(x) <= Len(y) => /\ SubSeq(y, 1, Len(x)) \in Seq(Keys) /\ Len(SubSeq(y, 1, Len(x))) = Len(x)
                          /\ \A i \in 1..Len(x) : SubSeq(y, 1, Len(x))[i] = y[i]
  OBVIOUS
<1>2. /\ SubSeq(x, 1, Len(x)) \in Seq(Keys) /\ Len(SubSeq(x, 1, Len(x))) = Len(x)
      /\ \A i \in 1..Len(x) : SubSeq(x, 1, Len(x))[i] = x[i]
  OBVIOUS
<1> QED BY <1>1, <1>2 DEF IsPrefix

\* A path goes on from its beginning, and two beginnings of one path run together.
LEMMA RunsOn ==
  ASSUME NEW p \in Seq(Keys), NEW a \in Seq(Keys), NEW r \in Seq(Keys), NEW l, l = p \o a
  PROVE  /\ l \in Seq(Keys)
         /\ a = <<>> => l = p
         /\ a # <<>> => Beneath(l, p)
         /\ l = r \/ Beneath(l, r) => Near(p, r)
<1>1. /\ l \in Seq(Keys) /\ Len(l) = Len(p) + Len(a)
      /\ \A i \in 1..Len(p) : l[i] = p[i]
      /\ a # <<>> => Len(a) # 0
  OBVIOUS
<1>2. a = <<>> => l = p
  OBVIOUS
<1>3. a # <<>> => Beneath(l, p)
  <2> SUFFICES ASSUME a # <<>> PROVE Beneath(l, p)
    OBVIOUS
  <2>1. Len(p) <= Len(l) /\ Len(p) # Len(l)
    BY <1>1
  <2>2. IsPrefix(p, l)
    BY <1>1, <2>1, BeginsWith
  <2> QED BY <2>1, <2>2 DEF Beneath
<1>4. ASSUME l = r \/ Beneath(l, r)
      PROVE  Near(p, r)
  <2>0. IsPrefix(r, l)
    <3>1. IsPrefix(r, r)
      BY BeginsWith
    <3> QED BY <1>4, <3>1 DEF Beneath
  <2>1. Len(r) <= Len(l) /\ \A i \in 1..Len(r) : r[i] = l[i]
    BY <1>1, <2>0, BeginsWith
  <2>2. CASE Len(r) <= Len(p)
    <3>1. \A i \in 1..Len(r) : r[i] = p[i]
      BY <1>1, <2>1, <2>2
    <3>2. IsPrefix(r, p)
      BY <2>2, <3>1, BeginsWith
    <3> QED BY <3>2 DEF Near, Beneath
  <2>3. CASE ~(Len(r) <= Len(p))
    <3>0. Len(p) \in Nat /\ Len(r) \in Nat /\ Len(p) <= Len(r)
      BY <2>3
    <3>1. Len(p) <= Len(r) /\ \A i \in 1..Len(p) : p[i] = r[i]
      BY <1>1, <2>1, <3>0
    <3>2. IsPrefix(p, r)
      BY <3>1, BeginsWith
    <3> QED BY <3>2 DEF Near, Beneath
  <2> QED BY <2>2, <2>3
<1> QED
  BY <1>1, <1>2, <1>3, <1>4

\* The beginning of a path that an override gives is the path itself or within it.
LEMMA Beginnings ==
  ASSUME NEW s \in Overrides, NEW r \in Seq(Keys)
  PROVE  /\ LeafOf(s) \in Seq(Keys) /\ s.path \in Seq(Keys)
         /\ s.at = <<>> => LeafOf(s) = s.path
         /\ s.at # <<>> => Beneath(LeafOf(s), s.path)
         /\ LeafOf(s) = r \/ Beneath(LeafOf(s), r) => Near(s.path, r)
<1>1. s.path \in Seq(Keys) /\ s.at \in Seq(Keys)
  <2>1. s.path \in Seq(Keys) /\ (s.at = <<>> \/ \E k \in Keys : s.at = <<k>>)
    BY DEF Overrides
  <2>2. <<>> \in Seq(Keys) /\ \A k \in Keys : <<k>> \in Seq(Keys)
    OBVIOUS
  <2> QED BY <2>1, <2>2
<1>2. LeafOf(s) = s.path \o s.at
  BY DEF LeafOf
<1> QED
  BY <1>1, <1>2, RunsOn

LEMMA LeafIs ==
  ASSUME NEW p \in Seq(Keys), NEW given \in Givers
  PROVE  Leaf(p, given) \in Tables /\ DOMAIN Leaf(p, given) = {p} /\ Leaf(p, given)[p] = given
<1>1. DOMAIN Leaf(p, given) = {p} /\ Leaf(p, given)[p] = given
  BY DEF Leaf
<1>2. Leaf(p, given) \in [{p} -> Givers]
  BY DEF Leaf
<1>3. {p} \in SUBSET Seq(Keys)
  OBVIOUS
<1> QED
  BY <1>1, <1>2, <1>3, TablesAre

\* An override takes the place of whatever its path gave before.
LEMMA NestIs ==
  ASSUME NEW t \in Tables, NEW s \in Overrides
  PROVE  /\ Nest(t, s) \in Tables
         /\ \A p : p \in DOMAIN Nest(t, s) <=>
                     p = LeafOf(s) \/ (p \in DOMAIN t /\ p # s.path /\ ~Beneath(p, s.path))
         /\ (\A p \in DOMAIN t : t[p] = "cli") => \A p \in DOMAIN Nest(t, s) : Nest(t, s)[p] = "cli"
<1> DEFINE top == Leaf(LeafOf(s), "cli")
           D == {p \in DOMAIN t : p # s.path /\ ~Beneath(p, s.path)}
           below == Restrict(t, D)
<1>1. top \in Tables /\ DOMAIN top = {LeafOf(s)} /\ top[LeafOf(s)] = "cli"
  <2>1. <<>> \in Seq(Keys)
    OBVIOUS
  <2>2. LeafOf(s) \in Seq(Keys)
    BY <2>1, Beginnings
  <2>3. "cli" \in Givers
    BY DEF Givers
  <2> QED BY <2>2, <2>3, LeafIs
<1>2. below \in Tables /\ DOMAIN below = D /\ \A p \in D : below[p] = t[p]
  <2>1. D \in SUBSET DOMAIN t
    OBVIOUS
  <2> HIDE DEF D
  <2> QED BY <2>1, RestrictIs
<1>3. Nest(t, s) = Over(top, below)
  BY DEF Nest, LeafOf
<1>4. \A p : p \in D <=> p \in DOMAIN t /\ p # s.path /\ ~Beneath(p, s.path)
  OBVIOUS
<1> HIDE DEF top, below, D
<1>5. /\ Over(top, below) \in Tables
      /\ DOMAIN Over(top, below) = DOMAIN top \cup DOMAIN below
      /\ \A p \in DOMAIN top : Over(top, below)[p] = top[p]
      /\ \A p \in DOMAIN below \ DOMAIN top : Over(top, below)[p] = below[p]
  BY <1>1, <1>2, OverIs
<1> QED
  BY <1>1, <1>2, <1>3, <1>4, <1>5

\* Nesting override by override, each taking the place of what was there.
NestsInTurn(f, c) ==
  /\ f[0] = NoTable
  /\ \A k \in 1..Len(c) : f[k] = Nest(f[k - 1], c[k])
  /\ Nested(c) = f[Len(c)]

LEMMA NestingIsALoop ==
  ASSUME NEW c \in Seq(Overrides)
  PROVE  \E f \in [0..Len(c) -> Tables] : NestsInTurn(f, c)
<1> DEFINE n == Len(c)
           base == NoTable
           st == [x \in (1..n) \X Tables |-> Nest(x[2], c[x[1]])]
           Eq(it) == it = [T \in SUBSET (DOMAIN c) |->
                             IF T = {} THEN base ELSE LET x == Max(T) IN Nest(it[T \ {x}], c[x])]
           iter == CHOOSE it : Eq(it)
<1>0. n \in Nat /\ DOMAIN c = 1..n /\ base \in Tables
  BY TablesAre
<1>1. ASSUME NEW i \in 1..n, NEW x \in Tables
      PROVE  Nest(x, c[i]) \in Tables
  <2>1. c[i] \in Overrides
    BY <1>0
  <2> QED BY <2>1, NestIs
<1>2. st \in [(1..n) \X Tables -> Tables] /\ \A i \in 1..n, x \in Tables : st[<<i, x>>] = Nest(x, c[i])
  <2>1. ASSUME NEW x \in (1..n) \X Tables
        PROVE  Nest(x[2], c[x[1]]) \in Tables
    <3>1. x[1] \in 1..n /\ x[2] \in Tables
      OBVIOUS
    <3> HIDE DEF n, base
    <3> QED BY <1>1, <3>1
  <2>2. st \in [(1..n) \X Tables -> Tables]
    <3> HIDE DEF n, base
    <3> QED BY <2>1
  <2>3. ASSUME NEW i \in 1..n, NEW x \in Tables
        PROVE  st[<<i, x>>] = Nest(x, c[i])
    <3>1. <<i, x>> \in (1..n) \X Tables /\ <<i, x>>[1] = i /\ <<i, x>>[2] = x
      OBVIOUS
    <3> HIDE DEF n, base
    <3> QED BY <3>1
  <2> QED BY <2>2, <2>3
<1> HIDE DEF base, st
<1>3. PICK it \in [SUBSET (1..n) -> Tables] : IsFold(it, n, base, st)
  <2> HIDE DEF n
  <2> QED BY <1>0, <1>2, FoldRuns
<1>4. \A T \in SUBSET (1..n) : T # {} => Max(T) \in 1..n /\ T \ {Max(T)} \in SUBSET (1..n)
  <2> HIDE DEF n
  <2> QED BY <1>0, GreatestIn
<1>5. Eq(it)
  <2>1. ASSUME NEW T \in SUBSET (1..n)
        PROVE  it[T] = IF T = {} THEN base ELSE Nest(it[T \ {Max(T)}], c[Max(T)])
    <3>1. it[T] = IF T = {} THEN base ELSE st[<<Max(T), it[T \ {Max(T)}]>>]
      BY <1>3 DEF IsFold
    <3>2. T # {} => Max(T) \in 1..n /\ it[T \ {Max(T)}] \in Tables
      BY <1>3, <1>4
    <3> HIDE DEF n
    <3> QED BY <3>1, <3>2, <1>2
  <2> HIDE DEF n
  <2> QED BY <1>0, <1>3, <2>1
<1>6. Eq(iter)
  <2> HIDE DEF Eq
  <2> QED BY <1>5
<1>7. Nested(c) = iter[1..n]
  BY <1>0 DEF Nested, FoldLeft, MapThenFoldSet, base
<1>8. \A T \in SUBSET (1..n) : iter[T] = IF T = {} THEN base ELSE Nest(iter[T \ {Max(T)}], c[Max(T)])
  <2> HIDE DEF iter
  <2> QED BY <1>0, <1>6
<1> HIDE DEF iter, n
<1>9. Reaches(iter, n, Tables, base, st)
  <2>1. iter[{}] = base
    <3>1. {} \in SUBSET (1..n)
      OBVIOUS
    <3>2. \A T \in SUBSET (1..n) : T = {} => iter[T] = base
      BY <1>8
    <3> QED BY <3>1, <3>2
  <2>2. ASSUME NEW T \in SUBSET (1..n), T # {}, iter[T \ {Max(T)}] \in Tables
        PROVE  iter[T] = st[<<Max(T), iter[T \ {Max(T)}]>>]
    BY <1>2, <1>4, <1>8, <2>2
  <2>3. Proceeds(iter, n, Tables, base, st)
    BY <2>1, <2>2 DEF Proceeds
  <2> QED BY <1>0, <1>2, <2>3, FoldSteps
<1> DEFINE f == [k \in 0..n |-> iter[1..k]]
<1>10. f \in [0..n -> Tables] /\ f[0] = base /\ f[n] = iter[1..n]
  BY <1>0, <1>9 DEF Reaches
<1>11. ASSUME NEW k \in 1..n
       PROVE  f[k] = Nest(f[k - 1], c[k])
  <2>1. f[k] = iter[1..k] /\ f[k - 1] = iter[1..(k - 1)] /\ iter[1..(k - 1)] \in Tables
    BY <1>0, <1>9 DEF Reaches
  <2>2. iter[1..k] = st[<<k, iter[1..(k - 1)]>>]
    BY <1>9 DEF Reaches
  <2> HIDE DEF f
  <2> QED BY <1>2, <2>1, <2>2
<1> QED
  <2> HIDE DEF f
  <2> QED BY <1>7, <1>10, <1>11 DEF n, base, NestsInTurn

\* The leaves given by the first n overrides, each by the last that names its path.
LastOf(c, n, i) == \A j \in 1..n : j > i => c[j].path # c[i].path
GivenBy(c, n) == {LeafOf(c[k]) : k \in {i \in 1..n : LastOf(c, n, i)}}

\* What overrides that do not disagree nest into.
LEMMA NestedIs ==
  ASSUME NEW c \in Seq(Overrides), ~Disagree(c)
  PROVE  /\ Nested(c) \in Tables /\ DOMAIN Nested(c) = GivenBy(c, Len(c))
         /\ \A p \in DOMAIN Nested(c) : Nested(c)[p] = "cli"
<1> DEFINE n == Len(c)
<1>0. n \in Nat /\ DOMAIN c = 1..n /\ \A i \in 1..n : c[i] \in Overrides
  OBVIOUS
<1>1. PICK f \in [0..n -> Tables] : NestsInTurn(f, c)
  BY NestingIsALoop
<1>2. f[0] = NoTable /\ (\A k \in 1..n : f[k] = Nest(f[k - 1], c[k])) /\ Nested(c) = f[n]
  BY <1>1 DEF NestsInTurn
<1> DEFINE A == {k \in 0..n : DOMAIN f[k] = GivenBy(c, k) /\ \A p \in DOMAIN f[k] : f[k][p] = "cli"}
<1>3. \A i, j \in 1..n : Near(c[i].path, c[j].path) => c[i].path = c[j].path
  BY <1>0 DEF Near, Disagree
<1> HIDE DEF n
<1>4. 0 \in A
  <2>1. GivenBy(c, 0) = {}
    BY DEF GivenBy
  <2>2. DOMAIN f[0] = {}
    BY <1>2, TablesAre
  <2>3. 0 \in 0..n /\ DOMAIN f[0] = GivenBy(c, 0) /\ \A p \in DOMAIN f[0] : f[0][p] = "cli"
    BY <1>0, <2>1, <2>2
  <2> QED BY <2>3
<1>5. ASSUME NEW m \in 0..n-1, m \in A
      PROVE  m + 1 \in A
  <2> DEFINE s == c[m + 1]
  <2>0. /\ m + 1 \in 1..n /\ m \in 0..n /\ f[m] \in Tables /\ s \in Overrides /\ s.path \in Seq(Keys)
        /\ f[m + 1] = Nest(f[m], s)
    <3>1. m + 1 \in 1..n /\ m \in 0..n /\ (m + 1) - 1 = m
      BY <1>0
    <3>2. s \in Overrides
      BY <1>0, <3>1
    <3>3. s.path \in Seq(Keys)
      BY <3>2 DEF Overrides
    <3> QED BY <1>1, <1>2, <3>1, <3>2, <3>3
  <2>1. /\ \A p : p \in DOMAIN f[m + 1] <=>
                     p = LeafOf(s) \/ (p \in DOMAIN f[m] /\ p # s.path /\ ~Beneath(p, s.path))
        /\ \A p \in DOMAIN f[m + 1] : f[m + 1][p] = "cli"
    <3>1. DOMAIN f[m] = GivenBy(c, m) /\ \A p \in DOMAIN f[m] : f[m][p] = "cli"
      BY <1>5
    <3> HIDE DEF s
    <3>2. /\ \A p : p \in DOMAIN Nest(f[m], s) <=>
                     p = LeafOf(s) \/ (p \in DOMAIN f[m] /\ p # s.path /\ ~Beneath(p, s.path))
          /\ \A p \in DOMAIN Nest(f[m], s) : Nest(f[m], s)[p] = "cli"
      BY <2>0, <3>1, NestIs
    <3> QED BY <2>0, <3>2
  <2>2. \A i \in 1..m+1 : i \in 1..n /\ (i = m + 1 \/ i \in 1..m)
    BY <2>0, <1>0
  <2>2a. 1..m \subseteq 1..m+1 /\ m + 1 \in 1..m+1 /\ \A i \in 1..m : i < m + 1
    BY <2>0, <1>0
  <2>3. ASSUME NEW i \in 1..m, LastOf(c, m, i)
        PROVE  LastOf(c, m + 1, i) <=> LeafOf(c[i]) # s.path /\ ~Beneath(LeafOf(c[i]), s.path)
    <3>1. i \in 1..n /\ c[i] \in Overrides
      BY <1>0, <2>2, <2>2a
    <3>2. /\ c[i].at = <<>> => LeafOf(c[i]) = c[i].path
          /\ c[i].at # <<>> => Beneath(LeafOf(c[i]), c[i].path)
          /\ LeafOf(c[i]) = s.path \/ Beneath(LeafOf(c[i]), s.path) => Near(c[i].path, s.path)
      BY <2>0, <3>1, Beginnings
    <3>3. LeafOf(c[i]) = s.path \/ Beneath(LeafOf(c[i]), s.path) <=> c[i].path = s.path
      BY <1>3, <2>0, <3>1, <3>2
    <3>4. LastOf(c, m + 1, i) <=> c[i].path # s.path
      BY <2>2, <2>2a, <2>3 DEF LastOf
    <3> QED BY <3>3, <3>4
  <2>4. LastOf(c, m + 1, m + 1)
    BY <2>2, <2>2a DEF LastOf
  <2>5. \A i \in 1..m : LastOf(c, m + 1, i) => LastOf(c, m, i)
    BY <2>2a DEF LastOf
  <2>6. DOMAIN f[m + 1] = GivenBy(c, m + 1)
    <3>1. ASSUME NEW p \in DOMAIN f[m + 1]
          PROVE  p \in GivenBy(c, m + 1)
      <4>1. CASE p = LeafOf(s)
        BY <2>2a, <2>4, <4>1 DEF GivenBy
      <4>2. CASE p \in DOMAIN f[m] /\ p # s.path /\ ~Beneath(p, s.path)
        <5>1. PICK i \in 1..m : LastOf(c, m, i) /\ p = LeafOf(c[i])
          BY <1>5, <4>2 DEF GivenBy
        <5>2. LastOf(c, m + 1, i)
          BY <2>3, <4>2, <5>1
        <5> QED BY <2>2a, <5>1, <5>2 DEF GivenBy
      <4> QED BY <2>1, <4>1, <4>2
    <3>2. ASSUME NEW p \in GivenBy(c, m + 1)
          PROVE  p \in DOMAIN f[m + 1]
      <4>1. PICK i \in 1..m+1 : LastOf(c, m + 1, i) /\ p = LeafOf(c[i])
        BY DEF GivenBy
      <4>2. CASE i = m + 1
        BY <2>1, <4>1, <4>2
      <4>3. CASE i \in 1..m
        <5>1. LastOf(c, m, i)
          BY <2>5, <4>1, <4>3
        <5>2. p # s.path /\ ~Beneath(p, s.path)
          BY <2>3, <4>1, <4>3, <5>1
        <5>3. p \in DOMAIN f[m]
          BY <1>5, <4>1, <4>3, <5>1 DEF GivenBy
        <5> QED BY <2>1, <5>2, <5>3
      <4> QED BY <2>2, <4>2, <4>3
    <3> QED BY <3>1, <3>2
  <2> QED BY <2>0, <2>1, <2>6
<1>6. n \in A
  <2> HIDE DEF A
  <2>1. 0..n \subseteq A
    BY <1>0, <1>4, <1>5, UpTo
  <2> QED BY <1>0, <2>1
<1>7. f[n] \in Tables
  BY <1>0, <1>1
<1> QED
  BY <1>2, <1>6, <1>7 DEF n

\* Whatever goes on from a path goes on from the beginnings of it.
LEMMA GoesOnFromThere ==
  ASSUME NEW l \in Seq(Keys), NEW q \in Seq(Keys), NEW r \in Seq(Keys),
         Beneath(l, q), q = r \/ Beneath(q, r)
  PROVE  Beneath(l, r)
<1>1. Len(q) <= Len(l) /\ \A i \in 1..Len(q) : q[i] = l[i]
  BY BeginsWith DEF Beneath
<1>2. Len(r) <= Len(q) /\ \A i \in 1..Len(r) : r[i] = q[i]
  <2>1. CASE q = r
    BY <2>1
  <2>2. CASE Beneath(q, r)
    BY <2>2, BeginsWith DEF Beneath
  <2> QED BY <2>1, <2>2
<1>3. Len(r) <= Len(l) /\ \A i \in 1..Len(r) : r[i] = l[i]
  BY <1>1, <1>2
<1>4. IsPrefix(r, l)
  BY <1>3, BeginsWith
<1>5. r # l
  <2> SUFFICES ASSUME r = l PROVE FALSE
    OBVIOUS
  <2>1. Len(q) = Len(l) /\ q # l
    BY <1>1, <1>2 DEF Beneath
  <2> QED BY <1>1, <2>1
<1> QED BY <1>4, <1>5 DEF Beneath

\* What overrides nest into holds no leaf inside another.
LEMMA NestedIsATable ==
  ASSUME NEW c \in Seq(Overrides), ~Disagree(c)
  PROVE  IsTable(Nested(c))
<1> DEFINE n == Len(c)
<1>0. n \in Nat /\ DOMAIN c = 1..n /\ \A i \in 1..n : c[i] \in Overrides /\ c[i].path \in Seq(Keys)
  <2>1. n \in Nat /\ DOMAIN c = 1..n /\ \A i \in 1..n : c[i] \in Overrides
    OBVIOUS
  <2>2. \A s \in Overrides : s.path \in Seq(Keys)
    BY DEF Overrides
  <2> QED BY <2>1, <2>2
<1>1. \A i, j \in 1..n : Near(c[i].path, c[j].path) => c[i].path = c[j].path
  BY <1>0 DEF Near, Disagree
<1>2. DOMAIN Nested(c) = GivenBy(c, n)
  BY NestedIs
<1> HIDE DEF n
<1> SUFFICES ASSUME NEW i \in 1..n, NEW j \in 1..n, LastOf(c, n, i), LastOf(c, n, j),
                    Beneath(LeafOf(c[i]), LeafOf(c[j]))
             PROVE  FALSE
  BY <1>2 DEF IsTable, GivenBy
<1> DEFINE l == LeafOf(c[i])
           q == LeafOf(c[j])
           r == c[j].path
<1>3. r \in Seq(Keys)
  BY <1>0
<1>4. l \in Seq(Keys) /\ (l = r \/ Beneath(l, r) => Near(c[i].path, r))
  BY <1>0, <1>3, Beginnings
<1>5. q \in Seq(Keys) /\ (q = r \/ Beneath(q, r))
  BY <1>0, <1>3, Beginnings
<1>6. Beneath(l, r)
  <2> HIDE DEF l, q, r
  <2>1. Beneath(l, q)
    BY DEF l, q
  <2> QED BY <1>3, <1>4, <1>5, <2>1, GoesOnFromThere
<1>7. c[i].path = c[j].path
  BY <1>1, <1>4, <1>6
<1>8. i = j
  <2>1. ~(i > j) /\ ~(j > i)
    BY <1>7 DEF LastOf
  <2> QED BY <1>0, <2>1
<1> QED BY <1>8 DEF Beneath

\* What an override question is asked about.
SetsAsked(q) ==
  /\ q.config \in Tables /\ IsTable(q.config)
  /\ \A p \in DOMAIN q.config : q.config[p] = "user"
  /\ q.sets \in Seq(Overrides)

\* The last override of a path is among those that give a leaf.
LEMMA LastIsThere ==
  ASSUME NEW c \in Seq(Overrides), NEW k \in 1..Len(c)
  PROVE  \E i \in 1..Len(c) : c[i].path = c[k].path /\ LastOf(c, Len(c), i)
<1> DEFINE n == Len(c)
           T == {i \in 1..n : c[i].path = c[k].path}
<1>0. n \in Nat
  OBVIOUS
<1>1. T \in SUBSET (1..n) /\ k \in T
  OBVIOUS
<1>2. PICK m \in T : \A i \in T : i <= m
  <2> HIDE DEF T, n
  <2>1. Max(T) \in T /\ \A i \in T : i <= Max(T)
    BY <1>0, <1>1, GreatestIn
  <2> QED BY <2>1
<1>3. ASSUME NEW j \in 1..n, j > m
      PROVE  c[j].path # c[m].path
  <2>1. j \in T => j <= m
    BY <1>2
  <2>2. m \in 1..n /\ c[m].path = c[k].path
    BY <1>2
  <2> QED BY <1>0, <1>3, <2>1, <2>2
<1> QED
  BY <1>2, <1>3 DEF LastOf

\* What the command line sets takes effect.
LEMMA SetsTakeEffect ==
  ASSUME NEW q, SetsAsked(q), ~Disagree(q.sets),
         NEW result, result = ApplyOverrides(q.config, q.sets),
         NEW given, given = GivenBy(q.sets, Len(q.sets))
  PROVE  /\ IsTable(result)
         /\ {p \in DOMAIN result : result[p] = "cli"} = given
         /\ \A p \in DOMAIN q.config : (\A x \in given : ~Near(p, x)) => p \in DOMAIN result
         /\ \A p \in DOMAIN result :
              Credit(q.config, q.sets, p) \notin {result[p], "nobody"} =>
                \E k \in DOMAIN q.sets : q.sets[k].at # <<>> /\ Beneath(p, q.sets[k].path)
<1> DEFINE base == q.config
           c == q.sets
           N == Nested(c)
<1>0. /\ base \in Tables /\ IsTable(base) /\ c \in Seq(Overrides)
      /\ \A p \in DOMAIN base : base[p] = "user"
  BY DEF SetsAsked
<1>1. /\ N \in Tables /\ DOMAIN N = given /\ IsTable(N)
      /\ \A p \in DOMAIN N : N[p] = "cli"
  BY <1>0, NestedIs, NestedIsATable
<1>2. result = Merged(base, N)
  BY DEF ApplyOverrides
<1>3. \A k \in DOMAIN c : c[k] \in Overrides /\ c[k].path \in Seq(Keys)
  <2>1. \A k \in DOMAIN c : c[k] \in Overrides
    BY <1>0
  <2>2. \A s \in Overrides : s.path \in Seq(Keys)
    BY DEF Overrides
  <2> QED BY <2>1, <2>2
<1> HIDE DEF base, N
<1>4. Full(N)
  <2>1. NoKeys # "cli"
    BY DEF NoKeys
  <2> QED BY <1>1, <2>1 DEF Full
<1>5. /\ \A p : p \in DOMAIN result <=> p \in given \/ (p \in DOMAIN base /\ Clear(p, N))
      /\ \A p \in given : result[p] = "cli"
      /\ \A p \in DOMAIN base : Clear(p, N) => result[p] = "user"
  <2>1. /\ \A p : p \in DOMAIN Merged(base, N) <=>
                    p \in DOMAIN N \/ (p \in DOMAIN base /\ Clear(p, N))
        /\ \A p \in DOMAIN N : Merged(base, N)[p] = N[p]
        /\ \A p \in DOMAIN base : Clear(p, N) => Merged(base, N)[p] = base[p]
    BY <1>0, <1>1, <1>4, FullLiesOver
  <2> QED BY <1>0, <1>1, <1>2, <2>1
<1>6. IsTable(result)
  BY <1>0, <1>1, <1>2, MergedIsATable
<1>7. {p \in DOMAIN result : result[p] = "cli"} = given
  BY <1>5
<1>8. \A p \in DOMAIN base : (\A x \in given : ~Near(p, x)) => p \in DOMAIN result
  BY <1>1, <1>5 DEF Clear
<1>9. ASSUME NEW p \in DOMAIN result, Credit(base, c, p) \notin {result[p], "nobody"}
      PROVE  \E k \in DOMAIN c : c[k].at # <<>> /\ Beneath(p, c[k].path)
  <2>1. CASE p \in given
    <3>1. PICK k \in 1..Len(c) : p = LeafOf(c[k])
      BY <2>1 DEF GivenBy, c
    <3>2. k \in DOMAIN c /\ c[k] \in Overrides
      BY <1>0, <1>3
    <3>3. result[p] = "cli"
      BY <1>5, <2>1
    <3>4. p # c[k].path
      BY <1>9, <3>2, <3>3 DEF Credit
    <3>5. <<>> \in Seq(Keys)
      OBVIOUS
    <3>6. c[k].at # <<>> /\ Beneath(p, c[k].path)
      BY <3>1, <3>2, <3>4, <3>5, Beginnings
    <3> QED BY <3>2, <3>6
  <2>2. CASE p \notin given
    <3>1. p \in DOMAIN base /\ Clear(p, N) /\ result[p] = "user"
      BY <1>5, <2>2
    <3>2. Origin(base, p) = "user"
      <4>1. NoKeys # "user"
        BY DEF NoKeys
      <4> QED BY <1>0, <3>1, <4>1 DEF Origin
    <3>3. PICK k \in DOMAIN c : c[k].path = p
      BY <1>9, <3>1, <3>2 DEF Credit
    <3>4. k \in 1..Len(c)
      BY <1>0
    <3>5. PICK i \in 1..Len(c) : c[i].path = p /\ LastOf(c, Len(c), i)
      BY <1>0, <3>3, <3>4, LastIsThere
    <3>6. i \in DOMAIN c /\ c[i] \in Overrides /\ p \in Seq(Keys)
      BY <1>0, <1>3, <3>5
    <3>7. LeafOf(c[i]) \in DOMAIN N
      BY <1>1, <3>5 DEF GivenBy, c
    <3>8. Near(p, LeafOf(c[i]))
      BY <3>5, <3>6, Beginnings DEF Near
    <3> QED BY <3>1, <3>7, <3>8 DEF Clear
  <2> QED BY <2>1, <2>2
<1> QED
  BY <1>6, <1>7, <1>8, <1>9 DEF base, c

-----------------------------------------------------------------------------
(* Sections, files and modes.                                              *)

\* Every key that is known is read as what it is called.
LEMMA KnownAs ==
  /\ \A key \in DOMAIN Known : Known[key] = key
  /\ \A kind \in DOMAIN Known : \A raw : Accepts(kind, raw) /\ raw.type = "bool" => kind = "flag"
<1>1. DOMAIN Known = {"flag", "percent", "positive", "real", "density", "path"}
  BY DEF Known
<1>2. \A key \in DOMAIN Known : Known[key] = key
  BY DEF Known
<1>3. ASSUME NEW kind \in DOMAIN Known, NEW raw, Accepts(kind, raw), raw.type = "bool"
      PROVE  kind = "flag"
  <2>1. \/ kind = "flag" \/ kind = "percent" \/ kind = "positive"
        \/ kind = "real" \/ kind = "density" \/ kind = "path"
    BY <1>1
  <2>2. kind # "percent"
    BY <1>3 DEF Accepts
  <2>3. kind # "positive"
    BY <1>3 DEF Accepts
  <2>4. kind # "real"
    BY <1>3 DEF Accepts
  <2>5. kind # "density"
    BY <1>3 DEF Accepts
  <2>6. kind # "path"
    BY <1>3 DEF Accepts
  <2> QED BY <2>1, <2>2, <2>3, <2>4, <2>5, <2>6
<1> QED BY <1>2, <1>3

\* A value of a section is used or a warning names it.
LEMMA ValuesAreSaid ==
  ASSUME topic = "sections"
  PROVE  EveryInertValueIsSaid
<1> DEFINE r == ReadSection(input)
<1> SUFFICES ASSUME NEW key \in DOMAIN input
             PROVE  \/ key \in DOMAIN Known /\ key \notin r.rejected \cup r.unknown /\ r.used[key] = input[key]
                       /\ (input[key].type = "bool" => key = "flag")
                    \/ key \in r.rejected \cup r.unknown /\ (key \in DOMAIN Known => r.used[key] = Absent)
  BY DEF EveryInertValueIsSaid
<1>1. /\ key \in r.unknown <=> key \notin DOMAIN Known
      /\ key \in r.rejected <=> key \in DOMAIN Known /\ ~Accepts(Known[key], input[key])
      /\ key \in DOMAIN Known => r.used[key] = IF Accepts(Known[key], input[key]) THEN input[key] ELSE Absent
  BY DEF ReadSection, UnknownOwnedKeys
<1> HIDE DEF r
<1>2. CASE key \notin DOMAIN Known
  BY <1>1, <1>2
<1>3. CASE key \in DOMAIN Known /\ ~Accepts(Known[key], input[key])
  BY <1>1, <1>3
<1>4. CASE key \in DOMAIN Known /\ Accepts(Known[key], input[key])
  <2>1. input[key].type = "bool" => key = "flag"
    BY <1>4, KnownAs
  <2> QED BY <1>1, <1>4, <2>1
<1> QED BY <1>2, <1>3, <1>4

LoadsAsked(q) ==
  /\ q.state \in [{"app", "host", "user", ".env"} -> {"fine", "broken", "withheld", "failed"}]
  /\ q.overwrites \in SUBSET LayerFiles

\* How one load ends, whichever files it skips.
LEMMA LoadsEnd ==
  ASSUME NEW state, DOMAIN state = {"app", "host", "user", ".env"}, NEW skip
  PROVE  /\ Load(state, skip) \in {"loaded", "PERMISSION_DENIED", "CONFIG_ERROR"}
         /\ Load(state, skip) = "loaded" <=> \A f \in DOMAIN state : f \in skip \/ state[f] = "fine"
         /\ Load(state, skip) = "PERMISSION_DENIED" =>
              \E f \in DOMAIN state : f \notin skip /\ state[f] = "withheld"
<1> DEFINE bad == {k \in DOMAIN ReadInOrder : ReadInOrder[k] \notin skip /\ state[ReadInOrder[k]] # "fine"}
           m == Min(bad)
<1>1. /\ DOMAIN ReadInOrder = 1..4 /\ ReadInOrder[1] = "app" /\ ReadInOrder[2] = "host"
      /\ ReadInOrder[3] = "user" /\ ReadInOrder[4] = ".env"
  BY DEF ReadInOrder
<1>2. Load(state, skip) = IF bad = {} THEN "loaded"
                          ELSE IF state[ReadInOrder[m]] = "withheld" THEN "PERMISSION_DENIED" ELSE "CONFIG_ERROR"
  BY DEF Load
<1>3. bad = {} <=> \A f \in DOMAIN state : f \in skip \/ state[f] = "fine"
  BY <1>1
<1>4. bad # {} => m \in bad
  <2>1. bad \in SUBSET (1..4) /\ 4 \in Nat
    BY <1>1
  <2> HIDE DEF bad
  <2> QED BY <2>1, EndsOf
<1>5. bad # {} => ReadInOrder[m] \in DOMAIN state /\ ReadInOrder[m] \notin skip
  <2>1. \A k \in bad : ReadInOrder[k] \in DOMAIN state /\ ReadInOrder[k] \notin skip
    BY <1>1
  <2> HIDE DEF bad, m
  <2> QED BY <1>4, <2>1
<1> HIDE DEF bad, m
<1> QED BY <1>2, <1>3, <1>5

\* A forced deployment is stopped by what it cannot mend, and skips only what it mends.
LEMMA DeployMends ==
  ASSUME topic = "loads", LoadsAsked(input)
  PROVE  ForcedDeployMendsWhatItCan
<1> DEFINE state == input.state
           over == input.overwrites
           l == LoadProfileConfig(state, over)
           mended == {f \in over : state[f] = "broken"}
           bad == {f \in DOMAIN state : state[f] # "fine"}
<1>1. DOMAIN state = {"app", "host", "user", ".env"} /\ over \in SUBSET DOMAIN state
  BY DEF LoadsAsked, LayerFiles
<1>2. mended = UnparsableFiles(state, over) /\ mended \subseteq bad
  BY <1>1 DEF UnparsableFiles
<1>3. l = IF Load(state, {}) # "CONFIG_ERROR" \/ mended = {}
          THEN [skipped |-> {}, answer |-> Load(state, {})]
          ELSE [skipped |-> mended, answer |-> Load(state, mended)]
  BY <1>2 DEF LoadProfileConfig
<1>4. ASSUME NEW skip \in SUBSET mended
      PROVE  /\ Load(state, skip) \in {"loaded", "PERMISSION_DENIED", "CONFIG_ERROR"}
             /\ Load(state, skip) = "loaded" <=> bad \subseteq skip
             /\ Load(state, skip) = "PERMISSION_DENIED" => \E f \in bad \ mended : state[f] = "withheld"
  <2>1. /\ Load(state, skip) \in {"loaded", "PERMISSION_DENIED", "CONFIG_ERROR"}
        /\ Load(state, skip) = "loaded" <=> \A f \in DOMAIN state : f \in skip \/ state[f] = "fine"
        /\ Load(state, skip) = "PERMISSION_DENIED" =>
             \E f \in DOMAIN state : f \notin skip /\ state[f] = "withheld"
    <3> HIDE DEF state
    <3> QED BY <1>1, LoadsEnd
  <2>2. \A f \in DOMAIN state : state[f] = "withheld" => f \in bad \ mended
    OBVIOUS
  <2> HIDE DEF state, mended
  <2> QED BY <2>1, <2>2
<1>5. /\ l.answer = "loaded" <=> bad \subseteq mended
      /\ l.skipped \subseteq mended
      /\ l.answer = "PERMISSION_DENIED" => \E f \in bad \ mended : state[f] = "withheld"
  <2>1. {} \in SUBSET mended /\ mended \in SUBSET mended
    OBVIOUS
  <2> HIDE DEF l, state, mended, bad, over
  <2>2. CASE Load(state, {}) # "CONFIG_ERROR"
    <3>1. l.answer = Load(state, {}) /\ l.skipped = {}
      BY <1>3, <2>2
    <3>2. Load(state, {}) = "loaded" \/ Load(state, {}) = "PERMISSION_DENIED"
      BY <1>4, <2>1, <2>2
    <3>3. Load(state, {}) = "loaded" <=> bad \subseteq {}
      BY <1>4, <2>1
    <3>4. Load(state, {}) = "PERMISSION_DENIED" => \E f \in bad \ mended : state[f] = "withheld"
      BY <1>4, <2>1
    <3> QED BY <3>1, <3>2, <3>3, <3>4
  <2>3. CASE Load(state, {}) = "CONFIG_ERROR" /\ mended = {}
    <3>1. l.answer = "CONFIG_ERROR" /\ l.skipped = {}
      BY <1>3, <2>3
    <3>2. ~(bad \subseteq {})
      BY <1>4, <2>1, <2>3
    <3> QED BY <2>3, <3>1, <3>2
  <2>4. CASE Load(state, {}) = "CONFIG_ERROR" /\ mended # {}
    <3>1. l.answer = Load(state, mended) /\ l.skipped = mended
      BY <1>3, <2>4
    <3> QED BY <1>4, <2>1, <3>1
  <2> QED BY <2>2, <2>3, <2>4
<1> QED
  BY <1>5 DEF ForcedDeployMendsWhatItCan

\* Whose mode is in force among some layers: the last of those that give one.
LEMMA WinnerIs ==
  ASSUME NEW gives, NEW layers, NEW w, w = Winner(gives, layers)
  PROVE  \/ w = "nobody" /\ \A k \in 1..7 : ModeLayers[k] \in layers => gives[ModeLayers[k]] = NoMode
         \/ \E m \in 1..7 : /\ w = ModeLayers[m] /\ w \in layers /\ gives[w] # NoMode
                            /\ \A k \in 1..7 : ModeLayers[k] \in layers /\ gives[ModeLayers[k]] # NoMode => k <= m
<1> DEFINE by == {k \in DOMAIN ModeLayers : ModeLayers[k] \in layers /\ gives[ModeLayers[k]] # NoMode}
<1>1. DOMAIN ModeLayers = 1..7
  BY DEF ModeLayers
<1>2. w = IF by = {} THEN "nobody" ELSE ModeLayers[Max(by)]
  BY DEF Winner
<1>3. by # {} => Max(by) \in by /\ \A k \in by : k <= Max(by)
  <2>1. by \in SUBSET (1..7) /\ 7 \in Nat
    BY <1>1
  <2> HIDE DEF by
  <2> QED BY <2>1, EndsOf
<1>4. CASE by = {}
  BY <1>1, <1>2, <1>4
<1>5. CASE by # {}
  <2>1. PICK m \in by : w = ModeLayers[m] /\ \A k \in by : k <= m
    <3> HIDE DEF by
    <3> QED BY <1>2, <1>3, <1>5
  <2>2. m \in 1..7 /\ ModeLayers[m] \in layers /\ gives[ModeLayers[m]] # NoMode
    BY <1>1
  <2>3. \A k \in 1..7 : ModeLayers[k] \in layers /\ gives[ModeLayers[k]] # NoMode => k <= m
    BY <1>1, <2>1
  <2> QED BY <2>1, <2>2, <2>3
<1> QED BY <1>4, <1>5

LEMMA ModeLayersAre ==
  /\ ToSet(ModeLayers) = {"shipped", "app", "host", "user", "dotenv", "env", "cli"}
  /\ \A k \in 1..7 : ModeLayers[k] \in ToSet(ModeLayers) /\ ModeLayers[k] # "nobody"
  /\ \A j, k \in 1..7 : ModeLayers[j] = ModeLayers[k] => j = k
<1>1. /\ DOMAIN ModeLayers = 1..7 /\ ModeLayers[1] = "shipped" /\ ModeLayers[2] = "app"
      /\ ModeLayers[3] = "host" /\ ModeLayers[4] = "user" /\ ModeLayers[5] = "dotenv"
      /\ ModeLayers[6] = "env" /\ ModeLayers[7] = "cli"
  BY DEF ModeLayers
<1>2. \A k : k \in 1..7 <=> k = 1 \/ k = 2 \/ k = 3 \/ k = 4 \/ k = 5 \/ k = 6 \/ k = 7
  OBVIOUS
<1>3. ToSet(ModeLayers) = {"shipped", "app", "host", "user", "dotenv", "env", "cli"}
  BY <1>1, <1>2 DEF ToSet
<1>4. \A k \in 1..7 : ModeLayers[k] \in ToSet(ModeLayers) /\ ModeLayers[k] # "nobody"
  BY <1>1, <1>2, <1>3
<1>5. \A j, k \in 1..7 : ModeLayers[j] = ModeLayers[k] => j = k
  BY <1>1, <1>2
<1> QED BY <1>3, <1>4, <1>5

\* Where the layer that is shown is one that is read too, it is the one used.
LEMMA ShownIsUsed ==
  ASSUME NEW gives, NEW layers \in SUBSET ToSet(ModeLayers),
         Winner(gives, ToSet(ModeLayers)) \in layers
  PROVE  Winner(gives, layers) = Winner(gives, ToSet(ModeLayers))
<1> DEFINE shown == Winner(gives, ToSet(ModeLayers))
           used == Winner(gives, layers)
<1>1. PICK m \in 1..7 : /\ shown = ModeLayers[m] /\ gives[shown] # NoMode
                        /\ \A k \in 1..7 : ModeLayers[k] \in ToSet(ModeLayers) /\ gives[ModeLayers[k]] # NoMode
                                             => k <= m
  <2>1. shown # "nobody"
    BY ModeLayersAre
  <2> HIDE DEF shown
  <2>2. shown = Winner(gives, ToSet(ModeLayers))
    BY DEF shown
  <2> QED BY <2>1, <2>2, WinnerIs
<1>2. PICK j \in 1..7 : /\ used = ModeLayers[j] /\ used \in layers /\ gives[used] # NoMode
                        /\ \A k \in 1..7 : ModeLayers[k] \in layers /\ gives[ModeLayers[k]] # NoMode => k <= j
  <2>1. ModeLayers[m] \in layers /\ gives[ModeLayers[m]] # NoMode
    BY <1>1
  <2> HIDE DEF used
  <2>2. used = Winner(gives, layers)
    BY DEF used
  <2> QED BY <2>1, <2>2, WinnerIs
<1>3. m <= j
  BY <1>1, <1>2
<1>4. j <= m
  BY <1>1, <1>2, ModeLayersAre
<1> QED BY <1>1, <1>2, <1>3, <1>4

ModesAsked(q) ==
  /\ q.written \in SUBSET LayerFiles /\ q.kept \in SUBSET q.written

\* Where the mode that is used is not the one that is shown, the reason is said.
LEMMA IgnoredIsSaid ==
  ASSUME topic = "modes", ModesAsked(input)
  PROVE  NoModeIsIgnoredUnsaid
<1> DEFINE all == ToSet(ModeLayers)
           key == input.key
           written == input.written
           kept == input.kept
           reads == DeployReads(key, written)
           shown == Winner(input.gives, all)
           used == Winner(input.gives, reads)
           why == ModeTheDeployIgnores(input.gives, key, written, kept)
           own == ~(shown = "user" /\ key = "system")
<1> SUFFICES ASSUME shown # "cli", shown # "nobody"
             PROVE  /\ why = "used" <=> input.gives[shown] = ModeOf(input.gives, used)
                    /\ why = "kept" => shown \in kept
                    /\ why = "rewritten" => shown \in written \ kept
  BY DEF NoModeIsIgnoredUnsaid
<1>1. shown \in all
  <2> HIDE DEF shown, all
  <2>1. shown = Winner(input.gives, all)
    BY DEF shown
  <2> QED BY <2>1, WinnerIs
<1>2. reads \in SUBSET all /\ (shown \in reads <=> shown \notin written /\ shown # "dotenv" /\ own)
  <2> HIDE DEF shown, all
  <2>1. reads = all \ (written \cup {"dotenv", "cli"} \cup (IF key = "system" THEN {"user"} ELSE {}))
    BY DEF DeployReads, all
  <2> QED BY <1>1, <2>1
<1>3. shown \in reads => used = shown
  <2> HIDE DEF reads
  <2> QED BY <1>2, ShownIsUsed
<1>4. why = IF ModeOf(input.gives, shown) = ModeOf(input.gives, used) THEN "used"
            ELSE WhyIgnored(shown, key, written, kept)
  BY DEF ModeTheDeployIgnores
<1>5. /\ ModeOf(input.gives, shown) = input.gives[shown]
      /\ shown \in reads => ModeOf(input.gives, used) = input.gives[shown]
  BY <1>3 DEF ModeOf
<1>6. "dotenv" \notin written /\ kept \subseteq written
  BY DEF ModesAsked, LayerFiles
<1> HIDE DEF shown, used, reads, why, all
<1>7. /\ WhyIgnored(shown, key, written, kept) = "used" => shown \in reads
      /\ WhyIgnored(shown, key, written, kept) = "kept" => shown \in kept
      /\ WhyIgnored(shown, key, written, kept) = "rewritten" => shown \in written \ kept
  <2> HIDE DEF key, written, kept
  <2>1. CASE shown = "dotenv"
    <3>1. WhyIgnored(shown, key, written, kept) = "not from a .env file"
      BY <1>6, <2>1 DEF WhyIgnored
    <3> QED BY <3>1
  <2>2. CASE shown # "dotenv" /\ ~own
    <3>1. WhyIgnored(shown, key, written, kept) = "not from a user file"
      BY <2>2 DEF WhyIgnored
    <3> QED BY <3>1
  <2>3. CASE shown # "dotenv" /\ own /\ shown \in kept
    <3>1. WhyIgnored(shown, key, written, kept) = "kept"
      BY <2>3 DEF WhyIgnored
    <3> QED BY <2>3, <3>1
  <2>4. CASE shown # "dotenv" /\ own /\ shown \in written \ kept
    <3>1. WhyIgnored(shown, key, written, kept) = "rewritten"
      BY <2>4 DEF WhyIgnored
    <3> QED BY <2>4, <3>1
  <2>5. CASE shown # "dotenv" /\ own /\ shown \notin written
    <3>1. WhyIgnored(shown, key, written, kept) = "used" /\ shown \in reads
      BY <1>2, <1>6, <2>5 DEF WhyIgnored
    <3> QED BY <3>1
  <2> QED BY <1>6, <2>1, <2>2, <2>3, <2>4, <2>5
<1> QED
  BY <1>4, <1>5, <1>7

\* What is asked about a configuration: tables as their layers may give them, overrides of
\* any length, files in any state, modes of any kind.
ConfigAsked ==
  /\ topic = "layers" => LayersAsked(input)
  /\ topic = "overrides" =>
       SetsAsked(input) /\ input = [config |-> input.config, sets |-> input.sets]
  /\ topic = "loads" => LoadsAsked(input)
  /\ topic = "modes" => ModesAsked(input)

LEMMA PathsAreNamed ==
  /\ \A p \in KeyPaths : p \in Seq(Keys)
  /\ ToSet(Layers) = {"shipped", "user", "dotenv", "env"} /\ ToSet(Files) = {"shipped", "user"}
<1>1. ASSUME NEW p \in KeyPaths
      PROVE  p \in Seq(Keys)
  <2>1. PICK n \in 1..2 : p \in [1..n -> Keys]
    BY DEF KeyPaths
  <2> QED BY <2>1
<1> QED BY <1>1 DEF Layers, Files, ToSet

\* A leaf that is given makes a table of a table.
LEMMA GivenALeaf ==
  ASSUME NEW t \in Tables, NEW p \in KeyPaths, NEW given \in Givers, p \notin DOMAIN t,
         NEW new, new = Over(Leaf(p, given), t)
  PROVE  /\ new \in Tables
         /\ \A q \in DOMAIN new : new[q] = given \/ (q \in DOMAIN t /\ new[q] = t[q])
<1> DEFINE one == Leaf(p, given)
<1>1. one \in Tables /\ DOMAIN one = {p} /\ one[p] = given
  BY PathsAreNamed, LeafIs
<1> HIDE DEF one
<1>2. /\ new \in Tables
      /\ DOMAIN new = DOMAIN one \cup DOMAIN t
      /\ \A q \in DOMAIN one : new[q] = one[q]
      /\ \A q \in DOMAIN t \ DOMAIN one : new[q] = t[q]
  BY <1>1, OverIs DEF one
<1> QED BY <1>1, <1>2

\* A layer gives a leaf: it stays a table of leaves that it gave, or that hold no keys.
LEMMA LayersGrow ==
  ASSUME topic = "layers", LayersAsked(input), GiveALeaf
  PROVE  LayersAsked(input')
<1>1. PICK l \in ToSet(Layers), p \in KeyPaths, none \in BOOLEAN :
        LET t == Over(Leaf(p, IF none THEN NoKeys ELSE l), input[l])
        IN  /\ none => l \in ToSet(Files)
            /\ p \notin DOMAIN input[l] /\ IsTable(t)
            /\ Build("layers", [input EXCEPT ![l] = t])
  BY DEF GiveALeaf
<1> DEFINE given == IF none THEN NoKeys ELSE l
           t == Over(Leaf(p, given), input[l])
<1>2. /\ none => l \in {"shipped", "user"}
      /\ p \notin DOMAIN input[l] /\ IsTable(t) /\ input' = [input EXCEPT ![l] = t]
  BY <1>1, PathsAreNamed DEF Build
<1>3. l \in DOMAIN input /\ input[l] \in Tables /\ given \in Givers
  BY PathsAreNamed DEF LayersAsked, Givers
<1>4. t \in Tables /\ \A q \in DOMAIN t : t[q] = given \/ (q \in DOMAIN input[l] /\ t[q] = input[l][q])
  BY <1>2, <1>3, GivenALeaf
<1>5. \A q \in DOMAIN t : t[q] = l \/ (l \in {"shipped", "user"} /\ t[q] = NoKeys)
  BY <1>2, <1>3, <1>4 DEF LayersAsked
<1> HIDE DEF t, given
<1>6. DOMAIN input' = DOMAIN input /\ input'[l] = t /\ \A m \in DOMAIN input \ {l} : input'[m] = input[m]
  BY <1>2, <1>3
<1> QED BY <1>2, <1>3, <1>4, <1>5, <1>6 DEF LayersAsked

\* The file gives a leaf, the command line an override.
LEMMA OverridesGrow ==
  ASSUME topic = "overrides", ConfigAsked, GiveALeaf \/ GiveASet
  PROVE  SetsAsked(input') /\ input' = [config |-> input.config, sets |-> input.sets]'
<1>1. SetsAsked(input) /\ input = [config |-> input.config, sets |-> input.sets]
  BY DEF ConfigAsked
<1>2. CASE GiveALeaf
  <2>1. PICK p \in KeyPaths :
          LET t == Over(Leaf(p, "user"), input.config)
          IN  /\ p \notin DOMAIN input.config /\ IsTable(t)
              /\ Build("overrides", [input EXCEPT !.config = t])
    BY <1>2 DEF GiveALeaf
  <2> DEFINE t == Over(Leaf(p, "user"), input.config)
  <2>2. p \notin DOMAIN input.config /\ IsTable(t) /\ input' = [input EXCEPT !.config = t]
    BY <2>1 DEF Build
  <2>3. "user" \in Givers /\ input.config \in Tables
    BY <1>1 DEF SetsAsked, Givers
  <2>4. t \in Tables /\ \A q \in DOMAIN t : t[q] = "user" \/ (q \in DOMAIN input.config /\ t[q] = input.config[q])
    BY <2>2, <2>3, GivenALeaf
  <2> HIDE DEF t
  <2>5. input' = [config |-> t, sets |-> input.sets]
    BY <1>1, <2>2
  <2>6. input'.config = t /\ input'.sets = input.sets
    BY <2>5
  <2> QED BY <1>1, <2>2, <2>4, <2>5, <2>6 DEF SetsAsked
<1>3. CASE GiveASet
  <2>1. PICK p \in KeyPaths, at \in {<<>>} \cup {<<k>> : k \in Keys} :
          Build("overrides", [input EXCEPT !.sets = Append(@, [path |-> p, at |-> at])])
    BY <1>3 DEF GiveASet
  <2> DEFINE s == [path |-> p, at |-> at]
  <2>2. s \in Overrides
    BY PathsAreNamed DEF Overrides
  <2>3. input' = [input EXCEPT !.sets = Append(input.sets, s)]
    BY <2>1 DEF Build
  <2> HIDE DEF s
  <2>4. Append(input.sets, s) \in Seq(Overrides)
    BY <1>1, <2>2 DEF SetsAsked
  <2> DEFINE more == Append(input.sets, s)
  <2> HIDE DEF more
  <2>5. input' = [config |-> input.config, sets |-> more]
    BY <1>1, <2>3 DEF more
  <2>6. input'.config = input.config /\ input'.sets = more
    BY <2>5
  <2> QED BY <1>1, <2>4, <2>5, <2>6 DEF SetsAsked, more
<1> QED BY <1>2, <1>3

\* As each question about a configuration starts.
LEMMA ConfigStarts ==
  ASSUME AskAboutConfiguration
  PROVE  ConfigAsked
<1>1. CASE Ask("layers", [l \in ToSet(Layers) |-> NoTable])
  <2>1. input = [l \in {"shipped", "user", "dotenv", "env"} |-> NoTable] /\ topic = "layers"
    BY <1>1, PathsAreNamed DEF Ask
  <2>2. NoTable \in Tables /\ DOMAIN NoTable = {} /\ IsTable(NoTable)
    BY TablesAre DEF IsTable
  <2> HIDE DEF NoTable
  <2>3. LayersAsked(input)
    BY <2>1, <2>2 DEF LayersAsked
  <2> QED BY <2>1, <2>3 DEF ConfigAsked
<1>2. CASE Ask("overrides", [config |-> NoTable, sets |-> <<>>])
  <2>1. input = [config |-> NoTable, sets |-> <<>>] /\ topic = "overrides"
    BY <1>2 DEF Ask
  <2>2. NoTable \in Tables /\ DOMAIN NoTable = {} /\ IsTable(NoTable)
    BY TablesAre DEF IsTable
  <2>3. input.config = NoTable /\ input.sets = <<>> /\ input.sets \in Seq(Overrides)
    BY <2>1
  <2>4. SetsAsked(input)
    BY <2>2, <2>3 DEF SetsAsked
  <2> QED BY <2>1, <2>3, <2>4 DEF ConfigAsked
<1>3. CASE topic = "sections"
  BY <1>3 DEF ConfigAsked
<1>4. CASE \E state \in [ToSet(ReadInOrder) -> {"fine", "broken", "withheld", "failed"}],
              overwrites \in SUBSET LayerFiles :
             Ask("loads", [state |-> state, overwrites |-> overwrites])
  <2>1. ToSet(ReadInOrder) = {"app", "host", "user", ".env"}
    BY DEF ReadInOrder, ToSet
  <2>2. PICK state \in [{"app", "host", "user", ".env"} -> {"fine", "broken", "withheld", "failed"}],
              overwrites \in SUBSET LayerFiles :
             topic = "loads" /\ input = [state |-> state, overwrites |-> overwrites]
    BY <1>4, <2>1 DEF Ask
  <2>3. input.state = state /\ input.overwrites = overwrites
    BY <2>2
  <2> QED BY <2>2, <2>3 DEF ConfigAsked, LoadsAsked
<1>5. CASE \E gives \in [ToSet(ModeLayers) -> {NoMode, 1, 2}], key \in {"system", "user"},
              written \in SUBSET LayerFiles :
             \E kept \in SUBSET written :
               Ask("modes", [gives |-> gives, key |-> key, written |-> written, kept |-> kept])
  <2>1. PICK gives, key, written, kept :
          /\ written \in SUBSET LayerFiles /\ kept \in SUBSET written
          /\ topic = "modes" /\ input = [gives |-> gives, key |-> key, written |-> written, kept |-> kept]
    BY <1>5 DEF Ask
  <2>2. input.written = written /\ input.kept = kept
    BY <2>1
  <2> QED BY <2>1, <2>2 DEF ConfigAsked, ModesAsked
<1> QED
  BY <1>1, <1>2, <1>3, <1>4, <1>5 DEF AskAboutConfiguration, Ask

LEMMA ConfigIsHonest ==
  ASSUME ConfigAsked
  PROVE  /\ SkippingKeepsTheOrder /\ SettingsTakeEffect /\ EveryInertValueIsSaid
         /\ ForcedDeployMendsWhatItCan /\ NoModeIsIgnoredUnsaid
<1>1. SkippingKeepsTheOrder
  BY SkippingIsReading DEF ConfigAsked, SkippingKeepsTheOrder
<1>2. SettingsTakeEffect
  <2> SUFFICES ASSUME topic = "overrides", ~Disagree(input.sets)
               PROVE  SettingsTakeEffect
    BY DEF SettingsTakeEffect
  <2> DEFINE result == ApplyOverrides(input.config, input.sets)
             last(k) == \A j \in DOMAIN input.sets : j > k => input.sets[j].path # input.sets[k].path
             given == {input.sets[k].path \o input.sets[k].at : k \in {i \in DOMAIN input.sets : last(i)}}
  <2>1. SetsAsked(input)
    BY DEF ConfigAsked
  <2>2. DOMAIN input.sets = 1..Len(input.sets)
    BY <2>1 DEF SetsAsked
  <2>3. given = GivenBy(input.sets, Len(input.sets))
    BY <2>2 DEF GivenBy, LastOf, LeafOf
  <2> HIDE DEF given
  <2>4. /\ IsTable(result)
        /\ {p \in DOMAIN result : result[p] = "cli"} = given
        /\ \A p \in DOMAIN input.config : (\A x \in given : ~Near(p, x)) => p \in DOMAIN result
        /\ \A p \in DOMAIN result :
             Credit(input.config, input.sets, p) \notin {result[p], "nobody"} =>
               \E k \in DOMAIN input.sets : input.sets[k].at # <<>> /\ Beneath(p, input.sets[k].path)
    BY <2>1, <2>3, SetsTakeEffect
  <2> QED BY <2>4 DEF SettingsTakeEffect, given
<1>3. EveryInertValueIsSaid
  BY ValuesAreSaid DEF EveryInertValueIsSaid
<1>4. ForcedDeployMendsWhatItCan
  BY DeployMends DEF ConfigAsked, ForcedDeployMendsWhatItCan
<1>5. NoModeIsIgnoredUnsaid
  BY IgnoredIsSaid DEF ConfigAsked, NoModeIsIgnoredUnsaid
<1> QED BY <1>1, <1>2, <1>3, <1>4, <1>5

-----------------------------------------------------------------------------
(* How a question grows.                                                    *)

\* Each question starts as its own rules say.
StartedByItsOwn ==
  /\ topic = "recordings" => AskAboutRecordings
  /\ topic = "tree" => AskAboutTrees
  /\ topic = "board" => AskAboutBoards
  /\ topic = "switch" => AskAboutSwitches
  /\ topic = "swaps" => AskAboutPorts
  /\ topic = "free ports" => AskAboutPorts
  /\ topic = "shared drives" => AskAboutPorts
  /\ topic = "usb" => AskAboutPorts
  /\ topic = "health" => AskAboutDrives
  /\ topic = "findings" => AskAboutMachines
  /\ topic = "firmware" => AskAboutFirmware
  /\ topic = "fill" => AskAboutFills \/ AskAboutInodes
  /\ topic = "extents" => AskAboutExtents
  /\ topic = "mounts" => AskAboutMounts
  /\ topic = "walk" => AskAboutWalks
  /\ topic = "mount table" => AskAboutMountTables
  /\ topic = "uses" => AskAboutUses
  /\ topic = "pools" => AskAboutPools
  /\ topic = "sas" => AskAboutMachinesBuilt
  /\ topic = "rates" => AskAboutMachinesBuilt
  /\ topic = "temperatures" => AskAboutMachinesBuilt
  /\ topic = "usb ends" => AskAboutMachinesBuilt
  /\ topic = "pool scan" => AskAboutPoolScans
  /\ topic = "question" => AskAQuestion
  /\ topic = "bitmap" => AskAboutBitmaps
  /\ topic = "volumes" => AskAboutVolumes
  /\ topic = "stack" => AskAboutReadingsTaken
  /\ topic = "ports" => AskAboutReadingsTaken
  /\ topic = "drive" => AskAboutReadingsTaken
  /\ topic = "capabilities" => AskAboutReadingsTaken
  /\ topic = "usb tree" => AskAboutUsbTrees
  /\ topic = "bos" => AskAboutUsbTrees
  /\ topic = "interfaces" => AskAboutWindowsReadings
  /\ topic = "disk" => AskAboutWindowsReadings
  /\ topic = "hub ports" => AskAboutWindowsUsb
  /\ topic = "port answers" => AskAboutWindowsUsb
  /\ topic = "environment" => AskAboutEnvironments
  /\ topic = "list of devices" => AskAboutNames
  /\ topic = "device names" => AskAboutNames
  /\ topic = "capture" => AskAboutSnapshots
  /\ topic = "snapshot" => AskAboutSnapshots
  /\ topic = "volumes listed" => AskAboutSnapshots
  /\ topic = "free space" => AskAboutSnapshots
  /\ topic = "layers" => AskAboutConfiguration
  /\ topic = "overrides" => AskAboutConfiguration
  /\ topic = "sections" => AskAboutConfiguration
  /\ topic = "loads" => AskAboutConfiguration
  /\ topic = "modes" => AskAboutConfiguration

LEMMA EachStartsItsOwnWay ==
  ASSUME Init
  PROVE  StartedByItsOwn
<1>1. ASSUME AskAboutRecordings
      PROVE  topic \in {"recordings"}
  BY <1>1 DEF AskAboutRecordings, Ask
<1>2. ASSUME AskAboutTrees
      PROVE  topic \in {"tree"}
  BY <1>2 DEF AskAboutTrees, Ask
<1>3. ASSUME AskAboutBoards
      PROVE  topic \in {"board"}
  BY <1>3 DEF AskAboutBoards, Ask
<1>4. ASSUME AskAboutSwitches
      PROVE  topic \in {"switch"}
  BY <1>4 DEF AskAboutSwitches, Ask
<1>5. ASSUME AskAboutPorts
      PROVE  topic \in {"swaps", "free ports", "shared drives", "usb"}
  BY <1>5 DEF AskAboutPorts, Ask
<1>6. ASSUME AskAboutDrives
      PROVE  topic \in {"health"}
  BY <1>6 DEF AskAboutDrives, Ask
<1>7. ASSUME AskAboutMachines
      PROVE  topic \in {"findings"}
  BY <1>7 DEF AskAboutMachines, Ask
<1>8. ASSUME AskAboutFirmware
      PROVE  topic \in {"firmware"}
  BY <1>8 DEF AskAboutFirmware, Ask
<1>9. ASSUME AskAboutFills
      PROVE  topic \in {"fill"}
  BY <1>9 DEF AskAboutFills, Ask
<1>10. ASSUME AskAboutInodes
      PROVE  topic \in {"fill"}
  BY <1>10 DEF AskAboutInodes, Ask
<1>11. ASSUME AskAboutExtents
      PROVE  topic \in {"extents"}
  BY <1>11 DEF AskAboutExtents, Ask
<1>12. ASSUME AskAboutMounts
      PROVE  topic \in {"mounts"}
  BY <1>12 DEF AskAboutMounts, Ask
<1>13. ASSUME AskAboutWalks
      PROVE  topic \in {"walk"}
  BY <1>13 DEF AskAboutWalks, Ask
<1>14. ASSUME AskAboutMountTables
      PROVE  topic \in {"mount table"}
  BY <1>14 DEF AskAboutMountTables, Ask
<1>15. ASSUME AskAboutUses
      PROVE  topic \in {"uses"}
  BY <1>15 DEF AskAboutUses, Ask
<1>16. ASSUME AskAboutPools
      PROVE  topic \in {"pools"}
  BY <1>16 DEF AskAboutPools, Ask
<1>17. ASSUME AskAboutMachinesBuilt
      PROVE  topic \in {"sas", "rates", "temperatures", "usb ends"}
  BY <1>17 DEF AskAboutMachinesBuilt, Ask
<1>18. ASSUME AskAboutPoolScans
      PROVE  topic \in {"pool scan"}
  BY <1>18 DEF AskAboutPoolScans, Ask
<1>19. ASSUME AskAQuestion
      PROVE  topic \in {"question"}
  BY <1>19 DEF AskAQuestion, Ask
<1>20. ASSUME AskAboutBitmaps
      PROVE  topic \in {"bitmap"}
  BY <1>20 DEF AskAboutBitmaps, Ask
<1>21. ASSUME AskAboutVolumes
      PROVE  topic \in {"volumes"}
  BY <1>21 DEF AskAboutVolumes, Ask
<1>22. ASSUME AskAboutReadingsTaken
      PROVE  topic \in {"stack", "ports", "drive", "capabilities"}
  BY <1>22 DEF AskAboutReadingsTaken, Ask
<1>23. ASSUME AskAboutUsbTrees
      PROVE  topic \in {"usb tree", "bos"}
  BY <1>23 DEF AskAboutUsbTrees, Ask
<1>24. ASSUME AskAboutWindowsReadings
      PROVE  topic \in {"interfaces", "disk"}
  BY <1>24 DEF AskAboutWindowsReadings, Ask
<1>25. ASSUME AskAboutWindowsUsb
      PROVE  topic \in {"hub ports", "port answers"}
  BY <1>25 DEF AskAboutWindowsUsb, Ask
<1>26. ASSUME AskAboutEnvironments
      PROVE  topic \in {"environment"}
  BY <1>26 DEF AskAboutEnvironments, Ask
<1>27. ASSUME AskAboutNames
      PROVE  topic \in {"list of devices", "device names"}
  BY <1>27 DEF AskAboutNames, Ask
<1>28. ASSUME AskAboutSnapshots
      PROVE  topic \in {"capture", "snapshot", "volumes listed", "free space"}
  BY <1>28 DEF AskAboutSnapshots, Ask
<1>29. ASSUME AskAboutConfiguration
      PROVE  topic \in {"layers", "overrides", "sections", "loads", "modes"}
  BY <1>29 DEF AskAboutConfiguration, Ask
<1> QED
  BY <1>1, <1>2, <1>3, <1>4, <1>5, <1>6, <1>7, <1>8, <1>9, <1>10, <1>11, <1>12, <1>13,
     <1>14, <1>15, <1>16, <1>17, <1>18, <1>19, <1>20, <1>21, <1>22, <1>23, <1>24,
     <1>25, <1>26, <1>27, <1>28, <1>29
  DEF Init, AskAboutLinks, AskAboutVerdicts, AskAboutStorage, AskAboutReadings, StartedByItsOwn

\* A question stays what it is while its input grows, and grows by its own steps only.
OfItsOwn ==
  /\ topic = "recordings" => AddSeries \/ AddRow \/ ReadDisk
  /\ topic = "tree" => AddNode
  /\ topic = "board" => SeatTheCard \/ AddPort
  /\ topic = "switch" => PlaceTheSwitch \/ FillAPort
  /\ topic = "swaps" => AddDrive
  /\ topic = "free ports" => AddController
  /\ topic = "shared drives" => AddEntry
  /\ topic = "findings" => ARuleFinds
  /\ topic = "extents" => AnExtentIsFree
  /\ topic = "mounts" => AMountIsListed
  /\ topic = "walk" => KernelAnswers \/ KernelStandsStill \/ KernelRefuses \/ FilesystemIsWritten
  /\ topic = "mount table" => Mount
  /\ topic = "uses" => AFilesystemIsMounted
  /\ topic = "sas" => APhyIsListed \/ ADriveIsFound
  /\ topic = "usb ends" => AHubIsAbove
  /\ topic = "pool scan" => ReadThePools \/ ReadTheFragmentation \/ ReadTheLayouts
       \/ APoolIsImported \/ APoolIsExported
  /\ topic = "question" => TheDeviceReplies
  /\ topic = "bitmap" => TheDriverAnswers \/ TheDriverFails \/ TheVolumeIsWritten
  /\ topic = "layers" => GiveALeaf
  /\ topic = "overrides" => GiveALeaf \/ GiveASet
  /\ topic = "stack" => TakeTheReading
  /\ topic = "ports" => TakeTheReading
  /\ topic = "drive" => TakeTheReading
  /\ topic = "capabilities" => TakeTheReading
  /\ topic = "usb tree" => AHubIsPlugged \/ AUsbDriveIsPlugged
  /\ topic = "interfaces" => ListInterfaces \/ OpenAnInterface \/ ADriveIsMoved
  /\ topic = "disk" => OpenTheDisk \/ AskTheDisk
  /\ topic = "hub ports" => ADeviceIsPlugged \/ ADriveIsOnADevice \/ StartWithTheDrives \/ RecordADevice
  /\ topic = "list of devices" => ALineIsRead
  /\ topic = "device names" => ADeviceIsFound
  /\ topic = "capture" => ChooseTheDestination \/ ReadTheMachine \/ ThePathIsLinked
       \/ WriteTheCapture \/ ReportTheCapture
  /\ topic = "free space" => AFreeExtentIsRead
  /\ topic \in {"recordings", "tree", "board", "switch", "swaps", "free ports", "shared drives",
       "findings", "extents", "mounts", "walk", "mount table", "uses", "sas", "usb ends",
       "pool scan", "question", "bitmap", "layers", "overrides", "stack", "ports", "drive",
       "capabilities", "usb tree", "interfaces", "disk", "hub ports", "list of devices",
       "device names", "capture", "free space"}

LEMMA EachGrowsItsOwnWay ==
  ASSUME Next
  PROVE  topic' = topic /\ OfItsOwn
<1>1. ASSUME AddSeries
      PROVE  topic' = topic /\ topic \in {"recordings"}
  BY <1>1 DEF AddSeries, Build, OnRecordings
<1>2. ASSUME AddRow
      PROVE  topic' = topic /\ topic \in {"recordings"}
  BY <1>2 DEF AddRow, Build, OnRecordings
<1>3. ASSUME ReadDisk
      PROVE  topic' = topic /\ topic \in {"recordings"}
  BY <1>3 DEF ReadDisk, Build, OnRecordings
<1>4. ASSUME AddNode
      PROVE  topic' = topic /\ topic \in {"tree"}
  BY <1>4 DEF AddNode, Build
<1>5. ASSUME SeatTheCard
      PROVE  topic' = topic /\ topic \in {"board"}
  BY <1>5 DEF SeatTheCard, Build
<1>6. ASSUME AddPort
      PROVE  topic' = topic /\ topic \in {"board"}
  BY <1>6 DEF AddPort, Build
<1>7. ASSUME PlaceTheSwitch
      PROVE  topic' = topic /\ topic \in {"switch"}
  BY <1>7 DEF PlaceTheSwitch, Build
<1>8. ASSUME FillAPort
      PROVE  topic' = topic /\ topic \in {"switch"}
  BY <1>8 DEF FillAPort, Build
<1>9. ASSUME AddDrive
      PROVE  topic' = topic /\ topic \in {"swaps"}
  BY <1>9 DEF AddDrive, Build
<1>10. ASSUME AddController
      PROVE  topic' = topic /\ topic \in {"free ports"}
  BY <1>10 DEF AddController, Build
<1>11. ASSUME AddEntry
      PROVE  topic' = topic /\ topic \in {"shared drives"}
  BY <1>11 DEF AddEntry, Build
<1>12. ASSUME ARuleFinds
      PROVE  topic' = topic /\ topic \in {"findings"}
  BY <1>12 DEF ARuleFinds, Build
<1>13. ASSUME AnExtentIsFree
      PROVE  topic' = topic /\ topic \in {"extents"}
  BY <1>13 DEF AnExtentIsFree, Build
<1>14. ASSUME AMountIsListed
      PROVE  topic' = topic /\ topic \in {"mounts"}
  BY <1>14 DEF AMountIsListed, Build
<1>15. ASSUME KernelAnswers
      PROVE  topic' = topic /\ topic \in {"walk"}
  BY <1>15 DEF KernelAnswers, Build, Walking
<1>16. ASSUME KernelStandsStill
      PROVE  topic' = topic /\ topic \in {"walk"}
  BY <1>16 DEF KernelStandsStill, Build, Walking
<1>17. ASSUME KernelRefuses
      PROVE  topic' = topic /\ topic \in {"walk"}
  BY <1>17 DEF KernelRefuses, Build, Walking
<1>18. ASSUME FilesystemIsWritten
      PROVE  topic' = topic /\ topic \in {"walk"}
  BY <1>18 DEF FilesystemIsWritten, Build, Walking
<1>19. ASSUME Mount
      PROVE  topic' = topic /\ topic \in {"mount table"}
  BY <1>19 DEF Mount, Build
<1>20. ASSUME AFilesystemIsMounted
      PROVE  topic' = topic /\ topic \in {"uses"}
  BY <1>20 DEF AFilesystemIsMounted, Build
<1>21. ASSUME APhyIsListed
      PROVE  topic' = topic /\ topic \in {"sas"}
  BY <1>21 DEF APhyIsListed, Build
<1>22. ASSUME ADriveIsFound
      PROVE  topic' = topic /\ topic \in {"sas"}
  BY <1>22 DEF ADriveIsFound, Build
<1>23. ASSUME AHubIsAbove
      PROVE  topic' = topic /\ topic \in {"usb ends"}
  BY <1>23 DEF AHubIsAbove, Build
<1>24. ASSUME ReadThePools
      PROVE  topic' = topic /\ topic \in {"pool scan"}
  BY <1>24 DEF ReadThePools, Build
<1>25. ASSUME ReadTheFragmentation
      PROVE  topic' = topic /\ topic \in {"pool scan"}
  BY <1>25 DEF ReadTheFragmentation, Build
<1>26. ASSUME ReadTheLayouts
      PROVE  topic' = topic /\ topic \in {"pool scan"}
  BY <1>26 DEF ReadTheLayouts, Build
<1>27. ASSUME APoolIsImported
      PROVE  topic' = topic /\ topic \in {"pool scan"}
  BY <1>27 DEF APoolIsImported, Build
<1>28. ASSUME APoolIsExported
      PROVE  topic' = topic /\ topic \in {"pool scan"}
  BY <1>28 DEF APoolIsExported, Build
<1>29. ASSUME TheDeviceReplies
      PROVE  topic' = topic /\ topic \in {"question"}
  BY <1>29 DEF TheDeviceReplies, Build
<1>30. ASSUME TheDriverAnswers
      PROVE  topic' = topic /\ topic \in {"bitmap"}
  BY <1>30 DEF TheDriverAnswers, Build
<1>31. ASSUME TheDriverFails
      PROVE  topic' = topic /\ topic \in {"bitmap"}
  BY <1>31 DEF TheDriverFails, Build
<1>32. ASSUME TheVolumeIsWritten
      PROVE  topic' = topic /\ topic \in {"bitmap"}
  BY <1>32 DEF TheVolumeIsWritten, Build
<1>33. ASSUME GiveALeaf
      PROVE  topic' = topic /\ topic \in {"layers", "overrides"}
  BY <1>33 DEF GiveALeaf, Build
<1>34. ASSUME GiveASet
      PROVE  topic' = topic /\ topic \in {"overrides"}
  BY <1>34 DEF GiveASet, Build
<1>35. ASSUME TakeTheReading
      PROVE  topic' = topic /\ topic \in {"stack", "ports", "drive", "capabilities"}
  BY <1>35 DEF TakeTheReading, Build, ReadADrive, ReadAStackedDevice, ADeviceIsStacked, ADeviceIsTakenDown, ADriveIsPulled, ReadAPort, ACardComesOrGoes, OpenTheDrive, SendACommand, TheDriveLeaves, FollowThePointer
<1>36. ASSUME AHubIsPlugged
      PROVE  topic' = topic /\ topic \in {"usb tree"}
  BY <1>36 DEF AHubIsPlugged, Build
<1>37. ASSUME AUsbDriveIsPlugged
      PROVE  topic' = topic /\ topic \in {"usb tree"}
  BY <1>37 DEF AUsbDriveIsPlugged, Build
<1>38. ASSUME ListInterfaces
      PROVE  topic' = topic /\ topic \in {"interfaces"}
  BY <1>38 DEF ListInterfaces, Build
<1>39. ASSUME OpenAnInterface
      PROVE  topic' = topic /\ topic \in {"interfaces"}
  BY <1>39 DEF OpenAnInterface, Build
<1>40. ASSUME ADriveIsMoved
      PROVE  topic' = topic /\ topic \in {"interfaces"}
  BY <1>40 DEF ADriveIsMoved, Build
<1>41. ASSUME OpenTheDisk
      PROVE  topic' = topic /\ topic \in {"disk"}
  BY <1>41 DEF OpenTheDisk, Build
<1>42. ASSUME AskTheDisk
      PROVE  topic' = topic /\ topic \in {"disk"}
  BY <1>42 DEF AskTheDisk, Build
<1>43. ASSUME ADeviceIsPlugged
      PROVE  topic' = topic /\ topic \in {"hub ports"}
  BY <1>43 DEF ADeviceIsPlugged, Build
<1>44. ASSUME ADriveIsOnADevice
      PROVE  topic' = topic /\ topic \in {"hub ports"}
  BY <1>44 DEF ADriveIsOnADevice, Build
<1>45. ASSUME StartWithTheDrives
      PROVE  topic' = topic /\ topic \in {"hub ports"}
  BY <1>45 DEF StartWithTheDrives, Build
<1>46. ASSUME RecordADevice
      PROVE  topic' = topic /\ topic \in {"hub ports"}
  BY <1>46 DEF RecordADevice, Build
<1>47. ASSUME ALineIsRead
      PROVE  topic' = topic /\ topic \in {"list of devices"}
  BY <1>47 DEF ALineIsRead, Build
<1>48. ASSUME ADeviceIsFound
      PROVE  topic' = topic /\ topic \in {"device names"}
  BY <1>48 DEF ADeviceIsFound, Build
<1>49. ASSUME ChooseTheDestination
      PROVE  topic' = topic /\ topic \in {"capture"}
  BY <1>49 DEF ChooseTheDestination, Build
<1>50. ASSUME ReadTheMachine
      PROVE  topic' = topic /\ topic \in {"capture"}
  BY <1>50 DEF ReadTheMachine, Build
<1>51. ASSUME ThePathIsLinked
      PROVE  topic' = topic /\ topic \in {"capture"}
  BY <1>51 DEF ThePathIsLinked, Build
<1>52. ASSUME WriteTheCapture
      PROVE  topic' = topic /\ topic \in {"capture"}
  BY <1>52 DEF WriteTheCapture, Build
<1>53. ASSUME ReportTheCapture
      PROVE  topic' = topic /\ topic \in {"capture"}
  BY <1>53 DEF ReportTheCapture, Build
<1>54. ASSUME AFreeExtentIsRead
      PROVE  topic' = topic /\ topic \in {"free space"}
  BY <1>54 DEF AFreeExtentIsRead, Build
<1>55. CASE \/ AddSeries \/ AddRow \/ ReadDisk \/ AddNode \/ SeatTheCard
            \/ AddPort \/ PlaceTheSwitch \/ FillAPort \/ AddDrive
  BY <1>55, <1>1, <1>2, <1>3, <1>4, <1>5, <1>6, <1>7, <1>8, <1>9 DEF OfItsOwn
<1>56. CASE \/ AddController \/ AddEntry \/ ARuleFinds \/ AnExtentIsFree \/ AMountIsListed
            \/ KernelAnswers \/ KernelStandsStill \/ KernelRefuses \/ FilesystemIsWritten
  BY <1>56, <1>10, <1>11, <1>12, <1>13, <1>14, <1>15, <1>16, <1>17, <1>18 DEF OfItsOwn
<1>57. CASE \/ Mount \/ AFilesystemIsMounted \/ APhyIsListed \/ ADriveIsFound \/ AHubIsAbove
            \/ ReadThePools \/ ReadTheFragmentation \/ ReadTheLayouts \/ APoolIsImported
  BY <1>57, <1>19, <1>20, <1>21, <1>22, <1>23, <1>24, <1>25, <1>26, <1>27 DEF OfItsOwn
<1>58. CASE \/ APoolIsExported \/ TheDeviceReplies \/ TheDriverAnswers \/ TheDriverFails \/ TheVolumeIsWritten
            \/ GiveALeaf \/ GiveASet \/ TakeTheReading \/ AHubIsPlugged
  BY <1>58, <1>28, <1>29, <1>30, <1>31, <1>32, <1>33, <1>34, <1>35, <1>36 DEF OfItsOwn
<1>59. CASE \/ AUsbDriveIsPlugged \/ ListInterfaces \/ OpenAnInterface \/ ADriveIsMoved \/ OpenTheDisk
            \/ AskTheDisk \/ ADeviceIsPlugged \/ ADriveIsOnADevice \/ StartWithTheDrives
  BY <1>59, <1>37, <1>38, <1>39, <1>40, <1>41, <1>42, <1>43, <1>44, <1>45 DEF OfItsOwn
<1>60. CASE \/ RecordADevice \/ ALineIsRead \/ ADeviceIsFound \/ ChooseTheDestination \/ ReadTheMachine
            \/ ThePathIsLinked \/ WriteTheCapture \/ ReportTheCapture \/ AFreeExtentIsRead
  BY <1>60, <1>46, <1>47, <1>48, <1>49, <1>50, <1>51, <1>52, <1>53, <1>54 DEF OfItsOwn
<1> QED
  BY <1>55, <1>56, <1>57, <1>58, <1>59, <1>60 DEF Next

-----------------------------------------------------------------------------
(* The theorems.                                                           *)

LEMMA RecordingStaysAsked ==
  ASSUME RecordingAsked, Next
  PROVE  RecordingAsked'
<1>1. topic' = topic /\ OfItsOwn
  BY EachGrowsItsOwnWay
<1>2. CASE topic = "recordings"
  <2>1. AddSeries \/ AddRow \/ ReadDisk
    BY <1>1, <1>2 DEF OfItsOwn
  <2> QED BY <1>2, <2>1, RecordingsGrow DEF RecordingAsked
<1>3. CASE topic # "recordings"
  BY <1>1, <1>3 DEF RecordingAsked
<1> QED BY <1>2, <1>3

\* A merge keeps every hour, no drive is passed over unnamed or taken for another, what is
\* declined held nothing new, and a reading is stored once: of any file, with any number of
\* copies and rows, and any number of drives.
THEOREM RecordingKeepsAll == Spec => []RecordingLosesNothing
<1>1. Init => RecordingAsked
  <2> SUFFICES ASSUME Init PROVE RecordingAsked
    OBVIOUS
  <2>1. StartedByItsOwn
    BY EachStartsItsOwnWay
  <2>2. topic = "recordings" => input = [stored |-> <<>>, disks |-> <<>>]
    BY <2>1 DEF StartedByItsOwn, AskAboutRecordings, Ask
  <2>3. topic = "recordings" => stored = <<>> /\ disks = <<>>
    BY <2>2 DEF stored, disks
  <2> QED BY <2>2, <2>3 DEF RecordingAsked
<1>2. RecordingAsked /\ [Next]_asked => RecordingAsked'
  <2>1. CASE Next
    BY <2>1, RecordingStaysAsked
  <2>2. CASE UNCHANGED asked
    BY <2>2 DEF RecordingAsked, asked, stored, disks
  <2> QED BY <2>1, <2>2
<1>3. RecordingAsked => RecordingLosesNothing
  BY NoHourIsLost, AllAccountedFor, SharedAreLeftAlone, DecliningLosesNothing, AgainIsOnce
  DEF RecordingLosesNothing
<1> QED
  BY <1>1, <1>2, <1>3, PTL DEF Spec

\* A drive that is asked about is one of those that are, and what a rule finds is graded.
VerdictsAsked ==
  /\ topic = "health" => input \in Drives
  /\ topic = "findings" => input \in Seq(SmallFindings)

LEMMA VerdictsStayAsked ==
  ASSUME VerdictsAsked, Next
  PROVE  VerdictsAsked'
<1>1. topic' = topic /\ OfItsOwn
  BY EachGrowsItsOwnWay
<1>2. ASSUME topic = "findings"
      PROVE  input' \in Seq(SmallFindings)
  <2>1. ARuleFinds
    BY <1>1, <1>2 DEF OfItsOwn
  <2>2. PICK s \in Urgencies, about \in Subjects, p \in BOOLEAN :
          input' = Append(input, [severity |-> s, subject |-> about, physical |-> p])
    BY <2>1 DEF ARuleFinds, Build
  <2>3. [severity |-> s, subject |-> about, physical |-> p] \in SmallFindings
    BY FindingsAreGraded DEF SmallFindings
  <2> QED BY <1>2, <2>2, <2>3 DEF VerdictsAsked
<1>3. topic # "health"
  BY <1>1 DEF OfItsOwn
<1> QED
  BY <1>1, <1>2, <1>3 DEF VerdictsAsked

\* A worse reading never calms a verdict, only a quiet history does, the first line alone
\* decides the exit code and unread firmware mixes no fleet, of any findings however many.
THEOREM VerdictsFollow == Spec => []VerdictsFollowTheReadings
<1>1. Init => VerdictsAsked
  <2> SUFFICES ASSUME Init PROVE VerdictsAsked
    OBVIOUS
  <2>1. StartedByItsOwn
    BY EachStartsItsOwnWay
  <2>2. topic = "health" => input \in Drives
    BY <2>1 DEF StartedByItsOwn, AskAboutDrives, Ask
  <2>3. topic = "findings" => input = <<>>
    BY <2>1 DEF StartedByItsOwn, AskAboutMachines, Ask
  <2>4. <<>> \in Seq(SmallFindings)
    OBVIOUS
  <2> QED BY <2>2, <2>3, <2>4 DEF VerdictsAsked
<1>2. VerdictsAsked /\ [Next]_asked => VerdictsAsked'
  <2>1. CASE Next
    BY <2>1, VerdictsStayAsked
  <2>2. CASE UNCHANGED asked
    BY <2>2 DEF VerdictsAsked, asked
  <2> QED BY <2>1, <2>2
<1>3. VerdictsAsked => VerdictsFollowTheReadings
  BY NoMilderWord, NothingIsHushed, FirstLineTells, UnreadIsNoRevision
  DEF VerdictsAsked, VerdictsFollowTheReadings
<1> QED
  BY <1>1, <1>2, <1>3, PTL DEF Spec

\* A board and a switch that are asked about hold what can be on them.
CardsAsked == BoardsAsked /\ SwitchAsked

LEMMA CardsStayAsked ==
  ASSUME CardsAsked, Next
  PROVE  CardsAsked'
<1>1. topic' = topic /\ OfItsOwn
  BY EachGrowsItsOwnWay
<1>2. BoardsAsked'
  <2>1. CASE topic = "board"
    <3>1. SeatTheCard \/ AddPort
      BY <1>1, <2>1 DEF OfItsOwn
    <3> QED BY <1>1, <2>1, <3>1, BoardsGrow DEF CardsAsked
  <2>2. CASE topic # "board"
    BY <1>1, <2>2 DEF BoardsAsked
  <2> QED BY <2>1, <2>2
<1>3. SwitchAsked'
  <2>1. CASE topic = "switch"
    <3>1. PlaceTheSwitch \/ FillAPort
      BY <1>1, <2>1 DEF OfItsOwn
    <3> QED BY <1>1, <2>1, <3>1, SwitchesGrow DEF CardsAsked
  <2>2. CASE topic # "switch"
    BY <1>1, <2>2 DEF SwitchAsked
  <2> QED BY <2>1, <2>2
<1> QED BY <1>2, <1>3 DEF CardsAsked

\* The port a card is pointed to is the best of the board, what it is told of the others is
\* so, blame and silence outlast what was not read, and no real bottleneck is excused: on a
\* board of any number of ports, with any cards, and a switch of any size.
THEOREM CardsAreTold == Spec => []CardsAreToldTheTruth
<1>1. Init => CardsAsked
  <2> SUFFICES ASSUME Init PROVE CardsAsked
    OBVIOUS
  <2>1. StartedByItsOwn
    BY EachStartsItsOwnWay
  <2>2. topic = "board" => input = NoFinding
    BY <2>1 DEF StartedByItsOwn, AskAboutBoards, Ask
  <2>3. topic = "switch" => input = <<>>
    BY <2>1 DEF StartedByItsOwn, AskAboutSwitches, Ask
  <2> QED BY <2>2, <2>3 DEF CardsAsked, BoardsAsked, SwitchAsked
<1>2. CardsAsked /\ [Next]_asked => CardsAsked'
  <2>1. CASE Next
    BY <2>1, CardsStayAsked
  <2>2. CASE UNCHANGED asked
    BY <2>2 DEF CardsAsked, BoardsAsked, SwitchAsked, asked, PortsKnown
  <2> QED BY <2>1, <2>2
<1>3. CardsAsked => CardsAreToldTheTruth
  BY AdviceIsTheBest, BlameOutlasts, CappedCardsAreTold, OnlyKnownNeedIsDismissed,
     RealBottlenecksStand, BuiltInPartsPass
  DEF CardsAsked, CardsAreToldTheTruth
<1> QED
  BY <1>1, <1>2, <1>3, PTL DEF Spec

LEMMA ConfigStaysAsked ==
  ASSUME ConfigAsked, Next
  PROVE  ConfigAsked'
<1>1. topic' = topic /\ OfItsOwn
  BY EachGrowsItsOwnWay
<1>2. topic \notin {"sections", "loads", "modes"}
  BY <1>1 DEF OfItsOwn
<1>3. CASE topic = "layers"
  <2>1. GiveALeaf /\ LayersAsked(input)
    BY <1>1, <1>3 DEF OfItsOwn, ConfigAsked
  <2>2. LayersAsked(input')
    BY <1>3, <2>1, LayersGrow
  <2> QED BY <1>1, <1>3, <2>2 DEF ConfigAsked
<1>4. CASE topic = "overrides"
  <2>1. GiveALeaf \/ GiveASet
    BY <1>1, <1>4 DEF OfItsOwn
  <2>2. SetsAsked(input') /\ input' = [config |-> input.config, sets |-> input.sets]'
    BY <1>4, <2>1, OverridesGrow
  <2> QED BY <1>1, <1>4, <2>2 DEF ConfigAsked
<1>5. CASE topic \notin {"layers", "overrides"}
  BY <1>1, <1>2, <1>5 DEF ConfigAsked
<1> QED BY <1>3, <1>4, <1>5

\* Layers taken apart and put together are in the order they were, what the command line
\* sets is in force, what is not used is said, and what cannot be mended stops a deployment:
\* of tables with any keys, however deep and however many, and any number of overrides.
THEOREM ConfigurationIsTold == Spec => []ConfigurationIsHonest
<1>1. Init => ConfigAsked
  <2> SUFFICES ASSUME Init PROVE ConfigAsked
    OBVIOUS
  <2>1. StartedByItsOwn
    BY EachStartsItsOwnWay
  <2>2. CASE topic \in {"layers", "overrides", "loads", "modes"}
    BY <2>1, <2>2, ConfigStarts DEF StartedByItsOwn
  <2>3. CASE topic \notin {"layers", "overrides", "loads", "modes"}
    BY <2>3 DEF ConfigAsked
  <2> QED BY <2>2, <2>3
<1>2. ConfigAsked /\ [Next]_asked => ConfigAsked'
  <2>1. CASE Next
    BY <2>1, ConfigStaysAsked
  <2>2. CASE UNCHANGED asked
    BY <2>2 DEF ConfigAsked, asked
  <2> QED BY <2>1, <2>2
<1>3. ConfigAsked => ConfigurationIsHonest
  BY ConfigIsHonest DEF ConfigurationIsHonest
<1> QED
  BY <1>1, <1>2, <1>3, PTL DEF Spec

LEMMA DrivesStayAsked ==
  ASSUME DrivesAsked, Next
  PROVE  DrivesAsked'
<1>1. topic' = topic /\ OfItsOwn
  BY EachGrowsItsOwnWay
<1>2. topic # "usb"
  BY <1>1 DEF OfItsOwn
<1>3. ASSUME topic = "swaps"
      PROVE  input' \in Seq(Entries)
  <2>1. AddDrive /\ input \in Seq(Entries)
    BY <1>1, <1>3 DEF OfItsOwn, DrivesAsked
  <2> QED BY <2>1, EntriesGrow
<1>4. ASSUME topic = "free ports"
      PROVE  input' \in Seq(Adapters)
  <2>1. AddController /\ input \in Seq(Adapters)
    BY <1>1, <1>4 DEF OfItsOwn, DrivesAsked
  <2> QED BY <2>1, AdaptersGrow
<1>5. ASSUME topic = "shared drives"
      PROVE  input' \in Seq(Sharers)
  <2>1. AddEntry /\ input \in Seq(Sharers)
    BY <1>1, <1>5 DEF OfItsOwn, DrivesAsked
  <2> QED BY <2>1, SharersGrow
<1> QED BY <1>1, <1>2, <1>3, <1>4, <1>5 DEF DrivesAsked

\* The drives told to change ports are those a walk of them would, none is promised to two,
\* a free port is the first there is, no slow link goes without a word and each drive pulls
\* once: on a machine of any number of drives and controllers, of any speeds.
THEOREM DrivesAreTold == Spec => []DrivesAreToldTheTruth
<1>1. Init => DrivesAsked
  <2> SUFFICES ASSUME Init PROVE DrivesAsked
    OBVIOUS
  <2>1. StartedByItsOwn
    BY EachStartsItsOwnWay
  <2>2. CASE topic \in {"swaps", "free ports", "shared drives", "usb"}
    BY <2>1, <2>2, DrivesStart DEF StartedByItsOwn
  <2>3. CASE topic \notin {"swaps", "free ports", "shared drives", "usb"}
    BY <2>3 DEF DrivesAsked
  <2> QED BY <2>2, <2>3
<1>2. DrivesAsked /\ [Next]_asked => DrivesAsked'
  <2>1. CASE Next
    BY <2>1, DrivesStayAsked
  <2>2. CASE UNCHANGED asked
    BY <2>2 DEF DrivesAsked, asked
  <2> QED BY <2>1, <2>2
<1>3. DrivesAsked => DrivesAreToldTheTruth
  BY SwapsAreThose, FirstOfFree, SlowAreSpokenOf, DrivesPullOnce DEF DrivesAsked, DrivesAreToldTheTruth
<1> QED
  BY <1>1, <1>2, <1>3, PTL DEF Spec
=============================================================================
