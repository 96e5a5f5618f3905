-------------------------- MODULE AtomicFileProofs --------------------------
(***************************************************************************)
(* Theorems about AtomicFile, for any number of writers and any amount of  *)
(* meddling.  Each part of the inductive invariant has a lemma that says   *)
(* a step keeps it.                                                        *)
(***************************************************************************)
EXTENDS AtomicFile, TLAPS

\* Only a body that was forced out is renamed.
OnlySyncedIsRenamed == \A w \in Writers : pc[w] = "rename" => temp[w] = "synced"

\* As long as nobody wrote in place, every file a power loss may leave is whole
\* and was forced out.
DurableIsWhole ==
  placed = {} => \A e \in durable : e.kind = "file" => e.synced /\ e.body # Torn

\* A descriptor is held, and a temporary exists, only on the way, but for one that
\* could not be removed.
HeldOnTheWay ==
  \A w \in Writers :
    /\ w \in open => pc[w] \in {"write", "reached", "into"}
    /\ temp[w] # "none" => pc[w] \in {"write", "rename", "unlink", "failed", "gone"}
    /\ temp[w] \notin {"none", "stuck"} => pc[w] \in {"write", "rename", "unlink", "gone"}

\* Only the writers that may write in place come near it.
OnlyThoseWhoMay ==
  \A w \in Writers : pc[w] \in {"place", "opening"} => w \in InPlace

\* Whoever replaced the entry has ended, and well.
ReplacedIsDone == \A w \in by : pc[w] \in {"done", "gone"}

\* A body that may be found at the path is that of a write that ended well.
BodiesAreOfTheDone ==
  \A e \in durable : e.kind = "file" /\ e.body \in Writers => pc[e.body] \in {"done", "gone"}

\* With nothing renamed, placed or meddled with, what may be found is what was there,
\* and a file that was there had reached the disk.
UntouchedIsAsItWas ==
  by = {} /\ placed = {} /\ meddled = 0 =>
    /\ durable = {first.entry} /\ entry = first.entry
    /\ first.entry.kind = "file" => first.entry.synced

\* Where the kernel can refuse a link, nobody writes into a file behind one.
NobodyBehindTheLink ==
  noFollow => /\ ~victim
              /\ \A w \in Writers : /\ pc[w] # "opening"
                                    /\ pc[w] = "into" => reached[w] # "file"

\* At a stream nobody is on the way to a rename.
StreamStays ==
  first.entry = Stream =>
    /\ entry = Stream /\ durable = {Stream}
    /\ \A w \in Writers :
         /\ pc[w] \in {"look", "place", "opening", "into", "done", "failed", "gone"}
         /\ pc[w] = "into" => reached[w] = "stream"

\* Nor at a link to one that nobody turned.
LinkStays ==
  first.entry = Link /\ first.target = "stream" /\ meddled = 0 =>
    /\ entry = Link /\ target = "stream" /\ durable = {Link}
    /\ \A w \in Writers :
         /\ pc[w] \in {"look", "behind", "follow", "reached", "into", "done", "failed", "gone"}
         /\ pc[w] \in {"reached", "into"} => reached[w] = "stream"

IInv ==
  /\ TypeOK /\ OnlyThoseWhoMay /\ OnlySyncedIsRenamed /\ DurableIsWhole /\ HeldOnTheWay
  /\ ReplacedIsDone /\ BodiesAreOfTheDone /\ UntouchedIsAsItWas
  /\ NobodyBehindTheLink /\ StreamStays /\ LinkStays

-----------------------------------------------------------------------------
(* The entries are told apart by their kind.                               *)

\* An entry with the kind of a constant one is that constant; a file has a body.
LEMMA EntriesAreKinds ==
  ASSUME NEW e \in Entries
  PROVE  /\ e.kind \in {"absent", "stream", "other", "link", "file"}
         /\ e.kind = "absent" => e = Absent
         /\ e.kind = "stream" => e = Stream
         /\ e.kind = "other" => e = Other
         /\ e.kind = "link" => e = Link
         /\ e.kind = "file" => e = File(e.body, e.synced) /\ e.body \in Bodies /\ e.synced \in BOOLEAN
  BY DEF Entries, Absent, Stream, Other, Link, File

\* The constant entries are entries.
LEMMA ConstantEntries ==
  /\ Absent \in Entries /\ Absent.kind = "absent"
  /\ Stream \in Entries /\ Stream.kind = "stream"
  /\ Other \in Entries /\ Other.kind = "other"
  /\ Link \in Entries /\ Link.kind = "link"
  BY DEF Entries, Absent, Stream, Other, Link

\* A file of a known body is an entry.
LEMMA FilesAreEntries ==
  ASSUME NEW b \in Bodies, NEW s \in BOOLEAN
  PROVE  /\ File(b, s) \in Entries /\ File(b, s).kind = "file"
         /\ File(b, s).body = b /\ File(b, s).synced = s
  BY DEF Entries, File

\* What a power loss leaves of an entry is an entry, of the same kind, and the
\* very entry unless it is a file that was not forced out.
LEMMA LossLeavesAnEntry ==
  ASSUME NEW e \in Entries, NEW f \in AfterLoss(e)
  PROVE  /\ f \in Entries
         /\ f.kind = e.kind
         /\ f # e => e.kind = "file" /\ ~e.synced
<1>1. CASE e.kind = "file" /\ ~e.synced
  <2>1. Torn \in Bodies
    BY DEF Bodies
  <2>2. File(Torn, FALSE) \in Entries /\ File(Torn, FALSE).kind = "file"
    BY <2>1, FilesAreEntries
  <2> QED
    BY <1>1, <2>2 DEF AfterLoss
<1>2. CASE ~(e.kind = "file" /\ ~e.synced)
  BY <1>2 DEF AfterLoss
<1> QED
  BY <1>1, <1>2

-----------------------------------------------------------------------------
(* Each step keeps each part.                                              *)

\* Every variable keeps its type.
LEMMA NextTyped ==
  ASSUME TypeOK, OnlyThoseWhoMay, [Next]_vars
  PROVE  TypeOK'
<1> USE DEF At, Goto, SetTemp, path, past, TypeOK, Labels
<1>1. ASSUME NEW w \in Writers,
           \/ LookBehindTheLink(w) \/ MakeTemporary(w) \/ WriteThrough(w)
           \/ FailToWrite(w) \/ FailToRename(w) \/ Unlink(w)
           \/ CheckWhatWasReached(w) \/ CheckForLink(w) \/ CannotOpen(w)
           \/ FailInto(w) \/ Kill(w)
     PROVE  TypeOK'
  BY <1>1 DEF LookBehindTheLink, MakeTemporary, WriteThrough, FailToWrite,
     FailToRename, Unlink, CheckWhatWasReached, CheckForLink, CannotOpen,
     FailInto, Kill, MayOpen
<1>2. ASSUME NEW w \in Writers,
           Rename(w)
     PROVE  TypeOK'
  <2>1. w \in Bodies /\ (temp[w] = "synced") \in BOOLEAN
    BY DEF Bodies
  <2>2. File(w, temp[w] = "synced") \in Entries
    BY <2>1, FilesAreEntries
  <2> QED
    BY <1>2, <2>2 DEF Rename, SetEntry
<1>3. ASSUME NEW w \in Writers,
           OpenInPlace(w)
     PROVE  TypeOK'
  <2>1. Torn \in Bodies /\ FALSE \in BOOLEAN
    BY DEF Bodies
  <2>2. File(Torn, FALSE) \in Entries
    BY <2>1, FilesAreEntries
  <2>3. w \in InPlace
    BY <1>3 DEF OpenInPlace, MayOpen, OnlyThoseWhoMay
  <2>4. /\ pc' \in [Writers -> Labels] /\ open' \subseteq Writers
        /\ reached' \in [Writers -> Targets \cup {"entry"}]
    BY <1>3 DEF OpenInPlace, Opened, Targets
  <2>5. /\ entry' \in Entries /\ durable' \subseteq Entries /\ entry' \in durable'
        /\ placed' \subseteq InPlace
    BY <1>3, <2>2, <2>3 DEF OpenInPlace, SetEntry
  <2>6. target' \in Targets /\ victim' \in BOOLEAN
    BY <1>3 DEF OpenInPlace, Targets
  <2> QED
    BY <1>3, <2>4, <2>5, <2>6 DEF OpenInPlace
<1>4. ASSUME NEW w \in Writers,
           WriteInto(w)
     PROVE  TypeOK'
  <2>1. \A body \in {w, Torn} : File(body, FALSE) \in Entries
    BY FilesAreEntries DEF Bodies
  <2>2. \/ UNCHANGED <<entry, durable>>
        \/ \E body \in {w, Torn} : SetEntry(File(body, FALSE))
    BY <1>4 DEF WriteInto
  <2>3. entry' \in Entries /\ durable' \subseteq Entries /\ entry' \in durable'
    <3>1. CASE UNCHANGED <<entry, durable>>
      BY <3>1
    <3>2. CASE \E body \in {w, Torn} : SetEntry(File(body, FALSE))
      BY <2>1, <3>2 DEF SetEntry
    <3> QED
      BY <2>2, <3>1, <3>2
  <2>4. /\ pc' \in [Writers -> Labels] /\ open' \subseteq Writers
        /\ received' \subseteq Writers /\ victim' \in BOOLEAN
    BY <1>4 DEF WriteInto
  <2> QED
    BY <1>4, <2>3, <2>4 DEF WriteInto
<1>5. ASSUME NEW w \in Writers,
           Look(w)
     PROVE  TypeOK'
  BY <1>5, EntriesAreKinds DEF Look
<1>6. ASSUME NEW w \in Writers,
           NoTemporary(w)
     PROVE  TypeOK'
  BY <1>6 DEF NoTemporary
<1>7. ASSUME NEW w \in Writers,
           OpenTheLink(w)
     PROVE  TypeOK'
  BY <1>7, EntriesAreKinds DEF OpenTheLink, Targets
<1>8. CASE Retarget
  BY <1>8, MeddlingIsNat DEF Retarget, Meddle
<1>9. CASE PlantLink
  BY <1>9, ConstantEntries, MeddlingIsNat DEF PlantLink, SetEntry, Meddle
<1>10. CASE DirectoryReachesDisk
  BY <1>10 DEF DirectoryReachesDisk
<1>11. CASE PowerLoss
  BY <1>11, LossLeavesAnEntry DEF PowerLoss
<1>12. CASE UNCHANGED vars
  BY <1>12 DEF vars
<1> QED
  BY <1>1, <1>2, <1>3, <1>4, <1>5, <1>6, <1>7, <1>8, <1>9, <1>10, <1>11, <1>12 DEF
     Next, Write, Surroundings

\* Whoever gave no alternative is refused where a write in place would come.
LEMMA NextMay ==
  ASSUME TypeOK, OnlyThoseWhoMay, [Next]_vars
  PROVE  OnlyThoseWhoMay'
<1> USE DEF At, Goto, SetTemp, path, past, TypeOK, OnlyThoseWhoMay
<1>1. ASSUME NEW w \in Writers,
           \/ LookBehindTheLink(w) \/ MakeTemporary(w) \/ WriteThrough(w)
           \/ FailToWrite(w) \/ Rename(w) \/ FailToRename(w) \/ Unlink(w)
           \/ OpenTheLink(w) \/ CheckWhatWasReached(w) \/ CheckForLink(w)
           \/ CannotOpen(w) \/ WriteInto(w) \/ FailInto(w) \/ Kill(w)
     PROVE  OnlyThoseWhoMay'
  BY <1>1 DEF LookBehindTheLink, MakeTemporary, WriteThrough, FailToWrite, Rename,
     FailToRename, Unlink, OpenTheLink, CheckWhatWasReached, CheckForLink,
     CannotOpen, WriteInto, FailInto, Kill, MayOpen
<1>2. ASSUME NEW w \in Writers,
           Look(w)
     PROVE  OnlyThoseWhoMay'
  BY <1>2 DEF Look
<1>3. ASSUME NEW w \in Writers,
           NoTemporary(w)
     PROVE  OnlyThoseWhoMay'
  BY <1>3 DEF NoTemporary
<1>4. ASSUME NEW w \in Writers,
           OpenInPlace(w)
     PROVE  OnlyThoseWhoMay'
  BY <1>4 DEF OpenInPlace, MayOpen, Opened
<1>5. CASE Retarget
  BY <1>5 DEF Retarget, Meddle
<1>6. CASE PlantLink
  BY <1>6 DEF PlantLink, Meddle
<1>7. CASE DirectoryReachesDisk
  BY <1>7 DEF DirectoryReachesDisk
<1>8. CASE PowerLoss
  BY <1>8 DEF PowerLoss
<1>9. CASE UNCHANGED vars
  BY <1>9 DEF vars
<1> QED
  BY <1>1, <1>2, <1>3, <1>4, <1>5, <1>6, <1>7, <1>8, <1>9 DEF Next, Write,
     Surroundings

\* The step to the rename forces the body out.
LEMMA NextSynced ==
  ASSUME TypeOK, OnlySyncedIsRenamed, [Next]_vars
  PROVE  OnlySyncedIsRenamed'
<1> USE DEF At, Goto, SetTemp, path, past, TypeOK, OnlySyncedIsRenamed
<1>1. ASSUME NEW w \in Writers,
           \/ Look(w) \/ LookBehindTheLink(w) \/ MakeTemporary(w)
           \/ NoTemporary(w) \/ WriteThrough(w) \/ FailToWrite(w)
           \/ Rename(w) \/ FailToRename(w) \/ Unlink(w) \/ OpenTheLink(w)
           \/ CheckWhatWasReached(w) \/ CheckForLink(w) \/ CannotOpen(w)
           \/ WriteInto(w) \/ FailInto(w) \/ Kill(w)
     PROVE  OnlySyncedIsRenamed'
  BY <1>1 DEF Look, LookBehindTheLink, MakeTemporary, NoTemporary, WriteThrough,
     FailToWrite, Rename, FailToRename, Unlink, OpenTheLink,
     CheckWhatWasReached, CheckForLink, CannotOpen, WriteInto, FailInto,
     Kill, MayOpen
<1>2. ASSUME NEW w \in Writers,
           OpenInPlace(w)
     PROVE  OnlySyncedIsRenamed'
  BY <1>2 DEF OpenInPlace, MayOpen, Opened
<1>3. CASE Retarget
  BY <1>3 DEF Retarget, Meddle
<1>4. CASE PlantLink
  BY <1>4 DEF PlantLink, Meddle
<1>5. CASE DirectoryReachesDisk
  BY <1>5 DEF DirectoryReachesDisk
<1>6. CASE PowerLoss
  BY <1>6 DEF PowerLoss
<1>7. CASE UNCHANGED vars
  BY <1>7 DEF vars
<1> QED
  BY <1>1, <1>2, <1>3, <1>4, <1>5, <1>6, <1>7 DEF Next, Write, Surroundings

\* A rename adds a whole file that was forced out; a loss takes nothing from one.
LEMMA NextWhole ==
  ASSUME TypeOK, OnlySyncedIsRenamed, DurableIsWhole, [Next]_vars
  PROVE  DurableIsWhole'
<1> USE DEF At, Goto, SetTemp, path, past, TypeOK, DurableIsWhole, OnlySyncedIsRenamed
<1>1. ASSUME NEW w \in Writers,
           \/ Look(w) \/ LookBehindTheLink(w) \/ MakeTemporary(w)
           \/ NoTemporary(w) \/ WriteThrough(w) \/ FailToWrite(w)
           \/ FailToRename(w) \/ Unlink(w) \/ OpenTheLink(w)
           \/ CheckWhatWasReached(w) \/ CheckForLink(w) \/ CannotOpen(w)
           \/ FailInto(w) \/ Kill(w)
     PROVE  DurableIsWhole'
  BY <1>1 DEF Look, LookBehindTheLink, MakeTemporary, NoTemporary, WriteThrough,
     FailToWrite, FailToRename, Unlink, OpenTheLink, CheckWhatWasReached,
     CheckForLink, CannotOpen, FailInto, Kill, MayOpen
<1>2. ASSUME NEW w \in Writers,
           Rename(w)
     PROVE  DurableIsWhole'
  <2>1. w \in Bodies /\ w # Torn /\ TRUE \in BOOLEAN
    BY BodiesAreApart DEF Bodies
  <2>2. (temp[w] = "synced") = TRUE
    BY <1>2 DEF Rename
  <2>3. File(w, TRUE).synced /\ File(w, TRUE).body # Torn
    BY <2>1, FilesAreEntries
  <2>4. durable' = durable \cup {File(w, TRUE)} /\ placed' = placed
    BY <1>2, <2>2 DEF Rename, SetEntry
  <2> QED
    BY <2>3, <2>4
<1>3. ASSUME NEW w \in Writers,
           OpenInPlace(w)
     PROVE  DurableIsWhole'
  BY <1>3 DEF OpenInPlace, SetEntry, MayOpen, Opened
<1>4. ASSUME NEW w \in Writers,
           WriteInto(w)
     PROVE  DurableIsWhole'
  BY <1>4 DEF WriteInto, SetEntry
<1>5. CASE Retarget
  BY <1>5 DEF Retarget, Meddle
<1>6. CASE PlantLink
  BY <1>6, ConstantEntries DEF PlantLink, SetEntry, Meddle
<1>7. CASE DirectoryReachesDisk
  BY <1>7 DEF DirectoryReachesDisk
<1>8. CASE PowerLoss
  BY <1>8, LossLeavesAnEntry DEF PowerLoss
<1>9. CASE UNCHANGED vars
  BY <1>9 DEF vars
<1> QED
  BY <1>1, <1>2, <1>3, <1>4, <1>5, <1>6, <1>7, <1>8, <1>9 DEF Next, Write,
     Surroundings

\* Whoever ends has closed and removed what was its own.
LEMMA NextHeld ==
  ASSUME TypeOK, HeldOnTheWay, [Next]_vars
  PROVE  HeldOnTheWay'
<1> USE DEF At, Goto, SetTemp, path, past, TypeOK, HeldOnTheWay
<1>1. ASSUME NEW w \in Writers,
           \/ FailToWrite(w) \/ FailToRename(w) \/ CheckForLink(w)
           \/ CannotOpen(w) \/ FailInto(w)
     PROVE  HeldOnTheWay'
  BY <1>1 DEF FailToWrite, FailToRename, CheckForLink, CannotOpen, FailInto, MayOpen
<1>2. ASSUME NEW w \in Writers,
           OpenInPlace(w)
     PROVE  HeldOnTheWay'
  <2>1. /\ pc[w] \in {"place", "opening"} /\ temp' = temp
        /\ open' = open \cup {w} /\ pc' = [pc EXCEPT ![w] = "into"]
    BY <1>2 DEF OpenInPlace, MayOpen, Opened
  <2>2. temp[w] = "none"
    BY <2>1
  <2> QED
    BY <2>1, <2>2
<1>3. ASSUME NEW w \in Writers,
           \/ OpenTheLink(w) \/ CheckWhatWasReached(w)
     PROVE  HeldOnTheWay'
  BY <1>3 DEF OpenTheLink, CheckWhatWasReached
<1>4. ASSUME NEW w \in Writers,
           \/ Look(w) \/ LookBehindTheLink(w) \/ NoTemporary(w)
     PROVE  HeldOnTheWay'
  BY <1>4 DEF Look, LookBehindTheLink, NoTemporary
<1>5. ASSUME NEW w \in Writers,
           \/ MakeTemporary(w) \/ WriteThrough(w)
     PROVE  HeldOnTheWay'
  BY <1>5 DEF MakeTemporary, WriteThrough
<1>6. ASSUME NEW w \in Writers,
           Rename(w)
     PROVE  HeldOnTheWay'
  BY <1>6 DEF Rename
<1>7. ASSUME NEW w \in Writers,
           Unlink(w)
     PROVE  HeldOnTheWay'
  <2>1. /\ pc[w] = "unlink" /\ open' = open /\ pc' = [pc EXCEPT ![w] = "failed"]
        /\ \/ temp' = [temp EXCEPT ![w] = "none"]
           \/ temp' = [temp EXCEPT ![w] = "stuck"]
    BY <1>7 DEF Unlink
  <2> QED
    BY <2>1
<1>8. ASSUME NEW w \in Writers,
           Kill(w)
     PROVE  HeldOnTheWay'
  BY <1>8 DEF Kill, Ended
<1>9. ASSUME NEW w \in Writers,
           WriteInto(w)
     PROVE  HeldOnTheWay'
  BY <1>9 DEF WriteInto
<1>10. CASE Retarget
  BY <1>10 DEF Retarget, Meddle
<1>11. CASE PlantLink
  BY <1>11 DEF PlantLink, Meddle
<1>12. CASE DirectoryReachesDisk
  BY <1>12 DEF DirectoryReachesDisk
<1>13. CASE PowerLoss
  BY <1>13 DEF PowerLoss
<1>14. CASE UNCHANGED vars
  BY <1>14 DEF vars
<1> QED
  BY <1>1, <1>2, <1>3, <1>4, <1>5, <1>6, <1>7, <1>8, <1>9, <1>10, <1>11, <1>12,
     <1>13, <1>14 DEF Next, Write, Surroundings

\* Nothing can fail after the rename.
LEMMA NextReplaced ==
  ASSUME TypeOK, ReplacedIsDone, [Next]_vars
  PROVE  ReplacedIsDone'
<1> USE DEF At, Goto, SetTemp, path, past, TypeOK, ReplacedIsDone
<1>1. ASSUME NEW w \in Writers,
           \/ MakeTemporary(w) \/ WriteThrough(w) \/ FailToWrite(w)
           \/ FailToRename(w) \/ Unlink(w) \/ CheckForLink(w)
           \/ CannotOpen(w) \/ FailInto(w)
     PROVE  ReplacedIsDone'
  BY <1>1 DEF MakeTemporary, WriteThrough, FailToWrite, FailToRename, Unlink,
     CheckForLink, CannotOpen, FailInto, MayOpen
<1>2. ASSUME NEW w \in Writers,
           OpenInPlace(w)
     PROVE  ReplacedIsDone'
  BY <1>2 DEF OpenInPlace, MayOpen, Opened
<1>3. ASSUME NEW w \in Writers,
           Kill(w)
     PROVE  ReplacedIsDone'
  BY <1>3 DEF Kill, Ended
<1>4. ASSUME NEW w \in Writers,
           Rename(w)
     PROVE  ReplacedIsDone'
  BY <1>4 DEF Rename
<1>5. ASSUME NEW w \in Writers,
           \/ Look(w) \/ LookBehindTheLink(w) \/ NoTemporary(w)
     PROVE  ReplacedIsDone'
  BY <1>5 DEF Look, LookBehindTheLink, NoTemporary
<1>6. ASSUME NEW w \in Writers,
           \/ OpenTheLink(w) \/ CheckWhatWasReached(w)
     PROVE  ReplacedIsDone'
  BY <1>6 DEF OpenTheLink, CheckWhatWasReached
<1>7. ASSUME NEW w \in Writers,
           WriteInto(w)
     PROVE  ReplacedIsDone'
  BY <1>7 DEF WriteInto
<1>8. CASE Retarget
  BY <1>8 DEF Retarget, Meddle
<1>9. CASE PlantLink
  BY <1>9 DEF PlantLink, Meddle
<1>10. CASE DirectoryReachesDisk
  BY <1>10 DEF DirectoryReachesDisk
<1>11. CASE PowerLoss
  BY <1>11 DEF PowerLoss
<1>12. CASE UNCHANGED vars
  BY <1>12 DEF vars
<1> QED
  BY <1>1, <1>2, <1>3, <1>4, <1>5, <1>6, <1>7, <1>8, <1>9, <1>10, <1>11, <1>12 DEF
     Next, Write, Surroundings

\* A body reaches the path only as its write ends well, and no write goes back.
LEMMA NextDone ==
  ASSUME TypeOK, BodiesAreOfTheDone, [Next]_vars
  PROVE  BodiesAreOfTheDone'
<1> USE DEF At, Goto, SetTemp, path, past, TypeOK, BodiesAreOfTheDone
<1>1. ASSUME NEW w \in Writers,
           \/ MakeTemporary(w) \/ WriteThrough(w) \/ FailToWrite(w)
           \/ FailToRename(w) \/ Unlink(w) \/ CheckForLink(w)
           \/ CannotOpen(w) \/ FailInto(w)
     PROVE  BodiesAreOfTheDone'
  BY <1>1 DEF MakeTemporary, WriteThrough, FailToWrite, FailToRename, Unlink,
     CheckForLink, CannotOpen, FailInto, MayOpen
<1>2. ASSUME NEW w \in Writers,
           \/ Look(w) \/ LookBehindTheLink(w) \/ NoTemporary(w)
           \/ OpenTheLink(w) \/ CheckWhatWasReached(w)
     PROVE  BodiesAreOfTheDone'
  BY <1>2 DEF Look, LookBehindTheLink, NoTemporary, OpenTheLink, CheckWhatWasReached
<1>3. ASSUME NEW w \in Writers,
           Kill(w)
     PROVE  BodiesAreOfTheDone'
  BY <1>3 DEF Kill, Ended
<1>4. ASSUME NEW w \in Writers,
           Rename(w)
     PROVE  BodiesAreOfTheDone'
  <2>1. w \in Bodies /\ (temp[w] = "synced") \in BOOLEAN
    BY DEF Bodies
  <2>2. File(w, temp[w] = "synced").body = w
    BY <2>1, FilesAreEntries
  <2>3. /\ durable' = durable \cup {File(w, temp[w] = "synced")}
        /\ pc' = [pc EXCEPT ![w] = "done"] /\ pc[w] = "rename"
    BY <1>4 DEF Rename, SetEntry
  <2> SUFFICES ASSUME NEW e \in durable', e.kind = "file", e.body \in Writers
               PROVE  pc'[e.body] \in {"done", "gone"}
    OBVIOUS
  <2>4. CASE e \in durable
    BY <2>3, <2>4
  <2>5. CASE e = File(w, temp[w] = "synced")
    <3>1. e.body = w
      BY <2>2, <2>5
    <3> QED
      BY <2>3, <3>1
  <2> QED
    BY <2>3, <2>4, <2>5
<1>5. ASSUME NEW w \in Writers,
           OpenInPlace(w)
     PROVE  BodiesAreOfTheDone'
  <2>1. Torn \in Bodies /\ Torn \notin Writers
    BY BodiesAreApart DEF Bodies
  <2>2. File(Torn, FALSE).body = Torn
    BY <2>1, FilesAreEntries
  <2>3. /\ durable' \subseteq durable \cup {File(Torn, FALSE)}
        /\ pc' = [pc EXCEPT ![w] = "into"] /\ pc[w] \in {"place", "opening"}
    BY <1>5 DEF OpenInPlace, MayOpen, Opened, SetEntry
  <2> SUFFICES ASSUME NEW e \in durable', e.kind = "file", e.body \in Writers
               PROVE  pc'[e.body] \in {"done", "gone"}
    OBVIOUS
  <2>4. e \in durable
    BY <2>1, <2>2, <2>3
  <2>5. pc[e.body] \in {"done", "gone"}
    BY <2>4
  <2> QED
    BY <2>3, <2>5
<1>6. ASSUME NEW w \in Writers,
           WriteInto(w)
     PROVE  BodiesAreOfTheDone'
  <2>1. /\ w \in Bodies /\ Torn \in Bodies /\ Torn \notin Writers
    BY BodiesAreApart DEF Bodies
  <2>2. File(w, FALSE).body = w /\ File(Torn, FALSE).body = Torn
    BY <2>1, FilesAreEntries
  <2>3. /\ durable' \subseteq durable \cup {File(w, FALSE), File(Torn, FALSE)}
        /\ pc' = [pc EXCEPT ![w] = "done"] /\ pc[w] = "into"
    BY <1>6 DEF WriteInto, SetEntry
  <2> SUFFICES ASSUME NEW e \in durable', e.kind = "file", e.body \in Writers
               PROVE  pc'[e.body] \in {"done", "gone"}
    OBVIOUS
  <2>4. CASE e \in durable
    BY <2>3, <2>4
  <2>5. CASE e \in {File(w, FALSE), File(Torn, FALSE)}
    <3>1. e.body = w
      BY <2>1, <2>2, <2>5
    <3> QED
      BY <2>3, <3>1
  <2> QED
    BY <2>3, <2>4, <2>5
<1>7. CASE Retarget
  BY <1>7 DEF Retarget, Meddle
<1>8. CASE PlantLink
  BY <1>8, ConstantEntries DEF PlantLink, Meddle, SetEntry
<1>9. CASE DirectoryReachesDisk
  BY <1>9 DEF DirectoryReachesDisk
<1>10. CASE PowerLoss
  BY <1>10 DEF PowerLoss
<1>11. CASE UNCHANGED vars
  BY <1>11 DEF vars
<1> QED
  BY <1>1, <1>2, <1>3, <1>4, <1>5, <1>6, <1>7, <1>8, <1>9, <1>10, <1>11 DEF
     Next, Write, Surroundings

\* Without a rename, a write in place or meddling nothing at the path changes.
LEMMA NextUntouched ==
  ASSUME TypeOK, DurableIsWhole, UntouchedIsAsItWas, [Next]_vars
  PROVE  UntouchedIsAsItWas'
<1> USE DEF At, Goto, SetTemp, path, past, TypeOK, UntouchedIsAsItWas
<1>1. ASSUME NEW w \in Writers,
           \/ Look(w) \/ LookBehindTheLink(w) \/ MakeTemporary(w)
           \/ NoTemporary(w) \/ WriteThrough(w) \/ FailToWrite(w)
           \/ FailToRename(w) \/ Unlink(w) \/ OpenTheLink(w)
           \/ CheckWhatWasReached(w) \/ CheckForLink(w) \/ CannotOpen(w)
           \/ FailInto(w) \/ Kill(w)
     PROVE  UntouchedIsAsItWas'
  BY <1>1 DEF Look, LookBehindTheLink, MakeTemporary, NoTemporary, WriteThrough,
     FailToWrite, FailToRename, Unlink, OpenTheLink, CheckWhatWasReached,
     CheckForLink, CannotOpen, FailInto, Kill, MayOpen
<1>2. ASSUME NEW w \in Writers,
           Rename(w)
     PROVE  UntouchedIsAsItWas'
  BY <1>2 DEF Rename
<1>3. ASSUME NEW w \in Writers,
           OpenInPlace(w)
     PROVE  UntouchedIsAsItWas'
  <2>1. \/ UNCHANGED <<entry, durable, placed>>
        \/ placed' = placed \cup {w}
    BY <1>3 DEF OpenInPlace
  <2>2. UNCHANGED <<by, first, meddled>>
    BY <1>3 DEF OpenInPlace
  <2> QED
    BY <2>1, <2>2
<1>4. ASSUME NEW w \in Writers,
           WriteInto(w)
     PROVE  UntouchedIsAsItWas'
  <2>1. UNCHANGED <<by, placed, first, meddled>>
    BY <1>4 DEF WriteInto
  <2>2. placed = {} /\ entry.kind = "file" => entry.body \notin placed \cup {Torn}
    BY DEF DurableIsWhole
  <2>3. placed = {} => UNCHANGED <<entry, durable>>
    BY <1>4, <2>2 DEF WriteInto
  <2> QED
    BY <2>1, <2>3
<1>5. CASE Retarget
  BY <1>5, MeddlingIsNat DEF Retarget, Meddle
<1>6. CASE PlantLink
  BY <1>6, MeddlingIsNat DEF PlantLink, Meddle
<1>7. CASE DirectoryReachesDisk
  BY <1>7 DEF DirectoryReachesDisk
<1>8. CASE PowerLoss
  BY <1>8, LossLeavesAnEntry DEF PowerLoss
<1>9. CASE UNCHANGED vars
  BY <1>9 DEF vars
<1> QED
  BY <1>1, <1>2, <1>3, <1>4, <1>5, <1>6, <1>7, <1>8, <1>9 DEF Next, Write,
     Surroundings

\* What the descriptor reached is asked before the write.
LEMMA NextBehind ==
  ASSUME TypeOK, NobodyBehindTheLink, [Next]_vars
  PROVE  NobodyBehindTheLink'
<1> USE DEF At, Goto, SetTemp, path, past, TypeOK, NobodyBehindTheLink
<1>1. ASSUME NEW w \in Writers,
           \/ Look(w) \/ LookBehindTheLink(w) \/ MakeTemporary(w)
           \/ NoTemporary(w) \/ WriteThrough(w) \/ FailToWrite(w)
           \/ Rename(w) \/ FailToRename(w) \/ Unlink(w) \/ CheckForLink(w)
           \/ CannotOpen(w) \/ FailInto(w) \/ Kill(w)
     PROVE  NobodyBehindTheLink'
  BY <1>1 DEF Look, LookBehindTheLink, MakeTemporary, NoTemporary, WriteThrough,
     FailToWrite, Rename, FailToRename, Unlink, CheckForLink, CannotOpen,
     FailInto, Kill, MayOpen
<1>2. ASSUME NEW w \in Writers,
           OpenInPlace(w)
     PROVE  NobodyBehindTheLink'
  BY <1>2 DEF OpenInPlace, MayOpen, Opened
<1>3. ASSUME NEW w \in Writers,
           OpenTheLink(w)
     PROVE  NobodyBehindTheLink'
  BY <1>3 DEF OpenTheLink
<1>4. ASSUME NEW w \in Writers,
           CheckWhatWasReached(w)
     PROVE  NobodyBehindTheLink'
  BY <1>4 DEF CheckWhatWasReached
<1>5. ASSUME NEW w \in Writers,
           WriteInto(w)
     PROVE  NobodyBehindTheLink'
  BY <1>5 DEF WriteInto
<1>6. CASE Retarget
  BY <1>6 DEF Retarget, Meddle
<1>7. CASE PlantLink
  BY <1>7 DEF PlantLink, Meddle
<1>8. CASE DirectoryReachesDisk
  BY <1>8 DEF DirectoryReachesDisk
<1>9. CASE PowerLoss
  BY <1>9 DEF PowerLoss
<1>10. CASE UNCHANGED vars
  BY <1>10 DEF vars
<1> QED
  BY <1>1, <1>2, <1>3, <1>4, <1>5, <1>6, <1>7, <1>8, <1>9, <1>10 DEF Next, Write,
     Surroundings

\* A stream is written into or refused.
LEMMA NextStream ==
  ASSUME TypeOK, StreamStays, [Next]_vars
  PROVE  StreamStays'
<1> USE DEF At, Goto, SetTemp, path, past, TypeOK, StreamStays
<1>1. ASSUME NEW w \in Writers,
           \/ LookBehindTheLink(w) \/ MakeTemporary(w) \/ NoTemporary(w)
           \/ WriteThrough(w) \/ FailToWrite(w) \/ Rename(w)
           \/ FailToRename(w) \/ Unlink(w) \/ OpenTheLink(w)
           \/ CheckWhatWasReached(w) \/ CheckForLink(w) \/ CannotOpen(w)
           \/ FailInto(w) \/ Kill(w)
     PROVE  StreamStays'
  BY <1>1, ConstantEntries DEF LookBehindTheLink, MakeTemporary, NoTemporary, WriteThrough,
     FailToWrite, Rename, FailToRename, Unlink, OpenTheLink,
     CheckWhatWasReached, CheckForLink, CannotOpen, FailInto, Kill,
     MayOpen, SetEntry
<1>2. ASSUME NEW w \in Writers,
           OpenInPlace(w)
     PROVE  StreamStays'
  BY <1>2, ConstantEntries DEF OpenInPlace, MayOpen, Opened
<1>3. ASSUME NEW w \in Writers,
           WriteInto(w)
     PROVE  StreamStays'
  BY <1>3, ConstantEntries DEF WriteInto
<1>4. ASSUME NEW w \in Writers,
           Look(w)
     PROVE  StreamStays'
  BY <1>4, ConstantEntries DEF Look
<1>5. CASE Retarget
  BY <1>5 DEF Retarget, Meddle
<1>6. CASE PlantLink
  BY <1>6, ConstantEntries DEF PlantLink, Meddle
<1>7. CASE DirectoryReachesDisk
  BY <1>7 DEF DirectoryReachesDisk
<1>8. CASE PowerLoss
  BY <1>8, ConstantEntries, LossLeavesAnEntry DEF PowerLoss
<1>9. CASE UNCHANGED vars
  BY <1>9 DEF vars
<1> QED
  BY <1>1, <1>2, <1>3, <1>4, <1>5, <1>6, <1>7, <1>8, <1>9 DEF Next, Write,
     Surroundings

\* A link to a stream is followed or refused, as long as nobody turns it.
LEMMA NextLink ==
  ASSUME TypeOK, LinkStays, [Next]_vars
  PROVE  LinkStays'
<1> USE DEF At, Goto, SetTemp, path, past, TypeOK, LinkStays
<1>1. ASSUME NEW w \in Writers,
           \/ MakeTemporary(w) \/ NoTemporary(w) \/ WriteThrough(w)
           \/ FailToWrite(w) \/ Rename(w) \/ FailToRename(w) \/ Unlink(w)
           \/ CheckWhatWasReached(w) \/ CheckForLink(w) \/ CannotOpen(w)
           \/ FailInto(w) \/ Kill(w)
     PROVE  LinkStays'
  BY <1>1, ConstantEntries DEF MakeTemporary, NoTemporary, WriteThrough, FailToWrite, Rename,
     FailToRename, Unlink, CheckWhatWasReached, CheckForLink, CannotOpen,
     FailInto, Kill, MayOpen, SetEntry
<1>2. ASSUME NEW w \in Writers,
           OpenInPlace(w)
     PROVE  LinkStays'
  BY <1>2, ConstantEntries DEF OpenInPlace, MayOpen, Opened
<1>3. ASSUME NEW w \in Writers,
           WriteInto(w)
     PROVE  LinkStays'
  BY <1>3, ConstantEntries DEF WriteInto
<1>4. ASSUME NEW w \in Writers,
           Look(w)
     PROVE  LinkStays'
  BY <1>4, ConstantEntries DEF Look
<1>5. ASSUME NEW w \in Writers,
           LookBehindTheLink(w)
     PROVE  LinkStays'
  BY <1>5, ConstantEntries DEF LookBehindTheLink
<1>6. ASSUME NEW w \in Writers,
           OpenTheLink(w)
     PROVE  LinkStays'
  BY <1>6, ConstantEntries DEF OpenTheLink
<1>7. CASE Retarget
  BY <1>7 DEF Retarget, Meddle
<1>8. CASE PlantLink
  BY <1>8, ConstantEntries DEF PlantLink, Meddle
<1>9. CASE DirectoryReachesDisk
  BY <1>9 DEF DirectoryReachesDisk
<1>10. CASE PowerLoss
  BY <1>10, ConstantEntries, LossLeavesAnEntry DEF PowerLoss
<1>11. CASE UNCHANGED vars
  BY <1>11 DEF vars
<1> QED
  BY <1>1, <1>2, <1>3, <1>4, <1>5, <1>6, <1>7, <1>8, <1>9, <1>10, <1>11 DEF Next,
     Write, Surroundings

\* The initial states satisfy the invariant.
LEMMA InitIInv == Init => IInv
<1> SUFFICES ASSUME Init PROVE IInv
  OBVIOUS
<1> USE DEF Init
<1>1. Old \in Bodies /\ Old # Torn
  BY DEF Bodies, Old, Torn
<1>6. /\ File(Old, TRUE) \in Entries /\ File(Old, TRUE).kind = "file"
      /\ File(Old, TRUE).body = Old /\ File(Old, TRUE).synced = TRUE
  BY <1>1, FilesAreEntries
<1>2. entry \in Entries /\ (entry.kind = "file" => entry.synced /\ entry.body # Torn)
  BY <1>1, <1>6, ConstantEntries
<1>3. TypeOK
  <2>1. first \in [entry : Entries, target : Targets]
    BY <1>2
  <2>2. /\ pc \in [Writers -> Labels]
        /\ temp \in [Writers -> {"none", "empty", "synced", "written", "stuck"}]
        /\ reached \in [Writers -> Targets \cup {"entry"}]
    BY DEF Labels, Targets
  <2>3. meddled \in 0..MaxMeddling
    BY MeddlingIsNat
  <2> QED
    BY <1>2, <2>1, <2>2, <2>3 DEF TypeOK
<1>4. OnlyThoseWhoMay /\ OnlySyncedIsRenamed /\ DurableIsWhole /\ HeldOnTheWay /\ ReplacedIsDone
  BY <1>2 DEF OnlyThoseWhoMay, OnlySyncedIsRenamed, DurableIsWhole, HeldOnTheWay, ReplacedIsDone
<1>5. NobodyBehindTheLink /\ StreamStays /\ LinkStays
  BY DEF NobodyBehindTheLink, StreamStays, LinkStays
<1>7. BodiesAreOfTheDone
  BY <1>6, ConstantEntries, BodiesAreApart DEF BodiesAreOfTheDone
<1>8. UntouchedIsAsItWas
  BY <1>2 DEF UntouchedIsAsItWas
<1> QED
  BY <1>3, <1>4, <1>5, <1>7, <1>8 DEF IInv

\* Every step keeps the invariant.
LEMMA NextIInv == IInv /\ [Next]_vars => IInv'
  BY NextTyped, NextMay, NextSynced, NextWhole, NextHeld, NextReplaced, NextDone,
     NextUntouched, NextBehind, NextStream, NextLink
     DEF IInv

\* The invariant holds of every reachable state, for any writers and any meddling.
THEOREM Invariance == Spec => []IInv
  BY InitIInv, NextIInv, PTL DEF Spec

-----------------------------------------------------------------------------
(* What the runs check, for every value of the constants.                  *)

\* TypeOK: the variables keep their types.
THEOREM TypeCorrect == Spec => []TypeOK
<1>1. IInv => TypeOK
  BY DEF IInv
<1> QED
  BY <1>1, Invariance, PTL

\* OldOrNew: a reader, and a power loss, find a whole body.
THEOREM Atomicity == Spec => []OldOrNew
<1>1. IInv => OldOrNew
  BY DEF IInv, TypeOK, DurableIsWhole, OldOrNew
<1> QED
  BY <1>1, Invariance, PTL

\* LinksAreNotTraversed: no file behind a link is written to.
THEOREM NoTraversal == Spec => []LinksAreNotTraversed
<1>1. IInv => LinksAreNotTraversed
  BY DEF IInv, NobodyBehindTheLink, LinksAreNotTraversed
<1> QED
  BY <1>1, Invariance, PTL

\* StreamsSurvive: streams, and links to them, are not replaced.
THEOREM StreamsAreKept == Spec => []StreamsSurvive
<1>1. IInv => StreamsSurvive
  BY DEF IInv, StreamStays, LinkStays, StreamsSurvive
<1> QED
  BY <1>1, Invariance, PTL

\* FailedWritesReplaceNothing: a failed write has replaced nothing, its body is found
\* nowhere, and what nobody renamed, wrote in place or meddled with is as it was.
THEOREM FailureIsHarmless == Spec => []FailedWritesReplaceNothing
<1>1. ASSUME IInv PROVE FailedWritesReplaceNothing
  <2>1. entry \in durable
    BY <1>1 DEF IInv, TypeOK
  <2>2. ASSUME NEW w \in Writers, pc[w] = "failed"
        PROVE  w \notin by /\ \A e \in {entry} \cup durable : e.kind = "file" => e.body # w
    BY <1>1, <2>1, <2>2 DEF IInv, ReplacedIsDone, BodiesAreOfTheDone
  <2>3. by = {} /\ placed = {} /\ meddled = 0 => {entry} \cup durable = {first.entry}
    BY <1>1 DEF IInv, UntouchedIsAsItWas
  <2> QED
    BY <2>2, <2>3 DEF FailedWritesReplaceNothing
<1> QED
  BY <1>1, Invariance, PTL

\* NothingIsLeftBehind: no descriptor outlives a write, and no temporary that could be
\* renamed or removed.
THEOREM NoLeak == Spec => []NothingIsLeftBehind
<1>1. IInv => NothingIsLeftBehind
  BY DEF IInv, TypeOK, HeldOnTheWay, NothingIsLeftBehind
<1> QED
  BY <1>1, Invariance, PTL

=============================================================================
