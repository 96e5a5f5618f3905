----------------------------- MODULE AtomicFile -----------------------------
(***************************************************************************)
(* Writing a whole file at a path: a temporary beside it, forced out and   *)
(* renamed over it, or, where a stream stands there, a write into the      *)
(* stream.  Others may retarget links at the path, writers may be killed,  *)
(* and the machine may lose power while renames are still in memory.       *)
(***************************************************************************)
EXTENDS Naturals, FiniteSets

CONSTANTS
  Writers,
  InPlace,      \* writers that gave an alternative: the snapshot writer
  MaxMeddling   \* bound: changes others make at the path

Old  == "old"    \* the body that was there before
Torn == "torn"   \* a body that is not whole

ASSUME InPlaceAreWriters == InPlace \subseteq Writers
ASSUME BodiesAreApart == {Old, Torn} \cap Writers = {}
ASSUME MeddlingIsNat == MaxMeddling \in Nat

Absent == [kind |-> "absent"]
Stream == [kind |-> "stream"]    \* a character device or a FIFO
Other  == [kind |-> "other"]     \* a socket, a block device, a directory
Link   == [kind |-> "link"]
File(body, synced) == [kind |-> "file", body |-> body, synced |-> synced]

Targets == {"nothing", "file", "stream"}
Bodies  == Writers \cup {Old, Torn}
Entries == {Absent, Stream, Other, Link} \cup {File(b, s) : b \in Bodies, s \in BOOLEAN}

VARIABLES
  entry,      \* what the path names
  target,     \* what a link there leads to
  durable,    \* the entries a power loss may leave
  victim,     \* history: the file behind the link was written to
  received,   \* writers whose whole body the stream took
  pc,         \* where each writer is
  temp,       \* each writer's temporary file
  open,       \* writers holding a descriptor of their own
  reached,    \* what that descriptor turned out to name
  by,         \* history: writers that replaced the entry
  placed,     \* history: writers that wrote over a file in place
  first,      \* history: the entry and target in the beginning
  meddled,    \* bound: changes made by others
  noFollow    \* whether the platform's open can refuse a link

path == <<entry, target, durable>>
past == <<by, placed, first, meddled, noFollow>>
vars == <<entry, target, durable, victim, received, pc, temp, open, reached,
          by, placed, first, meddled, noFollow>>

At(w, label) == pc[w] = label
Goto(w, label) == pc' = [pc EXCEPT ![w] = label]
SetTemp(w, state) == temp' = [temp EXCEPT ![w] = state]

\* A change of the entry reaches the disk some time later.
SetEntry(e) == entry' = e /\ durable' = durable \cup {e}

-----------------------------------------------------------------------------
(* What stands at the destination: _destination_at                         *)

SlipLookPastStreams(w) ==
  /\ At(w, "look")
  /\ Goto(w, CASE entry.kind = "link" -> "behind"
               [] entry.kind \in {"absent", "file", "stream"} -> "make"
               [] OTHER -> "failed")
  /\ UNCHANGED <<path, victim, received, temp, open, reached, past>>

Look(w) ==
  /\ At(w, "look")
  /\ Goto(w, CASE entry.kind = "link" -> "behind"
               [] entry.kind \in {"absent", "file"} -> "make"
               [] entry.kind = "stream" /\ w \in InPlace -> "place"
               [] OTHER -> "failed")
  /\ UNCHANGED <<path, victim, received, temp, open, reached, past>>

\* stat follows the link; by now something else may stand there.
LookBehindTheLink(w) ==
  /\ At(w, "behind")
  /\ LET leadsToAStream == entry.kind = "stream" \/ (entry.kind = "link" /\ target = "stream")
     IN Goto(w, IF ~leadsToAStream THEN "make" ELSE IF w \in InPlace THEN "follow" ELSE "failed")
  /\ UNCHANGED <<path, victim, received, temp, open, reached, past>>

-----------------------------------------------------------------------------
(* The temporary and the rename: _write_and_rename                         *)

MakeTemporary(w) ==
  /\ At(w, "make")
  /\ SetTemp(w, "empty") /\ open' = open \cup {w} /\ Goto(w, "write")
  /\ UNCHANGED <<path, victim, received, reached, past>>

SlipFallBackAlways(w) ==
  /\ At(w, "make")
  /\ Goto(w, "place")
  /\ UNCHANGED <<path, victim, received, temp, open, reached, past>>

NoTemporary(w) ==
  /\ At(w, "make")
  /\ Goto(w, IF w \in InPlace THEN "place" ELSE "failed")
  /\ UNCHANGED <<path, victim, received, temp, open, reached, past>>

\* The body is forced out before the descriptor is closed.
SlipRenameUnsynced(w) ==
  /\ At(w, "write")
  /\ SetTemp(w, "written") /\ open' = open \ {w} /\ Goto(w, "rename")
  /\ UNCHANGED <<path, victim, received, reached, past>>

WriteThrough(w) ==
  /\ At(w, "write")
  /\ SetTemp(w, "synced") /\ open' = open \ {w} /\ Goto(w, "rename")
  /\ UNCHANGED <<path, victim, received, reached, past>>

\* os.fdopen, the write or the sync fails: the descriptor is closed either way.
SlipLeakTheDescriptor(w) ==
  /\ At(w, "write")
  /\ Goto(w, "unlink")
  /\ UNCHANGED <<path, victim, received, temp, open, reached, past>>

FailToWrite(w) ==
  /\ At(w, "write")
  /\ open' = open \ {w} /\ Goto(w, "unlink")
  /\ UNCHANGED <<path, victim, received, temp, reached, past>>

\* chmod fails silently, so nothing can fail once the rename is done.
SlipRenameThenChmod(w) ==
  /\ At(w, "rename")
  /\ SetEntry(File(w, temp[w] = "synced"))
  /\ by' = by \cup {w}
  /\ SetTemp(w, "none")
  /\ \E end \in {"done", "failed"} : Goto(w, end)
  /\ UNCHANGED <<target, victim, received, open, reached, placed, first, meddled, noFollow>>

Rename(w) ==
  /\ At(w, "rename")
  /\ SetEntry(File(w, temp[w] = "synced"))
  /\ by' = by \cup {w}
  /\ SetTemp(w, "none") /\ Goto(w, "done")
  /\ UNCHANGED <<target, victim, received, open, reached, placed, first, meddled, noFollow>>

FailToRename(w) ==
  /\ At(w, "rename")
  /\ Goto(w, "unlink")
  /\ UNCHANGED <<path, victim, received, temp, open, reached, past>>

\* A temporary that cannot be removed is passed over.
Unlink(w) ==
  /\ At(w, "unlink")
  /\ SetTemp(w, "none") \/ SetTemp(w, "stuck")
  /\ Goto(w, "failed")
  /\ UNCHANGED <<path, victim, received, open, reached, past>>

-----------------------------------------------------------------------------
(* Through the link: _write_through_the_link                               *)

OpenTheLink(w) ==
  /\ At(w, "follow")
  /\ LET found == IF entry.kind = "link" THEN target ELSE entry.kind
     IN IF found \in {"nothing", "absent", "other"}
          THEN Goto(w, "failed") /\ UNCHANGED <<open, reached>>
          ELSE /\ open' = open \cup {w} /\ Goto(w, "reached")
               /\ reached' = [reached EXCEPT ![w] =
                    IF entry.kind = "file" THEN "entry" ELSE found]
  /\ UNCHANGED <<path, victim, received, temp, past>>

SlipTrustTheLook(w) ==
  /\ At(w, "reached")
  /\ Goto(w, "into") /\ UNCHANGED open
  /\ UNCHANGED <<path, victim, received, temp, reached, past>>

\* The descriptor is asked, not the earlier look believed.
CheckWhatWasReached(w) ==
  /\ At(w, "reached")
  /\ IF reached[w] = "stream"
       THEN Goto(w, "into") /\ UNCHANGED open
       ELSE Goto(w, "failed") /\ open' = open \ {w}
  /\ UNCHANGED <<path, victim, received, temp, reached, past>>

-----------------------------------------------------------------------------
(* In place, where no temporary can be made: _write_in_place               *)

\* Where the kernel cannot refuse a link, it is looked for before the open.
CheckForLink(w) ==
  /\ At(w, "place") /\ ~noFollow
  /\ Goto(w, IF entry.kind = "link" THEN "failed" ELSE "opening")
  /\ UNCHANGED <<path, victim, received, temp, open, reached, past>>

Opened(w, what) ==
  /\ open' = open \cup {w} /\ Goto(w, "into")
  /\ reached' = [reached EXCEPT ![w] = what]

MayOpen(w) == At(w, "opening") \/ (At(w, "place") /\ noFollow)

OpenInPlace(w) ==
  /\ MayOpen(w)
  /\ \/ /\ entry.kind = "stream" /\ Opened(w, "stream")
        /\ UNCHANGED <<entry, durable, placed, victim, target>>
     \/ /\ entry.kind \in {"absent", "file"} /\ Opened(w, "entry")
        /\ SetEntry(File(Torn, FALSE)) /\ placed' = placed \cup {w}
        /\ UNCHANGED <<victim, target>>
     \/ /\ entry.kind = "link" /\ ~noFollow
        /\ Opened(w, IF target = "stream" THEN "stream" ELSE "file")
        /\ victim' = (victim \/ target = "file")
        /\ target' = IF target = "nothing" THEN "file" ELSE target
        /\ UNCHANGED <<entry, durable, placed>>
  /\ UNCHANGED <<received, temp, by, first, meddled, noFollow>>

CannotOpen(w) ==
  /\ MayOpen(w)
  /\ entry.kind = "other" \/ (entry.kind = "link" /\ noFollow)
  /\ Goto(w, "failed")
  /\ UNCHANGED <<path, victim, received, temp, open, reached, past>>

\* Two that write one file at once may leave a mixture; a file renamed over
\* since the open is nobody's any more.
WriteInto(w) ==
  /\ At(w, "into")
  /\ open' = open \ {w} /\ Goto(w, "done")
  /\ received' = IF reached[w] = "stream" THEN received \cup {w} ELSE received
  /\ victim' = (victim \/ reached[w] = "file")
  /\ IF reached[w] = "entry" /\ entry.kind = "file" /\ entry.body \in placed \cup {Torn}
       THEN \E body \in {w} \cup (IF placed = {w} THEN {} ELSE {Torn}) : SetEntry(File(body, FALSE))
       ELSE UNCHANGED <<entry, durable>>
  /\ UNCHANGED <<target, temp, reached, past>>

FailInto(w) ==
  /\ At(w, "into")
  /\ open' = open \ {w} /\ Goto(w, "failed")
  /\ UNCHANGED <<path, victim, received, temp, reached, past>>

-----------------------------------------------------------------------------
(* The surroundings                                                        *)

Ended(w) == pc[w] \in {"done", "failed", "gone"}

Kill(w) ==
  /\ ~Ended(w)
  /\ open' = open \ {w} /\ Goto(w, "gone")
  /\ UNCHANGED <<path, victim, received, temp, reached, past>>

Meddle == meddled < MaxMeddling /\ meddled' = meddled + 1

Retarget ==
  /\ Meddle
  /\ target' \in Targets
  /\ UNCHANGED <<entry, durable, victim, received, pc, temp, open, reached, by, placed, first, noFollow>>

\* Nobody else puts a stream there, or takes one away.
PlantLink ==
  /\ Meddle /\ entry.kind \in {"absent", "file"}
  /\ SetEntry(Link) /\ target' \in Targets
  /\ UNCHANGED <<victim, received, pc, temp, open, reached, by, placed, first, noFollow>>

DirectoryReachesDisk ==
  /\ durable # {entry} /\ durable' = {entry}
  /\ UNCHANGED <<entry, target, victim, received, pc, temp, open, reached, past>>

\* Whatever was not forced out may come back torn.
AfterLoss(e) ==
  IF e.kind = "file" /\ ~e.synced THEN {e, File(Torn, FALSE)} ELSE {e}

PowerLoss ==
  /\ \E w \in Writers : pc[w] # "gone"
  /\ \E e \in durable : \E f \in AfterLoss(e) : entry' = f /\ durable' = {f}
  /\ pc' = [w \in Writers |-> "gone"] /\ open' = {}
  /\ UNCHANGED <<target, victim, received, temp, reached, past>>

-----------------------------------------------------------------------------

Init ==
  /\ entry \in {Absent, Stream, Other, Link, File(Old, TRUE)}
  /\ target \in Targets
  /\ durable = {entry}
  /\ victim = FALSE /\ received = {}
  /\ pc = [w \in Writers |-> "look"]
  /\ temp = [w \in Writers |-> "none"]
  /\ open = {} /\ reached = [w \in Writers |-> "nothing"]
  /\ by = {} /\ placed = {} /\ first = [entry |-> entry, target |-> target]
  /\ meddled = 0 /\ noFollow \in BOOLEAN

Write(w) ==
  \/ Look(w) \/ LookBehindTheLink(w)
  \/ MakeTemporary(w) \/ NoTemporary(w) \/ WriteThrough(w) \/ FailToWrite(w)
  \/ Rename(w) \/ FailToRename(w) \/ Unlink(w)
  \/ OpenTheLink(w) \/ CheckWhatWasReached(w)
  \/ CheckForLink(w) \/ OpenInPlace(w) \/ CannotOpen(w) \/ WriteInto(w) \/ FailInto(w)

Surroundings ==
  \/ Retarget \/ PlantLink \/ DirectoryReachesDisk \/ PowerLoss
  \/ \E w \in Writers : Kill(w)

Next == (\E w \in Writers : Write(w)) \/ Surroundings

Spec == Init /\ [][Next]_vars

-----------------------------------------------------------------------------
(* What holds                                                              *)

Labels == {"look", "behind", "make", "write", "rename", "unlink", "follow", "reached",
           "place", "opening", "into", "done", "failed", "gone"}

\* Every variable keeps its type.
TypeOK ==
  /\ entry \in Entries /\ durable \subseteq Entries /\ entry \in durable
  /\ target \in Targets
  /\ victim \in BOOLEAN /\ noFollow \in BOOLEAN
  /\ received \subseteq Writers /\ by \subseteq Writers /\ placed \subseteq InPlace
  /\ open \subseteq Writers
  /\ pc \in [Writers -> Labels]
  /\ temp \in [Writers -> {"none", "empty", "synced", "written", "stuck"}]
  /\ reached \in [Writers -> Targets \cup {"entry"}]
  /\ first \in [entry : Entries, target : Targets]
  /\ meddled \in 0..MaxMeddling

\* What a reader finds at the path, and what a power loss leaves there, is the
\* old body or a whole new one, unless somebody could make no temporary file.
OldOrNew ==
  placed = {} => \A e \in {entry} \cup durable : e.kind = "file" => e.body # Torn

\* Somebody's file behind a link is not written to, however the link is
\* turned while the write goes on, where the kernel can refuse a link.
LinksAreNotTraversed == noFollow => ~victim

\* A device or a FIFO at the path, or behind a link nobody turns, is written
\* into or refused, never replaced by a file.
StreamsSurvive ==
  \/ first.entry = Stream
  \/ first.entry = Link /\ first.target = "stream" /\ meddled = 0
  => entry = first.entry

\* A write that is reported as failed has replaced nothing: once the rename is
\* done no later step of it can fail, and its body is found nowhere, not even
\* after a power loss.  Where no write was renamed or made in place, and nobody
\* meddled, what stood at the path stands there still, on the disk too.  A write
\* in place that fails is not so harmless: it leaves a torn file, as
\* _write_in_place says and save, which promises the previous one, does not.
FailedWritesReplaceNothing ==
  /\ \A w \in Writers : pc[w] = "failed" =>
       w \notin by /\ \A e \in {entry} \cup durable : e.kind = "file" => e.body # w
  /\ by = {} /\ placed = {} /\ meddled = 0 => {entry} \cup durable = {first.entry}

\* However a write ends, it leaves no descriptor open, and no temporary file but one
\* that could be neither renamed nor removed.
NothingIsLeftBehind ==
  \A w \in Writers :
    /\ pc[w] \in {"done", "failed"} => w \notin open /\ temp[w] \in {"none", "stuck"}
    /\ pc[w] = "done" => temp[w] = "none"

=============================================================================
