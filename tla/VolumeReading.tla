--------------------------- MODULE VolumeReading ---------------------------
(***************************************************************************)
(* Reading the volumes of a Windows machine: the cluster bitmap of one, as *)
(* its driver answers it piece by piece while the volume is in use; and    *)
(* what each volume comes to, where any of its readings may fail, in the   *)
(* rows of the filesystems section and in what the drives are used for.    *)
(***************************************************************************)
EXTENDS Readings, Functions

CONSTANTS
  MaxClusters,     \* bound: clusters of a volume
  MaxVolumeWrites  \* bound: changes of a volume during one walk

ASSUME ClustersAreBounded == {MaxClusters, MaxVolumeWrites} \subseteq Nat

-----------------------------------------------------------------------------
(* Folding free clusters into runs.  A bitmap is a sequence of BOOLEAN,    *)
(* TRUE for a free cluster; a run is [start, end], clusters start+1..end.  *)

RunsOf(bits, skip) ==
  {r \in [start : skip..Len(bits), end : skip..Len(bits)] :
     /\ r.start < r.end /\ \A i \in r.start+1..r.end : bits[i]
     /\ r.start = skip \/ ~bits[r.start]
     /\ r.end = Len(bits) \/ ~bits[r.end+1]}

NothingFolded == [count |-> 0, total |-> 0, largest |-> 0, open |-> 0]

Tallied(f, lengths) ==
  FoldLeft(LAMBDA t, n : [t EXCEPT !.count = @ + 1, !.total = @ + n, !.largest = Max({@, n})], f, lengths)

\* Slip: only a run at the very beginning of an answer goes on with the open one.
SlipJoins(r, skip) == r.start = 0

Joins(r, skip) == r.start = skip

\* One answer is folded, less what an earlier one already gave.  A run up to its end
\* stays open; the one that was open is joined, or ends here.
Feed(f, bits, skip) ==
  LET runs      == RunsOf(bits, skip)
      length(r) == r.end - r.start + (IF Joins(r, skip) THEN f.open ELSE 0)
      ended     == SetToSeq({r \in runs : r.end # Len(bits)})
      still     == {r \in runs : r.end = Len(bits)}
      carried   == f.open # 0 /\ \A r \in runs : ~Joins(r, skip)
  IN  IF Len(bits) <= skip THEN f
      ELSE [Tallied(f, [i \in DOMAIN ended |-> length(ended[i])] \o (IF carried THEN <<f.open>> ELSE <<>>))
              EXCEPT !.open = IF still = {} THEN 0 ELSE length(CHOOSE r \in still : TRUE)]

Finish(f) == IF f.open = 0 THEN f ELSE [Tallied(f, <<f.open>>) EXCEPT !.open = 0]

\* Slip: that the volume has another size by now is not noticed.
SlipSizeUnnoticed(a, start, clusters) ==
  \/ a.lcn > start
  \/ ~a.more /\ Len(a.bits) < a.remaining
  \/ a.more /\ a.lcn + Len(a.bits) <= start

\* An answer that starts too late, is of a volume of another size, ends early or
\* does not move on.
Refuses(a, start, clusters) ==
  \/ a.lcn > start
  \/ a.lcn + a.remaining # clusters
  \/ ~a.more /\ Len(a.bits) < a.remaining
  \/ a.more /\ a.lcn + Len(a.bits) <= start

\* What one answer [lcn, remaining, bits, more] does to the walk.
BitmapAnswered(w, a) ==
  LET clusters == IF w.clusters = NotRead THEN a.lcn + a.remaining ELSE w.clusters
      folder   == Feed(w.folder, a.bits, w.start - a.lcn)
      next     == [w EXCEPT !.calls = @ + 1, !.clusters = clusters]
  IN  IF Refuses(a, w.start, clusters) THEN [next EXCEPT !.says = "refused"]
      ELSE IF a.more THEN [next EXCEPT !.folder = folder, !.start = a.lcn + Len(a.bits)]
      ELSE [next EXCEPT !.folder = Finish(folder), !.says = "read"]

-----------------------------------------------------------------------------
(* What a volume comes to.  A volume is [paths, type, disks, esp]; read is *)
(* the set of its readings that do not fail, and an entry what they leave. *)

Letter   == "a letter"
Diskless == {"optical", "memory"}

Entry(v, read) ==
  [paths     |-> IF "paths" \in read THEN v.paths ELSE {},
   pathsLost |-> "paths" \notin read,
   type      |-> IF "paths" \in read /\ v.paths # {} THEN v.type ELSE "unread",
   disks     |-> IF {"open", "extents"} \subseteq read THEN v.disks ELSE {},
   lost      |-> ~({"open", "extents"} \subseteq read),
   esp       |-> {"open", "partition"} \subseteq read /\ v.esp]

CanBeARow(e, drives) == e.paths # {} /\ e.type \notin Diskless /\ e.disks \cap drives # {}

\* Slip: a volume whose paths were not read has none.
SlipBlocksNotMounted(e, drives) == e.lost /\ (e.esp \/ (e.paths # {} /\ e.type \notin Diskless))

\* Whether a volume may be a use of a drive nothing else was found for.
BlocksNotMounted(e, drives) ==
  IF e.pathsLost THEN e.lost \/ e.disks \cap drives # {}
  ELSE e.lost /\ (e.esp \/ (e.paths # {} /\ e.type \notin Diskless))

\* Slip: every volume that leaves a use undecided is one that has no row.
SlipUnplaced(e, drives) == BlocksNotMounted(e, drives)

Unplaced(e, drives) == BlocksNotMounted(e, drives) /\ (e.paths # {} \/ e.pathsLost)

\* Slip: what one failing volume hides is asked of the drives it is on.
SlipVolumeUsage(entries, windows, drives, d) ==
  LET letters == UNION {e.paths : e \in {x \in Range(entries) : d \in x.disks}}
      boot    == \E k \in DOMAIN entries : d \in entries[k].disks /\ (k = windows \/ entries[k].esp)
  IN  IF letters = {} /\ ~boot /\ \E e \in Range(entries) : d \in e.disks /\ BlocksNotMounted(e, drives) THEN "unknown"
      ELSE IF boot THEN "boot" ELSE IF letters # {} THEN "used" ELSE "not used"

\* What a drive is used for: unknown where nothing was found and something is hidden.
VolumeUsage(entries, windows, drives, d) ==
  LET letters == UNION {e.paths : e \in {x \in Range(entries) : d \in x.disks}}
      boot    == \E k \in DOMAIN entries : d \in entries[k].disks /\ (k = windows \/ entries[k].esp)
  IN  IF letters = {} /\ ~boot /\ \E e \in Range(entries) : BlocksNotMounted(e, drives) THEN "unknown"
      ELSE IF boot THEN "boot" ELSE IF letters # {} THEN "used" ELSE "not used"

-----------------------------------------------------------------------------

AskAboutBitmaps ==
  \E n \in 1..MaxClusters : \E bits \in [1..n -> BOOLEAN] :
    Ask("bitmap", [bits |-> bits, start |-> 0, clusters |-> NotRead, folder |-> NothingFolded,
                   calls |-> 0, writes |-> 0, says |-> "reading"])

\* The driver answers from a cluster of its own choice, with as many as it likes; it
\* may even call that all, or say that there is more where there is none.
TheDriverAnswers ==
  /\ topic = "bitmap" /\ input.says = "reading"
  /\ \E lcn \in 0..Len(input.bits), more \in BOOLEAN : \E end \in lcn..Len(input.bits) :
       Build("bitmap", BitmapAnswered(input,
         [lcn |-> lcn, remaining |-> Len(input.bits) - lcn, bits |-> SubSeq(input.bits, lcn + 1, end), more |-> more]))

TheDriverFails ==
  topic = "bitmap" /\ input.says = "reading" /\ Build("bitmap", [input EXCEPT !.says = "refused"])

TheVolumeIsWritten ==
  /\ topic = "bitmap" /\ input.says = "reading" /\ input.writes < MaxVolumeWrites
  /\ \E bits \in {[input.bits EXCEPT ![i] = ~@] : i \in DOMAIN input.bits}
                   \cup {Append(input.bits, TRUE), Front(input.bits)} :
       bits # <<>> /\ Build("bitmap", [input EXCEPT !.bits = bits, !.writes = @ + 1])

DrivesOf == {1, 2}

Volumes ==
  {v \in [paths : {{}, {Letter}, {"a folder"}}, type : {"fixed", "optical"}, disks : {{}, {1}, {3}, {1, 2}}, esp : BOOLEAN] :
     /\ v.type = "optical" <=> v.disks = {}
     /\ v.esp => v.paths = {} /\ v.type = "fixed"}

ReadingsOfAVolume == {"paths", "open", "extents", "partition"}

AskAboutVolumes ==
  \E v, w \in Volumes, lost, gone \in {{}, {"paths"}, {"open"}, {"extents"}, {"partition"}, {"paths", "open"}} :
    Ask("volumes", [volumes |-> <<v, w>>, windows |-> 2,
                    read |-> <<ReadingsOfAVolume \ lost, ReadingsOfAVolume \ gone>>])

-----------------------------------------------------------------------------

\* A reading of a bitmap is one of every cluster once, whatever the driver answers and
\* whoever writes; that of a volume nobody wrote to has its free runs exactly, and the
\* driver is not asked more often than there are clusters to give.
EveryClusterIsFoldedOnce ==
  topic = "bitmap" =>
    LET free == RunsOf(input.bits, 0)
    IN  /\ input.calls <= MaxClusters + MaxVolumeWrites + 1
        /\ input.says = "reading" => input.folder.total + input.folder.open <= input.start
        /\ (input.says = "read" /\ input.writes = 0) =>
             /\ input.folder.count = Cardinality(free)
             /\ input.folder.total = MapThenSumSet(LAMBDA r : r.end - r.start, free)
             /\ input.folder.largest = Max({0} \cup {r.end - r.start : r \in free})
        /\ input.says = "read" => input.folder.total <= input.clusters /\ input.folder.open = 0

\* Whatever readings of two volumes fail, no drive is shown as unused that one of them
\* is on under a path, or boots from, but for an EFI partition that was not read as one:
\* it could not be opened, or was and did not say what partition it is, of which nothing
\* is recorded.  Each volume on a listed drive under a path has its row, or is said to
\* have none.
NoVolumeIsLostInSilence ==
  topic = "volumes" =>
    LET entries == [k \in DOMAIN input.volumes |-> Entry(input.volumes[k], input.read[k])]
    IN  /\ \A d \in DrivesOf :
             VolumeUsage(entries, input.windows, DrivesOf, d) = "not used" =>
               \A k \in DOMAIN entries : d \in input.volumes[k].disks =>
                 input.volumes[k].paths = {} /\ (input.volumes[k].esp => ~({"open", "partition"} \subseteq input.read[k]))
        /\ \A k \in DOMAIN entries :
             LET v == input.volumes[k]
             IN  /\ (v.paths # {} /\ v.disks \cap DrivesOf # {}) =>
                      CanBeARow(entries[k], DrivesOf) \/ Unplaced(entries[k], DrivesOf)
                 /\ CanBeARow(entries[k], DrivesOf) => v.disks \cap DrivesOf # {}
                 /\ ({"paths", "open", "extents"} \subseteq input.read[k] \/ (v.paths = {} /\ "paths" \in input.read[k])) =>
                      ~Unplaced(entries[k], DrivesOf)
=============================================================================
