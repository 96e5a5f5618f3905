----------------------------- MODULE UsageRules -----------------------------
(***************************************************************************)
(* Which drives a filesystem lies on, and what a drive is in use for, read *)
(* from what the kernel lists: drives and their partitions, the devices    *)
(* stacked on them by name, the mounts, the swaps, and the signatures and  *)
(* groups that join what no stack does.                                    *)
(*                                                                         *)
(* A drive is [dev, holders, parts], a part [dev, holders]; a holder names *)
(* a stacked device [dev, holders].                                        *)
(***************************************************************************)
EXTENDS Readings

CONSTANT Unknown   \* what stands for anything nobody could read

HoldersOf(c, name) == IF name \in DOMAIN c.stacked THEN c.stacked[name].holders ELSE {}

\* Slip: what is stacked on a stacked device is not looked at.
SlipClosure(c, name) == {name}

\* Everything stacked on a name, however it is reached and cycles or not.
Closure(c, name) ==
  LET grown[n \in 0..Cardinality(DOMAIN c.stacked)] ==
        IF n = 0 THEN {name} ELSE grown[n-1] \cup UNION {HoldersOf(c, x) : x \in grown[n-1]}
  IN  grown[Cardinality(DOMAIN c.stacked)]

StackDevs(c, name) ==
  {c.stacked[m].dev : m \in Closure(c, name) \cap DOMAIN c.stacked} \ {Unknown}

Leaves(drive) == {[dev |-> drive.dev, holders |-> drive.holders]} \cup
                   (IF drive.parts = Unknown THEN {} ELSE drive.parts)

MemberDevs(c, node) ==
  ({l.dev : l \in Leaves(c.drives[node])} \ {Unknown})
    \cup UNION {StackDevs(c, h) : h \in UNION {l.holders : l \in Leaves(c.drives[node])}}

DisksByDevice(c, dev) == {node \in DOMAIN c.drives : dev \in MemberDevs(c, node)}

Groups(c) == IF c.btrfs = Unknown THEN {} ELSE c.btrfs

\* Slip: a filesystem over several devices lies on the one its mount names.
SlipByBtrfsMember(c, dev) == {}

ByBtrfsMember(c, dev) ==
  UNION {DisksByDevice(c, each) : each \in UNION {g \in Groups(c) : dev \in g}}

\* The drives of a mount: of its own number, and of the device it was mounted from.
DisksOf(c, mount) ==
  DisksByDevice(c, mount.dev) \cup
    (IF mount.source = Unknown THEN {} ELSE DisksByDevice(c, mount.source) \cup ByBtrfsMember(c, mount.source))

-----------------------------------------------------------------------------
(* Where a pool lies: its layout names its members by a device number that *)
(* may since have become another device's.                                 *)

\* Slip: a member is believed to be where its layout says.
SlipReadAsSomethingElse(signature, guid) == FALSE

ReadAsSomethingElse(signature, guid) ==
  CASE signature.type = "none" -> FALSE
    [] signature.type \notin {"none", "zfs"} -> TRUE
    [] OTHER -> Unknown \notin {guid, signature.guid} /\ signature.guid # guid

\* layout: [guid, vdevs]; lookup: where each device number lies, on drives or, as
\* "virtual", on a device the machine makes up, and what is written there.
VdevDisks(vdev, guid, lookup) ==
  CASE vdev = "file" -> [disks |-> {}, followed |-> TRUE]
    [] vdev # "file" /\ (vdev = Unknown \/ lookup.disks[vdev] = {}) ->
         [disks |-> {}, followed |-> vdev # Unknown /\ vdev \in lookup.virtual]
    [] OTHER -> IF ReadAsSomethingElse(lookup.written[vdev], guid)
                THEN [disks |-> {}, followed |-> FALSE]
                ELSE [disks |-> lookup.disks[vdev], followed |-> TRUE]

PoolDisks(layout, lookup) ==
  LET found == {VdevDisks(v, layout.guid, lookup) : v \in layout.vdevs}
      byGuid == UNION {lookup.disks[d] : d \in {x \in DOMAIN lookup.disks :
                         /\ layout.guid # Unknown
                         /\ lookup.written[x] = [type |-> "zfs", guid |-> layout.guid]}}
      lost == \E f \in found : ~f.followed
  IN  [disks |-> UNION {f.disks : f \in found} \cup (IF lost THEN byGuid ELSE {}), lost |-> lost]

-----------------------------------------------------------------------------
(* What a drive is in use for.                                             *)

MountsAt(c, dev) == {m.point : m \in {x \in c.mounts : dev \in {x.dev, x.source}}}

\* A member of a group is mounted wherever any of the group is.
MountsByDev(c, dev) ==
  MountsAt(c, dev) \cup UNION {UNION {MountsAt(c, d) : d \in g} : g \in {x \in Groups(c) : dev \in x}}

Signature(c, dev) ==
  IF dev = Unknown \/ c.signatures = Unknown THEN "none" ELSE c.signatures[dev]

StackUse(c, holder) ==
  [use |-> holder,
   mounts |-> UNION {MountsByDev(c, d) : d \in StackDevs(c, holder)}
                \cup (IF c.swaps # Unknown /\ StackDevs(c, holder) \cap c.swaps # {} THEN {"swap"} ELSE {})]

\* The signature of a whole drive is told only where none of its parts has one.
SignatureOf(c, drive, leaf) ==
  IF leaf.dev = drive.dev /\ drive.parts # Unknown /\ \E p \in drive.parts : Signature(c, p.dev) # "none"
  THEN "none" ELSE Signature(c, leaf.dev)

LeafUses(c, drive, leaf) ==
  (IF leaf.dev # Unknown /\ MountsByDev(c, leaf.dev) # {}
   THEN {[use |-> "mount", mounts |-> MountsByDev(c, leaf.dev)]} ELSE {})
  \cup (IF leaf.dev # Unknown /\ c.swaps # Unknown /\ leaf.dev \in c.swaps
        THEN {[use |-> "swap", mounts |-> {}]} ELSE {})
  \cup (IF SignatureOf(c, drive, leaf) = "zfs" THEN {[use |-> "zfs", mounts |-> {}]} ELSE {})
  \cup {StackUse(c, h) : h \in leaf.holders}

\* Uses of one kind and name are one use, with the mounts of all of them.
Merge(uses) ==
  {[use |-> k, mounts |-> UNION {u.mounts : u \in {x \in uses : x.use = k}}] :
     k \in {u.use : u \in uses}}

\* Slip: a list of swaps the system refused is an empty one.
SlipWasNotRead(c, drive) ==
  \/ Unknown \in {c.signatures, drive.dev, drive.parts}
  \/ drive.parts # Unknown /\ \E p \in drive.parts : p.dev = Unknown

WasNotRead(c, drive) ==
  \/ Unknown \in {c.signatures, c.swaps, drive.dev, drive.parts}
  \/ drive.parts # Unknown /\ \E p \in drive.parts : p.dev = Unknown

\* Slip: that a filesystem's other members could not be listed is not asked.
SlipUnjoinable(c, node) == FALSE

\* A member of a filesystem over several devices, none of which shows a mount.
Unjoinable(c, node) ==
  /\ \E l \in Leaves(c.drives[node]) : SignatureOf(c, c.drives[node], l) = "btrfs"
  /\ c.btrfs = Unknown \/ MemberDevs(c, node) \cap UNION Groups(c) # {}

UsedFor(c, node) == Merge(UNION {LeafUses(c, c.drives[node], l) : l \in Leaves(c.drives[node])})

\* The pool the system runs from has its members on these drives, by its layout;
\* a reading from before layouts were kept says nothing.
BootPoolDisks(c) ==
  LET devs   == UNION {MemberDevs(c, x) : x \in DOMAIN c.drives} \cup (c.layout.vdevs \ {Unknown})
      guid(d) == IF Signature(c, d) = "zfs" THEN c.guid ELSE Unknown
      lookup == [disks |-> [d \in devs |-> DisksByDevice(c, d)], virtual |-> {},
                 written |-> [d \in devs |-> [type |-> Signature(c, d), guid |-> guid(d)]]]
  IN  IF c.layout = Unknown THEN Unknown ELSE PoolDisks(c.layout, lookup).disks

\* Slip: a label decides, whatever the layout says.
SlipBootByLabel(c, node) ==
  /\ \E m \in c.mounts : m.point = "/" /\ m.dev = "pool"
  /\ \E l \in Leaves(c.drives[node]) : SignatureOf(c, c.drives[node], l) = "zfs"

\* The layout decides where there is one; a label names a pool by its name only.
CarriesBootPool(c, node) ==
  /\ \E m \in c.mounts : m.point = "/" /\ m.dev = "pool"
  /\ IF BootPoolDisks(c) # Unknown THEN node \in BootPoolDisks(c)
     ELSE \/ \E l \in Leaves(c.drives[node]) : SignatureOf(c, c.drives[node], l) = "zfs"
          \/ \E d \in MemberDevs(c, node) \ {l.dev : l \in Leaves(c.drives[node])} : Signature(c, d) = "zfs"

\* Unknown where nothing was found and something was not read.
DiskUsage(c, node) ==
  LET merged == UsedFor(c, node)
  IN  IF c.container \/ c.mounts = Unknown THEN [uses |-> Unknown, boot |-> FALSE]
      ELSE IF merged = {} /\ (WasNotRead(c, c.drives[node]) \/ Unjoinable(c, node))
           THEN [uses |-> Unknown, boot |-> FALSE]
      ELSE [uses |-> merged,
            boot |-> (\E u \in merged : "/" \in u.mounts) \/ CarriesBootPool(c, node)]

-----------------------------------------------------------------------------
(* A machine of two drives, d with a partition p and e, and two devices    *)
(* that may be stacked on each other.                                      *)

Numbers == {"d", "p", "e", "s", "t"}

Machines ==
  {[drives |-> [D |-> [dev |-> "d", holders |-> dh, parts |-> parts],
                E |-> [dev |-> "e", holders |-> eh, parts |-> {}]],
    stacked |-> [S |-> [dev |-> "s", holders |-> sh], T |-> [dev |-> "t", holders |-> th]],
    mounts |-> {}, swaps |-> swaps, btrfs |-> btrfs, container |-> FALSE, layout |-> Unknown, guid |-> "1",
    signatures |-> [n \in Numbers |-> IF n \in UNION btrfs THEN "btrfs" ELSE IF n = zfs THEN "zfs" ELSE "none"]] :
     dh \in SUBSET {"T"}, eh \in SUBSET {"S"},
     parts \in {{}} \cup {{[dev |-> "p", holders |-> ph]} : ph \in SUBSET {"S"}},
     sh \in SUBSET {"T"}, th \in SUBSET {"S"}, swaps \in {{}, {"p"}, {"t"}},
     btrfs \in {{}, {{"p"}}, {{"p", "e"}}, {{"t", "d"}}}, zfs \in {"none", "d", "p", "t"}}

AskAboutUses == \E c \in Machines : Ask("uses", c)

\* A root pool is mounted with its layout or without; the layout names its members,
\* or one that is followed nowhere, and the labels may be those of another pool.
AFilesystemIsMounted ==
  /\ topic = "uses" /\ input.mounts = {}
  /\ \/ \E m \in {[dev |-> d, source |-> Unknown, point |-> "/"] :
                    d \in {n \in Numbers : input.signatures[n] = "none"}}
                 \cup {[dev |-> "anonymous", source |-> d, point |-> "/"] : d \in UNION input.btrfs} :
          Build("uses", [input EXCEPT !.mounts = {m}])
     \/ \E layout \in {Unknown} \cup [guid : {"1", "2"}, vdevs : {{"d"}, {"p", "e"}, {"t", Unknown}}] :
          Build("uses", [input EXCEPT !.mounts = {[dev |-> "pool", source |-> Unknown, point |-> "/"]},
                                      !.layout = layout])

AskAboutPools ==
  \E on \in [{"x", "y"} -> {{}, {"D"}, {"E"}}], virtual \in SUBSET {"x", "y"},
     layout \in [guid : {"1", Unknown}, vdevs : (SUBSET {"x", "y", "file", Unknown}) \ {{}}],
     written \in [{"x", "y"} -> [type : {"none", "ext4"}, guid : {Unknown}] \cup
                                  [type : {"zfs"}, guid : {"1", "2", Unknown}]] :
    /\ \A v \in virtual : on[v] = {}
    /\ Ask("pools", [layout |-> layout, lookup |-> [disks |-> on, virtual |-> virtual, written |-> written]])

-----------------------------------------------------------------------------

\* What one failed reading leaves of a machine, where the reading itself says that
\* it failed or where the name of the stacked device is left to tell of a use.
Refusals(c) ==
  {[c EXCEPT !.signatures = Unknown], [c EXCEPT !.swaps = Unknown], [c EXCEPT !.btrfs = Unknown],
   [c EXCEPT !.mounts = Unknown], [c EXCEPT !.drives.D.dev = Unknown], [c EXCEPT !.drives.D.parts = Unknown],
   [c EXCEPT !.drives.D.parts = {[p EXCEPT !.dev = Unknown] : p \in @}],
   [c EXCEPT !.stacked = [x \in {"T"} |-> @[x]]]}

\* Reads that fail in silence: the holders of a device cannot be listed, the source
\* of a mount or a swap has no node to ask, the entry of a device is not read.
SilentRefusals(c) ==
  {[c EXCEPT !.drives.D.holders = {}], [c EXCEPT !.swaps = {}],
   [c EXCEPT !.drives.D.parts = {[p EXCEPT !.holders = {}] : p \in @}],
   [c EXCEPT !.stacked = [x \in DOMAIN @ |-> [@[x] EXCEPT !.holders = {}]]],
   [c EXCEPT !.mounts = {[m EXCEPT !.source = Unknown] : m \in @}]}
  \cup {[c EXCEPT !.signatures[n] = "none"] : n \in DOMAIN c.signatures}

StaysInUse(refused) ==
  \A node \in DOMAIN input.drives :
    DiskUsage(input, node).uses \notin {{}, Unknown} =>
      \A c \in refused : DiskUsage(c, node).uses # {}

\* A drive that is in use is never shown as free because of a reading that is known
\* to have failed: it is shown in use, or what it is used for is shown as unknown.
\* Nothing is promised of reads that fail in silence.
UnreadIsNeverUnused == topic = "uses" => StaysInUse(Refusals(input))

\* "Not mounted is claimed only when every source that could have named the disk
\* was read": the same of the silent ones, which break it.
NotMountedOnlyWhenAllWasRead ==
  topic = "uses" => StaysInUse(Refusals(input)) /\ StaysInUse(SilentRefusals(input))

\* The numbers of everything a device is built from, itself included: the reference,
\* which goes down from a filesystem where the code goes up from the drives.
Below(c, dev) ==
  LET parts(S) == {n \in Numbers : \/ \E x \in DOMAIN c.drives : \E l \in Leaves(c.drives[x]) :
                                        l.dev = n /\ \E h \in l.holders : c.stacked[h].dev \in S
                                   \/ \E h \in DOMAIN c.stacked :
                                        c.stacked[h].dev = n /\ \E g \in c.stacked[h].holders : c.stacked[g].dev \in S}
      down[n \in 0..4] == IF n = 0 THEN {dev} ELSE down[n-1] \cup parts(down[n-1])
  IN  down[4]

DrivesBeneath(c, devs) ==
  {x \in DOMAIN c.drives :
     \E l \in Leaves(c.drives[x]) : l.dev \in UNION {Below(c, d) : d \in devs \cap Numbers}}

\* A filesystem is said to lie on exactly the drives it is built from, and exactly
\* those drives, where what they are used for is known, carry the system.
SystemDrivesAreThoseBeneathIt ==
  topic = "uses" =>
    \A m \in input.mounts :
      LET from == {m.dev, m.source} \cup UNION {g \in input.btrfs : m.source \in g}
      IN  m.dev # "pool" =>
            /\ DisksOf(input, m) = DrivesBeneath(input, from)
            /\ {x \in DOMAIN input.drives : DiskUsage(input, x).boot} = DrivesBeneath(input, from)

\* A system that runs from a pool whose layout was read is on no drive that only
\* bears a label of the pool's name, and on each drive beneath its members where
\* they were all found and what the drive is used for is known.
PoolsOfOneNameAreToldApart ==
  topic = "uses" /\ input.layout # Unknown =>
    LET boots  == {x \in DOMAIN input.drives : DiskUsage(input, x).boot}
        known  == {x \in DOMAIN input.drives : DiskUsage(input, x).uses # Unknown}
        sign   == input.signatures
        vdevs  == input.layout.vdevs
        ours   == {n \in Numbers : sign[n] = "zfs" /\ input.guid = input.layout.guid}
        found(v) == /\ v # Unknown /\ (sign[v] = "none" \/ v \in ours)
                    /\ DrivesBeneath(input, {v}) # {}
    IN  /\ boots \subseteq DrivesBeneath(input, vdevs \cup ours)
        /\ (\A v \in vdevs : found(v)) => DrivesBeneath(input, vdevs) \cap known = boots

\* A pool is never put on a drive whose own label says that it belongs to something
\* else, and a member that was followed nowhere is admitted to.
NoPoolIsPutOnAStranger ==
  topic = "pools" =>
    LET got == PoolDisks(input.layout, input.lookup)
        belongs(n) == \/ input.lookup.written[n].type = "none"
                      \/ /\ input.lookup.written[n].type = "zfs"
                         /\ Unknown \in {input.layout.guid, input.lookup.written[n].guid}
                              \/ input.lookup.written[n].guid = input.layout.guid
    IN  /\ \A d \in got.disks : \E n \in {"x", "y"} : d \in input.lookup.disks[n] /\ belongs(n)
        /\ ~got.lost => \A v \in input.layout.vdevs \cap {"x", "y"} :
                          v \in input.lookup.virtual \/ (input.lookup.disks[v] # {} /\ belongs(v))
=============================================================================
