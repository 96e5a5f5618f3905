----------------------------- MODULE MountRules -----------------------------
(***************************************************************************)
(* Which mounts of the table another mount hides, so that asking about a   *)
(* filesystem at its mountpoint would be answered by a different one.  The *)
(* reference is the kernel's own walk along a path, from the root of the   *)
(* process down, into whatever is mounted where the walk has got to.       *)
(*                                                                         *)
(* A row is [parent, point]; rows are known by their position, which is    *)
(* their mount id, and Outside is the id of a mount the process cannot see.*)
(* A path is the sequence of its components, the root's being empty.       *)
(***************************************************************************)
EXTENDS Readings

CONSTANTS
  Steps,      \* components of paths
  MaxDepth,   \* bound: components of one path
  MaxTable    \* bound: rows of the table

ASSUME MountsAreBounded == {MaxDepth, MaxTable} \subseteq Nat

Outside == 0
Root    == <<>>
Paths   == UNION {[1..n -> Steps] : n \in 0..MaxDepth}

StrictPrefixes(path) == {SubSeq(path, 1, n) : n \in 0..Len(path)-1}

\* Slip: one mount at the root is enough, so the root of a process nobody confined
\* to a directory is taken for something mounted on such a directory.
SlipOnAChrootDirectory(rows) ==
  {m \in DOMAIN rows : rows[m].point = Root /\ rows[m].parent = Outside}

\* A process confined to a directory sees no row for its root: what is mounted at
\* the root, beside others on a mount it cannot see, is mounted on that directory.
OnAChrootDirectory(rows) ==
  {m \in DOMAIN rows :
     /\ rows[m].point = Root /\ rows[m].parent = Outside
     /\ \E n \in DOMAIN rows \ {m} : rows[n].parent = Outside}

Stacked(rows) ==
  {m \in DOMAIN rows : rows[m].parent # Outside /\ rows[rows[m].parent].point = rows[m].point}

\* Slip: what is mounted on the root is where a path starts.
SlipOnRoot(rows) == OnAChrootDirectory(rows)

\* A path starts at the root of the process, below what was mounted on it later.
OnRoot(rows) ==
  LET roots == {m \in DOMAIN rows : rows[m].point = Root /\ rows[m].parent = Outside}
                 \ OnAChrootDirectory(rows)
  IN  {m \in Stacked(rows) : rows[m].parent \in roots} \cup OnAChrootDirectory(rows)

Covered(rows) == {rows[m].parent : m \in Stacked(rows) \ OnRoot(rows)}

\* Slip: only the mountpoint itself is looked at, not what is above it.
SlipCutOff(rows) == OnRoot(rows)

\* Off the way of every path: something is mounted on the same mount further up.
CutOff(rows) ==
  LET occupied == {<<rows[m].parent, rows[m].point>> : m \in DOMAIN rows \ OnRoot(rows)}
  IN  OnRoot(rows) \cup
        {m \in DOMAIN rows : \E above \in StrictPrefixes(rows[m].point) :
                               <<rows[m].parent, above>> \in occupied}

\* A parent is a row further up the table, so the chains above the rows all end.
HiddenMounts(rows) ==
  LET cut == CutOff(rows)
      unreachable[m \in DOMAIN rows] ==
        m \in cut \/ (rows[m].parent # Outside /\ unreachable[rows[m].parent])
  IN  Covered(rows) \cup {m \in DOMAIN rows : unreachable[m]}

-----------------------------------------------------------------------------
(* The kernel's walk.                                                      *)

\* What is mounted on a mount at a place of it; Outside: nothing is.
MountedAt(rows, on, path) ==
  LET there == {m \in DOMAIN rows : rows[m].parent = on /\ rows[m].point = path}
  IN  IF there = {} THEN Outside ELSE CHOOSE m \in there : TRUE

\* The uppermost of what is mounted there, mounts on mounts included.
Top(rows, on, path) ==
  LET up[n \in 0..Len(rows)] ==
        IF n = 0 THEN on
        ELSE LET next == MountedAt(rows, up[n-1], path) IN IF next = Outside THEN up[n-1] ELSE next
  IN  up[Len(rows)]

\* The mount a path leads to, from the mount the process' root directory is of.
Reached(rows, root, path) ==
  LET walk[n \in 0..Len(path)] == IF n = 0 THEN root ELSE Top(rows, walk[n-1], SubSeq(path, 1, n))
  IN  walk[Len(path)]

-----------------------------------------------------------------------------

AskAboutMountTables ==
  \/ Ask("mount table", [rows |-> <<[parent |-> Outside, point |-> Root]>>, root |-> 1])
  \/ Ask("mount table", [rows |-> <<>>, root |-> Outside])

\* Mount, bind, move and propagation between them can put a mount on any other, at
\* any place beneath that one's own where nothing is yet.
Mount ==
  /\ topic = "mount table" /\ Len(input.rows) < MaxTable
  /\ \E parent \in DOMAIN input.rows \cup ({Outside} \cap {input.root}), point \in Paths :
       /\ parent # Outside => IsPrefix(input.rows[parent].point, point)
       /\ MountedAt(input.rows, parent, point) = Outside
       /\ Build("mount table", [input EXCEPT !.rows = Append(@, [parent |-> parent, point |-> point])])

\* A mount is told to be hidden exactly when the path of its mountpoint leads to a
\* different one: no filesystem is described with another's figures, and none that
\* could have been asked is given up.
HiddenIsWhatNoPathReaches ==
  (/\ topic = "mount table"
   /\ input.root = Outside => OnAChrootDirectory(input.rows) # {} \/
                               \A m \in DOMAIN input.rows : input.rows[m].parent = Outside => input.rows[m].point # Root) =>
    LET rows == input.rows
    IN  \A m \in DOMAIN rows :
          m \in HiddenMounts(rows) <=> Reached(rows, input.root, rows[m].point) # m

-----------------------------------------------------------------------------
(* From the mount table to the rows of the filesystems section: each       *)
(* filesystem asked for its figures once, at a mountpoint of it that is    *)
(* not hidden, and shown once, under all its mountpoints.  A filesystem is *)
(* known by its device: on maps every mount of the table to one.           *)

MountsOf(on, dev) == SelectSeq([m \in 1..Len(on) |-> m], LAMBDA m : on[m] = dev)

Reachable(rows, mounts) == SelectSeq(mounts, LAMBDA m : m \notin HiddenMounts(rows))

\* Slip: a mountpoint is asked before it is known whether something hides it.
SlipAskable(rows, mounts) == mounts

Askable(rows, mounts) == Reachable(rows, mounts)

\* Slip: a mountpoint that refuses ends it.
SlipFirstToAnswer(mounts, refusing) ==
  IF mounts = <<>> \/ Head(mounts) \in refusing THEN <<>> ELSE <<Head(mounts)>>

FirstToAnswer(mounts, refusing) ==
  LET answering == SelectSeq(mounts, LAMBDA m : m \notin refusing)
  IN  SubSeq(answering, 1, IF answering = <<>> THEN 0 ELSE 1)

\* Where a filesystem is asked, and what that comes to.
ReadSpace(rows, on, dev, refusing) ==
  LET mounts == Askable(rows, MountsOf(on, dev))
      at     == FirstToAnswer(mounts, refusing)
  IN  [at |-> at,
       says |-> IF at # <<>> THEN "figures" ELSE IF mounts = <<>> THEN "hidden" ELSE "refused"]

\* Slip: the row has the name that comes first in the table.
SlipNamed(rows, mounts) == Head(mounts)

Named(rows, mounts) == IF Reachable(rows, mounts) = <<>> THEN Head(mounts) ELSE Head(Reachable(rows, mounts))

\* One row for all mounts of a filesystem.
MountRow(rows, on, dev) ==
  LET mounts == MountsOf(on, dev)
      points == {rows[m].point : m \in ToSet(mounts)}
      name   == rows[Named(rows, mounts)].point
  IN  [name |-> name, others |-> points \ {name}]

-----------------------------------------------------------------------------

Filesystems == {1, 2}

\* Two filesystems over a table, and which mountpoints refuse: the figures of a
\* filesystem are those of the filesystem its path leads to, itself; it goes without
\* only where each mountpoint of it is hidden or refuses, and its row has the name of
\* one that leads to it, if there is one, and each of the others once.
FiguresAreOfTheFilesystem ==
  (topic = "mount table" /\ Len(input.rows) \in 1..3 /\ input.root # Outside) =>
    \A on \in [DOMAIN input.rows -> Filesystems], refusing \in SUBSET DOMAIN input.rows :
      \A dev \in Range(on) :
        LET rows     == input.rows
            leads(m) == Reached(rows, input.root, rows[m].point) = m
            own      == {m \in DOMAIN rows : on[m] = dev}
            space    == ReadSpace(rows, on, dev, refusing)
            row      == MountRow(rows, on, dev)
        IN  /\ \A m \in ToSet(space.at) : on[Reached(rows, input.root, rows[m].point)] = dev /\ m \notin refusing
            /\ (space.says # "figures") => \A m \in own : ~leads(m) \/ m \in refusing
            /\ space.says = "hidden" <=> \A m \in own : ~leads(m)
            /\ (\E m \in own : leads(m)) => \E m \in own : leads(m) /\ rows[m].point = row.name
            /\ row.others \cup {row.name} = {rows[m].point : m \in own} /\ row.name \notin row.others
=============================================================================
