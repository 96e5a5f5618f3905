---------------------------- MODULE LinuxReading ----------------------------
(***************************************************************************)
(* One reading of a Linux machine, taken step by step while the machine    *)
(* changes: devices are stacked on drives and taken down, cards are        *)
(* plugged and pulled, drives leave between two commands, a device hands   *)
(* out a list that never ends.                                             *)
(***************************************************************************)
EXTENDS Readings, Functions

CONSTANTS
  BlockDrives,  \* drives that /sys/block may list
  Uppers,       \* devices that may be stacked on them and on one another
  Bridges,      \* ports of the PCI tree
  Seated,       \* functions that may be in them
  MaxChanges,   \* bound: changes of the machine during one reading
  MaxOffset,    \* bound: places in a device's configuration space
  MaxHubs,      \* bound: hubs below the root
  MaxUsbDrives  \* bound: drives on them

ASSUME ReadingsAreBounded == {MaxChanges, MaxOffset} \subseteq Nat
ASSUME UsbTreesAreSmall == {MaxHubs, MaxUsbDrives} \subseteq Nat

-----------------------------------------------------------------------------
(* The stack over the drives: read_block notes who holds each drive,       *)
(* read_stacked follows the holders up.  over holds pairs <<lower, upper>>. *)

HoldersNow(s, d) == {u \in Uppers : <<d, u>> \in s.over}

\* Slip: a holder already noted is followed again.
SlipFollowed(s, u) == HoldersNow(s, u)

\* Whom the walk still has to ask once u is read.
Followed(s, u) == HoldersNow(s, u) \ (s.seen \cup {u})

\* What stood throughout is what still stands of it.
Changed(s, present, over) ==
  [s EXCEPT !.present = present, !.over = over, !.alive = @ \cap present,
            !.always = @ \cap over, !.changes = @ + 1]

ReadADrive ==
  /\ topic = "stack" /\ input.step = "drives"
  /\ LET d       == CHOOSE x \in input.left : TRUE
         holders == HoldersNow(input, d)
     IN  Build("stack", [input EXCEPT !.left = @ \ {d}, !.pending = @ \cup holders,
                                      !.found = @ \cup {<<d, u>> : u \in holders},
                                      !.step = IF input.left # {d} THEN "drives"
                                               ELSE IF input.pending \cup holders = {} THEN "read" ELSE "stacked"])

ReadAStackedDevice ==
  /\ topic = "stack" /\ input.step = "stacked"
  /\ \E u \in input.pending :
       LET left == input.pending \ {u}
           next == IF u \notin input.present THEN left ELSE left \cup Followed(input, u)
       IN  Build("stack", [input EXCEPT !.pending = next, !.seen = @ \cup {u}, !.asked[u] = @ + 1,
                                        !.found = @ \cup {<<u, v>> : v \in HoldersNow(input, u)},
                                        !.step = IF next = {} THEN "read" ELSE @])

StillReading(s) == s.step \in {"drives", "stacked"} /\ s.changes < MaxChanges

ADeviceIsStacked ==
  /\ topic = "stack" /\ StillReading(input)
  /\ \E u \in Uppers \ input.present, on \in SUBSET input.present \ {{}} :
       Build("stack", Changed(input, input.present \cup {u}, input.over \cup {<<d, u>> : d \in on}))

ADeviceIsTakenDown ==
  /\ topic = "stack" /\ StillReading(input)
  /\ \E u \in {x \in Uppers \cap input.present : HoldersNow(input, x) = {}} :
       Build("stack", Changed(input, input.present \ {u}, {e \in input.over : e[2] # u}))

ADriveIsPulled ==
  /\ topic = "stack" /\ StillReading(input)
  /\ \E d \in BlockDrives \cap input.present :
       Build("stack", Changed(input, input.present \ {d}, {e \in input.over : e[1] # d}))

-----------------------------------------------------------------------------
(* The ports of the PCI tree: the devices are listed once, then each port   *)
(* is asked for its children.                                              *)

In(s, p) == {c \in Seated : s.at[c] = p}

\* Slip: children of a port of which one is not in the list are none.
SlipPresentIn(s, p) == IF s.children[p] \subseteq s.listed THEN s.children[p] ELSE {}

\* What a port is told to hold: its children, as far as the list has them.
PresentIn(s, p) == s.children[p] \cap s.listed

\* What was ever in a port, nothing included, while the reading was taken.
Noted(s) == [s EXCEPT !.ever = [p \in Bridges |-> @[p] \cup {In(s, p)}]]

ReadAPort ==
  /\ topic = "ports" /\ input.left # {}
  /\ LET p == CHOOSE x \in input.left : TRUE
     IN  Build("ports", [input EXCEPT !.left = @ \ {p}, !.children[p] = In(input, p)])

\* A card comes with one function and may show more of them; it goes with all.
ACardComesOrGoes ==
  /\ topic = "ports" /\ input.left # {} /\ input.changes < MaxChanges
  /\ \E p \in Bridges :
       \E at \in {[c \in Seated |-> IF c \in In(input, p) THEN "out" ELSE input.at[c]]}
                  \cup {[input.at EXCEPT ![c] = p] : c \in In(input, "out")} :
         /\ at # input.at
         /\ Build("ports", Noted([input EXCEPT !.at = at, !.changes = @ + 1]))

-----------------------------------------------------------------------------
(* What the commands to one drive come to.                                 *)

Commands == <<"identify", "smart data", "smart thresholds">>

\* A reply as the driver hands it back.
Replies == [host : {0, 1}, driver : {0, 8, 6}, status : {0, 2}, moved : {"all", "part"}]

\* Slip: that not all of it was moved is not noticed.
SlipIsAnswered(r) == r.host = 0 /\ r.driver \in {0, 8} /\ r.status = 0

IsAnswered(r) == r.host = 0 /\ r.driver \in {0, 8} /\ r.status = 0 /\ r.moved = "all"

\* Slip: the first refusal is the last.
SlipNextCommand(s, answered) == IF answered THEN s.next + 1 ELSE Len(Commands) + 1

NextCommand(s, answered) == s.next + 1

DriveKinds == {"sata", "behind an expander", "native SAS"}

\* Only what speaks ATA is asked in ATA.
AskedInAta(kind) == kind # "native SAS"

OpenTheDrive ==
  /\ topic = "drive" /\ input.step = "open"
  /\ \E opens \in {o \in BOOLEAN : ~input.there => ~o} :
       Build("drive", IF opens THEN [input EXCEPT !.step = "asking", !.fds = @ + 1]
                      ELSE [input EXCEPT !.step = "read", !.refused = {"device"}])

SendACommand ==
  /\ topic = "drive" /\ input.step = "asking"
  /\ \E r \in Replies :
       LET label    == Commands[input.next]
           answered == IsAnswered(r)
           next     == NextCommand(input, answered)
       IN  /\ ~input.there => r.host # 0
           /\ Build("drive",
                [input EXCEPT !.next = next,
                   !.told = IF answered THEN @ \cup {label} ELSE @,
                   !.whole = IF r.host = 0 /\ r.status = 0 /\ r.moved = "all" THEN @ \cup {label} ELSE @,
                   !.refused = IF answered THEN @ ELSE @ \cup {label},
                   !.fds = IF next > Len(Commands) THEN @ - 1 ELSE @,
                   !.step = IF next > Len(Commands) THEN "read" ELSE @])

TheDriveLeaves ==
  topic = "drive" /\ input.step # "read" /\ input.there /\ Build("drive", [input EXCEPT !.there = FALSE])

-----------------------------------------------------------------------------
(* The capability list of a PCI device: pointers from place to place, 0    *)
(* where it ends.  Whoever is not root reads the header only.              *)

Header == 0

\* Slip: a list read as far as the header is a list without the capability.
SlipStartsUnread(length) == FALSE

StartsUnread(length) == length <= Header

\* Slip: the walk does not note where it has been.
SlipGoesOn(s) == s.pointer # 0 /\ s.pointer <= s.length

GoesOn(s) == s.pointer # 0 /\ s.pointer \notin s.visited /\ s.pointer <= s.length

FollowThePointer ==
  /\ topic = "capabilities" /\ input.says = "walking"
  /\ Build("capabilities",
       IF StartsUnread(input.length) THEN [input EXCEPT !.says = "unread"]
       ELSE IF ~GoesOn(input) THEN [input EXCEPT !.says = "not express"]
       ELSE IF input.express = input.pointer THEN [input EXCEPT !.says = "express"]
       ELSE [input EXCEPT !.visited = @ \cup {input.pointer}, !.pointer = input.list[input.pointer],
                          !.steps = @ + 1])

-----------------------------------------------------------------------------

\* Nothing or one device is stacked at first, so that the changes build the rest.
AskAboutReadingsTaken ==
  \/ \E on \in SUBSET BlockDrives, u \in Uppers :
       LET over == {<<d, u>> : d \in on}
           present == BlockDrives \cup (IF on = {} THEN {} ELSE {u})
       IN  Ask("stack", [present |-> present, over |-> over, alive |-> present, always |-> over, changes |-> 0,
                         left |-> BlockDrives, step |-> "drives", found |-> {}, pending |-> {}, seen |-> {},
                         asked |-> [x \in Uppers |-> 0]])
  \/ \E at \in [Seated -> Bridges \cup {"out"}] :
       LET listed == {c \in Seated : at[c] # "out"}
       IN  Ask("ports", [at |-> at, listed |-> listed, left |-> Bridges, children |-> [p \in Bridges |-> {}],
                         ever |-> [p \in Bridges |-> {{c \in Seated : at[c] = p}}], changes |-> 0])
  \/ \E kind \in DriveKinds :
       Ask("drive", [kind |-> kind, there |-> TRUE, step |-> IF AskedInAta(kind) THEN "open" ELSE "read",
                     next |-> 1, told |-> {}, whole |-> {}, refused |-> {}, fds |-> 0])
  \/ \E list \in [1..MaxOffset -> 0..MaxOffset], pointer, express \in 0..MaxOffset, length \in {Header, MaxOffset} :
       Ask("capabilities", [list |-> list, pointer |-> pointer, express |-> express, length |-> length,
                            first |-> pointer, visited |-> {}, steps |-> 0, says |-> "walking"])

TakeTheReading ==
  \/ ReadADrive \/ ReadAStackedDevice \/ ADeviceIsStacked \/ ADeviceIsTakenDown \/ ADriveIsPulled
  \/ ReadAPort \/ ACardComesOrGoes
  \/ OpenTheDrive \/ SendACommand \/ TheDriveLeaves
  \/ FollowThePointer

-----------------------------------------------------------------------------

\* However devices are stacked and taken down meanwhile, what stands on a drive that
\* was there throughout is read, level by level, and no device is asked twice.
StandingStacksAreRead ==
  topic = "stack" =>
    LET Up(S) == {e \in input.always : e[1] \in S}
        lifts == FoldLeft(LAMBDA S, k : S \cup {e[2] : e \in Up(S)}, BlockDrives \cap input.alive,
                          [k \in 1..Cardinality(Uppers) |-> k])
    IN  /\ \A u \in Uppers : input.asked[u] <= 1
        /\ input.step = "read" => Up(lifts) \subseteq input.found

\* A port told to be free was free at some moment of the reading, and what it is told
\* to hold was in it at one.
PortsAreToldAsTheyWere ==
  topic = "ports" =>
    \A p \in Bridges \ input.left :
      IF PresentIn(input, p) = {} THEN {} \in input.ever[p] ELSE \E in \in input.ever[p] : PresentIn(input, p) \subseteq in

\* Every command to a drive is answered in full or its refusal kept, whenever the drive
\* leaves and whichever fail; the descriptor is closed.
DrivesAreToldOrExcused ==
  (topic = "drive" /\ input.step = "read") =>
    /\ input.fds = 0
    /\ input.told \subseteq input.whole
    /\ (AskedInAta(input.kind) /\ "device" \notin input.refused) => input.told \cup input.refused = Range(Commands)

\* The walk ends on any list, and a device with the capability on its list is never
\* told to have none, read by whomever.
CapabilityIsFoundOrUnread ==
  topic = "capabilities" =>
    LET reached == FoldLeft(LAMBDA S, k : S \cup {input.list[i] : i \in S \ {0}}, {input.first}, [k \in 1..MaxOffset |-> k])
    IN  /\ input.steps <= MaxOffset
        /\ input.says = "express" => input.express \in reached \ {0}
        /\ input.says = "not express" => input.express \notin reached \ {0}

-----------------------------------------------------------------------------
(* What a Linux reading notes of the USB devices its drives hang on.  A    *)
(* USB 3 hub is two hubs in one case, one half on either side of the tree: *)
(* SuperSpeed, or the side a USB 2 device stays on.  Hub 0 is the root.    *)
(* A half is <<hub, side>>, the k-th drive found <<k, "drive">>.            *)

Sides == {"super", "usb2"}
OtherSide(side) == IF side = "super" THEN "usb2" ELSE "super"

-----------------------------------------------------------------------------
(* The tree as it is plugged.  A hub is [parent, both]; a drive is         *)
(* [parent, side].                                                         *)

Both(t, hub) == IF hub = 0 THEN t.bothRoots ELSE t.hubs[hub].both

\* A device's path, from itself up to the root hub of its side.
Chain(t, k) ==
  LET above[n \in 0..Len(t.hubs)] ==
        IF n = 0 THEN <<<<0, t.drives[k].side>>>>
        ELSE <<<<n, t.drives[k].side>>>> \o above[t.hubs[n].parent]
  IN  <<<<k, "drive">>>> \o above[t.drives[k].parent]

IsDrive(x)     == x[2] = "drive"
SideOf(t, x)   == IF IsDrive(x) THEN t.drives[x[1]].side ELSE x[2]
ParentOf(t, x) == IF IsDrive(x) THEN t.drives[x[1]].parent ELSE t.hubs[x[1]].parent

\* The hub the other half of a device's socket belongs to; none on a root hub, nor
\* where that hub has one half only.
TwinHub(t, x) ==
  IF ~IsDrive(x) /\ x[1] = 0 THEN {}
  ELSE IF Both(t, ParentOf(t, x)) THEN {<<ParentOf(t, x), OtherSide(SideOf(t, x))>>} ELSE {}

-----------------------------------------------------------------------------
(* What is noted.                                                          *)

\* Slip: the other half is noted of a drive's own socket only.
SlipRecordUsbDevice(t, found, x) ==
  IF x \in found THEN found ELSE found \cup {x} \cup (IF IsDrive(x) THEN TwinHub(t, x) ELSE {})

\* A device met before is done with, and so is one noted as somebody's other half.
RecordUsbDevice(t, found, x) ==
  IF x \in found THEN found ELSE found \cup {x} \cup TwinHub(t, x)

ReadUsb(t) ==
  FoldLeft(LAMBDA found, k : FoldLeft(LAMBDA f, x : RecordUsbDevice(t, f, x), found, Chain(t, k)),
           {}, [k \in DOMAIN t.drives |-> k])

-----------------------------------------------------------------------------
(* The capabilities of one device: what its version, the kernel and the    *)
(* device itself say of its BOS descriptor.                                *)

Versions == {"2.00", "3.20", "unread"}

DeclaresBos(version) == version # "2.00"

\* Slip: a device that stalls the request is one that refused it.
SlipReadBos(e) ==
  IF ~DeclaresBos(e.version) THEN "none"
  ELSE IF e.published THEN "declared"
  ELSE IF ~e.numbered THEN "nothing"
  ELSE IF e.answer = "bos" THEN "declared" ELSE "refused"

ReadBos(e) ==
  IF ~DeclaresBos(e.version) THEN "none"
  ELSE IF e.published THEN "declared"
  ELSE IF ~e.numbered THEN "nothing"
  ELSE CASE e.answer = "stall" -> "none"
         [] e.answer \in {"garbage", "error"} -> "refused"
         [] e.answer = "bos"   -> "declared"

\* What the builder makes of it: the capability told, and whether a refusal is.
UsbEndTold(e) ==
  [capability |-> CASE ReadBos(e) = "none"     -> "as it runs"
                    [] ReadBos(e) = "declared" -> IF e.decodes THEN "as declared" ELSE "unread"
                    [] OTHER                   -> "unread",
   refused |-> ReadBos(e) = "refused"]

-----------------------------------------------------------------------------

AskAboutUsbTrees ==
  \/ \E both \in BOOLEAN : Ask("usb tree", [bothRoots |-> both, hubs |-> <<>>, drives |-> <<>>])
  \/ \E version \in Versions, published, numbered, decodes \in BOOLEAN,
        answer \in {"bos", "stall", "garbage", "error"} :
       Ask("bos", [version |-> version, published |-> published, numbered |-> numbered,
                   decodes |-> decodes, answer |-> answer])

\* A hub has both halves only where the socket it is in has, and is cabled for them.
AHubIsPlugged ==
  /\ topic = "usb tree" /\ Len(input.hubs) < MaxHubs /\ input.drives = <<>>
  /\ \E parent \in 0..Len(input.hubs), both \in BOOLEAN :
       /\ both => Both(input, parent)
       /\ Build("usb tree", [input EXCEPT !.hubs = Append(@, [parent |-> parent, both |-> both])])

AUsbDriveIsPlugged ==
  /\ topic = "usb tree" /\ Len(input.drives) < MaxUsbDrives
  /\ \E parent \in 0..Len(input.hubs), side \in Sides :
       /\ side = "super" => Both(input, parent)
       /\ Build("usb tree", [input EXCEPT !.drives = Append(@, [parent |-> parent, side |-> side])])

-----------------------------------------------------------------------------

\* In whatever order the drives are found, each device above one is noted, and for each
\* the hub of its socket's other half, though one noted as that is not looked at again.
OtherHalvesAreNoted ==
  topic = "usb tree" =>
    \A k \in DOMAIN input.drives : \A x \in Range(Chain(input, k)) :
      x \in ReadUsb(input) /\ TwinHub(input, x) \subseteq ReadUsb(input)

\* A device that has no BOS is told by what it runs at, and is excused of none; one that
\* may have a better one is told unread, with its refusal where it gave one.
AnUnreadEndIsExcused ==
  topic = "bos" =>
    LET told  == UsbEndTold(input)
        wasAsked == DeclaresBos(input.version) /\ ~input.published /\ input.numbered
    IN  /\ told.capability = "as it runs" <=> ~DeclaresBos(input.version) \/ (wasAsked /\ input.answer = "stall")
        /\ told.refused <=> wasAsked /\ input.answer \in {"garbage", "error"}
        /\ told.refused => told.capability = "unread"
=============================================================================
