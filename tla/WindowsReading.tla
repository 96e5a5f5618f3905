---------------------------- MODULE WindowsReading ----------------------------
(***************************************************************************)
(* One reading of the drives of a Windows machine.  Drives are listed      *)
(* under two interface classes, the ordinary one and that of the drives    *)
(* Windows hides in a Storage Spaces pool, and only then opened one by     *)
(* one; meanwhile drives are pooled, taken out of a pool and pulled.       *)
(***************************************************************************)
EXTENDS Readings, Functions

CONSTANTS
  WindowsDrives,  \* drives of the machine
  MaxDriveMoves,  \* bound: times a drive is pooled, taken out or pulled
  MaxPluggedIn,   \* bound: devices below the root hub
  MaxDrivesHere   \* bound: drives on them; a card reader is one device with several

ASSUME MovesAreBounded == MaxDriveMoves \in Nat
ASSUME PluggedIsBounded == {MaxPluggedIn, MaxDrivesHere} \subseteq Nat

Classes == <<"ordinary", "hidden">>

-----------------------------------------------------------------------------
(* Two lists of interfaces, then a record for each interface.  A record is *)
(* [drive, class, opened, numbered, backs]; backs is whether it names the   *)
(* Space it backs, which only a hidden interface does.                     *)

\* Slip: a list that ends with an error is one that has ended.
SlipNoteListEnd(said, short) == said

NoteListEnd(said, short) == IF short THEN said \cup {"list"} ELSE said

\* One class is listed: not at all, or up to some interface, some of which do not say
\* where they are.  Only the last is silent about it where the list cannot be opened.
ListInterfaces ==
  /\ topic = "interfaces" /\ input.step <= Len(Classes)
  /\ LET class == Classes[input.step]
         there == SetToSeq({d \in WindowsDrives : class \in input.classes[d]})
     IN \/ Build("interfaces", [input EXCEPT !.step = @ + 1, !.unlisted = TRUE])
        \/ \E n \in 0..Len(there), short \in BOOLEAN : \E dumb \in SUBSET (1..n), names \in BOOLEAN :
             /\ ~short => n = Len(there)
             /\ Build("interfaces",
                  [input EXCEPT
                     !.step = @ + 1,
                     !.said = NoteListEnd(@, short) \cup (IF dumb = {} THEN {} ELSE {"interface"}),
                     !.left = @ \o [i \in 1..Cardinality(1..n \ dumb) |->
                                      [drive |-> there[SetToSortSeq(1..n \ dumb, <)[i]],
                                       class |-> class, backs |-> class = "hidden" /\ names]]])

\* Any drive has a number, but an interface that has gone cannot be opened any more.
OpenAnInterface ==
  /\ topic = "interfaces" /\ input.step > Len(Classes) /\ input.left # <<>>
  /\ LET i == Head(input.left) IN
     \E opened, numbered \in BOOLEAN :
       /\ opened => i.class \in input.classes[i.drive]
       /\ numbered => opened
       /\ Build("interfaces",
            [input EXCEPT !.left = Tail(@),
                          !.records = Append(@, [drive |-> i.drive, class |-> i.class, opened |-> opened,
                                                 numbered |-> numbered, hidden |-> i.class = "hidden",
                                                 backs |-> i.backs])])

ADriveIsMoved ==
  /\ topic = "interfaces" /\ input.moves < MaxDriveMoves
  /\ input.step <= Len(Classes) \/ input.left # <<>>
  /\ \E d \in WindowsDrives, to \in SUBSET Range(Classes) :
       /\ input.classes[d] \notin {to, {}}
       /\ Build("interfaces", [input EXCEPT !.classes[d] = to, !.stayed = @ \ {d}, !.moves = @ + 1])

\* The drive number says that two interfaces are one drive.
TwinOfHidden(records, k) ==
  IF ~records[k].hidden \/ ~records[k].numbered THEN {}
  ELSE {j \in DOMAIN records : /\ ~records[j].hidden /\ records[j].numbered
                               /\ records[j].drive = records[k].drive}

\* Slip: the hidden double is dropped whole.
SlipFoldHiddenTwin(kept, twin) == kept

FoldHiddenTwin(kept, twin) == [kept EXCEPT !.hidden = TRUE, !.backs = @ \/ twin.backs]

\* Slip: only what could not be opened is taken for a double.
SlipIsDouble(records, k) == TwinOfHidden(records, k) # {} /\ ~records[k].opened

IsDouble(records, k) == TwinOfHidden(records, k) # {}

WithoutDoubles(records) ==
  LET folded(k) == FoldLeft(FoldHiddenTwin, records[k],
                            SetToSeq({records[j] : j \in {i \in DOMAIN records : k \in TwinOfHidden(records, i)}}))
  IN  {folded(k) : k \in {i \in DOMAIN records : ~IsDouble(records, i)}}

\* The drives that are told to back a Space, and so to be in use.
BacksASpace(kept) == {r.drive : r \in {x \in kept : x.hidden /\ x.numbered /\ x.backs}}

-----------------------------------------------------------------------------
(* The commands to one disk, through the one handle it could be opened by. *)

Transports == {"nvme", "ata", "image file", "space"}

CommandsTo(transport) ==
  IF transport = "nvme" THEN <<"identify controller", "smart log">>
  ELSE <<"identify", "smart data", "smart thresholds">>

\* What a command brings: all of the answer, part of it, a status or an error.
Comes == {"whole", "part", "status", "error"}

\* Slip: a command that ended well has answered.
SlipIsAnswer(came) == came \in {"whole", "part"}

IsAnswer(came) == came = "whole"

\* Slip: whatever goes wrong without the rights is put down to them.
SlipWhyRefused(passthrough, came) == IF ~passthrough THEN "needs Administrator" ELSE "as the disk says"

WhyRefused(passthrough, came) ==
  IF ~passthrough /\ came = "error" THEN "needs Administrator" ELSE "as the disk says"

\* Read and write for commands of its own; failing that, for what Windows knows.
OpenTheDisk ==
  /\ topic = "disk" /\ input.step = "open"
  /\ \E as \in {"passthrough", "queries", "not"} :
       Build("disk",
         CASE as = "not" -> [input EXCEPT !.step = "read", !.refused = [c \in {"device"} |-> "as the disk says"]]
           [] as = "queries" /\ input.transport # "nvme" ->
                [input EXCEPT !.step = "read", !.opened = as,
                              !.refused = [c \in {"identify"} |-> "needs Administrator"]]
           [] OTHER -> [input EXCEPT !.step = "asking", !.opened = as])

\* An ATA command is sent straight and, where that brings nothing, wrapped in SCSI.
AskTheDisk ==
  /\ topic = "disk" /\ input.step = "asking"
  /\ \E straight, wrapped \in Comes :
       LET label    == CommandsTo(input.transport)[input.next]
           answered == IsAnswer(straight) \/ (input.transport # "nvme" /\ IsAnswer(wrapped))
           last     == input.next = Len(CommandsTo(input.transport))
           why      == IF input.transport = "nvme" THEN WhyRefused(input.opened = "passthrough", straight)
                       ELSE "as the disk says"
       IN  Build("disk",
             [input EXCEPT
                !.next = @ + 1,
                !.step = IF last THEN "read" ELSE @,
                !.told = IF answered THEN @ \cup {label} ELSE @,
                !.whole = IF straight = "whole" \/ (input.transport # "nvme" /\ wrapped = "whole")
                          THEN @ \cup {label} ELSE @,
                !.cut = IF straight \in {"part", "status"} THEN @ \cup {label} ELSE @,
                !.refused = IF answered THEN @ ELSE (label :> why) @@ @])

\* Slip: a Space has no health, and so nothing of it was refused.
SlipHealthRefusals(transport, refused, poolRead) ==
  IF transport \in {"image file", "space"} THEN {} ELSE DOMAIN refused

\* What is told to be refused of a disk's health.  An image file has none; a Space's is
\* that of its drives, which are listed or hidden.
HealthRefusals(transport, refused, poolRead) ==
  CASE transport = "image file" -> {}
    [] transport = "space"      -> IF poolRead THEN {} ELSE {"pool members"}
    [] OTHER                    -> DOMAIN refused

-----------------------------------------------------------------------------

AskAboutWindowsReadings ==
  \/ \E classes \in [WindowsDrives -> (SUBSET Range(Classes)) \ {{}}] :
       Ask("interfaces", [classes |-> classes, stayed |-> WindowsDrives, moves |-> 0, step |-> 1, unlisted |-> FALSE,
                          said |-> {}, left |-> <<>>, records |-> <<>>])
  \/ \E transport \in Transports, poolRead \in BOOLEAN :
       Ask("disk", [transport |-> transport, poolRead |-> poolRead, step |-> "open", opened |-> "not", next |-> 1,
                    told |-> {}, whole |-> {}, cut |-> {}, refused |-> <<>>])

ReadingIsOver == input.step > Len(Classes) /\ input.left = <<>>

-----------------------------------------------------------------------------

\* A drive that stays where it is is listed, or it is said that a list was cut short or
\* that an interface was not read, unless a list could not even be opened.
EveryDriveIsListed ==
  (topic = "interfaces" /\ ReadingIsOver /\ ~input.unlisted) =>
    \A d \in input.stayed : input.said # {} \/ \E r \in WithoutDoubles(input.records) : r.drive = d

\* No drive whose number was read is listed twice, whatever class it moves to meanwhile.
NoDriveIsListedTwice ==
  (topic = "interfaces" /\ ReadingIsOver) =>
    \A r, s \in WithoutDoubles(input.records) : r.numbered /\ s.numbered /\ r.drive = s.drive => r = s

\* A drive that named the Space it backs is told to back it, under whichever of its
\* interfaces it is listed.
PooledDriveIsNotFree ==
  (topic = "interfaces" /\ ReadingIsOver) =>
    \A r \in Range(input.records) : r.hidden /\ r.numbered /\ r.backs => r.drive \in BacksASpace(WithoutDoubles(input.records))

\* Of a disk that was opened each command is answered in full, by whichever way could,
\* or refused; and a right is asked for only where it would have been of use.
DisksAreToldOrExcused ==
  (topic = "disk" /\ input.step = "read") =>
    LET commands == Range(CommandsTo(input.transport))
        of       == DOMAIN input.refused
    IN  /\ input.told = input.whole /\ input.told \cap of = {}
        /\ (input.opened = "passthrough" \/ (input.opened = "queries" /\ input.transport = "nvme")) =>
             input.told \cup of = commands
        /\ \A c \in of : input.refused[c] = "needs Administrator" => input.opened = "queries" /\ c \notin input.cut

\* Whether a disk's health could not be read is said of every disk that has one.
HealthIsExcused ==
  (topic = "disk" /\ input.step = "read") =>
    LET unread == HealthRefusals(input.transport, input.refused, input.poolRead)
    IN  CASE input.transport = "image file" -> unread = {}
          [] input.transport = "space"      -> (unread = {}) = input.poolRead
          [] OTHER -> unread = {} => Range(CommandsTo(input.transport)) \subseteq input.told

-----------------------------------------------------------------------------
(* What a Windows reading tells of the links of USB drives.  Each hub is   *)
(* opened once and asked once about each port a device above some drive is *)
(* in; four answers about a port and the device's own descriptors, any of  *)
(* which may be missing, are put together.                                 *)

RootHub == 0

-----------------------------------------------------------------------------
(* The devices above each drive are recorded in turn, nearest first.  A    *)
(* device is [hub, placed]: placed is whether the hub it is in published a  *)
(* usable port number for it, and an interface to open.                    *)

PluggedAbove(s, x) ==
  LET above[n \in 0..Len(s.devices)] == IF n = RootHub THEN <<>> ELSE <<n>> \o above[s.devices[n].hub]
  IN  above[x]

\* Slip: what went wrong with a port is said to the first who asks.
SlipKnownError(s, x) == FALSE

\* Whether a device dealt with before had no place or no answer.
KnownError(s, x) == x \in s.unasked \/ s.ports[x] = "error"

\* Slip: a drive's error is that of the last device above it.
SlipErrorOf(errors) == Last(errors)

ErrorOf(errors) == Head(errors)

\* One device has been recorded; when it was the last above its drive, the drive's is said.
Recorded(s, failed) ==
  LET errors == Append(s.errors, failed)
  IN  IF Len(s.chain) > 1 THEN [s EXCEPT !.chain = Tail(@), !.errors = errors]
      ELSE LET told == Append(s.told, ErrorOf(errors)) IN
           IF Len(told) = Len(s.drives)
           THEN [s EXCEPT !.chain = <<>>, !.told = told, !.errors = <<>>, !.step = "read",
                          !.open = [h \in DOMAIN @ |-> IF @[h] = "open" THEN "closed" ELSE @[h]]]
           ELSE [s EXCEPT !.chain = PluggedAbove(s, s.drives[Len(told) + 1]), !.told = told, !.errors = <<>>]

KnownBefore(s, x) == x \in s.unasked \/ x \in DOMAIN s.ports

\* A hub opens or refuses when it is first asked for, and answers about a port or not.
RecordADevice ==
  /\ topic = "hub ports" /\ input.step = "reading"
  /\ LET x == Head(input.chain) device == input.devices[x] IN
     \/ /\ KnownBefore(input, x)
        /\ Build("hub ports", Recorded(input, KnownError(input, x)))
     \/ /\ ~KnownBefore(input, x) /\ ~device.placed
        /\ Build("hub ports", Recorded([input EXCEPT !.unasked = @ \cup {x}], TRUE))
     \/ /\ ~KnownBefore(input, x) /\ device.placed
        /\ \E opens, answers \in BOOLEAN :
             LET hub   == device.hub
                 first == hub \notin DOMAIN input.open
                 handle == IF first THEN (IF opens THEN "open" ELSE "refused") ELSE input.open[hub]
                 says  == IF handle = "open" /\ answers THEN "answered" ELSE "error"
             IN  /\ ~first => opens
                 /\ Build("hub ports", Recorded([input EXCEPT !.open = (hub :> handle) @@ @,
                                                              !.ports = (x :> says) @@ @], says = "error"))

-----------------------------------------------------------------------------
(* What the answers about one port come to.  Speeds, slowest first: full,  *)
(* high, one lane of 5 Gb/s, two, one lane of 10 Gb/s, two.                *)

High   == 2
Gen1   == 3
Gen1x2 == 4
Gen2   == 5
Speeds == 1..6

\* A device runs at some speed in a socket whose halves are two ports, one port of both
\* or USB 2 alone.  USB 3 is spoken where the port has it.
PortsTold == {t \in [runs : Speeds, can : Speeds, usb3 : BOOLEAN, companion : BOOLEAN] :
                t.runs <= t.can /\ (t.runs > High => t.usb3)}

\* The descriptors name lane speeds and no lane count.
OneLane(can) == CASE can <= High -> NotRead [] can \in {Gen1, Gen1x2} -> Gen1 [] OTHER -> Gen2

Answers == {"protocols", "connection", "rate", "descriptors", "connector"}

\* Slip: the speed reported is believed without the protocols.
SlipPortRunning(t, read) ==
  IF "protocols" \in read /\ t.runs > Gen1 THEN (IF "rate" \in read THEN t.runs ELSE NotRead)
  ELSE IF "protocols" \in read /\ t.runs = Gen1 THEN Gen1
  ELSE IF "connection" \in read THEN Min({t.runs, High}) ELSE NotRead

\* Windows reports high speed for whatever runs at that or faster, so without the
\* protocols it tells nothing.
PortRunning(t, read) ==
  LET reported == IF "connection" \in read THEN Min({t.runs, High}) ELSE NotRead
  IN  IF "protocols" \in read /\ t.runs > Gen1 THEN (IF "rate" \in read THEN t.runs ELSE NotRead)
      ELSE IF "protocols" \in read /\ t.runs = Gen1 THEN Gen1
      ELSE IF "protocols" \notin read /\ reported >= High THEN NotRead ELSE reported

\* Slip: whatever is faster than 5 Gb/s is 10.
SlipFlagFloor(t, read) ==
  IF "protocols" \notin read \/ t.can <= High THEN NotRead
  ELSE IF t.can = Gen1 THEN Gen1 ELSE Gen2

FlagFloor(t, read) ==
  IF "protocols" \notin read \/ t.can <= High THEN NotRead
  ELSE IF t.can = Gen1 THEN Gen1 ELSE Gen1x2

DeviceCapability(t, read) ==
  MostRead({IF "descriptors" \in read THEN OneLane(t.can) ELSE NotRead, FlagFloor(t, read), PortRunning(t, read)})

\* Slip: a socket nobody read the other half of has none.
SlipOnUsb2Half(t, read) ==
  IF "protocols" \notin read THEN "unread"
  ELSE IF t.usb3 \/ "connector" \notin read \/ ~t.companion THEN "no"
  ELSE IF PortRunning(t, read) = NotRead THEN "unread" ELSE "yes"

OnUsb2Half(t, read) ==
  IF "protocols" \notin read THEN "unread"
  ELSE IF t.usb3 THEN "no"
  ELSE IF "connector" \notin read THEN "unread"
  ELSE IF ~t.companion THEN "no"
  ELSE IF PortRunning(t, read) = NotRead THEN "unread"
  ELSE IF PortRunning(t, read) <= High THEN "yes" ELSE "no"

\* The hub is the one the port is of, told as the device in a port of its own; a root hub
\* is in none, and says no more than that it speaks USB 3.
SocketCapability(t, read, hub, hubRead) ==
  IF "protocols" \notin read \/ OnUsb2Half(t, read) # "no" THEN NotRead
  ELSE IF ~t.usb3 THEN High
  ELSE IF hub = {} \/ "descriptors" \notin hubRead THEN NotRead
  ELSE LET h == CHOOSE x \in hub : TRUE IN DeviceCapability(h, hubRead)

-----------------------------------------------------------------------------

AskAboutWindowsUsb ==
  \/ Ask("hub ports", [devices |-> <<>>, drives |-> <<>>, step |-> "plugging", chain |-> <<>>, errors |-> <<>>,
                       told |-> <<>>, ports |-> <<>>, unasked |-> {}, open |-> <<>>])
  \/ \E t \in PortsTold, read \in SUBSET Answers : \E hubRead \in SUBSET {"protocols", "descriptors", "rate"} :
       \E hub \in {{}} \cup {{h} : h \in {x \in PortsTold : x.runs = x.can /\ x.usb3 /\ ~x.companion
                                                            /\ (t.usb3 => t.runs <= x.runs)}} :
         Ask("port answers", [port |-> t, read |-> read, hub |-> hub, hubRead |-> hubRead])

ADeviceIsPlugged ==
  /\ topic = "hub ports" /\ input.step = "plugging" /\ input.drives = <<>> /\ Len(input.devices) < MaxPluggedIn
  /\ \E hub \in 0..Len(input.devices), placed \in BOOLEAN :
       Build("hub ports", [input EXCEPT !.devices = Append(@, [hub |-> hub, placed |-> placed])])

ADriveIsOnADevice ==
  /\ topic = "hub ports" /\ input.step = "plugging" /\ Len(input.drives) < MaxDrivesHere
  /\ \E x \in DOMAIN input.devices : Build("hub ports", [input EXCEPT !.drives = Append(@, x)])

StartWithTheDrives ==
  /\ topic = "hub ports" /\ input.step = "plugging" /\ input.drives # <<>>
  /\ Build("hub ports", [input EXCEPT !.step = "reading", !.chain = PluggedAbove(input, Head(input.drives))])

-----------------------------------------------------------------------------

\* However many drives share the hubs, each is told why its own port was not read, if
\* and only if it was not; and every hub opened is closed.
EachDriveHasItsOwnError ==
  (topic = "hub ports" /\ input.step = "read") =>
    /\ \A k \in DOMAIN input.drives :
         LET own == input.drives[k]
         IN  input.told[k] <=> own \in input.unasked \/ input.ports[own] = "error"
    /\ \A h \in DOMAIN input.open : input.open[h] # "open"

\* Whichever answers are missing, no figure told is above what the device, its link and
\* its socket are, and a missing answer about a half is never an answer.
MissingAnswersInventNothing ==
  topic = "port answers" =>
    LET t == input.port
        running == PortRunning(t, input.read)
        socket  == SocketCapability(t, input.read, input.hub, input.hubRead)
    IN  /\ running \in {NotRead, t.runs}
        /\ DeviceCapability(t, input.read) <= t.can
        /\ OnUsb2Half(t, input.read) # "unread" => (OnUsb2Half(t, input.read) = "yes") = (~t.usb3 /\ t.companion)
        /\ (~t.usb3 /\ t.companion) => socket = NotRead
        /\ (t.usb3 /\ input.hub # {}) => \A h \in input.hub : socket <= h.can
        /\ (socket # NotRead /\ {"protocols", "rate"} \subseteq input.hubRead) => running <= socket
=============================================================================
