----------------------------- MODULE PortRules -----------------------------
(***************************************************************************)
(* How a drive's own link is judged, and which port or which partner it is *)
(* told to change to.  A SATA or SAS link is [running, drive, port], in    *)
(* Gb/s; a USB link is [running, device, port, upstream, twin], speeds by  *)
(* their rank, what a hub between runs at and whether the drive came up on *)
(* the USB 2 side of a USB 3 port.  Below the rules stand small machines   *)
(* of drives and controllers, and what their findings must agree with: the *)
(* same question asked without an index, and the readings as they stand.   *)
(***************************************************************************)
EXTENDS Readings

CONSTANTS
  Rates,          \* of SATA and SAS links, in Gb/s
  UsbRanks,       \* of USB speeds
  MaxDrives,      \* bound: drives of one machine
  MaxShared,      \* bound: drives that share a port
  MaxControllers  \* bound: controllers of one machine

Lowest == -1000   \* the minus infinity a tree is filled up with

\* Below, where a value nobody read is below nothing and nothing is below it.
Slower(x, y) == NotRead \notin {x, y} /\ x < y

-----------------------------------------------------------------------------
(* A tree of maxima over values in order: its leaves are the values.       *)

\* The least power of two that is at least n.
TreeLeaves(n) ==
  LET power[k \in 0..n] == IF k = 0 THEN 1 ELSE 2 * power[k - 1]
  IN  Min({power[k] : k \in 0..n} \ (0..n-1))

MaxTree(values) ==
  LET size == TreeLeaves(Len(values))
      best[n \in 1..2*size-1] ==
        IF n >= size THEN (IF n - size < Len(values) THEN values[n - size + 1] ELSE Lowest)
        ELSE Max({best[2*n], best[2*n + 1]})
  IN  [size |-> size, best |-> best]

\* Slip: the descent takes the better half instead of the earlier one.
SlipEarlierHalf(tree, n, needs) ==
  IF tree.best[2*n] >= tree.best[2*n + 1] THEN 2*n ELSE 2*n + 1

EarlierHalf(tree, n, needs) == IF tree.best[2*n] >= needs THEN 2*n ELSE 2*n + 1

\* The position of the first value that is at least needs; 0: there is none.
FirstAtLeast(tree, needs) ==
  LET down[n \in 1..2*tree.size-1] ==
        IF n >= tree.size THEN n - tree.size + 1 ELSE down[EarlierHalf(tree, n, needs)]
  IN  IF tree.best[1] >= needs THEN down[1] ELSE 0

\* The first value above a threshold at a position that is not skipped; the right
\* half is taken only once the left one has nothing.
FirstAbove(tree, threshold, skip) ==
  LET find[n \in 1..2*tree.size-1] ==
        IF tree.best[n] <= threshold THEN 0
        ELSE IF n >= tree.size
             THEN (IF n - tree.size + 1 \in skip THEN 0 ELSE n - tree.size + 1)
             ELSE IF find[2*n] # 0 THEN find[2*n] ELSE find[2*n + 1]
  IN  find[1]

\* Slip: the leaf goes, the maxima above it stay.
SlipRemoveLeaf(tree, leaf) == [tree EXCEPT !.best[tree.size + leaf - 1] = Lowest]

\* The leaf goes, and every maximum above it is taken again, from the lowest up.
RemoveLeaf(tree, leaf) ==
  LET at == tree.size + leaf - 1
      half[k \in 0..at] == IF k = 0 THEN at ELSE half[k - 1] \div 2
      best[n \in DOMAIN tree.best] ==
        IF n = at THEN Lowest
        ELSE IF n \in {half[k] : k \in 1..at} THEN Max({best[2*n], best[2*n + 1]})
        ELSE tree.best[n]
  IN  [tree EXCEPT !.best = best]

-----------------------------------------------------------------------------
(* Drives in the wrong ports.                                              *)

IsPortLimited(link) == Slower(link.port, link.drive)

Achieves(link) == IF NotRead \in {link.drive, link.port} THEN NotRead ELSE Min({link.drive, link.port})

IsUnderperforming(link) == Slower(link.running, Achieves(link))

IsBelowDriveCapability(link) == Slower(link.running, link.drive)

\* The drives that hold more port than they can use, by their place in the machine.
Holders(disks) ==
  Ascending({k \in DOMAIN disks : Slower(disks[k].link.drive, disks[k].link.port)})

HolderAt(disks, h) == disks[Holders(disks)[h]]

\* The holders of one speed, by their place among all of them.
Members(disks, drive) ==
  Ascending({h \in DOMAIN Holders(disks) : HolderAt(disks, h).link.drive = drive})

\* Holders of one speed answer from one tree over their ports.
SwapGroups(disks) ==
  [drive \in {HolderAt(disks, h).link.drive : h \in DOMAIN Holders(disks)} |->
     MaxTree([i \in DOMAIN Members(disks, drive) |-> HolderAt(disks, Members(disks, drive)[i]).link.port])]

\* The first holder that would lose nothing and whose port is fast enough; 0: none.
FirstFitting(disks, groups, needs, offers) ==
  LET answers == {Members(disks, drive)[FirstAtLeast(groups[drive], needs)] :
                    drive \in {d \in DOMAIN groups : d <= offers /\ FirstAtLeast(groups[d], needs) # 0}}
  IN  IF answers = {} THEN 0 ELSE Min(answers)

\* Slip: the promise is of one entry, not of every entry of that drive.
SlipIsPromised(disks, h, partner) == h = partner

\* A drive is promised by its name: every holder of that name is.
IsPromised(disks, h, partner) == HolderAt(disks, h).node = HolderAt(disks, partner).node

\* Who is promised is taken off the tree.
Withdrawn(disks, groups, partner) ==
  [drive \in DOMAIN groups |->
     LET members == Members(disks, drive)
         left[i \in 0..Len(members)] ==
           IF i = 0 THEN groups[drive]
           ELSE IF IsPromised(disks, members[i], partner) THEN RemoveLeaf(left[i - 1], i)
           ELSE left[i - 1]
     IN  left[Len(members)]]

\* What the k-th drive makes of the swaps so far: a starved one takes a partner.
TakeAPartner(disks, s, k) ==
  LET found == FirstFitting(disks, s.groups, disks[k].link.drive, disks[k].link.port)
  IN  IF ~IsPortLimited(disks[k].link) \/ found = 0 THEN s
      ELSE [swaps  |-> Append(s.swaps, <<k, Holders(disks)[found]>>),
            groups |-> Withdrawn(disks, s.groups, found)]

\* One swap for each starved drive a partner is left for: pairs of places.
DiagnosePortAllocation(disks) ==
  LET after[k \in 0..Len(disks)] ==
        IF k = 0 THEN [swaps |-> <<>>, groups |-> SwapGroups(disks)]
        ELSE TakeAPartner(disks, after[k - 1], k)
  IN  after[Len(disks)].swaps

-----------------------------------------------------------------------------
(* A free port elsewhere.  A controller is [rate, free]: the fastest port  *)
(* a drive of it was seen on, and how many ports are free.                 *)

\* Slip: a controller is offered whatever is free on it.
SlipHasAFreePort(c) == c.rate # NotRead

HasAFreePort(c) == c.rate # NotRead /\ c.free \notin {NotRead, 0}

FasterFreePort(controllers, rate, besides) ==
  LET open  == Ascending({k \in DOMAIN controllers : HasAFreePort(controllers[k])})
      found == FirstAbove(MaxTree([i \in DOMAIN open |-> controllers[open[i]].rate]), rate,
                          {i \in DOMAIN open : open[i] = besides})
  IN  IF found = 0 THEN 0 ELSE open[found]

LinkVerdict(severity, says, at) == [severity |-> severity, says |-> says, at |-> at]
LinkIsFine == LinkVerdict("none", "nothing", 0)

\* Slip: a port nobody read is taken to be as fast as the drive.
SlipAtPortUnread(link) == FALSE
AtPortUnread(link) == IsBelowDriveCapability(link) /\ link.port = NotRead

DiagnoseDiskLink(link, controllers, own) ==
  LET faster == FasterFreePort(controllers, link.port, own)
  IN  CASE IsUnderperforming(link) -> LinkVerdict("warning", "below what both ends support", 0)
        [] ~IsUnderperforming(link) /\ AtPortUnread(link) -> LinkVerdict("warning", "port not read", 0)
        [] ~IsUnderperforming(link) /\ IsPortLimited(link) /\ faster # 0 ->
             LinkVerdict("warning", "a free port at the drive's full speed", faster)
        [] ~IsUnderperforming(link) /\ IsPortLimited(link) /\ faster = 0 ->
             LinkVerdict("hint", "no faster port is free", 0)
        [] OTHER -> LinkIsFine

-----------------------------------------------------------------------------
(* USB.  Ranks follow what a speed carries: 480 Mb/s is the third.         *)

Usb2 == 3
UsbCarries == <<0, 1, 60, 500, 1000, 1212, 2424>>   \* thousandths of GB/s, by rank

\* Slip: a hub on the way is not one of the ends.
SlipUsbAchievable(link) ==
  IF NotRead \in {link.device, link.port} THEN NotRead ELSE Min({link.device, link.port})

UsbAchievable(link) ==
  IF NotRead \in {link.device, link.port} THEN NotRead
  ELSE LeastRead({link.device, link.port, link.upstream})

FellBackToUsb2(link) ==
  link.twin = "yes" /\ link.running # NotRead /\ link.running <= Usb2 /\ Usb2 < link.device

\* The narrower of the port and a hub, the port where they are alike.
UsbCeiling(link) ==
  LET least == LeastRead({link.port, link.upstream})
  IN  [speed |-> IF Slower(least, link.device) THEN least ELSE NotRead,
       hub   |-> least # link.port]

\* What the drive behind the bridge pulls; not read, it may pull more than there is.
UsbCapNoticed(demand, ceiling) == demand = NotRead \/ demand > UsbCarries[ceiling]

DiagnoseUsbLink(link, demand) ==
  LET cap == UsbCeiling(link)
  IN  IF NotRead \in {link.running, link.device} THEN LinkIsFine
      ELSE IF FellBackToUsb2(link) THEN LinkVerdict("warning", "on the USB 2 side", 0)
      ELSE IF Slower(link.running, UsbAchievable(link))
           THEN LinkVerdict("warning", "below what both ends support", 0)
      ELSE IF cap.speed # NotRead
           THEN LinkVerdict(IF UsbCapNoticed(demand, cap.speed) THEN "warning" ELSE "hint",
                            IF cap.hub THEN "capped by a hub" ELSE "capped by its port", cap.speed)
      ELSE IF link.port = NotRead /\ link.running < link.device
           THEN LinkVerdict("warning", "port not read", 0)
      ELSE LinkIsFine

-----------------------------------------------------------------------------
(* Drives of one controller.  Two entries of one NVMe drive, its paths or  *)
(* its namespaces, share a serial and count once.                          *)

\* Slip: a serial tells drives apart on every bus.
SlipCountsAgain(disk, seen) == disk.serial = "" \/ disk.serial \notin seen

CountsAgain(disk, seen) == disk.bus # "nvme" \/ disk.serial = "" \/ disk.serial \notin seen

\* What the k-th entry makes of the drives so far.
CountIn(disks, t, k) ==
  IF CountsAgain(disks[k], t.seen)
  THEN [drives |-> Append(t.drives, k),
        seen   |-> t.seen \cup (IF disks[k].bus = "nvme" THEN {disks[k].serial} ELSE {})]
  ELSE t

DrivesOn(disks) ==
  LET after[k \in 0..Len(disks)] ==
        IF k = 0 THEN [drives |-> <<>>, seen |-> {}] ELSE CountIn(disks, after[k - 1], k)
  IN  after[Len(disks)].drives

\* What the drives of a controller can pull together, NotRead where none was read.
AttachedDemand(disks) ==
  LET drives     == DrivesOn(disks)
      demand(i)  == disks[drives[i]].demand
      read       == {i \in DOMAIN drives : demand(i) > 0}
  IN  IF read = {} THEN NotRead
      ELSE FoldLeft(+, 0, [i \in DOMAIN drives |-> IF i \in read THEN demand(i) ELSE 0])

-----------------------------------------------------------------------------
(* Small machines                                                          *)

ASSUME RatesAreRates == Rates \subseteq Nat \ {0} /\ UsbRanks \subseteq DOMAIN UsbCarries /\ MaxShared \in Nat

AskAboutPorts ==
  \/ Ask("swaps", <<>>)
  \/ Ask("free ports", <<>>)
  \/ Ask("shared drives", <<>>)
  \/ \E r, d, p, u \in UsbRanks \cup {NotRead}, t \in {"yes", "no"} :
       Ask("usb", [running |-> r, device |-> d, port |-> p, upstream |-> u, twin |-> t])

\* A capture may name two drives alike: an entry may repeat the name before it.
AddDrive ==
  /\ topic = "swaps" /\ Len(input) < MaxDrives
  /\ \E d, p \in Rates, again \in BOOLEAN :
       /\ d # p /\ (again => input # <<>>)
       /\ Build("swaps", Append(input,
            [node |-> IF again THEN Last(input).node ELSE Len(input) + 1,
             link |-> [running |-> NotRead, drive |-> d, port |-> p]]))

AddController ==
  /\ topic = "free ports" /\ Len(input) < MaxControllers
  /\ \E rate \in Rates \cup {NotRead}, free \in {NotRead, 0, 1} :
       Build("free ports", Append(input, [rate |-> rate, free |-> free]))

AddEntry ==
  /\ topic = "shared drives" /\ Len(input) < MaxShared
  /\ \E bus \in {"nvme", "sata"}, serial \in {"", "a", "b"}, demand \in {NotRead, 1, 2} :
       Build("shared drives", Append(input, [bus |-> bus, serial |-> serial, demand |-> demand]))

-----------------------------------------------------------------------------

\* The swaps found by asking every holder in turn and keeping the names promised.
Fitting(disks, k, taken) ==
  {j \in DOMAIN disks : /\ Slower(disks[j].link.drive, disks[j].link.port)
                        /\ disks[j].node \notin taken
                        /\ disks[j].link.drive <= disks[k].link.port
                        /\ disks[j].link.port >= disks[k].link.drive}

PlainStep(disks, s, k) ==
  LET fit == Fitting(disks, k, s.taken)
  IN  IF ~IsPortLimited(disks[k].link) \/ fit = {} THEN s
      ELSE [swaps |-> Append(s.swaps, <<k, Min(fit)>>),
            taken |-> s.taken \cup {disks[Min(fit)].node}]

PlainSwaps(disks) ==
  LET after[k \in 0..Len(disks)] ==
        IF k = 0 THEN [swaps |-> <<>>, taken |-> {}] ELSE PlainStep(disks, after[k - 1], k)
  IN  after[Len(disks)].swaps

\* The index over the holders promises what a walk of them would, and no drive is
\* promised to two, whatever names the entries share.
SwapsAreThoseOfAWalk ==
  topic = "swaps" =>
    LET swaps == DiagnosePortAllocation(input)
    IN  /\ swaps = PlainSwaps(input)
        /\ \A i, j \in DOMAIN swaps :
             i # j => input[swaps[i][2]].node # input[swaps[j][2]].node

\* Every drive's link against the controllers of the machine, one of them its own.
Links == [running : Rates \cup {NotRead}, drive : Rates \cup {NotRead}, port : Rates \cup {NotRead}]

\* A free port is named exactly where one is known, on the first such controller
\* other than the drive's own.
FreePortIsTheFirst ==
  topic = "free ports" =>
    \A rate \in Rates, own \in 0..Len(input) :
      LET free == {k \in DOMAIN input \ {own} : input[k].free = 1 /\ input[k].rate > rate}
      IN  FasterFreePort(input, rate, own) = IF free = {} THEN 0 ELSE Min(free)

\* No drive runs below what it can do without a word on it, and none is called
\* faulty that runs as fast as the slowest end that was read.
SlowLinksAreSpokenOf ==
  /\ topic = "free ports" => \A link \in Links, own \in DOMAIN input :
       LET v == DiagnoseDiskLink(link, input, own)
       IN  /\ Slower(link.running, link.drive) => v.severity # "none"
           /\ v.says = "below what both ends support" =>
                \A end \in {link.drive, link.port} : Slower(link.running, end)
  /\ topic = "usb" =>
       LET v == DiagnoseUsbLink(input, NotRead)
       IN  /\ Slower(input.running, input.device) => v.severity # "none"
           /\ v.says = "below what both ends support" =>
                \A end \in {input.device, input.port} \cup Read({input.upstream}) :
                  Slower(input.running, end)
           /\ v.says \in {"capped by a hub", "capped by its port"} =>
                /\ v.at = IF v.says = "capped by a hub" THEN input.upstream ELSE input.port
                /\ \A end \in Read({input.port, input.upstream, input.device}) : v.at <= end

\* An NVMe drive that shows up twice pulls once; two drives of another bus are two,
\* whatever serial they claim.
EachDrivePullsOnce ==
  topic = "shared drives" =>
    LET twice == {k \in DOMAIN input : \E j \in 1..k-1 :
                    /\ input[k].bus = "nvme" /\ input[j].bus = "nvme"
                    /\ input[k].serial # "" /\ input[j].serial = input[k].serial}
        once  == {k \in DOMAIN input \ twice : input[k].demand > 0}
        wants[k \in 0..Len(input)] ==
          IF k = 0 THEN 0 ELSE wants[k - 1] + (IF k \in once THEN input[k].demand ELSE 0)
    IN  /\ Range(DrivesOn(input)) = DOMAIN input \ twice
        /\ AttachedDemand(input) = IF once = {} THEN NotRead ELSE wants[Len(input)]
=============================================================================
