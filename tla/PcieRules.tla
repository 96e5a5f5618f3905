----------------------------- MODULE PcieRules -----------------------------
(***************************************************************************)
(* How a PCIe link is judged and where a card is told to go.  A link is    *)
(* [speed, width, maxSpeed, maxWidth]: generations and lanes, what runs    *)
(* and what its end supports.  A slot is a port of the board: its link's   *)
(* ceilings, what is in it and the lowest link above it.  Below the rules  *)
(* stand a card, the port it sits in, the other ports of a small board and *)
(* the drives behind the card: what the card is told must be true of the   *)
(* board, and stay true whatever the readings that failed would have said. *)
(***************************************************************************)
EXTENDS Readings

CONSTANTS
  Cards,      \* what a card supports: <<generation, lanes>>, NotRead among them
  Ports,      \* what the card's own port supports
  Others,     \* what the other ports of the board support
  Runs,       \* what a link is seen to run at
  Ceilings,   \* the lowest link above a port
  Demands,    \* what the drives behind a card can pull: sequences of thousandths
  MaxSlots    \* bound: ports beside the card's own

Ends == (Nat \cup {NotRead}) \X (Nat \cup {NotRead})

ASSUME BoardsAreReadings ==
  /\ Cards \cup Ports \cup Others \cup Runs \subseteq Ends
  /\ Ceilings \subseteq Nat \cup {NotRead} /\ Demands \subseteq Seq(Int) /\ MaxSlots \in Nat

\* Thousandths of GB/s per lane, by generation.
LaneRate == <<250, 500, 985, 1969, 3938, 7563>>

PcieBandwidth(speed, width) ==
  IF NotRead \in {speed, width} \/ width <= 0 \/ speed \notin DOMAIN LaneRate
  THEN NotRead ELSE LaneRate[speed] * width

CurrentBandwidth(link) == PcieBandwidth(link.speed, link.width)
MaxBandwidth(link)     == PcieBandwidth(link.maxSpeed, link.maxWidth)

IsDead(link) == link.width = 0

CapabilityIsKnown(link) == NotRead \notin {link.maxSpeed, link.maxWidth}

\* Below, where a value nobody read is below nothing and nothing is below it.
Short(x, y) == NotRead \notin {x, y} /\ x < y

\* A port that falls short of a card, on which of the two.
ShortfallAgainst(port, card) ==
  {what \in {"speed", "width"} :
     IF what = "speed" THEN Short(port.maxSpeed, card.maxSpeed)
     ELSE Short(port.maxWidth, card.maxWidth)}

-----------------------------------------------------------------------------
(* Slots.                                                                  *)

IsMoveTarget(slot) == slot.connector = "yes" /\ ~slot.occupied

OccupantNeed(slot) == IF slot.occupied THEN MaxBandwidth(slot.occupant) ELSE NotRead

IsSwapCandidate(slot) ==
  /\ slot.connector = "yes" /\ slot.occupied /\ ~slot.display
  /\ Short(OccupantNeed(slot), MaxBandwidth(slot.link))

-----------------------------------------------------------------------------
(* Where a card could go.  A seat is [link, port, at, own]: the card's own *)
(* link, the port above it if there is one, that port's place among the    *)
(* slots, and the card's own functions.                                    *)

NoPort == [speed |-> NotRead, width |-> NotRead, maxSpeed |-> NotRead, maxWidth |-> NotRead]

\* Slip: where one end was not read, the other speaks for both.
SlipAchievable(seat) ==
  [speed |-> LeastRead({seat.link.maxSpeed, seat.port.maxSpeed}),
   width |-> LeastRead({seat.link.maxWidth, seat.port.maxWidth})]

\* What both ends support: nothing is known until all four ceilings are.
Achievable(seat) ==
  IF CapabilityIsKnown(seat.link) /\ CapabilityIsKnown(seat.port)
  THEN [speed |-> Min({seat.link.maxSpeed, seat.port.maxSpeed}),
        width |-> Min({seat.link.maxWidth, seat.port.maxWidth})]
  ELSE [speed |-> NotRead, width |-> NotRead]

AchievableBandwidth(seat) == PcieBandwidth(Achievable(seat).speed, Achievable(seat).width)

GainIn(slot, seat) ==
  LET gain == PcieBandwidth(LeastRead({slot.link.maxSpeed, seat.link.maxSpeed}),
                            LeastRead({slot.link.maxWidth, seat.link.maxWidth}))
  IN  IF ~CapabilityIsKnown(slot.link) \/ slot.ceiling = NotRead \/ gain = NotRead
      THEN NotRead ELSE Min({gain, slot.ceiling})

\* Slip: ports are told apart by what they offer, not by what lies above them.
SlipPlacementKey(slot) ==
  [offers |-> <<slot.link.maxSpeed, slot.link.maxWidth>>,
   holds  |-> <<slot.occupied, slot.connector, IsMoveTarget(slot), IsSwapCandidate(slot)>>,
   need   |-> IF IsSwapCandidate(slot) THEN OccupantNeed(slot) ELSE NotRead]

\* Ports of one key answer every question about a placement alike.
PlacementKey(slot) ==
  [offers |-> <<slot.link.maxSpeed, slot.link.maxWidth, slot.ceiling>>,
   holds  |-> <<slot.occupied, slot.connector, IsMoveTarget(slot), IsSwapCandidate(slot)>>,
   need   |-> IF IsSwapCandidate(slot) THEN OccupantNeed(slot) ELSE NotRead]

\* Slip: the first port of each key stands for it, excluded or not.
SlipFirstOfItsKey(slots, key, besides, inside) ==
  CHOOSE k \in DOMAIN slots : /\ PlacementKey(slots[k]) = key
                              /\ \A j \in 1..k-1 : PlacementKey(slots[j]) # key

\* The first port of a key that is neither the card's own nor below the card; 0: none.
FirstOfItsKey(slots, key, besides, inside) ==
  LET open == {k \in DOMAIN slots : /\ PlacementKey(slots[k]) = key
                                    /\ k # besides /\ k \notin inside}
  IN  IF open = {} THEN 0 ELSE Min(open)

\* One port for each key, in the order of the board; the first of it is the one asked.
PlacementCandidates(slots, besides, admitted, inside) ==
  LET keys == {PlacementKey(slots[k]) : k \in DOMAIN slots}
      ask(key) == CHOOSE k \in DOMAIN slots : PlacementKey(slots[k]) = key
      chosen == {FirstOfItsKey(slots, key, besides, inside) :
                   key \in {y \in keys : ask(y) \in admitted}}
  IN  Ascending(chosen \ {0})

\* Slip: as good a port as the one so far displaces it.
SlipBetter(gain, best) == gain >= best

Better(gain, best) == gain > best

\* A port that gives more than the best so far takes its place.
Outbid(b, k, gain) ==
  IF gain # NotRead /\ Better(gain, b.gain) THEN [at |-> k, gain |-> gain] ELSE b

\* The port with the most to give, the first of equals; 0 where none beats the seat.
BestSlot(seat, slots, admitted) ==
  LET now == AchievableBandwidth(seat)
      found == FoldLeft(LAMBDA b, k : Outbid(b, k, GainIn(slots[k], seat)), [at |-> 0, gain |-> now],
                        PlacementCandidates(slots, seat.at, admitted, seat.own))
  IN  IF now = NotRead THEN 0 ELSE found.at

FreeSlotFor(seat, slots) == BestSlot(seat, slots, {k \in DOMAIN slots : IsMoveTarget(slots[k])})

UnreadFreeSlotFor(seat, slots) ==
  BestSlot(seat, slots, {k \in DOMAIN slots : ~slots[k].occupied /\ slots[k].connector = "unread"})

\* A card that would lose nothing by moving out, and needs less than this one.
IsWorthwhile(slot, seat) ==
  LET need == OccupantNeed(slot)
      now  == AchievableBandwidth(seat)
      own  == MaxBandwidth(seat.link)
  IN  /\ IsSwapCandidate(slot)
      /\ now # NotRead => need <= now
      /\ own # NotRead => need < own

SwapSlotFor(seat, slots) == BestSlot(seat, slots, {k \in DOMAIN slots : IsWorthwhile(slots[k], seat)})

\* A port that gives as much takes the place of one that offers less by itself.
Outranks(b, k, gain, offers) ==
  IF \/ gain = NotRead
     \/ b.at # 0 /\ gain < b.gain
     \/ b.at # 0 /\ gain = b.gain /\ offers[k] <= offers[b.at]
  THEN b ELSE [at |-> k, gain |-> gain]

\* The best port whatever is in it: by gain, then by what it offers by itself.
BestPortFor(seat, slots) ==
  LET offers == [k \in DOMAIN slots |->
                   IF MaxBandwidth(slots[k].link) = NotRead THEN 0 ELSE MaxBandwidth(slots[k].link)]
  IN  FoldLeft(LAMBDA b, k : Outranks(b, k, GainIn(slots[k], seat), offers), [at |-> 0, gain |-> NotRead],
               PlacementCandidates(slots, seat.at, DOMAIN slots, {}))

-----------------------------------------------------------------------------
(* What is found.  A controller is a seat; drives are their peak demands,  *)
(* NotRead among them where what a drive can pull was not read.            *)

\* What is known of what the drives can pull.
KnownPeaks(peaks) == At(peaks, {i \in DOMAIN peaks : peaks[i] > 0})

\* Slip: a drive whose demand was not read is taken to need nothing.
SlipDrivesWouldNotice(peaks, achievable) ==
  LET known == KnownPeaks(peaks)
  IN  known # <<>> /\ FoldLeft(+, 0, known) >= achievable

\* Whether the drives feel the cap; a drive of unknown demand may.
DrivesWouldNotice(peaks, achievable) ==
  LET known == KnownPeaks(peaks)
  IN  \/ Len(known) < Len(peaks)
      \/ known # <<>> /\ FoldLeft(+, 0, known) >= achievable

\* A finding is [severity, says, at]: how grave, which of the findings it is, and
\* the slot it points to, 0 where it points to none.
Found(severity, says, at) == [severity |-> severity, says |-> says, at |-> at]
NoFinding == Found("none", "nothing", 0)

UnmeasuredPortFinding(seat) ==
  IF Short(CurrentBandwidth(seat.link), MaxBandwidth(seat.link))
  THEN Found("warning", "below its own maximum, port not measured", 0) ELSE NoFinding

GradedByTheDrives(peaks, achievable, says, at) ==
  Found(IF DrivesWouldNotice(peaks, achievable) THEN "warning" ELSE "hint", says, at)

PlatformLimitedFinding(seat, slots, peaks) ==
  LET now  == AchievableBandwidth(seat)
      move == FreeSlotFor(seat, slots)
      swap == SwapSlotFor(seat, slots)
      best == BestPortFor(seat, slots)
  IN  CASE move # 0 -> GradedByTheDrives(peaks, now, "a faster slot is free", move)
        [] move = 0 /\ swap # 0 -> GradedByTheDrives(peaks, now, "a faster slot can be swapped for", swap)
        [] move = 0 /\ swap = 0 /\ best.gain > now -> Found("hint", "faster ports are taken", best.at)
        [] OTHER -> Found("hint", "no port would give it more", 0)

DiagnoseControllerLink(seat, slots, peaks) ==
  LET now == CurrentBandwidth(seat.link)
      own == MaxBandwidth(seat.link)
      can == AchievableBandwidth(seat)
  IN  CASE IsDead(seat.link) -> Found("critical", "never trained", 0)
        [] ~IsDead(seat.link) /\ Short(now, can) -> Found("warning", "below what both ends support", 0)
        [] ~IsDead(seat.link) /\ ~Short(now, can) /\ can = NotRead -> UnmeasuredPortFinding(seat)
        [] ~IsDead(seat.link) /\ ~Short(now, can) /\ Short(can, own) ->
             PlatformLimitedFinding(seat, slots, peaks)
        [] OTHER -> NoFinding

\* The least of what the ends carry that were read: an unread end caps nothing.
UplinkBandwidth(seat) == LeastRead({MaxBandwidth(seat.link), MaxBandwidth(seat.port)})

\* A link that is graded on its own: a card under a downstream port of the fabric.
WhereItCouldGo(seat, slots) ==
  LET free   == FreeSlotFor(seat, slots)
      unread == UnreadFreeSlotFor(seat, slots)
  IN  CASE free # 0 -> Found("hint", "capped by its slot, a free one carries more", free)
        [] free = 0 /\ unread # 0 -> Found("hint", "capped by its slot, a port may be a slot", unread)
        [] OTHER -> Found("hint", "capped by its slot, no free slot carries more", 0)

DiagnoseFabricLink(seat, slots) ==
  LET can == Achievable(seat)
  IN  IF can.width = NotRead \/ seat.link.width \in {NotRead, 0} THEN NoFinding
      ELSE IF seat.link.width < can.width THEN Found("hint", "lanes did not train", 0)
      ELSE IF Short(AchievableBandwidth(seat), MaxBandwidth(seat.link)) THEN WhereItCouldGo(seat, slots)
      ELSE NoFinding

-----------------------------------------------------------------------------
(* A card on a small board.                                                *)

Link(run, cap) == [speed |-> run[1], width |-> run[2], maxSpeed |-> cap[1], maxWidth |-> cap[2]]
Cap(cap) == Link(<<NotRead, NotRead>>, cap)

\* What can be in a port: nothing, in a slot, an internal port or one of a kind
\* nobody read; a small card; a graphics card; a card whose needs were not read.
Holdings ==
  {[connector |-> c, occupied |-> FALSE, display |-> FALSE, occupant |-> NoPort] :
     c \in {"yes", "no", "unread"}}
  \cup {[connector |-> "yes", occupied |-> TRUE, display |-> d, occupant |-> Cap(<<3, 1>>)] :
          d \in BOOLEAN}
  \cup {[connector |-> "yes", occupied |-> TRUE, display |-> FALSE, occupant |-> NoPort]}

Slot(cap, ceiling, h) ==
  [link |-> Cap(cap), ceiling |-> ceiling, connector |-> h.connector,
   occupied |-> h.occupied, display |-> h.display, occupant |-> h.occupant]

\* The first port of the board is the one the card sits in.
Board(card, port, run, peaks) ==
  [seat  |-> [link |-> Link(run, card), port |-> Cap(port), at |-> 1, own |-> {}],
   slots |-> <<Slot(port, Unlimited, [connector |-> "yes", occupied |-> TRUE,
                                      display |-> FALSE, occupant |-> Cap(card)])>>,
   peaks |-> peaks]

AskAboutBoards == Ask("board", NoFinding)

SeatTheCard ==
  /\ topic = "board" /\ input = NoFinding
  /\ \E card \in Cards, port \in Ports, run \in Runs, peaks \in Demands :
       Build("board", Board(card, port, run, peaks))

\* Ports beyond the second matter to the choice of one, which neither the running
\* link nor the drives bear on: they are added for one of each.
AddPort ==
  /\ topic = "board" /\ input # NoFinding /\ Len(input.slots) <= MaxSlots
  /\ Len(input.slots) > 1 =>
       input.peaks = <<>> /\ Short(CurrentBandwidth(input.seat.link), MaxBandwidth(input.seat.link))
  /\ \E port \in Others, ceiling \in Ceilings, h \in Holdings :
       Build("board", [input EXCEPT !.slots = Append(@, Slot(port, ceiling, h))])

-----------------------------------------------------------------------------

OnBoard  == topic = "board" /\ input # NoFinding
Verdict  == DiagnoseControllerLink(input.seat, input.slots, input.peaks)
Fabric   == DiagnoseFabricLink(input.seat, input.slots)
Gain(k)  == GainIn(input.slots[k], input.seat)
Now      == AchievableBandwidth(input.seat)
IsGain(k) == Now # NotRead /\ Gain(k) # NotRead /\ Gain(k) > Now

\* The best port by asking every port of the board, one after the other.
PlainBest(slots, own, Admits(_)) ==
  LET open == {k \in DOMAIN slots : k # 1 /\ k \notin own /\ Admits(slots[k]) /\ IsGain(k)}
      best == {k \in open : \A j \in open : Gain(j) < Gain(k) \/ (Gain(j) = Gain(k) /\ k <= j)}
  IN  IF open = {} THEN 0 ELSE CHOOSE k \in best : TRUE

\* Asking one port for each kind finds what asking every port would: the first of
\* the best, never the card's own port nor one that hangs below the card itself.
AdvisedPortIsTheBest ==
  OnBoard =>
    \A own \in SUBSET (2..Len(input.slots)) :
      LET seat == [input.seat EXCEPT !.own = own]
      IN  /\ FreeSlotFor(seat, input.slots) = PlainBest(input.slots, own, IsMoveTarget)
          /\ UnreadFreeSlotFor(seat, input.slots) =
               PlainBest(input.slots, own, LAMBDA s : ~s.occupied /\ s.connector = "unread")
          /\ SwapSlotFor(seat, input.slots) =
               PlainBest(input.slots, own, LAMBDA s : IsWorthwhile(s, seat))

\* Everything a reading that failed might have said.
MightBe(link, s, w) == [link EXCEPT !.maxSpeed = s, !.maxWidth = w]
Filled(link) ==
  {MightBe(link, s, w) :
     s \in (IF link.maxSpeed = NotRead THEN {1, 3} ELSE {link.maxSpeed}),
     w \in (IF link.maxWidth = NotRead THEN {1, 8} ELSE {link.maxWidth})}

Refitted(seat, l, p) == [seat EXCEPT !.link = l, !.port = p]
Completions(seat) ==
  {Refitted(seat, l, p) : l \in Filled(seat.link), p \in Filled(seat.port)}

\* A link blamed as a fault, or an uplink its drives overrun, is one whatever the
\* readings that failed would have shown.
BlameOutlastsTheUnread ==
  OnBoard =>
    LET demand == FoldLeft(+, 0, KnownPeaks(input.peaks))
        over(seat) == Short(UplinkBandwidth(seat), demand)
    IN  \A seat \in Completions(input.seat) :
          /\ Verdict.says = "below what both ends support" =>
               DiagnoseControllerLink(seat, input.slots, input.peaks).says = Verdict.says
          /\ over(input.seat) => over(seat)

\* What a capped card is told of the board is so: a port named as free or to be
\* swapped carries more, and none is passed over where none is named.
CappedCardIsToldTheTruth ==
  OnBoard =>
    LET ways == {k \in 2..Len(input.slots) : IsGain(k)}
        free == {k \in ways : IsMoveTarget(input.slots[k])}
    IN  /\ Verdict.says = "a faster slot is free" => Verdict.at \in free
        /\ Verdict.says = "a faster slot can be swapped for" => free = {} /\ Verdict.at \in ways
        /\ Verdict.says = "faster ports are taken" => free = {} /\ Verdict.at \in ways
        /\ Verdict.says = "no port would give it more" => ways = {}
        /\ Fabric.says = "capped by its slot, a free one carries more" => Fabric.at \in free
        /\ Fabric.says = "capped by its slot, no free slot carries more" =>
             \A k \in ways : input.slots[k].occupied \/ input.slots[k].connector = "no"

FilledPeaks(peaks, more) ==
  [i \in DOMAIN peaks |-> IF peaks[i] > 0 THEN peaks[i] ELSE more[i]]

SaysToRearrange == Verdict.says \in {"a faster slot is free", "a faster slot can be swapped for"}

NotFelt(peaks) == peaks = <<>> \/ FoldLeft(+, 0, peaks) < Now

\* A warning to rearrange the machine is raised unless the drives are known, every
\* one of them, not to feel the cap.
OnlyAKnownNeedIsDismissed ==
  (OnBoard /\ Verdict.severity = "hint" /\ SaysToRearrange) =>
      \A more \in [DOMAIN input.peaks -> {250, 8000}] :
        NotFelt(FilledPeaks(input.peaks, more))

\* "That card loses nothing in a narrower slot": the card that is to move out runs
\* in the port this one leaves as fast as it could.
SwappedCardLosesNothing ==
  (OnBoard /\ Verdict.says = "a faster slot can be swapped for") =>
      LET out  == input.slots[Verdict.at].occupant
          left == [link |-> out, port |-> input.seat.port, at |-> 1, own |-> {}]
      IN  AchievableBandwidth(left) = MaxBandwidth(out)
=============================================================================
