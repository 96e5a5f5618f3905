---------------------------- MODULE SwitchRules ----------------------------
(***************************************************************************)
(* When a link at the PCIe floor is a register nobody filled in rather     *)
(* than a link.  A part built into a switch publishes the floor whatever   *)
(* it does; a separate part genuinely linked there publishes the same.     *)
(* The model holds what each part really is and what is read of it, so     *)
(* that the excuse can be compared with the truth.                         *)
(*                                                                         *)
(* A port of the switch is [maker, denies, occupant, link, leads]: its own *)
(* maker's identifier, whether its capability was read and is above the    *)
(* floor, the maker of what it holds, that part's link, and whether a link *)
(* above the floor runs at it or anywhere beneath it.                      *)
(***************************************************************************)
EXTENDS Readings

CONSTANTS
  MaxPorts   \* bound: ports of one switch

ASSUME PortsAreBounded == MaxPorts \in Nat

\* Slip: an identifier nobody read matches any.
SlipSharedMaker(port, device) == IF port = "unread" THEN device ELSE port

\* The maker a port and a device both carry; none where either was not read.
SharedMaker(port, device) ==
  IF port = "unread" \/ device # port THEN "none" ELSE port

\* The ports that hold a maker's own switch function at the floor.
FloorFunctions(ports, maker) ==
  {k \in DOMAIN ports : /\ SharedMaker(ports[k].maker, ports[k].occupant) = maker
                        /\ ports[k].link = "floor" /\ ~ports[k].denies}

\* Slip: that any port of the switch passes a real link on is not asked.
SlipTwinOf(ports, bridged, k) ==
  LET maker == SharedMaker(ports[k].maker, ports[k].occupant)
      twins == FloorFunctions(ports, maker) \ {k}
  IN  IF /\ bridged /\ maker # "none" /\ twins # {}
         /\ ports[k].link = "floor" /\ ~ports[k].denies
      THEN CHOOSE t \in twins : \A u \in twins : t <= u ELSE 0

\* Slip: only a port further along the list is looked at for the second function.
SlipTwinAfter(ports, bridged, k) ==
  LET maker == SharedMaker(ports[k].maker, ports[k].occupant)
      twins == FloorFunctions(ports, maker) \ 1..k
  IN  IF /\ bridged /\ maker # "none" /\ twins # {}
         /\ ports[k].link = "floor" /\ ~ports[k].denies
         /\ \E p \in DOMAIN ports \ {k} : ports[p].leads
      THEN CHOOSE t \in twins : \A u \in twins : t <= u ELSE 0

\* The first port beside the k-th that holds a second function at the floor, on a
\* switch shown to hang behind a bridge and to pass a real link on; 0: none.
TwinOf(ports, bridged, k) ==
  LET maker == SharedMaker(ports[k].maker, ports[k].occupant)
      twins == FloorFunctions(ports, maker) \ {k}
  IN  IF /\ bridged /\ maker # "none" /\ twins # {}
         /\ ports[k].link = "floor" /\ ~ports[k].denies
         /\ \E p \in DOMAIN ports \ {k} : ports[p].leads
      THEN CHOOSE t \in twins : \A u \in twins : t <= u ELSE 0

RegisterDefaults(machine) ==
  IF machine.physical
  THEN {k \in DOMAIN machine.ports : TwinOf(machine.ports, machine.bridged, k) # 0}
  ELSE {}

\* The drives outrun the uplink: a hint where the uplink is such a register.
Oversubscribed(machine, k) ==
  IF TwinOf(machine.ports, machine.bridged, k) # 0 THEN "hint" ELSE "warning"

-----------------------------------------------------------------------------
(* What a switch can hold.  Built-in parts are the switch maker's and sit  *)
(* at the floor behind a port that publishes the floor; a card's port      *)
(* publishes what the switch can do.                                       *)

BuiltIn ==
  {[part |-> "built in", maker |-> m, denies |-> FALSE, occupant |-> "chip",
    link |-> "floor", leads |-> FALSE] : m \in {"chip", "unread"}}

\* seen: whether this system lets a port's own capability be read at all.
SwitchCards(wide, seen) ==
  {[part |-> "card", maker |-> m, denies |-> wide /\ seen, occupant |-> o,
    link |-> l, leads |-> l # "floor"] :
     m \in {"chip", "unread"}, o \in {"chip", "other"},
     l \in (IF wide THEN {"floor", "above", "beneath"} ELSE {"floor"})}

AskAboutSwitches == Ask("switch", <<>>)

PlaceTheSwitch ==
  /\ topic = "switch" /\ input = <<>>
  /\ \E physical, bridged, wide, seen \in BOOLEAN :
       Build("switch", [ports |-> <<>>, physical |-> physical, bridged |-> bridged,
                        wide |-> wide, seen |-> seen])

FillAPort ==
  /\ topic = "switch" /\ input # <<>> /\ Len(input.ports) < MaxPorts
  /\ \E p \in BuiltIn \cup SwitchCards(input.wide, input.seen) :
       Build("switch", [input EXCEPT !.ports = Append(@, p)])

-----------------------------------------------------------------------------

OnSwitch == topic = "switch" /\ input # <<>>
SwitchPorts == input.ports
Marked   == RegisterDefaults(input)
Excused  == Marked \cup {k \in DOMAIN SwitchPorts : Oversubscribed(input, k) = "hint"}

\* A separate part genuinely linked at the floor is a real bottleneck and is never
\* excused, unless its maker is the switch's and the system hides what its port can
\* do; nor is anything excused where every link of the switch is at the floor.
NoRealBottleneckIsExcused ==
  OnSwitch =>
    /\ \A k \in Excused : SwitchPorts[k].part = "card" => SwitchPorts[k].occupant = "chip" /\ ~input.seen
    /\ ~input.wide \/ ~input.bridged => Excused = {}

\* A part built into the switch is excused as soon as a second one and a real link
\* stand beside it, whatever else does and in whatever order the ports are listed.
BuiltInPartsAreExcused ==
  OnSwitch =>
    \A k \in DOMAIN SwitchPorts :
      (/\ SwitchPorts[k].part = "built in" /\ SwitchPorts[k].maker = "chip" /\ input.bridged /\ input.physical
       /\ \E p \in DOMAIN SwitchPorts \ {k} : SwitchPorts[p].part = "built in" /\ SwitchPorts[p].maker = "chip"
       /\ \E p \in DOMAIN SwitchPorts \ {k} : SwitchPorts[p].leads) => k \in Marked
=============================================================================
