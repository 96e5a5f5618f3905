-------------------------- MODULE MachineBuilding --------------------------
(***************************************************************************)
(* How a Linux reading is turned into the machine it was taken of.  The    *)
(* machine as it is is built up first, with what the reading leaves out of *)
(* it; what is told of the machine is held against it.                     *)
(*                                                                         *)
(* A phy is [port, host, rate, told]: the SAS port it forms (NoPort where  *)
(* it forms none), whether it is the controller's own or an expander's,    *)
(* the rate of its hardware, and whether the reading links it to its port. *)
(* A drive is [top, end]: the port its path leaves the controller through  *)
(* and the port it hangs from itself; one on no SAS port has NoSasPort.    *)
(***************************************************************************)
EXTENDS Readings, Functions

CONSTANTS
  MaxPhys,      \* bound: phys of a machine
  MaxSasDrives  \* bound: drives of a machine

ASSUME PhysAreBounded == {MaxPhys, MaxSasDrives} \subseteq Nat

NoSasPort     == 0
HostPorts     == {1, 2}
ExpanderPorts == {3}

-----------------------------------------------------------------------------
(* Ports, and how many of them are taken.                                  *)

HostPhys(c) == {i \in DOMAIN c.phys : c.phys[i].host}

\* Slip: a phy that publishes no rate of its own is counted too.
SlipRatedPhys(c) == HostPhys(c)

\* The driver's virtual phys publish no rate.
RatedPhys(c) == {i \in HostPhys(c) : c.phys[i].rate # NotRead}

\* Slip: where the bitmap was not read the ports libata made are counted.
SlipPortCount(c) ==
  IF c.ahci /\ c.bitmap > 0 THEN c.bitmap
  ELSE IF HostPhys(c) # {} THEN (IF RatedPhys(c) = {} THEN NotRead ELSE Cardinality(RatedPhys(c)))
  ELSE IF c.ataPorts = 0 THEN NotRead ELSE c.ataPorts

\* One source for each kind of controller, and none in the place of another.
PortCount(c) ==
  IF c.ahci THEN (IF c.bitmap > 0 THEN c.bitmap ELSE NotRead)
  ELSE IF HostPhys(c) # {} THEN (IF RatedPhys(c) = {} THEN NotRead ELSE Cardinality(RatedPhys(c)))
  ELSE IF c.ataPorts = 0 THEN NotRead ELSE c.ataPorts

PhysToldOf(c, port) == {i \in DOMAIN c.phys : c.phys[i].told /\ c.phys[i].port = port}

\* Slip: every drive takes up one port.
SlipLinkUnits(c, d) == {<<"drive", d>>}

\* What a drive takes up of its controller: the host phys of the port it hangs
\* below, the port where no phy of it is known, or a port of its own off SAS.
LinkUnits(c, d) ==
  LET top == c.drives[d].top
      own == PhysToldOf(c, top) \cap HostPhys(c)
  IN  IF top = NoSasPort THEN {<<"drive", d>>}
      ELSE IF own = {} THEN {<<"port", top>>} ELSE {<<"phy", i>> : i \in own}

PortsUsed(c) == Cardinality(UNION {LinkUnits(c, d) : d \in DOMAIN c.drives})

NoPhy == 0

\* Slip: ports and phys are numbered alike.
SlipPhyFor(c, d) == IF c.drives[d].end \in DOMAIN c.phys THEN c.drives[d].end ELSE NoPhy

\* The phy a drive is told by: the one phy linked to its port, if it is one.
PhyFor(c, d) ==
  LET phys == IF c.drives[d].end = NoSasPort THEN {} ELSE PhysToldOf(c, c.drives[d].end)
  IN  IF Cardinality(phys) = 1 THEN CHOOSE i \in phys : TRUE ELSE NoPhy

-----------------------------------------------------------------------------
(* What one drive is told of, from sources each of which may be missing,   *)
(* or be there and silent.                                                 *)

NoHub == -2

FirstToSpeak(sources) ==
  LET speaking == SelectSeq(sources, LAMBDA s : s \notin {NoHub, NotRead})
  IN  IF speaking = <<>> THEN NotRead ELSE Head(speaking)

\* Slip: the first source that is there is asked and no other.
SlipNegotiated(identity, phy, ata) ==
  LET there == SelectSeq(<<identity, phy, ata>>, LAMBDA s : s # NoHub)
  IN  IF there = <<>> THEN NotRead ELSE Head(there)

Negotiated(identity, phy, ata) == FirstToSpeak(<<identity, phy, ata>>)

PortMax(phy, ata, controller) == FirstToSpeak(<<phy, ata, controller>>)

\* Slip: the first monitor of the drive is asked and no other.
SlipMonitored(monitors, owned) == IF owned = <<>> THEN NotRead ELSE monitors[Head(owned)]

\* A drive owns several monitors: the first in the order of the reading that gave
\* a temperature.
Monitored(monitors, owned) ==
  LET gave == {i \in Range(owned) : monitors[i] # NotRead}
  IN  IF gave = {} THEN NotRead ELSE monitors[Min(gave)]

\* Health with a monitor's temperature where it has none of its own; one that does
\* not decode is no health, and the monitor's temperature is one all the same.
Temperature(health, monitors, owned) == FirstToSpeak(<<health, Monitored(monitors, owned)>>)

-----------------------------------------------------------------------------
(* USB.  A device is [running, real, declares]: what it runs at, what it   *)
(* can do, and what of that is read: "bus", "nothing to declare", "all",   *)
(* or "unread".  A chain is the disk, the hubs above it, and the root.     *)

Usb2Twin == 2
UsbSpeeds == {2, 3, 4}

Fastest(S) == MostRead(S)

\* Slip: a device whose capability was not read can do what it runs at.
SlipUsbCapability(e) == IF e.declares = "all" THEN Fastest({e.real, e.running}) ELSE e.running

UsbCapability(e) ==
  CASE e.declares \in {"bus", "nothing"} -> e.running
    [] e.declares = "all"                -> Fastest({e.real, e.running})
    [] e.declares = "unread"             -> NotRead

\* Slip: the root counts as a hub.
SlipHubsAbove(chain) == Tail(chain)

HubsAbove(chain) == SelectSeq(Tail(chain), LAMBDA e : e.declares # "bus")

\* twin: the other half of the socket the disk is plugged into, if it has one.
LinkOf(chain, twin) ==
  LET device == chain[1]
      above  == Tail(chain)
      hubs   == HubsAbove(chain)
  IN  [running    |-> device.running,
       deviceMax  |-> UsbCapability(device),
       portMax    |-> Fastest((IF above = <<>> THEN {} ELSE {UsbCapability(above[1])})
                              \cup {UsbCapability(t) : t \in twin}),
       behindHub  |-> IF above = <<>> THEN "unread" ELSE IF hubs = <<>> THEN "no" ELSE "yes",
       upstream   |-> LeastRead({hubs[i].running : i \in DOMAIN hubs}),
       onUsb2Twin |-> IF above = <<>> \/ device.running = NotRead THEN "unread"
                      ELSE IF twin # {} /\ device.running <= Usb2Twin THEN "yes" ELSE "no"]

-----------------------------------------------------------------------------
(* What is asked.                                                          *)

Controllers ==
  {[ahci |-> TRUE, wired |-> w, bitmap |-> b, ataPorts |-> 3, phys |-> <<>>, drives |-> <<>>] :
     w \in {1, 2}, b \in {NotRead, 0, 1, 2}}
  \cup {[ahci |-> FALSE, wired |-> n, bitmap |-> NotRead, ataPorts |-> n, phys |-> <<>>, drives |-> <<>>] :
     n \in 0..2}

Speaking == {NoHub, NotRead, 3, 6}

Halves ==
  {e \in [running : UsbSpeeds, real : UsbSpeeds, declares : {"bus", "nothing", "all", "unread"}] :
     /\ e.running <= e.real
     /\ e.declares \in {"bus", "nothing"} => e.real = e.running
     /\ e.declares = "nothing" => e.running = Usb2Twin}

AskAboutMachinesBuilt ==
  \/ \E c \in Controllers : c.bitmap \in {NotRead, 0, c.wired} /\ Ask("sas", c)
  \/ \E identity, phy, ata \in Speaking, controller \in {NotRead, 6} :
       Ask("rates", [identity |-> identity, phy |-> phy, ata |-> ata, controller |-> controller])
  \/ \E health \in {NoHub, NotRead, 30}, monitors \in [1..3 -> {NotRead, 40, 50}],
        owned \in {<<>>, <<1>>, <<3, 2>>, <<2, 3>>, <<1, 3>>, <<3, 1>>} :
       Ask("temperatures", [health |-> health, monitors |-> monitors, owned |-> owned])
  \/ \E disk \in {e \in Halves : e.declares # "bus"} :
       Ask("usb ends", [chain |-> <<disk>>, twin |-> {}])

\* A controller that has phys publishes them before any drive is found behind it.
APhyIsListed ==
  /\ topic = "sas" /\ ~input.ahci /\ input.drives = <<>> /\ Len(input.phys) < MaxPhys
  /\ \E port \in {NoSasPort} \cup HostPorts \cup ExpanderPorts, rate \in {NotRead, 6, 12}, told \in BOOLEAN :
       /\ port \in ExpanderPorts => rate # NotRead
       /\ told => port # NoSasPort
       /\ Build("sas", [input EXCEPT !.phys =
                          Append(@, [port |-> port, host |-> port \notin ExpanderPorts,
                                     rate |-> rate, told |-> told])])

\* A drive hangs from a port that rated phys form, at once or behind an expander.
ADriveIsFound ==
  /\ topic = "sas" /\ Len(input.drives) < MaxSasDrives
  /\ \/ /\ HostPhys(input) = {} /\ Len(input.drives) < input.wired
        /\ Build("sas", [input EXCEPT !.drives = Append(@, [top |-> NoSasPort, end |-> NoSasPort])])
     \/ \E top \in HostPorts, behind \in BOOLEAN :
          LET rates(port) == {input.phys[i].rate : i \in {k \in DOMAIN input.phys : input.phys[k].port = port}}
              end == IF behind THEN 3 ELSE top
          IN  /\ rates(top) # {} /\ NotRead \notin rates(top) /\ rates(end) # {}
              /\ Build("sas", [input EXCEPT !.drives = Append(@, [top |-> top, end |-> end])])

\* The halves of one socket: a root has one for each speed; those of a hub are the
\* same device, which comes up on both.
AreHalves(e, t) ==
  /\ (e.running <= Usb2Twin) # (t.running <= Usb2Twin)
  /\ "bus" \in {e.declares, t.declares} => e.declares = t.declares
  /\ e.declares # "bus" => e.real = t.real

\* One step up the chain: a hub, or the root, where it ends.
AHubIsAbove ==
  /\ topic = "usb ends" /\ Len(input.chain) < 4 /\ Last(input.chain).declares # "bus"
  /\ \E e \in Halves, twin \in {{}} \cup {{t} : t \in Halves} :
       /\ Len(input.chain) > 1 => twin = {}
       /\ Last(input.chain).running <= e.real
       /\ \A t \in twin : AreHalves(e, t)
       /\ Build("usb ends", [chain |-> Append(input.chain, e), twin |-> input.twin \cup twin])

-----------------------------------------------------------------------------

\* The ports told of a controller are sockets somebody can plug into: never more than
\* there are, and the taken ones never more than those; where every phy is linked to
\* its port, what is told taken is what is.
FreePortsAreThere ==
  topic = "sas" =>
    LET sockets == IF HostPhys(input) # {} THEN Cardinality({i \in DOMAIN input.phys : input.phys[i].host /\ input.phys[i].rate # NotRead})
                   ELSE input.wired
        tops    == {input.drives[d].top : d \in DOMAIN input.drives}
        taken   == {i \in HostPhys(input) : input.phys[i].port \in tops \ {NoSasPort}}
    IN  /\ PortCount(input) # NotRead =>
             /\ PortCount(input) = sockets
             /\ PortsUsed(input) <= PortCount(input)
        /\ (HostPhys(input) # {} /\ \A i \in taken : input.phys[i].told) => PortsUsed(input) = Cardinality(taken)

\* The phy a drive's rates are read from is one of its own port, whatever the others
\* are numbered, and is the port's only one where every phy is linked to its port.
RatesAreOfItsOwnPhy ==
  topic = "sas" =>
    \A d \in DOMAIN input.drives :
      LET phy == PhyFor(input, d)
      IN  phy # NoPhy =>
            /\ input.phys[phy].port = input.drives[d].end
            /\ (\A i \in DOMAIN input.phys : input.phys[i].port # NoSasPort => input.phys[i].told) =>
                 \A i \in DOMAIN input.phys \ {phy} : input.phys[i].port # input.drives[d].end

\* A source that is there and says nothing does not silence the next one, and what
\* one says is told before what those after it do.
SilenceIsPassedOver ==
  /\ topic = "rates" =>
       LET told == Negotiated(input.identity, input.phy, input.ata)
           port == PortMax(input.phy, input.ata, input.controller)
       IN  /\ told = NotRead <=> {input.identity, input.phy, input.ata} \subseteq {NoHub, NotRead}
           /\ port = NotRead <=> {input.phy, input.ata, input.controller} \subseteq {NoHub, NotRead}
           /\ input.identity > 0 => told = input.identity
  /\ topic = "temperatures" =>
       LET told == Temperature(input.health, input.monitors, input.owned)
       IN  /\ told = NotRead <=> input.health < 0 /\ \A i \in Range(input.owned) : input.monitors[i] = NotRead
           /\ input.health > 0 => told = input.health
           /\ told = Temperature(input.health, input.monitors, Reverse(input.owned))

\* A link that ends in the root is told as it is: no end of it above what it can do,
\* the socket below that only for a disk known to be in its slow half, or in a half
\* that was not read; and whether a hub is in between.
UsbEndsAreTold ==
  (topic = "usb ends" /\ Last(input.chain).declares = "bus") =>
    LET link   == LinkOf(input.chain, input.twin)
        socket == {input.chain[2]} \cup input.twin
    IN  /\ link.deviceMax \in {NotRead, input.chain[1].real}
        /\ link.portMax <= Max({s.real : s \in socket})
        /\ (link.portMax # NotRead /\ link.portMax < Max({s.real : s \in socket})) =>
             link.onUsb2Twin = "yes" \/ input.chain[2].declares = "unread"
        /\ link.behindHub = IF Len(input.chain) > 2 THEN "yes" ELSE "no"
        /\ link.upstream # NotRead => link.upstream = Min({input.chain[i].running : i \in 2..Len(input.chain)-1})
=============================================================================
