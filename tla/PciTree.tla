------------------------------ MODULE PciTree ------------------------------
(***************************************************************************)
(* The PCI tree of a machine, walked once depth first so that "below" is a *)
(* test of two numbers.  A node is [parent, bridge, facing, carries,       *)
(* device]: its parent's address, whether it is of the bridge family,      *)
(* whether it is a port facing downstream, what its own link carries, and  *)
(* the device it is the first function of.  Addresses are positions in the *)
(* machine's list of nodes, which is in address order.                     *)
(***************************************************************************)
EXTENDS Readings, TLC, Functions

CONSTANTS
  MaxNodes,   \* bound: nodes of a tree
  Carries     \* what the k-th node's own link carries

ASSUME NodesAreCarried == MaxNodes \in Nat /\ 1..MaxNodes \subseteq DOMAIN Carries

NoParent == 0     \* a root bus: the root complex itself
Missing  == 99    \* a parent address no node of the tree has

ChildrenOf(tree, a) ==
  SelectSeq([i \in DOMAIN tree |-> i], LAMBDA i : tree[i].parent = a)

CarriedThrough(tree, a) ==
  IF tree[a].parent = NoParent THEN Unlimited ELSE tree[a].carries

\* Slip: an end of a link nobody read limits nothing.
SlipLowerCeiling(x, y) == LeastRead({x, y})

LowerCeiling(x, y) == LeastOfAll({x, y})

\* What makes two functions one device: the port above them where that port
\* carries one device, otherwise their device number on the bus.
DeviceKey(tree, a, parent) ==
  IF tree[parent].facing THEN <<"below", parent>> ELSE <<"device", tree[a].device>>

\* Slip: the gate is the parent itself, bridge or not.
SlipGateOf(tree, a, at, above) == at

GateOf(tree, a, at, above) == IF tree[a].bridge THEN above ELSE at

NoteEndDevice(tree, tour, a, parent, gate) ==
  IF tree[a].bridge THEN tour.devices
  ELSE Append(tour.devices, [at |-> Len(tour.order), gate |-> gate, address |-> a,
                             key |-> DeviceKey(tree, a, parent)])

\* The stack holds the nodes on the way down, each with the children still to walk
\* and the nearest node at or above it that is no bridge.
Enter(tree, w, a, ceiling, gate) ==
  LET at == Len(w.tour.order)
  IN  [w EXCEPT !.tour.order    = Append(@, a),
                !.tour.spans    = @ @@ (a :> <<at, at>>),
                !.tour.ceilings = @ @@ (a :> ceiling),
                !.stack = Append(@, [node |-> a, children |-> ChildrenOf(tree, a), gate |-> gate])]

\* The span of the node on top ends with whatever was walked last.
Leave(w) ==
  [w EXCEPT !.stack = Front(@),
            !.tour.spans[Last(w.stack).node][2] = Len(w.tour.order) - 1]

\* One turn of the walk: the next child of the node on top, which may have been met.
WalkOn(tree, w) ==
  LET top  == Last(w.stack)
      c    == Head(top.children)
      rest == [w EXCEPT !.stack[Len(w.stack)].children = Tail(@)]
  IN  CASE w.stack = <<>> -> w
        [] w.stack # <<>> /\ top.children = <<>> -> Leave(w)
        [] w.stack # <<>> /\ top.children # <<>> /\ c \in DOMAIN w.tour.spans -> rest
        [] OTHER ->
             Enter(tree, [rest EXCEPT !.tour.devices = NoteEndDevice(tree, w.tour, c, top.node, top.gate)],
                   c, LowerCeiling(w.tour.ceilings[top.node], CarriedThrough(tree, top.node)),
                   GateOf(tree, c, Len(w.tour.order), top.gate))

\* Every node is left once and is the child of one, which bounds the turns.
WalkFrom(tree, tour, start) ==
  LET entered == Enter(tree, [tour |-> tour, stack |-> <<>>], start, Unlimited,
                       GateOf(tree, start, Len(tour.order), -1))
  IN  IF start \in DOMAIN tour.spans THEN tour
      ELSE FoldLeft(LAMBDA w, k : WalkOn(tree, w), entered, [k \in 1..2*Len(tree) |-> k]).tour

\* A parent missing from the tree, or a cycle, starts a walk of its own.
Tour(tree) ==
  LET all    == [i \in DOMAIN tree |-> i]
      starts == SelectSeq(all, LAMBDA i : tree[i].parent \notin DOMAIN tree)
  IN  FoldLeft(LAMBDA t, s : WalkFrom(tree, t, s),
               [order |-> <<>>, spans |-> <<>>, ceilings |-> <<>>, devices |-> <<>>],
               starts \o all)

\* Slip: the node that stands just after the span counts as inside it.
SlipInside(span, at) == span[1] <= at /\ at <= span[2] + 1

Inside(span, at) == span[1] <= at /\ at <= span[2]

Holds(tour, roots, a) ==
  \/ a \in roots
  \/ /\ a \in DOMAIN tour.spans
     /\ \E r \in roots \cap DOMAIN tour.spans : Inside(tour.spans[r], tour.spans[a][1])

UplinkCeiling(tour, a) == IF a \in DOMAIN tour.ceilings THEN tour.ceilings[a] ELSE Unlimited

\* Slip: a device already found stays, whatever its address.
SlipNamesTheDevice(found, entry) == entry.key \notin DOMAIN found

NamesTheDevice(found, entry) ==
  entry.key \notin DOMAIN found \/ entry.address < found[entry.key]

\* What one function of a card reaches through bridges alone, folded into found.
DevicesBelow(tour, found, function) ==
  LET span    == tour.spans[function]
      reached == SelectSeq(tour.devices, LAMBDA e : /\ span[1] < e.at /\ e.at <= span[2]
                                                    /\ e.gate <= span[1])
  IN  FoldLeft(LAMBDA f, e : IF NamesTheDevice(f, e) THEN (e.key :> e.address) @@ f ELSE f,
               found, reached)

EndDevicesBelow(tour, functions) ==
  Range(FoldLeft(LAMBDA f, fn : IF fn \in DOMAIN tour.spans THEN DevicesBelow(tour, f, fn) ELSE f,
                 <<>>, functions))

\* The ports that run above the PCIe floor, or lead to one that does.
PortsLeadingAboveFloor(tour, ports, running) ==
  {p \in ports : \/ p \in running
                 \/ /\ p \in DOMAIN tour.spans
                    /\ \E r \in running \cap DOMAIN tour.spans :
                         Inside(tour.spans[p], tour.spans[r][1])}

-----------------------------------------------------------------------------
(* What the tree says by itself, without a walk.                           *)

\* Every node on the way up from a, a itself among them only where a cycle holds it.
Above(tree, a) ==
  LET parents(S) == {tree[n].parent : n \in S} \cap DOMAIN tree
      up[k \in 1..Len(tree)] == parents(IF k = 1 THEN {a} ELSE up[k - 1])
  IN  UNION {up[k] : k \in 1..Len(tree)}

Rooted(tree, a) == \A n \in Above(tree, a) \cup {a} : n \notin Above(tree, n)

ThroughBridgesAlone(tree, function, a) ==
  /\ function \in Above(tree, a)
  /\ \A n \in Above(tree, a) \ {function} :
       function \in Above(tree, n) => tree[n].bridge

-----------------------------------------------------------------------------
(* Every small tree, orphans, several roots and cycles among them, and     *)
(* what the walk of it must agree with: the tree read without a walk.      *)

Kinds == {[bridge |-> TRUE,  facing |-> TRUE], [bridge |-> TRUE, facing |-> FALSE],
          [bridge |-> FALSE, facing |-> FALSE]}

AskAboutTrees == Ask("tree", <<>>)

\* The last two nodes of a full tree share a device number, as two functions of
\* one address do.
AddNode ==
  /\ topic = "tree" /\ Len(input) < MaxNodes
  /\ LET k == Len(input) + 1
     IN  \E parent \in (1..MaxNodes \ {k}) \cup {NoParent, Missing}, kind \in Kinds :
           Build("tree", Append(input, [parent |-> parent, bridge |-> kind.bridge,
             facing |-> kind.facing, carries |-> Carries[k],
             device |-> IF k = MaxNodes THEN k - 1 ELSE k]))

-----------------------------------------------------------------------------

Nodes  == DOMAIN input
OnTree == topic = "tree"

\* A node lies below another by the two numbers of its span exactly where the tree
\* says so, and every node is walked once, whatever cycle or orphan the tree holds.
SpansAreTheSubtrees ==
  OnTree =>
    LET tour == Tour(input)
    IN  /\ Len(tour.order) = Len(input) /\ Range(tour.order) = Nodes
        /\ \A a, r \in Nodes : Rooted(input, a) =>
             (Holds(tour, {r}, a) <=> a = r \/ r \in Above(input, a))

\* What a port can pass on is the narrowest link between it and its root, and not
\* known as soon as one end on the way was not read.
CeilingIsTheNarrowestAbove ==
  OnTree =>
    LET tour == Tour(input)
    IN  \A a \in Nodes : Rooted(input, a) =>
          UplinkCeiling(tour, a) =
            LeastOfAll({Unlimited} \cup {CarriedThrough(input, n) : n \in Above(input, a)})

\* A card names the devices it reaches through bridges alone, each once and by its
\* lowest address, however the walk came upon them.
CarriesWhatBridgesReach ==
  OnTree =>
    LET tour == Tour(input)
        rooted == {a \in Nodes : Rooted(input, a)}
        key(a) == DeviceKey(input, a, input[a].parent)
        reached(f) == {a \in rooted : ~input[a].bridge /\ ThroughBridgesAlone(input, f, a)}
    IN  \A f, g \in rooted :
          LET all == reached(f) \cup reached(g)
          IN  EndDevicesBelow(tour, <<f, g>>) =
                {a \in all : \A b \in all : key(a) = key(b) => a <= b}

\* A port leads to a link above the floor exactly where one of the links that run
\* above it is its own or lies below it.
LeadingIsHavingOneBelow ==
  OnTree =>
    LET tour == Tour(input)
        rooted == {a \in Nodes : Rooted(input, a)}
    IN  \A running \in SUBSET rooted :
          PortsLeadingAboveFloor(tour, rooted, running) =
            {p \in rooted : p \in running \/ \E r \in running : p \in Above(input, r)}
=============================================================================
