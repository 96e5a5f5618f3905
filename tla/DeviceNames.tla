------------------------------ MODULE DeviceNames ------------------------------
(***************************************************************************)
(* The names of PCI devices.  A list of them is read a line at a time; the *)
(* names of the devices a scan finds are resolved as it is taken and kept  *)
(* with it, so that a snapshot names them the same way wherever it is      *)
(* shown, whatever lists that machine has.                                 *)
(***************************************************************************)
EXTENDS Readings, Functions

CONSTANTS
  VendorIds,  \* vendors a list can name
  DeviceIds,  \* devices, as pairs of a vendor and a number of its own
  MaxLines    \* bound: lines of a list

ASSUME DevicesHaveVendors == DeviceIds \subseteq VendorIds \X Nat
ASSUME LinesAreBounded == MaxLines \in Nat

NoVendor == 0

-----------------------------------------------------------------------------
(* Reading a list.  A line is [indent, id]: a vendor's is not indented, a   *)
(* device's is once and stands below its vendor, a subsystem's is twice.   *)
(* The list ends with classes, whose lines are indented in the same way    *)
(* but are introduced by one whose identifier is not a number.             *)

NotANumber == NoVendor

Lines == [indent : 0..2, id : VendorIds \cup {NotANumber}]

\* Slip: a line that is no number is passed over like a comment.
SlipParseALine(s, line) ==
  IF line.indent = 2 \/ line.id = NotANumber THEN s
  ELSE IF line.indent = 0 THEN [s EXCEPT !.vendor = line.id, !.vendors = @ \cup {line.id}]
  ELSE IF s.vendor = NoVendor THEN s ELSE [s EXCEPT !.devices = @ \cup {<<s.vendor, line.id>>}]

ParseALine(s, line) ==
  IF line.indent = 2 THEN s
  ELSE IF line.id = NotANumber THEN [s EXCEPT !.vendor = NoVendor]
  ELSE IF line.indent = 0 THEN [s EXCEPT !.vendor = line.id, !.vendors = @ \cup {line.id}]
  ELSE IF s.vendor = NoVendor THEN s ELSE [s EXCEPT !.devices = @ \cup {<<s.vendor, line.id>>}]

ParsePciIds(lines) == FoldLeft(ParseALine, [vendor |-> NoVendor, vendors |-> {}, devices |-> {}], lines)

-----------------------------------------------------------------------------
(* A database maps vendors and devices to names.  A name is a sequence of   *)
(* words; where a list is the source, a word says which list.              *)

\* A system's list outdoes the bundled one, and that the few vendors written into the
\* program.  A system's list that cannot be read ends the scan, and so gives no names.
WrittenIn == {Min(VendorIds)}

LoadDatabase(m) ==
  LET list     == IF m.system = "there" THEN "system" ELSE IF m.bundled THEN "bundled" ELSE "none"
      builtIn  == [v \in WrittenIn |-> <<<<"written in", <<v>>>>>>]
  IN  IF list = "none" THEN [vendors |-> builtIn, devices |-> <<>>]
      ELSE [vendors |-> [v \in m.vendors |-> <<<<list, <<v>>>>>>] @@ builtIn,
            devices |-> [d \in m.devices |-> <<<<list, d>>>>]]

Describe(d, database) ==
  LET vendor == IF d[1] \in DOMAIN database.vendors THEN database.vendors[d[1]] ELSE <<>>
      device == IF d \in DOMAIN database.devices THEN database.devices[d] ELSE <<>>
  IN  vendor \o (IF device # <<>> THEN device ELSE <<<<"device", d>>>>)

\* Slip: only a device that is in the list has a name worth keeping.
SlipResolveNames(found, database) == [d \in found \cap DOMAIN database.devices |-> Describe(d, database)]

ResolveNames(found, database) == [d \in found |-> Describe(d, database)]

\* Slip: the names that were kept are looked up beside the list that is here.
SlipDatabaseFromNames(names, here) == [vendors |-> here.vendors, devices |-> names]

\* The names that were kept already say the vendor.  Nothing was kept by the first
\* versions: then it is the list that is here.
DatabaseFromNames(names, here) ==
  IF names = <<>> THEN here ELSE [vendors |-> <<>>, devices |-> names]

\* The names of the devices found, as a scan or its replay on some machine tells them.
NamesTold(found, names, here) == [d \in found |-> Describe(d, DatabaseFromNames(names, here))]

-----------------------------------------------------------------------------

Hosts == [system : {"there", "absent"}, bundled : BOOLEAN,
          vendors : SUBSET VendorIds, devices : SUBSET DeviceIds]

AskAboutNames ==
  \/ Ask("list of devices", <<>>)
  \/ \E taken, shown \in Hosts :
       Ask("device names", [taken |-> taken, shown |-> shown, found |-> {}])

ALineIsRead ==
  /\ topic = "list of devices" /\ Len(input) < MaxLines
  /\ \E line \in Lines : Build("list of devices", Append(input, line))

ADeviceIsFound ==
  /\ topic = "device names"
  /\ \E d \in DeviceIds \ input.found : Build("device names", [input EXCEPT !.found = @ \cup {d}])

-----------------------------------------------------------------------------

\* A device is put under the vendor whose line is the last above its own that is not
\* indented, and under none below a line of the classes.
DevicesAreUnderTheirVendor ==
  topic = "list of devices" =>
    LET heads(i) == {j \in 1..(i - 1) : input[j].indent = 0}
    IN  ParsePciIds(input).devices
          = {<<input[Max(heads(i))].id, input[i].id>> :
               i \in {x \in DOMAIN input :
                        /\ input[x].indent = 1 /\ input[x].id # NotANumber
                        /\ heads(x) # {} /\ input[Max(heads(x))].id # NotANumber
                        /\ \A j \in Max(heads(x))..x : input[j].indent = 1 => input[j].id # NotANumber}}

\* Wherever a snapshot is shown, its devices have the names that the run that took it
\* told, and each has one.
NamesTravelWithTheReading ==
  topic = "device names" =>
    LET names == ResolveNames(input.found, LoadDatabase(input.taken))
    IN  /\ NamesTold(input.found, names, LoadDatabase(input.shown)) = NamesTold(input.found, names, LoadDatabase(input.taken))
        /\ \A d \in input.found : NamesTold(input.found, names, LoadDatabase(input.shown))[d] = Describe(d, LoadDatabase(input.taken))
=============================================================================
