----------------------------- MODULE Environments -----------------------------
(***************************************************************************)
(* Whose hardware a scan has read: this machine's own, a hypervisor's or,  *)
(* in a container, the host's.  No one asks the kernel; the reader gathers  *)
(* the traces each of them leaves, of which any may be missing or closed   *)
(* to an ordinary user, and the rules judge what was gathered.             *)
(***************************************************************************)
EXTENDS Readings

\* Runtimes the rules know by name, and one they do not; the first is LXC, which alone
\* overlays the system's own paths and leaves no marker file, as the second does.
Runtimes == {"lxc", "docker", "unheard of"}

\* A machine: what it is in, what is below that, and whether it serves containers.
WhatMachinesAre ==
  {w \in [runtime : Runtimes \cup {"none"}, virtual : BOOLEAN, serves : BOOLEAN,
          disguised : BOOLEAN, firmware : BOOLEAN] :
     (w.disguised => w.virtual) /\ (w.serves => w.runtime = "none")}

Traces == {"pid 1", "runtime file", "marker file", "control group", "mounts", "firmware", "type", "flag"}

-----------------------------------------------------------------------------

\* Slip: a container filesystem anywhere in the mount table is a trace of a container.
SlipMarkersInMounts(w) == IF w.runtime = "lxc" \/ w.serves THEN "lxc" ELSE "none"

\* A host of containers mounts their filesystem too, to serve it; only inside one is it
\* mounted over the system's own paths.
MarkersInMounts(w) == IF w.runtime = "lxc" THEN "lxc" ELSE "none"

\* What is left of a machine, where it can be read.  The file that systemd leaves is
\* taken only where the environment of the first process gave nothing.
ReadEnvironment(w, read) ==
  LET inside(trace) == IF trace \in read THEN w.runtime ELSE "none"
      below(trace)  == w.virtual /\ trace \in read
  IN  [marker  |-> IF inside("pid 1") # "none" THEN inside("pid 1") ELSE inside("runtime file"),
       files   |-> w.runtime = "docker" /\ "marker file" \in read,
       cgroup  |-> inside("control group"),
       mounts  |-> IF "mounts" \in read THEN MarkersInMounts(w) ELSE "none",
       dmi     |-> IF "firmware" \notin read \/ ~w.firmware THEN "none"
                   ELSE IF w.virtual /\ ~w.disguised THEN "hypervisor" ELSE "maker",
       type    |-> below("type"),
       flag    |-> below("flag")]

\* Slip: a file that only a container has is no trace where its runtime is not named.
SlipContainerOf(e) == Cardinality({e.marker, e.cgroup, e.mounts} \cap {"lxc", "docker"}) > 0

ContainerOf(e) == {e.marker, e.cgroup, e.mounts} \cap {"lxc", "docker"} # {} \/ e.files

HypervisorOf(e) == e.dmi = "hypervisor" \/ e.flag \/ e.type

\* Slip: the hypervisor underneath is looked for first.
SlipClassify(e) ==
  IF HypervisorOf(e) THEN "virtual machine"
  ELSE IF ContainerOf(e) THEN "container"
  ELSE IF e.dmi # "none" THEN "bare metal" ELSE "unknown"

\* A container is the nearer boundary, whatever is below it.
Classify(e) ==
  IF ContainerOf(e) THEN "container"
  ELSE IF HypervisorOf(e) THEN "virtual machine"
  ELSE IF e.dmi # "none" THEN "bare metal" ELSE "unknown"

HardwareIsLocal(environment)      == environment # "container"
ReadingsArePhysical(environment)  == environment # "virtual machine"

AskAboutEnvironments == \E w \in WhatMachinesAre, read \in SUBSET Traces : Ask("environment", [is |-> w, read |-> read])

-----------------------------------------------------------------------------

\* What is called a container is one and what is called virtual is, however little could
\* be read; a container that leaves a trace its runtime is known by is never taken for
\* the machine it is on; and reading more only moves the verdict to a nearer boundary.
EnvironmentIsNotMistaken ==
  topic = "environment" =>
    LET told(read) == Classify(ReadEnvironment(input.is, read))
        rank(e)    == CASE e = "unknown" -> 0 [] e = "bare metal" -> 1 [] e = "virtual machine" -> 2 [] OTHER -> 3
        now        == told(input.read)
    IN  /\ ~HardwareIsLocal(now) => input.is.runtime # "none"
        /\ ~ReadingsArePhysical(now) => input.is.virtual
        /\ input.is.runtime \in {"lxc", "docker"} /\ input.read \cap {"pid 1", "runtime file", "control group"} # {} =>
             ~HardwareIsLocal(now)
        /\ input.is.runtime = "lxc" /\ "mounts" \in input.read => ~HardwareIsLocal(now)
        /\ input.is.runtime = "docker" /\ "marker file" \in input.read => ~HardwareIsLocal(now)
        /\ \A more \in Traces \ input.read : rank(told(input.read \cup {more})) >= rank(now)
=============================================================================
