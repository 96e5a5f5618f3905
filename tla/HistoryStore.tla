---------------------------- MODULE HistoryStore ----------------------------
(***************************************************************************)
(* Several runs of lsdsk against one counter store. A run reads the        *)
(* hardware, reads the store without a lock, decides whether it has        *)
(* anything to add, waits for the lock, reads the store again under it,    *)
(* decides again, tidies what killed runs left, writes a temporary file    *)
(* and renames it over the store. Every step is an action of its own, so   *)
(* runs interleave at each of them; a run may be killed between any two,   *)
(* a call to the operating system may fail, drives' clocks tick meanwhile, *)
(* and somebody else may replace the file.                                 *)
(*                                                                         *)
(* What is stored is a parameter: any set of histories with the operations *)
(* a run uses. MCHistoryStore passes those of Recording.                   *)
(***************************************************************************)
EXTENDS Integers, FiniteSets

CONSTANTS
  Runs,               \* the runs, each one process
  NoRun,              \* the lock is free
  Histories,          \* what the store of this machine may hold
  Empty,              \* the history of a machine never recorded
  StoresAround,       \* what others may leave at the path, or find there first
  Absent,             \* there is no file at the path
  Unreadable,         \* malformed, another schema, another machine's, not a file
  Instants,           \* what the drives' clocks may show
  Later(_),           \* the instants that may come next
  Inventories(_),     \* the inventories a run may read at an instant
  AllInventories,     \* those of every instant
  NoInventory,        \* disks of a run that has read none yet
  Loaded(_),          \* what the reader makes of a stored history
  HasDrive(_),        \* has_recordable_drive
  NewIn(_, _),        \* has_new_readings
  Folded(_, _),       \* record
  Fits(_),            \* fits_a_bounded_read and the reader's model
  StartedAs,          \* the commands runs are started as, a subset of Commands
  MaxPolls,           \* the lock is tried this often before the deadline
  MaxOutside,         \* bound: times somebody else replaces the file
  OutsiderWaits       \* whether they do so only while no run holds the lock

\* record; record --replay; a report for a reader; one that never writes (JSON).
Commands == {"record", "replay", "human", "view"}

ASSUME RunsAreRuns  == NoRun \notin Runs /\ StartedAs \subseteq Commands
ASSUME StoreIsTyped ==
  /\ Absent \notin Histories /\ Unreadable \notin Histories /\ Absent # Unreadable
  /\ Empty \in Histories
  /\ StoresAround \subseteq Histories \cup {Absent, Unreadable}
  /\ \A h \in Histories : Loaded(h) \in Histories
  /\ \A h \in Histories, d \in AllInventories : Folded(h, d) \in Histories
ASSUME WorldIsTyped ==
  \A t \in Instants : Later(t) \subseteq Instants /\ Inventories(t) \subseteq AllInventories
ASSUME BoundsAreNat == MaxPolls \in Nat /\ MaxOutside \in Nat /\ OutsiderWaits \in BOOLEAN

VARIABLES
  now,        \* what the drives' clocks show
  file,       \* what stands at the store's path
  lock,       \* the run holding the lock beside the store
  temps,      \* runs whose temporary file stands beside the store
  aged,       \* those among them older than ABANDONED_TEMPORARY_SECONDS
  pc,         \* where each run is
  kind,       \* which command a run is, and whether recording is enabled
  disks,      \* the inventory the run read
  read,       \* the history it last read, or Unreadable
  firstEver,  \* whether the store was absent when it took the lock
  outcome,    \* what came of recording: a RecordOutcome, or "none" so far
  polls,      \* how often it has found the lock taken
  outside,    \* how often somebody else has replaced the file
  overtaken,  \* runs under whose lock, after their second read, that happened
  announced   \* runs that named the store as newly recorded to

files    == <<file, lock, temps, aged>>
locals   == <<pc, disks, read, firstEver, outcome, polls>>
world    == <<now, outside, overtaken, kind>>
vars     == <<now, file, lock, temps, aged, pc, kind, disks, read, firstEver,
              outcome, polls, outside, overtaken, announced>>

Outcomes == {"recorded", "nothing new", "no drive readable", "store not readable",
             "recording off", "not permitted", "could not write"}

\* Past the second read, when the run works from what it read under the lock.
Settled  == {"tidy", "save", "write", "rename"}
Inside   == {"locked", "reread", "release"} \cup Settled
Stopped  == {"done", "killed"}
Steps    == {"idle", "read", "open", "wait", "announce"} \cup Inside \cup Stopped

TypeOK ==
  /\ now \in Instants
  /\ file \in Histories \cup {Absent, Unreadable}
  /\ lock \in Runs \cup {NoRun}
  /\ temps \subseteq Runs /\ aged \subseteq temps
  /\ pc \in [Runs -> Steps]
  /\ kind \in [Runs -> [command : Commands, enabled : BOOLEAN]]
  /\ disks \in [Runs -> AllInventories \cup {NoInventory}]
  /\ read \in [Runs -> Histories \cup {Unreadable}]
  /\ firstEver \in [Runs -> BOOLEAN]
  /\ outcome \in [Runs -> Outcomes \cup {"none"}]
  /\ polls \in [Runs -> Nat]
  /\ outside \in Nat
  /\ overtaken \subseteq Runs /\ announced \subseteq Runs

\* record under --no-record is refused as a usage error before it reads anything.
Kinds == {k \in [command : StartedAs, enabled : BOOLEAN] :
            k.command \in {"record", "replay"} => k.enabled}

Init ==
  /\ now \in Instants
  /\ file \in StoresAround
  /\ lock = NoRun /\ temps = {} /\ aged = {}
  /\ pc = [r \in Runs |-> "idle"]
  /\ kind \in [Runs -> Kinds]
  /\ disks = [r \in Runs |-> NoInventory]
  /\ read = [r \in Runs |-> Empty]
  /\ firstEver = [r \in Runs |-> FALSE]
  /\ outcome = [r \in Runs |-> "none"]
  /\ polls = [r \in Runs |-> 0]
  /\ outside = 0 /\ overtaken = {} /\ announced = {}

-----------------------------------------------------------------------------
(* Reading the store, and deciding whether to record.                      *)

InStore == file \notin {Absent, Unreadable}

FromStore == CASE file = Absent           -> Empty
               [] InStore /\ Fits(file)   -> Loaded(file)
               [] OTHER                   -> Unreadable

\* The reason not to record a reading against h, or "none".
WhyNotToRecord(r, h) ==
  CASE h = Unreadable           -> "store not readable"
    [] h # Unreadable /\ ~kind[r].enabled -> "recording off"
    [] h # Unreadable /\ kind[r].enabled /\ ~HasDrive(disks[r]) -> "no drive readable"
    [] h # Unreadable /\ kind[r].enabled /\ HasDrive(disks[r])
                      /\ ~NewIn(h, disks[r]) -> "nothing new"
    [] OTHER -> "none"

IsAt(r, step) == pc[r] = step
Go(r, step)   == pc' = [pc EXCEPT ![r] = step]
Ends(r, o)    == outcome' = [outcome EXCEPT ![r] = o]

\* read_history: the store as it stands.
ReadHistory(r) == read' = [read EXCEPT ![r] = FromStore]

Start(r) ==
  /\ IsAt(r, "idle") /\ Go(r, "read")
  /\ \E d \in IF kind[r].command = "replay" THEN AllInventories ELSE Inventories(now) :
       disks' = [disks EXCEPT ![r] = d]
  /\ UNCHANGED <<files, read, firstEver, outcome, polls, world, announced>>

\* The first read takes no lock; findings are judged on it whatever follows.
ReadUnlocked(r) ==
  /\ IsAt(r, "read")
  /\ ReadHistory(r)
  /\ LET why == WhyNotToRecord(r, FromStore)
     IN  IF kind[r].command = "view" THEN Go(r, "done") /\ UNCHANGED outcome
         ELSE IF why = "none" THEN Go(r, "open") /\ UNCHANGED outcome
         ELSE Go(r, "done") /\ Ends(r, why)
  /\ UNCHANGED <<files, disks, firstEver, polls, world, announced>>

-----------------------------------------------------------------------------
(* The lock beside the store.                                              *)

\* The lock file may not be one this run may open.
OpenLock(r) ==
  /\ IsAt(r, "open")
  /\ \/ Go(r, "wait") /\ UNCHANGED outcome
     \/ \E o \in {"not permitted", "could not write"} : Go(r, "done") /\ Ends(r, o)
  /\ UNCHANGED <<files, disks, read, firstEver, polls, world, announced>>

\* Slip: the lock is taken whoever holds it.
SlipTakeAnyway(r) ==
  /\ IsAt(r, "wait") /\ lock' = r /\ Go(r, "locked")
  /\ UNCHANGED <<file, temps, aged, disks, read, firstEver, outcome, polls,
                 world, announced>>

TakeLock(r) ==
  /\ IsAt(r, "wait") /\ lock = NoRun
  /\ lock' = r /\ Go(r, "locked")
  /\ UNCHANGED <<file, temps, aged, disks, read, firstEver, outcome, polls,
                 world, announced>>

PollAgain(r) ==
  /\ IsAt(r, "wait") /\ lock # NoRun /\ polls[r] < MaxPolls
  /\ polls' = [polls EXCEPT ![r] = @ + 1]
  /\ UNCHANGED <<files, pc, disks, read, firstEver, outcome, world, announced>>

\* Slip: no deadline.
SlipWaitForEver(r) == FALSE /\ UNCHANGED vars /\ r \in Runs

\* LOCK_WAIT_SECONDS are over and the lock is still taken.
GiveUp(r) ==
  /\ IsAt(r, "wait") /\ lock # NoRun /\ polls[r] = MaxPolls
  /\ Go(r, "done") /\ Ends(r, "could not write")
  /\ UNCHANGED <<files, disks, read, firstEver, polls, world, announced>>

-----------------------------------------------------------------------------
(* Under the lock.                                                         *)

LookWhetherFirst(r) ==
  /\ IsAt(r, "locked") /\ Go(r, "reread")
  /\ firstEver' = [firstEver EXCEPT ![r] = (file = Absent)]
  /\ UNCHANGED <<files, disks, read, outcome, polls, world, announced>>

\* Slip: under the lock the run goes on with what it read before it.
SlipTrustFirstRead(r) ==
  /\ IsAt(r, "reread") /\ Go(r, "tidy")
  /\ UNCHANGED <<files, disks, read, firstEver, outcome, polls, world, announced>>

ReadLocked(r) ==
  /\ IsAt(r, "reread")
  /\ ReadHistory(r)
  /\ LET why == WhyNotToRecord(r, FromStore)
     IN  IF why = "none" THEN Go(r, "tidy") /\ UNCHANGED outcome
                         ELSE Go(r, "release") /\ Ends(r, why)
  /\ UNCHANGED <<files, disks, firstEver, polls, world, announced>>

\* Slip: a removed temporary is still listed.
SlipRemoveByHalf(r) ==
  /\ IsAt(r, "tidy") /\ Go(r, "save")
  /\ \E gone \in SUBSET aged : temps' = temps \ gone
  /\ UNCHANGED <<file, lock, aged, disks, read, firstEver, outcome, polls, world,
                 announced>>

\* Some of the aged temporaries may refuse to go; the recording does not fail.
RemoveAbandoned(r) ==
  /\ IsAt(r, "tidy") /\ Go(r, "save")
  /\ \E gone \in SUBSET aged : temps' = temps \ gone /\ aged' = aged \ gone
  /\ UNCHANGED <<file, lock, disks, read, firstEver, outcome, polls, world,
                 announced>>

Updated(r) == Folded(read[r], disks[r])

\* Slip: a store of any size is written.
SlipSaveAnySize(r) ==
  /\ IsAt(r, "save") /\ Go(r, "write")
  /\ temps' = temps \cup {r}
  /\ UNCHANGED <<file, lock, aged, disks, read, firstEver, outcome, polls, world,
                 announced>>

\* The temporary is made, unless the store would be one the reader refuses, or
\* the directory does not take it.
CreateTemporary(r) ==
  /\ IsAt(r, "save")
  /\ \/ /\ Fits(Updated(r))
        /\ temps' = temps \cup {r}
        /\ Go(r, "write") /\ UNCHANGED outcome
     \/ /\ Go(r, "release") /\ UNCHANGED temps
        /\ \E o \in {"not permitted", "could not write"} : Ends(r, o)
  /\ UNCHANGED <<file, lock, aged, disks, read, firstEver, polls, world, announced>>

\* A write that fails removes its temporary, if it can.
Abandon(r) ==
  /\ Go(r, "release")
  /\ \E o \in {"not permitted", "could not write"} : Ends(r, o)
  /\ \/ temps' = temps \ {r} /\ aged' = aged \ {r}
     \/ UNCHANGED <<temps, aged>>

WriteTemporary(r) ==
  /\ IsAt(r, "write")
  /\ \/ Go(r, "rename") /\ UNCHANGED <<temps, aged, outcome>>
     \/ Abandon(r)
  /\ UNCHANGED <<file, lock, disks, read, firstEver, polls, world, announced>>

\* The rename finds its temporary gone if somebody took it for abandoned.
RenameOverStore(r) ==
  /\ IsAt(r, "rename")
  /\ \/ /\ r \in temps
        /\ file' = Updated(r)
        /\ temps' = temps \ {r} /\ aged' = aged \ {r}
        /\ Go(r, "release") /\ Ends(r, "recorded")
     \/ Abandon(r) /\ UNCHANGED file
  /\ UNCHANGED <<lock, disks, read, firstEver, polls, world, announced>>

\* Slip: every recording announces the store.
SlipAnnounceEach(r) ==
  /\ IsAt(r, "release") /\ lock' = NoRun
  /\ Go(r, IF outcome[r] = "recorded" THEN "announce" ELSE "done")
  /\ UNCHANGED <<file, temps, aged, disks, read, firstEver, outcome, polls,
                 world, announced>>

\* Closing the descriptor lets the lock go, however the block ended.
Release(r) ==
  /\ IsAt(r, "release")
  /\ lock' = NoRun
  /\ IF outcome[r] = "recorded" /\ firstEver[r] /\ kind[r].command = "human"
     THEN Go(r, "announce") ELSE Go(r, "done")
  /\ UNCHANGED <<file, temps, aged, disks, read, firstEver, outcome, polls,
                 world, announced>>

Announce(r) ==
  /\ IsAt(r, "announce") /\ Go(r, "done")
  /\ announced' = announced \cup {r}
  /\ UNCHANGED <<files, disks, read, firstEver, outcome, polls, world>>

-----------------------------------------------------------------------------
(* What happens around the runs.                                           *)

\* Slip: the lock is a file that must be removed, and a killed run does not.
SlipKillKeepsLock(r) ==
  /\ ~IsAt(r, "idle") /\ pc[r] \notin Stopped
  /\ Go(r, "killed")
  /\ UNCHANGED <<files, disks, read, firstEver, outcome, polls, world, announced>>

\* Killed at any point: the system lets the lock go, the temporary stays.
Kill(r) ==
  /\ ~IsAt(r, "idle") /\ pc[r] \notin Stopped
  /\ Go(r, "killed")
  /\ lock' = IF lock = r THEN NoRun ELSE lock
  /\ UNCHANGED <<file, temps, aged, disks, read, firstEver, outcome, polls,
                 world, announced>>

ClocksTick ==
  /\ now' \in Later(now) \ {now}
  /\ UNCHANGED <<files, locals, outside, overtaken, kind, announced>>

\* More than ABANDONED_TEMPORARY_SECONDS pass.
TemporariesAge ==
  /\ aged # temps /\ aged' = temps
  /\ UNCHANGED <<file, lock, temps, locals, world, announced>>

\* Somebody moves the store aside, puts an old copy back or damages it.
OthersReplaceStore ==
  /\ outside < MaxOutside /\ outside' = outside + 1
  /\ OutsiderWaits => lock = NoRun
  /\ file' \in StoresAround \ {file}
  /\ overtaken' = overtaken \cup {r \in Runs : pc[r] \in Settled}
  /\ UNCHANGED <<now, lock, temps, aged, locals, kind, announced>>

RunStep(r) ==
  \/ ReadUnlocked(r) \/ OpenLock(r)
  \/ TakeLock(r) \/ PollAgain(r) \/ GiveUp(r)
  \/ LookWhetherFirst(r) \/ ReadLocked(r) \/ RemoveAbandoned(r)
  \/ CreateTemporary(r) \/ WriteTemporary(r) \/ RenameOverStore(r)
  \/ Release(r) \/ Announce(r)

Next ==
  \/ \E r \in Runs : Start(r) \/ RunStep(r) \/ Kill(r)
  \/ ClocksTick \/ TemporariesAge \/ OthersReplaceStore

Spec == Init /\ [][Next]_vars

-----------------------------------------------------------------------------
(* What the protocol promises.                                             *)

\* A run holds the lock exactly from taking it to closing it, killed or not: no
\* lock outlives its run, and no two runs are ever past TakeLock together.
LockIsHeldInside == \A r \in Runs : lock = r <=> pc[r] \in Inside

\* Tidying never takes the temporary of a run that is still writing it, however
\* long that write has taken: age alone would not tell the two apart.
WriterKeepsItsTemporary ==
  \A r \in Runs : pc[r] \in {"write", "rename"} => r \in temps

\* From its second read to its rename a run works from what the store holds, and
\* that still has room for its reading, unless an outsider wrote in between.
WorksFromTheStore ==
  \A r \in Runs : pc[r] \in Settled /\ r \notin overtaken =>
    read[r] = FromStore /\ WhyNotToRecord(r, FromStore) = "none"

\* A store the reader refuses is never replaced by a run, only by whoever else
\* owns the path, or by a run they overtook after it had read something else.
UnreadableStoreStays ==
  [][FromStore = Unreadable /\ file' # file =>
       \/ outside' # outside
       \/ \E r \in overtaken : pc[r] = "rename" /\ outcome'[r] = "recorded"]_vars

\* The program never writes a store it would refuse to read back.
OwnStoreIsReadable == InStore => Fits(file)

\* The machine's first recording is announced once per time the store came to be
\* missing, however many runs raced to create it.
AnnouncedOncePerCreation == Cardinality(announced) <= 1 + outside

\* A run that is given its turns comes to an end, even if no other run ever takes
\* another step: a holder that hangs costs the others the wait, not their run.
EveryRunEnds ==
  \A r \in Runs : WF_vars(RunStep(r)) => (IsAt(r, "read") ~> pc[r] \in Stopped)

-----------------------------------------------------------------------------
(* The promise as a specification: with the lock kept by all who write, the *)
(* store takes whole readings one at a time.                               *)

Promised == INSTANCE CounterRecord
  WITH taken <- {r \in Runs : outcome[r] = "recorded"}

TakesWholeReadings == Promised!Spec
=============================================================================
