# lsdsk, specified

lsdsk lists a machine's disks, controllers and slots, judges what it finds, and
keeps a small store of drives' error counters so that it can say whether a
counter is still climbing. Three kinds of behaviour are modelled. What outlives a
run and what several runs share: the counter store and every other file that is
replaced. What one run does over time: its way to the interactive view, its
terminal, its streams, its configuration and the code it leaves with. And the
chain of steps from a reading of the hardware to what is said of it, including
the reading itself while the machine changes under it.

Paths below are relative to `src/src/lsdsk/`.

## Inventory

| Part | State it keeps | Operations | Hard behaviour | What makes it correct |
|---|---|---|---|---|
| Counter history rules (`domain/history.py`) | none: values in, values out; a drive's series lives in the store | sample, fold, thin, merge, track, anchor, judge | long sequences of passes over an already thinned series; clocks that fall, misread hours, counters not seen, drives under one identity | a series stays within its cap and keeps what a verdict rests on; no span the drive did not live, no rate or silence from before a restart; no drive's readings under another's name |
| Counter store (`adapters/history/store.py`) | the store file, a lock file beside it, temporary files | read, lock with a deadline, tidy, write and rename | runs overlapping, killed or failing at any step; slow writers; others replacing the file | whole readings, one at a time; never a store that cannot be read back; nobody blocked for good |
| `record` and `analyse` (`adapters/cli/commands/history.py`) | what this run read, its outcome | read without the lock, decide, read again under it, record, announce, exit code | the store changing between the two reads | outcome and exit code tell the truth; one announcement |
| Atomic replacement (`adapters/atomicfile.py`) | the destination, a temporary | replace, write through a stream | power loss, a link retargeted, full disks | old or new content, never a part |
| Standard streams (`adapters/cli/safe_console.py`, `exit_codes.py`, `main.py`) | what stdout and stderr came to, recorded failures | write, flush, answer | the logging thread failing while the main thread writes; readers that left | the code a run leaves with |
| Startup notice, elevation (`startup_notice.py`, `hw/elevation.py`, `entry.py`) | one terminal taken in turn, the line on it | draw, pause, erase, ask, relaunch | Ctrl+C between two steps; a relaunched copy | one at a time on the terminal; never asked twice; a held Ctrl+C is heard |
| Shortcut offer (`commands/shortcut.py`, `shortcut/`, `config/offer.py`) | the menu entry, the user's configuration | offer, plan, install, write, turn off | an installer that fails, an editor that saves meanwhile | what is said is so; no edit lost but between read and write |
| Logging start (`adapters/logging/`) | settings put back, variables set aside, reasons | start, put back, give up | refusals that name the wrong setting | accepted settings are kept; each reason is its own |
| Interactive view (`adapters/tui/`) | tables, cursors, panel, strip, long page | open, fill, highlight, resize, rescan | messages handled after the refill they preceded | the panel is of the row under the cursor, in the end at the screen's width |
| Configuration (`adapters/config/`, `cli/config_loading.py`) | layers, files, overrides | load, skip, merge, override, deploy | files that cannot be parsed, values over tables, partial failure | the layer said to win does; no inert value goes unsaid |
| Diagnosis (`domain/diagnostics.py`, `placement.py`, `fabric_links.py`, `fragmentation.py`, `filesystem_fill.py`) | none | rules over an inventory | readings that failed in any combination; indexes and early exits | a finding follows from the machine, whatever an unread value would have said |
| Linux reader (`adapters/hw/linux/`) | one scan in progress | list, open, ask, follow, tally | hot-plug, stacks built and taken down, pools imported, devices that answer half or for ever | what stands throughout is told as it stands; what was not read is said |
| Windows reader (`adapters/hw/windows/`) | one scan in progress | list twice, open, ask, place hubs, walk bitmaps | drives pooled between the lists, answers cut short, hubs shared by drives | every drive once; every refusal with its own drive |
| Decoders (`adapters/hw/decode/`) | none | classify the environment, name devices, read USB descriptors | traces missing or hidden; lists torn or absent | a machine is never taken for another kind; names go with the reading |
| Snapshots (`hw/snapshot.py`, `hw/capture.py`, `textfile.py`, `cli_snapshot`) | the destination, descriptor 1 | choose, read, write, report; load | the destination being standard output, an encoding added on the way, a schema of another version | the capture is where it is said to be, and reads back as it was told |
| Renderers (`adapters/render/`) | none | lay out pages | narrow terminals | no fact lost |

Interaction: a command starts the logging, loads the configuration, calls a reader
(or loads a snapshot) for the inventory, reads the store, judges the inventory with
the store's trends, prints or opens the view, and folds the reading into the store.
Runs of lsdsk meet each other at the store and its lock, at the files they replace,
and, where one run starts an elevated copy of itself, on one terminal.

## Modules

### The store

| Module | Models | Kind |
|---|---|---|
| `Positions` | positions of a sequence and numbers in order, as comprehensions and `sorted()` leave them | operators |
| `CounterSeries` | `_fold_in`, `thin`, `_spread_over_hours`, `_merged`, `_anchors`, `_previous_reading`, `_quiet_run_start`, `trend_for`; `identity_of`, `has_new_readings`, `record`, `untracked_disks`, `merge_duplicate_series`, `_capped` | operators |
| `DriveHistory`, `MCDriveHistory` | one drive's life and its stored series | state machine |
| `SeriesProofs` | lemmas about `Positions`, loops and `CounterSeries` | proofs |
| `DriveHistoryProofs` | theorems about `DriveHistory` | proofs |
| `HistoryStore`, `MCHistoryStore` | `store.py` and `commands/history.py`: several runs against one store; the instance passes the recording of `CounterSeries` to it | state machine, parametric in what is stored |
| `CounterRecord` | what the store promises | abstract specification |
| `HistoryStoreProofs` | theorems about `HistoryStore` | proofs |

### Files and streams

| Module | Models | Kind |
|---|---|---|
| `AtomicFile` | `atomicfile.py` and the in-place writer of `hw/snapshot.py`: writers of one path | state machine |
| `AtomicFileProofs` | theorems about `AtomicFile` | proofs |
| `StandardStreams` | `safe_console.py`, the end of `main.py`: two threads, two streams | state machine |
| `StandardStreamsProofs` | theorems about `StandardStreams` | proofs |
| `ExitCodes` | the codes by their names | operators |

### A session

| Module | Models |
|---|---|
| `InteractiveStart` | the way from the command word to the view: line, offer, question, elevated copy, page; Ctrl+C held around each step of the line |
| `ShortcutOffer` | the offer and `install-shortcut`: plan, consent, installer, icon, entry, and turning the offer off in the user's file |
| `LoggingStart` | starting the library over settings and variables it may refuse |
| `Deployment` | `config-deploy` over several layers and files, and what it reports |
| `InteractiveView` | tables, tree, panel and long page under keys, resizes, rescans and messages handled late |
| `Session`, `MCSession` | the five composed: who waits for whom, which scenes vary, the exit code of the whole |
| `SessionProofs` | an inductive invariant for each of the five parts, that the parts keep them in a session, and the theorems of the whole |

### Rules and readings

These keep nothing between runs. Each module holds the operators or the steps of
its part and states what they are held to; `Laws` composes them into one state
machine in which a topic is chosen and its input is built up part by part (`Readings`
holds the two variables). Where the part is a process (a scan while the machine
changes, a capture being written), its actions are the steps of the process and of
whoever interferes, and `input` is its state.

| Module | Models |
|---|---|
| `Readings` | what an unread value is: absent, and below nothing; the topic and its input |
| `RecordingLaws` | recording over every small store file and inventory |
| `PciTree` | `Inventory`'s one tour of the PCI tree and the questions it answers, against the tree read plainly |
| `PcieRules` | how a card's link and slot are judged and where it is told to go; small boards to hold it to |
| `SwitchRules` | when a link at the floor is an unfilled register: what each part is, beside what is read of it |
| `PortRules` | a drive's own link, swaps and free ports; small machines to hold it to |
| `HealthRules` | a drive's counters, what its history does to urgency, the order of findings and the exit code |
| `SpaceRules` | fill, fragmentation, and the kernel's space map read in batches while it is written |
| `MountRules` | which mounts are hidden, against the kernel's walk of a path, and the rows of the filesystems section |
| `UsageRules` | what each drive is in use for |
| `MachineBuilding` | ports, rates, temperatures and USB links of a Linux machine, beside the machine itself |
| `PoolReading` | ZFS asked three times in one scan while pools come and go |
| `LinuxReading` | block devices, cards and hubs read while they change; the commands a drive is sent |
| `VolumeReading` | a Windows volume's bitmap piece by piece, and what each volume comes to |
| `WindowsReading` | the two lists of drives and the requests to each; hubs, ports and what a link is told to be |
| `Environments`, `DeviceNames` | whose hardware was read; PCI names |
| `ConfigLayers` | files, provenance, skipped files, overrides, sections and modes |
| `Snapshots` | taking a capture, reading one back, order, encodings and tallies |
| `Laws`, `MCLaws` | the composition and its small inputs |
| `PortProofs` | lemmas about `PortRules`: trees of maxima, swaps, free ports, links, counts |
| `LawsProofs` | theorems about `Laws`, and the lemmas about the other rules they rest on |

### How the models stand for the code

*Samples.* A row is its power-on hours and one counter. The code keeps several
counters in a row and judges each on its own (`trend_for` takes the kind), so
one counter, which a reading may or may not see, stands for each. The time of
capture is left out: nothing but display reads it.

*Loops.* `thin`, `_spread_over_hours`, `_anchors` and `_previous_reading` are
written as the set of positions they select, and `At` lists the rows at a set of
positions in order; `_quiet_run_start`, which walks back over the anchors until a
row breaks the silence, as the first anchor no row after it breaks. A rate is not
divided out: the span and the gain are compared, and "at least `quiet_expected_min`
expected errors" is multiplied through.

*A run* (`HistoryStore`) is a `pc`. The steps are the points at which another
process can be scheduled and notice: reading the hardware (`Start`), the first
read of the store (`ReadUnlocked`), opening the lock file (`OpenLock`), trying
the lock (`TakeLock`, `PollAgain`, `GiveUp`), asking whether the store exists
(`LookWhetherFirst`), the second read (`ReadLocked`), tidying
(`RemoveAbandoned`), creating, writing and renaming the temporary
(`CreateTemporary`, `WriteTemporary`, `RenameOverStore`), closing the lock
(`Release`) and the announcement (`Announce`). Failures of the operating system
are second disjuncts of the step that meets them. `Kill` may follow any step.
The store's text is not modelled: a file is a history, absent, or something
the reader refuses. Refusals are warned about once per process; a run declines
as soon as it reads a refused store, so that rule never comes into play here and
is left out. Drives' clocks tick between a run's read of the hardware and its
write; temporaries grow old; somebody else may replace the file, either politely
(`OutsiderWaits`) or at any moment.

*A write* (`AtomicFile`) is a `pc` too. Looking at the destination takes one or
two system calls (`Look`, `LookBehindTheLink`); then either a temporary is made,
written through and renamed (`MakeTemporary`, `WriteThrough`, `Rename`, with a
failing disjunct each), or a stream is written through its link (`OpenTheLink`,
`CheckWhatWasReached`, `WriteInto`), or the alternative opens the path itself
(`CheckForLink` where the platform lacks `O_NOFOLLOW`, `OpenInPlace`). A writer in
`InPlace` is one that passes `without_a_temporary_file`. A body is the name of
its writer, `Old` or `Torn`. `durable` is the set of entries the directory may be
found to hold after a power loss; a file that was not forced out may come back
torn. `replace_bytes_atomically` is the same sequence without the look; its one
caller writes to a path of its own.

*A stream* (`StandardStreams`) is what stands behind its descriptor (`dest`), a
buffer that is empty or not, and whether it was pointed at the null device.
`Attempt` is a write with its flush; one that fails sets the thread's `job`, and
the thread silences the stream (`_stop_writing_to`: `Duplicate` under
`_REDIRECTING`, `PointAtNull` or `FailToRedirect`, `Discard`) and answers
(`LoseTheDiagnostic`, `RecordTheFailure`, `LeaveWithTheReader`,
`RaiseTheRefusal`). `how` tells which caller answers: the command's own output, a
diagnostic about a code already decided, the logging console, or the final
flush. The way out is the end of `main()`: the drain, both flushes, the record,
the ranking, the descriptors given back, and the interpreter's own flush.

*A start* (`InteractiveStart`) has one place (`at`) and one step of the line
(`step`) for each copy of the program; `line` is what of it is on the terminal,
and `held` a Ctrl+C that `_ctrl_c_held` has taken and not yet raised. The
offer, a command and the view are places where the start waits; `Session` runs
the module of that part there, and `MayGoOn` is what the start waits for. Its
*scenes* vary one part at a time and keep the others at their plainest, because
the parts share only the terminal, Ctrl+C and the code: what one of them leaves
behind is read by none of the others.

*The view* (`InteractiveView`) queues for each widget what it will say of itself,
in order, and handles the queues in any order between them, as the toolkit does.

*The logging library, the configuration library and the kernel* are external. The
first stops at the first value it cannot use and names it well, badly or not at
all; the second merges layers and copies files; the third answers in batches,
refuses, or stands still.

*Readings* (`LinuxReading`, `PoolReading`, `VolumeReading`, `WindowsReading`). The
machine and the reading are kept side by side: one set of actions are the reader's
calls in the order of the source, the other whatever the machine does between two of
them, up to a bound. What was true throughout is remembered for the properties, which
the program cannot see.

*An unread value* is absent in every comparison (`Readings`), and the laws ask of
each rule that no completion of an unread value would have contradicted it.

*Ages, truth and history variables.* `DriveHistory` keeps each reading's true age
and the run of the clock it belongs to; `SwitchRules` what each part really is;
`Snapshots` whether a path was linked meanwhile. The program sees none of them;
the properties do.

## Runs

Every bound is a constant of its module, named in its `.cfg`, or in an MC module
where a `.cfg` cannot write it.

| Run | Question | Bounds, and why they are enough |
|---|---|---|
| `drive_life` | Do thinning after every reading, a changing cap, a falling clock, a misread hour and an unseen counter break the series or the verdict? | a long orderly life and a short disorderly one: thinned up to three times over; one of each mishap in every order |
| `drive_rate` | Is a rate ever taken across a restart? | expected to fail, see below |
| `drive_silence` | Does thinning keep a silence from reaching back over a restart that was read? | expected to fail, see below |
| `store_overlap` | Do overlapping runs keep the promise of `CounterRecord`, end, and answer truthfully? | two runs, three hours, a store full at two rows: each pair of steps of the two runs in either order, kills and failures included |
| `store_others` | What if somebody replaces the file at any moment? | two runs of every command, one replacement between any two steps |
| `store_chronology` | Are stored hours in order? | expected to fail, see below |
| `atomic_file` | Is a file replaced whole or not at all, and nothing but a file replaced? | a writer without and one with an alternative, two changes by others, any kind of destination: each look with its answer changed before and after |
| `streams` | Is the code a run leaves with true of what was delivered? | both streams as console, two writes, two log lines, one diagnostic; codes of each class: both threads can meet the same stream, and each stream can fail before, during and after the verdict |
| `session` | Is the terminal shared in turn, and is what each part says of its work true of it, with Ctrl+C, an editor and late messages between any two steps? | two Ctrl+C, so that one may land while another is held; one save of an editor, before, between and after read and write; two settings and two variables, any of which may share a text, so that a refusal can name the wrong one; two layers of two files; two drives, a bridge and two densities of the tree, two widths, three moves. At most one path of a deploy is a directory or does not parse; a followed view is left at rest; the copy reads other settings only where there may be a copy |
| `session_ends` | Is a held Ctrl+C heard, and does an open view come to rest? | one Ctrl+C, two moves |
| `laws` | Do the rules and readings agree with what they are held to, on every small input? | see the constants: a tree of four nodes (two functions of one device under two bridges), boards of two more slots, machines of four drives (three behind one port) or three controllers, three mounts per path of two steps, five records in batches of two with two writes between, two pools with two moves between three questions, three hubs and three drives, two drives with two moves between the Windows lists, files of every size about a ceiling of twelve bytes |
| `silent_reads` | Is a drive called free only when every source that could have named a use was read? | expected to fail, see below |

`CHECK_DEADLOCK FALSE` stands in the configurations because every behaviour ends:
the runs stop, and the bounded inputs run out.

*Groups.* A run's property may join several that are about one promise; each part
is stated and explained where its module defines it, and has slips of the code that
break it. `SeriesIsSound` and `NothingUnlivedIsClaimed` (a drive's series),
`CodeIsTrueOfTheOutput` and `StreamsAreGivenBack` (streams),
`TerminalIsSharedInTurn`, `OfferDoesAsItSays`, `RefusedSettingsFallBack`,
`DeploymentIsAsReported`, `ScreenAgrees`, `SessionIsInOrder` (a session), and the
ten of `Laws`:

| Group | What it says |
|---|---|
| `RecordingLosesNothing` | no hour lost in a merge, no drive passed over unnamed or spliced into another, nothing declined that was new |
| `TourAnswersForTheTree` | the one tour answers what asking each node would, with orphans, cycles and several roots |
| `CardsAreToldTheTruth` | the port a card is advised is the best there is; a blame stays whatever an unread value would have said; only an unfilled register is excused |
| `DrivesAreToldTheTruth` | swaps are those of a plain walk, a free port is the first, no slow link goes unspoken, a drive seen twice pulls once |
| `VerdictsFollowTheReadings` | a worse reading is never milder, only a quiet history calms, the first line decides the exit code |
| `StorageIsToldAsUsed` | space counted once while the kernel answers in batches; figures are of the filesystem they stand beside; a drive is not called unused because of a reading known to have failed; no pool is put on a stranger, nor the system on a pool of the same name |
| `MachineIsToldAsRead` | ports that stood throughout are told as they stood, silence invents nothing, a machine is not mistaken for another kind, devices are named under their own vendor |
| `NothingIsLostInSilence` | every pool, volume, drive and USB end is told or excused, once, with its own error; every question ends; no single filesystem takes the scan with it |
| `ConfigurationIsHonest` | skipping a file keeps the order of the rest; settings take effect; every value that does not is said; a forced deploy mends what it can |
| `ReplayTellsTheSame` | a capture is where and as it is said to be, reads back however it was encoded, in the order and under the names of the run that took it |

*Fairness.* `EveryRunEnds` needs weak fairness of the run's own next
step, and nothing of any other process. The code justifies exactly that: a
process that is not killed is scheduled, its polling loop has a deadline, and it
waits for nothing else. A holder that hangs is therefore part of the check.
`RunEnds` needs weak fairness of the main thread and of the logging worker, each
as a whole: threads are scheduled, a write to a pipe that nobody empties is left
out, and a command's own work is bounded. `HeldCtrlCIsHeard` and `OpenViewSettles`
need weak fairness of what the program does by itself, taken as one
(`SessionFairness`): a copy that waits for its child waits for it, and handling a
message is not put off for ever. Nobody has to press a key, answer a question or
leave the view. Which failure happens, and whether any does, is never assumed.

*The abstract store.* `TakesWholeReadings` instantiates `CounterRecord` with the
set of runs whose outcome is "recorded" for `taken`. Each step of each run must
be one `Take`, one `Replace`, or leave file and outcomes alone.

*What is taken for granted.* In `AtomicFile`: nobody but the writers puts a stream at
the path or removes one while a write goes on, and permission bits play no part; a
temporary that cannot be removed is passed over, and `NothingIsLeftBehind` says so. In
`HistoryStore`: the lock is free, held, or refused as the file is opened; another
error of the lock call ends the wait as a deadline does. `ShouldOffer` of
`ShortcutOffer` leaves out the terminal and the setting, which decide before it, in
`OfferIsMade` of `InteractiveStart`. In `StandardStreams`: a disk that is full stays full, the library's drain either ends or raises (its own timeouts are
not modelled), and Ctrl+C does not land between the duplicate and the note of it.
In `InteractiveStart`: the elevated copy repeats the start of its logging with the
first run's outcome. In the readings: a system call answers, refuses or falls
short; what it answers is of the device it was asked about.

## What the code does otherwise than its text says

Shown by a run:

- `drive_rate`: `_previous_reading` compares the first reading after a restart of
  the clock with a row of the old run, when one stands at or below the new
  clock: rows (10 h, 3), (1000 h, 50), (15 h, 5) are called rising from the row at
  10 h. `tests/test_history.py:181` says "after a real reset the new run is the
  base, never the old clock".
- `store_chronology`: hardware is read before the lock is waited for, and any
  hour that differs from the last stored one is news, so the run that read
  first and locked second stores the earlier hour last. `domain/history.py:188`
  says samples are "in chronological order".
- `drive_silence`: thinning may drop every row of the old clock that stood past the
  newest hour and keep older rows of it. The hours 0, 1, 2, 3, then 1, 2 after a
  swap are quiet over one hour; a cap of five keeps 0, 1, 2, 1, 2, which are quiet
  over two. Nothing stored shows the swap any more, and the new drive has the old
  one's silence. The walk stops where "the drive's clock went backwards; the run
  does not span it" (`domain/history.py:383`).
- `silent_reads`: holders that cannot be listed are no holders
  (`mounts.py`, `_holder_names`), a swap whose node cannot be asked is an empty row,
  an entry of the device database that cannot be read is no signature. None of them
  is told to `_undecidable`, whose text says that "not mounted" is claimed only when
  every source was read (`usage.py:478`).

Met while stating properties, each named beside the property that had to make room
for it:

- History. The buckets of `_spread_over_hours` move with every reading, so a middle
  row that one pass kept may go in the next, although `thin` says it is kept; the
  verdicts do not depend on it. When the clock is back at exactly the hour it had
  reached, a misread row between can be the base of a rate; `SpanIsReal` therefore
  asks for a clock that stands above. Anchors look only at rows that saw the
  counter, so a row that did not cannot expose a misread one.
- Streams. A standard error whose reader has left, met only at the final flush,
  turns a verdict into 141 (`_delivered`), while `_lose_the_diagnostic` says the
  code stands whether the reader left or the disk is full.
- Logging. A refusal that names no variable present makes `quoted or list(present)`
  (`refusals.py`) set all of them aside, and one that is about something else
  altogether ends the start in an exception; `EveryRefusalIsRepaired` does not hold.
  `named_keys` names every changed setting whose text a refusal quotes: of two that
  hold the same text an accepted one goes back too, under words about the other,
  although `start_runtime` says that "each warning quotes the refusal its own source
  earned". `AcceptedSettingsAreKept` and `EachReasonIsItsOwn` leave exactly that out
  (`IsTakenForAnother`).
- Snapshots. The size of a snapshot is judged before a newline is added to it on
  standard output, and on Windows a carriage return to each of its lines, in a file
  too (`write_through` opens it as text): one of nearly the ceiling is written and then
  refused, although "writer and reader cannot disagree about the boundary"
  (`textfile.py`). `save` says that a previous file is untouched when a write fails;
  where no temporary can be made the write is in place, and `_write_in_place` says
  that it leaves a part. `CaptureIsAsReported` and `FailedWritesReplaceNothing` speak
  of the writes that are not in place.
- Startup. A Ctrl+C before the handler is in place, or a second one while the first
  is raised, leaves the line on the terminal (`ErasedOnEveryWayOut` does not hold).
- Offer. A user file that is not UTF-8 raises a `UnicodeDecodeError` that
  `_disable_for_the_offer` does not catch, and the session ends with a bug's code.
- Deployment. A directory in the place of a companion in `config.d` is not looked
  for. A value set for a whole table by `--set` can be credited to a file
  (`_provenance_naming_the_cli`).
- History, too. The verdict cannot tell a clock that has climbed back past all that
  is stored of an earlier run from one that never fell, so `QuietStaysInOneRun` speaks
  of the runs whose end shows. `has_new_readings` looks at drives whose identities
  collide, which `record` leaves out: two such drives make every run rewrite the
  store unchanged and report a recording.
- Drives. `_faster_free_port` names a controller whose port is faster than the
  drive's present one; the sentence promises one "at the drive's full speed".
- Cards. `_swap_slot_for` compares bandwidths as single numbers, so a swap can cost
  a card its generation or its lanes; "no port on this board would give it more" is
  said while a port went unread.
- Linux. An identify or SMART answer that does not decode leaves the drive without
  health and without a word; a refused listing of pools is not said where neither
  layouts nor labels could be read; `port_max` of a USB drive is told from one half
  of a hub when the other was not read; a mountpoint mounted over between the table
  and the question is asked all the same.
- Windows. What partition a volume is on is a question of its own, and its failure is
  recorded nowhere (`_is_esp`), so a drive that boots from an EFI partition which
  opened but did not answer is told "not mounted"; an interface list that could not
  be opened at all is said nowhere;
  `_usb_chain` takes the hub's record of a port for the drive's own when the drive
  could not be placed; a hidden drive whose number was not read is not linked to
  its Space.
- Names. `_database_text` falls back to the bundled list on an `OSError`, while the
  bounded read raises a `ConfigurationError`: an unreadable or oversized `pci.ids`
  of the system ends the scan instead.

## Hazards and what answers them

`PROJECT.json` lists the hazards at their lines. In short: two runs, two threads,
two copies or two writers between any two steps (store, streams, start, files);
kills and power loss (store, files); a view of the machine, of a file or of a
terminal that is stale by the time it is used (readings, capture destination, view,
offer); partial failure (deployment, installer, requests to drives, one file or one
filesystem of many); sequences (put-backs, thinning, walks that may never end); and
values at their edge (caps, ceilings, floors, unread values). Each is answered by
the property named with it.

## Proofs

`HistoryStoreProofs` proves for every number of runs, every set of histories and
every bound, from the four named assumptions of `HistoryStore` (runs are not the
"free" token, stored values are closed under loading and folding, inventories
come from `AllInventories`, bounds are naturals):

- `TypeCorrect`, `MutualExclusion`, `TidyingIsSafe`, `NoLostUpdate`: the
  invariants `TypeOK`, `LockIsHeldInside`, `WriterKeepsItsTemporary`,
  `WorksFromTheStore`;
- `UnreadableIsKept` and `StoreStaysReadable`: `UnreadableStoreStays` and, if
  nobody else leaves an oversized store, `OwnStoreIsReadable`;
- `Refinement`: `TakesWholeReadings`, if those who write wait for the lock.

The inductive invariant `IInv` adds to the checked invariants what they need to
be inductive: an outcome is set only by the step that leaves the undecided ones
(so a rename is the only step that adds to `taken`); the hardware has been read
and the store was readable by the time it is folded (so the file keeps its
type); what was measured is what is written; and a polite outsider overtakes
nobody. The argument rests on mutual exclusion: past `TakeLock` a run is alone,
so its temporary, the file and what it read stay put until its rename.

`AtomicFileProofs` proves every invariant of `AtomicFile` for any set of writers,
any of them given an alternative, and any number of changes by others, from its
three named assumptions (who is given an alternative is a writer, bodies are told
apart, the bound is a natural): `TypeCorrect`, `Atomicity`, `NoTraversal`,
`StreamsAreKept`, `FailureIsHarmless`, `NoLeak`. Its `IInv` says what is true on the
way: only a synced temporary is renamed, so whatever may be found after a power
loss is whole and was forced out (`DurableIsWhole`; without "forced out" the loss
could tear it); a descriptor and a temporary exist only at named places of the
sequence; whoever replaced the entry is done, and a body that may be found there is
that of a write that ended well (`BodiesAreOfTheDone`); what nobody renamed, wrote in
place or meddled with is what was there (`UntouchedIsAsItWas`); where links can be
refused nobody ever holds a descriptor of a file behind one; and at a stream no writer
is on the way to a rename. Each part has a lemma with one step per group of actions.

`SessionProofs` proves `RefusedSettingsFallBack` of `LoggingSpec` for any
finite set of settings and any variables (`SettingsFallBack`), from the assumptions
that no name is both. `LoggingInv` says what a refusal at hand is a refusal of
(`RefusalIsOfThisStart`), and that each round puts one setting back at least
(`EveryPassPutsOneBack`), which is why the rounds end at the last changed setting
and not at their counter; so what refuses then is a variable. The words of a
setting are its own only as long as no variable refuses (`WordsOfSettings`): while
one does, a round may name the wrong setting, but such a round never starts, and its
reasons are taken back with it; and but where its text is one that a refusal of
another setting quotes, which the two promises leave out by name.

`StandardStreamsProofs` proves the two invariants of `StandardStreams` for any
consoles, any codes a command may decide on and any bounds, from the assumptions that
those codes are codes and the bounds naturals: `TheCodeIsTrue` and
`EveryStreamIsGivenBack`. The parts of its `IInv`: where a thread can be, counting a failed write by the place it returns to
(`Pos`), so that an answer never lands between ranking and exit (`ThreadsInPlace`);
once the library is drained only the main thread writes (`DrainedForGood`); the lock,
the duplicates and the silenced streams stay in step (`LockHoldsADuplicate`), and a
stream is silenced for its own failure (`SilencedForAFailure`); a buffer past its
flush is empty or about to be thrown away (`BuffersAreEmptied`); and a loss is on a
thread's hands, recorded or already in the code (`LossesAreAnswered`,
`RefusalsStand`). Together they give the argument the code depends on: at the exit
nobody is left who could still answer, so a verdict that stands has lost nothing.
Each part has a lemma with one step per group of actions.

`HistoryStoreProofs` also proves `AnnouncedOncePerCreation` (`AnnouncedOnce`): a run
that found no store under the lock and then recorded is a creator, the creators
never outnumber the times the store was missing (`CreationsAreCounted`; one of them
is still to come while the file is absent or a run inside the lock has found it so),
and only a creator announces.

`DriveHistoryProofs` proves the three invariants of `drive_life`, for any kinds of
life, any caps, any thresholds and any number of readings.

- `SelectionOfTheLife` (`SeriesIsSound`). `SeriesInv` says that some increasing map
  from the stored rows to the rows of the life selects what is stored, keeping the
  first row and the newest half of the smallest cap so far (`Selects`). What `thin`
  keeps fits the cap (`StrideFits`, `SpreadFits`, `KeptIsSound`), so thinning is such
  a selection (`ThinSelects`); folding a reading in keeps one of the life with that
  reading added (`FoldSelects`); and a selection of a selection is one under the
  smaller of the two caps (`SelectionsCompose`), which is why a cap that is raised
  later changes nothing. The map is needed because the positions in the life are not
  in the state: without it a thinning could not be compared with the one before.
- `OnlyTheLivedIsClaimed` (`NothingUnlivedIsClaimed`). A quiet run holds no row above
  the newest hour (`QuietRunHolds`), so it holds none of a run whose end shows among
  the stored rows, for it would hold the row that shows it (`QuietIsOfOneRun`). An
  anchor has no earlier row above it (`AnchorsHold`), so where misread hours show in the
  readings an anchor was read truly, and the span from it was lived (`AnchorsAreTrue`,
  `SpansAreReal`).
- `VerdictsSurviveThinning` (`ThinningKeepsTheVerdict`). While clock and counter only
  climb, so does the life (`LifeKeepsClimbing`) and every selection of it
  (`SelectionClimbs`). On rows that climb the verdict depends on the last two
  and on the first that holds the newest counter (`VerdictOfAClimb`); the last two are
  kept under any cap of four or more, and the silence can only be seen shorter
  (`LongerSilence`).

The rest of a session is proved in two stages. Each part has an inductive invariant
over its own variables, whose steps are proved first; then
`SessionProofs` shows that every step of `SessionNext` is, for each part, one of the
part's own steps, a stutter or, for the start, a bug that ends it (`GivenUp`). What
follows holds of `SessionSpec` for every value of the constants, the bounds on
Ctrl+C, edits and moves included; the scenes restrict only how a session begins, and
none of the invariants needs that.

- `SharedInTurn` (`TerminalIsSharedInTurn`). While the
  line is drawn or erased its step returns to the place that asked for it
  (`CallsInPlace`); what stands on the terminal and whether Ctrl+C is held are
  functions of that step (`NoticeInPlace`), except after a signal that killed the
  copy; which places each run can be at given the other's (`RunsInPlace`) and what it
  has asked by then (`AskedInTurn`) give the turns and the single questions.
- `OfferedAsSaid` (`OfferDoesAsItSays`). What the desk, the
  consent and the user's file hold at each place of the sequence (`DeskInPlace`,
  `ConsentInPlace`, `SettingInPlace`); the document written back is always the one
  last read, so an edit is lost only if it was made after `loadedAt`.
- `DeployedAsReported` (`DeploymentIsAsReported`, for any layers). A file is the shipped copy exactly where the library wrote it and was
  allowed to, every file asked for is written, kept or still to come, and what is
  said is said of what was read before. That no override goes unnamed needs that the
  last file of the order that sets the key decides, before and after
  (`LastDecides`, from `GreatestExists`).
- `SettingsFallBackInSession`, and `LoggingStaysTyped` for the type that goes with it.
- `OneMachineOnTheScreen` and `OneMachineInSession` (`ScreenAgrees`, for any drives,
  tree, densities and widths). `ViewInv` says
  of each widget that what the view recorded of it is where it stands, *or* that the
  last message of that kind on its way says so (`Follows`). A message posted comes
  last, a message handled is the first, and every other kind stays as it is
  (`PostedLast`, `HandledFirst`, `Untouched`), so each handler has one thing to show.
  The tree needs that a node's ancestors are what they are said to be: they are a
  recursive function, which `ThereAreAncestors` proves to exist by climbing from the
  roots, and `AncestorsClimb` to follow the parents.
- `CodeIsTheOutcome` and `SessionStaysAsPromised` (`SessionIsInOrder`). A run comes to
  its end in one of six ways (`WayOut`), and is not brought back (`EndIsFinal`); the
  first run waits for the part it has started, which by then has answered
  (`PartsInTurn`); an answer given does not change. So the code at the end is the one
  the parts came to (`OutcomeAtTheEnd`), and with every part's type that is the
  invariant the run checks.

`LawsProofs` proves groups of `Laws` for inputs of any size. A question picks its topic
once, and its input then grows by the actions of that topic only
(`EachStartsItsOwnWay`, `EachGrowsItsOwnWay`); what such an input is made of is the
inductive invariant (`RecordingAsked`, `VerdictsAsked`, `CardsAsked`, `ConfigAsked`,
`DrivesAsked`), and each law is a
statement about any input so made.

- `RecordingKeepsAll` (`RecordingLosesNothing`), for files of any number of drives, copies
  and rows, and any number of drives read. A merge of the copies of one drive holds the
  hours of all of them in order, and of each hour the row that stands last
  (`SomeRowIsLast`, `MergedCopies`), so no hour goes and no row is made up. A reading
  that is the last row of a history folds into itself, and thinning leaves a history
  that fits the cap as it is (`RecordedAgain`, `NothingThinned`), which is why a reading
  recorded twice is recorded once (`TakenInOnce`); what a run finds nothing new in has no hour
  the file lacks (`NothingIsNew`, `DecliningChangesNoHour`). These are proved in
  `SeriesProofs`, for any history.
- `VerdictsFollow` (`VerdictsFollowTheReadings`). `WhatIsSaid` reduces
  the findings about a drive to one word for each of its organs (`Spoken`), in which a
  worse reading and another history can be compared one organ at a time
  (`WorseOrgans`, `HistoriesMove`). Sorting is by each finding's place, which is shown
  to be a bijection (`SortedFindings`), so the first line is the most urgent one.
- `CardsAreTold` (`CardsAreToldTheTruth`), for boards with any number of further slots
  and switches with any number of ports. `best_slot` and `_best_port_for` are loops,
  and a loop is a function of how far it has come (`BiddingIsALoop`, `RankingIsALoop`,
  `SumIsALoop`): after each port the leader is the best of those asked
  (`TheLeaderIsOutbid`, `TheRankIsKept`). They ask one port of each placement key, and
  ports of one key answer alike (`KeysAnswerAlike`, `CandidatesAreAsked`), so the port
  advised is the best of all (`BestSlotIsBest`, `BestPortIsBest`). A blame rests on
  what was read (`WhatVerdictsRestOn`), which filling in the unread leaves as it is
  (`FillingKeepsTheRead`); a need dismissed is a sum of known figures
  (`OnlyKnownNeedIsDismissed`); and an excused link is at the floor on a part that no
  reading denies is a function of the switch (`TwinsAreFound`, `ExcusedAre`).
- `ConfigurationIsTold` (`ConfigurationIsHonest`), for any keys, tables of any number of
  leaves, and any number of overrides. A merge is what lies over (`Lying`) and what is
  spared of the table below (`Spared`), which `MergedIs` says of any two tables. Taken
  apart by who gave a leaf, a merged configuration falls into tables none of which is
  near another, so that put together with the dotenv layer between them the one before
  the environment comes back (`TakenApart`, `SkippingIsReading`); this needs that only a
  file holds a table without keys, which is why `LayersAsked` says who may have given
  what. Overrides are a loop (`NestingIsALoop`) whose leaves are those of the last
  override of each path (`NestedIs`); that they hold no leaf inside another needs
  that no two paths disagree, and how far two prefixes of one path go on
  (`RunsOn`, `Beginnings`). A load is decided by the first file that fails
  (`LoadsEnd`), a mode by the last layer that gives one (`WinnerIs`).
- `DrivesAreTold` (`DrivesAreToldTheTruth`), for any number of drives and controllers, any
  speeds, and any names and serials the drives share. Its lemmas are in `PortProofs`.
  The index behind the swaps is a tree of maxima. A node stands over a run of leaves
  (`Spanning`, `Upwards`) and holds the greatest of them (`TreeOf`), which building
  the tree brings about (`MaxTreeIs`) and taking a leaf out keeps (`RemoveLeafIs`, up
  the halvings of `HalvingClimbs`); so either descent ends at the first leaf of its
  kind (`FirstAtLeastIs`, `FirstAboveIs`). The trees index the holders whose names are
  not promised (`Indexes`, at first all: `GroupsIndexAll`), and withdrawing a partner
  withdraws all of its name (`WithdrawnIndexes`). A step by trees is then a step by
  names (`FirstFittingIs`, `OnwardAlike`), and as both loops have one outcome
  (`LoopsAreOne`), the swaps are those of the walk (`SwapsAreWalked`); names once
  promised stay promised (`PromisesGrow`). A free port is found by the same descent
  (`FirstOfFree`); what is said of a link is a matter of cases (`DrivesAreSpokenOf`,
  `UsbAreSpokenOf`). Drives are counted in a loop, of which each entry that counts is
  the first of its serial (`CountingGoesOn`, `DrivesAreCounted`), and the sum of their
  pulls is a sum over those entries (`TotalGrows`).

Assumptions, each named in its module: `LivesAreBounded`, `SizesAreNat` and
`ThresholdsAreSet` (a cap is at least 1, bounds are naturals, thresholds positive, as
the settings' checks have it), `SignalIsANumber`, `FindingsAreGraded` (an urgency is one of the three, a subject a
number), `BoardsAreReadings` (what is read of a link is a natural or nothing, a need a
list of numbers), `RatesAreRates` (the speed of a link is a positive number, a USB rank
one of those known), `LayersAreNamed` (layers are names, none of
them "packaged"), `MaxEditsIsNat`, `ViewSizes` (drives and lines are sequences of
names, each density begins with the machine, widths leave room for the border) and
`FabricIsATree` (no node hangs on itself: `_line_of` climbs in a `while` loop that
has no other way to end; parents are read off paths, where a path's parent is
shorter).

*Induction.* The library's induction theorems take an operator and cannot be used
here; `WFMin` with the order of the naturals can, and gives that a set of naturals
has a least member (`LeastExists`, `SomeIsLeast`). The proofs that count or climb
argue from a least counterexample.

Only model-checked: liveness (`EveryRunEnds`, `RunEnds`, `HeldCtrlCIsHeard`,
`OpenViewSettles`; fairness is out of the prover's reach), and the other groups of
`Laws`, whose rules sort and scan sequences with operators the provers cannot expand
(`SelectSeq`, `SortSeq`), or are processes with a long sequence of their own.

## Not modelled, and why

Renderers are stateless layout. Pages of ATA and NVMe are translated word by word,
with no state and no choice between steps. Which file of /sys or which request of
Windows holds which attribute is pure input and output; the order of the requests,
their failures and what is made of them are modelled. The PCI tree of Windows is
assembled as that of Linux is and is not modelled a second time. Options, the JSON
envelope, models' field declarations, wording, colours, key bindings and layout are
left out throughout.

## Plan

1. Proofs: the tour of `PciTree`, whose stack is an invariant of `WalkOn`; then the
   readings, process by process.
2. The walk that draws the fabric (`hw/fabric.py`), against `PciTree`.
3. The assembly of disks and slots on Windows, beside `MachineBuilding`.
4. Column fitting of the renderers: no fact lost on a narrow terminal.
