-------------------------------- MODULE Laws --------------------------------
(***************************************************************************)
(* The rules of lsdsk that keep no state, each asked about every small     *)
(* input it can be given: a question picks its rules, and the machine, the *)
(* tree or the table it is asked about grows a part at a time.             *)
(***************************************************************************)
EXTENDS RecordingLaws, PciTree, PcieRules, SwitchRules, PortRules, HealthRules,
        SpaceRules, MountRules, UsageRules,
        MachineBuilding, PoolReading, VolumeReading, ConfigLayers, LinuxReading,
        WindowsReading, Environments, DeviceNames, Snapshots

AskAboutLinks == AskAboutTrees \/ AskAboutBoards \/ AskAboutSwitches \/ AskAboutPorts

AskAboutVerdicts == AskAboutDrives \/ AskAboutMachines \/ AskAboutFirmware

AskAboutStorage ==
  \/ AskAboutFills \/ AskAboutInodes \/ AskAboutExtents \/ AskAboutMounts
  \/ AskAboutWalks \/ AskAboutMountTables \/ AskAboutUses \/ AskAboutPools

AskAboutReadings ==
  \/ AskAboutMachinesBuilt \/ AskAboutPoolScans \/ AskAQuestion
  \/ AskAboutBitmaps \/ AskAboutVolumes
  \/ AskAboutReadingsTaken \/ AskAboutUsbTrees
  \/ AskAboutWindowsReadings \/ AskAboutWindowsUsb
  \/ AskAboutEnvironments \/ AskAboutNames \/ AskAboutSnapshots

Init ==
  \/ AskAboutRecordings \/ AskAboutLinks \/ AskAboutVerdicts \/ AskAboutStorage
  \/ AskAboutReadings \/ AskAboutConfiguration

Next ==
  \/ AddSeries \/ AddRow \/ ReadDisk
  \/ AddNode \/ SeatTheCard \/ AddPort \/ PlaceTheSwitch \/ FillAPort
  \/ AddDrive \/ AddController \/ AddEntry
  \/ ARuleFinds
  \/ AnExtentIsFree \/ AMountIsListed
  \/ KernelAnswers \/ KernelStandsStill \/ KernelRefuses \/ FilesystemIsWritten
  \/ Mount \/ AFilesystemIsMounted
  \/ APhyIsListed \/ ADriveIsFound \/ AHubIsAbove
  \/ ReadThePools \/ ReadTheFragmentation \/ ReadTheLayouts
  \/ APoolIsImported \/ APoolIsExported \/ TheDeviceReplies
  \/ TheDriverAnswers \/ TheDriverFails \/ TheVolumeIsWritten
  \/ GiveALeaf \/ GiveASet
  \/ TakeTheReading \/ AHubIsPlugged \/ AUsbDriveIsPlugged
  \/ ListInterfaces \/ OpenAnInterface \/ ADriveIsMoved \/ OpenTheDisk \/ AskTheDisk
  \/ ADeviceIsPlugged \/ ADriveIsOnADevice \/ StartWithTheDrives \/ RecordADevice
  \/ ALineIsRead \/ ADeviceIsFound
  \/ ChooseTheDestination \/ ReadTheMachine \/ ThePathIsLinked \/ WriteTheCapture \/ ReportTheCapture
  \/ AFreeExtentIsRead

Spec == Init /\ [][Next]_asked

-----------------------------------------------------------------------------
(* What the rules are held to, by what they are about.                     *)

\* A store file read and recorded into: no hour lost in a merge, no drive passed
\* over unnamed or tracked as another, nothing declined that was new.
RecordingLosesNothing ==
  /\ MergeLosesNoHour /\ EveryDriveAccountedFor /\ OnlyTrackedAreTouched
  /\ DecliningLosesNoHour /\ RecordingAgainChangesNothing

\* One tour of the PCI tree answers what asking each node in turn would.
TourAnswersForTheTree ==
  /\ SpansAreTheSubtrees /\ CeilingIsTheNarrowestAbove
  /\ CarriesWhatBridgesReach /\ LeadingIsHavingOneBelow

\* What a card is told of its link and its slot is so on the board as it stands.
CardsAreToldTheTruth ==
  /\ AdvisedPortIsTheBest /\ BlameOutlastsTheUnread /\ CappedCardIsToldTheTruth
  /\ OnlyAKnownNeedIsDismissed /\ NoRealBottleneckIsExcused /\ BuiltInPartsAreExcused

\* What a drive is told of its port, and what drives that share one are told.
DrivesAreToldTheTruth ==
  SwapsAreThoseOfAWalk /\ FreePortIsTheFirst /\ SlowLinksAreSpokenOf /\ EachDrivePullsOnce

\* A worse reading never calms a verdict, and an unread one decides none.
VerdictsFollowTheReadings ==
  WorseIsNeverMilder /\ OnlyAQuietHistoryCalms /\ FirstLineDecidesTheExit /\ UnreadFirmwareMixesNothing

\* Space is counted once while a kernel answers in batches and others write; a drive is
\* not called free because of a reading known to have failed, nor the system's because
\* of another pool of the same name.
StorageIsToldAsUsed ==
  /\ TheFullAreNamed /\ SplittingNeverLooksBetter /\ ReadWhereItCanBe
  /\ NoPlaceIsCountedTwice /\ StillMapIsReadWhole /\ HiddenIsWhatNoPathReaches
  /\ FiguresAreOfTheFilesystem /\ EveryClusterIsFoldedOnce
  /\ UnreadIsNeverUnused /\ SystemDrivesAreThoseBeneathIt /\ PoolsOfOneNameAreToldApart
  /\ NoPoolIsPutOnAStranger /\ PooledDriveIsNotFree

\* A machine is told as it was read: its ports, its links, and nothing for silence.
MachineIsToldAsRead ==
  /\ FreePortsAreThere /\ RatesAreOfItsOwnPhy /\ SilenceIsPassedOver /\ UsbEndsAreTold
  /\ OtherHalvesAreNoted /\ AnUnreadEndIsExcused /\ PortsAreToldAsTheyWere /\ StandingStacksAreRead
  /\ MissingAnswersInventNothing /\ EnvironmentIsNotMistaken /\ DevicesAreUnderTheirVendor

\* What could not be read is said of whatever it belongs to, and nothing is made of a guess.
NothingIsLostInSilence ==
  /\ NoPoolIsLostInSilence /\ NoPoolIsRaisedFromItsLabel /\ EveryQuestionEnds
  /\ NoVolumeIsLostInSilence /\ DrivesAreToldOrExcused /\ CapabilityIsFoundOrUnread
  /\ EveryDriveIsListed /\ NoDriveIsListedTwice /\ DisksAreToldOrExcused /\ HealthIsExcused
  /\ EachDriveHasItsOwnError /\ EveryTallyIsKept

\* The configuration that is shown and used is the one the layers give.
ConfigurationIsHonest ==
  /\ SkippingKeepsTheOrder /\ SettingsTakeEffect /\ EveryInertValueIsSaid
  /\ ForcedDeployMendsWhatItCan /\ NoModeIsIgnoredUnsaid

\* A snapshot is written where and as it is said to be, and its replay tells the same
\* names in the same order as the run that took it.
ReplayTellsTheSame ==
  CaptureIsAsReported /\ WhatIsWrittenIsReadBack /\ ReplayKeepsTheOrder /\ NamesTravelWithTheReading
=============================================================================
