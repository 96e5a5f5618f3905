------------------------- MODULE HistoryStoreProofs -------------------------
(***************************************************************************)
(* What HistoryStore promises, proved for any number of runs, any histories *)
(* and any bounds. The runs exclude each other by the lock (Exclusive), so  *)
(* what a run has read under it stays true until it writes (WorksFrom); the *)
(* rest follows from those two.                                            *)
(***************************************************************************)
EXTENDS HistoryStore, FiniteSetTheorems, TLAPS

\* Where a run has not yet decided, nothing has come of recording.
Undecided == {"idle", "read", "open", "wait", "locked", "reread"} \cup Settled

OutcomeComesLate  == \A r \in Runs : pc[r] \in Undecided => outcome[r] = "none"
HardwareWasRead   == \A r \in Runs : pc[r] # "idle" => disks[r] \in AllInventories
SettledOnAHistory == \A r \in Runs : pc[r] \in Settled => read[r] \in Histories
WhatIsWrittenFits == \A r \in Runs : pc[r] \in {"write", "rename"} => Fits(Updated(r))
OnlyTheRudeOvertake == OutsiderWaits => overtaken = {}

\* The inductive invariant. Excluding each other is what carries it: a run past
\* TakeLock is the only one, so nobody else moves the file, the temporary or what
\* was read from under it.
IInv ==
  /\ TypeOK
  /\ LockIsHeldInside
  /\ WriterKeepsItsTemporary
  /\ WorksFromTheStore
  /\ OutcomeComesLate
  /\ HardwareWasRead
  /\ SettledOnAHistory
  /\ WhatIsWrittenFits
  /\ OnlyTheRudeOvertake

-----------------------------------------------------------------------------
(* What is read and decided.                                               *)

\* A read of the store yields a history or Unreadable.
LEMMA ReadIsTyped ==
  ASSUME TypeOK
  PROVE  FromStore \in Histories \cup {Unreadable}
BY StoreIsTyped DEF TypeOK, FromStore, InStore

\* Deciding to record means the store was read and there is something to add.
LEMMA NothingAgainstIt ==
  ASSUME NEW r \in Runs, NEW h, WhyNotToRecord(r, h) = "none"
  PROVE  h # Unreadable /\ kind[r].enabled /\ HasDrive(disks[r]) /\ NewIn(h, disks[r])
BY DEF WhyNotToRecord

\* A decision is a known outcome that is no recording, or none.
LEMMA DecisionIsTyped ==
  ASSUME NEW r \in Runs, NEW h
  PROVE  WhyNotToRecord(r, h) \in (Outcomes \ {"recorded"}) \cup {"none"}
BY DEF WhyNotToRecord, Outcomes

-----------------------------------------------------------------------------
(* Types.                                                                  *)

LEMMA InitTyped == Init => TypeOK
<1> SUFFICES ASSUME Init PROVE TypeOK
  OBVIOUS
<1>1. kind \in [Runs -> [command : Commands, enabled : BOOLEAN]]
  <2>1. Kinds \subseteq [command : Commands, enabled : BOOLEAN]
    BY RunsAreRuns DEF Kinds
  <2> QED
    BY <2>1 DEF Init
<1> QED
  BY <1>1, StoreIsTyped DEF Init, TypeOK, Steps

\* Every step keeps every variable in its type.
LEMMA NextTyped ==
  ASSUME TypeOK, HardwareWasRead, SettledOnAHistory, [Next]_vars
  PROVE  TypeOK'
<1> USE DEF TypeOK, Steps, Inside, Settled, Stopped, IsAt, Go, Ends, files, world
<1>1. ASSUME NEW r \in Runs, Start(r) PROVE TypeOK'
  <2>1. PICK d \in AllInventories : disks' = [disks EXCEPT ![r] = d]
    BY <1>1, WorldIsTyped DEF Start
  <2> QED
    BY <1>1, <2>1 DEF Start
<1>2. ASSUME NEW r \in Runs, ReadUnlocked(r) PROVE TypeOK'
  BY <1>2, ReadIsTyped, DecisionIsTyped DEF ReadUnlocked, ReadHistory
<1>3. ASSUME NEW r \in Runs, OpenLock(r) PROVE TypeOK'
  BY <1>3 DEF OpenLock, Outcomes
<1>4. ASSUME NEW r \in Runs, TakeLock(r) PROVE TypeOK'
  BY <1>4 DEF TakeLock
<1>5. ASSUME NEW r \in Runs, PollAgain(r) PROVE TypeOK'
  BY <1>5 DEF PollAgain
<1>6. ASSUME NEW r \in Runs, GiveUp(r) PROVE TypeOK'
  BY <1>6 DEF GiveUp, Outcomes
<1>7. ASSUME NEW r \in Runs, LookWhetherFirst(r) PROVE TypeOK'
  BY <1>7 DEF LookWhetherFirst
<1>8. ASSUME NEW r \in Runs, ReadLocked(r) PROVE TypeOK'
  <2>1. read' \in [Runs -> Histories \cup {Unreadable}]
    BY <1>8, ReadIsTyped DEF ReadLocked, ReadHistory
  <2>2. /\ pc' \in [Runs -> Steps]
        /\ outcome' \in [Runs -> Outcomes \cup {"none"}]
    <3>1. WhyNotToRecord(r, FromStore) \in Outcomes \cup {"none"}
      BY DecisionIsTyped
    <3>2. CASE WhyNotToRecord(r, FromStore) = "none"
      BY <1>8, <3>2 DEF ReadLocked
    <3>3. CASE WhyNotToRecord(r, FromStore) # "none"
      BY <1>8, <3>1, <3>3 DEF ReadLocked
    <3> QED
      BY <3>2, <3>3
  <2> QED
    BY <1>8, <2>1, <2>2 DEF ReadLocked
<1>9. ASSUME NEW r \in Runs, RemoveAbandoned(r) PROVE TypeOK'
  BY <1>9 DEF RemoveAbandoned
<1>10. ASSUME NEW r \in Runs, CreateTemporary(r) PROVE TypeOK'
  BY <1>10 DEF CreateTemporary, Outcomes
<1>11. ASSUME NEW r \in Runs, WriteTemporary(r) PROVE TypeOK'
  BY <1>11 DEF WriteTemporary, Abandon, Outcomes
<1>12. ASSUME NEW r \in Runs, RenameOverStore(r) PROVE TypeOK'
  <2>1. file' \in Histories \cup {Absent, Unreadable}
    BY <1>12, StoreIsTyped DEF RenameOverStore, Updated, HardwareWasRead, SettledOnAHistory
  <2> QED
    BY <1>12, <2>1 DEF RenameOverStore, Abandon, Outcomes
<1>13. ASSUME NEW r \in Runs, Release(r) PROVE TypeOK'
  BY <1>13 DEF Release
<1>14. ASSUME NEW r \in Runs, Announce(r) PROVE TypeOK'
  BY <1>14 DEF Announce
<1>15. ASSUME NEW r \in Runs, Kill(r) PROVE TypeOK'
  BY <1>15 DEF Kill
<1>16. CASE ClocksTick
  BY <1>16, WorldIsTyped DEF ClocksTick, locals
<1>17. CASE TemporariesAge
  BY <1>17 DEF TemporariesAge, locals
<1>18. CASE OthersReplaceStore
  BY <1>18, StoreIsTyped DEF OthersReplaceStore, locals
<1>19. CASE UNCHANGED vars
  BY <1>19 DEF vars
<1> QED
  BY <1>1, <1>2, <1>3, <1>4, <1>5, <1>6, <1>7, <1>8, <1>9, <1>10, <1>11, <1>12,
     <1>13, <1>14, <1>15, <1>16, <1>17, <1>18, <1>19 DEF Next, RunStep

-----------------------------------------------------------------------------
(* Mutual exclusion.                                                       *)

\* Only TakeLock enters and only Release and Kill leave, each with the lock.
LEMMA NextLock ==
  ASSUME TypeOK, LockIsHeldInside, [Next]_vars
  PROVE  LockIsHeldInside'
<1> USE DEF TypeOK, Steps, Inside, Settled, Stopped, IsAt, Go, Ends, files, world, LockIsHeldInside
<1>1. ASSUME NEW r \in Runs, Start(r) PROVE LockIsHeldInside'
  BY <1>1, RunsAreRuns DEF Start
<1>2. ASSUME NEW r \in Runs, ReadUnlocked(r) PROVE LockIsHeldInside'
  BY <1>2, RunsAreRuns DEF ReadUnlocked, ReadHistory
<1>3. ASSUME NEW r \in Runs, OpenLock(r) PROVE LockIsHeldInside'
  BY <1>3, RunsAreRuns DEF OpenLock
<1>4. ASSUME NEW r \in Runs, TakeLock(r) PROVE LockIsHeldInside'
  BY <1>4, RunsAreRuns DEF TakeLock
<1>5. ASSUME NEW r \in Runs, PollAgain(r) PROVE LockIsHeldInside'
  BY <1>5, RunsAreRuns DEF PollAgain
<1>6. ASSUME NEW r \in Runs, GiveUp(r) PROVE LockIsHeldInside'
  BY <1>6, RunsAreRuns DEF GiveUp
<1>7. ASSUME NEW r \in Runs, LookWhetherFirst(r) PROVE LockIsHeldInside'
  BY <1>7, RunsAreRuns DEF LookWhetherFirst
<1>8. ASSUME NEW r \in Runs, ReadLocked(r) PROVE LockIsHeldInside'
  BY <1>8, RunsAreRuns DEF ReadLocked, ReadHistory
<1>9. ASSUME NEW r \in Runs, RemoveAbandoned(r) PROVE LockIsHeldInside'
  BY <1>9, RunsAreRuns DEF RemoveAbandoned
<1>10. ASSUME NEW r \in Runs, CreateTemporary(r) PROVE LockIsHeldInside'
  BY <1>10, RunsAreRuns DEF CreateTemporary
<1>11. ASSUME NEW r \in Runs, WriteTemporary(r) PROVE LockIsHeldInside'
  BY <1>11, RunsAreRuns DEF WriteTemporary, Abandon
<1>12. ASSUME NEW r \in Runs, RenameOverStore(r) PROVE LockIsHeldInside'
  BY <1>12, RunsAreRuns DEF RenameOverStore, Abandon
<1>13. ASSUME NEW r \in Runs, Release(r) PROVE LockIsHeldInside'
  BY <1>13, RunsAreRuns DEF Release
<1>14. ASSUME NEW r \in Runs, Announce(r) PROVE LockIsHeldInside'
  BY <1>14, RunsAreRuns DEF Announce
<1>15. ASSUME NEW r \in Runs, Kill(r) PROVE LockIsHeldInside'
  BY <1>15, RunsAreRuns DEF Kill
<1>16. CASE ClocksTick
  BY <1>16, RunsAreRuns DEF ClocksTick, locals
<1>17. CASE TemporariesAge
  BY <1>17, RunsAreRuns DEF TemporariesAge, locals
<1>18. CASE OthersReplaceStore
  BY <1>18, RunsAreRuns DEF OthersReplaceStore, locals
<1>19. CASE UNCHANGED vars
  BY <1>19 DEF vars
<1> QED
  BY <1>1, <1>2, <1>3, <1>4, <1>5, <1>6, <1>7, <1>8, <1>9,
     <1>10, <1>11, <1>12, <1>13, <1>14, <1>15, <1>16, <1>17, <1>18, <1>19 DEF Next, RunStep

\* Nobody tidies while another run writes: tidying takes the lock too.
LEMMA NextKeepsTemporary ==
  ASSUME TypeOK, LockIsHeldInside, WriterKeepsItsTemporary, [Next]_vars
  PROVE  WriterKeepsItsTemporary'
<1> USE DEF TypeOK, Steps, Inside, Settled, Stopped, IsAt, Go, Ends, files, world, LockIsHeldInside,
   WriterKeepsItsTemporary
<1>1. ASSUME NEW r \in Runs, Start(r) PROVE WriterKeepsItsTemporary'
  BY <1>1, RunsAreRuns DEF Start
<1>2. ASSUME NEW r \in Runs, ReadUnlocked(r) PROVE WriterKeepsItsTemporary'
  BY <1>2, RunsAreRuns DEF ReadUnlocked, ReadHistory
<1>3. ASSUME NEW r \in Runs, OpenLock(r) PROVE WriterKeepsItsTemporary'
  BY <1>3, RunsAreRuns DEF OpenLock
<1>4. ASSUME NEW r \in Runs, TakeLock(r) PROVE WriterKeepsItsTemporary'
  BY <1>4, RunsAreRuns DEF TakeLock
<1>5. ASSUME NEW r \in Runs, PollAgain(r) PROVE WriterKeepsItsTemporary'
  BY <1>5, RunsAreRuns DEF PollAgain
<1>6. ASSUME NEW r \in Runs, GiveUp(r) PROVE WriterKeepsItsTemporary'
  BY <1>6, RunsAreRuns DEF GiveUp
<1>7. ASSUME NEW r \in Runs, LookWhetherFirst(r) PROVE WriterKeepsItsTemporary'
  BY <1>7, RunsAreRuns DEF LookWhetherFirst
<1>8. ASSUME NEW r \in Runs, ReadLocked(r) PROVE WriterKeepsItsTemporary'
  BY <1>8, RunsAreRuns DEF ReadLocked, ReadHistory
<1>9. ASSUME NEW r \in Runs, RemoveAbandoned(r) PROVE WriterKeepsItsTemporary'
  BY <1>9, RunsAreRuns DEF RemoveAbandoned
<1>10. ASSUME NEW r \in Runs, CreateTemporary(r) PROVE WriterKeepsItsTemporary'
  BY <1>10, RunsAreRuns DEF CreateTemporary
<1>11. ASSUME NEW r \in Runs, WriteTemporary(r) PROVE WriterKeepsItsTemporary'
  BY <1>11, RunsAreRuns DEF WriteTemporary, Abandon
<1>12. ASSUME NEW r \in Runs, RenameOverStore(r) PROVE WriterKeepsItsTemporary'
  BY <1>12, RunsAreRuns DEF RenameOverStore, Abandon
<1>13. ASSUME NEW r \in Runs, Release(r) PROVE WriterKeepsItsTemporary'
  BY <1>13, RunsAreRuns DEF Release
<1>14. ASSUME NEW r \in Runs, Announce(r) PROVE WriterKeepsItsTemporary'
  BY <1>14, RunsAreRuns DEF Announce
<1>15. ASSUME NEW r \in Runs, Kill(r) PROVE WriterKeepsItsTemporary'
  BY <1>15, RunsAreRuns DEF Kill
<1>16. CASE ClocksTick
  BY <1>16, RunsAreRuns DEF ClocksTick, locals
<1>17. CASE TemporariesAge
  BY <1>17, RunsAreRuns DEF TemporariesAge, locals
<1>18. CASE OthersReplaceStore
  BY <1>18, RunsAreRuns DEF OthersReplaceStore, locals
<1>19. CASE UNCHANGED vars
  BY <1>19 DEF vars
<1> QED
  BY <1>1, <1>2, <1>3, <1>4, <1>5, <1>6, <1>7, <1>8, <1>9,
     <1>10, <1>11, <1>12, <1>13, <1>14, <1>15, <1>16, <1>17, <1>18, <1>19 DEF Next, RunStep

-----------------------------------------------------------------------------
(* What a run knows past its second read.                                  *)

\* An outcome is set only by a step that leaves the undecided ones.
LEMMA NextOutcomeComesLate ==
  ASSUME TypeOK, OutcomeComesLate, [Next]_vars
  PROVE  OutcomeComesLate'
<1> USE DEF TypeOK, Steps, Inside, Settled, Stopped, IsAt, Go, Ends, files, world, OutcomeComesLate, Undecided
<1>1. ASSUME NEW r \in Runs, Start(r) PROVE OutcomeComesLate'
  BY <1>1 DEF Start
<1>2. ASSUME NEW r \in Runs, ReadUnlocked(r) PROVE OutcomeComesLate'
  BY <1>2 DEF ReadUnlocked, ReadHistory
<1>3. ASSUME NEW r \in Runs, OpenLock(r) PROVE OutcomeComesLate'
  BY <1>3 DEF OpenLock
<1>4. ASSUME NEW r \in Runs, TakeLock(r) PROVE OutcomeComesLate'
  BY <1>4 DEF TakeLock
<1>5. ASSUME NEW r \in Runs, PollAgain(r) PROVE OutcomeComesLate'
  BY <1>5 DEF PollAgain
<1>6. ASSUME NEW r \in Runs, GiveUp(r) PROVE OutcomeComesLate'
  BY <1>6 DEF GiveUp
<1>7. ASSUME NEW r \in Runs, LookWhetherFirst(r) PROVE OutcomeComesLate'
  BY <1>7 DEF LookWhetherFirst
<1>8. ASSUME NEW r \in Runs, ReadLocked(r) PROVE OutcomeComesLate'
  BY <1>8 DEF ReadLocked, ReadHistory
<1>9. ASSUME NEW r \in Runs, RemoveAbandoned(r) PROVE OutcomeComesLate'
  BY <1>9 DEF RemoveAbandoned
<1>10. ASSUME NEW r \in Runs, CreateTemporary(r) PROVE OutcomeComesLate'
  BY <1>10 DEF CreateTemporary
<1>11. ASSUME NEW r \in Runs, WriteTemporary(r) PROVE OutcomeComesLate'
  BY <1>11 DEF WriteTemporary, Abandon
<1>12. ASSUME NEW r \in Runs, RenameOverStore(r) PROVE OutcomeComesLate'
  BY <1>12 DEF RenameOverStore, Abandon
<1>13. ASSUME NEW r \in Runs, Release(r) PROVE OutcomeComesLate'
  BY <1>13 DEF Release
<1>14. ASSUME NEW r \in Runs, Announce(r) PROVE OutcomeComesLate'
  BY <1>14 DEF Announce
<1>15. ASSUME NEW r \in Runs, Kill(r) PROVE OutcomeComesLate'
  BY <1>15 DEF Kill
<1>16. CASE ClocksTick
  BY <1>16 DEF ClocksTick, locals
<1>17. CASE TemporariesAge
  BY <1>17 DEF TemporariesAge, locals
<1>18. CASE OthersReplaceStore
  BY <1>18 DEF OthersReplaceStore, locals
<1>19. CASE UNCHANGED vars
  BY <1>19 DEF vars
<1> QED
  BY <1>1, <1>2, <1>3, <1>4, <1>5, <1>6, <1>7, <1>8, <1>9,
     <1>10, <1>11, <1>12, <1>13, <1>14, <1>15, <1>16, <1>17, <1>18, <1>19 DEF Next, RunStep

\* The hardware is read by the first step and by no other.
LEMMA NextHardwareWasRead ==
  ASSUME TypeOK, HardwareWasRead, [Next]_vars
  PROVE  HardwareWasRead'
<1> USE DEF TypeOK, Steps, Inside, Settled, Stopped, IsAt, Go, Ends, files, world, HardwareWasRead
<1>1. ASSUME NEW r \in Runs, Start(r) PROVE HardwareWasRead'
  BY <1>1, WorldIsTyped DEF Start
<1>2. ASSUME NEW r \in Runs, ReadUnlocked(r) PROVE HardwareWasRead'
  BY <1>2 DEF ReadUnlocked, ReadHistory
<1>3. ASSUME NEW r \in Runs, OpenLock(r) PROVE HardwareWasRead'
  BY <1>3 DEF OpenLock
<1>4. ASSUME NEW r \in Runs, TakeLock(r) PROVE HardwareWasRead'
  BY <1>4 DEF TakeLock
<1>5. ASSUME NEW r \in Runs, PollAgain(r) PROVE HardwareWasRead'
  BY <1>5 DEF PollAgain
<1>6. ASSUME NEW r \in Runs, GiveUp(r) PROVE HardwareWasRead'
  BY <1>6 DEF GiveUp
<1>7. ASSUME NEW r \in Runs, LookWhetherFirst(r) PROVE HardwareWasRead'
  BY <1>7 DEF LookWhetherFirst
<1>8. ASSUME NEW r \in Runs, ReadLocked(r) PROVE HardwareWasRead'
  BY <1>8 DEF ReadLocked, ReadHistory
<1>9. ASSUME NEW r \in Runs, RemoveAbandoned(r) PROVE HardwareWasRead'
  BY <1>9 DEF RemoveAbandoned
<1>10. ASSUME NEW r \in Runs, CreateTemporary(r) PROVE HardwareWasRead'
  BY <1>10 DEF CreateTemporary
<1>11. ASSUME NEW r \in Runs, WriteTemporary(r) PROVE HardwareWasRead'
  BY <1>11 DEF WriteTemporary, Abandon
<1>12. ASSUME NEW r \in Runs, RenameOverStore(r) PROVE HardwareWasRead'
  BY <1>12 DEF RenameOverStore, Abandon
<1>13. ASSUME NEW r \in Runs, Release(r) PROVE HardwareWasRead'
  BY <1>13 DEF Release
<1>14. ASSUME NEW r \in Runs, Announce(r) PROVE HardwareWasRead'
  BY <1>14 DEF Announce
<1>15. ASSUME NEW r \in Runs, Kill(r) PROVE HardwareWasRead'
  BY <1>15 DEF Kill
<1>16. CASE ClocksTick
  BY <1>16 DEF ClocksTick, locals
<1>17. CASE TemporariesAge
  BY <1>17 DEF TemporariesAge, locals
<1>18. CASE OthersReplaceStore
  BY <1>18 DEF OthersReplaceStore, locals
<1>19. CASE UNCHANGED vars
  BY <1>19 DEF vars
<1> QED
  BY <1>1, <1>2, <1>3, <1>4, <1>5, <1>6, <1>7, <1>8, <1>9,
     <1>10, <1>11, <1>12, <1>13, <1>14, <1>15, <1>16, <1>17, <1>18, <1>19 DEF Next, RunStep

\* Nobody goes on with a store that could not be read.
LEMMA NextSettledOnAHistory ==
  ASSUME TypeOK, SettledOnAHistory, [Next]_vars
  PROVE  SettledOnAHistory'
<1> USE DEF TypeOK, Steps, Inside, Settled, Stopped, IsAt, Go, Ends, files, world, SettledOnAHistory
<1>1. ASSUME NEW r \in Runs, Start(r) PROVE SettledOnAHistory'
  BY <1>1 DEF Start
<1>2. ASSUME NEW r \in Runs, ReadUnlocked(r) PROVE SettledOnAHistory'
  BY <1>2 DEF ReadUnlocked, ReadHistory
<1>3. ASSUME NEW r \in Runs, OpenLock(r) PROVE SettledOnAHistory'
  BY <1>3 DEF OpenLock
<1>4. ASSUME NEW r \in Runs, TakeLock(r) PROVE SettledOnAHistory'
  BY <1>4 DEF TakeLock
<1>5. ASSUME NEW r \in Runs, PollAgain(r) PROVE SettledOnAHistory'
  BY <1>5 DEF PollAgain
<1>6. ASSUME NEW r \in Runs, GiveUp(r) PROVE SettledOnAHistory'
  BY <1>6 DEF GiveUp
<1>7. ASSUME NEW r \in Runs, LookWhetherFirst(r) PROVE SettledOnAHistory'
  BY <1>7 DEF LookWhetherFirst
<1>8. ASSUME NEW r \in Runs, ReadLocked(r) PROVE SettledOnAHistory'
  BY <1>8, ReadIsTyped, NothingAgainstIt DEF ReadLocked, ReadHistory
<1>9. ASSUME NEW r \in Runs, RemoveAbandoned(r) PROVE SettledOnAHistory'
  BY <1>9 DEF RemoveAbandoned
<1>10. ASSUME NEW r \in Runs, CreateTemporary(r) PROVE SettledOnAHistory'
  BY <1>10 DEF CreateTemporary
<1>11. ASSUME NEW r \in Runs, WriteTemporary(r) PROVE SettledOnAHistory'
  BY <1>11 DEF WriteTemporary, Abandon
<1>12. ASSUME NEW r \in Runs, RenameOverStore(r) PROVE SettledOnAHistory'
  BY <1>12 DEF RenameOverStore, Abandon
<1>13. ASSUME NEW r \in Runs, Release(r) PROVE SettledOnAHistory'
  BY <1>13 DEF Release
<1>14. ASSUME NEW r \in Runs, Announce(r) PROVE SettledOnAHistory'
  BY <1>14 DEF Announce
<1>15. ASSUME NEW r \in Runs, Kill(r) PROVE SettledOnAHistory'
  BY <1>15 DEF Kill
<1>16. CASE ClocksTick
  BY <1>16 DEF ClocksTick, locals
<1>17. CASE TemporariesAge
  BY <1>17 DEF TemporariesAge, locals
<1>18. CASE OthersReplaceStore
  BY <1>18 DEF OthersReplaceStore, locals
<1>19. CASE UNCHANGED vars
  BY <1>19 DEF vars
<1> QED
  BY <1>1, <1>2, <1>3, <1>4, <1>5, <1>6, <1>7, <1>8, <1>9,
     <1>10, <1>11, <1>12, <1>13, <1>14, <1>15, <1>16, <1>17, <1>18, <1>19 DEF Next, RunStep

\* The check of the size stands before the write, and what it checked is what is written.
LEMMA NextFits ==
  ASSUME TypeOK, WhatIsWrittenFits, [Next]_vars
  PROVE  WhatIsWrittenFits'
<1> USE DEF TypeOK, Steps, Inside, Settled, Stopped, IsAt, Go, Ends, files, world, WhatIsWrittenFits, Updated
<1>1. ASSUME NEW r \in Runs, Start(r) PROVE WhatIsWrittenFits'
  BY <1>1 DEF Start
<1>2. ASSUME NEW r \in Runs, ReadUnlocked(r) PROVE WhatIsWrittenFits'
  BY <1>2 DEF ReadUnlocked, ReadHistory
<1>3. ASSUME NEW r \in Runs, OpenLock(r) PROVE WhatIsWrittenFits'
  BY <1>3 DEF OpenLock
<1>4. ASSUME NEW r \in Runs, TakeLock(r) PROVE WhatIsWrittenFits'
  BY <1>4 DEF TakeLock
<1>5. ASSUME NEW r \in Runs, PollAgain(r) PROVE WhatIsWrittenFits'
  BY <1>5 DEF PollAgain
<1>6. ASSUME NEW r \in Runs, GiveUp(r) PROVE WhatIsWrittenFits'
  BY <1>6 DEF GiveUp
<1>7. ASSUME NEW r \in Runs, LookWhetherFirst(r) PROVE WhatIsWrittenFits'
  BY <1>7 DEF LookWhetherFirst
<1>8. ASSUME NEW r \in Runs, ReadLocked(r) PROVE WhatIsWrittenFits'
  BY <1>8 DEF ReadLocked, ReadHistory
<1>9. ASSUME NEW r \in Runs, RemoveAbandoned(r) PROVE WhatIsWrittenFits'
  BY <1>9 DEF RemoveAbandoned
<1>10. ASSUME NEW r \in Runs, CreateTemporary(r) PROVE WhatIsWrittenFits'
  BY <1>10 DEF CreateTemporary
<1>11. ASSUME NEW r \in Runs, WriteTemporary(r) PROVE WhatIsWrittenFits'
  BY <1>11 DEF WriteTemporary, Abandon
<1>12. ASSUME NEW r \in Runs, RenameOverStore(r) PROVE WhatIsWrittenFits'
  BY <1>12 DEF RenameOverStore, Abandon
<1>13. ASSUME NEW r \in Runs, Release(r) PROVE WhatIsWrittenFits'
  BY <1>13 DEF Release
<1>14. ASSUME NEW r \in Runs, Announce(r) PROVE WhatIsWrittenFits'
  BY <1>14 DEF Announce
<1>15. ASSUME NEW r \in Runs, Kill(r) PROVE WhatIsWrittenFits'
  BY <1>15 DEF Kill
<1>16. CASE ClocksTick
  BY <1>16 DEF ClocksTick, locals
<1>17. CASE TemporariesAge
  BY <1>17 DEF TemporariesAge, locals
<1>18. CASE OthersReplaceStore
  BY <1>18 DEF OthersReplaceStore, locals
<1>19. CASE UNCHANGED vars
  BY <1>19 DEF vars
<1> QED
  BY <1>1, <1>2, <1>3, <1>4, <1>5, <1>6, <1>7, <1>8, <1>9,
     <1>10, <1>11, <1>12, <1>13, <1>14, <1>15, <1>16, <1>17, <1>18, <1>19 DEF Next, RunStep

\* An outsider who waits for the lock finds nobody past a second read.
LEMMA NextOvertakes ==
  ASSUME TypeOK, LockIsHeldInside, OnlyTheRudeOvertake, [Next]_vars
  PROVE  OnlyTheRudeOvertake'
<1> USE DEF TypeOK, Steps, Inside, Settled, Stopped, IsAt, Go, Ends, files, world, OnlyTheRudeOvertake,
   LockIsHeldInside
<1>1. ASSUME NEW r \in Runs, Start(r) PROVE OnlyTheRudeOvertake'
  BY <1>1, RunsAreRuns DEF Start
<1>2. ASSUME NEW r \in Runs, ReadUnlocked(r) PROVE OnlyTheRudeOvertake'
  BY <1>2, RunsAreRuns DEF ReadUnlocked, ReadHistory
<1>3. ASSUME NEW r \in Runs, OpenLock(r) PROVE OnlyTheRudeOvertake'
  BY <1>3, RunsAreRuns DEF OpenLock
<1>4. ASSUME NEW r \in Runs, TakeLock(r) PROVE OnlyTheRudeOvertake'
  BY <1>4, RunsAreRuns DEF TakeLock
<1>5. ASSUME NEW r \in Runs, PollAgain(r) PROVE OnlyTheRudeOvertake'
  BY <1>5, RunsAreRuns DEF PollAgain
<1>6. ASSUME NEW r \in Runs, GiveUp(r) PROVE OnlyTheRudeOvertake'
  BY <1>6, RunsAreRuns DEF GiveUp
<1>7. ASSUME NEW r \in Runs, LookWhetherFirst(r) PROVE OnlyTheRudeOvertake'
  BY <1>7, RunsAreRuns DEF LookWhetherFirst
<1>8. ASSUME NEW r \in Runs, ReadLocked(r) PROVE OnlyTheRudeOvertake'
  BY <1>8, RunsAreRuns DEF ReadLocked, ReadHistory
<1>9. ASSUME NEW r \in Runs, RemoveAbandoned(r) PROVE OnlyTheRudeOvertake'
  BY <1>9, RunsAreRuns DEF RemoveAbandoned
<1>10. ASSUME NEW r \in Runs, CreateTemporary(r) PROVE OnlyTheRudeOvertake'
  BY <1>10, RunsAreRuns DEF CreateTemporary
<1>11. ASSUME NEW r \in Runs, WriteTemporary(r) PROVE OnlyTheRudeOvertake'
  BY <1>11, RunsAreRuns DEF WriteTemporary, Abandon
<1>12. ASSUME NEW r \in Runs, RenameOverStore(r) PROVE OnlyTheRudeOvertake'
  BY <1>12, RunsAreRuns DEF RenameOverStore, Abandon
<1>13. ASSUME NEW r \in Runs, Release(r) PROVE OnlyTheRudeOvertake'
  BY <1>13, RunsAreRuns DEF Release
<1>14. ASSUME NEW r \in Runs, Announce(r) PROVE OnlyTheRudeOvertake'
  BY <1>14, RunsAreRuns DEF Announce
<1>15. ASSUME NEW r \in Runs, Kill(r) PROVE OnlyTheRudeOvertake'
  BY <1>15, RunsAreRuns DEF Kill
<1>16. CASE ClocksTick
  BY <1>16, RunsAreRuns DEF ClocksTick, locals
<1>17. CASE TemporariesAge
  BY <1>17, RunsAreRuns DEF TemporariesAge, locals
<1>18. CASE OthersReplaceStore
  BY <1>18, RunsAreRuns DEF OthersReplaceStore, locals
<1>19. CASE UNCHANGED vars
  BY <1>19 DEF vars
<1> QED
  BY <1>1, <1>2, <1>3, <1>4, <1>5, <1>6, <1>7, <1>8, <1>9,
     <1>10, <1>11, <1>12, <1>13, <1>14, <1>15, <1>16, <1>17, <1>18, <1>19 DEF Next, RunStep

\* What a run works from is the same as long as the file and its own reading are.
LEMMA SameStoreSameAnswer ==
  ASSUME NEW r \in Runs, file' = file, kind' = kind, disks'[r] = disks[r]
  PROVE  /\ FromStore' = FromStore
         /\ WhyNotToRecord(r, FromStore)' = WhyNotToRecord(r, FromStore)
BY DEF FromStore, InStore, WhyNotToRecord

\* The file changes only under the lock, whose holder is the one settled run, or by
\* an outsider, who overtakes every settled run.
LEMMA NextWorksFromTheStore ==
  ASSUME TypeOK, LockIsHeldInside, WorksFromTheStore, [Next]_vars
  PROVE  WorksFromTheStore'
<1> USE DEF TypeOK, Steps, Inside, Settled, Stopped, IsAt, Go, Ends, files, world, LockIsHeldInside,
   WorksFromTheStore
<1>1. ASSUME NEW r \in Runs, Start(r) PROVE WorksFromTheStore'
  <2>1. \A q \in Runs \ {r} :
          /\ FromStore' = FromStore
          /\ WhyNotToRecord(q, FromStore)' = WhyNotToRecord(q, FromStore)
    BY <1>1, SameStoreSameAnswer DEF Start
  <2> QED
    BY <1>1, <2>1 DEF Start
<1>2. ASSUME NEW r \in Runs, ReadUnlocked(r) PROVE WorksFromTheStore'
  <2>1. /\ FromStore' = FromStore
        /\ \A q \in Runs : WhyNotToRecord(q, FromStore)' = WhyNotToRecord(q, FromStore)
    BY <1>2, SameStoreSameAnswer DEF ReadUnlocked, ReadHistory
  <2> QED
    BY <1>2, <2>1, RunsAreRuns DEF ReadUnlocked, ReadHistory
<1>3. ASSUME NEW r \in Runs, OpenLock(r) PROVE WorksFromTheStore'
  <2>1. /\ FromStore' = FromStore
        /\ \A q \in Runs : WhyNotToRecord(q, FromStore)' = WhyNotToRecord(q, FromStore)
    BY <1>3, SameStoreSameAnswer DEF OpenLock
  <2> QED
    BY <1>3, <2>1, RunsAreRuns DEF OpenLock
<1>4. ASSUME NEW r \in Runs, TakeLock(r) PROVE WorksFromTheStore'
  <2>1. /\ FromStore' = FromStore
        /\ \A q \in Runs : WhyNotToRecord(q, FromStore)' = WhyNotToRecord(q, FromStore)
    BY <1>4, SameStoreSameAnswer DEF TakeLock
  <2> QED
    BY <1>4, <2>1, RunsAreRuns DEF TakeLock
<1>5. ASSUME NEW r \in Runs, PollAgain(r) PROVE WorksFromTheStore'
  <2>1. /\ FromStore' = FromStore
        /\ \A q \in Runs : WhyNotToRecord(q, FromStore)' = WhyNotToRecord(q, FromStore)
    BY <1>5, SameStoreSameAnswer DEF PollAgain
  <2> QED
    BY <1>5, <2>1, RunsAreRuns DEF PollAgain
<1>6. ASSUME NEW r \in Runs, GiveUp(r) PROVE WorksFromTheStore'
  <2>1. /\ FromStore' = FromStore
        /\ \A q \in Runs : WhyNotToRecord(q, FromStore)' = WhyNotToRecord(q, FromStore)
    BY <1>6, SameStoreSameAnswer DEF GiveUp
  <2> QED
    BY <1>6, <2>1, RunsAreRuns DEF GiveUp
<1>7. ASSUME NEW r \in Runs, LookWhetherFirst(r) PROVE WorksFromTheStore'
  <2>1. /\ FromStore' = FromStore
        /\ \A q \in Runs : WhyNotToRecord(q, FromStore)' = WhyNotToRecord(q, FromStore)
    BY <1>7, SameStoreSameAnswer DEF LookWhetherFirst
  <2> QED
    BY <1>7, <2>1, RunsAreRuns DEF LookWhetherFirst
<1>8. ASSUME NEW r \in Runs, ReadLocked(r) PROVE WorksFromTheStore'
  <2>1. /\ FromStore' = FromStore
        /\ \A q \in Runs : WhyNotToRecord(q, FromStore)' = WhyNotToRecord(q, FromStore)
    BY <1>8, SameStoreSameAnswer DEF ReadLocked, ReadHistory
  <2> QED
    BY <1>8, <2>1, RunsAreRuns DEF ReadLocked, ReadHistory
<1>9. ASSUME NEW r \in Runs, RemoveAbandoned(r) PROVE WorksFromTheStore'
  <2>1. /\ FromStore' = FromStore
        /\ \A q \in Runs : WhyNotToRecord(q, FromStore)' = WhyNotToRecord(q, FromStore)
    BY <1>9, SameStoreSameAnswer DEF RemoveAbandoned
  <2> QED
    BY <1>9, <2>1, RunsAreRuns DEF RemoveAbandoned
<1>10. ASSUME NEW r \in Runs, CreateTemporary(r) PROVE WorksFromTheStore'
  <2>1. /\ FromStore' = FromStore
        /\ \A q \in Runs : WhyNotToRecord(q, FromStore)' = WhyNotToRecord(q, FromStore)
    BY <1>10, SameStoreSameAnswer DEF CreateTemporary
  <2> QED
    BY <1>10, <2>1, RunsAreRuns DEF CreateTemporary
<1>11. ASSUME NEW r \in Runs, WriteTemporary(r) PROVE WorksFromTheStore'
  <2>1. /\ FromStore' = FromStore
        /\ \A q \in Runs : WhyNotToRecord(q, FromStore)' = WhyNotToRecord(q, FromStore)
    BY <1>11, SameStoreSameAnswer DEF WriteTemporary, Abandon
  <2> QED
    BY <1>11, <2>1, RunsAreRuns DEF WriteTemporary, Abandon
<1>12. ASSUME NEW r \in Runs, RenameOverStore(r) PROVE WorksFromTheStore'
  <2>1. \A q \in Runs \ {r} : pc[q] \notin Settled
    BY <1>12, RunsAreRuns DEF RenameOverStore
  <2> QED
    BY <1>12, <2>1 DEF RenameOverStore, Abandon
<1>13. ASSUME NEW r \in Runs, Release(r) PROVE WorksFromTheStore'
  <2>1. /\ FromStore' = FromStore
        /\ \A q \in Runs : WhyNotToRecord(q, FromStore)' = WhyNotToRecord(q, FromStore)
    BY <1>13, SameStoreSameAnswer DEF Release
  <2> QED
    BY <1>13, <2>1, RunsAreRuns DEF Release
<1>14. ASSUME NEW r \in Runs, Announce(r) PROVE WorksFromTheStore'
  <2>1. /\ FromStore' = FromStore
        /\ \A q \in Runs : WhyNotToRecord(q, FromStore)' = WhyNotToRecord(q, FromStore)
    BY <1>14, SameStoreSameAnswer DEF Announce
  <2> QED
    BY <1>14, <2>1, RunsAreRuns DEF Announce
<1>15. ASSUME NEW r \in Runs, Kill(r) PROVE WorksFromTheStore'
  <2>1. /\ FromStore' = FromStore
        /\ \A q \in Runs : WhyNotToRecord(q, FromStore)' = WhyNotToRecord(q, FromStore)
    BY <1>15, SameStoreSameAnswer DEF Kill
  <2> QED
    BY <1>15, <2>1, RunsAreRuns DEF Kill
<1>16. CASE ClocksTick
  BY <1>16, RunsAreRuns, SameStoreSameAnswer DEF ClocksTick, locals
<1>17. CASE TemporariesAge
  BY <1>17, RunsAreRuns, SameStoreSameAnswer DEF TemporariesAge, locals
<1>18. CASE OthersReplaceStore
  BY <1>18, RunsAreRuns, SameStoreSameAnswer DEF OthersReplaceStore, locals
<1>19. CASE UNCHANGED vars
  BY <1>19, SameStoreSameAnswer DEF vars
<1> QED
  BY <1>1, <1>2, <1>3, <1>4, <1>5, <1>6, <1>7, <1>8, <1>9,
     <1>10, <1>11, <1>12, <1>13, <1>14, <1>15, <1>16, <1>17, <1>18, <1>19 DEF Next, RunStep

-----------------------------------------------------------------------------
(* The inductive invariant and what it gives.                              *)

LEMMA InitIInv == Init => IInv
<1> SUFFICES ASSUME Init PROVE IInv
  OBVIOUS
<1>1. TypeOK
  BY InitTyped
<1>2. \A r \in Runs : pc[r] = "idle" /\ lock # r /\ outcome[r] = "none"
  BY RunsAreRuns DEF Init
<1> QED
  BY <1>1, <1>2 DEF Init, IInv, LockIsHeldInside, WriterKeepsItsTemporary, WorksFromTheStore,
     OutcomeComesLate, HardwareWasRead, SettledOnAHistory, WhatIsWrittenFits,
     OnlyTheRudeOvertake, Inside, Settled

LEMMA NextIInv == IInv /\ [Next]_vars => IInv'
BY NextTyped, NextLock, NextKeepsTemporary, NextOutcomeComesLate, NextHardwareWasRead,
   NextSettledOnAHistory, NextFits, NextOvertakes, NextWorksFromTheStore DEF IInv

\* The inductive invariant holds of every reachable state.
THEOREM Invariance == Spec => []IInv
<1>1. Init => IInv
  BY InitIInv
<1>2. IInv /\ [Next]_vars => IInv'
  BY NextIInv
<1> QED
  BY <1>1, <1>2, PTL DEF Spec

\* TypeOK holds of every run of the program: types of the store's files and of
\* what each process holds.
THEOREM TypeCorrect == Spec => []TypeOK
BY Invariance, PTL DEF IInv

\* LockIsHeldInside for any number of runs: history_lock excludes, and no lock
\* outlives the run that took it, however it ends.
THEOREM MutualExclusion == Spec => []LockIsHeldInside
BY Invariance, PTL DEF IInv

\* WriterKeepsItsTemporary: remove_abandoned_temporaries never takes the file of a
\* run that is still writing it, however slow the write.
THEOREM TidyingIsSafe == Spec => []WriterKeepsItsTemporary
BY Invariance, PTL DEF IInv

\* WorksFromTheStore: between its second read and its rename a run works from what
\* the store holds.
THEOREM NoLostUpdate == Spec => []WorksFromTheStore
BY Invariance, PTL DEF IInv

-----------------------------------------------------------------------------
(* The store as CounterRecord describes it.                                *)

Taken == {r \in Runs : outcome[r] = "recorded"}

\* A rename that succeeds takes the run's whole reading into what the file holds.
LEMMA RenameTakes ==
  ASSUME IInv, OutsiderWaits, NEW r \in Runs, RenameOverStore(r), Ends(r, "recorded"),
         file' = Updated(r)
  PROVE  Promised!Take(r)
<1>1. pc[r] = "rename" /\ r \notin overtaken
  BY DEF RenameOverStore, IsAt, IInv, OnlyTheRudeOvertake
<1>2. read[r] = FromStore /\ WhyNotToRecord(r, FromStore) = "none"
  BY <1>1 DEF IInv, WorksFromTheStore, Settled
<1>3. FromStore # Unreadable /\ NewIn(FromStore, disks[r])
  BY <1>2, NothingAgainstIt
<1>4. /\ file # Unreadable
      /\ file # Absent => Fits(file)
      /\ FromStore = Promised!Held
  BY <1>3, StoreIsTyped DEF FromStore, InStore, Promised!Held
<1>5. disks[r] \in AllInventories /\ Fits(Updated(r)) /\ outcome[r] = "none"
  BY <1>1 DEF IInv, HardwareWasRead, WhatIsWrittenFits, OutcomeComesLate, Undecided, Settled
<1>6. Taken' = Taken \cup {r} /\ r \notin Taken
  BY <1>5 DEF Taken, Ends, IInv, TypeOK
<1>7. /\ NewIn(Promised!Held, disks[r])
      /\ file' = Folded(Promised!Held, disks[r])
      /\ Fits(file')
  BY <1>2, <1>3, <1>4, <1>5 DEF Updated
<1> QED
  BY <1>4, <1>5, <1>6, <1>7 DEF Promised!Take, Taken

\* Every other step of a run leaves the file and what was taken alone.
LEMMA OthersStutter ==
  ASSUME IInv, NEW r \in Runs,
         \/ Start(r) \/ Kill(r)
         \/ RunStep(r) /\ ~(Ends(r, "recorded") /\ file' = Updated(r) /\ RenameOverStore(r))
  PROVE  UNCHANGED <<file, Taken>>
<1> USE DEF IInv, TypeOK, OutcomeComesLate, Undecided, Settled, IsAt, Go, Ends, files, Taken
<1>1. CASE Start(r)
  BY <1>1 DEF Start
<1>2. CASE OpenLock(r)
  BY <1>2 DEF OpenLock
<1>3. CASE TakeLock(r)
  BY <1>3 DEF TakeLock
<1>4. CASE PollAgain(r)
  BY <1>4 DEF PollAgain
<1>5. CASE GiveUp(r)
  BY <1>5 DEF GiveUp
<1>6. CASE LookWhetherFirst(r)
  BY <1>6 DEF LookWhetherFirst
<1>7. CASE RemoveAbandoned(r)
  BY <1>7 DEF RemoveAbandoned
<1>8. CASE CreateTemporary(r)
  BY <1>8 DEF CreateTemporary
<1>9. CASE WriteTemporary(r)
  BY <1>9 DEF WriteTemporary, Abandon
<1>10. CASE Release(r)
  BY <1>10 DEF Release
<1>11. CASE Announce(r)
  BY <1>11 DEF Announce
<1>12. CASE Kill(r)
  BY <1>12 DEF Kill
<1>13. CASE ReadUnlocked(r)
  BY <1>13, DecisionIsTyped DEF ReadUnlocked
<1>14. CASE ReadLocked(r)
  BY <1>14, DecisionIsTyped DEF ReadLocked
<1>15. CASE RenameOverStore(r) /\ ~(Ends(r, "recorded") /\ file' = Updated(r))
  BY <1>15 DEF RenameOverStore, Abandon
<1> QED
  BY <1>1, <1>2, <1>3, <1>4, <1>5, <1>6, <1>7, <1>8, <1>9, <1>10, <1>11, <1>12, <1>13, <1>14, <1>15
     DEF RunStep

\* Every step of the runs, and of an outsider who waits for the lock, is a step of
\* the abstract store or leaves it as it is.
LEMMA StepRefines ==
  ASSUME OutsiderWaits
  PROVE  IInv /\ [Next]_vars => [Promised!Next]_(Promised!vars)
<1> SUFFICES ASSUME IInv, [Next]_vars PROVE Promised!Next \/ UNCHANGED <<file, Taken>>
  BY DEF Promised!vars, Taken
<1>1. ASSUME NEW r \in Runs, Start(r) \/ RunStep(r) \/ Kill(r)
      PROVE  Promised!Next \/ UNCHANGED <<file, Taken>>
  <2>1. CASE RenameOverStore(r) /\ Ends(r, "recorded") /\ file' = Updated(r)
    BY <2>1, RenameTakes DEF Promised!Next
  <2> QED
    BY <1>1, <2>1, OthersStutter
<1>2. CASE ClocksTick \/ TemporariesAge
  BY <1>2 DEF ClocksTick, TemporariesAge, files, locals, Taken
<1>3. CASE OthersReplaceStore
  BY <1>3 DEF OthersReplaceStore, locals, Taken, Promised!Next, Promised!Replace
<1>4. CASE UNCHANGED vars
  BY <1>4 DEF vars, Taken
<1> QED
  BY <1>1, <1>2, <1>3, <1>4 DEF Next

\* TakesWholeReadings: where everybody who writes waits for the lock, the store is
\* the one CounterRecord describes; it takes whole readings, one run's at a time.
THEOREM Refinement == ASSUME OutsiderWaits PROVE Spec => TakesWholeReadings
<1>1. Init => Promised!Init
  BY DEF Init, Promised!Init
<1>2. IInv /\ [Next]_vars => [Promised!Next]_(Promised!vars)
  BY StepRefines
<1> QED
  BY <1>1, <1>2, Invariance, PTL DEF Spec, TakesWholeReadings, Promised!Spec

-----------------------------------------------------------------------------
(* What a run may put at the store's path.                                 *)

\* Only a rename or an outsider changes the file.
LEMMA WhoWrites ==
  ASSUME IInv, [Next]_vars, file' # file
  PROVE  \/ outside' # outside /\ file' \in StoresAround
         \/ \E r \in Runs : /\ pc[r] = "rename" /\ outcome'[r] = "recorded"
                            /\ file' = Updated(r)
<1>1. CASE OthersReplaceStore
  BY <1>1 DEF OthersReplaceStore, IInv, TypeOK
<1>2. ASSUME NEW r \in Runs, RenameOverStore(r)
      PROVE  \E q \in Runs : /\ pc[q] = "rename" /\ outcome'[q] = "recorded"
                             /\ file' = Updated(q)
  BY <1>2 DEF RenameOverStore, IsAt, Ends, IInv, TypeOK
<1>3. ASSUME NEW r \in Runs, Start(r) \/ RunStep(r) \/ Kill(r), ~RenameOverStore(r)
      PROVE  file' = file
  BY <1>3 DEF RunStep, files, Start, ReadUnlocked, OpenLock, TakeLock, PollAgain, GiveUp,
     LookWhetherFirst, ReadLocked, RemoveAbandoned, CreateTemporary, WriteTemporary,
     Release, Announce, Kill
<1>4. (ClocksTick \/ TemporariesAge \/ UNCHANGED vars) => file' = file
  BY DEF ClocksTick, TemporariesAge, files, vars
<1> QED
  BY <1>1, <1>2, <1>3, <1>4 DEF Next, RunStep

\* UnreadableStoreStays: no run replaces a store the reader refuses, unless it was
\* overtaken after it had read another.
THEOREM UnreadableIsKept == Spec => UnreadableStoreStays
<1> DEFINE Stays == FromStore = Unreadable /\ file' # file =>
             \/ outside' # outside
             \/ \E r \in overtaken : pc[r] = "rename" /\ outcome'[r] = "recorded"
<1>1. IInv /\ [Next]_vars => [Stays]_vars
  <2> SUFFICES ASSUME IInv, [Next]_vars, FromStore = Unreadable, file' # file,
                      outside' = outside
               PROVE  \E r \in overtaken : pc[r] = "rename" /\ outcome'[r] = "recorded"
    OBVIOUS
  <2>1. PICK r \in Runs : pc[r] = "rename" /\ outcome'[r] = "recorded"
    BY WhoWrites
  <2>2. r \in overtaken
    BY <2>1, NothingAgainstIt DEF IInv, WorksFromTheStore, Settled
  <2> QED
    BY <2>1, <2>2
<1> QED
  BY <1>1, Invariance, PTL DEF Spec, UnreadableStoreStays

\* OwnStoreIsReadable: where nobody else leaves an oversized store, no run does,
\* although a store grows with every reading.
THEOREM StoreStaysReadable ==
  ASSUME \A h \in StoresAround \ {Absent, Unreadable} : Fits(h)
  PROVE  Spec => []OwnStoreIsReadable
<1>1. Init => OwnStoreIsReadable
  BY DEF Init, OwnStoreIsReadable, InStore
<1>2. IInv /\ OwnStoreIsReadable /\ [Next]_vars => OwnStoreIsReadable'
  <2> SUFFICES ASSUME IInv, OwnStoreIsReadable, [Next]_vars PROVE OwnStoreIsReadable'
    OBVIOUS
  <2>1. CASE file' = file
    BY <2>1 DEF OwnStoreIsReadable, InStore
  <2>2. CASE file' # file
    BY <2>2, WhoWrites DEF OwnStoreIsReadable, InStore, IInv, WhatIsWrittenFits
  <2> QED
    BY <2>1, <2>2
<1> QED
  BY <1>1, <1>2, Invariance, PTL DEF Spec

-----------------------------------------------------------------------------
(* One announcement for each time the store was missing                    *)

\* The runs that found no store under the lock and then recorded to one.
Creators == {r \in Runs : firstEver[r] /\ outcome[r] = "recorded"}
\* A run that found none, and has the lock yet.
Creating == \E r \in Runs : pc[r] \in {"reread"} \cup Settled /\ firstEver[r]

\* Each creation uses up a time the store was missing.
CreationsAreCounted ==
  /\ IsFiniteSet(Creators)
  /\ Cardinality(Creators) <= outside + 1
  /\ file = Absent \/ Creating => Cardinality(Creators) <= outside

OnlyCreatorsAnnounce ==
  /\ announced \subseteq Creators
  /\ \A r \in Runs : pc[r] = "announce" => r \in Creators

\* A step that makes no creation: nobody records, and none begins.
Uncreating ==
  /\ Creators' = Creators /\ UNCHANGED <<outside, file>>
  /\ Creating' => file = Absent \/ Creating

\* All but the rename and the others' replacing make none.
LEMMA MostStepsCreateNothing ==
  ASSUME IInv, NEW r \in Runs,
         \/ Start(r) \/ ReadUnlocked(r) \/ OpenLock(r) \/ TakeLock(r) \/ PollAgain(r) \/ GiveUp(r)
         \/ LookWhetherFirst(r) \/ ReadLocked(r) \/ RemoveAbandoned(r) \/ CreateTemporary(r)
         \/ WriteTemporary(r) \/ Release(r) \/ Announce(r) \/ Kill(r)
  PROVE  Uncreating
<1> USE DEF TypeOK, IsAt, Go, Ends, files, world, locals, OutcomeComesLate, Undecided, Settled, Inside,
   Uncreating, Creators, Creating, IInv
<1>1. CASE Start(r)
  BY <1>1 DEF Start
<1>2. CASE ReadUnlocked(r)
  BY <1>2, DecisionIsTyped DEF ReadUnlocked
<1>3. CASE OpenLock(r)
  BY <1>3 DEF OpenLock
<1>4. CASE TakeLock(r)
  BY <1>4 DEF TakeLock
<1>5. CASE PollAgain(r)
  BY <1>5 DEF PollAgain
<1>6. CASE GiveUp(r)
  BY <1>6 DEF GiveUp
<1>7. CASE LookWhetherFirst(r)
  BY <1>7 DEF LookWhetherFirst
<1>8. CASE ReadLocked(r)
  BY <1>8, DecisionIsTyped DEF ReadLocked
<1>9. CASE RemoveAbandoned(r)
  BY <1>9 DEF RemoveAbandoned
<1>10. CASE CreateTemporary(r)
  BY <1>10 DEF CreateTemporary
<1>11. CASE WriteTemporary(r)
  BY <1>11 DEF WriteTemporary, Abandon
<1>12. CASE Release(r)
  BY <1>12 DEF Release
<1>13. CASE Announce(r)
  BY <1>13 DEF Announce
<1>14. CASE Kill(r)
  BY <1>14 DEF Kill, Stopped
<1> QED
  BY <1>1, <1>2, <1>3, <1>4, <1>5, <1>6, <1>7, <1>8, <1>9, <1>10, <1>11, <1>12, <1>13, <1>14

\* Every step counts its creation: the rename that creates the store takes the time it
\* was missing, and only somebody else makes it missing again.
LEMMA NextCounts ==
  ASSUME IInv, CreationsAreCounted, [Next]_vars
  PROVE  CreationsAreCounted'
<1> DEFINE n == Cardinality(Creators)
<1>1. n \in Nat /\ outside \in Nat
  BY FS_CardinalityType DEF CreationsAreCounted, IInv, TypeOK
<1>2. CASE Uncreating
  BY <1>2 DEF Uncreating, CreationsAreCounted
<1>3. ASSUME NEW r \in Runs, RenameOverStore(r)  PROVE CreationsAreCounted'
  <2>1. /\ pc[r] = "rename" /\ outcome[r] = "none" /\ r \notin Creators
        /\ \A q \in Runs \ {r} : pc[q] \notin Inside
        /\ outside' = outside /\ firstEver' = firstEver
    BY <1>3 DEF RenameOverStore, IsAt, world, IInv, TypeOK, OutcomeComesLate, Undecided, Creators,
       LockIsHeldInside, Inside, Settled
  <2>2. ~Creating'
    <3>1. pc' = [pc EXCEPT ![r] = "release"]
      BY <1>3, <2>1 DEF RenameOverStore, Abandon, Go
    <3>2. pc'[r] = "release" /\ \A q \in Runs \ {r} : pc'[q] \notin Inside
      BY <2>1, <3>1 DEF IInv, TypeOK
    <3>3. QED BY <3>2 DEF Creating, Inside, Settled
  <2>3. CASE file' = file /\ Creators' = Creators
    BY <1>1, <2>1, <2>2, <2>3 DEF CreationsAreCounted
  <2>4. CASE file' = Updated(r) /\ outcome' = [outcome EXCEPT ![r] = "recorded"]
    <3>1. file' # Absent
      <4>1. Updated(r) \in Histories
        BY <2>1, StoreIsTyped DEF Updated, IInv, HardwareWasRead, SettledOnAHistory, Settled
      <4>2. QED BY <2>4, <4>1, StoreIsTyped
    <3>2. CASE firstEver[r]
      <4>1. Creators' = Creators \cup {r}
        BY <2>1, <2>4, <3>2 DEF Creators, IInv, TypeOK
      <4>2. Creating
        BY <2>1, <3>2 DEF Creating, Settled
      <4>3. IsFiniteSet(Creators') /\ Cardinality(Creators') = n + 1
        BY <2>1, <4>1, FS_AddElement DEF CreationsAreCounted
      <4>4. QED BY <1>1, <2>1, <2>2, <3>1, <4>2, <4>3 DEF CreationsAreCounted
    <3>3. CASE ~firstEver[r]
      <4>1. Creators' = Creators
        BY <2>1, <2>4, <3>3 DEF Creators, IInv, TypeOK
      <4>2. QED BY <1>1, <2>1, <2>2, <3>1, <4>1 DEF CreationsAreCounted
    <3>4. QED BY <3>2, <3>3
  <2>5. QED
    <3>1. CASE r \in temps /\ file' = Updated(r) /\ Ends(r, "recorded")
      BY <2>4, <3>1 DEF Ends
    <3>2. CASE Abandon(r) /\ UNCHANGED file
      <4>1. Creators' = Creators
        BY <2>1, <3>2 DEF Abandon, Ends, Creators, IInv, TypeOK
      <4>2. QED BY <2>3, <3>2, <4>1
    <3>3. QED BY <1>3, <3>1, <3>2 DEF RenameOverStore
<1>4. CASE OthersReplaceStore
  <2>1. Creators' = Creators /\ outside' = outside + 1
    BY <1>4 DEF OthersReplaceStore, locals, Creators
  <2>2. QED BY <1>1, <2>1 DEF CreationsAreCounted
<1>5. CASE ClocksTick \/ TemporariesAge \/ UNCHANGED vars
  <2>1. Uncreating
    BY <1>5 DEF ClocksTick, TemporariesAge, vars, files, locals, world, Uncreating, Creators, Creating
  <2>2. QED BY <1>2, <2>1
<1> QED
  BY <1>2, <1>3, <1>4, <1>5, MostStepsCreateNothing DEF Next, RunStep

\* A run announces the store it created, and no other run does.
LEMMA NextAnnounces ==
  ASSUME IInv, OnlyCreatorsAnnounce, [Next]_vars
  PROVE  OnlyCreatorsAnnounce'
<1> USE DEF TypeOK, IsAt, Go, Ends, files, world, locals, OutcomeComesLate, Undecided, Settled, Inside,
   Creators, IInv, OnlyCreatorsAnnounce
<1>1. ASSUME NEW r \in Runs, Start(r)  PROVE OnlyCreatorsAnnounce'
  BY <1>1 DEF Start
<1>2. ASSUME NEW r \in Runs, ReadUnlocked(r)  PROVE OnlyCreatorsAnnounce'
  BY <1>2, DecisionIsTyped DEF ReadUnlocked
<1>3. ASSUME NEW r \in Runs, OpenLock(r)  PROVE OnlyCreatorsAnnounce'
  BY <1>3 DEF OpenLock
<1>4. ASSUME NEW r \in Runs, TakeLock(r)  PROVE OnlyCreatorsAnnounce'
  BY <1>4 DEF TakeLock
<1>5. ASSUME NEW r \in Runs, PollAgain(r)  PROVE OnlyCreatorsAnnounce'
  BY <1>5 DEF PollAgain
<1>6. ASSUME NEW r \in Runs, GiveUp(r)  PROVE OnlyCreatorsAnnounce'
  BY <1>6 DEF GiveUp
<1>7. ASSUME NEW r \in Runs, LookWhetherFirst(r)  PROVE OnlyCreatorsAnnounce'
  BY <1>7 DEF LookWhetherFirst
<1>8. ASSUME NEW r \in Runs, ReadLocked(r)  PROVE OnlyCreatorsAnnounce'
  BY <1>8, DecisionIsTyped DEF ReadLocked
<1>9. ASSUME NEW r \in Runs, RemoveAbandoned(r)  PROVE OnlyCreatorsAnnounce'
  BY <1>9 DEF RemoveAbandoned
<1>10. ASSUME NEW r \in Runs, CreateTemporary(r)  PROVE OnlyCreatorsAnnounce'
  BY <1>10 DEF CreateTemporary
<1>11. ASSUME NEW r \in Runs, WriteTemporary(r)  PROVE OnlyCreatorsAnnounce'
  BY <1>11 DEF WriteTemporary, Abandon
<1>12. ASSUME NEW r \in Runs, RenameOverStore(r)  PROVE OnlyCreatorsAnnounce'
  BY <1>12 DEF RenameOverStore, Abandon
<1>13. ASSUME NEW r \in Runs, Release(r)  PROVE OnlyCreatorsAnnounce'
  BY <1>13 DEF Release
<1>14. ASSUME NEW r \in Runs, Announce(r)  PROVE OnlyCreatorsAnnounce'
  BY <1>14 DEF Announce
<1>15. ASSUME NEW r \in Runs, Kill(r)  PROVE OnlyCreatorsAnnounce'
  BY <1>15 DEF Kill, Stopped
<1>16. CASE ClocksTick \/ TemporariesAge \/ OthersReplaceStore \/ UNCHANGED vars
  BY <1>16 DEF ClocksTick, TemporariesAge, OthersReplaceStore, vars
<1> QED
  BY <1>1, <1>2, <1>3, <1>4, <1>5, <1>6, <1>7, <1>8, <1>9, <1>10, <1>11, <1>12, <1>13, <1>14, <1>15,
     <1>16 DEF Next, RunStep

\* AnnouncedOncePerCreation: however many runs race to create the store, the first
\* recording is announced once per time it came to be missing.
THEOREM AnnouncedOnce == Spec => []AnnouncedOncePerCreation
<1>1. Init => IInv /\ CreationsAreCounted /\ OnlyCreatorsAnnounce
  <2> SUFFICES ASSUME Init PROVE CreationsAreCounted /\ OnlyCreatorsAnnounce
    BY InitIInv
  <2>1. Creators = {} /\ outside = 0 /\ announced = {} /\ \A r \in Runs : pc[r] = "idle"
    BY DEF Init, Creators
  <2>2. QED BY <2>1, FS_EmptySet DEF CreationsAreCounted, OnlyCreatorsAnnounce
<1>2. /\ IInv /\ CreationsAreCounted /\ OnlyCreatorsAnnounce /\ [Next]_vars
      => (IInv /\ CreationsAreCounted /\ OnlyCreatorsAnnounce)'
  BY NextIInv, NextCounts, NextAnnounces
<1>3. IInv /\ CreationsAreCounted /\ OnlyCreatorsAnnounce => AnnouncedOncePerCreation
  <2> SUFFICES ASSUME IInv, CreationsAreCounted, OnlyCreatorsAnnounce PROVE AnnouncedOncePerCreation
    OBVIOUS
  <2>1. IsFiniteSet(announced) /\ Cardinality(announced) <= Cardinality(Creators)
    BY FS_Subset DEF CreationsAreCounted, OnlyCreatorsAnnounce
  <2>2. Cardinality(announced) \in Nat /\ Cardinality(Creators) \in Nat /\ outside \in Nat
    BY <2>1, FS_CardinalityType DEF CreationsAreCounted, IInv, TypeOK
  <2>3. QED BY <2>1, <2>2 DEF AnnouncedOncePerCreation, CreationsAreCounted
<1> QED
  BY <1>1, <1>2, <1>3, PTL DEF Spec
=============================================================================
