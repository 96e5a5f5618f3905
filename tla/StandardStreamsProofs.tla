------------------------ MODULE StandardStreamsProofs ------------------------
(***************************************************************************)
(* Theorems about StandardStreams, for any consoles, codes and bounds: the *)
(* code a run leaves with is true of what was delivered, and the streams   *)
(* are given back as they were found.                                      *)
(***************************************************************************)
EXTENDS StandardStreams, TLAPS

\* A thread with a failed write on its hands.
Busy == {"met", "duplicated", "silenced", "answer"}
\* What the failed write will return to.
Pos == IF pc["main"] \in Busy \cup {"say"} THEN job["main"].next ELSE pc["main"]

\* The parts of the way out, in turn.
AtCommand == {"command", "line", "lineErr"}
AfterTally == {"rank", "restore", "exit", "exited"}
AfterErr == {"tally"} \cup AfterTally
AfterOut == {"flushErr"} \cup AfterErr
AfterDrain == {"flushOut"} \cup AfterOut
MainPlaces == AtCommand \cup {"report", "envelope", "shutdown"} \cup AfterDrain

\* Each thread is where it can be; the worker has the console's failures only.
ThreadsInPlace ==
  /\ Pos \in MainPlaces
  /\ pc["worker"] \in {"idle", "line", "lineErr"} \cup Busy
  /\ pc["worker"] \in Busy =>
       /\ job["worker"].how = "console"
       /\ job["worker"].next \in {"idle", "lineErr"}
  /\ pc["main"] \in Busy =>
       /\ job["main"].how = "output" => Pos = "command" /\ job["main"].stream = "out"
       /\ job["main"].how = "envelope" => code \in Outranking /\ Pos = "shutdown"
       /\ job["main"].how = "diagnostic" => job["main"].stream = "err"
       /\ job["main"].how = "final" => Pos \in {"flushErr", "tally"}
       /\ job["main"].how = "console" => Pos \in AtCommand
  /\ pc["main"] = "say" => Pos \in {"shutdown"} \cup AfterDrain
  /\ Pos \in {"report", "envelope"} => code \in Outranking
  /\ Pos \in {"restore", "exit", "exited"} => pc["main"] = Pos
  /\ pc["main"] # "say" /\ Pos \in AtCommand => code = Undecided /\ decided = Undecided
  /\ onePipe => dest["out"] = dest["err"]

\* Once the library has drained nobody but the main thread writes.
DrainedForGood == Pos \in AfterDrain => Drained

\* A thread that holds the lock holds one duplicate, of a stream not yet silenced.
LockHoldsADuplicate ==
  /\ \A t \in Threads : lock = t <=> pc[t] = "duplicated"
  /\ \A t \in Threads : pc[t] = "duplicated" => job[t].stream \notin redirected
  /\ \A s \in Streams : copies[s] = (IF s \in redirected THEN 1 ELSE 0)
                          + (IF lock \in Threads /\ job[lock].stream = s THEN 1 ELSE 0)

\* A stream is silenced, or about to be, for a failure of its own.
SilencedForAFailure ==
  /\ \A s \in redirected : dest[s] \in {"left", "full"} /\ ~exhausted
  /\ \A t \in Threads : pc[t] \in Busy =>
       /\ dest[job[t].stream] # "read"
       /\ job[t].outcome = "left" => dest[job[t].stream] = "left"
       /\ pc[t] = "duplicated" => dest[job[t].stream] # "none"
       /\ pc[t] = "silenced" => job[t].stream \in redirected
  /\ pc["main"] \in {"exit", "exited"} => redirected = {}

\* What is left in a buffer after its flush is about to be thrown away.
BuffersAreEmptied ==
  /\ \A s \in Streams : dest[s] = "none" => ~pending[s]
  /\ ~exhausted /\ Pos \in AfterOut /\ pending["out"] =>
       pc["main"] \in Busy \ {"answer"} /\ job["main"].stream = "out"
  /\ ~exhausted /\ Pos \in AfterErr /\ pending["err"] =>
       pc["main"] \in Busy \ {"answer"} /\ job["main"].stream = "err"
  /\ Pos \in AfterOut /\ pc["main"] = "met" => job["main"].stream \notin redirected
  /\ code = Shutdown => exhausted /\ pc["main"] = "exited"

\* Output that somebody will not get, or that stands in a buffer nobody takes.
Missed == lost \/ (pending["out"] /\ dest["out"] # "read")
BusyWithOutput == \E t \in Threads : pc[t] \in Busy /\ job[t].stream = "out"
Answered == recorded # {} \/ outcomes # {} \/ code \notin Verdicts \cup {Undecided}

\* A loss is on somebody's hands or already answered, and what was answered is a loss.
LossesAreAnswered ==
  /\ BusyWithOutput => Missed
  /\ recorded # {} => Missed
  /\ outcomes # {} => Missed \/ dest["err"] = "left"
  /\ lost \/ "out" \in redirected => BusyWithOutput \/ Answered
  /\ Pos \in AfterTally => recorded = {}
  /\ pc["main"] \in {"restore", "exit", "exited"} /\ outcomes # {} =>
       code \notin Verdicts \cup {Undecided}
  /\ pc["main"] = "exited" /\ Missed => lost
  /\ decided # Undecided /\ code \notin {decided, Shutdown} => Missed \/ dest["err"] = "left"

\* A refusal keeps its code, and its sentence is written once.
RefusalsStand ==
  /\ decided \in Outranking => code = decided \/ code = Shutdown
  /\ sentences <= 1
  /\ said => sentences = 1
  /\ ~said /\ pc["main"] \notin {"exit", "exited"} => sentences = 0
  /\ "refused" \in outcomes => sentences = 1 \/ pc["main"] = "say"
  /\ code = 74 /\ decided # 74 => sentences = 1 \/ pc["main"] = "say"

IInv ==
  /\ TypeOK /\ ThreadsInPlace /\ DrainedForGood /\ LockHoldsADuplicate /\ SilencedForAFailure
  /\ BuffersAreEmptied /\ LossesAreAnswered /\ RefusalsStand

-----------------------------------------------------------------------------
(* Types                                                                   *)

Hows == {"output", "envelope", "console", "diagnostic", "final"}
Job == [stream : Streams, next : Labels, outcome : Outcomes, how : Hows]

\* A thread's job may become any job.
LEMMA JobIsTyped ==
  ASSUME TypeOK, NEW t \in Threads, NEW j \in Job
  PROVE  job \in [Threads -> Job] /\ [job EXCEPT ![t] = j] \in [Threads -> Job]
BY DEF TypeOK, Job, Hows

\* A write leaves what it touches with its type, failed or not.
LEMMA AttemptIsTyped ==
  ASSUME TypeOK, NEW t \in Threads, NEW s \in Streams, NEW how \in Hows, NEW next \in Labels,
         Attempt(t, s, how, next)
  PROVE  /\ pending' \in [Streams -> BOOLEAN] /\ lost' \in BOOLEAN
         /\ pc' \in [Threads -> Labels] /\ job' \in [Threads -> Job]
<1> DEFINE failed == [stream |-> s, how |-> how, next |-> next,
                      outcome |-> IF dest[s] = "none" THEN "refused" ELSE Outcome(s)]
<1>1. pc' \in [Threads -> Labels]
  BY DEF TypeOK, Attempt, Goto, Labels
<1>2. pending' \in [Streams -> BOOLEAN]
  <2>1. \/ pending' = pending
        \/ pending' = [pending EXCEPT ![s] = FALSE] \/ pending' = [pending EXCEPT ![s] = TRUE]
    BY DEF Attempt, Emptied
  <2>2. QED BY <2>1 DEF TypeOK
<1>3. lost' \in BOOLEAN
  BY DEF TypeOK, Attempt, Emptied
<1>4. failed \in Job
  BY DEF Job, Outcome, Outcomes
<1>5. job' = job \/ job' = [job EXCEPT ![t] = failed]
  BY DEF Attempt
<1>6. QED BY <1>1, <1>2, <1>3, <1>4, <1>5, JobIsTyped

\* Every step keeps the types.
LEMMA TypesKept ==
  ASSUME IInv, Next
  PROVE  TypeOK'
<1>0. TypeOK /\ LockHoldsADuplicate
  BY DEF IInv
<1>1. ASSUME NEW t \in Threads, Duplicate(t)
      PROVE  TypeOK'
  <2>1. pc' \in [Threads -> Labels] /\ copies' \in [Streams -> Nat]
    BY <1>0, <1>1 DEF Duplicate, Goto, TypeOK, Labels
  <2>2. lock' \in Threads \cup {Nobody}
    BY <1>1 DEF Duplicate
  <2>3. QED BY <1>0, <1>1, <2>1, <2>2 DEF Duplicate, world, answers, verdict, TypeOK
<1>2. ASSUME NEW t \in Threads, PointAtNull(t)
      PROVE  TypeOK'
  <2>1. job[t].stream \in Streams
    BY <1>0 DEF TypeOK
  <2>2. pc' \in [Threads -> Labels]
    BY <1>0, <1>2 DEF PointAtNull, Goto, TypeOK, Labels
  <2>3. redirected' \subseteq Streams /\ lock' \in Threads \cup {Nobody}
    BY <1>0, <1>2, <2>1 DEF PointAtNull, TypeOK
  <2>4. QED BY <1>0, <1>2, <2>2, <2>3 DEF PointAtNull, world, answers, verdict, TypeOK
<1>3. ASSUME NEW t \in Threads, FailToRedirect(t)
      PROVE  TypeOK'
  BY <1>0, <1>3 DEF FailToRedirect, Nobody, Goto, world, answers, verdict, TypeOK, Threads,
     Streams, Labels, Codes, Outcomes, LockHoldsADuplicate
<1>4. ASSUME NEW t \in Threads, Discard(t)
      PROVE  TypeOK'
  BY <1>0, <1>4 DEF Discard, Emptied, Goto, world, descriptors, answers, verdict, TypeOK, Threads,
     Streams, Nobody, Labels, Codes, Outcomes
<1>5. ASSUME NEW t \in Threads, NothingToSilence(t)
      PROVE  TypeOK'
  BY <1>0, <1>5 DEF NothingToSilence, HasDescriptor, Nobody, Goto, world, descriptors, answers,
     verdict, TypeOK, Threads, Streams, Labels, Codes, Outcomes
<1>6. ASSUME NEW t \in Threads, LoseTheDiagnostic(t)
      PROVE  TypeOK'
  BY <1>0, <1>6 DEF LoseTheDiagnostic, Answering, Goto, world, descriptors, verdict, TypeOK,
     Threads, Streams, Nobody, Labels, Codes, Outcomes
<1>7. ASSUME NEW t \in Threads, RecordTheFailure(t)
      PROVE  TypeOK'
  <2>1. job[t].next \in Labels /\ job[t].outcome \in Outcomes
    BY <1>0 DEF TypeOK, Threads
  <2>2. pc' \in [Threads -> Labels] /\ recorded' \subseteq Outcomes /\ outcomes' \subseteq Outcomes
    BY <1>0, <1>7, <2>1 DEF RecordTheFailure, Goto, answers, TypeOK, Labels, Outcomes
  <2>3. QED BY <1>0, <1>7, <2>2 DEF RecordTheFailure, world, descriptors, verdict, TypeOK
<1>8. ASSUME NEW t \in Threads, WriteLineOut(t)
      PROVE  TypeOK'
  <2> SUFFICES /\ pending' \in [Streams -> BOOLEAN] /\ lost' \in BOOLEAN
        /\ pc' \in [Threads -> Labels] /\ job' \in [Threads -> Job]
    BY <1>0, <1>8 DEF WriteLineOut, world, descriptors, answers, verdict, TypeOK, Hows, Job
  <2>1. CASE "out" \in Console /\ Attempt(t, "out", "console", "lineErr")
    <3>1. "lineErr" \in Labels
      BY DEF Home, Labels
    <3>2. QED BY <1>0, <2>1, <3>1, AttemptIsTyped DEF Hows, Streams
  <2>2. CASE Goto(t, "lineErr") /\ UNCHANGED <<pending, lost, job>>
    BY <1>0, <2>2 DEF Goto, Home, TypeOK, Labels, Job, Hows
  <2>3. QED BY <1>8, <2>1, <2>2 DEF WriteLineOut
<1>9. ASSUME NEW t \in Threads, WriteLineErr(t)
      PROVE  TypeOK'
  <2> SUFFICES /\ pending' \in [Streams -> BOOLEAN] /\ lost' \in BOOLEAN
        /\ pc' \in [Threads -> Labels] /\ job' \in [Threads -> Job]
    BY <1>0, <1>9 DEF WriteLineErr, world, descriptors, answers, verdict, TypeOK, Hows, Job
  <2>1. CASE "err" \in Console /\ Attempt(t, "err", "console", Home(t))
    <3>1. Home(t) \in Labels
      BY DEF Home, Labels
    <3>2. QED BY <1>0, <2>1, <3>1, AttemptIsTyped DEF Hows, Streams
  <2>2. CASE Goto(t, Home(t)) /\ UNCHANGED <<pending, lost, job>>
    BY <1>0, <2>2 DEF Goto, Home, TypeOK, Labels, Job, Hows
  <2>3. QED BY <1>9, <2>1, <2>2 DEF WriteLineErr
<1>10. ASSUME LeaveWithTheReader
      PROVE  TypeOK'
  <2>1. job["main"].next \in Labels
    BY <1>0 DEF TypeOK, Threads
  <2>2. pc' = [pc EXCEPT !["main"] = "shutdown"] \/ pc' = [pc EXCEPT !["main"] = job["main"].next]
    BY <1>10 DEF LeaveWithTheReader, Goto
  <2>3. pc' \in [Threads -> Labels]
    BY <1>0, <2>1, <2>2 DEF TypeOK, Labels
  <2>4. outcomes' = outcomes \/ outcomes' = outcomes \cup {"left"}
    BY <1>10 DEF LeaveWithTheReader
  <2>5. code' = code \/ code' = 141
    BY <1>10 DEF LeaveWithTheReader
  <2>6. outcomes' \subseteq Outcomes
    BY <1>0, <2>4 DEF TypeOK, Outcomes
  <2>7. code' \in Codes \cup {Shutdown}
    BY <1>0, <2>5 DEF TypeOK, Codes
  <2>8. QED BY <1>0, <1>10, <2>3, <2>6, <2>7 DEF LeaveWithTheReader, world, descriptors, TypeOK
<1>11. ASSUME RaiseTheRefusal
      PROVE  TypeOK'
  BY <1>0, <1>11 DEF RaiseTheRefusal, Answering, Goto, world, descriptors, TypeOK, Threads,
     Streams, Nobody, Labels, Codes, Outcomes, Outranking, Verdicts, Undecided, Shutdown
<1>12. ASSUME CatchTheRefusal
      PROVE  TypeOK'
  BY <1>0, <1>12 DEF CatchTheRefusal, Answering, Goto, world, descriptors, answers, TypeOK,
     Threads, Streams, Nobody, Labels, Codes, Outcomes, Outranking, Verdicts, Undecided, Shutdown
<1>13. ASSUME SayItOnce
      PROVE  TypeOK'
  <2>1. job["main"].next \in Labels /\ "main" \in Threads
    BY <1>0 DEF TypeOK, Threads
  <2>2. CASE Goto("main", job["main"].next) /\ UNCHANGED <<said, sentences, pending, lost, job>>
    BY <1>0, <1>13, <2>1, <2>2 DEF SayItOnce, Goto, world, descriptors, verdict, TypeOK
  <2>3. CASE /\ said' = TRUE /\ sentences' = sentences + 1
             /\ Attempt("main", "err", "diagnostic", job["main"].next)
    <3>1. /\ pending' \in [Streams -> BOOLEAN] /\ lost' \in BOOLEAN
        /\ pc' \in [Threads -> Labels] /\ job' \in [Threads -> Job]
      BY <1>0, <2>1, <2>3, AttemptIsTyped DEF Hows, Streams
    <3>2. QED
      BY <1>0, <1>13, <2>3, <3>1 DEF SayItOnce, world, descriptors, verdict, TypeOK, Hows, Job
  <2>4. QED BY <1>13, <2>2, <2>3 DEF SayItOnce
<1>14. ASSUME WriteOutput
      PROVE  TypeOK'
  <2>1. /\ pending' \in [Streams -> BOOLEAN] /\ lost' \in BOOLEAN
        /\ pc' \in [Threads -> Labels] /\ job' \in [Threads -> Job]
    BY <1>0, <1>14, AttemptIsTyped, JobIsTyped DEF WriteOutput, InCommand, Spend, Goto, Threads,
       Streams, Labels, Hows
  <2>2. QED
    BY <1>0, <1>14, <2>1 DEF WriteOutput, InCommand, Spend, Goto, world, descriptors, answers,
       verdict, TypeOK, Threads, Streams, Hows, Job
<1>15. ASSUME BufferOutput
      PROVE  TypeOK'
  BY <1>0, <1>15 DEF BufferOutput, InCommand, Spend, Buffer, world, descriptors, answers, verdict,
     TypeOK, Threads, Streams, Nobody, Labels, Codes, Outcomes
<1>16. ASSUME ForeignDiagnostic
      PROVE  TypeOK'
  BY <1>0, <1>16 DEF ForeignDiagnostic, InCommand, Spend, Buffer, world, descriptors, answers,
     verdict, TypeOK, Threads, Streams, Nobody, Labels, Codes, Outcomes
<1>17. ASSUME Diagnose
      PROVE  TypeOK'
  <2>1. /\ pending' \in [Streams -> BOOLEAN] /\ lost' \in BOOLEAN
        /\ pc' \in [Threads -> Labels] /\ job' \in [Threads -> Job]
    BY <1>0, <1>17, AttemptIsTyped, JobIsTyped DEF Diagnose, InCommand, Spend, Drained, Goto,
       Threads, Streams, Labels, Hows
  <2>2. QED
    BY <1>0, <1>17, <2>1 DEF Diagnose, InCommand, Spend, Drained, Goto, world, descriptors,
       answers, verdict, TypeOK, Threads, Streams, Hows, Job
<1>18. ASSUME LogLine
      PROVE  TypeOK'
  BY <1>0, <1>18 DEF LogLine, InCommand, Spend, world, descriptors, answers, verdict, TypeOK,
     Threads, Streams, Nobody, Labels, Codes, Outcomes
<1>19. ASSUME DemoLine
      PROVE  TypeOK'
  BY <1>0, <1>19 DEF DemoLine, InCommand, Spend, Drained, Goto, world, descriptors, answers,
     verdict, TypeOK, Threads, Streams, Nobody, Labels, Codes, Outcomes
<1>20. ASSUME Report
      PROVE  TypeOK'
  <2>1. /\ pending' \in [Streams -> BOOLEAN] /\ lost' \in BOOLEAN
        /\ pc' \in [Threads -> Labels] /\ job' \in [Threads -> Job]
    BY <1>0, <1>20, AttemptIsTyped, JobIsTyped DEF Report, Drained, Goto, Threads, Streams,
       Labels, Hows
  <2>2. QED
    BY <1>0, <1>20, <2>1 DEF Report, Drained, Goto, world, descriptors, answers, verdict,
       TypeOK, Threads, Streams, Hows, Job
<1>21. ASSUME Envelope
      PROVE  TypeOK'
  <2>1. /\ pending' \in [Streams -> BOOLEAN] /\ lost' \in BOOLEAN
        /\ pc' \in [Threads -> Labels] /\ job' \in [Threads -> Job]
    BY <1>0, <1>21, AttemptIsTyped, JobIsTyped DEF Envelope, Goto, Threads, Streams, Labels, Hows
  <2>2. QED
    BY <1>0, <1>21, <2>1 DEF Envelope, Goto, world, descriptors, answers, verdict, TypeOK,
       Threads, Streams, Hows, Job
<1>22. ASSUME ShutLoggingDown
      PROVE  TypeOK'
  BY <1>0, <1>22 DEF ShutLoggingDown, Drained, Goto, world, descriptors, answers, verdict, TypeOK,
     Threads, Streams, Nobody, Labels, Codes, Outcomes
<1>23. ASSUME ShutdownFails
      PROVE  TypeOK'
  <2>1. /\ pending' \in [Streams -> BOOLEAN] /\ lost' \in BOOLEAN
        /\ pc' \in [Threads -> Labels] /\ job' \in [Threads -> Job]
    BY <1>0, <1>23, AttemptIsTyped, JobIsTyped DEF ShutdownFails, Drained, Goto, Threads, Streams,
       Labels, Hows
  <2>2. QED
    BY <1>0, <1>23, <2>1 DEF ShutdownFails, Drained, Goto, world, descriptors, answers,
       TypeOK, Threads, Streams, Hows, Job, Codes, Outranking
<1>24. ASSUME FlushOut
      PROVE  TypeOK'
  <2>1. [stream |-> "out", how |-> "final", next |-> "flushErr", outcome |-> Outcome("out")] \in Job
    BY DEF Job, Hows, Outcome, Outcomes, Streams, Labels
  <2>2. job' \in [Threads -> Job]
    BY <1>0, <1>24, <2>1, JobIsTyped DEF FlushOut, Flush, Threads
  <2>3. pc' \in [Threads -> Labels] /\ pending' \in [Streams -> BOOLEAN] /\ lost' \in BOOLEAN
    BY <1>0, <1>24 DEF FlushOut, Flush, Emptied, Goto, TypeOK, Labels
  <2>4. QED
    BY <1>0, <1>24, <2>2, <2>3 DEF FlushOut, Flush, world, descriptors, answers, verdict,
       TypeOK, Hows, Job
<1>25. ASSUME FlushErr
      PROVE  TypeOK'
  <2>1. [stream |-> "err", how |-> "final", next |-> "tally", outcome |-> Outcome("err")] \in Job
    BY DEF Job, Hows, Outcome, Outcomes, Streams, Labels
  <2>2. job' \in [Threads -> Job]
    BY <1>0, <1>25, <2>1, JobIsTyped DEF FlushErr, Flush, Threads
  <2>3. pc' \in [Threads -> Labels] /\ pending' \in [Streams -> BOOLEAN] /\ lost' \in BOOLEAN
    BY <1>0, <1>25 DEF FlushErr, Flush, Emptied, Goto, TypeOK, Labels
  <2>4. QED
    BY <1>0, <1>25, <2>2, <2>3 DEF FlushErr, Flush, world, descriptors, answers, verdict,
       TypeOK, Hows, Job
<1>26. ASSUME AnswerWhatWasRecorded
      PROVE  TypeOK'
  BY <1>0, <1>26 DEF AnswerWhatWasRecorded, Goto, world, descriptors, verdict, TypeOK, Threads,
     Streams, Nobody, Labels, Codes, Outcomes
<1>27. ASSUME Rank
      PROVE  TypeOK'
  BY <1>0, <1>27 DEF Rank, Ranked, Outranking, Goto, world, descriptors, answers, TypeOK, Threads,
     Streams, Nobody, Labels, Codes, Outcomes, Verdicts, Undecided, Shutdown
<1>28. ASSUME RestoreOriginalStreams
      PROVE  TypeOK'
  <2>1. copies' \in [Streams -> Nat]
    BY <1>0, <1>28 DEF RestoreOriginalStreams, LockHoldsADuplicate, Threads, Nobody, TypeOK
  <2>2. pc' \in [Threads -> Labels]
    BY <1>0, <1>28 DEF RestoreOriginalStreams, Goto, TypeOK, Labels
  <2>3. QED BY <1>0, <1>28, <2>1, <2>2 DEF RestoreOriginalStreams, world, verdict, TypeOK
<1>29. ASSUME Exit
      PROVE  TypeOK'
  BY <1>0, <1>29 DEF Exit, Streams, Takes, Shutdown, Goto, world, descriptors, answers, TypeOK,
     Threads, Nobody, Labels, Codes, Outcomes, Outranking, Verdicts, Undecided
<1>30. ASSUME TakeLine
      PROVE  TypeOK'
  BY <1>0, <1>30 DEF TakeLine, Goto, world, descriptors, answers, verdict, TypeOK, Threads,
     Streams, Nobody, Labels, Codes, Outcomes
<1>31. ASSUME NEW c \in Decisions, Decide(c)
      PROVE  TypeOK'
  BY <1>0, <1>31, DecisionsAreCodes DEF Decide, InCommand, Goto, Outranking, world, descriptors,
     answers, TypeOK, Threads, Streams, Nobody, Labels, Codes, Outcomes, Verdicts, Undecided,
     Shutdown
<1>32. ASSUME NEW s \in Streams, ReaderLeaves(s)
      PROVE  TypeOK'
  BY <1>0, <1>32 DEF ReaderLeaves, Running, Streams, descriptors, answers, verdict, TypeOK,
     Threads, Nobody, Labels, Codes, Outcomes
<1>33. ASSUME NEW s \in Streams, DiskFills(s)
      PROVE  TypeOK'
  BY <1>0, <1>33 DEF DiskFills, Running, Streams, descriptors, answers, verdict, TypeOK, Threads,
     Nobody, Labels, Codes, Outcomes
<1>34. QED
  BY <1>1, <1>2, <1>3, <1>4, <1>5, <1>6, <1>7, <1>8, <1>9, <1>10, <1>11, <1>12, <1>13,
     <1>14, <1>15, <1>16, <1>17, <1>18, <1>19, <1>20, <1>21, <1>22, <1>23, <1>24, <1>25,
     <1>26, <1>27, <1>28, <1>29, <1>30, <1>31, <1>32, <1>33 DEF Next, Main, Worker, World,
     Silence, Answer, Line, Command, WayOut, Threads

-----------------------------------------------------------------------------
(* Each part of the invariant, step by step                                *)

\* The run starts with nothing written, nobody busy and nothing answered.
LEMMA StartsInOrder == Init => IInv
<1> SUFFICES ASSUME Init PROVE IInv
  OBVIOUS
<1> USE DEF Threads, Streams, Home
<1>0. "err" \in Streams /\ "out" \in Streams
  OBVIOUS
<1>1. TypeOK
  <2>1. left \in [{"writes", "lines", "notes"} -> Nat]
    BY BoundsAreNat DEF Init
  <2>2. job \in [Threads -> Job]
    BY DEF Init, Job, Hows, Labels, Outcomes
  <2>3. pc \in [Threads -> Labels]
    BY DEF Init, Labels
  <2>4. /\ dest \in [Streams -> {"read", "left", "full", "none"}]
        /\ {onePipe, exhausted} \subseteq BOOLEAN
    BY DEF Init
  <2>5. pending \in [Streams -> BOOLEAN] /\ copies \in [Streams -> Nat]
    BY DEF Init
  <2>6. QED BY <2>1, <2>2, <2>3, <2>4, <2>5 DEF Init, TypeOK, Job, Hows, Nobody, Codes
<1>2. Pos = "command" /\ pc["main"] = "command" /\ pc["worker"] = "idle"
  BY DEF Init, Pos, Busy
<1>3. ThreadsInPlace /\ DrainedForGood
  BY <1>2 DEF Init, ThreadsInPlace, DrainedForGood, MainPlaces, AtCommand, AfterDrain, AfterOut,
              AfterErr, AfterTally, Busy
<1>4. LockHoldsADuplicate
  BY <1>2 DEF Init, LockHoldsADuplicate, Nobody
<1>5. SilencedForAFailure
  BY <1>2 DEF Init, SilencedForAFailure, Busy
<1>6. BuffersAreEmptied
  BY <1>2 DEF Init, BuffersAreEmptied, AfterOut, AfterErr, AfterTally, Undecided, Shutdown
<1>7. LossesAreAnswered
  BY <1>2 DEF Init, LossesAreAnswered, BusyWithOutput, Answered, Missed, Busy, AfterTally
<1>8. RefusalsStand
  BY DEF Init, RefusalsStand, Outranking, Undecided
<1>9. QED
  BY <1>1, <1>3, <1>4, <1>5, <1>6, <1>7, <1>8 DEF IInv

\* Every step leaves each thread where it can be.
LEMMA ThreadsInPlaceKept ==
  ASSUME IInv, Next
  PROVE  ThreadsInPlace'
<1>0. TypeOK /\ ThreadsInPlace
  BY DEF IInv
<1>1. ASSUME NEW t \in Threads, Silence(t)
      PROVE  ThreadsInPlace'
  BY <1>0, <1>1 DEF Silence, Duplicate, Goto, world, verdict, PointAtNull, FailToRedirect,
     Discard, Emptied, NothingToSilence, TypeOK, Threads, ThreadsInPlace, Pos, Busy
<1>2. ASSUME NEW t \in Threads, Answer(t)
      PROVE  ThreadsInPlace'
  BY <1>0, <1>2 DEF Answer, LoseTheDiagnostic, Answering, Goto, world, verdict, RecordTheFailure,
     TypeOK, Threads, ThreadsInPlace, Pos, Busy, MainPlaces, AtCommand
<1>3. ASSUME NEW t \in Threads, Line(t)
      PROVE  ThreadsInPlace'
  BY <1>0, <1>3 DEF Line, WriteLineOut, Attempt, Goto, Emptied, world, verdict, WriteLineErr,
     Home, TypeOK, Threads, ThreadsInPlace, Pos, Busy, MainPlaces, AtCommand
<1>4. ASSUME LeaveWithTheReader \/ RaiseTheRefusal \/ CatchTheRefusal
      PROVE  ThreadsInPlace'
  BY <1>0, <1>4 DEF LeaveWithTheReader, Answering, Goto, world, RaiseTheRefusal, CatchTheRefusal,
     TypeOK, Threads, Outranking, ThreadsInPlace, Pos, Busy, MainPlaces, AtCommand
<1>5. ASSUME SayItOnce
      PROVE  ThreadsInPlace'
  BY <1>0, <1>5 DEF SayItOnce, Goto, Attempt, Emptied, world, TypeOK, Threads, ThreadsInPlace,
     Pos, Busy, AtCommand, AfterDrain, AfterOut, AfterErr, AfterTally
<1>6. ASSUME Command
      PROVE  ThreadsInPlace'
  BY <1>0, <1>6 DEF Command, WriteOutput, InCommand, Spend, Attempt, Goto, Emptied, world,
     verdict, BufferOutput, ForeignDiagnostic, Diagnose, LogLine, DemoLine, Decide, TypeOK,
     Threads, ThreadsInPlace, Pos, Busy, MainPlaces, AtCommand
<1>7. ASSUME Report \/ Envelope \/ ShutLoggingDown \/ ShutdownFails
      PROVE  ThreadsInPlace'
  BY <1>0, <1>7 DEF Report, Attempt, Goto, Emptied, world, verdict, Envelope, ShutLoggingDown,
     ShutdownFails, TypeOK, Threads, ThreadsInPlace, Pos, Busy, MainPlaces, AtCommand, AfterDrain
<1>8. ASSUME FlushOut \/ FlushErr
      PROVE  ThreadsInPlace'
  BY <1>0, <1>8 DEF FlushOut, Flush, Goto, Emptied, world, FlushErr, TypeOK, Threads,
     ThreadsInPlace, Pos, Busy, MainPlaces, AtCommand, AfterDrain, AfterOut, AfterErr
<1>9. ASSUME AnswerWhatWasRecorded \/ Rank \/ RestoreOriginalStreams \/ Exit
      PROVE  ThreadsInPlace'
  BY <1>0, <1>9 DEF AnswerWhatWasRecorded, Goto, world, Rank, RestoreOriginalStreams, Exit,
     TypeOK, Threads, ThreadsInPlace, Pos, Busy, MainPlaces, AtCommand, AfterDrain, AfterOut,
     AfterErr, AfterTally
<1>10. ASSUME TakeLine
      PROVE  ThreadsInPlace'
  BY <1>0, <1>10 DEF TakeLine, Goto, world, verdict, ThreadsInPlace, Pos, Busy
<1>11. ASSUME World
      PROVE  ThreadsInPlace'
  BY <1>0, <1>11 DEF World, Streams, ReaderLeaves, verdict, DiskFills, ThreadsInPlace, Pos
<1>12. QED
  BY <1>1, <1>2, <1>3, <1>4, <1>5, <1>6, <1>7, <1>8, <1>9, <1>10, <1>11
  DEF Next, Main, Worker, WayOut, Threads

\* Once drained, the library stays drained: nothing queues a line on the way out.
LEMMA DrainedForGoodKept ==
  ASSUME IInv, Next
  PROVE  DrainedForGood'
<1>0. TypeOK /\ DrainedForGood
  BY DEF IInv
<1>1. ASSUME NEW t \in Threads, Silence(t)
      PROVE  DrainedForGood'
  BY <1>0, <1>1 DEF Silence, Duplicate, Goto, PointAtNull, FailToRedirect, Discard, Emptied,
     NothingToSilence, TypeOK, Threads, DrainedForGood, Pos, Busy, Drained
<1>2. ASSUME NEW t \in Threads, Answer(t)
      PROVE  DrainedForGood'
  BY <1>0, <1>2 DEF Answer, LoseTheDiagnostic, Answering, Goto, RecordTheFailure, TypeOK, Threads,
     DrainedForGood, Pos, Busy, Drained
<1>3. ASSUME NEW t \in Threads, Line(t)
      PROVE  DrainedForGood'
  BY <1>0, <1>3 DEF Line, WriteLineOut, Attempt, Goto, Emptied, WriteLineErr, Home, TypeOK,
     Threads, DrainedForGood, Pos, Busy, AfterDrain, AfterOut, AfterErr, AfterTally, Drained,
     AtCommand
<1>4. ASSUME LeaveWithTheReader \/ RaiseTheRefusal \/ CatchTheRefusal
      PROVE  DrainedForGood'
  BY <1>0, <1>4 DEF LeaveWithTheReader, Answering, Goto, RaiseTheRefusal, CatchTheRefusal, TypeOK,
     Threads, DrainedForGood, Pos, Busy, AfterDrain, AfterOut, AfterErr, AfterTally, Drained
<1>5. ASSUME SayItOnce
      PROVE  DrainedForGood'
  BY <1>0, <1>5 DEF SayItOnce, Goto, Drained, Attempt, Emptied, TypeOK, Threads, DrainedForGood,
     Pos
<1>6. ASSUME Command
      PROVE  DrainedForGood'
  BY <1>0, <1>6 DEF Command, WriteOutput, InCommand, Spend, Attempt, Goto, Emptied, BufferOutput,
     ForeignDiagnostic, Diagnose, LogLine, DemoLine, Decide, TypeOK, DrainedForGood, Pos, Busy,
     AfterDrain, AfterOut, AfterErr, AfterTally
<1>7. ASSUME Report \/ Envelope \/ ShutLoggingDown \/ ShutdownFails
      PROVE  DrainedForGood'
  BY <1>0, <1>7 DEF Report, Drained, Attempt, Goto, Emptied, Envelope, ShutLoggingDown,
     ShutdownFails, TypeOK, Threads, DrainedForGood, Pos, Busy, AfterDrain, AfterOut, AfterErr,
     AfterTally
<1>8. ASSUME FlushOut \/ FlushErr
      PROVE  DrainedForGood'
  BY <1>0, <1>8 DEF FlushOut, Flush, Goto, Emptied, FlushErr, TypeOK, Threads, DrainedForGood,
     Pos, Busy, AfterDrain, AfterOut, Drained
<1>9. ASSUME AnswerWhatWasRecorded \/ Rank \/ RestoreOriginalStreams \/ Exit
      PROVE  DrainedForGood'
  BY <1>0, <1>9 DEF AnswerWhatWasRecorded, Goto, Rank, RestoreOriginalStreams, Exit, TypeOK,
     Threads, DrainedForGood, Pos, Busy, AfterDrain, AfterOut, AfterErr, AfterTally, Drained
<1>10. ASSUME TakeLine
      PROVE  DrainedForGood'
  BY <1>0, <1>10 DEF TakeLine, Goto, DrainedForGood, Pos, Drained
<1>11. ASSUME World
      PROVE  DrainedForGood'
  BY <1>0, <1>11 DEF World, ReaderLeaves, DiskFills, DrainedForGood, Pos, Drained
<1>12. QED
  BY <1>1, <1>2, <1>3, <1>4, <1>5, <1>6, <1>7, <1>8, <1>9, <1>10, <1>11
  DEF Next, Main, Worker, WayOut, Threads

\* The lock and the duplicates stay in step, whichever thread silences a stream.
LEMMA LockHoldsADuplicateKept ==
  ASSUME IInv, Next
  PROVE  LockHoldsADuplicate'
<1>0. TypeOK /\ ThreadsInPlace /\ LockHoldsADuplicate
  BY DEF IInv
<1>1. ASSUME NEW t \in Threads, Silence(t)
      PROVE  LockHoldsADuplicate'
  BY <1>0, <1>1 DEF Silence, Duplicate, MayRedirect, Nobody, Goto, PointAtNull, FailToRedirect,
     Discard, Emptied, descriptors, NothingToSilence, TypeOK, Threads, LockHoldsADuplicate
<1>2. ASSUME NEW t \in Threads, Answer(t)
      PROVE  LockHoldsADuplicate'
  BY <1>0, <1>2 DEF Answer, LoseTheDiagnostic, Answering, Goto, descriptors, RecordTheFailure,
     TypeOK, Threads, LockHoldsADuplicate, ThreadsInPlace, Pos, MainPlaces, AtCommand, AfterDrain,
     AfterOut, AfterErr, AfterTally
<1>3. ASSUME NEW t \in Threads, Line(t)
      PROVE  LockHoldsADuplicate'
  BY <1>0, <1>3 DEF Line, WriteLineOut, Attempt, Goto, Emptied, descriptors, WriteLineErr, Home,
     TypeOK, LockHoldsADuplicate, AtCommand
<1>4. ASSUME LeaveWithTheReader \/ RaiseTheRefusal \/ CatchTheRefusal
      PROVE  LockHoldsADuplicate'
  BY <1>0, <1>4 DEF LeaveWithTheReader, Answering, Goto, descriptors, RaiseTheRefusal,
     CatchTheRefusal, TypeOK, LockHoldsADuplicate, ThreadsInPlace, Pos, Busy
<1>5. ASSUME SayItOnce
      PROVE  LockHoldsADuplicate'
  BY <1>0, <1>5 DEF SayItOnce, Goto, Attempt, Emptied, descriptors, TypeOK, LockHoldsADuplicate,
     ThreadsInPlace, Pos, AfterDrain, AfterOut, AfterErr, AfterTally
<1>6. ASSUME Command
      PROVE  LockHoldsADuplicate'
  BY <1>0, <1>6 DEF Command, WriteOutput, InCommand, Spend, Attempt, Goto, Emptied, descriptors,
     BufferOutput, ForeignDiagnostic, Diagnose, LogLine, DemoLine, Decide, TypeOK,
     LockHoldsADuplicate
<1>7. ASSUME Report \/ Envelope \/ ShutLoggingDown \/ ShutdownFails
      PROVE  LockHoldsADuplicate'
  BY <1>0, <1>7 DEF Report, Attempt, Goto, Emptied, descriptors, Envelope, ShutLoggingDown,
     ShutdownFails, TypeOK, LockHoldsADuplicate
<1>8. ASSUME FlushOut \/ FlushErr
      PROVE  LockHoldsADuplicate'
  BY <1>0, <1>8 DEF FlushOut, Flush, Goto, Emptied, descriptors, FlushErr, TypeOK,
     LockHoldsADuplicate
<1>9. ASSUME AnswerWhatWasRecorded \/ Rank \/ RestoreOriginalStreams \/ Exit
      PROVE  LockHoldsADuplicate'
  BY <1>0, <1>9 DEF AnswerWhatWasRecorded, Goto, descriptors, Rank, answers,
     RestoreOriginalStreams, Streams, Exit, TypeOK, LockHoldsADuplicate, ThreadsInPlace, Busy
<1>10. ASSUME TakeLine
      PROVE  LockHoldsADuplicate'
  BY <1>0, <1>10 DEF TakeLine, Goto, descriptors, LockHoldsADuplicate
<1>11. ASSUME World
      PROVE  LockHoldsADuplicate'
  BY <1>0, <1>11 DEF World, ReaderLeaves, descriptors, DiskFills, LockHoldsADuplicate
<1>12. QED
  BY <1>1, <1>2, <1>3, <1>4, <1>5, <1>6, <1>7, <1>8, <1>9, <1>10, <1>11
  DEF Next, Main, Worker, WayOut, Threads

\* A stream is only ever silenced for a failure of its own.
LEMMA SilencedForAFailureKept ==
  ASSUME IInv, Next
  PROVE  SilencedForAFailure'
<1>0. TypeOK /\ ThreadsInPlace /\ DrainedForGood /\ SilencedForAFailure
  BY DEF IInv
<1>1. ASSUME NEW t \in Threads, Silence(t)
      PROVE  SilencedForAFailure'
  <2>1. CASE Duplicate(t)
    BY <1>0, <2>1 DEF Duplicate, HasDescriptor, Goto, world, SilencedForAFailure, Busy
  <2>2. CASE PointAtNull(t)
    BY <1>0, <2>2 DEF PointAtNull, Goto, world, TypeOK, Threads, SilencedForAFailure, Busy, Pos,
       AfterDrain, AfterOut, AfterErr, AfterTally, DrainedForGood, Drained
  <2>3. CASE FailToRedirect(t)
    BY <1>0, <2>3 DEF FailToRedirect, Goto, world, SilencedForAFailure, Busy
  <2>4. CASE Discard(t)
    BY <1>0, <2>4 DEF Discard, Goto, world, descriptors, SilencedForAFailure, Busy
  <2>5. CASE NothingToSilence(t)
    BY <1>0, <2>5 DEF NothingToSilence, Goto, world, descriptors, SilencedForAFailure, Busy
  <2>6. QED BY <1>1, <2>1, <2>2, <2>3, <2>4, <2>5 DEF Silence
<1>2. ASSUME NEW t \in Threads, Answer(t)
      PROVE  SilencedForAFailure'
  <2>1. CASE LoseTheDiagnostic(t)
    BY <1>0, <2>1 DEF LoseTheDiagnostic, Answering, Goto, world, descriptors, Threads,
       SilencedForAFailure, ThreadsInPlace, Pos, MainPlaces, AtCommand, AfterDrain, AfterOut,
       AfterErr, AfterTally
  <2>2. CASE RecordTheFailure(t)
    BY <1>0, <2>2 DEF RecordTheFailure, Answering, RecordsFailures, Goto, world, descriptors,
       Threads, SilencedForAFailure, Busy, ThreadsInPlace, Pos, AtCommand
  <2>3. QED BY <1>2, <2>1, <2>2 DEF Answer
<1>3. ASSUME NEW t \in Threads, Line(t)
      PROVE  SilencedForAFailure'
  <2>1. CASE WriteLineOut(t)
    BY <1>0, <2>1 DEF WriteLineOut, Attempt, Outcome, Goto, Takes, Emptied, world, descriptors,
       TypeOK, Threads, SilencedForAFailure, Busy
  <2>2. CASE WriteLineErr(t)
    BY <1>0, <2>2 DEF WriteLineErr, Attempt, Outcome, Goto, Takes, Emptied, Home, world,
       descriptors, TypeOK, Threads, SilencedForAFailure, Busy, AtCommand
  <2>3. QED BY <1>3, <2>1, <2>2 DEF Line
<1>4. ASSUME LeaveWithTheReader \/ RaiseTheRefusal \/ CatchTheRefusal
      PROVE  SilencedForAFailure'
  BY <1>0, <1>4 DEF LeaveWithTheReader, Answering, Goto, world, descriptors, RaiseTheRefusal,
     CatchTheRefusal, TypeOK, SilencedForAFailure, Busy, ThreadsInPlace, Pos
<1>5. ASSUME SayItOnce
      PROVE  SilencedForAFailure'
  BY <1>0, <1>5 DEF SayItOnce, Goto, Attempt, Outcome, Takes, Emptied, world, descriptors, TypeOK,
     SilencedForAFailure, Busy, ThreadsInPlace, Pos, AfterDrain, AfterOut, AfterErr, AfterTally
<1>6. ASSUME Command
      PROVE  SilencedForAFailure'
  <2>1. CASE WriteOutput
    BY <1>0, <2>1, SMTT(30) DEF WriteOutput, InCommand, Spend, Attempt, Outcome, Goto, Takes,
       Emptied, world, descriptors, TypeOK, SilencedForAFailure
  <2>2. CASE BufferOutput
    BY <1>0, <2>2 DEF BufferOutput, InCommand, Spend, world, descriptors, SilencedForAFailure
  <2>3. CASE ForeignDiagnostic
    BY <1>0, <2>3 DEF ForeignDiagnostic, InCommand, Spend, world, descriptors, SilencedForAFailure
  <2>4. CASE Diagnose
    BY <1>0, <2>4 DEF Diagnose, InCommand, Spend, Attempt, Outcome, Goto, Takes, Emptied, world,
       descriptors, TypeOK, SilencedForAFailure
  <2>5. CASE LogLine
    BY <1>0, <2>5 DEF LogLine, InCommand, Spend, world, descriptors, SilencedForAFailure
  <2>6. CASE DemoLine
    BY <1>0, <2>6 DEF DemoLine, InCommand, Spend, Goto, world, descriptors, SilencedForAFailure,
       Busy
  <2>7. ASSUME NEW c \in Decisions, Decide(c)
        PROVE  SilencedForAFailure'
    BY <1>0, <2>7 DEF Decide, InCommand, Goto, world, descriptors, SilencedForAFailure, Busy
  <2>8. QED BY <1>6, <2>1, <2>2, <2>3, <2>4, <2>5, <2>6, <2>7 DEF Command
<1>7. ASSUME Report \/ Envelope \/ ShutLoggingDown \/ ShutdownFails
      PROVE  SilencedForAFailure'
  <2>1. CASE Report
    BY <1>0, <2>1 DEF Report, Attempt, Outcome, Goto, Takes, Emptied, world, descriptors, TypeOK,
       SilencedForAFailure, Busy
  <2>2. CASE Envelope
    BY <1>0, <2>2 DEF Envelope, Attempt, Outcome, Goto, Takes, Emptied, world, descriptors,
       TypeOK, SilencedForAFailure, Busy
  <2>3. CASE ShutLoggingDown
    BY <1>0, <2>3 DEF ShutLoggingDown, Goto, world, descriptors, SilencedForAFailure, Busy
  <2>4. CASE ShutdownFails
    BY <1>0, <2>4 DEF ShutdownFails, Attempt, Outcome, Goto, Takes, Emptied, world, descriptors,
       TypeOK, SilencedForAFailure, Busy
  <2>5. QED BY <1>7, <2>1, <2>2, <2>3, <2>4
<1>8. ASSUME FlushOut \/ FlushErr
      PROVE  SilencedForAFailure'
  <2>1. CASE FlushOut
    BY <1>0, <2>1, SMTT(30) DEF FlushOut, Flush, Takes, Outcome, Goto, Emptied, world,
       descriptors, TypeOK, SilencedForAFailure, Busy
  <2>2. CASE FlushErr
    BY <1>0, <2>2, SMTT(30) DEF FlushErr, Flush, Takes, Outcome, Goto, Emptied, world,
       descriptors, TypeOK, SilencedForAFailure, Busy
  <2>3. QED BY <1>8, <2>1, <2>2
<1>9. ASSUME AnswerWhatWasRecorded \/ Rank \/ RestoreOriginalStreams \/ Exit
      PROVE  SilencedForAFailure'
  BY <1>0, <1>9 DEF AnswerWhatWasRecorded, Goto, world, descriptors, Rank, RestoreOriginalStreams,
     Exit, TypeOK, Threads, SilencedForAFailure, Busy, Pos, AfterDrain, AfterOut, AfterErr,
     AfterTally, DrainedForGood, Drained
<1>10. ASSUME TakeLine
      PROVE  SilencedForAFailure'
  BY <1>0, <1>10 DEF TakeLine, Goto, world, descriptors, SilencedForAFailure, Busy
<1>11. ASSUME World
      PROVE  SilencedForAFailure'
  <2>1. ASSUME NEW s \in Streams, ReaderLeaves(s)
        PROVE  SilencedForAFailure'
    BY <1>0, <2>1 DEF ReaderLeaves, descriptors, TypeOK, SilencedForAFailure
  <2>2. ASSUME NEW s \in Streams, DiskFills(s)
        PROVE  SilencedForAFailure'
    BY <1>0, <2>2 DEF DiskFills, Streams, descriptors, TypeOK, SilencedForAFailure, ThreadsInPlace
  <2>3. QED BY <1>11, <2>1, <2>2 DEF World
<1>12. QED
  BY <1>1, <1>2, <1>3, <1>4, <1>5, <1>6, <1>7, <1>8, <1>9, <1>10, <1>11
  DEF Next, Main, Worker, WayOut, Threads

\* Every flush on the way out empties its buffer, or leaves it to be thrown away.
LEMMA BuffersAreEmptiedKept ==
  ASSUME IInv, Next
  PROVE  BuffersAreEmptied'
<1>0. TypeOK /\ DrainedForGood /\ BuffersAreEmptied
  BY DEF IInv
<1>1. ASSUME NEW t \in Threads, Silence(t)
      PROVE  BuffersAreEmptied'
  BY <1>0, <1>1 DEF Silence, Duplicate, HasDescriptor, Goto, world, verdict, PointAtNull,
     FailToRedirect, Discard, Emptied, NothingToSilence, TypeOK, Streams, Threads,
     BuffersAreEmptied, Pos, Busy, AfterOut, AfterDrain, DrainedForGood, Drained
<1>2. ASSUME NEW t \in Threads, Answer(t)
      PROVE  BuffersAreEmptied'
  BY <1>0, <1>2 DEF Answer, LoseTheDiagnostic, Answering, Goto, world, descriptors, verdict,
     RecordTheFailure, TypeOK, Threads, BuffersAreEmptied, Pos, Busy, AfterOut, AfterErr,
     AfterTally
<1>3. ASSUME NEW t \in Threads, Line(t)
      PROVE  BuffersAreEmptied'
  BY <1>0, <1>3 DEF Line, WriteLineOut, Attempt, Goto, Emptied, world, verdict, WriteLineErr,
     Home, TypeOK, Threads, BuffersAreEmptied, Pos, Busy, AfterOut, AfterErr, AfterTally,
     AtCommand, AfterDrain, DrainedForGood, Drained
<1>4. ASSUME LeaveWithTheReader \/ RaiseTheRefusal \/ CatchTheRefusal
      PROVE  BuffersAreEmptied'
  BY <1>0, <1>4 DEF LeaveWithTheReader, Answering, Goto, world, RaiseTheRefusal, CatchTheRefusal,
     TypeOK, Shutdown, BuffersAreEmptied, Pos, Busy, AfterOut, AfterErr, AfterTally
<1>5. ASSUME SayItOnce
      PROVE  BuffersAreEmptied'
  BY <1>0, <1>5 DEF SayItOnce, Goto, Attempt, Takes, Emptied, world, descriptors, verdict, TypeOK,
     Streams, Threads, BuffersAreEmptied, Pos, Busy, AfterOut, AfterErr, AfterTally
<1>6. ASSUME Command
      PROVE  BuffersAreEmptied'
  BY <1>0, <1>6, DecisionsAreCodes DEF Command, WriteOutput, InCommand, Spend, Attempt, Outcome,
     Goto, Emptied, world, answers, verdict, BufferOutput, Buffer, ForeignDiagnostic, Diagnose,
     LogLine, DemoLine, Decide, Outranking, TypeOK, Verdicts, Shutdown, BuffersAreEmptied, Pos,
     Busy, AfterOut, AfterErr, AfterTally
<1>7. ASSUME Report \/ Envelope \/ ShutLoggingDown \/ ShutdownFails
      PROVE  BuffersAreEmptied'
  <2>1. CASE Report
    BY <1>0, <2>1 DEF Report, Attempt, Goto, Emptied, world, verdict, TypeOK, Shutdown,
       BuffersAreEmptied, Pos, Busy, AfterOut, AfterErr, AfterTally
  <2>2. CASE Envelope
    BY <1>0, <2>2 DEF Attempt, Goto, Emptied, world, verdict, Envelope, TypeOK, Shutdown,
       BuffersAreEmptied, Pos, Busy, AfterOut, AfterErr, AfterTally
  <2>3. CASE ShutLoggingDown
    BY <1>0, <2>3 DEF Goto, world, verdict, ShutLoggingDown, TypeOK, Shutdown, BuffersAreEmptied,
       Pos, Busy, AfterOut, AfterErr, AfterTally
  <2>4. CASE ShutdownFails
    BY <1>0, <2>4 DEF Attempt, Goto, Emptied, world, ShutdownFails, TypeOK, Shutdown,
       BuffersAreEmptied, Pos, Busy, AfterOut, AfterErr, AfterTally
  <2>5. QED BY <1>7, <2>1, <2>2, <2>3, <2>4
<1>8. ASSUME FlushOut \/ FlushErr
      PROVE  BuffersAreEmptied'
  BY <1>0, <1>8 DEF FlushOut, Flush, Takes, Goto, Emptied, world, descriptors, verdict, FlushErr,
     TypeOK, Streams, BuffersAreEmptied, Pos, Busy, AfterOut, AfterErr, AfterTally
<1>9. ASSUME AnswerWhatWasRecorded \/ Rank \/ RestoreOriginalStreams \/ Exit
      PROVE  BuffersAreEmptied'
  BY <1>0, <1>9 DEF AnswerWhatWasRecorded, Goto, world, verdict, Rank, Ranked,
     RestoreOriginalStreams, Streams, Exit, Shutdown, TypeOK, Threads, BuffersAreEmptied, Pos,
     Busy, AfterOut, AfterErr, AfterTally
<1>10. ASSUME TakeLine
      PROVE  BuffersAreEmptied'
  BY <1>0, <1>10 DEF TakeLine, Goto, world, descriptors, verdict, BuffersAreEmptied, Pos
<1>11. ASSUME World
      PROVE  BuffersAreEmptied'
  BY <1>0, <1>11 DEF World, ReaderLeaves, descriptors, verdict, DiskFills, BuffersAreEmptied, Pos
<1>12. QED
  BY <1>1, <1>2, <1>3, <1>4, <1>5, <1>6, <1>7, <1>8, <1>9, <1>10, <1>11
  DEF Next, Main, Worker, WayOut, Threads

\* No step drops a loss that nobody has answered, and none answers what was not lost.
LEMMA LossesAreAnsweredKept ==
  ASSUME IInv, Next
  PROVE  LossesAreAnswered'
<1>0. /\ TypeOK /\ ThreadsInPlace /\ DrainedForGood
      /\ SilencedForAFailure /\ BuffersAreEmptied /\ LossesAreAnswered
  BY DEF IInv
<1>1. ASSUME NEW t \in Threads, Silence(t)
      PROVE  LossesAreAnswered'
  <2>1. CASE Duplicate(t)
    BY <1>0, <2>1 DEF Duplicate, Goto, world, answers, verdict, LossesAreAnswered, BusyWithOutput,
       Busy, Missed, Answered, Pos, BuffersAreEmptied
  <2>2. CASE PointAtNull(t)
    BY <1>0, <2>2 DEF PointAtNull, Goto, world, answers, verdict, LossesAreAnswered,
       BusyWithOutput, Busy, Missed, Answered, Pos, BuffersAreEmptied
  <2>3. CASE FailToRedirect(t)
    BY <1>0, <2>3 DEF FailToRedirect, Goto, world, answers, verdict, LossesAreAnswered,
       BusyWithOutput, Busy, Missed, Answered, Pos, BuffersAreEmptied
  <2>4. CASE Discard(t)
    BY <1>0, <2>4 DEF Discard, Emptied, Goto, world, descriptors, answers, verdict, TypeOK,
       LossesAreAnswered, BusyWithOutput, Busy, Missed, Answered, Pos, SilencedForAFailure,
       BuffersAreEmptied
  <2>5. CASE NothingToSilence(t)
    BY <1>0, <2>5 DEF NothingToSilence, Goto, world, descriptors, answers, verdict,
       LossesAreAnswered, BusyWithOutput, Busy, Missed, Answered, Pos, BuffersAreEmptied
  <2>6. QED BY <1>1, <2>1, <2>2, <2>3, <2>4, <2>5 DEF Silence
<1>2. ASSUME NEW t \in Threads, Answer(t)
      PROVE  LossesAreAnswered'
  <2>1. CASE LoseTheDiagnostic(t)
    BY <1>0, <2>1 DEF LoseTheDiagnostic, Answering, Goto, world, descriptors, verdict, Threads,
       LossesAreAnswered, BusyWithOutput, Busy, Missed, Answered, Pos, ThreadsInPlace,
       SilencedForAFailure, BuffersAreEmptied
  <2>2. CASE RecordTheFailure(t)
    BY <1>0, <2>2 DEF RecordTheFailure, Answering, RecordsFailures, Goto, world, Threads,
       LossesAreAnswered, BusyWithOutput, Busy, Missed, Answered, Pos, AfterTally, ThreadsInPlace,
       AtCommand, AfterDrain, AfterOut, AfterErr, DrainedForGood, Drained, BuffersAreEmptied
  <2>3. QED BY <1>2, <2>1, <2>2 DEF Answer
<1>3. ASSUME NEW t \in Threads, Line(t)
      PROVE  LossesAreAnswered'
  BY <1>0, <1>3 DEF Line, WriteLineOut, Attempt, Goto, Takes, Emptied, world, descriptors,
     answers, verdict, WriteLineErr, Home, TypeOK, Streams, Threads, LossesAreAnswered,
     BusyWithOutput, Busy, Missed, Answered, Pos, AfterTally, AtCommand, AfterDrain, AfterOut,
     AfterErr, DrainedForGood, Drained, BuffersAreEmptied
<1>4. ASSUME LeaveWithTheReader \/ RaiseTheRefusal \/ CatchTheRefusal
      PROVE  LossesAreAnswered'
  <2>1. CASE LeaveWithTheReader
    BY <1>0, <2>1 DEF LeaveWithTheReader, Answering, Goto, world, TypeOK, Threads, Outranking,
       Verdicts, Undecided, LossesAreAnswered, BusyWithOutput, Busy, Missed, Answered, Pos,
       AfterTally, ThreadsInPlace, BuffersAreEmptied
  <2>2. CASE RaiseTheRefusal
    BY <1>0, <2>2 DEF Answering, Goto, world, RaiseTheRefusal, TypeOK, Threads, Outranking,
       Verdicts, Undecided, LossesAreAnswered, BusyWithOutput, Busy, Missed, Answered, Pos,
       AfterTally, ThreadsInPlace, BuffersAreEmptied
  <2>3. CASE CatchTheRefusal
    BY <1>0, <2>3 DEF Answering, Goto, world, CatchTheRefusal, TypeOK, Threads, Outranking,
       Verdicts, Undecided, LossesAreAnswered, BusyWithOutput, Busy, Missed, Answered, Pos,
       AfterTally, ThreadsInPlace, BuffersAreEmptied
  <2>4. QED BY <1>4, <2>1, <2>2, <2>3
<1>5. ASSUME SayItOnce
      PROVE  LossesAreAnswered'
  BY <1>0, <1>5 DEF SayItOnce, Goto, Attempt, Emptied, world, descriptors, verdict, TypeOK,
     Streams, LossesAreAnswered, BusyWithOutput, Busy, Missed, Answered, Pos, AfterTally,
     ThreadsInPlace, AfterDrain, AfterOut, AfterErr, BuffersAreEmptied
<1>6. ASSUME Command
      PROVE  LossesAreAnswered'
  BY <1>0, <1>6 DEF Command, WriteOutput, InCommand, Spend, Attempt, Goto, Takes, Emptied, world,
     descriptors, answers, verdict, BufferOutput, Buffer, ForeignDiagnostic, Diagnose, LogLine,
     DemoLine, Decide, TypeOK, Streams, Threads, LossesAreAnswered, BusyWithOutput, Busy, Missed,
     Answered, Pos, AfterTally, ThreadsInPlace, AtCommand, BuffersAreEmptied
<1>7. ASSUME Report \/ Envelope \/ ShutLoggingDown \/ ShutdownFails
      PROVE  LossesAreAnswered'
  BY <1>0, <1>7 DEF Report, Attempt, Goto, Takes, Emptied, world, descriptors, answers, verdict,
     Envelope, ShutLoggingDown, ShutdownFails, TypeOK, Streams, Threads, Verdicts, Undecided,
     LossesAreAnswered, BusyWithOutput, Busy, Missed, Answered, Pos, AfterTally, BuffersAreEmptied
<1>8. ASSUME FlushOut \/ FlushErr
      PROVE  LossesAreAnswered'
  BY <1>0, <1>8 DEF FlushOut, Flush, Takes, Goto, Emptied, world, descriptors, answers, verdict,
     FlushErr, TypeOK, Streams, LossesAreAnswered, BusyWithOutput, Busy, Missed, Answered, Pos,
     AfterTally, BuffersAreEmptied
<1>9. ASSUME AnswerWhatWasRecorded \/ Rank \/ RestoreOriginalStreams \/ Exit
      PROVE  LossesAreAnswered'
  BY <1>0, <1>9 DEF AnswerWhatWasRecorded, Goto, world, descriptors, verdict, Rank, Ranked,
     Outranking, answers, RestoreOriginalStreams, Streams, Exit, Takes, Shutdown, TypeOK,
     Verdicts, Undecided, LossesAreAnswered, BusyWithOutput, Busy, Missed, Answered, Pos,
     AfterTally, SilencedForAFailure, BuffersAreEmptied
<1>10. ASSUME TakeLine
      PROVE  LossesAreAnswered'
  BY <1>0, <1>10 DEF TakeLine, Goto, world, descriptors, answers, verdict, LossesAreAnswered,
     BusyWithOutput, Busy, Missed, Answered, Pos, BuffersAreEmptied
<1>11. ASSUME World
      PROVE  LossesAreAnswered'
  <2>1. ASSUME NEW s \in Streams, ReaderLeaves(s)
        PROVE  LossesAreAnswered'
    BY <1>0, <2>1 DEF ReaderLeaves, Running, Streams, descriptors, answers, verdict,
       LossesAreAnswered, BusyWithOutput, Missed, Answered, Pos, BuffersAreEmptied
  <2>2. ASSUME NEW s \in Streams, DiskFills(s)
        PROVE  LossesAreAnswered'
    BY <1>0, <2>2 DEF DiskFills, Running, Streams, descriptors, answers, verdict,
       LossesAreAnswered, BusyWithOutput, Missed, Answered, Pos, ThreadsInPlace, BuffersAreEmptied
  <2>3. QED BY <1>11, <2>1, <2>2 DEF World
<1>12. QED
  BY <1>1, <1>2, <1>3, <1>4, <1>5, <1>6, <1>7, <1>8, <1>9, <1>10, <1>11
  DEF Next, Main, Worker, WayOut, Threads

\* A refusal keeps its code through the ranking, and its sentence is not written again.
LEMMA RefusalsStandKept ==
  ASSUME IInv, Next
  PROVE  RefusalsStand'
<1>0. TypeOK /\ ThreadsInPlace /\ BuffersAreEmptied /\ RefusalsStand
  BY DEF IInv
<1>1. ASSUME NEW t \in Threads, Silence(t)
      PROVE  RefusalsStand'
  BY <1>0, <1>1 DEF Silence, Duplicate, Goto, answers, verdict, PointAtNull, FailToRedirect,
     Discard, Emptied, NothingToSilence, TypeOK, Threads, RefusalsStand
<1>2. ASSUME NEW t \in Threads, Answer(t)
      PROVE  RefusalsStand'
  BY <1>0, <1>2 DEF Answer, LoseTheDiagnostic, Answering, Goto, verdict, RecordTheFailure, TypeOK,
     Threads, RefusalsStand
<1>3. ASSUME NEW t \in Threads, Line(t)
      PROVE  RefusalsStand'
  BY <1>0, <1>3 DEF Line, WriteLineOut, Attempt, Goto, Emptied, answers, verdict, WriteLineErr,
     TypeOK, Threads, RefusalsStand
<1>4. ASSUME LeaveWithTheReader \/ RaiseTheRefusal \/ CatchTheRefusal
      PROVE  RefusalsStand'
  BY <1>0, <1>4 DEF LeaveWithTheReader, Answering, Goto, RaiseTheRefusal, CatchTheRefusal,
     answers, TypeOK, Threads, Outranking, Undecided, RefusalsStand, ThreadsInPlace, Busy,
     AtCommand
<1>5. ASSUME SayItOnce
      PROVE  RefusalsStand'
  BY <1>0, <1>5 DEF SayItOnce, Goto, Attempt, Emptied, verdict, RefusalsStand
<1>6. ASSUME Command
      PROVE  RefusalsStand'
  BY <1>0, <1>6 DEF Command, WriteOutput, InCommand, Spend, Attempt, Goto, Emptied, answers,
     verdict, BufferOutput, ForeignDiagnostic, Diagnose, LogLine, DemoLine, Decide, RefusalsStand
<1>7. ASSUME Report \/ Envelope \/ ShutLoggingDown \/ ShutdownFails
      PROVE  RefusalsStand'
  BY <1>0, <1>7 DEF Report, Attempt, Goto, Emptied, answers, verdict, Envelope, ShutLoggingDown,
     ShutdownFails, RefusalsStand
<1>8. ASSUME FlushOut \/ FlushErr
      PROVE  RefusalsStand'
  BY <1>0, <1>8 DEF FlushOut, Flush, Goto, Emptied, answers, verdict, FlushErr, RefusalsStand
<1>9. ASSUME AnswerWhatWasRecorded \/ Rank \/ RestoreOriginalStreams \/ Exit
      PROVE  RefusalsStand'
  BY <1>0, <1>9 DEF AnswerWhatWasRecorded, Goto, verdict, Rank, Ranked, answers,
     RestoreOriginalStreams, Exit, Shutdown, TypeOK, Threads, RefusalsStand, BuffersAreEmptied
<1>10. ASSUME TakeLine
      PROVE  RefusalsStand'
  BY <1>0, <1>10 DEF TakeLine, Goto, answers, verdict, RefusalsStand
<1>11. ASSUME World
      PROVE  RefusalsStand'
  BY <1>0, <1>11 DEF World, ReaderLeaves, answers, verdict, DiskFills, RefusalsStand
<1>12. QED
  BY <1>1, <1>2, <1>3, <1>4, <1>5, <1>6, <1>7, <1>8, <1>9, <1>10, <1>11
  DEF Next, Main, Worker, WayOut, Threads

\* A step that changes nothing keeps everything.
LEMMA StillInOrder ==
  ASSUME IInv, UNCHANGED vars
  PROVE  IInv'
BY DEF vars, IInv, TypeOK, ThreadsInPlace, DrainedForGood, LockHoldsADuplicate,
       SilencedForAFailure, BuffersAreEmptied, LossesAreAnswered, RefusalsStand, Pos, Drained,
       BusyWithOutput, Answered, Missed

-----------------------------------------------------------------------------
(* The theorems                                                            *)

\* The invariant gives every stream back.
LEMMA OrderGivesStreamsBack == IInv => StreamsAreGivenBack
BY DEF IInv, StreamsAreGivenBack, NothingLeftForTheInterpreter, OnlyAFailedStreamIsSilenced,
       DuplicatesAreAccountedFor, LockHoldsADuplicate, SilencedForAFailure, BuffersAreEmptied,
       Threads, Nobody, Exited

\* The invariant makes the code true of the output: at the exit nobody is left who could
\* still answer a loss, so a verdict that stands has lost nothing.
LEMMA OrderMakesTheCodeTrue == IInv => CodeIsTrueOfTheOutput
<1> SUFFICES ASSUME IInv PROVE CodeIsTrueOfTheOutput
  OBVIOUS
<1>1. VerdictWasDelivered
  <2> SUFFICES ASSUME Exited, code \in Verdicts, lost PROVE FALSE
    BY DEF VerdictWasDelivered
  <2>1. Pos = "exited" /\ pc["main"] = "exited"
    BY DEF Exited, Pos, Busy
  <2>2. ~BusyWithOutput
    BY <2>1 DEF IInv, DrainedForGood, Drained, BusyWithOutput, Threads, Busy, AfterDrain,
                AfterOut, AfterErr, AfterTally
  <2>3. ~Answered
    BY <2>1 DEF IInv, LossesAreAnswered, Answered, AfterTally
  <2>4. QED
    BY <2>2, <2>3 DEF IInv, LossesAreAnswered
<1>2. RefusalStands
  BY DEF IInv, RefusalStands, RefusalsStand, BuffersAreEmptied
<1>3. OnlyALossOverrules
  BY DEF IInv, OnlyALossOverrules, LossesAreAnswered, Exited
<1>4. RefusalIsSaidOnce
  BY DEF IInv, RefusalIsSaidOnce, RefusalsStand, Exited
<1>5. QED
  BY <1>1, <1>2, <1>3, <1>4 DEF CodeIsTrueOfTheOutput

\* Every reachable state satisfies the invariant.
LEMMA InOrder == Spec => []IInv
<1>1. Init => IInv
  BY StartsInOrder
<1>2. IInv /\ [Next]_vars => IInv'
  <2> SUFFICES ASSUME IInv, [Next]_vars PROVE IInv'
    OBVIOUS
  <2>1. CASE Next
    BY <2>1, TypesKept, ThreadsInPlaceKept, DrainedForGoodKept, LockHoldsADuplicateKept,
       SilencedForAFailureKept, BuffersAreEmptiedKept, LossesAreAnsweredKept, RefusalsStandKept
       DEF IInv
  <2>2. CASE UNCHANGED vars
    BY <2>2, StillInOrder
  <2>3. QED BY <2>1, <2>2
<1>3. QED
  BY <1>1, <1>2, PTL DEF Spec

\* However the two threads interleave and whenever a stream fails, every duplicated
\* descriptor is closed once and put back, only a failed stream was silenced, and nothing
\* is left to the interpreter's own flush while the null device opens.
THEOREM EveryStreamIsGivenBack == Spec => []StreamsAreGivenBack
BY InOrder, OrderGivesStreamsBack, PTL

\* Whichever thread lost output and however late, the code a run leaves with says so, a
\* refusal the command decided on stands, and it is said once.
THEOREM TheCodeIsTrue == Spec => []CodeIsTrueOfTheOutput
BY InOrder, OrderMakesTheCodeTrue, PTL
=============================================================================
