-------------------------- MODULE StandardStreams --------------------------
(***************************************************************************)
(* The last thing a run owes its caller is an exit code that is true of    *)
(* what was delivered.  Two threads write: the main thread, which runs the *)
(* command, and the logging worker, which empties a queue onto the         *)
(* console.  A reader may leave, a disk may fill, and a stream may be      *)
(* missing from the start.  A stream that failed is pointed at the null    *)
(* device, and given back when the run is over.                            *)
(***************************************************************************)
EXTENDS Naturals, FiniteSets

CONSTANTS
  Console,    \* the streams log lines go to: LOG_CONSOLE_STREAM
  Decisions,  \* the codes a command may decide to leave with
  MaxWrites,  \* bound: writes to standard output
  MaxLines,   \* bound: log lines
  MaxNotes    \* bound: diagnostics of a command

Streams == {"out", "err"}
Threads == {"main", "worker"}
Nobody  == "nobody"

\* Whoever was reading, these hold; any other code speaks of the output.
Outranking == {2, 13, 22, 70, 74, 78}
Verdicts == {0, 1}
Undecided == 999
Shutdown == 120   \* what the interpreter leaves when its own flush fails

ASSUME ConsoleIsStreams == Console \subseteq Streams
ASSUME BoundsAreNat == {MaxWrites, MaxLines, MaxNotes} \subseteq Nat
ASSUME DecisionsAreCodes == Decisions \subseteq Outranking \cup Verdicts \cup {130}

VARIABLES
  dest,        \* what is behind each stream's own descriptor
  onePipe,     \* 2>&1: both streams are one pipe
  exhausted,   \* no descriptor is left to open the null device with
  pending,     \* whether a stream's buffer holds bytes
  redirected,  \* streams pointed at the null device
  copies,      \* open duplicates of each stream's own descriptor
  lock,        \* who holds _REDIRECTING
  pc, job,     \* where each thread is, and the failed write it answers
  queue,       \* log lines not yet written
  recorded,    \* _RECORDED_STANDARD_OUTPUT_FAILURES
  said,        \* _STANDARD_OUTPUT_FAILURE_SAID
  sentences,   \* history: how often that sentence was written
  outcomes,    \* what the final flush came to
  decided,     \* history: the code the command chose
  code,        \* the code as it stands
  lost,        \* history: standard output somebody will not get
  left         \* bounds: writes, lines and notes still allowed

world == <<dest, onePipe, exhausted>>
descriptors == <<redirected, copies, lock>>
answers == <<recorded, said, sentences, outcomes>>
verdict == <<decided, code>>
vars == <<dest, onePipe, exhausted, pending, redirected, copies, lock, pc, job, queue,
          recorded, said, sentences, outcomes, decided, code, lost, left>>

-----------------------------------------------------------------------------
(* Writing                                                                 *)

Goto(t, label) == pc' = [pc EXCEPT ![t] = label]

\* Once the descriptor is the null device's, a flush always succeeds.
Takes(s) == s \in redirected \/ dest[s] = "read"
Outcome(s) == IF dest[s] = "left" THEN "left" ELSE "refused"

\* The buffer of s is emptied, into whatever the descriptor now names.
Emptied(s, written) ==
  /\ pending' = [pending EXCEPT ![s] = FALSE]
  /\ lost' = (lost \/ (s = "out" /\ s \in redirected /\ (written \/ pending[s])))

\* A write and its flush. `how` says who answers should it fail.
Attempt(t, s, how, next) ==
  LET fails == job' = [job EXCEPT ![t] =
                  [stream |-> s, how |-> how, next |-> next,
                   outcome |-> IF dest[s] = "none" THEN "refused" ELSE Outcome(s)]]
  IN \/ /\ dest[s] = "none" /\ s = "err"       \* the stand-in keeps nothing
        /\ Goto(t, next) /\ UNCHANGED <<pending, lost, job>>
     \/ /\ dest[s] = "none" /\ s = "out"       \* the stand-in refuses at once
        /\ fails /\ lost' = TRUE /\ Goto(t, "met") /\ UNCHANGED pending
     \/ /\ dest[s] # "none" /\ Takes(s)
        /\ Emptied(s, TRUE) /\ Goto(t, next) /\ UNCHANGED job
     \/ /\ dest[s] # "none" /\ ~Takes(s)
        /\ fails /\ pending' = [pending EXCEPT ![s] = TRUE]
        /\ Goto(t, "met") /\ UNCHANGED lost

\* Text that fits the buffer touches nothing behind it.
Buffer(s) ==
  /\ dest[s] # "none"
  /\ pending' = [pending EXCEPT ![s] = TRUE]

-----------------------------------------------------------------------------
(* Silencing a failed stream: _stop_writing_to                             *)

HasDescriptor(s) == dest[s] # "none"

SlipRedirectUnlocked(t) == job[t].stream \notin redirected

\* What was redirected already is left alone, and not flushed again.
MayRedirect(t) == lock = Nobody /\ job[t].stream \notin redirected

Duplicate(t) ==
  /\ pc[t] = "met" /\ HasDescriptor(job[t].stream) /\ MayRedirect(t)
  /\ lock' = t
  /\ copies' = [copies EXCEPT ![job[t].stream] = @ + 1]
  /\ Goto(t, "duplicated")
  /\ UNCHANGED <<world, pending, redirected, job, queue, answers, verdict, lost, left>>

SlipPointStdoutAtNull(t) ==
  /\ pc[t] = "duplicated" /\ ~exhausted
  /\ redirected' = redirected \cup {"out"}
  /\ lock' = Nobody
  /\ Goto(t, "silenced")
  /\ UNCHANGED <<world, pending, copies, job, queue, answers, verdict, lost, left>>

PointAtNull(t) ==
  /\ pc[t] = "duplicated" /\ ~exhausted
  /\ redirected' = redirected \cup {job[t].stream}
  /\ lock' = Nobody
  /\ Goto(t, "silenced")
  /\ UNCHANGED <<world, pending, copies, job, queue, answers, verdict, lost, left>>

SlipLeaveTheDuplicate(t) ==
  /\ pc[t] = "duplicated" /\ exhausted
  /\ lock' = Nobody
  /\ Goto(t, "answer")
  /\ UNCHANGED <<world, pending, redirected, copies, job, queue, answers, verdict, lost, left>>

\* The null device does not open: the duplicate is closed again.
FailToRedirect(t) ==
  /\ pc[t] = "duplicated" /\ exhausted
  /\ copies' = [copies EXCEPT ![job[t].stream] = @ - 1]
  /\ lock' = Nobody
  /\ Goto(t, "answer")
  /\ UNCHANGED <<world, pending, redirected, job, queue, answers, verdict, lost, left>>

SlipKeepTheBuffer(t) ==
  /\ pc[t] = "silenced"
  /\ Goto(t, "answer")
  /\ UNCHANGED <<world, pending, descriptors, job, queue, answers, verdict, lost, left>>

Discard(t) ==
  /\ pc[t] = "silenced"
  /\ Emptied(job[t].stream, FALSE)
  /\ Goto(t, "answer")
  /\ UNCHANGED <<world, descriptors, job, queue, answers, verdict, left>>

NothingToSilence(t) ==
  /\ pc[t] = "met"
  /\ \/ ~HasDescriptor(job[t].stream)
     \/ lock = Nobody /\ job[t].stream \in redirected
  /\ Goto(t, "answer")
  /\ UNCHANGED <<world, pending, descriptors, job, queue, answers, verdict, lost, left>>

-----------------------------------------------------------------------------
(* Answering a failed write                                                *)

Answering(t) == pc[t] = "answer"

SlipCountTheDiagnostic(t) ==
  /\ Answering(t) /\ job[t].stream = "err"
  /\ Goto(t, job[t].next)
  /\ outcomes' = IF job[t].how = "final" THEN outcomes \cup {job[t].outcome} ELSE outcomes
  /\ UNCHANGED <<world, pending, descriptors, job, queue, recorded, said, sentences,
                 verdict, lost, left>>

\* Standard error never carries the output: the diagnostic is lost, no more.
LoseTheDiagnostic(t) ==
  /\ Answering(t) /\ job[t].stream = "err"
  /\ Goto(t, job[t].next)
  /\ outcomes' = IF job[t].how = "final" /\ job[t].outcome = "left"
                   THEN outcomes \cup {"left"} ELSE outcomes
  /\ UNCHANGED <<world, pending, descriptors, job, queue, recorded, said, sentences,
                 verdict, lost, left>>

\* A raise on the worker would end that thread only, and one into the
\* logging library would be swallowed.
RecordsFailures(t) == t = "worker" \/ job[t].how = "console"

SlipRaiseOnTheWorker(t) ==
  /\ t = "main" /\ Answering(t) /\ job[t].stream = "out" /\ RecordsFailures(t)
  /\ recorded' = recorded \cup {job[t].outcome}
  /\ Goto(t, job[t].next)
  /\ UNCHANGED <<world, pending, descriptors, job, queue, said, sentences, outcomes,
                 verdict, lost, left>>

RecordTheFailure(t) ==
  /\ Answering(t) /\ job[t].stream = "out" /\ RecordsFailures(t)
  /\ recorded' = recorded \cup {job[t].outcome}
  /\ Goto(t, job[t].next)
  /\ UNCHANGED <<world, pending, descriptors, job, queue, said, sentences, outcomes,
                 verdict, lost, left>>

\* The reader left: SystemExit(141) ends the command, unless the write was a
\* diagnostic about a code already decided.
LeaveWithTheReader ==
  /\ Answering("main") /\ job["main"].stream = "out" /\ job["main"].outcome = "left"
  /\ \/ /\ job["main"].how = "output" /\ code' = 141
        /\ Goto("main", "shutdown") /\ UNCHANGED outcomes
     \/ /\ job["main"].how = "envelope"
        /\ Goto("main", job["main"].next) /\ UNCHANGED <<code, outcomes>>
     \/ /\ job["main"].how = "final" /\ outcomes' = outcomes \cup {"left"}
        /\ Goto("main", job["main"].next) /\ UNCHANGED code
  /\ UNCHANGED <<world, pending, descriptors, job, queue, recorded, said, sentences,
                 decided, lost, left>>

\* The destination refused: said on standard error, and 74 where the command
\* was still writing.
RaiseTheRefusal ==
  /\ Answering("main") /\ job["main"].stream = "out" /\ job["main"].outcome = "refused"
  /\ \/ /\ job["main"].how = "output" /\ code' = 74
        /\ job' = [job EXCEPT !["main"].next = "shutdown"] /\ UNCHANGED outcomes
     \/ job["main"].how = "envelope" /\ UNCHANGED <<code, job, outcomes>>
     \/ /\ job["main"].how = "final" /\ outcomes' = outcomes \cup {"refused"}
        /\ UNCHANGED <<code, job>>
  /\ Goto("main", "say")
  /\ UNCHANGED <<world, pending, descriptors, queue, recorded, said, sentences,
                 decided, lost, left>>

\* A capture for standard output: the command names the destination itself.
CatchTheRefusal ==
  /\ Answering("main") /\ job["main"].stream = "out"
  /\ job["main"].outcome = "refused" /\ job["main"].how = "output"
  /\ dest["out"] # "none"
  /\ decided' = 74 /\ code' = 74
  /\ Goto("main", "report")
  /\ UNCHANGED <<world, pending, descriptors, job, queue, answers, lost, left>>

Drained == queue = 0 /\ pc["worker"] = "idle"

SlipSayItAgain ==
  /\ pc["main"] = "say" /\ Drained
  /\ said' = TRUE /\ sentences' = sentences + 1
  /\ Attempt("main", "err", "diagnostic", job["main"].next)
  /\ UNCHANGED <<world, descriptors, queue, recorded, outcomes, verdict, left>>

SayItOnce ==
  /\ pc["main"] = "say"
  /\ \/ /\ said /\ Goto("main", job["main"].next)
        /\ UNCHANGED <<said, sentences, pending, lost, job>>
     \/ /\ ~said /\ Drained
        /\ said' = TRUE /\ sentences' = sentences + 1
        /\ Attempt("main", "err", "diagnostic", job["main"].next)
  /\ UNCHANGED <<world, descriptors, queue, recorded, outcomes, verdict, left>>

-----------------------------------------------------------------------------
(* The logging console, on the worker or, for the demo, on the main thread *)

Home(t) == IF t = "main" THEN "command" ELSE "idle"

WriteLineOut(t) ==
  /\ pc[t] = "line"
  /\ IF "out" \in Console
       THEN Attempt(t, "out", "console", "lineErr")
       ELSE Goto(t, "lineErr") /\ UNCHANGED <<pending, lost, job>>
  /\ UNCHANGED <<world, descriptors, queue, answers, verdict, left>>

\* The second half of a tee is written whatever became of the first.
WriteLineErr(t) ==
  /\ pc[t] = "lineErr"
  /\ IF "err" \in Console
       THEN Attempt(t, "err", "console", Home(t))
       ELSE Goto(t, Home(t)) /\ UNCHANGED <<pending, lost, job>>
  /\ UNCHANGED <<world, descriptors, queue, answers, verdict, left>>

TakeLine ==
  /\ pc["worker"] = "idle" /\ queue > 0
  /\ queue' = queue - 1 /\ Goto("worker", "line")
  /\ UNCHANGED <<world, pending, descriptors, job, answers, verdict, lost, left>>

-----------------------------------------------------------------------------
(* The command                                                             *)

InCommand == pc["main"] = "command"
Spend(k) == left[k] > 0 /\ left' = [left EXCEPT ![k] = @ - 1]

WriteOutput ==
  /\ InCommand /\ Spend("writes") /\ Attempt("main", "out", "output", "command")
  /\ UNCHANGED <<world, descriptors, queue, answers, verdict>>

BufferOutput ==
  /\ InCommand /\ Spend("writes") /\ Buffer("out")
  /\ UNCHANGED <<world, descriptors, pc, job, queue, answers, verdict, lost>>

\* A library that writes to standard error itself, and swallows the failure.
ForeignDiagnostic ==
  /\ InCommand /\ Spend("notes") /\ Buffer("err")
  /\ UNCHANGED <<world, descriptors, pc, job, queue, answers, verdict, lost>>

\* The log lines queued so far are delivered before a diagnostic.
Diagnose ==
  /\ InCommand /\ Spend("notes") /\ Drained
  /\ Attempt("main", "err", "diagnostic", "command")
  /\ UNCHANGED <<world, descriptors, queue, answers, verdict>>

LogLine ==
  /\ InCommand /\ Spend("lines")
  /\ queue' = queue + 1
  /\ UNCHANGED <<world, pending, descriptors, pc, job, answers, verdict, lost>>

DemoLine ==
  /\ InCommand /\ Spend("lines") /\ Drained
  /\ Goto("main", "line")
  /\ UNCHANGED <<world, pending, descriptors, job, queue, answers, verdict, lost>>

Decide(c) ==
  /\ InCommand
  /\ decided' = c /\ code' = c
  /\ Goto("main", IF c \in Outranking THEN "report" ELSE "shutdown")
  /\ UNCHANGED <<world, pending, descriptors, job, queue, answers, lost, left>>

\* The sentence on standard error, then the JSON envelope where one was asked for.
Report ==
  /\ pc["main"] = "report" /\ Drained
  /\ \E next \in {"envelope", "shutdown"} : Attempt("main", "err", "diagnostic", next)
  /\ UNCHANGED <<world, descriptors, queue, answers, verdict, left>>

Envelope ==
  /\ pc["main"] = "envelope"
  /\ Attempt("main", "out", "envelope", "shutdown")
  /\ UNCHANGED <<world, descriptors, queue, answers, verdict, left>>

-----------------------------------------------------------------------------
(* The way out: main()                                                     *)

ShutLoggingDown ==
  /\ pc["main"] = "shutdown" /\ Drained
  /\ Goto("main", "flushOut")
  /\ UNCHANGED <<world, pending, descriptors, job, queue, answers, verdict, lost, left>>

\* The drain can raise; that is a crash, reported as one.
ShutdownFails ==
  /\ pc["main"] = "shutdown" /\ Drained
  /\ decided' = 70 /\ code' = 70
  /\ Attempt("main", "err", "diagnostic", "flushOut")
  /\ UNCHANGED <<world, descriptors, queue, answers, left>>

Flush(s, here, next) ==
  /\ pc["main"] = here
  /\ IF pending[s] /\ ~Takes(s)
       THEN /\ job' = [job EXCEPT !["main"] = [stream |-> s, how |-> "final",
                                               next |-> next, outcome |-> Outcome(s)]]
            /\ Goto("main", "met") /\ UNCHANGED <<pending, lost>>
       ELSE Emptied(s, FALSE) /\ Goto("main", next) /\ UNCHANGED job
  /\ UNCHANGED <<world, descriptors, queue, answers, verdict, left>>

FlushOut == Flush("out", "flushOut", "flushErr")
FlushErr == Flush("err", "flushErr", "tally")

SlipForgetTheRecord ==
  /\ pc["main"] = "tally"
  /\ Goto("main", "rank")
  /\ UNCHANGED <<world, pending, descriptors, job, queue, answers, verdict, lost, left>>

AnswerWhatWasRecorded ==
  /\ pc["main"] = "tally"
  /\ recorded' = {} /\ outcomes' = outcomes \cup recorded
  /\ job' = [job EXCEPT !["main"].next = "rank"]
  /\ Goto("main", IF "refused" \in recorded THEN "say" ELSE "rank")
  /\ UNCHANGED <<world, pending, descriptors, queue, said, sentences, verdict, lost, left>>

SlipYieldAlways(c, came) ==
  IF came = {} THEN c ELSE IF "refused" \in came THEN 74 ELSE 141

Ranked(c, came) ==
  IF came = {} \/ c \in Outranking THEN c
  ELSE IF "refused" \in came THEN 74 ELSE 141

Rank ==
  /\ pc["main"] = "rank"
  /\ code' = Ranked(code, outcomes)
  /\ Goto("main", "restore")
  /\ UNCHANGED <<world, pending, descriptors, job, queue, answers, decided, lost, left>>

SlipCloseEveryCopy ==
  /\ pc["main"] = "restore" /\ lock = Nobody
  /\ redirected' = {}
  /\ copies' = [s \in Streams |-> copies[s] - 1]
  /\ recorded' = {} /\ said' = FALSE
  /\ Goto("main", "exit")
  /\ UNCHANGED <<world, pending, lock, job, queue, sentences, outcomes, verdict, lost, left>>

RestoreOriginalStreams ==
  /\ pc["main"] = "restore" /\ lock = Nobody
  /\ redirected' = {}
  /\ copies' = [s \in Streams |-> copies[s] - (IF s \in redirected THEN 1 ELSE 0)]
  /\ recorded' = {} /\ said' = FALSE
  /\ Goto("main", "exit")
  /\ UNCHANGED <<world, pending, lock, job, queue, sentences, outcomes, verdict, lost, left>>

\* The interpreter flushes both streams once more, outside every handler.
Exit ==
  /\ pc["main"] = "exit"
  /\ code' = IF \E s \in Streams : pending[s] /\ ~Takes(s) THEN Shutdown ELSE code
  /\ lost' = (lost \/ (pending["out"] /\ ~Takes("out")))
  /\ Goto("main", "exited")
  /\ UNCHANGED <<world, pending, descriptors, job, queue, answers, decided, left>>

-----------------------------------------------------------------------------
(* The world                                                               *)

Running == pc["main"] # "exited"

ReaderLeaves(s) ==
  /\ Running /\ dest[s] = "read"
  /\ dest' = [d \in Streams |-> IF d = s \/ onePipe THEN "left" ELSE dest[d]]
  /\ UNCHANGED <<onePipe, exhausted, pending, descriptors, pc, job, queue, answers, verdict, lost, left>>

DiskFills(s) ==
  /\ Running /\ dest[s] = "read"
  /\ dest' = [d \in Streams |-> IF d = s \/ onePipe THEN "full" ELSE dest[d]]
  /\ UNCHANGED <<onePipe, exhausted, pending, descriptors, pc, job, queue, answers, verdict, lost, left>>

-----------------------------------------------------------------------------

Init ==
  /\ dest \in [Streams -> {"read", "none"}]
  /\ onePipe \in BOOLEAN /\ (onePipe => dest["out"] = dest["err"])
  /\ exhausted \in BOOLEAN
  /\ pending = [s \in Streams |-> FALSE]
  /\ redirected = {} /\ copies = [s \in Streams |-> 0] /\ lock = Nobody
  /\ pc = [t \in Threads |-> Home(t)]
  /\ job = [t \in Threads |-> [stream |-> "err", how |-> "diagnostic",
                               next |-> Home(t), outcome |-> "left"]]
  /\ queue = 0
  /\ recorded = {} /\ said = FALSE /\ sentences = 0 /\ outcomes = {}
  /\ decided = Undecided /\ code = Undecided
  /\ lost = FALSE
  /\ left = [writes |-> MaxWrites, lines |-> MaxLines, notes |-> MaxNotes]

Silence(t) ==
  Duplicate(t) \/ PointAtNull(t) \/ FailToRedirect(t) \/ Discard(t) \/ NothingToSilence(t)
Answer(t) == LoseTheDiagnostic(t) \/ RecordTheFailure(t)
Line(t) == WriteLineOut(t) \/ WriteLineErr(t)

Command ==
  \/ WriteOutput \/ BufferOutput \/ ForeignDiagnostic \/ Diagnose \/ LogLine \/ DemoLine
  \/ \E c \in Decisions : Decide(c)

WayOut ==
  \/ Report \/ Envelope \/ ShutLoggingDown \/ ShutdownFails \/ FlushOut \/ FlushErr
  \/ AnswerWhatWasRecorded \/ Rank \/ RestoreOriginalStreams \/ Exit

Main ==
  \/ Silence("main") \/ Answer("main") \/ Line("main")
  \/ LeaveWithTheReader \/ RaiseTheRefusal \/ CatchTheRefusal \/ SayItOnce
  \/ Command \/ WayOut

Worker == Silence("worker") \/ Answer("worker") \/ Line("worker") \/ TakeLine

World == \E s \in Streams : ReaderLeaves(s) \/ DiskFills(s)

Next == Main \/ Worker \/ World

\* Neither thread blocks on a stream, and a command ends: the library and the
\* operating system schedule both.
Fairness == WF_vars(Main) /\ WF_vars(Worker)

Spec == Init /\ [][Next]_vars /\ Fairness

-----------------------------------------------------------------------------
(* What holds                                                              *)

Labels == {"command", "idle", "line", "lineErr", "met", "duplicated", "silenced",
           "answer", "say", "report", "envelope", "shutdown", "flushOut", "flushErr",
           "tally", "rank", "restore", "exit", "exited"}
Codes == Outranking \cup Verdicts \cup {130, 141, Undecided}
Outcomes == {"left", "refused"}

\* Every variable keeps its type.
TypeOK ==
  /\ dest \in [Streams -> {"read", "left", "full", "none"}] /\ {onePipe, exhausted} \subseteq BOOLEAN
  /\ pending \in [Streams -> BOOLEAN]
  /\ redirected \subseteq Streams /\ copies \in [Streams -> Nat]
  /\ lock \in Threads \cup {Nobody}
  /\ pc \in [Threads -> Labels]
  /\ job \in [Threads -> [stream : Streams, next : Labels, outcome : Outcomes,
                          how : {"output", "envelope", "console", "diagnostic", "final"}]]
  /\ queue \in Nat /\ recorded \subseteq Outcomes /\ outcomes \subseteq Outcomes
  /\ said \in BOOLEAN /\ sentences \in Nat
  /\ decided \in Codes /\ code \in Codes \cup {Shutdown}
  /\ lost \in BOOLEAN /\ left \in [{"writes", "lines", "notes"} -> Nat]

Exited == pc["main"] = "exited"

\* A run that leaves 0 or 1, its answer about the machine, has delivered all it
\* wrote to standard output, whichever thread wrote it and whenever it failed.
VerdictWasDelivered == Exited /\ code \in Verdicts => ~lost

\* A code that is true whoever was reading is what the run leaves with.
RefusalStands ==
  Exited /\ decided \in Outranking => code = decided \/ (exhausted /\ code = Shutdown)

\* A standard error that refuses never changes what the run decided: only
\* output that was lost does, or a reader who left.
OnlyALossOverrules ==
  Exited /\ decided # Undecided /\ code \notin {decided, Shutdown} => lost \/ dest["err"] = "left"

\* No failing flush is left for the interpreter, which would answer 120, as
\* long as the null device can be opened.
NothingLeftForTheInterpreter == code = Shutdown => exhausted

\* The null device replaces a stream that failed, never the other one.
OnlyAFailedStreamIsSilenced == \A s \in redirected : dest[s] \in {"left", "full"}

\* Two threads that meet one failed stream duplicate its descriptor once, and
\* the run gives every descriptor back.
DuplicatesAreAccountedFor ==
  /\ lock = Nobody => \A s \in Streams : copies[s] = IF s \in redirected THEN 1 ELSE 0
  /\ Exited => redirected = {}

\* A destination that refused is named in one sentence, however many writes it
\* refused and on whichever thread, and always where its code is the answer.
RefusalIsSaidOnce ==
  /\ sentences <= 1
  /\ Exited /\ code = 74 /\ decided # 74 => sentences = 1

\* Whatever fails, and whoever meets it, the run ends.
RunEnds == <>Exited

\* What a run leaves with is true of what was delivered: no verdict over lost
\* output, no refusal given up for a reader, nothing overruled but by a loss, and a
\* loss said once.
CodeIsTrueOfTheOutput ==
  VerdictWasDelivered /\ RefusalStands /\ OnlyALossOverrules /\ RefusalIsSaidOnce

\* The process is left as it was found: nothing buffered for the interpreter, no
\* stream silenced but a failed one, every descriptor accounted for.
StreamsAreGivenBack ==
  TypeOK /\ NothingLeftForTheInterpreter /\ OnlyAFailedStreamIsSilenced /\ DuplicatesAreAccountedFor
=============================================================================
