-------------------------- MODULE InteractiveStart --------------------------
(***************************************************************************)
(* From the command word to the interactive view, on one terminal.  A line *)
(* is drawn while the program imports itself and reads the machine; it     *)
(* gives way to the offer of a shortcut, to the question of elevation, to  *)
(* an elevated copy of the program that runs in the same terminal, and to  *)
(* the view.  Ctrl+C may land before any step.                             *)
(***************************************************************************)
EXTENDS ExitCodes, FiniteSets

CONSTANTS
  MaxInterrupts,  \* bound: Ctrl+C pressed during the whole session
  Signal          \* the number of a signal that may end the copy

ASSUME SignalIsANumber == Signal \in 1..127
ASSUME MaxInterruptsIsNat == MaxInterrupts \in Nat

\* The person's own run, and the elevated copy it may start.
Runs == {"first", "copy"}

\* The commands that open the view, and the others; those named here are
\* followed further in modules of their own.
Views == {"default", "tui"}
Commands == Views \cup {"other", "install-shortcut", "config-deploy"}

Unset == 999
PageCodes == {ExitCode[e] : e \in {"SUCCESS", "GENERAL_ERROR", "PERMISSION_DENIED", "INVALID_ARGUMENT",
                                    "IO_ERROR", "CONFIG_ERROR"}}
\* What a run leaves with is a number the shell can have.
Codes == PageCodes \cup {ExitCode.USAGE_ERROR, ExitCode.SIGNAL_INT, ForABug, Unset, 128 + Signal}

VARIABLES
  world,       \* the command line and the terminal; the same for both runs
  elevated,    \* whether each run has the rights it would ask for
  settings,    \* display.auto_elevate and offer_desktop_shortcut as each run reads them
  at,          \* where each run is
  step, next,  \* the step of start, pause or stop it is in, and where that returns to
  live,        \* StartupNotice._live is set
  stopped,     \* StartupNotice._stopped
  line,        \* what of the line stands on the terminal
  held,        \* whether Ctrl+C is held, and whether one has come
  interrupts,  \* bound: presses left
  asked,       \* history: how often each run asked for elevation
  offered,     \* history: how often each run offered the shortcut
  unheld,      \* history: Ctrl+C fell where erasing was due and not yet held
  code         \* what each run leaves with

startVars == <<world, elevated, settings, at, step, next, live, stopped, line, held,
               interrupts, asked, offered, unheld, code>>
given == <<world, elevated, settings, interrupts>>
asks == <<asked, offered, code>>
notice == <<live, stopped, line, held, unheld>>

Idle == "idle"
Drawing == {"note", "draw", "drawn"}
Erasing == {"erase", "erased"}
Steps == {Idle, "resume", "holdToDraw", "forget", "holdToErase", "release"} \cup Drawing \cup Erasing

\* Where somebody other than the line has the terminal.
Taken == {"offering", "asking", "relaunched", "view", "page"}
\* pause() returns to the first two, stop() to the others.
PausedFor == {"offering", "asking"}
StoppedFor == {"beforePage", "page", "view", "over"}
Places == Taken \cup StoppedFor \cup
          {"absent", "entry", "starting", "importing", "parsed", "beforeOffer", "beforeAsking",
           "resuming", "reading", "beforeView", "finally"}

StartTypeOK ==
  /\ world \in [command : Commands, drawn : BOOLEAN, terminal : BOOLEAN,
                refused : BOOLEAN, noElevate : BOOLEAN, askable : BOOLEAN]
  /\ elevated \in [Runs -> BOOLEAN]
  /\ settings \in [Runs -> [auto : BOOLEAN, offer : BOOLEAN]]
  /\ at \in [Runs -> Places]
  /\ step \in [Runs -> Steps]
  /\ next \in [Runs -> Places]
  /\ live \in [Runs -> BOOLEAN] /\ stopped \in [Runs -> BOOLEAN]
  /\ line \in [Runs -> {"off", "half", "on"}]
  /\ held \in [Runs -> {"no", "held", "came"}]
  /\ interrupts \in 0..MaxInterrupts
  /\ asked \in [Runs -> Nat] /\ offered \in [Runs -> Nat]
  /\ unheld \in [Runs -> BOOLEAN]
  /\ code \in [Runs -> Codes \cup {0 - Signal}] /\ code["first"] \in Codes

-----------------------------------------------------------------------------
(* The notice: StartupNotice, and NoStartupNotice where nothing is drawn   *)

Goto(r, place) == at' = [at EXCEPT ![r] = place]

Call(r, what, place) ==
  /\ step' = [step EXCEPT ![r] = what]
  /\ next' = [next EXCEPT ![r] = place]

Proceed(r, what) ==
  /\ step' = [step EXCEPT ![r] = what]
  /\ UNCHANGED <<at, next, given, asks>>

\* The call returns; only a stop that came to its end is final.
Return(r) ==
  /\ step' = [step EXCEPT ![r] = Idle]
  /\ Goto(r, next[r])
  /\ stopped' = [stopped EXCEPT ![r] = @ \/ next[r] \in StoppedFor]
  /\ UNCHANGED <<next, given, asks>>

NothingToDraw(r) == ~world.drawn \/ stopped[r] \/ live[r]

Resume(r) ==
  /\ step[r] = "resume"
  /\ \/ /\ NothingToDraw(r) /\ Return(r)
        /\ UNCHANGED <<live, line, held, unheld>>
     \/ ~NothingToDraw(r) /\ Proceed(r, "holdToDraw") /\ UNCHANGED notice

\* pause(): what is drawn is taken out of _live before Ctrl+C is held.
Forget(r) ==
  /\ step[r] = "forget"
  /\ \/ /\ ~live[r] /\ Return(r)
        /\ UNCHANGED <<live, line, held, unheld>>
     \/ /\ live[r] /\ live' = [live EXCEPT ![r] = FALSE]
        /\ Proceed(r, "holdToErase")
        /\ UNCHANGED <<stopped, line, held, unheld>>

SlipHoldOnlyToErase(r) ==
  /\ step[r] \in {"holdToDraw", "holdToErase"}
  /\ held' = [held EXCEPT ![r] = IF step[r] = "holdToErase" THEN "held" ELSE @]
  /\ Proceed(r, IF step[r] = "holdToDraw" THEN "note" ELSE "erase")
  /\ UNCHANGED <<live, stopped, line, unheld>>

HoldCtrlC(r) ==
  /\ step[r] \in {"holdToDraw", "holdToErase"}
  /\ held' = [held EXCEPT ![r] = "held"]
  /\ Proceed(r, IF step[r] = "holdToDraw" THEN "note" ELSE "erase")
  /\ UNCHANGED <<live, stopped, line, unheld>>

SlipNoteNothing(r) ==
  /\ step[r] = "note"
  /\ Proceed(r, "draw") /\ UNCHANGED notice

NoteTheLine(r) ==
  /\ step[r] = "note"
  /\ live' = [live EXCEPT ![r] = TRUE]
  /\ Proceed(r, "draw")
  /\ UNCHANGED <<stopped, line, held, unheld>>

\* A display starts, and stops, in several steps of its own.
Draw(r) ==
  /\ step[r] \in {"draw", "drawn"}
  /\ line' = [line EXCEPT ![r] = IF step[r] = "draw" THEN "half" ELSE "on"]
  /\ Proceed(r, IF step[r] = "draw" THEN "drawn" ELSE "release")
  /\ UNCHANGED <<live, stopped, held, unheld>>

Erase(r) ==
  /\ step[r] \in Erasing
  /\ line' = [line EXCEPT ![r] = IF step[r] = "erase" THEN "half" ELSE "off"]
  /\ Proceed(r, IF step[r] = "erase" THEN "erased" ELSE "release")
  /\ UNCHANGED <<live, stopped, held, unheld>>

-----------------------------------------------------------------------------
(* Ctrl+C                                                                  *)

\* Raised inside the guarded region it goes through `finally`; inside
\* `finally`, or before the notice exists, straight out.
Unwind(r) ==
  /\ Goto(r, IF at[r] \in {"entry", "finally"} THEN "over" ELSE "finally")
  /\ step' = [step EXCEPT ![r] = Idle]
  /\ code' = [code EXCEPT ![r] = ExitCode.SIGNAL_INT]
  /\ UNCHANGED next

SlipDropTheHeld(r) ==
  /\ step[r] = "release"
  /\ held' = [held EXCEPT ![r] = "no"]
  /\ Return(r)
  /\ UNCHANGED <<live, line, unheld>>

\* The handler is put back, and what was held is raised.
Release(r) ==
  /\ step[r] = "release"
  /\ held' = [held EXCEPT ![r] = "no"]
  /\ \/ /\ held[r] # "came" /\ Return(r)
     \/ /\ held[r] = "came" /\ Unwind(r)
        /\ UNCHANGED <<stopped, given, asked, offered>>
  /\ UNCHANGED <<live, line, unheld>>

ErasingIsDue(r) == step[r] = "holdToErase" \/ (at[r] = "finally" /\ line[r] # "off")

\* The copy runs in front of the first run; the view reads the key itself.
PressCtrlC(r) ==
  /\ interrupts > 0
  /\ at[r] \notin {"absent", "relaunched", "view", "over"}
  /\ interrupts' = interrupts - 1
  /\ \/ /\ held[r] = "no" /\ Unwind(r)
        /\ unheld' = [unheld EXCEPT ![r] = @ \/ ErasingIsDue(r)]
        /\ UNCHANGED <<live, stopped, line, held>>
     \/ /\ held[r] # "no"
        /\ held' = [held EXCEPT ![r] = "came"]
        /\ UNCHANGED <<at, step, next, code, live, stopped, line, unheld>>
  /\ UNCHANGED <<world, elevated, settings, asked, offered>>

-----------------------------------------------------------------------------
(* The way to the view                                                     *)

Here(r, place) == at[r] = place /\ step[r] = Idle
Move(r, place) == Goto(r, place) /\ UNCHANGED <<step, next, given, asks, notice>>

Leave(r, c) ==
  /\ Goto(r, "finally") /\ code' = [code EXCEPT ![r] = c]
  /\ UNCHANGED <<step, next, given, asked, offered, notice>>

\* From here the run waits in `place` for the call to return to `then`.
Await(r, place, what, then) ==
  /\ Goto(r, place) /\ Call(r, what, then)
  /\ UNCHANGED <<given, asks, notice>>

Begin(r) == Here(r, "entry") /\ Await(r, "starting", "resume", "importing")

\* Click parses the run, and the root group loads what it needs.
Import(r) ==
  /\ Here(r, "importing")
  /\ \/ world.refused /\ Leave(r, ExitCode.USAGE_ERROR)
     \/ /\ ~world.refused /\ world.command \notin Views
        /\ Await(r, "parsed", "forget", "page")
     \/ /\ ~world.refused /\ world.command \in Views
        /\ Move(r, "beforeOffer")

\* resolve_tunables: the copy is started with a marker that turns both off.
WantsElevation(r) == settings[r].auto /\ ~world.noElevate /\ r # "copy"
SlipOfferToTheCopy(r) == settings[r].offer /\ ~elevated[r]
OfferIsMade(r) == settings[r].offer /\ r # "copy" /\ ~elevated[r]

NoTerminal(r) ==
  /\ Here(r, "beforeOffer") /\ ~world.terminal
  /\ Await(r, "beforePage", "forget", "page")

SlipOfferOverTheLine(r) ==
  /\ Here(r, "beforeOffer") /\ world.terminal /\ world.command = "default" /\ OfferIsMade(r)
  /\ Move(r, "offering")

StartTheOffer(r) ==
  /\ Here(r, "beforeOffer") /\ world.terminal /\ world.command = "default" /\ OfferIsMade(r)
  /\ Await(r, "beforeOffer", "forget", "offering")

NoOffer(r) ==
  /\ Here(r, "beforeOffer") /\ world.terminal
  /\ world.command = "tui" \/ ~OfferIsMade(r)
  /\ Move(r, "beforeAsking")

EndTheOffer(r) ==
  /\ Here(r, "offering")
  /\ offered' = [offered EXCEPT ![r] = @ + 1]
  /\ Goto(r, "beforeAsking")
  /\ UNCHANGED <<step, next, given, asked, code, notice>>

PauseToAsk(r) == Here(r, "beforeAsking") /\ Await(r, "beforeAsking", "forget", "asking")

\* elevate_for_the_view: a replay, no prompt, rights already there, or disks
\* that nobody could open, and nothing is asked.
CanAsk(r) == world.askable /\ ~elevated[r]

NotAsked(r) ==
  /\ Here(r, "asking") /\ ~(CanAsk(r) /\ WantsElevation(r))
  /\ Move(r, "resuming")

Ask(r) ==
  /\ Here(r, "asking") /\ CanAsk(r) /\ WantsElevation(r)
  /\ asked' = [asked EXCEPT ![r] = @ + 1]
  /\ \/ Goto(r, "resuming")                                    \* declined, or failed
     \/ /\ at["copy"] = "absent"
        /\ at' = [at EXCEPT ![r] = "relaunched", !["copy"] = "entry"]
  /\ UNCHANGED <<step, next, given, offered, code, notice>>

SlipExitStatus(c) == c
ExitStatus(c) == IF c < 0 THEN 128 - c ELSE c

CopyIsOver(r) ==
  /\ Here(r, "relaunched") /\ at["copy"] = "over"
  /\ Leave(r, ExitStatus(code["copy"]))

\* A signal ends the copy anywhere.
KillCopy ==
  /\ at["copy"] \notin {"absent", "over"}
  /\ Goto("copy", "over") /\ code' = [code EXCEPT !["copy"] = 0 - Signal]
  /\ step' = [step EXCEPT !["copy"] = Idle]
  /\ UNCHANGED <<next, given, asked, offered, notice>>

ResumeTheLine(r) == Here(r, "resuming") /\ Await(r, "resuming", "resume", "reading")

\* The machine is read, or the snapshot refused; the view is built.
Read(r) ==
  /\ Here(r, "reading")
  /\ Leave(r, ExitCode.INVALID_ARGUMENT) \/ Await(r, "beforeView", "forget", "view")

CloseView(r) ==
  /\ Here(r, "view")
  /\ \E verdict \in {0, 1} : /\ world.command = "tui" => verdict = 0
                             /\ Leave(r, verdict)

\* Any other command, the page where there is no terminal, and tui's refusal.
PrintPage(r) ==
  /\ Here(r, "page")
  /\ \E c \in PageCodes :
        /\ world.command = "tui" => c = ExitCode.INVALID_ARGUMENT
        /\ Leave(r, c)

Finally(r) == Here(r, "finally") /\ Await(r, "finally", "forget", "over")

-----------------------------------------------------------------------------
StartInit ==
  /\ world \in [command : Commands, drawn : BOOLEAN, terminal : BOOLEAN,
                refused : BOOLEAN, noElevate : BOOLEAN, askable : BOOLEAN]
  /\ world.drawn => world.terminal
  /\ elevated \in [Runs -> BOOLEAN]
  /\ settings \in [Runs -> [auto : BOOLEAN, offer : BOOLEAN]]
  /\ at = [r \in Runs |-> IF r = "first" THEN "entry" ELSE "absent"]
  /\ step = [r \in Runs |-> Idle]
  /\ next = [r \in Runs |-> "over"]
  /\ live = [r \in Runs |-> FALSE] /\ stopped = [r \in Runs |-> FALSE]
  /\ line = [r \in Runs |-> "off"]
  /\ held = [r \in Runs |-> "no"]
  /\ interrupts \in 0..MaxInterrupts
  /\ asked = [r \in Runs |-> 0] /\ offered = [r \in Runs |-> 0]
  /\ unheld = [r \in Runs |-> FALSE]
  /\ code = [r \in Runs |-> Unset]

\* What the run does by itself; what it waits for stands below.
StartStep(r) ==
  \/ Resume(r) \/ Forget(r) \/ HoldCtrlC(r) \/ NoteTheLine(r) \/ Draw(r) \/ Erase(r) \/ Release(r)
  \/ Begin(r) \/ Import(r) \/ NoTerminal(r) \/ StartTheOffer(r) \/ NoOffer(r) \/ PauseToAsk(r)
  \/ NotAsked(r) \/ CopyIsOver(r) \/ ResumeTheLine(r) \/ Read(r) \/ PrintPage(r) \/ Finally(r)

\* What waits for the person at the keyboard.
Answered(r) == EndTheOffer(r) \/ Ask(r) \/ CloseView(r)

StartNext ==
  \/ \E r \in Runs : StartStep(r) \/ Answered(r) \/ PressCtrlC(r)
  \/ KillCopy

StartFairness == \A r \in Runs : WF_startVars(StartStep(r))
StartSpec == StartInit /\ [][StartNext]_startVars /\ StartFairness

-----------------------------------------------------------------------------
(* What must hold                                                          *)

Killed(r) == code[r] = 0 - Signal

\* Whoever asks, offers, prints or draws the view has the terminal to itself:
\* neither this run's line nor, while the copy runs, the first run's is there.
LineGivesWay == \A r \in Runs : at[r] \in Taken => line[r] = "off"

\* A line is drawn and erased as a whole: outside the two displays' own steps,
\* and however Ctrl+C fell, it is there or it is not.
LineIsWhole == \A r \in Runs : line[r] = "half" => step[r] \in {"drawn", "erased"} \/ Killed(r)

\* A run that is over has left no line, unless Ctrl+C fell between forgetting
\* the line and holding Ctrl+C, or in `finally` before its stop.
LineIsErased ==
  \A r \in Runs : at[r] = "over" /\ line[r] # "off" => unheld[r] \/ Killed(r)

\* entry.main: the startup line "is stopped on every way out of here".
ErasedOnEveryWayOut ==
  \A r \in Runs : at[r] = "over" /\ ~Killed(r) => line[r] = "off"

\* One person is asked once: the copy neither asks for rights, whatever its
\* own configuration and its token say, nor offers the shortcut.
AskedOnce ==
  /\ asked["first"] + asked["copy"] <= 1
  /\ offered["first"] + offered["copy"] <= 1

\* What the copy came to is what the person's run leaves with, a signal as the
\* shell reports it, unless Ctrl+C fell on the way out.
CopysAnswerIsGiven ==
  at["first"] = "over" /\ code["copy"] # Unset =>
    \/ code["first"] = ExitCode.SIGNAL_INT
    \/ code["first"] = IF Killed("copy") THEN 128 + Signal ELSE code["copy"]

\* Ctrl+C that was held while the line was drawn or erased is not lost: the
\* run ends, and says that it was interrupted.
HeldCtrlCIsHeard ==
  \A r \in Runs : held[r] = "came" ~> at[r] = "over" /\ (code[r] = ExitCode.SIGNAL_INT \/ Killed(r))

\* The terminal is taken in turn: the line gives way, is never left half drawn and,
\* once drawn, is erased, Ctrl+C or not; nobody is asked twice, and the run leaves
\* with what its elevated copy answered.
TerminalIsSharedInTurn ==
  LineGivesWay /\ LineIsWhole /\ LineIsErased /\ AskedOnce /\ CopysAnswerIsGiven
=============================================================================
