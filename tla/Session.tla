------------------------------- MODULE Session -------------------------------
(***************************************************************************)
(* One session at a terminal: the way to the view, with what happens on it *)
(* in the modules' own steps.  Logging starts once the command line is     *)
(* read; the offer of a shortcut, install-shortcut and config-deploy run   *)
(* where the start waits for them, and Ctrl+C may end any of them; the     *)
(* view runs in whichever copy of the program opened it, and is gone with  *)
(* it.  The elevated copy repeats the first run's start of the logging,    *)
(* which is not followed twice.                                            *)
(***************************************************************************)
EXTENDS InteractiveStart, ShortcutOffer, LoggingStart, Deployment, InteractiveView

VARIABLE followed   \* bound: whether the view's own messages are followed

sessionVars == <<followed, startVars, offerVars, logVars, deployVars, viewVars>>

-----------------------------------------------------------------------------
(* Who waits for whom                                                      *)

ReadyToLog ==
  \/ Here("first", "beforeOffer")
  \/ Here("first", "page") /\ world.command \notin Views

OfferHasTheTerminal ==
  IF asker = "offer" THEN Here("first", "offering")
                     ELSE Here("first", "page") /\ world.command = "install-shortcut"
DeployHasTheTerminal == Here("first", "page") /\ world.command = "config-deploy"
ViewIsOpen == followed /\ \E r \in Runs : Here(r, "view")

SlipAlwaysFine(word) == ExitCode.SUCCESS
\* The code of a command that was followed.
CodeOf(word) == ExitCode[word]

\* What the first run does not do before the logging is started, or before the
\* command it runs has answered.
MayGoOn(r) ==
  r = "first" =>
    /\ ReadyToLog => logAt = "started"
    /\ Here(r, "offering") => offerAt = "done" /\ answer # "aborted"
    /\ Here(r, "page") /\ world.command = "other" =>
         code'[r] \in {ExitCode.SUCCESS, ExitCode.GENERAL_ERROR}
    /\ Here(r, "page") /\ world.command = "install-shortcut" =>
         offerAt = "done" /\ code'[r] = CodeOf(answer)
    /\ Here(r, "page") /\ world.command = "config-deploy" =>
         deployAt = "over" /\ code'[r] = CodeOf(deployAnswer)

\* Bound: the view that is followed is left at rest; nothing reads it once it is left.
RunGoesOn(r) ==
  /\ StartStep(r) \/ Answered(r)
  /\ MayGoOn(r) /\ (ViewIsOpen => Quiet)
  /\ UNCHANGED <<offerVars, logVars, deployVars, viewVars>>

StartGoesOn(r) ==
  /\ StartStep(r)
  /\ MayGoOn(r)
  /\ UNCHANGED <<followed, offerVars, logVars, deployVars, viewVars>>

Interrupted ==
  /\ \/ \E r \in Runs : PressCtrlC(r)
     \/ KillCopy
  /\ UNCHANGED <<offerVars, logVars, deployVars, viewVars>>

StartTheLogging ==
  /\ ReadyToLog /\ LoggingNext
  /\ UNCHANGED <<startVars, offerVars, deployVars, viewVars>>

\* A start that was given up is a bug's exit code, as a file that is not UTF-8 is.
GivenUp ==
  /\ \/ ReadyToLog /\ logAt = "raised"
     \/ Here("first", "offering") /\ answer = "aborted"
  /\ Leave("first", ForABug)
  /\ UNCHANGED <<offerVars, logVars, deployVars, viewVars>>

OfferGoesOn ==
  /\ OfferHasTheTerminal /\ logAt = "started" /\ OfferNext
  /\ UNCHANGED <<startVars, logVars, deployVars, viewVars>>

DeployGoesOn ==
  /\ DeployHasTheTerminal /\ logAt = "started" /\ DeploymentNext
  /\ UNCHANGED <<startVars, offerVars, logVars, viewVars>>

ViewGoesOn ==
  /\ ViewIsOpen /\ ViewStep
  /\ UNCHANGED <<followed, startVars, offerVars, logVars, deployVars>>

KeyPressed ==
  /\ ViewIsOpen /\ ViewMove
  /\ UNCHANGED <<startVars, offerVars, logVars, deployVars>>

SessionNext ==
  /\ \/ \E r \in Runs : RunGoesOn(r)
     \/ Interrupted \/ StartTheLogging \/ GivenUp
     \/ OfferGoesOn \/ DeployGoesOn \/ ViewGoesOn \/ KeyPressed
  /\ UNCHANGED followed

-----------------------------------------------------------------------------
(* Scenes: one part of the session varies, the others are at their plainest *)

PlainStart(commands, terminals, presses) ==
  /\ world \in [command : commands, drawn : {FALSE}, terminal : terminals, refused : {FALSE},
                noElevate : {TRUE}, askable : {FALSE}]
  /\ elevated = [r \in Runs |-> FALSE]
  /\ settings = [r \in Runs |-> [auto |-> TRUE, offer |-> TRUE]]
  /\ interrupts \in presses
  /\ StartInit

PlainLogging ==
  /\ table = [s \in Settings |-> "shipped"] /\ present = {} /\ quoting = {} /\ alike = {}
  /\ LoggingInit

AskerFits == asker \in IF world.command = "install-shortcut" THEN {"command", "commandInstallsUv"}
                                                              ELSE {"offer"}
PlainOffer ==
  /\ desk = [platform |-> "other", desktop |-> FALSE, relative |-> FALSE, lsdsk |-> FALSE]
  /\ uvx = FALSE /\ entry = NoEntry
  /\ config = [NewDocument EXCEPT !.state = "absent"]
  /\ AskerFits /\ OfferInit

PlainDeploy ==
  /\ files = [f \in ConfigFiles |-> "none"] /\ ships = FileNames[1]
  /\ request = [targets |-> ToSet(Layers), force |-> FALSE]
  /\ DeploymentInit

\* The view opens on one screen, and is resized where keys are pressed.
PlainView(keys) ==
  /\ followed = keys
  /\ density = 1 /\ moves = IF keys THEN 0 ELSE MaxMoves
  /\ screen = [width |-> Max(Widths), height |-> Max(Heights)]
  /\ ViewInit

\* Bound: what the copy would read differs where a copy may be started.
CopyReadsAlike ==
  ~(/\ world.terminal /\ world.askable /\ ~world.refused /\ ~world.noElevate
    /\ settings["first"].auto /\ ~elevated["first"]) =>
       elevated["copy"] = elevated["first"] /\ settings["copy"] = settings["first"]

StartScene ==
  /\ interrupts = MaxInterrupts /\ StartInit /\ world.command \in Views \cup {"other"}
  /\ CopyReadsAlike
  /\ PlainLogging /\ PlainOffer /\ PlainDeploy /\ PlainView(FALSE)
LoggingScene ==
  /\ PlainStart({"other"}, {FALSE}, {0}) /\ LoggingInit
  /\ PlainOffer /\ PlainDeploy /\ PlainView(FALSE)
OfferScene ==
  /\ PlainStart({"default", "install-shortcut"}, {TRUE}, {1}) /\ AskerFits /\ OfferInit
  /\ PlainLogging /\ PlainDeploy /\ PlainView(FALSE)
DeployScene ==
  /\ PlainStart({"config-deploy"}, {TRUE}, {0}) /\ DeploymentInit
  /\ Cardinality({f \in ConfigFiles : files[f] \in {"directory", "broken"}}) <= 1   \* bound
  /\ PlainLogging /\ PlainOffer /\ PlainView(FALSE)
ViewScene ==
  /\ PlainStart({"tui"}, {TRUE}, {0}) /\ PlainView(TRUE)
  /\ PlainLogging /\ PlainOffer /\ PlainDeploy

SessionInit == StartScene \/ LoggingScene \/ OfferScene \/ DeployScene \/ ViewScene

SessionSpec == SessionInit /\ [][SessionNext]_sessionVars

\* Where something must come to pass: what the program does by itself it goes on
\* doing, one run at a time; nobody has to press a key.
SessionFairness == WF_sessionVars((\E r \in Runs : StartGoesOn(r)) \/ ViewGoesOn)
EndingSpec == (StartScene \/ ViewScene) /\ [][SessionNext]_sessionVars /\ SessionFairness

-----------------------------------------------------------------------------
(* What must hold of the whole                                             *)

SessionTypeOK == StartTypeOK /\ OfferTypeOK /\ LoggingTypeOK /\ DeployTypeOK /\ ViewTypeOK

\* A run nobody interrupted leaves with what it did: an install-shortcut with
\* success exactly where its shortcut now stands, a deploy with success only
\* where every file it replaced was named, and neither of them with a bug's code,
\* which is for a start of the logging given up or a file that is not UTF-8.
OutcomeIsTheExitCode ==
  at["first"] = "over" /\ code["first"] \notin {ExitCode.SIGNAL_INT, ExitCode.USAGE_ERROR} =>
    /\ code["first"] = ForABug <=> logAt = "raised" \/ answer = "aborted"
    /\ world.command = "install-shortcut" /\ code["first"] # ForABug =>
         (code["first"] = ExitCode.SUCCESS <=> entry \in Entries)
    /\ world.command = "config-deploy" /\ code["first"] = ExitCode.SUCCESS =>
         reported = {f \in ConfigFiles : files[f] # found[f]}

\* Every message that follows from a key is handled and leads to no others for
\* ever: the open view comes to rest, at the width its widgets have.
OpenViewSettles ==
  <>[](ViewIsOpen => Quiet /\ (page \in Fitted => widthUsed[page] = Room(screen.width)))

\* Every part of a session in its place, and the code it ends with the one its
\* parts came to.
SessionIsInOrder == SessionTypeOK /\ OutcomeIsTheExitCode
=============================================================================
