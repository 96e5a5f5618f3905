---------------------------- MODULE ShortcutOffer ----------------------------
(***************************************************************************)
(* A desktop shortcut, offered before the view opens or asked for with     *)
(* install-shortcut.  The offer degrades and goes on; the command refuses  *)
(* and says why.  "Do not ask again" edits the user's configuration, which *)
(* an editor may save at any moment; nothing locks it.                     *)
(***************************************************************************)
EXTENDS Naturals

CONSTANTS
  Platforms,   \* of linux, darwin, win32 and one that has no shortcuts
  MaxEdits     \* bound: saves by an editor

ASSUME MaxEditsIsNat == MaxEdits \in Nat

\* A user configuration: whether it is UTF-8 and parses, what `display` is, what it says of
\* the offer, and which save everything else in it stems from.
UserFiles == [state : {"absent", "toml", "broken", "undecodable"}, display : {"none", "table", "value"},
          offer : {"unset", "off"}, saved : 0..MaxEdits]
\* What a file can say at all: the offer's key stands in the table `display`.
Documents == {f \in UserFiles : /\ f.offer = "off" => f.display = "table"
                            /\ f.state # "toml" => f.display = "none"}
Entries == [launch : {"nothing", "lsdsk", "uvx"}, icon : BOOLEAN]
NoEntry == [launch |-> "none", icon |-> FALSE]
Old == [launch |-> "old", icon |-> FALSE]   \* written by an earlier run

VARIABLES
  desk,      \* the machine: platform, desktop, what is installed, what can be written
  asker,     \* who asked: the offer, or the command with or without --install-uv
  offerAt,   \* where the sequence is
  uvx,       \* uvx is on the PATH
  launch,    \* the planned command
  icon,      \* the icon of this run was copied
  entry, menu, \* the shortcut on the desktop and in the menu
  consented, fetched,  \* history: uv's installer was agreed to, and run
  answer,    \* what the run says or leaves with at the end
  config,    \* the user's configuration file
  document,  \* what disable_offer has read and changed
  edits,     \* bound: saves by the editor so far
  loadedAt, wroteAt   \* history: edits before the load and before the write

machine == <<desk, asker>>
shortcut == <<uvx, launch, icon, entry, menu, consented, fetched>>
setting == <<config, document, edits, loadedAt, wroteAt>>
offerVars == <<desk, asker, offerAt, uvx, launch, icon, entry, menu, consented, fetched, answer,
               config, document, edits, loadedAt, wroteAt>>

Never == MaxEdits + 1
Answers == {"nothing", "created", "createdNoIcon", "notCreated", "saved", "notSaved", "installerFailed",
            "stillMissing", "aborted", "CONFIG_ERROR", "PERMISSION_DENIED", "IO_ERROR", "SUCCESS"}

OfferTypeOK ==
  /\ offerAt \in {"start", "choose", "plan", "consent", "install", "replan", "icon", "entry", "menu",
                  "load", "read", "change", "replace", "readBack", "done"}
  /\ launch \in {"nothing", "lsdsk", "uvx"}
  /\ uvx \in BOOLEAN /\ icon \in BOOLEAN /\ consented \in BOOLEAN /\ fetched \in BOOLEAN
  /\ entry \in Entries \cup {NoEntry, Old} /\ menu \in Entries \cup {NoEntry, Old}
  /\ answer \in Answers \cup {"unanswered"}
  /\ config \in UserFiles /\ document \in UserFiles
  /\ edits \in 0..MaxEdits /\ loadedAt \in 0..Never /\ wroteAt \in 0..Never

-----------------------------------------------------------------------------
OfferGoto(place) == offerAt' = place
Say(what) == answer' = what /\ OfferGoto("done")

\* A refusal of the command and what the offer says in its place.
Refuse(c, words) == Say(IF asker = "offer" THEN words ELSE c)

\* The two XDG directories are looked at before anything is asked or written.
Unnameable == desk.platform = "linux" /\ desk.relative

SlipOfferDespiteShortcut == desk.desktop
ShouldOffer == desk.desktop /\ entry = NoEntry

BeginOffer ==
  /\ offerAt = "start"
  /\ \/ /\ desk.platform = "other" /\ Refuse("CONFIG_ERROR", "nothing")
     \/ /\ desk.platform # "other" /\ Unnameable /\ Refuse("CONFIG_ERROR", "notCreated")
     \/ /\ desk.platform # "other" /\ ~Unnameable
        /\ IF asker = "offer"
             THEN IF ShouldOffer THEN OfferGoto("choose") /\ UNCHANGED answer ELSE Say("nothing")
             ELSE IF desk.desktop THEN OfferGoto("plan") /\ UNCHANGED answer ELSE Say("CONFIG_ERROR")
  /\ UNCHANGED <<machine, shortcut, setting>>

\* An end of input counts as "not now".
Choose ==
  /\ offerAt = "choose"
  /\ \/ Say("nothing")
     \/ OfferGoto("load") /\ UNCHANGED answer
     \/ OfferGoto("plan") /\ UNCHANGED answer
  /\ UNCHANGED <<machine, shortcut, setting>>

-----------------------------------------------------------------------------
(* A launcher                                                              *)

\* plan_launch: uvx before an installed lsdsk; neither, and uv is needed.
PlanLaunch(haveUvx) == IF haveUvx THEN "uvx" ELSE IF desk.lsdsk THEN "lsdsk" ELSE "nothing"

Plan ==
  /\ offerAt = "plan"
  /\ launch' = PlanLaunch(uvx)
  /\ \/ launch' # "nothing" /\ OfferGoto("icon") /\ UNCHANGED answer
     \/ launch' = "nothing" /\ asker = "command" /\ Say("CONFIG_ERROR")
     \/ launch' = "nothing" /\ asker # "command" /\ OfferGoto("consent") /\ UNCHANGED answer
  /\ UNCHANGED <<machine, uvx, icon, entry, menu, consented, fetched, setting>>

SlipConsentOnEndOfInput ==
  /\ offerAt = "consent"
  /\ consented' \in BOOLEAN
  /\ OfferGoto("install") /\ UNCHANGED answer
  /\ UNCHANGED <<machine, uvx, launch, icon, entry, menu, fetched, setting>>

\* --install-uv is the command's consent; the offer asks, and takes silence for no.
Consent ==
  /\ offerAt = "consent"
  /\ \/ consented' = TRUE /\ OfferGoto("install") /\ UNCHANGED answer
     \/ asker = "offer" /\ consented' = FALSE /\ Say("nothing")
  /\ UNCHANGED <<machine, uvx, launch, icon, entry, menu, fetched, setting>>

\* The installer may fail, succeed, or succeed where nobody finds uvx.
RunInstaller ==
  /\ offerAt = "install"
  /\ fetched' = TRUE
  /\ \/ Refuse("CONFIG_ERROR", "installerFailed") /\ UNCHANGED uvx
     \/ uvx' \in BOOLEAN /\ OfferGoto("replan") /\ UNCHANGED answer
  /\ UNCHANGED <<machine, launch, icon, entry, menu, consented, setting>>

SlipTrustTheInstaller ==
  /\ offerAt = "replan"
  /\ launch' = PlanLaunch(uvx)
  /\ OfferGoto("icon") /\ UNCHANGED answer
  /\ UNCHANGED <<machine, uvx, icon, entry, menu, consented, fetched, setting>>

Replan ==
  /\ offerAt = "replan"
  /\ launch' = PlanLaunch(uvx)
  /\ \/ launch' # "nothing" /\ OfferGoto("icon") /\ UNCHANGED answer
     \/ launch' = "nothing" /\ Refuse("CONFIG_ERROR", "stillMissing")
  /\ UNCHANGED <<machine, uvx, icon, entry, menu, consented, fetched, setting>>

-----------------------------------------------------------------------------
(* Writing it                                                              *)

\* The offer goes on without the icon; the command does not.
CopyIcon ==
  /\ offerAt = "icon"
  /\ \/ icon' = TRUE /\ OfferGoto("entry") /\ UNCHANGED answer
     \/ /\ icon' = FALSE
        /\ IF asker = "offer" THEN OfferGoto("entry") /\ UNCHANGED answer
                              ELSE Say("PERMISSION_DENIED") \/ Say("IO_ERROR")
  /\ UNCHANGED <<machine, uvx, launch, entry, menu, consented, fetched, setting>>

\* The whole entry is made before the file is replaced, so a command that no
\* entry can carry changes nothing.
WriteEntry ==
  /\ offerAt = "entry"
  /\ \/ entry' = [launch |-> launch, icon |-> icon /\ desk.platform # "darwin"]
        /\ OfferGoto("menu") /\ UNCHANGED answer
     \/ UNCHANGED entry /\ (Refuse("IO_ERROR", "notCreated") \/ Refuse("PERMISSION_DENIED", "notCreated"))
  /\ UNCHANGED <<machine, uvx, launch, icon, menu, consented, fetched, setting>>

\* The menu is a second copy; missing it is a warning and no more.
AddToTheMenu ==
  /\ offerAt = "menu"
  /\ \/ desk.platform # "darwin" /\ menu' = entry
     \/ UNCHANGED menu
  /\ Refuse("SUCCESS", IF icon THEN "created" ELSE "createdNoIcon")
  /\ UNCHANGED <<machine, uvx, launch, icon, entry, consented, fetched, setting>>

-----------------------------------------------------------------------------
(* "Do not ask again": disable_offer                                       *)

NewDocument == [state |-> "toml", display |-> "none", offer |-> "unset", saved |-> 0]

FindConfig ==
  /\ offerAt = "load"
  /\ IF config.state = "absent" THEN /\ document' = [NewDocument EXCEPT !.saved = edits]
                                     /\ OfferGoto("change") /\ loadedAt' = edits
                                ELSE OfferGoto("read") /\ UNCHANGED <<document, loadedAt>>
  /\ UNCHANGED <<machine, shortcut, answer, config, edits, wroteAt>>

ReadConfig ==
  /\ offerAt = "read"
  /\ \/ config.state = "toml" /\ OfferGoto("change") /\ UNCHANGED answer
     \/ config.state \in {"absent", "broken"} /\ Say("notSaved")
     \/ config.state = "undecodable" /\ Say("aborted")   \* nothing catches UnicodeDecodeError
  /\ document' = config /\ loadedAt' = edits
  /\ UNCHANGED <<machine, shortcut, config, edits, wroteAt>>

SlipReplaceTheDocument ==
  /\ offerAt = "change"
  /\ document' = [NewDocument EXCEPT !.display = "table", !.offer = "off"]
  /\ OfferGoto("replace")
  /\ UNCHANGED <<machine, shortcut, answer, config, edits, loadedAt, wroteAt>>

SetOfferFalse ==
  /\ offerAt = "change"
  /\ IF document.display = "value"
       THEN Say("notSaved") /\ UNCHANGED document
       ELSE /\ document' = [document EXCEPT !.display = "table", !.offer = "off"]
            /\ OfferGoto("replace") /\ UNCHANGED answer
  /\ UNCHANGED <<machine, shortcut, config, edits, loadedAt, wroteAt>>

SlipSayBeforeTheWrite ==
  /\ offerAt = "replace"
  /\ Say("saved")
  /\ config' \in {config, document}
  /\ wroteAt' = IF config' = document THEN edits ELSE wroteAt
  /\ UNCHANGED <<machine, shortcut, document, edits, loadedAt>>

ReplaceConfig ==
  /\ offerAt = "replace"
  /\ \/ config' = document /\ wroteAt' = edits /\ OfferGoto("readBack") /\ UNCHANGED answer
     \/ Say("notSaved") /\ UNCHANGED <<config, wroteAt>>
  /\ UNCHANGED <<machine, shortcut, document, edits, loadedAt>>

ReadBack ==
  /\ offerAt = "readBack"
  /\ Say(CASE config.state = "toml" -> "saved"
           [] config.state = "undecodable" -> "aborted"
           [] OTHER -> "notSaved")
  /\ UNCHANGED <<machine, shortcut, setting>>

\* Somebody saves a version of their own, or takes the file away.
EditorSaves ==
  /\ offerAt # "done" /\ edits < MaxEdits
  /\ edits' = edits + 1
  /\ \E f \in Documents : f.saved = edits' /\ config' = f
  /\ UNCHANGED <<machine, shortcut, offerAt, answer, document, loadedAt, wroteAt>>

-----------------------------------------------------------------------------
OfferInit ==
  /\ desk \in [platform : Platforms, desktop : BOOLEAN, relative : BOOLEAN, lsdsk : BOOLEAN]
  /\ asker \in {"offer", "command", "commandInstallsUv"}
  /\ offerAt = "start"
  /\ uvx \in BOOLEAN /\ launch = "nothing" /\ icon = FALSE
  /\ entry \in {NoEntry, Old} /\ menu = NoEntry
  /\ consented = FALSE /\ fetched = FALSE
  /\ answer = "unanswered"
  /\ config \in {f \in Documents : /\ f.saved = 0 /\ f.offer = "unset"
                                    /\ f.state \in {"absent", "toml"}}
  /\ document = NewDocument
  /\ edits = 0 /\ loadedAt = Never /\ wroteAt = Never

OfferNext ==
  \/ BeginOffer \/ Choose \/ Plan \/ Consent \/ RunInstaller \/ Replan
  \/ CopyIcon \/ WriteEntry \/ AddToTheMenu
  \/ FindConfig \/ ReadConfig \/ SetOfferFalse \/ ReplaceConfig \/ ReadBack
  \/ EditorSaves

OfferSpec == OfferInit /\ [][OfferNext]_offerVars

-----------------------------------------------------------------------------
(* What must hold                                                          *)

\* What a run says of the shortcut is what stands on the desktop: created, and
\* it starts a program that was found; not created, and the old one stands.  Where
\* nothing to start was found not even the icon has been copied.
ShortcutAsSaid ==
  /\ answer \in {"created", "createdNoIcon", "SUCCESS"} => entry \in Entries /\ entry.launch # "nothing"
  /\ answer = "SUCCESS" /\ desk.platform # "darwin" => entry.icon
  /\ offerAt = "done" /\ answer \notin {"created", "createdNoIcon", "SUCCESS"} => entry \notin Entries
  /\ answer = "CONFIG_ERROR" => ~icon

\* A shortcut that is there is not written again by the offer, whatever the
\* answers, and the menu never holds one the desktop does not.
OfferLeavesAShortcut ==
  /\ asker = "offer" /\ entry = Old => icon = FALSE /\ fetched = FALSE
  /\ menu # NoEntry => menu = entry

\* The network is used by agreement only, and only for want of a launcher.
FetchedByConsent == fetched => consented /\ ~desk.lsdsk

\* "Will not offer again" is said only after the file said so; "could not save"
\* means the file was not written, unless an editor has saved over it since.
SettingAsSaid ==
  /\ answer = "saved" => wroteAt # Never /\ (edits = wroteAt => config.offer = "off")
  /\ answer = "notSaved" /\ wroteAt # Never => edits > wroteAt

\* Everything else in the file is kept: what is written stems from the last
\* save there was, unless that one was made between the load and the write.
EditLostOnlyBetween ==
  wroteAt # Never /\ document.saved # wroteAt => loadedAt < wroteAt

\* What the offer does to the desk and to the user's file is what was agreed to and
\* what it says it did, and no edit is lost but one made between load and write.
OfferDoesAsItSays ==
  ShortcutAsSaid /\ OfferLeavesAShortcut /\ FetchedByConsent /\ SettingAsSaid /\ EditLostOnlyBetween
=============================================================================
