----------------------------- MODULE LoggingStart -----------------------------
(***************************************************************************)
(* Starting the logging library over settings and LOG_ variables, any of   *)
(* which it may refuse: a refused setting goes back to its shipped value,  *)
(* one refusal at a time, and a refused variable is set aside for the      *)
(* start.  The library, which stops at the first value it cannot use, is   *)
(* external.                                                               *)
(***************************************************************************)
EXTENDS FiniteSets, Naturals

CONSTANTS
  Settings,    \* keys of [lib_log_rich]
  Variables    \* LOG_ variables

ASSUME SourcesDiffer == Settings \cap Variables = {} /\ "none" \notin Settings \cup Variables
ASSUME FewSettings == IsFiniteSet(Settings)

\* A changed setting is accepted, refused with its field named together with
\* every other such field, or refused in a sentence of its own.
SettingKinds == {"shipped", "accepted", "refusedByField", "refusedInWords"}

VARIABLES
  table,     \* [lib_log_rich] as the layers merged it
  present,   \* the LOG_ variables that are set
  refusable, \* those among them the library refuses
  quoting,   \* the settings and variables a sentence about them quotes
  alike,     \* settings and variables that one text names: they hold the same, say
  logAt,     \* where start_runtime is
  passes,    \* of the loop of _put_back_until_started
  refusal,   \* the last one
  firstRefusal, inPlace,  \* the first one, and the last with the variables in place
  hidden,    \* variables set aside for the start
  reasons,   \* the refusal each setting was put back for
  unnamed    \* history: a refusal named no setting that was left

sources == <<table, present, refusable, quoting, alike>>
logVars == <<table, present, refusable, quoting, alike, logAt, passes, refusal, firstRefusal, inPlace,
             hidden, reasons, unnamed>>

\* A refusal: what it is about, the fields it names, and what its words quote.
Refusal == [about : Settings \cup Variables \cup {"others"}, fields : SUBSET Settings,
            quotes : SUBSET (Settings \cup Variables)]
None == [about |-> "none", fields |-> {}, quotes |-> {}]
Ended == {"started", "raised"}

LoggingTypeOK ==
  /\ table \in [Settings -> SettingKinds]
  /\ refusable \subseteq present /\ present \subseteq Variables
  /\ quoting \subseteq Settings \cup Variables
  /\ logAt \in {"configured", "inPlace", "variablesAside", "aside"} \cup Ended
  /\ {refusal, firstRefusal, inPlace} \subseteq Refusal \cup {None}
  /\ hidden \subseteq present
  /\ reasons \in [Settings -> Refusal \cup {None}]
  /\ passes \in 0..Cardinality(Settings) + 1 /\ unnamed \in BOOLEAN

-----------------------------------------------------------------------------
(* The library                                                             *)

\* Whatever the text a sentence quotes is a name or the value of is quoted with it.
Quotes(source) ==
  IF source \notin quoting THEN {} ELSE {source} \cup IF source \in alike THEN alike ELSE {}

Refused(kept, kind) == {s \in kept : table[s] = kind}

\* What a start from the settings `kept`, the others shipped, may be refused with.
Refusals(kept, aside) ==
  {[about |-> v, fields |-> {}, quotes |-> Quotes(v)] : v \in refusable \ aside}
  \cup {[about |-> s, fields |-> {}, quotes |-> Quotes(s)] : s \in Refused(kept, "refusedInWords")}
  \cup {[about |-> s, fields |-> Refused(kept, "refusedByField"), quotes |-> {}] :
          s \in Refused(kept, "refusedByField")}

-----------------------------------------------------------------------------
(* Refusals read                                                           *)

Changed == {s \in Settings : table[s] # "shipped"}
PutBack == {s \in Settings : reasons[s] # None}

NamedKeys(r) == IF r.fields \cap Changed # {} THEN r.fields \cap Changed
                ELSE {s \in Changed : s \in r.quotes}

SlipOnlyTheQuoted(r) == present \cap r.quotes
OffendingVariables(r) == IF present \cap r.quotes # {} THEN present \cap r.quotes ELSE present

\* One start, over what has been put back so far; it runs, or `otherwise`.
Attempt(kept, aside, otherwise) ==
  IF Refusals(kept, aside) = {}
    THEN logAt' = "started" /\ UNCHANGED refusal
    ELSE refusal' \in Refusals(kept, aside) /\ logAt' = otherwise

-----------------------------------------------------------------------------
(* start_runtime                                                           *)

StartAsConfigured ==
  /\ logAt = "configured"
  /\ Attempt(Settings, {}, "inPlace")
  /\ firstRefusal' = refusal'
  /\ UNCHANGED <<sources, passes, inPlace, hidden, reasons, unnamed>>

Looping == logAt \in {"inPlace", "aside"}
Named == NamedKeys(refusal) \ PutBack
Rest == Changed \ PutBack
GoesOn == passes <= Cardinality(Changed) /\ Rest # {}

SlipFirstReason(s) == IF s \in Named THEN firstRefusal ELSE [refusal EXCEPT !.about = "others"]

\* A setting the refusal names gets its words.  The rest, sent back together,
\* get them only where they quote no setting at all.
ReasonFor(s) ==
  IF s \in Named \/ (refusal.fields \cup refusal.quotes) \cap Settings = {}
    THEN refusal ELSE [refusal EXCEPT !.about = "others"]

SlipToPutBack == Rest
\* Those the refusal names; failing that, all that are left.
ToPutBack == IF Named # {} THEN Named ELSE Rest

PutBackAndTry ==
  /\ Looping /\ GoesOn
  /\ reasons' = [s \in Settings |-> IF s \in ToPutBack THEN ReasonFor(s) ELSE reasons[s]]
  /\ passes' = passes + 1 /\ unnamed' = (unnamed \/ Named = {})
  /\ Attempt(Settings \ (PutBack \cup ToPutBack), hidden, logAt)
  /\ UNCHANGED <<sources, firstRefusal, inPlace, hidden>>

\* Every setting is back and a variable is what refuses.
SlipKeepTheReasons ==
  /\ logAt = "inPlace" /\ ~GoesOn
  /\ inPlace' = refusal
  /\ IF OffendingVariables(firstRefusal) = {}
       THEN logAt' = "raised" /\ UNCHANGED <<hidden, passes, unnamed>>
       ELSE logAt' = "variablesAside" /\ hidden' = OffendingVariables(firstRefusal) /\ passes' = 0 /\ unnamed' = FALSE
  /\ UNCHANGED <<sources, refusal, firstRefusal, reasons>>

GiveUpInPlace ==
  /\ logAt = "inPlace" /\ ~GoesOn
  /\ inPlace' = refusal
  /\ IF OffendingVariables(firstRefusal) = {}
       THEN logAt' = "raised" /\ UNCHANGED <<hidden, passes, reasons, unnamed>>
       ELSE /\ logAt' = "variablesAside"
            /\ hidden' = OffendingVariables(firstRefusal)
            /\ passes' = 0 /\ reasons' = [s \in Settings |-> None] /\ unnamed' = FALSE
  /\ UNCHANGED <<sources, refusal, firstRefusal>>

SetVariablesAside ==
  /\ logAt = "variablesAside"
  /\ Attempt(Settings, hidden, "aside")
  /\ UNCHANGED <<sources, passes, firstRefusal, inPlace, hidden, reasons, unnamed>>

GiveUpAside ==
  /\ logAt = "aside" /\ ~GoesOn
  /\ logAt' = "raised"
  /\ UNCHANGED <<sources, passes, refusal, firstRefusal, inPlace, hidden, reasons, unnamed>>

LoggingInit ==
  /\ table \in [Settings -> SettingKinds]
  /\ present \in SUBSET Variables /\ refusable \in SUBSET present
  /\ quoting \in SUBSET (refusable \cup Refused(Settings, "refusedInWords"))
  /\ alike \in SUBSET (Settings \cup Variables)
  /\ alike # {} => alike \cap quoting # {}
  /\ logAt = "configured" /\ passes = 0
  /\ refusal = None /\ firstRefusal = None /\ inPlace = None
  /\ hidden = {} /\ reasons = [s \in Settings |-> None] /\ unnamed = FALSE

LoggingNext ==
  \/ StartAsConfigured \/ PutBackAndTry \/ GiveUpInPlace \/ SetVariablesAside \/ GiveUpAside

LoggingSpec == LoggingInit /\ [][LoggingNext]_logVars

-----------------------------------------------------------------------------
(* What must hold                                                          *)

Started == logAt = "started"

SlipReasonOfVariables == firstRefusal
\* With every setting put back and the variables read, what refused the start
\* can only have been a variable; with none put back, it was the first refusal.
ReasonOfVariables == IF inPlace # None /\ PutBack # {} THEN inPlace ELSE firstRefusal

\* The setting was put back by words about another one, which quote what both
\* are named by or hold: a setting that is refused in words.
IsTakenForAnother(s) ==
  LET other == reasons[s].about
  IN  {s, other} \subseteq alike /\ other \in Settings \ {s} /\ table[other] = "refusedInWords"

\* A run that was started has every refused setting put back, and has put back
\* a setting the library accepts only where a refusal quoted nothing it could
\* use, or where the text quoted is the setting's too: a refusal that names
\* settings takes no other accepted one with it.
AcceptedSettingsAreKept ==
  Started =>
    /\ \A s \in Settings : table[s] \in {"refusedByField", "refusedInWords"} => s \in PutBack
    /\ \A s \in PutBack : table[s] = "accepted" => unnamed \/ IsTakenForAnother(s)

\* The words printed for a setting are those of a refusal about that setting,
\* or of one that named none; never a variable's, and another setting's only
\* where the text they quote is this setting's too.  (start_runtime promises
\* it of every warning, of such a setting too.)
EachReasonIsItsOwn ==
  Started => \A s \in PutBack :
    \/ reasons[s].about \in {s, "others"} \/ s \in reasons[s].fields
    \/ reasons[s].about \in Settings /\ NamedKeys(reasons[s]) = {}
    \/ IsTakenForAnother(s)

\* The words printed for the variables that were set aside are a variable's.
VariablesGetTheirOwnReason ==
  Started /\ hidden # {} => ReasonOfVariables.about \in Variables

\* The start is given up only where the first refusal quoted a variable, and
\* another one, which it did not quote, is refused too.
RaisedOnlyForAnUnnamedVariable ==
  logAt = "raised" => firstRefusal.quotes \cap present # {} /\ \E v \in refusable : v \notin firstRefusal.quotes

\* setup.start_runtime: "a value the tool cannot use falls back to the shipped
\* one and says so"; a refused variable is set aside.
EveryRefusalIsRepaired == logAt # "raised"

\* However the refusals name what they refuse: what was accepted stays and each value
\* put back carries the reason it was refused for, but where the text quoted is that of
\* several settings; and only a refusal that names nothing it can set aside ends the start.
RefusedSettingsFallBack ==
  /\ AcceptedSettingsAreKept /\ EachReasonIsItsOwn
  /\ VariablesGetTheirOwnReason /\ RaisedOnlyForAnUnnamedVariable
=============================================================================
