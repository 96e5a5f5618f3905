---------------------------- MODULE SessionProofs ----------------------------
(***************************************************************************)
(* The parts of a session, each proved of by itself, and then together.    *)
(* LoggingStart, for any settings and variables: whatever the library      *)
(* refuses and however it words it, a start that is made has kept what was *)
(* accepted, and one that is given up had to be.  InteractiveStart: the    *)
(* terminal is shared in turn, wherever Ctrl+C falls.  ShortcutOffer does  *)
(* as it says, whoever asked, whatever fails and whoever edits the file    *)
(* meanwhile.  Deployment reports what it replaced, for any layers.        *)
(* InteractiveView: one machine is on one screen, for any drives, tree and *)
(* widths.  Each has an inductive invariant, whose parts say one thing     *)
(* each and have a lemma that every step keeps them.  The parts take their *)
(* steps in turn, the start is given up in between, and each keeps in the  *)
(* session the invariant that is proved of it by itself.                   *)
(***************************************************************************)
EXTENDS Session, FiniteSetTheorems, WellFoundedInduction, TLAPS

-----------------------------------------------------------------------------
(* Logging.                                                                *)

\* What a refusal is about when every setting is back: a variable still read.
StillRefused(aside) == refusable \ aside # {}

\* The environment the start is over does not change.
SourcesInv ==
  /\ table \in [Settings -> SettingKinds]
  /\ refusable \subseteq present /\ present \subseteq Variables
  /\ quoting \subseteq Settings \cup Variables
  /\ alike \subseteq Settings \cup Variables

\* Only a changed setting is put back, and each round puts one back at least.
EveryPassPutsOneBack == PutBack \subseteq Changed /\ passes \in Nat /\ passes <= Cardinality(PutBack)

\* The refusal at hand is one of a start over what is put back so far, and what
\* started was refused nothing.
RefusalIsOfThisStart ==
  /\ logAt \in {"inPlace", "aside"} => refusal \in Refusals(Settings \ PutBack, hidden)
  /\ logAt = "started" => Refusals(Settings \ PutBack, hidden) = {}
  /\ logAt \notin {"configured", "started"} \/ hidden # {} => firstRefusal \in Refusals(Settings, {})

\* The variables are set aside between the two rounds, in which nothing is put
\* back at first.
AsideInTurn ==
  /\ logAt \in {"configured", "inPlace", "variablesAside", "aside", "started", "raised"}
  /\ logAt \in {"configured", "inPlace"} => hidden = {} /\ inPlace = None
  /\ logAt \in {"configured", "variablesAside"} => PutBack = {}
  /\ logAt \in {"variablesAside", "aside"} => hidden # {}
  /\ hidden # {} => hidden = OffendingVariables(firstRefusal) /\ inPlace # None
  /\ inPlace # None => inPlace.about \in Variables

\* While no variable refuses the start, an accepted setting is put back only for
\* a refusal that named none or quoted its text, and a reason is the setting's own
\* but where its text is quoted for another.
WordsOfSettings ==
  ~StillRefused(hidden) =>
    \A s \in PutBack :
      /\ table[s] = "accepted" => unnamed \/ IsTakenForAnother(s)
      /\ \/ reasons[s].about \in {s, "others"} \/ s \in reasons[s].fields
         \/ reasons[s].about \in Settings /\ NamedKeys(reasons[s]) = {}
         \/ IsTakenForAnother(s)

LoggingInv ==
  /\ SourcesInv /\ EveryPassPutsOneBack /\ RefusalIsOfThisStart /\ AsideInTurn /\ WordsOfSettings
  /\ RaisedOnlyForAnUnnamedVariable

-----------------------------------------------------------------------------
(* What a refusal can be about, and what it can name.                      *)

\* A refusal is about a variable still read or a setting still in place.
LEMMA RefusalsAreAbout ==
  ASSUME SourcesInv, NEW kept \in SUBSET Settings, NEW aside, NEW r \in Refusals(kept, aside)
  PROVE  /\ r = [about |-> r.about, fields |-> r.fields, quotes |-> r.quotes]
         /\ r.about # "none"
         /\ r.about \in refusable \ aside \/ (r.about \in kept /\ r.about \in Changed)
<1>1. CASE \E v \in refusable \ aside : r = [about |-> v, fields |-> {}, quotes |-> Quotes(v)]
  BY <1>1, SourcesDiffer DEF SourcesInv
<1>2. CASE \E s \in Refused(kept, "refusedInWords") :
             r = [about |-> s, fields |-> {}, quotes |-> Quotes(s)]
  BY <1>2, SourcesDiffer DEF Refused, Changed
<1>3. CASE \E s \in Refused(kept, "refusedByField") :
             r = [about |-> s, fields |-> Refused(kept, "refusedByField"), quotes |-> {}]
  BY <1>3, SourcesDiffer DEF Refused, Changed
<1>4. QED BY <1>1, <1>2, <1>3 DEF Refusals

\* A start that runs has nothing in place that is refused.
LEMMA NothingIsLeftToRefuse ==
  ASSUME NEW kept, NEW aside, Refusals(kept, aside) = {}
  PROVE  /\ refusable \ aside = {}
         /\ Refused(kept, "refusedInWords") = {} /\ Refused(kept, "refusedByField") = {}
<1>1. ASSUME NEW v \in refusable \ aside  PROVE FALSE
  <2>1. [about |-> v, fields |-> {}, quotes |-> Quotes(v)] \in Refusals(kept, aside)
    BY <1>1 DEF Refusals
  <2>2. QED BY <2>1
<1>2. ASSUME NEW s \in Refused(kept, "refusedInWords")  PROVE FALSE
  <2>1. [about |-> s, fields |-> {}, quotes |-> Quotes(s)] \in Refusals(kept, aside)
    BY <1>2 DEF Refusals
  <2>2. QED BY <2>1
<1>3. ASSUME NEW s \in Refused(kept, "refusedByField")  PROVE FALSE
  <2>1. [about |-> s, fields |-> Refused(kept, "refusedByField"), quotes |-> {}] \in Refusals(kept, aside)
    BY <1>3 DEF Refusals
  <2>2. QED BY <2>1
<1>4. QED BY <1>1, <1>2, <1>3

\* A refusal of a setting names fields that are refused, and quotes no setting but it
\* and those its text names as well.
LEMMA SettingsRefusalNamesItsOwn ==
  ASSUME SourcesInv, NEW kept \in SUBSET Settings, NEW aside, NEW r \in Refusals(kept, aside),
         r.about \notin refusable \ aside
  PROVE  /\ r.about \in Settings
         /\ \A s \in Settings : /\ s \in r.fields => table[s] = "refusedByField"
                                /\ s \in r.quotes => /\ table[r.about] = "refusedInWords"
                                                     /\ s = r.about \/ {s, r.about} \subseteq alike
<1>1. CASE \E s \in Refused(kept, "refusedInWords") :
             r = [about |-> s, fields |-> {}, quotes |-> Quotes(s)]
  <2>1. PICK s \in Refused(kept, "refusedInWords") :
               r = [about |-> s, fields |-> {}, quotes |-> Quotes(s)]
    BY <1>1
  <2>2. s \in Settings /\ table[s] = "refusedInWords"
    BY DEF Refused
  <2>3. ASSUME NEW o \in Settings, o \in Quotes(s)  PROVE o = s \/ {o, s} \subseteq alike
    BY <2>3 DEF Quotes
  <2>4. QED BY <2>1, <2>2, <2>3
<1>2. CASE \E s \in Refused(kept, "refusedByField") :
             r = [about |-> s, fields |-> Refused(kept, "refusedByField"), quotes |-> {}]
  BY <1>2 DEF Refused
<1>3. QED BY <1>1, <1>2 DEF Refusals

\* The rounds end only when every changed setting is back.
LEMMA RoundsReachEverySetting ==
  ASSUME EveryPassPutsOneBack, ~GoesOn
  PROVE  Changed \subseteq PutBack
<1>1. IsFiniteSet(Changed)
  BY FewSettings, FS_Subset DEF Changed
<1>2. /\ IsFiniteSet(PutBack) /\ Cardinality(PutBack) <= Cardinality(Changed)
      /\ Cardinality(Changed) \in Nat /\ Cardinality(PutBack) \in Nat
  BY <1>1, FS_Subset, FS_CardinalityType DEF EveryPassPutsOneBack
<1>3. QED BY <1>2 DEF EveryPassPutsOneBack, GoesOn, Rest

\* Then what refuses the start is a variable.
LEMMA AtTheEndAVariableRefuses ==
  ASSUME LoggingInv, Looping, ~GoesOn
  PROVE  refusal.about \in refusable \ hidden
<1>1. refusal \in Refusals(Settings \ PutBack, hidden) /\ SourcesInv
  BY DEF LoggingInv, RefusalIsOfThisStart, Looping
<1>2. refusal.about \in refusable \ hidden \/ (refusal.about \notin PutBack /\ refusal.about \in Changed)
  BY <1>1, RefusalsAreAbout
<1>3. QED BY <1>2, RoundsReachEverySetting DEF LoggingInv

-----------------------------------------------------------------------------
(* The steps                                                               *)

\* The start that is tried is refused with one of its own refusals, or runs.
LEMMA AttemptAnswers ==
  ASSUME NEW kept, NEW aside, NEW otherwise, Attempt(kept, aside, otherwise)
  PROVE  \/ logAt' = "started" /\ refusal' = refusal /\ Refusals(kept, aside) = {}
         \/ logAt' = otherwise /\ refusal' \in Refusals(kept, aside)
BY DEF Attempt

\* The definitions over the sources change only with them.
LEMMA SourcesDecide ==
  ASSUME UNCHANGED sources
  PROVE  /\ Changed' = Changed
         /\ \A kept, aside : Refusals(kept, aside)' = Refusals(kept, aside)
         /\ \A r : NamedKeys(r)' = NamedKeys(r) /\ OffendingVariables(r)' = OffendingVariables(r)
         /\ SourcesInv <=> SourcesInv'
BY DEF sources, Changed, Refusals, Refused, Quotes, NamedKeys, OffendingVariables, SourcesInv

\* A round puts back what it names, or all that is left: something, and nothing twice.
LEMMA RoundPutsBack ==
  ASSUME LoggingInv, PutBackAndTry
  PROVE  /\ PutBack' = PutBack \cup ToPutBack
         /\ ToPutBack # {} /\ ToPutBack \subseteq Rest
         /\ \A s \in ToPutBack : reasons'[s] = ReasonFor(s)
         /\ \A s \in PutBack : reasons'[s] = reasons[s]
<1>1. refusal \in Refusals(Settings \ PutBack, hidden) /\ SourcesInv
  BY DEF LoggingInv, RefusalIsOfThisStart, PutBackAndTry, Looping
<1>2. /\ refusal = [about |-> refusal.about, fields |-> refusal.fields, quotes |-> refusal.quotes]
      /\ refusal.about # "none"
  BY <1>1, RefusalsAreAbout
<1>3. ASSUME NEW s PROVE ReasonFor(s) # None
  <2>1. ReasonFor(s) = refusal \/ ReasonFor(s) = [refusal EXCEPT !.about = "others"]
    BY DEF ReasonFor
  <2>2. [refusal EXCEPT !.about = "others"].about = "others"
    BY <1>2
  <2>3. QED BY <1>2, <2>1, <2>2 DEF None
<1>4. ToPutBack # {} /\ ToPutBack \subseteq Rest /\ Rest \subseteq Settings /\ Rest \cap PutBack = {}
  BY DEF PutBackAndTry, GoesOn, ToPutBack, Rest, Named, NamedKeys, Changed
<1>5. reasons' = [s \in Settings |-> IF s \in ToPutBack THEN ReasonFor(s) ELSE reasons[s]]
  BY DEF PutBackAndTry
<1>6. PutBack' = PutBack \cup ToPutBack
  BY <1>3, <1>4, <1>5 DEF PutBack
<1>7. QED BY <1>4, <1>5, <1>6 DEF PutBack

\* One more round is one more setting at least.
LEMMA RoundCounts ==
  ASSUME LoggingInv, PutBackAndTry
  PROVE  EveryPassPutsOneBack'
<1>1. UNCHANGED sources /\ passes' = passes + 1
  BY DEF PutBackAndTry
<1>2. PutBack \subseteq Changed /\ passes \in Nat /\ passes <= Cardinality(PutBack)
  BY DEF LoggingInv, EveryPassPutsOneBack
<1>3. /\ PutBack' = PutBack \cup ToPutBack /\ ToPutBack # {}
      /\ ToPutBack \subseteq Changed /\ ToPutBack \cap PutBack = {}
  BY RoundPutsBack DEF Rest
<1>4. PutBack' \subseteq Changed' /\ PutBack' \subseteq Settings /\ PutBack \subseteq PutBack' /\ PutBack # PutBack'
  BY <1>1, <1>2, <1>3, SourcesDecide DEF Changed
<1>5. IsFiniteSet(PutBack')
  BY <1>4, FewSettings, FS_Subset
<1>6. /\ Cardinality(PutBack) \in Nat /\ Cardinality(PutBack') \in Nat
      /\ Cardinality(PutBack) < Cardinality(PutBack')
  <2>1. IsFiniteSet(PutBack) /\ Cardinality(PutBack) <= Cardinality(PutBack')
        /\ (Cardinality(PutBack') = Cardinality(PutBack) => PutBack' = PutBack)
    BY <1>4, <1>5, FS_Subset
  <2>2. QED BY <1>4, <1>5, <2>1, FS_CardinalityType
<1>7. QED BY <1>1, <1>2, <1>4, <1>6 DEF EveryPassPutsOneBack

\* While no variable refuses, a round's words are those of the settings it puts back.
LEMMA RoundSpeaksOfSettings ==
  ASSUME LoggingInv, PutBackAndTry
  PROVE  WordsOfSettings'
<1> SUFFICES ASSUME ~StillRefused(hidden), NEW s \in PutBack'
             PROVE  /\ table[s] = "accepted" => unnamed' \/ IsTakenForAnother(s)'
                    /\ \/ reasons'[s].about \in {s, "others"} \/ s \in reasons'[s].fields
                       \/ reasons'[s].about \in Settings /\ NamedKeys(reasons'[s]) = {}
                       \/ IsTakenForAnother(s)'
  <2>1. UNCHANGED <<sources, hidden>>
    BY DEF PutBackAndTry
  <2>2. QED BY <2>1, SourcesDecide DEF WordsOfSettings, StillRefused, sources
<1>1. refusal \in Refusals(Settings \ PutBack, hidden) /\ SourcesInv
  BY DEF LoggingInv, RefusalIsOfThisStart, PutBackAndTry, Looping
<1>2. /\ refusal.about \in Settings
      /\ \A o \in Settings : /\ o \in refusal.fields => table[o] = "refusedByField"
                             /\ o \in refusal.quotes => /\ table[refusal.about] = "refusedInWords"
                                                        /\ \/ o = refusal.about
                                                           \/ {o, refusal.about} \subseteq alike
  BY <1>1, SettingsRefusalNamesItsOwn DEF StillRefused
<1>3. unnamed' = (unnamed \/ Named = {})
  BY DEF PutBackAndTry
<1>4. CASE s \in PutBack
  <2>1. reasons'[s] = reasons[s] /\ (unnamed => unnamed')
    BY <1>3, <1>4, RoundPutsBack
  <2>2. IsTakenForAnother(s) => IsTakenForAnother(s)'
    BY <2>1 DEF IsTakenForAnother, PutBackAndTry, sources
  <2>3. QED BY <1>4, <2>1, <2>2 DEF LoggingInv, WordsOfSettings
<1>5. CASE s \in Named /\ s \in ToPutBack
  <2>1. s \in Settings /\ (s \in refusal.fields \/ s \in refusal.quotes)
    BY <1>5 DEF Named, NamedKeys, Changed
  <2>2. reasons'[s] = refusal
    BY <1>5, RoundPutsBack DEF ReasonFor
  <2>3. CASE s \in refusal.fields
    BY <1>2, <2>1, <2>2, <2>3
  <2>4. CASE s \in refusal.quotes /\ s = refusal.about
    BY <1>2, <2>1, <2>2, <2>4
  <2>5. CASE s \in refusal.quotes /\ s # refusal.about
    <3>1. {s, refusal.about} \subseteq alike /\ table[refusal.about] = "refusedInWords"
      BY <1>2, <2>1, <2>5
    <3>2. IsTakenForAnother(s)'
      BY <1>2, <2>2, <2>5, <3>1 DEF IsTakenForAnother, PutBackAndTry, sources
    <3>3. QED BY <3>2
  <2>6. QED BY <2>1, <2>3, <2>4, <2>5
<1>6. CASE s \notin Named /\ s \in ToPutBack
  <2>1. Named = {}
    BY <1>6 DEF ToPutBack
  <2>2. reasons'[s] = ReasonFor(s)
    BY <1>6, RoundPutsBack
  <2>3. CASE (refusal.fields \cup refusal.quotes) \cap Settings = {}
    <3>1. NamedKeys(refusal) = {}
      BY <2>3 DEF NamedKeys, Changed
    <3>2. QED BY <1>2, <1>3, <2>1, <2>2, <2>3, <3>1 DEF ReasonFor
  <2>4. CASE (refusal.fields \cup refusal.quotes) \cap Settings # {}
    <3>1. reasons'[s] = [refusal EXCEPT !.about = "others"]
      BY <1>6, <2>2, <2>4 DEF ReasonFor
    <3>2. refusal = [about |-> refusal.about, fields |-> refusal.fields, quotes |-> refusal.quotes]
      BY <1>1, RefusalsAreAbout
    <3>3. QED BY <1>3, <2>1, <3>1, <3>2
  <2>5. QED BY <2>3, <2>4
<1>7. QED BY <1>4, <1>5, <1>6, RoundPutsBack

\* The start as configured, with nothing put back.
LEMMA ConfiguredKeeps ==
  ASSUME LoggingInv, StartAsConfigured
  PROVE  LoggingInv'
<1>1. /\ logAt = "configured" /\ firstRefusal' = refusal'
      /\ UNCHANGED <<sources, passes, inPlace, hidden, reasons, unnamed>>
  BY DEF StartAsConfigured
<1>2. PutBack = {} /\ PutBack' = {} /\ hidden = {} /\ inPlace = None /\ SourcesInv
  BY <1>1 DEF LoggingInv, AsideInTurn, PutBack
<1>3. \/ logAt' = "started" /\ Refusals(Settings, {}) = {}
      \/ logAt' = "inPlace" /\ refusal' \in Refusals(Settings, {})
  BY AttemptAnswers DEF StartAsConfigured
<1>4. SourcesInv' /\ EveryPassPutsOneBack'
  BY <1>1, <1>2, SourcesDecide DEF LoggingInv, EveryPassPutsOneBack
<1>5. RefusalIsOfThisStart'
  BY <1>1, <1>2, <1>3, SourcesDecide DEF RefusalIsOfThisStart
<1>6. AsideInTurn'
  BY <1>1, <1>2, <1>3 DEF AsideInTurn
<1>7. WordsOfSettings' /\ RaisedOnlyForAnUnnamedVariable'
  BY <1>2, <1>3 DEF WordsOfSettings, RaisedOnlyForAnUnnamedVariable
<1>8. QED BY <1>4, <1>5, <1>6, <1>7 DEF LoggingInv

\* A round, in place or with the variables set aside.
LEMMA RoundKeeps ==
  ASSUME LoggingInv, PutBackAndTry
  PROVE  LoggingInv'
<1>1. /\ logAt \in {"inPlace", "aside"}
      /\ UNCHANGED <<sources, firstRefusal, inPlace, hidden>>
  BY DEF PutBackAndTry, Looping
<1>2. Settings \ PutBack' = Settings \ (PutBack \cup ToPutBack)
  BY RoundPutsBack
<1>3. \/ logAt' = "started" /\ Refusals(Settings \ PutBack', hidden) = {}
      \/ logAt' = logAt /\ refusal' \in Refusals(Settings \ PutBack', hidden)
  BY <1>2, AttemptAnswers DEF PutBackAndTry
<1>4. SourcesInv' /\ EveryPassPutsOneBack' /\ WordsOfSettings'
  BY <1>1, SourcesDecide, RoundCounts, RoundSpeaksOfSettings DEF LoggingInv
<1>5. RefusalIsOfThisStart'
  BY <1>1, <1>3, SourcesDecide DEF LoggingInv, RefusalIsOfThisStart
<1>6. AsideInTurn'
  BY <1>1, <1>3, SourcesDecide DEF LoggingInv, AsideInTurn
<1>7. RaisedOnlyForAnUnnamedVariable'
  BY <1>1, <1>3 DEF RaisedOnlyForAnUnnamedVariable
<1>8. QED BY <1>4, <1>5, <1>6, <1>7 DEF LoggingInv

\* Every setting is back: the variables the first refusal quoted are set aside.
LEMMA GivenUpInPlaceKeeps ==
  ASSUME LoggingInv, GiveUpInPlace
  PROVE  LoggingInv'
<1>1. /\ logAt = "inPlace" /\ ~GoesOn /\ inPlace' = refusal
      /\ UNCHANGED <<sources, refusal, firstRefusal>>
  BY DEF GiveUpInPlace
<1>2. SourcesInv /\ hidden = {} /\ firstRefusal \in Refusals(Settings, {})
  BY <1>1 DEF LoggingInv, AsideInTurn, RefusalIsOfThisStart
<1>3. refusal.about \in refusable
  BY <1>1, <1>2, AtTheEndAVariableRefuses DEF Looping
<1>4. OffendingVariables(firstRefusal) # {} /\ refusal.about \in Variables
  BY <1>2, <1>3 DEF OffendingVariables, SourcesInv
<1>5. /\ logAt' = "variablesAside" /\ hidden' = OffendingVariables(firstRefusal)
      /\ passes' = 0 /\ reasons' = [s \in Settings |-> None]
  BY <1>4 DEF GiveUpInPlace
<1>6. PutBack' = {}
  BY <1>5 DEF PutBack
<1>7. SourcesInv' /\ EveryPassPutsOneBack'
  BY <1>1, <1>2, <1>5, <1>6, SourcesDecide, FS_EmptySet DEF EveryPassPutsOneBack
<1>8. RefusalIsOfThisStart'
  BY <1>1, <1>2, <1>5, SourcesDecide DEF RefusalIsOfThisStart
<1>9. AsideInTurn'
  BY <1>1, <1>4, <1>5, <1>6, SourcesDecide, SourcesDiffer DEF AsideInTurn, None
<1>10. WordsOfSettings' /\ RaisedOnlyForAnUnnamedVariable'
  BY <1>5, <1>6 DEF WordsOfSettings, RaisedOnlyForAnUnnamedVariable
<1>11. QED BY <1>7, <1>8, <1>9, <1>10 DEF LoggingInv

\* The start over the variables that are left.
LEMMA SetAsideKeeps ==
  ASSUME LoggingInv, SetVariablesAside
  PROVE  LoggingInv'
<1>1. /\ logAt = "variablesAside"
      /\ UNCHANGED <<sources, passes, firstRefusal, inPlace, hidden, reasons, unnamed>>
  BY DEF SetVariablesAside
<1>2. PutBack = {} /\ PutBack' = {} /\ hidden # {} /\ SourcesInv
  BY <1>1 DEF LoggingInv, AsideInTurn, PutBack
<1>3. \/ logAt' = "started" /\ Refusals(Settings, hidden) = {}
      \/ logAt' = "aside" /\ refusal' \in Refusals(Settings, hidden)
  BY AttemptAnswers DEF SetVariablesAside
<1>4. SourcesInv' /\ EveryPassPutsOneBack'
  BY <1>1, <1>2, SourcesDecide DEF LoggingInv, EveryPassPutsOneBack
<1>5. RefusalIsOfThisStart'
  BY <1>1, <1>2, <1>3, SourcesDecide DEF LoggingInv, RefusalIsOfThisStart
<1>6. AsideInTurn'
  BY <1>1, <1>2, <1>3, SourcesDecide DEF LoggingInv, AsideInTurn
<1>7. WordsOfSettings' /\ RaisedOnlyForAnUnnamedVariable'
  BY <1>2, <1>3 DEF WordsOfSettings, RaisedOnlyForAnUnnamedVariable
<1>8. QED BY <1>4, <1>5, <1>6, <1>7 DEF LoggingInv

\* The end of the rounds with variables set aside: one that no words quoted is left.
LEMMA GivenUpAsideKeeps ==
  ASSUME LoggingInv, GiveUpAside
  PROVE  LoggingInv'
<1>1. /\ logAt = "aside" /\ ~GoesOn /\ logAt' = "raised"
      /\ UNCHANGED <<sources, passes, refusal, firstRefusal, inPlace, hidden, reasons, unnamed>>
  BY DEF GiveUpAside
<1>2. SourcesInv /\ hidden = OffendingVariables(firstRefusal)
  BY <1>1 DEF LoggingInv, AsideInTurn
<1>3. PICK v \in refusable : v \notin hidden /\ v \in present
  BY <1>1, <1>2, AtTheEndAVariableRefuses DEF Looping, SourcesInv
<1>4. v \notin firstRefusal.quotes /\ firstRefusal.quotes \cap present # {}
  BY <1>2, <1>3 DEF OffendingVariables
<1>5. RaisedOnlyForAnUnnamedVariable'
  BY <1>1, <1>3, <1>4 DEF RaisedOnlyForAnUnnamedVariable, sources
<1>6. PutBack' = PutBack
  BY <1>1 DEF PutBack
<1>7. SourcesInv' /\ EveryPassPutsOneBack'
  BY <1>1, <1>2, <1>6, SourcesDecide DEF LoggingInv, EveryPassPutsOneBack
<1>8. RefusalIsOfThisStart'
  BY <1>1, <1>6, SourcesDecide DEF LoggingInv, RefusalIsOfThisStart
<1>9. AsideInTurn'
  BY <1>1, <1>6, SourcesDecide DEF LoggingInv, AsideInTurn
<1>10. WordsOfSettings'
  BY <1>1, <1>6, SourcesDecide DEF LoggingInv, WordsOfSettings, IsTakenForAnother, StillRefused, sources
<1>11. QED BY <1>5, <1>7, <1>8, <1>9, <1>10 DEF LoggingInv

\* Every step keeps the invariant.
LEMMA LoggingStepKeeps ==
  ASSUME LoggingInv, [LoggingNext]_logVars
  PROVE  LoggingInv'
<1>1. CASE UNCHANGED logVars
  <2>1. UNCHANGED <<sources, logAt, passes, refusal, firstRefusal, inPlace, hidden, reasons, unnamed>>
    BY <1>1 DEF logVars, sources
  <2>2. PutBack' = PutBack
    BY <2>1 DEF PutBack
  <2>3. SourcesInv' /\ EveryPassPutsOneBack' /\ RefusalIsOfThisStart'
    BY <2>1, <2>2, SourcesDecide DEF LoggingInv, EveryPassPutsOneBack, RefusalIsOfThisStart
  <2>4. AsideInTurn' /\ RaisedOnlyForAnUnnamedVariable'
    BY <2>1, <2>2, SourcesDecide DEF LoggingInv, AsideInTurn, RaisedOnlyForAnUnnamedVariable, sources
  <2>5. WordsOfSettings'
    BY <2>1, <2>2, SourcesDecide DEF LoggingInv, WordsOfSettings, IsTakenForAnother, StillRefused, sources
  <2>6. QED BY <2>3, <2>4, <2>5 DEF LoggingInv
<1>2. QED BY <1>1, ConfiguredKeeps, RoundKeeps, GivenUpInPlaceKeeps, SetAsideKeeps, GivenUpAsideKeeps
          DEF LoggingNext

LEMMA LoggingStartsInOrder == LoggingInit => LoggingInv
<1> SUFFICES ASSUME LoggingInit PROVE LoggingInv
  OBVIOUS
<1>1. /\ logAt = "configured" /\ passes = 0 /\ firstRefusal = None /\ inPlace = None /\ hidden = {}
      /\ PutBack = {}
  BY DEF LoggingInit, PutBack
<1>2. SourcesInv
  BY DEF LoggingInit, SourcesInv, Refused
<1>3. EveryPassPutsOneBack /\ RefusalIsOfThisStart /\ AsideInTurn
  BY <1>1, FS_EmptySet DEF EveryPassPutsOneBack, RefusalIsOfThisStart, AsideInTurn
<1>4. WordsOfSettings /\ RaisedOnlyForAnUnnamedVariable
  BY <1>1 DEF WordsOfSettings, RaisedOnlyForAnUnnamedVariable
<1>5. QED BY <1>2, <1>3, <1>4 DEF LoggingInv

-----------------------------------------------------------------------------
(* What is so of every start                                               *)

\* The invariant holds the four promises.
LEMMA InvariantKeepsThePromises == LoggingInv => RefusedSettingsFallBack
<1> SUFFICES ASSUME LoggingInv PROVE RefusedSettingsFallBack
  OBVIOUS
<1>1. ASSUME Started
      PROVE  /\ ~StillRefused(hidden)
             /\ \A s \in Settings : table[s] \in {"refusedByField", "refusedInWords"} => s \in PutBack
  <2>1. Refusals(Settings \ PutBack, hidden) = {}
    BY <1>1 DEF Started, LoggingInv, RefusalIsOfThisStart
  <2>2. QED BY <2>1, NothingIsLeftToRefuse DEF Refused, StillRefused
<1>2. AcceptedSettingsAreKept
  BY <1>1 DEF LoggingInv, WordsOfSettings, AcceptedSettingsAreKept
<1>3. EachReasonIsItsOwn
  BY <1>1 DEF LoggingInv, WordsOfSettings, EachReasonIsItsOwn
<1>4. ASSUME Started, hidden # {}
      PROVE  ReasonOfVariables.about \in Variables
  <2>1. inPlace.about \in Variables /\ firstRefusal \in Refusals(Settings, {}) /\ SourcesInv
    BY <1>4 DEF LoggingInv, AsideInTurn, RefusalIsOfThisStart
  <2>2. CASE PutBack = {}
    <3>1. Refused(Settings, "refusedInWords") = {} /\ Refused(Settings, "refusedByField") = {}
      BY <1>1, <1>4, <2>2 DEF Refused
    <3>2. firstRefusal.about \in refusable
      BY <2>1, <3>1 DEF Refusals
    <3>3. QED BY <2>1, <2>2, <3>2 DEF ReasonOfVariables, SourcesInv
  <2>3. CASE PutBack # {}
    BY <1>4, <2>1, <2>3 DEF ReasonOfVariables, LoggingInv, AsideInTurn
  <2>4. QED BY <2>2, <2>3
<1>5. VariablesGetTheirOwnReason
  BY <1>4 DEF VariablesGetTheirOwnReason
<1>6. QED BY <1>2, <1>3, <1>5 DEF LoggingInv, RefusedSettingsFallBack

\* setup.start_runtime, whatever is refused: what was accepted stays and each value put
\* back carries the reason it was refused for, but for settings that share the text a
\* refusal quotes; and only a refusal that quotes one refused variable and not another
\* ends the start.
THEOREM SettingsFallBack == LoggingSpec => []RefusedSettingsFallBack
<1>1. LoggingInv /\ [LoggingNext]_logVars => LoggingInv'
  BY LoggingStepKeeps
<1>2. QED BY <1>1, LoggingStartsInOrder, InvariantKeepsThePromises, PTL DEF LoggingSpec

-----------------------------------------------------------------------------
(* Types                                                                   *)

\* What the library refuses with is a refusal, of settings and variables there are.
LEMMA RefusalsAreTyped ==
  ASSUME SourcesInv, NEW kept \in SUBSET Settings, NEW aside
  PROVE  Refusals(kept, aside) \subseteq Refusal
<1>1. ASSUME NEW source PROVE Quotes(source) \in SUBSET (Settings \cup Variables)
  BY DEF Quotes, SourcesInv
<1>2. ASSUME NEW v \in refusable \ aside
      PROVE  [about |-> v, fields |-> {}, quotes |-> Quotes(v)] \in Refusal
  BY <1>1 DEF Refusal, SourcesInv
<1>3. ASSUME NEW s \in kept
      PROVE  /\ [about |-> s, fields |-> {}, quotes |-> Quotes(s)] \in Refusal
             /\ [about |-> s, fields |-> Refused(kept, "refusedByField"), quotes |-> {}] \in Refusal
  BY <1>1 DEF Refusal, Refused
<1>4. \A kind : Refused(kept, kind) \subseteq kept
  BY DEF Refused
<1> QED BY <1>2, <1>3, <1>4 DEF Refusals

\* The refusals at hand, the reasons and the rounds are what they are said to be.
RefusalsAreKnown ==
  /\ {refusal, firstRefusal, inPlace} \subseteq Refusal \cup {None}
  /\ reasons \in [Settings -> Refusal \cup {None}] /\ unnamed \in BOOLEAN

\* With the invariant that is the whole type.
LEMMA LoggingIsTyped == LoggingInv /\ RefusalsAreKnown => LoggingTypeOK
<1> SUFFICES ASSUME LoggingInv, RefusalsAreKnown PROVE LoggingTypeOK
  OBVIOUS
<1>1. SourcesInv /\ EveryPassPutsOneBack /\ RefusalIsOfThisStart /\ AsideInTurn
  BY DEF LoggingInv
<1>2. passes \in 0..Cardinality(Settings) + 1
  <2>1. PutBack \subseteq Settings
    BY DEF PutBack
  <2>2. Cardinality(PutBack) <= Cardinality(Settings) /\ IsFiniteSet(PutBack)
    BY <2>1, FewSettings, FS_Subset
  <2>3. Cardinality(PutBack) \in Nat /\ Cardinality(Settings) \in Nat
    BY <2>2, FewSettings, FS_CardinalityType
  <2> QED BY <1>1, <2>2, <2>3 DEF EveryPassPutsOneBack
<1>3. hidden \subseteq present
  <2>1. hidden # {} => hidden = OffendingVariables(firstRefusal)
    BY <1>1 DEF AsideInTurn
  <2>2. OffendingVariables(firstRefusal) \subseteq present
    BY DEF OffendingVariables
  <2> QED BY <2>1, <2>2
<1>4. logAt \in {"configured", "inPlace", "variablesAside", "aside"} \cup Ended
  BY <1>1 DEF AsideInTurn, Ended
<1> QED BY <1>1, <1>2, <1>3, <1>4 DEF LoggingTypeOK, SourcesInv, RefusalsAreKnown

\* Every step of the start hands on refusals it was given.
LEMMA RefusalsStayKnown ==
  ASSUME LoggingInv, RefusalsAreKnown, [LoggingNext]_logVars
  PROVE  RefusalsAreKnown'
<1>1. SourcesInv
  BY DEF LoggingInv
<1>2. \A kept \in SUBSET Settings : \A aside : Refusals(kept, aside) \subseteq Refusal
  BY <1>1, RefusalsAreTyped
<1>3. CASE StartAsConfigured
  BY <1>2, <1>3 DEF StartAsConfigured, Attempt, RefusalsAreKnown
<1>4. CASE PutBackAndTry
  <2>1. refusal \in Refusal
    <3>1. refusal \in Refusals(Settings \ PutBack, hidden)
      BY <1>4 DEF LoggingInv, RefusalIsOfThisStart, PutBackAndTry, Looping
    <3> QED BY <1>2, <3>1
  <2>2. [refusal EXCEPT !.about = "others"] \in Refusal
    BY <2>1 DEF Refusal
  <2>3. \A s : ReasonFor(s) \in Refusal
    BY <2>1, <2>2 DEF ReasonFor
  <2>4. reasons' \in [Settings -> Refusal \cup {None}]
    BY <1>4, <2>3 DEF PutBackAndTry, RefusalsAreKnown
  <2>5. refusal' = refusal \/ refusal' \in Refusals(Settings \ (PutBack \cup ToPutBack), hidden)
    BY <1>4 DEF PutBackAndTry, Attempt
  <2>6. refusal' \in Refusal
    BY <1>2, <2>1, <2>5
  <2>7. unnamed' \in BOOLEAN /\ UNCHANGED <<firstRefusal, inPlace>>
    BY <1>4 DEF PutBackAndTry, RefusalsAreKnown
  <2> QED BY <2>4, <2>6, <2>7 DEF RefusalsAreKnown
<1>5. CASE GiveUpInPlace
  BY <1>5 DEF GiveUpInPlace, RefusalsAreKnown
<1>6. CASE SetVariablesAside
  BY <1>2, <1>6 DEF SetVariablesAside, Attempt, RefusalsAreKnown
<1>7. CASE GiveUpAside \/ UNCHANGED logVars
  BY <1>7 DEF GiveUpAside, logVars, RefusalsAreKnown
<1> QED BY <1>3, <1>4, <1>5, <1>6, <1>7 DEF LoggingNext

\* A start begins with no refusal at hand.
LEMMA NothingRefusedYet == LoggingInit => RefusalsAreKnown
<1> SUFFICES ASSUME LoggingInit PROVE RefusalsAreKnown
  OBVIOUS
<1>1. reasons = [s \in Settings |-> None] /\ unnamed = FALSE
  BY DEF LoggingInit
<1>2. refusal = None /\ firstRefusal = None /\ inPlace = None
  BY DEF LoggingInit
<1>3. reasons \in [Settings -> Refusal \cup {None}]
  BY <1>1
<1> QED BY <1>1, <1>2, <1>3 DEF RefusalsAreKnown

\* Whatever is refused, the start goes from place to place, over the sources it was
\* given, and makes one round more than there are settings at most.
THEOREM LoggingStaysTyped == LoggingSpec => []LoggingTypeOK
<1>1. LoggingInv /\ RefusalsAreKnown /\ [LoggingNext]_logVars => (LoggingInv /\ RefusalsAreKnown)'
  BY LoggingStepKeeps, RefusalsStayKnown
<1> QED BY <1>1, LoggingStartsInOrder, NothingRefusedYet, LoggingIsTyped, PTL DEF LoggingSpec

-----------------------------------------------------------------------------
(* The way to the view.                                                    *)

\* Where a run has not come to the offer, or to the question, yet.
AtStart == {"starting", "importing"}
BeforeTheOffer == {"absent", "entry"} \cup AtStart \cup {"beforeOffer", "offering"}
BeforeAsking == BeforeTheOffer \cup {"beforeAsking", "asking"}
\* Where a stop, a pause and a resume are called from, and what they return to.
Stops(r) ==
  \/ at[r] \in {"parsed", "beforePage"} /\ next[r] = "page"
  \/ at[r] = "beforeView" /\ next[r] = "view"
  \/ at[r] = "finally" /\ next[r] = "over"
Pauses(r) ==
  \/ at[r] = "beforeOffer" /\ next[r] = "offering"
  \/ at[r] = "beforeAsking" /\ next[r] = "asking"
Resumes(r) ==
  \/ at[r] = "starting" /\ next[r] = "importing"
  \/ at[r] = "resuming" /\ next[r] = "reading"
\* The steps of a call that draws, of one that erases, and those where the line stands
\* still.
ToDraw == {"resume", "holdToDraw"} \cup Drawing
ToErase == {"forget", "holdToErase"} \cup Erasing
AtRest == {Idle, "resume", "forget", "release"}

\* A call of the notice is made, and returns, where the run left off for it.
CallsInPlace ==
  \A r \in Runs :
    /\ step[r] \in ToDraw => Resumes(r)
    /\ step[r] \in ToErase => Stops(r) \/ Pauses(r)
    /\ step[r] = "release" => Stops(r) \/ Pauses(r) \/ Resumes(r)

\* What stands on the terminal is what the step and the place say: a signal that
\* ended the copy may have left it anyhow.
NoticeIn(r) ==
  ~Killed(r) =>
    /\ held[r] = "no" <=> step[r] \in {Idle, "resume", "holdToDraw", "forget", "holdToErase"}
    /\ step[r] \in {"holdToDraw", "note"} => ~live[r] /\ line[r] = "off"
    /\ step[r] \in Drawing \ {"note"} => live[r]
    /\ step[r] \in {"holdToErase"} \cup Erasing => ~live[r]
    /\ step[r] = "draw" => line[r] = "off"
    /\ step[r] \in {"drawn", "erased"} => line[r] = "half"
    /\ step[r] \in {"holdToErase", "erase"} => line[r] = "on"
    /\ step[r] = "release" => (live[r] <=> at[r] \in {"starting", "resuming"})
    /\ step[r] \in AtRest /\ live[r] => line[r] = "on"
    /\ step[r] \in AtRest => line[r] # "half"
    /\ step[r] \in AtRest /\ ~live[r] /\ line[r] = "on" => unheld[r]
    /\ unheld[r] => at[r] \in {"finally", "over"}
    /\ at[r] = "over" => (line[r] # "off" => unheld[r])
    /\ at[r] \in Taken => ~live[r]
    /\ at[r] \in {"absent", "entry"} => ~live[r]

NoticeInPlace == \A r \in Runs : NoticeIn(r)

\* The two runs wait for one another, and only a run that has ended has an answer.
RunsInPlace ==
  /\ \A r \in Runs : at[r] \in {"absent", "entry", "over"} => step[r] = Idle
  /\ \A r \in Runs : at[r] \in Taken => step[r] = Idle
  /\ Killed("copy") => at["copy"] = "over"
  /\ at["first"] # "absent"
  /\ at["copy"] \notin {"offering", "relaunched"}
  /\ at["copy"] = "beforeOffer" => step["copy"] = Idle
  /\ at["copy"] = "absent" => code["copy"] = Unset
  /\ at["copy"] # "absent" => at["first"] \in {"relaunched", "finally", "over"}
  /\ \A r \in Runs : at[r] \in {"finally", "over"} => code[r] # Unset

\* The copy asks nothing; the first run passes each question once.
AskedInTurn ==
  /\ asked["copy"] = 0 /\ offered["copy"] = 0
  /\ asked["first"] <= 1 /\ offered["first"] <= 1
  /\ at["first"] \in BeforeAsking => asked["first"] = 0
  /\ at["first"] \in BeforeTheOffer => offered["first"] = 0

\* Once the copy was started it alone decides what the first run leaves with.
AnsweredByTheCopy ==
  at["copy"] # "absent" /\ at["first"] \in {"finally", "over"} =>
    /\ at["copy"] = "over"
    /\ code["first"] \in {ExitCode.SIGNAL_INT, ExitStatus(code["copy"])}

\* A number a run can leave with, not yet unset and not a signal.
IsAnAnswer(c) == c \in Codes /\ c # Unset /\ c # 0 - Signal

\* Every exit code of the program is such a number, and a signal becomes one.
LEMMA CodesAreAnswers ==
  /\ IsAnAnswer(0) /\ IsAnAnswer(1) /\ IsAnAnswer(ExitCode.INVALID_ARGUMENT) /\ IsAnAnswer(ExitCode.USAGE_ERROR)
  /\ IsAnAnswer(ExitCode.SIGNAL_INT) /\ IsAnAnswer(ForABug)
  /\ \A c \in PageCodes : IsAnAnswer(c)
  /\ Unset \in Codes /\ 0 - Signal \notin Codes
  /\ \A c \in Codes : ExitStatus(c) = c
  /\ ExitStatus(0 - Signal) = 128 + Signal /\ IsAnAnswer(128 + Signal)
BY SignalIsANumber DEF IsAnAnswer, Codes, PageCodes, Unset, ForABug, ExitCode, ExitStatus

\* Nothing but the copy is ended by a signal that does not reach both.
LEMMA KilledIsTheCopy ==
  ASSUME StartTypeOK
  PROVE ~Killed("first")
BY CodesAreAnswers DEF StartTypeOK, Killed

StartInv ==
  /\ StartTypeOK /\ CallsInPlace /\ NoticeInPlace /\ RunsInPlace /\ AskedInTurn /\ AnsweredByTheCopy

-----------------------------------------------------------------------------
(* Types                                                                   *)

NoticeIsTyped ==
  /\ live \in [Runs -> BOOLEAN] /\ unheld \in [Runs -> BOOLEAN]
  /\ line \in [Runs -> {"off", "half", "on"}] /\ held \in [Runs -> {"no", "held", "came"}]

\* A call returns to a place, with the notice as it has left it.
LEMMA ReturnIsTyped ==
  ASSUME StartTypeOK, NEW r \in Runs, Return(r), NoticeIsTyped'
  PROVE  StartTypeOK'
BY DEF Return, Goto, given, asks, Idle, NoticeIsTyped, StartTypeOK, Runs, Steps, Places, Taken, StoppedFor

\* A call goes on to a step, with the notice as it has left it.
LEMMA ProceedIsTyped ==
  ASSUME StartTypeOK, NEW r \in Runs, NEW w \in Steps, Proceed(r, w), NoticeIsTyped', UNCHANGED stopped
  PROVE  StartTypeOK'
BY DEF Proceed, given, asks, NoticeIsTyped, StartTypeOK

\* What Ctrl+C unwinds leaves the run with an answer.
LEMMA UnwindIsTyped ==
  ASSUME StartTypeOK, NEW r \in Runs, Unwind(r), NoticeIsTyped', interrupts' \in 0..MaxInterrupts,
         UNCHANGED <<world, elevated, settings, stopped, asked, offered>>
  PROVE  StartTypeOK'
BY CodesAreAnswers
   DEF Unwind, Goto, Idle, IsAnAnswer, NoticeIsTyped, StartTypeOK, Runs, Steps, Places, Taken,
       StoppedFor

\* Every step of either run keeps the types.
LEMMA StartStaysTyped ==
  ASSUME StartTypeOK, NEW r \in Runs, StartStep(r) \/ Answered(r) \/ PressCtrlC(r)
  PROVE  StartTypeOK'
<1> USE DEF StartTypeOK, given
<1>1. CASE HoldCtrlC(r)
  BY <1>1 DEF HoldCtrlC, Proceed, asks, Steps, Drawing, Erasing
<1>2. CASE NoteTheLine(r)
  BY <1>2 DEF NoteTheLine, Proceed, asks, Steps, Drawing
<1>3. CASE Draw(r)
  BY <1>3 DEF Draw, Proceed, asks, Steps, Drawing
<1>4. CASE Erase(r)
  BY <1>4 DEF Erase, Erasing, Proceed, asks, Steps
<1>5. CASE Begin(r) \/ NoTerminal(r) \/ StartTheOffer(r) \/ PauseToAsk(r) \/ ResumeTheLine(r) \/ Finally(r)
  BY <1>5 DEF Begin, Await, Goto, Call, asks, notice, NoTerminal, StartTheOffer, PauseToAsk, ResumeTheLine,
     Finally, Runs, Places, Taken, StoppedFor, Steps
<1>6. CASE Import(r)
  BY <1>6, CodesAreAnswers DEF Import, Leave, Goto, notice, Await, Call, asks, Move, IsAnAnswer, Runs, Places,
     StoppedFor, Steps
<1>7. CASE NoOffer(r) \/ NotAsked(r)
  BY <1>7 DEF NoOffer, Move, Goto, asks, notice, NotAsked, Places, Steps
<1>8. CASE Read(r)
  BY <1>8, CodesAreAnswers DEF Read, Leave, Goto, notice, Await, Call, asks, IsAnAnswer, Runs, Places,
     StoppedFor,
     Steps
<1>9. CASE CopyIsOver(r) \/ CloseView(r) \/ PrintPage(r)
  BY <1>9, CodesAreAnswers DEF CopyIsOver, Leave, Goto, notice, CloseView, PrintPage, IsAnAnswer, Runs, Places
<1>10. CASE EndTheOffer(r)
  BY <1>10 DEF EndTheOffer, Goto, notice, Places
<1>11. CASE Ask(r)
  BY <1>11 DEF Ask, Goto, notice, Runs, Places, Taken
<1>12. CASE Resume(r)
  <2>1. CASE Return(r) /\ UNCHANGED <<live, line, held, unheld>>
    BY <2>1, ReturnIsTyped DEF NoticeIsTyped, StartTypeOK
  <2>2. CASE Proceed(r, "holdToDraw") /\ UNCHANGED notice
    BY <2>2, ProceedIsTyped DEF NoticeIsTyped, StartTypeOK, Steps, notice
  <2> QED BY <1>12, <2>1, <2>2 DEF Resume
<1>13. CASE Forget(r)
  <2>1. CASE Return(r) /\ UNCHANGED <<live, line, held, unheld>>
    BY <2>1, ReturnIsTyped DEF NoticeIsTyped, StartTypeOK
  <2>2. CASE /\ live' = [live EXCEPT ![r] = FALSE] /\ Proceed(r, "holdToErase")
             /\ UNCHANGED <<stopped, line, held, unheld>>
    BY <2>2, ProceedIsTyped DEF NoticeIsTyped, StartTypeOK, Steps
  <2> QED BY <1>13, <2>1, <2>2 DEF Forget
<1>14. CASE Release(r)
  <2>1. CASE Return(r)
    BY <1>14, <2>1, ReturnIsTyped DEF Release, NoticeIsTyped, StartTypeOK
  <2>2. CASE Unwind(r) /\ UNCHANGED <<stopped, given, asked, offered>>
    BY <1>14, <2>2, UnwindIsTyped DEF Release, NoticeIsTyped, StartTypeOK, given
  <2> QED BY <1>14, <2>1, <2>2 DEF Release
<1>15. CASE PressCtrlC(r)
  <2>1. CASE held[r] = "no"
    <3>1. interrupts' \in 0..MaxInterrupts
      BY <1>15, MaxInterruptsIsNat DEF PressCtrlC, StartTypeOK
    <3>2. Unwind(r) /\ NoticeIsTyped'
      BY <1>15, <2>1 DEF PressCtrlC, ErasingIsDue, NoticeIsTyped, StartTypeOK
    <3> QED BY <1>15, <2>1, <3>1, <3>2, UnwindIsTyped DEF PressCtrlC
  <2>2. CASE held[r] # "no"
    BY <1>15, <2>2, MaxInterruptsIsNat DEF PressCtrlC, StartTypeOK
  <2> QED BY <2>1, <2>2
<1> QED
  BY <1>1, <1>2, <1>3, <1>4, <1>5, <1>6, <1>7, <1>8, <1>9, <1>10, <1>11, <1>12, <1>13, <1>14, <1>15
     DEF StartStep, Answered

-----------------------------------------------------------------------------
(* Every step of either run keeps each part                                *)

\* A call is begun where its kind belongs, and the place does not move until it returns.
LEMMA CallsStayInPlace ==
  ASSUME StartTypeOK, CallsInPlace,
         NEW r \in Runs, StartStep(r) \/ Answered(r) \/ PressCtrlC(r)
  PROVE  CallsInPlace'
<1> USE DEF CallsInPlace, Pauses, Resumes, Stops
<1>1. CASE Resume(r) \/ Forget(r)
  BY <1>1 DEF Resume, Return, Idle, Goto, Proceed, Forget, StartTypeOK, Runs, Drawing, Erasing, ToDraw,
     ToErase
<1>2. CASE HoldCtrlC(r) \/ NoteTheLine(r)
  BY <1>2 DEF HoldCtrlC, Proceed, NoteTheLine, StartTypeOK, Drawing, Erasing, ToDraw, ToErase
<1>3. CASE Draw(r)
  BY <1>3 DEF Draw, Proceed, Drawing, Erasing, ToDraw, ToErase
<1>4. CASE Erase(r)
  BY <1>4 DEF Erase, Proceed, Drawing, ToDraw, ToErase
<1>5. CASE Release(r)
  BY <1>5 DEF Release, Return, Idle, Goto, Unwind, StartTypeOK, Drawing, Erasing, ToDraw, ToErase
<1>6. CASE Begin(r) \/ NoTerminal(r) \/ StartTheOffer(r) \/ PauseToAsk(r) \/ ResumeTheLine(r) \/ Finally(r)
  BY <1>6 DEF Begin, Await, Goto, Call, NoTerminal, StartTheOffer, PauseToAsk, ResumeTheLine, Finally,
     StartTypeOK, Drawing, Erasing, ToDraw, ToErase
<1>7. CASE Import(r)
  BY <1>7 DEF Import, Here, Leave, Goto, Await, Call, Move, StartTypeOK, Drawing, ToDraw
<1>8. CASE NoOffer(r) \/ NotAsked(r)
  BY <1>8 DEF NoOffer, Here, Idle, Move, Goto, NotAsked, StartTypeOK, Erasing, ToErase
<1>9. CASE Read(r)
  BY <1>9 DEF Read, Here, Leave, Goto, Await, Call, StartTypeOK, Drawing, ToDraw, ToErase
<1>10. CASE CopyIsOver(r) \/ CloseView(r) \/ PrintPage(r)
  BY <1>10 DEF CopyIsOver, Here, Leave, Goto, CloseView, PrintPage, StartTypeOK, Erasing, ToErase
<1>11. CASE EndTheOffer(r)
  BY <1>11 DEF EndTheOffer, Here, Goto
<1>12. CASE Ask(r)
  BY <1>12 DEF Ask, Here, Goto, StartTypeOK
<1>13. CASE PressCtrlC(r)
  BY <1>13 DEF PressCtrlC, Unwind, Goto, Idle, StartTypeOK, Places, StoppedFor, Drawing, Erasing, ToDraw,
     ToErase
<1> QED
  BY <1>1, <1>2, <1>3, <1>4, <1>5, <1>6, <1>7, <1>8, <1>9, <1>10, <1>11, <1>12, <1>13
     DEF StartStep, Answered

\* The line is drawn and erased between holding Ctrl+C and letting it go, and whoever
\* takes the terminal finds it gone.
LEMMA NoticeStaysInPlace ==
  ASSUME StartTypeOK, CallsInPlace, NoticeInPlace, RunsInPlace,
         NEW r \in Runs, StartStep(r) \/ Answered(r) \/ PressCtrlC(r)
  PROVE  NoticeInPlace'
<1> USE DEF Killed, NoticeIn, NoticeInPlace
<1>1. CASE Resume(r) \/ Forget(r)
  BY <1>1 DEF Resume, NothingToDraw, Return, Idle, Goto, asks, Proceed, notice, Forget, StartTypeOK, Runs,
     Taken, Drawing, Erasing, AtRest, CallsInPlace, ToDraw, Resumes, ToErase, Stops, Pauses
<1>2. CASE HoldCtrlC(r) \/ NoteTheLine(r)
  BY <1>2 DEF HoldCtrlC, Proceed, asks, NoteTheLine, StartTypeOK, Taken, Idle, Drawing, Erasing, AtRest,
     RunsInPlace
<1>3. CASE Draw(r)
  BY <1>3 DEF Draw, Proceed, asks, StartTypeOK, Idle, Drawing, Erasing, AtRest, CallsInPlace, ToDraw, Resumes
<1>4. CASE Erase(r)
  BY <1>4 DEF Erase, Erasing, Proceed, asks, StartTypeOK, Runs, Idle, Drawing, AtRest, CallsInPlace, ToErase,
     Stops, Pauses
<1>5. CASE Release(r)
  BY <1>5, CodesAreAnswers DEF Release, Return, Idle, Goto, asks, Unwind, StartTypeOK, Runs, Taken, Drawing,
     Erasing, AtRest, CallsInPlace, Resumes, Stops, Pauses, RunsInPlace
<1>6. CASE Begin(r) \/ NoTerminal(r) \/ StartTheOffer(r) \/ PauseToAsk(r) \/ ResumeTheLine(r) \/ Finally(r)
  BY <1>6 DEF Begin, Here, Await, Goto, Call, asks, notice, NoTerminal, StartTheOffer, PauseToAsk,
     ResumeTheLine, Finally, StartTypeOK, Taken, Drawing, Erasing, AtRest
<1>7. CASE Import(r)
  BY <1>7, CodesAreAnswers DEF Import, Here, Leave, Goto, notice, Await, Call, Move, StartTypeOK, Runs, Taken,
     Drawing, Erasing, AtRest, RunsInPlace
<1>8. CASE NoOffer(r) \/ NotAsked(r)
  BY <1>8 DEF NoOffer, Here, Idle, Move, Goto, asks, notice, NotAsked, StartTypeOK, Places, Taken
<1>9. CASE Read(r)
  BY <1>9, CodesAreAnswers DEF Read, Here, Leave, Goto, notice, Await, Call, StartTypeOK, Runs, Taken,
     Drawing,
     Erasing, AtRest, RunsInPlace
<1>10. CASE CopyIsOver(r) \/ CloseView(r) \/ PrintPage(r)
  BY <1>10, CodesAreAnswers DEF CopyIsOver, Here, Leave, Goto, notice, CloseView, PrintPage, StartTypeOK,
     Runs,
     Taken, RunsInPlace
<1>11. CASE EndTheOffer(r)
  BY <1>11 DEF EndTheOffer, Here, Goto, notice, Taken
<1>12. CASE Ask(r)
  BY <1>12 DEF Ask, Here, Idle, Goto, notice, StartTypeOK, Taken
<1>13. CASE PressCtrlC(r)
  <2> SUFFICES ASSUME NEW q \in Runs PROVE NoticeIn(q)'
    BY DEF NoticeInPlace
  <2>1. CASE q # r
    <3>1. /\ at'[q] = at[q] /\ step'[q] = step[q] /\ line'[q] = line[q] /\ held'[q] = held[q]
          /\ code'[q] = code[q] /\ (live'[q] <=> live[q]) /\ (unheld'[q] <=> unheld[q])
      BY <1>13, <2>1 DEF PressCtrlC, Unwind, Goto, StartTypeOK
    <3>2. NoticeIn(q)
      BY DEF NoticeInPlace
    <3> QED BY <3>1, <3>2 DEF NoticeIn, Killed
  <2>2. CASE q = r /\ held[r] = "no"
    <3>1. unheld'[r] <=> unheld[r] \/ ErasingIsDue(r)
      <4>1. unheld' = [unheld EXCEPT ![r] = @ \/ ErasingIsDue(r)]
        BY <1>13, <2>2 DEF PressCtrlC
      <4>2. unheld \in [Runs -> BOOLEAN]
        BY DEF StartTypeOK
      <4> QED BY <4>1, <4>2
    <3>2. /\ at[r] \notin {"absent", "relaunched", "view", "over"} /\ Unwind(r)
          /\ UNCHANGED <<live, line, held>>
      BY <1>13, <2>2 DEF PressCtrlC
    <3>3. /\ at'[r] = IF at[r] \in {"entry", "finally"} THEN "over" ELSE "finally"
          /\ step'[r] = Idle /\ line'[r] = line[r] /\ held'[r] = "no" /\ (live'[r] <=> live[r])
      BY <2>2, <3>2 DEF Unwind, Goto, StartTypeOK
    <3>4. ~Killed(r)
      <4>1. CASE r = "first"
        BY <4>1, KilledIsTheCopy
      <4>2. CASE r = "copy"
        BY <3>2, <4>2 DEF RunsInPlace
      <4> QED BY <4>1, <4>2 DEF Runs
    <3>5. line[r] \in {"off", "half", "on"}
      BY DEF StartTypeOK
    <3> QED
      BY <2>2, <3>1, <3>2, <3>3, <3>4, <3>5
         DEF Idle, ErasingIsDue, Taken, Drawing, Erasing, NoticeInPlace, NoticeIn, AtRest, RunsInPlace,
             CallsInPlace, ToErase, Stops, Pauses
  <2>3. CASE q = r /\ held[r] # "no"
    BY <1>13, <2>3 DEF PressCtrlC, StartTypeOK, NoticeInPlace, NoticeIn, Killed
  <2> QED BY <2>1, <2>2, <2>3
<1> QED
  BY <1>1, <1>2, <1>3, <1>4, <1>5, <1>6, <1>7, <1>8, <1>9, <1>10, <1>11, <1>12, <1>13
     DEF StartStep, Answered

\* The copy is started by the first run, which waits for its end.
LEMMA RunsStayInPlace ==
  ASSUME StartTypeOK, CallsInPlace, RunsInPlace,
         NEW r \in Runs, StartStep(r) \/ Answered(r) \/ PressCtrlC(r)
  PROVE  RunsInPlace'
<1> USE DEF Killed, RunsInPlace
<1>1. CASE Resume(r) \/ Forget(r)
  BY <1>1 DEF Resume, Return, Idle, Goto, asks, Proceed, Forget, StartTypeOK, Runs, CallsInPlace, ToDraw,
     Resumes, ToErase, Stops, Pauses
<1>2. CASE HoldCtrlC(r) \/ NoteTheLine(r)
  BY <1>2 DEF HoldCtrlC, Proceed, asks, NoteTheLine, StartTypeOK, Runs, Idle
<1>3. CASE Draw(r)
  BY <1>3 DEF Draw, Proceed, asks, Idle
<1>4. CASE Erase(r)
  BY <1>4 DEF Erase, Erasing, Proceed, asks, Idle
<1>5. CASE Release(r)
  BY <1>5, CodesAreAnswers DEF Release, Return, Idle, Goto, asks, Unwind, IsAnAnswer, StartTypeOK, Runs,
     CallsInPlace, Resumes, Stops, Pauses
<1>6. CASE Begin(r)
  BY <1>6 DEF Begin, Here, Await, Goto, Call, asks, StartTypeOK, Taken
<1>7. CASE NoTerminal(r)
  BY <1>7 DEF NoTerminal, Here, Await, Goto, Call, asks, StartTypeOK, Taken
<1>8. CASE StartTheOffer(r)
  BY <1>8 DEF StartTheOffer, OfferIsMade, Here, Await, Goto, Call, asks, StartTypeOK, Taken
<1>9. CASE PauseToAsk(r)
  BY <1>9 DEF PauseToAsk, Here, Await, Goto, Call, asks, Taken
<1>10. CASE ResumeTheLine(r)
  BY <1>10 DEF ResumeTheLine, Here, Await, Goto, Call, asks, Taken
<1>11. CASE Finally(r)
  BY <1>11 DEF Finally, Here, Await, Goto, Call, asks, Taken
<1>12. CASE Import(r)
  BY <1>12, CodesAreAnswers DEF Import, Here, Leave, Goto, Await, Call, asks, Move, IsAnAnswer, StartTypeOK,
     Runs,
     Taken
<1>13. CASE NoOffer(r) \/ NotAsked(r)
  BY <1>13 DEF NoOffer, Here, Move, Goto, asks, NotAsked, StartTypeOK, Runs
<1>14. CASE Read(r)
  BY <1>14, CodesAreAnswers DEF Read, Here, Leave, Goto, Await, Call, asks, IsAnAnswer, StartTypeOK, Runs,
     Taken
<1>15. CASE CopyIsOver(r) \/ CloseView(r) \/ PrintPage(r)
  BY <1>15, CodesAreAnswers DEF CopyIsOver, Here, Leave, Goto, CloseView, PrintPage, IsAnAnswer, StartTypeOK,
     Runs
<1>16. CASE EndTheOffer(r)
  BY <1>16 DEF EndTheOffer, Here, Goto
<1>17. CASE Ask(r)
  BY <1>17 DEF Ask, Here, Goto, StartTypeOK, Runs
<1>18. CASE PressCtrlC(r)
  BY <1>18, CodesAreAnswers DEF PressCtrlC, Unwind, Goto, IsAnAnswer, StartTypeOK, Runs
<1> QED
  BY <1>1, <1>2, <1>3, <1>4, <1>5, <1>6, <1>7, <1>8, <1>9, <1>10, <1>11, <1>12, <1>13, <1>14, <1>15, <1>16,
     <1>17, <1>18
     DEF StartStep, Answered

\* Both questions stand before the view, and a run does not come back to either.
LEMMA AskedStaysInTurn ==
  ASSUME StartTypeOK, CallsInPlace, RunsInPlace, AskedInTurn,
         NEW r \in Runs, StartStep(r) \/ Answered(r) \/ PressCtrlC(r)
  PROVE  AskedInTurn'
<1> USE DEF AskedInTurn
<1>1. CASE Resume(r) \/ Forget(r)
  BY <1>1 DEF Resume, Return, Goto, asks, Proceed, Forget, StartTypeOK, Runs, BeforeAsking, BeforeTheOffer,
     AtStart, CallsInPlace, ToDraw, Resumes, ToErase, Stops, Pauses
<1>2. CASE HoldCtrlC(r) \/ NoteTheLine(r)
  BY <1>2 DEF HoldCtrlC, Proceed, asks, NoteTheLine
<1>3. CASE Draw(r)
  BY <1>3 DEF Draw, Proceed, asks
<1>4. CASE Erase(r)
  BY <1>4 DEF Erase, Proceed, asks
<1>5. CASE Release(r)
  BY <1>5 DEF Release, Return, Goto, asks, Unwind, StartTypeOK, Runs, BeforeAsking, BeforeTheOffer, AtStart,
     CallsInPlace, Resumes, Stops, Pauses
<1>6. CASE Begin(r) \/ NoTerminal(r) \/ StartTheOffer(r) \/ PauseToAsk(r) \/ ResumeTheLine(r) \/ Finally(r)
  BY <1>6 DEF Begin, Here, Await, Goto, asks, NoTerminal, StartTheOffer, PauseToAsk, ResumeTheLine, Finally,
     StartTypeOK, Runs, BeforeAsking, BeforeTheOffer
<1>7. CASE Import(r)
  BY <1>7 DEF Import, Here, Leave, Goto, Await, asks, Move, StartTypeOK, Runs, BeforeAsking, BeforeTheOffer,
     AtStart
<1>8. CASE NoOffer(r) \/ NotAsked(r)
  BY <1>8 DEF NoOffer, Here, Move, Goto, asks, NotAsked, StartTypeOK, Runs, BeforeAsking, BeforeTheOffer,
     AtStart
<1>9. CASE Read(r)
  BY <1>9 DEF Read, Leave, Goto, Await, asks, StartTypeOK, Runs, BeforeAsking, BeforeTheOffer, AtStart
<1>10. CASE CopyIsOver(r) \/ CloseView(r) \/ PrintPage(r)
  BY <1>10 DEF CopyIsOver, Leave, Goto, CloseView, PrintPage, StartTypeOK, Runs, BeforeAsking, BeforeTheOffer,
     AtStart
<1>11. CASE EndTheOffer(r)
  BY <1>11 DEF EndTheOffer, Here, Goto, StartTypeOK, BeforeAsking, BeforeTheOffer, AtStart, RunsInPlace
<1>12. CASE Ask(r)
  BY <1>12 DEF Ask, Here, WantsElevation, Goto, StartTypeOK, Runs, BeforeAsking, BeforeTheOffer, AtStart
<1>13. CASE PressCtrlC(r)
  BY <1>13 DEF PressCtrlC, Unwind, Goto, StartTypeOK, Runs, BeforeAsking, BeforeTheOffer, AtStart
<1> QED
  BY <1>1, <1>2, <1>3, <1>4, <1>5, <1>6, <1>7, <1>8, <1>9, <1>10, <1>11, <1>12, <1>13
     DEF StartStep, Answered

\* From starting the copy to leaving with its answer the first run does nothing else.
LEMMA CopyStaysAnswered ==
  ASSUME StartTypeOK, RunsInPlace, AnsweredByTheCopy,
         NEW r \in Runs, StartStep(r) \/ Answered(r) \/ PressCtrlC(r)
  PROVE  AnsweredByTheCopy'
<1> USE DEF AnsweredByTheCopy
<1>1. CASE Resume(r) \/ Forget(r)
  BY <1>1 DEF Resume, Return, Idle, Goto, asks, Proceed, Forget, StartTypeOK, Runs, Taken, RunsInPlace
<1>2. CASE HoldCtrlC(r) \/ NoteTheLine(r)
  BY <1>2 DEF HoldCtrlC, Proceed, asks, NoteTheLine
<1>3. CASE Draw(r)
  BY <1>3 DEF Draw, Proceed, asks
<1>4. CASE Erase(r)
  BY <1>4 DEF Erase, Proceed, asks
<1>5. CASE Release(r)
  BY <1>5 DEF Release, Return, Idle, Goto, asks, Unwind, StartTypeOK, Runs, Taken, RunsInPlace
<1>6. CASE Begin(r) \/ NoTerminal(r) \/ StartTheOffer(r) \/ PauseToAsk(r) \/ ResumeTheLine(r) \/ Finally(r)
  BY <1>6 DEF Begin, Here, Await, Goto, asks, NoTerminal, StartTheOffer, PauseToAsk, ResumeTheLine, Finally,
     StartTypeOK, Runs
<1>7. CASE Import(r)
  BY <1>7 DEF Import, Here, Leave, Goto, Await, Move, StartTypeOK, Runs, RunsInPlace
<1>8. CASE NoOffer(r) \/ NotAsked(r)
  BY <1>8 DEF NoOffer, Here, Move, Goto, NotAsked, StartTypeOK, Runs
<1>9. CASE Read(r)
  BY <1>9 DEF Read, Here, Leave, Goto, Await, StartTypeOK, Runs, RunsInPlace
<1>10. CASE CopyIsOver(r) \/ CloseView(r) \/ PrintPage(r)
  BY <1>10 DEF CopyIsOver, Here, Leave, Goto, CloseView, PrintPage, StartTypeOK, Runs, RunsInPlace
<1>11. CASE EndTheOffer(r)
  BY <1>11 DEF EndTheOffer, Here, Goto
<1>12. CASE Ask(r)
  BY <1>12 DEF Ask, Here, Goto, StartTypeOK, Runs
<1>13. CASE PressCtrlC(r)
  BY <1>13 DEF PressCtrlC, Unwind, Goto, StartTypeOK, Runs, RunsInPlace
<1> QED
  BY <1>1, <1>2, <1>3, <1>4, <1>5, <1>6, <1>7, <1>8, <1>9, <1>10, <1>11, <1>12, <1>13
     DEF StartStep, Answered

\* A signal ends the copy wherever it is, and may leave its line; the first run goes on.
LEMMA KillingTheCopyKeeps ==
  ASSUME StartInv, KillCopy
  PROVE  StartInv'
<1> USE DEF Goto, KillCopy, StartInv
<1>1. StartTypeOK'
  BY DEF given, notice, StartTypeOK, Runs, Places, StoppedFor, Steps
<1>2. CallsInPlace'
  BY DEF Idle, StartTypeOK, Drawing, Erasing, CallsInPlace, ToDraw, Resumes, ToErase, Stops, Pauses
<1>3. NoticeInPlace'
  BY DEF notice, StartTypeOK, NoticeInPlace, NoticeIn, Killed
<1>4. RunsInPlace'
  BY CodesAreAnswers DEF StartTypeOK, RunsInPlace, Killed
<1>5. AskedInTurn'
  BY DEF AskedInTurn
<1>6. AnsweredByTheCopy'
  BY DEF AnsweredByTheCopy
<1> QED BY <1>1, <1>2, <1>3, <1>4, <1>5, <1>6

\* A run that leaves with an error nobody foresaw, where nothing is drawn any more.
LEMMA ABugInTheFirstRunKeeps ==
  ASSUME StartInv, at["first"] \in {"beforeOffer", "page", "offering"}, Here("first", at["first"]),
         Leave("first", ForABug)
  PROVE  StartInv'
<1> USE DEF Goto, Leave, StartInv
<1>1. StartTypeOK'
  BY CodesAreAnswers DEF given, notice, IsAnAnswer, StartTypeOK, Runs, Places
<1>2. CallsInPlace'
  BY DEF Here, Idle, Erasing, CallsInPlace, Resumes, ToErase, Stops, Pauses
<1>3. NoticeInPlace'
  BY CodesAreAnswers DEF notice, StartTypeOK, Taken, NoticeInPlace, NoticeIn, Killed
<1>4. RunsInPlace'
  BY CodesAreAnswers DEF IsAnAnswer, StartTypeOK, Taken, RunsInPlace, Killed
<1>5. AskedInTurn'
  BY DEF AskedInTurn, BeforeAsking, BeforeTheOffer, AtStart
<1>6. AnsweredByTheCopy'
  BY DEF AnsweredByTheCopy, RunsInPlace
<1> QED BY <1>1, <1>2, <1>3, <1>4, <1>5, <1>6

\* Every step of the way to the view keeps the whole invariant.
LEMMA StartStepKeeps ==
  ASSUME StartInv, StartNext
  PROVE  StartInv'
<1>1. ASSUME NEW r \in Runs, StartStep(r) \/ Answered(r) \/ PressCtrlC(r) PROVE StartInv'
  BY <1>1, StartStaysTyped, CallsStayInPlace, NoticeStaysInPlace, RunsStayInPlace, AskedStaysInTurn,
     CopyStaysAnswered DEF StartInv
<1>2. CASE KillCopy
  BY <1>2, KillingTheCopyKeeps
<1> QED BY <1>1, <1>2 DEF StartNext

\* Nothing of it depends on the rest of the session.
LEMMA StartStillInOrder ==
  ASSUME StartInv, UNCHANGED startVars
  PROVE  StartInv'
<1> USE DEF startVars, StartInv
<1>1. StartTypeOK' BY DEF StartTypeOK
<1>2. CallsInPlace' BY DEF CallsInPlace, Stops, Pauses, Resumes
<1>3. NoticeInPlace' BY DEF NoticeInPlace, NoticeIn, Killed
<1>4. RunsInPlace' BY DEF RunsInPlace, Killed
<1>5. AskedInTurn' BY DEF AskedInTurn
<1>6. AnsweredByTheCopy' BY DEF AnsweredByTheCopy
<1> QED BY <1>1, <1>2, <1>3, <1>4, <1>5, <1>6

\* It holds where the first run begins.
LEMMA StartsInOrder ==
  ASSUME StartInit
  PROVE  StartInv
<1> USE CodesAreAnswers DEF StartInit
<1>1. StartTypeOK
  BY DEF StartTypeOK, IsAnAnswer, Runs, Steps, Places, StoppedFor, Idle
<1>2. CallsInPlace
  BY DEF CallsInPlace, ToDraw, ToErase, Drawing, Erasing, Idle
<1>3. NoticeInPlace
  BY DEF NoticeInPlace, NoticeIn, Killed, Drawing, Erasing, AtRest, Taken, Idle, Runs
<1>4. RunsInPlace
  BY DEF RunsInPlace, Killed, Runs, Idle, Taken
<1>5. AskedInTurn
  BY DEF AskedInTurn, Runs
<1>6. AnsweredByTheCopy
  BY DEF AnsweredByTheCopy, Runs
<1> QED BY <1>1, <1>2, <1>3, <1>4, <1>5, <1>6 DEF StartInv

\* TerminalIsSharedInTurn is what the invariant comes to.
LEMMA StartInvSharesTheTerminal ==
  ASSUME StartInv
  PROVE  TerminalIsSharedInTurn
<1> USE DEF StartInv
<1>1. LineGivesWay
  BY KilledIsTheCopy DEF LineGivesWay, NoticeInPlace, NoticeIn, RunsInPlace, StartTypeOK, Runs, Taken, AtRest
<1>2. LineIsWhole
  BY DEF LineIsWhole, NoticeInPlace, NoticeIn, StartTypeOK, AtRest, Drawing, Erasing, Steps, Idle
<1>3. LineIsErased
  BY DEF LineIsErased, NoticeInPlace, NoticeIn
<1>4. AskedOnce
  BY DEF AskedOnce, AskedInTurn, StartTypeOK, Runs
<1>5. CopysAnswerIsGiven
  BY CodesAreAnswers
     DEF CopysAnswerIsGiven, AnsweredByTheCopy, RunsInPlace, StartTypeOK, Killed, Runs, ExitStatus
<1> QED BY <1>1, <1>2, <1>3, <1>4, <1>5 DEF TerminalIsSharedInTurn

-----------------------------------------------------------------------------
(* The offer of a shortcut                                                 *)

AskingFirst == {"start", "choose", "plan", "consent"}
BeforeFetching == AskingFirst \cup {"install"}
Changing == {"change", "replace", "readBack"}
BeforeWriting == BeforeFetching \cup {"replan", "icon", "load", "read"} \cup Changing
Created == {"created", "createdNoIcon", "SUCCESS"}

\* What the desktop holds at each place of the sequence.
DeskInPlace ==
  /\ answer = "unanswered" <=> offerAt # "done"
  /\ offerAt \in BeforeWriting => ~icon
  /\ offerAt \in BeforeWriting \cup {"entry"} => menu = NoEntry /\ entry \notin Entries
  /\ offerAt \in {"icon", "entry", "menu"} => launch # "nothing"
  /\ offerAt = "entry" /\ asker # "offer" => icon
  /\ offerAt = "menu" =>
       /\ menu = NoEntry
       /\ entry = [launch |-> launch, icon |-> icon /\ desk.platform # "darwin"]
       /\ asker # "offer" => icon
  /\ asker = "offer" /\ offerAt \notin {"start", "done"} => entry # Old

\* What was agreed to, and what was fetched.
ConsentInPlace ==
  /\ offerAt \in BeforeFetching => ~fetched
  /\ offerAt \in {"consent", "install"} => ~desk.lsdsk
  /\ offerAt = "install" => consented

\* What stands in the user's file, and in the document made from it.
SettingInPlace ==
  /\ wroteAt = Never => config.saved = edits
  /\ offerAt \in Changing => document.state = "toml"
  /\ offerAt \in Changing \/ wroteAt # Never => document.saved = loadedAt /\ loadedAt <= edits
  /\ offerAt \in {"replace", "readBack"} => document.offer = "off"
  /\ offerAt = "readBack" => wroteAt # Never /\ (edits = wroteAt => config = document)
  /\ wroteAt # Never => offerAt \in {"readBack", "done"} /\ loadedAt <= wroteAt /\ wroteAt <= edits

OfferInv ==
  /\ OfferTypeOK /\ DeskInPlace /\ ConsentInPlace /\ SettingInPlace
  /\ ShortcutAsSaid /\ OfferLeavesAShortcut /\ FetchedByConsent /\ SettingAsSaid

-----------------------------------------------------------------------------
\* The steps that ask, those that write a shortcut, and those that change the setting.
AskingStep == BeginOffer \/ Choose \/ Plan \/ Consent \/ RunInstaller \/ Replan
WritingStep == CopyIcon \/ WriteEntry \/ AddToTheMenu
SettingStep ==
  FindConfig \/ ReadConfig \/ SetOfferFalse \/ ReplaceConfig \/ ReadBack \/ EditorSaves

-----------------------------------------------------------------------------
(* Types                                                                   *)

PlaceIsTyped ==
  /\ offerAt \in {"start", "choose", "plan", "consent", "install", "replan", "icon", "entry", "menu",
                  "load", "read", "change", "replace", "readBack", "done"}
  /\ launch \in {"nothing", "lsdsk", "uvx"} /\ answer \in Answers \cup {"unanswered"}
FlagsAreTyped == uvx \in BOOLEAN /\ icon \in BOOLEAN /\ consented \in BOOLEAN /\ fetched \in BOOLEAN
DeskIsTyped == entry \in Entries \cup {NoEntry, Old} /\ menu \in Entries \cup {NoEntry, Old}
FileIsTyped ==
  /\ config \in UserFiles /\ document \in UserFiles
  /\ edits \in 0..MaxEdits /\ loadedAt \in 0..Never /\ wroteAt \in 0..Never

\* An entry made of a launcher and an icon is one.
LEMMA EntryIsTyped ==
  ASSUME NEW l \in {"nothing", "lsdsk", "uvx"}, NEW b \in BOOLEAN
  PROVE  [launch |-> l, icon |-> b] \in Entries
BY DEF Entries

\* Whatever a step does, the sequence is at one of its places.
LEMMA PlaceStaysTyped ==
  ASSUME OfferTypeOK, OfferNext
  PROVE  PlaceIsTyped'
<1> USE DEF Answers, OfferGoto, OfferTypeOK, PlaceIsTyped, Say
<1>1. CASE AskingStep
  BY <1>1 DEF AskingStep, BeginOffer, Choose, Plan, Consent, RunInstaller, Replan, Refuse, shortcut,
     PlanLaunch
<1>2. CASE WritingStep
  BY <1>2 DEF WritingStep, CopyIcon, WriteEntry, AddToTheMenu, Refuse
<1>3. CASE SettingStep
  BY <1>3 DEF SettingStep, FindConfig, ReadConfig, SetOfferFalse, ReplaceConfig, ReadBack,
     EditorSaves, shortcut
<1> QED
  BY <1>1, <1>2, <1>3 DEF OfferNext, AskingStep, WritingStep, SettingStep

\* What was found, copied, agreed to and fetched is told by yes or no.
LEMMA FlagsStayTyped ==
  ASSUME OfferTypeOK, OfferNext
  PROVE  FlagsAreTyped'
<1> USE DEF FlagsAreTyped, OfferTypeOK
<1>1. CASE AskingStep
  BY <1>1 DEF AskingStep, BeginOffer, Choose, Plan, Consent, RunInstaller, Replan, shortcut
<1>2. CASE WritingStep
  BY <1>2 DEF WritingStep, CopyIcon, WriteEntry, AddToTheMenu
<1>3. CASE SettingStep
  BY <1>3 DEF SettingStep, FindConfig, ReadConfig, SetOfferFalse, ReplaceConfig, ReadBack,
     EditorSaves, shortcut
<1> QED
  BY <1>1, <1>2, <1>3 DEF OfferNext, AskingStep, WritingStep, SettingStep

\* Desktop and menu hold an entry, an old one or none, made by WriteEntry if by any.
LEMMA DeskStaysTyped ==
  ASSUME OfferTypeOK, OfferNext
  PROVE  DeskIsTyped'
<1> USE DEF DeskIsTyped, OfferTypeOK
<1>1. CASE AskingStep
  BY <1>1 DEF AskingStep, BeginOffer, Choose, Plan, Consent, RunInstaller, Replan, shortcut
<1>2. CASE CopyIcon
  BY <1>2 DEF CopyIcon
<1>3. CASE WriteEntry
  <2> DEFINE made == [launch |-> launch, icon |-> icon /\ desk.platform # "darwin"]
  <2>1. (icon /\ desk.platform # "darwin") \in BOOLEAN
    OBVIOUS
  <2>2. made \in Entries
    BY <2>1, EntryIsTyped, Zenon DEF OfferTypeOK
  <2>3. (entry' = made \/ entry' = entry) /\ menu' = menu
    BY <1>3 DEF WriteEntry
  <2> HIDE DEF made
  <2> QED BY <2>2, <2>3 DEF OfferTypeOK, DeskIsTyped
<1>4. CASE AddToTheMenu
  BY <1>4 DEF AddToTheMenu
<1>5. CASE SettingStep
  BY <1>5 DEF SettingStep, FindConfig, ReadConfig, SetOfferFalse, ReplaceConfig, ReadBack,
     EditorSaves, shortcut
<1> QED
  BY <1>1, <1>2, <1>3, <1>4, <1>5 DEF OfferNext, AskingStep, SettingStep

\* The file, what was read of it and when stay within their bounds.
LEMMA FileStaysTyped ==
  ASSUME OfferTypeOK, OfferNext
  PROVE  FileIsTyped'
<1> USE DEF FileIsTyped, OfferTypeOK
<1>1. CASE AskingStep
  BY <1>1 DEF AskingStep, BeginOffer, Choose, Plan, Consent, RunInstaller, Replan, setting
<1>2. CASE WritingStep
  BY <1>2 DEF WritingStep, CopyIcon, WriteEntry, AddToTheMenu, setting
<1>3. CASE FindConfig
  BY <1>3, MaxEditsIsNat DEF FindConfig, NewDocument, UserFiles, Never
<1>4. CASE ReadConfig
  BY <1>4, MaxEditsIsNat DEF ReadConfig, Never
<1>5. CASE SetOfferFalse
  BY <1>5 DEF SetOfferFalse, UserFiles
<1>6. CASE ReplaceConfig
  BY <1>6, MaxEditsIsNat DEF ReplaceConfig, Never
<1>7. CASE ReadBack
  BY <1>7 DEF ReadBack, setting
<1>8. CASE EditorSaves
  BY <1>8 DEF EditorSaves, Documents, UserFiles
<1> QED
  BY <1>1, <1>2, <1>3, <1>4, <1>5, <1>6, <1>7, <1>8 DEF OfferNext, AskingStep, WritingStep

\* The type invariant is the four of them.
LEMMA OfferStaysTyped ==
  ASSUME OfferTypeOK, OfferNext
  PROVE  OfferTypeOK'
BY PlaceStaysTyped, FlagsStayTyped, DeskStaysTyped, FileStaysTyped
   DEF OfferTypeOK, PlaceIsTyped, FlagsAreTyped, DeskIsTyped, FileIsTyped

-----------------------------------------------------------------------------
(* What the parts say                                                      *)

\* Nothing stands on the desktop before its step, and nothing is lost after it.
LEMMA DeskStaysInPlace ==
  ASSUME OfferTypeOK, DeskInPlace, OfferNext
  PROVE  DeskInPlace'
<1> USE DEF BeforeWriting, DeskInPlace, OfferGoto, Say, machine
<1>1. CASE AskingStep
  BY <1>1 DEF AskingStep, BeginOffer, Choose, Plan, Consent, RunInstaller, Replan, Refuse,
     ShouldOffer, NoEntry, shortcut, BeforeFetching, AskingFirst, Old
<1>2. CASE WritingStep
  BY <1>2 DEF WritingStep, CopyIcon, WriteEntry, AddToTheMenu, Refuse, BeforeFetching, AskingFirst,
     Changing, Old, OfferTypeOK
<1>3. CASE SettingStep
  BY <1>3 DEF SettingStep, FindConfig, ReadConfig, SetOfferFalse, ReplaceConfig, ReadBack,
     EditorSaves, shortcut, Changing
<1> QED
  BY <1>1, <1>2, <1>3 DEF OfferNext, AskingStep, WritingStep, SettingStep

\* The installer is run where it was agreed to, and nowhere before.
LEMMA ConsentStaysInPlace ==
  ASSUME ConsentInPlace, OfferNext
  PROVE  ConsentInPlace'
<1> USE DEF AskingFirst, BeforeFetching, ConsentInPlace, OfferGoto, Say
<1>1. CASE AskingStep
  BY <1>1 DEF AskingStep, BeginOffer, Choose, Plan, Consent, RunInstaller, Replan, Refuse, machine,
     shortcut, PlanLaunch
<1>2. CASE WritingStep
  BY <1>2 DEF WritingStep, CopyIcon, WriteEntry, AddToTheMenu, Refuse
<1>3. CASE SettingStep
  BY <1>3 DEF SettingStep, FindConfig, ReadConfig, SetOfferFalse, ReplaceConfig, ReadBack,
     EditorSaves, machine, shortcut
<1> QED
  BY <1>1, <1>2, <1>3 DEF OfferNext, AskingStep, WritingStep, SettingStep

\* What is written to the file stems from what was loaded, however it was edited.
LEMMA SettingStaysInPlace ==
  ASSUME OfferTypeOK, SettingInPlace, OfferNext
  PROVE  SettingInPlace'
<1> USE DEF SettingInPlace
<1>1. CASE AskingStep
  BY <1>1 DEF AskingStep, BeginOffer, Choose, Plan, Consent, RunInstaller, Replan, Refuse, Say,
     OfferGoto, setting, Changing
<1>2. CASE WritingStep
  BY <1>2 DEF WritingStep, CopyIcon, WriteEntry, AddToTheMenu, OfferGoto, Say, setting, Refuse,
     Changing
<1>3. CASE FindConfig
  BY <1>3 DEF FindConfig, NewDocument, OfferGoto, Changing, OfferTypeOK
<1>4. CASE ReadConfig
  BY <1>4 DEF ReadConfig, OfferGoto, Say, Changing, OfferTypeOK
<1>5. CASE SetOfferFalse
  BY <1>5 DEF SetOfferFalse, Say, OfferGoto, Changing, OfferTypeOK, UserFiles
<1>6. CASE ReplaceConfig
  BY <1>6, MaxEditsIsNat DEF ReplaceConfig, OfferGoto, Say, Never, Changing, OfferTypeOK
<1>7. CASE ReadBack
  BY <1>7 DEF ReadBack, Say, OfferGoto, setting, Changing
<1>8. CASE EditorSaves
  BY <1>8 DEF EditorSaves, OfferTypeOK
<1> QED
  BY <1>1, <1>2, <1>3, <1>4, <1>5, <1>6, <1>7, <1>8 DEF OfferNext, AskingStep, WritingStep

\* What is said of the shortcut is what stands there.
LEMMA ShortcutStaysAsSaid ==
  ASSUME OfferTypeOK, DeskInPlace, ShortcutAsSaid, OfferNext
  PROVE  ShortcutAsSaid'
<1> USE DEF BeforeWriting, DeskInPlace, Say, ShortcutAsSaid
<1>1. CASE AskingStep
  BY <1>1 DEF AskingStep, BeginOffer, Choose, Plan, Consent, RunInstaller, Replan, Refuse, shortcut,
     BeforeFetching, AskingFirst
<1>2. CASE WritingStep
  BY <1>2 DEF WritingStep, CopyIcon, WriteEntry, AddToTheMenu, OfferGoto, machine, Refuse,
     OfferTypeOK, NoEntry, Old
<1>3. CASE SettingStep
  BY <1>3 DEF SettingStep, FindConfig, ReadConfig, SetOfferFalse, ReplaceConfig, ReadBack,
     EditorSaves, shortcut, Changing
<1> QED
  BY <1>1, <1>2, <1>3 DEF OfferNext, AskingStep, WritingStep, SettingStep

\* The offer leaves a shortcut that is there.
LEMMA ShortcutIsLeft ==
  ASSUME OfferTypeOK, DeskInPlace, OfferLeavesAShortcut, OfferNext
  PROVE  OfferLeavesAShortcut'
<1> USE DEF OfferLeavesAShortcut, machine
<1>1. CASE AskingStep
  BY <1>1 DEF AskingStep, BeginOffer, Choose, Plan, Consent, RunInstaller, Replan, shortcut,
     DeskInPlace
<1>2. CASE WritingStep
  BY <1>2 DEF WritingStep, CopyIcon, WriteEntry, AddToTheMenu, Old, DeskInPlace, OfferTypeOK
<1>3. CASE SettingStep
  BY <1>3 DEF SettingStep, FindConfig, ReadConfig, SetOfferFalse, ReplaceConfig, ReadBack,
     EditorSaves, shortcut
<1> QED
  BY <1>1, <1>2, <1>3 DEF OfferNext, AskingStep, WritingStep, SettingStep

\* Nothing is fetched that was not agreed to.
LEMMA FetchingStaysAgreed ==
  ASSUME ConsentInPlace, FetchedByConsent, OfferNext
  PROVE  FetchedByConsent'
<1> USE DEF FetchedByConsent, machine
<1>1. CASE AskingStep
  BY <1>1 DEF AskingStep, BeginOffer, Choose, Plan, Consent, RunInstaller, Replan, shortcut,
     ConsentInPlace, BeforeFetching, AskingFirst
<1>2. CASE WritingStep
  BY <1>2 DEF WritingStep, CopyIcon, WriteEntry, AddToTheMenu
<1>3. CASE SettingStep
  BY <1>3 DEF SettingStep, FindConfig, ReadConfig, SetOfferFalse, ReplaceConfig, ReadBack,
     EditorSaves, shortcut
<1> QED
  BY <1>1, <1>2, <1>3 DEF OfferNext, AskingStep, WritingStep, SettingStep

\* What is said of the setting is what the file says.
LEMMA SettingStaysAsSaid ==
  ASSUME OfferTypeOK, DeskInPlace, SettingInPlace, SettingAsSaid, OfferNext
  PROVE  SettingAsSaid'
<1> USE DEF Say, SettingAsSaid, setting
<1>1. CASE AskingStep
  BY <1>1 DEF AskingStep, BeginOffer, Choose, Plan, Consent, RunInstaller, Replan, Refuse
<1>2. CASE WritingStep
  BY <1>2 DEF WritingStep, CopyIcon, WriteEntry, AddToTheMenu, Refuse
<1>3. CASE SettingStep
  BY <1>3 DEF SettingStep, FindConfig, ReadConfig, SetOfferFalse, ReplaceConfig, ReadBack,
     EditorSaves, OfferTypeOK, SettingInPlace, Changing, DeskInPlace
<1> QED
  BY <1>1, <1>2, <1>3 DEF OfferNext, AskingStep, WritingStep, SettingStep

-----------------------------------------------------------------------------
(* The invariant                                                           *)

\* Every step of the offer keeps the whole invariant.
LEMMA OfferStepKeeps ==
  ASSUME OfferInv, OfferNext
  PROVE  OfferInv'
BY OfferStaysTyped, DeskStaysInPlace, ConsentStaysInPlace, SettingStaysInPlace, ShortcutStaysAsSaid,
   ShortcutIsLeft, FetchingStaysAgreed, SettingStaysAsSaid DEF OfferInv

\* Nothing of it depends on the rest of the session.
LEMMA OfferStillInOrder ==
  ASSUME OfferInv, UNCHANGED offerVars
  PROVE  OfferInv'
<1> USE DEF offerVars, OfferInv
<1>1. OfferTypeOK' BY DEF OfferTypeOK
<1>2. DeskInPlace' BY DEF DeskInPlace
<1>3. ConsentInPlace' BY DEF ConsentInPlace
<1>4. SettingInPlace' BY DEF SettingInPlace
<1>5. ShortcutAsSaid' BY DEF ShortcutAsSaid
<1>6. OfferLeavesAShortcut' BY DEF OfferLeavesAShortcut
<1>7. FetchedByConsent' BY DEF FetchedByConsent
<1>8. SettingAsSaid' BY DEF SettingAsSaid
<1> QED BY <1>1, <1>2, <1>3, <1>4, <1>5, <1>6, <1>7, <1>8

\* It holds where the sequence begins.
LEMMA OfferStartsInOrder ==
  ASSUME OfferInit
  PROVE  OfferInv
<1> USE MaxEditsIsNat DEF OfferInit
<1>1. config \in UserFiles /\ config.saved = 0
  BY DEF Documents
<1>2. NewDocument \in UserFiles
  BY DEF NewDocument, UserFiles
<1>3. NoEntry \notin Entries /\ Old \notin Entries /\ NoEntry # Old
  BY DEF NoEntry, Old, Entries
<1>4. OfferTypeOK
  <2>1. PlaceIsTyped
    BY DEF PlaceIsTyped
  <2>2. FlagsAreTyped
    BY DEF FlagsAreTyped
  <2>3. DeskIsTyped
    BY DEF DeskIsTyped
  <2>4. FileIsTyped
    BY <1>1, <1>2 DEF FileIsTyped, Never
  <2> QED
    BY <2>1, <2>2, <2>3, <2>4 DEF OfferTypeOK, PlaceIsTyped, FlagsAreTyped, DeskIsTyped, FileIsTyped
<1>5. DeskInPlace
  BY <1>3 DEF DeskInPlace, BeforeWriting, BeforeFetching, AskingFirst
<1>6. ConsentInPlace
  BY DEF ConsentInPlace
<1>7. SettingInPlace
  BY <1>1 DEF SettingInPlace, Changing
<1>8. ShortcutAsSaid /\ SettingAsSaid
  BY <1>3 DEF ShortcutAsSaid, SettingAsSaid
<1>9. OfferLeavesAShortcut /\ FetchedByConsent
  BY DEF OfferLeavesAShortcut, FetchedByConsent
<1> QED BY <1>4, <1>5, <1>6, <1>7, <1>8, <1>9 DEF OfferInv

\* What the offer is to keep is what the invariant comes to.
LEMMA OfferInvDoesAsItSays ==
  ASSUME OfferInv
  PROVE  OfferDoesAsItSays
<1>1. EditLostOnlyBetween
  BY DEF OfferInv, OfferTypeOK, SettingInPlace, EditLostOnlyBetween
<1> QED BY <1>1 DEF OfferInv, OfferDoesAsItSays

-----------------------------------------------------------------------------
(* Deploying the configuration                                             *)

Asked == {f \in ConfigFiles : f[1] \in request.targets}

\* What was written is the shipped copy, where it was allowed; all else is as it was found.
WrittenAsAllowed ==
  \A f \in ConfigFiles :
    IF f \in Written(results)
      THEN /\ files[f] = "shipped" /\ found[f] \notin {"shipped", "directory"}
           /\ f[1] \in request.targets /\ (found[f] = "none" \/ request.force)
      ELSE files[f] = found[f]

\* Every file asked for is written, kept, or still to be looked at.
NoneIsForgotten ==
  /\ deployAt = "begin" => DOMAIN results = {} /\ deployAnswer = "unanswered"
  /\ deployAt \notin {"begin", "over"} => deployAnswer = "unanswered"
  /\ deployAt = "writing" \/ deployAt = "report" \/ deployAnswer = "SUCCESS" => DOMAIN results \cup todo = Asked
  /\ deployAt = "report" \/ deployAnswer = "SUCCESS" =>
       /\ todo = {}
       /\ \A f \in DOMAIN results : f[2] = "config.toml" => files[f] # "directory"
  /\ \A f \in DOMAIN results : files[f] # "none"

\* What the run says is said of what it read before it wrote.
SaidOfWhatWasRead ==
  /\ deployAt # "begin" => before = ReadConfigNow(found)
  /\ deployAnswer = "SUCCESS" =>
       /\ reported = Written(results)
       /\ warned = IF before.value = Unread \/ Written(results) = {} \/ ~Loads(files) THEN {}
                   ELSE Shadows(before, Decides(files))

DeployInv == DeployTypeOK /\ WrittenAsAllowed /\ NoneIsForgotten /\ SaidOfWhatWasRead

-----------------------------------------------------------------------------
(* Which file decides                                                      *)

\* A set of natural numbers that is not empty has a least one.
LEMMA LeastExists ==
  ASSUME NEW T \in SUBSET Nat, T # {}
  PROVE  \E m \in T : \A k \in T : m <= k
<1> DEFINE R == {ss \in Nat \X Nat : ss[1] < ss[2]}
<1>1. IsWellFoundedOn(R, Nat)
  BY NatLessThanWellFounded DEF OpToRel
<1>2. PICK m \in T : \A k \in T : <<k, m>> \notin R
  <2> HIDE DEF R
  <2> QED BY <1>1, WFMin
<1>3. ASSUME NEW k \in T  PROVE m <= k
  <2>1. ~(k < m)
    BY <1>2
  <2>2. QED BY <2>1
<1>4. QED BY <1>3

\* A bounded one has a greatest.
LEMMA GreatestExists ==
  ASSUME NEW n \in Nat, NEW T \in SUBSET (1..n), T # {}
  PROVE  \E i \in T : \A j \in T : j <= i
<1> DEFINE D == {n - i : i \in T}
<1>1. PICK m \in D : \A k \in D : m <= k
  <2>1. \A i \in T : n - i \in Nat
    OBVIOUS
  <2>2. D \in SUBSET Nat /\ D # {}
    BY <2>1
  <2> HIDE DEF D
  <2>3. QED BY <2>2, LeastExists
<1>2. PICK i \in T : m = n - i
  OBVIOUS
<1>3. ASSUME NEW j \in T  PROVE j <= i
  <2>1. m <= n - j
    BY <1>1
  <2>2. QED BY <1>2, <2>1
<1>4. QED BY <1>3

\* The order is one of the files a deploy may write.
LEMMA OrderIsOfTheFiles ==
  /\ DOMAIN Order = 1..2 * Len(Layers) /\ 2 * Len(Layers) \in Nat
  /\ \A i \in DOMAIN Order : Order[i] \in ConfigFiles
<1>1. Len(Layers) \in Nat /\ DOMAIN Layers = 1..Len(Layers)
  BY LayersAreNamed
<1>2. ASSUME NEW i \in DOMAIN Order  PROVE Order[i] \in ConfigFiles
  <2>1. (i + 1) \div 2 \in DOMAIN Layers
    BY <1>1 DEF Order
  <2>2. QED BY <2>1 DEF Order, ConfigFiles, ToSet, FileNames
<1>3. QED BY <1>1, <1>2 DEF Order

\* No file a deploy may write is the packaged one.
LEMMA PackagedIsNoFile == Packaged \notin ConfigFiles
BY LayersAreNamed DEF Packaged, ConfigFiles

\* The origin of the key is the last file of the order that sets it.
LEMMA LastDecides ==
  ASSUME NEW fs
  PROVE  \/ Setting(fs) = {} /\ Origin(fs) = Packaged
         \/ \E i \in Setting(fs) : Origin(fs) = Order[i] /\ \A j \in Setting(fs) : j <= i
<1>1. CASE Setting(fs) = {}
  BY <1>1 DEF Origin
<1>2. CASE Setting(fs) # {}
  <2>1. \E i \in Setting(fs) : \A j \in Setting(fs) : j <= i
    BY <1>2, GreatestExists, OrderIsOfTheFiles DEF Setting
  <2>2. Max(Setting(fs)) \in Setting(fs) /\ \A j \in Setting(fs) : Max(Setting(fs)) >= j
    BY <2>1, OrderIsOfTheFiles DEF Max, Setting
  <2>3. QED BY <1>2, <2>2, OrderIsOfTheFiles DEF Origin, Setting
<1>3. QED BY <1>1, <1>2

\* What decides the key stands while the files it is read from do.
LEMMA FoundDecides ==
  ASSUME UNCHANGED <<ships, found>>
  PROVE  ReadConfigNow(found)' = ReadConfigNow(found)
<1>1. \A f, standing : Value(f, standing)' = Value(f, standing)
  BY DEF Value
<1>2. Setting(found)' = Setting(found)
  BY <1>1 DEF Setting
<1>3. Decides(found)' = Decides(found)
  BY <1>1, <1>2 DEF Decides, Origin
<1>4. QED BY <1>3 DEF ReadConfigNow, Loads

\* The same of the files as they are now.
LEMMA FilesDecide ==
  ASSUME UNCHANGED <<ships, files>>
  PROVE  Decides(files)' = Decides(files) /\ Loads(files)' = Loads(files)
<1>1. \A f, standing : Value(f, standing)' = Value(f, standing)
  BY DEF Value
<1>2. Setting(files)' = Setting(files)
  BY <1>1 DEF Setting
<1>3. Decides(files)' = Decides(files)
  BY <1>1, <1>2 DEF Decides, Origin
<1>4. QED BY <1>3 DEF Loads

-----------------------------------------------------------------------------
(* The invariant                                                           *)

\* A deploy starts in order.
LEMMA DeployStartsInOrder == DeploymentInit => DeployInv
BY DEF DeploymentInit, DeployInv, DeployTypeOK, WrittenAsAllowed, NoneIsForgotten,
       SaidOfWhatWasRead, Written, DeployAnswers

\* The next file is written or left, as its content and --force say.
LEMMA NextFileKeeps ==
  ASSUME DeployInv, DeployNext
  PROVE  DeployInv'
<1>1. PICK f \in todo :
        /\ results' = [g \in DOMAIN results \cup {f} |-> IF g = f THEN ActionAt(f) ELSE results[g]]
        /\ files' = IF f \in Written(results') THEN [files EXCEPT ![f] = "shipped"] ELSE files
        /\ todo' = todo \ {f}
  BY DEF DeployNext
<1>2. /\ deployAt = "writing" /\ f \in ConfigFiles /\ f \notin DOMAIN results
      /\ UNCHANGED <<ships, request, found, deployAt, before, warned, reported, deployAnswer>>
  BY DEF DeployNext, DeployInv, DeployTypeOK, deployAsked
<1>3. /\ DOMAIN results' = DOMAIN results \cup {f}
      /\ results'[f] = ActionAt(f)
      /\ \A g \in DOMAIN results : results'[g] = results[g]
  BY <1>1, <1>2
<1>4. /\ f \in Written(results') <=> ActionAt(f) # "skipped"
      /\ \A g \in ConfigFiles \ {f} : g \in Written(results') <=> g \in Written(results)
      /\ f \notin Written(results)
  BY <1>2, <1>3 DEF Written, ActionAt
<1>5. /\ \A g \in ConfigFiles \ {f} : files'[g] = files[g]
      /\ files'[f] = IF ActionAt(f) # "skipped" THEN "shipped" ELSE files[f]
      /\ files' \in [ConfigFiles -> Contents]
  BY <1>1, <1>2, <1>4 DEF DeployInv, DeployTypeOK, Contents
<1>6. DeployTypeOK'
  BY <1>1, <1>2, <1>3, <1>5 DEF DeployInv, DeployTypeOK
<1>7. WrittenAsAllowed'
  <2>1. f[1] \in request.targets
    BY <1>2 DEF DeployInv, NoneIsForgotten, Asked
  <2>2. files[f] = found[f]
    BY <1>2, <1>4 DEF DeployInv, WrittenAsAllowed
  <2>3. QED
    BY <1>2, <1>4, <1>5, <2>1, <2>2 DEF DeployInv, WrittenAsAllowed, ActionAt
<1>8. NoneIsForgotten'
  <2>1. files'[f] # "none"
    <3>1. CASE ActionAt(f) = "skipped"
      <4>1. files[f] # "none"
        BY <3>1 DEF ActionAt
      <4>2. QED BY <1>5, <3>1, <4>1
    <3>2. CASE ActionAt(f) # "skipped"
      BY <1>5, <3>2
    <3>3. QED BY <3>1, <3>2
  <2>2. \A g \in DOMAIN results' : files'[g] # "none"
    BY <1>2, <1>3, <1>5, <2>1 DEF DeployInv, DeployTypeOK, NoneIsForgotten
  <2>3. DOMAIN results' \cup todo' = Asked'
    BY <1>1, <1>2, <1>3 DEF DeployInv, NoneIsForgotten, Asked
  <2>4. QED
    BY <1>2, <2>2, <2>3 DEF DeployInv, NoneIsForgotten
<1>9. SaidOfWhatWasRead'
  BY <1>2, FoundDecides DEF DeployInv, NoneIsForgotten, SaidOfWhatWasRead
<1>10. QED
  BY <1>6, <1>7, <1>8, <1>9 DEF DeployInv

\* What is named as overridden is a file of a layer, never the packaged one.
LEMMA OverriddenIsAFile ==
  ASSUME DeployInv, deployAt # "begin", before.value # Unread,
         NEW f \in Shadows(before, Decides(files))
  PROVE  f \in ConfigFiles
<1>1. f = before.from /\ Decides(files).from \in Written(results) /\ Decides(files).from[1] = f[1]
  BY DEF Shadows
<1>2. Decides(files).from \in ConfigFiles
  BY <1>1 DEF DeployInv, DeployTypeOK, Written
<1>3. f # Packaged
  BY <1>1, <1>2, LayersAreNamed DEF ConfigFiles, Packaged
<1>4. f = Origin(found)
  BY <1>1 DEF DeployInv, SaidOfWhatWasRead, ReadConfigNow, Decides
<1>5. QED
  BY <1>3, <1>4, LastDecides, OrderIsOfTheFiles DEF Setting

\* The command's other steps.
LEMMA DeployStepKeeps ==
  ASSUME DeployInv, DeploymentNext
  PROVE  DeployInv'
<1>1. CASE BeginDeploy
  <2>1. DeployTypeOK' /\ WrittenAsAllowed' /\ NoneIsForgotten'
    BY <1>1 DEF BeginDeploy, Give, deployAsked, DeployInv, DeployTypeOK, WrittenAsAllowed, NoneIsForgotten,
       Asked, DeployAnswers
  <2>2. files = found
    BY <1>1 DEF BeginDeploy, DeployInv, DeployTypeOK, WrittenAsAllowed, NoneIsForgotten, Written
  <2>3. SaidOfWhatWasRead'
    <3>1. /\ UNCHANGED <<ships, found>> /\ before' = ReadConfigNow(found)
          /\ deployAt' # "begin" /\ deployAnswer' # "SUCCESS"
      BY <1>1, <2>2 DEF BeginDeploy, Give, deployAsked, DeployInv, NoneIsForgotten
    <3>2. QED BY <3>1, FoundDecides DEF SaidOfWhatWasRead
  <2>4. QED BY <2>1, <2>3 DEF DeployInv
<1>2. CASE DeployNext
  BY <1>2, NextFileKeeps
<1>3. CASE DeployFails
  <2>1. /\ UNCHANGED <<ships, request, found, files, todo, results, before>>
        /\ deployAt # "begin" /\ deployAt' # "begin"
    BY <1>3 DEF DeployFails, Give, deployAsked
  <2>2. DeployTypeOK' /\ WrittenAsAllowed' /\ NoneIsForgotten'
    BY <1>3, <2>1 DEF DeployFails, Give, DeployInv, DeployTypeOK, WrittenAsAllowed, NoneIsForgotten, Asked,
       DeployAnswers
  <2>3. SaidOfWhatWasRead'
    BY <1>3, <2>1, FoundDecides DEF DeployFails, Give, DeployInv, NoneIsForgotten, SaidOfWhatWasRead
  <2>4. QED BY <2>2, <2>3 DEF DeployInv
<1>4. CASE LookForDirectories
  <2>1. /\ UNCHANGED <<ships, request, found, files, todo, results, before>>
        /\ deployAt # "begin" /\ deployAt' # "begin"
    BY <1>4 DEF LookForDirectories, Give, deployAsked
  <2>2. DeployTypeOK' /\ WrittenAsAllowed' /\ NoneIsForgotten'
    BY <1>4, <2>1 DEF LookForDirectories, Give, DeployInv, DeployTypeOK, WrittenAsAllowed, NoneIsForgotten,
       Asked, DeployAnswers
  <2>3. SaidOfWhatWasRead'
    BY <1>4, <2>1, FoundDecides DEF LookForDirectories, Give, DeployInv, NoneIsForgotten, SaidOfWhatWasRead
  <2>4. QED BY <2>2, <2>3 DEF DeployInv
<1>5. CASE ReportDeployment
  <2>1. /\ UNCHANGED <<ships, request, found, files, todo, results, before>>
        /\ deployAt # "begin" /\ deployAt' # "begin"
    BY <1>5 DEF ReportDeployment, Give, deployAsked
  <2>2. warned' \subseteq ConfigFiles /\ reported' \subseteq ConfigFiles
    BY <1>5, <2>1, OverriddenIsAFile DEF ReportDeployment, Reported, Written, DeployInv, DeployTypeOK
  <2>3. DeployTypeOK' /\ WrittenAsAllowed' /\ NoneIsForgotten'
    BY <1>5, <2>1, <2>2 DEF ReportDeployment, Give, Written, DeployInv, DeployTypeOK, WrittenAsAllowed,
       NoneIsForgotten, Asked, DeployAnswers
  <2>4. SaidOfWhatWasRead'
    BY <1>5, <2>1, FoundDecides, FilesDecide
       DEF ReportDeployment, Give, Reported, Shadows, DeployInv, NoneIsForgotten, SaidOfWhatWasRead
  <2>5. QED BY <2>3, <2>4 DEF DeployInv
<1>6. QED
  BY <1>1, <1>2, <1>3, <1>4, <1>5 DEF DeploymentNext

\* A step of somebody else changes nothing.
LEMMA DeployStillInOrder ==
  ASSUME DeployInv, UNCHANGED deployVars
  PROVE  DeployInv'
<1>1. UNCHANGED <<files, found, ships, request, deployAt, todo, results, before, warned, reported, deployAnswer>>
  BY DEF deployVars
<1>2. DeployTypeOK' /\ WrittenAsAllowed' /\ NoneIsForgotten'
  BY <1>1 DEF DeployInv, DeployTypeOK, WrittenAsAllowed, NoneIsForgotten, Asked, Written
<1>3. SaidOfWhatWasRead'
  BY <1>1, FoundDecides, FilesDecide DEF DeployInv, SaidOfWhatWasRead, Written, Shadows
<1>4. QED BY <1>2, <1>3 DEF DeployInv

\* A file that decides the key and was kept is named where another of its layer
\* decides instead: that one was written, or it would have decided before.
LEMMA OverridesAreNamed ==
  ASSUME DeployInv, deployAnswer = "SUCCESS", Loads(found)
  PROVE  LET b == Decides(found)   a == Decides(files)
         IN  /\ b.from # Packaged /\ b.value # a.value /\ a.from[1] = b.from[1] /\ files[b.from] = found[b.from]
                  => b.from \in warned
             /\ \A f \in warned : f = b.from /\ files[f] = found[f] /\ a.value # b.value
<1> DEFINE b == Decides(found)
           a == Decides(files)
<1>1. Loads(files)
  BY DEF DeployInv, WrittenAsAllowed, Loads
<1>2. before = b /\ deployAt # "begin"
  BY DEF DeployInv, NoneIsForgotten, SaidOfWhatWasRead, ReadConfigNow
<1>3. warned = IF before.value = Unread \/ Written(results) = {} THEN {} ELSE Shadows(b, a)
  BY <1>1, <1>2 DEF DeployInv, SaidOfWhatWasRead
<1>4. Written(results) \subseteq ConfigFiles
  BY DEF DeployInv, DeployTypeOK, Written
<1>5. ASSUME b.from # Packaged, b.value # a.value, a.from[1] = b.from[1], files[b.from] = found[b.from]
      PROVE  b.from \in warned
  <2>1. PICK i \in Setting(found) : Origin(found) = Order[i] /\ \A j \in Setting(found) : j <= i
    BY <1>5, LastDecides DEF Decides
  <2>2. i \in Setting(files)
    BY <1>5, <2>1 DEF Setting, Decides
  <2>3. PICK k \in Setting(files) : Origin(files) = Order[k] /\ \A j \in Setting(files) : j <= k
    BY <2>2, LastDecides
  <2>4. Order[i] \in ConfigFiles /\ Order[k] \in ConfigFiles
    BY OrderIsOfTheFiles DEF Setting
  <2>5. b.from = Order[i] /\ a.from = Order[k]
    BY <2>1, <2>3 DEF Decides
  <2>6. b.value = Value(Order[i], found[Order[i]]) /\ a.value = Value(Order[k], files[Order[k]])
    BY <2>1, <2>3, <2>4, PackagedIsNoFile DEF Decides
  <2>7. Order[i] \notin Written(results)
    BY <1>5, <2>4, <2>5 DEF DeployInv, WrittenAsAllowed
  <2>8. Order[k] \in Written(results)
    <3> SUFFICES ASSUME files[Order[k]] = found[Order[k]]  PROVE FALSE
      BY <2>4 DEF DeployInv, WrittenAsAllowed
    <3>1. k \in Setting(found)
      BY DEF Setting
    <3>2. k = i
      BY <2>1, <2>2, <2>3, <3>1, OrderIsOfTheFiles DEF Setting
    <3>3. QED BY <1>5, <2>6, <3>2
  <2>9. b.value # Unread
    BY <2>6 DEF Value, Unread
  <2>10. QED
    BY <1>2, <1>3, <1>5, <2>5, <2>7, <2>8, <2>9 DEF Shadows
<1>6. ASSUME NEW f \in warned  PROVE f = b.from /\ files[f] = found[f] /\ a.value # b.value
  <2>1. f \in Shadows(b, a)
    BY <1>3
  <2>2. /\ f = b.from /\ a.value # b.value /\ f \notin Written(results)
        /\ a.from \in Written(results) /\ a.from[1] = f[1]
    BY <2>1 DEF Shadows
  <2>3. f \in ConfigFiles
    BY <1>2, <1>3, <2>1, OverriddenIsAFile
  <2>4. QED BY <2>2, <2>3 DEF DeployInv, WrittenAsAllowed
<1>7. QED BY <1>5, <1>6

\* The invariant makes what is reported true.
LEMMA DeployInvReportsTruly == DeployInv => DeploymentIsAsReported
<1> SUFFICES ASSUME DeployInv PROVE DeploymentIsAsReported
  OBVIOUS
<1>1. OthersFilesAreKept
  BY DEF DeployInv, WrittenAsAllowed, OthersFilesAreKept
<1>2. SuccessIsAsReported
  <2> SUFFICES ASSUME deployAnswer = "SUCCESS"
               PROVE  /\ reported = {f \in ConfigFiles : files[f] # found[f]}
                      /\ \A l \in request.targets : files[<<l, "config.toml">>] \notin {"none", "directory"}
    BY DEF SuccessIsAsReported
  <2>1. \A f \in ConfigFiles : f \in Written(results) <=> files[f] # found[f]
    BY DEF DeployInv, WrittenAsAllowed
  <2>2. reported = {f \in ConfigFiles : files[f] # found[f]}
    BY <2>1 DEF DeployInv, DeployTypeOK, SaidOfWhatWasRead, Written
  <2>3. ASSUME NEW l \in request.targets
        PROVE  files[<<l, "config.toml">>] \notin {"none", "directory"}
    <3>1. <<l, "config.toml">> \in Asked
      BY DEF DeployInv, DeployTypeOK, Asked, ConfigFiles, FileNames, ToSet
    <3>2. <<l, "config.toml">> \in DOMAIN results
      BY <3>1 DEF DeployInv, NoneIsForgotten
    <3>3. QED BY <3>2 DEF DeployInv, NoneIsForgotten
  <2>4. QED BY <2>2, <2>3
<1>3. NoSilentOverride
  BY OverridesAreNamed DEF NoSilentOverride
<1>4. QED BY <1>1, <1>2, <1>3 DEF DeploymentIsAsReported

-----------------------------------------------------------------------------
(* The view.  Most of its invariant says that what the view has recorded   *)
(* of a widget is what the widget is at, or that the widget's last message *)
(* is still on its way.                                                    *)

Messages == [says : {"row"}, value : DOMAIN Disks] \cup [says : {"width", "line", "tab"}, value : Nat]
Widgets == Fitted \cup Tables \cup {"tabs"}
Kinds == {"row", "line", "width", "tab"}

\* Among the messages of a widget none is of a kind; or the last of that kind says v.
Silent(messages, kind) == \A i \in DOMAIN messages : messages[i].says # kind
LastSays(messages, kind, v) ==
  \E i \in DOMAIN messages :
    /\ messages[i].says = kind /\ messages[i].value = v
    /\ \A j \in DOMAIN messages : j > i => messages[j].says # kind

\* What is recorded of v is v, or is about to be.
Follows(messages, kind, v, recorded) ==
  LastSays(messages, kind, v) \/ (Silent(messages, kind) /\ recorded = v)

PostIsTyped == post \in [Widgets -> Seq(Messages)]
RowsAreTyped ==
  /\ cursor \in [Tables -> DOMAIN Disks] /\ rowOf \in [Tables -> {0} \cup DOMAIN Disks]
  /\ strip \in DOMAIN Disks /\ scrolled \in BOOLEAN
LineIsTyped ==
  /\ density \in DOMAIN Lines /\ highlighted \in DOMAIN Lines[density] /\ highlighted \in Nat
  /\ treeHighlighted \in Nat
WidthsAreTyped == region \in [Fitted -> Nat] /\ widthUsed \in [Fitted -> Nat \ {0}]
SmartIsTyped ==
  smart \in [content : {0, 1}, laidOutFor : [width : Nat, height : Nat], renderedAt : Nat,
             lines : [content : {0, 1}, width : Nat]]
ScreenIsTyped == screen \in Size /\ page \in Pages /\ focus \in Pages /\ moves \in 0..MaxMoves

\* What the view has recorded of each table, and of the tree, is where its cursor stands.
RowsFollow == \A t \in Tables : Follows(post[t], "row", cursor[t], rowOf[t])
LineFollows == Follows(post["topology"], "line", highlighted, treeHighlighted)

\* The panel follows what the page shown has announced, once its tab was activated.
PanelFollows ==
  post["tabs"] = <<>> =>
    /\ page \in Tables /\ Silent(post[page], "row") => panel = Disks[cursor[page]]
    /\ page = "topology" /\ Silent(post[page], "line") => panel = SubjectAt(density, highlighted)
    /\ page = "smart" => panel = Nothing
StripFollows ==
  /\ Silent(post["disks"], "row") => strip = cursor["disks"]
  /\ scrolled => scrolledAt = strip

\* A page is filled for the width its widget has, or a message of that width is on its way.
WidthFollows(f) ==
  \/ region[f] # 0 /\ Follows(post[f], "width", region[f], widthUsed[f])
  \/ region[f] = 0 /\ Silent(post[f], "width")
WidthsFollow == \A f \in Fitted : WidthFollows(f)

TreeFollows == TreeKeepsTheDevice /\ SubjectAt(density, highlighted) # NoSubject
PageFollows ==
  /\ LongPageIsCurrent
  /\ smart.renderedAt # 0 => smart.lines = [content |-> smart.content, width |-> smart.renderedAt]

\* What is so of the tables, the tree, the widths and the long page, and of the whole.
RowsInv == RowsAreTyped /\ RowsFollow /\ StripFollows
LineInv == LineIsTyped /\ LineFollows /\ TreeFollows
WidthsInv == WidthsAreTyped /\ WidthsFollow
SmartInv == SmartIsTyped /\ PageFollows
ViewInv == PostIsTyped /\ ScreenIsTyped /\ RowsInv /\ LineInv /\ WidthsInv /\ SmartInv /\ PanelFollows
-----------------------------------------------------------------------------
(* Messages                                                                *)

\* What is posted comes last.
LEMMA PostedLast ==
  ASSUME NEW s \in Seq(Messages), NEW t \in Seq(Messages), NEW kind
  PROVE  /\ Silent(s \o t, kind) <=> Silent(s, kind) /\ Silent(t, kind)
         /\ \A v : LastSays(t, kind, v) => LastSays(s \o t, kind, v)
         /\ \A v : LastSays(s, kind, v) /\ Silent(t, kind) => LastSays(s \o t, kind, v)
<1>1. /\ DOMAIN (s \o t) = 1..(Len(s) + Len(t)) /\ DOMAIN s = 1..Len(s) /\ DOMAIN t = 1..Len(t)
      /\ Len(s) \in Nat /\ Len(t) \in Nat
      /\ \A i \in DOMAIN s : i \in DOMAIN (s \o t) /\ (s \o t)[i] = s[i]
      /\ \A i \in DOMAIN t : Len(s) + i \in DOMAIN (s \o t) /\ (s \o t)[Len(s) + i] = t[i]
      /\ \A i \in DOMAIN (s \o t) : i \in DOMAIN s \/ (i - Len(s) \in DOMAIN t /\ i = Len(s) + (i - Len(s)))
  <2>1. /\ DOMAIN s = 1..Len(s) /\ DOMAIN t = 1..Len(t) /\ Len(s) \in Nat /\ Len(t) \in Nat
        /\ DOMAIN (s \o t) = 1..(Len(s) + Len(t))
    OBVIOUS
  <2>2. \A i \in 1..Len(s) : (s \o t)[i] = s[i]
    OBVIOUS
  <2>3. \A i \in 1..Len(t) : (s \o t)[Len(s) + i] = t[i]
    OBVIOUS
  <2> QED BY <2>1, <2>2, <2>3
<1> DEFINE u == s \o t
<1> HIDE DEF u
<1>2. Silent(u, kind) <=> Silent(s, kind) /\ Silent(t, kind)
  <2>1. ASSUME Silent(u, kind) PROVE Silent(s, kind) /\ Silent(t, kind)
    BY <1>1, <2>1 DEF Silent, u
  <2>2. ASSUME Silent(s, kind), Silent(t, kind), NEW i \in DOMAIN u PROVE u[i].says # kind
    BY <1>1, <2>2 DEF Silent, u
  <2> QED BY <2>1, <2>2 DEF Silent
<1>3. ASSUME NEW v, LastSays(t, kind, v) PROVE LastSays(u, kind, v)
  <2>1. PICK i \in DOMAIN t : /\ t[i].says = kind /\ t[i].value = v
                              /\ \A j \in DOMAIN t : j > i => t[j].says # kind
    BY <1>3 DEF LastSays
  <2>2. ASSUME NEW j \in DOMAIN u, j > Len(s) + i PROVE u[j].says # kind
    <3>1. j - Len(s) \in DOMAIN t /\ j - Len(s) > i /\ u[j] = t[j - Len(s)]
      BY <1>1, <2>1, <2>2 DEF u
    <3> QED BY <2>1, <3>1
  <2>3. Len(s) + i \in DOMAIN u /\ u[Len(s) + i] = t[i]
    BY <1>1, <2>1 DEF u
  <2> QED BY <2>1, <2>2, <2>3 DEF LastSays
<1>4. ASSUME NEW v, LastSays(s, kind, v), Silent(t, kind) PROVE LastSays(u, kind, v)
  <2>1. PICK i \in DOMAIN s : /\ s[i].says = kind /\ s[i].value = v
                              /\ \A j \in DOMAIN s : j > i => s[j].says # kind
    BY <1>4 DEF LastSays
  <2>2. ASSUME NEW j \in DOMAIN u, j > i PROVE u[j].says # kind
    BY <1>1, <1>4, <2>1, <2>2 DEF u, Silent
  <2> QED BY <1>1, <2>1, <2>2 DEF LastSays, u
<1> QED BY <1>2, <1>3, <1>4 DEF u

\* What is handled came first.
LEMMA HandledFirst ==
  ASSUME NEW s \in Seq(Messages), s # <<>>, NEW kind
  PROVE  /\ Silent(s, kind) => Silent(Tail(s), kind)
         /\ Head(s).says # kind => (Silent(s, kind) <=> Silent(Tail(s), kind))
         /\ \A v : LastSays(s, kind, v) =>
              \/ LastSays(Tail(s), kind, v)
              \/ Silent(Tail(s), kind) /\ Head(s).says = kind /\ Head(s).value = v
<1> DEFINE u == Tail(s)
<1>1. /\ DOMAIN s = 1..Len(s) /\ Len(s) \in Nat \ {0} /\ Head(s) = s[1]
      /\ DOMAIN u = 1..(Len(s) - 1)
      /\ \A i \in DOMAIN u : u[i] = s[i + 1] /\ i + 1 \in DOMAIN s
      /\ \A i \in DOMAIN s : i = 1 \/ (i - 1 \in DOMAIN u /\ u[i - 1] = s[i])
  OBVIOUS
<1> HIDE DEF u
<1>2. Silent(s, kind) => Silent(u, kind)
  BY <1>1 DEF Silent
<1>3. ASSUME Head(s).says # kind, Silent(u, kind), NEW i \in DOMAIN s PROVE s[i].says # kind
  BY <1>1, <1>3 DEF Silent
<1>4. ASSUME NEW v, LastSays(s, kind, v)
      PROVE  \/ LastSays(u, kind, v)
             \/ Silent(u, kind) /\ Head(s).says = kind /\ Head(s).value = v
  <2>1. PICK i \in DOMAIN s : /\ s[i].says = kind /\ s[i].value = v
                              /\ \A j \in DOMAIN s : j > i => s[j].says # kind
    BY <1>4 DEF LastSays
  <2>2. CASE i = 1
    <3>1. ASSUME NEW j \in DOMAIN u PROVE u[j].says # kind
      BY <1>1, <2>1, <2>2
    <3> QED BY <1>1, <2>1, <2>2, <3>1 DEF Silent
  <2>3. CASE i # 1
    <3>1. ASSUME NEW j \in DOMAIN u, j > i - 1 PROVE u[j].says # kind
      BY <1>1, <2>1, <3>1
    <3>2. i - 1 \in DOMAIN u /\ u[i - 1] = s[i]
      BY <1>1, <2>1, <2>3
    <3> QED BY <2>1, <3>1, <3>2 DEF LastSays
  <2> QED BY <2>2, <2>3
<1> QED BY <1>2, <1>3, <1>4 DEF u, Silent

\* One message is the last of its kind, and of no other.
LEMMA OneMessage ==
  ASSUME NEW m \in Messages, NEW kind
  PROVE  /\ <<m>> \in Seq(Messages)
         /\ LastSays(<<m>>, m.says, m.value)
         /\ kind # m.says => Silent(<<m>>, kind)
BY DEF LastSays, Silent

\* A table that is refilled announces the row its cursor is put back on last.
LEMMA RefilledSays ==
  ASSUME NEW kept \in DOMAIN Disks, NEW kind
  PROVE  /\ Refilled(kept) \in Seq(Messages)
         /\ LastSays(Refilled(kept), "row", kept)
         /\ kind # "row" => Silent(Refilled(kept), kind)
<1>1. Row(1) \in Messages /\ Row(kept) \in Messages
  BY ViewSizes DEF Row, Messages
<1>2. Row(kept).says = "row" /\ Row(kept).value = kept /\ Row(1).says = "row" /\ Row(1).value = 1
  BY DEF Row
<1>3. CASE kept = 1
  <2>1. Refilled(kept) = <<Row(1)>>
    BY <1>3 DEF Refilled
  <2> QED BY <1>1, <1>2, <1>3, <2>1, OneMessage
<1>4. CASE kept # 1
  <2>1. kept > 1
    BY <1>4, ViewSizes
  <2> DEFINE a == <<Row(1)>>   b == <<Row(kept)>>
  <2>2. /\ a \in Seq(Messages) /\ b \in Seq(Messages)
        /\ LastSays(b, "row", kept)
        /\ kind # "row" => Silent(a, kind) /\ Silent(b, kind)
    BY <1>1, <1>2, OneMessage
  <2>3. Refilled(kept) = a \o b
    BY <2>1 DEF Refilled
  <2> HIDE DEF a, b
  <2>4. a \o b \in Seq(Messages)
    BY <2>2
  <2>5. LastSays(a \o b, "row", kept)
    BY <2>2, PostedLast
  <2>6. kind # "row" => Silent(a \o b, kind)
    BY <2>2, PostedLast
  <2> QED BY <2>3, <2>4, <2>5, <2>6
<1> QED BY <1>3, <1>4

\* A kind of message is not silent and said at once.
LEMMA SaidIsNotSilent ==
  ASSUME NEW s, NEW kind, NEW v, LastSays(s, kind, v)
  PROVE  ~Silent(s, kind)
BY DEF LastSays, Silent

\* What a step does to the messages of one kind at a widget: none is added or handled,
\* one is added last, the first is handled.
Kept(w, kind) ==
  /\ Silent(post'[w], kind) <=> Silent(post[w], kind)
  /\ \A u, x : Follows(post[w], kind, u, x) => Follows(post'[w], kind, u, x)
Told(w, kind, v) ==
  /\ ~Silent(post'[w], kind) /\ \A x : Follows(post'[w], kind, v, x)
Heard(w, kind, v) == \A u, x : Follows(post[w], kind, u, x) => Follows(post'[w], kind, u, v)

\* What is recorded is what is at hand, where nothing is on its way.
LEMMA RecordedIsAtHand ==
  ASSUME NEW s, NEW kind, NEW v, NEW recorded, Follows(s, kind, v, recorded), Silent(s, kind)
  PROVE  recorded = v
BY SaidIsNotSilent DEF Follows

\* A widget nobody speaks of keeps its messages.
LEMMA UnspokenIsKept ==
  ASSUME NEW w, post'[w] = post[w], NEW kind
  PROVE  Kept(w, kind)
BY DEF Kept

\* Posting adds what is sent, at the widgets it is sent to.
LEMMA PostingAdds ==
  ASSUME post \in [Widgets -> Seq(Messages)], NEW sent, Post(sent),
         \A w \in Widgets : w \in DOMAIN sent => sent[w] \in Seq(Messages)
  PROVE  /\ post' \in [Widgets -> Seq(Messages)]
         /\ \A w \in Widgets : post'[w] = IF w \in DOMAIN sent THEN post[w] \o sent[w] ELSE post[w]
<1>1. post' = [w \in Widgets |-> post[w] \o IF w \in DOMAIN sent THEN sent[w] ELSE <<>>]
  BY DEF Post
<1>2. ASSUME NEW w \in Widgets
      PROVE  /\ post'[w] = IF w \in DOMAIN sent THEN post[w] \o sent[w] ELSE post[w]
             /\ post'[w] \in Seq(Messages)
  <2>1. CASE w \in DOMAIN sent
    BY <1>1, <2>1
  <2>2. CASE w \notin DOMAIN sent
    BY <1>1, <2>2
  <2> QED BY <2>1, <2>2
<1> QED BY <1>1, <1>2

\* Answering takes the first message away, and adds what is sent.
LEMMA AnsweringAdds ==
  ASSUME post \in [Widgets -> Seq(Messages)], NEW a \in Widgets, post[a] # <<>>, NEW sent, Answer(a, sent),
         \A w \in Widgets : w \in DOMAIN sent => sent[w] \in Seq(Messages)
  PROVE  /\ post' \in [Widgets -> Seq(Messages)]
         /\ \A w \in Widgets \ {a} : w \notin DOMAIN sent => post'[w] = post[w]
         /\ post'[a] = IF a \in DOMAIN sent THEN Tail(post[a]) \o sent[a] ELSE Tail(post[a])
<1>1. post' = [w \in Widgets |-> (IF w = a THEN Tail(post[w]) ELSE post[w])
                                 \o IF w \in DOMAIN sent THEN sent[w] ELSE <<>>]
  BY DEF Answer
<1>2. ASSUME NEW w \in Widgets
      PROVE  /\ post'[w] \in Seq(Messages)
             /\ w # a /\ w \notin DOMAIN sent => post'[w] = post[w]
             /\ w = a => post'[w] = IF a \in DOMAIN sent THEN Tail(post[a]) \o sent[a] ELSE Tail(post[a])
  <2>1. Tail(post[a]) \in Seq(Messages) /\ post[w] \in Seq(Messages)
    OBVIOUS
  <2>2. CASE w \in DOMAIN sent
    BY <1>1, <2>1, <2>2
  <2>3. CASE w \notin DOMAIN sent
    BY <1>1, <2>1, <2>3
  <2> QED BY <2>2, <2>3
<1> QED BY <1>1, <1>2

\* What is added after a list of messages is told, and no other kind is touched.
LEMMA AddedIsTold ==
  ASSUME NEW w, NEW prior \in Seq(Messages), NEW added \in Seq(Messages), post'[w] = prior \o added,
         NEW kind, NEW v, LastSays(added, kind, v)
  PROVE  Told(w, kind, v)
BY PostedLast, SaidIsNotSilent DEF Told, Follows

\* The messages of all other kinds, and at all other widgets, stay as they are.
Untouched(touched) == \A w \in Widgets, kind \in Kinds : <<w, kind>> \notin touched => Kept(w, kind)

\* What is added of one kind leaves every other kind as it is.
LEMMA AddedIsKept ==
  ASSUME NEW w, post[w] \in Seq(Messages), NEW added \in Seq(Messages), post'[w] = post[w] \o added,
         NEW kind, Silent(added, kind)
  PROVE  Kept(w, kind)
BY PostedLast DEF Kept, Follows

\* The first message is heard once it is handled, whatever is added of other kinds; a kind
\* that is neither handled nor added stays as it is.
LEMMA HandledIsHeard ==
  ASSUME NEW w, post[w] \in Seq(Messages), post[w] # <<>>, NEW added \in Seq(Messages),
         post'[w] = Tail(post[w]) \o added, NEW kind, Silent(added, kind)
  PROVE  /\ Head(post[w]).says = kind => Heard(w, kind, Head(post[w]).value)
         /\ Head(post[w]).says # kind => Kept(w, kind)
<1> DEFINE rest == Tail(post[w])
<1>1. rest \in Seq(Messages)
  OBVIOUS
<1>2. /\ Silent(post[w], kind) => Silent(rest, kind)
      /\ Head(post[w]).says # kind => (Silent(post[w], kind) <=> Silent(rest, kind))
      /\ \A v : LastSays(post[w], kind, v) =>
           \/ LastSays(rest, kind, v)
           \/ Silent(rest, kind) /\ Head(post[w]).says = kind /\ Head(post[w]).value = v
  BY HandledFirst
<1>3. post'[w] = rest \o added
  OBVIOUS
<1> HIDE DEF rest
<1>4. /\ Silent(post'[w], kind) <=> Silent(rest, kind)
      /\ \A v : LastSays(rest, kind, v) => LastSays(post'[w], kind, v)
  <2>1. /\ Silent(rest \o added, kind) <=> Silent(rest, kind)
        /\ \A v : LastSays(rest, kind, v) => LastSays(rest \o added, kind, v)
    BY <1>1, PostedLast
  <2> QED BY <1>3, <2>1
<1>5. ASSUME Head(post[w]).says = kind PROVE Heard(w, kind, Head(post[w]).value)
  <2>1. ~Silent(post[w], kind)
    BY <1>5 DEF Silent
  <2> QED BY <1>2, <1>4, <2>1 DEF Heard, Follows
<1>6. ASSUME Head(post[w]).says # kind PROVE Kept(w, kind)
  BY <1>2, <1>4, <1>6 DEF Kept, Follows
<1> QED BY <1>5, <1>6

\* One message that is posted is told, and leaves all else as it is.
LEMMA OneIsPosted ==
  ASSUME PostIsTyped, NEW a \in Widgets, NEW m \in Messages, Post([x \in {a} |-> <<m>>])
  PROVE  /\ PostIsTyped'
         /\ \A w \in Widgets \ {a} : post'[w] = post[w]
         /\ post'[a] # <<>>
         /\ Told(a, m.says, m.value)
         /\ Untouched({<<a, m.says>>})
<1>1. /\ <<m>> \in Seq(Messages) /\ LastSays(<<m>>, m.says, m.value)
      /\ \A kind : kind # m.says => Silent(<<m>>, kind)
  BY OneMessage
<1> DEFINE sent == [x \in {a} |-> <<m>>]
<1>2. DOMAIN sent = {a} /\ sent[a] = <<m>>
  OBVIOUS
<1> HIDE DEF sent
<1>3. /\ post' \in [Widgets -> Seq(Messages)]
      /\ \A w \in Widgets : post'[w] = IF w \in DOMAIN sent THEN post[w] \o sent[w] ELSE post[w]
  BY <1>1, <1>2, PostingAdds DEF PostIsTyped, sent
<1>4. \A w \in Widgets \ {a} : post'[w] = post[w]
  BY <1>2, <1>3
<1>5. post'[a] = post[a] \o <<m>> /\ post[a] \in Seq(Messages)
  BY <1>2, <1>3 DEF PostIsTyped
<1>6. Told(a, m.says, m.value)
  BY <1>1, <1>5, AddedIsTold
<1>7. post'[a] # <<>>
  BY <1>6 DEF Told, Silent
<1>8. ASSUME NEW w \in Widgets, NEW kind \in Kinds, <<w, kind>> # <<a, m.says>> PROVE Kept(w, kind)
  <2>1. CASE w # a
    BY <1>4, <2>1, UnspokenIsKept
  <2>2. CASE w = a
    <3>1. kind # m.says
      BY <1>8, <2>2
    <3> QED BY <1>1, <1>5, <2>2, <3>1, AddedIsKept
  <2> QED BY <2>1, <2>2
<1> QED BY <1>3, <1>4, <1>6, <1>7, <1>8 DEF Untouched, PostIsTyped

\* One message that is handled is heard, and leaves all else as it is.
LEMMA OneIsAnswered ==
  ASSUME PostIsTyped, NEW a \in Widgets, post[a] # <<>>, Answer(a, <<>>)
  PROVE  /\ PostIsTyped'
         /\ \A w \in Widgets \ {a} : post'[w] = post[w]
         /\ Heard(a, Head(post[a]).says, Said(a))
         /\ Untouched({<<a, Head(post[a]).says>>})
<1>1. DOMAIN <<>> = {}
  OBVIOUS
<1>2. /\ post' \in [Widgets -> Seq(Messages)]
      /\ \A w \in Widgets \ {a} : post'[w] = post[w]
      /\ post'[a] = Tail(post[a])
  BY <1>1, AnsweringAdds DEF PostIsTyped
<1>3. post'[a] = Tail(post[a]) \o <<>> /\ post[a] \in Seq(Messages) /\ <<>> \in Seq(Messages)
  BY <1>2 DEF PostIsTyped
<1>4. \A kind : Silent(<<>>, kind)
  BY DEF Silent
<1>5. Heard(a, Head(post[a]).says, Said(a))
  BY <1>3, <1>4, HandledIsHeard DEF Said
<1>6. ASSUME NEW w \in Widgets, NEW kind \in Kinds, <<w, kind>> # <<a, Head(post[a]).says>>
      PROVE  Kept(w, kind)
  <2>1. CASE w # a
    BY <1>2, <2>1, UnspokenIsKept
  <2>2. CASE w = a
    <3>1. kind # Head(post[a]).says
      BY <1>6, <2>2
    <3> QED BY <1>3, <1>4, <2>2, <3>1, HandledIsHeard
  <2> QED BY <2>1, <2>2
<1> QED BY <1>2, <1>5, <1>6 DEF Untouched, PostIsTyped

\* A width that is handled by filling the widget again is heard, and the filling is told.
LEMMA OneIsFilledFor ==
  ASSUME PostIsTyped, NEW a \in Widgets, Says(a, "width"), NEW added \in Seq(Messages),
         Answer(a, [x \in {a} |-> added]),
         NEW kind \in Kinds \ {"width"}, NEW v, LastSays(added, kind, v),
         \A other \in Kinds \ {kind} : Silent(added, other)
  PROVE  /\ PostIsTyped'
         /\ \A w \in Widgets \ {a} : post'[w] = post[w]
         /\ Heard(a, "width", Said(a))
         /\ Told(a, kind, v)
         /\ Untouched({<<a, "width">>, <<a, kind>>})
<1> DEFINE sent == [x \in {a} |-> added]
<1>1. DOMAIN sent = {a} /\ sent[a] = added
  OBVIOUS
<1> HIDE DEF sent
<1>2. post[a] # <<>> /\ Head(post[a]).says = "width"
  BY DEF Says
<1>3. /\ post' \in [Widgets -> Seq(Messages)]
      /\ \A w \in Widgets \ {a} : post'[w] = post[w]
      /\ post'[a] = Tail(post[a]) \o added
  <2>1. \A w \in Widgets : w \in DOMAIN sent => sent[w] \in Seq(Messages)
    BY <1>1
  <2>2. Answer(a, sent)
    BY DEF sent
  <2>3. /\ post' \in [Widgets -> Seq(Messages)]
        /\ \A w \in Widgets \ {a} : w \notin DOMAIN sent => post'[w] = post[w]
        /\ post'[a] = IF a \in DOMAIN sent THEN Tail(post[a]) \o sent[a] ELSE Tail(post[a])
    BY <1>2, <2>1, <2>2, AnsweringAdds DEF PostIsTyped
  <2> QED BY <1>1, <2>3
<1>4. post[a] \in Seq(Messages) /\ Tail(post[a]) \in Seq(Messages)
  BY <1>2 DEF PostIsTyped
<1>5. Heard(a, "width", Said(a))
  BY <1>2, <1>3, <1>4, HandledIsHeard DEF Said, Kinds
<1>6. Told(a, kind, v)
  BY <1>3, <1>4, AddedIsTold
<1>7. ASSUME NEW w \in Widgets, NEW k \in Kinds, <<w, k>> \notin {<<a, "width">>, <<a, kind>>}
      PROVE  Kept(w, k)
  <2>1. CASE w # a
    BY <1>3, <2>1, UnspokenIsKept
  <2>2. CASE w = a
    <3>1. k # "width" /\ k # kind
      BY <1>7, <2>2
    <3> QED BY <1>2, <1>3, <1>4, <2>2, <3>1, HandledIsHeard
  <2> QED BY <2>1, <2>2
<1> QED BY <1>3, <1>5, <1>6, <1>7 DEF Untouched, PostIsTyped

-----------------------------------------------------------------------------
(* The fabric                                                              *)

\* What a device and all it hangs on are, up to the root.
Fabric == Nodes \cup {NoSubject}
AncestorsOf(f, n) == IF n = NoSubject THEN <<>> ELSE <<n>> \o f[Parent[n]]

\* Among numbers of which there are some, one is least.
LEMMA SomeIsLeast ==
  ASSUME NEW S \in SUBSET Nat, S # {}
  PROVE  \E i \in S : \A j \in S : i <= j
<1> DEFINE Less == {ss \in Nat \X Nat : ss[1] < ss[2]}
<1>1. IsWellFoundedOn(Less, Nat)
  BY NatLessThanWellFounded DEF OpToRel
<1>2. PICK i \in S : \A j \in S : <<j, i>> \notin Less
  <2> HIDE DEF Less
  <2> QED BY <1>1, WFMin
<1>3. \A j \in S : ~(j < i)
  BY <1>2
<1> QED BY <1>3

\* A set that a device is in whenever what it hangs on is has every device in it.
LEMMA DownTheTree ==
  ASSUME NEW S, NoSubject \in S, \A n \in Nodes : Parent[n] \in S => n \in S
  PROVE  Fabric \subseteq S
<1>1. PICK depth \in [Nodes -> 1..Cardinality(Nodes)] :
        \A n \in Nodes : Parent[n] # NoSubject => Parent[n] \in Nodes /\ depth[Parent[n]] < depth[n]
  BY FabricIsATree
<1> DEFINE Missing == {n \in Nodes : n \notin S}
           Depths == {depth[n] : n \in Missing}
<1>2. ASSUME Missing # {} PROVE FALSE
  <2>1. Cardinality(Nodes) \in Nat
    BY FabricIsATree, FS_CardinalityType
  <2>2. Depths \in SUBSET Nat /\ Depths # {}
    BY <1>1, <1>2, <2>1
  <2>3. PICK d \in Depths : \A e \in Depths : d <= e
    BY <2>2, SomeIsLeast
  <2>4. PICK n \in Missing : depth[n] = d
    BY <2>3
  <2>5. Parent[n] # NoSubject /\ Parent[n] \notin S
    BY <2>4
  <2>6. Parent[n] \in Missing /\ depth[Parent[n]] < depth[n]
    BY <1>1, <2>4, <2>5
  <2>7. depth[Parent[n]] \in Nat /\ depth[n] \in Nat /\ d <= depth[Parent[n]]
    BY <1>1, <2>1, <2>3, <2>4, <2>6
  <2> QED BY <2>4, <2>6, <2>7
<1> QED BY <1>2 DEF Fabric

\* There is a way up from every device, for the fabric is a tree.
LEMMA ThereAreAncestors ==
  \E f : f = [n \in Fabric |-> AncestorsOf(f, n)]
<1>1. PICK depth \in [Nodes -> 1..Cardinality(Nodes)] :
        \A n \in Nodes : Parent[n] # NoSubject => Parent[n] \in Nodes /\ depth[Parent[n]] < depth[n]
  BY FabricIsATree
<1>2. Cardinality(Nodes) \in Nat
  BY FabricIsATree, FS_CardinalityType
<1> DEFINE Within(k) == {n \in Nodes : depth[n] <= k} \cup {NoSubject}
           Climbs(f, k) == f = [n \in Within(k) |-> AncestorsOf(f, n)]
           Unclimbed == {k \in Nat : \A f : ~Climbs(f, k)}
<1>3. ASSUME NEW k \in Nat, NEW f, Climbs(f, k)
      PROVE  \E g : Climbs(g, k + 1)
  <2> DEFINE g == [n \in Within(k + 1) |-> AncestorsOf(f, n)]
  <2>1. \A n \in Nodes : depth[n] \in Nat
    BY <1>1, <1>2
  <2>2. \A n \in Within(k) : n \in Within(k + 1) /\ f[n] = AncestorsOf(f, n)
    BY <1>3, <2>1
  <2>3. \A n \in Within(k) : g[n] = f[n]
    BY <2>2
  <2>4. \A n \in Within(k + 1) : n # NoSubject => Parent[n] \in Within(k)
    <3> SUFFICES ASSUME NEW n \in Nodes, depth[n] <= k + 1, Parent[n] # NoSubject
                 PROVE  Parent[n] \in Nodes /\ depth[Parent[n]] <= k
      OBVIOUS
    <3>1. Parent[n] \in Nodes /\ depth[Parent[n]] < depth[n]
      BY <1>1
    <3> QED BY <2>1, <3>1
  <2>5. ASSUME NEW n \in Within(k + 1) PROVE AncestorsOf(g, n) = AncestorsOf(f, n)
    <3>1. CASE n = NoSubject
      BY <3>1 DEF AncestorsOf
    <3>2. CASE n # NoSubject
      <4>1. g[Parent[n]] = f[Parent[n]]
        BY <2>3, <2>4, <3>2
      <4> HIDE DEF g
      <4> QED BY <3>2, <4>1 DEF AncestorsOf
    <3> QED BY <3>1, <3>2
  <2>6. g = [n \in Within(k + 1) |-> AncestorsOf(g, n)]
    BY <2>5
  <2> QED BY <2>6
<1>4. \E f : Climbs(f, 0)
  <2>1. Within(0) = {NoSubject}
    BY <1>1, <1>2
  <2> DEFINE f == [n \in {NoSubject} |-> <<>>]
  <2>2. f = [n \in Within(0) |-> AncestorsOf(f, n)]
    BY <2>1 DEF AncestorsOf
  <2> QED BY <2>2
<1>5. Unclimbed = {}
  <2> SUFFICES ASSUME Unclimbed # {} PROVE FALSE
    OBVIOUS
  <2>1. Unclimbed \in SUBSET Nat
    OBVIOUS
  <2>2. PICK k \in Unclimbed : \A j \in Unclimbed : k <= j
    BY <2>1, SomeIsLeast
  <2>3. k # 0
    BY <1>4, <2>2
  <2>4. k - 1 \in Nat /\ k - 1 \notin Unclimbed
    BY <2>2, <2>3
  <2>5. PICK f : Climbs(f, k - 1)
    BY <2>4
  <2>6. k - 1 + 1 = k
    BY <2>2
  <2>7. \E g : Climbs(g, k - 1 + 1)
    BY <1>3, <2>4, <2>5
  <2> HIDE DEF Climbs
  <2>8. \E g : Climbs(g, k)
    BY <2>6, <2>7
  <2> QED BY <2>2, <2>8
<1>6. Within(Cardinality(Nodes)) = Fabric
  BY <1>1, <1>2 DEF Fabric
<1>7. PICK f : Climbs(f, Cardinality(Nodes))
  <2>1. Cardinality(Nodes) \notin Unclimbed
    BY <1>5
  <2> HIDE DEF Climbs
  <2> QED BY <1>2, <2>1
<1> QED BY <1>6, <1>7

\* So the model's ancestors are what they are said to be.
LEMMA AncestorsClimb ==
  /\ Ancestors[NoSubject] = <<>>
  /\ \A n \in Nodes : Ancestors[n] = <<n>> \o Ancestors[Parent[n]] /\ Parent[n] \in Fabric
<1>1. Ancestors = [n \in Fabric |-> AncestorsOf(Ancestors, n)]
  BY ThereAreAncestors DEF Ancestors, AncestorsOf, Fabric
<1>2. \A n \in Nodes : Parent[n] \in Fabric /\ n # NoSubject
  BY FabricIsATree DEF Fabric
<1> QED BY <1>1, <1>2 DEF AncestorsOf, Fabric

\* The way up is one of devices, and starts at the device itself.
LEMMA AncestorsAreDevices ==
  /\ \A n \in Fabric : Ancestors[n] \in Seq(Nodes)
  /\ \A n \in Nodes : Ancestors[n] # <<>> /\ Ancestors[n][1] = n
<1> DEFINE S == {n \in Fabric : Ancestors[n] \in Seq(Nodes)}
<1>1. NoSubject \in S
  <2>1. Ancestors[NoSubject] = <<>> /\ NoSubject \in Fabric
    BY AncestorsClimb DEF Fabric
  <2>2. <<>> \in Seq(Nodes)
    OBVIOUS
  <2>3. Ancestors[NoSubject] \in Seq(Nodes)
    BY <2>1, <2>2
  <2> QED BY <2>1, <2>3
<1>2. ASSUME NEW n \in Nodes, Parent[n] \in S PROVE n \in S
  <2>1. Ancestors[n] = <<n>> \o Ancestors[Parent[n]] /\ <<n>> \in Seq(Nodes)
    BY AncestorsClimb
  <2> DEFINE rest == Ancestors[Parent[n]]
  <2>2. rest \in Seq(Nodes)
    BY <1>2
  <2>3. <<n>> \o rest \in Seq(Nodes)
    <3> HIDE DEF rest
    <3> QED BY <2>2
  <2> QED BY <2>1, <2>3 DEF Fabric
<1>3. Fabric \subseteq S
  <2> HIDE DEF S
  <2> QED BY <1>1, <1>2, DownTheTree
<1>4. ASSUME NEW n \in Nodes PROVE Ancestors[n] # <<>> /\ Ancestors[n][1] = n
  <2>1. Ancestors[n] = <<n>> \o Ancestors[Parent[n]] /\ Ancestors[Parent[n]] \in Seq(Nodes)
    BY <1>3, AncestorsClimb
  <2> QED BY <2>1
<1> QED BY <1>3, <1>4

\* What a device hangs on, and what that hangs on.
IsAbove(a, n) == \E i \in DOMAIN Ancestors[n] : Ancestors[n][i] = a

\* The devices above a device are itself and those above what it hangs on.
LEMMA AboveIsUpwards ==
  ASSUME NEW n \in Nodes, NEW a
  PROVE  IsAbove(a, n) <=> a = n \/ IsAbove(a, Parent[n])
<1> DEFINE up == Ancestors[Parent[n]]
<1>1. Ancestors[n] = <<n>> \o up /\ up \in Seq(Nodes)
  BY AncestorsClimb, AncestorsAreDevices
<1> DEFINE here == <<n>> \o up
<1>2. /\ DOMAIN here = 1..(Len(up) + 1) /\ DOMAIN up = 1..Len(up) /\ Len(up) \in Nat
      /\ here[1] = n /\ \A i \in 1..Len(up) : here[i + 1] = up[i]
  BY <1>1
<1> HIDE DEF up, here
<1>3. ASSUME NEW i \in DOMAIN here, here[i] = a PROVE a = n \/ \E j \in DOMAIN up : up[j] = a
  <2>1. CASE i = 1
    BY <1>2, <1>3, <2>1
  <2>2. CASE i # 1
    <3>1. i - 1 \in 1..Len(up) /\ i = (i - 1) + 1
      BY <1>2, <2>2
    <3>2. here[i] = up[i - 1]
      BY <1>2, <3>1
    <3> QED BY <1>2, <1>3, <3>1, <3>2
  <2> QED BY <2>1, <2>2
<1>4. ASSUME NEW j \in DOMAIN up, up[j] = a PROVE \E i \in DOMAIN here : here[i] = a
  <2>1. j + 1 \in DOMAIN here /\ here[j + 1] = a
    BY <1>2, <1>4
  <2> QED BY <2>1
<1>5. 1 \in DOMAIN here /\ here[1] = n
  BY <1>2
<1> QED BY <1>1, <1>3, <1>4, <1>5 DEF IsAbove, up, here

\* What is above something above a device is above it.
LEMMA AboveIsTransitive ==
  ASSUME NEW n \in Nodes, NEW b \in Nodes, IsAbove(b, n), NEW a, IsAbove(a, b)
  PROVE  IsAbove(a, n)
<1> DEFINE S == {m \in Fabric : IsAbove(b, m) => IsAbove(a, m)}
<1>1. NoSubject \in S
  <2>1. Ancestors[NoSubject] = <<>> /\ DOMAIN <<>> = {}
    BY AncestorsClimb
  <2> QED BY <2>1 DEF IsAbove, Fabric
<1>2. ASSUME NEW m \in Nodes, Parent[m] \in S PROVE m \in S
  BY <1>2, AboveIsUpwards DEF Fabric
<1>3. Fabric \subseteq S
  <2> HIDE DEF S
  <2> QED BY <1>1, <1>2, DownTheTree
<1> QED BY <1>3 DEF Fabric

-----------------------------------------------------------------------------
(* The line the cursor of the tree is put back on                          *)

\* The line about a subject that is drawn is one of the lines, and is about it.
LEMMA LineAboutIsThere ==
  ASSUME NEW d \in DOMAIN Lines, NEW subject \in Drawn(d)
  PROVE  LineAbout(d, subject) \in DOMAIN Lines[d] /\ Lines[d][LineAbout(d, subject)] = subject
BY DEF LineAbout, Drawn

\* The machine is drawn at every density.
LEMMA MachineIsDrawn ==
  ASSUME NEW d \in DOMAIN Lines
  PROVE  Machine \in Drawn(d)
<1>1. Lines[d] \in Seq(STRING) /\ Lines[d] # <<>> /\ Lines[d][1] = Machine /\ Machine # NoSubject
  BY ViewSizes, FabricIsATree
<1>2. 1 \in DOMAIN Lines[d]
  BY <1>1
<1> QED BY <1>1, <1>2 DEF Drawn

\* The cursor goes to the device itself where it is drawn, or else to something it hangs
\* on, or to the machine.
LEMMA TheLineOfADevice ==
  ASSUME NEW d \in DOMAIN Lines, NEW subject
  PROVE  /\ LineOf(subject, d) \in DOMAIN Lines[d]
         /\ subject \in Drawn(d) => Lines[d][LineOf(subject, d)] = subject
         /\ \/ Lines[d][LineOf(subject, d)] \in {Machine, subject}
            \/ subject \in Nodes /\ IsAbove(Lines[d][LineOf(subject, d)], subject)
         /\ Lines[d][LineOf(subject, d)] # NoSubject
<1> DEFINE up == IF subject \in Nodes THEN Ancestors[subject] ELSE <<subject>>
           drawn == {i \in DOMAIN up : up[i] \in Drawn(d)}
           first == CHOOSE i \in drawn : \A j \in drawn : i <= j
<1>1. /\ DOMAIN up \in SUBSET Nat /\ 1 \in DOMAIN up /\ up[1] = subject
      /\ \A i \in DOMAIN up : i >= 1 /\ (up[i] = subject \/ (subject \in Nodes /\ IsAbove(up[i], subject)))
  <2>1. CASE subject \in Nodes
    <3>1. Ancestors[subject] \in Seq(Nodes) /\ Ancestors[subject] # <<>> /\ Ancestors[subject][1] = subject
      BY <2>1, AncestorsAreDevices DEF Fabric
    <3>2. DOMAIN Ancestors[subject] = 1..Len(Ancestors[subject]) /\ Len(Ancestors[subject]) \in Nat \ {0}
      BY <3>1
    <3>3. up = Ancestors[subject]
      BY <2>1
    <3> QED BY <2>1, <3>1, <3>2, <3>3 DEF IsAbove
  <2>2. CASE subject \notin Nodes
    BY <2>2
  <2> QED BY <2>1, <2>2
<1>2. LineOf(subject, d) = IF drawn = {} THEN LineAbout(d, Machine) ELSE LineAbout(d, up[first])
  BY DEF LineOf
<1> HIDE DEF up
<1>3. CASE drawn = {}
  <2>1. subject \notin Drawn(d)
    BY <1>1, <1>3
  <2> QED BY <1>2, <1>3, <2>1, MachineIsDrawn, LineAboutIsThere, FabricIsATree
<1>4. CASE drawn # {}
  <2>1. first \in drawn /\ \A j \in drawn : first <= j
    <3>1. drawn \in SUBSET Nat
      BY <1>1
    <3>2. \E i \in drawn : \A j \in drawn : i <= j
      <4> HIDE DEF drawn
      <4> QED BY <1>4, <3>1, SomeIsLeast
    <3> QED BY <3>2
  <2> HIDE DEF first
  <2>2. up[first] \in Drawn(d) /\ first \in DOMAIN up
    BY <2>1
  <2>3. LineOf(subject, d) \in DOMAIN Lines[d] /\ Lines[d][LineOf(subject, d)] = up[first]
    BY <1>2, <1>4, <2>2, LineAboutIsThere
  <2>4. subject \in Drawn(d) => up[first] = subject
    <3>1. ASSUME subject \in Drawn(d) PROVE first = 1
      <4>1. 1 \in drawn
        BY <1>1, <3>1
      <4>2. first <= 1 /\ first >= 1 /\ first \in Nat
        BY <1>1, <2>1, <2>2, <4>1
      <4> QED BY <4>2
    <3> QED BY <1>1, <3>1
  <2>5. up[first] # NoSubject
    BY <2>2 DEF Drawn
  <2> QED BY <1>1, <2>2, <2>3, <2>4, <2>5
<1> QED BY <1>3, <1>4

-----------------------------------------------------------------------------
(* What each step says                                                     *)

\* What the view posts are messages, of the kinds they are named for.
LEMMA WhatIsPosted ==
  /\ \A r \in DOMAIN Disks : Row(r) \in Messages /\ Row(r).says = "row" /\ Row(r).value = r
  /\ \A w \in Nat : Resized(w) \in Messages /\ Resized(w).says = "width" /\ Resized(w).value = w
  /\ \A i \in Nat : Highlight(i) \in Messages /\ Highlight(i).says = "line" /\ Highlight(i).value = i
  /\ TabActivated \in Messages /\ TabActivated.says = "tab"
BY DEF Row, Resized, Highlight, TabActivated, Messages

\* The tree refilled keeps its cursor on a line there is: the device's own where that is
\* drawn, or that of something it hangs on.
LEMMA TreeIsRefilled ==
  ASSUME NEW d \in DOMAIN Lines, RefillTree(d)
  PROVE  LET subject == SubjectAt(density, highlighted)
             now == SubjectAt(density', highlighted')
         IN  /\ density' = d /\ highlighted' \in DOMAIN Lines[d] /\ highlighted' \in Nat
             /\ UNCHANGED <<treeHighlighted, chosen>> /\ everDrawn' = (everDrawn /\ chosen \in Drawn(d))
             /\ now # NoSubject
             /\ subject \in Drawn(d) => now = subject
             /\ now \in {Machine, subject} \/ (subject \in Nodes /\ IsAbove(now, subject))
<1> DEFINE subject == SubjectAt(density, highlighted)
           place == LineOf(subject, d)
<1>1. /\ density' = d /\ highlighted' = place /\ UNCHANGED <<treeHighlighted, chosen>>
      /\ everDrawn' = (everDrawn /\ chosen \in Drawn(d))
  BY DEF RefillTree
<1> HIDE DEF subject
<1>2. /\ place \in DOMAIN Lines[d]
      /\ subject \in Drawn(d) => Lines[d][place] = subject
      /\ \/ Lines[d][place] \in {Machine, subject}
         \/ subject \in Nodes /\ IsAbove(Lines[d][place], subject)
      /\ Lines[d][place] # NoSubject
  BY TheLineOfADevice
<1> HIDE DEF place
<1>3. SubjectAt(density', highlighted') = Lines[d][place]
  BY <1>1, <1>2 DEF SubjectAt
<1>4. place \in Nat
  <2>1. Lines[d] \in Seq(STRING)
    BY ViewSizes
  <2> QED BY <1>2, <2>1
<1> QED BY <1>1, <1>2, <1>3, <1>4 DEF subject

\* Another page says that its tab was activated.
LEMMA ShowPageTells ==
  ASSUME PostIsTyped, ShowPage
  PROVE  PostIsTyped' /\ post'["tabs"] # <<>> /\ Untouched({<<"tabs", "tab">>})
<1>1. Post([x \in {"tabs"} |-> <<TabActivated>>]) /\ "tabs" \in Widgets
  BY DEF ShowPage, Widgets
<1>2. TabActivated \in Messages /\ TabActivated.says = "tab"
  BY WhatIsPosted
<1>3. PostIsTyped' /\ post'["tabs"] # <<>> /\ Untouched({<<"tabs", TabActivated.says>>})
  BY <1>1, <1>2, OneIsPosted
<1> QED BY <1>2, <1>3

\* The cursor of a table that is moved says so.
LEMMA MoveRowTells ==
  ASSUME PostIsTyped, NEW t \in Tables, NEW r \in DOMAIN Disks, Post([x \in {t} |-> <<Row(r)>>])
  PROVE  PostIsTyped' /\ Told(t, "row", r) /\ Untouched({<<t, "row">>}) /\ post'["tabs"] = post["tabs"]
<1>1. t \in Widgets /\ "tabs" \in Widgets \ {t}
  BY DEF Widgets, Tables
<1> DEFINE m == Row(r)
<1>2. Post([x \in {t} |-> <<m>>]) /\ m \in Messages /\ m.says = "row" /\ m.value = r
  BY WhatIsPosted
<1> HIDE DEF m
<1> QED BY <1>1, <1>2, OneIsPosted

\* So does that of the tree.
LEMMA LineTells ==
  ASSUME PostIsTyped, NEW i \in Nat, Post([x \in {"topology"} |-> <<Highlight(i)>>])
  PROVE  /\ PostIsTyped' /\ Told("topology", "line", i) /\ Untouched({<<"topology", "line">>})
         /\ post'["tabs"] = post["tabs"]
<1>1. "topology" \in Widgets /\ "tabs" \in Widgets \ {"topology"}
  BY DEF Widgets, Fitted
<1> DEFINE m == Highlight(i)
<1>2. Post([x \in {"topology"} |-> <<m>>]) /\ m \in Messages /\ m.says = "line" /\ m.value = i
  BY WhatIsPosted
<1> HIDE DEF m
<1> QED BY <1>1, <1>2, OneIsPosted

\* A widget laid out says its width.
LEMMA WidthTells ==
  ASSUME PostIsTyped, NEW f \in Fitted, NEW w \in Nat, Post([x \in {f} |-> <<Resized(w)>>])
  PROVE  PostIsTyped' /\ Told(f, "width", w) /\ Untouched({<<f, "width">>}) /\ post'["tabs"] = post["tabs"]
<1>1. f \in Widgets /\ "tabs" \in Widgets \ {f}
  BY DEF Widgets, Fitted
<1> DEFINE m == Resized(w)
<1>2. Post([x \in {f} |-> <<m>>]) /\ m \in Messages /\ m.says = "width" /\ m.value = w
  BY WhatIsPosted
<1> HIDE DEF m
<1> QED BY <1>1, <1>2, OneIsPosted

\* A rescan says where every cursor was put back.
LEMMA RescanTells ==
  ASSUME PostIsTyped, NEW i \in Nat,
         Post([w \in Tables \cup {"topology"} |-> IF w \in Tables THEN Refilled(1) ELSE <<Highlight(i)>>])
  PROVE  /\ PostIsTyped' /\ (\A t \in Tables : Told(t, "row", 1)) /\ Told("topology", "line", i)
         /\ Untouched({<<t, "row">> : t \in Tables} \cup {<<"topology", "line">>})
         /\ post'["tabs"] = post["tabs"]
<1> DEFINE sent == [w \in Tables \cup {"topology"} |-> IF w \in Tables THEN Refilled(1) ELSE <<Highlight(i)>>]
<1>1. /\ DOMAIN sent = Tables \cup {"topology"} /\ (\A t \in Tables : sent[t] = Refilled(1))
      /\ sent["topology"] = <<Highlight(i)>>
  BY DEF Tables
<1>2. /\ Refilled(1) \in Seq(Messages) /\ LastSays(Refilled(1), "row", 1)
      /\ \A kind \in Kinds : kind # "row" => Silent(Refilled(1), kind)
  <2>1. 1 \in DOMAIN Disks
    BY ViewSizes
  <2> QED BY <2>1, RefilledSays
<1>3. /\ <<Highlight(i)>> \in Seq(Messages) /\ LastSays(<<Highlight(i)>>, "line", i)
      /\ \A kind \in Kinds : kind # "line" => Silent(<<Highlight(i)>>, kind)
  BY OneMessage, WhatIsPosted
<1> HIDE DEF sent
<1>4. /\ post' \in [Widgets -> Seq(Messages)]
      /\ \A w \in Widgets : post'[w] = IF w \in DOMAIN sent THEN post[w] \o sent[w] ELSE post[w]
  BY <1>1, <1>2, <1>3, PostingAdds DEF PostIsTyped, sent
<1>5. /\ \A t \in Tables : post'[t] = post[t] \o Refilled(1) /\ post[t] \in Seq(Messages)
      /\ post'["topology"] = post["topology"] \o <<Highlight(i)>> /\ post["topology"] \in Seq(Messages)
      /\ post'["tabs"] = post["tabs"]
  BY <1>1, <1>4 DEF PostIsTyped, Widgets, Fitted, Tables
<1>6. (\A t \in Tables : Told(t, "row", 1)) /\ Told("topology", "line", i)
  BY <1>2, <1>3, <1>5, AddedIsTold
<1>7. ASSUME NEW w \in Widgets, NEW kind \in Kinds,
             <<w, kind>> \notin {<<t, "row">> : t \in Tables} \cup {<<"topology", "line">>}
      PROVE  Kept(w, kind)
  <2>1. CASE w \in Tables
    <3>1. kind # "row"
      BY <1>7, <2>1
    <3> QED BY <1>2, <1>5, <2>1, <3>1, AddedIsKept
  <2>2. CASE w = "topology"
    <3>1. kind # "line"
      BY <1>7, <2>2
    <3> QED BY <1>3, <1>5, <2>2, <3>1, AddedIsKept
  <2>3. CASE w = "tabs"
    BY <1>5, <2>3, UnspokenIsKept
  <2> QED BY <2>1, <2>2, <2>3 DEF Widgets, Fitted, Tables
<1> QED BY <1>4, <1>5, <1>6, <1>7 DEF Untouched, PostIsTyped

\* A message that is handled, and nothing else, is heard.
LEMMA AnswerHears ==
  ASSUME PostIsTyped, NEW a \in Widgets, NEW kind, Says(a, kind), Answer(a, <<>>)
  PROVE  /\ PostIsTyped' /\ Heard(a, kind, Said(a)) /\ Untouched({<<a, kind>>})
         /\ a # "tabs" => post'["tabs"] = post["tabs"]
         /\ kind = "row" => Said(a) \in DOMAIN Disks
         /\ kind # "row" => Said(a) \in Nat
<1>1. post[a] # <<>> /\ Head(post[a]).says = kind
  BY DEF Says
<1>2. Head(post[a]) \in Messages
  BY <1>1 DEF PostIsTyped
<1>3. /\ kind = "row" => Said(a) \in DOMAIN Disks
      /\ kind # "row" => Said(a) \in Nat
  BY <1>1, <1>2 DEF Said, Messages
<1> QED BY <1>1, <1>3, OneIsAnswered DEF Widgets

\* A table filled for its width says where its cursor was put back.
LEMMA DisksAreFilled ==
  ASSUME PostIsTyped, Says("disks", "width"), NEW r \in DOMAIN Disks,
         Answer("disks", [x \in {"disks"} |-> Refilled(r)])
  PROVE  /\ PostIsTyped' /\ Heard("disks", "width", Said("disks")) /\ Told("disks", "row", r)
         /\ Untouched({<<"disks", "width">>, <<"disks", "row">>}) /\ post'["tabs"] = post["tabs"]
<1>1. "disks" \in Widgets /\ "tabs" \in Widgets \ {"disks"}
  BY DEF Widgets, Fitted
<1>2. /\ Refilled(r) \in Seq(Messages) /\ LastSays(Refilled(r), "row", r)
      /\ \A kind \in Kinds \ {"row"} : Silent(Refilled(r), kind)
  BY RefilledSays
<1>3. "row" \in Kinds \ {"width"}
  BY DEF Kinds
<1> QED BY <1>1, <1>2, <1>3, OneIsFilledFor

\* So does the tree.
LEMMA TreeIsFilled ==
  ASSUME PostIsTyped, Says("topology", "width"), NEW i \in Nat,
         Answer("topology", [x \in {"topology"} |-> <<Highlight(i)>>])
  PROVE  /\ PostIsTyped' /\ Heard("topology", "width", Said("topology")) /\ Told("topology", "line", i)
         /\ Untouched({<<"topology", "width">>, <<"topology", "line">>}) /\ post'["tabs"] = post["tabs"]
<1>1. "topology" \in Widgets /\ "tabs" \in Widgets \ {"topology"}
  BY DEF Widgets, Fitted
<1>2. /\ <<Highlight(i)>> \in Seq(Messages) /\ LastSays(<<Highlight(i)>>, "line", i)
      /\ \A kind \in Kinds \ {"line"} : Silent(<<Highlight(i)>>, kind)
  BY OneMessage, WhatIsPosted
<1>3. "line" \in Kinds \ {"width"}
  BY DEF Kinds
<1> QED BY <1>1, <1>2, <1>3, OneIsFilledFor

\* Widths are numbers; the one a widget is filled for is its own, once it has one.
LEMMA WidthsAreNumbers ==
  ASSUME ScreenIsTyped, WidthsAreTyped
  PROVE  /\ screen.width \in Nat /\ screen.height \in Nat /\ Room(screen.width) \in Nat \ {0, 1}
         /\ \A f \in Fitted : WidthFor(f) \in Nat \ {0} /\ (region[f] # 0 => WidthFor(f) = region[f])
<1>1. screen.width \in Widths /\ screen.height \in Heights
  BY DEF ScreenIsTyped, Size
<1>2. (\A w \in Widths : w \in Nat /\ w > 2) /\ (\A h \in Heights : h \in Nat)
  BY ViewSizes
<1>3. screen.width \in Nat /\ screen.width > 2 /\ Room(screen.width) \in Nat \ {0, 1}
  BY <1>1, <1>2 DEF Room
<1>4. ASSUME NEW f \in Fitted
      PROVE  WidthFor(f) \in Nat \ {0} /\ (region[f] # 0 => WidthFor(f) = region[f])
  <2>1. region[f] \in Nat
    BY DEF WidthsAreTyped
  <2> QED BY <1>3, <2>1 DEF WidthFor
<1> QED BY <1>1, <1>2, <1>3, <1>4

-----------------------------------------------------------------------------
(* What a step leaves alone                                                *)

\* The tables and the strip, where no row is announced or handled.
LEMMA RowsStand ==
  ASSUME RowsAreTyped, RowsFollow, StripFollows, UNCHANGED tables, \A t \in Tables : Kept(t, "row")
  PROVE  RowsAreTyped' /\ RowsFollow' /\ StripFollows'
BY DEF RowsAreTyped, RowsFollow, StripFollows, tables, Kept, Tables

\* The tree, where no line is.
LEMMA LineStands ==
  ASSUME LineIsTyped, LineFollows, TreeFollows, UNCHANGED tree, Kept("topology", "line")
  PROVE  LineIsTyped' /\ LineFollows' /\ TreeFollows'
BY DEF LineIsTyped, LineFollows, TreeFollows, TreeKeepsTheDevice, SubjectAt, tree, Kept

\* The widths, where no width is.
LEMMA WidthsStand ==
  ASSUME WidthsAreTyped, WidthsFollow, UNCHANGED <<region, widthUsed>>, \A f \in Fitted : Kept(f, "width")
  PROVE  WidthsAreTyped' /\ WidthsFollow'
BY DEF WidthsAreTyped, WidthsFollow, WidthFollows, Kept

\* The long page.
LEMMA SmartStands ==
  ASSUME SmartIsTyped, PageFollows, UNCHANGED smart
  PROVE  SmartIsTyped' /\ PageFollows'
BY DEF SmartIsTyped, PageFollows, LongPageIsCurrent

\* The panel, where what a cursor was moved to is still to be announced.
LEMMA PanelStands ==
  ASSUME PanelFollows, UNCHANGED <<page, panel>>, post'["tabs"] = post["tabs"],
         \A t \in Tables : ~Silent(post'[t], "row") \/ (Kept(t, "row") /\ cursor'[t] = cursor[t]),
         \/ ~Silent(post'["topology"], "line")
         \/ Kept("topology", "line") /\ UNCHANGED <<density, highlighted>>
  PROVE  PanelFollows'
BY DEF PanelFollows, Kept, SubjectAt, Tables

\* The terminal, the page shown and the one in focus.
LEMMA ScreenStays ==
  ASSUME ScreenIsTyped, [ViewNext]_viewVars
  PROVE  ScreenIsTyped'
<1>1. MaxMoves \in Nat
  BY ViewSizes
<1>2. CASE ShowPage \/ MoveRow \/ MoveLine \/ TreeDensity
  BY <1>1, <1>2 DEF ScreenIsTyped, ShowPage, MoveRow, MoveLine, TreeDensity, Key
<1>3. CASE ScrollWwn \/ Rescan \/ ResizeTerminal
  BY <1>1, <1>3 DEF ScreenIsTyped, ScrollWwn, Rescan, ResizeTerminal, Key
<1>4. CASE LayOutWidget \/ ActivateTab \/ LineHighlighted \/ DrawPage
  BY <1>4 DEF ScreenIsTyped, LayOutWidget, ActivateTab, LineHighlighted, DrawPage
<1>5. CASE (\E t \in Tables : RowHighlighted(t)) \/ DisksResized \/ TreeResized \/ UNCHANGED viewVars
  BY <1>5 DEF ScreenIsTyped, RowHighlighted, DisksResized, TreeResized, viewVars
<1> QED BY <1>2, <1>3, <1>4, <1>5 DEF ViewNext, ViewStep, ViewMove

\* What is untouched, kind by kind.
LEMMA UntouchedIsKept ==
  ASSUME NEW touched, Untouched(touched)
  PROVE  /\ \A t \in Tables : <<t, "row">> \notin touched => Kept(t, "row")
         /\ \A f \in Fitted : <<f, "width">> \notin touched => Kept(f, "width")
         /\ <<"topology", "line">> \notin touched => Kept("topology", "line")
BY DEF Untouched, Widgets, Fitted, Tables, Kinds

-----------------------------------------------------------------------------
(* Keys                                                                    *)

\* Another page is shown.
LEMMA ShowPageKeeps ==
  ASSUME ViewInv, ShowPage
  PROVE  PostIsTyped' /\ RowsInv' /\ LineInv' /\ WidthsInv' /\ SmartInv' /\ PanelFollows'
<1>1. /\ PostIsTyped' /\ post'["tabs"] # <<>>
      /\ (\A t \in Tables : Kept(t, "row")) /\ (\A f \in Fitted : Kept(f, "width")) /\ Kept("topology", "line")
  BY ShowPageTells, UntouchedIsKept DEF ViewInv, Fitted, Tables
<1>2. UNCHANGED <<tables, tree, region, widthUsed, smart>>
  BY DEF ShowPage
<1>3. RowsInv' /\ LineInv' /\ WidthsInv' /\ SmartInv'
  BY <1>1, <1>2, RowsStand, LineStands, WidthsStand, SmartStands
     DEF ViewInv, RowsInv, LineInv, WidthsInv, SmartInv
<1> QED BY <1>1, <1>3 DEF PanelFollows

\* The cursor of a table is moved.
LEMMA MoveRowKeeps ==
  ASSUME ViewInv, MoveRow
  PROVE  PostIsTyped' /\ RowsInv' /\ LineInv' /\ WidthsInv' /\ SmartInv' /\ PanelFollows'
<1>1. PICK t \in Tables, r \in DOMAIN Disks :
        cursor' = [cursor EXCEPT ![t] = r] /\ Post([x \in {t} |-> <<Row(r)>>])
  BY DEF MoveRow
<1>2. PostIsTyped' /\ Told(t, "row", r) /\ Untouched({<<t, "row">>}) /\ post'["tabs"] = post["tabs"]
  BY <1>1, MoveRowTells DEF ViewInv
<1>3. /\ \A s \in Tables \ {t} : Kept(s, "row")
      /\ (\A f \in Fitted : Kept(f, "width")) /\ Kept("topology", "line")
  BY <1>2, UntouchedIsKept DEF Fitted, Tables
<1>4. UNCHANGED <<tree, region, widthUsed, smart, rowOf, strip, scrolled, scrolledAt, page, panel>>
  BY DEF MoveRow
<1>5. LineInv' /\ WidthsInv' /\ SmartInv'
  BY <1>3, <1>4, LineStands, WidthsStand, SmartStands DEF ViewInv, LineInv, WidthsInv, SmartInv
<1>6. ~Silent(post'[t], "row") /\ \A x : Follows(post'[t], "row", r, x)
  BY <1>2 DEF Told
<1>7. RowsAreTyped'
  BY <1>1, <1>4 DEF ViewInv, RowsInv, RowsAreTyped
<1>8. cursor'[t] = r /\ \A s \in Tables \ {t} : cursor'[s] = cursor[s]
  BY <1>1 DEF ViewInv, RowsInv, RowsAreTyped
<1>9. RowsFollow' /\ StripFollows'
  BY <1>3, <1>4, <1>6, <1>8 DEF ViewInv, RowsInv, RowsFollow, StripFollows, Kept, Tables
<1>10. PanelFollows'
  BY <1>2, <1>3, <1>4, <1>6, <1>8, PanelStands DEF ViewInv, tree
<1> QED BY <1>2, <1>5, <1>7, <1>9, <1>10 DEF RowsInv

\* The cursor of the tree is moved.
LEMMA MoveLineKeeps ==
  ASSUME ViewInv, MoveLine
  PROVE  PostIsTyped' /\ RowsInv' /\ LineInv' /\ WidthsInv' /\ SmartInv' /\ PanelFollows'
<1>1. PICK i \in DOMAIN Lines[density] :
        /\ highlighted' = i /\ Lines[density][i] # NoSubject /\ chosen' = Lines[density][i] /\ everDrawn' = TRUE
        /\ Post([x \in {"topology"} |-> <<Highlight(i)>>])
  BY DEF MoveLine
<1>2. i \in Nat
  <2>1. Lines[density] \in Seq(STRING)
    BY ViewSizes DEF ViewInv, LineInv, LineIsTyped
  <2> QED BY <2>1
<1>3. /\ PostIsTyped' /\ Told("topology", "line", i) /\ Untouched({<<"topology", "line">>})
      /\ post'["tabs"] = post["tabs"]
  BY <1>1, <1>2, LineTells DEF ViewInv
<1>4. (\A t \in Tables : Kept(t, "row")) /\ (\A f \in Fitted : Kept(f, "width"))
  BY <1>3, UntouchedIsKept DEF Fitted, Tables
<1>5. UNCHANGED <<tables, region, widthUsed, smart, density, treeHighlighted, page, panel>>
  BY DEF MoveLine
<1>6. RowsInv' /\ WidthsInv' /\ SmartInv'
  BY <1>4, <1>5, RowsStand, WidthsStand, SmartStands DEF ViewInv, RowsInv, WidthsInv, SmartInv
<1>7. LineIsTyped' /\ LineFollows'
  BY <1>1, <1>2, <1>3, <1>5 DEF ViewInv, LineInv, LineIsTyped, LineFollows, Told
<1>8. TreeFollows'
  BY <1>1, <1>5 DEF TreeFollows, TreeKeepsTheDevice, SubjectAt
<1>9. PanelFollows'
  BY <1>3, <1>4, <1>5, PanelStands DEF ViewInv, Told, tables
<1> QED BY <1>3, <1>6, <1>7, <1>8, <1>9 DEF LineInv

\* The tree refilled keeps its device, or goes up from it.
LEMMA RefilledTreeFollows ==
  ASSUME LineInv, NEW d \in DOMAIN Lines, RefillTree(d), Told("topology", "line", highlighted')
  PROVE  LineInv'
<1> DEFINE subject == SubjectAt(density, highlighted)
           now == SubjectAt(density', highlighted')
<1>1. /\ density' = d /\ highlighted' \in DOMAIN Lines[d] /\ highlighted' \in Nat
      /\ UNCHANGED <<treeHighlighted, chosen>> /\ everDrawn' = (everDrawn /\ chosen \in Drawn(d))
      /\ now # NoSubject
      /\ subject \in Drawn(d) => now = subject
      /\ now \in {Machine, subject} \/ (subject \in Nodes /\ IsAbove(now, subject))
  BY TreeIsRefilled
<1>2. LineIsTyped' /\ LineFollows'
  BY <1>1 DEF LineInv, LineIsTyped, LineFollows, Told
<1>3. /\ everDrawn => subject = chosen
      /\ subject \in {Machine, chosen} \/ (chosen \in Nodes /\ IsAbove(subject, chosen))
  BY DEF LineInv, TreeFollows, TreeKeepsTheDevice, IsAbove
<1> HIDE DEF subject, now
<1>4. everDrawn' => now = chosen'
  BY <1>1, <1>3
<1>5. now \in {Machine, chosen'} \/ (chosen' \in Nodes /\ IsAbove(now, chosen'))
  <2>1. CASE now \in {Machine, subject}
    BY <1>1, <1>3, <2>1
  <2>2. CASE subject \in Nodes /\ IsAbove(now, subject)
    <3>1. CASE subject = chosen
      BY <1>1, <2>2, <3>1
    <3>2. CASE chosen \in Nodes /\ IsAbove(subject, chosen)
      BY <1>1, <2>2, <3>2, AboveIsTransitive
    <3>3. subject # Machine
      BY <2>2, FabricIsATree
    <3> QED BY <1>3, <3>1, <3>2, <3>3
  <2> QED BY <1>1, <2>1, <2>2
<1> QED BY <1>1, <1>2, <1>4, <1>5 DEF LineInv, TreeFollows, TreeKeepsTheDevice, IsAbove, now

\* What is filled for the width its widget has is filled for it also once that width is heard.
LEMMA FilledForTheWidth ==
  ASSUME ScreenIsTyped, WidthsInv, \A f \in Fitted : Kept(f, "width"), region' = region,
         \/ widthUsed' = [widthUsed EXCEPT !["topology"] = WidthFor("topology")]
         \/ widthUsed' = [f \in Fitted |-> WidthFor(f)]
  PROVE  WidthsInv'
<1>1. \A f \in Fitted : WidthFor(f) \in Nat \ {0} /\ (region[f] # 0 => WidthFor(f) = region[f])
  BY WidthsAreNumbers DEF WidthsInv
<1>2. WidthsAreTyped'
  BY <1>1 DEF WidthsInv, WidthsAreTyped
<1>3. \A f \in Fitted : widthUsed'[f] = WidthFor(f) \/ widthUsed'[f] = widthUsed[f]
  BY DEF WidthsInv, WidthsAreTyped
<1>4. ASSUME NEW f \in Fitted PROVE WidthFollows(f)'
  <2>1. CASE region[f] = 0
    BY <2>1 DEF WidthsInv, WidthsFollow, WidthFollows, Kept
  <2>2. CASE region[f] # 0
    <3>1. Follows(post'[f], "width", region[f], widthUsed[f])
      BY <2>2 DEF WidthsInv, WidthsFollow, WidthFollows, Kept
    <3>2. Follows(post'[f], "width", region[f], widthUsed'[f])
      BY <1>1, <1>3, <2>2, <3>1 DEF Follows
    <3> QED BY <2>2, <3>2 DEF WidthFollows
  <2> QED BY <2>1, <2>2
<1> QED BY <1>2, <1>4 DEF WidthsInv, WidthsFollow

\* A width a widget speaks of is not its first nothing.
LEMMA WidthIsSaid ==
  ASSUME PostIsTyped, WidthsInv, NEW f \in Fitted, Says(f, "width")
  PROVE  region[f] # 0 /\ Follows(post[f], "width", region[f], widthUsed[f])
<1>1. post[f] \in Seq(Messages) /\ post[f] # <<>> /\ Head(post[f]).says = "width"
  BY DEF PostIsTyped, Says, Widgets
<1>2. ~Silent(post[f], "width")
  <2> DEFINE s == post[f]
  <2>1. 1 \in DOMAIN s /\ s[1].says = "width"
    BY <1>1
  <2> QED BY <2>1 DEF Silent
<1> QED BY <1>2 DEF WidthsInv, WidthsFollow, WidthFollows

\* A width that is heard and is not that of the widget: the widget is filled for its own.
LEMMA HeardAndFilled ==
  ASSUME PostIsTyped, ScreenIsTyped, WidthsInv, region' = region, NEW f \in Fitted, Says(f, "width"),
         NEW heard, Heard(f, "width", heard), \A g \in Fitted \ {f} : Kept(g, "width"),
         widthUsed' = [widthUsed EXCEPT ![f] = WidthFor(f)]
  PROVE  WidthsInv'
<1>1. \A g \in Fitted : WidthFor(g) \in Nat \ {0} /\ (region[g] # 0 => WidthFor(g) = region[g])
  BY WidthsAreNumbers DEF WidthsInv
<1>2. WidthsAreTyped'
  BY <1>1 DEF WidthsInv, WidthsAreTyped
<1>3. widthUsed'[f] = WidthFor(f) /\ \A g \in Fitted \ {f} : widthUsed'[g] = widthUsed[g]
  BY DEF WidthsInv, WidthsAreTyped
<1>4. WidthFollows(f)'
  <2>1. region[f] # 0 /\ Follows(post'[f], "width", region[f], heard)
    BY WidthIsSaid DEF Heard
  <2>2. Follows(post'[f], "width", region[f], region[f])
    BY <2>1 DEF Follows
  <2> QED BY <1>1, <1>3, <2>1, <2>2 DEF WidthFollows
<1>5. ASSUME NEW g \in Fitted \ {f} PROVE WidthFollows(g)'
  BY <1>3, <1>5 DEF WidthsInv, WidthsFollow, WidthFollows, Kept
<1> QED BY <1>2, <1>4, <1>5 DEF WidthsInv, WidthsFollow

\* A width that is heard and is the one the widget is filled for: nothing is to do.
LEMMA HeardAndFits ==
  ASSUME PostIsTyped, WidthsInv, UNCHANGED <<region, widthUsed>>, NEW f \in Fitted, Says(f, "width"),
         Heard(f, "width", widthUsed[f]), \A g \in Fitted \ {f} : Kept(g, "width")
  PROVE  WidthsInv'
<1>1. WidthFollows(f)'
  <2>1. region[f] # 0 /\ Follows(post'[f], "width", region[f], widthUsed[f])
    BY WidthIsSaid DEF Heard
  <2> QED BY <2>1 DEF WidthFollows
<1>2. ASSUME NEW g \in Fitted \ {f} PROVE WidthFollows(g)'
  BY <1>2 DEF WidthsInv, WidthsFollow, WidthFollows, Kept
<1> QED BY <1>1, <1>2 DEF WidthsInv, WidthsAreTyped, WidthsFollow

\* The density of the tree is changed.
LEMMA TreeDensityKeeps ==
  ASSUME ViewInv, TreeDensity
  PROVE  PostIsTyped' /\ RowsInv' /\ LineInv' /\ WidthsInv' /\ SmartInv' /\ PanelFollows'
<1> DEFINE d == (density % Len(Lines)) + 1
<1>1. RefillTree(d) /\ Post([x \in {"topology"} |-> <<Highlight(highlighted')>>])
  BY DEF TreeDensity
<1>2. d \in DOMAIN Lines
  <2>1. density \in DOMAIN Lines
    BY DEF ViewInv, LineInv, LineIsTyped
  <2>2. DOMAIN Lines = 1..Len(Lines) /\ Len(Lines) \in Nat \ {0}
    BY ViewSizes
  <2> QED BY <2>1, <2>2
<1> HIDE DEF d
<1>3. highlighted' \in Nat
  BY <1>1, <1>2, TreeIsRefilled
<1>4. /\ PostIsTyped' /\ Told("topology", "line", highlighted') /\ Untouched({<<"topology", "line">>})
      /\ post'["tabs"] = post["tabs"]
  BY <1>1, <1>3, LineTells DEF ViewInv
<1>5. (\A t \in Tables : Kept(t, "row")) /\ (\A f \in Fitted : Kept(f, "width"))
  BY <1>4, UntouchedIsKept DEF Fitted, Tables
<1>6. /\ UNCHANGED <<tables, region, smart, page, panel>>
      /\ widthUsed' = [widthUsed EXCEPT !["topology"] = WidthFor("topology")]
  BY DEF TreeDensity
<1>7. RowsInv' /\ SmartInv'
  BY <1>5, <1>6, RowsStand, SmartStands DEF ViewInv, RowsInv, SmartInv
<1>8. LineInv'
  BY <1>1, <1>2, <1>4, RefilledTreeFollows DEF ViewInv
<1>9. WidthsInv'
  BY <1>5, <1>6, FilledForTheWidth DEF ViewInv
<1>10. PanelFollows'
  BY <1>4, <1>5, <1>6, PanelStands DEF ViewInv, Told, tables
<1> QED BY <1>4, <1>7, <1>8, <1>9, <1>10

\* The strip is scrolled.
LEMMA ScrollWwnKeeps ==
  ASSUME ViewInv, ScrollWwn
  PROVE  PostIsTyped' /\ RowsInv' /\ LineInv' /\ WidthsInv' /\ SmartInv' /\ PanelFollows'
<1>1. /\ UNCHANGED <<page, post, tree, cursor, rowOf, strip, panel, region, widthUsed, smart>>
      /\ scrolled' \in BOOLEAN /\ scrolledAt' = IF scrolled' THEN strip ELSE scrolledAt
  BY DEF ScrollWwn
<1>2. \A w, kind : Kept(w, kind)
  BY <1>1 DEF Kept
<1>3. LineInv' /\ WidthsInv' /\ SmartInv'
  BY <1>1, <1>2, LineStands, WidthsStand, SmartStands DEF ViewInv, LineInv, WidthsInv, SmartInv
<1>4. RowsInv'
  BY <1>1 DEF ViewInv, RowsInv, RowsAreTyped, RowsFollow, StripFollows
<1>5. PanelFollows'
  BY <1>1, <1>2, PanelStands DEF ViewInv, tree
<1> QED BY <1>1, <1>3, <1>4, <1>5 DEF ViewInv, PostIsTyped

\* The machine is read again.
LEMMA RescanKeeps ==
  ASSUME ViewInv, Rescan
  PROVE  PostIsTyped' /\ RowsInv' /\ LineInv' /\ WidthsInv' /\ SmartInv' /\ PanelFollows'
<1>1. density \in DOMAIN Lines /\ RefillTree(density)
  BY DEF Rescan, ViewInv, LineInv, LineIsTyped
<1>2. highlighted' \in Nat
  BY <1>1, TreeIsRefilled
<1>3. /\ PostIsTyped' /\ (\A t \in Tables : Told(t, "row", 1)) /\ Told("topology", "line", highlighted')
      /\ Untouched({<<t, "row">> : t \in Tables} \cup {<<"topology", "line">>})
      /\ post'["tabs"] = post["tabs"]
  <2> DEFINE i == highlighted'
  <2>1. Post([w \in Tables \cup {"topology"} |-> IF w \in Tables THEN Refilled(1) ELSE <<Highlight(i)>>])
    BY DEF Rescan
  <2>2. i \in Nat
    BY <1>2
  <2> HIDE DEF i
  <2>3. /\ PostIsTyped' /\ (\A t \in Tables : Told(t, "row", 1)) /\ Told("topology", "line", i)
        /\ Untouched({<<t, "row">> : t \in Tables} \cup {<<"topology", "line">>})
        /\ post'["tabs"] = post["tabs"]
    BY <2>1, <2>2, RescanTells DEF ViewInv
  <2> QED BY <2>3 DEF i
<1>4. \A f \in Fitted : Kept(f, "width")
  <2>1. \A f \in Fitted : <<f, "width">> \notin {<<t, "row">> : t \in Tables} \cup {<<"topology", "line">>}
    OBVIOUS
  <2> QED BY <1>3, <2>1, UntouchedIsKept
<1>5. /\ cursor' = [t \in Tables |-> 1] /\ strip' = 1 /\ scrolled' = FALSE
      /\ widthUsed' = [f \in Fitted |-> WidthFor(f)] /\ smart' = NewContent /\ panel' = RecordShown(page)
      /\ UNCHANGED <<page, rowOf, region, scrolledAt>>
  BY DEF Rescan, ShowWwn
<1>6. RowsInv'
  <2>1. 1 \in DOMAIN Disks
    BY ViewSizes
  <2> QED BY <1>3, <1>5, <2>1 DEF ViewInv, RowsInv, RowsAreTyped, RowsFollow, StripFollows, Told, Tables
<1>7. LineInv'
  BY <1>1, <1>3, RefilledTreeFollows DEF ViewInv
<1>8. WidthsInv'
  BY <1>4, <1>5, FilledForTheWidth DEF ViewInv
<1>9. SmartInv'
  BY <1>5 DEF ViewInv, SmartInv, SmartIsTyped, PageFollows, LongPageIsCurrent, NewContent, NotLaidOut
<1>10. PanelFollows'
  <2>1. (\A t \in Tables : ~Silent(post'[t], "row")) /\ ~Silent(post'["topology"], "line")
    BY <1>3 DEF Told
  <2>2. page = "smart" => panel' = Nothing
    BY <1>5 DEF RecordShown, Tables
  <2> QED BY <1>5, <2>1, <2>2 DEF PanelFollows
<1> QED BY <1>3, <1>6, <1>7, <1>8, <1>9, <1>10

\* The terminal is resized.
LEMMA ResizeTerminalKeeps ==
  ASSUME ViewInv, ResizeTerminal \/ UNCHANGED viewVars
  PROVE  PostIsTyped' /\ RowsInv' /\ LineInv' /\ WidthsInv' /\ SmartInv' /\ PanelFollows'
<1>1. UNCHANGED <<page, post, tree, tables, panel, region, widthUsed, smart>>
  BY DEF ResizeTerminal, viewVars, tree, tables
<1>2. \A w, kind : Kept(w, kind)
  BY <1>1 DEF Kept
<1>3. RowsInv' /\ LineInv' /\ WidthsInv' /\ SmartInv'
  BY <1>1, <1>2, RowsStand, LineStands, WidthsStand, SmartStands
     DEF ViewInv, RowsInv, LineInv, WidthsInv, SmartInv
<1>4. PanelFollows'
  BY <1>1, <1>2, PanelStands DEF ViewInv, tree, tables
<1> QED BY <1>1, <1>3, <1>4 DEF ViewInv, PostIsTyped

-----------------------------------------------------------------------------
(* What follows by itself                                                  *)

\* A widget is laid out.
LEMMA LayOutWidgetKeeps ==
  ASSUME ViewInv, LayOutWidget
  PROVE  PostIsTyped' /\ RowsInv' /\ LineInv' /\ WidthsInv' /\ SmartInv' /\ PanelFollows'
<1> DEFINE width == Room(screen.width)
<1>1. /\ page \in Fitted /\ region' = [region EXCEPT ![page] = width]
      /\ Post([x \in {page} |-> <<Resized(width)>>])
      /\ UNCHANGED <<page, tables, tree, panel, widthUsed, smart>>
  BY DEF LayOutWidget
<1>2. width \in Nat \ {0}
  BY WidthsAreNumbers DEF ViewInv, WidthsInv
<1> HIDE DEF width
<1>3. /\ PostIsTyped' /\ Told(page, "width", width) /\ Untouched({<<page, "width">>})
      /\ post'["tabs"] = post["tabs"]
  BY <1>1, <1>2, WidthTells DEF ViewInv
<1>4. /\ (\A t \in Tables : Kept(t, "row")) /\ (\A f \in Fitted \ {page} : Kept(f, "width"))
      /\ Kept("topology", "line")
  <2>1. /\ \A t \in Tables : <<t, "row">> \notin {<<page, "width">>}
        /\ \A f \in Fitted \ {page} : <<f, "width">> \notin {<<page, "width">>}
        /\ <<"topology", "line">> \notin {<<page, "width">>}
    OBVIOUS
  <2> QED BY <1>3, <2>1, UntouchedIsKept
<1>5. RowsInv' /\ LineInv' /\ SmartInv'
  BY <1>1, <1>4, RowsStand, LineStands, SmartStands DEF ViewInv, RowsInv, LineInv, SmartInv
<1>6. WidthsAreTyped'
  BY <1>1, <1>2 DEF ViewInv, WidthsInv, WidthsAreTyped
<1>7. ASSUME NEW f \in Fitted PROVE WidthFollows(f)'
  <2>1. CASE f = page
    BY <1>1, <1>2, <1>3, <2>1 DEF ViewInv, WidthsInv, WidthsAreTyped, WidthFollows, Told
  <2>2. CASE f # page
    BY <1>1, <1>4, <2>2 DEF ViewInv, WidthsInv, WidthsAreTyped, WidthsFollow, WidthFollows, Kept
  <2> QED BY <2>1, <2>2
<1>8. PanelFollows'
  BY <1>1, <1>3, <1>4, PanelStands DEF ViewInv, tree, tables
<1> QED BY <1>3, <1>5, <1>6, <1>7, <1>8 DEF WidthsInv, WidthsFollow

\* The tab of the page shown is activated: the panel is shown what is recorded of it.
LEMMA ActivateTabKeeps ==
  ASSUME ViewInv, ActivateTab
  PROVE  PostIsTyped' /\ RowsInv' /\ LineInv' /\ WidthsInv' /\ SmartInv' /\ PanelFollows'
<1>1. /\ Says("tabs", "tab") /\ Answer("tabs", <<>>) /\ panel' = RecordShown(page)
      /\ UNCHANGED <<page, tables, tree, region, widthUsed, smart>>
  BY DEF ActivateTab
<1>2. PostIsTyped' /\ Untouched({<<"tabs", "tab">>})
  <2>1. PostIsTyped /\ "tabs" \in Widgets /\ Says("tabs", "tab") /\ Answer("tabs", <<>>)
    BY <1>1 DEF ViewInv, Widgets
  <2> QED BY <2>1, AnswerHears
<1>3. (\A t \in Tables : Kept(t, "row")) /\ (\A f \in Fitted : Kept(f, "width")) /\ Kept("topology", "line")
  <2>1. /\ \A t \in Tables : <<t, "row">> \notin {<<"tabs", "tab">>}
        /\ \A f \in Fitted : <<f, "width">> \notin {<<"tabs", "tab">>}
        /\ <<"topology", "line">> \notin {<<"tabs", "tab">>}
    OBVIOUS
  <2> QED BY <1>2, <2>1, UntouchedIsKept
<1>4. RowsInv' /\ LineInv' /\ WidthsInv' /\ SmartInv'
  BY <1>1, <1>3, RowsStand, LineStands, WidthsStand, SmartStands
     DEF ViewInv, RowsInv, LineInv, WidthsInv, SmartInv
<1>5. ASSUME NEW t \in Tables, Silent(post'[t], "row") PROVE rowOf[t] = cursor[t] /\ rowOf[t] # 0
  <2>1. Silent(post[t], "row") /\ Follows(post[t], "row", cursor[t], rowOf[t])
    BY <1>3, <1>5 DEF Kept, ViewInv, RowsInv, RowsFollow
  <2>2. cursor[t] # 0
    BY ViewSizes DEF ViewInv, RowsInv, RowsAreTyped
  <2> QED BY <2>1, <2>2, RecordedIsAtHand
<1>6. ASSUME Silent(post'["topology"], "line") PROVE treeHighlighted = highlighted
  <2>1. Silent(post["topology"], "line")
    BY <1>3, <1>6 DEF Kept
  <2> QED BY <2>1, RecordedIsAtHand DEF ViewInv, LineInv, LineFollows
<1>7. SubjectAt(density, highlighted) # NoSubject
  BY DEF ViewInv, LineInv, TreeFollows
<1>8. /\ page \in Tables /\ Silent(post'[page], "row") => panel' = Disks[cursor[page]]
      /\ page = "topology" /\ Silent(post'[page], "line") => panel' = SubjectAt(density, highlighted)
      /\ page = "smart" => panel' = Nothing
  BY <1>1, <1>5, <1>6, <1>7 DEF RecordShown, Tables
<1>9. page' = page /\ cursor' = cursor /\ SubjectAt(density', highlighted') = SubjectAt(density, highlighted)
  BY <1>1 DEF tree, tables
<1> QED BY <1>2, <1>4, <1>8, <1>9 DEF PanelFollows

\* A row that was announced is recorded, and shown where its table is.
LEMMA RowHighlightedKeeps ==
  ASSUME ViewInv, NEW t \in Tables, RowHighlighted(t)
  PROVE  PostIsTyped' /\ RowsInv' /\ LineInv' /\ WidthsInv' /\ SmartInv' /\ PanelFollows'
<1> DEFINE r == Said(t)
<1>1. /\ Says(t, "row") /\ Answer(t, <<>>) /\ rowOf' = [rowOf EXCEPT ![t] = r]
      /\ IF t = "disks" THEN strip' = r /\ scrolled' = FALSE ELSE UNCHANGED <<strip, scrolled>>
      /\ panel' = IF t = page THEN Disks[r] ELSE panel
      /\ UNCHANGED <<page, cursor, scrolledAt, tree, region, widthUsed, smart>>
  BY DEF RowHighlighted, ShowWwn
<1>2. /\ PostIsTyped' /\ Heard(t, "row", r) /\ Untouched({<<t, "row">>}) /\ r \in DOMAIN Disks
      /\ post'["tabs"] = post["tabs"]
  <2>1. PostIsTyped /\ t \in Widgets /\ t # "tabs" /\ Says(t, "row") /\ Answer(t, <<>>)
    BY <1>1 DEF ViewInv, Widgets, Tables
  <2> QED BY <2>1, AnswerHears
<1>3. /\ \A s \in Tables \ {t} : Kept(s, "row")
      /\ (\A f \in Fitted : Kept(f, "width")) /\ Kept("topology", "line")
  <2>1. /\ \A s \in Tables \ {t} : <<s, "row">> \notin {<<t, "row">>}
        /\ \A f \in Fitted : <<f, "width">> \notin {<<t, "row">>}
        /\ <<"topology", "line">> \notin {<<t, "row">>}
    OBVIOUS
  <2>2. \A s \in Tables : <<s, "row">> \notin {<<t, "row">>} => Kept(s, "row")
    BY <1>2, UntouchedIsKept
  <2>3. (\A f \in Fitted : Kept(f, "width")) /\ Kept("topology", "line")
    BY <1>2, <2>1, UntouchedIsKept
  <2> QED BY <2>1, <2>2, <2>3
<1>4. LineInv' /\ WidthsInv' /\ SmartInv'
  BY <1>1, <1>3, LineStands, WidthsStand, SmartStands DEF ViewInv, LineInv, WidthsInv, SmartInv
<1> HIDE DEF r
<1>5. RowsAreTyped'
  BY <1>1, <1>2 DEF ViewInv, RowsInv, RowsAreTyped
<1>6. rowOf'[t] = r /\ \A s \in Tables \ {t} : rowOf'[s] = rowOf[s]
  BY <1>1 DEF ViewInv, RowsInv, RowsAreTyped
<1>7. Follows(post'[t], "row", cursor'[t], r)
  BY <1>1, <1>2 DEF ViewInv, RowsInv, RowsFollow, Heard
<1>8. RowsFollow'
  BY <1>1, <1>3, <1>6, <1>7 DEF ViewInv, RowsInv, RowsFollow, Kept
<1>9. Silent(post'[t], "row") => cursor'[t] = r
  BY <1>7, RecordedIsAtHand
<1>10. StripFollows'
  BY <1>1, <1>3, <1>9 DEF ViewInv, RowsInv, StripFollows, Kept, Tables
<1>11. PanelFollows'
  <2>1. CASE t = page
    BY <1>1, <1>9, <2>1 DEF PanelFollows, Tables
  <2>2. CASE t # page
    BY <1>1, <1>2, <1>3, <2>2 DEF ViewInv, PanelFollows, Kept, Tables, tree, SubjectAt
  <2> QED BY <2>1, <2>2
<1> QED BY <1>2, <1>4, <1>5, <1>8, <1>10, <1>11 DEF RowsInv

\* So is a line.
LEMMA LineHighlightedKeeps ==
  ASSUME ViewInv, LineHighlighted
  PROVE  PostIsTyped' /\ RowsInv' /\ LineInv' /\ WidthsInv' /\ SmartInv' /\ PanelFollows'
<1> DEFINE i == Said("topology")
<1>1. /\ Says("topology", "line") /\ Answer("topology", <<>>) /\ treeHighlighted' = i
      /\ panel' = IF page # "topology" THEN panel
                  ELSE IF SubjectAt(density, i) = NoSubject THEN Nothing ELSE SubjectAt(density, i)
      /\ UNCHANGED <<page, tables, density, highlighted, chosen, everDrawn, region, widthUsed, smart>>
  BY DEF LineHighlighted
<1>2. /\ PostIsTyped' /\ Heard("topology", "line", i) /\ Untouched({<<"topology", "line">>}) /\ i \in Nat
      /\ post'["tabs"] = post["tabs"]
  <2>1. /\ PostIsTyped /\ "topology" \in Widgets /\ "topology" # "tabs"
        /\ Says("topology", "line") /\ Answer("topology", <<>>)
    BY <1>1 DEF ViewInv, Widgets, Fitted
  <2> QED BY <2>1, AnswerHears
<1>3. (\A t \in Tables : Kept(t, "row")) /\ (\A f \in Fitted : Kept(f, "width"))
  BY <1>2, UntouchedIsKept DEF Fitted, Tables
<1>4. RowsInv' /\ WidthsInv' /\ SmartInv'
  BY <1>1, <1>3, RowsStand, WidthsStand, SmartStands DEF ViewInv, RowsInv, WidthsInv, SmartInv
<1> HIDE DEF i
<1>5. LineIsTyped' /\ LineFollows'
  BY <1>1, <1>2 DEF ViewInv, LineInv, LineIsTyped, LineFollows, Heard
<1>6. TreeFollows'
  BY <1>1 DEF ViewInv, LineInv, TreeFollows, TreeKeepsTheDevice, SubjectAt
<1>7. Silent(post'["topology"], "line") => highlighted' = i
  BY <1>1, <1>5, RecordedIsAtHand DEF LineFollows
<1>8. PanelFollows'
  <2>1. CASE page = "topology"
    <3>1. SubjectAt(density, highlighted) # NoSubject
      BY DEF ViewInv, LineInv, TreeFollows
    <3>2. Silent(post'["topology"], "line") => panel' = SubjectAt(density', highlighted')
      BY <1>1, <1>7, <2>1, <3>1
    <3> QED BY <1>1, <2>1, <3>2 DEF PanelFollows, Tables
  <2>2. CASE page # "topology"
    BY <1>1, <1>2, <1>3, <2>2 DEF ViewInv, PanelFollows, Kept, Tables, tables
  <2> QED BY <2>1, <2>2
<1> QED BY <1>2, <1>4, <1>5, <1>6, <1>8 DEF LineInv

\* A width the drives were not filled for fills them again, and puts the cursor back.
LEMMA DisksResizedKeeps ==
  ASSUME ViewInv, DisksResized
  PROVE  PostIsTyped' /\ RowsInv' /\ LineInv' /\ WidthsInv' /\ SmartInv' /\ PanelFollows'
<1> DEFINE r == cursor["disks"]
           width == Said("disks")
<1>1. /\ Says("disks", "width")
      /\ UNCHANGED <<page, cursor, rowOf, scrolledAt, tree, panel, region, smart>>
  BY DEF DisksResized
<1>2. r \in DOMAIN Disks
  BY DEF ViewInv, RowsInv, RowsAreTyped, Tables
<1>3. CASE Unfitting("disks")
  <2>1. /\ widthUsed' = [widthUsed EXCEPT !["disks"] = WidthFor("disks")]
        /\ strip' = r /\ scrolled' = FALSE
        /\ Answer("disks", [x \in {"disks"} |-> Refilled(r)])
    BY <1>3 DEF DisksResized, ShowWwn
  <2> HIDE DEF r
  <2>2. /\ PostIsTyped' /\ Heard("disks", "width", width) /\ Told("disks", "row", r)
        /\ Untouched({<<"disks", "width">>, <<"disks", "row">>}) /\ post'["tabs"] = post["tabs"]
    BY <1>1, <1>2, <2>1, DisksAreFilled DEF ViewInv
  <2>3. /\ \A t \in Tables \ {"disks"} : Kept(t, "row")
        /\ (\A f \in Fitted \ {"disks"} : Kept(f, "width")) /\ Kept("topology", "line")
    BY <2>2, UntouchedIsKept DEF Tables, Fitted
  <2>4. LineInv' /\ SmartInv'
    BY <1>1, <2>3, LineStands, SmartStands DEF ViewInv, LineInv, SmartInv
  <2>5. RowsAreTyped'
    BY <1>1, <1>2, <2>1 DEF ViewInv, RowsInv, RowsAreTyped
  <2>6. RowsFollow' /\ StripFollows'
    BY <1>1, <2>1, <2>2, <2>3 DEF ViewInv, RowsInv, RowsFollow, StripFollows, Told, Kept, r
  <2>7. WidthsInv'
    BY <1>1, <2>1, <2>2, <2>3, HeardAndFilled DEF ViewInv, Fitted
  <2>8. PanelFollows'
    BY <1>1, <2>2, <2>3, PanelStands DEF ViewInv, Told, tree
  <2> QED BY <2>2, <2>4, <2>5, <2>6, <2>7, <2>8 DEF RowsInv
<1>4. CASE ~Unfitting("disks")
  <2>1. Answer("disks", <<>>) /\ UNCHANGED <<widthUsed, strip, scrolled>> /\ width = widthUsed["disks"]
    BY <1>4 DEF DisksResized, Unfitting
  <2>2. /\ PostIsTyped' /\ Heard("disks", "width", width) /\ Untouched({<<"disks", "width">>})
        /\ post'["tabs"] = post["tabs"]
    <3>1. PostIsTyped /\ "disks" \in Widgets /\ Says("disks", "width") /\ Answer("disks", <<>>)
      BY <1>1, <2>1 DEF ViewInv, Widgets, Fitted
    <3> QED BY <3>1, AnswerHears
  <2>3. /\ \A t \in Tables : Kept(t, "row")
        /\ (\A f \in Fitted \ {"disks"} : Kept(f, "width")) /\ Kept("topology", "line")
    BY <2>2, UntouchedIsKept DEF Fitted, Tables
  <2>4. RowsInv' /\ LineInv' /\ SmartInv'
    BY <1>1, <2>1, <2>3, RowsStand, LineStands, SmartStands DEF ViewInv, RowsInv, LineInv, SmartInv, tables
  <2>5. WidthsInv'
    BY <1>1, <2>1, <2>2, <2>3, HeardAndFits DEF ViewInv, Fitted
  <2>6. PanelFollows'
    BY <1>1, <2>2, <2>3, PanelStands DEF ViewInv, tree
  <2> QED BY <2>2, <2>4, <2>5, <2>6
<1> QED BY <1>3, <1>4

\* So with the tree.
LEMMA TreeResizedKeeps ==
  ASSUME ViewInv, TreeResized
  PROVE  PostIsTyped' /\ RowsInv' /\ LineInv' /\ WidthsInv' /\ SmartInv' /\ PanelFollows'
<1> DEFINE width == Said("topology")
<1>1. Says("topology", "width") /\ UNCHANGED <<page, tables, panel, region, smart>>
  BY DEF TreeResized
<1>2. density \in DOMAIN Lines
  BY DEF ViewInv, LineInv, LineIsTyped
<1>3. CASE Unfitting("topology")
  <2>1. /\ widthUsed' = [widthUsed EXCEPT !["topology"] = WidthFor("topology")] /\ RefillTree(density)
        /\ Answer("topology", [x \in {"topology"} |-> <<Highlight(highlighted')>>])
    BY <1>3 DEF TreeResized
  <2>2. highlighted' \in Nat
    BY <1>2, <2>1, TreeIsRefilled
  <2>3. /\ PostIsTyped' /\ Heard("topology", "width", width) /\ Told("topology", "line", highlighted')
        /\ Untouched({<<"topology", "width">>, <<"topology", "line">>}) /\ post'["tabs"] = post["tabs"]
    <3> DEFINE i == highlighted'
    <3>1. i \in Nat /\ Answer("topology", [x \in {"topology"} |-> <<Highlight(i)>>])
      BY <2>1, <2>2
    <3> HIDE DEF i
    <3>2. /\ PostIsTyped' /\ Heard("topology", "width", width) /\ Told("topology", "line", i)
          /\ Untouched({<<"topology", "width">>, <<"topology", "line">>}) /\ post'["tabs"] = post["tabs"]
      BY <1>1, <3>1, TreeIsFilled DEF ViewInv
    <3> QED BY <3>2 DEF i
  <2>4. (\A t \in Tables : Kept(t, "row")) /\ \A f \in Fitted \ {"topology"} : Kept(f, "width")
    BY <2>3, UntouchedIsKept DEF Tables, Fitted
  <2>5. RowsInv' /\ SmartInv'
    BY <1>1, <2>4, RowsStand, SmartStands DEF ViewInv, RowsInv, SmartInv
  <2>6. LineInv'
    BY <1>2, <2>1, <2>3, RefilledTreeFollows DEF ViewInv
  <2>7. WidthsInv'
    BY <1>1, <2>1, <2>3, <2>4, HeardAndFilled DEF ViewInv, Fitted
  <2>8. PanelFollows'
    BY <1>1, <2>3, <2>4, PanelStands DEF ViewInv, Told, tables
  <2> QED BY <2>3, <2>5, <2>6, <2>7, <2>8
<1>4. CASE ~Unfitting("topology")
  <2>1. Answer("topology", <<>>) /\ UNCHANGED <<widthUsed, tree>> /\ width = widthUsed["topology"]
    BY <1>4 DEF TreeResized, Unfitting
  <2>2. /\ PostIsTyped' /\ Heard("topology", "width", width) /\ Untouched({<<"topology", "width">>})
        /\ post'["tabs"] = post["tabs"]
    <3>1. PostIsTyped /\ "topology" \in Widgets /\ Says("topology", "width") /\ Answer("topology", <<>>)
      BY <1>1, <2>1 DEF ViewInv, Widgets, Fitted
    <3> QED BY <3>1, AnswerHears
  <2>3. /\ \A t \in Tables : Kept(t, "row")
        /\ (\A f \in Fitted \ {"topology"} : Kept(f, "width")) /\ Kept("topology", "line")
    BY <2>2, UntouchedIsKept DEF Fitted, Tables
  <2>4. RowsInv' /\ LineInv' /\ SmartInv'
    BY <1>1, <2>1, <2>3, RowsStand, LineStands, SmartStands DEF ViewInv, RowsInv, LineInv, SmartInv
  <2>5. WidthsInv'
    BY <1>1, <2>1, <2>2, <2>3, HeardAndFits DEF ViewInv, Fitted
  <2>6. PanelFollows'
    BY <1>1, <2>1, <2>2, <2>3, PanelStands DEF ViewInv, tree, tables
  <2> QED BY <2>2, <2>4, <2>5, <2>6
<1> QED BY <1>3, <1>4

\* The long page is drawn, for the size it has by then.
LEMMA DrawPageKeeps ==
  ASSUME ViewInv, DrawPage
  PROVE  PostIsTyped' /\ RowsInv' /\ LineInv' /\ WidthsInv' /\ SmartInv' /\ PanelFollows'
<1> DEFINE w == WidthThatFits(smart.content, PageSize)
<1>1. /\ smart' = IF w = smart.renderedAt
                    THEN [smart EXCEPT !.laidOutFor = PageSize]
                    ELSE [smart EXCEPT !.laidOutFor = PageSize, !.renderedAt = w,
                                       !.lines = [content |-> smart.content, width |-> w]]
      /\ UNCHANGED <<page, post, tables, tree, panel, region, widthUsed>>
  BY DEF DrawPage
<1>2. \A x, kind : Kept(x, kind)
  BY <1>1 DEF Kept
<1>3. RowsInv' /\ LineInv' /\ WidthsInv' /\ PanelFollows'
  BY <1>1, <1>2, RowsStand, LineStands, WidthsStand, PanelStands
     DEF ViewInv, RowsInv, LineInv, WidthsInv, tree, tables
<1>4. PageSize \in [width : Nat, height : Nat] /\ w \in Nat \ {0}
  <2>1. Room(screen.width) \in Nat \ {0, 1} /\ screen.height \in Nat
    BY WidthsAreNumbers DEF ViewInv, WidthsInv
  <2>2. PageSize = [width |-> Room(screen.width), height |-> screen.height]
    BY DEF PageSize
  <2> QED BY <2>1, <2>2 DEF WidthThatFits
<1>5. WidthThatFits(smart.content, PageSize) = w
  OBVIOUS
<1> DEFINE size == PageSize
<1> HIDE DEF w, size
<1>6. /\ smart' \in [content : {0, 1}, laidOutFor : [width : Nat, height : Nat], renderedAt : Nat,
                     lines : [content : {0, 1}, width : Nat]]
      /\ smart'.content = smart.content /\ smart'.laidOutFor = size
      /\ smart'.lines = [content |-> smart.content, width |-> w]
      /\ smart'.renderedAt # 0 => smart'.lines = [content |-> smart.content, width |-> smart'.renderedAt]
  <2>1. /\ smart \in [content : {0, 1}, laidOutFor : [width : Nat, height : Nat], renderedAt : Nat,
                      lines : [content : {0, 1}, width : Nat]]
        /\ smart.renderedAt # 0 => smart.lines = [content |-> smart.content, width |-> smart.renderedAt]
    BY DEF ViewInv, SmartInv, SmartIsTyped, PageFollows
  <2>2. CASE w = smart.renderedAt
    <3>1. smart' = [smart EXCEPT !.laidOutFor = size]
      BY <1>1, <2>2 DEF size
    <3> QED BY <1>4, <2>1, <2>2, <3>1 DEF size
  <2>3. CASE w # smart.renderedAt
    <3>1. smart' = [smart EXCEPT !.laidOutFor = size, !.renderedAt = w,
                                 !.lines = [content |-> smart.content, width |-> w]]
      BY <1>1, <2>3 DEF size
    <3> QED BY <1>4, <2>1, <2>3, <3>1 DEF size
  <2> QED BY <2>2, <2>3
<1>7. SmartInv'
  BY <1>5, <1>6 DEF SmartInv, SmartIsTyped, PageFollows, LongPageIsCurrent, size
<1> QED BY <1>1, <1>3, <1>7 DEF ViewInv, PostIsTyped

-----------------------------------------------------------------------------
(* The whole                                                               *)

\* Every step of the view keeps the invariant.
LEMMA ViewStepKeeps ==
  ASSUME ViewInv, [ViewNext]_viewVars
  PROVE  ViewInv'
<1>1. ScreenIsTyped'
  BY ScreenStays DEF ViewInv
<1> QED BY <1>1, ShowPageKeeps, MoveRowKeeps, MoveLineKeeps, TreeDensityKeeps, ScrollWwnKeeps, RescanKeeps,
           ResizeTerminalKeeps, LayOutWidgetKeeps, ActivateTabKeeps, RowHighlightedKeeps, LineHighlightedKeeps,
           DisksResizedKeeps, TreeResizedKeeps, DrawPageKeeps
        DEF ViewInv, ViewNext, ViewStep, ViewMove

\* The messages on_mount leaves behind.
LEMMA MountTells ==
  ASSUME ViewInit
  PROVE  /\ PostIsTyped /\ post["tabs"] # <<>>
         /\ \A t \in Tables : LastSays(post[t], "row", 1) /\ Silent(post[t], "width")
         /\ LastSays(post["topology"], "line", 1) /\ Silent(post["topology"], "width")
<1>1. /\ \A t \in Tables : post[t] = Refilled(1)
      /\ post["topology"] = <<Highlight(1)>> /\ post["tabs"] = <<TabActivated>>
      /\ post = [w \in Widgets |-> post[w]]
  <2>1. (Pages \ {"smart"}) \cup {"tabs"} = Widgets
    BY DEF Pages, Widgets, Fitted, Tables
  <2> DEFINE letter(w) == CASE w \in Tables -> Refilled(1)
                            [] w = "topology" -> <<Highlight(1)>>
                            [] w = "tabs" -> <<TabActivated>>
             first == [w \in (Pages \ {"smart"}) \cup {"tabs"} |-> letter(w)]
  <2>2. post = first
    BY DEF ViewInit
  <2>3. /\ \A t \in Tables : first[t] = Refilled(1)
        /\ first["topology"] = <<Highlight(1)>> /\ first["tabs"] = <<TabActivated>>
    BY DEF Pages, Tables
  <2> HIDE DEF letter
  <2>4. first = [w \in (Pages \ {"smart"}) \cup {"tabs"} |-> first[w]]
    OBVIOUS
  <2> HIDE DEF first
  <2> QED BY <2>1, <2>2, <2>3, <2>4
<1>2. 1 \in DOMAIN Disks
  BY ViewSizes
<1>3. Refilled(1) \in Seq(Messages) /\ LastSays(Refilled(1), "row", 1) /\ Silent(Refilled(1), "width")
  BY <1>2, RefilledSays
<1>4. /\ <<Highlight(1)>> \in Seq(Messages) /\ <<TabActivated>> \in Seq(Messages)
      /\ LastSays(<<Highlight(1)>>, "line", 1) /\ Silent(<<Highlight(1)>>, "width")
  BY WhatIsPosted, OneMessage
<1>5. \A w \in Widgets : post[w] \in Seq(Messages)
  BY <1>1, <1>3, <1>4 DEF Widgets, Fitted, Tables
<1>6. post["tabs"] # <<>>
  BY <1>1
<1> QED BY <1>1, <1>3, <1>4, <1>5, <1>6 DEF PostIsTyped

\* However the view begins, it begins in order.
LEMMA ViewStartsInOrder ==
  ASSUME ViewInit
  PROVE  ViewInv
<1>1. /\ screen \in Size /\ page = "topology" /\ focus = "topology"
      /\ cursor = [t \in Tables |-> 1] /\ rowOf = [t \in Tables |-> 0]
      /\ density \in DOMAIN Lines /\ highlighted = 1 /\ treeHighlighted = 0
      /\ strip = 1 /\ scrolled = FALSE
      /\ region = [f \in Fitted |-> 0] /\ widthUsed = [f \in Fitted |-> screen.width]
      /\ smart = [content |-> 0, laidOutFor |-> NotLaidOut, renderedAt |-> 0,
                  lines |-> [content |-> 0, width |-> 0]]
      /\ moves \in {0, MaxMoves} /\ chosen = Machine /\ everDrawn = TRUE
  BY DEF ViewInit
<1>2. 1 \in DOMAIN Disks /\ MaxMoves \in Nat
  BY ViewSizes
<1>3. /\ Lines[density] \in Seq(STRING) /\ Lines[density] # <<>> /\ Lines[density][1] = Machine
      /\ Machine # NoSubject
  BY <1>1, ViewSizes, FabricIsATree
<1>4. 1 \in DOMAIN Lines[density]
  BY <1>3
<1>5. ScreenIsTyped
  BY <1>1, <1>2 DEF ScreenIsTyped, Pages
<1>6. RowsInv
  BY <1>1, <1>2, MountTells, SaidIsNotSilent
     DEF RowsInv, RowsAreTyped, RowsFollow, StripFollows, Follows, Tables
<1>7. LineInv
  BY <1>1, <1>3, <1>4, MountTells
     DEF LineInv, LineIsTyped, LineFollows, Follows, TreeFollows, TreeKeepsTheDevice, SubjectAt
<1>8. WidthsInv
  <2>1. screen.width \in Nat \ {0}
    <3>1. screen.width \in Widths
      BY <1>1 DEF Size
    <3>2. \A w \in Widths : w \in Nat /\ w > 2
      BY ViewSizes
    <3> QED BY <3>1, <3>2
  <2> QED BY <1>1, <2>1, MountTells DEF WidthsInv, WidthsAreTyped, WidthsFollow, WidthFollows, Fitted, Tables
<1>9. SmartInv
  BY <1>1 DEF SmartInv, SmartIsTyped, PageFollows, LongPageIsCurrent, NotLaidOut
<1> QED BY <1>5, <1>6, <1>7, <1>8, <1>9, MountTells DEF ViewInv, PanelFollows

\* Where no message is on its way, one machine is on one screen.
LEMMA ViewInvAgrees == ViewInv => ScreenAgrees
<1> SUFFICES ASSUME ViewInv PROVE ScreenAgrees
  OBVIOUS
<1>1. \A kind : Silent(<<>>, kind)
  BY DEF Silent
<1>2. PanelIsOfTheCursor
  <2> SUFFICES ASSUME Quiet PROVE panel = UnderTheCursor
    BY DEF PanelIsOfTheCursor
  <2>1. \A w \in Widgets : post[w] = <<>>
    BY DEF Quiet, ViewInv, PostIsTyped
  <2>2. page \in Pages
    BY DEF ViewInv, ScreenIsTyped
  <2> QED BY <1>1, <2>1, <2>2
       DEF ViewInv, PanelFollows, UnderTheCursor, Widgets, Pages, Tables, Fitted
<1>3. StripIsOfTheCursor
  BY <1>1 DEF ViewInv, RowsInv, StripFollows, StripIsOfTheCursor
<1>4. FilledForItsWidth
  <2> SUFFICES ASSUME NEW f \in Fitted, region[f] # 0, \A i \in DOMAIN post[f] : post[f][i].says # "width"
               PROVE  widthUsed[f] = region[f]
    BY DEF FilledForItsWidth
  <2>1. Silent(post[f], "width")
    BY DEF Silent
  <2>2. Follows(post[f], "width", region[f], widthUsed[f])
    BY <2>1 DEF ViewInv, WidthsInv, WidthsFollow, WidthFollows
  <2> QED BY <2>1, <2>2, RecordedIsAtHand
<1> QED BY <1>2, <1>3, <1>4 DEF ScreenAgrees, ViewInv, LineInv, TreeFollows, SmartInv, PageFollows

\* And it has its type.
LEMMA ViewInvIsTyped == ViewInv => ViewTypeOK
<1> SUFFICES ASSUME ViewInv PROVE ViewTypeOK
  OBVIOUS
<1>1. screen \in Size /\ page \in Pages /\ focus \in Pages /\ moves \in 0..MaxMoves
  BY DEF ViewInv, ScreenIsTyped
<1>2. DOMAIN post = Fitted \cup Tables \cup {"tabs"}
  BY DEF ViewInv, PostIsTyped, Widgets
<1>3. /\ cursor \in [Tables -> DOMAIN Disks] /\ (\A t \in Tables : rowOf[t] = 0 \/ rowOf[t] \in DOMAIN Disks)
      /\ strip \in DOMAIN Disks /\ scrolled \in BOOLEAN
  BY DEF ViewInv, RowsInv, RowsAreTyped
<1>4. density \in DOMAIN Lines /\ highlighted \in DOMAIN Lines[density] /\ treeHighlighted \in Nat
  BY DEF ViewInv, LineInv, LineIsTyped
<1>5. \A f \in Fitted : region[f] \in Nat /\ widthUsed[f] \in Nat \ {0}
  BY DEF ViewInv, WidthsInv, WidthsAreTyped
<1> QED BY <1>1, <1>2, <1>3, <1>4, <1>5 DEF ViewTypeOK

\* tui/app.py, long_page.py: for any drives, fabric and widths, whatever was pressed, resized
\* or rescanned, the panel, the strip, the columns, the tree and the long page agree at rest.
THEOREM OneMachineOnTheScreen == ViewSpec => []ScreenAgrees
<1>1. ViewInit => ViewInv
  BY ViewStartsInOrder
<1>2. ViewInv /\ [ViewNext]_viewVars => ViewInv'
  BY ViewStepKeeps
<1> QED BY <1>1, <1>2, ViewInvAgrees, PTL DEF ViewSpec

-----------------------------------------------------------------------------
(* The parts of a session                                                  *)

\* However a session begins, every part of it begins as it does by itself.
LEMMA EveryPartBegins ==
  ASSUME SessionInit
  PROVE  StartInit /\ OfferInit /\ LoggingInit /\ DeploymentInit /\ ViewInit
BY DEF SessionInit, StartScene, LoggingScene, OfferScene, DeployScene, ViewScene, PlainStart,
       PlainLogging, PlainOffer, PlainDeploy, PlainView

\* A start that is given up leaves the first run, where it waits for it.
LEMMA GivenUpLeaves ==
  ASSUME GivenUp
  PROVE  /\ at["first"] \in {"beforeOffer", "page", "offering"} /\ Here("first", at["first"])
         /\ Leave("first", ForABug)
BY DEF GivenUp, ReadyToLog, Here

\* The way to the view goes on by its own steps, but for a start given up.
LEMMA StartInSession ==
  ASSUME [SessionNext]_sessionVars
  PROVE  StartNext \/ GivenUp \/ UNCHANGED startVars
BY DEF SessionNext, sessionVars, RunGoesOn, Interrupted, StartTheLogging, OfferGoesOn, DeployGoesOn,
       ViewGoesOn, KeyPressed, StartNext

\* The offer takes its own steps, or stands still.
LEMMA OfferInSession ==
  ASSUME [SessionNext]_sessionVars
  PROVE  OfferNext \/ UNCHANGED offerVars
BY DEF SessionNext, sessionVars, RunGoesOn, Interrupted, StartTheLogging, GivenUp, OfferGoesOn,
       DeployGoesOn, ViewGoesOn, KeyPressed

\* The start of the logging takes its own steps, or stands still.
LEMMA LoggingInSession ==
  ASSUME [SessionNext]_sessionVars
  PROVE  [LoggingNext]_logVars
BY DEF SessionNext, sessionVars, RunGoesOn, Interrupted, StartTheLogging, GivenUp, OfferGoesOn,
       DeployGoesOn, ViewGoesOn, KeyPressed

\* The deploy takes its own steps, or stands still.
LEMMA DeployInSession ==
  ASSUME [SessionNext]_sessionVars
  PROVE  DeploymentNext \/ UNCHANGED deployVars
BY DEF SessionNext, sessionVars, RunGoesOn, Interrupted, StartTheLogging, GivenUp, OfferGoesOn,
       DeployGoesOn, ViewGoesOn, KeyPressed

\* A session keeps the invariant of the way to the view.
LEMMA SessionKeepsTheStart ==
  ASSUME StartInv, [SessionNext]_sessionVars
  PROVE  StartInv'
BY StartInSession, StartStepKeeps, GivenUpLeaves, ABugInTheFirstRunKeeps, StartStillInOrder

-----------------------------------------------------------------------------
(* What is promised of the parts, in a session                             *)

\* cli/notice.py, cli/commands/interactive.py: however the offer, the question, the copy
\* and Ctrl+C fall, the line gives way, each question is asked once, and the copy's
\* answer is what the first run leaves with.
THEOREM SharedInTurn == SessionSpec => []TerminalIsSharedInTurn
<1>1. SessionInit => StartInv
  BY EveryPartBegins, StartsInOrder
<1>2. StartInv /\ [SessionNext]_sessionVars => StartInv'
  BY SessionKeepsTheStart
<1>3. StartInv => TerminalIsSharedInTurn
  BY StartInvSharesTheTerminal
<1> QED BY <1>1, <1>2, <1>3, PTL DEF SessionSpec

\* The offer and install-shortcut, whatever fails and whoever edits the file meanwhile,
\* leave on the desk and in the file what they say, and fetch nothing not agreed to.
THEOREM OfferedAsSaid == SessionSpec => []OfferDoesAsItSays
<1>1. SessionInit => OfferInv
  BY EveryPartBegins, OfferStartsInOrder
<1>2. OfferInv /\ [SessionNext]_sessionVars => OfferInv'
  BY OfferInSession, OfferStepKeeps, OfferStillInOrder
<1>3. OfferInv => OfferDoesAsItSays
  BY OfferInvDoesAsItSays
<1> QED BY <1>1, <1>2, <1>3, PTL DEF SessionSpec

\* In a session too, the settings refused fall back, and those accepted stay but for a
\* text that several of them share.
THEOREM SettingsFallBackInSession == SessionSpec => []RefusedSettingsFallBack
<1>1. SessionInit => LoggingInv
  BY EveryPartBegins, LoggingStartsInOrder
<1>2. LoggingInv /\ [SessionNext]_sessionVars => LoggingInv'
  BY LoggingInSession, LoggingStepKeeps
<1>3. LoggingInv => RefusedSettingsFallBack
  BY InvariantKeepsThePromises
<1> QED BY <1>1, <1>2, <1>3, PTL DEF SessionSpec

\* config-deploy, for any layers, touches what it was allowed to, and a success names
\* every file it replaced and every value it now overrides.
THEOREM DeployedAsReported == SessionSpec => []DeploymentIsAsReported
<1>1. SessionInit => DeployInv
  BY EveryPartBegins, DeployStartsInOrder
<1>2. DeployInv /\ [SessionNext]_sessionVars => DeployInv'
  BY DeployInSession, DeployStepKeeps, DeployStillInOrder
<1>3. DeployInv => DeploymentIsAsReported
  BY DeployInvReportsTruly
<1> QED BY <1>1, <1>2, <1>3, PTL DEF SessionSpec
-----------------------------------------------------------------------------
(* The code a run is left with                                             *)

AtItsEnd == {"finally", "over"}

\* The ways a run comes to its end: it has ended before, is interrupted, is refused by
\* the command line, or leaves what it has shown or the answer of its copy.
WayOut(r) ==
  at'[r] \in AtItsEnd =>
    \/ at[r] \in AtItsEnd /\ code'[r] \in {code[r], ExitCode.SIGNAL_INT}
    \/ code'[r] \in {ExitCode.SIGNAL_INT, ExitCode.USAGE_ERROR}
    \/ at[r] \in {"reading", "view"} /\ code'[r] \in PageCodes
    \/ Here(r, "relaunched") /\ code'[r] = ExitStatus(code["copy"])
    \/ Here(r, "page") /\ code'[r] \in PageCodes

\* Nothing but leaving gives a run a code, and no run comes back from its end.
EndIsFinal(r) ==
  /\ at[r] \in AtItsEnd => at'[r] \in AtItsEnd
  /\ at'[r] \notin AtItsEnd => code'[r] = code[r]

\* The rest of a step: it is of one run, and of no other but that the copy may begin.
OthersStandStill(r) ==
  /\ world' = world
  /\ \A q \in Runs \ {r} : step'[q] = step[q] /\ code'[q] = code[q] /\ (at'[q] = at[q] \/ q = "copy")

\* Only a run on the way to the view is beyond the place the logging starts from.
OnTheWay ==
  {"beforeOffer", "offering", "beforeAsking", "asking", "relaunched", "resuming", "reading", "beforeView",
   "view", "beforePage"}
ViewsGoTheirWay == \A r \in Runs : at[r] \in OnTheWay => world.command \in Views

\* The codes of a page are among them the verdicts of a view, and no bug's.
LEMMA CodesOfAPage ==
  /\ 0 \in PageCodes /\ 1 \in PageCodes /\ ExitCode.INVALID_ARGUMENT \in PageCodes
  /\ ForABug \notin PageCodes \cup {Unset, ExitCode.SIGNAL_INT, ExitCode.USAGE_ERROR, 0 - Signal}
  /\ \A c \in Codes \cup {0 - Signal} : c # ForABug => ExitStatus(c) # ForABug
BY SignalIsANumber DEF PageCodes, ExitCode, ForABug, Unset, ExitStatus, Codes
\* A command that was asked for asks nothing back, and gives a code; so does a deploy.
CommandsAnswer ==
  /\ asker # "offer" =>
       /\ offerAt \notin {"choose", "load", "read", "change", "replace", "readBack"}
       /\ answer \in {"unanswered", "SUCCESS", "CONFIG_ERROR", "PERMISSION_DENIED", "IO_ERROR"}
  /\ deployAt = "over" => deployAnswer # "unanswered"

\* Who asked is who runs, and what was given up is left at once.
PartsInTurn ==
  /\ AskerFits
  /\ code["copy"] # ForABug
  /\ logAt = "raised" => ReadyToLog \/ at["first"] \in AtItsEnd
  /\ answer = "aborted" => Here("first", "offering") \/ at["first"] \in AtItsEnd

\* A code is the one the parts came to.
IsTheOutcome(c) ==
  /\ c = ForABug <=> logAt = "raised" \/ answer = "aborted"
  /\ world.command = "install-shortcut" /\ c # ForABug => (c = ExitCode.SUCCESS <=> entry \in Entries)
  /\ world.command = "config-deploy" /\ c = ExitCode.SUCCESS =>
       reported = {f \in ConfigFiles : files[f] # found[f]}

OutcomeAtTheEnd ==
  at["first"] \in AtItsEnd /\ code["first"] \notin {ExitCode.SIGNAL_INT, ExitCode.USAGE_ERROR} =>
    IsTheOutcome(code["first"])

PartsInv == StartInv /\ OfferInv /\ LoggingInv /\ DeployInv
OutcomeInv == PartsInv /\ ViewsGoTheirWay /\ CommandsAnswer /\ PartsInTurn /\ OutcomeAtTheEnd

\* Ctrl+C that is held changes nothing of this, and one that is not ends the run.
LEMMA InterruptedOrHeld ==
  ASSUME StartTypeOK, NEW r \in Runs, PressCtrlC(r)
  PROVE  /\ \/ at'[r] = at[r] /\ step'[r] = step[r] /\ code'[r] = code[r]
            \/ at'[r] \in AtItsEnd /\ code'[r] = ExitCode.SIGNAL_INT
         /\ OthersStandStill(r)
BY DEF PressCtrlC, Unwind, Goto, StartTypeOK, AtItsEnd, OthersStandStill

\* A signal changes nothing of the first run, and is no bug.
LEMMA KilledAlone ==
  ASSUME StartTypeOK, KillCopy
  PROVE  /\ at'["first"] = at["first"] /\ step'["first"] = step["first"] /\ code'["first"] = code["first"]
         /\ world' = world /\ code'["copy"] = 0 - Signal
BY DEF KillCopy, Goto, given, StartTypeOK, Runs

\* What the commands answer is kept by their own steps.
LEMMA CommandsStillAnswer ==
  ASSUME CommandsAnswer, OfferTypeOK, [SessionNext]_sessionVars
  PROVE  CommandsAnswer'
<1>1. asker' # "offer" => /\ offerAt' \notin {"choose", "load", "read", "change", "replace", "readBack"}
                          /\ answer' \in {"unanswered", "SUCCESS", "CONFIG_ERROR", "PERMISSION_DENIED",
                                          "IO_ERROR"}
  <2>1. CASE UNCHANGED offerVars
    BY <2>1 DEF offerVars, CommandsAnswer
  <2>2. CASE AskingStep
    BY <2>2 DEF AskingStep, CommandsAnswer, BeginOffer, Choose, Plan, Consent, RunInstaller, Replan, Refuse,
       Say, OfferGoto, machine
  <2>3. CASE WritingStep
    BY <2>3 DEF WritingStep, CommandsAnswer, CopyIcon, WriteEntry, AddToTheMenu, Refuse, Say, OfferGoto,
       machine
  <2>4. CASE SettingStep
    BY <2>4 DEF SettingStep, CommandsAnswer, FindConfig, ReadConfig, SetOfferFalse, ReplaceConfig, ReadBack,
       EditorSaves, Say, OfferGoto, machine
  <2> QED BY <2>1, <2>2, <2>3, <2>4, OfferInSession DEF OfferNext, AskingStep, WritingStep, SettingStep
<1>2. deployAt' = "over" => deployAnswer' # "unanswered"
  <2>1. CASE UNCHANGED deployVars
    BY <2>1 DEF deployVars, CommandsAnswer
  <2>2. CASE DeploymentNext
    BY <2>2 DEF DeploymentNext, CommandsAnswer, BeginDeploy, DeployNext, DeployFails, LookForDirectories,
       ReportDeployment, Give
  <2> QED BY <2>1, <2>2, DeployInSession
<1> QED BY <1>1, <1>2 DEF CommandsAnswer

\* A run comes to its end in one of the ways there are.
LEMMA WaysOut ==
  ASSUME StartTypeOK, CallsInPlace, NEW r \in Runs, StartStep(r) \/ Answered(r)
  PROVE  WayOut(r)
<1> USE DEF WayOut
<1>1. CASE Resume(r) \/ Forget(r)
  BY <1>1 DEF Resume, Return, Goto, asks, Proceed, Forget, StartTypeOK, Runs, CallsInPlace, ToDraw, Resumes,
     ToErase, Stops, Pauses, AtItsEnd
<1>2. CASE HoldCtrlC(r) \/ NoteTheLine(r)
  BY <1>2 DEF HoldCtrlC, Proceed, asks, NoteTheLine
<1>3. CASE Draw(r)
  BY <1>3 DEF Draw, Proceed, asks
<1>4. CASE Erase(r)
  BY <1>4 DEF Erase, Proceed, asks
<1>5. CASE Release(r)
  BY <1>5 DEF Release, Return, Goto, asks, Unwind, StartTypeOK, Runs, CallsInPlace, Resumes, Stops, Pauses,
     AtItsEnd
<1>6. CASE Begin(r) \/ NoTerminal(r) \/ StartTheOffer(r) \/ PauseToAsk(r) \/ ResumeTheLine(r) \/ Finally(r)
  BY <1>6 DEF Begin, Here, Await, Goto, asks, NoTerminal, StartTheOffer, PauseToAsk, ResumeTheLine, Finally,
     StartTypeOK, AtItsEnd
<1>7. CASE NoOffer(r) \/ NotAsked(r)
  BY <1>7 DEF NoOffer, Move, Goto, NotAsked, StartTypeOK, AtItsEnd
<1>8. CASE Import(r)
  BY <1>8 DEF Import, Leave, Goto, Await, Move, StartTypeOK, AtItsEnd
<1>9. CASE Read(r)
  BY <1>9, CodesOfAPage DEF Read, Here, Leave, Goto, Await, StartTypeOK, AtItsEnd
<1>10. CASE CopyIsOver(r) \/ CloseView(r) \/ PrintPage(r)
  BY <1>10, CodesOfAPage DEF CopyIsOver, Here, Leave, CloseView, PrintPage, StartTypeOK
<1>11. CASE EndTheOffer(r)
  BY <1>11 DEF EndTheOffer, Goto, AtItsEnd
<1>12. CASE Ask(r)
  BY <1>12 DEF Ask, Goto, StartTypeOK, AtItsEnd
<1> QED
  BY <1>1, <1>2, <1>3, <1>4, <1>5, <1>6, <1>7, <1>8, <1>9, <1>10, <1>11, <1>12
     DEF StartStep, Answered

\* No step takes a run back from its end, or gives it a code before.
LEMMA EndsAreFinal ==
  ASSUME StartTypeOK, CallsInPlace, NEW r \in Runs, StartStep(r) \/ Answered(r)
  PROVE  EndIsFinal(r)
<1> USE DEF EndIsFinal
<1>1. CASE Resume(r) \/ Forget(r)
  BY <1>1 DEF Resume, Return, Goto, asks, Proceed, Forget, StartTypeOK, Runs, CallsInPlace, ToDraw, Resumes,
     ToErase, Stops, Pauses, AtItsEnd
<1>2. CASE HoldCtrlC(r) \/ NoteTheLine(r)
  BY <1>2 DEF HoldCtrlC, Proceed, asks, NoteTheLine
<1>3. CASE Draw(r)
  BY <1>3 DEF Draw, Proceed, asks
<1>4. CASE Erase(r)
  BY <1>4 DEF Erase, Proceed, asks
<1>5. CASE Release(r)
  BY <1>5 DEF Release, Return, Goto, asks, Unwind, StartTypeOK, Runs, CallsInPlace, Resumes, Stops, Pauses,
     AtItsEnd
<1>6. CASE Begin(r) \/ NoTerminal(r) \/ StartTheOffer(r) \/ PauseToAsk(r) \/ ResumeTheLine(r) \/ Finally(r)
  BY <1>6 DEF Begin, Here, Await, Goto, asks, NoTerminal, StartTheOffer, PauseToAsk, ResumeTheLine, Finally,
     StartTypeOK, AtItsEnd
<1>7. CASE NoOffer(r) \/ NotAsked(r)
  BY <1>7 DEF NoOffer, Here, Move, asks, NotAsked, AtItsEnd
<1>8. CASE Import(r)
  BY <1>8 DEF Import, Here, Leave, Goto, Await, asks, Move, StartTypeOK, AtItsEnd
<1>9. CASE Read(r)
  BY <1>9 DEF Read, Here, Leave, Goto, Await, asks, StartTypeOK, AtItsEnd
<1>10. CASE CopyIsOver(r) \/ CloseView(r) \/ PrintPage(r)
  BY <1>10 DEF CopyIsOver, Leave, Goto, CloseView, PrintPage, StartTypeOK, AtItsEnd
<1>11. CASE EndTheOffer(r)
  BY <1>11 DEF EndTheOffer, Here, AtItsEnd
<1>12. CASE Ask(r)
  BY <1>12 DEF Ask, Here, AtItsEnd
<1> QED
  BY <1>1, <1>2, <1>3, <1>4, <1>5, <1>6, <1>7, <1>8, <1>9, <1>10, <1>11, <1>12
     DEF StartStep, Answered

\* A step is of one run.
LEMMA OneRunAtATime ==
  ASSUME StartTypeOK, NEW r \in Runs, StartStep(r) \/ Answered(r)
  PROVE  OthersStandStill(r)
<1> USE DEF OthersStandStill, given
<1>1. CASE Resume(r) \/ Forget(r)
  BY <1>1 DEF Resume, Return, Goto, asks, Proceed, Forget, StartTypeOK
<1>2. CASE HoldCtrlC(r) \/ NoteTheLine(r)
  BY <1>2 DEF HoldCtrlC, Proceed, asks, NoteTheLine, StartTypeOK
<1>3. CASE Draw(r)
  BY <1>3 DEF Draw, Proceed, asks
<1>4. CASE Erase(r)
  BY <1>4 DEF Erase, Proceed, asks
<1>5. CASE Release(r)
  BY <1>5 DEF Release, Return, Goto, asks, Unwind, StartTypeOK
<1>6. CASE Begin(r) \/ NoTerminal(r) \/ StartTheOffer(r) \/ PauseToAsk(r) \/ ResumeTheLine(r) \/ Finally(r)
  BY <1>6 DEF Begin, Await, Goto, Call, asks, NoTerminal, StartTheOffer, PauseToAsk, ResumeTheLine, Finally,
     StartTypeOK
<1>7. CASE NoOffer(r) \/ NotAsked(r)
  BY <1>7 DEF NoOffer, Move, Goto, asks, NotAsked, StartTypeOK
<1>8. CASE Import(r)
  BY <1>8 DEF Import, Leave, Goto, Await, Call, asks, Move, StartTypeOK
<1>9. CASE Read(r)
  BY <1>9 DEF Read, Leave, Goto, Await, Call, asks, StartTypeOK
<1>10. CASE CopyIsOver(r) \/ CloseView(r) \/ PrintPage(r)
  BY <1>10 DEF CopyIsOver, Leave, Goto, CloseView, PrintPage, StartTypeOK
<1>11. CASE EndTheOffer(r)
  BY <1>11 DEF EndTheOffer, Goto
<1>12. CASE Ask(r)
  BY <1>12 DEF Ask, Goto, StartTypeOK
<1> QED
  BY <1>1, <1>2, <1>3, <1>4, <1>5, <1>6, <1>7, <1>8, <1>9, <1>10, <1>11, <1>12
     DEF StartStep, Answered

\* A step of the way to the view is of one run, which comes to its end by the ways there are.
LEMMA StepOfARun ==
  ASSUME StartTypeOK, CallsInPlace, NEW r \in Runs, StartStep(r) \/ Answered(r)
  PROVE  WayOut(r) /\ EndIsFinal(r) /\ OthersStandStill(r)
BY WaysOut, EndsAreFinal, OneRunAtATime

\* The way to the view is only for the commands that open one.
LEMMA RunsStayOnTheirWay ==
  ASSUME StartTypeOK, CallsInPlace, ViewsGoTheirWay, NEW r \in Runs,
         StartStep(r) \/ Answered(r) \/ PressCtrlC(r)
  PROVE  ViewsGoTheirWay'
<1> USE DEF ViewsGoTheirWay
<1>1. CASE Resume(r) \/ Forget(r)
  BY <1>1 DEF Resume, Return, Goto, given, Proceed, Forget, StartTypeOK, CallsInPlace, ToDraw, Resumes,
     ToErase, Stops, Pauses, OnTheWay
<1>2. CASE HoldCtrlC(r) \/ NoteTheLine(r)
  BY <1>2 DEF HoldCtrlC, Proceed, given, NoteTheLine
<1>3. CASE Draw(r)
  BY <1>3 DEF Draw, Proceed, given
<1>4. CASE Erase(r)
  BY <1>4 DEF Erase, Proceed, given
<1>5. CASE Release(r)
  <2>1. at \in [Runs -> Places] /\ (Stops(r) \/ Pauses(r) \/ Resumes(r))
    BY <1>5 DEF Release, StartTypeOK, CallsInPlace
  <2>2. CASE Return(r)
    BY <2>1, <2>2 DEF Return, Goto, given, Resumes, Stops, Pauses, OnTheWay
  <2>3. CASE Unwind(r) /\ UNCHANGED given
    BY <2>1, <2>3 DEF Unwind, Goto, given, OnTheWay
  <2> QED BY <1>5, <2>2, <2>3 DEF Release, given
<1>6. CASE Begin(r) \/ NoTerminal(r) \/ StartTheOffer(r) \/ PauseToAsk(r) \/ ResumeTheLine(r) \/ Finally(r)
  BY <1>6 DEF Begin, Here, Await, Goto, given, NoTerminal, StartTheOffer, PauseToAsk, ResumeTheLine, Finally,
     StartTypeOK, OnTheWay
<1>7. CASE NoOffer(r) \/ NotAsked(r)
  BY <1>7 DEF NoOffer, Here, Move, given, NotAsked, OnTheWay
<1>8. CASE Import(r)
  BY <1>8 DEF Import, Leave, Goto, given, Await, Move, StartTypeOK, OnTheWay
<1>9. CASE Read(r)
  BY <1>9 DEF Read, Here, Leave, given, Await, OnTheWay
<1>10. CASE CopyIsOver(r) \/ CloseView(r) \/ PrintPage(r)
  BY <1>10 DEF CopyIsOver, Leave, Goto, given, CloseView, PrintPage, StartTypeOK, OnTheWay
<1>11. CASE EndTheOffer(r)
  BY <1>11 DEF EndTheOffer, Here, given, OnTheWay
<1>12. CASE Ask(r)
  BY <1>12 DEF Ask, Here, given, OnTheWay
<1>13. CASE PressCtrlC(r)
  BY <1>13 DEF PressCtrlC, Unwind, Goto, StartTypeOK, OnTheWay
<1> QED
  BY <1>1, <1>2, <1>3, <1>4, <1>5, <1>6, <1>7, <1>8, <1>9, <1>10, <1>11, <1>12, <1>13
     DEF StartStep, Answered

\* And so it is in a session.
LEMMA ViewsStayOnTheirWay ==
  ASSUME StartTypeOK, CallsInPlace, ViewsGoTheirWay, [SessionNext]_sessionVars
  PROVE  ViewsGoTheirWay'
<1>1. CASE \E r \in Runs : StartStep(r) \/ Answered(r) \/ PressCtrlC(r)
  BY <1>1, RunsStayOnTheirWay
<1>2. CASE KillCopy
  BY <1>2 DEF KillCopy, Goto, given, StartTypeOK, Runs, ViewsGoTheirWay, OnTheWay
<1>3. CASE GivenUp
  <2>1. Leave("first", ForABug) /\ "first" \in Runs
    BY <1>3, GivenUpLeaves DEF Runs
  <2>2. at' = [at EXCEPT !["first"] = "finally"] /\ world' = world
    BY <1>3, <2>1 DEF Leave, Goto, GivenUp, given
  <2> QED BY <2>1, <2>2 DEF StartTypeOK, ViewsGoTheirWay, OnTheWay
<1>4. CASE UNCHANGED startVars
  BY <1>4 DEF startVars, ViewsGoTheirWay
<1> QED BY <1>1, <1>2, <1>3, <1>4, StartInSession DEF StartNext

\* Of the copy nothing is a bug.
LEMMA CopyIsNoBug ==
  ASSUME OutcomeInv, [SessionNext]_sessionVars
  PROVE  code'["copy"] # ForABug
<1> USE CodesOfAPage DEF OutcomeInv, PartsInv, StartInv, PartsInTurn
<1>1. ASSUME NEW r \in Runs, StartStep(r) \/ Answered(r)
      PROVE  code'["copy"] # ForABug
  <2>1. WayOut(r) /\ EndIsFinal(r) /\ OthersStandStill(r)
    BY <1>1, StepOfARun
  <2>2. CASE r = "copy"
    BY <2>1, <2>2 DEF WayOut, EndIsFinal, Here, RunsInPlace, Runs
  <2>3. CASE r = "first"
    BY <2>1, <2>3 DEF OthersStandStill, Runs
  <2> QED BY <2>2, <2>3 DEF Runs
<1>2. ASSUME NEW r \in Runs, PressCtrlC(r)
      PROVE  code'["copy"] # ForABug
  BY <1>2, InterruptedOrHeld DEF OthersStandStill, Runs
<1>3. CASE KillCopy
  BY <1>3, KilledAlone
<1>4. CASE GivenUp
  BY <1>4, GivenUpLeaves DEF Leave, StartTypeOK, Runs
<1>5. CASE UNCHANGED startVars
  BY <1>5 DEF startVars
<1> QED BY <1>1, <1>2, <1>3, <1>4, <1>5, StartInSession DEF StartNext

\* What was given up is left at once, whatever else the session does.
LEMMA PartsStayInTurn ==
  ASSUME OutcomeInv, [SessionNext]_sessionVars
  PROVE  PartsInTurn'
<1> USE DEF OutcomeInv, PartsInv, StartInv, PartsInTurn
<1>1. code'["copy"] # ForABug
  BY CopyIsNoBug
<1>2. ASSUME NEW r \in Runs, RunGoesOn(r)
      PROVE  PartsInTurn'
  <2>1. WayOut(r) /\ EndIsFinal(r) /\ OthersStandStill(r)
    BY <1>2, StepOfARun DEF RunGoesOn
  <2>2. /\ UNCHANGED <<logAt, answer, asker>>
        /\ world' = world
    BY <1>2, <2>1 DEF RunGoesOn, logVars, offerVars, OthersStandStill
  <2>3. CASE r = "copy"
    <3>1. step'["first"] = step["first"] /\ at'["first"] = at["first"]
      BY <2>1, <2>3 DEF OthersStandStill, Runs
    <3> QED BY <1>1, <2>2, <3>1 DEF AskerFits, ReadyToLog, Here
  <2>4. CASE r = "first"
    BY <1>1, <1>2, <2>1, <2>2, <2>4 DEF RunGoesOn, MayGoOn, EndIsFinal, AskerFits
  <2> QED BY <2>3, <2>4 DEF Runs
<1>3. CASE Interrupted
  <2>1. UNCHANGED <<logAt, answer, asker>>
    BY <1>3 DEF Interrupted, logVars, offerVars
  <2>2. ASSUME NEW r \in Runs, PressCtrlC(r)
        PROVE  PartsInTurn'
    <3>1. /\ \/ at'["first"] = at["first"] /\ step'["first"] = step["first"]
             \/ at'["first"] \in AtItsEnd
          /\ world' = world
      BY <2>2, InterruptedOrHeld DEF OthersStandStill, Runs
    <3> QED BY <1>1, <2>1, <3>1 DEF AskerFits, ReadyToLog, Here, AtItsEnd
  <2>3. CASE KillCopy
    BY <1>1, <2>1, <2>3, KilledAlone DEF AskerFits, ReadyToLog, Here
  <2> QED BY <1>3, <2>2, <2>3 DEF Interrupted
<1>4. CASE StartTheLogging
  BY <1>1, <1>4 DEF StartTheLogging, startVars, offerVars, AskerFits, ReadyToLog, Here
<1>5. CASE GivenUp
  <2>1. at'["first"] = "finally" /\ world' = world /\ UNCHANGED asker
    BY <1>5 DEF GivenUp, Leave, Goto, given, StartTypeOK, Runs, offerVars
  <2> QED BY <1>1, <2>1 DEF AskerFits, AtItsEnd
<1>6. CASE OfferGoesOn
  <2>1. UNCHANGED <<startVars, logVars>> /\ asker' = asker /\ OfferHasTheTerminal
    BY <1>6 DEF OfferGoesOn, OfferNext, BeginOffer, Choose, Plan, Consent, RunInstaller, Replan, CopyIcon,
       WriteEntry, AddToTheMenu, FindConfig, ReadConfig, SetOfferFalse, ReplaceConfig, ReadBack, EditorSaves,
       machine
  <2>2. asker # "offer" => answer' # "aborted"
    <3>1. CommandsAnswer'
      BY CommandsStillAnswer DEF OfferInv
    <3> QED BY <2>1, <3>1 DEF CommandsAnswer
  <2> QED BY <1>1, <2>1, <2>2 DEF startVars, logVars, AskerFits, ReadyToLog, Here, OfferHasTheTerminal
<1>7. CASE DeployGoesOn \/ ViewGoesOn \/ KeyPressed \/ UNCHANGED sessionVars
  BY <1>1, <1>7
     DEF DeployGoesOn, ViewGoesOn, KeyPressed, sessionVars, startVars, logVars, offerVars, AskerFits,
         ReadyToLog, Here
<1> QED BY <1>2, <1>3, <1>4, <1>5, <1>6, <1>7 DEF SessionNext

\* An install-shortcut that ended leaves with success exactly where its shortcut stands.
LEMMA InstallGivesItsCode ==
  ASSUME OfferInv, CommandsAnswer, asker # "offer", offerAt = "done"
  PROVE  /\ answer # "aborted" /\ CodeOf(answer) # ForABug
         /\ CodeOf(answer) = ExitCode.SUCCESS <=> entry \in Entries
<1>1. answer \in {"SUCCESS", "CONFIG_ERROR", "PERMISSION_DENIED", "IO_ERROR"}
  BY DEF CommandsAnswer, OfferInv, DeskInPlace
<1>2. CodeOf(answer) = ExitCode.SUCCESS <=> answer = "SUCCESS"
  BY <1>1 DEF CodeOf, ExitCode
<1>3. CodeOf(answer) # ForABug
  BY <1>1 DEF CodeOf, ExitCode, ForABug
<1>4. answer = "SUCCESS" <=> entry \in Entries
  BY <1>1 DEF OfferInv, ShortcutAsSaid
<1> QED BY <1>1, <1>2, <1>3, <1>4

\* A deploy that ended leaves with success where every file it replaced was named.
LEMMA DeployGivesItsCode ==
  ASSUME DeployInv, CommandsAnswer, deployAt = "over"
  PROVE  /\ CodeOf(deployAnswer) # ForABug
         /\ CodeOf(deployAnswer) = ExitCode.SUCCESS =>
              reported = {f \in ConfigFiles : files[f] # found[f]}
<1>1. deployAnswer \in {"SUCCESS", "PERMISSION_DENIED", "IO_ERROR", "CONFIG_ERROR", "INVALID_ARGUMENT"}
  BY DEF CommandsAnswer, DeployInv, DeployTypeOK, DeployAnswers
<1>2. CodeOf(deployAnswer) = ExitCode.SUCCESS => deployAnswer = "SUCCESS"
  BY <1>1 DEF CodeOf, ExitCode
<1>3. CodeOf(deployAnswer) # ForABug
  BY <1>1 DEF CodeOf, ExitCode, ForABug
<1>4. Written(results) = {f \in ConfigFiles : files[f] # found[f]}
  BY DEF DeployInv, WrittenAsAllowed, DeployTypeOK, Written
<1> QED BY <1>2, <1>3, <1>4 DEF DeployInv, SaidOfWhatWasRead

\* A page is left with what was done for it, once the start of the logging is over.
LEMMA PageIsLeftAsDone ==
  ASSUME OutcomeInv, RunGoesOn("first"), Here("first", "page"), code'["first"] \in PageCodes
  PROVE  IsTheOutcome(code'["first"])
<1> USE DEF OutcomeInv, PartsInv, PartsInTurn
<1>1. code'["first"] # ForABug /\ MayGoOn("first")
  BY CodesOfAPage DEF RunGoesOn
<1>2. logAt # "raised" /\ (asker = "offer" => answer # "aborted")
  BY <1>1 DEF MayGoOn, ReadyToLog, Here, AtItsEnd
<1>3. asker # "offer" => answer # "aborted"
  BY DEF CommandsAnswer
<1>4. CASE world.command = "install-shortcut"
  <2>1. asker # "offer" /\ offerAt = "done" /\ code'["first"] = CodeOf(answer)
    BY <1>1, <1>4 DEF MayGoOn, AskerFits
  <2> QED BY <1>1, <1>2, <1>3, <1>4, <2>1, InstallGivesItsCode DEF IsTheOutcome
<1>5. CASE world.command = "config-deploy"
  <2>1. deployAt = "over" /\ code'["first"] = CodeOf(deployAnswer)
    BY <1>1, <1>5 DEF MayGoOn
  <2> QED BY <1>1, <1>2, <1>3, <1>5, <2>1, DeployGivesItsCode DEF IsTheOutcome
<1>6. CASE world.command \notin {"install-shortcut", "config-deploy"}
  BY <1>1, <1>2, <1>3, <1>6 DEF IsTheOutcome
<1> QED BY <1>4, <1>5, <1>6

\* Whoever leaves a view, or with the answer of its copy, had not given up.
LEMMA ViewIsLeftAsDone ==
  ASSUME OutcomeInv, at["first"] \in {"reading", "view", "relaunched"}, NEW c, c # ForABug
  PROVE  IsTheOutcome(c)
<1>1. world.command \in Views
  BY DEF OutcomeInv, ViewsGoTheirWay, OnTheWay, Runs
<1>2. logAt # "raised" /\ answer # "aborted"
  BY DEF OutcomeInv, PartsInTurn, ReadyToLog, Here, AtItsEnd
<1> QED BY <1>1, <1>2 DEF IsTheOutcome, Views

\* The code the first run is left with stays the one its parts came to.
LEMMA OutcomeStays ==
  ASSUME OutcomeInv, [SessionNext]_sessionVars
  PROVE  OutcomeAtTheEnd'
<1> USE DEF OutcomeInv, PartsInv, StartInv
<1> DEFINE still == at'["first"] = at["first"] /\ code'["first"] = code["first"] /\ world' = world
<1>1. ASSUME still, UNCHANGED <<logVars, offerVars, deployVars>>
      PROVE  OutcomeAtTheEnd'
  BY <1>1 DEF OutcomeAtTheEnd, IsTheOutcome, logVars, offerVars, deployVars
<1>2. ASSUME at["first"] \notin AtItsEnd, still
      PROVE  OutcomeAtTheEnd'
  BY <1>2 DEF OutcomeAtTheEnd
<1>3. ASSUME NEW r \in Runs, RunGoesOn(r)
      PROVE  OutcomeAtTheEnd'
  <2>1. WayOut(r) /\ OthersStandStill(r)
    BY <1>3, StepOfARun DEF RunGoesOn
  <2>2. UNCHANGED <<logVars, offerVars, deployVars>>
    BY <1>3 DEF RunGoesOn
  <2>3. CASE r = "copy"
    BY <1>1, <2>1, <2>2, <2>3 DEF OthersStandStill, Runs
  <2>4. CASE r = "first"
    <3> SUFFICES ASSUME at'["first"] \in AtItsEnd,
                        code'["first"] \notin {ExitCode.SIGNAL_INT, ExitCode.USAGE_ERROR}
                 PROVE  IsTheOutcome(code["first"])'
      BY DEF OutcomeAtTheEnd
    <3>1. IsTheOutcome(code'["first"])
      <4>1. CASE at["first"] \in AtItsEnd /\ code'["first"] = code["first"]
        BY <4>1 DEF OutcomeAtTheEnd
      <4>2. CASE at["first"] \in {"reading", "view"} /\ code'["first"] \in PageCodes
        BY <4>2, CodesOfAPage, ViewIsLeftAsDone
      <4>3. CASE Here("first", "relaunched") /\ code'["first"] = ExitStatus(code["copy"])
        <5>1. code["copy"] \in Codes \cup {0 - Signal} /\ code["copy"] # ForABug
          BY DEF StartTypeOK, Runs, PartsInTurn
        <5>2. ExitStatus(code["copy"]) # ForABug
          BY <5>1, CodesOfAPage
        <5> QED BY <4>3, <5>2, ViewIsLeftAsDone DEF Here
      <4>4. CASE Here("first", "page") /\ code'["first"] \in PageCodes
        BY <1>3, <2>4, <4>4, PageIsLeftAsDone
      <4> QED BY <2>1, <2>4, <4>1, <4>2, <4>3, <4>4 DEF WayOut
    <3> QED BY <2>1, <2>2, <3>1 DEF OthersStandStill, IsTheOutcome, logVars, offerVars, deployVars
  <2> QED BY <2>3, <2>4 DEF Runs
<1>4. CASE Interrupted
  <2>1. UNCHANGED <<logVars, offerVars, deployVars>>
    BY <1>4 DEF Interrupted
  <2>2. ASSUME NEW r \in Runs, PressCtrlC(r)
        PROVE  OutcomeAtTheEnd'
    <3>1. still \/ code'["first"] = ExitCode.SIGNAL_INT
      BY <2>2, InterruptedOrHeld DEF OthersStandStill, Runs
    <3> QED BY <1>1, <2>1, <3>1 DEF OutcomeAtTheEnd
  <2>3. CASE KillCopy
    BY <1>1, <2>1, <2>3, KilledAlone
  <2> QED BY <1>4, <2>2, <2>3 DEF Interrupted
<1>5. CASE GivenUp
  <2>1. code'["first"] = ForABug /\ world' = world /\ (logAt = "raised" \/ answer = "aborted")
    BY <1>5 DEF GivenUp, Leave, given, StartTypeOK, Runs
  <2>2. UNCHANGED <<logAt, answer>> /\ ForABug # ExitCode.SUCCESS
    BY <1>5 DEF GivenUp, logVars, offerVars, ForABug, ExitCode
  <2> QED BY <2>1, <2>2 DEF OutcomeAtTheEnd, IsTheOutcome
<1>6. CASE StartTheLogging \/ OfferGoesOn \/ DeployGoesOn
  BY <1>2, <1>6 DEF StartTheLogging, OfferGoesOn, DeployGoesOn, startVars, ReadyToLog, OfferHasTheTerminal,
     DeployHasTheTerminal, Here, AtItsEnd
<1>7. CASE ViewGoesOn \/ KeyPressed \/ UNCHANGED sessionVars
  BY <1>1, <1>7 DEF ViewGoesOn, KeyPressed, sessionVars, startVars
<1> QED BY <1>3, <1>4, <1>5, <1>6, <1>7 DEF SessionNext

\* The whole holds where a session begins.
LEMMA SessionBeginsInOrder ==
  ASSUME SessionInit
  PROVE  OutcomeInv
<1>1. PartsInv /\ AskerFits
  BY EveryPartBegins, StartsInOrder, OfferStartsInOrder, LoggingStartsInOrder, DeployStartsInOrder
     DEF PartsInv, SessionInit, StartScene, LoggingScene, OfferScene, DeployScene, ViewScene, PlainOffer
<1>2. /\ at = [r \in Runs |-> IF r = "first" THEN "entry" ELSE "absent"]
      /\ code = [r \in Runs |-> Unset] /\ logAt = "configured" /\ offerAt = "start"
      /\ answer = "unanswered" /\ deployAt = "begin"
  BY EveryPartBegins DEF StartInit, OfferInit, LoggingInit, DeploymentInit
<1>3. ViewsGoTheirWay /\ CommandsAnswer /\ OutcomeAtTheEnd
  BY <1>2 DEF ViewsGoTheirWay, OnTheWay, CommandsAnswer, OutcomeAtTheEnd, AtItsEnd, Runs
<1>4. PartsInTurn
  BY <1>1, <1>2, CodesOfAPage DEF PartsInTurn, Runs
<1> QED BY <1>1, <1>3, <1>4 DEF OutcomeInv

\* Every step of a session keeps the whole.
LEMMA SessionStaysInOrder ==
  ASSUME OutcomeInv, [SessionNext]_sessionVars
  PROVE  OutcomeInv'
<1>1. PartsInv'
  BY SessionKeepsTheStart, OfferInSession, OfferStepKeeps, OfferStillInOrder, LoggingInSession,
     LoggingStepKeeps, DeployInSession, DeployStepKeeps, DeployStillInOrder DEF OutcomeInv, PartsInv
<1>2. ViewsGoTheirWay'
  BY ViewsStayOnTheirWay DEF OutcomeInv, PartsInv, StartInv
<1>3. CommandsAnswer'
  BY CommandsStillAnswer DEF OutcomeInv, PartsInv, OfferInv
<1> QED BY <1>1, <1>2, <1>3, PartsStayInTurn, OutcomeStays DEF OutcomeInv

\* A run that is over is at its end.
LEMMA OverIsTheEnd == OutcomeAtTheEnd => OutcomeIsTheExitCode
BY DEF OutcomeAtTheEnd, OutcomeIsTheExitCode, IsTheOutcome, AtItsEnd

\* exit_codes.py, main.py: for every start of the logging, shortcut and deploy, a run nobody
\* interrupted leaves with the code of what it did, and with a bug's only where there was one.
THEOREM CodeIsTheOutcome == SessionSpec => []OutcomeIsTheExitCode
<1>1. SessionInit => OutcomeInv
  BY SessionBeginsInOrder
<1>2. OutcomeInv /\ [SessionNext]_sessionVars => OutcomeInv'
  BY SessionStaysInOrder
<1>3. OutcomeInv => OutcomeIsTheExitCode
  BY OverIsTheEnd DEF OutcomeInv
<1> QED BY <1>1, <1>2, <1>3, PTL DEF SessionSpec

-----------------------------------------------------------------------------
(* The view, and the whole                                                 *)

\* The view takes its own steps, or stands still.
LEMMA ViewInSession ==
  ASSUME [SessionNext]_sessionVars
  PROVE  [ViewNext]_viewVars
BY DEF SessionNext, sessionVars, RunGoesOn, Interrupted, StartTheLogging, GivenUp, OfferGoesOn,
       DeployGoesOn, ViewGoesOn, KeyPressed, ViewNext

\* tui/app.py, long_page.py: in a session as well, one machine is on one screen at rest.
THEOREM OneMachineInSession == SessionSpec => []ScreenAgrees
<1>1. SessionInit => ViewInv
  BY EveryPartBegins, ViewStartsInOrder
<1>2. ViewInv /\ [SessionNext]_sessionVars => ViewInv'
  BY ViewInSession, ViewStepKeeps
<1>3. ViewInv => ScreenAgrees
  BY ViewInvAgrees
<1> QED BY <1>1, <1>2, <1>3, PTL DEF SessionSpec

\* What is kept of the whole: the outcome's invariant with the view's, and with the
\* refusals of the logging, which are of settings and variables there are.
WholeInv == OutcomeInv /\ ViewInv /\ RefusalsAreKnown

\* The whole holds where a session begins, and every step keeps it.
LEMMA WholeIsKept ==
  /\ SessionInit => WholeInv
  /\ WholeInv /\ [SessionNext]_sessionVars => WholeInv'
<1>1. SessionInit => WholeInv
  BY SessionBeginsInOrder, EveryPartBegins, ViewStartsInOrder, NothingRefusedYet DEF WholeInv
<1>2. ASSUME WholeInv, [SessionNext]_sessionVars PROVE WholeInv'
  <2>1. OutcomeInv'
    BY <1>2, SessionStaysInOrder DEF WholeInv
  <2>2. ViewInv'
    BY <1>2, ViewInSession, ViewStepKeeps DEF WholeInv
  <2>3. RefusalsAreKnown'
    BY <1>2, LoggingInSession, RefusalsStayKnown DEF WholeInv, OutcomeInv, PartsInv
  <2> QED BY <2>1, <2>2, <2>3 DEF WholeInv
<1> QED BY <1>1, <1>2

\* Each part of the session has its type, and the code is the outcome.
LEMMA WholeIsInOrder == WholeInv => SessionIsInOrder
<1> SUFFICES ASSUME WholeInv PROVE SessionIsInOrder
  OBVIOUS
<1>1. StartTypeOK /\ OfferTypeOK /\ DeployTypeOK
  BY DEF WholeInv, OutcomeInv, PartsInv, StartInv, OfferInv, DeployInv
<1>2. LoggingTypeOK
  BY LoggingIsTyped DEF WholeInv, OutcomeInv, PartsInv
<1>3. ViewTypeOK
  BY ViewInvIsTyped DEF WholeInv
<1>4. OutcomeIsTheExitCode
  BY OverIsTheEnd DEF WholeInv, OutcomeInv
<1> QED BY <1>1, <1>2, <1>3, <1>4 DEF SessionIsInOrder, SessionTypeOK

\* main.py and all it starts: whatever is asked, refused, offered, deployed, shown or
\* interrupted, every part of the session keeps to its type and the first run leaves with
\* the code of what it did.
THEOREM SessionStaysAsPromised == SessionSpec => []SessionIsInOrder
<1>1. SessionInit => WholeInv
  BY WholeIsKept
<1>2. WholeInv /\ [SessionNext]_sessionVars => WholeInv'
  BY WholeIsKept
<1>3. WholeInv => SessionIsInOrder
  BY WholeIsInOrder
<1> QED BY <1>1, <1>2, <1>3, PTL DEF SessionSpec
=============================================================================
