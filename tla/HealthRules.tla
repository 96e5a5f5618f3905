---------------------------- MODULE HealthRules ----------------------------
(***************************************************************************)
(* What a drive's own counters are worth saying, what its recorded history *)
(* does to how urgently it is said, and the order and the exit code a      *)
(* machine's findings come out in.                                         *)
(***************************************************************************)
EXTENDS Readings

CONSTANTS
  Urgencies,   \* how the findings of a small machine may be graded
  Subjects,    \* what they may be about: positions in the alphabet
  MaxFindings  \* bound: findings of one machine

ASSUME FindingsAreGraded ==
  /\ Urgencies \subseteq {"critical", "warning", "hint"} /\ Subjects \subseteq Int
  /\ MaxFindings \in Nat

\* From most to least urgent.
SeverityRanking == <<"critical", "warning", "hint">>
Rank(severity) == CHOOSE i \in 1..3 : SeverityRanking[i] = severity

\* Slip: one before the first is the last, as an index of -1 is.
SlipOneStep(severity, up) ==
  SeverityRanking[IF up THEN (IF Rank(severity) = 1 THEN 3 ELSE Rank(severity) - 1)
                        ELSE Min({Rank(severity) + 1, 3})]

\* One step towards or away from urgent, the ends staying where they are.
OneStepInSeverity(severity, up) ==
  SeverityRanking[IF up THEN Max({Rank(severity) - 1, 1}) ELSE Min({Rank(severity) + 1, 3})]

\* Slip: a count that has not moved is taken for a fault that is over, whether or
\* not it would have been expected to move by now.
SlipRefined(severity, trend) ==
  CASE trend = "rising" -> OneStepInSeverity(severity, TRUE)
    [] trend \in {"quiet", "untold"} -> OneStepInSeverity(severity, FALSE)

\* trend: "rising", "quiet", or "untold" where the history has nothing to say.
Refined(severity, trend) ==
  CASE trend = "rising" -> OneStepInSeverity(severity, TRUE)
    [] trend = "quiet"  -> OneStepInSeverity(severity, FALSE)
    [] OTHER            -> severity

\* A drive's counters are [ok, failing, used, reallocated, pending, uncorrectable,
\* media, crc, slow, temperature, warm, hot]; h says what each counter has done.
Thresholds == [wearWarning |-> 80, wearCritical |-> 95, crc |-> 100, mixedFirmware |-> 2]

Counted(about, count, severity, h) ==
  IF count \in {NotRead, 0} THEN <<>>
  ELSE <<[about |-> about, severity |-> Refined(severity, h[about])]>>

SelftestFindings(d) ==
  IF d.ok = "failed" THEN <<[about |-> "self-assessment", severity |-> "critical"]>> ELSE <<>>

AttributeFindings(d) ==
  IF d.failing > 0 THEN <<[about |-> "attributes", severity |-> "critical"]>> ELSE <<>>

WearFindings(d) ==
  IF d.used < Thresholds.wearWarning THEN <<>>
  ELSE <<[about |-> "wear", severity |-> IF d.used >= Thresholds.wearCritical THEN "critical" ELSE "warning"]>>

SectorFindings(d, h) ==
  Counted("reallocated", d.reallocated, "warning", h)
    \o Counted("pending", d.pending, "critical", h)
    \o Counted("uncorrectable", d.uncorrectable, "critical", h)
    \o Counted("media", d.media, "warning", h)

CrcFindings(d, h) ==
  Counted("crc", d.crc, IF d.crc < Thresholds.crc /\ ~d.slow THEN "hint" ELSE "warning", h)

\* Slip: the critical limit is asked for only once the warning one is passed.
SlipTemperatureFindings(d) ==
  IF d.warm = NotRead \/ d.temperature < d.warm THEN <<>>
  ELSE <<[about |-> "temperature",
          severity |-> IF d.hot # NotRead /\ d.temperature >= d.hot THEN "critical" ELSE "warning"]>>

TemperatureFindings(d) ==
  IF d.temperature = NotRead THEN <<>>
  ELSE IF d.hot # NotRead /\ d.temperature >= d.hot
       THEN <<[about |-> "temperature", severity |-> "critical"]>>
  ELSE IF d.warm # NotRead /\ d.temperature >= d.warm
       THEN <<[about |-> "temperature", severity |-> "warning"]>>
  ELSE <<>>

DiagnoseHealth(d, h) ==
  SelftestFindings(d) \o AttributeFindings(d) \o WearFindings(d)
    \o SectorFindings(d, h) \o CrcFindings(d, h) \o TemperatureFindings(d)

\* Slip: a revision nobody could read is one of the revisions.
SlipRevisionsOf(drives, model) == {d.firmware : d \in {x \in drives : x.model = model}}

RevisionsOf(drives, model) == {d.firmware : d \in {x \in drives : x.model = model}} \ {""}

\* The models whose drives run more than one revision.
DiagnoseFirmwareConsistency(drives) ==
  {m \in {d.model : d \in drives} :
     Cardinality(RevisionsOf(drives, m)) >= Thresholds.mixedFirmware}

-----------------------------------------------------------------------------
(* All findings of a machine: [severity, subject, physical], in the order  *)
(* the rules found them; physical says a rule judged a link with them.     *)

\* Slip: the links of a virtual machine's made-up hardware are judged as well.
SlipJudged(found, physical) == found

\* A virtual machine's links are what its host made up, and are not judged.
Judged(found, physical) == At(found, {k \in DOMAIN found : physical \/ ~found[k].physical})

\* Slip: by how they are spelled, which puts hint before warning.
SlipBefore(f, g) ==
  LET spelled == [critical |-> 1, hint |-> 2, warning |-> 3]
  IN  \/ spelled[f.severity] < spelled[g.severity]
      \/ f.severity = g.severity /\ f.subject < g.subject

Before(f, g) == Rank(f.severity) < Rank(g.severity) \/ (f.severity = g.severity /\ f.subject < g.subject)

\* Sorted, findings that compare alike staying in the order they were found.
Ahead(all, j, k) == Before(all[j], all[k]) \/ (j <= k /\ ~Before(all[k], all[j]))

Diagnose(found, physical) ==
  LET all   == Judged(found, physical)
      place == [k \in DOMAIN all |-> Cardinality({j \in DOMAIN all : Ahead(all, j, k)})]
      at    == [i \in DOMAIN all |-> CHOOSE k \in DOMAIN all : place[k] = i]
  IN  [i \in DOMAIN all |-> all[at[i]]]

CountBySeverity(findings) ==
  [s \in Range(SeverityRanking) |-> Cardinality({i \in DOMAIN findings : findings[i].severity = s})]

\* A hint is nothing to act on: the exit code is a failure from a warning on.
ExitCodeFor(findings) ==
  LET counts == CountBySeverity(findings)
  IN  IF counts["critical"] + counts["warning"] > 0 THEN 1 ELSE 0

-----------------------------------------------------------------------------

Counters == {NotRead, 0, 5, 100}
Healthy  == [ok |-> "unread", failing |-> 0, used |-> NotRead, reallocated |-> NotRead,
             pending |-> NotRead, uncorrectable |-> NotRead, media |-> NotRead, crc |-> NotRead,
             slow |-> FALSE, temperature |-> NotRead, warm |-> NotRead, hot |-> NotRead]

\* A drive with something to say of one of its organs, or of two sharing a fault.
WithSectors(r, p)    == [Healthy EXCEPT !.reallocated = r, !.pending = p]
WithErrors(c, s, m)  == [Healthy EXCEPT !.crc = c, !.slow = s, !.media = m]
WithWear(t, w, x, u) == [Healthy EXCEPT !.temperature = t, !.warm = w, !.hot = x, !.used = u]
WithATest(o, f, c)   == [Healthy EXCEPT !.ok = o, !.failing = f, !.uncorrectable = c]

Drives ==
  {WithSectors(r, p) : r \in Counters, p \in Counters}
  \cup {WithErrors(c, s, m) : c \in Counters \cup {99}, s \in BOOLEAN, m \in Counters}
  \cup {WithWear(t, w, x, u) :
          t \in {NotRead, 50, 60, 70}, w \in {NotRead, 60}, x \in {NotRead, 60, 70},
          u \in {NotRead, 79, 80, 94, 95}}
  \cup {WithATest(o, f, c) : o \in {"unread", "passed", "failed"}, f \in 0..1, c \in Counters}

HistoryKinds == {"reallocated", "pending", "uncorrectable", "media", "crc"}
Histories == {[k \in HistoryKinds |-> t] : t \in {"rising", "quiet", "untold"}}

AskAboutDrives == \E d \in Drives : Ask("health", d)

AskAboutMachines == Ask("findings", <<>>)

AskAboutFirmware ==
  \E drives \in SUBSET [model : {"m", "n"}, firmware : {"", "1", "2"}] : Ask("firmware", drives)

ARuleFinds ==
  /\ topic = "findings" /\ Len(input) < MaxFindings
  /\ \E s \in Urgencies, about \in Subjects, p \in BOOLEAN :
       Build("findings", Append(input, [severity |-> s, subject |-> about, physical |-> p]))

-----------------------------------------------------------------------------

\* What is said of one organ of a drive, least urgent where nothing is.
RankOf(d, h, about) ==
  LET said == {f \in Range(DiagnoseHealth(d, h)) : f.about = about}
  IN  IF said = {} THEN 4 ELSE Min({Rank(f.severity) : f \in said})

\* No reading of the one is better than that of the other, and the limits are alike.
NoBetter(d, e) ==
  /\ \A f \in {"reallocated", "pending", "uncorrectable", "media", "crc", "temperature", "used", "failing"} :
       e[f] >= d[f]
  /\ e.warm = d.warm /\ e.hot = d.hot /\ (d.slow => e.slow) /\ (d.ok = "failed" => e.ok = "failed")

\* A worse reading is never spoken of more mildly, and neither is a count that is
\* still rising compared with one that has stopped or one nothing is known of.
WorseIsNeverMilder ==
  topic = "health" =>
    \A h \in Histories : \A about \in HistoryKinds \cup {"wear", "temperature", "attributes"} :
      /\ \A e \in Drives : NoBetter(input, e) => RankOf(e, h, about) <= RankOf(input, h, about)
      /\ RankOf(input, [k \in HistoryKinds |-> "rising"], about) <= RankOf(input, h, about)
      /\ RankOf(input, h, about) <= RankOf(input, [k \in HistoryKinds |-> "quiet"], about)

\* Only a history that shows a fault to be over may make lsdsk milder about it, and
\* none makes it silent: what a drive reports of itself is still said, and the limits
\* its maker published are the ones it is held to.
OnlyAQuietHistoryCalms ==
  topic = "health" =>
    LET plain == [k \in HistoryKinds |-> "untold"]
        bare(h) == {f.about : f \in Range(DiagnoseHealth(input, h))}
    IN  /\ \A h \in Histories : bare(h) = bare(plain)
        /\ \A about \in {"pending", "uncorrectable"} :
             input[about] > 0 => RankOf(input, plain, about) = 1
        /\ input.temperature # NotRead /\ input.hot # NotRead /\ input.temperature >= input.hot =>
             \A h \in Histories : RankOf(input, h, "temperature") = 1

\* The first line of the findings is the worst of them and alone decides the exit
\* code; nothing is lost on the way there, except what a virtual machine made up.
FirstLineDecidesTheExit ==
  topic = "findings" =>
    \A physical \in BOOLEAN :
      LET out == Diagnose(input, physical)
          kept == {k \in DOMAIN input : physical \/ ~input[k].physical}
      IN  /\ Len(out) = Cardinality(kept)
          /\ \A f \in Range(out) : Cardinality({k \in kept : input[k] = f})
                                     = Cardinality({i \in DOMAIN out : out[i] = f})
          /\ ExitCodeFor(out) = IF out # <<>> /\ out[1].severity \in {"critical", "warning"} THEN 1 ELSE 0
          /\ ~physical => \A f \in Range(out) : ~f.physical

\* Drives of which the firmware could not be read are never what makes a fleet mixed.
UnreadFirmwareMixesNothing ==
  topic = "firmware" =>
    DiagnoseFirmwareConsistency(input) =
      DiagnoseFirmwareConsistency({d \in input : d.firmware # ""})
=============================================================================
