----------------------------- MODULE Deployment -----------------------------
(***************************************************************************)
(* config-deploy: the shipped files are copied into the layers asked for,  *)
(* file by file by the configuration library, which skips what is there;   *)
(* afterwards the run says which files it wrote and which value of a kept  *)
(* file one of them now overrides.  Followed for one key, over two files   *)
(* of each layer: config.toml and a companion in config.d.                 *)
(***************************************************************************)
EXTENDS Naturals, Sequences, SequencesExt

CONSTANTS
  Layers        \* the layers a deploy may write, lowest first

ASSUME LayersAreNamed == Layers \in Seq(STRING) /\ "packaged" \notin ToSet(Layers)

FileNames == <<"config.toml", "config.d">>
ConfigFiles == {<<l, k>> : l \in ToSet(Layers), k \in ToSet(FileNames)}
Packaged == <<"packaged", "config.toml">>

\* A file: none, a directory, one that does not parse, the shipped copy, one of
\* the reader's that sets the key, and one that does not.
Contents == {"none", "directory", "broken", "shipped", "own", "silent"}

VARIABLES
  files, found,  \* what stands at each path; and what stood there at the start
  ships,         \* the shipped file that sets the key
  request,       \* the targets and --force
  deployAt,      \* where the command is
  todo,          \* the files the library has still to look at
  results,       \* what the library did at each path
  before,        \* what decided the key before the deploy, as the run read it
  warned,        \* the files whose value was said to be overridden
  reported,      \* the files said to be written
  deployAnswer   \* the exit code

deployAsked == <<ships, request, found>>
deployVars == <<files, found, ships, request, deployAt, todo, results, before, warned, reported,
                deployAnswer>>

Unread == "unread"
Actions == {"created", "overwritten", "skipped"}
DeployAnswers == {"unanswered", "SUCCESS", "PERMISSION_DENIED", "IO_ERROR", "CONFIG_ERROR", "INVALID_ARGUMENT"}

DeployTypeOK ==
  /\ files \in [ConfigFiles -> Contents] /\ found \in [ConfigFiles -> Contents]
  /\ deployAt \in {"begin", "writing", "directories", "report", "over"}
  /\ request.targets \subseteq ToSet(Layers) /\ todo \subseteq ConfigFiles
  /\ DOMAIN results \subseteq ConfigFiles /\ todo \cap DOMAIN results = {}
  /\ warned \subseteq ConfigFiles /\ reported \subseteq ConfigFiles
  /\ deployAnswer \in DeployAnswers

-----------------------------------------------------------------------------
(* What the files decide                                                   *)

Value(f, standing) ==
  CASE standing = "own" -> "own"
    [] standing = "shipped" /\ f[2] = ships -> "shipped"
    [] OTHER -> "none"

\* The files in the order they are read; the last that sets the key wins.
Order == [i \in 1..2 * Len(Layers) |-> <<Layers[(i + 1) \div 2], FileNames[IF i % 2 = 1 THEN 1 ELSE 2]>>]
Setting(fs) == {i \in DOMAIN Order : Value(Order[i], fs[Order[i]]) # "none"}
Origin(fs) == IF Setting(fs) = {} THEN Packaged
              ELSE Order[Max(Setting(fs))]
Decides(fs) == [from |-> Origin(fs),
                value |-> IF Origin(fs) = Packaged THEN "shipped" ELSE Value(Origin(fs), fs[Origin(fs)])]

Loads(fs) == \A f \in ConfigFiles : fs[f] # "broken"
ReadConfigNow(fs) == IF Loads(fs) THEN Decides(fs) ELSE [from |-> Packaged, value |-> Unread]

-----------------------------------------------------------------------------
(* The deploy                                                              *)

Give(c) == deployAnswer' = c /\ deployAt' = "over"

\* A mode the library refuses is refused before anything is written.
BeginDeploy ==
  /\ deployAt = "begin"
  /\ before' = ReadConfigNow(files)
  /\ todo' = {f \in ConfigFiles : f[1] \in request.targets}
  /\ \/ deployAt' = "writing" /\ UNCHANGED deployAnswer
     \/ Give("INVALID_ARGUMENT")
  /\ UNCHANGED <<deployAsked, files, results, warned, reported>>

SlipAlwaysForce(f) ==
  IF files[f] = "none" THEN "created"
  ELSE IF files[f] \in {"directory", "shipped"} THEN "skipped" ELSE "overwritten"

\* A byte-for-byte copy of the shipped file is left as it is, --force or not.
ActionAt(f) ==
  IF files[f] = "none" THEN "created"
  ELSE IF files[f] \in {"directory", "shipped"} \/ ~request.force THEN "skipped"
  ELSE "overwritten"

Written(rs) == {f \in DOMAIN rs : rs[f] \in {"created", "overwritten"}}

\* The library looks at the files in their order.
IsNext(f) == \E i \in DOMAIN Order : f = Order[i] /\ \A j \in 1..i - 1 : Order[j] \notin todo

DeployNext ==
  /\ deployAt = "writing"
  /\ \E f \in todo :
       /\ IsNext(f)
       /\ results' = [g \in DOMAIN results \cup {f} |-> IF g = f THEN ActionAt(f) ELSE results[g]]
       /\ files' = IF f \in Written(results') THEN [files EXCEPT ![f] = "shipped"] ELSE files
       /\ todo' = todo \ {f}
  /\ UNCHANGED <<deployAsked, deployAt, before, warned, reported, deployAnswer>>

\* One of the files cannot be written: those before it are, and are not named.
DeployFails ==
  /\ deployAt = "writing" /\ \E f \in todo : IsNext(f) /\ ActionAt(f) # "skipped"
  /\ Give("PERMISSION_DENIED") \/ Give("IO_ERROR")
  /\ UNCHANGED <<deployAsked, files, todo, results, before, warned, reported>>

SlipNoDirectoryCheck ==
  /\ deployAt = "writing" /\ todo = {}
  /\ deployAt' = "report"
  /\ UNCHANGED <<deployAsked, files, todo, results, before, warned, reported, deployAnswer>>

\* A directory where config.toml belongs, which the library has skipped.
LookForDirectories ==
  /\ deployAt = "writing" /\ todo = {}
  /\ IF \E f \in DOMAIN results : f[2] = "config.toml" /\ files[f] = "directory"
       THEN Give("CONFIG_ERROR")
       ELSE deployAt' = "report" /\ UNCHANGED deployAnswer
  /\ UNCHANGED <<deployAsked, files, todo, results, before, warned, reported>>

SlipShadowsAnyLayer(b, a) ==
  IF b.value # a.value /\ a.from \in Written(results) THEN {b.from} ELSE {}
SlipShadowsTheRewritten(b, a) ==
  IF b.value # a.value /\ a.from[1] = b.from[1] /\ b.from # Packaged /\ a.from \in Written(results)
     /\ results[a.from] = "overwritten"
    THEN {b.from} ELSE {}

\* values_the_deploy_shadows: the deciding file changed to one just written, in
\* the layer of one that was not.
Shadows(b, a) ==
  IF /\ b.value # a.value /\ a.from[1] = b.from[1]
     /\ a.from \in Written(results) /\ b.from \notin Written(results)
    THEN {b.from} ELSE {}

SlipReportTheMain == {f \in Written(results) : f[2] = "config.toml"}
Reported == Written(results)

ReportDeployment ==
  /\ deployAt = "report"
  /\ warned' = IF before.value = Unread \/ Written(results) = {} \/ ~Loads(files) THEN {}
               ELSE Shadows(before, Decides(files))
  /\ reported' = Reported
  /\ Give("SUCCESS")
  /\ UNCHANGED <<deployAsked, files, todo, results, before>>

DeploymentInit ==
  /\ files \in [ConfigFiles -> Contents] /\ found = files
  /\ ships \in ToSet(FileNames)
  /\ request \in [targets : SUBSET ToSet(Layers) \ {{}}, force : BOOLEAN]
  /\ deployAt = "begin" /\ todo = {} /\ results = [f \in {} |-> "skipped"]
  /\ before = [from |-> Packaged, value |-> Unread]
  /\ warned = {} /\ reported = {} /\ deployAnswer = "unanswered"

DeploymentNext ==
  \/ BeginDeploy \/ DeployNext \/ DeployFails \/ LookForDirectories \/ ReportDeployment

DeploymentSpec == DeploymentInit /\ [][DeploymentNext]_deployVars

-----------------------------------------------------------------------------
(* What must hold                                                          *)

\* Without --force nothing that stood somewhere is touched, and with it nothing
\* outside the layers asked for, whichever file fails.
OthersFilesAreKept ==
  \A f \in ConfigFiles :
    files[f] # found[f] => f[1] \in request.targets /\ (found[f] = "none" \/ request.force)

\* A deploy that reports success has named exactly the files it changed, and
\* config.toml is a file in every layer that was asked for.
SuccessIsAsReported ==
  deployAnswer = "SUCCESS" =>
    /\ reported = {f \in ConfigFiles : files[f] # found[f]}
    /\ \A l \in request.targets : files[<<l, "config.toml">>] \notin {"none", "directory"}

\* A value a kept file sets does not lose its effect without a word: where a
\* file of its own layer decides instead, it was named; and what was named is
\* still there, and no longer decides.
NoSilentOverride ==
  deployAnswer = "SUCCESS" /\ Loads(found) =>
    LET b == Decides(found)   a == Decides(files)
    IN  /\ b.from # Packaged /\ b.value # a.value /\ a.from[1] = b.from[1] /\ files[b.from] = found[b.from]
             => b.from \in warned
        /\ \A f \in warned : f = b.from /\ files[f] = found[f] /\ a.value # b.value

\* What is reported of a deployment is what became of the files, whichever of them
\* could not be written: written, kept, and no longer deciding.
DeploymentIsAsReported == OthersFilesAreKept /\ SuccessIsAsReported /\ NoSilentOverride
=============================================================================
