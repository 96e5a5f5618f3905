---------------------------- MODULE ConfigLayers ----------------------------
(***************************************************************************)
(* How lsdsk puts its configuration together.  A table is a function from  *)
(* the paths of its leaves to the layer that gave each; a table without    *)
(* keys is a leaf too, given by nobody the provenance knows.  What a leaf   *)
(* holds is its layer: one layer gives one path one value.                 *)
(***************************************************************************)
EXTENDS Readings, Functions

CONSTANTS
  Keys,       \* that a table may have
  MaxLeaves,  \* bound: leaves of all layers together
  MaxSets     \* bound: --set options of one command line

KeyPaths  == UNION {[1..n -> Keys] : n \in 1..2}
Files  == <<"shipped", "user">>
Layers == <<"shipped", "user", "dotenv", "env">>
NoKeys == "no keys"

Beneath(p, q) == q # p /\ IsPrefix(q, p)
NoTable == [p \in {} |-> NoKeys]
Leaf(p, given) == [q \in {p} |-> given]

\* All the leaves of one table, and those of another that it does not have.
Over(upper, lower) ==
  [p \in DOMAIN upper \cup DOMAIN lower |-> IF p \in DOMAIN upper THEN upper[p] ELSE lower[p]]

Near(p, q) == p = q \/ Beneath(p, q) \/ Beneath(q, p)

\* A table holds no leaf inside another.
IsTable(t) == \A p, q \in DOMAIN t : ~Beneath(p, q)

-----------------------------------------------------------------------------
(* Merging.                                                                *)

\* Slip: tables are merged at the top level only.
SlipMerged(base, over) ==
  LET lost == {p \in DOMAIN base : \E q \in DOMAIN over : q[1] = p[1]}
  IN  Over(over, Restrict(base, DOMAIN base \ lost))

\* The upper table's leaves; of the lower one those that no leaf of the upper
\* one replaces or stands inside of.  A table without keys replaces no table.
Merged(base, over) ==
  LET over1 == Restrict(over, {q \in DOMAIN over :
                 ~(over[q] = NoKeys /\ \E p \in DOMAIN base : Beneath(p, q))})
      lost  == {p \in DOMAIN base : \E q \in DOMAIN over1 : Near(p, q)}
  IN  Over(over1, Restrict(base, DOMAIN base \ lost))

MergeLayers(tables) == FoldLeft(Merged, NoTable, tables)

\* The layer a leaf of a merged table is credited to.
Origin(table, p) == IF table[p] = NoKeys THEN "shipped" ELSE table[p]

\* The leaves of a table that one layer is credited with.
CreditedTo(table, layer) == Restrict(table, {p \in DOMAIN table : Origin(table, p) = layer})

\* Slip: what the environment gave is left among the files.
SlipBeneathTheEnvironment(config, dotenv) == MergeLayers(<<config, dotenv>>)

\* A merged configuration taken apart by origin, and put together again with the
\* dotenv file in its place.
BeneathTheEnvironment(config, dotenv) ==
  MergeLayers([k \in DOMAIN Files |-> CreditedTo(config, Files[k])]
              \o <<dotenv, CreditedTo(config, "env")>>)

\* What a run reads that must do without the files it is about to replace.
ReadRunConfigSkipping(tables) ==
  LET deployed == MergeLayers([k \in DOMAIN Files |-> tables[Files[k]]] \o <<tables["env"]>>)
  IN  IF tables["dotenv"] = NoTable THEN deployed
      ELSE BeneathTheEnvironment(deployed, tables["dotenv"])

-----------------------------------------------------------------------------
(* --set.  An override is [path, at]: at is <<>> for a value, or the path  *)
(* of the one leaf of the table it gives.                                  *)

\* Slip: only an override inside a later one is refused.
SlipDisagree(sets) == \E i, j \in DOMAIN sets : i < j /\ Beneath(sets[i].path, sets[j].path)

Disagree(sets) == \E i, j \in DOMAIN sets : Beneath(sets[i].path, sets[j].path)

\* Overrides of one path replace one another, the whole table where they give one.
Nest(table, s) ==
  Over(Leaf(s.path \o s.at, "cli"),
       Restrict(table, {p \in DOMAIN table : p # s.path /\ ~Beneath(p, s.path)}))

Nested(sets) == FoldLeft(Nest, NoTable, sets)

ApplyOverrides(config, sets) == Merged(config, Nested(sets))

\* Slip: every leaf keeps the origin the configuration gave it.
SlipCredit(config, sets, p) == IF p \in DOMAIN config THEN Origin(config, p) ELSE "nobody"

\* Who a leaf of the overridden configuration is credited to: the command line for
\* the very paths it named, else whoever gave that path before.
Credit(config, sets, p) ==
  IF \E k \in DOMAIN sets : sets[k].path = p THEN "cli"
  ELSE IF p \in DOMAIN config THEN Origin(config, p) ELSE "nobody"

-----------------------------------------------------------------------------
(* Reading a section.  A raw value is [type, n].                            *)

Largest == 1000000000

\* Slip: a truth value is a number.
SlipAccepts(kind, raw) ==
  CASE kind = "flag"    -> raw.type = "bool"
    [] kind = "percent" -> raw.type \in {"int", "bool"} /\ raw.n \in 1..100
    [] OTHER            -> raw.type \in {"int", "bool"} /\ raw.n \in 1..Largest

Accepts(kind, raw) ==
  CASE kind = "flag"         -> raw.type = "bool"
    [] kind = "percent"      -> raw.type = "int" /\ raw.n \in 1..100
    [] kind = "positive"     -> raw.type = "int" /\ raw.n \in 1..Largest
    [] kind = "real"         -> raw.type \in {"int", "float"} /\ raw.n \in 1..Largest
    [] kind = "density"      -> raw.type = "density"
    [] kind = "path"         -> raw.type \in {"text", "density", "int"}

Known == [flag |-> "flag", percent |-> "percent", positive |-> "positive",
          real |-> "real", density |-> "density", path |-> "path"]

Absent == [type |-> "absent", n |-> 0]

UnknownOwnedKeys(section) == DOMAIN section \ DOMAIN Known

\* What a section reads as: the raw value of each known key that is used, Absent
\* where the shipped one is, and the keys a warning names.  A section that is not
\* a table is one warning, for all of it.
ReadSection(section) ==
  LET raw(key) == IF key \in DOMAIN section THEN section[key] ELSE Absent
  IN  [used |-> [key \in DOMAIN Known |->
                   IF Accepts(Known[key], raw(key)) THEN raw(key) ELSE Absent],
       rejected |-> {key \in DOMAIN section \cap DOMAIN Known : ~Accepts(Known[key], section[key])},
       unknown |-> UnknownOwnedKeys(section)]

-----------------------------------------------------------------------------
(* Loading.  The files a load reads, in the order it reads them; each is    *)
(* fine, broken, or withheld: for want of permission or for another reason.  *)

ReadInOrder == <<"app", "host", "user", ".env">>

\* The answer of one load that skips these files: the first file that fails decides.
Load(state, skip) ==
  LET bad == {k \in DOMAIN ReadInOrder : ReadInOrder[k] \notin skip /\ state[ReadInOrder[k]] # "fine"}
  IN  IF bad = {} THEN "loaded"
      ELSE IF state[ReadInOrder[Min(bad)]] = "withheld" THEN "PERMISSION_DENIED" ELSE "CONFIG_ERROR"

UnparsableFiles(state, paths) == {f \in paths : state[f] = "broken"}

\* Slip: everything a forced deployment overwrites is skipped, readable or not.
SlipLoadProfileConfig(state, overwrites) ==
  [skipped |-> overwrites, answer |-> Load(state, overwrites)]

\* A forced deployment goes on past the broken files it is about to overwrite.
LoadProfileConfig(state, overwrites) ==
  LET first  == Load(state, {})
      broken == UnparsableFiles(state, overwrites)
  IN  IF first # "CONFIG_ERROR" \/ broken = {} THEN [skipped |-> {}, answer |-> first]
      ELSE [skipped |-> broken, answer |-> Load(state, broken)]

-----------------------------------------------------------------------------
(* The mode a deployment writes a file with.  Each layer of ModeLayers gives *)
(* one or does not; the deployment's own read leaves layers out.            *)

ModeLayers == <<"shipped", "app", "host", "user", "dotenv", "env", "cli">>
NoMode == 0

Winner(gives, layers) ==
  LET by == {k \in DOMAIN ModeLayers : ModeLayers[k] \in layers /\ gives[ModeLayers[k]] # NoMode}
  IN  IF by = {} THEN "nobody" ELSE ModeLayers[Max(by)]

\* Slip: only a file the deployment rewrites is named, not one it keeps.
SlipWhyIgnored(layer, key, written, kept) ==
  CASE layer = "dotenv" -> "not from a .env file"
    [] layer = "user" /\ key = "system" -> "not from a user file"
    [] layer \in written \ kept /\ ~(layer = "user" /\ key = "system") -> "rewritten"
    [] OTHER -> "used"

WhyIgnored(layer, key, written, kept) ==
  CASE layer = "dotenv" -> "not from a .env file"
    [] layer = "user" /\ key = "system" -> "not from a user file"
    [] layer \in kept /\ ~(layer = "user" /\ key = "system") -> "kept"
    [] layer \in written \ kept /\ ~(layer = "user" /\ key = "system") -> "rewritten"
    [] OTHER -> "used"

\* The layers a deployment reads the mode of a key from.
DeployReads(key, written) ==
  ToSet(ModeLayers) \ (written \cup {"dotenv", "cli"} \cup (IF key = "system" THEN {"user"} ELSE {}))

ModeOf(gives, layer) == IF layer = "nobody" THEN NoMode ELSE gives[layer]

\* Why the mode the run's configuration shows is not the one the deployment uses.
ModeTheDeployIgnores(gives, key, written, kept) ==
  LET shown == Winner(gives, ToSet(ModeLayers))
      used  == Winner(gives, DeployReads(key, written))
  IN  IF shown = "nobody" \/ ModeOf(gives, shown) = ModeOf(gives, used) THEN "used"
      ELSE WhyIgnored(shown, key, written, kept)

-----------------------------------------------------------------------------
(* What is asked.                                                          *)

RawValues == {[type |-> "int", n |-> n] : n \in {0, 1, 100, 101, Largest + 1}}
             \cup {[type |-> t, n |-> 1] : t \in {"bool", "text", "density", "table"}}
             \cup {[type |-> "float", n |-> 1]}

LayerFiles == {"app", "host", "user"}

AskAboutConfiguration ==
  \/ Ask("layers", [l \in ToSet(Layers) |-> NoTable])
  \/ Ask("overrides", [config |-> NoTable, sets |-> <<>>])
  \/ \E key \in DOMAIN Known, other \in {"none", "misspelt"}, raw \in RawValues :
       Ask("sections", [k \in {key} \cup (IF other = "none" THEN {} ELSE {"misspelt"}) |-> raw])
  \/ \E state \in [ToSet(ReadInOrder) -> {"fine", "broken", "withheld", "failed"}],
        overwrites \in SUBSET LayerFiles :
       Ask("loads", [state |-> state, overwrites |-> overwrites])
  \/ \E gives \in [ToSet(ModeLayers) -> {NoMode, 1, 2}], key \in {"system", "user"},
        written \in SUBSET LayerFiles :
       \E kept \in SUBSET written :
         Ask("modes", [gives |-> gives, key |-> key, written |-> written, kept |-> kept])

LeavesGiven(tables) == MapThenSumSet(LAMBDA l : Cardinality(DOMAIN tables[l]), DOMAIN tables)

\* Only a file can hold a table without keys.
GiveALeaf ==
  \/ /\ topic = "layers" /\ LeavesGiven(input) < MaxLeaves
     /\ \E l \in ToSet(Layers), p \in KeyPaths, none \in BOOLEAN :
          LET t == Over(Leaf(p, IF none THEN NoKeys ELSE l), input[l])
          IN  /\ none => l \in ToSet(Files)
              /\ p \notin DOMAIN input[l] /\ IsTable(t)
              /\ Build("layers", [input EXCEPT ![l] = t])
  \/ /\ topic = "overrides" /\ input.sets = <<>> /\ Cardinality(DOMAIN input.config) < MaxLeaves
     /\ \E p \in KeyPaths :
          LET t == Over(Leaf(p, "user"), input.config)
          IN  /\ p \notin DOMAIN input.config /\ IsTable(t)
              /\ Build("overrides", [input EXCEPT !.config = t])

GiveASet ==
  /\ topic = "overrides" /\ Len(input.sets) < MaxSets
  /\ \E p \in KeyPaths, at \in {<<>>} \cup {<<k>> : k \in Keys} :
       Build("overrides", [input EXCEPT !.sets = Append(@, [path |-> p, at |-> at])])

-----------------------------------------------------------------------------

\* Taking the merged configuration apart by who is credited with what, and putting
\* it together around the dotenv file, gives what reading every layer in order does.
SkippingKeepsTheOrder ==
  topic = "layers" =>
    ReadRunConfigSkipping(input) = MergeLayers([k \in DOMAIN Layers |-> input[Layers[k]]])

\* What the command line sets is in force, whatever the files make of the same
\* paths; nothing else is touched; and no leaf a file is credited with holds
\* another value than the file's, but inside a table given as one value.
SettingsTakeEffect ==
  topic = "overrides" /\ ~Disagree(input.sets) =>
    LET result == ApplyOverrides(input.config, input.sets)
        last(k) == \A j \in DOMAIN input.sets : j > k => input.sets[j].path # input.sets[k].path
        given  == {input.sets[k].path \o input.sets[k].at : k \in {i \in DOMAIN input.sets : last(i)}}
    IN  /\ IsTable(result)
        /\ {p \in DOMAIN result : result[p] = "cli"} = given
        /\ \A p \in DOMAIN input.config : (\A q \in given : ~Near(p, q)) => p \in DOMAIN result
        /\ \A p \in DOMAIN result :
             Credit(input.config, input.sets, p) \notin {result[p], "nobody"} =>
               \E k \in DOMAIN input.sets : input.sets[k].at # <<>> /\ Beneath(p, input.sets[k].path)

\* A value in a section lsdsk owns is used, or a warning names it; and no warning
\* names one that is used.
EveryInertValueIsSaid ==
  topic = "sections" =>
    LET r == ReadSection(input)
    IN  \A key \in DOMAIN input :
          \/ key \in DOMAIN Known /\ key \notin r.rejected \cup r.unknown /\ r.used[key] = input[key]
             /\ (input[key].type = "bool" => key = "flag")
          \/ key \in r.rejected \cup r.unknown /\ (key \in DOMAIN Known => r.used[key] = Absent)

\* A forced deployment is stopped by a file it cannot mend, and by no other; and
\* what it goes without is what it warns of: broken files it is about to overwrite.
ForcedDeployMendsWhatItCan ==
  topic = "loads" =>
    LET l == LoadProfileConfig(input.state, input.overwrites)
        mended == {f \in input.overwrites : input.state[f] = "broken"}
        bad    == {f \in DOMAIN input.state : input.state[f] # "fine"}
    IN  /\ l.answer = "loaded" <=> bad \subseteq mended
        /\ l.skipped \subseteq mended
        /\ l.answer = "PERMISSION_DENIED" => \E f \in bad \ mended : input.state[f] = "withheld"

\* Where the mode a deployment uses is not the one the configuration shows, the
\* reason is said; a mode that comes from the command line is the command line's.
NoModeIsIgnoredUnsaid ==
  topic = "modes" =>
    LET shown == Winner(input.gives, ToSet(ModeLayers))
        used  == Winner(input.gives, DeployReads(input.key, input.written))
        why   == ModeTheDeployIgnores(input.gives, input.key, input.written, input.kept)
    IN  shown \notin {"cli", "nobody"} =>
          /\ why = "used" <=> input.gives[shown] = ModeOf(input.gives, used)
          /\ why = "kept" => shown \in input.kept
          /\ why = "rewritten" => shown \in input.written \ input.kept
=============================================================================
