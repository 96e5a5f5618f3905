------------------------------- MODULE Snapshots -------------------------------
(***************************************************************************)
(* A snapshot: taken by a command that must not spoil what it writes it to, *)
(* kept as text that other programs may re-encode, and read back by this   *)
(* version or another.                                                     *)
(***************************************************************************)
EXTENDS Readings, Functions, ExitCodes

CONSTANTS
  MaxBytes,   \* size of the largest file that is read; 64 MiB in the source
  MaxTotal,   \* largest number a snapshot records; 2^64 - 1 in the source
  ExtentCap,  \* free extents that are counted, MAX_FREE_EXTENTS in the source
  Base,       \* what ordinals are written in; ten in the source
  MaxListed   \* bound: volumes of a machine, and extents of one

ASSUME SizesAreNatural == {MaxBytes, MaxTotal, ExtentCap, MaxListed} \subseteq Nat /\ Base \in Nat \ {0, 1}
ASSUME TwoDigitsDo == MaxListed <= Base * Base

-----------------------------------------------------------------------------
(* Taking one.  -o names standard output, whatever descriptor 1 is open on, *)
(* or a file; the path may come to lead elsewhere before it is opened.     *)

\* Slip: standard output is what is called so.
SlipDestinationFor(named, out) == IF named = "-" THEN "standard output" ELSE "file"

\* A path that leads to what descriptor 1 is open on is standard output too.
DestinationFor(named, out) ==
  IF named = "-" \/ (named = "where 1 leads" /\ out # "closed") THEN "standard output" ELSE "file"

\* Slip: log lines are not looked for.
SlipWhyItCannotCarry(s) ==
  IF s.json THEN ExitCode.INVALID_ARGUMENT ELSE IF s.out = "closed" THEN ExitCode.IO_ERROR ELSE ExitCode.SUCCESS

\* Standard output carries one document, and nothing else may be on it.
WhyItCannotCarry(s) ==
  IF s.json \/ s.log THEN ExitCode.INVALID_ARGUMENT
  ELSE IF s.out = "closed" THEN ExitCode.IO_ERROR ELSE ExitCode.SUCCESS

Ended(s, code) == [s EXCEPT !.step = "ended", !.code = code]

ChooseTheDestination ==
  /\ topic = "capture" /\ input.step = "start"
  /\ LET dest == DestinationFor(input.named, input.out)
         next == [input EXCEPT !.dest = dest, !.step = "read"]
     IN  Build("capture",
               IF input.replay THEN Ended(input, ExitCode.INVALID_ARGUMENT)
               ELSE IF dest = "standard output" /\ WhyItCannotCarry(input) # ExitCode.SUCCESS
                    THEN Ended(next, WhyItCannotCarry(input)) ELSE next)

\* The machine is read, and the reading refused if it could not be read back.
ReadTheMachine ==
  /\ topic = "capture" /\ input.step = "read"
  /\ \E sound \in BOOLEAN :
       Build("capture", IF sound THEN [input EXCEPT !.step = "write", !.machineRead = TRUE]
                        ELSE Ended([input EXCEPT !.machineRead = TRUE], ExitCode.CONFIG_ERROR))

\* Somebody links the path to the file standard output is redirected to.
ThePathIsLinked ==
  /\ topic = "capture" /\ input.step \in {"read", "write"} /\ input.named = "elsewhere" /\ ~input.linked
  /\ Build("capture", [input EXCEPT !.linked = TRUE])

\* A file is replaced by a rename where a temporary one can be made beside it, and is
\* otherwise written in place, which leaves it as it was only if it cannot be opened.
WriteTheCapture ==
  /\ topic = "capture" /\ input.step = "write"
  /\ \/ /\ input.dest = "standard output"
        /\ \E then \in {"reported", "full", "reader left"} :
             Build("capture",
               IF then = "reported" THEN [input EXCEPT !.stdout = Append(@, "capture"), !.step = "report"]
               ELSE Ended([input EXCEPT !.stdout = Append(@, "part")],
                          IF then = "full" THEN ExitCode.IO_ERROR ELSE ExitCode.BROKEN_PIPE))
     \/ /\ input.dest = "file"
        /\ \E how \in {"rename", "in place"}, then \in {"done", "not allowed", "not opened", "failed"} :
             LET at == CASE then = "done"                       -> "capture"
                         [] then = "failed" /\ how = "in place" -> "part"
                         [] OTHER                               -> input.file
                 s  == [input EXCEPT !.file = at, !.how = how, !.linked = @ /\ (how = "in place" \/ then # "done")]
             IN  Build("capture", CASE then = "done"        -> [s EXCEPT !.step = "report"]
                                    [] then = "not allowed" -> Ended(s, ExitCode.PERMISSION_DENIED)
                                    [] OTHER                -> Ended(s, ExitCode.IO_ERROR))

\* Slip: the line that says where the capture went is said wherever it went.
SlipSaysWhere(s) == s.out # "closed"

SaysWhere(s) == s.dest = "file" /\ s.out # "closed"

ReportTheCapture ==
  /\ topic = "capture" /\ input.step = "report"
  /\ \/ /\ ~SaysWhere(input)
        /\ Build("capture", Ended(input, ExitCode.SUCCESS))
     \/ /\ SaysWhere(input)
        /\ Build("capture", Ended([input EXCEPT !.stdout = Append(@, "line"),
                                                !.file = IF input.linked THEN "spoilt" ELSE @], ExitCode.SUCCESS))
     \/ /\ SaysWhere(input)
        /\ \E code \in {ExitCode.IO_ERROR, ExitCode.BROKEN_PIPE} : Build("capture", Ended(input, code))

-----------------------------------------------------------------------------
(* Reading one.  What opens a file says how it is encoded; a shell that    *)
(* passes a snapshot on may have encoded it anew, in wider characters.     *)

\* Longest first: what opens UTF-32 in one byte order begins with what opens UTF-16.
BomCodecs == <<[bom |-> <<0, 0, 254, 255>>, is |-> "utf-32"], [bom |-> <<255, 254, 0, 0>>, is |-> "utf-32"],
               [bom |-> <<254, 255>>, is |-> "utf-16"], [bom |-> <<255, 254>>, is |-> "utf-16"],
               [bom |-> <<239, 187, 191>>, is |-> "utf-8"]>>

\* Slip: the shorter marks are looked for first.
SlipMarks(opening) == {k \in {3, 4, 5} : IsPrefix(BomCodecs[k].bom, opening)}
                      \cup {k + 5 : k \in {k \in {1, 2} : IsPrefix(BomCodecs[k].bom, opening)}}

Marks(opening) == {k \in DOMAIN BomCodecs : IsPrefix(BomCodecs[k].bom, opening)}

Width(codec) == CASE codec = "utf-32" -> 4 [] codec = "utf-16" -> 2 [] OTHER -> 1

NoBom == Len(BomCodecs) + 1

\* How a document is opened: its mark, and the brace it begins with.
Opening(by) ==
  IF by = NoBom THEN <<123>>
  ELSE LET brace == [i \in 1..Width(BomCodecs[by].is) |-> 0]
       IN  BomCodecs[by].bom \o (IF by \in {1, 3} THEN [brace EXCEPT ![Len(brace)] = 123] ELSE [brace EXCEPT ![1] = 123])

CodecOf(by) == IF by = NoBom THEN "utf-8" ELSE BomCodecs[by].is

DecodedAs(opening) == IF Marks(opening) = {} THEN "utf-8" ELSE CodecOf(Min(Marks(opening)))

\* What writing adds to the text: standard output a newline behind it, and Windows a
\* carriage return before every newline, in a file too.
SizeOf(doc) == Len(Opening(doc.by)) + (doc.chars - 1 + doc.added) * Width(CodecOf(doc.by))

\* Slip: a file at the ceiling is past it.
SlipFits(size) == size < MaxBytes

Fits(size) == size <= MaxBytes

OldestReadableSchema == 1
SchemaVersion        == 2

\* Slip: the sections are judged before the schema they are of.
SlipLoadSnapshot(doc) ==
  IF      ~Fits(SizeOf(doc))                                     THEN "too large"
  ELSE IF DecodedAs(Opening(doc.by)) # CodecOf(doc.by)           THEN "not text"
  ELSE IF doc.repeats                                            THEN "repeats a key"
  ELSE IF ~doc.header \/ ~doc.sections                           THEN "not a snapshot"
  ELSE IF doc.schema \notin OldestReadableSchema..SchemaVersion  THEN "another schema"
  ELSE "told"

LoadSnapshot(doc) ==
  IF      ~Fits(SizeOf(doc))                                     THEN "too large"
  ELSE IF DecodedAs(Opening(doc.by)) # CodecOf(doc.by)           THEN "not text"
  ELSE IF doc.repeats                                            THEN "repeats a key"
  ELSE IF ~doc.header                                            THEN "not a snapshot"
  ELSE IF doc.schema \notin OldestReadableSchema..SchemaVersion  THEN "another schema"
  ELSE IF ~doc.sections                                          THEN "not a snapshot"
  ELSE "told"

\* What this version writes; the check is made of the text, which is all ASCII, before
\* anything is added to it.
Serialised(doc) ==
  doc.header /\ doc.sections /\ ~doc.repeats /\ doc.schema = SchemaVersion /\ doc.chars <= MaxBytes

-----------------------------------------------------------------------------
(* The volumes of a machine, keyed by ordinals and stored sorted as text;  *)
(* the first versions kept the paths Windows gives them.                   *)

Digits(n) == IF n < Base THEN <<n>> ELSE <<n \div Base, n % Base>>

IsTextBefore(a, b) ==
  \/ IsStrictPrefix(a, b)
  \/ \E i \in DOMAIN a \cap DOMAIN b : a[i] < b[i] /\ \A j \in 1..(i - 1) : a[j] = b[j]

\* Slip: text order is order enough.
SlipIsListedBefore(a, b) == IsTextBefore(a, b)

\* A digit is below the base, and what a path is made of is not.
IsListedBefore(a, b) ==
  LET ordinal(k) == Range(k) \subseteq 0..(Base - 1)
      number(k)  == FoldLeft(LAMBDA n, d : Base * n + d, 0, k)
  IN  IF ordinal(a) /\ ordinal(b) THEN number(a) < number(b)
      ELSE IF ordinal(a) \/ ordinal(b) THEN ordinal(a)
      ELSE IsTextBefore(a, b)

AsStored(keys)        == SortSeq(keys, IsTextBefore)
InEnumeration(keys)   == SortSeq(keys, IsListedBefore)

-----------------------------------------------------------------------------
(* The free extents of a filesystem, tallied as they are read; a reading   *)
(* that the models refuse would end the whole scan.                        *)

NoExtents == [count |-> 0, total |-> 0, largest |-> 0, error |-> FALSE]

\* Slip: whatever is read is added.
SlipTally(t, length) == [t EXCEPT !.count = @ + 1, !.total = @ + length, !.largest = Max({@, length})]

Tally(t, length) ==
  IF length <= 0 \/ t.error THEN t
  ELSE IF t.count >= ExtentCap \/ t.total + length > MaxTotal THEN [NoExtents EXCEPT !.error = TRUE]
  ELSE [t EXCEPT !.count = @ + 1, !.total = @ + length, !.largest = Max({@, length})]

FiguresAgree(t) ==
  t.error \/ (/\ {t.count, t.total, t.largest} \subseteq 0..MaxTotal
              /\ t.largest <= t.total /\ t.total <= t.count * t.largest /\ t.count <= t.total)

-----------------------------------------------------------------------------

AskAboutSnapshots ==
  \/ \E replay, json, log \in BOOLEAN, named \in {"-", "where 1 leads", "elsewhere"}, out \in {"open", "closed"} :
       Ask("capture", [replay |-> replay, json |-> json, log |-> log, named |-> named, out |-> out,
                       step |-> "start", dest |-> "none", how |-> "not", machineRead |-> FALSE, linked |-> FALSE,
                       file |-> "as it was", stdout |-> IF log THEN <<"log">> ELSE <<>>, code |-> ExitCode.SUCCESS])
  \/ \E doc \in [chars : 1..(MaxBytes + 1), added : 0..2, by : 1..NoBom, repeats : BOOLEAN, header : BOOLEAN,
                 schema : 0..(SchemaVersion + 1), sections : BOOLEAN] : Ask("snapshot", doc)
  \/ \E listed \in 1..MaxListed, paths \in BOOLEAN :
       Ask("volumes listed", [i \in 1..listed |-> IF paths THEN <<Base, listed - i>> ELSE Digits(i - 1)])
  \/ Ask("free space", <<>>)

AFreeExtentIsRead ==
  /\ topic = "free space" /\ Len(input) < MaxListed
  /\ \E length \in 0..(MaxTotal + 1) : Build("free space", Append(input, length))

-----------------------------------------------------------------------------

\* A run that ends well has written the whole capture where it was told, and only that;
\* one that does not has left the file as it was or says that writing it failed, unless
\* nothing but the line saying so was lost; what is refused for what was asked is refused
\* before the machine is read.  Part of a capture is left in a file only where that was
\* written in place; save's docstring promises the previous file there too.  A path that
\* somebody links to standard output meanwhile is spoilt only where it could not be
\* replaced.
CaptureIsAsReported ==
  (topic = "capture" /\ input.step = "ended") =>
    LET s == input IN
    /\ s.code = ExitCode.SUCCESS =>
         /\ s.dest = "standard output" => s.stdout = <<"capture">>
         /\ s.dest = "file" => s.file = "capture" \/ (s.file = "spoilt" /\ s.how = "in place")
    /\ "capture" \in Range(s.stdout) => s.stdout = <<"capture">> /\ s.code = ExitCode.SUCCESS
    /\ s.file \in {"part", "spoilt"} => s.how = "in place"
    /\ (s.code # ExitCode.SUCCESS /\ s.file = "capture") => s.code \in {ExitCode.IO_ERROR, ExitCode.BROKEN_PIPE}
    /\ s.code = ExitCode.INVALID_ARGUMENT => ~s.machineRead /\ s.file = "as it was"
    /\ (s.named = "where 1 leads" /\ s.out = "open") => s.file = "as it was"

\* What this version writes it reads back where nothing was added to it, and where line
\* ends were, or a shell has encoded it anew on the way, as long as that still fits: a
\* text of nearly the ceiling is the only one it cannot read back, and is refused for its
\* size.  And a file of a schema it cannot read is refused for that.
WhatIsWrittenIsReadBack ==
  topic = "snapshot" =>
    /\ Serialised(input) =>
         LoadSnapshot(input) = IF (input.by = NoBom /\ input.added = 0) \/ SizeOf(input) <= MaxBytes
                               THEN "told" ELSE "too large"
    /\ (input.header /\ ~input.repeats /\ SizeOf(input) <= MaxBytes /\ input.schema > SchemaVersion) =>
         LoadSnapshot(input) = "another schema"

\* A replay goes through the volumes in the order the run that read them did, and never
\* in another for having been stored twice.
ReplayKeepsTheOrder ==
  topic = "volumes listed" =>
    /\ InEnumeration(AsStored(input)) = InEnumeration(input)
    /\ (\A k \in Range(input) : Range(k) \subseteq 0..(Base - 1)) => InEnumeration(AsStored(input)) = input

\* Whatever extents a filesystem has, what is kept of them is kept by a snapshot: one
\* filesystem past what is counted does not take the scan with it.
EveryTallyIsKept ==
  topic = "free space" => FiguresAgree(FoldLeft(Tally, NoExtents, input))
=============================================================================
