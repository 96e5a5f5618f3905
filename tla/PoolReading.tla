---------------------------- MODULE PoolReading ----------------------------
(***************************************************************************)
(* Reading the ZFS pools of a Linux machine, three times over in one scan  *)
(* (their sizes, their fragmentation, where their members lie), while      *)
(* pools are imported and exported; what of it becomes rows of the         *)
(* filesystems section, and what is said of the rest.                      *)
(*                                                                         *)
(* A pool's members lie on a drive of the inventory ("disk"), on files or  *)
(* virtual devices ("elsewhere"), or behind a layer nobody follows         *)
(* ("hidden").  A label names a pool on a drive, imported or not.          *)
(***************************************************************************)
EXTENDS Readings

CONSTANTS
  Pools,       \* names of pools
  FirstReply,  \* size of the buffer a reply is first asked into
  MaxReply,    \* the largest there is asked for
  Attempts,    \* that one question is asked
  MaxMoves     \* bound: imports and exports during one scan

ASSUME RepliesAreBounded == {FirstReply, MaxReply, Attempts, MaxMoves} \subseteq Nat /\ FirstReply <= MaxReply

-----------------------------------------------------------------------------
(* One question to the control device.  The kernel answers, or wants a     *)
(* larger buffer, or has no memory of its own to answer with.              *)

NewQuestion == [room |-> FirstReply, asked |-> 0, says |-> "asking", holds |-> 0]

\* Slip: any larger buffer is tried.
SlipAnswerOf(q, reply, needs) ==
  CASE reply = "answer" -> [q EXCEPT !.asked = @ + 1, !.says = "answered", !.holds = needs]
    [] reply = "error"  -> [q EXCEPT !.asked = @ + 1, !.says = "refused"]
    [] reply = "ENOMEM" -> IF needs <= q.room THEN [q EXCEPT !.asked = @ + 1, !.says = "refused"]
                           ELSE [q EXCEPT !.asked = @ + 1, !.room = needs,
                                          !.says = IF q.asked + 1 = Attempts THEN "refused" ELSE @]

\* A buffer no larger than the last one is not tried again, nor one past the largest.
AnswerOf(q, reply, needs) ==
  CASE reply = "answer" -> [q EXCEPT !.asked = @ + 1, !.says = "answered", !.holds = needs]
    [] reply = "error"  -> [q EXCEPT !.asked = @ + 1, !.says = "refused"]
    [] reply = "ENOMEM" -> IF needs > MaxReply \/ needs <= q.room
                           THEN [q EXCEPT !.asked = @ + 1, !.says = "refused"]
                           ELSE [q EXCEPT !.asked = @ + 1, !.room = needs,
                                          !.says = IF q.asked + 1 = Attempts THEN "refused" ELSE @]

-----------------------------------------------------------------------------
(* One reading of the pools: the list, then each of it.                    *)

NotAnswered == [listed |-> {}, whole |-> FALSE, error |-> FALSE]  \* nothing, and nobody refused
Refused == [NotAnswered EXCEPT !.error = TRUE]

\* Slip: pools that could not be read one by one leave a complete listing.
SlipEachPool(imported, failed) == [listed |-> imported \ failed, whole |-> TRUE, error |-> FALSE]

\* Every pool listed and read, less those whose own reading failed, which is said.
EachPool(imported, failed) ==
  [listed |-> imported \ failed, whole |-> TRUE, error |-> failed # {}]

\* What a listing whose device is not there, cannot be opened or does not answer is.
Outcomes(c) ==
  IF c.absent THEN {NotAnswered} ELSE {Refused} \cup {EachPool(c.imported, f) : f \in SUBSET c.imported}

-----------------------------------------------------------------------------
(* From the readings to rows.                                              *)

\* What the layouts say of a pool: whether a drive carries it, and whether a member
\* was not followed.  A member behind a layer is found by its label, if it has one.
DisksOfPool(c, name) ==
  [on   |-> name \in c.layouts.listed /\
              (c.member[name] = "disk" \/ (c.member[name] = "hidden" /\ name \in c.labels)),
   lost |-> name \notin c.layouts.listed \/ c.member[name] = "hidden"]

TracedFromLayouts(c) ==
  LET listed == c.sizes.listed \cup c.layouts.listed
      rows   == {p \in listed : DisksOfPool(c, p).on}
  IN  [rows |-> rows, untraced |-> {p \in listed \ rows : DisksOfPool(c, p).lost},
       onDisks |-> rows # {} \/ (~c.sizes.whole /\ c.sizes.error /\ c.labels # {})]

\* Slip: a list that lacks a pool rules it out, complete or not.
SlipImportedByLabel(c) == IF c.sizes.whole THEN c.labels \cap c.sizes.listed ELSE c.labels

\* Slip: a label is as good as a list.
SlipTrustTheLabels(c) == c.labels

\* A label outlives its pool: only a complete list says that there is none of its name.
ImportedByLabel(c) ==
  IF c.sizes.whole /\ ~c.sizes.error THEN c.labels \cap c.sizes.listed ELSE c.labels

TracedFromLabels(c) ==
  LET rows == ImportedByLabel(c)
  IN  [rows |-> rows, untraced |-> c.sizes.listed \ rows, onDisks |-> rows # {}]

\* Slip: layouts nobody could read are layouts of no pool.
SlipTracePools(c) == TracedFromLayouts(c)

TracePools(c) ==
  IF c.layouts.whole \/ c.absent THEN TracedFromLayouts(c) ELSE TracedFromLabels(c)

\* What is said: of the listing, of the fragmentation, and of pools without a row.
PoolRefusals(c) ==
  LET trace == TracePools(c)
  IN  [listing  |-> trace.onDisks /\ (c.sizes.error \/ ~c.sizes.whole),
       fragments |-> trace.onDisks /\ c.fragments.error,
       untraced |-> trace.untraced]

-----------------------------------------------------------------------------
(* A scan, and what happens during it.                                     *)

AskAboutPoolScans ==
  \E imported \in SUBSET Pools, member \in [Pools -> {"disk", "elsewhere", "hidden"}],
     labels \in SUBSET Pools, absent \in BOOLEAN :
    /\ absent => imported = {}
    /\ \A p \in labels : p \in imported => member[p] # "elsewhere"
    /\ Ask("pool scan", [imported |-> imported, always |-> imported, ever |-> imported,
                         member |-> member, labels |-> labels, absent |-> absent, moves |-> 0,
                         step |-> "sizes", sizes |-> NotAnswered, fragments |-> NotAnswered, layouts |-> NotAnswered])

ReadThePools ==
  topic = "pool scan" /\ input.step = "sizes" /\
    \E r \in Outcomes(input) : Build("pool scan", [input EXCEPT !.sizes = r, !.step = "fragments"])

ReadTheFragmentation ==
  topic = "pool scan" /\ input.step = "fragments" /\
    \E r \in Outcomes(input) : Build("pool scan", [input EXCEPT !.fragments = r, !.step = "layouts"])

\* One list holds every layout, so that none of them fails by itself.
ReadTheLayouts ==
  topic = "pool scan" /\ input.step = "layouts" /\
    \E r \in {x \in Outcomes(input) : x.whole => ~x.error} :
      Build("pool scan", [input EXCEPT !.layouts = r, !.step = "read"])

APoolIsImported ==
  /\ topic = "pool scan" /\ input.step # "read" /\ ~input.absent /\ input.moves < MaxMoves
  /\ \E p \in Pools \ input.imported :
       Build("pool scan", [input EXCEPT !.imported = @ \cup {p}, !.ever = @ \cup {p}, !.moves = @ + 1])

APoolIsExported ==
  /\ topic = "pool scan" /\ input.step # "read" /\ input.moves < MaxMoves
  /\ \E p \in input.imported :
       Build("pool scan", [input EXCEPT !.imported = @ \ {p}, !.always = @ \ {p}, !.moves = @ + 1])

AskAQuestion == Ask("question", NewQuestion)

TheDeviceReplies ==
  /\ topic = "question" /\ input.says = "asking"
  /\ \E reply \in {"answer", "ENOMEM", "error"}, needs \in 1..MaxReply+1 :
       /\ reply = "answer" => needs <= input.room
       /\ Build("question", AnswerOf(input, reply, needs))

-----------------------------------------------------------------------------

\* Whatever is imported and exported meanwhile and whatever is refused, a pool that
\* was there throughout, on a drive that a layout or a label names, has a row or is said to
\* have none; and where its size is not known, that is said.
NoPoolIsLostInSilence ==
  (topic = "pool scan" /\ input.step = "read") =>
    LET trace == TracePools(input)
        said  == PoolRefusals(input)
    IN  \A p \in input.always : (input.member[p] = "disk" /\ (p \in input.labels \/ input.layouts.whole)) =>
          /\ p \in trace.rows \cup said.untraced \/ said.listing
          /\ (p \in trace.rows /\ p \notin input.sizes.listed) => said.listing
          /\ (p \in trace.rows /\ p \notin input.fragments.listed) => said.fragments

\* A pool that only a label remembers has no row, unless nobody could list the pools
\* there are; and no pool on files is said to have lost its drives.
NoPoolIsRaisedFromItsLabel ==
  (topic = "pool scan" /\ input.step = "read") =>
    LET trace == TracePools(input)
    IN  /\ \A p \in trace.rows : p \in input.ever \/ (~input.layouts.whole /\ input.sizes.error)
                                   \/ (~input.layouts.whole /\ ~input.sizes.whole)
        /\ \A p \in input.always : (input.member[p] = "elsewhere" /\ input.layouts.whole) => p \notin trace.untraced

\* No question is asked more than so often, nor into more than the largest buffer,
\* whatever the kernel asks for; and what is taken for an answer fitted its buffer.
EveryQuestionEnds ==
  topic = "question" =>
    /\ input.asked <= Attempts /\ input.room <= MaxReply
    /\ input.asked = Attempts => input.says # "asking"
    /\ input.says = "answered" => input.holds \in 1..input.room
=============================================================================
