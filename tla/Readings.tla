------------------------------ MODULE Readings ------------------------------
(***************************************************************************)
(* What a reading can be: a number, or nothing at all because nobody could *)
(* read it.  The source writes the second as None and treats it as unknown *)
(* in every comparison, never as zero and never as the best there is.      *)
(* And a question put to the rules: which of them is asked, and the input  *)
(* it is asked about, which is built up part by part.                      *)
(***************************************************************************)
EXTENDS Integers, FiniteSets, Sequences, SequencesExt, FiniteSetsExt, Positions

NotRead   == -1
Unlimited == 1000000

Read(S) == S \ {NotRead}

\* The lower of what was read, and nothing where nothing was.
LeastRead(S) == IF Read(S) = {} THEN NotRead ELSE Min(Read(S))
MostRead(S)  == IF Read(S) = {} THEN NotRead ELSE Max(Read(S))

\* The lower of all, where one that was not read may be lower than any.
LeastOfAll(S) == IF NotRead \in S THEN NotRead ELSE Min(S)

-----------------------------------------------------------------------------
VARIABLES
  topic,   \* the rules that are asked
  input    \* what they are asked about

asked == <<topic, input>>

Ask(t, nothing) == topic = t /\ input = nothing

Build(t, more) == topic = t /\ input' = more /\ UNCHANGED topic
=============================================================================
