-------------------------------- MODULE Jsonl --------------------------------
(***************************************************************************)
(* The JSON Lines journal file that the notifier, the event gateway and    *)
(* the goal store keep.  An append writes the encoded entry and then a     *)
(* newline, as two writes on a file opened for this append alone, so two   *)
(* appends may interleave and a crash may separate the two writes.  The    *)
(* file is a sequence of items: records whose `kind` names the entry, and  *)
(* newlines.                                                               *)
(***************************************************************************)
EXTENDS Naturals, Sequences

Newline == [kind |-> "newline"]

IsEntry(item) == item.kind # "newline"

\* replay_journal decodes line by line and fails on the first line that is
\* not exactly one entry; blank lines are skipped.
Readable(file) ==
    \A k \in 1..(Len(file) - 1) : ~(IsEntry(file[k]) /\ IsEntry(file[k + 1]))
=============================================================================
