----------------------------- MODULE Selection -----------------------------
(***************************************************************************)
(* What is left of a sequence when the elements that are not in a set are  *)
(* taken out: SteamBot::erase(), whose moving of the last element to the   *)
(* gap is left out where no order is promised, and loops that pass         *)
(* elements by. In place of SelectSeq(), of which the prover knows no      *)
(* definition.                                                             *)
(***************************************************************************)
EXTENDS Naturals, Sequences, SequencesExt

Kept(s, S) == FoldLeft(LAMBDA kept, x : IF x \in S THEN Append(kept, x) ELSE kept, <<>>, s)

\* How many of them there are.
Count(s, S) == Len(Kept(s, S))

=============================================================================
