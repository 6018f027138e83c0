------------------------------- MODULE Lists -------------------------------
(***************************************************************************)
(* Sequences of which some places are kept.  It is SelectSeq with the      *)
(* places in the place of a test, as a recursive function over them, which *)
(* a proof can follow step by step.                                        *)
(***************************************************************************)
EXTENDS Naturals, Sequences, SequencesExt

\* A sequence, whatever its members are.
IsList(seq) == seq \in Seq(ToSet(seq))

\* What has been kept of the first places of seq, by their number.
Kept(seq, places) ==
  LET kept[i \in 0..Len(seq)] ==
        IF i = 0 THEN <<>>
        ELSE IF i \in places THEN Append(kept[i - 1], seq[i])
        ELSE kept[i - 1]
  IN  kept

\* The members of seq at these places, in order.
Picked(seq, places) == Kept(seq, places)[Len(seq)]
=============================================================================
