-------------------------- MODULE MCSharedJournal --------------------------
(* SharedJournal for TLC: two processes, two pads, two paths of one stem. *)
EXTENDS SharedJournal, TLC

CONSTANTS p, q, m1, m2, bin, dat

MCSymmetry ==
  Permutations({p, q}) \cup Permutations({m1, m2}) \cup Permutations({bin, dat})
=============================================================================
