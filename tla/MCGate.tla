------------------------------- MODULE MCGate -------------------------------
(* Instances of Gate for TLC.  Similarity is not transitive in the program    *)
(* (successive edits of one script drift apart): mid is similar to old and to  *)
(* new, which are not similar to each other.                                   *)
EXTENDS Gate, TLC

CONSTANTS old, mid, new

MCBodies == {old, mid, new}
MCSimilar == {<<old, old>>, <<mid, mid>>, <<new, new>>,
              <<old, mid>>, <<mid, old>>, <<mid, new>>, <<new, mid>>}
MCTwoBodies == {old, new}
MCSameText == {<<old, old>>, <<new, new>>}
MCSymmetry == Permutations({old, new})
=============================================================================
