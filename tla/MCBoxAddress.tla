--------------------------- MODULE MCBoxAddress ---------------------------
(* Model-checking instances of BoxAddress. *)
EXTENDS BoxAddress, TLC

CONSTANTS b1, b2, b3, e1, e2

TwoBoxes     == {b1, b2}
ThreeBoxes   == {b1, b2, b3}
TwoGreenlets == {e1, e2}

\* nothing saved, one box saved, or two boxes saved
Consistent == {t \in Tables : OneAddress(t)}

\* an enumeration with a lost exchange, or two enumerations of which the
\* second may begin while the first runs
LossOrSecondRun ==
    {[losses |-> 1, cycles |-> 1, runs |-> 1, saved |-> Consistent],
     [losses |-> 0, cycles |-> 1, runs |-> 2, saved |-> {NoTable}],
     [losses |-> 0, cycles |-> 0, runs |-> 2,
      saved |-> {t \in Consistent : Cardinality(Occupied(t)) = 1}]}

Symmetry == Permutations(Boxes) \cup Permutations(Enumerators)
=============================================================================
