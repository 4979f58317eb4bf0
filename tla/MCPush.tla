------------------------------- MODULE MCPush -------------------------------
(* Instances of Push for TLC. *)
EXTENDS Push, TLC

CONSTANTS e1, e2, w1, w2, r1, r2, good, better, wrong, partial

\* Employees and threads are interchangeable, and so are the two accepted
\* values, or the two refused ones, where an instance has both.
Symmetry == Permutations(Employees) \cup Permutations(Workers)
RefusedSymmetry == Symmetry \cup Permutations({better, wrong})
ValueSymmetry == Symmetry \cup Permutations({good, better})
=============================================================================
