----------------------------- MODULE MCProgress -----------------------------
(* Instances of Progress for TLC. *)
EXTENDS Progress, TLC

CONSTANTS m1, m2, s1, s2

At(name, clean, incomplete, excluded) ==
  [stage |-> name,
   count |-> [t \in Statuses |-> CASE t = "clean" -> clean
                                   [] t = "incomplete" -> incomplete
                                   [] t = "excluded" -> excluded]]

\* A push that ends and leaves a record out; one that dies and gives its stage
\* back; a record excluded after a push.
MCPaths ==
  {<<At("reconciled", 2, 0, 0), At("pushing", 2, 0, 0), At("done", 1, 1, 0)>>,
   <<At("pushing", 2, 0, 0), At("reconciled", 2, 0, 0)>>,
   <<At("done", 1, 1, 0), At("done", 1, 0, 1)>>}
=============================================================================
