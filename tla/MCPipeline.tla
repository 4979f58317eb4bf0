----------------------------- MODULE MCPipeline -----------------------------
(* Instances of Pipeline for TLC: three files, in the order they are       *)
(* trusted, and four rows.  Rows a and b are one person, c another, d      *)
(* carries no employee id and matches a and b.                             *)
EXTENDS Pipeline, TLC

CONSTANTS hris, payroll, crm, a, b, c, d, ann, bob, w1, w2, typo, dispute, rule

FileOfRow == (a :> hris) @@ (b :> payroll) @@ (c :> payroll) @@ (d :> crm)
PersonOfRow == (a :> ann) @@ (b :> ann) @@ (c :> bob) @@ (d :> ann)

MCFileOf == [r \in Rows |-> FileOfRow[r]]
MCPersonOf == [r \in Rows |-> PersonOfRow[r]]
MCRank == [f \in Files |-> CASE f = hris -> 0 [] f = payroll -> 1 [] OTHER -> 2]

\* Row b and row c hold the same mistyped value; row a breaks a rule.
MCRowAsks ==
  [r \in Rows |-> CASE r = a -> rule [] r \in {b, c} -> typo [] OTHER -> NoQuestion]
\* Merging ann's rows leaves the rule broken and shows a disagreement.
MCMergeAsks == [p \in People |-> IF p = ann THEN {rule, dispute} ELSE {}]
\* ... or settles the rule.
MCMergeSettles == [p \in People |-> IF p = ann THEN {dispute} ELSE {}]

Symmetry == Permutations(Threads)
=============================================================================
