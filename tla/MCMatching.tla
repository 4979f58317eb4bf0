----------------------------- MODULE MCMatching -----------------------------
(* Instances of Matching for TLC: three rows out of seven that an export can   *)
(* hold.                                                                     *)
EXTENDS Matching, TLC

CONSTANTS c1, c2, e1, e1d, e2, ann, amm, anna, annah, p1, p2, d1

Row(id, email, phone, name, dob) ==
  [id |-> id, email |-> email, phone |-> phone, name |-> name, dob |-> dob]

MCCandidates == {
  Row(e1, ann, Blank, Blank, Blank),        \* payroll: an employee
  Row(e1d, amm, Blank, Blank, Blank),       \* entered again under a derived id
  Row(e2, ann, Blank, Blank, Blank),        \* another employee, that mailbox
  Row(Blank, ann, Blank, Blank, Blank),     \* crm: no id
  Row(e1, Blank, p1, anna, d1),             \* hris: no email
  Row(Blank, Blank, p2, anna, Blank),       \* a phone mistyped
  Row(Blank, Blank, Blank, annah, d1)}      \* a name mistyped

MCDerived == {{e1, e1d}}
MCTypos == {{ann, amm}, {p1, p2}}
MCNearNames == {{anna, annah}}
\* Stem keeps too little to see the typos.
MCStem == [v \in {ann, amm, anna, annah, p1, p2} |->
             CASE v = amm -> ann [] v = annah -> anna [] OTHER -> v]

\* Any call may be any thread's.
MCSymmetry == Permutations(Callers)
=============================================================================
