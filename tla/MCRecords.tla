----------------------------- MODULE MCRecords ------------------------------
(* Instances of Records for TLC: a row of the first file and one of the      *)
(* second, with what each can hold.  Dates are years.                        *)
EXTENDS Records

CONSTANTS a, b, hris, payroll, good, bad, active, other

Row(hire, term, state, born, manager, email) ==
  [hire_date |-> hire, termination_date |-> term, employment_status |-> state,
   date_of_birth |-> born, manager_employee_id |-> manager, work_email |-> email]

MCFileOf == [r \in Rows |-> IF r = a THEN hris ELSE payroll]
MCRank == [r \in Rows |-> IF r = a THEN 0 ELSE 1]

MCCandidates == {
  Row(20, Blank, active, 1, Blank, Blank),          \* nothing wrong
  Row(30, Blank, Blank, Blank, Blank, good),          \* another hire date
  Row(20, 15, Terminated, Blank, Self, Blank),    \* R1 and R5
  Row(Blank, 25, Terminated, Blank, Blank, good),   \* R1 if merged with 30
  Row(Blank, Blank, Terminated, Blank, Blank, bad), \* R2, and refused
  Row(10, Blank, active, 1, Blank, good)}           \* R4

MCTyped ==
  [f \in Fields |-> CASE f = "termination_date" -> {15, 35}
                      [] f = "date_of_birth" -> {1}
                      [] f = "manager_employee_id" -> {other}
                      [] f = "work_email" -> {good, bad}
                      [] OTHER -> {}]
=============================================================================
