------------------------------ MODULE TestPool ------------------------------
(***************************************************************************)
(* What the test framework promises of the subjects it is given: each is   *)
(* opened once and judged once, and no more than a number of them are open *)
(* at the same time.                                                       *)
(***************************************************************************)
EXTENDS Naturals, FiniteSets

CONSTANTS
  Subjects,  \* the files that are tested
  Open,      \* how many of them are open at most
  Verdicts   \* what becomes of one

VARIABLE status  \* "queued", "open" or its verdict

OpenSubjects == {s \in Subjects : status[s] = "open"}

Init == status = [s \in Subjects |-> "queued"]

OpenOne(s) ==
  /\ status[s] = "queued"
  /\ Cardinality(OpenSubjects) < Open
  /\ status' = [status EXCEPT ![s] = "open"]

Judge(s) ==
  /\ status[s] = "open"
  /\ \E v \in Verdicts : status' = [status EXCEPT ![s] = v]

Next == \E s \in Subjects : OpenOne(s) \/ Judge(s)

Spec == Init /\ [][Next]_status /\ WF_status(Next)
=============================================================================
