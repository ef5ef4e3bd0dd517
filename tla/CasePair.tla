------------------------------- MODULE CasePair -------------------------------
(***************************************************************************)
(* What one case of run_tests.py is to its runner: the launcher process,   *)
(* which is also the creator (the parent), and the importer it forks (the  *)
(* child).  The parent's exit code is what the case reports.  SharePair    *)
(* implements this specification; RunTests runs cases that follow it.      *)
(***************************************************************************)
Ended == {"pass", "fail", "launch_error", "killed"}
Status == {"none", "running"} \cup Ended
Pair == [parent : Status, child : Status]

Waiting == [parent |-> "none", child |-> "none"]
Started == [parent |-> "running", child |-> "none"]

(***************************************************************************)
(* How the parent may end with its child as it is: exit code 0 only when   *)
(* the child was reaped with wait status 0, and 2 only when there was      *)
(* nothing to wait for.                                                    *)
(***************************************************************************)
Verdicts(child) ==
  {"killed"} \cup (IF child = "none" THEN {"launch_error"} ELSE {})
             \cup (IF child \in Ended THEN {"fail"} ELSE {})
             \cup (IF child = "pass" THEN {"pass"} ELSE {})

ParentSteps(p) ==
  IF p.parent # "running" THEN {}
  ELSE {[p EXCEPT !.parent = v] : v \in Verdicts(p.child)}
         \cup (IF p.child = "none" THEN {[p EXCEPT !.child = "running"]} ELSE {})

ChildSteps(p) ==
  IF p.child # "running" THEN {}
  ELSE {[p EXCEPT !.child = v] : v \in {"pass", "fail", "killed"}}

-------------------------------------------------------------------------------
VARIABLE pair

Init == pair = Started
Next == pair' \in ParentSteps(pair) \cup ChildSteps(pair)

(***************************************************************************)
(* A case left to itself ends, its importer too.                           *)
(***************************************************************************)
Spec == Init /\ [][Next]_pair /\ WF_pair(Next)
===============================================================================
