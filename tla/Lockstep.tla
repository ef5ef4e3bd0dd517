------------------------------- MODULE Lockstep -------------------------------
(***************************************************************************)
(* What a barrier promises its members: nobody returns from its n-th       *)
(* barrier call before everybody has entered theirs.  A member may drop    *)
(* out for good at any time; the barrier it has not entered then never     *)
(* opens for anybody.                                                      *)
(***************************************************************************)
EXTENDS Integers

CONSTANTS Member, Barriers   \* how many barriers there are, a natural number

VARIABLES entered, returned, dropped
vars == <<entered, returned, dropped>>

TypeOK ==
  /\ entered \in [Member -> 0 .. Barriers]
  /\ returned \in [Member -> 0 .. Barriers]
  /\ dropped \in SUBSET Member

Init ==
  /\ entered = [m \in Member |-> 0]
  /\ returned = [m \in Member |-> 0]
  /\ dropped = {}

Enter(m) ==
  /\ m \notin dropped
  /\ entered[m] = returned[m] /\ entered[m] < Barriers
  /\ entered' = [entered EXCEPT ![m] = @ + 1]
  /\ UNCHANGED <<returned, dropped>>

Leave(m) ==
  /\ m \notin dropped
  /\ returned[m] < entered[m]
  /\ \A other \in Member : entered[m] <= entered[other]
  /\ returned' = [returned EXCEPT ![m] = @ + 1]
  /\ UNCHANGED <<entered, dropped>>

Drop(m) ==
  /\ dropped' = dropped \cup {m}
  /\ UNCHANGED <<entered, returned>>

Next == \E m \in Member : Enter(m) \/ Leave(m) \/ Drop(m)

Spec == Init /\ [][Next]_vars

\* Two members are never more than one barrier apart, and whoever has returned
\* from a barrier knows that everybody has entered it.
NoOvertaking == \A m, other \in Member : returned[m] <= entered[other]

===============================================================================
