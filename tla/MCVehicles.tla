----------------------------- MODULE MCVehicles -----------------------------
(* A small instance of Vehicles for TLC *)
EXTENDS Vehicles

CONSTANTS r1, r2, r3

(* Requests, and likewise forms, differ in name only, but a SYMMETRY would   *)
(* be unsound with a liveness property.  Instead the requests are numbered   *)
(* by what they ask for, and form 1 is what most of them have filled in.     *)
Number(r)  == req[r].form + (IF req[r].kind = "HU" THEN 0 ELSE 2)
HasForm(f) == {r \in Requests : req[r].form = f}
Sorted ==
  /\ Number(r1) <= Number(r2) /\ Number(r2) <= Number(r3)
  /\ Cardinality(HasForm(1)) > Cardinality(HasForm(2))

MCInit == Init /\ Sorted
MCSpec == MCInit /\ [][Next]_vars /\ \A r \in Requests : WF_vars(Step(r))
=============================================================================
