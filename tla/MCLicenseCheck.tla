--------------------------- MODULE MCLicenseCheck ---------------------------
(* Small instances of LicenseCheck for TLC *)
EXTENDS LicenseCheck, TLC

(* Requests differ in name only: what they ask for is chosen in Init. *)
RequestSymmetry == Permutations(Requests)

(* Dates are only compared with one another. *)
RequestAndDateSymmetry == Permutations(Requests) \cup Permutations(Dates)
=============================================================================
