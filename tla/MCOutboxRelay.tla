---------------------------- MODULE MCOutboxRelay ----------------------------
(* Small instances of OutboxRelay for TLC *)
EXTENDS OutboxRelay, TLC

(* The cycles run the same code, and one routine SMS is like another. *)
RelaySymmetry == Permutations(Relays) \cup Permutations(Sms \ Critical)
=============================================================================
