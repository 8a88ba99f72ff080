------------------------------ MODULE Delivery ------------------------------
(***************************************************************************)
(* What the outbox promises about a notification, without batches, locks,  *)
(* retries and crashes: at-least-once delivery, or an alert that says that *)
(* it failed.  OutboxRelay implements it.                                  *)
(***************************************************************************)
EXTENDS Naturals

CONSTANTS
  Messages,      \* the notifications
  Suppressible   \* those that may be dropped for the SMS budget

VARIABLES
  fate,     \* what has become of each notification
  copies,   \* how often the provider has taken it
  alarms    \* those whose failure the customer is told

Fates == {"absent", "queued", "delivered", "suppressed", "undeliverable"}

Init ==
  /\ fate   = [m \in Messages |-> "absent"]
  /\ copies = [m \in Messages |-> 0]
  /\ alarms = {}

Submit(m) ==
  /\ fate[m] = "absent"
  /\ fate' = [fate EXCEPT ![m] = "queued"]
  /\ UNCHANGED <<copies, alarms>>

HandOver(m) ==
  /\ fate[m] = "queued"
  /\ copies' = [copies EXCEPT ![m] = @ + 1]
  /\ UNCHANGED <<fate, alarms>>

(* The verdicts on a queued notification that the promise allows *)
Verdicts(m) ==
  {"undeliverable"}
    \cup (IF copies[m] > 0 THEN {"delivered"} ELSE {})
    \cup (IF m \in Suppressible THEN {"suppressed"} ELSE {})

(* Several notifications are settled at once; nothing is settled twice. *)
Settle ==
  /\ fate' \in [Messages -> Fates]
  /\ \A m \in Messages :
       \/ fate'[m] = fate[m]
       \/ fate[m] = "queued" /\ fate'[m] \in Verdicts(m)
  /\ alarms' = {m \in Messages : fate'[m] = "undeliverable"}
  /\ UNCHANGED copies

Next == (\E m \in Messages : Submit(m) \/ HandOver(m)) \/ Settle

Spec == Init /\ [][Next]_<<fate, copies, alarms>>
=============================================================================
