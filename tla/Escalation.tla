----------------------------- MODULE Escalation -----------------------------
(***************************************************************************)
(* What a failed licence check sets off, as a manager may rely on it: one  *)
(* case at a time for each driver, opened together with the lock, the      *)
(* alert and the notices, nagged about once a day, and closed by a passed  *)
(* check or breached after the window.  Each of these is one act here.     *)
(* There are no transactions, locks, copies or retries; LicenseCheck       *)
(* implements it with them.                                                *)
(***************************************************************************)
EXTENDS Naturals

CONSTANTS
  Drivers,
  Cases,
  Addresses,   \* where notices go
  WindowDays,  \* days until an OPEN case is breached
  None

VARIABLES
  subject,     \* the driver whom a case is or would be about
  authorized,  \* may the driver drive?
  status,      \* of each case
  openedOn,
  nagOn,       \* the last day on which the sweep nagged about the case
  alerts,      \* cases that were announced within the application
  told,        \* notices
  today

file == <<subject, authorized, status, openedOn, nagOn, alerts, told, today>>

OpenCases(d) == {c \in Cases : status[c] = "OPEN" /\ subject[c] = d}

Notices(template, cases, day) ==
  {[template |-> template, case |-> c, day |-> day, to |-> a] : c \in cases, a \in Addresses}

Init ==
  /\ subject \in [Cases -> Drivers]
  /\ authorized = [d \in Drivers |-> TRUE]
  /\ status = [c \in Cases |-> "NONE"]
  /\ openedOn = [c \in Cases |-> 0]
  /\ nagOn = [c \in Cases |-> None]
  /\ alerts = {} /\ told = {}
  /\ today = 0

(* A failed check locks the driver. *)
Lock(c) ==
  /\ status[c] = "NONE" /\ OpenCases(subject[c]) = {}
  /\ authorized' = [authorized EXCEPT ![subject[c]] = FALSE]
  /\ status'   = [status EXCEPT ![c] = "OPEN"]
  /\ openedOn' = [openedOn EXCEPT ![c] = today]
  /\ alerts'   = alerts \cup {c}
  /\ told'     = told \cup Notices("fsk_failed_critical", {c}, today)
  /\ UNCHANGED <<subject, nagOn, today>>

(* A passed check closes whatever is open about the driver, perhaps a case  *)
(* that was just breached as well, and only then may lift the lock.         *)
Close(d) ==
  /\ \E closed \in SUBSET {c \in Cases : subject[c] = d /\ status[c] \in {"OPEN", "BREACHED"}} :
       /\ OpenCases(d) \subseteq closed
       /\ status' = [c \in Cases |-> IF c \in closed THEN "RESOLVED_PASSED" ELSE status[c]]
  /\ authorized' \in {authorized, [authorized EXCEPT ![d] = TRUE]}
  /\ UNCHANGED <<subject, openedOn, nagOn, alerts, told, today>>

(* A sweep deals with cases that are OPEN, by the day on which it began.    *)
Remind ==
  \E day \in 0..today, seen \in SUBSET {c \in Cases : status[c] = "OPEN"} :
    LET late == {c \in seen : day > openedOn[c] + WindowDays}
        nag  == {c \in seen \ late : nagOn[c] # day}
    IN
    /\ status' = [c \in Cases |-> IF c \in late THEN "BREACHED" ELSE status[c]]
    /\ nagOn'  = [c \in Cases |-> IF c \in nag THEN day ELSE nagOn[c]]
    /\ told'   = told \cup Notices("escalation_breached", late, day)
                      \cup Notices("escalation_nag", nag, day)
    /\ UNCHANGED <<subject, authorized, openedOn, alerts, today>>

NextDay ==
  /\ today' = today + 1
  /\ UNCHANGED <<subject, authorized, status, openedOn, nagOn, alerts, told>>

Next ==
  \/ \E c \in Cases : Lock(c)
  \/ \E d \in Drivers : Close(d)
  \/ Remind \/ NextDay

Spec == Init /\ [][Next]_file

=============================================================================
