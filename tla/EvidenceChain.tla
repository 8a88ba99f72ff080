---------------------------- MODULE EvidenceChain ----------------------------
(***************************************************************************)
(* The chain of evidence of each subject, a driver or a vehicle, without   *)
(* locks, deadlines and cases: a transaction reads the entry that began    *)
(* last among those stored, and stores an entry of its own that is chained *)
(* to it, or nothing.  LicenseCheck and Vehicles implement it.             *)
(***************************************************************************)
CONSTANTS
  Requests,   \* the transactions; an entry is named after the one that stores it
  Subjects,   \* whom the evidence is about
  None        \* the prev_hash of a first entry

VARIABLES
  subject,   \* whose chain each transaction works on
  stage,     \* idle, open, linked (has read what it chains to), ended
  before,    \* what had begun, and what was stored, when it began
  prev,      \* what its entry is chained to
  logged     \* the stored entries

vars == <<subject, stage, before, prev, logged>>

TypeOK ==
  /\ subject \in [Requests -> Subjects]
  /\ stage   \in [Requests -> {"idle", "open", "linked", "ended"}]
  /\ before  \in [Requests -> [begun : SUBSET Requests, stored : SUBSET Requests]]
  /\ prev    \in [Requests -> Requests \cup {None}]
  /\ logged  \subseteq Requests

-----------------------------------------------------------------------------
Entries(s) == {e \in logged : subject[e] = s}

(* ORDER BY created_at DESC LIMIT 1, and created_at is the begin *)
Newest(entries) ==
  IF entries = {} THEN {None}
  ELSE {e \in entries : \A f \in entries \ {e} : f \in before[e].begun}

Init ==
  /\ None \notin Requests
  /\ subject \in [Requests -> Subjects]
  /\ stage   = [r \in Requests |-> "idle"]
  /\ before  = [r \in Requests |-> [begun |-> {}, stored |-> {}]]
  /\ prev    = [r \in Requests |-> None]
  /\ logged  = {}

Begin(r) ==
  /\ stage[r] = "idle"
  /\ stage'  = [stage EXCEPT ![r] = "open"]
  /\ before' = [before EXCEPT ![r] = [begun |-> {q \in Requests : stage[q] # "idle"},
                                      stored |-> logged]]
  /\ UNCHANGED <<subject, prev, logged>>

Link(r) ==
  /\ stage[r] = "open"
  /\ stage' = [stage EXCEPT ![r] = "linked"]
  /\ \E tip \in Newest(Entries(subject[r])) : prev' = [prev EXCEPT ![r] = tip]
  /\ UNCHANGED <<subject, before, logged>>

Append(r) ==
  /\ stage[r] = "linked"
  /\ stage'  = [stage EXCEPT ![r] = "ended"]
  /\ logged' = logged \cup {r}
  /\ UNCHANGED <<subject, before, prev>>

(* A roll back, or a request that records no evidence *)
Leave(r) ==
  /\ stage[r] \in {"open", "linked"}
  /\ stage' = [stage EXCEPT ![r] = "ended"]
  /\ prev'  = [prev EXCEPT ![r] = None]
  /\ UNCHANGED <<subject, before, logged>>

Next == \E r \in Requests : Begin(r) \/ Link(r) \/ Append(r) \/ Leave(r)

Spec == Init /\ [][Next]_vars

-----------------------------------------------------------------------------
(* Properties *)

(* A chain forks only where transactions overlap: of two entries with the   *)
(* same prev_hash each began before the other was stored, or so did one of  *)
(* them and the entry they chain to.  Without overlap the evidence of a     *)
(* subject is one line, although created_at and not the commit says which   *)
(* entry is the last.                                                       *)
Overlap(q, r) == q \notin before[r].stored /\ r \notin before[q].stored
ForksNeedOverlap ==
  \A e, f \in logged :
    e # f /\ subject[e] = subject[f] /\ prev[e] = prev[f] =>
      \/ Overlap(e, f)
      \/ prev[e] # None /\ (Overlap(e, prev[e]) \/ Overlap(f, prev[f]))

(* RESTORE_DRILL step 4: every prev_hash is that of a stored entry of the   *)
(* same subject.                                                            *)
NoBrokenLinks ==
  \A e \in logged : prev[e] # None => prev[e] \in Entries(subject[e])

(* Nothing that is stored is taken back or chained anew.                    *)
AppendOnly ==
  [][\A e \in logged : e \in logged' /\ prev'[e] = prev[e]]_vars

=============================================================================
