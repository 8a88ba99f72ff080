------------------------- MODULE EvidenceChainProofs -------------------------
(***************************************************************************)
(* Proofs about EvidenceChain, for every set of transactions.              *)
(***************************************************************************)
EXTENDS EvidenceChain, TLAPS

LEMMA InitType == Init => TypeOK
  BY DEF Init, TypeOK

LEMMA NextType ==
  ASSUME TypeOK, [Next]_vars
  PROVE  TypeOK'
  <1>1. ASSUME NEW r \in Requests, Link(r) PROVE TypeOK'
    <2>1. PICK tip \in Newest(Entries(subject[r])) : prev' = [prev EXCEPT ![r] = tip]
      BY <1>1 DEF Link
    <2>2. tip \in Requests \cup {None}
      BY DEF Newest, Entries, TypeOK
    <2>3. QED
      BY <1>1, <2>1, <2>2 DEF TypeOK, Link
  <1>2. ASSUME NEW r \in Requests, Begin(r) PROVE TypeOK'
    BY <1>2 DEF TypeOK, Begin
  <1>3. ASSUME NEW r \in Requests, Append(r) \/ Leave(r) PROVE TypeOK'
    BY <1>3 DEF TypeOK, Append, Leave
  <1>4. CASE UNCHANGED vars
    BY <1>4 DEF TypeOK, vars
  <1>5. QED
    BY <1>1, <1>2, <1>3, <1>4 DEF Next

(* Transactions and entries keep their types. *)
THEOREM TypeCorrect == Spec => []TypeOK
  BY InitType, NextType, PTL DEF Spec

-----------------------------------------------------------------------------
(* The order of begins and ends.  Who had begun when r began did not begin  *)
(* after r; what was stored stays stored.                                   *)
Order(r) ==
  /\ stage[r] = "idle" => before[r].begun = {}
  /\ before[r].stored \subseteq before[r].begun
  /\ \A q \in before[r].begun : stage[q] # "idle" /\ r \notin before[q].begun
  /\ before[r].stored \subseteq logged

(* What r has read: an entry that is stored, is not its own and did not     *)
(* begin after r was stored; and if something was stored when r began, then  *)
(* this, or an entry that began later.                                      *)
LinkState(r) ==
  /\ r \in logged => stage[r] = "ended"
  /\ stage[r] \in {"idle", "open"} => prev[r] = None
  /\ prev[r] # None => /\ prev[r] \in Entries(subject[r]) /\ prev[r] # r
                       /\ r \notin before[prev[r]].stored
  /\ stage[r] = "linked" \/ r \in logged =>
       \A q \in Entries(subject[r]) \cap before[r].stored :
         prev[r] # None /\ (prev[r] = q \/ q \in before[prev[r]].begun)

IInv ==
  /\ TypeOK
  /\ None \notin Requests
  /\ \A r \in Requests : Order(r) /\ LinkState(r)

LEMMA InitInv == Init => IInv
  BY InitType DEF Init, IInv, Order, LinkState

LEMMA BeginInv ==
  ASSUME IInv, NEW r \in Requests, Begin(r), TypeOK'
  PROVE  IInv'
  <1> USE DEF IInv
  <1>1. /\ stage[r] = "idle" /\ stage'[r] = "open"
        /\ before'[r].begun = {q \in Requests : stage[q] # "idle"}
        /\ before'[r].stored = logged
        /\ \A q \in Requests \ {r} : stage'[q] = stage[q] /\ before'[q] = before[q]
        /\ UNCHANGED <<subject, prev, logged>>
    BY DEF Begin, TypeOK
  <1>2. \A q \in Requests : r \notin before[q].begun /\ r \notin before[q].stored
    BY <1>1 DEF Order, LinkState
  <1>3. ASSUME NEW p \in Requests PROVE Order(p)'
    <2>1. CASE p = r
      BY <1>1, <1>2, <2>1 DEF Order, LinkState, TypeOK
    <2>2. CASE p # r
      <3>1. Order(p)
        OBVIOUS
      <3>2. before[p].begun \subseteq Requests /\ before[p].stored \subseteq Requests
        BY DEF TypeOK
      <3>3. before'[p] = before[p] /\ stage'[p] = stage[p]
        BY <1>1, <2>2
      <3>4. QED
        BY <1>1, <1>2, <2>2, <3>1, <3>2, <3>3 DEF Order
    <2>3. QED
      BY <2>1, <2>2
  <1>4. ASSUME NEW p \in Requests PROVE LinkState(p)'
    <2>1. r \notin logged
      BY <1>1 DEF LinkState
    <2>2. prev[p] # None => prev[p] # r /\ prev[p] \in Requests
      BY <2>1 DEF LinkState, Entries, TypeOK
    <2>3. Entries(subject[p])' = Entries(subject[p])
      BY <1>1 DEF Entries
    <2>4. QED
      BY <1>1, <2>1, <2>2, <2>3 DEF LinkState, TypeOK
  <1>5. QED
    BY <1>3, <1>4

LEMMA LinkInv ==
  ASSUME IInv, NEW r \in Requests, Link(r), TypeOK'
  PROVE  IInv'
  <1> USE DEF IInv
  <1>1. PICK tip \in Newest(Entries(subject[r])) : prev' = [prev EXCEPT ![r] = tip]
    BY DEF Link
  <1>2. /\ stage[r] = "open" /\ stage'[r] = "linked" /\ prev'[r] = tip
        /\ \A q \in Requests \ {r} : stage'[q] = stage[q] /\ prev'[q] = prev[q]
        /\ UNCHANGED <<subject, before, logged>>
    BY <1>1 DEF Link, TypeOK
  <1>3. ASSUME NEW p \in Requests PROVE Order(p)'
    BY <1>2 DEF Order, TypeOK
  <1>4. Entries(subject[r])' = Entries(subject[r]) /\ r \notin logged
    BY <1>2 DEF Entries, LinkState
  <1>5. tip # None => /\ tip \in Entries(subject[r]) /\ tip \in Requests /\ tip # r
                      /\ r \notin before[tip].stored
    BY <1>2, <1>4 DEF Newest, Entries, Order, TypeOK
  <1>6. \A q \in Entries(subject[r]) : tip # None /\ (tip = q \/ q \in before[tip].begun)
    BY DEF Newest, Entries, TypeOK
  <1>7. ASSUME NEW p \in Requests PROVE LinkState(p)'
    BY <1>2, <1>4, <1>5, <1>6 DEF LinkState, Entries
  <1>8. QED
    BY <1>3, <1>7

LEMMA AppendInv ==
  ASSUME IInv, NEW r \in Requests, Append(r), TypeOK'
  PROVE  IInv'
  <1> USE DEF IInv
  <1>1. /\ stage[r] = "linked" /\ stage'[r] = "ended" /\ logged' = logged \cup {r}
        /\ \A q \in Requests \ {r} : stage'[q] = stage[q]
        /\ UNCHANGED <<subject, before, prev>>
    BY DEF Append, TypeOK
  <1>2. ASSUME NEW p \in Requests PROVE Order(p)'
    BY <1>1 DEF Order, TypeOK
  <1>3. \A p \in Requests : r \notin before[p].stored
    BY <1>1 DEF Order, LinkState
  <1>4. ASSUME NEW p \in Requests PROVE LinkState(p)'
    <2>1. Entries(subject[p])' \cap before[p].stored = Entries(subject[p]) \cap before[p].stored
      BY <1>1, <1>3 DEF Entries
    <2>2. Entries(subject[p]) \subseteq Entries(subject[p])'
      BY <1>1 DEF Entries
    <2>3. stage'[p] = "linked" \/ p \in logged' => stage[p] = "linked" \/ p \in logged
      BY <1>1
    <2>4. QED
      BY <1>1, <2>1, <2>2, <2>3 DEF LinkState
  <1>5. QED
    BY <1>2, <1>4

LEMMA LeaveInv ==
  ASSUME IInv, NEW r \in Requests, Leave(r), TypeOK'
  PROVE  IInv'
  <1> USE DEF IInv
  <1>1. /\ stage[r] \in {"open", "linked"} /\ stage'[r] = "ended" /\ prev'[r] = None
        /\ \A q \in Requests \ {r} : stage'[q] = stage[q] /\ prev'[q] = prev[q]
        /\ UNCHANGED <<subject, before, logged>>
    BY DEF Leave, TypeOK
  <1>2. ASSUME NEW p \in Requests PROVE Order(p)'
    BY <1>1 DEF Order, TypeOK
  <1>3. ASSUME NEW p \in Requests PROVE LinkState(p)'
    BY <1>1 DEF LinkState, Entries
  <1>4. QED
    BY <1>2, <1>3

LEMMA NextInv ==
  ASSUME IInv, [Next]_vars
  PROVE  IInv'
  <1>1. TypeOK'
    BY NextType DEF IInv
  <1>2. CASE UNCHANGED vars
    BY <1>2 DEF IInv, TypeOK, Order, LinkState, Entries, vars
  <1>3. QED
    BY <1>1, <1>2, BeginInv, LinkInv, AppendInv, LeaveInv DEF Next

(* Begins, ends and links stay in order in every reachable state. *)
THEOREM InductiveInvariant == Spec => []IInv
  BY InitInv, NextInv, PTL DEF Spec

-----------------------------------------------------------------------------
(* What follows from it *)

(* If e was stored when f began, f has seen e and chains to it or to what    *)
(* began later; chaining to the same entry t as e, it has seen a t that     *)
(* began after e and was stored before e read.                              *)
LEMMA SerialLinks ==
  ASSUME IInv, NEW e \in logged, NEW f \in logged, e # f, subject[e] = subject[f],
         prev[e] = prev[f], e \in before[f].stored
  PROVE  prev[e] # None /\ Overlap(e, prev[e])
  <1> USE DEF IInv
  <1>1. e \in Requests /\ f \in Requests /\ e \in Entries(subject[f])
    BY DEF TypeOK, Entries
  <1>2. prev[f] # None /\ (prev[f] = e \/ e \in before[prev[f]].begun)
    BY <1>1 DEF LinkState
  <1>3. /\ prev[e] # None /\ prev[e] # e /\ prev[e] \in Requests
        /\ e \notin before[prev[e]].stored
    BY <1>1, <1>2 DEF LinkState, Entries, TypeOK
  <1>4. prev[e] \notin before[e].stored
    BY <1>1, <1>2, <1>3 DEF Order
  <1>5. QED
    BY <1>3, <1>4 DEF Overlap

(* The evidence of a subject is one line unless transactions overlap. *)
THEOREM OneLineWithoutOverlap == Spec => []ForksNeedOverlap
  <1>1. IInv => ForksNeedOverlap
    <2> SUFFICES ASSUME IInv, NEW e \in logged, NEW f \in logged, e # f,
                        subject[e] = subject[f], prev[e] = prev[f], ~Overlap(e, f)
                 PROVE  prev[e] # None /\ (Overlap(e, prev[e]) \/ Overlap(f, prev[f]))
      BY DEF ForksNeedOverlap
    <2>1. CASE e \in before[f].stored
      BY <2>1, SerialLinks
    <2>2. CASE f \in before[e].stored
      BY <2>2, SerialLinks
    <2>3. QED
      BY <2>1, <2>2 DEF Overlap
  <1>2. QED
    BY <1>1, InductiveInvariant, PTL

(* Whatever rolls back, an entry is chained to a stored one of its subject. *)
THEOREM LinksAreStored == Spec => []NoBrokenLinks
  <1>1. IInv => NoBrokenLinks
    BY DEF IInv, NoBrokenLinks, LinkState, TypeOK
  <1>2. QED
    BY <1>1, InductiveInvariant, PTL

(* Evidence is never taken back, and its prev_hash is final. *)
THEOREM EvidenceIsFinal == Spec => AppendOnly
  <1>1. IInv /\ [Next]_vars => [\A e \in logged : e \in logged' /\ prev'[e] = prev[e]]_vars
    <2> SUFFICES ASSUME IInv, NEW r \in Requests, Begin(r) \/ Link(r) \/ Append(r) \/ Leave(r)
                 PROVE  \A e \in logged : e \in logged' /\ prev'[e] = prev[e]
      BY DEF Next
    <2>1. stage[r] # "ended"
      BY DEF Begin, Link, Append, Leave
    <2>2. r \notin logged
      BY <2>1 DEF IInv, LinkState
    <2>3. QED
      BY <2>2 DEF Begin, Link, Append, Leave, IInv, TypeOK
  <1>2. QED
    BY <1>1, InductiveInvariant, PTL DEF Spec, AppendOnly

=============================================================================
