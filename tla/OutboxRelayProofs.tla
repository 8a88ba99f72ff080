------------------------- MODULE OutboxRelayProofs -------------------------
(***************************************************************************)
(* Proofs about OutboxRelay, for every set of messages and cycles and      *)
(* every batch size, number of attempts and budget.                        *)
(***************************************************************************)
EXTENDS OutboxRelay, FiniteSetTheorems, FunctionTheorems, TLAPS

-----------------------------------------------------------------------------
(* Types *)

LEMMA InitType == Init => TypeOK
  BY NumbersAssumption DEF Init, TypeOK, Months, Outcomes

(* Giving a row its outcome, and giving up the claims, keep the types.     *)
LEMMA FinishType ==
  ASSUME TypeOK, NEW w \in Relays, at[w] \in Messages,
         NEW o \in Outcomes, Finish(w, o)
  PROVE  /\ batch' \in [Relays -> [Messages -> Outcomes]]
         /\ sentIn' \in [Messages -> Months \cup {None}]
         /\ pc' \in [Relays -> {"idle", "next", "skip", "warn", "call"}]
         /\ at' \in [Relays -> Messages \cup {None}]
         /\ since' \in [Relays -> Months \cup {None}]
  BY DEF TypeOK, Finish

LEMMA EndCycleType ==
  ASSUME TypeOK, NEW w \in Relays, EndCycle(w)
  PROVE  /\ batch' \in [Relays -> [Messages -> Outcomes]]
         /\ pc' \in [Relays -> {"idle", "next", "skip", "warn", "call"}]
         /\ at' \in [Relays -> Messages \cup {None}]
         /\ since' \in [Relays -> Months \cup {None}]
  <1>1. batch' \in [Relays -> [Messages -> Outcomes]]
    BY DEF TypeOK, EndCycle, Outcomes
  <1>2. QED
    BY <1>1 DEF TypeOK, EndCycle

LEMMA AcceptType ==
  ASSUME TypeOK, NEW w \in Relays, at[w] \in Messages, Accept(w) \/ Refuse
  PROVE  accepted' \in [Messages -> Nat] /\ billed' \in [Months -> Nat]
  <1>1. CASE Accept(w)
    <2>1. accepted[at[w]] + 1 \in Nat /\ billed[month] + 1 \in Nat
      BY DEF TypeOK
    <2>2. QED
      BY <1>1, <2>1 DEF TypeOK, Accept
  <1>2. CASE Refuse
    BY <1>2 DEF TypeOK, Refuse
  <1>3. QED
    BY <1>1, <1>2

LEMMA RollBackType ==
  ASSUME TypeOK, NEW w \in Relays, RollBack(w),
         accepted' \in [Messages -> Nat], billed' \in [Months -> Nat],
         crashes' \in 0..MaxCrashes, refused' \in 0..MaxRefused
  PROVE  TypeOK'
  <1>1. sentIn' \in [Messages -> Months \cup {None}]
    BY DEF RollBack, TypeOK
  <1>2. QED
    BY <1>1, EndCycleType DEF RollBack, TypeOK, stored

LEMMA TypeStep ==
  ASSUME IInv, [Next]_vars
  PROVE  TypeOK'
  <1> USE DEF IInv
  <1>1. ASSUME NEW m \in Messages, Enqueue(m) PROVE TypeOK'
    BY <1>1 DEF TypeOK, Enqueue, cycle
  <1>2. ASSUME NEW w \in Relays, Claim(w) PROVE TypeOK'
    <2>1. batch' \in [Relays -> [Messages -> Outcomes]]
      BY <1>2 DEF TypeOK, Claim, Outcomes
    <2>2. QED
      BY <1>2, <2>1 DEF TypeOK, Claim, stored
  <1>3. ASSUME NEW w \in Relays, TakeRow(w) PROVE TypeOK'
    BY <1>3 DEF TypeOK, TakeRow, With, stored
  <1>4. ASSUME NEW w \in Relays, CountAlerts(w) PROVE TypeOK'
    <2>1. at[w] \in Messages
      BY <1>4 DEF CountAlerts, CycleState, With
    <2>2. CASE Finish(w, "skipped")
      BY <1>4, <2>1, <2>2, FinishType DEF TypeOK, CountAlerts, stored, Outcomes
    <2>3. CASE ~Finish(w, "skipped")
      BY <1>4, <2>3 DEF TypeOK, CountAlerts, stored
    <2>4. QED
      BY <2>2, <2>3
  <1>5. ASSUME NEW w \in Relays, RaiseAlert(w) PROVE TypeOK'
    <2>1. at[w] \in Messages /\ since[w] \in Months
      BY <1>5 DEF RaiseAlert, CycleState, With
    <2>2. QED
      BY <1>5, <2>1, FinishType DEF TypeOK, RaiseAlert, stored, Outcomes
  <1>6. ASSUME NEW w \in Relays, Send(w) PROVE TypeOK'
    <2>1. at[w] \in Messages
      BY <1>6 DEF Send, CycleState, With
    <2>2. PICK o \in {"sent", "overlong", "failed"} : Finish(w, o)
      BY <1>6 DEF Send
    <2>3. Accept(w) \/ Refuse
      BY <1>6 DEF Send
    <2>4. QED
      BY <1>6, <2>1, <2>2, <2>3, FinishType, AcceptType
      DEF TypeOK, Send, stored, Outcomes
  <1>7. ASSUME NEW w \in Relays, Commit(w) PROVE TypeOK'
    <2>1. \A m \in With(w, {"failed"}) : m \in Messages /\ attempts[m] < MaxAttempts
      <3>1. ASSUME NEW m \in With(w, {"failed"})
            PROVE  m \in Messages /\ attempts[m] < MaxAttempts
        BY <3>1 DEF With, ClaimsAreApart, Claimed, RowState
      <3>2. QED
        BY <3>1
    <2>2. attempts' \in [Messages -> 0..MaxAttempts]
      BY <1>7, <2>1, NumbersAssumption DEF TypeOK, Commit
    <2>3. row' \in [Messages -> {"absent", "pending", "sent", "dead"}]
      BY <1>7 DEF TypeOK, Commit
    <2>4. QED
      BY <1>7, <2>2, <2>3, EndCycleType
      DEF TypeOK, Commit, With, Exhausted, Delivered
  <1>8. ASSUME NEW w \in Relays, CommitRefused(w) PROVE TypeOK'
    <2>1. refused' \in 0..MaxRefused
      BY <1>8, NumbersAssumption DEF TypeOK, CommitRefused
    <2>2. QED
      BY <1>8, <2>1, RollBackType DEF TypeOK, CommitRefused
  <1>9. ASSUME NEW w \in Relays, Crash(w) PROVE TypeOK'
    <2>1. crashes' \in 0..MaxCrashes
      BY <1>9, NumbersAssumption DEF TypeOK, Crash
    <2>2. accepted' \in [Messages -> Nat] /\ billed' \in [Months -> Nat]
      <3>1. CASE Refuse
        BY <3>1 DEF TypeOK, Refuse
      <3>2. CASE pc[w] = "call" /\ Accept(w)
        BY <3>2, AcceptType DEF CycleState, With
      <3>3. QED
        BY <1>9, <3>1, <3>2 DEF Crash
    <2>3. QED
      BY <1>9, <2>1, <2>2, RollBackType DEF TypeOK, Crash
  <1>10. ASSUME NEW m \in Messages, Elapse(m) PROVE TypeOK'
    BY <1>10 DEF TypeOK, Elapse, cycle
  <1>11. CASE NewMonth
    BY <1>11, NumbersAssumption DEF TypeOK, NewMonth, Months, stored, cycle
  <1>12. CASE UNCHANGED vars
    BY <1>12 DEF TypeOK, vars, stored, cycle
  <1>13. QED
    BY <1>1, <1>2, <1>3, <1>4, <1>5, <1>6, <1>7, <1>8, <1>9, <1>10, <1>11, <1>12
    DEF Next, Cycle

-----------------------------------------------------------------------------
(* Claims *)

(* What changes when a row of a batch gets its outcome, and when the claims *)
(* of a cycle are released.                                                 *)
LEMMA FinishBatch ==
  ASSUME TypeOK, NEW w \in Relays, at[w] \in With(w, {"todo"}),
         NEW o \in Outcomes \ {"none"}, Finish(w, o)
  PROVE  /\ batch'[w][at[w]] = o
         /\ \A m \in Messages \ {at[w]} : batch'[w][m] = batch[w][m]
         /\ \A v \in Relays \ {w} : batch'[v] = batch[v]
         /\ \A v \in Relays : Claimed(v)' = Claimed(v)
  <1>1. /\ batch'[w][at[w]] = o
        /\ \A m \in Messages \ {at[w]} : batch'[w][m] = batch[w][m]
        /\ \A v \in Relays \ {w} : batch'[v] = batch[v]
    BY DEF TypeOK, Finish, With
  <1>2. \A v \in Relays : Claimed(v)' = Claimed(v)
    BY <1>1 DEF Claimed, With
  <1>3. QED
    BY <1>1, <1>2

LEMMA EndCycleBatch ==
  ASSUME TypeOK, NEW w \in Relays, EndCycle(w)
  PROVE  /\ Claimed(w)' = {}
         /\ \A m \in Messages : batch'[w][m] = "none"
         /\ \A v \in Relays \ {w} : batch'[v] = batch[v] /\ Claimed(v)' = Claimed(v)
  <1>1. /\ \A m \in Messages : batch'[w][m] = "none"
        /\ \A v \in Relays \ {w} : batch'[v] = batch[v]
    BY DEF TypeOK, EndCycle
  <1>2. QED
    BY <1>1 DEF Claimed

(* The steps that only give outcomes leave rows and claims as they are.     *)
LEMMA SameClaims ==
  ASSUME ClaimsAreApart, row' = row, \A w \in Relays : Claimed(w)' \subseteq Claimed(w)
  PROVE  ClaimsAreApart'
  BY DEF ClaimsAreApart

LEMMA ClaimsStep ==
  ASSUME IInv, [Next]_vars
  PROVE  ClaimsAreApart'
  <1> USE DEF IInv
  <1>1. ASSUME NEW m \in Messages, Enqueue(m) PROVE ClaimsAreApart'
    <2>1. \A w \in Relays : Claimed(w)' = Claimed(w)
      BY <1>1 DEF Enqueue, cycle, Claimed
    <2>2. \A n \in Messages : row[n] = "pending" => row'[n] = "pending"
      BY <1>1 DEF TypeOK, Enqueue
    <2>3. QED
      BY <2>1, <2>2 DEF ClaimsAreApart, Claimed
  <1>2. ASSUME NEW w \in Relays, Claim(w) PROVE ClaimsAreApart'
    <2>1. PICK B \in SUBSET {m \in Messages : Claimable(m)} :
            batch' = [batch EXCEPT ![w] = [m \in Messages |-> IF m \in B THEN "todo" ELSE "none"]]
      BY <1>2 DEF Claim
    <2>2. Claimed(w)' = B /\ \A v \in Relays \ {w} : Claimed(v)' = Claimed(v)
      BY <2>1 DEF TypeOK, Claimed
    <2>3. \A m \in B : row[m] = "pending" /\ \A v \in Relays : m \notin Claimed(v)
      BY <2>1 DEF Claimable
    <2>4. row' = row
      BY <1>2 DEF Claim, stored
    <2>5. QED
      BY <2>2, <2>3, <2>4 DEF ClaimsAreApart
  <1>3. ASSUME NEW w \in Relays, TakeRow(w) PROVE ClaimsAreApart'
    BY <1>3, SameClaims DEF TakeRow, stored, Claimed
  <1>4. ASSUME NEW w \in Relays, CountAlerts(w) PROVE ClaimsAreApart'
    <2>1. CASE Finish(w, "skipped")
      BY <1>4, <2>1, FinishBatch, SameClaims DEF CountAlerts, CycleState, Outcomes, stored
    <2>2. CASE ~Finish(w, "skipped")
      BY <1>4, <2>2, SameClaims DEF CountAlerts, stored, Claimed
    <2>3. QED
      BY <2>1, <2>2
  <1>5. ASSUME NEW w \in Relays, RaiseAlert(w) PROVE ClaimsAreApart'
    BY <1>5, FinishBatch, SameClaims DEF RaiseAlert, CycleState, Outcomes, stored
  <1>6. ASSUME NEW w \in Relays, Send(w) PROVE ClaimsAreApart'
    <2>1. PICK o \in {"sent", "overlong", "failed"} : Finish(w, o)
      BY <1>6 DEF Send
    <2>2. QED
      BY <1>6, <2>1, FinishBatch, SameClaims DEF Send, CycleState, Outcomes, stored
  <1>7. ASSUME NEW w \in Relays, Commit(w) PROVE ClaimsAreApart'
    <2>1. Claimed(w)' = {} /\ \A v \in Relays \ {w} : Claimed(v)' = Claimed(v)
      BY <1>7, EndCycleBatch DEF Commit
    <2>2. \A m \in Messages \ Claimed(w) : row'[m] = row[m]
      BY <1>7 DEF TypeOK, Commit, Delivered, Exhausted, With, Claimed
    <2>3. QED
      BY <2>1, <2>2 DEF ClaimsAreApart, Claimed
  <1>8. ASSUME NEW w \in Relays, RollBack(w) PROVE ClaimsAreApart'
    BY <1>8, EndCycleBatch, SameClaims DEF RollBack, stored
  <1>9. ASSUME NEW m \in Messages, Elapse(m) PROVE ClaimsAreApart'
    BY <1>9, SameClaims DEF Elapse, cycle, Claimed
  <1>10. CASE NewMonth \/ UNCHANGED vars
    BY <1>10, SameClaims DEF NewMonth, vars, stored, cycle, Claimed
  <1>11. QED
    BY <1>1, <1>2, <1>3, <1>4, <1>5, <1>6, <1>7, <1>8, <1>9, <1>10
    DEF Next, Cycle, CommitRefused, Crash

(* Where the cycles are.  A step of one cycle leaves the others alone.      *)
LEMMA SameCycle ==
  ASSUME NEW v \in Relays, CycleState(v),
         pc'[v] = pc[v], at'[v] = at[v], since'[v] = since[v], batch'[v] = batch[v]
  PROVE  CycleState(v)'
  BY DEF CycleState, Claimed, With, Gated, Months

LEMMA CycleStep ==
  ASSUME IInv, [Next]_vars, NEW v \in Relays
  PROVE  CycleState(v)'
  <1> USE DEF IInv
  <1>1. CASE UNCHANGED cycle
    BY <1>1, SameCycle DEF cycle
  <1>2. ASSUME NEW w \in Relays, Cycle(w) \/ Crash(w), w # v PROVE CycleState(v)'
    <2>1. /\ pc'[v] = pc[v] /\ at'[v] = at[v]
          /\ since'[v] = since[v] /\ batch'[v] = batch[v]
      BY <1>2 DEF TypeOK, Cycle, Claim, TakeRow, CountAlerts, RaiseAlert, Send, Finish,
                  Commit, CommitRefused, Crash, RollBack, EndCycle
    <2>2. QED
      BY <2>1, SameCycle
  <1>3. CASE Claim(v)
    BY <1>3 DEF TypeOK, Claim, CycleState
  <1>4. CASE TakeRow(v)
    <2>1. PICK m \in With(v, {"todo"}) :
            /\ at' = [at EXCEPT ![v] = m]
            /\ pc' = [pc EXCEPT ![v] = IF Gated(m) /\ SentThisMonth >= Cap
                                       THEN "skip" ELSE "call"]
            /\ batch' = batch
      BY <1>4 DEF TakeRow
    <2>2. at'[v] = m /\ pc'[v] \in {"skip", "call"} /\ (pc'[v] = "skip" => Gated(m))
      BY <2>1 DEF TypeOK
    <2>3. QED
      BY <2>1, <2>2 DEF CycleState, With, Gated
  <1>5. CASE \E o \in Outcomes : Finish(v, o)
    BY <1>5 DEF TypeOK, Finish, CycleState
  <1>6. CASE CountAlerts(v) /\ ~Finish(v, "skipped")
    <2>1. /\ pc[v] = "skip" /\ pc'[v] = "warn" /\ since'[v] = month
          /\ batch' = batch /\ at' = at
      BY <1>6 DEF TypeOK, CountAlerts
    <2>2. month \in Months
      BY DEF TypeOK
    <2>3. QED
      BY <2>1, <2>2 DEF CycleState, With, Gated, Months
  <1>7. CASE EndCycle(v)
    <2>1. Claimed(v)' = {}
      BY <1>7, EndCycleBatch
    <2>2. pc'[v] = "idle"
      BY <1>7 DEF TypeOK, EndCycle
    <2>3. QED
      BY <2>1, <2>2 DEF CycleState
  <1>8. QED
    BY <1>1, <1>2, <1>3, <1>4, <1>5, <1>6, <1>7
    DEF Next, Cycle, vars, Enqueue, Elapse, NewMonth, CountAlerts, RaiseAlert, Send,
        Commit, CommitRefused, Crash, RollBack, Outcomes

-----------------------------------------------------------------------------
(* Outcomes and committed rows *)

(* Nothing takes back an alert or what the provider has taken. *)
LEMMA Monotone ==
  ASSUME IInv, [Next]_vars
  PROVE  /\ Warned => Warned'
         /\ \A m \in Messages : accepted'[m] >= accepted[m]
         /\ crashes' >= crashes /\ refused' >= refused
  <1> USE DEF IInv
  <1>1. Warned => Warned'
    <2>1. CASE capAlerts' = capAlerts
      BY <2>1 DEF Warned, Months
    <2>2. ASSUME NEW w \in Relays, RaiseAlert(w) PROVE Warned'
      <3>1. since[w] \in Months /\ capAlerts[since[w]] \in Nat
        BY <2>2 DEF RaiseAlert, CycleState, TypeOK
      <3>2. capAlerts'[since[w]] > 0
        BY <2>2, <3>1 DEF RaiseAlert, TypeOK
      <3>3. QED
        BY <3>1, <3>2 DEF Warned, Months
    <2>3. QED
      BY <2>1, <2>2
      DEF Next, Cycle, vars, Enqueue, Elapse, NewMonth, Claim, TakeRow, CountAlerts,
          Send, Commit, CommitRefused, Crash, RollBack
  <1>2. \A m \in Messages : accepted'[m] >= accepted[m]
    <2>1. CASE accepted' = accepted
      BY <2>1 DEF TypeOK
    <2>2. CASE \E w \in Relays : Accept(w)
      BY <2>2 DEF TypeOK, Accept
    <2>3. QED
      BY <2>1, <2>2
      DEF Next, Cycle, vars, Enqueue, Elapse, NewMonth, Claim, TakeRow, CountAlerts,
          RaiseAlert, Send, Commit, CommitRefused, Crash, Refuse
  <1>3. crashes' >= crashes
    BY NumbersAssumption
    DEF TypeOK, Next, Cycle, vars, Enqueue, Elapse, NewMonth, Claim, TakeRow, CountAlerts,
        RaiseAlert, Send, Commit, CommitRefused, Crash
  <1>4. refused' >= refused
    BY NumbersAssumption
    DEF TypeOK, Next, Cycle, vars, Enqueue, Elapse, NewMonth, Claim, TakeRow, CountAlerts,
        RaiseAlert, Send, Commit, CommitRefused, Crash
  <1>5. QED
    BY <1>1, <1>2, <1>3, <1>4

(* Outcomes that were earned before remain so. *)
LEMMA OutcomesStay ==
  ASSUME IInv, [Next]_vars, NEW v \in Relays, batch'[v] = batch[v]
  PROVE  /\ \A m \in With(v, {"sent", "overlong"})' : accepted'[m] > 0
         /\ \A m \in With(v, {"skipped"})' : Gated(m) /\ Warned'
  <1>1. \A m \in Messages : accepted[m] \in Nat /\ accepted'[m] \in Nat
    BY TypeStep DEF IInv, TypeOK
  <1>2. QED
    BY <1>1, Monotone DEF IInv, OutcomesAreEarned, With

LEMMA OutcomesStep ==
  ASSUME IInv, [Next]_vars
  PROVE  OutcomesAreEarned'
  <1> USE DEF IInv
  <1> SUFFICES ASSUME NEW v \in Relays
               PROVE  /\ \A m \in With(v, {"sent", "overlong"})' : accepted'[m] > 0
                      /\ \A m \in With(v, {"skipped"})' : Gated(m) /\ Warned'
    BY DEF OutcomesAreEarned, Gated
  <1>1. CASE batch'[v] = batch[v]
    BY <1>1, OutcomesStay
  <1>2. CASE \A m \in Messages : batch'[v][m] \in {"none", "todo"}
    BY <1>2 DEF With
  <1>3. ASSUME NEW o \in {"sent", "overlong", "skipped", "failed"}, Finish(v, o),
               pc[v] \in {"skip", "warn", "call"},
               o \in {"sent", "overlong"} => accepted'[at[v]] > 0,
               o = "skipped" => Gated(at[v]) /\ Warned'
        PROVE  /\ \A m \in With(v, {"sent", "overlong"})' : accepted'[m] > 0
               /\ \A m \in With(v, {"skipped"})' : Gated(m) /\ Warned'
    <2>1. /\ batch'[v][at[v]] = o
          /\ \A m \in Messages \ {at[v]} : batch'[v][m] = batch[v][m]
      BY <1>3, FinishBatch DEF CycleState, Outcomes
    <2>2. \A m \in Messages : accepted[m] \in Nat /\ accepted'[m] \in Nat
      BY TypeStep DEF TypeOK
    <2>3. QED
      BY <1>3, <2>1, <2>2, Monotone DEF OutcomesAreEarned, With
  <1>4. CASE CountAlerts(v) /\ Finish(v, "skipped")
    <2>1. month \in Months /\ capAlerts[month] \in Nat /\ AlreadyWarned
      BY <1>4 DEF TypeOK, CountAlerts, Finish
    <2>2. Warned
      BY <2>1 DEF Warned, AlreadyWarned
    <2>3. QED
      BY <1>3, <1>4, <2>2, Monotone DEF CountAlerts, CycleState
  <1>5. CASE RaiseAlert(v)
    <2>1. since[v] \in Months /\ capAlerts[since[v]] \in Nat
      BY <1>5 DEF RaiseAlert, CycleState, TypeOK
    <2>2. capAlerts'[since[v]] > 0
      BY <1>5, <2>1 DEF RaiseAlert, TypeOK
    <2>3. Warned'
      BY <2>1, <2>2 DEF Warned, Months
    <2>4. QED
      BY <1>3, <1>5, <2>3 DEF RaiseAlert, CycleState
  <1>6. CASE Send(v)
    <2>1. at[v] \in Messages /\ accepted[at[v]] \in Nat
      BY <1>6 DEF Send, CycleState, With, TypeOK
    <2>2. Accept(v) => accepted'[at[v]] > 0
      BY <2>1 DEF Accept, TypeOK
    <2>3. PICK o \in {"sent", "overlong", "failed"} :
            Finish(v, o) /\ (o \in {"sent", "overlong"} => Accept(v))
      BY <1>6 DEF Send
    <2>4. QED
      BY <1>3, <1>6, <2>2, <2>3 DEF Send
  <1>7. CASE Claim(v)
    <2>1. \A m \in Messages : batch'[v][m] \in {"none", "todo"}
      BY <1>7 DEF TypeOK, Claim
    <2>2. QED
      BY <1>2, <2>1
  <1>8. CASE EndCycle(v)
    <2>1. \A m \in Messages : batch'[v][m] = "none"
      BY <1>8, EndCycleBatch
    <2>2. QED
      BY <1>2, <2>1
  <1>9. ASSUME NEW w \in Relays, Cycle(w) \/ Crash(w), w # v PROVE batch'[v] = batch[v]
    BY <1>9 DEF TypeOK, Cycle, Claim, TakeRow, CountAlerts, RaiseAlert, Send, Finish,
                Commit, CommitRefused, Crash, RollBack, EndCycle
  <1>10. QED
    BY <1>1, <1>4, <1>5, <1>6, <1>7, <1>8, <1>9
    DEF Next, Cycle, vars, cycle, Enqueue, Elapse, NewMonth, TakeRow, CountAlerts,
        Commit, CommitRefused, Crash, RollBack

(* A row whose columns, outcomes and claims do not change keeps its state.  *)
LEMMA SameRow ==
  ASSUME IInv, [Next]_vars, NEW m \in Messages,
         row'[m] = row[m], attempts'[m] = attempts[m],
         m \in skipped' <=> m \in skipped,
         m \in undeliverable' <=> m \in undeliverable,
         accepted'[m] = accepted[m],
         Uncounted(m) => Uncounted(m)'
  PROVE  RowState(m)'
  <1>1. /\ accepted[m] \in Nat /\ attempts[m] \in Nat
        /\ crashes \in Nat /\ refused \in Nat /\ crashes' \in Nat /\ refused' \in Nat
    BY TypeStep, NumbersAssumption DEF IInv, TypeOK
  <1>2. crashes' >= crashes /\ refused' >= refused /\ (Warned => Warned')
    BY Monotone
  <1>3. RowState(m)
    BY DEF IInv
  <1>4. (m \in skipped)' => (row[m] = "sent")' /\ Gated(m) /\ Warned'
    BY <1>2, <1>3 DEF RowState
  <1>5. /\ accepted'[m] <= 1 + crashes' + refused' + attempts'[m]
        /\ ~Uncounted(m) => accepted'[m] <= crashes' + refused' + attempts'[m]
    BY <1>1, <1>2, <1>3 DEF RowState
  <1>6. QED
    BY <1>3, <1>4, <1>5 DEF RowState, Gated

(* A step that gives the row at[w] an outcome: m = at[w] is pending and has *)
(* no outcome in any batch; the other rows keep theirs.                     *)
LEMMA TakenRow ==
  ASSUME IInv, NEW w \in Relays, pc[w] \in {"skip", "warn", "call"}
  PROVE  /\ at[w] \in Messages /\ row[at[w]] = "pending"
         /\ ~Uncounted(at[w])
  <1>1. at[w] \in Messages /\ at[w] \in Claimed(w) /\ batch[w][at[w]] = "todo"
    BY DEF IInv, CycleState, With, Claimed
  <1>2. row[at[w]] = "pending" /\ \A v \in Relays \ {w} : at[w] \notin Claimed(v)
    BY <1>1 DEF IInv, ClaimsAreApart
  <1>3. QED
    BY <1>1, <1>2 DEF Uncounted, With, Claimed

LEMMA FinishUncounted ==
  ASSUME IInv, NEW w \in Relays, pc[w] \in {"skip", "warn", "call"},
         NEW o \in {"sent", "overlong", "skipped", "failed"}, Finish(w, o), row' = row
  PROVE  /\ \A m \in Messages : Uncounted(m) => Uncounted(m)'
         /\ \A m \in Messages : m = at[w] /\ o # "skipped" => Uncounted(m)'
  <1>1. /\ batch'[w][at[w]] = o
        /\ \A m \in Messages \ {at[w]} : batch'[w][m] = batch[w][m]
        /\ \A v \in Relays \ {w} : batch'[v] = batch[v]
    BY FinishBatch DEF IInv, CycleState, Outcomes
  <1>2. at[w] \in Messages /\ ~Uncounted(at[w])
    BY TakenRow
  <1>3. QED
    BY <1>1, <1>2 DEF Uncounted, With

(* A lost batch explains one more copy. *)
LEMMA OneMore ==
  ASSUME NEW c \in Nat, NEW r \in Nat, NEW c1 \in Nat, NEW r1 \in Nat,
         NEW n \in Nat, NEW k \in Nat,
         c1 + r1 = c + r + 1, n <= 1 + c + r + k
  PROVE  n <= c1 + r1 + k
  OBVIOUS

LEMMA RowStep ==
  ASSUME IInv, [Next]_vars, NEW m \in Messages
  PROVE  RowState(m)'
  <1> USE DEF IInv
  <1>a. /\ accepted[m] \in Nat /\ attempts[m] \in Nat /\ accepted'[m] \in Nat
        /\ attempts'[m] \in Nat /\ MaxAttempts \in Nat
        /\ crashes \in Nat /\ refused \in Nat /\ crashes' \in Nat /\ refused' \in Nat
    BY TypeStep, NumbersAssumption DEF TypeOK
  <1>b. RowState(m)
    OBVIOUS
  <1>1. ASSUME NEW n \in Messages, Enqueue(n) PROVE RowState(m)'
    <2>1. CASE m = n
      <3>1. row[m] = "absent" /\ row'[m] = "pending" /\ accepted'[m] = accepted[m]
            /\ attempts' = attempts /\ skipped' = skipped
            /\ undeliverable' = undeliverable /\ UNCHANGED <<crashes, refused>>
        BY <1>1, <2>1 DEF Enqueue, TypeOK
      <3>2. QED
        BY <1>a, <1>b, <3>1 DEF RowState
    <2>2. CASE m # n
      BY <1>1, <2>2, SameRow DEF Enqueue, TypeOK, cycle, Uncounted, With
    <2>3. QED
      BY <2>1, <2>2
  <1>2. ASSUME NEW w \in Relays, Claim(w) PROVE RowState(m)'
    <2>1. Claimed(w) = {}
      BY <1>2 DEF Claim, CycleState
    <2>2. \A v \in Relays \ {w} : batch'[v] = batch[v]
      BY <1>2 DEF Claim, TypeOK
    <2>3. Uncounted(m) => Uncounted(m)'
      BY <1>2, <2>1, <2>2 DEF Claim, stored, Uncounted, With, Claimed
    <2>4. QED
      BY <1>2, <2>3, SameRow DEF Claim, stored
  <1>3. ASSUME NEW w \in Relays, TakeRow(w) PROVE RowState(m)'
    BY <1>3, SameRow DEF TakeRow, stored, Uncounted, With
  <1>4. ASSUME NEW w \in Relays, CountAlerts(w) PROVE RowState(m)'
    <2>1. Uncounted(m) => Uncounted(m)'
      <3>1. CASE Finish(w, "skipped")
        BY <1>4, <3>1, FinishUncounted DEF CountAlerts, stored
      <3>2. CASE ~Finish(w, "skipped")
        BY <1>4, <3>2 DEF CountAlerts, stored, Uncounted, With
      <3>3. QED
        BY <3>1, <3>2
    <2>2. QED
      BY <1>4, <2>1, SameRow DEF CountAlerts, stored
  <1>5. ASSUME NEW w \in Relays, RaiseAlert(w) PROVE RowState(m)'
    <2>1. Uncounted(m) => Uncounted(m)'
      BY <1>5, FinishUncounted DEF RaiseAlert, stored
    <2>2. QED
      BY <1>5, <2>1, SameRow DEF RaiseAlert, stored
  <1>6. ASSUME NEW w \in Relays, Send(w) PROVE RowState(m)'
    <2>1. PICK o \in {"sent", "overlong", "failed"} : Finish(w, o)
      BY <1>6 DEF Send
    <2>2. Accept(w) \/ Refuse
      BY <1>6 DEF Send
    <2>3. (Uncounted(m) => Uncounted(m)') /\ (m = at[w] => Uncounted(m)')
      BY <1>6, <2>1, FinishUncounted DEF Send, stored
    <2>4. CASE Refuse \/ m # at[w]
      <3>1. accepted'[m] = accepted[m]
        BY <2>2, <2>4 DEF Accept, Refuse, TypeOK
      <3>2. QED
        BY <1>6, <2>3, <3>1, SameRow DEF Send, stored
    <2>5. CASE Accept(w) /\ m = at[w]
      <3>1. accepted'[m] = accepted[m] + 1
        BY <1>a, <2>5 DEF Accept, TypeOK
      <3>2. row[m] = "pending" /\ ~Uncounted(m)
        BY <1>6, <2>5, TakenRow DEF Send
      <3>3. /\ UNCHANGED <<row, attempts, skipped, undeliverable, crashes, refused>>
            /\ Warned => Warned'
        BY <1>6, Monotone DEF Send, stored
      <3>4. accepted'[m] <= 1 + crashes' + refused' + attempts'[m]
        BY <1>a, <1>b, <3>1, <3>2, <3>3 DEF RowState
      <3>5. QED
        BY <1>b, <2>3, <2>5, <3>2, <3>3, <3>4 DEF RowState, Gated
    <2>6. QED
      BY <2>2, <2>4, <2>5
  <1>7. ASSUME NEW w \in Relays, Commit(w) PROVE RowState(m)'
    <2>1. /\ Claimed(w)' = {}
          /\ \A v \in Relays \ {w} : batch'[v] = batch[v]
      BY <1>7, EndCycleBatch DEF Commit
    <2>2. UNCHANGED <<accepted, crashes, refused, capAlerts>>
      BY <1>7 DEF Commit
    <2>3. CASE m \notin Claimed(w)
      <3>1. /\ row'[m] = row[m] /\ attempts'[m] = attempts[m]
            /\ m \in skipped' <=> m \in skipped
            /\ m \in undeliverable' <=> m \in undeliverable
        BY <1>7, <2>3 DEF TypeOK, Commit, Delivered, Exhausted, With, Claimed
      <3>2. Uncounted(m) => Uncounted(m)'
        BY <2>1, <2>3, <3>1 DEF Uncounted, With, Claimed
      <3>3. QED
        BY <2>2, <3>1, <3>2, SameRow
    <2>4. CASE m \in Claimed(w)
      <3>1. row[m] = "pending" /\ m \notin skipped /\ m \notin undeliverable
        BY <2>4, <1>b DEF ClaimsAreApart, RowState
      <3>2. batch[w][m] \in {"sent", "skipped", "failed"}
        BY <1>7, <2>4 DEF Commit, With, Claimed, TypeOK, Outcomes
      <3>3. accepted[m] <= 1 + crashes + refused + attempts[m]
        BY <1>a, <1>b DEF RowState
      <3>4. CASE batch[w][m] \in {"sent", "skipped"}
        <4>1. /\ row'[m] = "sent" /\ attempts'[m] = attempts[m]
              /\ m \in skipped' <=> batch[w][m] = "skipped"
              /\ m \notin undeliverable'
          BY <1>7, <3>1, <3>4 DEF TypeOK, Commit, Delivered, Exhausted, With
        <4>2. batch[w][m] = "sent" => accepted[m] > 0
          BY DEF OutcomesAreEarned, With
        <4>3. batch[w][m] = "skipped" => Gated(m) /\ Warned
          BY DEF OutcomesAreEarned, With
        <4>4. Uncounted(m)'
          BY <4>1 DEF Uncounted
        <4>5. accepted'[m] > 0 \/ m \in skipped'
          BY <2>2, <3>4, <4>1, <4>2
        <4>6. m \in skipped' => Gated(m)' /\ Warned'
          BY <2>2, <4>1, <4>3 DEF Gated, Warned, Months
        <4>7. accepted'[m] <= 1 + crashes' + refused' + attempts'[m]
          BY <2>2, <3>3, <4>1
        <4>8. QED
          BY <4>1, <4>4, <4>5, <4>6, <4>7 DEF RowState
      <3>5. CASE batch[w][m] = "failed"
        <4>1. attempts'[m] = attempts[m] + 1 /\ m \notin skipped'
          BY <1>7, <3>1, <3>5 DEF TypeOK, Commit, With
        <4>2. accepted'[m] <= crashes' + refused' + attempts'[m]
          BY <1>a, <2>2, <3>3, <4>1
        <4>3. CASE attempts[m] + 1 >= MaxAttempts
          <5>1. row'[m] = "dead" /\ m \in undeliverable'
            BY <1>7, <3>5, <4>3 DEF TypeOK, Commit, Delivered, Exhausted, With
          <5>2. QED
            BY <1>a, <4>1, <4>2, <5>1 DEF RowState
        <4>4. CASE ~(attempts[m] + 1 >= MaxAttempts)
          <5>1. row'[m] = "pending" /\ m \notin undeliverable'
            BY <1>7, <3>1, <3>5, <4>4 DEF TypeOK, Commit, Delivered, Exhausted, With
          <5>2. QED
            BY <1>a, <4>1, <4>2, <4>4, <5>1 DEF RowState
        <4>5. QED
          BY <4>3, <4>4
      <3>6. QED
        BY <3>2, <3>4, <3>5
    <2>5. QED
      BY <2>3, <2>4
  <1>8. ASSUME NEW w \in Relays, CommitRefused(w) \/ Crash(w) PROVE RowState(m)'
    <2>1. RollBack(w) /\ UNCHANGED stored /\ UNCHANGED capAlerts
      BY <1>8 DEF CommitRefused, Crash, RollBack
    <2>2. crashes' + refused' = crashes + refused + 1
      <3>1. CASE CommitRefused(w)
        <4>1. crashes' = crashes /\ refused' = refused + 1
          BY <3>1 DEF CommitRefused
        <4>2. QED
          BY <1>a, <4>1
      <3>2. CASE Crash(w)
        <4>1. crashes' = crashes + 1 /\ refused' = refused
          BY <3>2 DEF Crash
        <4>2. QED
          BY <1>a, <4>1
      <3>3. QED
        BY <1>8, <3>1, <3>2
    <2>3. accepted'[m] = accepted[m] \/ (pc[w] = "call" /\ Accept(w))
      BY <1>8 DEF CommitRefused, Crash, Refuse
    <2>4. CASE accepted'[m] = accepted[m]
      <3>1. accepted'[m] <= crashes' + refused' + attempts'[m]
        <4>1. accepted[m] <= 1 + crashes + refused + attempts[m]
          BY <1>b DEF RowState
        <4>2. attempts'[m] = attempts[m]
          BY <2>1 DEF stored
        <4>3. QED
          BY <1>a, <2>2, <2>4, <4>1, <4>2, OneMore
      <3>2. QED
        BY <1>a, <1>b, <2>1, <2>4, <3>1 DEF RowState, stored, Gated, Warned, Months
    <2>5. CASE accepted'[m] # accepted[m]
      <3>1. m = at[w] /\ accepted'[m] = accepted[m] + 1
        BY <1>a, <2>3, <2>5 DEF Accept, TypeOK
      <3>2. row[m] = "pending" /\ ~Uncounted(m)
        BY <2>3, <2>5, <3>1, TakenRow
      <3>3. accepted'[m] <= crashes' + refused' + attempts'[m]
        <4>1. accepted[m] <= crashes + refused + attempts[m]
          BY <1>b, <3>2 DEF RowState
        <4>2. attempts'[m] = attempts[m]
          BY <2>1 DEF stored
        <4>3. accepted'[m] <= 1 + crashes + refused + attempts'[m]
          BY <1>a, <3>1, <4>1, <4>2
        <4>4. QED
          BY <1>a, <2>2, <4>3, OneMore
      <3>4. QED
        BY <1>a, <1>b, <2>1, <3>2, <3>3 DEF RowState, stored, Gated, Warned, Months
    <2>6. QED
      BY <2>4, <2>5
  <1>9. ASSUME NEW n \in Messages, Elapse(n) PROVE RowState(m)'
    BY <1>9, SameRow DEF Elapse, cycle, Uncounted, With
  <1>10. CASE NewMonth \/ UNCHANGED vars
    BY <1>10, SameRow DEF NewMonth, vars, stored, cycle, Uncounted, With
  <1>11. QED
    BY <1>1, <1>2, <1>3, <1>4, <1>5, <1>6, <1>7, <1>8, <1>9, <1>10 DEF Next, Cycle

-----------------------------------------------------------------------------
(* Theorems *)

LEMMA InitInvariant == Init => IInv
  <1> SUFFICES ASSUME Init PROVE IInv
    OBVIOUS
  <1>1. TypeOK
    BY InitType
  <1>2. \A w \in Relays : Claimed(w) = {} /\ pc[w] = "idle"
    BY DEF Init, Claimed
  <1>3. (\A w \in Relays : CycleState(w)) /\ ClaimsAreApart
    BY <1>2 DEF CycleState, ClaimsAreApart
  <1>4. OutcomesAreEarned
    BY <1>2 DEF OutcomesAreEarned, With, Claimed
  <1>5. \A m \in Messages : RowState(m)
    BY NumbersAssumption DEF Init, RowState
  <1>6. QED
    BY <1>1, <1>3, <1>4, <1>5 DEF IInv

LEMMA NextInvariant == IInv /\ [Next]_vars => IInv'
  BY TypeStep, ClaimsStep, CycleStep, OutcomesStep, RowStep DEF IInv

(* Claims, outcomes and counters of the relay stay consistent in every      *)
(* interleaving of cycles, crashes and refused commits.                     *)
THEOREM InductiveInvariant == Spec => []IInv
  BY InitInvariant, NextInvariant, PTL DEF Spec

(* The columns keep their types; attempts never exceeds len(BACKOFF).       *)
THEOREM TypeCorrect == Spec => []TypeOK
  <1>1. IInv => TypeOK
    BY DEF IInv
  <1>2. QED
    BY <1>1, InductiveInvariant, PTL

(* SKIP LOCKED and the commit of a whole batch: the provider takes a        *)
(* message once, and once more for every lost batch and failed attempt.     *)
THEOREM Duplicates == Spec => []DuplicatesAreExplained
  <1>1. IInv => DuplicatesAreExplained
    BY DEF IInv, RowState, DuplicatesAreExplained
  <1>2. QED
    BY <1>1, InductiveInvariant, PTL

(* record_skip commits in a transaction of its own, so no routine SMS is    *)
(* dropped without the alert, and no other message is dropped at all.       *)
THEOREM Drops == Spec => []DropsAreAnnounced
  <1>1. IInv => DropsAreAnnounced
    BY DEF IInv, TypeOK, RowState, DropsAreAnnounced, Gated, Warned
  <1>2. QED
    BY <1>1, InductiveInvariant, PTL

(* The month that record_skip is about to warn of has not been warned of.   *)
OneAlert ==
  /\ OneCapAlertPerMonth
  /\ \A w \in Relays : pc[w] = "warn" => capAlerts[since[w]] = 0

(* With one cycle at a time, as the scheduler runs it (max_instances=1),    *)
(* record_skip raises one alert per month although it checks before it      *)
(* inserts.                                                                 *)
THEOREM OneAlertPerMonth ==
  ASSUME \A v, w \in Relays : v = w
  PROVE  Spec => []OneCapAlertPerMonth
  <1>1. Init => OneAlert
    BY DEF Init, OneAlert, OneCapAlertPerMonth
  <1>2. IInv /\ IInv' /\ OneAlert /\ [Next]_vars => OneAlert'
    <2> SUFFICES ASSUME IInv, IInv', OneAlert, [Next]_vars PROVE OneAlert'
      OBVIOUS
    <2>1. ASSUME NEW w \in Relays, CountAlerts(w) PROVE OneAlert'
      <3>1. CASE Finish(w, "skipped")
        BY <2>1, <3>1 DEF CountAlerts, Finish, OneAlert, OneCapAlertPerMonth, IInv, TypeOK, Months
      <3>2. CASE ~Finish(w, "skipped")
        <4>1. /\ month \in Months /\ capAlerts[month] = 0 /\ since'[w] = month
              /\ capAlerts' = capAlerts
          BY <2>1, <3>2 DEF CountAlerts, AlreadyWarned, IInv, TypeOK
        <4>2. QED
          BY <4>1 DEF OneAlert, OneCapAlertPerMonth, Months
      <3>3. QED
        BY <3>1, <3>2
    <2>2. ASSUME NEW w \in Relays, RaiseAlert(w) PROVE OneAlert'
      <3>1. since[w] \in Months /\ capAlerts[since[w]] = 0 /\ pc'[w] = "next"
        BY <2>2 DEF RaiseAlert, Finish, IInv, CycleState, OneAlert, TypeOK
      <3>2. \A k \in Months : capAlerts'[k] <= 1
        BY <2>2, <3>1 DEF RaiseAlert, OneAlert, OneCapAlertPerMonth, IInv, TypeOK
      <3>3. QED
        BY <3>1, <3>2 DEF OneAlert, OneCapAlertPerMonth, Months
    <2>3. ASSUME NEW w \in Relays,
                 Claim(w) \/ TakeRow(w) \/ Send(w) \/ Commit(w) \/ RollBack(w),
                 capAlerts' = capAlerts
          PROVE  OneAlert'
      <3>1. pc'[w] # "warn"
        BY <2>3 DEF Claim, TakeRow, Send, Finish, Commit, RollBack, EndCycle, IInv, TypeOK
      <3>2. QED
        BY <2>3, <3>1 DEF OneAlert, OneCapAlertPerMonth, Months
    <2>4. CASE UNCHANGED <<cycle, capAlerts>>
      BY <2>4 DEF cycle, OneAlert, OneCapAlertPerMonth, Months
    <2>5. QED
      BY <2>1, <2>2, <2>3, <2>4
      DEF Next, Cycle, vars, Enqueue, Elapse, NewMonth, Claim, TakeRow, Send,
          Commit, CommitRefused, Crash, RollBack
  <1>3. OneAlert => OneCapAlertPerMonth
    BY DEF OneAlert
  <1>4. QED
    BY <1>1, <1>2, <1>3, InductiveInvariant, PTL DEF Spec

-----------------------------------------------------------------------------
(* Overlapping cycles: how often the customer is warned of the budget       *)

(* The cycles that have found no alert of month k and will insert one       *)
Warners(k) == {w \in Relays : pc[w] = "warn" /\ since[w] = k}

(* A cycle counts once: before it inserts as a warner, then as an alert.    *)
WarnersAreCounted ==
  \A k \in Months : capAlerts[k] + Cardinality(Warners(k)) <= Cardinality(Relays)

LEMMA WarnersAreFew ==
  ASSUME NEW k \in Months
  PROVE  /\ IsFiniteSet(Warners(k)) /\ Cardinality(Warners(k)) \in Nat
         /\ Cardinality(Relays) \in Nat
         /\ Cardinality(Warners(k)) <= Cardinality(Relays)
  <1>1. Warners(k) \in SUBSET Relays
    BY DEF Warners
  <1>2. QED
    BY <1>1, FiniteAssumption, FS_Subset, FS_CardinalityType

(* A step that inserts nothing and after which no more cycles will insert.  *)
LEMMA NoMoreWarners ==
  ASSUME TypeOK, WarnersAreCounted, NEW k \in Months, capAlerts'[k] = capAlerts[k],
         Warners(k)' \subseteq Warners(k)
  PROVE  capAlerts'[k] + Cardinality(Warners(k)') <= Cardinality(Relays)
  <1>1. /\ Cardinality(Warners(k)') \in Nat
        /\ Cardinality(Warners(k)') <= Cardinality(Warners(k))
    BY WarnersAreFew, FS_Subset, FS_CardinalityType
  <1>2. capAlerts[k] \in Nat /\ Cardinality(Warners(k)) \in Nat /\ Cardinality(Relays) \in Nat
    BY WarnersAreFew DEF TypeOK
  <1>3. QED
    BY <1>1, <1>2 DEF WarnersAreCounted

LEMMA WarnersStep ==
  ASSUME IInv, WarnersAreCounted, [Next]_vars
  PROVE  WarnersAreCounted'
  <1> USE DEF IInv
  <1> SUFFICES ASSUME NEW k \in Months
               PROVE  capAlerts'[k] + Cardinality(Warners(k)') <= Cardinality(Relays)
    BY DEF WarnersAreCounted, Months
  <1>1. ASSUME NEW w \in Relays, CountAlerts(w)
        PROVE  capAlerts'[k] + Cardinality(Warners(k)') <= Cardinality(Relays)
    <2>1. capAlerts' = capAlerts
      BY <1>1 DEF CountAlerts
    <2>2. CASE Finish(w, "skipped") \/ k # month
      <3>1. Warners(k)' \subseteq Warners(k)
        BY <1>1, <2>2 DEF CountAlerts, Finish, Warners, TypeOK
      <3>2. QED
        BY <2>1, <3>1, NoMoreWarners
    <2>3. CASE ~Finish(w, "skipped") /\ k = month
      <3>1. capAlerts[k] = 0
        BY <1>1, <2>3 DEF CountAlerts, AlreadyWarned, TypeOK
      <3>2. Warners(k)' \in SUBSET Relays
        BY DEF Warners
      <3>3. Cardinality(Warners(k)') \in Nat /\ Cardinality(Warners(k)') <= Cardinality(Relays)
        BY <3>2, FiniteAssumption, FS_Subset, FS_CardinalityType
      <3>4. QED
        BY <2>1, <3>1, <3>3
    <2>4. QED
      BY <2>2, <2>3
  <1>2. ASSUME NEW w \in Relays, RaiseAlert(w)
        PROVE  capAlerts'[k] + Cardinality(Warners(k)') <= Cardinality(Relays)
    <2>1. since[w] \in Months /\ pc[w] = "warn" /\ pc' = [pc EXCEPT ![w] = "next"]
      BY <1>2 DEF RaiseAlert, CycleState, Finish
    <2>2. CASE k # since[w]
      <3>1. capAlerts'[k] = capAlerts[k] /\ Warners(k)' \subseteq Warners(k)
        BY <1>2, <2>1, <2>2 DEF RaiseAlert, Finish, Warners, TypeOK
      <3>2. QED
        BY <3>1, NoMoreWarners
    <2>3. CASE k = since[w]
      <3>1. capAlerts[k] \in Nat /\ capAlerts'[k] = capAlerts[k] + 1
        BY <1>2, <2>1, <2>3 DEF RaiseAlert, TypeOK
      <3>2. Warners(k)' = Warners(k) \ {w} /\ w \in Warners(k)
        BY <1>2, <2>1, <2>3 DEF RaiseAlert, Finish, Warners, TypeOK
      <3>3. Cardinality(Warners(k)') = Cardinality(Warners(k)) - 1
        BY <3>2, WarnersAreFew, FS_RemoveElement
      <3>4. QED
        BY <3>1, <3>3, WarnersAreFew DEF WarnersAreCounted
    <2>4. QED
      BY <2>2, <2>3
  <1>3. ASSUME NEW w \in Relays,
               Claim(w) \/ TakeRow(w) \/ Send(w) \/ Commit(w) \/ RollBack(w),
               capAlerts' = capAlerts
        PROVE  capAlerts'[k] + Cardinality(Warners(k)') <= Cardinality(Relays)
    <2>1. Warners(k)' \subseteq Warners(k)
      BY <1>3 DEF Claim, TakeRow, Send, Finish, Commit, RollBack, EndCycle, Warners, TypeOK
    <2>2. QED
      BY <1>3, <2>1, NoMoreWarners
  <1>4. CASE UNCHANGED <<cycle, capAlerts>>
    <2>1. Warners(k)' = Warners(k)
      BY <1>4 DEF cycle, Warners
    <2>2. QED
      BY <1>4, <2>1, NoMoreWarners
  <1>5. QED
    BY <1>1, <1>2, <1>3, <1>4
    DEF Next, Cycle, vars, Enqueue, Elapse, NewMonth, Claim, TakeRow, Send,
        Commit, CommitRefused, Crash, RollBack

(* Cycles that overlap may all count the alerts of the month before one of  *)
(* them inserts, but each inserts at most one: record_skip raises no more   *)
(* alerts per month than cycles run at a time.                              *)
THEOREM AlertPerCycle == Spec => []CapAlertsBounded
  <1>1. Init => WarnersAreCounted
    <2> SUFFICES ASSUME Init, NEW k \in Months
                 PROVE  capAlerts[k] + Cardinality(Warners(k)) <= Cardinality(Relays)
      BY DEF WarnersAreCounted
    <2>1. capAlerts[k] = 0
      BY DEF Init
    <2>2. QED
      BY <2>1, WarnersAreFew
  <1>2. IInv /\ WarnersAreCounted => CapAlertsBounded
    <2> SUFFICES ASSUME IInv, WarnersAreCounted, NEW k \in Months
                 PROVE  capAlerts[k] <= Cardinality(Relays)
      BY DEF CapAlertsBounded
    <2>1. capAlerts[k] \in Nat
      BY DEF IInv, TypeOK
    <2>2. QED
      BY <2>1, WarnersAreFew DEF WarnersAreCounted
  <1>3. IInv /\ WarnersAreCounted /\ [Next]_vars => WarnersAreCounted'
    BY WarnersStep
  <1>4. QED
    BY <1>1, <1>2, <1>3, InductiveInvariant, PTL DEF Spec

-----------------------------------------------------------------------------
(* The budget of SMS *)

(* Finitely many sets of at most n elements have at most n elements each.   *)
LEMMA SumOfSizes ==
  ASSUME NEW R, IsFiniteSet(R), NEW n \in Nat, NEW C,
         \A w \in R : IsFiniteSet(C[w]) /\ Cardinality(C[w]) <= n
  PROVE  LET S == UNION {C[w] : w \in R}
         IN  IsFiniteSet(S) /\ Cardinality(S) <= Cardinality(R) * n
  <1> DEFINE S == UNION {C[w] : w \in R}
             g == [w \in R |-> CHOOSE h : h \in Injection(C[w], 1..n)]
             owner == [m \in S |-> CHOOSE w \in R : m \in C[w]]
             f == [m \in S |-> <<owner[m], g[owner[m]][m]>>]
  <1>1. ASSUME NEW w \in R PROVE g[w] \in Injection(C[w], 1..n)
    <2>1. /\ Cardinality(C[w]) \in Nat /\ Cardinality(C[w]) <= n
          /\ ExistsBijection(C[w], 1..Cardinality(C[w]))
      BY FS_CardinalityType, Fun_ExistsBijSymmetric
    <2>2. PICK h : h \in Bijection(C[w], 1..Cardinality(C[w]))
      BY <2>1 DEF ExistsBijection
    <2>3. h \in [C[w] -> 1..Cardinality(C[w])] /\ IsInjective(h)
      BY <2>2 DEF Bijection, Injection
    <2>4. h \in [C[w] -> 1..n]
      BY <2>1, <2>3
    <2>5. h \in Injection(C[w], 1..n)
      BY <2>3, <2>4 DEF Injection
    <2>6. QED
      BY <2>5
  <1>2. ASSUME NEW m \in S PROVE owner[m] \in R /\ m \in C[owner[m]]
    <2>1. \E w \in R : m \in C[w]
      OBVIOUS
    <2>2. QED
      BY <2>1
  <1>3. ASSUME NEW m \in S PROVE g[owner[m]][m] \in 1..n
    <2>1. g[owner[m]] \in [C[owner[m]] -> 1..n]
      BY <1>1, <1>2 DEF Injection
    <2>2. QED
      BY <1>2, <2>1
  <1>4. f \in [S -> R \X (1..n)]
    BY <1>2, <1>3
  <1>a. DOMAIN f = S /\ \A m \in S : f[m] = <<owner[m], g[owner[m]][m]>>
    OBVIOUS
  <1> HIDE DEF S, g, owner, f
  <1>5. ASSUME NEW a \in S, NEW b \in S, f[a] = f[b] PROVE a = b
    <2>1. owner[a] = owner[b] /\ g[owner[a]][a] = g[owner[a]][b]
      BY <1>5, <1>a
    <2>2. owner[a] \in R /\ a \in C[owner[a]] /\ b \in C[owner[a]]
      BY <1>2, <2>1
    <2>3. g[owner[a]] \in [C[owner[a]] -> 1..n] /\ IsInjective(g[owner[a]])
      BY <1>1, <2>2 DEF Injection
    <2>4. QED
      BY <2>1, <2>2, <2>3 DEF IsInjective
  <1>6. f \in Injection(S, R \X (1..n))
    <2>1. IsInjective(f)
      BY <1>5, <1>a DEF IsInjective
    <2>2. QED
      BY <1>4, <2>1 DEF Injection
  <1>7. IsFiniteSet(1..n) /\ Cardinality(1..n) = n
    BY FS_Interval
  <1>8. /\ IsFiniteSet(R \X (1..n))
        /\ Cardinality(R \X (1..n)) = Cardinality(R) * n
    BY <1>7, FS_Product
  <1>9. IsFiniteSet(S) /\ Cardinality(S) <= Cardinality(R \X (1..n))
    BY <1>6, <1>8, FS_Injection
  <1>10. QED
    BY <1>8, <1>9 DEF S

(* The routine SMS that a batch holds as sent in month k, and the one that  *)
(* a cycle is handing over at the moment, which may count for this month    *)
(* when the answer comes.                                                   *)
Uncommitted(k) ==
  {m \in Sms \ Critical : sentIn[m] = k /\ \E w \in Relays : m \in With(w, {"sent", "overlong"})}
BeingSent(k) ==
  {m \in Sms \ Critical : month = k /\ \E w \in Relays : pc[w] = "call" /\ at[w] = m}

(* All that month k is charged with, or will be unless it is lost           *)
Charged(k) == RoutineSmsOf(k) \cup Uncommitted(k) \cup BeingSent(k)

(* A batch is no larger than BATCH_SIZE, no row was sent in the future, and *)
(* every month is charged with no more than the budget and its overrun.     *)
BatchesFit == \A w \in Relays : Cardinality(Claimed(w)) <= BatchSize
SentBefore == \A m \in Messages : sentIn[m] \in Months => sentIn[m] <= month
ChargedWithin == \A k \in Months : Cardinality(Charged(k)) <= Overrun
BudgetInv == BatchesFit /\ SentBefore /\ ChargedWithin

(* A row that gets its outcome was charged, as the one being sent, before.  *)
LEMMA FinishCharges ==
  ASSUME IInv, NEW w \in Relays, pc[w] \in {"skip", "warn", "call"},
         NEW o \in {"sent", "overlong", "skipped", "failed"}, Finish(w, o),
         o \in {"sent", "overlong"} => pc[w] = "call",
         row' = row, skipped' = skipped, month' = month, NEW k \in Months
  PROVE  Charged(k)' \subseteq Charged(k)
  <1>1. /\ at[w] \in Messages /\ row[at[w]] = "pending" /\ at[w] \in Claimed(w)
        /\ \A v \in Relays \ {w} : at[w] \notin Claimed(v)
    BY TakenRow DEF IInv, CycleState, With, Claimed, ClaimsAreApart
  <1>2. /\ batch'[w][at[w]] = o
        /\ \A m \in Messages \ {at[w]} : batch'[w][m] = batch[w][m]
        /\ \A v \in Relays \ {w} : batch'[v] = batch[v]
    BY FinishBatch DEF IInv, CycleState, Outcomes
  <1>3. /\ \A m \in Messages \ {at[w]} : sentIn'[m] = sentIn[m]
        /\ o \in {"sent", "overlong"} => sentIn'[at[w]] = month
        /\ pc'[w] = "next"
        /\ \A v \in Relays \ {w} : pc'[v] = pc[v] /\ at'[v] = at[v]
    BY <1>1 DEF Finish, IInv, TypeOK
  <1>4. RoutineSmsOf(k)' \subseteq RoutineSmsOf(k)
    BY <1>1, <1>3, SetsAssumption DEF RoutineSmsOf
  <1>5. Uncommitted(k)' \subseteq Uncommitted(k) \cup BeingSent(k)
    <2> SUFFICES ASSUME NEW m \in Uncommitted(k)' PROVE m \in Uncommitted(k) \cup BeingSent(k)
      OBVIOUS
    <2>1. /\ m \in Sms \ Critical /\ m \in Messages /\ sentIn'[m] = k
          /\ \E v \in Relays : batch'[v][m] \in {"sent", "overlong"}
      BY SetsAssumption DEF Uncommitted, With
    <2>2. PICK v \in Relays : batch'[v][m] \in {"sent", "overlong"}
      BY <2>1
    <2>3. CASE m = at[w]
      <3>1. v = w
        BY <1>1, <1>2, <2>2, <2>3 DEF Claimed
      <3>2. pc[w] = "call" /\ month = k
        BY <1>2, <1>3, <2>1, <2>2, <2>3, <3>1
      <3>3. QED
        BY <2>1, <2>3, <3>2 DEF BeingSent
    <2>4. CASE m # at[w]
      <3>1. batch[v][m] \in {"sent", "overlong"} /\ sentIn[m] = k
        BY <1>2, <1>3, <2>1, <2>2, <2>4
      <3>2. QED
        BY <2>1, <3>1 DEF Uncommitted, With
    <2>5. QED
      BY <2>3, <2>4
  <1>6. BeingSent(k)' \subseteq BeingSent(k)
    BY <1>3 DEF BeingSent
  <1>7. QED
    BY <1>4, <1>5, <1>6 DEF Charged

(* A commit charges a month with what it was charged with before; what a    *)
(* lost batch had sent is not charged any more.                             *)
LEMMA CommitCharges ==
  ASSUME IInv, NEW w \in Relays, Commit(w), NEW k \in Months
  PROVE  Charged(k)' \subseteq Charged(k)
  <1>1. /\ \A m \in Messages : batch'[w][m] = "none"
        /\ \A v \in Relays \ {w} : batch'[v] = batch[v]
    BY EndCycleBatch DEF Commit, IInv
  <1>2. RoutineSmsOf(k)' \subseteq RoutineSmsOf(k) \cup Uncommitted(k)
    <2> SUFFICES ASSUME NEW m \in RoutineSmsOf(k)'
                 PROVE  m \in RoutineSmsOf(k) \cup Uncommitted(k)
      OBVIOUS
    <2>1. /\ m \in Sms \ Critical /\ m \in Messages /\ row'[m] = "sent"
          /\ m \notin skipped' /\ sentIn'[m] = k
      BY SetsAssumption DEF RoutineSmsOf
    <2>2. /\ sentIn[m] = k /\ m \notin skipped /\ m \notin With(w, {"skipped"})
      BY <2>1 DEF Commit
    <2>3. row[m] = "sent" \/ m \in Delivered(w)
      BY <2>1 DEF Commit
    <2>4. m \in Delivered(w) => m \in With(w, {"sent", "overlong"})
      BY <2>2 DEF Delivered, With
    <2>5. QED
      BY <2>1, <2>2, <2>3, <2>4 DEF RoutineSmsOf, Uncommitted
  <1>3. Uncommitted(k)' \subseteq Uncommitted(k)
    BY <1>1, SetsAssumption DEF Uncommitted, With, Commit
  <1>4. BeingSent(k)' \subseteq BeingSent(k)
    BY DEF BeingSent, Commit, EndCycle, IInv, TypeOK
  <1>5. QED
    BY <1>2, <1>3, <1>4 DEF Charged

LEMMA RollBackCharges ==
  ASSUME IInv, NEW w \in Relays, RollBack(w), NEW k \in Months
  PROVE  Charged(k)' \subseteq Charged(k)
  <1>1. /\ \A m \in Messages : batch'[w][m] = "none"
        /\ \A v \in Relays \ {w} : batch'[v] = batch[v]
    BY EndCycleBatch DEF RollBack, IInv
  <1>2. \A m \in Messages : sentIn'[m] = k => sentIn[m] = k
    BY NoneAssumption DEF RollBack, Months
  <1>3. RoutineSmsOf(k)' \subseteq RoutineSmsOf(k)
    BY <1>2, SetsAssumption DEF RoutineSmsOf, RollBack, stored
  <1>4. Uncommitted(k)' \subseteq Uncommitted(k)
    BY <1>1, <1>2, SetsAssumption DEF Uncommitted, With
  <1>5. BeingSent(k)' \subseteq BeingSent(k)
    BY DEF BeingSent, RollBack, EndCycle, IInv, TypeOK
  <1>6. QED
    BY <1>3, <1>4, <1>5 DEF Charged

(* The rows that are in flight: no more than the batches hold. *)
InFlight == UNION {Claimed(w) : w \in Relays}

LEMMA FlightIsBounded ==
  ASSUME BatchesFit
  PROVE  /\ IsFiniteSet(InFlight)
         /\ Cardinality(InFlight) <= Cardinality(Relays) * BatchSize
         /\ \A w \in Relays : Claimed(w) \subseteq InFlight
  <1> DEFINE C == [w \in Relays |-> Claimed(w)]
  <1>1. \A w \in Relays : IsFiniteSet(Claimed(w))
    <2> SUFFICES ASSUME NEW w \in Relays PROVE IsFiniteSet(Claimed(w))
      OBVIOUS
    <2>1. Claimed(w) \in SUBSET Messages
      BY DEF Claimed
    <2>2. QED
      BY <2>1, FiniteAssumption, FS_Subset
  <1>2. \A w \in Relays : IsFiniteSet(C[w]) /\ Cardinality(C[w]) <= BatchSize
    BY <1>1 DEF BatchesFit
  <1>3. \A w \in Relays : Claimed(w) \subseteq InFlight
    BY DEF InFlight
  <1>a. InFlight = UNION {C[w] : w \in Relays}
    BY DEF InFlight
  <1> HIDE DEF C
  <1>4. LET S == UNION {C[w] : w \in Relays}
        IN  IsFiniteSet(S) /\ Cardinality(S) <= Cardinality(Relays) * BatchSize
    BY <1>2, FiniteAssumption, NumbersAssumption, SumOfSizes
  <1>5. QED
    BY <1>3, <1>4, <1>a

(* What a month is charged with is a finite set, so less of it is no more.  *)
LEMMA LessIsCharged ==
  ASSUME ChargedWithin, NEW k \in Months, NEW T \in SUBSET Charged(k)
  PROVE  Cardinality(T) <= Overrun
  <1>1. Charged(k) \in SUBSET Messages
    BY SetsAssumption DEF Charged, RoutineSmsOf, Uncommitted, BeingSent
  <1>2. IsFiniteSet(Charged(k)) /\ IsFiniteSet(T)
    BY <1>1, FiniteAssumption, FS_Subset
  <1>3. /\ Cardinality(T) <= Cardinality(Charged(k))
        /\ Cardinality(T) \in Nat /\ Cardinality(Charged(k)) \in Nat
    BY <1>2, FS_Subset, FS_CardinalityType
  <1>4. Overrun \in Int
    BY FiniteAssumption, NumbersAssumption, FS_CardinalityType DEF Overrun
  <1>5. QED
    BY <1>3, <1>4 DEF ChargedWithin

(* The query of over_limit: when it lets a routine SMS pass, the budget is  *)
(* not spent by what is committed, and all the rest is in flight.           *)
LEMMA TakeRowCharges ==
  ASSUME IInv, BudgetInv, NEW w \in Relays, TakeRow(w), NEW k \in Months
  PROVE  Cardinality(Charged(k)') <= Overrun
  <1> USE DEF BudgetInv
  <1>1. UNCHANGED <<row, skipped, sentIn, month, batch>>
    BY DEF TakeRow, stored
  <1>2. PICK m \in With(w, {"todo"}) :
          /\ at' = [at EXCEPT ![w] = m]
          /\ pc' = [pc EXCEPT ![w] = IF Gated(m) /\ SentThisMonth >= Cap
                                     THEN "skip" ELSE "call"]
    BY DEF TakeRow
  <1>3. /\ m \in Claimed(w) /\ at'[w] = m
        /\ \A v \in Relays \ {w} : pc'[v] = pc[v] /\ at'[v] = at[v]
    BY <1>2 DEF With, Claimed, IInv, TypeOK
  <1>4. RoutineSmsOf(k)' = RoutineSmsOf(k) /\ Uncommitted(k)' = Uncommitted(k)
    BY <1>1 DEF RoutineSmsOf, Uncommitted, With
  <1>5. CASE pc'[w] # "call" \/ ~Gated(m) \/ month # k
    <2>1. BeingSent(k)' \subseteq BeingSent(k)
      BY <1>1, <1>3, <1>5 DEF BeingSent, Gated
    <2>2. QED
      BY <1>4, <2>1, LessIsCharged DEF Charged
  <1>6. CASE pc'[w] = "call" /\ Gated(m) /\ month = k
    <2> DEFINE Sent == {n \in Sms : row[n] = "sent" /\ sentIn[n] = month}
    <2>1. SentThisMonth < Cap
      <3>1. ~(SentThisMonth >= Cap)
        BY <1>2, <1>6 DEF IInv, TypeOK
      <3>2. Sent \in SUBSET Messages
        BY SetsAssumption
      <3>3. SentThisMonth \in Nat
        BY <3>2, FiniteAssumption, FS_Subset, FS_CardinalityType DEF SentThisMonth
      <3>4. QED
        BY <3>1, <3>3, NumbersAssumption
    <2>2. IsFiniteSet(Sent) /\ Cardinality(Sent) = SentThisMonth
      <3>1. Sent \in SUBSET Messages
        BY SetsAssumption
      <3>2. QED
        BY <3>1, FiniteAssumption, FS_Subset DEF SentThisMonth
    <2>3. Charged(k)' \subseteq Sent \cup InFlight
      <3>1. RoutineSmsOf(k) \subseteq Sent
        BY <1>6 DEF RoutineSmsOf
      <3>2. Uncommitted(k) \subseteq InFlight
        BY SetsAssumption, FlightIsBounded DEF Uncommitted, With, Claimed
      <3>3. BeingSent(k)' \subseteq InFlight
        <4> SUFFICES ASSUME NEW n \in BeingSent(k)' PROVE n \in InFlight
          OBVIOUS
        <4>1. PICK v \in Relays : pc'[v] = "call" /\ at'[v] = n
          BY DEF BeingSent
        <4>2. CASE v = w
          BY <1>3, <4>1, <4>2, FlightIsBounded
        <4>3. CASE v # w
          <5>1. n \in Claimed(v)
            BY <1>3, <4>1, <4>3 DEF IInv, CycleState, With, Claimed
          <5>2. QED
            BY <5>1, FlightIsBounded
        <4>4. QED
          BY <4>2, <4>3
      <3>4. QED
        BY <1>4, <3>1, <3>2, <3>3 DEF Charged
    <2> HIDE DEF Sent
    <2>4. /\ Cardinality(Charged(k)') <= Cardinality(Sent \cup InFlight)
          /\ IsFiniteSet(Charged(k)') /\ IsFiniteSet(Sent \cup InFlight)
      BY <2>2, <2>3, FlightIsBounded, FS_Union, FS_Subset
    <2>5. Cardinality(Sent \cup InFlight)
            = Cardinality(Sent) + Cardinality(InFlight) - Cardinality(Sent \cap InFlight)
      BY <2>2, FlightIsBounded, FS_Union
    <2>6. /\ Cardinality(Charged(k)') \in Nat /\ Cardinality(Sent) \in Nat
          /\ Cardinality(InFlight) \in Nat /\ Cardinality(Sent \cap InFlight) \in Nat
          /\ Cardinality(Relays) * BatchSize \in Nat
      <3>1. IsFiniteSet(Sent \cap InFlight)
        BY <2>2, FS_Intersection
      <3>2. Cardinality(Relays) \in Nat
        BY FiniteAssumption, FS_CardinalityType
      <3>3. Cardinality(Relays) * BatchSize \in Nat
        BY <3>2, NumbersAssumption
      <3>4. QED
        BY <2>2, <2>4, <3>1, <3>3, FlightIsBounded, FS_CardinalityType
    <2>7. Cap # 0 /\ Overrun = Cap - 1 + Cardinality(Relays) * BatchSize
      <3>1. SentThisMonth \in Nat
        BY <2>2, <2>6
      <3>2. QED
        BY <2>1, <3>1, NumbersAssumption DEF Overrun
    <2>8. Cardinality(InFlight) <= Cardinality(Relays) * BatchSize
      BY FlightIsBounded
    <2> DEFINE all == Cardinality(Relays) * BatchSize
    <2> HIDE DEF all
    <2>9. Cardinality(Charged(k)') <= Cap - 1 + all
      BY <2>1, <2>2, <2>4, <2>5, <2>6, <2>8, NumbersAssumption DEF all
    <2>10. QED
      BY <2>7, <2>9 DEF all
  <1>7. QED
    BY <1>5, <1>6

(* No step charges a month with more than its bound. *)
LEMMA ChargesStep ==
  ASSUME IInv, BudgetInv, [Next]_vars
  PROVE  ChargedWithin'
  <1> SUFFICES ASSUME NEW k \in Months PROVE Cardinality(Charged(k)') <= Overrun
    BY DEF ChargedWithin, Months, Overrun
  <1>a. ASSUME Charged(k)' \subseteq Charged(k) PROVE Cardinality(Charged(k)') <= Overrun
    BY <1>a, LessIsCharged DEF BudgetInv
  <1>1. ASSUME NEW w \in Relays, TakeRow(w) PROVE Cardinality(Charged(k)') <= Overrun
    BY <1>1, TakeRowCharges
  <1>2. ASSUME NEW w \in Relays, CountAlerts(w) PROVE Charged(k)' \subseteq Charged(k)
    <2>1. CASE Finish(w, "skipped")
      BY <1>2, <2>1, FinishCharges DEF CountAlerts, stored
    <2>2. CASE ~Finish(w, "skipped")
      BY <1>2, <2>2
      DEF CountAlerts, stored, Charged, RoutineSmsOf, Uncommitted, BeingSent, With, IInv, TypeOK
    <2>3. QED
      BY <2>1, <2>2
  <1>3. ASSUME NEW w \in Relays, RaiseAlert(w) PROVE Charged(k)' \subseteq Charged(k)
    BY <1>3, FinishCharges DEF RaiseAlert, stored
  <1>4. ASSUME NEW w \in Relays, Send(w) PROVE Charged(k)' \subseteq Charged(k)
    <2>1. PICK o \in {"sent", "overlong", "failed"} : Finish(w, o)
      BY <1>4 DEF Send
    <2>2. QED
      BY <1>4, <2>1, FinishCharges DEF Send, stored
  <1>5. ASSUME NEW w \in Relays, Claim(w) PROVE Charged(k)' \subseteq Charged(k)
    <2>1. /\ UNCHANGED <<row, skipped, sentIn, month, at>>
          /\ pc' = [pc EXCEPT ![w] = "next"]
          /\ \A m \in Messages : batch'[w][m] \in {"none", "todo"}
          /\ \A v \in Relays \ {w} : batch'[v] = batch[v]
      BY <1>5 DEF Claim, stored, IInv, TypeOK
    <2>2. Uncommitted(k)' \subseteq Uncommitted(k)
      BY <2>1 DEF Uncommitted, With
    <2>3. QED
      BY <2>1, <2>2 DEF Charged, RoutineSmsOf, BeingSent, IInv, TypeOK
  <1>6. ASSUME NEW m \in Messages, Enqueue(m) PROVE Charged(k)' \subseteq Charged(k)
    <2>1. \A n \in Messages : row'[n] = "sent" => row[n] = "sent"
      BY <1>6 DEF Enqueue, IInv, TypeOK
    <2>2. QED
      BY <1>6, <2>1, SetsAssumption
      DEF Enqueue, cycle, Charged, RoutineSmsOf, Uncommitted, BeingSent, With
  <1>7. CASE UNCHANGED <<row, skipped, sentIn, month, cycle>>
    <2>1. RoutineSmsOf(k)' = RoutineSmsOf(k)
      BY <1>7 DEF RoutineSmsOf
    <2>2. Uncommitted(k)' = Uncommitted(k)
      BY <1>7 DEF cycle, Uncommitted, With
    <2>3. BeingSent(k)' = BeingSent(k)
      BY <1>7 DEF cycle, BeingSent
    <2>4. QED
      BY <1>a, <2>1, <2>2, <2>3 DEF Charged
  <1>8. CASE NewMonth
    <2>1. month' = month + 1 /\ UNCHANGED <<row, skipped, sentIn, pc, batch, at>>
      BY <1>8 DEF NewMonth, stored, cycle
    <2>2. RoutineSmsOf(k)' = RoutineSmsOf(k) /\ Uncommitted(k)' = Uncommitted(k)
      BY <2>1 DEF RoutineSmsOf, Uncommitted, With
    <2>3. CASE k # month + 1
      <3>1. BeingSent(k)' = {}
        BY <2>1, <2>3 DEF BeingSent
      <3>2. QED
        BY <1>a, <2>2, <3>1 DEF Charged
    <2>4. CASE k = month + 1
      <3>1. ~(k <= month) /\ month \in Months
        BY <2>4, NumbersAssumption DEF IInv, TypeOK, Months
      <3>2. RoutineSmsOf(k) = {} /\ Uncommitted(k) = {}
        BY <3>1, SetsAssumption
        DEF RoutineSmsOf, Uncommitted, BudgetInv, SentBefore
      <3>3. BeingSent(k)' \subseteq BeingSent(month)
        BY <2>1 DEF BeingSent
      <3>4. Charged(k)' \subseteq Charged(month)
        BY <2>2, <3>2, <3>3 DEF Charged
      <3>5. QED
        BY <3>1, <3>4, LessIsCharged DEF BudgetInv
    <2>5. QED
      BY <2>3, <2>4
  <1>9. QED
    BY <1>a, <1>1, <1>2, <1>3, <1>4, <1>5, <1>6, <1>7, <1>8, CommitCharges, RollBackCharges
    DEF Next, Cycle, vars, stored, Elapse, CommitRefused, Crash

LEMMA SentBeforeStep ==
  ASSUME IInv, SentBefore, [Next]_vars
  PROVE  SentBefore'
  <1> SUFFICES ASSUME NEW m \in Messages, sentIn'[m] \in Months PROVE sentIn'[m] <= month'
    BY DEF SentBefore, Months
  <1>1. month \in Nat /\ month' \in Nat /\ month' >= month
    BY NumbersAssumption
    DEF IInv, TypeOK, Months, Next, Cycle, vars, stored, cycle, Enqueue, Elapse, NewMonth,
        Claim, TakeRow, CountAlerts, RaiseAlert, Send, Commit, CommitRefused, Crash, RollBack
  <1>2. CASE sentIn'[m] = sentIn[m]
    BY <1>1, <1>2 DEF SentBefore, Months
  <1>3. ASSUME NEW w \in Relays, NEW o, Finish(w, o), month' = month
        PROVE  sentIn'[m] <= month'
    BY <1>1, <1>2, <1>3 DEF Finish, IInv, TypeOK
  <1>4. ASSUME NEW w \in Relays, RollBack(w) PROVE sentIn'[m] <= month'
    BY <1>2, <1>4, NoneAssumption DEF RollBack, Months
  <1>5. QED
    BY <1>2, <1>3, <1>4
    DEF Next, Cycle, vars, stored, cycle, Enqueue, Elapse, NewMonth,
        Claim, TakeRow, CountAlerts, RaiseAlert, Send, Commit, CommitRefused, Crash

LEMMA BatchesStep ==
  ASSUME IInv, BatchesFit, [Next]_vars
  PROVE  BatchesFit'
  <1> SUFFICES ASSUME NEW v \in Relays PROVE Cardinality(Claimed(v)') <= BatchSize
    BY DEF BatchesFit
  <1>1. CASE Claimed(v)' = Claimed(v)
    BY <1>1 DEF BatchesFit
  <1>2. ASSUME NEW w \in Relays, EndCycle(w) PROVE Cardinality(Claimed(v)') <= BatchSize
    <2>1. CASE v = w
      BY <1>2, <2>1, EndCycleBatch, FS_EmptySet, NumbersAssumption DEF IInv
    <2>2. CASE v # w
      BY <1>1, <1>2, <2>2, EndCycleBatch DEF IInv
    <2>3. QED
      BY <2>1, <2>2
  <1>3. ASSUME NEW w \in Relays, Claim(w) PROVE Cardinality(Claimed(v)') <= BatchSize
    <2> DEFINE due == {m \in Messages : Claimable(m)}
    <2>1. PICK B \in SUBSET due :
            /\ Cardinality(B) = IF Cardinality(due) < BatchSize THEN Cardinality(due)
                                ELSE BatchSize
            /\ batch' = [batch EXCEPT ![w] = [m \in Messages |-> IF m \in B THEN "todo" ELSE "none"]]
      BY <1>3 DEF Claim
    <2>2. Claimed(w)' = B
      BY <2>1 DEF Claimed, IInv, TypeOK
    <2>3. Cardinality(due) \in Nat
      <3>1. due \in SUBSET Messages
        OBVIOUS
      <3>2. QED
        BY <3>1, FiniteAssumption, FS_Subset, FS_CardinalityType
    <2>4. CASE v = w
      BY <2>1, <2>2, <2>3, <2>4, NumbersAssumption
    <2>5. CASE v # w
      <3>1. Claimed(v)' = Claimed(v)
        BY <2>1, <2>5 DEF Claimed, IInv, TypeOK
      <3>2. QED
        BY <1>1, <3>1
    <2>6. QED
      BY <2>4, <2>5
  <1>4. ASSUME NEW w \in Relays, NEW o \in Outcomes \ {"none"}, Finish(w, o),
               pc[w] \in {"skip", "warn", "call"}
        PROVE  Cardinality(Claimed(v)') <= BatchSize
    BY <1>1, <1>4, FinishBatch DEF IInv, CycleState
  <1>5. CASE batch' = batch
    BY <1>1, <1>5 DEF Claimed
  <1>6. QED
    BY <1>2, <1>3, <1>4, <1>5
    DEF Next, Cycle, vars, cycle, Enqueue, Elapse, NewMonth, TakeRow, CountAlerts,
        RaiseAlert, Send, Commit, CommitRefused, Crash, RollBack, Outcomes

(* over_limit counts what is committed, in a session of its own, so a batch *)
(* and all that overlap it pass it together; but no interleaving, retry,    *)
(* crash or change of the month overruns the budget of a month by more than *)
(* what the cycles hold at a time.                                          *)
THEOREM BudgetOverrun == Spec => []BudgetIsBounded
  <1>1. Init => BudgetInv
    <2> SUFFICES ASSUME Init PROVE BudgetInv
      OBVIOUS
    <2>1. \A w \in Relays : Claimed(w) = {} /\ With(w, {"sent", "overlong"}) = {}
      BY DEF Init, Claimed, With
    <2>2. \A k \in Months : Charged(k) = {}
      BY <2>1, SetsAssumption DEF Init, Charged, RoutineSmsOf, Uncommitted, BeingSent
    <2>3. Cardinality(Relays) \in Nat
      BY FiniteAssumption, FS_CardinalityType
    <2>4. Cardinality(Relays) * BatchSize >= 0
      BY <2>3, NumbersAssumption
    <2> DEFINE all == Cardinality(Relays) * BatchSize
    <2>5. all \in Int
      BY <2>3, NumbersAssumption
    <2> HIDE DEF all
    <2>6. Overrun >= 0
      BY <2>4, <2>5, NumbersAssumption DEF Overrun, all
    <2>7. SentBefore
      BY NoneAssumption DEF Init, SentBefore, Months
    <2>8. QED
      BY <2>1, <2>2, <2>6, <2>7, FS_EmptySet, NumbersAssumption
      DEF BudgetInv, BatchesFit, ChargedWithin
  <1>2. IInv /\ BudgetInv /\ [Next]_vars => BudgetInv'
    BY ChargesStep, SentBeforeStep, BatchesStep DEF BudgetInv
  <1>3. BudgetInv => BudgetIsBounded
    <2> SUFFICES ASSUME BudgetInv, NEW k \in Months
                 PROVE  Cardinality(RoutineSmsOf(k)) <= Overrun
      BY DEF BudgetIsBounded
    <2>1. RoutineSmsOf(k) \in SUBSET Charged(k)
      BY DEF Charged
    <2>2. QED
      BY <2>1, LessIsCharged DEF BudgetInv
  <1>4. QED
    BY <1>1, <1>2, <1>3, InductiveInvariant, PTL DEF Spec

-----------------------------------------------------------------------------
(* Refinement *)

LEMMA DeliveryInit == Init => AtLeastOnce!Init
  BY DEF Init, AtLeastOnce!Init, fate

(* A step that changes neither the fate of a message nor what the provider  *)
(* has taken.                                                               *)
LEMMA SameFate ==
  ASSUME row' = row, skipped' = skipped
  PROVE  fate' = fate
  BY DEF fate

LEMMA DeliveryStep ==
  ASSUME IInv, IInv', [Next]_vars
  PROVE  [AtLeastOnce!Next]_<<fate, accepted, undeliverable>>
  <1> USE DEF IInv
  <1>1. ASSUME NEW m \in Messages, Enqueue(m) PROVE AtLeastOnce!Submit(m)
    <2>1. row[m] = "absent" /\ row' = [row EXCEPT ![m] = "pending"]
          /\ UNCHANGED <<skipped, accepted, undeliverable>>
      BY <1>1 DEF Enqueue
    <2>2. fate' = [fate EXCEPT ![m] = "queued"]
      BY <2>1 DEF fate, TypeOK
    <2>3. QED
      BY <2>1, <2>2 DEF AtLeastOnce!Submit, fate
  <1>2. ASSUME NEW w \in Relays, pc[w] = "call", Accept(w), UNCHANGED stored
        PROVE  AtLeastOnce!HandOver(at[w])
    <2>1. at[w] \in Messages /\ row[at[w]] = "pending"
      BY <1>2, TakenRow
    <2>2. fate[at[w]] = "queued"
      BY <2>1 DEF fate
    <2>3. QED
      BY <1>2, <2>2, SameFate DEF AtLeastOnce!HandOver, Accept, stored
  <1>3. ASSUME NEW w \in Relays, Commit(w) PROVE AtLeastOnce!Settle
    <2>1. accepted' = accepted
      BY <1>3 DEF Commit
    <2>2. fate' \in [Messages -> AtLeastOnce!Fates]
      BY DEF fate, AtLeastOnce!Fates, TypeOK
    <2>3. undeliverable' = {m \in Messages : fate'[m] = "undeliverable"}
      BY DEF fate, RowState, TypeOK
    <2>4. ASSUME NEW m \in Messages
          PROVE  \/ fate'[m] = fate[m]
                 \/ fate[m] = "queued" /\ fate'[m] \in AtLeastOnce!Verdicts(m)
      <3>1. CASE m \notin Claimed(w)
        BY <1>3, <3>1 DEF Commit, Delivered, Exhausted, With, Claimed, fate, TypeOK
      <3>2. CASE m \in Claimed(w)
        <4>1. fate[m] = "queued"
          BY <3>2 DEF ClaimsAreApart, fate
        <4>2. row'[m] \in {"pending", "sent", "dead"}
          BY <1>3, <3>2 DEF ClaimsAreApart, Commit, TypeOK
        <4>3. row'[m] = "sent" => accepted[m] > 0 \/ m \in skipped'
          BY <2>1 DEF RowState
        <4>4. m \in skipped' => m \in Sms \ Critical
          BY DEF RowState, Gated
        <4>5. QED
          BY <4>1, <4>2, <4>3, <4>4 DEF fate, AtLeastOnce!Verdicts
      <3>3. QED
        BY <3>1, <3>2
    <2>5. QED
      BY <2>1, <2>2, <2>3, <2>4 DEF AtLeastOnce!Settle
  <1>4. CASE UNCHANGED stored /\ UNCHANGED accepted
    BY <1>4, SameFate DEF stored
  <1>5. ASSUME NEW m \in Messages, Elapse(m)
        PROVE  UNCHANGED <<fate, accepted, undeliverable>>
    BY <1>5, SameFate DEF Elapse
  <1>6. ASSUME NEW w \in Relays, pc[w] = "call", Accept(w)
        PROVE  at[w] \in Messages
    BY <1>6, TakenRow
  <1>7. QED
    BY <1>1, <1>2, <1>3, <1>4, <1>5, <1>6
    DEF AtLeastOnce!Next, Next, Cycle, vars, NewMonth, Claim, TakeRow, CountAlerts,
        RaiseAlert, Send, CommitRefused, Crash, RollBack, Refuse

(* The relay implements the promise of the outbox: a message is handed over *)
(* before it is delivered, only routine SMS are suppressed, nothing is      *)
(* settled twice, and the customer is told of every one that failed.        *)
THEOREM RelayKeepsPromise == Spec => KeepsPromise
  <1>1. IInv /\ IInv' /\ [Next]_vars
          => [AtLeastOnce!Next]_<<fate, accepted, undeliverable>>
    BY DeliveryStep
  <1>2. QED
    BY <1>1, DeliveryInit, InductiveInvariant, PTL
    DEF Spec, KeepsPromise, AtLeastOnce!Spec
=============================================================================
