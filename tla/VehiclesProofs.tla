---------------------------- MODULE VehiclesProofs ----------------------------
(***************************************************************************)
(* Proofs about Vehicles, for every set of vehicles and requests.          *)
(***************************************************************************)
EXTENDS Vehicles, TLAPS

(* The deadline a request works on is a stored one of its vehicle and kind; *)
(* if the vehicle was there when the request began, there is one from the   *)
(* moment it was looked for to the commit.  Evidence appears at the commit, *)
(* and with it the successor of the deadline.                               *)
RequestState(r) ==
  /\ r \in known => req[r].vehicle \in created /\ pc[r] # "idle"
  /\ dl[r] # None => /\ status[dl[r]] # "NONE"
                     /\ VehicleOf(dl[r]) = req[r].vehicle /\ KindOf(dl[r]) = req[r].kind
  /\ pc[r] \in {"deadline", "vehicle"} => dl[r] # None
  /\ r \in known /\ pc[r] \in {"tip", "insert", "spawn", "done"} => dl[r] # None
  /\ r \in logged <=> pc[r] = "done"
  /\ status[r] # "NONE" <=> r \in logged /\ dl[r] # None
  /\ prev[r] # None => prev[r] \in Entries(req[r].vehicle)

IInv ==
  /\ TypeOK
  /\ \A r \in Requests : RequestState(r)
  /\ BothKindsAreWatched
  /\ OnlyEvidenceEndsIt

-----------------------------------------------------------------------------
(* Types *)

LEMMA InitType == Init => TypeOK
  BY DEF Init, TypeOK, Steps, Ended

LEMMA RollBackType ==
  ASSUME TypeOK, NEW r \in Requests, NEW o \in {"failed", "aborted"}, RollBack(r, o)
  PROVE  TypeOK'
  BY DEF TypeOK, RollBack, Goto, Steps, Ended, rows

LEMMA TipType ==
  ASSUME TypeOK, NEW r \in Requests, NEW tip \in LatestEntry(r)
  PROVE  tip = None \/ tip \in Entries(req[r].vehicle)
  BY DEF LatestEntry, Newest

LEMMA RollForwardType ==
  ASSUME TypeOK, NEW r \in Requests
  PROVE  RollForward(r) \in [Deadlines -> {"NONE", "OPEN", "COMPLETED"}]
  BY DEF TypeOK, RollForward, Deadlines

LEMMA StepType ==
  ASSUME TypeOK, NEW r \in Requests, Step(r)
  PROVE  TypeOK'
  <1>1. CASE FindDeadline(r)
    <2>1. PICK x \in Candidates(r) :
            /\ dl' = [dl EXCEPT ![r] = x]
            /\ Goto(r, IF x = None THEN "tip" ELSE "deadline")
      BY <1>1 DEF FindDeadline
    <2>2. x \in Deadlines \cup {None}
      BY DEF Candidates, OpenDeadlines
    <2>3. QED
      BY <1>1, <2>1, <2>2 DEF TypeOK, FindDeadline, Goto, Steps, Ended, rows
  <1>2. CASE LockDeadline(r) \/ LockVehicle(r)
    BY <1>2 DEF TypeOK, LockDeadline, LockVehicle, Goto, Steps, Ended, rows
  <1>3. CASE ReadTip(r)
    <2>1. PICK tip \in LatestEntry(r) : prev' = [prev EXCEPT ![r] = tip]
      BY <1>3 DEF ReadTip
    <2>2. tip \in Requests \cup {None}
      BY <2>1, TipType DEF Entries, TypeOK
    <2>3. QED
      BY <1>3, <2>1, <2>2 DEF TypeOK, ReadTip, Goto, Steps, Ended, rows
  <1>4. CASE InsertCheck(r)
    <2>1. CASE RollBack(r, "failed")
      BY <2>1, RollBackType
    <2>2. CASE ~RollBack(r, "failed")
      BY <1>4, <2>2 DEF TypeOK, InsertCheck, Goto, Steps, Ended, rows
    <2>3. QED
      BY <2>1, <2>2
  <1>5. CASE Spawn(r)
    <2>1. status' \in [Deadlines -> {"NONE", "OPEN", "COMPLETED"}]
      BY <1>5, RollForwardType DEF Spawn
    <2>2. QED
      BY <1>5, <2>1 DEF TypeOK, Spawn, Goto, Steps, Ended
  <1>6. QED
    BY <1>1, <1>2, <1>3, <1>4, <1>5 DEF Step

LEMMA NextType ==
  ASSUME TypeOK, [Next]_vars
  PROVE  TypeOK'
  <1>1. ASSUME NEW v \in Vehicles, CreateVehicle(v) PROVE TypeOK'
    BY <1>1 DEF TypeOK, CreateVehicle
  <1>2. ASSUME NEW r \in Requests, Begin(r) PROVE TypeOK'
    BY <1>2 DEF TypeOK, Begin, Goto, Steps, Ended, rows
  <1>3. ASSUME NEW r \in Requests, Abort(r) PROVE TypeOK'
    BY <1>3, RollBackType DEF Abort
  <1>4. CASE UNCHANGED vars
    BY <1>4 DEF TypeOK, vars, rows
  <1>5. QED
    BY <1>1, <1>2, <1>3, <1>4, StepType DEF Next, Quiet

(* Rows and requests keep their types, and no deadline is SUPERSEDED. *)
THEOREM TypeCorrect == Spec => []TypeOK
  BY InitType, NextType, PTL DEF Spec

-----------------------------------------------------------------------------
(* The inductive invariant *)

LEMMA InitInv == Init => IInv
  <1> SUFFICES ASSUME Init PROVE IInv
    OBVIOUS
  <1>1. \A r \in Requests : RequestState(r)
    BY DEF Init, RequestState, Deadlines
  <1>2. BothKindsAreWatched /\ OnlyEvidenceEndsIt
    BY DEF Init, BothKindsAreWatched, OnlyEvidenceEndsIt
  <1>3. QED
    BY <1>1, <1>2, InitType DEF IInv

(* A step of r that touches nothing but its own transaction *)
LEMMA LocalStep ==
  ASSUME IInv, TypeOK', NEW r \in Requests, UNCHANGED <<rows, req>>,
         \A q \in Requests \ {r} :
           pc'[q] = pc[q] /\ dl'[q] = dl[q] /\ prev'[q] = prev[q] /\ (q \in known' <=> q \in known),
         RequestState(r)', pc[r] # "done"
  PROVE  IInv'
  <1> USE DEF IInv
  <1>1. (\A q \in Requests : RequestState(q))'
    BY DEF RequestState, VehicleOf, KindOf, Entries, rows
  <1>2. BothKindsAreWatched'
    BY DEF BothKindsAreWatched, OpenDeadlines, VehicleOf, KindOf, rows
  <1>3. OnlyEvidenceEndsIt'
    <2> SUFFICES ASSUME NEW x \in Deadlines, status[x] = "COMPLETED"
                 PROVE  \E q \in logged : /\ dl'[q] = x
                                          /\ req[q].vehicle = VehicleOf(x)
                                          /\ req[q].kind = KindOf(x)
      BY DEF OnlyEvidenceEndsIt, VehicleOf, KindOf, rows
    <2>1. PICK q \in logged : /\ dl[q] = x
                              /\ req[q].vehicle = VehicleOf(x) /\ req[q].kind = KindOf(x)
      BY DEF OnlyEvidenceEndsIt
    <2>2. q \in Requests /\ q # r
      BY DEF RequestState, TypeOK
    <2>3. QED
      BY <2>1, <2>2
  <1>4. QED
    BY <1>1, <1>2, <1>3

LEMMA RollBackInv ==
  ASSUME IInv, NEW r \in Requests, NEW o \in {"failed", "aborted"}, RollBack(r, o),
         pc[r] # "done", pc[r] # "idle"
  PROVE  IInv'
  <1>1. TypeOK'
    BY RollBackType DEF IInv
  <1>2. pc'[r] = o /\ dl'[r] = None /\ prev'[r] = None
    BY DEF IInv, TypeOK, RollBack, Goto
  <1>3. RequestState(r)'
    BY <1>2 DEF IInv, RollBack, RequestState, rows
  <1>4. QED
    BY <1>1, <1>2, <1>3, LocalStep DEF IInv, TypeOK, RollBack, Goto

(* Of a vehicle that was there there is an OPEN deadline to be found, since *)
(* both kinds are watched.                                                  *)
LEMMA FindDeadlineInv ==
  ASSUME IInv, NEW r \in Requests, FindDeadline(r), TypeOK'
  PROVE  IInv'
  <1> USE DEF IInv
  <1>1. /\ req[r].kind \in Kinds /\ pc[r] = "find"
        /\ r \notin logged /\ status[r] = "NONE"
        /\ UNCHANGED <<rows, prev, req, known>>
    BY DEF FindDeadline, RequestState, TypeOK, Ask
  <1>2. PICK x \in Candidates(r) : /\ dl' = [dl EXCEPT ![r] = x]
                                   /\ Goto(r, IF x = None THEN "tip" ELSE "deadline")
    BY DEF FindDeadline
  <1>3. /\ dl'[r] = x /\ pc'[r] = IF x = None THEN "tip" ELSE "deadline"
        /\ \A q \in Requests \ {r} : pc'[q] = pc[q] /\ dl'[q] = dl[q]
    BY <1>2 DEF TypeOK, Goto
  <1>4. x # None => x \in OpenDeadlines(req[r].vehicle, req[r].kind)
    BY <1>2 DEF Candidates
  <1>5. r \in known => x # None
    <2> SUFFICES ASSUME r \in known PROVE x # None
      OBVIOUS
    <2>1. OpenDeadlines(req[r].vehicle, req[r].kind) # {}
      BY <1>1 DEF BothKindsAreWatched, RequestState
    <2>2. x \in Deadlines
      BY <1>2, <2>1 DEF Candidates, OpenDeadlines
    <2>3. QED
      BY <2>2, NamesAssumption DEF Deadlines
  <1>6. RequestState(r)'
    <2>1. x # None => /\ status[x] # "NONE"
                      /\ VehicleOf(x)' = req[r].vehicle /\ KindOf(x)' = req[r].kind
      BY <1>1, <1>4 DEF OpenDeadlines, VehicleOf, KindOf
    <2>2. QED
      BY <1>1, <1>3, <1>5, <2>1 DEF RequestState, Entries, rows
  <1>7. QED
    BY <1>1, <1>3, <1>6, LocalStep

(* Begins, locks, reads and uncommitted inserts *)
Private(r) ==
  \/ Begin(r) \/ LockDeadline(r) \/ LockVehicle(r) \/ ReadTip(r)
  \/ InsertCheck(r) /\ ~RollBack(r, "failed")

LEMMA PrivateInv ==
  ASSUME IInv, NEW r \in Requests, TypeOK', Private(r)
  PROVE  IInv'
  <1> USE DEF IInv, Private
  <1>1. /\ UNCHANGED <<rows, req, dl>>
        /\ \A q \in Requests \ {r} : pc'[q] = pc[q] /\ prev'[q] = prev[q]
        /\ \A q \in Requests \ {r} : q \in known' <=> q \in known
    BY DEF Begin, LockDeadline, LockVehicle, ReadTip, InsertCheck, Goto, TypeOK
  <1>2. /\ pc[r] # "done" /\ pc'[r] \in {"find", "vehicle", "tip", "insert", "spawn"}
        /\ pc'[r] = "vehicle" => pc[r] = "deadline"
        /\ pc'[r] # "find" => /\ pc[r] \in {"deadline", "vehicle", "tip", "insert"}
                              /\ known' = known
        /\ r \in known' => req[r].vehicle \in created
    BY DEF Begin, LockDeadline, LockVehicle, ReadTip, InsertCheck, Goto, TypeOK, RequestState
  <1>3. prev'[r] # None => prev'[r] \in Entries(req[r].vehicle)
    <2>1. CASE ReadTip(r)
      BY <2>1, TipType DEF ReadTip, TypeOK
    <2>2. CASE ~ReadTip(r)
      BY <2>2 DEF Begin, LockDeadline, LockVehicle, InsertCheck, RequestState
    <2>3. QED
      BY <2>1, <2>2
  <1>4. RequestState(r)'
    BY <1>1, <1>2, <1>3 DEF RequestState, VehicleOf, KindOf, Entries, rows
  <1>5. QED
    BY <1>1, <1>2, <1>4, LocalStep

(* A commit without a deadline leaves the deadlines alone. *)
LEMMA LogInv ==
  ASSUME IInv, NEW r \in Requests, Spawn(r), dl[r] = None, TypeOK'
  PROVE  IInv'
  <1> USE DEF IInv
  <1>1. /\ pc[r] = "spawn" /\ r \notin known
        /\ pc' = [pc EXCEPT ![r] = "done"] /\ logged' = logged \cup {r}
        /\ UNCHANGED <<created, status, prev, req, known, dl>>
    BY DEF Spawn, RollForward, Goto, RequestState, TypeOK
  <1>2. ASSUME NEW q \in Requests PROVE RequestState(q)'
    BY <1>1 DEF RequestState, VehicleOf, KindOf, Entries, TypeOK
  <1>3. BothKindsAreWatched'
    BY <1>1 DEF BothKindsAreWatched, OpenDeadlines, VehicleOf, KindOf
  <1>4. OnlyEvidenceEndsIt'
    BY <1>1 DEF OnlyEvidenceEndsIt, VehicleOf, KindOf
  <1>5. QED
    BY <1>2, <1>3, <1>4

(* With one it completes it and opens its successor of the same vehicle and *)
(* kind at once.                                                            *)
LEMMA SpawnInv ==
  ASSUME IInv, NEW r \in Requests, Spawn(r), dl[r] # None, TypeOK'
  PROVE  IInv'
  <1> USE DEF IInv
  <1>1. /\ pc[r] = "spawn" /\ dl[r] # None /\ dl[r] \in Deadlines /\ r \notin logged
        /\ VehicleOf(dl[r]) = req[r].vehicle /\ KindOf(dl[r]) = req[r].kind
        /\ pc' = [pc EXCEPT ![r] = "done"] /\ logged' = logged \cup {r}
        /\ UNCHANGED <<created, prev, req, known, dl>>
    BY DEF Spawn, Goto, RequestState, TypeOK
  <1>2. /\ status' = [status EXCEPT ![dl[r]] = "COMPLETED", ![r] = "OPEN"]
        /\ r \in Deadlines
    BY <1>1 DEF Spawn, RollForward, Deadlines
  <1>3. /\ status'[r] = "OPEN"
        /\ \A x \in Deadlines : x # r => status'[x] = IF x = dl[r] THEN "COMPLETED" ELSE status[x]
    BY <1>1, <1>2 DEF TypeOK
  <1>4. \A x : VehicleOf(x)' = VehicleOf(x) /\ KindOf(x)' = KindOf(x)
    BY <1>1 DEF VehicleOf, KindOf
  <1>5. VehicleOf(r) = req[r].vehicle /\ KindOf(r) = req[r].kind
    BY DEF VehicleOf, KindOf
  <1>6. ASSUME NEW q \in Requests PROVE RequestState(q)'
    <2>1. status'[q] # "NONE" <=> q \in logged' /\ dl[q] # None
      <3>1. CASE q = r
        BY <1>1, <1>3, <3>1
      <3>2. CASE q # r /\ q = dl[r]
        BY <1>1, <1>3, <3>2 DEF RequestState, Deadlines
      <3>3. CASE q # r /\ q # dl[r]
        BY <1>1, <1>3, <3>3 DEF RequestState, Deadlines
      <3>4. QED
        BY <3>1, <3>2, <3>3
    <2>2. dl'[q] # None => status'[dl'[q]] # "NONE"
      BY <1>1, <1>3 DEF RequestState, TypeOK
    <2>3. QED
      BY <1>1, <1>4, <2>1, <2>2 DEF RequestState, Entries, TypeOK
  <1>7. BothKindsAreWatched'
    <2> SUFFICES ASSUME NEW v \in created, NEW k \in Kinds
                 PROVE  OpenDeadlines(v, k)' # {}
      BY <1>1 DEF BothKindsAreWatched
    <2>1. PICK x \in Deadlines : status[x] = "OPEN" /\ VehicleOf(x) = v /\ KindOf(x) = k
      BY DEF BothKindsAreWatched, OpenDeadlines
    <2>2. CASE x = dl[r]
      BY <1>1, <1>2, <1>3, <1>4, <1>5, <2>1, <2>2 DEF OpenDeadlines
    <2>3. CASE x # dl[r]
      BY <1>3, <1>4, <2>1, <2>3 DEF OpenDeadlines
    <2>4. QED
      BY <2>2, <2>3
  <1>8. OnlyEvidenceEndsIt'
    <2> SUFFICES ASSUME NEW x \in Deadlines, status'[x] = "COMPLETED"
                 PROVE  \E q \in logged' : /\ dl[q] = x /\ req[q].vehicle = VehicleOf(x)
                                           /\ req[q].kind = KindOf(x)
      BY <1>1, <1>4 DEF OnlyEvidenceEndsIt
    <2>1. CASE x = dl[r]
      BY <1>1, <2>1
    <2>2. CASE x # dl[r]
      BY <1>1, <1>3, <2>2 DEF OnlyEvidenceEndsIt
    <2>3. QED
      BY <2>1, <2>2
  <1>9. QED
    BY <1>6, <1>7, <1>8

(* A new vehicle has an OPEN deadline of each kind.  There may be requests  *)
(* for its id already.                                                      *)
LEMMA CreateVehicleInv ==
  ASSUME IInv, NEW v \in Vehicles, CreateVehicle(v), TypeOK'
  PROVE  IInv'
  <1> USE DEF IInv
  <1>1. /\ created' = created \cup {v}
        /\ UNCHANGED <<logged, prev, req, known, pc, dl>>
    BY DEF CreateVehicle
  <1>2. \A x \in Deadlines : status'[x] = IF x \in FirstDeadlines(v) THEN "OPEN" ELSE status[x]
    BY DEF CreateVehicle
  <1>3. \A k \in Kinds : <<v, k>> \in Deadlines /\ <<v, k>> \in FirstDeadlines(v)
                         /\ <<v, k>> \notin Requests
    BY NamesAssumption DEF Deadlines, FirstDeadlines
  <1>4. \A r \in Requests : r \in Deadlines /\ r \notin FirstDeadlines(v)
    BY NamesAssumption DEF Deadlines, FirstDeadlines
  <1>5. \A x : VehicleOf(x)' = VehicleOf(x) /\ KindOf(x)' = KindOf(x)
    BY <1>1 DEF VehicleOf, KindOf
  <1>6. ASSUME NEW r \in Requests PROVE RequestState(r)'
    <2>1. status'[r] = status[r]
      BY <1>2, <1>4
    <2>2. dl[r] # None => status'[dl[r]] # "NONE"
      BY <1>2 DEF RequestState, TypeOK
    <2>3. dl[r] # None => /\ VehicleOf(dl[r])' = req[r].vehicle
                          /\ KindOf(dl[r])' = req[r].kind
      BY <1>1 DEF RequestState, VehicleOf, KindOf
    <2>4. RequestState(r)
      OBVIOUS
    <2>5. QED
      BY <1>1, <2>1, <2>2, <2>3, <2>4 DEF RequestState, Entries
  <1>7. BothKindsAreWatched'
    <2> SUFFICES ASSUME NEW w \in created', NEW k \in Kinds
                 PROVE  OpenDeadlines(w, k)' # {}
      BY DEF BothKindsAreWatched
    <2>1. CASE w = v
      <3>1. VehicleOf(<<v, k>>) = v /\ KindOf(<<v, k>>) = k
        BY <1>3 DEF VehicleOf, KindOf
      <3>2. QED
        BY <1>2, <1>3, <1>5, <2>1, <3>1 DEF OpenDeadlines
    <2>2. CASE w # v
      <3>1. PICK x \in Deadlines : status[x] = "OPEN" /\ VehicleOf(x) = w /\ KindOf(x) = k
        BY <1>1, <2>2 DEF BothKindsAreWatched, OpenDeadlines
      <3>2. QED
        BY <1>2, <1>5, <3>1 DEF OpenDeadlines
    <2>3. QED
      BY <2>1, <2>2
  <1>8. OnlyEvidenceEndsIt'
    BY <1>1, <1>2, <1>5 DEF OnlyEvidenceEndsIt
  <1>9. QED
    BY <1>6, <1>7, <1>8

LEMMA NextInv ==
  ASSUME IInv, [Next]_vars
  PROVE  IInv'
  <1>1. TypeOK'
    BY NextType DEF IInv
  <1>2. ASSUME NEW v \in Vehicles, CreateVehicle(v) PROVE IInv'
    BY <1>1, <1>2, CreateVehicleInv
  <1>3. ASSUME NEW r \in Requests, InsertCheck(r) PROVE IInv'
    <2>1. CASE RollBack(r, "failed")
      BY <1>3, <2>1, RollBackInv DEF InsertCheck
    <2>2. CASE ~RollBack(r, "failed")
      BY <1>1, <1>3, <2>2, PrivateInv DEF Private
    <2>3. QED
      BY <2>1, <2>2
  <1>4. ASSUME NEW r \in Requests, Begin(r) \/ Step(r) PROVE IInv'
    <2>1. CASE FindDeadline(r)
      BY <1>1, <2>1, FindDeadlineInv
    <2>2. CASE Begin(r) \/ LockDeadline(r) \/ LockVehicle(r) \/ ReadTip(r)
      BY <1>1, <2>2, PrivateInv DEF Private
    <2>3. CASE Spawn(r)
      BY <1>1, <2>3, SpawnInv, LogInv
    <2>4. QED
      BY <1>3, <1>4, <2>1, <2>2, <2>3 DEF Step
  <1>5. ASSUME NEW r \in Requests, Abort(r) PROVE IInv'
    BY <1>5, RollBackInv DEF Abort, Ended
  <1>6. CASE UNCHANGED vars
    <2>1. (\A r \in Requests : RequestState(r))'
      BY <1>6 DEF vars, rows, IInv, RequestState, VehicleOf, KindOf, Entries
    <2>2. BothKindsAreWatched' /\ OnlyEvidenceEndsIt'
      BY <1>6 DEF vars, rows, IInv, BothKindsAreWatched, OnlyEvidenceEndsIt, OpenDeadlines,
                  VehicleOf, KindOf
    <2>3. QED
      BY <1>1, <2>1, <2>2 DEF IInv
  <1>7. QED
    BY <1>2, <1>4, <1>5, <1>6 DEF Next, Quiet

(* Requests, deadlines and evidence stay in step in every reachable state.  *)
THEOREM InductiveInvariant == Spec => []IInv
  BY InitInv, NextInv, PTL DEF Spec

-----------------------------------------------------------------------------
(* What follows from it *)

(* Whatever checks overlap and roll back, a vehicle always has an OPEN HU   *)
(* and an OPEN UVV deadline for the reminder sweep.                         *)
THEOREM AlwaysWatched == Spec => []BothKindsAreWatched
  <1>1. IInv => BothKindsAreWatched
    BY DEF IInv
  <1>2. QED
    BY <1>1, InductiveInvariant, PTL

(* Only checks of ids without a vehicle are recorded in the branch that     *)
(* completes no deadline: if the vehicle was there when the request began,  *)
(* its evidence comes with a successor, whatever races with it.             *)
THEOREM AlwaysFollowedUp == Spec => []ChecksAreFollowedUp
  <1>1. IInv => ChecksAreFollowedUp
    BY DEF IInv, ChecksAreFollowedUp, RequestState, TypeOK
  <1>2. QED
    BY <1>1, InductiveInvariant, PTL

(* A Nachpruefung, like every obligation, ends with evidence of its kind.   *)
THEOREM EndsWithEvidence == Spec => []OnlyEvidenceEndsIt
  <1>1. IInv => OnlyEvidenceEndsIt
    BY DEF IInv
  <1>2. QED
    BY <1>1, InductiveInvariant, PTL

(* The prev_hash of a vehicle's entry is that of a stored one of the same   *)
(* vehicle, with and without the lock of the vehicle.                       *)
THEOREM LinksAreStored == Spec => []NoBrokenLinks
  <1>1. IInv => NoBrokenLinks
    BY DEF IInv, NoBrokenLinks, RequestState, TypeOK
  <1>2. QED
    BY <1>1, InductiveInvariant, PTL

-----------------------------------------------------------------------------
(* The chain of evidence *)

Facts ==
  INSTANCE EvidenceChainProofs WITH
    Subjects <- Vehicles, subject <- [r \in Requests |-> req[r].vehicle]

(* A move of r within its transaction *)
LEMMA StageMoves ==
  ASSUME TypeOK, NEW r \in Requests, NEW s, pc' = [pc EXCEPT ![r] = s]
  PROVE  /\ stage[r] = StageOf(pc[r])
         /\ stage' = [stage EXCEPT ![r] = StageOf(s)]
  <1>1. \A q \in Requests : pc'[q] = IF q = r THEN s ELSE pc[q]
    BY DEF TypeOK
  <1>2. \A q \in Requests : stage'[q] = IF q = r THEN StageOf(s) ELSE stage[q]
    BY <1>1 DEF stage, StageOf, Ended
  <1>3. stage' = [stage EXCEPT ![r] = StageOf(s)]
    BY <1>2 DEF stage
  <1>4. QED
    BY <1>3 DEF stage

LEMMA StagesOf ==
  ASSUME NEW s \in Steps
  PROVE  /\ StageOf(s) = "idle" <=> s = "idle"
         /\ StageOf(s) = "ended" <=> s \in Ended
         /\ StageOf(s) = "linked" <=> s \in {"insert", "spawn"}
         /\ StageOf(s) \in {"idle", "ended", "linked", "open"}
  BY DEF StageOf, Steps, Ended

LEMMA ChainInit == Init => Facts!Init
  <1> SUFFICES ASSUME Init PROVE Facts!Init
    OBVIOUS
  <1>1. stage = [r \in Requests |-> "idle"]
    BY DEF Init, stage, StageOf, Ended
  <1>2. [r \in Requests |-> req[r].vehicle] \in [Requests -> Vehicles]
    BY DEF Init, Ask
  <1>3. QED
    BY <1>1, <1>2, NamesAssumption DEF Init, Facts!Init

LEMMA ChainStep ==
  ASSUME TypeOK, [Next]_vars
  PROVE  [Facts!Next]_Facts!vars
  <1> USE DEF Goto
  <1>1. ASSUME NEW r \in Requests, Begin(r) PROVE Facts!Begin(r)
    <2>1. stage[r] = "idle" /\ stage' = [stage EXCEPT ![r] = "open"]
      <3>1. pc[r] = "idle" /\ pc' = [pc EXCEPT ![r] = "find"]
        BY <1>1 DEF Begin
      <3>2. StageOf("idle") = "idle" /\ StageOf("find") = "open"
        BY DEF StageOf, Ended
      <3>3. QED
        BY <3>1, <3>2, StageMoves
    <2>2. \A q \in Requests : pc[q] # "idle" <=> stage[q] # "idle"
      BY StagesOf DEF TypeOK, stage
    <2>3. before' = [before EXCEPT ![r] = [begun |-> {q \in Requests : stage[q] # "idle"},
                                           stored |-> logged]]
      BY <1>1, <2>2 DEF Begin
    <2>4. QED
      BY <1>1, <2>1, <2>3 DEF Begin, Facts!Begin, rows
  <1>2. ASSUME NEW r \in Requests, RollBack(r, "failed") \/ RollBack(r, "aborted"),
               pc[r] \notin Ended \cup {"idle"}
        PROVE  Facts!Leave(r)
    <2>1. /\ stage[r] \in {"open", "linked"} /\ stage' = [stage EXCEPT ![r] = "ended"]
      BY <1>2, StageMoves DEF RollBack, TypeOK, StageOf, Ended, Steps
    <2>2. QED
      BY <1>2, <2>1 DEF RollBack, Facts!Leave, rows
  <1>3. ASSUME NEW r \in Requests, ReadTip(r) PROVE Facts!Link(r)
    <2>1. stage[r] = "open" /\ stage' = [stage EXCEPT ![r] = "linked"]
      BY <1>3, StageMoves DEF ReadTip, StageOf, Ended
    <2>2. LatestEntry(r) = Facts!Newest(Facts!Entries(req[r].vehicle))
      BY DEF LatestEntry, Newest, Entries, Facts!Newest, Facts!Entries, TypeOK
    <2>3. QED
      BY <1>3, <2>1, <2>2 DEF ReadTip, Facts!Link, rows
  <1>4. ASSUME NEW r \in Requests, Spawn(r) PROVE Facts!Append(r)
    <2>1. stage[r] = "linked" /\ stage' = [stage EXCEPT ![r] = "ended"]
      BY <1>4, StageMoves DEF Spawn, StageOf, Ended
    <2>2. QED
      BY <1>4, <2>1 DEF Spawn, Facts!Append
  <1>5. ASSUME NEW r \in Requests,
               \/ FindDeadline(r) \/ LockDeadline(r) \/ LockVehicle(r)
               \/ InsertCheck(r) /\ ~RollBack(r, "failed")
        PROVE  UNCHANGED Facts!vars
    <2>1. PICK s \in Steps : pc' = [pc EXCEPT ![r] = s] /\ StageOf(s) = StageOf(pc[r])
      BY <1>5 DEF FindDeadline, LockDeadline, LockVehicle, InsertCheck, StageOf, Steps, Ended
    <2>2. stage' = stage
      BY <2>1, StageMoves DEF stage
    <2>3. QED
      BY <1>5, <2>2
      DEF FindDeadline, LockDeadline, LockVehicle, InsertCheck, Facts!vars, rows
  <1>6. ASSUME NEW v \in Vehicles, CreateVehicle(v) PROVE UNCHANGED Facts!vars
    BY <1>6 DEF CreateVehicle, Facts!vars, stage
  <1>7. CASE UNCHANGED vars
    BY <1>7 DEF vars, rows, Facts!vars, stage
  <1>8. ASSUME NEW r \in Requests, InsertCheck(r) \/ Abort(r) PROVE [Facts!Next]_Facts!vars
    BY <1>2, <1>5, <1>8 DEF InsertCheck, Abort, Ended, Facts!Next
  <1>9. ASSUME NEW r \in Requests, Begin(r) \/ Step(r) PROVE [Facts!Next]_Facts!vars
    BY <1>1, <1>3, <1>4, <1>5, <1>8, <1>9 DEF Step, Facts!Next
  <1>10. QED
    BY <1>6, <1>7, <1>8, <1>9 DEF Next, Quiet

(* Whatever checks of both kinds overlap, wait and roll back, the evidence  *)
(* of a vehicle is stored as EvidenceChain says.                            *)
THEOREM ChecksKeepChain == Spec => KeepsChain
  <1>1. Spec => Facts!Spec
    BY ChainInit, ChainStep, TypeCorrect, PTL DEF Spec, Facts!Spec
  <1>2. Facts!Spec => KeepsChain
    BY DEF KeepsChain, Chain!Spec, Facts!Spec,
           Chain!Init, Facts!Init, Chain!Next, Facts!Next, Chain!vars, Facts!vars,
           Chain!Begin, Facts!Begin, Chain!Link, Facts!Link, Chain!Append, Facts!Append,
           Chain!Leave, Facts!Leave, Chain!Newest, Facts!Newest, Chain!Entries, Facts!Entries
  <1>3. QED
    BY <1>1, <1>2, PTL

(* A fork of a vehicle's chain needs checks that overlap. *)
THEOREM OneLineWithoutOverlap == Spec => []ForksNeedOverlap
  <1>1. Spec => Facts!Spec
    BY ChainInit, ChainStep, TypeCorrect, PTL DEF Spec, Facts!Spec
  <1>2. Facts!Spec => []Facts!ForksNeedOverlap
    BY Facts!OneLineWithoutOverlap
  <1>3. Facts!ForksNeedOverlap <=> ForksNeedOverlap
    BY DEF ForksNeedOverlap, Facts!ForksNeedOverlap, Facts!Overlap,
           Chain!ForksNeedOverlap, Chain!Overlap
  <1>4. QED
    BY <1>1, <1>2, <1>3, PTL

-----------------------------------------------------------------------------
(* Waiting *)

(* The lock of the vehicle is exclusive among HU checks: whoever has it does *)
(* not wait for the foreign key, and in the index only for an HU check      *)
(* without a deadline, which waits for nobody any more.                     *)
OneHolder ==
  \A q, r \in Requests :
    q # r /\ req[q].vehicle = req[r].vehicle =>
      ~(HoldsVehicle(q, req[q].vehicle) /\ HoldsVehicle(r, req[r].vehicle))

(* A step of r alone, which takes the lock, if it does, from nobody *)
LEMMA HolderMoves ==
  ASSUME OneHolder, NEW r \in Requests, req' = req,
         \A q \in Requests \ {r} : pc'[q] = pc[q] /\ dl'[q] = dl[q],
         HoldsVehicle(r, req[r].vehicle)' =>
           \A q \in Requests \ {r} : ~HoldsVehicle(q, req[r].vehicle)
  PROVE  OneHolder'
  <1>1. ASSUME NEW q \in Requests \ {r}, NEW v
        PROVE  HoldsVehicle(q, v)' <=> HoldsVehicle(q, v)
    BY DEF HoldsVehicle
  <1>2. QED
    BY <1>1 DEF OneHolder

LEMMA NextHolder ==
  ASSUME IInv, OneHolder, [Next]_vars
  PROVE  OneHolder'
  <1> USE DEF Goto
  <1>1. TypeOK
    BY DEF IInv
  <1>2. ASSUME NEW r \in Requests, NEW o \in {"failed", "aborted"}, RollBack(r, o)
        PROVE  OneHolder'
    BY <1>1, <1>2, HolderMoves DEF RollBack, HoldsVehicle, TypeOK
  <1>3. ASSUME NEW r \in Requests, Begin(r) \/ LockDeadline(r) PROVE OneHolder'
    BY <1>1, <1>3, HolderMoves DEF Begin, LockDeadline, HoldsVehicle, TypeOK
  <1>4. ASSUME NEW r \in Requests, FindDeadline(r) PROVE OneHolder'
    BY <1>1, <1>4, HolderMoves DEF FindDeadline, HoldsVehicle, TypeOK
  <1>5. ASSUME NEW r \in Requests, LockVehicle(r) PROVE OneHolder'
    <2>1. \A q \in Requests \ {r} : ~HoldsVehicle(q, req[r].vehicle)
      BY <1>5 DEF LockVehicle, Granted, Blocks
    <2>2. QED
      BY <1>1, <1>5, <2>1, HolderMoves DEF LockVehicle, TypeOK
  <1>6. ASSUME NEW r \in Requests, UNCHANGED <<req, dl>>,
               HoldsVehicle(r, req[r].vehicle)' => HoldsVehicle(r, req[r].vehicle),
               \A q \in Requests \ {r} : pc'[q] = pc[q]
        PROVE  OneHolder'
    <2>1. HoldsVehicle(r, req[r].vehicle) =>
            \A q \in Requests \ {r} : ~HoldsVehicle(q, req[r].vehicle)
      BY DEF OneHolder, HoldsVehicle
    <2>2. QED
      BY <1>6, <2>1, HolderMoves
  <1>7. ASSUME NEW v \in Vehicles, CreateVehicle(v) PROVE OneHolder'
    BY <1>7 DEF CreateVehicle, OneHolder, HoldsVehicle
  <1>8. CASE UNCHANGED vars
    BY <1>8 DEF vars, OneHolder, HoldsVehicle
  <1>9. ASSUME NEW r \in Requests, ReadTip(r) \/ Spawn(r) PROVE OneHolder'
    BY <1>1, <1>6, <1>9 DEF ReadTip, Spawn, HoldsVehicle, TypeOK
  <1>10. ASSUME NEW r \in Requests, InsertCheck(r) PROVE OneHolder'
    <2>1. CASE RollBack(r, "failed")
      BY <1>2, <2>1
    <2>2. CASE ~RollBack(r, "failed")
      BY <1>1, <1>6, <1>10, <2>2 DEF InsertCheck, HoldsVehicle, TypeOK
    <2>3. QED
      BY <2>1, <2>2
  <1>11. ASSUME NEW r \in Requests, Abort(r) PROVE OneHolder'
    BY <1>2, <1>11 DEF Abort
  <1>12. QED
    BY <1>3, <1>4, <1>5, <1>7, <1>8, <1>9, <1>10, <1>11 DEF Next, Step, Quiet

(* HU checks with the lock of one vehicle follow one another. *)
THEOREM HUChecksTakeTurns == Spec => []OneHolder
  <1>1. Init => OneHolder
    BY DEF Init, OneHolder, HoldsVehicle
  <1>2. QED
    BY <1>1, NextHolder, InductiveInvariant, PTL DEF Spec

LEMMA HoldersWaitForNobody ==
  ASSUME IInv, OneHolder
  PROVE  WaitsGoForward
  <1> SUFFICES ASSUME NEW q \in Requests, NEW r \in Requests, q # r, Blocks(q, r)
               PROVE  ToGo(q) < ToGo(r)
    BY DEF WaitsGoForward
  <1>1. req[q].kind \in {"HU", "UVV"} /\ req[r].kind \in {"HU", "UVV"}
    BY DEF IInv, TypeOK, Ask, Kinds
  <1>2. CASE pc[r] = "deadline" /\ HoldsDeadline(q, dl[r])
    BY <1>1, <1>2 DEF HoldsDeadline, ToGo
  <1>3. CASE pc[r] = "vehicle" /\ HoldsVehicle(q, req[r].vehicle)
    BY <1>1, <1>3 DEF HoldsVehicle, ToGo
  <1>4. CASE pc[r] = "insert" /\ pc[q] = "spawn" /\ SameHash(q, r)
    <2>1. req[q].kind = req[r].kind
      BY <1>4 DEF SameHash
    <2>2. QED
      BY <1>1, <1>4, <2>1 DEF ToGo
  <1>5. CASE pc[r] = "spawn" /\ dl[r] # None /\ HoldsVehicle(q, req[r].vehicle)
    <2>1. req[r].kind = "UVV"
      BY <1>1, <1>5 DEF OneHolder, HoldsVehicle
    <2>2. QED
      BY <1>5, <2>1 DEF HoldsVehicle, ToGo
  <1>6. QED
    BY <1>2, <1>3, <1>4, <1>5 DEF Blocks

(* HU and UVV checks take the lock of the vehicle at different ends of the  *)
(* transaction and never wait for one another in a circle.                  *)
THEOREM NobodyWaitsInACircle == Spec => []WaitsGoForward
  BY HoldersWaitForNobody, InductiveInvariant, HUChecksTakeTurns, PTL

(* While a check is underway, some check that is underway waits for nobody: *)
(* the locks are never what keeps the company from getting on.              *)
Underway == {r \in Requests : pc[r] \notin Ended \cup {"idle"}}
SomebodyIsGranted == Underway # {} => \E r \in Underway : Granted(r)

LEMMA ForwardIsNotForEver ==
  ASSUME TypeOK, WaitsGoForward
  PROVE  SomebodyIsGranted
  <1>1. \A r \in Requests : ToGo(r) \in {1, 2, 3, 4, 5}
    BY DEF ToGo
  <1>2. ASSUME NEW r \in Underway, \A q \in Underway : ToGo(q) < ToGo(r) => Granted(q)
        PROVE  SomebodyIsGranted
    <2>1. CASE Granted(r)
      BY <2>1 DEF SomebodyIsGranted
    <2>2. CASE ~Granted(r)
      <3>1. PICK q \in Requests \ {r} : Blocks(q, r)
        BY <2>2 DEF Granted
      <3>2. q \in Underway
        BY <3>1 DEF Blocks, HoldsDeadline, HoldsVehicle, Underway, Ended
      <3>3. ToGo(q) < ToGo(r)
        BY <3>1 DEF WaitsGoForward, Underway
      <3>4. QED
        BY <1>2, <3>2, <3>3 DEF SomebodyIsGranted
    <2>3. QED
      BY <2>1, <2>2
  <1>3. Underway \subseteq Requests
    BY DEF Underway
  <1> DEFINE Lower(n) == \A q \in Underway : ToGo(q) < n => Granted(q)
  <1>4. SUFFICES ASSUME ~SomebodyIsGranted PROVE FALSE
    OBVIOUS
  <1>5. Lower(1)
    BY <1>1, <1>3
  <1>6. \A n \in {1, 2, 3, 4, 5} : Lower(n) => \A r \in Underway : ToGo(r) # n
    BY <1>2, <1>4
  <1>7. Lower(2)
    BY <1>1, <1>3, <1>5, <1>6
  <1>8. Lower(3)
    BY <1>1, <1>3, <1>7, <1>6, <1>5
  <1>9. Lower(4)
    BY <1>1, <1>3, <1>8, <1>7, <1>6, <1>5
  <1>10. Lower(5)
    BY <1>1, <1>3, <1>9, <1>8, <1>7, <1>6, <1>5
  <1>11. Underway = {}
    BY <1>1, <1>3, <1>5, <1>6, <1>7, <1>8, <1>9, <1>10
  <1>12. QED
    BY <1>4, <1>11 DEF SomebodyIsGranted

(* The locks of checks never bring each other to a standstill. *)
THEOREM NoStandstill == Spec => []SomebodyIsGranted
  BY TypeCorrect, NobodyWaitsInACircle, ForwardIsNotForEver, PTL

=============================================================================
