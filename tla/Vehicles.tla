------------------------------ MODULE Vehicles ------------------------------
(***************************************************************************)
(* Inspections of vehicles: a vehicle is created with an HU and a UVV      *)
(* deadline, and each check that is recorded completes one and spawns its  *)
(* successor.  One member of Requests is one HTTP request that records a   *)
(* check, in one READ COMMITTED transaction; the evidence and the          *)
(* successor deadline that it inserts are both named after it.  Of the two *)
(* kinds only the HU locks the vehicle row.                                *)
(***************************************************************************)
EXTENDS Integers, FiniteSets

CONSTANTS
  Vehicles,   \* ids: of vehicles once the company has created them, before of none
  Requests,   \* the checks that may be recorded
  Forms,      \* what is filled in for result and performed_on
  None

Kinds == {"HU", "UVV"}

ASSUME NamesAssumption ==
  /\ (Vehicles \X Kinds) \cap Requests = {}
  /\ None \notin Requests \cup (Vehicles \X Kinds)

VARIABLES
  created,   \* Vehicle rows
  status,    \* Deadline rows: status
  logged,    \* ComplianceCheckLog rows
  prev,      \* their prev_hash, as the entry that has this hash
  req,       \* what each request asks for
  before,    \* what had begun (created_at), and was stored, when it began
  known,     \* the requests whose vehicle was there when they began
  pc,        \* where each request is
  dl         \* the deadline it completes

rows == <<created, status, logged>>
vars == <<rows, prev, req, before, known, pc, dl>>

-----------------------------------------------------------------------------
Ended == {"done", "failed", "aborted"}
Steps == {"idle", "find", "deadline", "vehicle", "tip", "insert", "spawn"} \cup Ended
Ask   == [vehicle : Vehicles, kind : Kinds, form : Forms]

(* The deadlines that come with a vehicle, and the successors *)
Deadlines == (Vehicles \X Kinds) \cup Requests

(* Columns and program counters keep their types; no deadline is ever       *)
(* SUPERSEDED, the third status that the column could take.                 *)
TypeOK ==
  /\ created \subseteq Vehicles
  /\ status  \in [Deadlines -> {"NONE", "OPEN", "COMPLETED"}]
  /\ logged  \subseteq Requests
  /\ prev    \in [Requests -> Requests \cup {None}]
  /\ req     \in [Requests -> Ask]
  /\ before  \in [Requests -> [begun : SUBSET Requests, stored : SUBSET Requests]]
  /\ known   \subseteq Requests
  /\ pc      \in [Requests -> Steps]
  /\ dl      \in [Requests -> Deadlines \cup {None}]

VehicleOf(x) == IF x \in Requests THEN req[x].vehicle ELSE x[1]
KindOf(x)    == IF x \in Requests THEN req[x].kind ELSE x[2]

OpenOfAnyKind(v, k) == {x \in Deadlines : status[x] = "OPEN" /\ VehicleOf(x) = v}
OpenDeadlines(v, k) ==
  {x \in Deadlines : status[x] = "OPEN" /\ VehicleOf(x) = v /\ KindOf(x) = k}

FirstBegun(entries) ==
  IF entries = {} THEN {None}
  ELSE {e \in entries : \A f \in entries \ {e} : e \in before[f].begun}

(* _latest_hash_for_vehicle: the entry whose transaction began last, of     *)
(* either kind                                                              *)
Newest(entries) ==
  IF entries = {} THEN {None}
  ELSE {e \in entries : \A f \in entries \ {e} : f \in before[e].begun}
Entries(v) == {e \in logged : req[e].vehicle = v}
UncommittedTip(r) ==
  Newest({e \in Requests \ {r} : req[e].vehicle = req[r].vehicle
                                 /\ (e \in logged \/ pc[e] = "spawn")})
LatestEntry(r) == Newest(Entries(req[r].vehicle))

(* The entry_hash is over the fields of the entry and prev_hash. *)
SameForm(q, r) ==
  req[q].vehicle = req[r].vehicle /\ req[q].form = req[r].form /\ prev[q] = prev[r]
SameHash(q, r) == req[q] = req[r] /\ prev[q] = prev[r]

(* FOR UPDATE locks, from where they are taken to the end *)
HoldsDeadline(q, x) == dl[q] = x /\ pc[q] \in {"vehicle", "tip", "insert", "spawn"}
HoldsVehicle(q, v) ==
  /\ req[q].vehicle = v /\ req[q].kind = "HU"
  /\ dl[q] # None /\ pc[q] \in {"tip", "insert", "spawn"}

(* What r waits for: the deadline, and in the HU branch the vehicle; in the *)
(* unique index on entry_hash an equal hash that is not committed yet; and  *)
(* for the foreign key of the successor the vehicle again (KEY SHARE).      *)
Blocks(q, r) ==
  \/ pc[r] = "deadline" /\ HoldsDeadline(q, dl[r])
  \/ pc[r] = "vehicle" /\ HoldsVehicle(q, req[r].vehicle)
  \/ pc[r] = "insert" /\ pc[q] = "spawn" /\ SameHash(q, r)
  \/ pc[r] = "spawn" /\ dl[r] # None /\ HoldsVehicle(q, req[r].vehicle)
Granted(r) == \A q \in Requests \ {r} : ~Blocks(q, r)

-----------------------------------------------------------------------------
Init ==
  /\ created = {}
  /\ status  = [x \in Deadlines |-> "NONE"]
  /\ logged  = {}
  /\ prev    = [r \in Requests |-> None]
  /\ req     \in [Requests -> Ask]
  /\ before  = [r \in Requests |-> [begun |-> {}, stored |-> {}]]
  /\ known   = {}
  /\ pc      = [r \in Requests |-> "idle"]
  /\ dl      = [r \in Requests |-> None]

Goto(r, step) == pc' = [pc EXCEPT ![r] = step]

RollBack(r, outcome) ==
  /\ Goto(r, outcome)
  /\ dl'   = [dl EXCEPT ![r] = None]
  /\ prev' = [prev EXCEPT ![r] = None]
  /\ UNCHANGED <<rows, req, before, known>>

(* create_vehicle: the row and its first deadlines in one transaction *)
HuOnly(v) == {<<v, "HU">>}
FirstDeadlines(v) == {<<v, k>> : k \in Kinds}
CreateVehicle(v) ==
  /\ v \notin created
  /\ created' = created \cup {v}
  /\ status'  = [x \in Deadlines |-> IF x \in FirstDeadlines(v) THEN "OPEN" ELSE status[x]]
  /\ UNCHANGED <<logged, prev, req, before, known, pc, dl>>

(* A transaction begins.  Nothing looks the vehicle up: the id may be that   *)
(* of another company's vehicle, or of none.                                *)
Begin(r) ==
  /\ pc[r] = "idle"
  /\ before' = [before EXCEPT ![r] = [begun |-> {q \in Requests : pc[q] # "idle"},
                                      stored |-> logged]]
  /\ known' = IF req[r].vehicle \in created THEN known \cup {r} ELSE known
  /\ Goto(r, "find")
  /\ UNCHANGED <<rows, prev, req, dl>>

(* record_vehicle_check: any one of the OPEN deadlines of the kind, read    *)
(* without a lock; when there is none the evidence is recorded alone.       *)
Candidates(r) ==
  LET open == OpenDeadlines(req[r].vehicle, req[r].kind)
  IN  IF open = {} THEN {None} ELSE open

FindDeadline(r) ==
  /\ pc[r] = "find"
  /\ \E x \in Candidates(r) :
       /\ dl' = [dl EXCEPT ![r] = x]
       /\ Goto(r, IF x = None THEN "tip" ELSE "deadline")
  /\ UNCHANGED <<rows, prev, req, before, known>>

(* complete_deadline: the deadline FOR UPDATE, whatever its status is now, *)
(* and the vehicle in the HU branch                                         *)
LockDeadline(r) ==
  /\ pc[r] = "deadline" /\ Granted(r)
  /\ Goto(r, IF req[r].kind = "HU" THEN "vehicle" ELSE "tip")
  /\ UNCHANGED <<rows, prev, req, before, known, dl>>

LockVehicle(r) ==
  /\ pc[r] = "vehicle" /\ Granted(r)
  /\ Goto(r, "tip")
  /\ UNCHANGED <<rows, prev, req, before, known, dl>>

(* record_check: read the hash to chain to ... *)
ReadTip(r) ==
  /\ pc[r] = "tip"
  /\ \E tip \in LatestEntry(r) : prev' = [prev EXCEPT ![r] = tip]
  /\ Goto(r, "insert")
  /\ UNCHANGED <<rows, req, before, known, dl>>

(* ... and insert the entry; the index refuses a hash that is committed.    *)
InsertCheck(r) ==
  /\ pc[r] = "insert" /\ Granted(r)
  /\ \/ (\E q \in logged : SameHash(q, r)) /\ RollBack(r, "failed")
     \/ /\ \A q \in logged : ~SameHash(q, r)
        /\ Goto(r, "spawn")
        /\ UNCHANGED <<rows, prev, req, before, known, dl>>

(* The completion of the deadline and the successor of the same subject and *)
(* kind, which may be a Nachpruefung                                        *)
Superseded(r) ==
  IF dl[r] = None THEN status
  ELSE [status EXCEPT ![dl[r]] = "SUPERSEDED", ![r] = "OPEN"]
SpawnAfterHuOnly(r) ==
  IF dl[r] = None THEN status
  ELSE [status EXCEPT ![dl[r]] = "COMPLETED",
                      ![r] = IF req[r].kind = "HU" THEN "OPEN" ELSE "NONE"]
RollForward(r) ==
  IF dl[r] = None THEN status
  ELSE [status EXCEPT ![dl[r]] = "COMPLETED", ![r] = "OPEN"]

(* The insert of the successor; the commit comes next and waits for nothing. *)
Spawn(r) ==
  /\ pc[r] = "spawn" /\ Granted(r)
  /\ status' = RollForward(r)
  /\ logged' = logged \cup {r}
  /\ Goto(r, "done")
  /\ UNCHANGED <<created, prev, req, before, known, dl>>

(* The process dies, the connection is lost: PostgreSQL rolls back. *)
Abort(r) ==
  /\ pc[r] \notin Ended \cup {"idle"}
  /\ RollBack(r, "aborted")

-----------------------------------------------------------------------------
Step(r) ==
  \/ FindDeadline(r) \/ LockDeadline(r) \/ LockVehicle(r)
  \/ ReadTip(r) \/ InsertCheck(r) \/ Spawn(r)

Quiet == (\A r \in Requests : pc[r] \in Ended) /\ UNCHANGED vars

Next ==
  \/ \E v \in Vehicles : CreateVehicle(v)
  \/ \E r \in Requests : Begin(r) \/ Step(r) \/ Abort(r)
  \/ Quiet

Spec == Init /\ [][Next]_vars

(* A request that has begun runs on; row locks are granted in turn. *)
FairSpec == Spec /\ \A r \in Requests : WF_vars(Step(r))

-----------------------------------------------------------------------------
(* Properties *)

(* However checks of both kinds overlap, and even if two of them complete   *)
(* one deadline: the sweep always finds an OPEN deadline of each kind.      *)
BothKindsAreWatched ==
  \A v \in created, k \in Kinds : OpenDeadlines(v, k) # {}

(* Only for ids of no vehicle record_vehicle_check takes the branch without *)
(* a deadline: a check of a vehicle that was there when the request began   *)
(* moves an obligation on and spawns the next one, whatever races with it.  *)
ChecksAreFollowedUp ==
  \A r \in logged \cap known : dl[r] # None /\ status[r] # "NONE"

(* An obligation, in particular a Nachpruefung after defects, ends only     *)
(* with committed evidence of an inspection of its kind and vehicle.        *)
OnlyEvidenceEndsIt ==
  \A x \in Deadlines :
    status[x] = "COMPLETED" =>
      \E r \in logged : dl[r] = x /\ req[r].vehicle = VehicleOf(x) /\ req[r].kind = KindOf(x)

(* RESTORE_DRILL step 4 for vehicles: every prev_hash is the hash of a      *)
(* stored entry of the same vehicle, though UVV entries are chained without *)
(* its lock and the transactions may roll back.                             *)
NoBrokenLinks ==
  \A e \in logged : prev[e] # None => prev[e] \in Entries(req[e].vehicle)

(* The chain of a vehicle: locks, deadlines and the waits of the index are  *)
(* not seen in it, and what rolls back leaves nothing.                      *)
StageOf(step) ==
  IF step = "idle" THEN "idle"
  ELSE IF step \in Ended THEN "ended"
  ELSE IF step \in {"insert", "spawn"} THEN "linked" ELSE "open"
stage == [r \in Requests |-> StageOf(pc[r])]
Chain ==
  INSTANCE EvidenceChain WITH
    Subjects <- Vehicles, subject <- [r \in Requests |-> req[r].vehicle]
KeepsChain == Chain!Spec

(* HU and UVV checks of a vehicle fork its chain only where they overlap    *)
(* one another or the check they chain to, though a UVV check locks no      *)
(* vehicle and created_at decides which entry is the last.                  *)
ForksNeedOverlap == Chain!ForksNeedOverlap

(* Nobody waits in a circle: HU checks lock the vehicle first and UVV       *)
(* checks ask for it last, and yet whoever waits does so for somebody who   *)
(* is nearer to the commit than he is.                                      *)
ToGo(r) ==
  CASE pc[r] = "deadline" -> 5
    [] req[r].kind = "UVV" /\ pc[r] = "insert" -> 4
    [] req[r].kind = "UVV" /\ pc[r] = "spawn" -> 3
    [] pc[r] = "vehicle" -> 3
    [] req[r].kind = "HU" /\ pc[r] \in {"tip", "insert"} -> 2
    [] OTHER -> 1
WaitsGoForward ==
  \A q, r \in Requests : q # r /\ Blocks(q, r) => ToGo(q) < ToGo(r)

(* A UVV check holds its deadline and its entry and waits for the vehicle,  *)
(* an HU check holds the vehicle and waits for the index of entries; yet    *)
(* they never wait for each other, since their hashes differ.               *)
EveryCheckEnds ==
  \A r \in Requests : pc[r] = "find" ~> pc[r] \in Ended

=============================================================================
