---------------------------- MODULE LicenseCheck ----------------------------
(***************************************************************************)
(* Recording the outcome of a driver's licence check (FSK): the hash-      *)
(* chained evidence, the E6 lock-and-escalate transaction, the completion  *)
(* of the FSK deadline, the anonymisation of a driver and the daily        *)
(* escalation sweep, as concurrent PostgreSQL transactions.                *)
(*                                                                         *)
(* One member of Requests is one HTTP request of a tenant user and runs    *)
(* once, in one READ COMMITTED transaction.  A row is named after the      *)
(* request that inserts it: the evidence entry of r, the escalation case   *)
(* of r and the successor deadline of r are all called r; the first        *)
(* deadline of driver d is called d.  The committed rows are the           *)
(* variables; what a transaction has read or inserted but not committed is *)
(* in snap, dl, found and prev, and the row locks it holds follow from pc. *)
(***************************************************************************)
EXTENDS Integers, FiniteSets

CONSTANTS
  Drivers,      \* the drivers of one company
  Legacy,       \* those created before migration 0003: no FSK deadline
  Requests,     \* the requests that may arrive
  Kinds,        \* what they may ask for, a subset of AllKinds
  Dates,        \* the values of the form field performed_on
  Addresses,    \* channel and address of every recipient of the company
  WindowDays,   \* ESCALATION_DAYS
  MaxDay,       \* bound on the calendar
  None          \* SQL NULL

AllKinds == {"FAILED", "PASSED", "ANONYMIZE"}

ASSUME NamesAssumption ==
  /\ Legacy \subseteq Drivers
  /\ Drivers \cap Requests = {}
  /\ None \notin Drivers \cup Requests
ASSUME KindsAssumption == Kinds \subseteq AllKinds
ASSUME CalendarAssumption == WindowDays \in Nat /\ MaxDay \in Nat

VARIABLES
  driver,    \* Driver rows: authorized, version (optimistic lock), anonymized
  status,    \* EscalationCase rows: status
  openedOn,  \* EscalationCase rows: the day that deadline_at counts from
  nagOn,     \* EscalationCase rows: last_nag_on
  alerts,    \* SystemAlert rows, by the case they belong to
  fsk,       \* Deadline rows of kind FSK: status
  logged,    \* ComplianceCheckLog rows
  prev,      \* their prev_hash, as the entry that has this hash
  outbox,    \* OutboxMessage rows
  today,     \* today_berlin()
  req,       \* what each request asks for
  before,    \* what had begun (created_at), and was stored, when it began
  pc,        \* where each request is
  snap,      \* its copy of the Driver row in the session's identity map
  dl,        \* the deadline it completes
  found,     \* the OPEN case its SELECT returned, as a set
  claimed,   \* cases the running sweep holds FOR UPDATE; none: no sweep
  sweepDay   \* `now' of the running sweep

rows == <<driver, status, openedOn, nagOn, alerts, fsk, logged, outbox>>
vars == <<rows, prev, today, req, before, pc, snap, dl, found, claimed, sweepDay>>

-----------------------------------------------------------------------------
(* Types *)

Days     == 0..MaxDay
Subjects == Drivers \cup Requests
Ended    == {"done", "failed", "aborted"}
Steps    == {"idle", "begun", "tip", "insert", "lock", "flush", "replay",
             "commit", "find", "complete", "resolve", "scrub"} \cup Ended
DriverRow == [authorized : BOOLEAN, version : Nat, anonymized : BOOLEAN]
NewDriver == [authorized |-> TRUE, version |-> 1, anonymized |-> FALSE]
Ask       == [kind : AllKinds, driver : Drivers, date : Dates]
Past      == [begun : SUBSET Requests, stored : SUBSET Requests]
Notice    == [template : {"fsk_failed_critical", "escalation_nag",
                          "escalation_breached"},
              case : Requests, day : Days, to : Addresses]

(* The rows, the requests and the sweep take the values of their columns.  *)
TypeOK ==
  /\ driver   \in [Drivers -> DriverRow]
  /\ status   \in [Requests -> {"NONE", "OPEN", "RESOLVED_PASSED", "BREACHED"}]
  /\ openedOn \in [Requests -> Days]
  /\ nagOn    \in [Requests -> Days \cup {None}]
  /\ alerts   \subseteq Requests
  /\ fsk      \in [Subjects -> {"NONE", "OPEN", "COMPLETED"}]
  /\ logged   \subseteq Requests
  /\ prev     \in [Requests -> Requests \cup {None}]
  /\ outbox   \subseteq Notice
  /\ today    \in Days
  /\ req      \in [Requests -> Ask]
  /\ before   \in [Requests -> Past]
  /\ pc       \in [Requests -> Steps]
  /\ snap     \in [Requests -> DriverRow]
  /\ dl       \in [Requests -> Subjects \cup {None}]
  /\ found    \in [Requests -> SUBSET Requests]
  /\ claimed  \subseteq Requests
  /\ sweepDay \in Days

-----------------------------------------------------------------------------
(* What queries, indexes and row locks see *)

SubjectOf(x) == IF x \in Drivers THEN x ELSE req[x].driver

Exists(d) == d \in Legacy \/ fsk[d] # "NONE"

OpenCases(d) == {c \in Requests : status[c] = "OPEN" /\ req[c].driver = d}

OpenDeadlines(d) == {x \in Subjects : fsk[x] = "OPEN" /\ SubjectOf(x) = d}

Entries(d) == {e \in logged : req[e].driver = d}

FirstBegun(entries) ==
  IF entries = {} THEN {None}
  ELSE {e \in entries : \A f \in entries \ {e} : e \in before[f].begun}

(* _latest_hash_for_driver: ORDER BY created_at DESC LIMIT 1.  created_at    *)
(* is now(), the start of the inserting transaction.                         *)
Newest(entries) ==
  IF entries = {} THEN {None}
  ELSE {e \in entries : \A f \in entries \ {e} : f \in before[e].begun}

UncommittedTip(r) ==
  Newest({e \in Requests \ {r} :
            /\ req[e].driver = req[r].driver
            /\ e \in logged \/ pc[e] \in {"lock", "flush", "replay", "commit", "resolve"}})
LatestEntry(r) == Newest(Entries(req[r].driver))

(* The hash covers the fields of the entry and the hash before it; performed *)
(* checks of one driver, outcome and date differ in nothing else.            *)
SameHash(q, r) == req[q] = req[r] /\ prev[q] = prev[r]

(* The KEY SHARE lock that the foreign key check of an insert leaves on the  *)
(* Driver row, and the FOR UPDATE lock of E6 and of complete_deadline.       *)
(* ROLLBACK TO SAVEPOINT gives up the second and keeps the first.            *)
NoKeyShare(q) == FALSE
EvidenceBeforeLock(q) ==
  pc[q] \in {"complete", "lock", "flush", "replay", "commit", "resolve"}
HoldsKeyShare(q) ==
  pc[q] \in {"lock", "flush", "replay", "commit", "resolve"}
HoldsForUpdate(q) ==
  \/ pc[q] = "flush"
  \/ pc[q] = "resolve" /\ dl[q] # None

Others(r) == {q \in Requests \ {r} : req[q].driver = req[r].driver}

MayLockForUpdate(r) ==
  \A q \in Others(r) : ~HoldsKeyShare(q) /\ ~HoldsForUpdate(q)
MayWriteOrShare(r) == \A q \in Others(r) : ~HoldsForUpdate(q)

NoSweepLock(c) == FALSE
UncommittedNag(c) == c \in claimed \/ nagOn[c] # None
HeldBySweep(c) == c \in claimed

(* UPDATE ... WHERE version_id = :loaded finds no row *)
Stale(r) == snap[r].version # driver[req[r].driver].version

(* An UPDATE of the Driver row also increments version_id *)
Written(row, authorized, anonymized) ==
  [authorized |-> authorized, version |-> row.version + 1, anonymized |-> anonymized]
OnlyReason(row) == Written(row, row.authorized, row.anonymized)
Locked(row)     == Written(row, FALSE, row.anonymized)
Cleared(row)    == Written(row, TRUE, row.anonymized)
Anonymized(row) == Written(row, row.authorized, TRUE)

(* uq_escalation_open_per_driver refuses the insert of a case for d *)
NoOpenCaseIndex(d) == FALSE
OpenCaseIndexRefuses(d) == OpenCases(d) # {}

(* deadline_at is 23:59:59 of the last day of the window, the sweep runs at  *)
(* 06:00, so `now > deadline_at' compares days.                              *)
Due(c) == openedOn[c] + WindowDays
LateOnTheDay(c, day) == day = Due(c) + 1
Late(c, day) == day > Due(c)

-----------------------------------------------------------------------------
Init ==
  /\ driver   = [d \in Drivers |-> NewDriver]
  /\ status   = [r \in Requests |-> "NONE"]
  /\ openedOn = [r \in Requests |-> 0]
  /\ nagOn    = [r \in Requests |-> None]
  /\ alerts   = {}
  /\ fsk      = [x \in Subjects |-> "NONE"]
  /\ logged   = {}
  /\ prev     = [r \in Requests |-> None]
  /\ outbox   = {}
  /\ today    = 0
  /\ req      \in [Requests -> [kind : Kinds, driver : Drivers, date : Dates]]
  /\ before   = [r \in Requests |-> [begun |-> {}, stored |-> {}]]
  /\ pc       = [r \in Requests |-> "idle"]
  /\ snap     = [r \in Requests |-> NewDriver]
  /\ dl       = [r \in Requests |-> None]
  /\ found    = [r \in Requests |-> {}]
  /\ claimed  = {}
  /\ sweepDay = 0

Goto(r, step) == pc' = [pc EXCEPT ![r] = step]

(* The transaction ends and the session forgets what it loaded.  A rollback *)
(* takes back the insert into the chain as well.                            *)
Leave(r, outcome) ==
  /\ Goto(r, outcome)
  /\ snap'  = [snap EXCEPT ![r] = NewDriver]
  /\ found' = [found EXCEPT ![r] = {}]
  /\ UNCHANGED <<today, req, before, claimed, sweepDay>>

Commit(r) == Leave(r, "done") /\ UNCHANGED <<dl, prev>>

RollBack(r, outcome) ==
  /\ Leave(r, outcome)
  /\ dl'   = [dl EXCEPT ![r] = None]
  /\ prev' = [prev EXCEPT ![r] = None]
  /\ UNCHANGED rows

(* create_driver: the row and its first FSK deadline in one transaction.    *)
CreateDriver(d) ==
  /\ ~Exists(d)
  /\ fsk' = [fsk EXCEPT ![d] = "OPEN"]
  /\ UNCHANGED <<driver, status, openedOn, nagOn, alerts, logged, outbox, prev,
                 today, req, before, pc, snap, dl, found, claimed, sweepDay>>

(* get_tenant_context begins the transaction; now() is fixed from here on.  *)
Begin(r) ==
  /\ pc[r] = "idle" /\ Exists(req[r].driver)
  /\ before' = [before EXCEPT ![r] = [begun |-> {q \in Requests : pc[q] # "idle"},
                                      stored |-> logged]]
  /\ Goto(r, "begun")
  /\ UNCHANGED <<rows, prev, today, req, snap, dl, found, claimed, sweepDay>>

(* session.get(Driver): a plain SELECT whose result stays in the identity   *)
(* map; a later SELECT ... FOR UPDATE returns the same object unrefreshed.  *)
GetDriver(r) ==
  /\ pc[r] = "begun"
  /\ snap' = [snap EXCEPT ![r] = driver[req[r].driver]]
  /\ Goto(r, CASE req[r].kind = "FAILED" -> "tip"
               [] req[r].kind = "PASSED" -> "find"
               [] OTHER -> "scrub")
  /\ UNCHANGED <<rows, prev, today, req, before, dl, found, claimed, sweepDay>>

(* record_check, first half: read the hash to chain to *)
ReadTip(r) ==
  /\ pc[r] = "tip"
  /\ \E tip \in LatestEntry(r) : prev' = [prev EXCEPT ![r] = tip]
  /\ Goto(r, "insert")
  /\ UNCHANGED <<rows, today, req, before, snap, dl, found, claimed, sweepDay>>

(* record_check, second half.  The unique index on entry_hash waits for an  *)
(* uncommitted equal hash and refuses a committed one.  An ad-hoc PASSED    *)
(* goes on to read the OPEN case.                                           *)
InsertCheck(r) ==
  /\ pc[r] = "insert"
  /\ MayWriteOrShare(r)
  /\ \A q \in Others(r) : HoldsKeyShare(q) => ~SameHash(q, r)
  /\ \/ /\ \E q \in logged : SameHash(q, r)
        /\ RollBack(r, "failed")
     \/ /\ \A q \in logged : ~SameHash(q, r)
        /\ \/ req[r].kind = "FAILED" /\ Goto(r, "lock") /\ UNCHANGED found
           \/ /\ req[r].kind = "PASSED" /\ Goto(r, "resolve")
              /\ found' = [found EXCEPT ![r] = OpenCases(req[r].driver)]
        /\ UNCHANGED <<rows, prev, today, req, before, snap, dl, claimed, sweepDay>>

-----------------------------------------------------------------------------
(* FAILED: run_e6 and handle_failed_license_check *)

(* SAVEPOINT; SELECT ... FOR UPDATE *)
E6Lock(r) ==
  /\ pc[r] = "lock"
  /\ MayLockForUpdate(r)
  /\ Goto(r, "flush")
  /\ UNCHANGED <<rows, prev, today, req, before, snap, dl, found, claimed, sweepDay>>

(* PostgreSQL ends a cycle of waiters by failing one of them.  Two requests *)
(* that inserted evidence both hold KEY SHARE and both want FOR UPDATE.     *)
DeadlockVictim(r) ==
  /\ pc[r] = "lock"
  /\ \E q \in Others(r) : pc[q] = "lock"
  /\ RollBack(r, "failed")

NoticesFor(template, c, day) ==
  {[template |-> template, case |-> c, day |-> day, to |-> a] : a \in Addresses}

(* The flush writes the versioned UPDATE of the driver and the INSERT of    *)
(* the case in either order, so when both must fail either error comes      *)
(* first: StaleDataError escapes to the client, IntegrityError rolls back   *)
(* to the savepoint.  When neither fails the alert and the outbox rows      *)
(* follow and the request commits.                                          *)
E6Flush(r) ==
  LET d == req[r].driver IN
  /\ pc[r] = "flush"
  /\ \/ Stale(r) /\ RollBack(r, "failed")
     \/ /\ OpenCaseIndexRefuses(d)
        /\ Goto(r, "replay")
        /\ UNCHANGED <<rows, prev, today, req, before, snap, dl, found, claimed, sweepDay>>
     \/ /\ ~Stale(r) /\ ~OpenCaseIndexRefuses(d)
        /\ driver'   = [driver EXCEPT ![d] = Locked(@)]
        /\ status'   = [status EXCEPT ![r] = "OPEN"]
        /\ openedOn' = [openedOn EXCEPT ![r] = today]
        /\ alerts'   = alerts \cup {r}
        /\ outbox'   = outbox \cup NoticesFor("fsk_failed_critical", r, today)
        /\ logged'   = logged \cup {r}
        /\ UNCHANGED <<nagOn, fsk>>
        /\ Commit(r)

(* run_e6 after the rollback to the savepoint: look for the OPEN case; if   *)
(* it is gone by now the IntegrityError is raised again.                    *)
E6Replay(r) ==
  /\ pc[r] = "replay"
  /\ \/ OpenCases(req[r].driver) = {} /\ RollBack(r, "failed")
     \/ /\ OpenCases(req[r].driver) # {}
        /\ Goto(r, "commit")
        /\ UNCHANGED <<rows, prev, today, req, before, snap, dl, found, claimed, sweepDay>>

CommitReplay(r) ==
  /\ pc[r] = "commit"
  /\ logged' = logged \cup {r}
  /\ UNCHANGED <<driver, status, openedOn, nagOn, alerts, fsk, outbox>>
  /\ Commit(r)

-----------------------------------------------------------------------------
(* PASSED: complete_deadline, or the ad-hoc branch, and the resolution *)

(* Any one of the OPEN FSK deadlines, read without a lock *)
FindDeadline(r) ==
  /\ pc[r] = "find"
  /\ \/ \E x \in OpenDeadlines(req[r].driver) :
          dl' = [dl EXCEPT ![r] = x] /\ Goto(r, "complete")
     \/ OpenDeadlines(req[r].driver) = {} /\ Goto(r, "tip") /\ UNCHANGED dl
  /\ UNCHANGED <<rows, prev, today, req, before, snap, found, claimed, sweepDay>>

(* Lock the deadline and the driver, chain the evidence, read the OPEN      *)
(* case.  The status of the deadline is not looked at again.                *)
CompleteDeadline(r) ==
  /\ pc[r] = "complete"
  /\ MayLockForUpdate(r)
  /\ \E tip \in LatestEntry(r) :
       \/ /\ \E q \in logged : req[q] = req[r] /\ prev[q] = tip
          /\ RollBack(r, "failed")
       \/ /\ \A q \in logged : req[q] = req[r] => prev[q] # tip
          /\ prev'  = [prev EXCEPT ![r] = tip]
          /\ found' = [found EXCEPT ![r] = OpenCases(req[r].driver)]
          /\ Goto(r, "resolve")
          /\ UNCHANGED <<rows, today, req, before, snap, dl, claimed, sweepDay>>

(* A deadline of r that _spawn copies from the completed one *)
NoSuccessorAfterLock(r) ==
  IF dl[r] = None THEN fsk
  ELSE [fsk EXCEPT ![dl[r]] = "COMPLETED",
                   ![r] = IF found[r] = {} THEN "OPEN" ELSE "NONE"]
RollForward(r) ==
  IF dl[r] = None THEN fsk
  ELSE [fsk EXCEPT ![dl[r]] = "COMPLETED", ![r] = "OPEN"]

ResolvedInTime(r) == {c \in found[r] : ~Late(c, today)}
Resolved(r) == found[r]

(* _maybe_resolve_open_case and the commit.  The attributes of the driver   *)
(* are written back only if the loaded copy was locked, and only then is    *)
(* the version checked.  The UPDATE of the case waits for a sweep that      *)
(* holds it and then writes RESOLVED_PASSED whatever the sweep wrote.       *)
Resolve(r) ==
  LET d == req[r].driver
      lifts == ~snap[r].authorized
  IN
  /\ pc[r] = "resolve"
  /\ \A c \in found[r] : ~HeldBySweep(c)
  /\ \/ lifts /\ Stale(r) /\ RollBack(r, "failed")
     \/ /\ lifts => ~Stale(r)
        /\ driver' = IF lifts
                     THEN [driver EXCEPT ![d] = Cleared(@)]
                     ELSE driver
        /\ status' = [c \in Requests |->
                        IF c \in Resolved(r) THEN "RESOLVED_PASSED" ELSE status[c]]
        /\ fsk'    = RollForward(r)
        /\ logged' = logged \cup {r}
        /\ UNCHANGED <<openedOn, nagOn, alerts, outbox>>
        /\ Commit(r)

-----------------------------------------------------------------------------
(* ANONYMIZE: anonymize_driver, guarded by the version as well *)
Scrub(r) ==
  LET d == req[r].driver IN
  /\ pc[r] = "scrub"
  /\ MayWriteOrShare(r)
  /\ \/ ~snap[r].anonymized /\ Stale(r) /\ RollBack(r, "failed")
     \/ /\ snap[r].anonymized \/ ~Stale(r)
        /\ driver' = IF snap[r].anonymized THEN driver
                     ELSE [driver EXCEPT ![d] = Anonymized(@)]
        /\ UNCHANGED <<status, openedOn, nagOn, alerts, fsk, logged, outbox>>
        /\ Commit(r)

(* The process dies, the connection is lost: PostgreSQL rolls back. *)
Abort(r) ==
  /\ pc[r] \notin Ended \cup {"idle"}
  /\ RollBack(r, "aborted")

-----------------------------------------------------------------------------
(* sweep_escalations and the calendar *)

ClaimAnyCase == {c \in Requests : status[c] \in {"OPEN", "RESOLVED_PASSED"}}
ClaimableCases == {c \in Requests : status[c] = "OPEN"}

(* SELECT ... FOR UPDATE SKIP LOCKED of the OPEN cases *)
SweepClaim ==
  /\ claimed = {} /\ ClaimableCases # {}
  /\ claimed'  = ClaimableCases
  /\ sweepDay' = today
  /\ UNCHANGED <<rows, prev, today, req, before, pc, snap, dl, found>>

UtcNagDay == sweepDay + 1
NagDay == sweepDay

(* A case past its deadline is BREACHED, another is nagged once a day. *)
SweepCommit ==
  LET late == {c \in claimed : Late(c, sweepDay)}
      nag  == {c \in claimed \ late : nagOn[c] # NagDay}
  IN
  /\ claimed # {}
  /\ status' = [c \in Requests |-> IF c \in late THEN "BREACHED" ELSE status[c]]
  /\ nagOn'  = [c \in Requests |-> IF c \in nag THEN NagDay ELSE nagOn[c]]
  /\ outbox' = outbox
       \cup (UNION {NoticesFor("escalation_breached", c, sweepDay) : c \in late})
       \cup (UNION {NoticesFor("escalation_nag", c, sweepDay) : c \in nag})
  /\ claimed' = {} /\ sweepDay' = 0
  /\ UNCHANGED <<driver, openedOn, alerts, fsk, logged, prev, today, req, before,
                 pc, snap, dl, found>>

SweepCrash ==
  /\ claimed # {}
  /\ claimed' = {} /\ sweepDay' = 0
  /\ UNCHANGED <<rows, prev, today, req, before, pc, snap, dl, found>>

Midnight ==
  /\ today < MaxDay
  /\ today' = today + 1
  /\ UNCHANGED <<rows, prev, req, before, pc, snap, dl, found, claimed, sweepDay>>

-----------------------------------------------------------------------------
Step(r) ==
  \/ GetDriver(r) \/ ReadTip(r) \/ InsertCheck(r)
  \/ E6Lock(r) \/ DeadlockVictim(r) \/ E6Flush(r) \/ E6Replay(r) \/ CommitReplay(r)
  \/ FindDeadline(r) \/ CompleteDeadline(r) \/ Resolve(r)
  \/ Scrub(r)

Sweep == SweepClaim \/ SweepCommit \/ SweepCrash

(* All requests answered; TLC's deadlock check looks for any other standstill. *)
Quiet == (\A r \in Requests : pc[r] \in Ended) /\ UNCHANGED vars

Next ==
  \/ \E d \in Drivers : CreateDriver(d)
  \/ \E r \in Requests : Begin(r) \/ Step(r) \/ Abort(r)
  \/ Sweep
  \/ Midnight
  \/ Quiet

Spec == Init /\ [][Next]_vars

(* A request that has begun runs on: the event loop schedules it and a row   *)
(* lock is granted in the order of its queue, hence strong fairness where a  *)
(* sweep may come and go.  The sweep is fired again and again and not every  *)
(* run crashes.  Nothing makes a request arrive or a day pass.               *)
Fairness ==
  /\ \A r \in Requests : WF_vars(Step(r)) /\ SF_vars(Resolve(r))
  /\ WF_vars(SweepClaim) /\ SF_vars(SweepCommit)

FairSpec == Spec /\ Fairness

-----------------------------------------------------------------------------
(* Properties *)

(* E6 locks the driver in the transaction that opens the case and a PASSED  *)
(* check lifts the lock in the transaction that closes it: whatever races,  *)
(* a driver with an OPEN case is never authorized to drive.                 *)
OpenCaseMeansLocked ==
  \A c \in Requests : status[c] = "OPEN" => ~driver[req[c].driver].authorized

(* What a PASSED check read about the case is still right when it commits:  *)
(* the FOR UPDATE lock, or for an ad-hoc pass the KEY SHARE lock of its own *)
(* evidence, keeps E6 from opening a case that the pass would not resolve.  *)
FoundIsCurrent ==
  \A r \in Requests : pc[r] = "resolve" => OpenCases(req[r].driver) \subseteq found[r]

(* FAILED evidence becomes visible together with the lock: record_check     *)
(* runs before E6 and a replay commits without the FOR UPDATE lock, yet no  *)
(* PASSED check of a driver with a deadline slips in between.               *)
FailedEvidenceLocks ==
  [][\A r \in logged' \ logged :
       req[r].kind = "FAILED" /\ req[r].driver \notin Legacy
         => ~driver'[req[r].driver].authorized]_vars

(* complete_deadline replaces what it completes, so a driver that has once  *)
(* had an FSK deadline always has an OPEN one for the reminder sweep.       *)
DeadlineNeverLapses ==
  \A d \in Drivers \ Legacy : Exists(d) => OpenDeadlines(d) # {}

(* RESTORE_DRILL step 4: every prev_hash is the hash of a stored entry of   *)
(* the same driver, also when the transactions it was read from roll back.  *)
NoBrokenLinks ==
  \A e \in logged : prev[e] # None => prev[e] \in Entries(req[e].driver)

(* The sweep re-reads a case under its row lock: a case that a PASSED check *)
(* has resolved is not breached afterwards.                                 *)
ResolvedIsFinal ==
  [][\A c \in Requests :
       status[c] = "RESOLVED_PASSED" => status'[c] = "RESOLVED_PASSED"]_vars

(* The sweep nags about, and announces the breach of, cases that are OPEN   *)
(* when its rows are committed; a manager is not sent one for a case that   *)
(* somebody has already closed.                                             *)
NoticeOnlyWhileOpen ==
  [][\A n \in outbox' \ outbox :
       n.template # "fsk_failed_critical" => status[n.case] = "OPEN"]_vars

(* With all its transactions the code does what Escalation says: a failed   *)
(* check, a passed one and a sweep look to everybody like one act each, and *)
(* a driver never has two cases at a time.                                  *)
Contract ==
  INSTANCE Escalation WITH
    Cases <- Requests, told <- outbox,
    subject    <- [c \in Requests |-> req[c].driver],
    authorized <- [d \in Drivers |-> driver[d].authorized]
KeepsContract == Contract!Spec

(* The chain of a driver: the locks, the deadline and the case of E6 are    *)
(* not seen in it, and what rolls back leaves nothing.                      *)
StageOf(step) ==
  IF step = "idle" THEN "idle"
  ELSE IF step \in Ended THEN "ended"
  ELSE IF step \in {"insert", "lock", "flush", "replay", "commit", "resolve"}
       THEN "linked" ELSE "open"
stage == [r \in Requests |-> StageOf(pc[r])]
Chain ==
  INSTANCE EvidenceChain WITH
    Subjects <- Drivers, subject <- [r \in Requests |-> req[r].driver]
KeepsChain == Chain!Spec

(* Checks of a driver fork its chain only where they overlap one another or *)
(* the check they chain to, though record_check reads the last entry before *)
(* any lock and created_at decides which one that is.                       *)
ForksNeedOverlap == Chain!ForksNeedOverlap

(* Only E6 deadlocks, where evidence comes before the lock: while requests  *)
(* of a driver are underway, one of them waits for no other, or PostgreSQL  *)
(* finds two that have inserted FAILED evidence and now want the driver.    *)
Waits(r) ==
  \/ pc[r] \in {"lock", "complete"} /\ ~MayLockForUpdate(r)
  \/ pc[r] \in {"insert", "scrub"} /\ ~MayWriteOrShare(r)
  \/ pc[r] = "insert" /\ \E q \in Others(r) : HoldsKeyShare(q) /\ SameHash(q, r)
Underway(d) == {r \in Requests : req[r].driver = d /\ pc[r] \notin Ended \cup {"idle"}}
OnlyE6Deadlocks ==
  \A d \in Drivers :
    Underway(d) # {} =>
      \/ \E r \in Underway(d) : ~Waits(r)
      \/ \E q, r \in Underway(d) : q # r /\ pc[q] = "lock" /\ pc[r] = "lock"

(* No request waits for ever for row locks or for a unique index.           *)
EveryRequestEnds ==
  \A r \in Requests : pc[r] = "begun" ~> pc[r] \in Ended

(* A case past its deadline does not stay OPEN, even when the sweep of the  *)
(* first day after the deadline did not run.                                *)
LateCaseCloses ==
  \A c \in Requests :
    status[c] = "OPEN" /\ Late(c, today) ~> status[c] # "OPEN"

-----------------------------------------------------------------------------
(* What holds of every single step: the invariant behind the safety         *)
(* properties above.                                                        *)

(* Row locks exclude each other as PostgreSQL's conflict table says: next   *)
(* to a FOR UPDATE lock nobody else has evidence of the driver in flight.   *)
LockExclusion ==
  \A q \in Requests : \A r \in Others(q) : HoldsForUpdate(q) => ~HoldsKeyShare(r)

(* Where a request is tells what it asked for, which deadline it works on   *)
(* and what it has inserted; a replay about to commit finds a locked driver. *)
RequestState(r) ==
  /\ pc[r] # "idle" => Exists(req[r].driver)
  /\ pc[r] \in {"find", "complete", "resolve"} => req[r].kind = "PASSED"
  /\ pc[r] \notin {"complete", "resolve", "done"} => dl[r] = None
  /\ pc[r] = "complete" => dl[r] # None
  /\ dl[r] # None => SubjectOf(dl[r]) = req[r].driver
  /\ req[r].driver \notin Legacy =>
       /\ pc[r] \in {"tip", "insert"} => req[r].kind = "FAILED"
       /\ pc[r] = "resolve" => dl[r] # None
       /\ pc[r] = "commit" => ~driver[req[r].driver].authorized
  /\ prev[r] # None => prev[r] \in Entries(req[r].driver)
  /\ status[r] # "NONE" => pc[r] = "done"
  /\ \A c \in found[r] : status[c] # "NONE"

(* The FOR UPDATE lock of the sweep keeps what it selected OPEN.            *)
ClaimedStaysOpen == \A c \in claimed : status[c] = "OPEN"

IInv ==
  /\ TypeOK
  /\ LockExclusion
  /\ \A r \in Requests : RequestState(r)
  /\ ClaimedStaysOpen
  /\ OpenCaseMeansLocked
  /\ FoundIsCurrent
  /\ DeadlineNeverLapses

-----------------------------------------------------------------------------
(* What the documentation says and the code does not do *)

(* record_check: its callers lock the driver FOR UPDATE so that the chain   *)
(* cannot fork under concurrency.                                           *)
ChainNeverForks ==
  \A e, f \in logged :
    e # f /\ req[e].driver = req[f].driver => prev[e] # prev[f]

(* _maybe_resolve_open_case: a PASSED check means the driver is cleared.    *)
PassedClears ==
  [][\A r \in logged' \ logged :
       req[r].kind = "PASSED" => driver'[req[r].driver].authorized]_vars

(* run_e6 turns a racing second FAILED check into an idempotent replay; no  *)
(* exception escapes.                                                       *)
NoExceptionEscapes == \A r \in Requests : pc[r] # "failed"

=============================================================================
