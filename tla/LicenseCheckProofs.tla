------------------------- MODULE LicenseCheckProofs -------------------------
(***************************************************************************)
(* Proofs about LicenseCheck, for every set of drivers and requests.       *)
(***************************************************************************)
EXTENDS LicenseCheck, TLAPS

-----------------------------------------------------------------------------
(* Types *)

LEMMA InitType == Init => TypeOK
  BY CalendarAssumption, KindsAssumption
  DEF Init, TypeOK, DriverRow, NewDriver, Days, Steps, Ended, Ask, Past

(* What ends a transaction keeps the types of the local variables. *)
LEMMA LeaveType ==
  ASSUME TypeOK, NEW r \in Requests, NEW o \in Ended, Leave(r, o)
  PROVE  /\ pc' \in [Requests -> Steps]
         /\ snap' \in [Requests -> DriverRow]
         /\ found' \in [Requests -> SUBSET Requests]
  BY DEF TypeOK, Leave, Goto, Steps, DriverRow, NewDriver

LEMMA RollBackType ==
  ASSUME TypeOK, NEW r \in Requests, NEW o \in Ended, RollBack(r, o)
  PROVE  TypeOK'
  <1>1. Leave(r, o)
    BY DEF RollBack
  <1>2. /\ dl' \in [Requests -> Subjects \cup {None}]
        /\ prev' \in [Requests -> Requests \cup {None}]
    BY DEF TypeOK, RollBack
  <1>3. QED
    BY <1>1, <1>2, LeaveType DEF TypeOK, RollBack, Leave, rows

LEMMA CommitType ==
  ASSUME TypeOK, NEW r \in Requests, Commit(r)
  PROVE  /\ pc' \in [Requests -> Steps]
         /\ snap' \in [Requests -> DriverRow]
         /\ found' \in [Requests -> SUBSET Requests]
         /\ UNCHANGED <<dl, prev, today, req, before, claimed, sweepDay>>
  BY LeaveType DEF Commit, Leave, Ended

LEMMA RowType ==
  ASSUME NEW row \in DriverRow
  PROVE  /\ Locked(row) \in DriverRow
         /\ Cleared(row) \in DriverRow
         /\ Anonymized(row) \in DriverRow
  BY DEF Locked, Cleared, Anonymized, Written, DriverRow

LEMMA NoticesType ==
  ASSUME NEW t \in {"fsk_failed_critical", "escalation_nag", "escalation_breached"},
         NEW c \in Requests, NEW day \in Days
  PROVE  NoticesFor(t, c, day) \subseteq Notice
  BY DEF NoticesFor, Notice

LEMMA NewestType ==
  ASSUME NEW S \in SUBSET Requests, NEW tip \in Newest(S)
  PROVE  tip \in Requests \cup {None}
  BY DEF Newest

LEMMA StepType ==
  ASSUME TypeOK, NEW r \in Requests, Step(r)
  PROVE  TypeOK'
  <1>1. CASE GetDriver(r)
    BY <1>1 DEF TypeOK, GetDriver, Goto, Steps, Ended, rows, Ask
  <1>2. CASE ReadTip(r)
    <2>1. PICK tip \in LatestEntry(r) : prev' = [prev EXCEPT ![r] = tip]
      BY <1>2 DEF ReadTip
    <2>2. tip \in Requests \cup {None}
      BY <2>1, NewestType DEF LatestEntry, Entries, TypeOK
    <2>3. QED
      BY <1>2, <2>1, <2>2 DEF TypeOK, ReadTip, Goto, Steps, Ended, rows
  <1>3. CASE InsertCheck(r)
    <2>1. CASE RollBack(r, "failed")
      BY <2>1, RollBackType DEF Ended
    <2>2. CASE ~RollBack(r, "failed")
      BY <1>3, <2>2 DEF TypeOK, InsertCheck, Goto, Steps, Ended, rows, OpenCases
    <2>3. QED
      BY <2>1, <2>2
  <1>4. CASE E6Lock(r)
    BY <1>4 DEF TypeOK, E6Lock, Goto, Steps, Ended, rows
  <1>5. CASE DeadlockVictim(r)
    BY <1>5, RollBackType DEF DeadlockVictim, Ended
  <1>6. CASE E6Flush(r)
    <2>1. CASE RollBack(r, "failed")
      BY <2>1, RollBackType DEF Ended
    <2>2. CASE pc' = [pc EXCEPT ![r] = "replay"]
               /\ UNCHANGED <<rows, prev, today, req, before, snap, dl, found,
                              claimed, sweepDay>>
      BY <2>2 DEF TypeOK, Steps, Ended, rows
    <2>3. CASE /\ driver' = [driver EXCEPT ![req[r].driver] = Locked(@)]
               /\ status'   = [status EXCEPT ![r] = "OPEN"]
               /\ openedOn' = [openedOn EXCEPT ![r] = today]
               /\ alerts'   = alerts \cup {r}
               /\ outbox'   = outbox \cup NoticesFor("fsk_failed_critical", r, today)
               /\ logged'   = logged \cup {r}
               /\ UNCHANGED <<nagOn, fsk>>
               /\ Commit(r)
      <3>1. driver' \in [Drivers -> DriverRow]
        BY <2>3, RowType DEF TypeOK, Ask
      <3>2. outbox' \subseteq Notice
        BY <2>3, NoticesType DEF TypeOK
      <3>3. QED
        BY <2>3, <3>1, <3>2, CommitType DEF TypeOK
    <2>4. QED
      BY <1>6, <2>1, <2>2, <2>3 DEF E6Flush, Goto
  <1>7. CASE E6Replay(r)
    <2>1. CASE RollBack(r, "failed")
      BY <2>1, RollBackType DEF Ended
    <2>2. CASE ~RollBack(r, "failed")
      BY <1>7, <2>2 DEF TypeOK, E6Replay, Goto, Steps, Ended, rows
    <2>3. QED
      BY <2>1, <2>2
  <1>8. CASE CommitReplay(r)
    BY <1>8, CommitType DEF TypeOK, CommitReplay
  <1>9. CASE FindDeadline(r)
    BY <1>9 DEF TypeOK, FindDeadline, OpenDeadlines, Goto, Steps, Ended, rows
  <1>10. CASE CompleteDeadline(r)
    <2>1. CASE RollBack(r, "failed")
      BY <2>1, RollBackType DEF Ended
    <2>2. CASE ~RollBack(r, "failed")
      <3>1. PICK tip \in LatestEntry(r) :
              /\ prev'  = [prev EXCEPT ![r] = tip]
              /\ found' = [found EXCEPT ![r] = OpenCases(req[r].driver)]
              /\ Goto(r, "resolve")
              /\ UNCHANGED <<rows, today, req, before, snap, dl, claimed, sweepDay>>
        BY <1>10, <2>2 DEF CompleteDeadline
      <3>2. tip \in Requests \cup {None}
        BY <3>1, NewestType DEF LatestEntry, Entries, TypeOK
      <3>3. QED
        BY <3>1, <3>2 DEF TypeOK, OpenCases, Goto, Steps, Ended, rows
    <2>3. QED
      BY <2>1, <2>2
  <1>11. CASE Resolve(r)
    <2>1. CASE RollBack(r, "failed")
      BY <2>1, RollBackType DEF Ended
    <2>2. CASE ~RollBack(r, "failed")
      <3>1. driver' \in [Drivers -> DriverRow]
        BY <1>11, <2>2, RowType DEF TypeOK, Resolve, Ask
      <3>2. fsk' \in [Subjects -> {"NONE", "OPEN", "COMPLETED"}]
        BY <1>11, <2>2 DEF TypeOK, Resolve, RollForward, Subjects
      <3>3. Commit(r)
        BY <1>11, <2>2 DEF Resolve
      <3>4. QED
        BY <1>11, <2>2, <3>1, <3>2, <3>3, CommitType DEF TypeOK, Resolve
    <2>3. QED
      BY <2>1, <2>2
  <1>12. CASE Scrub(r)
    <2>1. CASE RollBack(r, "failed")
      BY <2>1, RollBackType DEF Ended
    <2>2. CASE ~RollBack(r, "failed")
      <3>1. driver' \in [Drivers -> DriverRow]
        BY <1>12, <2>2, RowType DEF TypeOK, Scrub, Ask
      <3>2. Commit(r)
        BY <1>12, <2>2 DEF Scrub
      <3>3. QED
        BY <1>12, <2>2, <3>1, <3>2, CommitType DEF TypeOK, Scrub
    <2>3. QED
      BY <2>1, <2>2
  <1>13. QED
    BY <1>1, <1>2, <1>3, <1>4, <1>5, <1>6, <1>7, <1>8, <1>9, <1>10, <1>11, <1>12
    DEF Step

LEMMA NextType ==
  ASSUME TypeOK, [Next]_vars
  PROVE  TypeOK'
  <1>1. ASSUME NEW d \in Drivers, CreateDriver(d) PROVE TypeOK'
    BY <1>1 DEF TypeOK, CreateDriver, Subjects
  <1>2. ASSUME NEW r \in Requests, Begin(r) PROVE TypeOK'
    BY <1>2 DEF TypeOK, Begin, Goto, Steps, Ended, rows, Past
  <1>3. ASSUME NEW r \in Requests, Abort(r) PROVE TypeOK'
    BY <1>3, RollBackType DEF Abort, Ended
  <1>4. CASE SweepClaim
    BY <1>4 DEF TypeOK, SweepClaim, ClaimableCases, rows
  <1>5. CASE SweepCommit
    <2> DEFINE late == {c \in claimed : Late(c, sweepDay)}
               nag  == {c \in claimed \ late : nagOn[c] # NagDay}
               breached == UNION {NoticesFor("escalation_breached", c, sweepDay) : c \in late}
               nagged   == UNION {NoticesFor("escalation_nag", c, sweepDay) : c \in nag}
    <2>1. breached \subseteq Notice /\ nagged \subseteq Notice
      <3>1. /\ \A c \in late : NoticesFor("escalation_breached", c, sweepDay) \subseteq Notice
            /\ \A c \in nag : NoticesFor("escalation_nag", c, sweepDay) \subseteq Notice
        BY NoticesType DEF TypeOK
      <3> HIDE DEF late, nag
      <3>2. QED
        BY <3>1, Zenon
    <2>2. outbox' \subseteq Notice
      <3>1. outbox' = outbox \cup breached \cup nagged
        BY <1>5 DEF SweepCommit
      <3> HIDE DEF breached, nagged
      <3>2. QED
        BY <2>1, <3>1 DEF TypeOK
    <2>3. nagOn' \in [Requests -> Days \cup {None}]
      BY <1>5 DEF TypeOK, SweepCommit, NagDay
    <2>4. status' \in [Requests -> {"NONE", "OPEN", "RESOLVED_PASSED", "BREACHED"}]
      BY <1>5 DEF TypeOK, SweepCommit
    <2>5. QED
      BY <1>5, <2>2, <2>3, <2>4, CalendarAssumption DEF TypeOK, SweepCommit, Days
  <1>6. CASE SweepCrash
    BY <1>6, CalendarAssumption DEF TypeOK, SweepCrash, rows, Days
  <1>7. CASE Midnight
    BY <1>7, CalendarAssumption DEF TypeOK, Midnight, rows, Days
  <1>8. CASE UNCHANGED vars
    BY <1>8 DEF TypeOK, vars, rows
  <1>9. QED
    BY <1>1, <1>2, <1>3, <1>4, <1>5, <1>6, <1>7, <1>8, StepType DEF Next, Sweep, Quiet

(* Every row keeps the type of its column in every reachable state. *)
THEOREM TypeCorrect == Spec => []TypeOK
  <1>1. QED
    BY InitType, NextType, PTL DEF Spec

-----------------------------------------------------------------------------
(* The inductive invariant *)

LEMMA InitInv == Init => IInv
  <1> SUFFICES ASSUME Init PROVE IInv
    OBVIOUS
  <1>1. TypeOK
    BY InitType
  <1>2. LockExclusion /\ ClaimedStaysOpen /\ OpenCaseMeansLocked /\ FoundIsCurrent
    BY DEF Init, LockExclusion, HoldsForUpdate, Others, ClaimedStaysOpen,
           OpenCaseMeansLocked, FoundIsCurrent
  <1>3. \A r \in Requests : RequestState(r)
    BY DEF Init, RequestState
  <1>4. DeadlineNeverLapses
    BY DEF Init, DeadlineNeverLapses, Exists, Subjects
  <1>5. QED
    BY <1>1, <1>2, <1>3, <1>4 DEF IInv

(* A step of r that touches nothing but its own transaction keeps the        *)
(* invariant if r takes locks by the rules and its own state is as it should *)
(* be.                                                                       *)
LEMMA LocalStep ==
  ASSUME IInv, TypeOK', NEW r \in Requests,
         UNCHANGED <<driver, status, fsk, logged, req, claimed>>,
         \A q \in Requests \ {r} : /\ pc'[q] = pc[q] /\ dl'[q] = dl[q]
                                   /\ found'[q] = found[q] /\ prev'[q] = prev[q],
         RequestState(r)',
         pc'[r] = "resolve" => OpenCases(req[r].driver) \subseteq found'[r],
         HoldsKeyShare(r)' => HoldsKeyShare(r) \/ MayWriteOrShare(r),
         HoldsForUpdate(r)' => HoldsForUpdate(r) \/ MayLockForUpdate(r)
  PROVE  IInv'
  <1> USE DEF IInv
  <1>1. LockExclusion'
    <2> SUFFICES ASSUME NEW q \in Requests, NEW p \in Others(q)', HoldsForUpdate(q)',
                        HoldsKeyShare(p)'
                 PROVE  FALSE
      BY DEF LockExclusion
    <2>1. p \in Requests /\ p # q /\ p \in Others(q) /\ q \in Others(p)
      BY DEF Others
    <2>2. CASE q = r
      BY <2>1, <2>2 DEF HoldsForUpdate, HoldsKeyShare, MayLockForUpdate, LockExclusion
    <2>3. CASE p = r
      BY <2>1, <2>3 DEF HoldsForUpdate, HoldsKeyShare, MayWriteOrShare, LockExclusion
    <2>4. CASE q # r /\ p # r
      BY <2>1, <2>4 DEF HoldsForUpdate, HoldsKeyShare, LockExclusion
    <2>5. QED
      BY <2>2, <2>3, <2>4
  <1>2. (\A q \in Requests : RequestState(q))'
    BY DEF RequestState, Exists, SubjectOf, Entries
  <1>3. FoundIsCurrent'
    BY DEF FoundIsCurrent, OpenCases
  <1>4. ClaimedStaysOpen' /\ OpenCaseMeansLocked'
    BY DEF ClaimedStaysOpen, OpenCaseMeansLocked
  <1>5. DeadlineNeverLapses'
    BY DEF DeadlineNeverLapses, Exists, OpenDeadlines, SubjectOf
  <1>6. QED
    BY <1>1, <1>2, <1>3, <1>4, <1>5

LEMMA RollBackInv ==
  ASSUME IInv, NEW r \in Requests, NEW o \in {"failed", "aborted"}, RollBack(r, o),
         pc[r] # "done", pc[r] # "idle"
  PROVE  IInv'
  <1> USE DEF IInv
  <1>1. TypeOK'
    BY RollBackType DEF Ended
  <1>2. /\ UNCHANGED <<driver, status, fsk, logged, req, claimed>>
        /\ pc' = [pc EXCEPT ![r] = o] /\ found' = [found EXCEPT ![r] = {}]
        /\ dl' = [dl EXCEPT ![r] = None] /\ prev' = [prev EXCEPT ![r] = None]
    BY DEF RollBack, Leave, Goto, rows
  <1>3. pc'[r] = o /\ dl'[r] = None /\ prev'[r] = None
    BY <1>2 DEF TypeOK
  <1>4. RequestState(r)'
    BY <1>2, <1>3 DEF RequestState, Exists
  <1>5. QED
    BY <1>1, <1>2, <1>3, <1>4, LocalStep DEF TypeOK, HoldsKeyShare, HoldsForUpdate

LEMMA BeginInv ==
  ASSUME IInv, NEW r \in Requests, Begin(r), TypeOK'
  PROVE  IInv'
  <1>1. pc'[r] = "begun" /\ dl'[r] = None /\ prev'[r] = prev[r]
    BY DEF IInv, TypeOK, Begin, Goto, RequestState
  <1>2. RequestState(r)'
    BY <1>1 DEF IInv, Begin, RequestState, Exists, Entries, rows
  <1>3. QED
    BY <1>1, <1>2, LocalStep DEF TypeOK, IInv, Begin, Goto, HoldsKeyShare, HoldsForUpdate, rows

LEMMA GetDriverInv ==
  ASSUME IInv, NEW r \in Requests, GetDriver(r), TypeOK'
  PROVE  IInv'
  <1>1. /\ pc'[r] \in {"tip", "find", "scrub"} /\ dl'[r] = None /\ prev'[r] = prev[r]
        /\ pc'[r] = "tip" => req[r].kind = "FAILED"
        /\ pc'[r] = "find" => req[r].kind = "PASSED"
    BY DEF IInv, TypeOK, GetDriver, Goto, RequestState
  <1>2. RequestState(r)'
    BY <1>1 DEF IInv, GetDriver, RequestState, Exists, Entries, rows
  <1>3. QED
    BY <1>1, <1>2, LocalStep DEF TypeOK, IInv, GetDriver, Goto, HoldsKeyShare, HoldsForUpdate, rows

LEMMA ReadTipInv ==
  ASSUME IInv, NEW r \in Requests, ReadTip(r), TypeOK'
  PROVE  IInv'
  <1>1. /\ pc'[r] = "insert" /\ dl'[r] = None
        /\ prev'[r] # None => prev'[r] \in Entries(req[r].driver)
    BY DEF IInv, TypeOK, ReadTip, Goto, RequestState, LatestEntry, Newest
  <1>2. RequestState(r)'
    BY <1>1 DEF IInv, ReadTip, RequestState, Exists, Entries, rows
  <1>3. QED
    BY <1>1, <1>2, LocalStep DEF TypeOK, IInv, ReadTip, Goto, HoldsKeyShare, HoldsForUpdate, rows

LEMMA InsertCheckInv ==
  ASSUME IInv, NEW r \in Requests, InsertCheck(r), TypeOK'
  PROVE  IInv'
  <1>1. CASE RollBack(r, "failed")
    BY <1>1, RollBackInv DEF InsertCheck
  <1>2. CASE ~RollBack(r, "failed")
    <2>1. /\ \/ pc'[r] = "lock" /\ found'[r] = found[r]
             \/ /\ pc'[r] = "resolve" /\ req[r].kind = "PASSED"
                /\ found'[r] = OpenCases(req[r].driver)
          /\ dl'[r] = None /\ prev'[r] = prev[r] /\ pc[r] = "insert"
      BY <1>2 DEF IInv, TypeOK, InsertCheck, Goto, RequestState
    <2>2. RequestState(r)'
      BY <1>2, <2>1 DEF IInv, InsertCheck, RequestState, Exists, Entries, OpenCases, rows
    <2>3. QED
      BY <1>2, <2>1, <2>2, LocalStep
      DEF TypeOK, IInv, InsertCheck, Goto, HoldsKeyShare, HoldsForUpdate, rows
  <1>3. QED
    BY <1>1, <1>2

LEMMA E6LockInv ==
  ASSUME IInv, NEW r \in Requests, E6Lock(r), TypeOK'
  PROVE  IInv'
  <1>1. pc[r] = "lock" /\ pc'[r] = "flush" /\ dl'[r] = None /\ prev'[r] = prev[r]
    BY DEF IInv, TypeOK, E6Lock, Goto, RequestState
  <1>2. RequestState(r)'
    BY <1>1 DEF IInv, E6Lock, RequestState, Exists, Entries, rows
  <1>3. QED
    BY <1>1, <1>2, LocalStep DEF TypeOK, IInv, E6Lock, Goto, HoldsKeyShare, HoldsForUpdate, rows

(* E6 opens its case next to no other OPEN case, locks the driver with it,  *)
(* and no PASSED check of the driver is about to commit.                    *)
LEMMA OpenCaseInv ==
  ASSUME IInv, NEW r \in Requests, E6Flush(r), TypeOK', pc'[r] = "done"
  PROVE  IInv'
  <1> USE DEF IInv
  <1> DEFINE d == req[r].driver
  <1>1. /\ pc[r] = "flush" /\ dl[r] = None /\ d \in Drivers
        /\ driver' = [driver EXCEPT ![d] = Locked(@)]
        /\ status' = [status EXCEPT ![r] = "OPEN"]
        /\ pc' = [pc EXCEPT ![r] = "done"]
        /\ found' = [found EXCEPT ![r] = {}]
        /\ UNCHANGED <<fsk, req, claimed, dl, prev>>
        /\ logged' = logged \cup {r}
    <2>1. /\ pc[r] = "flush" /\ dl[r] = None /\ d \in Drivers
          /\ pc \in [Requests -> Steps]
      BY DEF E6Flush, TypeOK, RequestState, Ask
    <2>2. ~RollBack(r, "failed") /\ ~Goto(r, "replay")
      BY <2>1 DEF RollBack, Leave, Goto
    <2> QED
      BY <2>1, <2>2 DEF E6Flush, Commit, Leave, Goto
  <1>2. /\ driver'[d].authorized = FALSE
        /\ \A e \in Drivers \ {d} : driver'[e] = driver[e]
    BY <1>1 DEF TypeOK, Locked, Written
  <1>3. LockExclusion'
    BY <1>1 DEF LockExclusion, HoldsForUpdate, HoldsKeyShare, Others, TypeOK
  <1>4. (\A q \in Requests : RequestState(q))'
    BY <1>1, <1>2 DEF RequestState, Exists, SubjectOf, Entries, TypeOK, Ask
  <1>5. ClaimedStaysOpen'
    BY <1>1 DEF ClaimedStaysOpen, TypeOK
  <1>6. OpenCaseMeansLocked'
    BY <1>1, <1>2 DEF OpenCaseMeansLocked, TypeOK, Ask
  <1>7. FoundIsCurrent'
    BY <1>1 DEF FoundIsCurrent, OpenCases, LockExclusion, HoldsForUpdate, HoldsKeyShare,
                Others, TypeOK
  <1>8. DeadlineNeverLapses'
    BY <1>1 DEF DeadlineNeverLapses, Exists, OpenDeadlines, SubjectOf
  <1>9. QED
    BY <1>3, <1>4, <1>5, <1>6, <1>7, <1>8

LEMMA E6FlushInv ==
  ASSUME IInv, NEW r \in Requests, E6Flush(r), TypeOK'
  PROVE  IInv'
  <1>1. CASE RollBack(r, "failed")
    BY <1>1, RollBackInv DEF E6Flush
  <1>2. CASE Goto(r, "replay")
             /\ UNCHANGED <<rows, prev, today, req, before, snap, dl, found,
                            claimed, sweepDay>>
    <2>1. pc[r] = "flush" /\ pc'[r] = "replay" /\ dl'[r] = None /\ prev'[r] = prev[r]
      BY <1>2 DEF IInv, TypeOK, E6Flush, Goto, RequestState
    <2>2. RequestState(r)'
      BY <1>2, <2>1 DEF IInv, RequestState, Exists, Entries, rows
    <2>3. QED
      BY <1>2, <2>1, <2>2, LocalStep
      DEF TypeOK, IInv, Goto, HoldsKeyShare, HoldsForUpdate, rows
  <1>3. CASE pc'[r] = "done"
    BY <1>3, OpenCaseInv
  <1>4. QED
    BY <1>1, <1>2, <1>3 DEF E6Flush, IInv, TypeOK, Commit, Leave, Goto

LEMMA E6ReplayInv ==
  ASSUME IInv, NEW r \in Requests, E6Replay(r), TypeOK'
  PROVE  IInv'
  <1>1. CASE RollBack(r, "failed")
    BY <1>1, RollBackInv DEF E6Replay
  <1>2. CASE ~RollBack(r, "failed")
    <2>1. /\ pc[r] = "replay" /\ pc'[r] = "commit" /\ dl'[r] = None /\ prev'[r] = prev[r]
          /\ found'[r] = found[r] /\ UNCHANGED rows /\ UNCHANGED req
      BY <1>2 DEF IInv, TypeOK, E6Replay, Goto, RequestState
    <2>2. ~driver[req[r].driver].authorized
      BY <1>2 DEF E6Replay, IInv, OpenCaseMeansLocked, OpenCases
    <2>3. RequestState(r)'
      BY <2>1, <2>2 DEF IInv, RequestState, Exists, Entries, rows
    <2>4. QED
      BY <1>2, <2>1, <2>3, LocalStep
      DEF TypeOK, IInv, E6Replay, Goto, HoldsKeyShare, HoldsForUpdate, rows
  <1>3. QED
    BY <1>1, <1>2

LEMMA CommitReplayInv ==
  ASSUME IInv, NEW r \in Requests, CommitReplay(r), TypeOK'
  PROVE  IInv'
  <1> USE DEF IInv
  <1>1. /\ pc[r] = "commit" /\ dl[r] = None
        /\ logged' = logged \cup {r}
        /\ pc' = [pc EXCEPT ![r] = "done"]
        /\ found' = [found EXCEPT ![r] = {}]
        /\ UNCHANGED <<driver, status, fsk, req, claimed, dl, prev>>
    BY DEF CommitReplay, TypeOK, RequestState, Commit, Leave, Goto
  <1>2. LockExclusion'
    BY <1>1 DEF LockExclusion, HoldsForUpdate, HoldsKeyShare, Others, TypeOK
  <1>3. (\A q \in Requests : RequestState(q))'
    BY <1>1 DEF RequestState, Exists, SubjectOf, Entries, TypeOK
  <1>4. ClaimedStaysOpen' /\ OpenCaseMeansLocked'
    BY <1>1 DEF ClaimedStaysOpen, OpenCaseMeansLocked
  <1>5. FoundIsCurrent'
    BY <1>1 DEF FoundIsCurrent, OpenCases, TypeOK
  <1>6. DeadlineNeverLapses'
    BY <1>1 DEF DeadlineNeverLapses, Exists, OpenDeadlines, SubjectOf
  <1>7. QED
    BY <1>2, <1>3, <1>4, <1>5, <1>6

LEMMA FindDeadlineInv ==
  ASSUME IInv, NEW r \in Requests, FindDeadline(r), TypeOK'
  PROVE  IInv'
  <1>1. req[r].driver \in Drivers /\ req[r].kind = "PASSED" /\ Exists(req[r].driver)
    BY DEF IInv, TypeOK, FindDeadline, RequestState, Ask
  <1>2. /\ \/ /\ pc'[r] = "complete" /\ dl'[r] # None /\ SubjectOf(dl'[r]) = req[r].driver
           \/ pc'[r] = "tip" /\ dl'[r] = None /\ req[r].driver \in Legacy
        /\ prev'[r] = prev[r]
    BY <1>1, NamesAssumption
    DEF IInv, TypeOK, FindDeadline, Goto, RequestState, OpenDeadlines, Subjects,
        DeadlineNeverLapses
  <1>3. RequestState(r)'
    BY <1>1, <1>2 DEF IInv, FindDeadline, RequestState, Exists, SubjectOf, Entries, rows
  <1>4. QED
    BY <1>2, <1>3, LocalStep
    DEF TypeOK, IInv, FindDeadline, Goto, HoldsKeyShare, HoldsForUpdate, rows

LEMMA CompleteDeadlineInv ==
  ASSUME IInv, NEW r \in Requests, CompleteDeadline(r), TypeOK'
  PROVE  IInv'
  <1>1. CASE RollBack(r, "failed")
    BY <1>1, RollBackInv DEF CompleteDeadline
  <1>2. CASE ~RollBack(r, "failed")
    <2>1. /\ pc[r] = "complete" /\ pc'[r] = "resolve" /\ dl'[r] = dl[r]
          /\ found'[r] = OpenCases(req[r].driver)
          /\ prev'[r] # None => prev'[r] \in Entries(req[r].driver)
          /\ UNCHANGED <<rows, req>> /\ MayLockForUpdate(r)
      BY <1>2 DEF IInv, TypeOK, CompleteDeadline, Goto, RequestState, LatestEntry, Newest
    <2>2. RequestState(r)'
      BY <2>1 DEF IInv, RequestState, Exists, SubjectOf, Entries, OpenCases, rows
    <2>3. QED
      BY <1>2, <2>1, <2>2, LocalStep
      DEF TypeOK, IInv, CompleteDeadline, Goto, HoldsKeyShare, HoldsForUpdate,
          MayLockForUpdate, MayWriteOrShare, rows
  <1>3. QED
    BY <1>1, <1>2

(* A PASSED check closes every OPEN case of its driver, because none can    *)
(* have been opened since it looked; where it may lift the lock under the   *)
(* feet of a replay, the replay's KEY SHARE lock is in its way.             *)
LEMMA CommitResolveInv ==
  ASSUME IInv, NEW r \in Requests, Resolve(r), TypeOK', pc'[r] = "done"
  PROVE  IInv'
  <1> USE DEF IInv
  <1> DEFINE d == req[r].driver
  <1>1. /\ pc[r] = "resolve" /\ d \in Drivers
        /\ \A c \in found[r] : c \notin claimed
        /\ \A e \in Drivers \ {d} : driver'[e] = driver[e]
        /\ status' = [c \in Requests |->
                        IF c \in found[r] THEN "RESOLVED_PASSED" ELSE status[c]]
        /\ fsk' = RollForward(r)
        /\ logged' = logged \cup {r}
        /\ pc' = [pc EXCEPT ![r] = "done"]
        /\ found' = [found EXCEPT ![r] = {}]
        /\ UNCHANGED <<req, claimed, dl, prev>>
    BY DEF Resolve, Resolved, HeldBySweep, TypeOK, Ask, Commit, Leave, Goto, RollBack
  <1>2. OpenCases(d) \subseteq found[r] /\ SubjectOf(r) = d
        /\ (dl[r] # None => dl[r] \in Subjects /\ SubjectOf(dl[r]) = d)
    BY <1>1, NamesAssumption DEF FoundIsCurrent, RequestState, TypeOK, SubjectOf
  <1>3. /\ \A e \in Drivers : Exists(e) => Exists(e)'
        /\ \A x \in Subjects : SubjectOf(x)' = SubjectOf(x)
        /\ \A x \in Subjects \ {dl[r]} : fsk[x] = "OPEN" => fsk'[x] = "OPEN"
        /\ dl[r] # None => fsk'[r] = "OPEN"
        /\ dl[r] = None => fsk' = fsk
    BY <1>1, <1>2, NamesAssumption DEF RollForward, Exists, SubjectOf, Subjects, TypeOK
  <1>4. LockExclusion'
    BY <1>1 DEF LockExclusion, HoldsForUpdate, HoldsKeyShare, Others, TypeOK
  <1>5. ASSUME NEW q \in Requests PROVE RequestState(q)'
    <2>1. pc'[q] = "commit" /\ req[q].driver \notin Legacy
            => ~driver'[req[q].driver].authorized
      <3> SUFFICES ASSUME pc'[q] = "commit", req[q].driver \notin Legacy
                   PROVE  ~driver'[req[q].driver].authorized
        OBVIOUS
      <3>1. pc[q] = "commit" /\ q # r /\ HoldsKeyShare(q)
        BY <1>1 DEF TypeOK, HoldsKeyShare
      <3>2. CASE req[q].driver = d
        BY <1>1, <3>1, <3>2 DEF LockExclusion, HoldsForUpdate, Others, RequestState
      <3>3. CASE req[q].driver # d
        BY <1>1, <3>1, <3>3 DEF RequestState, TypeOK, Ask
      <3>4. QED
        BY <3>2, <3>3
    <2>2. status'[q] # "NONE" => pc'[q] = "done"
      BY <1>1 DEF RequestState, TypeOK
    <2>3. \A c \in found'[q] : status'[c] # "NONE"
      BY <1>1 DEF RequestState, TypeOK
    <2>4. QED
      BY <1>1, <1>3, <2>1, <2>2, <2>3 DEF RequestState, Entries, TypeOK, Ask
  <1>6. ClaimedStaysOpen'
    BY <1>1 DEF ClaimedStaysOpen, TypeOK
  <1>7. OpenCaseMeansLocked'
    BY <1>1, <1>2 DEF OpenCaseMeansLocked, OpenCases, TypeOK, Ask
  <1>8. FoundIsCurrent'
    BY <1>1 DEF FoundIsCurrent, OpenCases, TypeOK
  <1>9. DeadlineNeverLapses'
    <2> SUFFICES ASSUME NEW e \in Drivers \ Legacy, Exists(e)'
                 PROVE  OpenDeadlines(e)' # {}
      BY DEF DeadlineNeverLapses
    <2>1. Exists(e)
      <3>1. Exists(d)
        BY <1>1 DEF RequestState
      <3>2. e # d => fsk'[e] = fsk[e]
        BY <1>1, <1>2, NamesAssumption DEF RollForward, TypeOK, Subjects, SubjectOf
      <3>3. QED
        BY <3>1, <3>2 DEF Exists
    <2>2. PICK x \in Subjects : fsk[x] = "OPEN" /\ SubjectOf(x) = e
      BY <2>1 DEF DeadlineNeverLapses, OpenDeadlines
    <2>3. CASE x = dl[r]
      BY <1>2, <1>3, <2>2, <2>3 DEF OpenDeadlines, Subjects
    <2>4. CASE x # dl[r]
      BY <1>3, <2>2, <2>4 DEF OpenDeadlines
    <2>5. QED
      BY <2>3, <2>4
  <1>10. QED
    BY <1>4, <1>5, <1>6, <1>7, <1>8, <1>9

LEMMA ResolveInv ==
  ASSUME IInv, NEW r \in Requests, Resolve(r), TypeOK'
  PROVE  IInv'
  <1>1. CASE RollBack(r, "failed")
    BY <1>1, RollBackInv DEF Resolve
  <1>2. CASE ~RollBack(r, "failed")
    <2>1. Commit(r)
      BY <1>2 DEF Resolve
    <2>2. pc'[r] = "done"
      BY <2>1 DEF IInv, TypeOK, Commit, Leave, Goto
    <2>3. QED
      BY <2>2, CommitResolveInv
  <1>3. QED
    BY <1>1, <1>2

LEMMA ScrubInv ==
  ASSUME IInv, NEW r \in Requests, Scrub(r), TypeOK'
  PROVE  IInv'
  <1> USE DEF IInv
  <1>1. CASE RollBack(r, "failed")
    BY <1>1, RollBackInv DEF Scrub
  <1>2. CASE ~RollBack(r, "failed")
    <2> DEFINE d == req[r].driver
    <2>1. \A e \in Drivers : ~driver[e].authorized => ~driver'[e].authorized
      <3>1. driver' = driver \/ driver' = [driver EXCEPT ![d] = Anonymized(@)]
        BY <1>2 DEF Scrub
      <3>2. ~driver[d].authorized => ~Anonymized(driver[d]).authorized
        BY DEF Anonymized, Written
      <3>3. QED
        BY <3>1, <3>2 DEF TypeOK
    <2>2. /\ pc[r] = "scrub"
          /\ pc' = [pc EXCEPT ![r] = "done"]
          /\ found' = [found EXCEPT ![r] = {}]
          /\ UNCHANGED <<status, fsk, logged, req, claimed, dl, prev>>
      BY <1>2 DEF Scrub, Commit, Leave, Goto
    <2>3. LockExclusion'
      BY <2>2 DEF LockExclusion, HoldsForUpdate, HoldsKeyShare, Others, TypeOK
    <2>4. (\A q \in Requests : RequestState(q))'
      BY <2>1, <2>2 DEF RequestState, Exists, SubjectOf, Entries, TypeOK, Ask
    <2>5. ClaimedStaysOpen' /\ OpenCaseMeansLocked'
      BY <2>1, <2>2 DEF ClaimedStaysOpen, OpenCaseMeansLocked, TypeOK, Ask
    <2>6. FoundIsCurrent'
      BY <2>2 DEF FoundIsCurrent, OpenCases, TypeOK
    <2>7. DeadlineNeverLapses'
      BY <2>2 DEF DeadlineNeverLapses, Exists, OpenDeadlines, SubjectOf
    <2>8. QED
      BY <2>3, <2>4, <2>5, <2>6, <2>7
  <1>3. QED
    BY <1>1, <1>2

(* The new driver has no request, no case and one OPEN deadline. *)
LEMMA CreateDriverInv ==
  ASSUME IInv, NEW d \in Drivers, CreateDriver(d), TypeOK'
  PROVE  IInv'
  <1> USE DEF IInv
  <1>1. /\ fsk' = [fsk EXCEPT ![d] = "OPEN"] /\ d \in Subjects
        /\ UNCHANGED <<driver, status, logged, prev, req, pc, dl, found, claimed>>
    BY DEF CreateDriver, Subjects
  <1>2. /\ \A e \in Drivers : Exists(e) => Exists(e)'
        /\ \A x : SubjectOf(x)' = SubjectOf(x)
    BY <1>1 DEF Exists, SubjectOf, TypeOK
  <1>3. LockExclusion'
    BY <1>1 DEF LockExclusion, HoldsForUpdate, HoldsKeyShare, Others
  <1>4. (\A q \in Requests : RequestState(q))'
    BY <1>1, <1>2 DEF RequestState, Entries, TypeOK, Ask
  <1>5. ClaimedStaysOpen' /\ OpenCaseMeansLocked' /\ FoundIsCurrent'
    BY <1>1 DEF ClaimedStaysOpen, OpenCaseMeansLocked, FoundIsCurrent, OpenCases
  <1>6. DeadlineNeverLapses'
    <2> SUFFICES ASSUME NEW e \in Drivers \ Legacy, Exists(e)'
                 PROVE  OpenDeadlines(e)' # {}
      BY DEF DeadlineNeverLapses
    <2>1. CASE e = d
      BY <1>1, <2>1 DEF OpenDeadlines, SubjectOf, TypeOK
    <2>2. CASE e # d
      BY <1>1, <1>2, <2>2 DEF OpenDeadlines, DeadlineNeverLapses, Exists, TypeOK
    <2>3. QED
      BY <2>1, <2>2
  <1>7. QED
    BY <1>3, <1>4, <1>5, <1>6

(* A commit of the sweep only takes cases out of OPEN. *)
LEMMA SweepCommitInv ==
  ASSUME IInv, SweepCommit, TypeOK'
  PROVE  IInv'
  <1> USE DEF IInv
  <1>1. /\ claimed' = {}
        /\ UNCHANGED <<driver, fsk, logged, prev, req, pc, dl, found>>
        /\ \A c \in Requests : status'[c] = status[c]
                               \/ (status[c] = "OPEN" /\ status'[c] = "BREACHED")
    BY DEF SweepCommit, ClaimedStaysOpen, TypeOK
  <1>2. LockExclusion'
    BY <1>1 DEF LockExclusion, HoldsForUpdate, HoldsKeyShare, Others
  <1>3. (\A q \in Requests : RequestState(q))'
    BY <1>1 DEF RequestState, Exists, SubjectOf, Entries, TypeOK
  <1>4. ClaimedStaysOpen' /\ OpenCaseMeansLocked' /\ FoundIsCurrent'
    BY <1>1 DEF ClaimedStaysOpen, OpenCaseMeansLocked, FoundIsCurrent, OpenCases
  <1>5. DeadlineNeverLapses'
    BY <1>1 DEF DeadlineNeverLapses, Exists, OpenDeadlines, SubjectOf
  <1>6. QED
    BY <1>2, <1>3, <1>4, <1>5

(* The other steps leave the rows and the requests alone; what a sweep      *)
(* claims is OPEN.                                                          *)
LEMMA FrameInv ==
  ASSUME IInv, TypeOK',
         UNCHANGED <<driver, status, fsk, logged, prev, req, pc, dl, found>>,
         claimed' \in {claimed, {}, ClaimableCases}
  PROVE  IInv'
  <1> USE DEF IInv
  <1>1. LockExclusion'
    BY DEF LockExclusion, HoldsForUpdate, HoldsKeyShare, Others
  <1>2. (\A q \in Requests : RequestState(q))'
    BY DEF RequestState, Exists, SubjectOf, Entries
  <1>3. ClaimedStaysOpen'
    BY DEF ClaimedStaysOpen, ClaimableCases
  <1>4. OpenCaseMeansLocked' /\ FoundIsCurrent'
    BY DEF OpenCaseMeansLocked, FoundIsCurrent, OpenCases
  <1>5. DeadlineNeverLapses'
    BY DEF DeadlineNeverLapses, Exists, OpenDeadlines, SubjectOf
  <1>6. QED
    BY <1>1, <1>2, <1>3, <1>4, <1>5

LEMMA StepInv ==
  ASSUME IInv, NEW r \in Requests, Step(r), TypeOK'
  PROVE  IInv'
  <1>1. ASSUME DeadlockVictim(r) PROVE IInv'
    BY <1>1, RollBackInv DEF DeadlockVictim
  <1>2. QED
    BY <1>1, GetDriverInv, ReadTipInv, InsertCheckInv, E6LockInv, E6FlushInv, E6ReplayInv,
       CommitReplayInv, FindDeadlineInv, CompleteDeadlineInv, ResolveInv, ScrubInv
    DEF Step

LEMMA NextInv ==
  ASSUME IInv, [Next]_vars
  PROVE  IInv'
  <1>1. TypeOK'
    BY NextType DEF IInv
  <1>2. ASSUME NEW d \in Drivers, CreateDriver(d) PROVE IInv'
    BY <1>1, <1>2, CreateDriverInv
  <1>3. ASSUME NEW r \in Requests, Begin(r) \/ Step(r) PROVE IInv'
    BY <1>1, <1>3, BeginInv, StepInv
  <1>4. ASSUME NEW r \in Requests, Abort(r) PROVE IInv'
    BY <1>4, RollBackInv DEF Abort, Ended
  <1>5. CASE SweepCommit
    BY <1>1, <1>5, SweepCommitInv
  <1>6. CASE SweepClaim \/ SweepCrash
    BY <1>1, <1>6, FrameInv DEF SweepClaim, SweepCrash, rows
  <1>7. CASE Midnight \/ UNCHANGED vars
    BY <1>1, <1>7, FrameInv DEF Midnight, vars, rows
  <1>8. QED
    BY <1>2, <1>3, <1>4, <1>5, <1>6, <1>7 DEF Next, Sweep, Quiet

(* The locks, the requests in flight and the rows stay in step with each    *)
(* other in every reachable state of the concurrent transactions.           *)
THEOREM InductiveInvariant == Spec => []IInv
  BY InitInv, NextInv, PTL DEF Spec

-----------------------------------------------------------------------------
(* What follows from it *)

(* Whatever races with E6, with a PASSED check or with the sweep: a driver  *)
(* with an OPEN escalation case is locked.                                  *)
THEOREM OpenCaseLocksDriver == Spec => []OpenCaseMeansLocked
  <1>1. IInv => OpenCaseMeansLocked
    BY DEF IInv
  <1>2. QED
    BY <1>1, InductiveInvariant, PTL

(* The OPEN case that a PASSED check has read is the one there is when it   *)
(* commits: no E6 transaction opens another in between.                     *)
THEOREM PassSeesEveryOpenCase == Spec => []FoundIsCurrent
  <1>1. IInv => FoundIsCurrent
    BY DEF IInv
  <1>2. QED
    BY <1>1, InductiveInvariant, PTL

(* complete_deadline never leaves a driver without an OPEN deadline, even   *)
(* if two of them complete the same one.                                    *)
THEOREM DeadlineSurvives == Spec => []DeadlineNeverLapses
  <1>1. IInv => DeadlineNeverLapses
    BY DEF IInv
  <1>2. QED
    BY <1>1, InductiveInvariant, PTL

(* The prev_hash that record_check stores is the hash of a committed entry  *)
(* of the same driver.                                                      *)
THEOREM LinksAreStored == Spec => []NoBrokenLinks
  <1>1. IInv => NoBrokenLinks
    BY DEF IInv, NoBrokenLinks, RequestState, TypeOK
  <1>2. QED
    BY <1>1, InductiveInvariant, PTL

-----------------------------------------------------------------------------
(* What no step may do *)

LEMMA LoggedBy ==
  ASSUME [Next]_vars, NEW r \in logged' \ logged, r \in Requests
  PROVE  \/ E6Flush(r) /\ driver' = [driver EXCEPT ![req[r].driver] = Locked(@)]
         \/ CommitReplay(r) \/ Resolve(r)
  <1>1. ASSUME NEW q \in Requests, Step(q)
        PROVE  \/ E6Flush(r) /\ driver' = [driver EXCEPT ![req[r].driver] = Locked(@)]
               \/ CommitReplay(r) \/ Resolve(r)
    BY <1>1
    DEF Step, GetDriver, ReadTip, InsertCheck, E6Lock, DeadlockVictim, E6Flush, E6Replay,
        CommitReplay, FindDeadline, CompleteDeadline, Resolve, Scrub, RollBack, rows
  <1>2. QED
    BY <1>1 DEF Next, CreateDriver, Begin, Abort, Sweep, SweepClaim, SweepCommit,
                SweepCrash, Midnight, Quiet, RollBack, rows, vars

(* The commit that makes FAILED evidence visible leaves the driver locked,  *)
(* also if it is the commit of a replay, which holds no FOR UPDATE lock.    *)
THEOREM FailedEvidenceIsLocked == Spec => FailedEvidenceLocks
  <1>1. ASSUME IInv, [Next]_vars, NEW r \in logged' \ logged,
               req[r].kind = "FAILED", req[r].driver \notin Legacy
        PROVE  ~driver'[req[r].driver].authorized
    <2>1. r \in Requests /\ req[r].driver \in Drivers
      <3>1. TypeOK /\ TypeOK'
        BY <1>1, NextType DEF IInv
      <3>2. r \in Requests
        BY <1>1, <3>1 DEF TypeOK
      <3>3. QED
        BY <3>1, <3>2 DEF TypeOK, Ask
    <2>2. CASE driver' = [driver EXCEPT ![req[r].driver] = Locked(@)]
      BY <1>1, <2>1, <2>2 DEF IInv, TypeOK, Locked, Written
    <2>3. CASE CommitReplay(r)
      BY <1>1, <2>1, <2>3 DEF IInv, RequestState, CommitReplay
    <2>4. CASE Resolve(r)
      BY <1>1, <2>1, <2>4 DEF IInv, RequestState, Resolve
    <2>5. QED
      BY <1>1, <2>1, <2>2, <2>3, <2>4, LoggedBy
  <1>2. IInv /\ [Next]_vars
          => [\A r \in logged' \ logged :
                req[r].kind = "FAILED" /\ req[r].driver \notin Legacy
                  => ~driver'[req[r].driver].authorized]_vars
    BY <1>1
  <1>3. QED
    BY <1>2, InductiveInvariant, PTL DEF Spec, FailedEvidenceLocks

(* A case that a PASSED check has closed is never breached or reopened: a   *)
(* sweep that holds a case FOR UPDATE holds an OPEN one.                    *)
THEOREM ResolvedStays == Spec => ResolvedIsFinal
  <1>1. ASSUME IInv, [Next]_vars, NEW c \in Requests, status[c] = "RESOLVED_PASSED"
        PROVE  status'[c] = "RESOLVED_PASSED"
    <2>1. ASSUME NEW r \in Requests, Step(r) PROVE status'[c] = "RESOLVED_PASSED"
      <3>1. CASE E6Flush(r)
        BY <1>1, <3>1 DEF E6Flush, IInv, TypeOK, RequestState, RollBack, rows
      <3>2. CASE ~E6Flush(r)
        BY <1>1, <2>1, <3>2
        DEF Step, GetDriver, ReadTip, InsertCheck, E6Lock, DeadlockVictim, E6Replay,
            CommitReplay, FindDeadline, CompleteDeadline, Resolve, Scrub, RollBack, rows
      <3>3. QED
        BY <3>1, <3>2
    <2>2. CASE SweepCommit
      BY <1>1, <2>2 DEF SweepCommit, IInv, ClaimedStaysOpen
    <2>3. QED
      BY <1>1, <2>1, <2>2
      DEF Next, CreateDriver, Begin, Abort, Sweep, SweepClaim, SweepCrash, Midnight, Quiet,
          RollBack, rows, vars
  <1>2. IInv /\ [Next]_vars
          => [\A c \in Requests :
                status[c] = "RESOLVED_PASSED" => status'[c] = "RESOLVED_PASSED"]_vars
    BY <1>1
  <1>3. QED
    BY <1>2, InductiveInvariant, PTL DEF Spec, ResolvedIsFinal

(* The sweep writes nags and breach notices for cases that are OPEN at its  *)
(* commit only.                                                             *)
THEOREM NoticesForOpenCases == Spec => NoticeOnlyWhileOpen
  <1>1. ASSUME IInv, [Next]_vars, NEW n \in outbox' \ outbox,
               n.template # "fsk_failed_critical"
        PROVE  status[n.case] = "OPEN"
    <2>1. ASSUME NEW r \in Requests, Step(r) PROVE FALSE
      BY <1>1, <2>1
      DEF Step, GetDriver, ReadTip, InsertCheck, E6Lock, DeadlockVictim, E6Flush, E6Replay,
          CommitReplay, FindDeadline, CompleteDeadline, Resolve, Scrub, RollBack, rows,
          NoticesFor
    <2>2. CASE SweepCommit
      <3> DEFINE late == {c \in claimed : Late(c, sweepDay)}
                 nag  == {c \in claimed \ late : nagOn[c] # NagDay}
      <3>1. n.case \in claimed
        <4>1. \/ n \in UNION {NoticesFor("escalation_breached", c, sweepDay) : c \in late}
              \/ n \in UNION {NoticesFor("escalation_nag", c, sweepDay) : c \in nag}
          BY <1>1, <2>2 DEF SweepCommit
        <4>2. PICK c \in late \cup nag :
                \/ n \in NoticesFor("escalation_breached", c, sweepDay)
                \/ n \in NoticesFor("escalation_nag", c, sweepDay)
          <5> HIDE DEF late, nag
          <5>1. QED
            BY <4>1, Zenon
        <4>3. QED
          BY <4>2 DEF NoticesFor
      <3>2. QED
        BY <1>1, <3>1 DEF IInv, ClaimedStaysOpen
    <2>3. QED
      BY <1>1, <2>1, <2>2
      DEF Next, CreateDriver, Begin, Abort, Sweep, SweepClaim, SweepCrash, Midnight, Quiet,
          RollBack, rows, vars
  <1>2. IInv /\ [Next]_vars
          => [\A n \in outbox' \ outbox :
                n.template # "fsk_failed_critical" => status[n.case] = "OPEN"]_vars
    BY <1>1
  <1>3. QED
    BY <1>2, InductiveInvariant, PTL DEF Spec, NoticeOnlyWhileOpen

-----------------------------------------------------------------------------
(* The chain of evidence *)

Facts ==
  INSTANCE EvidenceChainProofs WITH
    Subjects <- Drivers, subject <- [r \in Requests |-> req[r].driver]

(* A move of r within its transaction *)
LEMMA StageMoves ==
  ASSUME TypeOK, NEW r \in Requests, NEW s, pc' = [pc EXCEPT ![r] = s]
  PROVE  /\ stage[r] = StageOf(pc[r])
         /\ stage' = [stage EXCEPT ![r] = StageOf(s)]
  <1>1. \A q \in Requests : pc'[q] = IF q = r THEN s ELSE pc[q]
    BY DEF TypeOK
  <1>2. \A q \in Requests : stage'[q] = IF q = r THEN StageOf(s) ELSE stage[q]
    BY <1>1 DEF stage, StageOf, Ended
  <1>3. stage' = [stage EXCEPT ![r] = StageOf(s)]
    BY <1>2 DEF stage
  <1>4. QED
    BY <1>3 DEF stage

LEMMA StagesOf ==
  /\ StageOf("idle") = "idle"
  /\ StageOf("begun") = "open" /\ StageOf("tip") = "open" /\ StageOf("find") = "open"
  /\ StageOf("complete") = "open" /\ StageOf("scrub") = "open"
  /\ StageOf("insert") = "linked" /\ StageOf("lock") = "linked" /\ StageOf("flush") = "linked"
  /\ StageOf("replay") = "linked" /\ StageOf("commit") = "linked"
  /\ StageOf("resolve") = "linked"
  /\ StageOf("done") = "ended" /\ StageOf("failed") = "ended" /\ StageOf("aborted") = "ended"
  BY DEF StageOf, Ended

LEMMA ChainInit == Init => Facts!Init
  <1> SUFFICES ASSUME Init PROVE Facts!Init
    OBVIOUS
  <1>1. stage = [r \in Requests |-> "idle"]
    BY StagesOf DEF Init, stage
  <1>2. [r \in Requests |-> req[r].driver] \in [Requests -> Drivers]
    BY DEF Init
  <1>3. QED
    BY <1>1, <1>2, NamesAssumption DEF Init, Facts!Init

LEMMA ChainBegin ==
  ASSUME TypeOK, NEW r \in Requests, Begin(r)
  PROVE  Facts!Begin(r)
  <1>1. pc[r] = "idle" /\ pc' = [pc EXCEPT ![r] = "begun"]
    BY DEF Begin, Goto
  <1>2. stage[r] = "idle" /\ stage' = [stage EXCEPT ![r] = "open"]
    <2>1. stage[r] = StageOf("idle") /\ stage' = [stage EXCEPT ![r] = StageOf("begun")]
      BY <1>1, StageMoves
    <2>2. QED
      BY <2>1, StagesOf
  <1>3. \A q \in Requests : pc[q] # "idle" <=> stage[q] # "idle"
    BY DEF stage, StageOf, Ended
  <1>4. QED
    BY <1>2, <1>3 DEF Begin, Facts!Begin, rows

LEMMA ChainRollBack ==
  ASSUME TypeOK, NEW r \in Requests, NEW o \in {"failed", "aborted"}, RollBack(r, o),
         pc[r] \notin Ended \cup {"idle"}
  PROVE  Facts!Leave(r)
  <1>1. pc' = [pc EXCEPT ![r] = o]
    BY DEF RollBack, Leave, Goto
  <1>2. stage[r] \in {"open", "linked"} /\ stage' = [stage EXCEPT ![r] = "ended"]
    <2>1. stage[r] = StageOf(pc[r]) /\ stage' = [stage EXCEPT ![r] = StageOf(o)]
      BY <1>1, StageMoves
    <2>2. StageOf(o) = "ended" /\ StageOf(pc[r]) \in {"open", "linked"}
      BY DEF TypeOK, Steps, Ended, StageOf
    <2>3. QED
      BY <2>1, <2>2
  <1>3. QED
    BY <1>2 DEF RollBack, Leave, Facts!Leave, rows

(* A FAILED check, and a PASSED one without a deadline, read the hash and   *)
(* then insert; a PASSED one with a deadline does both under the lock.      *)
LEMMA ChainLink ==
  ASSUME TypeOK, NEW r \in Requests, pc[r] \in {"tip", "complete"},
         NEW tip \in LatestEntry(r), prev' = [prev EXCEPT ![r] = tip],
         NEW s \in {"insert", "resolve"}, pc' = [pc EXCEPT ![r] = s],
         UNCHANGED <<req, before, logged>>
  PROVE  Facts!Link(r)
  <1>1. stage[r] = "open" /\ stage' = [stage EXCEPT ![r] = "linked"]
    <2>1. stage[r] = StageOf(pc[r]) /\ stage' = [stage EXCEPT ![r] = StageOf(s)]
      BY StageMoves
    <2>2. QED
      BY <2>1, StagesOf
  <1>2. LatestEntry(r) = Facts!Newest(Facts!Entries(req[r].driver))
    BY DEF LatestEntry, Newest, Entries, Facts!Newest, Facts!Entries, TypeOK
  <1>3. QED
    BY <1>1, <1>2 DEF Facts!Link

LEMMA ChainAppend ==
  ASSUME TypeOK, NEW r \in Requests, pc[r] \in {"flush", "commit", "resolve"},
         Commit(r), logged' = logged \cup {r}
  PROVE  Facts!Append(r)
  <1>1. pc' = [pc EXCEPT ![r] = "done"]
    BY DEF Commit, Leave, Goto
  <1>2. stage[r] = "linked" /\ stage' = [stage EXCEPT ![r] = "ended"]
    <2>1. stage[r] = StageOf(pc[r]) /\ stage' = [stage EXCEPT ![r] = StageOf("done")]
      BY <1>1, StageMoves
    <2>2. QED
      BY <2>1, StagesOf
  <1>3. QED
    BY <1>2 DEF Commit, Leave, Facts!Append

LEMMA ChainInner ==
  ASSUME TypeOK, NEW r \in Requests, NEW s, pc' = [pc EXCEPT ![r] = s],
         StageOf(s) = StageOf(pc[r]), UNCHANGED <<req, before, prev, logged>>
  PROVE  UNCHANGED Facts!vars
  <1>1. stage' = stage
    BY StageMoves DEF stage
  <1>2. QED
    BY <1>1 DEF Facts!vars

LEMMA ChainRequest ==
  ASSUME TypeOK, Facts!IInv, NEW r \in Requests, Step(r)
  PROVE  [Facts!Next]_Facts!vars
  <1> USE DEF Goto
  <1>1. ASSUME RollBack(r, "failed"), pc[r] \notin Ended \cup {"idle"}
        PROVE  [Facts!Next]_Facts!vars
    BY <1>1, ChainRollBack DEF Facts!Next
  <1>2. CASE GetDriver(r)
    <2>1. PICK s \in {"tip", "find", "scrub"} : pc' = [pc EXCEPT ![r] = s]
      BY <1>2 DEF GetDriver
    <2>2. StageOf(s) = StageOf(pc[r])
      BY <1>2, StagesOf DEF GetDriver
    <2>3. QED
      BY <1>2, <2>1, <2>2, ChainInner DEF GetDriver, rows
  <1>3. CASE ReadTip(r)
    <2>1. Facts!Link(r)
      BY <1>3, ChainLink DEF ReadTip, rows
    <2>2. QED
      BY <2>1 DEF Facts!Next
  <1>4. CASE InsertCheck(r)
    <2>1. CASE RollBack(r, "failed")
      BY <1>1, <1>4, <2>1 DEF InsertCheck, Ended
    <2>2. CASE ~RollBack(r, "failed")
      <3>1. PICK s \in {"lock", "resolve"} : pc' = [pc EXCEPT ![r] = s]
        BY <1>4, <2>2 DEF InsertCheck
      <3>2. pc[r] = "insert" /\ UNCHANGED <<req, before, prev, logged>>
        BY <1>4, <2>2 DEF InsertCheck, rows
      <3>3. QED
        BY <3>1, <3>2, StagesOf, ChainInner
    <2>3. QED
      BY <2>1, <2>2
  <1>5. CASE E6Lock(r)
    BY <1>5, StagesOf, ChainInner DEF E6Lock, rows
  <1>6. CASE DeadlockVictim(r)
    BY <1>1, <1>6 DEF DeadlockVictim, Ended
  <1>7. CASE E6Flush(r)
    <2>1. CASE RollBack(r, "failed")
      BY <1>1, <1>7, <2>1 DEF E6Flush, Ended
    <2>2. CASE pc' = [pc EXCEPT ![r] = "replay"]
               /\ UNCHANGED <<rows, prev, today, req, before, snap, dl, found, claimed, sweepDay>>
      BY <1>7, <2>2, StagesOf, ChainInner DEF E6Flush, rows
    <2>3. CASE Commit(r) /\ logged' = logged \cup {r}
      <3>1. Facts!Append(r)
        BY <1>7, <2>3, ChainAppend DEF E6Flush
      <3>2. QED
        BY <3>1 DEF Facts!Next
    <2>4. QED
      BY <1>7, <2>1, <2>2, <2>3 DEF E6Flush
  <1>8. CASE E6Replay(r)
    <2>1. CASE RollBack(r, "failed")
      BY <1>1, <1>8, <2>1 DEF E6Replay, Ended
    <2>2. CASE ~RollBack(r, "failed")
      BY <1>8, <2>2, StagesOf, ChainInner DEF E6Replay, rows
    <2>3. QED
      BY <2>1, <2>2
  <1>9. CASE CommitReplay(r)
    <2>1. Facts!Append(r)
      BY <1>9, ChainAppend DEF CommitReplay
    <2>2. QED
      BY <2>1 DEF Facts!Next
  <1>10. CASE FindDeadline(r)
    <2>1. PICK s \in {"complete", "tip"} : pc' = [pc EXCEPT ![r] = s]
      BY <1>10 DEF FindDeadline
    <2>2. QED
      BY <1>10, <2>1, StagesOf, ChainInner DEF FindDeadline, rows
  <1>11. CASE CompleteDeadline(r)
    <2>1. CASE RollBack(r, "failed")
      BY <1>1, <1>11, <2>1 DEF CompleteDeadline, Ended
    <2>2. CASE ~RollBack(r, "failed")
      <3>1. PICK tip \in LatestEntry(r) :
              /\ prev' = [prev EXCEPT ![r] = tip]
              /\ pc' = [pc EXCEPT ![r] = "resolve"]
              /\ UNCHANGED <<req, before, logged>>
        BY <1>11, <2>2 DEF CompleteDeadline, rows
      <3>2. Facts!Link(r)
        BY <1>11, <3>1, ChainLink DEF CompleteDeadline
      <3>3. QED
        BY <3>2 DEF Facts!Next
    <2>3. QED
      BY <2>1, <2>2
  <1>12. CASE Resolve(r)
    <2>1. CASE RollBack(r, "failed")
      BY <1>1, <1>12, <2>1 DEF Resolve, Ended
    <2>2. CASE ~RollBack(r, "failed")
      <3>1. Commit(r) /\ logged' = logged \cup {r} /\ pc[r] = "resolve"
        BY <1>12, <2>2 DEF Resolve
      <3>2. Facts!Append(r)
        BY <3>1, ChainAppend
      <3>3. QED
        BY <3>2 DEF Facts!Next
    <2>3. QED
      BY <2>1, <2>2
  <1>13. CASE Scrub(r)
    <2>1. CASE RollBack(r, "failed")
      BY <1>1, <1>13, <2>1 DEF Scrub, Ended
    <2>2. CASE ~RollBack(r, "failed")
      <3>1. Commit(r) /\ logged' = logged /\ pc[r] = "scrub"
        BY <1>13, <2>2 DEF Scrub
      <3>2. pc' = [pc EXCEPT ![r] = "done"]
        BY <3>1 DEF Commit, Leave, Goto
      <3>3. stage[r] = "open" /\ stage' = [stage EXCEPT ![r] = "ended"]
        <4>1. stage[r] = StageOf("scrub") /\ stage' = [stage EXCEPT ![r] = StageOf("done")]
          BY <3>1, <3>2, StageMoves
        <4>2. QED
          BY <4>1, StagesOf
      <3>4. prev[r] = None
        BY <3>3 DEF Facts!IInv, Facts!LinkState
      <3>5. prev' = [prev EXCEPT ![r] = None]
        BY <3>1, <3>4 DEF Commit, TypeOK
      <3>6. Facts!Leave(r)
        BY <3>1, <3>3, <3>5 DEF Commit, Leave, Facts!Leave
      <3>7. QED
        BY <3>6 DEF Facts!Next
    <2>3. QED
      BY <2>1, <2>2
  <1>14. QED
    BY <1>2, <1>3, <1>4, <1>5, <1>6, <1>7, <1>8, <1>9, <1>10, <1>11, <1>12, <1>13 DEF Step

LEMMA ChainStep ==
  ASSUME TypeOK, Facts!IInv, [Next]_vars
  PROVE  [Facts!Next]_Facts!vars
  <1>1. ASSUME NEW d \in Drivers, CreateDriver(d) PROVE UNCHANGED Facts!vars
    BY <1>1 DEF CreateDriver, Facts!vars, stage
  <1>2. CASE Sweep
    BY <1>2 DEF Sweep, SweepClaim, SweepCommit, SweepCrash, rows, Facts!vars, stage
  <1>3. CASE Midnight
    BY <1>3 DEF Midnight, rows, Facts!vars, stage
  <1>4. CASE UNCHANGED vars
    BY <1>4 DEF vars, rows, Facts!vars, stage
  <1>5. ASSUME NEW r \in Requests, Begin(r) PROVE [Facts!Next]_Facts!vars
    BY <1>5, ChainBegin DEF Facts!Next
  <1>6. ASSUME NEW r \in Requests, Abort(r) PROVE [Facts!Next]_Facts!vars
    BY <1>6, ChainRollBack DEF Abort, Facts!Next
  <1>7. QED
    BY <1>1, <1>2, <1>3, <1>4, <1>5, <1>6, ChainRequest DEF Next, Quiet

LEMMA ImplementsChain == Spec => Facts!Spec
  <1>1. Init => Facts!Init /\ Facts!IInv
    BY ChainInit, Facts!InitInv
  <1>2. TypeOK /\ Facts!IInv /\ [Next]_vars => [Facts!Next]_Facts!vars /\ Facts!IInv'
    BY ChainStep, Facts!NextInv
  <1>3. QED
    BY <1>1, <1>2, TypeCorrect, PTL DEF Spec, Facts!Spec

(* With all its locks, savepoints and roll backs record_check stores the    *)
(* evidence of a driver as EvidenceChain says.                              *)
THEOREM ChecksKeepChain == Spec => KeepsChain
  <1>1. Facts!Spec => KeepsChain
    BY DEF KeepsChain, Chain!Spec, Facts!Spec,
           Chain!Init, Facts!Init, Chain!Next, Facts!Next, Chain!vars, Facts!vars,
           Chain!Begin, Facts!Begin, Chain!Link, Facts!Link, Chain!Append, Facts!Append,
           Chain!Leave, Facts!Leave, Chain!Newest, Facts!Newest, Chain!Entries, Facts!Entries
  <1>2. QED
    BY <1>1, ImplementsChain, PTL

(* A fork of a driver's chain needs checks that overlap. *)
THEOREM OneLineWithoutOverlap == Spec => []ForksNeedOverlap
  <1>1. Facts!Spec => []Facts!ForksNeedOverlap
    BY Facts!OneLineWithoutOverlap
  <1>2. Facts!ForksNeedOverlap <=> ForksNeedOverlap
    BY DEF ForksNeedOverlap, Facts!ForksNeedOverlap, Facts!Overlap,
           Chain!ForksNeedOverlap, Chain!Overlap
  <1>3. QED
    BY <1>1, <1>2, ImplementsChain, PTL

-----------------------------------------------------------------------------
(* Deadlocks *)

(* Whoever is waited for has inserted evidence of the driver; if he waits   *)
(* himself, he is E6 at its lock.                                           *)
LEMMA WaitedFor ==
  ASSUME TypeOK, NEW r \in Requests, Waits(r)
  PROVE  \E q \in Underway(req[r].driver) : q # r /\ (Waits(q) => pc[q] = "lock")
  <1>1. PICK q \in Others(r) : HoldsKeyShare(q) \/ HoldsForUpdate(q)
    BY DEF Waits, MayLockForUpdate, MayWriteOrShare
  <1>2. /\ q \in Requests /\ q # r /\ req[q].driver = req[r].driver
        /\ pc[q] \in {"lock", "flush", "replay", "commit", "resolve"}
    BY <1>1 DEF Others, HoldsKeyShare, HoldsForUpdate
  <1>3. q \in Underway(req[r].driver) /\ (Waits(q) => pc[q] = "lock")
    BY <1>2 DEF Underway, Ended, Waits
  <1>4. QED
    BY <1>2, <1>3

(* Requests of a driver come to a standstill only where two E6 transactions *)
(* want the lock with evidence in hand, which PostgreSQL finds and ends.    *)
THEOREM DeadlocksAreOfE6 == Spec => []OnlyE6Deadlocks
  <1>1. TypeOK => OnlyE6Deadlocks
    <2> SUFFICES ASSUME TypeOK, NEW d \in Drivers, NEW r \in Underway(d),
                        \A p \in Underway(d) : Waits(p)
                 PROVE  \E p, q \in Underway(d) : p # q /\ pc[p] = "lock" /\ pc[q] = "lock"
      BY DEF OnlyE6Deadlocks
    <2>1. \A p \in Underway(d) : p \in Requests /\ req[p].driver = d
      BY DEF Underway
    <2>2. PICK p \in Underway(d) : pc[p] = "lock"
      BY <2>1, WaitedFor
    <2>3. PICK q \in Underway(d) : q # p /\ pc[q] = "lock"
      BY <2>1, <2>2, WaitedFor
    <2>4. QED
      BY <2>2, <2>3
  <1>2. QED
    BY <1>1, TypeCorrect, PTL

=============================================================================
