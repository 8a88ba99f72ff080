--------------------------- MODULE EscalationProofs ---------------------------
(***************************************************************************)
(* LicenseCheck implements Escalation, for every set of drivers, requests  *)
(* and addresses.  FAILED maps to Lock at the commit of E6, PASSED to      *)
(* Close at the commit of its resolution, the sweep to Remind at its       *)
(* commit; everything else, roll backs and replays included, is invisible. *)
(***************************************************************************)
EXTENDS LicenseCheckProofs

(* What the inductive invariant of LicenseCheck leaves open: a PASSED check *)
(* has read cases of its own driver, and no sweep began in the future.      *)
Attribution ==
  /\ \A r \in Requests : \A c \in found[r] : req[c].driver = req[r].driver
  /\ sweepDay <= today

-----------------------------------------------------------------------------
LEMMA InitAttribution == Init => Attribution
  BY DEF Init, Attribution

LEMMA LeaveAttribution ==
  ASSUME TypeOK, Attribution, NEW r \in Requests, NEW o, Leave(r, o)
  PROVE  Attribution'
  BY DEF TypeOK, Attribution, Leave

LEMMA StepAttribution ==
  ASSUME TypeOK, Attribution, NEW r \in Requests, Step(r)
  PROVE  Attribution'
  <1>1. CASE \E o : Leave(r, o)
    BY <1>1, LeaveAttribution
  <1>2. CASE UNCHANGED <<req, found, sweepDay, today>>
    BY <1>2 DEF Attribution
  <1>3. CASE /\ found' = [found EXCEPT ![r] = OpenCases(req[r].driver)]
             /\ UNCHANGED <<req, sweepDay, today>>
    BY <1>3 DEF TypeOK, Attribution, OpenCases
  <1>4. QED
    BY <1>1, <1>2, <1>3
    DEF Step, GetDriver, ReadTip, InsertCheck, E6Lock, DeadlockVictim, E6Flush, E6Replay,
        CommitReplay, FindDeadline, CompleteDeadline, Resolve, Scrub, RollBack, Commit

LEMMA NextAttribution ==
  ASSUME TypeOK, Attribution, [Next]_vars
  PROVE  Attribution'
  <1>1. ASSUME NEW r \in Requests, Abort(r) PROVE Attribution'
    BY <1>1, LeaveAttribution DEF Abort, RollBack
  <1>2. CASE UNCHANGED <<req, found, sweepDay, today>>
    BY <1>2 DEF Attribution
  <1>3. CASE UNCHANGED <<req, found>> /\ sweepDay' \in {0, today} /\ today' = today
    BY <1>3 DEF Attribution, TypeOK, Days
  <1>4. CASE UNCHANGED <<req, found, sweepDay>> /\ today' = today + 1
    BY <1>4 DEF Attribution, TypeOK, Days
  <1>5. QED
    BY <1>1, <1>2, <1>3, <1>4, StepAttribution
    DEF Next, CreateDriver, Begin, Sweep, SweepClaim, SweepCommit, SweepCrash, Midnight,
        Quiet, vars

(* A PASSED check knows of cases of its own driver only. *)
THEOREM CasesAreAttributed == Spec => []Attribution
  BY InitAttribution, NextAttribution, TypeCorrect, PTL DEF Spec

-----------------------------------------------------------------------------
(* The refinement mapping *)

LEMMA SameOpenCases == \A d : Contract!OpenCases(d) = OpenCases(d)
  BY DEF Contract!OpenCases, OpenCases

LEMMA SameNotices ==
  ASSUME NEW template, NEW cases, NEW day
  PROVE  Contract!Notices(template, cases, day)
           = UNION {NoticesFor(template, c, day) : c \in cases}
  BY DEF Contract!Notices, NoticesFor

LEMMA EscalationInit == Init => Contract!Init
  <1> SUFFICES ASSUME Init PROVE Contract!Init
    OBVIOUS
  <1>1. [c \in Requests |-> req[c].driver] \in [Requests -> Drivers]
    BY DEF Init
  <1>2. [d \in Drivers |-> driver[d].authorized] = [d \in Drivers |-> TRUE]
    BY DEF Init, NewDriver
  <1>3. QED
    BY <1>1, <1>2 DEF Init, Contract!Init

(* A step after which nobody sees another verdict, notice, alert or day.    *)
LEMMA Unseen ==
  ASSUME UNCHANGED <<req, status, openedOn, nagOn, alerts, outbox, today>>,
         \A d \in Drivers : driver'[d].authorized = driver[d].authorized
  PROVE  UNCHANGED Contract!file
  BY DEF Contract!file

(* The commit of E6 *)
LEMMA FlushLocks ==
  ASSUME TypeOK, NEW r \in Requests, RequestState(r), E6Flush(r), ~RollBack(r, "failed")
  PROVE  UNCHANGED Contract!file \/ Contract!Lock(r)
  <1>1. CASE UNCHANGED <<rows, req, today>>
    BY <1>1, Unseen DEF rows
  <1>2. CASE ~UNCHANGED <<rows, req, today>>
    <2> DEFINE d == req[r].driver
    <2>1. /\ pc[r] = "flush" /\ OpenCases(d) = {}
          /\ driver'   = [driver EXCEPT ![d] = Locked(@)]
          /\ status'   = [status EXCEPT ![r] = "OPEN"]
          /\ openedOn' = [openedOn EXCEPT ![r] = today]
          /\ alerts'   = alerts \cup {r}
          /\ outbox'   = outbox \cup NoticesFor("fsk_failed_critical", r, today)
          /\ UNCHANGED <<nagOn, req, today>>
      BY <1>2 DEF E6Flush, OpenCaseIndexRefuses, Commit, Leave
    <2>2. status[r] = "NONE"
      BY <2>1 DEF RequestState, TypeOK
    <2>3. d \in Drivers /\ [c \in Requests |-> req[c].driver][r] = d
      BY DEF TypeOK, Ask
    <2>4. [e \in Drivers |-> driver'[e].authorized]
            = [[e \in Drivers |-> driver[e].authorized] EXCEPT ![d] = FALSE]
      BY <2>1, <2>3 DEF TypeOK, Locked, Written
    <2>5. outbox' = outbox \cup Contract!Notices("fsk_failed_critical", {r}, today)
      BY <2>1, SameNotices
    <2>6. QED
      BY <2>1, <2>2, <2>3, <2>4, <2>5, SameOpenCases DEF Contract!Lock
  <1>3. QED
    BY <1>1, <1>2

(* The commit of a PASSED check *)
LEMMA ResolveCloses ==
  ASSUME TypeOK, FoundIsCurrent, Attribution, NEW r \in Requests, RequestState(r),
         Resolve(r), ~RollBack(r, "failed"), NEW d \in Drivers, d = req[r].driver
  PROVE  Contract!Close(d)
  <1> DEFINE subject == [c \in Requests |-> req[c].driver]
             closed == {c \in found[r] : status[c] \in {"OPEN", "BREACHED"}}
  <1>1. /\ pc[r] = "resolve"
        /\ driver' \in {driver, [driver EXCEPT ![d] = Cleared(@)]}
        /\ status' = [c \in Requests |->
                        IF c \in found[r] THEN "RESOLVED_PASSED" ELSE status[c]]
        /\ UNCHANGED <<openedOn, nagOn, alerts, outbox, req, today>>
    BY DEF Resolve, Resolved, Commit, Leave
  <1>2. closed \in SUBSET {c \in Requests : subject[c] = d /\ status[c] \in {"OPEN", "BREACHED"}}
    BY DEF Attribution, TypeOK
  <1>3. OpenCases(d) \subseteq closed
    BY <1>1 DEF FoundIsCurrent, OpenCases
  <1>4. status' = [c \in Requests |->
                     IF c \in closed THEN "RESOLVED_PASSED" ELSE status[c]]
    BY <1>1 DEF RequestState, TypeOK
  <1>5. [e \in Drivers |-> driver'[e].authorized]
          \in {[e \in Drivers |-> driver[e].authorized],
               [[e \in Drivers |-> driver[e].authorized] EXCEPT ![d] = TRUE]}
    <2>1. CASE driver' = driver
      BY <2>1
    <2>2. CASE driver' = [driver EXCEPT ![d] = Cleared(@)]
      <3>1. [e \in Drivers |-> driver'[e].authorized]
              = [[e \in Drivers |-> driver[e].authorized] EXCEPT ![d] = TRUE]
        BY <2>2 DEF TypeOK, Cleared, Written
      <3>2. QED
        BY <3>1
    <2>3. QED
      BY <1>1, <2>1, <2>2
  <1>6. \E s \in SUBSET {c \in Requests : subject[c] = d /\ status[c] \in {"OPEN", "BREACHED"}} :
          /\ Contract!OpenCases(d) \subseteq s
          /\ status' = [c \in Requests |-> IF c \in s THEN "RESOLVED_PASSED" ELSE status[c]]
    <2> HIDE DEF closed, subject
    <2>1. QED
      BY <1>2, <1>3, <1>4, SameOpenCases
  <1>7. QED
    BY <1>1, <1>5, <1>6 DEF Contract!Close

(* The commit of a sweep *)
LEMMA SweepReminds ==
  ASSUME TypeOK, ClaimedStaysOpen, Attribution, SweepCommit
  PROVE  Contract!Remind
  <1> DEFINE late == {c \in claimed : Late(c, sweepDay)}
             nag  == {c \in claimed \ late : nagOn[c] # NagDay}
             overdue == {c \in claimed : sweepDay > openedOn[c] + WindowDays}
             due     == {c \in claimed \ overdue : nagOn[c] # sweepDay}
  <1>1. sweepDay \in 0..today /\ claimed \in SUBSET {c \in Requests : status[c] = "OPEN"}
    BY DEF Attribution, TypeOK, Days, ClaimedStaysOpen
  <1>2. overdue = late /\ due = nag
    BY DEF Late, Due, NagDay
  <1>3. /\ status' = [c \in Requests |-> IF c \in late THEN "BREACHED" ELSE status[c]]
        /\ nagOn'  = [c \in Requests |-> IF c \in nag THEN sweepDay ELSE nagOn[c]]
        /\ outbox' = outbox \cup (UNION {NoticesFor("escalation_breached", c, sweepDay) : c \in late})
                            \cup (UNION {NoticesFor("escalation_nag", c, sweepDay) : c \in nag})
        /\ UNCHANGED <<driver, openedOn, alerts, req, today>>
    BY DEF SweepCommit, NagDay
  <1>4. outbox' = outbox \cup Contract!Notices("escalation_breached", overdue, sweepDay)
                         \cup Contract!Notices("escalation_nag", due, sweepDay)
    <2> HIDE DEF late, nag, overdue, due
    <2>1. QED
      BY <1>2, <1>3, SameNotices
  <1>5. /\ status' = [c \in Requests |-> IF c \in overdue THEN "BREACHED" ELSE status[c]]
        /\ nagOn'  = [c \in Requests |-> IF c \in due THEN sweepDay ELSE nagOn[c]]
    <2> HIDE DEF late, nag, overdue, due
    <2>1. QED
      BY <1>2, <1>3
  <1>6. UNCHANGED <<[c \in Requests |-> req[c].driver],
                    [d \in Drivers |-> driver[d].authorized], openedOn, alerts, today>>
    BY <1>3
  <1>7. QED
    BY <1>1, <1>4, <1>5, <1>6, Zenon DEF Contract!Remind

(* What the other steps of a request change nobody sees: rows that roll      *)
(* back, evidence, deadlines and the erasure of a name.                     *)
LEMMA StepImplements ==
  ASSUME IInv, Attribution, NEW r \in Requests, Step(r)
  PROVE  [Contract!Next]_Contract!file
  <1> USE DEF IInv
  <1>1. CASE UNCHANGED <<rows, req, today>>
    BY <1>1, Unseen DEF rows
  <1>2. ASSUME NEW o, RollBack(r, o) PROVE UNCHANGED <<rows, req, today>>
    BY <1>2 DEF RollBack, Leave
  <1>3. CASE E6Flush(r)
    BY <1>1, <1>2, <1>3, FlushLocks DEF Contract!Next
  <1>4. CASE Resolve(r)
    <2>1. PICK d \in Drivers : d = req[r].driver
      BY DEF TypeOK, Ask
    <2>2. CASE RollBack(r, "failed")
      BY <1>1, <1>2, <2>2
    <2>3. CASE ~RollBack(r, "failed")
      <3>1. Contract!Close(d)
        BY <1>4, <2>1, <2>3, ResolveCloses
      <3> QED
        BY <3>1 DEF Contract!Next
    <2>4. QED
      BY <2>2, <2>3
  <1>5. CASE CommitReplay(r)
    BY <1>5, Unseen DEF CommitReplay, Commit, Leave
  <1>6. ASSUME Scrub(r), ~RollBack(r, "failed") PROVE UNCHANGED Contract!file
    <2>1. driver' \in {driver, [driver EXCEPT ![req[r].driver] = Anonymized(@)]}
      BY <1>6 DEF Scrub
    <2>2. \A d \in Drivers : driver'[d].authorized = driver[d].authorized
      BY <2>1 DEF TypeOK, Anonymized, Written
    <2>3. QED
      BY <1>6, <2>2, Unseen DEF Scrub, Commit, Leave
  <1>7. QED
    BY <1>1, <1>2, <1>3, <1>4, <1>5, <1>6
    DEF Step, GetDriver, ReadTip, InsertCheck, E6Lock, DeadlockVictim, E6Replay,
        FindDeadline, CompleteDeadline

LEMMA NextImplements ==
  ASSUME IInv, Attribution, [Next]_vars
  PROVE  [Contract!Next]_Contract!file
  <1>1. ASSUME NEW r \in Requests, Step(r) PROVE [Contract!Next]_Contract!file
    BY <1>1, StepImplements
  <1>2. CASE SweepCommit
    BY <1>2, SweepReminds DEF IInv, Contract!Next
  <1>3. CASE Midnight
    <2>1. /\ today' = today + 1
          /\ UNCHANGED <<driver, req, status, openedOn, nagOn, alerts, outbox>>
      BY <1>3 DEF Midnight, rows
    <2>2. QED
      BY <2>1 DEF Contract!Next, Contract!NextDay
  <1>4. CASE UNCHANGED <<driver, status, openedOn, nagOn, alerts, outbox, req, today>>
    BY <1>4, Unseen
  <1>5. ASSUME NEW r \in Requests, Abort(r)
        PROVE  UNCHANGED <<driver, status, openedOn, nagOn, alerts, outbox, req, today>>
    BY <1>5 DEF Abort, RollBack, Leave, rows
  <1>6. QED
    BY <1>1, <1>2, <1>3, <1>4, <1>5
    DEF Next, CreateDriver, Begin, Sweep, SweepClaim, SweepCrash, Quiet, vars, rows

(* To managers and drivers a failed check, a passed one and a sweep are one *)
(* act each, whatever transactions, roll backs and crashes overlap: no case *)
(* beside an open one, no lock without its case and notices, no nag twice   *)
(* on one day, no verdict on a closed case.                                 *)
THEOREM ChecksKeepContract == Spec => KeepsContract
  <1>1. IInv /\ Attribution /\ [Next]_vars => [Contract!Next]_Contract!file
    BY NextImplements
  <1>2. QED
    BY <1>1, EscalationInit, InductiveInvariant, CasesAreAttributed, PTL
    DEF Spec, KeepsContract, Contract!Spec

=============================================================================
