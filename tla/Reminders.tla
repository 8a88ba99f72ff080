----------------------------- MODULE Reminders -----------------------------
(***************************************************************************)
(* send_reminders, the daily threshold sweep over OPEN deadlines, under    *)
(* the worker's scheduler: the job fires at 06:30 if the process runs then *)
(* and no later than misfire_grace_time after it, and the schedule is kept *)
(* in memory.  Meanwhile checks complete deadlines and spawn successors.   *)
(*                                                                         *)
(* A subject is a driver (FSK) or one of the two obligations of a vehicle  *)
(* (HU, UVV) and has one OPEN deadline; the n-th one it has had is called  *)
(* <<subject, n>>.                                                         *)
(***************************************************************************)
EXTENDS Calendar

CONSTANTS
  Subjects,    \* the subjects of one company
  Kind,        \* what their deadlines are: a function to "HU", "UVV", "FSK"
  HuInterval,  \* hu_interval_months
  Anchor,      \* dates of first registration, entry into service or employment
  Performed,   \* values of the form field performed_on, next to today
  Addresses,   \* channel and address of every recipient
  FirstDay,    \* the day the system is put to use
  Horizon,     \* bound on the days that pass
  MaxMissed,   \* bound on the days without a complete sweep
  MaxChecks    \* bound on the checks

ASSUME KindAssumption == Kind \in [Subjects -> {"HU", "UVV", "FSK"}]
ASSUME DatesAssumption ==
  /\ FirstDay \in Date /\ Performed \subseteq Date
  /\ Anchor \in [Subjects -> Date] /\ HuInterval \in Nat
ASSUME BoundsAssumption == Horizon \in Nat /\ MaxMissed \in Nat /\ MaxChecks \in Nat

VARIABLES
  due,      \* due_on of the OPEN deadline of each subject
  nr,       \* which of its deadlines that is
  sent,     \* OutboxMessage rows of template deadline_reminder
  today,    \* today_berlin()
  time,     \* before 06:30, within the hour after, or later
  up,       \* the worker process runs
  armed,    \* its scheduler has this day's run of the job before it
  reading,  \* what a running sweep has read, as a set of at most one record
  done,     \* the last sweep that was committed, likewise
  missed,   \* days without one
  checks    \* checks so far

clock  == <<today, time, missed>>
worker == <<up, armed, reading>>
vars   == <<due, nr, sent, clock, worker, done, checks>>

Notches  == {0, 7, 30, 90}
Overdue  == -1
Deadline == [subject : Subjects, nr : 0..MaxChecks, due : Date]

TypeOK ==
  /\ due   \in [Subjects -> Date]
  /\ nr    \in [Subjects -> 0..MaxChecks]
  /\ \A m \in sent :
       /\ m.subject \in Subjects /\ m.nr \in 0..nr[m.subject] /\ m.to \in Addresses
       /\ m.notch \in Notches \cup {Overdue} /\ m.on \in Date
  /\ today \in Date
  /\ time  \in {"night", "morning", "day"}
  /\ up \in BOOLEAN /\ armed \in BOOLEAN
  /\ \A s \in reading \cup done : s.now \in Date /\ \A x \in s.deadlines : x \in Deadline
  /\ missed \in 0..MaxMissed /\ checks \in 0..MaxChecks

-----------------------------------------------------------------------------
FirstDue(kind, anchor) ==
  CASE kind = "HU"  -> FirstHuDue(anchor)
    [] kind = "UVV" -> FirstUvvDue(anchor)
    [] kind = "FSK" -> FirstFskDue(anchor)

NachpruefungDays == 28

(* The roll-forward rules of complete_deadline *)
NextDue(kind, result, performed) ==
  CASE kind = "HU"  -> IF result = "FAILED_DEFECTS"
                       THEN DaysForward(performed, NachpruefungDays)
                       ELSE NextHuDue(performed, HuInterval)
    [] kind = "UVV" -> NextUvvDue(performed)
    [] kind = "FSK" -> NextFskDue(performed)

CalendarWeek(day) == <<CalendarYear(day), IsoWeek(day)>>
Week(day)         == <<IsoYear(day), IsoWeek(day)>>

(* The thresholds that are crossed d days before the due date *)
CrossedBefore(d) == {n \in Notches : d < n}
Crossed(d)       == {n \in Notches : d <= n}

(* reminder_notch: the token, as a set of at most one *)
ReminderNotch(dueOn, now) ==
  LET d == DaysUntil(dueOn, now) IN
  IF d < 0 THEN {<<Overdue, Week(now)>>}
  ELSE {<<n, <<>> >> : n \in {k \in Crossed(d) : \A j \in Crossed(d) : k <= j}}

(* dedup_key: deadline, token, channel and address *)
SameKey(m, n) ==
  m.subject = n.subject /\ m.nr = n.nr /\ m.token = n.token /\ m.to = n.to

(* The rows a sweep wants to see in the outbox *)
Wanted(s) ==
  UNION {{[subject |-> x.subject, nr |-> x.nr, token |-> t, notch |-> t[1],
           to |-> a, on |-> s.now] : t \in ReminderNotch(x.due, s.now), a \in Addresses}
         : x \in s.deadlines}

-----------------------------------------------------------------------------
Init ==
  /\ due = [s \in Subjects |-> FirstDue(Kind[s], Anchor[s])]
  /\ nr = [s \in Subjects |-> 0]
  /\ sent = {}
  /\ today = FirstDay /\ time = "night" /\ missed = 0
  /\ up = TRUE /\ armed = TRUE /\ reading = {}
  /\ done = {} /\ checks = 0

(* record_driver_check with PASSED and record_vehicle_check with any result: *)
(* complete_deadline stamps the OPEN deadline COMPLETED and spawns one      *)
(* successor.                                                               *)
SameRow(s)   == nr[s]
Successor(s) == nr[s] + 1
Check(s) ==
  /\ checks < MaxChecks /\ checks' = checks + 1
  /\ \E result \in {"PASSED", "FAILED_DEFECTS"}, performed \in Performed \cup {today} :
       due' = [due EXCEPT ![s] = NextDue(Kind[s], result, performed)]
  /\ nr' = [nr EXCEPT ![s] = Successor(s)]
  /\ UNCHANGED <<sent, clock, worker, done>>

(* send_reminders: one transaction that reads the OPEN deadlines and then,  *)
(* row by row, inserts what is not in the outbox yet.                       *)
SweepRead ==
  /\ armed /\ time = "morning" /\ reading = {}
  /\ reading' = {[now |-> today,
                  deadlines |-> {[subject |-> s, nr |-> nr[s], due |-> due[s]] : s \in Subjects}]}
  /\ armed' = FALSE
  /\ UNCHANGED <<due, nr, sent, clock, up, done, checks>>

(* _enqueue_unique *)
Unconditionally(m) == TRUE
NotYetQueued(m) == \A n \in sent : ~SameKey(m, n)

SweepCommit ==
  \E s \in reading :
    /\ sent' = sent \cup {m \in Wanted(s) : NotYetQueued(m)}
    /\ done' = {s} /\ reading' = {}
    /\ UNCHANGED <<due, nr, clock, up, armed, checks>>

(* The database is not reachable; the job is not repeated before tomorrow.  *)
SweepFails ==
  /\ reading # {} /\ reading' = {}
  /\ UNCHANGED <<due, nr, sent, clock, up, armed, done, checks>>

Crash ==
  /\ up
  /\ up' = FALSE /\ armed' = FALSE /\ reading' = {}
  /\ UNCHANGED <<due, nr, sent, clock, done, checks>>

(* build_scheduler adds the jobs anew: the next run is the next 06:30.      *)
Restart ==
  /\ ~up
  /\ up' = TRUE /\ armed' = (time = "night")
  /\ UNCHANGED <<due, nr, sent, clock, reading, done, checks>>

Swept == \E s \in done : s.now = today

(* Time passes: a run that is due starts within the hour, and a sweep that  *)
(* is running ends on its day.                                              *)
PassTime ==
  /\ reading = {}
  /\ \/ time = "night" /\ time' = "morning" /\ UNCHANGED <<today, missed, armed>>
     \/ time = "morning" /\ ~armed /\ time' = "day" /\ UNCHANGED <<today, missed, armed>>
     \/ /\ time = "day" /\ time' = "night"
        /\ DaysUntil(today, FirstDay) < Horizon
        /\ today' = Tomorrow(today)
        /\ missed' = IF Swept THEN missed ELSE missed + 1
        /\ missed' <= MaxMissed
        /\ armed' = up
  /\ UNCHANGED <<due, nr, sent, up, reading, done, checks>>

Next ==
  \/ \E s \in Subjects : Check(s)
  \/ SweepRead \/ SweepCommit \/ SweepFails
  \/ Crash \/ Restart
  \/ PassTime

Spec == Init /\ [][Next]_vars

-----------------------------------------------------------------------------
(* Properties *)

(* A recipient gets one reminder of a deadline for each threshold and, when *)
(* it is overdue, one in each week from Monday to Sunday, whatever days the *)
(* sweep has run on; turns of the year and of the ISO year included.        *)
OneReminderPerNotch ==
  \A m, n \in sent :
    /\ m.subject = n.subject /\ m.nr = n.nr /\ m.to = n.to
    /\ m.notch = n.notch
    /\ m.notch = Overdue => Monday(m.on) = Monday(n.on)
    => m = n

(* A reminder is never followed by a less urgent one of the same deadline.  *)
UrgencyGrows ==
  \A m, n \in sent :
    /\ m.subject = n.subject /\ m.nr = n.nr
    /\ Before(m.on, n.on)
    => n.notch <= m.notch

(* Missed days do not matter once a sweep has run: whatever is due within   *)
(* 90 days has had the reminder of the innermost threshold it has crossed,  *)
(* and what is overdue the one of this week.                                *)
RemindedWhenSwept ==
  \A s \in done : \A x \in s.deadlines, a \in Addresses :
    LET d == DaysUntil(x.due, s.now)
        had == {m \in sent : m.subject = x.subject /\ m.nr = x.nr /\ m.to = a}
    IN  /\ d < 0 => \E m \in had : m.notch = Overdue /\ Monday(m.on) = Monday(s.now)
        /\ d = 0 => \E m \in had : m.notch = 0
        /\ d \in 1..7 => \E m \in had : m.notch = 7
        /\ d \in 8..30 => \E m \in had : m.notch = 30
        /\ d \in 31..90 => \E m \in had : m.notch = 90
        /\ d > 90 => had = {}

=============================================================================
