-------------------------- MODULE RemindersProofs --------------------------
(* Theorems about Reminders, for all subjects, dates and recipients and     *)
(* whatever days the sweep runs on.                                         *)
EXTENDS Reminders, CalendarProofs

(* A reminder that was computed from this due date *)
ComputedFrom(m, dueOn) ==
  LET d == DaysUntil(dueOn, m.on) IN
  \/ /\ d < 0
     /\ m.notch = Overdue /\ m.token = <<Overdue, Week(m.on)>>
  \/ /\ 0 <= d
     /\ m.notch \in Notches /\ d <= m.notch /\ \A k \in Notches : d <= k => m.notch <= k
     /\ m.token = <<m.notch, <<>> >>

(* All reminders of a deadline are computed from one date, which is the one *)
(* of the row as long as it is OPEN, and that of a sweep that has read it.  *)
DueOn(s, k, e) ==
  /\ k = nr[s] => e = due[s]
  /\ \A m \in sent : m.subject = s /\ m.nr = k => ComputedFrom(m, e)
  /\ \A r \in reading : \A x \in r.deadlines : x.subject = s /\ x.nr = k => x.due = e
OneDueDate ==
  \A s \in Subjects : \A k \in 0..nr[s] : \E e \in Date : DueOn(s, k, e)

KeysAreUnique == \A m, n \in sent : SameKey(m, n) => m = n
SweepsAreOfToday == \A r \in reading : r.now = today
NothingOfTomorrow == \A m \in sent : Ordinal(m.on) <= Ordinal(today)
ReadIsThere == \A r \in reading : \A x \in r.deadlines : x.nr <= nr[x.subject]
ChecksAreCounted == \A s \in Subjects : nr[s] <= checks

IInv ==
  /\ TypeOK /\ ChecksAreCounted
  /\ ReadIsThere /\ SweepsAreOfToday /\ NothingOfTomorrow
  /\ OneDueDate /\ KeysAreUnique
  /\ RemindedWhenSwept

-----------------------------------------------------------------------------
(* Due dates and notches *)

LEMMA DatesOfRules ==
  ASSUME NEW kind \in {"HU", "UVV", "FSK"}, NEW d \in Date
  PROVE  /\ FirstDue(kind, d) \in Date
         /\ \A result \in {"PASSED", "FAILED_DEFECTS"} : NextDue(kind, result, d) \in Date
  <1>1. \A n \in Int : AddMonths(d, n) \in Date
    BY MonthsAreExact
  <1>2. \A n \in Int : LastDayOfMonth(AddMonths(d, n)) \in Date
    BY HuIsMonthGranular DEF NextHuDue
  <1>3. DaysForward(d, NachpruefungDays) \in Date
    BY DaysForwardAreCounted DEF NachpruefungDays
  <1>4. HuInterval \in Int
    BY DatesAssumption
  <1>5. FirstDue(kind, d) \in Date
    BY <1>1, <1>2 DEF FirstDue, FirstHuDue, FirstUvvDue, FirstFskDue
  <1>6. \A result \in {"PASSED", "FAILED_DEFECTS"} : NextDue(kind, result, d) \in Date
    BY <1>1, <1>2, <1>3, <1>4 DEF NextDue, NextHuDue, NextUvvDue, NextFskDue
  <1>7. QED
    BY <1>5, <1>6

LEMMA DaysBetween ==
  ASSUME NEW d \in Date, NEW e \in Date
  PROVE  DaysUntil(d, e) \in Int /\ DaysUntil(d, e) = Ordinal(d) - Ordinal(e)
  BY DaysAreCounted DEF DaysUntil

(* Within 90 days there is a token, beyond there is none. *)
LEMMA NotchOf ==
  ASSUME NEW d \in Int
  PROVE  /\ d > 90 => Crossed(d) = {}
         /\ d \in 31..90 => {k \in Crossed(d) : \A j \in Crossed(d) : k <= j} = {90}
         /\ d \in 8..30 => {k \in Crossed(d) : \A j \in Crossed(d) : k <= j} = {30}
         /\ d \in 1..7 => {k \in Crossed(d) : \A j \in Crossed(d) : k <= j} = {7}
         /\ d = 0 => {k \in Crossed(d) : \A j \in Crossed(d) : k <= j} = {0}
  BY DEF Crossed, Notches

LEMMA TokenIsComputed ==
  ASSUME NEW e \in Date, NEW now \in Date, NEW t \in ReminderNotch(e, now),
         NEW m, m.on = now, m.notch = t[1], m.token = t
  PROVE  ComputedFrom(m, e) /\ m.notch \in Notches \cup {Overdue}
  <1> DEFINE d == DaysUntil(e, now)
  <1>1. d \in Int
    BY DaysBetween
  <1>2. CASE d < 0
    <2>1. t = <<Overdue, Week(now)>>
      BY <1>2 DEF ReminderNotch
    <2>2. QED
      BY <1>2, <2>1 DEF ComputedFrom
  <1>3. CASE ~(d < 0)
    <2>1. PICK n \in {k \in Crossed(d) : \A j \in Crossed(d) : k <= j} : t = <<n, <<>> >>
      BY <1>3 DEF ReminderNotch
    <2>2. n \in Notches /\ d <= n /\ \A k \in Notches : d <= k => n <= k
      BY <2>1 DEF Crossed
    <2>3. m.notch = n /\ m.token = <<n, <<>> >>
      BY <2>1
    <2>4. QED
      BY <1>1, <1>3, <2>2, <2>3 DEF ComputedFrom
  <1>4. QED
    BY <1>2, <1>3

(* What a sweep wants to send, spelled out *)
LEMMA WantedRows ==
  ASSUME NEW s, NEW m \in Wanted(s)
  PROVE  \E x, t, a :
           /\ x \in s.deadlines /\ t \in ReminderNotch(x.due, s.now) /\ a \in Addresses
           /\ m = [subject |-> x.subject, nr |-> x.nr, token |-> t, notch |-> t[1],
                   to |-> a, on |-> s.now]
  BY DEF Wanted

-----------------------------------------------------------------------------
(* The invariant *)

LEMMA InitInv == Init => IInv
  <1> SUFFICES ASSUME Init PROVE IInv
    OBVIOUS
  <1>1. ASSUME NEW s \in Subjects PROVE due[s] \in Date
    <2>1. Kind[s] \in {"HU", "UVV", "FSK"} /\ Anchor[s] \in Date
      BY KindAssumption, DatesAssumption
    <2>2. QED
      BY <2>1, DatesOfRules DEF Init
  <1>2. TypeOK
    BY <1>1, DatesAssumption, BoundsAssumption DEF Init, TypeOK
  <1>3. OneDueDate
    BY <1>1 DEF Init, OneDueDate, DueOn
  <1>4. QED
    BY <1>2, <1>3
    DEF Init, IInv, ChecksAreCounted, ReadIsThere, SweepsAreOfToday, NothingOfTomorrow,
        KeysAreUnique, RemindedWhenSwept

LEMMA TypeStep == TypeOK /\ ChecksAreCounted /\ ReadIsThere /\ [Next]_vars => TypeOK'
  <1> SUFFICES ASSUME TypeOK, ChecksAreCounted, ReadIsThere, [Next]_vars PROVE TypeOK'
    OBVIOUS
  <1> USE DEF TypeOK
  <1>1. ASSUME NEW s \in Subjects, Check(s) PROVE TypeOK'
    <2>1. PICK result \in {"PASSED", "FAILED_DEFECTS"}, performed \in Performed \cup {today} :
            due' = [due EXCEPT ![s] = NextDue(Kind[s], result, performed)]
      BY <1>1 DEF Check
    <2>2. performed \in Date /\ Kind[s] \in {"HU", "UVV", "FSK"}
      BY KindAssumption, DatesAssumption
    <2>3. NextDue(Kind[s], result, performed) \in Date
      BY <2>2, DatesOfRules
    <2>4. due' \in [Subjects -> Date]
      BY <2>1, <2>3
    <2>5. /\ nr[s] \in Nat /\ checks \in Nat /\ nr[s] <= checks /\ checks < MaxChecks
          /\ nr' = [nr EXCEPT ![s] = nr[s] + 1] /\ checks' = checks + 1
      BY <1>1, BoundsAssumption DEF ChecksAreCounted, Check, Successor
    <2>6. nr' \in [Subjects -> 0..MaxChecks] /\ checks' \in 0..MaxChecks
      BY <2>5, BoundsAssumption
    <2>7. \A p \in Subjects : nr[p] <= nr'[p]
      BY <2>5
    <2>8. \A m \in sent : m.nr \in 0..nr'[m.subject]
      BY <2>6, <2>7
    <2>9. QED
      BY <1>1, <2>4, <2>6, <2>8 DEF Check, clock, worker
  <1>2. CASE SweepRead
    <2>1. \A s \in Subjects : [subject |-> s, nr |-> nr[s], due |-> due[s]] \in Deadline
      BY DEF Deadline
    <2>2. \A s \in reading' : s.now \in Date /\ \A x \in s.deadlines : x \in Deadline
      BY <1>2, <2>1 DEF SweepRead
    <2>3. /\ UNCHANGED <<due, nr, sent, today, time, missed, up, done, checks>>
          /\ armed' \in BOOLEAN
      BY <1>2 DEF SweepRead, clock
    <2>4. QED
      BY <2>2, <2>3
  <1>3. CASE SweepCommit
    <2>1. PICK s \in reading :
            /\ sent' = sent \cup {m \in Wanted(s) : NotYetQueued(m)}
            /\ done' = {s} /\ reading' = {}
            /\ UNCHANGED <<due, nr, clock, up, armed, checks>>
      BY <1>3 DEF SweepCommit
    <2>2. ASSUME NEW m \in Wanted(s)
          PROVE  /\ m.subject \in Subjects /\ m.nr \in 0..nr[m.subject] /\ m.to \in Addresses
                 /\ m.notch \in Notches \cup {Overdue} /\ m.on \in Date
      <3>1. PICK x, t, a :
              /\ x \in s.deadlines /\ t \in ReminderNotch(x.due, s.now) /\ a \in Addresses
              /\ m = [subject |-> x.subject, nr |-> x.nr, token |-> t, notch |-> t[1],
                      to |-> a, on |-> s.now]
        BY <2>2, WantedRows
      <3>2. x \in Deadline /\ s.now \in Date /\ x.nr <= nr[x.subject]
        BY <3>1 DEF ReadIsThere
      <3>3. m.on = s.now /\ m.notch = t[1] /\ m.token = t
        BY <3>1
      <3>4. m.notch \in Notches \cup {Overdue}
        <4>1. x.due \in Date /\ s.now \in Date /\ t \in ReminderNotch(x.due, s.now)
          BY <3>1, <3>2 DEF Deadline
        <4>2. QED
          BY <3>3, <4>1, TokenIsComputed
      <3>5. /\ m.subject = x.subject /\ m.nr = x.nr /\ m.to = a /\ a \in Addresses
            /\ x.subject \in Subjects /\ x.nr \in 0..MaxChecks
        BY <3>1, <3>2 DEF Deadline
      <3>6. m.nr \in 0..nr[m.subject]
        BY <3>2, <3>5, BoundsAssumption
      <3>7. QED
        BY <3>2, <3>3, <3>4, <3>5, <3>6
    <2>3. QED
      BY <2>1, <2>2 DEF clock
  <1>4. CASE SweepFails
    BY <1>4 DEF SweepFails, clock
  <1>5. CASE Crash
    BY <1>5 DEF Crash, clock
  <1>6. CASE Restart
    BY <1>6 DEF Restart, clock
  <1>7. CASE PassTime
    <2>1. Tomorrow(today) \in Date
      BY DaysAreCounted
    <2>2. missed' \in 0..MaxMissed
      BY <1>7, BoundsAssumption DEF PassTime
    <2>3. QED
      BY <1>7, <2>1, <2>2 DEF PassTime
  <1>8. CASE UNCHANGED vars
    BY <1>8 DEF vars, clock, worker
  <1>9. QED
    BY <1>1, <1>2, <1>3, <1>4, <1>5, <1>6, <1>7, <1>8 DEF Next

(* The parts about the clock and the counters *)
LEMMA OrderStep ==
  IInv /\ [Next]_vars =>
    ChecksAreCounted' /\ ReadIsThere' /\ SweepsAreOfToday' /\ NothingOfTomorrow'
  <1> SUFFICES ASSUME IInv, [Next]_vars
               PROVE  ChecksAreCounted' /\ ReadIsThere' /\ SweepsAreOfToday' /\ NothingOfTomorrow'
    OBVIOUS
  <1> USE DEF IInv, TypeOK, ChecksAreCounted, ReadIsThere, SweepsAreOfToday, NothingOfTomorrow
  <1>1. ASSUME NEW s \in Subjects, Check(s)
        PROVE  ChecksAreCounted' /\ ReadIsThere' /\ SweepsAreOfToday' /\ NothingOfTomorrow'
    <2>1. /\ checks \in Nat /\ nr' = [nr EXCEPT ![s] = nr[s] + 1] /\ checks' = checks + 1
          /\ \A p \in Subjects : nr[p] \in Nat /\ nr[p] <= checks
      BY <1>1, BoundsAssumption DEF Check, Successor
    <2>2. \A p \in Subjects : nr[p] <= nr'[p] /\ nr'[p] <= checks' /\ nr'[p] \in Nat
      BY <2>1
    <2>3. \A r \in reading : \A x \in r.deadlines : x.subject \in Subjects /\ x.nr \in Nat
      BY BoundsAssumption DEF Deadline
    <2>4. UNCHANGED <<sent, today, reading>>
      BY <1>1 DEF Check, clock, worker
    <2>5. ReadIsThere'
      BY <2>1, <2>2, <2>3, <2>4
    <2>6. QED
      BY <2>2, <2>4, <2>5
  <1>2. CASE SweepRead
    BY <1>2 DEF SweepRead, clock
  <1>3. CASE SweepCommit
    <2>1. PICK s \in reading :
            /\ sent' = sent \cup {m \in Wanted(s) : NotYetQueued(m)}
            /\ done' = {s} /\ reading' = {}
            /\ UNCHANGED <<due, nr, clock, up, armed, checks>>
      BY <1>3 DEF SweepCommit
    <2>2. ASSUME NEW m \in Wanted(s) PROVE Ordinal(m.on) <= Ordinal(today)
      <3>1. m.on = today
        BY <2>2, WantedRows
      <3>2. QED
        BY <3>1, DaysAreCounted
    <2>3. QED
      BY <2>1, <2>2 DEF clock
  <1>4. CASE SweepFails
    BY <1>4 DEF SweepFails, clock
  <1>5. CASE Crash
    BY <1>5 DEF Crash, clock
  <1>6. CASE Restart
    BY <1>6 DEF Restart, clock
  <1>7. CASE PassTime
    <2>1. Ordinal(today) \in Int /\ Ordinal(Tomorrow(today)) = Ordinal(today) + 1
      BY DaysAreCounted
    <2>2. \A m \in sent : Ordinal(m.on) \in Int
      BY DaysAreCounted
    <2>3. UNCHANGED <<nr, sent, reading, checks>> /\ reading = {}
          /\ (today' = today \/ today' = Tomorrow(today))
      BY <1>7 DEF PassTime
    <2>4. Ordinal(today) <= Ordinal(today')
      BY <2>1, <2>3
    <2>5. Ordinal(today') \in Int
      BY <2>1, <2>3
    <2>6. NothingOfTomorrow'
      BY <2>1, <2>2, <2>3, <2>4, <2>5
    <2>7. QED
      BY <2>3, <2>6
  <1>8. CASE UNCHANGED vars
    BY <1>8 DEF vars, clock, worker
  <1>9. QED
    BY <1>1, <1>2, <1>3, <1>4, <1>5, <1>6, <1>7, <1>8 DEF Next

(* A committed sweep: what it has read, and that it adds what is computed   *)
(* from the date of the row.                                                *)
LEMMA Committed ==
  ASSUME IInv, NEW s \in reading, NEW m \in Wanted(s)
  PROVE  \E x \in s.deadlines :
           /\ x.subject \in Subjects /\ x.nr \in 0..nr[x.subject] /\ x.due \in Date
           /\ m.subject = x.subject /\ m.nr = x.nr
           /\ m.on = today /\ m.on \in Date /\ m.token[1] = m.notch
           /\ ComputedFrom(m, x.due)
  <1>1. PICK x, t, a :
          /\ x \in s.deadlines /\ t \in ReminderNotch(x.due, s.now) /\ a \in Addresses
          /\ m = [subject |-> x.subject, nr |-> x.nr, token |-> t, notch |-> t[1],
                  to |-> a, on |-> s.now]
    BY WantedRows
  <1>2. /\ x \in Deadline /\ s.now \in Date /\ s.now = today
        /\ x.nr <= nr[x.subject] /\ nr \in [Subjects -> 0..MaxChecks]
    BY <1>1 DEF IInv, TypeOK, ReadIsThere, SweepsAreOfToday
  <1>3. x.subject \in Subjects /\ x.nr \in 0..MaxChecks /\ x.due \in Date
    BY <1>2 DEF Deadline
  <1>4. x.nr \in 0..nr[x.subject]
    BY <1>2, <1>3, BoundsAssumption
  <1>5. m.on = s.now /\ m.notch = t[1] /\ m.token = t /\ m.subject = x.subject /\ m.nr = x.nr
    BY <1>1
  <1>6. ComputedFrom(m, x.due)
    BY <1>1, <1>2, <1>3, <1>5, TokenIsComputed
  <1>7. QED
    BY <1>1, <1>2, <1>3, <1>4, <1>5, <1>6

(* Rows of one deadline are computed from one date. *)
LEMMA OneDueDateStep == IInv /\ [Next]_vars => OneDueDate'
  <1> SUFFICES ASSUME IInv, [Next]_vars PROVE OneDueDate'
    OBVIOUS
  <1>0. /\ due \in [Subjects -> Date] /\ nr \in [Subjects -> 0..MaxChecks]
        /\ \A s \in Subjects : nr[s] \in Nat
        /\ \A m \in sent : m.subject \in Subjects /\ m.nr \in 0..nr[m.subject]
        /\ \A r \in reading : \A x \in r.deadlines : x \in Deadline /\ x.nr <= nr[x.subject]
    BY BoundsAssumption DEF IInv, TypeOK, ReadIsThere
  <1>1. ASSUME NEW p \in Subjects, Check(p) PROVE OneDueDate'
    <2>1. PICK f : /\ due' = [due EXCEPT ![p] = f]
                   /\ nr' = [nr EXCEPT ![p] = nr[p] + 1] /\ UNCHANGED <<sent, reading>>
      BY <1>1 DEF Check, Successor, worker
    <2>2. f \in Date /\ due'[p] = f
      <3>1. due'[p] \in Date
        BY TypeStep DEF IInv, TypeOK
      <3>2. QED
        BY <1>0, <2>1, <3>1
    <2>3. ASSUME NEW s \in Subjects, NEW k \in 0..nr'[s] PROVE \E e \in Date : DueOn(s, k, e)'
      <3>1. CASE s = p /\ k = nr[p] + 1
        <4>1. \A m \in sent : ~(m.subject = s /\ m.nr = k)
          BY <1>0, <3>1
        <4>2. \A r \in reading : \A x \in r.deadlines : ~(x.subject = s /\ x.nr = k)
          BY <1>0, <3>1 DEF Deadline
        <4>3. DueOn(s, k, f)'
          BY <2>1, <2>2, <3>1, <4>1, <4>2 DEF DueOn
        <4>4. QED
          BY <2>2, <4>3
      <3>2. CASE ~(s = p /\ k = nr[p] + 1)
        <4>1. k \in 0..nr[s] /\ (k = nr'[s] => s # p)
          BY <1>0, <2>1, <3>2
        <4>2. PICK e \in Date : DueOn(s, k, e)
          BY <4>1 DEF IInv, OneDueDate
        <4>3. k = nr'[s] => k = nr[s] /\ due'[s] = due[s]
          BY <1>0, <2>1, <4>1
        <4>4. DueOn(s, k, e)'
          BY <2>1, <4>2, <4>3 DEF DueOn
        <4>5. QED
          BY <4>4
      <3>3. QED
        BY <3>1, <3>2
    <2>4. QED
      BY <2>3 DEF OneDueDate
  <1>2. CASE SweepRead
    <2>1. /\ UNCHANGED <<due, nr, sent>>
          /\ \A r \in reading' : \A x \in r.deadlines : x.nr = nr[x.subject] /\ x.due = due[x.subject]
      BY <1>2 DEF SweepRead
    <2>2. ASSUME NEW s \in Subjects, NEW k \in 0..nr[s], NEW e \in Date, DueOn(s, k, e)
          PROVE  DueOn(s, k, e)'
      BY <2>1, <2>2 DEF DueOn
    <2>3. QED
      BY <2>1, <2>2 DEF IInv, OneDueDate
  <1>3. CASE SweepCommit
    <2>1. PICK s \in reading :
            /\ sent' = sent \cup {m \in Wanted(s) : NotYetQueued(m)}
            /\ reading' = {} /\ UNCHANGED <<due, nr>>
      BY <1>3 DEF SweepCommit
    <2>2. ASSUME NEW p \in Subjects, NEW k \in 0..nr[p], NEW e \in Date, DueOn(p, k, e)
          PROVE  DueOn(p, k, e)'
      <3>1. ASSUME NEW m \in Wanted(s), m.subject = p, m.nr = k PROVE ComputedFrom(m, e)
        <4>1. PICK x \in s.deadlines :
                m.subject = x.subject /\ m.nr = x.nr /\ ComputedFrom(m, x.due)
          BY Committed
        <4>2. x.due = e
          BY <2>2, <3>1, <4>1 DEF DueOn
        <4>3. QED
          BY <4>1, <4>2
      <3>2. QED
        BY <2>1, <2>2, <3>1 DEF DueOn
    <2>3. QED
      BY <2>1, <2>2 DEF IInv, OneDueDate
  <1>4. ASSUME UNCHANGED <<due, nr, sent>>, reading' \subseteq reading PROVE OneDueDate'
    <2>1. ASSUME NEW s \in Subjects, NEW k \in 0..nr[s], NEW e \in Date, DueOn(s, k, e)
          PROVE  DueOn(s, k, e)'
      BY <1>4, <2>1 DEF DueOn
    <2>2. QED
      BY <1>4, <2>1 DEF IInv, OneDueDate
  <1>5. QED
    BY <1>1, <1>2, <1>3, <1>4
    DEF Next, SweepFails, Crash, Restart, PassTime, vars, worker

LEMMA KeysAreUniqueStep == IInv /\ [Next]_vars => KeysAreUnique'
  <1> SUFFICES ASSUME IInv, [Next]_vars PROVE KeysAreUnique'
    OBVIOUS
  <1>1. CASE SweepCommit
    <2>1. PICK s \in reading : sent' = sent \cup {m \in Wanted(s) : NotYetQueued(m)}
      BY <1>1 DEF SweepCommit
    <2>2. ASSUME NEW m \in Wanted(s), NEW n \in Wanted(s), SameKey(m, n) PROVE m = n
      <3>1. /\ m = [subject |-> m.subject, nr |-> m.nr, token |-> m.token, notch |-> m.token[1],
                    to |-> m.to, on |-> s.now]
            /\ n = [subject |-> n.subject, nr |-> n.nr, token |-> n.token, notch |-> n.token[1],
                    to |-> n.to, on |-> s.now]
        BY WantedRows
      <3>2. QED
        BY <2>2, <3>1 DEF SameKey
    <2>3. \A m, n : SameKey(m, n) => SameKey(n, m)
      BY DEF SameKey
    <2>4. QED
      BY <2>1, <2>2, <2>3 DEF IInv, KeysAreUnique, NotYetQueued
  <1>2. ASSUME UNCHANGED sent PROVE KeysAreUnique'
    BY <1>2 DEF IInv, KeysAreUnique
  <1>3. QED
    BY <1>1, <1>2 DEF Next, Check, SweepRead, SweepFails, Crash, Restart, PassTime, vars

(* A sweep that is committed has sent what it wanted or found it sent. *)
LEMMA SentIfWanted ==
  ASSUME IInv, NEW s \in reading, sent' = sent \cup {m \in Wanted(s) : NotYetQueued(m)},
         NEW x \in s.deadlines, NEW a \in Addresses, NEW t \in ReminderNotch(x.due, s.now)
  PROVE  \E m \in sent' : m.subject = x.subject /\ m.nr = x.nr /\ m.to = a /\ m.token = t
  <1> DEFINE c == [subject |-> x.subject, nr |-> x.nr, token |-> t, notch |-> t[1],
                   to |-> a, on |-> s.now]
  <1>1. c \in Wanted(s)
    BY DEF Wanted
  <1>2. c.subject = x.subject /\ c.nr = x.nr /\ c.to = a /\ c.token = t
    OBVIOUS
  <1> HIDE DEF c
  <1>3. CASE NotYetQueued(c)
    BY <1>1, <1>2, <1>3
  <1>4. CASE ~NotYetQueued(c)
    <2>1. PICK n \in sent : SameKey(c, n)
      BY <1>4 DEF NotYetQueued
    <2>2. QED
      BY <1>2, <2>1 DEF SameKey
  <1>5. QED
    BY <1>3, <1>4

LEMMA RemindedStep == IInv /\ [Next]_vars => RemindedWhenSwept'
  <1> SUFFICES ASSUME IInv, [Next]_vars PROVE RemindedWhenSwept'
    OBVIOUS
  <1>1. CASE SweepCommit
    <2>1. PICK s \in reading :
            /\ sent' = sent \cup {m \in Wanted(s) : NotYetQueued(m)}
            /\ done' = {s} /\ reading' = {} /\ UNCHANGED <<due, nr, today>>
      BY <1>1 DEF SweepCommit, clock
    <2> SUFFICES ASSUME NEW x \in s.deadlines, NEW a \in Addresses
                 PROVE
        LET d == DaysUntil(x.due, s.now)
            had == {m \in sent' : m.subject = x.subject /\ m.nr = x.nr /\ m.to = a}
        IN  /\ d < 0 => \E m \in had : m.notch = Overdue /\ Monday(m.on) = Monday(s.now)
            /\ d = 0 => \E m \in had : m.notch = 0
            /\ d \in 1..7 => \E m \in had : m.notch = 7
            /\ d \in 8..30 => \E m \in had : m.notch = 30
            /\ d \in 31..90 => \E m \in had : m.notch = 90
            /\ d > 90 => had = {}
      BY <2>1 DEF RemindedWhenSwept
    <2> DEFINE d == DaysUntil(x.due, s.now)
               had == {m \in sent' : m.subject = x.subject /\ m.nr = x.nr /\ m.to = a}
    <2>2. /\ x.subject \in Subjects /\ x.due \in Date /\ x.nr \in 0..nr[x.subject]
          /\ s.now = today /\ today \in Date
      <3>1. x \in Deadline /\ x.nr <= nr[x.subject] /\ s.now = today /\ today \in Date
        BY DEF IInv, TypeOK, ReadIsThere, SweepsAreOfToday
      <3>2. nr[x.subject] \in Nat
        BY <3>1, BoundsAssumption DEF Deadline, IInv, TypeOK
      <3>3. QED
        BY <3>1, <3>2, BoundsAssumption DEF Deadline
    <2>3. d \in Int
      BY <2>2, DaysBetween
    <2>4. ASSUME NEW m \in had PROVE ComputedFrom(m, x.due) /\ m.on \in Date /\ Ordinal(m.on) <= Ordinal(s.now)
      <3>1. CASE m \in sent
        <4>1. PICK e \in Date : DueOn(x.subject, x.nr, e)
          BY <2>2 DEF IInv, OneDueDate
        <4>2. x.due = e /\ ComputedFrom(m, e)
          BY <2>4, <3>1, <4>1 DEF DueOn
        <4>3. QED
          BY <2>2, <3>1, <4>2 DEF IInv, TypeOK, NothingOfTomorrow
      <3>2. CASE m \in Wanted(s)
        <4>1. PICK y \in s.deadlines :
                /\ y.subject \in Subjects /\ y.nr \in 0..nr[y.subject]
                /\ m.subject = y.subject /\ m.nr = y.nr
                /\ m.on = today /\ m.on \in Date /\ ComputedFrom(m, y.due)
          BY <3>2, Committed
        <4>2. PICK e \in Date : DueOn(x.subject, x.nr, e)
          BY <2>2 DEF IInv, OneDueDate
        <4>3. x.due = e /\ y.due = e
          BY <2>4, <4>1, <4>2 DEF DueOn
        <4>4. Ordinal(today) \in Int
          BY <2>2, DaysAreCounted
        <4>5. QED
          BY <2>2, <4>1, <4>3, <4>4
      <3>3. QED
        BY <2>1, <2>4, <3>1, <3>2
    <2>5. ASSUME NEW t \in ReminderNotch(x.due, s.now)
          PROVE  \E m \in had : m.token = t /\ m.notch = t[1] /\ m.on \in Date
      <3>1. PICK m \in sent' : m.subject = x.subject /\ m.nr = x.nr /\ m.to = a /\ m.token = t
        BY <2>1, SentIfWanted
      <3>2. m \in had
        BY <3>1
      <3>3. m.token[1] = m.notch /\ m.on \in Date
        BY <2>4, <3>2 DEF ComputedFrom
      <3>4. QED
        BY <3>1, <3>2, <3>3
    <2> HIDE DEF had
    <2>6. d < 0 => \E m \in had : m.notch = Overdue /\ Monday(m.on) = Monday(s.now)
      <3> SUFFICES ASSUME d < 0 PROVE \E m \in had : m.notch = Overdue /\ Monday(m.on) = Monday(s.now)
        OBVIOUS
      <3>1. <<Overdue, Week(s.now)>> \in ReminderNotch(x.due, s.now)
        BY DEF ReminderNotch
      <3>2. PICK m \in had : m.token = <<Overdue, Week(s.now)>> /\ m.notch = Overdue /\ m.on \in Date
        BY <2>5, <3>1
      <3>3. m.token = <<Overdue, Week(m.on)>>
        BY <2>4, <3>2 DEF ComputedFrom, Overdue, Notches
      <3>4. Week(m.on) = Week(s.now)
        BY <3>2, <3>3
      <3>5. Monday(m.on) = Monday(s.now)
        BY <2>2, <3>2, <3>4, WeeksAreWeeks DEF Week
      <3>6. QED
        BY <3>2, <3>5
    <2>7. ASSUME NEW n \in Notches, ~(d < 0), {k \in Crossed(d) : \A j \in Crossed(d) : k <= j} = {n}
          PROVE  \E m \in had : m.notch = n
      <3>1. <<n, <<>> >> \in ReminderNotch(x.due, s.now)
        BY <2>7 DEF ReminderNotch
      <3>2. QED
        BY <2>5, <3>1
    <2>8. ASSUME d > 90, NEW m \in had PROVE FALSE
      <3>1. DaysUntil(x.due, m.on) \in Int /\ d <= DaysUntil(x.due, m.on)
        <4>1. /\ Ordinal(x.due) \in Int /\ Ordinal(m.on) \in Int /\ Ordinal(s.now) \in Int
              /\ Ordinal(m.on) <= Ordinal(s.now)
          BY <2>2, <2>4, <2>8, DaysAreCounted
        <4>2. QED
          BY <4>1 DEF DaysUntil
      <3>2. QED
        BY <2>3, <2>4, <2>8, <3>1 DEF ComputedFrom, Notches
    <2>9. QED
      BY <2>3, <2>6, <2>7, <2>8, NotchOf DEF Notches, had
  <1>2. ASSUME UNCHANGED <<sent, done>> PROVE RemindedWhenSwept'
    BY <1>2 DEF IInv, RemindedWhenSwept
  <1>3. QED
    BY <1>1, <1>2 DEF Next, Check, SweepRead, SweepFails, Crash, Restart, PassTime, vars

LEMMA Invariance == Spec => []IInv
  <1>1. IInv /\ [Next]_vars => IInv'
    BY TypeStep, OrderStep, OneDueDateStep, KeysAreUniqueStep, RemindedStep DEF IInv
  <1>2. QED
    BY <1>1, InitInv, PTL DEF Spec

-----------------------------------------------------------------------------
(* Theorems *)

(* Every rule of complete_deadline and of registration yields a date, and   *)
(* the outbox, the sweep and the scheduler keep their types.                *)
THEOREM TypeCorrect == Spec => []TypeOK
  <1>1. IInv => TypeOK
    BY DEF IInv
  <1>2. QED
    BY <1>1, Invariance, PTL

(* A recipient gets one reminder for each threshold and one in each week    *)
(* that the deadline is overdue, on whatever days send_reminders has run.   *)
THEOREM NoRepetition == Spec => []OneReminderPerNotch
  <1>1. IInv => OneReminderPerNotch
    <2> SUFFICES ASSUME IInv, NEW m \in sent, NEW n \in sent,
                        m.subject = n.subject, m.nr = n.nr, m.to = n.to, m.notch = n.notch,
                        m.notch = Overdue => Monday(m.on) = Monday(n.on)
                 PROVE  m = n
      BY DEF OneReminderPerNotch
    <2>1. /\ m.subject \in Subjects /\ m.nr \in 0..nr[m.subject]
          /\ m.on \in Date /\ n.on \in Date
      BY DEF IInv, TypeOK
    <2>2. PICK e \in Date : DueOn(m.subject, m.nr, e)
      BY <2>1 DEF IInv, OneDueDate
    <2>3. ComputedFrom(m, e) /\ ComputedFrom(n, e)
      BY <2>2 DEF DueOn
    <2>4. m.notch = Overdue => Week(m.on) = Week(n.on)
      BY <2>1, WeeksAreWeeks DEF Week
    <2>5. m.token = n.token
      BY <2>3, <2>4 DEF ComputedFrom, Notches, Overdue
    <2>6. QED
      BY <2>5 DEF IInv, KeysAreUnique, SameKey
  <1>2. QED
    BY <1>1, Invariance, PTL

(* Reminders of one deadline only grow more urgent, also when a check has   *)
(* completed it between the read of a sweep and its commit.                 *)
THEOREM OnlyMoreUrgent == Spec => []UrgencyGrows
  <1>1. IInv => UrgencyGrows
    <2> SUFFICES ASSUME IInv, NEW m \in sent, NEW n \in sent,
                        m.subject = n.subject, m.nr = n.nr, Before(m.on, n.on)
                 PROVE  n.notch <= m.notch
      BY DEF UrgencyGrows
    <2>1. /\ m.subject \in Subjects /\ m.nr \in 0..nr[m.subject]
          /\ m.on \in Date /\ n.on \in Date
      BY DEF IInv, TypeOK
    <2>2. PICK e \in Date : DueOn(m.subject, m.nr, e)
      BY <2>1 DEF IInv, OneDueDate
    <2>3. ComputedFrom(m, e) /\ ComputedFrom(n, e)
      BY <2>2 DEF DueOn
    <2>4. /\ DaysUntil(e, m.on) \in Int /\ DaysUntil(e, n.on) \in Int
          /\ DaysUntil(e, n.on) < DaysUntil(e, m.on)
      <3>1. /\ Ordinal(e) \in Int /\ Ordinal(m.on) \in Int /\ Ordinal(n.on) \in Int
            /\ Ordinal(m.on) < Ordinal(n.on)
        BY <2>1, <2>2, DaysAreCounted, OrderOfDays
      <3>2. QED
        BY <3>1 DEF DaysUntil
    <2>5. QED
      BY <2>3, <2>4 DEF ComputedFrom, Notches, Overdue
  <1>2. QED
    BY <1>1, Invariance, PTL

(* After a sweep whatever is due within 90 days has had the reminder of its *)
(* innermost threshold, and what is overdue that of the week, no matter     *)
(* which sweeps before were missed.                                         *)
THEOREM SweepMakesUp == Spec => []RemindedWhenSwept
  <1>1. IInv => RemindedWhenSwept
    BY DEF IInv
  <1>2. QED
    BY <1>1, Invariance, PTL

=============================================================================
