---------------------------- MODULE OutboxRelay ----------------------------
(***************************************************************************)
(* relay_outbox: cycles that claim due rows of the transactional outbox    *)
(* with FOR UPDATE SKIP LOCKED, call the provider for one after another    *)
(* and commit all outcomes at the end; the monthly SMS budget, whose       *)
(* queries run in sessions of their own; failures of the provider, of the  *)
(* commit and of the process.                                              *)
(*                                                                         *)
(* One member of Relays is one running cycle; the worker runs one at a     *)
(* time, relay_outbox claims to be safe to overlap.  The messages are the  *)
(* outbox rows of one company.                                             *)
(***************************************************************************)
EXTENDS Integers, FiniteSets

CONSTANTS
  Messages,     \* the rows that may be enqueued
  Sms,          \* those of channel SMS, the others are EMAIL
  Critical,     \* those of priority 0: never subject to the SMS budget
  LongKey,      \* those for which "brevo:" or "seven:" and the dedup_key
                \* do not fit into provider_message_id
  Relays,       \* concurrent relay cycles
  BatchSize,    \* BATCH_SIZE
  MaxAttempts,  \* len(BACKOFF)
  Cap,          \* SMS_MONTHLY_CAP_PER_COMPANY
  LastMonth,    \* bound on the calendar
  MaxCrashes,   \* bound on the crashes of the worker
  MaxRefused,   \* bound on the commits that PostgreSQL refuses
  None          \* SQL NULL

ASSUME SetsAssumption ==
  Sms \subseteq Messages /\ Critical \subseteq Messages /\ LongKey \subseteq Messages
ASSUME NumbersAssumption ==
  /\ BatchSize \in Nat \ {0} /\ MaxAttempts \in Nat \ {0} /\ Cap \in Nat
  /\ LastMonth \in Nat /\ MaxCrashes \in Nat /\ MaxRefused \in Nat
ASSUME FiniteAssumption == IsFiniteSet(Messages) /\ IsFiniteSet(Relays)
ASSUME NoneAssumption == None \notin Messages \cup Nat

VARIABLES
  row,            \* OutboxMessage: absent, pending, sent (sent_at), dead
  attempts,       \* OutboxMessage.attempts
  waiting,        \* rows whose next_attempt_at is in the future
  sentIn,         \* the month of sent_at
  skipped,        \* rows with a provider_message_id `skipped:sms_cap:...'
  undeliverable,  \* rows with an alert NOTIFICATION_UNDELIVERABLE
  capAlerts,      \* number of SMS_CAP_EXCEEDED alerts of each month
  month,          \* the current month in Berlin
  accepted,       \* how often the provider has taken each message
  billed,         \* SMS that the provider has taken in each month
  crashes,        \* crashes so far
  refused,        \* refused commits so far
  pc,             \* where each cycle is
  batch,          \* outcome of each row in the transaction of each cycle
  at,             \* the row it works on
  since           \* month_start of the call of record_skip

stored == <<row, attempts, waiting, skipped, undeliverable>>
cycle  == <<pc, batch, at, since>>
vars   == <<stored, sentIn, capAlerts, month, accepted, billed, crashes, refused, cycle>>

Months   == 0..LastMonth
Outcomes == {"none", "todo", "sent", "overlong", "skipped", "failed"}

(* Rows, alerts and cycles take the values of their columns. *)
TypeOK ==
  /\ row           \in [Messages -> {"absent", "pending", "sent", "dead"}]
  /\ attempts      \in [Messages -> 0..MaxAttempts]
  /\ waiting       \subseteq Messages
  /\ sentIn        \in [Messages -> Months \cup {None}]
  /\ skipped       \subseteq Messages
  /\ undeliverable \subseteq Messages
  /\ capAlerts     \in [Months -> Nat]
  /\ month         \in Months
  /\ accepted      \in [Messages -> Nat]
  /\ billed        \in [Months -> Nat]
  /\ crashes       \in 0..MaxCrashes
  /\ refused       \in 0..MaxRefused
  /\ pc            \in [Relays -> {"idle", "next", "skip", "warn", "call"}]
  /\ batch         \in [Relays -> [Messages -> Outcomes]]
  /\ at            \in [Relays -> Messages \cup {None}]
  /\ since         \in [Relays -> Months \cup {None}]

-----------------------------------------------------------------------------
With(w, outcomes) == {m \in Messages : batch[w][m] \in outcomes}

(* The rows that cycle w has locked *)
Claimed(w) == {m \in Messages : batch[w][m] # "none"}

EvenIfLocked(m) == row[m] = "pending" /\ m \notin waiting
FirstTryOnly(m) ==
  /\ row[m] = "pending" /\ attempts[m] = 0
  /\ \A w \in Relays : m \notin Claimed(w)
Claimable(m) ==
  /\ row[m] = "pending" /\ m \notin waiting
  /\ \A w \in Relays : m \notin Claimed(w)

(* ORDER BY priority: no row of S comes before m *)
FirstOf(m, S) == m \in Critical \/ S \cap Critical = {}

(* over_limit *)
SentThisMonth == Cardinality({m \in Sms : row[m] = "sent" /\ sentIn[m] = month})

GateEverySms(m) == m \in Sms
GateCriticalSms(m) == m \in Sms \cap Critical
Gated(m) == m \in Sms \ Critical

Init ==
  /\ row           = [m \in Messages |-> "absent"]
  /\ attempts      = [m \in Messages |-> 0]
  /\ waiting       = {}
  /\ sentIn        = [m \in Messages |-> None]
  /\ skipped       = {}
  /\ undeliverable = {}
  /\ capAlerts     = [k \in Months |-> 0]
  /\ month         = 0
  /\ accepted      = [m \in Messages |-> 0]
  /\ billed        = [k \in Months |-> 0]
  /\ crashes       = 0
  /\ refused       = 0
  /\ pc            = [w \in Relays |-> "idle"]
  /\ batch         = [w \in Relays |-> [m \in Messages |-> "none"]]
  /\ at            = [w \in Relays |-> None]
  /\ since         = [w \in Relays |-> None]

(* E6 and the sweeps insert pending rows that are due at once. *)
Enqueue(m) ==
  /\ row[m] = "absent"
  /\ row' = [row EXCEPT ![m] = "pending"]
  /\ UNCHANGED <<attempts, waiting, skipped, undeliverable, sentIn, capAlerts, month,
                 accepted, billed, crashes, refused, cycle>>

(* SELECT ... ORDER BY priority LIMIT BATCH_SIZE FOR UPDATE SKIP LOCKED.     *)
(* A cycle that finds nothing is left out: it only sends the heartbeat.      *)
Claim(w) ==
  LET due == {m \in Messages : Claimable(m)} IN
  /\ pc[w] = "idle" /\ due # {}
  /\ \E B \in SUBSET due :
       /\ Cardinality(B) = IF Cardinality(due) < BatchSize THEN Cardinality(due)
                           ELSE BatchSize
       /\ \A m \in B : FirstOf(m, due \ B)
       /\ batch' = [batch EXCEPT ![w] = [m \in Messages |-> IF m \in B THEN "todo" ELSE "none"]]
  /\ pc' = [pc EXCEPT ![w] = "next"]
  /\ UNCHANGED <<stored, sentIn, capAlerts, month, accepted, billed, crashes, refused, at, since>>

(* The next row of the batch; over_limit reads what other transactions have *)
(* committed, not the rows of this batch.                                   *)
TakeRow(w) ==
  /\ pc[w] = "next"
  /\ \E m \in With(w, {"todo"}) :
       /\ FirstOf(m, With(w, {"todo"}))
       /\ at' = [at EXCEPT ![w] = m]
       /\ pc' = [pc EXCEPT ![w] = IF Gated(m) /\ SentThisMonth >= Cap THEN "skip" ELSE "call"]
  /\ UNCHANGED <<stored, sentIn, capAlerts, month, accepted, billed, crashes, refused, batch, since>>

(* The row gets its outcome and, when sent, its sent_at, both uncommitted. *)
Finish(w, outcome) ==
  /\ batch'  = [batch EXCEPT ![w][at[w]] = outcome]
  /\ sentIn' = [sentIn EXCEPT ![at[w]] = IF outcome = "failed" THEN @ ELSE month]
  /\ pc'     = [pc EXCEPT ![w] = "next"]
  /\ at'     = [at EXCEPT ![w] = None]
  /\ since'  = [since EXCEPT ![w] = None]

WarnedEarlier == \E k \in Months : k < month /\ capAlerts[k] > 0
AlreadyWarned == capAlerts[month] > 0

(* record_skip, in a transaction of its own, first half *)
CountAlerts(w) ==
  /\ pc[w] = "skip"
  /\ \/ /\ AlreadyWarned
        /\ Finish(w, "skipped")
     \/ /\ ~AlreadyWarned
        /\ pc' = [pc EXCEPT ![w] = "warn"]
        /\ since' = [since EXCEPT ![w] = month]
        /\ UNCHANGED <<sentIn, batch, at>>
  /\ UNCHANGED <<stored, capAlerts, month, accepted, billed, crashes, refused>>

(* record_skip, second half: commits, whatever becomes of the batch *)
RaiseAlert(w) ==
  /\ pc[w] = "warn"
  /\ capAlerts' = [capAlerts EXCEPT ![since[w]] = @ + 1]
  /\ Finish(w, "skipped")
  /\ UNCHANGED <<stored, month, accepted, billed, crashes, refused>>

(* The provider takes the message that w sends it *)
Accept(w) ==
  /\ accepted' = [accepted EXCEPT ![at[w]] = @ + 1]
  /\ billed'   = IF at[w] \in Sms THEN [billed EXCEPT ![month] = @ + 1] ELSE billed

Refuse == UNCHANGED <<accepted, billed>>

(* A 2xx without an id is recorded under one made of the dedup_key. *)
Send(w) ==
  /\ pc[w] = "call"
  /\ \/ Accept(w) /\ Finish(w, "sent")
     \/ Accept(w) /\ at[w] \in LongKey /\ Finish(w, "overlong")
     \/ Accept(w) /\ Finish(w, "failed")      \* the answer is lost
     \/ Refuse /\ Finish(w, "failed")
  /\ UNCHANGED <<stored, capAlerts, month, crashes, refused>>

(* The claims are released. *)
EndCycle(w) ==
  /\ pc'    = [pc EXCEPT ![w] = "idle"]
  /\ batch' = [batch EXCEPT ![w] = [m \in Messages |-> "none"]]
  /\ at'    = [at EXCEPT ![w] = None]
  /\ since' = [since EXCEPT ![w] = None]

RollBack(w) ==
  /\ EndCycle(w)
  /\ sentIn' = [m \in Messages |-> IF m \in Claimed(w) THEN None ELSE sentIn[m]]
  /\ UNCHANGED <<stored, capAlerts, month>>

ExhaustedLate(w) == {m \in With(w, {"failed"}) : attempts[m] >= MaxAttempts}
Exhausted(w) == {m \in With(w, {"failed"}) : attempts[m] + 1 >= MaxAttempts}

AllMarked(w) == With(w, {"sent", "skipped"}) \cup Exhausted(w)
Delivered(w) == With(w, {"sent", "skipped"})

(* The commit of the batch, with _record_failure for the rows that failed:  *)
(* back off, or dead letter and alert.                                      *)
Commit(w) ==
  /\ pc[w] = "next" /\ With(w, {"todo", "overlong"}) = {}
  /\ row' = [m \in Messages |-> CASE m \in Delivered(w) -> "sent"
                                  [] m \in Exhausted(w) -> "dead"
                                  [] OTHER              -> row[m]]
  /\ attempts' = [m \in Messages |->
                    IF m \in With(w, {"failed"}) THEN attempts[m] + 1 ELSE attempts[m]]
  /\ waiting' = waiting \cup (With(w, {"failed"}) \ Exhausted(w))
  /\ skipped' = skipped \cup With(w, {"skipped"})
  /\ undeliverable' = undeliverable \cup Exhausted(w)
  /\ EndCycle(w)
  /\ UNCHANGED <<sentIn, capAlerts, month, accepted, billed, crashes, refused>>

(* PostgreSQL refuses an id of more than 100 characters and with it the     *)
(* whole batch; the exception ends the cycle.                               *)
CommitRefused(w) ==
  /\ pc[w] = "next" /\ With(w, {"todo"}) = {} /\ With(w, {"overlong"}) # {}
  /\ refused < MaxRefused
  /\ refused' = refused + 1
  /\ RollBack(w)
  /\ UNCHANGED <<accepted, billed, crashes>>

(* The process is killed; a request under way may have reached the provider. *)
Crash(w) ==
  /\ pc[w] # "idle" /\ crashes < MaxCrashes
  /\ crashes' = crashes + 1
  /\ (pc[w] = "call" /\ Accept(w)) \/ Refuse
  /\ RollBack(w)
  /\ UNCHANGED refused

Elapse(m) ==
  /\ m \in waiting
  /\ waiting' = waiting \ {m}
  /\ UNCHANGED <<row, attempts, skipped, undeliverable, sentIn, capAlerts, month,
                 accepted, billed, crashes, refused, cycle>>

NewMonth ==
  /\ month < LastMonth
  /\ month' = month + 1
  /\ UNCHANGED <<stored, sentIn, capAlerts, accepted, billed, crashes, refused, cycle>>

Cycle(w) == Claim(w) \/ TakeRow(w) \/ CountAlerts(w) \/ RaiseAlert(w) \/ Send(w)
              \/ Commit(w) \/ CommitRefused(w)

Next ==
  \/ \E m \in Messages : Enqueue(m) \/ Elapse(m)
  \/ \E w \in Relays : Cycle(w) \/ Crash(w)
  \/ NewMonth

Spec == Init /\ [][Next]_vars

(* The scheduler starts a cycle every 15 seconds, requests time out and time *)
(* passes; a worker that crashed is started again.                           *)
Fairness ==
  /\ \A w \in Relays : WF_vars(Cycle(w))
  /\ \A m \in Messages : WF_vars(Elapse(m))

FairSpec == Spec /\ Fairness

-----------------------------------------------------------------------------
(* Properties *)

(* At least once, and not more often than the transactions explain: the     *)
(* provider takes a message again only after a batch was lost or after an   *)
(* attempt that the relay counted as failed.  SKIP LOCKED keeps overlapping *)
(* cycles apart.                                                            *)
DuplicatesAreExplained ==
  \A m \in Messages : accepted[m] <= 1 + crashes + refused + attempts[m]

(* A routine SMS that was marked sent but never handed over was dropped for *)
(* the budget, and the customer has been warned, even if the batch that     *)
(* found the budget exhausted was rolled back.                              *)
DropsAreAnnounced ==
  \A m \in Messages :
    row[m] = "sent" /\ accepted[m] = 0
      => m \in Sms \ Critical /\ \E k \in Months : capAlerts[k] > 0

(* record_skip warns once per company and month, also if cycles crash.      *)
OneCapAlertPerMonth == \A k \in Months : capAlerts[k] <= 1

(* Without max_instances=1 it may warn once per cycle that runs at a time,   *)
(* since every one of them may have counted before any inserts; not more.   *)
CapAlertsBounded == \A k \in Months : capAlerts[k] <= Cardinality(Relays)

(* over_limit does not see the batch that is being sent, nor those of other *)
(* cycles, so the budget may be overrun, but only by what can be in flight  *)
(* at a time, whatever is retried, lost or taken before midnight and sent   *)
(* after it.                                                                *)
RoutineSmsOf(k) ==
  {m \in Sms \ Critical : row[m] = "sent" /\ m \notin skipped /\ sentIn[m] = k}
Overrun == IF Cap = 0 THEN 0 ELSE Cap - 1 + Cardinality(Relays) * BatchSize
BudgetIsBounded == \A k \in Months : Cardinality(RoutineSmsOf(k)) <= Overrun

(* Every enqueued notification is sent or becomes a dead letter.            *)
EveryMessageSettles ==
  \A m \in Messages : row[m] = "pending" ~> row[m] \in {"sent", "dead"}

(* The relay keeps the promise of the outbox.                               *)
fate == [m \in Messages |->
           CASE row[m] = "absent"  -> "absent"
             [] row[m] = "pending" -> "queued"
             [] row[m] = "dead"    -> "undeliverable"
             [] OTHER -> IF m \in skipped THEN "suppressed" ELSE "delivered"]

AtLeastOnce ==
  INSTANCE Delivery WITH Suppressible <- Sms \ Critical, fate <- fate,
                         copies <- accepted, alarms <- undeliverable

KeepsPromise == AtLeastOnce!Spec

-----------------------------------------------------------------------------
(* What holds of every single step: the invariant behind the safety         *)
(* properties above.                                                        *)

(* Where a cycle is tells what it holds and which row it works on.          *)
CycleState(w) ==
  /\ pc[w] = "idle" => Claimed(w) = {}
  /\ pc[w] \in {"skip", "warn", "call"} => at[w] \in With(w, {"todo"})
  /\ pc[w] \in {"skip", "warn"} => Gated(at[w])
  /\ pc[w] = "warn" => since[w] \in Months

(* SKIP LOCKED: no two cycles hold a row, and every row held is pending.    *)
ClaimsAreApart ==
  \A w \in Relays : \A m \in Claimed(w) :
    row[m] = "pending" /\ \A v \in Relays \ {w} : m \notin Claimed(v)

Warned == \E k \in Months : capAlerts[k] > 0

(* An outcome in a batch has its cause. *)
OutcomesAreEarned ==
  \A w \in Relays :
    /\ \A m \in With(w, {"sent", "overlong"}) : accepted[m] > 0
    /\ \A m \in With(w, {"skipped"}) : Gated(m) /\ Warned

(* A row whose last attempt has not been counted, nor lost with its batch   *)
Uncounted(m) ==
  \/ row[m] = "sent"
  \/ \E w \in Relays : m \in With(w, {"sent", "overlong", "failed"})

(* The same of the committed rows *)
RowState(m) ==
  /\ row[m] = "absent" => accepted[m] = 0
  /\ row[m] \in {"absent", "pending"} => attempts[m] < MaxAttempts
  /\ row[m] = "sent" => accepted[m] > 0 \/ m \in skipped
  /\ m \in skipped => row[m] = "sent" /\ Gated(m) /\ Warned
  /\ m \in undeliverable <=> row[m] = "dead"
  /\ accepted[m] <= 1 + crashes + refused + attempts[m]
  /\ ~Uncounted(m) => accepted[m] <= crashes + refused + attempts[m]

IInv ==
  /\ TypeOK
  /\ \A w \in Relays : CycleState(w)
  /\ ClaimsAreApart
  /\ OutcomesAreEarned
  /\ \A m \in Messages : RowState(m)

=============================================================================
