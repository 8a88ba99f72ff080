# Fristenwächter: specifications and proofs

Fristenwächter keeps the legal deadlines of a company fleet: driving licence
checks (FSK) of drivers, Hauptuntersuchung (HU) and UVV inspection of vehicles.
A web application (FastAPI, SQLAlchemy, PostgreSQL) records checks; a worker
(APScheduler) sends reminders, escalates failed licence checks and delivers
e-mail and SMS through an outbox. This directory holds TLA+ modules of its
concurrent core, the TLC configurations that check them and TLAPS proofs.

Paths are relative to the repository; `PROJECT.json` writes them with the prefix
`src/`. Run `tlc -config X.cfg M` and `tlapm M.tla` in this directory.

## 1. Inventory

| component | code | state | operations | talks to |
|---|---|---|---|---|
| licence checks | `app/web/drivers.py`, `services/checks.py` | `driver` (lock flag, version), `deadline`, `compliance_check_log` (hash chain) | create driver, record a PASSED or FAILED check, complete a deadline | E6 by call; the sweep through `escalation_case` |
| E6, lock and escalate | `services/e6.py` | `driver`, `escalation_case`, `system_alert`, `outbox_message` | `run_e6`: lock, case, alert, notices, replay of a second FAILED check | the relay through the outbox |
| escalation sweep | `jobs/sweeps.py` | `escalation_case.status`, `last_nag_on` | nag once a day, breach after 7 days | checks through row locks, the relay through the outbox |
| reminder sweep | `jobs/sweeps.py`, `services/recipients.py` | `outbox_message` by `dedup_key` | thresholds 90, 30, 7, 0 days, weekly when overdue | reads `deadline`, writes the outbox |
| outbox relay | `jobs/relay.py`, `notifiers/` | `outbox_message.status`, `attempts`, `next_attempt_at`; `system_alert` | claim a batch, send, mark, back off, dead-letter; SMS budget of a month | providers by HTTP; itself, when cycles overlap |
| calendar | `app/dates.py` | none | month arithmetic, obligations, day counts, the escalation window | all of the above |
| vehicles | `app/web/vehicles.py`, `services/checks.py` | `vehicle`, `deadline`, vehicle chain | create, record HU or UVV | reminder sweep |
| DSGVO retention | `jobs/dsgvo.py`, `services/dsgvo.py`, `web/dsgvo.py` | `deletion_requested_at`, `deleted_at`, `anonymized_at`, outbox, sessions | request deletion, anonymise, purge, tombstone a company | every other writer of the same rows, through versions and row locks |
| accounts | `services/auth.py`, `security.py`, `deps.py`, `web/auth.py` | `account_user`, `user_session`, `invitation`, `login_throttle` | sign up, log in, log out, resolve a session, invite, accept | retention through the session row; row level security |
| tenant isolation | `migrations/0002`, `deps.py`, `db.py` | the tenant setting of a connection | set at the start of a transaction | every query |
| worker | `worker.py`, `ops.py`, `scripts/worker_healthcheck.py` | schedule in memory, liveness file | start, fire, misfire, stop | all jobs |
| views, configuration | the rest of `app/web`, `settings.py`, `scripts` | none | render, validate | |

What is hard in each of them, and the properties that make it correct:

* *Checks, E6 and the escalation sweep* meet on the same driver and case. Each
  request is one transaction that reads before it locks (`session.get`), inserts
  before it locks (the foreign key of the evidence takes a KEY SHARE lock), and
  may roll back to a savepoint. Correct means: an open case always locks the
  driver; a passed check closes every open case it should; FAILED evidence never
  becomes visible without the lock; the hash chain links to stored entries; a
  driver always has an open deadline; the sweep speaks of open cases only; and
  nobody waits for ever.
* *The relay* sends inside a transaction that it commits after the whole batch.
  Correct means: every row is delivered at least once or ends as a dead letter
  with an alert; copies have a cause that can be named; only routine SMS are
  dropped, and never silently; and what the unlocked queries of the SMS budget
  can get wrong, SMS over the cap and repeated alerts, has a bound.
* *Vehicles* have two obligations and one evidence chain; HU checks lock the
  vehicle early, UVV checks late. Correct means: both obligations always have an
  open deadline, none ends without evidence, the locks never form a cycle, and
  the chain is one line wherever checks do not overlap.
* *Reminders* depend on the days on which a sweep happened to run. Correct means
  one reminder for each threshold and week, never a less urgent one later, and
  nothing left out as soon as one sweep has run.
* *The calendar* has month ends, leap years and ISO weeks at the turn of a year.
* *Accounts* are changed by requests that read in one transaction and write in
  the next: overlapping logins lose or repeat each other's counts, two
  acceptances see the same open invitation, a request that loaded its session
  writes it after a logout. Correct means: one account for each invitation, no
  lock without its failures, a revoked session stays revoked, and nobody acts in
  the name of an account that was erased meanwhile.
* *Retention* erases all companies that are due in one transaction, while their
  people go on working. Correct means: what the purge found is erased when the
  company is marked deleted and never comes back, and no company waits for ever.

`PROJECT.json` lists the hazards at their lines, the ones no property covers yet
with the reason. Two gaps are named here only: nothing in `src/app` ever sets
`employment_end` (`jobs/dsgvo.py:39`), so the first duty of the purge has no
candidates; and it would anonymise the drivers of all companies in one
transaction (`jobs/dsgvo.py:93`), which one stale driver fails.

## 2. Modules

| module | models | role |
|---|---|---|
| `LicenseCheck` | FAILED and PASSED checks, E6, completion of FSK deadlines, anonymisation, escalation sweep | core specification, properties, inductive invariant |
| `LicenseCheckProofs` | | its theorems; `LicenseCheck` implements `EvidenceChain` |
| `MCLicenseCheck`, `MCVehicles` | | symmetry for TLC |
| `Escalation` | what a failed check sets off, as a manager may rely on it: lock, case, notices, closing, breach | abstract specification |
| `EscalationProofs` | | `LicenseCheck` implements `Escalation` |
| `EvidenceChain` | the hash chain of a subject without locks, cases and deadlines | abstract specification |
| `EvidenceChainProofs` | | its theorems, used by those of `LicenseCheck` and `Vehicles` |
| `Vehicles` | creation of vehicles, HU and UVV checks, completion of their deadlines, the chain of a vehicle | specification and properties, refinement mapping to `EvidenceChain` |
| `VehiclesProofs` | | its inductive invariant and theorems, the refinement among them |
| `Delivery` | what the outbox promises: at least once or a dead letter | abstract specification |
| `OutboxRelay` | `relay_outbox`, notifiers, SMS quota, crashes | detailed specification, refinement mapping to `Delivery` |
| `OutboxRelayProofs` | | its theorems, the refinement among them |
| `MCOutboxRelay` | | symmetry for TLC |
| `Calendar` | `app/dates.py` on civil dates | operators |
| `CalendarProofs` | | theorems about them for all dates |
| `Reminders` | `send_reminders` under the scheduler, checks that renew deadlines | extends `Calendar` |
| `MCReminders` | | dates of the instance |
| `RemindersProofs` | | its theorems; extends `CalendarProofs` |
| `Accounts` | signup, login with its throttle, logout, tenant context, invite, accept | actions and properties; no behaviour of its own |
| `Retention` | deletion requests, hiring, checks and anonymisation in outline, the nightly purge with its row locks, versions, deadlocks and crashes | composes `Accounts` with the purge |
| `RetentionProofs` | | its theorems, those about accounts among them |

Operators ahead of a definition that no other definition uses (`NoKeyShare`,
`AddMonthsUnclamped`, ...) are the mistakes that the properties are tried
against; `PROJECT.json` lists them as mutants.

### LicenseCheck

A member of `Requests` is one HTTP request; it names the rows it inserts (its
evidence entry, its case, its successor deadline). Committed rows are variables;
what a transaction has read is in `snap`, `dl`, `found`, `prev`; the row locks it
holds follow from `pc`. One action is one database interaction that others can
observe: `Begin` (fixes `created_at`, as `now()` is the start of a transaction),
`GetDriver` (identity map), `ReadTip`, `InsertCheck`, `E6Lock`, `E6Flush`,
`E6Replay`, `CommitReplay`, `FindDeadline`, `CompleteDeadline`, `Resolve`,
`Scrub`, `Abort`, and for the sweep `SweepClaim`, `SweepCommit`, `SweepCrash`.

What of PostgreSQL and SQLAlchemy the model relies on:

* READ COMMITTED; FOR UPDATE excludes every other row lock; KEY SHARE, taken by
  the foreign key of the evidence, is compatible with an ordinary UPDATE;
  ROLLBACK TO SAVEPOINT gives up FOR UPDATE and keeps the earlier KEY SHARE; the
  deadlock detector fails one waiter.
* A unique index makes an insert wait for an uncommitted equal key.
* SELECT ... FOR UPDATE does not refresh an object already in the identity map;
  setting an attribute to its own value emits no UPDATE, and with no UPDATE
  there is no check of `version_id`.
* The flush may write the driver before or after the case.

Steps that are merged, each because nobody can tell: flush and commit; the lock
of the deadline row and that of the driver row (the driver lock decides alone);
the insert of an ad-hoc PASSED and its read of the case. The sweep skips cases
that are locked; a case a `Resolve` is writing at that moment is one the sweep
would see after the commit. Days replace instants: the sweep runs at 06:00 and
a window ends at 23:59:59, so only days are compared. `Legacy` drivers were
created before migration 0003 and have no deadline.

`Escalation` has none of this: a case is opened, closed and reminded of in one
act each. In the mapping (`Contract`) the subject of a case is what its request
asks about and the lock is `authorized` of the driver row; the other variables
are those of the same name, and `told` is the outbox. The commit of `E6Flush` is
`Lock`, that of `Resolve` is `Close`, `SweepCommit` is `Remind` and `Midnight`
is `NextDay`. Every other step is invisible, replays, roll backs and crashes
included. `Lock` demands that the driver has no open case, which in the code
only the unique index sees to; `Close` may also turn a case that was just
breached into a resolved one, and may leave the lock (`stale_passed`).

### EvidenceChain

`record_check` in itself: a transaction begins (`Begin` fixes `created_at`),
reads the entry to chain to (`Link`), and ends with its entry stored (`Append`)
or with nothing (`Leave`, a roll back or a request that records no evidence). The
newest entry is the one whose transaction began last, as in
`_latest_hash_for_driver` and `_latest_hash_for_vehicle`; so it need not be the
last one stored. There are no locks, so its properties hold whatever callers
lock: `ForksNeedOverlap` (a chain forks only where transactions overlap one
another or the entry they chain to), `NoBrokenLinks`, `AppendOnly`.

`LicenseCheck` and `Vehicles` implement it (`KeepsChain`): `stage` reads off `pc`
how far a request is with its entry, and `subject` is the driver or vehicle it
asks about. Of `before[r]` the part `begun` is what `created_at` orders; `stored`,
the entries that were stored when `r` began, is a history variable that no
action reads.

### Vehicles

As in `LicenseCheck` a request is one transaction and names the rows it inserts;
`<<v, k>>` is the first deadline of kind `k` of vehicle `v`. `Begin` fixes
`created_at`, `FindDeadline` is the unlocked SELECT of `record_vehicle_check`,
`LockDeadline` and `LockVehicle` (HU only) are the two FOR UPDATE of
`complete_deadline`, `ReadTip` and `InsertCheck` are `record_check`, `Spawn` is
the flush of the successor with the commit. The insert of the successor needs a
KEY SHARE lock of the vehicle for its foreign key, so a UVV check waits for an
HU check there, while an HU check may wait for an equal `entry_hash` in
`InsertCheck`. `Blocks(q, r)` says all that r may wait for. Merged: that KEY SHARE
lock with the commit after it, which waits for nothing. Due dates are in
`Reminders`; `Forms` stands for result and date of a check, which decide whether
two hashes are equal.

Nothing in `record_vehicle_check` looks the vehicle up, so `Begin` has no guard:
a member of `Vehicles` is an id, which may be that of a vehicle (`created`), of
one that is about to be created, or of none that row level security shows to
this company. Without a deadline of it `FindDeadline` takes the branch that only
records evidence. `known`, a history variable, holds the requests whose vehicle
was there when they began.

### OutboxRelay and Delivery

Variables: the status and attempts of a row, whether it waits for its next
attempt, the month it was sent in, the alerts of the cap, what each provider has
accepted and billed, and for each cycle its `pc`, batch and position. Actions:
`Enqueue`, `Claim` (ordered by priority, SKIP LOCKED, batch limit), `TakeRow`
(with the read of the SMS count), `CountAlerts` and `RaiseAlert` (`record_skip`
commits on its own), `Send` (accepted; accepted without an id; accepted with the
answer lost; refused), `Commit`, `CommitRefused`, `Crash`, `Elapse` (a backoff
is over), `NewMonth`. A claim ends with its transaction, so `Crash` and
`CommitRefused` free the batch, while what a provider took stays taken.

Abstracted: the five delays of BACKOFF are a `waiting` flag and a number of
attempts; order within a priority is arbitrary; priorities 50 and 100 are one;
a cycle that finds nothing is omitted; one company. Critical SMS count toward
the cap and are never held back by it, as in `seven.py`. `FiniteAssumption`: a
table has finitely many rows and a host runs finitely many cycles.

`Delivery` knows a message as unsent, delivered, dropped or given up. The
mapping in `OutboxRelay` reads the fate of a message off its row; every step of
the relay is a step of `Delivery` or none.

### Calendar and Reminders

`Calendar` translates `dates.py`: `AddMonths` with its clamping, the
obligations, `DaysUntil` by day numbers as Python's `toordinal` counts them, and
ISO years and weeks. Conversions of instants are left out: every comparison of
the program with an instant is with the end or beginning of a civil day.

In `Reminders` a subject is a driver or one obligation of a vehicle and has one
open deadline; `nr` counts its deadlines and stands for `deadline.id`. `Check`
applies the roll-forward rules to any `performed_on`, back-dated ones included.
The sweep reads (`SweepRead`) and commits (`SweepCommit`) with checks in
between; it may fail. The scheduler keeps its schedule in memory: `armed` says
that the run of the day is ahead, a `Crash` loses it and a `Restart` has it only
if 06:30 is still to come. Assumed: a process that is up starts a run within the
hour, and a sweep ends on its day. Left out: two checks that complete one
deadline at once (that is in `LicenseCheck` and `Vehicles`), and changes of recipients.

### Accounts and Retention

A row is named after the request that inserts it, so `user[r]`, `sess[r]`,
`inv[r]`, `driver[r]`, `mail[r]` and `company[r]` are what request `r` has
inserted. `Firms` and `Guests` name what is there in the beginning: a company
that has asked for deletion, with its OWNER, a session and a driver; and
somebody who is invited or already a member. `req[r]` holds how far a request is
(`at`) and its local variables: the address it gave, the session or invitation
it named, the account and the driver row it has loaded, the throttle row it has
read.

| code | actions |
|---|---|
| `signup_submit` | `Signup` |
| `login`: `_assert_not_locked`, `_verify`, `_throttle_row`, `_record_failure` or `_reset_failures` with `create_session` | `CheckThrottle`, `Verify`, `ReadThrottle`, `RecordFailure`, `StartSession` |
| `logout_submit` | `Logout` |
| `get_tenant_context`: `resolve_session`, then the flush of `last_seen_at` and the look at the account | `ReadSession`, `Enter` |
| `invite_user` | `Invite` |
| `accept_submit` | `ReadInvitation`, `CreateAccount`, `NewSession` |
| create, check and anonymise a driver; request deletion | `Hire`; `LoadDriver`, then `Check` or `Anonymize`; `RequestDeletion` |
| `prune_old_outbox` | `Prune` |
| `tombstone_deleted_companies`, `tombstone_company` | `SelectDue`; per company `TakeCompany`, `ScrubUsers`, `ScrubDrivers`, `TakeSession`, `FinishCompany`; `CommitPurge` |
| worker dies; the deadlock detector | `PurgeCrash`; `PurgeVictim`, `RequestVictim` |
| a process or connection dies | `Abort` |

`held` is the set of rows that the purge has written and not committed. Whoever
wants to write one of them waits; a foreign key waits for the account that it
refers to (KEY SHARE against the UPDATE that frees the e-mail address, a key
column); a unique index waits for an equal address that is being freed. The
other way round a request that is `Inside` has flushed `last_seen_at` and holds
its session row, for which `TakeSession` waits. The two can wait for each other
(`Deadlocked`), and PostgreSQL fails either.

What the purge reads is in `purge`, with the version of each driver: ORM updates
of drivers compare `version_id`, those of accounts, sessions and invitations do
not. `known` is a history variable, the rows of a company when the purge took it
up. Of an answered request only failed logins, logouts and acceptances are
remembered, for the properties.

Abstracted: passwords and tokens are ideal, and `Verify` chooses; the throttle
is that of one IP address; times are flags (`PENDING` or `EXPIRED`, `RUNNING` or
`OVER`, `NEW` or `OLD`, `REQUESTED` or `DUE`) that time turns on its own; MANAGER
and VIEWER are one role; a check is what it does to the driver row and the
outbox; pages that only read, exports and the rehash of a password are left out,
and so are the row locks of the relay. Row level security is taken as given: a
request reads and writes rows of `Tenant(r)` only. The one transaction that
does not set the tenant is the second one of `accept_submit`.

## 3. What TLC checks

| run | instance | shows |
|---|---|---|
| `license_check_safety` | 3 requests of any kind, a driver with and one without a deadline, 2 days, 2 dates of checks; 3.7 million states | `OpenCaseMeansLocked`, `FoundIsCurrent`, `DeadlineNeverLapses`, `ForksNeedOverlap`, `OnlyE6Deadlocks`, `FailedEvidenceLocks`, `ResolvedIsFinal`, `NoticeOnlyWhileOpen` |
| `license_check_live` | 2 requests, 3 days, fair; 191 300 states | `EveryRequestEnds`, `LateCaseCloses`, `KeepsContract` (implements `Escalation`), `KeepsChain` (implements `EvidenceChain`) |
| `vehicles` | a vehicle that may be created at any time, 3 checks of any kind, fair; 486 972 states | `BothKindsAreWatched`, `ChecksAreFollowedUp`, `OnlyEvidenceEndsIt`, `ForksNeedOverlap`, `WaitsGoForward`, `KeepsChain` (implements `EvidenceChain`), `EveryCheckEnds` |
| `relay_overlap` | 2 cycles, a critical SMS, 2 routine SMS and an e-mail, a budget that is used up, 2 crashes, 1 refused commit; 875 729 states | `DuplicatesAreExplained`, `DropsAreAnnounced`, `CapAlertsBounded`, `KeepsPromise` (implements `Delivery`) |
| `relay_single` | 1 cycle at a time, 3 routine SMS, a budget of 1, a change of month, fair; 469 357 states | `OneCapAlertPerMonth`, `BudgetIsBounded`, `EveryMessageSettles` |
| `reminders` | HU, UVV and FSK from 24 December 2020 on, 11 days, 2 checks, 1 day missed | `OneReminderPerNotch`, `UrgencyGrows`, `RemindedWhenSwept` |
| `retention` | a company, a guest, 2 requests of any kind, 1 crash of the purge, fair | `OneAccountPerInvitation`, `LockIsEarned`, `RevokedStaysRevoked`, `ActsForActiveAccount`, `DeletionIsThorough`, `DeletionCompletes` |

`license_check_safety`, `relay_overlap`, `reminders`, `vehicles` and `retention`
also check `TypeOK` of their modules. The properties
are stated in words where they are defined. `NoBrokenLinks` of drivers and of
vehicles has no run of its own: it follows from `KeepsChain` and is proved.

Bounds, and why they suffice. Three requests are one more than any race in this
code needs: two that conflict and a third that reads what they leave behind
(forks of the chain need the third). `WindowDays = 0` makes a case late on the
second day; `Due` only adds the constant. Two cycles, a batch of two and four
messages give rows that are in a lost batch, behind it and in that of another
cycle; two attempts reach the dead letter, of which the code allows five. In
`relay_overlap` the budget is zero, which the setting allows and which is also
what other messages of the month leave of it: each cycle may hold a routine SMS,
both may count the alerts before either inserts one, and two alerts are reached,
the bound of `CapAlertsBounded`. The budget of one SMS in `relay_single` is
exceeded in the first batch of two, and the third SMS is the one that must not
pass any more. Only an e-mail has a `dedup_key` that may be too long for the
provider's column, so only `mail` makes a commit fail. Drivers, requests
and dates of `license_check_safety` are not told apart by the model except where
`Legacy` does, so runs may permute requests and dates. The eleven days hold
every boundary: the thresholds 7 and 0, the first overdue day, the last days of
ISO week 2020-W53, New Year, and the Monday after; the HU due on 31 January
crosses 30 days, and the UVV due on 8 January crosses 7, on New Year's Day.
`performed_on` is today or 31 August, from which half a year must be clamped to
28 February.

Two requests next to the purge are what the races of `Retention` need: two
logins, two acceptances, two writers of one driver, or a request and the logout
that takes its session away under the eyes of the purge. One of the failed
logins that `MaxFails = 2` asks for was counted earlier, so that two requests
reach the lock. Whoever is not in `Lasting` has sessions and invitations that
may expire: the guest's do, the others' stay, which bounds the run. A second
company matters only to `one_tenants_failure`, which has one.

One vehicle is enough for `vehicles`, since no lock, index entry or query of a
check reaches beyond its vehicle; three checks let two of one kind meet one of
the other, and two forms let hashes be equal or not. Requests and forms differ in
name only, so `MCVehicles` numbers the requests by what they ask for
(`Sorted`); that takes the place of a symmetry set, which liveness forbids.

`license_check_*`, `vehicles` and `retention` look for deadlocks: `Quiet` is the only
standstill allowed.
The other runs set `CHECK_DEADLOCK FALSE`: a relay with an empty outbox and a
calendar at its bound may stop.

Fairness. `FairSpec` of `LicenseCheck` assumes that a request that has begun
runs on (the event loop schedules it), that a row lock is granted in the order
of its queue (strong fairness of `Resolve`, which a sweep may hold up again and
again), and that the sweep fires and not every run of it crashes. Nothing makes
a request arrive or a day pass. `OutboxRelay` assumes that the interval job fires
(`register`, every 15 seconds), that a cycle goes on to its end, and that a
backoff elapses; crashes and refused commits are bounded. Providers may refuse
for ever. `FairSpec` of `Retention` assumes strong fairness of the steps of a
request that has arrived, because a row lock is granted in the order of its
queue however often the purge takes it again, and weak fairness of the purge,
which is started each night and whose every step ends. That the purge meets a
stale version, a deadlock or a crash is possible again and again, but each uses
up a request or one of `MaxCrashes`. Nothing makes a request arrive or a time
run out. `FairSpec` of `Vehicles` assumes weak fairness of each request that has
begun: whoever holds a lock there gives it up for good.

### Disagreements between the code and what it says of itself

Each has a run in which TLC finds the counterexample, and a row under
`findings` with the quoted line.

* `chain_fork`: the evidence chain forks although each check holds the FOR
  UPDATE lock, because its tip is chosen by `created_at`, the start of the
  transaction, and the lock is granted later.
* `double_failed`: of two FAILED checks at once one may end with an error
  (deadlock, equal hash, stale version) and not with the idempotent replay.
* `stale_passed`: a PASSED check that loaded the driver before E6 locked it
  resolves the case and leaves the driver locked.
* `accept_invitation`: accepting an invitation uses it up and creates the
  account, but never a session: the second transaction looks for the account
  without having set the tenant.
* `one_tenants_failure`: companies that are due together are tombstoned in one
  transaction, so that a stale driver of one rolls back the erasure of another.

Other observations, which are in the models or follow from them, and which no
property forbids outright:

* Two checks at once complete the same deadline and spawn two successors, because
  its status is not looked at under the lock (`checks.py:219`); both stay OPEN
  and both are reminded of, in `LicenseCheck` and in `Vehicles`.
* The UVV branch of `complete_deadline` does not lock the vehicle whose chain it
  extends (`checks.py:271`), so that it forks with an HU check at the same time.
  `ForksNeedOverlap` is what remains true of both chains.
* `Resolve` may overwrite a case that the sweep has just set to BREACHED
  (`checks.py:181` reads it without a lock).
* Routine SMS of one batch all see the same count (`sms_quota.py:46`), so that a
  batch may exceed the monthly budget, and so may each cycle that overlaps with
  it: by `BatchSize - 1` in the deployed worker, `BudgetIsBounded` in general.
* `POST /vehicles/{id}/checks` never looks the vehicle up (`vehicles.py:146`): for
  an id of no vehicle, or of another company's, it finds no deadline and commits
  evidence of it all the same (`vehicles.py:169`). `ChecksAreFollowedUp` says that
  no check of a vehicle that was there ends in that branch.
* The `dedup_key` of an E6 notice holds the address (`e6:<uuid>:EMAIL:<address>`,
  `e6.py:168`) in 120 characters (`models.py:388`), so it has room for an address
  of 74. With a longer one the insert fails with a DataError, which `run_e6` does
  not catch, and no FAILED check of that company can be recorded. Lengths are not
  in the models.
* A check of an HU with a `hu_interval_months` below zero, which `POST /vehicles`
  accepts, is followed by an obligation that is overdue at once; with zero it is
  due in the same month (`SuccessorIsLater`).
* An e-mail with a long `dedup_key` for which the provider returns no id makes
  the commit of its batch fail (`CommitRefused`); the batch is sent again.
* A worker that is back within the hour after 06:30 does not run the sweep of
  that day: misfire grace needs a schedule that outlives the process.
* Overlapping failed logins may count as one, so that an address may fail more
  often than MAX_FAILS before it is locked. `LockIsEarned` is the other
  direction.
* A request that began before the tombstone may insert after the purge has
  looked: a driver, an invitation or a notice may remain in a deleted company.
  `DeletionIsThorough` therefore speaks of the rows that the purge has found.

## 4. What is proved

All theorems hold for every value of the constants that satisfies the named
ASSUMEs of the modules; TLC evaluates these in every run.

* `LicenseCheckProofs`. `InductiveInvariant` proves `IInv`: the type invariant,
  `LockExclusion` (next to a FOR UPDATE lock there is no other evidence in
  flight), `RequestState` (what the program counter says about the request's
  reads), `ClaimedStaysOpen`, and the safety properties. None is inductive
  alone: that an open case locks the driver needs that a pass knows every open
  case when it commits (`FoundIsCurrent`), which needs the exclusion of locks,
  which needs to know in which states a request holds them. From it follow
  `TypeCorrect`, `OpenCaseLocksDriver`, `PassSeesEveryOpenCase`,
  `DeadlineSurvives`, `LinksAreStored`, and the action properties
  `FailedEvidenceIsLocked`, `ResolvedStays`, `NoticesForOpenCases`.
  `ChecksKeepChain` shows step by step that the evidence of drivers is stored as
  `EvidenceChain` says, and carries `OneLineWithoutOverlap` over from there.
  `DeadlocksAreOfE6` is a matter of the order of locks and follows from the types
  alone: if all that is underway for a driver waits, then two requests in E6 wait
  with evidence in hand.
* `EvidenceChainProofs`. `IInv` joins `Order` (who began, and what was stored,
  before whom; begins are a strict order) with `LinkState`: what a transaction
  has read is stored, is not its own and did not begin after it was stored, and
  is no older than anything that was stored when it began. The last makes
  `OneLineWithoutOverlap`: of two entries that chain to the same one and do not
  overlap, one was stored when the other began, so the other chains to it or to
  one that began later; that this is again the common one needs an overlap.
  `LinksAreStored` and `EvidenceIsFinal` follow too. No number of transactions or
  of subjects is assumed, and no lock.
* `EscalationProofs`. `ChecksKeepContract`: `Init` maps to `Init`, and a step from
  a state of `IInv` to a step of `Escalation` or none. Each part of `IInv` has
  its use there: `FoundIsCurrent` says that `Close` closes every open case,
  `ClaimedStaysOpen` that `Remind` speaks of open ones, `RequestState` that a
  case is opened once and that what a pass has read exists. `Attribution` is
  added to it: a pass has read cases of its own driver, and a sweep did not begin
  in the future.
* `VehiclesProofs`. `IInv` adds to the properties what `RequestState` says: the
  deadline a request works on is stored and is of its vehicle and kind, and if
  the vehicle was there when the request began, there is one from `FindDeadline`
  to the commit, which needs `BothKindsAreWatched`.
  From it follow `AlwaysWatched`, `AlwaysFollowedUp`, `EndsWithEvidence`,
  `LinksAreStored`, which need no lock: they hold although the UVV branch takes
  none of the vehicle. `ChecksKeepChain` and `OneLineWithoutOverlap` are as for
  drivers. The locks are in three theorems. `HUChecksTakeTurns`: at most one HU
  check of a vehicle with a deadline is past its lock (`OneHolder`).
  `NobodyWaitsInACircle`: `ToGo` ranks the points of a transaction such that
  whoever waits ranks higher than the one it waits for. An HU check at the index
  of entries and a UVV check at the vehicle never wait for each other, since
  their hashes differ; so the first waits only for HU checks that wait for
  nobody any more, and the second only for a holder of the vehicle, of which
  there is one and which is an HU check. `NoStandstill`: so some check that is
  underway waits for nobody, without any assumption on how many there are, as
  `ToGo` ends at 5.
* `OutboxRelayProofs`. `IInv` says that the batches of different cycles are
  disjoint and their rows pending, that each outcome in a batch has its cause,
  and that the copies of a message a provider has are at most the lost batches
  plus the attempts, and one more while an uncounted copy is in a batch or the
  row is sent. `Duplicates`, `Drops` and `RelayKeepsPromise` (the relay
  implements `Delivery`) follow; `OneAlertPerMonth` assumes one cycle at a time,
  as `max_instances=1` in one worker gives. Without that, for cycles that
  overlap, there are two bounds, and both assume that there are finitely many
  cycles and messages (`FiniteAssumption`). `AlertPerCycle`: a cycle counts once,
  first among those about to alert (`Warners`) and then by its alert, so a month
  has no more alerts than there are cycles (`WarnersAreCounted`). `BudgetOverrun`:
  a month is charged with its committed SMS, those sent in uncommitted batches
  and the one being sent. While a row is sent `over_limit` has found fewer
  committed SMS than the cap, and all else that is charged is in some batch;
  batches are disjoint and have at most `BatchSize` rows, so together they hold
  no more than cycles times `BatchSize` (`SumOfSizes`). Outcomes, commits and roll
  backs only move or drop charges (`FinishCharges`, `CommitCharges`,
  `RollBackCharges`), and a new month begins without any (`SentBefore`).
* `CalendarProofs`. `MonthsAreExact`: `add_months` yields a date exactly so many
  months later, on the same day or the last of a shorter month.
  `MonthsKeepOrder`: a later check has no earlier deadline. `ClampingShortens`:
  renewing in two steps ends no later than in one. `HuIsMonthGranular`.
  `SuccessorIsLater`: an FSK or UVV obligation lies after the check it follows, and
  an HU obligation does if its interval is positive and does not if it is
  negative, which the form allows. Last `DaysAreCounted` and `OrderOfDays`: day numbers count civil days and order
  them, so `days_until` is negative exactly for what is overdue.
  `DaysForwardAreCounted` is the date of a Nachpruefung, and `WeeksAreWeeks` says
  that equal ISO year and week mean the same Monday. Division is
  reduced to quotient and remainder by the lemmas `Months12` and `Divided`.
* `RetentionProofs`, for any number of firms, guests and requests. `IInv` joins
  the types with what `RowsAreThere` says: a request that is so far has loaded
  what it needs, and a row that is there has its company, address and account.
  `OneAccountPerInvitation` follows from `OneAccountPerEmail` and
  `AccountsAsInvited` (who accepted has the address of the invitation).
  `LockIsEarned` needs `FailsAreCounted`: neither the stored count nor one that a
  request has read and is about to write back exceeds the failed logins, which
  only grow. `ActsForActiveAccount` needs four facts that hold each other:
  `InsideIsActive` (a request inside has an active account and a session that the
  purge has not written, unless it was logged out), `SessionsFollowAccounts`
  (an account that the purge has written keeps no open session but those it has
  written or will), `RevokedForAReason` and `PurgeState` (what the purge holds
  and has read belongs to companies that are due). `DeletionIsThorough` needs
  `KnownIsCovered`, which says for each row known of a company, and each step of
  the tombstone, that the row is erased, written or still to be written, and
  `KnownIsSettled`, that the request which inserted it is finished with it, and
  so will not change it. The proof goes in two layers. Of each action is shown
  once what it leaves alone: `Frame(r)`, that a step of request `r` touches no
  other request and nothing but its own new row beyond what `Kept` allows, and
  the same of time and of each step of the purge. Each part of the invariant is
  then preserved by `Kept` and not by thirty actions again.

* `RemindersProofs`, for any subjects, recipients, rhythms and dates of checks.
  The core of `IInv` is `OneDueDate`: all reminders of one deadline were computed
  from one due date, the stored one as long as the deadline is open, since a
  check replaces a deadline and never moves it. Then the urgency of a reminder
  grows with its day (`OnlyMoreUrgent`), and two reminders with one key are one
  (`NoRepetition`, which needs `WeeksAreWeeks` for the weekly ones).
  `SweepsAreOfToday` and `NothingOfTomorrow` give the order of days, and
  `SweepMakesUp` says that nothing due is left out by a sweep.

Only model-checked: liveness, `EveryRequestEnds`, `LateCaseCloses`,
`EveryCheckEnds`, `EveryMessageSettles` and `DeletionCompletes`, because fairness
and ENABLED are out of the prover's reach.

## 5. Not modelled yet, and the plan

Out of scope: pages, wording, licence plate syntax, settings, deployment, and
row level security itself, which PostgreSQL enforces. Time-outs have no clock
value, so the health check's 90 seconds are not compared with a slow batch.

What may come next:

1. A composition of the sweeps and the relay from one outbox row to its
   delivery. The parts are there: `Escalation` says when a notice is written,
   `Delivery` what becomes of a written one.
2. The locks of drivers by ranks, as in `NobodyWaitsInACircle`, for requests that
   do not open a case; those of E6 may deadlock (`DeadlocksAreOfE6`).
