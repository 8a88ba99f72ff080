----------------------------- MODULE Retention -----------------------------
(***************************************************************************)
(* The nightly DSGVO purge next to the requests of Accounts and to those   *)
(* that work on drivers.  The purge erases every company that is due in    *)
(* one transaction; what it has written is in held until then, and the     *)
(* version of a driver row, row locks and the deadlock detector decide     *)
(* who waits, who fails and who is overlooked.                             *)
(***************************************************************************)
EXTENDS Accounts

CONSTANT MaxCrashes  \* bound on crashes of the worker in a purge

ASSUME CrashesAssumption == MaxCrashes \in Nat

VARIABLES
  driver,   \* Driver
  mail,     \* OutboxMessage, in the last 24 months or older
  purge,    \* what the running purge has read
  known,    \* history: the rows that there were when it took up a company
  crashes   \* of the worker in a purge

accounts == <<user, inv, sess, throttle>>
erasable == <<company, accounts, driver, mail>>
vars     == <<erasable, req, held, purge, known, crashes>>

Driver == [state : {"NONE", "NAMED", "ANONYMOUS"}, company : Names \cup {None}, version : Nat]
Mail   == [state : {"NONE", "NEW", "OLD"}, company : Names \cup {None}]
Purge  == [at : {"idle", "next", "users", "drivers", "sessions"},
           batch : SUBSET Names, company : Names \cup {None}, users : SUBSET Names,
           drivers : SUBSET (Names \X Nat), sessions : SUBSET Names]

NoDriver == [state |-> "NONE", company |-> None, version |-> 0]
NoMail   == [state |-> "NONE", company |-> None]
Idle     == [at |-> "idle", batch |-> {}, company |-> None, users |-> {},
             drivers |-> {}, sessions |-> {}]
Nothing  == [companies |-> {}, users |-> {}, drivers |-> {},
             sessions |-> {}, invs |-> {}, mails |-> {}]

TypeOK ==
  /\ AccountsTypeOK
  /\ driver \in [Names -> Driver]
  /\ mail \in [Names -> Mail]
  /\ purge \in Purge
  /\ known \in [Names -> SUBSET Names]
  /\ crashes \in 0..MaxCrashes

Init ==
  /\ AccountsInit
  /\ driver = [n \in Names |-> IF n \in Firms
                 THEN [state |-> "NAMED", company |-> n, version |-> 1] ELSE NoDriver]
  /\ mail = [n \in Names |-> NoMail]
  /\ purge = Idle /\ held = Nothing
  /\ known = [n \in Names |-> {}]
  /\ crashes = 0

-----------------------------------------------------------------------------
(* Tenant requests on drivers and on the company, from get_tenant_context   *)
(* on.  A MANAGER and a VIEWER differ in what is refused to them only.      *)

Tenant(r) == user[req[r].who].company

Hire(r) ==
  /\ req[r].at = "entered" /\ req[r].kind = "HIRE"
  /\ \/ ~Owner(req[r].who) /\ End(r, req[r], "refused") /\ UNCHANGED driver
     \/ /\ driver' = [driver EXCEPT
             ![r] = [state |-> "NAMED", company |-> Tenant(r), version |-> 1]]
        /\ End(r, req[r], "done")
  /\ UNCHANGED <<company, accounts, mail, held, purge, known, crashes>>

DriversOf(c) == {d \in Names : driver[d].company = c}

(* The identity map keeps the row as it was read, version included.  The    *)
(* role may not suffice, or there is no such driver.                        *)
LoadDriver(r) ==
  LET u == req[r].who IN
  /\ req[r].at = "entered" /\ req[r].kind \in {"CHECK", "ANONYMIZE"}
  /\ \/ End(r, req[r], "refused")
     \/ /\ req[r].kind = "ANONYMIZE" => Owner(u)
        /\ \E d \in DriversOf(Tenant(r)) :
             Goto(r, [req[r] EXCEPT !.driver = [name |-> d, state |-> driver[d].state,
                                                version |-> driver[d].version]], "loaded")
  /\ UNCHANGED <<erasable, held, purge, known, crashes>>

Stale(d, version) == driver[d].version # version

(* record_driver_check in outline; LicenseCheck has it in full.  Evidence   *)
(* refers to the account and takes KEY SHARE on it.  A FAILED check locks   *)
(* the driver and puts notices into the outbox; a PASSED one may unlock the *)
(* driver or leave the row alone.                                           *)
Check(r) ==
  LET d == req[r].driver.name
      stale == Stale(d, req[r].driver.version)
  IN
  /\ req[r].at = "loaded" /\ req[r].kind = "CHECK"
  /\ req[r].who \notin held.users /\ d \notin held.drivers
  /\ \E outcome \in {"lock", "unlock", "leave"} :
       \/ /\ outcome # "leave" /\ stale
          /\ End(r, req[r], "failed")
          /\ UNCHANGED <<driver, mail>>
       \/ /\ outcome # "leave" => ~stale
          /\ driver' = [driver EXCEPT ![d].version = IF outcome = "leave" THEN @ ELSE @ + 1]
          /\ mail' = IF outcome = "lock"
                     THEN [mail EXCEPT ![r] = [state |-> "NEW", company |-> driver[d].company]]
                     ELSE mail
          /\ End(r, req[r], "done")
  /\ UNCHANGED <<company, accounts, held, purge, known, crashes>>

(* anonymize_driver_endpoint *)
Anonymize(r) ==
  LET d == req[r].driver.name
      named == req[r].driver.state = "NAMED"
      stale == Stale(d, req[r].driver.version)
  IN
  /\ req[r].at = "loaded" /\ req[r].kind = "ANONYMIZE"
  /\ named => d \notin held.drivers
  /\ \/ ~named /\ End(r, req[r], "done") /\ UNCHANGED driver
     \/ named /\ stale /\ End(r, req[r], "failed") /\ UNCHANGED driver
     \/ /\ named /\ ~stale
        /\ driver' = [driver EXCEPT ![d].state = "ANONYMOUS", ![d].version = @ + 1]
        /\ End(r, req[r], "done")
  /\ UNCHANGED <<company, accounts, mail, held, purge, known, crashes>>

(* request_company_deletion: a second request does not start the days of    *)
(* grace anew.                                                              *)
RequestDeletion(r) ==
  LET c == Tenant(r) IN
  /\ req[r].at = "entered" /\ req[r].kind = "DELETE"
  /\ \/ ~Owner(req[r].who) /\ End(r, req[r], "refused") /\ UNCHANGED company
     \/ /\ Owner(req[r].who)
        /\ company' = IF company[c] = "LIVE" THEN [company EXCEPT ![c] = "REQUESTED"] ELSE company
        /\ End(r, req[r], "done")
  /\ UNCHANGED <<accounts, driver, mail, held, purge, known, crashes>>

GraceEnds(c) ==
  /\ company[c] = "REQUESTED"
  /\ company' = [company EXCEPT ![c] = "DUE"]
  /\ UNCHANGED <<accounts, driver, mail, req, held, purge, known, crashes>>

MailAges(m) ==
  /\ mail[m].state = "NEW"
  /\ mail' = [mail EXCEPT ![m].state = "OLD"]
  /\ UNCHANGED <<company, accounts, driver, req, held, purge, known, crashes>>

-----------------------------------------------------------------------------
(* purge_expired.  Its first transaction, anonymize_expired_drivers, finds  *)
(* nothing: no code sets employment_end.                                    *)

(* prune_old_outbox *)
Prune ==
  /\ purge.at = "idle"
  /\ \E m \in Names : mail[m].state = "OLD"
  /\ mail' = [m \in Names |-> IF mail[m].state = "OLD" THEN NoMail ELSE mail[m]]
  /\ UNCHANGED <<company, accounts, driver, req, held, purge, known, crashes>>

(* tombstone_deleted_companies *)
Due == {c \in Names : company[c] = "DUE"}
SelectDue ==
  /\ purge.at = "idle" /\ Due # {}
  /\ purge' = [Idle EXCEPT !.at = "next", !.batch = Due]
  /\ UNCHANGED <<erasable, req, held, known, crashes>>

(* The rows by the request that inserted them *)
RowsOf(c) ==
  {n \in Names : \/ user[n].company = c \/ driver[n].company = c
                 \/ inv[n].company = c  \/ mail[n].company = c
                 \/ sess[n].state # "NONE" /\ user[sess[n].user].company = c}

(* tombstone_company reads the accounts of the company ...                  *)
TakeCompany ==
  /\ purge.at = "next"
  /\ \E c \in purge.batch :
       /\ purge' = [purge EXCEPT !.at = "users", !.batch = @ \ {c}, !.company = c,
                                 !.users = {u \in Names : user[u].company = c}]
       /\ held'  = [held EXCEPT !.companies = @ \cup {c}]
       /\ known' = [known EXCEPT ![c] = RowsOf(c)]
  /\ UNCHANGED <<erasable, req, crashes>>

(* ... writes them, since the read of the drivers flushes ...               *)
ScrubUsers ==
  /\ purge.at = "users"
  /\ held'  = [held EXCEPT !.users = @ \cup purge.users]
  /\ purge' = [purge EXCEPT !.at = "drivers", !.users = {},
                 !.drivers = {<<d, driver[d].version>> :
                                d \in {d \in DriversOf(purge.company) : driver[d].state = "NAMED"}}]
  /\ UNCHANGED <<erasable, req, known, crashes>>

RollBack ==
  /\ purge' = Idle /\ held' = Nothing
  /\ known' = [c \in Names |-> IF c \in held.companies THEN {} ELSE known[c]]

(* ... writes the drivers if none has a new version, or else gives up all   *)
(* companies, and selects the sessions to revoke ...                        *)
LiveSessions(c) ==
  {s \in Names : sess[s].state = "LIVE" /\ user[sess[s].user].company = c}
OpenSessions(c) ==
  {s \in Names : sess[s].state \in {"LIVE", "EXPIRED"} /\ user[sess[s].user].company = c}
ScrubDrivers ==
  /\ purge.at = "drivers"
  /\ \/ (\E x \in purge.drivers : Stale(x[1], x[2])) /\ RollBack
     \/ /\ \A x \in purge.drivers : ~Stale(x[1], x[2])
        /\ held'  = [held EXCEPT !.drivers = @ \cup {x[1] : x \in purge.drivers}]
        /\ purge' = [purge EXCEPT !.at = "sessions", !.drivers = {},
                                  !.sessions = OpenSessions(purge.company)]
        /\ UNCHANGED known
  /\ UNCHANGED <<erasable, req, crashes>>

(* ... one by one, waiting for those that are in use ...                    *)
TakeSession(s) ==
  /\ purge.at = "sessions" /\ s \in purge.sessions
  /\ ~InUse(s)
  /\ purge' = [purge EXCEPT !.sessions = @ \ {s}]
  /\ held'  = [held EXCEPT !.sessions = @ \cup {s}]
  /\ UNCHANGED <<erasable, req, known, crashes>>

(* ... deletes the notices and closes the invitations.                      *)
MailsOf(c) == {m \in Names : mail[m].company = c}
OpenInvitations(c) ==
  {i \in Names : inv[i].company = c /\ inv[i].state \in {"PENDING", "EXPIRED"}}
FinishCompany ==
  LET c == purge.company IN
  /\ purge.at = "sessions" /\ purge.sessions = {}
  /\ held'  = [held EXCEPT !.mails = @ \cup MailsOf(c), !.invs = @ \cup OpenInvitations(c)]
  /\ purge' = [purge EXCEPT !.at = "next", !.company = None]
  /\ UNCHANGED <<erasable, req, known, crashes>>

(* The commit sets deleted_at, so that the companies are not due again, and *)
(* all the rest that was written.                                           *)
NobodyMarked == {}
Marked == held.companies

CommitPurge ==
  /\ purge.at = "next" /\ purge.batch = {}
  /\ company' = [c \in Names |-> IF c \in Marked THEN "DELETED" ELSE company[c]]
  /\ user' = [u \in Names |-> IF u \in held.users
                              THEN [user[u] EXCEPT !.state = "SCRUBBED"] ELSE user[u]]
  /\ driver' = [d \in Names |-> IF d \in held.drivers
                                THEN [driver[d] EXCEPT !.state = "ANONYMOUS", !.version = @ + 1]
                                ELSE driver[d]]
  /\ sess' = [s \in Names |-> IF s \in held.sessions
                              THEN [sess[s] EXCEPT !.state = "REVOKED"] ELSE sess[s]]
  /\ inv' = [i \in Names |-> IF i \in held.invs
                             THEN [inv[i] EXCEPT !.state = "CLOSED"] ELSE inv[i]]
  /\ mail' = [m \in Names |-> IF m \in held.mails THEN NoMail ELSE mail[m]]
  /\ purge' = Idle /\ held' = Nothing
  /\ UNCHANGED <<throttle, req, known, crashes>>

PurgeCrash ==
  /\ purge.at # "idle" /\ crashes < MaxCrashes
  /\ crashes' = crashes + 1
  /\ RollBack
  /\ UNCHANGED <<erasable, req>>

(* A request that holds its session row, which the purge waits for, and     *)
(* waits itself for a row the purge has written: PostgreSQL fails one.      *)
Deadlocked(q) ==
  /\ purge.at = "sessions" /\ req[q].token \in purge.sessions
  /\ \/ /\ req[q].at = "entered" /\ req[q].kind = "INVITE"
        /\ Owner(req[q].who) /\ req[q].who \in held.users
     \/ /\ req[q].at = "loaded" /\ req[q].kind = "CHECK"
        /\ (req[q].who \in held.users \/ req[q].driver.name \in held.drivers)
     \/ /\ req[q].at = "loaded" /\ req[q].kind = "ANONYMIZE"
        /\ req[q].driver.state = "NAMED" /\ req[q].driver.name \in held.drivers

RequestVictim(q) ==
  /\ Deadlocked(q)
  /\ End(q, req[q], "failed")
  /\ UNCHANGED <<erasable, held, purge, known, crashes>>

PurgeVictim ==
  /\ \E q \in Requests : Deadlocked(q)
  /\ RollBack
  /\ UNCHANGED <<erasable, req, crashes>>

-----------------------------------------------------------------------------
others == <<driver, mail, purge, known, crashes>>

Step(r) ==
  \/ (AccountStep(r) /\ UNCHANGED others)
  \/ Hire(r) \/ LoadDriver(r) \/ Check(r) \/ Anonymize(r) \/ RequestDeletion(r)
  \/ RequestVictim(r)

PurgeStep ==
  \/ SelectDue \/ TakeCompany \/ ScrubUsers \/ ScrubDrivers
  \/ \E s \in Names : TakeSession(s)
  \/ FinishCompany \/ CommitPurge \/ PurgeVictim

(* Every request is answered and nothing is due: the only standstill.       *)
Quiet ==
  /\ \A r \in Requests : req[r].at \in Ended
  /\ purge.at = "idle" /\ Due = {}
  /\ UNCHANGED vars

Next ==
  \/ \E r \in Requests : Step(r) \/ ((Arrive(r) \/ Abort(r)) /\ UNCHANGED others)
  \/ (TimePasses /\ UNCHANGED others)
  \/ \E c \in Names : GraceEnds(c)
  \/ \E m \in Names : MailAges(m)
  \/ Prune \/ PurgeStep \/ PurgeCrash
  \/ Quiet

Spec == Init /\ [][Next]_vars

(* The event loop goes on with every request, a row lock is granted in the  *)
(* order of its queue, and the purge is started each night and goes on.     *)
(* Nothing makes a request arrive or time pass.                             *)
Fairness ==
  /\ \A r \in Requests : SF_vars(Step(r))
  /\ WF_vars(PurgeStep)

FairSpec == Spec /\ Fairness

-----------------------------------------------------------------------------
(* Properties *)

(* When a company is marked deleted, everything that the purge found when   *)
(* it took the company up is erased, and stays so: requests that were under *)
(* way have not saved a row from it, and none writes old data back.         *)
DeletionIsThorough ==
  \A c \in Names : company[c] = "DELETED" =>
    \A n \in known[c] :
      /\ user[n].company = c => user[n].state = "SCRUBBED"
      /\ driver[n].company = c => driver[n].state = "ANONYMOUS"
      /\ sess[n].state # "NONE" /\ user[sess[n].user].company = c => sess[n].state = "REVOKED"
      /\ inv[n].company = c => inv[n].state = "CLOSED"
      /\ mail[n].company # c

(* get_tenant_context looks at the account once, without a lock.  Still no  *)
(* request changes data in the name of an account that has been erased      *)
(* meanwhile: the row of its session makes the purge wait, unless somebody  *)
(* logs that session out at the wrong moment.                               *)
LoggedOut(s) == \E q \in Requests : req[q].kind = "LOGOUT" /\ req[q].token = s
ActsForActiveAccount ==
  [][\A r \in Requests :
       /\ req[r].kind \in TenantKinds /\ req'[r].at = "done"
       /\ ~LoggedOut(req[r].token)
       => user[req[r].who].state = "ACTIVE"]_vars

(* Companies whose days of grace are over do not wait for ever to be        *)
(* erased, whatever requests, stale versions, deadlocks and crashes get in  *)
(* the way.                                                                 *)
DeletionCompletes == Due # {} ~> Due = {}

-----------------------------------------------------------------------------
(* What the documentation says and the code does not do *)

(* jobs/dsgvo.py: one tenant's failure cannot roll back another's erasure.  *)
ErasureIsKept ==
  [][\A c \in Names :
       /\ c \in held.companies /\ c # purge.company /\ c \notin held'.companies
       => company'[c] = "DELETED"]_vars

=============================================================================
