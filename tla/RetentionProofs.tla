-------------------------- MODULE RetentionProofs --------------------------
(***************************************************************************)
(* Proofs about Accounts and Retention, for every set of companies, people *)
(* and requests and every number of crashes.                               *)
(***************************************************************************)
EXTENDS Retention, FiniteSetTheorems, TLAPS

-----------------------------------------------------------------------------
(* The inductive invariant of the proofs *)

(* What a request holds in its local variables, by how far it is *)
RequestState(r) ==
  LET q == req[r] IN
  /\ q.at = "idle" => q.kind = "NONE"
  /\ q.at \in {"verify", "good", "bad", "reset", "count"} => q.kind = "LOGIN" /\ q.email \in Emails
  /\ q.at \in {"good", "reset"} => q.who \in Names /\ user[q.who].state # "NONE"
  /\ q.at \in {"resolved", "entered", "loaded"} =>
       /\ q.kind \in TenantKinds /\ q.token \in Names
       /\ sess[q.token].state # "NONE" /\ sess[q.token].user = q.who
  /\ q.at = "loaded" => q.driver.name \in Names /\ driver[q.driver.name].state # "NONE"
  /\ q.at \in {"invited", "created"} => q.kind = "ACCEPT"
  /\ q.at \in Ended => q.kind \notin TenantKinds
  /\ q.kind = "ACCEPT" => q.token \in Names /\ inv[q.token].state # "NONE"
  /\ q.kind = "LOGOUT" => q.at = "done"

(* A row is there when its request has inserted it, and not before. *)
Settled(n) == n \in Requests => req[n].at \in {"created"} \cup Ended
NothingOf(n) ==
  /\ company[n] = "NONE" /\ user[n] = NoAccount /\ inv[n] = NoAccount
  /\ sess[n] = NoSession /\ driver[n] = NoDriver /\ mail[n] = NoMail
RowState(n) ==
  /\ ~Settled(n) => NothingOf(n)
  /\ user[n].state # "NONE" => user[n].email \in Emails /\ user[n].company \in Names
  /\ user[n].state = "NONE" => user[n] = NoAccount
  /\ sess[n].state # "NONE" => sess[n].user \in Names /\ user[sess[n].user].state # "NONE"
  /\ inv[n].state # "NONE" => inv[n].email \in Emails /\ inv[n].company \in Names
  /\ inv[n].state = "NONE" => inv[n] = NoAccount
  /\ driver[n].state # "NONE" => driver[n].company \in Names
  /\ driver[n].state = "NONE" => driver[n] = NoDriver

RowsAreThere ==
  /\ \A r \in Requests : RequestState(r)
  /\ \A n \in Names : RowState(n)

OneAccountPerEmail ==
  \A u, v \in Names :
    user[u].state = "ACTIVE" /\ user[v].state = "ACTIVE" /\ user[u].email = user[v].email
    => u = v

AccountsAsInvited ==
  \A r \in Requests :
    req[r].kind = "ACCEPT" /\ user[r].state # "NONE" => user[r].email = inv[req[r].token].email

FailsAreCounted ==
  /\ \A e \in Emails : throttle[e].fails <= Earlier(e) + Cardinality(Rejected(e))
  /\ \A r \in Requests, e \in Emails :
       req[r].at = "count" /\ req[r].email = e =>
         req[r].throttle.fails <= Earlier(e) + Cardinality(Rejected(e))

(* What the purge has read and written is of the companies it has taken up. *)
Home(s) == user[sess[s].user].company
PurgeState ==
  /\ purge.at = "idle" => held = Nothing
  /\ purge.at # "idle" => \A c \in held.companies \cup purge.batch : company[c] = "DUE"
  /\ purge.at \in {"users", "drivers", "sessions"} => purge.company \in held.companies
  /\ purge.at \notin {"users", "drivers", "sessions"} => purge.company = None
  /\ purge.at # "users" => purge.users = {}
  /\ purge.at # "drivers" => purge.drivers = {}
  /\ purge.at # "sessions" => purge.sessions = {}
  /\ \A u \in held.users : user[u].company \in held.companies
  /\ \A u \in purge.users : user[u].company = purge.company
  /\ \A s \in held.sessions : sess[s].state # "NONE" /\ Home(s) \in held.companies
  /\ \A s \in purge.sessions : sess[s].state # "NONE" /\ Home(s) = purge.company
  /\ \A d \in held.drivers : driver[d].state # "NONE"
  /\ \A x \in purge.drivers : driver[x[1]].state # "NONE"
  /\ \A i \in held.invs : inv[i].state # "NONE"

(* An account that the purge has written keeps no open session but those    *)
(* that the purge has written, too, or is about to.                         *)
Open(s) == sess[s].state \in {"LIVE", "EXPIRED"}
SessionsFollowAccounts ==
  \A s \in Names :
    Open(s) /\ sess[s].user \in held.users =>
      \/ s \in held.sessions
      \/ purge.at = "drivers" /\ Home(s) = purge.company
      \/ purge.at = "sessions" /\ s \in purge.sessions
RevokedForAReason ==
  \A s \in Names :
    sess[s].state = "REVOKED" /\ ~LoggedOut(s) => company[Home(s)] = "DELETED"
InsideIsActive ==
  \A r \in Requests, s, u \in Names :
    Inside(r) /\ req[r].token = s /\ req[r].who = u =>
      /\ s \notin held.sessions
      /\ ~LoggedOut(s) =>
           user[u].state = "ACTIVE" /\ (Open(s) \/ company[user[u].company] = "DELETED")

(* What the purge knows of a company it has taken up is erased, written, or *)
(* still to be written.                                                     *)
Doing(c, steps) == purge.company = c /\ purge.at \in steps
AccountCovered(c, n) ==
  user[n].company = c => n \in held.users \/ (Doing(c, {"users"}) /\ n \in purge.users)
DriverCovered(c, n) ==
  driver[n].company = c =>
    \/ driver[n].state = "ANONYMOUS" \/ n \in held.drivers
    \/ Doing(c, {"users"})
    \/ Doing(c, {"drivers"}) /\ \E x \in purge.drivers : x[1] = n
SessionCovered(c, n) ==
  sess[n].state # "NONE" /\ Home(n) = c =>
    \/ sess[n].state = "REVOKED" \/ n \in held.sessions
    \/ Doing(c, {"users", "drivers"})
    \/ Doing(c, {"sessions"}) /\ n \in purge.sessions
InvitationCovered(c, n) ==
  inv[n].company = c =>
    \/ inv[n].state = "CLOSED" \/ n \in held.invs
    \/ Doing(c, {"users", "drivers", "sessions"})
MailCovered(c, n) ==
  mail[n].company = c => n \in held.mails \/ Doing(c, {"users", "drivers", "sessions"})
Covered(c, n) ==
  /\ AccountCovered(c, n) /\ DriverCovered(c, n) /\ SessionCovered(c, n)
  /\ InvitationCovered(c, n) /\ MailCovered(c, n)
KnownIsCovered == \A c \in held.companies : \A n \in known[c] : Covered(c, n)
KnownIsSettled == \A c \in Names : \A n \in known[c] : Settled(n)

IInv ==
  /\ TypeOK /\ RowsAreThere
  /\ OneAccountPerEmail /\ AccountsAsInvited
  /\ FailsAreCounted /\ LockIsEarned
  /\ PurgeState /\ SessionsFollowAccounts /\ RevokedForAReason /\ InsideIsActive
  /\ KnownIsCovered /\ KnownIsSettled /\ DeletionIsThorough

-----------------------------------------------------------------------------
(* Types *)

LEMMA InitType == Init => TypeOK
  <1>1. ASSUME NEW e \in Emails PROVE Earlier(e) \in Nat
    BY FailsAssumption DEF Earlier
  <1>2. NoRequest \in Request
    BY DEF NoRequest, Request, Steps, Kinds, NoThrottle, Throttle, Unloaded, Loaded
  <1>3. ASSUME Init PROVE AccountsTypeOK
    <2>1. PICK home \in [Guests -> Firms], members \in SUBSET Guests :
            /\ user = [n \in Names |-> CASE n \in Firms   -> Active(n, n)
                                         [] n \in members -> Active(n, home[n])
                                         [] OTHER         -> NoAccount]
            /\ inv  = [n \in Names |-> CASE n \in members -> Closed(n, home[n])
                                         [] n \in Guests \ members -> Pending(n, home[n])
                                         [] OTHER -> NoAccount]
            /\ sess = [n \in Names |-> IF n \in Firms \cup members
                                       THEN LiveSession(n) ELSE NoSession]
      BY <1>3 DEF Init, AccountsInit
    <2>2. user \in [Names -> User]
      BY <2>1, NamesAssumption DEF User, Active, NoAccount, Names, Emails
    <2>3. inv \in [Names -> Invitation]
      BY <2>1, NamesAssumption DEF Invitation, Closed, Pending, NoAccount, Names, Emails
    <2>4. /\ sess \in [Names -> Session]
          /\ \A s \in Names : sess[s].state # "NONE" => sess[s].user \in Names
      BY <2>1 DEF Session, LiveSession, NoSession, Names
    <2>5. throttle \in [Emails -> Throttle]
      BY <1>1, <1>3 DEF Init, AccountsInit, Throttle
    <2>6. req \in [Requests -> Request]
      BY <1>2, <1>3 DEF Init, AccountsInit
    <2>7. company \in [Names -> {"NONE", "LIVE", "REQUESTED", "DUE", "DELETED"}] /\ held \in Held
      BY <1>3 DEF Init, AccountsInit, Held, Nothing
    <2>8. QED
      BY <2>2, <2>3, <2>4, <2>5, <2>6, <2>7 DEF AccountsTypeOK
  <1>4. ASSUME Init
        PROVE  /\ driver \in [Names -> Driver] /\ mail \in [Names -> Mail] /\ purge \in Purge
               /\ known \in [Names -> SUBSET Names] /\ crashes \in 0..MaxCrashes
    BY <1>4, CrashesAssumption
    DEF Init, Driver, NoDriver, Mail, NoMail, Purge, Idle, Names
  <1>5. QED
    BY <1>3, <1>4 DEF TypeOK

LEMMA SentType ==
  ASSUME NEW kind \in Kinds, NEW e \in Emails \cup {None}, NEW t \in Names \cup {None}
  PROVE  Sent(kind, e, t) \in Request
  BY DEF Sent, NoRequest, Request, Steps, NoThrottle, Throttle, Unloaded, Loaded

LEMMA GotoType ==
  ASSUME req \in [Requests -> Request], NEW r \in Requests, NEW q \in Request,
         NEW step \in Steps, Goto(r, q, step)
  PROVE  req' \in [Requests -> Request]
  <1>1. [q EXCEPT !.at = step] \in Request
    BY DEF Request
  <1>2. QED
    BY <1>1 DEF Goto

LEMMA EndType ==
  ASSUME req \in [Requests -> Request], NEW r \in Requests, NEW q \in Request,
         NEW how \in Ended, End(r, q, how)
  PROVE  req' \in [Requests -> Request]
  <1>1. Remembered(q, how) \in Request
    <2>1. q.kind \in Kinds /\ q.email \in Emails \cup {None} /\ q.token \in Names \cup {None}
      BY DEF Request
    <2>2. NoRequest \in Request
      BY DEF NoRequest, Request, Steps, Kinds, NoThrottle, Throttle, Unloaded, Loaded
    <2>3. QED
      BY <2>1, <2>2, SentType DEF Remembered
  <1>2. QED
    BY <1>1, GotoType DEF End, Steps

(* What is known of the local variables of a request *)
LEMMA LocalType ==
  ASSUME TypeOK, NEW r \in Requests
  PROVE  /\ r \in Names /\ None \notin Names /\ None \notin Emails
         /\ req[r] \in Request /\ req[r].at \in Steps /\ req[r].kind \in Kinds
         /\ req[r].email \in Emails \cup {None} /\ req[r].token \in Names \cup {None}
         /\ req[r].who \in Names \cup {None} /\ req[r].throttle \in Throttle
         /\ req[r].driver \in Loaded
  BY NamesAssumption DEF TypeOK, AccountsTypeOK, Names, Emails, Request

LEMMA LoginType ==
  ASSUME TypeOK, NEW r \in Requests, RequestState(r),
         CheckThrottle(r) \/ Verify(r) \/ ReadThrottle(r) \/ RecordFailure(r) \/ StartSession(r)
  PROVE  AccountsTypeOK'
  <1> USE LocalType DEF TypeOK, AccountsTypeOK
  <1>1. CASE CheckThrottle(r)
    BY <1>1, SentType, EndType, GotoType DEF CheckThrottle, Ended, Kinds, Steps
  <1>2. CASE Verify(r)
    <2>1. ASSUME NEW u \in Names PROVE [req[r] EXCEPT !.who = u] \in Request
      BY DEF Request
    <2>2. req' \in [Requests -> Request]
      BY <1>2, <2>1, GotoType DEF Verify, Candidates, AccountsOf, Steps
    <2>3. QED
      BY <1>2, <2>2 DEF Verify
  <1>3. CASE ReadThrottle(r)
    <2>1. PICK step \in {"reset", "count"} :
            Goto(r, [req[r] EXCEPT !.throttle = throttle[req[r].email]], step)
      BY <1>3 DEF ReadThrottle
    <2>2. throttle[req[r].email] \in Throttle
      BY <1>3 DEF ReadThrottle, RequestState
    <2>3. [req[r] EXCEPT !.throttle = throttle[req[r].email]] \in Request
      BY <2>2 DEF Request
    <2>4. QED
      BY <1>3, <2>1, <2>3, GotoType DEF ReadThrottle, Steps
  <1>4. CASE RecordFailure(r)
    <2>1. req' \in [Requests -> Request]
      BY <1>4, EndType DEF RecordFailure, Ended
    <2>2. throttle' \in [Emails -> Throttle]
      <3>1. ASSUME NEW row \in Throttle, NEW n \in Nat, NEW lock \in {"RUNNING", row.lock}
            PROVE  [row |-> TRUE, fails |-> n, lock |-> lock] \in Throttle
        BY DEF Throttle
      <3>2. req[r].throttle.fails + 1 \in Nat /\ req[r].email \in Emails
        BY <1>4 DEF RecordFailure, RequestState, Throttle
      <3>3. throttle[req[r].email] \in Throttle
        BY <3>2
      <3>4. \/ throttle' = throttle
            \/ \E lock \in {"RUNNING", throttle[req[r].email].lock} :
                 throttle' = [throttle EXCEPT ![req[r].email] =
                   [row |-> TRUE, fails |-> req[r].throttle.fails + 1, lock |-> lock]]
        BY <1>4, <3>2 DEF RecordFailure
      <3>5. QED
        BY <3>1, <3>2, <3>3, <3>4
    <2>3. QED
      BY <1>4, <2>1, <2>2 DEF RecordFailure
  <1>5. CASE StartSession(r)
    <2>1. req' \in [Requests -> Request]
      BY <1>5, EndType DEF StartSession, Ended
    <2>2. throttle' \in [Emails -> Throttle]
      <3>1. ASSUME NEW now \in Throttle, NEW was \in Throttle PROVE Reset(now, was) \in Throttle
        BY DEF Reset, Throttle
      <3>2. QED
        BY <1>5, <3>1 DEF StartSession
    <2>3. req[r].who \in Names /\ LiveSession(req[r].who) \in Session
      BY <1>5 DEF StartSession, RequestState, LiveSession, Session
    <2>4. /\ sess' \in [Names -> Session]
          /\ \A s \in Names : sess'[s].state # "NONE" => sess'[s].user \in Names
      BY <1>5, <2>3 DEF StartSession, LiveSession
    <2>5. QED
      BY <1>5, <2>1, <2>2, <2>4 DEF StartSession
  <1>6. QED
    BY <1>1, <1>2, <1>3, <1>4, <1>5

LEMMA SessionStepType ==
  ASSUME TypeOK, NEW r \in Requests, RequestState(r),
         Signup(r) \/ Logout(r) \/ ReadSession(r) \/ Enter(r) \/ Invite(r)
  PROVE  AccountsTypeOK'
  <1> USE LocalType DEF TypeOK, AccountsTypeOK
  <1>1. CASE Signup(r)
    <2>1. PICK e \in Emails : \/ /\ End(r, Sent("SIGNUP", e, None), "refused")
                                 /\ UNCHANGED <<company, user, sess>>
                              \/ /\ company' = [company EXCEPT ![r] = "LIVE"]
                                 /\ user' = [user EXCEPT ![r] = Active(e, r)]
                                 /\ sess' = [sess EXCEPT ![r] = LiveSession(r)]
                                 /\ End(r, Sent("SIGNUP", e, None), "done")
      BY <1>1 DEF Signup
    <2>2. req' \in [Requests -> Request]
      BY <2>1, SentType, EndType DEF Ended, Kinds
    <2>3. Active(e, r) \in User /\ LiveSession(r) \in Session
      BY DEF Active, User, LiveSession, Session
    <2>4. /\ company' \in [Names -> {"NONE", "LIVE", "REQUESTED", "DUE", "DELETED"}]
          /\ user' \in [Names -> User] /\ sess' \in [Names -> Session]
      BY <2>1, <2>3
    <2>5. \A s \in Names : sess'[s].state # "NONE" => sess'[s].user \in Names
      BY <2>1 DEF LiveSession
    <2>6. QED
      BY <1>1, <2>2, <2>4, <2>5 DEF Signup
  <1>2. CASE Logout(r)
    <2>1. PICK s \in Names : /\ sess[s].state # "NONE"
                             /\ sess' = [sess EXCEPT ![s].state = "REVOKED"]
                             /\ End(r, Sent("LOGOUT", None, s), "done")
      BY <1>2 DEF Logout
    <2>2. req' \in [Requests -> Request]
      BY <2>1, SentType, EndType DEF Ended, Kinds
    <2>3. /\ sess' \in [Names -> Session]
          /\ \A n \in Names : sess'[n].state # "NONE" => sess'[n].user \in Names
      BY <2>1 DEF Session
    <2>4. QED
      BY <1>2, <2>2, <2>3 DEF Logout
  <1>3. CASE ReadSession(r)
    <2>1. PICK kind \in TenantKinds, s \in Names :
            \/ /\ sess[s].state = "LIVE"
               /\ Goto(r, [Sent(kind, None, s) EXCEPT !.who = sess[s].user], "resolved")
            \/ End(r, Sent(kind, None, s), "refused")
      BY <1>3 DEF ReadSession
    <2>2. Sent(kind, None, s) \in Request
      BY SentType DEF Kinds
    <2>3. sess[s].state = "LIVE" => [Sent(kind, None, s) EXCEPT !.who = sess[s].user] \in Request
      BY <2>2 DEF Request
    <2>4. req' \in [Requests -> Request]
      BY <2>1, <2>2, <2>3, EndType, GotoType DEF Ended, Steps
    <2>5. QED
      BY <1>3, <2>4 DEF ReadSession
  <1>4. CASE Enter(r)
    BY <1>4, EndType, GotoType DEF Enter, LastSeenOnly, Ended, Steps
  <1>5. CASE Invite(r)
    <2>1. req' \in [Requests -> Request]
      BY <1>5, EndType DEF Invite, Ended
    <2>2. inv' \in [Names -> Invitation]
      <3>1. req[r].who \in Names
        BY <1>5 DEF Invite, RequestState
      <3>2. ASSUME NEW e \in Emails PROVE Pending(e, user[req[r].who].company) \in Invitation
        BY <3>1 DEF Pending, Invitation, User
      <3>3. QED
        BY <1>5, <3>2 DEF Invite
    <2>3. QED
      BY <1>5, <2>1, <2>2 DEF Invite
  <1>6. QED
    BY <1>1, <1>2, <1>3, <1>4, <1>5

LEMMA AcceptType ==
  ASSUME TypeOK, NEW r \in Requests, RequestState(r),
         ReadInvitation(r) \/ CreateAccount(r) \/ NewSession(r) \/ Abort(r)
  PROVE  AccountsTypeOK'
  <1> USE LocalType DEF TypeOK, AccountsTypeOK
  <1>1. CASE ReadInvitation(r)
    BY <1>1, SentType, EndType, GotoType DEF ReadInvitation, Ended, Kinds, Steps
  <1>2. CASE CreateAccount(r)
    <2>1. req[r].token \in Names
      BY <1>2 DEF CreateAccount, RequestState
    <2>2. req' \in [Requests -> Request]
      BY <1>2, EndType, GotoType DEF CreateAccount, Ended, Steps
    <2>3. Active(inv[req[r].token].email, inv[req[r].token].company) \in User
      BY <2>1 DEF Active, User, Invitation
    <2>4. user' \in [Names -> User]
      BY <1>2, <2>3 DEF CreateAccount
    <2>5. inv' \in [Names -> Invitation]
      <3>1. ASSUME NEW i \in Invitation PROVE [i EXCEPT !.state = "CLOSED"] \in Invitation
        BY DEF Invitation
      <3>2. inv[req[r].token] \in Invitation
        BY <2>1
      <3>3. QED
        BY <1>2, <2>1, <3>1, <3>2 DEF CreateAccount
    <2>6. QED
      BY <1>2, <2>2, <2>4, <2>5 DEF CreateAccount
  <1>3. CASE NewSession(r)
    BY <1>3, EndType DEF NewSession, Ended
  <1>4. CASE Abort(r)
    BY <1>4, EndType DEF Abort, Ended
  <1>5. QED
    BY <1>1, <1>2, <1>3, <1>4

(* Erasure and revocation keep the types of the rows. *)
LEMMA ErasedRowType ==
  /\ \A d \in Driver : [d EXCEPT !.state = "ANONYMOUS", !.version = @ + 1] \in Driver
  /\ \A u \in User : [u EXCEPT !.state = "SCRUBBED"] \in User
  /\ \A s \in Session : [s EXCEPT !.state = "REVOKED"] \in Session
  /\ \A i \in Invitation : [i EXCEPT !.state = "CLOSED"] \in Invitation
  <1>1. ASSUME NEW d \in Driver
        PROVE  [d EXCEPT !.state = "ANONYMOUS", !.version = @ + 1] \in Driver
    <2>1. d.version + 1 \in Nat
      BY DEF Driver
    <2>2. QED
      BY <2>1 DEF Driver
  <1>2. ASSUME NEW u \in User PROVE [u EXCEPT !.state = "SCRUBBED"] \in User
    BY DEF User
  <1>3. ASSUME NEW s \in Session PROVE [s EXCEPT !.state = "REVOKED"] \in Session
    BY DEF Session
  <1>4. ASSUME NEW i \in Invitation PROVE [i EXCEPT !.state = "CLOSED"] \in Invitation
    BY DEF Invitation
  <1>5. QED
    BY <1>1, <1>2, <1>3, <1>4

LEMMA ErasedFields ==
  /\ \A d \in Driver : /\ [d EXCEPT !.state = "ANONYMOUS", !.version = @ + 1].state = "ANONYMOUS"
                      /\ [d EXCEPT !.state = "ANONYMOUS", !.version = @ + 1].company = d.company
  /\ \A u \in User : /\ [u EXCEPT !.state = "SCRUBBED"].state = "SCRUBBED"
                    /\ [u EXCEPT !.state = "SCRUBBED"].company = u.company
                    /\ [u EXCEPT !.state = "SCRUBBED"].email = u.email
  /\ \A s \in Session : /\ [s EXCEPT !.state = "REVOKED"].state = "REVOKED"
                       /\ [s EXCEPT !.state = "REVOKED"].user = s.user
  /\ \A i \in Invitation : /\ [i EXCEPT !.state = "CLOSED"].state = "CLOSED"
                          /\ [i EXCEPT !.state = "CLOSED"].company = i.company
                          /\ [i EXCEPT !.state = "CLOSED"].email = i.email
  BY DEF Driver, User, Session, Invitation

(* What a check leaves of the drivers: only the version of its own one changes. *)
CheckKeeps(r) ==
  \A n \in Names : /\ driver'[n].state = driver[n].state
                   /\ driver'[n].company = driver[n].company
                   /\ n # req[r].driver.name => driver'[n] = driver[n]

(* A check writes the version of its driver and its own notice, if anything. *)
LEMMA CheckWrites ==
  ASSUME TypeOK, NEW r \in Requests, RequestState(r), Check(r)
  PROVE  /\ req[r].driver.name \in Names
         /\ CheckKeeps(r)
         /\ driver' \in [Names -> Driver]
         /\ \E m \in Mail : mail' = mail \/ mail' = [mail EXCEPT ![r] = m]
  <1> DEFINE d == req[r].driver.name
  <1> USE DEF TypeOK
  <1>1. d \in Names /\ driver[d] \in Driver
    BY DEF Check, RequestState
  <1>2. [state |-> "NEW", company |-> driver[d].company] \in Mail
    BY <1>1 DEF Driver, Mail
  <1> DEFINE Versioned(v) == [driver[d] EXCEPT !.version = v]
  <1>3. \/ driver' = driver
        \/ \E v \in Nat : driver' = [driver EXCEPT ![d] = Versioned(v)]
    <2>1. driver[d].version \in Nat /\ driver[d].version + 1 \in Nat
      BY <1>1 DEF Driver
    <2>2. ASSUME NEW outcome \in {"lock", "unlock", "leave"},
                 driver' = [driver EXCEPT ![d].version = IF outcome = "leave" THEN @ ELSE @ + 1]
          PROVE  \E v \in Nat : driver' = [driver EXCEPT ![d] = Versioned(v)]
      <3>1. CASE outcome = "leave"
        <4>1. driver' = [driver EXCEPT ![d] = Versioned(driver[d].version)]
          BY <2>2, <3>1
        <4>2. QED
          BY <2>1, <4>1
      <3>2. CASE outcome # "leave"
        <4>1. driver' = [driver EXCEPT ![d] = Versioned(driver[d].version + 1)]
          BY <2>2, <3>2
        <4>2. QED
          BY <2>1, <4>1
      <3>3. QED
        BY <3>1, <3>2
    <2> HIDE DEF Versioned
    <2>3. QED
      BY <2>2 DEF Check
  <1>4. ASSUME NEW v \in Nat
        PROVE  Versioned(v) \in Driver /\ Versioned(v).state = driver[d].state
               /\ Versioned(v).company = driver[d].company
    BY <1>1 DEF Driver
  <1> HIDE DEF Versioned
  <1>5. driver' \in [Names -> Driver]
    BY <1>1, <1>3, <1>4
  <1>6. CheckKeeps(r)
    <2>1. CASE driver' = driver
      BY <2>1 DEF CheckKeeps
    <2>2. ASSUME NEW v \in Nat, driver' = [driver EXCEPT ![d] = Versioned(v)]
          PROVE  CheckKeeps(r)
      BY <1>1, <1>4, <2>2 DEF CheckKeeps
    <2>3. QED
      BY <1>3, <2>1, <2>2
  <1>7. \E m \in Mail : mail' = mail \/ mail' = [mail EXCEPT ![r] = m]
    BY <1>2 DEF Check
  <1>8. QED
    BY <1>1, <1>5, <1>6, <1>7

LEMMA TenantType ==
  ASSUME TypeOK, NEW r \in Requests, RequestState(r),
         \/ Hire(r) \/ LoadDriver(r) \/ Check(r) \/ Anonymize(r) \/ RequestDeletion(r)
         \/ RequestVictim(r)
  PROVE  TypeOK'
  <1> USE LocalType DEF TypeOK, AccountsTypeOK, accounts, erasable
  <1>0. ASSUME NEW how \in Ended, End(r, req[r], how)
        PROVE  req' \in [Requests -> Request]
    BY <1>0, EndType
  <1>1. CASE Hire(r)
    <2>1. req' \in [Requests -> Request]
      BY <1>0, <1>1 DEF Hire, Ended
    <2>2. Tenant(r) \in Names \cup {None}
      BY <1>1 DEF Hire, RequestState, Tenant, User
    <2>3. [state |-> "NAMED", company |-> Tenant(r), version |-> 1] \in Driver
      BY <2>2 DEF Driver
    <2>4. driver' \in [Names -> Driver]
      BY <1>1, <2>3 DEF Hire
    <2>5. QED
      BY <1>1, <2>1, <2>4 DEF Hire
  <1>2. CASE LoadDriver(r)
    <2>1. ASSUME NEW d \in Names
          PROVE  [req[r] EXCEPT !.driver = [name |-> d, state |-> driver[d].state,
                                            version |-> driver[d].version]] \in Request
      <3>1. [name |-> d, state |-> driver[d].state, version |-> driver[d].version] \in Loaded
        BY DEF Driver, Loaded
      <3>2. QED
        BY <3>1 DEF Request
    <2>2. req' \in [Requests -> Request]
      <3>1. CASE End(r, req[r], "refused")
        BY <1>0, <3>1 DEF Ended
      <3>2. CASE \E d \in Names :
                   Goto(r, [req[r] EXCEPT !.driver = [name |-> d, state |-> driver[d].state,
                                                      version |-> driver[d].version]], "loaded")
        BY <2>1, <3>2, GotoType DEF Steps
      <3>3. QED
        BY <1>2, <3>1, <3>2 DEF LoadDriver, DriversOf
    <2>3. QED
      BY <1>2, <2>2 DEF LoadDriver
  <1>3. CASE Check(r)
    <2>1. req' \in [Requests -> Request]
      BY <1>0, <1>3 DEF Check, Ended
    <2>2. PICK m \in Mail : mail' = mail \/ mail' = [mail EXCEPT ![r] = m]
      BY <1>3, CheckWrites
    <2>3. driver' \in [Names -> Driver]
      BY <1>3, CheckWrites
    <2>4. QED
      BY <1>3, <2>1, <2>2, <2>3 DEF Check
  <1>4. CASE Anonymize(r)
    <2>1. req' \in [Requests -> Request]
      BY <1>0, <1>4 DEF Anonymize, Ended
    <2>2. req[r].driver.name \in Names /\ driver[req[r].driver.name] \in Driver
      BY <1>4 DEF Anonymize, RequestState
    <2>3. driver' \in [Names -> Driver]
      <3>1. [driver[req[r].driver.name] EXCEPT !.state = "ANONYMOUS", !.version = @ + 1] \in Driver
        BY <2>2, ErasedRowType
      <3>2. \/ driver' = driver
            \/ driver' = [driver EXCEPT ![req[r].driver.name] =
                 [driver[req[r].driver.name] EXCEPT !.state = "ANONYMOUS", !.version = @ + 1]]
        BY <1>4, <2>2 DEF Anonymize, Driver
      <3>3. QED
        BY <3>1, <3>2
    <2>4. QED
      BY <1>4, <2>1, <2>3 DEF Anonymize
  <1>5. CASE RequestDeletion(r)
    <2>1. req' \in [Requests -> Request]
      BY <1>0, <1>5 DEF RequestDeletion, Ended
    <2>2. QED
      BY <1>5, <2>1 DEF RequestDeletion
  <1>6. CASE RequestVictim(r)
    <2>1. req' \in [Requests -> Request]
      BY <1>0, <1>6 DEF RequestVictim, Ended
    <2>2. QED
      BY <1>6, <2>1 DEF RequestVictim
  <1>7. QED
    BY <1>1, <1>2, <1>3, <1>4, <1>5, <1>6

LEMMA TimeType ==
  ASSUME TypeOK
  PROVE  /\ TimePasses => AccountsTypeOK'
         /\ \A c \in Names : GraceEnds(c) => TypeOK'
         /\ \A m \in Names : MailAges(m) => TypeOK'
  <1> USE DEF TypeOK, AccountsTypeOK, accounts
  <1>1. ASSUME NEW s \in Names, SessionExpires(s) PROVE AccountsTypeOK'
    BY <1>1 DEF SessionExpires, Session
  <1>2. ASSUME NEW i \in Names, InvitationExpires(i) PROVE AccountsTypeOK'
    BY <1>2 DEF InvitationExpires, Invitation
  <1>3. ASSUME NEW e \in Emails, LockEnds(e) PROVE AccountsTypeOK'
    BY <1>3 DEF LockEnds, Throttle
  <1>4. ASSUME NEW c \in Names, GraceEnds(c) PROVE TypeOK'
    BY <1>4 DEF GraceEnds
  <1>5. ASSUME NEW m \in Names, MailAges(m) PROVE TypeOK'
    BY <1>5 DEF MailAges, Mail
  <1>6. QED
    BY <1>1, <1>2, <1>3, <1>4, <1>5 DEF TimePasses

LEMMA IdleType == Idle \in Purge /\ Nothing \in Held
  BY DEF Idle, Purge, Nothing, Held

LEMMA RollBackType ==
  ASSUME TypeOK, RollBack, UNCHANGED <<erasable, req>>, crashes' \in 0..MaxCrashes
  PROVE  TypeOK'
  BY IdleType DEF TypeOK, AccountsTypeOK, RollBack, accounts, erasable

LEMMA PurgeType ==
  ASSUME TypeOK, PurgeState, PurgeStep \/ Prune \/ PurgeCrash
  PROVE  TypeOK'
  <1> USE IdleType DEF TypeOK, AccountsTypeOK, accounts, erasable
  <1>0. /\ purge.batch \subseteq Names /\ purge.users \subseteq Names /\ purge.sessions \subseteq Names
        /\ purge.drivers \subseteq Names \X Nat /\ purge.company \in Names \cup {None}
        /\ held.companies \subseteq Names /\ held.users \subseteq Names /\ held.drivers \subseteq Names
        /\ held.sessions \subseteq Names /\ held.invs \subseteq Names /\ held.mails \subseteq Names
    BY DEF Purge, Held
  <1>1. CASE Prune
    BY <1>1 DEF Prune, NoMail, Mail
  <1>2. CASE SelectDue
    BY <1>2 DEF SelectDue, Idle, Purge, Due
  <1>3. CASE TakeCompany
    <2>1. \A c \in Names : RowsOf(c) \subseteq Names
      BY DEF RowsOf
    <2>2. PICK c \in purge.batch :
            /\ purge' = [purge EXCEPT !.at = "users", !.batch = @ \ {c}, !.company = c,
                                      !.users = {u \in Names : user[u].company = c}]
            /\ held'  = [held EXCEPT !.companies = @ \cup {c}]
            /\ known' = [known EXCEPT ![c] = RowsOf(c)]
      BY <1>3 DEF TakeCompany
    <2>3. purge' \in Purge
      BY <1>0, <2>2 DEF Purge
    <2>4. held' \in Held
      BY <1>0, <2>2 DEF Held
    <2>5. known' \in [Names -> SUBSET Names]
      BY <1>0, <2>1, <2>2
    <2>6. QED
      BY <1>3, <2>3, <2>4, <2>5 DEF TakeCompany
  <1>4. CASE ScrubUsers
    <2>1. {<<d, driver[d].version>> :
             d \in {d \in DriversOf(purge.company) : driver[d].state = "NAMED"}} \subseteq Names \X Nat
      BY DEF DriversOf, Driver
    <2>2. purge' \in Purge
      BY <1>4, <2>1 DEF ScrubUsers, Purge
    <2>3. held' \in Held
      BY <1>0, <1>4 DEF ScrubUsers, Held
    <2>4. QED
      BY <1>4, <2>2, <2>3 DEF ScrubUsers
  <1>5. CASE ScrubDrivers
    <2>1. CASE RollBack
      BY <1>5, <2>1, RollBackType DEF ScrubDrivers
    <2>2. CASE ~RollBack
      <3>1. {x[1] : x \in purge.drivers} \subseteq Names
        BY <1>0
      <3>2. held' \in Held
        BY <1>0, <1>5, <2>2, <3>1 DEF ScrubDrivers, Held
      <3>3. OpenSessions(purge.company) \subseteq Names
        BY DEF OpenSessions
      <3>4. purge' = [purge EXCEPT !.at = "sessions", !.drivers = {},
                                   !.sessions = OpenSessions(purge.company)]
        BY <1>5, <2>2 DEF ScrubDrivers
      <3>5. purge' \in Purge
        BY <3>3, <3>4 DEF Purge
      <3>6. QED
        BY <1>5, <2>2, <3>2, <3>5 DEF ScrubDrivers
    <2>3. QED
      BY <2>1, <2>2
  <1>6. ASSUME NEW s \in Names, TakeSession(s) PROVE TypeOK'
    <2>1. purge' \in Purge
      BY <1>0, <1>6 DEF TakeSession, Purge
    <2>2. held' \in Held
      BY <1>0, <1>6 DEF TakeSession, Held
    <2>3. QED
      BY <1>6, <2>1, <2>2 DEF TakeSession
  <1>7. CASE FinishCompany
    <2>1. purge' \in Purge
      BY <1>7 DEF FinishCompany, Purge
    <2>2. held' \in Held
      BY <1>0, <1>7 DEF FinishCompany, Held, MailsOf, OpenInvitations
    <2>3. QED
      BY <1>7, <2>1, <2>2 DEF FinishCompany
  <1>8. CASE CommitPurge
    <2>1. user' \in [Names -> User]
      BY <1>8, ErasedRowType DEF CommitPurge
    <2>2. driver' \in [Names -> Driver]
      BY <1>8, ErasedRowType DEF CommitPurge
    <2>3. /\ sess' \in [Names -> Session]
          /\ \A s \in Names : sess'[s].state # "NONE" => sess'[s].user \in Names
      <3>1. \A s \in Names : sess'[s] = IF s \in held.sessions
                                         THEN [sess[s] EXCEPT !.state = "REVOKED"] ELSE sess[s]
        BY <1>8 DEF CommitPurge
      <3>2. \A s \in held.sessions : sess[s].state # "NONE"
        BY DEF PurgeState
      <3>3. sess' \in [Names -> Session]
        BY <1>8, ErasedRowType DEF CommitPurge
      <3>4. ASSUME NEW s \in Names, sess'[s].state # "NONE"
            PROVE  sess[s].state # "NONE" /\ sess'[s].user = sess[s].user
        <4>1. CASE s \in held.sessions
          <5>1. sess'[s] = [sess[s] EXCEPT !.state = "REVOKED"] /\ sess[s] \in Session
            BY <3>1, <4>1
          <5>2. QED
            BY <3>2, <4>1, <5>1 DEF Session
        <4>2. CASE s \notin held.sessions
          BY <3>1, <3>4, <4>2
        <4>3. QED
          BY <4>1, <4>2
      <3>5. QED
        BY <3>3, <3>4
    <2>4. inv' \in [Names -> Invitation] /\ mail' \in [Names -> Mail]
      <3>1. inv' \in [Names -> Invitation]
        BY <1>8, ErasedRowType DEF CommitPurge
      <3>2. NoMail \in Mail
        BY DEF NoMail, Mail
      <3>3. mail' \in [Names -> Mail]
        BY <1>8, <3>2 DEF CommitPurge
      <3>4. QED
        BY <3>1, <3>3
    <2>5. company' \in [Names -> {"NONE", "LIVE", "REQUESTED", "DUE", "DELETED"}]
      BY <1>8 DEF CommitPurge
    <2>6. QED
      BY <1>8, <2>1, <2>2, <2>3, <2>4, <2>5 DEF CommitPurge
  <1>9. CASE PurgeCrash
    BY <1>9, RollBackType, CrashesAssumption DEF PurgeCrash
  <1>10. CASE PurgeVictim
    BY <1>10, RollBackType DEF PurgeVictim
  <1>11. QED
    BY <1>1, <1>2, <1>3, <1>4, <1>5, <1>6, <1>7, <1>8, <1>9, <1>10 DEF PurgeStep

-----------------------------------------------------------------------------
(* Frames: what a step leaves as it was *)

(* No step takes more from the rows of others than this. *)
Kept(n) ==
  /\ company[n] \in {"NONE", "DELETED"} => company'[n] = company[n]
  /\ company[n] = "DUE" => company'[n] \in {"DUE", "DELETED"}
  /\ user[n].state = "NONE" => user'[n] = user[n]
  /\ user[n].state # "NONE" =>
       /\ user'[n].company = user[n].company /\ user'[n].email = user[n].email
       /\ user'[n].state # "NONE" /\ (user'[n].state = "ACTIVE" => user[n].state = "ACTIVE")
  /\ inv[n].state = "NONE" => inv'[n] = inv[n]
  /\ inv[n].state # "NONE" =>
       /\ inv'[n].company = inv[n].company /\ inv'[n].email = inv[n].email
       /\ inv'[n].state # "NONE" /\ (inv[n].state = "CLOSED" => inv'[n].state = "CLOSED")
  /\ sess[n].state = "NONE" => sess'[n] = sess[n]
  /\ sess[n].state # "NONE" =>
       /\ sess'[n].user = sess[n].user
       /\ sess'[n].state # "NONE" /\ (sess[n].state = "REVOKED" => sess'[n].state = "REVOKED")
  /\ driver[n].state = "NONE" => driver'[n] = driver[n]
  /\ driver[n].state # "NONE" =>
       /\ driver'[n].company = driver[n].company
       /\ driver'[n].state # "NONE"
       /\ driver[n].state = "ANONYMOUS" => driver'[n].state = "ANONYMOUS"
  /\ mail[n] = NoMail => mail'[n] = NoMail
  /\ mail'[n].company \in {mail[n].company, None}

LEMMA GotoFields ==
  ASSUME req \in [Requests -> Request], NEW r \in Requests, NEW q \in Request,
         NEW step \in Steps, Goto(r, q, step)
  PROVE  /\ req'[r].at = step /\ req'[r].kind = q.kind /\ req'[r].email = q.email
         /\ req'[r].token = q.token /\ req'[r].who = q.who
         /\ req'[r].throttle = q.throttle /\ req'[r].driver = q.driver
         /\ \A p \in Requests \ {r} : req'[p] = req[p]
  BY DEF Goto, Request

LEMMA SentFields ==
  ASSUME NEW kind, NEW e, NEW t
  PROVE  /\ Sent(kind, e, t).kind = kind /\ Sent(kind, e, t).email = e /\ Sent(kind, e, t).token = t
  BY DEF Sent, NoRequest

LEMMA EndFields ==
  ASSUME req \in [Requests -> Request], NEW r \in Requests, NEW q \in Request,
         NEW how \in Ended, End(r, q, how)
  PROVE  /\ req'[r].at = how /\ req'[r].kind \in {q.kind, "NONE"}
         /\ req'[r].kind # "NONE" => req'[r].token = q.token /\ req'[r].email = q.email
         /\ req'[r].kind \notin TenantKinds
         /\ req'[r].kind = "LOGOUT" => how = "done"
         /\ q.kind = "LOGOUT" /\ how = "done" => req'[r].kind = "LOGOUT"
         /\ q.kind = "LOGIN" /\ how = "rejected" => req'[r].kind = "LOGIN"
         /\ \A p \in Requests \ {r} : req'[p] = req[p]
  <1> DEFINE m == Remembered(q, how)
  <1>1. m \in Request /\ Goto(r, m, how)
    <2>1. q.kind \in Kinds /\ q.email \in Emails \cup {None} /\ q.token \in Names \cup {None}
      BY DEF Request
    <2>2. NoRequest \in Request
      BY DEF NoRequest, Request, Steps, Kinds, NoThrottle, Throttle, Unloaded, Loaded
    <2>3. Sent(q.kind, q.email, q.token) \in Request
      BY <2>1, SentType
    <2>4. QED
      BY <2>2, <2>3 DEF End, Remembered
  <1>2. \/ /\ \/ q.kind = "LOGIN" /\ how = "rejected"
              \/ q.kind = "LOGOUT" /\ how = "done"
              \/ q.kind = "ACCEPT"
           /\ m.kind = q.kind /\ m.token = q.token /\ m.email = q.email
        \/ /\ ~(q.kind = "LOGIN" /\ how = "rejected") /\ ~(q.kind = "LOGOUT" /\ how = "done")
           /\ m.kind = "NONE"
    <2>1. CASE \/ q.kind = "LOGIN" /\ how = "rejected"
               \/ q.kind = "LOGOUT" /\ how = "done"
               \/ q.kind = "ACCEPT"
      <3>1. m = Sent(q.kind, q.email, q.token)
        BY <2>1 DEF Remembered
      <3>2. QED
        BY <2>1, <3>1, SentFields
    <2>2. CASE ~(\/ q.kind = "LOGIN" /\ how = "rejected"
                 \/ q.kind = "LOGOUT" /\ how = "done"
                 \/ q.kind = "ACCEPT")
      <3>1. m = NoRequest
        BY <2>2 DEF Remembered
      <3>2. QED
        BY <2>2, <3>1 DEF NoRequest
    <2>3. QED
      BY <2>1, <2>2
  <1> HIDE DEF m
  <1>3. /\ req'[r].at = how /\ req'[r].kind = m.kind /\ req'[r].email = m.email
        /\ req'[r].token = m.token /\ \A p \in Requests \ {r} : req'[p] = req[p]
    BY <1>1, GotoFields DEF Steps
  <1>4. QED
    BY <1>2, <1>3 DEF TenantKinds

(* An answered request holds nothing. *)
LEMMA EndState ==
  ASSUME TypeOK, NEW r \in Requests, NEW q \in Request, NEW how \in Ended, End(r, q, how),
         q.kind = "ACCEPT" => q.token \in Names /\ inv'[q.token].state # "NONE"
  PROVE  RequestState(r)'
  BY EndFields DEF TypeOK, AccountsTypeOK, RequestState, Ended

(* What a step of request r leaves, and what it may have added *)
Frame(r) ==
  /\ req[r].at \notin Ended
  /\ \A p \in Requests \ {r} : req'[p] = req[p]
  /\ \A n \in Names : (n # r \/ Settled(r)) => Kept(n)
  /\ Settled(r) => Settled(r)'
  /\ RequestState(r)' /\ RowState(r)'

LEMMA SameRows ==
  ASSUME UNCHANGED erasable, NEW n \in Names
  PROVE  Kept(n)
  BY DEF erasable, accounts, Kept

LEMMA QuietFrame ==
  ASSUME TypeOK, RowsAreThere, NEW r \in Requests, UNCHANGED <<company, user, inv, sess, driver, mail>>,
         req[r].at \notin Ended, \A p \in Requests \ {r} : req'[p] = req[p],
         RequestState(r)', Settled(r) => Settled(r)'
  PROVE  Frame(r)
  <1>1. \A n \in Names : Kept(n)
    BY DEF Kept
  <1>2. RowState(r)' 
    BY LocalType DEF RowsAreThere, RowState, NothingOf
  <1>3. QED
    BY <1>1, <1>2 DEF Frame

LEMMA LoginFrame ==
  ASSUME TypeOK, RowsAreThere, NEW r \in Requests, UNCHANGED others,
         CheckThrottle(r) \/ Verify(r) \/ ReadThrottle(r) \/ RecordFailure(r) \/ StartSession(r)
  PROVE  Frame(r)
  <1> USE LocalType DEF TypeOK, AccountsTypeOK, others
  <1>0. RequestState(r) /\ req \in [Requests -> Request] /\ NoRequest.kind = "NONE"
    BY DEF RowsAreThere, NoRequest
  <1>1. CASE CheckThrottle(r)
    <2>1. PICK e \in Emails : \/ End(r, Sent("LOGIN", e, None), "refused")
                              \/ Goto(r, Sent("LOGIN", e, None), "verify")
      BY <1>1 DEF CheckThrottle
    <2>2. Sent("LOGIN", e, None) \in Request
      BY SentType DEF Kinds
    <2>3. RequestState(r)' /\ \A p \in Requests \ {r} : req'[p] = req[p]
      <3>1. CASE End(r, Sent("LOGIN", e, None), "refused")
        BY <3>1, <2>2, EndFields, EndState, SentFields DEF Ended
      <3>2. CASE Goto(r, Sent("LOGIN", e, None), "verify")
        BY <3>2, <2>2, GotoFields, SentFields DEF Steps, RequestState, Ended
      <3>3. QED
        BY <2>1, <3>1, <3>2
    <2>4. QED
      BY <1>1, <2>3, QuietFrame DEF CheckThrottle, Ended, Settled
  <1>2. CASE Verify(r)
    <2>1. RequestState(r)' /\ \A p \in Requests \ {r} : req'[p] = req[p]
      <3>1. ASSUME NEW u \in AccountsOf(req[r].email), Goto(r, [req[r] EXCEPT !.who = u], "good")
            PROVE  RequestState(r)' /\ \A p \in Requests \ {r} : req'[p] = req[p]
        <4>1. u \in Names /\ user[u].state = "ACTIVE"
          BY DEF AccountsOf
        <4> DEFINE q == [req[r] EXCEPT !.who = u]
        <4>2. /\ q \in Request /\ Goto(r, q, "good")
              /\ q.who = u /\ q.kind = req[r].kind /\ q.email = req[r].email
          BY <3>1, <4>1 DEF Request
        <4> HIDE DEF q
        <4>3. /\ req'[r].at = "good" /\ req'[r].who = u /\ req'[r].kind = req[r].kind
              /\ req'[r].email = req[r].email /\ \A p \in Requests \ {r} : req'[p] = req[p]
          BY <1>0, <4>2, GotoFields DEF Steps
        <4>4. req[r].kind = "LOGIN" /\ req[r].email \in Emails /\ user' = user
          BY <1>0, <1>2 DEF Verify, RequestState
        <4>5. QED
          BY <4>1, <4>3, <4>4 DEF RequestState, Ended
      <3>2. CASE Goto(r, req[r], "bad")
        BY <1>0, <1>2, <3>2, GotoFields DEF Verify, Steps, RequestState, Ended
      <3>3. QED
        BY <1>2, <3>1, <3>2 DEF Verify, Candidates
    <2>2. QED
      BY <1>2, <2>1, QuietFrame DEF Verify, Ended, Settled
  <1>3. CASE ReadThrottle(r)
    <2>1. PICK step \in {"reset", "count"} :
            /\ Goto(r, [req[r] EXCEPT !.throttle = throttle[req[r].email]], step)
            /\ step = "reset" => req[r].at = "good"
      BY <1>3 DEF ReadThrottle
    <2> DEFINE q == [req[r] EXCEPT !.throttle = throttle[req[r].email]]
    <2>2. /\ q \in Request /\ Goto(r, q, step)
          /\ q.who = req[r].who /\ q.kind = req[r].kind /\ q.email = req[r].email
      BY <1>0, <2>1, <1>3 DEF ReadThrottle, RequestState, Request
    <2> HIDE DEF q
    <2>3. /\ req'[r].at = step /\ req'[r].who = req[r].who /\ req'[r].kind = req[r].kind
          /\ req'[r].email = req[r].email /\ \A p \in Requests \ {r} : req'[p] = req[p]
      BY <1>0, <2>2, GotoFields DEF Steps
    <2>4. /\ req[r].kind = "LOGIN" /\ req[r].email \in Emails /\ user' = user
          /\ step = "reset" => req[r].who \in Names /\ user[req[r].who].state # "NONE"
      BY <1>0, <1>3, <2>1 DEF ReadThrottle, RequestState
    <2>5. RequestState(r)'
      BY <2>3, <2>4 DEF RequestState, Ended
    <2>6. QED
      BY <1>3, <2>3, <2>5, QuietFrame DEF ReadThrottle, Ended, Settled
  <1>4. CASE RecordFailure(r)
    <2>1. PICK how \in {"failed", "rejected"} : End(r, req[r], how)
      BY <1>4 DEF RecordFailure
    <2>2. RequestState(r)' /\ \A p \in Requests \ {r} : req'[p] = req[p]
      BY <1>0, <1>4, <2>1, EndFields, EndState DEF RecordFailure, RequestState, Ended
    <2>3. QED
      BY <1>4, <2>2, QuietFrame DEF RecordFailure, Ended, Settled
  <1>5. CASE StartSession(r)
    <2>1. End(r, req[r], "done") /\ sess' = [sess EXCEPT ![r] = LiveSession(req[r].who)]
      BY <1>5 DEF StartSession
    <2>2. /\ RequestState(r)' /\ \A p \in Requests \ {r} : req'[p] = req[p]
          /\ req'[r].at = "done"
      BY <1>0, <1>5, <2>1, EndFields, EndState DEF StartSession, RequestState, Ended
    <2>3. ~Settled(r) /\ NothingOf(r) /\ req[r].at \notin Ended
      BY <1>5 DEF StartSession, Settled, Ended, RowsAreThere, RowState
    <2>4. \A n \in Names : n # r => Kept(n)
      BY <1>5, <2>1 DEF StartSession, Kept
    <2>5. RowState(r)'
      BY <1>0, <1>5, <2>1, <2>2, <2>3
      DEF StartSession, RowState, RowsAreThere, RequestState, LiveSession, NothingOf, Settled, Ended,
          NoAccount, NoDriver
    <2>6. QED
      BY <2>2, <2>3, <2>4, <2>5 DEF Frame
  <1>6. QED
    BY <1>1, <1>2, <1>3, <1>4, <1>5

LEMMA SessionFrame ==
  ASSUME TypeOK, RowsAreThere, NEW r \in Requests, UNCHANGED others,
         Signup(r) \/ Logout(r) \/ ReadSession(r) \/ Enter(r) \/ Invite(r)
  PROVE  Frame(r)
  <1> USE LocalType DEF TypeOK, AccountsTypeOK, others
  <1>0. /\ RequestState(r) /\ RowState(r) /\ req \in [Requests -> Request]
        /\ \A n \in Names : RowState(n)
    BY DEF RowsAreThere
  <1>1. CASE Signup(r)
    <2>1. PICK e \in Emails :
            \/ /\ End(r, Sent("SIGNUP", e, None), "refused")
               /\ UNCHANGED <<company, user, sess>>
            \/ /\ company' = [company EXCEPT ![r] = "LIVE"]
               /\ user' = [user EXCEPT ![r] = Active(e, r)]
               /\ sess' = [sess EXCEPT ![r] = LiveSession(r)]
               /\ End(r, Sent("SIGNUP", e, None), "done")
      BY <1>1 DEF Signup
    <2>2. /\ Sent("SIGNUP", e, None) \in Request
          /\ Sent("SIGNUP", e, None).kind = "SIGNUP"
      BY SentType, SentFields DEF Kinds
    <2>3. PICK how \in {"refused", "done"} : End(r, Sent("SIGNUP", e, None), how)
      BY <2>1
    <2>4. RequestState(r)' /\ \A p \in Requests \ {r} : req'[p] = req[p]
      BY <1>0, <2>2, <2>3, EndFields, EndState DEF Ended
    <2>5. ~Settled(r) /\ NothingOf(r) /\ req[r].at = "idle" /\ Settled(r)'
      <3>1. req[r].at = "idle" /\ ~Settled(r)
        BY <1>1 DEF Signup, Settled, Ended
      <3>2. req'[r].at = how
        BY <1>0, <2>2, <2>3, EndFields DEF Ended
      <3>3. QED
        BY <1>0, <3>1, <3>2 DEF RowState, Settled, Ended
    <2>6. CASE UNCHANGED <<company, user, sess>>
      BY <1>1, <2>4, <2>5, <2>6, QuietFrame DEF Signup, Ended
    <2>7. CASE /\ company' = [company EXCEPT ![r] = "LIVE"]
               /\ user' = [user EXCEPT ![r] = Active(e, r)]
               /\ sess' = [sess EXCEPT ![r] = LiveSession(r)]
      <3>1. \A n \in Names : n # r => Kept(n)
        BY <1>1, <2>7 DEF Signup, Kept
      <3>2. RowState(r)'
        BY <1>1, <2>5, <2>7
        DEF Signup, RowState, NothingOf, Active, LiveSession, NoAccount, NoDriver
      <3>3. QED
        BY <2>4, <2>5, <3>1, <3>2 DEF Frame, Ended
    <2>8. QED
      BY <2>1, <2>6, <2>7
  <1>2. CASE Logout(r)
    <2>1. PICK s \in Names : /\ sess[s].state # "NONE"
                             /\ sess' = [sess EXCEPT ![s].state = "REVOKED"]
                             /\ End(r, Sent("LOGOUT", None, s), "done")
      BY <1>2 DEF Logout
    <2>2. Sent("LOGOUT", None, s) \in Request /\ Sent("LOGOUT", None, s).kind = "LOGOUT"
      BY SentType, SentFields DEF Kinds
    <2>3. /\ RequestState(r)' /\ \A p \in Requests \ {r} : req'[p] = req[p]
          /\ req'[r].at = "done"
      BY <1>0, <2>1, <2>2, EndFields, EndState DEF Ended
    <2>4. /\ ~Settled(r) /\ NothingOf(r) /\ req[r].at = "idle" /\ Settled(r)'
          /\ s # r
      BY <1>0, <1>2, <2>1, <2>3 DEF Logout, Settled, Ended, RowState, NothingOf, NoSession
    <2>5. \A n \in Names : sess'[n].user = sess[n].user /\ sess'[n] # sess[n] => sess'[n].state = "REVOKED"
      BY <2>1 DEF Session
    <2>6. \A n \in Names : n # r => Kept(n)
      <3>1. \A n \in Names : \/ sess'[n] = sess[n]
                             \/ /\ sess[n].state # "NONE" /\ sess'[n].user = sess[n].user
                                /\ sess'[n].state = "REVOKED"
        BY <2>1 DEF Session
      <3>2. QED
        BY <1>2, <3>1 DEF Logout, Kept
    <2>7. RowState(r)'
      BY <1>2, <2>1, <2>4
      DEF Logout, RowState, NothingOf, NoAccount, NoDriver, NoSession
    <2>8. QED
      BY <2>3, <2>4, <2>6, <2>7 DEF Frame, Ended
  <1>3. CASE ReadSession(r)
    <2>1. PICK kind \in TenantKinds, s \in Names :
            \/ /\ sess[s].state = "LIVE"
               /\ Goto(r, [Sent(kind, None, s) EXCEPT !.who = sess[s].user], "resolved")
            \/ End(r, Sent(kind, None, s), "refused")
      BY <1>3 DEF ReadSession
    <2>2. /\ Sent(kind, None, s) \in Request /\ Sent(kind, None, s).kind = kind
          /\ Sent(kind, None, s).token = s
      <3>1. Sent(kind, None, s) \in Request
        BY SentType DEF Kinds
      <3>2. QED
        BY <3>1, SentFields
    <2> DEFINE q == [Sent(kind, None, s) EXCEPT !.who = sess[s].user]
    <2>3. sess[s].state = "LIVE" =>
            q \in Request /\ q.kind = kind /\ q.token = s /\ q.who = sess[s].user
      BY <2>2 DEF Request
    <2>4. (sess[s].state = "LIVE" /\ Goto(r, q, "resolved")) \/ End(r, Sent(kind, None, s), "refused")
      BY <2>1
    <2> HIDE DEF q
    <2>5. RequestState(r)' /\ \A p \in Requests \ {r} : req'[p] = req[p]
      <3>1. CASE sess[s].state = "LIVE" /\ Goto(r, q, "resolved")
        <4>1. /\ req'[r].at = "resolved" /\ req'[r].kind = kind /\ req'[r].token = s
              /\ req'[r].who = sess[s].user /\ \A p \in Requests \ {r} : req'[p] = req[p]
          BY <1>0, <2>3, <3>1, GotoFields DEF Steps
        <4>2. QED
          BY <1>3, <3>1, <4>1 DEF ReadSession, RequestState, Ended, TenantKinds
      <3>2. CASE End(r, Sent(kind, None, s), "refused")
        BY <1>0, <2>2, <3>2, EndFields, EndState DEF Ended, TenantKinds
      <3>3. QED
        BY <2>4, <3>1, <3>2
    <2>6. QED
      BY <1>3, <2>5, QuietFrame DEF ReadSession, Ended, Settled
  <1>4. CASE Enter(r)
    <2>1. Goto(r, req[r], "entered") \/ End(r, req[r], "refused")
      BY <1>4 DEF Enter
    <2>2. RequestState(r)' /\ \A p \in Requests \ {r} : req'[p] = req[p]
      <3>1. /\ req[r].kind \in TenantKinds /\ req[r].token \in Names
            /\ sess[req[r].token].state # "NONE" /\ sess[req[r].token].user = req[r].who
            /\ sess' = sess
        BY <1>0, <1>4 DEF Enter, RequestState, LastSeenOnly
      <3>2. CASE Goto(r, req[r], "entered")
        <4>1. /\ req'[r].at = "entered" /\ req'[r].kind = req[r].kind /\ req'[r].token = req[r].token
              /\ req'[r].who = req[r].who /\ \A p \in Requests \ {r} : req'[p] = req[p]
          BY <1>0, <3>2, GotoFields DEF Steps
        <4>2. QED
          BY <3>1, <4>1 DEF RequestState, Ended, TenantKinds
      <3>3. CASE End(r, req[r], "refused")
        BY <1>0, <3>1, <3>3, EndFields, EndState DEF Ended, TenantKinds
      <3>4. QED
        BY <2>1, <3>2, <3>3
    <2>3. QED
      BY <1>4, <2>2, QuietFrame DEF Enter, Ended, Settled, LastSeenOnly
  <1>5. CASE Invite(r)
    <2>1. PICK how \in {"refused", "done"} : End(r, req[r], how)
      BY <1>5 DEF Invite
    <2>2. RequestState(r)' /\ \A p \in Requests \ {r} : req'[p] = req[p]
      <3>1. req[r].kind = "INVITE" /\ how \in Ended
        BY <1>5 DEF Invite, Ended
      <3>2. QED
        BY <1>0, <2>1, <3>1, EndFields, EndState
    <2>3. ~Settled(r) /\ NothingOf(r) /\ req[r].at = "entered" /\ Settled(r)'
      <3>1. req'[r].at = how
        BY <1>0, <2>1, EndFields DEF Ended
      <3>2. QED
        BY <1>0, <1>5, <3>1 DEF Invite, Settled, Ended, RowState
    <2> DEFINE c == user[req[r].who].company
    <2>4. inv' = inv \/ \E e \in Emails : inv' = [inv EXCEPT ![r] = Pending(e, c)]
      BY <1>5 DEF Invite
    <2>8. c \in Names
      BY <1>0, <1>5 DEF Invite, RequestState, RowState
    <2> HIDE DEF c
    <2>5. \A n \in Names : n # r => Kept(n)
      BY <1>5, <2>4 DEF Invite, Kept
    <2>6. RowState(r)'
      BY <1>5, <2>3, <2>4, <2>8
      DEF Invite, RowState, NothingOf, NoAccount, NoDriver, NoSession, Pending
    <2>7. QED
      BY <2>2, <2>3, <2>5, <2>6 DEF Frame, Ended
  <1>6. QED
    BY <1>1, <1>2, <1>3, <1>4, <1>5

LEMMA AcceptFrame ==
  ASSUME TypeOK, RowsAreThere, NEW r \in Requests, UNCHANGED others,
         ReadInvitation(r) \/ CreateAccount(r) \/ NewSession(r) \/ Abort(r)
  PROVE  Frame(r)
  <1> USE LocalType DEF TypeOK, AccountsTypeOK, others
  <1>0. /\ RequestState(r) /\ RowState(r) /\ req \in [Requests -> Request]
        /\ \A n \in Names : RowState(n)
    BY DEF RowsAreThere
  <1>1. CASE ReadInvitation(r)
    <2>1. PICK i \in Names : /\ inv[i].state # "NONE"
                             /\ \/ Goto(r, Sent("ACCEPT", None, i), "invited")
                                \/ End(r, Sent("ACCEPT", None, i), "refused")
      BY <1>1 DEF ReadInvitation
    <2>2. Sent("ACCEPT", None, i) \in Request
      BY SentType DEF Kinds
    <2>3. Sent("ACCEPT", None, i).kind = "ACCEPT" /\ Sent("ACCEPT", None, i).token = i
      BY SentFields
    <2>4. RequestState(r)' /\ \A p \in Requests \ {r} : req'[p] = req[p]
      <3>1. CASE Goto(r, Sent("ACCEPT", None, i), "invited")
        <4>1. /\ req'[r].at = "invited" /\ req'[r].kind = "ACCEPT" /\ req'[r].token = i
              /\ \A p \in Requests \ {r} : req'[p] = req[p]
          BY <1>0, <2>2, <2>3, <3>1, GotoFields DEF Steps
        <4>2. QED
          BY <1>1, <2>1, <4>1 DEF ReadInvitation, RequestState, Ended
      <3>2. CASE End(r, Sent("ACCEPT", None, i), "refused")
        <4>1. inv' = inv
          BY <1>1 DEF ReadInvitation
        <4>2. QED
          BY <1>0, <2>1, <2>2, <2>3, <3>2, <4>1, EndFields, EndState DEF Ended
      <3>3. QED
        BY <2>1, <3>1, <3>2
    <2>5. QED
      BY <1>1, <2>4, QuietFrame DEF ReadInvitation, Ended, Settled
  <1>2. CASE CreateAccount(r)
    <2> DEFINE i == req[r].token
    <2>1. /\ i \in Names /\ inv[i].state # "NONE" /\ req[r].kind = "ACCEPT"
          /\ inv[i].email \in Emails /\ inv[i].company \in Names
      BY <1>0, <1>2 DEF CreateAccount, RequestState, RowState
    <2>2. ~Settled(r) /\ NothingOf(r) /\ req[r].at = "invited" /\ i # r
      BY <1>0, <1>2, <2>1 DEF CreateAccount, Settled, Ended, RowState, NothingOf, NoAccount
    <2>3. CASE End(r, req[r], "failed") /\ UNCHANGED <<user, inv>>
      <3>1. RequestState(r)' /\ \A p \in Requests \ {r} : req'[p] = req[p]
        BY <1>0, <2>1, <2>3, EndFields, EndState DEF Ended
      <3>2. QED
        BY <1>2, <2>2, <2>3, <3>1, QuietFrame DEF CreateAccount, Ended
    <2>4. CASE /\ user' = [user EXCEPT ![r] = Active(inv[i].email, inv[i].company)]
               /\ inv'  = [inv EXCEPT ![i].state = "CLOSED"]
               /\ Goto(r, req[r], "created")
      <3>1. /\ req'[r].at = "created" /\ req'[r].kind = "ACCEPT" /\ req'[r].token = i
            /\ \A p \in Requests \ {r} : req'[p] = req[p]
        BY <1>0, <2>1, <2>4, GotoFields DEF Steps
      <3>2. \A n \in Names : \/ inv'[n] = inv[n]
                             \/ /\ n = i /\ inv'[n].state = "CLOSED"
                                /\ inv'[n].email = inv[n].email /\ inv'[n].company = inv[n].company
        BY <2>1, <2>4 DEF Invitation
      <3>3. RequestState(r)'
        BY <2>1, <3>1, <3>2 DEF RequestState, Ended
      <3>4. \A n \in Names : n # r => Kept(n)
        BY <1>2, <2>1, <2>4, <3>2 DEF CreateAccount, Kept
      <3>5. RowState(r)'
        BY <1>2, <2>1, <2>2, <2>4, <3>1, <3>2
        DEF CreateAccount, RowState, NothingOf, Settled, Active, NoAccount, NoSession, NoDriver
      <3>6. QED
        BY <2>2, <3>1, <3>3, <3>4, <3>5 DEF Frame, Ended
    <2>5. QED
      BY <1>2, <2>3, <2>4 DEF CreateAccount
  <1>3. CASE NewSession(r)
    <2>1. PICK how \in {"refused", "failed"} : End(r, req[r], how)
      BY <1>3 DEF NewSession
    <2>2. req[r].at = "created" /\ how \in Ended
      BY <1>3 DEF NewSession, Ended
    <2>3. /\ RequestState(r)' /\ \A p \in Requests \ {r} : req'[p] = req[p]
      BY <1>0, <1>3, <2>1, <2>2, EndFields, EndState DEF NewSession, RequestState
    <2>4. req'[r].at = how
      BY <1>0, <2>1, <2>2, EndFields
    <2>5. QED
      BY <1>3, <2>2, <2>3, <2>4, QuietFrame DEF NewSession, Ended, Settled
  <1>4. CASE Abort(r)
    <2>1. "aborted" \in Ended /\ req[r].at \notin Ended
      BY <1>4 DEF Abort, Ended
    <2>2. /\ RequestState(r)' /\ \A p \in Requests \ {r} : req'[p] = req[p]
      BY <1>0, <1>4, <2>1, EndFields, EndState DEF Abort, RequestState
    <2>3. req'[r].at = "aborted"
      BY <1>0, <1>4, <2>1, EndFields DEF Abort
    <2>4. QED
      BY <1>4, <2>1, <2>2, <2>3, QuietFrame DEF Abort, Settled
  <1>5. QED
    BY <1>1, <1>2, <1>3, <1>4

LEMMA TenantFrame ==
  ASSUME TypeOK, RowsAreThere, NEW r \in Requests,
         \/ Hire(r) \/ LoadDriver(r) \/ Check(r) \/ Anonymize(r) \/ RequestDeletion(r)
         \/ RequestVictim(r)
  PROVE  Frame(r)
  <1> USE LocalType DEF TypeOK, AccountsTypeOK
  <1>0. /\ RequestState(r) /\ RowState(r) /\ req \in [Requests -> Request]
        /\ \A n \in Names : RowState(n)
    BY DEF RowsAreThere
  <1>1. /\ req[r].at \in {"entered", "loaded"} /\ req[r].kind \in TenantKinds
        /\ req[r].token \in Names /\ req[r].who \in Names /\ user[req[r].who].state # "NONE"
        /\ sess[req[r].token].state # "NONE" /\ sess[req[r].token].user = req[r].who
    <2>1. req[r].at \in {"entered", "loaded"}
      BY DEF Hire, LoadDriver, Check, Anonymize, RequestDeletion, RequestVictim, Deadlocked
    <2>2. QED
      BY <1>0, <2>1 DEF RequestState, RowState
  <1>2. Tenant(r) \in Names
    BY <1>0, <1>1 DEF Tenant, RowState
  <1>3. ~Settled(r) /\ NothingOf(r) /\ req[r].at \notin Ended
    BY <1>0, <1>1 DEF Settled, Ended, RowState
  <1>4. ASSUME NEW how \in Ended, End(r, req[r], how)
        PROVE  RequestState(r)' /\ (\A p \in Requests \ {r} : req'[p] = req[p]) /\ Settled(r)'
    <2>1. req[r].kind # "ACCEPT"
      BY <1>1 DEF TenantKinds
    <2>2. QED
      BY <1>0, <1>4, <2>1, EndFields, EndState DEF Settled
  <1>5. CASE Hire(r)
    <2>1. RequestState(r)' /\ (\A p \in Requests \ {r} : req'[p] = req[p]) /\ Settled(r)'
      BY <1>4, <1>5 DEF Hire, Ended
    <2>2. \/ driver' = driver
          \/ driver' = [driver EXCEPT ![r] = [state |-> "NAMED", company |-> Tenant(r), version |-> 1]]
      BY <1>5 DEF Hire
    <2>3. \A n \in Names : n # r => Kept(n)
      BY <1>5, <2>2 DEF Hire, Kept, accounts
    <2>4. \/ driver'[r] = NoDriver
          \/ driver'[r].state = "NAMED" /\ driver'[r].company = Tenant(r)
      BY <1>3, <2>2 DEF NothingOf
    <2>5. RowState(r)'
      BY <1>2, <1>3, <1>5, <2>1, <2>4
      DEF Hire, RowState, NothingOf, NoAccount, NoSession, NoDriver, accounts
    <2>6. QED
      BY <1>3, <2>1, <2>3, <2>5 DEF Frame
  <1>6. CASE LoadDriver(r)
    <2>1. CASE End(r, req[r], "refused")
      BY <1>3, <1>4, <1>6, <2>1, QuietFrame DEF LoadDriver, erasable, accounts, Ended
    <2>2. ASSUME NEW d \in DriversOf(Tenant(r)),
                 Goto(r, [req[r] EXCEPT !.driver = [name |-> d, state |-> driver[d].state,
                                                    version |-> driver[d].version]], "loaded")
          PROVE  Frame(r)
      <3>1. d \in Names /\ driver[d].state # "NONE"
        BY <1>0, <1>2 DEF DriversOf, RowState, NoDriver
      <3> DEFINE l == [name |-> d, state |-> driver[d].state, version |-> driver[d].version]
                 q == [req[r] EXCEPT !.driver = l]
      <3>2. l \in Loaded /\ l.name = d
        BY <3>1 DEF Loaded, Driver
      <3>3. Goto(r, q, "loaded")
        BY <2>2
      <3> HIDE DEF l
      <3>4. /\ q \in Request /\ q.kind = req[r].kind /\ q.token = req[r].token
            /\ q.who = req[r].who /\ q.driver = l
        BY <3>2 DEF Request
      <3> HIDE DEF q
      <3>5. /\ req'[r].at = "loaded" /\ req'[r].kind = req[r].kind /\ req'[r].token = req[r].token
            /\ req'[r].who = req[r].who /\ req'[r].driver.name = d
            /\ \A p \in Requests \ {r} : req'[p] = req[p]
        BY <1>0, <3>2, <3>3, <3>4, GotoFields DEF Steps
      <3>6. RequestState(r)'
        BY <1>1, <1>6, <3>1, <3>5
        DEF LoadDriver, erasable, accounts, RequestState, Ended, TenantKinds
      <3>7. QED
        BY <1>3, <1>6, <3>5, <3>6, QuietFrame DEF LoadDriver, erasable, accounts
    <2>3. QED
      BY <1>6, <2>1, <2>2 DEF LoadDriver
  <1>7. CASE Check(r)
    <2>0. /\ req[r].at = "loaded" /\ req[r].kind = "CHECK"
          /\ UNCHANGED <<company, user, inv, sess, throttle, known>>
      BY <1>7 DEF Check, accounts
    <2>1. /\ req[r].driver.name \in Names /\ req[r].driver.name # r
          /\ driver[req[r].driver.name].state # "NONE"
      BY <1>0, <1>3, <2>0 DEF RequestState, NothingOf, NoDriver
    <2>2. RequestState(r)' /\ (\A p \in Requests \ {r} : req'[p] = req[p]) /\ Settled(r)'
      <3>1. End(r, req[r], "failed") \/ End(r, req[r], "done")
        BY <1>7 DEF Check
      <3>2. QED
        BY <1>4, <3>1 DEF Ended
    <2>3. CheckKeeps(r)
      BY <1>0, <1>7, CheckWrites
    <2>4. PICK m \in Mail : mail' = mail \/ mail' = [mail EXCEPT ![r] = m]
      BY <1>0, <1>7, CheckWrites
    <2>5. \A n \in Names : n # r => Kept(n)
      BY <2>0, <2>1, <2>3, <2>4 DEF CheckKeeps, Kept, NoDriver
    <2>6. RowState(r)'
      BY <1>3, <2>0, <2>1, <2>2, <2>3
      DEF CheckKeeps, RowState, NothingOf, NoAccount, NoSession, NoDriver
    <2>7. QED
      BY <1>3, <2>2, <2>5, <2>6 DEF Frame
  <1>8. CASE Anonymize(r)
    <2> DEFINE d == req[r].driver.name
    <2>1. d \in Names /\ driver[d].state # "NONE" /\ d # r
      BY <1>0, <1>3, <1>8 DEF Anonymize, RequestState, NothingOf, NoDriver
    <2>2. RequestState(r)' /\ (\A p \in Requests \ {r} : req'[p] = req[p]) /\ Settled(r)'
      BY <1>4, <1>8 DEF Anonymize, Ended
    <2>3. \A n \in Names : /\ driver'[n].state \in {driver[n].state, "ANONYMOUS"}
                           /\ driver'[n].company = driver[n].company
                           /\ n # d => driver'[n] = driver[n]
      BY <1>8, <2>1 DEF Anonymize, Driver
    <2>4. \A n \in Names : n # r => Kept(n)
      BY <1>8, <2>1, <2>3 DEF Anonymize, Kept, accounts, NoDriver
    <2>5. RowState(r)'
      BY <1>3, <1>8, <2>1, <2>2, <2>3
      DEF Anonymize, RowState, NothingOf, NoAccount, NoSession, NoDriver, accounts
    <2>6. QED
      BY <1>3, <2>2, <2>4, <2>5 DEF Frame
  <1>9. CASE RequestDeletion(r)
    <2>1. RequestState(r)' /\ (\A p \in Requests \ {r} : req'[p] = req[p]) /\ Settled(r)'
      BY <1>4, <1>9 DEF RequestDeletion, Ended
    <2>2. \A n \in Names : company'[n] # company[n] => company[n] = "LIVE"
      BY <1>2, <1>9 DEF RequestDeletion
    <2>3. \A n \in Names : Kept(n)
      BY <1>9, <2>2 DEF RequestDeletion, Kept, accounts
    <2>4. RowState(r)'
      BY <1>3, <1>9, <2>1, <2>2
      DEF RequestDeletion, RowState, NothingOf, NoAccount, NoSession, NoDriver, accounts
    <2>5. QED
      BY <1>3, <2>1, <2>3, <2>4 DEF Frame
  <1>10. CASE RequestVictim(r)
    BY <1>3, <1>4, <1>10, QuietFrame DEF RequestVictim, erasable, accounts, Ended
  <1>11. QED
    BY <1>5, <1>6, <1>7, <1>8, <1>9, <1>10

(* What is there stays. *)
Steady == \A n \in Names : ~NothingOf(n) => Kept(n)

LEMMA KeptRow ==
  ASSUME RowsAreThere, NEW n \in Names, Kept(n), sess[n].state # "NONE" => Kept(sess[n].user),
         Settled(n) => Settled(n)'
  PROVE  RowState(n)'
  <1>1. RowState(n)
    BY DEF RowsAreThere
  <1>2. ~Settled(n)' => NothingOf(n)'
    <2>1. NothingOf(n) => NothingOf(n)'
      BY DEF NothingOf, Kept, NoAccount, NoSession, NoDriver
    <2>2. QED
      BY <1>1, <2>1 DEF RowState
  <1>3. /\ user'[n].state # "NONE" => user'[n].email \in Emails /\ user'[n].company \in Names
        /\ user'[n].state = "NONE" => user'[n] = NoAccount
    BY <1>1 DEF RowState, Kept
  <1>4. sess'[n].state # "NONE" => sess'[n].user \in Names /\ user'[sess'[n].user].state # "NONE"
    BY <1>1 DEF RowState, Kept
  <1>5. /\ inv'[n].state # "NONE" => inv'[n].email \in Emails /\ inv'[n].company \in Names
        /\ inv'[n].state = "NONE" => inv'[n] = NoAccount
    BY <1>1 DEF RowState, Kept
  <1>6. /\ driver'[n].state # "NONE" => driver'[n].company \in Names
        /\ driver'[n].state = "NONE" => driver'[n] = NoDriver
    BY <1>1 DEF RowState, Kept
  <1>7. QED
    BY <1>2, <1>3, <1>4, <1>5, <1>6 DEF RowState

LEMMA KeptRequest ==
  ASSUME RowsAreThere, Steady, NEW p \in Requests, req'[p] = req[p]
  PROVE  RequestState(p)'
  <1>1. RequestState(p)
    BY DEF RowsAreThere
  <1>2. ASSUME NEW n \in Names, user[n].state # "NONE" PROVE user'[n].state # "NONE"
    BY <1>2 DEF Steady, NothingOf, NoAccount, Kept
  <1>3. ASSUME NEW n \in Names, sess[n].state # "NONE"
        PROVE  sess'[n].state # "NONE" /\ sess'[n].user = sess[n].user
    BY <1>3 DEF Steady, NothingOf, NoSession, Kept
  <1>4. ASSUME NEW n \in Names, inv[n].state # "NONE" PROVE inv'[n].state # "NONE"
    BY <1>4 DEF Steady, NothingOf, NoAccount, Kept
  <1>5. ASSUME NEW n \in Names, driver[n].state # "NONE" PROVE driver'[n].state # "NONE"
    BY <1>5 DEF Steady, NothingOf, NoDriver, Kept
  <1>6. QED
    BY <1>1, <1>2, <1>3, <1>4, <1>5 DEF RequestState

LEMMA FrameRows ==
  ASSUME TypeOK, RowsAreThere, NEW r \in Requests, Frame(r)
  PROVE  RowsAreThere' /\ Steady
  <1>1. Steady
    BY DEF Steady, RowsAreThere, RowState, Frame
  <1>2. \A p \in Requests : RequestState(p)'
    BY <1>1, KeptRequest DEF Frame
  <1>3. ASSUME NEW n \in Names \ {r} PROVE RowState(n)'
    <2>1. Kept(n)
      BY <1>3 DEF Frame
    <2>2. sess[n].state # "NONE" => Kept(sess[n].user)
      BY <1>1 DEF RowsAreThere, RowState, Steady, NothingOf, NoAccount
    <2>3. Settled(n) => Settled(n)'
      BY <1>3 DEF Settled, Frame
    <2>4. QED
      BY <2>1, <2>2, <2>3, KeptRow
  <1>4. QED
    BY <1>1, <1>2, <1>3 DEF RowsAreThere, Frame

LEMMA QuietRows ==
  ASSUME RowsAreThere, req' = req, \A n \in Names : Kept(n)
  PROVE  RowsAreThere' /\ Steady
  <1>1. Steady
    BY DEF Steady
  <1>2. \A p \in Requests : RequestState(p)'
    BY <1>1, KeptRequest
  <1>3. ASSUME NEW n \in Names PROVE RowState(n)'
    <2>1. sess[n].state # "NONE" => sess[n].user \in Names
      BY DEF RowsAreThere, RowState
    <2>2. Settled(n) => Settled(n)'
      BY DEF Settled
    <2>3. QED
      BY <2>1, <2>2, KeptRow
  <1>4. QED
    BY <1>1, <1>2, <1>3 DEF RowsAreThere

(* Time *)
LEMMA TimeKept ==
  ASSUME TypeOK,
         \/ TimePasses /\ UNCHANGED others
         \/ \E c \in Names : GraceEnds(c)
         \/ \E m \in Names : MailAges(m)
  PROVE  req' = req /\ (\A n \in Names : Kept(n)) /\ UNCHANGED <<user, held, purge, known>>
  <1> USE DEF TypeOK, AccountsTypeOK, accounts, others
  <1>1. ASSUME NEW s \in Names, SessionExpires(s), UNCHANGED others
        PROVE  req' = req /\ (\A n \in Names : Kept(n)) /\ UNCHANGED <<user, held, purge, known>>
    <2>1. \A n \in Names : \/ sess'[n] = sess[n]
                           \/ /\ sess[n].state = "LIVE" /\ sess'[n].state = "EXPIRED"
                              /\ sess'[n].user = sess[n].user
      BY <1>1 DEF SessionExpires, Session
    <2>2. QED
      BY <1>1, <2>1 DEF SessionExpires, Kept
  <1>2. ASSUME NEW i \in Names, InvitationExpires(i), UNCHANGED others
        PROVE  req' = req /\ (\A n \in Names : Kept(n)) /\ UNCHANGED <<user, held, purge, known>>
    <2>1. \A n \in Names : \/ inv'[n] = inv[n]
                           \/ /\ inv[n].state = "PENDING" /\ inv'[n].state = "EXPIRED"
                              /\ inv'[n].company = inv[n].company /\ inv'[n].email = inv[n].email
      BY <1>2 DEF InvitationExpires, Invitation
    <2>2. QED
      BY <1>2, <2>1 DEF InvitationExpires, Kept
  <1>3. ASSUME NEW e \in Emails, LockEnds(e), UNCHANGED others
        PROVE  req' = req /\ (\A n \in Names : Kept(n)) /\ UNCHANGED <<user, held, purge, known>>
    BY <1>3 DEF LockEnds, Kept
  <1>4. ASSUME NEW c \in Names, GraceEnds(c)
        PROVE  req' = req /\ (\A n \in Names : Kept(n)) /\ UNCHANGED <<user, held, purge, known>>
    BY <1>4 DEF GraceEnds, Kept
  <1>5. ASSUME NEW m \in Names, MailAges(m)
        PROVE  req' = req /\ (\A n \in Names : Kept(n)) /\ UNCHANGED <<user, held, purge, known>>
    <2>1. \A n \in Names : /\ mail'[n].company = mail[n].company
                           /\ mail[n] = NoMail => mail'[n] = NoMail
      BY <1>5 DEF MailAges, Mail, NoMail
    <2>2. QED
      BY <1>5, <2>1 DEF MailAges, Kept
  <1>6. QED
    BY <1>1, <1>2, <1>3, <1>4, <1>5 DEF TimePasses

(* The purge *)
LEMMA PurgeKept ==
  ASSUME TypeOK, RowsAreThere, PurgeState, PurgeStep \/ Prune \/ PurgeCrash
  PROVE  req' = req /\ (\A n \in Names : Kept(n))
  <1>1. CASE Prune
    BY <1>1 DEF Prune, Kept, NoMail, accounts, TypeOK, Mail
  <1>2. CASE CommitPurge
    <2>1. \A n \in Names : company'[n] = IF n \in held.companies THEN "DELETED" ELSE company[n]
      BY <1>2 DEF CommitPurge, Marked
    <2>2. \A c \in held.companies : company[c] = "DUE"
      BY <1>2 DEF CommitPurge, PurgeState
    <2>3. \A n \in Names : \/ user'[n] = user[n]
                           \/ /\ n \in held.users /\ user'[n].state = "SCRUBBED"
                              /\ user'[n].company = user[n].company /\ user'[n].email = user[n].email
      BY <1>2, ErasedFields DEF CommitPurge, TypeOK, AccountsTypeOK
    <2>4. \A n \in held.users : user[n].state # "NONE"
      <3>1. \A n \in held.users : n \in Names /\ user[n].company \in Names
        BY DEF PurgeState, TypeOK, AccountsTypeOK, Held
      <3>2. QED
        BY <3>1, NamesAssumption DEF RowsAreThere, RowState, NoAccount
    <2>5. \A n \in Names : \/ driver'[n] = driver[n]
                           \/ /\ n \in held.drivers /\ driver'[n].state = "ANONYMOUS"
                              /\ driver'[n].company = driver[n].company
      BY <1>2, ErasedFields DEF CommitPurge, TypeOK
    <2>6. \A n \in Names : \/ sess'[n] = sess[n]
                           \/ /\ n \in held.sessions /\ sess'[n].state = "REVOKED"
                              /\ sess'[n].user = sess[n].user
      BY <1>2, ErasedFields DEF CommitPurge, TypeOK, AccountsTypeOK
    <2>7. \A n \in Names : \/ inv'[n] = inv[n]
                           \/ /\ n \in held.invs /\ inv'[n].state = "CLOSED"
                              /\ inv'[n].company = inv[n].company /\ inv'[n].email = inv[n].email
      BY <1>2, ErasedFields DEF CommitPurge, TypeOK, AccountsTypeOK
    <2>8. \A n \in Names : mail'[n] \in {mail[n], NoMail}
      BY <1>2 DEF CommitPurge
    <2>9. \A n \in Names : Kept(n)
      BY <2>1, <2>2, <2>3, <2>4, <2>5, <2>6, <2>7, <2>8 DEF PurgeState, Kept, NoMail
    <2>10. QED
      BY <1>2, <2>9 DEF CommitPurge
  <1>3. CASE UNCHANGED <<erasable, req>>
    BY <1>3, SameRows
  <1>4. QED
    BY <1>1, <1>2, <1>3
    DEF PurgeStep, SelectDue, TakeCompany, ScrubUsers, ScrubDrivers, TakeSession, FinishCompany,
        PurgeVictim, PurgeCrash

-----------------------------------------------------------------------------
(* The steps, sorted by what the proofs need to know of them *)

Rest == UNCHANGED <<held, purge, known>>
Acts(r) ==
  \/ (AccountStep(r) \/ Arrive(r) \/ Abort(r)) /\ UNCHANGED others
  \/ Hire(r) \/ LoadDriver(r) \/ Check(r) \/ Anonymize(r) \/ RequestDeletion(r)
  \/ RequestVictim(r)
Answering == \E r \in Requests : Acts(r) /\ Frame(r) /\ Rest
Passing   == \/ TimePasses \/ (\E c \in Names : GraceEnds(c)) \/ (\E m \in Names : MailAges(m))
             \/ UNCHANGED vars
Waiting   == Passing /\ req' = req /\ (\A n \in Names : Kept(n)) /\ UNCHANGED user /\ Rest
Purging   == (PurgeStep \/ Prune \/ PurgeCrash) /\ req' = req /\ \A n \in Names : Kept(n)

LEMMA Sorted ==
  ASSUME TypeOK, RowsAreThere, PurgeState, [Next]_vars
  PROVE  /\ Answering \/ Waiting \/ Purging
         /\ TypeOK' /\ RowsAreThere' /\ Steady
  <1>1. ASSUME NEW r \in Requests, (AccountStep(r) \/ Arrive(r) \/ Abort(r)) /\ UNCHANGED others
        PROVE  Acts(r) /\ Frame(r) /\ Rest /\ TypeOK'
    <2>0. Acts(r)
      BY <1>1 DEF Acts
    <2>1. Rest
      BY <1>1
      DEF Rest, others, AccountStep, Arrive, Abort, Signup, CheckThrottle, Logout, ReadSession,
          ReadInvitation, Verify, ReadThrottle, RecordFailure, StartSession, Enter, Invite,
          CreateAccount, NewSession
    <2>2. RequestState(r)
      BY DEF RowsAreThere
    <2>3. AccountsTypeOK' => TypeOK'
      BY <1>1 DEF others, TypeOK
    <2>4. CASE CheckThrottle(r) \/ Verify(r) \/ ReadThrottle(r) \/ RecordFailure(r) \/ StartSession(r)
      BY <1>1, <2>0, <2>1, <2>2, <2>3, <2>4, LoginType, LoginFrame
    <2>5. CASE Signup(r) \/ Logout(r) \/ ReadSession(r) \/ Enter(r) \/ Invite(r)
      BY <1>1, <2>0, <2>1, <2>2, <2>3, <2>5, SessionStepType, SessionFrame
    <2>6. CASE ReadInvitation(r) \/ CreateAccount(r) \/ NewSession(r) \/ Abort(r)
      BY <1>1, <2>0, <2>1, <2>2, <2>3, <2>6, AcceptType, AcceptFrame
    <2>7. QED
      BY <1>1, <2>4, <2>5, <2>6 DEF AccountStep, Arrive
  <1>2. ASSUME NEW r \in Requests,
               \/ Hire(r) \/ LoadDriver(r) \/ Check(r) \/ Anonymize(r) \/ RequestDeletion(r)
               \/ RequestVictim(r)
        PROVE  Acts(r) /\ Frame(r) /\ Rest /\ TypeOK'
    <2>1. Rest
      BY <1>2 DEF Rest, Hire, LoadDriver, Check, Anonymize, RequestDeletion, RequestVictim
    <2>2. RequestState(r)
      BY DEF RowsAreThere
    <2>3. QED
      BY <1>2, <2>1, <2>2, TenantType, TenantFrame DEF Acts
  <1>3. ASSUME NEW r \in Requests, Acts(r), Frame(r), Rest, TypeOK'
        PROVE  Answering /\ TypeOK' /\ RowsAreThere' /\ Steady
    BY <1>3, FrameRows DEF Answering
  <1>4. CASE \/ TimePasses /\ UNCHANGED others
             \/ \E c \in Names : GraceEnds(c)
             \/ \E m \in Names : MailAges(m)
    <2>1. TypeOK'
      BY <1>4, TimeType DEF others, TypeOK
    <2>2. QED
      BY <1>4, <2>1, TimeKept, QuietRows DEF Waiting, Passing, Rest
  <1>5. CASE PurgeStep \/ Prune \/ PurgeCrash
    BY <1>5, PurgeType, PurgeKept, QuietRows DEF Purging
  <1>6. CASE UNCHANGED vars
    <2>1. \A n \in Names : Kept(n)
      BY <1>6, SameRows DEF vars
    <2>2. TypeOK'
      BY <1>6 DEF vars, erasable, accounts, TypeOK, AccountsTypeOK
    <2>3. QED
      BY <1>6, <2>1, <2>2, QuietRows DEF Waiting, Passing, Rest, vars, erasable, accounts
  <1>7. QED
    BY <1>1, <1>2, <1>3, <1>4, <1>5, <1>6 DEF Next, Step, Quiet

-----------------------------------------------------------------------------
(* What the purge has read and written *)

(* Only the purge erases a company that is due. *)
NotDue(n) == company[n] \in {"NONE", "LIVE", "REQUESTED"} /\ company'[n] # "DELETED"

LEMMA CompanySteps ==
  ASSUME TypeOK, RowsAreThere, PurgeState, [Next]_vars, ~CommitPurge, NEW n \in Names
  PROVE  company'[n] = company[n] \/ NotDue(n)
  <1> USE DEF TypeOK, AccountsTypeOK, NotDue
  <1>1. ASSUME NEW r \in Requests, Signup(r)
        PROVE  company'[n] = company[n] \/ NotDue(n)
    <2>1. company[r] = "NONE"
      BY <1>1, LocalType DEF Signup, RowsAreThere, RowState, Settled, Ended, NothingOf
    <2>2. company' = company \/ company' = [company EXCEPT ![r] = "LIVE"]
      BY <1>1 DEF Signup
    <2>3. QED
      BY <2>1, <2>2
  <1>2. ASSUME NEW r \in Requests, RequestDeletion(r)
        PROVE  company'[n] = company[n] \/ NotDue(n)
    BY <1>2 DEF RequestDeletion
  <1>3. ASSUME NEW c \in Names, GraceEnds(c)
        PROVE  company'[n] = company[n] \/ NotDue(n)
    BY <1>3 DEF GraceEnds
  <1>4. CASE UNCHANGED company
    BY <1>4
  <1>5. ASSUME NEW r \in Requests, Acts(r), ~Signup(r), ~RequestDeletion(r)
        PROVE  company' = company
    BY <1>5
    DEF Acts, AccountStep, Arrive, Abort, CheckThrottle, Logout, ReadSession, ReadInvitation, Verify,
        ReadThrottle, RecordFailure, StartSession, Enter, Invite, CreateAccount, NewSession, Hire,
        LoadDriver, Check, Anonymize, RequestVictim, erasable, accounts
  <1>6. CASE Answering
    BY <1>1, <1>2, <1>4, <1>5, <1>6 DEF Answering
  <1>7. CASE Waiting
    BY <1>3, <1>4, <1>7
    DEF Waiting, Passing, TimePasses, SessionExpires, InvitationExpires, LockEnds, MailAges, vars,
        erasable, accounts
  <1>8. CASE Purging
    BY <1>4, <1>8
    DEF Purging, Prune, PurgeStep, SelectDue, TakeCompany, ScrubUsers, ScrubDrivers, TakeSession,
        FinishCompany, PurgeVictim, PurgeCrash, erasable, accounts
  <1>9. QED
    BY <1>6, <1>7, <1>8, Sorted

(* How a request goes on *)
Ends(r)   == req'[r].at \in Ended
Same(r)   == req'[r].token = req[r].token /\ req'[r].who = req[r].who
Counts(r) == /\ req'[r].at \in {"reset", "count"} /\ req[r].email \in Emails
             /\ req'[r].email = req[r].email /\ req'[r].throttle = throttle[req[r].email]
Enters(r) == Enter(r) /\ req'[r].at = "entered" /\ Same(r)
Loads(r)  == LoadDriver(r) /\ req'[r].at = "loaded" /\ Same(r)
Goes(r)   == req'[r].at \in {"verify", "good", "bad", "resolved", "invited", "created"}

LEMMA Ways ==
  ASSUME TypeOK, RowsAreThere, NEW r \in Requests, Acts(r)
  PROVE  Ends(r) \/ Counts(r) \/ Enters(r) \/ Loads(r) \/ Goes(r)
  <1> USE LocalType
  <1>0. RequestState(r) /\ req \in [Requests -> Request]
    BY DEF RowsAreThere, TypeOK, AccountsTypeOK
  <1>1. ASSUME NEW q \in Request, NEW how \in Ended, End(r, q, how)
        PROVE  Ends(r)
    BY <1>0, <1>1, EndFields DEF Ends
  <1>2. ASSUME NEW q \in Request, Goto(r, q, "verify") \/ Goto(r, q, "bad") \/ Goto(r, q, "invited")
                                   \/ Goto(r, q, "created")
        PROVE  Goes(r)
    BY <1>0, <1>2, GotoFields DEF Goes, Steps
  <1>3. ASSUME NEW kind \in Kinds, NEW e \in Emails \cup {None}, NEW t \in Names \cup {None}
        PROVE  Sent(kind, e, t) \in Request
    BY SentType
  <1>4. CASE Signup(r)
    <2>1. PICK e \in Emails, how \in {"refused", "done"} : End(r, Sent("SIGNUP", e, None), how)
      BY <1>4 DEF Signup
    <2>2. QED
      BY <1>1, <1>3, <2>1 DEF Kinds, Ended
  <1>5. CASE CheckThrottle(r)
    <2>1. PICK e \in Emails : \/ End(r, Sent("LOGIN", e, None), "refused")
                              \/ Goto(r, Sent("LOGIN", e, None), "verify")
      BY <1>5 DEF CheckThrottle
    <2>2. Sent("LOGIN", e, None) \in Request
      BY <1>3 DEF Kinds
    <2>3. QED
      BY <1>1, <1>2, <2>1, <2>2 DEF Ended
  <1>6. CASE Logout(r)
    <2>1. PICK s \in Names : End(r, Sent("LOGOUT", None, s), "done")
      BY <1>6 DEF Logout
    <2>2. Sent("LOGOUT", None, s) \in Request
      BY <1>3 DEF Kinds
    <2>3. QED
      BY <1>1, <2>1, <2>2 DEF Ended
  <1>7. CASE ReadSession(r)
    <2>1. PICK kind \in TenantKinds, s \in Names :
            \/ /\ sess[s].state = "LIVE"
               /\ Goto(r, [Sent(kind, None, s) EXCEPT !.who = sess[s].user], "resolved")
            \/ End(r, Sent(kind, None, s), "refused")
      BY <1>7 DEF ReadSession
    <2>2. Sent(kind, None, s) \in Request
      BY <1>3 DEF Kinds
    <2> DEFINE q == [Sent(kind, None, s) EXCEPT !.who = sess[s].user]
    <2>3. sess[s].state = "LIVE" => q \in Request
      BY <2>2 DEF Request, TypeOK, AccountsTypeOK
    <2>4. (sess[s].state = "LIVE" /\ Goto(r, q, "resolved")) \/ End(r, Sent(kind, None, s), "refused")
      BY <2>1
    <2> HIDE DEF q
    <2>5. CASE sess[s].state = "LIVE" /\ Goto(r, q, "resolved")
      BY <1>0, <2>3, <2>5, GotoFields DEF Goes, Steps
    <2>6. QED
      BY <1>1, <2>2, <2>4, <2>5 DEF Ended
  <1>8. CASE ReadInvitation(r)
    <2>1. PICK i \in Names : \/ End(r, Sent("ACCEPT", None, i), "refused")
                             \/ Goto(r, Sent("ACCEPT", None, i), "invited")
      BY <1>8 DEF ReadInvitation
    <2>2. Sent("ACCEPT", None, i) \in Request
      BY <1>3 DEF Kinds
    <2>3. QED
      BY <1>1, <1>2, <2>1, <2>2 DEF Ended
  <1>9. CASE Verify(r)
    <2>1. ASSUME NEW u \in Names, Goto(r, [req[r] EXCEPT !.who = u], "good")
          PROVE  Goes(r)
      <3> DEFINE q == [req[r] EXCEPT !.who = u]
      <3>1. q \in Request /\ Goto(r, q, "good")
        BY <2>1 DEF Request
      <3> HIDE DEF q
      <3>2. QED
        BY <1>0, <3>1, GotoFields DEF Goes, Steps
    <2>2. QED
      BY <1>2, <1>9, <2>1 DEF Verify, Candidates, AccountsOf
  <1>10. CASE ReadThrottle(r)
    <2>1. PICK step \in {"reset", "count"} :
            Goto(r, [req[r] EXCEPT !.throttle = throttle[req[r].email]], step)
      BY <1>10 DEF ReadThrottle
    <2>2. req[r].email \in Emails
      BY <1>0, <1>10 DEF ReadThrottle, RequestState
    <2> DEFINE q == [req[r] EXCEPT !.throttle = throttle[req[r].email]]
    <2>3. /\ q \in Request /\ q.email = req[r].email /\ q.throttle = throttle[req[r].email]
          /\ Goto(r, q, step)
      BY <2>1, <2>2 DEF TypeOK, AccountsTypeOK, Request
    <2> HIDE DEF q
    <2>4. QED
      BY <1>0, <2>2, <2>3, GotoFields DEF Counts, Steps
  <1>11. CASE Enter(r)
    <2>1. CASE Goto(r, req[r], "entered")
      BY <1>0, <1>11, <2>1, GotoFields DEF Enters, Same, Steps
    <2>2. CASE End(r, req[r], "refused")
      BY <1>1, <2>2 DEF Ended
    <2>3. QED
      BY <1>11, <2>1, <2>2 DEF Enter
  <1>12. CASE LoadDriver(r)
    <2>1. ASSUME NEW d \in Names,
                 Goto(r, [req[r] EXCEPT !.driver = [name |-> d, state |-> driver[d].state,
                                                    version |-> driver[d].version]], "loaded")
          PROVE  Loads(r)
      <3> DEFINE l == [name |-> d, state |-> driver[d].state, version |-> driver[d].version]
                 q == [req[r] EXCEPT !.driver = l]
      <3>1. l \in Loaded
        BY DEF Loaded, Driver, TypeOK
      <3>2. Goto(r, q, "loaded")
        BY <2>1
      <3> HIDE DEF l
      <3>3. q \in Request /\ q.token = req[r].token /\ q.who = req[r].who
        BY <3>1 DEF Request
      <3> HIDE DEF q
      <3>4. QED
        BY <1>0, <1>12, <3>2, <3>3, GotoFields DEF Loads, Same, Steps
    <2>2. CASE End(r, req[r], "refused")
      BY <1>1, <2>2 DEF Ended
    <2>3. QED
      BY <1>12, <2>1, <2>2 DEF LoadDriver, DriversOf
  <1>13. CASE CreateAccount(r)
    BY <1>1, <1>2, <1>13 DEF CreateAccount, Ended
  <1>14. CASE RecordFailure(r) \/ StartSession(r) \/ Invite(r) \/ NewSession(r) \/ Abort(r)
    BY <1>1, <1>14 DEF RecordFailure, StartSession, Invite, NewSession, Abort, Ended
  <1>15. CASE Hire(r) \/ Check(r) \/ Anonymize(r) \/ RequestDeletion(r) \/ RequestVictim(r)
    BY <1>1, <1>15 DEF Hire, Check, Anonymize, RequestDeletion, RequestVictim, Ended
  <1>16. QED
    BY <1>4, <1>5, <1>6, <1>7, <1>8, <1>9, <1>10, <1>11, <1>12, <1>13, <1>14, <1>15
    DEF Acts, AccountStep, Arrive

(* The company of an account and of a session does not change. *)
LEMMA HomeKept ==
  ASSUME TypeOK, RowsAreThere, Steady
  PROVE  /\ \A u \in Names : user[u].company \in Names \/ user[u].state # "NONE" =>
              user'[u].company = user[u].company /\ user'[u].state # "NONE"
         /\ \A s \in Names : sess[s].state # "NONE" =>
              /\ sess'[s].state # "NONE" /\ sess'[s].user = sess[s].user
              /\ Home(s)' = Home(s) /\ sess[s].user \in Names /\ Home(s) \in Names
         /\ \A d \in Names : driver[d].state # "NONE" =>
              driver'[d].state # "NONE" /\ driver'[d].company = driver[d].company
         /\ \A i \in Names : inv[i].state # "NONE" =>
              inv'[i].state # "NONE" /\ inv'[i].company = inv[i].company
  <1>1. ASSUME NEW u \in Names, user[u].company \in Names \/ user[u].state # "NONE"
        PROVE  user'[u].company = user[u].company /\ user'[u].state # "NONE"
    <2>1. user[u].state # "NONE"
      BY <1>1, NamesAssumption DEF RowsAreThere, RowState, NoAccount
    <2>2. Kept(u)
      BY <2>1 DEF Steady, NothingOf, NoAccount
    <2>3. QED
      BY <2>1, <2>2 DEF Kept
  <1>2. ASSUME NEW s \in Names, sess[s].state # "NONE"
        PROVE  /\ sess'[s].state # "NONE" /\ sess'[s].user = sess[s].user
               /\ Home(s)' = Home(s) /\ sess[s].user \in Names /\ Home(s) \in Names
    <2>1. Kept(s)
      BY <1>2 DEF Steady, NothingOf, NoSession
    <2>2. sess[s].user \in Names /\ user[sess[s].user].state # "NONE"
      BY <1>2 DEF RowsAreThere, RowState
    <2>3. user[sess[s].user].company \in Names
      BY <2>2 DEF RowsAreThere, RowState
    <2>4. QED
      BY <1>1, <1>2, <2>1, <2>2, <2>3 DEF Kept, Home
  <1>3. ASSUME NEW d \in Names, driver[d].state # "NONE"
        PROVE  driver'[d].state # "NONE" /\ driver'[d].company = driver[d].company
    BY <1>3 DEF Steady, NothingOf, NoDriver, Kept
  <1>4. ASSUME NEW i \in Names, inv[i].state # "NONE"
        PROVE  inv'[i].state # "NONE" /\ inv'[i].company = inv[i].company
    BY <1>4 DEF Steady, NothingOf, NoAccount, Kept
  <1>5. QED
    BY <1>1, <1>2, <1>3, <1>4

LEMMA HeldSets ==
  ASSUME TypeOK
  PROVE  /\ purge.batch \subseteq Names /\ purge.users \subseteq Names /\ purge.sessions \subseteq Names
         /\ purge.drivers \subseteq Names \X Nat /\ purge.company \in Names \cup {None}
         /\ held.companies \subseteq Names /\ held.users \subseteq Names /\ held.drivers \subseteq Names
         /\ held.sessions \subseteq Names /\ held.invs \subseteq Names /\ held.mails \subseteq Names
         /\ \A c \in Names : known[c] \subseteq Names
         /\ None \notin Names
  BY NamesAssumption DEF TypeOK, AccountsTypeOK, Purge, Held

(* The purge changes what it has read and written only. *)
LEMMA PurgeStateSteps ==
  ASSUME TypeOK, RowsAreThere, PurgeState, [Next]_vars
  PROVE  PurgeState'
  <1> USE HeldSets
  <1>0. Steady /\ (Answering \/ Waiting \/ Purging)
    BY Sorted
  <1>1. CASE UNCHANGED <<held, purge>> /\ ~CommitPurge
    <2>1. \A c \in Names : company[c] = "DUE" => company'[c] = "DUE"
      BY <1>1, CompanySteps DEF NotDue
    <2>2. QED
      BY <1>0, <1>1, <2>1, HomeKept DEF PurgeState
  <1>2. CASE RollBack
    BY <1>2 DEF RollBack, PurgeState, Idle, Nothing
  <1>3. CASE SelectDue
    <2>1. /\ purge'.at = "next" /\ purge'.batch = Due /\ purge'.company = None
          /\ purge'.users = {} /\ purge'.drivers = {} /\ purge'.sessions = {}
      BY <1>3 DEF SelectDue, Idle
    <2>2. held' = held /\ held = Nothing
      BY <1>3 DEF SelectDue, PurgeState
    <2>3. \A c \in purge'.batch : company'[c] = "DUE"
      BY <1>3, <2>1 DEF SelectDue, Due, erasable
    <2>4. QED
      BY <2>1, <2>2, <2>3 DEF PurgeState, Nothing
  <1>4. CASE TakeCompany
    <2>1. PICK c \in purge.batch :
            /\ purge' = [purge EXCEPT !.at = "users", !.batch = @ \ {c}, !.company = c,
                                      !.users = {u \in Names : user[u].company = c}]
            /\ held'  = [held EXCEPT !.companies = @ \cup {c}]
      BY <1>4 DEF TakeCompany
    <2>2. /\ purge'.at = "users" /\ purge'.batch = purge.batch \ {c} /\ purge'.company = c
          /\ purge'.users = {u \in Names : user[u].company = c}
          /\ purge'.drivers = purge.drivers /\ purge'.sessions = purge.sessions
      BY <2>1 DEF TypeOK, Purge
    <2>3. /\ held'.companies = held.companies \cup {c} /\ held'.users = held.users
          /\ held'.sessions = held.sessions /\ held'.drivers = held.drivers
          /\ held'.invs = held.invs
      BY <2>1 DEF TypeOK, AccountsTypeOK, Held
    <2>4. purge.sessions = {}
      BY <1>4 DEF TakeCompany, PurgeState
    <2>5. QED
      BY <1>4, <2>2, <2>3, <2>4 DEF TakeCompany, PurgeState, erasable, accounts, Home
  <1>5. CASE ScrubUsers
    <2>1. /\ purge'.at = "drivers" /\ purge'.batch = purge.batch /\ purge'.company = purge.company
          /\ purge'.users = {}
          /\ purge'.sessions = purge.sessions
          /\ \A x \in purge'.drivers : driver[x[1]].state # "NONE"
      BY <1>5 DEF ScrubUsers, TypeOK, Purge
    <2>2. /\ held'.companies = held.companies /\ held'.users = held.users \cup purge.users
          /\ held'.sessions = held.sessions /\ held'.drivers = held.drivers
          /\ held'.invs = held.invs
      BY <1>5 DEF ScrubUsers, TypeOK, AccountsTypeOK, Held
    <2>3. QED
      BY <1>5, <2>1, <2>2 DEF ScrubUsers, PurgeState, erasable, accounts, Home
  <1>6. CASE ScrubDrivers /\ ~RollBack
    <2>1. /\ purge'.at = "sessions" /\ purge'.batch = purge.batch /\ purge'.company = purge.company
          /\ purge'.users = purge.users /\ purge'.drivers = {}
          /\ purge'.sessions = OpenSessions(purge.company)
      BY <1>6 DEF ScrubDrivers, TypeOK, Purge
    <2>2. /\ held'.companies = held.companies /\ held'.users = held.users
          /\ held'.sessions = held.sessions /\ held'.invs = held.invs
          /\ held'.drivers = held.drivers \cup {x[1] : x \in purge.drivers}
      BY <1>6 DEF ScrubDrivers, TypeOK, AccountsTypeOK, Held
    <2>3. QED
      BY <1>6, <2>1, <2>2 DEF ScrubDrivers, PurgeState, erasable, accounts, Home, OpenSessions
  <1>7. ASSUME NEW s \in Names, TakeSession(s)
        PROVE  PurgeState'
    <2>1. /\ purge'.at = "sessions" /\ purge'.batch = purge.batch /\ purge'.company = purge.company
          /\ purge'.users = purge.users /\ purge'.drivers = purge.drivers
          /\ purge'.sessions = purge.sessions \ {s}
      BY <1>7 DEF TakeSession, TypeOK, Purge
    <2>2. /\ held'.companies = held.companies /\ held'.users = held.users
          /\ held'.sessions = held.sessions \cup {s} /\ held'.invs = held.invs
          /\ held'.drivers = held.drivers
      BY <1>7 DEF TakeSession, TypeOK, AccountsTypeOK, Held
    <2>3. QED
      BY <1>7, <2>1, <2>2 DEF TakeSession, PurgeState, erasable, accounts, Home
  <1>8. CASE FinishCompany
    <2>1. /\ purge'.at = "next" /\ purge'.batch = purge.batch /\ purge'.company = None
          /\ purge'.users = purge.users /\ purge'.drivers = purge.drivers
          /\ purge'.sessions = {}
      BY <1>8 DEF FinishCompany, TypeOK, Purge
    <2>2. /\ held'.companies = held.companies /\ held'.users = held.users
          /\ held'.sessions = held.sessions /\ held'.drivers = held.drivers
          /\ held'.invs = held.invs \cup OpenInvitations(purge.company)
      BY <1>8 DEF FinishCompany, TypeOK, AccountsTypeOK, Held
    <2>3. purge.users = {}
      BY <1>8 DEF FinishCompany, PurgeState
    <2>4. QED
      BY <1>8, <2>1, <2>2, <2>3
      DEF FinishCompany, PurgeState, erasable, accounts, Home, OpenInvitations
  <1>9. CASE CommitPurge
    BY <1>9 DEF CommitPurge, PurgeState, Idle, Nothing
  <1>10. QED
    BY <1>0, <1>1, <1>2, <1>3, <1>4, <1>5, <1>6, <1>7, <1>8, <1>9
    DEF Answering, Waiting, Purging, Rest, PurgeStep, Prune, PurgeCrash, PurgeVictim

-----------------------------------------------------------------------------
(* Accounts and invitations *)

(* A step creates an account with an address that no active account has,    *)
(* or it scrubs accounts.                                                   *)
Creates(r) ==
  \E e \in Emails, c \in Names :
    /\ user' = [user EXCEPT ![r] = Active(e, c)]
    /\ ~EmailTaken(e) /\ user[r].state = "NONE"
    /\ req'[r].kind = "ACCEPT" => e = inv'[req'[r].token].email
    /\ UNCHANGED <<held, purge, known>>

Scrubbed(u) == CommitPurge /\ u \in held.users /\ user'[u].state = "SCRUBBED" /\ Kept(u)

LEMMA UserSteps ==
  ASSUME TypeOK, RowsAreThere, PurgeState, [Next]_vars
  PROVE  \/ \E r \in Requests : Creates(r)
         \/ \A u \in Names : user'[u] = user[u] \/ Scrubbed(u)
  <1> USE LocalType DEF TypeOK, AccountsTypeOK
  <1>1. ASSUME NEW r \in Requests, Signup(r), Rest, ~(user' = user)
        PROVE  Creates(r)
    <2>1. PICK e \in Emails : /\ ~EmailTaken(e) /\ user' = [user EXCEPT ![r] = Active(e, r)]
                              /\ End(r, Sent("SIGNUP", e, None), "done")
      BY <1>1 DEF Signup
    <2>2. Sent("SIGNUP", e, None) \in Request /\ Sent("SIGNUP", e, None).kind = "SIGNUP"
      <3>1. Sent("SIGNUP", e, None) \in Request
        BY SentType DEF Kinds
      <3>2. QED
        BY <3>1, SentFields
    <2>3. req'[r].kind # "ACCEPT"
      BY <2>1, <2>2, EndFields DEF Ended
    <2>4. user[r].state = "NONE"
      BY <1>1 DEF Signup, RowsAreThere, RowState, Settled, Ended, NothingOf, NoAccount
    <2>5. QED
      BY <1>1, <2>1, <2>3, <2>4 DEF Creates, Rest
  <1>2. ASSUME NEW r \in Requests, CreateAccount(r), Rest, ~(user' = user)
        PROVE  Creates(r)
    <2> DEFINE i == req[r].token
    <2>1. /\ ~EmailTaken(inv[i].email) /\ user' = [user EXCEPT ![r] = Active(inv[i].email, inv[i].company)]
          /\ inv' = [inv EXCEPT ![i].state = "CLOSED"] /\ Goto(r, req[r], "created")
      BY <1>2 DEF CreateAccount, Refuses
    <2>2. /\ i \in Names /\ inv[i].email \in Emails /\ inv[i].company \in Names
          /\ req[r].kind = "ACCEPT"
      BY <1>2 DEF CreateAccount, RowsAreThere, RequestState, RowState
    <2>3. req'[r].token = i
      BY <2>1, GotoFields DEF Steps
    <2>4. inv'[i].email = inv[i].email
      BY <2>1, <2>2 DEF Invitation
    <2>5. user[r].state = "NONE"
      BY <1>2 DEF CreateAccount, RowsAreThere, RowState, Settled, Ended, NothingOf, NoAccount
    <2>6. QED
      BY <1>2, <2>1, <2>2, <2>3, <2>4, <2>5 DEF Creates, Rest
  <1>3. ASSUME NEW r \in Requests, Acts(r), ~Signup(r), ~CreateAccount(r)
        PROVE  user' = user
    BY <1>3
    DEF Acts, AccountStep, Arrive, Abort, CheckThrottle, Logout, ReadSession, ReadInvitation, Verify,
        ReadThrottle, RecordFailure, StartSession, Enter, Invite, NewSession, Hire, LoadDriver, Check,
        Anonymize, RequestDeletion, RequestVictim, erasable, accounts
  <1>4. CASE Answering
    BY <1>1, <1>2, <1>3, <1>4 DEF Answering
  <1>5. CASE Purging
    <2>1. CASE CommitPurge
      <3>1. ASSUME NEW u \in Names
            PROVE  user'[u] = user[u] \/ (u \in held.users /\ user'[u].state = "SCRUBBED")
        <4>1. user'[u] = IF u \in held.users THEN [user[u] EXCEPT !.state = "SCRUBBED"] ELSE user[u]
          BY <2>1 DEF CommitPurge
        <4>2. user[u] \in User
          OBVIOUS
        <4>3. QED
          BY <4>1, <4>2 DEF User
      <3>2. QED
        BY <1>5, <2>1, <3>1 DEF Purging, Scrubbed
    <2>2. CASE ~CommitPurge
      BY <1>5, <2>2
      DEF Purging, Prune, PurgeStep, SelectDue, TakeCompany, ScrubUsers, ScrubDrivers, TakeSession,
          FinishCompany, PurgeVictim, PurgeCrash, erasable, accounts
    <2>3. QED
      BY <2>1, <2>2
  <1>6. QED
    BY <1>4, <1>5, Sorted DEF Waiting

LEMMA OneAccountPerEmailSteps ==
  ASSUME TypeOK, RowsAreThere, PurgeState, OneAccountPerEmail, [Next]_vars
  PROVE  OneAccountPerEmail'
  <1>1. ASSUME NEW r \in Requests, Creates(r) PROVE OneAccountPerEmail'
    <2>1. PICK e \in Emails, c \in Names : user' = [user EXCEPT ![r] = Active(e, c)] /\ ~EmailTaken(e)
      BY <1>1 DEF Creates
    <2>2. \A u \in Names : ~(user[u].state = "ACTIVE" /\ user[u].email = e)
      BY <2>1 DEF EmailTaken, AccountsOf
    <2>3. /\ user'[r].email = e
          /\ \A u \in Names \ {r} : user'[u] = user[u]
      BY <2>1, LocalType DEF TypeOK, AccountsTypeOK, Active
    <2>4. QED
      BY <2>2, <2>3 DEF OneAccountPerEmail
  <1>2. CASE \A u \in Names : user'[u] = user[u] \/ Scrubbed(u)
    BY <1>2 DEF OneAccountPerEmail, Scrubbed
  <1>3. QED
    BY <1>1, <1>2, UserSteps

LEMMA AccountsAsInvitedSteps ==
  ASSUME TypeOK, RowsAreThere, PurgeState, AccountsAsInvited, [Next]_vars
  PROVE  AccountsAsInvited'
  <1>0. Steady /\ (Answering \/ Waiting \/ Purging)
    BY Sorted
  <1>1. ASSUME NEW p \in Requests, req'[p].kind = "ACCEPT", user'[p].state # "NONE",
               user[p].state # "NONE", req[p].kind = "ACCEPT", req'[p].token = req[p].token
        PROVE  user'[p].email = inv'[req'[p].token].email
    <2>1. user'[p].email = user[p].email
      BY <1>0, <1>1, LocalType DEF Steady, NothingOf, NoAccount, Kept
    <2>2. req[p].token \in Names /\ inv[req[p].token].state # "NONE"
      BY <1>1 DEF RowsAreThere, RequestState
    <2>3. inv'[req[p].token].email = inv[req[p].token].email
      BY <1>0, <2>2 DEF Steady, NothingOf, NoAccount, Kept
    <2>4. QED
      BY <1>1, <2>1, <2>3 DEF AccountsAsInvited
  <1>2. ASSUME NEW p \in Requests, req'[p].kind = "ACCEPT", user[p].state # "NONE"
        PROVE  req[p].kind = "ACCEPT" /\ req'[p].token = req[p].token
    <2>1. Settled(p)
      BY <1>2, LocalType DEF RowsAreThere, RowState, NothingOf, NoAccount
    <2>2. CASE req'[p] = req[p]
      BY <1>2, <2>2
    <2>3. CASE req'[p] # req[p]
      <3>1. PICK how \in Ended : End(p, req[p], how)
        <4>1. PICK r \in Requests : Acts(r) /\ Frame(r)
          BY <1>0, <2>3 DEF Answering, Waiting, Purging
        <4>2. Acts(p) /\ req[p].at = "created"
          BY <2>1, <2>3, <4>1 DEF Frame, Settled
        <4>3. NewSession(p) \/ Abort(p)
          BY <4>2
          DEF Acts, AccountStep, Arrive, Signup, CheckThrottle, Logout, ReadSession, ReadInvitation,
              Verify, ReadThrottle, RecordFailure, StartSession, Enter, Invite, CreateAccount, Hire,
              LoadDriver, Check, Anonymize, RequestDeletion, RequestVictim, Deadlocked
        <4>4. QED
          BY <4>3 DEF NewSession, Abort, Ended
      <3>2. QED
        BY <1>2, <3>1, LocalType, EndFields DEF TypeOK, AccountsTypeOK
    <2>4. QED
      BY <2>2, <2>3
  <1>3. ASSUME NEW p \in Requests, req'[p].kind = "ACCEPT", user[p].state = "NONE", user'[p].state # "NONE"
        PROVE  user'[p].email = inv'[req'[p].token].email
    <2>1. PICK r \in Requests : Creates(r)
      BY <1>3, UserSteps, LocalType DEF Kept, Scrubbed
    <2>2. r = p
      BY <1>3, <2>1, LocalType DEF Creates, TypeOK, AccountsTypeOK
    <2>3. QED
      BY <1>3, <2>1, <2>2, LocalType DEF Creates, Active, TypeOK, AccountsTypeOK
  <1>4. QED
    BY <1>1, <1>2, <1>3 DEF AccountsAsInvited

-----------------------------------------------------------------------------
(* The login throttle *)

LEMMA RejectedGrows ==
  ASSUME TypeOK, RowsAreThere, PurgeState, [Next]_vars, NEW e \in Emails
  PROVE  /\ IsFiniteSet(Rejected(e)) /\ IsFiniteSet(Rejected(e)')
         /\ Rejected(e) \subseteq Rejected(e)'
         /\ Cardinality(Rejected(e)) \in Nat /\ Cardinality(Rejected(e)') \in Nat
         /\ Cardinality(Rejected(e)) <= Cardinality(Rejected(e)')
         /\ Earlier(e) \in Nat
  <1>1. Rejected(e) \subseteq Requests /\ Rejected(e)' \subseteq Requests
    BY DEF Rejected
  <1>2. IsFiniteSet(Rejected(e)) /\ IsFiniteSet(Rejected(e)')
    BY <1>1, FS_Subset, NamesAssumption
  <1>3. Answering \/ req' = req
    BY Sorted DEF Waiting, Purging
  <1>4. Rejected(e) \subseteq Rejected(e)'
    BY <1>3 DEF Answering, Frame, Rejected, Ended
  <1>5. Earlier(e) \in Nat
    BY FailsAssumption DEF Earlier
  <1>6. QED
    BY <1>2, <1>4, <1>5, FS_Subset, FS_CardinalityType

(* Failed logins of an address that count *)
Failed(e) == Earlier(e) + Cardinality(Rejected(e))

LEMMA FailedGrows ==
  ASSUME TypeOK, RowsAreThere, PurgeState, FailsAreCounted, LockIsEarned, [Next]_vars
  PROVE  /\ MaxFails \in Nat
         /\ \A e \in Emails : /\ Failed(e) \in Nat /\ Failed(e)' \in Nat /\ Failed(e) <= Failed(e)'
                              /\ throttle[e].fails \in Nat /\ throttle[e].fails <= Failed(e)
                              /\ throttle[e].lock # "NONE" => Failed(e) >= MaxFails
  <1>1. MaxFails \in Nat
    BY FailsAssumption
  <1>2. ASSUME NEW e \in Emails
        PROVE  Failed(e) \in Nat /\ Failed(e)' \in Nat /\ Failed(e) <= Failed(e)'
    BY RejectedGrows DEF Failed
  <1>3. \A e \in Emails : throttle[e].fails \in Nat
    BY DEF TypeOK, AccountsTypeOK, Throttle
  <1>4. QED
    BY <1>1, <1>2, <1>3 DEF FailsAreCounted, LockIsEarned, Failed

LEMMA ThrottleSteps ==
  ASSUME TypeOK, RowsAreThere, PurgeState, FailsAreCounted, LockIsEarned, [Next]_vars,
         NEW e \in Emails
  PROVE  /\ throttle'[e].fails <= Failed(e)'
         /\ throttle'[e].lock # "NONE" => Failed(e)' >= MaxFails
  <1> USE LocalType, FailedGrows
  <1>1. ASSUME throttle'[e].fails \in {0, throttle[e].fails},
               throttle'[e].lock # "NONE" => throttle[e].lock # "NONE"
        PROVE  /\ throttle'[e].fails <= Failed(e)'
               /\ throttle'[e].lock # "NONE" => Failed(e)' >= MaxFails
    BY <1>1
  <1>2. ASSUME NEW r \in Requests, RecordFailure(r), Frame(r)
        PROVE  /\ throttle'[e].fails <= Failed(e)'
               /\ throttle'[e].lock # "NONE" => Failed(e)' >= MaxFails
    <2> DEFINE n == req[r].throttle.fails + 1
    <2>1. CASE throttle' = throttle \/ e # req[r].email
      <3>1. throttle'[e] = throttle[e]
        BY <1>2, <2>1 DEF RecordFailure, TypeOK, AccountsTypeOK
      <3>2. QED
        BY <1>1, <3>1
    <2>2. CASE ~(throttle' = throttle) /\ e = req[r].email
      <3>1. End(r, req[r], "rejected")
        BY <1>2, <2>2 DEF RecordFailure
      <3>2. /\ throttle'[e].fails = n
            /\ throttle'[e].lock = IF n >= MaxFails THEN "RUNNING" ELSE throttle[e].lock
        <4>1. throttle' = [throttle EXCEPT ![e] = [row |-> TRUE, fails |-> n,
                             lock |-> IF Locks(n) THEN "RUNNING" ELSE throttle[e].lock]]
          BY <1>2, <2>2 DEF RecordFailure
        <4>2. throttle'[e] = [row |-> TRUE, fails |-> n,
                              lock |-> IF Locks(n) THEN "RUNNING" ELSE throttle[e].lock]
          BY <4>1 DEF TypeOK, AccountsTypeOK
        <4>3. QED
          BY <4>2 DEF Locks
      <3>3. req[r].throttle.fails \in Nat
        <4>1. req[r].throttle \in Throttle
          BY LocalType
        <4>2. QED
          BY <4>1 DEF Throttle
      <3>4. req[r].throttle.fails <= Failed(e)
        BY <1>2, <2>2 DEF FailsAreCounted, Failed, RecordFailure
      <3>5. req[r].kind = "LOGIN" /\ req[r].at = "count"
        BY <1>2 DEF RecordFailure, RowsAreThere, RequestState
      <3>6. req'[r].at = "rejected" /\ req'[r].email = e
        BY <2>2, <3>1, <3>5, EndFields DEF Ended, TypeOK, AccountsTypeOK
      <3>7. Rejected(e)' = Rejected(e) \cup {r} /\ r \notin Rejected(e)
        BY <1>2, <3>5, <3>6 DEF Frame, Rejected
      <3>8. Failed(e)' = Failed(e) + 1
        <4>1. /\ IsFiniteSet(Rejected(e)) /\ Cardinality(Rejected(e)) \in Nat
              /\ Earlier(e) \in Nat
          BY RejectedGrows
        <4>2. Cardinality(Rejected(e) \cup {r}) = Cardinality(Rejected(e)) + 1
          BY <3>7, <4>1, FS_AddElement
        <4>3. Cardinality(Rejected(e)') = Cardinality(Rejected(e)) + 1
          BY <3>7, <4>2
        <4>4. QED
          BY <4>1, <4>3 DEF Failed, Earlier
      <3>9. QED
        BY <3>2, <3>3, <3>4, <3>8
    <2>3. QED
      BY <2>1, <2>2
  <1>3. ASSUME NEW r \in Requests, StartSession(r)
        PROVE  /\ throttle'[e].fails \in {0, throttle[e].fails}
               /\ throttle'[e].lock # "NONE" => throttle[e].lock # "NONE"
    <2>1. throttle'[e] = throttle[e] \/ throttle'[e] = Reset(throttle[e], req[r].throttle)
      BY <1>3 DEF StartSession, TypeOK, AccountsTypeOK
    <2>2. QED
      BY <2>1 DEF Reset
  <1>4. ASSUME NEW a \in Emails, LockEnds(a)
        PROVE  /\ throttle'[e].fails \in {0, throttle[e].fails}
               /\ throttle'[e].lock # "NONE" => throttle[e].lock # "NONE"
    BY <1>4 DEF LockEnds, TypeOK, AccountsTypeOK, Throttle
  <1>5. ASSUME NEW r \in Requests, Acts(r), ~RecordFailure(r), ~StartSession(r)
        PROVE  throttle' = throttle
    BY <1>5
    DEF Acts, AccountStep, Arrive, Abort, Signup, CheckThrottle, Logout, ReadSession, ReadInvitation,
        Verify, ReadThrottle, Enter, Invite, CreateAccount, NewSession, Hire, LoadDriver, Check,
        Anonymize, RequestDeletion, RequestVictim, erasable, accounts
  <1>6. CASE throttle' = throttle
    BY <1>1, <1>6
  <1>7. CASE Answering
    BY <1>1, <1>2, <1>3, <1>5, <1>6, <1>7 DEF Answering
  <1>8. CASE Purging
    BY <1>6, <1>8
    DEF Purging, Prune, PurgeStep, SelectDue, TakeCompany, ScrubUsers, ScrubDrivers, TakeSession,
        FinishCompany, CommitPurge, PurgeVictim, PurgeCrash, erasable, accounts
  <1>9. CASE \/ TimePasses \/ (\E c \in Names : GraceEnds(c)) \/ (\E m \in Names : MailAges(m))
    BY <1>1, <1>4, <1>6, <1>9
    DEF TimePasses, SessionExpires, InvitationExpires, GraceEnds, MailAges, accounts
  <1>10. CASE UNCHANGED vars
    BY <1>6, <1>10 DEF vars, erasable, accounts
  <1>11. QED
    BY <1>7, <1>8, <1>9, <1>10, Sorted DEF Waiting, Passing

LEMMA FailuresSteps ==
  ASSUME TypeOK, RowsAreThere, PurgeState, FailsAreCounted, LockIsEarned, [Next]_vars
  PROVE  FailsAreCounted' /\ LockIsEarned'
  <1> USE FailedGrows
  <1>1. ASSUME NEW r \in Requests, NEW e \in Emails, req'[r].at = "count", req'[r].email = e
        PROVE  req'[r].throttle.fails <= Failed(e)'
    <2>1. CASE req'[r] = req[r]
      <3>1. req[r].throttle \in Throttle
        BY LocalType
      <3>2. req[r].throttle.fails \in Nat
        BY <3>1 DEF Throttle
      <3>3. req[r].throttle.fails <= Failed(e)
        BY <1>1, <2>1 DEF FailsAreCounted, Failed
      <3>4. QED
        BY <2>1, <3>2, <3>3
    <2>2. CASE Counts(r)
      BY <1>1, <2>2 DEF Counts
    <2>3. QED
      <3>1. CASE Answering
        <4>1. PICK p \in Requests : Acts(p) /\ Frame(p)
          BY <3>1 DEF Answering
        <4>2. CASE p # r
          BY <2>1, <4>1, <4>2 DEF Frame
        <4>3. CASE p = r
          BY <1>1, <2>2, <4>1, <4>3, Ways DEF Ends, Ended, Enters, Loads, Goes
        <4>4. QED
          BY <4>2, <4>3
      <3>2. CASE req' = req
        BY <2>1, <3>2
      <3>3. QED
        BY <3>1, <3>2, Sorted DEF Waiting, Purging
  <1>2. QED
    BY <1>1, ThrottleSteps DEF FailsAreCounted, LockIsEarned, Failed

-----------------------------------------------------------------------------
(* Sessions of accounts that the purge erases *)

LEMMA LogoutsStay ==
  ASSUME TypeOK, RowsAreThere, PurgeState, [Next]_vars, NEW s, LoggedOut(s)
  PROVE  LoggedOut(s)'
  <1>1. PICK q \in Requests : req[q].kind = "LOGOUT" /\ req[q].token = s
    BY DEF LoggedOut
  <1>2. req[q].at = "done"
    BY <1>1 DEF RowsAreThere, RequestState
  <1>3. req'[q] = req[q]
    BY <1>2, Sorted DEF Answering, Waiting, Purging, Frame, Ended
  <1>4. QED
    BY <1>1, <1>3 DEF LoggedOut

(* A session is opened for an account that the purge has not written, and   *)
(* it is revoked by a logout that nobody who works in it overlaps with, or  *)
(* by the purge.                                                            *)
LEMMA SessionSteps ==
  ASSUME TypeOK, RowsAreThere, PurgeState, [Next]_vars, NEW s \in Names
  PROVE  \/ sess'[s] = sess[s]
         \/ /\ sess[s].state = "NONE" /\ sess'[s].state = "LIVE"
            /\ sess'[s].user \notin held.users /\ Rest /\ user'[sess'[s].user].state # "NONE"
         \/ sess[s].state = "LIVE" /\ sess'[s].state = "EXPIRED" /\ sess'[s].user = sess[s].user /\ Rest
         \/ /\ sess[s].state # "NONE" /\ sess'[s].state = "REVOKED" /\ sess'[s].user = sess[s].user
            /\ LoggedOut(s)' /\ Rest
         \/ CommitPurge /\ s \in held.sessions /\ sess'[s].state = "REVOKED"
  <1> USE LocalType DEF TypeOK, AccountsTypeOK
  <1> DEFINE Goal ==
         \/ sess'[s] = sess[s]
         \/ /\ sess[s].state = "NONE" /\ sess'[s].state = "LIVE"
            /\ sess'[s].user \notin held.users /\ Rest /\ user'[sess'[s].user].state # "NONE"
         \/ sess[s].state = "LIVE" /\ sess'[s].state = "EXPIRED" /\ sess'[s].user = sess[s].user /\ Rest
         \/ /\ sess[s].state # "NONE" /\ sess'[s].state = "REVOKED" /\ sess'[s].user = sess[s].user
            /\ LoggedOut(s)' /\ Rest
         \/ CommitPurge /\ s \in held.sessions /\ sess'[s].state = "REVOKED"
  <1> SUFFICES Goal
    OBVIOUS
  <1>0. RowsAreThere'
    BY Sorted
  <1>1. ASSUME NEW r \in Requests, Signup(r), Rest PROVE Goal
    <2>1. NothingOf(r)
      BY <1>1 DEF Signup, RowsAreThere, RowState, Settled, Ended
    <2>2. r \notin held.users
      <3>1. user[r].company = None
        BY <2>1 DEF NothingOf, NoAccount
      <3>2. QED
        BY <3>1, HeldSets DEF PurgeState
    <2>3. sess' = sess \/ sess' = [sess EXCEPT ![r] = LiveSession(r)]
      BY <1>1 DEF Signup
    <2>4. CASE s # r
      BY <2>3, <2>4
    <2>5. CASE s = r /\ sess'[s] # sess[s]
      <3>1. sess'[r].state = "LIVE" /\ sess'[r].user = r /\ sess[r].state = "NONE"
        BY <2>1, <2>3, <2>5 DEF NothingOf, NoSession, LiveSession
      <3>2. user'[r].state # "NONE"
        BY <1>0, <3>1 DEF RowsAreThere, RowState
      <3>3. QED
        BY <1>1, <2>2, <2>5, <3>1, <3>2
    <2>6. QED
      BY <2>4, <2>5
  <1>2. ASSUME NEW r \in Requests, StartSession(r), Rest PROVE Goal
    <2>1. NothingOf(r)
      BY <1>2 DEF StartSession, RowsAreThere, RowState, Settled, Ended
    <2>2. sess' = [sess EXCEPT ![r] = LiveSession(req[r].who)] /\ req[r].who \notin held.users
      BY <1>2 DEF StartSession
    <2>3. CASE s # r
      BY <2>2, <2>3
    <2>4. CASE s = r
      <3>1. sess'[r].state = "LIVE" /\ sess'[r].user = req[r].who /\ sess[r].state = "NONE"
        BY <2>1, <2>2 DEF NothingOf, NoSession, LiveSession
      <3>2. user'[req[r].who].state # "NONE"
        BY <1>0, <3>1 DEF RowsAreThere, RowState
      <3>3. QED
        BY <1>2, <2>2, <2>4, <3>1, <3>2
    <2>5. QED
      BY <2>3, <2>4
  <1>3. ASSUME NEW r \in Requests, Logout(r), Rest PROVE Goal
    <2>1. PICK t \in Names : /\ sess[t].state # "NONE"
                             /\ sess' = [sess EXCEPT ![t].state = "REVOKED"]
                             /\ End(r, Sent("LOGOUT", None, t), "done")
      BY <1>3 DEF Logout
    <2>2. CASE s # t
      BY <2>1, <2>2
    <2>3. CASE s = t
      <3>1. Sent("LOGOUT", None, t) \in Request
        BY SentType DEF Kinds
      <3>2. Sent("LOGOUT", None, t).kind = "LOGOUT" /\ Sent("LOGOUT", None, t).token = t
        BY SentFields
      <3>3. req'[r].kind = "LOGOUT" /\ req'[r].token = t
        BY <2>1, <3>1, <3>2, EndFields DEF Ended
      <3>4. LoggedOut(s)'
        BY <2>3, <3>3 DEF LoggedOut
      <3>5. sess'[t].state = "REVOKED" /\ sess'[t].user = sess[t].user
        BY <2>1 DEF Session
      <3>6. QED
        BY <1>3, <2>1, <2>3, <3>4, <3>5
    <2>4. QED
      BY <2>2, <2>3
  <1>4. ASSUME NEW t \in Names, SessionExpires(t), Rest PROVE Goal
    BY <1>4 DEF SessionExpires, Session
  <1>5. CASE CommitPurge
    <2>1. sess'[s] = IF s \in held.sessions THEN [sess[s] EXCEPT !.state = "REVOKED"] ELSE sess[s]
      BY <1>5 DEF CommitPurge
    <2>2. QED
      BY <1>5, <2>1 DEF Session
  <1>6. CASE sess' = sess
    BY <1>6
  <1>7. ASSUME NEW r \in Requests, Acts(r), ~Signup(r), ~StartSession(r), ~Logout(r)
        PROVE  sess' = sess
    BY <1>7
    DEF Acts, AccountStep, Arrive, Abort, CheckThrottle, ReadSession, ReadInvitation, Verify,
        ReadThrottle, RecordFailure, Enter, LastSeenOnly, Invite, CreateAccount, NewSession, Hire,
        LoadDriver, Check, Anonymize, RequestDeletion, RequestVictim, erasable, accounts
  <1> HIDE DEF Goal
  <1>8. CASE Answering
    BY <1>1, <1>2, <1>3, <1>6, <1>7, <1>8 DEF Answering
  <1>9. CASE Purging
    BY <1>5, <1>6, <1>9
    DEF Purging, Prune, PurgeStep, SelectDue, TakeCompany, ScrubUsers, ScrubDrivers, TakeSession,
        FinishCompany, PurgeVictim, PurgeCrash, erasable, accounts
  <1>10. CASE Waiting
    BY <1>4, <1>6, <1>10
    DEF Waiting, Passing, TimePasses, InvitationExpires, LockEnds, GraceEnds, MailAges, vars, erasable, accounts
  <1>11. QED
    BY <1>8, <1>9, <1>10, Sorted

LEMMA SessionsFollowSteps ==
  ASSUME TypeOK, RowsAreThere, PurgeState, SessionsFollowAccounts, [Next]_vars
  PROVE  SessionsFollowAccounts'
  <1> USE HeldSets
  <1>0. Steady /\ RowsAreThere' /\ (Answering \/ Waiting \/ Purging)
    BY Sorted
  <1> SUFFICES ASSUME NEW s \in Names, Open(s)', sess'[s].user \in held'.users
               PROVE  \/ s \in held'.sessions
                      \/ purge'.at = "drivers" /\ Home(s)' = purge'.company
                      \/ purge'.at = "sessions" /\ s \in purge'.sessions
    BY DEF SessionsFollowAccounts
  <1>1. CASE Rest
    <2>1. Open(s) /\ sess[s].user \in held.users
      <3>1. ~(CommitPurge /\ s \in held.sessions /\ sess'[s].state = "REVOKED")
        BY DEF Open
      <3>2. QED
        BY <1>1, <3>1, SessionSteps DEF Open, Rest
    <2>2. Home(s)' = Home(s)
      BY <1>0, <2>1, HomeKept DEF Open
    <2>3. QED
      BY <1>1, <2>1, <2>2 DEF SessionsFollowAccounts, Rest
  <1>2. CASE RollBack \/ CommitPurge
    <2>1. held' = Nothing
      BY <1>2 DEF RollBack, CommitPurge
    <2>2. QED
      BY <2>1 DEF Nothing
  <1>3. CASE UNCHANGED erasable
    <2>1. Open(s) /\ Home(s)' = Home(s) /\ sess' = sess /\ sess[s].state # "NONE"
      BY <1>3 DEF Open, Home, erasable, accounts
    <2>2. CASE SelectDue
      BY <2>2 DEF SelectDue, PurgeState, Nothing
    <2>3. CASE TakeCompany
      <3>1. held'.users = held.users /\ held'.sessions = held.sessions
        BY <2>3 DEF TakeCompany, TypeOK, AccountsTypeOK, Held
      <3>2. QED
        BY <2>1, <2>3, <3>1 DEF TakeCompany, SessionsFollowAccounts
    <2>4. CASE ScrubUsers
      <3>1. /\ held'.users = held.users \cup purge.users /\ held'.sessions = held.sessions
            /\ purge'.at = "drivers" /\ purge'.company = purge.company
        BY <2>4 DEF ScrubUsers, TypeOK, AccountsTypeOK, Held, Purge
      <3>2. CASE sess[s].user \in held.users
        BY <2>1, <2>4, <3>1, <3>2 DEF ScrubUsers, SessionsFollowAccounts
      <3>3. CASE sess[s].user \in purge.users
        BY <2>1, <3>1, <3>3 DEF PurgeState, Home
      <3>4. QED
        BY <2>1, <3>1, <3>2, <3>3
    <2>5. CASE ScrubDrivers /\ ~RollBack
      <3>1. /\ held'.users = held.users /\ held'.sessions = held.sessions
            /\ purge'.at = "sessions" /\ purge'.sessions = OpenSessions(purge.company)
        BY <2>5 DEF ScrubDrivers, TypeOK, AccountsTypeOK, Held, Purge
      <3>2. s \in held.sessions \/ Home(s) = purge.company
        BY <2>1, <2>5, <3>1 DEF ScrubDrivers, SessionsFollowAccounts
      <3>3. QED
        BY <2>1, <3>1, <3>2 DEF OpenSessions, Open, Home
    <2>6. ASSUME NEW t \in Names, TakeSession(t)
          PROVE  \/ s \in held'.sessions
                 \/ purge'.at = "sessions" /\ s \in purge'.sessions
      <3>1. /\ held'.users = held.users /\ held'.sessions = held.sessions \cup {t}
            /\ purge'.at = "sessions" /\ purge'.sessions = purge.sessions \ {t}
        BY <2>6 DEF TakeSession, TypeOK, AccountsTypeOK, Held, Purge
      <3>2. QED
        BY <2>1, <2>6, <3>1 DEF TakeSession, SessionsFollowAccounts
    <2>7. CASE FinishCompany
      <3>1. held'.users = held.users /\ held'.sessions = held.sessions
        BY <2>7 DEF FinishCompany, TypeOK, AccountsTypeOK, Held
      <3>2. QED
        BY <2>1, <2>7, <3>1 DEF FinishCompany, SessionsFollowAccounts
    <2>8. QED
      BY <1>0, <1>1, <1>2, <2>2, <2>3, <2>4, <2>5, <2>6, <2>7
      DEF Answering, Waiting, Purging, PurgeStep, PurgeVictim, PurgeCrash, Prune, Rest
  <1>4. CASE Answering \/ Waiting
    BY <1>1, <1>4 DEF Answering, Waiting
  <1>5. CASE Purging
    <2>1. CASE Prune
      BY <1>1, <2>1 DEF Prune, Rest
    <2>2. CASE PurgeStep \/ PurgeCrash
      BY <1>2, <1>3, <2>2
      DEF PurgeStep, PurgeCrash, PurgeVictim, SelectDue, TakeCompany, ScrubUsers, ScrubDrivers,
          TakeSession, FinishCompany
    <2>3. QED
      BY <1>5, <2>1, <2>2 DEF Purging
  <1>6. QED
    BY <1>0, <1>4, <1>5

LEMMA RevokedSteps ==
  ASSUME TypeOK, RowsAreThere, PurgeState, RevokedForAReason, [Next]_vars
  PROVE  RevokedForAReason'
  <1> SUFFICES ASSUME NEW s \in Names, sess'[s].state = "REVOKED", ~LoggedOut(s)'
               PROVE  company'[Home(s)'] = "DELETED"
    BY DEF RevokedForAReason
  <1>0. Steady /\ ~LoggedOut(s)
    BY Sorted, LogoutsStay
  <1>1. CASE sess'[s] = sess[s]
    <2>1. sess[s].state = "REVOKED" /\ company[Home(s)] = "DELETED"
      BY <1>0, <1>1 DEF RevokedForAReason
    <2>2. Home(s)' = Home(s) /\ Home(s) \in Names
      BY <1>0, <2>1, HomeKept
    <2>3. company'[Home(s)] = "DELETED"
      BY <1>0, <2>1, <2>2 DEF Steady, NothingOf, Kept
    <2>4. QED
      BY <2>2, <2>3
  <1>2. CASE CommitPurge /\ s \in held.sessions
    <2>1. sess[s].state # "NONE" /\ Home(s) \in held.companies
      BY <1>2 DEF PurgeState
    <2>2. Home(s)' = Home(s) /\ Home(s) \in Names
      BY <1>0, <2>1, HomeKept
    <2>3. QED
      BY <1>2, <2>1, <2>2 DEF CommitPurge, Marked
  <1>3. QED
    BY <1>1, <1>2, SessionSteps

LEMMA InsideSteps ==
  ASSUME TypeOK, RowsAreThere, PurgeState, SessionsFollowAccounts, RevokedForAReason,
         InsideIsActive, [Next]_vars
  PROVE  InsideIsActive'
  <1> USE HeldSets
  <1>0. Steady /\ RowsAreThere' /\ (Answering \/ Waiting \/ Purging)
    BY Sorted
  <1> SUFFICES ASSUME NEW r \in Requests, NEW s \in Names, NEW u \in Names,
                      Inside(r)', req'[r].token = s, req'[r].who = u
               PROVE  /\ s \notin held'.sessions
                      /\ ~LoggedOut(s)' =>
                           /\ user'[u].state = "ACTIVE"
                           /\ (Open(s)' \/ company'[user'[u].company] = "DELETED")
    BY DEF InsideIsActive
  <1>1. sess'[s].state # "NONE" /\ sess'[s].user = u
    BY <1>0 DEF RowsAreThere, RequestState, Inside
  (* as it was before the step *)
  <1>2. /\ s \notin held.sessions
        /\ sess[s].state # "NONE" /\ sess[s].user = u /\ Home(s) = user[u].company
        /\ ~LoggedOut(s)' =>
             /\ user[u].state = "ACTIVE"
             /\ (Open(s) \/ company[user[u].company] = "DELETED")
    <2>1. CASE Inside(r) /\ req'[r].token = req[r].token /\ req'[r].who = req[r].who
      <3>1. sess[s].state # "NONE" /\ sess[s].user = u
        BY <2>1 DEF Inside, RowsAreThere, RequestState, RowState
      <3>2. ~LoggedOut(s)' => ~LoggedOut(s)
        BY LogoutsStay
      <3>3. QED
        BY <2>1, <3>1, <3>2 DEF InsideIsActive, Home
    <2>2. CASE Enters(r)
      <3>1. s = req[r].token /\ u = req[r].who /\ req[r].at = "resolved" /\ SessionFree(s)
        BY <2>2 DEF Enters, Same, Enter
      <3>2. sess[s].state # "NONE" /\ sess[s].user = u
        BY <3>1 DEF RowsAreThere, RequestState, RowState
      <3>3. user[u].state = "ACTIVE"
        <4>1. req'[r].at = "entered"
          BY <2>2 DEF Enters
        <4>2. ~End(r, req[r], "refused")
          <5>1. req[r] \in Request /\ req \in [Requests -> Request]
            BY DEF TypeOK, AccountsTypeOK
          <5>2. QED
            BY <4>1, <5>1, EndFields DEF Ended
        <4>3. QED
          BY <2>2, <3>1, <4>2 DEF Enters, Enter
      <3>4. ~LoggedOut(s)' => ~LoggedOut(s)
        BY LogoutsStay
      <3>5. ~LoggedOut(s)' => Open(s) \/ company[user[u].company] = "DELETED"
        <4>1. sess[s].state \in {"LIVE", "EXPIRED", "REVOKED"}
          BY <1>1, <3>2 DEF TypeOK, AccountsTypeOK, Session
        <4>2. QED
          BY <1>1, <3>2, <3>4, <4>1 DEF Open, RevokedForAReason, Home
      <3>6. QED
        BY <3>1, <3>2, <3>3, <3>5 DEF SessionFree, Home
    <2>3. CASE Answering
      <3>1. PICK p \in Requests : Acts(p) /\ Frame(p)
        BY <2>3 DEF Answering
      <3>2. CASE p # r
        BY <2>1, <3>1, <3>2 DEF Frame, Inside
      <3>3. CASE p = r
        <4>1. Enters(r) \/ Loads(r)
          BY <3>1, <3>3, Ways DEF Ends, Ended, Counts, Goes, Inside
        <4>2. Loads(r) => Inside(r)
          BY DEF Loads, LoadDriver, Inside
        <4>3. QED
          BY <2>1, <2>2, <4>1, <4>2 DEF Loads, Same
      <3>4. QED
        BY <3>2, <3>3
    <2>4. CASE req' = req
      BY <2>1, <2>4 DEF Inside
    <2>5. QED
      BY <1>0, <2>3, <2>4 DEF Waiting, Purging
  <1>3. user[u].company \in Names /\ user'[u].company = user[u].company
    BY <1>0, <1>2, HomeKept
  <1>4. company[user[u].company] = "DELETED" => company'[user[u].company] = "DELETED"
    BY <1>0, <1>3 DEF Steady, NothingOf, Kept
  <1>5. s \notin held'.sessions
    <2>1. CASE Rest
      BY <1>2, <2>1 DEF Rest
    <2>2. CASE RollBack \/ CommitPurge
      <3>1. held' = Nothing
        BY <2>2 DEF RollBack, CommitPurge
      <3>2. QED
        BY <3>1 DEF Nothing
    <2>3. ASSUME NEW t \in Names, TakeSession(t), req' = req PROVE s \notin held'.sessions
      <3>1. held'.sessions = held.sessions \cup {t}
        BY <2>3 DEF TakeSession, TypeOK, AccountsTypeOK, Held
      <3>2. t # s
        BY <2>3 DEF TakeSession, InUse, Inside
      <3>3. QED
        BY <1>2, <3>1, <3>2
    <2>4. CASE SelectDue \/ TakeCompany \/ ScrubUsers \/ (ScrubDrivers /\ ~RollBack) \/ FinishCompany \/ Prune
      <3>1. held' = held \/ held'.sessions = held.sessions
        <4>1. held \in Held
          BY DEF TypeOK, AccountsTypeOK
        <4>2. CASE SelectDue \/ Prune
          BY <4>2 DEF SelectDue, Prune
        <4>3. CASE TakeCompany \/ ScrubUsers
          BY <4>1, <4>3 DEF TakeCompany, ScrubUsers, Held
        <4>4. CASE (ScrubDrivers /\ ~RollBack) \/ FinishCompany
          BY <4>1, <4>4 DEF ScrubDrivers, FinishCompany, Held
        <4>5. QED
          BY <2>4, <4>2, <4>3, <4>4
      <3>2. QED
        BY <1>2, <3>1
    <2>5. QED
      BY <1>0, <2>1, <2>2, <2>3, <2>4
      DEF Answering, Waiting, Purging, PurgeStep, PurgeCrash, PurgeVictim
  <1>6. ASSUME ~LoggedOut(s)'
        PROVE  /\ user'[u].state = "ACTIVE"
               /\ (Open(s)' \/ company'[user'[u].company] = "DELETED")
    <2>1. user[u].state = "ACTIVE" /\ (Open(s) \/ company[user[u].company] = "DELETED")
      BY <1>2, <1>6
    <2>2. user'[u].state = "ACTIVE"
      <3>1. u \notin held.users \/ ~CommitPurge
        <4>1. CASE CommitPurge
          <5>1. purge.at = "next"
            BY <4>1 DEF CommitPurge
          <5>2. Open(s) => u \notin held.users
            BY <1>2, <5>1 DEF SessionsFollowAccounts
          <5>3. company[user[u].company] = "DELETED" => u \notin held.users
            BY <5>1 DEF PurgeState
          <5>4. QED
            BY <2>1, <5>2, <5>3
        <4>2. QED
          BY <4>1
      <3>2. ASSUME NEW p \in Requests, Creates(p) PROVE user'[u].state = "ACTIVE"
        BY <2>1, <3>2, LocalType DEF Creates, TypeOK, AccountsTypeOK
      <3>3. QED
        BY <2>1, <3>1, <3>2, UserSteps DEF Scrubbed
    <2>3. Open(s) => Open(s)'
      BY <1>2, <1>6, SessionSteps DEF Open
    <2>4. QED
      BY <1>3, <1>4, <2>1, <2>2, <2>3
  <1>7. QED
    BY <1>5, <1>6

-----------------------------------------------------------------------------
(* What the purge knows of the companies it erases *)

LEMMA SettledKept ==
  ASSUME TypeOK, RowsAreThere, PurgeState, [Next]_vars, NEW n \in Names, Settled(n)
  PROVE  Kept(n) /\ Settled(n)'
  <1>1. CASE Answering
    <2>1. PICK r \in Requests : Frame(r)
      BY <1>1 DEF Answering
    <2>2. CASE n = r
      BY <2>1, <2>2 DEF Frame
    <2>3. CASE n # r
      BY <2>1, <2>3 DEF Frame, Settled
    <2>4. QED
      BY <2>2, <2>3
  <1>2. CASE Waiting \/ Purging
    BY <1>2 DEF Waiting, Purging, Settled
  <1>3. QED
    BY <1>1, <1>2, Sorted

LEMMA RowsOfSettled ==
  ASSUME TypeOK, RowsAreThere, NEW c \in Names, NEW n \in RowsOf(c)
  PROVE  n \in Names /\ Settled(n)
  <1>1. n \in Names /\ c # None
    BY NamesAssumption DEF RowsOf
  <1>2. ~NothingOf(n)
    BY <1>1 DEF RowsOf, NothingOf, NoAccount, NoDriver, NoMail, NoSession
  <1>3. QED
    BY <1>1, <1>2 DEF RowsAreThere, RowState

LEMMA KnownSteps ==
  ASSUME TypeOK, RowsAreThere, PurgeState, [Next]_vars
  PROVE  \/ known' = known
         \/ TakeCompany
         \/ RollBack
  BY Sorted
  DEF Answering, Waiting, Purging, Rest, PurgeStep, Prune, PurgeCrash, PurgeVictim, SelectDue,
      ScrubUsers, ScrubDrivers, TakeSession, FinishCompany, CommitPurge

LEMMA KnownIsSettledSteps ==
  ASSUME TypeOK, RowsAreThere, PurgeState, KnownIsSettled, [Next]_vars
  PROVE  KnownIsSettled'
  <1> USE HeldSets
  <1>1. SUFFICES ASSUME NEW c \in Names, NEW n \in known'[c], ~(n \in known[c])
                 PROVE  n \in Names /\ Settled(n)
    BY SettledKept DEF KnownIsSettled
  <1>2. CASE TakeCompany
    <2>1. PICK b \in purge.batch : known' = [known EXCEPT ![b] = RowsOf(b)]
      BY <1>2 DEF TakeCompany
    <2>2. n \in RowsOf(c)
      BY <1>1, <2>1 DEF TypeOK
    <2>3. QED
      BY <2>2, RowsOfSettled
  <1>3. CASE RollBack
    BY <1>1, <1>3 DEF RollBack
  <1>4. QED
    BY <1>1, <1>2, <1>3, KnownSteps

LEMMA CoveredStays ==
  ASSUME TypeOK, RowsAreThere, Steady, NEW c \in Names, NEW n \in Names, Kept(n), Covered(c, n),
         UNCHANGED <<held, purge>>
  PROVE  Covered(c, n)'
  <1> USE DEF Covered, Doing
  <1>1. RowState(n)
    BY DEF RowsAreThere
  <1>2. AccountCovered(c, n)'
    BY <1>1 DEF AccountCovered, Kept, RowState
  <1>3. DriverCovered(c, n)'
    BY <1>1 DEF DriverCovered, Kept, RowState
  <1>4. SessionCovered(c, n)'
    <2>1. sess[n].state = "NONE" => sess'[n].state = "NONE"
      BY DEF Kept
    <2>2. sess[n].state # "NONE" => Home(n)' = Home(n)
      BY HomeKept
    <2>3. QED
      BY <2>1, <2>2 DEF SessionCovered, Kept
  <1>5. InvitationCovered(c, n)'
    BY <1>1 DEF InvitationCovered, Kept, RowState
  <1>6. MailCovered(c, n)'
    BY NamesAssumption DEF MailCovered, Kept
  <1>7. QED
    BY <1>2, <1>3, <1>4, <1>5, <1>6

LEMMA KnownIsCoveredSteps ==
  ASSUME TypeOK, RowsAreThere, PurgeState, KnownIsCovered, KnownIsSettled, [Next]_vars
  PROVE  KnownIsCovered'
  <1> USE HeldSets
  <1>0. Steady /\ (Answering \/ Waiting \/ Purging)
    BY Sorted
  <1>1. SUFFICES ASSUME NEW c \in held'.companies, NEW n \in known'[c], TypeOK'
                 PROVE  Covered(c, n)'
    BY Sorted DEF KnownIsCovered
  <1>2. c \in Names /\ n \in Names
    BY <1>1 DEF TypeOK, AccountsTypeOK, Held
  <1>3. CASE Rest
    <2>1. c \in held.companies /\ n \in known[c]
      BY <1>3 DEF Rest
    <2>2. Covered(c, n) /\ Kept(n)
      BY <1>2, <2>1, SettledKept DEF KnownIsCovered, KnownIsSettled
    <2>3. QED
      BY <1>0, <1>2, <1>3, <2>2, CoveredStays DEF Rest
  <1>4. CASE held' = Nothing
    BY <1>4 DEF Nothing
  <1>5. CASE UNCHANGED erasable /\ c \in held.companies /\ n \in known[c] /\ (PurgeStep \/ PurgeCrash) /\ ~RollBack
    <2>1. /\ AccountCovered(c, n) /\ DriverCovered(c, n) /\ SessionCovered(c, n)
          /\ InvitationCovered(c, n) /\ MailCovered(c, n)
      BY <1>5 DEF KnownIsCovered, Covered
    <2>2. /\ UNCHANGED <<user, driver, sess, inv, mail>> /\ Home(n)' = Home(n)
          /\ RowState(n) /\ c # None
      BY <1>2, <1>5 DEF erasable, accounts, Home, RowsAreThere
    <2>3. CASE SelectDue
      BY <1>5, <2>3 DEF SelectDue, PurgeState, Nothing
    <2>4. CASE TakeCompany
      <3>1. PICK b \in purge.batch :
              /\ purge' = [purge EXCEPT !.at = "users", !.batch = @ \ {b}, !.company = b,
                                        !.users = {u \in Names : user[u].company = b}]
              /\ held'  = [held EXCEPT !.companies = @ \cup {b}]
        BY <2>4 DEF TakeCompany
      <3>2. /\ held'.users = held.users /\ held'.drivers = held.drivers
            /\ held'.sessions = held.sessions /\ held'.invs = held.invs /\ held'.mails = held.mails
        BY <3>1 DEF TypeOK, AccountsTypeOK, Held
      <3>3. purge.at = "next"
        BY <2>4 DEF TakeCompany
      <3>4. QED
        BY <2>1, <2>2, <3>2, <3>3
        DEF Covered, AccountCovered, DriverCovered, SessionCovered, InvitationCovered, MailCovered, Doing
    <2>5. CASE ScrubUsers
      <3>1. /\ held'.users = held.users \cup purge.users /\ held'.drivers = held.drivers
            /\ held'.sessions = held.sessions /\ held'.invs = held.invs /\ held'.mails = held.mails
            /\ purge'.at = "drivers" /\ purge'.company = purge.company
            /\ purge'.drivers = {<<d, driver[d].version>> :
                 d \in {d \in DriversOf(purge.company) : driver[d].state = "NAMED"}}
        BY <2>5 DEF ScrubUsers, TypeOK, AccountsTypeOK, Held, Purge
      <3>2. purge.at = "users"
        BY <2>5 DEF ScrubUsers
      <3>3. AccountCovered(c, n)'
        BY <2>1, <2>2, <3>1, <3>2 DEF AccountCovered, Doing
      <3>4. DriverCovered(c, n)'
        <4>1. ASSUME driver[n].company = c, purge.company = c, driver[n].state = "NAMED"
              PROVE  \E x \in purge'.drivers : x[1] = n
          <5>1. <<n, driver[n].version>> \in purge'.drivers
            BY <1>2, <3>1, <4>1 DEF DriversOf
          <5>2. QED
            BY <5>1
        <4>2. driver[n].company = c => driver[n].state \in {"NAMED", "ANONYMOUS"}
          BY <1>2, <2>2 DEF RowState, NoDriver, TypeOK, Driver
        <4>3. QED
          BY <2>1, <2>2, <3>1, <3>2, <4>1, <4>2 DEF DriverCovered, Doing
      <3>5. SessionCovered(c, n)'
        BY <2>1, <2>2, <3>1, <3>2 DEF SessionCovered, Doing
      <3>6. InvitationCovered(c, n)' /\ MailCovered(c, n)'
        BY <2>1, <2>2, <3>1, <3>2 DEF InvitationCovered, MailCovered, Doing
      <3>7. QED
        BY <3>3, <3>4, <3>5, <3>6 DEF Covered
    <2>6. CASE ScrubDrivers
      <3>1. /\ held'.users = held.users
            /\ held'.drivers = held.drivers \cup {x[1] : x \in purge.drivers}
            /\ held'.sessions = held.sessions /\ held'.invs = held.invs /\ held'.mails = held.mails
            /\ purge'.at = "sessions" /\ purge'.company = purge.company
            /\ purge'.sessions = OpenSessions(purge.company)
        BY <1>5, <2>6 DEF ScrubDrivers, TypeOK, AccountsTypeOK, Held, Purge
      <3>2. purge.at = "drivers"
        BY <2>6 DEF ScrubDrivers
      <3>3. AccountCovered(c, n)' /\ DriverCovered(c, n)'
        BY <2>1, <2>2, <3>1, <3>2 DEF AccountCovered, DriverCovered, Doing
      <3>4. SessionCovered(c, n)'
        <4>1. sess[n].state \in {"NONE", "LIVE", "EXPIRED", "REVOKED"}
          BY <1>2 DEF TypeOK, AccountsTypeOK, Session
        <4>2. QED
          BY <1>2, <2>1, <2>2, <3>1, <3>2, <4>1 DEF SessionCovered, Doing, OpenSessions, Home
      <3>5. InvitationCovered(c, n)' /\ MailCovered(c, n)'
        BY <2>1, <2>2, <3>1, <3>2 DEF InvitationCovered, MailCovered, Doing
      <3>6. QED
        BY <3>3, <3>4, <3>5 DEF Covered
    <2>7. ASSUME NEW s \in Names, TakeSession(s)
          PROVE  Covered(c, n)'
      <3>1. /\ held'.users = held.users /\ held'.drivers = held.drivers
            /\ held'.sessions = held.sessions \cup {s} /\ held'.invs = held.invs
            /\ held'.mails = held.mails
            /\ purge'.at = "sessions" /\ purge'.company = purge.company
            /\ purge'.sessions = purge.sessions \ {s}
        BY <2>7 DEF TakeSession, TypeOK, AccountsTypeOK, Held, Purge
      <3>2. purge.at = "sessions"
        BY <2>7 DEF TakeSession
      <3>3. QED
        BY <2>1, <2>2, <3>1, <3>2
        DEF Covered, AccountCovered, DriverCovered, SessionCovered, InvitationCovered, MailCovered, Doing
    <2>8. CASE FinishCompany
      <3>1. /\ held'.users = held.users /\ held'.drivers = held.drivers
            /\ held'.sessions = held.sessions
            /\ held'.invs = held.invs \cup OpenInvitations(purge.company)
            /\ held'.mails = held.mails \cup MailsOf(purge.company)
        BY <2>8 DEF FinishCompany, TypeOK, AccountsTypeOK, Held
      <3>2. purge.at = "sessions" /\ purge.sessions = {}
        BY <2>8 DEF FinishCompany
      <3>3. AccountCovered(c, n)' /\ DriverCovered(c, n)' /\ SessionCovered(c, n)'
        BY <2>1, <2>2, <3>1, <3>2 DEF AccountCovered, DriverCovered, SessionCovered, Doing
      <3>4. InvitationCovered(c, n)'
        <4>1. inv[n].company = c => inv[n].state \in {"PENDING", "EXPIRED", "CLOSED"}
          BY <1>2, <2>2 DEF RowState, NoAccount, TypeOK, AccountsTypeOK, Invitation
        <4>2. QED
          BY <1>2, <2>1, <2>2, <3>1, <4>1 DEF InvitationCovered, Doing, OpenInvitations
      <3>5. MailCovered(c, n)'
        BY <1>2, <2>1, <2>2, <3>1 DEF MailCovered, Doing, MailsOf
      <3>6. QED
        BY <3>3, <3>4, <3>5 DEF Covered
    <2>9. CASE CommitPurge
      BY <1>4, <2>9 DEF CommitPurge
    <2>10. QED
      BY <1>5, <2>3, <2>4, <2>5, <2>6, <2>7, <2>8, <2>9 DEF PurgeStep, PurgeVictim, PurgeCrash
  <1>6. CASE TakeCompany /\ ~(c \in held.companies /\ n \in known[c])
    <2>1. PICK b \in purge.batch :
            /\ purge' = [purge EXCEPT !.at = "users", !.batch = @ \ {b}, !.company = b,
                                      !.users = {u \in Names : user[u].company = b}]
            /\ held'  = [held EXCEPT !.companies = @ \cup {b}]
            /\ known' = [known EXCEPT ![b] = RowsOf(b)]
            /\ UNCHANGED erasable
      BY <1>6 DEF TakeCompany
    <2>2. held'.companies = held.companies \cup {b}
      BY <2>1 DEF TypeOK, AccountsTypeOK, Held
    <2>3. b = c
      BY <1>1, <1>2, <1>6, <2>1, <2>2 DEF TypeOK
    <2>4. /\ purge'.at = "users" /\ purge'.company = c
          /\ purge'.users = {u \in Names : user[u].company = c}
      BY <2>1, <2>3 DEF TypeOK, Purge
    <2>5. AccountCovered(c, n)'
      BY <1>2, <2>1, <2>4 DEF AccountCovered, Doing, erasable, accounts
    <2>6. QED
      BY <2>4, <2>5
      DEF Covered, DriverCovered, SessionCovered, InvitationCovered, MailCovered, Doing
  <1>7. CASE Purging
    <2>1. CASE Prune
      BY <1>3, <2>1 DEF Prune, Rest
    <2>2. CASE RollBack \/ CommitPurge
      BY <1>4, <2>2 DEF RollBack, CommitPurge
    <2>3. CASE TakeCompany
      BY <1>5, <1>6, <2>3 DEF TakeCompany, PurgeStep, RollBack, Idle
    <2>4. CASE (PurgeStep \/ PurgeCrash) /\ ~TakeCompany /\ ~RollBack /\ ~CommitPurge
      <3>1. UNCHANGED <<erasable, known>>
        BY <2>4
        DEF PurgeStep, PurgeCrash, PurgeVictim, SelectDue, ScrubUsers, ScrubDrivers, TakeSession,
            FinishCompany
      <3>2. held'.companies = held.companies
        BY <2>4
        DEF PurgeStep, PurgeCrash, PurgeVictim, SelectDue, ScrubUsers, ScrubDrivers, TakeSession,
            FinishCompany, TypeOK, AccountsTypeOK, Held
      <3>3. QED
        BY <1>1, <1>5, <2>4, <3>1, <3>2
    <2>5. QED
      BY <1>7, <2>1, <2>2, <2>3, <2>4 DEF Purging
  <1>8. QED
    BY <1>0, <1>3, <1>7 DEF Answering, Waiting

LEMMA ErasedStays ==
  ASSUME TypeOK, RowsAreThere, PurgeState, KnownIsCovered, KnownIsSettled, DeletionIsThorough,
         [Next]_vars
  PROVE  DeletionIsThorough'
  <1> USE HeldSets
  <1>0. Steady
    BY Sorted
  <1>1. SUFFICES ASSUME NEW c \in Names, company'[c] = "DELETED", NEW n \in known'[c]
                 PROVE  /\ user'[n].company = c => user'[n].state = "SCRUBBED"
                        /\ driver'[n].company = c => driver'[n].state = "ANONYMOUS"
                        /\ sess'[n].state # "NONE" /\ Home(n)' = c => sess'[n].state = "REVOKED"
                        /\ inv'[n].company = c => inv'[n].state = "CLOSED"
                        /\ mail'[n].company # c
    BY DEF DeletionIsThorough, Home
  <1>2. known'[c] = known[c] \/ company[c] # "DELETED"
    <2>1. CASE TakeCompany
      <3>1. PICK b \in purge.batch : known' = [known EXCEPT ![b] = RowsOf(b)]
        BY <2>1 DEF TakeCompany
      <3>2. company[b] = "DUE"
        BY <2>1 DEF TakeCompany, PurgeState
      <3>3. QED
        BY <3>1, <3>2 DEF TypeOK
    <2>2. CASE RollBack
      <3>1. purge.at # "idle" => \A b \in held.companies : company[b] = "DUE"
        BY DEF PurgeState
      <3>2. purge.at = "idle" => held.companies = {}
        BY DEF PurgeState, Nothing
      <3>3. QED
        BY <2>2, <3>1, <3>2 DEF RollBack
    <2>3. QED
      BY <2>1, <2>2, KnownSteps
  <1>3. CASE company[c] = "DELETED"
    <2>1. n \in known[c] /\ n \in Names
      BY <1>1, <1>2, <1>3 DEF TypeOK
    <2>2. Kept(n) /\ RowState(n)
      BY <2>1, SettledKept DEF KnownIsSettled, RowsAreThere
    <2>3. /\ user[n].company = c => user[n].state = "SCRUBBED"
          /\ driver[n].company = c => driver[n].state = "ANONYMOUS"
          /\ sess[n].state # "NONE" /\ Home(n) = c => sess[n].state = "REVOKED"
          /\ inv[n].company = c => inv[n].state = "CLOSED"
          /\ mail[n].company # c
      BY <1>3, <2>1 DEF DeletionIsThorough, Home
    <2>4. user'[n].company = c => user'[n].state = "SCRUBBED"
      <3>1. user'[n] \in User
        BY <2>1, Sorted DEF TypeOK, AccountsTypeOK
      <3>2. user'[n].state \in {"NONE", "ACTIVE", "SCRUBBED"}
        BY <3>1 DEF User
      <3>3. QED
        BY <2>2, <2>3, <3>2 DEF Kept, RowState
    <2>5. driver'[n].company = c => driver'[n].state = "ANONYMOUS"
      BY <2>2, <2>3 DEF Kept, RowState
    <2>6. sess'[n].state # "NONE" /\ Home(n)' = c => sess'[n].state = "REVOKED"
      <3>1. sess[n].state # "NONE" => Home(n)' = Home(n)
        BY <1>0, <2>1, HomeKept
      <3>2. QED
        BY <2>2, <2>3, <3>1 DEF Kept
    <2>7. inv'[n].company = c => inv'[n].state = "CLOSED"
      BY <2>2, <2>3 DEF Kept, RowState
    <2>8. mail'[n].company # c
      BY <2>2, <2>3, NamesAssumption DEF Kept
    <2>9. QED
      BY <2>4, <2>5, <2>6, <2>7, <2>8
  <1>4. CASE company[c] # "DELETED"
    <2>1. CommitPurge
      BY <1>1, <1>4, CompanySteps DEF NotDue
    <2>2. c \in held.companies /\ n \in known[c] /\ n \in Names
      BY <1>1, <1>4, <2>1 DEF CommitPurge, Marked, TypeOK
    <2>3. purge.at = "next"
      BY <2>1 DEF CommitPurge
    <2>4. /\ AccountCovered(c, n) /\ DriverCovered(c, n) /\ SessionCovered(c, n)
          /\ InvitationCovered(c, n) /\ MailCovered(c, n)
      BY <2>2 DEF KnownIsCovered, Covered
    <2>5. Kept(n) /\ RowState(n)
      BY <2>2, SettledKept DEF KnownIsSettled, RowsAreThere
    <2>6. user'[n].company = c => user'[n].state = "SCRUBBED"
      <3>1. user[n].company = c => n \in held.users
        BY <2>3, <2>4 DEF AccountCovered, Doing
      <3>2. n \in held.users => user'[n] = [user[n] EXCEPT !.state = "SCRUBBED"]
        BY <2>1, <2>2 DEF CommitPurge
      <3>3. n \in held.users => user'[n].state = "SCRUBBED"
        BY <2>2, <3>2 DEF TypeOK, AccountsTypeOK, User
      <3>4. user'[n].company = c => user[n].company = c
        BY <2>5 DEF Kept, RowState
      <3>5. QED
        BY <3>1, <3>3, <3>4
    <2>7. driver'[n].company = c => driver'[n].state = "ANONYMOUS"
      <3>1. driver[n].company = c => driver[n].state = "ANONYMOUS" \/ n \in held.drivers
        BY <2>3, <2>4 DEF DriverCovered, Doing
      <3>2. n \in held.drivers =>
              driver'[n] = [driver[n] EXCEPT !.state = "ANONYMOUS", !.version = @ + 1]
        BY <2>1, <2>2 DEF CommitPurge
      <3>3. n \in held.drivers => driver'[n].state = "ANONYMOUS"
        BY <2>2, <3>2 DEF TypeOK, Driver
      <3>4. /\ driver'[n].company = c => driver[n].company = c
            /\ driver[n].state = "ANONYMOUS" => driver'[n].state = "ANONYMOUS"
        BY <2>5 DEF Kept, RowState
      <3>5. QED
        BY <3>1, <3>3, <3>4
    <2>8. sess'[n].state # "NONE" /\ Home(n)' = c => sess'[n].state = "REVOKED"
      <3>1. sess[n].state # "NONE" /\ Home(n) = c => sess[n].state = "REVOKED" \/ n \in held.sessions
        BY <2>3, <2>4 DEF SessionCovered, Doing
      <3>2. n \in held.sessions => sess'[n] = [sess[n] EXCEPT !.state = "REVOKED"]
        BY <2>1, <2>2 DEF CommitPurge
      <3>3. n \in held.sessions => sess'[n].state = "REVOKED"
        BY <2>2, <3>2 DEF TypeOK, AccountsTypeOK, Session
      <3>4. sess[n].state # "NONE" => Home(n)' = Home(n)
        BY <1>0, <2>2, HomeKept
      <3>5. QED
        BY <2>5, <3>1, <3>3, <3>4 DEF Kept
    <2>9. inv'[n].company = c => inv'[n].state = "CLOSED"
      <3>1. inv[n].company = c => inv[n].state = "CLOSED" \/ n \in held.invs
        BY <2>3, <2>4 DEF InvitationCovered, Doing
      <3>2. n \in held.invs => inv'[n] = [inv[n] EXCEPT !.state = "CLOSED"]
        BY <2>1, <2>2 DEF CommitPurge
      <3>3. n \in held.invs => inv'[n].state = "CLOSED"
        BY <2>2, <3>2 DEF TypeOK, AccountsTypeOK, Invitation
      <3>4. /\ inv'[n].company = c => inv[n].company = c
            /\ inv[n].state = "CLOSED" => inv'[n].state = "CLOSED"
        BY <2>5 DEF Kept, RowState, NoAccount
      <3>5. QED
        BY <3>1, <3>3, <3>4
    <2>10. mail'[n].company # c
      <3>1. mail[n].company = c => n \in held.mails
        BY <2>3, <2>4 DEF MailCovered, Doing
      <3>2. mail'[n] = IF n \in held.mails THEN NoMail ELSE mail[n]
        BY <2>1, <2>2 DEF CommitPurge
      <3>3. QED
        BY <3>1, <3>2, NamesAssumption DEF NoMail
    <2>11. QED
      BY <2>6, <2>7, <2>8, <2>9, <2>10
  <1>5. QED
    BY <1>3, <1>4

-----------------------------------------------------------------------------
(* Requests of tenants *)

LEMMA ActsSteps ==
  ASSUME TypeOK, RowsAreThere, PurgeState, InsideIsActive, [Next]_vars,
         NEW r \in Requests, req[r].kind \in TenantKinds, req'[r].at = "done",
         ~LoggedOut(req[r].token)
  PROVE  user[req[r].who].state = "ACTIVE"
  <1> USE LocalType
  <1>1. RequestState(r) /\ req[r].at \in {"resolved", "entered", "loaded"}
    <2>1. RequestState(r)
      BY DEF RowsAreThere
    <2>2. req[r].at \in Steps
      OBVIOUS
    <2>3. QED
      BY <2>1, <2>2 DEF RequestState, Steps, TenantKinds
  <1>2. PICK p \in Requests : Acts(p) /\ Frame(p)
    <2>1. req' # req
      BY <1>1
    <2>2. QED
      BY <2>1, Sorted DEF Answering, Waiting, Purging
  <1>3. Acts(r)
    BY <1>1, <1>2 DEF Frame
  <1>4. req[r].at # "resolved"
    <2>1. ASSUME req[r].at = "resolved"
          PROVE  Enter(r) \/ Abort(r)
      BY <1>3, <2>1
      DEF Acts, AccountStep, Arrive, Signup, CheckThrottle, Logout, ReadSession, ReadInvitation,
          Verify, ReadThrottle, RecordFailure, StartSession, Invite, CreateAccount, NewSession, Hire,
          LoadDriver, Check, Anonymize, RequestDeletion, RequestVictim, Deadlocked
    <2>2. ASSUME Enter(r) \/ Abort(r)
          PROVE  req'[r].at \in {"entered", "refused", "aborted"}
      <3>1. req[r] \in Request /\ req \in [Requests -> Request]
        BY DEF TypeOK, AccountsTypeOK
      <3>2. \/ Goto(r, req[r], "entered") \/ End(r, req[r], "refused") \/ End(r, req[r], "aborted")
        BY <2>2 DEF Enter, Abort
      <3>3. QED
        BY <3>1, <3>2, GotoFields, EndFields DEF Ended, Steps
    <2>3. QED
      BY <2>1, <2>2
  <1>5. Inside(r)
    BY <1>1, <1>4 DEF Inside
  <1>6. req[r].token \in Names /\ req[r].who \in Names
    BY <1>1 DEF RequestState, RowsAreThere, RowState
  <1>7. QED
    BY <1>5, <1>6 DEF InsideIsActive

-----------------------------------------------------------------------------
(* The invariant holds *)

LEMMA InitInv == Init => IInv
  <1> SUFFICES ASSUME Init PROVE IInv
    OBVIOUS
  <1>1. TypeOK
    BY InitType
  <1>2. PICK home \in [Guests -> Firms], members \in SUBSET Guests :
          /\ user = [n \in Names |-> CASE n \in Firms   -> Active(n, n)
                                       [] n \in members -> Active(n, home[n])
                                       [] OTHER         -> NoAccount]
          /\ inv  = [n \in Names |-> CASE n \in members -> Closed(n, home[n])
                                       [] n \in Guests \ members -> Pending(n, home[n])
                                       [] OTHER -> NoAccount]
          /\ sess = [n \in Names |-> IF n \in Firms \cup members
                                     THEN LiveSession(n) ELSE NoSession]
    BY DEF Init, AccountsInit
  <1>3. /\ \A r \in Requests : req[r] = NoRequest
        /\ \A n \in Names : company[n] \in {"NONE", "REQUESTED"}
        /\ \A n \in Names \ Firms : company[n] = "NONE" /\ driver[n] = NoDriver
        /\ \A n \in Firms : driver[n].state = "NAMED" /\ driver[n].company = n
        /\ \A n \in Names : mail[n] = NoMail
        /\ purge = Idle /\ held = Nothing /\ \A n \in Names : known[n] = {}
    BY DEF Init, AccountsInit, Names
  <1>4. ASSUME NEW n \in Names
        PROVE  \/ /\ n \in Requests /\ user[n] = NoAccount /\ inv[n] = NoAccount /\ sess[n] = NoSession
                  /\ n \notin Firms
               \/ /\ n \in Firms /\ n \notin Requests /\ user[n] = Active(n, n) /\ inv[n] = NoAccount
                  /\ sess[n] = LiveSession(n)
               \/ /\ n \in Guests /\ n \notin Requests /\ n \notin Firms /\ user[n] = NoAccount
                  /\ inv[n] = Pending(n, home[n]) /\ sess[n] = NoSession
               \/ /\ n \in Guests /\ n \notin Requests /\ n \notin Firms /\ user[n] = Active(n, home[n])
                  /\ inv[n] = Closed(n, home[n]) /\ sess[n] = LiveSession(n)
    BY <1>2, <1>4, NamesAssumption DEF Names
  <1>15. ASSUME NEW n \in Names
         PROVE  /\ user[n] = NoAccount \/ (user[n].state = "ACTIVE" /\ user[n].email = n
                                          /\ user[n].company \in Names /\ n \in Emails)
                /\ inv[n] = NoAccount \/ (inv[n].state # "NONE" /\ inv[n].email \in Emails
                                          /\ inv[n].company \in Names)
                /\ sess[n] = NoSession \/ (sess[n].state = "LIVE" /\ sess[n].user = n
                                           /\ user[n].state = "ACTIVE")
    <2>1. n \in Guests => home[n] \in Names
      BY DEF Names
    <2>2. CASE n \in Requests
      BY <1>4, <2>2, NamesAssumption
    <2>3. CASE n \in Firms
      <3>1. user[n] = Active(n, n) /\ inv[n] = NoAccount /\ sess[n] = LiveSession(n)
        BY <1>4, <2>3, NamesAssumption
      <3>2. QED
        BY <2>3, <3>1 DEF Active, LiveSession, Emails
    <2>4. CASE n \in Guests
      <3>1. n \notin Requests /\ n \notin Firms /\ n \in Emails
        BY <2>4, NamesAssumption DEF Emails
      <3>2. CASE user[n] = NoAccount /\ inv[n] = Pending(n, home[n]) /\ sess[n] = NoSession
        BY <2>1, <2>4, <3>1, <3>2 DEF Pending
      <3>3. CASE /\ user[n] = Active(n, home[n]) /\ inv[n] = Closed(n, home[n])
                 /\ sess[n] = LiveSession(n)
        BY <2>1, <2>4, <3>1, <3>3 DEF Active, Closed, LiveSession
      <3>4. QED
        BY <1>4, <3>1, <3>2, <3>3
    <2>5. QED
      BY <2>2, <2>3, <2>4 DEF Names
  <1>5. RowsAreThere
    <2>1. ASSUME NEW r \in Requests PROVE RequestState(r)
      BY <1>3, <2>1 DEF RequestState, NoRequest, Ended
    <2>2. ASSUME NEW n \in Names PROVE RowState(n)
      <3>1. n \in Requests => ~Settled(n) /\ NothingOf(n)
        BY <1>3, <1>4, NamesAssumption DEF Settled, NoRequest, Ended, NothingOf
      <3>2. n \notin Requests => Settled(n)
        BY DEF Settled
      <3>3. driver[n] = NoDriver \/ (driver[n].state = "NAMED" /\ driver[n].company \in Names)
        BY <1>3
      <3>4. QED
        BY <1>15, <3>1, <3>2, <3>3 DEF RowState, NoAccount, NoSession, NoDriver
    <2>3. QED
      BY <2>1, <2>2 DEF RowsAreThere
  <1>6. OneAccountPerEmail
    BY <1>15 DEF OneAccountPerEmail, NoAccount
  <1>7. AccountsAsInvited
    BY <1>3 DEF AccountsAsInvited, NoRequest
  <1>8. FailsAreCounted /\ LockIsEarned
    <2>1. ASSUME NEW e \in Emails PROVE Failed(e) \in Nat /\ Earlier(e) \in Nat /\ Earlier(e) <= Failed(e)
      <3>1. IsFiniteSet(Rejected(e))
        BY FS_Subset, NamesAssumption DEF Rejected
      <3>2. Cardinality(Rejected(e)) \in Nat
        BY <3>1, FS_CardinalityType
      <3>3. Earlier(e) \in Nat
        BY FailsAssumption DEF Earlier
      <3>4. QED
        BY <3>2, <3>3 DEF Failed
    <2>2. \A e \in Emails : throttle[e].fails = Earlier(e) /\ throttle[e].lock = "NONE"
      BY DEF Init, AccountsInit
    <2>3. QED
      BY <1>3, <2>1, <2>2 DEF FailsAreCounted, LockIsEarned, NoRequest, Failed
  <1>9. PurgeState
    BY <1>3 DEF PurgeState, Idle, Nothing
  <1>10. SessionsFollowAccounts /\ KnownIsCovered
    BY <1>3 DEF SessionsFollowAccounts, KnownIsCovered, Nothing
  <1>11. RevokedForAReason
    BY <1>15 DEF RevokedForAReason, NoSession
  <1>12. InsideIsActive
    BY <1>3 DEF InsideIsActive, Inside, NoRequest
  <1>13. KnownIsSettled /\ DeletionIsThorough
    BY <1>3 DEF KnownIsSettled, DeletionIsThorough
  <1>14. QED
    BY <1>1, <1>5, <1>6, <1>7, <1>8, <1>9, <1>10, <1>11, <1>12, <1>13 DEF IInv

LEMMA NextInv == IInv /\ [Next]_vars => IInv'
  <1> SUFFICES ASSUME IInv, [Next]_vars PROVE IInv'
    OBVIOUS
  <1> USE DEF IInv
  <1>1. TypeOK' /\ RowsAreThere'
    BY Sorted
  <1>2. OneAccountPerEmail' /\ AccountsAsInvited'
    BY OneAccountPerEmailSteps, AccountsAsInvitedSteps
  <1>3. FailsAreCounted' /\ LockIsEarned'
    BY FailuresSteps
  <1>4. PurgeState'
    BY PurgeStateSteps
  <1>5. SessionsFollowAccounts' /\ RevokedForAReason' /\ InsideIsActive'
    BY SessionsFollowSteps, RevokedSteps, InsideSteps
  <1>6. KnownIsCovered' /\ KnownIsSettled' /\ DeletionIsThorough'
    BY KnownIsCoveredSteps, KnownIsSettledSteps, ErasedStays
  <1>7. QED
    BY <1>1, <1>2, <1>3, <1>4, <1>5, <1>6

LEMMA Invariance == Spec => []IInv
  BY InitInv, NextInv, PTL DEF Spec

(* Whatever browsers ask for and however far the purge is, the rows, the    *)
(* local variables of the requests and those of the purge have their types. *)
THEOREM TypeCorrect == Spec => []TypeOK
  <1>1. IInv => TypeOK
    BY DEF IInv
  <1>2. QED
    BY <1>1, Invariance, PTL

(* Acceptances that overlap, of any number of requests, give one account    *)
(* that can log in for each invitation: they all insert the address of the  *)
(* invitation, which is unique among the accounts that are not erased.      *)
THEOREM OneAccount == Spec => []OneAccountPerInvitation
  <1>1. IInv => OneAccountPerInvitation
    <2> SUFFICES ASSUME IInv, NEW q \in Requests, NEW r \in Requests,
                        req[q].kind = "ACCEPT", req[r].kind = "ACCEPT", req[q].token = req[r].token,
                        user[q].state = "ACTIVE", user[r].state = "ACTIVE"
                 PROVE  q = r
      BY DEF OneAccountPerInvitation
    <2>1. user[q].email = user[r].email
      BY DEF IInv, AccountsAsInvited
    <2>2. QED
      BY <2>1 DEF IInv, OneAccountPerEmail, Names
  <1>2. QED
    BY <1>1, Invariance, PTL

(* The counts that overlapping logins read, write, lose and reset never     *)
(* exceed the failed logins that there were; so no lock comes early.        *)
THEOREM LockEarned == Spec => []LockIsEarned
  <1>1. IInv => LockIsEarned
    BY DEF IInv
  <1>2. QED
    BY <1>1, Invariance, PTL

(* No step of a request, of the purge or of time makes a revoked session    *)
(* live again.                                                              *)
THEOREM SessionsStayRevoked == Spec => RevokedStaysRevoked
  <1>1. IInv /\ [Next]_vars => [\A s \in Names : sess[s].state = "REVOKED" => sess'[s].state = "REVOKED"]_sess
    BY SessionSteps DEF IInv
  <1>2. QED
    BY <1>1, Invariance, PTL DEF Spec, RevokedStaysRevoked

(* A request that changes data in the name of an account, and whose session *)
(* was not logged out meanwhile, is finished before the account is erased.  *)
THEOREM ActsForActive == Spec => ActsForActiveAccount
  <1>1. IInv /\ [Next]_vars =>
          [\A r \in Requests :
             /\ req[r].kind \in TenantKinds /\ req'[r].at = "done"
             /\ ~LoggedOut(req[r].token)
             => user[req[r].who].state = "ACTIVE"]_vars
    BY ActsSteps DEF IInv
  <1>2. QED
    BY <1>1, Invariance, PTL DEF Spec, ActsForActiveAccount

(* What the purge has found of a company is erased when the company is      *)
(* marked deleted, and nobody brings it back.                               *)
THEOREM DeletionThorough == Spec => []DeletionIsThorough
  <1>1. IInv => DeletionIsThorough
    BY DEF IInv
  <1>2. QED
    BY <1>1, Invariance, PTL

=============================================================================
