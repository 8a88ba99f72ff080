------------------------------ MODULE Accounts ------------------------------
(***************************************************************************)
(* Accounts, sessions, invitations and the login throttle, as the requests *)
(* of browsers change them.  A request is a chain of transactions or of    *)
(* statements; one action is what others can observe of it at once.  The   *)
(* module is the part of Retention that people drive: there a purge locks  *)
(* and erases rows while the requests run.                                 *)
(*                                                                         *)
(* A row is named after the request that inserts it.  Firms and Guests     *)
(* name what is there in the beginning: a company, its OWNER, a session of *)
(* the owner; and somebody who is invited or already has an account.       *)
(***************************************************************************)
EXTENDS Naturals, FiniteSets

CONSTANTS
  Firms,         \* companies in the beginning, and the addresses of their owners
  Guests,        \* people invited by then, and their addresses
  Requests,      \* HTTP requests
  MaxFails,      \* MAX_FAILS
  EarlierFails,  \* failed logins of the owners that were counted before
  Lasting,       \* bound: names whose sessions and invitations do not expire
  None

Names  == Firms \cup Guests \cup Requests
Emails == Firms \cup Guests

ASSUME NamesAssumption ==
  /\ Firms \cap Guests = {} /\ Firms \cap Requests = {} /\ Guests \cap Requests = {}
  /\ None \notin Names /\ IsFiniteSet(Requests)
ASSUME FailsAssumption ==
  MaxFails \in Nat \ {0} /\ EarlierFails \in Nat /\ EarlierFails < MaxFails

VARIABLES
  company,   \* Company: where it is between signup and tombstone
  user,      \* AccountUser
  inv,       \* Invitation
  sess,      \* UserSession
  throttle,  \* LoginThrottle of an address, for one IP address
  req,       \* each request: what it asks for, how far it is, what it has read
  held       \* rows that the purge has written and not committed

Ended       == {"done", "refused", "rejected", "failed", "aborted"}
TenantKinds == {"INVITE", "HIRE", "CHECK", "ANONYMIZE", "DELETE"}

User == [state : {"NONE", "ACTIVE", "SCRUBBED"}, email : Emails \cup {None},
         company : Names \cup {None}]
Invitation == [state : {"NONE", "PENDING", "EXPIRED", "CLOSED"},
               email : Emails \cup {None}, company : Names \cup {None}]
Session == [state : {"NONE", "LIVE", "EXPIRED", "REVOKED"}, user : Names \cup {None}]
Throttle == [row : BOOLEAN, fails : Nat, lock : {"NONE", "RUNNING", "OVER"}]
Loaded == [name : Names \cup {None}, state : {"NONE", "NAMED", "ANONYMOUS"}, version : Nat]
Steps == {"idle", "verify", "good", "bad", "reset", "count", "resolved", "entered",
          "loaded", "invited", "created"} \cup Ended
Kinds == {"NONE", "SIGNUP", "LOGIN", "LOGOUT", "ACCEPT"} \cup TenantKinds
Request ==
  [at : Steps, kind : Kinds, email : Emails \cup {None}, token : Names \cup {None},
   who : Names \cup {None}, throttle : Throttle, driver : Loaded]
Held == [companies : SUBSET Names, users : SUBSET Names, drivers : SUBSET Names,
         sessions : SUBSET Names, invs : SUBSET Names, mails : SUBSET Names]

NoThrottle == [row |-> FALSE, fails |-> 0, lock |-> "NONE"]
Unloaded   == [name |-> None, state |-> "NONE", version |-> 0]
NoAccount  == [state |-> "NONE", email |-> None, company |-> None]
NoSession  == [state |-> "NONE", user |-> None]
NoRequest  == [at |-> "idle", kind |-> "NONE", email |-> None, token |-> None,
               who |-> None, throttle |-> NoThrottle, driver |-> Unloaded]
Active(e, c)   == [state |-> "ACTIVE", email |-> e, company |-> c]
Pending(e, c)  == [state |-> "PENDING", email |-> e, company |-> c]
Closed(e, c)   == [state |-> "CLOSED", email |-> e, company |-> c]
LiveSession(u) == [state |-> "LIVE", user |-> u]
Earlier(e)     == IF e \in Firms THEN EarlierFails ELSE 0

AccountsTypeOK ==
  /\ company \in [Names -> {"NONE", "LIVE", "REQUESTED", "DUE", "DELETED"}]
  /\ user \in [Names -> User]
  /\ inv \in [Names -> Invitation]
  /\ sess \in [Names -> Session]
  /\ \A s \in Names : sess[s].state # "NONE" => sess[s].user \in Names
  /\ throttle \in [Emails -> Throttle]
  /\ req \in [Requests -> Request]
  /\ held \in Held

(* The owners have asked for deletion; a company that is signed up has not. *)
AccountsInit ==
  /\ company = [n \in Names |-> IF n \in Firms THEN "REQUESTED" ELSE "NONE"]
  /\ \E home \in [Guests -> Firms], members \in SUBSET Guests :
       /\ user = [n \in Names |-> CASE n \in Firms   -> Active(n, n)
                                    [] n \in members -> Active(n, home[n])
                                    [] OTHER         -> NoAccount]
       /\ inv  = [n \in Names |-> CASE n \in members -> Closed(n, home[n])
                                    [] n \in Guests \ members -> Pending(n, home[n])
                                    [] OTHER -> NoAccount]
       /\ sess = [n \in Names |-> IF n \in Firms \cup members
                                  THEN LiveSession(n) ELSE NoSession]
  /\ throttle = [e \in Emails |-> [row |-> Earlier(e) > 0, fails |-> Earlier(e), lock |-> "NONE"]]
  /\ req = [r \in Requests |-> NoRequest]

-----------------------------------------------------------------------------
Sent(kind, e, t) == [NoRequest EXCEPT !.kind = kind, !.email = e, !.token = t]

Goto(r, q, step) == req' = [req EXCEPT ![r] = [q EXCEPT !.at = step]]

(* Of an answered request the history keeps what the properties ask for:    *)
(* failed logins, logouts and acceptances.                                  *)
Remembered(q, how) ==
  IF \/ q.kind = "LOGIN" /\ how = "rejected"
     \/ q.kind = "LOGOUT" /\ how = "done"
     \/ q.kind = "ACCEPT"
  THEN Sent(q.kind, q.email, q.token)
  ELSE NoRequest
End(r, q, how) == Goto(r, Remembered(q, how), how)

(* The unique index on account_user.email, which waits for an uncommitted   *)
(* change of an equal address                                               *)
AccountsOf(e) == {u \in Names : user[u].state = "ACTIVE" /\ user[u].email = e}
EmailTaken(e) == AccountsOf(e) # {}
EmailHeld(e)  == AccountsOf(e) \cap held.users # {}

(* The OWNER is the account that signup created with the company. *)
Owner(u) == user[u].company = u

(* get_tenant_context has updated last_seen_at and holds the row until the  *)
(* request commits.                                                         *)
Inside(q)      == req[q].at \in {"entered", "loaded"}
NobodyWrote(s) == FALSE
InUse(s)       == \E q \in Requests : Inside(q) /\ req[q].token = s
SessionFree(s) == s \notin held.sessions /\ ~InUse(s)

-----------------------------------------------------------------------------
(* signup_submit: company, owner and session in one transaction *)
Signup(r) ==
  /\ req[r].at = "idle"
  /\ \E e \in Emails :
       /\ ~EmailHeld(e)
       /\ \/ /\ EmailTaken(e)
             /\ End(r, Sent("SIGNUP", e, None), "refused")
             /\ UNCHANGED <<company, user, sess>>
          \/ /\ ~EmailTaken(e)
             /\ company' = [company EXCEPT ![r] = "LIVE"]
             /\ user' = [user EXCEPT ![r] = Active(e, r)]
             /\ sess' = [sess EXCEPT ![r] = LiveSession(r)]
             /\ End(r, Sent("SIGNUP", e, None), "done")
  /\ UNCHANGED <<inv, throttle, held>>

-----------------------------------------------------------------------------
(* login: each step in a transaction of its own *)

(* _assert_not_locked *)
CheckThrottle(r) ==
  /\ req[r].at = "idle"
  /\ \E e \in Emails :
       IF throttle[e].lock = "RUNNING"
       THEN End(r, Sent("LOGIN", e, None), "refused")
       ELSE Goto(r, Sent("LOGIN", e, None), "verify")
  /\ UNCHANGED <<company, user, inv, sess, throttle, held>>

(* auth_lookup_credentials *)
WithUnknown(e) == AccountsOf(e) \cup {None}
Candidates(e) == AccountsOf(e)

(* _verify: an unknown address, a wrong password and an account that is not *)
(* active look the same.                                                    *)
Verify(r) ==
  /\ req[r].at = "verify"
  /\ \/ \E u \in Candidates(req[r].email) : Goto(r, [req[r] EXCEPT !.who = u], "good")
     \/ Goto(r, req[r], "bad")
  /\ UNCHANGED <<company, user, inv, sess, throttle, held>>

(* _throttle_row, first half of _reset_failures and of _record_failure *)
ReadThrottle(r) ==
  /\ req[r].at \in {"good", "bad"}
  /\ Goto(r, [req[r] EXCEPT !.throttle = throttle[req[r].email]],
          IF req[r].at = "good" THEN "reset" ELSE "count")
  /\ UNCHANGED <<company, user, inv, sess, throttle, held>>

(* _record_failure inserts the row or writes the successor of what it read; *)
(* the unique index refuses a second row.                                   *)
LocksTooEarly(fails) == fails + 1 >= MaxFails
Locks(fails) == fails >= MaxFails
RecordFailure(r) ==
  LET e == req[r].email
      n == req[r].throttle.fails + 1
      exists == ~req[r].throttle.row /\ throttle[e].row
  IN
  /\ req[r].at = "count"
  /\ \/ exists /\ End(r, req[r], "failed") /\ UNCHANGED throttle
     \/ /\ ~exists
        /\ throttle' = [throttle EXCEPT
             ![e] = [row |-> TRUE, fails |-> n,
                     lock |-> IF Locks(n) THEN "RUNNING" ELSE @.lock]]
        /\ End(r, req[r], "rejected")
  /\ UNCHANGED <<company, user, inv, sess, held>>

(* _reset_failures writes the attributes that differ from what was read.    *)
Reset(now, was) ==
  [row   |-> now.row,
   fails |-> IF was.fails = 0 THEN now.fails ELSE 0,
   lock  |-> IF was.lock = "NONE" THEN now.lock ELSE "NONE"]

(* create_session; last_login_at is an UPDATE of the account *)
StartSession(r) ==
  LET u == req[r].who IN
  /\ req[r].at = "reset"
  /\ u \notin held.users
  /\ throttle' = [throttle EXCEPT ![req[r].email] = Reset(@, req[r].throttle)]
  /\ sess' = [sess EXCEPT ![r] = LiveSession(u)]
  /\ End(r, req[r], "done")
  /\ UNCHANGED <<company, user, inv, held>>

-----------------------------------------------------------------------------
(* logout: revoke_session *)
Logout(r) ==
  /\ req[r].at = "idle"
  /\ \E s \in Names :
       /\ sess[s].state # "NONE" /\ SessionFree(s)
       /\ sess' = [sess EXCEPT ![s].state = "REVOKED"]
       /\ End(r, Sent("LOGOUT", None, s), "done")
  /\ UNCHANGED <<company, user, inv, throttle, held>>

(* get_tenant_context: resolve_session reads the row ...                    *)
ReadSession(r) ==
  /\ req[r].at = "idle"
  /\ \E kind \in TenantKinds, s \in Names :
       LET q == Sent(kind, None, s) IN
       \/ sess[s].state = "LIVE" /\ Goto(r, [q EXCEPT !.who = sess[s].user], "resolved")
       \/ sess[s].state \in {"EXPIRED", "REVOKED"} /\ End(r, q, "refused")
  /\ UNCHANGED <<company, user, inv, sess, throttle, held>>

(* ... and the read of the account flushes last_seen_at first, the only     *)
(* attribute of the session that changed.                                   *)
WholeRow(s) == [sess EXCEPT ![s].state = "LIVE"]
LastSeenOnly(s) == sess
Enter(r) ==
  LET s == req[r].token
      active == user[req[r].who].state = "ACTIVE"
  IN
  /\ req[r].at = "resolved"
  /\ SessionFree(s)
  /\ \/ active /\ Goto(r, req[r], "entered") /\ sess' = LastSeenOnly(s)
     \/ ~active /\ End(r, req[r], "refused") /\ UNCHANGED sess
  /\ UNCHANGED <<company, user, inv, throttle, held>>

(* invite_user: invited_by_id takes KEY SHARE on the account *)
Invite(r) ==
  LET u == req[r].who IN
  /\ req[r].at = "entered" /\ req[r].kind = "INVITE"
  /\ \/ ~Owner(u) /\ End(r, req[r], "refused") /\ UNCHANGED inv
     \/ /\ Owner(u) /\ u \notin held.users
        /\ \E e \in Emails : inv' = [inv EXCEPT ![r] = Pending(e, user[u].company)]
        /\ End(r, req[r], "done")
  /\ UNCHANGED <<company, user, sess, throttle, held>>

-----------------------------------------------------------------------------
(* accept_submit, first transaction: accept_invitation *)
ReadInvitation(r) ==
  /\ req[r].at = "idle"
  /\ \E i \in Names :
       LET q == Sent("ACCEPT", None, i) IN
       \/ inv[i].state = "PENDING" /\ Goto(r, q, "invited")
       \/ inv[i].state \in {"EXPIRED", "CLOSED"} /\ End(r, q, "refused")
  /\ UNCHANGED <<company, user, inv, sess, throttle, held>>

(* The state of the invitation is not looked at again.  Nobody catches the  *)
(* IntegrityError of an address that has an account.                        *)
NeverRefuses(e) == FALSE
Refuses(e) == EmailTaken(e)
CreateAccount(r) ==
  LET i == req[r].token
      e == inv[i].email
  IN
  /\ req[r].at = "invited"
  /\ ~EmailHeld(e) /\ i \notin held.invs
  /\ \/ Refuses(e) /\ End(r, req[r], "failed") /\ UNCHANGED <<user, inv>>
     \/ /\ ~Refuses(e)
        /\ user' = [user EXCEPT ![r] = Active(e, inv[i].company)]
        /\ inv'  = [inv EXCEPT ![i].state = "CLOSED"]
        /\ Goto(r, req[r], "created")
  /\ UNCHANGED <<company, sess, throttle, held>>

(* Second transaction: no tenant is set, so row level security hides the    *)
(* account (400); on a connection that has had a tenant before, the setting *)
(* is the empty string and the policy fails to cast it.                     *)
NewSession(r) ==
  /\ req[r].at = "created"
  /\ \E how \in {"refused", "failed"} : End(r, req[r], how)
  /\ UNCHANGED <<company, user, inv, sess, throttle, held>>

-----------------------------------------------------------------------------
(* The process dies or the connection is lost: the open transaction is gone. *)
Abort(r) ==
  /\ req[r].at \notin Ended \cup {"idle"}
  /\ End(r, req[r], "aborted")
  /\ UNCHANGED <<company, user, inv, sess, throttle, held>>

SessionExpires(s) ==
  /\ sess[s].state = "LIVE" /\ s \notin Lasting
  /\ sess' = [sess EXCEPT ![s].state = "EXPIRED"]
  /\ UNCHANGED <<company, user, inv, throttle, req, held>>

InvitationExpires(i) ==
  /\ inv[i].state = "PENDING" /\ i \notin Lasting
  /\ inv' = [inv EXCEPT ![i].state = "EXPIRED"]
  /\ UNCHANGED <<company, user, sess, throttle, req, held>>

LockEnds(e) ==
  /\ throttle[e].lock = "RUNNING"
  /\ throttle' = [throttle EXCEPT ![e].lock = "OVER"]
  /\ UNCHANGED <<company, user, inv, sess, req, held>>

Arrive(r) ==
  Signup(r) \/ CheckThrottle(r) \/ Logout(r) \/ ReadSession(r) \/ ReadInvitation(r)

AccountStep(r) ==
  \/ Verify(r) \/ ReadThrottle(r) \/ RecordFailure(r) \/ StartSession(r)
  \/ Enter(r) \/ Invite(r)
  \/ CreateAccount(r) \/ NewSession(r)

TimePasses ==
  \/ \E s \in Names : SessionExpires(s) \/ InvitationExpires(s)
  \/ \E e \in Emails : LockEnds(e)

-----------------------------------------------------------------------------
(* Properties *)

(* Two acceptances may both find accepted_at empty.  Still one invitation   *)
(* never yields two accounts that can log in, not even when the first is    *)
(* erased and its address is free again.                                    *)
OneAccountPerInvitation ==
  \A q, r \in Requests :
    /\ req[q].kind = "ACCEPT" /\ req[r].kind = "ACCEPT" /\ req[q].token = req[r].token
    /\ user[q].state = "ACTIVE" /\ user[r].state = "ACTIVE"
    => q = r

(* However logins overlap and lose or repeat each other's counts, an        *)
(* address is locked only after MAX_FAILS failed logins.                    *)
Rejected(e) == {r \in Requests : req[r].at = "rejected" /\ req[r].email = e}
LockIsEarned ==
  \A e \in Emails :
    throttle[e].lock # "NONE" => Earlier(e) + Cardinality(Rejected(e)) >= MaxFails

(* A session that was revoked stays so, although other requests of the same *)
(* session have loaded the row before and write it afterwards.              *)
RevokedStaysRevoked ==
  [][\A s \in Names : sess[s].state = "REVOKED" => sess'[s].state = "REVOKED"]_sess

-----------------------------------------------------------------------------
(* What the documentation says and the code does not do *)

(* accept_submit: on success a session cookie is set; the account it looks  *)
(* for was freshly created above.                                           *)
AcceptedIsLoggedIn ==
  \A r \in Requests :
    req[r].kind = "ACCEPT" /\ user[r].state = "ACTIVE" => req[r].at \notin {"refused", "failed"}

=============================================================================
