------------------------------ MODULE Accounts ------------------------------
(***************************************************************************)
(* Accounts and sessions (api/app.py, auth/, the users and sessions tables *)
(* of the data store).  Signup, login, logout, logout-all and the requests *)
(* that need a user run in worker threads; a request is interleaved with   *)
(* the others between any two of its statements, and the process may die.  *)
(*                                                                         *)
(* A request is also the account it creates and the token it draws: user   *)
(* ids and tokens are random and never drawn twice.                        *)
(***************************************************************************)
EXTENDS Naturals, FiniteSets

CONSTANTS
  Visits, Emails, Passwords,
  Overlong,    \* the passwords within 8-128 characters but over 72 bytes
  None,        \* no cookie, no account, nothing sent yet
  TTL,         \* SESSION_TTL
  LastTime     \* bound: the clock stops here

ASSUME AccountsAssumption == None \notin Visits /\ Overlong \subseteq Passwords /\ TTL \in Nat

VARIABLES users, sessions, visit, clock

accountVars == <<users, sessions, visit, clock>>

User    == [user_id : Visits, email : Emails, password : Passwords]
Session == [token : Visits, user_id : Visits, expires_at : Nat]

\* The whole life of a request: at is the time it last read, seen the tokens that
\* had been answered when it began, began when that was.
Visit ==
  [pc       : {"new", "admit", "cleanup", "lookup", "hash", "user", "session",
               "end", "require", "end_all", "done"},
   kind     : {"signup", "login", "logout", "logout_all", "me"},
   email    : Emails \cup {None}, password : Passwords \cup {None}, cookie : Visits \cup {None},
   user_id  : Visits \cup {None}, at : Nat, began : Nat,
   seen     : SUBSET Visits, status : {0, 200, 400, 401, 409, 429, 500}]

\* The answered request set the session cookie: the browser has the token.
TokenGiven(t) == visit[t].kind \in {"signup", "login"} /\ visit[t].status = 200

AccountsInit ==
  /\ users = {} /\ sessions = {} /\ clock = 0
  /\ visit = [r \in Visits |->
              [pc |-> "new", kind |-> "me", email |-> None, password |-> None, cookie |-> None,
               user_id |-> None, at |-> 0, began |-> 0, seen |-> {}, status |-> 0]]

StandsAt(r, pc) == visit[r].pc = pc
GoTo(r, pc) == visit' = [visit EXCEPT ![r].pc = pc]
GoAt(r, pc) == visit' = [visit EXCEPT ![r] = [@ EXCEPT !.pc = pc, !.at = clock]]   \* datetime.now(timezone.utc)
GoAs(r, pc, u) == visit' = [visit EXCEPT ![r] = [@ EXCEPT !.pc = pc, !.user_id = u, !.at = clock]]
Reply(r, status) == visit' = [visit EXCEPT ![r] = [@ EXCEPT !.pc = "done", !.status = status]]

\* A browser sends a request; its cookie is any token it was ever given.
Submit(r) ==
  /\ StandsAt(r, "new")
  /\ \E k \in {"signup", "login", "logout", "logout_all", "me"}, e \in Emails, p \in Passwords,
        t \in {None} \cup {x \in Visits : TokenGiven(x)} :
       /\ k \in {"signup", "login"} <=> t = None
       /\ visit' = [visit EXCEPT ![r] =
                   [pc |-> CASE k \in {"signup", "login"} -> "admit"
                             [] k = "logout" -> "end"
                             [] OTHER -> "require",
                    kind |-> k, email |-> e, password |-> p, cookie |-> t, user_id |-> None,
                    at |-> 0, began |-> clock, seen |-> {x \in Visits : TokenGiven(x)},
                    status |-> 0]]
  /\ UNCHANGED <<users, sessions, clock>>

\* The rate limiter lets the request in or not (RateLimiter.tla says when); a
\* malformed signup is refused; one login in twenty sweeps the expired sessions.
Admit(r) ==
  /\ StandsAt(r, "admit")
  /\ \/ Reply(r, 429)
     \/ GoTo(r, "lookup")
     \/ visit[r].kind = "signup" /\ Reply(r, 400)
     \/ visit[r].kind = "login" /\ GoAt(r, "cleanup")
  /\ UNCHANGED <<users, sessions, clock>>

BugExpired(at, s) == TRUE   \* the sweep forgets its WHERE
expired(at, s) == s.expires_at <= at

delete_expired_sessions(at) == sessions' = {s \in sessions : ~ expired(at, s)}

Cleanup(r) ==
  /\ StandsAt(r, "cleanup")
  /\ delete_expired_sessions(visit[r].at)
  /\ GoTo(r, "lookup")
  /\ UNCHANGED <<users, clock>>

get_user_by_email(e) == {u \in users : u.email = e}

SignupLookup(r) ==
  /\ StandsAt(r, "lookup") /\ visit[r].kind = "signup"
  /\ IF get_user_by_email(visit[r].email) # {} THEN Reply(r, 409) ELSE GoAt(r, "hash")
  /\ UNCHANGED <<users, sessions, clock>>

verify_password(p, u) == u.password = p

LoginLookup(r) ==
  /\ StandsAt(r, "lookup") /\ visit[r].kind = "login"
  /\ LET known == {u \in get_user_by_email(visit[r].email) : verify_password(visit[r].password, u)}
     IN  \/ \E u \in known : GoAs(r, "session", u.user_id)
         \/ known = {} /\ Reply(r, 401)
  /\ UNCHANGED <<users, sessions, clock>>

\* hash_password raises on what bcrypt would truncate.
Hash(r) ==
  /\ StandsAt(r, "hash")
  /\ IF visit[r].password \in Overlong THEN Reply(r, 500) ELSE GoTo(r, "user")
  /\ UNCHANGED <<users, sessions, clock>>

EmailFree(e) == \A u \in users : u.email # e   \* email TEXT UNIQUE

create_user(r) ==
  /\ StandsAt(r, "user")
  /\ IF EmailFree(visit[r].email)
       THEN /\ users' = users \cup {[user_id |-> r, email |-> visit[r].email,
                                     password |-> visit[r].password]}
            /\ visit' = [visit EXCEPT ![r] = [@ EXCEPT !.pc = "session", !.user_id = r]]
       ELSE Reply(r, 500) /\ UNCHANGED users
  /\ UNCHANGED <<sessions, clock>>

session_expiry(at) == at + TTL

create_session(r) ==
  /\ StandsAt(r, "session")
  /\ sessions' = sessions \cup {[token |-> r, user_id |-> visit[r].user_id,
                                 expires_at |-> session_expiry(visit[r].at)]}
  /\ Reply(r, 200)
  /\ UNCHANGED <<users, clock>>

\* get_valid_session: the account the cookie stands for.
BugSessionUser(t) ==   \* expires_at is not looked at
  {s.user_id : s \in {x \in sessions : x.token = t}}
SessionUser(t) == {s.user_id : s \in {x \in sessions : x.token = t /\ ~ expired(clock, x)}}

require_user(r) ==
  /\ StandsAt(r, "require")
  /\ \/ /\ SessionUser(visit[r].cookie) = {}
        /\ Reply(r, 401)
     \/ \E u \in SessionUser(visit[r].cookie) :
          IF visit[r].kind = "me"
            THEN visit' = [visit EXCEPT ![r] = [@ EXCEPT !.pc = "done", !.status = 200, !.user_id = u]]
            ELSE GoAs(r, "end_all", u)
  /\ UNCHANGED <<users, sessions, clock>>

delete_session(r) ==
  /\ StandsAt(r, "end")
  /\ sessions' = {s \in sessions : s.token # visit[r].cookie}
  /\ Reply(r, 200)
  /\ UNCHANGED <<users, clock>>

UserSessions(r) == {s \in sessions : s.user_id = visit[r].user_id}

delete_user_sessions(r) ==
  /\ StandsAt(r, "end_all")
  /\ sessions' = sessions \ UserSessions(r)
  /\ Reply(r, 200)
  /\ UNCHANGED <<users, clock>>

\* Any statement of the store may raise: the request is answered 500.
StoreRaises(r) ==
  /\ visit[r].pc \in {"cleanup", "lookup", "user", "session", "end", "require", "end_all"}
  /\ Reply(r, 500)
  /\ UNCHANGED <<users, sessions, clock>>

\* The process dies: the requests it was serving are never answered.
ServerDies ==
  /\ \E r \in Visits : visit[r].pc \notin {"new", "done"}
  /\ visit' = [r \in Visits |-> IF StandsAt(r, "new") THEN visit[r] ELSE [visit[r] EXCEPT !.pc = "done"]]
  /\ UNCHANGED <<users, sessions, clock>>

ClockTick == clock < LastTime /\ clock' = clock + 1 /\ UNCHANGED <<users, sessions, visit>>

VisitStep(r) ==
  \/ Submit(r) \/ Admit(r) \/ Cleanup(r) \/ SignupLookup(r) \/ LoginLookup(r) \/ Hash(r)
  \/ create_user(r) \/ create_session(r) \/ require_user(r) \/ delete_session(r)
  \/ delete_user_sessions(r) \/ StoreRaises(r)

AccountsNext == ClockTick \/ ServerDies \/ \E r \in Visits : VisitStep(r)

AccountsSpec == AccountsInit /\ [][AccountsNext]_accountVars

-----------------------------------------------------------------------------
AccountsTypeOK ==
  /\ users \subseteq User /\ sessions \subseteq Session /\ clock \in Nat
  /\ visit \in [Visits -> Visit]

\* Two signups with one address both pass the look-up; only one of them is
\* answered 200, and the address has one account.
OneAccountPerEmail ==
  /\ \A u, v \in users : u.email = v.email => u = v
  /\ \A r, s \in Visits :
       /\ visit[r].kind = "signup" /\ visit[s].kind = "signup" /\ visit[r].email = visit[s].email
       /\ visit[r].status = 200 /\ visit[s].status = 200
       => r = s

\* A request that was let in as somebody carried a token that was handed to a
\* request with that account's address and password, and that had not run out
\* when the request came.
AuthenticatedByPassword ==
  \A r \in Visits :
    visit[r].kind \in {"me", "logout_all"} /\ visit[r].status = 200 =>
      LET t == visit[r].cookie
      IN  /\ TokenGiven(t) /\ visit[t].user_id = visit[r].user_id
          /\ [user_id |-> visit[r].user_id, email |-> visit[t].email,
              password |-> visit[t].password] \in users
          /\ visit[r].began < visit[t].at + TTL

\* After a logout the token is dead, after a logout-all every token the account
\* had been given when it began, and no request in flight brings one back.
RevokedStaysRevoked ==
  \A r \in Visits : visit[r].status = 200 => \A s \in sessions :
    /\ visit[r].kind = "logout" => s.token # visit[r].cookie
    /\ visit[r].kind = "logout_all" =>
         ~ (s.token \in visit[r].seen /\ visit[s.token].user_id = visit[r].user_id)

\* Types, and the three together.
AccountsSafe ==
  AccountsTypeOK /\ OneAccountPerEmail /\ AuthenticatedByPassword /\ RevokedStaysRevoked

\* A session row disappears only because it ran out, because its token was logged
\* out, or because its own account logged out everywhere.
SessionsEndByRight ==
  [][\A s \in sessions \ sessions' :
       \/ s.expires_at <= clock
       \/ \E r \in Visits :
            /\ visit[r].pc # "done" /\ visit'[r].pc = "done"
            /\ \/ visit[r].kind = "logout" /\ visit[r].cookie = s.token
               \/ visit[r].kind = "logout_all" /\ visit[r].user_id = s.user_id]_accountVars

=============================================================================
