---------------------------- MODULE AdminSessions ----------------------------
(***************************************************************************)
(* Administrators and their sessions (lib/auth, app/api/auth, the login    *)
(* page and the shell of the pages): first setup, login with its limit on  *)
(* failed attempts, change of the password, logout, and the check each     *)
(* request makes.                                                          *)
(*                                                                         *)
(* A session is a signed token that names the administrator and the        *)
(* session_version of the row at some moment; nothing else is stored about *)
(* it, and a change of the password invalidates all tokens by raising the  *)
(* version.  Checking and hashing a password take a while, and requests    *)
(* interleave there.                                                       *)
(***************************************************************************)
EXTENDS Naturals, FiniteSets

CONSTANTS
  Browsers,     \* each with one request under way
  Names,        \* user names
  Words,        \* passwords
  MaxAttempts,  \* MAX_ATTEMPTS
  MaxChanges,   \* bound: setups and changes of a password
  MaxRestarts,  \* bound: restarts of the server
  None

ASSUME SessionsAssumption ==
  /\ MaxAttempts \in Nat \ {0}
  /\ {MaxChanges, MaxRestarts} \subseteq Nat
  /\ IsFiniteSet(Browsers)
  /\ None \notin Names \cup Words
  /\ None \notin [word : Words, version : Nat]
  /\ None \notin [name : Names, version : Nat, word : Words]

VARIABLES
  users,     \* name to password_hash and session_version
  attempts,  \* failed logins of a name in the window: the buckets of rate-limit.ts
  cookie,    \* the session of a browser; word is history: the password it was opened with
  page,      \* the page a browser shows
  pc,        \* where its request awaits
  typed,     \* the name and the password the request carries
  saw,       \* the row it has read
  crossed,   \* history: two changes of one password have overlapped
  changes, restarts

browser == <<cookie, page>>
request == <<pc, typed, saw>>
bounds == <<changes, restarts>>
vars == <<users, attempts, browser, request, crossed, bounds>>

Versions == 1..(MaxChanges + 1)
Account == [word : Words, version : Versions]
Session == [name : Names, version : Versions, word : Words]
Typed == [name : Names, word : Words, new : Words \cup {None}]
Nothing == [name |-> None, word |-> None, new |-> None]

TypeOK ==
  /\ users \in [Names -> Account \cup {None}]
  /\ attempts \in [Names -> 0..(MaxAttempts + Cardinality(Browsers))]
  /\ cookie \in [Browsers -> Session \cup {None}]
  /\ page \in [Browsers -> {"login", "setup", "app"}]
  /\ pc \in [Browsers -> {"idle", "check", "count", "select", "verify", "hash setup", "compare", "hash"}]
  /\ typed \in [Browsers -> Typed \cup {Nothing}]
  /\ saw \in [Browsers -> Account \cup {None}]
  /\ crossed \in BOOLEAN
  /\ changes \in 0..MaxChanges
  /\ restarts \in 0..MaxRestarts

\* A fresh database, or one with a seeded administrator.
Init ==
  /\ \E n \in Names, w \in Words :
       users \in {[m \in Names |-> None], [m \in Names |-> IF m = n THEN [word |-> w, version |-> 1] ELSE None]}
  /\ attempts = [n \in Names |-> 0]
  /\ cookie = [b \in Browsers |-> None]
  /\ page = [b \in Browsers |-> "login"]
  /\ pc = [b \in Browsers |-> "idle"]
  /\ typed = [b \in Browsers |-> Nothing]
  /\ saw = [b \in Browsers |-> None]
  /\ crossed = FALSE
  /\ changes = 0
  /\ restarts = 0

Goes(b, p) == pc' = [pc EXCEPT ![b] = p]
Shows(b, p) == page' = [page EXCEPT ![b] = p]
Sees(b, account) == saw' = [saw EXCEPT ![b] = account]
NoAdmin == \A n \in Names : users[n] = None

\* verifySessionToken and getSessionUser: the version must be the row's.
ValidIn(table, session) ==
  /\ session # None
  /\ table[session.name] # None
  /\ table[session.name].version = session.version
Valid(session) == ValidIn(users, session)

\* The response is sent.
Ends(b) ==
  /\ Goes(b, "idle")
  /\ typed' = [typed EXCEPT ![b] = Nothing]
  /\ Sees(b, None)

Token(n, version, word) == [name |-> n, version |-> version, word |-> word]
SetsCookie(b, token) == cookie' = [cookie EXCEPT ![b] = token]
ClearsCookie(b) == SetsCookie(b, None)
-----------------------------------------------------------------------------
(***************************************************************************)
(* Pages: each asks /api/auth/me when it opens.                            *)
(***************************************************************************)
\* getSessionUser; without a session the answer still needs the number of administrators.
CheckAuth(b) ==
  /\ pc[b] = "idle"
  /\ IF Valid(cookie[b])
     THEN Shows(b, "app") /\ UNCHANGED pc
     ELSE Goes(b, "check") /\ UNCHANGED page
  /\ UNCHANGED <<users, attempts, cookie, typed, saw, crossed, bounds>>

\* The login page offers the setup if there is no administrator; other pages go to the login page.
NeedsSetup(b) ==
  /\ pc[b] = "check"
  /\ Shows(b, IF NoAdmin THEN "setup" ELSE "login")
  /\ Goes(b, "idle")
  /\ UNCHANGED <<users, attempts, cookie, typed, saw, crossed, bounds>>

Logout(b) ==
  /\ pc[b] = "idle" /\ page[b] = "app"
  /\ ClearsCookie(b)
  /\ Shows(b, "login")
  /\ UNCHANGED <<users, attempts, request, crossed, bounds>>

\* The cookie and the token last seven days.
SessionExpires(b) ==
  /\ pc[b] = "idle" /\ cookie[b] # None
  /\ ClearsCookie(b)
  /\ UNCHANGED <<users, attempts, page, request, crossed, bounds>>
-----------------------------------------------------------------------------
(***************************************************************************)
(* POST /api/auth/setup.                                                   *)
(***************************************************************************)
Submits(b, t, p) ==
  /\ pc[b] = "idle"
  /\ typed' = [typed EXCEPT ![b] = t]
  /\ Goes(b, p)
  /\ UNCHANGED <<users, browser, saw, crossed, bounds>>

Setup(b, n, w) ==
  /\ page[b] = "setup" /\ changes < MaxChanges
  /\ Submits(b, [name |-> n, word |-> w, new |-> None], "count")
  /\ UNCHANGED attempts

CountUsers(b) ==
  /\ pc[b] = "count"
  /\ IF NoAdmin THEN Goes(b, "hash setup") /\ UNCHANGED <<typed, saw>> ELSE Ends(b)
  /\ UNCHANGED <<users, attempts, browser, crossed, bounds>>

\* hashPassword, then the row and initial_setup_completed in one batch; a name that is taken by now
\* fails it.
CreateAdmin(b) ==
  LET t == typed[b] IN
  /\ pc[b] = "hash setup"
  /\ IF users[t.name] = None /\ changes < MaxChanges
     THEN /\ users' = [users EXCEPT ![t.name] = [word |-> t.word, version |-> 1]]
          /\ SetsCookie(b, Token(t.name, 1, t.word))
          /\ Shows(b, "app")
          /\ changes' = changes + 1
     ELSE UNCHANGED <<users, browser, changes>>
  /\ Ends(b)
  /\ UNCHANGED <<attempts, crossed, restarts>>
-----------------------------------------------------------------------------
(***************************************************************************)
(* POST /api/auth/login.                                                   *)
(***************************************************************************)
\* checkLoginRateLimit.
Allowed(n) == attempts[n] < MaxAttempts

\* The limit is not asked for.
FaultyLogin(b, n, w) ==
  /\ page[b] = "login"
  /\ Submits(b, [name |-> n, word |-> w, new |-> None], "select")
  /\ UNCHANGED attempts

\* handleSubmit of the login page, and the request as far as the read of the row.
Login(b, n, w) ==
  /\ page[b] = "login" /\ Allowed(n)
  /\ Submits(b, [name |-> n, word |-> w, new |-> None], "select")
  /\ UNCHANGED attempts

SelectUser(b) ==
  /\ pc[b] = "select"
  /\ Sees(b, users[typed[b].name])
  /\ Goes(b, "verify")
  /\ UNCHANGED <<users, attempts, browser, typed, crossed, bounds>>

\* The token takes the version the row has after the password was checked.
FaultyVerify(b) ==
  LET t == typed[b] IN
  /\ pc[b] = "verify"
  /\ IF saw[b] # None /\ saw[b].word = t.word
     THEN /\ attempts' = [attempts EXCEPT ![t.name] = 0]
          /\ SetsCookie(b, Token(t.name, users[t.name].version, t.word))
          /\ Shows(b, "app")
     ELSE /\ attempts' = [attempts EXCEPT ![t.name] = @ + 1]
          /\ UNCHANGED browser
  /\ Ends(b)
  /\ UNCHANGED <<users, crossed, bounds>>

\* verifyPassword against the hash that was read; recordLoginFailure, or clearLoginFailures and a
\* token with the version that was read.
VerifyPassword(b) ==
  LET t == typed[b] IN
  /\ pc[b] = "verify"
  /\ IF saw[b] # None /\ saw[b].word = t.word
     THEN /\ attempts' = [attempts EXCEPT ![t.name] = 0]
          /\ SetsCookie(b, Token(t.name, saw[b].version, t.word))
          /\ Shows(b, "app")
     ELSE /\ attempts' = [attempts EXCEPT ![t.name] = @ + 1]
          /\ UNCHANGED browser
  /\ Ends(b)
  /\ UNCHANGED <<users, crossed, bounds>>

\* Fifteen minutes after the first failure.
WindowEnds(n) ==
  /\ attempts[n] > 0
  /\ attempts' = [attempts EXCEPT ![n] = 0]
  /\ UNCHANGED <<users, browser, request, crossed, bounds>>
-----------------------------------------------------------------------------
(***************************************************************************)
(* PUT /api/auth/password.                                                 *)
(***************************************************************************)
ChangePassword(b, w, new) ==
  /\ page[b] = "app" /\ pc[b] = "idle" /\ changes < MaxChanges
  /\ IF Valid(cookie[b])
     THEN /\ typed' = [typed EXCEPT ![b] = [name |-> cookie[b].name, word |-> w, new |-> new]]
          /\ Sees(b, users[cookie[b].name])
          /\ Goes(b, "compare")
     ELSE UNCHANGED request
  /\ UNCHANGED <<users, attempts, browser, crossed, bounds>>

\* The current password must match, and the new one must not.
ComparePassword(b) ==
  /\ pc[b] = "compare"
  /\ IF saw[b].word = typed[b].word /\ typed[b].new # saw[b].word
     THEN Goes(b, "hash") /\ UNCHANGED <<typed, saw>>
     ELSE Ends(b)
  /\ UNCHANGED <<users, attempts, browser, crossed, bounds>>

\* hashPassword, then the version that was read, plus one, is written.
StorePassword(b) ==
  LET t == typed[b]
      version == saw[b].version + 1
  IN /\ pc[b] = "hash" /\ changes < MaxChanges
     /\ users' = [users EXCEPT ![t.name] = [word |-> t.new, version |-> version]]
     /\ SetsCookie(b, Token(t.name, version, t.new))
     /\ crossed' = (crossed \/ users[t.name].version # saw[b].version)
     /\ changes' = changes + 1
     /\ Ends(b)
     /\ UNCHANGED <<attempts, page, restarts>>

\* The server is started again: requests and buckets are gone, the secret and the cookies stay.
Restart ==
  /\ restarts < MaxRestarts
  /\ restarts' = restarts + 1
  /\ attempts' = [n \in Names |-> 0]
  /\ pc' = [b \in Browsers |-> "idle"]
  /\ typed' = [b \in Browsers |-> Nothing]
  /\ saw' = [b \in Browsers |-> None]
  /\ UNCHANGED <<users, browser, crossed, changes>>
-----------------------------------------------------------------------------
Next ==
  \/ \E b \in Browsers :
       \/ CheckAuth(b) \/ NeedsSetup(b) \/ Logout(b) \/ SessionExpires(b)
       \/ \E n \in Names, w \in Words : Setup(b, n, w) \/ Login(b, n, w)
       \/ CountUsers(b) \/ CreateAdmin(b) \/ SelectUser(b) \/ VerifyPassword(b)
       \/ \E w, new \in Words : ChangePassword(b, w, new)
       \/ ComparePassword(b) \/ StorePassword(b)
  \/ \E n \in Names : WindowEnds(n)
  \/ Restart

Spec == Init /\ [][Next]_vars
-----------------------------------------------------------------------------
\* A session the server accepts was opened with the password that is valid now: a login that was
\* checking the old password while the new one was stored opens no session that lasts, and no
\* earlier session does (createSessionToken, PUT /api/auth/password).  Two changes that overlap
\* write the same version, and are left out.
SessionsCurrent ==
  \A b \in Browsers : Valid(cookie[b]) /\ ~crossed => cookie[b].word = users[cookie[b].name].word

\* A change of the password revokes the sessions there are, at once and for good: a session that is
\* accepted after a step was accepted before it, by the same row, unless the step opened it
\* (session_version in PUT /api/auth/password, verifySessionToken).
RevokedForGood ==
  [][~crossed' =>
       \A b \in Browsers : cookie[b] # None /\ cookie'[b] = cookie[b] /\ ValidIn(users', cookie[b]) =>
         Valid(cookie[b]) /\ users'[cookie[b].name] = users[cookie[b].name]]_vars

=============================================================================
