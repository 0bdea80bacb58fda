------------------------ MODULE AdministrationProofs ------------------------
(***************************************************************************)
(* What the administration keeps true.                                     *)
(*                                                                         *)
(* Sessions: a session that is accepted was opened with the current        *)
(* password, for every number of browsers, names, passwords, changes and   *)
(* restarts.  SessionsCurrent is not inductive: a login that has read the  *)
(* row opens its session later, and a session that is not accepted now     *)
(* would be if the version of its administrator could come back.           *)
(* Agreement says of every session and of every row that was read that it  *)
(* is the current row or older than it.  Versions only grow, as long as no *)
(* two changes of a password have overlapped.                              *)
(*                                                                         *)
(* Providers: what the Go core serves is never ambiguous, although it is   *)
(* put together from rows and users read at different times.  This follows *)
(* from the unique indexes, so long as every handler leaves the tables     *)
(* consistent and every list of rows was read with one SELECT.             *)
(***************************************************************************)
EXTENDS AdminSessions, FiniteSetTheorems, WellFoundedInduction, TLAPS

Row == [word : Words, version : Nat]
Cookie == [name : Names, version : Nat, word : Words]

\* A request that has read the row of an administrator.
Reading == {"verify", "compare", "hash"}

RowTypes == users \in [Names -> Row \cup {None}] /\ crossed \in BOOLEAN
CookieTypes == cookie \in [Browsers -> Cookie \cup {None}]
RequestTypes ==
  /\ pc \in [Browsers -> {"idle", "check", "count", "select", "verify", "hash setup", "compare", "hash"}]
  /\ typed \in [Browsers -> Typed \cup {Nothing}]
  /\ saw \in [Browsers -> Row \cup {None}]
  /\ \A b \in Browsers :
       /\ pc[b] \notin {"idle", "check"} => typed[b] \in Typed
       /\ pc[b] \in {"compare", "hash"} => saw[b] \in Row /\ typed[b].new \in Words

Types == RowTypes /\ CookieTypes /\ RequestTypes

\* r, a version of n with its password, is the current row of table or older.
Agrees(table, n, r) ==
  /\ table[n] # None
  /\ r.version <= table[n].version
  /\ r.version = table[n].version => r.word = table[n].word

CookiesAgree == \A b \in Browsers : cookie[b] # None => Agrees(users, cookie[b].name, cookie[b])

RowsAgree ==
  \A b \in Browsers : pc[b] \in Reading /\ saw[b] # None => Agrees(users, typed[b].name, saw[b])

Agreement == ~crossed => CookiesAgree /\ RowsAgree

SessionsInv == Types /\ Agreement
-----------------------------------------------------------------------------
\* The first states: no browser has a session, no request is under way.
LEMMA InitInv == Init => SessionsInv
<1> SUFFICES ASSUME Init PROVE SessionsInv
  OBVIOUS
<1>1. RowTypes
  <2>1. PICK n \in Names, w \in Words :
          users \in {[m \in Names |-> None], [m \in Names |-> IF m = n THEN [word |-> w, version |-> 1] ELSE None]}
    BY DEF Init
  <2>2. users \in [Names -> Row \cup {None}]
    BY <2>1 DEF Row
  <2> QED BY <2>2 DEF Init, RowTypes
<1>2. CookieTypes
  BY DEF Init, CookieTypes
<1>3. RequestTypes
  BY DEF Init, RequestTypes
<1>4. Agreement
  BY DEF Init, Agreement, CookiesAgree, RowsAgree, Reading
<1> QED BY <1>1, <1>2, <1>3, <1>4 DEF SessionsInv, Types

\* A request that ends, in any of the actions that end one.
LEMMA EndsRequest ==
  ASSUME RequestTypes, NEW b \in Browsers, Ends(b)
  PROVE  /\ RequestTypes'
         /\ \A c \in Browsers : pc'[c] \in Reading =>
              c # b /\ pc[c] \in Reading /\ saw'[c] = saw[c] /\ typed'[c] = typed[c]
<1>1. RequestTypes'
  BY DEF Ends, Goes, Sees, RequestTypes
<1>2. ASSUME NEW c \in Browsers, pc'[c] \in Reading
      PROVE  c # b /\ pc[c] \in Reading /\ saw'[c] = saw[c] /\ typed'[c] = typed[c]
  BY <1>2 DEF Ends, Goes, Sees, RequestTypes, Reading
<1> QED BY <1>1, <1>2

\* Steps that leave the rows alone and give no browser another session, and read no row: what is
\* in hand still agrees.
LEMMA NothingRead ==
  ASSUME SessionsInv, UNCHANGED users, UNCHANGED crossed, RequestTypes',
         \A b \in Browsers : cookie'[b] \in {cookie[b], None}, CookieTypes',
         \A b \in Browsers : pc'[b] \in Reading =>
           pc[b] \in Reading /\ saw'[b] = saw[b] /\ typed'[b] = typed[b]
  PROVE  SessionsInv'
<1>1. Types'
  BY DEF SessionsInv, Types, RowTypes
<1>2. ASSUME ~crossed' PROVE CookiesAgree' /\ RowsAgree'
  <2>1. CookiesAgree /\ RowsAgree
    BY <1>2 DEF SessionsInv, Agreement
  <2>2. CookiesAgree'
    BY <2>1 DEF CookiesAgree, Agrees
  <2>3. RowsAgree'
    BY <2>1 DEF RowsAgree, Agrees
  <2> QED BY <2>2, <2>3
<1> QED BY <1>1, <1>2 DEF SessionsInv, Agreement
-----------------------------------------------------------------------------
(***************************************************************************)
(* The actions that read a row, open a session or write a row.             *)
(***************************************************************************)
\* CreateAdmin: nobody has a session or a row of a name that was not taken.
LEMMA CreateAdminInv ==
  ASSUME SessionsInv, NEW b \in Browsers, CreateAdmin(b) PROVE SessionsInv'
<1> DEFINE t == typed[b]
           row == [word |-> t.word, version |-> 1]
<1>1. Ends(b) /\ UNCHANGED crossed /\ pc[b] = "hash setup"
  BY DEF CreateAdmin
<1>2. t \in Typed
  BY <1>1 DEF SessionsInv, Types, RequestTypes
<1>3. RequestTypes' /\ \A c \in Browsers : pc'[c] \in Reading =>
        pc[c] \in Reading /\ saw'[c] = saw[c] /\ typed'[c] = typed[c]
  BY <1>1, EndsRequest DEF SessionsInv, Types
<1>4. CASE users[t.name] = None /\ changes < MaxChanges
  <2>1. users' = [users EXCEPT ![t.name] = row] /\ cookie' = [cookie EXCEPT ![b] = Token(t.name, 1, t.word)]
    BY <1>4 DEF CreateAdmin, SetsCookie
  <2>2. RowTypes'
    BY <1>1, <1>2, <2>1 DEF SessionsInv, Types, RowTypes, Row, Typed
  <2>3. CookieTypes'
    BY <1>2, <2>1 DEF SessionsInv, Types, CookieTypes, Cookie, Token, Typed
  <2>4. ASSUME ~crossed' PROVE CookiesAgree' /\ RowsAgree'
    <3>1. CookiesAgree /\ RowsAgree
      BY <1>1, <2>4 DEF SessionsInv, Agreement
    <3>2. t.name \in Names /\ t.word \in Words /\ users'[t.name] = row /\ row # None
      BY <1>2, <2>1, SessionsAssumption DEF Typed, SessionsInv, Types, RowTypes
    <3>3. \A n \in Names : n # t.name => users'[n] = users[n]
      BY <2>1 DEF SessionsInv, Types, RowTypes
    <3>4. ASSUME NEW c \in Browsers, cookie'[c] # None PROVE Agrees(users', cookie'[c].name, cookie'[c])
      <4>1. CASE c = b
        <5>1. cookie'[c] = Token(t.name, 1, t.word)
          BY <2>1, <4>1 DEF SessionsInv, Types, CookieTypes
        <5> QED BY <3>2, <5>1 DEF Agrees, Token
      <4>2. CASE c # b
        <5>1. cookie'[c] = cookie[c] /\ cookie[c] \in Cookie
          BY <2>1, <3>4, <4>2 DEF SessionsInv, Types, CookieTypes
        <5>2. Agrees(users, cookie[c].name, cookie[c]) /\ cookie[c].name \in Names
          BY <3>1, <3>4, <5>1 DEF CookiesAgree, Cookie
        <5>3. cookie[c].name # t.name
          BY <1>4, <5>2 DEF Agrees
        <5> QED BY <3>3, <5>1, <5>2, <5>3 DEF Agrees
      <4> QED BY <4>1, <4>2
    <3>5. ASSUME NEW c \in Browsers, pc'[c] \in Reading, saw'[c] # None
          PROVE  Agrees(users', typed'[c].name, saw'[c])
      <4>1. pc[c] \in Reading /\ saw'[c] = saw[c] /\ typed'[c] = typed[c]
        BY <1>3, <3>5
      <4>2. Agrees(users, typed[c].name, saw[c]) /\ typed[c] \in Typed
        BY <3>1, <3>5, <4>1 DEF RowsAgree, SessionsInv, Types, RequestTypes, Reading
      <4>3. typed[c].name \in Names /\ typed[c].name # t.name
        BY <1>4, <4>2 DEF Agrees, Typed
      <4> QED BY <3>3, <4>1, <4>2, <4>3 DEF Agrees
    <3> QED BY <3>4, <3>5 DEF CookiesAgree, RowsAgree
  <2> QED BY <1>3, <2>2, <2>3, <2>4 DEF SessionsInv, Types, Agreement
<1>5. CASE ~(users[t.name] = None /\ changes < MaxChanges)
  <2>1. UNCHANGED <<users, cookie>>
    BY <1>5 DEF CreateAdmin, browser
  <2>2. CookieTypes' /\ \A c \in Browsers : cookie'[c] \in {cookie[c], None}
    BY <2>1 DEF SessionsInv, Types, CookieTypes
  <2> QED BY <1>1, <1>3, <2>1, <2>2, NothingRead
<1> QED BY <1>4, <1>5

\* SelectUser: the row that is read is the current one.
LEMMA SelectUserInv ==
  ASSUME SessionsInv, NEW b \in Browsers, SelectUser(b) PROVE SessionsInv'
<1> DEFINE n == typed[b].name
<1>1. pc[b] = "select" /\ typed[b] \in Typed /\ n \in Names
  BY DEF SelectUser, SessionsInv, Types, RequestTypes, Typed
<1>2. /\ pc' = [pc EXCEPT ![b] = "verify"]
      /\ saw' = [saw EXCEPT ![b] = users[n]]
      /\ UNCHANGED <<users, cookie, typed, crossed>>
  BY DEF SelectUser, Sees, Goes, browser
<1>3. Types'
  BY <1>1, <1>2 DEF SessionsInv, Types, RowTypes, CookieTypes, RequestTypes
<1>4. ASSUME ~crossed' PROVE CookiesAgree' /\ RowsAgree'
  <2>1. CookiesAgree /\ RowsAgree
    BY <1>2, <1>4 DEF SessionsInv, Agreement
  <2>2. CookiesAgree'
    BY <1>2, <2>1 DEF CookiesAgree, Agrees
  <2>3. ASSUME NEW c \in Browsers, pc'[c] \in Reading, saw'[c] # None
        PROVE  Agrees(users', typed'[c].name, saw'[c])
    <3>1. CASE c = b
      <4>1. saw'[c] = users[n] /\ typed'[c].name = n /\ users[n] \in Row
        BY <1>1, <1>2, <2>3, <3>1 DEF SessionsInv, Types, RequestTypes, RowTypes
      <4> QED BY <1>2, <2>3, <4>1 DEF Agrees, Row
    <3>2. CASE c # b
      BY <1>2, <2>1, <2>3, <3>2 DEF SessionsInv, Types, RequestTypes, RowsAgree, Agrees
    <3> QED BY <3>1, <3>2
  <2> QED BY <2>2, <2>3 DEF RowsAgree
<1> QED BY <1>3, <1>4 DEF SessionsInv, Agreement

\* VerifyPassword: the session takes the version and the password that were read.
LEMMA VerifyPasswordInv ==
  ASSUME SessionsInv, NEW b \in Browsers, VerifyPassword(b) PROVE SessionsInv'
<1> DEFINE t == typed[b]
           token == Token(t.name, saw[b].version, t.word)
<1>1. Ends(b) /\ UNCHANGED <<users, crossed>> /\ pc[b] = "verify"
  BY DEF VerifyPassword
<1>2. RequestTypes' /\ \A c \in Browsers : pc'[c] \in Reading =>
        pc[c] \in Reading /\ saw'[c] = saw[c] /\ typed'[c] = typed[c]
  BY <1>1, EndsRequest DEF SessionsInv, Types
<1>3. CASE saw[b] # None /\ saw[b].word = t.word
  <2>1. cookie' = [cookie EXCEPT ![b] = token]
    BY <1>3 DEF VerifyPassword, SetsCookie
  <2>2. t \in Typed /\ saw[b] \in Row
    BY <1>1, <1>3 DEF SessionsInv, Types, RequestTypes
  <2>3. Types'
    BY <1>1, <1>2, <2>1, <2>2
       DEF SessionsInv, Types, RowTypes, CookieTypes, Cookie, Token, Typed, Row
  <2>4. ASSUME ~crossed' PROVE CookiesAgree' /\ RowsAgree'
    <3>1. CookiesAgree /\ RowsAgree
      BY <1>1, <2>4 DEF SessionsInv, Agreement
    <3>2. Agrees(users, t.name, saw[b])
      BY <1>1, <1>3, <3>1 DEF RowsAgree, Reading
    <3>3. ASSUME NEW c \in Browsers, cookie'[c] # None PROVE Agrees(users', cookie'[c].name, cookie'[c])
      <4>1. CASE c = b
        <5>1. cookie'[c] = token
          BY <2>1, <4>1 DEF SessionsInv, Types, CookieTypes
        <5> QED BY <1>1, <1>3, <3>2, <5>1 DEF Agrees, Token
      <4>2. CASE c # b
        BY <1>1, <2>1, <3>1, <3>3, <4>2 DEF SessionsInv, Types, CookieTypes, CookiesAgree, Agrees
      <4> QED BY <4>1, <4>2
    <3>4. RowsAgree'
      BY <1>1, <1>2, <3>1 DEF RowsAgree, Agrees
    <3> QED BY <3>3, <3>4 DEF CookiesAgree
  <2> QED BY <2>3, <2>4 DEF SessionsInv, Agreement
<1>4. CASE ~(saw[b] # None /\ saw[b].word = t.word)
  <2>1. UNCHANGED cookie
    BY <1>4 DEF VerifyPassword, browser
  <2>2. CookieTypes' /\ \A c \in Browsers : cookie'[c] \in {cookie[c], None}
    BY <2>1 DEF SessionsInv, Types, CookieTypes
  <2> QED BY <1>1, <1>2, <2>2, NothingRead
<1> QED BY <1>3, <1>4

\* PUT /api/auth/password reads the row of the session it was sent with.
LEMMA ChangePasswordInv ==
  ASSUME SessionsInv, NEW b \in Browsers, NEW w \in Words, NEW new \in Words, ChangePassword(b, w, new)
  PROVE  SessionsInv'
<1> DEFINE n == cookie[b].name
<1>1. UNCHANGED <<users, cookie, crossed>>
  BY DEF ChangePassword, browser
<1>2. CASE Valid(cookie[b])
  <2>1. users[n] # None /\ cookie[b] \in Cookie /\ n \in Names /\ users[n] \in Row
    BY <1>2 DEF Valid, ValidIn, SessionsInv, Types, CookieTypes, RowTypes, Cookie
  <2>2. /\ pc' = [pc EXCEPT ![b] = "compare"]
        /\ saw' = [saw EXCEPT ![b] = users[n]]
        /\ typed' = [typed EXCEPT ![b] = [name |-> n, word |-> w, new |-> new]]
    BY <1>2 DEF ChangePassword, Sees, Goes
  <2>3. [name |-> n, word |-> w, new |-> new] \in Typed
    BY <2>1 DEF Typed
  <2>4. RequestTypes'
    BY <2>1, <2>2, <2>3 DEF SessionsInv, Types, RequestTypes
  <2>5. Types'
    BY <1>1, <2>4 DEF SessionsInv, Types, RowTypes, CookieTypes
  <2>6. ASSUME ~crossed' PROVE CookiesAgree' /\ RowsAgree'
    <3>1. CookiesAgree /\ RowsAgree
      BY <1>1, <2>6 DEF SessionsInv, Agreement
    <3>2. CookiesAgree'
      BY <1>1, <3>1 DEF CookiesAgree, Agrees
    <3>3. ASSUME NEW c \in Browsers, pc'[c] \in Reading, saw'[c] # None
          PROVE  Agrees(users', typed'[c].name, saw'[c])
      <4>1. CASE c = b
        <5>1. saw'[c] = users[n] /\ typed'[c].name = n
          BY <2>2, <4>1 DEF SessionsInv, Types, RequestTypes
        <5> QED BY <1>1, <2>1, <5>1 DEF Agrees, Row
      <4>2. CASE c # b
        BY <1>1, <2>2, <3>1, <3>3, <4>2 DEF SessionsInv, Types, RequestTypes, RowsAgree, Agrees
      <4> QED BY <4>1, <4>2
    <3> QED BY <3>2, <3>3 DEF RowsAgree
  <2> QED BY <2>5, <2>6 DEF SessionsInv, Agreement
<1>3. CASE ~Valid(cookie[b])
  <2>1. UNCHANGED <<pc, typed, saw>>
    BY <1>3 DEF ChangePassword, request
  <2>2. RequestTypes' /\ CookieTypes'
    BY <1>1, <2>1 DEF SessionsInv, Types, RequestTypes, CookieTypes
  <2> QED BY <1>1, <2>1, <2>2, NothingRead
<1> QED BY <1>2, <1>3

\* StorePassword: the new version is above every version of the name, unless another change was
\* stored in between.
LEMMA StorePasswordInv ==
  ASSUME SessionsInv, NEW b \in Browsers, StorePassword(b) PROVE SessionsInv'
<1> DEFINE t == typed[b]
           version == saw[b].version + 1
           row == [word |-> t.new, version |-> version]
           token == Token(t.name, version, t.new)
<1>1. Ends(b) /\ pc[b] = "hash" /\ crossed' = (crossed \/ users[t.name].version # saw[b].version)
  BY DEF StorePassword
<1>2. users' = [users EXCEPT ![t.name] = row] /\ cookie' = [cookie EXCEPT ![b] = token]
  BY DEF StorePassword, SetsCookie
<1>3. t \in Typed /\ t.name \in Names /\ t.new \in Words /\ saw[b] \in Row /\ version \in Nat
  <2>1. t \in Typed /\ saw[b] \in Row /\ t.new \in Words
    BY <1>1 DEF SessionsInv, Types, RequestTypes
  <2>2. t.name \in Names
    BY <2>1 DEF Typed
  <2>3. version \in Nat
    BY <2>1 DEF Row
  <2> QED BY <2>1, <2>2, <2>3
<1>4. RequestTypes' /\ \A c \in Browsers : pc'[c] \in Reading =>
        c # b /\ pc[c] \in Reading /\ saw'[c] = saw[c] /\ typed'[c] = typed[c]
  BY <1>1, EndsRequest DEF SessionsInv, Types
<1>5. row \in Row /\ token \in Cookie
  BY <1>3 DEF Row, Cookie, Token
<1>6. RowTypes'
  <2>1. users' \in [Names -> Row \cup {None}]
    BY <1>2, <1>5 DEF SessionsInv, Types, RowTypes
  <2>2. crossed' \in BOOLEAN
    BY <1>1
  <2> QED BY <2>1, <2>2 DEF RowTypes
<1>7. CookieTypes'
  BY <1>2, <1>5 DEF SessionsInv, Types, CookieTypes
<1>8. ASSUME ~crossed' PROVE CookiesAgree' /\ RowsAgree'
  <2>1. ~crossed /\ users[t.name].version = saw[b].version
    BY <1>1, <1>8
  <2>2. CookiesAgree /\ RowsAgree
    BY <2>1 DEF SessionsInv, Agreement
  <2>3. users'[t.name] = row /\ row # None /\ \A n \in Names : n # t.name => users'[n] = users[n]
    BY <1>2, <1>3, <1>5, SessionsAssumption DEF SessionsInv, Types, RowTypes, Row
  \* What agreed with the row before still does: of this name it is older now.
  <2>4. ASSUME NEW n \in Names, NEW r, r.version \in Nat, Agrees(users, n, r) PROVE Agrees(users', n, r)
    <3>1. CASE n = t.name
      BY <1>3, <2>1, <2>3, <2>4, <3>1 DEF Agrees, Row
    <3>2. CASE n # t.name
      BY <2>3, <2>4, <3>2 DEF Agrees
    <3> QED BY <3>1, <3>2
  <2>5. ASSUME NEW c \in Browsers, cookie'[c] # None PROVE Agrees(users', cookie'[c].name, cookie'[c])
    <3>1. CASE c = b
      <4>1. cookie'[c] = token
        BY <1>2, <3>1 DEF SessionsInv, Types, CookieTypes
      <4> QED BY <1>3, <2>3, <4>1 DEF Agrees, Token
    <3>2. CASE c # b
      <4>1. cookie'[c] = cookie[c] /\ cookie[c] \in Cookie
        BY <1>2, <2>5, <3>2 DEF SessionsInv, Types, CookieTypes
      <4> QED BY <2>2, <2>4, <2>5, <4>1 DEF CookiesAgree, Cookie
    <3> QED BY <3>1, <3>2
  <2>6. ASSUME NEW c \in Browsers, pc'[c] \in Reading, saw'[c] # None
        PROVE  Agrees(users', typed'[c].name, saw'[c])
    <3>1. pc[c] \in Reading /\ saw'[c] = saw[c] /\ typed'[c] = typed[c]
      BY <1>4, <2>6
    <3>2. typed[c].name \in Names /\ saw[c].version \in Nat
      BY <2>6, <3>1 DEF SessionsInv, Types, RequestTypes, Reading, Typed, Row
    <3> QED BY <2>2, <2>4, <2>6, <3>1, <3>2 DEF RowsAgree
  <2> QED BY <2>5, <2>6 DEF CookiesAgree, RowsAgree
<1> QED BY <1>4, <1>6, <1>7, <1>8 DEF SessionsInv, Types, Agreement
-----------------------------------------------------------------------------
\* Every step of the pages, of the requests and of the server.
LEMMA NextInv == SessionsInv /\ [Next]_vars => SessionsInv'
<1> SUFFICES ASSUME SessionsInv, [Next]_vars PROVE SessionsInv'
  OBVIOUS
<1> USE DEF SessionsInv, Types
\* What a step that reads no row and opens no session has to show.
<1> DEFINE Harmless ==
      /\ UNCHANGED users /\ UNCHANGED crossed /\ RequestTypes' /\ CookieTypes'
      /\ \A b \in Browsers : cookie'[b] \in {cookie[b], None}
      /\ \A b \in Browsers : pc'[b] \in Reading =>
           pc[b] \in Reading /\ saw'[b] = saw[b] /\ typed'[b] = typed[b]
<1>0. Harmless => SessionsInv'
  BY NothingRead
<1> HIDE DEF Harmless
<1>1. ASSUME NEW b \in Browsers, CheckAuth(b) PROVE Harmless
  BY <1>1 DEF Harmless, CheckAuth, Goes, Shows, CookieTypes, RequestTypes, Reading
<1>2. ASSUME NEW b \in Browsers, NeedsSetup(b) PROVE Harmless
  BY <1>2 DEF Harmless, NeedsSetup, Goes, Shows, CookieTypes, RequestTypes, Reading
<1>3. ASSUME NEW b \in Browsers, Logout(b) PROVE Harmless
  BY <1>3 DEF Harmless, Logout, ClearsCookie, SetsCookie, request, CookieTypes, RequestTypes, Reading
<1>4. ASSUME NEW b \in Browsers, SessionExpires(b) PROVE Harmless
  BY <1>4 DEF Harmless, SessionExpires, ClearsCookie, SetsCookie, request, CookieTypes, RequestTypes, Reading
<1>5. ASSUME NEW b \in Browsers, NEW n \in Names, NEW w \in Words, NEW p \in {"count", "select"},
             Submits(b, [name |-> n, word |-> w, new |-> None], p)
      PROVE  Harmless
  <2>1. [name |-> n, word |-> w, new |-> None] \in Typed
    BY DEF Typed
  <2> QED BY <1>5, <2>1 DEF Harmless, Submits, Goes, browser, CookieTypes, RequestTypes, Reading
<1>6. ASSUME NEW b \in Browsers, CountUsers(b) PROVE Harmless
  <2>1. UNCHANGED <<users, crossed, cookie>> /\ pc[b] = "count"
    BY <1>6 DEF CountUsers, browser
  <2>2. CASE Ends(b)
    BY <2>1, <2>2, EndsRequest DEF Harmless, CookieTypes
  <2>3. CASE Goes(b, "hash setup") /\ UNCHANGED <<typed, saw>>
    BY <2>1, <2>3 DEF Harmless, Goes, CookieTypes, RequestTypes, Reading
  <2> QED BY <1>6, <2>2, <2>3 DEF CountUsers
<1>7. ASSUME NEW b \in Browsers, ComparePassword(b) PROVE Harmless
  <2>1. UNCHANGED <<users, crossed, cookie>> /\ pc[b] = "compare"
    BY <1>7 DEF ComparePassword, browser
  <2>2. CASE Ends(b)
    BY <2>1, <2>2, EndsRequest DEF Harmless, CookieTypes
  <2>3. CASE Goes(b, "hash") /\ UNCHANGED <<typed, saw>>
    BY <2>1, <2>3 DEF Harmless, Goes, CookieTypes, RequestTypes, Reading
  <2> QED BY <1>7, <2>2, <2>3 DEF ComparePassword
<1>8. ASSUME NEW n \in Names, WindowEnds(n) PROVE Harmless
  BY <1>8 DEF Harmless, WindowEnds, browser, request, CookieTypes, RequestTypes
<1>9. ASSUME Restart PROVE Harmless
  BY <1>9 DEF Harmless, Restart, browser, CookieTypes, RequestTypes, Reading
<1>10. ASSUME UNCHANGED vars PROVE Harmless
  BY <1>10 DEF Harmless, vars, browser, request, CookieTypes, RequestTypes
<1>11. ASSUME NEW b \in Browsers, NEW n \in Names, NEW w \in Words, Setup(b, n, w) \/ Login(b, n, w)
       PROVE  Harmless
  BY <1>5, <1>11 DEF Setup, Login
<1> QED
  BY <1>0, <1>1, <1>2, <1>3, <1>4, <1>6, <1>7, <1>8, <1>9, <1>10, <1>11, CreateAdminInv,
     SelectUserInv, VerifyPasswordInv, ChangePasswordInv, StorePasswordInv DEF Next

\* A session the server accepts is of the current version of its row, so it has its password.
LEMMA InvImpliesCurrent == SessionsInv => SessionsCurrent
<1> SUFFICES ASSUME SessionsInv, NEW b \in Browsers, Valid(cookie[b]), ~crossed
             PROVE  cookie[b].word = users[cookie[b].name].word
  BY DEF SessionsCurrent
<1>1. Agrees(users, cookie[b].name, cookie[b])
  BY DEF SessionsInv, Agreement, CookiesAgree, Valid, ValidIn
<1> QED BY <1>1 DEF Agrees, Valid, ValidIn

\* A session that is accepted was opened with the password that is valid now (createSessionToken,
\* PUT /api/auth/password), whatever interleaves, as long as no two changes of a password overlap.
THEOREM SessionsAlwaysCurrent == Spec => []SessionsCurrent
<1>1. Init => SessionsInv
  BY InitInv
<1>2. SessionsInv /\ [Next]_vars => SessionsInv'
  BY NextInv
<1>3. SessionsInv => SessionsCurrent
  BY InvImpliesCurrent
<1> QED BY <1>1, <1>2, <1>3, PTL DEF Spec

\* The two steps that write rows revoke what is accepted by the row they write: one finds no row, so
\* there is no session of that name, the other raises the version above those of all sessions.
LEMMA RevokedNext ==
  ASSUME SessionsInv, [Next]_vars, ~crossed', NEW b \in Browsers, cookie[b] # None,
         ValidIn(users', cookie[b])
  PROVE  Valid(cookie[b]) /\ users'[cookie[b].name] = users[cookie[b].name]
<1> USE DEF SessionsInv, Types, RowTypes
<1>1. CASE users' = users
  BY <1>1 DEF Valid
<1>2. cookie[b] \in Cookie
  BY DEF CookieTypes
<1>3. ~crossed => Agrees(users, cookie[b].name, cookie[b])
  BY DEF Agreement, CookiesAgree
<1>4. ASSUME NEW d \in Browsers, NEW row, users' = [users EXCEPT ![typed[d].name] = row],
             cookie[b].name # typed[d].name
      PROVE  Valid(cookie[b]) /\ users'[cookie[b].name] = users[cookie[b].name]
  BY <1>2, <1>4 DEF Valid, ValidIn, Cookie
<1>5. ASSUME NEW d \in Browsers, CreateAdmin(d), users' # users PROVE cookie[b].name # typed[d].name
  <2>1. users[typed[d].name] = None /\ crossed' = crossed
    BY <1>5 DEF CreateAdmin
  <2>2. QED
    BY <1>3, <2>1 DEF Agrees
<1>6. ASSUME NEW d \in Browsers, StorePassword(d) PROVE cookie[b].name # typed[d].name
  <2>1. pc[d] = "hash" /\ typed[d] \in Typed /\ saw[d] \in Row
    BY <1>6 DEF StorePassword, RequestTypes
  <2>2. ~crossed /\ users[typed[d].name].version = saw[d].version
    BY <1>6 DEF StorePassword
  <2>3. users'[typed[d].name].version = saw[d].version + 1
    BY <1>6, <2>1 DEF StorePassword, Typed
  <2>4. cookie[b].version <= users[cookie[b].name].version
    BY <1>3, <2>2 DEF Agrees
  <2>5. QED
    BY <1>2, <2>1, <2>2, <2>3, <2>4 DEF ValidIn, Cookie, Row
<1>7. \/ users' = users
      \/ \E d \in Browsers : CreateAdmin(d) \/ StorePassword(d)
  BY DEF Next, CheckAuth, NeedsSetup, Logout, SessionExpires, Setup, Login, Submits, CountUsers,
         SelectUser, VerifyPassword, ChangePassword, ComparePassword, WindowEnds, Restart, vars
<1> QED BY <1>1, <1>4, <1>5, <1>6, <1>7 DEF CreateAdmin, StorePassword

\* A change of the password revokes the sessions of the administrator at once, and none that was
\* revoked is accepted again (PUT /api/auth/password, verifySessionToken), as long as no two changes
\* of a password overlap.
THEOREM RevocationIsFinal == Spec => RevokedForGood
<1>1. SessionsInv /\ [Next]_vars =>
        [~crossed' =>
           \A b \in Browsers : cookie[b] # None /\ cookie'[b] = cookie[b] /\ ValidIn(users', cookie[b]) =>
             Valid(cookie[b]) /\ users'[cookie[b].name] = users[cookie[b].name]]_vars
  BY RevokedNext
<1> QED BY <1>1, InitInv, NextInv, PTL DEF Spec, RevokedForGood
-----------------------------------------------------------------------------
(***************************************************************************)
(* The versions and the rate limit.                                        *)
(***************************************************************************)
\* A version is the first one, or one that a change has raised.
Known(row, n) == row # None => row.version \in 1..(n + 1)

VersionsInv ==
  /\ changes \in 0..MaxChanges /\ restarts \in 0..MaxRestarts
  /\ page \in [Browsers -> {"login", "setup", "app"}]
  /\ \A n \in Names : Known(users[n], changes)
  /\ \A b \in Browsers : Known(cookie[b], changes) /\ Known(saw[b], changes)

\* The logins of a name that passed checkLoginRateLimit and are not answered yet.
Logins(n) == {b \in Browsers : pc[b] \in {"select", "verify"} /\ typed[b].name = n}

LimitInv ==
  \A n \in Names :
    attempts[n] + Cardinality(Logins(n)) <= MaxAttempts + Cardinality(Browsers)
AttemptsTyped == attempts \in [Names -> Nat]

LEMMA KnownLater ==
  ASSUME NEW n \in Nat, NEW m \in Nat, n <= m, NEW row, Known(row, n)
  PROVE  Known(row, m)
BY DEF Known

\* Rows are only read and passed on, but by a setup and by a change of the password.
LEMMA PassedOn ==
  ASSUME VersionsInv, UNCHANGED <<users, changes, restarts>>,
         page' \in [Browsers -> {"login", "setup", "app"}],
         \A b \in Browsers :
           /\ cookie'[b] = None \/ cookie'[b] = cookie[b] \/ Known(cookie'[b], changes)
           /\ saw'[b] = None \/ saw'[b] = saw[b] \/ (\E n \in Names : saw'[b] = users[n])
  PROVE  VersionsInv'
BY DEF VersionsInv, Known

\* One that writes a row writes the version its session gets.
LEMMA RowWritten ==
  ASSUME Types, VersionsInv, NEW b \in Browsers, NEW n \in Names, NEW w \in Words,
         NEW version \in 1..(changes + 2), changes < MaxChanges,
         users' = [users EXCEPT ![n] = [word |-> w, version |-> version]],
         SetsCookie(b, Token(n, version, w)), changes' = changes + 1, restarts' = restarts,
         page' \in [Browsers -> {"login", "setup", "app"}], Ends(b)
  PROVE  VersionsInv'
<1>1. changes \in Nat /\ changes' \in 0..MaxChanges /\ changes <= changes' /\ changes' \in Nat
  BY SessionsAssumption DEF VersionsInv
<1>2. version \in 1..(changes' + 1)
  BY <1>1
<1>3. \A m \in Names : users'[m] = users[m] \/ users'[m] = [word |-> w, version |-> version]
  BY DEF Types, RowTypes
<1>4. \A m \in Names : Known(users'[m], changes')
  BY <1>1, <1>2, <1>3, KnownLater DEF VersionsInv, Known
<1>5. \A c \in Browsers : cookie'[c] = cookie[c] \/ cookie'[c] = Token(n, version, w)
  BY DEF SetsCookie, Types, CookieTypes
<1>6. \A c \in Browsers : Known(cookie'[c], changes')
  BY <1>1, <1>2, <1>5, KnownLater DEF VersionsInv, Known, Token
<1>7. \A c \in Browsers : saw'[c] = saw[c] \/ saw'[c] = None
  BY DEF Ends, Sees, Types, RequestTypes
<1>8. \A c \in Browsers : Known(saw'[c], changes')
  BY <1>1, <1>7, KnownLater DEF VersionsInv, Known
<1> QED BY <1>1, <1>4, <1>6, <1>8 DEF VersionsInv

LEMMA VersionsSteps == Types /\ VersionsInv /\ [Next]_vars => VersionsInv'
<1> SUFFICES ASSUME Types, VersionsInv, [Next]_vars PROVE VersionsInv'
  OBVIOUS
<1>a. page \in [Browsers -> {"login", "setup", "app"}]
  BY DEF VersionsInv
<1>b. saw \in [Browsers -> Row \cup {None}] /\ cookie \in [Browsers -> Cookie \cup {None}]
  BY DEF Types, RequestTypes, CookieTypes
<1>1. ASSUME NEW b \in Browsers, CheckAuth(b) \/ NeedsSetup(b) PROVE VersionsInv'
  BY <1>a, <1>1, PassedOn DEF CheckAuth, NeedsSetup, Shows, bounds
<1>2. ASSUME NEW b \in Browsers, Logout(b) \/ SessionExpires(b) PROVE VersionsInv'
  BY <1>a, <1>b, <1>2, PassedOn DEF Logout, SessionExpires, ClearsCookie, SetsCookie, Shows, request, bounds
<1>3. ASSUME NEW b \in Browsers, NEW n \in Names, NEW w \in Words, Setup(b, n, w) \/ Login(b, n, w)
      PROVE  VersionsInv'
  BY <1>a, <1>3, PassedOn DEF Setup, Login, Submits, browser, bounds
<1>4. ASSUME NEW b \in Browsers, CountUsers(b) \/ ComparePassword(b) PROVE VersionsInv'
  BY <1>a, <1>b, <1>4, PassedOn DEF CountUsers, ComparePassword, Ends, Sees, browser, bounds
<1>5. ASSUME NEW b \in Browsers, CreateAdmin(b) PROVE VersionsInv'
  <2>1. Ends(b) /\ restarts' = restarts /\ typed[b] \in Typed
    BY <1>5 DEF CreateAdmin, Types, RequestTypes
  <2>2. CASE users[typed[b].name] = None /\ changes < MaxChanges
    <3>1. 1 \in 1..(changes + 2) /\ typed[b].name \in Names /\ typed[b].word \in Words
      BY <2>1 DEF VersionsInv, Typed
    <3>2. /\ users' = [users EXCEPT ![typed[b].name] = [word |-> typed[b].word, version |-> 1]]
          /\ SetsCookie(b, Token(typed[b].name, 1, typed[b].word))
          /\ changes' = changes + 1
          /\ page' \in [Browsers -> {"login", "setup", "app"}]
      BY <1>a, <1>5, <2>2 DEF CreateAdmin, Shows
    <3> QED BY <2>1, <2>2, <3>1, <3>2, RowWritten
  <2>3. CASE ~(users[typed[b].name] = None /\ changes < MaxChanges)
    BY <1>a, <1>b, <1>5, <2>1, <2>3, PassedOn DEF CreateAdmin, Ends, Sees, browser
  <2> QED BY <2>2, <2>3
<1>6. ASSUME NEW b \in Browsers, SelectUser(b) PROVE VersionsInv'
  <2>1. typed[b].name \in Names
    BY <1>6 DEF SelectUser, Types, RequestTypes, Typed
  <2> QED BY <1>a, <1>b, <1>6, <2>1, PassedOn DEF SelectUser, Sees, browser, bounds
<1>7. ASSUME NEW b \in Browsers, VerifyPassword(b) PROVE VersionsInv'
  <2>1. /\ Ends(b) /\ UNCHANGED <<users, changes, restarts>>
        /\ page' \in [Browsers -> {"login", "setup", "app"}]
        /\ cookie' = cookie \/ (saw[b] # None /\ SetsCookie(b, Token(typed[b].name, saw[b].version, typed[b].word)))
    BY <1>a, <1>7 DEF VerifyPassword, Shows, browser, bounds
  <2>2. saw[b] # None => Known(Token(typed[b].name, saw[b].version, typed[b].word), changes)
    BY DEF VersionsInv, Known, Token
  <2>3. \A c \in Browsers : cookie'[c] = cookie[c] \/ Known(cookie'[c], changes)
    BY <1>b, <2>1, <2>2 DEF SetsCookie
  <2>4. \A c \in Browsers : saw'[c] = None \/ saw'[c] = saw[c]
    BY <1>b, <2>1 DEF Ends, Sees
  <2> QED BY <2>1, <2>3, <2>4, PassedOn
<1>8. ASSUME NEW b \in Browsers, NEW w \in Words, NEW new \in Words, ChangePassword(b, w, new)
      PROVE  VersionsInv'
  <2>1. UNCHANGED <<users, cookie, page, changes, restarts>>
    BY <1>8 DEF ChangePassword, browser, bounds
  <2>2. CASE Valid(cookie[b])
    <3>1. cookie[b].name \in Names
      BY <1>b, <2>2 DEF Valid, ValidIn, Cookie
    <3> QED BY <1>a, <1>b, <1>8, <2>1, <2>2, <3>1, PassedOn DEF ChangePassword, Sees
  <2>3. CASE ~Valid(cookie[b])
    BY <1>a, <1>8, <2>1, <2>3, PassedOn DEF ChangePassword, request
  <2> QED BY <2>2, <2>3
<1>9. ASSUME NEW b \in Browsers, StorePassword(b) PROVE VersionsInv'
  <2>1. saw[b] \in Row /\ typed[b] \in Typed /\ typed[b].new \in Words
    BY <1>9 DEF StorePassword, Types, RequestTypes
  <2>2. saw[b].version \in 1..(changes + 1) /\ typed[b].name \in Names
    BY <2>1, SessionsAssumption DEF VersionsInv, Known, Row, Typed
  <2>3. saw[b].version + 1 \in 1..(changes + 2)
    BY <2>2 DEF VersionsInv
  <2> QED BY <1>a, <1>9, <2>1, <2>2, <2>3, RowWritten DEF StorePassword
<1>10. ASSUME NEW n \in Names, WindowEnds(n) PROVE VersionsInv'
  BY <1>a, <1>10, PassedOn DEF WindowEnds, browser, request, bounds
<1>11. CASE Restart
  <2>1. restarts' \in 0..MaxRestarts
    BY <1>11, SessionsAssumption DEF Restart, VersionsInv
  <2> QED BY <1>11, <2>1 DEF Restart, VersionsInv, browser, Known
<1>12. CASE UNCHANGED vars
  BY <1>a, <1>12, PassedOn DEF vars, browser, request, bounds
<1> QED
  BY <1>1, <1>2, <1>3, <1>4, <1>5, <1>6, <1>7, <1>8, <1>9, <1>10, <1>11, <1>12 DEF Next

LEMMA LoginsCount ==
  ASSUME NEW S \in SUBSET Browsers
  PROVE  IsFiniteSet(S) /\ Cardinality(S) \in Nat /\ Cardinality(S) <= Cardinality(Browsers)
BY SessionsAssumption, FS_Subset, FS_CardinalityType

\* A login that is under way may fail after the limit was reached by others, but none that comes
\* later is let in.
LEMMA LimitHolds ==
  ASSUME AttemptsTyped, AttemptsTyped', NEW n \in Names,
         attempts[n] + Cardinality(Logins(n)) <= MaxAttempts + Cardinality(Browsers),
         \/ attempts'[n] <= attempts[n] /\ Logins(n)' \subseteq Logins(n)
         \/ attempts[n] < MaxAttempts /\ attempts'[n] = attempts[n]
         \/ /\ attempts'[n] = attempts[n] + 1
            /\ \E b \in Logins(n) : Logins(n)' \subseteq Logins(n) \ {b}
  PROVE  attempts'[n] + Cardinality(Logins(n)') <= MaxAttempts + Cardinality(Browsers)
<1>1. Logins(n) \in SUBSET Browsers /\ Logins(n)' \in SUBSET Browsers /\ Browsers \in SUBSET Browsers
  BY DEF Logins
<1>2. /\ IsFiniteSet(Logins(n)) /\ Cardinality(Logins(n)) \in Nat
      /\ Cardinality(Logins(n)') \in Nat /\ Cardinality(Logins(n)') <= Cardinality(Browsers)
      /\ Cardinality(Browsers) \in Nat
  BY <1>1, LoginsCount
<1>3. attempts[n] \in Nat /\ attempts'[n] \in Nat /\ MaxAttempts \in Nat
  BY SessionsAssumption DEF AttemptsTyped
<1>4. CASE attempts'[n] <= attempts[n] /\ Logins(n)' \subseteq Logins(n)
  <2>1. Cardinality(Logins(n)') <= Cardinality(Logins(n))
    BY <1>2, <1>4, FS_Subset
  <2> QED BY <1>2, <1>3, <1>4, <2>1
<1>5. CASE attempts[n] < MaxAttempts /\ attempts'[n] = attempts[n]
  BY <1>2, <1>3, <1>5
<1>6. ASSUME attempts'[n] = attempts[n] + 1, NEW b \in Logins(n), Logins(n)' \subseteq Logins(n) \ {b}
      PROVE  attempts'[n] + Cardinality(Logins(n)') <= MaxAttempts + Cardinality(Browsers)
  <2>1. IsFiniteSet(Logins(n) \ {b}) /\ Cardinality(Logins(n) \ {b}) = Cardinality(Logins(n)) - 1
    BY <1>2, FS_RemoveElement
  <2>2. Cardinality(Logins(n)') <= Cardinality(Logins(n)) - 1
    BY <1>6, <2>1, FS_Subset
  <2> QED BY <1>2, <1>3, <1>6, <2>2
<1> QED BY <1>4, <1>5, <1>6

\* The logins of a name: a request that ends is none of them any more, and the others stay.
LEMMA LoginsEnd ==
  ASSUME Types, NEW b \in Browsers, Ends(b), NEW n \in Names
  PROVE  Logins(n)' \subseteq Logins(n) \ {b}
BY DEF Ends, Goes, Logins, Types, RequestTypes

LEMMA LoginsStay ==
  ASSUME Types, NEW n \in Names,
         \A b \in Browsers : pc'[b] \in {"select", "verify"} =>
           pc[b] \in {"select", "verify"} /\ typed'[b] = typed[b]
  PROVE  Logins(n)' \subseteq Logins(n)
BY DEF Logins

LEMMA LimitSteps == Types /\ AttemptsTyped /\ LimitInv /\ [Next]_vars => AttemptsTyped' /\ LimitInv'
<1> SUFFICES ASSUME Types, AttemptsTyped, LimitInv, [Next]_vars PROVE AttemptsTyped' /\ LimitInv'
  OBVIOUS
<1> DEFINE Within(n) ==
      \/ attempts'[n] <= attempts[n] /\ Logins(n)' \subseteq Logins(n)
      \/ attempts[n] < MaxAttempts /\ attempts'[n] = attempts[n]
      \/ /\ attempts'[n] = attempts[n] + 1
         /\ \E b \in Logins(n) : Logins(n)' \subseteq Logins(n) \ {b}
    Kept == \A b \in Browsers : pc'[b] \in {"select", "verify"} =>
              pc[b] \in {"select", "verify"} /\ typed'[b] = typed[b]
<1>a. \A n \in Names : attempts[n] \in Nat
  BY DEF AttemptsTyped
<1>b. pc \in [Browsers -> {"idle", "check", "count", "select", "verify", "hash setup", "compare", "hash"}]
  BY DEF Types, RequestTypes
<1>1. ASSUME attempts' = attempts, Kept PROVE AttemptsTyped' /\ \A n \in Names : Within(n)
  BY <1>a, <1>1, LoginsStay DEF AttemptsTyped
<1>2. ASSUME NEW b \in Browsers, attempts' = attempts, Ends(b)
      PROVE  AttemptsTyped' /\ \A n \in Names : Within(n)
  <2>1. \A n \in Names : Logins(n)' \subseteq Logins(n)
    BY <1>2, LoginsEnd
  <2> QED BY <1>a, <1>2, <2>1 DEF AttemptsTyped
<1>3. ASSUME NEW b \in Browsers,
             CheckAuth(b) \/ NeedsSetup(b) \/ Logout(b) \/ SessionExpires(b) \/ SelectUser(b)
             \/ (\E w, new \in Words : ChangePassword(b, w, new))
             \/ (\E n \in Names, w \in Words : Setup(b, n, w))
      PROVE  attempts' = attempts /\ Kept
  <2>1. CASE CheckAuth(b) \/ NeedsSetup(b) \/ Logout(b) \/ SessionExpires(b)
    BY <1>b, <2>1 DEF CheckAuth, NeedsSetup, Logout, SessionExpires, Goes, request
  <2>2. CASE SelectUser(b)
    BY <1>b, <2>2 DEF SelectUser, Goes
  <2>3. ASSUME NEW w \in Words, NEW new \in Words, ChangePassword(b, w, new)
        PROVE  attempts' = attempts /\ Kept
    <3>1. attempts' = attempts
      BY <2>3 DEF ChangePassword
    <3>2. CASE Valid(cookie[b])
      <4>1. Goes(b, "compare") /\ \A c \in Browsers \ {b} : typed'[c] = typed[c]
        BY <2>3, <3>2 DEF ChangePassword, Types, RequestTypes
      <4> QED BY <1>b, <3>1, <4>1 DEF Goes
    <3>3. CASE ~Valid(cookie[b])
      BY <2>3, <3>1, <3>3 DEF ChangePassword, request
    <3> QED BY <3>2, <3>3
  <2>4. ASSUME NEW n \in Names, NEW w \in Words, Setup(b, n, w)
        PROVE  attempts' = attempts /\ Kept
    <3>1. /\ attempts' = attempts /\ Goes(b, "count")
          /\ \A c \in Browsers \ {b} : typed'[c] = typed[c]
      BY <2>4 DEF Setup, Submits, Types, RequestTypes
    <3> QED BY <1>b, <3>1 DEF Goes
  <2> QED BY <1>3, <2>1, <2>2, <2>3, <2>4
<1>4. ASSUME NEW b \in Browsers, CountUsers(b) \/ ComparePassword(b) \/ CreateAdmin(b) \/ StorePassword(b)
      PROVE  attempts' = attempts /\ (Kept \/ Ends(b))
  BY <1>b, <1>4 DEF CountUsers, ComparePassword, CreateAdmin, StorePassword, Goes
<1>5. ASSUME NEW b \in Browsers, NEW m \in Names, NEW w \in Words, Login(b, m, w)
      PROVE  AttemptsTyped' /\ \A n \in Names : Within(n)
  <2>1. /\ attempts[m] < MaxAttempts /\ attempts' = attempts
        /\ \A c \in Browsers \ {b} : pc'[c] = pc[c] /\ typed'[c] = typed[c]
        /\ typed'[b].name = m
    BY <1>5 DEF Login, Allowed, Submits, Goes, Types, RequestTypes
  <2>2. \A n \in Names \ {m} : Logins(n)' \subseteq Logins(n)
    BY <2>1 DEF Logins
  <2> QED BY <1>a, <2>1, <2>2 DEF AttemptsTyped
<1>6. ASSUME NEW b \in Browsers, VerifyPassword(b)
      PROVE  AttemptsTyped' /\ \A n \in Names : Within(n)
  <2> DEFINE m == typed[b].name
  <2>1. pc[b] = "verify" /\ Ends(b) /\ m \in Names /\ b \in Logins(m)
    BY <1>6 DEF VerifyPassword, Types, RequestTypes, Typed, Logins
  <2>2. \A n \in Names : Logins(n)' \subseteq Logins(n) \ {b}
    BY <2>1, LoginsEnd
  <2>3. /\ \A n \in Names \ {m} : attempts'[n] = attempts[n]
        /\ attempts'[m] = 0 \/ attempts'[m] = attempts[m] + 1
        /\ AttemptsTyped'
    BY <1>a, <1>6, <2>1 DEF VerifyPassword, AttemptsTyped
  <2> HIDE DEF m
  <2> QED BY <1>a, <2>1, <2>2, <2>3
<1>7. ASSUME NEW m \in Names, WindowEnds(m) PROVE AttemptsTyped' /\ \A n \in Names : Within(n)
  <2>1. attempts' = [attempts EXCEPT ![m] = 0] /\ Kept
    BY <1>7 DEF WindowEnds, request
  <2>2. \A n \in Names : attempts'[n] \in Nat /\ attempts'[n] <= attempts[n]
    BY <1>a, <2>1 DEF AttemptsTyped
  <2>3. \A n \in Names : Logins(n)' \subseteq Logins(n)
    BY <2>1, LoginsStay
  <2> QED BY <2>1, <2>2, <2>3 DEF AttemptsTyped
<1>8. ASSUME Restart PROVE AttemptsTyped' /\ \A n \in Names : Within(n)
  <2>1. attempts' = [n \in Names |-> 0] /\ Kept
    BY <1>8 DEF Restart
  <2>2. \A n \in Names : attempts'[n] <= attempts[n]
    BY <1>a, <2>1
  <2>3. \A n \in Names : Logins(n)' \subseteq Logins(n)
    BY <2>1, LoginsStay
  <2> QED BY <2>1, <2>2, <2>3 DEF AttemptsTyped
<1>9. ASSUME UNCHANGED vars PROVE attempts' = attempts /\ Kept
  BY <1>9 DEF vars, request
<1> HIDE DEF Within, Kept
<1>10. AttemptsTyped' /\ \A n \in Names : Within(n)
  BY <1>1, <1>2, <1>3, <1>4, <1>5, <1>6, <1>7, <1>8, <1>9 DEF Next
<1> QED BY <1>10, LimitHolds DEF LimitInv, Within

\* Versions are those of changes that were made, and no more logins of a name fail in a window than
\* the limit and the requests under way (checkLoginRateLimit reads before the password is checked,
\* recordLoginFailure counts after it).
THEOREM SessionsTyped == Spec => []TypeOK
<1> DEFINE Inv == SessionsInv /\ VersionsInv /\ AttemptsTyped /\ LimitInv
<1>1. Init => Inv
  <2> SUFFICES ASSUME Init PROVE VersionsInv /\ AttemptsTyped /\ LimitInv
    BY InitInv
  <2>1. /\ changes = 0 /\ restarts = 0 /\ page = [b \in Browsers |-> "login"]
        /\ \A n \in Names : users[n] = None \/ users[n].version = 1
        /\ \A b \in Browsers : cookie[b] = None /\ saw[b] = None
    BY DEF Init
  <2>2. VersionsInv
    BY <2>1, SessionsAssumption DEF VersionsInv, Known
  <2>3. AttemptsTyped
    BY DEF Init, AttemptsTyped
  <2>4. LimitInv
    <3> SUFFICES ASSUME NEW n \in Names
                 PROVE  attempts[n] + Cardinality(Logins(n)) <= MaxAttempts + Cardinality(Browsers)
      BY DEF LimitInv
    <3>1. Logins(n) \in SUBSET Browsers /\ Browsers \in SUBSET Browsers
      BY DEF Logins
    <3>2. /\ Cardinality(Logins(n)) \in Nat /\ Cardinality(Logins(n)) <= Cardinality(Browsers)
          /\ Cardinality(Browsers) \in Nat
      BY <3>1, LoginsCount
    <3>3. attempts[n] = 0 /\ MaxAttempts \in Nat
      BY SessionsAssumption DEF Init
    <3> QED BY <3>2, <3>3
  <2> QED BY <2>2, <2>3, <2>4
<1>2. Inv /\ [Next]_vars => Inv'
  BY NextInv, VersionsSteps, LimitSteps DEF SessionsInv
<1>3. Inv => TypeOK
  <2> SUFFICES ASSUME Inv PROVE TypeOK
    OBVIOUS
  <2>1. RowTypes /\ CookieTypes /\ RequestTypes /\ VersionsInv
    BY DEF SessionsInv, Types
  <2>2. \A k \in 1..(changes + 1) : k \in Versions
    BY SessionsAssumption DEF VersionsInv, Versions
  <2>3. users \in [Names -> Account \cup {None}]
    BY <2>1, <2>2 DEF RowTypes, Row, Account, VersionsInv, Known
  <2>4. saw \in [Browsers -> Account \cup {None}]
    BY <2>1, <2>2 DEF RequestTypes, Row, Account, VersionsInv, Known
  <2>5. cookie \in [Browsers -> Session \cup {None}]
    BY <2>1, <2>2 DEF CookieTypes, Cookie, Session, VersionsInv, Known
  <2>6. \A n \in Names : attempts[n] \in 0..(MaxAttempts + Cardinality(Browsers))
    <3> SUFFICES ASSUME NEW n \in Names
                 PROVE  attempts[n] \in 0..(MaxAttempts + Cardinality(Browsers))
      OBVIOUS
    <3>1. Logins(n) \in SUBSET Browsers /\ Browsers \in SUBSET Browsers
      BY DEF Logins
    <3>2. Cardinality(Logins(n)) \in Nat /\ Cardinality(Browsers) \in Nat
      BY <3>1, LoginsCount
    <3>3. attempts[n] \in Nat /\ MaxAttempts \in Nat
          /\ attempts[n] + Cardinality(Logins(n)) <= MaxAttempts + Cardinality(Browsers)
      BY SessionsAssumption DEF AttemptsTyped, LimitInv
    <3> QED BY <3>2, <3>3
  <2>7. attempts \in [Names -> 0..(MaxAttempts + Cardinality(Browsers))]
    BY <2>6 DEF AttemptsTyped
  <2> QED
    BY <2>1, <2>3, <2>4, <2>5, <2>7 DEF TypeOK, RowTypes, RequestTypes, VersionsInv
<1> QED BY <1>1, <1>2, <1>3, PTL DEF Spec
-----------------------------------------------------------------------------
(***************************************************************************)
(* The providers these administrators edit, and the copy of them the Go    *)
(* core serves: module Providers, for every number of tabs, providers,     *)
(* routes, users, requests and faults.                                     *)
(***************************************************************************)
CONSTANTS
  Tabs, Own, Providers, Routes, ClientNames, Installed, Clients, MaxUsers, Edits, MaxEdits, MaxLost,
  Same, NoRow, NoUser, NoName

VARIABLES
  providers, userRows, created, ids, op, awaits, row, existing, fetch, snapshot, edits, lost

P == INSTANCE Providers
     WITH Names <- ClientNames, users <- userRows, pc <- awaits, saw <- existing

\* Where a handler that writes users may be.
OfUsers == {"primary", "ensure", "existing", "name", "write", "sync", "local", "reloadUser"}

TabTypes ==
  /\ op \in [Tabs -> P!Edit]
  /\ awaits \in [Tabs -> P!Step]
  /\ row \in [Tabs -> P!Row \cup {NoRow}]
  /\ existing \in [Tabs -> P!User \cup ClientNames \cup {NoUser, NoName}]

\* What a handler that has come to a step has read, and which fields its request has.
HandlerHolds(t) ==
  LET e == op[t] IN
  /\ awaits[t] = "form" => row[t] \in P!Row
  /\ awaits[t] = "userForm" => existing[t] \in P!User
  /\ awaits[t] = "read" => e.kind \in {"update", "default", "delete"}
  /\ awaits[t] \in {"route", "commit"} /\ e.kind = "create" =>
       Same \notin {e.route, e.default, e.enabled, e.name} /\ e.provider \in ids
  /\ awaits[t] \in {"route", "commit"} /\ e.kind = "update" => row[t] \in P!Row
  /\ awaits[t] \in OfUsers /\ e.kind = "update" => e.name # Same
  /\ awaits[t] \in OfUsers /\ e.kind = "addUser" => Same \notin {e.enabled, e.name}
  /\ awaits[t] \in {"name", "write"} /\ ~P!Adds(e) => existing[t] \in P!User
  /\ awaits[t] = "local" => existing[t] \in ClientNames \cup {NoName}

TabInv == TabTypes /\ \A t \in Tabs : HandlerHolds(t)

TablesInv ==
  /\ providers \in [Providers -> P!Row \cup {NoRow}]
  /\ userRows \in [P!UserIds -> P!User \cup {NoUser}]
  /\ P!Consistent(providers, userRows)
  /\ created \in 0..MaxUsers
  /\ \A u \in P!UserIds : userRows[u] # NoUser => u <= created
  /\ ids \subseteq Providers
  /\ \A p \in Providers : providers[p] # NoRow => p \in ids

\* One route for each of these rows, and one default among them.
Distinct(rows) ==
  \A p, q \in Providers : p # q /\ rows[p] # NoRow /\ rows[q] # NoRow
                            => rows[p].route # rows[q].route /\ ~(rows[p].default /\ rows[q].default)
\* What RegistryUnambiguous says of the copy, of any answer.
Unambiguous(answer) ==
  /\ \A p, q \in answer : p # q => p.id # q.id /\ p.route # q.route /\ ~(p.default /\ q.default)
  /\ \A p \in answer : \A c, d \in p.clients : c.name = d.name => c = d

Fetching == [at : {"idle", "users", "store"},
             rows : [Providers -> P!Row \cup {NoRow}], answer : SUBSET P!Served]

CoreInv ==
  /\ fetch \in [P!Fetchers -> Fetching]
  /\ snapshot \subseteq P!Served
  /\ \A f \in P!Fetchers : Distinct(fetch[f].rows) /\ Unambiguous(fetch[f].answer)
  /\ Unambiguous(snapshot)

ProvidersInv == TabInv /\ TablesInv /\ CoreInv
-----------------------------------------------------------------------------
\* The values before the first request and the first fetch.
LEMMA ConstantTypes ==
  ASSUME P!ConstantsFit
  PROVE  P!NoOp \in P!Edit /\ P!NoFetch \in Fetching /\ P!NoOp.kind = "delete" /\ P!NoFetch.at = "idle"
<1>1. (CHOOSE p \in Providers : TRUE) \in Providers
  BY DEF P!ConstantsFit
<1>2. P!NoOp \in P!Edit
  BY <1>1 DEF P!ConstantsFit, P!NoOp, P!Edit, P!Kinds
<1>3. P!NoFetch \in Fetching
  BY DEF P!NoFetch, Fetching
<1>4. QED
  BY <1>2, <1>3 DEF P!NoOp, P!NoFetch

\* The first states: nothing is under way, and the tables are consistent.
LEMMA ProvidersInit ==
  ASSUME P!ConstantsFit, P!Init
  PROVE  ProvidersInv
<1>1. TabInv
  BY ConstantTypes DEF P!Init, TabInv, TabTypes, HandlerHolds, P!Step, OfUsers
<1>2. created \in 0..MaxUsers /\ \A u \in P!UserIds : userRows[u] # NoUser => u <= created
  <2>1. PICK n \in 0..MaxUsers : {u \in P!UserIds : Clients[u] # NoUser} = 1..n
    BY DEF P!ConstantsFit
  <2>2. n \in Nat /\ MaxUsers \in Nat
    BY <2>1 DEF P!ConstantsFit
  <2>3. Cardinality(1..n) = n
    BY <2>2, FS_Interval
  <2>4. created = n
    BY <2>1, <2>3 DEF P!Init, P!Cardinality, Cardinality
  <2>5. \A u \in P!UserIds : userRows[u] # NoUser => u \in 1..n
    BY <2>1 DEF P!Init
  <2>6. QED
    BY <2>1, <2>2, <2>4, <2>5 DEF P!UserIds
<1>3. TablesInv
  BY <1>2 DEF P!Init, TablesInv, P!ConstantsFit
<1>4. CoreInv
  BY ConstantTypes DEF P!Init, CoreInv, Distinct, Unambiguous, P!NoFetch
<1>5. QED
  BY <1>1, <1>3, <1>4 DEF ProvidersInv
-----------------------------------------------------------------------------
\* A step of one tab leaves what the others hold, as no provider id is ever forgotten.
LEMMA OneTab ==
  ASSUME TabInv, NEW t \in Tabs, TabTypes', ids \subseteq ids', HandlerHolds(t)',
         \A v \in Tabs \ {t} : /\ awaits'[v] = awaits[v] /\ op'[v] = op[v]
                               /\ row'[v] = row[v] /\ existing'[v] = existing[v]
  PROVE  TabInv'
<1>1. \A v \in Tabs \ {t} : HandlerHolds(v)'
  BY DEF TabInv, HandlerHolds, P!Adds
<1>2. QED
  BY <1>1 DEF TabInv

\* A handler that is gone holds nothing.
LEMMA TabEnds ==
  ASSUME P!ConstantsFit, TabInv, NEW t \in Tabs, P!Ends(t), ids' = ids
  PROVE  TabInv'
<1>1. TabTypes'
  BY ConstantTypes DEF P!Ends, P!Goes, TabInv, TabTypes, P!Step
<1>2. awaits'[t] = "idle" /\ op'[t].kind = "delete"
  BY ConstantTypes DEF P!Ends, P!Goes, TabInv, TabTypes
<1>3. HandlerHolds(t)'
  BY <1>2 DEF HandlerHolds, OfUsers
<1>4. QED
  BY <1>1, <1>3, OneTab DEF P!Ends, P!Goes, TabInv, TabTypes

\* A handler that goes on to a step holds what that step needs.
LEMMA TabGoes ==
  ASSUME TabInv, NEW t \in Tabs, NEW p \in P!Step, P!Goes(t, p), ids' = ids,
         UNCHANGED <<op, row, existing>>,
         HandlerHolds(t)'
  PROVE  TabInv'
<1>1. TabTypes'
  BY DEF P!Goes, TabInv, TabTypes
<1>2. QED
  BY <1>1, OneTab DEF P!Goes, TabInv, TabTypes

\* A batch that fails ends the handler, one that succeeds lets it go on.
LEMMA TabCommits ==
  ASSUME P!ConstantsFit, TabInv, NEW t \in Tabs, NEW rows, NEW us, NEW p \in P!Step,
         P!Commits(t, rows, us, p), ids' = ids,
         awaits'[t] = p /\ UNCHANGED <<op, row, existing>> => HandlerHolds(t)'
  PROVE  TabInv'
<1>1. CASE P!Consistent(rows, us)
  BY <1>1, TabGoes DEF P!Commits, P!Goes, TabInv, TabTypes
<1>2. CASE ~P!Consistent(rows, us)
  BY <1>2, TabEnds DEF P!Commits
<1>3. QED
  BY <1>1, <1>2

\* A request is accepted: the handler has read nothing yet.
LEMMA TabAccepts ==
  ASSUME P!ConstantsFit, TabInv, NEW t \in Tabs, NEW e \in P!Edit, NEW p \in {"route", "read", "ensure"},
         P!Accepts(t, e, p), ids \subseteq ids',
         p = "route" => e.kind = "create" /\ Same \notin {e.route, e.default, e.enabled, e.name}
                        /\ e.provider \in ids',
         p = "read" => e.kind \in {"update", "default", "delete"},
         p = "ensure" => e.kind # "update" /\ (e.kind = "addUser" => Same \notin {e.enabled, e.name})
  PROVE  TabInv'
<1>1. TabTypes'
  BY DEF P!Accepts, P!Goes, TabInv, TabTypes, P!Step
<1>2. awaits'[t] = p /\ op'[t] = e
  BY DEF P!Accepts, P!Goes, TabInv, TabTypes
<1>3. HandlerHolds(t)'
  BY <1>2 DEF HandlerHolds, OfUsers
<1>4. QED
  BY <1>1, <1>3, OneTab DEF P!Accepts, P!Goes, TabInv, TabTypes

\* The requests of the lists: each starts where its handler first awaits.
LEMMA TabSubmits ==
  ASSUME P!ConstantsFit, TabInv, NEW t \in Tabs, NEW e \in Edits,
         \/ P!PostProvider(t, e) \/ P!PutProvider(t, e) \/ P!PostDefault(t, e) \/ P!RemoveProvider(t, e)
         \/ P!PostUser(t, e) \/ P!PutUser(t, e) \/ P!RemoveUser(t, e)
  PROVE  TabInv'
<1> e \in P!Edit
  BY DEF P!ConstantsFit
<1>1. CASE P!PostProvider(t, e)
  <2>1. ids' = ids \cup {e.provider} /\ e.kind = "create" /\ P!Accepts(t, e, "route")
    BY <1>1 DEF P!PostProvider, P!Submits
  <2>2. Same \notin {e.route, e.default, e.enabled, e.name}
    BY <2>1 DEF P!ConstantsFit
  <2>3. QED
    BY <2>1, <2>2, TabAccepts
<1>2. CASE P!PutProvider(t, e) \/ P!PostDefault(t, e) \/ P!RemoveProvider(t, e)
  <2>1. P!Accepts(t, e, "read") /\ ids' = ids /\ e.kind \in {"update", "default", "delete"}
    BY <1>2 DEF P!PutProvider, P!PostDefault, P!RemoveProvider, P!Submits
  <2>2. QED
    BY <2>1, TabAccepts
<1>3. CASE P!PostUser(t, e) \/ P!PutUser(t, e) \/ P!RemoveUser(t, e)
  <2>1. P!Accepts(t, e, "ensure") /\ ids' = ids /\ e.kind \in {"addUser", "updateUser", "deleteUser"}
    BY <1>3 DEF P!PostUser, P!PutUser, P!RemoveUser, P!Submits
  <2>2. e.kind = "addUser" => Same \notin {e.enabled, e.name}
    BY DEF P!ConstantsFit
  <2>3. QED
    BY <2>1, <2>2, TabAccepts
<1>4. QED
  BY <1>1, <1>2, <1>3

\* The forms: what they send are whole fields, as they show a row that was read.
LEMMA TabForms ==
  ASSUME P!ConstantsFit, TabInv, TablesInv, NEW t \in Tabs,
         \/ \E p \in Providers : P!LoadProviders(t, p)
         \/ \E u \in P!UserIds : P!LoadUsers(t, u)
         \/ \E e \in Edits : P!SaveProvider(t, e) \/ P!SaveUser(t, e)
  PROVE  TabInv'
<1>1. ASSUME NEW p \in Providers, P!LoadProviders(t, p) PROVE TabInv'
  <2>1. providers[p] \in P!Row /\ [op[t] EXCEPT !.provider = p] \in P!Edit
    BY <1>1 DEF P!LoadProviders, TablesInv, TabInv, TabTypes, P!Edit
  <2>2. TabTypes' /\ awaits'[t] = "form" /\ row'[t] \in P!Row
    BY <1>1, <2>1 DEF P!LoadProviders, P!Goes, TabInv, TabTypes, P!Step
  <2>3. HandlerHolds(t)'
    BY <2>2 DEF HandlerHolds, OfUsers
  <2>4. QED
    BY <1>1, <2>2, <2>3, OneTab DEF P!LoadProviders, P!database, P!Goes, TabInv, TabTypes
<1>2. ASSUME NEW u \in P!UserIds, P!LoadUsers(t, u) PROVE TabInv'
  <2>1. userRows[u] \in P!User /\ u \in 0..MaxUsers
    BY <1>2 DEF P!LoadUsers, TablesInv, P!UserIds, P!ConstantsFit
  <2>2. [op[t] EXCEPT !.provider = userRows[u].provider, !.user = u] \in P!Edit
    <3>1. op[t] \in P!Edit /\ userRows[u].provider \in Providers
      BY <2>1 DEF TabInv, TabTypes, P!User
    <3>2. [op[t] EXCEPT !.provider = userRows[u].provider] \in P!Edit
      BY <3>1 DEF P!Edit
    <3>3. QED
      BY <2>1, <3>2 DEF P!Edit
  <2>3. TabTypes' /\ awaits'[t] = "userForm" /\ existing'[t] \in P!User
    BY <1>2, <2>1, <2>2 DEF P!LoadUsers, P!Goes, TabInv, TabTypes, P!Step
  <2>4. HandlerHolds(t)'
    BY <2>3 DEF HandlerHolds, OfUsers
  <2>5. QED
    BY <1>2, <2>3, <2>4, OneTab DEF P!LoadUsers, P!database, P!Goes, TabInv, TabTypes
<1>3. ASSUME NEW e \in Edits, P!SaveProvider(t, e) PROVE TabInv'
  <2> DEFINE sent == [e EXCEPT !.route = P!Or(@, row[t].route), !.default = P!Or(@, row[t].default),
                               !.enabled = P!Or(@, row[t].enabled), !.name = Same]
  <2>1. row[t] \in P!Row /\ e \in P!Edit
    BY <1>3 DEF P!SaveProvider, TabInv, HandlerHolds, P!ConstantsFit
  <2>2. sent \in P!Edit /\ sent.kind = "update"
    BY <1>3, <2>1 DEF P!SaveProvider, P!Edit, P!Or, P!Row
  <2>3. P!Accepts(t, sent, "read") /\ ids' = ids
    BY <1>3 DEF P!SaveProvider
  <2>4. QED
    BY <2>2, <2>3, TabAccepts
<1>4. ASSUME NEW e \in Edits, P!SaveUser(t, e) PROVE TabInv'
  <2> DEFINE sent == [e EXCEPT !.name = P!Or(@, existing[t].name), !.enabled = P!Or(@, existing[t].enabled)]
  <2>1. existing[t] \in P!User /\ e \in P!Edit /\ e.kind = "updateUser"
    BY <1>4 DEF P!SaveUser, TabInv, HandlerHolds, P!ConstantsFit
  <2>2. sent \in P!Edit /\ sent.kind = "updateUser"
    BY <2>1 DEF P!Edit, P!Or, P!User
  <2>3. P!Accepts(t, sent, "ensure") /\ ids' = ids
    BY <1>4 DEF P!SaveUser
  <2>4. QED
    BY <2>2, <2>3, TabAccepts
<1>5. QED
  BY <1>1, <1>2, <1>3, <1>4

\* ORDER BY created_at LIMIT 1: a set of ids has a first.
LEMMA FirstOfNaturals ==
  ASSUME NEW T \in SUBSET Nat, T # {}
  PROVE  \E u \in T : \A v \in T : u <= v
<1>1. PICK u \in T : \A v \in T : ~(<<v, u>> \in OpToRel(<, Nat))
  BY NatLessThanWellFounded, WFMin
<1>2. \A v \in T : ~(v < u)
  BY <1>1 DEF OpToRel
<1>3. QED
  BY <1>2

\* syncLegacyIdentity and upsertPrimaryUser find a user of the provider if it has one.
LEMMA PrimaryIsUser ==
  ASSUME P!ConstantsFit, NEW p
  PROVE  P!PrimaryUser(p) = 0 \/ P!PrimaryUser(p) \in P!UsersOf(userRows, p)
<1> DEFINE us == P!UsersOf(userRows, p)
           on == {u \in us : userRows[u].enabled}
           best == IF on = {} THEN us ELSE on
           first == CHOOSE u \in best : \A v \in best : u <= v
<1>1. P!PrimaryUser(p) = IF best = {} THEN 0 ELSE first
  BY DEF P!PrimaryUser
<1>2. best \subseteq us /\ us \subseteq Nat
  BY DEF P!UsersOf, P!UserIds, P!ConstantsFit
<1>3. best # {} => \E u \in best : \A v \in best : u <= v
  <2> HIDE DEF best
  <2> QED BY <1>2, FirstOfNaturals
<1>4. best # {} => first \in best
  BY <1>3
<1>5. QED
  BY <1>1, <1>2, <1>4

\* The steps of a handler that read.
LEMMA TabReads ==
  ASSUME P!ConstantsFit, TabInv, TablesInv, NEW t \in Tabs,
         \/ P!ReadProvider(t) \/ P!CheckRoute(t) \/ P!UpsertPrimaryUser(t) \/ P!EnsureProvider(t)
         \/ P!GetUser(t) \/ P!CheckName(t) \/ P!ReadIdentity(t) \/ P!WriteIdentity(t)
         \/ P!Reload(t) \/ P!Notify(t)
  PROVE  TabInv'
<1> ids' = ids
  BY DEF P!ReadProvider, P!CheckRoute, P!UpsertPrimaryUser, P!EnsureProvider, P!GetUser,
         P!CheckName, P!ReadIdentity, P!WriteIdentity, P!Reload, P!Notify, P!database
<1> TabTypes /\ HandlerHolds(t) /\ op[t] \in P!Edit
  BY DEF TabInv, TabTypes
<1> USE DEF P!Goes, TabTypes
<1>1. CASE P!Ends(t)
  BY <1>1, TabEnds
<1>2. CASE P!ReadProvider(t) /\ ~P!Ends(t)
  <2>1. providers[op[t].provider] \in P!Row
    BY <1>2 DEF P!ReadProvider, TablesInv, P!Edit
  <2>2. TabTypes' /\ row'[t] \in P!Row /\ op' = op /\ awaits'[t] \in {"route", "commit"}
    BY <1>2, <2>1 DEF P!ReadProvider, P!Step
  <2>3. op[t].kind # "create" /\ awaits[t] = "read"
    BY <1>2 DEF P!ReadProvider, HandlerHolds
  <2>4. HandlerHolds(t)'
    BY <2>2, <2>3 DEF HandlerHolds, OfUsers
  <2>5. QED
    BY <1>2, <2>2, <2>4, OneTab DEF P!ReadProvider
<1>3. CASE P!CheckRoute(t) /\ ~P!Ends(t)
  <2>1. P!Goes(t, "commit") /\ UNCHANGED <<op, row, existing>> /\ awaits[t] = "route"
    BY <1>3 DEF P!CheckRoute
  <2>2. HandlerHolds(t)'
    BY <2>1 DEF HandlerHolds, OfUsers
  <2>3. QED
    BY <2>1, <2>2, TabGoes DEF P!Step
<1>4. CASE P!UpsertPrimaryUser(t) /\ ~P!Ends(t)
  <2>1. P!PrimaryUser(op[t].provider) \in 0..MaxUsers
    BY PrimaryIsUser DEF P!UsersOf, P!UserIds, P!ConstantsFit
  <2>2. [op[t] EXCEPT !.user = P!PrimaryUser(op[t].provider)] \in P!Edit
    BY <2>1 DEF P!Edit
  <2>3. /\ TabTypes' /\ awaits'[t] = "ensure" /\ awaits[t] = "primary"
        /\ op'[t].kind = op[t].kind /\ op'[t].name = op[t].name /\ op'[t].enabled = op[t].enabled
    BY <1>4, <2>2 DEF P!UpsertPrimaryUser, P!Step, P!Edit
  <2>4. HandlerHolds(t)'
    BY <2>3 DEF HandlerHolds, OfUsers
  <2>5. QED
    BY <1>4, <2>3, <2>4, OneTab DEF P!UpsertPrimaryUser
<1>5. CASE P!EnsureProvider(t) /\ ~P!Ends(t)
  <2>1. /\ P!Goes(t, IF P!Adds(op[t]) THEN "name" ELSE "existing")
        /\ UNCHANGED <<op, row, existing>> /\ awaits[t] = "ensure"
    BY <1>5 DEF P!EnsureProvider
  <2>2. awaits'[t] = IF P!Adds(op[t]) THEN "name" ELSE "existing"
    BY <2>1
  <2>3. HandlerHolds(t)'
    BY <2>1, <2>2 DEF HandlerHolds, OfUsers
  <2>4. QED
    BY <2>1, <2>3, TabGoes DEF P!Step
<1>6. CASE P!GetUser(t) /\ ~P!Ends(t)
  <2>1. userRows[op[t].user] \in P!User
    BY <1>6 DEF P!GetUser, P!UsersOf, TablesInv
  <2>2. /\ TabTypes' /\ existing'[t] \in P!User /\ op' = op
        /\ awaits'[t] \in {"name", "write"} /\ awaits[t] = "existing"
    BY <1>6, <2>1 DEF P!GetUser, P!Step
  <2>3. HandlerHolds(t)'
    BY <2>2 DEF HandlerHolds, OfUsers
  <2>4. QED
    BY <1>6, <2>2, <2>3, OneTab DEF P!GetUser
<1>7. CASE P!CheckName(t) /\ ~P!Ends(t)
  <2>1. P!Goes(t, "write") /\ UNCHANGED <<op, row, existing>> /\ awaits[t] = "name"
    BY <1>7 DEF P!CheckName
  <2>2. HandlerHolds(t)'
    BY <2>1 DEF HandlerHolds, OfUsers
  <2>3. QED
    BY <2>1, <2>2, TabGoes DEF P!Step
<1>8. CASE P!ReadIdentity(t)
  <2> DEFINE u == P!PrimaryUser(op[t].provider)
  <2>1. u # 0 => userRows[u] \in P!User
    BY PrimaryIsUser DEF TablesInv, P!UsersOf
  <2>2. u # 0 => userRows[u].name \in ClientNames
    BY <2>1 DEF P!User
  <2>3. /\ TabTypes' /\ existing'[t] \in ClientNames \cup {NoName} /\ op' = op
        /\ awaits'[t] = "local" /\ awaits[t] = "sync"
    BY <1>8, <2>1, <2>2 DEF P!ReadIdentity, P!Step
  <2>4. HandlerHolds(t)'
    BY <2>3 DEF HandlerHolds, OfUsers
  <2>5. QED
    BY <1>8, <2>3, <2>4, OneTab DEF P!ReadIdentity
<1>9. CASE P!WriteIdentity(t)
  <2>1. TabTypes' /\ op' = op /\ awaits'[t] \in {"notify", "reloadUser"} /\ awaits[t] = "local"
    BY <1>9 DEF P!WriteIdentity, P!Step
  <2>2. HandlerHolds(t)'
    BY <2>1 DEF HandlerHolds, OfUsers
  <2>3. QED
    BY <1>9, <2>1, <2>2, OneTab DEF P!WriteIdentity
<1>10. CASE P!Reload(t) /\ ~P!Ends(t)
  <2>1. /\ P!Goes(t, "reload") \/ P!Goes(t, "notify")
        /\ UNCHANGED <<op, row, existing>>
    BY <1>10 DEF P!Reload
  <2>2. HandlerHolds(t)'
    BY <2>1 DEF HandlerHolds, OfUsers
  <2>3. QED
    BY <2>1, <2>2, TabGoes DEF P!Step
<1>11. CASE P!Notify(t)
  <2>1. P!Goes(t, "wait") /\ UNCHANGED <<op, row, existing>>
    BY <1>11 DEF P!Notify
  <2>2. HandlerHolds(t)'
    BY <2>1 DEF HandlerHolds, OfUsers
  <2>3. QED
    BY <2>1, <2>2, TabGoes DEF P!Step
<1>12. QED
  BY <1>1, <1>2, <1>3, <1>4, <1>5, <1>6, <1>7, <1>8, <1>9, <1>10, <1>11

\* The steps that write, and the end of a request.
LEMMA TabWrites ==
  ASSUME P!ConstantsFit, TabInv, NEW t \in Tabs,
         \/ P!CreateProvider(t) \/ P!UpdateProvider(t) \/ P!SetDefaultProvider(t) \/ P!DeleteProvider(t)
         \/ P!CreateUser(t) \/ P!UpdateUser(t) \/ P!DeleteUser(t)
  PROVE  TabInv'
<1> ids' = ids
  BY DEF P!CreateProvider, P!UpdateProvider, P!SetDefaultProvider, P!DeleteProvider, P!CreateUser,
         P!UpdateUser, P!DeleteUser
<1> USE DEF P!Step
<1>1. CASE P!CreateProvider(t) \/ P!SetDefaultProvider(t)
  <2>1. "reload" \in P!Step /\ \E rows, us : P!Commits(t, rows, us, "reload")
    BY <1>1 DEF P!CreateProvider, P!SetDefaultProvider
  <2>2. awaits'[t] = "reload" => HandlerHolds(t)'
    BY DEF HandlerHolds, OfUsers
  <2>3. QED
    BY <2>1, <2>2, TabCommits
<1>2. CASE P!UpdateProvider(t)
  <2> DEFINE p == IF op[t].name = Same THEN "reload" ELSE "primary"
  <2>1. p \in P!Step /\ \E rows, us : P!Commits(t, rows, us, p)
    BY <1>2 DEF P!UpdateProvider
  <2>2. awaits'[t] = p /\ UNCHANGED <<op, row, existing>> => HandlerHolds(t)'
    BY <1>2 DEF P!UpdateProvider, HandlerHolds, OfUsers
  <2>3. QED
    BY <2>1, <2>2, TabCommits
<1>3. CASE P!DeleteProvider(t)
  <2>1. "notify" \in P!Step /\ \E rows, us : P!Commits(t, rows, us, "notify")
    BY <1>3 DEF P!DeleteProvider
  <2>2. awaits'[t] = "notify" => HandlerHolds(t)'
    BY DEF HandlerHolds, OfUsers
  <2>3. QED
    BY <2>1, <2>2, TabCommits
<1>4. CASE P!CreateUser(t) \/ P!UpdateUser(t) \/ P!DeleteUser(t)
  <2>1. "sync" \in P!Step /\ awaits[t] = "write" /\ \E rows, us : P!Commits(t, rows, us, "sync")
    BY <1>4 DEF P!CreateUser, P!UpdateUser, P!DeleteUser
  <2>2. awaits'[t] = "sync" /\ UNCHANGED <<op, row, existing>> => HandlerHolds(t)'
    BY <2>1 DEF TabInv, HandlerHolds, OfUsers
  <2>3. QED
    BY <2>1, <2>2, TabCommits
<1>5. QED
  BY <1>1, <1>2, <1>3, <1>4

\* What the handlers hold survives every step.
LEMMA TabNext ==
  ASSUME P!ConstantsFit, TabInv, TablesInv, [P!Next]_P!vars
  PROVE  TabInv'
<1>1. ASSUME NEW t \in Tabs, P!Handle(t) PROVE TabInv'
  BY <1>1, TabReads, TabWrites DEF P!Handle
<1>2. ASSUME NEW t \in Tabs, P!NotifyFails(t) PROVE TabInv'
  BY <1>2, TabEnds DEF P!NotifyFails, P!database
<1>3. CASE UNCHANGED <<P!handler, ids>>
  BY <1>3 DEF P!handler, TabInv, TabTypes, HandlerHolds, P!Adds
<1>4. ASSUME NEW f \in P!Fetchers, P!Fetch(f) \/ P!FetchLost(f) PROVE TabInv'
  <2>1. ids' = ids /\ (UNCHANGED P!handler \/ (f \in Tabs /\ P!Ends(f)))
    BY <1>4 DEF P!Fetch, P!SelectUsers, P!Store, P!FetchLost, P!FetchFails, P!database
  <2>2. QED
    BY <1>3, <2>1, TabEnds
<1>5. ASSUME NEW f \in Own, P!Refresh(f) PROVE TabInv'
  BY <1>3, <1>5 DEF P!Refresh, P!database
<1>6. CASE UNCHANGED P!vars
  BY <1>3, <1>6 DEF P!vars, P!database
<1>7. QED
  BY <1>1, <1>2, <1>4, <1>5, <1>6, TabSubmits, TabForms DEF P!Next
-----------------------------------------------------------------------------
(***************************************************************************)
(* The tables.  A batch that would break a constraint changes nothing.     *)
(***************************************************************************)
\* What a batch commits is checked against the unique indexes and the foreign keys.
LEMMA TablesCommit ==
  ASSUME P!ConstantsFit, TablesInv, NEW t \in Tabs, NEW p \in P!Step \ {"idle"},
         awaits \in [Tabs -> P!Step],
         NEW rows \in [Providers -> P!Row \cup {NoRow}], NEW us \in [P!UserIds -> P!User \cup {NoUser}],
         NEW n \in {created, created + 1},
         P!Commits(t, rows, us, p), ids' = ids, created' = IF awaits'[t] = p THEN n ELSE created,
         n \in 0..MaxUsers,
         \A u \in P!UserIds : us[u] # NoUser => u <= n,
         \A q \in Providers : rows[q] # NoRow => q \in ids
  PROVE  TablesInv'
<1>1. CASE P!Consistent(rows, us)
  <2>1. providers' = rows /\ userRows' = us /\ awaits'[t] = p
    BY <1>1 DEF P!Commits, P!Goes
  <2>2. P!Consistent(providers, userRows)'
    BY <1>1, <2>1 DEF P!Consistent
  <2>3. QED
    BY <2>1, <2>2 DEF TablesInv
<1>2. CASE ~P!Consistent(rows, us)
  <2>1. UNCHANGED <<providers, userRows>> /\ awaits'[t] = "idle"
    BY <1>2 DEF P!Commits, P!Ends, P!Goes
  <2>2. QED
    BY <2>1 DEF TablesInv, P!Consistent
<1>3. QED
  BY <1>1, <1>2

\* Taking the default flag away leaves rows.
LEMMA DefaultsTyped ==
  ASSUME NEW rows \in [Providers -> P!Row \cup {NoRow}], NEW keep
  PROVE  /\ P!WithoutDefault(rows, keep) \in [Providers -> P!Row \cup {NoRow}]
         /\ \A p \in Providers : P!WithoutDefault(rows, keep)[p] # NoRow => rows[p] # NoRow
<1>1. ASSUME NEW p \in Providers, rows[p] # NoRow PROVE [rows[p] EXCEPT !.default = FALSE] \in P!Row
  BY <1>1 DEF P!Row
<1>2. QED
  BY <1>1 DEF P!WithoutDefault

\* INSERT of a user with the next id.
LEMMA UserAdded ==
  ASSUME P!ConstantsFit, TablesInv, NEW new \in P!User
  PROVE  LET us == [userRows EXCEPT ![created + 1] = new] IN
         /\ us \in [P!UserIds -> P!User \cup {NoUser}]
         /\ \A u \in P!UserIds : us[u] # NoUser => u <= created + 1
<1> DEFINE us == [userRows EXCEPT ![created + 1] = new]
<1>1. us \in [P!UserIds -> P!User \cup {NoUser}]
  BY DEF TablesInv
<1>2. created \in Nat /\ P!UserIds \subseteq Nat
  BY DEF TablesInv, P!ConstantsFit, P!UserIds
<1>3. ASSUME NEW u \in P!UserIds, us[u] # NoUser PROVE u <= created + 1
  <2>1. CASE u = created + 1
    BY <1>2, <2>1
  <2>2. CASE u # created + 1
    <3>1. userRows[u] # NoUser
      BY <1>3, <2>2 DEF TablesInv
    <3>2. u <= created
      BY <3>1 DEF TablesInv
    <3>3. QED
      BY <1>2, <3>2
  <2>3. QED
    BY <2>1, <2>2
<1>4. QED
  BY <1>1, <1>3

\* The handlers write rows and users of the right types.
LEMMA TablesWritten ==
  ASSUME P!ConstantsFit, TabInv, TablesInv, NEW t \in Tabs,
         \/ P!CreateProvider(t) \/ P!UpdateProvider(t) \/ P!SetDefaultProvider(t) \/ P!DeleteProvider(t)
         \/ P!CreateUser(t) \/ P!UpdateUser(t) \/ P!DeleteUser(t)
  PROVE  TablesInv'
<1> DEFINE e == op[t]
           Rows == [Providers -> P!Row \cup {NoRow}]
           Us == [P!UserIds -> P!User \cup {NoUser}]
<1> /\ e \in P!Edit /\ HandlerHolds(t) /\ awaits \in [Tabs -> P!Step]
    /\ providers \in Rows /\ userRows \in Us /\ created \in 0..MaxUsers /\ MaxUsers \in Nat
    /\ {"reload", "primary", "notify", "sync"} \subseteq P!Step \ {"idle"}
    /\ \A u \in P!UserIds : userRows[u] # NoUser => u <= created
    /\ \A q \in Providers : providers[q] # NoRow => q \in ids
  BY DEF TabInv, TabTypes, TablesInv, P!ConstantsFit, P!Step
<1> HIDE DEF e
<1>1. CASE P!CreateProvider(t)
  <2> DEFINE rest == IF e.default THEN P!WithoutDefault(providers, {}) ELSE providers
             new == [route |-> e.route, default |-> e.default, enabled |-> e.enabled, local |-> e.name]
             first == [provider |-> e.provider, name |-> e.name, enabled |-> TRUE]
             rows == [rest EXCEPT ![e.provider] = new]
             us == [userRows EXCEPT ![created + 1] = first]
  <2>1. /\ P!Commits(t, rows, us, "reload") /\ ids' = ids /\ created < MaxUsers
        /\ created' = IF awaits'[t] = "reload" THEN created + 1 ELSE created
        /\ awaits[t] = "commit" /\ e.kind = "create"
    BY <1>1 DEF P!CreateProvider, e
  <2>2. Same \notin {e.route, e.default, e.enabled, e.name} /\ e.provider \in ids
    BY <2>1 DEF HandlerHolds, e
  <2>3. new \in P!Row /\ first \in P!User
    BY <2>2 DEF P!Edit, P!Row, P!User
  <2>4. rows \in Rows /\ \A q \in Providers : rows[q] # NoRow => q \in ids
    BY <2>2, <2>3, DefaultsTyped
  <2>5. us \in Us /\ \A u \in P!UserIds : us[u] # NoUser => u <= created + 1
    BY <2>3, UserAdded
  <2>6. created + 1 \in 0..MaxUsers
    BY <2>1
  <2> HIDE DEF rows, us
  <2>7. QED
    BY <2>1, <2>4, <2>5, <2>6, TablesCommit
<1>2. CASE P!UpdateProvider(t)
  <2> DEFINE rest == IF e.default = TRUE THEN P!WithoutDefault(providers, {e.provider}) ELSE providers
             new == [route |-> P!Or(e.route, row[t].route), default |-> P!Or(e.default, row[t].default),
                     enabled |-> P!Or(e.enabled, row[t].enabled), local |-> providers[e.provider].local]
             rows == IF providers[e.provider] = NoRow THEN rest ELSE [rest EXCEPT ![e.provider] = new]
             p == IF e.name = Same THEN "reload" ELSE "primary"
  <2>1. /\ P!Commits(t, rows, userRows, p) /\ UNCHANGED <<created, ids>>
        /\ awaits[t] = "commit" /\ e.kind = "update"
    BY <1>2 DEF P!UpdateProvider, e
  <2>2. row[t] \in P!Row
    BY <2>1 DEF HandlerHolds, e
  <2>3. e.provider \in Providers
    BY DEF P!Edit
  <2>4. providers[e.provider] # NoRow => new \in P!Row
    BY <2>2, <2>3 DEF P!Edit, P!Row, P!Or
  <2>5. rows \in Rows /\ \A q \in Providers : rows[q] # NoRow => q \in ids
    BY <2>3, <2>4, DefaultsTyped
  <2>6. p \in {"reload", "primary"}
    OBVIOUS
  <2> HIDE DEF rows, p
  <2>7. QED
    BY <2>1, <2>5, <2>6, TablesCommit
<1>3. CASE P!SetDefaultProvider(t)
  <2> DEFINE none == P!WithoutDefault(providers, {})
             rows == IF none[e.provider] = NoRow THEN none ELSE [none EXCEPT ![e.provider].default = TRUE]
  <2>1. P!Commits(t, rows, userRows, "reload") /\ UNCHANGED <<created, ids>>
    BY <1>3 DEF P!SetDefaultProvider, e
  <2>2. e.provider \in Providers
    BY DEF P!Edit
  <2>3. none \in Rows /\ \A q \in Providers : none[q] # NoRow => q \in ids
    BY DefaultsTyped
  <2> HIDE DEF none
  <2>4. none[e.provider] # NoRow => [none[e.provider] EXCEPT !.default = TRUE] \in P!Row
    BY <2>2, <2>3 DEF P!Row
  <2>5. rows \in Rows /\ \A q \in Providers : rows[q] # NoRow => q \in ids
    BY <2>2, <2>3, <2>4
  <2> HIDE DEF rows
  <2>6. QED
    BY <2>1, <2>5, TablesCommit
<1>4. CASE P!DeleteProvider(t)
  <2> DEFINE rows == [providers EXCEPT ![e.provider] = NoRow]
             us == [u \in P!UserIds |-> IF u \in P!UsersOf(userRows, e.provider) THEN NoUser ELSE userRows[u]]
  <2>1. P!Commits(t, rows, us, "notify") /\ UNCHANGED <<created, ids>>
    BY <1>4 DEF P!DeleteProvider, e
  <2>2. rows \in Rows /\ \A q \in Providers : rows[q] # NoRow => q \in ids
    OBVIOUS
  <2>3. us \in Us /\ \A u \in P!UserIds : us[u] # NoUser => u <= created
    OBVIOUS
  <2> HIDE DEF rows, us
  <2>4. QED
    BY <2>1, <2>2, <2>3, TablesCommit
<1>5. CASE P!CreateUser(t)
  <2> DEFINE new == [provider |-> e.provider, name |-> e.name,
                     enabled |-> IF e.kind = "addUser" THEN e.enabled ELSE TRUE]
             us == [userRows EXCEPT ![created + 1] = new]
  <2>1. /\ P!Commits(t, providers, us, "sync") /\ ids' = ids /\ created < MaxUsers
        /\ created' = IF awaits'[t] = "sync" THEN created + 1 ELSE created
        /\ awaits[t] = "write" /\ P!Adds(e)
    BY <1>5 DEF P!CreateUser, e
  <2>2. e.name # Same /\ (e.kind = "addUser" => e.enabled # Same)
    BY <2>1 DEF HandlerHolds, P!Adds, OfUsers, e
  <2>3. new \in P!User
    BY <2>2 DEF P!Edit, P!User
  <2>4. us \in Us /\ \A u \in P!UserIds : us[u] # NoUser => u <= created + 1
    BY <2>3, UserAdded
  <2>5. created + 1 \in 0..MaxUsers
    BY <2>1
  <2> HIDE DEF us
  <2>6. QED
    BY <2>1, <2>4, <2>5, TablesCommit
<1>6. CASE P!UpdateUser(t)
  <2> DEFINE enabled == IF e.kind = "update" THEN existing[t].enabled
                        ELSE P!Or(e.enabled, existing[t].enabled)
             new == [provider |-> e.provider, name |-> P!Or(e.name, existing[t].name), enabled |-> enabled]
             us == IF e.user \in P!UsersOf(userRows, e.provider)
                   THEN [userRows EXCEPT ![e.user] = new] ELSE userRows
  <2>1. /\ P!Commits(t, providers, us, "sync") /\ UNCHANGED <<created, ids>>
        /\ awaits[t] = "write" /\ ~P!Adds(e)
    BY <1>6 DEF P!UpdateUser, e
  <2>2. existing[t] \in P!User
    BY <2>1 DEF HandlerHolds, e
  <2>3. new \in P!User
    BY <2>2 DEF P!Edit, P!User, P!Or
  <2>4. us \in Us /\ \A u \in P!UserIds : us[u] # NoUser => u <= created
    BY <2>3 DEF P!UsersOf
  <2> HIDE DEF us
  <2>5. QED
    BY <2>1, <2>4, TablesCommit
<1>7. CASE P!DeleteUser(t)
  <2> DEFINE us == IF e.user \in P!UsersOf(userRows, e.provider)
                   THEN [userRows EXCEPT ![e.user] = NoUser] ELSE userRows
  <2>1. P!Commits(t, providers, us, "sync") /\ UNCHANGED <<created, ids>>
    BY <1>7 DEF P!DeleteUser, e
  <2>2. us \in Us /\ \A u \in P!UserIds : us[u] # NoUser => u <= created
    OBVIOUS
  <2> HIDE DEF us
  <2>3. QED
    BY <2>1, <2>2, TablesCommit
<1>8. QED
  BY <1>1, <1>2, <1>3, <1>4, <1>5, <1>6, <1>7

\* The tables stay consistent whatever order the handlers write in.
LEMMA TablesNext ==
  ASSUME P!ConstantsFit, TabInv, TablesInv, [P!Next]_P!vars
  PROVE  TablesInv'
<1>1. CASE UNCHANGED P!database
  BY <1>1 DEF P!database, TablesInv, P!Consistent
<1>2. ASSUME NEW t \in Tabs, NEW e \in Edits,
             \/ P!PostProvider(t, e) \/ P!PutProvider(t, e) \/ P!PostDefault(t, e) \/ P!RemoveProvider(t, e)
             \/ P!PostUser(t, e) \/ P!PutUser(t, e) \/ P!RemoveUser(t, e)
             \/ P!SaveProvider(t, e) \/ P!SaveUser(t, e)
      PROVE  TablesInv'
  <2>1. e.provider \in Providers
    BY DEF P!ConstantsFit, P!Edit
  <2>2. UNCHANGED <<providers, userRows, created>> /\ ids' \in {ids, ids \cup {e.provider}}
    BY <1>2 DEF P!PostProvider, P!PutProvider, P!PostDefault, P!RemoveProvider, P!PostUser,
                P!PutUser, P!RemoveUser, P!SaveProvider, P!SaveUser, P!Submits, P!Accepts
  <2>3. QED
    BY <2>1, <2>2 DEF TablesInv, P!Consistent
<1>3. ASSUME NEW t \in Tabs, P!WriteIdentity(t) PROVE TablesInv'
  <2> DEFINE p == op[t].provider
             rows == IF providers[p] = NoRow THEN providers ELSE [providers EXCEPT ![p].local = existing[t]]
  <2>1. existing[t] \in ClientNames \cup {NoName} /\ p \in Providers /\ providers' = rows
        /\ UNCHANGED <<userRows, created, ids>>
    BY <1>3 DEF P!WriteIdentity, TabInv, TabTypes, HandlerHolds, P!Edit
  <2>2. providers[p] # NoRow => [providers[p] EXCEPT !.local = existing[t]] \in P!Row
    BY <2>1 DEF TablesInv, P!Row
  <2>3. /\ rows \in [Providers -> P!Row \cup {NoRow}]
        /\ \A q \in Providers : (rows[q] = NoRow) = (providers[q] = NoRow)
    BY <2>1, <2>2 DEF TablesInv, P!ConstantsFit
  <2>4. \A q \in Providers : rows[q] # NoRow => /\ rows[q].route = providers[q].route
                                                /\ rows[q].default = providers[q].default
    BY <2>1, <2>2 DEF TablesInv, P!Row
  <2>5. /\ userRows \in [P!UserIds -> P!User \cup {NoUser}]
        /\ \A u \in P!UserIds : userRows[u] # NoUser => userRows[u].provider \in Providers
    BY DEF TablesInv, P!User
  <2> HIDE DEF rows
  <2>6. P!Consistent(rows, userRows)
    BY <2>3, <2>4, <2>5 DEF TablesInv, P!Consistent
  <2>7. P!Consistent(providers, userRows)'
    BY <2>1, <2>6 DEF P!Consistent
  <2>8. QED
    BY <2>1, <2>3, <2>7 DEF TablesInv
<1>4. ASSUME NEW t \in Tabs, P!Handle(t) PROVE TablesInv'
  <2>1. CASE \/ P!CreateProvider(t) \/ P!UpdateProvider(t) \/ P!SetDefaultProvider(t) \/ P!DeleteProvider(t)
             \/ P!CreateUser(t) \/ P!UpdateUser(t) \/ P!DeleteUser(t)
    BY <2>1, TablesWritten
  <2>2. CASE \/ P!ReadProvider(t) \/ P!CheckRoute(t) \/ P!UpsertPrimaryUser(t) \/ P!EnsureProvider(t)
             \/ P!GetUser(t) \/ P!CheckName(t) \/ P!ReadIdentity(t) \/ P!Reload(t) \/ P!Notify(t)
    BY <1>1, <2>2 DEF P!ReadProvider, P!CheckRoute, P!UpsertPrimaryUser, P!EnsureProvider,
                      P!GetUser, P!CheckName, P!ReadIdentity, P!Reload, P!Notify
  <2>3. QED
    BY <1>3, <1>4, <2>1, <2>2 DEF P!Handle
<1>5. ASSUME NEW t \in Tabs,
             \/ P!NotifyFails(t) \/ \E p \in Providers : P!LoadProviders(t, p)
             \/ \E u \in P!UserIds : P!LoadUsers(t, u)
      PROVE  TablesInv'
  BY <1>1, <1>5 DEF P!NotifyFails, P!LoadProviders, P!LoadUsers
<1>6. ASSUME NEW f \in P!Fetchers, P!Fetch(f) \/ P!FetchLost(f) \/ P!Refresh(f) PROVE TablesInv'
  BY <1>1, <1>6 DEF P!Fetch, P!SelectUsers, P!Store, P!FetchLost, P!FetchFails, P!Refresh
<1>7. CASE UNCHANGED P!vars
  BY <1>1, <1>7 DEF P!vars
<1>8. QED
  BY <1>2, <1>4, <1>5, <1>6, <1>7 DEF P!Next, P!Fetchers
-----------------------------------------------------------------------------
(***************************************************************************)
(* The core.                                                               *)
(***************************************************************************)
\* Rows of one SELECT and users of a later one make an answer without doubles.
LEMMA AnswerUnambiguous ==
  ASSUME TablesInv, NEW rows \in [Providers -> P!Row \cup {NoRow}], Distinct(rows)
  PROVE  P!Enabled(rows, userRows) \subseteq P!Served /\ Unambiguous(P!Enabled(rows, userRows))
<1> DEFINE on == {q \in Providers : rows[q] # NoRow /\ rows[q].enabled}
           entry(p) == [id |-> p, route |-> rows[p].route, default |-> rows[p].default,
                        clients |-> P!ClientsOf(userRows, p)]
<1>1. P!Enabled(rows, userRows) = {entry(p) : p \in on}
  BY DEF P!Enabled
<1>2. ASSUME NEW p \in Providers PROVE P!ClientsOf(userRows, p) \subseteq [name : ClientNames, enabled : BOOLEAN]
  <2>1. \A u \in P!UsersOf(userRows, p) : userRows[u] \in P!User
    BY DEF P!UsersOf, TablesInv
  <2>2. QED
    BY <2>1 DEF P!ClientsOf, P!User
<1>3. \A p \in on : entry(p) \in P!Served
  BY <1>2 DEF P!Served, P!Row
<1>4. ASSUME NEW p \in Providers, NEW c \in P!ClientsOf(userRows, p), NEW d \in P!ClientsOf(userRows, p),
             c.name = d.name
      PROVE  c = d
  <2>1. PICK u \in P!UsersOf(userRows, p) : c = [name |-> userRows[u].name, enabled |-> userRows[u].enabled]
    BY DEF P!ClientsOf
  <2>2. PICK v \in P!UsersOf(userRows, p) : d = [name |-> userRows[v].name, enabled |-> userRows[v].enabled]
    BY DEF P!ClientsOf
  <2>3. userRows[u].name = userRows[v].name
    BY <1>4, <2>1, <2>2
  <2>4. u = v
    BY <2>3 DEF P!UsersOf, TablesInv, P!Consistent
  <2>5. QED
    BY <2>1, <2>2, <2>4
<1>5. ASSUME NEW a \in P!Enabled(rows, userRows), NEW b \in P!Enabled(rows, userRows), a # b
      PROVE  a.id # b.id /\ a.route # b.route /\ ~(a.default /\ b.default)
  <2>1. PICK p \in on : a = entry(p)
    BY <1>1
  <2>2. PICK q \in on : b = entry(q)
    BY <1>1
  <2>3. p # q
    BY <1>5, <2>1, <2>2
  <2>4. rows[p].route # rows[q].route /\ ~(rows[p].default /\ rows[q].default)
    BY <2>3 DEF Distinct
  <2>5. QED
    BY <2>1, <2>2, <2>3, <2>4
<1>6. \A a \in P!Enabled(rows, userRows) : \A c, d \in a.clients : c.name = d.name => c = d
  <2> HIDE DEF on
  <2>1. \A a \in P!Enabled(rows, userRows) : \E p \in on : a.clients = P!ClientsOf(userRows, p)
    BY <1>1
  <2>2. on \subseteq Providers
    BY DEF on
  <2>3. QED
    BY <1>4, <2>1, <2>2
<1>7. QED
  BY <1>1, <1>3, <1>5, <1>6 DEF Unambiguous

\* A fetch that ends leaves the other answers and the copy.
LEMMA FetchEnds ==
  ASSUME P!ConstantsFit, CoreInv, NEW f \in P!Fetchers, fetch' = [fetch EXCEPT ![f] = P!NoFetch],
         snapshot' \in {snapshot, fetch[f].answer}
  PROVE  CoreInv'
<1>1. Distinct(P!NoFetch.rows) /\ Unambiguous(P!NoFetch.answer)
  BY DEF P!NoFetch, Distinct, Unambiguous
<1>2. \A g \in P!Fetchers : fetch'[g] \in {fetch[g], P!NoFetch}
  BY DEF CoreInv
<1>3. fetch' \in [P!Fetchers -> Fetching] /\ snapshot' \subseteq P!Served
  BY ConstantTypes DEF CoreInv, Fetching
<1>4. \A g \in P!Fetchers : Distinct(fetch'[g].rows) /\ Unambiguous(fetch'[g].answer)
  BY <1>1, <1>2 DEF CoreInv
<1>5. Unambiguous(snapshot')
  BY DEF CoreInv
<1>6. QED
  BY <1>3, <1>4, <1>5 DEF CoreInv, Distinct, Unambiguous

\* Nothing that the core holds or is being sent is ambiguous after any step.
LEMMA CoreNext ==
  ASSUME P!ConstantsFit, TablesInv, CoreInv, [P!Next]_P!vars
  PROVE  CoreInv'
<1>1. CASE UNCHANGED P!core
  BY <1>1 DEF P!core, CoreInv, Distinct, Unambiguous
<1>2. ASSUME NEW f \in P!Fetchers, P!Asks(f), UNCHANGED snapshot PROVE CoreInv'
  <2>1. Distinct(providers) /\ providers \in [Providers -> P!Row \cup {NoRow}]
    BY DEF TablesInv, P!Consistent, Distinct
  <2>2. fetch' \in [P!Fetchers -> Fetching]
    BY <1>2, <2>1 DEF P!Asks, CoreInv, Fetching
  <2>3. \A g \in P!Fetchers : /\ fetch'[g].rows \in {fetch[g].rows, providers}
                              /\ fetch'[g].answer = fetch[g].answer
    BY <1>2 DEF P!Asks, CoreInv, Fetching
  <2>4. \A g \in P!Fetchers : Distinct(fetch'[g].rows) /\ Unambiguous(fetch'[g].answer)
    BY <2>1, <2>3 DEF CoreInv
  <2>5. QED
    BY <1>2, <2>2, <2>4 DEF CoreInv, Distinct, Unambiguous
<1>3. ASSUME NEW f \in P!Fetchers, P!SelectUsers(f), snapshot' = snapshot PROVE CoreInv'
  <2> DEFINE answer == P!Enabled(fetch[f].rows, userRows)
             asked == [at |-> "store", rows |-> P!NoFetch.rows, answer |-> answer]
  <2>1. CASE fetch' = [fetch EXCEPT ![f] = P!NoFetch]
    BY <1>3, <2>1, FetchEnds
  <2>2. CASE fetch' = [fetch EXCEPT ![f] = asked]
    <3>1. answer \subseteq P!Served /\ Unambiguous(answer)
      BY AnswerUnambiguous DEF CoreInv, Fetching
    <3>2. asked \in Fetching /\ Distinct(asked.rows) /\ Unambiguous(asked.answer)
      BY <3>1, ConstantTypes DEF Fetching, P!NoFetch, Distinct
    <3> HIDE DEF asked
    <3>3. \A g \in P!Fetchers : fetch'[g] \in {fetch[g], asked}
      BY <2>2 DEF CoreInv
    <3>4. fetch' \in [P!Fetchers -> Fetching]
      BY <2>2, <3>2 DEF CoreInv
    <3>5. \A g \in P!Fetchers : Distinct(fetch'[g].rows) /\ Unambiguous(fetch'[g].answer)
      BY <3>2, <3>3 DEF CoreInv
    <3>6. QED
      BY <1>3, <3>4, <3>5 DEF CoreInv, Distinct, Unambiguous
  <2>3. QED
    BY <1>3, <2>1, <2>2 DEF P!SelectUsers, P!FetchFails
<1>4. ASSUME NEW f \in P!Fetchers, P!Store(f) \/ P!FetchLost(f) PROVE CoreInv'
  BY <1>4, FetchEnds DEF P!Store, P!FetchLost, P!FetchFails
<1>5. ASSUME NEW f \in P!Fetchers, P!Fetch(f) PROVE CoreInv'
  <2>1. P!SelectUsers(f) => snapshot' = snapshot
    BY DEF P!SelectUsers, P!FetchFails
  <2>2. QED
    BY <1>3, <1>4, <1>5, <2>1 DEF P!Fetch
<1>6. ASSUME NEW t \in Tabs, P!NotifyFails(t) PROVE CoreInv'
  BY <1>1, <1>6, FetchEnds DEF P!NotifyFails, P!Fetchers, P!core
<1>7. ASSUME NEW t \in Tabs, P!Handle(t) PROVE CoreInv'
  <2>1. CASE P!Notify(t)
    BY <1>2, <2>1 DEF P!Notify, P!Fetchers
  <2>2. CASE ~P!Notify(t)
    BY <1>1, <1>7, <2>2
    DEF P!Handle, P!ReadProvider, P!CheckRoute, P!CreateProvider, P!UpdateProvider,
        P!SetDefaultProvider, P!DeleteProvider, P!UpsertPrimaryUser, P!EnsureProvider, P!GetUser,
        P!CheckName, P!CreateUser, P!UpdateUser, P!DeleteUser, P!ReadIdentity, P!WriteIdentity,
        P!Reload
  <2>3. QED
    BY <2>1, <2>2
<1>8. ASSUME NEW t \in Tabs,
             \/ \E e \in Edits :
                  \/ P!PostProvider(t, e) \/ P!PutProvider(t, e)
                  \/ P!PostDefault(t, e) \/ P!RemoveProvider(t, e)
                  \/ P!PostUser(t, e) \/ P!PutUser(t, e) \/ P!RemoveUser(t, e)
                  \/ P!SaveProvider(t, e) \/ P!SaveUser(t, e)
             \/ \E p \in Providers : P!LoadProviders(t, p)
             \/ \E u \in P!UserIds : P!LoadUsers(t, u)
      PROVE  CoreInv'
  BY <1>1, <1>8 DEF P!PostProvider, P!PutProvider, P!PostDefault, P!RemoveProvider, P!PostUser,
                    P!PutUser, P!RemoveUser, P!SaveProvider, P!SaveUser, P!Submits, P!Accepts,
                    P!LoadProviders, P!LoadUsers
<1>9. ASSUME NEW f \in Own, P!Refresh(f) PROVE CoreInv'
  BY <1>2, <1>9 DEF P!Refresh, P!Fetchers
<1>10. CASE UNCHANGED P!vars
  BY <1>1, <1>10 DEF P!vars
<1>11. QED
  BY <1>4, <1>5, <1>6, <1>7, <1>8, <1>9, <1>10 DEF P!Next

\* The three invariants hold together in every run.
LEMMA ProvidersAlways == P!ConstantsFit => (P!Spec => []ProvidersInv)
<1> SUFFICES ASSUME P!ConstantsFit PROVE P!Spec => []ProvidersInv
  OBVIOUS
<1>1. P!Init => ProvidersInv
  BY ProvidersInit
<1>2. ProvidersInv /\ [P!Next]_P!vars => ProvidersInv'
  BY TabNext, TablesNext, CoreNext DEF ProvidersInv
<1>3. QED
  BY <1>1, <1>2, PTL DEF P!Spec

\* The tables, the requests and what the core holds keep their types, whatever administrators submit
\* at once and whatever fails (provider.service.ts, provider-user.service.ts, registry.go).
THEOREM RegistryTyped == P!ConstantsFit => (P!Spec => []P!TypeOK)
<1> SUFFICES ASSUME P!ConstantsFit PROVE P!Spec => []P!TypeOK
  OBVIOUS
<1> DEFINE Bounded == edits \in 0..MaxEdits /\ lost \in 0..MaxLost
<1> MaxEdits \in Nat /\ MaxLost \in Nat
  BY DEF P!ConstantsFit
<1>1. P!Init => Bounded
  BY DEF P!Init
<1>2. Bounded /\ [P!Next]_P!vars => Bounded'
  <2> SUFFICES ASSUME Bounded, [P!Next]_P!vars PROVE Bounded'
    OBVIOUS
  <2>1. ASSUME NEW t \in Tabs, NEW e, NEW p, P!Accepts(t, e, p) PROVE Bounded'
    BY <2>1 DEF P!Accepts
  <2>2. ASSUME NEW t \in Tabs, NEW e \in Edits,
               \/ P!PostProvider(t, e) \/ P!PutProvider(t, e)
               \/ P!PostDefault(t, e) \/ P!RemoveProvider(t, e)
               \/ P!PostUser(t, e) \/ P!PutUser(t, e) \/ P!RemoveUser(t, e)
               \/ P!SaveProvider(t, e) \/ P!SaveUser(t, e)
        PROVE  Bounded'
    <3>1. \E x, p : P!Accepts(t, x, p)
      BY <2>2 DEF P!PostProvider, P!PutProvider, P!PostDefault, P!RemoveProvider, P!PostUser,
                  P!PutUser, P!RemoveUser, P!SaveProvider, P!SaveUser, P!Submits
    <3>2. QED
      BY <2>1, <3>1
  <2>3. ASSUME NEW f \in P!Fetchers, P!FetchLost(f) PROVE Bounded'
    BY <2>3 DEF P!FetchLost, P!FetchFails
  <2>4. ASSUME NEW t \in Tabs, P!NotifyFails(t) PROVE Bounded'
    BY <2>4 DEF P!NotifyFails
  <2>5. CASE UNCHANGED P!bounds
    BY <2>5 DEF P!bounds
  <2>6. ASSUME NEW t \in Tabs, P!Handle(t) PROVE UNCHANGED P!bounds
    BY <2>6
    DEF P!Handle, P!ReadProvider, P!CheckRoute, P!CreateProvider, P!UpdateProvider,
        P!SetDefaultProvider, P!DeleteProvider, P!UpsertPrimaryUser, P!EnsureProvider, P!GetUser,
        P!CheckName, P!CreateUser, P!UpdateUser, P!DeleteUser, P!ReadIdentity, P!WriteIdentity,
        P!Reload, P!Notify
  <2>7. ASSUME NEW t \in Tabs,
               (\E p \in Providers : P!LoadProviders(t, p)) \/ \E u \in P!UserIds : P!LoadUsers(t, u)
        PROVE  UNCHANGED P!bounds
    BY <2>7 DEF P!LoadProviders, P!LoadUsers
  <2>8. ASSUME NEW f \in P!Fetchers, P!Refresh(f) \/ P!Store(f) PROVE UNCHANGED P!bounds
    BY <2>8 DEF P!Refresh, P!Store
  <2>9. ASSUME NEW f \in P!Fetchers, P!SelectUsers(f) PROVE UNCHANGED P!bounds
    BY <2>9 DEF P!SelectUsers, P!FetchFails, P!bounds
  <2>10. QED
    BY <2>2, <2>3, <2>4, <2>5, <2>6, <2>7, <2>8, <2>9 DEF P!Next, P!Fetch, P!Fetchers, P!vars
<1>3. ProvidersInv /\ Bounded => P!TypeOK
  BY DEF ProvidersInv, TabInv, TabTypes, TablesInv, CoreInv, Fetching, P!TypeOK
<1>4. QED
  BY <1>1, <1>2, <1>3, ProvidersAlways, PTL DEF P!Spec

\* The first match of Resolver.Resolve is the only one: what the core serves never has a route, a
\* default provider or a user's name twice, whatever requests and fetches overlap.
THEOREM RegistryIsUnambiguous == P!ConstantsFit => (P!Spec => []P!RegistryUnambiguous)
<1>1. ProvidersInv => P!RegistryUnambiguous
  BY DEF ProvidersInv, CoreInv, Unambiguous, P!RegistryUnambiguous
<1>2. QED
  BY <1>1, ProvidersAlways, PTL

\* One entry for a route and one default: the CHOOSE of both sides picks the same provider.
LEMMA RoutesAgree ==
  ASSUME ProvidersInv, P!Settled, NEW path \in Routes
  PROVE  P!Resolve(path) = P!ResolveProviderByPath(path)
<1> DEFINE on == {q \in Providers : providers[q] # NoRow /\ providers[q].enabled}
           entry(p) == [id |-> p, route |-> providers[p].route, default |-> providers[p].default,
                        clients |-> P!ClientsOf(userRows, p)]
           answer(S) == LET p == CHOOSE q \in S : TRUE IN [id |-> p, clients |-> P!ClientsOf(userRows, p)]
           routed == {p \in snapshot : p.route = path}
           routedRows == {p \in on : providers[p].route = path}
           default == {p \in snapshot : p.default}
           defaultRows == {p \in on : providers[p].default}
<1>1. snapshot = {entry(p) : p \in on}
  BY DEF P!Settled, P!Enabled
<1>2. Unambiguous(snapshot)
  BY DEF ProvidersInv, CoreInv
<1>3. \A p \in on : entry(p).route = providers[p].route /\ entry(p).default = providers[p].default
  OBVIOUS
<1>4. \A p : P!Chosen(entry(p)) = [id |-> p, clients |-> P!ClientsOf(userRows, p)]
  BY DEF P!Chosen
<1>5. \A S : answer(S) = P!Chosen(entry(CHOOSE q \in S : TRUE))
  BY <1>4
<1>6. routed = {entry(p) : p \in routedRows} /\ default = {entry(p) : p \in defaultRows}
  BY <1>1, <1>3
<1>7. \A x, y \in routed : x = y
  BY <1>2 DEF Unambiguous
<1>8. \A x, y \in default : x = y
  BY <1>2 DEF Unambiguous
<1>9. P!Resolve(path) = CASE routed # {} -> P!Chosen(CHOOSE p \in routed : TRUE)
                        [] routed = {} /\ default # {} -> P!Chosen(CHOOSE p \in default : TRUE)
                        [] OTHER -> P!NoProvider
  BY DEF P!Resolve
<1>10. P!ResolveProviderByPath(path) = CASE routedRows # {} -> answer(routedRows)
                                       [] routedRows = {} /\ defaultRows # {} -> answer(defaultRows)
                                       [] OTHER -> P!NoProvider
  BY DEF P!ResolveProviderByPath
<1> HIDE DEF on, entry, answer, routed, routedRows, default, defaultRows
\* A set of entries with one element, and the rows they are of.
<1>11. ASSUME NEW E, NEW R, E = {entry(p) : p \in R}, \A x, y \in E : x = y, R # {}
       PROVE  P!Chosen(CHOOSE x \in E : TRUE) = answer(R)
  <2>1. (CHOOSE q \in R : TRUE) \in R
    BY <1>11
  <2>2. entry(CHOOSE q \in R : TRUE) \in E
    BY <1>11, <2>1
  <2>3. (CHOOSE x \in E : TRUE) \in E
    BY <2>2
  <2>4. QED
    BY <1>5, <1>11, <2>2, <2>3
<1>12. routedRows # {} => P!Chosen(CHOOSE x \in routed : TRUE) = answer(routedRows)
  BY <1>6, <1>7, <1>11
<1>13. defaultRows # {} => P!Chosen(CHOOSE x \in default : TRUE) = answer(defaultRows)
  BY <1>6, <1>8, <1>11
<1>14. routed = {} <=> routedRows = {}
  BY <1>6
<1>15. default = {} <=> defaultRows = {}
  BY <1>6
<1>16. QED
  BY <1>9, <1>10, <1>12, <1>13, <1>14, <1>15

\* The two implementations of routing, Resolver.Resolve in Go over its copy and resolveProviderByPath
\* in SQL over the tables, give the same provider and users once the copy is that of the tables.
THEOREM ResolversAgree == P!ConstantsFit => (P!Spec => []P!SettledRoutes)
<1>1. ProvidersInv => P!SettledRoutes
  BY RoutesAgree DEF P!SettledRoutes
<1>2. QED
  BY <1>1, ProvidersAlways, PTL

\* What RegistryConverges rests on besides fairness: when the copy of the core and the answers on
\* their way are those of the tables, no step but a change of the tables can undo it
\* (Registry.Refresh stores what it was answered, in whatever order answers come).
THEOREM SettledIsStable == P!ConstantsFit => (P!Spec => P!SettledStays)
<1> SUFFICES ASSUME P!ConstantsFit PROVE P!Spec => P!SettledStays
  OBVIOUS
<1>1. ProvidersInv /\ [P!Next]_P!vars => [P!Settled /\ UNCHANGED <<providers, userRows>> => P!Settled']_P!vars
  <2> SUFFICES ASSUME CoreInv, P!Next, P!Settled, UNCHANGED <<providers, userRows>> PROVE P!Settled'
    BY DEF ProvidersInv
  <2>1. P!Enabled(providers, userRows)' = P!Enabled(providers, userRows)
    BY DEF P!Enabled, P!ClientsOf, P!UsersOf
  <2>2. ASSUME snapshot' = snapshot,
               \A f \in P!Fetchers : \/ fetch'[f] = fetch[f]
                                     \/ fetch'[f].at = "idle"
                                     \/ fetch'[f].at = "users" /\ fetch'[f].rows = providers
                                     \/ fetch'[f].at = "store" /\ fetch[f].at = "users"
                                        /\ fetch'[f].answer = P!Enabled(fetch[f].rows, userRows)
        PROVE  P!Settled'
    BY <2>1, <2>2 DEF P!Settled
  <2>3. ASSUME NEW f \in P!Fetchers, P!Asks(f), snapshot' = snapshot PROVE P!Settled'
    BY <2>2, <2>3 DEF P!Asks, CoreInv, Fetching
  <2>4. ASSUME NEW f \in P!Fetchers, fetch' = [fetch EXCEPT ![f] = P!NoFetch], snapshot' = snapshot
        PROVE  P!Settled'
    BY <2>2, <2>4, ConstantTypes DEF CoreInv
  <2>5. CASE UNCHANGED P!core
    BY <2>2, <2>5 DEF P!core
  <2>6. ASSUME NEW f \in P!Fetchers, P!SelectUsers(f) PROVE P!Settled'
    <3>1. snapshot' = snapshot
      BY <2>6 DEF P!SelectUsers, P!FetchFails
    <3>2. CASE fetch' = [fetch EXCEPT ![f] = P!NoFetch]
      BY <2>4, <3>1, <3>2
    <3>3. CASE fetch' = [fetch EXCEPT ![f] = [at |-> "store", rows |-> P!NoFetch.rows,
                                              answer |-> P!Enabled(fetch[f].rows, userRows)]]
      BY <2>2, <2>6, <3>1, <3>3 DEF P!SelectUsers, CoreInv
    <3>4. QED
      BY <2>6, <3>2, <3>3 DEF P!SelectUsers, P!FetchFails
  <2>7. ASSUME NEW f \in P!Fetchers, P!Store(f) PROVE P!Settled'
    <3>1. snapshot' = snapshot
      BY <2>7 DEF P!Store, P!Settled
    <3>2. QED
      BY <2>4, <2>7, <3>1 DEF P!Store
  <2>8. ASSUME NEW f \in P!Fetchers, P!FetchLost(f) PROVE P!Settled'
    BY <2>4, <2>8 DEF P!FetchLost, P!FetchFails
  <2>9. ASSUME NEW t \in Tabs, P!NotifyFails(t) PROVE P!Settled'
    BY <2>4, <2>5, <2>9 DEF P!NotifyFails, P!Fetchers, P!core
  <2>10. ASSUME NEW t \in Tabs, P!Handle(t) PROVE P!Settled'
    <3>1. CASE P!Notify(t)
      BY <2>3, <3>1 DEF P!Notify, P!Fetchers
    <3>2. CASE ~P!Notify(t)
      BY <2>5, <2>10, <3>2
      DEF P!Handle, P!ReadProvider, P!CheckRoute, P!CreateProvider, P!UpdateProvider,
          P!SetDefaultProvider, P!DeleteProvider, P!UpsertPrimaryUser, P!EnsureProvider, P!GetUser,
          P!CheckName, P!CreateUser, P!UpdateUser, P!DeleteUser, P!ReadIdentity, P!WriteIdentity,
          P!Reload
    <3>3. QED
      BY <3>1, <3>2
  <2>11. ASSUME NEW t \in Tabs,
                \/ \E e \in Edits :
                     \/ P!PostProvider(t, e) \/ P!PutProvider(t, e) \/ P!PostDefault(t, e)
                     \/ P!RemoveProvider(t, e) \/ P!PostUser(t, e) \/ P!PutUser(t, e) \/ P!RemoveUser(t, e)
                     \/ P!SaveProvider(t, e) \/ P!SaveUser(t, e)
                \/ \E p \in Providers : P!LoadProviders(t, p)
                \/ \E u \in P!UserIds : P!LoadUsers(t, u)
         PROVE  P!Settled'
    BY <2>5, <2>11 DEF P!PostProvider, P!PutProvider, P!PostDefault, P!RemoveProvider, P!PostUser,
                       P!PutUser, P!RemoveUser, P!SaveProvider, P!SaveUser, P!Submits, P!Accepts,
                       P!LoadProviders, P!LoadUsers
  <2>12. ASSUME NEW f \in Own, P!Refresh(f) PROVE P!Settled'
    BY <2>3, <2>12 DEF P!Refresh, P!Fetchers
  <2>13. QED
    BY <2>6, <2>7, <2>8, <2>9, <2>10, <2>11, <2>12 DEF P!Next, P!Fetch
<1>2. QED
  BY <1>1, ProvidersAlways, PTL DEF P!Spec, P!SettledStays
=============================================================================
