------------------------------ MODULE Providers ------------------------------
(***************************************************************************)
(* Providers and their client users: the tables the administration UI      *)
(* edits (lib/services/provider*.ts, app/api/providers), and the registry  *)
(* of the Go core that serves a copy of them (internal/provider).          *)
(*                                                                         *)
(* A tab is one administrator's page with at most one request under way.   *)
(* A request is a handler that awaits the database between its reads and   *)
(* its writes: a step ends where the code awaits, and what was read before *)
(* may be old when it is used.  A committed change is followed by a        *)
(* notification that makes the core fetch all providers again; the core    *)
(* also polls, and fetches when a client finds its copy empty.             *)
(*                                                                         *)
(* A row keeps the fields that matter to routing; the other fields of a    *)
(* row (name, host, upstream credentials) are written as the route is.     *)
(***************************************************************************)
EXTENDS Naturals, FiniteSets

CONSTANTS
  Tabs,       \* browser tabs of administrators
  Own,        \* fetches the core may have started by itself at once
  Providers,  \* ids of provider rows
  Routes,     \* normalized routes
  Names,      \* user names of clients
  Installed,  \* the rows at the start
  Clients,    \* the users at the start, in the order of their creation
  MaxUsers,   \* bound: users ever created
  Edits,      \* what administrators submit
  MaxEdits,   \* bound: requests
  MaxLost,    \* bound: notifications and fetches that fail
  Same,       \* a field the request leaves out
  NoRow, NoUser, NoName

UserIds == 1..MaxUsers
Row == [route : Routes, default : BOOLEAN, enabled : BOOLEAN, local : Names \cup {NoName}]
User == [provider : Providers, name : Names, enabled : BOOLEAN]
Kinds == {"create", "update", "default", "delete", "addUser", "updateUser", "deleteUser"}
Edit == [kind : Kinds, provider : Providers, user : 0..MaxUsers,
         route : Routes \cup {Same}, default : BOOLEAN \cup {Same},
         enabled : BOOLEAN \cup {Same}, name : Names \cup {Same}]

\* The unique indexes and foreign keys of the schema.
Consistent(rows, us) ==
  /\ \A p, q \in Providers : p # q /\ rows[p] # NoRow /\ rows[q] # NoRow
                              => /\ rows[p].route # rows[q].route
                                 /\ ~(rows[p].default /\ rows[q].default)
  /\ \A u \in UserIds : us[u] # NoUser => rows[us[u].provider] # NoRow
  /\ \A u, v \in UserIds : u # v /\ us[u] # NoUser /\ us[v] # NoUser
                            => <<us[u].provider, us[u].name>> # <<us[v].provider, us[v].name>>

\* The tables at the start are such as the code leaves, and the special values are no ordinary ones.
ConstantsFit ==
  /\ Edits \subseteq Edit
  /\ \A e \in Edits : /\ e.kind = "create" => Same \notin {e.route, e.default, e.enabled, e.name}
                      /\ e.kind = "addUser" => Same \notin {e.enabled, e.name}
  /\ Providers # {}
  /\ Installed \in [Providers -> Row \cup {NoRow}]
  /\ Clients \in [UserIds -> User \cup {NoUser}]
  /\ Consistent(Installed, Clients)
  /\ \E n \in 0..MaxUsers : {u \in UserIds : Clients[u] # NoUser} = 1..n
  /\ Tabs \cap Own = {} /\ Own # {}
  /\ {MaxUsers, MaxEdits, MaxLost} \subseteq Nat
  /\ Same \notin Routes \cup BOOLEAN \cup Names
  /\ NoRow \notin Row /\ NoUser \notin User

ASSUME ProvidersAssumption == ConstantsFit

VARIABLES
  \* the database
  providers,  \* iptv_providers
  users,      \* provider_users
  created,    \* users created so far: ids grow with created_at
  ids,        \* provider ids that were used
  \* the tabs and the handlers of their requests
  op, pc,     \* the request, and where its handler awaits
  row, saw,   \* existing: the provider and the user the handler has read
  \* the Go core
  fetch,      \* fetches of GET /api/internal/providers
  snapshot,   \* Registry.providers
  \* bounds
  edits, lost

database == <<providers, users, created, ids>>
handler == <<op, pc, row, saw>>
core == <<fetch, snapshot>>
bounds == <<edits, lost>>
vars == <<database, handler, core, bounds>>

Fetchers == Tabs \cup Own
Step == {"idle", "form", "userForm", "route", "read", "commit", "primary", "ensure", "existing",
         "name", "write", "sync", "local", "reloadUser", "reload", "notify", "wait"}
Served == [id : Providers, route : Routes, default : BOOLEAN,
           clients : SUBSET [name : Names, enabled : BOOLEAN]]
NoFetch == [at |-> "idle", rows |-> [p \in Providers |-> NoRow], answer |-> {}]
NoOp == [kind |-> "delete", provider |-> CHOOSE p \in Providers : TRUE, user |-> 0,
         route |-> Same, default |-> Same, enabled |-> Same, name |-> Same]

TypeOK ==
  /\ providers \in [Providers -> Row \cup {NoRow}]
  /\ users \in [UserIds -> User \cup {NoUser}]
  /\ \A u \in UserIds : users[u] # NoUser => u <= created
  /\ \A p \in Providers : providers[p] # NoRow => p \in ids
  /\ op \in [Tabs -> Edit]
  /\ pc \in [Tabs -> Step]
  /\ row \in [Tabs -> Row \cup {NoRow}]
  /\ saw \in [Tabs -> User \cup Names \cup {NoUser, NoName}]
  /\ fetch \in [Fetchers -> [at : {"idle", "users", "store"},
                             rows : [Providers -> Row \cup {NoRow}], answer : SUBSET Served]]
  /\ snapshot \subseteq Served
  /\ edits \in 0..MaxEdits
  /\ lost \in 0..MaxLost

Init ==
  /\ providers = Installed
  /\ users = Clients
  /\ created = Cardinality({u \in UserIds : Clients[u] # NoUser})
  /\ ids = {p \in Providers : Installed[p] # NoRow}
  /\ op = [t \in Tabs |-> NoOp]
  /\ pc = [t \in Tabs |-> "idle"]
  /\ row = [t \in Tabs |-> NoRow]
  /\ saw = [t \in Tabs |-> NoUser]
  /\ fetch = [f \in Fetchers |-> NoFetch]
  /\ snapshot = {}
  /\ edits = 0
  /\ lost = 0

Goes(t, p) == pc' = [pc EXCEPT ![t] = p]

\* The page shows what came of the request, and the handler is gone.
Ends(t) ==
  /\ Goes(t, "idle")
  /\ op' = [op EXCEPT ![t] = NoOp]
  /\ row' = [row EXCEPT ![t] = NoRow]
  /\ saw' = [saw EXCEPT ![t] = NoUser]
-----------------------------------------------------------------------------
(***************************************************************************)
(* What the tables say.                                                    *)
(***************************************************************************)
UsersOf(us, p) == {u \in UserIds : us[u] # NoUser /\ us[u].provider = p}
ClientsOf(us, p) == {[name |-> us[u].name, enabled |-> us[u].enabled] : u \in UsersOf(us, p)}

\* ORDER BY enabled DESC, created_at ASC LIMIT 1; 0 when there is none.
PrimaryUser(p) ==
  LET us == UsersOf(users, p)
      on == {u \in us : users[u].enabled}
      best == IF on = {} THEN us ELSE on
  IN IF best = {} THEN 0 ELSE CHOOSE u \in best : \A v \in best : u <= v

\* The internal endpoint: enabled providers, each with all its users.
Enabled(rows, us) ==
  {[id |-> p, route |-> rows[p].route, default |-> rows[p].default, clients |-> ClientsOf(us, p)] :
     p \in {q \in Providers : rows[q] # NoRow /\ rows[q].enabled}}

\* A batch is one transaction: all of it, or an error.
Commits(t, rows, us, next) ==
  IF Consistent(rows, us)
  THEN /\ providers' = rows
       /\ users' = us
       /\ Goes(t, next)
       /\ UNCHANGED <<op, row, saw>>
  ELSE /\ Ends(t)
       /\ UNCHANGED <<providers, users>>

\* UPDATE iptv_providers SET is_default = 0 WHERE is_default = 1 AND id NOT IN keep.
WithoutDefault(rows, keep) ==
  [p \in Providers |-> IF rows[p] = NoRow \/ p \in keep THEN rows[p]
                       ELSE [rows[p] EXCEPT !.default = FALSE]]
Or(field, existing) == IF field = Same THEN existing ELSE field
-----------------------------------------------------------------------------
(***************************************************************************)
(* Requests.                                                               *)
(***************************************************************************)
Accepts(t, e, first) ==
  /\ edits < MaxEdits
  /\ edits' = edits + 1
  /\ fetch[t].at = "idle"
  /\ op' = [op EXCEPT ![t] = e]
  /\ row' = [row EXCEPT ![t] = NoRow]
  /\ saw' = [saw EXCEPT ![t] = NoUser]
  /\ Goes(t, first)
  /\ UNCHANGED <<providers, users, created, core, lost>>

Submits(t, kind, e, first) ==
  /\ pc[t] = "idle" /\ e.kind = kind
  /\ Accepts(t, e, first)

PostProvider(t, e) ==
  /\ e.provider \notin ids
  /\ ids' = ids \cup {e.provider}
  /\ Submits(t, "create", e, "route")

PutProvider(t, e) == Submits(t, "update", e, "read") /\ UNCHANGED ids
PostDefault(t, e) == Submits(t, "default", e, "read") /\ UNCHANGED ids
RemoveProvider(t, e) == Submits(t, "delete", e, "read") /\ UNCHANGED ids
PostUser(t, e) == Submits(t, "addUser", e, "ensure") /\ UNCHANGED ids
PutUser(t, e) == Submits(t, "updateUser", e, "ensure") /\ UNCHANGED ids
RemoveUser(t, e) == Submits(t, "deleteUser", e, "ensure") /\ UNCHANGED ids

\* The edit form is filled with a row of the list as it was when the page loaded it ...
LoadProviders(t, p) ==
  /\ pc[t] = "idle" /\ edits < MaxEdits /\ providers[p] # NoRow
  /\ row' = [row EXCEPT ![t] = providers[p]]
  /\ op' = [op EXCEPT ![t].provider = p]
  /\ Goes(t, "form")
  /\ UNCHANGED <<database, saw, core, bounds>>

\* ... and sends every field, those left alone as it shows them.
SaveProvider(t, e) ==
  LET shown == row[t] IN
  /\ pc[t] = "form"
  /\ e.kind = "update" /\ e.provider = op[t].provider
  /\ Accepts(t, [e EXCEPT !.route = Or(@, shown.route), !.default = Or(@, shown.default),
                          !.enabled = Or(@, shown.enabled), !.name = Same], "read")
  /\ UNCHANGED ids

\* The same on the page of a provider's users.
LoadUsers(t, u) ==
  /\ pc[t] = "idle" /\ edits < MaxEdits /\ users[u] # NoUser
  /\ saw' = [saw EXCEPT ![t] = users[u]]
  /\ op' = [op EXCEPT ![t].provider = users[u].provider, ![t].user = u]
  /\ Goes(t, "userForm")
  /\ UNCHANGED <<database, row, core, bounds>>

SaveUser(t, e) ==
  LET shown == saw[t] IN
  /\ pc[t] = "userForm"
  /\ e.kind = "updateUser" /\ e.provider = op[t].provider /\ e.user = op[t].user
  /\ Accepts(t, [e EXCEPT !.name = Or(@, shown.name), !.enabled = Or(@, shown.enabled)], "ensure")
  /\ UNCHANGED ids

\* getProviderById at the start of a handler.
ReadProvider(t) ==
  LET p == op[t].provider IN
  /\ pc[t] = "read"
  /\ IF providers[p] = NoRow
     THEN Ends(t)
     ELSE /\ row' = [row EXCEPT ![t] = providers[p]]
          /\ Goes(t, IF op[t].kind = "update" /\ op[t].route # Same THEN "route" ELSE "commit")
          /\ UNCHANGED <<op, saw>>
  /\ UNCHANGED <<database, core, bounds>>

CheckRoute(t) ==
  LET taken == {q \in Providers : providers[q] # NoRow /\ providers[q].route = op[t].route}
  IN /\ pc[t] = "route"
     /\ IF taken \ (IF op[t].kind = "update" THEN {op[t].provider} ELSE {}) = {}
        THEN Goes(t, "commit") /\ UNCHANGED <<op, row, saw>>
        ELSE Ends(t)
     /\ UNCHANGED <<database, core, bounds>>

CreateProvider(t) ==
  LET e == op[t]
      rest == IF e.default THEN WithoutDefault(providers, {}) ELSE providers
      new == [route |-> e.route, default |-> e.default, enabled |-> e.enabled, local |-> e.name]
      first == [provider |-> e.provider, name |-> e.name, enabled |-> TRUE]
  IN /\ pc[t] = "commit" /\ e.kind = "create" /\ created < MaxUsers
     /\ Commits(t, [rest EXCEPT ![e.provider] = new], [users EXCEPT ![created + 1] = first], "reload")
     /\ created' = IF pc'[t] = "reload" THEN created + 1 ELSE created
     /\ UNCHANGED <<ids, core, bounds>>

\* Every column is written, those the request leaves out as they were read.
UpdateProvider(t) ==
  LET e == op[t]
      rest == IF e.default = TRUE THEN WithoutDefault(providers, {e.provider}) ELSE providers
      new == [route |-> Or(e.route, row[t].route), default |-> Or(e.default, row[t].default),
              enabled |-> Or(e.enabled, row[t].enabled), local |-> providers[e.provider].local]
  IN /\ pc[t] = "commit" /\ e.kind = "update"
     /\ Commits(t, IF providers[e.provider] = NoRow THEN rest ELSE [rest EXCEPT ![e.provider] = new],
                users, IF e.name = Same THEN "reload" ELSE "primary")
     /\ UNCHANGED <<created, ids, core, bounds>>

SetDefaultProvider(t) ==
  LET p == op[t].provider
      none == WithoutDefault(providers, {})
  IN /\ pc[t] = "commit" /\ op[t].kind = "default"
     /\ Commits(t, IF none[p] = NoRow THEN none ELSE [none EXCEPT ![p].default = TRUE], users, "reload")
     /\ UNCHANGED <<created, ids, core, bounds>>

\* The users go with the provider: ON DELETE CASCADE.
DeleteProvider(t) ==
  LET p == op[t].provider IN
  /\ pc[t] = "commit" /\ op[t].kind = "delete"
  /\ Commits(t, [providers EXCEPT ![p] = NoRow],
             [u \in UserIds |-> IF u \in UsersOf(users, p) THEN NoUser ELSE users[u]], "notify")
  /\ UNCHANGED <<created, ids, core, bounds>>

\* upsertPrimaryUser: without a user it adds one if the request carries a password.
UpsertPrimaryUser(t) ==
  LET p == op[t].provider IN
  /\ pc[t] = "primary"
  /\ \/ /\ providers[p] = NoRow \/ PrimaryUser(p) = 0
        /\ Ends(t)
     \/ /\ providers[p] # NoRow
        /\ op' = [op EXCEPT ![t].user = PrimaryUser(p)]
        /\ Goes(t, "ensure")
        /\ UNCHANGED <<row, saw>>
  /\ UNCHANGED <<database, core, bounds>>

Adds(e) == e.kind = "addUser" \/ (e.kind = "update" /\ e.user = 0)

EnsureProvider(t) ==
  /\ pc[t] = "ensure"
  /\ IF providers[op[t].provider] = NoRow
     THEN Ends(t)
     ELSE Goes(t, IF Adds(op[t]) THEN "name" ELSE "existing") /\ UNCHANGED <<op, row, saw>>
  /\ UNCHANGED <<database, core, bounds>>

GetUser(t) ==
  LET u == op[t].user IN
  /\ pc[t] = "existing"
  /\ IF u \notin UsersOf(users, op[t].provider)
     THEN Ends(t)
     ELSE /\ saw' = [saw EXCEPT ![t] = users[u]]
          /\ Goes(t, IF op[t].kind = "deleteUser" THEN "write" ELSE "name")
          /\ UNCHANGED <<op, row>>
  /\ UNCHANGED <<database, core, bounds>>

CheckName(t) ==
  LET e == op[t]
      name == IF Adds(e) THEN e.name ELSE Or(e.name, saw[t].name)
  IN /\ pc[t] = "name"
     /\ IF \E u \in UsersOf(users, e.provider) \ {e.user} : users[u].name = name
        THEN Ends(t)
        ELSE Goes(t, "write") /\ UNCHANGED <<op, row, saw>>
     /\ UNCHANGED <<database, core, bounds>>

CreateUser(t) ==
  LET e == op[t]
      new == [provider |-> e.provider, name |-> e.name,
              enabled |-> IF e.kind = "addUser" THEN e.enabled ELSE TRUE]
  IN /\ pc[t] = "write" /\ Adds(e) /\ created < MaxUsers
     /\ Commits(t, providers, [users EXCEPT ![created + 1] = new], "sync")
     /\ created' = IF pc'[t] = "sync" THEN created + 1 ELSE created
     /\ UNCHANGED <<ids, core, bounds>>

UpdateUser(t) ==
  LET e == op[t]
      enabled == IF e.kind = "update" THEN saw[t].enabled ELSE Or(e.enabled, saw[t].enabled)
      new == [provider |-> e.provider, name |-> Or(e.name, saw[t].name), enabled |-> enabled]
  IN /\ pc[t] = "write" /\ ~Adds(e) /\ e.kind # "deleteUser"
     /\ Commits(t, providers,
                IF e.user \in UsersOf(users, e.provider) THEN [users EXCEPT ![e.user] = new] ELSE users,
                "sync")
     /\ UNCHANGED <<created, ids, core, bounds>>

DeleteUser(t) ==
  LET e == op[t] IN
  /\ pc[t] = "write" /\ e.kind = "deleteUser"
  /\ Commits(t, providers,
             IF e.user \in UsersOf(users, e.provider) THEN [users EXCEPT ![e.user] = NoUser] ELSE users,
             "sync")
  /\ UNCHANGED <<created, ids, core, bounds>>

\* No first user: the name is undefined instead of empty.
FaultyReadIdentity(t) ==
  LET u == PrimaryUser(op[t].provider) IN
  /\ pc[t] = "sync"
  /\ saw' = [saw EXCEPT ![t] = IF u = 0 THEN NoUser ELSE users[u].name]
  /\ Goes(t, "local")
  /\ UNCHANGED <<database, op, row, core, bounds>>

\* syncLegacyIdentity reads the first user, then writes its name to the provider.
ReadIdentity(t) ==
  LET u == PrimaryUser(op[t].provider) IN
  /\ pc[t] = "sync"
  /\ saw' = [saw EXCEPT ![t] = IF u = 0 THEN NoName ELSE users[u].name]
  /\ Goes(t, "local")
  /\ UNCHANGED <<database, op, row, core, bounds>>

WriteIdentity(t) ==
  LET p == op[t].provider IN
  /\ pc[t] = "local"
  /\ providers' = IF providers[p] = NoRow THEN providers
                  ELSE [providers EXCEPT ![p].local = saw[t]]
  /\ saw' = [saw EXCEPT ![t] = NoUser]
  /\ Goes(t, IF op[t].kind = "deleteUser" THEN "notify" ELSE "reloadUser")
  /\ UNCHANGED <<users, created, ids, op, row, core, bounds>>

\* The answer carries the row as it is now: an error if it is gone.
Reload(t) ==
  LET e == op[t]
      gone == IF pc[t] = "reload" THEN providers[e.provider] = NoRow
              ELSE IF Adds(e) THEN ~\E u \in UsersOf(users, e.provider) : users[u].name = e.name
              ELSE e.user \notin UsersOf(users, e.provider)
  IN /\ pc[t] \in {"reloadUser", "reload"}
     /\ IF gone
        THEN Ends(t)
        ELSE /\ Goes(t, IF pc[t] = "reloadUser" /\ e.kind = "update" THEN "reload" ELSE "notify")
             /\ UNCHANGED <<op, row, saw>>
     /\ UNCHANGED <<database, core, bounds>>
-----------------------------------------------------------------------------
(***************************************************************************)
(* The registry of the core.                                               *)
(***************************************************************************)
\* The request reaches GET /api/internal/providers: getAllProviders reads the rows with one SELECT.
Asks(f) ==
  /\ fetch[f].at = "idle"
  /\ fetch' = [fetch EXCEPT ![f].at = "users", ![f].rows = providers]

\* refreshGoProviderRegistry: the core starts a fetch for the handler.
Notify(t) ==
  /\ pc[t] = "notify"
  /\ Goes(t, "wait")
  /\ Asks(t)
  /\ UNCHANGED <<database, op, row, saw, snapshot, bounds>>

\* The notification is lost, or not answered in five seconds: the core may go on with the fetch.
NotifyFails(t) ==
  /\ pc[t] \in {"notify", "wait"} /\ lost < MaxLost
  /\ lost' = lost + 1
  /\ Ends(t)
  /\ \/ fetch' = [fetch EXCEPT ![t] = NoFetch]
     \/ UNCHANGED fetch
  /\ UNCHANGED <<database, snapshot, edits>>

\* The core fetches only when it has no providers.
FaultyRefresh(f) ==
  /\ snapshot = {}
  /\ Asks(f)
  /\ UNCHANGED <<database, handler, snapshot, bounds>>

\* The core fetches every 30 seconds, and when a client's request finds no providers.
Refresh(f) ==
  /\ Asks(f)
  /\ UNCHANGED <<database, handler, snapshot, bounds>>

\* The fetch fails, and the handler that waits for it is told.
FetchFails(f) ==
  /\ fetch' = [fetch EXCEPT ![f] = NoFetch]
  /\ IF f \in Tabs /\ pc[f] = "wait" THEN Ends(f) ELSE UNCHANGED handler
  /\ UNCHANGED <<database, snapshot, edits>>

\* For each row a check that it is still there, then a SELECT for its users: a provider deleted
\* before the check fails the request, one deleted after it is served without users.
SelectUsers(f) ==
  /\ fetch[f].at = "users"
  /\ \/ /\ fetch' = [fetch EXCEPT ![f] = [at |-> "store", rows |-> NoFetch.rows,
                                         answer |-> Enabled(fetch[f].rows, users)]]
        /\ UNCHANGED <<database, handler, snapshot, bounds>>
     \/ /\ \E p \in Providers : fetch[f].rows[p] # NoRow /\ providers[p] = NoRow
        /\ FetchFails(f)
        /\ UNCHANGED lost

FetchLost(f) ==
  /\ fetch[f].at # "idle" /\ lost < MaxLost
  /\ lost' = lost + 1
  /\ FetchFails(f)

Store(f) ==
  /\ fetch[f].at = "store"
  /\ snapshot' = fetch[f].answer
  /\ fetch' = [fetch EXCEPT ![f] = NoFetch]
  /\ IF f \in Tabs /\ pc[f] = "wait" THEN Ends(f) ELSE UNCHANGED handler
  /\ UNCHANGED <<database, bounds>>

NoProvider == [id |-> NoRow, clients |-> {}]
Chosen(p) == [id |-> p.id, clients |-> p.clients]

\* Resolver.Resolve: a provider whose route is the first segment, then the default one.
Resolve(path) ==
  LET routed == {p \in snapshot : p.route = path}
      default == {p \in snapshot : p.default}
  IN CASE routed # {} -> Chosen(CHOOSE p \in routed : TRUE)
       [] routed = {} /\ default # {} -> Chosen(CHOOSE p \in default : TRUE)
       [] OTHER -> NoProvider

\* The same from the tables.
ResolveProviderByPath(path) ==
  LET on == {p \in Providers : providers[p] # NoRow /\ providers[p].enabled}
      routed == {p \in on : providers[p].route = path}
      default == {p \in on : providers[p].default}
      answer(S) == LET p == CHOOSE q \in S : TRUE IN [id |-> p, clients |-> ClientsOf(users, p)]
  IN CASE routed # {} -> answer(routed)
       [] routed = {} /\ default # {} -> answer(default)
       [] OTHER -> NoProvider
-----------------------------------------------------------------------------
Handle(t) ==
  \/ ReadProvider(t) \/ CheckRoute(t)
  \/ CreateProvider(t) \/ UpdateProvider(t) \/ SetDefaultProvider(t) \/ DeleteProvider(t)
  \/ UpsertPrimaryUser(t) \/ EnsureProvider(t) \/ GetUser(t) \/ CheckName(t)
  \/ CreateUser(t) \/ UpdateUser(t) \/ DeleteUser(t)
  \/ ReadIdentity(t) \/ WriteIdentity(t) \/ Reload(t) \/ Notify(t)

Fetch(f) == SelectUsers(f) \/ Store(f)

Next ==
  \/ \E t \in Tabs : \/ \E e \in Edits :
                          \/ PostProvider(t, e) \/ PutProvider(t, e) \/ PostDefault(t, e)
                          \/ RemoveProvider(t, e) \/ PostUser(t, e) \/ PutUser(t, e) \/ RemoveUser(t, e)
                          \/ SaveProvider(t, e) \/ SaveUser(t, e)
                     \/ \E p \in Providers : LoadProviders(t, p)
                     \/ \E u \in UserIds : LoadUsers(t, u)
                     \/ Handle(t)
                     \/ NotifyFails(t)
  \/ \E f \in Own : Refresh(f)
  \/ \E f \in Fetchers : Fetch(f) \/ FetchLost(f)

Spec == Init /\ [][Next]_vars

\* Database calls settle, the poll goes on, and fetches end.
FairSpec ==
  /\ Spec
  /\ \A f \in Own : WF_vars(Refresh(f))
  /\ \A t \in Tabs : WF_vars(Handle(t))
  /\ \A f \in Fetchers : WF_vars(Fetch(f))
-----------------------------------------------------------------------------
\* When the administrators have stopped, the core routes every path to the provider the tables
\* name for it, with the users of the tables: whatever was lost or overtaken is made up for by
\* the poll (Registry.Start, Registry.Refresh).
RegistryConverges ==
  <>[](\A path \in Routes : Resolve(path) = ResolveProviderByPath(path))

\* What the core serves has one provider for a route, one default provider at most, and one user for
\* a name, so that the first match is the only one (Resolver.Resolve), although the rows of an answer
\* and the users of each provider are read at different times and the answers overtake each other.
RegistryUnambiguous ==
  /\ \A p, q \in snapshot : p # q => p.id # q.id /\ p.route # q.route /\ ~(p.default /\ q.default)
  /\ \A p \in snapshot : \A c, d \in p.clients : c.name = d.name => c = d

\* The copy of the core and every answer on its way are those of the tables.
Settled ==
  /\ snapshot = Enabled(providers, users)
  /\ \A f \in Fetchers :
       /\ fetch[f].at = "users" => fetch[f].rows = providers
       /\ fetch[f].at = "store" => fetch[f].answer = Enabled(providers, users)

\* Then the core routes as the tables say (Resolver.Resolve against resolveProviderByPath).
SettledRoutes == Settled => \A path \in Routes : Resolve(path) = ResolveProviderByPath(path)

\* And it stays so until the tables change: no fetch that is under way can undo it.
SettledStays == [][Settled /\ UNCHANGED <<providers, users>> => Settled']_vars

=============================================================================
