----------------------------- MODULE MCProviders -----------------------------
(***************************************************************************)
(* Providers with two installed providers, p1 the default one, a free id   *)
(* and a few requests for TLC.                                             *)
(***************************************************************************)
EXTENDS Providers, TLC

CONSTANTS p1, p2, p3, r1, r2, n1, n2

MCInstalled ==
  (p1 :> [route |-> r1, default |-> TRUE, enabled |-> TRUE, local |-> n1])
  @@ (p2 :> [route |-> r2, default |-> FALSE, enabled |-> TRUE, local |-> NoName])
  @@ [p \in Providers |-> NoRow]
MCClients ==
  (1 :> [provider |-> p1, name |-> n1, enabled |-> TRUE])
  @@ [u \in UserIds |-> NoUser]

Blank(kind, p) == [NoOp EXCEPT !.kind = kind, !.provider = p]
MCEdits ==
  {Blank("default", p2), Blank("delete", p2),
   [Blank("create", p3) EXCEPT !.route = r2, !.default = TRUE, !.enabled = TRUE, !.name = n1],
   [Blank("update", p1) EXCEPT !.enabled = FALSE, !.name = n2],
   [Blank("addUser", p2) EXCEPT !.name = n2, !.enabled = FALSE],
   [Blank("updateUser", p1) EXCEPT !.user = 1, !.enabled = FALSE],
   [Blank("deleteUser", p1) EXCEPT !.user = 1]}
=============================================================================
