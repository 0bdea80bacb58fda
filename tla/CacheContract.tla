--------------------------- MODULE CacheContract ---------------------------
(***************************************************************************)
(* What the metadata cache promises the clients of one entry.              *)
(*                                                                         *)
(* The entry is a register.  A request takes a snapshot of the value that  *)
(* is active when it begins and is served all of that value, whatever      *)
(* replaces or removes the entry meanwhile: there is no failed read.  A    *)
(* value is replaced in one step, and a catalog with items never by an     *)
(* empty one.  A restart drops the requests and keeps the value.           *)
(***************************************************************************)
EXTENDS Naturals

CONSTANTS
  Readers,   \* client requests
  Values,    \* what can be published: records with a field items
  None       \* no value

VARIABLES
  value,     \* the active value, or None
  view,      \* view[r]: the value request r was given, or None
  phase,     \* phase[r]: "idle", "reading" or "served"
  restarts   \* restarts so far: only a restart ends a request unserved

vars == <<value, view, phase, restarts>>

Init ==
  /\ value = None
  /\ view = [r \in Readers |-> None]
  /\ phase = [r \in Readers |-> "idle"]
  /\ restarts = 0

Replace ==
  /\ value' \in Values \ {value}
  /\ ~(value # None /\ value.items = "items" /\ value'.items = "empty")
  /\ UNCHANGED <<view, phase, restarts>>

Remove ==
  /\ value' = None
  /\ UNCHANGED <<view, phase, restarts>>

Begin(r) ==
  /\ phase[r] = "idle"
  /\ value # None
  /\ view' = [view EXCEPT ![r] = value]
  /\ phase' = [phase EXCEPT ![r] = "reading"]
  /\ UNCHANGED <<value, restarts>>

Complete(r) ==
  /\ phase[r] = "reading"
  /\ phase' = [phase EXCEPT ![r] = "served"]
  /\ UNCHANGED <<value, view, restarts>>

End(r) ==
  /\ phase[r] = "served"
  /\ phase' = [phase EXCEPT ![r] = "idle"]
  /\ view' = [view EXCEPT ![r] = None]
  /\ UNCHANGED <<value, restarts>>

Restart ==
  /\ restarts' = restarts + 1
  /\ view' = [r \in Readers |-> None]
  /\ phase' = [r \in Readers |-> "idle"]
  /\ UNCHANGED value

Next ==
  \/ Replace \/ Remove \/ Restart
  \/ \E r \in Readers : Begin(r) \/ Complete(r) \/ End(r)

Spec == Init /\ [][Next]_vars
=============================================================================
