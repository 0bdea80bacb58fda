-------------------------- MODULE VpnManagerProofs --------------------------
(***************************************************************************)
(* Theorems about VpnManager, for any number of requests and of faults:    *)
(* the connections never have two tunnels up, and the services stay        *)
(* reachable, unless WARP was rotated (or, for the second, something       *)
(* failed).                                                                *)
(*                                                                         *)
(* Both rest on the mutex: a connection that has found no tunnel up finds  *)
(* none when it starts its own, since nobody else holds vpnLock and        *)
(* everything that runs without it only takes tunnels down.  That the      *)
(* mutex itself loses nobody who waits for it, and grants the lock in turn,*)
(* comes last.                                                             *)
(***************************************************************************)
EXTENDS VpnManager, FiniteSetTheorems, TLAPS

Operation == Tunnel \cup {"status", "disconnect", "rotate"}
Exclusive == Tunnel \cup {"disconnect"}
Rotating == {"allow", "rotate", "drop", "register", "rejoin", "announce"}

Types ==
  /\ tunnels \subseteq Tunnel
  /\ bypass \in BOOLEAN
  /\ locked \in BOOLEAN
  /\ queue \in Seq(Requests)
  /\ op \in [Requests -> Operation]
  /\ pc \in [Requests -> Step]
  /\ rejoined \in BOOLEAN
  /\ faults \in Nat

\* The operations that come to a step.
Reached ==
  \A r \in Requests :
    /\ pc[r] \in Locked \cup {"acquire", "queued"} => op[r] \in Exclusive
    /\ pc[r] \in Locked \ {"stop", "clean", "off", "release"} => op[r] \in Tunnel
    /\ pc[r] = "admit" => op[r] \in Exclusive \cup {"rotate"}
    /\ pc[r] \in Reconciling => op[r] # "disconnect"
    /\ pc[r] \in Rotating => op[r] = "rotate"

\* Those who wait, wait once.
Queued ==
  /\ \A i \in 1..Len(queue) : pc[queue[i]] = "queued"
  /\ \A i, j \in 1..Len(queue) : queue[i] = queue[j] => i = j

OneHolder ==
  /\ \A r \in Requests : Holds(r) => locked
  /\ \A r, s \in Requests : Holds(r) /\ Holds(s) => r = s

Control == Types /\ Reached /\ Queued /\ OneHolder
-----------------------------------------------------------------------------
\* Nothing is under way.
LEMMA InitControl == Init => Control
<1> SUFFICES ASSUME Init PROVE Control
  OBVIOUS
<1>1. Types
  <2>1. queue \in Seq(Requests)
    BY DEF Init
  <2>2. op \in [Requests -> Operation] /\ pc \in [Requests -> Step]
    BY DEF Init, Operation, Step
  <2> QED BY <2>1, <2>2 DEF Init, Types
<1>2. Reached
  BY DEF Init, Reached, Exclusive, Rotating, Locked, Reconciling
<1>3. Queued
  BY DEF Init, Queued
<1>4. OneHolder
  BY DEF Init, OneHolder, Holds, Locked, Reconciling
<1> QED BY <1>1, <1>2, <1>3, <1>4 DEF Control

\* A step of one request that takes nobody the lock, and gives it to nobody.
LEMMA OneMoves ==
  ASSUME Control, NEW r \in Requests, NEW p \in Step, NEW o \in Operation,
         pc[r] # "queued", pc' = [pc EXCEPT ![r] = p], op' = [op EXCEPT ![r] = o],
         tunnels' \subseteq Tunnel, bypass' \in BOOLEAN, rejoined' \in BOOLEAN, faults' \in Nat,
         UNCHANGED <<locked, queue>>,
         p # "queued",
         p \in Locked \/ (p \in Reconciling /\ o \in Tunnel) => Holds(r),
         p \in Locked \cup {"acquire"} => o \in Exclusive,
         p \in Locked \ {"stop", "clean", "off", "release"} => o \in Tunnel,
         p = "admit" => o \in Exclusive \cup {"rotate"},
         p \in Reconciling => o # "disconnect",
         p \in Rotating => o = "rotate"
  PROVE  Control'
<1>1. Types'
  BY DEF Control, Types
<1>2. Reached'
  BY DEF Control, Types, Reached
<1>3. Queued'
  BY DEF Control, Types, Queued
<1>4. OneHolder'
  <2>1. ASSUME NEW s \in Requests, Holds(s)' PROVE Holds(s)
    <3>1. CASE s = r
      <4>1. pc'[r] = p /\ op'[r] = o
        BY DEF Control, Types
      <4> QED BY <2>1, <3>1, <4>1 DEF Holds
    <3>2. CASE s # r
      <4>1. pc'[s] = pc[s] /\ op'[s] = op[s]
        BY <3>2 DEF Control, Types
      <4> QED BY <2>1, <4>1 DEF Holds
    <3> QED BY <3>1, <3>2
  <2> QED BY <2>1 DEF Control, OneHolder
<1> QED BY <1>1, <1>2, <1>3, <1>4 DEF Control

\* A response ends an operation that has not the lock.
LEMMA FinishesControl ==
  ASSUME Control, NEW r \in Requests, NEW p \in {"idle", "read"}, Finishes(r, p), pc[r] # "queued",
         tunnels' \subseteq Tunnel, bypass' \in BOOLEAN, rejoined' \in BOOLEAN, faults' \in Nat,
         UNCHANGED <<locked, queue>>
  PROVE  Control'
<1>1. pc' = [pc EXCEPT ![r] = p] /\ op' = [op EXCEPT ![r] = "status"]
  BY DEF Finishes, Goes
<1>2. p \notin Locked \cup {"acquire", "admit", "queued"} \cup Rotating
  BY DEF Locked, Rotating
<1>3. p \in Step /\ "status" \in Operation /\ "status" \notin Tunnel /\ "status" # "disconnect"
  BY DEF Step, Reconciling, Operation, Tunnel
<1> QED BY <1>1, <1>2, <1>3, OneMoves

\* A request goes on with its operation.
LEMMA GoesControl ==
  ASSUME Control, NEW r \in Requests, NEW p \in Step, Goes(r, p), UNCHANGED op,
         pc[r] # "queued", p # "queued",
         tunnels' \subseteq Tunnel, bypass' \in BOOLEAN, rejoined' \in BOOLEAN, faults' \in Nat,
         UNCHANGED <<locked, queue>>,
         p \in Locked \/ (p \in Reconciling /\ op[r] \in Tunnel) => Holds(r),
         p \in Locked \cup {"acquire"} => op[r] \in Exclusive,
         p \in Locked \ {"stop", "clean", "off", "release"} => op[r] \in Tunnel,
         p # "admit",
         p \in Reconciling => op[r] # "disconnect",
         p \in Rotating => op[r] = "rotate"
  PROVE  Control'
<1>1. pc' = [pc EXCEPT ![r] = p] /\ op' = [op EXCEPT ![r] = op[r]] /\ op[r] \in Operation
  BY DEF Goes, Control, Types
<1> QED BY <1>1, OneMoves
-----------------------------------------------------------------------------
\* A request arrives, and is refused while the lock is held (isOperationInProgress).
LEMMA RequestControl ==
  ASSUME Control, NEW r \in Requests, (\E o \in Operations \cup {"status"} : Asks(r, o)) \/ Admits(r)
  PROVE  Control'
<1> USE DEF network, settings, mutex, locals, history
<1>0. Types /\ Reached
  BY DEF Control
<1>1. ASSUME NEW o \in Operations \cup {"status"}, Asks(r, o) PROVE Control'
  <2> DEFINE p == IF o = "status" THEN "read" ELSE "admit"
  <2>1. /\ pc' = [pc EXCEPT ![r] = p] /\ op' = [op EXCEPT ![r] = o] /\ pc[r] = "idle"
        /\ UNCHANGED <<tunnels, bypass, rejoined, faults, locked, queue>>
    BY <1>1 DEF Asks, Goes
  <2>2. o \in Operation /\ (o # "status" => o \in Exclusive \cup {"rotate"})
    BY <1>1, VpnAssumption DEF Operation, Exclusive
  <2>3. p \in Step /\ p # "queued" /\ p \notin Locked \cup {"acquire"} \cup Rotating
    BY DEF Step, Locked, Reconciling, Rotating
  <2>4. p \in Reconciling => o = "status" /\ o \notin Tunnel
    BY DEF Reconciling, Tunnel
  <2> HIDE DEF p
  <2>5. p = "admit" => o \in Exclusive \cup {"rotate"}
    BY <2>2 DEF p
  <2> QED BY <1>0, <2>1, <2>2, <2>3, <2>4, <2>5, OneMoves DEF Types
<1>2. ASSUME Admits(r) PROVE Control'
  <2>1. pc[r] = "admit" /\ op[r] \in Exclusive \cup {"rotate"}
        /\ UNCHANGED <<tunnels, bypass, rejoined, faults, locked, queue>>
    BY <1>0, <1>2 DEF Admits, Reached
  <2>2. CASE Ends(r)
    BY <1>0, <2>1, <2>2, FinishesControl DEF Ends, Types
  <2>3. CASE op[r] = "rotate" /\ Goes(r, "read") /\ UNCHANGED op
    <3>1. op[r] \notin Tunnel
      BY <2>3 DEF Tunnel
    <3> QED BY <1>0, <2>1, <2>3, <3>1, GoesControl DEF Types, Step, Locked, Reconciling, Rotating
  <2>4. CASE op[r] # "rotate" /\ Goes(r, "acquire") /\ UNCHANGED op
    BY <1>0, <2>1, <2>4, GoesControl DEF Types, Step, Locked, Reconciling, Rotating
  <2> QED BY <1>2, <2>2, <2>3, <2>4 DEF Admits
<1> QED BY <1>1, <1>2

\* reconcileRuntimeState, with the lock or without it.
LEMMA ReconcilesControl ==
  ASSUME Control, NEW r \in Requests, Reconciles(r) PROVE Control'
<1> USE DEF network, settings, mutex, locals, history
<1>0. Types /\ Reached
  BY DEF Control
<1>1. pc[r] \in Reconciling /\ op[r] # "disconnect" /\ pc[r] # "queued"
      /\ UNCHANGED <<tunnels, bypass, rejoined, faults, locked, queue>>
  BY <1>0 DEF Reconciles, Reads, Probes, Writes, Rereads, Reconciling, Reached
\* The request ends, goes on reconciling, or has the settings it asked for.
<1>2. CASE Ends(r)
  BY <1>0, <1>1, <1>2, FinishesControl DEF Ends, Types
<1>3. ASSUME NEW p \in {"probe", "write", "again"}, Goes(r, p), UNCHANGED op PROVE Control'
  <2>1. p \in Step /\ p \notin Locked \cup Rotating \cup {"acquire", "queued", "admit"}
    BY DEF Step, Locked, Rotating, Reconciling
  <2>2. op[r] \in Tunnel => Holds(r)
    BY <1>1 DEF Holds
  <2> QED BY <1>0, <1>1, <1>3, <2>1, <2>2, GoesControl DEF Types
<1>4. CASE op[r] = "rotate" /\ Goes(r, "allow") /\ UNCHANGED op
  BY <1>0, <1>1, <1>4, GoesControl DEF Types, Step, Locked, Reconciling, Rotating
<1>5. CASE op[r] \notin {"status", "rotate"} /\ Goes(r, "decide") /\ UNCHANGED op
  <2>1. op[r] \in Tunnel
    BY <1>0, <1>1, <1>5 DEF Types, Operation
  <2>2. Holds(r) /\ op[r] \in Exclusive
    BY <1>1, <2>1 DEF Holds, Exclusive
  <2>3. "decide" \in Step /\ "decide" \notin Rotating \cup Reconciling
    BY DEF Step, Locked, Rotating, Reconciling
  <2> QED BY <1>0, <1>1, <1>5, <2>1, <2>2, <2>3, GoesControl DEF Types
<1>6. CASE Reads(r)
  BY <1>3, <1>6 DEF Reads
<1>7. CASE Probes(r)
  BY <1>2, <1>3, <1>4, <1>5, <1>7 DEF Probes, Returns
<1>8. CASE Writes(r)
  BY <1>3, <1>8 DEF Writes
<1>9. CASE Rereads(r)
  BY <1>2, <1>4, <1>5, <1>9 DEF Rereads
<1> QED BY <1>6, <1>7, <1>8, <1>9 DEF Reconciles

\* The steps under vpnLock keep it.
LEMMA ConnectsControl ==
  ASSUME Control, NEW r \in Requests, Connects(r) PROVE Control'
<1> USE DEF network, settings, mutex, locals, history
<1> DEFINE Both == {"stop", "clean", "off", "release"}
<1>0. Types /\ Reached
  BY DEF Control
<1>1. pc[r] \in Locked
  BY DEF Connects, FindsProfile, Decides, StopsAll, Cleans, Bypasses, Marks, Starts, Verifies,
         Confirms, Undoes, Unroutes, MarksError, TurnsOff, Locked
<1>2. Holds(r) /\ op[r] \in Exclusive /\ pc[r] # "queued"
  BY <1>0, <1>1 DEF Holds, Reached, Locked
<1>3. \E p \in Locked \cup {"read"} :
        Goes(r, p) /\ (pc[r] \in Both /\ op[r] = "disconnect" => p \in Both) /\ (p = "read" => pc[r] = "profile")
  BY DEF Connects, FindsProfile, Decides, StopsAll, Cleans, Bypasses, Marks, Starts, Verifies,
         Confirms, Undoes, Unroutes, MarksError, TurnsOff, Locked, AfterConflict, AfterUnroute
<1>4. UNCHANGED <<op, locked, queue, rejoined>>
  BY DEF Connects, FindsProfile, Decides, StopsAll, Cleans, Bypasses, Marks, Starts, Verifies,
         Confirms, Undoes, Unroutes, MarksError, TurnsOff
<1>5. tunnels' \subseteq Tunnel
  <2>1. tunnels' \subseteq tunnels \/ (pc[r] = "start" /\ tunnels' = tunnels \cup {op[r]})
    BY DEF Connects, FindsProfile, Decides, StopsAll, Cleans, Bypasses, Marks, Starts, Verifies,
           Confirms, Undoes, Unroutes, MarksError, TurnsOff
  <2>2. pc[r] = "start" => op[r] \in Tunnel
    BY <1>0 DEF Reached, Locked
  <2> QED BY <1>0, <2>1, <2>2 DEF Types
<1>6. bypass' \in BOOLEAN
  BY <1>0 DEF Connects, FindsProfile, Decides, StopsAll, Cleans, Bypasses, Marks, Starts, Verifies,
         Confirms, Undoes, Unroutes, MarksError, TurnsOff, Types
<1>7. faults' \in Nat
  BY <1>0 DEF Connects, FindsProfile, Decides, StopsAll, Cleans, Bypasses, Marks, Starts, Verifies,
         Confirms, Undoes, Unroutes, MarksError, TurnsOff, Fails, Types
<1>8. PICK p \in Locked \cup {"read"} :
        Goes(r, p) /\ (pc[r] \in Both /\ op[r] = "disconnect" => p \in Both) /\ (p = "read" => pc[r] = "profile")
  BY <1>3
<1>9. p \in Step /\ p \notin Rotating \cup {"queued", "acquire", "admit"}
      /\ (p \in Reconciling => p = "read" /\ p \notin Locked)
  BY DEF Step, Locked, Reconciling, Rotating
<1>10. op[r] \in Tunnel \/ (op[r] = "disconnect" /\ pc[r] \in Both)
  BY <1>0, <1>1, <1>2 DEF Reached, Exclusive
<1>11. op[r] # "disconnect" \/ op[r] \notin Tunnel
  BY DEF Tunnel
<1>12. p \in Reconciling => op[r] # "disconnect"
  BY <1>8, <1>9, <1>10, <1>11
<1>13. p \in Locked \ Both => op[r] \in Tunnel
  BY <1>8, <1>10
<1> HIDE DEF Both
<1>14. p \in Locked \ {"stop", "clean", "off", "release"} => op[r] \in Tunnel
  BY <1>13 DEF Both
<1> QED BY <1>0, <1>2, <1>4, <1>5, <1>6, <1>7, <1>8, <1>9, <1>12, <1>14, GoesControl DEF Types

\* A rotation of the WARP registration runs without the lock.
LEMMA RotatesControl ==
  ASSUME Control, NEW r \in Requests, RotatesWarp(r) PROVE Control'
<1> USE DEF network, settings, mutex, locals, history
<1>0. Types /\ Reached
  BY DEF Control
<1>1. pc[r] \in Rotating /\ op[r] = "rotate" /\ pc[r] # "queued"
  BY <1>0 DEF RotatesWarp, Allows, Rotates, Drops, Registers, Rejoins, Announces, Rotating, Reached
<1>2. UNCHANGED <<bypass, locked, queue>> /\ tunnels' \subseteq Tunnel /\ rejoined' \in BOOLEAN
      /\ faults' \in Nat
  <2>1. UNCHANGED <<bypass, locked, queue>>
    BY DEF RotatesWarp, Allows, Rotates, Drops, Registers, Rejoins, Announces
  <2>2. tunnels' \subseteq tunnels \cup {"warp"}
    BY DEF RotatesWarp, Allows, Rotates, Drops, Registers, Rejoins, Announces
  <2>3. rejoined' \in BOOLEAN
    BY <1>0 DEF RotatesWarp, Allows, Rotates, Drops, Registers, Rejoins, Announces, Types
  <2>4. faults' \in Nat
    BY <1>0 DEF RotatesWarp, Allows, Rotates, Drops, Registers, Rejoins, Announces, Fails, Types
  <2> QED BY <1>0, <2>1, <2>2, <2>3, <2>4 DEF Types, Tunnel
<1>3. Ends(r) \/ Summarizes(r) \/ \E p \in Rotating : Goes(r, p) /\ UNCHANGED op
  BY DEF RotatesWarp, Allows, Rotates, Drops, Registers, Rejoins, Announces, Rotating
<1>4. CASE Ends(r) \/ Summarizes(r)
  BY <1>0, <1>1, <1>2, <1>4, FinishesControl DEF Ends, Summarizes, Types
<1>5. ASSUME NEW p \in Rotating, Goes(r, p), UNCHANGED op PROVE Control'
  <2>1. p \in Step /\ p \notin Locked \cup Reconciling \cup {"acquire", "queued", "admit"}
    BY DEF Step, Locked, Reconciling, Rotating
  <2> QED BY <1>0, <1>1, <1>2, <1>5, <2>1, GoesControl DEF Types
<1> QED BY <1>3, <1>4, <1>5

\* The lock is taken when it is free, and handed to the request that waits longest.
LEMMA LockControl ==
  ASSUME Control, NEW r \in Requests, Acquires(r) \/ Releases(r) PROVE Control'
<1> USE DEF network, settings, mutex, locals, history
<1>0. Types /\ Reached /\ Queued /\ OneHolder
  BY DEF Control
<1>1. UNCHANGED <<tunnels, bypass, rejoined, faults>>
  BY DEF Acquires, Releases
<1>2. \A s \in Requests : op[s] \in Exclusive /\ op[s] # "disconnect" => op[s] \in Tunnel
  BY DEF Exclusive
<1>3. \A s \in Requests : op[s] \in Exclusive =>
        /\ First(s) \in Step /\ First(s) \notin {"queued", "acquire", "admit"} \cup Rotating
        /\ First(s) \in Locked \ {"stop"} => op[s] \in Tunnel
        /\ First(s) \in Reconciling => op[s] # "disconnect"
        /\ First(s) \in Locked \cup Reconciling
  BY <1>2 DEF First, Step, Locked, Reconciling, Rotating
<1>4. CASE Acquires(r)
  <2>1. pc[r] = "acquire" /\ op[r] \in Exclusive /\ UNCHANGED op
    BY <1>0, <1>4 DEF Acquires, Reached
  <2>2. CASE Free
    <3>1. locked' = TRUE /\ pc' = [pc EXCEPT ![r] = First(r)] /\ UNCHANGED queue /\ ~locked
      BY <1>4, <2>2 DEF Acquires, Goes, Free
    <3>2. \A s \in Requests : s # r => pc'[s] = pc[s] /\ ~Holds(s)
      BY <1>0, <3>1 DEF Types, OneHolder
    <3>3. Types'
      BY <1>0, <1>1, <1>3, <2>1, <3>1 DEF Types
    <3>4. Reached'
      BY <1>0, <1>3, <2>1, <3>1 DEF Types, Reached
    <3>5. Queued'
      BY <1>0, <2>1, <3>1 DEF Types, Queued
    <3>6. \A s \in Requests : s # r => ~Holds(s)'
      BY <2>1, <3>2 DEF Holds
    <3> QED BY <3>1, <3>3, <3>4, <3>5, <3>6 DEF Control, OneHolder
  <2>3. CASE ~Free
    <3>1. pc' = [pc EXCEPT ![r] = "queued"] /\ queue' = Append(queue, r) /\ UNCHANGED locked
      BY <1>4, <2>3 DEF Acquires, Goes
    <3>2. /\ queue' \in Seq(Requests) /\ Len(queue') = Len(queue) + 1 /\ Len(queue) \in Nat
          /\ queue'[Len(queue) + 1] = r
          /\ \A i \in 1..Len(queue) : queue'[i] = queue[i] /\ queue[i] \in Requests
      BY <1>0, <3>1 DEF Types
    <3>3. Types'
      BY <1>0, <1>1, <2>1, <3>1, <3>2 DEF Types, Step
    <3>4. Reached'
      BY <1>0, <2>1, <3>1 DEF Types, Reached, Locked, Reconciling, Rotating
    <3>5. \A i \in 1..Len(queue) : queue[i] # r
      BY <1>0, <2>1 DEF Queued
    <3>6. pc'[r] = "queued" /\ \A s \in Requests : s # r => pc'[s] = pc[s]
      BY <1>0, <3>1 DEF Types
    <3>7. \A i \in 1..Len(queue') : i \in 1..Len(queue) \/ i = Len(queue) + 1
      BY <3>2
    <3>8. Queued'
      BY <1>0, <3>2, <3>5, <3>6, <3>7 DEF Queued
    <3>9. \A s \in Requests : Holds(s)' => Holds(s)
      <4>1. ~Holds(r)'
        BY <3>6 DEF Holds, Locked, Reconciling
      <4> QED BY <2>1, <3>6, <4>1 DEF Holds
    <3> QED BY <1>0, <3>1, <3>3, <3>4, <3>8, <3>9 DEF Control, OneHolder
  <2> QED BY <2>2, <2>3
<1>5. CASE Releases(r)
  <2>1. pc[r] = "release" /\ op' = [op EXCEPT ![r] = "status"]
    BY <1>5 DEF Releases
  <2>2. \A s \in Requests : s # r => ~Holds(s) /\ op'[s] = op[s]
    BY <1>0, <2>1 DEF OneHolder, Holds, Locked, Types
  <2>3. op'[r] = "status" /\ "status" \in Operation /\ "status" \notin Tunnel
    BY <1>0, <2>1 DEF Types, Operation, Tunnel
  <2>4. CASE HandsOver
    <3> DEFINE h == Head(queue)
    <3>1. /\ pc' = [pc EXCEPT ![r] = "read", ![h] = First(h)]
          /\ queue' = Tail(queue) /\ UNCHANGED locked /\ queue # <<>>
      BY <1>5, <2>4 DEF Releases, Others, HandsOver
    <3>2. /\ h = queue[1] /\ 1 \in 1..Len(queue) /\ h \in Requests
          /\ queue' \in Seq(Requests) /\ Len(queue') = Len(queue) - 1
          /\ \A i \in 1..Len(queue') : queue'[i] = queue[i + 1] /\ i + 1 \in 1..Len(queue)
      BY <1>0, <3>1 DEF Types
    <3>3. pc[h] = "queued" /\ h # r /\ op[h] \in Exclusive
      BY <1>0, <2>1, <3>2 DEF Queued, Reached
    <3> HIDE DEF h
    <3>4. pc'[r] = "read" /\ pc'[h] = First(h) /\ \A s \in Requests \ {r, h} : pc'[s] = pc[s]
      BY <1>0, <3>1, <3>2, <3>3 DEF Types
    <3>5. Types'
      <4>1. pc' \in [Requests -> Step]
        BY <1>0, <1>3, <3>1, <3>2, <3>3 DEF Types, Step, Reconciling
      <4>2. op' \in [Requests -> Operation]
        BY <1>0, <2>1, <2>3 DEF Types
      <4> QED BY <1>0, <1>1, <3>1, <3>2, <4>1, <4>2 DEF Types
    <3>6. Reached'
      <4>1. ASSUME NEW s \in Requests, s \notin {r, h} PROVE pc'[s] = pc[s] /\ op'[s] = op[s]
        BY <2>2, <3>4, <4>1
      <4>2. pc'[r] = "read" /\ op'[r] = "status"
        BY <2>3, <3>4
      <4>3. pc'[h] = First(h) /\ op'[h] = op[h] /\ op[h] \in Exclusive
        BY <2>2, <3>2, <3>3, <3>4
      <4>4. "read" \notin Locked \cup Rotating \cup {"acquire", "queued", "admit"}
        BY DEF Locked, Rotating
      <4> QED BY <1>0, <1>3, <3>2, <4>1, <4>2, <4>3, <4>4 DEF Reached
    <3>7. Queued'
      <4>1. \A i \in 1..Len(queue') : queue'[i] # h /\ queue'[i] # r /\ queue'[i] \in Requests /\ pc[queue'[i]] = "queued"
        <5>1. ASSUME NEW i \in 1..Len(queue') PROVE queue'[i] = queue[i + 1] /\ i + 1 \in 1..Len(queue) /\ i + 1 # 1
          BY <3>2
        <5>2. ASSUME NEW i \in 1..Len(queue') PROVE queue'[i] \in Requests
          BY <3>2
        <5>3. ASSUME NEW i \in 1..Len(queue') PROVE queue'[i] # h /\ pc[queue'[i]] = "queued"
          BY <1>0, <3>2, <5>1 DEF Queued
        <5> QED BY <2>1, <5>2, <5>3
      <4>2. \A i \in 1..Len(queue') : pc'[queue'[i]] = "queued"
        BY <3>4, <4>1
      <4>3. \A i, j \in 1..Len(queue') : queue'[i] = queue'[j] => i = j
        <5>1. Len(queue) \in Nat
          BY <1>0 DEF Types
        <5> QED BY <1>0, <3>2, <5>1 DEF Queued
      <4> QED BY <4>2, <4>3 DEF Queued
    <3>8. locked /\ \A s \in Requests : Holds(s)' => s = h
      <4>1. ~Holds(r)'
        BY <2>3, <3>4 DEF Holds, Locked
      <4>2. \A s \in Requests : s \notin {r, h} => ~Holds(s)'
        BY <2>2, <3>4 DEF Holds
      <4>3. locked
        BY <1>0, <2>1 DEF OneHolder, Holds, Locked
      <4> QED BY <4>1, <4>2, <4>3
    <3> QED BY <3>1, <3>5, <3>6, <3>7, <3>8 DEF Control, OneHolder
  <2>5. CASE ~HandsOver
    <3>1. pc' = [pc EXCEPT ![r] = "read"] /\ locked' = FALSE /\ UNCHANGED queue
      BY <1>5, <2>5 DEF Releases, Goes
    <3>2. pc'[r] = "read" /\ \A s \in Requests : s # r => pc'[s] = pc[s]
      BY <1>0, <3>1 DEF Types
    <3>3. Types'
      BY <1>0, <1>1, <2>1, <2>3, <3>1 DEF Types, Step, Reconciling
    <3>4. Reached'
      <4>1. "read" \notin Locked \cup Rotating \cup {"acquire", "queued", "admit"}
        BY DEF Locked, Rotating
      <4> QED BY <1>0, <2>2, <2>3, <3>2, <4>1 DEF Reached
    <3>5. Queued'
      BY <1>0, <2>1, <3>1 DEF Types, Queued
    <3>6. \A s \in Requests : ~Holds(s)'
      <4>1. ~Holds(r)'
        BY <2>3, <3>2 DEF Holds, Locked
      <4>2. \A s \in Requests : s # r => ~Holds(s)'
        BY <2>2, <3>2 DEF Holds
      <4> QED BY <4>1, <4>2
    <3> QED BY <3>3, <3>4, <3>5, <3>6 DEF Control, OneHolder
  <2> QED BY <2>4, <2>5
<1> QED BY <1>4, <1>5

\* A tunnel dies, or the container restarts and the mutex with it.
LEMMA EnvironmentControl ==
  ASSUME Control, (\E t \in Tunnel : TunnelDies(t)) \/ Restarts \/ UNCHANGED vars PROVE Control'
<1> USE DEF network, settings, mutex, locals, history
<1>1. CASE Restarts
  <2>1. Types'
    <3>1. queue' \in Seq(Requests) /\ faults' \in Nat
      BY <1>1 DEF Restarts, Fails, Control, Types
    <3>2. op' \in [Requests -> Operation] /\ pc' \in [Requests -> Step]
      BY <1>1 DEF Restarts, Operation, Step
    <3> QED BY <1>1, <3>1, <3>2 DEF Restarts, Control, Types
  <2>2. Reached'
    BY <1>1 DEF Restarts, Reached, Locked, Reconciling, Rotating
  <2>3. Queued'
    BY <1>1 DEF Restarts, Queued
  <2>4. OneHolder'
    BY <1>1 DEF Restarts, OneHolder, Holds, Locked, Reconciling
  <2> QED BY <2>1, <2>2, <2>3, <2>4 DEF Control
<1>2. ASSUME tunnels' \subseteq tunnels, UNCHANGED <<bypass, locked, queue, op, pc, rejoined, faults>>
      PROVE  Control'
  <2>1. Types' /\ Reached' /\ Queued'
    BY <1>2 DEF Control, Types, Reached, Queued
  <2>2. \A s \in Requests : Holds(s)' <=> Holds(s)
    BY <1>2 DEF Holds
  <2> QED BY <1>2, <2>1, <2>2 DEF Control, OneHolder
<1> QED BY <1>1, <1>2 DEF TunnelDies, vars
-----------------------------------------------------------------------------
\* The mutex works: every step keeps one holder at most.
LEMMA NextControl == Control /\ [Next]_vars => Control'
BY RequestControl, ReconcilesControl, ConnectsControl, RotatesControl, LockControl,
   EnvironmentControl DEF Next, Handler
-----------------------------------------------------------------------------
(***************************************************************************)
(* What the request that has the lock knows of the tunnels.                *)
(***************************************************************************)
AtMostOne == \A t, u \in tunnels : t = u

\* A connection that is about to start its tunnel: none is up.
Alone(r) == pc[r] \in {"stop", "clean", "bypass", "mark", "start"} /\ op[r] \in Tunnel => tunnels = {}

\* Where the bypass routing is removed no tunnel is up; one that was started has it.
Covered(r) ==
  /\ pc[r] \in {"clean", "unroute"} => tunnels = {}
  /\ pc[r] \in {"mark", "start", "verify", "confirm"} => bypass
  /\ pc[r] \in {"verify", "confirm", "undo"} => tunnels \subseteq {op[r]}

Single == ~rejoined => AtMostOne /\ \A r \in Requests : Alone(r)
Reachable == ~rejoined /\ faults = 0 => ServicesReachable /\ \A r \in Requests : Covered(r)

VpnInv == Control /\ Single /\ Reachable

\* Steps about which Alone and Covered say nothing.
Quiet == {"profile", "decide", "off", "release", "fault"}

\* No tunnel is up.
LEMMA InitVpn == Init => VpnInv
<1> SUFFICES ASSUME Init PROVE VpnInv
  OBVIOUS
<1>1. Single
  BY DEF Init, Single, AtMostOne, Alone
<1>2. Reachable
  BY DEF Init, Reachable, ServicesReachable, Covered
<1> QED BY <1>1, <1>2, InitControl DEF VpnInv

\* Steps that start no tunnel and remove no bypass routing.
LEMMA Calm ==
  ASSUME VpnInv, tunnels' \subseteq tunnels, UNCHANGED <<bypass, rejoined>>, faults' = 0 => faults = 0,
         \A r \in Requests :
           \/ pc'[r] = pc[r] /\ op'[r] = op[r]
           \/ pc'[r] \notin Locked \/ pc'[r] \in Quiet
           \/ pc'[r] = "stop" /\ op'[r] = "disconnect"
  PROVE  Single' /\ Reachable'
<1>1. \A r \in Requests : Alone(r) => Alone(r)'
  BY DEF Alone, Quiet, Locked, Tunnel
<1>2. \A r \in Requests : Covered(r) => Covered(r)'
  BY DEF Covered, Quiet, Locked
<1>3. Single'
  BY <1>1 DEF VpnInv, Single, AtMostOne
<1>4. Reachable'
  BY <1>2 DEF VpnInv, Reachable, ServicesReachable
<1> QED BY <1>3, <1>4

\* A step of the request that has the lock: nobody else knows anything.
LEMMA HolderMoves ==
  ASSUME VpnInv, NEW r \in Requests, pc[r] \in Locked, NEW p \in Step, Goes(r, p), UNCHANGED <<op, rejoined>>,
         faults' = 0 => faults = 0,
         ~rejoined => AtMostOne',
         ~rejoined /\ p \in {"stop", "clean", "bypass", "mark", "start"} /\ op[r] \in Tunnel => tunnels' = {},
         ~rejoined /\ faults' = 0 =>
           /\ tunnels' # {} => bypass'
           /\ p \in {"clean", "unroute"} => tunnels' = {}
           /\ p \in {"mark", "start", "verify", "confirm"} => bypass'
           /\ p \in {"verify", "confirm", "undo"} => tunnels' \subseteq {op[r]}
  PROVE  Single' /\ Reachable'
<1>1. pc'[r] = p /\ \A s \in Requests : s # r => pc'[s] = pc[s] /\ pc[s] \notin Locked
  BY DEF Goes, VpnInv, Control, Types, OneHolder, Holds
<1>2. \A s \in Requests : ~rejoined => Alone(s)'
  BY <1>1 DEF Alone, Locked
<1>3. \A s \in Requests : ~rejoined /\ faults' = 0 => Covered(s)'
  BY <1>1 DEF Covered, Locked
<1>4. Single'
  BY <1>2 DEF Single
<1>5. Reachable'
  BY <1>3 DEF Reachable, ServicesReachable
<1> QED BY <1>4, <1>5
-----------------------------------------------------------------------------
\* The steps of a connection and of a disconnect.
LEMMA ConnectsVpn ==
  ASSUME VpnInv, NEW r \in Requests, Connects(r) PROVE Single' /\ Reachable'
<1> USE DEF network, settings, mutex, locals, history
<1>0. Types /\ Reached /\ Single /\ Reachable
  BY DEF VpnInv, Control
<1>1. ~rejoined => AtMostOne /\ Alone(r)
  BY <1>0 DEF Single
<1>2. ~rejoined /\ faults = 0 => Covered(r) /\ (tunnels # {} => bypass)
  BY <1>0 DEF Reachable, ServicesReachable
<1>3. \A f : Fails(f) => faults' # 0
  BY <1>0 DEF Fails, Types
<1>4. pc[r] \in Locked \ {"stop", "clean", "off", "release"} => op[r] \in Tunnel
  BY <1>0 DEF Reached
<1>5. \A p \in Locked \cup {"read"} : p \in Step
  BY DEF Step, Reconciling
<1>6. CASE FindsProfile(r)
  <2>1. CASE Goes(r, "read") /\ UNCHANGED faults
    <3>1. \A s \in Requests : (pc'[s] = pc[s] /\ op'[s] = op[s]) \/ pc'[s] = "read"
      BY <1>0, <1>6, <2>1 DEF FindsProfile, Goes, Types
    <3> QED BY <1>6, <2>1, <3>1, Calm DEF FindsProfile, Locked
  <2>2. CASE Goes(r, "undo") /\ faults' # 0
    <3>1. UNCHANGED <<tunnels, bypass, op, rejoined>> /\ pc[r] \in Locked /\ "undo" \in Step
      BY <1>6 DEF FindsProfile, Locked, Step
    <3>2. ~rejoined => AtMostOne'
      BY <1>1, <3>1 DEF AtMostOne
    <3> QED BY <2>2, <3>1, <3>2, HolderMoves
  <2> QED BY <1>3, <1>6, <2>1, <2>2 DEF FindsProfile
<1>7. CASE Decides(r)
  <2>1. UNCHANGED <<tunnels, bypass, op, rejoined, faults>> /\ pc[r] \in Locked
    BY <1>7 DEF Decides, Locked
  <2>2. CASE Goes(r, "release")
    <3>1. \A s \in Requests : (pc'[s] = pc[s] /\ op'[s] = op[s]) \/ pc'[s] \in Quiet
      BY <1>0, <2>1, <2>2 DEF Goes, Types, Quiet
    <3> QED BY <2>1, <3>1, Calm
  <2>3. CASE Goes(r, "stop") /\ tunnels = {}
    BY <1>5, <2>1, <2>3, HolderMoves DEF Locked, AtMostOne
  <2> QED BY <1>7, <2>2, <2>3 DEF Decides, Conflict, AfterConflict
<1>8. CASE StopsAll(r)
  <2>1. /\ UNCHANGED <<bypass, op, rejoined>> /\ pc[r] = "stop" /\ Goes(r, "clean")
        /\ tunnels' \subseteq tunnels
        /\ (tunnels' = {} /\ UNCHANGED faults) \/ faults' # 0
    BY <1>3, <1>8 DEF StopsAll
  <2>2. ~rejoined => AtMostOne'
    BY <1>1, <2>1 DEF AtMostOne
  <2>3. ~rejoined /\ op[r] \in Tunnel => tunnels' = {}
    BY <1>1, <2>1 DEF Alone
  <2>4. "clean" \in Step /\ pc[r] \in Locked
    BY <2>1 DEF Step, Locked
  <2> QED BY <2>1, <2>2, <2>3, <2>4, HolderMoves
<1>9. CASE Cleans(r)
  <2>1. /\ UNCHANGED <<tunnels, op, rejoined, faults>> /\ pc[r] = "clean"
        /\ Goes(r, IF op[r] = "disconnect" THEN "off" ELSE "bypass")
    BY <1>9 DEF Cleans
  <2>2. ~rejoined => AtMostOne'
    BY <1>1, <2>1 DEF AtMostOne
  <2>3. ~rejoined /\ op[r] \in Tunnel => tunnels' = {}
    BY <1>1, <2>1 DEF Alone
  <2>4. ~rejoined /\ faults' = 0 => tunnels' = {}
    BY <1>2, <2>1 DEF Covered
  <2>5. "off" \in Step /\ "bypass" \in Step /\ pc[r] \in Locked
    BY <2>1 DEF Step, Locked
  <2>6. CASE op[r] = "disconnect"
    BY <2>1, <2>2, <2>3, <2>4, <2>5, <2>6, HolderMoves
  <2>7. CASE op[r] # "disconnect"
    BY <2>1, <2>2, <2>3, <2>4, <2>5, <2>7, HolderMoves
  <2> QED BY <2>6, <2>7
<1>10. CASE Bypasses(r)
  <2>1. UNCHANGED <<tunnels, op, rejoined>> /\ pc[r] = "bypass"
    BY <1>10 DEF Bypasses
  <2>2. \/ bypass' = TRUE /\ Goes(r, "mark") /\ UNCHANGED faults
        \/ Goes(r, "undo") /\ faults' # 0
    BY <1>3, <1>10 DEF Bypasses
  <2>3. ~rejoined => AtMostOne' /\ tunnels' = {}
    BY <1>1, <1>4, <2>1 DEF AtMostOne, Alone, Locked
  <2>4. "mark" \in Step /\ "undo" \in Step /\ pc[r] \in Locked
    BY <2>1 DEF Step, Locked
  <2>5. CASE bypass' = TRUE /\ Goes(r, "mark") /\ UNCHANGED faults
    BY <2>1, <2>3, <2>4, <2>5, HolderMoves
  <2>6. CASE Goes(r, "undo") /\ faults' # 0
    BY <2>1, <2>3, <2>4, <2>6, HolderMoves
  <2> QED BY <2>2, <2>5, <2>6
<1>11. CASE Marks(r)
  <2>1. UNCHANGED <<tunnels, bypass, op, rejoined, faults>> /\ pc[r] = "mark" /\ Goes(r, "start")
    BY <1>11 DEF Marks
  <2>2. ~rejoined => AtMostOne' /\ tunnels' = {}
    BY <1>1, <1>4, <2>1 DEF AtMostOne, Alone, Locked
  <2>3. ~rejoined /\ faults' = 0 => bypass'
    BY <1>2, <2>1 DEF Covered
  <2>4. "start" \in Step /\ pc[r] \in Locked
    BY <2>1 DEF Step, Locked
  <2> QED BY <2>1, <2>2, <2>3, <2>4, HolderMoves
<1>12. CASE Starts(r)
  <2>1. UNCHANGED <<bypass, op, rejoined, faults>> /\ pc[r] = "start" /\ op[r] \in Tunnel
    BY <1>4, <1>12 DEF Starts, Locked
  <2>2. ~rejoined => tunnels = {}
    BY <1>1, <2>1 DEF Alone
  <2>3. ~rejoined /\ faults' = 0 => bypass'
    BY <1>2, <2>1 DEF Covered
  <2>4. "verify" \in Step /\ "undo" \in Step /\ pc[r] \in Locked
    BY <2>1 DEF Step, Locked
  <2>5. CASE tunnels' = tunnels \cup {op[r]} /\ Goes(r, "verify")
    <3>1. ~rejoined => tunnels' = {op[r]}
      BY <2>2, <2>5
    <3>2. ~rejoined => AtMostOne'
      BY <3>1 DEF AtMostOne
    <3> QED BY <2>1, <2>3, <2>4, <2>5, <3>1, <3>2, HolderMoves
  <2>6. CASE UNCHANGED tunnels /\ Goes(r, "undo")
    <3>1. ~rejoined => AtMostOne' /\ tunnels' = {}
      BY <2>2, <2>6 DEF AtMostOne
    <3> QED BY <2>1, <2>4, <2>6, <3>1, HolderMoves
  <2> QED BY <1>12, <2>5, <2>6 DEF Starts
<1>13. CASE Verifies(r)
  <2>1. UNCHANGED <<tunnels, bypass, op, rejoined, faults>> /\ pc[r] = "verify"
    BY <1>13 DEF Verifies
  <2>2. ~rejoined => AtMostOne'
    BY <1>1, <2>1 DEF AtMostOne
  <2>3. ~rejoined /\ faults' = 0 => bypass' /\ tunnels' \subseteq {op[r]}
    BY <1>2, <2>1 DEF Covered
  <2>4. "confirm" \in Step /\ "undo" \in Step /\ pc[r] \in Locked
    BY <2>1 DEF Step, Locked
  <2>5. CASE Goes(r, "confirm")
    BY <2>1, <2>2, <2>3, <2>4, <2>5, HolderMoves
  <2>6. CASE Goes(r, "undo")
    BY <2>1, <2>2, <2>3, <2>4, <2>6, HolderMoves
  <2> QED BY <1>13, <2>5, <2>6 DEF Verifies
<1>14. CASE Undoes(r)
  <2>1. /\ UNCHANGED <<bypass, op, rejoined>> /\ pc[r] = "undo" /\ Goes(r, "unroute")
        /\ tunnels' \subseteq tunnels
        /\ (tunnels' = tunnels \ {op[r]} /\ UNCHANGED faults) \/ faults' # 0
    BY <1>3, <1>14 DEF Undoes
  <2>2. ~rejoined => AtMostOne'
    BY <1>1, <2>1 DEF AtMostOne
  <2>3. ~rejoined /\ faults' = 0 => tunnels' = {}
    BY <1>2, <2>1 DEF Covered
  <2>4. "unroute" \in Step /\ pc[r] \in Locked
    BY <2>1 DEF Step, Locked
  <2> QED BY <2>1, <2>2, <2>3, <2>4, HolderMoves
<1>15. CASE Unroutes(r)
  <2>1. UNCHANGED <<tunnels, op, rejoined, faults>> /\ pc[r] = "unroute" /\ Goes(r, "fault")
    BY <1>15 DEF Unroutes, AfterUnroute
  <2>2. ~rejoined => AtMostOne'
    BY <1>1, <2>1 DEF AtMostOne
  <2>3. ~rejoined /\ faults' = 0 => tunnels' = {}
    BY <1>2, <2>1 DEF Covered
  <2>4. "fault" \in Step /\ pc[r] \in Locked
    BY <2>1 DEF Step, Locked
  <2> QED BY <2>1, <2>2, <2>3, <2>4, HolderMoves
<1>16. CASE Confirms(r) \/ MarksError(r) \/ TurnsOff(r)
  <2>1. UNCHANGED <<tunnels, bypass, op, rejoined, faults>> /\ Goes(r, "release")
    BY <1>16 DEF Confirms, MarksError, TurnsOff
  <2>2. \A s \in Requests : (pc'[s] = pc[s] /\ op'[s] = op[s]) \/ pc'[s] \in Quiet
    BY <1>0, <2>1 DEF Goes, Types, Quiet
  <2> QED BY <2>1, <2>2, Calm
<1> QED BY <1>6, <1>7, <1>8, <1>9, <1>10, <1>11, <1>12, <1>13, <1>14, <1>15, <1>16 DEF Connects

\* Everything else starts no tunnel, except a rotation, and removes no bypass routing.
LEMMA OthersVpn ==
  ASSUME VpnInv, NEW r \in Requests,
         \/ \E o \in Operations \cup {"status"} : Asks(r, o)
         \/ Admits(r) \/ Acquires(r) \/ Releases(r) \/ Reconciles(r) \/ RotatesWarp(r)
  PROVE  Single' /\ Reachable'
<1> USE DEF network, settings, mutex, locals, history
<1>0. Types /\ Reached
  BY DEF VpnInv, Control
<1> DEFINE Stays(s) == pc'[s] = pc[s] /\ op'[s] = op[s]
           Unbound(s) == pc'[s] \notin Locked \/ pc'[s] \in Quiet \/ (pc'[s] = "stop" /\ op'[s] = "disconnect")
<1>1. ASSUME NEW p \in Step, Goes(r, p), UNCHANGED op, p \notin Locked \/ p \in Quiet
      PROVE  \A s \in Requests : Stays(s) \/ Unbound(s)
  BY <1>0, <1>1 DEF Goes, Types
<1>2. ASSUME NEW p \in Step, Finishes(r, p), p \notin Locked
      PROVE  \A s \in Requests : Stays(s) \/ Unbound(s)
  BY <1>0, <1>2 DEF Finishes, Goes, Types
<1>3. \A p \in {"idle", "admit", "acquire", "queued"} \cup Reconciling \cup Rotating : p \in Step /\ p \notin Locked
  BY DEF Step, Locked, Reconciling, Rotating
<1>4. "decide" \in Step /\ "decide" \in Quiet
  BY DEF Step, Locked, Quiet
<1>5. ASSUME tunnels' \subseteq tunnels, UNCHANGED <<bypass, rejoined>>, faults' = 0 => faults = 0,
             \A s \in Requests : Stays(s) \/ Unbound(s)
      PROVE  Single' /\ Reachable'
  BY <1>5, Calm
<1> HIDE DEF Stays, Unbound
<1>6. ASSUME NEW o \in Operations \cup {"status"}, Asks(r, o) PROVE Single' /\ Reachable'
  <2> DEFINE p == IF o = "status" THEN "read" ELSE "admit"
  <2>1. Goes(r, p) /\ op' = [op EXCEPT ![r] = o] /\ UNCHANGED <<tunnels, bypass, rejoined, faults>>
    BY <1>6 DEF Asks
  <2>2. p \notin Locked
    BY DEF Locked
  <2> HIDE DEF p
  <2>3. \A s \in Requests : Stays(s) \/ Unbound(s)
    BY <1>0, <2>1, <2>2 DEF Goes, Types, Stays, Unbound
  <2> QED BY <1>5, <2>1, <2>3
<1>7. CASE Admits(r)
  <2>1. UNCHANGED <<tunnels, bypass, rejoined, faults>>
    BY <1>7 DEF Admits
  <2>2. \/ Ends(r)
        \/ \E p \in {"read", "acquire"} : Goes(r, p) /\ UNCHANGED op
    BY <1>7 DEF Admits
  <2>3. \A s \in Requests : Stays(s) \/ Unbound(s)
    BY <1>1, <1>2, <1>3, <2>2 DEF Ends, Reconciling
  <2> QED BY <1>5, <2>1, <2>3
<1>8. CASE Acquires(r) \/ Releases(r)
  <2>1. UNCHANGED <<tunnels, bypass, rejoined, faults>>
    BY <1>8 DEF Acquires, Releases
  <2>2. \A s \in Requests : First(s) \notin Locked \/ First(s) \in Quiet \/ (First(s) = "stop" /\ op[s] = "disconnect")
    BY DEF First, Locked, Quiet
  <2>3. CASE Acquires(r)
    <3>1. (Goes(r, First(r)) \/ Goes(r, "queued")) /\ UNCHANGED op
      BY <2>3 DEF Acquires
    <3>2. \A s \in Requests : Stays(s) \/ Unbound(s)
      BY <1>0, <1>3, <2>2, <3>1 DEF Goes, Types, Stays, Unbound
    <3> QED BY <1>5, <2>1, <3>2
  <2>4. CASE Releases(r)
    <3>1. op' = [op EXCEPT ![r] = "status"] /\ pc[r] = "release"
      BY <2>4 DEF Releases
    <3>2. CASE HandsOver
      <4>1. pc' = [pc EXCEPT ![r] = "read", ![Head(queue)] = First(Head(queue))] /\ queue # <<>>
        BY <2>4, <3>2 DEF Releases, HandsOver
      <4>2. Head(queue) \in Requests /\ Head(queue) # r
        <5>1. Head(queue) = queue[1] /\ 1 \in 1..Len(queue) /\ queue[1] \in Requests
          BY <1>0, <4>1 DEF Types
        <5> QED BY <3>1, <5>1 DEF VpnInv, Control, Queued
      <4>3. "read" \notin Locked
        BY DEF Locked
      <4> HIDE DEF First
      <4>4. pc'[r] = "read" /\ pc'[Head(queue)] = First(Head(queue)) /\ op'[Head(queue)] = op[Head(queue)]
        BY <1>0, <3>1, <4>1, <4>2 DEF Types
      <4>5. \A s \in Requests \ {r, Head(queue)} : pc'[s] = pc[s] /\ op'[s] = op[s]
        BY <1>0, <3>1, <4>1, <4>2 DEF Types
      <4>6. \A s \in Requests : Stays(s) \/ Unbound(s)
        BY <2>2, <4>2, <4>3, <4>4, <4>5 DEF Stays, Unbound
      <4> QED BY <1>5, <2>1, <4>6
    <3>3. CASE ~HandsOver
      <4>1. Goes(r, "read") /\ "read" \notin Locked
        BY <2>4, <3>3 DEF Releases, Locked
      <4>2. \A s \in Requests : Stays(s) \/ Unbound(s)
        BY <1>0, <3>1, <4>1 DEF Goes, Types, Stays, Unbound
      <4> QED BY <1>5, <2>1, <4>2
    <3> QED BY <3>2, <3>3
  <2> QED BY <1>8, <2>3, <2>4
<1>9. CASE Reconciles(r)
  <2>1. UNCHANGED <<tunnels, bypass, rejoined, faults>>
    BY <1>9 DEF Reconciles, Reads, Probes, Writes, Rereads
  <2>2. \/ Ends(r)
        \/ \E p \in Reconciling \cup {"allow", "decide"} : Goes(r, p) /\ UNCHANGED op
    BY <1>9 DEF Reconciles, Reads, Probes, Writes, Rereads, Returns, Reconciling
  <2>3. \A s \in Requests : Stays(s) \/ Unbound(s)
    BY <1>1, <1>2, <1>3, <1>4, <2>2 DEF Ends, Rotating
  <2> QED BY <1>5, <2>1, <2>3
<1>10. CASE RotatesWarp(r)
  <2>1. UNCHANGED bypass
    BY <1>10 DEF RotatesWarp, Allows, Rotates, Drops, Registers, Rejoins, Announces
  <2>2. rejoined' = TRUE \/ (tunnels' \subseteq tunnels /\ UNCHANGED rejoined)
    BY <1>10 DEF RotatesWarp, Allows, Rotates, Drops, Registers, Rejoins, Announces
  <2>3. faults' = 0 => faults = 0
    BY <1>0, <1>10 DEF RotatesWarp, Allows, Rotates, Drops, Registers, Rejoins, Announces, Fails, Types
  <2>4. Ends(r) \/ Summarizes(r) \/ \E p \in Rotating : Goes(r, p) /\ UNCHANGED op
    BY <1>10 DEF RotatesWarp, Allows, Rotates, Drops, Registers, Rejoins, Announces, Rotating
  <2>5. \A s \in Requests : Stays(s) \/ Unbound(s)
    BY <1>1, <1>2, <1>3, <2>4 DEF Ends, Summarizes, Reconciling
  <2>6. CASE rejoined' = TRUE
    BY <2>6 DEF Single, Reachable
  <2>7. CASE tunnels' \subseteq tunnels /\ UNCHANGED rejoined
    BY <1>5, <2>1, <2>3, <2>5, <2>7
  <2> QED BY <2>2, <2>6, <2>7
<1> QED BY <1>6, <1>7, <1>8, <1>9, <1>10

\* What happens to the tunnels from outside takes them down.
LEMMA EnvironmentVpn ==
  ASSUME VpnInv, (\E t \in Tunnel : TunnelDies(t)) \/ Restarts \/ UNCHANGED vars
  PROVE  Single' /\ Reachable'
<1> USE DEF network, settings, mutex, locals, history
<1>1. CASE Restarts
  <2>1. tunnels' = {} /\ UNCHANGED rejoined /\ faults' # 0
    BY <1>1 DEF Restarts, Fails, VpnInv, Control, Types
  <2> QED BY <2>1 DEF Single, Reachable, AtMostOne, Alone
<1>2. CASE (\E t \in Tunnel : TunnelDies(t)) \/ UNCHANGED vars
  <2>1. tunnels' \subseteq tunnels /\ UNCHANGED <<bypass, rejoined, faults, pc, op>>
    BY <1>2 DEF TunnelDies, vars
  <2> QED BY <2>1, Calm
<1> QED BY <1>1, <1>2

\* Every step keeps what the holder of the lock knows.
LEMMA NextVpn == VpnInv /\ [Next]_vars => VpnInv'
<1> SUFFICES ASSUME VpnInv, [Next]_vars PROVE VpnInv'
  OBVIOUS
<1>1. Control'
  BY NextControl DEF VpnInv
<1>2. Single' /\ Reachable'
  BY ConnectsVpn, OthersVpn, EnvironmentVpn DEF Next, Handler
<1> QED BY <1>1, <1>2 DEF VpnInv

\* A set whose elements are equal has at most one.
LEMMA InvImpliesOneTunnel == VpnInv => OneTunnelUnlessRotated
<1> SUFFICES ASSUME VpnInv, ~rejoined PROVE Cardinality(tunnels) <= 1
  BY DEF OneTunnelUnlessRotated, OneTunnel
<1>1. AtMostOne
  BY DEF VpnInv, Single
<1>2. CASE tunnels = {}
  BY <1>2, FS_EmptySet
<1>3. ASSUME NEW t \in tunnels PROVE Cardinality(tunnels) <= 1
  <2>1. tunnels = {t}
    BY <1>1 DEF AtMostOne
  <2> QED BY <2>1, FS_Singleton
<1> QED BY <1>2, <1>3

\* "One-active-VPN enforcement": connecting never brings up a second tunnel (connectWireguard,
\* connectOpenvpn, connectVpnGateServer, connectWarp), whatever fails or restarts.
THEOREM OneTunnelAlways == Spec => []OneTunnelUnlessRotated
<1>1. Init => VpnInv
  BY InitVpn
<1>2. VpnInv /\ [Next]_vars => VpnInv'
  BY NextVpn
<1>3. VpnInv => OneTunnelUnlessRotated
  BY InvImpliesOneTunnel
<1> QED BY <1>1, <1>2, <1>3, PTL DEF Spec

\* While a tunnel is up the bypass routing is installed (prepareBypassRouting), as long as nothing
\* failed and WARP was not rotated.
THEOREM ReachableAlways == Spec => []ReachableUnlessFault
<1>1. Init => VpnInv
  BY InitVpn
<1>2. VpnInv /\ [Next]_vars => VpnInv'
  BY NextVpn
<1>3. VpnInv => ReachableUnlessFault
  BY DEF VpnInv, Reachable, ReachableUnlessFault
<1> QED BY <1>1, <1>2, <1>3, PTL DEF Spec
-----------------------------------------------------------------------------
(***************************************************************************)
(* The settings row, what requests have read, and the faults.              *)
(***************************************************************************)
Row == status \in VpnStatus /\ active \in VpnType
Memory ==
  /\ saw \in [Requests -> Saw]
  /\ found \in [Requests -> SUBSET Tunnel]
  /\ was \in [Requests -> BOOLEAN]
Counted == faults \in 0..MaxFaults

LEMMA NothingSaw == Nothing \in Saw
BY DEF Nothing, Saw, VpnStatus, VpnType

\* Only types of tunnels, or off, are stored.
LEMMA RowSteps == Types /\ Reached /\ Row /\ [Next]_vars => Row'
<1> SUFFICES ASSUME Types, Reached, Row, [Next]_vars PROVE Row'
  OBVIOUS
<1> USE DEF Row, VpnStatus, VpnType
<1>1. ASSUME UNCHANGED settings PROVE Row'
  BY <1>1 DEF settings
<1>2. ASSUME NEW r \in Requests, Marks(r) \/ MarksError(r) PROVE Row'
  BY <1>2 DEF Marks, MarksError, Reached, Locked
<1>3. ASSUME NEW r \in Requests, Writes(r) \/ Confirms(r) \/ TurnsOff(r) \/ Announces(r) PROVE Row'
  BY <1>3 DEF Writes, Confirms, TurnsOff, Announces, Tunnel
<1>4. ASSUME NEW r \in Requests,
             \/ Admits(r) \/ Acquires(r) \/ Releases(r) \/ Reads(r) \/ Probes(r) \/ Rereads(r)
             \/ FindsProfile(r) \/ Decides(r) \/ StopsAll(r) \/ Cleans(r) \/ Bypasses(r)
             \/ Starts(r) \/ Verifies(r) \/ Undoes(r) \/ Unroutes(r)
             \/ Allows(r) \/ Rotates(r) \/ Drops(r) \/ Registers(r) \/ Rejoins(r)
             \/ (\E o \in Operations : Asks(r, o))
      PROVE  UNCHANGED settings
  BY <1>4
  DEF Admits, Acquires, Releases, Reads, Probes, Rereads, FindsProfile, Decides, StopsAll, Cleans,
      Bypasses, Starts, Verifies, Undoes, Unroutes, Allows, Rotates, Drops, Registers, Rejoins, Asks
<1>5. (\E t \in Tunnel : TunnelDies(t)) \/ Restarts \/ UNCHANGED vars => UNCHANGED settings
  BY DEF TunnelDies, Restarts, vars, settings
<1> QED BY <1>1, <1>2, <1>3, <1>4, <1>5 DEF Next, Handler, Reconciles, Connects, RotatesWarp

LEMMA MemorySteps == Types /\ Row /\ Memory /\ [Next]_vars => Memory'
<1> SUFFICES ASSUME Types, Row, Memory, [Next]_vars PROVE Memory'
  OBVIOUS
<1>1. ASSUME UNCHANGED locals PROVE Memory'
  BY <1>1 DEF locals, Memory
<1>2. ASSUME NEW r \in Requests, Forgets(r), UNCHANGED was PROVE Memory'
  BY <1>2, NothingSaw DEF Forgets, Memory
<1>3. ASSUME NEW r \in Requests, NEW p, Finishes(r, p) PROVE Memory'
  BY <1>3, NothingSaw DEF Finishes, Forgets, Memory
<1>4. ASSUME NEW r \in Requests, Reads(r) PROVE Memory'
  BY <1>4 DEF Reads, Memory, Row, Saw
<1>5. ASSUME NEW r \in Requests, Probes(r) PROVE Memory'
  <2>1. CASE Mismatch(saw[r], tunnels)
    BY <1>5, <2>1 DEF Probes, Memory, Types
  <2>2. CASE ~Mismatch(saw[r], tunnels)
    <3>1. Returns(r)
      BY <1>5, <2>2 DEF Probes
    <3>2. Ends(r) \/ UNCHANGED locals
      BY <3>1 DEF Returns, locals
    <3> QED BY <1>1, <1>3, <3>2 DEF Ends
  <2> QED BY <2>1, <2>2
<1>6. ASSUME NEW r \in Requests, Rereads(r) PROVE Memory'
  <2>1. CASE op[r] = "status"
    BY <1>3, <1>6, <2>1 DEF Rereads, Ends
  <2>2. CASE op[r] # "status"
    BY <1>6, <2>2 DEF Rereads, Memory, Row, Saw
  <2> QED BY <2>1, <2>2
<1>7. ASSUME NEW r \in Requests, Writes(r) \/ Decides(r) PROVE Memory'
  BY <1>2, <1>7 DEF Writes, Decides
<1>8. ASSUME NEW r \in Requests,
             Admits(r) \/ Allows(r) \/ Registers(r) \/ Rejoins(r) \/ Announces(r)
      PROVE  Memory'
  BY <1>1, <1>2, <1>3, <1>8
  DEF Admits, Allows, Registers, Rejoins, Announces, Ends, Summarizes, locals
<1>9. ASSUME NEW r \in Requests, Rotates(r) PROVE Memory'
  <2>1. Summarizes(r) \/ (was' = [was EXCEPT ![r] = "warp" \in tunnels] /\ UNCHANGED <<saw, found>>)
    BY <1>9 DEF Rotates
  <2>2. ("warp" \in tunnels) \in BOOLEAN
    OBVIOUS
  <2> QED BY <1>3, <2>1, <2>2 DEF Summarizes, Memory
<1>10. ASSUME NEW r \in Requests,
              \/ Acquires(r) \/ Releases(r)
              \/ FindsProfile(r) \/ StopsAll(r) \/ Cleans(r) \/ Bypasses(r) \/ Marks(r)
              \/ Starts(r) \/ Verifies(r) \/ Confirms(r) \/ Undoes(r) \/ Unroutes(r)
              \/ MarksError(r) \/ TurnsOff(r) \/ Drops(r) \/ (\E o \in Operations : Asks(r, o))
       PROVE  UNCHANGED locals
  BY <1>10
  DEF Acquires, Releases, FindsProfile, StopsAll, Cleans, Bypasses, Marks, Starts, Verifies,
      Confirms, Undoes, Unroutes, MarksError, TurnsOff, Drops, Asks
<1>11. CASE Restarts
  BY <1>11, NothingSaw DEF Restarts, Memory
<1>12. (\E t \in Tunnel : TunnelDies(t)) \/ UNCHANGED vars => UNCHANGED locals
  BY DEF TunnelDies, vars
<1> QED
  BY <1>1, <1>4, <1>5, <1>6, <1>7, <1>8, <1>9, <1>10, <1>11, <1>12
  DEF Next, Handler, Reconciles, Connects, RotatesWarp

LEMMA CountedSteps == Counted /\ [Next]_vars => Counted'
<1> SUFFICES ASSUME Counted, [Next]_vars PROVE Counted'
  OBVIOUS
<1>1. \A f : Fails(f) => faults' \in 0..MaxFaults
  BY VpnAssumption DEF Fails, Counted
<1>2. faults' = faults \/ \E f : Fails(f)
  BY DEF Next, Handler, Reconciles, Connects, RotatesWarp, history, vars, Admits, Acquires, Releases,
         Reads, Probes, Writes, Rereads, FindsProfile, Decides, StopsAll, Cleans, Bypasses, Marks,
         Starts, Verifies, Confirms, Undoes, Unroutes, MarksError, TurnsOff, Allows, Rotates, Drops,
         Registers, Rejoins, Announces, Asks, TunnelDies, Restarts
<1> QED BY <1>1, <1>2 DEF Counted

\* The settings row holds a status and a type of the code, also after a failure, the queue of the
\* mutex only requests that wait for it, each where acquireLock has left it.
THEOREM VpnTyped == Spec => []TypeOK
<1> DEFINE Inv == Control /\ Row /\ Memory /\ Counted
<1>1. Init => Inv
  <2> SUFFICES ASSUME Init PROVE Inv
    OBVIOUS
  <2>1. Row /\ Memory
    BY NothingSaw DEF Init, Row, Memory, VpnStatus, VpnType
  <2>2. Counted
    BY VpnAssumption DEF Init, Counted
  <2> QED BY <2>1, <2>2, InitControl
<1>2. Inv /\ [Next]_vars => Inv'
  BY NextControl, RowSteps, MemorySteps, CountedSteps DEF Control
<1>3. Inv => TypeOK
  BY DEF Control, Types, Queued, Row, Memory, Counted, TypeOK, Operation
<1> QED BY <1>1, <1>2, <1>3, PTL DEF Spec
-----------------------------------------------------------------------------
(***************************************************************************)
(* Those who wait for the lock.                                            *)
(***************************************************************************)
\* Everything but the mutex itself leaves the lock with the one who has it, and queues nobody.
LEMMA LockQuiet ==
  ASSUME Control, NEW r \in Requests,
         \/ \E o \in Operations \cup {"status"} : Asks(r, o)
         \/ Admits(r) \/ Reconciles(r) \/ Connects(r) \/ RotatesWarp(r)
  PROVE  /\ UNCHANGED mutex
         /\ \A s \in Requests : Holds(s)' <=> Holds(s)
         /\ \A s \in Requests : pc'[s] = "queued" => pc[s] = "queued"
<1> USE DEF network, settings, mutex, locals, history
<1>0. Types /\ Reached
  BY DEF Control
\* What a step does to the request that takes it, its place and its operation say.
<1>1. ASSUME NEW p, NEW o, pc' = [pc EXCEPT ![r] = p], op' = [op EXCEPT ![r] = o],
             UNCHANGED mutex, p # "queued", pc[r] # "queued",
             (p \in Locked \/ (p \in Reconciling /\ o \in Tunnel)) <=> Holds(r)
      PROVE  /\ UNCHANGED mutex
             /\ \A s \in Requests : Holds(s)' <=> Holds(s)
             /\ \A s \in Requests : pc'[s] = "queued" => pc[s] = "queued"
  <2>1. pc'[r] = p /\ op'[r] = o
    BY <1>0, <1>1 DEF Types
  <2>2. \A s \in Requests \ {r} : pc'[s] = pc[s] /\ op'[s] = op[s]
    BY <1>0, <1>1 DEF Types
  <2>3. Holds(r)' <=> Holds(r)
    BY <1>1, <2>1 DEF Holds
  <2>4. \A s \in Requests \ {r} : Holds(s)' <=> Holds(s)
    BY <2>2 DEF Holds
  <2> QED BY <1>1, <2>1, <2>2, <2>3, <2>4
<1>2. ASSUME NEW p, Goes(r, p), UNCHANGED <<op, mutex>>, p # "queued", pc[r] # "queued",
             (p \in Locked \/ (p \in Reconciling /\ op[r] \in Tunnel)) <=> Holds(r)
      PROVE  /\ UNCHANGED mutex
             /\ \A s \in Requests : Holds(s)' <=> Holds(s)
             /\ \A s \in Requests : pc'[s] = "queued" => pc[s] = "queued"
  <2>1. pc' = [pc EXCEPT ![r] = p] /\ op' = [op EXCEPT ![r] = op[r]]
    BY <1>0, <1>2 DEF Goes, Types
  <2> QED BY <1>1, <1>2, <2>1
<1>3. ASSUME NEW p \in {"idle", "read"}, Finishes(r, p), UNCHANGED mutex, pc[r] # "queued", ~Holds(r)
      PROVE  /\ UNCHANGED mutex
             /\ \A s \in Requests : Holds(s)' <=> Holds(s)
             /\ \A s \in Requests : pc'[s] = "queued" => pc[s] = "queued"
  <2>1. pc' = [pc EXCEPT ![r] = p] /\ op' = [op EXCEPT ![r] = "status"]
    BY <1>3 DEF Finishes, Goes
  <2>2. p \notin Locked /\ "status" \notin Tunnel /\ p # "queued"
    BY DEF Locked, Tunnel
  <2> QED BY <1>1, <1>3, <2>1, <2>2
<1>4. ASSUME NEW o \in Operations \cup {"status"}, Asks(r, o)
      PROVE  /\ UNCHANGED mutex
             /\ \A s \in Requests : Holds(s)' <=> Holds(s)
             /\ \A s \in Requests : pc'[s] = "queued" => pc[s] = "queued"
  <2> DEFINE p == IF o = "status" THEN "read" ELSE "admit"
  <2>1. /\ pc' = [pc EXCEPT ![r] = p] /\ op' = [op EXCEPT ![r] = o] /\ pc[r] = "idle"
        /\ UNCHANGED mutex
    BY <1>4 DEF Asks, Goes
  <2>2. ~Holds(r) /\ p # "queued" /\ p \notin Locked /\ (p \in Reconciling => o \notin Tunnel)
    BY <2>1 DEF Holds, Locked, Reconciling, Tunnel
  <2> QED BY <1>1, <2>1, <2>2
<1>5. CASE Admits(r)
  <2>1. pc[r] = "admit" /\ UNCHANGED mutex /\ ~Holds(r)
    BY <1>5 DEF Admits, Holds, Locked, Reconciling
  <2>2. CASE Ends(r)
    BY <1>3, <2>1, <2>2 DEF Ends
  <2>3. CASE ~Ends(r)
    <3>1. UNCHANGED op /\ (Goes(r, "acquire") \/ (Goes(r, "read") /\ op[r] = "rotate"))
      BY <1>5, <2>3 DEF Admits
    <3>2. "acquire" \notin Locked \cup Reconciling /\ "read" \notin Locked /\ "rotate" \notin Tunnel
      BY DEF Locked, Reconciling, Tunnel
    <3> QED BY <1>2, <2>1, <3>1, <3>2
  <2> QED BY <2>2, <2>3
<1>6. CASE Reconciles(r)
  <2>1. pc[r] \in Reconciling /\ pc[r] \notin Locked \cup {"queued"} /\ UNCHANGED mutex
    BY <1>6 DEF Reconciles, Reads, Probes, Writes, Rereads, Reconciling, Locked
  <2>2. Holds(r) <=> op[r] \in Tunnel
    BY <2>1 DEF Holds
  <2>3. \/ Ends(r) /\ op[r] = "status"
        \/ op[r] = "rotate" /\ Goes(r, "allow") /\ UNCHANGED op
        \/ op[r] \notin {"status", "rotate"} /\ Goes(r, "decide") /\ UNCHANGED op
        \/ \E p \in {"probe", "write", "again"} : Goes(r, p) /\ UNCHANGED op
    BY <1>6 DEF Reconciles, Reads, Probes, Writes, Rereads, Returns
  <2>4. CASE Ends(r) /\ op[r] = "status"
    <3>1. ~Holds(r)
      BY <2>2, <2>4 DEF Tunnel
    <3> QED BY <1>3, <2>1, <2>4, <3>1 DEF Ends
  <2>5. CASE op[r] = "rotate" /\ Goes(r, "allow") /\ UNCHANGED op
    BY <1>2, <2>1, <2>2, <2>5 DEF Tunnel, Locked, Reconciling
  <2>6. CASE op[r] \notin {"status", "rotate"} /\ Goes(r, "decide") /\ UNCHANGED op
    <3>1. op[r] \in Tunnel
      BY <1>0, <2>1, <2>6 DEF Types, Operation, Reached
    <3>2. "decide" \in Locked
      BY DEF Locked
    <3> QED BY <1>2, <2>1, <2>2, <2>6, <3>1, <3>2
  <2>7. ASSUME NEW p \in {"probe", "write", "again"}, Goes(r, p), UNCHANGED op
        PROVE  /\ UNCHANGED mutex
               /\ \A s \in Requests : Holds(s)' <=> Holds(s)
               /\ \A s \in Requests : pc'[s] = "queued" => pc[s] = "queued"
    <3>1. p \in Reconciling /\ p \notin Locked /\ p # "queued"
      BY DEF Reconciling, Locked
    <3> QED BY <1>2, <2>1, <2>2, <2>7, <3>1
  <2> QED BY <2>3, <2>4, <2>5, <2>6, <2>7
<1>7. CASE Connects(r)
  <2>1. pc[r] \in Locked /\ UNCHANGED <<op, mutex>>
    BY <1>7
    DEF Connects, FindsProfile, Decides, StopsAll, Cleans, Bypasses, Marks, Starts, Verifies,
        Confirms, Undoes, Unroutes, MarksError, TurnsOff, Locked
  <2>2. \E p \in Locked \cup {"read"} : Goes(r, p) /\ (p = "read" => pc[r] = "profile")
    BY <1>7
    DEF Connects, FindsProfile, Decides, StopsAll, Cleans, Bypasses, Marks, Starts, Verifies,
        Confirms, Undoes, Unroutes, MarksError, TurnsOff, Locked, AfterConflict, AfterUnroute
  <2>3. PICK p \in Locked \cup {"read"} : Goes(r, p) /\ (p = "read" => pc[r] = "profile")
    BY <2>2
  <2>4. p = "read" => op[r] \in Tunnel
    BY <1>0, <2>3 DEF Reached, Locked
  <2>5. Holds(r) /\ pc[r] # "queued" /\ p # "queued" /\ "read" \in Reconciling
    BY <2>1 DEF Holds, Locked, Reconciling
  <2> QED BY <1>2, <2>1, <2>3, <2>4, <2>5
<1>8. CASE RotatesWarp(r)
  <2>1. pc[r] \in Rotating /\ op[r] = "rotate" /\ UNCHANGED mutex
    BY <1>0, <1>8
    DEF RotatesWarp, Allows, Rotates, Drops, Registers, Rejoins, Announces, Rotating, Reached
  <2>2. ~Holds(r) /\ pc[r] # "queued"
    BY <2>1 DEF Holds, Rotating, Locked, Reconciling
  <2>3. Ends(r) \/ Summarizes(r) \/ \E p \in Rotating : Goes(r, p) /\ UNCHANGED op
    BY <1>8 DEF RotatesWarp, Allows, Rotates, Drops, Registers, Rejoins, Announces, Rotating
  <2>4. CASE Ends(r) \/ Summarizes(r)
    BY <1>3, <2>1, <2>2, <2>4 DEF Ends, Summarizes
  <2>5. ASSUME NEW p \in Rotating, Goes(r, p), UNCHANGED op
        PROVE  /\ UNCHANGED mutex
               /\ \A s \in Requests : Holds(s)' <=> Holds(s)
               /\ \A s \in Requests : pc'[s] = "queued" => pc[s] = "queued"
    <3>1. p \notin Locked \cup Reconciling \cup {"queued"}
      BY DEF Locked, Reconciling, Rotating
    <3> QED BY <1>2, <2>1, <2>2, <2>5, <3>1
  <2> QED BY <2>3, <2>4, <2>5
<1> QED BY <1>4, <1>5, <1>6, <1>7, <1>8

\* The operation that releases the lock has had it, and an operation that gets it has not.
LEMMA FirstHolds ==
  ASSUME Types, NEW r \in Requests, op[r] \in Exclusive
  PROVE  First(r) \in Locked \/ (First(r) = "read" /\ op[r] \in Tunnel)
BY DEF First, Exclusive, Locked, Tunnel

LEMMA AcquiresAccounted ==
  ASSUME Control, LockAccounted, NEW r \in Requests, Acquires(r)
  PROVE  /\ LockAccounted'
         /\ \A s \in Requests : ~Holds(s) /\ Holds(s)' => queue = <<>>
<1> USE DEF network, settings, mutex, locals, history
<1>0. Types /\ Reached /\ Queued /\ OneHolder
  BY DEF Control
<1>1. pc[r] = "acquire" /\ op[r] \in Exclusive /\ UNCHANGED op
  BY <1>0 DEF Acquires, Reached
<1>2. CASE Free
  <2>1. locked' = TRUE /\ pc' = [pc EXCEPT ![r] = First(r)] /\ UNCHANGED queue /\ ~locked
    BY <1>2 DEF Acquires, Goes, Free
  <2>2. queue = <<>>
    BY <2>1 DEF LockAccounted
  <2>3. pc'[r] = First(r) /\ \A s \in Requests \ {r} : pc'[s] = pc[s]
    BY <1>0, <2>1 DEF Types
  <2>4. "read" \in Reconciling
    BY DEF Reconciling
  <2>5. Holds(r)' /\ First(r) # "queued"
    BY <1>0, <1>1, <2>3, <2>4, FirstHolds DEF Holds, Locked
  <2>6. \A s \in Requests : pc'[s] = "queued" => pc[s] = "queued"
    BY <2>3, <2>5
  <2> QED BY <2>1, <2>2, <2>5, <2>6 DEF LockAccounted
<1>3. CASE ~Free
  <2>1. /\ pc' = [pc EXCEPT ![r] = "queued"] /\ queue' = Append(queue, r) /\ UNCHANGED locked
        /\ locked
    BY <1>3 DEF Acquires, Goes, Free
  <2>2. pc'[r] = "queued" /\ \A s \in Requests \ {r} : pc'[s] = pc[s]
    BY <1>0, <2>1 DEF Types
  <2>3. /\ Len(queue) \in Nat /\ DOMAIN queue = 1..Len(queue) /\ queue'[Len(queue) + 1] = r
        /\ DOMAIN queue' = 1..(Len(queue) + 1)
        /\ \A i \in DOMAIN queue : queue'[i] = queue[i] /\ i \in DOMAIN queue'
    BY <1>0, <2>1 DEF Types
  <2>4. Len(queue) + 1 \in DOMAIN queue'
    BY <2>3
  <2>5. \A s \in Requests : Holds(s)' <=> Holds(s)
    <3>1. ~Holds(r) /\ ~Holds(r)'
      BY <1>1, <2>2 DEF Holds, Locked, Reconciling
    <3> QED BY <1>1, <2>2, <3>1 DEF Holds
  <2>6. \A s \in Requests : pc'[s] = "queued" => \E i \in DOMAIN queue' : queue'[i] = s
    <3>1. ASSUME NEW s \in Requests \ {r}, pc'[s] = "queued" PROVE \E i \in DOMAIN queue' : queue'[i] = s
      <4>1. PICK i \in DOMAIN queue : queue[i] = s
        BY <2>2, <3>1 DEF LockAccounted
      <4> QED BY <2>3, <4>1
    <3> QED BY <2>3, <2>4, <3>1
  <2> QED BY <2>1, <2>5, <2>6 DEF LockAccounted
<1> QED BY <1>2, <1>3

LEMMA ReleasesAccounted ==
  ASSUME Control, LockAccounted, NEW r \in Requests, Releases(r)
  PROVE  /\ LockAccounted'
         /\ \A s \in Requests : ~Holds(s) /\ Holds(s)' => s = Head(queue)
<1> USE DEF network, settings, mutex, locals, history
<1>0. Types /\ Reached /\ Queued /\ OneHolder
  BY DEF Control
<1>1. pc[r] = "release" /\ op' = [op EXCEPT ![r] = "status"] /\ Holds(r) /\ locked
  BY <1>0 DEF Releases, Holds, Locked, OneHolder
<1>2. \A s \in Requests \ {r} : ~Holds(s) /\ op'[s] = op[s]
  BY <1>0, <1>1 DEF OneHolder, Types
<1>3. op'[r] = "status" /\ "status" \notin Tunnel /\ "read" \notin Locked /\ "read" \in Reconciling
  BY <1>0, <1>1 DEF Types, Tunnel, Locked, Reconciling
<1>4. CASE HandsOver
  <2>0. PICK h : h = Head(queue)
    OBVIOUS
  <2>1. /\ pc' = [pc EXCEPT ![r] = "read", ![h] = First(h)]
        /\ queue' = Tail(queue) /\ UNCHANGED locked /\ queue # <<>>
    BY <1>4, <2>0 DEF Releases, Others, HandsOver
  <2>2. /\ h = queue[1] /\ 1 \in 1..Len(queue) /\ h \in Requests /\ Len(queue) \in Nat
        /\ DOMAIN queue = 1..Len(queue) /\ DOMAIN queue' = 1..(Len(queue) - 1)
        /\ \A i \in DOMAIN queue' : queue'[i] = queue[i + 1]
    BY <1>0, <2>0, <2>1 DEF Types
  <2>3. pc[h] = "queued" /\ h # r /\ op[h] \in Exclusive
    BY <1>0, <1>1, <2>2 DEF Queued, Reached
  <2>4. First(h) \in Locked \/ (First(h) = "read" /\ op[h] \in Tunnel)
    BY <1>0, <2>2, <2>3, FirstHolds
  <2>5. pc'[r] = "read" /\ pc'[h] = First(h) /\ \A s \in Requests \ {r, h} : pc'[s] = pc[s]
    BY <1>0, <2>1, <2>2, <2>3 DEF Types
  <2>6. Holds(h)' /\ ~Holds(r)' /\ \A s \in Requests \ {r, h} : ~Holds(s)'
    <3>1. op'[h] = op[h]
      BY <1>2, <2>2, <2>3
    <3>2. Holds(h)'
      BY <1>3, <2>4, <2>5, <3>1 DEF Holds
    <3>3. ~Holds(r)'
      BY <1>3, <2>5 DEF Holds
    <3>4. \A s \in Requests \ {r, h} : ~Holds(s)'
      BY <1>2, <2>5 DEF Holds
    <3> QED BY <3>2, <3>3, <3>4
  <2>7. First(h) # "queued"
    BY <2>4 DEF Locked
  <2>8. \A s \in Requests : pc'[s] = "queued" => \E i \in DOMAIN queue' : queue'[i] = s
    <3> SUFFICES ASSUME NEW s \in Requests, pc'[s] = "queued" PROVE \E i \in DOMAIN queue' : queue'[i] = s
      OBVIOUS
    <3>1. s \notin {r, h} /\ pc[s] = "queued"
      BY <2>5, <2>7
    <3>2. PICK i \in 1..Len(queue) : queue[i] = s
      BY <2>2, <3>1 DEF LockAccounted
    <3>3. i # 1
      BY <2>2, <3>1, <3>2
    <3>4. i - 1 \in DOMAIN queue' /\ (i - 1) + 1 = i
      BY <2>2, <3>3
    <3> QED BY <2>2, <3>2, <3>4
  <2>9. \A s \in Requests : ~Holds(s) /\ Holds(s)' => s = h
    BY <2>6
  <2> QED BY <1>1, <2>0, <2>1, <2>2, <2>6, <2>8, <2>9 DEF LockAccounted
<1>5. CASE ~HandsOver
  <2>1. pc' = [pc EXCEPT ![r] = "read"] /\ locked' = FALSE /\ UNCHANGED queue /\ queue = <<>>
    BY <1>5 DEF Releases, Goes, HandsOver
  <2>2. pc'[r] = "read" /\ \A s \in Requests \ {r} : pc'[s] = pc[s]
    BY <1>0, <2>1 DEF Types
  <2>3. \A s \in Requests : ~Holds(s)'
    BY <1>2, <1>3, <2>2 DEF Holds
  <2>4. \A s \in Requests : pc'[s] # "queued"
    <3>1. \A s \in Requests : pc[s] # "queued"
      BY <2>1 DEF LockAccounted
    <3> QED BY <2>2, <3>1
  <2>5. LockAccounted'
    BY <2>1, <2>3, <2>4 DEF LockAccounted
  <2> QED BY <2>3, <2>5
<1> QED BY <1>4, <1>5

LEMMA LockSteps ==
  ASSUME Control, LockAccounted, [Next]_vars
  PROVE  /\ LockAccounted'
         /\ \A r \in Requests : ~Holds(r) /\ Holds(r)' => queue = <<>> \/ r = Head(queue)
<1>1. ASSUME UNCHANGED mutex, \A s \in Requests : Holds(s)' <=> Holds(s),
             \A s \in Requests : pc'[s] = "queued" => pc[s] = "queued"
      PROVE  /\ LockAccounted'
             /\ \A r \in Requests : ~Holds(r) /\ Holds(r)' => queue = <<>> \/ r = Head(queue)
  BY <1>1 DEF LockAccounted, mutex
<1>2. ASSUME NEW r \in Requests, Handler(r) \/ \E o \in Operations \cup {"status"} : Asks(r, o)
      PROVE  /\ LockAccounted'
             /\ \A s \in Requests : ~Holds(s) /\ Holds(s)' => queue = <<>> \/ s = Head(queue)
  <2>1. CASE Acquires(r)
    BY <2>1, AcquiresAccounted
  <2>2. CASE Releases(r)
    BY <2>2, ReleasesAccounted
  <2>3. CASE ~Acquires(r) /\ ~Releases(r)
    <3>1. \/ \E o \in Operations \cup {"status"} : Asks(r, o)
          \/ Admits(r) \/ Reconciles(r) \/ Connects(r) \/ RotatesWarp(r)
      BY <1>2, <2>3 DEF Handler
    <3>2. /\ UNCHANGED mutex
          /\ \A s \in Requests : Holds(s)' <=> Holds(s)
          /\ \A s \in Requests : pc'[s] = "queued" => pc[s] = "queued"
      BY <3>1, LockQuiet
    <3> QED BY <1>1, <3>2
  <2> QED BY <2>1, <2>2, <2>3
<1>3. CASE (\E t \in Tunnel : TunnelDies(t)) \/ UNCHANGED vars
  <2>1. UNCHANGED <<op, pc, mutex>>
    BY <1>3 DEF TunnelDies, vars
  <2>2. \A s \in Requests : Holds(s)' <=> Holds(s)
    BY <2>1 DEF Holds
  <2> QED BY <1>1, <2>1, <2>2
<1>4. CASE Restarts
  <2>1. /\ queue' = <<>> /\ ~locked'
        /\ \A s \in Requests : pc'[s] = "idle"
    BY <1>4 DEF Restarts
  <2>2. \A s \in Requests : ~Holds(s)'
    BY <2>1 DEF Holds, Locked, Reconciling
  <2> QED BY <2>1, <2>2 DEF LockAccounted
<1> QED BY <1>2, <1>3, <1>4 DEF Next

LEMMA LockAlways == Spec => [](Control /\ LockAccounted)
<1>1. Init => Control /\ LockAccounted
  <2>1. Init => LockAccounted
    BY DEF Init, LockAccounted, Holds, Locked, Reconciling
  <2> QED BY <2>1, InitControl
<1>2. Control /\ LockAccounted /\ [Next]_vars => (Control /\ LockAccounted)'
  BY LockSteps, NextControl
<1> QED BY <1>1, <1>2, PTL DEF Spec

\* The lock of an operation that failed, was refused or was restarted is not left behind, and
\* nobody who waits for it is forgotten (Mutex.acquire, Mutex.release).
THEOREM NobodyForgotten == Spec => []LockAccounted
<1> QED BY LockAlways, PTL

\* The lock is granted in the order in which it was asked for (Mutex.acquire, Mutex.release).
THEOREM NobodyOvertakes == Spec => InTurn
<1>1. Control /\ LockAccounted /\ [Next]_vars =>
        [\A r \in Requests : ~Holds(r) /\ Holds(r)' => queue = <<>> \/ r = Head(queue)]_vars
  BY LockSteps
<1> QED BY <1>1, LockAlways, PTL DEF Spec, InTurn
=============================================================================
