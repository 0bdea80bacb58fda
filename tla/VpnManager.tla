----------------------------- MODULE VpnManager -----------------------------
(***************************************************************************)
(* The VPN of the container (lib/services/vpn, app/api/vpn): requests of   *)
(* the administration UI that connect a tunnel, disconnect, ask for the    *)
(* status or rotate the WARP registration, the tunnels they start and      *)
(* stop, and the state stored in the settings row.                         *)
(*                                                                         *)
(* Connect and disconnect run under the promise mutex vpnLock.  A status   *)
(* request reconciles the stored state with the tunnels without it, and so *)
(* does a rotation everything it does.                                     *)
(*                                                                         *)
(* A step ends where the code awaits.  The three probes that               *)
(* getRuntimeTunnels runs at once are one step, and so are the three stops *)
(* of stopAllTunnels.                                                      *)
(*                                                                         *)
(* Definitions named Faulty... are wrong on purpose: each is what a slip   *)
(* in the code would make of the definition that follows it, and shows     *)
(* that a property notices.                                                *)
(***************************************************************************)
EXTENDS Naturals, Sequences, FiniteSets

CONSTANTS
  Requests,    \* requests under way at once
  Operations,  \* what the administrators ask for
  Faults,      \* "crash": the container restarts; "profile": a profile is missing or
               \* disabled; "stop": a tunnel does not stop; "route": ip fails
  MaxFaults    \* bound: faults

Tunnel == {"wireguard", "openvpn", "warp"}

ASSUME VpnAssumption ==
  /\ Operations \subseteq Tunnel \cup {"status", "disconnect", "rotate"}
  /\ Faults \subseteq {"crash", "profile", "stop", "route"}
  /\ MaxFaults \in Nat

VpnStatus == {"off", "connecting", "connected", "error"}
VpnType == Tunnel \cup {"off"}

\* The steps that run under vpnLock; "profile", "stop" or "read" is the first.
Locked == {"profile", "decide", "stop", "clean", "bypass", "mark", "start", "verify",
           "confirm", "undo", "unroute", "fault", "off", "release"}
Reconciling == {"read", "probe", "write", "again"}
Step == Locked \cup Reconciling \cup
        {"idle", "admit", "acquire", "queued", "allow", "rotate", "drop", "register",
         "rejoin", "announce"}

VARIABLES
  \* the network of the container
  tunnels,   \* the tunnels that are up
  bypass,    \* the routing table that keeps the services reachable is installed
  \* the settings row
  status,    \* vpn_status
  active,    \* active_vpn_type
  \* vpnLock
  locked, queue,
  \* the requests
  op, pc,
  saw,       \* current: the settings a request has read
  found,     \* runtime: the tunnels it has probed
  was,       \* wasConnected of a rotation
  \* bookkeeping
  rejoined,  \* history: a rotation has reconnected WARP
  faults     \* faults so far

network == <<tunnels, bypass>>
settings == <<status, active>>
mutex == <<locked, queue>>
locals == <<saw, found, was>>
history == <<rejoined, faults>>
vars == <<network, settings, mutex, op, pc, locals, history>>

Saw == [status : VpnStatus, active : VpnType]

TypeOK ==
  /\ tunnels \subseteq Tunnel
  /\ bypass \in BOOLEAN
  /\ status \in VpnStatus
  /\ active \in VpnType
  /\ locked \in BOOLEAN
  /\ queue \in Seq(Requests)
  /\ \A i \in 1..Len(queue) : pc[queue[i]] = "queued"
  /\ op \in [Requests -> Tunnel \cup {"status", "disconnect", "rotate"}]
  /\ pc \in [Requests -> Step]
  /\ saw \in [Requests -> Saw]
  /\ found \in [Requests -> SUBSET Tunnel]
  /\ was \in [Requests -> BOOLEAN]
  /\ rejoined \in BOOLEAN
  /\ faults \in 0..MaxFaults

Nothing == [status |-> "off", active |-> "off"]

Init ==
  /\ tunnels = {}
  /\ bypass = FALSE
  /\ status = "off"
  /\ active = "off"
  /\ locked = FALSE
  /\ queue = <<>>
  /\ op = [r \in Requests |-> "status"]
  /\ pc = [r \in Requests |-> "idle"]
  /\ saw = [r \in Requests |-> Nothing]
  /\ found = [r \in Requests |-> {}]
  /\ was = [r \in Requests |-> FALSE]
  /\ rejoined = FALSE
  /\ faults = 0

Goes(r, p) == pc' = [pc EXCEPT ![r] = p]
Fails(f) == f \in Faults /\ faults < MaxFaults /\ faults' = faults + 1

\* What reconcileRuntimeState knew is used up.
Forgets(r) ==
  /\ saw' = [saw EXCEPT ![r] = Nothing]
  /\ found' = [found EXCEPT ![r] = {}]

\* The operation of r is over, and the request goes on at p.
Finishes(r, p) ==
  /\ Goes(r, p)
  /\ op' = [op EXCEPT ![r] = "status"]
  /\ Forgets(r)
  /\ was' = [was EXCEPT ![r] = FALSE]

\* The response is sent.
Ends(r) == Finishes(r, "idle")

\* The response carries the status: getVpnStatusSummary comes last.
Summarizes(r) == Finishes(r, "read")
-----------------------------------------------------------------------------
(***************************************************************************)
(* Requests and the mutex.                                                 *)
(***************************************************************************)
Asks(r, o) ==
  /\ pc[r] = "idle"
  /\ op' = [op EXCEPT ![r] = o]
  /\ Goes(r, IF o = "status" THEN "read" ELSE "admit")
  /\ UNCHANGED <<network, settings, mutex, locals, history>>

\* isOperationInProgress: answered with 409 while the lock is held.
Admits(r) ==
  /\ pc[r] = "admit"
  /\ IF locked
     THEN Ends(r)
     ELSE /\ Goes(r, IF op[r] = "rotate" THEN "read" ELSE "acquire")
          /\ UNCHANGED <<op, locals>>
  /\ UNCHANGED <<network, settings, mutex, history>>

\* What an operation does first with the lock.
First(r) ==
  CASE op[r] = "disconnect" -> "stop"
    [] op[r] = "warp"       -> "read"
    [] OTHER                -> "profile"

FaultyFree == TRUE
Free == ~locked

Acquires(r) ==
  /\ pc[r] = "acquire"
  /\ IF Free
     THEN /\ locked' = TRUE
          /\ Goes(r, First(r))
          /\ UNCHANGED queue
     ELSE /\ queue' = Append(queue, r)
          /\ Goes(r, "queued")
          /\ UNCHANGED locked
  /\ UNCHANGED <<network, settings, op, locals, history>>

FaultyHandsOver == FALSE
HandsOver == queue # <<>>

FaultyOthers == queue
Others == Tail(queue)

\* The lock goes to the request that waits longest, or is free.
Releases(r) ==
  /\ pc[r] = "release"
  /\ op' = [op EXCEPT ![r] = "status"]
  /\ IF HandsOver
     THEN /\ pc' = [pc EXCEPT ![r] = "read", ![Head(queue)] = First(Head(queue))]
          /\ queue' = Others
          /\ UNCHANGED locked
     ELSE /\ Goes(r, "read")
          /\ locked' = FALSE
          /\ UNCHANGED queue
  /\ UNCHANGED <<network, settings, locals, history>>
-----------------------------------------------------------------------------
(***************************************************************************)
(* reconcileRuntimeState: part of a status request, of a connect that has  *)
(* the lock, and of a rotation that has not.                               *)
(***************************************************************************)
Returns(r) ==
  CASE op[r] = "status" -> Ends(r)
    [] op[r] = "rotate" -> Goes(r, "allow") /\ UNCHANGED <<op, saw, found, was>>
    [] OTHER            -> Goes(r, "decide") /\ UNCHANGED <<op, saw, found, was>>

Reads(r) ==
  /\ pc[r] = "read"
  /\ saw' = [saw EXCEPT ![r] = [status |-> status, active |-> active]]
  /\ Goes(r, "probe")
  /\ UNCHANGED <<network, settings, mutex, op, found, was, history>>

FaultyMismatch(s, runtime) ==
  \/ Cardinality(runtime) > 1
  \/ \E t \in runtime : s.status # "connected" \/ s.active # t

\* The stored state needs a correction.
Mismatch(s, runtime) ==
  \/ Cardinality(runtime) > 1
  \/ runtime = {} /\ s.status = "connected"
  \/ \E t \in runtime : s.status # "connected" \/ s.active # t

Probes(r) ==
  /\ pc[r] = "probe"
  /\ IF Mismatch(saw[r], tunnels)
     THEN /\ found' = [found EXCEPT ![r] = tunnels]
          /\ Goes(r, "write")
          /\ UNCHANGED <<op, saw, was>>
     ELSE Returns(r)
  /\ UNCHANGED <<network, settings, mutex, history>>

\* The correction is written, for a tunnel after its egress was probed.
Writes(r) ==
  /\ pc[r] = "write"
  /\ \/ /\ Cardinality(found[r]) # 1
        /\ status' = "error"
        /\ UNCHANGED active
     \/ \E t \in Tunnel :
          /\ found[r] = {t}
          /\ status' = "connected"
          /\ active' = t
  /\ Goes(r, "again")
  /\ Forgets(r)
  /\ UNCHANGED <<network, mutex, op, was, history>>

\* The settings are read again and returned.
Rereads(r) ==
  /\ pc[r] = "again"
  /\ IF op[r] = "status"
     THEN Ends(r)
     ELSE /\ saw' = [saw EXCEPT ![r] = [status |-> status, active |-> active]]
          /\ Goes(r, IF op[r] = "rotate" THEN "allow" ELSE "decide")
          /\ UNCHANGED <<op, found, was>>
  /\ UNCHANGED <<network, settings, mutex, history>>
-----------------------------------------------------------------------------
(***************************************************************************)
(* Connecting a tunnel.                                                    *)
(***************************************************************************)
\* The profile is looked up before anything else.  A missing or disabled one
\* takes the path of a failed connection.
FindsProfile(r) ==
  /\ pc[r] = "profile"
  /\ \/ Goes(r, "read") /\ UNCHANGED faults
     \/ Fails("profile") /\ Goes(r, "undo")
  /\ UNCHANGED <<network, settings, mutex, op, locals, rejoined>>

\* assertCanStartConnection, with a second look at the tunnels.
Conflict(r) == saw[r].status \in {"connecting", "connected"} \/ tunnels # {}

FaultyAfterConflict == "unroute"

\* A conflict is answered without any cleanup.
AfterConflict == "release"

Decides(r) ==
  /\ pc[r] = "decide"
  /\ Goes(r, IF Conflict(r) THEN AfterConflict ELSE "stop")
  /\ Forgets(r)
  /\ UNCHANGED <<network, settings, mutex, op, was, history>>

\* stopAllTunnels: the results of the three stops are ignored.
StopsAll(r) ==
  /\ pc[r] = "stop"
  /\ \/ tunnels' = {} /\ UNCHANGED faults
     \/ Fails("stop") /\ tunnels' \in SUBSET tunnels
  /\ Goes(r, "clean")
  /\ UNCHANGED <<bypass, settings, mutex, op, locals, rejoined>>

\* cleanupBypassRouting.
Cleans(r) ==
  /\ pc[r] = "clean"
  /\ bypass' = FALSE
  /\ Goes(r, IF op[r] = "disconnect" THEN "off" ELSE "bypass")
  /\ UNCHANGED <<tunnels, settings, mutex, op, locals, history>>

\* prepareBypassRouting.
Bypasses(r) ==
  /\ pc[r] = "bypass"
  /\ \/ bypass' = TRUE /\ Goes(r, "mark") /\ UNCHANGED faults
     \/ Fails("route") /\ Goes(r, "undo") /\ UNCHANGED bypass
  /\ UNCHANGED <<tunnels, settings, mutex, op, locals, rejoined>>

Marks(r) ==
  /\ pc[r] = "mark"
  /\ status' = "connecting"
  /\ active' = op[r]
  /\ Goes(r, "start")
  /\ UNCHANGED <<network, mutex, op, locals, history>>

\* startConnection, or WarpService.connect.
Starts(r) ==
  /\ pc[r] = "start"
  /\ \/ tunnels' = tunnels \cup {op[r]} /\ Goes(r, "verify")
     \/ UNCHANGED tunnels /\ Goes(r, "undo")
  /\ UNCHANGED <<bypass, settings, mutex, op, locals, history>>

\* The tunnel must still be up and the outside reachable through it.
Verifies(r) ==
  /\ pc[r] = "verify"
  /\ \/ op[r] \in tunnels /\ Goes(r, "confirm")
     \/ Goes(r, "undo")
  /\ UNCHANGED <<network, settings, mutex, op, locals, history>>

\* Only the status is written here, not the type.
Confirms(r) ==
  /\ pc[r] = "confirm"
  /\ status' = "connected"
  /\ Goes(r, "release")
  /\ UNCHANGED <<network, active, mutex, op, locals, history>>

\* The catch block: the tunnel of the request's kind is stopped, whoever
\* started it,
Undoes(r) ==
  /\ pc[r] = "undo"
  /\ \/ tunnels' = tunnels \ {op[r]} /\ UNCHANGED faults
     \/ Fails("stop") /\ UNCHANGED tunnels
  /\ Goes(r, "unroute")
  /\ UNCHANGED <<bypass, settings, mutex, op, locals, rejoined>>

AfterUnroute == "fault"

\* the bypass routing is removed,
Unroutes(r) ==
  /\ pc[r] = "unroute"
  /\ bypass' = FALSE
  /\ Goes(r, AfterUnroute)
  /\ UNCHANGED <<tunnels, settings, mutex, op, locals, history>>

\* and markError.
MarksError(r) ==
  /\ pc[r] = "fault"
  /\ status' = "error"
  /\ active' = op[r]
  /\ Goes(r, "release")
  /\ UNCHANGED <<network, mutex, op, locals, history>>

\* The end of disconnect.
TurnsOff(r) ==
  /\ pc[r] = "off"
  /\ status' = "off"
  /\ active' = "off"
  /\ Goes(r, "release")
  /\ UNCHANGED <<network, mutex, op, locals, history>>
-----------------------------------------------------------------------------
(***************************************************************************)
(* Rotating the WARP registration.                                         *)
(***************************************************************************)
\* Refused, while another tunnel is stored or about to be (409), or because WARP
\* is not registered.
Allows(r) ==
  /\ pc[r] = "allow"
  /\ \/ Ends(r)
     \/ /\ saw[r].status # "connecting"
        /\ saw[r].status = "connected" => saw[r].active = "warp"
        /\ Goes(r, "rotate")
        /\ Forgets(r)
        /\ UNCHANGED <<op, was>>
  /\ UNCHANGED <<network, settings, mutex, history>>

\* rotate: is WARP connected?  It throws when warp-svc is not available.
Rotates(r) ==
  /\ pc[r] = "rotate"
  /\ \/ /\ was' = [was EXCEPT ![r] = "warp" \in tunnels]
        /\ Goes(r, IF "warp" \in tunnels THEN "drop" ELSE "register")
        /\ UNCHANGED <<op, saw, found>>
     \/ Summarizes(r)
  /\ UNCHANGED <<network, settings, mutex, history>>

Drops(r) ==
  /\ pc[r] = "drop"
  /\ \/ tunnels' = tunnels \ {"warp"} /\ UNCHANGED faults
     \/ Fails("stop") /\ UNCHANGED tunnels
  /\ Goes(r, "register")
  /\ UNCHANGED <<bypass, settings, mutex, op, locals, rejoined>>

\* The old registration is deleted and a new one made, or rotate throws.
Registers(r) ==
  /\ pc[r] = "register"
  /\ \/ was[r] /\ Goes(r, "rejoin") /\ UNCHANGED <<op, locals>>
     \/ ~was[r] /\ Ends(r)
     \/ Summarizes(r)
  /\ UNCHANGED <<network, settings, mutex, history>>

\* WARP is connected again; or rotate throws, and WARP may still come up.
Rejoins(r) ==
  /\ pc[r] = "rejoin"
  /\ \/ /\ Goes(r, "announce") /\ UNCHANGED <<op, locals>>
        /\ tunnels' = tunnels \cup {"warp"} /\ rejoined' = TRUE
     \/ /\ Summarizes(r)
        /\ \/ tunnels' = tunnels \cup {"warp"} /\ rejoined' = TRUE
           \/ UNCHANGED <<tunnels, rejoined>>
  /\ UNCHANGED <<bypass, settings, mutex, faults>>

\* The route handler writes the state.
Announces(r) ==
  /\ pc[r] = "announce"
  /\ status' = "connected"
  /\ active' = "warp"
  /\ Summarizes(r)
  /\ UNCHANGED <<network, mutex, history>>
-----------------------------------------------------------------------------
(***************************************************************************)
(* The environment.                                                        *)
(***************************************************************************)
\* An interface or a process disappears.
TunnelDies(t) ==
  /\ t \in tunnels
  /\ tunnels' = tunnels \ {t}
  /\ UNCHANGED <<bypass, settings, mutex, op, pc, locals, history>>

\* The container restarts: only the settings row is left.
Restarts ==
  /\ Fails("crash")
  /\ tunnels' = {}
  /\ bypass' = FALSE
  /\ locked' = FALSE
  /\ queue' = <<>>
  /\ op' = [r \in Requests |-> "status"]
  /\ pc' = [r \in Requests |-> "idle"]
  /\ saw' = [r \in Requests |-> Nothing]
  /\ found' = [r \in Requests |-> {}]
  /\ was' = [r \in Requests |-> FALSE]
  /\ UNCHANGED <<settings, rejoined>>
-----------------------------------------------------------------------------
Reconciles(r) == Reads(r) \/ Probes(r) \/ Writes(r) \/ Rereads(r)

Connects(r) ==
  \/ FindsProfile(r) \/ Decides(r) \/ StopsAll(r) \/ Cleans(r) \/ Bypasses(r) \/ Marks(r)
  \/ Starts(r) \/ Verifies(r) \/ Confirms(r) \/ Undoes(r) \/ Unroutes(r) \/ MarksError(r)
  \/ TurnsOff(r)

RotatesWarp(r) ==
  Allows(r) \/ Rotates(r) \/ Drops(r) \/ Registers(r) \/ Rejoins(r) \/ Announces(r)

Handler(r) ==
  \/ Admits(r) \/ Acquires(r) \/ Releases(r)
  \/ Reconciles(r) \/ Connects(r) \/ RotatesWarp(r)

Next ==
  \/ \E r \in Requests : Handler(r) \/ \E o \in Operations : Asks(r, o)
  \/ \E t \in Tunnel : TunnelDies(t)
  \/ Restarts

Spec == Init /\ [][Next]_vars

(***************************************************************************)
(* Handlers run to their end (every command and every probe has a          *)
(* timeout), and the UI polls the status.                                  *)
(***************************************************************************)
FairSpec ==
  /\ Spec
  /\ \A r \in Requests : WF_vars(Handler(r)) /\ WF_vars(Asks(r, "status"))
-----------------------------------------------------------------------------
(***************************************************************************)
(* Properties.                                                             *)
(***************************************************************************)
\* "One-active-VPN enforcement" (README): two tunnels are never up at once.
OneTunnel == Cardinality(tunnels) <= 1

\* Only a rotation can bring up a second tunnel.
OneTunnelUnlessRotated == ~rejoined => OneTunnel

\* "so an all-traffic VPN route cannot make the services unreachable": while a
\* tunnel is up the bypass routing is installed.
ServicesReachable == tunnels # {} => bypass

\* It is, as long as profiles exist, tunnels stop and WARP is not rotated.
ReachableUnlessFault == faults = 0 /\ ~rejoined => ServicesReachable

\* Nobody waits for the lock for ever.
LockGranted == \A r \in Requests : pc[r] = "queued" ~> pc[r] # "queued"

\* "stale-state reconciliation" (README): the stored state does not stay
\* connected when no tunnel is up.
StaleEnds == []<>(status = "connected" => tunnels # {})

\* r has the lock: it is between acquire and release.
Holds(r) == pc[r] \in Locked \/ (pc[r] \in Reconciling /\ op[r] \in Tunnel)

\* What LockGranted rests on besides fairness: the lock is held only as long as an operation will
\* release it (or isOperationInProgress refuses everything for good), whoever waits is in the
\* queue, and nobody waits for a lock that is free (Mutex.acquire, Mutex.release).
LockAccounted ==
  /\ locked <=> \E r \in Requests : Holds(r)
  /\ \A r \in Requests : pc[r] = "queued" => \E i \in DOMAIN queue : queue[i] = r
  /\ queue # <<>> => locked

\* Nobody overtakes: an operation gets the lock when nobody waits for it, or when it is the one
\* that waits longest (Mutex.acquire, Mutex.release).
InTurn ==
  [][\A r \in Requests : ~Holds(r) /\ Holds(r)' => queue = <<>> \/ r = Head(queue)]_vars
=============================================================================
