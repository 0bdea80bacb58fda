----------------------------- MODULE VpnDrivers -----------------------------
(***************************************************************************)
(* What connecting and disconnecting a tunnel does to the container        *)
(* (lib/services/vpn/wireguard.ts and openvpn.ts): the interface, routes   *)
(* and files of WireGuard, the process and files of OpenVPN, and what is   *)
(* left of them when a command fails in the middle or the container starts *)
(* again.  VpnManager has these calls as single steps; it makes them under *)
(* vpnLock, so that one is under way at a time.                            *)
(*                                                                         *)
(* A step ends where the code awaits a command or a timer.  When the       *)
(* service ends, docker/entrypoint.sh ends the container, and Docker       *)
(* starts it again: its network and its processes are new, /tmp is not.    *)
(***************************************************************************)
EXTENDS Naturals, Sequences

CONSTANTS
  Pids,       \* process ids
  MaxCalls,   \* bound: connects and disconnects
  MaxFaults,  \* bound: removals of a cleanup that fail, and restarts
  None

ASSUME DriversAssumption ==
  /\ {MaxCalls, MaxFaults} \subseteq Nat
  /\ None \notin Pids

Tunnel == {"wireguard", "openvpn"}
WireguardFiles == {"wg.conf", "wg.setconf", "endpoint-route"}
OpenvpnFiles == {"openvpn.pid", "client.ovpn", "auth.txt"}

VARIABLES
  \* the container
  link,      \* the interface of WireGuard
  routes,    \* tunnel: into it; around it: endpoint, which a file remembers, and forgotten, which
             \* none does
  files,     \* under /tmp/vpn
  pidFile,   \* what openvpn.pid says
  log,       \* the end of openvpn.log: completed until the line has scrolled out of it
  process,   \* what has a process id: see States
  \* the management service
  handle,    \* activeOpenvpnProcess
  target,    \* the process whose end is awaited
  todo,      \* the calls of the drivers that VpnManager is making
  step,      \* of the first of them
  result,    \* the tunnel the last call brought up, be it dead by now, or off
  \* bookkeeping
  calls, faults,
  dirty,     \* history: the link and the files that a cleanup has failed to remove, and
             \* openvpn.pid when the process id in it is not, or no longer, of the last start
  boot       \* history: first, or after a restart: again, cleaned when a call has ended

wireguard == <<link, routes>>
openvpn == <<pidFile, log, process, handle, target>>
call == <<todo, step, result, boot>>
history == <<faults, dirty>>
vars == <<wireguard, files, openvpn, call, calls, history>>

\* An OpenVPN has not yet written its process id, has written it, has a tunnel that is up; was
\* told to end in the first of these, in the second (or wrote it after that), in the third; or
\* something else has the process id.
States == {"none", "starting", "running", "ready", "stopping", "ending", "dying", "other"}

TypeOK ==
  /\ link \in {"none", "added", "up"}
  /\ routes \subseteq {"endpoint", "forgotten", "tunnel"}
  /\ "tunnel" \in routes => link = "up"
  /\ "endpoint" \in routes => "endpoint-route" \in files
  /\ files \subseteq WireguardFiles \cup OpenvpnFiles
  /\ pidFile \in Pids \cup {None}
  /\ pidFile # None <=> "openvpn.pid" \in files
  /\ log \in {"empty", "completed", "scrolled", "failed"}
  /\ process \in [Pids -> States]
  /\ {handle, target} \subseteq Pids \cup {None}
  /\ target # None <=> step = "wait"
  /\ todo \in Seq({"stop wireguard", "stop openvpn", "start wireguard", "start openvpn"})
  /\ step \in {"idle", "link", "unroute", "term", "wait",
               "config", "bypass", "add", "set", "up", "route", "show", "spawn", "poll"}
  /\ step = "idle" <=> todo = <<>>
  /\ result \in Tunnel \cup {"off"}
  /\ calls \in 0..MaxCalls /\ faults \in 0..MaxFaults
  /\ dirty \subseteq {"link"} \cup WireguardFiles \cup OpenvpnFiles
  /\ boot \in {"first", "again", "cleaned"}

Init ==
  /\ link = "none" /\ routes = {}
  /\ files = {} /\ pidFile = None /\ log = "empty"
  /\ process = [p \in Pids |-> "none"]
  /\ handle = None /\ target = None
  /\ todo = <<>> /\ step = "idle" /\ result = "off"
  /\ calls = 0 /\ faults = 0
  /\ dirty = {} /\ boot = "first"

Alive(p) == process[p] # "none"
Running(p) == process[p] \in {"starting", "running", "ready"}

\* isConnectionActive, of openvpn.ts and of wireguard.ts.
OpenvpnActive == pidFile # None /\ Alive(pidFile) /\ log = "completed"
WireguardActive == link # "none"

Fault == faults < MaxFaults /\ faults' = faults + 1

First(driverCall) ==
  IF driverCall = "stop wireguard" THEN "link"
  ELSE IF driverCall = "stop openvpn" THEN "term"
  ELSE IF driverCall = "start wireguard" THEN "config"
  ELSE "spawn"

\* VpnManager goes on with these calls.
Continue(rest) ==
  /\ todo' = rest
  /\ step' = IF rest = <<>> THEN "idle" ELSE First(Head(rest))
  /\ boot' = IF rest = <<>> /\ boot = "again" THEN "cleaned" ELSE boot

\* Within a call.
Goes(s) == step' = s /\ UNCHANGED <<todo, result, boot>>

StopOf(t) == IF t = "wireguard" THEN "stop wireguard" ELSE "stop openvpn"
-----------------------------------------------------------------------------
(***************************************************************************)
(* VpnManager: prepareForConnection or disconnect stops both, and a        *)
(* connect then starts one; startConnection of WireGuard cleans up first.  *)
(***************************************************************************)
Disconnect ==
  /\ step = "idle" /\ calls < MaxCalls
  /\ calls' = calls + 1
  /\ Continue(<<"stop wireguard", "stop openvpn">>)
  /\ result' = "off"
  /\ UNCHANGED <<wireguard, files, openvpn, history>>

\* Refused while a tunnel seems to be up.
Connect(t) ==
  /\ step = "idle" /\ calls < MaxCalls
  /\ ~OpenvpnActive /\ ~WireguardActive
  /\ calls' = calls + 1
  /\ Continue(IF t = "wireguard"
              THEN <<"stop wireguard", "stop openvpn", "stop wireguard", "start wireguard">>
              ELSE <<"stop wireguard", "stop openvpn", "start openvpn">>)
  /\ result' = "off"
  /\ UNCHANGED <<wireguard, files, openvpn, history>>

\* The tunnel is up, or the manager finds that it is not, or that nothing can be reached through
\* it, and stops it.
Succeeds(t) ==
  \/ /\ t = "openvpn" => OpenvpnActive
     /\ Continue(<<>>) /\ result' = t
  \/ Continue(<<StopOf(t)>>) /\ UNCHANGED result

\* The manager leaves what a failed start has begun.
FaultyFailed(t) == Continue(<<>>)

\* startConnection of WireGuard has its own cleanup, and the manager stops what it started.
Failed(t) ==
  Continue(IF t = "wireguard" THEN <<"stop wireguard", "stop wireguard">> ELSE <<"stop openvpn">>)

Fails(t) == Failed(t) /\ UNCHANGED result
-----------------------------------------------------------------------------
(***************************************************************************)
(* wireguard.ts: cleanupRuntimeNetwork.                                    *)
(***************************************************************************)
\* ip link delete takes the routes into the tunnel with it; that it fails is ignored.
DeleteLink ==
  /\ step = "link"
  /\ \/ /\ link' = "none" /\ routes' = routes \ {"tunnel"}
        /\ dirty' = dirty \ {"link"} /\ UNCHANGED faults
     \/ /\ link # "none" /\ UNCHANGED wireguard
        /\ dirty' = dirty \cup {"link"} /\ Fault
  /\ Goes("unroute")
  /\ UNCHANGED <<files, openvpn, calls>>

\* No file remembers the route around the tunnel any more.
Forget(around) ==
  IF "endpoint" \in around THEN (around \ {"endpoint"}) \cup {"forgotten"} ELSE around

\* The files are removed before the route that one of them remembers.
FaultyDeleteRoute ==
  /\ step = "unroute"
  /\ files' = files \ WireguardFiles
  /\ dirty' = dirty \ WireguardFiles
  /\ Continue(Tail(todo)) /\ UNCHANGED result
  /\ UNCHANGED <<wireguard, openvpn, calls, faults>>

\* The route to the endpoint is known by its file; then the files are removed, also when the
\* route was not.  That a route or a file cannot be removed is ignored.
DeleteRoute ==
  /\ step = "unroute"
  /\ \E kept \in SUBSET (files \cap WireguardFiles), deleted \in BOOLEAN :
       /\ deleted \/ "endpoint" \in routes
       /\ routes' = IF deleted /\ "endpoint-route" \in files THEN routes \ {"endpoint"}
                    ELSE IF "endpoint-route" \in kept THEN routes
                    ELSE Forget(routes)
       /\ files' = (files \ WireguardFiles) \cup kept
       /\ dirty' = (dirty \ WireguardFiles) \cup kept
       /\ IF deleted /\ kept = {} THEN UNCHANGED faults ELSE Fault
  /\ Continue(Tail(todo)) /\ UNCHANGED result
  /\ UNCHANGED <<link, openvpn, calls>>
-----------------------------------------------------------------------------
(***************************************************************************)
(* wireguard.ts: startConnection; every command may fail.                  *)
(***************************************************************************)
\* buildRuntimeConfig, and the two files one after the other.
WriteConfig ==
  /\ step = "config"
  /\ \/ Goes("bypass") /\ files' = files \cup {"wg.conf", "wg.setconf"}
     \/ /\ Fails("wireguard")
        /\ \E written \in {{}, {"wg.conf"}, {"wg.conf", "wg.setconf"}} : files' = files \cup written
  /\ UNCHANGED <<wireguard, openvpn, calls, history>>

\* addEndpointBypassRoute: not for an IPv6 endpoint, or none.  The route comes before the file that
\* remembers it; it may replace one that an earlier cleanup has left, and the file the name of that.
AddBypass ==
  /\ step = "bypass"
  /\ \/ Goes("add") /\ UNCHANGED <<routes, files>>
     \/ /\ Goes("add")
        /\ \E left \in {Forget(routes), routes \ {"endpoint", "forgotten"}} :
             routes' = left \cup {"endpoint"}
        /\ files' = files \cup {"endpoint-route"}
     \/ Fails("wireguard") /\ UNCHANGED <<routes, files>>
     \/ /\ Fails("wireguard")
        /\ \E left \in {routes, Forget(routes)} : routes' = left \cup {"forgotten"}
        /\ files' \in {files, files \cup {"endpoint-route"}}
  /\ UNCHANGED <<link, openvpn, calls, history>>

AddLink ==
  /\ step = "add"
  /\ \/ link = "none" /\ link' = "added" /\ (Goes("set") \/ Fails("wireguard"))
     \/ Fails("wireguard") /\ UNCHANGED link
  /\ UNCHANGED <<routes, files, openvpn, calls, history>>

\* wg setconf and the addresses.
SetConf ==
  /\ step = "set"
  /\ \/ Goes("up")
     \/ Fails("wireguard")
  /\ UNCHANGED <<wireguard, files, openvpn, calls, history>>

LinkUp ==
  /\ step = "up"
  /\ \/ link # "none" /\ link' = "up" /\ (Goes("route") \/ Fails("wireguard"))
     \/ Fails("wireguard") /\ UNCHANGED link
  /\ UNCHANGED <<routes, files, openvpn, calls, history>>

\* installAllowedIpRoutes may fail when some of the routes are there.
AddRoutes ==
  /\ step = "route"
  /\ \/ link = "up" /\ routes' = routes \cup {"tunnel"} /\ (Goes("show") \/ Fails("wireguard"))
     \/ Fails("wireguard") /\ UNCHANGED routes
  /\ UNCHANGED <<link, files, openvpn, calls, history>>

ShowLink ==
  /\ step = "show"
  /\ IF link = "none" THEN Fails("wireguard") ELSE Succeeds("wireguard")
  /\ UNCHANGED <<wireguard, files, openvpn, calls, history>>
-----------------------------------------------------------------------------
(***************************************************************************)
(* openvpn.ts: stopConnection.                                             *)
(***************************************************************************)
Told(p) ==
  IF process[p] = "starting" THEN "stopping"
  ELSE IF process[p] = "running" THEN "ending"
  ELSE IF process[p] = "ready" THEN "dying"
  ELSE process[p]

\* What is removed of the runtime files when the first that cannot be ends it.
Removed == {{}, {"openvpn.pid"}, {"openvpn.pid", "client.ovpn"}, OpenvpnFiles}

\* VpnManager does not ask whether the files are gone.
Remove ==
  /\ \E gone \in Removed :
       /\ gone = OpenvpnFiles \/ files \cap (OpenvpnFiles \ gone) # {}
       /\ files' = files \ gone
       /\ pidFile' = IF "openvpn.pid" \in gone THEN None ELSE pidFile
       /\ dirty' = (dirty \ gone) \cup ((files \cap {"client.ovpn", "auth.txt"}) \ gone)
       /\ IF gone = OpenvpnFiles THEN UNCHANGED faults ELSE Fault
  /\ Continue(Tail(todo)) /\ UNCHANGED result

\* The child is told to end, and so is whatever has the process id of the file.
Terminate ==
  LET told == {handle, pidFile} \ {None} IN
  /\ step = "term"
  /\ process' = [p \in Pids |-> IF p \in told THEN Told(p) ELSE process[p]]
  /\ handle' = None
  /\ IF pidFile # None /\ Alive(pidFile)
     THEN Goes("wait") /\ target' = pidFile /\ UNCHANGED <<files, pidFile, history>>
     ELSE Remove /\ UNCHANGED target
  /\ UNCHANGED <<wireguard, log, calls>>

\* It ends within three seconds, or is killed: the process of the file as it was before the wait.
Kill ==
  /\ step = "wait"
  /\ process' = [process EXCEPT ![target] = "none"]
  /\ target' = None
  /\ Remove
  /\ UNCHANGED <<wireguard, log, handle, calls>>
-----------------------------------------------------------------------------
(***************************************************************************)
(* openvpn.ts: startConnection.                                            *)
(***************************************************************************)
\* A file cannot be removed, which may be the log (after openvpn.pid and before the others), or one
\* cannot be written.
SpawnFails ==
  /\ Fails("openvpn")
  /\ \E gone \in Removed, written \in SUBSET {"client.ovpn", "auth.txt"} :
       /\ written # {} => gone = OpenvpnFiles /\ "client.ovpn" \in written
       /\ files' = (files \ gone) \cup written
       /\ pidFile' = IF "openvpn.pid" \in gone THEN None ELSE pidFile
       /\ dirty' = dirty \ gone
       /\ log' \in (IF "client.ovpn" \in gone THEN {} ELSE {log})
                  \cup (IF "openvpn.pid" \in gone THEN {"empty"} ELSE {})
  /\ UNCHANGED <<process, handle>>

\* The log of an earlier process is still there.
FaultySpawn ==
  /\ step = "spawn" /\ Goes("poll")
  /\ files' = (files \ OpenvpnFiles) \cup {"client.ovpn"}
  /\ pidFile' = None /\ dirty' = dirty \ OpenvpnFiles
  /\ \E p \in Pids :
       /\ process[p] = "none" /\ handle' = p
       /\ process' = [process EXCEPT ![p] = "starting"]
  /\ UNCHANGED <<wireguard, log, target, calls, faults>>

\* Fresh files, with the credentials if the profile has some, and the process.
Spawn ==
  /\ step = "spawn"
  /\ \/ /\ \E auth \in SUBSET {"auth.txt"} :
             files' = (files \ OpenvpnFiles) \cup {"client.ovpn"} \cup auth
        /\ pidFile' = None
        /\ dirty' = dirty \ OpenvpnFiles
        /\ log' = "empty"
        /\ \E p \in Pids :
             /\ process[p] = "none"
             /\ process' = [process EXCEPT ![p] = "starting"]
             /\ handle' = p
        /\ Goes("poll")
     \/ SpawnFails
  /\ UNCHANGED <<wireguard, target, calls, faults>>

\* Twice a second: the log says that it is ready or has failed, its process is gone, or the time
\* is over.
Poll ==
  /\ step = "poll"
  /\ IF log = "completed" THEN Succeeds("openvpn") ELSE Fails("openvpn")
  /\ UNCHANGED <<wireguard, files, openvpn, calls, history>>
-----------------------------------------------------------------------------
(***************************************************************************)
(* The processes and the container.                                        *)
(***************************************************************************)
\* --writepid, also by a process that has not yet seen that it should end.
WritePid(p) ==
  /\ \/ /\ process[p] = "starting"
        /\ process' = [process EXCEPT ![p] = "running"]
        /\ dirty' = dirty \ {"openvpn.pid"}
     \/ /\ process[p] = "stopping"
        /\ process' = [process EXCEPT ![p] = "ending"]
        /\ dirty' = dirty \cup {"openvpn.pid"}
  /\ pidFile' = p
  /\ files' = files \cup {"openvpn.pid"}
  /\ UNCHANGED <<wireguard, log, handle, target, call, calls, faults>>

\* Initialization Sequence Completed.
Completes(p) ==
  /\ process[p] = "running"
  /\ process' = [process EXCEPT ![p] = "ready"]
  /\ log' = "completed"
  /\ UNCHANGED <<wireguard, files, pidFile, handle, target, call, calls, history>>

\* More than 4000 characters have followed that line.
Scrolls(p) ==
  /\ process[p] = "ready" /\ log = "completed"
  /\ log' = "scrolled"
  /\ UNCHANGED <<wireguard, files, pidFile, process, handle, target, call, calls, history>>

\* An error in the log, or an end without one.
Exits(p) ==
  /\ process[p] # "none"
  /\ process' = [process EXCEPT ![p] = "none"]
  /\ log' \in {log} \cup (IF process[p] \in {"starting", "running"} THEN {"failed"} ELSE {})
  /\ UNCHANGED <<wireguard, files, pidFile, handle, target, call, calls, history>>

\* The process id in the file is given to another process.
Reused ==
  /\ pidFile # None /\ process[pidFile] = "none"
  /\ process' = [process EXCEPT ![pidFile] = "other"]
  /\ dirty' = dirty \cup {"openvpn.pid"}
  /\ UNCHANGED <<wireguard, files, pidFile, log, handle, target, call, calls, faults>>

LinkLost ==
  /\ link # "none"
  /\ link' = "none" /\ routes' = routes \ {"tunnel"}
  /\ UNCHANGED <<files, openvpn, call, calls, history>>

\* Other processes have low process ids again.
Restart ==
  /\ Fault
  /\ link' = "none" /\ routes' = {}
  /\ \E others \in SUBSET Pids :
       process' = [p \in Pids |-> IF p \in others THEN "other" ELSE "none"]
  /\ handle' = None /\ target' = None
  /\ todo' = <<>> /\ step' = "idle" /\ result' = "off"
  /\ boot' = "again"
  /\ dirty' = dirty \ {"link", "openvpn.pid"}
  /\ UNCHANGED <<files, pidFile, log, calls>>
-----------------------------------------------------------------------------
Next ==
  \/ Disconnect \/ (\E t \in Tunnel : Connect(t))
  \/ DeleteLink \/ DeleteRoute
  \/ WriteConfig \/ AddBypass \/ AddLink \/ SetConf \/ LinkUp \/ AddRoutes \/ ShowLink
  \/ Terminate \/ Kill \/ Spawn \/ Poll
  \/ \E p \in Pids : WritePid(p) \/ Completes(p) \/ Scrolls(p) \/ Exits(p)
  \/ Reused
  \/ LinkLost \/ Restart

Spec == Init /\ [][Next]_vars
-----------------------------------------------------------------------------
\* Between calls, nothing is left of a tunnel other than the one the last call brought up: no
\* interface, no route that a file remembers, no file with a key or a password and no OpenVPN that
\* nobody will stop, but for what a cleanup has tried to remove and could not; wherever a connect
\* failed, and whatever a restart found in /tmp.
\* Not said: a tunnel that came up and died by itself keeps its files and its route until the next
\* call; a route is forgotten for good when its deletion fails or the file for it cannot be
\* written; and until the first call after a restart the files are still there.
NothingLeft ==
  step = "idle" /\ boot # "again" =>
    /\ result # "wireguard" =>
         /\ link # "none" => "link" \in dirty
         /\ "endpoint" \in routes => "endpoint-route" \in dirty
         /\ files \cap {"wg.conf", "wg.setconf"} \subseteq dirty
    /\ result # "openvpn" =>
         /\ files \cap {"client.ovpn", "auth.txt"} \subseteq dirty
         /\ \A p \in Pids : ~Running(p)

\* openvpn.pid names the OpenVPN whose tunnel is up, and no other process; and what
\* isConnectionActive takes for the tunnel is one that has come up (openvpn.ts:198, :212).
\* Not said: that this holds after a process of an earlier start has written its id late over that
\* of the live tunnel, or after the process of the file has ended and something else has been
\* given its id, until the file is removed or written again; nor after a restart before a call has
\* removed the file; nor that a tunnel that is up is always taken for one: its line scrolls out.
ActiveIsOwn ==
  boot # "again" /\ "openvpn.pid" \notin dirty =>
    /\ pidFile # None => process[pidFile] # "other"
    /\ OpenvpnActive => process[pidFile] \in {"ready", "dying"}
    /\ \A p \in Pids : process[p] = "ready" => pidFile = p
=============================================================================
