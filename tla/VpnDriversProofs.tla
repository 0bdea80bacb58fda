-------------------------- MODULE VpnDriversProofs --------------------------
(***************************************************************************)
(* What a connect that failed, a disconnect and a restart leave of a       *)
(* tunnel, proved for every number of process ids, of calls, of failures   *)
(* and of restarts.                                                        *)
(*                                                                         *)
(* Whatever a driver has left has an owner: the tunnel that came up, the   *)
(* start under way, or a stop that VpnManager is still to make (or nobody  *)
(* has made a call since the restart); or a cleanup has failed to remove   *)
(* it.  WireguardInv says it of the interface, the route and the files of  *)
(* WireGuard, OpenvpnInv of the process and the files of OpenVPN, PidInv   *)
(* of the process id in the file.                                          *)
(* That a stop is still to make is read off the calls that VpnManager has  *)
(* before it (CallInv): a start is the last of them.                       *)
(***************************************************************************)
EXTENDS VpnDrivers, SequenceTheorems, TLAPS

DriverCalls == {"stop wireguard", "stop openvpn", "start wireguard", "start openvpn"}
Starts == {"start wireguard", "start openvpn"}
StartSteps == {"config", "bypass", "add", "set", "up", "route", "show"}
Steps == {"idle", "link", "unroute", "term", "wait",
          "config", "bypass", "add", "set", "up", "route", "show", "spawn", "poll"}

Last(list, c) == \A i \in 1..Len(list) : list[i] = c => i = Len(list)
StartsLast(list) == Last(list, "start wireguard") /\ Last(list, "start openvpn")
Has(list, c) == \E i \in 1..Len(list) : list[i] = c

\* The step is one of the first call.
Doing(list, s) ==
  /\ s = "idle" <=> list = <<>>
  /\ s \in {"link", "unroute"} => Head(list) = "stop wireguard"
  /\ s \in {"term", "wait"} => Head(list) = "stop openvpn"
  /\ s \in StartSteps => Head(list) = "start wireguard"
  /\ s \in {"spawn", "poll"} => Head(list) = "start openvpn"

CallInv ==
  /\ todo \in Seq(DriverCalls)
  /\ step \in Steps
  /\ result \in Tunnel \cup {"off"}
  /\ boot \in {"first", "again", "cleaned"}
  /\ Doing(todo, step)
  /\ StartsLast(todo)
  /\ todo # <<>> => result = "off"

\* No call since the restart.
Untouched == boot = "again" /\ todo = <<>>

WireguardPending ==
  result = "wireguard" \/ Has(todo, "stop wireguard") \/ step \in StartSteps \ {"config"} \/ Untouched
OpenvpnPending ==
  result = "openvpn" \/ Has(todo, "stop openvpn") \/ step = "poll" \/ Untouched
-----------------------------------------------------------------------------
(***************************************************************************)
(* The calls that VpnManager is still to make.                             *)
(***************************************************************************)
LEMMA TailHas ==
  ASSUME NEW list \in Seq(DriverCalls), list # <<>>, NEW c, Has(list, c), c # Head(list)
  PROVE  Has(Tail(list), c)
<1>1. PICK i \in 1..Len(list) : list[i] = c
  BY DEF Has
<1>2. /\ i # 1 /\ i - 1 \in 1..Len(Tail(list))
      /\ Tail(list)[i - 1] = list[i]
  BY <1>1
<1> QED BY <1>1, <1>2 DEF Has

LEMMA TailLast ==
  ASSUME NEW list \in Seq(DriverCalls), list # <<>>, NEW c, Last(list, c)
  PROVE  Last(Tail(list), c)
<1>1. Len(Tail(list)) = Len(list) - 1 /\ Len(list) \in Nat \ {0}
  BY DEF Last
<1>2. ASSUME NEW i \in 1..Len(Tail(list)), Tail(list)[i] = c PROVE i = Len(Tail(list))
  <2>1. i \in 1..(Len(list) - 1) /\ i + 1 \in 1..Len(list)
    BY <1>1, <1>2
  <2>2. Tail(list)[i] = list[i + 1]
    BY <1>2, <2>1
  <2>3. i + 1 = Len(list)
    BY <1>2, <2>1, <2>2 DEF Last
  <2>a. i \in Int /\ Len(list) \in Int
    BY <1>1, <2>1
  <2>4. i = Len(list) - 1
    BY <2>3, <2>a
  <2> QED BY <1>1, <2>4
<1> QED BY <1>2 DEF Last

\* A start has no call after it.
LEMMA StartIsAlone ==
  ASSUME CallInv, step \in StartSteps \cup {"spawn", "poll"}
  PROVE  /\ Len(todo) = 1 /\ todo # <<>> /\ result = "off"
         /\ ~Has(todo, "stop wireguard") /\ ~Has(todo, "stop openvpn")
<1>1. todo # <<>> /\ Head(todo) \in Starts /\ todo \in Seq(DriverCalls)
  BY DEF CallInv, Doing, StartSteps, Starts
<1>a. Len(todo) \in Nat \ {0} /\ 1 \in 1..Len(todo) /\ Head(todo) = todo[1]
  BY <1>1
<1>2. Len(todo) = 1
  BY <1>1, <1>a DEF CallInv, StartsLast, Last, Starts
<1>3. \A i \in 1..Len(todo) : todo[i] \in Starts
  BY <1>1, <1>2
<1> QED BY <1>1, <1>2, <1>3 DEF CallInv, Has, Starts
-----------------------------------------------------------------------------
(***************************************************************************)
(* What a step does to the calls.                                          *)
(***************************************************************************)
\* A driver call has ended, and VpnManager goes on with the next.
LEMMA NextCall ==
  ASSUME CallInv, todo # <<>>, Continue(Tail(todo)), UNCHANGED result
  PROVE  /\ CallInv'
         /\ ~Untouched' /\ step' \notin {"unroute", "wait", "poll"}
         /\ \A c \in DriverCalls : Has(todo, c) /\ c # Head(todo) => Has(todo', c)
<1>1. todo' \in Seq(DriverCalls) /\ todo' = Tail(todo)
  BY DEF CallInv, Continue
<1>2. StartsLast(todo')
  BY <1>1, TailLast DEF CallInv, StartsLast
<1>3. todo' # <<>> => Head(todo') \in DriverCalls
  BY <1>1
<1>4. step' \in Steps /\ Doing(todo', step')
  BY <1>1, <1>3 DEF Continue, First, Doing, DriverCalls, Steps, StartSteps
<1>5. CallInv'
  BY <1>1, <1>2, <1>4 DEF CallInv, Continue
<1>6. ~Untouched' /\ step' \notin {"unroute", "wait", "poll"}
  BY <1>1, <1>3 DEF Continue, First, Untouched, CallInv
<1>7. \A c \in DriverCalls : Has(todo, c) /\ c # Head(todo) => Has(todo', c)
  BY <1>1, TailHas DEF CallInv
<1> QED BY <1>5, <1>6, <1>7

\* It goes on with other calls than those it had.
LEMMA OtherCalls ==
  ASSUME CallInv, NEW list \in Seq(DriverCalls), Continue(list), StartsLast(list),
         result' \in Tunnel \cup {"off"}, list # <<>> => result' = "off"
  PROVE  /\ CallInv' /\ todo' = list
         /\ ~Untouched' /\ step' \notin {"unroute", "wait", "poll"}
<1>1. todo' \in Seq(DriverCalls) /\ todo' = list
  BY DEF CallInv, Continue
<1>3. todo' # <<>> => Head(todo') \in DriverCalls
  BY <1>1
<1>4. step' \in Steps /\ Doing(todo', step')
  BY <1>1, <1>3 DEF Continue, First, Doing, DriverCalls, Steps, StartSteps
<1>5. CallInv'
  BY <1>1, <1>4 DEF CallInv, Continue
<1>6. ~Untouched' /\ step' \notin {"unroute", "wait", "poll"}
  BY <1>1, <1>3 DEF Continue, First, Untouched, CallInv
<1> QED BY <1>1, <1>5, <1>6

\* It stays in the call.
LEMMA SameCall ==
  ASSUME CallInv, NEW s \in Steps, Doing(todo, s), Goes(s)
  PROVE  CallInv' /\ todo' = todo /\ result' = result /\ boot' = boot /\ step' = s
BY DEF CallInv, Goes

\* The calls that VpnManager puts together: each start is the last.
LEMMA OneCall ==
  ASSUME NEW list \in Seq(DriverCalls), Len(list) = 1
  PROVE  StartsLast(list) /\ list # <<>> /\ Has(list, list[1])
<1>1. \A i \in 1..1 : i = 1
  OBVIOUS
<1>2. 1 \in 1..1 /\ Len(<<>>) = 0
  OBVIOUS
<1> QED BY <1>1, <1>2 DEF StartsLast, Last, Has

LEMMA TwoCalls ==
  ASSUME NEW list \in Seq(DriverCalls), Len(list) = 2, list[1] \notin Starts
  PROVE  StartsLast(list) /\ list # <<>> /\ Has(list, list[1]) /\ Has(list, list[2])
<1>1. \A i \in 1..2 : i # 2 => i = 1
  OBVIOUS
<1>2. \A i \in 1..2 : i # 2 => list[i] \notin Starts
  BY <1>1
<1>3. StartsLast(list)
  BY <1>2 DEF StartsLast, Last, Starts
<1>4. 1 \in 1..2 /\ 2 \in 1..2 /\ Len(<<>>) = 0
  OBVIOUS
<1> QED BY <1>3, <1>4 DEF Has

LEMMA ThreeCalls ==
  ASSUME NEW list \in Seq(DriverCalls), Len(list) = 3, list[1] \notin Starts, list[2] \notin Starts
  PROVE  StartsLast(list) /\ list # <<>> /\ Has(list, list[1]) /\ Has(list, list[2])
<1>1. \A i \in 1..3 : i # 3 => i = 1 \/ i = 2
  OBVIOUS
<1>2. \A i \in 1..3 : i # 3 => list[i] \notin Starts
  BY <1>1
<1>3. StartsLast(list)
  BY <1>2 DEF StartsLast, Last, Starts
<1>4. 1 \in 1..3 /\ 2 \in 1..3 /\ Len(<<>>) = 0
  OBVIOUS
<1> QED BY <1>3, <1>4 DEF Has

LEMMA FourCalls ==
  ASSUME NEW list \in Seq(DriverCalls), Len(list) = 4,
         list[1] \notin Starts, list[2] \notin Starts, list[3] \notin Starts
  PROVE  StartsLast(list) /\ list # <<>> /\ Has(list, list[1]) /\ Has(list, list[2])
<1>1. \A i \in 1..4 : i # 4 => i = 1 \/ i = 2 \/ i = 3
  OBVIOUS
<1>2. \A i \in 1..4 : i # 4 => list[i] \notin Starts
  BY <1>1
<1>3. StartsLast(list)
  BY <1>2 DEF StartsLast, Last, Starts
<1>4. 1 \in 1..4 /\ 2 \in 1..4 /\ Len(<<>>) = 0
  OBVIOUS
<1> QED BY <1>3, <1>4 DEF Has

LEMMA NoCalls == <<>> \in Seq(DriverCalls) /\ StartsLast(<<>>) /\ \A c : ~Has(<<>>, c)
<1>1. Len(<<>>) = 0 /\ 1..0 = {}
  OBVIOUS
<1> QED BY <1>1 DEF StartsLast, Last, Has

StopsWireguard(list) ==
  list \in Seq(DriverCalls) /\ StartsLast(list) /\ list # <<>> /\ Has(list, "stop wireguard")
StopsOpenvpn(list) ==
  list \in Seq(DriverCalls) /\ StartsLast(list) /\ list # <<>> /\ Has(list, "stop openvpn")

LEMMA StopCalls ==
  /\ StopsWireguard(<<"stop wireguard">>)
  /\ StopsWireguard(<<"stop wireguard", "stop wireguard">>)
  /\ StopsWireguard(<<"stop wireguard", "stop openvpn">>)
  /\ StopsOpenvpn(<<"stop openvpn">>)
  /\ StopsOpenvpn(<<"stop wireguard", "stop openvpn">>)
<1> DEFINE w == <<"stop wireguard">>  ww == <<"stop wireguard", "stop wireguard">>
           o == <<"stop openvpn">>    wo == <<"stop wireguard", "stop openvpn">>
<1>1. {w, ww, o, wo} \subseteq Seq(DriverCalls)
  BY DEF DriverCalls
<1>2. /\ Len(w) = 1 /\ w[1] = "stop wireguard"
      /\ Len(ww) = 2 /\ ww[1] = "stop wireguard"
      /\ Len(o) = 1 /\ o[1] = "stop openvpn"
      /\ Len(wo) = 2 /\ wo[1] = "stop wireguard" /\ wo[2] = "stop openvpn"
  OBVIOUS
<1> HIDE DEF w, ww, o, wo
<1>3. StopsWireguard(w) /\ StopsWireguard(ww) /\ StopsWireguard(wo)
  BY <1>1, <1>2, OneCall, TwoCalls DEF StopsWireguard, Starts
<1>4. StopsOpenvpn(o) /\ StopsOpenvpn(wo)
  BY <1>1, <1>2, OneCall, TwoCalls DEF StopsOpenvpn, Starts
<1> QED BY <1>3, <1>4 DEF w, ww, o, wo

LEMMA ConnectCalls ==
  /\ StopsWireguard(<<"stop wireguard", "stop openvpn", "stop wireguard", "start wireguard">>)
  /\ StopsOpenvpn(<<"stop wireguard", "stop openvpn", "stop wireguard", "start wireguard">>)
  /\ StopsWireguard(<<"stop wireguard", "stop openvpn", "start openvpn">>)
  /\ StopsOpenvpn(<<"stop wireguard", "stop openvpn", "start openvpn">>)
<1> DEFINE w == <<"stop wireguard", "stop openvpn", "stop wireguard", "start wireguard">>
           o == <<"stop wireguard", "stop openvpn", "start openvpn">>
<1>1. {w, o} \subseteq Seq(DriverCalls)
  BY DEF DriverCalls
<1>2. /\ Len(w) = 4 /\ w[1] = "stop wireguard" /\ w[2] = "stop openvpn" /\ w[3] = "stop wireguard"
      /\ Len(o) = 3 /\ o[1] = "stop wireguard" /\ o[2] = "stop openvpn"
  OBVIOUS
<1> HIDE DEF w, o
<1>3. StopsWireguard(w) /\ StopsOpenvpn(w)
  BY <1>1, <1>2, FourCalls DEF StopsWireguard, StopsOpenvpn, Starts
<1>4. StopsWireguard(o) /\ StopsOpenvpn(o)
  BY <1>1, <1>2, ThreeCalls DEF StopsWireguard, StopsOpenvpn, Starts
<1> QED BY <1>3, <1>4 DEF w, o
-----------------------------------------------------------------------------
(***************************************************************************)
(* What a step does to what has an owner.                                  *)
(***************************************************************************)
Settled == step \notin {"unroute", "wait", "poll"}

LEMMA WireguardEnds ==
  ASSUME CallInv, step \in StartSteps, Fails("wireguard") \/ Succeeds("wireguard")
  PROVE  CallInv' /\ WireguardPending' /\ ~Untouched' /\ Settled' /\ ~Has(todo, "stop openvpn")
<1>1. result = "off" /\ ~Has(todo, "stop openvpn")
  BY StartIsAlone
<1>2. CASE Fails("wireguard")
  <2> DEFINE list == <<"stop wireguard", "stop wireguard">>
  <2>1. Continue(list) /\ result' = "off"
    BY <1>1, <1>2 DEF Fails, Failed
  <2>2. StopsWireguard(list)
    BY StopCalls
  <2> HIDE DEF list
  <2> QED BY <1>1, <2>1, <2>2, OtherCalls DEF StopsWireguard, WireguardPending, Settled, Tunnel
<1>3. CASE Continue(<<>>) /\ result' = "wireguard"
  BY <1>1, <1>3, NoCalls, OtherCalls DEF WireguardPending, Settled, Tunnel
<1>4. CASE Continue(<<StopOf("wireguard")>>) /\ UNCHANGED result
  <2> DEFINE list == <<"stop wireguard">>
  <2>1. Continue(list) /\ result' = "off"
    BY <1>1, <1>4 DEF StopOf
  <2>2. StopsWireguard(list)
    BY StopCalls
  <2> HIDE DEF list
  <2> QED BY <1>1, <2>1, <2>2, OtherCalls DEF StopsWireguard, WireguardPending, Settled, Tunnel
<1> QED BY <1>2, <1>3, <1>4 DEF Succeeds

LEMMA OpenvpnEnds ==
  ASSUME CallInv, step \in {"spawn", "poll"}, Fails("openvpn") \/ Succeeds("openvpn")
  PROVE  /\ CallInv' /\ ~Untouched' /\ Settled' /\ ~Has(todo, "stop wireguard")
         /\ result' = "openvpn" \/ Has(todo', "stop openvpn")
<1>1. result = "off" /\ ~Has(todo, "stop wireguard")
  BY StartIsAlone
<1>2. CASE Continue(<<"stop openvpn">>) /\ UNCHANGED result
  <2> DEFINE list == <<"stop openvpn">>
  <2>1. Continue(list) /\ result' = "off"
    BY <1>1, <1>2
  <2>2. StopsOpenvpn(list)
    BY StopCalls
  <2> HIDE DEF list
  <2> QED BY <1>1, <2>1, <2>2, OtherCalls DEF StopsOpenvpn, Settled, Tunnel
<1>3. CASE Continue(<<>>) /\ result' = "openvpn"
  BY <1>1, <1>3, NoCalls, OtherCalls DEF Settled, Tunnel
<1> QED BY <1>2, <1>3 DEF Succeeds, Fails, Failed, StopOf

\* A call of VpnManager begins with both stops.
LEMMA CallBegins ==
  ASSUME CallInv, Disconnect \/ \E t \in Tunnel : Connect(t)
  PROVE  /\ CallInv' /\ Settled'
         /\ Has(todo', "stop wireguard") /\ Has(todo', "stop openvpn")
<1>1. PICK list : /\ Continue(list) /\ result' = "off"
                  /\ StopsWireguard(list) /\ StopsOpenvpn(list)
  BY StopCalls, ConnectCalls DEF Disconnect, Connect, Tunnel
<1> QED BY <1>1, OtherCalls DEF StopsWireguard, StopsOpenvpn, Settled

\* Nothing but the calls and the steps of the drivers and a restart changes what is to be done.
Elsewhere ==
  (\E p \in Pids : WritePid(p) \/ Completes(p) \/ Scrolls(p) \/ Exits(p)) \/ Reused \/ LinkLost
  \/ UNCHANGED vars

LEMMA SameOwners ==
  ASSUME CallInv, Elsewhere
  PROVE  /\ CallInv' /\ call' = call
         /\ WireguardPending' = WireguardPending /\ OpenvpnPending' = OpenvpnPending
<1>1. call' = call
  BY DEF Elsewhere, WritePid, Completes, Scrolls, Exits, Reused, LinkLost, vars
<1> QED BY <1>1 DEF call, CallInv, WireguardPending, OpenvpnPending, Untouched
-----------------------------------------------------------------------------
(***************************************************************************)
(* The calls, through every step.                                          *)
(***************************************************************************)
\* A step of a driver that stays within its call.
Within(from, to) == step = from /\ Goes(to)
Inside == \/ Within("link", "unroute") \/ Within("term", "wait")
          \/ Within("config", "bypass") \/ Within("bypass", "add") \/ Within("add", "set")
          \/ Within("set", "up") \/ Within("up", "route") \/ Within("route", "show")
          \/ Within("spawn", "poll")

LEMMA InsideSteps ==
  ASSUME CallInv, Inside
  PROVE  /\ CallInv' /\ todo' = todo /\ result' = result /\ boot' = boot /\ todo # <<>>
         /\ WireguardPending => WireguardPending'
         /\ step \in StartSteps => WireguardPending'
         /\ step = "link" => Has(todo, "stop wireguard")
         /\ OpenvpnPending => OpenvpnPending'
<1>1. /\ todo' = todo /\ result' = result /\ boot' = boot /\ todo # <<>>
      /\ step' \in Steps /\ Doing(todo, step')
  BY DEF Inside, Within, Goes, CallInv, Doing, StartSteps, Steps
<1>2. CallInv'
  BY <1>1 DEF CallInv
<1>3. /\ WireguardPending => WireguardPending'
      /\ step \in StartSteps => WireguardPending'
      /\ OpenvpnPending => OpenvpnPending'
  BY <1>1 DEF Inside, Within, Goes, StartSteps, WireguardPending, OpenvpnPending, Untouched
<1>4. step = "link" => Has(todo, "stop wireguard")
  <2>1. step = "link" => Head(todo) = "stop wireguard"
    BY DEF CallInv, Doing
  <2>2. 1 \in 1..Len(todo) /\ Head(todo) = todo[1]
    BY <1>1 DEF CallInv
  <2> QED BY <2>1, <2>2 DEF Has
<1> QED BY <1>1, <1>2, <1>3, <1>4

\* A stop has ended.
LEMMA StopEnds ==
  ASSUME CallInv, step \in {"unroute", "term", "wait"}, Continue(Tail(todo)), UNCHANGED result
  PROVE  /\ CallInv' /\ ~Untouched' /\ Settled'
         /\ step = "unroute" /\ OpenvpnPending => OpenvpnPending'
         /\ step = "unroute" /\ Has(todo, "stop openvpn") => Has(todo', "stop openvpn")
         /\ step # "unroute" /\ WireguardPending => WireguardPending'
<1>1. /\ todo # <<>> /\ result = "off"
      /\ Head(todo) = IF step = "unroute" THEN "stop wireguard" ELSE "stop openvpn"
  BY DEF CallInv, Doing
<1>2. /\ CallInv' /\ ~Untouched' /\ Settled'
      /\ \A c \in DriverCalls : Has(todo, c) /\ c # Head(todo) => Has(todo', c)
  BY <1>1, NextCall DEF Settled
<1>3. "stop wireguard" \in DriverCalls /\ "stop openvpn" \in DriverCalls
  BY DEF DriverCalls
<1>4. step = "unroute" /\ Has(todo, "stop openvpn") => Has(todo', "stop openvpn")
  BY <1>1, <1>2, <1>3
<1>5. step # "unroute" /\ Has(todo, "stop wireguard") => Has(todo', "stop wireguard")
  BY <1>1, <1>2, <1>3
<1>6. step = "unroute" /\ OpenvpnPending => OpenvpnPending'
  BY <1>1, <1>4 DEF OpenvpnPending, Untouched
<1>7. step # "unroute" /\ WireguardPending => WireguardPending'
  BY <1>1, <1>5 DEF WireguardPending, Untouched, StartSteps
<1> QED BY <1>2, <1>4, <1>6, <1>7

LEMMA RestartCall == ASSUME Restart PROVE CallInv' /\ Untouched' /\ Settled'
BY NoCalls DEF Restart, CallInv, Untouched, Settled, Doing, Steps, StartSteps

LEMMA CallInit == Init => CallInv
BY NoCalls DEF Init, CallInv, Doing, Steps, StartSteps

\* The kinds of steps there are.
WireguardEnd == step \in StartSteps /\ (Fails("wireguard") \/ Succeeds("wireguard"))
OpenvpnEnd == step \in {"spawn", "poll"} /\ (Fails("openvpn") \/ Succeeds("openvpn"))
StopEnd == step \in {"unroute", "term", "wait"} /\ Continue(Tail(todo)) /\ UNCHANGED result

LEMMA WireguardKinds ==
  ASSUME WriteConfig \/ AddBypass \/ AddLink \/ SetConf \/ LinkUp \/ AddRoutes \/ ShowLink
  PROVE  step \in StartSteps /\ (Inside \/ WireguardEnd)
<1>1. WriteConfig => step \in StartSteps /\ (Inside \/ WireguardEnd)
  BY DEF WriteConfig, Inside, Within, WireguardEnd, StartSteps
<1>2. AddBypass => step \in StartSteps /\ (Inside \/ WireguardEnd)
  BY DEF AddBypass, Inside, Within, WireguardEnd, StartSteps
<1>3. AddLink => step \in StartSteps /\ (Inside \/ WireguardEnd)
  BY DEF AddLink, Inside, Within, WireguardEnd, StartSteps
<1>4. SetConf => step \in StartSteps /\ (Inside \/ WireguardEnd)
  BY DEF SetConf, Inside, Within, WireguardEnd, StartSteps
<1>5. LinkUp => step \in StartSteps /\ (Inside \/ WireguardEnd)
  BY DEF LinkUp, Inside, Within, WireguardEnd, StartSteps
<1>6. AddRoutes => step \in StartSteps /\ (Inside \/ WireguardEnd)
  BY DEF AddRoutes, Inside, Within, WireguardEnd, StartSteps
<1>7. ShowLink => step \in StartSteps /\ (Inside \/ WireguardEnd)
  BY DEF ShowLink, Inside, Within, WireguardEnd, StartSteps
<1> QED BY <1>1, <1>2, <1>3, <1>4, <1>5, <1>6, <1>7

LEMMA OtherKinds ==
  /\ DeleteLink => Inside /\ step = "link"
  /\ DeleteRoute => StopEnd /\ step = "unroute"
  /\ Terminate => (Inside \/ StopEnd) /\ step = "term"
  /\ Kill => StopEnd /\ step = "wait"
  /\ Spawn => (Inside \/ OpenvpnEnd) /\ step = "spawn"
  /\ Poll => OpenvpnEnd /\ step = "poll"
BY DEF DeleteLink, DeleteRoute, Terminate, Kill, Remove, Spawn, SpawnFails, Poll,
       Inside, Within, StopEnd, OpenvpnEnd

LEMMA Kinds ==
  ASSUME [Next]_vars
  PROVE  \/ Disconnect \/ \E t \in Tunnel : Connect(t)
         \/ WriteConfig \/ AddBypass \/ AddLink \/ SetConf \/ LinkUp \/ AddRoutes \/ ShowLink
         \/ DeleteLink \/ DeleteRoute \/ Terminate \/ Kill \/ Spawn \/ Poll
         \/ Elsewhere \/ Restart
BY DEF Next, Elsewhere

LEMMA CallSteps == CallInv /\ [Next]_vars => CallInv'
<1> SUFFICES ASSUME CallInv, [Next]_vars PROVE CallInv'
  OBVIOUS
<1>1. CASE Disconnect \/ \E t \in Tunnel : Connect(t)
  BY <1>1, CallBegins
<1>2. CASE WriteConfig \/ AddBypass \/ AddLink \/ SetConf \/ LinkUp \/ AddRoutes \/ ShowLink
  BY <1>2, WireguardKinds, InsideSteps, WireguardEnds DEF WireguardEnd
<1>3. CASE DeleteLink \/ DeleteRoute \/ Terminate \/ Kill \/ Spawn \/ Poll
  BY <1>3, OtherKinds, InsideSteps, StopEnds, OpenvpnEnds DEF StopEnd, OpenvpnEnd
<1>4. CASE Elsewhere
  BY <1>4, SameOwners
<1>5. CASE Restart
  BY <1>5, RestartCall
<1> QED BY <1>1, <1>2, <1>3, <1>4, <1>5, Kinds
-----------------------------------------------------------------------------
(***************************************************************************)
(* The interface, the routes and the files of WireGuard.                   *)
(***************************************************************************)
NetTyped ==
  /\ link \in {"none", "added", "up"}
  /\ routes \subseteq {"endpoint", "forgotten", "tunnel"}
  /\ "tunnel" \in routes => link = "up"
  /\ files \subseteq WireguardFiles \cup OpenvpnFiles
  /\ dirty \subseteq {"link"} \cup WireguardFiles \cup OpenvpnFiles
  /\ faults \in 0..MaxFaults /\ calls \in 0..MaxCalls

\* What is there, a cleanup has failed to remove.
WireguardLeft ==
  /\ link # "none" => "link" \in dirty
  /\ files \cap WireguardFiles \subseteq dirty

\* The route to the endpoint has its file, and what is there has an owner.
WireguardInv ==
  /\ "endpoint" \in routes => "endpoint-route" \in files
  /\ ~WireguardPending => WireguardLeft
  /\ step = "unroute" /\ link # "none" => "link" \in dirty

LEMMA NoFault == MaxFaults \in Nat /\ MaxCalls \in Nat /\ None \notin Pids
BY DriversAssumption

LEMMA Counts ==
  ASSUME NEW max \in Nat, NEW n \in 0..max, n < max
  PROVE  n + 1 \in 0..max
OBVIOUS

LEMMA NetTypedSteps == NetTyped /\ [Next]_vars => NetTyped'
<1> SUFFICES ASSUME NetTyped, [Next]_vars PROVE NetTyped'
  OBVIOUS
<1> USE DEF NetTyped, wireguard, call, history, WireguardFiles, OpenvpnFiles
<1>1. CASE Disconnect
  <2>1. calls' \in 0..MaxCalls
    BY <1>1, NoFault, Counts DEF Disconnect
  <2> QED BY <1>1, <2>1 DEF Disconnect
<1>2. CASE \E t \in Tunnel : Connect(t)
  <2>1. calls' \in 0..MaxCalls
    BY <1>2, NoFault, Counts DEF Connect
  <2> QED BY <1>2, <2>1 DEF Connect
<1>3. CASE DeleteLink
  BY <1>3, NoFault, Counts DEF DeleteLink, Fault
<1>4. CASE DeleteRoute
  <2>1. PICK kept \in SUBSET (files \cap WireguardFiles) :
          /\ routes' \in {routes \ {"endpoint"}, routes, Forget(routes)}
          /\ files' = (files \ WireguardFiles) \cup kept
          /\ dirty' = (dirty \ WireguardFiles) \cup kept
    BY <1>4 DEF DeleteRoute
  <2>2. faults' \in 0..MaxFaults /\ UNCHANGED <<link, calls>>
    BY <1>4, NoFault, Counts DEF DeleteRoute, Fault
  <2> QED BY <2>1, <2>2 DEF Forget
<1>5. CASE WriteConfig
  <2>1. files' \subseteq files \cup {"wg.conf", "wg.setconf"}
    BY <1>5 DEF WriteConfig
  <2> QED BY <1>5, <2>1 DEF WriteConfig
<1>6. CASE AddBypass
  <2>1. /\ routes' \subseteq routes \cup {"endpoint", "forgotten"}
        /\ files' \subseteq files \cup {"endpoint-route"}
    BY <1>6 DEF AddBypass, Forget
  <2> QED BY <1>6, <2>1 DEF AddBypass
<1>7. CASE AddLink \/ SetConf \/ LinkUp \/ AddRoutes \/ ShowLink
  BY <1>7 DEF AddLink, SetConf, LinkUp, AddRoutes, ShowLink
<1>8. CASE Terminate \/ Kill
  <2>1. CASE UNCHANGED <<files, history>>
    BY <1>8, <2>1 DEF Terminate, Kill
  <2>2. CASE Remove
    <3>1. files' \subseteq files /\ dirty' \subseteq dirty \cup files
      BY <2>2 DEF Remove
    <3>2. faults' \in 0..MaxFaults
      BY <2>2, NoFault, Counts DEF Remove, Fault
    <3> QED BY <1>8, <3>1, <3>2 DEF Terminate, Kill
  <2> QED BY <1>8, <2>1, <2>2 DEF Terminate, Kill
<1>9. CASE Spawn \/ Poll
  <2>1. UNCHANGED <<wireguard, calls, faults>>
    BY <1>9 DEF Spawn, Poll
  <2>2. /\ files' \subseteq files \cup {"client.ovpn", "auth.txt"}
        /\ dirty' \subseteq dirty
    BY <1>9 DEF Spawn, SpawnFails, Poll
  <2> QED BY <2>1, <2>2
<1>10. CASE Elsewhere
  BY <1>10 DEF Elsewhere, WritePid, Completes, Scrolls, Exits, Reused, LinkLost, vars
<1>11. CASE Restart
  BY <1>11, NoFault, Counts DEF Restart, Fault
<1> QED BY <1>1, <1>2, <1>3, <1>4, <1>5, <1>6, <1>7, <1>8, <1>9, <1>10, <1>11, Kinds

\* Where a start runs, the other tunnel has no owner.
LEMMA OnlyOneStarts ==
  ASSUME CallInv
  PROVE  /\ step \in StartSteps => ~OpenvpnPending
         /\ step \in {"spawn", "poll"} => ~WireguardPending
         /\ step = "spawn" => ~OpenvpnPending
BY StartIsAlone DEF WireguardPending, OpenvpnPending, Untouched, StartSteps

LEMMA WireguardSteps == CallInv /\ NetTyped /\ WireguardInv /\ [Next]_vars => WireguardInv'
<1> SUFFICES ASSUME CallInv, NetTyped, WireguardInv, [Next]_vars PROVE WireguardInv'
  OBVIOUS
<1> USE DEF wireguard, call, history
<1>1. CASE Disconnect \/ \E t \in Tunnel : Connect(t)
  <2>1. WireguardPending' /\ step' # "unroute"
    BY <1>1, CallBegins DEF WireguardPending, Settled
  <2>2. UNCHANGED <<files, routes, dirty>>
    BY <1>1 DEF Disconnect, Connect
  <2> QED BY <2>1, <2>2 DEF WireguardInv
<1>2. CASE WriteConfig \/ AddBypass \/ AddLink \/ SetConf \/ LinkUp \/ AddRoutes \/ ShowLink
  <2>1. WireguardPending' /\ step' # "unroute"
    <3>1. step \in StartSteps /\ (Inside \/ WireguardEnd)
      BY <1>2, WireguardKinds
    <3>2. CASE Inside
      <4>1. step' # "unroute"
        BY <3>1, <3>2 DEF Inside, Within, Goes, StartSteps
      <4> QED BY <3>1, <3>2, <4>1, InsideSteps
    <3>3. CASE WireguardEnd
      BY <3>3, WireguardEnds DEF WireguardEnd, Settled
    <3> QED BY <3>1, <3>2, <3>3
  <2>2. /\ "endpoint-route" \in files => "endpoint-route" \in files'
        /\ "endpoint" \in routes' => "endpoint" \in routes \/ "endpoint-route" \in files'
    BY <1>2 DEF WriteConfig, AddBypass, Forget, AddLink, SetConf, LinkUp, AddRoutes, ShowLink
  <2> QED BY <2>1, <2>2 DEF WireguardInv
<1>3. CASE DeleteLink
  <2>1. WireguardPending'
    BY <1>3, OtherKinds, InsideSteps DEF WireguardPending
  <2>2. /\ files' = files /\ routes' \subseteq routes
        /\ link' # "none" => "link" \in dirty'
    BY <1>3 DEF DeleteLink
  <2> QED BY <2>1, <2>2 DEF WireguardInv
<1>4. CASE DeleteRoute
  <2>1. step' # "unroute" /\ step = "unroute"
    BY <1>4, OtherKinds, StopEnds DEF StopEnd, Settled
  <2>2. PICK kept \in SUBSET (files \cap WireguardFiles), deleted \in BOOLEAN :
          /\ routes' = IF deleted /\ "endpoint-route" \in files THEN routes \ {"endpoint"}
                       ELSE IF "endpoint-route" \in kept THEN routes
                       ELSE Forget(routes)
          /\ files' = (files \ WireguardFiles) \cup kept
          /\ dirty' = (dirty \ WireguardFiles) \cup kept
    BY <1>4 DEF DeleteRoute
  <2>3. "endpoint" \in routes' => "endpoint-route" \in files'
    BY <2>2 DEF Forget
  <2>4. files' \cap WireguardFiles \subseteq dirty'
    BY <2>2
  <2>5. link' # "none" => "link" \in dirty'
    <3>1. link' = link /\ (link # "none" => "link" \in dirty)
      BY <1>4, <2>1 DEF DeleteRoute, WireguardInv
    <3> QED BY <2>2, <3>1 DEF WireguardFiles
  <2> QED BY <2>1, <2>3, <2>4, <2>5 DEF WireguardInv, WireguardLeft
<1>5. CASE Terminate \/ Kill \/ Spawn \/ Poll
  <2>1. /\ UNCHANGED <<link, routes>>
        /\ \A f \in WireguardFiles : f \in files <=> f \in files'
        /\ \A f \in WireguardFiles \cup {"link"} : f \in dirty => f \in dirty'
    <3>1. CASE Poll \/ Spawn
      BY <3>1 DEF Spawn, SpawnFails, Removed, Poll, WireguardFiles, OpenvpnFiles
    <3>2. CASE Terminate \/ Kill
      <4>1. CASE Remove
        BY <3>2, <4>1 DEF Terminate, Kill, Remove, Removed, WireguardFiles, OpenvpnFiles
      <4>2. CASE UNCHANGED <<files, history>>
        BY <3>2, <4>2 DEF Terminate, Kill
      <4> QED BY <3>2, <4>1, <4>2 DEF Terminate, Kill
    <3> QED BY <1>5, <3>1, <3>2
  <2>2. step' # "unroute"
    <3>1. Inside => step' # "unroute"
      BY <1>5, OtherKinds DEF Inside, Within, Goes
    <3> QED BY <1>5, <3>1, OtherKinds, StopEnds, OpenvpnEnds DEF StopEnd, OpenvpnEnd, Settled
  <2>3. ~WireguardPending' => ~WireguardPending
    <3>1. CASE Terminate \/ Kill
      BY <3>1, OtherKinds, StopEnds, InsideSteps DEF StopEnd
    <3>2. CASE Spawn \/ Poll
      BY <3>2, OtherKinds, OnlyOneStarts
    <3> QED BY <1>5, <3>1, <3>2
  <2> QED BY <2>1, <2>2, <2>3 DEF WireguardInv, WireguardLeft, WireguardFiles
<1>6. CASE Elsewhere
  <2>1. WireguardPending' = WireguardPending /\ step' = step
    BY <1>6, SameOwners
  <2>2. /\ routes' \subseteq routes
        /\ link = "none" => link' = "none"
        /\ \A f \in WireguardFiles : f \in files <=> f \in files'
        /\ \A f \in WireguardFiles \cup {"link"} : f \in dirty => f \in dirty'
    BY <1>6
    DEF Elsewhere, WritePid, Completes, Scrolls, Exits, Reused, LinkLost, vars, WireguardFiles
  <2> QED BY <2>1, <2>2 DEF WireguardInv, WireguardLeft, WireguardFiles
<1>7. CASE Restart
  <2>1. WireguardPending' /\ step' # "unroute" /\ routes' = {}
    BY <1>7, RestartCall DEF WireguardPending, Settled, Restart
  <2> QED BY <2>1 DEF WireguardInv
<1> QED BY <1>1, <1>2, <1>3, <1>4, <1>5, <1>6, <1>7, Kinds
-----------------------------------------------------------------------------
(***************************************************************************)
(* The process and the files of OpenVPN.                                   *)
(***************************************************************************)
ProcTyped ==
  /\ pidFile \in Pids \cup {None}
  /\ pidFile # None <=> "openvpn.pid" \in files
  /\ log \in {"empty", "completed", "scrolled", "failed"}
  /\ process \in [Pids -> States]
  /\ {handle, target} \subseteq Pids \cup {None}

\* What is there, a cleanup has failed to remove.
OpenvpnLeft == files \cap {"client.ovpn", "auth.txt"} \subseteq dirty

\* Who is to end the child.
ChildOwned ==
  result = "openvpn" \/ step = "poll" \/ (Has(todo, "stop openvpn") /\ step # "wait")

\* The files have an owner and so has the child, and no other OpenVPN runs.
OpenvpnInv ==
  /\ ~OpenvpnPending => OpenvpnLeft
  /\ handle # None => ChildOwned
  /\ \A p \in Pids : Running(p) => handle = p

\* The end of a process is awaited.
Awaited == target # None <=> step = "wait"

\* The log is of the one that runs.
LogInv == \A p \in Pids : process[p] \in {"starting", "running"} => log \notin {"completed", "scrolled"}

\* Until a process writes the file late, or its id is given to another, the file names the OpenVPN
\* that runs once it has written it, and until it is removed what that has become; another
\* process only before it has been told to end; and the one whose end is awaited.
OwnPid ==
  /\ \A p \in Pids : process[p] \in {"running", "ready"} => pidFile = p
  /\ pidFile # None => process[pidFile] \notin {"starting", "stopping"}
  /\ pidFile # None /\ process[pidFile] = "ending" => log # "completed"
  /\ pidFile # None /\ process[pidFile] = "other"
       => boot = "again" /\ (todo = <<>> \/ Has(todo, "stop openvpn"))
  /\ target # None => target = pidFile

PidInv == "openvpn.pid" \notin dirty => OwnPid

LEMMA RemovePid ==
  ASSUME Remove, ProcTyped
  PROVE  /\ pidFile' \in {pidFile, None}
         /\ pidFile' # None <=> "openvpn.pid" \in files'
<1>1. PICK gone \in Removed :
        /\ files' = files \ gone
        /\ pidFile' = IF "openvpn.pid" \in gone THEN None ELSE pidFile
        /\ dirty' = (dirty \ gone) \cup ((files \cap {"client.ovpn", "auth.txt"}) \ gone)
  BY DEF Remove
<1> QED BY <1>1 DEF ProcTyped

LEMMA ProcTypedSteps == ProcTyped /\ [Next]_vars => ProcTyped'
<1> SUFFICES ASSUME ProcTyped, [Next]_vars PROVE ProcTyped'
  OBVIOUS
<1> USE NoFault DEF ProcTyped, States, openvpn, WireguardFiles, OpenvpnFiles
<1>1. CASE Disconnect \/ \E t \in Tunnel : Connect(t)
  BY <1>1 DEF Disconnect, Connect
<1>2. CASE WriteConfig
  <2>1. "openvpn.pid" \in files' <=> "openvpn.pid" \in files
    BY <1>2 DEF WriteConfig
  <2> QED BY <1>2, <2>1 DEF WriteConfig
<1>3. CASE AddBypass \/ AddLink \/ SetConf \/ LinkUp \/ AddRoutes \/ ShowLink
  <2>1. "openvpn.pid" \in files' <=> "openvpn.pid" \in files
    BY <1>3 DEF AddBypass, AddLink, SetConf, LinkUp, AddRoutes, ShowLink
  <2> QED BY <1>3, <2>1 DEF AddBypass, AddLink, SetConf, LinkUp, AddRoutes, ShowLink
<1>4. CASE DeleteLink \/ DeleteRoute \/ Poll
  <2>1. "openvpn.pid" \in files' <=> "openvpn.pid" \in files
    BY <1>4 DEF DeleteLink, DeleteRoute, Poll
  <2> QED BY <1>4, <2>1 DEF DeleteLink, DeleteRoute, Poll
<1>5. CASE Terminate
  <2>1. process' \in [Pids -> States]
    BY <1>5 DEF Terminate, Told
  <2>2. handle' = None /\ target' \in {pidFile, target} /\ log' = log
    BY <1>5 DEF Terminate
  <2>3. pidFile' \in {pidFile, None} /\ (pidFile' # None <=> "openvpn.pid" \in files')
    BY <1>5, RemovePid DEF Terminate
  <2> QED BY <2>1, <2>2, <2>3
<1>6. CASE Kill
  <2>1. process' \in [Pids -> States] /\ UNCHANGED <<handle, log>> /\ target' = None
    BY <1>6 DEF Kill
  <2>2. pidFile' \in {pidFile, None} /\ (pidFile' # None <=> "openvpn.pid" \in files')
    BY <1>6, RemovePid DEF Kill
  <2> QED BY <2>1, <2>2
<1>7. CASE Spawn
  <2>1. /\ process' \in [Pids -> States]
        /\ {handle', target'} \subseteq Pids \cup {None}
        /\ log' \in {log, "empty"}
    BY <1>7 DEF Spawn, SpawnFails
  <2>2. pidFile' \in {pidFile, None} /\ (pidFile' # None <=> "openvpn.pid" \in files')
    BY <1>7 DEF Spawn, SpawnFails
  <2> QED BY <2>1, <2>2
<1>8. ASSUME NEW p \in Pids, WritePid(p) PROVE ProcTyped'
  BY <1>8 DEF WritePid
<1>9. ASSUME NEW p \in Pids, Completes(p) \/ Scrolls(p) PROVE ProcTyped'
  BY <1>9 DEF Completes, Scrolls
<1>10. ASSUME NEW p \in Pids, Exits(p) PROVE ProcTyped'
  BY <1>10 DEF Exits
<1>11. CASE Reused \/ LinkLost \/ UNCHANGED vars
  BY <1>11 DEF Reused, LinkLost, vars
<1>12. CASE Restart
  BY <1>12 DEF Restart
<1> QED
  BY <1>1, <1>2, <1>3, <1>4, <1>5, <1>6, <1>7, <1>8, <1>9, <1>10, <1>11, <1>12, Kinds
  DEF Elsewhere

\* What the steps of the processes do to them.
LEMMA Moves ==
  ASSUME ProcTyped, Elsewhere
  PROVE  /\ handle' = handle /\ target' = target /\ \A p \in Pids : Running(p)' => Running(p)
         /\ \A f \in {"client.ovpn", "auth.txt"} : f \in files' <=> f \in files
         /\ \A f \in {"client.ovpn", "auth.txt"} : f \in dirty' <=> f \in dirty
<1>1. ASSUME NEW p \in Pids, WritePid(p) \/ Completes(p) \/ Scrolls(p) \/ Exits(p)
      PROVE  /\ handle' = handle /\ target' = target
             /\ \A q \in Pids : Running(q)' => Running(q)
  BY <1>1 DEF WritePid, Completes, Scrolls, Exits, Running, ProcTyped
<1>2. ASSUME Reused \/ LinkLost \/ UNCHANGED vars
      PROVE  /\ handle' = handle /\ target' = target
             /\ \A q \in Pids : Running(q)' => Running(q)
  BY <1>2 DEF Reused, LinkLost, vars, openvpn, Running, ProcTyped
<1>3. /\ \A f \in {"client.ovpn", "auth.txt"} : f \in files' <=> f \in files
      /\ \A f \in {"client.ovpn", "auth.txt"} : f \in dirty' <=> f \in dirty
  BY DEF Elsewhere, WritePid, Completes, Scrolls, Exits, Reused, LinkLost, vars, history
<1>4. handle' = handle /\ target' = target /\ \A p \in Pids : Running(p)' => Running(p)
  BY <1>1, <1>2 DEF Elsewhere
<1> QED BY <1>3, <1>4

LEMMA AwaitedSteps == CallInv /\ ProcTyped /\ Awaited /\ [Next]_vars => Awaited'
<1> SUFFICES ASSUME CallInv, ProcTyped, Awaited, [Next]_vars PROVE Awaited'
  OBVIOUS
<1> USE NoFault DEF Awaited, openvpn
<1>1. CASE Disconnect \/ \E t \in Tunnel : Connect(t)
  BY <1>1, CallBegins DEF Disconnect, Connect, Settled
<1>2. CASE WriteConfig \/ AddBypass \/ AddLink \/ SetConf \/ LinkUp \/ AddRoutes \/ ShowLink
  <2>1. target' = target /\ step \in StartSteps /\ (Inside \/ WireguardEnd)
    BY <1>2, WireguardKinds
    DEF WriteConfig, AddBypass, AddLink, SetConf, LinkUp, AddRoutes, ShowLink
  <2>2. step' # "wait"
    BY <2>1, WireguardEnds DEF Inside, Within, Goes, WireguardEnd, Settled, StartSteps
  <2> QED BY <2>1, <2>2 DEF StartSteps
<1>3. CASE DeleteLink \/ DeleteRoute
  <2>1. target' = target /\ step \in {"link", "unroute"} /\ ((step = "link" /\ Inside) \/ StopEnd)
    BY <1>3, OtherKinds DEF DeleteLink, DeleteRoute
  <2>2. step' # "wait"
    BY <2>1, StopEnds DEF Inside, Within, Goes, StopEnd, Settled
  <2> QED BY <2>1, <2>2
<1>4. CASE Terminate
  <2>1. CASE Remove /\ UNCHANGED target
    <3>1. step' # "wait"
      BY <1>4, <2>1, StopEnds DEF Terminate, Remove, Settled
    <3> QED BY <1>4, <2>1, <3>1 DEF Terminate
  <2>2. CASE Goes("wait") /\ target' = pidFile /\ pidFile # None
    BY <2>2 DEF Goes
  <2> QED BY <1>4, <2>1, <2>2 DEF Terminate
<1>5. CASE Kill
  BY <1>5, StopEnds DEF Kill, Remove, Settled
<1>6. CASE Spawn \/ Poll
  <2>1. target' = target /\ step \in {"spawn", "poll"} /\ (Within("spawn", "poll") \/ OpenvpnEnd)
    BY <1>6 DEF Spawn, SpawnFails, Poll, Within, OpenvpnEnd
  <2>2. step' # "wait"
    BY <2>1, OpenvpnEnds DEF Within, Goes, OpenvpnEnd, Settled
  <2> QED BY <2>1, <2>2
<1>7. CASE Elsewhere
  BY <1>7, Moves, SameOwners DEF call
<1>8. CASE Restart
  BY <1>8 DEF Restart
<1> QED BY <1>1, <1>2, <1>3, <1>4, <1>5, <1>6, <1>7, <1>8, Kinds

LEMMA OpenvpnSteps == CallInv /\ ProcTyped /\ OpenvpnInv /\ [Next]_vars => OpenvpnInv'
<1> SUFFICES ASSUME CallInv, ProcTyped, OpenvpnInv, [Next]_vars PROVE OpenvpnInv'
  OBVIOUS
<1> USE DEF openvpn
<1>a. ASSUME UNCHANGED <<process, handle>>, handle # None => ChildOwned',
             ~OpenvpnPending' => OpenvpnLeft'
      PROVE  OpenvpnInv'
  BY <1>a DEF OpenvpnInv, Running
<1>1. CASE Disconnect \/ \E t \in Tunnel : Connect(t)
  <2>1. OpenvpnPending' /\ ChildOwned'
    BY <1>1, CallBegins DEF OpenvpnPending, ChildOwned, Settled
  <2> QED BY <1>1, <2>1, <1>a DEF Disconnect, Connect
<1>2. CASE WriteConfig \/ AddBypass \/ AddLink \/ SetConf \/ LinkUp \/ AddRoutes \/ ShowLink
  <2>1. step \in StartSteps /\ ~OpenvpnPending
    BY <1>2, WireguardKinds, OnlyOneStarts
  <2>2. handle = None /\ OpenvpnLeft
    BY <2>1 DEF OpenvpnInv, OpenvpnPending, ChildOwned
  <2>3. OpenvpnLeft' /\ UNCHANGED <<process, handle>>
    <3>1. dirty' = dirty /\ files' \subseteq files \cup WireguardFiles
      BY <1>2
      DEF WriteConfig, AddBypass, AddLink, SetConf, LinkUp, AddRoutes, ShowLink, history, WireguardFiles
    <3>2. UNCHANGED <<process, handle>>
      BY <1>2 DEF WriteConfig, AddBypass, AddLink, SetConf, LinkUp, AddRoutes, ShowLink
    <3> QED BY <2>2, <3>1, <3>2 DEF OpenvpnLeft, WireguardFiles
  <2> QED BY <2>2, <2>3, <1>a
<1>3. CASE DeleteLink
  <2>1. Inside /\ step = "link" /\ step' = "unroute" /\ UNCHANGED <<files, process, handle>>
    BY <1>3, OtherKinds DEF DeleteLink, Goes
  <2>2. todo' = todo /\ result' = result /\ (OpenvpnPending => OpenvpnPending')
    BY <2>1, InsideSteps
  <2>3. OpenvpnLeft => OpenvpnLeft'
    BY <1>3 DEF DeleteLink, OpenvpnLeft
  <2> QED BY <2>1, <2>2, <2>3, <1>a DEF OpenvpnInv, ChildOwned
<1>4. CASE DeleteRoute
  <2>1. StopEnd /\ step = "unroute" /\ UNCHANGED <<process, handle>>
    BY <1>4, OtherKinds DEF DeleteRoute
  <2>2. /\ OpenvpnPending => OpenvpnPending'
        /\ ChildOwned => ChildOwned'
    BY <2>1, StopEnds DEF StopEnd, ChildOwned, Settled, CallInv, Doing
  <2>3. OpenvpnLeft => OpenvpnLeft'
    BY <1>4 DEF DeleteRoute, OpenvpnLeft, WireguardFiles
  <2> QED BY <2>1, <2>2, <2>3, <1>a DEF OpenvpnInv
<1>5. CASE Terminate
  <2>1. handle' = None /\ \A p \in Pids : ~Running(p)'
    <3>1. ASSUME NEW p \in Pids PROVE ~Running(p)'
      <4>1. CASE Running(p)
        <5>1. p \in {handle, pidFile} \ {None}
          BY <4>1, NoFault DEF OpenvpnInv
        <5>2. process'[p] = Told(p)
          BY <1>5, <5>1 DEF Terminate
        <5> QED BY <4>1, <5>2 DEF Told, Running
      <4>2. CASE ~Running(p)
        BY <1>5, <4>2 DEF Terminate, Told, Running
      <4> QED BY <4>1, <4>2
    <3> QED BY <1>5, <3>1 DEF Terminate
  <2>2. ~OpenvpnPending' => OpenvpnLeft'
    <3>1. CASE Goes("wait") /\ UNCHANGED <<files, history>>
      <4>1. OpenvpnPending => OpenvpnPending'
        BY <1>5, <3>1, InsideSteps DEF Inside, Within, Terminate
      <4> QED BY <3>1, <4>1 DEF OpenvpnInv, OpenvpnLeft, history
    <3>2. CASE Remove
      BY <3>2 DEF Remove, OpenvpnLeft
    <3> QED BY <1>5, <3>1, <3>2 DEF Terminate
  <2> QED BY <2>1, <2>2 DEF OpenvpnInv
<1>6. CASE Kill
  <2>1. handle = None
    BY <1>6 DEF Kill, OpenvpnInv, ChildOwned, CallInv, Doing
  <2>2. handle' = None /\ \A p \in Pids : Running(p)' => Running(p)
    BY <1>6, <2>1 DEF Kill, Running, ProcTyped
  <2>3. OpenvpnLeft'
    BY <1>6 DEF Kill, Remove, OpenvpnLeft
  <2> QED BY <2>1, <2>2, <2>3, NoFault DEF OpenvpnInv
<1>7. CASE Spawn
  <2>1. step = "spawn" /\ ~OpenvpnPending /\ handle = None
    BY <1>7, OnlyOneStarts DEF Spawn, OpenvpnInv, OpenvpnPending, ChildOwned
  <2>2. \A p \in Pids : ~Running(p)
    BY <2>1, NoFault DEF OpenvpnInv
  <2>3. CASE Goes("poll") /\ \E p \in Pids :
               process' = [process EXCEPT ![p] = "starting"] /\ handle' = p
    <3>1. \A p \in Pids : Running(p)' => handle' = p
      BY <2>2, <2>3 DEF Running, ProcTyped
    <3>2. OpenvpnPending' /\ ChildOwned'
      BY <2>3 DEF OpenvpnPending, ChildOwned, Goes
    <3> QED BY <3>1, <3>2 DEF OpenvpnInv
  <2>4. CASE SpawnFails
    <3>1. OpenvpnPending'
      BY <2>1, <2>4, OpenvpnEnds DEF SpawnFails, OpenvpnPending
    <3> QED BY <2>1, <2>4, <3>1, <1>a DEF SpawnFails
  <2> QED BY <1>7, <2>3, <2>4 DEF Spawn
<1>8. CASE Poll
  <2>1. OpenvpnPending' /\ ChildOwned'
    BY <1>8, OtherKinds, OpenvpnEnds DEF OpenvpnEnd, OpenvpnPending, ChildOwned, Settled
  <2> QED BY <1>8, <2>1, <1>a DEF Poll
<1>9. CASE Elsewhere
  <2>1. OpenvpnPending' = OpenvpnPending /\ ChildOwned' = ChildOwned
    BY <1>9, SameOwners DEF call, ChildOwned
  <2> QED BY <1>9, <2>1, Moves DEF OpenvpnInv, OpenvpnLeft
<1>10. CASE Restart
  <2>1. OpenvpnPending' /\ handle' = None /\ \A p \in Pids : ~Running(p)'
    BY <1>10, RestartCall DEF Restart, OpenvpnPending, Running
  <2> QED BY <2>1 DEF OpenvpnInv
<1> QED BY <1>1, <1>2, <1>3, <1>4, <1>5, <1>6, <1>7, <1>8, <1>9, <1>10, Kinds
-----------------------------------------------------------------------------
(***************************************************************************)
(* The log and the process id in the file.                                 *)
(***************************************************************************)
Calls ==
  \/ Disconnect \/ \E t \in Tunnel : Connect(t)
  \/ WriteConfig \/ AddBypass \/ AddLink \/ SetConf \/ LinkUp \/ AddRoutes \/ ShowLink
  \/ DeleteLink \/ DeleteRoute \/ Poll \/ LinkLost \/ UNCHANGED vars

\* They leave the process alone.
LEMMA CallsElsewhere ==
  ASSUME ProcTyped, Calls
  PROVE  /\ UNCHANGED openvpn
         /\ "openvpn.pid" \in dirty => "openvpn.pid" \in dirty'
<1> USE DEF openvpn, history, vars, WireguardFiles
<1>1. CASE Disconnect \/ \E t \in Tunnel : Connect(t)
  BY <1>1 DEF Disconnect, Connect
<1>2. CASE WriteConfig \/ AddBypass \/ AddLink \/ SetConf \/ LinkUp \/ AddRoutes \/ ShowLink
  BY <1>2 DEF WriteConfig, AddBypass, AddLink, SetConf, LinkUp, AddRoutes, ShowLink
<1>3. CASE DeleteLink \/ DeleteRoute \/ Poll \/ LinkLost \/ UNCHANGED vars
  BY <1>3 DEF DeleteLink, DeleteRoute, Poll, LinkLost
<1> QED BY <1>1, <1>2, <1>3 DEF Calls

LEMMA PidKinds ==
  ASSUME [Next]_vars
  PROVE  \/ Calls \/ Terminate \/ Kill \/ Spawn \/ Reused \/ Restart
         \/ \E p \in Pids : WritePid(p) \/ Completes(p) \/ Scrolls(p) \/ Exits(p)
BY DEF Next, Calls

LEMMA LogSteps == ProcTyped /\ OpenvpnInv /\ LogInv /\ [Next]_vars => LogInv'
<1> SUFFICES ASSUME ProcTyped, OpenvpnInv, LogInv, [Next]_vars PROVE LogInv'
  OBVIOUS
<1> USE DEF LogInv
<1>1. CASE Calls
  BY <1>1, CallsElsewhere DEF openvpn
<1>2. CASE Terminate \/ Kill
  <2>1. /\ log' = log
        /\ \A p \in Pids : process'[p] \in {"starting", "running"} => process[p] \in {"starting", "running"}
    BY <1>2 DEF Terminate, Told, Kill, ProcTyped
  <2> QED BY <2>1
<1>3. CASE Spawn
  <2>1. log' = "empty" \/ (log' = log /\ process' = process)
    BY <1>3 DEF Spawn, SpawnFails
  <2> QED BY <2>1
<1>4. ASSUME NEW p \in Pids, WritePid(p) \/ Exits(p) PROVE LogInv'
  <2>1. /\ log' \in {log, "failed"}
        /\ \A q \in Pids : process'[q] \in {"starting", "running"} => process[q] \in {"starting", "running"}
    BY <1>4 DEF WritePid, Exits, ProcTyped
  <2> QED BY <2>1
<1>5. ASSUME NEW p \in Pids, Completes(p) \/ Scrolls(p) PROVE LogInv'
  <2>1. Running(p) /\ process'[p] = "ready" /\ \A q \in Pids \ {p} : process'[q] = process[q]
    BY <1>5 DEF Completes, Scrolls, Running, ProcTyped
  <2>2. \A q \in Pids \ {p} : process[q] \notin {"starting", "running"}
    BY <2>1 DEF OpenvpnInv, Running
  <2> QED BY <2>1, <2>2
<1>6. CASE Reused \/ Restart
  <2>1. log' = log
    BY <1>6 DEF Reused, Restart
  <2>2. \A p \in Pids : process'[p] \in {"starting", "running"} => process[p] \in {"starting", "running"}
    BY <1>6 DEF Reused, Restart, ProcTyped
  <2> QED BY <2>1, <2>2
<1> QED BY <1>1, <1>2, <1>3, <1>4, <1>5, <1>6, PidKinds

\* Who is to tell another process that has the id of the file.
StrayOwned == boot = "again" /\ (todo = <<>> \/ Has(todo, "stop openvpn"))

LEMMA StillAgain ==
  ASSUME NEW list, Continue(list), Has(todo', "stop openvpn")
  PROVE  boot' = boot
BY NoCalls DEF Continue

\* They keep the owner of such a process.
LEMMA StrayKept ==
  ASSUME CallInv, Calls, StrayOwned
  PROVE  StrayOwned'
<1>1. CASE Disconnect \/ \E t \in Tunnel : Connect(t)
  <2>1. Has(todo', "stop openvpn") /\ boot' = boot
    BY <1>1, CallBegins, StillAgain DEF Disconnect, Connect
  <2> QED BY <2>1 DEF StrayOwned
<1>2. CASE WriteConfig \/ AddBypass \/ AddLink \/ SetConf \/ LinkUp \/ AddRoutes \/ ShowLink \/ Poll
  BY <1>2, WireguardKinds, OtherKinds, StartIsAlone DEF StrayOwned
<1>3. CASE DeleteLink
  BY <1>3 DEF DeleteLink, Goes, StrayOwned
<1>4. CASE DeleteRoute
  <2>1. StopEnd /\ step = "unroute"
    BY <1>4, OtherKinds
  <2> QED BY <2>1, StopEnds, StillAgain DEF StopEnd, StrayOwned, CallInv, Doing
<1>5. CASE LinkLost \/ UNCHANGED vars
  BY <1>5 DEF LinkLost, vars, call, StrayOwned
<1> QED BY <1>1, <1>2, <1>3, <1>4, <1>5 DEF Calls

LEMMA PidSteps ==
  CallInv /\ ProcTyped /\ OpenvpnInv /\ Awaited /\ LogInv /\ PidInv /\ [Next]_vars => PidInv'
<1> SUFFICES ASSUME CallInv, ProcTyped, OpenvpnInv, Awaited, LogInv, PidInv, [Next]_vars,
                    "openvpn.pid" \notin dirty'
             PROVE  OwnPid'
  BY DEF PidInv
<1> USE NoFault
<1>1. CASE Calls
  <2>1. OwnPid /\ UNCHANGED openvpn
    BY <1>1, CallsElsewhere DEF PidInv
  <2> QED BY <1>1, <2>1, StrayKept DEF OwnPid, StrayOwned, openvpn
<1>2. CASE Terminate
  <2>1. \A p \in Pids : process'[p] \notin {"running", "ready"}
    <3>1. ASSUME NEW p \in Pids PROVE process'[p] \notin {"running", "ready"}
      <4>1. CASE p \in {handle, pidFile} \ {None}
        BY <1>2, <4>1 DEF Terminate, Told
      <4>2. CASE p \notin {handle, pidFile} \ {None}
        BY <1>2, <4>2 DEF Terminate, OpenvpnInv, Running
      <4> QED BY <4>1, <4>2
    <3> QED BY <3>1
  <2>2. CASE Goes("wait") /\ target' = pidFile /\ UNCHANGED <<files, pidFile, history>>
    <3>1. OwnPid /\ pidFile' = pidFile /\ target' = pidFile /\ log' = log
      BY <1>2, <2>2 DEF PidInv, history, Terminate
    <3>2. call'[1] = call[1] /\ boot' = boot /\ todo' = todo
      BY <2>2 DEF Goes, call
    <3>3. pidFile # None => process'[pidFile] = Told(pidFile)
      BY <1>2 DEF Terminate, ProcTyped
    <3>4. pidFile # None => /\ process'[pidFile] \notin {"starting", "stopping"}
                            /\ process'[pidFile] = "ending" => log # "completed"
                            /\ process'[pidFile] = "other" => process[pidFile] = "other"
      BY <3>1, <3>3 DEF OwnPid, Told, LogInv, ProcTyped
    <3> QED BY <2>1, <3>1, <3>2, <3>4 DEF OwnPid
  <2>3. CASE Remove /\ UNCHANGED target /\ ~(pidFile # None /\ Alive(pidFile))
    <3>1. target' = None
      BY <1>2, <2>3 DEF Awaited, Terminate
    <3>2. pidFile' \in {pidFile, None} /\ \A p \in Pids : process[p] = "none" => process'[p] = "none"
      BY <1>2, <2>3, RemovePid DEF Terminate, Told
    <3>3. pidFile' # None => process'[pidFile'] = "none"
      BY <2>3, <3>2 DEF Alive, ProcTyped
    <3> QED BY <2>1, <3>1, <3>3 DEF OwnPid
  <2> QED BY <1>2, <2>2, <2>3 DEF Terminate
<1>3. CASE Kill
  <2>1. /\ target' = None /\ pidFile' \in {pidFile, None}
        /\ pidFile' = None \/ "openvpn.pid" \notin dirty
    <3>1. PICK gone \in Removed :
            /\ pidFile' = IF "openvpn.pid" \in gone THEN None ELSE pidFile
            /\ dirty' = (dirty \ gone) \cup ((files \cap {"client.ovpn", "auth.txt"}) \ gone)
      BY <1>3 DEF Kill, Remove
    <3> QED BY <1>3, <3>1 DEF Kill
  <2>2. \A p \in Pids : process'[p] \notin {"running", "ready"}
    BY <1>3 DEF Kill, OpenvpnInv, Running, ChildOwned, CallInv, Doing, ProcTyped
  <2>3. pidFile' # None => process'[pidFile'] = "none"
    <3>1. ASSUME pidFile' # None PROVE process'[pidFile'] = "none"
      <4>1. target = pidFile /\ pidFile' = pidFile
        BY <1>3, <2>1, <3>1 DEF PidInv, OwnPid, Awaited, Kill
      <4> QED BY <1>3, <3>1, <4>1 DEF Kill, ProcTyped
    <3> QED BY <3>1
  <2> QED BY <2>1, <2>2, <2>3 DEF OwnPid
<1>4. CASE Spawn
  <2>1. step = "spawn" /\ handle = None /\ target' = None
    BY <1>4, OnlyOneStarts DEF Spawn, OpenvpnInv, OpenvpnPending, ChildOwned, Awaited
  <2>2. \A p \in Pids : ~Running(p)
    BY <2>1 DEF OpenvpnInv
  <2>3. CASE SpawnFails
    <3>1. PICK gone \in Removed :
            /\ pidFile' = IF "openvpn.pid" \in gone THEN None ELSE pidFile
            /\ dirty' = dirty \ gone
            /\ "openvpn.pid" \notin gone => log' = log
            /\ process' = process
      BY <2>3 DEF SpawnFails, Removed, OpenvpnFiles
    <3>2. CASE pidFile' = None
      BY <2>1, <2>2, <3>1, <3>2 DEF OwnPid, Running
    <3>3. CASE pidFile' # None
      <4>1. OwnPid /\ pidFile' = pidFile /\ log' = log
        BY <3>1, <3>3 DEF PidInv
      <4>2. ~StrayOwned
        BY <2>1, StartIsAlone DEF StrayOwned
      <4> QED BY <2>1, <2>2, <3>1, <4>1, <4>2 DEF OwnPid, StrayOwned, Running
    <3> QED BY <3>2, <3>3
  <2>4. CASE pidFile' = None /\ \E p \in Pids : process' = [process EXCEPT ![p] = "starting"]
    BY <2>1, <2>2, <2>4 DEF OwnPid, Running, ProcTyped
  <2> QED BY <1>4, <2>3, <2>4 DEF Spawn
<1>5. ASSUME NEW p \in Pids, WritePid(p) PROVE OwnPid'
  <2>1. /\ log' = log /\ pidFile' = p /\ process[p] = "starting" /\ process'[p] = "running"
        /\ \A q \in Pids \ {p} : process'[q] = process[q]
        /\ target' = target /\ step' = step
    BY <1>5 DEF WritePid, ProcTyped, call
  <2>2. Running(p) /\ handle = p
    BY <2>1 DEF Running, OpenvpnInv
  <2>3. \A q \in Pids \ {p} : process[q] \notin {"running", "ready"}
    BY <2>2 DEF OpenvpnInv, Running
  <2>4. target = None
    BY <2>2 DEF Awaited, OpenvpnInv, ChildOwned, CallInv, Doing
  <2> QED BY <2>1, <2>3, <2>4 DEF OwnPid
<1>6. ASSUME NEW p \in Pids, Completes(p) \/ Scrolls(p) PROVE OwnPid'
  <2>1. /\ OwnPid /\ pidFile' = pidFile /\ target' = target /\ call' = call
        /\ process[p] \in {"running", "ready"} /\ process'[p] = "ready"
        /\ \A q \in Pids \ {p} : process'[q] = process[q]
    BY <1>6 DEF Completes, Scrolls, ProcTyped, history, PidInv
  <2>2. pidFile = p
    BY <2>1 DEF OwnPid
  <2> QED BY <2>1, <2>2 DEF OwnPid, call
<1>7. ASSUME NEW p \in Pids, Exits(p) PROVE OwnPid'
  <2>1. /\ OwnPid /\ pidFile' = pidFile /\ target' = target /\ call' = call
        /\ process'[p] = "none" /\ log' \in {log, "failed"}
        /\ \A q \in Pids \ {p} : process'[q] = process[q]
    BY <1>7 DEF Exits, ProcTyped, history, PidInv
  <2> QED BY <2>1 DEF OwnPid, call, ProcTyped
<1>8. CASE Reused
  BY <1>8 DEF Reused
<1>9. CASE Restart
  BY <1>9 DEF Restart, OwnPid, ProcTyped
<1> QED BY <1>1, <1>2, <1>3, <1>4, <1>5, <1>6, <1>7, <1>8, <1>9, PidKinds
-----------------------------------------------------------------------------
DriversInv ==
  /\ CallInv /\ NetTyped /\ WireguardInv
  /\ ProcTyped /\ OpenvpnInv /\ Awaited /\ LogInv /\ PidInv

LEMMA DriversInvInit == Init => DriversInv
<1> SUFFICES ASSUME Init PROVE DriversInv
  OBVIOUS
<1>1. CallInv
  BY CallInit
<1>a. 0 \in 0..MaxFaults /\ 0 \in 0..MaxCalls
  BY NoFault
<1>2. NetTyped /\ WireguardInv
  BY <1>a DEF Init, NetTyped, WireguardInv, WireguardLeft
<1>3. ProcTyped /\ OpenvpnInv
  BY NoFault DEF Init, ProcTyped, States, OpenvpnInv, OpenvpnLeft, Running
<1>4. Awaited /\ LogInv /\ PidInv
  BY NoFault DEF Init, Awaited, LogInv, PidInv, OwnPid
<1> QED BY <1>1, <1>2, <1>3, <1>4 DEF DriversInv

LEMMA DriversInvAlways == Spec => []DriversInv
<1>1. DriversInv /\ [Next]_vars => DriversInv'
  BY CallSteps, NetTypedSteps, WireguardSteps, ProcTypedSteps, OpenvpnSteps, AwaitedSteps, LogSteps,
     PidSteps
  DEF DriversInv
<1> QED BY <1>1, DriversInvInit, PTL DEF Spec

\* What the drivers keep of the container is what wireguard.ts and openvpn.ts can make of it; the
\* route to the endpoint that a cleanup knows of is there only with its file.
THEOREM DriversTyped == Spec => []TypeOK
<1>1. DriversInv => TypeOK
  <2> SUFFICES ASSUME DriversInv PROVE TypeOK
    OBVIOUS
  <2>1. /\ todo \in Seq({"stop wireguard", "stop openvpn", "start wireguard", "start openvpn"})
        /\ step \in Steps /\ (step = "idle" <=> todo = <<>>)
        /\ result \in Tunnel \cup {"off"} /\ boot \in {"first", "again", "cleaned"}
    BY DEF DriversInv, CallInv, Doing, DriverCalls
  <2> QED BY <2>1 DEF DriversInv, TypeOK, Steps, NetTyped, WireguardInv, ProcTyped, Awaited
<1> QED BY <1>1, DriversInvAlways, PTL

\* Wherever a connect fails, and whatever a restart finds in /tmp, the cleanups of wireguard.ts and
\* stopConnection of openvpn.ts leave nothing of a tunnel other than the one that the last call
\* brought up, but what they tried to remove and could not.
THEOREM NothingIsLeft == Spec => []NothingLeft
<1>1. DriversInv => NothingLeft
  <2> SUFFICES ASSUME DriversInv, step = "idle", boot # "again" PROVE NothingLeft
    BY DEF NothingLeft
  <2>1. todo = <<>> /\ \A c : ~Has(todo, c)
    BY NoCalls DEF DriversInv, CallInv, Doing
  <2>2. /\ result # "wireguard" => ~WireguardPending
        /\ result # "openvpn" => ~OpenvpnPending /\ ~ChildOwned
    BY <2>1 DEF WireguardPending, OpenvpnPending, ChildOwned, Untouched, StartSteps
  <2>3. ASSUME result # "wireguard"
        PROVE  /\ link # "none" => "link" \in dirty
               /\ "endpoint" \in routes => "endpoint-route" \in dirty
               /\ files \cap {"wg.conf", "wg.setconf"} \subseteq dirty
    <3>1. WireguardLeft /\ ("endpoint" \in routes => "endpoint-route" \in files)
      BY <2>2, <2>3 DEF DriversInv, WireguardInv
    <3> QED BY <3>1 DEF WireguardLeft, WireguardFiles
  <2>4. ASSUME result # "openvpn"
        PROVE  /\ files \cap {"client.ovpn", "auth.txt"} \subseteq dirty
               /\ \A p \in Pids : ~Running(p)
    <3>1. OpenvpnLeft /\ handle = None
      BY <2>2, <2>4 DEF DriversInv, OpenvpnInv
    <3> QED BY <3>1, NoFault DEF DriversInv, OpenvpnInv, OpenvpnLeft
  <2> QED BY <2>3, <2>4 DEF NothingLeft
<1> QED BY <1>1, DriversInvAlways, PTL

\* From the first call after a restart on, and as long as no process has written openvpn.pid late
\* and no other has been given the id in it, the file names the OpenVPN whose tunnel is up and what
\* isConnectionActive of openvpn.ts takes for the tunnel is one that has come up.
THEOREM ActiveIsOurs == Spec => []ActiveIsOwn
<1>1. DriversInv => ActiveIsOwn
  <2> SUFFICES ASSUME DriversInv, boot # "again", "openvpn.pid" \notin dirty
               PROVE  /\ pidFile # None => process[pidFile] # "other"
                      /\ OpenvpnActive => process[pidFile] \in {"ready", "dying"}
                      /\ \A p \in Pids : process[p] = "ready" => pidFile = p
    BY DEF ActiveIsOwn
  <2>1. OwnPid /\ LogInv /\ ProcTyped
    BY DEF DriversInv, PidInv
  <2>2. OpenvpnActive => process[pidFile] \in {"ready", "dying"}
    BY <2>1 DEF OwnPid, LogInv, ProcTyped, OpenvpnActive, Alive, States
  <2> QED BY <2>1, <2>2 DEF OwnPid
<1> QED BY <1>1, DriversInvAlways, PTL
=============================================================================
