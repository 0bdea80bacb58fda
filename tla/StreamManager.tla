--------------------------- MODULE StreamManager ---------------------------
(***************************************************************************)
(* The live stream multiplexer (internal/stream): Manager, its sessions    *)
(* for one stream key, and the requests of serveLiveMultiplexed that       *)
(* subscribe to them.                                                      *)
(*                                                                         *)
(* A session is one provider connection.  Its goroutine run() opens the    *)
(* connection, waits for a first viewer, and copies every chunk it reads   *)
(* to the queue of each viewer.  A request finds or creates the session,   *)
(* waits until it is ready, becomes a viewer and takes chunks until the    *)
(* stream ends or its client leaves.                                       *)
(*                                                                         *)
(* What runs under one mutex is one step; between two critical sections    *)
(* anything may happen.  A chunk is its number in the session.             *)
(*                                                                         *)
(* Definitions named Faulty... are wrong on purpose: each is what a slip   *)
(* in the code would make of the definition that follows it, and shows     *)
(* that a property notices.                                                *)
(***************************************************************************)
EXTENDS Naturals, Sequences, FiniteSets

CONSTANTS
  Requests,     \* client requests for the stream
  MaxSessions,  \* bound: provider connections
  MaxChunks,    \* bound: chunks one connection delivers
  QueueSize,    \* viewerQueueSize
  Gone          \* a viewer that was removed while broadcast still held it

ASSUME StreamAssumption ==
  /\ MaxSessions \in Nat
  /\ MaxChunks \in Nat
  /\ QueueSize \in Nat \ {0}
  /\ Gone \notin Requests

Sessions == 1..MaxSessions
NoSession == 0

\* Where the goroutine of a session is: in run, broadcast or finish.
Phase == {"none", "opening", "waiting", "reading", "sending", "blocked", "fanout",
          "emptied", "finish", "clear", "done", "unmap", "close", "ended"}

\* Where a request is: in Subscribe, Next, Remove or cancelIfEmpty.
Stage == {"idle", "retry", "waiting", "checked", "added", "viewing", "leaving", "cancelling"}

VARIABLES
  current,   \* manager.sessions[key]
  created,   \* sessions created so far
  \* per session
  phase, canceled, ready, openErr, started, done, viewers,
  read,      \* chunks read from the provider
  last,      \* the read that returned chunk read[s] also returned EOF
  only,      \* the viewer the fast path of broadcast waits for
  cause,     \* history: why run() left, "" until then
  \* per request
  stage, on, queue, closed, taken,
  eof,       \* Next returned io.EOF
  dropped    \* history: broadcast dropped the viewer for its full queue

managerVars == <<current, created>>
signalVars == <<canceled, ready, openErr, started, done>>
copyVars == <<read, last, only, cause>>
sessionVars == <<phase, signalVars, viewers, copyVars>>
viewerVars == <<queue, closed, taken, eof, dropped>>
requestVars == <<stage, on, viewerVars>>
vars == <<managerVars, sessionVars, requestVars>>

TypeOK ==
  /\ current \in Sessions \cup {NoSession}
  /\ created \in 0..MaxSessions
  /\ phase \in [Sessions -> Phase]
  /\ canceled \in [Sessions -> BOOLEAN]
  /\ ready \in [Sessions -> BOOLEAN]
  /\ openErr \in [Sessions -> BOOLEAN]
  /\ started \in [Sessions -> BOOLEAN]
  /\ done \in [Sessions -> BOOLEAN]
  /\ viewers \in [Sessions -> SUBSET Requests]
  /\ read \in [Sessions -> 0..MaxChunks]
  /\ last \in [Sessions -> BOOLEAN]
  /\ only \in [Sessions -> Requests \cup {Gone}]
  /\ cause \in [Sessions -> {"", "source", "cancel"}]
  /\ stage \in [Requests -> Stage]
  /\ on \in [Requests -> Sessions \cup {NoSession}]
  /\ queue \in [Requests -> Seq(1..MaxChunks)]
  /\ \A r \in Requests : Len(queue[r]) <= QueueSize
  /\ closed \in [Requests -> BOOLEAN]
  /\ taken \in [Requests -> 0..MaxChunks]
  /\ eof \in [Requests -> BOOLEAN]
  /\ dropped \in [Requests -> BOOLEAN]

Init ==
  /\ current = NoSession
  /\ created = 0
  /\ phase = [s \in Sessions |-> "none"]
  /\ canceled = [s \in Sessions |-> FALSE]
  /\ ready = [s \in Sessions |-> FALSE]
  /\ openErr = [s \in Sessions |-> FALSE]
  /\ started = [s \in Sessions |-> FALSE]
  /\ done = [s \in Sessions |-> FALSE]
  /\ viewers = [s \in Sessions |-> {}]
  /\ read = [s \in Sessions |-> 0]
  /\ last = [s \in Sessions |-> FALSE]
  /\ only = [s \in Sessions |-> Gone]
  /\ cause = [s \in Sessions |-> ""]
  /\ stage = [r \in Requests |-> "idle"]
  /\ on = [r \in Requests |-> NoSession]
  /\ queue = [r \in Requests |-> <<>>]
  /\ closed = [r \in Requests |-> FALSE]
  /\ taken = [r \in Requests |-> 0]
  /\ eof = [r \in Requests |-> FALSE]
  /\ dropped = [r \in Requests |-> FALSE]

To(s, p) == phase' = [phase EXCEPT ![s] = p]
Goes(r, p) == stage' = [stage EXCEPT ![r] = p]
-----------------------------------------------------------------------------
(***************************************************************************)
(* Subscribe.                                                              *)
(***************************************************************************)
FaultyNeedsSession == current = NoSession \/ ~ready[current]
NeedsSession == current = NoSession

\* Under the manager's mutex: the session of the key, or a new one.
Subscribe(r) ==
  /\ stage[r] \in {"idle", "retry"}
  /\ IF NeedsSession
     THEN /\ created < MaxSessions
          /\ created' = created + 1
          /\ current' = created + 1
          /\ on' = [on EXCEPT ![r] = created + 1]
          /\ To(created + 1, "opening")
     ELSE /\ on' = [on EXCEPT ![r] = current]
          /\ UNCHANGED <<managerVars, phase>>
  /\ Goes(r, "waiting")
  /\ UNCHANGED <<signalVars, viewers, copyVars, viewerVars>>

\* The request ends and what it held is garbage.
Idle(r) ==
  /\ Goes(r, "idle")
  /\ on' = [on EXCEPT ![r] = NoSession]
  /\ queue' = [queue EXCEPT ![r] = <<>>]
  /\ closed' = [closed EXCEPT ![r] = FALSE]
  /\ taken' = [taken EXCEPT ![r] = 0]
  /\ eof' = [eof EXCEPT ![r] = FALSE]
  /\ dropped' = [dropped EXCEPT ![r] = FALSE]

\* The session is ready: its error, another round if it is done already, or on
\* to addViewer.
Ready(r) ==
  LET s == on[r] IN
  /\ stage[r] = "waiting"
  /\ ready[s]
  /\ \/ openErr[s] /\ Idle(r)
     \/ /\ ~openErr[s] /\ done[s]
        /\ Goes(r, "retry")
        /\ on' = [on EXCEPT ![r] = NoSession]
        /\ UNCHANGED viewerVars
     \/ /\ ~openErr[s] /\ ~done[s]
        /\ Goes(r, "checked")
        /\ UNCHANGED <<on, viewerVars>>
  /\ UNCHANGED <<managerVars, sessionVars>>

\* The first half of Remove and of cancelIfEmpty: was the last viewer seen to
\* go?  The session is canceled after the mutex is released.
LeaveOrCancel(r, left) ==
  IF left = {} THEN Goes(r, "cancelling") /\ UNCHANGED <<on, viewerVars>> ELSE Idle(r)

FaultyGivesUp(r) ==
  /\ stage[r] = "waiting"
  /\ Idle(r)
  /\ UNCHANGED <<managerVars, sessionVars>>

\* The client leaves before the session is ready: cancelIfEmpty.
GivesUp(r) ==
  /\ stage[r] = "waiting"
  /\ LeaveOrCancel(r, viewers[on[r]])
  /\ UNCHANGED <<managerVars, sessionVars>>

\* s.cancel() after the check.
Cancels(r) ==
  /\ stage[r] = "cancelling"
  /\ canceled' = [canceled EXCEPT ![on[r]] = TRUE]
  /\ Idle(r)
  /\ UNCHANGED <<managerVars, phase, ready, openErr, started, done, viewers, copyVars>>

\* addViewer, under the session's mutex.
AddViewer(r) ==
  /\ stage[r] = "checked"
  /\ viewers' = [viewers EXCEPT ![on[r]] = @ \cup {r}]
  /\ Goes(r, "added")
  /\ UNCHANGED <<managerVars, phase, signalVars, copyVars, on, viewerVars>>

\* addViewer: startOnce.
Starts(r) ==
  /\ stage[r] = "added"
  /\ started' = [started EXCEPT ![on[r]] = TRUE]
  /\ Goes(r, "viewing")
  /\ UNCHANGED <<managerVars, phase, canceled, ready, openErr, done, viewers, copyVars,
                 on, viewerVars>>
-----------------------------------------------------------------------------
(***************************************************************************)
(* Viewers.                                                                *)
(***************************************************************************)
\* Next returns a queued chunk.
Takes(r) ==
  /\ stage[r] = "viewing"
  /\ queue[r] # <<>>
  /\ taken' = [taken EXCEPT ![r] = Head(queue[r])]
  /\ queue' = [queue EXCEPT ![r] = Tail(@)]
  /\ UNCHANGED <<managerVars, sessionVars, stage, on, closed, eof, dropped>>

Drained(r) == closed[r] /\ queue[r] = <<>>

\* Next returns io.EOF: the viewer was closed and its queue is drained.
Ends(r) ==
  /\ stage[r] = "viewing"
  /\ Drained(r)
  /\ eof' = [eof EXCEPT ![r] = TRUE]
  /\ Goes(r, "leaving")
  /\ UNCHANGED <<managerVars, sessionVars, on, queue, closed, taken, dropped>>

\* The client is gone: Next or Write fails.
Leaves(r) ==
  /\ stage[r] = "viewing"
  /\ Goes(r, "leaving")
  /\ UNCHANGED <<managerVars, sessionVars, on, viewerVars>>

FaultyDetach(s, r) == UNCHANGED <<viewers, only>>

\* A viewer that was removed is closed: broadcast no longer waits for it.
Detach(s, r) ==
  /\ viewers' = [viewers EXCEPT ![s] = @ \ {r}]
  /\ only' = [only EXCEPT ![s] = IF @ = r THEN Gone ELSE @]

\* The deferred Remove of the handler.
Remove(r) ==
  /\ stage[r] = "leaving"
  /\ Detach(on[r], r)
  /\ LeaveOrCancel(r, viewers[on[r]] \ {r})
  /\ UNCHANGED <<managerVars, phase, signalVars, read, last, cause>>
-----------------------------------------------------------------------------
(***************************************************************************)
(* run().                                                                  *)
(***************************************************************************)
\* The provider answers 2xx.
Opens(s) ==
  /\ phase[s] = "opening"
  /\ ready' = [ready EXCEPT ![s] = TRUE]
  /\ To(s, "waiting")
  /\ UNCHANGED <<managerVars, canceled, openErr, started, done, viewers, copyVars, requestVars>>

\* openErr is set before ready is closed.
Refused(s) ==
  /\ openErr' = [openErr EXCEPT ![s] = TRUE]
  /\ ready' = [ready EXCEPT ![s] = TRUE]

\* The provider refuses or fails, or the session is canceled.
OpenFails(s) ==
  /\ phase[s] = "opening"
  /\ Refused(s)
  /\ To(s, "finish")
  /\ cause' = [cause EXCEPT ![s] = IF canceled[s] THEN "cancel" ELSE "source"]
  /\ UNCHANGED <<managerVars, canceled, started, done, viewers, read, last, only, requestVars>>

\* run() returns because of c; finish() is next.
Returns(s, c) ==
  /\ To(s, "finish")
  /\ cause' = [cause EXCEPT ![s] = c]

\* The first viewer starts the copying.
Begins(s) ==
  /\ phase[s] = "waiting"
  /\ \/ started[s] /\ To(s, "reading") /\ UNCHANGED cause
     \/ canceled[s] /\ Returns(s, "cancel")
  /\ UNCHANGED <<managerVars, signalVars, viewers, read, last, only, requestVars>>

\* Body.Read returns a chunk, and maybe EOF with it.
Reads(s) ==
  /\ phase[s] = "reading"
  /\ read[s] < MaxChunks
  /\ read' = [read EXCEPT ![s] = @ + 1]
  /\ \E e \in BOOLEAN : last' = [last EXCEPT ![s] = e]
  /\ To(s, "sending")
  /\ UNCHANGED <<managerVars, signalVars, viewers, only, cause, requestVars>>

\* Body.Read returns an error: the provider's, or the cancellation's.
ReadEnds(s) ==
  /\ phase[s] = "reading"
  /\ Returns(s, IF canceled[s] THEN "cancel" ELSE "source")
  /\ UNCHANGED <<managerVars, signalVars, viewers, read, last, only, requestVars>>

\* broadcast counts the viewers, and releases the mutex.
Sends(s) ==
  /\ phase[s] = "sending"
  /\ IF Cardinality(viewers[s]) = 1
     THEN /\ only' = [only EXCEPT ![s] = CHOOSE r \in viewers[s] : TRUE]
          /\ To(s, "blocked")
     ELSE /\ To(s, "fanout")
          /\ UNCHANGED only
  /\ UNCHANGED <<managerVars, signalVars, viewers, read, last, cause, requestVars>>

\* After broadcast: the read's error, then the context, then the next read.
Continues(s, isCanceled) ==
  IF last[s] \/ isCanceled
  THEN Returns(s, IF isCanceled THEN "cancel" ELSE "source")
  ELSE To(s, "reading") /\ UNCHANGED cause

FaultyHasRoom(r) == Len(queue[r]) <= QueueSize
HasRoom(r) == Len(queue[r]) < QueueSize

FaultyNothingToWaitFor(s) == only[s] \notin {r \in Requests : ~closed[r]}
\* The select of the fast path: the context, or the viewer's closed channel.
NothingToWaitFor(s) == canceled[s] \/ only[s] \notin {r \in Requests : ~closed[r]}

\* The fast path waits for room in the queue of a single viewer.
SendsOne(s) ==
  /\ phase[s] = "blocked"
  /\ \/ /\ NothingToWaitFor(s)
        /\ UNCHANGED queue
     \/ /\ only[s] # Gone
        /\ HasRoom(only[s])
        /\ queue' = [queue EXCEPT ![only[s]] = Append(@, read[s])]
  /\ Continues(s, canceled[s])
  /\ only' = [only EXCEPT ![s] = Gone]
  /\ UNCHANGED <<managerVars, signalVars, viewers, read, last, stage, on, closed, taken,
                 eof, dropped>>

FaultyFanOut(s, full) ==
  /\ viewers' = viewers
  /\ queue' = [r \in Requests |-> IF r \in viewers[s] \ full THEN Append(queue[r], read[s])
                                  ELSE queue[r]]
  /\ UNCHANGED <<closed, dropped>>

\* Every viewer gets the chunk, or is removed and closed if its queue is full.
FanOut(s, full) ==
  /\ viewers' = [viewers EXCEPT ![s] = @ \ full]
  /\ queue' = [r \in Requests |-> IF r \in viewers[s] \ full THEN Append(queue[r], read[s])
                                  ELSE queue[r]]
  /\ closed' = [r \in Requests |-> closed[r] \/ r \in full]
  /\ dropped' = [r \in Requests |-> dropped[r] \/ r \in full]

\* The slow path, under the session's mutex.
SendsAll(s) ==
  /\ phase[s] = "fanout"
  /\ LET full == {r \in viewers[s] : ~HasRoom(r)} IN
     /\ FanOut(s, full)
     /\ IF viewers[s] \ full = {}
        THEN To(s, "emptied") /\ UNCHANGED cause
        ELSE Continues(s, canceled[s])
  /\ UNCHANGED <<managerVars, signalVars, read, last, only, stage, on, taken, eof>>

\* broadcast found no viewer left: it cancels the session.
Emptied(s) ==
  /\ phase[s] = "emptied"
  /\ canceled' = [canceled EXCEPT ![s] = TRUE]
  /\ Continues(s, TRUE)
  /\ UNCHANGED <<managerVars, ready, openErr, started, done, viewers, read, last, only,
                 requestVars>>
-----------------------------------------------------------------------------
(***************************************************************************)
(* finish(), and the deferred Body.Close.                                  *)
(***************************************************************************)
Finishes(s) ==
  /\ phase[s] = "finish"
  /\ canceled' = [canceled EXCEPT ![s] = TRUE]
  /\ To(s, "clear")
  /\ UNCHANGED <<managerVars, ready, openErr, started, done, viewers, copyVars, requestVars>>

\* Every viewer is removed and closed, under the session's mutex.
ClosesViewers(s) ==
  /\ phase[s] = "clear"
  /\ viewers' = [viewers EXCEPT ![s] = {}]
  /\ closed' = [r \in Requests |-> closed[r] \/ r \in viewers[s]]
  /\ To(s, "done")
  /\ UNCHANGED <<managerVars, signalVars, copyVars, stage, on, queue, taken, eof, dropped>>

ClosesDone(s) ==
  /\ phase[s] = "done"
  /\ done' = [done EXCEPT ![s] = TRUE]
  /\ To(s, "unmap")
  /\ UNCHANGED <<managerVars, canceled, ready, openErr, started, viewers, copyVars, requestVars>>

\* Under the manager's mutex: the next request creates a new session.
Unmaps(s) ==
  /\ phase[s] = "unmap"
  /\ current' = IF current = s THEN NoSession ELSE current
  /\ To(s, IF openErr[s] THEN "ended" ELSE "close")
  /\ UNCHANGED <<created, signalVars, viewers, copyVars, requestVars>>

ClosesBody(s) ==
  /\ phase[s] = "close"
  /\ To(s, "ended")
  /\ UNCHANGED <<managerVars, signalVars, viewers, copyVars, requestVars>>
-----------------------------------------------------------------------------
Session(s) ==
  \/ Opens(s) \/ OpenFails(s) \/ Begins(s) \/ Reads(s) \/ ReadEnds(s)
  \/ Sends(s) \/ SendsOne(s) \/ SendsAll(s) \/ Emptied(s)
  \/ Finishes(s) \/ ClosesViewers(s) \/ ClosesDone(s) \/ Unmaps(s) \/ ClosesBody(s)

\* What a request does without its client.
Handler(r) ==
  \/ stage[r] = "retry" /\ Subscribe(r)
  \/ Ready(r) \/ Cancels(r) \/ AddViewer(r) \/ Starts(r) \/ Ends(r) \/ Remove(r)

\* What depends on the client: it asks, reads and leaves as it likes.
Client(r) ==
  \/ stage[r] = "idle" /\ Subscribe(r)
  \/ GivesUp(r) \/ Takes(r) \/ Leaves(r)

Next ==
  \/ \E s \in Sessions : Session(s)
  \/ \E r \in Requests : Handler(r) \/ Client(r)

Spec == Init /\ [][Next]_vars

(***************************************************************************)
(* Goroutines are scheduled, and a provider answers or is timed out        *)
(* (ResponseHeaderTimeout).  No client is obliged to read or to leave.     *)
(***************************************************************************)
FairSpec ==
  /\ Spec
  /\ \A s \in Sessions : WF_vars(Session(s))
  /\ \A r \in Requests : WF_vars(Handler(r))
-----------------------------------------------------------------------------
(***************************************************************************)
(* Properties.                                                             *)
(***************************************************************************)
Alive(s) == phase[s] \notin {"none", "ended"}

\* "Multiple local viewers share one provider connection": two connections for
\* the stream are never wanted at once; an older one is canceled already.
OneUpstream ==
  \A s, t \in Sessions :
    Alive(s) /\ Alive(t) /\ ~canceled[s] /\ ~canceled[t] => s = t

\* A viewer never skips a chunk: what it took and what is queued for it are
\* consecutive.  A viewer that is too slow is dropped instead.
NoGaps ==
  \A r \in Requests :
    /\ \A i \in 1..Len(queue[r]) - 1 : queue[r][i + 1] = queue[r][i] + 1
    /\ taken[r] # 0 /\ queue[r] # <<>> => Head(queue[r]) = taken[r] + 1

\* A stream that ends by itself is not truncated at shutdown: a viewer that saw
\* EOF and was not dropped took the last chunk, unless it came after it.
NotTruncated ==
  \A r \in Requests :
    eof[r] /\ ~dropped[r] /\ cause[on[r]] = "source" => taken[r] \in {0, read[on[r]]}

\* A viewer gets the stream from where it joined to the end, or is dropped
\* (broadcast, finish, Viewer.Next).
StreamWhole == NoGaps /\ NotTruncated

\* A connection nobody waits for or watches is canceled: none is left running.
NoIdleUpstream ==
  \A s \in Sessions :
    phase[s] \in {"opening", "waiting", "reading", "sending", "blocked", "fanout"} =>
      canceled[s] \/ \E r \in Requests : on[r] = s

\* The viewers of a session are requests still being served by it.
ViewersServed ==
  \A s \in Sessions : \A r \in viewers[s] :
    /\ on[r] = s
    /\ stage[r] \in {"added", "viewing", "leaving"}
    /\ ~closed[r]

\* A canceled session ends, whatever its viewers do: broadcast does not block
\* for ever, and the provider connection is closed.
CanceledEnds == \A s \in Sessions : canceled[s] ~> phase[s] = "ended"

\* A request is not left waiting in Subscribe, nor kept going round its loop by
\* a session that is done: it gets an error, or a viewer (unless the model has
\* no session left to give it).
SubscribeReturns ==
  \A r \in Requests :
    stage[r] \in {"waiting", "retry"} ~>
      \/ stage[r] \notin {"waiting", "retry"}
      \/ stage[r] = "retry" /\ current = NoSession /\ created = MaxSessions

\* Neither a provider connection nor a request hangs (cancel, Subscribe).
NobodyHangs == CanceledEnds /\ SubscribeReturns

\* "Existing viewers observe stream closure": a viewer of a session that has
\* ended is closed.
ClosureObserved ==
  \A r \in Requests : stage[r] = "viewing" /\ phase[on[r]] = "ended" => closed[r]

\* What a request or a goroutine waits for is still to come (Subscribe, addViewer,
\* run, broadcast): whoever waits in Subscribe waits for a goroutine that will
\* close ready; whoever watches is in the viewers of its session or was closed;
\* a session waiting for its first viewer has one coming, or was canceled, or will
\* be by the request that gave up; the viewer broadcast blocks on has not been
\* removed unnoticed; and a session that is done is about to leave the map, so
\* that the loop of Subscribe ends.
NoLostSignal ==
  /\ \A r \in Requests :
       /\ stage[r] = "waiting" => ready[on[r]] \/ phase[on[r]] = "opening"
       /\ stage[r] = "viewing" => closed[r] \/ r \in viewers[on[r]]
  /\ \A s \in Sessions :
       /\ phase[s] = "waiting" =>
            \/ started[s]
            \/ canceled[s]
            \/ \E r \in Requests :
                 on[r] = s /\ stage[r] \in {"waiting", "checked", "added", "cancelling"}
       /\ phase[s] = "blocked" =>
            only[s] = Gone \/ (only[s] \in viewers[s] /\ ~closed[only[s]])
       /\ done[s] /\ current = s => phase[s] = "unmap"

=============================================================================
