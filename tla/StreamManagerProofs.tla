------------------------ MODULE StreamManagerProofs ------------------------
(***************************************************************************)
(* Theorems about StreamManager, for any number of requests, sessions and  *)
(* chunks and any queue size.                                              *)
(***************************************************************************)
EXTENDS StreamManager, FiniteSetTheorems, SequenceTheorems, TLAPS

\* The part of TypeOK that the theorems need.
ControlTyped ==
  /\ current \in Sessions \cup {NoSession}
  /\ created \in 0..MaxSessions
  /\ phase \in [Sessions -> Phase]
  /\ canceled \in [Sessions -> BOOLEAN]
  /\ openErr \in [Sessions -> BOOLEAN]
  /\ done \in [Sessions -> BOOLEAN]
  /\ viewers \in [Sessions -> SUBSET Requests]
  /\ stage \in [Requests -> Stage]
  /\ on \in [Requests -> Sessions \cup {NoSession}]
  /\ closed \in [Requests -> BOOLEAN]
  /\ \A r \in Requests :
       stage[r] \in {"waiting", "checked", "added", "viewing", "leaving", "cancelling"}
         => on[r] \in Sessions
  /\ \A r \in Requests : stage[r] \in {"idle", "retry"} => on[r] = NoSession

\* The phases of finish(), and those after it canceled the session.
Over == {"clear", "done", "unmap", "close", "ended"}
Finishing == {"finish"} \cup Over
Running == {"opening", "waiting", "reading", "sending", "blocked", "fanout"}

\* A session that is not canceled is the one the map holds, and one that was not
\* created yet has no goroutine.
Mapped ==
  \A s \in Sessions :
    /\ Alive(s) /\ ~canceled[s] => current = s
    /\ phase[s] \in Over => canceled[s]
    /\ s > created => phase[s] = "none"

\* openErr and done tell a request that the goroutine is on its way out.
SignalsFinal ==
  \A s \in Sessions : openErr[s] \/ done[s] => phase[s] \in Finishing

\* A request that is not a viewer yet has not been closed.
NotYetClosed ==
  \A r \in Requests : stage[r] \in {"idle", "retry", "waiting", "checked"} => ~closed[r]

StreamInv ==
  /\ ControlTyped
  /\ Mapped
  /\ SignalsFinal
  /\ NotYetClosed
  /\ ViewersServed
  /\ NoIdleUpstream

LEMMA ZeroIsBounded == 0 \in 0..MaxSessions
BY StreamAssumption DEF StreamAssumption

LEMMA StreamInvInit == Init => StreamInv
<1> SUFFICES ASSUME Init PROVE StreamInv
  OBVIOUS
<1> USE StreamAssumption DEF StreamAssumption, Init
<1>1. ControlTyped
  <2>1. created \in 0..MaxSessions /\ current \in Sessions \cup {NoSession}
    BY ZeroIsBounded
  <2>2. phase \in [Sessions -> Phase] /\ stage \in [Requests -> Stage]
    BY DEF Phase, Stage
  <2>3. /\ canceled \in [Sessions -> BOOLEAN]
        /\ openErr \in [Sessions -> BOOLEAN]
        /\ done \in [Sessions -> BOOLEAN]
        /\ closed \in [Requests -> BOOLEAN]
    OBVIOUS
  <2>4. viewers \in [Sessions -> SUBSET Requests] /\ on \in [Requests -> Sessions \cup {NoSession}]
    OBVIOUS
  <2>5. QED
    BY <2>1, <2>2, <2>3, <2>4 DEF ControlTyped
<1>2. Mapped /\ SignalsFinal
  BY DEF Mapped, SignalsFinal, Alive, Over, Sessions
<1>3. NotYetClosed /\ ViewersServed /\ NoIdleUpstream
  BY DEF NotYetClosed, ViewersServed, NoIdleUpstream
<1>4. QED
  BY <1>1, <1>2, <1>3 DEF StreamInv

\* A step of the goroutine of s that concerns no request.
LEMMA QuietSession ==
  ASSUME StreamInv, NEW s \in Sessions, NEW p \in Phase, To(s, p), phase[s] # "none", p # "none",
         UNCHANGED <<managerVars, viewers, stage, on, closed>>,
         canceled' \in [Sessions -> BOOLEAN],
         \A t \in Sessions : canceled[t] => canceled'[t],
         \A t \in Sessions \ {s} : canceled'[t] = canceled[t],
         openErr' \in [Sessions -> BOOLEAN],
         done' \in [Sessions -> BOOLEAN],
         \A t \in Sessions \ {s} : openErr'[t] = openErr[t] /\ done'[t] = done[t],
         openErr'[s] \/ done'[s] => p \in Finishing,
         p \in Over => canceled'[s],
         p \in Running => phase[s] \in Running \/ canceled'[s]
  PROVE  StreamInv'
<1> USE DEF StreamInv, To, managerVars
<1>1. ControlTyped'
  BY DEF ControlTyped
<1>2. Mapped' /\ SignalsFinal'
  BY DEF ControlTyped, Mapped, SignalsFinal, Alive, Over
<1>3. NotYetClosed' /\ ViewersServed'
  BY DEF NotYetClosed, ViewersServed
<1>4. NoIdleUpstream'
  BY DEF ControlTyped, NoIdleUpstream, Running
<1>5. QED
  BY <1>1, <1>2, <1>3, <1>4

\* A request that stays with its session.
LEMMA RequestStays ==
  ASSUME StreamInv, NEW r \in Requests, NEW p \in Stage \ {"idle", "retry"}, Goes(r, p),
         UNCHANGED <<managerVars, phase, canceled, openErr, done, viewers, on, closed>>,
         on[r] \in Sessions,
         p \in {"waiting", "checked"} => ~closed[r],
         \A s \in Sessions : r \in viewers[s] => p \in {"added", "viewing", "leaving"}
  PROVE  StreamInv'
<1> USE DEF StreamInv, Goes, managerVars
<1>1. ControlTyped'
  BY DEF ControlTyped
<1>2. Mapped' /\ SignalsFinal' /\ NoIdleUpstream'
  BY DEF Mapped, SignalsFinal, NoIdleUpstream, Alive
<1>3. NotYetClosed' /\ ViewersServed'
  BY DEF ControlTyped, NotYetClosed, ViewersServed
<1>4. QED
  BY <1>1, <1>2, <1>3

\* A request that leaves its session: the session is over or canceled, or
\* somebody else is there.
LEMMA RequestGoes ==
  ASSUME StreamInv, NEW r \in Requests, NEW p \in {"idle", "retry"}, Goes(r, p),
         UNCHANGED <<managerVars, phase, openErr, done>>,
         on' = [on EXCEPT ![r] = NoSession],
         closed' \in [Requests -> BOOLEAN],
         \A q \in Requests \ {r} : closed'[q] = closed[q],
         ~closed'[r],
         viewers' \in [Sessions -> SUBSET Requests],
         \A s \in Sessions : viewers'[s] \subseteq viewers[s] \ {r},
         canceled' \in [Sessions -> BOOLEAN],
         \A s \in Sessions : canceled[s] => canceled'[s],
         \/ phase[on[r]] \notin Running
         \/ canceled'[on[r]]
         \/ \E q \in Requests \ {r} : on[q] = on[r]
  PROVE  StreamInv'
<1> USE DEF StreamInv, Goes, managerVars
<1>1. ControlTyped'
  <2>1. stage' \in [Requests -> Stage] /\ on' \in [Requests -> Sessions \cup {NoSession}]
    BY DEF ControlTyped, Stage
  <2>2. QED
    BY <2>1 DEF ControlTyped
<1>2. Mapped' /\ SignalsFinal'
  BY DEF Mapped, SignalsFinal, Alive
<1>3. NotYetClosed' /\ ViewersServed'
  BY DEF ControlTyped, NotYetClosed, ViewersServed
<1>4. NoIdleUpstream'
  BY DEF ControlTyped, NoIdleUpstream, Running
<1>5. QED
  BY <1>1, <1>2, <1>3, <1>4

LEMMA StreamInvNext == StreamInv /\ [Next]_vars => StreamInv'
<1> SUFFICES ASSUME StreamInv, [Next]_vars PROVE StreamInv'
  OBVIOUS
<1> USE DEF managerVars, signalVars, copyVars, sessionVars, viewerVars, requestVars
<1>1. CASE UNCHANGED vars
  BY <1>1 DEF vars, StreamInv, ControlTyped, Mapped, SignalsFinal, NotYetClosed, ViewersServed,
              NoIdleUpstream, Alive
<1>2. ASSUME NEW s \in Sessions,
             Opens(s) \/ OpenFails(s) \/ Begins(s) \/ Reads(s) \/ ReadEnds(s) \/ Sends(s)
      PROVE  StreamInv'
  <2>1. \E p \in Phase : /\ To(s, p)
                         /\ p \in Running \cup {"finish"}
                         /\ openErr'[s] => p = "finish"
    BY <1>2 DEF Opens, OpenFails, Refused, Begins, Returns, Reads, ReadEnds, Sends, To, Phase,
                Running, StreamInv, ControlTyped, SignalsFinal, Finishing, Over
  <2>2. /\ phase[s] \in Running
        /\ UNCHANGED <<managerVars, viewers, stage, on, closed, canceled, done>>
        /\ openErr' \in [Sessions -> BOOLEAN]
        /\ \A t \in Sessions \ {s} : openErr'[t] = openErr[t]
    BY <1>2 DEF Opens, OpenFails, Refused, Begins, Reads, ReadEnds, Sends, Running,
                StreamInv, ControlTyped
  <2>3. ~done[s]
    BY <2>2 DEF StreamInv, SignalsFinal, Running, Finishing, Over
  <2>4. QED
    BY <2>1, <2>2, <2>3, QuietSession
    DEF Running, Finishing, Over, StreamInv, ControlTyped
<1>3. ASSUME NEW s \in Sessions, SendsOne(s) PROVE StreamInv'
  <2>1. \E p \in {"reading", "finish"} : To(s, p)
    BY <1>3 DEF SendsOne, Continues, Returns
  <2>2. /\ phase[s] = "blocked"
        /\ UNCHANGED <<managerVars, signalVars, viewers, stage, on, closed>>
    BY <1>3 DEF SendsOne
  <2>3. ~openErr[s] /\ ~done[s]
    BY <2>2 DEF StreamInv, SignalsFinal, Finishing, Over
  <2>4. QED
    BY <2>1, <2>2, <2>3, QuietSession DEF Running, Finishing, Over, Phase, StreamInv, ControlTyped
<1>4. ASSUME NEW s \in Sessions, SendsAll(s) PROVE StreamInv'
  <2> DEFINE full == {r \in viewers[s] : ~HasRoom(r)}
  <2>1. /\ phase[s] = "fanout"
        /\ UNCHANGED <<managerVars, signalVars, stage, on>>
        /\ viewers' = [viewers EXCEPT ![s] = @ \ full]
        /\ closed' = [r \in Requests |-> closed[r] \/ r \in full]
        /\ \E p \in {"reading", "finish", "emptied"} : To(s, p)
    BY <1>4 DEF SendsAll, FanOut, Continues, Returns
  <2>2. ~openErr[s] /\ ~done[s]
    BY <2>1 DEF StreamInv, SignalsFinal, Finishing, Over
  <2>3. ControlTyped'
    BY <2>1 DEF StreamInv, ControlTyped, To, Phase
  <2>4. Mapped' /\ SignalsFinal'
    BY <2>1, <2>2
    DEF StreamInv, ControlTyped, Mapped, SignalsFinal, Alive, To, Over, Finishing
  <2>5. \A t \in Sessions : viewers'[t] = IF t = s THEN viewers[t] \ full ELSE viewers[t]
    BY <2>1 DEF StreamInv, ControlTyped
  <2>6. \A r \in Requests : closed'[r] => closed[r] \/ r \in full
    BY <2>1
  <2>7. \A t \in Sessions \ {s} : \A r \in viewers[t] : r \notin full
    BY DEF StreamInv, ViewersServed
  <2>8. ViewersServed'
    BY <2>1, <2>5, <2>6, <2>7 DEF StreamInv, ViewersServed, ControlTyped
  <2>9. NotYetClosed'
    BY <2>1, <2>6 DEF StreamInv, NotYetClosed, ViewersServed, ControlTyped
  <2>10. NoIdleUpstream'
    BY <2>1 DEF StreamInv, NoIdleUpstream, ControlTyped, To
  <2>11. QED
    BY <2>3, <2>4, <2>8, <2>9, <2>10 DEF StreamInv
<1>5. ASSUME NEW s \in Sessions,
             Emptied(s) \/ Finishes(s) \/ ClosesDone(s) \/ ClosesBody(s)
      PROVE  StreamInv'
  <2>1. \E p \in {"finish", "clear", "unmap", "ended"} :
          /\ To(s, p)
          /\ canceled'[s]
          /\ phase[s] \in {"emptied", "finish", "done", "close"}
          /\ done'[s] /\ ~done[s] => p = "unmap"
    BY <1>5 DEF Emptied, Continues, Returns, Finishes, ClosesDone, ClosesBody,
                StreamInv, ControlTyped, Mapped, Over
  <2>2. /\ UNCHANGED <<managerVars, viewers, stage, on, closed, openErr>>
        /\ canceled' \in [Sessions -> BOOLEAN]
        /\ \A t \in Sessions : canceled[t] => canceled'[t]
        /\ \A t \in Sessions \ {s} : canceled'[t] = canceled[t]
        /\ done' \in [Sessions -> BOOLEAN]
        /\ \A t \in Sessions \ {s} : done'[t] = done[t]
    BY <1>5 DEF Emptied, Finishes, ClosesDone, ClosesBody, StreamInv, ControlTyped
  <2>3. QED
    BY <2>1, <2>2, QuietSession DEF Running, Finishing, Over, Phase, StreamInv, ControlTyped
<1>6. ASSUME NEW s \in Sessions, ClosesViewers(s) PROVE StreamInv'
  <2>1. /\ phase[s] = "clear"
        /\ UNCHANGED <<managerVars, signalVars, stage, on>>
        /\ viewers' = [viewers EXCEPT ![s] = {}]
        /\ closed' = [r \in Requests |-> closed[r] \/ r \in viewers[s]]
        /\ To(s, "done")
    BY <1>6 DEF ClosesViewers
  <2>2. ControlTyped'
    BY <2>1 DEF StreamInv, ControlTyped, To, Phase
  <2>3. Mapped' /\ SignalsFinal'
    BY <2>1 DEF StreamInv, ControlTyped, Mapped, SignalsFinal, Alive, To, Over, Finishing
  <2>4. \A t \in Sessions : viewers'[t] = IF t = s THEN {} ELSE viewers[t]
    BY <2>1 DEF StreamInv, ControlTyped
  <2>5. \A r \in Requests : closed'[r] => closed[r] \/ r \in viewers[s]
    BY <2>1
  <2>6. ViewersServed'
    BY <2>1, <2>4, <2>5 DEF StreamInv, ViewersServed, ControlTyped
  <2>7. NotYetClosed'
    BY <2>1, <2>5 DEF StreamInv, NotYetClosed, ViewersServed, ControlTyped
  <2>8. NoIdleUpstream'
    BY <2>1 DEF StreamInv, NoIdleUpstream, ControlTyped, To
  <2>9. QED
    BY <2>2, <2>3, <2>6, <2>7, <2>8 DEF StreamInv
<1>7. ASSUME NEW s \in Sessions, Unmaps(s) PROVE StreamInv'
  <2>1. /\ phase[s] = "unmap"
        /\ canceled[s]
        /\ UNCHANGED <<created, signalVars, viewers, stage, on, closed>>
        /\ current' = IF current = s THEN NoSession ELSE current
        /\ \E p \in {"ended", "close"} : To(s, p)
    BY <1>7 DEF Unmaps, StreamInv, Mapped, Over
  <2>2. ControlTyped'
    BY <2>1 DEF StreamInv, ControlTyped, To, Phase
  <2>3. Mapped' /\ SignalsFinal'
    BY <2>1 DEF StreamInv, ControlTyped, Mapped, SignalsFinal, Alive, To, Over, Finishing
  <2>4. ViewersServed' /\ NotYetClosed'
    BY <2>1 DEF StreamInv, ViewersServed, NotYetClosed
  <2>5. NoIdleUpstream'
    BY <2>1 DEF StreamInv, NoIdleUpstream, ControlTyped, To
  <2>6. QED
    BY <2>2, <2>3, <2>4, <2>5 DEF StreamInv
<1>8. ASSUME NEW r \in Requests, Subscribe(r) PROVE StreamInv'
  <2>1. /\ UNCHANGED <<canceled, openErr, done, viewers, closed>>
        /\ stage[r] \in {"idle", "retry"}
        /\ stage' = [stage EXCEPT ![r] = "waiting"]
    BY <1>8 DEF Subscribe, Goes
  <2>2. PICK s \in Sessions :
          /\ on' = [on EXCEPT ![r] = s]
          /\ current' = s
          /\ \/ current = s /\ UNCHANGED <<created, phase>>
             \/ /\ current = NoSession
                /\ s = created + 1 /\ created' = s
                /\ phase' = [phase EXCEPT ![s] = "opening"]
    <3>1. CASE current = NoSession
      <4>1. created + 1 \in Sessions
        BY <1>8, <3>1, StreamAssumption
        DEF StreamAssumption, Subscribe, NeedsSession, StreamInv, ControlTyped, Sessions
      <4>2. QED
        BY <1>8, <3>1, <4>1 DEF Subscribe, NeedsSession, To
    <3>2. CASE current # NoSession
      <4>1. current \in Sessions
        BY <3>2 DEF StreamInv, ControlTyped
      <4>2. QED
        BY <1>8, <3>2, <4>1 DEF Subscribe, NeedsSession
    <3>3. QED
      BY <3>1, <3>2
  <2>3. ControlTyped'
    <3>1. /\ stage' \in [Requests -> Stage]
          /\ on' \in [Requests -> Sessions \cup {NoSession}]
          /\ phase' \in [Sessions -> Phase]
      BY <2>1, <2>2 DEF StreamInv, ControlTyped, Stage, Phase
    <3>2. created' \in 0..MaxSessions
      BY <2>2, StreamAssumption DEF StreamAssumption, Sessions, StreamInv, ControlTyped
    <3>3. QED
      BY <2>1, <2>2, <3>1, <3>2 DEF StreamInv, ControlTyped
  <2>4. \A t \in Sessions \ {s} : phase'[t] = phase[t]
    BY <2>2 DEF StreamInv, ControlTyped
  <2>5. Mapped'
    <3>1. CASE current = s /\ UNCHANGED <<created, phase>>
      BY <2>1, <2>2, <3>1 DEF StreamInv, Mapped, Alive
    <3>2. CASE /\ current = NoSession
               /\ s = created + 1 /\ created' = s
               /\ phase' = [phase EXCEPT ![s] = "opening"]
      <4>1. \A t \in Sessions : Alive(t) => canceled[t]
        BY <3>2 DEF StreamInv, Mapped, Sessions, NoSession
      <4>2. phase'[s] = "opening"
        BY <3>2 DEF StreamInv, ControlTyped
      <4>3. \A t \in Sessions : t > created' => t > created /\ t # s
        BY <3>2 DEF Sessions, StreamInv, ControlTyped
      <4>4. QED
        BY <2>1, <2>2, <2>4, <4>1, <4>2, <4>3 DEF StreamInv, Mapped, Alive, Over
    <3>3. QED
      BY <2>2, <3>1, <3>2
  <2>6. SignalsFinal'
    <3>1. CASE current = NoSession /\ s = created + 1
      <4>1. phase[s] = "none"
        BY <3>1 DEF StreamInv, Mapped, ControlTyped
      <4>2. ~openErr[s] /\ ~done[s]
        BY <4>1 DEF StreamInv, SignalsFinal, Finishing, Over
      <4>3. QED
        BY <2>1, <2>4, <4>2 DEF StreamInv, SignalsFinal
    <3>2. CASE UNCHANGED phase
      BY <2>1, <3>2 DEF StreamInv, SignalsFinal
    <3>3. QED
      BY <2>2, <3>1, <3>2
  <2>7. ViewersServed' /\ NotYetClosed'
    BY <2>1, <2>2 DEF StreamInv, ControlTyped, ViewersServed, NotYetClosed
  <2>8. NoIdleUpstream'
    <3>1. on'[r] = s /\ \A q \in Requests \ {r} : on'[q] = on[q]
      BY <2>2 DEF StreamInv, ControlTyped
    <3>2. on[r] \notin Sessions
      BY <2>1 DEF StreamInv, ControlTyped, NoSession, Sessions
    <3>3. QED
      BY <2>1, <2>4, <3>1, <3>2 DEF StreamInv, NoIdleUpstream
  <2>9. QED
    BY <2>3, <2>5, <2>6, <2>7, <2>8 DEF StreamInv
<1>9. ASSUME NEW r \in Requests, Ready(r) PROVE StreamInv'
  <2>1. /\ UNCHANGED <<managerVars, phase, canceled, openErr, done, viewers>>
        /\ stage[r] = "waiting"
        /\ on[r] \in Sessions
    BY <1>9 DEF Ready, StreamInv, ControlTyped
  <2>2. ~closed[r] /\ \A s \in Sessions : r \notin viewers[s]
    BY <2>1 DEF StreamInv, NotYetClosed, ViewersServed
  <2>3. CASE Goes(r, "checked") /\ UNCHANGED <<on, viewerVars>>
    BY <2>1, <2>2, <2>3, RequestStays DEF Stage
  <2>4. CASE (openErr[on[r]] \/ done[on[r]])
             /\ \E p \in {"idle", "retry"} : Goes(r, p)
             /\ on' = [on EXCEPT ![r] = NoSession]
             /\ closed' \in [Requests -> BOOLEAN]
             /\ (\A q \in Requests \ {r} : closed'[q] = closed[q])
             /\ ~closed'[r]
    <3>1. phase[on[r]] \notin Running
      BY <2>1, <2>4 DEF StreamInv, SignalsFinal, Running, Finishing, Over
    <3>2. \A s \in Sessions : viewers'[s] \subseteq viewers[s] \ {r}
      BY <2>1, <2>2
    <3>3. QED
      BY <2>1, <2>4, <3>1, <3>2, RequestGoes DEF StreamInv, ControlTyped
  <2>5. QED
    BY <1>9, <2>2, <2>3, <2>4 DEF Ready, Idle, StreamInv, ControlTyped
<1>10. ASSUME NEW r \in Requests, GivesUp(r) PROVE StreamInv'
  <2>1. /\ UNCHANGED <<managerVars, phase, canceled, openErr, done, viewers>>
        /\ stage[r] = "waiting"
        /\ on[r] \in Sessions
    BY <1>10 DEF GivesUp, StreamInv, ControlTyped
  <2>2. ~closed[r] /\ \A s \in Sessions : r \notin viewers[s]
    BY <2>1 DEF StreamInv, NotYetClosed, ViewersServed
  <2>3. CASE viewers[on[r]] = {}
    BY <1>10, <2>1, <2>2, <2>3, RequestStays DEF GivesUp, LeaveOrCancel, Stage
  <2>4. CASE viewers[on[r]] # {}
    <3>1. \E q \in Requests \ {r} : on[q] = on[r]
      BY <2>1, <2>2, <2>4 DEF StreamInv, ControlTyped, ViewersServed
    <3>2. Idle(r)
      BY <1>10, <2>4 DEF GivesUp, LeaveOrCancel
    <3>3. \A s \in Sessions : viewers'[s] \subseteq viewers[s] \ {r}
      BY <2>1, <2>2
    <3>4. QED
      BY <2>1, <3>1, <3>2, <3>3, RequestGoes DEF Idle, StreamInv, ControlTyped
  <2>5. QED
    BY <2>3, <2>4
<1>11. ASSUME NEW r \in Requests, Cancels(r) PROVE StreamInv'
  <2>1. /\ UNCHANGED <<managerVars, phase, openErr, done, viewers>>
        /\ stage[r] = "cancelling"
        /\ on[r] \in Sessions
        /\ canceled' = [canceled EXCEPT ![on[r]] = TRUE]
        /\ Idle(r)
    BY <1>11 DEF Cancels, StreamInv, ControlTyped
  <2>2. \A s \in Sessions : viewers'[s] \subseteq viewers[s] \ {r}
    BY <2>1 DEF StreamInv, ViewersServed
  <2>3. /\ canceled' \in [Sessions -> BOOLEAN]
        /\ canceled'[on[r]]
        /\ \A s \in Sessions : canceled[s] => canceled'[s]
    BY <2>1 DEF StreamInv, ControlTyped
  <2>4. QED
    BY <2>1, <2>2, <2>3, RequestGoes DEF Idle, StreamInv, ControlTyped
<1>12. ASSUME NEW r \in Requests, AddViewer(r) PROVE StreamInv'
  <2>1. /\ UNCHANGED <<managerVars, phase, canceled, openErr, done, on, closed>>
        /\ stage[r] = "checked"
        /\ on[r] \in Sessions
        /\ ~closed[r]
        /\ viewers' = [viewers EXCEPT ![on[r]] = @ \cup {r}]
        /\ stage' = [stage EXCEPT ![r] = "added"]
    BY <1>12 DEF AddViewer, Goes, StreamInv, ControlTyped, NotYetClosed
  <2>2. ControlTyped'
    BY <2>1 DEF StreamInv, ControlTyped, Stage
  <2>3. Mapped' /\ SignalsFinal' /\ NoIdleUpstream'
    BY <2>1 DEF StreamInv, Mapped, SignalsFinal, NoIdleUpstream, Alive
  <2>4. \A s \in Sessions :
          viewers'[s] = IF s = on[r] THEN viewers[s] \cup {r} ELSE viewers[s]
    BY <2>1 DEF StreamInv, ControlTyped
  <2>5. ViewersServed' /\ NotYetClosed'
    BY <2>1, <2>4 DEF StreamInv, ControlTyped, ViewersServed, NotYetClosed
  <2>6. QED
    BY <2>2, <2>3, <2>5 DEF StreamInv
<1>13. ASSUME NEW r \in Requests, Starts(r) \/ Takes(r) \/ Ends(r) \/ Leaves(r)
       PROVE StreamInv'
  <2>1. /\ UNCHANGED <<managerVars, phase, canceled, openErr, done, viewers, on, closed>>
        /\ stage[r] \in {"added", "viewing"}
        /\ on[r] \in Sessions
        /\ \E p \in {"viewing", "leaving"} : Goes(r, p)
    BY <1>13 DEF Starts, Takes, Ends, Leaves, Goes, StreamInv, ControlTyped
  <2>2. QED
    BY <2>1, RequestStays DEF Stage
<1>14. ASSUME NEW r \in Requests, Remove(r) PROVE StreamInv'
  <2>1. /\ UNCHANGED <<managerVars, phase, canceled, openErr, done>>
        /\ stage[r] = "leaving"
        /\ on[r] \in Sessions
        /\ viewers' = [viewers EXCEPT ![on[r]] = @ \ {r}]
        /\ LeaveOrCancel(r, viewers[on[r]] \ {r})
    BY <1>14 DEF Remove, Detach, StreamInv, ControlTyped
  <2>2. /\ viewers' \in [Sessions -> SUBSET Requests]
        /\ \A s \in Sessions : viewers'[s] \subseteq viewers[s] \ {r}
    BY <2>1 DEF StreamInv, ControlTyped, ViewersServed
  <2>3. CASE viewers[on[r]] \ {r} # {}
    <3>1. \E q \in Requests \ {r} : on[q] = on[r]
      BY <2>1, <2>3 DEF StreamInv, ControlTyped, ViewersServed
    <3>2. Idle(r)
      BY <2>1, <2>3 DEF LeaveOrCancel
    <3>3. QED
      BY <2>1, <2>2, <3>1, <3>2, RequestGoes DEF Idle, StreamInv, ControlTyped
  <2>4. CASE viewers[on[r]] \ {r} = {}
    <3>1. stage' = [stage EXCEPT ![r] = "cancelling"] /\ UNCHANGED <<on, closed>>
      BY <2>1, <2>4 DEF LeaveOrCancel, Goes
    <3>2. ControlTyped'
      BY <2>1, <2>2, <3>1 DEF StreamInv, ControlTyped, Stage
    <3>3. Mapped' /\ SignalsFinal' /\ NoIdleUpstream'
      BY <2>1, <3>1 DEF StreamInv, Mapped, SignalsFinal, NoIdleUpstream, Alive
    <3>4. ViewersServed' /\ NotYetClosed'
      BY <2>1, <2>2, <3>1 DEF StreamInv, ControlTyped, ViewersServed, NotYetClosed
    <3>5. QED
      BY <3>2, <3>3, <3>4 DEF StreamInv
  <2>5. QED
    BY <2>3, <2>4
<1>15. QED
  BY <1>1, <1>2, <1>3, <1>4, <1>5, <1>6, <1>7, <1>8, <1>9, <1>10, <1>11, <1>12, <1>13, <1>14
  DEF Next, Session, Handler, Client

LEMMA StreamCorrect == Spec => []StreamInv
BY StreamInvInit, StreamInvNext, PTL DEF Spec

\* "Multiple local viewers share one provider connection" (Subscribe, finish).
THEOREM SharesUpstream == Spec => []OneUpstream
<1>1. StreamInv => OneUpstream
  BY DEF StreamInv, Mapped, OneUpstream
<1>2. QED
  BY <1>1, StreamCorrect, PTL

\* No interleaving of joins, drops, departures and failures leaves a provider
\* connection running that nobody waits for (Remove, cancelIfEmpty, broadcast).
THEOREM NoConnectionLeaks == Spec => []NoIdleUpstream
<1>1. StreamInv => NoIdleUpstream
  BY DEF StreamInv
<1>2. QED
  BY <1>1, StreamCorrect, PTL
-----------------------------------------------------------------------------
(***************************************************************************)
(* Types and chunks: what a goroutine sends it has read, and it waits only *)
(* for a viewer of its session.                                            *)
(***************************************************************************)
Copying == {"sending", "blocked", "fanout"}

ChunkRead ==
  \A s \in Sessions :
    /\ phase[s] \in {"none", "opening", "waiting"} => read[s] = 0
    /\ phase[s] \in Copying => read[s] # 0
    /\ cause[s] # "" => phase[s] \in Finishing
    /\ only[s] # Gone => phase[s] = "blocked" /\ only[s] \in viewers[s]

NumbersTyped ==
  /\ ready \in [Sessions -> BOOLEAN]
  /\ started \in [Sessions -> BOOLEAN]
  /\ read \in [Sessions -> 0..MaxChunks]
  /\ last \in [Sessions -> BOOLEAN]
  /\ only \in [Sessions -> Requests \cup {Gone}]
  /\ cause \in [Sessions -> {"", "source", "cancel"}]
  /\ taken \in [Requests -> 0..MaxChunks]
  /\ eof \in [Requests -> BOOLEAN]
  /\ dropped \in [Requests -> BOOLEAN]

Queued == Seq(1..MaxChunks)

QueuesTyped ==
  /\ queue \in [Requests -> Queued]
  /\ \A r \in Requests : Len(queue[r]) <= QueueSize

ChunkInv == NumbersTyped /\ QueuesTyped /\ ChunkRead

\* What the theorems use of sequences.
LEMMA EmptyQueue == <<>> \in Queued /\ Len(<<>>) = 0 /\ 0 <= QueueSize /\ 0 \in 0..MaxChunks
BY StreamAssumption DEF StreamAssumption, Queued

LEMMA NonzeroChunk ==
  ASSUME NEW x \in 0..MaxChunks, x # 0
  PROVE  x \in 1..MaxChunks
BY StreamAssumption DEF StreamAssumption

LEMMA AppendFacts ==
  ASSUME NEW q \in Queued, NEW x \in 1..MaxChunks
  PROVE  /\ Append(q, x) \in Queued
         /\ Len(q) \in Nat
         /\ Len(Append(q, x)) = Len(q) + 1
         /\ Append(q, x) # <<>>
         /\ \A i \in 1..Len(q) : Append(q, x)[i] = q[i]
         /\ Append(q, x)[Len(q) + 1] = x
BY DEF Queued

LEMMA TailFacts ==
  ASSUME NEW q \in Queued, q # <<>>
  PROVE  /\ Tail(q) \in Queued
         /\ Len(q) \in Nat \ {0}
         /\ Len(Tail(q)) = Len(q) - 1
         /\ \A i \in 1..(Len(q) - 1) : Tail(q)[i] = q[i + 1]
         /\ Head(q) = q[1]
         /\ Head(q) \in 1..MaxChunks
<1>1. q \in Seq(1..MaxChunks)
  BY DEF Queued
<1>2. Len(q) \in Nat \ {0} /\ q \in [1..Len(q) -> 1..MaxChunks]
  BY <1>1, EmptySeq, LenProperties
<1>3. Tail(q) \in Seq(1..MaxChunks) /\ Len(Tail(q)) = Len(q) - 1
  BY <1>1
<1>4. \A i \in 1..(Len(q) - 1) : Tail(q)[i] = q[i + 1]
  BY <1>1
<1>5. Head(q) = q[1] /\ 1 \in 1..Len(q)
  BY <1>1, <1>2
<1>6. Head(q) \in 1..MaxChunks
  BY <1>2, <1>5
<1>7. QED
  BY <1>2, <1>3, <1>4, <1>5, <1>6 DEF Queued

LEMMA ChunkInvInit == Init => ChunkInv
<1> SUFFICES ASSUME Init PROVE ChunkInv
  OBVIOUS
<1>1. NumbersTyped
  BY EmptyQueue DEF Init, NumbersTyped
<1>2. QueuesTyped
  BY EmptyQueue DEF Init, QueuesTyped
<1>3. ChunkRead
  BY DEF Init, ChunkRead, Copying
<1>4. QED
  BY <1>1, <1>2, <1>3 DEF ChunkInv

\* One queue changes.
LEMMA OneQueue ==
  ASSUME QueuesTyped, NEW r \in Requests, NEW q \in Queued, Len(q) <= QueueSize,
         queue' = [queue EXCEPT ![r] = q]
  PROVE  QueuesTyped'
BY DEF QueuesTyped

LEMMA QueuesNext ==
  ASSUME ChunkInv, [Next]_vars
  PROVE  QueuesTyped'
<1> USE DEF ChunkInv
<1>1. CASE UNCHANGED queue
  BY <1>1 DEF QueuesTyped
<1>2. ASSUME NEW r \in Requests, Idle(r) PROVE QueuesTyped'
  BY <1>2, EmptyQueue, OneQueue DEF Idle
<1>3. ASSUME NEW r \in Requests, Takes(r) PROVE QueuesTyped'
  <2>1. queue[r] # <<>> /\ queue' = [queue EXCEPT ![r] = Tail(queue[r])]
    BY <1>3 DEF Takes
  <2>2. queue[r] \in Queued /\ Len(queue[r]) <= QueueSize
    BY DEF QueuesTyped
  <2>3. Tail(queue[r]) \in Queued /\ Len(Tail(queue[r])) <= QueueSize
    BY <2>1, <2>2, TailFacts, StreamAssumption DEF StreamAssumption
  <2>4. QED
    BY <2>1, <2>3, OneQueue
<1>4. ASSUME NEW r \in Requests, NEW x \in 1..MaxChunks, HasRoom(r)
      PROVE  Append(queue[r], x) \in Queued /\ Len(Append(queue[r], x)) <= QueueSize
  <2>1. queue[r] \in Queued /\ Len(queue[r]) < QueueSize
    BY <1>4 DEF QueuesTyped, HasRoom
  <2>2. QED
    BY <2>1, AppendFacts, StreamAssumption DEF StreamAssumption
<1>5. ASSUME NEW s \in Sessions, phase[s] \in {"blocked", "fanout"} PROVE read[s] \in 1..MaxChunks
  <2>1. read[s] \in 0..MaxChunks
    BY DEF NumbersTyped
  <2>2. read[s] # 0
    BY <1>5 DEF ChunkRead, Copying
  <2>3. QED
    BY <2>1, <2>2, NonzeroChunk
<1>6. ASSUME NEW s \in Sessions, SendsOne(s) PROVE QueuesTyped'
  <2>1. CASE /\ only[s] # Gone
             /\ HasRoom(only[s])
             /\ queue' = [queue EXCEPT ![only[s]] = Append(@, read[s])]
    <3>1. only[s] \in Requests /\ read[s] \in 1..MaxChunks
      BY <1>5, <1>6, <2>1 DEF SendsOne, NumbersTyped
    <3>2. QED
      BY <1>4, <2>1, <3>1, OneQueue
  <2>2. QED
    BY <1>1, <1>6, <2>1 DEF SendsOne
<1>7. ASSUME NEW s \in Sessions, SendsAll(s) PROVE QueuesTyped'
  <2> DEFINE full == {r \in viewers[s] : ~HasRoom(r)}
  <2>1. /\ read[s] \in 1..MaxChunks
        /\ queue' = [r \in Requests |-> IF r \in viewers[s] \ full THEN Append(queue[r], read[s])
                                        ELSE queue[r]]
    BY <1>5, <1>7 DEF SendsAll, FanOut
  <2>2. ASSUME NEW r \in Requests
        PROVE  queue'[r] \in Queued /\ Len(queue'[r]) <= QueueSize
    BY <1>4, <2>1 DEF QueuesTyped
  <2>3. QED
    BY <2>1, <2>2 DEF QueuesTyped
<1>8. QED
  BY <1>1, <1>2, <1>3, <1>6, <1>7
  DEF Next, Session, Opens, OpenFails, Begins, Reads, ReadEnds, Sends, Emptied, Finishes,
      ClosesViewers, ClosesDone, Unmaps, ClosesBody, Handler, Client, Subscribe, Ready, GivesUp,
      LeaveOrCancel, Cancels, AddViewer, Starts, Ends, Leaves, Remove, vars, requestVars, viewerVars

LEMMA NumbersNext ==
  ASSUME ControlTyped, NumbersTyped, QueuesTyped, [Next]_vars
  PROVE  NumbersTyped'
<1> USE DEF signalVars, copyVars, sessionVars, viewerVars, requestVars
<1>1. CASE UNCHANGED <<ready, started, copyVars, taken, eof, dropped>>
  BY <1>1 DEF NumbersTyped
<1>2. ASSUME NEW r \in Requests, Idle(r), UNCHANGED <<ready, started, read, last, cause>>,
             only' \in [Sessions -> Requests \cup {Gone}]
      PROVE  NumbersTyped'
  BY <1>2, EmptyQueue DEF Idle, NumbersTyped
<1>3. ASSUME NEW r \in Requests, Ready(r) \/ GivesUp(r) \/ Cancels(r) \/ AddViewer(r) \/ Subscribe(r)
                                 \/ Starts(r) \/ Leaves(r)
      PROVE  NumbersTyped'
  <2>1. only' = only /\ UNCHANGED <<ready, read, last, cause>>
    BY <1>3 DEF Ready, GivesUp, Cancels, AddViewer, Subscribe, Starts, Leaves
  <2>2. \/ Idle(r) /\ UNCHANGED started
        \/ /\ UNCHANGED <<taken, eof, dropped>>
           /\ started' = started \/ started' = [started EXCEPT ![on[r]] = TRUE]
    BY <1>3 DEF Ready, GivesUp, Cancels, AddViewer, Subscribe, Starts, Leaves, LeaveOrCancel
  <2>3. CASE Idle(r) /\ UNCHANGED started
    BY <1>2, <2>1, <2>3 DEF NumbersTyped
  <2>4. CASE /\ UNCHANGED <<taken, eof, dropped>>
             /\ started' = started \/ started' = [started EXCEPT ![on[r]] = TRUE]
    BY <2>1, <2>4 DEF NumbersTyped
  <2>5. QED
    BY <2>2, <2>3, <2>4
<1>4. ASSUME NEW r \in Requests, Takes(r) PROVE NumbersTyped'
  <2>1. queue[r] \in Queued /\ queue[r] # <<>>
    BY <1>4 DEF Takes, QueuesTyped
  <2>2. Head(queue[r]) \in 0..MaxChunks
    BY <2>1, TailFacts, StreamAssumption DEF StreamAssumption
  <2>3. QED
    BY <1>4, <2>2 DEF Takes, NumbersTyped
<1>5. ASSUME NEW r \in Requests, Ends(r) PROVE NumbersTyped'
  BY <1>5 DEF Ends, NumbersTyped
<1>6. ASSUME NEW r \in Requests, Remove(r) PROVE NumbersTyped'
  <2>1. only' \in [Sessions -> Requests \cup {Gone}]
    BY <1>6 DEF Remove, Detach, NumbersTyped
  <2>2. UNCHANGED <<ready, started, read, last, cause>>
    BY <1>6 DEF Remove
  <2>3. CASE Idle(r)
    BY <1>2, <2>1, <2>2, <2>3
  <2>4. CASE UNCHANGED <<taken, eof, dropped>>
    BY <2>1, <2>2, <2>4 DEF NumbersTyped
  <2>5. QED
    BY <1>6, <2>3, <2>4 DEF Remove, LeaveOrCancel
<1>7. ASSUME NEW s \in Sessions,
             Opens(s) \/ OpenFails(s) \/ Begins(s) \/ ReadEnds(s) \/ SendsOne(s) \/ Emptied(s)
      PROVE  NumbersTyped'
  <2>1. /\ UNCHANGED <<started, read, last, taken, eof, dropped>>
        /\ ready' = ready \/ ready' = [ready EXCEPT ![s] = TRUE]
        /\ only' = only \/ only' = [only EXCEPT ![s] = Gone]
        /\ cause' = cause \/ \E c \in {"source", "cancel"} : cause' = [cause EXCEPT ![s] = c]
    BY <1>7 DEF Opens, OpenFails, Refused, Begins, Returns, ReadEnds, SendsOne, Continues, Emptied
  <2>2. QED
    BY <2>1 DEF NumbersTyped
<1>8. ASSUME NEW s \in Sessions, Reads(s) PROVE NumbersTyped'
  <2>1. read[s] \in 0..MaxChunks /\ read[s] < MaxChunks
    BY <1>8 DEF Reads, NumbersTyped
  <2>2. read[s] + 1 \in 0..MaxChunks
    BY <2>1, StreamAssumption DEF StreamAssumption
  <2>3. QED
    BY <1>8, <2>2 DEF Reads, NumbersTyped
<1>9. ASSUME NEW s \in Sessions, Sends(s)
      PROVE  NumbersTyped'
  <2>1. CASE Cardinality(viewers[s]) = 1
    <3>1. viewers[s] # {}
      BY <2>1, FS_EmptySet
    <3>2. (CHOOSE r \in viewers[s] : TRUE) \in Requests
      BY <3>1 DEF ControlTyped
    <3>3. QED
      BY <1>9, <2>1, <3>2 DEF Sends, NumbersTyped
  <2>2. CASE Cardinality(viewers[s]) # 1
    BY <1>9, <2>2 DEF Sends, NumbersTyped
  <2>3. QED
    BY <2>1, <2>2
<1>10. ASSUME NEW s \in Sessions, SendsAll(s) PROVE NumbersTyped'
  <2>1. /\ UNCHANGED <<ready, started, read, last, only, taken, eof>>
        /\ dropped' \in [Requests -> BOOLEAN]
        /\ cause' = cause \/ \E c \in {"source", "cancel"} : cause' = [cause EXCEPT ![s] = c]
    BY <1>10 DEF SendsAll, FanOut, Continues, Returns, NumbersTyped
  <2>2. QED
    BY <2>1 DEF NumbersTyped
<1>11. QED
  BY <1>1, <1>3, <1>4, <1>5, <1>6, <1>7, <1>8, <1>9, <1>10
  DEF Next, Session, Finishes, ClosesViewers, ClosesDone, Unmaps, ClosesBody, Handler, Client, vars

\* A step of the goroutine of s.
LEMMA OneSession ==
  ASSUME ControlTyped, NumbersTyped, ChunkRead, NEW s \in Sessions,
         \A t \in Sessions \ {s} :
           /\ phase'[t] = phase[t] /\ read'[t] = read[t] /\ cause'[t] = cause[t]
           /\ only'[t] = only[t] /\ viewers'[t] = viewers[t],
         phase'[s] \in {"none", "opening", "waiting"} => read'[s] = 0,
         phase'[s] \in Copying => read'[s] # 0,
         cause'[s] # "" => phase'[s] \in Finishing,
         only'[s] # Gone => phase'[s] = "blocked" /\ only'[s] \in viewers'[s]
  PROVE  ChunkRead'
<1> SUFFICES ASSUME NEW t \in Sessions
             PROVE  /\ phase'[t] \in {"none", "opening", "waiting"} => read'[t] = 0
                    /\ phase'[t] \in Copying => read'[t] # 0
                    /\ cause'[t] # "" => phase'[t] \in Finishing
                    /\ only'[t] # Gone => phase'[t] = "blocked" /\ only'[t] \in viewers'[t]
  BY DEF ChunkRead, Copying, Finishing, Over
<1>1. CASE t = s
  BY <1>1
<1>2. CASE t # s
  <2>1. /\ phase'[t] = phase[t] /\ read'[t] = read[t] /\ cause'[t] = cause[t]
        /\ only'[t] = only[t] /\ viewers'[t] = viewers[t]
    BY <1>2
  <2>2. QED
    BY <2>1 DEF ChunkRead
<1>3. QED
  BY <1>1, <1>2

LEMMA ChunkReadNext ==
  ASSUME StreamInv, NumbersTyped, ChunkRead, [Next]_vars
  PROVE  ChunkRead'
<1> USE DEF managerVars, signalVars, copyVars, sessionVars, viewerVars, requestVars
<1>1. CASE UNCHANGED <<phase, viewers, copyVars>>
  BY <1>1 DEF ChunkRead
<1>2. ASSUME NEW r \in Requests, Subscribe(r) PROVE ChunkRead'
  <2>1. CASE NeedsSession
    <3> DEFINE s == created + 1
    <3>1. /\ current = NoSession
          /\ phase' = [phase EXCEPT ![s] = "opening"]
          /\ UNCHANGED <<viewers, copyVars>>
          /\ s \in 1..MaxSessions /\ s > created
      BY <1>2, <2>1, StreamAssumption
      DEF Subscribe, NeedsSession, To, StreamInv, ControlTyped, StreamAssumption
    <3> HIDE DEF s
    <3>2. s \in Sessions /\ phase[s] = "none"
      BY <3>1 DEF StreamInv, Mapped, Sessions
    <3>3. read[s] = 0 /\ cause[s] = "" /\ only[s] = Gone
      BY <3>2 DEF ChunkRead, Finishing, Over
    <3>4. phase'[s] = "opening" /\ \A t \in Sessions \ {s} : phase'[t] = phase[t]
      BY <3>1, <3>2 DEF StreamInv, ControlTyped
    <3>5. QED
      BY <3>1, <3>2, <3>3, <3>4, OneSession DEF StreamInv, Copying
  <2>2. CASE ~NeedsSession
    BY <1>1, <1>2, <2>2 DEF Subscribe
  <2>3. QED
    BY <2>1, <2>2
<1>3. ASSUME NEW r \in Requests, AddViewer(r) PROVE ChunkRead'
  <2>1. UNCHANGED <<phase, copyVars>> /\ \A s \in Sessions : viewers[s] \subseteq viewers'[s]
    BY <1>3 DEF AddViewer, StreamInv, ControlTyped
  <2>2. QED
    BY <2>1 DEF ChunkRead
<1>4. ASSUME NEW r \in Requests, Remove(r) PROVE ChunkRead'
  <2>1. /\ UNCHANGED <<phase, read, cause>>
        /\ viewers' = [viewers EXCEPT ![on[r]] = @ \ {r}]
        /\ only' = [only EXCEPT ![on[r]] = IF @ = r THEN Gone ELSE @]
    BY <1>4 DEF Remove, Detach
  <2>2. ASSUME NEW s \in Sessions, only'[s] # Gone
        PROVE  only[s] # Gone /\ only'[s] = only[s] /\ (only[s] \in viewers[s] => only[s] \in viewers'[s])
    BY <2>1, <2>2 DEF StreamInv, ControlTyped, NumbersTyped
  <2>3. QED
    BY <2>1, <2>2 DEF ChunkRead
<1>5. ASSUME NEW s \in Sessions,
             \/ Opens(s) \/ OpenFails(s) \/ Begins(s) \/ ReadEnds(s) \/ Emptied(s)
             \/ Finishes(s) \/ ClosesViewers(s) \/ ClosesDone(s) \/ Unmaps(s) \/ ClosesBody(s)
      PROVE  ChunkRead'
  <2>1. /\ UNCHANGED <<read, last, only>>
        /\ phase[s] \in {"opening", "waiting", "reading", "emptied"} \cup Finishing
        /\ \/ UNCHANGED cause
           \/ \E c \in {"source", "cancel"} : cause' = [cause EXCEPT ![s] = c] /\ To(s, "finish")
        /\ \/ viewers' = viewers
           \/ viewers' = [viewers EXCEPT ![s] = {}]
    BY <1>5 DEF Opens, OpenFails, Begins, Returns, ReadEnds, Emptied, Continues, Finishes,
                ClosesViewers, ClosesDone, Unmaps, ClosesBody, Finishing, Over
  <2>2. \E p \in Phase \ (Copying \cup {"none", "opening", "blocked"}) :
          /\ To(s, p)
          /\ p = "waiting" => phase[s] = "opening"
          /\ phase[s] \in Finishing => p \in Finishing
    BY <1>5 DEF Opens, OpenFails, Begins, Returns, ReadEnds, Emptied, Continues, Finishes,
                ClosesViewers, ClosesDone, Unmaps, ClosesBody, Finishing, Over, To, Phase, Copying
  <2>3. \A t \in Sessions \ {s} :
           /\ phase'[t] = phase[t] /\ read'[t] = read[t] /\ cause'[t] = cause[t]
           /\ only'[t] = only[t] /\ viewers'[t] = viewers[t]
    <3>1. \A t \in Sessions \ {s} : phase'[t] = phase[t] /\ viewers'[t] = viewers[t]
      BY <2>1, <2>2 DEF To, StreamInv, ControlTyped
    <3>2. \A t \in Sessions \ {s} : cause'[t] = cause[t]
      BY <2>1 DEF NumbersTyped
    <3>3. QED
      BY <2>1, <3>1, <3>2
  <2>4. only'[s] = Gone /\ read'[s] = read[s]
    BY <2>1 DEF ChunkRead, Finishing, Over
  <2>5. phase'[s] \notin Copying /\ (phase'[s] \in {"none", "opening", "waiting"} => read[s] = 0)
    BY <2>2 DEF To, StreamInv, ControlTyped, ChunkRead
  <2>6. cause'[s] # "" => phase'[s] \in Finishing
    <3>1. CASE UNCHANGED cause
      <4>1. cause[s] # "" => phase[s] \in Finishing
        BY DEF ChunkRead
      <4>2. phase[s] \in Finishing => phase'[s] \in Finishing
        BY <2>2 DEF To, StreamInv, ControlTyped
      <4>3. QED
        BY <3>1, <4>1, <4>2
    <3>2. CASE To(s, "finish")
      BY <3>2 DEF To, StreamInv, ControlTyped, Finishing
    <3>3. QED
      BY <2>1, <3>1, <3>2
  <2>7. QED
    BY <2>3, <2>4, <2>5, <2>6, OneSession DEF StreamInv
<1>6. ASSUME NEW s \in Sessions, Reads(s) \/ Sends(s) \/ SendsOne(s) \/ SendsAll(s) PROVE ChunkRead'
  <2>1. /\ phase[s] \in {"reading"} \cup Copying
        /\ \E p \in {"sending", "blocked", "fanout", "emptied", "reading", "finish"} :
             /\ To(s, p)
             /\ p \in Copying /\ ~Reads(s) => phase[s] \in Copying
        /\ \/ UNCHANGED cause
           \/ \E c \in {"source", "cancel"} : cause' = [cause EXCEPT ![s] = c] /\ To(s, "finish")
    BY <1>6 DEF Reads, Sends, SendsOne, SendsAll, Continues, Returns, Copying
  <2>2. read' = read \/ (read' = [read EXCEPT ![s] = @ + 1] /\ Reads(s))
    BY <1>6 DEF Reads, Sends, SendsOne, SendsAll
  <2>3. /\ cause[s] = ""
        /\ phase'[s] \notin {"none", "opening", "waiting"}
        /\ cause'[s] # "" => phase'[s] \in Finishing
    BY <2>1 DEF To, StreamInv, ControlTyped, NumbersTyped, ChunkRead, Finishing, Over, Copying
  <2>4. phase'[s] \in Copying => read'[s] # 0
    <3>1. CASE Reads(s)
      <4>1. read[s] \in 0..MaxChunks /\ read'[s] = read[s] + 1
        BY <3>1 DEF Reads, NumbersTyped
      <4>2. read'[s] # 0
        BY <4>1, StreamAssumption DEF StreamAssumption
      <4>3. QED
        BY <4>2
    <3>2. CASE ~Reads(s)
      BY <2>1, <2>2, <3>2 DEF To, StreamInv, ControlTyped, ChunkRead
    <3>3. QED
      BY <3>1, <3>2
  <2>5. only'[s] # Gone => phase'[s] = "blocked" /\ only'[s] \in viewers'[s]
    <3>1. CASE Sends(s) /\ Cardinality(viewers[s]) = 1
      <4>1. viewers[s] # {}
        BY <3>1, FS_EmptySet
      <4>2. /\ only' = [only EXCEPT ![s] = CHOOSE r \in viewers[s] : TRUE]
            /\ To(s, "blocked")
            /\ viewers' = viewers
        BY <3>1 DEF Sends
      <4>3. QED
        BY <4>1, <4>2 DEF To, StreamInv, ControlTyped, NumbersTyped
    <3>2. CASE SendsOne(s)
      BY <3>2 DEF SendsOne, NumbersTyped
    <3>3. CASE Reads(s) \/ (Sends(s) /\ Cardinality(viewers[s]) # 1) \/ SendsAll(s)
      BY <3>3 DEF Reads, Sends, SendsAll, ChunkRead
    <3>4. QED
      BY <1>6, <3>1, <3>2, <3>3
  <2>6. \A t \in Sessions \ {s} : only'[t] = only[t] /\ viewers'[t] = viewers[t]
    BY <1>6 DEF Reads, Sends, SendsOne, SendsAll, FanOut, StreamInv, ControlTyped, NumbersTyped
  <2>7. \A t \in Sessions \ {s} :
          phase'[t] = phase[t] /\ read'[t] = read[t] /\ cause'[t] = cause[t]
    BY <2>1, <2>2 DEF To, StreamInv, ControlTyped, NumbersTyped
  <2>8. QED
    BY <2>3, <2>4, <2>5, <2>6, <2>7, OneSession DEF StreamInv
<1>7. ASSUME NEW r \in Requests, Ready(r) \/ GivesUp(r) \/ Cancels(r) \/ Starts(r) \/ Takes(r)
                                 \/ Ends(r) \/ Leaves(r)
      PROVE  ChunkRead'
  BY <1>1, <1>7 DEF Ready, GivesUp, Cancels, Starts, Takes, Ends, Leaves
<1>8. QED
  BY <1>1, <1>2, <1>3, <1>4, <1>5, <1>6, <1>7 DEF Next, Session, Handler, Client, vars

LEMMA ChunkInvNext == StreamInv /\ ChunkInv /\ [Next]_vars => ChunkInv'
BY QueuesNext, NumbersNext, ChunkReadNext DEF ChunkInv, StreamInv

LEMMA ChunksCorrect == Spec => []ChunkInv
BY ChunkInvInit, ChunkInvNext, StreamCorrect, PTL DEF Spec

\* Every variable of the multiplexer keeps its type; a queue is never longer
\* than the channel of a viewer (viewerQueueSize).
THEOREM StreamTyped == Spec => []TypeOK
<1>1. StreamInv /\ ChunkInv => TypeOK
  BY DEF StreamInv, ControlTyped, ChunkInv, NumbersTyped, QueuesTyped, Queued, TypeOK
<1>2. QED
  BY <1>1, StreamCorrect, ChunksCorrect, PTL

\* The viewers of a session are requests it still serves, and none of them is
\* closed (addViewer, Remove, broadcast, finish).
THEOREM ServesItsViewers == Spec => []ViewersServed
<1>1. StreamInv => ViewersServed
  BY DEF StreamInv
<1>2. QED
  BY <1>1, StreamCorrect, PTL
-----------------------------------------------------------------------------
(***************************************************************************)
(* The stream of a viewer has no gaps and is not cut short.                *)
(***************************************************************************)
\* The last chunk of a queue q, or the one taken before it was drained.
LastOf(q, t) == IF q = <<>> THEN t ELSE q[Len(q)]

Consecutive(q, t) ==
  /\ \A i \in 1..Len(q) - 1 : q[i + 1] = q[i] + 1
  /\ t # 0 /\ q # <<>> => Head(q) = t + 1

Reached(r) == LastOf(queue[r], taken[r])

\* The last chunk that broadcast is done with.
Sent(s) == IF phase[s] \in Copying THEN read[s] - 1 ELSE read[s]

\* A viewer, or one that finish() closed.
Watches(r, s) == r \in viewers[s] \/ (on[r] = s /\ closed[r] /\ ~dropped[r])

\* It has every chunk sent so far, or joined after them; and broadcast waits
\* for one viewer only when the others have joined since it counted them.
CaughtUp(s, r) ==
  /\ Watches(r, s) => cause[s] = "cancel" \/ Reached(r) \in {0, Sent(s)}
  /\ phase[s] = "blocked" /\ r \in viewers[s] /\ r # only[s] => Reached(r) = 0

\* A request that is not a viewer yet got nothing.
NothingYet ==
  \A r \in Requests :
    stage[r] \in {"idle", "retry", "waiting", "checked"} => queue[r] = <<>> /\ taken[r] = 0

\* A viewer sees EOF only at the end of its queue, after finish() or a drop.
EndsLast ==
  \A r \in Requests :
    /\ eof[r] => closed[r] /\ queue[r] = <<>>
    /\ closed[r] /\ ~dropped[r] => phase[on[r]] \in {"done", "unmap", "close", "ended"}

AllCaughtUp == \A s \in Sessions, r \in Requests : CaughtUp(s, r)

WholeInv == NothingYet /\ EndsLast /\ AllCaughtUp /\ NoGaps

LEMMA GapsAsQueues == NoGaps <=> \A r \in Requests : Consecutive(queue[r], taken[r])
BY DEF NoGaps, Consecutive

LEMMA AppendConsecutive ==
  ASSUME NEW q \in Queued, NEW t \in 0..MaxChunks, NEW x \in 1..MaxChunks,
         Consecutive(q, t), LastOf(q, t) \in {0, x - 1}
  PROVE  Consecutive(Append(q, x), t) /\ LastOf(Append(q, x), t) = x
<1> DEFINE a == Append(q, x)
<1>1. /\ a \in Queued /\ a # <<>> /\ Len(q) \in Nat /\ Len(a) = Len(q) + 1
      /\ a[Len(q) + 1] = x
      /\ \A i \in 1..Len(q) : a[i] = q[i]
  BY AppendFacts
<1>2. Head(a) = a[1]
  BY <1>1, TailFacts
<1>3. q # <<>> => /\ Len(q) \in Nat \ {0} /\ Head(q) = q[1]
                  /\ q[Len(q)] \in 1..MaxChunks
  <2>1. SUFFICES ASSUME q # <<>> PROVE q[Len(q)] \in 1..MaxChunks /\ Len(q) \in Nat \ {0}
    BY TailFacts
  <2>2. Len(q) \in Nat \ {0}
    BY <2>1, TailFacts
  <2>3. Len(q) \in 1..Len(q)
    BY <2>2
  <2>4. q \in Seq(1..MaxChunks)
    BY DEF Queued
  <2>5. QED
    BY <2>2, <2>3, <2>4, ElementOfSeq
<1>4. q = <<>> => Len(q) = 0
  BY EmptyQueue
<1> HIDE DEF a
<1>5. CASE q = <<>>
  <2>1. t \in {0, x - 1} /\ Len(a) = 1 /\ a[1] = x
    BY <1>1, <1>4, <1>5 DEF LastOf
  <2>2. t # 0 => Head(a) = t + 1
    BY <1>2, <2>1, StreamAssumption DEF StreamAssumption
  <2>3. QED
    BY <1>1, <2>1, <2>2 DEF Consecutive, LastOf, a
<1>6. CASE q # <<>>
  <2>1. q[Len(q)] = x - 1 /\ q[Len(q)] # 0
    BY <1>3, <1>6 DEF LastOf
  <2>2. Head(a) = Head(q)
    BY <1>1, <1>2, <1>3, <1>6
  <2>3. ASSUME NEW i \in 1..Len(a) - 1 PROVE a[i + 1] = a[i] + 1
    <3>1. i \in 1..Len(q)
      BY <1>1
    <3>2. CASE i = Len(q)
      BY <1>1, <2>1, <3>1, <3>2
    <3>3. CASE i # Len(q)
      <4>1. i \in 1..Len(q) - 1 /\ i + 1 \in 1..Len(q)
        BY <1>1, <3>1, <3>3
      <4>2. q[i + 1] = q[i] + 1
        BY <4>1 DEF Consecutive
      <4>3. QED
        BY <1>1, <3>1, <4>1, <4>2
    <3>4. QED
      BY <3>2, <3>3
  <2>4. t # 0 => Head(a) = t + 1
    BY <1>6, <2>2 DEF Consecutive
  <2>5. QED
    BY <1>1, <2>3, <2>4 DEF Consecutive, LastOf, a
<1>7. QED
  BY <1>5, <1>6

LEMMA TailConsecutive ==
  ASSUME NEW q \in Queued, q # <<>>, NEW t \in 0..MaxChunks, Consecutive(q, t)
  PROVE  Consecutive(Tail(q), Head(q)) /\ LastOf(Tail(q), Head(q)) = LastOf(q, t)
<1> DEFINE b == Tail(q)
<1>1. /\ b \in Queued /\ Len(q) \in Nat \ {0} /\ Len(b) = Len(q) - 1
      /\ \A i \in 1..(Len(q) - 1) : b[i] = q[i + 1]
      /\ Head(q) = q[1]
  BY TailFacts
<1>2. b # <<>> => Len(b) \in Nat \ {0} /\ Head(b) = b[1]
  BY <1>1, TailFacts
<1>3. b = <<>> => Len(b) = 0
  BY EmptyQueue
<1>4. \A i \in 1..Len(q) - 1 : q[i + 1] = q[i] + 1
  BY DEF Consecutive
<1> HIDE DEF b
<1>5. ASSUME NEW i \in 1..Len(b) - 1 PROVE b[i + 1] = b[i] + 1
  <2>1. i \in 1..(Len(q) - 1) /\ i + 1 \in 1..(Len(q) - 1)
    BY <1>1
  <2>2. b[i] = q[i + 1] /\ b[i + 1] = q[i + 2] /\ q[i + 2] = q[i + 1] + 1
    <3>1. b[i] = q[i + 1] /\ b[i + 1] = q[(i + 1) + 1] /\ q[(i + 1) + 1] = q[i + 1] + 1
      BY <1>1, <1>4, <2>1
    <3>2. (i + 1) + 1 = i + 2
      OBVIOUS
    <3>3. QED
      BY <3>1, <3>2
  <2>3. QED
    BY <2>2
<1>6. b # <<>> => Head(b) = Head(q) + 1
  <2>1. SUFFICES ASSUME b # <<>> PROVE Head(b) = Head(q) + 1
    OBVIOUS
  <2>2. 1 \in 1..(Len(q) - 1) /\ 1 + 1 = 2
    BY <1>1, <1>2, <2>1
  <2>3. QED
    BY <1>1, <1>2, <1>4, <2>1, <2>2
<1>7. LastOf(b, Head(q)) = LastOf(q, t)
  <2>1. CASE b = <<>>
    <3>1. Len(q) = 1
      BY <1>1, <1>3, <2>1
    <3>2. QED
      BY <1>1, <2>1, <3>1 DEF LastOf
  <2>2. CASE b # <<>>
    <3>1. Len(b) \in 1..(Len(q) - 1) /\ Len(b) + 1 = Len(q)
      BY <1>1, <1>2, <2>2
    <3>2. b[Len(b)] = q[Len(q)]
      BY <1>1, <3>1
    <3>3. QED
      BY <2>2, <3>2 DEF LastOf
  <2>3. QED
    BY <2>1, <2>2
<1>8. QED
  BY <1>5, <1>6, <1>7 DEF Consecutive, b

WholeFacts == StreamInv /\ NumbersTyped /\ QueuesTyped /\ ChunkRead

\* What a step does to the stream of a request.
Untouched(r) == queue'[r] = queue[r] /\ taken'[r] = taken[r]
Forgotten(r) == queue'[r] = <<>> /\ taken'[r] = 0
Advanced(r) == queue[r] # <<>> /\ queue'[r] = Tail(queue[r]) /\ taken'[r] = Head(queue[r])
Given(r, s) ==
  /\ SendsOne(s) \/ SendsAll(s)
  /\ r \in viewers[s]
  /\ phase[s] \in {"blocked", "fanout"}
  /\ phase[s] = "blocked" => r = only[s]
  /\ queue'[r] = Append(queue[r], read[s])
  /\ taken'[r] = taken[r]

LEMMA QueueSteps ==
  ASSUME WholeFacts, [Next]_vars, NEW r \in Requests
  PROVE  Untouched(r) \/ Forgotten(r) \/ Advanced(r) \/ \E s \in Sessions : Given(r, s)
<1> USE DEF viewerVars, requestVars
<1>1. CASE UNCHANGED <<queue, taken>>
  BY <1>1 DEF Untouched
<1>2. ASSUME NEW q \in Requests, Idle(q) PROVE Untouched(r) \/ Forgotten(r)
  BY <1>2 DEF Idle, Untouched, Forgotten, WholeFacts, QueuesTyped, NumbersTyped
<1>3. ASSUME NEW q \in Requests, Takes(q) PROVE Untouched(r) \/ Advanced(r)
  BY <1>3 DEF Takes, Untouched, Advanced, WholeFacts, QueuesTyped, NumbersTyped
<1>4. ASSUME NEW s \in Sessions, SendsOne(s) PROVE Untouched(r) \/ Given(r, s)
  <2>1. CASE /\ only[s] # Gone
             /\ queue' = [queue EXCEPT ![only[s]] = Append(@, read[s])]
    <3>1. only[s] \in viewers[s] /\ phase[s] = "blocked" /\ taken' = taken
      BY <1>4, <2>1 DEF SendsOne, WholeFacts, ChunkRead
    <3>2. queue'[r] = IF r = only[s] THEN Append(queue[r], read[s]) ELSE queue[r]
      BY <2>1 DEF WholeFacts, QueuesTyped
    <3>3. QED
      BY <1>4, <3>1, <3>2 DEF Untouched, Given
  <2>2. QED
    BY <1>1, <1>4, <2>1 DEF SendsOne, Untouched
<1>5. ASSUME NEW s \in Sessions, SendsAll(s) PROVE Untouched(r) \/ Given(r, s)
  <2> DEFINE full == {q \in viewers[s] : ~HasRoom(q)}
  <2>1. /\ queue' = [q \in Requests |-> IF q \in viewers[s] \ full THEN Append(queue[q], read[s])
                                        ELSE queue[q]]
        /\ phase[s] = "fanout" /\ taken' = taken
    BY <1>5 DEF SendsAll, FanOut
  <2>2. QED
    BY <1>5, <2>1 DEF Untouched, Given
<1>6. QED
  BY <1>1, <1>2, <1>3, <1>4, <1>5
  DEF Next, Session, Opens, OpenFails, Begins, Reads, ReadEnds, Sends, Emptied, Finishes,
      ClosesViewers, ClosesDone, Unmaps, ClosesBody, Handler, Client, Subscribe, Ready, GivesUp,
      LeaveOrCancel, Cancels, AddViewer, Starts, Ends, Leaves, Remove, vars

\* A viewer that broadcast gives a chunk to has every chunk before it.
LEMMA GivenFits ==
  ASSUME WholeFacts, WholeInv, NEW r \in Requests, NEW s \in Sessions, Given(r, s)
  PROVE  /\ read[s] \in 1..MaxChunks
         /\ LastOf(queue[r], taken[r]) \in {0, read[s] - 1}
<1>1. read[s] \in 0..MaxChunks
  BY DEF WholeFacts, NumbersTyped
<1>2. read[s] # 0 /\ cause[s] = ""
  BY DEF Given, WholeFacts, ChunkRead, Copying, Finishing, Over
<1>3. read[s] \in 1..MaxChunks
  BY <1>1, <1>2, NonzeroChunk
<1>4. Sent(s) = read[s] - 1
  BY DEF Sent, Given, Copying
<1>5. Reached(r) \in {0, Sent(s)}
  <2>1. CaughtUp(s, r)
    BY DEF WholeInv, AllCaughtUp
  <2>2. QED
    BY <1>2, <2>1 DEF CaughtUp, Watches, Given
<1>6. QED
  BY <1>3, <1>4, <1>5 DEF Reached

LEMMA NoGapsNext ==
  ASSUME WholeFacts, WholeInv, [Next]_vars
  PROVE  NoGaps'
<1> SUFFICES ASSUME NEW r \in Requests PROVE Consecutive(queue'[r], taken'[r])
  BY DEF NoGaps, Consecutive
<1>1. /\ queue[r] \in Queued /\ taken[r] \in 0..MaxChunks
      /\ Consecutive(queue[r], taken[r])
  BY GapsAsQueues DEF WholeFacts, QueuesTyped, NumbersTyped, WholeInv
<1>2. CASE Untouched(r)
  BY <1>1, <1>2 DEF Untouched
<1>3. CASE Forgotten(r)
  <2>1. 1..Len(<<>>) - 1 = {}
    BY EmptyQueue
  <2>2. QED
    BY <1>3, <2>1 DEF Forgotten, Consecutive
<1>4. CASE Advanced(r)
  BY <1>1, <1>4, TailConsecutive DEF Advanced
<1>5. ASSUME NEW s \in Sessions, Given(r, s) PROVE Consecutive(queue'[r], taken'[r])
  BY <1>1, <1>5, GivenFits, AppendConsecutive DEF Given
<1>6. QED
  BY <1>2, <1>3, <1>4, <1>5, QueueSteps

NotYet == {"idle", "retry", "waiting", "checked"}
Last == {"done", "unmap", "close", "ended"}

\* What a step does to the rest of a request.
LEMMA RequestSteps ==
  ASSUME WholeFacts, [Next]_vars, NEW r \in Requests
  PROVE  /\ stage'[r] \in NotYet => stage[r] \in NotYet \/ Forgotten(r)
         /\ eof'[r] => (closed[r] => closed'[r]) /\ (eof[r] \/ (Drained(r) /\ Untouched(r)))
         /\ closed'[r] /\ ~dropped'[r] =>
              \/ closed[r] /\ ~dropped[r] /\ on'[r] = on[r]
              \/ \E s \in Sessions : ClosesViewers(s) /\ r \in viewers[s] /\ on'[r] = on[r]
         /\ \A s \in Sessions : r \in viewers'[s] => r \in viewers[s] \/ AddViewer(r)
<1> USE DEF viewerVars, requestVars, sessionVars, signalVars, copyVars, managerVars
<1> DEFINE Goal == /\ stage'[r] \in NotYet => stage[r] \in NotYet \/ Forgotten(r)
                   /\ eof'[r] => (closed[r] => closed'[r]) /\ (eof[r] \/ (Drained(r) /\ Untouched(r)))
                   /\ closed'[r] /\ ~dropped'[r] =>
                        \/ closed[r] /\ ~dropped[r] /\ on'[r] = on[r]
                        \/ \E s \in Sessions : ClosesViewers(s) /\ r \in viewers[s] /\ on'[r] = on[r]
                   /\ \A s \in Sessions : r \in viewers'[s] => r \in viewers[s] \/ AddViewer(r)
<1> USE DEF WholeFacts
<1>1. CASE UNCHANGED <<stage, on, eof, closed, dropped, viewers>>
  BY <1>1
<1>2. ASSUME NEW q \in Requests, Idle(q), UNCHANGED viewers \/ viewers' = [viewers EXCEPT ![on[q]] = @ \ {q}]
      PROVE  Goal
  <2>1. \A s \in Sessions : viewers'[s] \subseteq viewers[s]
    BY <1>2 DEF StreamInv, ControlTyped
  <2>2. CASE q = r
    BY <1>2, <2>1, <2>2
    DEF Idle, Goes, Forgotten, StreamInv, ControlTyped, QueuesTyped, NumbersTyped
  <2>3. CASE q # r
    <3>1. /\ stage'[r] = stage[r] /\ on'[r] = on[r] /\ eof'[r] = eof[r]
          /\ closed'[r] = closed[r] /\ dropped'[r] = dropped[r]
      BY <1>2, <2>3 DEF Idle, Goes, StreamInv, ControlTyped, QueuesTyped, NumbersTyped
    <3>2. QED
      BY <2>1, <3>1
  <2>4. QED
    BY <2>2, <2>3
<1>3. ASSUME NEW q \in Requests, NEW p \in Stage, Goes(q, p), p \in NotYet => stage[q] \in NotYet,
             UNCHANGED <<on, eof, closed, dropped, queue>>,
             viewers' = viewers \/ (viewers' = [viewers EXCEPT ![on[q]] = @ \ {q}])
      PROVE  Goal
  <2>1. \A s \in Sessions : viewers'[s] \subseteq viewers[s]
    BY <1>3 DEF StreamInv, ControlTyped
  <2>2. stage'[r] \in NotYet => stage[r] \in NotYet
    BY <1>3 DEF Goes, StreamInv, ControlTyped
  <2>3. QED
    BY <1>3, <2>1, <2>2
<1>4. ASSUME NEW q \in Requests, Subscribe(q) PROVE Goal
  <2>1. stage[q] \in NotYet /\ ~closed[q]
    BY <1>4 DEF Subscribe, NotYet, StreamInv, NotYetClosed
  <2>2. /\ Goes(q, "waiting") /\ UNCHANGED <<eof, closed, dropped, viewers>>
        /\ \E s : on' = [on EXCEPT ![q] = s]
    BY <1>4 DEF Subscribe
  <2>3. stage'[r] \in NotYet => stage[r] \in NotYet
    BY <2>1, <2>2 DEF Goes, StreamInv, ControlTyped
  <2>4. closed[r] => on'[r] = on[r]
    BY <2>1, <2>2 DEF StreamInv, ControlTyped
  <2>5. QED
    BY <2>2, <2>3, <2>4
<1>5. ASSUME NEW q \in Requests, Ready(q) PROVE Goal
  <2>1. CASE /\ Goes(q, "retry")
             /\ on' = [on EXCEPT ![q] = NoSession]
             /\ UNCHANGED viewerVars
    <3>1. stage[q] \in NotYet /\ ~closed[q] /\ viewers' = viewers
      BY <1>5 DEF Ready, NotYet, StreamInv, NotYetClosed
    <3>2. stage'[r] \in NotYet => stage[r] \in NotYet
      BY <2>1, <3>1 DEF Goes, StreamInv, ControlTyped
    <3>3. closed[r] => on'[r] = on[r]
      BY <2>1, <3>1 DEF StreamInv, ControlTyped
    <3>4. QED
      BY <2>1, <3>1, <3>2, <3>3
  <2>2. CASE Goes(q, "checked") /\ UNCHANGED <<on, viewerVars>>
    BY <1>3, <1>5, <2>2 DEF Ready, NotYet, Stage
  <2>3. CASE Idle(q)
    BY <1>2, <1>5, <2>3 DEF Ready
  <2>4. QED
    BY <1>5, <2>1, <2>2, <2>3 DEF Ready
<1>6. ASSUME NEW q \in Requests, GivesUp(q) \/ Cancels(q) \/ Remove(q) PROVE Goal
  <2>1. viewers' = viewers \/ (viewers' = [viewers EXCEPT ![on[q]] = @ \ {q}])
    BY <1>6 DEF GivesUp, Cancels, Remove, Detach
  <2>2. \/ Idle(q)
        \/ Goes(q, "cancelling") /\ UNCHANGED <<on, viewerVars>>
    BY <1>6 DEF GivesUp, Cancels, Remove, LeaveOrCancel
  <2>3. QED
    BY <1>2, <1>3, <2>1, <2>2 DEF NotYet, Stage
<1>7. ASSUME NEW q \in Requests, AddViewer(q) PROVE Goal
  <2>1. stage'[r] \in NotYet => stage[r] \in NotYet
    BY <1>7 DEF AddViewer, Goes, StreamInv, ControlTyped, NotYet
  <2>2. \A s \in Sessions : r \in viewers'[s] => r \in viewers[s] \/ r = q
    BY <1>7 DEF AddViewer, StreamInv, ControlTyped
  <2>3. QED
    BY <1>7, <2>1, <2>2 DEF AddViewer
<1>8. ASSUME NEW q \in Requests, Starts(q) \/ Leaves(q) PROVE Goal
  BY <1>3, <1>8 DEF Starts, Leaves, NotYet, Stage
<1>9. ASSUME NEW q \in Requests, Ends(q) PROVE Goal
  <2>1. /\ eof' = [eof EXCEPT ![q] = TRUE]
        /\ closed[q] /\ queue[q] = <<>>
        /\ UNCHANGED <<viewers, on, queue, taken, closed, dropped>>
    BY <1>9 DEF Ends, Drained
  <2>2. stage'[r] \notin NotYet \/ stage[r] \in NotYet
    BY <1>9 DEF Ends, Goes, NotYet, StreamInv, ControlTyped
  <2>3. eof'[r] => eof[r] \/ r = q
    BY <2>1 DEF NumbersTyped
  <2>4. QED
    BY <2>1, <2>2, <2>3 DEF Drained, Untouched
<1>10. ASSUME NEW q \in Requests, Takes(q) PROVE Goal
  BY <1>1, <1>10 DEF Takes
<1>11. ASSUME NEW s \in Sessions, SendsAll(s) PROVE Goal
  <2> DEFINE full == {q \in viewers[s] : ~HasRoom(q)}
  <2>1. /\ UNCHANGED <<stage, on, eof>>
        /\ viewers' = [viewers EXCEPT ![s] = @ \ full]
        /\ closed' = [q \in Requests |-> closed[q] \/ q \in full]
        /\ dropped' = [q \in Requests |-> dropped[q] \/ q \in full]
    BY <1>11 DEF SendsAll, FanOut
  <2>2. \A t \in Sessions : viewers'[t] \subseteq viewers[t]
    BY <2>1 DEF StreamInv, ControlTyped
  <2>3. QED
    BY <2>1, <2>2
<1>12. ASSUME NEW s \in Sessions, ClosesViewers(s) PROVE Goal
  <2>1. /\ UNCHANGED <<stage, on, eof, dropped>>
        /\ viewers' = [viewers EXCEPT ![s] = {}]
        /\ closed' = [q \in Requests |-> closed[q] \/ q \in viewers[s]]
    BY <1>12 DEF ClosesViewers
  <2>2. \A t \in Sessions : viewers'[t] \subseteq viewers[t]
    BY <2>1 DEF StreamInv, ControlTyped
  <2>3. QED
    BY <1>12, <2>1, <2>2
<1>13. QED
  BY <1>1, <1>4, <1>5, <1>6, <1>7, <1>8, <1>9, <1>10, <1>11, <1>12
  DEF Next, Session, Opens, OpenFails, Begins, Reads, ReadEnds, Sends, SendsOne, Emptied, Finishes,
      ClosesDone, Unmaps, ClosesBody, Handler, Client, vars

\* What a step does to a session that is over.
LEMMA SessionSteps ==
  ASSUME WholeFacts, [Next]_vars, NEW s \in Sessions
  PROVE  /\ phase[s] \in Last => phase'[s] \in Last
         /\ cause[s] = "cancel" => cause'[s] = "cancel"
<1> USE DEF WholeFacts, sessionVars, copyVars, signalVars
<1>1. CASE UNCHANGED <<phase, cause>>
  BY <1>1
<1>2. ASSUME NEW r \in Requests, Subscribe(r) PROVE phase[s] \in Last => phase'[s] \in Last
  <2>1. phase' = phase \/ (phase' = [phase EXCEPT ![created + 1] = "opening"] /\ created < MaxSessions)
    BY <1>2 DEF Subscribe, To
  <2>2. s = created + 1 => phase[s] = "none"
    BY DEF StreamInv, Mapped, ControlTyped
  <2>3. QED
    BY <2>1, <2>2 DEF StreamInv, ControlTyped, Last
<1>3. ASSUME NEW t \in Sessions,
             \/ Opens(t) \/ OpenFails(t) \/ Begins(t) \/ Reads(t) \/ ReadEnds(t)
             \/ Sends(t) \/ SendsOne(t) \/ SendsAll(t) \/ Emptied(t)
      PROVE  \/ phase'[s] = phase[s] /\ cause'[s] = cause[s]
             \/ s = t /\ phase[s] \notin Finishing
  BY <1>3 DEF Opens, OpenFails, Begins, Reads, ReadEnds, Sends, SendsOne, SendsAll, Emptied,
              Continues, Returns, To, Finishing, Over, StreamInv, ControlTyped, NumbersTyped
<1>4. phase[s] \notin Finishing => phase[s] \notin Last /\ cause[s] # "cancel"
  BY DEF ChunkRead, Finishing, Over, Last
<1>5. ASSUME NEW t \in Sessions,
             Finishes(t) \/ ClosesViewers(t) \/ ClosesDone(t) \/ Unmaps(t) \/ ClosesBody(t)
      PROVE  cause' = cause /\ (phase[s] \in Last => phase'[s] \in Last)
  BY <1>5 DEF Finishes, ClosesViewers, ClosesDone, Unmaps, ClosesBody, To, Last,
              StreamInv, ControlTyped
<1>6. ASSUME NEW r \in Requests, Subscribe(r) PROVE cause' = cause
  BY <1>6 DEF Subscribe
<1>7. QED
  BY <1>1, <1>2, <1>3, <1>4, <1>5, <1>6
  DEF Next, Session, Handler, Client, Ready, GivesUp, Cancels, AddViewer, Starts, Takes, Ends,
      Leaves, Remove, vars, requestVars

\* Viewers join one by one.
Finite == \A s \in Sessions : IsFiniteSet(viewers[s])

LEMMA FiniteNext ==
  ASSUME WholeFacts, Finite, [Next]_vars
  PROVE  Finite'
<1> SUFFICES ASSUME NEW s \in Sessions PROVE IsFiniteSet(viewers'[s])
  BY DEF Finite
<1>1. IsFiniteSet(viewers[s])
  BY DEF Finite
<1>2. CASE \E q \in Requests : AddViewer(q)
  <2>1. PICK q \in Requests : AddViewer(q)
    BY <1>2
  <2>2. viewers'[s] = viewers[s] \/ viewers'[s] = viewers[s] \cup {q}
    BY <2>1 DEF AddViewer, WholeFacts, StreamInv, ControlTyped
  <2>3. QED
    BY <1>1, <2>2, FS_AddElement
<1>3. CASE \A q \in Requests : ~AddViewer(q)
  <2>1. viewers'[s] \subseteq Requests
    BY StreamInvNext DEF WholeFacts, StreamInv, ControlTyped
  <2>2. viewers'[s] \subseteq viewers[s]
    BY <1>3, <2>1, RequestSteps
  <2>3. QED
    BY <1>1, <2>2, FS_Subset
<1>4. QED
  BY <1>2, <1>3

LEMMA SentSteps ==
  ASSUME WholeFacts, Finite, [Next]_vars, NEW t \in Sessions, ~SendsOne(t), ~SendsAll(t), NEW r \in Requests
  PROVE  /\ Sent(t)' = Sent(t)
         /\ phase'[t] = "blocked" /\ r \in viewers'[t] /\ r # only'[t] =>
              phase[t] = "blocked" /\ r # only[t]
<1> USE DEF managerVars, sessionVars, signalVars, copyVars, WholeFacts
<1> DEFINE Blocks == phase'[t] = "blocked" /\ r \in viewers'[t] /\ r # only'[t] =>
                       phase[t] = "blocked" /\ r # only[t]
<1>1. CASE phase'[t] = phase[t] /\ read'[t] = read[t] /\ only'[t] = only[t]
  BY <1>1 DEF Sent
<1>2. ASSUME NEW q \in Requests, Subscribe(q) PROVE Sent(t)' = Sent(t) /\ Blocks
  <2>1. UNCHANGED <<read, only>>
    BY <1>2 DEF Subscribe
  <2>2. phase' = phase \/ (phase' = [phase EXCEPT ![created + 1] = "opening"] /\ created < MaxSessions)
    BY <1>2 DEF Subscribe, To
  <2>3. t = created + 1 => phase[t] = "none"
    BY DEF StreamInv, Mapped, ControlTyped
  <2>4. phase'[t] = phase[t] \/ (phase[t] = "none" /\ phase'[t] = "opening")
    BY <2>2, <2>3 DEF StreamInv, ControlTyped
  <2>5. QED
    BY <2>1, <2>4 DEF Sent, Copying
<1>3. ASSUME NEW q \in Requests, Remove(q) PROVE Sent(t)' = Sent(t) /\ Blocks
  <2>1. /\ UNCHANGED <<phase, read>>
        /\ viewers' = [viewers EXCEPT ![on[q]] = @ \ {q}]
        /\ only' = [only EXCEPT ![on[q]] = IF @ = q THEN Gone ELSE @]
    BY <1>3 DEF Remove, Detach
  <2>2. only'[t] = only[t] \/ (only[t] = q /\ q \notin viewers'[t])
    BY <2>1 DEF StreamInv, ControlTyped, NumbersTyped
  <2>3. QED
    BY <2>1, <2>2 DEF Sent
<1>4. ASSUME NEW s \in Sessions \ {t}, Session(s) PROVE Sent(t)' = Sent(t) /\ Blocks
  <2>1. \E p : To(s, p)
    BY <1>4 DEF Session, Opens, OpenFails, Begins, Reads, ReadEnds, Sends, SendsOne, SendsAll, Emptied,
                Continues, Returns, Finishes, ClosesViewers, ClosesDone, Unmaps, ClosesBody
  <2>2. /\ read' = read \/ read' = [read EXCEPT ![s] = @ + 1]
        /\ only' = only \/ \E p : only' = [only EXCEPT ![s] = p]
    BY <1>4 DEF Session, Opens, OpenFails, Begins, Reads, ReadEnds, Sends, SendsOne, SendsAll, Emptied,
                Finishes, ClosesViewers, ClosesDone, Unmaps, ClosesBody
  <2>3. phase'[t] = phase[t] /\ read'[t] = read[t] /\ only'[t] = only[t]
    BY <2>1, <2>2 DEF To, StreamInv, ControlTyped, NumbersTyped
  <2>4. QED
    BY <1>1, <2>3
<1>5. CASE Reads(t)
  <2>1. /\ phase[t] = "reading" /\ phase'[t] = "sending"
        /\ read'[t] = read[t] + 1 /\ read[t] \in 0..MaxChunks
    BY <1>5 DEF Reads, To, StreamInv, ControlTyped, NumbersTyped
  <2>2. (read[t] + 1) - 1 = read[t]
    BY <2>1, StreamAssumption DEF StreamAssumption
  <2>3. QED
    BY <2>1, <2>2 DEF Sent, Copying
<1>6. CASE Sends(t)
  <2>1. Sent(t)' = Sent(t)
    BY <1>6 DEF Sends, To, Sent, Copying, StreamInv, ControlTyped
  <2>2. CASE Cardinality(viewers[t]) = 1
    <3>1. PICK q \in viewers[t] : viewers[t] = {q}
      <4>1. \E q : viewers[t] = {q}
        BY <2>2, FS_Singleton DEF Finite
      <4>2. QED
        BY <4>1
    <3>2. only'[t] = q /\ viewers' = viewers
      BY <1>6, <2>2, <3>1 DEF Sends, NumbersTyped
    <3>3. QED
      BY <2>1, <3>1, <3>2
  <2>3. CASE Cardinality(viewers[t]) # 1
    BY <1>6, <2>1, <2>3 DEF Sends, To, StreamInv, ControlTyped
  <2>4. QED
    BY <2>2, <2>3
<1>7. ASSUME \/ Opens(t) \/ OpenFails(t) \/ Begins(t) \/ ReadEnds(t) \/ Emptied(t)
             \/ Finishes(t) \/ ClosesViewers(t) \/ ClosesDone(t) \/ Unmaps(t) \/ ClosesBody(t)
      PROVE  Sent(t)' = Sent(t) /\ Blocks
  <2>1. /\ read' = read
        /\ phase[t] \notin Copying
        /\ \E p \in {"waiting", "reading"} \cup Finishing : To(t, p)
    BY <1>7 DEF Opens, OpenFails, Begins, Returns, ReadEnds, Emptied, Continues, Finishes,
                ClosesViewers, ClosesDone, Unmaps, ClosesBody, Finishing, Over, Copying
  <2>2. phase'[t] \notin Copying
    BY <2>1 DEF To, StreamInv, ControlTyped, Finishing, Over, Copying
  <2>3. QED
    BY <2>1, <2>2 DEF Sent, Copying
<1>8. QED
  BY <1>1, <1>2, <1>3, <1>4, <1>5, <1>6, <1>7
  DEF Next, Session, Handler, Client, Ready, GivesUp, Cancels, AddViewer, Starts, Takes, Ends,
      Leaves, vars

LEMMA NothingYetNext ==
  ASSUME WholeFacts, WholeInv, [Next]_vars
  PROVE  NothingYet'
<1> SUFFICES ASSUME NEW r \in Requests, stage'[r] \in NotYet
             PROVE  queue'[r] = <<>> /\ taken'[r] = 0
  BY DEF NothingYet, NotYet
<1>1. CASE Forgotten(r)
  BY <1>1 DEF Forgotten
<1>2. CASE ~Forgotten(r)
  <2>1. stage[r] \in NotYet
    BY <1>2, RequestSteps
  <2>2. queue[r] = <<>> /\ taken[r] = 0
    BY <2>1 DEF WholeInv, NothingYet, NotYet
  <2>3. \A s \in Sessions : r \notin viewers[s]
    BY <2>1 DEF WholeFacts, StreamInv, ViewersServed, NotYet
  <2>4. QED
    BY <1>2, <2>2, <2>3, QueueSteps DEF Untouched, Advanced, Given
<1>3. QED
  BY <1>1, <1>2

LEMMA EndsLastNext ==
  ASSUME WholeFacts, WholeInv, [Next]_vars
  PROVE  EndsLast'
<1> SUFFICES ASSUME NEW r \in Requests
             PROVE  /\ eof'[r] => closed'[r] /\ queue'[r] = <<>>
                    /\ closed'[r] /\ ~dropped'[r] => phase'[on'[r]] \in Last
  BY DEF EndsLast, Last
<1>1. eof'[r] => closed'[r] /\ queue'[r] = <<>>
  <2>1. SUFFICES ASSUME eof'[r] PROVE closed'[r] /\ queue'[r] = <<>>
    OBVIOUS
  <2>2. closed[r] /\ queue[r] = <<>>
    BY <2>1, RequestSteps DEF Drained, WholeInv, EndsLast
  <2>3. \A s \in Sessions : r \notin viewers[s]
    BY <2>2 DEF WholeFacts, StreamInv, ViewersServed
  <2>4. queue'[r] = <<>>
    BY <2>2, <2>3, QueueSteps DEF Untouched, Forgotten, Advanced, Given
  <2>5. QED
    BY <2>1, <2>2, <2>4, RequestSteps
<1>2. closed'[r] /\ ~dropped'[r] => phase'[on'[r]] \in Last
  <2>1. SUFFICES ASSUME closed'[r], ~dropped'[r] PROVE phase'[on'[r]] \in Last
    OBVIOUS
  <2>2. CASE closed[r] /\ ~dropped[r] /\ on'[r] = on[r]
    <3>1. phase[on[r]] \in Last
      BY <2>2 DEF WholeInv, EndsLast, Last
    <3>2. on[r] \in Sessions
      BY <2>2 DEF WholeFacts, StreamInv, ControlTyped, NotYetClosed, Stage
    <3>3. QED
      BY <2>2, <3>1, <3>2, SessionSteps
  <2>3. ASSUME NEW s \in Sessions, ClosesViewers(s), r \in viewers[s], on'[r] = on[r]
        PROVE  phase'[on'[r]] \in Last
    <3>1. on[r] = s
      BY <2>3 DEF WholeFacts, StreamInv, ViewersServed
    <3>2. phase'[s] = "done"
      BY <2>3 DEF ClosesViewers, To, WholeFacts, StreamInv, ControlTyped
    <3>3. QED
      BY <2>3, <3>1, <3>2 DEF Last
  <2>4. QED
    BY <2>1, <2>2, <2>3, RequestSteps
<1>3. QED
  BY <1>1, <1>2

\* A request that watches a session watched it before, or has just joined.
LEMMA WatchesSteps ==
  ASSUME WholeFacts, [Next]_vars, NEW t \in Sessions, NEW r \in Requests, Watches(r, t)'
  PROVE  Watches(r, t) \/ AddViewer(r)
<1>1. CASE r \in viewers'[t]
  BY <1>1, RequestSteps DEF Watches
<1>2. CASE on'[r] = t /\ closed'[r] /\ ~dropped'[r]
  <2>1. CASE closed[r] /\ ~dropped[r] /\ on'[r] = on[r]
    BY <1>2, <2>1 DEF Watches
  <2>2. ASSUME NEW s \in Sessions, r \in viewers[s], on'[r] = on[r] PROVE Watches(r, t)
    <3>1. on[r] = s
      BY <2>2 DEF WholeFacts, StreamInv, ViewersServed
    <3>2. QED
      BY <1>2, <2>2, <3>1 DEF Watches
  <2>3. QED
    BY <1>2, <2>1, <2>2, RequestSteps
<1>3. QED
  BY <1>1, <1>2 DEF Watches

\* The steps that send nothing to the viewers of t.
LEMMA CaughtUpQuiet ==
  ASSUME WholeFacts, Finite, WholeInv, [Next]_vars, NEW t \in Sessions, NEW r \in Requests,
         ~SendsOne(t), ~SendsAll(t)
  PROVE  CaughtUp(t, r)'
<1>1. CaughtUp(t, r)
  BY DEF WholeInv, AllCaughtUp
<1>2. CASE Reached(r)' = 0
  BY <1>2 DEF CaughtUp
<1>3. CASE Reached(r)' # 0
  <2>1. ~AddViewer(r)
    <3>1. SUFFICES ASSUME AddViewer(r) PROVE FALSE
      OBVIOUS
    <3>2. queue[r] = <<>> /\ taken[r] = 0
      BY <3>1 DEF AddViewer, WholeInv, NothingYet
    <3>3. queue' = queue /\ taken' = taken
      BY <3>1 DEF AddViewer, viewerVars
    <3>4. QED
      BY <1>3, <3>2, <3>3 DEF Reached, LastOf
  <2>2. Watches(r, t)' => Watches(r, t)
    BY <2>1, WatchesSteps
  <2>3. r \in viewers'[t] => r \in viewers[t]
    BY <2>1, RequestSteps
  <2>4. ~Forgotten(r)
    BY <1>3 DEF Forgotten, Reached, LastOf
  <2>5. ASSUME NEW s \in Sessions, Given(r, s) PROVE ~Watches(r, t)
    <3>1. r \in viewers[s] /\ s # t
      BY <2>5 DEF Given
    <3>2. QED
      BY <3>1 DEF Watches, WholeFacts, StreamInv, ViewersServed
  <2>6. Watches(r, t) => Reached(r)' = Reached(r)
    <3>1. CASE Untouched(r)
      BY <3>1 DEF Untouched, Reached, LastOf
    <3>2. CASE Advanced(r)
      <4>1. queue[r] \in Queued /\ taken[r] \in 0..MaxChunks /\ Consecutive(queue[r], taken[r])
        BY GapsAsQueues DEF WholeFacts, QueuesTyped, NumbersTyped, WholeInv
      <4>2. LastOf(Tail(queue[r]), Head(queue[r])) = LastOf(queue[r], taken[r])
        BY <3>2, <4>1, TailConsecutive DEF Advanced
      <4>3. QED
        BY <3>2, <4>2 DEF Advanced, Reached, LastOf
    <3>3. QED
      BY <2>4, <2>5, <3>1, <3>2, QueueSteps
  <2>7. Sent(t)' = Sent(t) /\ (cause[t] = "cancel" => cause'[t] = "cancel")
    BY SentSteps, SessionSteps
  <2>8. Watches(r, t)' => cause'[t] = "cancel" \/ Reached(r)' \in {0, Sent(t)'}
    BY <1>1, <2>2, <2>6, <2>7 DEF CaughtUp
  <2>9. phase'[t] = "blocked" /\ r \in viewers'[t] /\ r # only'[t] => Reached(r)' = 0
    <3>1. r \in viewers[t] => Watches(r, t)
      BY DEF Watches
    <3>2. QED
      BY <1>1, <2>3, <2>6, <3>1, SentSteps DEF CaughtUp
  <2>10. QED
    BY <2>8, <2>9 DEF CaughtUp
<1>4. QED
  BY <1>2, <1>3

\* The steps that send a chunk.
LEMMA CaughtUpSent ==
  ASSUME WholeFacts, Finite, WholeInv, [Next]_vars, NEW t \in Sessions, NEW r \in Requests,
         SendsOne(t) \/ SendsAll(t)
  PROVE  CaughtUp(t, r)'
<1>1. CaughtUp(t, r)
  BY DEF WholeInv, AllCaughtUp
<1>2. phase[t] \in {"blocked", "fanout"} /\ phase[t] \notin Last
  BY DEF SendsOne, SendsAll, Last
<1>3. \E p \in {"reading", "finish", "emptied"} : To(t, p)
  BY DEF SendsOne, SendsAll, Continues, Returns
<1>4. phase'[t] \notin Copying /\ read' = read
  BY <1>3 DEF To, Copying, SendsOne, SendsAll, WholeFacts, StreamInv, ControlTyped
<1>5. Sent(t)' = read[t]
  BY <1>4 DEF Sent
<1>6. phase'[t] # "blocked"
  BY <1>4 DEF Copying
<1>7. SUFFICES ASSUME Watches(r, t)'
               PROVE  cause'[t] = "cancel" \/ Reached(r)' \in {0, read[t]}
  BY <1>5, <1>6 DEF CaughtUp
<1>8. ~(closed[r] /\ ~dropped[r] /\ on[r] = t)
  BY <1>2 DEF WholeInv, EndsLast, Last
<1>9. UNCHANGED <<on, stage>>
  BY DEF SendsOne, SendsAll
<1>10. ASSUME Given(r, t) PROVE Reached(r)' = read[t]
  <2>1. queue[r] \in Queued /\ taken[r] \in 0..MaxChunks /\ Consecutive(queue[r], taken[r])
    BY GapsAsQueues DEF WholeFacts, QueuesTyped, NumbersTyped, WholeInv
  <2>2. LastOf(Append(queue[r], read[t]), taken[r]) = read[t]
    BY <1>10, <2>1, GivenFits, AppendConsecutive
  <2>3. QED
    BY <1>10, <2>2 DEF Given, Reached, LastOf
<1>11. CASE SendsOne(t)
  <2>1. /\ phase[t] = "blocked"
        /\ UNCHANGED <<viewers, closed, dropped, taken>>
    BY <1>11 DEF SendsOne
  <2>2. r \in viewers[t]
    BY <1>7, <1>8, <1>9, <2>1 DEF Watches
  <2>3. ~closed[r]
    BY <2>2 DEF WholeFacts, StreamInv, ViewersServed
  <2>4. CASE canceled[t]
    BY <1>11, <2>4 DEF SendsOne, Continues, Returns, WholeFacts, NumbersTyped
  <2>5. CASE ~canceled[t] /\ r = only[t]
    <3>1. ~NothingToWaitFor(t)
      BY <2>3, <2>5 DEF NothingToWaitFor
    <3>2. queue' = [queue EXCEPT ![r] = Append(@, read[t])]
      BY <1>11, <2>5, <3>1 DEF SendsOne
    <3>3. Given(r, t)
      BY <1>11, <2>1, <2>2, <2>5, <3>2 DEF Given, WholeFacts, QueuesTyped
    <3>4. QED
      BY <1>10, <3>3
  <2>6. CASE r # only[t]
    <3>1. Reached(r) = 0
      BY <1>1, <2>1, <2>2, <2>6 DEF CaughtUp
    <3>2. queue'[r] = queue[r]
      BY <1>11, <2>6 DEF SendsOne, WholeFacts, QueuesTyped
    <3>3. QED
      BY <2>1, <3>1, <3>2 DEF Reached, LastOf
  <2>7. QED
    BY <2>4, <2>5, <2>6
<1>12. CASE SendsAll(t)
  <2> DEFINE full == {q \in viewers[t] : ~HasRoom(q)}
  <2>1. /\ phase[t] = "fanout"
        /\ viewers' = [viewers EXCEPT ![t] = @ \ full]
        /\ queue' = [q \in Requests |-> IF q \in viewers[t] \ full THEN Append(queue[q], read[t])
                                        ELSE queue[q]]
        /\ closed' = [q \in Requests |-> closed[q] \/ q \in full]
        /\ dropped' = [q \in Requests |-> dropped[q] \/ q \in full]
        /\ taken' = taken
    BY <1>12 DEF SendsAll, FanOut
  <2>2. r \in viewers'[t]
    BY <1>7, <1>8, <1>9, <2>1 DEF Watches
  <2>3. r \in viewers[t] \ full
    BY <2>1, <2>2 DEF WholeFacts, StreamInv, ControlTyped
  <2>4. Given(r, t)
    BY <1>12, <2>1, <2>3 DEF Given
  <2>5. QED
    BY <1>10, <2>4
<1>13. QED
  BY <1>11, <1>12

LEMMA WholeInit == Init => Finite /\ WholeInv
<1> SUFFICES ASSUME Init PROVE Finite /\ WholeInv
  OBVIOUS
<1>1. Finite
  BY FS_EmptySet DEF Init, Finite
<1>2. NothingYet /\ EndsLast
  BY DEF Init, NothingYet, EndsLast
<1>3. AllCaughtUp
  BY DEF Init, AllCaughtUp, CaughtUp, Reached, LastOf
<1>4. \A r \in Requests : queue[r] = <<>> /\ taken[r] = 0
  BY DEF Init
<1>5. 1..Len(<<>>) - 1 = {}
  BY EmptyQueue
<1>6. NoGaps
  BY <1>4, <1>5 DEF NoGaps
<1>7. QED
  BY <1>1, <1>2, <1>3, <1>6 DEF WholeInv

LEMMA WholeNext == StreamInv /\ ChunkInv /\ Finite /\ WholeInv /\ [Next]_vars => Finite' /\ WholeInv'
<1> SUFFICES ASSUME WholeFacts, Finite, WholeInv, [Next]_vars PROVE Finite' /\ WholeInv'
  BY DEF ChunkInv, WholeFacts
<1>1. ASSUME NEW t \in Sessions, NEW r \in Requests PROVE CaughtUp(t, r)'
  BY CaughtUpQuiet, CaughtUpSent
<1>2. AllCaughtUp'
  BY <1>1 DEF AllCaughtUp, Sessions
<1>3. QED
  BY <1>2, FiniteNext, NothingYetNext, EndsLastNext, NoGapsNext DEF WholeInv

\* A viewer gets the stream from where it joined to the end, without a gap, or
\* is dropped (broadcast, finish, Viewer.Next): no order of joins, departures,
\* full queues and cancellations loses a chunk in the middle or the last one.
THEOREM NothingIsSkipped == Spec => []StreamWhole
<1>1. StreamInv /\ ChunkInv /\ WholeInv => StreamWhole
  <2> SUFFICES ASSUME StreamInv, ChunkInv, WholeInv, NEW r \in Requests,
                      eof[r], ~dropped[r], cause[on[r]] = "source"
               PROVE  taken[r] \in {0, read[on[r]]}
    BY DEF StreamWhole, NotTruncated, WholeInv
  <2>1. closed[r] /\ queue[r] = <<>> /\ phase[on[r]] \in Last
    BY DEF WholeInv, EndsLast, Last
  <2>2. on[r] \in Sessions
    BY <2>1 DEF StreamInv, ControlTyped, NotYetClosed, Stage
  <2>3. Watches(r, on[r]) /\ Sent(on[r]) = read[on[r]] /\ Reached(r) = taken[r]
    BY <2>1 DEF Watches, Sent, Reached, LastOf, Last, Copying
  <2>4. CaughtUp(on[r], r)
    BY <2>2 DEF WholeInv, AllCaughtUp
  <2>5. QED
    BY <2>3, <2>4 DEF CaughtUp
<1>2. Spec => [](Finite /\ WholeInv)
  BY WholeInit, WholeNext, StreamCorrect, ChunksCorrect, PTL DEF Spec
<1>3. QED
  BY <1>1, <1>2, StreamCorrect, ChunksCorrect, PTL
-----------------------------------------------------------------------------
(***************************************************************************)
(* Signals: what a request or a goroutine waits for is still to come.      *)
(***************************************************************************)
Unstarted == {"none", "opening"}
Done == {"unmap", "close", "ended"}

\* The channels and the map tell where the goroutine of a session is.
SignalsMatch ==
  \A s \in Sessions :
    /\ ready[s] <=> phase[s] \notin Unstarted
    /\ done[s] <=> phase[s] \in Done
    /\ current = s => phase[s] \notin {"none", "close", "ended"}

\* A request is with a session that was created; a viewer has started it, and
\* is among its viewers until it is closed.
RequestsServed ==
  \A r \in Requests :
    /\ on[r] \in Sessions => phase[on[r]] # "none"
    /\ stage[r] \in {"viewing", "leaving"} => started[on[r]]
    /\ stage[r] \in {"added", "viewing"} => closed[r] \/ r \in viewers[on[r]]

SignalInv == SignalsMatch /\ RequestsServed

LEMMA NoSuchSession == NoSession \notin Sessions
BY StreamAssumption DEF StreamAssumption, NoSession, Sessions

LEMMA SignalInvInit == Init => SignalInv
<1> SUFFICES ASSUME Init PROVE SignalInv
  OBVIOUS
<1>1. SignalsMatch
  <2>1. \A s \in Sessions : phase[s] = "none" /\ ~ready[s] /\ ~done[s] /\ current # s
    BY NoSuchSession DEF Init
  <2>2. QED
    BY <2>1 DEF SignalsMatch, Unstarted, Done
<1>2. RequestsServed
  <2>1. \A r \in Requests : on[r] \notin Sessions /\ stage[r] = "idle"
    BY NoSuchSession DEF Init
  <2>2. QED
    BY <2>1 DEF RequestsServed
<1>3. QED
  BY <1>1, <1>2 DEF SignalInv

LEMMA SignalsMatchNext == WholeFacts /\ SignalsMatch /\ [Next]_vars => SignalsMatch'
<1> SUFFICES ASSUME WholeFacts, SignalsMatch, [Next]_vars PROVE SignalsMatch'
  OBVIOUS
<1> USE DEF WholeFacts, managerVars, signalVars, copyVars, sessionVars, viewerVars, requestVars
<1>1. CASE UNCHANGED <<current, phase, ready, done>>
  BY <1>1 DEF SignalsMatch
<1>2. ASSUME NEW s \in Sessions, Opens(s) \/ OpenFails(s) PROVE SignalsMatch'
  <2>1. /\ phase[s] = "opening"
        /\ ready' = [ready EXCEPT ![s] = TRUE]
        /\ \E p \in {"waiting", "finish"} : phase' = [phase EXCEPT ![s] = p]
        /\ UNCHANGED <<current, done>>
    BY <1>2 DEF Opens, OpenFails, Refused, To
  <2>2. QED
    BY <2>1 DEF SignalsMatch, Unstarted, Done, StreamInv, ControlTyped, NumbersTyped
<1>3. ASSUME NEW s \in Sessions,
             \/ Begins(s) \/ Reads(s) \/ ReadEnds(s) \/ Sends(s) \/ SendsOne(s) \/ SendsAll(s)
             \/ Emptied(s) \/ Finishes(s) \/ ClosesViewers(s)
      PROVE  SignalsMatch'
  <2>1. phase[s] \notin Unstarted \cup Done
    BY <1>3 DEF Begins, Reads, ReadEnds, Sends, SendsOne, SendsAll, Emptied, Finishes,
                ClosesViewers, Unstarted, Done
  <2>2. \E p \in Phase \ (Unstarted \cup Done) : phase' = [phase EXCEPT ![s] = p]
    BY <1>3 DEF Begins, Reads, ReadEnds, Sends, SendsOne, SendsAll, Emptied, Finishes,
                ClosesViewers, Continues, Returns, To, Phase, Unstarted, Done
  <2>3. UNCHANGED <<current, ready, done>>
    BY <1>3 DEF Begins, Reads, ReadEnds, Sends, SendsOne, SendsAll, Emptied, Finishes,
                ClosesViewers
  <2>4. QED
    BY <2>1, <2>2, <2>3 DEF SignalsMatch, Unstarted, Done, StreamInv, ControlTyped
<1>4. ASSUME NEW s \in Sessions, ClosesDone(s) PROVE SignalsMatch'
  BY <1>4 DEF ClosesDone, To, SignalsMatch, Unstarted, Done, StreamInv, ControlTyped
<1>5. ASSUME NEW s \in Sessions, Unmaps(s) PROVE SignalsMatch'
  <2>1. current' # s /\ \A t \in Sessions : current' = t => current = t
    BY <1>5 DEF Unmaps, NoSession, Sessions
  <2>2. /\ phase[s] = "unmap"
        /\ \E p \in {"close", "ended"} : phase' = [phase EXCEPT ![s] = p]
        /\ UNCHANGED <<ready, done>>
    BY <1>5 DEF Unmaps, To
  <2>3. QED
    BY <2>1, <2>2 DEF SignalsMatch, Unstarted, Done, StreamInv, ControlTyped
<1>6. ASSUME NEW s \in Sessions, ClosesBody(s) PROVE SignalsMatch'
  BY <1>6 DEF ClosesBody, To, SignalsMatch, Unstarted, Done, StreamInv, ControlTyped
<1>7. ASSUME NEW r \in Requests, Subscribe(r) PROVE SignalsMatch'
  <2>1. CASE UNCHANGED <<current, phase>>
    BY <1>1, <1>7, <2>1 DEF Subscribe
  <2>2. CASE /\ created < MaxSessions
             /\ current' = created + 1
             /\ phase' = [phase EXCEPT ![created + 1] = "opening"]
    <3>1. created + 1 \in Sessions /\ phase[created + 1] = "none"
      BY <2>2, StreamAssumption
      DEF StreamAssumption, Sessions, StreamInv, ControlTyped, Mapped
    <3>2. UNCHANGED <<ready, done>>
      BY <1>7 DEF Subscribe
    <3>3. QED
      BY <2>2, <3>1, <3>2 DEF SignalsMatch, Unstarted, Done, StreamInv, ControlTyped
  <2>3. QED
    BY <1>7, <2>1, <2>2 DEF Subscribe, To
<1>8. QED
  BY <1>1, <1>2, <1>3, <1>4, <1>5, <1>6, <1>7
  DEF Next, Session, Handler, Client, Ready, GivesUp, Cancels, AddViewer, Starts, Takes, Ends,
      Leaves, Remove, vars

\* What a step does to the session of a request, and to the request.
LEMMA ServedSteps ==
  ASSUME WholeFacts, SignalsMatch, [Next]_vars, NEW r \in Requests, NEW s \in Sessions
  PROVE  /\ phase[s] # "none" => phase'[s] # "none"
         /\ started[s] => started'[s]
         /\ on'[r] \in Sessions => on'[r] = on[r] \/ (Subscribe(r) /\ phase'[on'[r]] # "none")
         /\ stage'[r] \in {"viewing", "leaving"} =>
              stage[r] \in {"viewing", "leaving"} \/ Starts(r)
         /\ stage'[r] \in {"added", "viewing"} => stage[r] \in {"added", "viewing"} \/ AddViewer(r)
         /\ stage'[r] \in {"added", "viewing"} /\ closed[r] => closed'[r]
         /\ stage'[r] \in {"added", "viewing"} /\ r \in viewers[s] =>
              r \in viewers'[s] \/ closed'[r]
<1> USE DEF WholeFacts, managerVars, signalVars, copyVars, sessionVars, viewerVars, requestVars
<1> DEFINE Later == /\ phase[s] # "none" => phase'[s] # "none"
                    /\ started[s] => started'[s]
           Moved == on'[r] \in Sessions =>
                      on'[r] = on[r] \/ (Subscribe(r) /\ phase'[on'[r]] # "none")
           Staged == /\ stage'[r] \in {"viewing", "leaving"} =>
                          stage[r] \in {"viewing", "leaving"} \/ Starts(r)
                     /\ stage'[r] \in {"added", "viewing"} =>
                          stage[r] \in {"added", "viewing"} \/ AddViewer(r)
           Kept == stage'[r] \in {"added", "viewing"} =>
                     /\ closed[r] => closed'[r]
                     /\ r \in viewers[s] => r \in viewers'[s] \/ closed'[r]
<1> HIDE DEF Later, Moved, Staged, Kept
<1>1. ASSUME UNCHANGED vars PROVE Later /\ Moved /\ Staged /\ Kept
  BY <1>1 DEF vars, Later, Moved, Staged, Kept
<1>2. ASSUME NEW t \in Sessions, Session(t) PROVE Later /\ Moved /\ Staged /\ Kept
  <2>1. UNCHANGED <<stage, on, started>>
    BY <1>2 DEF Session, Opens, OpenFails, Begins, Reads, ReadEnds, Sends, SendsOne, SendsAll,
                Emptied, Finishes, ClosesViewers, ClosesDone, Unmaps, ClosesBody
  <2>2. \E p \in Phase \ {"none"} : phase' = [phase EXCEPT ![t] = p]
    <3>1. CASE \/ Begins(t) \/ SendsOne(t) \/ SendsAll(t) \/ Emptied(t)
      BY <3>1 DEF Begins, SendsOne, SendsAll, Emptied, Continues, Returns, To, Phase
    <3>2. CASE \/ Opens(t) \/ OpenFails(t) \/ Reads(t) \/ ReadEnds(t) \/ Sends(t) \/ Finishes(t)
               \/ ClosesViewers(t) \/ ClosesDone(t) \/ Unmaps(t) \/ ClosesBody(t)
      BY <3>2 DEF Opens, OpenFails, Reads, ReadEnds, Sends, Finishes, ClosesViewers, ClosesDone,
                  Unmaps, ClosesBody, Returns, To, Phase
    <3>3. QED
      BY <1>2, <3>1, <3>2 DEF Session
  <2>3. Later
    BY <2>1, <2>2 DEF Later, StreamInv, ControlTyped
  <2>4. Kept
    <3>1. CASE SendsAll(t)
      <4> DEFINE full == {q \in viewers[t] : ~HasRoom(q)}
      <4>1. /\ viewers' = [viewers EXCEPT ![t] = @ \ full]
            /\ closed' = [q \in Requests |-> closed[q] \/ q \in full]
        BY <3>1 DEF SendsAll, FanOut
      <4>2. QED
        BY <4>1 DEF Kept, StreamInv, ControlTyped
    <3>2. CASE ClosesViewers(t)
      <4>1. /\ viewers' = [viewers EXCEPT ![t] = {}]
            /\ closed' = [q \in Requests |-> closed[q] \/ q \in viewers[t]]
        BY <3>2 DEF ClosesViewers
      <4>2. QED
        BY <4>1 DEF Kept, StreamInv, ControlTyped
    <3>3. CASE UNCHANGED <<viewers, closed>>
      BY <3>3 DEF Kept
    <3>4. QED
      BY <1>2, <3>1, <3>2, <3>3
      DEF Session, Opens, OpenFails, Begins, Reads, ReadEnds, Sends, SendsOne,
          Emptied, Finishes, ClosesDone, Unmaps, ClosesBody
  <2>5. QED
    BY <2>1, <2>3, <2>4 DEF Moved, Staged
<1>3. ASSUME NEW q \in Requests, Subscribe(q) PROVE Later /\ Moved /\ Staged /\ Kept
  <2>1. /\ stage' = [stage EXCEPT ![q] = "waiting"]
        /\ UNCHANGED <<started, viewers, closed>>
        /\ \/ on' = [on EXCEPT ![q] = current] /\ current # NoSession /\ UNCHANGED phase
           \/ /\ on' = [on EXCEPT ![q] = created + 1]
              /\ phase' = [phase EXCEPT ![created + 1] = "opening"]
    BY <1>3 DEF Subscribe, NeedsSession, Goes, To
  <2>2. Later /\ Staged /\ Kept
    BY <2>1 DEF Later, Staged, Kept, StreamInv, ControlTyped
  <2>3. Moved
    BY <1>3, <2>1 DEF Moved, StreamInv, ControlTyped, SignalsMatch
  <2>4. QED
    BY <2>2, <2>3
<1>4. ASSUME NEW q \in Requests, Idle(q), UNCHANGED <<phase, started>>,
             \A t \in Sessions : \A o \in Requests \ {q} : o \in viewers[t] => o \in viewers'[t]
      PROVE  Later /\ Moved /\ Staged /\ Kept
  <2>1. on'[q] = NoSession /\ stage'[q] = "idle"
    BY <1>4 DEF Idle, Goes, StreamInv, ControlTyped
  <2>2. \A o \in Requests \ {q} : on'[o] = on[o] /\ stage'[o] = stage[o] /\ closed'[o] = closed[o]
    BY <1>4 DEF Idle, Goes, StreamInv, ControlTyped
  <2>3. CASE r = q
    BY <1>4, <2>1, <2>3, NoSuchSession DEF Later, Moved, Staged, Kept
  <2>4. CASE r # q
    BY <1>4, <2>2, <2>4 DEF Later, Moved, Staged, Kept
  <2>5. QED
    BY <2>3, <2>4
<1>5. ASSUME NEW q \in Requests, NEW p \in Stage, Goes(q, p),
             UNCHANGED <<phase, on, closed>>,
             started[s] => started'[s],
             p \in {"viewing", "leaving"} => stage[q] \in {"viewing", "leaving"} \/ Starts(q),
             p \in {"added", "viewing"} => stage[q] \in {"added", "viewing"} \/ AddViewer(q),
             \A t \in Sessions : \A o \in Requests :
               o \in viewers[t] => o \in viewers'[t] \/ (o = q /\ p \notin {"added", "viewing"})
      PROVE  Later /\ Moved /\ Staged /\ Kept
  BY <1>5 DEF Later, Moved, Staged, Kept, Goes, StreamInv, ControlTyped
<1>6. ASSUME NEW q \in Requests, Ready(q) PROVE Later /\ Moved /\ Staged /\ Kept
  <2>1. UNCHANGED <<phase, started, viewers>>
    BY <1>6 DEF Ready
  <2>2. CASE Idle(q)
    BY <1>4, <2>1, <2>2
  <2>3. CASE Goes(q, "checked") /\ UNCHANGED <<on, closed>>
    BY <1>5, <2>1, <2>3 DEF Stage
  <2>4. CASE Goes(q, "retry") /\ (on' = [on EXCEPT ![q] = NoSession]) /\ UNCHANGED closed
    BY <2>1, <2>4
    DEF Later, Moved, Staged, Kept, Goes, StreamInv, ControlTyped, NoSession, Sessions
  <2>5. QED
    BY <1>6, <2>2, <2>3, <2>4 DEF Ready
<1>7. ASSUME NEW q \in Requests, GivesUp(q) \/ Cancels(q) \/ Remove(q)
      PROVE  Later /\ Moved /\ Staged /\ Kept
  <2>1. /\ UNCHANGED <<phase, started>>
        /\ viewers' = viewers \/ (viewers' = [viewers EXCEPT ![on[q]] = @ \ {q}])
    BY <1>7 DEF GivesUp, Cancels, Remove, Detach
  <2>2. \A t \in Sessions : \A o \in Requests \ {q} : o \in viewers[t] => o \in viewers'[t]
    BY <2>1 DEF StreamInv, ControlTyped
  <2>3. \/ Idle(q)
        \/ Goes(q, "cancelling") /\ UNCHANGED <<on, viewerVars>>
    BY <1>7 DEF GivesUp, Cancels, Remove, LeaveOrCancel
  <2>4. CASE Idle(q)
    BY <1>4, <2>1, <2>2, <2>4
  <2>5. CASE Goes(q, "cancelling") /\ UNCHANGED <<on, closed>>
    BY <1>5, <2>1, <2>2, <2>5 DEF Stage
  <2>6. QED
    BY <2>3, <2>4, <2>5
<1>8. ASSUME NEW q \in Requests, AddViewer(q) PROVE Later /\ Moved /\ Staged /\ Kept
  <2>1. /\ Goes(q, "added")
        /\ UNCHANGED <<phase, on, closed, started>>
        /\ viewers' = [viewers EXCEPT ![on[q]] = @ \cup {q}]
    BY <1>8 DEF AddViewer
  <2>2. \A t \in Sessions : \A o \in Requests : o \in viewers[t] => o \in viewers'[t]
    BY <2>1 DEF StreamInv, ControlTyped
  <2>3. QED
    BY <1>5, <1>8, <2>1, <2>2 DEF Stage
<1>9. ASSUME NEW q \in Requests, Starts(q) PROVE Later /\ Moved /\ Staged /\ Kept
  <2>1. /\ stage[q] = "added" /\ Goes(q, "viewing")
        /\ UNCHANGED <<phase, on, closed, viewers>>
        /\ started[s] => started'[s]
    BY <1>9 DEF Starts, NumbersTyped
  <2>2. QED
    BY <1>5, <1>9, <2>1 DEF Stage
<1>10. ASSUME NEW q \in Requests, Ends(q) \/ Leaves(q) PROVE Later /\ Moved /\ Staged /\ Kept
  <2>1. /\ stage[q] = "viewing" /\ Goes(q, "leaving")
        /\ UNCHANGED <<phase, on, closed, viewers, started>>
    BY <1>10 DEF Ends, Leaves
  <2>2. QED
    BY <1>5, <2>1 DEF Stage
<1>11. ASSUME NEW q \in Requests, Takes(q) PROVE Later /\ Moved /\ Staged /\ Kept
  BY <1>11 DEF Takes, Later, Moved, Staged, Kept
<1>12. Later /\ Moved /\ Staged /\ Kept
  <2>1. ASSUME NEW q \in Requests, Handler(q) \/ Client(q) PROVE Later /\ Moved /\ Staged /\ Kept
    BY <1>3, <1>6, <1>7, <1>8, <1>9, <1>10, <1>11, <2>1 DEF Handler, Client
  <2>2. QED
    BY <1>1, <1>2, <2>1 DEF Next
<1>13. QED
  BY <1>12 DEF Later, Moved, Staged, Kept

LEMMA RequestsServedNext == WholeFacts /\ SignalInv /\ [Next]_vars => RequestsServed'
<1> SUFFICES ASSUME WholeFacts, SignalInv, [Next]_vars, NEW r \in Requests
             PROVE  /\ on'[r] \in Sessions => phase'[on'[r]] # "none"
                    /\ stage'[r] \in {"viewing", "leaving"} => started'[on'[r]]
                    /\ stage'[r] \in {"added", "viewing"} => closed'[r] \/ r \in viewers'[on'[r]]
  BY DEF RequestsServed, Sessions
<1> USE DEF SignalInv, RequestsServed
<1>1. on'[r] \in Sessions => phase'[on'[r]] # "none"
  BY ServedSteps
<1>2. WholeFacts => StreamInv'
  BY StreamInvNext DEF WholeFacts
<1>3. stage'[r] \in {"added", "viewing", "leaving"} =>
        on'[r] = on[r] /\ on[r] \in Sessions /\ closed' \in [Requests -> BOOLEAN]
  <2>1. stage'[r] \in {"added", "viewing", "leaving"} => on'[r] \in Sessions /\ ~Subscribe(r)
    BY <1>2 DEF StreamInv, ControlTyped, Subscribe, Goes, WholeFacts
  <2>2. QED
    BY <1>2, <2>1, ServedSteps DEF StreamInv, ControlTyped
<1>4. stage'[r] \in {"viewing", "leaving"} => started'[on'[r]]
  <2>1. CASE stage[r] \in {"viewing", "leaving"}
    BY <1>3, <2>1, ServedSteps
  <2>2. CASE Starts(r)
    BY <1>3, <2>2 DEF Starts, WholeFacts, NumbersTyped
  <2>3. QED
    BY <2>1, <2>2, <1>3, ServedSteps
<1>5. stage'[r] \in {"added", "viewing"} => closed'[r] \/ r \in viewers'[on'[r]]
  <2>1. CASE stage[r] \in {"added", "viewing"}
    BY <1>3, <2>1, ServedSteps
  <2>2. CASE AddViewer(r)
    BY <1>3, <2>2 DEF AddViewer, WholeFacts, StreamInv, ControlTyped
  <2>3. QED
    BY <2>1, <2>2, <1>3, ServedSteps
<1>6. QED
  BY <1>1, <1>4, <1>5

\* Whoever waits in Subscribe, run or broadcast waits for something that another
\* goroutine is about to do: with fairness, nobody hangs.
THEOREM NobodyIsStranded == Spec => []NoLostSignal
<1>1. Init => SignalInv
  BY SignalInvInit
<1>2. StreamInv /\ ChunkInv /\ SignalInv /\ [Next]_vars => SignalInv'
  BY SignalsMatchNext, RequestsServedNext DEF SignalInv, ChunkInv, WholeFacts
<1>3. StreamInv /\ ChunkInv /\ SignalInv => NoLostSignal
  <2> SUFFICES ASSUME StreamInv, ChunkInv, SignalInv PROVE NoLostSignal
    OBVIOUS
  <2> USE DEF StreamInv, SignalInv
  <2>1. ASSUME NEW r \in Requests
        PROVE  /\ stage[r] = "waiting" => ready[on[r]] \/ phase[on[r]] = "opening"
               /\ stage[r] = "viewing" => closed[r] \/ r \in viewers[on[r]]
    BY DEF SignalsMatch, RequestsServed, ControlTyped, Unstarted
  <2>2. ASSUME NEW s \in Sessions, phase[s] = "waiting"
        PROVE  \/ started[s]
               \/ canceled[s]
               \/ \E r \in Requests :
                    on[r] = s /\ stage[r] \in {"waiting", "checked", "added", "cancelling"}
    <3>1. CASE \E r \in Requests : on[r] = s
      <4>1. PICK r \in Requests : on[r] = s
        BY <3>1
      <4>2. stage[r] \in {"waiting", "checked", "added", "viewing", "leaving", "cancelling"}
        BY <4>1 DEF ControlTyped, Stage, NoSession, Sessions
      <4>3. QED
        BY <4>1, <4>2 DEF RequestsServed
    <3>2. QED
      BY <2>2, <3>1 DEF NoIdleUpstream
  <2>3. ASSUME NEW s \in Sessions
        PROVE  only[s] = Gone \/ (only[s] \in viewers[s] /\ ~closed[only[s]])
    BY DEF ChunkInv, ChunkRead, ViewersServed
  <2>4. ASSUME NEW s \in Sessions, done[s], current = s PROVE phase[s] = "unmap"
    BY <2>4 DEF SignalsMatch, Done
  <2>5. QED
    BY <2>1, <2>2, <2>3, <2>4 DEF NoLostSignal
<1>4. QED
  BY <1>1, <1>2, <1>3, StreamCorrect, ChunksCorrect, PTL DEF Spec
=============================================================================
