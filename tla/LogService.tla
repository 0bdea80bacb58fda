------------------------------ MODULE LogService ------------------------------
(***************************************************************************)
(* The log of the system: the Go core's client (internal/logging), the     *)
(* table and its operations (log.service.ts, app/api/logs), the stream of  *)
(* new entries (app/api/logs/stream) and the page that shows them.         *)
(*                                                                         *)
(* An entry reaches the page on three ways that know nothing of each       *)
(* other: the event a write emits, the tail of the table every stream      *)
(* reads, and the list the page fetches when its filter changes.  The tail *)
(* goes by SQLite's rowids, which are used again after a deletion.         *)
(***************************************************************************)
EXTENDS Integers, Sequences, FiniteSets

CONSTANTS
  MaxWrites,   \* bound: entries
  Kinds,       \* levels, sources and categories, as far as filters tell them apart
  KindOf,      \* the kind an entry is written with
  Filters,     \* what the page may ask for: a kind or All, and an order
  All,
  QueueSize,   \* logQueueSize
  PageSize,    \* the page shows 500 entries
  TailSize,    \* the tail reads 200 rows at a time
  MaxEdits,    \* bound: deletions and updates of entries
  MaxFaults,   \* bound: failures, timeouts, losses of the connection, changes of the filter
  None

ASSUME LogAssumption ==
  /\ {MaxEdits, MaxFaults} \subseteq Nat
  /\ {MaxWrites, QueueSize, PageSize, TailSize} \subseteq Nat \ {0}
  /\ Filters \subseteq [kind : Kinds \cup {All}, order : {"DESC", "ASC"}]
  /\ KindOf \in [1..MaxWrites -> Kinds]
  /\ [kind |-> All, order |-> "DESC"] \in Filters
  /\ All \notin Kinds /\ None \notin Kinds /\ None \notin 1..MaxWrites

Entries == 1..MaxWrites
RowIds == 1..MaxWrites

VARIABLES
  from,      \* who wrote an entry: the Go core or the management service
  at,        \* where it is: not yet written, queued, before the INSERT, before the event, done
  queue,     \* Client.queue
  posting,   \* the entry Client.write is sending
  rows,      \* the table: rowid to entry and kind
  editing,   \* the PUT of an entry that has read it: [entry, kind]
  conn,      \* the page's EventSource: closed (paused), asking, read (MAX(rowid) is known), open
  lastRow, seen, tail,  \* of the stream: lastRowId, the ids it has sent, the result of its query
  wire,      \* the events it has sent
  filter,    \* of the page
  list,      \* logs
  fetches,   \* its requests for the list: the answer, and whether the filter is still the same
  failed,    \* an error is shown
  clearing,  \* DELETE /api/logs by the page: idle, sent, answered
  timeouts, edits, faults

client == <<queue, posting>>
writes == <<from, at>>
stream == <<conn, lastRow, seen, tail, wire>>
page == <<filter, list, fetches, failed, clearing>>
bounds == <<timeouts, edits, faults>>
vars == <<writes, client, rows, editing, stream, page, bounds>>

Item == [entry : Entries, kind : Kinds]
Fetch == [filter : Filters, live : BOOLEAN, answer : {None} \cup Seq(Item)]

TypeOK ==
  /\ from \in [Entries -> {None, "proxy", "ui"}]
  /\ at \in [Entries -> {"new", "queue", "insert", "emit", "done"}]
  /\ queue \in Seq(Entries) /\ Len(queue) <= QueueSize
  /\ posting \in Entries \cup {None}
  /\ DOMAIN rows \subseteq RowIds /\ rows \in [DOMAIN rows -> Item]
  /\ editing \in Item \cup {None}
  /\ conn \in {"closed", "asking", "read", "open"}
  /\ lastRow \in 0..MaxWrites
  /\ seen \subseteq Entries
  /\ tail = None \/ (DOMAIN tail \subseteq RowIds /\ tail \in [DOMAIN tail -> Item])
  /\ wire \in Seq(Item)
  /\ filter \in Filters
  /\ list \in Seq(Item) /\ Len(list) <= PageSize
  /\ \A f \in fetches :
       /\ f \in Fetch
       /\ f.answer # None => Len(f.answer) <= PageSize
  /\ failed \in BOOLEAN
  /\ clearing \in {"idle", "sent", "answered"}
  /\ timeouts \in 0..MaxFaults /\ edits \in 0..MaxEdits /\ faults \in 0..MaxFaults

Written(e) == [entry |-> e, kind |-> KindOf[e]]
Asked(f) == [filter |-> f, live |-> TRUE, answer |-> None]

\* The page has just opened: it asks for the list and for the stream.
Init ==
  /\ from = [e \in Entries |-> None]
  /\ at = [e \in Entries |-> "new"]
  /\ queue = <<>> /\ posting = None
  /\ rows = <<>>
  /\ editing = None
  /\ conn = "asking"
  /\ lastRow = 0 /\ seen = {} /\ tail = None
  /\ wire = <<>>
  /\ filter = [kind |-> All, order |-> "DESC"]
  /\ list = <<>>
  /\ fetches = {Asked(filter)}
  /\ failed = FALSE /\ clearing = "idle"
  /\ timeouts = 0 /\ edits = 0 /\ faults = 0

Fault == faults < MaxFaults /\ faults' = faults + 1 /\ UNCHANGED <<timeouts, edits>>
Edit == edits < MaxEdits /\ edits' = edits + 1 /\ UNCHANGED <<timeouts, faults>>
Largest(S) == CHOOSE x \in S : \A y \in S : y <= x
MaxRow == Largest({0} \cup DOMAIN rows)
Matches(k, f) == f.kind \in {All, k}
AtMost(s, n) == IF Len(s) <= n THEN s ELSE SubSeq(s, 1, n)

\* What a query with ORDER BY and LIMIT n finds in rs.
Before(r, s, order) == IF order = "DESC" THEN r > s ELSE r < s
FirstRows(rs, n, order) ==
  {q \in [1..(IF Cardinality(rs) < n THEN Cardinality(rs) ELSE n) -> rs] :
     \A i \in DOMAIN q : {r \in rs : Before(r, q[i], order)} = {q[j] : j \in 1..(i - 1)}}
Reversed(s) == [i \in 1..Len(s) |-> s[Len(s) + 1 - i]]
Moves(e, p) == at' = [at EXCEPT ![e] = p]
-----------------------------------------------------------------------------
(***************************************************************************)
(* internal/logging: a bounded queue and one worker.                       *)
(***************************************************************************)
IsNext(e) == at[e] = "new" /\ \A f \in Entries : f < e => at[f] # "new"

Begins(e, who, p) ==
  /\ IsNext(e)
  /\ from' = [from EXCEPT ![e] = who]
  /\ Moves(e, p)

\* Client.Write: an entry that finds the queue full is dropped.
Write(e) ==
  /\ IF Len(queue) < QueueSize
     THEN Begins(e, "proxy", "queue") /\ queue' = Append(queue, e)
     ELSE Begins(e, "proxy", "done") /\ UNCHANGED queue
  /\ UNCHANGED <<posting, rows, editing, stream, page, bounds>>

\* The worker does not wait for the answer to the entry before.
FaultyPost ==
  /\ queue # <<>>
  /\ posting' = Head(queue)
  /\ queue' = Tail(queue)
  /\ Moves(Head(queue), "insert")
  /\ UNCHANGED <<from, rows, editing, stream, page, bounds>>

\* Client.run and Client.write: writeLog waits for the database.
Post ==
  /\ posting = None /\ queue # <<>>
  /\ posting' = Head(queue)
  /\ queue' = Tail(queue)
  /\ Moves(Head(queue), "insert")
  /\ UNCHANGED <<from, rows, editing, stream, page, bounds>>

\* Three seconds without an answer: the service may still be working on the request.
PostTimesOut ==
  /\ posting # None /\ faults < MaxFaults
  /\ posting' = None
  /\ faults' = faults + 1
  /\ timeouts' = timeouts + 1
  /\ UNCHANGED <<writes, queue, rows, editing, stream, page, edits>>

\* The answer to a POST, which only the worker that still waits for it notices.
Answers(e) == posting' = IF posting = e THEN None ELSE posting
-----------------------------------------------------------------------------
(***************************************************************************)
(* LogService: a write is an INSERT and then an event.                     *)
(***************************************************************************)
\* writeLog by the management service itself.
WriteLog(e) ==
  /\ Begins(e, "ui", "insert")
  /\ UNCHANGED <<client, rows, editing, stream, page, bounds>>

\* SQLite gives the row the largest rowid of the table plus one.
Insert(e) ==
  /\ at[e] = "insert"
  /\ rows' = [r \in DOMAIN rows \cup {MaxRow + 1} |->
                IF r = MaxRow + 1 THEN Written(e) ELSE rows[r]]
  /\ Moves(e, "emit")
  /\ UNCHANGED <<from, client, editing, stream, page, bounds>>

\* The INSERT fails, or the service does not answer.
InsertFails(e) ==
  /\ at[e] = "insert"
  /\ Moves(e, "done") /\ Answers(e)
  /\ Fault
  /\ UNCHANGED <<from, queue, rows, editing, stream, page>>

\* One entry too many is kept.
FaultyAdd(shown, new) ==
  IF filter.order = "DESC"
  THEN AtMost(Reversed(new) \o shown, PageSize + 1)
  ELSE Reversed(AtMost(Reversed(shown \o new), PageSize + 1))

\* The listener of the page's EventSource: new entries that match come first or last, and the list
\* keeps its size.
Add(shown, new) ==
  IF filter.order = "DESC"
  THEN AtMost(Reversed(new) \o shown, PageSize)
  ELSE Reversed(AtMost(Reversed(shown \o new), PageSize))

\* What a stream sends, it remembers; the page shows those of them that match.  The page handles an
\* event as it comes; that it may be late is in the steps of the requests it may overtake.
Sends(items, matching) ==
  /\ wire' = wire \o items
  /\ seen' = seen \cup {items[i].entry : i \in DOMAIN items}
  /\ list' = Add(list, matching)

SendsOne(item) == Sends(<<item>>, IF Matches(item.kind, filter) THEN <<item>> ELSE <<>>)

\* The stream sends the event although the tail has sent the row.
FaultyEmit(e) ==
  /\ at[e] = "emit"
  /\ IF conn = "open"
     THEN SendsOne(Written(e))
     ELSE UNCHANGED <<wire, seen, list>>
  /\ Moves(e, "done") /\ Answers(e)
  /\ UNCHANGED <<from, queue, rows, editing, conn, lastRow, tail,
                 filter, fetches, failed, clearing, bounds>>

\* logEmitter.emit and the listener of an open stream; then the POST is answered.
Emit(e) ==
  /\ at[e] = "emit"
  /\ IF conn = "open" /\ e \notin seen
     THEN SendsOne(Written(e))
     ELSE UNCHANGED <<wire, seen, list>>
  /\ Moves(e, "done") /\ Answers(e)
  /\ UNCHANGED <<from, queue, rows, editing, conn, lastRow, tail,
                 filter, fetches, failed, clearing, bounds>>

Keep(kept) == rows' = [r \in kept |-> rows[r]]

\* clearAllLogs, by another administrator.
ClearAll ==
  /\ Edit
  /\ DOMAIN rows # {} /\ Keep({})
  /\ UNCHANGED <<writes, client, editing, stream, page>>

\* pruneOldLogs and pruneLogsWithoutRecursion: the oldest rows; their times follow their rowids.
Prune(r) ==
  /\ Edit
  /\ Keep({s \in DOMAIN rows : s > r})
  /\ UNCHANGED <<writes, client, editing, stream, page>>

\* DELETE /api/logs/[id].
DeleteLog(r) ==
  /\ Edit
  /\ Keep(DOMAIN rows \ {r})
  /\ UNCHANGED <<writes, client, editing, stream, page>>

\* PUT /api/logs/[id]: updateLog reads the entry ...
ReadLog(r, k) ==
  /\ editing = None /\ rows[r].kind # k /\ edits < MaxEdits
  /\ editing' = [entry |-> rows[r].entry, kind |-> k]
  /\ UNCHANGED <<writes, client, rows, stream, page, bounds>>

\* ... and updates what is there by now; nobody listens for updated_log.
UpdateLog ==
  /\ editing # None /\ Edit
  /\ rows' = [r \in DOMAIN rows |-> IF rows[r].entry = editing.entry THEN editing ELSE rows[r]]
  /\ editing' = None
  /\ UNCHANGED <<writes, client, stream, page>>
-----------------------------------------------------------------------------
(***************************************************************************)
(* GET /api/logs/stream.                                                   *)
(***************************************************************************)
\* The largest rowid, before the listener is there.
ReadMaxRow ==
  /\ conn = "asking"
  /\ conn' = "read"
  /\ lastRow' = MaxRow
  /\ UNCHANGED <<writes, client, rows, editing, seen, tail, wire, page, bounds>>

Listen ==
  /\ conn = "read"
  /\ conn' = "open"
  /\ UNCHANGED <<writes, client, rows, editing, lastRow, seen, tail, wire, page, bounds>>

Newer == {r \in DOMAIN rows : r > lastRow}
Result(q) == [r \in {q[i] : i \in DOMAIN q} |-> rows[r]]

\* The newest rows are read first.
FaultyReadTail ==
  /\ conn = "open" /\ tail = None /\ Newer # {}
  /\ \E q \in FirstRows(Newer, TailSize, "DESC") : tail' = Result(q)
  /\ UNCHANGED <<writes, client, rows, editing, conn, lastRow, seen, wire, page, bounds>>

\* Every two seconds the rows above the last one are read ...
ReadTail ==
  /\ conn = "open" /\ tail = None /\ Newer # {}
  /\ \E q \in FirstRows(Newer, TailSize, "ASC") : tail' = Result(q)
  /\ UNCHANGED <<writes, client, rows, editing, conn, lastRow, seen, wire, page, bounds>>

Items(q) == [i \in DOMAIN q |-> tail[q[i]]]

\* ... and those are sent, in their order, that no event has brought.
SendTail ==
  LET new == {r \in DOMAIN tail : tail[r].entry \notin seen}
      matching == {r \in new : Matches(tail[r].kind, filter)}
  IN /\ conn = "open" /\ tail # None
     /\ lastRow' = Largest({lastRow} \cup DOMAIN tail)
     /\ \E q \in FirstRows(new, TailSize, "ASC"), m \in FirstRows(matching, TailSize, "ASC") :
          Sends(Items(q), Items(m))
     /\ tail' = None
     /\ UNCHANGED <<writes, client, rows, editing, conn, filter, fetches, failed, clearing, bounds>>

\* The abort of the request removes the listener and the timers.
Closes(next) ==
  /\ conn' = next
  /\ lastRow' = 0 /\ seen' = {} /\ tail' = None
  /\ wire' = <<>>

\* The EventSource connects again, and asks for nothing it has missed.
ConnectionLost ==
  /\ conn \in {"read", "open"} /\ Fault
  /\ Closes("asking")
  /\ UNCHANGED <<writes, client, rows, editing, page>>
-----------------------------------------------------------------------------
(***************************************************************************)
(* The page.                                                               *)
(***************************************************************************)
\* Live or Paused.
Toggle ==
  /\ Fault
  /\ Closes(IF conn = "closed" THEN "asking" ELSE "closed")
  /\ UNCHANGED <<writes, client, rows, editing, page>>

\* Both effects run again: the fetch under way is cancelled, the stream is closed.
SetFilter(f) ==
  /\ f # filter /\ Fault
  /\ filter' = f
  /\ fetches' = {[g EXCEPT !.live = FALSE] : g \in fetches} \cup {Asked(f)}
  /\ failed' = FALSE
  /\ Closes(IF conn = "closed" THEN "closed" ELSE "asking")
  /\ UNCHANGED <<writes, client, rows, editing, list, clearing>>

\* queryLogs.
QueryLogs(g) ==
  /\ g.answer = None
  /\ \E q \in FirstRows({r \in DOMAIN rows : Matches(rows[r].kind, g.filter)}, PageSize, g.filter.order) :
       fetches' = (fetches \ {g}) \cup {[g EXCEPT !.answer = [i \in DOMAIN q |-> rows[q[i]]]]}
  /\ UNCHANGED <<writes, client, rows, editing, stream, filter, list, failed, clearing, bounds>>

\* The answer to an earlier filter is shown too.
FaultyShow(g) ==
  /\ g.answer # None
  /\ fetches' = fetches \ {g}
  /\ list' = g.answer
  /\ UNCHANGED <<writes, client, rows, editing, stream, filter, failed, clearing, bounds>>

\* The list is replaced, unless the fetch was cancelled.
Show(g) ==
  /\ g.answer # None
  /\ fetches' = fetches \ {g}
  /\ list' = IF g.live THEN g.answer ELSE list
  /\ UNCHANGED <<writes, client, rows, editing, stream, filter, failed, clearing, bounds>>

FetchFails(g) ==
  /\ Fault
  /\ fetches' = fetches \ {g}
  /\ failed' = (failed \/ g.live)
  /\ UNCHANGED <<writes, client, rows, editing, stream, filter, list, clearing>>

\* clearLogs: the dialog asks DELETE /api/logs ...
ClearLogs ==
  /\ clearing = "idle" /\ list # <<>> /\ edits < MaxEdits
  /\ clearing' = "sent"
  /\ failed' = FALSE
  /\ UNCHANGED <<writes, client, rows, editing, stream, filter, list, fetches, bounds>>

ClearAnswered ==
  /\ clearing = "sent" /\ Edit
  /\ Keep({})
  /\ clearing' = "answered"
  /\ UNCHANGED <<writes, client, editing, stream, filter, list, fetches, failed>>

\* ... and the list is emptied.
Cleared ==
  /\ clearing = "answered"
  /\ clearing' = "idle"
  /\ list' = <<>>
  /\ UNCHANGED <<writes, client, rows, editing, stream, filter, fetches, failed, bounds>>

ClearFails ==
  /\ clearing # "idle" /\ Fault
  /\ clearing' = "idle"
  /\ failed' = TRUE
  /\ UNCHANGED <<writes, client, rows, editing, stream, filter, list, fetches>>
-----------------------------------------------------------------------------
Next ==
  \/ \E e \in Entries :
       \/ Write(e) \/ WriteLog(e)
       \/ Insert(e) \/ InsertFails(e) \/ Emit(e)
  \/ Post \/ PostTimesOut
  \/ ClearAll \/ UpdateLog
  \/ \E r \in DOMAIN rows : Prune(r) \/ DeleteLog(r) \/ \E k \in Kinds : ReadLog(r, k)
  \/ ReadMaxRow \/ Listen \/ ReadTail \/ SendTail \/ ConnectionLost
  \/ Toggle \/ (\E f \in Filters : SetFilter(f))
  \/ \E g \in fetches : QueryLogs(g) \/ Show(g) \/ FetchFails(g)
  \/ ClearLogs \/ ClearAnswered \/ Cleared \/ ClearFails

Spec == Init /\ [][Next]_vars

\* The timers of a stream fire, the database answers, and writeLog goes on after it.
FairSpec ==
  /\ Spec
  /\ WF_vars(ReadTail) /\ WF_vars(SendTail)
  /\ \A e \in Entries : WF_vars(Emit(e))
-----------------------------------------------------------------------------
\* No entry is sent twice on one connection: the event and the tail may bring it in either order,
\* a result of the tail may be older than the event, and its rowid may be one that a deleted row
\* had (seen, app/api/logs/stream/route.ts).
SentOnce == \A i, j \in DOMAIN wire : wire[i].entry = wire[j].entry => i = j

\* A row above the last one a stream has read is sent on it, also one whose event was emitted
\* before the listener was there, and one of many (the tail of app/api/logs/stream/route.ts);
\* unless the row is deleted or the connection ends.
Delivered ==
  \A e \in Entries :
    (conn = "open" /\ \E r \in Newer : rows[r].entry = e)
      ~> (\/ conn # "open"
          \/ e \in seen
          \/ \A r \in DOMAIN rows : rows[r].entry # e)

\* What the page shows without an error belongs to its filter, also when an answer to an earlier
\* filter comes last or an event came during the fetch (fetchLogs, app/logs/page.tsx).
FilterKept ==
  (~failed /\ clearing = "idle" /\ \A g \in fetches : ~g.live)
    => \A i \in DOMAIN list : Matches(list[i].kind, filter)

\* "A single worker preserves the order in which request, provider and response events are
\* enqueued" (internal/logging/client.go:54): so it does as long as no request times out, whatever
\* else the service writes and deletes.
PostedInOrder ==
  timeouts = 0 =>
    \A r, s \in DOMAIN rows :
      /\ r < s
      /\ from[rows[r].entry] = "proxy"
      /\ from[rows[s].entry] = "proxy"
      => rows[r].entry < rows[s].entry

\* The event of an entry, or the tail of the table, still has to bring it to the stream.
Awaited(e) == at[e] = "emit" \/ \E r \in Newer : rows[r].entry = e

\* What Delivered rests on besides the timers: as long as a connection is open, no read of the tail
\* passes an entry over, although the table may have changed since the rows were read and their
\* rowids may belong to other entries by now (lastRowId, seen, app/api/logs/stream/route.ts).
NoneSkipped ==
  [][conn = "open" /\ conn' = "open" =>
       \A e \in Entries : Awaited(e) =>
         \/ Awaited(e)'
         \/ e \in seen'
         \/ \A r \in DOMAIN rows' : rows'[r].entry # e]_vars

=============================================================================
