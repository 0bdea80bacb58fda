-------------------------- MODULE LogServiceProofs --------------------------
(***************************************************************************)
(* The log's order, its stream and its page, proved for every number of    *)
(* entries, kinds, filters, deletions and failures, and for every size of  *)
(* the queue, of the page and of a read of the tail.                       *)
(*                                                                         *)
(* RowsInv: a row has an entry that was written once, and its id is no     *)
(* larger than the number of entries that were (SQLite gives ids again).   *)
(* StreamInv: what a stream has sent is in seen, and a result of the tail  *)
(* has no entry twice.  PageInv: a fetch that is not cancelled asks for    *)
(* the filter of the page.  OrderInv: entries of the Go core are in the    *)
(* queue in the order of their writes, after the one that is posted, which *)
(* is after those in the table.  CoversInv: a result of the tail holds     *)
(* every row that was in its reach, unless it was sent or its event is due.*)
(***************************************************************************)
EXTENDS LogService, FiniteSetTheorems, SequenceTheorems, WellFoundedInduction, TLAPS

Fits(f) == {x \in Item : Matches(x.kind, f)}
Inserted == {e \in Entries : at[e] \in {"emit", "done"}}

Typed ==
  /\ from \in [Entries -> {None, "proxy", "ui"}]
  /\ at \in [Entries -> {"new", "queue", "insert", "emit", "done"}]
  /\ queue \in Seq(Entries)
  /\ posting \in Entries \cup {None}
  /\ editing \in Item \cup {None}
  /\ conn \in {"closed", "asking", "read", "open"}
  /\ seen \subseteq Entries
  /\ timeouts \in 0..MaxFaults /\ edits \in 0..MaxEdits /\ faults \in 0..MaxFaults
  /\ timeouts <= faults

RowsInv ==
  /\ DOMAIN rows \subseteq RowIds /\ rows \in [DOMAIN rows -> Item]
  /\ \A r \in DOMAIN rows : r <= Cardinality(Inserted) /\ rows[r].entry \in Inserted
  /\ \A r, s \in DOMAIN rows : rows[r].entry = rows[s].entry => r = s

TailInv ==
  tail # None =>
    /\ DOMAIN tail \subseteq RowIds /\ tail \in [DOMAIN tail -> Item]
    /\ \A r, s \in DOMAIN tail : tail[r].entry = tail[s].entry => r = s

WireInv ==
  /\ wire \in Seq(Item)
  /\ \A i \in DOMAIN wire : wire[i].entry \in seen
  /\ SentOnce

StreamInv == lastRow \in 0..MaxWrites /\ TailInv /\ WireInv

\* A list the page shows without an error, with no request under way.
Settled == ~failed /\ clearing = "idle" /\ \A g \in fetches : ~g.live

PageInv ==
  /\ filter \in Filters
  /\ failed \in BOOLEAN /\ clearing \in {"idle", "sent", "answered"}
  /\ list \in Seq(Item) /\ Len(list) <= PageSize
  /\ fetches \subseteq Fetch
  /\ \A g \in fetches :
       /\ g.live => g.filter = filter
       /\ g.answer # None => g.answer \in Seq(Fits(g.filter)) /\ Len(g.answer) <= PageSize
  /\ Settled => list \in Seq(Fits(filter))

\* e was written by the Go core and is in the table.
Stored(e) == from[e] = "proxy" /\ \E r \in DOMAIN rows : rows[r].entry = e

QueueInv ==
  /\ Len(queue) <= QueueSize
  /\ \A i \in DOMAIN queue : at[queue[i]] = "queue"
  /\ \A i, j \in DOMAIN queue : i < j => queue[i] < queue[j]
  /\ \A e \in Entries : at[e] # "new" => \A f \in Entries : f < e => at[f] # "new"
  /\ \A e \in Entries : at[e] = "queue" => from[e] = "proxy"
  /\ posting # None => at[posting] # "new"

OrderInv ==
  timeouts = 0 =>
    /\ \A e \in Entries : from[e] = "proxy" /\ at[e] \in {"insert", "emit"} => posting = e
    /\ \A e \in Entries : Stored(e) => \A i \in DOMAIN queue : e < queue[i]
    /\ posting # None => \A i \in DOMAIN queue : posting < queue[i]
    /\ posting # None /\ at[posting] = "insert" => \A e \in Entries : Stored(e) => e < posting
    /\ PostedInOrder
-----------------------------------------------------------------------------
(***************************************************************************)
(* The helpers of the model.                                               *)
(***************************************************************************)
LEMMA Sizes ==
  /\ MaxWrites \in Nat \ {0} /\ PageSize \in Nat \ {0} /\ QueueSize \in Nat \ {0}
  /\ TailSize \in Nat \ {0} /\ MaxEdits \in Nat /\ MaxFaults \in Nat
BY LogAssumption

LEMMA WrittenIsItem == \A e \in Entries : Written(e) \in Item /\ Written(e).entry = e
BY LogAssumption DEF Written, Item, Entries

\* The rowids are bounded, and a bounded set of numbers has a largest one.
LEMMA LargestExists ==
  ASSUME NEW n \in Nat, NEW S \in SUBSET (0..n), S # {}
  PROVE  Largest(S) \in S /\ \A y \in S : y <= Largest(S)
<1> DEFINE T == {k \in Nat : \E x \in S : k = n - x}
<1>a. PICK z \in S : TRUE
  OBVIOUS
<1>b. n - z \in Nat
  BY <1>a
<1>1. T \subseteq Nat /\ T # {}
  BY <1>b
<1>2. PICK k \in T : \A j \in T : ~(<<j, k>> \in OpToRel(<, Nat))
  BY <1>1, NatLessThanWellFounded, WFMin
<1>3. \A j \in T : ~(j < k)
  BY <1>1, <1>2 DEF OpToRel
<1>4. PICK x \in S : k = n - x
  OBVIOUS
<1>5. ASSUME NEW y \in S PROVE y <= x
  <2>1. n - y \in T /\ y \in 0..n /\ x \in 0..n
    OBVIOUS
  <2> QED BY <1>3, <1>4, <2>1
<1> QED BY <1>5 DEF Largest

LEMMA AtMostKeeps ==
  ASSUME NEW S, NEW s \in Seq(S), NEW n \in Nat
  PROVE  AtMost(s, n) \in Seq(S) /\ Len(AtMost(s, n)) <= n
<1>1. CASE Len(s) <= n
  BY <1>1 DEF AtMost
<1>2. CASE ~(Len(s) <= n)
  <2>1. Len(s) \in Nat /\ n <= Len(s)
    BY <1>2
  <2>2. \A i \in 1..n : i \in 1..Len(s)
    BY <2>1
  <2>3. SubSeq(s, 1, n) \in Seq(S) /\ Len(SubSeq(s, 1, n)) = n
    BY <2>1, <2>2, SubSeqProperties
  <2> QED BY <1>2, <2>3 DEF AtMost
<1> QED BY <1>1, <1>2

LEMMA ReversedKeeps ==
  ASSUME NEW S, NEW s \in Seq(S)
  PROVE  Reversed(s) \in Seq(S) /\ Len(Reversed(s)) = Len(s)
<1>1. Len(s) \in Nat /\ \A i \in 1..Len(s) : Len(s) + 1 - i \in 1..Len(s)
  OBVIOUS
<1>2. \A i \in 1..Len(s) : s[Len(s) + 1 - i] \in S
  BY <1>1
<1>3. Reversed(s) \in [1..Len(s) -> S]
  BY <1>2 DEF Reversed
<1> QED BY <1>1, <1>3, IsASeq, LenProperties

\* Whatever new entries the page adds, it shows what it has shown or they are, and no more than
\* its size.
LEMMA AddKeeps ==
  ASSUME NEW S, NEW shown \in Seq(S), NEW new \in Seq(S)
  PROVE  Add(shown, new) \in Seq(S) /\ Len(Add(shown, new)) <= PageSize
<1>1. PageSize \in Nat
  BY Sizes
<1>2. Reversed(new) \in Seq(S) /\ shown \o new \in Seq(S)
  BY ReversedKeeps, ConcatProperties
<1>3. Reversed(new) \o shown \in Seq(S) /\ Reversed(shown \o new) \in Seq(S)
  BY <1>2, ReversedKeeps, ConcatProperties
<1>4. /\ AtMost(Reversed(new) \o shown, PageSize) \in Seq(S)
      /\ Len(AtMost(Reversed(new) \o shown, PageSize)) <= PageSize
  BY <1>1, <1>3, AtMostKeeps
<1>5. /\ AtMost(Reversed(shown \o new), PageSize) \in Seq(S)
      /\ Len(AtMost(Reversed(shown \o new), PageSize)) <= PageSize
  BY <1>1, <1>3, AtMostKeeps
<1>6. /\ Reversed(AtMost(Reversed(shown \o new), PageSize)) \in Seq(S)
      /\ Len(Reversed(AtMost(Reversed(shown \o new), PageSize))) <= PageSize
  BY <1>5, ReversedKeeps
<1> QED BY <1>4, <1>6 DEF Add

LEMMA FiniteSubsets ==
  ASSUME NEW S \in SUBSET (1..MaxWrites)
  PROVE  IsFiniteSet(S) /\ Cardinality(S) \in Nat /\ Cardinality(S) <= MaxWrites
<1>1. 1 \in Int /\ MaxWrites \in Int /\ MaxWrites >= 1
  BY Sizes
<1>2. IsFiniteSet(1..MaxWrites) /\ Cardinality(1..MaxWrites) = MaxWrites
  BY <1>1, FS_Interval
<1>3. IsFiniteSet(S) /\ Cardinality(S) <= MaxWrites
  BY <1>2, FS_Subset
<1> QED BY <1>3, FS_CardinalityType

\* A query answers with rows of the table, each once, no more than its limit.
LEMMA FirstRowsAre ==
  ASSUME NEW rs \in SUBSET RowIds, NEW n \in Nat, NEW order, NEW q \in FirstRows(rs, n, order)
  PROVE  /\ q \in Seq(rs) /\ Len(q) <= n /\ DOMAIN q = 1..Len(q)
         /\ \A i, j \in DOMAIN q : q[i] = q[j] => i = j
<1> DEFINE m == IF Cardinality(rs) < n THEN Cardinality(rs) ELSE n
<1>1. Cardinality(rs) \in Nat
  BY FiniteSubsets DEF RowIds
<1>2. m \in Nat /\ m <= n
  BY <1>1
<1>3. /\ q \in [1..m -> rs]
      /\ \A i \in DOMAIN q : {r \in rs : Before(r, q[i], order)} = {q[j] : j \in 1..(i - 1)}
  BY DEF FirstRows
<1> HIDE DEF m
<1>4. q \in Seq(rs) /\ Len(q) = m /\ DOMAIN q = 1..m
  BY <1>2, <1>3, IsASeq, LenProperties
<1>5. ASSUME NEW i \in DOMAIN q, NEW j \in DOMAIN q, i < j PROVE q[i] # q[j]
  <2>a. i \in 1..m /\ j \in 1..m
    BY <1>4
  <2>b. i \in 1..(j - 1)
    BY <1>2, <1>5, <2>a
  <2>c. q[i] \in rs /\ q[j] \in rs
    BY <1>3, <1>4, <2>a
  <2>d. \A r \in rs : r \in Int
    BY DEF RowIds
  <2>1. q[j] \in Int
    BY <2>c, <2>d
  <2>2. Before(q[i], q[j], order)
    BY <1>3, <2>b, <2>c
  <2> QED BY <2>1, <2>2 DEF Before
<1>6. \A i, j \in DOMAIN q : q[i] = q[j] => i = j
  <2> SUFFICES ASSUME NEW i \in DOMAIN q, NEW j \in DOMAIN q, i # j PROVE q[i] # q[j]
    OBVIOUS
  <2>1. i < j \/ j < i
    BY <1>2, <1>4
  <2> QED BY <1>5, <2>1
<1> QED BY <1>2, <1>4, <1>6

\* In ascending order no row is passed over ...
LEMMA FirstRowsReach ==
  ASSUME NEW rs \in SUBSET RowIds, NEW n \in Nat, NEW q \in FirstRows(rs, n, "ASC"),
         NEW i \in DOMAIN q, NEW r \in rs, r <= q[i]
  PROVE  \E j \in DOMAIN q : q[j] = r
<1>a. \A k \in DOMAIN q : {x \in rs : Before(x, q[k], "ASC")} = {q[j] : j \in 1..(k - 1)}
  BY DEF FirstRows
<1>1. /\ q \in Seq(rs) /\ DOMAIN q = 1..Len(q)
      /\ {x \in rs : Before(x, q[i], "ASC")} = {q[j] : j \in 1..(i - 1)}
  BY <1>a, FirstRowsAre
<1>2. Len(q) \in Nat /\ i \in 1..Len(q) /\ q[i] \in rs
  BY <1>1
<1>3. \A x \in rs : x \in Int
  BY DEF RowIds
<1>4. CASE r = q[i]
  BY <1>4
<1>5. CASE r # q[i]
  <2>1. r \in Int /\ q[i] \in Int
    BY <1>2, <1>3
  <2>2. r < q[i]
    BY <1>5, <2>1
  <2>3. PICK j \in 1..(i - 1) : q[j] = r
    BY <1>1, <2>2 DEF Before
  <2>4. j \in DOMAIN q
    BY <1>1, <1>2
  <2> QED BY <2>3, <2>4
<1> QED BY <1>4, <1>5

\* ... and when there are no more rows than the limit, all of them are found.
LEMMA FirstRowsAll ==
  ASSUME NEW rs \in SUBSET RowIds, NEW n \in Nat, Cardinality(rs) <= n, NEW order,
         NEW q \in FirstRows(rs, n, order), NEW r \in rs
  PROVE  \E i \in DOMAIN q : q[i] = r
<1> DEFINE m == Cardinality(rs)
<1>1. IsFiniteSet(rs) /\ m \in Nat
  BY FiniteSubsets DEF RowIds
<1>2. (IF m < n THEN m ELSE n) = m
  BY <1>1
<1>a. q \in [1..m -> rs]
  BY <1>2 DEF FirstRows
<1>3. q \in [1..m -> rs] /\ \A i, j \in 1..m : q[i] = q[j] => i = j
  BY <1>a, FirstRowsAre
<1>4. Cardinality(1..m) = m
  <2>1. 1 \in Int /\ m \in Int /\ (IF 1 > m THEN 0 ELSE m - 1 + 1) = m
    BY <1>1
  <2> QED BY <2>1, FS_Interval
<1> HIDE DEF m
<1>5. q \in Injection(1..m, rs)
  BY <1>3 DEF Injection, IsInjective
<1>6. q \in Surjection(1..m, rs)
  BY <1>1, <1>4, <1>5, FS_Injection DEF m
<1> QED BY <1>3, <1>6 DEF Surjection

LEMMA FirstRowsFew ==
  ASSUME NEW rs \in SUBSET RowIds, NEW n \in Nat, NEW order, NEW q \in FirstRows(rs, n, order)
  PROVE  /\ {q[i] : i \in DOMAIN q} \subseteq rs
         /\ Cardinality({q[i] : i \in DOMAIN q}) <= n
<1> DEFINE found == {q[i] : i \in DOMAIN q}
<1>1. q \in Seq(rs) /\ Len(q) <= n /\ DOMAIN q = 1..Len(q) /\ Len(q) \in Nat
  BY FirstRowsAre
<1>2. found \subseteq rs
  BY <1>1
<1>3. q \in Surjection(1..Len(q), found)
  <2>1. q \in [1..Len(q) -> found]
    BY <1>1
  <2>2. \A t \in found : \E i \in 1..Len(q) : q[i] = t
    BY <1>1
  <2> QED BY <2>1, <2>2 DEF Surjection
<1>4. ExistsSurjection(1..Len(q), found)
  BY <1>3 DEF ExistsSurjection
<1>5. Cardinality(found) \in Nat
  BY <1>2, FiniteSubsets DEF RowIds
<1> HIDE DEF found
<1>6. Cardinality(found) <= Len(q)
  BY <1>1, <1>4, FS_SurjCardinalityBound
<1>7. Cardinality(found) <= n
  BY <1>1, <1>5, <1>6
<1> QED BY <1>2, <1>7 DEF found
-----------------------------------------------------------------------------
(***************************************************************************)
(* The steps by what they change.                                          *)
(***************************************************************************)
Writing == \E e \in Entries : Write(e) \/ WriteLog(e) \/ Insert(e) \/ InsertFails(e) \/ Emit(e)
Working == Post \/ PostTimesOut
Deleting == ClearAll \/ ClearAnswered \/ \E r \in DOMAIN rows : Prune(r) \/ DeleteLog(r)
Editing == UpdateLog \/ \E r \in DOMAIN rows, k \in Kinds : ReadLog(r, k)
Streaming == ReadMaxRow \/ Listen \/ ReadTail \/ SendTail \/ ConnectionLost
Showing ==
  \/ Toggle \/ (\E f \in Filters : SetFilter(f))
  \/ \E g \in fetches : QueryLogs(g) \/ Show(g) \/ FetchFails(g)
  \/ ClearLogs \/ Cleared \/ ClearFails

LEMMA StepKinds ==
  ASSUME [Next]_vars
  PROVE  Writing \/ Working \/ Deleting \/ Editing \/ Streaming \/ Showing \/ UNCHANGED vars
BY DEF Next, Writing, Working, Deleting, Editing, Streaming, Showing

LEMMA Counting ==
  ASSUME NEW max \in Nat, NEW n \in 0..max, n < max
  PROVE  n + 1 \in 0..max
OBVIOUS

\* Faults and edits are counted up to their bounds.
LEMMA CountersTyped ==
  ASSUME Typed
  PROVE  /\ Fault => /\ timeouts' \in 0..MaxFaults /\ edits' \in 0..MaxEdits
                     /\ faults' \in 0..MaxFaults /\ timeouts' <= faults' /\ timeouts' = timeouts
         /\ Edit => /\ timeouts' \in 0..MaxFaults /\ edits' \in 0..MaxEdits
                    /\ faults' \in 0..MaxFaults /\ timeouts' <= faults' /\ timeouts' = timeouts
         /\ UNCHANGED bounds =>
                    /\ timeouts' \in 0..MaxFaults /\ edits' \in 0..MaxEdits
                    /\ faults' \in 0..MaxFaults /\ timeouts' <= faults' /\ timeouts' = timeouts
<1>1. Fault => faults' \in 0..MaxFaults /\ timeouts' <= faults' /\ UNCHANGED <<timeouts, edits>>
  <2> SUFFICES ASSUME Fault
               PROVE  faults' \in 0..MaxFaults /\ timeouts' <= faults' /\ UNCHANGED <<timeouts, edits>>
    OBVIOUS
  <2>1. faults' \in 0..MaxFaults
    BY Counting, Sizes DEF Fault, Typed
  <2>2. faults' = faults + 1 /\ UNCHANGED <<timeouts, edits>>
    BY DEF Fault
  <2>3. timeouts \in Int /\ faults \in Int /\ timeouts <= faults
    BY DEF Typed
  <2> QED BY <2>1, <2>2, <2>3
<1>2. Edit => edits' \in 0..MaxEdits /\ UNCHANGED <<timeouts, faults>>
  BY Counting, Sizes DEF Edit, Typed
<1> QED BY <1>1, <1>2 DEF bounds, Typed

\* Entries go on, from a writer to the table.
Stages == {"new", "queue", "insert", "emit", "done"}

LEMMA QueueHead ==
  ASSUME Typed, QueueInv, queue # <<>>
  PROVE  /\ Head(queue) \in Entries /\ at[Head(queue)] = "queue" /\ from[Head(queue)] = "proxy"
         /\ Head(queue) = queue[1] /\ Tail(queue) \in Seq(Entries)
         /\ DOMAIN queue = 1..Len(queue) /\ Len(queue) \in Nat \ {0}
         /\ DOMAIN Tail(queue) = 1..(Len(queue) - 1) /\ Len(Tail(queue)) = Len(queue) - 1
         /\ \A i \in DOMAIN Tail(queue) : i + 1 \in DOMAIN queue /\ Tail(queue)[i] = queue[i + 1]
<1>1. queue \in Seq(Entries)
  BY DEF Typed
<1>2. /\ Head(queue) = queue[1] /\ Tail(queue) \in Seq(Entries) /\ Len(Tail(queue)) = Len(queue) - 1
      /\ Len(queue) \in Nat \ {0} /\ DOMAIN queue = 1..Len(queue)
      /\ DOMAIN Tail(queue) = 1..(Len(queue) - 1)
  BY <1>1
<1>3. 1 \in DOMAIN queue /\ queue[1] \in Entries
  BY <1>1, <1>2
<1>4. at[queue[1]] = "queue" /\ from[queue[1]] = "proxy"
  BY <1>3 DEF QueueInv
<1>5. \A i \in DOMAIN Tail(queue) : i + 1 \in DOMAIN queue /\ Tail(queue)[i] = queue[i + 1]
  BY <1>1, <1>2, HeadTailProperties
<1> QED BY <1>2, <1>3, <1>4, <1>5

LEMMA EntriesMove ==
  ASSUME Typed, QueueInv, Writing \/ Working
  PROVE  /\ from' \in [Entries -> {None, "proxy", "ui"}] /\ at' \in [Entries -> Stages]
         /\ \A e \in Entries : at[e] \in {"emit", "done"} => at'[e] \in {"emit", "done"}
<1>1. ASSUME NEW e \in Entries, Write(e) \/ WriteLog(e)
      PROVE  /\ from' \in [Entries -> {None, "proxy", "ui"}] /\ at' \in [Entries -> Stages]
             /\ \A f \in Entries : at[f] \in {"emit", "done"} => at'[f] \in {"emit", "done"}
  BY <1>1 DEF Write, WriteLog, Begins, IsNext, Moves, Typed, Stages
<1>2. ASSUME NEW e \in Entries, Insert(e) \/ InsertFails(e) \/ Emit(e)
      PROVE  /\ from' \in [Entries -> {None, "proxy", "ui"}] /\ at' \in [Entries -> Stages]
             /\ \A f \in Entries : at[f] \in {"emit", "done"} => at'[f] \in {"emit", "done"}
  BY <1>2 DEF Insert, InsertFails, Emit, Moves, Typed, Stages
<1>3. CASE Post \/ PostTimesOut
  <2>1. from' = from
    BY <1>3 DEF Post, PostTimesOut, writes
  <2>2. CASE Post
    <3>1. Head(queue) \in Entries /\ at[Head(queue)] = "queue"
      BY <2>2, QueueHead DEF Post
    <3> QED BY <2>1, <2>2, <3>1 DEF Post, Moves, Typed, Stages
  <2>3. CASE PostTimesOut
    BY <2>1, <2>3 DEF PostTimesOut, Typed, Stages, writes
  <2> QED BY <1>3, <2>2, <2>3
<1> QED BY <1>1, <1>2, <1>3 DEF Writing, Working

LEMMA OthersKeepEntries ==
  ASSUME Deleting \/ Editing \/ Streaming \/ Showing \/ UNCHANGED vars
  PROVE  UNCHANGED <<from, at, queue, posting>>
BY DEF Deleting, Editing, Streaming, Showing, vars, writes, client, ClearAll, ClearAnswered, Prune,
       DeleteLog, UpdateLog, ReadLog, ReadMaxRow, Listen, ReadTail, SendTail, ConnectionLost,
       Toggle, SetFilter, QueryLogs, Show, FetchFails, ClearLogs, Cleared, ClearFails

LEMMA OthersKeepRows ==
  ASSUME Working \/ Streaming \/ Showing \/ UNCHANGED vars
  PROVE  rows' = rows
BY DEF Working, Streaming, Showing, vars, Post, PostTimesOut, ReadMaxRow, Listen, ReadTail,
       SendTail, ConnectionLost, Toggle, SetFilter, QueryLogs, Show, FetchFails,
       ClearLogs, Cleared, ClearFails

LEMMA OthersKeepStream ==
  ASSUME Working \/ Deleting \/ Editing \/ UNCHANGED vars
  PROVE  UNCHANGED <<conn, lastRow, seen, tail, wire>>
BY DEF Working, Deleting, Editing, vars, stream, Post, PostTimesOut, ClearAll, ClearAnswered, Prune,
       DeleteLog, UpdateLog, ReadLog

LEMMA OthersKeepPage ==
  ASSUME Working \/ ClearAll \/ (\E r \in DOMAIN rows : Prune(r) \/ DeleteLog(r)) \/ Editing
         \/ ReadMaxRow \/ Listen \/ ReadTail \/ ConnectionLost \/ Toggle \/ UNCHANGED vars
  PROVE  UNCHANGED <<filter, list, fetches, failed, clearing>>
BY DEF Working, Editing, vars, page, Post, PostTimesOut, ClearAll, Prune, DeleteLog, UpdateLog,
       ReadLog, ReadMaxRow, Listen, ReadTail, ConnectionLost, Toggle
-----------------------------------------------------------------------------
(***************************************************************************)
(* The table.                                                              *)
(***************************************************************************)
LEMMA InsertedCounts ==
  IsFiniteSet(Inserted) /\ Cardinality(Inserted) \in Nat /\ Cardinality(Inserted) <= MaxWrites
BY FiniteSubsets DEF Inserted, Entries

LEMMA MaxRowIs ==
  ASSUME RowsInv
  PROVE  /\ MaxRow \in 0..MaxWrites /\ MaxRow <= Cardinality(Inserted)
         /\ \A r \in DOMAIN rows : r <= MaxRow
<1>1. {0} \cup DOMAIN rows \in SUBSET (0..MaxWrites) /\ MaxWrites \in Nat
  BY Sizes DEF RowsInv, RowIds
<1>2. /\ MaxRow \in {0} \cup DOMAIN rows
      /\ \A r \in {0} \cup DOMAIN rows : r <= MaxRow
  BY <1>1, LargestExists DEF MaxRow
<1>3. MaxRow <= Cardinality(Inserted)
  BY <1>2, InsertedCounts DEF RowsInv
<1> QED BY <1>1, <1>2, <1>3

LEMMA InsertedGrows ==
  ASSUME Typed, QueueInv, [Next]_vars
  PROVE  /\ Inserted \subseteq Inserted' /\ Cardinality(Inserted) <= Cardinality(Inserted')
         /\ Cardinality(Inserted') \in Nat
<1>1. Inserted \subseteq Inserted'
  BY StepKinds, EntriesMove, OthersKeepEntries DEF Inserted
<1>2. IsFiniteSet(Inserted') /\ Cardinality(Inserted') \in Nat
  BY FiniteSubsets DEF Inserted, Entries
<1> QED BY <1>1, <1>2, FS_Subset

\* A new row has the largest id, and its entry no other row.
LEMMA InsertRow ==
  ASSUME Typed, QueueInv, RowsInv, NEW e \in Entries, Insert(e), [Next]_vars
  PROVE  /\ MaxRow + 1 \notin DOMAIN rows /\ DOMAIN rows' = DOMAIN rows \cup {MaxRow + 1}
         /\ rows'[MaxRow + 1] = Written(e) /\ \A r \in DOMAIN rows : rows'[r] = rows[r]
         /\ RowsInv'
<1>1. /\ MaxRow \in 0..MaxWrites /\ MaxRow <= Cardinality(Inserted)
      /\ \A r \in DOMAIN rows : r <= MaxRow /\ r \in Int
  BY MaxRowIs DEF RowsInv, RowIds
<1>2. MaxRow + 1 \notin DOMAIN rows
  BY <1>1
<1>3. /\ DOMAIN rows' = DOMAIN rows \cup {MaxRow + 1}
      /\ rows'[MaxRow + 1] = Written(e) /\ \A r \in DOMAIN rows : rows'[r] = rows[r]
      /\ rows' \in [DOMAIN rows' -> Item]
  BY <1>2, WrittenIsItem DEF Insert, RowsInv
<1>4. e \notin Inserted /\ Inserted' = Inserted \cup {e}
  BY DEF Insert, Moves, Inserted, Typed
<1>5. Cardinality(Inserted') = Cardinality(Inserted) + 1 /\ Cardinality(Inserted') <= MaxWrites
  <2>1. Cardinality(Inserted') = Cardinality(Inserted) + 1
    BY <1>4, InsertedCounts, FS_AddElement
  <2>2. Inserted' \in SUBSET (1..MaxWrites)
    BY DEF Inserted, Entries
  <2> QED BY <2>1, <2>2, FiniteSubsets
<1>6. MaxRow + 1 \in RowIds /\ MaxRow + 1 <= Cardinality(Inserted')
  BY <1>1, <1>5, InsertedCounts, Sizes DEF RowIds
<1>7. \A r \in DOMAIN rows : r <= Cardinality(Inserted')
  BY <1>1, <1>5, InsertedCounts
<1>8. DOMAIN rows' \subseteq RowIds /\ \A r \in DOMAIN rows' : r <= Cardinality(Inserted')
  BY <1>3, <1>6, <1>7 DEF RowsInv
<1>9. \A r \in DOMAIN rows' : rows'[r].entry \in Inserted'
  BY <1>3, <1>4, WrittenIsItem DEF RowsInv
<1>10. \A r, s \in DOMAIN rows' : rows'[r].entry = rows'[s].entry => r = s
  <2>1. \A r \in DOMAIN rows : rows[r].entry # Written(e).entry
    BY <1>4, WrittenIsItem DEF RowsInv
  <2> QED BY <1>3, <2>1 DEF RowsInv
<1> QED BY <1>2, <1>3, <1>8, <1>9, <1>10 DEF RowsInv

LEMMA RowsSteps == Typed /\ QueueInv /\ RowsInv /\ [Next]_vars => RowsInv'
<1> SUFFICES ASSUME Typed, QueueInv, RowsInv, [Next]_vars PROVE RowsInv'
  OBVIOUS
<1>1. ASSUME NEW e \in Entries, Insert(e) PROVE RowsInv'
  BY <1>1, InsertRow
<1>2. ASSUME rows' = rows PROVE RowsInv'
  <2>1. \A r \in DOMAIN rows : r <= Cardinality(Inserted')
    BY InsertedCounts, InsertedGrows DEF RowsInv, RowIds
  <2> QED BY <1>2, <2>1, InsertedGrows DEF RowsInv
<1>3. CASE Deleting
  <2>1. PICK kept \in SUBSET DOMAIN rows : Keep(kept)
    BY <1>3 DEF Deleting, ClearAll, ClearAnswered, Prune, DeleteLog
  <2>2. Inserted' = Inserted
    BY <1>3, OthersKeepEntries DEF Inserted
  <2>3. DOMAIN rows' = kept /\ \A r \in kept : rows'[r] = rows[r]
    BY <2>1 DEF Keep
  <2>4. rows' \in [DOMAIN rows' -> Item]
    BY <2>1 DEF Keep, RowsInv
  <2> QED BY <2>2, <2>3, <2>4 DEF RowsInv
<1>4. CASE UpdateLog
  <2>1. Inserted' = Inserted
    BY <1>4, OthersKeepEntries DEF Inserted, Editing
  <2>2. /\ DOMAIN rows' = DOMAIN rows /\ rows' \in [DOMAIN rows -> Item]
        /\ \A r \in DOMAIN rows : rows'[r].entry = rows[r].entry
    BY <1>4 DEF UpdateLog, Typed, RowsInv
  <2> QED BY <2>1, <2>2 DEF RowsInv
<1>5. ASSUME NEW e \in Entries, Write(e) \/ WriteLog(e) \/ InsertFails(e) \/ Emit(e)
      PROVE  rows' = rows
  BY <1>5 DEF Write, WriteLog, InsertFails, Emit
<1>6. ASSUME NEW r \in DOMAIN rows, NEW k \in Kinds, ReadLog(r, k) PROVE rows' = rows
  BY <1>6 DEF ReadLog
<1> QED
  BY <1>1, <1>2, <1>3, <1>4, <1>5, <1>6, StepKinds, OthersKeepRows DEF Writing, Editing
-----------------------------------------------------------------------------
(***************************************************************************)
(* The queue of the Go core and the order of its entries in the table.     *)
(***************************************************************************)
\* What Answers leaves of the entry that is posted.
LEMMA AnswersPosting ==
  ASSUME NEW e \in Entries, Answers(e)
  PROVE  posting' \in {posting, None} /\ posting' # e
BY LogAssumption DEF Answers, Entries

\* The queue gets an entry that is later than every other.
LEMMA WriteQueue ==
  ASSUME Typed, QueueInv, NEW e \in Entries, Begins(e, "proxy", "queue"), Len(queue) < QueueSize,
         queue' = Append(queue, e), posting' = posting
  PROVE  /\ QueueInv' /\ queue' \in Seq(Entries)
         /\ \A i \in DOMAIN queue' : (i \in DOMAIN queue /\ queue'[i] = queue[i]) \/ queue'[i] = e
         /\ \A f \in Entries : at[f] # "new" => f < e
<1>1. /\ queue \in Seq(Entries) /\ Len(queue) \in Nat /\ DOMAIN queue = 1..Len(queue)
      /\ queue' \in Seq(Entries) /\ Len(queue') = Len(queue) + 1
      /\ DOMAIN queue' = 1..(Len(queue) + 1)
      /\ queue'[Len(queue) + 1] = e /\ \A i \in 1..Len(queue) : queue'[i] = queue[i]
  BY DEF Typed
<1>2. at[e] = "new" /\ \A f \in Entries : f < e => at[f] # "new"
  BY DEF Begins, IsNext
<1>3. \A f \in Entries : at[f] # "new" => f < e
  <2> SUFFICES ASSUME NEW f \in Entries, at[f] # "new" PROVE f < e
    OBVIOUS
  <2>1. ~(e < f) /\ e # f
    BY <1>2 DEF QueueInv
  <2> QED BY <2>1 DEF Entries
<1>4. /\ at' \in [Entries -> Stages] /\ from' \in [Entries -> {None, "proxy", "ui"}]
      /\ at'[e] = "queue" /\ from'[e] = "proxy"
      /\ \A f \in Entries \ {e} : at'[f] = at[f] /\ from'[f] = from[f]
  BY DEF Begins, Moves, Typed, Stages
<1>5. \A i \in DOMAIN queue : queue[i] \in Entries /\ queue[i] < e /\ at'[queue[i]] = "queue"
  <2> SUFFICES ASSUME NEW i \in DOMAIN queue
               PROVE  queue[i] \in Entries /\ queue[i] < e /\ at'[queue[i]] = "queue"
    OBVIOUS
  <2>1. queue[i] \in Entries
    BY <1>1
  <2>2. at[queue[i]] = "queue"
    BY DEF QueueInv
  <2> QED BY <1>2, <1>3, <1>4, <2>1, <2>2
<1>6. \A i \in DOMAIN queue' : i \in 1..Len(queue) \/ i = Len(queue) + 1
  BY <1>1
<1>7. \A i \in DOMAIN queue' : (i \in DOMAIN queue /\ queue'[i] = queue[i]) \/ queue'[i] = e
  BY <1>1, <1>6
<1>8. \A i \in DOMAIN queue' : at'[queue'[i]] = "queue"
  BY <1>4, <1>5, <1>7
<1>9. ASSUME NEW i \in DOMAIN queue', NEW j \in DOMAIN queue', i < j PROVE queue'[i] < queue'[j]
  <2>1. i \in 1..Len(queue)
    BY <1>1, <1>6, <1>9
  <2>2. CASE j \in 1..Len(queue)
    BY <1>1, <1>9, <2>1, <2>2 DEF QueueInv
  <2>3. CASE j = Len(queue) + 1
    BY <1>1, <1>5, <2>1, <2>3
  <2> QED BY <1>6, <2>2, <2>3
<1>10. \A f \in Entries : at'[f] # "new" => \A g \in Entries : g < f => at'[g] # "new"
  <2> SUFFICES ASSUME NEW f \in Entries, at'[f] # "new", NEW g \in Entries, g < f
               PROVE  at'[g] # "new"
    OBVIOUS
  <2>1. CASE f = e
    BY <1>2, <1>4, <2>1
  <2>2. CASE f # e
    BY <1>4, <2>2 DEF QueueInv
  <2> QED BY <2>1, <2>2
<1>11. posting' # None => at'[posting'] # "new"
  BY <1>2, <1>4 DEF QueueInv, Typed
<1>12. Len(queue') <= QueueSize
  BY <1>1, Sizes
<1> QED BY <1>1, <1>3, <1>4, <1>7, <1>8, <1>9, <1>10, <1>11, <1>12 DEF QueueInv

\* An entry that is written but not queued.
LEMMA BeginsOther ==
  ASSUME Typed, QueueInv, NEW e \in Entries, NEW who, NEW p \in {"insert", "done"}, Begins(e, who, p),
         UNCHANGED client
  PROVE  QueueInv'
<1>1. /\ queue' = queue /\ posting' = posting /\ queue \in Seq(Entries)
      /\ at[e] = "new" /\ (\A f \in Entries : f < e => at[f] # "new")
      /\ at'[e] = p /\ \A f \in Entries \ {e} : at'[f] = at[f] /\ from'[f] = from[f]
  BY DEF Begins, IsNext, Moves, Typed, client
<1>2. \A i \in DOMAIN queue : queue[i] \in Entries /\ queue[i] # e
  BY <1>1 DEF QueueInv
<1>3. \A f \in Entries : at'[f] # "new" => \A g \in Entries : g < f => at'[g] # "new"
  BY <1>1 DEF QueueInv
<1> QED BY <1>1, <1>2, <1>3 DEF QueueInv, Typed

\* An entry that the service handles.
LEMMA HandledOther ==
  ASSUME Typed, QueueInv, NEW e \in Entries, at[e] \in {"insert", "emit"},
         NEW p \in {"emit", "done"}, Moves(e, p), UNCHANGED <<from, queue>>,
         posting' = posting \/ Answers(e)
  PROVE  QueueInv'
<1>1. at'[e] = p /\ \A f \in Entries \ {e} : at'[f] = at[f]
  BY DEF Moves, Typed
<1>2. \A i \in DOMAIN queue : queue[i] \in Entries /\ queue[i] # e
  BY DEF QueueInv, Typed
<1>3. posting' \in {posting, None}
  BY AnswersPosting
<1>4. \A f \in Entries : at'[f] # "new" <=> at[f] # "new"
  BY <1>1
<1>5. \A f \in Entries : at'[f] # "new" => \A g \in Entries : g < f => at'[g] # "new"
  BY <1>4 DEF QueueInv
<1>6. \A f \in Entries : at'[f] = "queue" => from'[f] = "proxy"
  BY <1>1 DEF QueueInv
<1>7. posting' # None => at'[posting'] # "new"
  BY <1>3, <1>4 DEF QueueInv, Typed
<1> QED BY <1>1, <1>2, <1>5, <1>6, <1>7 DEF QueueInv

LEMMA PostQueue ==
  ASSUME Typed, QueueInv, Post
  PROVE  /\ QueueInv' /\ posting = None /\ posting' = queue[1] /\ posting' \in Entries
         /\ queue' \in Seq(Entries) /\ at'[posting'] = "insert" /\ from[posting'] = "proxy"
         /\ \A e \in Entries \ {posting'} : at'[e] = at[e]
         /\ 1 \in DOMAIN queue
         /\ \A i \in DOMAIN queue' : /\ posting' < queue'[i]
                                     /\ \E j \in DOMAIN queue : queue'[i] = queue[j]
<1>1. /\ queue # <<>> /\ posting = None /\ posting' = Head(queue) /\ queue' = Tail(queue)
      /\ Moves(Head(queue), "insert") /\ from' = from
  BY DEF Post
<1>2. /\ posting' = queue[1] /\ posting' \in Entries /\ queue' \in Seq(Entries)
      /\ from[posting'] = "proxy" /\ at[posting'] = "queue"
  BY <1>1, QueueHead
<1>3. at'[posting'] = "insert" /\ \A e \in Entries \ {posting'} : at'[e] = at[e]
  BY <1>1, <1>2 DEF Moves, Typed
<1>4. /\ DOMAIN queue' = 1..(Len(queue) - 1) /\ Len(queue') = Len(queue) - 1
      /\ DOMAIN queue = 1..Len(queue) /\ Len(queue) \in Nat \ {0}
      /\ \A i \in DOMAIN queue' : i + 1 \in DOMAIN queue /\ queue'[i] = queue[i + 1]
  BY <1>1, QueueHead
<1>5. 1 \in DOMAIN queue /\ \A i \in DOMAIN queue' : i \in Nat \ {0}
  BY <1>4
<1>6. \A i \in DOMAIN queue' : posting' < queue'[i]
  BY <1>2, <1>4, <1>5 DEF QueueInv
<1>7. \A i, j \in DOMAIN queue' : i < j => queue'[i] < queue'[j]
  <2> SUFFICES ASSUME NEW i \in DOMAIN queue', NEW j \in DOMAIN queue', i < j
               PROVE  queue'[i] < queue'[j]
    OBVIOUS
  <2>1. i + 1 < j + 1
    BY <1>5
  <2> QED BY <1>4, <2>1 DEF QueueInv
<1>8. \A i \in DOMAIN queue' : at'[queue'[i]] = "queue"
  <2> SUFFICES ASSUME NEW i \in DOMAIN queue' PROVE at'[queue'[i]] = "queue"
    OBVIOUS
  <2>1. queue'[i] \in Entries /\ at[queue'[i]] = "queue"
    BY <1>2, <1>4 DEF QueueInv
  <2>2. queue'[i] # posting'
    BY <1>2, <1>6, <2>1 DEF Entries
  <2> QED BY <1>3, <2>1, <2>2
<1>9. Len(queue') <= QueueSize
  BY <1>4, Sizes DEF QueueInv
<1>10. \A f \in Entries : at'[f] # "new" <=> at[f] # "new"
  BY <1>2, <1>3
<1>11. \A f \in Entries : at'[f] # "new" => \A g \in Entries : g < f => at'[g] # "new"
  BY <1>10 DEF QueueInv
<1>12. \A f \in Entries : at'[f] = "queue" => from'[f] = "proxy"
  BY <1>1, <1>3 DEF QueueInv
<1> QED
  BY <1>1, <1>2, <1>3, <1>4, <1>5, <1>6, <1>7, <1>8, <1>9, <1>11, <1>12 DEF QueueInv

LEMMA QueueSteps == Typed /\ QueueInv /\ [Next]_vars => QueueInv'
<1> SUFFICES ASSUME Typed, QueueInv, [Next]_vars PROVE QueueInv'
  OBVIOUS
<1>1. ASSUME NEW e \in Entries, Write(e) PROVE QueueInv'
  <2>1. posting' = posting
    BY <1>1 DEF Write
  <2>2. CASE Len(queue) < QueueSize
    BY <1>1, <2>1, <2>2, WriteQueue DEF Write
  <2>3. CASE ~(Len(queue) < QueueSize)
    BY <1>1, <2>1, <2>3, BeginsOther DEF Write, client
  <2> QED BY <2>2, <2>3
<1>2. ASSUME NEW e \in Entries, WriteLog(e) PROVE QueueInv'
  BY <1>2, BeginsOther DEF WriteLog
<1>3. ASSUME NEW e \in Entries, Insert(e) PROVE QueueInv'
  BY <1>3, HandledOther DEF Insert, client
<1>4. ASSUME NEW e \in Entries, InsertFails(e) \/ Emit(e) PROVE QueueInv'
  BY <1>4, HandledOther DEF InsertFails, Emit
<1>5. CASE Post
  BY <1>5, PostQueue
<1>6. CASE PostTimesOut
  BY <1>6 DEF PostTimesOut, writes, QueueInv
<1>7. CASE UNCHANGED <<from, at, queue, posting>>
  BY <1>7 DEF QueueInv
<1> QED
  BY <1>1, <1>2, <1>3, <1>4, <1>5, <1>6, <1>7, StepKinds, OthersKeepEntries DEF Writing, Working

LEMMA FunctionIsSeq ==
  ASSUME NEW S, NEW n \in Nat, NEW f \in [1..n -> S]
  PROVE  f \in Seq(S)
BY SeqDef

\* What the tail sends: rows it has read, each entry once, none that the stream has sent, and the
\* page shows those that match its filter.
LEMMA TailSends ==
  ASSUME TailInv, SendTail
  PROVE  \E items, matching :
           /\ Sends(items, matching)
           /\ items \in Seq(Item) /\ matching \in Seq(Fits(filter))
           /\ \A i \in DOMAIN items : items[i].entry \notin seen
           /\ \A i, j \in DOMAIN items : items[i].entry = items[j].entry => i = j
<1> DEFINE new == {r \in DOMAIN tail : tail[r].entry \notin seen}
           shown == {r \in new : Matches(tail[r].kind, filter)}
<1>1. PICK q \in FirstRows(new, TailSize, "ASC"), m \in FirstRows(shown, TailSize, "ASC") :
        Sends(Items(q), Items(m))
  BY DEF SendTail
<1>2. /\ DOMAIN tail \subseteq RowIds /\ tail \in [DOMAIN tail -> Item]
      /\ \A r, s \in DOMAIN tail : tail[r].entry = tail[s].entry => r = s
  BY DEF SendTail, TailInv
<1>3. new \in SUBSET RowIds /\ shown \in SUBSET RowIds /\ TailSize \in Nat
  BY <1>2, Sizes
<1>4. /\ \A r \in new : r \in DOMAIN tail /\ tail[r] \in Item /\ tail[r].entry \notin seen
      /\ \A r \in shown : tail[r] \in Fits(filter)
  BY <1>2 DEF Fits
<1> HIDE DEF new, shown
<1>a. /\ q \in Seq(new) /\ DOMAIN q = 1..Len(q)
      /\ \A i, j \in DOMAIN q : q[i] = q[j] => i = j
  BY <1>1, <1>3, FirstRowsAre
<1>5. /\ q \in Seq(new) /\ DOMAIN q = 1..Len(q) /\ Len(q) \in Nat
      /\ \A i, j \in DOMAIN q : q[i] = q[j] => i = j
  BY <1>a
<1>6. m \in Seq(shown) /\ DOMAIN m = 1..Len(m) /\ Len(m) \in Nat
  BY <1>3, FirstRowsAre
<1>7. \A i \in DOMAIN q : q[i] \in new
  BY <1>5
<1>8. \A i \in DOMAIN m : m[i] \in shown
  BY <1>6
<1>9. Items(q) \in [1..Len(q) -> Item] /\ Items(m) \in [1..Len(m) -> Fits(filter)]
  BY <1>4, <1>5, <1>6, <1>7, <1>8 DEF Items
<1>10. Items(q) \in Seq(Item) /\ Items(m) \in Seq(Fits(filter))
  BY <1>5, <1>6, <1>9, FunctionIsSeq
<1>11. DOMAIN Items(q) = DOMAIN q /\ \A i \in DOMAIN q : Items(q)[i] = tail[q[i]]
  BY DEF Items
<1>12. \A i \in DOMAIN Items(q) : Items(q)[i].entry \notin seen
  BY <1>4, <1>7, <1>11
<1>13. \A i, j \in DOMAIN Items(q) : Items(q)[i].entry = Items(q)[j].entry => i = j
  BY <1>2, <1>4, <1>5, <1>7, <1>11
<1> QED BY <1>1, <1>10, <1>12, <1>13

LEMMA TypedSteps == Typed /\ QueueInv /\ RowsInv /\ TailInv /\ [Next]_vars => Typed'
<1> SUFFICES ASSUME Typed, QueueInv, RowsInv, TailInv, [Next]_vars PROVE Typed'
  OBVIOUS
<1>1. from' \in [Entries -> {None, "proxy", "ui"}] /\ at' \in [Entries -> Stages]
  BY StepKinds, EntriesMove, OthersKeepEntries DEF Typed, Stages
<1>2. queue' \in Seq(Entries) /\ posting' \in Entries \cup {None}
  <2>1. ASSUME NEW e \in Entries, Write(e) PROVE queue' \in Seq(Entries) /\ posting' = posting
    BY <2>1 DEF Write, Typed
  <2>2. ASSUME NEW e \in Entries, WriteLog(e) \/ Insert(e) PROVE UNCHANGED <<queue, posting>>
    BY <2>2 DEF WriteLog, Insert, client
  <2>3. ASSUME NEW e \in Entries, InsertFails(e) \/ Emit(e)
        PROVE  queue' = queue /\ posting' \in {posting, None}
    BY <2>3, AnswersPosting DEF InsertFails, Emit
  <2>4. Post => queue' \in Seq(Entries) /\ posting' \in Entries
    BY PostQueue
  <2>5. PostTimesOut => queue' = queue /\ posting' = None
    BY DEF PostTimesOut
  <2> QED
    BY <2>1, <2>2, <2>3, <2>4, <2>5, StepKinds, OthersKeepEntries DEF Writing, Working, Typed
<1>3. editing' \in Item \cup {None}
  <2>1. ASSUME NEW r \in DOMAIN rows, NEW k \in Kinds, ReadLog(r, k) PROVE editing' \in Item
    BY <2>1 DEF ReadLog, RowsInv, Item
  <2>2. UpdateLog => editing' = None
    BY DEF UpdateLog
  <2>3. Writing \/ Working \/ Deleting \/ Streaming \/ Showing \/ UNCHANGED vars => editing' = editing
    BY DEF Writing, Write, WriteLog, Insert, InsertFails, Emit, Working, Post, PostTimesOut,
           Deleting, ClearAll, ClearAnswered, Prune, DeleteLog, Streaming, ReadMaxRow, Listen,
           ReadTail, SendTail, ConnectionLost, Showing, Toggle, SetFilter, QueryLogs, Show,
           FetchFails, ClearLogs, Cleared, ClearFails, vars
  <2> QED BY <2>1, <2>2, <2>3, StepKinds DEF Editing, Typed
<1>4. conn' \in {"closed", "asking", "read", "open"} /\ seen' \subseteq Entries
  <2>1. ASSUME NEW e \in Entries, Write(e) \/ WriteLog(e) \/ Insert(e) \/ InsertFails(e)
        PROVE  UNCHANGED <<conn, seen>>
    BY <2>1 DEF Write, WriteLog, Insert, InsertFails, stream
  <2>2. ASSUME NEW e \in Entries, Emit(e) PROVE conn' = conn /\ seen' \subseteq Entries
    BY <2>2, WrittenIsItem DEF Emit, SendsOne, Sends, Typed
  <2>3. ReadMaxRow \/ Listen \/ ReadTail => conn' \in {"read", "open"} /\ seen' = seen
    BY DEF ReadMaxRow, Listen, ReadTail
  <2>4. SendTail => conn' = conn /\ seen' \subseteq Entries
    <3> SUFFICES ASSUME SendTail PROVE conn' = conn /\ seen' \subseteq Entries
      OBVIOUS
    <3>1. PICK items, matching : Sends(items, matching) /\ items \in Seq(Item)
      BY TailSends
    <3>a. \A i \in DOMAIN items : items[i] \in Item
      BY <3>1
    <3>2. \A i \in DOMAIN items : items[i].entry \in Entries
      BY <3>a DEF Item
    <3> QED BY <3>1, <3>2 DEF Sends, SendTail, Typed
  <2>5. ConnectionLost \/ Toggle \/ (\E f \in Filters : SetFilter(f))
          => conn' \in {"closed", "asking"} /\ seen' = {}
    BY DEF ConnectionLost, Toggle, SetFilter, Closes
  <2>6. (\E g \in fetches : QueryLogs(g) \/ Show(g) \/ FetchFails(g))
          \/ ClearLogs \/ Cleared \/ ClearFails => UNCHANGED <<conn, seen>>
    BY DEF QueryLogs, Show, FetchFails, ClearLogs, Cleared, ClearFails, stream
  <2> QED
    BY <2>1, <2>2, <2>3, <2>4, <2>5, <2>6, StepKinds, OthersKeepStream
    DEF Writing, Streaming, Showing, Typed
<1>5. /\ timeouts' \in 0..MaxFaults /\ edits' \in 0..MaxEdits
      /\ faults' \in 0..MaxFaults /\ timeouts' <= faults'
  <2>1. Fault \/ Edit \/ UNCHANGED bounds \/ PostTimesOut
    BY DEF Next, vars, Write, WriteLog, Insert, InsertFails, Emit, Post, ClearAll, ClearAnswered,
           Prune, DeleteLog, UpdateLog, ReadLog, ReadMaxRow, Listen, ReadTail, SendTail,
           ConnectionLost, Toggle, SetFilter, QueryLogs, Show, FetchFails, ClearLogs, Cleared,
           ClearFails
  <2>2. CASE PostTimesOut
    <3>1. /\ faults < MaxFaults /\ faults' = faults + 1 /\ timeouts' = timeouts + 1 /\ edits' = edits
      BY <2>2 DEF PostTimesOut
    <3>2. timeouts \in 0..MaxFaults /\ faults \in 0..MaxFaults /\ timeouts <= faults
      BY DEF Typed
    <3>3. timeouts < MaxFaults /\ timeouts' <= faults'
      BY <3>1, <3>2, Sizes
    <3>4. timeouts' \in 0..MaxFaults /\ faults' \in 0..MaxFaults
      BY <3>1, <3>2, <3>3, Counting, Sizes
    <3> QED BY <3>1, <3>3, <3>4 DEF Typed
  <2> QED BY <2>1, <2>2, CountersTyped
<1> QED BY <1>1, <1>2, <1>3, <1>4, <1>5 DEF Typed, Stages
-----------------------------------------------------------------------------
(***************************************************************************)
(* Posted in order.                                                        *)
(***************************************************************************)
\* Rows that go, or whose kinds change, leave the order as it is.
LEMMA RowsGo ==
  ASSUME OrderInv, UNCHANGED <<from, at, queue, posting>>, timeouts' = timeouts,
         \A r \in DOMAIN rows' : r \in DOMAIN rows /\ rows'[r].entry = rows[r].entry
  PROVE  OrderInv'
<1>1. \A e \in Entries : Stored(e)' => Stored(e)
  BY DEF Stored
<1>2. PostedInOrder => PostedInOrder'
  BY DEF PostedInOrder
<1> QED BY <1>1, <1>2 DEF OrderInv

\* A new entry is in no row.
LEMMA NewIsNotStored ==
  ASSUME Typed, RowsInv, NEW e \in Entries, NEW who, NEW p, Begins(e, who, p), rows' = rows,
         timeouts' = timeouts
  PROVE  /\ at[e] = "new" /\ at'[e] = p /\ from'[e] = who
         /\ \A f \in Entries \ {e} : at'[f] = at[f] /\ from'[f] = from[f]
         /\ \A f \in Entries : Stored(f) => at[f] # "new"
         /\ \A f \in Entries : Stored(f)' = Stored(f)
         /\ PostedInOrder' = PostedInOrder
<1>1. /\ at[e] = "new" /\ at'[e] = p /\ from'[e] = who
      /\ \A f \in Entries \ {e} : at'[f] = at[f] /\ from'[f] = from[f]
  BY DEF Begins, IsNext, Moves, Typed
<1>2. \A r \in DOMAIN rows : rows[r].entry \in Entries /\ at[rows[r].entry] # "new"
  BY DEF RowsInv, Inserted
<1>3. \A r \in DOMAIN rows : from'[rows[r].entry] = from[rows[r].entry]
  BY <1>1, <1>2
<1>4. \A f \in Entries : Stored(f)' = Stored(f)
  <2> SUFFICES ASSUME NEW f \in Entries PROVE Stored(f)' = Stored(f)
    OBVIOUS
  <2>1. CASE f = e
    BY <1>1, <1>2, <2>1 DEF Stored
  <2>2. CASE f # e
    BY <1>1, <2>2 DEF Stored
  <2> QED BY <2>1, <2>2
<1>5. PostedInOrder' = PostedInOrder
  BY <1>3 DEF PostedInOrder
<1> QED BY <1>1, <1>2, <1>4, <1>5 DEF Stored

LEMMA WriteOrder ==
  ASSUME Typed, QueueInv, RowsInv, OrderInv, NEW e \in Entries, Write(e)
  PROVE  OrderInv'
<1>1. /\ posting' = posting /\ rows' = rows /\ timeouts' = timeouts
  BY DEF Write, bounds
<1>2. CASE Len(queue) < QueueSize
  <2>1. Begins(e, "proxy", "queue") /\ queue' = Append(queue, e)
    BY <1>2 DEF Write
  <2>2. /\ at[e] = "new" /\ at'[e] = "queue"
        /\ \A f \in Entries \ {e} : at'[f] = at[f] /\ from'[f] = from[f]
        /\ \A f \in Entries : Stored(f) => at[f] # "new"
        /\ \A f \in Entries : Stored(f)' = Stored(f)
        /\ PostedInOrder' = PostedInOrder
    BY <1>1, <2>1, NewIsNotStored
  <2>3. /\ \A i \in DOMAIN queue' : (i \in DOMAIN queue /\ queue'[i] = queue[i]) \/ queue'[i] = e
        /\ \A f \in Entries : at[f] # "new" => f < e
    BY <1>1, <1>2, <2>1, WriteQueue
  <2>4. posting # None => posting \in Entries /\ posting < e /\ posting # e
    BY <2>2, <2>3 DEF QueueInv, Typed
  <2>5. timeouts = 0 /\ posting # None => \A i \in DOMAIN queue' : posting < queue'[i]
    BY <2>3, <2>4 DEF OrderInv
  <2>6. timeouts = 0 => \A f \in Entries : Stored(f) => \A i \in DOMAIN queue' : f < queue'[i]
    BY <2>2, <2>3 DEF OrderInv
  <2>7. \A f \in Entries : from'[f] = "proxy" /\ at'[f] \in {"insert", "emit"}
          => from[f] = "proxy" /\ at[f] \in {"insert", "emit"}
    BY <2>2
  <2>8. posting' # None /\ at'[posting'] = "insert" => posting # None /\ at[posting] = "insert"
    BY <1>1, <2>2, <2>4
  <2> QED BY <1>1, <2>2, <2>5, <2>6, <2>7, <2>8 DEF OrderInv
<1>3. CASE ~(Len(queue) < QueueSize)
  <2>1. Begins(e, "proxy", "done") /\ queue' = queue
    BY <1>3 DEF Write
  <2>2. /\ at[e] = "new" /\ at'[e] = "done"
        /\ \A f \in Entries \ {e} : at'[f] = at[f] /\ from'[f] = from[f]
        /\ \A f \in Entries : Stored(f)' = Stored(f)
        /\ PostedInOrder' = PostedInOrder
    BY <1>1, <2>1, NewIsNotStored
  <2>3. \A f \in Entries : from'[f] = "proxy" /\ at'[f] \in {"insert", "emit"}
          => from[f] = "proxy" /\ at[f] \in {"insert", "emit"}
    BY <2>2
  <2>4. posting' # None /\ at'[posting'] = "insert" => posting # None /\ at[posting] = "insert"
    BY <1>1, <2>2 DEF Typed
  <2> QED BY <1>1, <2>1, <2>2, <2>3, <2>4 DEF OrderInv
<1> QED BY <1>2, <1>3

LEMMA WriteLogOrder ==
  ASSUME Typed, QueueInv, RowsInv, OrderInv, NEW e \in Entries, WriteLog(e)
  PROVE  OrderInv'
<1>1. /\ posting' = posting /\ queue' = queue /\ rows' = rows /\ timeouts' = timeouts
      /\ Begins(e, "ui", "insert")
  BY DEF WriteLog, bounds, client
<1>2. /\ at[e] = "new" /\ from'[e] = "ui"
      /\ \A f \in Entries \ {e} : at'[f] = at[f] /\ from'[f] = from[f]
      /\ \A f \in Entries : Stored(f)' = Stored(f)
      /\ PostedInOrder' = PostedInOrder
  BY <1>1, NewIsNotStored
<1>3. \A f \in Entries : from'[f] = "proxy" /\ at'[f] \in {"insert", "emit"}
        => from[f] = "proxy" /\ at[f] \in {"insert", "emit"}
  BY <1>2
<1>4. posting' # None /\ at'[posting'] = "insert" => posting # None /\ at[posting] = "insert"
  BY <1>1, <1>2 DEF QueueInv, Typed
<1> QED BY <1>1, <1>2, <1>3, <1>4 DEF OrderInv

LEMMA InsertOrder ==
  ASSUME Typed, QueueInv, RowsInv, OrderInv, NEW e \in Entries, Insert(e), [Next]_vars
  PROVE  OrderInv'
<1>1. /\ UNCHANGED <<from, queue, posting>> /\ timeouts' = timeouts
      /\ at[e] = "insert" /\ at'[e] = "emit" /\ \A f \in Entries \ {e} : at'[f] = at[f]
  BY DEF Insert, client, bounds, Moves, Typed
<1>2. /\ MaxRow + 1 \notin DOMAIN rows /\ DOMAIN rows' = DOMAIN rows \cup {MaxRow + 1}
      /\ rows'[MaxRow + 1].entry = e /\ \A r \in DOMAIN rows : rows'[r] = rows[r]
  BY InsertRow, WrittenIsItem
<1>3. \A r \in DOMAIN rows : r < MaxRow + 1 /\ r \in Int
  BY MaxRowIs DEF RowsInv, RowIds
<1>4. MaxRow + 1 \in Int /\ ~(MaxRow + 1 < MaxRow + 1)
  BY MaxRowIs
<1>5. \A f \in Entries : Stored(f)' => Stored(f) \/ (f = e /\ from[e] = "proxy")
  BY <1>1, <1>2 DEF Stored
<1> SUFFICES ASSUME timeouts = 0 PROVE OrderInv'
  BY <1>1 DEF OrderInv
<1>6. from[e] = "proxy" => posting = e /\ posting # None
  <2>1. e # None
    BY LogAssumption DEF Entries
  <2> QED BY <1>1, <2>1 DEF OrderInv
<1>7. \A f \in Entries : from'[f] = "proxy" /\ at'[f] \in {"insert", "emit"} => posting' = f
  BY <1>1 DEF OrderInv
<1>8. \A f \in Entries : Stored(f)' => \A i \in DOMAIN queue' : f < queue'[i]
  BY <1>1, <1>5, <1>6 DEF OrderInv
<1>9. posting' # None /\ at'[posting'] = "insert" => \A f \in Entries : Stored(f)' => f < posting'
  <2> SUFFICES ASSUME posting' # None, at'[posting'] = "insert", NEW f \in Entries, Stored(f)'
               PROVE  f < posting'
    OBVIOUS
  <2>1. posting' # e /\ posting \in Entries /\ at[posting] = "insert"
    BY <1>1 DEF Typed
  <2>2. Stored(f)
    BY <1>1, <1>5, <1>6, <2>1
  <2> QED BY <1>1, <2>1, <2>2 DEF OrderInv
<1>10. PostedInOrder'
  <2> SUFFICES ASSUME NEW r \in DOMAIN rows', NEW s \in DOMAIN rows', r < s,
                      from[rows'[r].entry] = "proxy", from[rows'[s].entry] = "proxy"
               PROVE  rows'[r].entry < rows'[s].entry
    BY <1>1 DEF PostedInOrder
  <2>1. r \in DOMAIN rows
    <3> SUFFICES ASSUME r = MaxRow + 1 PROVE FALSE
      BY <1>2
    <3>1. s \in DOMAIN rows \/ s = MaxRow + 1
      BY <1>2
    <3> QED BY <1>3, <1>4, <3>1
  <2>2. CASE s \in DOMAIN rows
    BY <1>2, <2>1, <2>2 DEF OrderInv, PostedInOrder
  <2>3. CASE s = MaxRow + 1
    <3>1. rows'[s].entry = e /\ posting = e /\ posting # None
      BY <1>2, <1>6, <2>3
    <3>2. rows[r].entry \in Entries /\ Stored(rows[r].entry)
      BY <1>2, <2>1 DEF Stored, RowsInv, Inserted
    <3> QED BY <1>1, <1>2, <2>1, <3>1, <3>2 DEF OrderInv
  <2> QED BY <1>2, <2>2, <2>3
<1> QED BY <1>1, <1>7, <1>8, <1>9, <1>10 DEF OrderInv

LEMMA DoneOrder ==
  ASSUME Typed, OrderInv, NEW e \in Entries, Moves(e, "done"), Answers(e),
         UNCHANGED <<from, queue, rows>>, timeouts' = timeouts
  PROVE  OrderInv'
<1>1. at'[e] = "done" /\ \A f \in Entries \ {e} : at'[f] = at[f]
  BY DEF Moves, Typed
<1>2. posting' = IF posting = e THEN None ELSE posting
  BY DEF Answers
<1>3. posting' # None => posting' = posting /\ posting \in Entries /\ posting # e
  BY <1>2 DEF Typed
<1>4. \A f \in Entries : Stored(f)' = Stored(f)
  BY DEF Stored
<1>5. PostedInOrder' = PostedInOrder
  BY DEF PostedInOrder
<1>6. timeouts = 0 => \A f \in Entries : from'[f] = "proxy" /\ at'[f] \in {"insert", "emit"} => posting' = f
  BY <1>1, <1>2 DEF OrderInv
<1>7. posting' # None /\ at'[posting'] = "insert" => posting # None /\ at[posting] = "insert"
  BY <1>1, <1>3
<1> QED BY <1>3, <1>4, <1>5, <1>6, <1>7 DEF OrderInv

LEMMA PostOrder ==
  ASSUME Typed, QueueInv, OrderInv, Post
  PROVE  OrderInv'
<1>1. /\ posting = None /\ posting' = queue[1] /\ posting' \in Entries
      /\ 1 \in DOMAIN queue
      /\ \A e \in Entries \ {posting'} : at'[e] = at[e]
      /\ \A i \in DOMAIN queue' : posting' < queue'[i] /\ \E j \in DOMAIN queue : queue'[i] = queue[j]
  BY PostQueue
<1>2. from' = from /\ rows' = rows /\ timeouts' = timeouts
  BY DEF Post, bounds
<1>3. \A f \in Entries : Stored(f)' = Stored(f)
  BY <1>2 DEF Stored
<1>4. PostedInOrder' = PostedInOrder
  BY <1>2 DEF PostedInOrder
<1>5. \A f \in Entries : f # None
  BY LogAssumption DEF Entries
<1>6. timeouts = 0 => \A f \in Entries : from'[f] = "proxy" /\ at'[f] \in {"insert", "emit"} => posting' = f
  BY <1>1, <1>2, <1>5 DEF OrderInv
<1>7. timeouts = 0 => \A f \in Entries : Stored(f) => f < posting' /\ \A i \in DOMAIN queue' : f < queue'[i]
  BY <1>1 DEF OrderInv
<1> QED BY <1>1, <1>2, <1>3, <1>4, <1>6, <1>7 DEF OrderInv

LEMMA OrderSteps == Typed /\ QueueInv /\ RowsInv /\ OrderInv /\ [Next]_vars => OrderInv'
<1> SUFFICES ASSUME Typed, QueueInv, RowsInv, OrderInv, [Next]_vars PROVE OrderInv'
  OBVIOUS
<1>1. ASSUME NEW e \in Entries, Write(e) \/ WriteLog(e) \/ Insert(e) PROVE OrderInv'
  BY <1>1, WriteOrder, WriteLogOrder, InsertOrder
<1>2. ASSUME NEW e \in Entries, InsertFails(e) \/ Emit(e) PROVE OrderInv'
  <2>1. Fault => timeouts' = timeouts
    BY DEF Fault
  <2>2. Moves(e, "done") /\ Answers(e) /\ UNCHANGED <<from, queue, rows>> /\ timeouts' = timeouts
    BY <1>2, <2>1 DEF InsertFails, Emit, bounds
  <2> QED BY <2>2, DoneOrder
<1>3. CASE Post
  BY <1>3, PostOrder
<1>4. CASE PostTimesOut
  <2>1. timeouts \in Nat /\ timeouts' = timeouts + 1
    BY <1>4 DEF PostTimesOut, Typed
  <2>2. timeouts' # 0
    BY <2>1
  <2> QED BY <2>2 DEF OrderInv
<1>5. CASE Deleting \/ Editing \/ Streaming \/ Showing \/ UNCHANGED vars
  <2>1. timeouts' = timeouts
    BY <1>5
    DEF Deleting, Editing, Streaming, Showing, vars, bounds, Fault, Edit, ClearAll, ClearAnswered,
        Prune, DeleteLog, UpdateLog, ReadLog, ReadMaxRow, Listen, ReadTail, SendTail, ConnectionLost,
        Toggle, SetFilter, QueryLogs, Show, FetchFails, ClearLogs, Cleared, ClearFails
  <2>2. Deleting => \A r \in DOMAIN rows' : r \in DOMAIN rows /\ rows'[r].entry = rows[r].entry
    <3> SUFFICES ASSUME Deleting
                 PROVE  \A r \in DOMAIN rows' : r \in DOMAIN rows /\ rows'[r] = rows[r]
      OBVIOUS
    <3>1. PICK kept \in SUBSET DOMAIN rows : Keep(kept)
      BY DEF Deleting, ClearAll, ClearAnswered, Prune, DeleteLog
    <3> QED BY <3>1 DEF Keep
  <2>3. UpdateLog => \A r \in DOMAIN rows' : r \in DOMAIN rows /\ rows'[r].entry = rows[r].entry
    BY DEF UpdateLog
  <2>4. (\E r \in DOMAIN rows, k \in Kinds : ReadLog(r, k)) => rows' = rows
    BY DEF ReadLog
  <2>5. \A r \in DOMAIN rows' : r \in DOMAIN rows /\ rows'[r].entry = rows[r].entry
    BY <1>5, <2>2, <2>3, <2>4, OthersKeepRows DEF Editing
  <2>6. UNCHANGED <<from, at, queue, posting>>
    BY <1>5, OthersKeepEntries
  <2> QED BY <2>1, <2>5, <2>6, RowsGo
<1> QED BY <1>1, <1>2, <1>3, <1>4, <1>5, StepKinds DEF Writing, Working
-----------------------------------------------------------------------------
(***************************************************************************)
(* What a stream sends.                                                    *)
(***************************************************************************)
\* Entries sent together, none of which was, are remembered and on the wire once.
LEMMA SendsOnce ==
  ASSUME WireInv, NEW items \in Seq(Item), NEW matching, Sends(items, matching),
         \A i \in DOMAIN items : items[i].entry \notin seen,
         \A i, j \in DOMAIN items : items[i].entry = items[j].entry => i = j
  PROVE  WireInv'
<1> DEFINE n == Len(wire)
<1>1. /\ wire' = wire \o items /\ wire \in Seq(Item)
      /\ seen' = seen \cup {items[i].entry : i \in DOMAIN items}
  BY DEF WireInv, Sends
<1>2. /\ n \in Nat /\ DOMAIN wire = 1..n
      /\ wire' \in Seq(Item) /\ DOMAIN wire' = 1..(n + Len(items))
      /\ Len(items) \in Nat /\ DOMAIN items = 1..Len(items)
      /\ \A i \in 1..n : wire'[i] = wire[i]
      /\ \A i \in 1..(n + Len(items)) : n < i => wire'[i] = items[i - n]
  BY <1>1, ConcatProperties
<1> HIDE DEF n
<1>3. \A i \in 1..(n + Len(items)) : i \in 1..n \/ (n < i /\ i - n \in 1..Len(items))
  BY <1>2
<1>4. \A i \in 1..n : wire'[i].entry \in seen
  BY <1>2 DEF WireInv
<1>5. \A i \in 1..(n + Len(items)) :
        n < i => wire'[i] = items[i - n] /\ i - n \in DOMAIN items
  BY <1>2, <1>3
<1>6. \A i \in DOMAIN wire' : wire'[i].entry \in seen'
  BY <1>1, <1>2, <1>3, <1>4, <1>5
<1>7. \A i, j \in DOMAIN wire' : wire'[i].entry = wire'[j].entry => i = j
  <2> SUFFICES ASSUME NEW i \in DOMAIN wire', NEW j \in DOMAIN wire',
                      wire'[i].entry = wire'[j].entry
               PROVE  i = j
    OBVIOUS
  <2>1. CASE i \in 1..n /\ j \in 1..n
    BY <1>2, <2>1 DEF WireInv, SentOnce
  <2>2. CASE n < i /\ n < j
    <3>1. i - n = j - n
      BY <1>2, <1>5, <2>2
    <3>2. i \in Int /\ j \in Int /\ n \in Int
      BY <1>2
    <3> QED BY <3>1, <3>2
  <2>3. CASE i \in 1..n /\ n < j
    BY <1>2, <1>4, <1>5, <2>3
  <2>4. CASE n < i /\ j \in 1..n
    BY <1>2, <1>4, <1>5, <2>4
  <2> QED BY <1>2, <1>3, <2>1, <2>2, <2>3, <2>4
<1> QED BY <1>2, <1>6, <1>7 DEF WireInv, SentOnce

LEMMA WireSteps == Typed /\ TailInv /\ WireInv /\ [Next]_vars => WireInv'
<1> SUFFICES ASSUME Typed, TailInv, WireInv, [Next]_vars PROVE WireInv'
  OBVIOUS
<1>1. ASSUME UNCHANGED <<wire, seen>> PROVE WireInv'
  BY <1>1 DEF WireInv, SentOnce
<1>2. ASSUME NEW e \in Entries, Emit(e) PROVE WireInv'
  <2>1. CASE conn = "open" /\ e \notin seen
    <3>1. SendsOne(Written(e)) /\ Written(e) \in Item /\ Written(e).entry = e
      BY <1>2, <2>1, WrittenIsItem DEF Emit
    <3>2. PICK matching : Sends(<<Written(e)>>, matching)
      BY <3>1 DEF SendsOne
    <3>3. /\ <<Written(e)>> \in Seq(Item) /\ DOMAIN <<Written(e)>> = {1}
          /\ <<Written(e)>>[1].entry \notin seen
      BY <2>1, <3>1
    <3>4. \A i \in DOMAIN <<Written(e)>> : <<Written(e)>>[i].entry \notin seen
      BY <3>3
    <3>5. \A i, j \in DOMAIN <<Written(e)>> : i = j
      BY <3>3
    <3> QED BY <3>2, <3>3, <3>4, <3>5, SendsOnce
  <2>2. CASE ~(conn = "open" /\ e \notin seen)
    BY <1>1, <1>2, <2>2 DEF Emit
  <2> QED BY <2>1, <2>2
<1>3. CASE SendTail
  BY <1>3, TailSends, SendsOnce
<1>4. ASSUME wire' = <<>>, seen' = {} PROVE WireInv'
  BY <1>4 DEF WireInv, SentOnce
<1>5. ASSUME NEW e \in Entries, Write(e) \/ WriteLog(e) \/ Insert(e) \/ InsertFails(e)
      PROVE  UNCHANGED <<wire, seen>>
  BY <1>5 DEF Write, WriteLog, Insert, InsertFails, stream
<1>6. ReadMaxRow \/ Listen \/ ReadTail => UNCHANGED <<wire, seen>>
  BY DEF ReadMaxRow, Listen, ReadTail
<1>7. ConnectionLost \/ Toggle \/ (\E f \in Filters : SetFilter(f)) => wire' = <<>> /\ seen' = {}
  BY DEF ConnectionLost, Toggle, SetFilter, Closes
<1>8. (\E g \in fetches : QueryLogs(g) \/ Show(g) \/ FetchFails(g))
        \/ ClearLogs \/ Cleared \/ ClearFails => UNCHANGED <<wire, seen>>
  BY DEF QueryLogs, Show, FetchFails, ClearLogs, Cleared, ClearFails, stream
<1> QED
  BY <1>1, <1>2, <1>3, <1>4, <1>5, <1>6, <1>7, <1>8, StepKinds, OthersKeepStream
  DEF Writing, Streaming, Showing

\* What the tail has read are rows as they were.
LEMMA TailReads ==
  ASSUME RowsInv, ReadTail
  PROVE  TailInv'
<1>1. PICK q \in FirstRows(Newer, TailSize, "ASC") : tail' = Result(q)
  BY DEF ReadTail
<1>2. Newer \subseteq DOMAIN rows /\ Newer \in SUBSET RowIds /\ TailSize \in Nat
  BY Sizes DEF Newer, RowsInv
<1>3. q \in Seq(Newer) /\ DOMAIN q = 1..Len(q)
  BY <1>2, FirstRowsAre
<1>4. \A i \in DOMAIN q : q[i] \in DOMAIN rows
  BY <1>2, <1>3
<1>5. DOMAIN tail' \subseteq DOMAIN rows /\ \A r \in DOMAIN tail' : tail'[r] = rows[r]
  BY <1>1, <1>4 DEF Result
<1>6. tail' \in [DOMAIN tail' -> Item]
  BY <1>1, <1>4 DEF Result, RowsInv
<1> QED BY <1>5, <1>6 DEF TailInv, RowsInv

LEMMA TailSteps ==
  Typed /\ RowsInv /\ StreamInv /\ [Next]_vars => lastRow' \in 0..MaxWrites /\ TailInv'
<1> SUFFICES ASSUME Typed, RowsInv, StreamInv, [Next]_vars
             PROVE  lastRow' \in 0..MaxWrites /\ TailInv'
  OBVIOUS
<1>1. UNCHANGED <<lastRow, tail>> => lastRow' \in 0..MaxWrites /\ TailInv'
  BY DEF StreamInv, TailInv
<1>2. tail' = None => TailInv'
  BY DEF TailInv
<1>3. ReadMaxRow => lastRow' \in 0..MaxWrites /\ TailInv'
  <2> SUFFICES ASSUME ReadMaxRow PROVE lastRow' \in 0..MaxWrites /\ TailInv'
    OBVIOUS
  <2>1. lastRow' = MaxRow /\ tail' = tail
    BY DEF ReadMaxRow
  <2> QED BY <2>1, MaxRowIs DEF StreamInv, TailInv
<1>4. ReadTail => lastRow' \in 0..MaxWrites /\ TailInv'
  BY TailReads DEF ReadTail, StreamInv
<1>5. SendTail => lastRow' \in 0..MaxWrites /\ TailInv'
  <2> SUFFICES ASSUME SendTail PROVE lastRow' \in 0..MaxWrites /\ TailInv'
    OBVIOUS
  <2>1. tail # None /\ tail' = None /\ lastRow' = Largest({lastRow} \cup DOMAIN tail)
    BY DEF SendTail
  <2>2. lastRow \in 0..MaxWrites /\ DOMAIN tail \subseteq RowIds /\ MaxWrites \in Nat
    BY <2>1, Sizes DEF StreamInv, TailInv
  <2>3. {lastRow} \cup DOMAIN tail \in SUBSET (0..MaxWrites)
    BY <2>2 DEF RowIds
  <2>4. lastRow' \in {lastRow} \cup DOMAIN tail
    BY <2>1, <2>2, <2>3, LargestExists
  <2> QED BY <1>2, <2>1, <2>3, <2>4
<1>6. ASSUME lastRow' = 0, tail' = None PROVE lastRow' \in 0..MaxWrites /\ TailInv'
  BY <1>2, <1>6, Sizes
<1>7. ASSUME NEW e \in Entries, Write(e) \/ WriteLog(e) \/ Insert(e) \/ InsertFails(e) \/ Emit(e)
      PROVE  UNCHANGED <<lastRow, tail>>
  BY <1>7 DEF Write, WriteLog, Insert, InsertFails, Emit, stream
<1>8. Listen => UNCHANGED <<lastRow, tail>>
  BY DEF Listen
<1>9. ConnectionLost \/ Toggle \/ (\E f \in Filters : SetFilter(f)) => lastRow' = 0 /\ tail' = None
  BY DEF ConnectionLost, Toggle, SetFilter, Closes
<1>10. (\E g \in fetches : QueryLogs(g) \/ Show(g) \/ FetchFails(g))
         \/ ClearLogs \/ Cleared \/ ClearFails => UNCHANGED <<lastRow, tail>>
  BY DEF QueryLogs, Show, FetchFails, ClearLogs, Cleared, ClearFails, stream
<1> QED
  BY <1>1, <1>3, <1>4, <1>5, <1>6, <1>7, <1>8, <1>9, <1>10, StepKinds, OthersKeepStream
  DEF Writing, Streaming, Showing

LEMMA StreamSteps == Typed /\ RowsInv /\ StreamInv /\ [Next]_vars => StreamInv'
BY WireSteps, TailSteps DEF StreamInv
-----------------------------------------------------------------------------
(***************************************************************************)
(* What a stream does not pass over.                                       *)
(***************************************************************************)
LEMMA StreamKinds ==
  ASSUME [Next]_vars
  PROVE  \/ conn' # "open" /\ tail' = None
         \/ ReadMaxRow \/ Listen \/ ReadTail \/ SendTail
         \/ UNCHANGED <<conn, lastRow, tail>> /\ seen \subseteq seen'
<1>1. ASSUME NEW e \in Entries, Write(e) \/ WriteLog(e) \/ Insert(e) \/ InsertFails(e)
      PROVE  UNCHANGED <<conn, lastRow, tail, seen>>
  BY <1>1 DEF Write, WriteLog, Insert, InsertFails, stream
<1>2. ASSUME NEW e \in Entries, Emit(e)
      PROVE  UNCHANGED <<conn, lastRow, tail>> /\ seen \subseteq seen'
  BY <1>2 DEF Emit, SendsOne, Sends
<1>3. ConnectionLost \/ Toggle \/ (\E f \in Filters : SetFilter(f)) => conn' # "open" /\ tail' = None
  BY DEF ConnectionLost, Toggle, SetFilter, Closes
<1>4. (\E g \in fetches : QueryLogs(g) \/ Show(g) \/ FetchFails(g))
        \/ ClearLogs \/ Cleared \/ ClearFails => UNCHANGED <<conn, lastRow, tail, seen>>
  BY DEF QueryLogs, Show, FetchFails, ClearLogs, Cleared, ClearFails, stream
<1> QED
  BY <1>1, <1>2, <1>3, <1>4, StepKinds, OthersKeepStream DEF Writing, Streaming, Showing

\* An event that is due stays due until it is emitted.
LEMMA EventStaysDue ==
  ASSUME Typed, QueueInv, [Next]_vars, NEW e \in Entries, at[e] = "emit", ~Emit(e)
  PROVE  at'[e] = "emit"
<1>1. ASSUME NEW f \in Entries, Write(f) \/ WriteLog(f) PROVE at'[e] = "emit"
  BY <1>1 DEF Write, WriteLog, Begins, IsNext, Moves, Typed
<1>2. ASSUME NEW f \in Entries, Insert(f) \/ InsertFails(f) PROVE at'[e] = "emit"
  BY <1>2 DEF Insert, InsertFails, Moves, Typed
<1>3. ASSUME NEW f \in Entries, Emit(f) PROVE at'[e] = "emit"
  BY <1>3 DEF Emit, Moves, Typed
<1>4. CASE Post
  <2>1. Head(queue) \in Entries /\ at[Head(queue)] = "queue" /\ Moves(Head(queue), "insert")
    BY <1>4, QueueHead DEF Post
  <2> QED BY <2>1 DEF Moves, Typed
<1>5. CASE PostTimesOut
  BY <1>5 DEF PostTimesOut, writes
<1> QED BY <1>1, <1>2, <1>3, <1>4, <1>5, StepKinds, OthersKeepEntries DEF Writing, Working

\* An open stream that hears an event has sent its entry.
LEMMA EventIsSent ==
  ASSUME NEW e \in Entries, Emit(e), conn = "open"
  PROVE  e \in seen'
<1>1. CASE e \in seen
  BY <1>1 DEF Emit
<1>2. CASE e \notin seen
  <2>1. PICK matching : Sends(<<Written(e)>>, matching)
    BY <1>2 DEF Emit, SendsOne
  <2>2. <<Written(e)>>[1].entry = e /\ 1 \in DOMAIN <<Written(e)>>
    BY WrittenIsItem
  <2> QED BY <2>1, <2>2 DEF Sends
<1> QED BY <1>1, <1>2

\* A row keeps its entry as long as it is there, its entry gets no other row, and the event of a new
\* row is due.
LEMMA RowsStay ==
  ASSUME Typed, QueueInv, RowsInv, [Next]_vars
  PROVE  /\ \A r \in DOMAIN rows' :
              \/ r \in DOMAIN rows /\ rows'[r].entry = rows[r].entry
              \/ at'[rows'[r].entry] = "emit"
         /\ \A r \in DOMAIN rows :
              \/ r \in DOMAIN rows' /\ rows'[r].entry = rows[r].entry
              \/ \A s \in DOMAIN rows' : rows'[s].entry # rows[r].entry
<1> DEFINE Same == \A r \in DOMAIN rows' : r \in DOMAIN rows /\ rows'[r].entry = rows[r].entry
<1>1. ASSUME NEW e \in Entries, Insert(e)
      PROVE  /\ \A r \in DOMAIN rows' :
                  \/ r \in DOMAIN rows /\ rows'[r].entry = rows[r].entry
                  \/ at'[rows'[r].entry] = "emit"
             /\ \A r \in DOMAIN rows : r \in DOMAIN rows' /\ rows'[r].entry = rows[r].entry
  <2>1. at'[e] = "emit"
    BY <1>1 DEF Insert, Moves, Typed
  <2> QED BY <1>1, <2>1, InsertRow, WrittenIsItem
<1>2. CASE Deleting
  <2>1. PICK kept \in SUBSET DOMAIN rows : Keep(kept)
    BY <1>2 DEF Deleting, ClearAll, ClearAnswered, Prune, DeleteLog
  <2>2. Same
    BY <2>1 DEF Keep
  <2> QED BY <2>2 DEF RowsInv
<1>3. CASE UpdateLog
  BY <1>3 DEF UpdateLog
<1>4. CASE rows' = rows
  BY <1>4
<1>5. ASSUME NEW e \in Entries, Write(e) \/ WriteLog(e) \/ InsertFails(e) \/ Emit(e)
      PROVE  rows' = rows
  BY <1>5 DEF Write, WriteLog, InsertFails, Emit
<1>6. ASSUME NEW r \in DOMAIN rows, NEW k \in Kinds, ReadLog(r, k) PROVE rows' = rows
  BY <1>6 DEF ReadLog
<1> HIDE DEF Same
<1> QED
  BY <1>1, <1>2, <1>3, <1>4, <1>5, <1>6, StepKinds, OthersKeepRows DEF Writing, Editing

\* A result of the tail reaches up to its largest row.  Each row of the table in its reach is in it,
\* unless its entry has been sent or its event is due: a row that has come since has taken the rowid
\* of a deleted one.  A result is small enough to be sent as a whole.
Reached(r) == \E s \in DOMAIN tail : r <= s
Covered(r) ==
  LET e == rows[r].entry
  IN  e \in seen \/ at[e] = "emit" \/ (r \in DOMAIN tail /\ tail[r].entry = e)

CoversInv ==
  /\ conn # "open" => tail = None
  /\ tail # None =>
       /\ Cardinality(DOMAIN tail) <= TailSize
       /\ \A r \in Newer : Reached(r) => Covered(r)

LEMMA ReadTailCovers ==
  ASSUME RowsInv, ReadTail
  PROVE  CoversInv'
<1>1. PICK q \in FirstRows(Newer, TailSize, "ASC") : tail' = Result(q)
  BY DEF ReadTail
<1>2. /\ Newer \in SUBSET RowIds /\ Newer \subseteq DOMAIN rows /\ TailSize \in Nat
      /\ \A r \in Newer : r \in DOMAIN rows
  BY Sizes DEF Newer, RowsInv
<1>3. UNCHANGED <<rows, at, seen, lastRow, conn>> /\ conn = "open"
  BY DEF ReadTail, writes
<1>4. DOMAIN tail' = {q[i] : i \in DOMAIN q}
  BY <1>1 DEF Result
<1>5. \A r \in DOMAIN tail' : tail'[r] = rows[r]
  BY <1>1 DEF Result
<1>6. Cardinality(DOMAIN tail') <= TailSize
  BY <1>2, <1>4, FirstRowsFew
<1>7. ASSUME NEW r \in Newer, NEW s \in DOMAIN tail', r <= s PROVE r \in DOMAIN tail'
  <2>1. PICK i \in DOMAIN q : s = q[i]
    BY <1>4
  <2>2. PICK j \in DOMAIN q : q[j] = r
    BY <1>2, <1>7, <2>1, FirstRowsReach
  <2> QED BY <1>4, <2>2
<1>8. Newer' = Newer
  BY <1>3 DEF Newer
<1> QED BY <1>3, <1>5, <1>6, <1>7, <1>8 DEF CoversInv, Reached, Covered

LEMMA CoversSteps == Typed /\ QueueInv /\ RowsInv /\ CoversInv /\ [Next]_vars => CoversInv'
<1> SUFFICES ASSUME Typed, QueueInv, RowsInv, CoversInv, [Next]_vars PROVE CoversInv'
  OBVIOUS
<1>1. CASE ReadTail
  BY <1>1, ReadTailCovers
<1>2. CASE tail' = None
  BY <1>2 DEF CoversInv
<1>3. CASE UNCHANGED <<conn, lastRow, tail>> /\ seen \subseteq seen' /\ tail # None
  <2>1. ASSUME NEW r \in Newer', Reached(r)' PROVE Covered(r)'
    <3>1. CASE r \in DOMAIN rows /\ rows'[r].entry = rows[r].entry
      <4>1. r \in Newer /\ Reached(r) /\ rows[r].entry \in Entries
        BY <1>3, <2>1, <3>1 DEF Newer, Reached, RowsInv, Item
      <4>2. Covered(r) /\ conn = "open"
        BY <1>3, <4>1 DEF CoversInv
      <4>3. at[rows[r].entry] = "emit" => at'[rows[r].entry] = "emit" \/ rows[r].entry \in seen'
        BY <4>1, <4>2, EventStaysDue, EventIsSent
      <4> QED BY <1>3, <3>1, <4>2, <4>3 DEF Covered
    <3>2. CASE at'[rows'[r].entry] = "emit"
      BY <3>2 DEF Covered
    <3> QED BY <3>1, <3>2, RowsStay DEF Newer
  <2> QED BY <1>3, <2>1 DEF CoversInv
<1>4. SendTail => tail' = None
  BY DEF SendTail
<1>5. ReadMaxRow \/ Listen => conn # "open" /\ tail' = tail
  BY DEF ReadMaxRow, Listen
<1>6. conn # "open" => tail = None
  BY DEF CoversInv
<1> QED BY <1>1, <1>2, <1>3, <1>4, <1>5, <1>6, StreamKinds

\* A result of the tail is sent as a whole, but for the entries the stream has sent.
LEMMA TailIsSent ==
  ASSUME TailInv, CoversInv, SendTail, NEW r \in DOMAIN tail
  PROVE  tail[r].entry \in seen'
<1> DEFINE new == {s \in DOMAIN tail : tail[s].entry \notin seen}
<1>1. PICK q \in FirstRows(new, TailSize, "ASC"),
           m \in FirstRows({s \in new : Matches(tail[s].kind, filter)}, TailSize, "ASC") :
        Sends(Items(q), Items(m))
  BY DEF SendTail
<1>2. /\ DOMAIN tail \in SUBSET RowIds /\ new \in SUBSET RowIds /\ new \in SUBSET DOMAIN tail
      /\ TailSize \in Nat
  BY Sizes DEF SendTail, TailInv
<1>3. Cardinality(new) <= TailSize
  <2>1. Cardinality(DOMAIN tail) <= TailSize
    BY DEF SendTail, CoversInv
  <2>2. IsFiniteSet(DOMAIN tail) /\ Cardinality(DOMAIN tail) \in Nat /\ Cardinality(new) \in Nat
    BY <1>2, FiniteSubsets DEF RowIds
  <2>3. Cardinality(new) <= Cardinality(DOMAIN tail)
    BY <1>2, <2>2, FS_Subset
  <2> QED BY <1>2, <2>1, <2>2, <2>3
<1>4. seen' = seen \cup {Items(q)[i].entry : i \in DOMAIN Items(q)}
  BY <1>1 DEF Sends
<1>5. CASE r \in new
  <2>1. PICK i \in DOMAIN q : q[i] = r
    BY <1>2, <1>3, <1>5, FirstRowsAll
  <2>2. i \in DOMAIN Items(q) /\ Items(q)[i] = tail[r]
    BY <2>1 DEF Items
  <2> QED BY <1>4, <2>2
<1>6. CASE r \notin new
  BY <1>4, <1>6
<1> QED BY <1>5, <1>6

LEMMA SentReach ==
  ASSUME StreamInv, SendTail, NEW r \in RowIds, lastRow < r, ~(lastRow' < r)
  PROVE  Reached(r)
<1>1. lastRow' = Largest({lastRow} \cup DOMAIN tail) /\ DOMAIN tail \subseteq RowIds
  BY DEF SendTail, StreamInv, TailInv
<1>2. {lastRow} \cup DOMAIN tail \in SUBSET (0..MaxWrites) /\ MaxWrites \in Nat
  BY <1>1, Sizes DEF StreamInv, RowIds
<1>3. lastRow' \in {lastRow} \cup DOMAIN tail
  BY <1>1, <1>2, LargestExists
<1>4. lastRow' \in Int /\ lastRow \in Int /\ r \in Int
  BY <1>2, <1>3 DEF RowIds
<1>5. lastRow' \in DOMAIN tail /\ r <= lastRow'
  BY <1>3, <1>4
<1> QED BY <1>5 DEF Reached

\* One step of an open stream.
LEMMA NoneSkippedNext ==
  ASSUME Typed, QueueInv, RowsInv, StreamInv, CoversInv, [Next]_vars,
         conn = "open", conn' = "open", NEW e \in Entries, Awaited(e)
  PROVE  Awaited(e)' \/ e \in seen' \/ \A r \in DOMAIN rows' : rows'[r].entry # e
<1>1. CASE at[e] = "emit"
  BY <1>1, EventStaysDue, EventIsSent DEF Awaited
<1>2. CASE \E r \in Newer : rows[r].entry = e
  <2>1. PICK r \in Newer : rows[r].entry = e
    BY <1>2
  <2>2. r \in DOMAIN rows /\ r > lastRow /\ r \in RowIds
    BY <2>1 DEF Newer, RowsInv
  <2>3. CASE SendTail
    <3>1. rows' = rows /\ at' = at
      BY <2>3 DEF SendTail, writes
    <3>2. CASE lastRow' < r
      <4>1. r > lastRow'
        BY <2>2, <3>2, TailSteps DEF RowIds
      <4> QED BY <2>1, <2>2, <3>1, <4>1 DEF Awaited, Newer
    <3>3. CASE ~(lastRow' < r)
      <4>1. Reached(r)
        BY <2>2, <2>3, <3>3, SentReach DEF StreamInv, RowIds
      <4>2. Covered(r) /\ tail # None
        BY <2>1, <2>3, <4>1 DEF CoversInv, SendTail
      <4>3. seen \subseteq seen'
        BY <2>3 DEF SendTail, Sends
      <4>4. r \in DOMAIN tail /\ tail[r].entry = e => e \in seen'
        BY <2>3, TailIsSent DEF StreamInv
      <4> QED BY <1>1, <2>1, <4>2, <4>3, <4>4 DEF Covered
    <3> QED BY <3>2, <3>3
  <2>4. CASE lastRow' = lastRow
    <3>1. r \in DOMAIN rows' /\ rows'[r].entry = e => r \in Newer'
      BY <2>2, <2>4 DEF Newer
    <3> QED BY <2>1, <2>2, <3>1, RowsStay DEF Awaited
  <2>5. ReadTail => lastRow' = lastRow
    BY DEF ReadTail
  <2>6. ~ReadMaxRow /\ ~Listen
    BY DEF ReadMaxRow, Listen
  <2> QED BY <2>3, <2>4, <2>5, <2>6, StreamKinds
<1> QED BY <1>1, <1>2 DEF Awaited
-----------------------------------------------------------------------------
(***************************************************************************)
(* What the page shows.                                                    *)
(***************************************************************************)
\* Rows of the table that match a filter, in their order, are an answer to it.
LEMMA AnswersAre ==
  ASSUME RowsInv, NEW f \in Filters,
         NEW q \in FirstRows({r \in DOMAIN rows : Matches(rows[r].kind, f)}, PageSize, f.order)
  PROVE  /\ [i \in DOMAIN q |-> rows[q[i]]] \in Seq(Fits(f))
         /\ Len([i \in DOMAIN q |-> rows[q[i]]]) <= PageSize
<1> DEFINE rs == {r \in DOMAIN rows : Matches(rows[r].kind, f)}
<1>1. rs \in SUBSET RowIds /\ PageSize \in Nat
  BY Sizes DEF RowsInv
<1>2. \A r \in rs : rows[r] \in Fits(f)
  BY DEF RowsInv, Fits
<1> HIDE DEF rs
<1>3. q \in Seq(rs) /\ Len(q) <= PageSize /\ DOMAIN q = 1..Len(q)
  BY <1>1, FirstRowsAre DEF rs
<1>4. Len(q) \in Nat /\ \A i \in 1..Len(q) : q[i] \in rs
  BY <1>3
<1>5. [i \in DOMAIN q |-> rows[q[i]]] \in [1..Len(q) -> Fits(f)]
  BY <1>2, <1>3, <1>4
<1>6. [i \in DOMAIN q |-> rows[q[i]]] \in Seq(Fits(f))
  BY <1>4, <1>5, FunctionIsSeq
<1>7. Len([i \in DOMAIN q |-> rows[q[i]]]) = Len(q)
  BY <1>4, <1>5, LenProperties
<1> QED BY <1>3, <1>6, <1>7

\* New entries of a stream that match the filter keep a list that fits fitting.
LEMMA AddedFit ==
  ASSUME PageInv, NEW matching \in Seq(Fits(filter)), list' = Add(list, matching),
         UNCHANGED <<filter, fetches, failed, clearing>>
  PROVE  PageInv'
<1>1. matching \in Seq(Item)
  <2>1. Fits(filter) \subseteq Item
    BY DEF Fits
  <2> QED BY <2>1
<1>2. list' \in Seq(Item) /\ Len(list') <= PageSize
  BY <1>1, AddKeeps DEF PageInv
<1>3. Settled' => Settled
  BY DEF Settled
<1>4. Settled => list' \in Seq(Fits(filter))
  BY AddKeeps DEF PageInv
<1> QED BY <1>2, <1>3, <1>4 DEF PageInv, Fits

LEMMA PageSteps == Typed /\ RowsInv /\ TailInv /\ PageInv /\ [Next]_vars => PageInv'
<1> SUFFICES ASSUME Typed, RowsInv, TailInv, PageInv, [Next]_vars PROVE PageInv'
  OBVIOUS
<1>1. ASSUME UNCHANGED <<filter, list, fetches, failed, clearing>> PROVE PageInv'
  BY <1>1 DEF PageInv, Settled, Fits
<1>2. ASSUME NEW e \in Entries, Emit(e) PROVE PageInv'
  <2>1. CASE conn = "open" /\ e \notin seen
    <3>1. SendsOne(Written(e)) /\ UNCHANGED <<filter, fetches, failed, clearing>>
      BY <1>2, <2>1 DEF Emit
    <3>2. PICK matching \in {<<>>, <<Written(e)>>} :
            /\ list' = Add(list, matching)
            /\ matching # <<>> => Matches(Written(e).kind, filter)
      BY <3>1 DEF SendsOne, Sends
    <3>3. Matches(Written(e).kind, filter) => Written(e) \in Fits(filter)
      BY WrittenIsItem DEF Fits
    <3>4. matching \in Seq(Fits(filter))
      <4>1. CASE matching = <<>>
        BY <4>1
      <4>2. CASE matching = <<Written(e)>>
        <5>1. Written(e) \in Fits(filter)
          BY <3>2, <3>3, <4>2
        <5> QED BY <4>2, <5>1
      <4> QED BY <3>2, <4>1, <4>2
    <3> QED BY <3>1, <3>2, <3>4, AddedFit
  <2>2. CASE ~(conn = "open" /\ e \notin seen)
    BY <1>1, <1>2, <2>2 DEF Emit
  <2> QED BY <2>1, <2>2
<1>3. CASE SendTail
  <2>1. PICK items, matching : Sends(items, matching) /\ matching \in Seq(Fits(filter))
    BY <1>3, TailSends
  <2>2. UNCHANGED <<filter, fetches, failed, clearing>> /\ list' = Add(list, matching)
    BY <1>3, <2>1 DEF SendTail, Sends
  <2> QED BY <2>1, <2>2, AddedFit
<1>4. ASSUME NEW f \in Filters, SetFilter(f) PROVE PageInv'
  <2>1. /\ filter' = f /\ list' = list /\ clearing' = clearing /\ failed' = FALSE
        /\ fetches' = {[g EXCEPT !.live = FALSE] : g \in fetches} \cup {Asked(f)}
    BY <1>4 DEF SetFilter
  <2>2. Asked(f) \in Fetch /\ Asked(f).live /\ Asked(f).filter = f /\ Asked(f).answer = None
    BY DEF Asked, Fetch
  <2>3. ~Settled'
    BY <2>1, <2>2 DEF Settled
  <2>4. \A g \in fetches :
          /\ [g EXCEPT !.live = FALSE] \in Fetch
          /\ [g EXCEPT !.live = FALSE].live = FALSE
          /\ [g EXCEPT !.live = FALSE].filter = g.filter
          /\ [g EXCEPT !.live = FALSE].answer = g.answer
    BY DEF PageInv, Fetch
  <2>5. fetches' \subseteq Fetch
    BY <2>1, <2>2, <2>4
  <2>6. \A g \in fetches' :
          /\ g.live => g.filter = f
          /\ g.answer # None => g.answer \in Seq(Fits(g.filter)) /\ Len(g.answer) <= PageSize
    <3> SUFFICES ASSUME NEW g \in fetches'
                 PROVE  /\ g.live => g.filter = f
                        /\ g.answer # None => /\ g.answer \in Seq(Fits(g.filter))
                                              /\ Len(g.answer) <= PageSize
      OBVIOUS
    <3>1. CASE g = Asked(f)
      BY <2>2, <3>1
    <3>2. ASSUME NEW h \in fetches, g = [h EXCEPT !.live = FALSE]
          PROVE  /\ g.live => g.filter = f
                 /\ g.answer # None => /\ g.answer \in Seq(Fits(g.filter))
                                       /\ Len(g.answer) <= PageSize
      <4>1. g.live = FALSE /\ g.filter = h.filter /\ g.answer = h.answer
        BY <2>4, <3>2
      <4> QED BY <4>1 DEF PageInv
    <3> QED BY <2>1, <3>1, <3>2
  <2> QED BY <2>1, <2>3, <2>5, <2>6 DEF PageInv, Fits
<1>5. ASSUME NEW g \in fetches, QueryLogs(g) PROVE PageInv'
  <2>1. g \in Fetch /\ g.filter \in Filters /\ (g.live => g.filter = filter)
    BY DEF PageInv, Fetch
  <2>2. PICK q \in FirstRows({r \in DOMAIN rows : Matches(rows[r].kind, g.filter)}, PageSize,
                             g.filter.order) :
          fetches' = (fetches \ {g}) \cup {[g EXCEPT !.answer = [i \in DOMAIN q |-> rows[q[i]]]]}
    BY <1>5 DEF QueryLogs
  <2> DEFINE found == [i \in DOMAIN q |-> rows[q[i]]]
             h == [g EXCEPT !.answer = found]
  <2>3. found \in Seq(Fits(g.filter)) /\ Len(found) <= PageSize
    BY <2>1, AnswersAre
  <2>4. found \in Seq(Item)
    <3>1. Fits(g.filter) \subseteq Item
      BY DEF Fits
    <3> QED BY <2>3, <3>1
  <2>5. UNCHANGED <<filter, list, failed, clearing>>
    BY <1>5 DEF QueryLogs
  <2>6. fetches' = (fetches \ {g}) \cup {h}
    BY <2>2
  <2> HIDE DEF found
  <2>7. h \in Fetch /\ h.live = g.live /\ h.filter = g.filter /\ h.answer = found
    BY <2>1, <2>4 DEF Fetch
  <2> HIDE DEF h
  <2>8. Settled' => Settled
    BY <2>5, <2>6, <2>7 DEF Settled
  <2>9. fetches' \subseteq Fetch
    BY <2>6, <2>7 DEF PageInv
  <2>10. \A k \in fetches' :
           /\ k.live => k.filter = filter
           /\ k.answer # None => k.answer \in Seq(Fits(k.filter)) /\ Len(k.answer) <= PageSize
    BY <2>1, <2>3, <2>6, <2>7 DEF PageInv
  <2> QED BY <2>5, <2>8, <2>9, <2>10 DEF PageInv, Fits
<1>6. ASSUME NEW g \in fetches, Show(g) PROVE PageInv'
  <2>1. /\ g.answer # None /\ fetches' = fetches \ {g}
        /\ list' = IF g.live THEN g.answer ELSE list
        /\ UNCHANGED <<filter, failed, clearing>>
    BY <1>6 DEF Show
  <2>2. /\ g.answer \in Seq(Fits(g.filter)) /\ Len(g.answer) <= PageSize
        /\ g.live => g.filter = filter
    BY <2>1 DEF PageInv
  <2>3. g.answer \in Seq(Item)
    <3>1. Fits(g.filter) \subseteq Item
      BY DEF Fits
    <3> QED BY <2>2, <3>1
  <2>4. Settled' => g.live \/ Settled
    BY <2>1 DEF Settled
  <2>5. CASE g.live
    BY <2>1, <2>2, <2>3, <2>5 DEF PageInv, Fits
  <2>6. CASE ~g.live
    BY <2>1, <2>4, <2>6 DEF PageInv, Fits
  <2> QED BY <2>5, <2>6
<1>7. ASSUME NEW g \in fetches, FetchFails(g) PROVE PageInv'
  <2>1. fetches' = fetches \ {g} /\ UNCHANGED <<filter, list, clearing>> /\ failed' = (failed \/ g.live)
    BY <1>7 DEF FetchFails
  <2>2. failed' \in BOOLEAN
    BY <2>1
  <2>3. Settled' => Settled
    BY <2>1 DEF Settled, PageInv
  <2> QED BY <2>1, <2>2, <2>3 DEF PageInv, Fits
<1>8. CASE ClearLogs \/ ClearAnswered
  <2>1. UNCHANGED <<filter, list, fetches>> /\ clearing' \in {"sent", "answered"} /\ failed' \in BOOLEAN
    BY <1>8 DEF ClearLogs, ClearAnswered, PageInv
  <2> QED BY <2>1 DEF PageInv, Settled, Fits
<1>9. CASE Cleared
  <2>1. UNCHANGED <<filter, fetches, failed>> /\ clearing' = "idle" /\ list' = <<>>
    BY <1>9 DEF Cleared
  <2>2. list' \in Seq(Item) /\ list' \in Seq(Fits(filter')) /\ Len(list') <= PageSize
    BY <2>1, Sizes
  <2> QED BY <2>1, <2>2 DEF PageInv, Fits
<1>10. CASE ClearFails
  <2>1. UNCHANGED <<filter, fetches, list>> /\ clearing' = "idle" /\ failed' = TRUE
    BY <1>10 DEF ClearFails
  <2> QED BY <2>1 DEF PageInv, Settled, Fits
<1>11. ASSUME NEW e \in Entries, Write(e) \/ WriteLog(e) \/ Insert(e) \/ InsertFails(e)
       PROVE  UNCHANGED <<filter, list, fetches, failed, clearing>>
  BY <1>11 DEF Write, WriteLog, Insert, InsertFails, page
<1> QED
  BY <1>1, <1>2, <1>3, <1>4, <1>5, <1>6, <1>7, <1>8, <1>9, <1>10, <1>11, StepKinds, OthersKeepPage
  DEF Writing, Deleting, Streaming, Showing
-----------------------------------------------------------------------------
(***************************************************************************)
(* The theorems.                                                           *)
(***************************************************************************)
LogInv == Typed /\ QueueInv /\ RowsInv /\ StreamInv /\ PageInv /\ OrderInv

LEMMA Initially == Init => LogInv
<1> SUFFICES ASSUME Init PROVE LogInv
  OBVIOUS
<1>1. Typed
  BY Sizes, LogAssumption DEF Init, Typed
<1>2. QueueInv
  BY Sizes DEF Init, QueueInv
<1>3. RowsInv
  BY DEF Init, RowsInv
<1>4. StreamInv
  BY Sizes DEF Init, StreamInv, TailInv, WireInv, SentOnce
<1>5. PageInv
  <2>1. filter \in Filters
    BY LogAssumption DEF Init
  <2>2. Asked(filter) \in Fetch /\ Asked(filter).filter = filter /\ Asked(filter).live
        /\ Asked(filter).answer = None
    BY <2>1 DEF Asked, Fetch
  <2>3. fetches = {Asked(filter)} /\ list = <<>> /\ failed = FALSE /\ clearing = "idle"
    BY DEF Init
  <2>4. list \in Seq(Item) /\ Len(list) <= PageSize
    BY <2>3, Sizes
  <2> QED BY <2>1, <2>2, <2>3, <2>4 DEF PageInv, Settled
<1>6. OrderInv
  BY DEF Init, OrderInv, Stored, PostedInOrder
<1> QED BY <1>1, <1>2, <1>3, <1>4, <1>5, <1>6 DEF LogInv

LEMMA Steps == LogInv /\ [Next]_vars => LogInv'
BY TypedSteps, QueueSteps, RowsSteps, StreamSteps, PageSteps, OrderSteps DEF LogInv, StreamInv

LEMMA Always == Spec => []LogInv
BY Initially, Steps, PTL DEF Spec

\* Whatever is written, deleted, lost or cancelled, the queue and the list keep within their sizes
\* and every part of the log has the shape it is read with (Client.queue, the page's 500 entries).
THEOREM LogTyped == Spec => []TypeOK
<1>1. LogInv => TypeOK
  <2> SUFFICES ASSUME LogInv PROVE TypeOK
    OBVIOUS
  <2>1. Typed /\ QueueInv /\ RowsInv /\ StreamInv /\ PageInv
    BY DEF LogInv
  <2>2. /\ filter \in Filters /\ failed \in BOOLEAN /\ clearing \in {"idle", "sent", "answered"}
        /\ list \in Seq(Item) /\ Len(list) <= PageSize
        /\ \A f \in fetches : f \in Fetch /\ (f.answer # None => Len(f.answer) <= PageSize)
    BY <2>1 DEF PageInv
  <2>3. /\ lastRow \in 0..MaxWrites /\ wire \in Seq(Item)
        /\ tail = None \/ (DOMAIN tail \subseteq RowIds /\ tail \in [DOMAIN tail -> Item])
    BY <2>1 DEF StreamInv, TailInv, WireInv
  <2>4. DOMAIN rows \subseteq RowIds /\ rows \in [DOMAIN rows -> Item] /\ Len(queue) <= QueueSize
    BY <2>1 DEF RowsInv, QueueInv
  <2> QED BY <2>1, <2>2, <2>3, <2>4 DEF TypeOK, Typed
<1> QED BY <1>1, Always, PTL

\* A stream sends no entry twice, whether its event or a read of the tail comes first, and whatever
\* rowids SQLite gives again (seen, app/api/logs/stream/route.ts).
THEOREM SentOnceAlways == Spec => []SentOnce
<1>1. LogInv => SentOnce
  BY DEF LogInv, StreamInv, WireInv
<1> QED BY <1>1, Always, PTL

\* A list shown without an error and with nothing under way belongs to the filter of the page,
\* whichever of its requests was answered last (fetchLogs, app/logs/page.tsx).
THEOREM ShownListFits == Spec => []FilterKept
<1>1. LogInv => FilterKept
  <2> SUFFICES ASSUME LogInv, Settled, NEW i \in DOMAIN list PROVE Matches(list[i].kind, filter)
    BY DEF FilterKept, Settled
  <2>1. list \in Seq(Fits(filter))
    BY DEF LogInv, PageInv
  <2>2. list[i] \in Fits(filter)
    BY <2>1
  <2> QED BY <2>2 DEF Fits
<1> QED BY <1>1, Always, PTL

\* As long as no POST has timed out, the entries of the Go core are in the table in the order in
\* which they were written, whatever is deleted between them (Client.run, internal/logging).
THEOREM StoredInOrder == Spec => []PostedInOrder
<1>1. LogInv => PostedInOrder
  <2> SUFFICES ASSUME LogInv, timeouts = 0 PROVE PostedInOrder
    BY DEF PostedInOrder
  <2> QED BY DEF LogInv, OrderInv
<1> QED BY <1>1, Always, PTL

\* While a connection is open, an entry that its event or the tail still has to bring is brought, or
\* deleted, or still awaited: no read of the tail passes it over (app/api/logs/stream/route.ts).
THEOREM TailSkipsNothing == Spec => NoneSkipped
<1>1. Init => CoversInv
  BY DEF Init, CoversInv
<1>2. LogInv /\ CoversInv /\ [Next]_vars => CoversInv'
  BY CoversSteps DEF LogInv
<1>3. LogInv /\ CoversInv /\ [Next]_vars =>
        [conn = "open" /\ conn' = "open" =>
           \A e \in Entries : Awaited(e) =>
             \/ Awaited(e)'
             \/ e \in seen'
             \/ \A r \in DOMAIN rows' : rows'[r].entry # e]_vars
  BY NoneSkippedNext DEF LogInv
<1> QED BY <1>1, <1>2, <1>3, Always, PTL DEF Spec, NoneSkipped
=============================================================================
