------------------------- MODULE CacheManagerProofs -------------------------
(***************************************************************************)
(* Theorems about CacheManager, for every value of its constants.          *)
(*                                                                         *)
(* TypeCorrect, LockOwned and EntryMovesForward hold whatever fails. The   *)
(* others need that some things do not fail, and these are the failures    *)
(* the code does not survive, not a convenience of the proof: when Redis   *)
(* runs a script or a DEL and the reply is lost, the code deletes a        *)
(* generation that is active (NoReplyLost); when the manifest cannot be    *)
(* read, a fill takes the entry for missing and replaces what it does not  *)
(* know.                                                                   *)
(***************************************************************************)
EXTENDS CacheManager, TLAPS

NoReplyLost == "lost" \notin Faults

\* None is not a manifest, so a variable that is not None is a whole record.
LEMMA NoneIsNoManifest == None \notin Manifest
BY CacheAssumption DEF CacheAssumption, Manifest, Gens, Chunks
-----------------------------------------------------------------------------
(***************************************************************************)
(* Types.  A worker that stages or publishes has a manifest to publish,    *)
(* and the chunk it writes next is one of that manifest's.                 *)
(***************************************************************************)
StagingTyped ==
  \A w \in Workers :
    /\ pc[w] \in {"write", "publish"} => new[w] \in Manifest
    /\ pc[w] = "write" => at[w] \in 1..new[w].chunks

TypeInv == TypeOK /\ StagingTyped

LEMMA TypeInvInit == Init => TypeInv
<1> SUFFICES ASSUME Init PROVE TypeInv
  OBVIOUS
<1> USE CacheAssumption DEF CacheAssumption, Init
<1>1. RedisTypes
  BY DEF RedisTypes, ChunkState
<1>2. MemoryTypes
  BY DEF MemoryTypes
<1>3. WorkerTypes
  BY DEF WorkerTypes, WorkerState
<1>4. ReaderTypes
  BY DEF ReaderTypes, ReaderState
<1>5. StagingTyped
  BY DEF StagingTyped
<1>6. QED
  BY <1>1, <1>2, <1>3, <1>4, <1>5 DEF TypeInv, TypeOK

\* Starting and ending an operation.
LEMMA StartTyped ==
  ASSUME TypeInv, NEW w \in Workers, NEW o, Start(w, o)
  PROVE  WorkerTypes' /\ StagingTyped'
BY CacheAssumption
DEF CacheAssumption, TypeInv, TypeOK, StagingTyped, WorkerTypes, WorkerState, Start

LEMMA StopTyped ==
  ASSUME TypeInv, NEW w \in Workers, Stop(w)
  PROVE  WorkerTypes' /\ StagingTyped'
BY DEF TypeInv, TypeOK, StagingTyped, WorkerTypes, WorkerState, Stop

LEMMA GiveUpTyped ==
  ASSUME TypeInv, NEW w \in Workers, GiveUp(w)
  PROVE  WorkerTypes' /\ StagingTyped'
<1>1. CASE op[w] = "refresh"
  BY <1>1 DEF TypeInv, TypeOK, StagingTyped, WorkerTypes, WorkerState, GiveUp
<1>2. CASE op[w] # "refresh"
  BY <1>2, StopTyped DEF GiveUp
<1>3. QED
  BY <1>1, <1>2

\* A step to a state in which nothing is staged.
LEMMA MoveTyped ==
  ASSUME TypeInv, NEW w \in Workers,
         NEW s \in WorkerState \ {"write", "publish"}, pc' = [pc EXCEPT ![w] = s],
         NEW v \in Manifest \cup {None}, victim' = [victim EXCEPT ![w] = v],
         NEW m \in Manifest \cup {None}, old' = [old EXCEPT ![w] = m],
         NEW b \in BOOLEAN, failed' = [failed EXCEPT ![w] = b],
         NEW n \in Nat, at' = [at EXCEPT ![w] = n],
         UNCHANGED <<op, new>>
  PROVE  WorkerTypes' /\ StagingTyped'
BY DEF TypeInv, TypeOK, StagingTyped, WorkerTypes

LEMMA UnpinTyped ==
  ASSUME TypeInv, NEW r \in Readers, Unpin(r),
         UNCHANGED <<registered, timer>>
  PROVE  ReaderTypes' /\ MemoryTypes'
<1>1. ReaderTypes'
  BY DEF TypeInv, TypeOK, ReaderTypes, ReaderState, Unpin
<1>2. leases' \in [Gens -> SUBSET Readers]
  BY DEF TypeInv, TypeOK, MemoryTypes, Unpin
<1>3. retired' \subseteq retired
  BY DEF Unpin
<1>4. QED
  BY <1>1, <1>2, <1>3 DEF TypeInv, TypeOK, MemoryTypes

LEMMA AfterChunkTyped ==
  ASSUME TypeInv, NEW w \in Workers, NEW here \in {"expire", "delete"},
         AfterChunk(w, here), UNCHANGED <<op, old, new, failed, victim>>
  PROVE  WorkerTypes' /\ StagingTyped'
BY DEF TypeInv, TypeOK, StagingTyped, WorkerTypes, WorkerState, AfterChunk

LEMMA SwitchTyped ==
  ASSUME TypeInv, NEW m \in Manifest, SwitchTo(m), lock' = lock
  PROVE  RedisTypes'
BY DEF TypeInv, TypeOK, RedisTypes, SwitchTo, ChunkState

LEMMA RetireTyped ==
  ASSUME TypeInv, NEW w \in Workers, NEW m \in Manifest, Retire(w, m),
         UNCHANGED <<op, old, new, failed, leases>>,
         registered' \in BOOLEAN, timer' \in BOOLEAN
  PROVE  WorkerTypes' /\ StagingTyped' /\ MemoryTypes'
BY DEF TypeInv, TypeOK, StagingTyped, WorkerTypes, MemoryTypes, WorkerState, Retire
LEMMA TypeInvNext == TypeInv /\ [Next]_vars => TypeInv'
<1> SUFFICES ASSUME TypeInv, [Next]_vars PROVE TypeInv'
  OBVIOUS
<1> USE CacheAssumption
    DEF CacheAssumption, TypeInv, TypeOK,
        redisVars, memoryVars, workerVars, readerVars
<1> DEFINE Booked == nextGen' \in 1..(MaxGen + 1) /\ crashes' \in 0..MaxCrashes
<1>1. CASE UNCHANGED vars
  BY <1>1 DEF vars, RedisTypes, MemoryTypes, WorkerTypes, ReaderTypes, StagingTyped
<1>2. ASSUME NEW w \in Workers, Begin(w) PROVE TypeInv'
  <2>1. \E o : Start(w, o)
    BY <1>2 DEF Begin, BeginWarm, BeginPurge, BeginRefresh, BeginRemove
  <2>2. WorkerTypes' /\ StagingTyped'
    BY <2>1, StartTyped
  <2>3. MemoryTypes'
    BY <1>2 DEF Begin, BeginWarm, BeginPurge, BeginRefresh, BeginRemove, MemoryTypes
  <2>4. RedisTypes' /\ ReaderTypes' /\ Booked
    BY <1>2 DEF Begin, BeginWarm, BeginPurge, BeginRefresh, BeginRemove,
                RedisTypes, ReaderTypes
  <2>5. QED
    BY <2>2, <2>3, <2>4
<1>3. ASSUME NEW w \in Workers, Acquire(w) PROVE TypeInv'
  <2>1. WorkerTypes' /\ StagingTyped'
    <3>1. CASE GiveUp(w)
      BY <3>1, GiveUpTyped
    <3>2. CASE ~GiveUp(w)
      BY <1>3, <3>2 DEF Acquire, WorkerTypes, WorkerState, StagingTyped
    <3>3. QED
      BY <3>1, <3>2
  <2>2. RedisTypes'
    BY <1>3 DEF Acquire, RedisTypes
  <2>3. MemoryTypes' /\ ReaderTypes' /\ Booked
    BY <1>3 DEF Acquire, MemoryTypes, ReaderTypes
  <2>4. QED
    BY <2>1, <2>2, <2>3
<1>4. ASSUME NEW w \in Workers, Load(w) PROVE TypeInv'
  <2>1. WorkerTypes' /\ StagingTyped'
    <3>1. /\ old = [old EXCEPT ![w] = old[w]]
          /\ failed = [failed EXCEPT ![w] = failed[w]]
          /\ victim = [victim EXCEPT ![w] = victim[w]]
          /\ at = [at EXCEPT ![w] = at[w]]
          /\ old[w] \in Manifest \cup {None}
          /\ victim[w] \in Manifest \cup {None}
          /\ failed[w] \in BOOLEAN
          /\ at[w] \in Nat
          /\ manifest \in Manifest \cup {None}
      BY DEF WorkerTypes, RedisTypes
    <3>2. "fetch" \in WorkerState \ {"write", "publish"}
          /\ "release" \in WorkerState \ {"write", "publish"}
      BY DEF WorkerState
    <3>3. UNCHANGED <<op, new, victim, at>>
      BY <1>4 DEF Load
    <3>4. CASE UNCHANGED <<old, failed>> /\ pc' = [pc EXCEPT ![w] = "release"]
      BY <3>1, <3>2, <3>3, <3>4, MoveTyped
    <3>5. CASE UNCHANGED <<old, failed>> /\ pc' = [pc EXCEPT ![w] = "fetch"]
      BY <3>1, <3>2, <3>3, <3>5, MoveTyped
    <3>6. CASE /\ old' = [old EXCEPT ![w] = manifest]
               /\ pc' = [pc EXCEPT ![w] = "fetch"]
               /\ UNCHANGED failed
      BY <3>1, <3>2, <3>3, <3>6, MoveTyped
    <3>7. CASE Fail(w) /\ UNCHANGED old
      BY <3>1, <3>2, <3>3, <3>7, MoveTyped DEF Fail
    <3>8. QED
      BY <1>4, <3>4, <3>5, <3>6, <3>7 DEF Load
  <2>2. RedisTypes' /\ MemoryTypes' /\ ReaderTypes' /\ Booked
    BY <1>4 DEF Load, RedisTypes, MemoryTypes, ReaderTypes
  <2>3. QED
    BY <2>1, <2>2
<1>5. ASSUME NEW w \in Workers, Fetch(w) PROVE TypeInv'
  <2>1. RedisTypes' /\ MemoryTypes' /\ ReaderTypes'
    BY <1>5 DEF Fetch, RedisTypes, MemoryTypes, ReaderTypes
  <2>2. CASE Fail(w) /\ UNCHANGED <<new, at, nextGen>>
    BY <1>5, <2>1, <2>2 DEF Fetch, Fail, WorkerTypes, WorkerState, StagingTyped
  <2>3. ASSUME nextGen \in Gens,
               NEW n \in Chunks, NEW i \in Items,
               new' = [new EXCEPT ![w] = [gen |-> nextGen, chunks |-> n, items |-> i]],
               nextGen' = nextGen + 1,
               pc' = [pc EXCEPT ![w] = "write"],
               at' = [at EXCEPT ![w] = 1],
               UNCHANGED failed
        PROVE  TypeInv'
    <3>1. [gen |-> nextGen, chunks |-> n, items |-> i] \in Manifest
      BY <2>3 DEF Manifest
    <3>2. WorkerTypes'
      BY <1>5, <2>3, <3>1 DEF Fetch, WorkerTypes, WorkerState
    <3>3. StagingTyped'
      BY <2>3, <3>1 DEF StagingTyped, WorkerTypes, Chunks
    <3>4. Booked
      BY <1>5, <2>3 DEF Fetch, Gens
    <3>5. QED
      BY <2>1, <3>2, <3>3, <3>4
  <2>4. QED
    BY <1>5, <2>2, <2>3 DEF Fetch
<1>6. ASSUME NEW w \in Workers, WriteChunk(w) PROVE TypeInv'
  <2>1. new[w] \in Manifest /\ at[w] \in 1..new[w].chunks
    BY <1>6 DEF WriteChunk, StagingTyped
  <2>2. RedisTypes'
    BY <1>6 DEF WriteChunk, RedisTypes, ChunkState
  <2>3. MemoryTypes' /\ ReaderTypes' /\ Booked
    BY <1>6 DEF WriteChunk, MemoryTypes, ReaderTypes
  <2>4. WorkerTypes' /\ StagingTyped'
    <3>1. UNCHANGED <<op, old, new>>
      BY <1>6 DEF WriteChunk
    <3>2. CASE /\ at' = [at EXCEPT ![w] = at[w] + 1]
               /\ pc' = [pc EXCEPT ![w] = IF at[w] = new[w].chunks THEN "publish" ELSE "write"]
               /\ UNCHANGED <<victim, failed>>
      BY <2>1, <3>1, <3>2 DEF WorkerTypes, WorkerState, StagingTyped, Manifest, Chunks
    <3>3. CASE /\ failed' = [failed EXCEPT ![w] = TRUE]
               /\ pc' = [pc EXCEPT ![w] = "release"]
               /\ UNCHANGED <<victim, at>>
      BY <3>1, <3>3 DEF WorkerTypes, WorkerState, StagingTyped
    <3>4. CASE /\ at[w] # 1
               /\ failed' = [failed EXCEPT ![w] = TRUE]
               /\ pc' = [pc EXCEPT ![w] = "delete"]
               /\ victim' = [victim EXCEPT ![w] = [new[w] EXCEPT !.chunks = at[w] - 1]]
               /\ at' = [at EXCEPT ![w] = 1]
      <4>1. [new[w] EXCEPT !.chunks = at[w] - 1] \in Manifest
        BY <2>1, <3>4 DEF Manifest, Chunks
      <4>2. QED
        BY <3>1, <3>4, <4>1 DEF WorkerTypes, WorkerState, StagingTyped
    <3>5. QED
      BY <1>6, <3>2, <3>3, <3>4 DEF WriteChunk
  <2>5. QED
    BY <2>2, <2>3, <2>4
<1>7. ASSUME NEW w \in Workers, Publish(w) PROVE TypeInv'
  <2>1. new[w] \in Manifest
    BY <1>7 DEF Publish, StagingTyped
  <2>2. RedisTypes'
    BY <1>7, <2>1, SwitchTyped DEF Publish
  <2>3. ReaderTypes' /\ Booked
    BY <1>7 DEF Publish, ReaderTypes
  <2>4. WorkerTypes' /\ StagingTyped' /\ MemoryTypes'
    <3>1. CASE old[w] # None
      BY <1>7, <3>1, RetireTyped DEF Publish, WorkerTypes, MemoryTypes
    <3>2. CASE old[w] = None
      BY <1>7, <3>2 DEF Publish, WorkerTypes, WorkerState, StagingTyped, MemoryTypes
    <3>3. QED
      BY <3>1, <3>2
  <2>5. QED
    BY <2>2, <2>3, <2>4
<1>8. ASSUME NEW w \in Workers, PublishFails(w) PROVE TypeInv'
  <2>1. new[w] \in Manifest
    BY <1>8 DEF PublishFails, StagingTyped
  <2>2. RedisTypes'
    BY <1>8, <2>1, SwitchTyped DEF PublishFails, RedisTypes
  <2>3. MemoryTypes' /\ ReaderTypes' /\ Booked
    BY <1>8 DEF PublishFails, MemoryTypes, ReaderTypes
  <2>4. WorkerTypes' /\ StagingTyped'
    BY <1>8, <2>1 DEF PublishFails, WorkerTypes, WorkerState, StagingTyped
  <2>5. QED
    BY <2>2, <2>3, <2>4
<1>9. ASSUME NEW w \in Workers, ExpireChunk(w) PROVE TypeInv'
  <2>1. WorkerTypes' /\ StagingTyped'
    BY <1>9, AfterChunkTyped DEF ExpireChunk
  <2>2. RedisTypes'
    BY <1>9 DEF ExpireChunk, RedisTypes, ChunkState
  <2>3. MemoryTypes' /\ ReaderTypes' /\ Booked
    BY <1>9 DEF ExpireChunk, MemoryTypes, ReaderTypes
  <2>4. QED
    BY <2>1, <2>2, <2>3
<1>10. ASSUME NEW w \in Workers, DeleteChunk(w) PROVE TypeInv'
  <2>1. WorkerTypes' /\ StagingTyped'
    BY <1>10, AfterChunkTyped DEF DeleteChunk
  <2>2. RedisTypes'
    BY <1>10 DEF DeleteChunk, RedisTypes, ChunkState
  <2>3. MemoryTypes' /\ ReaderTypes' /\ Booked
    BY <1>10 DEF DeleteChunk, MemoryTypes, ReaderTypes
  <2>4. QED
    BY <2>1, <2>2, <2>3
<1>11. ASSUME NEW w \in Workers, Schedule(w) PROVE TypeInv'
  <2>1. WorkerTypes' /\ StagingTyped'
    BY <1>11 DEF Schedule, WorkerTypes, WorkerState, StagingTyped
  <2>2. RedisTypes' /\ MemoryTypes' /\ ReaderTypes' /\ Booked
    BY <1>11 DEF Schedule, RedisTypes, MemoryTypes, ReaderTypes
  <2>3. QED
    BY <2>1, <2>2
<1>12. ASSUME NEW w \in Workers, RemoveEntry(w) PROVE TypeInv'
  <2>1. RedisTypes' /\ ReaderTypes' /\ Booked
    BY <1>12 DEF RemoveEntry, RedisTypes, ReaderTypes
  <2>2. registered' \in BOOLEAN /\ timer' \in BOOLEAN /\ leases' = leases
    BY <1>12 DEF RemoveEntry, MemoryTypes
  <2>3. WorkerTypes' /\ StagingTyped' /\ MemoryTypes'
    <3>1. CASE \E m \in Manifest : Retire(w, m) /\ UNCHANGED failed
      BY <1>12, <2>2, <3>1, RetireTyped DEF RemoveEntry
    <3>2. CASE Fail(w) /\ UNCHANGED <<retired, victim, at>>
      BY <1>12, <2>2, <3>2
      DEF RemoveEntry, Fail, WorkerTypes, WorkerState, StagingTyped, MemoryTypes
    <3>3. CASE /\ pc' = [pc EXCEPT ![w] = "release"]
               /\ UNCHANGED <<retired, victim, at, failed>>
      BY <1>12, <2>2, <3>3
      DEF RemoveEntry, WorkerTypes, WorkerState, StagingTyped, MemoryTypes
    <3>4. QED
      BY <1>12, <3>1, <3>2, <3>3 DEF RemoveEntry, RedisTypes
  <2>4. QED
    BY <2>1, <2>3
<1>13. ASSUME NEW w \in Workers, Release(w) PROVE TypeInv'
  <2>1. WorkerTypes' /\ StagingTyped'
    BY <1>13, GiveUpTyped, StopTyped DEF Release
  <2>2. RedisTypes'
    BY <1>13 DEF Release, RedisTypes
  <2>3. MemoryTypes' /\ ReaderTypes' /\ Booked
    BY <1>13 DEF Release, MemoryTypes, ReaderTypes
  <2>4. QED
    BY <2>1, <2>2, <2>3
<1>14. ASSUME NEW w \in Workers, Retry(w) PROVE TypeInv'
  <2>1. WorkerTypes' /\ StagingTyped'
    BY <1>14, StopTyped DEF Retry
  <2>2. RedisTypes' /\ MemoryTypes' /\ ReaderTypes' /\ Booked
    BY <1>14 DEF Retry, RedisTypes, MemoryTypes, ReaderTypes
  <2>3. QED
    BY <2>1, <2>2
<1>15. ASSUME NEW r \in Readers, Get(r) PROVE TypeInv'
  <2>1. WorkerTypes' /\ StagingTyped' /\ RedisTypes' /\ Booked
    BY <1>15 DEF Get, WorkerTypes, StagingTyped, RedisTypes
  <2>2. MemoryTypes'
    BY <1>15 DEF Get, MemoryTypes
  <2>3. ReaderTypes'
    BY <1>15 DEF Get, ReaderTypes, ReaderState, RedisTypes
  <2>4. QED
    BY <2>1, <2>2, <2>3
<1>16. ASSUME NEW r \in Readers, ReadChunk(r) \/ Hit(r) \/ ReaderDeletes(r)
       PROVE TypeInv'
  <2>1. WorkerTypes' /\ StagingTyped' /\ MemoryTypes' /\ Booked
    BY <1>16 DEF ReadChunk, Hit, ReaderDeletes, WorkerTypes, StagingTyped, MemoryTypes
  <2>2. RedisTypes'
    BY <1>16 DEF ReadChunk, Hit, ReaderDeletes, RedisTypes, ChunkState
  <2>3. ReaderTypes'
    BY <1>16 DEF ReadChunk, Hit, ReaderDeletes, ReaderTypes, ReaderState
  <2>4. QED
    BY <2>1, <2>2, <2>3
<1>17. ASSUME NEW r \in Readers, ReadFails(r) \/ Done(r) PROVE TypeInv'
  <2>1. ReaderTypes' /\ MemoryTypes'
    BY <1>17, UnpinTyped DEF ReadFails, Done
  <2>2. WorkerTypes' /\ StagingTyped' /\ RedisTypes' /\ Booked
    BY <1>17 DEF ReadFails, Done, WorkerTypes, StagingTyped, RedisTypes
  <2>3. QED
    BY <2>1, <2>2
<1>18. ASSUME NEW r \in Readers, NEW w \in Workers, Miss(r, w) PROVE TypeInv'
  <2>1. WorkerTypes' /\ StagingTyped'
    BY <1>18, StartTyped DEF Miss
  <2>2. RedisTypes' /\ MemoryTypes' /\ ReaderTypes' /\ Booked
    BY <1>18 DEF Miss, RedisTypes, MemoryTypes, ReaderTypes, ReaderState
  <2>3. QED
    BY <2>1, <2>2
<1>19. ASSUME NEW g \in Gens, NEW c \in Chunks, ChunkExpires(g, c) PROVE TypeInv'
  <2>1. WorkerTypes' /\ StagingTyped' /\ MemoryTypes' /\ ReaderTypes' /\ Booked
    BY <1>19 DEF ChunkExpires, WorkerTypes, StagingTyped, MemoryTypes, ReaderTypes
  <2>2. RedisTypes'
    BY <1>19 DEF ChunkExpires, RedisTypes, ChunkState
  <2>3. QED
    BY <2>1, <2>2
<1>20. CASE LockExpires
  <2>1. WorkerTypes' /\ StagingTyped' /\ MemoryTypes' /\ ReaderTypes' /\ Booked
    BY <1>20 DEF LockExpires, WorkerTypes, StagingTyped, MemoryTypes, ReaderTypes
  <2>2. RedisTypes'
    BY <1>20 DEF LockExpires, RedisTypes
  <2>3. QED
    BY <2>1, <2>2
<1>21. CASE Crash
  <2>1. WorkerTypes' /\ StagingTyped'
    BY <1>21 DEF Crash, ProcessStarts, WorkerTypes, WorkerState, StagingTyped
  <2>2. registered' \in BOOLEAN /\ timer' \in BOOLEAN
    BY <1>21 DEF Crash
  <2>3. MemoryTypes'
    BY <1>21, <2>2 DEF Crash, ProcessStarts, MemoryTypes
  <2>4. ReaderTypes'
    BY <1>21 DEF Crash, ProcessStarts, ReaderTypes, ReaderState
  <2>5. RedisTypes' /\ Booked
    BY <1>21 DEF Crash, RedisTypes
  <2>6. QED
    BY <2>1, <2>3, <2>4, <2>5
<1>22. QED
  BY <1>1, <1>2, <1>3, <1>4, <1>5, <1>6, <1>7, <1>8, <1>9, <1>10, <1>11, <1>12,
     <1>13, <1>14, <1>15, <1>16, <1>17, <1>18, <1>19, <1>20, <1>21
  DEF Next, Worker, Replacing, Reader

\* Every variable keeps its type, whatever fails (the state of Manager and of
\* its Redis keys).
THEOREM TypeCorrect == Spec => []TypeOK
<1>1. Spec => []TypeInv
  BY TypeInvInit, TypeInvNext, PTL DEF Spec
<1>2. TypeInv => TypeOK
  BY DEF TypeInv
<1>3. QED
  BY <1>1, <1>2, PTL
-----------------------------------------------------------------------------
(***************************************************************************)
(* The lock.  A step either leaves the lock and who is in its critical     *)
(* section alone, or is an acquisition of a free lock, or ends the         *)
(* section before (or with) the release.                                   *)
(***************************************************************************)
LEMMA OwnsLockNext == TypeOK /\ OwnsLock /\ [Next]_vars => OwnsLock'
<1> SUFFICES ASSUME TypeOK, OwnsLock, [Next]_vars PROVE OwnsLock'
  OBVIOUS
<1> USE DEF TypeOK, WorkerTypes, OwnsLock, Critical
<1>1. CASE UNCHANGED <<lock, pc>>
  BY <1>1
<1>2. ASSUME NEW w \in Workers, Begin(w) \/ Retry(w) PROVE OwnsLock'
  BY <1>2 DEF Begin, BeginWarm, BeginPurge, BeginRefresh, BeginRemove, Start,
              Retry, Stop, redisVars
<1>3. ASSUME NEW w \in Workers, Acquire(w) PROVE OwnsLock'
  <2>1. pc' \in [Workers -> WorkerState] /\ \A v \in Workers \ {w} : pc'[v] = pc[v]
    BY <1>3 DEF Acquire, GiveUp, Stop, WorkerState
  <2>2. \/ lock = None /\ lock' = w
        \/ lock' = lock /\ pc'[w] \notin Critical
    BY <1>3 DEF Acquire, GiveUp, Stop
  <2>3. lock = None => \A v \in Workers : pc[v] \notin Critical
    BY CacheAssumption DEF CacheAssumption
  <2>4. QED
    BY <2>1, <2>2, <2>3
<1>4. ASSUME NEW w \in Workers, Release(w) PROVE OwnsLock'
  <2>1. pc[w] = "release" /\ lock = w
    BY <1>4 DEF Release
  <2>2. pc'[w] \notin Critical /\ \A v \in Workers \ {w} : pc'[v] = pc[v]
    BY <1>4 DEF Release, GiveUp, Stop
  <2>3. \A v \in Workers \ {w} : pc[v] \notin Critical
    BY <2>1
  <2>4. QED
    BY <2>2, <2>3
<1>5. ASSUME NEW w \in Workers, Replacing(w) PROVE OwnsLock'
  <2>1. pc[w] \in Critical /\ lock' = lock
    BY <1>5 DEF Replacing, Load, Fetch, WriteChunk, Publish, PublishFails, ExpireChunk,
                DeleteChunk, Schedule, RemoveEntry, redisVars
  <2>2. \A v \in Workers \ {w} : pc'[v] = pc[v]
    BY <1>5 DEF Replacing, Load, Fail, Fetch, WriteChunk, Publish, Retire, PublishFails,
                ExpireChunk, DeleteChunk, AfterChunk, Schedule, RemoveEntry
  <2>3. QED
    BY <2>1, <2>2
<1>6. ASSUME NEW r \in Readers, Get(r) \/ Reader(r) PROVE OwnsLock'
  <2>1. CASE \E w \in Workers : Miss(r, w)
    BY <2>1 DEF Miss, Start, redisVars
  <2>2. CASE ~\E w \in Workers : Miss(r, w)
    BY <1>1, <1>6, <2>2 DEF Get, Reader, ReadChunk, ReadFails, Hit, Done, ReaderDeletes,
                            redisVars, workerVars
  <2>3. QED
    BY <2>1, <2>2
<1>7. CASE LockExpires
  BY <1>7 DEF LockExpires, LockTTLElapsed, workerVars
<1>8. CASE Crash
  BY <1>8 DEF Crash, ProcessStarts
<1>9. CASE UNCHANGED vars \/ \E g \in Gens, c \in Chunks : ChunkExpires(g, c)
  BY <1>1, <1>9 DEF ChunkExpires, vars, redisVars, workerVars
<1>10. QED
  BY <1>2, <1>3, <1>4, <1>5, <1>6, <1>7, <1>8, <1>9 DEF Next, Worker

\* Two operations on one entry never fetch, stage or publish it at once, however
\* acquire, release and the lock's TTL interleave (acquire, release).
THEOREM LockOwned == Spec => []OwnsLock
<1>1. Init => OwnsLock
  BY DEF Init, OwnsLock, Critical
<1>2. QED
  BY <1>1, TypeCorrect, OwnsLockNext, PTL DEF Spec
-----------------------------------------------------------------------------
(***************************************************************************)
(* Reads and the active entry.  ActiveComplete and PinnedReadable are not  *)
(* inductive: they need to know which generation each party may touch.     *)
(***************************************************************************)
Holding == {"reading", "hit", "serving"}

\* The manifests the state mentions: every one is of a generation that was
\* handed out.
OldGenerations ==
  /\ manifest # None => manifest.gen < nextGen
  /\ \A m \in retired : m.gen < nextGen
  /\ \A r \in Readers : pinned[r] # None => pinned[r].gen < nextGen

\* A generation being staged is its writer's own.
StagingPrivate ==
  \A w \in Workers : pc[w] \in {"write", "publish"} =>
    /\ new[w].gen < nextGen
    /\ manifest # None => manifest.gen # new[w].gen
    /\ \A m \in retired : m.gen # new[w].gen
    /\ \A r \in Readers : rpc[r] \in Holding \cup {"cleanup"} =>
         pinned[r].gen # new[w].gen

\* A replacement that found an entry finds it active until it publishes.
OldActive ==
  \A w \in Workers :
    /\ pc[w] \in {"idle", "acquire", "load"} => old[w] = None
    /\ pc[w] \in {"fetch", "write", "publish"} /\ old[w] # None => old[w] = manifest

\* Nobody deletes or expires what is active or what is being read.
VictimsFree ==
  \A w \in Workers :
    /\ pc[w] \in {"expire", "delete"} =>
         /\ victim[w] # None
         /\ manifest # None => manifest.gen # victim[w].gen
    /\ pc[w] = "delete" =>
         \A r \in Readers : rpc[r] \in Holding => pinned[r].gen # victim[w].gen

CleanupsFree ==
  \A r \in Readers : rpc[r] = "cleanup" =>
    /\ manifest # None => manifest.gen # pinned[r].gen
    /\ \A q \in Readers : rpc[q] \in Holding => pinned[q].gen # pinned[r].gen

RetiredInactive ==
  \A m \in retired : manifest # None => manifest.gen # m.gen

\* The reader counts are the requests that hold the generation.
LeasesExact ==
  \A r \in Readers :
    /\ rpc[r] \in Holding \cup {"cleanup"} => pinned[r] # None
    /\ \A g \in Gens : r \in leases[g] <=> rpc[r] \in Holding /\ pinned[r].gen = g

\* What is read is stored, and not with the staging TTL.
ReadsStored ==
  \A r \in Readers : rpc[r] = "reading" =>
    /\ rat[r] \in 1..pinned[r].chunks
    /\ \A c \in 1..pinned[r].chunks : store[pinned[r].gen][c] \in {"live", "retiring"}

RefsInv ==
  /\ OldGenerations
  /\ StagingPrivate
  /\ OldActive
  /\ VictimsFree
  /\ CleanupsFree
  /\ RetiredInactive
  /\ LeasesExact

SafeInv == RefsInv /\ ReadsStored /\ ActiveComplete

LEMMA SafeInvInit == Init => SafeInv
BY DEF Init, SafeInv, RefsInv, OldGenerations, StagingPrivate, OldActive, VictimsFree,
       CleanupsFree, RetiredInactive, LeasesExact, ReadsStored, ActiveComplete, Holding

\* Only the worker that holds the lock is in its critical section.
LEMMA Alone ==
  ASSUME OwnsLock, NEW w \in Workers, pc[w] \in Critical
  PROVE  \A v \in Workers \ {w} : pc[v] \notin Critical
BY DEF OwnsLock

\* A worker that moves without staging, publishing or deleting anything.
LEMMA QuietWorker ==
  ASSUME TypeInv, SafeInv, NEW w \in Workers,
         UNCHANGED <<manifest, store, leases, retired, rpc, pinned, rat, nextGen>>,
         \A v \in Workers \ {w} :
           pc'[v] = pc[v] /\ old'[v] = old[v] /\ new'[v] = new[v] /\ victim'[v] = victim[v],
         pc'[w] \notin {"write", "publish", "expire", "delete"},
         pc'[w] \in {"idle", "acquire", "load"} => old'[w] = None,
         pc'[w] = "fetch" => old'[w] \in {None, manifest}
  PROVE  SafeInv'
<1> USE DEF TypeInv, TypeOK, WorkerTypes, ReaderTypes, SafeInv, RefsInv
<1>1. OldGenerations' /\ CleanupsFree' /\ RetiredInactive' /\ LeasesExact'
  BY DEF OldGenerations, CleanupsFree, RetiredInactive, LeasesExact, Holding
<1>2. ReadsStored' /\ ActiveComplete'
  BY DEF ReadsStored, ActiveComplete
<1>3. StagingPrivate'
  BY DEF StagingPrivate, Holding
<1>4. OldActive'
  BY DEF OldActive
<1>5. VictimsFree'
  BY DEF VictimsFree, Holding
<1>6. QED
  BY <1>1, <1>2, <1>3, <1>4, <1>5

\* The publish script touches the new generation only.
LEMMA Switched ==
  ASSUME TypeInv, NEW m \in Manifest, SwitchTo(m)
  PROVE  /\ \A g \in Gens \ {m.gen} : store'[g] = store[g]
         /\ \A c \in 1..m.chunks : store'[m.gen][c] = "live"
<1>1. m.gen \in Gens /\ 1..m.chunks \subseteq Chunks
  BY CacheAssumption DEF CacheAssumption, Manifest, Chunks
<1>2. store'[m.gen] = [c \in Chunks |-> IF c <= m.chunks THEN "live" ELSE store[m.gen][c]]
  BY <1>1 DEF SwitchTo, TypeInv, TypeOK, RedisTypes
<1>3. QED
  BY <1>1, <1>2 DEF SwitchTo, TypeInv, TypeOK, RedisTypes

LEMMA SafeInvNext ==
  ASSUME NoReplyLost, TypeInv, TypeInv', OwnsLock, SafeInv, [Next]_vars
  PROVE  SafeInv'
<1> USE NoneIsNoManifest
    DEF redisVars, memoryVars, workerVars, readerVars
<1>1. CASE UNCHANGED vars \/ LockExpires
  BY <1>1
  DEF vars, LockExpires, SafeInv, RefsInv, OldGenerations, StagingPrivate, OldActive, VictimsFree,
      CleanupsFree, RetiredInactive, LeasesExact, ReadsStored, ActiveComplete, Holding
<1>2. ASSUME NEW w \in Workers, Begin(w) \/ Acquire(w) \/ Load(w) \/ Schedule(w)
                                \/ Release(w) \/ Retry(w)
      PROVE  SafeInv'
  <2>1. UNCHANGED <<manifest, store, leases, retired, rpc, pinned, rat, nextGen>>
    BY <1>2 DEF Begin, BeginWarm, BeginPurge, BeginRefresh, BeginRemove, Acquire, Load,
                Schedule, Release, Retry
  <2>2. \A v \in Workers \ {w} :
           pc'[v] = pc[v] /\ old'[v] = old[v] /\ new'[v] = new[v] /\ victim'[v] = victim[v]
    BY <1>2 DEF Begin, BeginWarm, BeginPurge, BeginRefresh, BeginRemove, Start, Acquire,
                GiveUp, Stop, Load, Fail, Schedule, Release, Retry, TypeInv, TypeOK, WorkerTypes
  <2>3. pc'[w] \notin {"write", "publish", "expire", "delete"}
    BY <1>2 DEF Begin, BeginWarm, BeginPurge, BeginRefresh, BeginRemove, Start, Acquire,
                GiveUp, Stop, Load, Fail, Schedule, Release, Retry, TypeInv, TypeOK, WorkerTypes
  <2>4. pc'[w] \in {"idle", "acquire", "load"} => old'[w] = None
    BY <1>2 DEF Begin, BeginWarm, BeginPurge, BeginRefresh, BeginRemove, Start, Acquire,
                GiveUp, Stop, Load, Fail, Schedule, Release, Retry, TypeInv, TypeOK, WorkerTypes,
                SafeInv, RefsInv, OldActive
  <2>5. pc'[w] = "fetch" => old'[w] \in {None, manifest}
    BY <1>2 DEF Begin, BeginWarm, BeginPurge, BeginRefresh, BeginRemove, Start, Acquire,
                GiveUp, Stop, Load, Fail, Schedule, Release, Retry, TypeInv, TypeOK, WorkerTypes,
                SafeInv, RefsInv, OldActive
  <2>6. QED
    BY <2>1, <2>2, <2>3, <2>4, <2>5, QuietWorker
<1>3. ASSUME NEW w \in Workers, Fetch(w) PROVE SafeInv'
  <2>1. CASE Fail(w) /\ UNCHANGED <<new, at, nextGen>>
    BY <1>3, <2>1, QuietWorker DEF Fetch, Fail, TypeInv, TypeOK, WorkerTypes
  <2>2. CASE /\ \E n \in Chunks, i \in Items :
                  new' = [new EXCEPT ![w] = [gen |-> nextGen, chunks |-> n, items |-> i]]
             /\ nextGen' = nextGen + 1
             /\ pc' = [pc EXCEPT ![w] = "write"]
    <3>1. /\ new'[w].gen = nextGen
          /\ nextGen' = nextGen + 1
          /\ pc' = [pc EXCEPT ![w] = "write"]
          /\ \A v \in Workers \ {w} : new'[v] = new[v]
      BY <2>2 DEF TypeInv, TypeOK, WorkerTypes
    <3>2. UNCHANGED <<redisVars, memoryVars, old, victim, readerVars>>
      BY <1>3 DEF Fetch
    <3>3. OldGenerations'
      BY <3>1, <3>2 DEF SafeInv, RefsInv, OldGenerations, TypeInv, TypeOK, RedisTypes, Manifest,
                        Gens, ReaderTypes, MemoryTypes
    <3>4. StagingPrivate'
      BY <3>1, <3>2, <1>3
      DEF Fetch, SafeInv, RefsInv, OldGenerations, StagingPrivate, LeasesExact, Holding,
          TypeInv, TypeOK, WorkerTypes, StagingTyped, Manifest, Gens, ReaderTypes
    <3>5. OldActive' /\ VictimsFree'
      BY <3>1, <3>2, <1>3 DEF Fetch, SafeInv, RefsInv, OldActive, VictimsFree, Holding,
                              TypeInv, TypeOK, WorkerTypes
    <3>6. CleanupsFree' /\ RetiredInactive' /\ LeasesExact' /\ ReadsStored' /\ ActiveComplete'
      BY <3>2 DEF SafeInv, RefsInv, CleanupsFree, RetiredInactive, LeasesExact, ReadsStored,
                  ActiveComplete, Holding
    <3>7. QED
      BY <3>3, <3>4, <3>5, <3>6 DEF SafeInv, RefsInv
  <2>3. QED
    BY <1>3, <2>1, <2>2 DEF Fetch
<1>4. ASSUME NEW w \in Workers, WriteChunk(w) PROVE SafeInv'
  <2>1. /\ UNCHANGED <<manifest, memoryVars, op, old, new, readerVars, nextGen>>
        /\ pc[w] = "write"
        /\ new[w] \in Manifest
    BY <1>4 DEF WriteChunk, TypeInv, StagingTyped
  <2>2. /\ pc'[w] \in {"write", "publish", "release", "delete"}
        /\ \A v \in Workers \ {w} : pc'[v] = pc[v] /\ victim'[v] = victim[v]
        /\ pc'[w] = "delete" => victim'[w] # None /\ victim'[w].gen = new[w].gen
    <3>1. CASE /\ pc' = [pc EXCEPT ![w] = IF at[w] = new[w].chunks THEN "publish" ELSE "write"]
               /\ UNCHANGED <<victim, failed>>
      BY <3>1 DEF TypeInv, TypeOK, WorkerTypes
    <3>2. CASE pc' = [pc EXCEPT ![w] = "release"] /\ UNCHANGED <<victim, at>>
      BY <3>2 DEF TypeInv, TypeOK, WorkerTypes
    <3>3. CASE /\ at[w] # 1
               /\ pc' = [pc EXCEPT ![w] = "delete"]
               /\ victim' = [victim EXCEPT ![w] = [new[w] EXCEPT !.chunks = at[w] - 1]]
      <4>1. [new[w] EXCEPT !.chunks = at[w] - 1].gen = new[w].gen
        BY <2>1 DEF Manifest
      <4>2. pc'[w] = "delete" /\ victim'[w] = [new[w] EXCEPT !.chunks = at[w] - 1]
        BY <3>3 DEF TypeInv, TypeOK, WorkerTypes
      <4>3. victim'[w] # None
        <5>1. at[w] \in 1..new[w].chunks
          BY <2>1 DEF TypeInv, StagingTyped
        <5>2. [new[w] EXCEPT !.chunks = at[w] - 1] \in Manifest
          BY <2>1, <3>3, <5>1, CacheAssumption DEF CacheAssumption, Manifest, Chunks
        <5>3. QED
          BY <4>2, <5>2
      <4>4. \A v \in Workers \ {w} : pc'[v] = pc[v] /\ victim'[v] = victim[v]
        BY <3>3 DEF TypeInv, TypeOK, WorkerTypes
      <4>5. QED
        BY <4>1, <4>2, <4>3, <4>4
    <3>4. QED
      BY <1>4, <3>1, <3>2, <3>3 DEF WriteChunk
  <2>3. \A g \in Gens \ {new[w].gen} : store'[g] = store[g]
    BY <1>4 DEF WriteChunk, TypeInv, TypeOK, RedisTypes
  <2>4. OldGenerations' /\ CleanupsFree' /\ RetiredInactive' /\ LeasesExact'
    BY <2>1 DEF SafeInv, RefsInv, OldGenerations, CleanupsFree, RetiredInactive, LeasesExact,
                Holding
  <2>5. StagingPrivate' /\ OldActive'
    BY <2>1, <2>2 DEF SafeInv, RefsInv, StagingPrivate, OldActive, Holding
  <2>6. VictimsFree'
    BY <2>1, <2>2 DEF SafeInv, RefsInv, StagingPrivate, VictimsFree, Holding
  <2>7. ReadsStored'
    BY <2>1, <2>3 DEF SafeInv, RefsInv, StagingPrivate, LeasesExact, ReadsStored, Holding,
                      TypeInv, TypeOK, ReaderTypes, Manifest
  <2>8. ActiveComplete'
    BY <2>1, <2>3 DEF SafeInv, RefsInv, StagingPrivate, ActiveComplete,
                      TypeInv, TypeOK, RedisTypes, Manifest
  <2>9. QED
    BY <2>4, <2>5, <2>6, <2>7, <2>8 DEF SafeInv, RefsInv
<1>5. ASSUME NEW w \in Workers, Publish(w) PROVE SafeInv'
  <2>1. /\ UNCHANGED <<leases, old, new, readerVars, nextGen>>
        /\ pc[w] = "publish"
        /\ new[w] \in Manifest
        /\ manifest' = new[w]
        /\ manifest' # None
    BY <1>5 DEF Publish, SwitchTo, TypeInv, StagingTyped
  <2>2. /\ \A g \in Gens \ {new[w].gen} : store'[g] = store[g]
        /\ \A c \in 1..new[w].chunks : store'[new[w].gen][c] = "live"
    BY <1>5, <2>1, Switched DEF Publish
  <2>3. \A v \in Workers \ {w} :
          /\ pc'[v] = pc[v] /\ victim'[v] = victim[v]
          /\ pc[v] \notin Critical
    BY <1>5, <2>1, Alone DEF Publish, Retire, TypeInv, TypeOK, WorkerTypes, Critical
  <2>4. old[w] # None => old[w] = manifest
    BY <2>1 DEF SafeInv, RefsInv, OldActive
  <2>5. retired' = retired \/ (old[w] # None /\ retired' = retired \cup {old[w]})
    BY <1>5 DEF Publish, Retire
  <2>6. pc'[w] \in {"expire", "delete", "schedule"}
    BY <1>5 DEF Publish, Retire, TypeInv, TypeOK, WorkerTypes
  <2>7. pc'[w] \in {"expire", "delete"} =>
          /\ victim'[w] = manifest
          /\ manifest # None
          /\ pc'[w] = "delete" => leases[manifest.gen] = {}
    BY <1>5, <2>4 DEF Publish, Retire, TypeInv, TypeOK, WorkerTypes
  <2>8. OldGenerations' /\ RetiredInactive'
    BY <2>1, <2>4, <2>5 DEF SafeInv, RefsInv, OldGenerations, StagingPrivate, RetiredInactive
  <2>9. StagingPrivate' /\ OldActive'
    BY <2>1, <2>3, <2>6 DEF StagingPrivate, OldActive, SafeInv, RefsInv, Critical
  <2>10. VictimsFree'
    <3>1. \A v \in Workers \ {w} : pc'[v] \notin {"expire", "delete"}
      BY <2>3 DEF Critical
    <3>2. manifest # None => manifest.gen \in Gens /\ manifest.gen # manifest'.gen
      BY <2>1 DEF SafeInv, RefsInv, StagingPrivate, TypeInv, TypeOK, RedisTypes, Manifest
    <3>3. pc'[w] = "delete" =>
            \A r \in Readers : rpc[r] \in Holding => pinned[r].gen # manifest.gen
      BY <2>7, <3>2 DEF SafeInv, RefsInv, LeasesExact
    <3>4. QED
      BY <2>1, <2>7, <3>1, <3>2, <3>3 DEF VictimsFree
  <2>11. CleanupsFree' /\ LeasesExact'
    BY <2>1 DEF SafeInv, RefsInv, StagingPrivate, CleanupsFree, LeasesExact, Holding
  <2>12. ReadsStored'
    BY <2>1, <2>2 DEF SafeInv, RefsInv, StagingPrivate, LeasesExact, ReadsStored, Holding,
                      TypeInv, TypeOK, ReaderTypes, Manifest
  <2>13. ActiveComplete'
    BY <2>1, <2>2 DEF ActiveComplete
  <2>14. QED
    BY <2>8, <2>9, <2>10, <2>11, <2>12, <2>13 DEF SafeInv, RefsInv
<1>6. ASSUME NEW w \in Workers, PublishFails(w) PROVE SafeInv'
  <2>1. /\ UNCHANGED <<manifest, store, memoryVars, old, new, readerVars, nextGen>>
        /\ pc[w] = "publish"
        /\ new[w] \in Manifest
    BY <1>6 DEF PublishFails, NoReplyLost, TypeInv, StagingTyped
  <2>2. /\ pc'[w] = "delete" /\ victim'[w] = new[w]
        /\ \A v \in Workers \ {w} : pc'[v] = pc[v] /\ victim'[v] = victim[v]
    BY <1>6 DEF PublishFails, TypeInv, TypeOK, WorkerTypes
  <2>3. OldGenerations' /\ CleanupsFree' /\ RetiredInactive' /\ LeasesExact'
        /\ ReadsStored' /\ ActiveComplete'
    BY <2>1 DEF SafeInv, RefsInv, OldGenerations, CleanupsFree, RetiredInactive, LeasesExact,
                ReadsStored, ActiveComplete, Holding
  <2>4. StagingPrivate' /\ OldActive'
    BY <2>1, <2>2 DEF SafeInv, RefsInv, StagingPrivate, OldActive, Holding
  <2>5. VictimsFree'
    BY <2>1, <2>2 DEF SafeInv, RefsInv, StagingPrivate, VictimsFree, Holding
  <2>6. QED
    BY <2>3, <2>4, <2>5 DEF SafeInv, RefsInv
<1>7. ASSUME NEW w \in Workers, ExpireChunk(w) \/ DeleteChunk(w) PROVE SafeInv'
  <2>1. /\ UNCHANGED <<manifest, memoryVars, old, new, victim, readerVars, nextGen>>
        /\ pc[w] \in {"expire", "delete"}
    BY <1>7 DEF ExpireChunk, DeleteChunk
  <2>2. /\ pc'[w] \in {pc[w], "release", "schedule"}
        /\ \A v \in Workers \ {w} : pc'[v] = pc[v]
    BY <1>7 DEF ExpireChunk, DeleteChunk, AfterChunk, TypeInv, TypeOK, WorkerTypes
  <2>3. \A g \in Gens \ {victim[w].gen} : store'[g] = store[g]
    BY <1>7 DEF ExpireChunk, DeleteChunk, TypeInv, TypeOK, RedisTypes
  <2>4. \A g \in Gens, c \in Chunks :
          pc[w] = "expire" /\ store[g][c] \in {"live", "retiring"} =>
            store'[g][c] \in {"live", "retiring"}
    BY <1>7 DEF ExpireChunk, DeleteChunk, TypeInv, TypeOK, RedisTypes
  <2>5. OldGenerations' /\ CleanupsFree' /\ RetiredInactive' /\ LeasesExact'
    BY <2>1 DEF SafeInv, RefsInv, OldGenerations, CleanupsFree, RetiredInactive, LeasesExact,
                Holding
  <2>6. StagingPrivate' /\ OldActive' /\ VictimsFree'
    BY <2>1, <2>2 DEF SafeInv, RefsInv, StagingPrivate, OldActive, VictimsFree, Holding
  <2>7. ReadsStored'
    <3> SUFFICES ASSUME NEW r \in Readers, rpc[r] = "reading"
                 PROVE  /\ rat[r] \in 1..pinned[r].chunks
                        /\ \A c \in 1..pinned[r].chunks :
                             store'[pinned[r].gen][c] \in {"live", "retiring"}
      BY <2>1 DEF ReadsStored
    <3>1. /\ pinned[r].gen \in Gens
          /\ 1..pinned[r].chunks \subseteq Chunks
      <4>1. pinned[r] \in Manifest
        BY DEF SafeInv, RefsInv, LeasesExact, Holding, TypeInv, TypeOK, ReaderTypes
      <4>2. QED
        BY <4>1, CacheAssumption DEF CacheAssumption, Manifest, Chunks
    <3>2. CASE pc[w] = "delete"
      BY <2>3, <3>1, <3>2 DEF SafeInv, RefsInv, VictimsFree, ReadsStored, Holding
    <3>3. CASE pc[w] = "expire"
      BY <2>4, <3>1, <3>3 DEF SafeInv, ReadsStored
    <3>4. QED
      BY <2>1, <3>2, <3>3
  <2>8. ActiveComplete'
    BY <2>1, <2>3 DEF SafeInv, RefsInv, VictimsFree, ActiveComplete,
                      TypeInv, TypeOK, RedisTypes, Manifest
  <2>9. QED
    BY <2>5, <2>6, <2>7, <2>8 DEF SafeInv, RefsInv
<1>8. ASSUME NEW w \in Workers, RemoveEntry(w) PROVE SafeInv'
  <2>1. CASE manifest' = manifest
    <3>1. pc'[w] = "release" /\ retired' = retired
      BY <1>8, <2>1 DEF RemoveEntry, Retire, Fail, NoReplyLost, TypeInv, TypeOK, WorkerTypes
    <3>2. QED
      BY <1>8, <2>1, <3>1, QuietWorker
      DEF RemoveEntry, Fail, Retire, TypeInv, TypeOK, WorkerTypes
  <2>2. CASE manifest' = None /\ manifest # None
    <3>1. /\ UNCHANGED <<store, leases, old, new, readerVars, nextGen>>
          /\ pc[w] = "removing"
          /\ Retire(w, manifest)
      BY <1>8, <2>2 DEF RemoveEntry, NoReplyLost
    <3>2. /\ \A v \in Workers \ {w} :
               /\ pc'[v] = pc[v] /\ victim'[v] = victim[v]
               /\ pc[v] \notin Critical
          /\ pc'[w] \in {"expire", "delete"}
          /\ victim'[w] = manifest
          /\ pc'[w] = "delete" => leases[manifest.gen] = {}
          /\ retired' \subseteq retired \cup {manifest}
      BY <3>1, Alone DEF Retire, TypeInv, TypeOK, WorkerTypes, Critical
    <3>3. OldGenerations' /\ CleanupsFree' /\ RetiredInactive' /\ LeasesExact'
          /\ ReadsStored' /\ ActiveComplete'
      BY <2>2, <3>1, <3>2
      DEF SafeInv, RefsInv, OldGenerations, CleanupsFree, RetiredInactive, LeasesExact,
          ReadsStored, ActiveComplete, Holding
    <3>4. StagingPrivate' /\ OldActive'
      BY <3>1, <3>2 DEF SafeInv, RefsInv, StagingPrivate, OldActive, Critical
    <3>5. VictimsFree'
      <4>1. manifest.gen \in Gens
        BY <2>2 DEF TypeInv, TypeOK, RedisTypes, Manifest
      <4>2. QED
        BY <2>2, <3>1, <3>2, <4>1 DEF SafeInv, RefsInv, VictimsFree, LeasesExact, Critical
    <3>6. QED
      BY <3>3, <3>4, <3>5 DEF SafeInv, RefsInv
  <2>3. QED
    BY <1>8, <2>1, <2>2 DEF RemoveEntry
<1>9. ASSUME NEW r \in Readers, Get(r) PROVE SafeInv'
  <2>1. UNCHANGED <<redisVars, workerVars, retired, nextGen>>
    BY <1>9 DEF Get
  <2>2. CASE manifest = None
    BY <1>9, <2>1, <2>2
    DEF Get, TypeInv, TypeOK, ReaderTypes, SafeInv, RefsInv, OldGenerations, StagingPrivate,
        OldActive, VictimsFree, CleanupsFree, RetiredInactive, LeasesExact, ReadsStored,
        ActiveComplete, Holding
  <2>3. CASE manifest # None
    <3>1. /\ rpc' = [rpc EXCEPT ![r] = "reading"]
          /\ pinned' = [pinned EXCEPT ![r] = manifest]
          /\ leases' = [leases EXCEPT ![manifest.gen] = @ \cup {r}]
          /\ rat' = [rat EXCEPT ![r] = 1]
          /\ rpc[r] = "idle"
      BY <1>9, <2>3 DEF Get
    <3>2. /\ rpc'[r] = "reading" /\ pinned'[r] = manifest /\ rat'[r] = 1
          /\ \A q \in Readers \ {r} :
               rpc'[q] = rpc[q] /\ pinned'[q] = pinned[q] /\ rat'[q] = rat[q]
      BY <3>1 DEF TypeInv, TypeOK, ReaderTypes
    <3>3. manifest \in Manifest /\ manifest.gen \in Gens /\ 1 \in 1..manifest.chunks
      BY <2>3, CacheAssumption DEF CacheAssumption, TypeInv, TypeOK, RedisTypes, Manifest, Chunks
    <3>4. OldGenerations' /\ RetiredInactive' /\ OldActive' /\ ActiveComplete'
      BY <2>1, <3>2, <2>3
      DEF SafeInv, RefsInv, OldGenerations, RetiredInactive, OldActive, ActiveComplete
    <3>5. StagingPrivate'
      BY <2>1, <2>3, <3>2 DEF SafeInv, RefsInv, StagingPrivate, Holding
    <3>6. VictimsFree'
      BY <2>1, <2>3, <3>2 DEF SafeInv, RefsInv, VictimsFree, Holding
    <3>7. CleanupsFree'
      BY <2>1, <2>3, <3>2 DEF SafeInv, RefsInv, CleanupsFree, Holding
    <3>8. LeasesExact'
      <4>1. \A g \in Gens : leases'[g] = IF g = manifest.gen THEN leases[g] \cup {r} ELSE leases[g]
        BY <3>1, <3>3 DEF TypeInv, TypeOK, MemoryTypes
      <4>2. \A g \in Gens : r \notin leases[g]
        BY <3>1 DEF SafeInv, RefsInv, LeasesExact, Holding
      <4>3. \A g \in Gens : r \in leases'[g] <=> manifest.gen = g
        BY <4>1, <4>2
      <4>4. \A q \in Readers \ {r}, g \in Gens : q \in leases'[g] <=> q \in leases[g]
        BY <4>1
      <4>5. QED
        BY <2>3, <3>2, <4>3, <4>4 DEF SafeInv, RefsInv, LeasesExact, Holding
    <3>9. ReadsStored'
      BY <2>1, <2>3, <3>2, <3>3 DEF SafeInv, ReadsStored, ActiveComplete
    <3>10. QED
      BY <3>4, <3>5, <3>6, <3>7, <3>8, <3>9 DEF SafeInv, RefsInv
  <2>4. QED
    BY <2>2, <2>3
<1>10. ASSUME NEW r \in Readers, ReadChunk(r) \/ Hit(r) PROVE SafeInv'
  <2>1. UNCHANGED <<redisVars, workerVars, leases, retired, pinned, nextGen>>
    BY <1>10 DEF ReadChunk, Hit
  <2>2. /\ rpc[r] \in Holding /\ rpc'[r] \in Holding
        /\ \A q \in Readers \ {r} : rpc'[q] = rpc[q] /\ rat'[q] = rat[q]
        /\ rpc'[r] = "reading" =>
             rpc[r] = "reading" /\ rat[r] # pinned[r].chunks /\ rat'[r] = rat[r] + 1
    BY <1>10 DEF ReadChunk, Hit, TypeInv, TypeOK, ReaderTypes, Holding
  <2>3. OldGenerations' /\ RetiredInactive' /\ OldActive' /\ ActiveComplete'
    BY <2>1 DEF SafeInv, RefsInv, OldGenerations, RetiredInactive, OldActive, ActiveComplete
  <2>4. StagingPrivate' /\ VictimsFree' /\ CleanupsFree' /\ LeasesExact'
    BY <2>1, <2>2
    DEF SafeInv, RefsInv, StagingPrivate, VictimsFree, CleanupsFree, LeasesExact, Holding
  <2>5. ReadsStored'
    <3>1. rpc'[r] = "reading" => pinned[r] \in Manifest
      BY <2>2 DEF SafeInv, RefsInv, LeasesExact, TypeInv, TypeOK, ReaderTypes
    <3>2. rpc'[r] = "reading" => rat'[r] \in 1..pinned[r].chunks
      BY <2>2, <3>1 DEF SafeInv, ReadsStored, Manifest, Chunks
    <3>3. QED
      BY <2>1, <2>2, <3>2 DEF SafeInv, ReadsStored
  <2>6. QED
    BY <2>3, <2>4, <2>5 DEF SafeInv, RefsInv
<1>11. ASSUME NEW r \in Readers, ReadFails(r) \/ Done(r) PROVE SafeInv'
  <2>1. /\ UNCHANGED <<redisVars, workerVars, nextGen>>
        /\ rpc[r] \in Holding
        /\ Unpin(r)
    BY <1>11 DEF ReadFails, Done, Holding
  <2>2. /\ rpc'[r] \in {"idle", "cleanup"}
        /\ rpc'[r] = "idle" => pinned'[r] = None
        /\ rpc'[r] = "cleanup" => /\ pinned'[r] = pinned[r]
                                  /\ leases[pinned[r].gen] = {r}
                                  /\ \E m \in retired : m.gen = pinned[r].gen
        /\ \A q \in Readers \ {r} :
             rpc'[q] = rpc[q] /\ pinned'[q] = pinned[q] /\ rat'[q] = rat[q]
    BY <2>1 DEF Unpin, TypeInv, TypeOK, ReaderTypes
  <2>3. retired' \subseteq retired
    BY <2>1 DEF Unpin
  <2>4. pinned[r] # None /\ pinned[r].gen \in Gens
    BY <2>1 DEF SafeInv, RefsInv, LeasesExact, TypeInv, TypeOK, ReaderTypes, Manifest
  <2>5. OldGenerations' /\ RetiredInactive' /\ OldActive' /\ ActiveComplete'
    BY <2>1, <2>2, <2>3
    DEF SafeInv, RefsInv, OldGenerations, RetiredInactive, OldActive, ActiveComplete
  <2>6. StagingPrivate' /\ VictimsFree'
    BY <2>1, <2>2, <2>3 DEF SafeInv, RefsInv, StagingPrivate, VictimsFree, Holding
  <2>7. CleanupsFree'
    <3>1. rpc'[r] = "cleanup" =>
            \A q \in Readers \ {r} : rpc[q] \in Holding => pinned[q].gen # pinned[r].gen
      BY <2>2, <2>4 DEF SafeInv, RefsInv, LeasesExact
    <3>2. rpc'[r] = "cleanup" /\ manifest # None => manifest.gen # pinned[r].gen
      BY <2>2 DEF SafeInv, RefsInv, RetiredInactive
    <3>3. QED
      BY <2>1, <2>2, <3>1, <3>2 DEF SafeInv, RefsInv, CleanupsFree, Holding
  <2>8. LeasesExact'
    <3>1. \A g \in Gens :
            leases'[g] = IF g = pinned[r].gen THEN leases[g] \ {r} ELSE leases[g]
      BY <2>1, <2>4 DEF Unpin, TypeInv, TypeOK, MemoryTypes
    <3>2. \A g \in Gens : r \in leases[g] <=> g = pinned[r].gen
      BY <2>1 DEF SafeInv, RefsInv, LeasesExact
    <3>3. \A g \in Gens : r \notin leases'[g]
      BY <3>1, <3>2
    <3>4. \A q \in Readers \ {r}, g \in Gens : q \in leases'[g] <=> q \in leases[g]
      BY <3>1
    <3>5. QED
      BY <2>2, <2>4, <3>3, <3>4 DEF SafeInv, RefsInv, LeasesExact, Holding
  <2>9. ReadsStored'
    BY <2>1, <2>2 DEF SafeInv, ReadsStored
  <2>10. QED
    BY <2>5, <2>6, <2>7, <2>8, <2>9 DEF SafeInv, RefsInv
<1>12. ASSUME NEW r \in Readers, ReaderDeletes(r) PROVE SafeInv'
  <2>1. /\ UNCHANGED <<manifest, lock, memoryVars, workerVars, nextGen>>
        /\ rpc[r] = "cleanup"
    BY <1>12 DEF ReaderDeletes
  <2>2. /\ rpc'[r] \in {"cleanup", "idle"}
        /\ rpc'[r] = "cleanup" => pinned'[r] = pinned[r]
        /\ rpc'[r] = "idle" => pinned'[r] = None
        /\ \A q \in Readers \ {r} :
             rpc'[q] = rpc[q] /\ pinned'[q] = pinned[q] /\ rat'[q] = rat[q]
    BY <1>12 DEF ReaderDeletes, TypeInv, TypeOK, ReaderTypes
  <2>3. \A g \in Gens \ {pinned[r].gen} : store'[g] = store[g]
    BY <1>12 DEF ReaderDeletes, TypeInv, TypeOK, RedisTypes
  <2>4. OldGenerations' /\ RetiredInactive' /\ OldActive'
    BY <2>1, <2>2 DEF SafeInv, RefsInv, OldGenerations, RetiredInactive, OldActive
  <2>5. StagingPrivate' /\ VictimsFree' /\ CleanupsFree' /\ LeasesExact'
    BY <2>1, <2>2
    DEF SafeInv, RefsInv, StagingPrivate, VictimsFree, CleanupsFree, LeasesExact, Holding
  <2>6. ActiveComplete'
    BY <2>1, <2>3 DEF SafeInv, RefsInv, CleanupsFree, ActiveComplete,
                      TypeInv, TypeOK, RedisTypes, Manifest
  <2>7. ReadsStored'
    BY <2>1, <2>2, <2>3
    DEF SafeInv, RefsInv, CleanupsFree, LeasesExact, ReadsStored, Holding,
        TypeInv, TypeOK, ReaderTypes, Manifest
  <2>8. QED
    BY <2>4, <2>5, <2>6, <2>7 DEF SafeInv, RefsInv
<1>13. ASSUME NEW r \in Readers, NEW w \in Workers, Miss(r, w) PROVE SafeInv'
  <2>1. UNCHANGED <<redisVars, leases, retired, pinned, rat, nextGen, old, new, victim>>
    BY <1>13 DEF Miss, Start
  <2>2. /\ rpc[r] = "missed" /\ rpc'[r] = "idle" /\ pc[w] = "idle" /\ pc'[w] = "acquire"
        /\ \A q \in Readers \ {r} : rpc'[q] = rpc[q]
        /\ \A v \in Workers \ {w} : pc'[v] = pc[v]
    BY <1>13 DEF Miss, Start, TypeInv, TypeOK, WorkerTypes, ReaderTypes
  <2>3. OldGenerations' /\ RetiredInactive' /\ ActiveComplete'
    BY <2>1 DEF SafeInv, RefsInv, OldGenerations, RetiredInactive, ActiveComplete
  <2>4. StagingPrivate' /\ OldActive' /\ VictimsFree'
    BY <2>1, <2>2 DEF SafeInv, RefsInv, StagingPrivate, OldActive, VictimsFree, Holding
  <2>5. CleanupsFree' /\ LeasesExact' /\ ReadsStored'
    BY <2>1, <2>2 DEF SafeInv, RefsInv, CleanupsFree, LeasesExact, ReadsStored, Holding
  <2>6. QED
    BY <2>3, <2>4, <2>5 DEF SafeInv, RefsInv
<1>14. ASSUME NEW g \in Gens, NEW c \in Chunks, ChunkExpires(g, c) PROVE SafeInv'
  <2>1. UNCHANGED <<manifest, lock, memoryVars, workerVars, readerVars, nextGen>>
    BY <1>14 DEF ChunkExpires
  <2>2. RefsInv'
    BY <2>1 DEF SafeInv, RefsInv, OldGenerations, StagingPrivate, OldActive, VictimsFree,
                CleanupsFree, RetiredInactive, LeasesExact, Holding
  <2>3. \A h \in Gens, d \in Chunks : store[h][d] = "live" => store'[h][d] = "live"
    BY <1>14 DEF ChunkExpires, TypeInv, TypeOK, RedisTypes
  <2>4. \A h \in Gens, d \in Chunks :
          store[h][d] \in {"live", "retiring"} =>
            \/ store'[h][d] = store[h][d]
            \/ \A r \in Readers : rpc[r] = "reading" => pinned[r].gen # h
    BY <1>14 DEF ChunkExpires, FallbackTTLElapsed, TypeInv, TypeOK, RedisTypes
  <2>5. ActiveComplete'
    <3>1. manifest # None => manifest.gen \in Gens /\ 1..manifest.chunks \subseteq Chunks
      BY CacheAssumption DEF CacheAssumption, TypeInv, TypeOK, RedisTypes, Manifest, Chunks
    <3>2. QED
      BY <2>1, <2>3, <3>1 DEF SafeInv, ActiveComplete
  <2>6. ReadsStored'
    <3>1. ASSUME NEW r \in Readers, rpc[r] = "reading"
          PROVE  pinned[r].gen \in Gens /\ 1..pinned[r].chunks \subseteq Chunks
      <4>1. pinned[r] \in Manifest
        BY <3>1 DEF SafeInv, RefsInv, LeasesExact, Holding, TypeInv, TypeOK, ReaderTypes
      <4>2. QED
        BY <4>1, CacheAssumption DEF CacheAssumption, Manifest, Chunks
    <3>2. QED
      BY <2>1, <2>4, <3>1 DEF SafeInv, ReadsStored
  <2>7. QED
    BY <2>2, <2>5, <2>6 DEF SafeInv
<1>15. CASE Crash
  <2>1. UNCHANGED <<redisVars, nextGen>> /\ ProcessStarts
    BY <1>15 DEF Crash
  <2>2. QED
    BY <2>1
    DEF ProcessStarts, SafeInv, RefsInv, OldGenerations, StagingPrivate, OldActive, VictimsFree,
        CleanupsFree, RetiredInactive, LeasesExact, ReadsStored, ActiveComplete, Holding
<1>16. QED
  BY <1>1, <1>2, <1>3, <1>4, <1>5, <1>6, <1>7, <1>8, <1>9, <1>10, <1>11, <1>12,
     <1>13, <1>14, <1>15
  DEF Next, Worker, Replacing, Reader

LEMMA Safe == NoReplyLost => (Spec => [](TypeInv /\ OwnsLock /\ SafeInv))
<1> SUFFICES ASSUME NoReplyLost PROVE Spec => [](TypeInv /\ OwnsLock /\ SafeInv)
  OBVIOUS
<1>1. Init => TypeInv /\ OwnsLock /\ SafeInv
  BY TypeInvInit, SafeInvInit DEF Init, OwnsLock, Critical
<1>2. TypeInv /\ OwnsLock /\ SafeInv /\ [Next]_vars => (TypeInv /\ OwnsLock /\ SafeInv)'
  BY TypeInvNext, OwnsLockNext, SafeInvNext DEF TypeInv
<1>3. QED
  BY <1>1, <1>2, PTL DEF Spec

\* The entry a request selects is whole, through every replacement, removal,
\* failure and restart (publishGenerationScript, cleanupGeneration), as long as
\* no reply of Redis is lost.
THEOREM ActiveWhole == NoReplyLost => (Spec => []ActiveComplete)
<1>1. SafeInv => ActiveComplete
  BY DEF SafeInv
<1>2. QED
  BY <1>1, Safe, PTL

\* A request finds every chunk of the generation it pinned (get,
\* releaseGenerationReader), as long as no reply of Redis is lost.
THEOREM ReadsSucceed == NoReplyLost => (Spec => []PinnedReadable)
<1>1. TypeInv /\ SafeInv => PinnedReadable
  <2> SUFFICES ASSUME TypeInv, SafeInv, NEW r \in Readers, rpc[r] = "reading",
                      NEW c \in rat[r]..pinned[r].chunks
               PROVE  store[pinned[r].gen][c] # "absent"
    BY DEF PinnedReadable
  <2>1. rat[r] \in Nat \ {0} /\ pinned[r].chunks \in Nat
    BY DEF SafeInv, RefsInv, LeasesExact, Holding, ReadsStored, TypeInv, TypeOK, ReaderTypes,
           Manifest, Chunks
  <2>2. c \in 1..pinned[r].chunks
    BY <2>1
  <2>3. QED
    BY <2>2 DEF SafeInv, ReadsStored
<1>2. QED
  BY <1>1, Safe, PTL
-----------------------------------------------------------------------------
(***************************************************************************)
(* The contract.  ImplementsContract needs more than NoReplyLost: a chunk  *)
(* that cannot be read is a failed read, and a fill that cannot read the   *)
(* manifest publishes without the guard against an empty catalog.          *)
(***************************************************************************)
ReadsAnswered == Faults \cap {"read", "chunk", "lost"} = {}

\* What a worker remembers of the entry is still so when it publishes.
Unreplaced ==
  \A w \in Workers :
    /\ pc[w] \in {"fetch", "write", "publish"} => old[w] = manifest
    /\ pc[w] \in {"write", "publish"} => ~SuspiciousEmpty(manifest, new[w].items)

\* A step of one worker leaves the locals of the others alone.
LEMMA OthersKeep ==
  ASSUME TypeInv, NEW w \in Workers,
         Begin(w) \/ Worker(w) \/ \E r \in Readers : Miss(r, w)
  PROVE  \A v \in Workers \ {w} :
           /\ pc'[v] = pc[v] /\ op'[v] = op[v] /\ old'[v] = old[v] /\ new'[v] = new[v]
           /\ failed'[v] = failed[v] /\ victim'[v] = victim[v] /\ at'[v] = at[v]
<1> USE DEF TypeInv, TypeOK, WorkerTypes
<1>1. CASE Begin(w) \/ \E r \in Readers : Miss(r, w)
  BY <1>1 DEF Begin, BeginWarm, BeginPurge, BeginRefresh, BeginRemove, Miss, Start
<1>2. CASE Acquire(w) \/ Release(w) \/ Retry(w)
  BY <1>2 DEF Acquire, Release, Retry, GiveUp, Stop
<1>3. CASE Load(w) \/ Fetch(w) \/ WriteChunk(w)
  BY <1>3 DEF Load, Fetch, WriteChunk, Fail
<1>4. CASE Publish(w) \/ PublishFails(w) \/ RemoveEntry(w)
  BY <1>4 DEF Publish, PublishFails, RemoveEntry, Retire, Fail
<1>5. CASE ExpireChunk(w) \/ DeleteChunk(w) \/ Schedule(w)
  BY <1>5 DEF ExpireChunk, DeleteChunk, Schedule, AfterChunk
<1>6. QED
  BY <1>1, <1>2, <1>3, <1>4, <1>5 DEF Worker, Replacing

LEMMA UnreplacedNext ==
  ASSUME "read" \notin Faults, TypeInv, OwnsLock, SafeInv, Unreplaced, [Next]_vars
  PROVE  Unreplaced'
<1> USE DEF Unreplaced, TypeInv, TypeOK, WorkerTypes
<1>1. CASE UNCHANGED <<manifest, pc, old, new>>
  BY <1>1 DEF SuspiciousEmpty
<1>2. ASSUME NEW w \in Workers,
             \A v \in Workers \ {w} : pc'[v] = pc[v] /\ old'[v] = old[v] /\ new'[v] = new[v],
             manifest' = manifest \/ pc[w] \in Critical,
             pc'[w] \notin {"fetch", "write", "publish"}
      PROVE  Unreplaced'
  <2>1. CASE manifest' = manifest
    BY <1>2, <2>1 DEF SuspiciousEmpty
  <2>2. CASE pc[w] \in Critical
    BY <1>2, <2>2, Alone DEF Critical
  <2>3. QED
    BY <1>2, <2>1, <2>2
<1>3. ASSUME NEW w \in Workers, Begin(w) \/ \E r \in Readers : Miss(r, w) PROVE Unreplaced'
  <2>1. manifest' = manifest /\ pc'[w] = "acquire"
    BY <1>3 DEF Begin, BeginWarm, BeginPurge, BeginRefresh, BeginRemove, Miss, Start, redisVars
  <2>2. QED
    BY <1>2, <1>3, <2>1, OthersKeep
<1>4. ASSUME NEW w \in Workers, Acquire(w) \/ Release(w) \/ Retry(w) PROVE Unreplaced'
  <2>1. manifest' = manifest /\ pc'[w] \notin {"fetch", "write", "publish"}
    BY <1>4 DEF Acquire, Release, Retry, GiveUp, Stop, redisVars
  <2>2. QED
    BY <1>2, <1>4, <2>1, OthersKeep DEF Worker
<1>5. ASSUME NEW w \in Workers, Load(w) PROVE Unreplaced'
  <2>1. manifest' = manifest /\ new' = new /\ pc'[w] \in {"release", "fetch"}
    BY <1>5 DEF Load, Fail, redisVars
  <2>2. pc'[w] = "fetch" => old'[w] = manifest
    BY <1>5 DEF Load, Fail, SafeInv, RefsInv, OldActive
  <2>3. \A v \in Workers \ {w} : pc'[v] = pc[v] /\ old'[v] = old[v]
    BY <1>5, OthersKeep DEF Worker, Replacing
  <2>4. QED
    BY <2>1, <2>2, <2>3 DEF SuspiciousEmpty
<1>6. ASSUME NEW w \in Workers, Fetch(w) PROVE Unreplaced'
  <2>1. manifest' = manifest /\ old' = old /\ pc[w] = "fetch" /\ pc'[w] \in {"release", "write"}
    BY <1>6 DEF Fetch, Fail, redisVars
  <2>2. pc'[w] = "write" => ~SuspiciousEmpty(old[w], new'[w].items)
    BY <1>6 DEF Fetch, Fail
  <2>3. \A v \in Workers \ {w} : pc'[v] = pc[v] /\ new'[v] = new[v]
    BY <1>6, OthersKeep DEF Worker, Replacing
  <2>4. QED
    BY <2>1, <2>2, <2>3 DEF SuspiciousEmpty
<1>7. ASSUME NEW w \in Workers, WriteChunk(w) PROVE Unreplaced'
  <2>1. manifest' = manifest /\ old' = old /\ new' = new /\ pc[w] = "write"
    BY <1>7 DEF WriteChunk
  <2>2. \A v \in Workers \ {w} : pc'[v] = pc[v]
    BY <1>7, OthersKeep DEF Worker, Replacing
  <2>3. QED
    BY <2>1, <2>2 DEF SuspiciousEmpty
<1>8. ASSUME NEW w \in Workers,
             \/ Publish(w) \/ PublishFails(w) \/ RemoveEntry(w)
             \/ ExpireChunk(w) \/ DeleteChunk(w) \/ Schedule(w)
      PROVE  Unreplaced'
  <2>1. pc[w] \in Critical /\ pc'[w] \notin {"fetch", "write", "publish"}
    BY <1>8 DEF Publish, PublishFails, RemoveEntry, Retire, Fail, ExpireChunk, DeleteChunk,
                AfterChunk, Schedule, Critical
  <2>2. QED
    BY <1>2, <1>8, <2>1, OthersKeep DEF Worker, Replacing
<1>9. ASSUME NEW r \in Readers, Get(r) \/ ReadChunk(r) \/ ReadFails(r) \/ Hit(r) \/ Done(r)
                                \/ ReaderDeletes(r)
      PROVE  Unreplaced'
  BY <1>1, <1>9 DEF Get, ReadChunk, ReadFails, Hit, Done, ReaderDeletes, redisVars, workerVars
<1>10. CASE Crash
  BY <1>10 DEF Crash, ProcessStarts
<1>11. CASE UNCHANGED vars \/ LockExpires \/ \E g \in Gens, c \in Chunks : ChunkExpires(g, c)
  BY <1>1, <1>11 DEF LockExpires, ChunkExpires, vars, redisVars, workerVars
<1>12. QED
  BY <1>3, <1>4, <1>5, <1>6, <1>7, <1>8, <1>9, <1>10, <1>11
  DEF Next, Worker, Replacing, Reader
LEMMA Kept ==
  NoReplyLost /\ "read" \notin Faults
    => (Spec => [](TypeInv /\ OwnsLock /\ SafeInv /\ Unreplaced))
<1> SUFFICES ASSUME NoReplyLost, "read" \notin Faults
             PROVE  Spec => [](TypeInv /\ OwnsLock /\ SafeInv /\ Unreplaced)
  OBVIOUS
<1>1. Spec => [](TypeInv /\ OwnsLock /\ SafeInv)
  BY Safe
<1>2. Init => Unreplaced
  BY DEF Init, Unreplaced
<1>3. TypeInv /\ OwnsLock /\ SafeInv /\ Unreplaced /\ [Next]_vars => Unreplaced'
  BY UnreplacedNext
<1>4. QED
  BY <1>1, <1>2, <1>3, PTL DEF Spec

\* The requests of the contract: no step of a worker or of the clock shows.
Shown == <<rpc, pinned, crashes>>

LEMMA HiddenStep ==
  ASSUME UNCHANGED Shown, manifest' = manifest
  PROVE  UNCHANGED Contract!vars
BY DEF Shown, Contract!vars

\* The steps of a request, as the contract sees them.
LEMMA RequestRefines ==
  ASSUME ReadsAnswered, TypeInv, SafeInv, NEW r \in Readers,
         Get(r) \/ ReadChunk(r) \/ ReadFails(r) \/ Hit(r) \/ Done(r) \/ ReaderDeletes(r)
  PROVE  [Contract!Next]_(Contract!vars)
<1> USE NoneIsNoManifest DEF TypeInv, TypeOK, ReaderTypes
<1>1. manifest' = manifest /\ crashes' = crashes
  BY DEF Get, ReadChunk, ReadFails, Hit, Done, ReaderDeletes, redisVars
<1>2. CASE Get(r) /\ manifest # None
  <2>1. Contract!Begin(r)
    BY <1>1, <1>2 DEF Get, Contract!Begin
  <2>2. QED
    BY <2>1 DEF Contract!Next
<1>3. CASE Get(r) /\ manifest = None
  BY <1>1, <1>3 DEF Get, Contract!vars
<1>4. CASE ReadChunk(r) /\ rat[r] = pinned[r].chunks
  <2>1. Contract!Complete(r)
    BY <1>1, <1>4 DEF ReadChunk, Contract!Complete
  <2>2. QED
    BY <2>1 DEF Contract!Next
<1>5. CASE ReadChunk(r) /\ rat[r] # pinned[r].chunks
  BY <1>1, <1>5 DEF ReadChunk, Contract!vars
<1>6. CASE ReadFails(r)
  <2>1. rpc[r] = "reading" /\ store[pinned[r].gen][rat[r]] = "absent"
    BY <1>6 DEF ReadFails, ReadsAnswered
  <2>2. rat[r] \in 1..pinned[r].chunks
    BY <2>1 DEF SafeInv, ReadsStored
  <2>3. store[pinned[r].gen][rat[r]] \in {"live", "retiring"}
    BY <2>1, <2>2 DEF SafeInv, ReadsStored
  <2>4. QED
    BY <2>1, <2>3
<1>7. CASE Hit(r) \/ ReaderDeletes(r)
  BY <1>1, <1>7 DEF Hit, ReaderDeletes, Contract!vars
<1>8. CASE Done(r)
  <2>1. Contract!End(r)
    BY <1>1, <1>8 DEF Done, Unpin, Contract!End
  <2>2. QED
    BY <2>1 DEF Contract!Next
<1>9. QED
  BY <1>2, <1>3, <1>4, <1>5, <1>6, <1>7, <1>8

LEMMA StepRefines ==
  ASSUME ReadsAnswered, TypeInv, OwnsLock, SafeInv, Unreplaced, [Next]_vars
  PROVE  [Contract!Next]_(Contract!vars)
<1> USE NoneIsNoManifest
<1>1. ASSUME NEW w \in Workers, Publish(w) PROVE [Contract!Next]_(Contract!vars)
  <2>1. pc[w] = "publish" /\ manifest' = new[w] /\ UNCHANGED Shown
    BY <1>1 DEF Publish, SwitchTo, Shown, readerVars
  <2>2. new[w] \in Manifest \ {manifest}
    BY <2>1 DEF TypeInv, StagingTyped, SafeInv, RefsInv, StagingPrivate
  <2>3. ~(manifest # None /\ manifest.items = "items" /\ new[w].items = "empty")
    BY <2>1 DEF Unreplaced, SuspiciousEmpty
  <2>4. Contract!Replace
    BY <2>1, <2>2, <2>3 DEF Shown, Contract!Replace
  <2>5. QED
    BY <2>4 DEF Contract!Next
<1>2. ASSUME NEW w \in Workers, RemoveEntry(w) PROVE [Contract!Next]_(Contract!vars)
  <2>1. UNCHANGED Shown /\ manifest' \in {manifest, None}
    BY <1>2 DEF RemoveEntry, Shown, readerVars
  <2>2. CASE manifest' = manifest
    BY <2>1, <2>2, HiddenStep
  <2>3. CASE manifest' = None
    <3>1. Contract!Remove
      BY <2>1, <2>3 DEF Shown, Contract!Remove
    <3>2. QED
      BY <3>1 DEF Contract!Next
  <2>4. QED
    BY <2>1, <2>2, <2>3
<1>3. ASSUME NEW w \in Workers,
             \/ Begin(w) \/ Acquire(w) \/ Load(w) \/ Fetch(w) \/ WriteChunk(w) \/ PublishFails(w)
             \/ ExpireChunk(w) \/ DeleteChunk(w) \/ Schedule(w) \/ Release(w) \/ Retry(w)
      PROVE  [Contract!Next]_(Contract!vars)
  <2>1. UNCHANGED Shown /\ manifest' = manifest
    BY <1>3 DEF Begin, BeginWarm, BeginPurge, BeginRefresh, BeginRemove, Acquire, Load, Fetch,
                WriteChunk, PublishFails, ExpireChunk, DeleteChunk, Schedule, Release, Retry,
                Shown, redisVars, readerVars, ReadsAnswered
  <2>2. QED
    BY <2>1, HiddenStep
<1>4. ASSUME NEW r \in Readers, Get(r) \/ Reader(r) PROVE [Contract!Next]_(Contract!vars)
  <2>1. ASSUME NEW w \in Workers, Miss(r, w) PROVE [Contract!Next]_(Contract!vars)
    BY <2>1 DEF Miss, redisVars, Contract!vars, TypeInv, TypeOK, ReaderTypes
  <2>2. QED
    BY <1>4, <2>1, RequestRefines DEF Reader
<1>5. CASE Crash
  <2>1. Contract!Restart
    BY <1>5 DEF Crash, ProcessStarts, redisVars, Contract!Restart
  <2>2. QED
    BY <2>1 DEF Contract!Next
<1>6. CASE UNCHANGED vars \/ LockExpires \/ \E g \in Gens, c \in Chunks : ChunkExpires(g, c)
  <2>1. UNCHANGED Shown /\ manifest' = manifest
    BY <1>6 DEF LockExpires, ChunkExpires, vars, redisVars, readerVars, Shown
  <2>2. QED
    BY <2>1, HiddenStep
<1>7. QED
  BY <1>1, <1>2, <1>3, <1>4, <1>5, <1>6 DEF Next, Worker, Replacing

\* The manager implements the contract (GetOrFetch, Release, and every replacement, removal and
\* restart): a request is served all of the value that was active when it began, and a catalog with
\* items is never replaced by an empty one, as long as Redis answers what it is asked.
THEOREM ContractKept == ReadsAnswered => (Spec => ImplementsContract)
<1> SUFFICES ASSUME ReadsAnswered PROVE Spec => ImplementsContract
  OBVIOUS
<1>1. Init => Contract!Init
  BY DEF Init, Contract!Init
<1>2. Spec => [](TypeInv /\ OwnsLock /\ SafeInv /\ Unreplaced)
  BY Kept DEF ReadsAnswered, NoReplyLost
<1>3. TypeInv /\ OwnsLock /\ SafeInv /\ Unreplaced /\ [Next]_vars
        => [Contract!Next]_(Contract!vars)
  BY StepRefines
<1>4. QED
  BY <1>1, <1>2, <1>3, PTL DEF Spec, ImplementsContract, Contract!Spec
-----------------------------------------------------------------------------
(***************************************************************************)
(* What is left behind.  A process that dies leaves the generation it was  *)
(* deleting, a cleanup that fails leaves a chunk, and a fill that cannot   *)
(* read the manifest replaces an entry it does not know: without these,    *)
(* every chunk without a TTL has an owner.                                 *)
(***************************************************************************)
CleanupsRun == Faults \cap {"read", "cleanup", "lost"} = {}

\* The owner of a live chunk is the manifest that counts it, or who cleans it up.
Owned(g, c) ==
  \/ manifest # None /\ manifest.gen = g /\ c \in 1..manifest.chunks
  \/ BeingCleaned(g, c)

LiveOwned == \A g \in Gens, c \in Chunks : store[g][c] = "live" => Owned(g, c)

RetiredRead == \A m \in retired : leases[m.gen] # {}

\* Only a request that pins or releases, and who retires, touch leases and retired.
LEMMA RetiredReadNext ==
  ASSUME TypeInv, SafeInv, RetiredRead, [Next]_vars
  PROVE  RetiredRead'
<1> USE NoneIsNoManifest DEF RetiredRead, TypeInv, TypeOK, MemoryTypes
<1>1. CASE UNCHANGED <<leases, retired>>
  BY <1>1
<1>2. ASSUME NEW w \in Workers, NEW m, Retire(w, m), leases' = leases PROVE RetiredRead'
  BY <1>2 DEF Retire
<1>3. ASSUME NEW w \in Workers, Publish(w) \/ RemoveEntry(w) PROVE RetiredRead'
  <2>1. leases' = leases
    BY <1>3 DEF Publish, RemoveEntry
  <2>2. retired' = retired \/ \E m : Retire(w, m)
    BY <1>3 DEF Publish, RemoveEntry
  <2>3. QED
    BY <1>1, <1>2, <2>1, <2>2
<1>4. ASSUME NEW w \in Workers, Begin(w) \/ Worker(w), ~Publish(w), ~RemoveEntry(w)
      PROVE  RetiredRead'
  BY <1>1, <1>4 DEF Begin, BeginWarm, BeginPurge, BeginRefresh, BeginRemove, Worker, Replacing,
       Acquire, Load, Fetch, WriteChunk, PublishFails, ExpireChunk, DeleteChunk, Schedule,
       Release, Retry, memoryVars
<1>5. ASSUME NEW r \in Readers, Get(r) PROVE RetiredRead'
  <2>1. \A g \in Gens : leases[g] \subseteq leases'[g]
    BY <1>5 DEF Get
  <2>2. retired' = retired /\ \A m \in retired : m.gen \in Gens
    BY <1>5 DEF Get, Manifest
  <2>3. QED
    BY <2>1, <2>2
<1>6. ASSUME NEW r \in Readers, ReadFails(r) \/ Done(r) PROVE RetiredRead'
  <2>1. Unpin(r)
    BY <1>6 DEF ReadFails, Done
  <2>2. \A m \in retired : m.gen \in Gens
    BY DEF Manifest
  <2>3. \A g \in Gens \ {pinned[r].gen} : leases'[g] = leases[g]
    BY <2>1 DEF Unpin
  <2>4. leases[pinned[r].gen] # {} /\ pinned[r].gen \in Gens
          => \/ leases'[pinned[r].gen] # {}
             \/ leases[pinned[r].gen] = {r}
    BY <2>1 DEF Unpin
  <2>5. ASSUME NEW m \in retired' PROVE leases'[m.gen] # {}
    <3>1. m \in retired
      BY <2>1, <2>5 DEF Unpin
    <3>2. CASE m.gen = pinned[r].gen
      <4>1. leases[pinned[r].gen] # {r}
        BY <2>1, <2>5, <3>1, <3>2 DEF Unpin
      <4>2. QED
        BY <2>2, <2>4, <3>1, <3>2, <4>1
    <3>3. CASE m.gen # pinned[r].gen
      BY <2>2, <2>3, <3>1, <3>3
    <3>4. QED
      BY <3>2, <3>3
  <2>6. QED
    BY <2>5
<1>7. ASSUME NEW r \in Readers,
             \/ ReadChunk(r) \/ Hit(r) \/ ReaderDeletes(r) \/ \E w \in Workers : Miss(r, w)
      PROVE  RetiredRead'
  BY <1>1, <1>7 DEF ReadChunk, Hit, ReaderDeletes, Miss, memoryVars
<1>8. CASE Crash
  BY <1>8 DEF Crash, ProcessStarts
<1>9. CASE UNCHANGED vars \/ LockExpires \/ \E g \in Gens, c \in Chunks : ChunkExpires(g, c)
  BY <1>1, <1>9 DEF vars, memoryVars, LockExpires, ChunkExpires
<1>10. QED
  BY <1>3, <1>4, <1>5, <1>6, <1>7, <1>8, <1>9 DEF Next, Reader

\* A step that makes nothing live and that no cleanup takes.
LEMMA QuietOwned ==
  ASSUME LiveOwned, manifest' = manifest,
         \A g \in Gens, c \in Chunks : store'[g][c] = "live" => store[g][c] = "live",
         \A w \in Workers : pc[w] \in {"expire", "delete"} =>
           pc'[w] = pc[w] /\ victim'[w] = victim[w] /\ at'[w] = at[w],
         \A r \in Readers : rpc[r] = "cleanup" =>
           rpc'[r] = rpc[r] /\ pinned'[r] = pinned[r] /\ rat'[r] = rat[r]
  PROVE  LiveOwned'
BY DEF LiveOwned, Owned, BeingCleaned

\* Who takes the entry away leaves nothing of it that nobody cleans up.
LEMMA RetireOwned ==
  ASSUME TypeInv, OwnsLock, NEW w \in Workers, pc[w] \in {"publish", "removing"},
         manifest # None => Retire(w, manifest),
         UNCHANGED readerVars,
         NEW g \in Gens, NEW c \in Chunks, Owned(g, c)
  PROVE  BeingCleaned(g, c)'
<1>1. CASE manifest # None /\ manifest.gen = g /\ c \in 1..manifest.chunks
  <2>1. pc'[w] \in {"expire", "delete"} /\ victim'[w] = manifest /\ at'[w] = 1
    BY <1>1 DEF Retire, TypeInv, TypeOK, WorkerTypes
  <2>2. QED
    BY <1>1, <2>1 DEF BeingCleaned
<1>2. CASE BeingCleaned(g, c)
  <2>1. \A v \in Workers : pc[v] \notin {"expire", "delete"}
    BY Alone DEF Critical
  <2>2. QED
    BY <1>2, <2>1 DEF BeingCleaned, readerVars
<1>3. QED
  BY <1>1, <1>2 DEF Owned

LEMMA LiveOwnedNext ==
  ASSUME CleanupsRun, TypeInv, TypeInv', OwnsLock, SafeInv, Unreplaced, LiveOwned,
         [Next]_vars, ~Crash
  PROVE  LiveOwned'
<1> USE NoneIsNoManifest
    DEF TypeInv, TypeOK, RedisTypes, WorkerTypes, ReaderTypes,
        redisVars, memoryVars, workerVars, readerVars
<1>1. ASSUME NEW w \in Workers,
             \/ Begin(w) \/ Acquire(w) \/ Load(w) \/ Fetch(w) \/ WriteChunk(w) \/ PublishFails(w)
             \/ Schedule(w) \/ Release(w) \/ Retry(w)
      PROVE  LiveOwned'
  <2>1. UNCHANGED <<manifest, readerVars>>
    BY <1>1 DEF Begin, BeginWarm, BeginPurge, BeginRefresh, BeginRemove, Acquire, Load, Fetch,
                WriteChunk, PublishFails, Schedule, Release, Retry, CleanupsRun
  <2>2. pc[w] \notin {"expire", "delete"}
    BY <1>1 DEF Begin, BeginWarm, BeginPurge, BeginRefresh, BeginRemove, Start, Acquire, Load,
                Fetch, WriteChunk, PublishFails, Schedule, Release, Retry
  <2>3. \A g \in Gens, c \in Chunks : store'[g][c] = "live" => store[g][c] = "live"
    <3>1. CASE WriteChunk(w)
      <4>1. store' = store \/ store' = [store EXCEPT ![new[w].gen][at[w]] = "staged"]
        BY <3>1 DEF WriteChunk
      <4>2. QED
        BY <4>1
    <3>2. CASE ~WriteChunk(w)
      BY <1>1, <3>2 DEF Begin, BeginWarm, BeginPurge, BeginRefresh, BeginRemove, Acquire, Load,
                        Fetch, PublishFails, Schedule, Release, Retry, CleanupsRun
    <3>3. QED
      BY <3>1, <3>2
  <2>4. QED
    BY <1>1, <2>1, <2>2, <2>3, OthersKeep, QuietOwned DEF Worker, Replacing
<1>2. ASSUME NEW w \in Workers, Publish(w) PROVE LiveOwned'
  <2>1. /\ pc[w] = "publish" /\ SwitchTo(new[w]) /\ UNCHANGED readerVars
        /\ manifest # None => Retire(w, manifest)
        /\ new[w] \in Manifest
    BY <1>2 DEF Publish, Unreplaced, StagingTyped
  <2>2. SUFFICES ASSUME NEW g \in Gens, NEW c \in Chunks, store'[g][c] = "live"
                 PROVE  Owned(g, c)'
    BY DEF LiveOwned
  <2>3. CASE store[g][c] # "live"
    <3>1. g = new[w].gen /\ c <= new[w].chunks /\ manifest' = new[w]
      BY <2>1, <2>2, <2>3 DEF SwitchTo
    <3>2. c \in 1..new[w].chunks
      BY <2>1, <3>1 DEF Chunks, Manifest
    <3>3. QED
      BY <2>1, <3>1, <3>2 DEF Owned
  <2>4. CASE store[g][c] = "live"
    <3>1. Owned(g, c)
      BY <2>4 DEF LiveOwned
    <3>2. QED
      BY <2>1, <3>1, RetireOwned DEF Owned
  <2>5. QED
    BY <2>3, <2>4
<1>3. ASSUME NEW w \in Workers, RemoveEntry(w) PROVE LiveOwned'
  <2>1. pc[w] = "removing" /\ UNCHANGED <<store, readerVars>>
    BY <1>3 DEF RemoveEntry
  <2>2. CASE manifest' = None /\ (manifest # None => Retire(w, manifest))
    BY <2>1, <2>2, RetireOwned DEF LiveOwned, Owned
  <2>3. CASE manifest' = manifest
    BY <1>3, <2>1, <2>3, OthersKeep, QuietOwned DEF Worker, Replacing
  <2>4. QED
    BY <1>3, <2>2, <2>3 DEF RemoveEntry, CleanupsRun
<1>4. ASSUME NEW w \in Workers, ExpireChunk(w) \/ DeleteChunk(w) PROVE LiveOwned'
  <2>1. /\ UNCHANGED <<manifest, victim, readerVars>>
        /\ pc[w] \in {"expire", "delete"}
        /\ AfterChunk(w, pc[w])
    BY <1>4 DEF ExpireChunk, DeleteChunk
  <2>2. victim[w] \in Manifest
    BY <2>1 DEF SafeInv, RefsInv, VictimsFree
  <2>3. \A g \in Gens, c \in Chunks : store'[g][c] = "live" =>
          store[g][c] = "live" /\ ~(g = victim[w].gen /\ c = at[w])
    BY <1>4 DEF ExpireChunk, DeleteChunk, CleanupsRun
  <2>4. SUFFICES ASSUME NEW g \in Gens, NEW c \in Chunks, store'[g][c] = "live"
                 PROVE  Owned(g, c)'
    BY DEF LiveOwned
  <2>5. Owned(g, c) /\ ~(g = victim[w].gen /\ c = at[w])
    BY <2>3, <2>4 DEF LiveOwned
  <2>6. CASE \E v \in Workers : /\ pc[v] \in {"expire", "delete"}
                                /\ victim[v].gen = g
                                /\ c \in at[v]..victim[v].chunks
    <3>1. victim[w].gen = g /\ c \in at[w]..victim[w].chunks
      BY <2>1, <2>6, Alone DEF Critical
    <3>2. at[w] < victim[w].chunks /\ c \in (at[w] + 1)..victim[w].chunks
      BY <2>2, <2>5, <3>1 DEF Manifest, Chunks
    <3>3. pc'[w] = pc[w] /\ at'[w] = at[w] + 1
      BY <2>1, <3>2 DEF AfterChunk
    <3>4. QED
      BY <2>1, <3>1, <3>2, <3>3 DEF Owned, BeingCleaned
  <2>7. CASE ~\E v \in Workers : /\ pc[v] \in {"expire", "delete"}
                                 /\ victim[v].gen = g
                                 /\ c \in at[v]..victim[v].chunks
    BY <2>1, <2>5, <2>7 DEF Owned, BeingCleaned
  <2>8. QED
    BY <2>6, <2>7
<1>5. ASSUME NEW r \in Readers,
             \/ Get(r) \/ ReadChunk(r) \/ ReadFails(r) \/ Hit(r) \/ Done(r)
             \/ \E w \in Workers : Miss(r, w)
      PROVE  LiveOwned'
  <2>1. manifest' = manifest /\ store' = store
    BY <1>5 DEF Get, ReadChunk, ReadFails, Hit, Done, Miss
  <2>2. \A w \in Workers : pc[w] \in {"expire", "delete"} =>
          pc'[w] = pc[w] /\ victim'[w] = victim[w] /\ at'[w] = at[w]
    BY <1>5 DEF Get, ReadChunk, ReadFails, Hit, Done, Miss, Start
  <2>3. \A q \in Readers : rpc[q] = "cleanup" =>
          rpc'[q] = rpc[q] /\ pinned'[q] = pinned[q] /\ rat'[q] = rat[q]
    BY <1>5 DEF Get, ReadChunk, ReadFails, Hit, Done, Unpin, Miss
  <2>4. QED
    BY <2>1, <2>2, <2>3, QuietOwned
<1>6. ASSUME NEW r \in Readers, ReaderDeletes(r) PROVE LiveOwned'
  <2>1. UNCHANGED <<manifest, pc, victim, at>> /\ rpc[r] = "cleanup"
    BY <1>6 DEF ReaderDeletes
  <2>2. pinned[r] \in Manifest
    BY <2>1 DEF SafeInv, RefsInv, LeasesExact
  <2>3. \A g \in Gens, c \in Chunks : store'[g][c] = "live" =>
          store[g][c] = "live" /\ ~(g = pinned[r].gen /\ c = rat[r])
    BY <1>6 DEF ReaderDeletes, CleanupsRun
  <2>4. \A q \in Readers \ {r} : rpc'[q] = rpc[q] /\ pinned'[q] = pinned[q] /\ rat'[q] = rat[q]
    BY <1>6 DEF ReaderDeletes
  <2>5. rat[r] < pinned[r].chunks =>
          rpc'[r] = "cleanup" /\ pinned'[r] = pinned[r] /\ rat'[r] = rat[r] + 1
    BY <1>6 DEF ReaderDeletes
  <2>6. SUFFICES ASSUME NEW g \in Gens, NEW c \in Chunks, store'[g][c] = "live"
                 PROVE  Owned(g, c)'
    BY DEF LiveOwned
  <2>7. Owned(g, c) /\ ~(g = pinned[r].gen /\ c = rat[r])
    BY <2>3, <2>6 DEF LiveOwned
  <2>8. CASE pinned[r].gen = g /\ c \in rat[r]..pinned[r].chunks
    <3>1. rat[r] < pinned[r].chunks /\ c \in (rat[r] + 1)..pinned[r].chunks
      BY <2>2, <2>7, <2>8 DEF Manifest, Chunks
    <3>2. QED
      BY <2>5, <2>8, <3>1 DEF Owned, BeingCleaned
  <2>9. CASE ~(pinned[r].gen = g /\ c \in rat[r]..pinned[r].chunks)
    BY <2>1, <2>4, <2>7, <2>9 DEF Owned, BeingCleaned
  <2>10. QED
    BY <2>8, <2>9
<1>7. ASSUME NEW g \in Gens, NEW c \in Chunks, ChunkExpires(g, c) PROVE LiveOwned'
  <2>1. UNCHANGED <<manifest, pc, victim, at, rpc, pinned, rat>>
    BY <1>7 DEF ChunkExpires
  <2>2. \A h \in Gens, d \in Chunks : store'[h][d] = "live" => store[h][d] = "live"
    BY <1>7 DEF ChunkExpires
  <2>3. QED
    BY <2>1, <2>2, QuietOwned
<1>8. CASE UNCHANGED vars \/ LockExpires
  BY <1>8, QuietOwned DEF vars, LockExpires
<1>9. QED
  BY <1>1, <1>2, <1>3, <1>4, <1>5, <1>6, <1>7, <1>8 DEF Next, Worker, Replacing, Reader

LEMMA CrashesCounted ==
  ASSUME [Next]_vars
  PROVE  Crash \/ crashes' = crashes
BY DEF Next, Begin, BeginWarm, BeginPurge, BeginRefresh, BeginRemove, Worker, Replacing,
       Acquire, Load, Fetch, WriteChunk, Publish, PublishFails, ExpireChunk, DeleteChunk,
       Schedule, RemoveEntry, Release, Retry, Get, Reader, ReadChunk, ReadFails, Hit, Done,
       ReaderDeletes, Miss, ChunkExpires, LockExpires, vars

\* No generation is left behind (publish, Remove, releaseGenerationReader, cleanupGeneration),
\* however replacements, removals and releases interleave, as long as the process lives, its
\* cleanups succeed and the manifest can be read.
THEOREM NoLeaks == CleanupsRun => (Spec => [](crashes = 0 => NothingLeaks))
<1> SUFFICES ASSUME CleanupsRun PROVE Spec => [](crashes = 0 => NothingLeaks)
  OBVIOUS
<1> DEFINE Inv == TypeInv /\ OwnsLock /\ SafeInv /\ Unreplaced
           LeakInv == RetiredRead /\ (crashes = 0 => LiveOwned)
<1>1. Spec => []Inv
  BY Kept DEF CleanupsRun, NoReplyLost
<1>2. Init => LeakInv
  BY DEF Init, RetiredRead, LiveOwned
<1>3. Inv /\ Inv' /\ LeakInv /\ [Next]_vars => LeakInv'
  <2> SUFFICES ASSUME Inv, Inv', LeakInv, [Next]_vars PROVE LeakInv'
    OBVIOUS
  <2>1. RetiredRead'
    BY RetiredReadNext
  <2>2. CASE Crash
    BY <2>1, <2>2 DEF Crash, TypeInv, TypeOK
  <2>3. CASE ~Crash /\ crashes' = crashes
    BY <2>1, <2>3, LiveOwnedNext
  <2>4. Crash \/ crashes' = crashes
    BY CrashesCounted
  <2>5. QED
    BY <2>2, <2>3, <2>4
<1>4. LeakInv => (crashes = 0 => NothingLeaks)
  BY DEF RetiredRead, LiveOwned, Owned, NothingLeaks
<1>5. QED
  BY <1>1, <1>2, <1>3, <1>4, PTL DEF Spec
-----------------------------------------------------------------------------
(***************************************************************************)
(* The refresh job.  RefreshPending counts a refresh as pending until it   *)
(* ends; that it does not end without having armed the next one takes an   *)
(* invariant that no longer counts it once it has.                         *)
(***************************************************************************)
\* A worker that will arm the timer before it ends.
Rearming(w) ==
  \/ op[w] = "refresh" /\ pc[w] # "idle" /\ (pc[w] = "release" => failed[w])
  \/ ~failed[w] /\ op[w] # "remove" /\ pc[w] \in {"expire", "delete", "schedule"}

Rearmed == manifest # None => timer \/ \E w \in Workers : Rearming(w)

\* Who comes as far as publishing has not failed, and does not remove the entry.
Successful ==
  \A w \in Workers :
    /\ pc[w] \in {"idle", "acquire", "load", "fetch", "write", "publish"} => ~failed[w]
    /\ pc[w] \in {"load", "fetch", "write", "publish"} => op[w] # "remove"
    /\ pc[w] = "removing" => op[w] = "remove"

LEMMA SuccessfulNext ==
  ASSUME TypeInv, Successful, [Next]_vars
  PROVE  Successful'
<1> USE DEF Successful, TypeInv, TypeOK, WorkerTypes,
            redisVars, memoryVars, workerVars, readerVars
<1>1. CASE UNCHANGED <<pc, op, failed>>
  BY <1>1
<1>2. ASSUME NEW w \in Workers,
             \A v \in Workers \ {w} : pc'[v] = pc[v] /\ op'[v] = op[v] /\ failed'[v] = failed[v],
             /\ pc'[w] \in {"idle", "acquire", "load", "fetch", "write", "publish"} => ~failed'[w]
             /\ pc'[w] \in {"load", "fetch", "write", "publish"} => op'[w] # "remove"
             /\ pc'[w] = "removing" => op'[w] = "remove"
      PROVE  Successful'
  BY <1>2
<1>3. ASSUME NEW w \in Workers, Begin(w) \/ \E r \in Readers : Miss(r, w) PROVE Successful'
  <2>1. pc[w] = "idle" /\ pc'[w] = "acquire" /\ failed' = failed
    BY <1>3 DEF Begin, BeginWarm, BeginPurge, BeginRefresh, BeginRemove, Miss, Start
  <2>2. QED
    BY <1>2, <1>3, <2>1, OthersKeep
<1>4. ASSUME NEW w \in Workers, Acquire(w) PROVE Successful'
  <2>1. \/ /\ pc[w] = "acquire"
           /\ pc'[w] = (IF op[w] = "remove" THEN "removing" ELSE "load")
           /\ UNCHANGED <<op, failed>>
        \/ pc'[w] = "retry"
        \/ pc'[w] = "idle" /\ ~failed'[w]
    BY <1>4 DEF Acquire, GiveUp, Stop
  <2>2. QED
    BY <1>2, <1>4, <2>1, OthersKeep DEF Worker
<1>5. ASSUME NEW w \in Workers, Release(w) \/ Retry(w) PROVE Successful'
  <2>1. \/ pc'[w] = "retry"
        \/ pc'[w] = "idle" /\ ~failed'[w]
    BY <1>5 DEF Release, Retry, GiveUp, Stop
  <2>2. QED
    BY <1>2, <1>5, <2>1, OthersKeep DEF Worker
<1>6. ASSUME NEW w \in Workers, Load(w) \/ Fetch(w) \/ WriteChunk(w) PROVE Successful'
  <2>1. op' = op /\ pc[w] \in {"load", "fetch", "write"}
    BY <1>6 DEF Load, Fetch, WriteChunk
  <2>2. \/ pc'[w] \in {"release", "delete"}
        \/ pc'[w] \in {"fetch", "write", "publish"} /\ failed' = failed
    BY <1>6 DEF Load, Fetch, WriteChunk, Fail
  <2>3. QED
    BY <1>2, <1>6, <2>1, <2>2, OthersKeep DEF Worker, Replacing
<1>7. ASSUME NEW w \in Workers,
             \/ Publish(w) \/ PublishFails(w) \/ RemoveEntry(w)
             \/ ExpireChunk(w) \/ DeleteChunk(w) \/ Schedule(w)
      PROVE  Successful'
  <2>1. pc'[w] \in {"expire", "delete", "schedule", "release"}
    BY <1>7 DEF Publish, PublishFails, RemoveEntry, Retire, Fail, ExpireChunk, DeleteChunk,
                AfterChunk, Schedule
  <2>2. QED
    BY <1>2, <1>7, <2>1, OthersKeep DEF Worker, Replacing
<1>8. ASSUME NEW r \in Readers, Get(r) \/ ReadChunk(r) \/ ReadFails(r) \/ Hit(r) \/ Done(r)
                                \/ ReaderDeletes(r)
      PROVE  Successful'
  BY <1>1, <1>8 DEF Get, ReadChunk, ReadFails, Hit, Done, ReaderDeletes
<1>9. CASE Crash
  BY <1>9 DEF Crash, ProcessStarts
<1>10. CASE UNCHANGED vars \/ LockExpires \/ \E g \in Gens, c \in Chunks : ChunkExpires(g, c)
  BY <1>1, <1>10 DEF LockExpires, ChunkExpires, vars
<1>11. QED
  BY <1>3, <1>4, <1>5, <1>6, <1>7, <1>8, <1>9, <1>10 DEF Next, Worker, Replacing, Reader

LEMMA RearmedNext ==
  ASSUME NoReplyLost, TypeInv, Successful, Rearmed, [Next]_vars, Crash => "read" \notin Faults
  PROVE  Rearmed'
<1> USE DEF Rearmed, Rearming, TypeInv, TypeOK, WorkerTypes,
            redisVars, memoryVars, workerVars, readerVars
<1>1. CASE UNCHANGED <<manifest, timer, pc, op, failed>>
  BY <1>1
<1>2. CASE timer'
  BY <1>2
\* A worker that was not pending, or still is.
<1>3. ASSUME NEW w \in Workers,
             \A v \in Workers \ {w} : pc'[v] = pc[v] /\ op'[v] = op[v] /\ failed'[v] = failed[v],
             manifest' = manifest, timer' = timer,
             Rearming(w) => Rearming(w)'
      PROVE  Rearmed'
  <2>1. \A v \in Workers : Rearming(v) => Rearming(v)'
    BY <1>3
  <2>2. QED
    BY <1>3, <2>1
<1>4. ASSUME NEW w \in Workers, BeginRefresh(w) PROVE Rearmed'
  <2>1. Rearming(w)'
    BY <1>4 DEF BeginRefresh, Start
  <2>2. QED
    BY <2>1
<1>5. ASSUME NEW w \in Workers,
             BeginWarm(w) \/ BeginPurge(w) \/ BeginRemove(w) \/ \E r \in Readers : Miss(r, w)
      PROVE  Rearmed'
  <2>1. UNCHANGED <<manifest, timer>> /\ ~Rearming(w)
    BY <1>5 DEF BeginWarm, BeginPurge, BeginRemove, Miss, Start
  <2>2. QED
    BY <1>3, <1>5, <2>1, OthersKeep DEF Begin
<1>6. ASSUME NEW w \in Workers, Acquire(w) PROVE Rearmed'
  <2>1. UNCHANGED <<manifest, timer>> /\ pc[w] = "acquire"
    BY <1>6 DEF Acquire
  <2>2. op[w] = "refresh" => op'[w] = "refresh" /\ pc'[w] \in {"load", "retry"}
    BY <1>6 DEF Acquire, GiveUp
  <2>3. QED
    BY <1>3, <1>6, <2>1, <2>2, OthersKeep DEF Worker
<1>7. ASSUME NEW w \in Workers, Release(w) PROVE Rearmed'
  <2>1. UNCHANGED <<manifest, timer>> /\ pc[w] = "release"
    BY <1>7 DEF Release
  <2>2. op[w] = "refresh" /\ failed[w] => op'[w] = "refresh" /\ pc'[w] = "retry"
    BY <1>7 DEF Release, GiveUp
  <2>3. QED
    BY <1>3, <1>7, <2>1, <2>2, OthersKeep DEF Worker
<1>8. ASSUME NEW w \in Workers, Retry(w) \/ Schedule(w) PROVE Rearmed'
  BY <1>2, <1>8 DEF Retry, Schedule
<1>9. ASSUME NEW w \in Workers, Load(w) \/ Fetch(w) \/ WriteChunk(w) \/ PublishFails(w)
      PROVE  Rearmed'
  <2>1. /\ UNCHANGED <<manifest, timer, op>>
        /\ pc[w] \in {"load", "fetch", "write", "publish"}
    BY <1>9 DEF Load, Fetch, WriteChunk, PublishFails, NoReplyLost
  <2>2. \/ pc'[w] \in {"fetch", "write", "publish", "delete"}
        \/ pc'[w] = "release" /\ (op[w] = "refresh" => failed'[w])
    BY <1>9 DEF Load, Fetch, WriteChunk, PublishFails, Fail
  <2>3. QED
    BY <1>3, <1>9, <2>1, <2>2, OthersKeep DEF Worker, Replacing
<1>10. ASSUME NEW w \in Workers, Publish(w) PROVE Rearmed'
  <2>1. UNCHANGED <<op, failed>> /\ pc[w] = "publish"
        /\ pc'[w] \in {"expire", "delete", "schedule"}
    BY <1>10 DEF Publish, Retire
  <2>2. Rearming(w)'
    BY <2>1 DEF Successful
  <2>3. QED
    BY <2>2
<1>11. ASSUME NEW w \in Workers, ExpireChunk(w) \/ DeleteChunk(w) PROVE Rearmed'
  <2>1. UNCHANGED <<manifest, timer, op, failed>> /\ pc[w] \in {"expire", "delete"}
    BY <1>11 DEF ExpireChunk, DeleteChunk
  <2>2. \/ pc'[w] \in {"expire", "delete", "schedule"}
        \/ pc'[w] = "release" /\ (failed[w] \/ op[w] = "remove")
    BY <1>11 DEF ExpireChunk, DeleteChunk, AfterChunk
  <2>3. QED
    BY <1>3, <1>11, <2>1, <2>2, OthersKeep DEF Worker, Replacing
<1>12. ASSUME NEW w \in Workers, RemoveEntry(w) PROVE Rearmed'
  <2>1. pc[w] = "removing" /\ op[w] = "remove"
    BY <1>12 DEF RemoveEntry, Successful
  <2>2. CASE manifest' = None
    BY <2>2
  <2>3. CASE manifest' = manifest /\ timer' = timer
    BY <1>3, <1>12, <2>1, <2>3, OthersKeep DEF Worker, Replacing
  <2>4. QED
    BY <1>12, <2>2, <2>3 DEF RemoveEntry, NoReplyLost
<1>13. ASSUME NEW r \in Readers, Get(r) \/ ReadChunk(r) \/ ReadFails(r) \/ Hit(r) \/ Done(r)
                                 \/ ReaderDeletes(r)
       PROVE  Rearmed'
  BY <1>1, <1>2, <1>13 DEF Get, ReadChunk, ReadFails, Hit, Done, ReaderDeletes
<1>14. CASE Crash
  BY <1>14 DEF Crash
<1>15. CASE UNCHANGED vars \/ LockExpires \/ \E g \in Gens, c \in Chunks : ChunkExpires(g, c)
  BY <1>1, <1>15 DEF LockExpires, ChunkExpires, vars
<1>16. QED
  BY <1>4, <1>5, <1>6, <1>7, <1>8, <1>9, <1>10, <1>11, <1>12, <1>13, <1>14, <1>15
  DEF Next, Begin, Worker, Replacing, Reader

\* An active entry keeps its refresh job (scheduleAtThreshold, refresh, RehydratePersistedCache)
\* through failed replacements, lost locks and restarts, as long as no reply is lost and a process
\* that starts can read the manifest.
THEOREM RefreshKept ==
  NoReplyLost => (Spec => [](crashes = 0 \/ "read" \notin Faults => RefreshPending))
<1> SUFFICES ASSUME NoReplyLost
             PROVE  Spec => [](crashes = 0 \/ "read" \notin Faults => RefreshPending)
  OBVIOUS
<1> DEFINE KeptWhileRead == crashes = 0 \/ "read" \notin Faults => Rearmed
<1>1. Init => TypeInv /\ Successful /\ KeptWhileRead
  BY TypeInvInit DEF Init, Successful, Rearmed
<1>2. TypeInv /\ Successful /\ KeptWhileRead /\ [Next]_vars
        => (TypeInv /\ Successful /\ KeptWhileRead)'
  <2> SUFFICES ASSUME TypeInv, Successful, KeptWhileRead, [Next]_vars
               PROVE  (TypeInv /\ Successful /\ KeptWhileRead)'
    OBVIOUS
  <2>1. TypeInv' /\ Successful'
    BY TypeInvNext, SuccessfulNext
  <2>2. CASE Crash /\ "read" \in Faults
    BY <2>1, <2>2 DEF Crash, TypeInv, TypeOK
  <2>3. CASE Crash => "read" \notin Faults
    <3>1. crashes' = 0 \/ "read" \notin Faults => crashes = 0 \/ "read" \notin Faults
      BY <2>3, CrashesCounted
    <3>2. Rearmed => Rearmed'
      BY <2>3, RearmedNext
    <3>3. QED
      BY <2>1, <3>1, <3>2
  <2>4. QED
    BY <2>2, <2>3
<1>3. KeptWhileRead => (crashes = 0 \/ "read" \notin Faults => RefreshPending)
  BY DEF Rearmed, Rearming, RefreshPending
<1>4. QED
  BY <1>1, <1>2, <1>3, PTL DEF Spec
-----------------------------------------------------------------------------
(***************************************************************************)
(* The entry only moves forward, whatever fails.  A worker that stages a   *)
(* generation has the lock, so what is active and what requests read is    *)
(* still older than its own when it publishes.                             *)
(***************************************************************************)
\* Everything that is active or read is older than generation g.
OlderThan(g) ==
  /\ manifest # None => manifest.gen < g
  /\ \A r \in Readers : pinned[r] # None => pinned[r].gen < g

ForwardInv ==
  /\ OlderThan(nextGen)
  /\ \A w \in Workers : pc[w] \in {"write", "publish"} => new[w].gen < nextGen /\ OlderThan(new[w].gen)

\* A step that activates nothing and fetches nothing.
LEMMA ForwardKept ==
  ASSUME ForwardInv, nextGen' = nextGen, manifest' \in {manifest, None},
         \A r \in Readers : pinned'[r] \in {pinned[r], manifest, None},
         \A w \in Workers : pc'[w] \in {"write", "publish"} =>
                              pc[w] \in {"write", "publish"} /\ new'[w] = new[w]
  PROVE  ForwardInv'
BY DEF ForwardInv, OlderThan

\* Only a publish activates a generation, the one its worker has staged.
LEMMA ForwardNext ==
  ASSUME TypeInv, OwnsLock, ForwardInv, [Next]_vars
  PROVE  ForwardInv' /\ (manifest' \notin {None, manifest} => OlderThan(manifest'.gen))
<1> USE DEF TypeInv, TypeOK
<1> DEFINE Still(w) == \A v \in Workers \ {w} : pc'[v] = pc[v] /\ new'[v] = new[v]
<1>1. ASSUME NEW w \in Workers, pc[w] = "publish", UNCHANGED <<nextGen, pinned>>, Still(w),
             pc'[w] \notin {"write", "publish"}, manifest' = new[w]
      PROVE  ForwardInv' /\ OlderThan(manifest'.gen)
  <2>1. \A v \in Workers : pc'[v] \notin {"write", "publish"}
    BY <1>1, Alone DEF Critical
  <2>2. new[w].gen < nextGen /\ OlderThan(new[w].gen)
    BY <1>1 DEF ForwardInv
  <2>3. QED
    BY <1>1, <2>1, <2>2 DEF ForwardInv, OlderThan
<1>2. ASSUME NEW w \in Workers, UNCHANGED <<nextGen, pinned>>, manifest' \in {manifest, None}, Still(w),
             pc'[w] \in {"write", "publish"} => pc[w] \in {"write", "publish"} /\ new'[w] = new[w]
      PROVE  ForwardInv'
  BY <1>2, ForwardKept
<1>3. ASSUME NEW w \in Workers, Publish(w)
      PROVE  ForwardInv' /\ OlderThan(manifest'.gen)
  BY <1>1, <1>3 DEF Publish, SwitchTo, Retire, WorkerTypes, readerVars
<1>4. ASSUME NEW w \in Workers, PublishFails(w)
      PROVE  ForwardInv' /\ (manifest' # manifest => OlderThan(manifest'.gen))
  <2>1. /\ pc[w] = "publish" /\ UNCHANGED <<nextGen, pinned>> /\ Still(w)
        /\ pc'[w] = "delete" /\ manifest' \in {manifest, new[w]}
    BY <1>4 DEF PublishFails, SwitchTo, WorkerTypes, readerVars
  <2>2. QED
    BY <1>1, <1>2, <2>1
<1>5. ASSUME NEW w \in Workers, Fetch(w) PROVE ForwardInv' /\ manifest' = manifest
  <2>1. UNCHANGED <<manifest, pinned>> /\ pc[w] = "fetch"
    BY <1>5 DEF Fetch, redisVars, readerVars
  <2>2. CASE nextGen' = nextGen /\ Fail(w) /\ new' = new
    BY <1>2, <2>1, <2>2 DEF Fail, WorkerTypes
  <2>3. CASE /\ nextGen' = nextGen + 1 /\ new'[w].gen = nextGen
             /\ pc' = [pc EXCEPT ![w] = "write"]
    <3>1. nextGen \in Nat
      OBVIOUS
    <3>2. \A v \in Workers \ {w} : pc'[v] \notin {"write", "publish"}
      BY <2>1, <2>3, Alone DEF Critical, WorkerTypes
    <3>3. OlderThan(nextGen)' /\ OlderThan(new[w].gen)' /\ new'[w].gen < nextGen'
      BY <2>1, <2>3, <3>1 DEF ForwardInv, OlderThan, RedisTypes, ReaderTypes, Manifest, Gens
    <3>4. QED
      BY <2>1, <3>2, <3>3 DEF ForwardInv
  <2>4. QED
    BY <1>5, <2>1, <2>2, <2>3 DEF Fetch, WorkerTypes
<1>6. ASSUME NEW w \in Workers,
             \/ Begin(w) \/ Acquire(w) \/ Release(w) \/ Retry(w) \/ Load(w) \/ WriteChunk(w)
             \/ ExpireChunk(w) \/ DeleteChunk(w) \/ Schedule(w) \/ RemoveEntry(w)
      PROVE  ForwardInv' /\ manifest' \in {manifest, None}
  <2>1. UNCHANGED <<nextGen, pinned>> /\ manifest' \in {manifest, None}
    BY <1>6 DEF Begin, BeginWarm, BeginPurge, BeginRefresh, BeginRemove, Acquire, Release, Retry, Load,
                WriteChunk, ExpireChunk, DeleteChunk, Schedule, RemoveEntry, redisVars, readerVars
  <2>2. /\ Still(w)
        /\ pc'[w] \in {"write", "publish"} => pc[w] = "write" /\ new'[w] = new[w]
    BY <1>6 DEF Begin, BeginWarm, BeginPurge, BeginRefresh, BeginRemove, Start, Acquire, Release, GiveUp,
                Stop, Retry, Load, Fail, WriteChunk, ExpireChunk, DeleteChunk, AfterChunk, Schedule,
                RemoveEntry, Retire, WorkerTypes
  <2>3. QED
    BY <1>2, <2>1, <2>2
<1>7. ASSUME NEW r \in Readers, Get(r) \/ Reader(r) PROVE ForwardInv' /\ manifest' = manifest
  <2>1. UNCHANGED <<nextGen, manifest>>
    BY <1>7 DEF Get, Reader, ReadChunk, ReadFails, Hit, Done, ReaderDeletes, Miss, redisVars
  <2>2. \A q \in Readers : pinned'[q] \in {pinned[q], manifest, None}
    BY <1>7 DEF Get, Reader, ReadChunk, ReadFails, Hit, Done, ReaderDeletes, Miss, Unpin, ReaderTypes
  <2>3. \A w \in Workers : pc'[w] \in {"write", "publish"} =>
                             pc[w] \in {"write", "publish"} /\ new'[w] = new[w]
    BY <1>7 DEF Get, Reader, ReadChunk, ReadFails, Hit, Done, ReaderDeletes, Miss, Start, WorkerTypes,
                workerVars
  <2>4. QED
    BY <2>1, <2>2, <2>3, ForwardKept
<1>8. CASE Crash
  BY <1>8, ForwardKept DEF Crash, ProcessStarts, redisVars
<1>9. CASE UNCHANGED vars \/ LockExpires \/ \E g \in Gens, c \in Chunks : ChunkExpires(g, c)
  BY <1>9, ForwardKept DEF LockExpires, ChunkExpires, vars, redisVars, workerVars, readerVars
<1>10. QED
  BY <1>3, <1>4, <1>5, <1>6, <1>7, <1>8, <1>9 DEF Next, Worker, Replacing, Crash, LockExpires,
     ChunkExpires, vars, redisVars

\* A slow fetch never puts an old answer over a newer one, and no request is answered from an older
\* generation than one that is still read (withEntryLock, publish), whatever fails: neither a lost
\* reply nor a crash nor a lock that expired can do it.
THEOREM EntryMovesForward == Spec => NeverRollsBack
<1>1. Init => ForwardInv
  BY DEF Init, ForwardInv, OlderThan
<1>2. TypeInv /\ OwnsLock /\ ForwardInv /\ [Next]_vars =>
        ForwardInv' /\ [manifest' \notin {None, manifest} =>
                          /\ manifest # None => manifest'.gen > manifest.gen
                          /\ \A r \in Readers : pinned[r] # None => manifest'.gen > pinned[r].gen]_vars
  <2> SUFFICES ASSUME TypeInv, OwnsLock, ForwardInv, [Next]_vars
               PROVE  /\ ForwardInv'
                      /\ manifest' \notin {None, manifest} =>
                          /\ manifest # None => manifest'.gen > manifest.gen
                          /\ \A r \in Readers : pinned[r] # None => manifest'.gen > pinned[r].gen
    OBVIOUS
  <2>1. ForwardInv' /\ (manifest' \notin {None, manifest} => OlderThan(manifest'.gen))
    BY ForwardNext
  <2>2. manifest' \in Manifest \cup {None} /\ manifest \in Manifest \cup {None}
        /\ pinned \in [Readers -> Manifest \cup {None}]
    BY TypeInvNext DEF TypeInv, TypeOK, RedisTypes, ReaderTypes
  <2>3. QED
    BY <2>1, <2>2 DEF OlderThan, Manifest, Gens
<1>3. Spec => []TypeInv
  BY TypeInvInit, TypeInvNext, PTL DEF Spec
<1>4. QED
  BY <1>1, <1>2, <1>3, LockOwned, PTL DEF Spec, NeverRollsBack
=============================================================================
