---------------------------- MODULE CacheManager ----------------------------
(***************************************************************************)
(* The metadata cache of the Go proxy (internal/cache): one cache identity *)
(* (key) of Manager, with the state it keeps in Redis and in memory.       *)
(*                                                                         *)
(* A response body is stored as chunks under a generation identifier; the  *)
(* manifest hash names the active generation.  A replacement stages a new  *)
(* generation chunk by chunk, switches the manifest with one Lua script,   *)
(* and only then deletes the old generation, or leaves that to the last    *)
(* request that holds a lease on it.                                       *)
(*                                                                         *)
(* Every Redis command is a step of its own.  What Manager does while it   *)
(* holds its mutex mu is one step.  Item counts are abstracted to the      *)
(* three cases the replacement policy tells apart, and the per-generation  *)
(* reader count to the set of the requests counted.                        *)
(*                                                                         *)
(* Definitions named Faulty... are wrong on purpose: each is what a slip   *)
(* in the code would make of the definition that follows it, and shows     *)
(* that a property notices.                                                *)
(***************************************************************************)
EXTENDS Naturals

CONSTANTS
  Workers,     \* goroutines that can fill, replace or remove the entry at once
  Readers,     \* client requests that can be served from the entry at once
  Items,       \* what the item counts of a response may say
  MaxGen,      \* bound: generation identifiers newID() hands out
  MaxChunks,   \* bound: bodyChunkSize pieces of a response
  MaxCrashes,  \* bound: deaths of the proxy process
  Operations,  \* the operations callers start
  Faults,      \* what may fail: reading a manifest ("read") or a chunk ("chunk"), writing ("write"),
               \* clearing up ("cleanup", its error ignored); "lost": a write whose reply is lost
  None         \* no lock owner, no manifest

ASSUME CacheAssumption ==
  /\ MaxGen \in Nat
  /\ MaxChunks \in Nat \ {0}
  /\ MaxCrashes \in Nat
  \* a known positive count, a known zero, or no count (ItemCountKnown is false)
  /\ Items \subseteq {"items", "empty", "unknown"}
  /\ Operations \subseteq {"fill", "warm", "purge", "refresh", "remove"}
  /\ Faults \subseteq {"read", "chunk", "write", "cleanup", "lost"}
  /\ None \notin Workers
  /\ None \notin Readers
  /\ \A g \in 1..MaxGen, n \in 1..MaxChunks, i \in Items :
       None # [gen |-> g, chunks |-> n, items |-> i]

Gens == 1..MaxGen
Chunks == 1..MaxChunks

\* What a manifest records of a generation.
Manifest == [gen : Gens, chunks : Chunks, items : Items]

\* A chunk key: absent, staged under the two hour TTL, live without a TTL, or
\* retiring under the one hour fallback TTL.
ChunkState == {"absent", "staged", "live", "retiring"}

WorkerState == {"idle", "acquire", "load", "fetch", "write", "publish",
                "expire", "delete", "schedule", "removing", "release", "retry"}

ReaderState == {"idle", "missed", "reading", "hit", "serving", "cleanup"}

VARIABLES
  \* in Redis
  manifest,    \* the active manifest, or None
  store,       \* store[g][c]: chunk c of generation g
  lock,        \* the worker whose operation identifier the lock key holds
  \* in the process
  registered,  \* specs has an entry for the key
  timer,       \* timers holds a refresh that has not fired
  leases,      \* leases[g]: the requests counted in readers for g
  retired,     \* retired: manifests whose generation waits for its readers
  \* the goroutines
  pc, op, old, new, failed, victim, at,
  \* the requests
  rpc, pinned, rat,
  \* bookkeeping
  nextGen,     \* identifiers below it were used
  crashes

redisVars == <<manifest, store, lock>>
memoryVars == <<registered, timer, leases, retired>>
workerVars == <<pc, op, old, new, failed, victim, at>>
readerVars == <<rpc, pinned, rat>>
vars == <<redisVars, memoryVars, workerVars, readerVars, nextGen, crashes>>

RedisTypes ==
  /\ manifest \in Manifest \cup {None}
  /\ store \in [Gens -> [Chunks -> ChunkState]]
  /\ lock \in Workers \cup {None}

MemoryTypes ==
  /\ registered \in BOOLEAN
  /\ timer \in BOOLEAN
  /\ leases \in [Gens -> SUBSET Readers]
  /\ retired \in SUBSET Manifest

WorkerTypes ==
  /\ pc \in [Workers -> WorkerState]
  /\ op \in [Workers -> {"fill", "warm", "purge", "refresh", "remove"}]
  /\ old \in [Workers -> Manifest \cup {None}]
  /\ new \in [Workers -> Manifest \cup {None}]
  /\ failed \in [Workers -> BOOLEAN]
  /\ victim \in [Workers -> Manifest \cup {None}]
  /\ at \in [Workers -> Nat]

ReaderTypes ==
  /\ rpc \in [Readers -> ReaderState]
  /\ pinned \in [Readers -> Manifest \cup {None}]
  /\ rat \in [Readers -> Nat]

TypeOK ==
  /\ RedisTypes
  /\ MemoryTypes
  /\ WorkerTypes
  /\ ReaderTypes
  /\ nextGen \in 1..(MaxGen + 1)
  /\ crashes \in 0..MaxCrashes

Init ==
  /\ manifest = None
  /\ store = [g \in Gens |-> [c \in Chunks |-> "absent"]]
  /\ lock = None
  /\ registered = FALSE
  /\ timer = FALSE
  /\ leases = [g \in Gens |-> {}]
  /\ retired = {}
  /\ pc = [w \in Workers |-> "idle"]
  /\ op = [w \in Workers |-> "fill"]
  /\ old = [w \in Workers |-> None]
  /\ new = [w \in Workers |-> None]
  /\ failed = [w \in Workers |-> FALSE]
  /\ victim = [w \in Workers |-> None]
  /\ at = [w \in Workers |-> 0]
  /\ rpc = [r \in Readers |-> "idle"]
  /\ pinned = [r \in Readers |-> None]
  /\ rat = [r \in Readers |-> 0]
  /\ nextGen = 1
  /\ crashes = 0
-----------------------------------------------------------------------------
(***************************************************************************)
(* Starting an operation.                                                  *)
(***************************************************************************)
Start(w, o) ==
  /\ pc[w] = "idle"
  /\ o \in Operations
  /\ pc' = [pc EXCEPT ![w] = "acquire"]
  /\ op' = [op EXCEPT ![w] = o]
  /\ UNCHANGED <<old, new, failed, victim, at>>

\* The goroutine returns and its locals are gone.
Stop(w) ==
  /\ pc' = [pc EXCEPT ![w] = "idle"]
  /\ op' = [op EXCEPT ![w] = "fill"]
  /\ old' = [old EXCEPT ![w] = None]
  /\ new' = [new EXCEPT ![w] = None]
  /\ failed' = [failed EXCEPT ![w] = FALSE]
  /\ victim' = [victim EXCEPT ![w] = None]
  /\ at' = [at EXCEPT ![w] = 0]

\* Warm registers the entry if no recipe is there yet.
BeginWarm(w) ==
  /\ Start(w, "warm")
  /\ registered' = TRUE
  /\ UNCHANGED <<redisVars, timer, leases, retired, readerVars, nextGen, crashes>>

\* Purge and PurgeAll replace an entry that has a registered recipe.
BeginPurge(w) ==
  /\ registered
  /\ Start(w, "purge")
  /\ UNCHANGED <<redisVars, memoryVars, readerVars, nextGen, crashes>>

\* The refresh timer fires: its goroutine works with the recipe it captured.
BeginRefresh(w) ==
  /\ timer
  /\ Start(w, "refresh")
  /\ timer' = FALSE
  /\ UNCHANGED <<redisVars, registered, leases, retired, readerVars, nextGen, crashes>>

BeginRemove(w) ==
  /\ Start(w, "remove")
  /\ UNCHANGED <<redisVars, memoryVars, readerVars, nextGen, crashes>>
-----------------------------------------------------------------------------
(***************************************************************************)
(* The replacement lock.                                                   *)
(***************************************************************************)
Critical == {"load", "fetch", "write", "publish", "expire", "delete",
             "schedule", "removing", "release"}

\* Without the lock an operation ends; a refresh first arms its retry timer.
GiveUp(w) ==
  IF op[w] = "refresh"
  THEN /\ pc' = [pc EXCEPT ![w] = "retry"]
       /\ UNCHANGED <<op, old, new, failed, victim, at>>
  ELSE Stop(w)

\* SetNX.  A lost reply leaves the key behind: the client's own retry of the
\* command then finds it set.
Acquire(w) ==
  /\ pc[w] = "acquire"
  /\ \/ /\ lock = None
        /\ lock' = w
        /\ pc' = [pc EXCEPT ![w] = IF op[w] = "remove" THEN "removing" ELSE "load"]
        /\ UNCHANGED <<op, old, new, failed, victim, at>>
     \/ /\ lock # None \/ "write" \in Faults
        /\ lock' = lock
        /\ GiveUp(w)
     \/ /\ lock = None /\ "lost" \in Faults
        /\ lock' = w
        /\ GiveUp(w)
  /\ UNCHANGED <<manifest, store, memoryVars, readerVars, nextGen, crashes>>

\* The release script deletes the key only if it still holds this operation's
\* identifier.  Its error is ignored.
Release(w) ==
  /\ pc[w] = "release"
  /\ \/ lock' = (IF lock = w THEN None ELSE lock)
     \/ "cleanup" \in Faults /\ lock' = lock
  /\ IF failed[w] THEN GiveUp(w) ELSE Stop(w)
  /\ UNCHANGED <<manifest, store, memoryVars, readerVars, nextGen, crashes>>

FaultyRetry(w) ==
  /\ pc[w] = "retry"
  /\ Stop(w)
  /\ UNCHANGED <<redisVars, memoryVars, readerVars, nextGen, crashes>>

\* refresh() arms the retry timer after replaceWithSpec returned an error.
Retry(w) ==
  /\ pc[w] = "retry"
  /\ timer' = TRUE
  /\ Stop(w)
  /\ UNCHANGED <<redisVars, registered, leases, retired, readerVars, nextGen, crashes>>

\* lockTTL (35 minutes) is longer than fetchTimeout (30 minutes), the deadline
\* of everything an operation does under the lock: the key expires only when
\* its owner is gone.
FaultyShortLockTTL(w) == w \in Workers
LockTTLElapsed(w) == pc[w] \notin Critical

LockExpires ==
  /\ lock # None
  /\ LockTTLElapsed(lock)
  /\ lock' = None
  /\ UNCHANGED <<manifest, store, memoryVars, workerVars, readerVars, nextGen, crashes>>
-----------------------------------------------------------------------------
(***************************************************************************)
(* Fetch, stage, publish.                                                  *)
(***************************************************************************)
Fail(w) ==
  /\ pc' = [pc EXCEPT ![w] = "release"]
  /\ failed' = [failed EXCEPT ![w] = TRUE]

\* refillMissing returns if the entry exists by now, and fetches if it is
\* missing or if reading the manifest failed; it never remembers an old
\* manifest.  replaceWithSpec remembers it, and gives up if the read failed.
Load(w) ==
  /\ pc[w] = "load"
  /\ \/ /\ op[w] = "fill"
        /\ manifest # None
        /\ pc' = [pc EXCEPT ![w] = "release"]
        /\ UNCHANGED <<old, failed>>
     \/ /\ op[w] = "fill"
        /\ manifest = None \/ "read" \in Faults
        /\ pc' = [pc EXCEPT ![w] = "fetch"]
        /\ UNCHANGED <<old, failed>>
     \/ /\ op[w] # "fill"
        /\ old' = [old EXCEPT ![w] = manifest]
        /\ pc' = [pc EXCEPT ![w] = "fetch"]
        /\ UNCHANGED failed
     \/ /\ op[w] # "fill"
        /\ "read" \in Faults
        /\ Fail(w)
        /\ UNCHANGED old
  /\ UNCHANGED <<redisVars, memoryVars, op, new, victim, at, readerVars, nextGen, crashes>>

\* A known non-empty catalog is not replaced by a known empty one.
SuspiciousEmpty(m, items) == m # None /\ m.items = "items" /\ items = "empty"

\* The provider answers with a valid body that is staged under a new
\* generation, or the fetch fails, or the answer is rejected.
Fetch(w) ==
  /\ pc[w] = "fetch"
  /\ \/ /\ nextGen \in Gens
        /\ \E n \in Chunks, i \in Items :
             /\ ~SuspiciousEmpty(old[w], i)
             /\ new' = [new EXCEPT ![w] = [gen |-> nextGen, chunks |-> n, items |-> i]]
        /\ nextGen' = nextGen + 1
        /\ pc' = [pc EXCEPT ![w] = "write"]
        /\ at' = [at EXCEPT ![w] = 1]
        /\ UNCHANGED failed
     \/ /\ Fail(w)
        /\ UNCHANGED <<new, at, nextGen>>
  /\ UNCHANGED <<redisVars, memoryVars, op, old, victim, readerVars, crashes>>

\* SET of one chunk with the staging TTL.  A failed write deletes the chunks
\* written before it.
WriteChunk(w) ==
  /\ pc[w] = "write"
  /\ LET g == new[w].gen  c == at[w] IN
     \/ /\ store' = [store EXCEPT ![g][c] = "staged"]
        /\ at' = [at EXCEPT ![w] = c + 1]
        /\ pc' = [pc EXCEPT ![w] = IF c = new[w].chunks THEN "publish" ELSE "write"]
        /\ UNCHANGED <<victim, failed>>
     \/ /\ "write" \in Faults
        /\ failed' = [failed EXCEPT ![w] = TRUE]
        /\ IF c = 1
           THEN pc' = [pc EXCEPT ![w] = "release"] /\ UNCHANGED <<victim, at>>
           ELSE /\ pc' = [pc EXCEPT ![w] = "delete"]
                /\ victim' = [victim EXCEPT ![w] = [new[w] EXCEPT !.chunks = c - 1]]
                /\ at' = [at EXCEPT ![w] = 1]
        /\ UNCHANGED store
  /\ UNCHANGED <<manifest, lock, memoryVars, op, old, new, readerVars, nextGen, crashes>>

\* publishGenerationScript's first loop: every staged chunk must exist.
Staged(m) == \A c \in 1..m.chunks : store[m.gen][c] # "absent"

FaultyPersist(m) == Staged(m) /\ manifest' = m /\ UNCHANGED store
FaultyChunkCount(m) ==
  /\ Staged(m)
  /\ store' = [store EXCEPT ![m.gen] =
                 [c \in Chunks |-> IF c <= m.chunks THEN "live" ELSE @[c]]]
  /\ manifest' = [m EXCEPT !.chunks = @ - 1]

\* The script: chunks lose their TTL, the manifest names the new generation.
SwitchTo(m) ==
  /\ Staged(m)
  /\ store' = [store EXCEPT ![m.gen] =
                 [c \in Chunks |-> IF c <= m.chunks THEN "live" ELSE @[c]]]
  /\ manifest' = m

FaultyRetire(w, m) ==
  /\ victim' = [victim EXCEPT ![w] = m]
  /\ at' = [at EXCEPT ![w] = 1]
  /\ retired' = retired
  /\ pc' = [pc EXCEPT ![w] = "delete"]

\* The old generation m goes to its readers, or to this worker if it has none.
Retire(w, m) ==
  /\ victim' = [victim EXCEPT ![w] = m]
  /\ at' = [at EXCEPT ![w] = 1]
  /\ IF leases[m.gen] # {}
     THEN /\ retired' = retired \cup {m}
          /\ pc' = [pc EXCEPT ![w] = "expire"]
     ELSE /\ retired' = retired
          /\ pc' = [pc EXCEPT ![w] = "delete"]

\* The switch and the choice of who cleans up are one step: publish holds mu.
Publish(w) ==
  /\ pc[w] = "publish"
  /\ SwitchTo(new[w])
  /\ IF old[w] # None
     THEN Retire(w, old[w])
     ELSE pc' = [pc EXCEPT ![w] = "schedule"] /\ UNCHANGED <<retired, victim, at>>
  /\ UNCHANGED <<lock, registered, timer, leases, op, old, new, failed,
                 readerVars, nextGen, crashes>>

\* The deferred cleanup of a publish that returned an error: the script
\* refused, or it ran and its reply never came.
PublishFails(w) ==
  /\ pc[w] = "publish"
  /\ \/ /\ ~Staged(new[w]) \/ "write" \in Faults
        /\ UNCHANGED <<manifest, store>>
     \/ /\ "lost" \in Faults
        /\ SwitchTo(new[w])
  /\ failed' = [failed EXCEPT ![w] = TRUE]
  /\ victim' = [victim EXCEPT ![w] = new[w]]
  /\ at' = [at EXCEPT ![w] = 1]
  /\ pc' = [pc EXCEPT ![w] = "delete"]
  /\ UNCHANGED <<lock, memoryVars, op, old, new, readerVars, nextGen, crashes>>

FaultyAfterChunk(w, here) ==
  /\ at' = [at EXCEPT ![w] = at[w] + 1]
  /\ pc' = [pc EXCEPT ![w] = IF at[w] + 1 < victim[w].chunks THEN here
                            ELSE IF failed[w] \/ op[w] = "remove" THEN "release"
                            ELSE "schedule"]

\* Where a worker goes after it handled chunk c of n.
AfterChunk(w, here) ==
  /\ at' = [at EXCEPT ![w] = at[w] + 1]
  /\ pc' = [pc EXCEPT ![w] = IF at[w] < victim[w].chunks THEN here
                            ELSE IF failed[w] \/ op[w] = "remove" THEN "release"
                            ELSE "schedule"]

\* expireGenerationFallback: EXPIRE of one chunk; no effect on a missing key.
ExpireChunk(w) ==
  /\ pc[w] = "expire"
  /\ \/ store' = [store EXCEPT ![victim[w].gen][at[w]] =
                    IF @ = "absent" THEN "absent" ELSE "retiring"]
     \/ "cleanup" \in Faults /\ UNCHANGED store
  /\ AfterChunk(w, "expire")
  /\ UNCHANGED <<manifest, lock, memoryVars, op, old, new, failed, victim,
                 readerVars, nextGen, crashes>>

\* cleanupGeneration: DEL of one chunk, its error ignored.
DeleteChunk(w) ==
  /\ pc[w] = "delete"
  /\ \/ store' = [store EXCEPT ![victim[w].gen][at[w]] = "absent"]
     \/ "cleanup" \in Faults /\ UNCHANGED store
  /\ AfterChunk(w, "delete")
  /\ UNCHANGED <<manifest, lock, memoryVars, op, old, new, failed, victim,
                 readerVars, nextGen, crashes>>

\* scheduleAtThreshold replaces whatever timer the key has.
Schedule(w) ==
  /\ pc[w] = "schedule"
  /\ timer' = TRUE
  /\ pc' = [pc EXCEPT ![w] = "release"]
  /\ UNCHANGED <<redisVars, registered, leases, retired, op, old, new, failed,
                 victim, at, readerVars, nextGen, crashes>>

\* Remove, under mu: the manifest, the timer and the recipe go together.  If
\* the reply of DEL is lost only the manifest is gone.
RemoveEntry(w) ==
  /\ pc[w] = "removing"
  /\ \/ /\ manifest' = None
        /\ registered' = FALSE
        /\ timer' = FALSE
        /\ IF manifest # None
           THEN Retire(w, manifest)
           ELSE pc' = [pc EXCEPT ![w] = "release"] /\ UNCHANGED <<retired, victim, at>>
        /\ UNCHANGED failed
     \/ /\ \/ Faults \cap {"read", "write"} # {} /\ manifest' = manifest
           \/ "lost" \in Faults /\ manifest' = None
        /\ Fail(w)
        /\ UNCHANGED <<registered, timer, retired, victim, at>>
  /\ UNCHANGED <<store, lock, leases, op, old, new, readerVars, nextGen, crashes>>
-----------------------------------------------------------------------------
(***************************************************************************)
(* Requests.                                                               *)
(***************************************************************************)
\* get(): reading the manifest and counting the reader are one step under mu.
Get(r) ==
  /\ rpc[r] = "idle"
  /\ IF manifest = None
     THEN /\ rpc' = [rpc EXCEPT ![r] = "missed"]
          /\ UNCHANGED <<leases, pinned, rat>>
     ELSE /\ rpc' = [rpc EXCEPT ![r] = "reading"]
          /\ pinned' = [pinned EXCEPT ![r] = manifest]
          /\ leases' = [leases EXCEPT ![manifest.gen] = @ \cup {r}]
          /\ rat' = [rat EXCEPT ![r] = 1]
  /\ UNCHANGED <<redisVars, registered, timer, retired, workerVars, nextGen, crashes>>

\* readGeneration: GET of one chunk.
ReadChunk(r) ==
  /\ rpc[r] = "reading"
  /\ store[pinned[r].gen][rat[r]] # "absent"
  /\ rat' = [rat EXCEPT ![r] = @ + 1]
  /\ rpc' = [rpc EXCEPT ![r] = IF rat[r] = pinned[r].chunks THEN "hit" ELSE "reading"]
  /\ UNCHANGED <<redisVars, memoryVars, workerVars, pinned, nextGen, crashes>>

\* releaseGenerationReader: the last reader of a retired generation takes it
\* out of retired and deletes its chunks.
Unpin(r) ==
  LET g == pinned[r].gen IN
  /\ leases' = [leases EXCEPT ![g] = @ \ {r}]
  /\ IF leases[g] = {r} /\ \E m \in retired : m.gen = g
     THEN /\ retired' = {m \in retired : m.gen # g}
          /\ rpc' = [rpc EXCEPT ![r] = "cleanup"]
          /\ rat' = [rat EXCEPT ![r] = 1]
          /\ UNCHANGED pinned
     ELSE /\ rpc' = [rpc EXCEPT ![r] = "idle"]
          /\ pinned' = [pinned EXCEPT ![r] = None]
          /\ rat' = [rat EXCEPT ![r] = 0]
          /\ UNCHANGED retired

\* A chunk is missing, or the read fails: the request answers 503.
ReadFails(r) ==
  /\ rpc[r] = "reading"
  /\ store[pinned[r].gen][rat[r]] = "absent" \/ "chunk" \in Faults
  /\ Unpin(r)
  /\ UNCHANGED <<redisVars, registered, timer, workerVars, nextGen, crashes>>

\* After a hit GetOrFetch registers the recipe and arms the refresh timer from
\* the manifest it read.
Hit(r) ==
  /\ rpc[r] = "hit"
  /\ registered' = TRUE
  /\ timer' = TRUE
  /\ rpc' = [rpc EXCEPT ![r] = "serving"]
  /\ UNCHANGED <<redisVars, leases, retired, workerVars, pinned, rat, nextGen, crashes>>

\* The HTTP response is written, or the client is gone: Response.Release.
Done(r) ==
  /\ rpc[r] = "serving"
  /\ Unpin(r)
  /\ UNCHANGED <<redisVars, registered, timer, workerVars, nextGen, crashes>>

\* DEL of one chunk of the retired generation by its last reader.
ReaderDeletes(r) ==
  /\ rpc[r] = "cleanup"
  /\ \/ store' = [store EXCEPT ![pinned[r].gen][rat[r]] = "absent"]
     \/ "cleanup" \in Faults /\ UNCHANGED store
  /\ IF rat[r] < pinned[r].chunks
     THEN rat' = [rat EXCEPT ![r] = @ + 1] /\ UNCHANGED <<rpc, pinned>>
     ELSE /\ rpc' = [rpc EXCEPT ![r] = "idle"]
          /\ pinned' = [pinned EXCEPT ![r] = None]
          /\ rat' = [rat EXCEPT ![r] = 0]
  /\ UNCHANGED <<manifest, lock, memoryVars, workerVars, nextGen, crashes>>

\* After a miss: the recipe is registered, a background fill starts and the
\* request is answered with 503.
Miss(r, w) ==
  /\ rpc[r] = "missed"
  /\ Start(w, "fill")
  /\ registered' = TRUE
  /\ rpc' = [rpc EXCEPT ![r] = "idle"]
  /\ UNCHANGED <<redisVars, timer, leases, retired, pinned, rat, nextGen, crashes>>
-----------------------------------------------------------------------------
(***************************************************************************)
(* Time and crashes.                                                       *)
(***************************************************************************)
\* A staged chunk outlives its writer's deadline (two hours against thirty
\* minutes); a retiring one outlives the read of a body (one hour).
FaultyNoStagingTTL(g) == g \notin Gens
StagingTTLElapsed(g) ==
  \A w \in Workers : pc[w] \in {"write", "publish"} => new[w].gen # g
FallbackTTLElapsed(g) ==
  \A r \in Readers : rpc[r] = "reading" => pinned[r].gen # g

ChunkExpires(g, c) ==
  /\ \/ store[g][c] = "staged" /\ StagingTTLElapsed(g)
     \/ store[g][c] = "retiring" /\ FallbackTTLElapsed(g)
  /\ store' = [store EXCEPT ![g][c] = "absent"]
  /\ UNCHANGED <<manifest, lock, memoryVars, workerVars, readerVars, nextGen, crashes>>

\* No goroutine and no request survives.
ProcessStarts ==
  /\ leases' = [g \in Gens |-> {}]
  /\ retired' = {}
  /\ pc' = [w \in Workers |-> "idle"]
  /\ op' = [w \in Workers |-> "fill"]
  /\ old' = [w \in Workers |-> None]
  /\ new' = [w \in Workers |-> None]
  /\ failed' = [w \in Workers |-> FALSE]
  /\ victim' = [w \in Workers |-> None]
  /\ at' = [w \in Workers |-> 0]
  /\ rpc' = [r \in Readers |-> "idle"]
  /\ pinned' = [r \in Readers |-> None]
  /\ rat' = [r \in Readers |-> 0]

\* The process dies: memory is lost, Redis is not.  The next process first
\* rehydrates: a manifest it can read is registered and its timer armed.
Crash ==
  /\ crashes < MaxCrashes
  /\ crashes' = crashes + 1
  /\ \/ registered' = (manifest # None) /\ timer' = (manifest # None)
     \/ "read" \in Faults /\ registered' = FALSE /\ timer' = FALSE
  /\ ProcessStarts
  /\ UNCHANGED <<redisVars, nextGen>>
-----------------------------------------------------------------------------
Replacing(w) ==
  \/ Load(w) \/ Fetch(w) \/ WriteChunk(w) \/ Publish(w) \/ PublishFails(w)
  \/ ExpireChunk(w) \/ DeleteChunk(w) \/ Schedule(w) \/ RemoveEntry(w)

Worker(w) ==
  \/ Acquire(w) \/ Replacing(w) \/ Release(w) \/ Retry(w)

Begin(w) == BeginWarm(w) \/ BeginPurge(w) \/ BeginRefresh(w) \/ BeginRemove(w)

Reader(r) ==
  \/ ReadChunk(r) \/ ReadFails(r) \/ Hit(r) \/ Done(r) \/ ReaderDeletes(r)
  \/ \E w \in Workers : Miss(r, w)

Next ==
  \/ \E w \in Workers : Begin(w) \/ Worker(w)
  \/ \E r \in Readers : Get(r) \/ Reader(r)
  \/ \E g \in Gens, c \in Chunks : ChunkExpires(g, c)
  \/ LockExpires
  \/ Crash

Spec == Init /\ [][Next]_vars
-----------------------------------------------------------------------------
(***************************************************************************)
(* Properties.                                                             *)
(***************************************************************************)
\* The entry a new request would select is whole: every chunk the active
\* manifest counts is stored, and without a TTL (publishGenerationScript).
ActiveComplete ==
  manifest # None =>
    \A c \in 1..manifest.chunks : store[manifest.gen][c] = "live"

\* A request that pinned a generation finds every chunk it has not read yet,
\* whatever replacements, removals and releases happen meanwhile.
PinnedReadable ==
  \A r \in Readers : rpc[r] = "reading" =>
    \A c \in rat[r]..pinned[r].chunks : store[pinned[r].gen][c] # "absent"

\* A worker between acquire and release owns the lock key, so two operations
\* never fetch, stage or publish the entry at once.
OwnsLock == \A w \in Workers : pc[w] \in Critical => lock = w

\* Someone who is going to delete chunk c of generation g, or give it a TTL.
BeingCleaned(g, c) ==
  \/ \E w \in Workers : /\ pc[w] \in {"expire", "delete"}
                        /\ victim[w].gen = g
                        /\ c \in at[w]..victim[w].chunks
  \/ \E r \in Readers : /\ rpc[r] = "cleanup"
                        /\ pinned[r].gen = g
                        /\ c \in rat[r]..pinned[r].chunks

\* No generation is left behind: a chunk without a TTL belongs to the active
\* manifest or is about to be deleted or to get the fallback TTL, and a retired
\* generation still has a reader to delete it (the swap and the last release
\* cannot both leave the cleanup to the other).
NothingLeaks ==
  /\ \A g \in Gens, c \in Chunks : store[g][c] = "live" =>
       \/ manifest # None /\ manifest.gen = g
       \/ BeingCleaned(g, c)
  /\ \A m \in retired : leases[m.gen] # {}

\* An active entry keeps its refresh job: a timer is armed, a refresh is under
\* way (it arms the next one when it ends), or a publisher is about to arm it.
RefreshPending ==
  manifest # None =>
    \/ timer
    \/ \E w \in Workers :
         \/ op[w] = "refresh" /\ pc[w] # "idle"
         \/ ~failed[w] /\ op[w] # "remove" /\ pc[w] \in {"expire", "delete", "schedule"}

\* The entry only moves forward: the generation a publish activates was fetched after the one it
\* replaces and after every one a request still reads, so a slow fetch cannot put an old answer
\* over a newer one, and a client that asks again is not given an older one (withEntryLock, publish).
NeverRollsBack ==
  [][manifest' \notin {None, manifest} =>
       /\ manifest # None => manifest'.gen > manifest.gen
       /\ \A r \in Readers : pinned[r] # None => manifest'.gen > pinned[r].gen]_vars

-----------------------------------------------------------------------------
(***************************************************************************)
(* The manager implements the contract.  A request is reading until it has *)
(* its last chunk, and served from then on until it releases its lease.    *)
(***************************************************************************)
Contract == INSTANCE CacheContract WITH
  Values   <- Manifest,
  value    <- manifest,
  view     <- [r \in Readers |->
               IF rpc[r] \in {"reading", "hit", "serving"} THEN pinned[r] ELSE None],
  phase    <- [r \in Readers |->
               CASE rpc[r] = "reading"              -> "reading"
                 [] rpc[r] \in {"hit", "serving"}   -> "served"
                 [] OTHER                           -> "idle"],
  restarts <- crashes

\* GetOrFetch and Release, with every replacement, removal and restart, behave
\* as the abstract register: no torn, mixed or failed read.
ImplementsContract == Contract!Spec
-----------------------------------------------------------------------------
(***************************************************************************)
(* Liveness.  A goroutine runs to its end because every Redis command and  *)
(* the provider fetch have a deadline; an HTTP response ends with its      *)
(* client; Redis expires keys.  Nothing makes a caller start an operation, *)
(* and nothing makes a process die.                                        *)
(***************************************************************************)
Fairness ==
  /\ \A w \in Workers : WF_vars(Worker(w))
  /\ \A r \in Readers : WF_vars(Reader(r))
  /\ \A g \in Gens, c \in Chunks : WF_vars(ChunkExpires(g, c))
  /\ WF_vars(LockExpires)

FairSpec == Spec /\ Fairness

\* The entry never stays locked: an operation releases the lock, and the lock
\* of a dead process or of a lost release expires.
LockFreed == []<>(lock = None)

\* A generation that waits for its readers is deleted and forgotten once they
\* are done, unless the process dies first.
RetiredDeleted ==
  \A g \in Gens :
    (\E m \in retired : m.gen = g) ~>
      \/ crashes > 0
      \/ /\ \A m \in retired : m.gen # g
         /\ \A c \in Chunks : store[g][c] = "absent"

\* Staged and retiring chunks do not stay: they are published or they go, even
\* if the process that wrote them died.
TemporaryChunksGo ==
  \A g \in Gens, c \in Chunks :
    (store[g][c] \in {"staged", "retiring"}) ~> (store[g][c] \in {"live", "absent"})

\* What an operation leaves behind goes: its lock, the generation it retired
\* and the chunks it staged, also when it failed or its process died.
LeftoversGo == LockFreed /\ RetiredDeleted /\ TemporaryChunksGo
=============================================================================
