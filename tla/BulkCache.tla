------------------------------ MODULE BulkCache ------------------------------
(***************************************************************************)
(* The caches a provider takes its RDMA buffers from (src/src/buffer): the *)
(* default one allocates and frees, keep_all keeps every buffer, lru keeps *)
(* the last "capacity" of each mode.  A buffer is taken by size and mode;  *)
(* its content is whatever the request that used it before left there.     *)
(***************************************************************************)
EXTENDS Integers, Sequences, FiniteSets, SequencesExt

CONSTANTS
    MaxBuffers,   \* bound on the buffers that exist at one time
    Junk,         \* content of memory nobody has written yet
    Null          \* nullptr

VARIABLES
    buf,          \* the buffers: where they are, size, mode, what they hold
    queue,        \* for each mode the buffers in the cache, newest first
    numInUse      \* num_in_use (num_allocated in the default cache)

cacheVars == <<buf, queue, numInUse>>

Buffers == 1 .. MaxBuffers

\* HG_BULK_READ_ONLY is never asked of a cache.
Modes == {"writeonly", "readwrite"}

Kinds == {"default", "keep_all", "lru"}

MaxRegions == 6   \* of the data of one request, see module Handlers

Untouched == [p \in 1 .. MaxRegions |-> Junk]

NoBuffer == [at |-> "none", size |-> 0, mode |-> "readwrite", data |-> Untouched]

CacheInit ==
    /\ buf = [b \in Buffers |-> NoBuffer]
    /\ queue = [m \in Modes |-> <<>>]
    /\ numInUse = 0

-----------------------------------------------------------------------------

\* The cached buffers of the mode that are large enough.
Fitting(size, mode) ==
    {b \in ToSet(queue[mode]) : buf[b].size >= size}

\* lower_bound: the smallest of them.
Smallest(size, mode) ==
    {b \in Fitting(size, mode) :
        \A x \in Fitting(size, mode) : buf[x].size >= buf[b].size}

\* The next allocation is at b; there is none when every buffer exists.
Fresh(b) ==
    /\ b \in Buffers /\ buf[b].at = "none"
    /\ \A x \in Buffers : buf[x].at = "none" => b <= x

\* new yk_buffer and margo_bulk_create: the content is not initialised.
Allocate(size, mode, b) ==
    /\ Fresh(b)
    /\ buf' = [buf EXCEPT ![b] =
                 [at |-> "used", size |-> size, mode |-> mode,
                  data |-> Untouched]]
    /\ numInUse' = numInUse + 1
    /\ UNCHANGED queue

\* A buffer is taken out of the cache under the mutex of the cache.
TakeCached(size, mode, b) ==
    /\ b \in Smallest(size, mode)
    /\ buf' = [buf EXCEPT ![b].at = "used"]
    /\ \E i \in DOMAIN queue[mode] :
         queue[mode][i] = b /\ queue' = [queue EXCEPT ![mode] = RemoveAt(@, i)]
    /\ numInUse' = numInUse + 1

\* A size of 0 is refused.
Refused(size, b) == size = 0 /\ b = Null /\ UNCHANGED cacheVars

\* The default cache counts the buffer before it knows whether it has one.
default_bulk_cache_get(size, mode, b, mayFail) ==
    \/ Refused(size, b)
    \/ size > 0 /\ Allocate(size, mode, b)
    \/ /\ size > 0 /\ mayFail /\ b = Null
       /\ numInUse' = numInUse + 1
       /\ UNCHANGED <<buf, queue>>

keep_all_bulk_cache_get(size, mode, b, margin, mayFail) ==
    \/ Refused(size, b)
    \/ size > 0 /\ TakeCached(size, mode, b)
    \/ /\ size > 0 /\ Fitting(size, mode) = {}
       /\ \/ Allocate(size * (1 + margin), mode, b)
          \/ mayFail /\ b = Null /\ UNCHANGED cacheVars

\* The lookup of the lru cache also takes the buffer out of its list.
lru_bulk_cache_get(size, mode, b, margin, mayFail) ==
    keep_all_bulk_cache_get(size, mode, b, margin, mayFail)

\* provider->bulk_cache.get
CacheGet(c, size, mode, b, mayFail) ==
    \/ c.kind = "default" /\ default_bulk_cache_get(size, mode, b, mayFail)
    \/ c.kind = "keep_all"
       /\ keep_all_bulk_cache_get(size, mode, b, c.margin, mayFail)
    \/ c.kind = "lru" /\ lru_bulk_cache_get(size, mode, b, c.margin, mayFail)

-----------------------------------------------------------------------------

default_bulk_cache_release(b) ==
    /\ buf' = [buf EXCEPT ![b] = NoBuffer]
    /\ numInUse' = numInUse - 1
    /\ UNCHANGED queue

keep_all_bulk_cache_release(b) ==
    /\ numInUse' = numInUse - 1
    /\ buf' = [buf EXCEPT ![b].at = "cached"]
    /\ queue' = [queue EXCEPT ![buf[b].mode] = <<b>> \o @]

\* Mutant: one buffer too many is kept.
lru_bulk_cache_release_late(b, capacity) ==
    LET q == <<b>> \o queue[buf[b].mode]
        full == Len(q) > capacity + 1
    IN  /\ numInUse' = numInUse - 1
        /\ queue' = [queue EXCEPT ![buf[b].mode] = IF full THEN Front(q) ELSE q]
        /\ buf' = [x \in Buffers |->
                     IF full /\ x = Last(q) THEN NoBuffer
                     ELSE IF x = b THEN [buf[b] EXCEPT !.at = "cached"]
                     ELSE buf[x]]

\* The released buffer becomes the newest; the oldest of the mode is freed
\* when there are more than capacity, be it the one just released.
lru_bulk_cache_release(b, capacity) ==
    LET q == <<b>> \o queue[buf[b].mode]
        full == Len(q) > capacity
    IN  /\ numInUse' = numInUse - 1
        /\ queue' = [queue EXCEPT ![buf[b].mode] = IF full THEN Front(q) ELSE q]
        /\ buf' = [x \in Buffers |->
                     IF full /\ x = Last(q) THEN NoBuffer
                     ELSE IF x = b THEN [buf[b] EXCEPT !.at = "cached"]
                     ELSE buf[x]]

\* provider->bulk_cache.release
CacheRelease(c, b) ==
    \/ c.kind = "default" /\ default_bulk_cache_release(b)
    \/ c.kind = "keep_all" /\ keep_all_bulk_cache_release(b)
    \/ c.kind = "lru" /\ lru_bulk_cache_release(b, c.capacity)

-----------------------------------------------------------------------------

\* The default cache keeps nothing: there is nothing to free.
default_bulk_cache_finalize == UNCHANGED cacheVars

\* The cached buffers are freed; the ones in use are only counted, in a
\* message.
keep_all_bulk_cache_finalize ==
    /\ buf' = [b \in Buffers |->
                 IF buf[b].at = "cached" THEN NoBuffer ELSE buf[b]]
    /\ queue' = [m \in Modes |-> <<>>]
    /\ UNCHANGED numInUse

lru_bulk_cache_finalize == keep_all_bulk_cache_finalize

\* provider->bulk_cache.finalize
CacheFinalize(c) ==
    \/ c.kind = "default" /\ default_bulk_cache_finalize
    \/ c.kind = "keep_all" /\ keep_all_bulk_cache_finalize
    \/ c.kind = "lru" /\ lru_bulk_cache_finalize
=============================================================================
