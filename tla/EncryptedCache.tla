--------------------------- MODULE EncryptedCache ---------------------------
(* The in-memory cache of crates/storage/src/encrypted_cache.rs: a map under   *)
(* one write-preferring, non-reentrant lock (parking_lot::RwLock) and the time *)
(* of the last clean-up under another.  set() keeps the write lock of the map  *)
(* across maybe_cleanup(), which takes that lock again through cleanup().      *)
(* A data value is not kept, since no step looks at it.                        *)
EXTENDS Naturals, FiniteSets

CONSTANTS
  CacheThreads,    \* the threads that call the cache
  CacheKeys,       \* its keys
  CacheTtls,       \* what ttl.or(default_ttl) may be, in ticks or NoTtl
  NoTtl,           \* an entry that does not expire
  NoThread,        \* the lock is free
  CacheMax,        \* max_entries
  CacheInterval,   \* cleanup_interval
  MaxCacheTime     \* bound: the last tick of the clock

ASSUME CacheAssumption ==
  /\ CacheMax \in Nat \ {0} /\ CacheInterval \in Nat /\ MaxCacheTime \in Nat
  /\ CacheTtls \subseteq Nat \cup {NoTtl} /\ NoTtl \notin Nat
  /\ NoThread \notin CacheThreads

VARIABLES
  cacheEntries,    \* entries: a function from the keys held to their times
  cacheNow,        \* Instant::now()
  cacheLast,       \* last_cleanup
  cacheWriter,     \* the thread inside entries.write(), or NoThread
  cachePc          \* where each thread is: outside, past the insert, in cleanup

cacheVars == <<cacheEntries, cacheNow, cacheLast, cacheWriter, cachePc>>

CacheEntry == [created : 0..MaxCacheTime, ttl : CacheTtls]

CacheTypeOK ==
  /\ DOMAIN cacheEntries \subseteq CacheKeys
  /\ \A k \in DOMAIN cacheEntries : cacheEntries[k] \in CacheEntry
  /\ Cardinality(DOMAIN cacheEntries) <= CacheMax
  /\ cacheNow \in 0..MaxCacheTime /\ cacheLast \in 0..cacheNow
  /\ cacheWriter \in CacheThreads \cup {NoThread}
  /\ cachePc \in [CacheThreads -> {"idle", "check", "cleanup"}]

Expired(e) == e.ttl # NoTtl /\ cacheNow > e.created + e.ttl
Without(keys) == [k \in DOMAIN cacheEntries \ keys |-> cacheEntries[k]]
Oldest == {k \in DOMAIN cacheEntries :
             \A o \in DOMAIN cacheEntries : cacheEntries[k].created <= cacheEntries[o].created}

CacheInit ==
  /\ cacheEntries = [k \in {} |-> 0]
  /\ cacheNow = 0 /\ cacheLast = 0
  /\ cacheWriter = NoThread
  /\ cachePc = [t \in CacheThreads |-> "idle"]

Calls(t) == cachePc[t] = "idle" /\ cacheWriter = NoThread

\* Mutant of Evicts: any entry makes room.
EvictsAny(k) ==
  IF k \notin DOMAIN cacheEntries /\ Cardinality(DOMAIN cacheEntries) >= CacheMax
    THEN {{o} : o \in DOMAIN cacheEntries} ELSE {{}}

\* The keys set() may evict to make room for k: none, or one of the oldest.
Evicts(k) ==
  IF k \notin DOMAIN cacheEntries /\ Cardinality(DOMAIN cacheEntries) >= CacheMax
    THEN {{o} : o \in Oldest} ELSE {{}}

\* set(), up to the insertion; the lock is kept.
SetInsert(t) ==
  /\ Calls(t)
  /\ \E k \in CacheKeys, ttl \in CacheTtls : \E out \in Evicts(k) :
       cacheEntries' = [o \in (DOMAIN cacheEntries \ out) \cup {k} |->
                          IF o = k THEN [created |-> cacheNow, ttl |-> ttl]
                                   ELSE cacheEntries[o]]
  /\ cacheWriter' = t
  /\ cachePc' = [cachePc EXCEPT ![t] = "check"]
  /\ UNCHANGED <<cacheNow, cacheLast>>

\* maybe_cleanup() up to the call of cleanup(); if it is not time yet, set()
\* returns and releases the lock.
MaybeCleanup(t) ==
  /\ cachePc[t] = "check"
  /\ IF cacheNow - cacheLast >= CacheInterval
       THEN /\ cacheLast' = cacheNow
            /\ cachePc' = [cachePc EXCEPT ![t] = "cleanup"]
            /\ UNCHANGED cacheWriter
       ELSE /\ cachePc' = [cachePc EXCEPT ![t] = "idle"]
            /\ cacheWriter' = NoThread
            /\ UNCHANGED cacheLast
  /\ UNCHANGED <<cacheEntries, cacheNow>>

\* cleanup(), called by a user of the cache or from set(): either way it waits
\* for the lock of the map.
CacheCleanup(t) ==
  /\ cachePc[t] \in {"idle", "cleanup"} /\ cacheWriter = NoThread
  /\ cacheEntries' = Without({k \in DOMAIN cacheEntries : Expired(cacheEntries[k])})
  /\ cachePc' = [cachePc EXCEPT ![t] = "idle"]
  /\ UNCHANGED <<cacheNow, cacheLast, cacheWriter>>

\* remove()
CacheRemove(t) ==
  /\ Calls(t)
  /\ \E k \in DOMAIN cacheEntries : cacheEntries' = Without({k})
  /\ UNCHANGED <<cacheNow, cacheLast, cacheWriter, cachePc>>

\* clear(), which stop(), rotate_identity(), wipe and Drop call.
CacheClear(t) ==
  /\ Calls(t)
  /\ cacheEntries' = [k \in {} |-> 0]
  /\ UNCHANGED <<cacheNow, cacheLast, cacheWriter, cachePc>>

CacheTick ==
  /\ cacheNow < MaxCacheTime
  /\ cacheNow' = cacheNow + 1
  /\ UNCHANGED <<cacheEntries, cacheLast, cacheWriter, cachePc>>

CacheNext ==
  \/ CacheTick
  \/ \E t \in CacheThreads :
       SetInsert(t) \/ MaybeCleanup(t) \/ CacheCleanup(t) \/ CacheRemove(t) \/ CacheClear(t)

CacheSpec == CacheInit /\ [][CacheNext]_cacheVars

-----------------------------------------------------------------------------
\* A live entry only makes room for a new key, it is then one of the oldest,
\* and the cache was full: set() (encrypted_cache.rs:115) gives up neither a
\* younger entry nor more than one.  remove() and clear(), which take what the
\* caller names, leave the cache smaller than it was.
EvictsOldestOnly ==
  [][LET gone == {k \in DOMAIN cacheEntries \ DOMAIN cacheEntries' : ~Expired(cacheEntries[k])}
     IN cacheWriter' # cacheWriter /\ gone # {} =>
          /\ Cardinality(DOMAIN cacheEntries) = CacheMax
          /\ Cardinality(gone) = 1 /\ gone \subseteq Oldest]_cacheVars

\* The thread inside cleanup() is not the one that holds the map: the comment
\* "Release lock" at encrypted_cache.rs:199 says that maybe_cleanup() lets go of
\* the lock before it cleans up.  What it lets go of is last_cleanup's.
NoSelfWait == \A t \in CacheThreads : ~(cachePc[t] = "cleanup" /\ cacheWriter = t)

=============================================================================
