SPECIFICATION CacheSpec
CONSTANTS
  CacheThreads = {t1, t2}
  CacheKeys = {a, b, c}
  CacheTtls = {1, NoTtl}
  NoTtl = NoTtl
  NoThread = NoThread
  CacheMax = 2
  CacheInterval = 2
  MaxCacheTime = 3
INVARIANT NoSelfWait
CHECK_DEADLOCK FALSE
