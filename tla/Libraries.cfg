SPECIFICATION Spec
CONSTANTS
  CacheThreads = {t1, t2}
  CacheKeys = {a, b, c}
  NoTtl = NoTtl
  CacheTtls = {1, NoTtl}
  NoThread = NoThread
  CacheMax = 2
  CacheInterval = 2
  MaxCacheTime = 3
  NoiseEnds = {i, r}
  NoCipher = NoCipher
  RekeyInterval = 2
  MaxNonce = 2
  MaxHandshakes = 2
  Initiator = i
  Responder = r
  Garbled = garbled
  Weak = weak
  NoChain = NoChain
  MaxSkip = 1
  MaxCounter = 1
  MaxUses = 3
  MaxRatchets = 2
  MaxArms = 3
  MixNodes = {n1, n2}
  HopCount = 2
  BatchSize = 2
  MaxMixNodes = 2
  MaxMixed = 4
  Relays = {r1, r2}
  RelayLoads = {10, 20}
  Latencies = {7}
  NoLatency = NoLatency
  HistoryMax = 1
  MinPaths = 1
  MaxPaths = 1
  MaxResults = 2
  DhtPeers = {}
  BadPrints = {b}
  Addresses = {a}
  MaxAges = {1}
  MaxDhtTime = 1
  MaxAddresses = 2
  WireBodies <- MCWireBodies
  MaxFrame = 20
  MaxTransports = 2
  PadConfigs <- MCPadConfigs
  PadTargets = {2, 28}
  MaxLength = 5
  FragmentSize = 2
  MaxFragments = 4
  PacketSize = 3
  BandTarget = 7
  ContactCallers = {t1, t2}
  People = {p1, p2}
  TrustLevels = {0, 1}
  Devices = {d}
  MaxListed = 2
  MaxQueued = 1
  RotationInterval = 2
  WarningThreshold = 2
  VaultKeys = {k1, k2}
  MaxVaultTime = 3
  MaxIdentities = 2
  Threshold = 2
  TotalShares = 3
  ShareSecrets = {0, 90, 255}
  Coefficients = {0, 3, 200}
INVARIANTS
  TypeOK
  ReadInOrder
  MessageKeysFresh
  CoverSpentOnce
  OvertakesWithinBatch
  FindsOnlyOurselves
  WireReadsBack
  SizesHold
  ContactBookAgrees
  IdentityHolds
  SharesHold
PROPERTY EvictsOldestOnly
CHECK_DEADLOCK FALSE
