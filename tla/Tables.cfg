SPECIFICATION TablesSpec
CONSTANTS
  c1 = c1
  c2 = c2
  c4 = c4
  c5 = c5
  c6 = c6
  t1 = t1
  t2 = t2
  t3 = t3
  h1 = h1
  h2 = h2
  h3 = h3
  lan = lan
  lan2 = lan2
  net1 = net1
  net2 = net2
  Conns = {a, b, c3}
  MaxConnections = 2
  ConnectionTimeout = 2
  EvictionInterval = 2
  AggressiveTimeout = 1
  ForceInterval = 2
  LastSecond = 3
  ScoredConns = {c1, c2, c4, c5, c6}
  Tuples = {t1, t2, t3}
  TupleOf <- MCTupleOf
  Endpoints = {h1, h2, h3}
  Ends <- MCEnds
  Outbound = {t1, t2, t3}
  WebTuples = {t3}
  BehModes = {"off", "export", "live", "forensic"}
  MinFlows = 2
  MaxBehConns = 1
  ByteBuckets <- Bytes
  DurBuckets <- Durations
  GapBuckets <- Gaps
  Symbols = 3
  Samples <- MCSamples
  MaxTrained = 2
  Hosts = {lan, lan2, net1, net2}
  Private = {lan, lan2}
  LinkLocal = {}
  Listed = {net2}
  Allowlist = {net1}
  Modes = {"offline", "inline"}
  Traffics <- MCTraffics
  ScanMin = 2
  SshMin = 2
  WormMin = 2
  FloodMin = 3
  FloodRate = 1
  BeaconMin = 3
  MeanMin = 1
  MeanMax = 1
  ManyHits = 4
  SpamMin = 2
  PruneMin = 2
  MaxSources = 1
  MaxBeacons = 1
  MaxHashes = 1
  MaxPackets = 5
  MaxTime = 3
INVARIANTS
  CapsHold
  SignalIsEarned
  DetectorsReport
  DropsAreJustified
  ScoresAreProbabilities
PROPERTIES
  PayloadLeavesPushed
  OnlyIdleLeaves
  SheddingIsJustified
  PeersNeverSignal
  AlertedAreCut
  CandidatesSurvive
CHECK_DEADLOCK FALSE
