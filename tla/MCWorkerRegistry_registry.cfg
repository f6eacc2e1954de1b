SPECIFICATION MCFairSpec
CONSTANTS
  w1 = w1
  w2 = w2
  w3 = w3
  w4 = w4
  h1 = h1
  h2 = h2
  h3 = h3
  d0 = d0
  d1 = d1
  s1 = s1
  s2 = s2
  n1 = n1
  NoNode = NoNode
  NoHost = NoHost
  NoDevice = NoDevice
  Unknown = Unknown
  Servers = {s1, s2}
  Workers = {w1, w2, w3, w4}
  Hosts = {h1, h2, h3}
  Devices = {d0, d1}
  Names = {n1, 1}
  HostOf <- MCHostOf
  Configured <- MCConfigured
  Claims <- MCClaims
  LegacyHosts <- MCLegacyHosts
  LegacyNames <- MCLegacyNames
  MaxStarts = 2
  MaxFaults = 1
  Scopes <- AllScopes
INVARIANTS
  TypeOK
  NodesDiffer
  BalancerIsRegistered
PROPERTIES
  BindingsSettle
  BeatingIsKnown
CHECK_DEADLOCK FALSE
