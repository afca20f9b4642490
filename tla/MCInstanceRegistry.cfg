SPECIFICATION FairSpec
CONSTANTS
  host = host
  w1 = w1
  w2 = w2
  Workers = {w1, w2}
  Hosts = {host}
  Types = {"builder", "repo"}
  HostOf <- MCHostOf
  TypeOf <- MCTypeOf
  SecondPart <- MCSecondPart
  Interval = 1
  OfflineAfter = 1
  RemoveAfter = 3
  Skew = 1
  Clocks <- MCClocks
  Old = 4
  Absent = Absent
INVARIANTS
  TypeOK
  KeysMeanLife
PROPERTIES
  OnlineIsAlive
  AliveIsListed
  DeadIsForgotten
