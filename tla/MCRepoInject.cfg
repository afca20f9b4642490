SPECIFICATION Spec
CONSTANTS
  Builds = 3
  Versions = {1, 3}
  UpstreamVersions = {2}
  Stripped <- MCStripped
  lib = lib
  doc = doc
  Binaries <- MCBinaries
  Upstream = Upstream
  Absent = Absent
SYMMETRY Symmetry
INVARIANTS TypeOK DoneIsInjected ReleasedStays OneBuildPerVersion SourceMatches RemovalMakesRoom
