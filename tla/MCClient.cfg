SPECIFICATION FairSpec
CONSTANTS
  Clients = {s1, s2, t1}
  Submitters = {s1, s2}
  Retriers = {t1}
  Sourced = {s1}
  Repos = {r}
  SourceRepo = r
  PackageRepo = r
  NoOne = NoOne
  MaxHead = 2
  MaxPipelines = 3
INVARIANTS TypeOK SubmissionIsOfItsTrees OnePerCommand DefaultIds
PROPERTIES CommandsEnd ImplementsAtomicSync
CHECK_DEADLOCK FALSE
