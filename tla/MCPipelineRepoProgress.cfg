SPECIFICATION Spec
CONSTANTS
  b1 = b1
  r1 = r1
  Workers = {b1, r1}
  Registered <- MCRegistered
  NoPipeline = NoPipeline
  MaxJobs = 1
  RecentLimit = 1
  Pipelines = {p1}
  Readers = {q1}
INVARIANT RepoProgressIsReported
