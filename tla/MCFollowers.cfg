SPECIFICATION FairSpec
CONSTANTS
  ISOs = {p0, p1}
  Past = {p0}
  Packages = {k1}
  Followers = {c1}
  MaxISOJobs = 1
  Attempts = 2
  None = None
INVARIANTS TypeOK NotificationsAgree SuccessHasImage AnswersAreFinal
PROPERTY ISOEnds ImplementsAbstractISO
CHECK_DEADLOCK FALSE
