SPECIFICATION Spec
CONSTANTS
  Pipelines = {p1, p2}
  Uploads = {u1, u2}
  Signed = {u1}
  NoUpload = NoUpload
SYMMETRY Symmetry
CHECK_DEADLOCK FALSE
INVARIANT BuiltMeansStored
