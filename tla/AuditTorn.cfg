SPECIFICATION AuditSpec
CONSTANTS
  Workspace = {"w1"}
  Generation = {"g1", "g2"}
  TaskEpoch = {"t1", "t2"}
  Context = {"", "c1"}
  Request = {"r1"}
  Attempt = {"a1"}
  Intervention = {"i1"}
  Marker = {0, 1}
  Submissions <- SwitchSubmissions
  ByteCount <- Bytes
  MaxPending = 2
  MaxPendingBytes = 3
  x1 = x1
  x2 = x2
  Writers = {x1}
  Limits = {1, 2}
  Delivered = {FALSE}
  Initials <- SwitchInitials
INVARIANTS
  AuditReportsNoCorruption
