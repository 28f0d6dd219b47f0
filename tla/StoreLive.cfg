SPECIFICATION FairSpec
CONSTANTS
  Workspace = {"w1"}
  Generation = {"g1", "g2"}
  TaskEpoch = {"t1", "t2"}
  Context = {"", "c1"}
  Request = {"r1"}
  Attempt = {"a1"}
  Intervention = {"i1"}
  Marker = {0, 1}
  Submissions <- LiveSubmissions
  ByteCount <- Bytes
  MaxPending = 2
  MaxPendingBytes = 3
  Writers = {"x1"}
  Limits = {1, 2}
  Delivered = {FALSE}
  Initials <- FreeOrBoundInitials
INVARIANTS
  BoundContextPinsGeneration
PROPERTIES
  QueuedIsSettled
  SwitchIsDecided
