SPECIFICATION Spec
CONSTANTS
  Workspace = {"w1", "w2"}
  Generation = {"g1", "g2", "g3"}
  TaskEpoch = {"t1", "t2"}
  Context = {"", "c1", "c2"}
  Request = {"r1", "r2"}
  Attempt = {"a1", "a2"}
  Intervention = {"i1", "i2"}
  Marker = {0}
  Bodies <- EveryBody
  Initial <- FreeInitial
  MaxEvents = 10
  MaxLife = 6
INVARIANTS
  TypeOK
  StateDecodable
  OneTerminal
  SuccessIsVerified
  UnknownNotRetried
  DispatchSpendsPreparation
  InterventionAnswersUnknown
  ApprovalSettledOnce
  GenerationsNotMixed
CONSTRAINT OneAlphabet
\* The chain stops at MaxEvents, and a chain may reach a state that accepts
\* none of its events.
CHECK_DEADLOCK FALSE
