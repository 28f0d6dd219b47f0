SPECIFICATION Spec
CONSTANTS
  k1 = k1
  k2 = k2
  k3 = k3
  a1 = a1
  Calls <- MCCalls
  Actions = {a1}
  ActionOf <- MCActionOf
  NoCall = NoCall
  Life = 1
  MaxFault = 1
  MaxTime = 1
  MaxWorld = 1
SYMMETRY Alike
INVARIANTS
  GrantTypeOK
  HumanAllowedEffect
  SettlementTellsTruth
PROPERTIES
  GrantIsOneShot
CHECK_DEADLOCK FALSE
