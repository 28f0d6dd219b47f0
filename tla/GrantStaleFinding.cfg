SPECIFICATION Spec
CONSTANTS
  k1 = k1
  k2 = k2
  k3 = k3
  a1 = a1
  Calls <- MCCalls
  Actions = {a1}
  ActionOf <- MCActionOf
  NoCall = NoCall
  Life = 1
  MaxFault = 0
  MaxTime = 1
  MaxWorld = 0
SYMMETRY Alike
INVARIANTS
  OldCardGrantsNothing
CHECK_DEADLOCK FALSE
