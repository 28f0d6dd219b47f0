SPECIFICATION Spec
CONSTANTS
  k1 = k1
  k2 = k2
  k3 = k3
  a1 = a1
  Calls <- MCCalls
  Actions = {a1}
  ActionOf <- MCActionOf
  NoCall = NoCall
  Life = 2
  MaxFault = 0
  MaxTime = 3
  MaxWorld = 0
SYMMETRY Alike
INVARIANTS
  AllowIsHonoured
CHECK_DEADLOCK FALSE
