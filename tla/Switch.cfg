SPECIFICATION Spec
CONSTANTS
  r1 = r1
  r2 = r2
  g1 = g1
  g2 = g2
  Run <- MCRun
  FencedRun <- MCFenced
  Gen <- MCGen
  First <- MCFirst
  NoGen = NoGen
  Nobody = Nobody
  Installer = Installer
  NoFence = NoFence
  Policies = {"observe", "block"}
  Profiles = {"gap_free", "legacy"}
  MaxConcurrent = 1
  MaxTry = 1
  MaxRunCrash = 1
  MaxInstall = 2
  MaxFault = 2
  MaxTrouble = 3
INVARIANTS
  SwitchTypeOK
  QuotaHeld
  SwitchExcludesOldRuns
  FenceHasAuthority
PROPERTIES
  JournalLeadsLive
  SwitchIsAtomic
  EveryTransactionEnds
  EveryFenceCleared
CHECK_DEADLOCK FALSE
