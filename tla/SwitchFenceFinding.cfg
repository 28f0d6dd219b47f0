SPECIFICATION Spec
CONSTANTS
  r1 = r1
  r2 = r2
  g1 = g1
  g2 = g2
  Run <- MCRun
  FencedRun <- MCFenced
  Gen <- MCGen
  First <- MCFirst
  NoGen = NoGen
  Nobody = Nobody
  Installer = Installer
  NoFence = NoFence
  Policies = {"block"}
  Profiles = {"gap_free", "legacy"}
  MaxConcurrent = 1
  MaxTry = 1
  MaxRunCrash = 0
  MaxInstall = 1
  MaxFault = 0
  MaxTrouble = 3
PROPERTY NoSupersededLease
CHECK_DEADLOCK FALSE
