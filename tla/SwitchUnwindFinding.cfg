SPECIFICATION Spec
CONSTANTS
  r1 = r1
  r2 = r2
  g1 = g1
  g2 = g2
  Run <- MCRun
  FencedRun <- MCFenced
  Gen <- MCGen
  First <- MCFirst
  NoGen = NoGen
  Nobody = Nobody
  Installer = Installer
  NoFence = NoFence
  Policies = {"block"}
  Profiles = {"legacy"}
  MaxConcurrent = 1
  MaxTry = 1
  MaxRunCrash = 0
  MaxInstall = 1
  MaxFault = 2
  MaxTrouble = 3
PROPERTY FenceNeverSticks
CHECK_DEADLOCK FALSE
