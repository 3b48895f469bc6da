SPECIFICATION HFairSpec
CONSTANTS
  MAXPROCESS = 4
  PPPLen = 3
  PPP <- MCTwoAndIdle
  PPPMax <- MCOneTick
  UMOD = 9
  PeriodicNames = {1, 2}
  SporadicNames = {}
  DeviceRates = {3, 4}
  AppCalls = {"yield"}
  FastDevices = TRUE
  MaxPid = 4
INVARIANTS
  NoDuplicateDevice
  NeverHalts
PROPERTIES
  PeriodicRuns
  WaitingDeviceRuns
  
