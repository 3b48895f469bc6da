SPECIFICATION Spec
CONSTANTS
  MAXPROCESS = 3
  PPPLen = 2
  PPP <- MCOneAndIdle
  PPPMax <- MCOneTick
  UMOD = 7
  PeriodicNames = {2}
  SporadicNames = {1}
  DeviceRates = {}
  AppCalls = {"create", "yield"}
  FastDevices = TRUE
  MaxPid = 4
PROPERTIES
  SlotGoesToItsProcess
