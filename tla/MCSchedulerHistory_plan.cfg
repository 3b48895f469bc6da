SPECIFICATION HSpec
CONSTANTS
  MAXPROCESS = 4
  PPPLen = 3
  PPP <- MCTwoAndIdle
  PPPMax <- MCTwoTicks
  UMOD = 17
  PeriodicNames = {1, 2}
  SporadicNames = {}
  DeviceRates = {3}
  AppCalls = {"create", "terminate", "yield"}
  FastDevices = TRUE
  MaxPid = 4
INVARIANTS
  EntryNotOverrun
PROPERTIES
  SlotGoesToItsProcess
CHECK_DEADLOCK FALSE
