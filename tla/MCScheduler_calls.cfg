SPECIFICATION Spec
CONSTANTS
  MAXPROCESS = 3
  PPPLen = 1
  PPP <- MCOneAndIdle
  PPPMax <- MCOneTick
  UMOD = 7
  PeriodicNames = {2}
  SporadicNames = {1, 3}
  DeviceRates = {1}
  AppCalls = {"create", "terminate", "yield"}
  FastDevices = FALSE
  MaxPid = 4
INVARIANTS
  TypeOK
  CurrentIsLive
  AssertsHold
  RunningDeviceIsHead
  IdleOnlyWhenNothingReady
  IInv
  SporadicQueueExact
  RunningSporadicIsHead
PROPERTIES
  PreemptedSporadicKeepsFront
  ImplementsSporadicLevel
CHECK_DEADLOCK FALSE
