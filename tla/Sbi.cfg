CONSTANTS
  MAX_HARTS = 2
  MAX_CALLS = 3
  TYPED = 2
SPECIFICATION Spec
INVARIANTS SbiTypeOK NoEventLost RemoteFenceHolds FromConsole ResultIsOwn NoInputLost NoOutputLost
PROPERTIES EveryCallReturns ShutdownReachesHost
CHECK_DEADLOCK FALSE
