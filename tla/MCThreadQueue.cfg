SPECIFICATION Spec
CONSTANTS
  Senders = {looper, scanner}
  RecvSize = 2
  NULL = NULL
  MaxSends = 4
INVARIANTS NoLostWakeup
PROPERTIES IsAChannel EveryMessageHandled ShutdownReturns
CHECK_DEADLOCK FALSE
