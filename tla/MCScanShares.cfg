CONSTANTS
  Threads = {t1, t2}
  NoThread = NoThread
  Uploads = {u1}
  MaxEntries = 1
  MaxReports = 2
SPECIFICATION FairSpec
INVARIANTS HeldOnlyWhileScanning RescanIsRemembered
PROPERTIES LooperReturns
CHECK_DEADLOCK FALSE
