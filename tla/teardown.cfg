CONSTANTS
  Driver = driver
  Askers = {asker1, asker2}
  Ui = ui
  Nobody = nobody
  MaxRegistrations = 2
SPECIFICATION FairSpec
INVARIANTS TypeOK NoCallbackAfterReturn CallbacksSerial
PROPERTY DestroyReturns
\* The session ends for good once it is destroyed.
CHECK_DEADLOCK FALSE
