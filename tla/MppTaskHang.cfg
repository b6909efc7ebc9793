CONSTANTS
  Sessions = {s1}
  Tasks = {t1, t2}
  Devices = {d1}
  GrfDevices = {}
  ShutDevices = {}
  HwHangs = TRUE
  Null = Null
SPECIFICATION FairSpec
ACTION_CONSTRAINT AllocatedInOrder
CHECK_DEADLOCK FALSE
INVARIANTS NoUseAfterFree HandledOnce InterruptIsForRunningTask
PROPERTIES IoctlReturns RunningTaskEnds QueueDrains ReleaseHandled
