CONSTANTS
  Sessions = {s1}
  Tasks = {t1, t2}
  Devices = {d1}
  GrfDevices = {}
  ShutDevices = {}
  HwHangs = TRUE
  Null = Null
SPECIFICATION Spec
CHECK_DEADLOCK FALSE
PROPERTIES OneTaskAtOnce
