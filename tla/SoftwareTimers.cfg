SPECIFICATION Spec
CONSTANTS
  kSoftwareTimersMax = 2
  Intervals = {1, 2}
  ClockMod = 16
  MaxId = 3
  MaxLag = 1
  MaxAge = 8
  CallbackOps = {"none", "add", "changeSelf", "deleteSelf", "deleteOther"}
INVARIANTS TypeOK HandlesUnique Punctual
PROPERTIES NeverEarly
