SPECIFICATION Spec
CONSTANTS
  Callers = {a, b}
  CronThread = cron
  Ids = {1, 2}
  Names = {f}
  Timers = {t1, t2}
  Absent = Absent
  Null = Null
  Nobody = Nobody
  NoRow = NoRow
  MaxCalls = 4
  MaxCrashes = 1
SYMMETRY Perms
CHECK_DEADLOCK FALSE
INVARIANTS  TimerHasRow
PROPERTIES NoShotLost CalledWhileWanted
