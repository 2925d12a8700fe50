SPECIFICATION FairSpec
CONSTANTS
  Callers = {a, b}
  CronThread = cron
  Ids = {1}
  Names = {f}
  Timers = {t1, t2, t3}
  Absent = Absent
  Null = Null
  Nobody = Nobody
  NoRow = NoRow
  MaxCalls = 3
  MaxCrashes = 0
CHECK_DEADLOCK FALSE
PROPERTIES ApiReturns OrdersCarriedOut
