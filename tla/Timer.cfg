CONSTANTS
  Tasks = {t1, t2, t3}
  TimerTasks = {t1, t2}
  Remote = {r1}
  Worker = Worker
  NoTask = NoTask
  Ios = 1
  kQueCap = 3
  SqEntries = 2
  task_flag = 18
  io_flag = 9
  TicksPerSec = 1
  Adds <- MCAdds
  Garbage <- MCGarbage
SPECIFICATION FairTimerSpec
INVARIANTS
  IoAccounting
  NoSleepOnWork
  DrainedAtEnd
  OnePlace
  TimerExact
PROPERTIES
  AllDone
