CONSTANTS
  Tasks = {t1, t2}
  TimerTasks = {t1}
  Remote = {r1}
  Worker = Worker
  NoTask = NoTask
  Ios = 1
  kQueCap = 3
  SqEntries = 2
  task_flag = 18
  io_flag = 9
  TicksPerSec = 2
  Adds <- MCAdds
  Garbage <- MCZero
SPECIFICATION TimerSpec
INVARIANTS
  TimerNotEarly
