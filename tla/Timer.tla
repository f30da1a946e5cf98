--------------------------------- MODULE Timer ---------------------------------
(***************************************************************************)
(* coro::time::timer on an engine.  Some of the engine's tasks co_await a  *)
(* timer instead of another io operation.  They share one timer object, as *)
(* a coroutine that sets up a timer for its children does: each lengthens  *)
(* it and awaits it, and the kernel reads the timespec later, when the     *)
(* ring is submitted.                                                      *)
(*                                                                         *)
(* A timeout request with count 1 completes when its time is over, with    *)
(* -ETIME, or with 0 when one completion of another kind was posted since  *)
(* it was submitted.  Time is counted in ticks.                            *)
(***************************************************************************)
EXTENDS Engine

CONSTANTS TimerTasks,   \* the tasks that await the timer
          Adds,         \* what they add to it first: [sec, nsec]
          Garbage,      \* what the uninitialised m_ts of the timer may hold
          TicksPerSec   \* ticks of a second; nsec counts ticks

ASSUME TimerAssumption ==
  /\ TimerTasks \subseteq Tasks /\ Ios = 1
  /\ Adds \subseteq [sec : Nat, nsec : Nat] /\ Adds # {}
  /\ Garbage \subseteq [sec : Int, nsec : Int] /\ Garbage # {}
  /\ TicksPerSec \in Nat \ {0}

VARIABLES
  tm,       \* the timer object's m_ts
  m_ts,     \* per task: the m_ts of its timer_awaiter
  asked,    \* per task: the timer's value when it was awaited
  remain,   \* per task: ticks until its request expires, or Invalid
  waited,   \* per task: ticks since its request was submitted
  hit,      \* timers that saw a completion of another kind
  result    \* per task: the request's result, then that of its callback

timerVars == <<tm, m_ts, asked, remain, waited, hit, result>>
allVars   == <<vars, timerVars>>

Zero == [sec |-> 0, nsec |-> 0]

\* The kernel takes seconds and nanoseconds together, without a carry, and
\* refuses a negative one.
Duration(ts) == ts.sec * TicksPerSec + ts.nsec
Valid(ts)    == ts.sec >= 0 /\ ts.nsec >= 0
Invalid      == -1
Ticks(ts)    == IF Valid(ts) THEN Duration(ts) ELSE Invalid

TimerInit ==
  /\ Init
  /\ tm \in Garbage
  /\ m_ts = [t \in TimerTasks |-> Zero] /\ asked = m_ts
  /\ remain = [t \in TimerTasks |-> 0] /\ waited = remain
  /\ hit = {}
  /\ result = [t \in TimerTasks |-> "none"]

-----------------------------------------------------------------------------
\* add_seconds, add_mseconds, add_useconds, add_nseconds: no carry.
Add(ts, a) == [sec |-> ts.sec + a.sec, nsec |-> ts.nsec + a.nsec]

\* co_await tm.add_...(): the awaiter copies m_ts, prepares the request with
\* a pointer to its copy, and is counted like any other operation.
AwaitTimer ==
  /\ cur \in TimerTasks
  /\ AwaitIo
  /\ \E a \in Adds :
       /\ tm' = Add(tm, a)
       /\ m_ts' = [m_ts EXCEPT ![cur] = tm']
       /\ asked' = [asked EXCEPT ![cur] = tm']
  /\ UNCHANGED <<remain, waited, hit, result>>

AwaitOther == cur \notin TimerTasks /\ AwaitIo /\ UNCHANGED timerVars

Bug_SubmitTimers ==      \* the request points to the timer, not to a copy
  /\ DoIoSubmit
  /\ remain' = [t \in TimerTasks |-> IF t \in kernel' \ kernel THEN Ticks(tm) ELSE remain[t]]
  /\ UNCHANGED <<tm, m_ts, asked, waited, hit, result>>

\* io_uring_submit: the kernel reads the timespec and starts the clock.
SubmitTimers ==
  /\ DoIoSubmit
  /\ remain' = [t \in TimerTasks |-> IF t \in kernel' \ kernel THEN Ticks(m_ts[t]) ELSE remain[t]]
  /\ UNCHANGED <<tm, m_ts, asked, waited, hit, result>>

\* The kernel completes a timer.
TimerFires(t) ==
  /\ t \in TimerTasks /\ Complete(t)
  /\ \/ remain[t] = Invalid /\ result' = [result EXCEPT ![t] = "EINVAL"]
     \/ remain[t] = 0 /\ result' = [result EXCEPT ![t] = "ETIME"]
     \/ remain[t] > 0 /\ t \in hit /\ result' = [result EXCEPT ![t] = "ok"]
  /\ UNCHANGED <<tm, m_ts, asked, remain, waited, hit>>

\* The kernel completes another operation: every timer it holds has seen
\* the one completion it was told to count.
OtherCompletes(t) ==
  /\ t \notin TimerTasks /\ Complete(t)
  /\ hit' = hit \cup (kernel \cap TimerTasks)
  /\ UNCHANGED <<tm, m_ts, asked, remain, waited, result>>

Running(t) == t \in TimerTasks \cap kernel /\ remain[t] > 0

Tick ==
  /\ \E t \in kernel : Running(t)
  /\ remain' = [t \in TimerTasks |-> IF Running(t) THEN remain[t] - 1 ELSE remain[t]]
  /\ waited' = [t \in TimerTasks |-> IF Running(t) THEN waited[t] + 1 ELSE waited[t]]
  /\ UNCHANGED <<vars, tm, m_ts, asked, hit, result>>

\* timer_awaiter::callback: running out of time is what was asked for.
TimerCallback ==
  /\ HandleCqe
  /\ result' = [t \in TimerTasks |-> IF t = Head(m_urc) /\ result[t] = "ETIME" THEN "ok" ELSE result[t]]
  /\ UNCHANGED <<tm, m_ts, asked, remain, waited, hit>>

\* The coroutine goes on, with its result, and the awaiter dies.
Resume ==
  LET t == Head(m_task_queue) IN
  /\ ExecOneTask
  /\ IF t \in TimerTasks
     THEN /\ m_ts' = [m_ts EXCEPT ![t] = Zero] /\ asked' = [asked EXCEPT ![t] = Zero]
          /\ remain' = [remain EXCEPT ![t] = 0] /\ waited' = [waited EXCEPT ![t] = 0]
          /\ hit' = hit \ {t}
          /\ result' = [result EXCEPT ![t] = "none"]
     ELSE UNCHANGED <<m_ts, asked, remain, waited, hit, result>>
  /\ UNCHANGED tm

\* The steps of the engine that no timer takes part in.
EngineOnly ==
  /\ \/ \E th \in Thread : Submit(th)
     \/ ProcessWork \/ WorkDone \/ SqeExhausted \/ Finish
     \/ Check \/ StopCb \/ WaitEventfd \/ PeekBatch \/ CqAdvance
     \/ Start \/ AssignJob \/ RequestStop \/ StopWake \/ Signal
     \/ Terminated
  /\ UNCHANGED timerVars

TimerNext == \/ EngineOnly
             \/ AwaitTimer \/ AwaitOther \/ SubmitTimers \/ TimerCallback \/ Resume
             \/ \E t \in Tasks : TimerFires(t) \/ OtherCompletes(t)
             \/ Tick

TimerSpec == TimerInit /\ [][TimerNext]_allVars

\* The fairness of the engine, and time goes on.
TimerFairness ==
  /\ WF_allVars(\/ AwaitTimer \/ AwaitOther \/ SubmitTimers \/ TimerCallback \/ Resume
                \/ (WorkerStep /\ EngineOnly))
  /\ \A r \in Remote : /\ WF_allVars(Store(r) /\ UNCHANGED timerVars)
                       /\ WF_allVars(WakeUp(r) /\ UNCHANGED timerVars)
  /\ \A t \in Tasks : WF_allVars(TimerFires(t) \/ OtherCompletes(t))
  /\ WF_allVars(Signal /\ UNCHANGED timerVars)
  /\ WF_allVars(RequestStop /\ UNCHANGED timerVars)
  /\ WF_allVars(StopWake /\ UNCHANGED timerVars)
  /\ WF_allVars(Start /\ UNCHANGED timerVars)
  /\ WF_allVars(AssignJob /\ UNCHANGED timerVars)
  /\ WF_allVars(Tick)

FairTimerSpec == TimerSpec /\ TimerFairness

-----------------------------------------------------------------------------
\* The callback has submitted the coroutine with its result.
Resumes(t) == status[t] = "queued" /\ left[t] = 0

Elapsed(t) == waited[t] = Duration(asked[t])

\* However the timer is changed after it was awaited, a request runs for the
\* time the timer had at that moment, and its coroutine is resumed with 0,
\* or with an error when that time was negative; before the time is over
\* only if another operation of the ring has completed (timer.hpp 87-109).
TimerExact == \A t \in TimerTasks :
  /\ Running(t) => remain[t] + waited[t] = Duration(asked[t])
  /\ Resumes(t) => \/ result[t] = "EINVAL" /\ ~Valid(asked[t])
                   \/ result[t] = "ok" /\ Valid(asked[t]) /\ (Elapsed(t) \/ t \in hit)

\* "set count to 1 means we just want to produce 1 cqe" (timer.hpp 190): a
\* timer is resumed when its time is over and not before.
TimerNotEarly == \A t \in TimerTasks : Resumes(t) /\ Valid(asked[t]) => Elapsed(t)
=============================================================================
