------------------------------ MODULE Scheduler ------------------------------
(***************************************************************************)
(* The scheduler of tinyCoroLab, the worker loop of its contexts and the   *)
(* part of their engines that moves tasks: the main thread submits tasks   *)
(* and calls scheduler::loop(); every context is a jthread that runs       *)
(* context::run; a running task may wait on an event, set it, submit new   *)
(* tasks, and finish.  One action is one atomic operation on shared state  *)
(* together with the thread-local work around it, so every interleaving of *)
(* the atomics of scheduler.cpp and context.cpp is a behaviour.            *)
(*                                                                         *)
(* Abstracted: io_uring requests (empty_io() is always true here), the     *)
(* event's CAS loop (an atomic step here), the capacity of the             *)
(* task queue and the value an eventfd accumulates (only zero / non-zero). *)
(***************************************************************************)
EXTENDS Integers, Sequences, FiniteSets

CONSTANTS N,        \* m_ctx_cnt, the number of contexts
          Static,   \* tasks the main thread submits before loop()
          Dynamic,  \* tasks that running tasks may submit
          Waiters,  \* tasks that co_await the event before they finish
          Setters,  \* tasks that set the event before they finish
          NoTask,   \* "no task", not a task
          NDEBUG    \* TRUE when assert() is compiled out

ASSUME NAssumption    == N \in Nat \ {0}
ASSUME TaskAssumption == /\ IsFiniteSet(Static \cup Dynamic)
                         /\ Static \cap Dynamic = {}
                         /\ NoTask \notin Static \cup Dynamic
ASSUME UseAssumption  == /\ Waiters \cup Setters \subseteq Static \cup Dynamic
                         /\ Waiters \cap Setters = {}
ASSUME BuildAssumption == NDEBUG \in BOOLEAN

Task   == Static \cup Dynamic
Ctx    == 0 .. N - 1       \* context ids; context c runs on thread c
Main   == N                \* the thread that called loop()
Thread == 0 .. N

VARIABLES
  m_stop_token,     \* number of contexts counted as busy
  m_ctx_stop_flag,  \* per context: 1 busy, 0 idle
  m_cur,            \* the dispatcher's round robin position
  m_task_queue,     \* per context: the engine's queue of handles
  eventfd,          \* per context: "zero", "nonzero" or "closed"
  m_num_wait_task,  \* per context: register_wait minus unregister_wait
  stop,             \* per context: stop_requested() of its jthread
  m_job,            \* per context: m_job has been assigned
  ev_set,           \* the event is set
  ev_list,          \* the event's list of awaiters, newest first
  pc,               \* per thread: where it is
  cur,              \* per thread: the task it is resuming
  sub,              \* per thread: the task it is submitting
  old,              \* per thread: value returned by fetch_or / fetch_and
  num,              \* per context: tasks left in this process_work()
  idx,              \* per thread: loop variable of start/join/stop_impl
  walk,             \* per thread: awaiters resume_all_awaiters still has
  status,           \* per task: where the task is
  home,             \* per task: the context it was dispatched to
  passed,           \* tasks that are past their co_await or their set()
  failed            \* "none", or how the process died

schedVars == <<m_stop_token, m_ctx_stop_flag, m_cur>>
ctxVars   == <<m_task_queue, eventfd, m_num_wait_task, stop, m_job>>
evVars    == <<ev_set, ev_list>>
locVars   == <<cur, sub, old, num, idx, walk>>
taskVars  == <<status, home, passed>>
vars      == <<schedVars, ctxVars, evVars, locVars, taskVars, pc, failed>>

MainPc == {"submit", "start", "assign", "join"}
CtxPc  == {"off", "init", "work", "exec", "task", "resume", "check1",
           "ready1", "check2", "ready2", "cb_and", "cb_sub", "notify",
           "notify_wake", "poll", "deinit"}
SubPc  == {"assert", "or", "add", "push", "wake"}

Status == {"unborn",      \* not submitted yet
           "submitting",  \* between dispatch() and the push
           "queued",      \* in the queue of its home, never resumed
           "running",     \* being resumed by its home
           "suspended",   \* in the event's list
           "waking",      \* taken from the list, not yet pushed
           "resumed",     \* pushed by the event, not yet popped
           "done",        \* ran to completion
           "lost"}        \* its handle was dropped with its queue

(***************************************************************************)
(* The constructor's and init_impl's state: every context counts as busy.  *)
(***************************************************************************)
Init ==
  /\ m_stop_token = N
  /\ m_ctx_stop_flag = [c \in Ctx |-> 1]
  /\ m_cur = 0
  /\ m_task_queue = [c \in Ctx |-> <<>>]
  /\ eventfd = [c \in Ctx |-> "zero"]
  /\ m_num_wait_task = [c \in Ctx |-> 0]
  /\ stop = [c \in Ctx |-> FALSE]
  /\ m_job = [c \in Ctx |-> FALSE]
  /\ ev_set = FALSE
  /\ ev_list = <<>>
  /\ pc = [th \in Thread |-> IF th = Main THEN "submit" ELSE "off"]
  /\ cur = [th \in Thread |-> NoTask]
  /\ sub = [th \in Thread |-> NoTask]
  /\ old = [th \in Thread |-> 0]
  /\ num = [c \in Ctx |-> 0]
  /\ idx = [th \in Thread |-> 0]
  /\ walk = [th \in Thread |-> <<>>]
  /\ status = [t \in Task |-> "unborn"]
  /\ home = [t \in Task |-> 0]
  /\ passed = {}
  /\ failed = "none"

\* Thread th, which is at location l, goes on to location m.
Goto(th, l, m) == /\ failed = "none"
                  /\ pc[th] = l
                  /\ pc' = [pc EXCEPT ![th] = m]

\* The process dies at this point of thread th.
Die(th, l, why) == /\ failed = "none"
                   /\ pc[th] = l
                   /\ failed' = why
                   /\ UNCHANGED <<schedVars, ctxVars, evVars, locVars, taskVars, pc>>

-----------------------------------------------------------------------------
(***************************************************************************)
(* scheduler::submit_task_impl: assert, dispatch, fetch_or, fetch_add, and *)
(* engine::submit_task: push, write the eventfd.  The two last steps are   *)
(* also what the event does for every awaiter it resumes.                  *)
(***************************************************************************)

\* The caller: main before loop(), or a task that context th is running.
BeginSubmit(th, t) ==
  /\ status[t] = "unborn"
  /\ IF th = Main THEN t \in Static /\ Goto(th, "submit", "assert")
                  ELSE t \in Dynamic /\ Goto(th, "task", "assert")
  /\ sub' = [sub EXCEPT ![th] = t]
  /\ status' = [status EXCEPT ![t] = "submitting"]
  /\ UNCHANGED <<schedVars, ctxVars, evVars, cur, old, num, idx, walk, home, passed, failed>>

AssertFails(th) ==
  /\ ~ NDEBUG
  /\ m_stop_token = 0
  /\ Die(th, "assert", "submit_assert")

Dispatch(th) ==
  /\ NDEBUG \/ m_stop_token # 0
  /\ Goto(th, "assert", "or")
  /\ home' = [home EXCEPT ![sub[th]] = m_cur]
  /\ m_cur' = (m_cur + 1) % N
  /\ UNCHANGED <<m_stop_token, m_ctx_stop_flag, ctxVars, evVars, locVars, status, passed, failed>>

FetchOr(th) ==
  LET c == home[sub[th]] IN
  /\ Goto(th, "or", "add")
  /\ old' = [old EXCEPT ![th] = m_ctx_stop_flag[c]]
  /\ m_ctx_stop_flag' = [m_ctx_stop_flag EXCEPT ![c] = 1]
  /\ UNCHANGED <<m_stop_token, m_cur, ctxVars, evVars, cur, sub, num, idx, walk, taskVars, failed>>

Bug_FetchAdd(th) ==      \* adds one even when the context was busy already
  /\ Goto(th, "add", "push")
  /\ m_stop_token' = m_stop_token + 1
  /\ UNCHANGED <<m_ctx_stop_flag, m_cur, ctxVars, evVars, locVars, taskVars, failed>>

FetchAdd(th) ==
  /\ Goto(th, "add", "push")
  /\ m_stop_token' = m_stop_token + (1 - old[th])
  /\ UNCHANGED <<m_ctx_stop_flag, m_cur, ctxVars, evVars, locVars, taskVars, failed>>

\* A handle pushed to a context whose thread has left run() is never popped.
Push(th) ==
  LET t == sub[th]
      c == home[t] IN
  /\ Goto(th, "push", "wake")
  /\ m_task_queue' = [m_task_queue EXCEPT ![c] = Append(@, t)]
  /\ status' = [status EXCEPT ![t] = IF @ = "waking" THEN "resumed" ELSE "queued"]
  /\ UNCHANGED <<schedVars, eventfd, m_num_wait_task, stop, m_job, evVars, locVars,
                 home, passed, failed>>

\* uring_proxy::write_eventfd on the eventfd of context c; the write to a
\* closed descriptor fails, which only the assert notices.
WriteEventfd(c) ==
  /\ NDEBUG \/ eventfd[c] # "closed"
  /\ eventfd' = [eventfd EXCEPT ![c] = IF @ = "closed" THEN @ ELSE "nonzero"]

WriteFails(th, l, c) ==
  /\ ~ NDEBUG
  /\ pc[th] = l
  /\ eventfd[c] = "closed"
  /\ Die(th, l, "eventfd_assert")

Bug_Wake(th) ==          \* forgets the write to the eventfd
  /\ Goto(th, "wake", IF th = Main THEN "submit" ELSE "resume")
  /\ sub' = [sub EXCEPT ![th] = NoTask]
  /\ UNCHANGED <<schedVars, ctxVars, evVars, cur, old, num, idx, walk, taskVars, failed>>

Wake(th) ==
  \/ /\ Goto(th, "wake", IF th = Main THEN "submit" ELSE "resume")
     /\ WriteEventfd(home[sub[th]])
     /\ sub' = [sub EXCEPT ![th] = NoTask]
     /\ UNCHANGED <<schedVars, m_task_queue, m_num_wait_task, stop, m_job, evVars,
                    cur, old, num, idx, walk, taskVars, failed>>
  \/ WriteFails(th, "wake", home[sub[th]])

Submit(th) ==
  \/ \E t \in Task : BeginSubmit(th, t)
  \/ AssertFails(th)
  \/ Dispatch(th)
  \/ FetchOr(th)
  \/ FetchAdd(th)
  \/ Push(th)
  \/ Wake(th)

-----------------------------------------------------------------------------
(***************************************************************************)
(* scheduler::loop_impl on the main thread: start every context, join it.  *)
(***************************************************************************)

\* loop() is called once the static tasks are submitted.
CallLoop ==
  /\ \A t \in Static : status[t] # "unborn"
  /\ Goto(Main, "submit", "start")
  /\ UNCHANGED <<schedVars, ctxVars, evVars, locVars, taskVars, failed>>

\* context::start: the thread runs as soon as the jthread is constructed ...
StartThread ==
  LET c == idx[Main] IN
  /\ failed = "none"
  /\ pc[Main] = "start"
  /\ pc' = [pc EXCEPT ![Main] = "assign", ![c] = "init"]
  /\ UNCHANGED <<schedVars, ctxVars, evVars, locVars, taskVars, failed>>

\* ... and only then does make_unique return and m_job get its value.
AssignJob ==
  LET c == idx[Main] IN
  /\ Goto(Main, "assign", IF c + 1 = N THEN "join" ELSE "start")
  /\ m_job' = [m_job EXCEPT ![c] = TRUE]
  /\ idx' = [idx EXCEPT ![Main] = (c + 1) % N]
  /\ UNCHANGED <<schedVars, m_task_queue, eventfd, m_num_wait_task, stop, evVars,
                 cur, sub, old, num, walk, taskVars, failed>>

Join ==
  LET c == idx[Main] IN
  /\ pc[c] = "end"
  /\ Goto(Main, "join", IF c + 1 = N THEN "end" ELSE "join")
  /\ idx' = [idx EXCEPT ![Main] = (c + 1) % N]
  /\ UNCHANGED <<schedVars, ctxVars, evVars, cur, sub, old, num, walk, taskVars, failed>>

MainStep == CallLoop \/ StartThread \/ AssignJob \/ Join \/ Submit(Main)

-----------------------------------------------------------------------------
(***************************************************************************)
(* What a task does while context c is resuming it.                        *)
(***************************************************************************)

Bug_Await(c) ==          \* await_ready without register_wait
  LET t == cur[c] IN
  /\ t \in Waiters \ passed
  /\ ~ ev_set
  /\ Goto(c, "task", "exec")
  /\ ev_list' = <<t>> \o ev_list
  /\ status' = [status EXCEPT ![t] = "suspended"]
  /\ cur' = [cur EXCEPT ![c] = NoTask]
  /\ UNCHANGED <<schedVars, ctxVars, ev_set, sub, old, num, idx, walk, home, passed, failed>>

\* co_await event.wait() on an event that is not set: register_wait, then
\* the awaiter is pushed on the event's list and the task is suspended.
Await(c) ==
  LET t == cur[c] IN
  /\ t \in Waiters \ passed
  /\ ~ ev_set
  /\ Goto(c, "task", "exec")
  /\ m_num_wait_task' = [m_num_wait_task EXCEPT ![c] = @ + 1]
  /\ ev_list' = <<t>> \o ev_list
  /\ status' = [status EXCEPT ![t] = "suspended"]
  /\ cur' = [cur EXCEPT ![c] = NoTask]
  /\ UNCHANGED <<schedVars, m_task_queue, eventfd, stop, m_job, ev_set, sub, old, num,
                 idx, walk, home, passed, failed>>

\* ... on a set event: register_wait and, at once, unregister_wait.
AwaitReady(c) ==
  LET t == cur[c] IN
  /\ t \in Waiters \ passed
  /\ ev_set
  /\ Goto(c, "task", "task")
  /\ passed' = passed \cup {t}
  /\ UNCHANGED <<schedVars, ctxVars, evVars, locVars, status, home, failed>>

\* event_base::set_state: exchange, then resume_all_awaiters over the list.
SetEvent(c) ==
  LET t == cur[c] IN
  /\ t \in Setters \ passed
  /\ Goto(c, "task", "resume")
  /\ ev_set' = TRUE
  /\ ev_list' = <<>>
  /\ walk' = [walk EXCEPT ![c] = ev_list]
  /\ passed' = passed \cup {t}
  /\ status' = [u \in Task |-> IF status[u] = "suspended" THEN "waking" ELSE status[u]]
  /\ UNCHANGED <<schedVars, ctxVars, cur, sub, old, num, idx, home, failed>>

\* The loop of resume_all_awaiters; also where a submission returns to.
ResumeNext(c) ==
  \/ /\ walk[c] = <<>>
     /\ Goto(c, "resume", "task")
     /\ UNCHANGED <<schedVars, ctxVars, evVars, locVars, taskVars, failed>>
  \/ /\ walk[c] # <<>>
     /\ Goto(c, "resume", "push")
     /\ sub' = [sub EXCEPT ![c] = Head(walk[c])]
     /\ walk' = [walk EXCEPT ![c] = Tail(@)]
     /\ UNCHANGED <<schedVars, ctxVars, evVars, cur, old, num, idx, taskVars, failed>>

Finish(c) ==
  LET t == cur[c] IN
  /\ t \in Waiters \cup Setters => t \in passed
  /\ Goto(c, "task", "exec")
  /\ status' = [status EXCEPT ![t] = "done"]
  /\ cur' = [cur EXCEPT ![c] = NoTask]
  /\ UNCHANGED <<schedVars, ctxVars, evVars, sub, old, num, idx, walk, home, passed, failed>>

RunTask(c) == Await(c) \/ AwaitReady(c) \/ SetEvent(c) \/ ResumeNext(c) \/ Finish(c)

-----------------------------------------------------------------------------
(***************************************************************************)
(* context::run on thread c.                                               *)
(***************************************************************************)

InitContext(c) ==
  /\ Goto(c, "init", "work")
  /\ UNCHANGED <<schedVars, ctxVars, evVars, locVars, taskVars, failed>>

\* process_work reads the size of the queue once ...
ProcessWork(c) ==
  /\ Goto(c, "work", "exec")
  /\ num' = [num EXCEPT ![c] = Len(m_task_queue[c])]
  /\ UNCHANGED <<schedVars, ctxVars, evVars, cur, sub, old, idx, walk, taskVars, failed>>

\* ... and executes that many tasks.  A task that the event resumed first
\* runs await_resume, which calls unregister_wait.
ExecOneTask(c) ==
  LET t == Head(m_task_queue[c])
      w == status[t] = "resumed" IN
  /\ num[c] > 0
  /\ m_task_queue[c] # <<>>
  /\ Goto(c, "exec", "task")
  /\ num' = [num EXCEPT ![c] = @ - 1]
  /\ m_task_queue' = [m_task_queue EXCEPT ![c] = Tail(@)]
  /\ m_num_wait_task' = [m_num_wait_task EXCEPT ![c] = IF w THEN @ - 1 ELSE @]
  /\ passed' = IF w THEN passed \cup {t} ELSE passed
  /\ status' = [status EXCEPT ![t] = "running"]
  /\ cur' = [cur EXCEPT ![c] = t]
  /\ UNCHANGED <<schedVars, eventfd, stop, m_job, evVars, sub, old, idx, walk, home, failed>>

WorkDone(c) ==
  /\ num[c] = 0
  /\ Goto(c, "exec", "check1")
  /\ UNCHANGED <<schedVars, ctxVars, evVars, locVars, taskVars, failed>>

Bug_EmptyWaitWork(c) == TRUE   \* forgets the suspended tasks

\* empty_wait_work() without io: every registered wait is over.
EmptyWaitWork(c) == m_num_wait_task[c] = 0

Check1(c) ==
  /\ Goto(c, "check1", IF stop[c] /\ EmptyWaitWork(c) THEN "ready1" ELSE "check2")
  /\ UNCHANGED <<schedVars, ctxVars, evVars, locVars, taskVars, failed>>

Ready1(c) ==
  /\ Goto(c, "ready1", IF m_task_queue[c] # <<>> THEN "work" ELSE "deinit")
  /\ UNCHANGED <<schedVars, ctxVars, evVars, locVars, taskVars, failed>>

Check2(c) ==
  /\ Goto(c, "check2", IF ~ stop[c] /\ EmptyWaitWork(c) THEN "ready2" ELSE "poll")
  /\ UNCHANGED <<schedVars, ctxVars, evVars, locVars, taskVars, failed>>

Ready2(c) ==
  /\ Goto(c, "ready2", IF m_task_queue[c] = <<>> THEN "cb_and" ELSE "poll")
  /\ UNCHANGED <<schedVars, ctxVars, evVars, locVars, taskVars, failed>>

\* The stop callback start_impl installs: fetch_and on the context's flag ...
StopCbAnd(c) ==
  /\ Goto(c, "cb_and", "cb_sub")
  /\ old' = [old EXCEPT ![c] = m_ctx_stop_flag[c]]
  /\ m_ctx_stop_flag' = [m_ctx_stop_flag EXCEPT ![c] = 0]
  /\ UNCHANGED <<m_stop_token, m_cur, ctxVars, evVars, cur, sub, num, idx, walk, taskVars, failed>>

\* ... and fetch_sub on the token; who takes it to zero runs stop_impl.
StopCbSub(c) ==
  /\ Goto(c, "cb_sub", IF m_stop_token = old[c] THEN "notify" ELSE "poll")
  /\ m_stop_token' = m_stop_token - old[c]
  /\ UNCHANGED <<m_ctx_stop_flag, m_cur, ctxVars, evVars, locVars, taskVars, failed>>

\* stop_impl calls notify_stop on every context: request_stop through m_job ...
NotifyStop(c) ==
  LET d == idx[c] IN
  \/ /\ m_job[d]
     /\ Goto(c, "notify", "notify_wake")
     /\ stop' = [stop EXCEPT ![d] = TRUE]
     /\ UNCHANGED <<schedVars, m_task_queue, eventfd, m_num_wait_task, m_job, evVars,
                    locVars, taskVars, failed>>
  \/ /\ ~ m_job[d]
     /\ Die(c, "notify", "null_job")

Bug_NotifyWake(c) ==     \* request_stop without waking the engine
  LET d == idx[c] IN
  /\ Goto(c, "notify_wake", IF d + 1 = N THEN "poll" ELSE "notify")
  /\ idx' = [idx EXCEPT ![c] = (d + 1) % N]
  /\ UNCHANGED <<schedVars, ctxVars, evVars, cur, sub, old, num, walk, taskVars, failed>>

\* ... then m_engine.wake_up(1).
NotifyWake(c) ==
  LET d == idx[c] IN
  \/ /\ Goto(c, "notify_wake", IF d + 1 = N THEN "poll" ELSE "notify")
     /\ WriteEventfd(d)
     /\ idx' = [idx EXCEPT ![c] = (d + 1) % N]
     /\ UNCHANGED <<schedVars, m_task_queue, m_num_wait_task, stop, m_job, evVars,
                    cur, sub, old, num, walk, taskVars, failed>>
  \/ WriteFails(c, "notify_wake", d)

\* poll_work blocks in eventfd_read, which resets the counter.
Poll(c) ==
  /\ eventfd[c] = "nonzero"
  /\ Goto(c, "poll", "work")
  /\ eventfd' = [eventfd EXCEPT ![c] = "zero"]
  /\ UNCHANGED <<schedVars, m_task_queue, m_num_wait_task, stop, m_job, evVars,
                 locVars, taskVars, failed>>

\* engine::deinit closes the eventfd and drops what the queue still holds.
Deinit(c) ==
  /\ Goto(c, "deinit", "end")
  /\ eventfd' = [eventfd EXCEPT ![c] = "closed"]
  /\ m_task_queue' = [m_task_queue EXCEPT ![c] = <<>>]
  /\ status' = [t \in Task |-> IF home[t] = c /\ status[t] \in {"queued", "resumed"}
                               THEN "lost" ELSE status[t]]
  /\ UNCHANGED <<schedVars, m_num_wait_task, stop, m_job, evVars, locVars, home, passed, failed>>

ContextStep(c) ==
  \/ Submit(c) \/ RunTask(c)
  \/ InitContext(c) \/ ProcessWork(c) \/ ExecOneTask(c) \/ WorkDone(c)
  \/ Check1(c) \/ Ready1(c) \/ Check2(c) \/ Ready2(c)
  \/ StopCbAnd(c) \/ StopCbSub(c) \/ NotifyStop(c) \/ NotifyWake(c)
  \/ Poll(c) \/ Deinit(c)

-----------------------------------------------------------------------------
Over == pc[Main] = "end" \/ failed # "none"

\* The process has returned from loop() or died: nothing happens any more.
Terminated == Over /\ UNCHANGED vars

Next == \/ MainStep
        \/ \E c \in Ctx : ContextStep(c)
        \/ Terminated

Spec == Init /\ [][Next]_vars

\* Every thread that can take a step is eventually run by the operating
\* system; nothing is assumed of the order in which threads run.
FairSpec == /\ Spec
            /\ WF_vars(MainStep)
            /\ \A c \in Ctx : WF_vars(ContextStep(c))

-----------------------------------------------------------------------------
(***************************************************************************)
(* Properties.                                                             *)
(***************************************************************************)

TypeSched == /\ m_stop_token \in Int
             /\ m_ctx_stop_flag \in [Ctx -> {0, 1}]
             /\ m_cur \in Ctx
TypeCtx   == /\ m_task_queue \in [Ctx -> Seq(Task)]
             /\ eventfd \in [Ctx -> {"zero", "nonzero", "closed"}]
             /\ m_num_wait_task \in [Ctx -> Int]
             /\ stop \in [Ctx -> BOOLEAN]
             /\ m_job \in [Ctx -> BOOLEAN]
TypeEv    == /\ ev_set \in BOOLEAN
             /\ ev_list \in Seq(Task)
TypeLoc   == /\ cur \in [Thread -> Task \cup {NoTask}]
             /\ sub \in [Thread -> Task \cup {NoTask}]
             /\ old \in [Thread -> {0, 1}]
             /\ num \in [Ctx -> Nat]
             /\ idx \in [Thread -> Ctx]
             /\ walk \in [Thread -> Seq(Task)]
TypeTask  == /\ status \in [Task -> Status]
             /\ home \in [Task -> Ctx]
             /\ passed \subseteq Task
TypePc    == /\ pc \in [Thread -> MainPc \cup CtxPc \cup SubPc \cup {"end"}]
             /\ failed \in {"none", "submit_assert", "eventfd_assert", "null_job"}

\* Every variable has its type; in particular the dispatcher always names an
\* existing context (dispatcher.hpp 70).
TypeOK == TypeSched /\ TypeCtx /\ TypeEv /\ TypeLoc /\ TypeTask /\ TypePc

\* Contexts whose flag says busy, submitters that raised a flag and have not
\* counted it yet, callbacks that lowered a flag and have not counted it yet.
Flagged    == {c \in Ctx : m_ctx_stop_flag[c] = 1}
AddPending == {th \in Thread : pc[th] = "add" /\ old[th] = 0}
SubPending == {c \in Ctx : pc[c] = "cb_sub" /\ old[c] = 1}

\* m_stop_token counts the contexts whose flag is 1, up to the updates that
\* are between the atomic on the flag and the atomic on the token
\* (scheduler.cpp 34-37 and 73-74), whatever the threads' interleaving.
TokenAccounting ==
  m_stop_token + Cardinality(AddPending) = Cardinality(Flagged) + Cardinality(SubPending)

\* The tasks that called register_wait on context c and not yet unregister_wait.
Registered(c) == {t \in Task : home[t] = c /\ status[t] \in {"suspended", "waking", "resumed"}}

\* m_num_wait_task, an atomic<size_t> (context.hpp 152), counts exactly the
\* suspended tasks of its context, in whichever of the three hands they are:
\* the event's list, the setter that walks it, the queue (context.cpp 66-78,
\* event.cpp 7-22); so it never wraps below zero either.
WaitCount == \A c \in Ctx : m_num_wait_task[c] = Cardinality(Registered(c))

Finished(t) == status[t] \in {"unborn", "done"}

\* No task has submitted to the scheduler at run time so far.
StaticOnly == \A t \in Dynamic : status[t] = "unborn"

\* A context whose flag is 0 has no task (scheduler.hpp 100-101: "1 = busy,
\* 0 = idle, no task"), and stop_impl is only called when no task is queued,
\* running or suspended on any context (README.MD 154: the stop signal is
\* sent once all contexts have finished), until a task submits to the
\* scheduler at run time.
IdleFlag == \A c \in Ctx : m_ctx_stop_flag[c] = 0 => \A t \in Task : home[t] = c => Finished(t)
NoEarlyStop == StaticOnly => /\ IdleFlag
                             /\ (\E c \in Ctx : stop[c]) => \A t \in Task : Finished(t)

\* When loop() returns, every task that was submitted has run to completion:
\* no handle was left in the queue or dropped with it (scheduler.hpp 42-46).
AllTasksRun == pc[Main] = "end" => \A t \in Task : Finished(t)

\* A context that sleeps in eventfd_read while it has a task to run, or while
\* it was asked to stop and could, is about to be woken: the eventfd is
\* already non-zero or some thread is on its way to write it.
NoLostWakeup ==
  \A c \in Ctx : (pc[c] = "poll" /\ eventfd[c] = "zero") =>
    /\ m_task_queue[c] # <<>> =>
          \E th \in Thread : pc[th] = "wake" /\ home[sub[th]] = c
    /\ (stop[c] /\ EmptyWaitWork(c)) =>
                         \E d \in Ctx : pc[d] = "notify_wake" /\ idx[d] = c

\* loop() returns (or the process has died): the last context to become idle
\* is noticed, every context gets the stop signal and leaves run().
Termination == <>Over

=============================================================================
