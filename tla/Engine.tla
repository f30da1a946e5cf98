-------------------------------- MODULE Engine --------------------------------
(***************************************************************************)
(* One engine: its bounded task queue, its io_uring and the eventfd that   *)
(* wakes it, driven by the loop of context::run on the worker thread.      *)
(* Other threads submit tasks; a task performs some io operations, one     *)
(* after the other; the kernel completes them in any order.                *)
(*                                                                         *)
(* The context belongs to a scheduler, which stops it when all is done, or *)
(* it is used alone: tasks are submitted, start(), join(), and the stop    *)
(* callback that start() installs asks the context's own thread to stop.   *)
(*                                                                         *)
(* The eventfd keeps its bit fields: a submitted task adds task_flag, a    *)
(* completion adds 1, and WakeByCqe looks at the low field.                *)
(* The queue is the library's AtomicQueueB2 as the engine uses it: a push  *)
(* first claims the next place (was_size counts it from then on) and then  *)
(* stores its handle, for which the place must be one of the kQueCap first;*)
(* a pop takes the oldest place and waits for the handle to be stored.     *)
(* What an operation returns is not modelled.                              *)
(***************************************************************************)
EXTENDS Integers, Sequences, FiniteSets, SequencesExt

CONSTANTS Tasks,          \* the coroutines
          Remote,         \* threads that submit tasks to this context
          Worker,         \* the context's thread
          NoTask,         \* not a task
          Ios,            \* io operations every task performs
          kQueCap,        \* capacity of the task queue
          SqEntries,      \* entries of the submission ring
          task_flag,      \* what submit_task adds to the eventfd (1 << 44)
          io_flag         \* the first value above the eventfd's low field (1 << 24)

ASSUME EngineAssumption ==
  /\ Worker \notin Remote /\ NoTask \notin Tasks
  /\ Ios \in Nat /\ kQueCap \in Nat \ {0} /\ SqEntries \in Nat \ {0}
  /\ io_flag \in Nat \ {0} /\ task_flag \in Nat \ {0} /\ task_flag % io_flag = 0

\* The low field of the eventfd is wide enough for the completions that can
\* be signalled between two reads, and for the stop (24 bits, engine.hpp 202).
ASSUME FieldAssumption == IsFiniteSet(Tasks) /\ io_flag > 2 * Cardinality(Tasks) + 2

VARIABLES
  m_task_queue,          \* the places claimed, oldest first
  stored,                \* the tasks whose handle is in its place
  eventfd,               \* the counter of m_efd
  m_num_io_wait_submit,
  m_num_io_running,
  sq,                    \* the submission ring: tasks whose io is prepared
  kernel,                \* tasks whose io the kernel is working on
  cq,                    \* the completion ring
  signal,                \* the kernel has posted completions it has not signalled
  stop,                  \* "no", "requested" (eventfd not yet written), "sent"
  alone,                 \* the context has no scheduler
  m_job,                 \* m_job has been assigned
  pc,                    \* per thread
  sub,                   \* per thread: the task it is submitting
  cur,                   \* the task the worker is resuming
  num,                   \* process_work: tasks left to execute
  m_urc,                 \* poll_submit: completions still to be handled
  seen,                  \* poll_submit: how many completions it fetched
  status,                \* per task
  left                   \* per task: io operations it still has to do

queVars == <<m_task_queue, stored>>
ioVars  == <<m_num_io_wait_submit, m_num_io_running, sq>>
kerVars == <<kernel, cq, signal>>
locVars == <<sub, cur, num, m_urc, seen>>
tskVars == <<status, left>>
ctxVars == <<alone, m_job>>
vars    == <<queVars, eventfd, ioVars, kerVars, stop, ctxVars, pc, locVars, tskVars>>

Thread == Remote \cup {Worker}

Init ==
  /\ m_task_queue = <<>> /\ stored = {}
  /\ eventfd = 0
  /\ m_num_io_wait_submit = 0 /\ m_num_io_running = 0
  /\ sq = <<>> /\ kernel = {} /\ cq = <<>> /\ signal = FALSE
  /\ stop = "no"
  /\ alone \in BOOLEAN /\ m_job = ~alone
  /\ pc = [th \in Thread |-> IF th # Worker THEN "idle" ELSE IF alone THEN "off" ELSE "work"]
  /\ sub = [th \in Thread |-> NoTask]
  /\ cur = NoTask /\ num = 0 /\ m_urc = <<>> /\ seen = 0
  /\ status = [t \in Tasks |-> "unborn"]
  /\ left = [t \in Tasks |-> Ios]

Goto(th, l, m) == pc[th] = l /\ pc' = [pc EXCEPT ![th] = m]

-----------------------------------------------------------------------------
(***************************************************************************)
(* submit_task, by another thread, by the task the worker is running, or   *)
(* by the callback of a completed io operation: claim, store, wake_up.     *)
(***************************************************************************)
Claim(th, t) ==
  /\ m_task_queue' = Append(m_task_queue, t)
  /\ sub' = [sub EXCEPT ![th] = t]
  /\ status' = [status EXCEPT ![t] = "queued"]

SubmitTask(th, t) ==
  /\ status[t] = "unborn"
  /\ stop = "no"
  /\ (alone /\ th # Worker) => pc[Worker] = "off"
  /\ Goto(th, IF th = Worker THEN "task" ELSE "idle", "store")
  /\ Claim(th, t)
  /\ UNCHANGED <<stored, eventfd, ioVars, kerVars, stop, ctxVars, cur, num, m_urc, seen, left>>

\* A full queue makes the push wait for a pop.
Store(th) ==
  /\ \E i \in 1 .. Len(m_task_queue) : i <= kQueCap /\ m_task_queue[i] = sub[th]
  /\ Goto(th, "store", "wake")
  /\ stored' = stored \cup {sub[th]}
  /\ UNCHANGED <<m_task_queue, eventfd, ioVars, kerVars, stop, ctxVars, locVars, tskVars>>

Bug_WakeUp(th) ==        \* only writes when a wake-up is already pending
  /\ Goto(th, "wake", IF th # Worker THEN "idle" ELSE IF cur # NoTask THEN "task" ELSE "cqe")
  /\ eventfd' = IF eventfd = 0 THEN 0 ELSE eventfd + task_flag
  /\ sub' = [sub EXCEPT ![th] = NoTask]
  /\ UNCHANGED <<queVars, ioVars, kerVars, stop, ctxVars, cur, num, m_urc, seen, tskVars>>

WakeUp(th) ==
  /\ Goto(th, "wake", IF th # Worker THEN "idle" ELSE IF cur # NoTask THEN "task" ELSE "cqe")
  /\ eventfd' = eventfd + task_flag
  /\ sub' = [sub EXCEPT ![th] = NoTask]
  /\ UNCHANGED <<queVars, ioVars, kerVars, stop, ctxVars, cur, num, m_urc, seen, tskVars>>

Submit(th) == (\E t \in Tasks : SubmitTask(th, t)) \/ Store(th) \/ WakeUp(th)

\* context::start of a context used alone, by a thread that has waited for
\* the submitters: the thread runs before m_job has its value.
Start ==
  /\ alone /\ m_task_queue # <<>>
  /\ \A r \in Remote : pc[r] = "idle"
  /\ Goto(Worker, "off", "work")
  /\ UNCHANGED <<queVars, eventfd, ioVars, kerVars, stop, ctxVars, locVars, tskVars>>

AssignJob ==
  /\ pc[Worker] \notin {"off", "dead"} /\ ~m_job
  /\ m_job' = TRUE
  /\ UNCHANGED <<queVars, eventfd, ioVars, kerVars, stop, alone, pc, locVars, tskVars>>

\* context::notify_stop by a thread that knows the submitters are through.
RequestStop ==
  /\ ~alone /\ stop = "no"
  /\ \A r \in Remote : pc[r] = "idle"
  /\ stop' = "requested"
  /\ UNCHANGED <<queVars, eventfd, ioVars, kerVars, ctxVars, pc, locVars, tskVars>>

StopWake ==
  /\ stop = "requested"
  /\ stop' = "sent"
  /\ eventfd' = eventfd + 1
  /\ UNCHANGED <<queVars, ioVars, kerVars, ctxVars, pc, locVars, tskVars>>

-----------------------------------------------------------------------------
(***************************************************************************)
(* The worker: process_work.                                               *)
(***************************************************************************)
ProcessWork ==
  /\ Goto(Worker, "work", "exec")
  /\ num' = Len(m_task_queue)
  /\ UNCHANGED <<queVars, eventfd, ioVars, kerVars, stop, ctxVars, sub, cur, m_urc, seen, tskVars>>

ExecOneTask ==
  /\ num > 0
  /\ m_task_queue # <<>> /\ Head(m_task_queue) \in stored
  /\ Goto(Worker, "exec", "task")
  /\ num' = num - 1
  /\ cur' = Head(m_task_queue)
  /\ m_task_queue' = Tail(m_task_queue)
  /\ stored' = stored \ {Head(m_task_queue)}
  /\ status' = [status EXCEPT ![Head(m_task_queue)] = "running"]
  /\ UNCHANGED <<eventfd, ioVars, kerVars, stop, ctxVars, sub, m_urc, seen, left>>

WorkDone ==
  /\ num = 0
  /\ Goto(Worker, "exec", "check")
  /\ UNCHANGED <<queVars, eventfd, ioVars, kerVars, stop, ctxVars, locVars, tskVars>>

Bug_AwaitIo ==           \* an awaiter that forgets add_io_submit
  /\ Goto(Worker, "task", "exec")
  /\ left[cur] > 0 /\ Len(sq) < SqEntries
  /\ sq' = Append(sq, cur)
  /\ status' = [status EXCEPT ![cur] = "io"]
  /\ left' = [left EXCEPT ![cur] = @ - 1]
  /\ cur' = NoTask
  /\ UNCHANGED <<queVars, eventfd, m_num_io_wait_submit, m_num_io_running, kerVars, stop, ctxVars, sub, num, m_urc, seen>>

\* co_await of an io awaiter: its constructor takes a submission entry,
\* prepares it and calls add_io_submit; await_suspend keeps the handle.
AwaitIo ==
  /\ Goto(Worker, "task", "exec")
  /\ left[cur] > 0 /\ Len(sq) < SqEntries
  /\ sq' = Append(sq, cur)
  /\ m_num_io_wait_submit' = m_num_io_wait_submit + 1
  /\ status' = [status EXCEPT ![cur] = "io"]
  /\ left' = [left EXCEPT ![cur] = @ - 1]
  /\ cur' = NoTask
  /\ UNCHANGED <<queVars, eventfd, m_num_io_running, kerVars, stop, ctxVars, sub, num, m_urc, seen>>

\* No entry is free: the constructor's assert (or the null pointer) ends
\* the process.
SqeExhausted ==
  /\ pc[Worker] = "task" /\ left[cur] > 0 /\ Len(sq) >= SqEntries
  /\ pc' = [th \in Thread |-> "dead"]
  /\ UNCHANGED <<queVars, eventfd, ioVars, kerVars, stop, ctxVars, locVars, tskVars>>

Finish ==
  /\ pc[Worker] = "task" /\ left[cur] = 0
  /\ Goto(Worker, "task", "exec")
  /\ status' = [status EXCEPT ![cur] = "done"]
  /\ cur' = NoTask
  /\ UNCHANGED <<queVars, eventfd, ioVars, kerVars, stop, ctxVars, sub, num, m_urc, seen, left>>

-----------------------------------------------------------------------------
(***************************************************************************)
(* The worker: the stop check of context::run, and poll_submit.            *)
(***************************************************************************)
Bug_empty_io == m_num_io_wait_submit = 0     \* forgets the running ones

empty_io == m_num_io_wait_submit = 0 /\ m_num_io_running = 0

Check ==
  /\ Goto(Worker, "check", IF stop # "no" /\ empty_io
                           THEN IF m_task_queue # <<>> THEN "work" ELSE "end"
                           ELSE IF empty_io /\ m_task_queue = <<>> THEN "stop_cb" ELSE "submit")
  /\ UNCHANGED <<queVars, eventfd, ioVars, kerVars, stop, ctxVars, locVars, tskVars>>

\* An idle context calls its stop callback.  Alone: m_job->request_stop(),
\* which wakes nobody, and through a null pointer when start() has not yet
\* returned.  The scheduler's callback is the subject of module Scheduler.
StopCb ==
  \/ /\ alone => m_job
     /\ Goto(Worker, "stop_cb", "submit")
     /\ stop' = IF alone THEN "sent" ELSE stop
     /\ UNCHANGED <<queVars, eventfd, ioVars, kerVars, ctxVars, locVars, tskVars>>
  \/ /\ alone /\ ~m_job
     /\ pc[Worker] = "stop_cb"
     /\ pc' = [th \in Thread |-> "dead"]
     /\ UNCHANGED <<queVars, eventfd, ioVars, kerVars, stop, ctxVars, locVars, tskVars>>

\* do_io_submit: io_uring_submit hands the ring to the kernel; the counters
\* move by m_num_io_wait_submit, its result is not looked at.
DoIoSubmit ==
  /\ Goto(Worker, "submit", "wait")
  /\ IF m_num_io_wait_submit > 0
     THEN sq' = <<>> /\ kernel' = kernel \cup ToSet(sq)
     ELSE UNCHANGED <<sq, kernel>>
  /\ m_num_io_running' = m_num_io_running + m_num_io_wait_submit
  /\ m_num_io_wait_submit' = 0
  /\ UNCHANGED <<queVars, eventfd, cq, signal, stop, ctxVars, locVars, tskVars>>

Bug_WakeByCqe(v) == v > 0 /\ v < task_flag    \* ignores mixed wake-ups

\* wake_by_cqe: the part of the value below io_flag.
WakeByCqe(v) == v % io_flag > 0

\* wait_eventfd blocks until the counter is positive and resets it.
WaitEventfd ==
  /\ eventfd > 0
  /\ Goto(Worker, "wait", IF WakeByCqe(eventfd) THEN "peek" ELSE "work")
  /\ eventfd' = 0
  /\ UNCHANGED <<queVars, ioVars, kerVars, stop, ctxVars, locVars, tskVars>>

\* peek_batch_cqe: at most m_num_io_running completions.
PeekBatch ==
  LET n == IF Len(cq) < m_num_io_running THEN Len(cq) ELSE m_num_io_running IN
  /\ Goto(Worker, "peek", "cqe")
  /\ m_urc' = SubSeq(cq, 1, n)
  /\ seen' = n
  /\ UNCHANGED <<queVars, eventfd, ioVars, kerVars, stop, ctxVars, sub, cur, num, tskVars>>

\* handle_cqe_entry: the awaiter's callback submits its coroutine.
HandleCqe ==
  /\ m_urc # <<>>
  /\ Goto(Worker, "cqe", "store")
  /\ Claim(Worker, Head(m_urc))
  /\ m_urc' = Tail(m_urc)
  /\ UNCHANGED <<stored, eventfd, ioVars, kerVars, stop, ctxVars, cur, num, seen, left>>

Bug_CqAdvance ==         \* fetches the same completions again
  /\ m_urc = <<>>
  /\ Goto(Worker, "cqe", "work")
  /\ m_num_io_running' = m_num_io_running - seen
  /\ seen' = 0
  /\ UNCHANGED <<queVars, eventfd, m_num_io_wait_submit, sq, kerVars, stop, ctxVars, sub, cur,
                 num, m_urc, tskVars>>

CqAdvance ==
  /\ m_urc = <<>>
  /\ Goto(Worker, "cqe", "work")
  /\ cq' = SubSeq(cq, seen + 1, Len(cq))
  /\ m_num_io_running' = m_num_io_running - seen
  /\ seen' = 0
  /\ UNCHANGED <<queVars, eventfd, m_num_io_wait_submit, sq, kernel, signal, stop, ctxVars, sub, cur,
                 num, m_urc, tskVars>>

WorkerStep ==
  \/ Submit(Worker)
  \/ ProcessWork \/ ExecOneTask \/ WorkDone \/ AwaitIo \/ SqeExhausted \/ Finish
  \/ Check \/ StopCb \/ DoIoSubmit \/ WaitEventfd \/ PeekBatch \/ HandleCqe \/ CqAdvance

-----------------------------------------------------------------------------
(***************************************************************************)
(* The kernel: it posts a completion and then signals the eventfd, once    *)
(* for all the completions it has posted by then.                          *)
(***************************************************************************)
Complete(t) ==
  /\ t \in kernel
  /\ kernel' = kernel \ {t}
  /\ cq' = Append(cq, t)
  /\ signal' = TRUE
  /\ UNCHANGED <<queVars, eventfd, ioVars, stop, ctxVars, pc, locVars, tskVars>>

Signal ==
  /\ signal
  /\ signal' = FALSE
  /\ eventfd' = eventfd + 1
  /\ UNCHANGED <<queVars, ioVars, kernel, cq, stop, ctxVars, pc, locVars, tskVars>>

Terminated == pc[Worker] \in {"end", "dead"} /\ UNCHANGED vars

Next == \/ WorkerStep
        \/ \E r \in Remote : Submit(r)
        \/ Start \/ AssignJob \/ RequestStop \/ StopWake
        \/ \E t \in Tasks : Complete(t)
        \/ Signal
        \/ Terminated

Spec == Init /\ [][Next]_vars

\* Threads run, the kernel completes every operation it was given and
\* signals it, and somebody stops the context in the end.
FairSpec == /\ Spec
            /\ WF_vars(WorkerStep)
            /\ \A r \in Remote : WF_vars(Store(r)) /\ WF_vars(WakeUp(r))
            /\ \A t \in Tasks : WF_vars(Complete(t))
            /\ WF_vars(Signal) /\ WF_vars(RequestStop) /\ WF_vars(StopWake)
            /\ WF_vars(Start) /\ WF_vars(AssignJob)

-----------------------------------------------------------------------------
(***************************************************************************)
(* Properties.                                                             *)
(***************************************************************************)

\* Every variable has its type; in particular the two io counters, size_t in
\* the code, never wrap below zero.
TypeOK ==
  /\ m_task_queue \in Seq(Tasks) /\ stored \subseteq Tasks
  /\ eventfd \in Nat
  /\ m_num_io_wait_submit \in Nat /\ m_num_io_running \in Nat
  /\ sq \in Seq(Tasks) /\ kernel \subseteq Tasks /\ cq \in Seq(Tasks)
  /\ alone \in BOOLEAN /\ m_job \in BOOLEAN
  /\ signal \in BOOLEAN /\ stop \in {"no", "requested", "sent"}
  /\ sub \in [Thread -> Tasks \cup {NoTask}] /\ cur \in Tasks \cup {NoTask}
  /\ num \in Nat /\ m_urc \in Seq(Tasks) /\ seen \in Nat
  /\ status \in [Tasks -> {"unborn", "queued", "running", "io", "done"}]
  /\ left \in [Tasks -> 0 .. Ios]

\* The two counters that decide whether the context may stop are exact: they
\* count the prepared operations and the ones the kernel has or has completed
\* and poll_submit has not yet counted off (engine.cpp 104-105, 128, 136).
IoAccounting ==
  /\ m_num_io_wait_submit = Len(sq)
  /\ m_num_io_running = Cardinality(kernel) + Len(cq)

\* A worker that sleeps in wait_eventfd with a completion to fetch or a task
\* to run is about to be woken (engine.cpp 113-117, 76-77).
NoSleepOnWork ==
  (pc[Worker] = "wait" /\ eventfd = 0) =>
    /\ cq # <<>> => signal
    /\ m_task_queue # <<>> => \E r \in Remote : pc[r] \in {"store", "wake"}

\* When the worker leaves context::run nothing is left behind: no operation
\* the kernel still works on with a pointer into a coroutine frame, no
\* completion and no handle (context.cpp 148-156).
DrainedAtEnd ==
  pc[Worker] = "end" => /\ m_task_queue = <<>> /\ sq = <<>> /\ kernel = {} /\ cq = <<>>
                        /\ \A t \in Tasks : status[t] \in {"unborn", "done"}

\* A task that is in one place is in no other: a handle is never queued twice
\* and a completion never resumes a task that is not waiting for it.
OnePlace ==
  /\ IsInjective(m_task_queue \o sq \o m_urc)
  /\ \A t \in Tasks : status[t] = "io" <=>
       t \in ToSet(sq) \cup kernel \cup ToSet(SubSeq(cq, 1 + seen - Len(m_urc), Len(cq)))

\* Once the thread runs, every task that was submitted runs to its end and
\* the worker leaves its loop, with or without a scheduler, unless the process
\* dies for want of a submission entry or through a null m_job.
AllDone ==
  (pc[Worker] # "off") ~>
     \/ pc[Worker] = "dead"
     \/ pc[Worker] = "end" /\ \A t \in Tasks : status[t] \in {"unborn", "done"}

=============================================================================
