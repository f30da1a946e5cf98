# A TLA+ verification project for tinyCoroLab

tinyCoroLab is a C++20 coroutine runtime: tasks are coroutines, contexts are
threads that resume them, engines hold the queues and an `io_uring`, and a
scheduler spreads tasks over contexts and decides when everything has finished.
Coroutines synchronise with event, latch, mutex, wait_group and
condition_variable, sleep on timers and talk over tcp sockets. This directory
models those protocols in TLA+, checks them with TLC on small instances, and
proves with TLAPS, for every value of the constants, each invariant that the
passing runs check and the refinement of the mutex.

    tlc -config Scheduler.cfg Scheduler            # one run
    tlapm SchedulerProofs.tla                      # the proofs of one module

`PROJECT.json` lists the runs, what each is about, the lines of the source every
definition stands for, the known disagreements between code and comments
(`findings`), and what is hard to test in this code (`hazards`).

## 1. Inventory

| component | state | operations | meets |
|---|---|---|---|
| scheduler (`scheduler.cpp/.hpp`, `dispatcher.hpp`) | `m_stop_token`, one flag per context, round robin position | `init`, `submit`, `loop`, stop callback, `stop_impl` | contexts (start, submit, notify, join) |
| context (`context.cpp/.hpp`) | its jthread, `m_num_wait_task`, stop callback | `start`, `run`, `notify_stop`, `submit_task`, `register_wait`, `unregister_wait` | its engine; called by every awaiter |
| engine (`engine.cpp/.hpp`) | task queue, two io counters, completion array | `submit_task`, `exec_one_task`, `poll_submit`, `add_io_submit`, `empty_io` | uring_proxy, the library queue |
| uring_proxy | io_uring, eventfd, fixed descriptors | eventfd read/write, get a submission entry, submit, peek, advance | the kernel |
| io awaiters (`io/`) | a submission entry, `io_info` | construct (prepare, count), suspend, callback | engine |
| timer (`timer.hpp`) | a timespec, copied into its awaiter | `add_*`, co_await, callback | engine, the kernel's clock |
| fixed descriptors (`marked_buffer.hpp`, `base_io_type.hpp`, `uring_proxy.hpp`) | free places and descriptor numbers per engine, the table registered with its ring | borrow, assign, return | connectors, the kernel |
| tcp (`io/net/tcp/`) | socket number, borrowed place, flag | server: construct, accept; client: construct, connect; connector: construct, read, write, close | io awaiters, fixed descriptors |
| task (`task.hpp`, `container.hpp`) | frame, continuation, `coro_state`, result or exception | co_await, return, throw, final suspend, detach, clean, destroy | engine (`exec_one_task`) |
| event, latch | `m_state`: "set" or a list of awaiters; the container of the value; a counter | wait, set, count_down | contexts of the waiters |
| mutex | `m_state`: free, locked or a stack; `m_resume_list_head` | lock, try_lock, unlock | contexts of the waiters |
| wait_group | a counter and a stack, two atomics | wait, add, done | contexts of the waiters |
| condition_variable | a list under a spinlock | wait, notify_one, notify_all | mutex (its awaiter *is* a mutex awaiter) |
| allocator, log, utils, concepts | | | not modelled, section 8 |
| channel, when_all, parallel | stubs | | no behaviour yet |

What is hard here:

* **Stopping.** A context that finds itself idle clears a flag and decrements a
  token; a submission raises the flag and increments the token. Each side uses
  two separate atomics, and the test for idleness comes before both. Correct
  means: stop is sent only when every task has finished, it is always sent in
  the end, and the count is exact at every moment.
* **Sleeping.** A context sleeps in `eventfd_read` after it has looked at its
  queue; tasks, io completions and the stop request arrive in between, all
  through the one eventfd. Correct means: nobody sleeps on work.
* **Handing over.** Awaiters live in coroutine frames and are linked into
  lock-free lists. A resumed coroutine may run on another thread and destroy its
  frame while the list is still being walked. Correct means: every waiter is
  resumed exactly once, in order where order is promised, and nothing dead is read.
* **Counting waits.** Every suspension registers a wait on the context so that
  it is not taken for idle; forgetting or doubling one hangs or stops it early.
* **Frames.** A handle that is resumed may finish other coroutines, the caller
  included, before `resume()` returns; a result or an exception crosses from a
  dying frame to the one that awaits it.
* **Names that are used again.** An operation is prepared at one time and read by
  the kernel at another: descriptor numbers, places of the fixed table and
  timespecs may have changed hands in between.
* **Limits.** Queue and ring are bounded and the worker pushes to its own queue.

## 2. Modules

| module | models | atomicity and abstraction |
|---|---|---|
| `Scheduler` | scheduler, dispatcher, `context::run`, the task-moving part of the engine, an event | one action per atomic operation; the event's list is one atomic step here, io is absent (`empty_io` true), the queue unbounded, the eventfd zero / non-zero / closed |
| `Engine` | engine, uring_proxy, io awaiters, the loop of `context::run` under a scheduler or `alone` | bounded queue with claim and store as two steps, ring, kernel, the eventfd's bit fields |
| `Timer`, `MCTimer` | timer and its awaiter | extends `Engine`; time in ticks, the kernel reads the timespec at submission; `MCTimer` gives the timespecs values |
| `Task` | task, promise, the three result containers, `exec_one_task`, clean | frames as a state per coroutine; reading a destroyed frame sets `broken`; a result is "value", "exception" or nothing |
| `Tcp` | tcp_server, tcp_client, tcp_connector, the fixed descriptors, the sockets' side of the kernel | built with asserts or without (`NDEBUG`); what a coroutine does between two suspensions is one step; the process's descriptor table and each ring's registered table map names to files; data is left out |
| `Gate` | what event, latch and wait_group promise | abstract: how many calls are missing, and where each waiter is |
| `Awaiters` | what the three have in common | the shared constants and variables, and how `Gate` sees a waiter |
| `Event` | event | pointer by pointer: `m_next` is garbage once its coroutine went on; a store into the container takes two steps and so does a read, which `result()` begins and the copy ends; an event may be born set, and its type be a pod or not (`ev`) |
| `Latch` | latch | extends `Event`; its run covers the bare event too (`NoLatch`); the unsigned count is converted to the signed counter (`ToInt64`, `Int64Max`); refines `Gate` |
| `Mutex` | mutex | a stack is the sequence of its coroutines, a CAS compares heads |
| `FifoLock` | what the mutex promises | abstract: owner and queue |
| `WaitGroup` | wait_group, its further use, and its end | like `Mutex`; `add()` is open to anybody at any time, a waiter is one call of `wait()`; the object may be destroyed once all waiters are through; refines `Gate`, with one exception that `late` keeps book of. Its operators start with `Wg`, so that one module can extend it and `Latch` |
| `ConditionVariable` | condition_variable | over the FIFO lock, proved to use it as such; a section under the spinlock is one step |

The proofs are in modules of their own, section 5:

| module | theorems about |
|---|---|
| `SchedulerProofs` | `Scheduler` |
| `EngineProofs` | `Engine` and `Timer` |
| `TaskProofs` | `Task` |
| `TcpProofs` | `Tcp` |
| `MutexProofs` | `Mutex` and its refinement of `FifoLock` |
| `AwaiterProofs` | `Event` with `Latch`, and `WaitGroup`; their refinements of `Gate` |
| `ConditionVariableProofs` | `ConditionVariable`, and its use of `FifoLock` |
| `ListLemmas` | what appending, pushing, taking and reversing do to a list without repetition, and to its elements; the least element of a set of naturals |

A variable has the name of the member or local it models; a thread's position is
`pc[thread]`, whose values name the place in the code. Every definition is tied
to its lines in the `map` of `PROJECT.json`. An operator `Bug_X` beside `X` is
`X` with a plausible mistake; it is used by no specification and documents which
mistake the property named in `mutants` would catch.

How actions correspond to code, for the centre of the system:

* `BeginSubmit, (AssertFails | Dispatch), FetchOr, FetchAdd, Push, Wake` are
  `scheduler::submit_task_impl` followed by `engine::submit_task`, on the main
  thread or on the context that runs the submitting task.
* `StartThread, AssignJob` are `context::start`: the thread runs before
  `make_unique` has returned and `m_job` has its value. `Join` is `loop_impl`.
* `ProcessWork, ExecOneTask, WorkDone, Check1, Ready1, Check2, Ready2, Poll,
  Deinit` are `context::run`, one action for each read of shared state.
* `StopCbAnd, StopCbSub, NotifyStop, NotifyWake` are the stop callback and
  `stop_impl`.
* `Await, AwaitReady, SetEvent, ResumeNext, Finish` are what a task does.

And for the parts around it:

* `Engine`: `ProcessWork, ExecOneTask, AwaitIo, SqeExhausted, Submit, WorkDone,
  Check, StopCb, DoIoSubmit, WaitEventfd, PeekBatch, HandleCqe, CqAdvance` are
  one turn of `context::run`; `Start, AssignJob` are `context::start`; with
  `alone` the callback that `start()` installs asks its own thread to stop.
  `Complete, Signal` are the kernel.
* `Timer` refines four of those steps: `AwaitTimer` (the `add_*` and the awaiter),
  `SubmitTimers` (the kernel reads the copy), `TimerCallback`, `Resume`.
* `Task`: after `Throw` the body is left, and `FinalSuspend` stores what `EndOf`
  says, a value or the exception; `AwaitResume` fetches the child's result and
  rethrows it, also when the parent co_awaits a task that is finished already; `Die` is the end of the process where `result()` of a pod type is
  `noexcept`.
* `Event`: `AwaitReady, LoadHead, CasPush, CasFail` are the way into the list;
  `AwaitResume` finds something in the container and `CopyResult` copies it,
  `ResultUnset` is the `T{}` of an empty pod container, `ResultThrows` the
  exception that leaves a `noexcept` function, `ResumeVoid` an `event<void>`.
  `BeginStore, StoreValue` are `return_value`, and `SetState` is `set_state`.
* `Tcp`: `Assign` and `ReturnBack` are `fixed_fds`, over `get_fixed_fd` and
  `back_fixed_fd` of the proxy and `borrow` and `return_back` of the marked
  buffer; `StartServer, ServeNext, ServerEnd, StartClient, MakeConnector, Echo,
  Close, Closed` follow the coroutines of the echo programs from one suspension
  to the next; `TakeSqe` is the moment at which a name becomes a file.

A process that dies (an assert, a null `m_job`) stays in a final state with
`failed` (in `Tcp`, `dead`) set. The default build is Release, without asserts
(`CMakeLists.txt:57`). `NDEBUG` says whether they are compiled in: it is a constant of
`Scheduler`, false in the run `scheduler`, so that the asserts are among what is
reached (with true its properties hold as well), true in `sched_lost`, and either
in the proofs, and a variable of `Tcp`, so that the run and the
proofs are about both builds. The assert of the io awaiters makes no difference, a
null entry ends the process either way (`SqeExhausted`); those of `unlock` are a
property.

Approximations that a reader should know: atomics are sequentially consistent
(the C++ memory orders are not modelled); the dispatcher's position is kept
modulo the number of contexts, which differs from the code's size_t only at its
wrap-around; the AtomicQueueB2 of the library is modelled from its use (a push
claims a place, then stores; `was_size` counts claimed places); the kernel may
signal one eventfd increment for several completions; `io_uring_submit` takes
the whole ring (the code does not look at its result: after a partial submission
the io counters would be wrong); undefined behaviour is a choice over outcomes
(`PodException`: an exception stored in a union member that was never constructed;
`Garbage`: the timespec of a timer that was never set; a read of the event's container
during a store gives a torn value, nothing, or an exception).

## 3. Runs

Passing runs, with the bounds and why they suffice:

| run | instance | shows |
|---|---|---|
| `scheduler` | 2 contexts, 3 tasks submitted before `loop()` (one waits on an event, one sets it) and two that running tasks may submit, one of them a second waiter; asserts compiled in | the counters are exact and no wake-up is lost, also when tasks submit tasks; as long as none is submitted at run time, stop is never sent early and the flag means what its comment says; `loop()` returns unless the process dies. Round robin puts two of the first tasks on one context, so that a context has work beside a suspended task; the late waiter shares a context with the setter or with the other waiter. Two late tasks: the first makes a flag go wrong, the second meets the assert |
| `engine` | 3 tasks with one io each, two of them on a shared timer object, a remote submitter, queue 3, ring 2, under a scheduler or alone, two values of the uninitialised timespec (one negative) | io counters exact, nobody sleeps on a task or a completion, the worker leaves only when drained, a timer runs for the time it had when it was awaited although another task lengthens it before the submission, and everything ends. The fields of the eventfd are as wide as the proofs need them (`io_flag` 9 for 3 tasks, `FieldAssumption`): with a narrower low field completions run over into the other one, and `NoSleepOnWork` fails. The ring is shorter than the queue, so that running out of entries is reached (in the default configuration it is not: the kernel rounds `kEntryLength`, 10240, up to 16384, which is `kQueCap`); at most `kQueCap` tasks exist, so that the worker never blocks on its own push |
| `task` | 2 roots (one detached, one kept), chains of 4: below the root a void, a pod and another result type; levels 1, 2, 4 may wait, 2 and 4 may throw | control always returns to a live parent, with what the child returned or threw; a task runs to its end unless an exception leaves a pod result; the frame of a submitted task is never read or destroyed twice, and a detached one is freed if nothing it awaited had waited. Four levels: each of the three containers is awaited, and an exception passes through the pod one |
| `latch` | 3 waiters, 2 setters, a bare event (born set or not, pod or not) or a latch of count 0 to 3, `Int64Max` 2 | no dead awaiter is read or submitted; refinement of `Gate`, so that nobody passes early or twice; nobody is left behind in a list once the event is set, and everyone is resumed unless the process ends; what co_await yields is what one set() stored, unless the event was born set or is set again. Three waiters give a list with a middle; two sets, an overlap and a store under a reader; count 1, a count_down below zero that sets again; count 2, two calls that are both needed; count 3, one that the signed counter takes for a negative number |
| `mutex` | 3 coroutines, lock/try_lock/unlock for ever | mutual exclusion, no lost or doubled waiter, the asserts, nobody suspended on a mutex that nobody owns, wait counting, refinement of `FifoLock`, no starvation. Three: an owner, a waiter in the resume list and one on the stack at once |
| `wait_group` | 3 waiters, 2 workers, 1 added at any time | refinement of `Gate`: nobody is released twice, and nobody early except by a done() that an add() has overtaken; done() reads no dead awaiter and, unless it was overtaken, no wait_group that a waiter it resumed has destroyed; who is listed in time is resumed. One added coroutine is enough for a second round, with a waiter of each round and one between them |
| `condition_variable` | 2 waiters with predicate, 1 without, 3 producers: notify_one after and before the unlock, notify_all | wait returns with mutex and predicate, each waiter in exactly one list, mutex released on behalf of those sent back, nobody left blocked in lock() when all others rest, all waiters with a predicate served. Three producers: the waiter without predicate may use up one notification |
| `tcp` | one engine, a server with 2 connections, a client, 2 fixed places, 3 descriptors | an operation acts on the socket of its own coroutine, a place is lent to one at a time, a closed socket is held by nobody, no closed number is used, sessions end. Both builds, with a connect() that is refused by EPERM, whose negative is the empty place of the ring, or by another error. Four sockets share three numbers and two places: all are reused, both run out, and a connector without a place is reached. Engines share the process's table only, in which every step looks once; two of them are beyond what TLC finishes in minutes |

Runs that refute what a comment of the code says, one property each:

| run | says | what happens |
|---|---|---|
| `sched_lost` | `loop()` waits for all contexts to finish their job (`scheduler.hpp:43`) | `loop()` returns with a task that a running task submitted never run: the callback cleared the flag of a context to which a task was pushed after `ready()` was read |
| `wait_group_lost` | done() wakes all waiters (`wait_group.cpp:47`) | a waiter that read a positive count pushes itself after the last done() took the list |
| `timer_early` | with count 1 a timer just produces one completion (`timer.hpp:190`) | the count is the number of other completions after which the timeout ends: a timer of a second is resumed with result 0 as soon as another operation of the ring completes |
| `task_use_after_free` | clean() is called when the handle is done (`engine.hpp:137`) | a child resumed by its own handle lets its parent run, which destroys the child before `done()` is asked of it |

Other behaviours the models contain. They are no runs of their own; an invariant
over the variables named shows them.

* `scheduler.cpp:33` says that `cnt` is always 1: an idle context that is woken by
  a left-over eventfd value calls the callback again, `old[c]` is then 0. Harmless,
  the code subtracts `cnt`.
* The assert of `submit_task_impl` can fire when tasks submit tasks on several
  contexts (`failed = "submit_assert"`), although the README allows it
  (`README.MD:154`); with one context it cannot.
* `stop_impl` may wake a context that has already left and closed its eventfd
  (`failed = "eventfd_assert"`), or call `notify_stop` on a context whose `m_job`
  is not assigned yet (`failed = "null_job"`).
* The worker blocks for ever on its own full queue when more than `kQueCap` tasks
  are alive (constants of `Engine`: three tasks, `kQueCap = 2`), although
  `config.h.in:90` says that it executes the task directly.
* A detached task whose awaited coroutine had waited is never cleaned
  (`DetachedFreed` without its second disjunct).
* An event that is born set lets waiters through with nothing stored
  (`event.hpp:57`): `got = "unset"`, the `T{}` of a pod type, or `pc = "terminate"`,
  `result()` throws out of a `noexcept` function. The header says that co_await
  gives the value of set() (`event.hpp:99`).
* A second `set()` overwrites the value under a waiter that copies it, or that asks
  for it while the container is empty (`got = "torn"`, `Dead`; `ResultIsSet`
  without its `SetAgain`). The waiters of one set() are safe.
* A latch whose count does not fit in the signed counter is opened by the first
  count_down() (`latch.hpp:42`).
* A wait_group that is used again can release early: the last done() has taken
  the counter to zero and not yet the list, add(1) and wait() come, and the
  late exchange (`wait_group.cpp:64`) resumes the new waiter although the added
  coroutine has not called done() (`WaitGroupIsGate` without its last disjunct). The
  same done() may find the wait_group destroyed (`SafeWalk` for `late`). A
  program avoids both if it adds only while the counter is positive, or after
  the last done() has returned.
* A wait_group that is destroyed by a waiter which saw the counter at zero by
  itself may be gone before done() exchanges `m_state` (`SafeWalk` for every
  destroyer).
* An exception that leaves a `task<int>` ends the process when it is awaited:
  `container.hpp:168` is `noexcept` (`pc = "dead"` in `Task`); one that leaves a submitted
  task is dropped without a word.
* With `PrepKeepsFlags = FALSE`, as newer versions of liburing behave (the
  `README.MD:99` sends users to the newest), `OpOnOwnFile` fails: the fixed-file
  flag is set before the preparation that clears it, and an index is taken for a
  descriptor. Fixed descriptors are off in the default configuration.
* A context that is used alone and gets no task sleeps for ever; one whose thread
  asks to stop before `m_job` is assigned uses a null pointer.
* In a build without asserts a client whose connect() was refused goes on with the
  negative error as its descriptor (`tcp_echo_client.cpp:14`). With fixed descriptors and a free
  place the update of the table exits (`uring_proxy.hpp:278`, `dead = "update"`), or
  takes -1 for an empty place; without, its read fails, its close() too, and the
  socket stays open (`Refused`). With asserts the process ends at once.
* In such a build `set_fd_noblock` (`utils.cpp:14`) sets nothing, its `fcntl` is an
  argument of an assert.
* The server ends when accept fails once, for instance without a free descriptor;
  `tcp_server` never closes its socket.

## 4. Fairness

Every fairness condition is weak fairness of a thread's next step: the operating
system runs every runnable thread. Strong fairness is used only for the
successful branch of a CAS loop (`CasPush`, `CasLock`): a compare_exchange_weak
that finds its expected value again and again does not fail for ever.
`Mutex` assumes in addition that a critical section ends, and nothing about
who asks for the lock. `Engine` assumes that the kernel completes and signals
what it was given and that somebody stops the context in the end, as the
scheduler does; `Timer` that the clock goes on; `Task` that what a coroutine
waits for happens; `Tcp` that engines run and submit what is ready, and nothing
of the peers: a peer that never leaves keeps its session alive.
No fairness is assumed of the order of threads, of submissions or of notifications.

## 5. Proofs

Every invariant and every refinement of the passing runs is proved, from the specification without its
fairness, for every value of the constants that meets the named assumptions. Each
proof has the same shape: an inductive invariant, a lemma per action (under it a
step per conjunct that the action can disturb), and theorems that read the result
off. The inductive invariants were checked with TLC on the instances of section 3
before they were proved. Lemmas that end in `Kept` or `Frame` say what a step
keeps by leaving variables alone.

**Scheduler**, for every `N`, every finite set of tasks, either setting of `NDEBUG`.

* `TypeCorrect`. `TypeOK` is not inductive: a thread that is about to push must
  have a task in hand. `TypeInv == TypeOK /\ SubTyped` adds that.
* `TokenCountsFlags`: the token equals the number of raised flags, minus the
  additions and plus the subtractions in flight, also with run-time submissions:
  the early stop of `sched_lost` is not a miscount, it comes from clearing the
  flag after the check. `TokenInv` adds `StartInv`, that a context `start_impl`
  has not reached is off, without which starting one could wipe out a pending
  subtraction. The four atomics have a lemma each, on how the three
  cardinalities change.
* `WaitsAreCounted` rests on `PlaceInv`: a task is in one place (a queue, the
  hand of one submitting thread, one walk of `set()`, the event's list, or
  running), and its status says which. `WaitInv` adds that a context about to
  declare itself idle has no registered wait.
* `NoWakeupIsLost` from `SleepInv`: whenever a context is past the check for
  tasks and has one, its eventfd is not zero or a thread is about to write it;
  the same for the stop request.
* `StopsNotEarly` from `EndInv`: as long as nothing was submitted at run time, a
  context whose flag is down, or who is about to lower it, has no unfinished
  task. With the token equal to the number of flags, zero means that all is over.

**Engine and Timer**, for every number of tasks, operations, threads, any capacity
of queue and ring.

* `IoIsCounted`, `EndsDrained`, `InOnePlace` from `EngineInv`: a task that awaits
  io is in exactly one of the ring, the kernel and the part of the completion
  ring that is not yet handled (`Handled` separates the two parts while a batch
  is worked off), a queued one is in the queue once.
* `NoSleep` from `WakeInv`. A completion is noticed through the low field of the
  eventfd only, so the proof needs that this field does not run over between two
  reads: `LowOK` bounds what it holds by what the kernel still has to signal, and
  `FieldAssumption` says that the field is wide enough. The code's has 24 bits. The
  bound is sharp in kind, not in size: TLC finds a worker that sleeps on a
  completion when the field is too narrow (2 tasks, `io_flag = 3`).
* `TimersOnEngine`: a timer implements the engine's steps that it refines, so
  `TimersKeepEngine` has the four results for the engine with timers.
  `TimersAreExact` adds `RequestInv`: the timespec the kernel reads is the
  awaiter's copy, which later `add_*` on the timer do not reach.

**Task**, for every set of roots, every depth and choice of the levels that wait,
throw, and return a pod or another value: `HandlesStayAlive`, `RootFramesStaySafe`,
`DetachedTasksFreed`, `ExceptionsAlwaysReach`. `TaskInv` says that the frames of a
root form a chain (a coroutine awaits exactly when its child is alive), that at its
end somebody runs or will be resumed (`ChainEnds`, by which nothing is left when
the queue is empty and nobody waits), that the handles outside are those of the
suspended frames, and that a coroutine below the root is only resumed by its own
handle after it had waited (`CoroNested`): this is why every other frame is alive
when `exec_one_task` asks whether it is done.

**Tcp**, for any number of engines, places, descriptors, connections and clients:
`LeasesAreExclusive`, `ClosedReleased`, `DescriptorsGood`, `OpsOnOwnFile`. `TcpInv`
relates the three tables: a number of the process belongs to the socket it was
opened for until that is closed; a place is free once or lent to one coroutine of
that engine, whose file the ring has at that place; an operation that is prepared
names the number or place of its coroutine. In a build without asserts a client
may go on with an error for its number (`Astray`); then it owns no number of the
table, and the ring has at its place no file. `Always`, the invariant that
`TcpInvariant` establishes, is `TcpInv` while the process lives, with `BuildInv`
(only a build without asserts has such a client) and `Fate`: what a process that
has exited died of, the exit in `update_register_fixed_fds` of a client that went
on after a refused connect() and of nothing else. `OpsOnOwnFile` is proved under
`kEnableFixfd => PrepKeepsFlags`: without it, it is false (section 3).

**Mutex**, for any set of coroutines: `MutexExcludes`, `MutexLosesNobody`,
`MutexAsserts`, `MutexCountsWaits` and `MutexIsFifo`, that every step of the mutex
is a step of `FifoLock` or changes nothing there. `MutexAsserts` includes that when
no coroutine owns or passes on the lock nobody is suspended. `MutexInv` has at its heart
`OneCarrier`: while the mutex is not free exactly one coroutine is its owner, in
`unlock`, or between being resumed and running. The queue of the abstract lock is
the resume list followed by the stack reversed; that reversing keeps the elements
and turns a push into an append are lemmas of `ListLemmas`.

**Event and Latch**, for any number of waiters and setters and every set of counts:
`WalksAreSafe`, `ResultsAreSet`, `LatchImplementsGate`, `NobodyIsLeft`. The list
is followed pointer by pointer and needs no notion of reachability: a suspended
awaiter has at most one pointer to it, among `m_state`, the walks of the setters
and the `m_next` of other suspended awaiters (`OneHead`, `OneWalk`, `OneNext`), and
every such pointer leads to a suspended one (`PointInv`). A push moves the pointer
in `m_state` to the new awaiter's `m_next`, a submission moves that of the dying
awaiter to the walk.

* `ResultsAreSet` from `ValueInv`: whoever passes finds the event `Opened`, born set or
  with a set() that has left its store; so an event that was not born set and is set once has
  a value, whole, and nobody is storing, when it is read.

* `LatchImplementsGate`: with the calls that are missing and the place of each
  waiter read off the state, every step is a step of `Gate` or changes nothing
  there. What has to be shown is that the gate is open whenever somebody passes,
  and that it was not asked to close again by a count_down below zero.
* `NobodyIsLeft` is the safety half of `AllReleased`: when the event is set and no
  set() walks, nobody is suspended. At most one pointer to each awaiter is not
  enough for it; `HeldInv` says that there is at least one, and `RankInv` that the
  lists have no cycle (a rank falls along `m_next`; a push gives the new awaiter a
  rank above the old head). With the event set and no walk left, an awaiter that is
  still suspended is held by another one of higher rank, and that by another, which
  a bounded rank excludes.

**WaitGroup**, for any number of waiters, workers and coroutines added later:
`WaitGroupImplementsGate`, `WaitGroupWalksSafe`, `WaitGroupDropsNobody`, with `add()` at any
time. `WgInv`: the counter is the number of coroutines still to call `done()`. It may
rise again, so that several done() can be past their fetch_sub at once; all of them
but one have been overtaken by an add() (`WgLast`), and while one has not, the
counter is zero (`WgZero`): what it resumes it may resume. If somebody was resumed
by such a done() since the last add(), the counter is still zero and no done() that
was not overtaken has its exchange before it (`WgWoken`). `WaitGroupDropsNobody` (`WgListed`: whoever is
suspended is in `m_state` or in the walk of a done()) is what is true of the claim
that `wait_group_lost` refutes: a waiter may push itself too late, but none that is
in a list falls out of it.

**ConditionVariable**, for any sets of waiters with and without predicate and of
producers: `ReturnsWithPredicate`, `StaysInOneList`, `WaitsOnce`, `SleepersRelease`,
`CvKeepsLockProtocol`.
`CvInv` says that exactly one thread acts for the holder of the mutex while it is
held, the holder itself or one that unlocks on behalf of a waiter it evaluated
(`AgentInv`), and that the lists (the condition variable's, the mutex's, those
taken by a notifier) have no common element. `CvKeepsLockProtocol` justifies the
use of `FifoLock` in place of the mutex: whatever the condition variable does to
its mutex, on its own behalf or on that of a sleeper, is a step of `FifoLock`,
which `MutexIsFifo` shows the mutex to implement.

Assumptions: the named ones of the modules (tasks are finitely many, model values
are different from each other, bounds are naturals), which TLC evaluates in every
run, and the hypothesis of `OpsOnOwnFile`.

Only model-checked: liveness (fairness and `ENABLED` are outside the prover), that
is `Termination`, `AllDone`, `RunsToEnd`, `AllReleased`, `NoStarvation`,
`ListedIsReleased`, `AllServed`, `SessionsEnd`; and the four refutations.

## 6. Plan

Done: the modules, runs and theorems above. Left:

1. Prove that the way things end is a consequence of safety where it is one, as
   `NobodyIsLeft`, `MutexAsserts` and `SleepersRelease` do for the synchronisers:
   that a state in which nobody can move is one in which all is done (`Engine`,
   `Tcp`, `Task`).
2. Model: `Engine` with the stop protocol of `Scheduler` (io and scheduler
   together); channel, when_all and parallel once they are implemented.

## 7. Correctness properties by component

* scheduler, context: `TokenAccounting`, `WaitCount`, `NoEarlyStop`,
  `AllTasksRun`, `NoLostWakeup`, `Termination`.
* engine: `IoAccounting`, `NoSleepOnWork`, `DrainedAtEnd`, `OnePlace`, `AllDone`.
* timer: `TimerExact`, `TimerNotEarly`.
* task: `HandlesAlive`, `NoUseAfterFree`, `RootFramesSafe`, `DetachedFreed`,
  `ExceptionsReach`, `RunsToEnd`.
* event, latch: `NoDanglingWalk`, `ResultIsSet`, `LatchIsGate`, `NobodyLeft`,
  `AllReleased`.
* mutex: `MutualExclusion`, `NoLostWaiter`, `UnlockAsserts`, `WaitRegistered`,
  `FifoRefinement`, `NoStarvation`.
* wait_group: `WaitGroupIsGate`, `SafeWalk`, `ListedIsReleased`, `AllWoken`.
* condition_variable: `PredicateOnReturn`, `InOneList`, `WaitOnce`,
  `MutexReleased`, `AllServed`.
* fixed descriptors, tcp: `LeaseExclusive`, `OpOnOwnFile`, `ClosedIsReleased`,
  `NoBadDescriptor`, `SessionsEnd`.

`TypeOK` is proved for `Scheduler`, `Mutex` and `Engine`; the other modules have their types in the inductive invariants of their
proofs.

## 8. Not modelled

* Of the timer: `set_by_duration` and `set_by_timepoint`, which do not compile
  when they are instantiated, and the flag argument, which the code does not
  pass on.
* Of the uring_proxy: `peek_uring`, `wait_uring`, `seen_cqe_entry` and
  `handle_for_each_cqe`, which nothing calls; that `deinit` closes the null
  descriptors; the wrap-around of the eventfd's submission field after 2^20
  unread writes (`uring_proxy.hpp:227`); a partial `io_uring_submit`.
* co_await of a task without a coroutine: `await_resume` reads through a null
  handle, the program must not.
* A done() that no constructor and no add() has counted, which takes the counter of
  the wait_group below zero, and a negative argument of add().
* A value whose constructor throws in the `noexcept` set() of an event.
* `lock_guard`'s move constructor: nothing moves one, the guard that co_await
  returns is constructed in place. A guard that is moved unlocks twice.
* Copies of a `fixed_fds`, and two connectors on one descriptor as in the
  stdin client example: both would return or look up a name they no longer own.
* allocator, log, utils, concepts: wrappers of system calls, formatting,
  compile-time predicates, no protocol of their own.
* `src/net` is an older copy of `io/` that nothing includes.
* channel, when_all, parallel: stubs.
* the data that io operations carry, and the addresses of sockets.
* C++ memory orders; in particular the CAS of `event.cpp:53` publishes an
  awaiter with acquire order only.
* benchmarks, and those examples that only print.
