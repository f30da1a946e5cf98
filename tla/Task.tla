--------------------------------- MODULE Task ---------------------------------
(***************************************************************************)
(* coro::task: the life of coroutine frames, from the submission of a task *)
(* to the clean() that destroys it.                                        *)
(*                                                                         *)
(* A root task is submitted to a context.  Coroutine <<r, k>> is the k-th  *)
(* of the chain root r calls with co_await: a call transfers control to    *)
(* the child, the child's final suspend transfers it back to its           *)
(* continuation, which takes its result: the value, or the exception       *)
(* that left it.  A coroutine may also wait for something outside (an      *)
(* event, a mutex, an io operation); its own handle is then submitted to   *)
(* the context when it is over.  Each coroutine calls at most one child,   *)
(* which it may co_await again, and waits at most once.  A task without a  *)
(* coroutine is not awaited: its await_resume reads through a null handle. *)
(***************************************************************************)
EXTENDS Integers, Sequences, FiniteSets, SequencesExt

CONSTANTS Roots,      \* the submitted tasks
          Kept,       \* roots submitted as lvalues: their task object lives on
          Depth,      \* longest chain of co_awaited tasks
          SuspendAt,  \* levels of the chain that wait for something outside
          ThrowAt,    \* levels of the chain that may throw
          Pod,        \* levels that return a value of a pod type
          Generic,    \* levels that return another value; the others are void
          Null        \* the null handle

ASSUME TaskAssumption == /\ Kept \subseteq Roots
                         /\ Depth \in Nat \ {0}
                         /\ SuspendAt \cup ThrowAt \subseteq 1 .. Depth
                         /\ Pod \cup Generic \subseteq 2 .. Depth
                         /\ Pod \cap Generic = {}

Coro     == Roots \X (1 .. Depth)
Root(r)  == <<r, 1>>
Child(c) == <<c[1], c[2] + 1>>

ASSUME NullAssumption == Null \notin Coro

VARIABLES
  frame,           \* per coroutine: what its frame is doing
  m_state,         \* per coroutine: coro_state
  m_continuation,  \* per coroutine
  waiting,         \* coroutines that something outside will resume
  through,         \* coroutines that have waited
  m_task_queue,    \* handles submitted to the context
  coro,            \* exec_one_task's local coro
  active,          \* the coroutine that is executing
  pc,              \* exec_one_task: "idle", "resume", "done?"; or "dead"
  container,       \* per coroutine: what its promise holds
  got,             \* per coroutine: what co_await gave it
  throwing,        \* coroutines that an exception leaves or has left
  broken           \* the coroutines whose frame was read after its destruction

resVars == <<container, got, throwing>>

vars == <<frame, m_state, m_continuation, waiting, through, m_task_queue, coro, active, pc, broken,
          resVars>>

Init ==
  /\ frame = [c \in Coro |-> "none"]
  /\ m_state = [c \in Coro |-> "normal"]
  /\ m_continuation = [c \in Coro |-> Null]
  /\ waiting = {} /\ through = {}
  /\ m_task_queue = <<>>
  /\ coro = Null /\ active = Null /\ pc = "idle"
  /\ container = [c \in Coro |-> "none"] /\ got = container
  /\ throwing = {}
  /\ broken = {}

\* Control has come back from a child whose result has not been taken.
Back == active[2] < Depth /\ frame[Child(active)] = "final" /\ got[active] = "none"

\* The body of the active coroutine executes.
Body == pc = "resume" /\ ~Back /\ active \notin throwing

-----------------------------------------------------------------------------
Bug_Submit(r) ==         \* forgets to detach
  /\ frame[Root(r)] = "none"
  /\ frame' = [frame EXCEPT ![Root(r)] = "suspended"]
  /\ m_task_queue' = Append(m_task_queue, Root(r))
  /\ UNCHANGED <<m_state, m_continuation, waiting, through, coro, active, pc, broken, resVars>>

\* submit_task(task<void>&&) detaches the task, submit_task(task<void>&)
\* leaves it to its owner; the coroutine is at its initial suspend.
Submit(r) ==
  /\ frame[Root(r)] = "none"
  /\ frame' = [frame EXCEPT ![Root(r)] = "suspended"]
  /\ m_state' = [m_state EXCEPT ![Root(r)] = IF r \in Kept THEN "normal" ELSE "detach"]
  /\ m_task_queue' = Append(m_task_queue, Root(r))
  /\ UNCHANGED <<m_continuation, waiting, through, coro, active, pc, broken, resVars>>

\* engine::exec_one_task: take a handle and resume it ...
ExecOneTask ==
  /\ pc = "idle"
  /\ m_task_queue # <<>>
  /\ pc' = "resume"
  /\ coro' = Head(m_task_queue)
  /\ active' = Head(m_task_queue)
  /\ m_task_queue' = Tail(m_task_queue)
  /\ frame' = [frame EXCEPT ![Head(m_task_queue)] = "running"]
  /\ UNCHANGED <<m_state, m_continuation, waiting, through, broken, resVars>>

\* co_await of a new child: await_ready finds that it is not done, and
\* control goes to it.
CoAwait ==
  /\ Body
  /\ active[2] < Depth
  /\ frame[Child(active)] = "none"
  /\ frame' = [frame EXCEPT ![active] = "awaiting", ![Child(active)] = "running"]
  /\ m_continuation' = [m_continuation EXCEPT ![Child(active)] = active]
  /\ active' = Child(active)
  /\ UNCHANGED <<m_state, waiting, through, m_task_queue, coro, pc, broken, resVars>>

\* The coroutine waits for something outside: resume() returns.
Suspend ==
  /\ Body
  /\ active[2] \in SuspendAt
  /\ active \notin through
  /\ frame' = [frame EXCEPT ![active] = "suspended"]
  /\ waiting' = waiting \cup {active}
  /\ through' = through \cup {active}
  /\ active' = Null
  /\ pc' = "done?"
  /\ UNCHANGED <<m_state, m_continuation, m_task_queue, coro, broken, resVars>>

\* What it waits for is over: its handle is submitted.
WakeUp(c) ==
  /\ c \in waiting
  /\ waiting' = waiting \ {c}
  /\ m_task_queue' = Append(m_task_queue, c)
  /\ UNCHANGED <<frame, m_state, m_continuation, through, coro, active, pc, broken, resVars>>

\* The coroutine throws.
Throw ==
  /\ Body
  /\ active[2] \in ThrowAt
  /\ throwing' = throwing \cup {active}
  /\ UNCHANGED <<frame, m_state, m_continuation, waiting, through, m_task_queue, coro, active, pc,
                 broken, container, got>>

\* result() throws what is stored, or, in the generic container, that
\* nothing is.
Throws(c) == container[c] = "exception" \/ (container[c] = "none" /\ c[2] \in Generic)

Die == pc' = "dead" /\ UNCHANGED <<frame, m_state, m_continuation, waiting, through, m_task_queue,
                                   coro, active, broken, resVars>>

\* await_resume in the parent: it goes on with the value, or with the
\* exception, which it catches or not.  The result() of the container of a
\* pod type is noexcept: to throw there ends the process.  A parent that
\* co_awaits the same task again finds it done (await_ready) and comes
\* straight here.
AwaitResume ==
  LET c == Child(active) IN
  /\ pc = "resume" /\ (Back \/ Body)
  /\ active[2] < Depth /\ frame[c] = "final"
  /\ \/ /\ ~Throws(c) \/ c[2] \notin Pod
        /\ got' = [got EXCEPT ![active] = IF Throws(c) THEN "exception" ELSE "value"]
        /\ \/ UNCHANGED throwing
           \/ Throws(c) /\ throwing' = throwing \cup {active}
        /\ UNCHANGED <<frame, m_state, m_continuation, waiting, through, m_task_queue, coro, active,
                       pc, broken, container>>
     \/ Throws(c) /\ c[2] \in Pod /\ Die

\* ~task of the child's task object, a temporary or a local variable of the
\* coroutine that called it.
DestroyChild ==
  /\ pc = "resume" /\ ~Back
  /\ active[2] < Depth
  /\ frame[Child(active)] = "final"
  /\ frame' = [frame EXCEPT ![Child(active)] = "destroyed"]
  /\ container' = [container EXCEPT ![Child(active)] = "none"]
  /\ UNCHANGED <<m_state, m_continuation, waiting, through, m_task_queue, coro, active, pc, broken,
                 got, throwing>>

Bug_EndOf(c) ==          \* unhandled_exception that stores nothing
  IF c[2] \in Pod \cup Generic /\ c \notin throwing THEN "value" ELSE "none"

\* return_value, return_void or unhandled_exception.
EndOf(c) == IF c \in throwing THEN "exception"
            ELSE IF c[2] \in Pod \cup Generic THEN "value" ELSE "none"

Bug_FinalSuspend ==      \* suspend_always: control never goes back to the parent
  /\ pc = "resume"
  /\ active[2] < Depth => frame[Child(active)] # "final"
  /\ container' = [container EXCEPT ![active] = EndOf(active)]
  /\ frame' = [frame EXCEPT ![active] = "final"]
  /\ active' = Null /\ pc' = "done?"
  /\ UNCHANGED <<m_state, m_continuation, waiting, through, m_task_queue, coro, broken, got, throwing>>

\* The body has ended, its locals were destroyed.  final_awaiter: control
\* goes back to the continuation, or resume() returns.
FinalSuspend ==
  LET p == m_continuation[active] IN
  /\ pc = "resume"
  /\ active[2] < Depth => frame[Child(active)] # "final"
  /\ container' = [container EXCEPT ![active] = EndOf(active)]
  /\ \/ /\ p # Null
        /\ frame' = [frame EXCEPT ![active] = "final", ![p] = "running"]
        /\ active' = p
        /\ UNCHANGED pc
     \/ /\ p = Null
        /\ frame' = [frame EXCEPT ![active] = "final"]
        /\ active' = Null /\ pc' = "done?"
  /\ UNCHANGED <<m_state, m_continuation, waiting, through, m_task_queue, coro, broken, got, throwing>>

\* set_exception of the container of a pod type assigns to an exception_ptr
\* of a union that was never constructed: undefined behaviour, which may
\* go unnoticed (FinalSuspend) or end the process.
PodException ==
  /\ pc = "resume" /\ active \in throwing /\ active[2] \in Pod
  /\ active[2] < Depth => frame[Child(active)] # "final"
  /\ Die

Bug_Clean ==             \* destroys the frame whatever its state
  /\ pc = "done?"
  /\ broken' = IF frame[coro] = "destroyed" THEN broken \cup {coro} ELSE broken
  /\ frame' = IF frame[coro] = "final" THEN [frame EXCEPT ![coro] = "destroyed"] ELSE frame
  /\ pc' = "idle"
  /\ coro' = Null
  /\ UNCHANGED <<m_state, m_continuation, waiting, through, m_task_queue, active, resVars>>

Bug_CleanAlways ==       \* clean() without asking done()
  /\ pc = "done?"
  /\ broken' = IF frame[coro] = "destroyed" THEN broken \cup {coro} ELSE broken
  /\ frame' = IF m_state[coro] = "detach" THEN [frame EXCEPT ![coro] = "destroyed"] ELSE frame
  /\ pc' = "idle"
  /\ coro' = Null
  /\ UNCHANGED <<m_state, m_continuation, waiting, through, m_task_queue, active, resVars>>

\* ... then, if it is done, clean it: destroy it if it is detached.  To ask
\* a destroyed frame whether it is done is undefined behaviour.
Clean ==
  /\ pc = "done?"
  /\ broken' = IF frame[coro] = "destroyed" THEN broken \cup {coro} ELSE broken
  /\ frame' = IF frame[coro] = "final" /\ m_state[coro] = "detach"
              THEN [frame EXCEPT ![coro] = "destroyed"] ELSE frame
  /\ pc' = "idle"
  /\ coro' = Null
  /\ UNCHANGED <<m_state, m_continuation, waiting, through, m_task_queue, active, resVars>>

Quiet == pc = "idle" /\ m_task_queue = <<>> /\ waiting = {}

\* The owner of a kept task destroys it after the context has stopped.
DestroyKept(r) ==
  /\ r \in Kept
  /\ Quiet /\ frame[Root(r)] \in {"final", "destroyed"}
  /\ \A s \in Roots : frame[Root(s)] # "none"
  /\ m_state[Root(r)] = "normal"
  /\ broken' = IF frame[Root(r)] = "destroyed" THEN broken \cup {Root(r)} ELSE broken
  /\ frame' = [frame EXCEPT ![Root(r)] = "destroyed"]
  /\ m_state' = [m_state EXCEPT ![Root(r)] = "none"]
  /\ UNCHANGED <<m_continuation, waiting, through, m_task_queue, coro, active, pc, resVars>>

EngineStep == \/ ExecOneTask \/ CoAwait \/ AwaitResume \/ Suspend \/ Throw
              \/ DestroyChild \/ FinalSuspend \/ PodException \/ Clean

Terminated == /\ \/ pc = "dead"
                 \/ Quiet /\ \A r \in Roots : /\ frame[Root(r)] # "none"
                                             /\ r \in Kept => m_state[Root(r)] = "none"
              /\ UNCHANGED vars

Next == \/ \E r \in Roots : Submit(r) \/ DestroyKept(r)
        \/ \E c \in Coro : WakeUp(c)
        \/ EngineStep
        \/ Terminated

Spec == Init /\ [][Next]_vars

\* The context's thread runs and what a coroutine waits for happens.
FairSpec == /\ Spec
            /\ WF_vars(EngineStep)
            /\ \A r \in Roots : WF_vars(Submit(r))
            /\ \A c \in Coro : WF_vars(WakeUp(c))

-----------------------------------------------------------------------------
(***************************************************************************)
(* Properties.                                                             *)
(***************************************************************************)

\* The continuation of a coroutine that has not finished is alive and waits
\* for it: the final suspend never transfers control to a dead frame.
ContinuationAlive ==
  \A c \in Coro : (m_continuation[c] # Null /\ frame[c] \in {"running", "suspended", "awaiting"}) =>
                     frame[m_continuation[c]] = "awaiting"

\* Every handle that can be resumed is of a live frame: from the queue or
\* from outside, of one that is suspended, and it is held once; as a
\* continuation, of one that awaits (task.hpp 68-76, 206-211).
HandlesAlive ==
  /\ IsInjective(m_task_queue)
  /\ \A c \in ToSet(m_task_queue) \cup waiting : frame[c] = "suspended"
  /\ ToSet(m_task_queue) \cap waiting = {}
  /\ ContinuationAlive

\* "This function will call clean() when handle is done" (engine.hpp 137):
\* exec_one_task asks a live frame whether it is done, never a destroyed one.
NoUseAfterFree == broken = {}

\* Coroutine c waited for something outside while a caller awaited it.
WaitedNested(c) == c[2] > 1 /\ c \in through

\* The only frames that are read after their destruction are those of co_awaited
\* coroutines that had waited: the frame of a submitted task is never read,
\* nor destroyed, a second time (engine.cpp 84-88, task.hpp 222-228).
RootFramesSafe == \A c \in broken : WaitedNested(c)

\* When nothing is left to run, the frame of every detached task has been
\* destroyed, if none of the coroutines it awaited had waited
\* (engine.cpp 85-88, task.hpp 316-333).
DetachedFreed ==
  Quiet => \A r \in Roots \ Kept :
             \/ frame[Root(r)] \in {"none", "destroyed"}
             \/ \E k \in 1 .. Depth : WaitedNested(<<r, k>>)

\* How a coroutine ended is what its caller sees: co_await gives an exception
\* exactly when one has left the child, however often either had waited, and
\* nobody ends without having seen it; and an exception ends the process
\* only if it has left a coroutine that returns a pod type
\* (container.hpp 168-190, task.hpp 141-175, 276-294).
ExceptionsReach ==
  /\ \A p \in Coro : p[2] < Depth =>
       /\ got[p] = "exception" => Child(p) \in throwing
       /\ got[p] = "value" => Child(p) \notin throwing
       /\ (got[p] = "none" /\ frame[p] \in {"final", "destroyed"}) => frame[Child(p)] = "none"
  /\ \A p \in throwing : p[2] \in ThrowAt \/ (p[2] < Depth /\ Child(p) \in throwing)
  /\ pc = "dead" => \E c \in throwing : c[2] \in Pod

\* Every submitted task runs to its final suspend, if the process lives.
RunsToEnd == \A r \in Roots : <>(pc = "dead" \/ frame[Root(r)] \in {"final", "destroyed"})
=============================================================================
