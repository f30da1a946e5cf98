--------------------------- MODULE SchedulerProofs ---------------------------
(***************************************************************************)
(* Theorems about Scheduler, for every number of contexts and every set of *)
(* tasks.                                                                  *)
(***************************************************************************)
EXTENDS Scheduler, ListLemmas, FiniteSetTheorems, SequenceTheorems, TLAPS

\* A thread inside a submission has a task in hand.
SubTyped == \A th \in Thread : pc[th] \in SubPc => sub[th] \in Task

\* The inductive form of TypeOK.
TypeInv == TypeOK /\ SubTyped

-----------------------------------------------------------------------------
(***************************************************************************)
(* Type correctness.                                                       *)
(***************************************************************************)

\* The main thread is none of the contexts' threads, and the round robin
\* successor of a context is a context.
LEMMA ThreadFacts ==
  /\ Main \in Thread /\ Main \notin Ctx /\ 0 \in Ctx
  /\ \A c \in Ctx : c \in Thread /\ c # Main /\ (c + 1) % N \in Ctx
  /\ \A th \in Thread : th # Main => th \in Ctx
BY NAssumption DEF Main, Thread, Ctx

\* init_impl establishes the types.
LEMMA InitType == Init => TypeInv
BY ThreadFacts, NAssumption
   DEF Init, TypeInv, TypeOK, TypeSched, TypeCtx, TypeEv, TypeLoc, TypeTask, TypePc,
       MainPc, CtxPc, SubPc, SubTyped, Status

\* Every step of submit_task_impl keeps the types.
LEMMA SubmitType ==
  ASSUME NEW th \in Thread, TypeInv, Submit(th)
  PROVE  TypeInv'
<1>1. ASSUME NEW t \in Task, BeginSubmit(th, t)
      PROVE  TypeInv'
  <2>1. TypeLoc'
    BY <1>1, ThreadFacts DEF TypeInv, TypeOK, TypeLoc, BeginSubmit
  <2>2. TypeTask'
    BY <1>1, ThreadFacts DEF TypeInv, TypeOK, TypeTask, Status, BeginSubmit
  <2>3. TypeSched' /\ TypeCtx' /\ TypeEv'
    BY <1>1 DEF TypeInv, TypeOK, TypeSched, TypeCtx, TypeEv, schedVars, ctxVars,
        evVars, BeginSubmit
  <2>4. TypePc' /\ SubTyped'
    BY <1>1, ThreadFacts DEF TypeInv, TypeOK, TypePc, MainPc, CtxPc, SubPc,
        SubTyped, TypeLoc, locVars, BeginSubmit, Goto
  <2>. QED BY <2>1, <2>2, <2>3, <2>4 DEF TypeInv, TypeOK
<1>2. CASE AssertFails(th)
  <2>1. TypeSched' /\ TypeCtx' /\ TypeEv' /\ TypeLoc' /\ TypeTask'
    BY <1>2 DEF TypeInv, TypeOK, TypeSched, TypeCtx, TypeEv, TypeLoc, TypeTask,
        schedVars, ctxVars, evVars, locVars, taskVars, AssertFails, Die
  <2>2. TypePc' /\ SubTyped'
    BY <1>2, ThreadFacts DEF TypeInv, TypeOK, TypePc, MainPc, CtxPc, SubPc,
        SubTyped, TypeLoc, locVars, AssertFails, Goto, Die
  <2>. QED BY <2>1, <2>2 DEF TypeInv, TypeOK
<1>3. CASE Dispatch(th)
  <2>1. TypeSched'
    BY <1>3, ThreadFacts DEF TypeInv, TypeOK, TypeSched, Dispatch
  <2>2. TypeTask'
    BY <1>3, ThreadFacts DEF TypeInv, TypeOK, TypeTask, TypeSched, Dispatch
  <2>3. TypeCtx' /\ TypeEv' /\ TypeLoc'
    BY <1>3 DEF TypeInv, TypeOK, TypeCtx, TypeEv, TypeLoc, ctxVars, evVars, locVars,
        Dispatch
  <2>4. TypePc' /\ SubTyped'
    BY <1>3, ThreadFacts DEF TypeInv, TypeOK, TypePc, MainPc, CtxPc, SubPc,
        SubTyped, TypeLoc, locVars, Dispatch, Goto
  <2>. QED BY <2>1, <2>2, <2>3, <2>4 DEF TypeInv, TypeOK
<1>4. CASE FetchOr(th)
  <2>1. TypeSched'
    BY <1>4, ThreadFacts DEF TypeInv, TypeOK, TypeSched, FetchOr
  <2>2. TypeLoc'
    BY <1>4, ThreadFacts DEF TypeInv, TypeOK, TypeLoc, TypeSched, TypeTask,
        SubTyped, SubPc, Goto, FetchOr
  <2>3. TypeCtx' /\ TypeEv' /\ TypeTask'
    BY <1>4 DEF TypeInv, TypeOK, TypeCtx, TypeEv, TypeTask, ctxVars, evVars,
        taskVars, FetchOr
  <2>4. TypePc' /\ SubTyped'
    BY <1>4, ThreadFacts DEF TypeInv, TypeOK, TypePc, MainPc, CtxPc, SubPc,
        SubTyped, TypeLoc, locVars, FetchOr, Goto
  <2>. QED BY <2>1, <2>2, <2>3, <2>4 DEF TypeInv, TypeOK
<1>5. CASE FetchAdd(th)
  <2>1. TypeSched'
    BY <1>5, ThreadFacts DEF TypeInv, TypeOK, TypeSched, TypeLoc, FetchAdd
  <2>2. TypeCtx' /\ TypeEv' /\ TypeLoc' /\ TypeTask'
    BY <1>5 DEF TypeInv, TypeOK, TypeCtx, TypeEv, TypeLoc, TypeTask, ctxVars,
        evVars, locVars, taskVars, FetchAdd
  <2>3. TypePc' /\ SubTyped'
    BY <1>5, ThreadFacts DEF TypeInv, TypeOK, TypePc, MainPc, CtxPc, SubPc,
        SubTyped, TypeLoc, locVars, FetchAdd, Goto
  <2>. QED BY <2>1, <2>2, <2>3 DEF TypeInv, TypeOK
<1>6. CASE Push(th)
  <2>1. TypeCtx'
    BY <1>6, ThreadFacts DEF TypeInv, TypeOK, TypeCtx, TypeTask, SubTyped, SubPc, Goto, Push
  <2>2. TypeTask'
    BY <1>6, ThreadFacts DEF TypeInv, TypeOK, TypeTask, Status, Push
  <2>3. TypeSched' /\ TypeEv' /\ TypeLoc'
    BY <1>6 DEF TypeInv, TypeOK, TypeSched, TypeEv, TypeLoc, schedVars, evVars,
        locVars, Push
  <2>4. TypePc' /\ SubTyped'
    BY <1>6, ThreadFacts DEF TypeInv, TypeOK, TypePc, MainPc, CtxPc, SubPc,
        SubTyped, TypeLoc, locVars, Push, Goto
  <2>. QED BY <2>1, <2>2, <2>3, <2>4 DEF TypeInv, TypeOK
<1>7. CASE Wake(th)
  <2>1. TypeCtx'
    BY <1>7, ThreadFacts DEF TypeInv, TypeOK, TypeCtx, WriteEventfd, Wake,
        WriteFails, Die, ctxVars
  <2>2. TypeLoc'
    BY <1>7, ThreadFacts DEF TypeInv, TypeOK, TypeLoc, Wake, WriteFails, Die, locVars
  <2>3. TypeSched' /\ TypeEv' /\ TypeTask'
    BY <1>7 DEF TypeInv, TypeOK, TypeSched, TypeEv, TypeTask, schedVars, evVars,
        taskVars, Wake, WriteFails, Die
  <2>4. TypePc'
    BY <1>7, ThreadFacts DEF TypeInv, TypeOK, TypePc, MainPc, CtxPc, Wake, Goto, WriteFails, Die
  <2>5. SubTyped'
    BY <1>7, ThreadFacts DEF TypeInv, TypeOK, TypePc, SubPc,
        SubTyped, TypeLoc, locVars, Wake, Goto, WriteFails, Die
  <2>. QED BY <2>1, <2>2, <2>3, <2>4, <2>5 DEF TypeInv, TypeOK
<1>. QED BY <1>1, <1>2, <1>3, <1>4, <1>5, <1>6, <1>7 DEF Submit

\* Every step of loop_impl keeps the types.
LEMMA LoopType ==
  ASSUME TypeInv, CallLoop \/ StartThread \/ AssignJob \/ Join
  PROVE  TypeInv'
<1>1. CASE CallLoop
  <2>1. TypeSched' /\ TypeCtx' /\ TypeEv' /\ TypeLoc' /\ TypeTask'
    BY <1>1 DEF TypeInv, TypeOK, TypeSched, TypeCtx, TypeEv, TypeLoc, TypeTask,
        schedVars, ctxVars, evVars, locVars, taskVars, CallLoop
  <2>2. TypePc' /\ SubTyped'
    BY <1>1, ThreadFacts DEF TypeInv, TypeOK, TypePc, MainPc, CtxPc, SubPc,
        SubTyped, TypeLoc, locVars, CallLoop, Goto
  <2>. QED BY <2>1, <2>2 DEF TypeInv, TypeOK
<1>2. CASE StartThread
  <2>1. TypeSched' /\ TypeCtx' /\ TypeEv' /\ TypeLoc' /\ TypeTask'
    BY <1>2 DEF TypeInv, TypeOK, TypeSched, TypeCtx, TypeEv, TypeLoc, TypeTask,
        schedVars, ctxVars, evVars, locVars, taskVars, StartThread
  <2>2. TypePc' /\ SubTyped'
    BY <1>2, ThreadFacts DEF TypeInv, TypeOK, TypePc, MainPc, CtxPc, SubPc,
        SubTyped, TypeLoc, locVars, StartThread, Goto
  <2>. QED BY <2>1, <2>2 DEF TypeInv, TypeOK
<1>3. CASE AssignJob
  <2>1. TypeCtx'
    BY <1>3, ThreadFacts DEF TypeInv, TypeOK, TypeCtx, AssignJob
  <2>2. TypeLoc'
    BY <1>3, ThreadFacts DEF TypeInv, TypeOK, TypeLoc, AssignJob
  <2>3. TypeSched' /\ TypeEv' /\ TypeTask'
    BY <1>3 DEF TypeInv, TypeOK, TypeSched, TypeEv, TypeTask, schedVars, evVars,
        taskVars, AssignJob
  <2>4. TypePc' /\ SubTyped'
    BY <1>3, ThreadFacts DEF TypeInv, TypeOK, TypePc, MainPc, CtxPc, SubPc,
        SubTyped, TypeLoc, locVars, AssignJob, Goto
  <2>. QED BY <2>1, <2>2, <2>3, <2>4 DEF TypeInv, TypeOK
<1>4. CASE Join
  <2>1. TypeLoc'
    BY <1>4, ThreadFacts DEF TypeInv, TypeOK, TypeLoc, Join
  <2>2. TypeSched' /\ TypeCtx' /\ TypeEv' /\ TypeTask'
    BY <1>4 DEF TypeInv, TypeOK, TypeSched, TypeCtx, TypeEv, TypeTask, schedVars,
        ctxVars, evVars, taskVars, Join
  <2>3. TypePc' /\ SubTyped'
    BY <1>4, ThreadFacts DEF TypeInv, TypeOK, TypePc, MainPc, CtxPc, SubPc,
        SubTyped, TypeLoc, locVars, Join, Goto
  <2>. QED BY <2>1, <2>2, <2>3 DEF TypeInv, TypeOK
<1>. QED BY <1>1, <1>2, <1>3, <1>4

\* Every step of a running task keeps the types.
LEMMA RunTaskType ==
  ASSUME NEW c \in Ctx, TypeInv, RunTask(c)
  PROVE  TypeInv'
<1>1. CASE Await(c)
  <2>1. TypeCtx'
    BY <1>1, ThreadFacts DEF TypeInv, TypeOK, TypeCtx, Await
  <2>2. TypeEv'
    <3>1. cur[c] \in Task
      BY <1>1, UseAssumption DEF Await, Task
    <3>2. <<cur[c]>> \in Seq(Task)
      BY <3>1
    <3>. QED BY <1>1, <3>2 DEF TypeInv, TypeOK, TypeEv, Await
  <2>3. TypeLoc'
    BY <1>1, ThreadFacts DEF TypeInv, TypeOK, TypeLoc, Await
  <2>4. TypeTask'
    BY <1>1, ThreadFacts DEF TypeInv, TypeOK, TypeTask, Status, Await
  <2>5. TypeSched'
    BY <1>1 DEF TypeInv, TypeOK, TypeSched, schedVars, Await
  <2>6. TypePc' /\ SubTyped'
    BY <1>1, ThreadFacts DEF TypeInv, TypeOK, TypePc, MainPc, CtxPc, SubPc,
        SubTyped, TypeLoc, locVars, Await, Goto
  <2>. QED BY <2>1, <2>2, <2>3, <2>4, <2>5, <2>6 DEF TypeInv, TypeOK
<1>2. CASE AwaitReady(c)
  <2>1. TypeTask'
    BY <1>2, UseAssumption DEF TypeInv, TypeOK, TypeTask, AwaitReady, Task
  <2>2. TypeSched' /\ TypeCtx' /\ TypeEv' /\ TypeLoc'
    BY <1>2 DEF TypeInv, TypeOK, TypeSched, TypeCtx, TypeEv, TypeLoc, schedVars,
        ctxVars, evVars, locVars, AwaitReady
  <2>3. TypePc' /\ SubTyped'
    BY <1>2, ThreadFacts DEF TypeInv, TypeOK, TypePc, MainPc, CtxPc, SubPc,
        SubTyped, TypeLoc, locVars, AwaitReady, Goto
  <2>. QED BY <2>1, <2>2, <2>3 DEF TypeInv, TypeOK
<1>3. CASE SetEvent(c)
  <2>1. TypeEv'
    BY <1>3, ThreadFacts DEF TypeInv, TypeOK, TypeEv, SetEvent
  <2>2. TypeLoc'
    BY <1>3, ThreadFacts DEF TypeInv, TypeOK, TypeLoc, TypeEv, SetEvent
  <2>3. TypeTask'
    <3>1. passed' \subseteq Task
      BY <1>3, UseAssumption DEF TypeInv, TypeOK, TypeTask, SetEvent, Task
    <3>2. status' \in [Task -> Status]
      BY <1>3 DEF TypeInv, TypeOK, TypeTask, SetEvent, Status
    <3>. QED BY <1>3, <3>1, <3>2 DEF TypeInv, TypeOK, TypeTask, SetEvent
  <2>4. TypeSched' /\ TypeCtx'
    BY <1>3 DEF TypeInv, TypeOK, TypeSched, TypeCtx, schedVars, ctxVars, SetEvent
  <2>5. TypePc' /\ SubTyped'
    BY <1>3, ThreadFacts DEF TypeInv, TypeOK, TypePc, MainPc, CtxPc, SubPc,
        SubTyped, TypeLoc, locVars, SetEvent, Goto
  <2>. QED BY <2>1, <2>2, <2>3, <2>4, <2>5 DEF TypeInv, TypeOK
<1>4. CASE ResumeNext(c)
  <2>1. TypeLoc'
    <3>1. walk[c] \in Seq(Task)
      BY ThreadFacts DEF TypeInv, TypeOK, TypeLoc
    <3>2. walk[c] # <<>> => Head(walk[c]) \in Task /\ Tail(walk[c]) \in Seq(Task)
      BY <3>1
    <3>3. CASE UNCHANGED locVars
      BY <3>3 DEF TypeInv, TypeOK, TypeLoc, locVars
    <3>4. CASE /\ walk[c] # <<>> /\ sub' = [sub EXCEPT ![c] = Head(walk[c])]
               /\ walk' = [walk EXCEPT ![c] = Tail(@)] /\ UNCHANGED <<cur, old, num, idx>>
      <4>1. sub' \in [Thread -> Task \cup {NoTask}] /\ walk' \in [Thread -> Seq(Task)]
        BY <3>2, <3>4 DEF TypeInv, TypeOK, TypeLoc
      <4>. QED BY <3>4, <4>1 DEF TypeInv, TypeOK, TypeLoc
    <3>. QED BY <1>4, <3>3, <3>4 DEF ResumeNext
  <2>2. TypeSched' /\ TypeCtx' /\ TypeEv' /\ TypeTask'
    BY <1>4 DEF TypeInv, TypeOK, TypeSched, TypeCtx, TypeEv, TypeTask, schedVars,
        ctxVars, evVars, taskVars, ResumeNext
  <2>3. TypePc'
    BY <1>4, ThreadFacts DEF TypeInv, TypeOK, TypePc, MainPc, CtxPc, SubPc, ResumeNext, Goto
  <2>4. SubTyped'
    <3>1. walk[c] # <<>> => Head(walk[c]) \in Task
      BY ThreadFacts DEF TypeInv, TypeOK, TypeLoc
    <3>. QED BY <1>4, <3>1, ThreadFacts
             DEF TypeInv, TypeOK, TypePc, TypeLoc, SubPc, SubTyped, locVars, ResumeNext, Goto
  <2>. QED BY <2>1, <2>2, <2>3, <2>4 DEF TypeInv, TypeOK
<1>5. CASE Finish(c)
  <2>1. TypeLoc'
    BY <1>5, ThreadFacts DEF TypeInv, TypeOK, TypeLoc, Finish
  <2>2. TypeTask'
    BY <1>5, ThreadFacts DEF TypeInv, TypeOK, TypeTask, Status, Finish
  <2>3. TypeSched' /\ TypeCtx' /\ TypeEv'
    BY <1>5 DEF TypeInv, TypeOK, TypeSched, TypeCtx, TypeEv, schedVars, ctxVars,
        evVars, Finish
  <2>4. TypePc' /\ SubTyped'
    BY <1>5, ThreadFacts DEF TypeInv, TypeOK, TypePc, MainPc, CtxPc, SubPc,
        SubTyped, TypeLoc, locVars, Finish, Goto
  <2>. QED BY <2>1, <2>2, <2>3, <2>4 DEF TypeInv, TypeOK
<1>. QED BY <1>1, <1>2, <1>3, <1>4, <1>5 DEF RunTask

\* Every step of context::run keeps the types.
LEMMA RunType ==
  ASSUME NEW c \in Ctx, TypeInv,
         \/ InitContext(c) \/ ProcessWork(c) \/ ExecOneTask(c) \/ WorkDone(c) \/ Check1(c) \/ Ready1(c) \/ Check2(c)
         \/ Ready2(c) \/ StopCbAnd(c) \/ StopCbSub(c) \/ NotifyStop(c) \/ NotifyWake(c) \/ Poll(c) \/ Deinit(c)
  PROVE  TypeInv'
<1>1. CASE InitContext(c)
  <2>1. TypeSched' /\ TypeCtx' /\ TypeEv' /\ TypeLoc' /\ TypeTask'
    BY <1>1 DEF TypeInv, TypeOK, TypeSched, TypeCtx, TypeEv, TypeLoc, TypeTask,
        schedVars, ctxVars, evVars, locVars, taskVars, InitContext
  <2>2. TypePc' /\ SubTyped'
    BY <1>1, ThreadFacts DEF TypeInv, TypeOK, TypePc, MainPc, CtxPc, SubPc,
        SubTyped, TypeLoc, locVars, InitContext, Goto
  <2>. QED BY <2>1, <2>2 DEF TypeInv, TypeOK
<1>2. CASE ProcessWork(c)
  <2>1. TypeLoc'
    <3>1. Len(m_task_queue[c]) \in Nat
      BY DEF TypeInv, TypeOK, TypeCtx
    <3>. QED BY <1>2, <3>1 DEF TypeInv, TypeOK, TypeLoc, ProcessWork
  <2>2. TypeSched' /\ TypeCtx' /\ TypeEv' /\ TypeTask'
    BY <1>2 DEF TypeInv, TypeOK, TypeSched, TypeCtx, TypeEv, TypeTask, schedVars,
        ctxVars, evVars, taskVars, ProcessWork
  <2>3. TypePc' /\ SubTyped'
    BY <1>2, ThreadFacts DEF TypeInv, TypeOK, TypePc, MainPc, CtxPc, SubPc,
        SubTyped, TypeLoc, locVars, ProcessWork, Goto
  <2>. QED BY <2>1, <2>2, <2>3 DEF TypeInv, TypeOK
<1>3. CASE ExecOneTask(c)
  <2>1. TypeCtx'
    <3>1. m_task_queue[c] \in Seq(Task) /\ m_task_queue[c] # <<>>
      BY <1>3 DEF TypeInv, TypeOK, TypeCtx, ExecOneTask
    <3>2. Tail(m_task_queue[c]) \in Seq(Task)
      BY <3>1
    <3>. QED BY <1>3, <3>2 DEF TypeInv, TypeOK, TypeCtx, ExecOneTask
  <2>2. TypeLoc'
    <3>1. Head(m_task_queue[c]) \in Task
      BY <1>3 DEF TypeInv, TypeOK, TypeCtx, ExecOneTask
    <3>. QED BY <1>3, ThreadFacts, <3>1 DEF TypeInv, TypeOK, TypeLoc, ExecOneTask
  <2>3. TypeTask'
    BY <1>3, ThreadFacts DEF TypeInv, TypeOK, TypeTask, TypeCtx, Status, ExecOneTask
  <2>4. TypeSched' /\ TypeEv'
    BY <1>3 DEF TypeInv, TypeOK, TypeSched, TypeEv, schedVars, evVars, ExecOneTask
  <2>5. TypePc' /\ SubTyped'
    BY <1>3, ThreadFacts DEF TypeInv, TypeOK, TypePc, MainPc, CtxPc, SubPc,
        SubTyped, TypeLoc, locVars, ExecOneTask, Goto
  <2>. QED BY <2>1, <2>2, <2>3, <2>4, <2>5 DEF TypeInv, TypeOK
<1>4. CASE WorkDone(c)
  <2>1. TypeSched' /\ TypeCtx' /\ TypeEv' /\ TypeLoc' /\ TypeTask'
    BY <1>4 DEF TypeInv, TypeOK, TypeSched, TypeCtx, TypeEv, TypeLoc, TypeTask,
        schedVars, ctxVars, evVars, locVars, taskVars, WorkDone
  <2>2. TypePc' /\ SubTyped'
    BY <1>4, ThreadFacts DEF TypeInv, TypeOK, TypePc, MainPc, CtxPc, SubPc,
        SubTyped, TypeLoc, locVars, WorkDone, Goto
  <2>. QED BY <2>1, <2>2 DEF TypeInv, TypeOK
<1>5. CASE Check1(c)
  <2>1. TypeSched' /\ TypeCtx' /\ TypeEv' /\ TypeLoc' /\ TypeTask'
    BY <1>5 DEF TypeInv, TypeOK, TypeSched, TypeCtx, TypeEv, TypeLoc, TypeTask,
        schedVars, ctxVars, evVars, locVars, taskVars, Check1
  <2>2. TypePc' /\ SubTyped'
    BY <1>5, ThreadFacts DEF TypeInv, TypeOK, TypePc, MainPc, CtxPc, SubPc,
        SubTyped, TypeLoc, locVars, Check1, Goto
  <2>. QED BY <2>1, <2>2 DEF TypeInv, TypeOK
<1>6. CASE Ready1(c)
  <2>1. TypeSched' /\ TypeCtx' /\ TypeEv' /\ TypeLoc' /\ TypeTask'
    BY <1>6 DEF TypeInv, TypeOK, TypeSched, TypeCtx, TypeEv, TypeLoc, TypeTask,
        schedVars, ctxVars, evVars, locVars, taskVars, Ready1
  <2>2. TypePc' /\ SubTyped'
    BY <1>6, ThreadFacts DEF TypeInv, TypeOK, TypePc, MainPc, CtxPc, SubPc,
        SubTyped, TypeLoc, locVars, Ready1, Goto
  <2>. QED BY <2>1, <2>2 DEF TypeInv, TypeOK
<1>7. CASE Check2(c)
  <2>1. TypeSched' /\ TypeCtx' /\ TypeEv' /\ TypeLoc' /\ TypeTask'
    BY <1>7 DEF TypeInv, TypeOK, TypeSched, TypeCtx, TypeEv, TypeLoc, TypeTask,
        schedVars, ctxVars, evVars, locVars, taskVars, Check2
  <2>2. TypePc' /\ SubTyped'
    BY <1>7, ThreadFacts DEF TypeInv, TypeOK, TypePc, MainPc, CtxPc, SubPc,
        SubTyped, TypeLoc, locVars, Check2, Goto
  <2>. QED BY <2>1, <2>2 DEF TypeInv, TypeOK
<1>8. CASE Ready2(c)
  <2>1. TypeSched' /\ TypeCtx' /\ TypeEv' /\ TypeLoc' /\ TypeTask'
    BY <1>8 DEF TypeInv, TypeOK, TypeSched, TypeCtx, TypeEv, TypeLoc, TypeTask,
        schedVars, ctxVars, evVars, locVars, taskVars, Ready2
  <2>2. TypePc' /\ SubTyped'
    BY <1>8, ThreadFacts DEF TypeInv, TypeOK, TypePc, MainPc, CtxPc, SubPc,
        SubTyped, TypeLoc, locVars, Ready2, Goto
  <2>. QED BY <2>1, <2>2 DEF TypeInv, TypeOK
<1>9. CASE StopCbAnd(c)
  <2>1. TypeSched'
    BY <1>9, ThreadFacts DEF TypeInv, TypeOK, TypeSched, StopCbAnd
  <2>2. TypeLoc'
    BY <1>9, ThreadFacts DEF TypeInv, TypeOK, TypeLoc, TypeSched, StopCbAnd
  <2>3. TypeCtx' /\ TypeEv' /\ TypeTask'
    BY <1>9 DEF TypeInv, TypeOK, TypeCtx, TypeEv, TypeTask, ctxVars, evVars,
        taskVars, StopCbAnd
  <2>4. TypePc' /\ SubTyped'
    BY <1>9, ThreadFacts DEF TypeInv, TypeOK, TypePc, MainPc, CtxPc, SubPc,
        SubTyped, TypeLoc, locVars, StopCbAnd, Goto
  <2>. QED BY <2>1, <2>2, <2>3, <2>4 DEF TypeInv, TypeOK
<1>10. CASE StopCbSub(c)
  <2>1. TypeSched'
    BY <1>10, ThreadFacts DEF TypeInv, TypeOK, TypeSched, TypeLoc, StopCbSub
  <2>2. TypeCtx' /\ TypeEv' /\ TypeLoc' /\ TypeTask'
    BY <1>10 DEF TypeInv, TypeOK, TypeCtx, TypeEv, TypeLoc, TypeTask, ctxVars,
        evVars, locVars, taskVars, StopCbSub
  <2>3. TypePc' /\ SubTyped'
    BY <1>10, ThreadFacts DEF TypeInv, TypeOK, TypePc, MainPc, CtxPc, SubPc,
        SubTyped, TypeLoc, locVars, StopCbSub, Goto
  <2>. QED BY <2>1, <2>2, <2>3 DEF TypeInv, TypeOK
<1>11. CASE NotifyStop(c)
  <2>1. TypeCtx'
    BY <1>11, ThreadFacts DEF TypeInv, TypeOK, TypeCtx, NotifyStop, Die, ctxVars
  <2>2. TypeSched' /\ TypeEv' /\ TypeLoc' /\ TypeTask'
    BY <1>11 DEF TypeInv, TypeOK, TypeSched, TypeEv, TypeLoc, TypeTask, schedVars,
        evVars, locVars, taskVars, NotifyStop, Die
  <2>3. TypePc'
    BY <1>11, ThreadFacts DEF TypeInv, TypeOK, TypePc, MainPc, CtxPc, SubPc,
        NotifyStop, Goto, Die
  <2>4. SubTyped'
    BY <1>11, ThreadFacts DEF TypeInv, TypeOK, TypePc, SubPc, SubTyped, TypeLoc,
        locVars, NotifyStop, Goto, Die
  <2>. QED BY <2>1, <2>2, <2>3, <2>4 DEF TypeInv, TypeOK
<1>12. CASE NotifyWake(c)
  <2>1. TypeCtx'
    BY <1>12, ThreadFacts DEF TypeInv, TypeOK, TypeCtx, WriteEventfd, NotifyWake,
        WriteFails, Die, ctxVars
  <2>2. TypeLoc'
    <3>1. idx[c] \in Ctx
      BY ThreadFacts DEF TypeInv, TypeOK, TypeLoc
    <3>2. (idx[c] + 1) % N \in Ctx
      BY <3>1, ThreadFacts
    <3>. QED BY <1>12, <3>2 DEF TypeInv, TypeOK, TypeLoc, NotifyWake, WriteFails,
        Die, locVars
  <2>3. TypeSched' /\ TypeEv' /\ TypeTask'
    BY <1>12 DEF TypeInv, TypeOK, TypeSched, TypeEv, TypeTask, schedVars, evVars,
        taskVars, NotifyWake, WriteFails, Die
  <2>4. TypePc'
    BY <1>12, ThreadFacts DEF TypeInv, TypeOK, TypePc, MainPc, CtxPc, SubPc,
        NotifyWake, Goto, WriteFails, Die
  <2>5. SubTyped'
    BY <1>12, ThreadFacts DEF TypeInv, TypeOK, TypePc, SubPc, SubTyped, TypeLoc,
        locVars, NotifyWake, Goto, WriteFails, Die
  <2>. QED BY <2>1, <2>2, <2>3, <2>4, <2>5 DEF TypeInv, TypeOK
<1>13. CASE Poll(c)
  <2>1. TypeCtx'
    BY <1>13, ThreadFacts DEF TypeInv, TypeOK, TypeCtx, Poll
  <2>2. TypeSched' /\ TypeEv' /\ TypeLoc' /\ TypeTask'
    BY <1>13 DEF TypeInv, TypeOK, TypeSched, TypeEv, TypeLoc, TypeTask, schedVars,
        evVars, locVars, taskVars, Poll
  <2>3. TypePc' /\ SubTyped'
    BY <1>13, ThreadFacts DEF TypeInv, TypeOK, TypePc, MainPc, CtxPc, SubPc,
        SubTyped, TypeLoc, locVars, Poll, Goto
  <2>. QED BY <2>1, <2>2, <2>3 DEF TypeInv, TypeOK
<1>14. CASE Deinit(c)
  <2>1. TypeCtx'
    BY <1>14, ThreadFacts DEF TypeInv, TypeOK, TypeCtx, Deinit
  <2>2. TypeTask'
    BY <1>14, ThreadFacts DEF TypeInv, TypeOK, TypeTask, Status, Deinit
  <2>3. TypeSched' /\ TypeEv' /\ TypeLoc'
    BY <1>14 DEF TypeInv, TypeOK, TypeSched, TypeEv, TypeLoc, schedVars, evVars,
        locVars, Deinit
  <2>4. TypePc' /\ SubTyped'
    BY <1>14, ThreadFacts DEF TypeInv, TypeOK, TypePc, MainPc, CtxPc, SubPc,
        SubTyped, TypeLoc, locVars, Deinit, Goto
  <2>. QED BY <2>1, <2>2, <2>3, <2>4 DEF TypeInv, TypeOK
<1>. QED BY <1>1, <1>2, <1>3, <1>4, <1>5, <1>6, <1>7, <1>8, <1>9, <1>10, <1>11, <1>12, <1>13, <1>14

\* No step of any thread breaks the types.
LEMMA NextType == TypeInv /\ [Next]_vars => TypeInv'
<1> SUFFICES ASSUME TypeInv, [Next]_vars
             PROVE  TypeInv'
  OBVIOUS
<1>1. CASE MainStep
  BY <1>1, ThreadFacts, SubmitType, LoopType DEF MainStep
<1>2. ASSUME NEW c \in Ctx, ContextStep(c)
      PROVE  TypeInv'
  BY <1>2, ThreadFacts, SubmitType, RunTaskType, RunType DEF ContextStep
<1>3. CASE UNCHANGED vars
  <2>1. TypeSched' /\ TypeCtx' /\ TypeEv'
    BY <1>3 DEF TypeInv, TypeOK, TypeSched, TypeCtx, TypeEv, vars, schedVars, ctxVars, evVars
  <2>2. TypeLoc' /\ TypeTask' /\ TypePc' /\ SubTyped'
    BY <1>3 DEF TypeInv, TypeOK, TypeLoc, TypeTask, TypePc, SubTyped, vars, locVars, taskVars
  <2>. QED BY <2>1, <2>2 DEF TypeInv, TypeOK
<1>. QED BY <1>1, <1>2, <1>3 DEF Next, Terminated

\* Every reachable state is well typed, whatever the interleaving of the
\* threads: no submission goes to a context that does not exist.
THEOREM TypeCorrect == Spec => []TypeOK
<1>1. TypeInv => TypeOK
  BY DEF TypeInv
<1>. QED BY InitType, NextType, <1>1, PTL DEF Spec

-----------------------------------------------------------------------------
(***************************************************************************)
(* A context does nothing before loop_impl has started its thread.         *)
(***************************************************************************)

StartInv ==
  /\ pc[Main] \in {"submit"} \cup SubPc => idx[Main] = 0 /\ \A c \in Ctx : pc[c] = "off"
  /\ pc[Main] = "start"  => \A c \in Ctx : c >= idx[Main] => pc[c] = "off"
  /\ pc[Main] = "assign" => \A c \in Ctx : c > idx[Main] => pc[c] = "off"

\* The order of the contexts, by which start_impl starts them.
LEMMA CtxOrder ==
  /\ \A c \in Ctx : c \in Int /\ c >= 0 /\ c >= c
  /\ \A c, d \in Ctx : d > c => c + 1 # N
  /\ \A c \in Ctx : c + 1 # N => (c + 1) % N = c + 1
  /\ \A c, d \in Ctx : d >= c + 1 => d > c
  /\ \A c, d \in Ctx : d > c => d >= c /\ d # c
BY NAssumption DEF Ctx

\* A step of context c is taken by a running thread and moves no other.
LEMMA ContextMoves ==
  ASSUME NEW c \in Ctx, TypeInv, ContextStep(c)
  PROVE  /\ pc[c] # "off"
         /\ \A th \in Thread : th # c => pc'[th] = pc[th]
         /\ idx'[Main] = idx[Main]
<1>1. CASE Submit(c)
  BY <1>1, ThreadFacts
     DEF Submit, BeginSubmit, AssertFails, Dispatch, FetchOr, FetchAdd, Push, Wake, WriteFails, Die,
         Goto, locVars, TypeInv, TypeOK, TypePc
<1>2. CASE RunTask(c)
  BY <1>2, ThreadFacts DEF RunTask, Await, AwaitReady, SetEvent, ResumeNext, Finish, Goto,
         locVars, TypeInv, TypeOK, TypePc
<1>3. CASE NotifyStop(c) \/ NotifyWake(c)
  BY <1>3, ThreadFacts DEF NotifyStop, NotifyWake, WriteFails, Die, Goto, locVars,
         TypeInv, TypeOK, TypePc, TypeLoc
<1>4. CASE \/ InitContext(c) \/ ProcessWork(c) \/ ExecOneTask(c) \/ WorkDone(c)
           \/ Check1(c) \/ Ready1(c) \/ Check2(c) \/ Ready2(c)
           \/ StopCbAnd(c) \/ StopCbSub(c) \/ Poll(c) \/ Deinit(c)
  BY <1>4, ThreadFacts
     DEF InitContext, ProcessWork, ExecOneTask, WorkDone, Check1, Ready1, Check2, Ready2,
         StopCbAnd, StopCbSub, Poll, Deinit, Goto, locVars, TypeInv, TypeOK, TypePc
<1>. QED BY <1>1, <1>2, <1>3, <1>4 DEF ContextStep

\* No step starts a context out of its turn.
LEMMA NextStart == TypeInv /\ StartInv /\ [Next]_vars => StartInv'
<1> SUFFICES ASSUME TypeInv, StartInv, [Next]_vars
             PROVE  StartInv'
  OBVIOUS
<1>0. Main \in Thread /\ pc[Main] \in MainPc \cup CtxPc \cup SubPc \cup {"end"} /\ idx[Main] \in Ctx
  BY ThreadFacts DEF TypeInv, TypeOK, TypePc, TypeLoc
<1>1. CASE Submit(Main)
  <2>1. /\ \A c \in Ctx : pc'[c] = pc[c]
        /\ idx' = idx
        /\ pc[Main] \in {"submit"} \cup SubPc
        /\ pc'[Main] \in {"submit"} \cup SubPc
    BY <1>1, ThreadFacts
       DEF Submit, BeginSubmit, AssertFails, Dispatch, FetchOr, FetchAdd, Push, Wake, WriteFails, Die,
           Goto, locVars, SubPc, TypeInv, TypeOK, TypePc
  <2>. QED BY <2>1 DEF StartInv, SubPc
<1>2. CASE CallLoop
  BY <1>0, <1>2, ThreadFacts DEF CallLoop, Goto, StartInv, SubPc, locVars, TypeInv, TypeOK, TypePc
<1>3. CASE StartThread
  BY <1>0, <1>3, ThreadFacts, CtxOrder
     DEF StartThread, StartInv, SubPc, locVars, TypeInv, TypeOK, TypePc
<1>4. CASE AssignJob
  <2>1. \A c \in Ctx : pc'[c] = pc[c]
    BY <1>4, ThreadFacts DEF AssignJob, Goto, TypeInv, TypeOK, TypePc
  <2>2. /\ pc[Main] = "assign" /\ idx'[Main] = (idx[Main] + 1) % N
        /\ pc'[Main] = IF idx[Main] + 1 = N THEN "join" ELSE "start"
    BY <1>4, ThreadFacts DEF AssignJob, Goto, TypeInv, TypeOK, TypePc, TypeLoc
  <2>. QED BY <1>0, <2>1, <2>2, CtxOrder DEF StartInv, SubPc
<1>5. CASE Join
  BY <1>0, <1>5, ThreadFacts DEF Join, Goto, StartInv, SubPc, TypeInv, TypeOK, TypePc
<1>6. ASSUME NEW c \in Ctx, ContextStep(c)
      PROVE  StartInv'
  BY <1>0, <1>6, ContextMoves, ThreadFacts DEF StartInv
<1>7. CASE UNCHANGED vars
  BY <1>7 DEF StartInv, vars, locVars
<1>. QED BY <1>1, <1>2, <1>3, <1>4, <1>5, <1>6, <1>7 DEF Next, MainStep, Terminated

-----------------------------------------------------------------------------
(***************************************************************************)
(* The token counts the flags.                                             *)
(***************************************************************************)

\* The sets TokenAccounting counts are finite.
LEMMA FiniteSets3 ==
  /\ IsFiniteSet(Flagged) /\ IsFiniteSet(AddPending) /\ IsFiniteSet(SubPending)
  /\ IsFiniteSet(Flagged') /\ IsFiniteSet(AddPending') /\ IsFiniteSet(SubPending')
<1>1. IsFiniteSet(Ctx) /\ IsFiniteSet(Thread)
  BY NAssumption, FS_Interval DEF Ctx, Thread
<1>2. \A S : S \subseteq Ctx \/ S \subseteq Thread => IsFiniteSet(S)
  BY <1>1, FS_Subset
<1>3. /\ Flagged \subseteq Ctx /\ AddPending \subseteq Thread /\ SubPending \subseteq Ctx
      /\ Flagged' \subseteq Ctx /\ AddPending' \subseteq Thread /\ SubPending' \subseteq Ctx
  BY DEF Flagged, AddPending, SubPending
<1>. QED BY <1>2, <1>3

\* One element more, or one less.
LEMMA CardinalityStep ==
  ASSUME NEW S, IsFiniteSet(S), NEW x
  PROVE  /\ Cardinality(S) \in Nat
         /\ x \notin S => Cardinality(S \cup {x}) = Cardinality(S) + 1
         /\ x \in S => Cardinality(S \ {x}) = Cardinality(S) - 1
BY FS_CardinalityType, FS_AddElement, FS_RemoveElement

\* A step that neither touches the flags, the token and the values the atomics
\* returned, nor enters or leaves the two critical places, keeps the account.
LEMMA TokenFrame ==
  ASSUME TokenAccounting,
         UNCHANGED <<m_stop_token, m_ctx_stop_flag, old>>,
         \A th \in Thread : pc[th] \in {"add", "cb_sub"} \/ pc'[th] \in {"add", "cb_sub"} =>
                               pc'[th] = pc[th]
  PROVE  TokenAccounting'
<1>1. Flagged' = Flagged
  BY DEF Flagged
<1>2. AddPending' = AddPending
  BY DEF AddPending
<1>3. SubPending' = SubPending
  BY ThreadFacts DEF SubPending
<1>. QED BY <1>1, <1>2, <1>3 DEF TokenAccounting

\* fetch_or: a flag that was 0 is raised and an addition is due.
LEMMA FetchOrToken ==
  ASSUME NEW th \in Thread, TypeInv, TokenAccounting, FetchOr(th)
  PROVE  TokenAccounting'
<1> DEFINE c == home[sub[th]]
<1>1. c \in Ctx /\ m_ctx_stop_flag[c] \in {0, 1} /\ pc[th] = "or"
  BY DEF TypeInv, TypeOK, TypeSched, TypeTask, SubTyped, SubPc, FetchOr, Goto
<1>2. /\ m_stop_token' = m_stop_token
      /\ m_ctx_stop_flag' = [m_ctx_stop_flag EXCEPT ![c] = 1]
      /\ pc' = [pc EXCEPT ![th] = "add"]
      /\ old' = [old EXCEPT ![th] = m_ctx_stop_flag[c]]
  BY DEF FetchOr, Goto
<1> HIDE DEF c
<1>3. SubPending' = SubPending
  BY <1>1, <1>2, ThreadFacts DEF SubPending, TypeInv, TypeOK, TypePc, TypeLoc
<1>4. th \notin AddPending
  BY <1>1 DEF AddPending
<1>5. CASE m_ctx_stop_flag[c] = 1
  <2>1. Flagged' = Flagged
    BY <1>1, <1>2, <1>5 DEF Flagged, TypeInv, TypeOK, TypeSched
  <2>2. AddPending' = AddPending
    BY <1>1, <1>2, <1>5 DEF AddPending, TypeInv, TypeOK, TypePc, TypeLoc
  <2>. QED BY <1>2, <1>3, <2>1, <2>2 DEF TokenAccounting
<1>6. CASE m_ctx_stop_flag[c] = 0
  <2>1. Flagged' = Flagged \cup {c} /\ c \notin Flagged
    BY <1>1, <1>2, <1>6 DEF Flagged, TypeInv, TypeOK, TypeSched
  <2>2. AddPending' = AddPending \cup {th}
    BY <1>1, <1>2, <1>6 DEF AddPending, TypeInv, TypeOK, TypePc, TypeLoc
  <2>3. /\ Cardinality(Flagged') = Cardinality(Flagged) + 1
        /\ Cardinality(AddPending') = Cardinality(AddPending) + 1
    BY <1>4, <2>1, <2>2, FiniteSets3, CardinalityStep
  <2>4. /\ Cardinality(Flagged) \in Nat /\ Cardinality(AddPending) \in Nat
        /\ Cardinality(SubPending) \in Nat /\ m_stop_token \in Int
    BY FiniteSets3, FS_CardinalityType DEF TypeInv, TypeOK, TypeSched
  <2>. QED BY <1>2, <1>3, <2>3, <2>4 DEF TokenAccounting
<1>. QED BY <1>1, <1>5, <1>6

\* fetch_add: the addition that was due, or nothing.
LEMMA FetchAddToken ==
  ASSUME NEW th \in Thread, TypeInv, TokenAccounting, FetchAdd(th)
  PROVE  TokenAccounting'
<1>1. /\ m_stop_token' = m_stop_token + (1 - old[th])
      /\ UNCHANGED <<m_ctx_stop_flag, old>>
      /\ pc[th] = "add" /\ pc' = [pc EXCEPT ![th] = "push"]
      /\ old[th] \in {0, 1}
  BY DEF FetchAdd, Goto, locVars, TypeInv, TypeOK, TypeLoc
<1>2. Flagged' = Flagged
  BY <1>1 DEF Flagged
<1>3. SubPending' = SubPending
  BY <1>1, ThreadFacts DEF SubPending, TypeInv, TypeOK, TypePc
<1>4. /\ Cardinality(Flagged) \in Nat /\ Cardinality(AddPending) \in Nat
      /\ Cardinality(SubPending) \in Nat /\ m_stop_token \in Int
  BY FiniteSets3, FS_CardinalityType DEF TypeInv, TypeOK, TypeSched
<1>5. CASE old[th] = 1
  <2>1. AddPending' = AddPending
    BY <1>1, <1>5 DEF AddPending, TypeInv, TypeOK, TypePc
  <2>. QED BY <1>1, <1>2, <1>3, <1>4, <1>5, <2>1 DEF TokenAccounting
<1>6. CASE old[th] = 0
  <2>1. AddPending' = AddPending \ {th} /\ th \in AddPending
    BY <1>1, <1>6 DEF AddPending, TypeInv, TypeOK, TypePc
  <2>2. Cardinality(AddPending') = Cardinality(AddPending) - 1
    BY <2>1, FiniteSets3, CardinalityStep
  <2>. QED BY <1>1, <1>2, <1>3, <1>4, <1>6, <2>2 DEF TokenAccounting
<1>. QED BY <1>1, <1>5, <1>6

\* fetch_and: a flag that was 1 is lowered and a subtraction is due.
LEMMA StopCbAndToken ==
  ASSUME NEW c \in Ctx, TypeInv, TokenAccounting, StopCbAnd(c)
  PROVE  TokenAccounting'
<1>1. /\ m_stop_token' = m_stop_token
      /\ m_ctx_stop_flag' = [m_ctx_stop_flag EXCEPT ![c] = 0]
      /\ pc[c] = "cb_and" /\ pc' = [pc EXCEPT ![c] = "cb_sub"]
      /\ old' = [old EXCEPT ![c] = m_ctx_stop_flag[c]]
      /\ m_ctx_stop_flag[c] \in {0, 1}
  BY DEF StopCbAnd, Goto, TypeInv, TypeOK, TypeSched
<1>2. AddPending' = AddPending
  BY <1>1, ThreadFacts DEF AddPending, TypeInv, TypeOK, TypePc, TypeLoc
<1>3. c \notin SubPending
  BY <1>1 DEF SubPending
<1>4. /\ Cardinality(Flagged) \in Nat /\ Cardinality(AddPending) \in Nat
      /\ Cardinality(SubPending) \in Nat /\ m_stop_token \in Int
  BY FiniteSets3, FS_CardinalityType DEF TypeInv, TypeOK, TypeSched
<1>5. CASE m_ctx_stop_flag[c] = 0
  <2>1. Flagged' = Flagged
    BY <1>1, <1>5 DEF Flagged, TypeInv, TypeOK, TypeSched
  <2>2. SubPending' = SubPending
    BY <1>1, <1>5, ThreadFacts DEF SubPending, TypeInv, TypeOK, TypePc, TypeLoc
  <2>. QED BY <1>1, <1>2, <2>1, <2>2 DEF TokenAccounting
<1>6. CASE m_ctx_stop_flag[c] = 1
  <2>1. Flagged' = Flagged \ {c} /\ c \in Flagged
    BY <1>1, <1>6 DEF Flagged, TypeInv, TypeOK, TypeSched
  <2>2. SubPending' = SubPending \cup {c}
    BY <1>1, <1>6, ThreadFacts DEF SubPending, TypeInv, TypeOK, TypePc, TypeLoc
  <2>3. /\ Cardinality(Flagged') = Cardinality(Flagged) - 1
        /\ Cardinality(SubPending') = Cardinality(SubPending) + 1
    BY <1>3, <2>1, <2>2, FiniteSets3, CardinalityStep
  <2>. QED BY <1>1, <1>2, <1>4, <2>3 DEF TokenAccounting
<1>. QED BY <1>1, <1>5, <1>6

\* fetch_sub: the subtraction that was due, or nothing.
LEMMA StopCbSubToken ==
  ASSUME NEW c \in Ctx, TypeInv, TokenAccounting, StopCbSub(c)
  PROVE  TokenAccounting'
<1>1. /\ m_stop_token' = m_stop_token - old[c]
      /\ UNCHANGED <<m_ctx_stop_flag, old>>
      /\ pc[c] = "cb_sub" /\ pc'[c] \in {"notify", "poll"}
      /\ \A th \in Thread : th # c => pc'[th] = pc[th]
      /\ old[c] \in {0, 1}
  BY ThreadFacts DEF StopCbSub, Goto, locVars, TypeInv, TypeOK, TypeLoc, TypePc
<1>2. Flagged' = Flagged
  BY <1>1 DEF Flagged
<1>3. AddPending' = AddPending
  BY <1>1 DEF AddPending
<1>4. /\ Cardinality(Flagged) \in Nat /\ Cardinality(AddPending) \in Nat
      /\ Cardinality(SubPending) \in Nat /\ m_stop_token \in Int
  BY FiniteSets3, FS_CardinalityType DEF TypeInv, TypeOK, TypeSched
<1>5. CASE old[c] = 0
  <2>1. SubPending' = SubPending
    BY <1>1, <1>5, ThreadFacts DEF SubPending
  <2>. QED BY <1>1, <1>2, <1>3, <1>4, <1>5, <2>1 DEF TokenAccounting
<1>6. CASE old[c] = 1
  <2>1. SubPending' = SubPending \ {c} /\ c \in SubPending
    BY <1>1, <1>6, ThreadFacts DEF SubPending
  <2>2. Cardinality(SubPending') = Cardinality(SubPending) - 1
    BY <2>1, FiniteSets3, CardinalityStep
  <2>. QED BY <1>1, <1>2, <1>3, <1>4, <1>6, <2>2 DEF TokenAccounting
<1>. QED BY <1>1, <1>5, <1>6

\* Every other step leaves the account alone.
OtherSubmit(th) == \/ \E t \in Task : BeginSubmit(th, t)
                   \/ AssertFails(th) \/ Dispatch(th) \/ Push(th) \/ Wake(th)
OtherRun(c) == \/ RunTask(c) \/ InitContext(c) \/ ProcessWork(c) \/ ExecOneTask(c) \/ WorkDone(c)
               \/ Check1(c) \/ Ready1(c) \/ Check2(c) \/ Ready2(c)
               \/ NotifyStop(c) \/ NotifyWake(c) \/ Poll(c) \/ Deinit(c)
OtherMain == CallLoop \/ StartThread \/ AssignJob \/ Join

\* No step but the four atomics touches the account.
LEMMA OtherToken ==
  ASSUME TypeInv, StartInv, TokenAccounting,
         \/ \E th \in Thread : OtherSubmit(th)
         \/ \E c \in Ctx : OtherRun(c)
         \/ OtherMain
         \/ UNCHANGED vars
  PROVE  TokenAccounting'
<1> DEFINE Still == \A th \in Thread :
                       pc[th] \in {"add", "cb_sub"} \/ pc'[th] \in {"add", "cb_sub"} => pc'[th] = pc[th]
           Same  == UNCHANGED <<m_stop_token, m_ctx_stop_flag, old>>
<1>1. ASSUME NEW th \in Thread, OtherSubmit(th)
      PROVE  Still /\ Same
  BY <1>1 DEF OtherSubmit, BeginSubmit, AssertFails, Dispatch, Push, Wake, WriteFails, Die, Goto,
              schedVars, locVars, TypeInv, TypeOK, TypePc
<1>2. ASSUME NEW c \in Ctx, RunTask(c)
      PROVE  Still /\ Same
  BY <1>2, ThreadFacts DEF RunTask, Await, AwaitReady, SetEvent, ResumeNext, Finish, Goto,
              schedVars, locVars, TypeInv, TypeOK, TypePc
<1>3. ASSUME NEW c \in Ctx, OtherRun(c), ~ RunTask(c)
      PROVE  Still /\ Same
  BY <1>3, ThreadFacts
     DEF OtherRun, InitContext, ProcessWork, ExecOneTask, WorkDone, Check1, Ready1, Check2, Ready2,
         NotifyStop, NotifyWake, Poll, Deinit, WriteFails, Die, Goto,
         schedVars, locVars, TypeInv, TypeOK, TypePc
<1>4. ASSUME OtherMain
      PROVE  Still /\ Same
  <2>1. idx[Main] \in Ctx
    BY ThreadFacts DEF TypeInv, TypeOK, TypeLoc
  <2>2. StartThread => pc[idx[Main]] = "off"
    BY <2>1, CtxOrder DEF StartThread, StartInv
  <2>. QED
    BY <1>4, <2>1, <2>2, ThreadFacts
       DEF OtherMain, CallLoop, StartThread, AssignJob, Join, Goto, schedVars, locVars,
           TypeInv, TypeOK, TypePc
<1>5. ASSUME UNCHANGED vars
      PROVE  Still /\ Same
  BY <1>5 DEF vars, schedVars, locVars
<1>. QED BY <1>1, <1>2, <1>3, <1>4, <1>5, TokenFrame

\* The inductive invariant of the account.
TokenInv == TypeInv /\ StartInv /\ TokenAccounting

\* init_impl sets every flag and counts them all.
LEMMA InitToken == Init => TokenInv
<1> SUFFICES ASSUME Init
             PROVE  TokenInv
  OBVIOUS
<1>1. StartInv
  BY ThreadFacts DEF Init, StartInv
<1>2. Flagged = 0 .. N - 1 /\ AddPending = {} /\ SubPending = {}
  BY ThreadFacts DEF Init, Flagged, AddPending, SubPending, Ctx
<1>3. Cardinality(0 .. N - 1) = N /\ Cardinality({}) = 0
  BY NAssumption, FS_Interval, FS_EmptySet
<1>4. TokenAccounting
  BY <1>2, <1>3, NAssumption DEF Init, TokenAccounting
<1>. QED BY <1>1, <1>4, InitType DEF TokenInv

\* No step of any thread breaks the account.
LEMMA NextToken == TokenInv /\ [Next]_vars => TokenInv'
<1> SUFFICES ASSUME TokenInv, [Next]_vars
             PROVE  TokenAccounting'
  BY NextType, NextStart DEF TokenInv
<1>1. ASSUME NEW th \in Thread, Submit(th)
      PROVE  TokenAccounting'
  BY <1>1, FetchOrToken, FetchAddToken, OtherToken DEF TokenInv, Submit, OtherSubmit
<1>2. ASSUME NEW c \in Ctx, ContextStep(c)
      PROVE  TokenAccounting'
  <2>1. \/ Submit(c) \/ StopCbAnd(c) \/ StopCbSub(c) \/ OtherRun(c)
    BY <1>2 DEF ContextStep, OtherRun
  <2>. QED BY <1>1, <2>1, StopCbAndToken, StopCbSubToken, OtherToken, ThreadFacts DEF TokenInv
<1>3. CASE MainStep
  <2>1. Submit(Main) \/ OtherMain
    BY <1>3 DEF MainStep, OtherMain
  <2>. QED BY <1>1, <2>1, OtherToken, ThreadFacts DEF TokenInv
<1>4. CASE UNCHANGED vars
  BY <1>4, OtherToken DEF TokenInv
<1>. QED BY <1>2, <1>3, <1>4 DEF Next, Terminated

\* m_stop_token is the number of raised flags, up to the updates in flight,
\* for every number of contexts and tasks and also when tasks submit tasks.
THEOREM TokenCountsFlags == Spec => []TokenAccounting
<1>1. TokenInv => TokenAccounting
  BY DEF TokenInv
<1>. QED BY InitToken, NextToken, <1>1, PTL DEF Spec

-----------------------------------------------------------------------------
(***************************************************************************)
(* Where a task is.                                                        *)
(***************************************************************************)

\* Places at which a thread has a task in hand, and at which a context is in
\* the middle of a task.
HoldPc == {"assert", "or", "add", "push"}
RunPc  == {"task", "resume"} \cup SubPc

\* The queue of a context holds, once each, the tasks that were pushed to it
\* and not yet popped.
QueueInv == \A c \in Ctx :
  /\ IsInjective(m_task_queue[c])
  /\ \A t \in Task : t \in ToSet(m_task_queue[c]) <=>
                       home[t] = c /\ status[t] \in {"queued", "resumed"}

\* A task in somebody's hand is being submitted or, on a context, being woken;
\* a task that is pushed is past its submission.
SubInv == \A th \in Thread :
  /\ pc[th] \in HoldPc => \/ status[sub[th]] = "submitting"
                          \/ pc[th] = "push" /\ th # Main /\ status[sub[th]] = "waking"
  /\ pc[th] = "wake" => status[sub[th]] \notin {"unborn", "submitting"}

\* No two threads have the same task in hand.
OneHand == \A th, u \in Thread :
  pc[th] \in HoldPc /\ pc[u] \in HoldPc /\ sub[th] = sub[u] => th = u

\* What a set() has taken from the event and not yet reached is being woken,
\* is in nobody's hand and in no other walk.
WalkInv == \A th \in Thread :
  /\ IsInjective(walk[th])
  /\ \A t \in ToSet(walk[th]) :
       /\ status[t] = "waking"
       /\ \A u \in Thread : /\ pc[u] \in HoldPc => sub[u] # t
                            /\ u # th => t \notin ToSet(walk[u])

\* A context is in the middle of a task exactly while that task is running.
RunInv == \A c \in Ctx :
  /\ pc[c] \in RunPc => cur[c] \in Task /\ status[cur[c]] = "running" /\ home[cur[c]] = c
  /\ \A t \in Task : status[t] = "running" /\ home[t] = c => pc[c] \in RunPc /\ cur[c] = t

\* The event's list holds suspended tasks, once each.
EvInv == IsInjective(ev_list) /\ \A t \in ToSet(ev_list) : status[t] = "suspended"

\* A submission that has begun is in somebody's hand; a context's is of a
\* dynamic task.
SubmitInv ==
  /\ \A t \in Task : status[t] = "submitting" => \E th \in Thread : pc[th] \in HoldPc /\ sub[th] = t
  /\ \A c \in Ctx : pc[c] \in HoldPc /\ status[sub[c]] = "submitting" => sub[c] \in Dynamic

PlaceInv == /\ TypeInv /\ StartInv
            /\ QueueInv /\ SubInv /\ OneHand /\ WalkInv /\ RunInv /\ EvInv /\ SubmitInv

\* A step that moves no task and does not take a thread into or out of a
\* place where it has one.
PlaceFrame == /\ UNCHANGED <<m_task_queue, status, home, sub, walk, cur, ev_list>>
              /\ \A th \in Thread :
                   \/ pc'[th] = pc[th]
                   \/ pc[th] \in HoldPc \ {"push"} /\ pc'[th] \in HoldPc
                   \/ pc[th] \in {"task", "resume"} /\ pc'[th] \in {"task", "resume"}
                   \/ pc[th] \notin RunPc /\ pc'[th] \notin RunPc

\* Such a step keeps every place.
LEMMA FrameKeepsPlaces ==
  ASSUME PlaceInv, PlaceFrame
  PROVE  QueueInv' /\ SubInv' /\ OneHand' /\ WalkInv' /\ RunInv' /\ EvInv' /\ SubmitInv'
<1>1. /\ UNCHANGED <<m_task_queue, status, home, sub, walk, cur, ev_list>>
      /\ \A th \in Thread : /\ pc'[th] \in HoldPc <=> pc[th] \in HoldPc
                            /\ pc'[th] \in RunPc <=> pc[th] \in RunPc
                            /\ pc'[th] = "wake" <=> pc[th] = "wake"
                            /\ pc[th] = "push" => pc'[th] = "push"
  BY DEF PlaceFrame, HoldPc, RunPc, SubPc
<1>2. QueueInv'
  BY <1>1 DEF PlaceInv, QueueInv
<1>3. SubInv'
  BY <1>1 DEF PlaceInv, SubInv
<1>4. OneHand'
  BY <1>1 DEF PlaceInv, OneHand
<1>5. WalkInv'
  BY <1>1 DEF PlaceInv, WalkInv
<1>6. RunInv'
  BY <1>1, ThreadFacts DEF PlaceInv, RunInv
<1>7. EvInv'
  BY <1>1 DEF PlaceInv, EvInv
<1>8. SubmitInv'
  BY <1>1, ThreadFacts DEF PlaceInv, SubmitInv
<1>. QED BY <1>2, <1>3, <1>4, <1>5, <1>6, <1>7, <1>8

\* The steps that move no task.
QuietRun(c) == \/ AwaitReady(c) \/ (ResumeNext(c) /\ walk[c] = <<>>)
               \/ InitContext(c) \/ ProcessWork(c) \/ WorkDone(c)
               \/ Check1(c) \/ Ready1(c) \/ Check2(c) \/ Ready2(c)
               \/ StopCbAnd(c) \/ StopCbSub(c) \/ NotifyStop(c) \/ NotifyWake(c) \/ Poll(c)
QuietSubmit(th) == AssertFails(th) \/ FetchOr(th) \/ FetchAdd(th) \/ WriteFails(th, "wake", home[sub[th]])

\* They are frames.
LEMMA QuietSteps ==
  ASSUME PlaceInv,
         \/ \E c \in Ctx : QuietRun(c)
         \/ \E th \in Thread : QuietSubmit(th)
         \/ OtherMain
         \/ UNCHANGED vars
  PROVE  PlaceFrame
<1>. USE DEF PlaceFrame, schedVars, ctxVars, evVars, locVars, taskVars
<1>1. ASSUME NEW c \in Ctx,
             \/ AwaitReady(c) \/ (ResumeNext(c) /\ walk[c] = <<>>)
             \/ InitContext(c) \/ ProcessWork(c) \/ WorkDone(c)
      PROVE  PlaceFrame
  BY <1>1, ThreadFacts DEF AwaitReady, ResumeNext, InitContext, ProcessWork, WorkDone,
     Goto, RunPc, SubPc, PlaceInv, TypeInv, TypeOK, TypePc
<1>2. ASSUME NEW c \in Ctx, Check1(c) \/ Ready1(c) \/ Check2(c) \/ Ready2(c) \/ Poll(c)
      PROVE  PlaceFrame
  BY <1>2, ThreadFacts DEF Check1, Ready1, Check2, Ready2, Poll,
     Goto, RunPc, SubPc, PlaceInv, TypeInv, TypeOK, TypePc
<1>3. ASSUME NEW c \in Ctx, StopCbAnd(c) \/ StopCbSub(c) \/ NotifyStop(c) \/ NotifyWake(c)
      PROVE  PlaceFrame
  BY <1>3, ThreadFacts DEF StopCbAnd, StopCbSub, NotifyStop, NotifyWake, WriteFails, Die,
     Goto, RunPc, SubPc, PlaceInv, TypeInv, TypeOK, TypePc
<1>4. ASSUME NEW th \in Thread, QuietSubmit(th)
      PROVE  PlaceFrame
  BY <1>4 DEF QuietSubmit, AssertFails, FetchOr, FetchAdd, WriteFails, Die,
     Goto, HoldPc, PlaceInv, TypeInv, TypeOK, TypePc
<1>5. ASSUME OtherMain
      PROVE  PlaceFrame
  <2>1. idx[Main] \in Ctx
    BY ThreadFacts DEF PlaceInv, TypeInv, TypeOK, TypeLoc
  <2>2. StartThread => pc[idx[Main]] = "off"
    BY <2>1, CtxOrder DEF StartThread, PlaceInv, StartInv
  <2>. QED BY <1>5, <2>1, <2>2, ThreadFacts DEF OtherMain, CallLoop, StartThread, AssignJob, Join,
              Goto, RunPc, SubPc, PlaceInv, TypeInv, TypeOK, TypePc
<1>6. ASSUME UNCHANGED vars PROVE PlaceFrame
  BY <1>6 DEF vars
<1>. QED BY <1>1, <1>2, <1>3, <1>4, <1>5, <1>6 DEF QuietRun

\* The places but not the types.
Places == QueueInv /\ SubInv /\ OneHand /\ WalkInv /\ RunInv /\ EvInv /\ SubmitInv

\* A submission takes an unborn task in hand.
LEMMA BeginSubmitPlaces ==
  ASSUME NEW th \in Thread, NEW t \in Task, PlaceInv, BeginSubmit(th, t)
  PROVE  Places'
<1>1. /\ status[t] = "unborn" /\ status' = [status EXCEPT ![t] = "submitting"]
      /\ sub' = [sub EXCEPT ![th] = t] /\ pc' = [pc EXCEPT ![th] = "assert"]
      /\ pc[th] \in {"submit", "task"} /\ (th # Main => t \in Dynamic /\ pc[th] = "task")
      /\ (th = Main => pc[th] = "submit")
      /\ UNCHANGED <<m_task_queue, home, walk, cur, ev_list>>
  BY DEF BeginSubmit, Goto, ctxVars, evVars
<1>2. /\ \A u \in Task : status'[u] = IF u = t THEN "submitting" ELSE status[u]
      /\ \A u \in Thread : /\ sub'[u] = IF u = th THEN t ELSE sub[u]
                           /\ pc'[u] = IF u = th THEN "assert" ELSE pc[u]
  BY <1>1 DEF PlaceInv, TypeInv, TypeOK, TypePc, TypeLoc, TypeTask
<1>3. \A u \in Thread : sub[u] \in Task \cup {NoTask} /\ (pc[u] \in SubPc => sub[u] \in Task)
                        /\ walk[u] \in Seq(Task)
  BY DEF PlaceInv, TypeInv, TypeOK, TypeLoc, SubTyped
<1>4. QueueInv'
  BY <1>1, <1>2 DEF PlaceInv, QueueInv
<1>5. \A u \in Thread : pc[u] \in SubPc => sub[u] # t
  BY <1>1 DEF PlaceInv, SubInv, SubPc, HoldPc
<1>6. SubInv'
  BY <1>1, <1>2, <1>3, <1>5 DEF PlaceInv, SubInv, HoldPc, SubPc
<1>7. OneHand'
  BY <1>1, <1>2, <1>3, <1>5 DEF PlaceInv, OneHand, HoldPc, SubPc
<1>8. WalkInv'
  <2>1. \A u \in Thread : \A x \in ToSet(walk[u]) : x # t /\ x \in Task
    BY <1>1, <1>3 DEF PlaceInv, WalkInv, ToSet
  <2>. QED BY <1>1, <1>2, <2>1 DEF PlaceInv, WalkInv, HoldPc
<1>9. RunInv'
  <2>1. \A c \in Ctx : pc[c] \in RunPc <=> pc'[c] \in RunPc
    BY <1>1, <1>2, ThreadFacts DEF RunPc, SubPc
  <2>. QED BY <1>1, <1>2, <2>1, ThreadFacts DEF PlaceInv, RunInv
<1>10. EvInv'
  <2>1. ev_list \in Seq(Task)
    BY DEF PlaceInv, TypeInv, TypeOK, TypeEv
  <2>2. \A x \in ToSet(ev_list) : x # t /\ x \in Task
    BY <1>1, <2>1 DEF PlaceInv, EvInv, ToSet
  <2>. QED BY <1>1, <1>2, <2>2 DEF PlaceInv, EvInv
<1>11. SubmitInv'
  <2>1. ASSUME NEW u \in Task, status'[u] = "submitting"
        PROVE  \E v \in Thread : pc'[v] \in HoldPc /\ sub'[v] = u
    <3>1. CASE u = t
      BY <3>1, <1>2 DEF HoldPc
    <3>2. CASE u # t
      <4>1. PICK v \in Thread : pc[v] \in HoldPc /\ sub[v] = u
        BY <2>1, <3>2, <1>2 DEF PlaceInv, SubmitInv
      <4>2. v # th
        BY <4>1, <1>1 DEF HoldPc
      <4>. QED BY <4>1, <4>2, <1>2
    <3>. QED BY <3>1, <3>2
  <2>2. \A c \in Ctx : pc'[c] \in HoldPc /\ status'[sub'[c]] = "submitting" => sub'[c] \in Dynamic
    BY <1>1, <1>2, <1>3, <1>5, ThreadFacts DEF PlaceInv, SubmitInv, HoldPc, SubPc
  <2>. QED BY <2>1, <2>2 DEF SubmitInv
<1>. QED BY <1>4, <1>6, <1>7, <1>8, <1>9, <1>10, <1>11 DEF Places

\* dispatch() chooses the home of a task that nobody else knows.
LEMMA DispatchPlaces ==
  ASSUME NEW th \in Thread, PlaceInv, Dispatch(th)
  PROVE  Places'
<1> DEFINE t == sub[th]
<1>1. /\ pc[th] = "assert" /\ pc' = [pc EXCEPT ![th] = "or"] /\ home' = [home EXCEPT ![t] = m_cur]
      /\ UNCHANGED <<m_task_queue, status, sub, walk, cur, ev_list>>
  BY DEF Dispatch, Goto, ctxVars, evVars, locVars
<1>2. t \in Task /\ status[t] = "submitting"
  BY <1>1 DEF PlaceInv, SubInv, HoldPc, TypeInv, SubTyped, SubPc
<1> HIDE DEF t
<1>3. /\ \A u \in Task : u # t => home'[u] = home[u]
      /\ \A u \in Thread : pc'[u] = IF u = th THEN "or" ELSE pc[u]
  BY <1>1, <1>2 DEF PlaceInv, TypeInv, TypeOK, TypePc, TypeTask
<1>4. QueueInv'
  BY <1>1, <1>2, <1>3 DEF PlaceInv, QueueInv
<1>5. /\ \A u \in Thread : /\ pc'[u] \in HoldPc <=> pc[u] \in HoldPc
                           /\ pc'[u] \in RunPc <=> pc[u] \in RunPc
                           /\ pc'[u] \in {"push", "wake"} => pc'[u] = pc[u]
                           /\ pc[u] \in {"push", "wake"} => pc'[u] = pc[u]
  BY <1>1, <1>3 DEF HoldPc, RunPc, SubPc
<1>6. SubInv' /\ OneHand' /\ WalkInv'
  BY <1>1, <1>5 DEF PlaceInv, SubInv, OneHand, WalkInv
<1>7. RunInv'
  BY <1>1, <1>2, <1>3, <1>5, ThreadFacts DEF PlaceInv, RunInv
<1>8. EvInv' /\ SubmitInv'
  BY <1>1, <1>5, ThreadFacts DEF PlaceInv, EvInv, SubmitInv
<1>. QED BY <1>4, <1>6, <1>7, <1>8 DEF Places

\* push: the task goes from the hand to the end of its home's queue.
LEMMA PushPlaces ==
  ASSUME NEW th \in Thread, PlaceInv, Push(th)
  PROVE  Places'
<1> DEFINE t == sub[th]
           c == home[t]
<1>1. /\ pc[th] = "push" /\ pc' = [pc EXCEPT ![th] = "wake"]
      /\ m_task_queue' = [m_task_queue EXCEPT ![c] = Append(@, t)]
      /\ status' = [status EXCEPT ![t] = IF @ = "waking" THEN "resumed" ELSE "queued"]
      /\ UNCHANGED <<home, sub, walk, cur, ev_list>>
  BY DEF Push, Goto, evVars, locVars
<1>2. t \in Task /\ c \in Ctx /\ status[t] \in {"submitting", "waking"}
  BY <1>1 DEF PlaceInv, SubInv, HoldPc, TypeInv, TypeOK, TypeTask, SubTyped, SubPc
<1>3. t = sub[th] /\ c = home[t]
  OBVIOUS
<1> HIDE DEF t, c
<1>4. /\ \A u \in Task : u # t => status'[u] = status[u]
      /\ status'[t] \in {"queued", "resumed"}
      /\ \A u \in Thread : pc'[u] = IF u = th THEN "wake" ELSE pc[u]
      /\ \A d \in Ctx : m_task_queue'[d] = IF d = c THEN Append(m_task_queue[c], t) ELSE m_task_queue[d]
      /\ \A d \in Ctx : m_task_queue[d] \in Seq(Task)
  BY <1>1, <1>2 DEF PlaceInv, TypeInv, TypeOK, TypePc, TypeTask, TypeCtx
<1>5. t \notin ToSet(m_task_queue[c])
  BY <1>2 DEF PlaceInv, QueueInv
<1>6. /\ IsInjective(m_task_queue'[c])
      /\ ToSet(m_task_queue'[c]) = ToSet(m_task_queue[c]) \cup {t}
  BY <1>2, <1>4, <1>5, AppendSet DEF PlaceInv, QueueInv
<1>7. QueueInv'
  BY <1>1, <1>2, <1>3, <1>4, <1>6 DEF PlaceInv, QueueInv
<1>8. \A u \in Thread : u # th /\ pc[u] \in HoldPc => sub[u] # t
  BY <1>1, <1>3 DEF PlaceInv, OneHand, HoldPc
<1>9. SubInv'
  <2>1. \A u \in Thread : pc[u] \in SubPc => sub[u] \in Task
    BY DEF PlaceInv, TypeInv, SubTyped
  <2>. QED BY <1>1, <1>2, <1>3, <1>4, <1>8, <2>1 DEF PlaceInv, SubInv, HoldPc, SubPc
<1>10. OneHand'
  BY <1>1, <1>4 DEF PlaceInv, OneHand, HoldPc
<1>11. WalkInv'
  <2>1. \A u \in Thread : \A x \in ToSet(walk[u]) : x # t /\ x \in Task
    <3>1. \A u \in Thread : walk[u] \in Seq(Task)
      BY DEF PlaceInv, TypeInv, TypeOK, TypeLoc
    <3>2. pc[th] \in HoldPc
      BY <1>1 DEF HoldPc
    <3>. QED BY <1>3, <3>1, <3>2 DEF PlaceInv, WalkInv, ToSet
  <2>2. \A u \in Thread : pc'[u] \in HoldPc => pc[u] \in HoldPc
    BY <1>4 DEF HoldPc
  <2>. QED BY <1>1, <1>4, <2>1, <2>2 DEF PlaceInv, WalkInv
<1>12. RunInv'
  <2>1. \A d \in Ctx : pc[d] \in RunPc <=> pc'[d] \in RunPc
    BY <1>1, <1>4, ThreadFacts DEF RunPc, SubPc
  <2>. QED BY <1>1, <1>2, <1>4, <2>1, ThreadFacts DEF PlaceInv, RunInv
<1>13. EvInv'
  <2>1. ev_list \in Seq(Task)
    BY DEF PlaceInv, TypeInv, TypeOK, TypeEv
  <2>2. \A x \in ToSet(ev_list) : x # t /\ x \in Task
    BY <1>2, <2>1 DEF PlaceInv, EvInv, ToSet
  <2>. QED BY <1>1, <1>4, <2>2 DEF PlaceInv, EvInv
<1>14. SubmitInv'
  <2>1. ASSUME NEW u \in Task, status'[u] = "submitting"
        PROVE  \E v \in Thread : pc'[v] \in HoldPc /\ sub'[v] = u
    <3>1. u # t
      BY <2>1, <1>4
    <3>2. PICK v \in Thread : pc[v] \in HoldPc /\ sub[v] = u
      BY <2>1, <3>1, <1>4 DEF PlaceInv, SubmitInv
    <3>3. v # th
      BY <3>1, <3>2, <1>3
    <3>. QED BY <3>2, <3>3, <1>1, <1>4
  <2>2. \A d \in Ctx : pc'[d] \in HoldPc => pc[d] \in HoldPc /\ status'[sub'[d]] = status[sub[d]] /\ sub'[d] = sub[d]
    <3>1. \A u \in Thread : pc[u] \in SubPc => sub[u] \in Task
      BY DEF PlaceInv, TypeInv, SubTyped
    <3>. QED BY <1>1, <1>4, <1>8, <3>1, ThreadFacts DEF HoldPc, SubPc
  <2>. QED BY <2>1, <2>2 DEF PlaceInv, SubmitInv
<1>. QED BY <1>7, <1>9, <1>10, <1>11, <1>12, <1>13, <1>14 DEF Places

\* wake_up: the thread forgets the task it has pushed.
LEMMA WakePlaces ==
  ASSUME NEW th \in Thread, PlaceInv, Wake(th)
  PROVE  Places'
<1>1. CASE WriteFails(th, "wake", home[sub[th]])
  <2>1. PlaceFrame
    BY <1>1, QuietSteps DEF QuietSubmit
  <2>. QED BY <2>1, FrameKeepsPlaces DEF Places
<1>2. CASE ~ WriteFails(th, "wake", home[sub[th]])
  <2>1. /\ pc[th] = "wake" /\ pc' = [pc EXCEPT ![th] = IF th = Main THEN "submit" ELSE "resume"]
        /\ sub' = [sub EXCEPT ![th] = NoTask]
        /\ UNCHANGED <<m_task_queue, status, home, walk, cur, ev_list>>
    BY <1>2 DEF Wake, Goto, evVars, taskVars
  <2>2. \A u \in Thread : /\ u # th => pc'[u] = pc[u] /\ sub'[u] = sub[u]
                          /\ u = th => pc'[u] = IF th = Main THEN "submit" ELSE "resume"
    BY <2>1 DEF PlaceInv, TypeInv, TypeOK, TypePc, TypeLoc
  <2>3. \A u \in Thread : pc'[u] \in SubPc => u # th /\ pc'[u] = pc[u] /\ sub'[u] = sub[u]
    BY <2>2 DEF SubPc
  <2>4. QueueInv' /\ EvInv'
    BY <2>1 DEF PlaceInv, QueueInv, EvInv
  <2>5. SubInv' /\ OneHand'
    BY <2>1, <2>3 DEF PlaceInv, SubInv, OneHand, HoldPc, SubPc
  <2>6. WalkInv'
    BY <2>1, <2>3 DEF PlaceInv, WalkInv, HoldPc, SubPc
  <2>7. RunInv'
    <3>1. \A d \in Ctx : pc[d] \in RunPc <=> pc'[d] \in RunPc
      BY <2>1, <2>2, ThreadFacts DEF RunPc, SubPc
    <3>. QED BY <2>1, <3>1, ThreadFacts DEF PlaceInv, RunInv
  <2>8. SubmitInv'
    <3>1. \A u \in Thread : pc[u] \in HoldPc => u # th /\ pc'[u] = pc[u] /\ sub'[u] = sub[u]
      BY <2>1, <2>2 DEF HoldPc
    <3>. QED BY <2>1, <2>3, <3>1, ThreadFacts DEF PlaceInv, SubmitInv, HoldPc, SubPc
  <2>. QED BY <2>4, <2>5, <2>6, <2>7, <2>8 DEF Places
<1>. QED BY <1>1, <1>2

\* Await and Finish: the context lets go of the task it was resuming, which
\* goes to the event's list or is over.
LEMMA LeavePlaces ==
  ASSUME NEW c \in Ctx, PlaceInv, Await(c) \/ Finish(c)
  PROVE  Places'
<1> DEFINE t == cur[c]
<1>0. pc[c] = "task" /\ t \in Task /\ status[t] = "running" /\ home[t] = c
  BY DEF Await, Finish, Goto, PlaceInv, RunInv, RunPc
<1>1. /\ pc' = [pc EXCEPT ![c] = "exec"]
      /\ cur' = [cur EXCEPT ![c] = NoTask]
      /\ UNCHANGED <<m_task_queue, home, sub, walk>>
      /\ \/ status' = [status EXCEPT ![t] = "suspended"] /\ ev_list' = <<t>> \o ev_list
         \/ status' = [status EXCEPT ![t] = "done"] /\ ev_list' = ev_list
  BY DEF Await, Finish, Goto, evVars, ctxVars
<1> HIDE DEF t
<1>2. /\ \A u \in Task : u # t => status'[u] = status[u]
      /\ status'[t] \in {"suspended", "done"}
      /\ \A u \in Thread : pc'[u] = IF u = c THEN "exec" ELSE pc[u]
      /\ \A u \in Thread : u # c => cur'[u] = cur[u]
  BY <1>0, <1>1, ThreadFacts DEF PlaceInv, TypeInv, TypeOK, TypePc, TypeLoc, TypeTask
<1>3. \A u \in Thread : /\ sub[u] \in Task \cup {NoTask} /\ (pc[u] \in SubPc => sub[u] \in Task)
                        /\ walk[u] \in Seq(Task)
                        /\ pc[u] \in SubPc => pc'[u] = pc[u]
                        /\ pc'[u] \in SubPc => pc'[u] = pc[u]
  BY <1>0, <1>2 DEF PlaceInv, TypeInv, TypeOK, TypeLoc, SubTyped, SubPc
<1>4. QueueInv'
  BY <1>0, <1>1, <1>2 DEF PlaceInv, QueueInv
<1>5. \A u \in Thread : pc[u] \in HoldPc => sub[u] # t
  BY <1>0 DEF PlaceInv, SubInv, HoldPc
<1>6. SubInv'
  BY <1>1, <1>2, <1>3, <1>5 DEF PlaceInv, SubInv, HoldPc, SubPc
<1>7. OneHand'
  BY <1>1, <1>3 DEF PlaceInv, OneHand, HoldPc, SubPc
<1>8. WalkInv'
  <2>1. \A u \in Thread : \A x \in ToSet(walk[u]) : x # t /\ x \in Task
    BY <1>0, <1>3 DEF PlaceInv, WalkInv, ToSet
  <2>. QED BY <1>1, <1>2, <1>3, <2>1 DEF PlaceInv, WalkInv, HoldPc, SubPc
<1>9. RunInv'
  <2>1. \A d \in Ctx : d # c => pc'[d] = pc[d] /\ cur'[d] = cur[d]
    BY <1>2, ThreadFacts
  <2>2. pc'[c] \notin RunPc
    BY <1>2, ThreadFacts DEF RunPc, SubPc
  <2>. QED BY <1>0, <1>1, <1>2, <2>1, <2>2 DEF PlaceInv, RunInv, t
<1>10. EvInv'
  <2>1. ev_list \in Seq(Task)
    BY DEF PlaceInv, TypeInv, TypeOK, TypeEv
  <2>2. \A x \in ToSet(ev_list) : x # t /\ x \in Task
    BY <1>0, <2>1 DEF PlaceInv, EvInv, ToSet
  <2>3. IsInjective(ev_list) /\ \A x \in ToSet(ev_list) : status'[x] = "suspended"
    BY <1>2, <2>2 DEF PlaceInv, EvInv
  <2>4. CASE ev_list' = ev_list
    BY <2>3, <2>4 DEF EvInv
  <2>5. CASE status' = [status EXCEPT ![t] = "suspended"] /\ ev_list' = <<t>> \o ev_list
    <3>1. status'[t] = "suspended"
      BY <2>5, <1>0 DEF PlaceInv, TypeInv, TypeOK, TypeTask
    <3>2. IsInjective(ev_list') /\ ToSet(ev_list') = ToSet(ev_list) \cup {t}
      BY <2>1, <2>2, <2>3, <2>5, <1>0, PushSet
    <3>. QED BY <2>3, <3>1, <3>2 DEF EvInv
  <2>. QED BY <1>1, <2>4, <2>5
<1>11. SubmitInv'
  <2>1. ASSUME NEW u \in Task, status'[u] = "submitting"
        PROVE  \E v \in Thread : pc'[v] \in HoldPc /\ sub'[v] = u
    <3>1. PICK v \in Thread : pc[v] \in HoldPc /\ sub[v] = u
      BY <2>1, <1>2 DEF PlaceInv, SubmitInv
    <3>. QED BY <3>1, <1>1, <1>3 DEF HoldPc, SubPc
  <2>2. \A d \in Ctx : pc'[d] \in HoldPc /\ status'[sub'[d]] = "submitting" => sub'[d] \in Dynamic
    BY <1>1, <1>2, <1>3, <1>5, ThreadFacts DEF PlaceInv, SubmitInv, HoldPc, SubPc
  <2>. QED BY <2>1, <2>2 DEF SubmitInv
<1>. QED BY <1>4, <1>6, <1>7, <1>8, <1>9, <1>10, <1>11 DEF Places

\* set(): the whole list goes into the hands of the setter.
LEMMA SetEventPlaces ==
  ASSUME NEW c \in Ctx, PlaceInv, SetEvent(c)
  PROVE  Places'
<1>1. /\ pc[c] = "task" /\ pc' = [pc EXCEPT ![c] = "resume"]
      /\ ev_list' = <<>> /\ walk' = [walk EXCEPT ![c] = ev_list]
      /\ status' = [u \in Task |-> IF status[u] = "suspended" THEN "waking" ELSE status[u]]
      /\ UNCHANGED <<m_task_queue, home, sub, cur>>
  BY DEF SetEvent, Goto, ctxVars
<1>2. /\ \A u \in Task : status'[u] = IF status[u] = "suspended" THEN "waking" ELSE status[u]
      /\ \A u \in Thread : pc'[u] = IF u = c THEN "resume" ELSE pc[u]
      /\ \A u \in Thread : walk'[u] = IF u = c THEN ev_list ELSE walk[u]
  BY <1>1, ThreadFacts DEF PlaceInv, TypeInv, TypeOK, TypePc, TypeLoc
<1>3. \A u \in Thread : /\ sub[u] \in Task \cup {NoTask} /\ (pc[u] \in SubPc => sub[u] \in Task)
                        /\ walk[u] \in Seq(Task)
                        /\ pc[u] \in SubPc => pc'[u] = pc[u]
                        /\ pc'[u] \in SubPc => pc'[u] = pc[u]
  BY <1>1, <1>2 DEF PlaceInv, TypeInv, TypeOK, TypeLoc, SubTyped, SubPc
<1>4. QueueInv'
  BY <1>1, <1>2 DEF PlaceInv, QueueInv
<1>5. SubInv'
  BY <1>1, <1>2, <1>3 DEF PlaceInv, SubInv, HoldPc, SubPc
<1>6. OneHand'
  BY <1>1, <1>3 DEF PlaceInv, OneHand, HoldPc, SubPc
<1>7. WalkInv'
  <2>1. IsInjective(ev_list) /\ \A x \in ToSet(ev_list) : x \in Task /\ status[x] = "suspended"
    BY DEF PlaceInv, EvInv, TypeInv, TypeOK, TypeEv, ToSet
  <2>2. \A u \in Thread : \A x \in ToSet(walk[u]) : x \in Task /\ status[x] = "waking"
    BY <1>3 DEF PlaceInv, WalkInv, ToSet
  <2>3. \A u \in Thread : \A x \in ToSet(walk[u]) : x \notin ToSet(ev_list)
    BY <2>1, <2>2
  <2>4. \A u \in Thread : pc'[u] \in HoldPc =>
             pc[u] \in HoldPc /\ sub'[u] = sub[u] /\ sub[u] \notin ToSet(ev_list)
    BY <1>1, <1>3, <2>1 DEF PlaceInv, SubInv, HoldPc, SubPc
  <2>5. ASSUME NEW u \in Thread
        PROVE  /\ IsInjective(walk'[u])
               /\ \A x \in ToSet(walk'[u]) :
                    /\ status'[x] = "waking"
                    /\ \A v \in Thread : /\ pc'[v] \in HoldPc => sub'[v] # x
                                         /\ v # u => x \notin ToSet(walk'[v])
    <3>1. CASE u = c
      BY <3>1, <1>2, <2>1, <2>3, <2>4
    <3>2. CASE u # c
      BY <3>2, <1>2, <2>2, <2>3, <2>4 DEF PlaceInv, WalkInv
    <3>. QED BY <3>1, <3>2
  <2>. QED BY <2>5 DEF WalkInv
<1>8. RunInv'
  <2>1. \A d \in Ctx : pc[d] \in RunPc <=> pc'[d] \in RunPc
    BY <1>1, <1>2, ThreadFacts DEF RunPc, SubPc
  <2>. QED BY <1>1, <1>2, <2>1 DEF PlaceInv, RunInv
<1>9. EvInv'
  BY <1>1, NoElements DEF EvInv
<1>10. SubmitInv'
  BY <1>1, <1>2, <1>3, ThreadFacts DEF PlaceInv, SubmitInv, HoldPc, SubPc
<1>. QED BY <1>4, <1>5, <1>6, <1>7, <1>8, <1>9, <1>10 DEF Places

\* The next awaiter of the walk is taken in hand.
LEMMA ResumePlaces ==
  ASSUME NEW c \in Ctx, PlaceInv, ResumeNext(c), walk[c] # <<>>
  PROVE  Places'
<1> DEFINE t == Head(walk[c])
<1>1. /\ pc[c] = "resume" /\ pc' = [pc EXCEPT ![c] = "push"]
      /\ sub' = [sub EXCEPT ![c] = t] /\ walk' = [walk EXCEPT ![c] = Tail(@)]
      /\ UNCHANGED <<m_task_queue, home, cur, status, ev_list>>
  BY DEF ResumeNext, Goto, ctxVars, evVars, taskVars
<1>2. /\ t \in Task /\ IsInjective(Tail(walk[c])) /\ t \notin ToSet(Tail(walk[c]))
      /\ ToSet(walk[c]) = ToSet(Tail(walk[c])) \cup {t}
  BY TailSet, ThreadFacts DEF PlaceInv, TypeInv, TypeOK, TypeLoc, WalkInv
<1> HIDE DEF t
<1>3. /\ \A u \in Thread : pc'[u] = IF u = c THEN "push" ELSE pc[u]
      /\ \A u \in Thread : sub'[u] = IF u = c THEN t ELSE sub[u]
      /\ \A u \in Thread : walk'[u] = IF u = c THEN Tail(walk[c]) ELSE walk[u]
  BY <1>1, ThreadFacts DEF PlaceInv, TypeInv, TypeOK, TypePc, TypeLoc
<1>4. /\ status[t] = "waking"
      /\ \A u \in Thread : pc[u] \in HoldPc => sub[u] # t
      /\ \A u \in Thread : u # c => t \notin ToSet(walk[u])
  BY <1>2, ThreadFacts DEF PlaceInv, WalkInv
<1>5. QueueInv' /\ EvInv'
  BY <1>1 DEF PlaceInv, QueueInv, EvInv
<1>6. SubInv'
  BY <1>1, <1>3, <1>4, ThreadFacts DEF PlaceInv, SubInv, HoldPc
<1>7. OneHand'
  BY <1>1, <1>3, <1>4 DEF PlaceInv, OneHand, HoldPc
<1>8. WalkInv'
  <2>1. \A u \in Thread : IsInjective(walk'[u]) /\ ToSet(walk'[u]) \subseteq ToSet(walk[u])
                          /\ t \notin ToSet(walk'[u])
    BY <1>2, <1>3, <1>4 DEF PlaceInv, WalkInv
  <2>2. \A u \in Thread : pc'[u] \in HoldPc => sub'[u] = t \/ (pc[u] \in HoldPc /\ sub'[u] = sub[u])
    BY <1>3
  <2>3. ASSUME NEW u \in Thread, NEW x \in ToSet(walk'[u])
        PROVE  /\ status'[x] = "waking"
               /\ \A v \in Thread : /\ pc'[v] \in HoldPc => sub'[v] # x
                                    /\ v # u => x \notin ToSet(walk'[v])
    <3>1. x \in ToSet(walk[u]) /\ x # t
      BY <2>1
    <3>2. /\ status[x] = "waking"
          /\ \A v \in Thread : /\ pc[v] \in HoldPc => sub[v] # x
                               /\ v # u => x \notin ToSet(walk[v])
      BY <3>1 DEF PlaceInv, WalkInv
    <3>. QED BY <1>1, <2>1, <2>2, <3>1, <3>2
  <2>. QED BY <2>1, <2>3 DEF WalkInv
<1>9. RunInv'
  <2>1. \A d \in Ctx : pc[d] \in RunPc <=> pc'[d] \in RunPc
    BY <1>1, <1>3, ThreadFacts DEF RunPc, SubPc
  <2>. QED BY <1>1, <2>1 DEF PlaceInv, RunInv
<1>10. SubmitInv'
  <2>1. \A u \in Thread : pc[u] \in HoldPc => pc'[u] = pc[u] /\ sub'[u] = sub[u]
    BY <1>1, <1>3 DEF HoldPc
  <2>2. \A u \in Thread : pc'[u] \in HoldPc => (u = c /\ sub'[u] = t) \/ (pc'[u] = pc[u] /\ sub'[u] = sub[u])
    BY <1>3
  <2>. QED BY <1>1, <1>4, <2>1, <2>2, ThreadFacts DEF PlaceInv, SubmitInv
<1>. QED BY <1>5, <1>6, <1>7, <1>8, <1>9, <1>10 DEF Places

\* exec_one_task: the oldest task of the queue is running.
LEMMA ExecPlaces ==
  ASSUME NEW c \in Ctx, PlaceInv, ExecOneTask(c)
  PROVE  Places'
<1> DEFINE t == Head(m_task_queue[c])
<1>1. /\ pc[c] = "exec" /\ pc' = [pc EXCEPT ![c] = "task"] /\ m_task_queue[c] # <<>>
      /\ m_task_queue' = [m_task_queue EXCEPT ![c] = Tail(@)]
      /\ status' = [status EXCEPT ![t] = "running"] /\ cur' = [cur EXCEPT ![c] = t]
      /\ UNCHANGED <<home, sub, walk, ev_list>>
  BY DEF ExecOneTask, Goto, evVars
<1>2. /\ t \in Task /\ IsInjective(Tail(m_task_queue[c])) /\ t \notin ToSet(Tail(m_task_queue[c]))
      /\ ToSet(m_task_queue[c]) = ToSet(Tail(m_task_queue[c])) \cup {t}
  BY <1>1, TailSet DEF PlaceInv, TypeInv, TypeOK, TypeCtx, QueueInv
<1> HIDE DEF t
<1>3. /\ \A u \in Thread : pc'[u] = IF u = c THEN "task" ELSE pc[u]
      /\ \A u \in Thread : cur'[u] = IF u = c THEN t ELSE cur[u]
      /\ \A u \in Task : status'[u] = IF u = t THEN "running" ELSE status[u]
      /\ \A d \in Ctx : m_task_queue'[d] = IF d = c THEN Tail(m_task_queue[c]) ELSE m_task_queue[d]
  BY <1>1, ThreadFacts DEF PlaceInv, TypeInv, TypeOK, TypePc, TypeLoc, TypeTask, TypeCtx
<1>4. status[t] \in {"queued", "resumed"} /\ home[t] = c
  BY <1>2 DEF PlaceInv, QueueInv
<1>5. QueueInv'
  BY <1>1, <1>2, <1>3, <1>4 DEF PlaceInv, QueueInv
<1>6. \A u \in Thread : /\ sub[u] \in Task \cup {NoTask} /\ (pc[u] \in SubPc => sub[u] \in Task)
                        /\ walk[u] \in Seq(Task)
                        /\ pc[u] \in SubPc => pc'[u] = pc[u]
                        /\ pc'[u] \in SubPc => pc'[u] = pc[u]
  BY <1>1, <1>3 DEF PlaceInv, TypeInv, TypeOK, TypeLoc, SubTyped, SubPc
<1>7. \A u \in Thread : pc[u] \in HoldPc => sub[u] # t
  BY <1>4 DEF PlaceInv, SubInv, HoldPc
<1>8. SubInv'
  BY <1>1, <1>3, <1>6, <1>7 DEF PlaceInv, SubInv, HoldPc, SubPc
<1>9. OneHand'
  BY <1>1, <1>6 DEF PlaceInv, OneHand, HoldPc, SubPc
<1>10. WalkInv'
  <2>1. \A u \in Thread : \A x \in ToSet(walk[u]) : x # t /\ x \in Task
    BY <1>4, <1>6 DEF PlaceInv, WalkInv, ToSet
  <2>2. \A u \in Thread : pc'[u] \in HoldPc => pc[u] \in HoldPc
    BY <1>6 DEF HoldPc, SubPc
  <2>3. sub' = sub /\ walk' = walk
    BY <1>1
  <2>4. WalkInv
    BY DEF PlaceInv
  <2>. QED BY <1>3, <2>1, <2>2, <2>3, <2>4 DEF WalkInv
<1>11. RunInv'
  <2>1. \A d \in Ctx : d # c => pc'[d] = pc[d] /\ cur'[d] = cur[d]
    BY <1>3, ThreadFacts
  <2>2. pc'[c] = "task" /\ cur'[c] = t /\ pc'[c] \in RunPc /\ pc[c] \notin RunPc
    BY <1>1, <1>3, ThreadFacts DEF RunPc, SubPc
  <2>3. \A u \in Task : status[u] = "running" => home[u] # c
    BY <2>2 DEF PlaceInv, RunInv
  <2>4. \A d \in Ctx : d # c /\ pc[d] \in RunPc => cur[d] # t
    BY <1>4 DEF PlaceInv, RunInv
  <2>5. \A d \in Ctx : d # c => /\ pc'[d] \in RunPc => cur'[d] \in Task /\ status'[cur'[d]] = "running" /\ home'[cur'[d]] = d
    BY <1>1, <1>3, <2>1, <2>4 DEF PlaceInv, RunInv
  <2>6. \A d \in Ctx : d # c => \A u \in Task : status'[u] = "running" /\ home'[u] = d => pc'[d] \in RunPc /\ cur'[d] = u
    BY <1>1, <1>3, <1>4, <2>1 DEF PlaceInv, RunInv
  <2>7. \A u \in Task : status'[u] = "running" /\ home'[u] = c => u = t
    BY <1>1, <1>3, <2>3
  <2>. QED BY <1>1, <1>2, <1>3, <1>4, <2>2, <2>5, <2>6, <2>7 DEF RunInv
<1>12. EvInv'
  <2>1. \A x \in ToSet(ev_list) : x # t /\ x \in Task
    BY <1>4 DEF PlaceInv, EvInv, ToSet, TypeInv, TypeOK, TypeEv
  <2>. QED BY <1>1, <1>3, <2>1 DEF PlaceInv, EvInv
<1>13. SubmitInv'
  <2>1. ASSUME NEW u \in Task, status'[u] = "submitting"
        PROVE  \E v \in Thread : pc'[v] \in HoldPc /\ sub'[v] = u
    <3>1. PICK v \in Thread : pc[v] \in HoldPc /\ sub[v] = u
      BY <2>1, <1>3 DEF PlaceInv, SubmitInv
    <3>. QED BY <3>1, <1>1, <1>6 DEF HoldPc, SubPc
  <2>2. \A d \in Ctx : pc'[d] \in HoldPc /\ status'[sub'[d]] = "submitting" => sub'[d] \in Dynamic
    BY <1>1, <1>3, <1>6, <1>7, ThreadFacts DEF PlaceInv, SubmitInv, HoldPc, SubPc
  <2>. QED BY <2>1, <2>2 DEF SubmitInv
<1>. QED BY <1>5, <1>8, <1>9, <1>10, <1>11, <1>12, <1>13 DEF Places

\* deinit: the tasks of the queue are lost with it.
LEMMA DeinitPlaces ==
  ASSUME NEW c \in Ctx, PlaceInv, Deinit(c)
  PROVE  Places'
<1>1. /\ pc[c] = "deinit" /\ pc' = [pc EXCEPT ![c] = "end"]
      /\ m_task_queue' = [m_task_queue EXCEPT ![c] = <<>>]
      /\ status' = [t \in Task |-> IF home[t] = c /\ status[t] \in {"queued", "resumed"}
                                   THEN "lost" ELSE status[t]]
      /\ UNCHANGED <<home, sub, cur, walk, ev_list>>
  BY DEF Deinit, Goto, evVars, locVars
<1>2. /\ \A u \in Thread : pc'[u] = IF u = c THEN "end" ELSE pc[u]
      /\ \A u \in Task : /\ status'[u] # status[u] => home[u] = c /\ status[u] \in {"queued", "resumed"}
                                                                  /\ status'[u] = "lost"
                         /\ home[u] = c => status'[u] \notin {"queued", "resumed"}
      /\ \A d \in Ctx : m_task_queue'[d] = IF d = c THEN <<>> ELSE m_task_queue[d]
  BY <1>1, ThreadFacts DEF PlaceInv, TypeInv, TypeOK, TypePc, TypeCtx
<1>3. \A u \in Thread : /\ pc[u] \in SubPc => sub[u] \in Task
                        /\ walk[u] \in Seq(Task)
                        /\ pc[u] \in RunPc => pc'[u] = pc[u]
                        /\ pc'[u] \in RunPc => pc'[u] = pc[u]
  BY <1>1, <1>2 DEF PlaceInv, TypeInv, TypeOK, TypeLoc, SubTyped, RunPc, SubPc
<1>4. QueueInv'
  BY <1>1, <1>2, NoElements DEF PlaceInv, QueueInv
<1>5. SubInv'
  BY <1>1, <1>2, <1>3 DEF PlaceInv, SubInv, HoldPc, SubPc, RunPc
<1>6. OneHand'
  BY <1>1, <1>3 DEF PlaceInv, OneHand, HoldPc, SubPc, RunPc
<1>7. WalkInv'
  <2>1. \A u \in Thread : \A x \in ToSet(walk[u]) : x \in Task
    BY <1>3 DEF ToSet
  <2>. QED BY <1>1, <1>2, <1>3, <2>1 DEF PlaceInv, WalkInv, HoldPc, SubPc, RunPc
<1>8. RunInv'
  BY <1>1, <1>2, <1>3, ThreadFacts DEF PlaceInv, RunInv
<1>9. EvInv'
  <2>1. \A x \in ToSet(ev_list) : x \in Task
    BY DEF ToSet, PlaceInv, TypeInv, TypeOK, TypeEv
  <2>. QED BY <1>1, <1>2, <2>1 DEF PlaceInv, EvInv
<1>10. SubmitInv'
  <2>1. \A u \in Task : status'[u] = "submitting" => status[u] = "submitting"
    BY <1>2
  <2>2. \A u \in Thread : /\ pc[u] \in HoldPc => pc'[u] = pc[u]
                          /\ pc'[u] \in HoldPc => pc'[u] = pc[u] /\ sub[u] \in Task
    BY <1>3 DEF HoldPc, SubPc, RunPc
  <2>. QED BY <1>1, <2>1, <2>2, ThreadFacts DEF PlaceInv, SubmitInv
<1>. QED BY <1>4, <1>5, <1>6, <1>7, <1>8, <1>9, <1>10 DEF Places

\* At the start no task is anywhere.
LEMMA InitPlaces == Init => PlaceInv
<1> SUFFICES ASSUME Init PROVE Places
  BY InitToken DEF PlaceInv, Places, TokenInv
<1>1. /\ \A c \in Ctx : m_task_queue[c] = <<>>
      /\ \A th \in Thread : walk[th] = <<>> /\ pc[th] \notin RunPc
      /\ \A t \in Task : status[t] = "unborn"
      /\ ev_list = <<>>
  BY DEF Init, RunPc, SubPc
<1>2. QueueInv /\ WalkInv /\ EvInv
  BY <1>1, NoElements DEF QueueInv, WalkInv, EvInv
<1>3. SubInv /\ OneHand /\ RunInv /\ SubmitInv
  BY <1>1, ThreadFacts DEF SubInv, OneHand, RunInv, SubmitInv, HoldPc, RunPc, SubPc
<1>. QED BY <1>2, <1>3 DEF Places

\* Every step of every thread leaves every task in one place.
LEMMA NextPlaces == PlaceInv /\ [Next]_vars => PlaceInv'
<1> SUFFICES ASSUME PlaceInv, [Next]_vars PROVE Places'
  BY NextType, NextStart DEF PlaceInv, Places
<1>0. (\/ \E c \in Ctx : QuietRun(c)
       \/ \E th \in Thread : QuietSubmit(th)
       \/ OtherMain
       \/ UNCHANGED vars) => Places'
  BY QuietSteps, FrameKeepsPlaces DEF Places
<1>1. ASSUME NEW th \in Thread, Submit(th)
      PROVE  Places'
  BY <1>0, <1>1, BeginSubmitPlaces, DispatchPlaces, PushPlaces, WakePlaces
     DEF Submit, QuietSubmit
<1>2. ASSUME NEW c \in Ctx, ContextStep(c)
      PROVE  Places'
  <2>1. CASE RunTask(c)
    BY <1>0, <2>1, LeavePlaces, SetEventPlaces, ResumePlaces DEF RunTask, QuietRun
  <2>2. CASE ~ RunTask(c) /\ ~ Submit(c)
    BY <1>0, <1>2, <2>2, ExecPlaces, DeinitPlaces DEF ContextStep, QuietRun
  <2>. QED BY <1>1, <2>1, <2>2, ThreadFacts
<1>3. CASE MainStep
  BY <1>0, <1>1, <1>3, ThreadFacts DEF MainStep, OtherMain
<1>4. CASE UNCHANGED vars
  BY <1>0, <1>4
<1>. QED BY <1>2, <1>3, <1>4 DEF Next, Terminated

-----------------------------------------------------------------------------
(***************************************************************************)
(* m_num_wait_task counts the suspended tasks.                             *)
(***************************************************************************)

WaitStatus == {"suspended", "waking", "resumed"}

\* Between an empty_wait_work() that said yes and the next task the counter
\* is zero: only the context itself moves it.
IdlePc   == {"ready1", "deinit", "ready2", "cb_and", "cb_sub", "notify", "notify_wake"}
IdleWait == \A c \in Ctx : pc[c] \in IdlePc => m_num_wait_task[c] = 0

\* The inductive invariant of the counter.
WaitInv == PlaceInv /\ IdleWait /\ WaitCount

\* The tasks the counter counts are finitely many.
LEMMA FiniteRegistered ==
  \A c \in Ctx : IsFiniteSet(Registered(c)) /\ Registered(c) \subseteq Task /\ IsFiniteSet(Registered(c)')
<1>1. IsFiniteSet(Task)
  BY TaskAssumption DEF Task
<1>2. \A c \in Ctx : Registered(c) \subseteq Task /\ Registered(c)' \subseteq Task
  BY DEF Registered
<1>. QED BY <1>1, <1>2, FS_Subset

\* A step that neither registers nor unregisters a wait.
WaitFrame == /\ UNCHANGED m_num_wait_task
             /\ \A t \in Task : /\ status'[t] \in WaitStatus <=> status[t] \in WaitStatus
                                /\ status[t] \in WaitStatus => home'[t] = home[t]

\* Such a step keeps the count.
LEMMA FrameKeepsCount == WaitCount /\ WaitFrame => WaitCount'
<1> SUFFICES ASSUME WaitCount, WaitFrame PROVE WaitCount'
  OBVIOUS
<1>1. \A c \in Ctx : Registered(c)' = Registered(c)
  BY DEF WaitFrame, Registered, WaitStatus
<1>. QED BY <1>1 DEF WaitCount, WaitFrame

\* The steps that are frames.
LEMMA WaitFrames ==
  ASSUME PlaceInv, [Next]_vars, \A c \in Ctx : ~ Await(c) /\ ~ ExecOneTask(c) /\ ~ Deinit(c)
  PROVE  WaitFrame
<1> USE DEF WaitFrame, schedVars, ctxVars, taskVars
<1>1. ASSUME NEW th \in Thread, NEW t \in Task, BeginSubmit(th, t) PROVE WaitFrame
  <2>1. /\ status[t] = "unborn" /\ status' = [status EXCEPT ![t] = "submitting"] /\ home' = home
        /\ UNCHANGED m_num_wait_task
    BY <1>1 DEF BeginSubmit
  <2>. QED BY <2>1 DEF PlaceInv, TypeInv, TypeOK, TypeTask, WaitStatus
<1>2. ASSUME NEW th \in Thread, Dispatch(th) PROVE WaitFrame
  <2>1. pc[th] = "assert" /\ home' = [home EXCEPT ![sub[th]] = m_cur] /\ status' = status
        /\ UNCHANGED m_num_wait_task
    BY <1>2 DEF Dispatch, Goto
  <2>2. status[sub[th]] = "submitting" /\ sub[th] \in Task
    BY <2>1 DEF PlaceInv, SubInv, HoldPc, TypeInv, SubTyped, SubPc
  <2>. QED BY <2>1, <2>2 DEF PlaceInv, TypeInv, TypeOK, TypeTask, WaitStatus
<1>3. ASSUME NEW th \in Thread, Push(th) PROVE WaitFrame
  <2>1. /\ pc[th] = "push" /\ home' = home /\ UNCHANGED m_num_wait_task
        /\ status' = [status EXCEPT ![sub[th]] = IF @ = "waking" THEN "resumed" ELSE "queued"]
    BY <1>3 DEF Push, Goto
  <2>2. status[sub[th]] \in {"submitting", "waking"} /\ sub[th] \in Task
    BY <2>1 DEF PlaceInv, SubInv, HoldPc, TypeInv, SubTyped, SubPc
  <2>. QED BY <2>1, <2>2 DEF PlaceInv, TypeInv, TypeOK, TypeTask, WaitStatus
<1>4. ASSUME NEW th \in Thread, AssertFails(th) \/ FetchOr(th) \/ FetchAdd(th) \/ Wake(th) PROVE WaitFrame
  BY <1>4 DEF AssertFails, FetchOr, FetchAdd, Wake, WriteFails, Die
<1>5. ASSUME NEW th \in Thread, Submit(th) PROVE WaitFrame
  BY <1>1, <1>2, <1>3, <1>4, <1>5 DEF Submit
<1>6. ASSUME NEW c \in Ctx, Finish(c) PROVE WaitFrame
  <2>1. /\ pc[c] = "task" /\ home' = home /\ UNCHANGED m_num_wait_task
        /\ status' = [status EXCEPT ![cur[c]] = "done"]
    BY <1>6 DEF Finish, Goto
  <2>2. status[cur[c]] = "running"
    BY <2>1 DEF PlaceInv, RunInv, RunPc
  <2>. QED BY <2>1, <2>2 DEF PlaceInv, TypeInv, TypeOK, TypeTask, WaitStatus
<1>7. ASSUME NEW c \in Ctx, SetEvent(c) \/ AwaitReady(c) \/ ResumeNext(c) PROVE WaitFrame
  BY <1>7 DEF SetEvent, AwaitReady, ResumeNext, WaitStatus
<1>8. ASSUME NEW c \in Ctx,
             \/ InitContext(c) \/ ProcessWork(c) \/ WorkDone(c) \/ Check1(c) \/ Ready1(c) \/ Check2(c)
             \/ Ready2(c) \/ StopCbAnd(c) \/ StopCbSub(c) \/ NotifyStop(c) \/ NotifyWake(c) \/ Poll(c)
      PROVE  WaitFrame
  BY <1>8 DEF InitContext, ProcessWork, WorkDone, Check1, Ready1, Check2, Ready2, StopCbAnd, StopCbSub,
              NotifyStop, NotifyWake, Poll, WriteFails, Die
<1>9. ASSUME CallLoop \/ StartThread \/ AssignJob \/ Join PROVE WaitFrame
  BY <1>9 DEF CallLoop, StartThread, AssignJob, Join
<1>10. ASSUME UNCHANGED vars PROVE WaitFrame
  BY <1>10 DEF vars
<1>. QED BY <1>5, <1>6, <1>7, <1>8, <1>9, <1>10, ThreadFacts
         DEF Next, Terminated, MainStep, ContextStep, RunTask

\* register_wait: the task that suspends is counted.
LEMMA AwaitCount ==
  ASSUME NEW c \in Ctx, PlaceInv, WaitCount, Await(c)
  PROVE  WaitCount'
<1> DEFINE t == cur[c]
<1>1. t \in Task /\ status[t] = "running" /\ home[t] = c
  BY DEF Await, Goto, PlaceInv, RunInv, RunPc
<1>2. /\ m_num_wait_task' = [m_num_wait_task EXCEPT ![c] = @ + 1]
      /\ status' = [status EXCEPT ![t] = "suspended"] /\ home' = home
  BY DEF Await
<1> HIDE DEF t
<1>3. /\ \A d \in Ctx : m_num_wait_task'[d] = IF d = c THEN m_num_wait_task[c] + 1 ELSE m_num_wait_task[d]
      /\ \A u \in Task : status'[u] = IF u = t THEN "suspended" ELSE status[u]
  BY <1>1, <1>2 DEF PlaceInv, TypeInv, TypeOK, TypeTask, TypeCtx
<1>4. t \notin Registered(c) /\ Registered(c)' = Registered(c) \cup {t}
  BY <1>1, <1>2, <1>3 DEF Registered
<1>5. \A d \in Ctx : d # c => Registered(d)' = Registered(d)
  BY <1>1, <1>2, <1>3 DEF Registered
<1>6. Cardinality(Registered(c)') = Cardinality(Registered(c)) + 1
  BY <1>4, FiniteRegistered, CardinalityStep
<1>. QED BY <1>3, <1>5, <1>6 DEF WaitCount

\* await_resume: a task that was woken is no longer counted.
LEMMA ExecCount ==
  ASSUME NEW c \in Ctx, PlaceInv, WaitCount, ExecOneTask(c)
  PROVE  WaitCount'
<1> DEFINE t == Head(m_task_queue[c])
<1>1. /\ m_task_queue[c] # <<>> /\ home' = home
      /\ m_num_wait_task' = [m_num_wait_task EXCEPT ![c] = IF status[t] = "resumed" THEN @ - 1 ELSE @]
      /\ status' = [status EXCEPT ![t] = "running"]
  BY DEF ExecOneTask
<1>2. t \in Task /\ home[t] = c /\ status[t] \in {"queued", "resumed"}
  <2>1. t \in Task /\ t \in ToSet(m_task_queue[c])
    BY <1>1, TailSet DEF PlaceInv, TypeInv, TypeOK, TypeCtx, QueueInv
  <2>. QED BY <2>1 DEF PlaceInv, QueueInv
<1> HIDE DEF t
<1>3. /\ \A d \in Ctx : d # c => m_num_wait_task'[d] = m_num_wait_task[d]
      /\ m_num_wait_task'[c] = IF status[t] = "resumed" THEN m_num_wait_task[c] - 1 ELSE m_num_wait_task[c]
      /\ \A u \in Task : status'[u] = IF u = t THEN "running" ELSE status[u]
  BY <1>1, <1>2 DEF PlaceInv, TypeInv, TypeOK, TypeTask, TypeCtx
<1>4. \A d \in Ctx : d # c => Registered(d)' = Registered(d)
  BY <1>1, <1>2, <1>3 DEF Registered
<1>5. CASE status[t] = "resumed"
  <2>1. t \in Registered(c) /\ Registered(c)' = Registered(c) \ {t}
    BY <1>1, <1>2, <1>3, <1>5 DEF Registered
  <2>2. Cardinality(Registered(c)') = Cardinality(Registered(c)) - 1
    BY <2>1, FiniteRegistered, CardinalityStep
  <2>. QED BY <1>3, <1>4, <1>5, <2>2 DEF WaitCount
<1>6. CASE status[t] # "resumed"
  <2>1. Registered(c)' = Registered(c)
    BY <1>1, <1>2, <1>3, <1>6 DEF Registered
  <2>. QED BY <1>3, <1>4, <1>6, <2>1 DEF WaitCount
<1>. QED BY <1>5, <1>6

\* deinit: no task of the context is suspended, whatever its queue holds.
LEMMA DeinitCount ==
  ASSUME NEW c \in Ctx, PlaceInv, IdleWait, WaitCount, Deinit(c)
  PROVE  WaitCount'
<1>1. m_num_wait_task[c] = 0
  BY DEF IdleWait, IdlePc, Deinit, Goto
<1>2. Registered(c) = {}
  BY <1>1, FiniteRegistered, FS_EmptySet DEF WaitCount
<1>3. WaitFrame
  BY <1>2 DEF Deinit, WaitFrame, Registered, WaitStatus
<1>. QED BY <1>3, FrameKeepsCount

\* The counter is zero as long as the context stays idle.
LEMMA NextIdleWait == PlaceInv /\ IdleWait /\ [Next]_vars => IdleWait'
<1> SUFFICES ASSUME PlaceInv, IdleWait, [Next]_vars PROVE IdleWait'
  OBVIOUS
<1> USE DEF schedVars, ctxVars
<1>0. ASSUME NEW th \in Thread,
             \A c \in Ctx : c # th => pc'[c] = pc[c] /\ m_num_wait_task'[c] = m_num_wait_task[c],
             th \in Ctx /\ pc'[th] \in IdlePc => m_num_wait_task'[th] = 0
      PROVE  IdleWait'
  BY <1>0 DEF IdleWait
<1>1. ASSUME NEW th \in Thread, Submit(th) PROVE IdleWait'
  <2>1. \A c \in Ctx : c # th => pc'[c] = pc[c] /\ m_num_wait_task'[c] = m_num_wait_task[c]
    BY <1>1, ThreadFacts DEF Submit, BeginSubmit, AssertFails, Dispatch, FetchOr, FetchAdd, Push, Wake,
        WriteFails, Die, Goto, PlaceInv, TypeInv, TypeOK, TypePc
  <2>2. pc'[th] \notin IdlePc
    BY <1>1, ThreadFacts DEF Submit, BeginSubmit, AssertFails, Dispatch, FetchOr, FetchAdd, Push, Wake,
        WriteFails, Die, Goto, PlaceInv, TypeInv, TypeOK, TypePc, IdlePc
  <2>. QED BY <1>0, <2>1, <2>2
<1>2. ASSUME NEW c \in Ctx, RunTask(c) \/ ExecOneTask(c) PROVE IdleWait'
  <2>1. \A d \in Ctx : d # c => pc'[d] = pc[d] /\ m_num_wait_task'[d] = m_num_wait_task[d]
    BY <1>2, ThreadFacts DEF RunTask, Await, AwaitReady, SetEvent, ResumeNext, Finish, ExecOneTask,
        Goto, PlaceInv, TypeInv, TypeOK, TypePc, TypeCtx
  <2>2. pc'[c] \notin IdlePc
    BY <1>2, ThreadFacts DEF RunTask, Await, AwaitReady, SetEvent, ResumeNext, Finish, ExecOneTask,
        Goto, PlaceInv, TypeInv, TypeOK, TypePc, IdlePc
  <2>. QED BY <1>0, <2>1, <2>2, ThreadFacts
<1>3. ASSUME NEW c \in Ctx,
             \/ InitContext(c) \/ ProcessWork(c) \/ WorkDone(c) \/ Check1(c) \/ Ready1(c) \/ Check2(c)
             \/ Ready2(c) \/ StopCbAnd(c) \/ StopCbSub(c) \/ NotifyStop(c) \/ NotifyWake(c) \/ Poll(c) \/ Deinit(c)
      PROVE  IdleWait'
  <2>1. UNCHANGED m_num_wait_task /\ \A d \in Ctx : d # c => pc'[d] = pc[d]
    BY <1>3, ThreadFacts DEF InitContext, ProcessWork, WorkDone, Check1, Ready1, Check2, Ready2, StopCbAnd, StopCbSub,
        NotifyStop, NotifyWake, Poll, Deinit, WriteFails, Die, Goto, PlaceInv, TypeInv, TypeOK, TypePc
  <2>2. pc'[c] \in IdlePc => pc[c] \in IdlePc \/ EmptyWaitWork(c)
    BY <1>3, ThreadFacts DEF InitContext, ProcessWork, WorkDone, Check1, Ready1, Check2, Ready2, StopCbAnd, StopCbSub,
        NotifyStop, NotifyWake, Poll, Deinit, WriteFails, Die, Goto, PlaceInv, TypeInv, TypeOK, TypePc, IdlePc
  <2>3. pc'[c] \in IdlePc => m_num_wait_task'[c] = 0
    BY <2>1, <2>2 DEF IdleWait, EmptyWaitWork
  <2>. QED BY <1>0, <2>1, <2>3, ThreadFacts
<1>4. ASSUME CallLoop \/ StartThread \/ AssignJob \/ Join PROVE IdleWait'
  <2>1. idx[Main] \in Ctx
    BY ThreadFacts DEF PlaceInv, TypeInv, TypeOK, TypeLoc
  <2>2. UNCHANGED m_num_wait_task /\ \A c \in Ctx : pc'[c] \in IdlePc => pc'[c] = pc[c]
    BY <1>4, <2>1, ThreadFacts DEF CallLoop, StartThread, AssignJob, Join, Goto, IdlePc,
        PlaceInv, TypeInv, TypeOK, TypePc
  <2>. QED BY <2>2 DEF IdleWait
<1>5. ASSUME UNCHANGED vars PROVE IdleWait'
  BY <1>5 DEF IdleWait, vars
<1>. QED BY <1>1, <1>2, <1>3, <1>4, <1>5, ThreadFacts DEF Next, Terminated, MainStep, ContextStep

\* At the start nothing waits.
LEMMA InitWait == Init => WaitInv
<1> SUFFICES ASSUME Init PROVE IdleWait /\ WaitCount
  BY InitPlaces DEF WaitInv
<1>1. \A c \in Ctx : m_num_wait_task[c] = 0 /\ Registered(c) = {}
  BY DEF Init, Registered
<1>. QED BY <1>1, FS_EmptySet DEF IdleWait, WaitCount

\* No step of any thread breaks the count.
LEMMA NextWait == WaitInv /\ [Next]_vars => WaitInv'
<1> SUFFICES ASSUME WaitInv, [Next]_vars PROVE WaitCount'
  BY NextPlaces, NextIdleWait DEF WaitInv
<1>1. CASE \E c \in Ctx : Await(c) \/ ExecOneTask(c) \/ Deinit(c)
  BY <1>1, AwaitCount, ExecCount, DeinitCount DEF WaitInv
<1>2. CASE ~ \E c \in Ctx : Await(c) \/ ExecOneTask(c) \/ Deinit(c)
  BY <1>2, WaitFrames, FrameKeepsCount DEF WaitInv
<1>. QED BY <1>1, <1>2

\* m_num_wait_task of every context is the number of its tasks that wait for
\* the event, in every interleaving of setters, waiters and submitters: it
\* never wraps, and empty_wait_work() never says yes while a task waits.
THEOREM WaitsAreCounted == Spec => []WaitCount
<1>1. WaitInv => WaitCount
  BY DEF WaitInv
<1>. QED BY InitWait, NextWait, <1>1, PTL DEF Spec

-----------------------------------------------------------------------------
(***************************************************************************)
(* No wake-up is lost.                                                     *)
(***************************************************************************)

\* The next eventfd_read of context c returns, now or after a write that is
\* on its way from a submission (Woken) or from stop_impl (StopWoken).
Woken(c)     == eventfd[c] # "zero" \/ \E th \in Thread : pc[th] = "wake" /\ home[sub[th]] = c
StopWoken(c) == eventfd[c] # "zero" \/ \E d \in Ctx : pc[d] = "notify_wake" /\ idx[d] = c

\* Context c has seen every task of its queue: process_work() still counts
\* them, or has run them all.
AfterWork == {"check1", "ready1", "check2", "ready2", "cb_and", "cb_sub", "notify", "notify_wake",
              "poll", "deinit"}
Seen(c) == /\ pc[c] \in RunPc \cup {"exec"} => Len(m_task_queue[c]) <= num[c]
           /\ pc[c] \in AfterWork => m_task_queue[c] = <<>>

\* Context c will read stop_requested() before it sleeps, or sleeps because
\* a task of its own still waits.
BeforeStop == {"off", "init", "work", "exec", "check1", "ready1", "deinit", "end"} \cup RunPc
MayStay(c) == \/ pc[c] \in BeforeStop
              \/ pc[c] \in {"check2", "poll"} /\ m_num_wait_task[c] # 0

WakeInv     == \A c \in Ctx : Woken(c) \/ Seen(c)
StopWakeInv == \A c \in Ctx : stop[c] => StopWoken(c) \/ MayStay(c)

\* The inductive invariant.
SleepInv == PlaceInv /\ WakeInv /\ StopWakeInv

\* A write that is on its way arrives, and what it wrote stays until the
\* context reads it.
KeepsWoken == \A c \in Ctx : Woken(c) => Woken(c)' \/ pc'[c] = "work"
KeepsStop  == \A c \in Ctx : StopWoken(c) => StopWoken(c)' \/ pc'[c] = "work"
\* What a context has not seen comes with a write.
KeepsSeen  == \A c \in Ctx : Seen(c) => Seen(c)' \/ Woken(c)'
KeepsStay  == \A c \in Ctx : stop'[c] => StopWoken(c)' \/ (stop[c] /\ (MayStay(c) => MayStay(c)'))

\* With these four, a step keeps both invariants.
LEMMA SleepStep ==
  ASSUME WakeInv, StopWakeInv, KeepsWoken, KeepsStop, KeepsSeen, KeepsStay
  PROVE  WakeInv' /\ StopWakeInv'
<1>1. \A c \in Ctx : pc'[c] = "work" => Seen(c)' /\ MayStay(c)'
  BY DEF Seen, MayStay, RunPc, SubPc, AfterWork, BeforeStop
<1>2. \A c \in Ctx : Woken(c)' \/ Seen(c)'
  BY <1>1 DEF WakeInv, KeepsWoken, KeepsSeen
<1>3. \A c \in Ctx : stop'[c] => StopWoken(c)' \/ MayStay(c)'
  BY <1>1 DEF StopWakeInv, KeepsStop, KeepsStay
<1>. QED BY <1>2, <1>3 DEF WakeInv, StopWakeInv

\* A step of thread th that writes no eventfd, sets no stop flag, changes no
\* counter, queue or home, and after which th is neither about to wake a
\* context nor past one of the two checks.
SleepFrame(th) ==
  /\ UNCHANGED <<m_task_queue, eventfd, stop>>
  /\ \A u \in Thread : u # th => pc'[u] = pc[u] /\ sub'[u] = sub[u] /\ idx'[u] = idx[u]
  /\ \A d \in Ctx : d # th => num'[d] = num[d] /\ m_num_wait_task'[d] = m_num_wait_task[d]
  /\ \A u \in Thread : pc[u] = "wake" => home'[sub[u]] = home[sub[u]]
  /\ pc[th] \notin {"wake", "notify_wake"}

\* Such a step has all four, as far as the other threads are concerned.
LEMMA FrameKeepsSleep ==
  ASSUME NEW th \in Thread, SleepFrame(th), th \in Ctx => (Seen(th) => Seen(th)') /\ (MayStay(th) /\ stop[th] => MayStay(th)')
  PROVE  KeepsWoken /\ KeepsStop /\ KeepsSeen /\ KeepsStay
<1>1. KeepsWoken
  BY DEF SleepFrame, KeepsWoken, Woken
<1>2. KeepsStop
  BY ThreadFacts DEF SleepFrame, KeepsStop, StopWoken
<1>3. KeepsSeen
  BY ThreadFacts DEF SleepFrame, KeepsSeen, Seen
<1>4. KeepsStay
  BY ThreadFacts DEF SleepFrame, KeepsStay, MayStay
<1>. QED BY <1>1, <1>2, <1>3, <1>4

\* The steps of a submission.
LEMMA SubmitSleep ==
  ASSUME NEW th \in Thread, PlaceInv, Submit(th)
  PROVE  KeepsWoken /\ KeepsStop /\ KeepsSeen /\ KeepsStay
<1> USE DEF schedVars, ctxVars, evVars, locVars, taskVars
<1>1. ASSUME (\E t \in Task : BeginSubmit(th, t)) \/ Dispatch(th) \/ FetchOr(th) \/ FetchAdd(th)
      PROVE  KeepsWoken /\ KeepsStop /\ KeepsSeen /\ KeepsStay
  <2>1. /\ pc[th] \in {"submit", "task", "assert", "or", "add"}
        /\ pc'[th] \in {"assert", "or", "add", "push"}
        /\ UNCHANGED <<m_task_queue, eventfd, stop, num, idx, m_num_wait_task>>
        /\ \A u \in Thread : u # th => pc'[u] = pc[u] /\ sub'[u] = sub[u]
    BY <1>1 DEF BeginSubmit, Dispatch, FetchOr, FetchAdd, Goto, PlaceInv, TypeInv, TypeOK, TypePc, TypeLoc
  <2>2. \A u \in Thread : pc[u] = "wake" => home'[sub[u]] = home[sub[u]]
    <3>1. CASE Dispatch(th)
      <4>1. pc[th] = "assert" /\ home' = [home EXCEPT ![sub[th]] = m_cur]
        BY <3>1 DEF Dispatch, Goto
      <4>2. status[sub[th]] = "submitting"
        BY <4>1 DEF PlaceInv, SubInv, HoldPc
      <4>3. \A u \in Thread : pc[u] = "wake" => sub[u] # sub[th] /\ sub[u] \in Task
        BY <4>2 DEF PlaceInv, SubInv, TypeInv, SubTyped, SubPc
      <4>. QED BY <4>1, <4>3 DEF PlaceInv, TypeInv, TypeOK, TypeTask
    <3>2. CASE ~ Dispatch(th)
      BY <1>1, <3>2 DEF BeginSubmit, FetchOr, FetchAdd
    <3>. QED BY <3>1, <3>2
  <2>3. SleepFrame(th)
    BY <2>1, <2>2 DEF SleepFrame
  <2>4. th \in Ctx => (Seen(th) => Seen(th)') /\ MayStay(th)'
    <3>1. ASSUME th \in Ctx PROVE pc[th] # "submit"
      BY <3>1, <1>1, ThreadFacts DEF BeginSubmit, Dispatch, FetchOr, FetchAdd, Goto
    <3>2. th \in Ctx => pc[th] \in RunPc /\ pc'[th] \in RunPc
      BY <2>1, <3>1 DEF RunPc, SubPc
    <3>. QED BY <2>1, <3>2 DEF Seen, MayStay, AfterWork, RunPc, SubPc, BeforeStop
  <2>. QED BY <2>3, <2>4, FrameKeepsSleep
<1>2. ASSUME Push(th)
      PROVE  KeepsWoken /\ KeepsStop /\ KeepsSeen /\ KeepsStay
  <2>0. pc[th] = "push"
    BY <1>2 DEF Push, Goto
  <2>2. PICK c \in Ctx : c = home[sub[th]]
    BY <2>0 DEF PlaceInv, TypeInv, TypeOK, TypeTask, SubTyped, SubPc
  <2>1. /\ pc[th] = "push" /\ pc' = [pc EXCEPT ![th] = "wake"]
        /\ m_task_queue' = [m_task_queue EXCEPT ![c] = Append(@, sub[th])]
        /\ UNCHANGED <<home, sub, eventfd, idx, stop, num, m_num_wait_task>>
    BY <1>2, <2>2 DEF Push, Goto
  <2>3. /\ \A u \in Thread : pc'[u] = IF u = th THEN "wake" ELSE pc[u]
        /\ \A d \in Ctx : d # c => m_task_queue'[d] = m_task_queue[d]
    BY <2>1, <2>2 DEF PlaceInv, TypeInv, TypeOK, TypePc, TypeCtx
  <2>4. Woken(c)'
    BY <2>1, <2>2, <2>3 DEF Woken
  <2>5. KeepsWoken /\ KeepsStop
    BY <2>1, <2>3, ThreadFacts DEF KeepsWoken, KeepsStop, Woken, StopWoken
  <2>6. \A d \in Ctx : pc[d] \in RunPc <=> pc'[d] \in RunPc
    BY <2>1, <2>3, ThreadFacts DEF RunPc, SubPc
  <2>7. \A d \in Ctx : pc'[d] \notin RunPc => pc'[d] = pc[d]
    BY <2>3, ThreadFacts DEF RunPc, SubPc
  <2>8. KeepsSeen
    <3>1. \A d \in Ctx : d # c => (Seen(d) => Seen(d)')
      BY <2>1, <2>3, <2>6, <2>7 DEF Seen, AfterWork, RunPc, SubPc
    <3>. QED BY <2>4, <3>1 DEF KeepsSeen
  <2>9. KeepsStay
    BY <2>1, <2>6, <2>7 DEF KeepsStay, MayStay, BeforeStop
  <2>. QED BY <2>5, <2>8, <2>9
<1>3. ASSUME AssertFails(th) \/ WriteFails(th, "wake", home[sub[th]])
      PROVE  KeepsWoken /\ KeepsStop /\ KeepsSeen /\ KeepsStay
  BY <1>3 DEF AssertFails, WriteFails, Die, KeepsWoken, KeepsStop, KeepsSeen, KeepsStay, Woken, StopWoken, Seen, MayStay
<1>4. ASSUME Wake(th), ~ WriteFails(th, "wake", home[sub[th]])
      PROVE  KeepsWoken /\ KeepsStop /\ KeepsSeen /\ KeepsStay
  <2>0. pc[th] = "wake"
    BY <1>4 DEF Wake, Goto
  <2>2. PICK c \in Ctx : c = home[sub[th]]
    BY <2>0 DEF PlaceInv, TypeInv, TypeOK, TypeTask, SubTyped, SubPc
  <2>1. /\ pc[th] = "wake" /\ pc' = [pc EXCEPT ![th] = IF th = Main THEN "submit" ELSE "resume"]
        /\ eventfd' = [eventfd EXCEPT ![c] = IF @ = "closed" THEN @ ELSE "nonzero"]
        /\ sub' = [sub EXCEPT ![th] = NoTask]
        /\ UNCHANGED <<m_task_queue, home, idx, stop, num, m_num_wait_task>>
    BY <1>4, <2>2 DEF Wake, WriteEventfd, Goto
  <2>3. /\ \A u \in Thread : u # th => pc'[u] = pc[u] /\ sub'[u] = sub[u]
        /\ th \in Ctx => pc'[th] = "resume"
        /\ eventfd'[c] # "zero" /\ \A d \in Ctx : d # c => eventfd'[d] = eventfd[d]
    BY <2>1, <2>2, ThreadFacts DEF PlaceInv, TypeInv, TypeOK, TypePc, TypeCtx, TypeLoc
  <2>4. KeepsWoken
    <3>1. ASSUME NEW d \in Ctx, Woken(d), d # c PROVE Woken(d)'
      <4>1. CASE eventfd[d] # "zero"
        BY <3>1, <4>1, <2>3 DEF Woken
      <4>2. CASE eventfd[d] = "zero"
        <5>1. PICK u \in Thread : pc[u] = "wake" /\ home[sub[u]] = d
          BY <3>1, <4>2 DEF Woken
        <5>2. u # th
          BY <5>1, <3>1, <2>2
        <5>. QED BY <5>1, <5>2, <2>1, <2>3 DEF Woken
      <4>. QED BY <4>1, <4>2
    <3>2. Woken(c)'
      BY <2>3 DEF Woken
    <3>. QED BY <3>1, <3>2 DEF KeepsWoken
  <2>5. KeepsStop
    BY <2>1, <2>3, ThreadFacts DEF KeepsStop, StopWoken
  <2>6. \A d \in Ctx : pc[d] \in RunPc <=> pc'[d] \in RunPc
    BY <2>1, <2>3, ThreadFacts DEF RunPc, SubPc
  <2>7. \A d \in Ctx : pc'[d] \notin RunPc => pc'[d] = pc[d]
    BY <2>3, ThreadFacts DEF RunPc, SubPc
  <2>8. KeepsSeen
    BY <2>1, <2>6, <2>7 DEF KeepsSeen, Seen, AfterWork, RunPc, SubPc
  <2>9. KeepsStay
    BY <2>1, <2>6, <2>7 DEF KeepsStay, MayStay, BeforeStop
  <2>. QED BY <2>4, <2>5, <2>8, <2>9
<1>. QED BY <1>1, <1>2, <1>3, <1>4 DEF Submit, Wake

\* The steps of a task and of context::run that leave the eventfd alone.
LEMMA RunSleep ==
  ASSUME NEW c \in Ctx, PlaceInv,
         \/ RunTask(c) \/ InitContext(c) \/ ProcessWork(c) \/ WorkDone(c)
         \/ Check1(c) \/ Ready1(c) \/ Check2(c) \/ Ready2(c) \/ StopCbAnd(c) \/ StopCbSub(c)
  PROVE  KeepsWoken /\ KeepsStop /\ KeepsSeen /\ KeepsStay
<1> USE DEF schedVars, ctxVars, evVars, locVars, taskVars
<1>0. c \in Thread /\ num[c] \in Nat /\ m_task_queue[c] \in Seq(Task) /\ Len(m_task_queue[c]) \in Nat
  BY ThreadFacts, LenProperties DEF PlaceInv, TypeInv, TypeOK, TypeLoc, TypeCtx
<1>1. CASE RunTask(c)
  <2>1. /\ pc[c] \in {"task", "resume"} /\ pc'[c] \in {"task", "resume", "push", "exec"}
        /\ UNCHANGED <<m_task_queue, eventfd, stop, num, idx, home>>
        /\ \A u \in Thread : u # c => pc'[u] = pc[u] /\ sub'[u] = sub[u]
        /\ \A d \in Ctx : d # c => m_num_wait_task'[d] = m_num_wait_task[d]
    BY <1>1, <1>0 DEF RunTask, Await, AwaitReady, SetEvent, ResumeNext, Finish, Goto,
       PlaceInv, TypeInv, TypeOK, TypePc, TypeLoc, TypeCtx
  <2>2. SleepFrame(c)
    BY <2>1 DEF SleepFrame
  <2>3. (Seen(c) => Seen(c)') /\ MayStay(c)'
    BY <2>1 DEF Seen, MayStay, AfterWork, RunPc, SubPc, BeforeStop
  <2>. QED BY <1>0, <2>2, <2>3, FrameKeepsSleep
<1>2. CASE InitContext(c) \/ ProcessWork(c) \/ WorkDone(c)
  <2>1. /\ UNCHANGED <<m_task_queue, eventfd, stop, sub, idx, home, m_num_wait_task>>
        /\ \/ pc[c] = "init" /\ pc'[c] = "work"
           \/ pc[c] = "work" /\ pc'[c] = "exec" /\ num'[c] = Len(m_task_queue[c])
           \/ pc[c] = "exec" /\ pc'[c] = "check1" /\ num[c] = 0
        /\ \A u \in Thread : u # c => pc'[u] = pc[u]
        /\ \A d \in Ctx : d # c => num'[d] = num[d]
    BY <1>2, <1>0 DEF InitContext, ProcessWork, WorkDone, Goto,
       PlaceInv, TypeInv, TypeOK, TypePc, TypeLoc
  <2>2. SleepFrame(c)
    BY <2>1 DEF SleepFrame
  <2>3. MayStay(c)'
    BY <2>1 DEF MayStay, BeforeStop
  <2>4. Seen(c) => Seen(c)'
    <3>1. CASE pc[c] = "init"
      BY <2>1, <3>1 DEF Seen, RunPc, SubPc, AfterWork
    <3>2. CASE pc[c] = "work"
      BY <1>0, <2>1, <3>2 DEF Seen, RunPc, SubPc, AfterWork
    <3>3. CASE pc[c] = "exec"
      <4>1. Seen(c) => Len(m_task_queue[c]) <= 0
        BY <2>1, <3>3 DEF Seen
      <4>2. Seen(c) => m_task_queue'[c] = <<>>
        BY <1>0, <2>1, <4>1, EmptySeq
      <4>. QED BY <2>1, <3>3, <4>2 DEF Seen, RunPc, SubPc, AfterWork
    <3>. QED BY <2>1, <3>1, <3>2, <3>3
  <2>. QED BY <1>0, <2>2, <2>3, <2>4, FrameKeepsSleep
<1>3. CASE Check1(c) \/ Ready1(c) \/ Check2(c) \/ Ready2(c) \/ StopCbAnd(c) \/ StopCbSub(c)
  <2>1. /\ UNCHANGED <<m_task_queue, eventfd, stop, sub, idx, home, m_num_wait_task, num>>
        /\ \/ pc[c] = "check1" /\ pc'[c] = IF stop[c] /\ EmptyWaitWork(c) THEN "ready1" ELSE "check2"
           \/ pc[c] = "ready1" /\ pc'[c] \in {"work", "deinit"}
           \/ pc[c] = "check2" /\ pc'[c] = IF ~ stop[c] /\ EmptyWaitWork(c) THEN "ready2" ELSE "poll"
           \/ pc[c] \in {"ready2", "cb_and", "cb_sub"} /\ pc'[c] \in {"cb_and", "cb_sub", "notify", "poll"}
        /\ \A u \in Thread : u # c => pc'[u] = pc[u]
    BY <1>3, <1>0 DEF Check1, Ready1, Check2, Ready2, StopCbAnd, StopCbSub, Goto,
       PlaceInv, TypeInv, TypeOK, TypePc, TypeLoc
  <2>2. SleepFrame(c)
    BY <2>1 DEF SleepFrame
  <2>3. Seen(c) => Seen(c)'
    BY <2>1 DEF Seen, RunPc, SubPc, AfterWork
  <2>4. MayStay(c) /\ stop[c] => MayStay(c)'
    BY <2>1 DEF MayStay, BeforeStop, EmptyWaitWork, RunPc, SubPc
  <2>. QED BY <1>0, <2>2, <2>3, <2>4, FrameKeepsSleep
<1>. QED BY <1>1, <1>2, <1>3

\* exec_one_task: one task less to see and to count.
LEMMA ExecSleep ==
  ASSUME NEW c \in Ctx, PlaceInv, ExecOneTask(c)
  PROVE  KeepsWoken /\ KeepsStop /\ KeepsSeen /\ KeepsStay
<1> USE DEF schedVars, ctxVars, evVars, locVars, taskVars
<1>1. /\ pc[c] = "exec" /\ pc'[c] = "task"
      /\ num[c] \in Nat /\ num'[c] = num[c] - 1
      /\ m_task_queue[c] \in Seq(Task) /\ m_task_queue[c] # <<>> /\ m_task_queue'[c] = Tail(m_task_queue[c])
      /\ UNCHANGED <<eventfd, stop, sub, idx, home>>
      /\ \A u \in Thread : u # c => pc'[u] = pc[u]
      /\ \A d \in Ctx : d # c => /\ num'[d] = num[d] /\ m_num_wait_task'[d] = m_num_wait_task[d]
                                 /\ m_task_queue'[d] = m_task_queue[d]
  BY ThreadFacts DEF ExecOneTask, Goto, PlaceInv, TypeInv, TypeOK, TypePc, TypeLoc, TypeCtx
<1>2. Len(m_task_queue'[c]) = Len(m_task_queue[c]) - 1 /\ Len(m_task_queue[c]) \in Nat
  BY <1>1, HeadTailProperties, LenProperties
<1>3. Seen(c) => Seen(c)'
  BY <1>1, <1>2 DEF Seen, RunPc, SubPc, AfterWork
<1>4. \A d \in Ctx : d # c => (Seen(d) => Seen(d)') /\ (MayStay(d) => MayStay(d)')
  BY <1>1, ThreadFacts DEF Seen, MayStay
<1>5. MayStay(c)'
  BY <1>1 DEF MayStay, BeforeStop, RunPc
<1>6. KeepsWoken /\ KeepsStop
  BY <1>1, ThreadFacts DEF KeepsWoken, KeepsStop, Woken, StopWoken
<1>. QED BY <1>1, <1>3, <1>4, <1>5, <1>6 DEF KeepsSeen, KeepsStay

\* stop_impl: the flag is set before the write, and the write follows.
LEMMA NotifySleep ==
  ASSUME NEW c \in Ctx, PlaceInv, NotifyStop(c) \/ NotifyWake(c)
  PROVE  KeepsWoken /\ KeepsStop /\ KeepsSeen /\ KeepsStay
<1> USE DEF schedVars, ctxVars, evVars, locVars, taskVars
<1>00. c \in Thread /\ idx[c] \in Ctx
  BY ThreadFacts DEF PlaceInv, TypeInv, TypeOK, TypeLoc
<1>0. PICK d \in Ctx : d = idx[c]
  BY <1>00
<1> USE <1>00
<1>1. CASE UNCHANGED <<m_task_queue, eventfd, stop, sub, idx, home, m_num_wait_task, num, pc>>
  BY <1>1 DEF KeepsWoken, KeepsStop, KeepsSeen, KeepsStay, Woken, StopWoken, Seen, MayStay
<1>2. CASE /\ pc[c] = "notify" /\ pc' = [pc EXCEPT ![c] = "notify_wake"] /\ stop' = [stop EXCEPT ![d] = TRUE]
           /\ UNCHANGED <<m_task_queue, eventfd, sub, idx, home, m_num_wait_task, num>>
  <2>1. /\ pc'[c] = "notify_wake" /\ \A u \in Thread : u # c => pc'[u] = pc[u]
        /\ \A e \in Ctx : e # d => stop'[e] = stop[e]
    BY <1>0, <1>2 DEF PlaceInv, TypeInv, TypeOK, TypePc, TypeCtx
  <2>2. StopWoken(d)'
    BY <1>0, <1>2, <2>1 DEF StopWoken
  <2>3. KeepsWoken /\ KeepsStop
    BY <1>0, <1>2, <2>1, ThreadFacts DEF KeepsWoken, KeepsStop, Woken, StopWoken
  <2>4. KeepsSeen
    BY <1>0, <1>2, <2>1, ThreadFacts DEF KeepsSeen, Seen, AfterWork, RunPc, SubPc
  <2>5. \A e \in Ctx : MayStay(e) => MayStay(e)'
    BY <1>0, <1>2, <2>1, ThreadFacts DEF MayStay, BeforeStop, RunPc, SubPc
  <2>6. KeepsStay
    BY <2>1, <2>2, <2>5 DEF KeepsStay
  <2>. QED BY <2>3, <2>4, <2>6
<1>3. CASE /\ pc[c] = "notify_wake" /\ pc' = [pc EXCEPT ![c] = IF d + 1 = N THEN "poll" ELSE "notify"]
           /\ idx' = [idx EXCEPT ![c] = (d + 1) % N]
           /\ eventfd' = [eventfd EXCEPT ![d] = IF @ = "closed" THEN @ ELSE "nonzero"]
           /\ UNCHANGED <<m_task_queue, stop, sub, home, m_num_wait_task, num>>
  <2>1. /\ pc'[c] \in {"poll", "notify"}
        /\ \A u \in Thread : u # c => pc'[u] = pc[u] /\ idx'[u] = idx[u]
        /\ eventfd'[d] # "zero" /\ \A e \in Ctx : e # d => eventfd'[e] = eventfd[e]
    BY <1>0, <1>3 DEF PlaceInv, TypeInv, TypeOK, TypePc, TypeCtx, TypeLoc
  <2>2. KeepsWoken
    BY <1>0, <1>3, <2>1, ThreadFacts DEF KeepsWoken, Woken
  <2>3. KeepsStop
    <3>1. ASSUME NEW e \in Ctx, StopWoken(e), e # d PROVE StopWoken(e)'
      <4>1. CASE eventfd[e] # "zero"
        BY <3>1, <4>1, <2>1 DEF StopWoken
      <4>2. CASE eventfd[e] = "zero"
        <5>1. PICK u \in Ctx : pc[u] = "notify_wake" /\ idx[u] = e
          BY <3>1, <4>2 DEF StopWoken
        <5>2. u # c
          BY <5>1, <3>1, <1>0
        <5>. QED BY <5>1, <5>2, <2>1, ThreadFacts DEF StopWoken
      <4>. QED BY <4>1, <4>2
    <3>2. StopWoken(d)'
      BY <2>1 DEF StopWoken
    <3>. QED BY <3>1, <3>2 DEF KeepsStop
  <2>4. KeepsSeen
    BY <1>0, <1>3, <2>1, ThreadFacts DEF KeepsSeen, Seen, AfterWork, RunPc, SubPc
  <2>5. KeepsStay
    BY <1>0, <1>3, <2>1, ThreadFacts DEF KeepsStay, MayStay, BeforeStop, RunPc, SubPc
  <2>. QED BY <2>2, <2>3, <2>4, <2>5
<1>. QED BY <1>0, <1>1, <1>2, <1>3 DEF NotifyStop, NotifyWake, WriteFails, WriteEventfd, Die, Goto

\* eventfd_read and close.
LEMMA PollSleep ==
  ASSUME NEW c \in Ctx, PlaceInv, Poll(c) \/ Deinit(c)
  PROVE  KeepsWoken /\ KeepsStop /\ KeepsSeen /\ KeepsStay
<1> USE DEF schedVars, ctxVars, evVars, locVars, taskVars
<1>1. /\ \/ pc[c] = "poll" /\ pc'[c] = "work"
         \/ pc[c] = "deinit" /\ pc'[c] = "end" /\ eventfd'[c] = "closed"
      /\ UNCHANGED <<stop, sub, idx, home, m_num_wait_task, num>>
      /\ \A u \in Thread : u # c => pc'[u] = pc[u]
      /\ \A d \in Ctx : d # c => m_task_queue'[d] = m_task_queue[d] /\ eventfd'[d] = eventfd[d]
  BY ThreadFacts DEF Poll, Deinit, Goto, PlaceInv, TypeInv, TypeOK, TypePc, TypeCtx
<1>2. \A d \in Ctx : d # c => /\ Woken(d) => Woken(d)'
                              /\ StopWoken(d) => StopWoken(d)'
                              /\ Seen(d) => Seen(d)'
                              /\ MayStay(d) => MayStay(d)'
  <2>1. \A d \in Ctx : d # c /\ Woken(d) => Woken(d)'
    BY <1>1, ThreadFacts DEF Woken
  <2>2. \A d \in Ctx : d # c /\ StopWoken(d) => StopWoken(d)'
    BY <1>1, ThreadFacts DEF StopWoken
  <2>3. \A d \in Ctx : d # c => (Seen(d) => Seen(d)') /\ (MayStay(d) => MayStay(d)')
    BY <1>1, ThreadFacts DEF Seen, MayStay
  <2>. QED BY <2>1, <2>2, <2>3
<1>3. Seen(c)' /\ MayStay(c)'
  BY <1>1 DEF Seen, MayStay, BeforeStop, RunPc, SubPc, AfterWork
<1>4. pc'[c] = "work" \/ (Woken(c)' /\ StopWoken(c)')
  BY <1>1 DEF Woken, StopWoken
<1>. QED BY <1>1, <1>2, <1>3, <1>4 DEF KeepsWoken, KeepsStop, KeepsSeen, KeepsStay

\* loop_impl starts and joins; nobody sleeps before.
LEMMA LoopSleep ==
  ASSUME PlaceInv, OtherMain
  PROVE  KeepsWoken /\ KeepsStop /\ KeepsSeen /\ KeepsStay
<1> USE DEF schedVars, ctxVars, evVars, locVars, taskVars
<1>1. idx[Main] \in Ctx
  BY ThreadFacts DEF PlaceInv, TypeInv, TypeOK, TypeLoc
<1>2. StartThread => pc[idx[Main]] = "off"
  BY <1>1, CtxOrder DEF StartThread, PlaceInv, StartInv
<1>3. /\ UNCHANGED <<m_task_queue, eventfd, stop, sub, home, m_num_wait_task, num>>
      /\ pc[Main] \in {"submit", "start", "assign", "join"}
      /\ \A c \in Ctx : /\ idx'[c] = idx[c]
                        /\ pc'[c] = pc[c] \/ (pc[c] = "off" /\ pc'[c] = "init")
  BY <1>1, <1>2, ThreadFacts DEF OtherMain, CallLoop, StartThread, AssignJob, Join, Goto,
     PlaceInv, TypeInv, TypeOK, TypePc, TypeLoc
<1>4. KeepsWoken
  BY <1>3, ThreadFacts DEF KeepsWoken, Woken
<1>5. KeepsStop
  BY <1>3 DEF KeepsStop, StopWoken
<1>6. KeepsSeen /\ KeepsStay
  BY <1>3 DEF KeepsSeen, KeepsStay, Seen, MayStay, AfterWork, BeforeStop, RunPc, SubPc
<1>. QED BY <1>4, <1>5, <1>6

\* At the start no context runs.
LEMMA InitSleep == Init => SleepInv
<1> SUFFICES ASSUME Init PROVE WakeInv /\ StopWakeInv
  BY InitPlaces DEF SleepInv
<1>. QED BY ThreadFacts DEF Init, WakeInv, StopWakeInv, Seen, MayStay, AfterWork, RunPc, SubPc

\* No step of any thread loses a wake-up.
LEMMA NextSleep == SleepInv /\ [Next]_vars => SleepInv'
<1> SUFFICES ASSUME SleepInv, [Next]_vars PROVE KeepsWoken /\ KeepsStop /\ KeepsSeen /\ KeepsStay
  BY NextPlaces, SleepStep DEF SleepInv
<1>1. ASSUME NEW c \in Ctx, ContextStep(c)
      PROVE  KeepsWoken /\ KeepsStop /\ KeepsSeen /\ KeepsStay
  BY <1>1, SubmitSleep, RunSleep, ExecSleep, NotifySleep, PollSleep, ThreadFacts
     DEF SleepInv, ContextStep
<1>2. CASE MainStep
  BY <1>2, SubmitSleep, LoopSleep, ThreadFacts DEF SleepInv, MainStep, OtherMain
<1>3. CASE UNCHANGED vars
  BY <1>3 DEF KeepsWoken, KeepsStop, KeepsSeen, KeepsStay, Woken, StopWoken, Seen, MayStay,
     vars, ctxVars, locVars, taskVars
<1>. QED BY <1>1, <1>2, <1>3 DEF Next, Terminated

\* A context never sleeps on a task or on a stop request that nobody is about
\* to tell it of, whatever the order of push, write, read, size() and the two
\* checks of context::run.
THEOREM NoWakeupIsLost == Spec => []NoLostWakeup
<1>1. SleepInv => NoLostWakeup
  <2> SUFFICES ASSUME SleepInv, NEW c \in Ctx, pc[c] = "poll", eventfd[c] = "zero"
               PROVE  /\ m_task_queue[c] # <<>> => \E th \in Thread : pc[th] = "wake" /\ home[sub[th]] = c
                      /\ (stop[c] /\ EmptyWaitWork(c)) => \E d \in Ctx : pc[d] = "notify_wake" /\ idx[d] = c
    BY DEF NoLostWakeup
  <2>1. m_task_queue[c] # <<>> => Woken(c)
    BY DEF SleepInv, WakeInv, Seen, AfterWork
  <2>2. stop[c] /\ EmptyWaitWork(c) => StopWoken(c)
    BY DEF SleepInv, StopWakeInv, MayStay, BeforeStop, RunPc, SubPc, EmptyWaitWork
  <2>. QED BY <2>1, <2>2 DEF Woken, StopWoken
<1>. QED BY InitSleep, NextSleep, <1>1, PTL DEF Spec

-----------------------------------------------------------------------------
(***************************************************************************)
(* No early stop.                                                          *)
(***************************************************************************)

\* loop() has been called; the tasks of context c are over.
Begun    == pc[Main] \notin {"submit"} \cup SubPc
Quiet(c) == \A t \in Task : home[t] = c => Finished(t)

\* Before loop() every context counts as busy.
StartBusy == ~ Begun => \A c \in Ctx : m_ctx_stop_flag[c] = 1 /\ ~ stop[c]
\* A context only leaves run() when it was asked to.
AskedInv  == \A c \in Ctx : pc[c] \in {"ready1", "deinit"} => stop[c]
\* Without submissions at run time: an idle flag, or a context about to lower
\* its own, tells the truth; stop_impl runs when all is over; nothing is lost.
FlagInv   == StaticOnly => \A c \in Ctx : m_ctx_stop_flag[c] = 0 \/ pc[c] = "cb_and" => Quiet(c)
StopInv   == StaticOnly /\ (\E c \in Ctx : stop[c] \/ pc[c] \in {"notify", "notify_wake"}) => \A c \in Ctx : Quiet(c)
LostInv   == StaticOnly => \A t \in Task : status[t] # "lost"

\* The inductive invariant.
EndInv == TokenInv /\ WaitInv /\ StartBusy /\ AskedInv /\ FlagInv /\ StopInv /\ LostInv

\* A task that was submitted stays submitted.
LEMMA NeverUnborn ==
  ASSUME PlaceInv, [Next]_vars, NEW t \in Task, status'[t] = "unborn"
  PROVE  status[t] = "unborn"
<1> USE DEF taskVars, PlaceInv, TypeInv, TypeOK, TypeTask
<1>1. ASSUME NEW th \in Thread, Submit(th) PROVE status[t] = "unborn"
  BY <1>1 DEF Submit, BeginSubmit, AssertFails, Dispatch, FetchOr, FetchAdd, Push, Wake, WriteFails, Die
<1>2. ASSUME NEW c \in Ctx, RunTask(c) PROVE status[t] = "unborn"
  BY <1>2 DEF RunTask, Await, AwaitReady, SetEvent, ResumeNext, Finish
<1>3. ASSUME NEW c \in Ctx, ContextStep(c), ~ Submit(c), ~ RunTask(c) PROVE status[t] = "unborn"
  BY <1>3 DEF ContextStep, InitContext, ProcessWork, ExecOneTask, WorkDone, Check1, Ready1, Check2, Ready2,
     StopCbAnd, StopCbSub, NotifyStop, NotifyWake, Poll, Deinit, WriteFails, Die
<1>4. ASSUME OtherMain PROVE status[t] = "unborn"
  BY <1>4 DEF OtherMain, CallLoop, StartThread, AssignJob, Join
<1>5. ASSUME UNCHANGED vars PROVE status[t] = "unborn"
  BY <1>5 DEF vars
<1>. QED BY <1>1, <1>2, <1>3, <1>4, <1>5, ThreadFacts DEF Next, Terminated, MainStep, OtherMain

\* So if no dynamic task is submitted after a step, none was before it.
LEMMA StaticBack ==
  ASSUME PlaceInv, [Next]_vars, StaticOnly'
  PROVE  StaticOnly
BY NeverUnborn DEF StaticOnly, Task

\* After loop() was called, and without submissions at run time, the only part
\* of a submission that is left is the push and the wake-up of an awaiter.
LEMMA OnlyAwaiters ==
  ASSUME NEW th \in Thread, PlaceInv, StaticOnly, StaticOnly', Begun, Submit(th)
  PROVE  th \in Ctx /\ (Push(th) \/ Wake(th))
<1>1. th # Main
  BY DEF Begun, SubPc, Submit, BeginSubmit, AssertFails, Dispatch, FetchOr, FetchAdd, Push, Wake,
     WriteFails, Die, Goto
<1>2. th \in Ctx
  BY <1>1, ThreadFacts
<1>3. ASSUME NEW t \in Task, BeginSubmit(th, t) PROVE FALSE
  <2>1. t \in Dynamic /\ status'[t] = "submitting"
    BY <1>1, <1>3 DEF BeginSubmit, PlaceInv, TypeInv, TypeOK, TypeTask
  <2>. QED BY <2>1 DEF StaticOnly
<1>4. ASSUME pc[th] \in {"assert", "or", "add"} PROVE FALSE
  <2>1. status[sub[th]] = "submitting" /\ pc[th] \in HoldPc
    BY <1>4 DEF PlaceInv, SubInv, HoldPc
  <2>2. sub[th] \in Dynamic
    BY <2>1, <1>2 DEF PlaceInv, SubmitInv
  <2>. QED BY <2>1, <2>2 DEF StaticOnly
<1>5. AssertFails(th) \/ Dispatch(th) \/ FetchOr(th) \/ FetchAdd(th) => pc[th] \in {"assert", "or", "add"}
  BY DEF AssertFails, Dispatch, FetchOr, FetchAdd, Die, Goto
<1>. QED BY <1>2, <1>3, <1>4, <1>5 DEF Submit

\* Then a task that is over stays over, at its home.
QuietKept == \A t \in Task : home'[t] = home[t] /\ (Finished(t) => Finished(t)')

\* Every step that is then possible is of this kind.
LEMMA QuietStep ==
  ASSUME PlaceInv, [Next]_vars, StaticOnly, StaticOnly', Begun
  PROVE  QuietKept
<1> USE DEF QuietKept, Finished, taskVars
<1>1. ASSUME NEW th \in Thread, Submit(th) PROVE QuietKept
  <2>1. Push(th) \/ Wake(th)
    BY <1>1, OnlyAwaiters
  <2>2. CASE Wake(th)
    BY <2>2 DEF Wake, WriteFails, Die
  <2>3. CASE Push(th)
    <3>1. /\ pc[th] = "push" /\ home' = home
          /\ status' = [status EXCEPT ![sub[th]] = IF @ = "waking" THEN "resumed" ELSE "queued"]
      BY <2>3 DEF Push, Goto
    <3>2. status[sub[th]] \in {"submitting", "waking"}
      BY <3>1 DEF PlaceInv, SubInv, HoldPc
    <3>. QED BY <3>1, <3>2 DEF PlaceInv, TypeInv, TypeOK, TypeTask
  <2>. QED BY <2>1, <2>2, <2>3
<1>2. ASSUME NEW c \in Ctx, RunTask(c) PROVE QuietKept
  <2>1. pc[c] = "task" => status[cur[c]] = "running"
    BY DEF PlaceInv, RunInv, RunPc
  <2>. QED BY <1>2, <2>1 DEF RunTask, Await, AwaitReady, SetEvent, ResumeNext, Finish, Goto,
              PlaceInv, TypeInv, TypeOK, TypeTask
<1>3. ASSUME NEW c \in Ctx, ExecOneTask(c) PROVE QuietKept
  <2> DEFINE t == Head(m_task_queue[c])
  <2>1. m_task_queue[c] # <<>> /\ home' = home /\ status' = [status EXCEPT ![t] = "running"]
    BY <1>3 DEF ExecOneTask
  <2>2. t \in Task /\ t \in ToSet(m_task_queue[c])
    BY <2>1, TailSet DEF PlaceInv, TypeInv, TypeOK, TypeCtx, QueueInv
  <2>3. status[t] \in {"queued", "resumed"}
    BY <2>2 DEF PlaceInv, QueueInv
  <2> HIDE DEF t
  <2>. QED BY <2>1, <2>3 DEF PlaceInv, TypeInv, TypeOK, TypeTask
<1>4. ASSUME NEW c \in Ctx, ContextStep(c), ~ Submit(c), ~ RunTask(c), ~ ExecOneTask(c) PROVE QuietKept
  BY <1>4 DEF ContextStep, InitContext, ProcessWork, WorkDone, Check1, Ready1, Check2, Ready2,
     StopCbAnd, StopCbSub, NotifyStop, NotifyWake, Poll, Deinit, WriteFails, Die
<1>5. ASSUME OtherMain PROVE QuietKept
  BY <1>5 DEF OtherMain, CallLoop, StartThread, AssignJob, Join
<1>6. ASSUME UNCHANGED vars PROVE QuietKept
  BY <1>6 DEF vars
<1>. QED BY <1>1, <1>2, <1>3, <1>4, <1>5, <1>6, ThreadFacts DEF Next, Terminated, MainStep, OtherMain

\* A context with an empty queue, no registered wait and no task of its own in
\* the middle has no task at all.
LEMMA IdleIsQuiet ==
  ASSUME WaitInv, LostInv, StaticOnly, Begun, NEW c \in Ctx, pc[c] = "ready2", m_task_queue[c] = <<>>
  PROVE  Quiet(c)
<1> SUFFICES ASSUME NEW t \in Task, home[t] = c, ~ Finished(t) PROVE FALSE
  BY DEF Quiet
<1>1. status[t] \in {"submitting", "queued", "running", "suspended", "waking", "resumed", "lost"}
  BY DEF WaitInv, PlaceInv, TypeInv, TypeOK, TypeTask, Status, Finished
<1>2. status[t] # "lost"
  BY DEF LostInv
<1>3. status[t] \notin {"queued", "resumed"}
  BY NoElements DEF WaitInv, PlaceInv, QueueInv
<1>4. status[t] # "running"
  BY DEF WaitInv, PlaceInv, RunInv, RunPc, SubPc
<1>5. status[t] \notin {"suspended", "waking", "resumed"}
  <2>1. m_num_wait_task[c] = 0
    BY DEF WaitInv, IdleWait, IdlePc
  <2>2. Registered(c) = {}
    BY <2>1, FiniteRegistered, FS_EmptySet DEF WaitInv, WaitCount
  <2>. QED BY <2>2 DEF Registered
<1>6. status[t] # "submitting"
  <2> SUFFICES ASSUME status[t] = "submitting" PROVE FALSE
    OBVIOUS
  <2>1. PICK th \in Thread : pc[th] \in HoldPc /\ sub[th] = t
    BY DEF WaitInv, PlaceInv, SubmitInv
  <2>2. th # Main
    BY <2>1 DEF Begun, HoldPc, SubPc
  <2>3. t \in Dynamic
    BY <2>1, <2>2, ThreadFacts DEF WaitInv, PlaceInv, SubmitInv
  <2>. QED BY <2>3 DEF StaticOnly
<1>. QED BY <1>1, <1>2, <1>3, <1>4, <1>5, <1>6

\* Who lowers a flag, and how a context gets to the places that matter here.
FlagMoves == \A c \in Ctx :
  /\ m_ctx_stop_flag'[c] = 0 => m_ctx_stop_flag[c] = 0 \/ pc[c] = "cb_and"
  /\ pc'[c] = "cb_and" => pc[c] = "cb_and" \/ (pc[c] = "ready2" /\ m_task_queue[c] = <<>>)
  /\ stop'[c] => stop[c] \/ \E d \in Ctx : pc[d] = "notify"
  /\ stop[c] => stop'[c]
  /\ pc'[c] \in {"notify", "notify_wake"} =>
       \/ pc[c] \in {"notify", "notify_wake"}
       \/ pc[c] = "cb_sub" /\ m_stop_token' = 0
  /\ pc'[c] \in {"ready1", "deinit"} => pc[c] \in {"ready1", "deinit"} \/ stop[c]

\* These are the only ways.
LEMMA FlagStep ==
  ASSUME TokenInv, [Next]_vars
  PROVE  FlagMoves
<1> USE DEF FlagMoves, schedVars, ctxVars, TokenInv, TypeInv, TypeOK, TypePc, TypeSched, TypeCtx
<1>1. ASSUME NEW th \in Thread, Submit(th) PROVE FlagMoves
  <2>1. /\ \A c \in Ctx : m_ctx_stop_flag'[c] = 0 => m_ctx_stop_flag[c] = 0
        /\ stop' = stop
    BY <1>1 DEF Submit, BeginSubmit, AssertFails, Dispatch, FetchOr, FetchAdd, Push, Wake, WriteFails, Die
  <2>2. \A c \in Ctx : pc'[c] \in {"cb_and", "notify", "notify_wake", "ready1", "deinit"} => pc'[c] = pc[c]
    BY <1>1, ThreadFacts DEF Submit, BeginSubmit, AssertFails, Dispatch, FetchOr, FetchAdd, Push, Wake,
       WriteFails, Die, Goto
  <2>. QED BY <2>1, <2>2
<1>2. ASSUME NEW c \in Ctx, RunTask(c) \/ InitContext(c) \/ ProcessWork(c) \/ ExecOneTask(c) \/ WorkDone(c)
                            \/ Poll(c) \/ Deinit(c)
      PROVE  FlagMoves
  <2>1. stop' = stop /\ m_ctx_stop_flag' = m_ctx_stop_flag
    BY <1>2 DEF RunTask, Await, AwaitReady, SetEvent, ResumeNext, Finish, InitContext, ProcessWork, ExecOneTask,
       WorkDone, Poll, Deinit
  <2>2. \A d \in Ctx : pc'[d] \in {"cb_and", "notify", "notify_wake", "ready1", "deinit"} => pc'[d] = pc[d]
    BY <1>2, ThreadFacts DEF RunTask, Await, AwaitReady, SetEvent, ResumeNext, Finish, InitContext, ProcessWork,
       ExecOneTask, WorkDone, Poll, Deinit, Goto
  <2>. QED BY <2>1, <2>2
<1>3. ASSUME NEW c \in Ctx, Check1(c) \/ Ready1(c) \/ Check2(c) \/ Ready2(c)
      PROVE  FlagMoves
  <2>1. stop' = stop /\ m_ctx_stop_flag' = m_ctx_stop_flag /\ \A d \in Ctx : d # c => pc'[d] = pc[d]
    BY <1>3, ThreadFacts DEF Check1, Ready1, Check2, Ready2, Goto
  <2>2. \/ pc[c] = "check1" /\ pc'[c] = IF stop[c] /\ EmptyWaitWork(c) THEN "ready1" ELSE "check2"
        \/ pc[c] = "ready1" /\ pc'[c] \in {"work", "deinit"}
        \/ pc[c] = "check2" /\ pc'[c] \in {"ready2", "poll"}
        \/ pc[c] = "ready2" /\ pc'[c] = IF m_task_queue[c] = <<>> THEN "cb_and" ELSE "poll"
    BY <1>3, ThreadFacts DEF Check1, Ready1, Check2, Ready2, Goto
  <2>. QED BY <2>1, <2>2
<1>4. ASSUME NEW c \in Ctx, StopCbAnd(c) \/ StopCbSub(c)
      PROVE  FlagMoves
  <2>1. /\ stop' = stop
        /\ \A d \in Ctx : d # c => pc'[d] = pc[d] /\ m_ctx_stop_flag'[d] = m_ctx_stop_flag[d]
    BY <1>4, ThreadFacts DEF StopCbAnd, StopCbSub, Goto
  <2>2. \/ pc[c] = "cb_and" /\ pc'[c] = "cb_sub"
        \/ /\ pc[c] = "cb_sub" /\ m_ctx_stop_flag' = m_ctx_stop_flag /\ m_stop_token' = m_stop_token - old[c]
           /\ pc'[c] = IF m_stop_token = old[c] THEN "notify" ELSE "poll"
    BY <1>4, ThreadFacts DEF StopCbAnd, StopCbSub, Goto
  <2>3. pc'[c] = "notify" => pc[c] = "cb_sub" /\ m_stop_token' = 0
    <3>1. m_stop_token \in Int
      OBVIOUS
    <3>. QED BY <2>2, <3>1
  <2>. QED BY <2>1, <2>2, <2>3
<1>5. ASSUME NEW c \in Ctx, NotifyStop(c) \/ NotifyWake(c)
      PROVE  FlagMoves
  <2>1. /\ m_ctx_stop_flag' = m_ctx_stop_flag
        /\ pc[c] \in {"notify", "notify_wake"} /\ pc'[c] \in {"notify", "notify_wake", "poll"}
        /\ \A d \in Ctx : d # c => pc'[d] = pc[d]
    BY <1>5, ThreadFacts DEF NotifyStop, NotifyWake, WriteFails, Die, Goto
  <2>2. \A d \in Ctx : /\ stop'[d] => stop[d] \/ pc[c] = "notify"
                       /\ stop[d] => stop'[d]
    BY <1>5 DEF NotifyStop, NotifyWake, WriteFails, Die, Goto
  <2>. QED BY <2>1, <2>2
<1>6. ASSUME OtherMain PROVE FlagMoves
  <2>1. idx[Main] \in Ctx
    BY ThreadFacts DEF TypeLoc
  <2>2. /\ stop' = stop /\ m_ctx_stop_flag' = m_ctx_stop_flag
        /\ \A c \in Ctx : pc'[c] = pc[c] \/ pc'[c] = "init"
    BY <1>6, <2>1, ThreadFacts DEF OtherMain, CallLoop, StartThread, AssignJob, Join, Goto
  <2>. QED BY <2>2
<1>7. ASSUME UNCHANGED vars PROVE FlagMoves
  BY <1>7 DEF vars
<1>. QED BY <1>1, <1>2, <1>3, <1>4, <1>5, <1>6, <1>7, ThreadFacts
         DEF Next, Terminated, MainStep, OtherMain, ContextStep

\* Before loop() nobody lowers a flag, and loop() is called once.
LEMMA StartStep ==
  ASSUME TokenInv, [Next]_vars, ~ Begun'
  PROVE  /\ ~ Begun /\ stop' = stop
         /\ \A c \in Ctx : m_ctx_stop_flag[c] = 1 => m_ctx_stop_flag'[c] = 1
<1> USE DEF Begun, schedVars, ctxVars, TokenInv, TypeInv, TypeOK, TypePc, TypeSched, TypeCtx, SubPc
<1>1. ASSUME Submit(Main)
      PROVE  /\ ~ Begun /\ stop' = stop
             /\ \A c \in Ctx : m_ctx_stop_flag[c] = 1 => m_ctx_stop_flag'[c] = 1
  BY <1>1, ThreadFacts DEF Submit, BeginSubmit, AssertFails, Dispatch, FetchOr, FetchAdd, Push, Wake,
     WriteFails, Die, Goto
<1>2. ASSUME OtherMain PROVE FALSE
  BY <1>2, ThreadFacts DEF OtherMain, CallLoop, StartThread, AssignJob, Join, Goto
<1>3. ASSUME NEW c \in Ctx, ContextStep(c) PROVE FALSE
  <2>1. pc[c] # "off" /\ pc'[Main] = pc[Main]
    BY <1>3, ContextMoves, ThreadFacts
  <2>. QED BY <2>1 DEF StartInv
<1>4. ASSUME UNCHANGED vars
      PROVE  /\ ~ Begun /\ stop' = stop
             /\ \A c \in Ctx : m_ctx_stop_flag[c] = 1 => m_ctx_stop_flag'[c] = 1
  BY <1>4 DEF vars
<1>. QED BY <1>1, <1>2, <1>3, <1>4, ThreadFacts DEF Next, Terminated, MainStep, OtherMain

\* A token of zero says that every flag is down, when nobody is submitting.
LEMMA ZeroToken ==
  ASSUME TokenInv, PlaceInv, StaticOnly, Begun, m_stop_token = 0
  PROVE  \A c \in Ctx : m_ctx_stop_flag[c] = 0
<1>1. AddPending = {}
  <2> SUFFICES ASSUME NEW th \in Thread, pc[th] = "add" PROVE FALSE
    BY DEF AddPending
  <2>1. th \in Ctx
    BY ThreadFacts DEF Begun, SubPc
  <2>2. status[sub[th]] = "submitting"
    BY DEF PlaceInv, SubInv, HoldPc
  <2>3. sub[th] \in Dynamic
    BY <2>1, <2>2 DEF PlaceInv, SubmitInv, HoldPc
  <2>. QED BY <2>2, <2>3 DEF StaticOnly
<1>2. Cardinality(Flagged) \in Nat /\ Cardinality(SubPending) \in Nat /\ Cardinality(AddPending) = 0
  BY <1>1, FiniteSets3, FS_CardinalityType, FS_EmptySet
<1>3. Cardinality(Flagged) = 0
  BY <1>2 DEF TokenInv, TokenAccounting
<1>4. Flagged = {}
  BY <1>3, FiniteSets3, FS_EmptySet
<1>. QED BY <1>4 DEF Flagged, TokenInv, TypeInv, TypeOK, TypeSched

\* The same, one step later.
ZeroMeansDown == m_stop_token = 0 /\ StaticOnly /\ Begun => \A c \in Ctx : m_ctx_stop_flag[c] = 0
\* ZeroToken in the state after a step.
LEMMA ZeroTokenNext == TokenInv' /\ PlaceInv' => ZeroMeansDown'
<1>1. TokenInv /\ PlaceInv => ZeroMeansDown
  BY ZeroToken DEF ZeroMeansDown
<1>. QED BY <1>1, PTL

\* At the start every flag is up and nobody is asked to stop.
LEMMA InitEnd == Init => EndInv
<1> SUFFICES ASSUME Init PROVE StartBusy /\ AskedInv /\ FlagInv /\ StopInv /\ LostInv
  BY InitToken, InitWait DEF EndInv
<1>. QED BY ThreadFacts DEF Init, StartBusy, AskedInv, FlagInv, StopInv, LostInv

\* No step of any thread breaks the invariant.
LEMMA NextEnd == EndInv /\ [Next]_vars => EndInv'
<1> SUFFICES ASSUME EndInv, [Next]_vars PROVE StartBusy' /\ AskedInv' /\ FlagInv' /\ StopInv' /\ LostInv'
  BY NextToken, NextWait DEF EndInv
<1>0. TokenInv /\ WaitInv /\ PlaceInv /\ TokenInv' /\ WaitInv' /\ PlaceInv' /\ FlagMoves
  BY NextToken, NextWait, FlagStep DEF EndInv, WaitInv
<1>1. StartBusy'
  BY <1>0, StartStep DEF EndInv, StartBusy, TokenInv, TypeInv, TypeOK, TypeCtx
<1>2. AskedInv'
  BY <1>0 DEF EndInv, AskedInv, FlagMoves
<1>3. CASE ~ StaticOnly'
  BY <1>1, <1>2, <1>3 DEF FlagInv, StopInv, LostInv
<1>4. CASE StaticOnly' /\ ~ Begun'
  <2>1. \A c \in Ctx : m_ctx_stop_flag'[c] = 1 /\ ~ stop'[c] /\ pc'[c] = "off"
    BY <1>0, <1>1, <1>4 DEF StartBusy, Begun, PlaceInv, StartInv
  <2>2. StaticOnly /\ ~ Begun
    BY <1>0, <1>4, StaticBack, StartStep
  <2>3. \A c \in Ctx : pc[c] = "off"
    BY <1>0, <2>2 DEF Begun, PlaceInv, StartInv
  <2>4. LostInv'
    <3>1. \A t \in Task : status[t] # "lost"
      BY <2>2 DEF EndInv, LostInv
    <3>2. \A c \in Ctx : ~ ContextStep(c)
      BY <1>0, <2>3, ContextMoves DEF PlaceInv
    <3>3. Submit(Main) \/ OtherMain \/ UNCHANGED vars
      BY <3>2 DEF Next, MainStep, OtherMain, Terminated
    <3>4. \A t \in Task : status'[t] # "lost"
      BY <1>0, <3>1, <3>3 DEF Submit, BeginSubmit, AssertFails, Dispatch, FetchOr, FetchAdd, Push, Wake, WriteFails, Die,
         OtherMain, CallLoop, StartThread, AssignJob, Join, taskVars, vars, PlaceInv, TypeInv, TypeOK, TypeTask
    <3>. QED BY <3>4 DEF LostInv
  <2>. QED BY <1>1, <1>2, <2>1, <2>4 DEF FlagInv, StopInv
<1>5. CASE StaticOnly' /\ Begun' /\ ~ Begun
  <2>1. \A c \in Ctx : m_ctx_stop_flag[c] = 1 /\ ~ stop[c] /\ pc[c] = "off"
    BY <1>0, <1>5 DEF EndInv, StartBusy, Begun, PlaceInv, StartInv
  <2>2. \A c \in Ctx : ~ ContextStep(c)
    BY <1>0, <2>1, ContextMoves DEF PlaceInv
  <2>3. CallLoop
    BY <1>0, <1>5, <2>2, ThreadFacts DEF Next, MainStep, Terminated, vars, Begun, SubPc,
       Submit, BeginSubmit, AssertFails, Dispatch, FetchOr, FetchAdd, Push, Wake, WriteFails, Die, Goto,
       StartThread, AssignJob, Join, PlaceInv, TypeInv, TypeOK, TypePc
  <2>4. /\ \A c \in Ctx : m_ctx_stop_flag'[c] = 1 /\ ~ stop'[c] /\ pc'[c] = "off"
        /\ status' = status
    BY <1>0, <2>1, <2>3, ThreadFacts DEF CallLoop, Goto, schedVars, ctxVars, taskVars, PlaceInv, TypeInv, TypeOK, TypePc
  <2>5. StaticOnly
    BY <1>0, <1>5, StaticBack
  <2>. QED BY <1>1, <1>2, <2>4, <2>5 DEF EndInv, FlagInv, StopInv, LostInv
<1>6. CASE StaticOnly' /\ Begun' /\ Begun
  <2>1. StaticOnly
    BY <1>0, <1>6, StaticBack
  <2>2. QuietKept
    BY <1>0, <1>6, <2>1, QuietStep
  <2>3. \A c \in Ctx : Quiet(c) => Quiet(c)'
    BY <2>2 DEF QuietKept, Quiet
  <2>4. ASSUME NEW c \in Ctx, m_ctx_stop_flag'[c] = 0 \/ pc'[c] = "cb_and"
        PROVE  Quiet(c)
    <3>1. CASE m_ctx_stop_flag[c] = 0 \/ pc[c] = "cb_and"
      BY <3>1, <2>1 DEF EndInv, FlagInv
    <3>2. CASE pc[c] = "ready2" /\ m_task_queue[c] = <<>>
      BY <3>2, <2>1, <1>0, <1>6, IdleIsQuiet DEF EndInv
    <3>. QED BY <2>4, <3>1, <3>2, <1>0 DEF FlagMoves
  <2>5. FlagInv'
    BY <2>3, <2>4 DEF FlagInv
  <2>6. StopInv'
    <3> SUFFICES ASSUME NEW c \in Ctx, stop'[c] \/ pc'[c] \in {"notify", "notify_wake"}
                 PROVE  \A d \in Ctx : Quiet(d)'
      BY DEF StopInv
    <3>1. CASE \E d \in Ctx : stop[d] \/ pc[d] \in {"notify", "notify_wake"}
      BY <3>1, <2>1, <2>3 DEF EndInv, StopInv
    <3>2. CASE m_stop_token' = 0
      <4>1. \A d \in Ctx : m_ctx_stop_flag'[d] = 0
        BY <1>0, <1>6, <3>2, ZeroTokenNext DEF ZeroMeansDown
      <4>. QED BY <4>1, <2>3, <2>4
    <3>. QED BY <3>1, <3>2, <1>0 DEF FlagMoves
  <2>7. LostInv'
    <3>1. \A t \in Task : status[t] # "lost"
      BY <2>1 DEF EndInv, LostInv
    <3>2. ASSUME NEW c \in Ctx, Deinit(c) PROVE \A t \in Task : status'[t] # "lost"
      <4>1. stop[c]
        BY <3>2 DEF Deinit, Goto, EndInv, AskedInv
      <4>2. \A t \in Task : Finished(t)
        BY <4>1, <2>1, <1>0 DEF EndInv, StopInv, Quiet, PlaceInv, TypeInv, TypeOK, TypeTask
      <4>. QED BY <3>1, <3>2, <4>2 DEF Deinit, Finished
    <3>3. ASSUME NEW th \in Thread, Submit(th) PROVE \A t \in Task : status'[t] # "lost"
      BY <1>0, <3>1, <3>3 DEF Submit, BeginSubmit, AssertFails, Dispatch, FetchOr, FetchAdd, Push, Wake, WriteFails, Die,
         taskVars, PlaceInv, TypeInv, TypeOK, TypeTask
    <3>4. ASSUME NEW c \in Ctx, RunTask(c) PROVE \A t \in Task : status'[t] # "lost"
      BY <1>0, <3>1, <3>4 DEF RunTask, Await, AwaitReady, SetEvent, ResumeNext, Finish,
         taskVars, PlaceInv, TypeInv, TypeOK, TypeTask
    <3>5. ASSUME NEW c \in Ctx, ContextStep(c), ~ Submit(c), ~ RunTask(c), ~ Deinit(c)
          PROVE  \A t \in Task : status'[t] # "lost"
      BY <1>0, <3>1, <3>5 DEF ContextStep, InitContext, ProcessWork, ExecOneTask, WorkDone, Check1, Ready1, Check2, Ready2,
         StopCbAnd, StopCbSub, NotifyStop, NotifyWake, Poll, WriteFails, Die,
         taskVars, PlaceInv, TypeInv, TypeOK, TypeTask
    <3>6. ASSUME OtherMain \/ UNCHANGED vars PROVE \A t \in Task : status'[t] # "lost"
      BY <3>1, <3>6 DEF OtherMain, CallLoop, StartThread, AssignJob, Join, taskVars, vars
    <3>7. \A t \in Task : status'[t] # "lost"
      BY <3>2, <3>3, <3>4, <3>5, <3>6, ThreadFacts DEF Next, MainStep, OtherMain, Terminated
    <3>. QED BY <3>7 DEF LostInv
  <2>. QED BY <1>1, <1>2, <2>5, <2>6, <2>7
<1>. QED BY <1>3, <1>4, <1>5, <1>6

\* As long as no task submits to the scheduler at run time, a context that
\* counts as idle has no task, and the contexts are told to stop only when
\* every task that was submitted is over.
THEOREM StopsNotEarly == Spec => []NoEarlyStop
<1>1. EndInv => NoEarlyStop
  BY DEF EndInv, FlagInv, StopInv, NoEarlyStop, IdleFlag, Quiet, TokenInv, TypeInv, TypeOK, TypeTask
<1>. QED BY InitEnd, NextEnd, <1>1, PTL DEF Spec
=============================================================================
