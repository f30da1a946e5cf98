----------------------------- MODULE EngineProofs -----------------------------
(***************************************************************************)
(* Theorems about Engine and Timer, for every number of tasks, of          *)
(* submitting threads and of operations a task performs, and every size of *)
(* the queue and of the rings.  An engine with timers is an engine, so all *)
(* that is proved of Engine holds of it.                                   *)
(***************************************************************************)
EXTENDS Timer, ListLemmas, FiniteSetTheorems, SequenceTheorems, TLAPS

\* Places of the worker.
WorkerPc == {"off", "work", "exec", "task", "store", "wake", "check", "stop_cb", "submit", "wait",
             "peek", "cqe", "end", "dead"}
PcOK == /\ pc \in [Thread -> WorkerPc \cup {"idle"}]
        /\ \A r \in Remote : pc[r] \in {"idle", "store", "wake", "dead"}
        /\ pc[Worker] \in WorkerPc

\* A thread inside a submission has a task in hand; the worker has one while
\* it runs a task, and a batch of completions while poll_submit handles them.
HandOK == /\ \A th \in Thread : pc[th] \in {"store", "wake"} => sub[th] \in Tasks
          /\ pc[Worker] = "task" => cur \in Tasks
          /\ cur # NoTask => pc[Worker] \in {"task", "store", "wake", "dead"}
          /\ seen > 0 => cur = NoTask /\ pc[Worker] \in {"cqe", "store", "wake", "dead"}

\* A task is running exactly while the worker resumes it.
RunOK == \A t \in Tasks : status[t] = "running" <=> t = cur

\* The queue holds the queued tasks, once each.
QueueOK == IsInjective(m_task_queue) /\ \A t \in Tasks : t \in ToSet(m_task_queue) <=> status[t] = "queued"

\* The completions of this batch that poll_submit has handled.
Handled == seen - Len(m_urc)

\* The batch is the front of the completion ring.
BatchOK == /\ Len(m_urc) <= seen /\ seen <= Len(cq)
           /\ \A i \in 1 .. Len(m_urc) : m_urc[i] = cq[Handled + i]

\* A prepared operation, one the kernel has, and a completion that was not yet
\* handled belong to different tasks, and these are the tasks that wait for io.
SqOK == IsInjective(sq) /\ \A t \in ToSet(sq) : status[t] = "io" /\ t \notin kernel
CqOK == \A i \in Handled + 1 .. Len(cq) :
          /\ status[cq[i]] = "io" /\ cq[i] \notin kernel /\ cq[i] \notin ToSet(sq)
          /\ \A j \in Handled + 1 .. Len(cq) : cq[i] = cq[j] => i = j
IoOK == /\ \A t \in kernel : status[t] = "io"
        /\ \A t \in Tasks : status[t] = "io" =>
             t \in ToSet(sq) \cup kernel \/ \E i \in Handled + 1 .. Len(cq) : cq[i] = t

\* The account, with a kernel that holds finitely many operations.
CountOK == IsFiniteSet(kernel) /\ IoAccounting

\* The worker ended because it was told to, and nobody submits any more.
EndOK == pc[Worker] = "end" => stop # "no" /\ m_task_queue = <<>> /\ sq = <<>> /\ kernel = {} /\ cq = <<>>

\* Somebody is about to write the eventfd, or has.
Called == eventfd > 0 \/ \E r \in Remote : pc[r] \in {"store", "wake"}

\* A task the worker has not seen comes with a write.
TaskWakeOK == /\ pc[Worker] \in {"exec", "task"} => Called \/ Len(m_task_queue) <= num
              /\ pc[Worker] \in {"check", "stop_cb", "submit", "wait"} => Called \/ m_task_queue = <<>>

\* So does a completion, in the low field of the eventfd, unless the worker is
\* about to look for it.
CqeWakeOK == cq # <<>> => signal \/ WakeByCqe(eventfd) \/ pc[Worker] = "peek" \/ seen = Len(cq)

\* The low field does not run over: between two reads the kernel signals at
\* most the operations it had at the first and those submitted before the
\* second.
SignalDue == IF signal THEN 1 ELSE 0
StopDue   == IF stop = "sent" THEN 0 ELSE 1
Spare     == IF pc[Worker] = "wait" THEN Cardinality(Tasks) ELSE 0
LowOK     == (eventfd % io_flag) + Cardinality(kernel) + SignalDue + StopDue <= Cardinality(Tasks) + 2 + Spare

\* The places of the tasks, and the account of their operations.
PlaceOK == RunOK /\ QueueOK /\ BatchOK /\ SqOK /\ CqOK /\ IoOK
EngineInv == TypeOK /\ PcOK /\ HandOK /\ PlaceOK /\ CountOK /\ EndOK

\* No wake-up is lost.
WakeInv == EngineInv /\ TaskWakeOK /\ CqeWakeOK /\ LowOK

-----------------------------------------------------------------------------
(***************************************************************************)
(* Types and places.                                                       *)
(***************************************************************************)

\* The worker is a thread of its own.
LEMMA Threads ==
  /\ Worker \in Thread /\ Worker \notin Remote /\ NoTask \notin Tasks
  /\ \A r \in Remote : r \in Thread /\ r # Worker
  /\ \A th \in Thread : th # Worker => th \in Remote
BY EngineAssumption DEF Thread

\* The steps that move no task.
StoreOrWake == \E th \in Thread : Store(th) \/ WakeUp(th)
Quiet == \/ StoreOrWake
         \/ Start \/ AssignJob \/ RequestStop \/ StopWake
         \/ ProcessWork \/ WorkDone \/ SqeExhausted \/ Check \/ StopCb \/ WaitEventfd
         \/ Signal \/ UNCHANGED vars

LEMMA QuietTypes ==
  ASSUME TypeOK, PcOK, HandOK, Quiet
  PROVE  TypeOK' /\ PcOK' /\ HandOK'
<1> USE Threads DEF queVars, ioVars, kerVars, locVars, tskVars, ctxVars
<1>1. ASSUME NEW th \in Thread, Store(th) PROVE TypeOK' /\ PcOK' /\ HandOK'
  <2>1. TypeOK'
    BY <1>1 DEF Store, Goto, TypeOK, HandOK
  <2>2. PcOK'
    BY <1>1 DEF Store, Goto, PcOK, WorkerPc
  <2>3. HandOK'
    BY <1>1 DEF Store, Goto, PcOK, HandOK, WorkerPc
  <2>. QED BY <2>1, <2>2, <2>3
<1>2. ASSUME NEW th \in Thread, WakeUp(th) PROVE TypeOK' /\ PcOK' /\ HandOK'
  <2>1. TypeOK'
    <3>1. eventfd' \in Nat
      BY <1>2, EngineAssumption DEF WakeUp, TypeOK
    <3>2. sub' \in [Thread -> Tasks \cup {NoTask}]
      BY <1>2 DEF WakeUp, TypeOK
    <3>. QED BY <1>2, <3>1, <3>2 DEF WakeUp, TypeOK
  <2>2. PcOK'
    BY <1>2 DEF WakeUp, Goto, PcOK, WorkerPc
  <2>3. HandOK'
    BY <1>2 DEF WakeUp, Goto, PcOK, HandOK, WorkerPc, TypeOK
  <2>. QED BY <2>1, <2>2, <2>3
<1>3. ASSUME Start \/ AssignJob \/ RequestStop \/ StopWake \/ Signal PROVE TypeOK' /\ PcOK' /\ HandOK'
  <2>1. TypeOK'
    <3>1. CASE Start
      BY <3>1 DEF Start, TypeOK
    <3>2. CASE AssignJob
      BY <3>2 DEF AssignJob, TypeOK
    <3>3. CASE RequestStop
      BY <3>3 DEF RequestStop, TypeOK
    <3>4. CASE StopWake \/ Signal
      <4>1. eventfd' \in Nat
        BY <3>4 DEF StopWake, Signal, TypeOK
      <4>. QED BY <3>4, <4>1 DEF StopWake, Signal, TypeOK
    <3>. QED BY <1>3, <3>1, <3>2, <3>3, <3>4
  <2>2. PcOK' /\ HandOK'
    BY <1>3 DEF Start, AssignJob, RequestStop, StopWake, Signal, Goto, PcOK, HandOK, WorkerPc
  <2>. QED BY <2>1, <2>2
<1>4. ASSUME ProcessWork \/ WorkDone \/ Check \/ WaitEventfd PROVE TypeOK' /\ PcOK' /\ HandOK'
  <2>1. TypeOK'
    <3>1. CASE ProcessWork
      <4>1. num' \in Nat
        BY <3>1, LenProperties DEF ProcessWork, TypeOK
      <4>. QED BY <3>1, <4>1 DEF ProcessWork, TypeOK
    <3>2. CASE WorkDone \/ Check
      BY <3>2 DEF WorkDone, Check, TypeOK
    <3>3. CASE WaitEventfd
      BY <3>3 DEF WaitEventfd, TypeOK
    <3>. QED BY <1>4, <3>1, <3>2, <3>3
  <2>2. PcOK' /\ HandOK'
    BY <1>4 DEF ProcessWork, WorkDone, Check, WaitEventfd, Goto, PcOK, HandOK, WorkerPc
  <2>. QED BY <2>1, <2>2
<1>5. ASSUME SqeExhausted \/ StopCb PROVE TypeOK' /\ PcOK' /\ HandOK'
  <2>1. TypeOK'
    BY <1>5 DEF SqeExhausted, StopCb, TypeOK
  <2>2. PcOK' /\ HandOK'
    BY <1>5 DEF SqeExhausted, StopCb, Goto, PcOK, HandOK, WorkerPc
  <2>. QED BY <2>1, <2>2
<1>6. ASSUME UNCHANGED vars PROVE TypeOK' /\ PcOK' /\ HandOK'
  <2>1. TypeOK'
    BY <1>6 DEF vars, TypeOK
  <2>2. PcOK' /\ HandOK'
    BY <1>6 DEF vars, PcOK, HandOK
  <2>. QED BY <2>1, <2>2
<1>. QED BY <1>1, <1>2, <1>3, <1>4, <1>5, <1>6 DEF Quiet, StoreOrWake

\* They keep every place.
LEMMA QuietPlaces ==
  ASSUME PlaceOK, CountOK, Quiet
  PROVE  PlaceOK' /\ CountOK'
<1>1. UNCHANGED <<m_task_queue, ioVars, kernel, cq, cur, m_urc, seen, status>>
  BY DEF Quiet, StoreOrWake, Store, WakeUp, Start, AssignJob, RequestStop, StopWake, ProcessWork, WorkDone,
     SqeExhausted, Check, StopCb, WaitEventfd, Signal, queVars, ioVars, kerVars, locVars, tskVars, vars
<1>2. RunOK' /\ QueueOK'
  BY <1>1 DEF PlaceOK, RunOK, QueueOK
<1>3. BatchOK' /\ CqOK'
  BY <1>1 DEF PlaceOK, BatchOK, CqOK, Handled, ioVars
<1>4. SqOK' /\ IoOK'
  BY <1>1 DEF PlaceOK, SqOK, IoOK, Handled, ioVars
<1>5. CountOK'
  BY <1>1 DEF CountOK, IoAccounting, ioVars
<1>. QED BY <1>2, <1>3, <1>4, <1>5 DEF PlaceOK

\* A step that touches no ring, and neither suspends nor resumes a task that
\* waits for io, keeps the places of the operations.
LEMMA IoKept ==
  ASSUME TypeOK, PlaceOK, CountOK, UNCHANGED <<ioVars, kernel, cq, m_urc, seen>>,
         \A t \in Tasks : status'[t] = "io" <=> status[t] = "io"
  PROVE  BatchOK' /\ SqOK' /\ CqOK' /\ IoOK' /\ CountOK'
<1>1. Handled' = Handled
  BY DEF Handled
<1>2. BatchOK' /\ CountOK'
  BY <1>1 DEF PlaceOK, BatchOK, CountOK, IoAccounting, ioVars
<1>3. SqOK'
  <2>1. ToSet(sq) \subseteq Tasks
    BY LenProperties DEF TypeOK, ToSet
  <2>. QED BY <2>1 DEF PlaceOK, SqOK, ioVars
<1>4. IoOK'
  BY <1>1 DEF PlaceOK, IoOK, ioVars, TypeOK
<1>5. CqOK'
  <2>1. Handled \in Int /\ Handled >= 0
    BY LenProperties DEF PlaceOK, BatchOK, Handled, TypeOK
  <2>2. \A i \in Handled + 1 .. Len(cq) : cq[i] \in Tasks
    BY <2>1, LenProperties DEF TypeOK
  <2>. QED BY <1>1, <2>2 DEF PlaceOK, CqOK, ioVars
<1>. QED BY <1>2, <1>3, <1>4, <1>5

LEMMA SubmitKeeps ==
  ASSUME TypeOK, PcOK, HandOK, PlaceOK, CountOK, NEW th \in Thread, NEW t \in Tasks, SubmitTask(th, t)
  PROVE  TypeOK' /\ PcOK' /\ HandOK' /\ PlaceOK' /\ CountOK'
<1> USE Threads
<1>1. /\ m_task_queue' = Append(m_task_queue, t)
      /\ sub' = [sub EXCEPT ![th] = t] /\ status' = [status EXCEPT ![t] = "queued"] /\ status[t] = "unborn"
      /\ pc[th] = (IF th = Worker THEN "task" ELSE "idle") /\ pc' = [pc EXCEPT ![th] = "store"]
      /\ UNCHANGED <<stored, eventfd, ioVars, kerVars, stop, ctxVars, cur, num, m_urc, seen, left>>
  BY DEF SubmitTask, Claim, Goto
<1>2. /\ m_task_queue' \in Seq(Tasks) /\ ToSet(m_task_queue') = ToSet(m_task_queue) \cup {t}
      /\ IsInjective(m_task_queue')
  BY <1>1, AppendSet DEF PlaceOK, QueueOK, TypeOK
<1>3. TypeOK'
  BY <1>1, <1>2 DEF TypeOK, ioVars, kerVars, ctxVars
<1>4. PcOK'
  BY <1>1 DEF PcOK, WorkerPc
<1>5. HandOK'
  BY <1>1 DEF HandOK, PcOK, TypeOK
<1>6. RunOK' /\ QueueOK'
  BY <1>1, <1>2 DEF PlaceOK, RunOK, QueueOK, TypeOK
<1>7. BatchOK' /\ SqOK' /\ CqOK' /\ IoOK' /\ CountOK'
  <2>1. UNCHANGED <<ioVars, kernel, cq, m_urc, seen>>
    BY <1>1 DEF kerVars
  <2>2. \A x \in Tasks : status'[x] = "io" <=> status[x] = "io"
    BY <1>1 DEF TypeOK
  <2>. QED BY <2>1, <2>2, IoKept
<1>. QED BY <1>3, <1>4, <1>5, <1>6, <1>7 DEF PlaceOK

LEMMA ExecKeeps ==
  ASSUME TypeOK, PcOK, HandOK, PlaceOK, CountOK, ExecOneTask
  PROVE  TypeOK' /\ PcOK' /\ HandOK' /\ PlaceOK' /\ CountOK'
<1> USE Threads
<1> DEFINE t == Head(m_task_queue)
<1>1. /\ m_task_queue' = Tail(m_task_queue) /\ m_task_queue # <<>> /\ t \in stored /\ stored' = stored \ {t}
      /\ cur' = t /\ status' = [status EXCEPT ![t] = "running"]
      /\ num > 0 /\ num' = num - 1
      /\ pc[Worker] = "exec" /\ pc' = [pc EXCEPT ![Worker] = "task"]
      /\ UNCHANGED <<eventfd, ioVars, kerVars, stop, ctxVars, sub, m_urc, seen, left>>
  BY DEF ExecOneTask, Goto
<1>2. /\ m_task_queue' \in Seq(Tasks) /\ ToSet(m_task_queue) = ToSet(m_task_queue') \cup {t}
      /\ IsInjective(m_task_queue') /\ t \in Tasks /\ t \notin ToSet(m_task_queue')
  BY <1>1, TailSet DEF PlaceOK, QueueOK, TypeOK
<1> HIDE DEF t
<1>3. TypeOK'
  BY <1>1, <1>2 DEF TypeOK, ioVars, kerVars, ctxVars
<1>4. PcOK'
  BY <1>1 DEF PcOK, WorkerPc
<1>5. HandOK'
  BY <1>1, <1>2 DEF HandOK, PcOK, TypeOK
<1>6. cur = NoTask
  BY <1>1 DEF HandOK
<1>7. RunOK' /\ QueueOK'
  BY <1>1, <1>2, <1>6 DEF PlaceOK, RunOK, QueueOK, TypeOK
<1>8. BatchOK' /\ SqOK' /\ CqOK' /\ IoOK' /\ CountOK'
  <2>1. UNCHANGED <<ioVars, kernel, cq, m_urc, seen>>
    BY <1>1 DEF kerVars
  <2>2. status[t] = "queued"
    BY <1>2 DEF PlaceOK, QueueOK
  <2>3. \A x \in Tasks : status'[x] = "io" <=> status[x] = "io"
    BY <1>1, <2>2 DEF TypeOK
  <2>. QED BY <2>1, <2>3, IoKept
<1>. QED BY <1>3, <1>4, <1>5, <1>7, <1>8 DEF PlaceOK

LEMMA FinishKeeps ==
  ASSUME TypeOK, PcOK, HandOK, PlaceOK, CountOK, Finish
  PROVE  TypeOK' /\ PcOK' /\ HandOK' /\ PlaceOK' /\ CountOK'
<1> USE Threads
<1>1. /\ cur' = NoTask /\ status' = [status EXCEPT ![cur] = "done"]
      /\ pc[Worker] = "task" /\ pc' = [pc EXCEPT ![Worker] = "exec"]
      /\ UNCHANGED <<queVars, eventfd, ioVars, kerVars, stop, ctxVars, sub, num, m_urc, seen, left>>
  BY DEF Finish, Goto
<1>2. cur \in Tasks /\ status[cur] = "running"
  BY <1>1 DEF HandOK, PlaceOK, RunOK
<1>3. TypeOK'
  BY <1>1, <1>2 DEF TypeOK, queVars, ioVars, kerVars, ctxVars
<1>4. PcOK' /\ HandOK'
  BY <1>1 DEF PcOK, HandOK, WorkerPc
<1>5. RunOK' /\ QueueOK'
  BY <1>1, <1>2 DEF PlaceOK, RunOK, QueueOK, TypeOK, queVars
<1>6. BatchOK' /\ SqOK' /\ CqOK' /\ IoOK' /\ CountOK'
  <2>1. UNCHANGED <<ioVars, kernel, cq, m_urc, seen>>
    BY <1>1 DEF kerVars
  <2>2. \A x \in Tasks : status'[x] = "io" <=> status[x] = "io"
    BY <1>1, <1>2 DEF TypeOK
  <2>. QED BY <2>1, <2>2, IoKept
<1>. QED BY <1>3, <1>4, <1>5, <1>6 DEF PlaceOK

\* A new operation: the task was running, so it is in no ring.
LEMMA AwaitKeeps ==
  ASSUME TypeOK, PcOK, HandOK, PlaceOK, CountOK, AwaitIo
  PROVE  TypeOK' /\ PcOK' /\ HandOK' /\ PlaceOK' /\ CountOK'
<1> USE Threads
<1>1. /\ sq' = Append(sq, cur) /\ m_num_io_wait_submit' = m_num_io_wait_submit + 1
      /\ cur' = NoTask /\ status' = [status EXCEPT ![cur] = "io"]
      /\ left[cur] > 0 /\ left' = [left EXCEPT ![cur] = @ - 1]
      /\ pc[Worker] = "task" /\ pc' = [pc EXCEPT ![Worker] = "exec"]
      /\ UNCHANGED <<queVars, eventfd, m_num_io_running, kerVars, stop, ctxVars, sub, num, m_urc, seen>>
  BY DEF AwaitIo, Goto
<1>2. cur \in Tasks /\ status[cur] = "running"
  BY <1>1 DEF HandOK, PlaceOK, RunOK
<1>3. /\ sq' \in Seq(Tasks) /\ ToSet(sq') = ToSet(sq) \cup {cur} /\ cur \notin ToSet(sq) /\ IsInjective(sq')
      /\ Len(sq') = Len(sq) + 1 /\ Len(sq) \in Nat
  BY <1>1, <1>2, AppendSet, AppendProperties, LenProperties DEF PlaceOK, SqOK, TypeOK
<1>4. TypeOK'
  <2>1. left' \in [Tasks -> 0 .. Ios]
    BY <1>1, <1>2, EngineAssumption DEF TypeOK
  <2>2. m_num_io_wait_submit' \in Nat
    BY <1>1 DEF TypeOK
  <2>. QED BY <1>1, <1>2, <1>3, <2>1, <2>2 DEF TypeOK, queVars, kerVars, ctxVars
<1>5. PcOK' /\ HandOK'
  BY <1>1 DEF PcOK, HandOK, WorkerPc
<1>6. RunOK' /\ QueueOK'
  BY <1>1, <1>2 DEF PlaceOK, RunOK, QueueOK, TypeOK, queVars
<1>7. Handled' = Handled /\ Handled \in Nat /\ BatchOK'
  BY <1>1, LenProperties DEF PlaceOK, BatchOK, Handled, kerVars, TypeOK
<1>8. \A t \in Tasks : status'[t] = "io" <=> status[t] = "io" \/ t = cur
  BY <1>1, <1>2 DEF TypeOK
<1>9. SqOK'
  <2>1. ToSet(sq) \subseteq Tasks
    BY LenProperties DEF TypeOK, ToSet
  <2>2. cur \notin kernel
    BY <1>2 DEF PlaceOK, IoOK
  <2>. QED BY <1>1, <1>2, <1>3, <1>8, <2>1, <2>2 DEF PlaceOK, SqOK, kerVars
<1>10. CqOK'
  <2>1. \A i \in Handled + 1 .. Len(cq) : cq[i] \in Tasks /\ cq[i] # cur
    BY <1>2, <1>7, LenProperties DEF PlaceOK, CqOK, TypeOK
  <2>2. cq' = cq /\ kernel' = kernel
    BY <1>1 DEF kerVars
  <2>3. \A i \in Handled + 1 .. Len(cq) : status'[cq[i]] = "io" /\ cq[i] \notin kernel'
    BY <1>8, <2>1, <2>2 DEF PlaceOK, CqOK
  <2>4. \A i \in Handled + 1 .. Len(cq) : cq[i] \notin ToSet(sq')
    BY <1>3, <2>1 DEF PlaceOK, CqOK
  <2>. QED BY <1>7, <2>2, <2>3, <2>4 DEF PlaceOK, CqOK
<1>11. IoOK'
  BY <1>1, <1>2, <1>3, <1>7, <1>8 DEF PlaceOK, IoOK, kerVars, TypeOK
<1>12. CountOK'
  BY <1>1, <1>3 DEF CountOK, IoAccounting, kerVars, TypeOK
<1>. QED BY <1>4, <1>5, <1>6, <1>7, <1>9, <1>10, <1>11, <1>12 DEF PlaceOK

\* The kernel takes over the submission ring: it is empty when no operation
\* was counted.
LEMMA SubmitsAll ==
  ASSUME TypeOK, CountOK, DoIoSubmit
  PROVE  sq' = <<>> /\ kernel' = kernel \cup ToSet(sq)
<1>1. CASE m_num_io_wait_submit > 0
  BY <1>1 DEF DoIoSubmit
<1>2. CASE ~(m_num_io_wait_submit > 0)
  <2>1. Len(sq) = 0 /\ UNCHANGED <<sq, kernel>>
    BY <1>2 DEF DoIoSubmit, CountOK, IoAccounting, TypeOK
  <2>2. sq = <<>>
    BY <2>1, EmptySeq DEF TypeOK
  <2>. QED BY <2>1, <2>2, NoElements
<1>. QED BY <1>1, <1>2

LEMMA IoSubmitKeeps ==
  ASSUME TypeOK, PcOK, HandOK, PlaceOK, CountOK, DoIoSubmit
  PROVE  TypeOK' /\ PcOK' /\ HandOK' /\ PlaceOK' /\ CountOK'
<1> USE Threads
<1>1. /\ pc[Worker] = "submit" /\ pc' = [pc EXCEPT ![Worker] = "wait"]
      /\ m_num_io_running' = m_num_io_running + m_num_io_wait_submit /\ m_num_io_wait_submit' = 0
      /\ UNCHANGED <<queVars, eventfd, cq, signal, stop, ctxVars, locVars, tskVars>>
  BY DEF DoIoSubmit, Goto
<1>2. sq' = <<>> /\ kernel' = kernel \cup ToSet(sq)
  BY SubmitsAll
<1>3. ToSet(sq) \subseteq Tasks /\ IsFiniteSet(ToSet(sq)) /\ Cardinality(ToSet(sq)) = Len(sq)
  <2>1. ToSet(sq) \subseteq Tasks
    BY LenProperties DEF TypeOK, ToSet
  <2>. QED BY <2>1, InjectiveCount DEF TypeOK, PlaceOK, SqOK
<1>4. TypeOK'
  <2>1. m_num_io_running' \in Nat /\ m_num_io_wait_submit' \in Nat
    BY <1>1 DEF TypeOK
  <2>2. sq' \in Seq(Tasks) /\ kernel' \subseteq Tasks
    BY <1>2, <1>3, NoElements DEF TypeOK
  <2>. QED BY <1>1, <2>1, <2>2 DEF TypeOK, queVars, ctxVars, locVars, tskVars
<1>5. PcOK' /\ HandOK'
  BY <1>1 DEF PcOK, HandOK, WorkerPc, locVars
<1>6. RunOK' /\ QueueOK'
  BY <1>1 DEF PlaceOK, RunOK, QueueOK, queVars, locVars, tskVars
<1>7. Handled' = Handled /\ BatchOK'
  BY <1>1 DEF PlaceOK, BatchOK, Handled, locVars
<1>8. SqOK'
  BY <1>2, NoElements DEF SqOK
<1>9. CqOK'
  BY <1>1, <1>2, <1>7, NoElements DEF PlaceOK, CqOK, tskVars
<1>10. IoOK'
  BY <1>1, <1>2, <1>7, NoElements DEF PlaceOK, IoOK, SqOK, tskVars
<1>11. CountOK'
  <2>1. kernel \cap ToSet(sq) = {}
    BY DEF PlaceOK, SqOK
  <2>2. IsFiniteSet(kernel') /\ Cardinality(kernel') = Cardinality(kernel) + Len(sq) - Cardinality({})
    BY <1>2, <1>3, <2>1, FS_Union DEF CountOK
  <2>3. Cardinality({}) = 0 /\ Cardinality(kernel) \in Nat /\ Len(cq) \in Nat /\ Len(sq) \in Nat
    BY FS_EmptySet, FS_CardinalityType, LenProperties DEF CountOK, TypeOK
  <2>. QED BY <1>1, <1>2, <2>2, <2>3, NoElements DEF CountOK, IoAccounting, TypeOK
<1>. QED BY <1>4, <1>5, <1>6, <1>7, <1>8, <1>9, <1>10, <1>11 DEF PlaceOK

\* poll_submit fetches all the completions there are: there are never more of
\* them than operations running.
LEMMA PeekTakesAll ==
  ASSUME TypeOK, HandOK, PlaceOK, CountOK, PeekBatch
  PROVE  m_urc' = cq /\ seen' = Len(cq) /\ seen = 0 /\ m_urc = <<>>
<1>1. Len(cq) <= m_num_io_running /\ Len(cq) \in Nat
  BY FS_CardinalityType, LenProperties DEF CountOK, IoAccounting, TypeOK
<1>2. seen' = Len(cq) /\ m_urc' = SubSeq(cq, 1, Len(cq)) /\ pc[Worker] = "peek"
  BY <1>1 DEF PeekBatch, Goto, TypeOK
<1>3. SubSeq(cq, 1, Len(cq)) = cq
  <2>1. /\ Len(SubSeq(cq, 1, Len(cq))) = Len(cq) /\ SubSeq(cq, 1, Len(cq)) \in Seq(Tasks)
        /\ \A i \in 1 .. Len(cq) : SubSeq(cq, 1, Len(cq))[i] = cq[i]
    BY <1>1, LenProperties DEF TypeOK
  <2>. QED BY <2>1, SeqEqual DEF TypeOK
<1>4. seen = 0 /\ Len(m_urc) = 0
  BY <1>2, LenProperties DEF HandOK, PlaceOK, BatchOK, TypeOK
<1>. QED BY <1>2, <1>3, <1>4, EmptySeq DEF TypeOK

LEMMA PeekKeeps ==
  ASSUME TypeOK, PcOK, HandOK, PlaceOK, CountOK, PeekBatch
  PROVE  TypeOK' /\ PcOK' /\ HandOK' /\ PlaceOK' /\ CountOK'
<1> USE Threads
<1>1. /\ pc[Worker] = "peek" /\ pc' = [pc EXCEPT ![Worker] = "cqe"]
      /\ UNCHANGED <<queVars, eventfd, ioVars, kerVars, stop, ctxVars, sub, cur, num, tskVars>>
  BY DEF PeekBatch, Goto
<1>2. m_urc' = cq /\ seen' = Len(cq) /\ seen = 0 /\ m_urc = <<>> /\ Len(cq) \in Nat
  BY PeekTakesAll, LenProperties DEF TypeOK
<1>3. Handled' = 0 /\ Handled = 0
  <2>1. Len(m_urc') = Len(cq) /\ Len(m_urc) = 0
    BY <1>2, NoElements
  <2>2. Handled' = seen' - Len(m_urc') /\ Handled = seen - Len(m_urc)
    BY DEF Handled
  <2>. QED BY <1>2, <2>1, <2>2
<1>4. TypeOK'
  BY <1>1, <1>2 DEF TypeOK, queVars, ioVars, kerVars, ctxVars, tskVars
<1>5. PcOK' /\ HandOK'
  BY <1>1, <1>2 DEF PcOK, HandOK, WorkerPc
<1>6. RunOK' /\ QueueOK' /\ CountOK'
  BY <1>1 DEF PlaceOK, RunOK, QueueOK, CountOK, IoAccounting, queVars, ioVars, kerVars, tskVars
<1>7. BatchOK'
  BY <1>1, <1>2, <1>3 DEF BatchOK, kerVars
<1>8. SqOK' /\ CqOK' /\ IoOK'
  BY <1>1, <1>3 DEF PlaceOK, SqOK, CqOK, IoOK, ioVars, kerVars, tskVars
<1>. QED BY <1>4, <1>5, <1>6, <1>7, <1>8 DEF PlaceOK

\* The first of the batch is the first completion that was not handled, and
\* its task waits for nothing else.
LEMMA HeadOfBatch ==
  ASSUME TypeOK, PlaceOK, m_urc # <<>>
  PROVE  /\ Head(m_urc) \in Tasks /\ Len(m_urc) \in Nat \ {0} /\ Handled \in Nat /\ Len(cq) \in Nat
         /\ Handled + 1 \in Handled + 1 .. Len(cq) /\ Head(m_urc) = cq[Handled + 1]
         /\ status[Head(m_urc)] = "io" /\ Head(m_urc) \notin kernel /\ Head(m_urc) \notin ToSet(sq)
<1>1. Len(m_urc) \in Nat \ {0} /\ Head(m_urc) = m_urc[1] /\ Head(m_urc) \in Tasks
  BY HeadTailProperties, LenProperties, EmptySeq DEF TypeOK
<1>2. /\ Handled \in Nat /\ Len(cq) \in Nat
      /\ Handled + 1 \in Handled + 1 .. Len(cq) /\ Head(m_urc) = cq[Handled + 1]
  <2>1. Len(cq) \in Nat /\ seen \in Nat /\ Len(m_urc) <= seen /\ seen <= Len(cq) /\ Handled = seen - Len(m_urc)
    BY LenProperties DEF PlaceOK, BatchOK, Handled, TypeOK
  <2>2. m_urc[1] = cq[Handled + 1]
    BY <1>1 DEF PlaceOK, BatchOK
  <2>. QED BY <1>1, <2>1, <2>2
<1>. QED BY <1>1, <1>2 DEF PlaceOK, CqOK

LEMMA HandleKeeps ==
  ASSUME TypeOK, PcOK, HandOK, PlaceOK, CountOK, HandleCqe
  PROVE  TypeOK' /\ PcOK' /\ HandOK' /\ PlaceOK' /\ CountOK'
<1> USE Threads
<1> DEFINE t == Head(m_urc)
<1>1. /\ m_urc # <<>> /\ m_urc' = Tail(m_urc)
      /\ m_task_queue' = Append(m_task_queue, t)
      /\ sub' = [sub EXCEPT ![Worker] = t] /\ status' = [status EXCEPT ![t] = "queued"]
      /\ pc[Worker] = "cqe" /\ pc' = [pc EXCEPT ![Worker] = "store"]
      /\ UNCHANGED <<stored, eventfd, ioVars, kerVars, stop, ctxVars, cur, num, seen, left>>
  BY DEF HandleCqe, Claim, Goto
<1>2. /\ Len(m_urc) \in Nat \ {0} /\ t = m_urc[1] /\ t \in Tasks
      /\ m_urc' \in Seq(Tasks) /\ Len(m_urc') = Len(m_urc) - 1
      /\ \A i \in 1 .. Len(m_urc) - 1 : m_urc'[i] = m_urc[i + 1]
  BY <1>1, HeadTailProperties, LenProperties, EmptySeq DEF TypeOK
<1>3. /\ Handled \in Nat /\ Handled' = Handled + 1 /\ Len(cq) \in Nat
      /\ Handled + 1 \in Handled + 1 .. Len(cq) /\ t = cq[Handled + 1]
  <2>1. Handled' = seen - Len(m_urc') /\ Handled = seen - Len(m_urc)
    BY <1>1 DEF Handled
  <2>. QED BY <1>1, <1>2, <2>1, HeadOfBatch DEF TypeOK
<1> HIDE DEF t
<1>4. /\ status[t] = "io" /\ t \notin kernel /\ t \notin ToSet(sq)
      /\ \A i \in Handled + 2 .. Len(cq) : cq[i] # t
  BY <1>3 DEF PlaceOK, CqOK
<1>5. /\ m_task_queue' \in Seq(Tasks) /\ ToSet(m_task_queue') = ToSet(m_task_queue) \cup {t}
      /\ IsInjective(m_task_queue')
  BY <1>1, <1>2, <1>4, AppendSet DEF PlaceOK, QueueOK, TypeOK
<1>6. TypeOK'
  BY <1>1, <1>2, <1>5 DEF TypeOK, ioVars, kerVars, ctxVars
<1>7. PcOK'
  BY <1>1 DEF PcOK, WorkerPc
<1>8. HandOK'
  BY <1>1, <1>2 DEF HandOK, PcOK, TypeOK
<1>9. RunOK' /\ QueueOK'
  BY <1>1, <1>2, <1>4, <1>5 DEF PlaceOK, RunOK, QueueOK, TypeOK
<1>10. BatchOK'
  <2>1. cq' = cq /\ seen' = seen
    BY <1>1 DEF kerVars
  <2>2. Len(m_urc') <= seen' /\ seen' <= Len(cq')
    BY <1>2, <2>1 DEF PlaceOK, BatchOK, TypeOK
  <2>3. ASSUME NEW i \in 1 .. Len(m_urc') PROVE m_urc'[i] = cq'[Handled' + i]
    <3>1. i \in 1 .. Len(m_urc) - 1 /\ i + 1 \in 1 .. Len(m_urc) /\ Handled' + i = Handled + (i + 1)
      BY <1>2, <1>3
    <3>2. m_urc[i + 1] = cq[Handled + (i + 1)]
      BY <3>1 DEF PlaceOK, BatchOK
    <3>. QED BY <1>2, <2>1, <3>1, <3>2
  <2>. QED BY <2>2, <2>3 DEF BatchOK
<1>11. \A x \in Tasks : status'[x] = "io" <=> status[x] = "io" /\ x # t
  BY <1>1, <1>2 DEF TypeOK
<1>12. SqOK'
  <2>1. ToSet(sq) \subseteq Tasks
    BY LenProperties DEF TypeOK, ToSet
  <2>. QED BY <1>1, <1>4, <1>11, <2>1 DEF PlaceOK, SqOK, ioVars, kerVars
<1>13. CqOK'
  <2>1. \A i \in Handled + 2 .. Len(cq) : cq[i] \in Tasks
    BY <1>3, LenProperties DEF TypeOK
  <2>2. \A i \in Handled' + 1 .. Len(cq') : i \in Handled + 2 .. Len(cq) /\ i \in Handled + 1 .. Len(cq) /\ cq'[i] = cq[i]
    BY <1>1, <1>3 DEF kerVars
  <2>3. sq' = sq /\ kernel' = kernel
    BY <1>1 DEF ioVars, kerVars
  <2>. QED BY <1>4, <1>11, <2>1, <2>2, <2>3 DEF PlaceOK, CqOK
<1>14. IoOK'
  <2>1. \A x \in kernel' : status'[x] = "io"
    BY <1>1, <1>4, <1>11 DEF PlaceOK, IoOK, kerVars, TypeOK
  <2>2. ASSUME NEW x \in Tasks, status'[x] = "io", x \notin ToSet(sq') \cup kernel'
        PROVE  \E i \in Handled' + 1 .. Len(cq') : cq'[i] = x
    <3>1. status[x] = "io" /\ x # t /\ x \notin ToSet(sq) \cup kernel
      BY <1>1, <1>11, <2>2 DEF ioVars, kerVars
    <3>2. PICK i \in Handled + 1 .. Len(cq) : cq[i] = x
      BY <3>1 DEF PlaceOK, IoOK
    <3>3. i # Handled + 1
      BY <1>3, <3>1, <3>2
    <3>4. i \in Handled' + 1 .. Len(cq')
      BY <1>1, <1>3, <3>3 DEF kerVars
    <3>. QED BY <1>1, <3>2, <3>4 DEF kerVars
  <2>. QED BY <2>1, <2>2 DEF IoOK
<1>15. CountOK'
  BY <1>1 DEF CountOK, IoAccounting, ioVars, kerVars
<1>. QED BY <1>6, <1>7, <1>8, <1>9, <1>10, <1>12, <1>13, <1>14, <1>15 DEF PlaceOK

\* The batch has been handled: what is behind it moves to the front.
LEMMA AdvanceKeeps ==
  ASSUME TypeOK, PcOK, HandOK, PlaceOK, CountOK, CqAdvance
  PROVE  TypeOK' /\ PcOK' /\ HandOK' /\ PlaceOK' /\ CountOK'
<1> USE Threads
<1>1. /\ m_urc = <<>> /\ seen' = 0 /\ m_num_io_running' = m_num_io_running - seen
      /\ pc[Worker] = "cqe" /\ pc' = [pc EXCEPT ![Worker] = "work"]
      /\ UNCHANGED <<queVars, eventfd, m_num_io_wait_submit, sq, kernel, signal, stop, ctxVars, sub, cur,
                     num, m_urc, tskVars>>
  BY DEF CqAdvance, Goto
<1>2. seen \in Nat /\ Len(cq) \in Nat /\ seen <= Len(cq) /\ Len(m_urc) = 0
  BY <1>1, LenProperties, NoElements DEF PlaceOK, BatchOK, TypeOK
<1>3. /\ cq' \in Seq(Tasks) /\ Len(cq') = Len(cq) - seen
      /\ \A i \in 1 .. Len(cq) - seen : cq'[i] = cq[seen + i]
  <2>1. \A i \in seen + 1 .. Len(cq) : cq[i] \in Tasks
    BY <1>2, LenProperties DEF TypeOK
  <2>2. /\ SubSeq(cq, seen + 1, Len(cq)) \in Seq(Tasks)
        /\ Len(SubSeq(cq, seen + 1, Len(cq))) = Len(cq) - seen
        /\ \A i \in 1 .. Len(cq) - seen : SubSeq(cq, seen + 1, Len(cq))[i] = cq[seen + i]
    BY <1>2, <2>1, SubSeqProperties
  <2>. QED BY <2>2 DEF CqAdvance
<1>4. Handled = seen /\ Handled' = 0
  <2>1. Handled' = seen' - Len(m_urc') /\ Handled = seen - Len(m_urc)
    BY DEF Handled
  <2>2. Len(m_urc') = 0 /\ seen' = 0
    BY <1>1, <1>2
  <2>. QED BY <1>2, <2>1, <2>2
<1>5. TypeOK'
  <2>1. m_num_io_running' \in Nat
    BY <1>1, <1>2, FS_CardinalityType DEF CountOK, IoAccounting, TypeOK
  <2>. QED BY <1>1, <1>3, <2>1 DEF TypeOK, queVars, ctxVars, tskVars
<1>6. PcOK' /\ HandOK'
  BY <1>1 DEF PcOK, HandOK, WorkerPc
<1>7. RunOK' /\ QueueOK' /\ SqOK'
  BY <1>1 DEF PlaceOK, RunOK, QueueOK, SqOK, queVars, tskVars
<1>8. BatchOK'
  <2>1. Len(m_urc') = 0 /\ 1 .. Len(m_urc') = {}
    BY <1>1, <1>2
  <2>. QED BY <1>1, <1>2, <1>3, <2>1 DEF BatchOK
<1>9. \A i \in Handled' + 1 .. Len(cq') : seen + i \in Handled + 1 .. Len(cq) /\ cq'[i] = cq[seen + i]
  BY <1>2, <1>3, <1>4
<1>10. CqOK'
  <2>1. ASSUME NEW i \in Handled' + 1 .. Len(cq')
        PROVE  /\ status'[cq'[i]] = "io" /\ cq'[i] \notin kernel' /\ cq'[i] \notin ToSet(sq')
               /\ \A j \in Handled' + 1 .. Len(cq') : cq'[i] = cq'[j] => i = j
    <3>1. seen + i \in Handled + 1 .. Len(cq) /\ cq'[i] = cq[seen + i]
      BY <1>9
    <3>2. status'[cq'[i]] = "io" /\ cq'[i] \notin kernel' /\ cq'[i] \notin ToSet(sq')
      BY <1>1, <3>1 DEF PlaceOK, CqOK, tskVars
    <3>3. ASSUME NEW j \in Handled' + 1 .. Len(cq'), cq'[i] = cq'[j] PROVE i = j
      <4>1. seen + j \in Handled + 1 .. Len(cq) /\ cq'[j] = cq[seen + j]
        BY <1>9
      <4>2. seen + i = seen + j
        BY <3>1, <3>3, <4>1 DEF PlaceOK, CqOK
      <4>. QED BY <1>2, <1>4, <4>2
    <3>. QED BY <3>2, <3>3
  <2>. QED BY <2>1 DEF CqOK
<1>11. IoOK'
  <2>1. \A x \in kernel' : status'[x] = "io"
    BY <1>1 DEF PlaceOK, IoOK, tskVars
  <2>2. ASSUME NEW x \in Tasks, status'[x] = "io", x \notin ToSet(sq') \cup kernel'
        PROVE  \E i \in Handled' + 1 .. Len(cq') : cq'[i] = x
    <3>1. PICK i \in Handled + 1 .. Len(cq) : cq[i] = x
      BY <1>1, <2>2 DEF PlaceOK, IoOK, tskVars
    <3>2. i - seen \in Handled' + 1 .. Len(cq') /\ seen + (i - seen) = i
      BY <1>2, <1>3, <1>4
    <3>. QED BY <1>9, <3>1, <3>2
  <2>. QED BY <2>1, <2>2 DEF IoOK
<1>12. CountOK'
  <2>1. Cardinality(kernel) \in Nat
    BY FS_CardinalityType DEF CountOK
  <2>. QED BY <1>1, <1>2, <1>3, <2>1 DEF CountOK, IoAccounting, TypeOK
<1>. QED BY <1>5, <1>6, <1>7, <1>8, <1>10, <1>11, <1>12 DEF PlaceOK

\* The kernel moves an operation to the completion ring, behind the batch.
LEMMA CompleteKeeps ==
  ASSUME TypeOK, PcOK, HandOK, PlaceOK, CountOK, NEW t \in Tasks, Complete(t)
  PROVE  TypeOK' /\ PcOK' /\ HandOK' /\ PlaceOK' /\ CountOK'
<1>1. /\ t \in kernel /\ kernel' = kernel \ {t} /\ cq' = Append(cq, t) /\ signal' = TRUE
      /\ UNCHANGED <<queVars, eventfd, ioVars, stop, ctxVars, pc, locVars, tskVars>>
  BY DEF Complete
<1>2. /\ cq' \in Seq(Tasks) /\ Len(cq) \in Nat /\ Len(cq') = Len(cq) + 1 /\ cq'[Len(cq) + 1] = t
      /\ \A i \in 1 .. Len(cq) : cq'[i] = cq[i]
  BY <1>1, AppendProperties, LenProperties DEF TypeOK
<1>3. Handled' = Handled /\ Handled \in Nat /\ Handled <= Len(cq)
  <2>1. m_urc' = m_urc /\ seen' = seen
    BY <1>1 DEF locVars
  <2>. QED BY <2>1, LenProperties DEF Handled, PlaceOK, BatchOK, TypeOK
<1>4. status[t] = "io" /\ t \notin ToSet(sq)
  BY <1>1 DEF PlaceOK, SqOK, IoOK
<1>5. TypeOK'
  BY <1>1, <1>2 DEF TypeOK, queVars, ioVars, ctxVars, locVars, tskVars
<1>6. PcOK' /\ HandOK'
  BY <1>1 DEF PcOK, HandOK, locVars
<1>7. RunOK' /\ QueueOK' /\ SqOK'
  BY <1>1 DEF PlaceOK, RunOK, QueueOK, SqOK, queVars, ioVars, locVars, tskVars
<1>8. BatchOK'
  <2>1. m_urc' = m_urc /\ seen' = seen
    BY <1>1 DEF locVars
  <2>2. \A i \in 1 .. Len(m_urc) : Handled + i \in 1 .. Len(cq)
    <3>1. Len(m_urc) \in Nat /\ Handled + Len(m_urc) = seen /\ seen \in Nat /\ seen <= Len(cq)
      BY LenProperties DEF Handled, PlaceOK, BatchOK, TypeOK
    <3>. QED BY <1>2, <1>3, <3>1
  <2>3. \A i \in 1 .. Len(m_urc) : cq'[Handled + i] = cq[Handled + i]
    BY <1>2, <2>2
  <2>. QED BY <1>2, <1>3, <2>1, <2>3 DEF PlaceOK, BatchOK, TypeOK
<1>9. \A i \in Handled' + 1 .. Len(cq') :
        \/ i \in Handled + 1 .. Len(cq) /\ cq'[i] = cq[i] /\ cq'[i] # t
        \/ i = Len(cq) + 1 /\ cq'[i] = t
  <2>1. \A i \in Handled + 1 .. Len(cq) : cq[i] # t
    BY <1>1 DEF PlaceOK, CqOK
  <2>. QED BY <1>2, <1>3, <2>1
<1>10. CqOK'
  <2>1. status' = status /\ sq' = sq
    BY <1>1 DEF tskVars, ioVars
  <2>2. \A i \in Handled' + 1 .. Len(cq') : status'[cq'[i]] = "io" /\ cq'[i] \notin kernel' /\ cq'[i] \notin ToSet(sq')
    BY <1>1, <1>4, <1>9, <2>1 DEF PlaceOK, CqOK
  <2>3. ASSUME NEW i \in Handled' + 1 .. Len(cq'), NEW j \in Handled' + 1 .. Len(cq'), cq'[i] = cq'[j]
        PROVE  i = j
    <3>1. CASE i = Len(cq) + 1 \/ j = Len(cq) + 1
      BY <1>9, <1>2, <2>3, <3>1
    <3>2. CASE i # Len(cq) + 1 /\ j # Len(cq) + 1
      <4>1. /\ i \in Handled + 1 .. Len(cq) /\ cq'[i] = cq[i]
            /\ j \in Handled + 1 .. Len(cq) /\ cq'[j] = cq[j]
        BY <1>9, <3>2
      <4>. QED BY <4>1, <2>3 DEF PlaceOK, CqOK
    <3>. QED BY <3>1, <3>2
  <2>. QED BY <2>2, <2>3 DEF CqOK
<1>11. IoOK'
  <2>1. \A x \in kernel' : status'[x] = "io"
    BY <1>1 DEF PlaceOK, IoOK, tskVars
  <2>2. ASSUME NEW x \in Tasks, status'[x] = "io", x \notin ToSet(sq') \cup kernel'
        PROVE  \E i \in Handled' + 1 .. Len(cq') : cq'[i] = x
    <3>1. CASE x = t
      <4>1. Len(cq) + 1 \in Handled' + 1 .. Len(cq')
        BY <1>2, <1>3
      <4>. QED BY <1>2, <3>1, <4>1
    <3>2. CASE x # t
      <4>1. PICK i \in Handled + 1 .. Len(cq) : cq[i] = x
        BY <1>1, <2>2, <3>2 DEF PlaceOK, IoOK, tskVars, ioVars
      <4>2. i \in Handled' + 1 .. Len(cq') /\ cq'[i] = x
        BY <1>2, <1>3, <4>1
      <4>. QED BY <4>2
    <3>. QED BY <3>1, <3>2
  <2>. QED BY <2>1, <2>2 DEF IoOK
<1>12. CountOK'
  <2>1. IsFiniteSet(kernel') /\ Cardinality(kernel') = Cardinality(kernel) - 1 /\ Cardinality(kernel) \in Nat
    BY <1>1, FS_RemoveElement, FS_CardinalityType DEF CountOK
  <2>. QED BY <1>1, <1>2, <2>1 DEF CountOK, IoAccounting, ioVars, TypeOK
<1>. QED BY <1>5, <1>6, <1>7, <1>8, <1>10, <1>11, <1>12 DEF PlaceOK

-----------------------------------------------------------------------------
(***************************************************************************)
(* The places and the account are an invariant.                            *)
(***************************************************************************)
Moves == \/ \E th \in Thread : \E t \in Tasks : SubmitTask(th, t)
         \/ ExecOneTask \/ AwaitIo \/ Finish
         \/ DoIoSubmit \/ PeekBatch \/ HandleCqe \/ CqAdvance
         \/ \E t \in Tasks : Complete(t)

LEMMA StepCases ==
  ASSUME [Next]_vars
  PROVE  Moves \/ Quiet
BY Threads DEF Next, WorkerStep, Submit, Terminated, Moves, Quiet, StoreOrWake

\* A worker that has left its loop finds nothing new behind it.
LEMMA EndKept ==
  ASSUME EngineInv, [Next]_vars
  PROVE  EndOK'
<1> USE Threads
<1> SUFFICES ASSUME pc'[Worker] = "end"
             PROVE  stop' # "no" /\ m_task_queue' = <<>> /\ sq' = <<>> /\ kernel' = {} /\ cq' = <<>>
  BY DEF EndOK
<1>1. CASE pc[Worker] = "end"
  <2>1. stop # "no" /\ m_task_queue = <<>> /\ sq = <<>> /\ kernel = {} /\ cq = <<>>
    BY <1>1 DEF EngineInv, EndOK
  <2>2. UNCHANGED <<m_task_queue, sq, kernel, cq>>
    <3>1. CASE Moves
      BY <1>1, <2>1, <3>1 DEF Moves, SubmitTask, ExecOneTask, AwaitIo, Finish, DoIoSubmit, PeekBatch, HandleCqe,
         CqAdvance, Complete, Goto
    <3>2. CASE Quiet
      BY <3>2 DEF Quiet, StoreOrWake, Store, WakeUp, Start, AssignJob, RequestStop, StopWake, ProcessWork, WorkDone,
         SqeExhausted, Check, StopCb, WaitEventfd, Signal, queVars, ioVars, kerVars, vars
    <3>. QED BY <3>1, <3>2, StepCases
  <2>3. stop' # "no"
    <3>1. CASE Moves
      BY <1>1, <2>1, <3>1 DEF Moves, SubmitTask, ExecOneTask, AwaitIo, Finish, DoIoSubmit, PeekBatch, HandleCqe,
         CqAdvance, Complete, Goto
    <3>2. CASE Quiet
      BY <1>1, <2>1, <3>2 DEF Quiet, StoreOrWake, Store, WakeUp, Start, AssignJob, RequestStop, StopWake, ProcessWork,
         WorkDone, SqeExhausted, Check, StopCb, WaitEventfd, Signal, Goto, vars
    <3>. QED BY <3>1, <3>2, StepCases
  <2>. QED BY <2>1, <2>2, <2>3
<1>2. CASE pc[Worker] # "end"
  <2>1. Check
    <3>1. ~Moves
      BY <1>2 DEF EngineInv, PcOK, Moves, SubmitTask, ExecOneTask, AwaitIo, Finish, DoIoSubmit, PeekBatch, HandleCqe,
         CqAdvance, Complete, Goto
    <3>2. Quiet => Check
      BY <1>2 DEF EngineInv, PcOK, Quiet, StoreOrWake, Store, WakeUp, Start, AssignJob, RequestStop, StopWake, ProcessWork,
         WorkDone, SqeExhausted, StopCb, WaitEventfd, Signal, Goto, vars
    <3>. QED BY <3>1, <3>2, StepCases
  <2>2. stop # "no" /\ empty_io /\ m_task_queue = <<>>
    BY <1>2, <2>1 DEF Check, Goto, EngineInv, PcOK
  <2>3. Len(sq) = 0 /\ Cardinality(kernel) = 0 /\ Len(cq) = 0
    BY <2>2, FS_CardinalityType, LenProperties DEF empty_io, EngineInv, CountOK, IoAccounting, TypeOK
  <2>4. sq = <<>> /\ kernel = {} /\ cq = <<>>
    BY <2>3, EmptySeq, FS_EmptySet DEF EngineInv, TypeOK, CountOK
  <2>5. UNCHANGED <<stop, m_task_queue, sq, kernel, cq>>
    BY <2>1 DEF Check, queVars, ioVars, kerVars
  <2>. QED BY <2>2, <2>4, <2>5
<1>. QED BY <1>1, <1>2

LEMMA EngineInit ==
  ASSUME Init
  PROVE  EngineInv
<1> USE Threads
<1>1. TypeOK
  <2>1. alone \in BOOLEAN /\ m_job \in BOOLEAN /\ signal \in BOOLEAN
    BY Zenon DEF Init
  <2>2. m_task_queue \in Seq(Tasks) /\ sq \in Seq(Tasks) /\ cq \in Seq(Tasks) /\ m_urc \in Seq(Tasks)
    BY NoElements DEF Init
  <2>3. /\ sub \in [Thread -> Tasks \cup {NoTask}]
        /\ status \in [Tasks -> {"unborn", "queued", "running", "io", "done"}] /\ left \in [Tasks -> 0 .. Ios]
    BY EngineAssumption DEF Init
  <2>. QED BY <2>1, <2>2, <2>3 DEF Init, TypeOK
<1>2. PcOK
  BY DEF Init, PcOK, WorkerPc
<1>3. HandOK /\ EndOK
  BY DEF Init, HandOK, EndOK
<1>4. RunOK /\ QueueOK /\ SqOK
  BY NoElements DEF Init, RunOK, QueueOK, SqOK
<1>5. BatchOK /\ CqOK /\ IoOK
  <2>1. seen = 0 /\ m_urc = <<>> /\ cq = <<>> /\ kernel = {} /\ Len(cq) = 0 /\ Len(m_urc) = 0
    BY NoElements DEF Init
  <2>2. Handled = 0
    <3>1. Handled = seen - Len(m_urc)
      BY DEF Handled
    <3>2. Len(m_urc) = 0 /\ seen = 0
      BY <2>1
    <3>. QED BY <3>1, <3>2
  <2>3. Handled + 1 .. Len(cq) = {} /\ 1 .. Len(m_urc) = {}
    BY <2>1, <2>2
  <2>4. \A t \in Tasks : status[t] # "io"
    BY DEF Init
  <2>. QED BY <2>1, <2>3, <2>4 DEF BatchOK, CqOK, IoOK
<1>6. CountOK
  BY FS_EmptySet, NoElements DEF Init, CountOK, IoAccounting
<1>. QED BY <1>1, <1>2, <1>3, <1>4, <1>5, <1>6 DEF EngineInv, PlaceOK

LEMMA EngineStep ==
  ASSUME EngineInv, [Next]_vars
  PROVE  EngineInv'
<1> USE DEF EngineInv
<1>1. CASE Moves
  <2>1. TypeOK' /\ PcOK' /\ HandOK' /\ PlaceOK' /\ CountOK'
    BY <1>1, SubmitKeeps, ExecKeeps, AwaitKeeps, FinishKeeps, IoSubmitKeeps, PeekKeeps, HandleKeeps, AdvanceKeeps,
       CompleteKeeps DEF Moves
  <2>. QED BY <2>1, EndKept
<1>2. CASE Quiet
  BY <1>2, QuietTypes, QuietPlaces, EndKept
<1>. QED BY <1>1, <1>2, StepCases

\* Types, counters and places of the engine agree in every state.
THEOREM EngineInvariant == Spec => []EngineInv
<1>1. Init => EngineInv
  BY EngineInit
<1>2. EngineInv /\ [Next]_vars => EngineInv'
  BY EngineStep
<1>. QED BY <1>1, <1>2, PTL DEF Spec

\* Every variable has its type: neither of the io counters, size_t in the
\* code, ever wraps below zero.
THEOREM EngineTypes == Spec => []TypeOK
BY EngineInvariant, PTL DEF EngineInv

\* The counters of prepared and of running operations are exact.
THEOREM IoIsCounted == Spec => []IoAccounting
<1>1. EngineInv => IoAccounting
  BY DEF EngineInv, CountOK
<1>. QED BY <1>1, EngineInvariant, PTL

\* Nothing is left behind when the worker leaves context::run.
THEOREM EndsDrained == Spec => []DrainedAtEnd
<1>1. EngineInv => DrainedAtEnd
  <2> SUFFICES ASSUME EngineInv, pc[Worker] = "end" PROVE
                 /\ m_task_queue = <<>> /\ sq = <<>> /\ kernel = {} /\ cq = <<>>
                 /\ \A t \in Tasks : status[t] \in {"unborn", "done"}
    BY DEF DrainedAtEnd
  <2>1. m_task_queue = <<>> /\ sq = <<>> /\ kernel = {} /\ cq = <<>>
    BY DEF EngineInv, EndOK
  <2>2. cur = NoTask
    BY DEF EngineInv, HandOK
  <2>3. ASSUME NEW t \in Tasks PROVE status[t] \in {"unborn", "done"}
    <3>1. status[t] # "queued"
      BY <2>1, NoElements DEF EngineInv, PlaceOK, QueueOK
    <3>2. status[t] # "running"
      BY <2>2, Threads DEF EngineInv, PlaceOK, RunOK
    <3>3. Handled + 1 .. Len(cq) = {}
      <4>1. Handled \in Nat
        BY LenProperties DEF EngineInv, PlaceOK, BatchOK, Handled, TypeOK
      <4>. QED BY <2>1, <4>1, NoElements
    <3>4. status[t] # "io"
      BY <2>1, <3>3, NoElements DEF EngineInv, PlaceOK, IoOK
    <3>. QED BY <3>1, <3>2, <3>4 DEF EngineInv, TypeOK
  <2>. QED BY <2>1, <2>3
<1>. QED BY <1>1, EngineInvariant, PTL

\* A task is in one place only: a handle is queued once, and the operations of
\* the rings and the tasks that wait for one correspond.
THEOREM InOnePlace == Spec => []OnePlace
<1>1. EngineInv => OnePlace
  <2> SUFFICES ASSUME EngineInv PROVE OnePlace
    OBVIOUS
  <2> USE DEF EngineInv, PlaceOK
  <2>1. /\ Handled \in Nat /\ Len(m_urc) \in Nat /\ Len(cq) \in Nat /\ Handled + Len(m_urc) <= Len(cq)
        /\ DOMAIN m_urc = 1 .. Len(m_urc)
    BY LenProperties DEF BatchOK, Handled, TypeOK
  <2>2. \A i \in DOMAIN m_urc : Handled + i \in Handled + 1 .. Len(cq) /\ m_urc[i] = cq[Handled + i]
    BY <2>1 DEF BatchOK
  <2>3. IsInjective(m_urc)
    <3>1. ASSUME NEW i \in DOMAIN m_urc, NEW j \in DOMAIN m_urc, m_urc[i] = m_urc[j] PROVE i = j
      <4>1. Handled + i = Handled + j
        BY <2>2, <3>1 DEF CqOK
      <4>. QED BY <2>1, <4>1
    <3>. QED BY <3>1 DEF IsInjective
  <2>4. \A t \in ToSet(m_urc) : t \in Tasks /\ status[t] = "io" /\ t \notin ToSet(sq)
    <3>1. ASSUME NEW i \in DOMAIN m_urc PROVE m_urc[i] \in Tasks /\ status[m_urc[i]] = "io" /\ m_urc[i] \notin ToSet(sq)
      <4>1. m_urc[i] \in Tasks
        BY <2>1, LenProperties DEF TypeOK
      <4>. QED BY <2>2, <4>1 DEF CqOK
    <3>. QED BY <3>1 DEF ToSet
  <2>5. \A t \in ToSet(sq) : t \in Tasks /\ status[t] = "io"
    BY LenProperties DEF SqOK, ToSet, TypeOK
  <2>6. \A t \in ToSet(m_task_queue) : t \in Tasks /\ status[t] = "queued"
    BY LenProperties DEF QueueOK, ToSet, TypeOK
  <2>7. /\ m_task_queue \o sq \in Seq(Tasks) /\ IsInjective(m_task_queue \o sq)
        /\ ToSet(m_task_queue \o sq) = ToSet(m_task_queue) \cup ToSet(sq)
    <3>1. ToSet(m_task_queue) \cap ToSet(sq) = {}
      BY <2>5, <2>6
    <3>. QED BY <3>1, ConcatSet DEF QueueOK, SqOK, TypeOK
  <2>8. IsInjective(m_task_queue \o sq \o m_urc)
    <3>1. ToSet(m_task_queue \o sq) \cap ToSet(m_urc) = {}
      BY <2>4, <2>6, <2>7
    <3>. QED BY <2>3, <2>7, <3>1, ConcatSet DEF TypeOK
  <2> DEFINE rest == SubSeq(cq, 1 + seen - Len(m_urc), Len(cq))
  <2>9. \A t : t \in ToSet(rest) <=> \E i \in Handled + 1 .. Len(cq) : cq[i] = t
    <3>1. 1 + seen - Len(m_urc) = Handled + 1
      BY <2>1 DEF Handled, TypeOK
    <3>2. \A i \in Handled + 1 .. Len(cq) : cq[i] \in Tasks
      BY <2>1, LenProperties DEF TypeOK
    <3>3. /\ rest \in Seq(Tasks) /\ Len(rest) = Len(cq) - Handled
          /\ \A i \in 1 .. Len(cq) - Handled : rest[i] = cq[Handled + i]
      <4>1. /\ SubSeq(cq, Handled + 1, Len(cq)) \in Seq(Tasks)
            /\ Len(SubSeq(cq, Handled + 1, Len(cq))) = Len(cq) - Handled
            /\ \A i \in 1 .. Len(cq) - Handled : SubSeq(cq, Handled + 1, Len(cq))[i] = cq[Handled + i]
        BY <2>1, <3>2, SubSeqProperties
      <4>2. rest = SubSeq(cq, Handled + 1, Len(cq))
        BY <3>1
      <4>. QED BY <4>1, <4>2
    <3> HIDE DEF rest
    <3>4. DOMAIN rest = 1 .. Len(cq) - Handled
      BY <3>3, LenProperties
    <3>5. ASSUME NEW i \in DOMAIN rest PROVE Handled + i \in Handled + 1 .. Len(cq) /\ rest[i] = cq[Handled + i]
      BY <2>1, <3>3, <3>4
    <3>6. ASSUME NEW i \in Handled + 1 .. Len(cq) PROVE i - Handled \in DOMAIN rest /\ rest[i - Handled] = cq[i]
      <4>1. i - Handled \in 1 .. Len(cq) - Handled /\ Handled + (i - Handled) = i
        BY <2>1
      <4>. QED BY <3>3, <3>4, <4>1
    <3>. QED BY <3>5, <3>6 DEF ToSet
  <2> HIDE DEF rest
  <2>10. \A t \in Tasks : status[t] = "io" <=> t \in ToSet(sq) \cup kernel \cup ToSet(rest)
    BY <2>9 DEF SqOK, CqOK, IoOK
  <2>. QED BY <2>8, <2>10 DEF OnePlace, rest
<1>. QED BY <1>1, EngineInvariant, PTL

-----------------------------------------------------------------------------
(***************************************************************************)
(* No wake-up is lost.                                                     *)
(***************************************************************************)

\* A multiple of f that lies between -f and f is zero.
LEMMA SmallMultiple ==
  ASSUME NEW f \in Nat \ {0}, NEW d \in Int, f * d < f, f * d > -f
  PROVE  d = 0
<1>1. CASE d >= 1
  <2>1. f * d = f + f * (d - 1) /\ f * (d - 1) >= 0
    <3>1. \A a, b \in Nat : a * b >= 0
      OBVIOUS
    <3>2. d - 1 \in Nat /\ f \in Nat
      BY <1>1
    <3>3. f * (d - 1) >= 0
      BY <3>1, <3>2
    <3>. QED BY <3>3
  <2>. QED BY <2>1
<1>2. CASE d <= -1
  <2>1. f * d = -f - f * (-1 - d) /\ f * (-1 - d) >= 0
    <3>1. \A a, b \in Nat : a * b >= 0
      OBVIOUS
    <3>2. -1 - d \in Nat /\ f \in Nat
      BY <1>2
    <3>3. f * (-1 - d) >= 0
      BY <3>1, <3>2
    <3>. QED BY <3>3
  <2>. QED BY <2>1
<1>. QED BY <1>1, <1>2

\* The remainder is the only one.
LEMMA ModUnique ==
  ASSUME NEW f \in Nat \ {0}, NEW v \in Int, NEW q \in Int, NEW r \in 0 .. f - 1, v = f * q + r
  PROVE  v % f = r
<1> DEFINE p == v \div f
           s == v % f
<1>1. p \in Int /\ s \in 0 .. f - 1
  OBVIOUS
<1>2. v = f * p + s
  OBVIOUS
<1> HIDE DEF p, s
<1>3. f * (p - q) = r - s
  <2>1. f * p - f * q = r - s
    BY <1>1, <1>2
  <2>2. f * (p - q) = f * p - f * q
    BY <1>1
  <2>. QED BY <2>1, <2>2
<1>4. p - q = 0
  <2>1. r - s < f /\ r - s > -f
    BY <1>1
  <2>. QED BY <1>1, <1>3, <2>1, SmallMultiple
<1>5. f * p = f * q
  BY <1>1, <1>4
<1>. QED BY <1>1, <1>2, <1>5 DEF s

\* Counting in the low field.
LEMMA LowField ==
  ASSUME NEW v \in Nat, NEW f \in Nat \ {0}, NEW k \in Int
  PROVE  /\ v % f \in Nat /\ v % f < f
         /\ 0 % f = 0
         /\ (v + f * k) % f = v % f
         /\ (v % f) + 1 < f => (v + 1) % f = (v % f) + 1
<1>1. v % f \in 0 .. f - 1 /\ v \div f \in Int /\ v = f * (v \div f) + (v % f)
  OBVIOUS
<1> DEFINE q == v \div f
           r == v % f
<1> HIDE DEF q, r
<1>2. r \in 0 .. f - 1 /\ q \in Int /\ v = f * q + r
  BY <1>1 DEF q, r
<1>3. 0 % f = 0
  <2>1. 0 \in 0 .. f - 1 /\ 0 = f * 0 + 0
    OBVIOUS
  <2>. QED BY <2>1, ModUnique
<1>4. (v + f * k) % f = r
  <2>1. v + f * k = f * (q + k) + r
    <3>1. f * (q + k) = f * q + f * k
      BY <1>2
    <3>. QED BY <1>2, <3>1
  <2>2. v + f * k \in Int /\ q + k \in Int
    BY <1>2
  <2>. QED BY <1>2, <2>1, <2>2, ModUnique
<1>5. r + 1 < f => (v + 1) % f = r + 1
  <2> SUFFICES ASSUME r + 1 < f PROVE (v + 1) % f = r + 1
    OBVIOUS
  <2>1. r + 1 \in 0 .. f - 1 /\ v + 1 = f * q + (r + 1) /\ v + 1 \in Int
    BY <1>2
  <2>. QED BY <1>2, <2>1, ModUnique
<1>. QED BY <1>2, <1>3, <1>4, <1>5 DEF r

\* The eventfd's low field counts completions and the stop, and is not
\* disturbed by the tasks.
LEMMA FieldCounts ==
  ASSUME EngineInv, LowOK
  PROVE  /\ eventfd \in Nat /\ eventfd % io_flag \in Nat /\ 0 % io_flag = 0
         /\ Cardinality(Tasks) \in Nat /\ Cardinality(kernel) \in Nat /\ Cardinality(kernel) <= Cardinality(Tasks)
         /\ SignalDue \in Nat /\ StopDue \in Nat /\ Spare \in Nat /\ Spare <= Cardinality(Tasks)
         /\ (eventfd + task_flag) % io_flag = eventfd % io_flag
         /\ signal \/ stop = "requested" => (eventfd + 1) % io_flag = (eventfd % io_flag) + 1
<1>1. eventfd \in Nat /\ io_flag \in Nat \ {0} /\ task_flag \in Nat \ {0}
  BY EngineAssumption DEF EngineInv, TypeOK
<1>2. eventfd % io_flag \in Nat /\ 0 % io_flag = 0
  BY <1>1, LowField
<1>3. (eventfd + task_flag) % io_flag = eventfd % io_flag
  <2>1. PICK k \in Int : task_flag = io_flag * k
    BY <1>1, EngineAssumption
  <2>. QED BY <1>1, <2>1, LowField
<1>4. Cardinality(Tasks) \in Nat /\ Cardinality(kernel) \in Nat /\ Cardinality(kernel) <= Cardinality(Tasks)
  BY FieldAssumption, FS_Subset, FS_CardinalityType DEF EngineInv, TypeOK
<1>5. SignalDue \in Nat /\ StopDue \in Nat /\ Spare \in Nat /\ Spare <= Cardinality(Tasks)
  BY <1>4 DEF SignalDue, StopDue, Spare
<1>6. ASSUME signal \/ stop = "requested" PROVE (eventfd + 1) % io_flag = (eventfd % io_flag) + 1
  <2>1. SignalDue + StopDue >= 1
    BY <1>6 DEF SignalDue, StopDue
  <2>2. (eventfd % io_flag) + 1 <= 2 * Cardinality(Tasks) + 2
    BY <1>2, <1>4, <1>5, <2>1 DEF LowOK
  <2>3. (eventfd % io_flag) + 1 < io_flag
    BY <1>1, <1>2, <1>4, <2>2, FieldAssumption
  <2>4. \A k \in Int : (eventfd % io_flag) + 1 < io_flag => (eventfd + 1) % io_flag = (eventfd % io_flag) + 1
    BY <1>1, LowField
  <2>5. 0 \in Int
    OBVIOUS
  <2>. QED BY <2>3, <2>4, <2>5
<1>. QED BY <1>1, <1>2, <1>3, <1>4, <1>5, <1>6

\* Between two reads of the eventfd the kernel signals at most what it has.
LEMMA LowKept ==
  ASSUME EngineInv, LowOK, [Next]_vars
  PROVE  LowOK'
<1> USE Threads
<1> USE DEF queVars, ioVars, kerVars, locVars, tskVars, ctxVars
<1>0. /\ eventfd \in Nat /\ eventfd % io_flag \in Nat /\ 0 % io_flag = 0
      /\ Cardinality(Tasks) \in Nat /\ Cardinality(kernel) \in Nat /\ Cardinality(kernel) <= Cardinality(Tasks)
      /\ SignalDue \in Nat /\ StopDue \in Nat /\ Spare \in Nat /\ Spare <= Cardinality(Tasks)
  BY FieldCounts
<1>1. ASSUME UNCHANGED <<eventfd, kernel, signal, stop>>, pc[Worker] = "wait" => pc'[Worker] = "wait"
      PROVE  LowOK'
  <2>1. Spare' >= Spare /\ Spare' \in Nat
    BY <1>0, <1>1 DEF Spare
  <2>2. SignalDue' = SignalDue /\ StopDue' = StopDue
    BY <1>1 DEF SignalDue, StopDue
  <2>. QED BY <1>0, <1>1, <2>1, <2>2 DEF LowOK
<1>2. CASE Moves
  <2>1. CASE \E th \in Thread : \E t \in Tasks : SubmitTask(th, t)
    BY <1>1, <2>1 DEF SubmitTask, Goto, EngineInv, PcOK
  <2>2. CASE ExecOneTask \/ AwaitIo \/ Finish
    BY <1>1, <2>2 DEF ExecOneTask, AwaitIo, Finish, Goto, EngineInv, PcOK
  <2>3. CASE PeekBatch \/ HandleCqe \/ CqAdvance
    BY <1>1, <2>3 DEF PeekBatch, HandleCqe, CqAdvance, Goto, EngineInv, PcOK
  <2>4. CASE DoIoSubmit
    <3>1. pc[Worker] = "submit" /\ pc'[Worker] = "wait" /\ UNCHANGED <<eventfd, signal, stop>>
      BY <2>4 DEF DoIoSubmit, Goto, EngineInv, PcOK
    <3>2. Spare = 0 /\ Spare' = Cardinality(Tasks) /\ SignalDue' = SignalDue /\ StopDue' = StopDue
      BY <3>1 DEF Spare, SignalDue, StopDue
    <3>3. Cardinality(kernel') \in Nat /\ Cardinality(kernel') <= Cardinality(Tasks)
      <4>1. TypeOK' /\ CountOK'
        BY EngineStep DEF EngineInv
      <4>. QED BY <4>1, FieldAssumption, FS_Subset, FS_CardinalityType DEF TypeOK, CountOK
    <3>. QED BY <1>0, <3>1, <3>2, <3>3 DEF LowOK
  <2>5. ASSUME NEW t \in Tasks, Complete(t) PROVE LowOK'
    <3>1. t \in kernel /\ kernel' = kernel \ {t} /\ signal' = TRUE /\ UNCHANGED <<eventfd, stop, pc>>
      BY <2>5 DEF Complete
    <3>2. Cardinality(kernel') = Cardinality(kernel) - 1
      BY <3>1, FS_RemoveElement DEF EngineInv, CountOK
    <3>3. Spare' = Spare /\ StopDue' = StopDue /\ SignalDue' = 1
      BY <3>1 DEF Spare, SignalDue, StopDue
    <3>. QED BY <1>0, <3>1, <3>2, <3>3 DEF LowOK
  <2>. QED BY <1>2, <2>1, <2>2, <2>3, <2>4, <2>5 DEF Moves
<1>3. CASE Quiet
  <2>1. ASSUME NEW th \in Thread, Store(th) PROVE LowOK'
    BY <1>1, <2>1 DEF Store, Goto, EngineInv, PcOK
  <2>2. ASSUME NEW th \in Thread, WakeUp(th) PROVE LowOK'
    <3>1. UNCHANGED <<kernel, signal, stop>> /\ eventfd' = eventfd + task_flag
      BY <2>2 DEF WakeUp
    <3>2. pc[Worker] = "wait" => pc'[Worker] = "wait"
      BY <2>2 DEF WakeUp, Goto, EngineInv, PcOK
    <3>3. Spare' >= Spare /\ Spare' \in Nat /\ SignalDue' = SignalDue /\ StopDue' = StopDue
      BY <1>0, <3>1, <3>2 DEF Spare, SignalDue, StopDue
    <3>4. eventfd' % io_flag = eventfd % io_flag
      BY <3>1, FieldCounts
    <3>. QED BY <1>0, <3>1, <3>3, <3>4 DEF LowOK
  <2>3. CASE Start \/ AssignJob \/ ProcessWork \/ WorkDone \/ SqeExhausted \/ Check
    BY <1>1, <2>3 DEF Start, AssignJob, ProcessWork, WorkDone, SqeExhausted, Check, Goto, EngineInv, PcOK
  <2>4. CASE UNCHANGED vars
    BY <1>1, <2>4 DEF vars
  <2>5. CASE RequestStop \/ StopCb
    <3>1. UNCHANGED <<eventfd, kernel, signal>> /\ (stop = "sent" => stop' = "sent")
      BY <2>5 DEF RequestStop, StopCb
    <3>2. pc[Worker] = "wait" => pc'[Worker] = "wait"
      BY <2>5 DEF RequestStop, StopCb, Goto, EngineInv, PcOK
    <3>3. Spare' >= Spare /\ Spare' \in Nat /\ SignalDue' = SignalDue /\ StopDue' <= StopDue /\ StopDue' \in Nat
      BY <1>0, <3>1, <3>2 DEF Spare, SignalDue, StopDue
    <3>. QED BY <1>0, <3>1, <3>3 DEF LowOK
  <2>6. CASE StopWake
    <3>1. UNCHANGED <<kernel, signal, pc>> /\ stop = "requested" /\ stop' = "sent" /\ eventfd' = eventfd + 1
      BY <2>6 DEF StopWake
    <3>2. Spare' = Spare /\ SignalDue' = SignalDue /\ StopDue' = 0 /\ StopDue = 1
      BY <3>1 DEF Spare, SignalDue, StopDue
    <3>3. eventfd' % io_flag = (eventfd % io_flag) + 1
      BY <3>1, FieldCounts
    <3>. QED BY <1>0, <3>1, <3>2, <3>3 DEF LowOK
  <2>7. CASE Signal
    <3>1. UNCHANGED <<kernel, stop, pc>> /\ signal /\ signal' = FALSE /\ eventfd' = eventfd + 1
      BY <2>7 DEF Signal
    <3>2. Spare' = Spare /\ SignalDue' = 0 /\ SignalDue = 1 /\ StopDue' = StopDue
      BY <3>1 DEF Spare, SignalDue, StopDue
    <3>3. eventfd' % io_flag = (eventfd % io_flag) + 1
      BY <3>1, FieldCounts
    <3>. QED BY <1>0, <3>1, <3>2, <3>3 DEF LowOK
  <2>8. CASE WaitEventfd
    <3>1. UNCHANGED <<kernel, signal, stop>> /\ eventfd' = 0 /\ eventfd' % io_flag = 0
      BY <1>0, <2>8 DEF WaitEventfd
    <3>2. SignalDue' <= 1 /\ SignalDue' \in Nat /\ StopDue' <= 1 /\ StopDue' \in Nat /\ Spare' \in Nat
      BY <1>0 DEF SignalDue, StopDue, Spare
    <3>. QED BY <1>0, <3>1, <3>2 DEF LowOK
  <2>. QED BY <1>3, <2>1, <2>2, <2>3, <2>4, <2>5, <2>6, <2>7, <2>8 DEF Quiet, StoreOrWake
<1>. QED BY <1>2, <1>3, StepCases

\* A completion is signalled, or fetched.
LEMMA CqeWakeKept ==
  ASSUME EngineInv, LowOK, CqeWakeOK, [Next]_vars
  PROVE  CqeWakeOK'
<1> USE Threads
<1> USE DEF queVars, ioVars, kerVars, locVars, tskVars, ctxVars
<1>0. /\ eventfd \in Nat /\ eventfd % io_flag \in Nat
      /\ (eventfd + task_flag) % io_flag = eventfd % io_flag
      /\ signal \/ stop = "requested" => (eventfd + 1) % io_flag = (eventfd % io_flag) + 1
  BY FieldCounts
<1>1. ASSUME UNCHANGED <<cq, signal, seen>>, WakeByCqe(eventfd) => WakeByCqe(eventfd'),
             pc[Worker] = "peek" => pc'[Worker] = "peek"
      PROVE  CqeWakeOK'
  BY <1>1 DEF CqeWakeOK
<1>2. CASE Moves
  <2>1. CASE \E th \in Thread : \E t \in Tasks : SubmitTask(th, t)
    BY <1>1, <2>1 DEF SubmitTask, Goto, EngineInv, PcOK
  <2>2. CASE ExecOneTask \/ AwaitIo \/ Finish \/ DoIoSubmit \/ HandleCqe
    BY <1>1, <2>2 DEF ExecOneTask, AwaitIo, Finish, DoIoSubmit, HandleCqe, Goto, EngineInv, PcOK
  <2>3. CASE PeekBatch
    <3>1. seen' = Len(cq) /\ cq' = cq
      BY <2>3, PeekTakesAll DEF EngineInv, PeekBatch
    <3>. QED BY <3>1 DEF CqeWakeOK
  <2>4. CASE CqAdvance
    <3>1. /\ pc[Worker] = "cqe" /\ UNCHANGED <<signal, eventfd>>
          /\ cq' = SubSeq(cq, seen + 1, Len(cq))
      BY <2>4 DEF CqAdvance, Goto
    <3>2. seen \in Nat /\ Len(cq) \in Nat /\ seen <= Len(cq)
      BY LenProperties DEF EngineInv, PlaceOK, BatchOK, TypeOK
    <3>3. CASE seen = Len(cq)
      <4>1. cq' = <<>>
        BY <3>1, <3>2, <3>3, SubSeqEmpty
      <4>. QED BY <4>1 DEF CqeWakeOK
    <3>4. CASE seen # Len(cq)
      <4>1. cq # <<>>
        BY <3>2, <3>4, NoElements
      <4>. QED BY <3>1, <3>4, <4>1 DEF CqeWakeOK
    <3>. QED BY <3>3, <3>4
  <2>5. ASSUME NEW t \in Tasks, Complete(t) PROVE CqeWakeOK'
    BY <2>5 DEF Complete, CqeWakeOK
  <2>. QED BY <1>2, <2>1, <2>2, <2>3, <2>4, <2>5 DEF Moves
<1>3. CASE Quiet
  <2>1. ASSUME NEW th \in Thread, Store(th) PROVE CqeWakeOK'
    BY <1>1, <2>1 DEF Store, Goto, EngineInv, PcOK
  <2>2. ASSUME NEW th \in Thread, WakeUp(th) PROVE CqeWakeOK'
    <3>1. UNCHANGED <<cq, signal, seen>> /\ eventfd' = eventfd + task_flag
      BY <2>2 DEF WakeUp
    <3>2. pc[Worker] = "peek" => pc'[Worker] = "peek"
      BY <2>2 DEF WakeUp, Goto, EngineInv, PcOK
    <3>3. WakeByCqe(eventfd) => WakeByCqe(eventfd')
      BY <1>0, <3>1 DEF WakeByCqe
    <3>. QED BY <1>1, <3>1, <3>2, <3>3
  <2>3. CASE Start \/ AssignJob \/ ProcessWork \/ WorkDone \/ SqeExhausted \/ Check \/ RequestStop \/ StopCb
    BY <1>1, <2>3 DEF Start, AssignJob, ProcessWork, WorkDone, SqeExhausted, Check, RequestStop, StopCb, Goto,
       EngineInv, PcOK
  <2>4. CASE UNCHANGED vars
    BY <1>1, <2>4 DEF vars
  <2>5. CASE StopWake \/ Signal
    <3>1. eventfd' = eventfd + 1 /\ (signal \/ stop = "requested")
      BY <2>5 DEF StopWake, Signal
    <3>2. WakeByCqe(eventfd')
      BY <1>0, <3>1 DEF WakeByCqe
    <3>. QED BY <3>2 DEF CqeWakeOK
  <2>6. CASE WaitEventfd
    <3>1. UNCHANGED <<cq, signal, seen>> /\ pc[Worker] = "wait"
      BY <2>6 DEF WaitEventfd, Goto
    <3>2. pc'[Worker] = IF WakeByCqe(eventfd) THEN "peek" ELSE "work"
      BY <2>6 DEF WaitEventfd, Goto, EngineInv, PcOK
    <3>. QED BY <3>1, <3>2 DEF CqeWakeOK
  <2>. QED BY <1>3, <2>1, <2>2, <2>3, <2>4, <2>5, <2>6 DEF Quiet, StoreOrWake
<1>. QED BY <1>2, <1>3, StepCases

\* A task is counted by the worker, or its submitter writes.
LEMMA TaskWakeKept ==
  ASSUME EngineInv, TaskWakeOK, [Next]_vars
  PROVE  TaskWakeOK'
<1> USE Threads
<1> USE DEF queVars, ioVars, kerVars, locVars, tskVars, ctxVars
<1>0. eventfd \in Nat /\ task_flag \in Nat \ {0} /\ Len(m_task_queue) \in Nat /\ num \in Nat
  BY EngineAssumption, LenProperties DEF EngineInv, TypeOK
<1>1. ASSUME Called' PROVE TaskWakeOK'
  BY <1>1 DEF TaskWakeOK
<1>2. ASSUME pc'[Worker] \notin {"exec", "task", "check", "stop_cb", "submit", "wait"} PROVE TaskWakeOK'
  BY <1>2 DEF TaskWakeOK
<1>3. ASSUME UNCHANGED <<eventfd, m_task_queue, num>>, \A r \in Remote : pc'[r] = pc[r],
             \/ pc'[Worker] = pc[Worker]
             \/ pc[Worker] \in {"exec", "task"} /\ pc'[Worker] \in {"exec", "task"}
             \/ /\ pc[Worker] \in {"check", "stop_cb", "submit", "wait"}
                /\ pc'[Worker] \in {"check", "stop_cb", "submit", "wait"}
      PROVE  TaskWakeOK'
  <2>1. Called => Called'
    BY <1>3 DEF Called
  <2>. QED BY <1>3, <2>1 DEF TaskWakeOK
<1>4. CASE Moves
  <2>1. ASSUME NEW th \in Thread, NEW t \in Tasks, SubmitTask(th, t) PROVE TaskWakeOK'
    <3>1. pc'[th] = "store"
      BY <2>1 DEF SubmitTask, Goto, EngineInv, PcOK
    <3>2. CASE th = Worker
      BY <1>2, <3>1, <3>2
    <3>3. CASE th # Worker
      BY <1>1, <3>1, <3>3 DEF Called
    <3>. QED BY <3>2, <3>3
  <2>2. CASE ExecOneTask
    <3>1. /\ pc[Worker] = "exec" /\ pc'[Worker] = "task" /\ \A r \in Remote : pc'[r] = pc[r]
          /\ eventfd' = eventfd /\ num' = num - 1 /\ num > 0
      BY <2>2 DEF ExecOneTask, Goto, EngineInv, PcOK
    <3>2. Len(m_task_queue') = Len(m_task_queue) - 1
      BY <2>2, HeadTailProperties, EmptySeq DEF ExecOneTask, EngineInv, TypeOK
    <3>3. Called => Called'
      BY <3>1 DEF Called
    <3>. QED BY <1>0, <3>1, <3>2, <3>3 DEF TaskWakeOK
  <2>3. CASE AwaitIo \/ Finish \/ DoIoSubmit
    BY <1>3, <2>3 DEF AwaitIo, Finish, DoIoSubmit, Goto, EngineInv, PcOK
  <2>4. CASE PeekBatch \/ HandleCqe \/ CqAdvance
    BY <1>2, <2>4 DEF PeekBatch, HandleCqe, CqAdvance, Goto, EngineInv, PcOK
  <2>5. ASSUME NEW t \in Tasks, Complete(t) PROVE TaskWakeOK'
    BY <1>3, <2>5 DEF Complete
  <2>. QED BY <1>4, <2>1, <2>2, <2>3, <2>4, <2>5 DEF Moves
<1>5. CASE Quiet
  <2>1. ASSUME NEW th \in Thread, Store(th) PROVE TaskWakeOK'
    <3>1. pc'[th] = "wake"
      BY <2>1 DEF Store, Goto, EngineInv, PcOK
    <3>2. CASE th = Worker
      BY <1>2, <3>1, <3>2
    <3>3. CASE th # Worker
      BY <1>1, <3>1, <3>3 DEF Called
    <3>. QED BY <3>2, <3>3
  <2>2. ASSUME NEW th \in Thread, WakeUp(th) PROVE TaskWakeOK'
    BY <1>0, <1>1, <2>2 DEF WakeUp, Called
  <2>3. CASE StopWake \/ Signal
    BY <1>0, <1>1, <2>3 DEF StopWake, Signal, Called
  <2>4. CASE Start \/ SqeExhausted \/ WaitEventfd
    BY <1>2, <2>4 DEF Start, SqeExhausted, WaitEventfd, Goto, EngineInv, PcOK
  <2>5. CASE AssignJob \/ RequestStop \/ UNCHANGED vars
    BY <1>3, <2>5 DEF AssignJob, RequestStop, vars
  <2>6. CASE ProcessWork
    <3>1. pc'[Worker] = "exec" /\ num' = Len(m_task_queue) /\ m_task_queue' = m_task_queue
      BY <2>6 DEF ProcessWork, Goto, EngineInv, PcOK
    <3>. QED BY <1>0, <3>1 DEF TaskWakeOK
  <2>7. CASE WorkDone
    <3>1. /\ pc[Worker] = "exec" /\ pc'[Worker] = "check" /\ \A r \in Remote : pc'[r] = pc[r]
          /\ eventfd' = eventfd /\ num = 0 /\ m_task_queue' = m_task_queue
      BY <2>7 DEF WorkDone, Goto, EngineInv, PcOK
    <3>2. Len(m_task_queue) = 0 => m_task_queue = <<>>
      BY EmptySeq DEF EngineInv, TypeOK
    <3>3. Called => Called'
      BY <3>1 DEF Called
    <3>. QED BY <1>0, <3>1, <3>2, <3>3 DEF TaskWakeOK
  <2>8. CASE Check \/ StopCb
    <3>1. /\ pc[Worker] \in {"check", "stop_cb"} /\ pc'[Worker] \in {"work", "end", "dead", "stop_cb", "submit"}
          /\ UNCHANGED <<eventfd, m_task_queue, num>>
      BY <2>8 DEF Check, StopCb, Goto, EngineInv, PcOK
    <3>2. pc'[Worker] \in {"stop_cb", "submit"} => \A r \in Remote : pc'[r] = pc[r]
      BY <2>8 DEF Check, StopCb, Goto, EngineInv, PcOK
    <3>. QED BY <1>2, <1>3, <3>1, <3>2
  <2>. QED BY <1>5, <2>1, <2>2, <2>3, <2>4, <2>5, <2>6, <2>7, <2>8 DEF Quiet, StoreOrWake
<1>. QED BY <1>4, <1>5, StepCases

\* What the eventfd holds, and who is about to write it, covers the work that
\* the worker has not seen.
THEOREM WakeInvariant == Spec => []WakeInv
<1>1. Init => WakeInv
  <2> SUFFICES ASSUME Init PROVE WakeInv
    OBVIOUS
  <2>1. EngineInv
    BY EngineInit
  <2>2. TaskWakeOK /\ CqeWakeOK
    BY Threads DEF Init, TaskWakeOK, CqeWakeOK
  <2>3. LowOK
    <3>1. SignalDue = 0 /\ StopDue = 1 /\ Spare = 0 /\ eventfd = 0 /\ Cardinality(kernel) = 0
      BY Threads, FS_EmptySet DEF Init, SignalDue, StopDue, Spare
    <3>2. 0 % io_flag = 0 /\ Cardinality(Tasks) \in Nat
      BY EngineAssumption, FieldAssumption, FS_CardinalityType
    <3>. QED BY <3>1, <3>2 DEF LowOK
  <2>. QED BY <2>1, <2>2, <2>3 DEF WakeInv
<1>2. WakeInv /\ [Next]_vars => WakeInv'
  BY EngineStep, LowKept, CqeWakeKept, TaskWakeKept DEF WakeInv
<1>. QED BY <1>1, <1>2, PTL DEF Spec

\* A worker that sleeps with work to do is about to be woken.
THEOREM NoSleep == Spec => []NoSleepOnWork
<1>1. WakeInv => NoSleepOnWork
  <2> SUFFICES ASSUME WakeInv, pc[Worker] = "wait", eventfd = 0
               PROVE  /\ cq # <<>> => signal
                      /\ m_task_queue # <<>> => \E r \in Remote : pc[r] \in {"store", "wake"}
    BY DEF NoSleepOnWork
  <2>1. m_task_queue # <<>> => \E r \in Remote : pc[r] \in {"store", "wake"}
    BY DEF WakeInv, TaskWakeOK, Called
  <2>2. ~WakeByCqe(eventfd)
    BY EngineAssumption DEF WakeByCqe
  <2>3. seen = 0
    BY DEF WakeInv, EngineInv, HandOK, TypeOK
  <2>4. cq # <<>> => Len(cq) # 0
    BY EmptySeq DEF WakeInv, EngineInv, TypeOK
  <2>5. cq # <<>> => signal
    BY <2>2, <2>3, <2>4 DEF WakeInv, CqeWakeOK
  <2>. QED BY <2>1, <2>5
<1>. QED BY <1>1, WakeInvariant, PTL

-----------------------------------------------------------------------------
(***************************************************************************)
(* Timers.                                                                 *)
(***************************************************************************)

\* Nothing has happened to the request of this coroutine.
Fresh(t) == remain[t] = 0 /\ waited[t] = 0 /\ t \notin hit /\ result[t] = "none"

\* The kernel holds the request: it has what the timer had when it was awaited.
Ticking(t) == IF Valid(asked[t]) THEN remain[t] >= 0 /\ remain[t] + waited[t] = Duration(asked[t])
                                 ELSE remain[t] = Invalid

\* The kernel has completed the request, and the callback has seen the result.
Fired(t) == \/ result[t] = "EINVAL" /\ ~Valid(asked[t])
            \/ result[t] = "ETIME" /\ Valid(asked[t]) /\ Elapsed(t)
            \/ result[t] = "ok" /\ Valid(asked[t]) /\ t \in hit
Answered(t) == \/ result[t] = "EINVAL" /\ ~Valid(asked[t])
               \/ result[t] = "ok" /\ Valid(asked[t]) /\ (Elapsed(t) \/ t \in hit)

Timespec == [sec : Int, nsec : Int]
TimerTypes == /\ tm \in Timespec /\ m_ts \in [TimerTasks -> Timespec] /\ asked \in [TimerTasks -> Timespec]
              /\ remain \in [TimerTasks -> Int] /\ waited \in [TimerTasks -> Nat]
              /\ hit \subseteq TimerTasks
              /\ result \in [TimerTasks -> {"none", "EINVAL", "ETIME", "ok"}]

\* Where the request of a timer's task is, and what is known of it there.
Request(t) == /\ status[t] = "unborn" => left[t] = 1
              /\ status[t] = "io" => left[t] = 0
              /\ status[t] # "io" /\ ~Resumes(t) => Fresh(t)
              /\ t \in ToSet(sq) => Fresh(t) /\ m_ts[t] = asked[t]
              /\ t \in kernel => Ticking(t) /\ result[t] = "none"
              /\ status[t] = "io" /\ t \notin ToSet(sq) \cup kernel => Fired(t)
              /\ Resumes(t) => Answered(t)
RequestInv == TimerTypes /\ \A t \in TimerTasks : Request(t)

-----------------------------------------------------------------------------
(***************************************************************************)
(* The engine below the timers.                                            *)
(***************************************************************************)

\* A step with timers is a step of the engine, or leaves it alone.
LEMMA TimerStepIsEngineStep ==
  ASSUME [TimerNext]_allVars
  PROVE  [Next]_vars
<1>1. CASE EngineOnly
  BY <1>1, Threads DEF EngineOnly, Next, WorkerStep
<1>2. CASE AwaitTimer \/ AwaitOther \/ SubmitTimers \/ TimerCallback \/ Resume
  BY <1>2 DEF AwaitTimer, AwaitOther, SubmitTimers, TimerCallback, Resume, Next, WorkerStep
<1>3. ASSUME NEW t \in Tasks, TimerFires(t) \/ OtherCompletes(t) PROVE [Next]_vars
  BY <1>3 DEF TimerFires, OtherCompletes, Next
<1>4. CASE Tick
  BY <1>4 DEF Tick
<1>5. CASE UNCHANGED allVars
  BY <1>5 DEF allVars
<1>. QED BY <1>1, <1>2, <1>3, <1>4, <1>5 DEF TimerNext

\* An engine with timers implements the engine.
THEOREM TimersOnEngine == TimerSpec => Spec
<1>1. TimerInit => Init
  BY DEF TimerInit
<1>2. [TimerNext]_allVars => [Next]_vars
  BY TimerStepIsEngineStep
<1>. QED BY <1>1, <1>2, PTL DEF TimerSpec, Spec

\* With timers too the io counters are exact, no wake-up is lost, the worker
\* leaves nothing behind and a task is in one place only.
THEOREM TimersKeepEngine == TimerSpec => [](IoAccounting /\ NoSleepOnWork /\ DrainedAtEnd /\ OnePlace)
BY TimersOnEngine, IoIsCounted, NoSleep, EndsDrained, InOnePlace, PTL

-----------------------------------------------------------------------------
(***************************************************************************)
(* The requests.                                                           *)
(***************************************************************************)

\* A valid time is a number of ticks.
LEMMA DurationNat ==
  ASSUME NEW ts \in Timespec
  PROVE  /\ Duration(ts) \in Int /\ Valid(ts) \in BOOLEAN
         /\ Valid(ts) => Duration(ts) \in Nat
<1>1. ts.sec \in Int /\ ts.nsec \in Int /\ TicksPerSec \in Nat
  BY TimerAssumption DEF Timespec
<1>2. \A a, b \in Nat : a * b \in Nat
  OBVIOUS
<1>3. \A a, b \in Int : a * b \in Int
  OBVIOUS
<1>. QED BY <1>1, <1>2, <1>3 DEF Duration, Valid

\* A step that does not touch the requests and at most submits a new task or
\* finishes a running one.
LEMMA RequestsLeftAlone ==
  ASSUME RequestInv, EngineInv, UNCHANGED timerVars, UNCHANGED <<left, sq, kernel>>,
         \A t \in TimerTasks : \/ status'[t] = status[t]
                               \/ status[t] = "unborn" /\ status'[t] = "queued"
                               \/ status[t] = "running" /\ status'[t] = "done"
  PROVE  RequestInv'
<1>1. TimerTypes'
  BY DEF RequestInv, TimerTypes, timerVars
<1>2. ASSUME NEW t \in TimerTasks PROVE Request(t)'
  <2>1. /\ Request(t) /\ (Fresh(t)' <=> Fresh(t)) /\ (Ticking(t)' <=> Ticking(t))
        /\ (Fired(t)' <=> Fired(t)) /\ (Answered(t)' <=> Answered(t))
    BY DEF RequestInv, timerVars, Fresh, Ticking, Fired, Answered, Elapsed
  <2>2. UNCHANGED <<left, sq, kernel, m_ts, asked, result>>
    BY DEF timerVars
  <2>3. CASE status'[t] = status[t]
    <3>1. Resumes(t)' <=> Resumes(t)
      BY <2>2, <2>3 DEF Resumes
    <3>. QED BY <2>1, <2>2, <2>3, <3>1 DEF Request
  <2>4. CASE status[t] = "unborn" /\ status'[t] = "queued"
    <3>1. ~Resumes(t) /\ ~Resumes(t)' /\ Fresh(t) /\ t \notin ToSet(sq) /\ t \notin kernel
      BY <2>1, <2>2, <2>4 DEF Resumes, Request, EngineInv, PlaceOK, SqOK, IoOK
    <3>. QED BY <2>1, <2>2, <2>4, <3>1 DEF Request
  <2>5. CASE status[t] = "running" /\ status'[t] = "done"
    <3>1. ~Resumes(t) /\ ~Resumes(t)' /\ Fresh(t) /\ t \notin ToSet(sq) /\ t \notin kernel
      BY <2>1, <2>2, <2>5 DEF Resumes, Request, EngineInv, PlaceOK, SqOK, IoOK
    <3>. QED BY <2>1, <2>2, <2>5, <3>1 DEF Request
  <2>. QED BY <2>3, <2>4, <2>5
<1>. QED BY <1>1, <1>2 DEF RequestInv

LEMMA EngineOnlyKeeps ==
  ASSUME RequestInv, EngineInv, EngineOnly
  PROVE  RequestInv'
<1> USE DEF queVars, ioVars, kerVars, locVars, tskVars, ctxVars
<1>1. TimerTasks \subseteq Tasks
  BY TimerAssumption
<1>2. ASSUME NEW th \in Thread, Submit(th) PROVE RequestInv'
  <2>1. ASSUME NEW x \in Tasks, SubmitTask(th, x) PROVE RequestInv'
    <3>1. UNCHANGED <<left, sq, kernel>> /\ status' = [status EXCEPT ![x] = "queued"] /\ status[x] = "unborn"
      BY <2>1 DEF SubmitTask, Claim
    <3>2. \A t \in TimerTasks : status'[t] = status[t] \/ (status[t] = "unborn" /\ status'[t] = "queued")
      BY <1>1, <3>1 DEF EngineInv, TypeOK
    <3>. QED BY <3>1, <3>2, RequestsLeftAlone DEF EngineOnly
  <2>2. CASE Store(th) \/ WakeUp(th)
    <3>1. UNCHANGED <<left, sq, kernel, status>>
      BY <2>2 DEF Store, WakeUp
    <3>. QED BY <3>1, RequestsLeftAlone DEF EngineOnly
  <2>. QED BY <1>2, <2>1, <2>2 DEF Submit
<1>3. CASE Finish
  <2>1. UNCHANGED <<left, sq, kernel>> /\ status' = [status EXCEPT ![cur] = "done"] /\ status[cur] = "running"
    BY <1>3 DEF Finish, EngineInv, HandOK, PlaceOK, RunOK
  <2>2. \A t \in TimerTasks : status'[t] = status[t] \/ (status[t] = "running" /\ status'[t] = "done")
    BY <1>1, <2>1 DEF EngineInv, TypeOK
  <2>. QED BY <2>1, <2>2, RequestsLeftAlone DEF EngineOnly
<1>4. CASE \/ ProcessWork \/ WorkDone \/ SqeExhausted \/ Check \/ StopCb \/ WaitEventfd \/ PeekBatch \/ CqAdvance
           \/ Start \/ AssignJob \/ RequestStop \/ StopWake \/ Signal \/ Terminated
  <2>1. UNCHANGED <<left, sq, kernel, status>>
    BY <1>4 DEF ProcessWork, WorkDone, SqeExhausted, Check, StopCb, WaitEventfd, PeekBatch, CqAdvance, Start, AssignJob,
       RequestStop, StopWake, Signal, Terminated, vars
  <2>. QED BY <2>1, RequestsLeftAlone DEF EngineOnly
<1>. QED BY <1>2, <1>3, <1>4 DEF EngineOnly

\* A timer is awaited: its request is prepared with a copy of the time.
LEMMA AwaitTimerKeeps ==
  ASSUME RequestInv, EngineInv, AwaitTimer
  PROVE  RequestInv'
<1>1. PICK a \in Adds : /\ tm' = Add(tm, a)
                        /\ m_ts' = [m_ts EXCEPT ![cur] = tm']
                        /\ asked' = [asked EXCEPT ![cur] = tm']
  BY DEF AwaitTimer
<1>2. /\ cur \in TimerTasks /\ cur \in Tasks /\ UNCHANGED <<remain, waited, hit, result, kernel>>
      /\ sq' = Append(sq, cur) /\ status' = [status EXCEPT ![cur] = "io"] /\ left[cur] > 0
      /\ left' = [left EXCEPT ![cur] = @ - 1]
  BY TimerAssumption DEF AwaitTimer, AwaitIo, kerVars
<1>3. status[cur] = "running" /\ cur \notin kernel /\ left[cur] = 1
  BY <1>2, TimerAssumption DEF EngineInv, HandOK, PlaceOK, RunOK, IoOK, TypeOK
<1>4. ToSet(sq') = ToSet(sq) \cup {cur}
  BY <1>2, AppendSet DEF EngineInv, TypeOK
<1>5. tm' \in Timespec
  BY <1>1, TimerAssumption DEF RequestInv, TimerTypes, Timespec, Add
<1>6. TimerTypes'
  BY <1>1, <1>2, <1>5 DEF RequestInv, TimerTypes
<1>7. ASSUME NEW t \in TimerTasks PROVE Request(t)'
  <2>0. Request(t) /\ t \in Tasks
    BY TimerAssumption DEF RequestInv
  <2>1. CASE t = cur
    <3>1. Fresh(t) /\ Fresh(t)'
      BY <1>2, <1>3, <2>0, <2>1 DEF Request, Resumes, Fresh
    <3>2. m_ts'[t] = asked'[t]
      BY <1>1, <1>2, <2>1 DEF RequestInv, TimerTypes
    <3>3. status'[t] = "io" /\ left'[t] = 0
      BY <1>2, <1>3, <2>0, <2>1 DEF EngineInv, TypeOK
    <3>. QED BY <1>2, <1>3, <1>4, <2>1, <3>1, <3>2, <3>3 DEF Request, Resumes
  <2>2. CASE t # cur
    <3>1. asked'[t] = asked[t] /\ m_ts'[t] = m_ts[t]
      BY <1>1, <2>2 DEF RequestInv, TimerTypes
    <3>2. status'[t] = status[t] /\ left'[t] = left[t]
      BY <1>2, <2>0, <2>2 DEF EngineInv, TypeOK
    <3>3. /\ (Fresh(t)' <=> Fresh(t)) /\ (Ticking(t)' <=> Ticking(t)) /\ (Fired(t)' <=> Fired(t))
          /\ (Answered(t)' <=> Answered(t)) /\ (Resumes(t)' <=> Resumes(t))
      BY <1>2, <3>1, <3>2 DEF Fresh, Ticking, Fired, Answered, Elapsed, Resumes
    <3>4. t \in ToSet(sq') <=> t \in ToSet(sq)
      BY <1>4, <2>2
    <3>. QED BY <1>2, <2>0, <3>1, <3>2, <3>3, <3>4 DEF Request
  <2>. QED BY <2>1, <2>2
<1>. QED BY <1>6, <1>7 DEF RequestInv

LEMMA AwaitOtherKeeps ==
  ASSUME RequestInv, EngineInv, AwaitOther
  PROVE  RequestInv'
<1>1. /\ cur \notin TimerTasks /\ UNCHANGED timerVars /\ UNCHANGED kernel
      /\ sq' = Append(sq, cur) /\ status' = [status EXCEPT ![cur] = "io"]
      /\ left' = [left EXCEPT ![cur] = @ - 1] /\ cur \in Tasks
  BY DEF AwaitOther, AwaitIo, Goto, kerVars, EngineInv, HandOK
<1>2. ToSet(sq') = ToSet(sq) \cup {cur}
  BY <1>1, AppendSet DEF EngineInv, TypeOK
<1>3. TimerTypes'
  BY <1>1 DEF RequestInv, TimerTypes, timerVars
<1>4. ASSUME NEW t \in TimerTasks PROVE Request(t)'
  <2>1. Request(t) /\ t \in Tasks /\ t # cur
    BY <1>1, TimerAssumption DEF RequestInv
  <2>2. status'[t] = status[t] /\ left'[t] = left[t]
    BY <1>1, <2>1 DEF EngineInv, TypeOK
  <2>3. /\ (Fresh(t)' <=> Fresh(t)) /\ (Ticking(t)' <=> Ticking(t)) /\ (Fired(t)' <=> Fired(t))
        /\ (Answered(t)' <=> Answered(t)) /\ (Resumes(t)' <=> Resumes(t))
    BY <1>1, <2>2 DEF Fresh, Ticking, Fired, Answered, Elapsed, Resumes, timerVars
  <2>4. t \in ToSet(sq') <=> t \in ToSet(sq)
    BY <1>2, <2>1
  <2>. QED BY <1>1, <2>1, <2>2, <2>3, <2>4 DEF Request, timerVars
<1>. QED BY <1>3, <1>4 DEF RequestInv

\* The kernel reads the time when the ring is submitted.
LEMMA SubmitTimersKeeps ==
  ASSUME RequestInv, EngineInv, SubmitTimers
  PROVE  RequestInv'
<1>1. /\ UNCHANGED <<tm, m_ts, asked, waited, hit, result, status, left>>
      /\ remain' = [t \in TimerTasks |-> IF t \in kernel' \ kernel THEN Ticks(m_ts[t]) ELSE remain[t]]
  BY DEF SubmitTimers, DoIoSubmit, tskVars
<1>2. sq' = <<>> /\ kernel' = kernel \cup ToSet(sq) /\ ToSet(sq') = {}
  BY SubmitsAll, NoElements DEF SubmitTimers, EngineInv
<1>3. ASSUME NEW t \in TimerTasks PROVE Ticks(m_ts[t]) \in Int
  BY DurationNat DEF RequestInv, TimerTypes, Ticks, Invalid
<1>4. TimerTypes'
  BY <1>1, <1>3 DEF RequestInv, TimerTypes
<1>5. ASSUME NEW t \in TimerTasks PROVE Request(t)'
  <2>0. Request(t) /\ asked[t] \in Timespec
    BY DEF RequestInv, TimerTypes
  <2>1. CASE t \in ToSet(sq)
    <3>1. status[t] = "io" /\ t \notin kernel
      BY <2>1 DEF EngineInv, PlaceOK, SqOK
    <3>2. remain'[t] = Ticks(asked[t]) /\ waited[t] = 0 /\ result[t] = "none"
      BY <1>1, <1>2, <2>0, <2>1, <3>1 DEF Request, Fresh
    <3>3. Ticking(t)'
      BY <1>1, <2>0, <3>2, DurationNat DEF Ticking, Ticks
    <3>. QED BY <1>1, <1>2, <2>0, <2>1, <3>1, <3>2, <3>3 DEF Request, Resumes
  <2>2. CASE t \notin ToSet(sq)
    <3>1. (t \in kernel' <=> t \in kernel) /\ remain'[t] = remain[t]
      BY <1>1, <1>2, <2>2
    <3>2. /\ (Fresh(t)' <=> Fresh(t)) /\ (Ticking(t)' <=> Ticking(t)) /\ (Fired(t)' <=> Fired(t))
          /\ (Answered(t)' <=> Answered(t)) /\ (Resumes(t)' <=> Resumes(t))
      BY <1>1, <3>1 DEF Fresh, Ticking, Fired, Answered, Elapsed, Resumes
    <3>. QED BY <1>1, <1>2, <2>0, <2>2, <3>1, <3>2 DEF Request
  <2>. QED BY <2>1, <2>2
<1>. QED BY <1>4, <1>5 DEF RequestInv

\* A timer fires, because its time is invalid, over, or cut short.
LEMMA FiresKeeps ==
  ASSUME RequestInv, EngineInv, NEW u \in Tasks, TimerFires(u)
  PROVE  RequestInv'
<1>1. /\ u \in TimerTasks /\ u \in kernel /\ kernel' = kernel \ {u}
      /\ UNCHANGED <<tm, m_ts, asked, remain, waited, hit, sq, status, left>>
  BY DEF TimerFires, Complete, ioVars, tskVars
<1>2. /\ Request(u) /\ asked[u] \in Timespec /\ remain[u] \in Int /\ waited[u] \in Nat
      /\ status[u] = "io" /\ u \notin ToSet(sq)
  BY <1>1 DEF RequestInv, TimerTypes, EngineInv, PlaceOK, SqOK, IoOK
<1>3. \/ remain[u] = Invalid /\ result' = [result EXCEPT ![u] = "EINVAL"]
      \/ remain[u] = 0 /\ result' = [result EXCEPT ![u] = "ETIME"]
      \/ remain[u] > 0 /\ u \in hit /\ result' = [result EXCEPT ![u] = "ok"]
  BY DEF TimerFires
<1>4. TimerTypes'
  BY <1>1, <1>3 DEF RequestInv, TimerTypes
<1>5. ASSUME NEW t \in TimerTasks PROVE Request(t)'
  <2>1. CASE t = u
    <3>1. Ticking(u)
      BY <1>1, <1>2 DEF Request
    <3>2. Fired(u)'
      <4>1. CASE remain[u] = Invalid /\ result' = [result EXCEPT ![u] = "EINVAL"]
        <5>1. ~Valid(asked[u]) /\ result'[u] = "EINVAL"
          BY <1>1, <3>1, <4>1 DEF Ticking, Invalid, RequestInv, TimerTypes
        <5>. QED BY <1>1, <5>1 DEF Fired
      <4>2. CASE remain[u] = 0 /\ result' = [result EXCEPT ![u] = "ETIME"]
        <5>1. Valid(asked[u]) /\ waited[u] = Duration(asked[u]) /\ result'[u] = "ETIME"
          BY <1>1, <1>2, <3>1, <4>2 DEF Ticking, Invalid, RequestInv, TimerTypes
        <5>. QED BY <1>1, <5>1 DEF Fired, Elapsed
      <4>3. CASE remain[u] > 0 /\ u \in hit /\ result' = [result EXCEPT ![u] = "ok"]
        <5>1. Valid(asked[u]) /\ result'[u] = "ok"
          BY <1>1, <3>1, <4>3 DEF Ticking, Invalid, RequestInv, TimerTypes
        <5>. QED BY <1>1, <4>3, <5>1 DEF Fired
      <4>. QED BY <1>3, <4>1, <4>2, <4>3
    <3>. QED BY <1>1, <1>2, <2>1, <3>2 DEF Request, Resumes
  <2>2. CASE t # u
    <3>1. Request(t) /\ result'[t] = result[t] /\ (t \in kernel' <=> t \in kernel)
      BY <1>1, <1>3, <2>2 DEF RequestInv, TimerTypes
    <3>2. /\ (Fresh(t)' <=> Fresh(t)) /\ (Ticking(t)' <=> Ticking(t)) /\ (Fired(t)' <=> Fired(t))
          /\ (Answered(t)' <=> Answered(t)) /\ (Resumes(t)' <=> Resumes(t))
      BY <1>1, <3>1 DEF Fresh, Ticking, Fired, Answered, Elapsed, Resumes
    <3>. QED BY <1>1, <3>1, <3>2 DEF Request
  <2>. QED BY <2>1, <2>2
<1>. QED BY <1>4, <1>5 DEF RequestInv

LEMMA OtherKeeps ==
  ASSUME RequestInv, EngineInv, NEW u \in Tasks, OtherCompletes(u)
  PROVE  RequestInv'
<1>1. /\ u \notin TimerTasks /\ kernel' = kernel \ {u} /\ hit' = hit \cup (kernel \cap TimerTasks)
      /\ UNCHANGED <<tm, m_ts, asked, remain, waited, result, sq, status, left>>
  BY DEF OtherCompletes, Complete, ioVars, tskVars
<1>2. TimerTypes'
  BY <1>1 DEF RequestInv, TimerTypes
<1>3. ASSUME NEW t \in TimerTasks PROVE Request(t)'
  <2>1. Request(t) /\ (t \in kernel' <=> t \in kernel) /\ (Resumes(t)' <=> Resumes(t))
    BY <1>1 DEF RequestInv, Resumes
  <2>2. (Ticking(t)' <=> Ticking(t)) /\ (Fired(t) => Fired(t)') /\ (Answered(t) => Answered(t)')
    BY <1>1 DEF Ticking, Fired, Answered, Elapsed
  <2>3. t \notin kernel => (Fresh(t) => Fresh(t)')
    BY <1>1 DEF Fresh
  <2>4. t \in kernel => status[t] = "io" /\ t \notin ToSet(sq)
    BY DEF EngineInv, PlaceOK, SqOK, IoOK
  <2>. QED BY <1>1, <2>1, <2>2, <2>3, <2>4 DEF Request
<1>. QED BY <1>2, <1>3 DEF RequestInv

LEMMA TickKeeps ==
  ASSUME RequestInv, EngineInv, Tick
  PROVE  RequestInv'
<1>1. /\ UNCHANGED <<tm, m_ts, asked, hit, result, sq, status, left, kernel>>
      /\ remain' = [t \in TimerTasks |-> IF Running(t) THEN remain[t] - 1 ELSE remain[t]]
      /\ waited' = [t \in TimerTasks |-> IF Running(t) THEN waited[t] + 1 ELSE waited[t]]
  BY DEF Tick, vars, ioVars, kerVars, tskVars
<1>2. TimerTypes'
  BY <1>1 DEF RequestInv, TimerTypes
<1>3. ASSUME NEW t \in TimerTasks PROVE Request(t)'
  <2>0. Request(t) /\ remain[t] \in Int /\ waited[t] \in Nat /\ asked[t] \in Timespec
    BY DEF RequestInv, TimerTypes
  <2>1. CASE Running(t)
    <3>1. t \in kernel /\ remain[t] > 0 /\ status[t] = "io" /\ t \notin ToSet(sq)
      BY <2>1 DEF Running, EngineInv, PlaceOK, SqOK, IoOK
    <3>2. remain'[t] = remain[t] - 1 /\ waited'[t] = waited[t] + 1
      BY <1>1, <2>1
    <3>3. Ticking(t)'
      BY <1>1, <2>0, <3>1, <3>2, DurationNat DEF Request, Ticking, Invalid
    <3>. QED BY <1>1, <2>0, <3>1, <3>3 DEF Request, Resumes
  <2>2. CASE ~Running(t)
    <3>1. remain'[t] = remain[t] /\ waited'[t] = waited[t]
      BY <1>1, <2>2
    <3>2. /\ (Fresh(t)' <=> Fresh(t)) /\ (Ticking(t)' <=> Ticking(t)) /\ (Fired(t)' <=> Fired(t))
          /\ (Answered(t)' <=> Answered(t)) /\ (Resumes(t)' <=> Resumes(t))
      BY <1>1, <3>1 DEF Fresh, Ticking, Fired, Answered, Elapsed, Resumes
    <3>. QED BY <1>1, <2>0, <3>2 DEF Request
  <2>. QED BY <2>1, <2>2
<1>. QED BY <1>2, <1>3 DEF RequestInv

\* The callback turns running out of time into success.
LEMMA CallbackKeeps ==
  ASSUME RequestInv, EngineInv, TimerCallback
  PROVE  RequestInv'
<1> DEFINE u == Head(m_urc)
<1>1. /\ m_urc # <<>> /\ status' = [status EXCEPT ![u] = "queued"]
      /\ result' = [t \in TimerTasks |-> IF t = u /\ result[t] = "ETIME" THEN "ok" ELSE result[t]]
      /\ UNCHANGED <<tm, m_ts, asked, remain, waited, hit, sq, left, kernel>>
  BY DEF TimerCallback, HandleCqe, Claim, ioVars, kerVars
<1>2. u \in Tasks /\ status[u] = "io" /\ u \notin kernel /\ u \notin ToSet(sq)
  BY <1>1, HeadOfBatch DEF EngineInv
<1> HIDE DEF u
<1>3. TimerTypes'
  BY <1>1 DEF RequestInv, TimerTypes
<1>4. ASSUME NEW t \in TimerTasks PROVE Request(t)'
  <2>0. Request(t) /\ t \in Tasks
    BY TimerAssumption DEF RequestInv
  <2>1. CASE t = u
    <3>1. Fired(t) /\ left[t] = 0 /\ status'[t] = "queued"
      BY <1>1, <1>2, <2>0, <2>1 DEF Request, EngineInv, TypeOK
    <3>2. Answered(t)'
      BY <1>1, <2>1, <3>1 DEF Fired, Answered, Elapsed
    <3>. QED BY <1>1, <1>2, <2>1, <3>1, <3>2 DEF Request, Resumes
  <2>2. CASE t # u
    <3>1. status'[t] = status[t] /\ result'[t] = result[t]
      BY <1>1, <2>0, <2>2 DEF EngineInv, TypeOK
    <3>2. /\ (Fresh(t)' <=> Fresh(t)) /\ (Ticking(t)' <=> Ticking(t)) /\ (Fired(t)' <=> Fired(t))
          /\ (Answered(t)' <=> Answered(t)) /\ (Resumes(t)' <=> Resumes(t))
      BY <1>1, <3>1 DEF Fresh, Ticking, Fired, Answered, Elapsed, Resumes
    <3>. QED BY <1>1, <2>0, <3>1, <3>2 DEF Request
  <2>. QED BY <2>1, <2>2
<1>. QED BY <1>3, <1>4 DEF RequestInv

\* The coroutine goes on and its awaiter is gone.
LEMMA ResumeKeeps ==
  ASSUME RequestInv, EngineInv, Resume
  PROVE  RequestInv'
<1> DEFINE u == Head(m_task_queue)
<1>1. /\ m_task_queue # <<>> /\ status' = [status EXCEPT ![u] = "running"]
      /\ UNCHANGED <<tm, sq, left, kernel>>
  BY DEF Resume, ExecOneTask, ioVars, kerVars
<1>2. IF u \in TimerTasks
      THEN /\ m_ts' = [m_ts EXCEPT ![u] = Zero] /\ asked' = [asked EXCEPT ![u] = Zero]
           /\ remain' = [remain EXCEPT ![u] = 0] /\ waited' = [waited EXCEPT ![u] = 0]
           /\ hit' = hit \ {u}
           /\ result' = [result EXCEPT ![u] = "none"]
      ELSE UNCHANGED <<m_ts, asked, remain, waited, hit, result>>
  BY DEF Resume
<1>3. u \in Tasks /\ u \in ToSet(m_task_queue)
  <2>1. m_task_queue \in Seq(Tasks) /\ IsInjective(m_task_queue)
    BY DEF EngineInv, TypeOK, PlaceOK, QueueOK
  <2>2. /\ Head(m_task_queue) \in Tasks
        /\ ToSet(m_task_queue) = ToSet(Tail(m_task_queue)) \cup {Head(m_task_queue)}
    BY <1>1, <2>1, TailSet
  <2>. QED BY <2>2
<1>4. status[u] = "queued" /\ u \notin kernel /\ u \notin ToSet(sq)
  BY <1>3 DEF EngineInv, PlaceOK, QueueOK, SqOK, IoOK
<1> HIDE DEF u
<1>5. TimerTypes'
  <2>1. Zero \in Timespec
    BY DEF Zero, Timespec
  <2>2. CASE u \in TimerTasks
    <3>1. m_ts' \in [TimerTasks -> Timespec] /\ asked' \in [TimerTasks -> Timespec]
      BY <1>2, <2>1, <2>2 DEF RequestInv, TimerTypes
    <3>2. /\ remain' \in [TimerTasks -> Int] /\ waited' \in [TimerTasks -> Nat]
          /\ result' \in [TimerTasks -> {"none", "EINVAL", "ETIME", "ok"}]
      BY <1>2, <2>2 DEF RequestInv, TimerTypes
    <3>. QED BY <1>1, <1>2, <2>2, <3>1, <3>2 DEF RequestInv, TimerTypes
  <2>3. CASE u \notin TimerTasks
    BY <1>1, <1>2, <2>3 DEF RequestInv, TimerTypes
  <2>. QED BY <2>2, <2>3
<1>6. ASSUME NEW t \in TimerTasks PROVE Request(t)'
  <2>0. Request(t) /\ t \in Tasks
    BY TimerAssumption DEF RequestInv
  <2>1. CASE t = u
    <3>1. status'[t] = "running"
      BY <1>1, <2>0, <2>1 DEF EngineInv, TypeOK
    <3>2. Fresh(t)'
      BY <1>2, <2>1 DEF Fresh, RequestInv, TimerTypes
    <3>. QED BY <1>1, <1>4, <2>1, <3>1, <3>2 DEF Request, Resumes
  <2>2. CASE t # u
    <3>1. status'[t] = status[t]
      BY <1>1, <2>0, <2>2 DEF EngineInv, TypeOK
    <3>2. /\ m_ts'[t] = m_ts[t] /\ asked'[t] = asked[t] /\ remain'[t] = remain[t] /\ waited'[t] = waited[t]
          /\ result'[t] = result[t] /\ (t \in hit' <=> t \in hit)
      BY <1>2, <2>2 DEF RequestInv, TimerTypes
    <3>3. /\ (Fresh(t)' <=> Fresh(t)) /\ (Ticking(t)' <=> Ticking(t)) /\ (Fired(t)' <=> Fired(t))
          /\ (Answered(t)' <=> Answered(t)) /\ (Resumes(t)' <=> Resumes(t))
      BY <1>1, <3>1, <3>2 DEF Fresh, Ticking, Fired, Answered, Elapsed, Resumes
    <3>. QED BY <1>1, <2>0, <3>1, <3>2, <3>3 DEF Request
  <2>. QED BY <2>1, <2>2
<1>. QED BY <1>5, <1>6 DEF RequestInv

LEMMA RequestInit ==
  ASSUME TimerInit
  PROVE  RequestInv
<1>1. TimerTypes
  <2>1. Zero \in Timespec
    BY DEF Zero, Timespec
  <2>2. m_ts \in [TimerTasks -> Timespec] /\ asked \in [TimerTasks -> Timespec]
    BY <2>1 DEF TimerInit
  <2>3. remain \in [TimerTasks -> Nat] /\ waited \in [TimerTasks -> Nat]
    BY DEF TimerInit
  <2>4. tm \in Timespec
    BY TimerAssumption DEF TimerInit, Timespec
  <2>5. remain \in [TimerTasks -> Int]
    BY <2>3
  <2>6. result \in [TimerTasks -> {"none", "EINVAL", "ETIME", "ok"}]
    BY DEF TimerInit
  <2>7. hit \subseteq TimerTasks
    BY DEF TimerInit
  <2>. QED BY <2>2, <2>3, <2>4, <2>5, <2>6, <2>7 DEF TimerTypes
<1>2. ASSUME NEW t \in TimerTasks PROVE Request(t)
  <2>1. t \in Tasks /\ Ios = 1
    BY TimerAssumption
  <2>2. status[t] = "unborn" /\ left[t] = 1 /\ t \notin kernel /\ ToSet(sq) = {}
    BY <2>1, NoElements DEF TimerInit, Init
  <2>3. Fresh(t)
    BY DEF TimerInit, Fresh
  <2>. QED BY <2>2, <2>3 DEF Request, Resumes
<1>. QED BY <1>1, <1>2 DEF RequestInv

LEMMA RequestStep ==
  ASSUME RequestInv, EngineInv, [TimerNext]_allVars
  PROVE  RequestInv'
<1>1. CASE UNCHANGED allVars
  <2>1. UNCHANGED timerVars /\ UNCHANGED <<left, sq, kernel, status>>
    BY <1>1 DEF allVars, vars, ioVars, kerVars, tskVars
  <2>. QED BY <2>1, RequestsLeftAlone
<1>. QED BY <1>1, EngineOnlyKeeps, AwaitTimerKeeps, AwaitOtherKeeps, SubmitTimersKeeps, FiresKeeps, OtherKeeps, TickKeeps,
            CallbackKeeps, ResumeKeeps DEF TimerNext

\* A request runs for the time the timer had when it was awaited, and its
\* coroutine gets the result that belongs to how it ended.
THEOREM TimersAreExact == TimerSpec => []TimerExact
<1>1. TimerInit => RequestInv
  BY RequestInit
<1>2. RequestInv /\ EngineInv /\ [TimerNext]_allVars => RequestInv'
  BY RequestStep
<1>3. RequestInv => TimerExact
  <2> SUFFICES ASSUME RequestInv, NEW t \in TimerTasks
               PROVE  /\ Running(t) => remain[t] + waited[t] = Duration(asked[t])
                      /\ Resumes(t) => \/ result[t] = "EINVAL" /\ ~Valid(asked[t])
                                       \/ result[t] = "ok" /\ Valid(asked[t]) /\ (Elapsed(t) \/ t \in hit)
    BY DEF TimerExact
  <2>1. Request(t) /\ remain[t] \in Int
    BY DEF RequestInv, TimerTypes
  <2>2. Running(t) => remain[t] + waited[t] = Duration(asked[t])
    BY <2>1 DEF Running, Request, Ticking, Invalid
  <2>3. Resumes(t) => Answered(t)
    BY <2>1 DEF Request
  <2>. QED BY <2>2, <2>3 DEF Answered
<1>. QED BY <1>1, <1>2, <1>3, TimersOnEngine, EngineInvariant, PTL DEF TimerSpec
=============================================================================
