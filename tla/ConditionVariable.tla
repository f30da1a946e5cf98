-------------------------- MODULE ConditionVariable --------------------------
(***************************************************************************)
(* coro::condition_variable on top of coro::mutex.  A waiter that holds    *)
(* the mutex appends its awaiter to the list of the condition variable and *)
(* unlocks; a notifier takes an awaiter from the list and makes it ask for *)
(* the mutex; whoever gives the mutex to such an awaiter, the notifier or  *)
(* a thread that unlocks, evaluates the waiter's predicate on its behalf   *)
(* and, when that is false, puts it back and unlocks again.                *)
(*                                                                         *)
(* The mutex is the FIFO lock that module Mutex refines (FifoLock), one    *)
(* atomic step for register_lock and one for unlock.  A section under the  *)
(* spinlock is one step.  The predicate is "items > 0"; a waiter with a    *)
(* predicate takes one item; a producer adds one and notifies.  Everyone   *)
(* runs on a context of its own.                                           *)
(***************************************************************************)
EXTENDS Integers, Sequences, FiniteSets, SequencesExt

CONSTANTS Waiters,    \* lock(); wait(mtx, cond); take an item; unlock()
          Plain,      \* lock(); wait(mtx); unlock(), without a predicate
          Producers,  \* lock(); add an item; unlock(); notify_one()
          Early,      \* producers that notify before they unlock
          All,        \* producers that call notify_all()
          Nobody      \* the null pointer

ASSUME CvAssumption ==
  /\ Waiters \cap Producers = {} /\ Plain \cap (Waiters \cup Producers) = {}
  /\ Early \cup All \subseteq Producers
  /\ Nobody \notin Waiters \cup Plain \cup Producers

Sleepers == Waiters \cup Plain
Coros    == Sleepers \cup Producers

VARIABLES
  holder, waitq,     \* the mutex: its owner and its queue
  m_head,            \* the list of the condition variable, oldest first
  items,             \* what the predicate is about
  m_suspend_state,   \* per sleeper: register_wait was called
  m_num_wait_task,   \* per sleeper: waits registered by its cv awaiter
  pc,                \* per coroutine: where its thread is
  target,            \* per thread: the awaiter it is resuming
  walk               \* per producer: what notify_all still has to wake

mtxVars == <<holder, waitq>>
cvVars  == <<m_suspend_state, m_num_wait_task>>
vars    == <<mtxVars, m_head, items, cvVars, pc, target, walk>>

Init ==
  /\ holder = Nobody /\ waitq = <<>>
  /\ m_head = <<>>
  /\ items = 0
  /\ m_suspend_state = [c \in Sleepers |-> FALSE]
  /\ m_num_wait_task = [c \in Sleepers |-> 0]
  /\ pc = [c \in Coros |-> "start"]
  /\ target = [c \in Coros |-> Nobody]
  /\ walk = [c \in Coros |-> <<>>]

Goto(c, l, m) == pc[c] = l /\ pc' = [pc EXCEPT ![c] = m]

\* The awaiter's predicate; a plain wait() has none.
Cond(c) == items > 0

-----------------------------------------------------------------------------
(***************************************************************************)
(* co_await mtx.lock().                                                    *)
(***************************************************************************)
Lock(c) ==
  /\ \/ /\ holder = Nobody
        /\ holder' = c
        /\ Goto(c, "start", "locked")
        /\ UNCHANGED waitq
     \/ /\ holder # Nobody
        /\ waitq' = Append(waitq, c)
        /\ Goto(c, "start", "blocked")
        /\ UNCHANGED holder
  /\ UNCHANGED <<m_head, items, cvVars, target, walk>>

-----------------------------------------------------------------------------
(***************************************************************************)
(* co_await cv.wait(mtx, cond)                                             *)
(***************************************************************************)

\* register_wait(!m_suspend_state), m_suspend_state = true, register_cv().
Bug_Register(c) ==       \* registers the wait every time
  /\ m_num_wait_task' = [m_num_wait_task EXCEPT ![c] = @ + 1]
  /\ m_suspend_state' = [m_suspend_state EXCEPT ![c] = TRUE]
  /\ m_head' = Append(m_head, c)

Register(c) ==
  /\ m_num_wait_task' = [m_num_wait_task EXCEPT ![c] = IF m_suspend_state[c] THEN @ ELSE @ + 1]
  /\ m_suspend_state' = [m_suspend_state EXCEPT ![c] = TRUE]
  /\ m_head' = Append(m_head, c)

\* register_lock: go on when the predicate holds, else register and unlock.
Wait(c) ==
  \/ /\ c \in Waiters /\ Cond(c)
     /\ Goto(c, "locked", "woken")
     /\ UNCHANGED <<mtxVars, m_head, items, cvVars, target, walk>>
  \/ /\ c \in Plain \/ (c \in Waiters /\ ~ Cond(c))
     /\ Goto(c, "locked", "wait_unlock")
     /\ Register(c)
     /\ UNCHANGED <<mtxVars, items, target, walk>>

\* The context of c pops its handle: await_resume of the awaiter it waited
\* in, the mutex's or the condition variable's.
AwaitResume(c) ==
  /\ \/ Goto(c, "queued_lock", "locked") /\ UNCHANGED cvVars
     \/ /\ Goto(c, "queued_cv", "woken")
        /\ m_num_wait_task' = [m_num_wait_task EXCEPT ![c] = IF m_suspend_state[c] THEN @ - 1 ELSE @]
        /\ UNCHANGED m_suspend_state
  /\ UNCHANGED <<mtxVars, m_head, items, target, walk>>

\* What the waiter does with the mutex: take an item, then unlock.
Consume(c) ==
  /\ c \in Sleepers
  /\ Goto(c, "woken", "last_unlock")
  /\ items' = IF c \in Waiters THEN items - 1 ELSE items
  /\ UNCHANGED <<mtxVars, m_head, cvVars, target, walk>>

-----------------------------------------------------------------------------
(***************************************************************************)
(* mutex::unlock by thread c.  "sleep", "notify", "end": what c does next. *)
(***************************************************************************)
After(l) == CASE l = "wait_unlock" -> "asleep"
              [] l = "last_unlock" -> "end"
              [] l = "item_unlock" -> "notify"
              [] l = "walk_unlock" -> "walk"
UnlockPc == {"wait_unlock", "last_unlock", "item_unlock", "walk_unlock"}

\* Where c goes once the unlock that started at l is over.  While c ran the
\* unlock inside its own wait(), it may have been woken already.
Return(c, l, next) ==
  pc' = [next EXCEPT ![c] = IF l = "wait_unlock" /\ next[c] # l THEN next[c] ELSE After(l)]

\* Nobody waits: the mutex is free.
UnlockFree(c, l) ==
  /\ pc[c] = l /\ target[c] = Nobody
  /\ waitq = <<>>
  /\ holder' = Nobody
  /\ Return(c, l, pc)
  /\ UNCHANGED <<waitq, m_head, items, cvVars, target, walk>>

\* The oldest awaiter gets the mutex; a lock() awaiter is submitted ...
UnlockToLock(c, l) ==
  LET t == Head(waitq) IN
  /\ pc[c] = l /\ target[c] = Nobody
  /\ waitq # <<>>
  /\ pc[t] = "blocked"
  /\ holder' = t
  /\ waitq' = Tail(waitq)
  /\ Return(c, l, [pc EXCEPT ![t] = "queued_lock"])
  /\ UNCHANGED <<m_head, items, cvVars, target, walk>>

\* ... a cv awaiter has its own resume().
UnlockToCv(c, l) ==
  LET t == Head(waitq) IN
  /\ pc[c] = l /\ target[c] = Nobody
  /\ waitq # <<>>
  /\ pc[t] \in {"asleep", "wait_unlock"}
  /\ holder' = t
  /\ waitq' = Tail(waitq)
  /\ target' = [target EXCEPT ![c] = t]
  /\ UNCHANGED <<m_head, items, cvVars, pc, walk>>

Bug_ResumeAgain(c, l) == \* does not unlock on behalf of t
  LET t == target[c] IN
  /\ pc[c] = l /\ t # Nobody
  /\ t \in Waiters /\ ~ Cond(t)
  /\ Register(t)
  /\ target' = [target EXCEPT ![c] = Nobody]
  /\ Return(c, l, pc)
  /\ UNCHANGED <<mtxVars, items, walk>>

\* cv_awaiter::resume by thread c: the predicate is false, t goes back to the
\* list and c unlocks again on its behalf ...
ResumeAgain(c, l) ==
  LET t == target[c] IN
  /\ pc[c] = l /\ t # Nobody
  /\ t \in Waiters /\ ~ Cond(t)
  /\ Register(t)
  /\ target' = [target EXCEPT ![c] = Nobody]
  /\ UNCHANGED <<mtxVars, items, pc, walk>>

Bug_ResumeDone(c, l) ==  \* does not look at the predicate again
  LET t == target[c] IN
  /\ pc[c] = l /\ t # Nobody
  /\ target' = [target EXCEPT ![c] = Nobody]
  /\ Return(c, l, [pc EXCEPT ![t] = "queued_cv"])
  /\ UNCHANGED <<mtxVars, m_head, items, cvVars, walk>>

\* ... or t is submitted to its context, owning the mutex.
ResumeDone(c, l) ==
  LET t == target[c] IN
  /\ pc[c] = l /\ t # Nobody
  /\ t \in Waiters => Cond(t)
  /\ target' = [target EXCEPT ![c] = Nobody]
  /\ Return(c, l, [pc EXCEPT ![t] = "queued_cv"])
  /\ UNCHANGED <<mtxVars, m_head, items, cvVars, walk>>

Unlock(c) == \E l \in UnlockPc :
  UnlockFree(c, l) \/ UnlockToLock(c, l) \/ UnlockToCv(c, l) \/ ResumeAgain(c, l) \/ ResumeDone(c, l)

-----------------------------------------------------------------------------
(***************************************************************************)
(* A producer: add an item, unlock, notify.                                *)
(***************************************************************************)
Produce(p) ==
  /\ p \in Producers
  /\ Goto(p, "locked", IF p \in Early THEN "notify" ELSE "item_unlock")
  /\ items' = items + 1
  /\ UNCHANGED <<mtxVars, m_head, cvVars, target, walk>>

Bug_Notify(p) ==         \* loses the rest of the list
  /\ Goto(p, "notify", "walk")
  /\ walk' = [walk EXCEPT ![p] = IF m_head = <<>> THEN <<>> ELSE <<Head(m_head)>>]
  /\ m_head' = <<>>
  /\ UNCHANGED <<mtxVars, items, cvVars, target>>

\* notify_one takes the head of the list, notify_all the whole list.
Notify(p) ==
  LET n == IF p \in All \/ m_head = <<>> THEN Len(m_head) ELSE 1 IN
  /\ Goto(p, "notify", "walk")
  /\ walk' = [walk EXCEPT ![p] = SubSeq(m_head, 1, n)]
  /\ m_head' = SubSeq(m_head, n + 1, Len(m_head))
  /\ UNCHANGED <<mtxVars, items, cvVars, target>>

Bug_WakeUp(p) ==         \* drops the awaiter when the mutex is taken
  LET t == Head(walk[p]) IN
  /\ walk[p] # <<>>
  /\ walk' = [walk EXCEPT ![p] = Tail(@)]
  /\ \/ /\ holder = Nobody
        /\ holder' = t
        /\ Goto(p, "walk", "walk_unlock")
        /\ target' = [target EXCEPT ![p] = t]
        /\ UNCHANGED waitq
     \/ /\ holder # Nobody
        /\ Goto(p, "walk", "walk")
        /\ UNCHANGED <<mtxVars, target>>
  /\ UNCHANGED <<m_head, items, cvVars>>

\* wake_up: the awaiter asks for the mutex; it gets it and is resumed, or it
\* joins the queue.
WakeUp(p) ==
  LET t == Head(walk[p]) IN
  /\ walk[p] # <<>>
  /\ walk' = [walk EXCEPT ![p] = Tail(@)]
  /\ \/ /\ holder = Nobody
        /\ holder' = t
        /\ Goto(p, "walk", "walk_unlock")
        /\ target' = [target EXCEPT ![p] = t]
        /\ UNCHANGED waitq
     \/ /\ holder # Nobody
        /\ waitq' = Append(waitq, t)
        /\ Goto(p, "walk", "walk")
        /\ UNCHANGED <<holder, target>>
  /\ UNCHANGED <<m_head, items, cvVars>>

NotifyDone(p) ==
  /\ walk[p] = <<>>
  /\ Goto(p, "walk", IF p \in Early THEN "last_unlock" ELSE "end")
  /\ UNCHANGED <<mtxVars, m_head, items, cvVars, target, walk>>

Step(c) == \/ Lock(c) \/ Wait(c) \/ AwaitResume(c) \/ Consume(c) \/ Unlock(c)
           \/ Produce(c) \/ Notify(c) \/ WakeUp(c) \/ NotifyDone(c)

\* Everybody has finished, or sleeps and nobody is left to notify.
Terminated == (\A c \in Coros : pc[c] \in {"end", "asleep"}) /\ UNCHANGED vars

Next == (\E c \in Coros : Step(c)) \/ Terminated

Spec == Init /\ [][Next]_vars

\* Every thread runs.
FairSpec == Spec /\ \A c \in Coros : WF_vars(Step(c))

-----------------------------------------------------------------------------
(***************************************************************************)
(* Properties.                                                             *)
(***************************************************************************)

\* wait(mtx, cond) returns with the mutex held and the predicate true, even
\* when somebody else evaluated it and other waiters ran in between
\* (condition_variable.cpp 39, 117-133).
PredicateOnReturn == \A c \in Sleepers : pc[c] \in {"queued_cv", "woken"} =>
  holder = c /\ (c \in Waiters => items > 0)

\* A sleeping waiter is exactly once in the list of the condition variable,
\* in the queue of the mutex, in a notifier's hands or being resumed: m_next
\* links it into one list only, and none is forgotten.
Places(c) ==
  Cardinality({i \in 1 .. Len(m_head) : m_head[i] = c}) +
  Cardinality({i \in 1 .. Len(waitq) : waitq[i] = c}) +
  Cardinality({d \in Coros : c \in ToSet(walk[d])}) +
  Cardinality({d \in Coros : target[d] = c})
InOneList == \A c \in Coros :
  Places(c) = IF pc[c] \in {"asleep", "wait_unlock", "blocked"} THEN 1 ELSE 0

\* The wait of a cv awaiter is registered once however often the predicate
\* sends it back to sleep, and unregistered once (condition_variable.cpp
\* 66-73).
WaitOnce == \A c \in Sleepers :
  m_num_wait_task[c] = IF pc[c] \in {"wait_unlock", "asleep", "queued_cv"} THEN 1 ELSE 0

\* A waiter that sleeps owns the mutex only while some thread is resuming it
\* or unlocking on its behalf (condition_variable.cpp 81, 127); and when no
\* thread can go on, the mutex is free, nobody is blocked in lock(), and every
\* sleeper is still where the next notify finds it.
MutexReleased ==
  /\ (holder # Nobody /\ pc[holder] = "asleep") => \E d \in Coros : pc[d] \in UnlockPc
  /\ (\A c \in Coros : pc[c] \in {"end", "asleep", "blocked"}) =>
       holder = Nobody /\ \A c \in Coros : pc[c] # "blocked" /\ (pc[c] = "asleep" => c \in ToSet(m_head))

\* With an item for every waiter and a notification after each item, every
\* waiter with a predicate gets through.
AllServed == <>(\A c \in Waiters : pc[c] = "end")
=============================================================================
