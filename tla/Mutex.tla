-------------------------------- MODULE Mutex --------------------------------
(***************************************************************************)
(* coro::mutex: a word m_state that is nolocked, locked_no_waiting or the  *)
(* head of a stack of awaiters pushed by CAS, and a list of awaiters       *)
(* m_resume_list_head, oldest first, that only the owner touches.          *)
(*                                                                         *)
(* Every coroutine runs on a context of its own, so any interleaving of    *)
(* their atomics is possible.  A list of awaiters is the sequence of its   *)
(* coroutines; a CAS compares pointers, that is, heads of lists: a push    *)
(* succeeds exactly when the head is the one it loaded, and then m_next of *)
(* the new awaiter is the current list.                                    *)
(***************************************************************************)
EXTENDS Integers, Sequences, SequencesExt

CONSTANTS Coros,     \* the coroutines
          nolocked,  \* the value 1 of m_state
          Nobody     \* the null pointer

ASSUME CorosAssumption == /\ nolocked \notin Coros /\ Nobody \notin Coros
                          /\ nolocked # Nobody
                          /\ nolocked \notin Seq(Coros)

VARIABLES
  m_state,             \* nolocked, or the stack of awaiters, newest first;
                       \* <<>> is locked_no_waiting
  m_resume_list_head,  \* the list to resume, oldest first
  m_num_wait_task,     \* per coroutine: registered waits on its context
  pc,                  \* per coroutine: where it is
  state,               \* per coroutine: register_lock's local variable state
  to_resume            \* per coroutine: unlock's local variable to_resume

vars == <<m_state, m_resume_list_head, m_num_wait_task, pc, state, to_resume>>

locked_no_waiting == <<>>

\* The pointer an atomic load of m_state returns.
Pointer(s) == IF s = nolocked THEN nolocked
              ELSE IF s = locked_no_waiting THEN Nobody ELSE Head(s)

Init ==
  /\ m_state = nolocked
  /\ m_resume_list_head = <<>>
  /\ m_num_wait_task = [c \in Coros |-> 0]
  /\ pc = [c \in Coros |-> "idle"]
  /\ state = [c \in Coros |-> Nobody]
  /\ to_resume = [c \in Coros |-> Nobody]

Goto(c, l, m) == pc[c] = l /\ pc' = [pc EXCEPT ![c] = m]

Unregister(c) == m_num_wait_task' = [m_num_wait_task EXCEPT ![c] = @ - 1]

-----------------------------------------------------------------------------
(***************************************************************************)
(* co_await mtx.lock() (lock_guard() differs in what it returns).          *)
(***************************************************************************)

Bug_AwaitSuspend(c) ==   \* await_suspend without register_wait
  /\ Goto(c, "idle", "load")
  /\ UNCHANGED <<m_state, m_resume_list_head, m_num_wait_task, state, to_resume>>

AwaitSuspend(c) ==
  /\ Goto(c, "idle", "load")
  /\ m_num_wait_task' = [m_num_wait_task EXCEPT ![c] = @ + 1]
  /\ UNCHANGED <<m_state, m_resume_list_head, state, to_resume>>

LoadState(c) ==
  /\ Goto(c, "load", "cas")
  /\ state' = [state EXCEPT ![c] = Pointer(m_state)]
  /\ UNCHANGED <<m_state, m_resume_list_head, m_num_wait_task, to_resume>>

\* The mutex was free: take it; await_suspend returns false, await_resume
\* runs at once.
CasLock(c) ==
  /\ state[c] = nolocked
  /\ m_state = nolocked
  /\ Goto(c, "cas", "critical")
  /\ m_state' = locked_no_waiting
  /\ Unregister(c)
  /\ UNCHANGED <<m_resume_list_head, state, to_resume>>

\* It was taken: push this awaiter; await_suspend returns true.
CasPush(c) ==
  /\ state[c] # nolocked
  /\ Pointer(m_state) = state[c]
  /\ Goto(c, "cas", "suspended")
  /\ m_state' = <<c>> \o m_state
  /\ UNCHANGED <<m_resume_list_head, m_num_wait_task, state, to_resume>>

\* m_state has changed since the load, or compare_exchange_weak fails
\* spuriously: go round the loop.
CasFail(c) ==
  /\ Goto(c, "cas", "load")
  /\ UNCHANGED <<m_state, m_resume_list_head, m_num_wait_task, state, to_resume>>

\* The context of c pops the coroutine that resume() submitted: await_resume.
AwaitResume(c) ==
  /\ Goto(c, "queued", "critical")
  /\ Unregister(c)
  /\ UNCHANGED <<m_state, m_resume_list_head, state, to_resume>>

Bug_TryLock(c) ==        \* takes a lock that is held but has no waiter
  /\ m_state \in {nolocked, locked_no_waiting}
  /\ Goto(c, "idle", "critical")
  /\ m_state' = locked_no_waiting
  /\ UNCHANGED <<m_resume_list_head, m_num_wait_task, state, to_resume>>

TryLock(c) ==
  \/ /\ m_state = nolocked
     /\ Goto(c, "idle", "critical")
     /\ m_state' = locked_no_waiting
     /\ UNCHANGED <<m_resume_list_head, m_num_wait_task, state, to_resume>>
  \/ /\ m_state # nolocked
     /\ Goto(c, "idle", "idle")
     /\ UNCHANGED <<m_state, m_resume_list_head, m_num_wait_task, state, to_resume>>

-----------------------------------------------------------------------------
(***************************************************************************)
(* unlock() by the owner c.                                                *)
(***************************************************************************)

\* There is a list to resume: detach its first awaiter.
UnlockFromList(c) ==
  /\ m_resume_list_head # <<>>
  /\ Goto(c, "critical", "resume")
  /\ to_resume' = [to_resume EXCEPT ![c] = Head(m_resume_list_head)]
  /\ m_resume_list_head' = Tail(m_resume_list_head)
  /\ UNCHANGED <<m_state, m_num_wait_task, state>>

Bug_UnlockCas(c) ==      \* frees the mutex without looking for new waiters
  /\ m_resume_list_head = <<>>
  /\ Goto(c, "critical", "idle")
  /\ m_state' = nolocked
  /\ UNCHANGED <<m_resume_list_head, m_num_wait_task, state, to_resume>>

\* There is none: CAS from locked_no_waiting to nolocked.
UnlockCas(c) ==
  /\ m_resume_list_head = <<>>
  /\ \/ /\ m_state = locked_no_waiting
        /\ m_state' = nolocked
        /\ Goto(c, "critical", "idle")
     \/ /\ m_state # locked_no_waiting
        /\ m_state' = m_state
        /\ Goto(c, "critical", "exchange")
  /\ UNCHANGED <<m_resume_list_head, m_num_wait_task, state, to_resume>>

Bug_UnlockExchange(c) == \* no reversal: last come, first served
  /\ Goto(c, "exchange", "resume")
  /\ m_state' = locked_no_waiting
  /\ to_resume' = [to_resume EXCEPT ![c] = Head(m_state)]
  /\ m_resume_list_head' = Tail(m_state)
  /\ UNCHANGED <<m_num_wait_task, state>>

\* Somebody waits: take the whole stack, reverse it, detach the oldest.
UnlockExchange(c) ==
  LET list == Reverse(m_state) IN
  /\ Goto(c, "exchange", "resume")
  /\ m_state' = locked_no_waiting
  /\ to_resume' = [to_resume EXCEPT ![c] = Head(list)]
  /\ m_resume_list_head' = Tail(list)
  /\ UNCHANGED <<m_num_wait_task, state>>

Bug_Resume(c) ==         \* drops the awaiter when others are still listed
  /\ pc[c] = "resume"
  /\ pc' = IF m_resume_list_head = <<>>
           THEN [pc EXCEPT ![c] = "idle", ![to_resume[c]] = "queued"]
           ELSE [pc EXCEPT ![c] = "idle"]
  /\ to_resume' = [to_resume EXCEPT ![c] = Nobody]
  /\ UNCHANGED <<m_state, m_resume_list_head, m_num_wait_task, state>>

\* mutex_awaiter::resume submits the coroutine to its context.
Resume(c) ==
  /\ pc[c] = "resume"
  /\ pc' = [pc EXCEPT ![c] = "idle", ![to_resume[c]] = "queued"]
  /\ to_resume' = [to_resume EXCEPT ![c] = Nobody]
  /\ UNCHANGED <<m_state, m_resume_list_head, m_num_wait_task, state>>

Unlock(c) == UnlockFromList(c) \/ UnlockCas(c) \/ UnlockExchange(c) \/ Resume(c)

\* Steps a coroutine takes once it has begun to lock or to unlock.
Proceed(c) == LoadState(c) \/ CasLock(c) \/ CasPush(c) \/ AwaitResume(c) \/ Unlock(c)

Step(c) == AwaitSuspend(c) \/ TryLock(c) \/ CasFail(c) \/ Proceed(c)

Next == \E c \in Coros : Step(c)

Spec == Init /\ [][Next]_vars

\* A coroutine inside lock() or unlock() is run again and again, its critical
\* section ends, and a weak CAS whose expected value is there does not fail
\* for ever; nobody is obliged to ask for the lock.
FairSpec == /\ Spec
            /\ \A c \in Coros : /\ WF_vars(Proceed(c) \/ CasFail(c))
                                /\ SF_vars(CasLock(c) \/ CasPush(c))

-----------------------------------------------------------------------------
(***************************************************************************)
(* Properties.                                                             *)
(***************************************************************************)

\* Every variable has its type; in particular the wait of a coroutine is
\* registered at most once at a time and never unregistered twice.
TypeOK ==
  /\ m_state \in Seq(Coros) \cup {nolocked}
  /\ m_resume_list_head \in Seq(Coros)
  /\ m_num_wait_task \in [Coros -> Nat]
  /\ pc \in [Coros -> {"idle", "load", "cas", "suspended", "queued", "critical",
                       "exchange", "resume"}]
  /\ state \in [Coros -> Coros \cup {nolocked, Nobody}]
  /\ to_resume \in [Coros -> Coros \cup {Nobody}]

\* Who owns the mutex: a coroutine in its critical section or in the part of
\* unlock before the lock is passed on, or one the lock was passed to.
Owner(c) == \/ pc[c] \in {"critical", "exchange", "queued"}
            \/ \E d \in Coros : pc[d] = "resume" /\ to_resume[d] = c

\* No two coroutines own the mutex, in particular no two are in the critical
\* section and no two touch m_resume_list_head (mutex.hpp 104).
MutualExclusion == \A c, d \in Coros : Owner(c) /\ Owner(d) => c = d

Stack   == IF m_state = nolocked THEN <<>> ELSE m_state
Waiting == m_resume_list_head \o Reverse(Stack)

\* Every suspended coroutine is exactly once in the two lists, or in the hands
\* of an unlock that is about to resume it: none is forgotten and none can be
\* resumed twice.
NoLostWaiter ==
  /\ IsInjective(Waiting)
  /\ \A c \in Coros :
       pc[c] = "suspended" <=> \/ c \in ToSet(Waiting)
                               \/ \E d \in Coros : pc[d] = "resume" /\ to_resume[d] = c

\* The asserts of unlock (mutex.cpp 100, 112, 124) and the destructor's
\* (mutex.hpp 84): a critical section never sees a free mutex, the exchange
\* finds a waiter, and a mutex that nobody owns or passes on is free, with
\* nobody listed and nobody suspended, however many are between their load
\* and their CAS.
UnlockAsserts ==
  /\ \A c \in Coros : /\ pc[c] = "critical" => m_state # nolocked
                      /\ pc[c] = "exchange" => m_state \notin {nolocked, locked_no_waiting}
  /\ (\A c \in Coros : pc[c] \in {"idle", "load", "cas", "suspended"}) =>
       m_state = nolocked /\ m_resume_list_head = <<>> /\ \A c \in Coros : pc[c] # "suspended"

\* The context of a coroutine that waits for the lock has a registered wait,
\* so that its worker loop does not take the context for idle.
WaitRegistered == \A c \in Coros :
  m_num_wait_task[c] = IF pc[c] \in {"load", "cas", "suspended", "queued"} THEN 1 ELSE 0

Holder == IF \E c \in Coros : Owner(c) THEN CHOOSE c \in Coros : Owner(c) ELSE Nobody
Fifo == INSTANCE FifoLock WITH holder <- Holder, waitq <- Waiting

\* The mutex is a FIFO lock: who has pushed its awaiter is served in the order
\* of the pushes (mutex.cpp 96, the reversal that makes it fair).
FifoRefinement == Fifo!FifoSpec

\* A suspended coroutine gets the lock.
NoStarvation == \A c \in Coros : pc[c] = "suspended" ~> pc[c] = "critical"
=============================================================================
