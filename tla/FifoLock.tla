------------------------------- MODULE FifoLock -------------------------------
(***************************************************************************)
(* What coro::mutex promises: a lock with a queue.  A request finds the    *)
(* lock free and gets it, or joins the end of the queue; a release gives   *)
(* the lock to the first of the queue, and only frees it when nobody       *)
(* waits.  Nobody overtakes a queued request.                              *)
(***************************************************************************)
EXTENDS Sequences

CONSTANTS Coros,  \* the coroutines that use the lock
          Nobody  \* not a coroutine

VARIABLES holder,  \* who owns the lock, or Nobody
          waitq    \* who waits for it, first come first served

fifoVars == <<holder, waitq>>

FifoInit == holder = Nobody /\ waitq = <<>>

Acquire(c) == /\ holder = Nobody
              /\ holder' = c
              /\ UNCHANGED waitq

Enqueue(c) == /\ holder # Nobody
              /\ waitq' = Append(waitq, c)
              /\ UNCHANGED holder

Release == /\ holder # Nobody
           /\ waitq = <<>>
           /\ holder' = Nobody
           /\ UNCHANGED waitq

HandOver == /\ holder # Nobody
            /\ waitq # <<>>
            /\ holder' = Head(waitq)
            /\ waitq' = Tail(waitq)

FifoNext == \/ \E c \in Coros : Acquire(c) \/ Enqueue(c)
            \/ Release
            \/ HandOver

FifoSpec == FifoInit /\ [][FifoNext]_fifoVars
=============================================================================
