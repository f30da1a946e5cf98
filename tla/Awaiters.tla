------------------------------ MODULE Awaiters ------------------------------
(***************************************************************************)
(* What event, latch and wait_group have in common: coroutines that        *)
(* co_await wait() and are, on their way through it, pushed on a list that *)
(* starts at an atomic m_state, and taken from it by whoever opens the     *)
(* way.  Event, Latch and WaitGroup say how.                               *)
(***************************************************************************)
EXTENDS Integers, FiniteSets

CONSTANTS Waiters,   \* coroutines that co_await wait()
          NULL       \* the null pointer

VARIABLES
  m_state,          \* where the list of awaiters starts
  m_count,          \* the counter of a latch or wait_group
  m_num_wait_task,  \* per waiter: registered waits on its context
  pc                \* per coroutine

Goto(x, l, m) == pc[x] = l /\ pc' = [pc EXCEPT ![x] = m]

\* Where Gate, the promise of the three, sees a waiter.
Seen(l) == CASE l = "idle" -> "outside"
             [] l \in {"resume", "queued", "reading", "terminate"} -> "released"
             [] l = "done" -> "returned"
             [] OTHER -> "waiting"
At == [w \in Waiters |-> Seen(pc[w])]
=============================================================================
