-------------------------------- MODULE Latch --------------------------------
(***************************************************************************)
(* coro::latch, a counter on top of an event, or the event by itself.      *)
(* Every count_down() that brings the counter to zero, or finds it there   *)
(* or below, sets the event; wait() is the event's.  A behaviour starts    *)
(* with a bare event<T>, or with a latch of one of the counts.             *)
(***************************************************************************)
EXTENDS Event

CONSTANTS Counts,     \* the counts a latch is made with, unsigned
          NoLatch,    \* there is no latch, the setters call set()
          Int64Max    \* the largest value of m_count, which is signed

ASSUME CountAssumption ==
  /\ Int64Max \in Nat
  /\ Counts \subseteq 0 .. (2 * Int64Max + 1) /\ NoLatch \notin Counts

VARIABLE count   \* what the latch was built with, or NoLatch

latch     == <<m_count, count>>
latchVars == <<vars, latch>>

\* The conversion of an unsigned count to m_count's type.
ToInt64(n) == IF n <= Int64Max THEN n ELSE n - 2 * (Int64Max + 1)

\* The constructor: a latch of count 0 is born with its event set.
LatchInit ==
  /\ count \in Counts /\ m_count = ToInt64(count)
  /\ ev = [initial_set |-> count <= 0, pod |-> FALSE]
  /\ m_state = IF ev.initial_set THEN This ELSE NULL
  /\ m_storage = "void"
  /\ m_next = [w \in Waiters |-> NULL]
  /\ m_num_wait_task = [w \in Waiters |-> 0]
  /\ got = [w \in Waiters |-> "nothing"]
  /\ pc = [x \in Waiters \cup Setters |-> "idle"]
  /\ old_value = [w \in Waiters |-> NULL]
  /\ waiter = [s \in Setters |-> NULL]
  /\ next = [s \in Setters |-> NULL]

BareInit == Init /\ count = NoLatch /\ m_count = NoLatch

Bug_CountDown(s) ==      \* sets the event one count_down too early
  /\ Goto(s, "idle", IF m_count <= 2 THEN "exchange" ELSE "done")
  /\ m_count' = m_count - 1
  /\ UNCHANGED <<m_state, m_next, m_num_wait_task, m_storage, ev, got, old_value, waiter, next, count>>

\* fetch_sub(1) <= 1: the last one, and everyone after it, calls set().
CountDown(s) ==
  /\ Goto(s, "idle", IF m_count <= 1 THEN "exchange" ELSE "done")
  /\ m_count' = m_count - 1
  /\ UNCHANGED <<m_state, m_next, m_num_wait_task, m_storage, ev, got, old_value, waiter, next, count>>

\* One step of a setter: set() of the event, or count_down() of the latch.
SetterStep(s) ==
  \/ count = NoLatch /\ (BeginStore(s) \/ StoreValue(s)) /\ UNCHANGED latch
  \/ count # NoLatch /\ CountDown(s)
  \/ SetState(s) /\ UNCHANGED latch

\* A step of a thread, while the process lives.
WaiterRuns(w) == ~Dead /\ Wait(w) /\ UNCHANGED latch
SetterRuns(s) == ~Dead /\ SetterStep(s)

LatchNext == \/ \E w \in Waiters : WaiterRuns(w)
             \/ \E s \in Setters : SetterRuns(s)
             \/ Terminated /\ UNCHANGED latch

\* Threads run, and a weak CAS whose expected value is there does not fail
\* for ever.
LatchFairness ==
  /\ \A w \in Waiters : /\ WF_latchVars(WaiterRuns(w))
                        /\ SF_latchVars(~Dead /\ CasPush(w) /\ UNCHANGED latch)
  /\ \A s \in Setters : WF_latchVars(SetterRuns(s))

LatchSpec == /\ BareInit \/ LatchInit
             /\ [][LatchNext]_latchVars
             /\ LatchFairness

-----------------------------------------------------------------------------
\* Calls of set() or of count_down() that open the way, and how many of them
\* are still to be made.  A count that does not fit in m_count is taken for a
\* negative one: the first count_down() opens.
Needed == IF ev.initial_set THEN 0
          ELSE IF count = NoLatch \/ ToInt64(count) < 0 THEN 1 ELSE count
Begun  == {s \in Setters : pc[s] # "idle"}
Missing == IF Cardinality(Begun) >= Needed THEN 0 ELSE Needed - Cardinality(Begun)

LatchGate == INSTANCE Gate WITH left <- Missing, at <- At

\* An event or a latch is a gate: nobody gets through before set(), or before
\* count_down() was called as often as the count says, nobody is released or
\* returns twice, and it never closes again (latch.hpp 48-52, event.cpp 23-38).
LatchIsGate == LatchGate!GateSpec

\* Nobody is left behind: when the event is set and no set() walks its list,
\* no coroutine is suspended, whoever pushed or set() meanwhile (event.cpp
\* 43-54: the CAS that fails once m_state is the event's own address).
NobodyLeft ==
  (m_state = This /\ \A s \in Setters : pc[s] \notin {"walk", "submit"}) =>
     \A w \in Waiters : pc[w] # "suspended"
=============================================================================
