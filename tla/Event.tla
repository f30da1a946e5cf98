-------------------------------- MODULE Event --------------------------------
(***************************************************************************)
(* coro::event: m_state is the event's own address once it is set, and     *)
(* otherwise the head of a linked list of awaiters pushed by CAS.  set()   *)
(* takes the list with one exchange and resumes every awaiter on it.       *)
(*                                                                         *)
(* The list is modelled pointer by pointer: an awaiter lives in the frame  *)
(* of its coroutine, so its m_next is garbage as soon as the coroutine has *)
(* gone past its co_await, which it may do while set() is still walking.   *)
(* Waiters and setters run on contexts of their own, in any interleaving.  *)
(* The container of event<T> is not atomic: set() overwrites it whenever   *)
(* it is called, and a waiter copies the result after it has looked for    *)
(* it, through a reference into the container unless T is a pod type.      *)
(* (An event<void> has no container: it is a latch of count 1, or of count *)
(* 0 if it is born set; see Latch.)                                        *)
(* The C++ memory order of the CAS is not modelled: atomics are            *)
(* sequentially consistent, as on x86-64.                                  *)
(***************************************************************************)
EXTENDS Awaiters

CONSTANTS Setters,   \* coroutines that call set()
          This,      \* the address of the event: "set"
          Garbage    \* what reading a dead awaiter yields

ASSUME EventAssumption ==
  /\ IsFiniteSet(Setters) /\ Waiters \cap Setters = {}
  /\ {NULL, This, Garbage} \cap Waiters = {}
  /\ NULL # This /\ This # Garbage /\ Garbage # NULL

\* m_state is NULL, This or the newest awaiter.
VARIABLES
  m_next,     \* per awaiter: the next awaiter of the list
  m_storage,  \* the container: "unset", "stored", "torn" by two set() at once,
              \* or "void": there is none
  ev,         \* what the event was made with: initial_set, and is T a pod type?
  got,        \* per waiter: what its co_await yielded
  old_value,  \* per waiter: register_awaiters' local
  waiter,     \* per setter: the awaiter the walk is at
  next        \* per setter: the local next of the walk

vars == <<m_state, m_next, m_num_wait_task, m_storage, ev, got, pc, old_value, waiter, next>>

Init ==
  /\ ev \in [initial_set : BOOLEAN, pod : BOOLEAN]
  /\ m_state = IF ev.initial_set THEN This ELSE NULL
  /\ m_next = [w \in Waiters |-> NULL]
  /\ m_num_wait_task = [w \in Waiters |-> 0]
  /\ m_storage = "unset"
  /\ got = [w \in Waiters |-> "nothing"]
  /\ pc = [x \in Waiters \cup Setters |-> "idle"]
  /\ old_value = [w \in Waiters |-> NULL]
  /\ waiter = [s \in Setters |-> NULL]
  /\ next = [s \in Setters |-> NULL]

-----------------------------------------------------------------------------
(***************************************************************************)
(* co_await ev.wait()                                                      *)
(***************************************************************************)

\* await_ready: register_wait, then is the event set?
AwaitReady(w) ==
  /\ Goto(w, "idle", IF m_state = This THEN "resume" ELSE "load")
  /\ m_num_wait_task' = [m_num_wait_task EXCEPT ![w] = @ + 1]
  /\ UNCHANGED <<m_state, m_next, m_storage, ev, got, old_value, waiter, next>>

\* register_awaiters: load m_state; give up when the event is set, else
\* make the awaiter point to the head that was loaded.
LoadHead(w) ==
  /\ Goto(w, "load", IF m_state = This THEN "resume" ELSE "cas")
  /\ old_value' = [old_value EXCEPT ![w] = m_state]
  /\ m_next' = [m_next EXCEPT ![w] = IF m_state = This THEN NULL ELSE m_state]
  /\ UNCHANGED <<m_state, m_num_wait_task, m_storage, ev, got, waiter, next>>

Bug_CasPush(w) ==        \* a store where the CAS is
  /\ Goto(w, "cas", "suspended")
  /\ m_state' = w
  /\ UNCHANGED <<m_next, m_num_wait_task, m_storage, ev, got, old_value, waiter, next>>

CasPush(w) ==
  /\ m_state = old_value[w]
  /\ Goto(w, "cas", "suspended")
  /\ m_state' = w
  /\ UNCHANGED <<m_next, m_num_wait_task, m_storage, ev, got, old_value, waiter, next>>

\* The head has changed, or compare_exchange_weak fails spuriously.
CasFail(w) ==
  /\ Goto(w, "cas", "load")
  /\ UNCHANGED <<m_state, m_next, m_num_wait_task, m_storage, ev, got, old_value, waiter, next>>

\* Somebody is putting a value into the container.
Storing == \E s \in Setters : pc[s] = "store"

\* The coroutine runs again, at once or from its context's queue:
\* await_resume unregisters and asks the container for the result.
\* It is there: a pod type is copied, for others a reference is returned.
AwaitResume(w) ==
  /\ pc[w] \in {"resume", "queued"}
  /\ m_storage \in {"stored", "torn"} \/ Storing
  /\ pc' = [pc EXCEPT ![w] = "reading"]
  /\ m_num_wait_task' = [m_num_wait_task EXCEPT ![w] = @ - 1]
  /\ UNCHANGED <<m_state, m_next, m_storage, ev, got, old_value, waiter, next>>

\* Nothing is there: a pod container returns T{} ...
ResultUnset(w) ==
  /\ pc[w] \in {"resume", "queued"} /\ ev.pod /\ m_storage = "unset"
  /\ pc' = [pc EXCEPT ![w] = "done"]
  /\ m_num_wait_task' = [m_num_wait_task EXCEPT ![w] = @ - 1]
  /\ got' = [got EXCEPT ![w] = "unset"]
  /\ m_next' = [m_next EXCEPT ![w] = Garbage]
  /\ UNCHANGED <<m_state, m_storage, ev, old_value, waiter, next>>

\* ... the others, which hold nothing while they are overwritten too, throw
\* out of await_resume, which is noexcept.
ResultThrows(w) ==
  /\ pc[w] \in {"resume", "queued"} /\ ~ev.pod
  /\ m_storage \in {"unset", "torn"} \/ Storing
  /\ pc' = [pc EXCEPT ![w] = "terminate"]
  /\ m_num_wait_task' = [m_num_wait_task EXCEPT ![w] = @ - 1]
  /\ UNCHANGED <<m_state, m_next, m_storage, ev, got, old_value, waiter, next>>

\* event<void>: there is no result.
ResumeVoid(w) ==
  /\ pc[w] \in {"resume", "queued"} /\ m_storage = "void"
  /\ pc' = [pc EXCEPT ![w] = "done"]
  /\ m_num_wait_task' = [m_num_wait_task EXCEPT ![w] = @ - 1]
  /\ m_next' = [m_next EXCEPT ![w] = Garbage]
  /\ UNCHANGED <<m_state, m_storage, ev, got, old_value, waiter, next>>

\* The value is copied; the awaiter dies with the co_await expression.
CopyResult(w) ==
  /\ Goto(w, "reading", "done")
  /\ got' = [got EXCEPT ![w] = IF Storing THEN "torn" ELSE m_storage]
  /\ m_next' = [m_next EXCEPT ![w] = Garbage]
  /\ UNCHANGED <<m_state, m_num_wait_task, m_storage, ev, old_value, waiter, next>>

Resume(w) == AwaitResume(w) \/ ResultUnset(w) \/ ResultThrows(w) \/ ResumeVoid(w) \/ CopyResult(w)

Wait(w) == AwaitReady(w) \/ LoadHead(w) \/ CasPush(w) \/ CasFail(w) \/ Resume(w)

-----------------------------------------------------------------------------
(***************************************************************************)
(* ev.set(value)                                                           *)
(***************************************************************************)

Bug_BeginStore(s) ==     \* set_state() does not wait for the value
  /\ Goto(s, "idle", "exchange")
  /\ UNCHANGED <<m_state, m_next, m_num_wait_task, m_storage, ev, got, old_value, waiter, next>>

\* return_value: the container is overwritten, whatever it holds and whoever
\* reads it or writes it, ...
BeginStore(s) ==
  /\ Goto(s, "idle", "store")
  /\ m_storage' = IF Storing THEN "torn" ELSE m_storage
  /\ UNCHANGED <<m_state, m_next, m_num_wait_task, ev, got, old_value, waiter, next>>

\* ... and holds the value.
StoreValue(s) ==
  /\ Goto(s, "store", "exchange")
  /\ m_storage' = IF m_storage = "torn" THEN "torn" ELSE "stored"
  /\ UNCHANGED <<m_state, m_next, m_num_wait_task, ev, got, old_value, waiter, next>>

\* set_state: exchange, and walk the list unless the event was set before.
Exchange(s) ==
  /\ Goto(s, "exchange", "walk")
  /\ m_state' = This
  /\ waiter' = [waiter EXCEPT ![s] = IF m_state = This THEN NULL ELSE m_state]
  /\ UNCHANGED <<m_next, m_num_wait_task, m_storage, ev, got, old_value, next>>

Bug_ReadNext(s) ==       \* stops at the last but one awaiter
  /\ waiter[s] # NULL
  /\ Goto(s, "walk", IF m_next[waiter[s]] = NULL THEN "done" ELSE "submit")
  /\ next' = [next EXCEPT ![s] = m_next[waiter[s]]]
  /\ UNCHANGED <<m_state, m_next, m_num_wait_task, m_storage, ev, got, old_value, waiter>>

\* resume_all_awaiters: read cur->m_next ...
ReadNext(s) ==
  /\ waiter[s] # NULL
  /\ Goto(s, "walk", "submit")
  /\ next' = [next EXCEPT ![s] = m_next[waiter[s]]]
  /\ UNCHANGED <<m_state, m_next, m_num_wait_task, m_storage, ev, got, old_value, waiter>>

Bug_SubmitAwaiter(s) ==  \* reads cur->m_next after the submission
  /\ pc[s] = "submit"
  /\ IF pc[waiter[s]] = "suspended"
     THEN /\ pc' = [pc EXCEPT ![waiter[s]] = "queued"]
          /\ UNCHANGED waiter
     ELSE /\ pc' = [pc EXCEPT ![s] = "walk"]
          /\ waiter' = [waiter EXCEPT ![s] = m_next[waiter[s]]]
  /\ UNCHANGED <<m_state, m_next, m_num_wait_task, m_storage, ev, got, old_value, next>>

\* ... submit the coroutine to its context, go on to next.
SubmitAwaiter(s) ==
  /\ pc[s] = "submit"
  /\ pc' = [pc EXCEPT ![s] = "walk", ![waiter[s]] = "queued"]
  /\ waiter' = [waiter EXCEPT ![s] = next[s]]
  /\ UNCHANGED <<m_state, m_next, m_num_wait_task, m_storage, ev, got, old_value, next>>

WalkDone(s) ==
  /\ waiter[s] = NULL
  /\ Goto(s, "walk", "done")
  /\ UNCHANGED <<m_state, m_next, m_num_wait_task, m_storage, ev, got, old_value, waiter, next>>

SetState(s) == Exchange(s) \/ ReadNext(s) \/ SubmitAwaiter(s) \/ WalkDone(s)

Set(s) == BeginStore(s) \/ StoreValue(s) \/ SetState(s)

\* std::terminate was called: nobody runs any more.
Dead == \E w \in Waiters : pc[w] = "terminate"

\* Everybody is done, or nobody runs: a state in which the program stops, not a
\* deadlock.
Terminated == (Dead \/ \A x \in Waiters \cup Setters : pc[x] = "done") /\ UNCHANGED vars

-----------------------------------------------------------------------------
(***************************************************************************)
(* Properties.                                                             *)
(***************************************************************************)

\* The awaiter a setter is about to dereference or to submit is alive: its
\* coroutine is still suspended, so none is resumed twice either, whatever
\* number of set() calls overlap (event.cpp 35, the order of the loop).
NoDanglingWalk == \A s \in Setters :
  (pc[s] \in {"walk", "submit"} /\ waiter[s] # NULL) =>
     waiter[s] \in Waiters /\ pc[waiter[s]] = "suspended"

\* set() was called more than once.
SetAgain == \E r, s \in Setters : r # s /\ pc[r] # "idle" /\ pc[s] # "idle"

\* co_await yields what set() was given: nothing is unset except in an event
\* that was born set (event.hpp 57), and neither does a store run into a copy,
\* nor does a result() that finds nothing end the process, unless the event was
\* born set or set() is called again (event.hpp 117-138, container.hpp 38-97).
ResultIsSet == \A w \in Waiters :
  /\ got[w] = "unset" => ev.initial_set
  /\ (got[w] = "torn" \/ Dead) => ev.initial_set \/ SetAgain

\* Once the event is set, nobody is left behind in a list nobody walks: every
\* waiter that is not through is resumed, unless the process ends.  (set() is
\* called at least once.)
AllReleased == <>(Dead \/ \A w \in Waiters : pc[w] = "done")
=============================================================================
