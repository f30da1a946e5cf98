------------------------------ MODULE WaitGroup ------------------------------
(***************************************************************************)
(* coro::wait_group: a counter m_count and a stack m_state of awaiters.    *)
(* wait() returns at once when the counter is zero and otherwise pushes    *)
(* its awaiter; the done() that takes the counter to zero takes the whole  *)
(* stack and resumes it.  The counter and the stack are two atomics.       *)
(*                                                                         *)
(* A list of awaiters is the sequence of its coroutines, newest first, and *)
(* a CAS compares heads.  Everyone runs on a context of its own.           *)
(* add() may be called by anybody at any time, also when the counter is at *)
(* zero: the wait_group is used again.  A waiter is one call of wait(), a  *)
(* coroutine that waits twice is two of them, and every call of done() is  *)
(* one that the constructor or an add() has counted.                       *)
(***************************************************************************)
EXTENDS Awaiters, Sequences, SequencesExt

CONSTANTS Workers,   \* coroutines counted by the constructor, each calls done()
          Extra      \* coroutines counted by an add(), before they call done()

ASSUME WaitGroupAssumption ==
  /\ IsFiniteSet(Workers)
  /\ Waiters \cap (Workers \cup Extra) = {} /\ Workers \cap Extra = {}
  /\ NULL \notin Waiters

\* m_state is the stack of awaiters.
VARIABLES
  head,       \* per waiter: the head await_suspend loaded
  walk,       \* per worker: what done() still has to resume
  resumed,    \* per waiter: how often it was submitted to its context
  late,       \* the done() calls that an add() has overtaken: it came after
              \* they took the counter to zero and before they returned
  woken,      \* has a done() that is not late resumed somebody since the last add()?
  destroyed   \* the wait_group object is gone

wgVars == <<m_count, m_state, m_num_wait_task, pc, head, walk, resumed, late, woken, destroyed>>

Doers == Workers \cup Extra
Top(s) == IF s = <<>> THEN NULL ELSE Head(s)

WgInit ==
  /\ m_count = Cardinality(Workers)
  /\ m_state = <<>>
  /\ m_num_wait_task = [w \in Waiters |-> 0]
  /\ pc = [x \in Waiters \cup Doers |-> IF x \in Extra THEN "unborn" ELSE "idle"]
  /\ head = [w \in Waiters |-> NULL]
  /\ walk = [d \in Doers |-> <<>>]
  /\ resumed = [w \in Waiters |-> 0]
  /\ late = {} /\ woken = FALSE
  /\ destroyed = FALSE

-----------------------------------------------------------------------------
(***************************************************************************)
(* co_await wg.wait()                                                      *)
(***************************************************************************)

AwaitSuspend(w) ==
  /\ Goto(w, "idle", "count")
  /\ m_num_wait_task' = [m_num_wait_task EXCEPT ![w] = @ + 1]
  /\ UNCHANGED <<m_count, m_state, head, walk, resumed, late, woken, destroyed>>

\* Load the counter; zero means: do not suspend.
LoadCount(w) ==
  /\ Goto(w, "count", IF m_count = 0 THEN "resume" ELSE "head")
  /\ UNCHANGED <<m_count, m_state, m_num_wait_task, head, walk, resumed, late, woken, destroyed>>

WgLoadHead(w) ==
  /\ Goto(w, "head", "cas")
  /\ head' = [head EXCEPT ![w] = Top(m_state)]
  /\ UNCHANGED <<m_count, m_state, m_num_wait_task, walk, resumed, late, woken, destroyed>>

WgCasPush(w) ==
  /\ Top(m_state) = head[w]
  /\ Goto(w, "cas", "suspended")
  /\ m_state' = <<w>> \o m_state
  /\ UNCHANGED <<m_count, m_num_wait_task, head, walk, resumed, late, woken, destroyed>>

\* The head has changed, or the weak CAS fails spuriously: start again.
WgCasFail(w) ==
  /\ Goto(w, "cas", "count")
  /\ UNCHANGED <<m_count, m_state, m_num_wait_task, head, walk, resumed, late, woken, destroyed>>

WgAwaitResume(w) ==
  /\ pc[w] \in {"resume", "queued"}
  /\ pc' = [pc EXCEPT ![w] = "done"]
  /\ m_num_wait_task' = [m_num_wait_task EXCEPT ![w] = @ - 1]
  /\ UNCHANGED <<m_count, m_state, head, walk, resumed, late, woken, destroyed>>

WgWait(w) == AwaitSuspend(w) \/ LoadCount(w) \/ WgLoadHead(w) \/ WgCasPush(w) \/ WgCasFail(w) \/ WgAwaitResume(w)

-----------------------------------------------------------------------------
(***************************************************************************)
(* add() and done()                                                        *)
(***************************************************************************)

\* add(n) counts n of these.
Add(e) ==
  /\ ~destroyed
  /\ Goto(e, "unborn", "idle")
  /\ m_count' = m_count + 1
  /\ late' = late \cup {d \in Doers : pc[d] \in {"exchange", "walk"}}
  /\ woken' = FALSE
  /\ UNCHANGED <<m_state, m_num_wait_task, head, walk, resumed, destroyed>>

Bug_FetchSub(d) ==       \* drains the list one done() too early
  /\ Goto(d, "idle", IF m_count <= 2 THEN "exchange" ELSE "done")
  /\ m_count' = m_count - 1
  /\ UNCHANGED <<m_state, m_num_wait_task, head, walk, resumed, late, woken, destroyed>>

FetchSub(d) ==
  /\ Goto(d, "idle", IF m_count = 1 THEN "exchange" ELSE "done")
  /\ m_count' = m_count - 1
  /\ UNCHANGED <<m_state, m_num_wait_task, head, walk, resumed, late, woken, destroyed>>

ExchangeList(d) ==
  /\ Goto(d, "exchange", "walk")
  /\ walk' = [walk EXCEPT ![d] = m_state]
  /\ m_state' = <<>>
  /\ UNCHANGED <<m_count, m_num_wait_task, head, resumed, late, woken, destroyed>>

Bug_TakeAgain(d) ==      \* takes the list again until it is empty
  /\ walk[d] # <<>>
  /\ pc[d] = "walk"
  /\ pc' = [pc EXCEPT ![Head(walk[d])] = "queued",
                     ![d] = IF Tail(walk[d]) = <<>> THEN "exchange" ELSE "walk"]
  /\ resumed' = [resumed EXCEPT ![Head(walk[d])] = @ + 1]
  /\ walk' = [walk EXCEPT ![d] = Tail(@)]
  /\ woken' = (woken \/ d \notin late)
  /\ UNCHANGED <<m_count, m_state, m_num_wait_task, head, late, destroyed>>

Bug_ResumeHead(d) ==     \* resumes one waiter only
  /\ walk[d] # <<>>
  /\ pc[d] = "walk"
  /\ pc' = [pc EXCEPT ![Head(walk[d])] = "queued", ![d] = "done"]
  /\ resumed' = [resumed EXCEPT ![Head(walk[d])] = @ + 1]
  /\ walk' = [walk EXCEPT ![d] = <<>>]
  /\ woken' = (woken \/ d \notin late)
  /\ UNCHANGED <<m_count, m_state, m_num_wait_task, head, late, destroyed>>

\* The loop of done(): m_next is read before the waiter is resumed.
ResumeHead(d) ==
  /\ walk[d] # <<>>
  /\ pc[d] = "walk"
  /\ pc' = [pc EXCEPT ![Head(walk[d])] = "queued"]
  /\ resumed' = [resumed EXCEPT ![Head(walk[d])] = @ + 1]
  /\ walk' = [walk EXCEPT ![d] = Tail(@)]
  /\ woken' = (woken \/ d \notin late)
  /\ UNCHANGED <<m_count, m_state, m_num_wait_task, head, late, destroyed>>

WgWalkDone(d) ==
  /\ walk[d] = <<>>
  /\ Goto(d, "walk", "done")
  /\ UNCHANGED <<m_count, m_state, m_num_wait_task, head, walk, resumed, late, woken, destroyed>>

Done(d) == FetchSub(d) \/ ExchangeList(d) \/ ResumeHead(d) \/ WgWalkDone(d)

-----------------------------------------------------------------------------
\* The wait_group lives in the frame of the coroutine that made it, which
\* ends when all that wait for the workers, itself included, are through.
Destroy ==
  /\ ~destroyed
  /\ \A w \in Waiters : pc[w] = "done"
  /\ destroyed' = TRUE
  /\ UNCHANGED <<m_count, m_state, m_num_wait_task, pc, head, walk, resumed, late, woken>>

\* The workers are through; a waiter may be suspended for ever.
WgTerminated == /\ \A d \in Doers : pc[d] \in {"done", "unborn"}
                /\ \A w \in Waiters : pc[w] \in {"done", "suspended"}
                /\ UNCHANGED wgVars

WgNext == \/ \E w \in Waiters : WgWait(w)
          \/ \E d \in Doers : Done(d)
          \/ \E e \in Extra : Add(e)
          \/ Destroy
          \/ WgTerminated

WgSpec == WgInit /\ [][WgNext]_wgVars

WgFairSpec == /\ WgSpec
              /\ \A w \in Waiters : WF_wgVars(WgWait(w)) /\ SF_wgVars(WgCasPush(w))
              /\ \A d \in Doers : WF_wgVars(Done(d))

-----------------------------------------------------------------------------
(***************************************************************************)
(* Properties.                                                             *)
(***************************************************************************)

Idle   == {d \in Doers : pc[d] = "idle"}
WgGate == INSTANCE Gate WITH left <- Cardinality(Idle), at <- At

\* A wait_group is a gate that may close again: wait() lets nobody through
\* while a counted coroutine has not called done(), and nobody is released or
\* returns twice (wait_group.cpp 11-16, 55-70).  The one exception: a done()
\* that an add() has overtaken may take those along who wait for the new
\* coroutine.
WaitGroupIsGate ==
  /\ WgGate!GateInit
  /\ [][\/ WgGate!GateNext \/ WgGate!AddCall
        \/ (\E d \in late : ResumeHead(d)) /\ \E w \in Waiters : WgGate!LetGo(w)]_(WgGate!gateVars)

\* done() touches nothing that is dead (wait_group.cpp 64-70).  A waiter is
\* submitted to its context at most once, and no list still names one that
\* was resumed; and when somebody was resumed and no add() came since, the
\* wait_group may go, but for a done() that an add() has overtaken, since a
\* walk only follows pointers it read before.  (A waiter that saw the counter
\* at zero may not let it go: then done() is still to exchange m_state.)
ResumedOnce ==
  \A w \in Waiters :
    /\ resumed[w] <= 1
    /\ (w \in ToSet(m_state) \/ \E d \in Doers : w \in ToSet(walk[d])) => pc[w] = "suspended"
SafeWalk ==
  /\ ResumedOnce
  /\ (destroyed /\ woken) => \A d \in Doers \ late : pc[d] \notin {"idle", "exchange"}

\* A waiter that is in the list while the counter is positive is resumed.
ListedIsReleased == \A w \in Waiters :
  (pc[w] = "suspended" /\ m_count > 0) ~> (pc[w] = "done")

\* done() wakes all waiters when the counter reaches zero (wait_group.cpp 47):
\* once the workers are through, nobody is suspended.
AllWoken == (\A d \in Doers : pc[d] \in {"done", "unborn"}) =>
               \A w \in Waiters : pc[w] # "suspended"
=============================================================================
