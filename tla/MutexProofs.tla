----------------------------- MODULE MutexProofs -----------------------------
(***************************************************************************)
(* Theorems about Mutex, for every set of coroutines, finite or not: the   *)
(* mutex excludes, loses no waiter, keeps its asserts, and implements the  *)
(* FIFO lock.                                                              *)
(***************************************************************************)
EXTENDS Mutex, ListLemmas

\* The lock is carried by exactly one coroutine as long as m_state is not
\* nolocked: its owner, or the one that is handing it over.
Carries(c) == pc[c] \in {"critical", "exchange", "queued", "resume"}

OneCarrier == /\ \A c, d \in Coros : Carries(c) /\ Carries(d) => c = d
              /\ m_state = nolocked <=> \A c \in Coros : ~Carries(c)

\* A free mutex has nobody to resume, and unlock() only looks at the stack
\* when the resume list is empty and the stack is not.
ListsInv == /\ m_state = nolocked => m_resume_list_head = <<>>
            /\ \A c \in Coros : pc[c] = "exchange" => /\ m_state \notin {nolocked, <<>>}
                                                      /\ m_resume_list_head = <<>>

\* A coroutine that is being handed the lock is in no list any more.
InHand == \A c \in Coros : pc[c] = "resume" => /\ to_resume[c] \in Coros
                                               /\ to_resume[c] \notin ToSet(Waiting)

\* The inductive invariant.
MutexInv == TypeOK /\ OneCarrier /\ ListsInv /\ InHand /\ NoLostWaiter /\ WaitRegistered

-----------------------------------------------------------------------------
(***************************************************************************)
(* What the steps do to the queue of waiters.                              *)
(***************************************************************************)

\* m_state is nolocked or the stack; a pointer tells which.
LEMMA StackFacts ==
  ASSUME TypeOK
  PROVE  /\ Stack \in Seq(Coros) /\ Waiting \in Seq(Coros)
         /\ m_state # nolocked => m_state \in Seq(Coros) /\ Stack = m_state
         /\ Pointer(m_state) \in Coros \cup {nolocked, Nobody}
         /\ m_state # nolocked => Pointer(m_state) # nolocked
<1>1. /\ Stack \in Seq(Coros)
      /\ m_state # nolocked => m_state \in Seq(Coros) /\ Stack = m_state
  BY EmptySeq DEF TypeOK, Stack
<1>2. Waiting \in Seq(Coros)
  BY <1>1, ReverseProperties, ConcatProperties DEF TypeOK, Waiting
<1>3. m_state # nolocked /\ m_state # <<>> => Head(m_state) \in Coros
  BY <1>1, HeadTailProperties
<1>. QED BY <1>1, <1>2, <1>3, CorosAssumption DEF Pointer, locked_no_waiting

\* The CAS of register_lock puts the coroutine at the end of the queue.
LEMMA PushWaiting ==
  ASSUME TypeOK, NEW c \in Coros, CasPush(c)
  PROVE  m_state # nolocked /\ Waiting' = Append(Waiting, c)
<1>1. m_state # nolocked
  BY DEF CasPush, Pointer
<1>2. /\ m_state \in Seq(Coros) /\ Stack = m_state /\ m_state' = <<c>> \o m_state
      /\ m_state' \in Seq(Coros)
  BY <1>1, StackFacts, ConcatProperties DEF CasPush
<1>3. Stack' = <<c>> \o Stack
  BY <1>2, CorosAssumption DEF Stack
<1>4. Waiting' = m_resume_list_head \o Append(Reverse(Stack), c)
  BY <1>2, <1>3, ReversePush DEF Waiting, CasPush
<1>5. Reverse(Stack) \in Seq(Coros) /\ m_resume_list_head \in Seq(Coros)
  BY <1>2, ReverseProperties DEF TypeOK
<1>6. \A r, q \in Seq(Coros) : r \o Append(q, c) = Append(r \o q, c)
  OBVIOUS
<1>. QED BY <1>1, <1>4, <1>5, <1>6 DEF Waiting

\* unlock() takes the first of the queue, from whichever list it is in.
LEMMA TakeWaiting ==
  ASSUME TypeOK, ListsInv, NEW c \in Coros, UnlockFromList(c) \/ UnlockExchange(c)
  PROVE  /\ Waiting # <<>> /\ Waiting' = Tail(Waiting)
         /\ to_resume' = [to_resume EXCEPT ![c] = Head(Waiting)]
<1>. DEFINE rl == m_resume_list_head
<1>1. rl \in Seq(Coros) /\ Reverse(Stack) \in Seq(Coros)
  BY StackFacts, ReverseProperties DEF TypeOK
<1>2. CASE UnlockFromList(c)
  <2>1. \A r, q \in Seq(Coros) : r # <<>> => /\ r \o q # <<>>
                                             /\ Head(r \o q) = Head(r)
                                             /\ Tail(r \o q) = Tail(r) \o q
    <3> SUFFICES ASSUME NEW r \in Seq(Coros), NEW q \in Seq(Coros), r # <<>>
                 PROVE  /\ r \o q # <<>> /\ Head(r \o q) = Head(r)
                        /\ Tail(r \o q) = Tail(r) \o q
      OBVIOUS
    <3>. QED BY ConcatProperties, HeadTailProperties, EmptySeq, LenProperties
  <2>2. rl # <<>> /\ rl' = Tail(rl) /\ Stack' = Stack
    BY <1>2 DEF UnlockFromList, Stack
  <2>3. to_resume' = [to_resume EXCEPT ![c] = Head(rl)]
    BY <1>2 DEF UnlockFromList
  <2>. QED BY <1>1, <2>1, <2>2, <2>3 DEF Waiting
<1>3. CASE UnlockExchange(c)
  <2>1. /\ m_state \notin {nolocked, <<>>} /\ rl = <<>>
        /\ m_state \in Seq(Coros) /\ Stack = m_state
    BY <1>3, StackFacts DEF UnlockExchange, Goto, ListsInv
  <2>2. Waiting = Reverse(m_state)
    BY <1>1, <2>1 DEF Waiting
  <2>3. Waiting # <<>> /\ Waiting \in Seq(Coros)
    BY <2>1, <2>2, ReverseProperties, EmptySeq, LenProperties
  <2>4. /\ to_resume' = [to_resume EXCEPT ![c] = Head(Waiting)]
        /\ rl' = Tail(Waiting) /\ Stack' = <<>>
    BY <1>3, <2>2, CorosAssumption DEF UnlockExchange, Stack, locked_no_waiting
  <2>5. Waiting' = Tail(Waiting) \o <<>>
    BY <2>4, ReverseEmpty DEF Waiting
  <2>. QED BY <2>3, <2>4, <2>5, HeadTailProperties, ConcatEmptySeq
<1>. QED BY <1>2, <1>3

-----------------------------------------------------------------------------
(***************************************************************************)
(* The invariant.                                                          *)
(***************************************************************************)

\* It holds in the beginning.
LEMMA MutexInit == Init => MutexInv
<1> SUFFICES ASSUME Init PROVE MutexInv
  OBVIOUS
<1>1. TypeOK
  BY EmptySeq DEF Init, TypeOK
<1>2. Waiting = <<>>
  BY ReverseEmpty DEF Init, Waiting, Stack
<1>3. NoLostWaiter
  BY <1>2 DEF Init, NoLostWaiter, IsInjective, ToSet
<1>. QED BY <1>1, <1>3 DEF Init, MutexInv, OneCarrier, Carries, ListsInv, InHand, WaitRegistered

\* A step that changes neither list nor hands a waiter over leaves the queue
\* as it is.
LEMMA SameWaiting == UNCHANGED <<m_state, m_resume_list_head>> => UNCHANGED Waiting
BY DEF Waiting, Stack

\* Asking for the lock: await_suspend, the load, a CAS that fails.
LEMMA AskInv ==
  ASSUME MutexInv, NEW c \in Coros, AwaitSuspend(c) \/ LoadState(c) \/ CasFail(c)
  PROVE  MutexInv'
<1>. USE DEF MutexInv
<1>. DEFINE l == IF pc[c] = "load" THEN "cas" ELSE "load"
<1>1. /\ pc[c] \in {"idle", "load", "cas"} /\ pc' = [pc EXCEPT ![c] = l]
      /\ m_num_wait_task' = [m_num_wait_task EXCEPT ![c] = 1]
      /\ UNCHANGED <<m_state, m_resume_list_head, to_resume>>
  BY DEF AwaitSuspend, LoadState, CasFail, Goto, TypeOK, WaitRegistered
<1>2. state' \in [Coros -> Coros \cup {nolocked, Nobody}]
  BY StackFacts DEF AwaitSuspend, LoadState, CasFail, TypeOK
<1>3. TypeOK'
  BY <1>1, <1>2 DEF TypeOK
<1>4. OneCarrier' /\ ListsInv'
  BY <1>1 DEF TypeOK, OneCarrier, Carries, ListsInv
<1>5. WaitRegistered'
  BY <1>1 DEF TypeOK, WaitRegistered
<1>6. InHand' /\ NoLostWaiter'
  BY <1>1, SameWaiting DEF TypeOK, InHand, NoLostWaiter
<1>. QED BY <1>3, <1>4, <1>5, <1>6

\* Getting a free lock: by the CAS of lock() or of try_lock().
LEMMA LockInv ==
  ASSUME MutexInv, NEW c \in Coros, CasLock(c) \/ TryLock(c)
  PROVE  MutexInv'
<1>. USE DEF MutexInv, CasLock, TryLock, Goto, Unregister
<1>1. CASE m_state # nolocked
  <2>1. pc' = pc /\ UNCHANGED <<m_state, m_resume_list_head, m_num_wait_task, state, to_resume>>
    BY <1>1 DEF TypeOK
  <2>. QED BY <2>1, SameWaiting DEF TypeOK, OneCarrier, Carries, ListsInv, InHand,
              NoLostWaiter, WaitRegistered
<1>2. CASE m_state = nolocked
  <2>1. /\ m_state' = <<>> /\ pc' = [pc EXCEPT ![c] = "critical"]
        /\ pc[c] \in {"idle", "cas"}
        /\ m_num_wait_task' = [m_num_wait_task EXCEPT ![c] = IF pc[c] = "cas" THEN @ - 1 ELSE @]
        /\ UNCHANGED <<m_resume_list_head, state, to_resume>>
    BY <1>2 DEF locked_no_waiting, TypeOK
  <2>2. TypeOK'
    BY <2>1, EmptySeq DEF TypeOK, WaitRegistered
  <2>3. \A d \in Coros : ~Carries(d) /\ (Carries(d)' <=> d = c)
    BY <1>2, <2>1 DEF TypeOK, OneCarrier, Carries
  <2>4. m_state' # nolocked
    BY <2>1, EmptySeq, CorosAssumption
  <2>5. OneCarrier'
    BY <2>3, <2>4 DEF OneCarrier
  <2>6. \A d \in Coros : pc'[d] # "exchange"
    BY <1>2, <2>1 DEF TypeOK, OneCarrier, Carries
  <2>7. OneCarrier' /\ ListsInv'
    BY <2>5, <2>6, <2>4 DEF ListsInv
  <2>8. WaitRegistered'
    BY <2>1 DEF TypeOK, WaitRegistered
  <2>9. Waiting' = Waiting
    BY <1>2, <2>1, CorosAssumption, EmptySeq DEF Waiting, Stack
  <2>10. InHand' /\ NoLostWaiter'
    BY <2>1, <2>9 DEF TypeOK, InHand, NoLostWaiter
  <2>. QED BY <2>2, <2>7, <2>8, <2>10
<1>. QED BY <1>1, <1>2

\* Joining the queue.
LEMMA PushInv ==
  ASSUME MutexInv, NEW c \in Coros, CasPush(c)
  PROVE  MutexInv'
<1>. USE DEF MutexInv
<1>1. /\ m_state # nolocked /\ m_state \in Seq(Coros) /\ m_state' = <<c>> \o m_state
      /\ pc[c] = "cas" /\ pc' = [pc EXCEPT ![c] = "suspended"]
      /\ UNCHANGED <<m_resume_list_head, m_num_wait_task, state, to_resume>>
  BY PushWaiting, StackFacts DEF CasPush, Goto
<1>2. m_state' \in Seq(Coros) /\ m_state' # <<>> /\ m_state' # nolocked
  <2>1. <<c>> \in Seq(Coros) /\ Len(<<c>>) = 1
    OBVIOUS
  <2>2. m_state' \in Seq(Coros) /\ Len(m_state') = 1 + Len(m_state) /\ Len(m_state) \in Nat
    BY <1>1, <2>1, ConcatProperties, LenProperties
  <2>. QED BY <2>2, EmptySeq, CorosAssumption
<1>3. TypeOK'
  BY <1>1, <1>2 DEF TypeOK
<1>4. OneCarrier' /\ ListsInv' /\ WaitRegistered'
  BY <1>1, <1>2 DEF TypeOK, OneCarrier, Carries, ListsInv, WaitRegistered
<1>5. /\ Waiting' \in Seq(Coros) /\ ToSet(Waiting') = ToSet(Waiting) \cup {c}
      /\ IsInjective(Waiting')
  <2>1. IsInjective(Waiting) /\ c \notin ToSet(Waiting)
    BY <1>1 DEF NoLostWaiter
  <2>2. Waiting \in Seq(Coros) /\ Waiting' = Append(Waiting, c)
    BY PushWaiting, StackFacts
  <2>. QED BY <2>1, <2>2, AppendSet
<1>6. \A d \in Coros : (pc'[d] = "resume" <=> pc[d] = "resume") /\ (pc'[d] = "suspended" <=> pc[d] = "suspended" \/ d = c)
  BY <1>1 DEF TypeOK
<1>7. InHand'
  <2>1. \A d \in Coros : pc[d] = "resume" => to_resume[d] # c
    BY <1>1 DEF NoLostWaiter
  <2>. QED BY <1>1, <1>5, <1>6, <2>1 DEF InHand
<1>8. NoLostWaiter'
  BY <1>1, <1>5, <1>6 DEF NoLostWaiter
<1>. QED BY <1>3, <1>4, <1>7, <1>8

\* Being resumed with the lock.
LEMMA AwaitResumeInv ==
  ASSUME MutexInv, NEW c \in Coros, AwaitResume(c)
  PROVE  MutexInv'
<1>. USE DEF MutexInv, AwaitResume, Goto, Unregister
<1>1. TypeOK'
  BY DEF TypeOK, WaitRegistered
<1>2. OneCarrier' /\ ListsInv' /\ WaitRegistered'
  BY DEF TypeOK, OneCarrier, Carries, ListsInv, WaitRegistered
<1>3. InHand' /\ NoLostWaiter'
  BY SameWaiting DEF TypeOK, InHand, NoLostWaiter
<1>. QED BY <1>1, <1>2, <1>3

\* unlock() without a waiter in the resume list.
LEMMA UnlockCasInv ==
  ASSUME MutexInv, NEW c \in Coros, UnlockCas(c)
  PROVE  MutexInv'
<1>. USE DEF MutexInv, Goto
<1>1. CASE m_state = <<>>
  <2>1. /\ m_state' = nolocked /\ pc[c] = "critical" /\ pc' = [pc EXCEPT ![c] = "idle"]
        /\ m_resume_list_head = <<>>
        /\ UNCHANGED <<m_resume_list_head, m_num_wait_task, state, to_resume>>
    BY <1>1 DEF UnlockCas, locked_no_waiting
  <2>2. TypeOK'
    BY <2>1 DEF TypeOK
  <2>3. OneCarrier' /\ ListsInv' /\ WaitRegistered'
    BY <2>1 DEF TypeOK, OneCarrier, Carries, ListsInv, WaitRegistered
  <2>4. Waiting' = Waiting
    BY <1>1, <2>1 DEF Waiting, Stack
  <2>5. InHand' /\ NoLostWaiter'
    BY <2>1, <2>4 DEF TypeOK, InHand, NoLostWaiter
  <2>. QED BY <2>2, <2>3, <2>5
<1>2. CASE m_state # <<>>
  <2>1. /\ pc[c] = "critical" /\ pc' = [pc EXCEPT ![c] = "exchange"]
        /\ m_resume_list_head = <<>>
        /\ UNCHANGED <<m_state, m_resume_list_head, m_num_wait_task, state, to_resume>>
    BY <1>2 DEF UnlockCas, locked_no_waiting
  <2>2. m_state # nolocked
    BY <2>1 DEF OneCarrier, Carries
  <2>3. TypeOK'
    BY <2>1 DEF TypeOK
  <2>4. OneCarrier' /\ ListsInv' /\ WaitRegistered'
    BY <1>2, <2>1, <2>2 DEF TypeOK, OneCarrier, Carries, ListsInv, WaitRegistered
  <2>5. InHand' /\ NoLostWaiter'
    BY <2>1, SameWaiting DEF TypeOK, InHand, NoLostWaiter
  <2>. QED BY <2>3, <2>4, <2>5
<1>. QED BY <1>1, <1>2

\* unlock() takes the first waiter.
LEMMA UnlockTakeInv ==
  ASSUME MutexInv, NEW c \in Coros, UnlockFromList(c) \/ UnlockExchange(c)
  PROVE  MutexInv'
<1>. USE DEF MutexInv
<1>. DEFINE h == Head(Waiting)
<1>1. /\ Waiting # <<>> /\ Waiting' = Tail(Waiting)
      /\ to_resume' = [to_resume EXCEPT ![c] = h]
  BY TakeWaiting
<1>2. /\ Waiting' \in Seq(Coros) /\ IsInjective(Waiting') /\ h \in Coros
      /\ h \notin ToSet(Waiting') /\ ToSet(Waiting) = ToSet(Waiting') \cup {h}
  BY <1>1, StackFacts, TailSet DEF NoLostWaiter
<1>3. /\ pc[c] \in {"critical", "exchange"} /\ pc' = [pc EXCEPT ![c] = "resume"]
      /\ UNCHANGED <<m_num_wait_task, state>>
      /\ m_state' \in {m_state, <<>>} /\ m_state # nolocked
  BY DEF UnlockFromList, UnlockExchange, Goto, locked_no_waiting, OneCarrier, Carries
<1>4. m_state' # nolocked /\ m_state' \in Seq(Coros)
  BY <1>3, StackFacts, EmptySeq, CorosAssumption
<1>5. m_resume_list_head' \in Seq(Coros)
  <2>1. CASE UnlockFromList(c)
    BY <2>1, HeadTailProperties DEF UnlockFromList, TypeOK
  <2>2. CASE UnlockExchange(c)
    <3>1. m_state \in Seq(Coros) /\ m_state # <<>>
      BY <2>2, <1>3, StackFacts DEF UnlockExchange, Goto, ListsInv
    <3>2. Reverse(m_state) \in Seq(Coros) /\ Reverse(m_state) # <<>>
      BY <3>1, ReverseProperties, EmptySeq, LenProperties
    <3>. QED BY <2>2, <3>2, HeadTailProperties DEF UnlockExchange
  <2>. QED BY <2>1, <2>2
<1>. HIDE DEF h
<1>6. TypeOK'
  BY <1>1, <1>2, <1>3, <1>4, <1>5 DEF TypeOK
<1>7. OneCarrier' /\ WaitRegistered' /\ ListsInv'
  BY <1>3, <1>4 DEF TypeOK, OneCarrier, Carries, ListsInv, WaitRegistered
<1>8. \A d \in Coros : pc'[d] = "resume" <=> d = c
  BY <1>3 DEF TypeOK, OneCarrier, Carries
<1>9. InHand'
  BY <1>1, <1>2, <1>8 DEF TypeOK, InHand
<1>10. NoLostWaiter'
  <2>1. \A d \in Coros : pc[d] # "resume"
    BY <1>3 DEF OneCarrier, Carries
  <2>2. \A d \in Coros : pc[d] = "suspended" <=> d \in ToSet(Waiting') \cup {h}
    BY <1>2, <2>1 DEF NoLostWaiter
  <2>3. \A d \in Coros : pc'[d] = "suspended" <=> pc[d] = "suspended"
    BY <1>3 DEF TypeOK
  <2>. QED BY <1>1, <1>2, <1>8, <2>2, <2>3 DEF TypeOK, NoLostWaiter
<1>. QED BY <1>6, <1>7, <1>9, <1>10

\* resume() submits the waiter that was taken.
LEMMA ResumeInv ==
  ASSUME MutexInv, NEW c \in Coros, Resume(c)
  PROVE  MutexInv'
<1>. USE DEF MutexInv
<1>. DEFINE h == to_resume[c]
<1>1. /\ pc[c] = "resume" /\ pc' = [pc EXCEPT ![c] = "idle", ![h] = "queued"]
      /\ to_resume' = [to_resume EXCEPT ![c] = Nobody]
      /\ UNCHANGED <<m_state, m_resume_list_head, m_num_wait_task, state>>
  BY DEF Resume
<1>2. h \in Coros /\ h \notin ToSet(Waiting) /\ pc[h] = "suspended" /\ h # c
  BY <1>1 DEF InHand, NoLostWaiter
<1>. HIDE DEF h
<1>3. TypeOK'
  BY <1>1, <1>2 DEF TypeOK
<1>4. OneCarrier' /\ WaitRegistered' /\ ListsInv'
  <2>1. OneCarrier'
    BY <1>1, <1>2 DEF TypeOK, OneCarrier, Carries
  <2>2. WaitRegistered'
    BY <1>1, <1>2 DEF TypeOK, WaitRegistered
  <2>3. ListsInv'
    BY <1>1, <1>2 DEF TypeOK, ListsInv
  <2>. QED BY <2>1, <2>2, <2>3
<1>5. \A d \in Coros : pc'[d] # "resume" /\ (pc[d] = "resume" <=> d = c)
  BY <1>1, <1>2 DEF TypeOK, OneCarrier, Carries
<1>6. InHand'
  BY <1>5 DEF InHand
<1>7. NoLostWaiter'
  <2>1. \A d \in Coros : pc[d] = "suspended" <=> d \in ToSet(Waiting) \cup {h}
    BY <1>5, <1>2 DEF h, NoLostWaiter
  <2>2. \A d \in Coros : pc'[d] = "suspended" <=> d \in ToSet(Waiting)
    BY <1>1, <1>2, <2>1 DEF TypeOK
  <2>. QED BY <1>1, <1>5, <2>2, SameWaiting DEF NoLostWaiter
<1>. QED BY <1>3, <1>4, <1>6, <1>7

\* Every step preserves the invariant.
LEMMA MutexStep == MutexInv /\ [Next]_vars => MutexInv'
<1> SUFFICES ASSUME MutexInv, [Next]_vars PROVE MutexInv'
  OBVIOUS
<1>1. ASSUME NEW c \in Coros, Step(c) PROVE MutexInv'
  BY <1>1, AskInv, LockInv, PushInv, AwaitResumeInv, UnlockCasInv, UnlockTakeInv, ResumeInv
     DEF Step, Proceed, Unlock
<1>2. CASE UNCHANGED vars
  BY <1>2, SameWaiting DEF vars, MutexInv, TypeOK, OneCarrier, Carries, ListsInv, InHand,
     NoLostWaiter, WaitRegistered
<1>. QED BY <1>1, <1>2 DEF Next

LEMMA MutexInvariant == Spec => []MutexInv
BY MutexInit, MutexStep, PTL DEF Spec

-----------------------------------------------------------------------------
(***************************************************************************)
(* Theorems.                                                               *)
(***************************************************************************)

\* Every variable keeps its type; the counters of registered waits never go
\* below zero.
THEOREM MutexTypes == Spec => []TypeOK
BY MutexInvariant, PTL DEF MutexInv

\* The one that carries the lock determines the owner.
LEMMA OneOwner == MutexInv => MutualExclusion
<1> SUFFICES ASSUME MutexInv, NEW c \in Coros, NEW d \in Coros, Owner(c), Owner(d)
             PROVE  c = d
  BY DEF MutualExclusion
<1>1. PICK x \in Coros : Carries(x) /\ (IF pc[x] = "resume" THEN to_resume[x] = c ELSE x = c)
  BY DEF Owner, Carries
<1>2. PICK y \in Coros : Carries(y) /\ (IF pc[y] = "resume" THEN to_resume[y] = d ELSE y = d)
  BY DEF Owner, Carries
<1>3. x = y
  BY <1>1, <1>2 DEF MutexInv, OneCarrier
<1>. QED BY <1>1, <1>2, <1>3

\* lock(), try_lock() and unlock() exclude: at most one coroutine owns the
\* mutex, however many there are and however their atomics interleave.
THEOREM MutexExcludes == Spec => []MutualExclusion
BY MutexInvariant, OneOwner, PTL

\* No suspended coroutine is forgotten or listed twice, through pushes, the
\* exchange and the reversal.
THEOREM MutexLosesNobody == Spec => []NoLostWaiter
BY MutexInvariant, PTL DEF MutexInv

\* The asserts of unlock() and of the destructor hold, and nobody is left
\* suspended on a mutex that is free: when no coroutine owns or passes on the
\* lock, m_state is nolocked and both lists are empty.
THEOREM MutexAsserts == Spec => []UnlockAsserts
<1>1. MutexInv => UnlockAsserts
  <2> SUFFICES ASSUME MutexInv PROVE UnlockAsserts
    OBVIOUS
  <2>1. \A c \in Coros : pc[c] = "critical" => m_state # nolocked
    BY DEF MutexInv, OneCarrier, Carries
  <2>2. \A c \in Coros : pc[c] = "exchange" => m_state \notin {nolocked, locked_no_waiting}
    BY DEF MutexInv, ListsInv, locked_no_waiting
  <2>3. ASSUME \A c \in Coros : pc[c] \in {"idle", "load", "cas", "suspended"}
        PROVE  m_state = nolocked /\ m_resume_list_head = <<>> /\ \A c \in Coros : pc[c] # "suspended"
    <3>1. m_state = nolocked /\ m_resume_list_head = <<>>
      BY <2>3 DEF MutexInv, ListsInv, OneCarrier, Carries
    <3>2. Waiting = <<>>
      <4>1. Stack = <<>> /\ Reverse(<<>>) = <<>>
        BY <3>1 DEF Stack, Reverse
      <4>. QED BY <3>1, <4>1 DEF Waiting
    <3>3. ToSet(Waiting) = {}
      BY <3>2 DEF ToSet
    <3>4. \A c \in Coros : pc[c] # "suspended"
      BY <2>3, <3>3 DEF MutexInv, NoLostWaiter
    <3>. QED BY <3>1, <3>4
  <2>. QED BY <2>1, <2>2, <2>3 DEF UnlockAsserts
<1>. QED BY <1>1, MutexInvariant, PTL

\* A wait is registered exactly while a coroutine waits for the lock.
THEOREM MutexCountsWaits == Spec => []WaitRegistered
BY MutexInvariant, PTL DEF MutexInv

-----------------------------------------------------------------------------
(***************************************************************************)
(* The mutex implements the FIFO lock.                                     *)
(***************************************************************************)

\* The holder of the abstract lock is the owner of the mutex, and the lock is
\* free when m_state says so.
HolderIs == /\ \A c \in Coros : Owner(c) => Holder = c
            /\ (\A c \in Coros : ~Owner(c)) => Holder = Nobody
            /\ Holder = Nobody <=> m_state = nolocked

LEMMA HolderFacts == MutexInv => HolderIs
<1> SUFFICES ASSUME MutexInv PROVE HolderIs
  OBVIOUS
<1>1. \A c \in Coros : Owner(c) => Holder = c
  BY OneOwner DEF Holder, MutualExclusion
<1>2. (\A c \in Coros : ~Owner(c)) => Holder = Nobody
  BY DEF Holder
<1>3. (\E c \in Coros : Owner(c)) <=> \E c \in Coros : Carries(c)
  BY DEF MutexInv, InHand, Owner, Carries
<1>4. m_state = nolocked <=> \A c \in Coros : ~Owner(c)
  BY <1>3 DEF MutexInv, OneCarrier
<1>. QED BY <1>1, <1>2, <1>4, CorosAssumption DEF HolderIs

LEMMA HolderFactsNext == MutexInv' => HolderIs'
BY HolderFacts, PTL

\* Every step of the mutex is a step of the FIFO lock or none.
LEMMA FifoStep ==
  ASSUME MutexInv, MutexInv', [Next]_vars
  PROVE  [Fifo!FifoNext]_(Fifo!fifoVars)
<1>. USE HolderFacts, HolderFactsNext
<1>1. ASSUME NEW c \in Coros, AwaitSuspend(c) \/ LoadState(c) \/ CasFail(c) \/ AwaitResume(c)
      PROVE  UNCHANGED <<Holder, Waiting>>
  <2>1. UNCHANGED <<m_state, m_resume_list_head, to_resume>>
    BY <1>1 DEF AwaitSuspend, LoadState, CasFail, AwaitResume
  <2>2. \A d \in Coros : Owner(d)' <=> Owner(d)
    BY <1>1, <2>1 DEF AwaitSuspend, LoadState, CasFail, AwaitResume, Goto, Owner, MutexInv, TypeOK
  <2>3. Holder' = Holder
    BY <2>2 DEF HolderIs
  <2>. QED BY <2>1, <2>3, SameWaiting
<1>2. ASSUME NEW c \in Coros, Resume(c)
      PROVE  UNCHANGED <<Holder, Waiting>>
  <2>1. PICK h \in Coros : h = to_resume[c] /\ Owner(h)
    BY <1>2 DEF Resume, Owner, MutexInv, InHand
  <2>2. pc'[h] = "queued" /\ UNCHANGED <<m_state, m_resume_list_head>>
    BY <1>2, <2>1 DEF Resume, MutexInv, TypeOK
  <2>3. Owner(h)'
    BY <2>2 DEF Owner
  <2>. QED BY <2>1, <2>2, <2>3, SameWaiting DEF HolderIs
<1>3. ASSUME NEW c \in Coros, CasLock(c) \/ TryLock(c)
      PROVE  Fifo!Acquire(c) \/ UNCHANGED <<Holder, Waiting>>
  <2>1. CASE m_state = nolocked
    <3>1. /\ m_state' = <<>> /\ UNCHANGED m_resume_list_head
          /\ pc' = [pc EXCEPT ![c] = "critical"]
      BY <1>3, <2>1 DEF CasLock, TryLock, Goto, locked_no_waiting
    <3>2. Owner(c)'
      BY <3>1 DEF Owner, MutexInv, TypeOK
    <3>3. Waiting' = Waiting
      BY <2>1, <3>1, CorosAssumption, EmptySeq DEF Waiting, Stack
    <3>. QED BY <2>1, <3>2, <3>3 DEF HolderIs, Fifo!Acquire
  <2>2. CASE m_state # nolocked
    <3>1. pc' = pc /\ UNCHANGED <<m_state, m_resume_list_head, to_resume>>
      BY <1>3, <2>2 DEF CasLock, TryLock, Goto, MutexInv, TypeOK
    <3>2. Holder' = Holder
      BY <3>1 DEF Holder, Owner
    <3>. QED BY <3>1, <3>2, SameWaiting
  <2>. QED BY <2>1, <2>2
<1>4. ASSUME NEW c \in Coros, CasPush(c)
      PROVE  Fifo!Enqueue(c)
  <2>1. m_state # nolocked /\ Waiting' = Append(Waiting, c)
    BY <1>4, PushWaiting DEF MutexInv
  <2>2. \A d \in Coros : Owner(d)' <=> Owner(d)
    BY <1>4 DEF CasPush, Goto, Owner, MutexInv, TypeOK
  <2>. QED BY <2>1, <2>2 DEF HolderIs, Fifo!Enqueue
<1>5. ASSUME NEW c \in Coros, UnlockFromList(c) \/ UnlockExchange(c)
      PROVE  Fifo!HandOver
  <2>1. /\ Waiting # <<>> /\ Waiting' = Tail(Waiting)
        /\ to_resume' = [to_resume EXCEPT ![c] = Head(Waiting)]
    BY <1>5, TakeWaiting DEF MutexInv
  <2>2. PICK h \in Coros : h = Head(Waiting)
    BY <2>1, StackFacts, HeadTailProperties DEF MutexInv
  <2>3. Owner(c) /\ pc'[c] = "resume"
    BY <1>5 DEF UnlockFromList, UnlockExchange, Goto, Owner, MutexInv, TypeOK
  <2>4. to_resume'[c] = h
    BY <2>1, <2>2 DEF MutexInv, TypeOK
  <2>5. Owner(h)'
    BY <2>3, <2>4 DEF Owner
  <2>6. Holder = c /\ Holder' = Head(Waiting)
    BY <2>2, <2>3, <2>5 DEF HolderIs
  <2>. QED BY <2>1, <2>6, CorosAssumption DEF Fifo!HandOver
<1>6. ASSUME NEW c \in Coros, UnlockCas(c)
      PROVE  Fifo!Release \/ UNCHANGED <<Holder, Waiting>>
  <2>1. CASE m_state = <<>>
    <3>1. /\ m_state' = nolocked /\ pc[c] = "critical" /\ m_resume_list_head = <<>>
          /\ UNCHANGED m_resume_list_head
      BY <1>6, <2>1 DEF UnlockCas, Goto, locked_no_waiting
    <3>2. Holder = c /\ Holder' = Nobody
      BY <3>1 DEF HolderIs, Owner
    <3>3. Waiting = <<>> /\ Waiting' = <<>>
      BY <2>1, <3>1, ReverseEmpty DEF Waiting, Stack
    <3>. QED BY <3>2, <3>3, CorosAssumption DEF Fifo!Release
  <2>2. CASE m_state # <<>>
    <3>1. /\ pc[c] = "critical" /\ pc' = [pc EXCEPT ![c] = "exchange"]
          /\ UNCHANGED <<m_state, m_resume_list_head>>
      BY <1>6, <2>2 DEF UnlockCas, Goto, locked_no_waiting
    <3>2. Owner(c) /\ Owner(c)'
      BY <3>1 DEF Owner, MutexInv, TypeOK
    <3>. QED BY <3>1, <3>2, SameWaiting DEF HolderIs
  <2>. QED BY <2>1, <2>2
<1>7. CASE UNCHANGED vars
  <2>1. Holder' = Holder
    BY <1>7 DEF vars, Holder, Owner
  <2>. QED BY <1>7, <2>1, SameWaiting DEF vars, Fifo!fifoVars
<1>. QED BY <1>1, <1>2, <1>3, <1>4, <1>5, <1>6, <1>7
         DEF Next, Step, Proceed, Unlock, Fifo!FifoNext, Fifo!fifoVars

\* coro::mutex implements the FIFO lock: whoever has pushed its awaiter gets
\* the lock in the order of the pushes, and nobody overtakes the queue.
THEOREM MutexIsFifo == Spec => FifoRefinement
<1>1. Init => Fifo!FifoInit
  <2> SUFFICES ASSUME Init PROVE Fifo!FifoInit
    OBVIOUS
  <2>1. Holder = Nobody
    BY MutexInit, HolderFacts DEF Init, HolderIs
  <2>2. Waiting = <<>>
    BY ReverseEmpty DEF Init, Waiting, Stack
  <2>. QED BY <2>1, <2>2 DEF Fifo!FifoInit
<1>2. MutexInv /\ MutexInv' /\ [Next]_vars => [Fifo!FifoNext]_(Fifo!fifoVars)
  BY FifoStep
<1>. QED BY <1>1, <1>2, MutexInvariant, PTL DEF Spec, FifoRefinement, Fifo!FifoSpec
=============================================================================
