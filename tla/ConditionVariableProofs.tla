------------------------ MODULE ConditionVariableProofs ------------------------
(***************************************************************************)
(* Theorems about ConditionVariable, for every number of waiters and       *)
(* producers, of each kind.                                                *)
(***************************************************************************)
EXTENDS ConditionVariable, ListLemmas, FiniteSetTheorems, SequenceTheorems, TLAPS

\* Places of a thread.
PcSet == {"start", "locked", "blocked", "woken", "asleep", "queued_lock", "queued_cv", "notify", "walk", "end"} \cup UnlockPc

Types == /\ holder \in Coros \cup {Nobody} /\ waitq \in Seq(Coros) /\ m_head \in Seq(Sleepers)
         /\ items \in Nat
         /\ m_suspend_state \in [Sleepers -> BOOLEAN] /\ m_num_wait_task \in [Sleepers -> Nat]
         /\ pc \in [Coros -> PcSet]
         /\ target \in [Coros -> Sleepers \cup {Nobody}] /\ walk \in [Coros -> Seq(Sleepers)]

\* Only waiters wait and only producers notify.
Roles == \A c \in Coros :
  /\ pc[c] \in {"wait_unlock", "asleep", "queued_cv", "woken"} => c \in Sleepers
  /\ pc[c] \in {"notify", "walk", "walk_unlock", "item_unlock"} => c \in Producers
  /\ pc[c] \in {"walk_unlock", "item_unlock"} => c \notin Early
  /\ walk[c] # <<>> => pc[c] \in {"walk", "walk_unlock"}

\* The thread that will give the mutex away: its owner, or a thread that
\* resumes the owner or unlocks on its behalf.
Owning(c) == pc[c] \in {"locked", "woken", "queued_lock", "queued_cv"} \/ (c \in Early /\ pc[c] \in {"notify", "walk"})
Agent(c)  == Owning(c) \/ pc[c] \in UnlockPc

\* There is one such thread exactly while the mutex is held.
AgentInv ==
  /\ holder = Nobody => waitq = <<>> /\ \A d \in Coros : ~Agent(d)
  /\ holder # Nobody => \E d \in Coros : Agent(d)
  /\ \A d \in Coros : Agent(d) => \A e \in Coros : Agent(e) => d = e
  /\ \A d \in Coros : Owning(d) => holder = d
  /\ \A d \in Coros : target[d] # Nobody => pc[d] \in UnlockPc /\ holder = target[d]

\* A coroutine that sleeps is in one list, once, or is being resumed.
Sleeping(c) == pc[c] \in {"asleep", "wait_unlock", "blocked"}
Kept(c) == c \in ToSet(m_head) \cup ToSet(waitq) \/ \E d \in Coros : c \in ToSet(walk[d]) \/ target[d] = c
Injective == IsInjective(m_head) /\ IsInjective(waitq) /\ \A d \in Coros : IsInjective(walk[d])
HeadApart == \A c \in ToSet(m_head) : c \notin ToSet(waitq) /\ \A d \in Coros : c \notin ToSet(walk[d]) /\ target[d] # c
WaitApart == \A c \in ToSet(waitq) : \A d \in Coros : c \notin ToSet(walk[d]) /\ target[d] # c
WalkApart == \A d \in Coros : \A c \in ToSet(walk[d]) :
               \A e \in Coros : (c \in ToSet(walk[e]) => e = d) /\ target[e] # c
Apart == HeadApart /\ WaitApart /\ WalkApart
Membership == \A c \in Coros : Sleeping(c) <=> Kept(c)
Blocked == \A c \in Coros : pc[c] = "blocked" => c \in ToSet(waitq)
ListInv == Injective /\ Apart /\ Membership /\ Blocked

\* The awaiter's state, and the predicate of a waiter that was resumed.
WaitInv == \A c \in Sleepers :
  /\ pc[c] \in {"start", "blocked", "queued_lock", "locked"} => ~m_suspend_state[c]
  /\ pc[c] \in {"wait_unlock", "asleep", "queued_cv"} => m_suspend_state[c]
PredInv == \A c \in Waiters : pc[c] \in {"queued_cv", "woken"} => items > 0

CvInv == Types /\ Roles /\ AgentInv /\ ListInv /\ WaitInv /\ WaitOnce /\ PredInv

-----------------------------------------------------------------------------
(***************************************************************************)
(* What the steps have in common.                                          *)
(***************************************************************************)

\* Who is who.
LEMMA Cast ==
  /\ Nobody \notin Coros /\ Sleepers \subseteq Coros /\ Waiters \subseteq Sleepers
  /\ Producers \subseteq Coros /\ Early \subseteq Producers /\ Sleepers \cap Producers = {}
BY CvAssumption DEF Coros, Sleepers

\* What comes after an unlock is no unlock.
LEMMA AfterUnlock ==
  /\ After("wait_unlock") = "asleep" /\ After("last_unlock") = "end"
  /\ After("item_unlock") = "notify" /\ After("walk_unlock") = "walk"
  /\ UnlockPc = {"wait_unlock", "last_unlock", "item_unlock", "walk_unlock"}
BY DEF After, UnlockPc

\* A step that leaves the lists alone and neither puts anyone to sleep nor
\* wakes anyone.
LEMMA ListsKept ==
  ASSUME ListInv, UNCHANGED <<m_head, waitq, target, walk>>,
         \A c \in Coros : (Sleeping(c)' <=> Sleeping(c)) /\ (pc'[c] = "blocked" => pc[c] = "blocked")
  PROVE  ListInv'
<1>1. Injective' /\ Apart'
  BY DEF ListInv, Injective, Apart, HeadApart, WaitApart, WalkApart
<1>2. \A c \in Coros : Kept(c)' <=> Kept(c)
  BY DEF Kept
<1>3. Membership' /\ Blocked'
  BY <1>2 DEF ListInv, Membership, Blocked
<1>. QED BY <1>1, <1>3 DEF ListInv

\* A step that leaves the awaiters alone.
Before == {"start", "blocked", "queued_lock", "locked"}
During == {"wait_unlock", "asleep", "queued_cv"}

LEMMA WaitsKept ==
  ASSUME WaitInv, WaitOnce, UNCHANGED cvVars,
         \A c \in Sleepers : (pc'[c] \in Before => pc[c] \in Before) /\ (pc'[c] \in During <=> pc[c] \in During)
  PROVE  WaitInv' /\ WaitOnce'
<1>1. WaitInv'
  BY DEF WaitInv, cvVars, Before, During
<1>2. WaitOnce'
  BY DEF WaitOnce, cvVars, During
<1>. QED BY <1>1, <1>2

\* A step that leaves the mutex alone.
LEMMA AgentKept ==
  ASSUME AgentInv, UNCHANGED <<holder, waitq, target>>,
         \A d \in Coros : (Agent(d)' <=> Agent(d)) /\ (Owning(d)' => Owning(d)) /\ (target[d] # Nobody => pc'[d] \in UnlockPc)
  PROVE  AgentInv'
BY DEF AgentInv

\* Only the agent of the mutex acts on it.
LEMMA OneAgent ==
  ASSUME AgentInv, NEW c \in Coros, Agent(c)
  PROVE  holder # Nobody /\ \A d \in Coros : Agent(d) => d = c
BY DEF AgentInv

-----------------------------------------------------------------------------
(***************************************************************************)
(* One lemma per action.                                                   *)
(***************************************************************************)
LEMMA LockFree ==
  ASSUME CvInv, NEW c \in Coros, holder = Nobody, holder' = c, Goto(c, "start", "locked"),
         UNCHANGED <<waitq, m_head, items, cvVars, target, walk>>
  PROVE  CvInv'
<1> USE Cast, AfterUnlock
<1>1. pc[c] = "start" /\ pc' = [pc EXCEPT ![c] = "locked"]
  BY DEF Goto
<1>2. Types'
  BY <1>1 DEF CvInv, Types, PcSet, cvVars
<1>3. pc'[c] = "locked" /\ \A d \in Coros : d # c => pc'[d] = pc[d]
  BY <1>1 DEF CvInv, Types
<1>4. Roles'
  BY <1>1, <1>3 DEF CvInv, Roles
<1>5. AgentInv'
  <2>1. \A d \in Coros : ~Agent(d) /\ target[d] = Nobody
    BY DEF CvInv, AgentInv, Agent
  <2>2. \A d \in Coros : Agent(d)' <=> d = c
    BY <1>3, <2>1 DEF Agent, Owning
  <2>3. \A d \in Coros : Owning(d)' => Agent(d)'
    BY DEF Agent
  <2>. QED BY <2>1, <2>2, <2>3 DEF AgentInv
<1>6. ListInv'
  <2>1. \A d \in Coros : (Sleeping(d)' <=> Sleeping(d)) /\ (pc'[d] = "blocked" => pc[d] = "blocked")
    BY <1>1, <1>3 DEF Sleeping
  <2>. QED BY <2>1, ListsKept DEF CvInv
<1>7. WaitInv' /\ WaitOnce'
  <2>1. \A d \in Sleepers : (pc'[d] \in Before => pc[d] \in Before) /\ (pc'[d] \in During <=> pc[d] \in During)
    BY <1>1, <1>3 DEF Before, During
  <2>. QED BY <2>1, WaitsKept DEF CvInv
<1>8. PredInv'
  BY <1>3 DEF CvInv, PredInv
<1>. QED BY <1>2, <1>4, <1>5, <1>6, <1>7, <1>8 DEF CvInv

LEMMA LockBusy ==
  ASSUME CvInv, NEW c \in Coros, holder # Nobody, waitq' = Append(waitq, c), Goto(c, "start", "blocked"),
         UNCHANGED <<holder, m_head, items, cvVars, target, walk>>
  PROVE  CvInv'
<1> USE Cast, AfterUnlock
<1>1. pc[c] = "start" /\ pc' = [pc EXCEPT ![c] = "blocked"]
  BY DEF Goto
<1>2. ~Sleeping(c) /\ ~Kept(c) /\ c \notin ToSet(waitq) /\ c \notin ToSet(m_head)
      /\ \A d \in Coros : c \notin ToSet(walk[d]) /\ target[d] # c
  BY <1>1 DEF CvInv, ListInv, Membership, Sleeping, Kept
<1>3. waitq' \in Seq(Coros) /\ ToSet(waitq') = ToSet(waitq) \cup {c} /\ IsInjective(waitq')
  BY <1>2, AppendSet DEF CvInv, Types, ListInv, Injective
<1>4. Types'
  BY <1>1, <1>3 DEF CvInv, Types, PcSet, cvVars
<1>5. pc'[c] = "blocked" /\ \A d \in Coros : d # c => pc'[d] = pc[d]
  BY <1>1 DEF CvInv, Types
<1>6. Roles'
  BY <1>1, <1>5 DEF CvInv, Roles
<1>7. AgentInv'
  <2>1. \A d \in Coros : (Agent(d)' <=> Agent(d)) /\ (Owning(d)' <=> Owning(d))
    BY <1>1, <1>5 DEF Agent, Owning
  <2>2. \A d \in Coros : target[d] # Nobody => pc'[d] \in UnlockPc
    BY <1>1, <1>5 DEF CvInv, AgentInv
  <2>. QED BY <2>1, <2>2 DEF CvInv, AgentInv
<1>8. ListInv'
  <2>1. Injective'
    BY <1>3 DEF CvInv, ListInv, Injective
  <2>2. Apart'
    <3>1. HeadApart'
      BY <1>2, <1>3 DEF CvInv, ListInv, Apart, HeadApart
    <3>2. WaitApart'
      BY <1>2, <1>3 DEF CvInv, ListInv, Apart, WaitApart
    <3>3. WalkApart'
      BY DEF CvInv, ListInv, Apart, WalkApart
    <3>. QED BY <3>1, <3>2, <3>3 DEF Apart
  <2>3. Membership'
    <3>1. Kept(c)' /\ Sleeping(c)'
      BY <1>3, <1>5 DEF Kept, Sleeping
    <3>2. ASSUME NEW d \in Coros, d # c PROVE (Kept(d)' <=> Kept(d)) /\ (Sleeping(d)' <=> Sleeping(d))
      BY <1>3, <1>5, <3>2 DEF Kept, Sleeping
    <3>. QED BY <3>1, <3>2 DEF CvInv, ListInv, Membership
  <2>4. Blocked'
    BY <1>3, <1>5 DEF CvInv, ListInv, Blocked
  <2>. QED BY <2>1, <2>2, <2>3, <2>4 DEF ListInv
<1>9. WaitInv' /\ WaitOnce'
  <2>1. \A d \in Sleepers : (pc'[d] \in Before => pc[d] \in Before) /\ (pc'[d] \in During <=> pc[d] \in During)
    BY <1>1, <1>5 DEF Before, During
  <2>. QED BY <2>1, WaitsKept DEF CvInv
<1>10. PredInv'
  BY <1>5 DEF CvInv, PredInv
<1>. QED BY <1>4, <1>6, <1>7, <1>8, <1>9, <1>10 DEF CvInv

\* The predicate holds at once.
LEMMA WaitGoesOn ==
  ASSUME CvInv, NEW c \in Waiters, Cond(c), Goto(c, "locked", "woken"),
         UNCHANGED <<mtxVars, m_head, items, cvVars, target, walk>>
  PROVE  CvInv'
<1> USE Cast, AfterUnlock
<1>1. pc[c] = "locked" /\ pc' = [pc EXCEPT ![c] = "woken"] /\ c \in Coros /\ c \in Sleepers
  BY DEF Goto
<1>2. Types'
  BY <1>1 DEF CvInv, Types, PcSet, cvVars, mtxVars
<1>3. pc'[c] = "woken" /\ \A d \in Coros : d # c => pc'[d] = pc[d]
  BY <1>1 DEF CvInv, Types
<1>4. Roles'
  BY <1>1, <1>3 DEF CvInv, Roles
<1>5. AgentInv'
  <2>1. \A d \in Coros : (Agent(d)' <=> Agent(d)) /\ (Owning(d)' <=> Owning(d))
    BY <1>1, <1>3 DEF Agent, Owning
  <2>2. \A d \in Coros : target[d] # Nobody => pc'[d] \in UnlockPc
    BY <1>1, <1>3 DEF CvInv, AgentInv
  <2>. QED BY <2>1, <2>2, AgentKept DEF CvInv, mtxVars
<1>6. ListInv'
  <2>1. \A d \in Coros : (Sleeping(d)' <=> Sleeping(d)) /\ (pc'[d] = "blocked" => pc[d] = "blocked")
    BY <1>1, <1>3 DEF Sleeping
  <2>. QED BY <2>1, ListsKept DEF CvInv, mtxVars
<1>7. WaitInv' /\ WaitOnce'
  <2>1. \A d \in Sleepers : (pc'[d] \in Before => pc[d] \in Before) /\ (pc'[d] \in During <=> pc[d] \in During)
    BY <1>1, <1>3 DEF Before, During
  <2>. QED BY <2>1, WaitsKept DEF CvInv
<1>8. PredInv'
  BY <1>3 DEF CvInv, PredInv, Cond
<1>. QED BY <1>2, <1>4, <1>5, <1>6, <1>7, <1>8 DEF CvInv

\* The waiter puts itself into the list.
LEMMA WaitSleeps ==
  ASSUME CvInv, NEW c \in Sleepers, Goto(c, "locked", "wait_unlock"), Register(c),
         UNCHANGED <<mtxVars, items, target, walk>>
  PROVE  CvInv'
<1> USE Cast, AfterUnlock
<1>1. /\ pc[c] = "locked" /\ pc' = [pc EXCEPT ![c] = "wait_unlock"] /\ c \in Coros
      /\ m_num_wait_task' = [m_num_wait_task EXCEPT ![c] = IF m_suspend_state[c] THEN @ ELSE @ + 1]
      /\ m_suspend_state' = [m_suspend_state EXCEPT ![c] = TRUE]
      /\ m_head' = Append(m_head, c)
  BY DEF Goto, Register
<1>2. ~Sleeping(c) /\ ~Kept(c) /\ c \notin ToSet(waitq) /\ c \notin ToSet(m_head)
      /\ \A d \in Coros : c \notin ToSet(walk[d]) /\ target[d] # c
  BY <1>1 DEF CvInv, ListInv, Membership, Sleeping, Kept
<1>3. m_head' \in Seq(Sleepers) /\ ToSet(m_head') = ToSet(m_head) \cup {c} /\ IsInjective(m_head')
  BY <1>1, <1>2, AppendSet DEF CvInv, Types, ListInv, Injective
<1>4. ~m_suspend_state[c] /\ m_num_wait_task[c] = 0
  BY <1>1 DEF CvInv, WaitInv, WaitOnce
<1>5. pc'[c] = "wait_unlock" /\ \A d \in Coros : d # c => pc'[d] = pc[d]
  BY <1>1 DEF CvInv, Types
<1>6. /\ m_suspend_state'[c] = TRUE /\ m_num_wait_task'[c] = 1
      /\ \A d \in Sleepers : d # c => m_suspend_state'[d] = m_suspend_state[d] /\ m_num_wait_task'[d] = m_num_wait_task[d]
  BY <1>1, <1>4 DEF CvInv, Types
<1>7. Types'
  <2>1. m_suspend_state' \in [Sleepers -> BOOLEAN] /\ m_num_wait_task' \in [Sleepers -> Nat]
    BY <1>1, <1>4 DEF CvInv, Types
  <2>2. pc' \in [Coros -> PcSet]
    BY <1>1 DEF CvInv, Types, PcSet
  <2>. QED BY <1>3, <2>1, <2>2 DEF CvInv, Types, mtxVars
<1>8. Roles'
  BY <1>1, <1>5 DEF CvInv, Roles
<1>9. AgentInv'
  <2>1. \A d \in Coros : (Agent(d)' <=> Agent(d)) /\ (Owning(d)' => Owning(d))
    BY <1>1, <1>5 DEF Agent, Owning
  <2>2. \A d \in Coros : target[d] # Nobody => pc'[d] \in UnlockPc
    BY <1>1, <1>5 DEF CvInv, AgentInv
  <2>. QED BY <2>1, <2>2, AgentKept DEF CvInv, mtxVars
<1>10. ListInv'
  <2>0. waitq' = waitq
    BY DEF mtxVars
  <2>1. Injective'
    BY <1>3, <2>0 DEF CvInv, ListInv, Injective
  <2>2. Apart'
    <3>1. HeadApart'
      BY <1>2, <1>3, <2>0 DEF CvInv, ListInv, Apart, HeadApart
    <3>2. WaitApart' /\ WalkApart'
      BY <2>0 DEF CvInv, ListInv, Apart, WaitApart, WalkApart
    <3>. QED BY <3>1, <3>2 DEF Apart
  <2>3. Membership'
    <3>1. Kept(c)' /\ Sleeping(c)'
      BY <1>3, <1>5 DEF Kept, Sleeping
    <3>2. ASSUME NEW d \in Coros, d # c PROVE (Kept(d)' <=> Kept(d)) /\ (Sleeping(d)' <=> Sleeping(d))
      BY <1>3, <1>5, <2>0, <3>2 DEF Kept, Sleeping
    <3>. QED BY <3>1, <3>2 DEF CvInv, ListInv, Membership
  <2>4. Blocked'
    BY <1>5, <2>0 DEF CvInv, ListInv, Blocked
  <2>. QED BY <2>1, <2>2, <2>3, <2>4 DEF ListInv
<1>11. WaitInv' /\ WaitOnce'
  BY <1>5, <1>6 DEF CvInv, WaitInv, WaitOnce
<1>12. PredInv'
  BY <1>5 DEF CvInv, PredInv
<1>. QED BY <1>7, <1>8, <1>9, <1>10, <1>11, <1>12 DEF CvInv

\* await_resume of the mutex's awaiter ...
LEMMA ResumedLock ==
  ASSUME CvInv, NEW c \in Coros, Goto(c, "queued_lock", "locked"),
         UNCHANGED <<mtxVars, m_head, items, cvVars, target, walk>>
  PROVE  CvInv'
<1> USE Cast, AfterUnlock
<1>1. pc[c] = "queued_lock" /\ pc' = [pc EXCEPT ![c] = "locked"]
  BY DEF Goto
<1>2. Types'
  BY <1>1 DEF CvInv, Types, PcSet, cvVars, mtxVars
<1>3. pc'[c] = "locked" /\ \A d \in Coros : d # c => pc'[d] = pc[d]
  BY <1>1 DEF CvInv, Types
<1>4. Roles' /\ PredInv'
  BY <1>1, <1>3 DEF CvInv, Roles, PredInv
<1>5. AgentInv'
  <2>1. \A d \in Coros : (Agent(d)' <=> Agent(d)) /\ (Owning(d)' => Owning(d))
    BY <1>1, <1>3 DEF Agent, Owning
  <2>2. \A d \in Coros : target[d] # Nobody => pc'[d] \in UnlockPc
    BY <1>1, <1>3 DEF CvInv, AgentInv
  <2>. QED BY <2>1, <2>2, AgentKept DEF CvInv, mtxVars
<1>6. ListInv'
  <2>1. \A d \in Coros : (Sleeping(d)' <=> Sleeping(d)) /\ (pc'[d] = "blocked" => pc[d] = "blocked")
    BY <1>1, <1>3 DEF Sleeping
  <2>. QED BY <2>1, ListsKept DEF CvInv, mtxVars
<1>7. WaitInv' /\ WaitOnce'
  <2>1. \A d \in Sleepers : (pc'[d] \in Before => pc[d] \in Before) /\ (pc'[d] \in During <=> pc[d] \in During)
    BY <1>1, <1>3 DEF Before, During
  <2>. QED BY <2>1, WaitsKept DEF CvInv
<1>. QED BY <1>2, <1>4, <1>5, <1>6, <1>7 DEF CvInv

\* ... and of the condition variable's.
LEMMA ResumedCv ==
  ASSUME CvInv, NEW c \in Coros, Goto(c, "queued_cv", "woken"),
         m_num_wait_task' = [m_num_wait_task EXCEPT ![c] = IF m_suspend_state[c] THEN @ - 1 ELSE @],
         UNCHANGED <<mtxVars, m_suspend_state, m_head, items, target, walk>>
  PROVE  CvInv'
<1> USE Cast, AfterUnlock
<1>1. pc[c] = "queued_cv" /\ pc' = [pc EXCEPT ![c] = "woken"]
  BY DEF Goto
<1>2. c \in Sleepers /\ m_suspend_state[c] /\ m_num_wait_task[c] = 1
  BY <1>1 DEF CvInv, Roles, WaitInv, WaitOnce
<1>3. pc'[c] = "woken" /\ \A d \in Coros : d # c => pc'[d] = pc[d]
  BY <1>1 DEF CvInv, Types
<1>4. m_num_wait_task'[c] = 0 /\ \A d \in Sleepers : d # c => m_num_wait_task'[d] = m_num_wait_task[d]
  BY <1>2 DEF CvInv, Types
<1>5. Types'
  <2>1. m_num_wait_task' \in [Sleepers -> Nat]
    BY <1>2 DEF CvInv, Types
  <2>2. pc' \in [Coros -> PcSet]
    BY <1>1 DEF CvInv, Types, PcSet
  <2>. QED BY <2>1, <2>2 DEF CvInv, Types, mtxVars
<1>6. Roles' /\ PredInv'
  BY <1>1, <1>2, <1>3 DEF CvInv, Roles, PredInv
<1>7. AgentInv'
  <2>1. \A d \in Coros : (Agent(d)' <=> Agent(d)) /\ (Owning(d)' => Owning(d))
    BY <1>1, <1>3 DEF Agent, Owning
  <2>2. \A d \in Coros : target[d] # Nobody => pc'[d] \in UnlockPc
    BY <1>1, <1>3 DEF CvInv, AgentInv
  <2>. QED BY <2>1, <2>2, AgentKept DEF CvInv, mtxVars
<1>8. ListInv'
  <2>1. \A d \in Coros : (Sleeping(d)' <=> Sleeping(d)) /\ (pc'[d] = "blocked" => pc[d] = "blocked")
    BY <1>1, <1>3 DEF Sleeping
  <2>. QED BY <2>1, ListsKept DEF CvInv, mtxVars
<1>9. WaitInv' /\ WaitOnce'
  BY <1>3, <1>4 DEF CvInv, WaitInv, WaitOnce
<1>. QED BY <1>5, <1>6, <1>7, <1>8, <1>9 DEF CvInv

LEMMA ConsumeKeeps ==
  ASSUME CvInv, NEW c \in Coros, Consume(c)
  PROVE  CvInv'
<1> USE Cast, AfterUnlock
<1>1. /\ c \in Sleepers /\ pc[c] = "woken" /\ pc' = [pc EXCEPT ![c] = "last_unlock"]
      /\ items' = IF c \in Waiters THEN items - 1 ELSE items
      /\ UNCHANGED <<mtxVars, m_head, cvVars, target, walk>>
  BY DEF Consume, Goto
<1>2. items' \in Nat
  BY <1>1 DEF CvInv, PredInv, Types
<1>3. Types'
  BY <1>1, <1>2 DEF CvInv, Types, PcSet, cvVars, mtxVars
<1>4. pc'[c] = "last_unlock" /\ \A d \in Coros : d # c => pc'[d] = pc[d]
  BY <1>1 DEF CvInv, Types
<1>5. Roles'
  BY <1>1, <1>4 DEF CvInv, Roles
<1>6. \A d \in Coros : pc[d] \in {"woken", "queued_cv"} => d = c
  BY <1>1, OneAgent DEF CvInv, Agent, Owning
<1>7. PredInv'
  BY <1>4, <1>6 DEF PredInv
<1>8. AgentInv'
  <2>1. \A d \in Coros : (Agent(d)' <=> Agent(d)) /\ (Owning(d)' => Owning(d))
    BY <1>1, <1>4 DEF Agent, Owning
  <2>2. \A d \in Coros : target[d] # Nobody => pc'[d] \in UnlockPc
    BY <1>1, <1>4 DEF CvInv, AgentInv
  <2>. QED BY <1>1, <2>1, <2>2, AgentKept DEF CvInv, mtxVars
<1>9. ListInv'
  <2>1. \A d \in Coros : (Sleeping(d)' <=> Sleeping(d)) /\ (pc'[d] = "blocked" => pc[d] = "blocked")
    BY <1>1, <1>4 DEF Sleeping
  <2>. QED BY <1>1, <2>1, ListsKept DEF CvInv, mtxVars
<1>10. WaitInv' /\ WaitOnce'
  <2>1. \A d \in Sleepers : (pc'[d] \in Before => pc[d] \in Before) /\ (pc'[d] \in During <=> pc[d] \in During)
    BY <1>1, <1>4 DEF Before, During
  <2>. QED BY <1>1, <2>1, WaitsKept DEF CvInv
<1>. QED BY <1>3, <1>5, <1>7, <1>8, <1>9, <1>10 DEF CvInv

LEMMA ProduceKeeps ==
  ASSUME CvInv, NEW p \in Coros, Produce(p)
  PROVE  CvInv'
<1> USE Cast, AfterUnlock
<1> DEFINE m == IF p \in Early THEN "notify" ELSE "item_unlock"
<1>1. /\ p \in Producers /\ pc[p] = "locked" /\ pc' = [pc EXCEPT ![p] = m] /\ items' = items + 1
      /\ UNCHANGED <<mtxVars, m_head, cvVars, target, walk>>
  BY DEF Produce, Goto
<1>2. Types'
  <2>1. items' \in Nat
    BY <1>1 DEF CvInv, Types
  <2>2. pc' \in [Coros -> PcSet]
    BY <1>1 DEF CvInv, Types, PcSet
  <2>. QED BY <1>1, <2>1, <2>2 DEF CvInv, Types, cvVars, mtxVars
<1>3. pc'[p] = m /\ \A d \in Coros : d # p => pc'[d] = pc[d]
  BY <1>1 DEF CvInv, Types
<1>4. Roles'
  BY <1>1, <1>3 DEF CvInv, Roles
<1>5. PredInv'
  BY <1>1, <1>3 DEF CvInv, PredInv, Types
<1>6. AgentInv'
  <2>1. \A d \in Coros : (Agent(d)' <=> Agent(d)) /\ (Owning(d)' => Owning(d))
    BY <1>1, <1>3 DEF Agent, Owning
  <2>2. \A d \in Coros : target[d] # Nobody => pc'[d] \in UnlockPc
    BY <1>1, <1>3 DEF CvInv, AgentInv
  <2>. QED BY <1>1, <2>1, <2>2, AgentKept DEF CvInv, mtxVars
<1>7. ListInv'
  <2>1. \A d \in Coros : (Sleeping(d)' <=> Sleeping(d)) /\ (pc'[d] = "blocked" => pc[d] = "blocked")
    BY <1>1, <1>3 DEF Sleeping
  <2>. QED BY <1>1, <2>1, ListsKept DEF CvInv, mtxVars
<1>8. WaitInv' /\ WaitOnce'
  <2>1. \A d \in Sleepers : (pc'[d] \in Before => pc[d] \in Before) /\ (pc'[d] \in During <=> pc[d] \in During)
    BY <1>1, <1>3 DEF Before, During
  <2>. QED BY <1>1, <2>1, WaitsKept DEF CvInv
<1>. QED BY <1>2, <1>4, <1>5, <1>6, <1>7, <1>8 DEF CvInv

LEMMA NotifyDoneKeeps ==
  ASSUME CvInv, NEW p \in Coros, NotifyDone(p)
  PROVE  CvInv'
<1> USE Cast, AfterUnlock
<1> DEFINE m == IF p \in Early THEN "last_unlock" ELSE "end"
<1>1. /\ walk[p] = <<>> /\ pc[p] = "walk" /\ pc' = [pc EXCEPT ![p] = m]
      /\ UNCHANGED <<mtxVars, m_head, items, cvVars, target, walk>>
  BY DEF NotifyDone, Goto
<1>2. Types'
  <2>1. pc' \in [Coros -> PcSet]
    BY <1>1 DEF CvInv, Types, PcSet
  <2>. QED BY <1>1, <2>1 DEF CvInv, Types, cvVars, mtxVars
<1>3. pc'[p] = m /\ \A d \in Coros : d # p => pc'[d] = pc[d]
  BY <1>1 DEF CvInv, Types
<1>4. Roles' /\ PredInv'
  BY <1>1, <1>3 DEF CvInv, Roles, PredInv
<1>5. AgentInv'
  <2>1. \A d \in Coros : (Agent(d)' <=> Agent(d)) /\ (Owning(d)' => Owning(d))
    BY <1>1, <1>3 DEF Agent, Owning
  <2>2. \A d \in Coros : target[d] # Nobody => pc'[d] \in UnlockPc
    BY <1>1, <1>3 DEF CvInv, AgentInv
  <2>. QED BY <1>1, <2>1, <2>2, AgentKept DEF CvInv, mtxVars
<1>6. ListInv'
  <2>1. \A d \in Coros : (Sleeping(d)' <=> Sleeping(d)) /\ (pc'[d] = "blocked" => pc[d] = "blocked")
    BY <1>1, <1>3 DEF Sleeping
  <2>. QED BY <1>1, <2>1, ListsKept DEF CvInv, mtxVars
<1>7. WaitInv' /\ WaitOnce'
  <2>1. \A d \in Sleepers : (pc'[d] \in Before => pc[d] \in Before) /\ (pc'[d] \in During <=> pc[d] \in During)
    BY <1>1, <1>3 DEF CvInv, Roles, Before, During
  <2>. QED BY <1>1, <2>1, WaitsKept DEF CvInv
<1>. QED BY <1>2, <1>4, <1>5, <1>6, <1>7 DEF CvInv

\* unlock() with nobody waiting.
LEMMA UnlockFreeKeeps ==
  ASSUME CvInv, NEW c \in Coros, NEW l \in UnlockPc, UnlockFree(c, l)
  PROVE  CvInv'
<1> USE Cast, AfterUnlock
<1>1. /\ pc[c] = l /\ target[c] = Nobody /\ waitq = <<>> /\ holder' = Nobody
      /\ UNCHANGED <<waitq, m_head, items, cvVars, target, walk>>
  BY DEF UnlockFree
<1>2. pc' = [pc EXCEPT ![c] = After(l)]
  BY <1>1 DEF UnlockFree, Return
<1>3. pc'[c] = After(l) /\ \A d \in Coros : d # c => pc'[d] = pc[d]
  BY <1>2 DEF CvInv, Types
<1>4. Types'
  <2>1. pc' \in [Coros -> PcSet]
    BY <1>2 DEF CvInv, Types, PcSet
  <2>. QED BY <1>1, <2>1 DEF CvInv, Types, cvVars
<1>5. Roles' /\ PredInv'
  BY <1>1, <1>3 DEF CvInv, Roles, PredInv
<1>6. AgentInv'
  <2>1. \A d \in Coros : Agent(d) => d = c
    BY <1>1, OneAgent DEF CvInv, Agent
  <2>2. \A d \in Coros : ~Agent(d)'
    BY <1>1, <1>3, <2>1 DEF CvInv, Roles, Agent, Owning
  <2>3. \A d \in Coros : target[d] = Nobody
    BY <1>1, <2>1 DEF CvInv, AgentInv, Agent
  <2>. QED BY <1>1, <2>2, <2>3 DEF AgentInv, Agent
<1>7. ListInv'
  <2>1. \A d \in Coros : (Sleeping(d)' <=> Sleeping(d)) /\ (pc'[d] = "blocked" => pc[d] = "blocked")
    BY <1>1, <1>3 DEF Sleeping
  <2>. QED BY <1>1, <2>1, ListsKept DEF CvInv
<1>8. WaitInv' /\ WaitOnce'
  <2>1. \A d \in Sleepers : (pc'[d] \in Before => pc[d] \in Before) /\ (pc'[d] \in During <=> pc[d] \in During)
    BY <1>1, <1>3 DEF Before, During
  <2>. QED BY <1>1, <2>1, WaitsKept DEF CvInv
<1>. QED BY <1>4, <1>5, <1>6, <1>7, <1>8 DEF CvInv

\* The oldest awaiter of the mutex leaves its queue.
LEMMA QueueHead ==
  ASSUME CvInv, waitq # <<>>
  PROVE  /\ Head(waitq) \in Coros /\ Tail(waitq) \in Seq(Coros) /\ IsInjective(Tail(waitq))
         /\ ToSet(waitq) = ToSet(Tail(waitq)) \cup {Head(waitq)} /\ Head(waitq) \notin ToSet(Tail(waitq))
         /\ Sleeping(Head(waitq)) /\ Head(waitq) \notin ToSet(m_head)
         /\ \A d \in Coros : Head(waitq) \notin ToSet(walk[d]) /\ target[d] # Head(waitq)
<1>1. /\ Head(waitq) \in Coros /\ Tail(waitq) \in Seq(Coros) /\ IsInjective(Tail(waitq))
      /\ ToSet(waitq) = ToSet(Tail(waitq)) \cup {Head(waitq)} /\ Head(waitq) \notin ToSet(Tail(waitq))
  BY TailSet DEF CvInv, Types, ListInv, Injective
<1>2. Head(waitq) \in ToSet(waitq)
  BY <1>1
<1>3. Sleeping(Head(waitq))
  BY <1>1, <1>2 DEF CvInv, ListInv, Membership, Kept
<1>. QED BY <1>1, <1>2, <1>3 DEF CvInv, ListInv, Apart, HeadApart, WaitApart

\* unlock() that gives the mutex to a lock() awaiter.
LEMMA UnlockToLockKeeps ==
  ASSUME CvInv, NEW c \in Coros, NEW l \in UnlockPc, UnlockToLock(c, l)
  PROVE  CvInv'
<1> USE Cast, AfterUnlock
<1>0. PICK t \in Coros : t = Head(waitq) /\ waitq # <<>>
  BY QueueHead DEF UnlockToLock
<1>1. /\ pc[c] = l /\ target[c] = Nobody /\ pc[t] = "blocked" /\ holder' = t /\ waitq' = Tail(waitq) /\ t # c
      /\ UNCHANGED <<m_head, items, cvVars, target, walk>>
  BY <1>0 DEF UnlockToLock
<1>2. pc' = [[pc EXCEPT ![t] = "queued_lock"] EXCEPT ![c] = After(l)]
  <2>1. Return(c, l, [pc EXCEPT ![t] = "queued_lock"])
    BY <1>0 DEF UnlockToLock
  <2>2. [pc EXCEPT ![t] = "queued_lock"][c] = l
    BY <1>1 DEF CvInv, Types
  <2>. QED BY <2>1, <2>2 DEF Return
<1>3. pc'[c] = After(l) /\ pc'[t] = "queued_lock" /\ \A d \in Coros : d # c /\ d # t => pc'[d] = pc[d]
  BY <1>1, <1>2 DEF CvInv, Types
<1>4. /\ waitq' \in Seq(Coros) /\ IsInjective(waitq') /\ ToSet(waitq) = ToSet(waitq') \cup {t} /\ t \notin ToSet(waitq')
      /\ t \notin ToSet(m_head) /\ \A d \in Coros : t \notin ToSet(walk[d]) /\ target[d] # t
  BY <1>0, <1>1, QueueHead
<1>5. Types'
  <2>1. pc' \in [Coros -> PcSet]
    BY <1>2 DEF CvInv, Types, PcSet
  <2>. QED BY <1>1, <1>4, <2>1 DEF CvInv, Types, cvVars
<1>6. Roles' /\ PredInv'
  BY <1>1, <1>3 DEF CvInv, Roles, PredInv
<1>7. AgentInv'
  <2>1. \A d \in Coros : Agent(d) => d = c
    BY <1>1, OneAgent DEF CvInv, Agent
  <2>2. \A d \in Coros : Agent(d)' <=> d = t
    BY <1>1, <1>3, <2>1 DEF CvInv, Roles, Agent, Owning
  <2>3. \A d \in Coros : target[d] = Nobody
    BY <1>1, <2>1 DEF CvInv, AgentInv, Agent
  <2>4. \A d \in Coros : Owning(d)' => Agent(d)'
    BY DEF Agent
  <2>. QED BY <1>1, <2>2, <2>3, <2>4 DEF AgentInv
<1>8. ListInv'
  <2>1. Injective'
    BY <1>1, <1>4 DEF CvInv, ListInv, Injective
  <2>2. Apart'
    <3>1. HeadApart'
      BY <1>1, <1>4 DEF CvInv, ListInv, Apart, HeadApart
    <3>2. WaitApart'
      BY <1>1, <1>4 DEF CvInv, ListInv, Apart, WaitApart
    <3>3. WalkApart'
      BY <1>1 DEF CvInv, ListInv, Apart, WalkApart
    <3>. QED BY <3>1, <3>2, <3>3 DEF Apart
  <2>3. Membership'
    <3>1. ~Kept(t)' /\ ~Sleeping(t)'
      BY <1>1, <1>3, <1>4 DEF Kept, Sleeping
    <3>2. ASSUME NEW d \in Coros, d # t PROVE (Kept(d)' <=> Kept(d)) /\ (Sleeping(d)' <=> Sleeping(d))
      BY <1>1, <1>3, <1>4, <3>2 DEF Kept, Sleeping
    <3>. QED BY <3>1, <3>2 DEF CvInv, ListInv, Membership
  <2>4. Blocked'
    BY <1>3, <1>4 DEF CvInv, ListInv, Blocked
  <2>. QED BY <2>1, <2>2, <2>3, <2>4 DEF ListInv
<1>9. WaitInv' /\ WaitOnce'
  <2>1. \A d \in Sleepers : (pc'[d] \in Before => pc[d] \in Before) /\ (pc'[d] \in During <=> pc[d] \in During)
    BY <1>1, <1>3 DEF Before, During
  <2>. QED BY <1>1, <2>1, WaitsKept DEF CvInv
<1>. QED BY <1>5, <1>6, <1>7, <1>8, <1>9 DEF CvInv

\* unlock() that gives the mutex to a cv awaiter.
LEMMA UnlockToCvKeeps ==
  ASSUME CvInv, NEW c \in Coros, NEW l \in UnlockPc, UnlockToCv(c, l)
  PROVE  CvInv'
<1> USE Cast, AfterUnlock
<1>0. PICK t \in Coros : t = Head(waitq) /\ waitq # <<>>
  BY QueueHead DEF UnlockToCv
<1>1. /\ pc[c] = l /\ target[c] = Nobody /\ pc[t] \in {"asleep", "wait_unlock"} /\ holder' = t /\ waitq' = Tail(waitq)
      /\ target' = [target EXCEPT ![c] = t]
      /\ UNCHANGED <<m_head, items, cvVars, pc, walk>>
  BY <1>0 DEF UnlockToCv
<1>2. /\ waitq' \in Seq(Coros) /\ IsInjective(waitq') /\ ToSet(waitq) = ToSet(waitq') \cup {t} /\ t \notin ToSet(waitq')
      /\ t \notin ToSet(m_head) /\ \A d \in Coros : t \notin ToSet(walk[d]) /\ target[d] # t
  BY <1>0, <1>1, QueueHead
<1>3. t \in Sleepers
  BY <1>1 DEF CvInv, Roles
<1>4. target'[c] = t /\ \A d \in Coros : d # c => target'[d] = target[d]
  BY <1>1, <1>3 DEF CvInv, Types
<1>5. Types'
  BY <1>1, <1>2, <1>3 DEF CvInv, Types, cvVars
<1>6. Roles' /\ PredInv'
  BY <1>1 DEF CvInv, Roles, PredInv
<1>7. AgentInv'
  <2>1. \A d \in Coros : Agent(d) => d = c
    BY <1>1, OneAgent DEF CvInv, Agent
  <2>2. \A d \in Coros : (Agent(d)' <=> d = c) /\ ~Owning(d)'
    BY <1>1, <2>1 DEF Agent, Owning
  <2>3. \A d \in Coros : d # c => target'[d] = Nobody
    BY <1>1, <1>4, <2>1 DEF CvInv, AgentInv, Agent
  <2>. QED BY <1>1, <1>4, <2>2, <2>3 DEF AgentInv
<1>8. ListInv'
  <2>1. Injective'
    BY <1>1, <1>2 DEF CvInv, ListInv, Injective
  <2>2. Apart'
    <3>1. HeadApart'
      BY <1>1, <1>2, <1>4 DEF CvInv, ListInv, Apart, HeadApart
    <3>2. WaitApart'
      BY <1>1, <1>2, <1>4 DEF CvInv, ListInv, Apart, WaitApart
    <3>3. WalkApart'
      BY <1>1, <1>2, <1>4 DEF CvInv, ListInv, Apart, WalkApart
    <3>. QED BY <3>1, <3>2, <3>3 DEF Apart
  <2>3. Membership'
    <3>1. Kept(t)' /\ Sleeping(t)'
      BY <1>1, <1>4 DEF Kept, Sleeping
    <3>2. ASSUME NEW d \in Coros, d # t PROVE (Kept(d)' <=> Kept(d)) /\ (Sleeping(d)' <=> Sleeping(d))
      <4>1. \A e \in Coros : target'[e] = d <=> target[e] = d
        BY <1>1, <1>4, <3>2
      <4>. QED BY <1>1, <1>2, <3>2, <4>1 DEF Kept, Sleeping
    <3>. QED BY <3>1, <3>2 DEF CvInv, ListInv, Membership
  <2>4. Blocked'
    BY <1>1, <1>2 DEF CvInv, ListInv, Blocked
  <2>. QED BY <2>1, <2>2, <2>3, <2>4 DEF ListInv
<1>9. WaitInv' /\ WaitOnce'
  BY <1>1, WaitsKept DEF CvInv
<1>. QED BY <1>5, <1>6, <1>7, <1>8, <1>9 DEF CvInv

\* The lists hold coroutines.
LEMMA Listed ==
  ASSUME Types
  PROVE  /\ ToSet(m_head) \subseteq Coros /\ ToSet(waitq) \subseteq Coros
         /\ \A d \in Coros : ToSet(walk[d]) \subseteq Coros
<1>1. ASSUME NEW S, NEW s \in Seq(S) PROVE ToSet(s) \subseteq S
  BY LenProperties DEF ToSet
<1>2. /\ m_head \in Seq(Sleepers) /\ waitq \in Seq(Coros)
      /\ \A d \in Coros : walk[d] \in Seq(Sleepers)
  BY DEF Types
<1>. QED BY <1>1, <1>2, Cast

\* The awaiter that a thread is resuming sleeps and is in no list.
LEMMA Resuming ==
  ASSUME CvInv, NEW c \in Coros, NEW t \in Sleepers, target[c] = t
  PROVE  /\ holder = t /\ pc[c] \in UnlockPc /\ pc[t] \in {"asleep", "wait_unlock"} /\ (t # c => pc[t] = "asleep")
         /\ t \notin ToSet(m_head) /\ t \notin ToSet(waitq) /\ \A d \in Coros : t \notin ToSet(walk[d])
         /\ \A d \in Coros : (Agent(d) <=> d = c) /\ (d # c => target[d] = Nobody)
<1> USE Cast, AfterUnlock
<1>1. holder = t /\ pc[c] \in UnlockPc
  BY DEF CvInv, AgentInv
<1>2. \A d \in Coros : Agent(d) <=> d = c
  BY <1>1, OneAgent DEF CvInv, Agent
<1>3. \A d \in Coros : d # c => target[d] = Nobody
  BY <1>2 DEF CvInv, AgentInv, Agent
<1>4. t \notin ToSet(m_head) /\ t \notin ToSet(waitq) /\ \A d \in Coros : t \notin ToSet(walk[d])
  BY DEF CvInv, ListInv, Apart, HeadApart, WaitApart, WalkApart
<1>5. pc[t] \in {"asleep", "wait_unlock"}
  BY <1>4 DEF CvInv, ListInv, Membership, Kept, Sleeping, Blocked
<1>6. t # c => pc[t] = "asleep"
  BY <1>2, <1>5 DEF Agent
<1>. QED BY <1>1, <1>2, <1>3, <1>4, <1>5, <1>6

\* resume() with a false predicate.
LEMMA ResumeAgainKeeps ==
  ASSUME CvInv, NEW c \in Coros, NEW l \in UnlockPc, ResumeAgain(c, l)
  PROVE  CvInv'
<1> USE Cast, AfterUnlock
<1>0. PICK t \in Sleepers : t = target[c]
  BY DEF ResumeAgain, CvInv, Types
<1>1. /\ m_num_wait_task' = [m_num_wait_task EXCEPT ![t] = IF m_suspend_state[t] THEN @ ELSE @ + 1]
      /\ m_suspend_state' = [m_suspend_state EXCEPT ![t] = TRUE]
      /\ m_head' = Append(m_head, t) /\ target' = [target EXCEPT ![c] = Nobody]
      /\ UNCHANGED <<holder, waitq, items, pc, walk>>
  BY <1>0 DEF ResumeAgain, Register, mtxVars
<1>2. /\ holder = t /\ pc[c] \in UnlockPc /\ pc[t] \in {"asleep", "wait_unlock"} /\ (t # c => pc[t] = "asleep")
      /\ t \notin ToSet(m_head) /\ t \notin ToSet(waitq) /\ \A d \in Coros : t \notin ToSet(walk[d])
      /\ \A d \in Coros : (Agent(d) <=> d = c) /\ (d # c => target[d] = Nobody)
  BY <1>0, Resuming
<1>3. m_suspend_state[t]
  BY <1>2 DEF CvInv, WaitInv
<1>4. UNCHANGED cvVars
  <2>1. m_num_wait_task' = m_num_wait_task
    BY <1>1, <1>3 DEF CvInv, Types
  <2>2. m_suspend_state[t] = TRUE
    BY <1>3 DEF CvInv, Types
  <2>3. m_suspend_state' = m_suspend_state
    BY <1>1, <2>2 DEF CvInv, Types
  <2>. QED BY <2>1, <2>3 DEF cvVars
<1>5. target'[c] = Nobody /\ \A d \in Coros : target'[d] = Nobody
  BY <1>1, <1>2 DEF CvInv, Types
<1>6. m_head' \in Seq(Sleepers) /\ ToSet(m_head') = ToSet(m_head) \cup {t} /\ IsInjective(m_head')
  BY <1>1, <1>2, AppendSet DEF CvInv, Types, ListInv, Injective
<1>7. Types'
  BY <1>1, <1>4, <1>6 DEF CvInv, Types, cvVars
<1>8. Roles' /\ PredInv'
  BY <1>1 DEF CvInv, Roles, PredInv
<1>9. AgentInv'
  <2>1. \A d \in Coros : (Agent(d)' <=> Agent(d)) /\ (Owning(d)' <=> Owning(d))
    BY <1>1 DEF Agent, Owning
  <2>. QED BY <1>1, <1>5, <2>1 DEF CvInv, AgentInv
<1>10. ListInv'
  <2>1. Injective'
    BY <1>1, <1>6 DEF CvInv, ListInv, Injective
  <2>2. Apart'
    <3>1. HeadApart'
      BY <1>1, <1>2, <1>5, <1>6, Listed DEF CvInv, ListInv, Apart, HeadApart
    <3>2. WaitApart'
      BY <1>1, <1>5, Listed DEF CvInv, ListInv, Apart, WaitApart
    <3>3. WalkApart'
      BY <1>1, <1>5, Listed DEF CvInv, ListInv, Apart, WalkApart
    <3>. QED BY <3>1, <3>2, <3>3 DEF Apart
  <2>3. Membership'
    <3>1. Kept(t)' /\ Sleeping(t)'
      BY <1>1, <1>2, <1>6 DEF Kept, Sleeping
    <3>2. ASSUME NEW d \in Coros, d # t PROVE (Kept(d)' <=> Kept(d)) /\ (Sleeping(d)' <=> Sleeping(d))
      <4>1. \A e \in Coros : target[e] # d /\ target'[e] # d
        BY <1>0, <1>2, <1>5, <3>2
      <4>. QED BY <1>1, <1>6, <3>2, <4>1 DEF Kept, Sleeping
    <3>. QED BY <3>1, <3>2 DEF CvInv, ListInv, Membership
  <2>4. Blocked'
    BY <1>1 DEF CvInv, ListInv, Blocked
  <2>. QED BY <2>1, <2>2, <2>3, <2>4 DEF ListInv
<1>11. WaitInv' /\ WaitOnce'
  BY <1>1, <1>4, WaitsKept DEF CvInv
<1>. QED BY <1>7, <1>8, <1>9, <1>10, <1>11 DEF CvInv

\* resume() that submits the awaiter.
LEMMA ResumeDoneKeeps ==
  ASSUME CvInv, NEW c \in Coros, NEW l \in UnlockPc, ResumeDone(c, l)
  PROVE  CvInv'
<1> USE Cast, AfterUnlock
<1>0. PICK t \in Sleepers : t = target[c]
  BY DEF ResumeDone, CvInv, Types
<1>1. /\ pc[c] = l /\ target' = [target EXCEPT ![c] = Nobody] /\ (t \in Waiters => items > 0)
      /\ Return(c, l, [pc EXCEPT ![t] = "queued_cv"])
      /\ UNCHANGED <<holder, waitq, m_head, items, cvVars, walk>>
  BY <1>0 DEF ResumeDone, mtxVars, Cond
<1>2. /\ holder = t /\ pc[c] \in UnlockPc /\ pc[t] \in {"asleep", "wait_unlock"} /\ (t # c => pc[t] = "asleep")
      /\ t \notin ToSet(m_head) /\ t \notin ToSet(waitq) /\ \A d \in Coros : t \notin ToSet(walk[d])
      /\ \A d \in Coros : (Agent(d) <=> d = c) /\ (d # c => target[d] = Nobody)
  BY <1>0, Resuming
<1>3. \A d \in Coros : target'[d] = Nobody
  BY <1>1, <1>2 DEF CvInv, Types
<1>4. /\ pc' \in [Coros -> PcSet] /\ pc'[t] = "queued_cv" /\ (t # c => pc'[c] = After(l))
      /\ \A d \in Coros : d # c /\ d # t => pc'[d] = pc[d]
  <2>. DEFINE next == [pc EXCEPT ![t] = "queued_cv"]
  <2>1. next \in [Coros -> PcSet] /\ next[t] = "queued_cv" /\ \A d \in Coros : d # t => next[d] = pc[d]
    BY DEF CvInv, Types, PcSet
  <2>2. pc' = [next EXCEPT ![c] = IF l = "wait_unlock" /\ next[c] # l THEN next[c] ELSE After(l)]
    BY <1>1 DEF Return
  <2>3. After(l) \in PcSet
    BY DEF PcSet
  <2>. HIDE DEF next
  <2>4. CASE t = c
    <3>1. l = "wait_unlock" /\ next[c] = "queued_cv"
      BY <1>1, <1>2, <2>1, <2>4
    <3>. QED BY <2>1, <2>2, <2>4, <3>1
  <2>5. CASE t # c
    <3>1. next[c] = l
      BY <1>1, <2>1, <2>5
    <3>2. pc' = [next EXCEPT ![c] = After(l)]
      BY <2>2, <3>1
    <3>. QED BY <2>1, <2>3, <2>5, <3>2
  <2>. QED BY <2>4, <2>5
<1>5. Types'
  <2>1. target' \in [Coros -> Sleepers \cup {Nobody}]
    BY <1>1 DEF CvInv, Types
  <2>. QED BY <1>1, <1>4, <2>1 DEF CvInv, Types, cvVars
<1>6. Roles'
  BY <1>1, <1>2, <1>4 DEF CvInv, Roles
<1>7. PredInv'
  BY <1>1, <1>4 DEF CvInv, PredInv
<1>8. AgentInv'
  <2>1. \A d \in Coros : Agent(d)' <=> d = t
    BY <1>1, <1>2, <1>4 DEF CvInv, Roles, Agent, Owning
  <2>2. \A d \in Coros : Owning(d)' => Agent(d)'
    BY DEF Agent
  <2>. QED BY <1>1, <1>2, <1>3, <2>1, <2>2 DEF AgentInv
<1>9. ListInv'
  <2>1. Injective'
    BY <1>1 DEF CvInv, ListInv, Injective
  <2>2. Apart'
    <3>1. HeadApart'
      BY <1>1, <1>3, Listed DEF CvInv, ListInv, Apart, HeadApart
    <3>2. WaitApart'
      BY <1>1, <1>3, Listed DEF CvInv, ListInv, Apart, WaitApart
    <3>3. WalkApart'
      BY <1>1, <1>3, Listed DEF CvInv, ListInv, Apart, WalkApart
    <3>. QED BY <3>1, <3>2, <3>3 DEF Apart
  <2>3. Membership'
    <3>1. ~Kept(t)' /\ ~Sleeping(t)'
      BY <1>1, <1>2, <1>3, <1>4 DEF Kept, Sleeping
    <3>2. ASSUME NEW d \in Coros, d # t PROVE (Kept(d)' <=> Kept(d)) /\ (Sleeping(d)' <=> Sleeping(d))
      <4>1. \A e \in Coros : target[e] # d /\ target'[e] # d
        BY <1>0, <1>2, <1>3, <3>2
      <4>2. Sleeping(d)' <=> Sleeping(d)
        BY <1>1, <1>4, <3>2 DEF Sleeping
      <4>. QED BY <1>1, <3>2, <4>1, <4>2 DEF Kept
    <3>. QED BY <3>1, <3>2 DEF CvInv, ListInv, Membership
  <2>4. Blocked'
    BY <1>1, <1>4 DEF CvInv, ListInv, Blocked
  <2>. QED BY <2>1, <2>2, <2>3, <2>4 DEF ListInv
<1>10. WaitInv' /\ WaitOnce'
  <2>1. \A d \in Sleepers : (pc'[d] \in Before => pc[d] \in Before) /\ (pc'[d] \in During <=> pc[d] \in During)
    BY <1>1, <1>2, <1>4 DEF Before, During
  <2>. QED BY <1>1, <2>1, WaitsKept DEF CvInv
<1>. QED BY <1>5, <1>6, <1>7, <1>8, <1>9, <1>10 DEF CvInv

\* notify_one and notify_all take awaiters from the list.
LEMMA NotifyKeeps ==
  ASSUME CvInv, NEW p \in Coros, Notify(p)
  PROVE  CvInv'
<1> USE Cast, AfterUnlock
<1>0. PICK n \in 0 .. Len(m_head) : /\ walk' = [walk EXCEPT ![p] = SubSeq(m_head, 1, n)]
                                    /\ m_head' = SubSeq(m_head, n + 1, Len(m_head))
  <2>. DEFINE k == IF p \in All \/ m_head = <<>> THEN Len(m_head) ELSE 1
  <2>1. Len(m_head) \in Nat /\ (m_head # <<>> => Len(m_head) >= 1)
    BY EmptySeq, LenProperties DEF CvInv, Types
  <2>2. k \in 0 .. Len(m_head)
    BY <2>1
  <2>3. /\ walk' = [walk EXCEPT ![p] = SubSeq(m_head, 1, k)] /\ m_head' = SubSeq(m_head, k + 1, Len(m_head))
    BY DEF Notify
  <2>. QED BY <2>2, <2>3
<1>1. /\ pc[p] = "notify" /\ pc' = [pc EXCEPT ![p] = "walk"]
      /\ UNCHANGED <<holder, waitq, items, cvVars, target>>
  BY DEF Notify, Goto, mtxVars
<1>2. p \in Producers /\ walk[p] = <<>>
  BY <1>1 DEF CvInv, Roles
<1>3. walk'[p] = SubSeq(m_head, 1, n) /\ \A d \in Coros : d # p => walk'[d] = walk[d]
  BY <1>0 DEF CvInv, Types
<1>4. /\ walk'[p] \in Seq(Sleepers) /\ IsInjective(walk'[p]) /\ m_head' \in Seq(Sleepers) /\ IsInjective(m_head')
      /\ ToSet(walk'[p]) \cap ToSet(m_head') = {} /\ ToSet(m_head) = ToSet(walk'[p]) \cup ToSet(m_head')
  <2>1. m_head \in Seq(Sleepers) /\ IsInjective(m_head)
    BY DEF CvInv, Types, ListInv, Injective
  <2>. DEFINE a == SubSeq(m_head, 1, n)
              b == SubSeq(m_head, n + 1, Len(m_head))
  <2>2. /\ a \in Seq(Sleepers) /\ IsInjective(a) /\ b \in Seq(Sleepers) /\ IsInjective(b)
        /\ ToSet(a) \cap ToSet(b) = {} /\ ToSet(m_head) = ToSet(a) \cup ToSet(b)
    BY <2>1, SplitSet
  <2>3. walk'[p] = a /\ m_head' = b
    BY <1>0, <1>3
  <2>. HIDE DEF a, b
  <2>. QED BY <2>2, <2>3
<1>5. pc'[p] = "walk" /\ \A d \in Coros : d # p => pc'[d] = pc[d]
  BY <1>1 DEF CvInv, Types
<1>6. Types'
  <2>1. walk' \in [Coros -> Seq(Sleepers)]
    BY <1>0, <1>3, <1>4 DEF CvInv, Types
  <2>2. pc' \in [Coros -> PcSet]
    BY <1>1 DEF CvInv, Types, PcSet
  <2>. QED BY <1>1, <1>4, <2>1, <2>2 DEF CvInv, Types, cvVars
<1>7. Roles' /\ PredInv'
  BY <1>1, <1>2, <1>3, <1>5 DEF CvInv, Roles, PredInv
<1>8. AgentInv'
  <2>1. \A d \in Coros : (Agent(d)' <=> Agent(d)) /\ (Owning(d)' => Owning(d))
    BY <1>1, <1>5 DEF Agent, Owning
  <2>2. \A d \in Coros : target[d] # Nobody => pc'[d] \in UnlockPc
    BY <1>1, <1>5 DEF CvInv, AgentInv
  <2>. QED BY <1>1, <2>1, <2>2, AgentKept DEF CvInv
<1>9. ListInv'
  <2>0. ToSet(walk[p]) = {}
    BY <1>2, NoElements
  <2>1. Injective'
    BY <1>1, <1>3, <1>4 DEF CvInv, ListInv, Injective
  <2>2. Apart'
    <3>1. HeadApart'
      BY <1>1, <1>3, <1>4 DEF CvInv, ListInv, Apart, HeadApart
    <3>2. WaitApart'
      BY <1>1, <1>3, <1>4 DEF CvInv, ListInv, Apart, HeadApart, WaitApart
    <3>3. WalkApart'
      <4>1. ASSUME NEW e \in Coros, NEW x \in ToSet(walk'[p])
            PROVE  (x \in ToSet(walk'[e]) => e = p) /\ target'[e] # x
        BY <1>1, <1>3, <1>4, <4>1 DEF CvInv, ListInv, Apart, HeadApart
      <4>2. ASSUME NEW d \in Coros, d # p, NEW x \in ToSet(walk'[d]), NEW e \in Coros
            PROVE  (x \in ToSet(walk'[e]) => e = d) /\ target'[e] # x
        <5>1. x \in ToSet(walk[d]) /\ x \notin ToSet(walk'[p])
          BY <1>3, <1>4, <4>2 DEF CvInv, ListInv, Apart, HeadApart
        <5>2. (x \in ToSet(walk[e]) => e = d) /\ target[e] # x
          BY <5>1 DEF CvInv, ListInv, Apart, WalkApart
        <5>3. CASE e = p
          BY <1>1, <5>1, <5>2, <5>3
        <5>4. CASE e # p
          BY <1>1, <1>3, <5>2, <5>4
        <5>. QED BY <5>3, <5>4
      <4>. QED BY <4>1, <4>2 DEF WalkApart
    <3>. QED BY <3>1, <3>2, <3>3 DEF Apart
  <2>3. Membership'
    <3>1. ASSUME NEW d \in Coros PROVE (Kept(d)' <=> Kept(d)) /\ (Sleeping(d)' <=> Sleeping(d))
      <4>1. Sleeping(d)' <=> Sleeping(d)
        BY <1>1, <1>5 DEF Sleeping
      <4>2. Kept(d)' => Kept(d)
        BY <1>1, <1>3, <1>4 DEF Kept
      <4>3. Kept(d) => Kept(d)'
        BY <1>1, <1>3, <1>4, <2>0 DEF Kept
      <4>. QED BY <4>1, <4>2, <4>3
    <3>. QED BY <3>1 DEF CvInv, ListInv, Membership
  <2>4. Blocked'
    BY <1>1, <1>5 DEF CvInv, ListInv, Blocked
  <2>. QED BY <2>1, <2>2, <2>3, <2>4 DEF ListInv
<1>10. WaitInv' /\ WaitOnce'
  <2>1. \A d \in Sleepers : (pc'[d] \in Before => pc[d] \in Before) /\ (pc'[d] \in During <=> pc[d] \in During)
    BY <1>1, <1>5 DEF Before, During
  <2>. QED BY <1>1, <2>1, WaitsKept DEF CvInv
<1>. QED BY <1>6, <1>7, <1>8, <1>9, <1>10 DEF CvInv

\* The next awaiter that a notifier wakes.
LEMMA WalkHead ==
  ASSUME CvInv, NEW p \in Coros, walk[p] # <<>>
  PROVE  /\ Head(walk[p]) \in Sleepers /\ Tail(walk[p]) \in Seq(Sleepers) /\ IsInjective(Tail(walk[p]))
         /\ ToSet(walk[p]) = ToSet(Tail(walk[p])) \cup {Head(walk[p])} /\ Head(walk[p]) \notin ToSet(Tail(walk[p]))
         /\ Head(walk[p]) \notin ToSet(m_head) /\ Head(walk[p]) \notin ToSet(waitq)
         /\ \A d \in Coros : target[d] # Head(walk[p]) /\ (d # p => Head(walk[p]) \notin ToSet(walk[d]))
         /\ pc[Head(walk[p])] \in {"asleep", "wait_unlock"}
<1>1. walk[p] \in Seq(Sleepers) /\ IsInjective(walk[p])
  BY DEF CvInv, Types, ListInv, Injective
<1>2. /\ Head(walk[p]) \in Sleepers /\ Tail(walk[p]) \in Seq(Sleepers) /\ IsInjective(Tail(walk[p]))
      /\ ToSet(walk[p]) = ToSet(Tail(walk[p])) \cup {Head(walk[p])} /\ Head(walk[p]) \notin ToSet(Tail(walk[p]))
  BY <1>1, TailSet
<1>3. PICK t \in Sleepers : t = Head(walk[p])
  BY <1>2
<1>4. t \in ToSet(walk[p]) /\ t \in Coros
  BY <1>2, <1>3, Cast
<1>5. t \notin ToSet(m_head) /\ t \notin ToSet(waitq)
  BY <1>4 DEF CvInv, ListInv, Apart, HeadApart, WaitApart
<1>6. \A d \in Coros : target[d] # t /\ (d # p => t \notin ToSet(walk[d]))
  BY <1>4 DEF CvInv, ListInv, Apart, WalkApart
<1>7. pc[t] \in {"asleep", "wait_unlock"}
  BY <1>4, <1>5 DEF CvInv, ListInv, Membership, Kept, Sleeping, Blocked
<1>. QED BY <1>2, <1>3, <1>5, <1>6, <1>7

\* wake_up: the mutex is free ...
LEMMA WakeUpGets ==
  ASSUME CvInv, NEW p \in Coros, WakeUp(p), holder = Nobody
  PROVE  CvInv'
<1> USE Cast, AfterUnlock
<1>0. PICK t \in Sleepers : t = Head(walk[p]) /\ walk[p] # <<>>
  BY WalkHead DEF WakeUp
<1>1. /\ walk' = [walk EXCEPT ![p] = Tail(@)] /\ holder' = t
      /\ pc[p] = "walk" /\ pc' = [pc EXCEPT ![p] = "walk_unlock"]
      /\ target' = [target EXCEPT ![p] = t]
      /\ UNCHANGED <<waitq, m_head, items, cvVars>>
  BY <1>0 DEF WakeUp, Goto
<1>2. /\ Tail(walk[p]) \in Seq(Sleepers) /\ IsInjective(Tail(walk[p]))
      /\ ToSet(walk[p]) = ToSet(Tail(walk[p])) \cup {t} /\ t \notin ToSet(Tail(walk[p]))
      /\ t \notin ToSet(m_head) /\ t \notin ToSet(waitq)
      /\ \A d \in Coros : target[d] # t /\ (d # p => t \notin ToSet(walk[d]))
      /\ pc[t] \in {"asleep", "wait_unlock"}
  BY <1>0, WalkHead
<1>3. /\ waitq = <<>> /\ \A d \in Coros : ~Agent(d) /\ target[d] = Nobody
  BY DEF CvInv, AgentInv, Agent
<1>4. p \in Producers /\ p \notin Early /\ t # p
  BY <1>1, <1>2, <1>3 DEF CvInv, Roles, Agent, Owning
<1>5. /\ walk'[p] = Tail(walk[p]) /\ pc'[p] = "walk_unlock" /\ target'[p] = t
      /\ \A d \in Coros : d # p => walk'[d] = walk[d] /\ pc'[d] = pc[d] /\ target'[d] = Nobody
  BY <1>1, <1>3 DEF CvInv, Types
<1>6. Types'
  <2>1. walk' \in [Coros -> Seq(Sleepers)] /\ target' \in [Coros -> Sleepers \cup {Nobody}]
    BY <1>1, <1>2 DEF CvInv, Types
  <2>2. pc' \in [Coros -> PcSet]
    BY <1>1 DEF CvInv, Types, PcSet
  <2>. QED BY <1>1, <2>1, <2>2 DEF CvInv, Types, cvVars
<1>7. Roles' /\ PredInv'
  BY <1>1, <1>4, <1>5 DEF CvInv, Roles, PredInv
<1>8. AgentInv'
  <2>1. \A d \in Coros : (Agent(d)' <=> d = p) /\ ~Owning(d)'
    BY <1>1, <1>3, <1>5 DEF Agent, Owning
  <2>. QED BY <1>1, <1>5, <2>1 DEF AgentInv
<1>9. ListInv'
  <2>1. Injective'
    BY <1>1, <1>2, <1>5 DEF CvInv, ListInv, Injective
  <2>2. Apart'
    <3>1. HeadApart'
      BY <1>1, <1>2, <1>5, Listed DEF CvInv, ListInv, Apart, HeadApart
    <3>2. WaitApart'
      BY <1>1, <1>2, <1>5, Listed DEF CvInv, ListInv, Apart, WaitApart
    <3>3. WalkApart'
      BY <1>1, <1>2, <1>5, Listed DEF CvInv, ListInv, Apart, WalkApart
    <3>. QED BY <3>1, <3>2, <3>3 DEF Apart
  <2>3. Membership'
    <3>1. Kept(t)' /\ Sleeping(t)'
      BY <1>1, <1>2, <1>4, <1>5 DEF Kept, Sleeping
    <3>2. ASSUME NEW d \in Coros, d # t PROVE (Kept(d)' <=> Kept(d)) /\ (Sleeping(d)' <=> Sleeping(d))
      <4>1. \A e \in Coros : target[e] # d /\ target'[e] # d
        BY <1>3, <1>5, <3>2
      <4>2. Sleeping(d)' <=> Sleeping(d)
        BY <1>1, <1>5 DEF Sleeping
      <4>3. \A e \in Coros : d \in ToSet(walk'[e]) <=> d \in ToSet(walk[e])
        BY <1>2, <1>5, <3>2
      <4>. QED BY <1>1, <4>1, <4>2, <4>3 DEF Kept
    <3>. QED BY <3>1, <3>2 DEF CvInv, ListInv, Membership
  <2>4. Blocked'
    BY <1>1, <1>5 DEF CvInv, ListInv, Blocked
  <2>. QED BY <2>1, <2>2, <2>3, <2>4 DEF ListInv
<1>10. WaitInv' /\ WaitOnce'
  <2>1. \A d \in Sleepers : (pc'[d] \in Before => pc[d] \in Before) /\ (pc'[d] \in During <=> pc[d] \in During)
    BY <1>1, <1>5 DEF Before, During
  <2>. QED BY <1>1, <2>1, WaitsKept DEF CvInv
<1>. QED BY <1>6, <1>7, <1>8, <1>9, <1>10 DEF CvInv

\* ... or the awaiter joins its queue.
LEMMA WakeUpQueues ==
  ASSUME CvInv, NEW p \in Coros, WakeUp(p), holder # Nobody
  PROVE  CvInv'
<1> USE Cast, AfterUnlock
<1>0. PICK t \in Sleepers : t = Head(walk[p]) /\ walk[p] # <<>>
  BY WalkHead DEF WakeUp
<1>1. /\ walk' = [walk EXCEPT ![p] = Tail(@)] /\ waitq' = Append(waitq, t)
      /\ pc[p] = "walk" /\ pc' = [pc EXCEPT ![p] = "walk"]
      /\ UNCHANGED <<holder, target, m_head, items, cvVars>>
  BY <1>0 DEF WakeUp, Goto
<1>2. /\ Tail(walk[p]) \in Seq(Sleepers) /\ IsInjective(Tail(walk[p]))
      /\ ToSet(walk[p]) = ToSet(Tail(walk[p])) \cup {t} /\ t \notin ToSet(Tail(walk[p]))
      /\ t \notin ToSet(m_head) /\ t \notin ToSet(waitq)
      /\ \A d \in Coros : target[d] # t /\ (d # p => t \notin ToSet(walk[d]))
      /\ pc[t] \in {"asleep", "wait_unlock"}
  BY <1>0, WalkHead
<1>3. pc' = pc
  BY <1>1 DEF CvInv, Types
<1>4. waitq' \in Seq(Coros) /\ ToSet(waitq') = ToSet(waitq) \cup {t} /\ IsInjective(waitq')
  BY <1>1, <1>2, AppendSet DEF CvInv, Types, ListInv, Injective
<1>5. walk'[p] = Tail(walk[p]) /\ \A d \in Coros : d # p => walk'[d] = walk[d]
  BY <1>1 DEF CvInv, Types
<1>6. Types'
  <2>1. walk' \in [Coros -> Seq(Sleepers)]
    BY <1>1, <1>2 DEF CvInv, Types
  <2>. QED BY <1>1, <1>3, <1>4, <2>1 DEF CvInv, Types, cvVars
<1>7. Roles' /\ PredInv'
  BY <1>1, <1>3, <1>5 DEF CvInv, Roles, PredInv
<1>8. AgentInv'
  <2>1. \A d \in Coros : (Agent(d)' <=> Agent(d)) /\ (Owning(d)' <=> Owning(d))
    BY <1>3 DEF Agent, Owning
  <2>. QED BY <1>1, <1>3, <2>1 DEF CvInv, AgentInv
<1>9. ListInv'
  <2>1. Injective'
    BY <1>1, <1>2, <1>4, <1>5 DEF CvInv, ListInv, Injective
  <2>2. Apart'
    <3>1. HeadApart'
      BY <1>1, <1>2, <1>4, <1>5 DEF CvInv, ListInv, Apart, HeadApart
    <3>2. WaitApart'
      BY <1>1, <1>2, <1>4, <1>5 DEF CvInv, ListInv, Apart, WaitApart
    <3>3. WalkApart'
      <4>1. \A d \in Coros : ToSet(walk'[d]) \subseteq ToSet(walk[d])
        BY <1>2, <1>5
      <4>2. target' = target
        BY <1>1
      <4>3. WalkApart
        BY DEF CvInv, ListInv, Apart
      <4>. QED BY <4>1, <4>2, <4>3 DEF WalkApart
    <3>. QED BY <3>1, <3>2, <3>3 DEF Apart
  <2>3. Membership'
    <3>1. Kept(t)' /\ Sleeping(t)'
      BY <1>2, <1>3, <1>4 DEF Kept, Sleeping
    <3>2. ASSUME NEW d \in Coros, d # t PROVE (Kept(d)' <=> Kept(d)) /\ (Sleeping(d)' <=> Sleeping(d))
      <4>1. \A e \in Coros : d \in ToSet(walk'[e]) <=> d \in ToSet(walk[e])
        BY <1>2, <1>5, <3>2
      <4>. QED BY <1>1, <1>3, <1>4, <3>2, <4>1 DEF Kept, Sleeping
    <3>. QED BY <3>1, <3>2 DEF CvInv, ListInv, Membership
  <2>4. Blocked'
    BY <1>3, <1>4 DEF CvInv, ListInv, Blocked
  <2>. QED BY <2>1, <2>2, <2>3, <2>4 DEF ListInv
<1>10. WaitInv' /\ WaitOnce'
  BY <1>1, <1>3, WaitsKept DEF CvInv
<1>. QED BY <1>6, <1>7, <1>8, <1>9, <1>10 DEF CvInv

-----------------------------------------------------------------------------
(***************************************************************************)
(* The invariant.                                                          *)
(***************************************************************************)
LEMMA CvInit == Init => CvInv
<1> SUFFICES ASSUME Init PROVE CvInv
  OBVIOUS
<1> USE Cast, AfterUnlock
<1>1. /\ holder = Nobody /\ waitq = <<>> /\ m_head = <<>> /\ items = 0
      /\ m_suspend_state = [c \in Sleepers |-> FALSE] /\ m_num_wait_task = [c \in Sleepers |-> 0]
      /\ pc = [c \in Coros |-> "start"] /\ target = [c \in Coros |-> Nobody] /\ walk = [c \in Coros |-> <<>>]
  BY DEF Init
<1>2. Types
  <2>1. <<>> \in Seq(Sleepers) /\ <<>> \in Seq(Coros) /\ "start" \in PcSet
    BY NoElements DEF PcSet
  <2>2. pc \in [Coros -> PcSet] /\ walk \in [Coros -> Seq(Sleepers)] /\ target \in [Coros -> Sleepers \cup {Nobody}]
    BY <1>1, <2>1
  <2>3. m_suspend_state \in [Sleepers -> BOOLEAN] /\ m_num_wait_task \in [Sleepers -> Nat]
    BY <1>1
  <2>. QED BY <1>1, <2>1, <2>2, <2>3 DEF Types
<1>3. \A c \in Coros : pc[c] = "start" /\ target[c] = Nobody /\ walk[c] = <<>>
  BY <1>1
<1>4. Roles /\ PredInv
  BY <1>3 DEF Roles, PredInv
<1>5. AgentInv
  BY <1>1, <1>3 DEF AgentInv, Agent, Owning
<1>6. ListInv
  <2>1. ToSet(m_head) = {} /\ ToSet(waitq) = {} /\ \A d \in Coros : ToSet(walk[d]) = {}
    BY <1>1, <1>3, NoElements
  <2>2. Injective
    BY <1>1, <1>3, NoElements DEF Injective
  <2>3. Apart
    BY <2>1 DEF Apart, HeadApart, WaitApart, WalkApart
  <2>4. \A c \in Coros : ~Sleeping(c) /\ ~Kept(c)
    BY <1>3, <2>1 DEF Sleeping, Kept
  <2>. QED BY <1>3, <2>2, <2>3, <2>4 DEF ListInv, Membership, Blocked
<1>7. WaitInv /\ WaitOnce
  <2>1. \A c \in Sleepers : m_suspend_state[c] = FALSE /\ m_num_wait_task[c] = 0
    BY <1>1
  <2>. QED BY <1>3, <2>1 DEF WaitInv, WaitOnce
<1>. QED BY <1>2, <1>4, <1>5, <1>6, <1>7 DEF CvInv

LEMMA CvStutter == CvInv /\ UNCHANGED vars => CvInv'
<1> SUFFICES ASSUME CvInv, UNCHANGED vars PROVE CvInv'
  OBVIOUS
<1>1. UNCHANGED <<holder, waitq, m_head, items, m_suspend_state, m_num_wait_task, pc, target, walk>>
  BY DEF vars, mtxVars, cvVars
<1>2. Types' /\ Roles' /\ PredInv'
  BY <1>1 DEF CvInv, Types, Roles, PredInv
<1>3. AgentInv'
  <2>1. \A d \in Coros : (Agent(d)' <=> Agent(d)) /\ (Owning(d)' <=> Owning(d))
    BY <1>1 DEF Agent, Owning
  <2>. QED BY <1>1, <2>1 DEF CvInv, AgentInv
<1>4. ListInv'
  BY <1>1, ListsKept DEF CvInv, Sleeping
<1>5. WaitInv' /\ WaitOnce'
  BY <1>1 DEF CvInv, WaitInv, WaitOnce
<1>. QED BY <1>2, <1>3, <1>4, <1>5 DEF CvInv

LEMMA CvStep == CvInv /\ [Next]_vars => CvInv'
<1> SUFFICES ASSUME CvInv, [Next]_vars PROVE CvInv'
  OBVIOUS
<1>1. ASSUME NEW c \in Coros, Lock(c) PROVE CvInv'
  BY <1>1, LockFree, LockBusy DEF Lock
<1>2. ASSUME NEW c \in Coros, Wait(c) PROVE CvInv'
  <2>1. CASE c \in Waiters /\ Cond(c) /\ Goto(c, "locked", "woken") /\ UNCHANGED <<mtxVars, m_head, items, cvVars, target, walk>>
    BY <2>1, WaitGoesOn
  <2>2. CASE /\ c \in Plain \/ (c \in Waiters /\ ~ Cond(c))
             /\ Goto(c, "locked", "wait_unlock") /\ Register(c) /\ UNCHANGED <<mtxVars, items, target, walk>>
    BY <2>2, WaitSleeps DEF Sleepers
  <2>. QED BY <1>2, <2>1, <2>2 DEF Wait
<1>3. ASSUME NEW c \in Coros, AwaitResume(c) PROVE CvInv'
  BY <1>3, ResumedLock, ResumedCv DEF AwaitResume
<1>4. ASSUME NEW c \in Coros, Consume(c) PROVE CvInv'
  BY <1>4, ConsumeKeeps DEF Consume
<1>5. ASSUME NEW c \in Coros, Unlock(c) PROVE CvInv'
  BY <1>5, UnlockFreeKeeps, UnlockToLockKeeps, UnlockToCvKeeps, ResumeAgainKeeps, ResumeDoneKeeps DEF Unlock
<1>6. ASSUME NEW c \in Coros, Produce(c) PROVE CvInv'
  BY <1>6, ProduceKeeps DEF Produce
<1>7. ASSUME NEW c \in Coros, Notify(c) PROVE CvInv'
  BY <1>7, NotifyKeeps
<1>8. ASSUME NEW c \in Coros, WakeUp(c) PROVE CvInv'
  BY <1>8, WakeUpGets, WakeUpQueues
<1>9. ASSUME NEW c \in Coros, NotifyDone(c) PROVE CvInv'
  BY <1>9, NotifyDoneKeeps DEF NotifyDone
<1>10. ASSUME Terminated PROVE CvInv'
  BY <1>10, CvStutter DEF Terminated
<1>11. ASSUME UNCHANGED vars PROVE CvInv'
  BY <1>11, CvStutter
<1>. QED BY <1>1, <1>2, <1>3, <1>4, <1>5, <1>6, <1>7, <1>8, <1>9, <1>10, <1>11 DEF Next, Step

\* The lists, the mutex and the awaiters' places agree in every state.
THEOREM CvInvariant == Spec => []CvInv
BY CvInit, CvStep, PTL DEF Spec

-----------------------------------------------------------------------------
(***************************************************************************)
(* What it means.                                                          *)
(***************************************************************************)

\* A wait returns with the mutex held and the predicate true, whoever
\* evaluated it (condition_variable.cpp 39, 117-133).
THEOREM ReturnsWithPredicate == Spec => []PredicateOnReturn
<1>1. CvInv => PredicateOnReturn
  BY Cast DEF CvInv, AgentInv, Owning, PredInv, PredicateOnReturn
<1>. QED BY <1>1, CvInvariant, PTL

\* A wait is registered with its context once, however often the predicate
\* puts the awaiter back (condition_variable.cpp 66-73).
THEOREM WaitsOnce == Spec => []WaitOnce
<1>1. CvInv => WaitOnce
  BY DEF CvInv
<1>. QED BY <1>1, CvInvariant, PTL

\* Nobody sleeps with the mutex held, except while somebody is about to give
\* it away; the mutex of a program at rest is free, nobody is left blocked in
\* lock(), and every sleeper is in the list that notify reads
\* (condition_variable.cpp 81, 127).
THEOREM SleepersRelease == Spec => []MutexReleased
<1>1. CvInv => MutexReleased
  <2> SUFFICES ASSUME CvInv PROVE MutexReleased
    OBVIOUS
  <2>1. ASSUME holder # Nobody, pc[holder] = "asleep" PROVE \E d \in Coros : pc[d] \in UnlockPc
    <3>1. PICK d \in Coros : Agent(d)
      BY <2>1 DEF CvInv, AgentInv
    <3>2. ~Owning(d)
      BY <2>1, <3>1 DEF CvInv, AgentInv, Owning
    <3>. QED BY <3>1, <3>2 DEF Agent
  <2>2. ASSUME \A c \in Coros : pc[c] \in {"end", "asleep", "blocked"}
        PROVE  holder = Nobody /\ \A c \in Coros : pc[c] # "blocked" /\ (pc[c] = "asleep" => c \in ToSet(m_head))
    <3>1. \A c \in Coros : ~Agent(c)
      BY <2>2, AfterUnlock DEF Agent, Owning
    <3>2. holder = Nobody /\ waitq = <<>>
      BY <3>1 DEF CvInv, AgentInv
    <3>3. \A d \in Coros : target[d] = Nobody /\ walk[d] = <<>>
      BY <2>2, <3>1, AfterUnlock DEF CvInv, AgentInv, Agent, Roles
    <3>4. ToSet(waitq) = {} /\ \A d \in Coros : ToSet(walk[d]) = {}
      BY <3>2, <3>3 DEF ToSet
    <3>5. ASSUME NEW c \in Coros PROVE pc[c] # "blocked" /\ (pc[c] = "asleep" => c \in ToSet(m_head))
      <4>1. pc[c] # "blocked"
        BY <3>4 DEF CvInv, ListInv, Blocked
      <4>2. pc[c] = "asleep" => Kept(c)
        BY DEF CvInv, ListInv, Membership, Sleeping
      <4>. QED BY <3>3, <3>4, <4>1, <4>2, Cast DEF Kept
    <3>. QED BY <3>2, <3>5
  <2>. QED BY <2>1, <2>2 DEF MutexReleased
<1>. QED BY <1>1, CvInvariant, PTL

\* A sleeping coroutine is once in one list, or in the hands of one thread,
\* and nobody else is in any (the one m_next of an awaiter).
THEOREM StaysInOneList == Spec => []InOneList
<1>1. CvInv => InOneList
  <2> SUFFICES ASSUME CvInv, NEW c \in Coros
               PROVE  Places(c) = IF Sleeping(c) THEN 1 ELSE 0
    BY DEF InOneList, Sleeping
  <2>. DEFINE H == Cardinality({i \in 1 .. Len(m_head) : m_head[i] = c})
              W == Cardinality({i \in 1 .. Len(waitq) : waitq[i] = c})
              K == Cardinality({d \in Coros : c \in ToSet(walk[d])})
              T == Cardinality({d \in Coros : target[d] = c})
  <2>0. Places(c) = H + W + K + T
    BY DEF Places
  <2>1. H = (IF c \in ToSet(m_head) THEN 1 ELSE 0) /\ W = (IF c \in ToSet(waitq) THEN 1 ELSE 0)
    BY OnePosition DEF CvInv, Types, ListInv, Injective
  <2>2. /\ (\E d \in Coros : c \in ToSet(walk[d])) => K = 1
        /\ (\A d \in Coros : c \notin ToSet(walk[d])) => K = 0
    <3>1. ASSUME NEW d \in Coros, c \in ToSet(walk[d]) PROVE K = 1
      <4>1. {e \in Coros : c \in ToSet(walk[e])} = {d}
        BY <3>1 DEF CvInv, ListInv, Apart, WalkApart
      <4>. QED BY <4>1, FS_Singleton
    <3>2. ASSUME \A d \in Coros : c \notin ToSet(walk[d]) PROVE K = 0
      <4>1. {e \in Coros : c \in ToSet(walk[e])} = {}
        BY <3>2
      <4>. QED BY <4>1, FS_EmptySet
    <3>. QED BY <3>1, <3>2
  <2>3. /\ (\E d \in Coros : target[d] = c) => T = 1
        /\ (\A d \in Coros : target[d] # c) => T = 0
    <3>1. ASSUME NEW d \in Coros, target[d] = c PROVE T = 1
      <4>1. \A e \in Coros : target[e] = c => e = d
        BY <3>1, Cast DEF CvInv, AgentInv, Agent
      <4>2. {e \in Coros : target[e] = c} = {d}
        BY <3>1, <4>1
      <4>. QED BY <4>2, FS_Singleton
    <3>2. ASSUME \A d \in Coros : target[d] # c PROVE T = 0
      <4>1. {e \in Coros : target[e] = c} = {}
        BY <3>2
      <4>. QED BY <4>1, FS_EmptySet
    <3>. QED BY <3>1, <3>2
  <2>. HIDE DEF H, W, K, T
  <2>4. CASE c \in ToSet(m_head)
    <3>1. c \notin ToSet(waitq) /\ \A d \in Coros : c \notin ToSet(walk[d]) /\ target[d] # c
      BY <2>4 DEF CvInv, ListInv, Apart, HeadApart
    <3>2. Sleeping(c)
      BY <2>4 DEF CvInv, ListInv, Membership, Kept
    <3>. QED BY <2>0, <2>1, <2>2, <2>3, <2>4, <3>1, <3>2
  <2>5. CASE c \in ToSet(waitq)
    <3>1. c \notin ToSet(m_head) /\ \A d \in Coros : c \notin ToSet(walk[d]) /\ target[d] # c
      BY <2>5 DEF CvInv, ListInv, Apart, HeadApart, WaitApart
    <3>2. Sleeping(c)
      BY <2>5 DEF CvInv, ListInv, Membership, Kept
    <3>. QED BY <2>0, <2>1, <2>2, <2>3, <2>5, <3>1, <3>2
  <2>6. ASSUME NEW d \in Coros, c \in ToSet(walk[d]) PROVE Places(c) = IF Sleeping(c) THEN 1 ELSE 0
    <3>1. c \notin ToSet(m_head) /\ c \notin ToSet(waitq) /\ \A e \in Coros : target[e] # c
      BY <2>6 DEF CvInv, ListInv, Apart, HeadApart, WaitApart, WalkApart
    <3>2. Sleeping(c)
      BY <2>6 DEF CvInv, ListInv, Membership, Kept
    <3>. QED BY <2>0, <2>1, <2>2, <2>3, <2>6, <3>1, <3>2
  <2>7. ASSUME NEW d \in Coros, target[d] = c PROVE Places(c) = IF Sleeping(c) THEN 1 ELSE 0
    <3>1. c \notin ToSet(m_head) /\ c \notin ToSet(waitq) /\ \A e \in Coros : c \notin ToSet(walk[e])
      BY <2>7 DEF CvInv, ListInv, Apart, HeadApart, WaitApart, WalkApart
    <3>2. Sleeping(c)
      BY <2>7 DEF CvInv, ListInv, Membership, Kept
    <3>. QED BY <2>0, <2>1, <2>2, <2>3, <2>7, <3>1, <3>2
  <2>8. CASE ~Kept(c)
    <3>1. ~Sleeping(c)
      BY <2>8 DEF CvInv, ListInv, Membership
    <3>. QED BY <2>0, <2>1, <2>2, <2>3, <2>8, <3>1 DEF Kept
  <2>. QED BY <2>4, <2>5, <2>6, <2>7, <2>8 DEF Kept
<1>. QED BY <1>1, CvInvariant, PTL

-----------------------------------------------------------------------------
(***************************************************************************)
(* The condition variable and the mutex under it.                          *)
(***************************************************************************)
CvLock == INSTANCE FifoLock

\* The condition variable uses its mutex as a lock with a queue: everything it
\* does to it, a notifier that asks on behalf of a sleeper and a thread that
\* unlocks on behalf of the owner included, is an acquire, a request, a
\* release or a hand-over of FifoLock, which module Mutex implements.
THEOREM CvKeepsLockProtocol == Spec => CvLock!FifoSpec
<1>1. Init => CvLock!FifoInit
  BY DEF Init, CvLock!FifoInit
<1>2. CvInv /\ [Next]_vars => [CvLock!FifoNext]_(CvLock!fifoVars)
  <2> SUFFICES ASSUME CvInv, [Next]_vars PROVE CvLock!FifoNext \/ UNCHANGED mtxVars
    BY DEF CvLock!fifoVars, mtxVars
  <2>1. ASSUME NEW c \in Coros, Lock(c) PROVE CvLock!FifoNext
    BY <2>1 DEF Lock, CvLock!FifoNext, CvLock!Acquire, CvLock!Enqueue
  <2>2. ASSUME NEW c \in Coros, Unlock(c) PROVE CvLock!FifoNext \/ UNCHANGED mtxVars
    <3>1. PICK l \in UnlockPc : UnlockFree(c, l) \/ UnlockToLock(c, l) \/ UnlockToCv(c, l) \/ ResumeAgain(c, l) \/ ResumeDone(c, l)
      BY <2>2 DEF Unlock
    <3>2. pc[c] = l
      BY <3>1 DEF UnlockFree, UnlockToLock, UnlockToCv, ResumeAgain, ResumeDone
    <3>3. holder # Nobody
      BY <3>2, OneAgent DEF CvInv, Agent
    <3>4. CASE UnlockFree(c, l)
      BY <3>3, <3>4 DEF UnlockFree, CvLock!FifoNext, CvLock!Release
    <3>5. CASE UnlockToLock(c, l)
      BY <3>3, <3>5 DEF UnlockToLock, CvLock!FifoNext, CvLock!HandOver
    <3>6. CASE UnlockToCv(c, l)
      BY <3>3, <3>6 DEF UnlockToCv, CvLock!FifoNext, CvLock!HandOver
    <3>7. CASE ResumeAgain(c, l) \/ ResumeDone(c, l)
      BY <3>7 DEF ResumeAgain, ResumeDone
    <3>. QED BY <3>1, <3>4, <3>5, <3>6, <3>7
  <2>3. ASSUME NEW p \in Coros, WakeUp(p) PROVE CvLock!FifoNext
    <3>1. PICK t \in Coros : t = Head(walk[p])
      BY <2>3, WalkHead, Cast DEF WakeUp
    <3>. QED BY <2>3, <3>1 DEF WakeUp, CvLock!FifoNext, CvLock!Acquire, CvLock!Enqueue
  <2>4. ASSUME NEW c \in Coros, Wait(c) \/ AwaitResume(c) \/ Consume(c) \/ Produce(c) \/ Notify(c) \/ NotifyDone(c)
        PROVE  UNCHANGED mtxVars
    BY <2>4 DEF Wait, AwaitResume, Consume, Produce, Notify, NotifyDone
  <2>5. ASSUME Terminated \/ UNCHANGED vars PROVE UNCHANGED mtxVars
    BY <2>5 DEF Terminated, vars
  <2>. QED BY <2>1, <2>2, <2>3, <2>4, <2>5 DEF Next, Step
<1>. QED BY <1>1, <1>2, CvInvariant, PTL DEF Spec, CvLock!FifoSpec
=============================================================================
