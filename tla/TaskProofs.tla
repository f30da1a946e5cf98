------------------------------ MODULE TaskProofs ------------------------------
(***************************************************************************)
(* Theorems about Task, for every number of submitted tasks, every length  *)
(* of the chains they call, and whatever levels wait, throw and return.    *)
(***************************************************************************)
EXTENDS Task, ListLemmas, TLAPS

Live == {"running", "suspended", "awaiting"}
Over == {"final", "destroyed"}

Types ==
  /\ frame \in [Coro -> Live \cup Over \cup {"none"}]
  /\ m_state \in [Coro -> {"normal", "detach", "none"}]
  /\ m_continuation \in [Coro -> Coro \cup {Null}]
  /\ waiting \subseteq Coro /\ through \subseteq Coro /\ throwing \subseteq Coro
  /\ m_task_queue \in Seq(Coro)
  /\ coro \in Coro \cup {Null} /\ active \in Coro \cup {Null}
  /\ pc \in {"idle", "resume", "done?", "dead"}
  /\ container \in [Coro -> {"none", "value", "exception"}]
  /\ got \in [Coro -> {"none", "value", "exception"}]
  /\ broken \subseteq Coro

\* The coroutines of a root call each other in a chain: one that has been
\* called and is not over is awaited by its caller, one that has ended but is
\* not destroyed by a caller that has it still.
ChainInv == \A c \in Coro : c[2] < Depth =>
  /\ frame[c] = "awaiting" <=> frame[Child(c)] \in Live
  /\ frame[Child(c)] = "final" => frame[c] \in {"running", "suspended"}
  /\ frame[c] = "none" => frame[Child(c)] = "none"
ContinuationInv == \A c \in Coro :
  /\ m_continuation[c] # Null => m_continuation[c][2] < Depth /\ c = Child(m_continuation[c])
  /\ m_continuation[c] = Null => c[2] = 1 \/ frame[c] = "none"

\* One coroutine executes, and it belongs to the task that was resumed.
ActiveInv ==
  /\ active = Null <=> pc \in {"idle", "done?"}
  /\ pc # "idle" => coro # Null
  /\ \A c \in Coro : frame[c] = "running" <=> active = c
  /\ active # Null => active[1] = coro[1]

\* The handles that somebody holds are those of the suspended frames.
HandleInv ==
  /\ IsInjective(m_task_queue) /\ ToSet(m_task_queue) \cap waiting = {}
  /\ \A c \in Coro : frame[c] = "suspended" <=> c \in ToSet(m_task_queue) \cup waiting

\* A coroutine that was called is resumed by its own handle after it has waited.
HeldNested == \A c \in ToSet(m_task_queue) \cup waiting : c[2] > 1 => c \in through
CoroNested == pc # "idle" => /\ coro[2] > 1 => coro \in through
                             /\ coro[2] = 1 => frame[coro] \notin {"none", "destroyed"}

\* Somebody at the end of a chain of calls runs or will be resumed.
ChainEnds == \A c \in Coro : frame[c] = "awaiting" =>
  \E d \in Coro : d[1] = c[1] /\ d[2] > c[2] /\ frame[d] \in {"running", "suspended"}

\* Who destroys the frame of a submitted task, and when.
OwnerInv ==
  /\ \A c \in Coro : c[2] > 1 => m_state[c] = "normal"
  /\ \A r \in Kept : m_state[Root(r)] # "detach" /\ (frame[Root(r)] = "destroyed" => m_state[Root(r)] = "none")
  /\ \A r \in Roots \ Kept : frame[Root(r)] # "none" => m_state[Root(r)] = "detach"
FreeInv == \A r \in Roots \ Kept : frame[Root(r)] = "final" =>
  (pc \in {"done?", "dead"} /\ coro = Root(r)) \/ \E c \in Coro : c[1] = r /\ WaitedNested(c)

\* What has left a coroutine is what its promise holds and its caller gets.
ResultInv ==
  /\ \A c \in Coro : frame[c] = "final" => container[c] = EndOf(c)
  /\ \A p \in Coro : p[2] < Depth =>
       /\ got[p] # "none" => frame[Child(p)] \in Over /\ (got[p] = "exception" <=> Child(p) \in throwing)
       /\ frame[Child(p)] = "destroyed" => got[p] # "none"
       /\ frame[p] \in Over => frame[Child(p)] \in {"none", "destroyed"}
  /\ \A p \in throwing : p[2] \in ThrowAt \/ (p[2] < Depth /\ Child(p) \in throwing)
  /\ pc = "dead" => \E c \in throwing : c[2] \in Pod

TaskInv == /\ Types /\ ChainInv /\ ContinuationInv /\ ActiveInv /\ HandleInv /\ HeldNested /\ CoroNested
           /\ ChainEnds /\ OwnerInv /\ FreeInv /\ ResultInv /\ RootFramesSafe

-----------------------------------------------------------------------------
(***************************************************************************)
(* Facts that the steps use.                                               *)
(***************************************************************************)

\* Chains of coroutines.
LEMMA Chains ==
  /\ Depth \in Nat \ {0} /\ Null \notin Coro
  /\ \A c \in Coro : c[1] \in Roots /\ c[2] \in 1 .. Depth
  /\ \A c \in Coro : c[2] < Depth => Child(c) \in Coro /\ Child(c)[1] = c[1] /\ Child(c)[2] = c[2] + 1
  /\ \A c, d \in Coro : c[1] = d[1] /\ c[2] = d[2] => c = d
  /\ \A c, d \in Coro : c[2] < Depth /\ d[2] < Depth /\ Child(c) = Child(d) => c = d
  /\ \A r \in Roots : Root(r) \in Coro /\ Root(r)[1] = r /\ Root(r)[2] = 1
<1>1. Depth \in Nat \ {0} /\ Null \notin Coro
  BY TaskAssumption, NullAssumption
<1>2. \A c \in Coro : c[1] \in Roots /\ c[2] \in 1 .. Depth /\ c = <<c[1], c[2]>>
  BY DEF Coro
<1>3. \A c \in Coro : Child(c)[1] = c[1] /\ Child(c)[2] = c[2] + 1
  BY DEF Child
<1>4. \A c \in Coro : c[2] < Depth => Child(c) \in Coro
  <2>1. ASSUME NEW c \in Coro, c[2] < Depth PROVE Child(c) \in Coro
    <3>1. c[1] \in Roots /\ c[2] + 1 \in 1 .. Depth
      BY <1>1, <1>2, <2>1
    <3>. QED BY <3>1 DEF Child, Coro
  <2>. QED BY <2>1
<1>5. \A c, d \in Coro : c[1] = d[1] /\ c[2] = d[2] => c = d
  BY <1>2
<1>6. \A c, d \in Coro : Child(c) = Child(d) => c = d
  <2>1. ASSUME NEW c \in Coro, NEW d \in Coro, Child(c) = Child(d) PROVE c = d
    <3>1. c[1] = d[1] /\ c[2] + 1 = d[2] + 1
      BY <1>3, <2>1
    <3>2. c[2] \in Int /\ d[2] \in Int
      BY <1>1, <1>2
    <3>3. c[2] = d[2]
      BY <3>1, <3>2
    <3>. QED BY <1>5, <3>1, <3>3
  <2>. QED BY <2>1
<1>7. \A r \in Roots : Root(r) \in Coro /\ Root(r)[1] = r /\ Root(r)[2] = 1
  BY <1>1 DEF Root, Coro
<1>. QED BY <1>1, <1>2, <1>3, <1>4, <1>5, <1>6, <1>7

\* The caller of a coroutine that control goes back to.
LEMMA Caller ==
  ASSUME TaskInv, NEW c \in Coro, frame[c] # "none"
  PROVE  IF m_continuation[c] = Null THEN c[2] = 1
         ELSE /\ m_continuation[c] \in Coro /\ m_continuation[c][2] < Depth
              /\ c = Child(m_continuation[c]) /\ c[2] > 1
<1>1. CASE m_continuation[c] = Null
  BY <1>1 DEF TaskInv, ContinuationInv
<1>2. CASE m_continuation[c] # Null
  <2>1. PICK p \in Coro : p = m_continuation[c]
    BY <1>2 DEF TaskInv, Types
  <2>2. p[2] < Depth /\ c = Child(p)
    BY <1>2, <2>1 DEF TaskInv, ContinuationInv
  <2>. QED BY <1>2, <2>1, <2>2, Chains
<1>. QED BY <1>1, <1>2

\* The coroutine that executes.
LEMMA Executes ==
  ASSUME TaskInv, pc = "resume"
  PROVE  /\ active \in Coro /\ frame[active] = "running" /\ coro \in Coro /\ active[1] = coro[1]
         /\ active # Null /\ coro # Null
BY Chains DEF TaskInv, Types, ActiveInv

-----------------------------------------------------------------------------
(***************************************************************************)
(* Every action keeps the invariant.                                       *)
(***************************************************************************)

\* What does not change keeps its part of the invariant.
LEMMA ResultKept ==
  ASSUME TaskInv, UNCHANGED <<container, got, throwing>>, frame' \in [Coro -> Live \cup Over \cup {"none"}],
         \A c \in Coro : frame'[c] # frame[c] => frame[c] \notin Over /\ frame'[c] \notin Over,
         \A c \in Coro : c[2] < Depth /\ frame[c] \in Over /\ frame[Child(c)] = "none" => frame'[Child(c)] = "none",
         pc' = "dead" => \E c \in throwing : c[2] \in Pod
  PROVE  ResultInv'
<1> USE Chains
<1>1. \A c \in Coro : frame'[c] \in Over \/ frame[c] \in Over => frame'[c] = frame[c]
  OBVIOUS
<1>2. \A c \in Coro : frame'[c] = "final" => container'[c] = EndOf(c)'
  BY <1>1 DEF TaskInv, ResultInv, EndOf, Over
<1>3. ASSUME NEW p \in Coro, p[2] < Depth
      PROVE  /\ got'[p] # "none" => frame'[Child(p)] \in Over /\ (got'[p] = "exception" <=> Child(p) \in throwing')
             /\ frame'[Child(p)] = "destroyed" => got'[p] # "none"
             /\ frame'[p] \in Over => frame'[Child(p)] \in {"none", "destroyed"}
  <2>1. Child(p) \in Coro
    BY <1>3
  <2>2. frame[p] \in Over => frame[Child(p)] \in {"none", "destroyed"}
    BY <1>3 DEF TaskInv, ResultInv
  <2>3. frame[p] \in Over /\ frame[Child(p)] = "none" => frame'[Child(p)] = "none"
    BY <1>3
  <2>. QED BY <1>1, <1>3, <2>1, <2>2, <2>3 DEF TaskInv, ResultInv, Over
<1>. QED BY <1>2, <1>3 DEF TaskInv, ResultInv

LEMMA OwnerKept ==
  ASSUME TaskInv, UNCHANGED m_state,
         \A r \in Roots : /\ frame'[Root(r)] = "none" <=> frame[Root(r)] = "none"
                          /\ frame'[Root(r)] = "destroyed" => frame[Root(r)] = "destroyed"
  PROVE  OwnerInv'
BY TaskAssumption DEF TaskInv, OwnerInv

LEMMA FreeKept ==
  ASSUME TaskInv, through \subseteq through', pc \notin {"done?", "dead"} \/ UNCHANGED <<pc, coro>>,
         \A r \in Roots : frame'[Root(r)] = "final" => frame[Root(r)] = "final"
  PROVE  FreeInv'
BY DEF TaskInv, FreeInv, WaitedNested

LEMMA BrokenKept ==
  ASSUME TaskInv, through \subseteq through', UNCHANGED broken
  PROVE  RootFramesSafe'
BY DEF TaskInv, RootFramesSafe, WaitedNested

\* context::submit_task.
LEMMA SubmitKeeps ==
  ASSUME TaskInv, NEW r \in Roots, Submit(r)
  PROVE  TaskInv'
<1> USE Chains
<1>1. PICK c \in Coro : c = Root(r) /\ c[1] = r /\ c[2] = 1
  OBVIOUS
<1>2. /\ frame[c] = "none" /\ frame' = [frame EXCEPT ![c] = "suspended"]
      /\ m_state' = [m_state EXCEPT ![c] = IF r \in Kept THEN "normal" ELSE "detach"]
      /\ m_task_queue' = Append(m_task_queue, c)
      /\ UNCHANGED <<m_continuation, waiting, through, coro, active, pc, broken, container, got, throwing>>
  BY <1>1 DEF Submit, resVars
<1>3. frame'[c] = "suspended" /\ \A d \in Coro : d # c => frame'[d] = frame[d] /\ m_state'[d] = m_state[d]
  BY <1>2 DEF TaskInv, Types
<1>4. m_state'[c] = (IF r \in Kept THEN "normal" ELSE "detach") /\ m_state'[c] \in {"normal", "detach"}
  BY <1>2 DEF TaskInv, Types
<1>5. /\ m_task_queue' \in Seq(Coro) /\ ToSet(m_task_queue') = ToSet(m_task_queue) \cup {c}
      /\ IsInjective(m_task_queue')
  <2>1. c \notin ToSet(m_task_queue) /\ IsInjective(m_task_queue) /\ m_task_queue \in Seq(Coro)
    BY <1>2 DEF TaskInv, Types, HandleInv
  <2>. QED BY <1>2, <2>1, AppendSet
<1>6. Types'
  BY <1>2, <1>5 DEF TaskInv, Types, Live
<1>7. ChainInv'
  BY <1>1, <1>2, <1>3 DEF TaskInv, ChainInv, Live
<1>8. ContinuationInv'
  BY <1>1, <1>2, <1>3 DEF TaskInv, ContinuationInv
<1>9. ActiveInv'
  BY <1>2, <1>3 DEF TaskInv, ActiveInv
<1>10. HandleInv'
  BY <1>2, <1>3, <1>5 DEF TaskInv, HandleInv
<1>11. HeldNested'
  BY <1>1, <1>2, <1>5 DEF TaskInv, HeldNested
<1>12. OwnerInv'
  <2>1. \A s \in Roots : s # r => m_state'[Root(s)] = m_state[Root(s)] /\ frame'[Root(s)] = frame[Root(s)]
    BY <1>1, <1>3
  <2>2. \A d \in Coro : d[2] > 1 => m_state'[d] = m_state[d]
    BY <1>1, <1>3
  <2>3. Kept \subseteq Roots
    BY TaskAssumption
  <2>. QED BY <1>1, <1>3, <1>4, <2>1, <2>2, <2>3 DEF TaskInv, OwnerInv
<1>15. CoroNested'
  BY <1>2, <1>3 DEF TaskInv, CoroNested, Types, ActiveInv
<1>16. ChainEnds'
  BY <1>2, <1>3 DEF TaskInv, ChainEnds
<1>17. FreeInv'
  BY <1>2, <1>3, FreeKept
<1>13. ResultInv'
  <2>1. \A d \in Coro : frame'[d] # frame[d] => frame[d] \notin Over /\ frame'[d] \notin Over
    BY <1>2, <1>3 DEF Over
  <2>2. \A d \in Coro : d[2] < Depth => frame'[Child(d)] = frame[Child(d)]
    BY <1>1, <1>3
  <2>3. frame' \in [Coro -> Live \cup Over \cup {"none"}]
    BY <1>6 DEF Types
  <2>4. pc' = "dead" => \E d \in throwing : d[2] \in Pod
    BY <1>2 DEF TaskInv, ResultInv
  <2>. QED BY <1>2, <2>1, <2>2, <2>3, <2>4, ResultKept
<1>14. RootFramesSafe'
  BY <1>2, BrokenKept
<1>. QED BY <1>6, <1>7, <1>8, <1>9, <1>10, <1>11, <1>12, <1>13, <1>14, <1>15, <1>16, <1>17 DEF TaskInv

\* engine::exec_one_task takes a handle from the queue.
LEMMA ExecKeeps ==
  ASSUME TaskInv, ExecOneTask
  PROVE  TaskInv'
<1> USE Chains
<1>1. /\ pc = "idle" /\ m_task_queue # <<>> /\ m_task_queue \in Seq(Coro) /\ IsInjective(m_task_queue)
  BY DEF ExecOneTask, TaskInv, Types, HandleInv
<1>2. PICK c \in Coro : /\ c = Head(m_task_queue) /\ Tail(m_task_queue) \in Seq(Coro)
                        /\ IsInjective(Tail(m_task_queue)) /\ c \notin ToSet(Tail(m_task_queue))
                        /\ ToSet(m_task_queue) = ToSet(Tail(m_task_queue)) \cup {c}
  BY <1>1, TailSet
<1>3. /\ pc' = "resume" /\ coro' = c /\ active' = c /\ m_task_queue' = Tail(m_task_queue)
      /\ frame' = [frame EXCEPT ![c] = "running"]
      /\ UNCHANGED <<m_state, m_continuation, waiting, through, broken, container, got, throwing>>
  BY <1>2 DEF ExecOneTask, resVars
<1>4. frame[c] = "suspended" /\ frame'[c] = "running" /\ \A d \in Coro : d # c => frame'[d] = frame[d]
  BY <1>2, <1>3 DEF TaskInv, Types, HandleInv
<1>5. active = Null /\ c \notin waiting /\ (c[2] > 1 => c \in through) /\ \A d \in Coro : frame[d] # "running"
  BY <1>1, <1>2 DEF TaskInv, ActiveInv, HandleInv, HeldNested
<1>6. Types'
  BY <1>2, <1>3 DEF TaskInv, Types, Live
<1>7. ChainInv'
  BY <1>3, <1>4 DEF TaskInv, ChainInv, Live
<1>8. ContinuationInv'
  BY <1>3, <1>4 DEF TaskInv, ContinuationInv
<1>9. ActiveInv'
  BY <1>3, <1>4, <1>5 DEF TaskInv, ActiveInv
<1>10. HandleInv'
  BY <1>2, <1>3, <1>4, <1>5 DEF TaskInv, HandleInv
<1>11. HeldNested'
  BY <1>2, <1>3 DEF TaskInv, HeldNested
<1>12. OwnerInv'
  BY <1>3, <1>4, OwnerKept
<1>15. CoroNested'
  BY <1>3, <1>4, <1>5 DEF CoroNested
<1>16. ChainEnds'
  <2>1. \A d \in Coro : /\ frame'[d] \in {"running", "suspended"} <=> frame[d] \in {"running", "suspended"}
                        /\ frame'[d] = "awaiting" <=> frame[d] = "awaiting"
    BY <1>4
  <2>. QED BY <2>1 DEF TaskInv, ChainEnds
<1>17. FreeInv'
  BY <1>1, <1>3, <1>4, FreeKept
<1>13. ResultInv'
  <2>1. \A d \in Coro : frame'[d] # frame[d] => frame[d] \notin Over /\ frame'[d] \notin Over
    BY <1>4 DEF Over
  <2>2. \A d \in Coro : d[2] < Depth /\ frame[Child(d)] = "none" => frame'[Child(d)] = "none"
    BY <1>4
  <2>3. frame' \in [Coro -> Live \cup Over \cup {"none"}]
    BY <1>6 DEF Types
  <2>. QED BY <1>3, <2>1, <2>2, <2>3, ResultKept
<1>14. RootFramesSafe'
  BY <1>3, BrokenKept
<1>. QED BY <1>6, <1>7, <1>8, <1>9, <1>10, <1>11, <1>12, <1>13, <1>14, <1>15, <1>16, <1>17 DEF TaskInv

\* co_await child().
LEMMA CoAwaitKeeps ==
  ASSUME TaskInv, CoAwait
  PROVE  TaskInv'
<1> USE Chains
<1>1. PICK a \in Coro : a = active /\ frame[a] = "running" /\ coro \in Coro /\ a[1] = coro[1] /\ pc = "resume"
  BY Executes DEF CoAwait, Body
<1>2. PICK c \in Coro : c = Child(a) /\ a[2] < Depth /\ c[1] = a[1] /\ c[2] = a[2] + 1 /\ a # c /\ frame[c] = "none"
  BY <1>1 DEF CoAwait
<1>3. /\ frame' = [frame EXCEPT ![a] = "awaiting", ![c] = "running"] /\ active' = c
      /\ m_continuation' = [m_continuation EXCEPT ![c] = a]
      /\ UNCHANGED <<m_state, waiting, through, m_task_queue, coro, pc, broken, container, got, throwing>>
  BY <1>1, <1>2 DEF CoAwait, resVars
<1>4. /\ frame'[a] = "awaiting" /\ frame'[c] = "running" /\ m_continuation'[c] = a
      /\ \A d \in Coro : d # c => m_continuation'[d] = m_continuation[d] /\ (d # a => frame'[d] = frame[d])
  BY <1>2, <1>3 DEF TaskInv, Types
<1>5. \A d \in Coro : frame[d] = "running" => d = a
  BY <1>1 DEF TaskInv, ActiveInv
<1>6. Types'
  BY <1>2, <1>3 DEF TaskInv, Types, Live
<1>7. ChainInv'
  <2>1. \A d \in Coro : d[2] < Depth => (Child(d) = c <=> d = a)
    BY <1>2
  <2>2. \A d \in Coro : d[2] < Depth /\ Child(d) = a => d # c
    BY <1>2
  <2>3. c[2] < Depth => Child(c) # a /\ Child(c) # c
    BY <1>2
  <2>. QED BY <1>1, <1>2, <1>4, <2>1, <2>2, <2>3 DEF TaskInv, ChainInv, Live
<1>8. ContinuationInv'
  <2>1. ASSUME NEW d \in Coro, d # c
        PROVE  /\ m_continuation'[d] # Null => m_continuation'[d][2] < Depth /\ d = Child(m_continuation'[d])
               /\ m_continuation'[d] = Null => d[2] = 1 \/ frame'[d] = "none"
    <3>1. m_continuation'[d] = m_continuation[d] /\ (frame[d] = "none" => frame'[d] = "none")
      BY <1>1, <1>4, <2>1
    <3>. QED BY <3>1 DEF TaskInv, ContinuationInv
  <2>2. m_continuation'[c] # Null /\ m_continuation'[c][2] < Depth /\ c = Child(m_continuation'[c])
    BY <1>2, <1>4
  <2>. QED BY <2>1, <2>2 DEF ContinuationInv
<1>9. ActiveInv'
  <2>1. \A d \in Coro : frame'[d] = "running" <=> active' = d
    <3>1. \A d \in Coro : d # c => frame'[d] # "running"
      BY <1>4, <1>5
    <3>. QED BY <1>3, <1>4, <3>1
  <2>2. active' # Null /\ coro' # Null /\ active'[1] = coro'[1] /\ pc' = "resume"
    BY <1>1, <1>2, <1>3
  <2>. QED BY <2>1, <2>2 DEF ActiveInv
<1>10. HandleInv'
  <2>1. \A d \in Coro : frame'[d] = "suspended" <=> frame[d] = "suspended"
    BY <1>1, <1>2, <1>4
  <2>. QED BY <1>3, <2>1 DEF TaskInv, HandleInv
<1>11. HeldNested'
  BY <1>3 DEF TaskInv, HeldNested
<1>12. OwnerInv'
  <2>1. \A r \in Roots : Root(r) # c /\ (Root(r) = a => frame'[Root(r)] = "awaiting" /\ frame[Root(r)] = "running")
    BY <1>1, <1>2, <1>4
  <2>. QED BY <1>3, <1>4, <2>1, OwnerKept
<1>15. CoroNested'
  <2>1. frame[coro] \notin {"none", "destroyed"} => frame'[coro] \notin {"none", "destroyed"}
    BY <1>1, <1>2, <1>4
  <2>. QED BY <1>1, <1>3, <2>1 DEF TaskInv, CoroNested
<1>16. ChainEnds'
  <2>1. ASSUME NEW d \in Coro, frame'[d] = "awaiting"
        PROVE  \E b \in Coro : b[1] = d[1] /\ b[2] > d[2] /\ frame'[b] \in {"running", "suspended"}
    <3>1. CASE d = a
      BY <1>2, <1>4, <3>1
    <3>2. CASE d # a
      <4>1. frame[d] = "awaiting"
        BY <1>4, <2>1, <3>2
      <4>2. PICK b \in Coro : b[1] = d[1] /\ b[2] > d[2] /\ frame[b] \in {"running", "suspended"}
        BY <4>1 DEF TaskInv, ChainEnds
      <4>3. CASE b = a
        BY <1>2, <1>4, <4>2, <4>3
      <4>4. CASE b # a
        BY <1>2, <1>4, <4>2, <4>4
      <4>. QED BY <4>3, <4>4
    <3>. QED BY <3>1, <3>2
  <2>. QED BY <2>1 DEF ChainEnds
<1>17. FreeInv'
  <2>1. \A r \in Roots : frame'[Root(r)] = "final" => frame[Root(r)] = "final"
    BY <1>2, <1>4
  <2>. QED BY <1>1, <1>3, <2>1, FreeKept
<1>13. ResultInv'
  <2>1. \A d \in Coro : frame'[d] # frame[d] => frame[d] \notin Over /\ frame'[d] \notin Over
    BY <1>1, <1>2, <1>4 DEF Over
  <2>2. \A d \in Coro : d[2] < Depth /\ frame[d] \in Over => Child(d) # a /\ Child(d) # c
    BY <1>1, <1>2 DEF Over, Live, TaskInv, ChainInv
  <2>3. frame' \in [Coro -> Live \cup Over \cup {"none"}]
    BY <1>6 DEF Types
  <2>. QED BY <1>1, <1>3, <1>4, <2>1, <2>2, <2>3, ResultKept
<1>14. RootFramesSafe'
  BY <1>3, BrokenKept
<1>. QED BY <1>6, <1>7, <1>8, <1>9, <1>10, <1>11, <1>12, <1>13, <1>14, <1>15, <1>16, <1>17 DEF TaskInv

\* The coroutine waits for something outside.
LEMMA SuspendKeeps ==
  ASSUME TaskInv, Suspend
  PROVE  TaskInv'
<1> USE Chains
<1>1. PICK a \in Coro : a = active /\ frame[a] = "running" /\ coro \in Coro /\ a[1] = coro[1] /\ pc = "resume"
  BY Executes DEF Suspend, Body
<1>2. /\ frame' = [frame EXCEPT ![a] = "suspended"] /\ waiting' = waiting \cup {a} /\ through' = through \cup {a}
      /\ active' = Null /\ pc' = "done?"
      /\ UNCHANGED <<m_state, m_continuation, m_task_queue, coro, broken, container, got, throwing>>
  BY <1>1 DEF Suspend, resVars
<1>3. frame'[a] = "suspended" /\ \A d \in Coro : d # a => frame'[d] = frame[d]
  BY <1>2 DEF TaskInv, Types
<1>4. \A d \in Coro : frame[d] = "running" => d = a
  BY <1>1 DEF TaskInv, ActiveInv
<1>6. Types'
  BY <1>2 DEF TaskInv, Types, Live
<1>7. ChainInv'
  BY <1>1, <1>3 DEF TaskInv, ChainInv, Live
<1>8. ContinuationInv'
  BY <1>1, <1>2, <1>3 DEF TaskInv, ContinuationInv
<1>9. ActiveInv'
  <2>1. \A d \in Coro : frame'[d] # "running"
    BY <1>3, <1>4
  <2>. QED BY <1>1, <1>2, <2>1 DEF ActiveInv
<1>10. HandleInv'
  <2>1. a \notin ToSet(m_task_queue)
    BY <1>1 DEF TaskInv, HandleInv
  <2>. QED BY <1>2, <1>3, <2>1 DEF TaskInv, HandleInv
<1>11. HeldNested'
  BY <1>2 DEF TaskInv, HeldNested
<1>12. OwnerInv'
  BY <1>1, <1>2, <1>3, OwnerKept
<1>15. CoroNested'
  BY <1>1, <1>2, <1>3 DEF TaskInv, CoroNested
<1>16. ChainEnds'
  <2>1. \A d \in Coro : /\ frame'[d] \in {"running", "suspended"} <=> frame[d] \in {"running", "suspended"}
                        /\ frame'[d] = "awaiting" <=> frame[d] = "awaiting"
    BY <1>1, <1>3
  <2>. QED BY <2>1 DEF TaskInv, ChainEnds
<1>17. FreeInv'
  <2>1. \A r \in Roots : frame'[Root(r)] = "final" => frame[Root(r)] = "final"
    BY <1>3
  <2>. QED BY <1>1, <1>2, <2>1, FreeKept
<1>13. ResultInv'
  <2>1. \A d \in Coro : frame'[d] # frame[d] => frame[d] \notin Over /\ frame'[d] \notin Over
    BY <1>1, <1>3 DEF Over
  <2>2. \A d \in Coro : d[2] < Depth /\ frame[Child(d)] = "none" => frame'[Child(d)] = "none"
    BY <1>1, <1>3
  <2>3. frame' \in [Coro -> Live \cup Over \cup {"none"}]
    BY <1>6 DEF Types
  <2>. QED BY <1>2, <2>1, <2>2, <2>3, ResultKept
<1>14. RootFramesSafe'
  BY <1>2, BrokenKept
<1>. QED BY <1>6, <1>7, <1>8, <1>9, <1>10, <1>11, <1>12, <1>13, <1>14, <1>15, <1>16, <1>17 DEF TaskInv

\* What it waits for is over.
LEMMA WakeUpKeeps ==
  ASSUME TaskInv, NEW c \in Coro, WakeUp(c)
  PROVE  TaskInv'
<1> USE Chains
<1>1. /\ c \in waiting /\ waiting' = waiting \ {c} /\ m_task_queue' = Append(m_task_queue, c)
      /\ UNCHANGED <<frame, m_state, m_continuation, through, coro, active, pc, broken, container, got, throwing>>
  BY DEF WakeUp, resVars
<1>2. /\ m_task_queue' \in Seq(Coro) /\ ToSet(m_task_queue') = ToSet(m_task_queue) \cup {c}
      /\ IsInjective(m_task_queue')
  <2>1. c \notin ToSet(m_task_queue) /\ IsInjective(m_task_queue) /\ m_task_queue \in Seq(Coro)
    BY <1>1 DEF TaskInv, Types, HandleInv
  <2>. QED BY <1>1, <2>1, AppendSet
<1>3. ToSet(m_task_queue') \cup waiting' = ToSet(m_task_queue) \cup waiting
  BY <1>1, <1>2
<1>4. Types'
  BY <1>1, <1>2 DEF TaskInv, Types
<1>5. HandleInv'
  BY <1>1, <1>2, <1>3 DEF TaskInv, HandleInv
<1>6. HeldNested'
  BY <1>1, <1>3 DEF TaskInv, HeldNested
<1>7. ResultInv' /\ RootFramesSafe' /\ ChainInv' /\ ContinuationInv' /\ ActiveInv'
  BY <1>1 DEF TaskInv, ResultInv, RootFramesSafe, ChainInv, ContinuationInv, ActiveInv, EndOf, WaitedNested
<1>8. CoroNested' /\ ChainEnds' /\ OwnerInv' /\ FreeInv'
  BY <1>1 DEF TaskInv, CoroNested, ChainEnds, OwnerInv, FreeInv, WaitedNested
<1>. QED BY <1>4, <1>5, <1>6, <1>7, <1>8 DEF TaskInv

\* A step that changes results only, or ends the process.
LEMMA FramesKept ==
  ASSUME TaskInv, UNCHANGED <<frame, m_state, m_continuation, waiting, through, m_task_queue, coro, active, broken, container>>,
         pc' = pc \/ (pc = "resume" /\ pc' = "dead"), throwing' \subseteq Coro,
         got' \in [Coro -> {"none", "value", "exception"}], ResultInv'
  PROVE  TaskInv'
<1>1. Types'
  BY DEF TaskInv, Types
<1>2. RootFramesSafe' /\ ChainInv' /\ ContinuationInv'
  BY DEF TaskInv, RootFramesSafe, ChainInv, ContinuationInv, WaitedNested
<1>3. ActiveInv'
  BY DEF TaskInv, ActiveInv
<1>4. HandleInv' /\ HeldNested'
  BY DEF TaskInv, HandleInv, HeldNested
<1>5. CoroNested' /\ ChainEnds' /\ OwnerInv'
  BY DEF TaskInv, CoroNested, ChainEnds, OwnerInv
<1>6. FreeInv'
  BY FreeKept
<1>. QED BY <1>1, <1>2, <1>3, <1>4, <1>5, <1>6 DEF TaskInv

\* The result of an awaited coroutine that has ended is an exception exactly
\* when one has left it.
LEMMA ThrowsWhatLeft ==
  ASSUME TaskInv, NEW c \in Coro, frame[c] = "final"
  PROVE  Throws(c) <=> c \in throwing
<1>1. container[c] = EndOf(c)
  BY DEF TaskInv, ResultInv
<1>. QED BY <1>1 DEF Throws, EndOf

\* A coroutine throws, or takes the result of the one it called.
LEMMA ThrowKeeps ==
  ASSUME TaskInv, Throw
  PROVE  TaskInv'
<1> USE Chains
<1>1. PICK a \in Coro : a = active /\ frame[a] = "running" /\ pc = "resume"
  BY Executes DEF Throw, Body
<1>2. /\ a[2] \in ThrowAt /\ throwing' = throwing \cup {a}
      /\ UNCHANGED <<frame, m_state, m_continuation, waiting, through, m_task_queue, coro, active, pc, broken, container, got>>
  BY <1>1 DEF Throw
<1>3. ResultInv'
  <2>1. \A c \in Coro : frame'[c] = "final" => container'[c] = EndOf(c)'
    BY <1>1, <1>2 DEF TaskInv, ResultInv, EndOf
  <2>2. \A p \in Coro : p[2] < Depth /\ got[p] # "none" => Child(p) # a
    BY <1>1 DEF TaskInv, ResultInv, Over
  <2>. QED BY <1>1, <1>2, <2>1, <2>2 DEF TaskInv, ResultInv
<1>4. throwing' \subseteq Coro /\ got' \in [Coro -> {"none", "value", "exception"}]
  BY <1>1, <1>2 DEF TaskInv, Types
<1>. QED BY <1>2, <1>3, <1>4, FramesKept

LEMMA AwaitResumeKeeps ==
  ASSUME TaskInv, AwaitResume
  PROVE  TaskInv'
<1> USE Chains
<1>1. PICK a \in Coro : a = active /\ frame[a] = "running" /\ pc = "resume"
  BY Executes DEF AwaitResume
<1>2. PICK c \in Coro : c = Child(a) /\ a[2] < Depth /\ a # c /\ frame[c] = "final"
  BY <1>1 DEF AwaitResume
<1>3. (Throws(c) <=> c \in throwing) /\ container[c] \in {"none", "value", "exception"}
  BY <1>2, ThrowsWhatLeft DEF TaskInv, Types
<1>4. CASE /\ Throws(c) /\ c[2] \in Pod /\ pc' = "dead"
           /\ UNCHANGED <<frame, m_state, m_continuation, waiting, through, m_task_queue, coro, active, broken, container, got, throwing>>
  <2>1. ResultInv'
    BY <1>2, <1>3, <1>4 DEF TaskInv, ResultInv, EndOf
  <2>. QED BY <1>1, <1>4, <2>1, FramesKept DEF TaskInv, Types
<1>5. CASE /\ got' = [got EXCEPT ![a] = IF Throws(c) THEN "exception" ELSE "value"]
           /\ throwing' = throwing \/ (Throws(c) /\ throwing' = throwing \cup {a})
           /\ UNCHANGED <<frame, m_state, m_continuation, waiting, through, m_task_queue, coro, active, pc, broken, container>>
  <2>1. /\ got'[a] # "none" /\ (got'[a] = "exception" <=> c \in throwing) /\ \A p \in Coro : p # a => got'[p] = got[p]
        /\ got' \in [Coro -> {"none", "value", "exception"}] /\ throwing' \subseteq Coro
    BY <1>3, <1>5 DEF TaskInv, Types
  <2>2. \A d \in Coro : d # a => (d \in throwing' <=> d \in throwing)
    BY <1>5
  <2>3. \A d \in Coro : frame'[d] = "final" => container'[d] = EndOf(d)'
    BY <1>1, <1>5, <2>2 DEF TaskInv, ResultInv, EndOf
  <2>4. ASSUME NEW p \in Coro, p[2] < Depth
        PROVE  /\ got'[p] # "none" => frame'[Child(p)] \in Over /\ (got'[p] = "exception" <=> Child(p) \in throwing')
               /\ frame'[Child(p)] = "destroyed" => got'[p] # "none"
               /\ frame'[p] \in Over => frame'[Child(p)] \in {"none", "destroyed"}
    <3>1. CASE p = a
      BY <1>1, <1>2, <1>5, <2>1, <2>2, <3>1 DEF Over
    <3>2. CASE p # a
      <4>1. got'[p] # "none" => Child(p) # a
        BY <1>1, <2>1, <2>4, <3>2 DEF TaskInv, ResultInv, Over
      <4>. QED BY <1>5, <2>1, <2>2, <2>4, <3>2, <4>1 DEF TaskInv, ResultInv
    <3>. QED BY <3>1, <3>2
  <2>5. \A p \in throwing' : p[2] \in ThrowAt \/ (p[2] < Depth /\ Child(p) \in throwing')
    BY <1>2, <1>3, <1>5 DEF TaskInv, ResultInv
  <2>6. ResultInv'
    BY <1>1, <1>5, <2>3, <2>4, <2>5 DEF ResultInv
  <2>. QED BY <1>5, <2>1, <2>6, FramesKept
<1>. QED BY <1>1, <1>2, <1>4, <1>5 DEF AwaitResume, Die, resVars

\* The exception of a coroutine with a pod result ends the process.
LEMMA PodExceptionKeeps ==
  ASSUME TaskInv, PodException
  PROVE  TaskInv'
<1>1. /\ pc = "resume" /\ pc' = "dead" /\ active \in throwing /\ active[2] \in Pod
      /\ UNCHANGED <<frame, m_state, m_continuation, waiting, through, m_task_queue, coro, active, broken, container, got, throwing>>
  BY DEF PodException, Die, resVars
<1>2. ResultInv'
  BY <1>1 DEF TaskInv, ResultInv, EndOf
<1>. QED BY <1>1, <1>2, FramesKept DEF TaskInv, Types

\* ~task of an awaited coroutine.
LEMMA DestroyChildKeeps ==
  ASSUME TaskInv, DestroyChild
  PROVE  TaskInv'
<1> USE Chains
<1>1. PICK a \in Coro : a = active /\ frame[a] = "running" /\ coro \in Coro /\ pc = "resume"
  BY Executes DEF DestroyChild
<1>2. PICK c \in Coro : /\ c = Child(a) /\ a[2] < Depth /\ a # c /\ c[2] > 1
                        /\ frame[c] = "final" /\ got[a] # "none"
  BY <1>1 DEF DestroyChild, Back
<1>3. /\ frame' = [frame EXCEPT ![c] = "destroyed"] /\ container' = [container EXCEPT ![c] = "none"]
      /\ UNCHANGED <<m_state, m_continuation, waiting, through, m_task_queue, coro, active, pc, broken, got, throwing>>
  BY <1>1, <1>2 DEF DestroyChild
<1>4. frame'[c] = "destroyed" /\ \A d \in Coro : d # c => frame'[d] = frame[d] /\ container'[d] = container[d]
  BY <1>3 DEF TaskInv, Types
<1>5. \A r \in Roots : frame'[Root(r)] = frame[Root(r)]
  BY <1>2, <1>4
<1>6. Types'
  BY <1>3 DEF TaskInv, Types, Over
<1>7. ChainInv'
  <2>1. \A d \in Coro : d[2] < Depth => (Child(d) = c <=> d = a)
    BY <1>2
  <2>2. c[2] < Depth => frame[Child(c)] \in {"none", "destroyed"} /\ Child(c) # c
    BY <1>2 DEF TaskInv, ResultInv, Over
  <2>. QED BY <1>1, <1>2, <1>4, <2>1, <2>2 DEF TaskInv, ChainInv, Live
<1>8. ContinuationInv'
  BY <1>2, <1>3, <1>4 DEF TaskInv, ContinuationInv
<1>9. ActiveInv'
  BY <1>2, <1>3, <1>4 DEF TaskInv, ActiveInv
<1>10. HandleInv'
  BY <1>2, <1>3, <1>4 DEF TaskInv, HandleInv
<1>11. HeldNested'
  BY <1>3 DEF TaskInv, HeldNested
<1>12. OwnerInv'
  BY <1>3, <1>5, OwnerKept
<1>13. ResultInv'
  <2>1. \A d \in Coro : frame'[d] = "final" => container'[d] = EndOf(d)'
    BY <1>3, <1>4 DEF TaskInv, ResultInv, EndOf
  <2>2. ASSUME NEW p \in Coro, p[2] < Depth
        PROVE  /\ got'[p] # "none" => frame'[Child(p)] \in Over /\ (got'[p] = "exception" <=> Child(p) \in throwing')
               /\ frame'[Child(p)] = "destroyed" => got'[p] # "none"
               /\ frame'[p] \in Over => frame'[Child(p)] \in {"none", "destroyed"}
    <3>1. frame'[p] \in Over => frame[p] \in Over
      BY <1>2, <1>4 DEF Over
    <3>2. CASE p = a
      BY <1>1, <1>2, <1>3, <1>4, <3>1, <3>2 DEF TaskInv, ResultInv, Over
    <3>3. CASE p # a
      <4>1. Child(p) # c
        BY <1>2, <2>2, <3>3
      <4>. QED BY <1>3, <1>4, <2>2, <3>1, <4>1 DEF TaskInv, ResultInv
    <3>. QED BY <3>2, <3>3
  <2>. QED BY <1>1, <1>3, <2>1, <2>2 DEF TaskInv, ResultInv
<1>14. RootFramesSafe'
  BY <1>3, BrokenKept
<1>15. CoroNested'
  BY <1>1, <1>2, <1>3, <1>4 DEF TaskInv, CoroNested
<1>16. ChainEnds'
  <2>1. \A d \in Coro : /\ frame'[d] \in {"running", "suspended"} <=> frame[d] \in {"running", "suspended"}
                        /\ frame'[d] = "awaiting" <=> frame[d] = "awaiting"
    BY <1>2, <1>4
  <2>. QED BY <2>1 DEF TaskInv, ChainEnds
<1>17. FreeInv'
  BY <1>1, <1>3, <1>5, FreeKept
<1>. QED BY <1>6, <1>7, <1>8, <1>9, <1>10, <1>11, <1>12, <1>13, <1>14, <1>15, <1>16, <1>17 DEF TaskInv

\* The results after a coroutine has ended.
LEMMA ResultOfFinal ==
  ASSUME TaskInv, NEW a \in Coro, frame[a] = "running", a[2] < Depth => frame[Child(a)] # "final",
         frame'[a] = "final", \A d \in Coro : d # a => (frame'[d] = frame[d] \/ (frame[d] = "awaiting" /\ frame'[d] = "running")),
         container' = [container EXCEPT ![a] = EndOf(a)], UNCHANGED <<got, throwing>>, pc' # "dead"
  PROVE  ResultInv'
<1> USE Chains
<1>1. container'[a] = EndOf(a)' /\ \A d \in Coro : d # a => container'[d] = container[d]
  BY DEF TaskInv, Types, EndOf
<1>2. \A d \in Coro : frame'[d] = "final" => container'[d] = EndOf(d)'
  BY <1>1 DEF TaskInv, ResultInv, EndOf
<1>3. ASSUME NEW p \in Coro, p[2] < Depth
      PROVE  /\ got'[p] # "none" => frame'[Child(p)] \in Over /\ (got'[p] = "exception" <=> Child(p) \in throwing')
             /\ frame'[Child(p)] = "destroyed" => got'[p] # "none"
             /\ frame'[p] \in Over => frame'[Child(p)] \in {"none", "destroyed"}
  <2>1. got'[p] # "none" => frame'[Child(p)] \in Over /\ (got'[p] = "exception" <=> Child(p) \in throwing')
    BY <1>3 DEF TaskInv, ResultInv, Over
  <2>2. frame'[Child(p)] = "destroyed" => got'[p] # "none"
    BY <1>3 DEF TaskInv, ResultInv
  <2>3. CASE p = a
    <3>1. frame[Child(p)] \in {"none", "destroyed"} /\ Child(p) # a
      BY <1>3, <2>3 DEF TaskInv, Types, ChainInv, Live, Over
    <3>. QED BY <1>3, <2>1, <2>2, <3>1
  <2>4. CASE p # a
    <3>1. frame'[p] \in Over => frame[p] \in Over
      BY <2>4 DEF Over
    <3>2. frame[p] \in Over => frame[Child(p)] \in {"none", "destroyed"} /\ Child(p) # a
      BY <1>3 DEF TaskInv, ResultInv
    <3>. QED BY <1>3, <2>1, <2>2, <3>1, <3>2
  <2>. QED BY <2>3, <2>4
<1>. QED BY <1>2, <1>3 DEF TaskInv, ResultInv

\* The final suspend: back to the caller.
LEMMA FinalToCallerKeeps ==
  ASSUME TaskInv, FinalSuspend, m_continuation[active] # Null
  PROVE  TaskInv'
<1> USE Chains
<1>1. PICK a \in Coro : a = active /\ frame[a] = "running" /\ coro \in Coro /\ a[1] = coro[1] /\ pc = "resume"
  BY Executes DEF FinalSuspend
<1>2. PICK p \in Coro : p = m_continuation[a] /\ p[2] < Depth /\ a = Child(p) /\ a[2] > 1 /\ p # a /\ p[1] = a[1]
  BY <1>1, Caller
<1>3. /\ a[2] < Depth => frame[Child(a)] # "final"
      /\ container' = [container EXCEPT ![a] = EndOf(a)]
      /\ frame' = [frame EXCEPT ![a] = "final", ![p] = "running"] /\ active' = p
      /\ UNCHANGED <<m_state, m_continuation, waiting, through, m_task_queue, coro, pc, broken, got, throwing>>
  BY <1>1, <1>2 DEF FinalSuspend
<1>4. frame'[a] = "final" /\ frame'[p] = "running" /\ \A d \in Coro : d # a /\ d # p => frame'[d] = frame[d]
  BY <1>2, <1>3 DEF TaskInv, Types
<1>5. frame[p] = "awaiting" /\ \A d \in Coro : frame[d] = "running" => d = a
  BY <1>1, <1>2 DEF TaskInv, ChainInv, ActiveInv, Live
<1>6. Types'
  <2>1. EndOf(a) \in {"none", "value", "exception"}
    BY DEF EndOf
  <2>2. container' \in [Coro -> {"none", "value", "exception"}]
    BY <1>3, <2>1 DEF TaskInv, Types
  <2>3. frame' \in [Coro -> Live \cup Over \cup {"none"}]
    BY <1>3 DEF TaskInv, Types, Live, Over
  <2>. QED BY <1>2, <1>3, <2>2, <2>3 DEF TaskInv, Types
<1>7. ChainInv'
  <2>1. \A d \in Coro : d[2] < Depth => (Child(d) = a <=> d = p)
    BY <1>2
  <2>2. a[2] < Depth => frame[Child(a)] \in {"none", "destroyed"} /\ Child(a) # a /\ Child(a) # p
    <3>1. a[2] < Depth => frame[Child(a)] \in {"none", "destroyed"}
      BY <1>1, <1>3 DEF TaskInv, Types, ChainInv, Live, Over
    <3>. QED BY <1>1, <1>5, <3>1
  <2>. QED BY <1>1, <1>2, <1>4, <1>5, <2>1, <2>2 DEF TaskInv, ChainInv, Live
<1>8. ContinuationInv'
  <2>1. \A d \in Coro : frame[d] = "none" => frame'[d] = "none"
    BY <1>1, <1>4, <1>5
  <2>. QED BY <1>3, <2>1 DEF TaskInv, ContinuationInv
<1>9. ActiveInv'
  <2>1. \A d \in Coro : d # p => frame'[d] # "running"
    BY <1>4, <1>5
  <2>2. active' # Null /\ coro' # Null /\ active'[1] = coro'[1] /\ pc' = "resume"
    BY <1>1, <1>2, <1>3
  <2>. QED BY <1>3, <1>4, <2>1, <2>2 DEF ActiveInv
<1>10. HandleInv'
  <2>1. \A d \in Coro : frame'[d] = "suspended" <=> frame[d] = "suspended"
    BY <1>1, <1>4, <1>5
  <2>. QED BY <1>3, <2>1 DEF TaskInv, HandleInv
<1>11. HeldNested'
  BY <1>3 DEF TaskInv, HeldNested
<1>12. OwnerInv'
  <2>1. \A r \in Roots : Root(r) # a
    BY <1>2
  <2>. QED BY <1>3, <1>4, <1>5, <2>1, OwnerKept
<1>13. ResultInv'
  <2>1. \A d \in Coro : d # a => (frame'[d] = frame[d] \/ (frame[d] = "awaiting" /\ frame'[d] = "running"))
    BY <1>4, <1>5
  <2>. QED BY <1>1, <1>3, <1>4, <2>1, ResultOfFinal
<1>14. RootFramesSafe'
  BY <1>3, BrokenKept
<1>15. CoroNested'
  BY <1>1, <1>2, <1>3, <1>4, <1>5 DEF TaskInv, CoroNested
<1>16. ChainEnds'
  <2>1. ASSUME NEW d \in Coro, frame'[d] = "awaiting"
        PROVE  \E b \in Coro : b[1] = d[1] /\ b[2] > d[2] /\ frame'[b] \in {"running", "suspended"}
    <3>1. frame[d] = "awaiting" /\ d # p /\ d # a
      BY <1>4, <2>1
    <3>2. PICK b \in Coro : b[1] = d[1] /\ b[2] > d[2] /\ frame[b] \in {"running", "suspended"}
      BY <3>1 DEF TaskInv, ChainEnds
    <3>3. CASE b = a
      <4>1. p[1] = d[1] /\ p[2] > d[2]
        BY <1>2, <3>1, <3>2, <3>3
      <4>. QED BY <1>4, <4>1
    <3>4. CASE b # a
      BY <1>4, <1>5, <3>2, <3>4
    <3>. QED BY <3>3, <3>4
  <2>. QED BY <2>1 DEF ChainEnds
<1>17. FreeInv'
  <2>1. \A r \in Roots : frame'[Root(r)] = "final" => frame[Root(r)] = "final"
    BY <1>2, <1>4
  <2>. QED BY <1>1, <1>3, <2>1, FreeKept
<1>. QED BY <1>6, <1>7, <1>8, <1>9, <1>10, <1>11, <1>12, <1>13, <1>14, <1>15, <1>16, <1>17 DEF TaskInv

\* The final suspend of a submitted task: resume() returns.
LEMMA FinalToEndKeeps ==
  ASSUME TaskInv, FinalSuspend, m_continuation[active] = Null
  PROVE  TaskInv'
<1> USE Chains
<1>1. PICK a \in Coro : a = active /\ frame[a] = "running" /\ coro \in Coro /\ a[1] = coro[1] /\ pc = "resume"
  BY Executes DEF FinalSuspend
<1>2. a[2] = 1
  BY <1>1, Caller
<1>3. /\ a[2] < Depth => frame[Child(a)] # "final"
      /\ container' = [container EXCEPT ![a] = EndOf(a)]
      /\ frame' = [frame EXCEPT ![a] = "final"] /\ active' = Null /\ pc' = "done?"
      /\ UNCHANGED <<m_state, m_continuation, waiting, through, m_task_queue, coro, broken, got, throwing>>
  BY <1>1 DEF FinalSuspend
<1>4. frame'[a] = "final" /\ \A d \in Coro : d # a => frame'[d] = frame[d]
  BY <1>3 DEF TaskInv, Types
<1>5. \A d \in Coro : frame[d] = "running" => d = a
  BY <1>1 DEF TaskInv, ActiveInv
<1>6. Types'
  <2>1. EndOf(a) \in {"none", "value", "exception"}
    BY DEF EndOf
  <2>2. container' \in [Coro -> {"none", "value", "exception"}]
    BY <1>3, <2>1 DEF TaskInv, Types
  <2>3. frame' \in [Coro -> Live \cup Over \cup {"none"}]
    BY <1>3 DEF TaskInv, Types, Live, Over
  <2>. QED BY <1>3, <2>2, <2>3 DEF TaskInv, Types
<1>7. ChainInv'
  <2>1. \A d \in Coro : d[2] < Depth => Child(d) # a
    BY <1>2
  <2>2. a[2] < Depth => frame[Child(a)] \in {"none", "destroyed"}
    BY <1>1, <1>3 DEF TaskInv, Types, ChainInv, Live, Over
  <2>. QED BY <1>1, <1>4, <2>1, <2>2 DEF TaskInv, ChainInv, Live
<1>8. ContinuationInv'
  <2>1. \A d \in Coro : frame[d] = "none" => frame'[d] = "none"
    BY <1>1, <1>4
  <2>. QED BY <1>3, <2>1 DEF TaskInv, ContinuationInv
<1>9. ActiveInv'
  <2>1. \A d \in Coro : frame'[d] # "running"
    BY <1>4, <1>5
  <2>. QED BY <1>1, <1>3, <2>1 DEF ActiveInv
<1>10. HandleInv'
  <2>1. \A d \in Coro : frame'[d] = "suspended" <=> frame[d] = "suspended"
    BY <1>1, <1>4
  <2>. QED BY <1>3, <2>1 DEF TaskInv, HandleInv
<1>11. HeldNested'
  BY <1>3 DEF TaskInv, HeldNested
<1>12. OwnerInv'
  BY <1>1, <1>3, <1>4, OwnerKept
<1>13. ResultInv'
  BY <1>1, <1>3, <1>4, ResultOfFinal, ZenonT(60)
<1>14. RootFramesSafe'
  BY <1>3, BrokenKept
<1>15. CoroNested'
  BY <1>1, <1>3, <1>4 DEF TaskInv, CoroNested
<1>16. ChainEnds'
  <2>1. ASSUME NEW d \in Coro, frame'[d] = "awaiting"
        PROVE  \E b \in Coro : b[1] = d[1] /\ b[2] > d[2] /\ frame'[b] \in {"running", "suspended"}
    <3>1. PICK b \in Coro : b[1] = d[1] /\ b[2] > d[2] /\ frame[b] \in {"running", "suspended"}
      BY <1>4, <2>1 DEF TaskInv, ChainEnds
    <3>2. b # a
      BY <1>2, <3>1
    <3>. QED BY <1>4, <3>1, <3>2
  <2>. QED BY <2>1 DEF ChainEnds
<1>17. FreeInv'
  <2>1. ASSUME NEW r \in Roots \ Kept, frame'[Root(r)] = "final"
        PROVE  (pc' = "done?" /\ coro' = Root(r)) \/ \E c \in Coro : c[1] = r /\ c[2] > 1 /\ c \in through'
    <3>1. CASE Root(r) = a
      <4>1. coro[1] = r
        BY <1>1, <3>1
      <4>2. CASE coro[2] > 1
        BY <1>1, <1>3, <4>1, <4>2 DEF TaskInv, CoroNested
      <4>3. CASE coro[2] = 1
        BY <1>1, <1>3, <4>1, <4>3
      <4>. QED BY <1>1, <4>2, <4>3
    <3>2. CASE Root(r) # a
      BY <1>1, <1>3, <1>4, <2>1, <3>2 DEF TaskInv, FreeInv, WaitedNested
    <3>. QED BY <3>1, <3>2
  <2>. QED BY <2>1 DEF FreeInv, WaitedNested
<1>. QED BY <1>6, <1>7, <1>8, <1>9, <1>10, <1>11, <1>12, <1>13, <1>14, <1>15, <1>16, <1>17 DEF TaskInv

\* The frame of a finished submitted task is destroyed.
LEMMA DestroyRootKeeps ==
  ASSUME TaskInv, NEW c \in Coro, c[2] = 1, frame[c] = "final", frame' = [frame EXCEPT ![c] = "destroyed"],
         pc \in {"idle", "done?"}, pc' = "idle", coro' \in Coro \cup {Null}, m_state' \in [Coro -> {"normal", "detach", "none"}],
         UNCHANGED <<m_continuation, waiting, through, m_task_queue, active, broken, container, got, throwing>>
  PROVE  /\ Types' /\ ChainInv' /\ ContinuationInv' /\ ActiveInv' /\ HandleInv' /\ HeldNested' /\ CoroNested'
         /\ ChainEnds' /\ ResultInv' /\ RootFramesSafe'
<1> USE Chains
<1>1. frame'[c] = "destroyed" /\ \A d \in Coro : d # c => frame'[d] = frame[d]
  BY DEF TaskInv, Types
<1>2. \A d \in Coro : d[2] < Depth => Child(d) # c
  OBVIOUS
<1>3. \A d \in Coro : \A s \in Live \cup {"none"} : frame'[d] = s <=> frame[d] = s
  BY <1>1 DEF Live
<1>4. Types'
  BY DEF TaskInv, Types, Over
<1>5. ChainInv'
  <2>1. c[2] < Depth => frame[Child(c)] \in {"none", "destroyed"}
    BY DEF TaskInv, ResultInv, Over
  <2>. QED BY <1>1, <1>2, <2>1 DEF TaskInv, ChainInv, Live
<1>6. ContinuationInv'
  BY <1>1 DEF TaskInv, ContinuationInv
<1>7. ActiveInv'
  BY <1>1 DEF TaskInv, ActiveInv
<1>8. HandleInv'
  <2>1. \A d \in Coro : frame'[d] = "suspended" <=> frame[d] = "suspended"
    BY <1>1
  <2>. QED BY <2>1 DEF TaskInv, HandleInv
<1>9. HeldNested' /\ CoroNested'
  BY DEF TaskInv, HeldNested, CoroNested
<1>10. ChainEnds'
  <2>1. \A d \in Coro : /\ frame'[d] \in {"running", "suspended"} <=> frame[d] \in {"running", "suspended"}
                        /\ frame'[d] = "awaiting" <=> frame[d] = "awaiting"
    BY <1>1
  <2>. QED BY <2>1 DEF TaskInv, ChainEnds
<1>11. ResultInv'
  <2>1. \A d \in Coro : frame'[d] = "final" => container'[d] = EndOf(d)'
    BY <1>1 DEF TaskInv, ResultInv, EndOf
  <2>2. \A p \in Coro : p[2] < Depth => frame'[Child(p)] = frame[Child(p)]
    BY <1>1, <1>2
  <2>3. \A p \in Coro : frame'[p] \in Over => frame[p] \in Over
    BY <1>1 DEF Over
  <2>. QED BY <2>1, <2>2, <2>3 DEF TaskInv, ResultInv
<1>12. RootFramesSafe'
  BY BrokenKept
<1>. QED BY <1>4, <1>5, <1>6, <1>7, <1>8, <1>9, <1>10, <1>11, <1>12

\* exec_one_task after resume(): clean() if the coroutine is done.
LEMMA CleanKeeps ==
  ASSUME TaskInv, Clean
  PROVE  TaskInv'
<1> USE Chains
<1>1. PICK c \in Coro : c = coro /\ pc = "done?"
  BY DEF Clean, TaskInv, Types, ActiveInv
<1>2. /\ pc' = "idle" /\ coro' = Null
      /\ UNCHANGED <<m_state, m_continuation, waiting, through, m_task_queue, active, container, got, throwing>>
  BY DEF Clean, resVars
<1>3. CASE frame[c] = "final" /\ m_state[c] = "detach"
  <2>1. frame' = [frame EXCEPT ![c] = "destroyed"] /\ broken' = broken
    BY <1>1, <1>3 DEF Clean
  <2>2. c[2] = 1
    BY <1>3 DEF TaskInv, OwnerInv
  <2>3. m_state' \in [Coro -> {"normal", "detach", "none"}]
    BY <1>2 DEF TaskInv, Types
  <2>4. frame'[c] = "destroyed" /\ \A d \in Coro : d # c => frame'[d] = frame[d]
    BY <2>1 DEF TaskInv, Types
  <2>5. OwnerInv'
    <3>1. \A r \in Kept : Root(r) # c
      BY <1>3 DEF TaskInv, OwnerInv
    <3>2. Kept \subseteq Roots
      BY TaskAssumption
    <3>. QED BY <1>2, <1>3, <2>4, <3>1, <3>2 DEF TaskInv, OwnerInv
  <2>6. FreeInv'
    BY <1>1, <1>2, <2>4 DEF TaskInv, FreeInv, WaitedNested
  <2>. QED BY <1>1, <1>2, <1>3, <2>1, <2>2, <2>3, <2>5, <2>6, DestroyRootKeeps DEF TaskInv
<1>4. CASE ~(frame[c] = "final" /\ m_state[c] = "detach")
  <2>1. frame' = frame
    BY <1>1, <1>4 DEF Clean
  <2>2. RootFramesSafe'
    <3>1. frame[c] = "destroyed" => c[2] > 1 /\ c \in through
      BY <1>1 DEF TaskInv, CoroNested
    <3>2. broken' = broken \/ (frame[c] = "destroyed" /\ broken' = broken \cup {c})
      BY <1>1 DEF Clean
    <3>. QED BY <1>2, <3>1, <3>2 DEF TaskInv, RootFramesSafe, WaitedNested
  <2>3. Types'
    <3>1. broken' \subseteq Coro
      BY <1>1 DEF Clean, TaskInv, Types
    <3>. QED BY <1>2, <2>1, <3>1 DEF TaskInv, Types
  <2>4. FreeInv'
    <3>1. \A r \in Roots \ Kept : frame[Root(r)] = "final" => Root(r) # c
      BY <1>4 DEF TaskInv, OwnerInv
    <3>. QED BY <1>1, <1>2, <2>1, <3>1 DEF TaskInv, FreeInv, WaitedNested
  <2>5. ActiveInv' /\ HeldNested' /\ CoroNested'
    BY <1>1, <1>2, <2>1 DEF TaskInv, ActiveInv, HeldNested, CoroNested
  <2>6. ChainInv' /\ ContinuationInv' /\ HandleInv'
    BY <1>2, <2>1 DEF TaskInv, ChainInv, ContinuationInv, HandleInv
  <2>7. ChainEnds' /\ OwnerInv'
    BY <1>2, <2>1 DEF TaskInv, ChainEnds, OwnerInv
  <2>8. ResultInv'
    BY <1>2, <2>1 DEF TaskInv, ResultInv, EndOf
  <2>. QED BY <2>2, <2>3, <2>4, <2>5, <2>6, <2>7, <2>8 DEF TaskInv
<1>. QED BY <1>3, <1>4

\* ~task of a kept task, when the context has stopped.
LEMMA DestroyKeptKeeps ==
  ASSUME TaskInv, NEW r \in Roots, DestroyKept(r)
  PROVE  TaskInv'
<1> USE Chains
<1>1. PICK c \in Coro : c = Root(r) /\ c[2] = 1
  OBVIOUS
<1>2. r \in Kept /\ m_state[c] = "normal" /\ pc = "idle" /\ frame[c] = "final"
  BY <1>1 DEF DestroyKept, Quiet, TaskInv, OwnerInv
<1>3. /\ frame' = [frame EXCEPT ![c] = "destroyed"] /\ m_state' = [m_state EXCEPT ![c] = "none"]
      /\ UNCHANGED <<m_continuation, waiting, through, m_task_queue, coro, active, pc, broken, container, got, throwing>>
  BY <1>1, <1>2 DEF DestroyKept, resVars
<1>4. /\ frame'[c] = "destroyed" /\ m_state'[c] = "none" /\ coro' \in Coro \cup {Null}
      /\ \A d \in Coro : d # c => frame'[d] = frame[d] /\ m_state'[d] = m_state[d]
      /\ m_state' \in [Coro -> {"normal", "detach", "none"}]
  BY <1>3 DEF TaskInv, Types
<1>5. OwnerInv'
  <2>1. \A s \in Roots : s # r => Root(s) # c
    BY <1>1
  <2>2. Kept \subseteq Roots
    BY TaskAssumption
  <2>. QED BY <1>1, <1>2, <1>4, <2>1, <2>2 DEF TaskInv, OwnerInv
<1>6. FreeInv'
  BY <1>2, <1>3, <1>4, FreeKept
<1>. QED BY <1>1, <1>2, <1>3, <1>4, <1>5, <1>6, DestroyRootKeeps DEF TaskInv

-----------------------------------------------------------------------------
(***************************************************************************)
(* The theorems.                                                           *)
(***************************************************************************)

LEMMA TaskInit == Init => TaskInv
<1>1. SUFFICES ASSUME Init PROVE TaskInv
  OBVIOUS
<1>2. /\ frame = [c \in Coro |-> "none"] /\ m_state = [c \in Coro |-> "normal"]
      /\ m_continuation = [c \in Coro |-> Null] /\ waiting = {} /\ through = {}
      /\ m_task_queue = <<>> /\ coro = Null /\ active = Null /\ pc = "idle"
      /\ container = [c \in Coro |-> "none"] /\ got = [c \in Coro |-> "none"] /\ throwing = {} /\ broken = {}
  BY <1>1 DEF Init
<1>3. m_task_queue \in Seq(Coro) /\ IsInjective(m_task_queue) /\ ToSet(m_task_queue) = {}
  BY <1>2, NoElements
<1>4. \A r \in Roots : Root(r) \in Coro
  BY Chains
<1>5. \A c \in Coro : c[2] < Depth => Child(c) \in Coro
  BY Chains
<1>6. Types
  BY <1>2, <1>3 DEF Types
<1>7. ChainInv /\ ContinuationInv
  BY <1>2, <1>5 DEF ChainInv, ContinuationInv, Live
<1>8. ActiveInv
  <2>1. Null \notin Coro
    BY Chains
  <2>. QED BY <1>2, <2>1 DEF ActiveInv
<1>9. HandleInv /\ HeldNested /\ CoroNested /\ ChainEnds
  BY <1>2, <1>3 DEF HandleInv, HeldNested, CoroNested, ChainEnds
<1>10. OwnerInv /\ FreeInv
  BY <1>2, <1>4, TaskAssumption DEF OwnerInv, FreeInv
<1>11. ResultInv
  BY <1>2, <1>5 DEF ResultInv, Over
<1>12. RootFramesSafe
  BY <1>2 DEF RootFramesSafe
<1>. QED BY <1>6, <1>7, <1>8, <1>9, <1>10, <1>11, <1>12 DEF TaskInv

LEMMA TaskStep == TaskInv /\ [Next]_vars => TaskInv'
<1>1. SUFFICES ASSUME TaskInv, [Next]_vars PROVE TaskInv'
  OBVIOUS
<1>2. ASSUME NEW r \in Roots, Submit(r) PROVE TaskInv'
  BY <1>1, <1>2, SubmitKeeps
<1>3. ASSUME NEW r \in Roots, DestroyKept(r) PROVE TaskInv'
  BY <1>1, <1>3, DestroyKeptKeeps
<1>4. ASSUME NEW c \in Coro, WakeUp(c) PROVE TaskInv'
  BY <1>1, <1>4, WakeUpKeeps
<1>5. CASE EngineStep
  <2>1. CASE FinalSuspend
    BY <1>1, <2>1, FinalToCallerKeeps, FinalToEndKeeps
  <2>. QED BY <1>1, <1>5, <2>1, ExecKeeps, CoAwaitKeeps, AwaitResumeKeeps, SuspendKeeps, ThrowKeeps,
              DestroyChildKeeps, PodExceptionKeeps, CleanKeeps DEF EngineStep
<1>6. CASE UNCHANGED vars
  BY <1>1, <1>6 DEF vars, resVars, TaskInv, Types, ChainInv, ContinuationInv, ActiveInv, HandleInv, HeldNested,
     CoroNested, ChainEnds, OwnerInv, FreeInv, ResultInv, RootFramesSafe, EndOf, WaitedNested
<1>. QED BY <1>1, <1>2, <1>3, <1>4, <1>5, <1>6 DEF Next, Terminated

\* The invariant of the life of coroutine frames holds in every reachable
\* state (task.hpp, exec_one_task of engine.cpp).
THEOREM TaskInvariant == Spec => []TaskInv
BY TaskInit, TaskStep, PTL DEF Spec

\* Every handle the context, somebody outside or a promise holds is that of a
\* live frame, held once, whatever the coroutines do (task.hpp 68-76, 206-211).
THEOREM HandlesStayAlive == Spec => []HandlesAlive
<1>1. TaskInv => HandlesAlive
  <2>1. SUFFICES ASSUME TaskInv PROVE HandlesAlive
    OBVIOUS
  <2>2. ToSet(m_task_queue) \cup waiting \subseteq Coro
    <3>1. m_task_queue \in Seq(Coro)
      BY <2>1 DEF TaskInv, Types
    <3>2. ToSet(m_task_queue) \subseteq Coro
      BY <3>1 DEF ToSet
    <3>. QED BY <2>1, <3>2 DEF TaskInv, Types
  <2>3. ContinuationAlive
    <3>1. ASSUME NEW c \in Coro, m_continuation[c] # Null, frame[c] \in {"running", "suspended", "awaiting"}
          PROVE  frame[m_continuation[c]] = "awaiting"
      <4>1. PICK p \in Coro : p = m_continuation[c] /\ p[2] < Depth /\ c = Child(p)
        BY <2>1, <3>1, Caller
      <4>. QED BY <2>1, <3>1, <4>1 DEF TaskInv, ChainInv, Live
    <3>. QED BY <3>1 DEF ContinuationAlive
  <2>. QED BY <2>1, <2>2, <2>3 DEF TaskInv, HandleInv, HandlesAlive
<1>. QED BY <1>1, TaskInvariant, PTL

\* clean() and ~task together destroy and read the frame of a submitted task
\* safely: what is read after its destruction is only ever a co_awaited
\* coroutine that had waited (engine.cpp 84-88, task.hpp 222-228).
THEOREM RootFramesStaySafe == Spec => []RootFramesSafe
<1>1. TaskInv => RootFramesSafe
  BY DEF TaskInv
<1>. QED BY <1>1, TaskInvariant, PTL

\* No detached task leaks: when nothing is left to run its frame has been
\* destroyed, unless a coroutine it awaited had waited
\* (engine.cpp 85-88, task.hpp 316-333).
THEOREM DetachedTasksFreed == Spec => []DetachedFreed
<1>1. TaskInv => DetachedFreed
  <2>1. SUFFICES ASSUME TaskInv, Quiet, NEW r \in Roots \ Kept, frame[Root(r)] \notin {"none", "destroyed"}
                 PROVE  \E k \in 1 .. Depth : WaitedNested(<<r, k>>)
    BY DEF DetachedFreed
  <2>2. Root(r) \in Coro /\ pc = "idle" /\ ToSet(m_task_queue) = {} /\ waiting = {}
    BY <2>1, Chains, NoElements DEF Quiet
  <2>3. \A c \in Coro : frame[c] \notin {"running", "suspended"}
    BY <2>1, <2>2, Chains DEF TaskInv, ActiveInv, HandleInv
  <2>4. \A c \in Coro : frame[c] # "awaiting"
    BY <2>1, <2>3 DEF TaskInv, ChainEnds
  <2>5. frame[Root(r)] = "final"
    BY <2>1, <2>2, <2>3, <2>4 DEF TaskInv, Types, Live, Over
  <2>6. PICK c \in Coro : c[1] = r /\ WaitedNested(c)
    BY <2>1, <2>2, <2>5 DEF TaskInv, FreeInv
  <2>7. c = <<r, c[2]>> /\ c[2] \in 1 .. Depth
    BY <2>6 DEF Coro
  <2>. QED BY <2>6, <2>7
<1>. QED BY <1>1, TaskInvariant, PTL

\* An exception reaches the caller of the coroutine it left, and nothing else
\* does as one; only one that left a coroutine with a pod result ends the
\* process (container.hpp 168-190, task.hpp 141-175, 276-294).
THEOREM ExceptionsAlwaysReach == Spec => []ExceptionsReach
<1>1. TaskInv => ExceptionsReach
  BY Chains DEF TaskInv, ResultInv, ExceptionsReach, Over
<1>. QED BY <1>1, TaskInvariant, PTL
=============================================================================
