---------------------------- MODULE AwaiterProofs ----------------------------
(***************************************************************************)
(* Theorems about the synchronisers that keep a list of awaiters: Event    *)
(* and Latch, for every number of waiters and setters and every count, and *)
(* WaitGroup, for every number of waiters, workers and added coroutines.   *)
(***************************************************************************)
EXTENDS Latch, WaitGroup, ListLemmas, FiniteSetTheorems, TLAPS

\* Somebody the event has let through.
Through(w) == pc[w] \in {"resume", "queued", "reading", "terminate", "done"}

Types ==
  /\ m_state \in Waiters \cup {NULL, This}
  /\ m_next \in [Waiters -> Waiters \cup {NULL, Garbage}]
  /\ m_storage \in {"unset", "stored", "torn", "void"} /\ ev \in [initial_set : BOOLEAN, pod : BOOLEAN]
  /\ got \in [Waiters -> {"nothing", "unset", "stored", "torn", "void"}]
  /\ DOMAIN pc = Waiters \cup Setters
  /\ \A w \in Waiters : pc[w] \in {"idle", "load", "cas", "suspended", "resume", "queued", "reading", "terminate", "done"}
  /\ \A s \in Setters : pc[s] \in {"idle", "store", "exchange", "walk", "submit", "done"}
  /\ old_value \in [Waiters -> Waiters \cup {NULL, This}]
  /\ waiter \in [Setters -> Waiters \cup {NULL}] /\ next \in [Setters -> Waiters \cup {NULL}]

\* What points to an awaiter of a list: m_state, a setter that walks, the
\* m_next of an awaiter that is itself in a list.
Walks(s)  == pc[s] \in {"walk", "submit"}
Listed(w) == pc[w] = "suspended"

\* Every pointer leads to an awaiter that is alive ...
PointInv ==
  /\ m_state \in Waiters => Listed(m_state)
  /\ \A s \in Setters : Walks(s) /\ waiter[s] # NULL => Listed(waiter[s])
  /\ \A w \in Waiters : Listed(w) => m_next[w] = NULL \/ (m_next[w] \in Waiters /\ Listed(m_next[w]))

\* ... and no two pointers to the same one.
OneHead  == m_state \in Waiters =>
              /\ \A s \in Setters : Walks(s) => waiter[s] # m_state
              /\ \A w \in Waiters : Listed(w) => m_next[w] # m_state
OneWalk  == \A s \in Setters : Walks(s) /\ waiter[s] # NULL =>
              /\ \A r \in Setters : Walks(r) /\ waiter[r] = waiter[s] => r = s
              /\ \A w \in Waiters : Listed(w) => m_next[w] # waiter[s]
OneNext  == \A v, w \in Waiters : Listed(v) /\ Listed(w) /\ m_next[v] = m_next[w] /\ m_next[v] # NULL => v = w

\* What the locals of wait() and set() hold.
LocalInv ==
  /\ \A w \in Waiters : pc[w] = "cas" => m_next[w] = old_value[w] /\ old_value[w] # This
  /\ \A s \in Setters : pc[s] = "submit" => waiter[s] \in Waiters /\ next[s] = m_next[waiter[s]]

\* A set() that has stored its value, and what such a set() opens.
Stored(s) == pc[s] \notin {"idle", "store"}
Opened == m_state = This \/ (\E s \in Setters : Stored(s)) \/ (\E w \in Waiters : Through(w))

\* The value is there before anybody is let through, unless the event was born
\* set, and two stores run into each other only if there are two.
ValueInv ==
  /\ (Opened /\ m_storage = "unset") => ev.initial_set
  /\ Opened => ev.initial_set \/ m_storage = "void" \/ \E s \in Setters : Stored(s)
  /\ m_storage = "torn" => SetAgain
  /\ m_storage = "void" => ~Storing /\ \A w \in Waiters : pc[w] \notin {"reading", "terminate"}

EventInv == Types /\ PointInv /\ OneHead /\ OneWalk /\ OneNext /\ LocalInv /\ ValueInv /\ ResultIsSet

\* How many setters have begun, and how many it takes to open the way.
CountInv ==
  /\ m_storage = "void" <=> count # NoLatch
  /\ count # NoLatch => count \in 0 .. (2 * Int64Max + 1) /\ m_count = ToInt64(count) - Cardinality(Begun)
  /\ m_state = This \/ (\E s \in Setters : pc[s] \in {"exchange", "walk", "submit"}) \/ (\E w \in Waiters : Through(w))
       => Cardinality(Begun) >= Needed

LatchInv == EventInv /\ CountInv

-----------------------------------------------------------------------------
(***************************************************************************)
(* coro::event: wait().                                                    *)
(***************************************************************************)

LEMMA Apart ==
  /\ \A x \in Waiters : x \notin Setters /\ x # NULL /\ x # This /\ x # Garbage
  /\ NULL # This /\ This # Garbage /\ Garbage # NULL
BY EventAssumption

\* A step of wait() that touches no list: neither what is in one nor what
\* points to it changes.
LEMMA ListsKept ==
  ASSUME EventInv, UNCHANGED <<m_state, waiter, next>>,
         \A s \in Setters : pc'[s] = pc[s],
         \A w \in Waiters : (Listed(w)' <=> Listed(w)) /\ (Listed(w) => m_next'[w] = m_next[w])
  PROVE  /\ PointInv' /\ OneHead' /\ OneWalk' /\ OneNext'
         /\ \A s \in Setters : pc'[s] = "submit" => waiter'[s] \in Waiters /\ next'[s] = m_next'[waiter'[s]]
<1> USE Apart
<1>1. \A s \in Setters : (Walks(s)' <=> Walks(s)) /\ waiter[s] \in Waiters \cup {NULL}
  BY DEF Walks, EventInv, Types
<1>2. m_state \in Waiters \cup {NULL, This} /\ \A w \in Waiters : m_next[w] \in Waiters \cup {NULL, Garbage}
  BY DEF EventInv, Types
<1>3. PointInv'
  <2>1. m_state \in Waiters => Listed(m_state)'
    BY DEF EventInv, PointInv
  <2>2. \A s \in Setters : Walks(s) /\ waiter[s] # NULL => Listed(waiter[s])'
    BY <1>1 DEF EventInv, PointInv
  <2>3. \A w \in Waiters : Listed(w) => m_next[w] = NULL \/ (m_next[w] \in Waiters /\ Listed(m_next[w])')
    BY DEF EventInv, PointInv
  <2>4. m_state' = m_state /\ waiter' = waiter
    OBVIOUS
  <2>5. m_state \in Waiters => pc'[m_state] = "suspended"
    BY <2>1, <2>4 DEF Listed
  <2>6. \A s \in Setters : Walks(s) /\ waiter[s] # NULL => pc'[waiter[s]] = "suspended"
    BY <2>2, <2>4 DEF Listed
  <2>. QED BY <1>1, <2>3, <2>4, <2>5, <2>6 DEF PointInv, Listed
<1>4. OneHead'
  BY <1>1 DEF EventInv, OneHead
<1>5. OneWalk'
  BY <1>1 DEF EventInv, OneWalk
<1>6. OneNext'
  BY DEF EventInv, OneNext
<1>7. ASSUME NEW s \in Setters, pc'[s] = "submit"
      PROVE  waiter'[s] \in Waiters /\ next'[s] = m_next'[waiter'[s]]
  <2>1. pc[s] = "submit" /\ Walks(s)
    BY <1>7 DEF Walks
  <2>2. waiter[s] \in Waiters /\ next[s] = m_next[waiter[s]] /\ Listed(waiter[s])
    BY <2>1 DEF EventInv, LocalInv, PointInv
  <2>. QED BY <2>2
<1>. QED BY <1>3, <1>4, <1>5, <1>6, <1>7

\* A step that stores, reads and opens nothing.
LEMMA ValueKept ==
  ASSUME EventInv, UNCHANGED <<m_storage, ev, got>>, Opened' => Opened,
         \A s \in Setters : (pc'[s] = "idle" <=> pc[s] = "idle") /\ (pc'[s] = "store" <=> pc[s] = "store"),
         \A w \in Waiters : pc'[w] \in {"reading", "terminate"} => pc'[w] = pc[w]
  PROVE  ValueInv' /\ ResultIsSet'
<1>1. (Storing' <=> Storing) /\ (SetAgain' <=> SetAgain) /\ (Dead' => Dead)
  BY DEF Storing, SetAgain, Dead
<1>2. \A s \in Setters : Stored(s)' <=> Stored(s)
  BY DEF Stored
<1>3. ValueInv'
  BY <1>1, <1>2 DEF EventInv, ValueInv
<1>4. ResultIsSet'
  BY <1>1 DEF EventInv, ResultIsSet
<1>. QED BY <1>3, <1>4

\* Who stores while somebody is let through is not the only one, unless the
\* event was born set.
LEMMA StoringAgain ==
  ASSUME EventInv, Opened, Storing
  PROVE  ev.initial_set \/ SetAgain
BY DEF EventInv, ValueInv, Storing, Stored, SetAgain

\* await_ready.
LEMMA AwaitReadyKeeps ==
  ASSUME EventInv, NEW w \in Waiters, AwaitReady(w)
  PROVE  EventInv'
<1> USE Apart
<1>1. PICK l \in {"resume", "load"} :
        /\ pc[w] = "idle" /\ pc' = [pc EXCEPT ![w] = l] /\ (l = "resume" => m_state = This)
        /\ UNCHANGED <<m_state, m_next, m_storage, ev, got, old_value, waiter, next>>
  BY DEF AwaitReady, Goto
<1>2. pc'[w] = l /\ DOMAIN pc' = DOMAIN pc /\ \A x \in Waiters \cup Setters : x # w => pc'[x] = pc[x]
  BY <1>1 DEF EventInv, Types
<1>3. \A s \in Setters : pc'[s] = pc[s]
  BY <1>2
<1>4. \A v \in Waiters : (Listed(v)' <=> Listed(v)) /\ (Through(v)' <=> Through(v) \/ (v = w /\ l = "resume"))
  BY <1>1, <1>2 DEF Listed, Through
<1>5. Types'
  BY <1>1, <1>2, <1>3 DEF EventInv, Types
<1>6. ValueInv' /\ ResultIsSet'
  <2>1. Opened' => Opened
    BY <1>1, <1>3, <1>4 DEF Opened, Stored
  <2>2. \A v \in Waiters : pc'[v] \in {"reading", "terminate"} => pc'[v] = pc[v]
    BY <1>1, <1>2
  <2>. QED BY <1>1, <1>3, <2>1, <2>2, ValueKept
<1>7. /\ PointInv' /\ OneHead' /\ OneWalk' /\ OneNext'
      /\ \A s \in Setters : pc'[s] = "submit" => waiter'[s] \in Waiters /\ next'[s] = m_next'[waiter'[s]]
  BY <1>1, <1>3, <1>4, ListsKept
<1>8. LocalInv'
  BY <1>1, <1>2, <1>7 DEF EventInv, LocalInv
<1>. QED BY <1>5, <1>6, <1>7, <1>8 DEF EventInv

\* register_awaiters loads the head.
LEMMA LoadHeadKeeps ==
  ASSUME EventInv, NEW w \in Waiters, LoadHead(w)
  PROVE  EventInv'
<1> USE Apart
<1>1. PICK l \in {"resume", "cas"}, n \in Waiters \cup {NULL} :
        /\ pc[w] = "load" /\ pc' = [pc EXCEPT ![w] = l] /\ (l = "resume" <=> m_state = This)
        /\ old_value' = [old_value EXCEPT ![w] = m_state] /\ m_next' = [m_next EXCEPT ![w] = n]
        /\ (m_state # This => n = m_state)
        /\ UNCHANGED <<m_state, m_storage, ev, got, waiter, next>>
  <2>1. CASE m_state = This
    BY <2>1 DEF LoadHead, Goto
  <2>2. CASE m_state # This
    BY <2>2 DEF LoadHead, Goto, EventInv, Types
  <2>. QED BY <2>1, <2>2
<1>2. pc'[w] = l /\ DOMAIN pc' = DOMAIN pc /\ \A x \in Waiters \cup Setters : x # w => pc'[x] = pc[x]
  BY <1>1 DEF EventInv, Types
<1>3. \A s \in Setters : pc'[s] = pc[s]
  BY <1>2
<1>4. \A v \in Waiters : (Listed(v)' <=> Listed(v)) /\ (Through(v)' <=> Through(v) \/ (v = w /\ l = "resume"))
  BY <1>1, <1>2 DEF Listed, Through
<1>5. /\ m_next'[w] = n /\ old_value'[w] = m_state
      /\ \A v \in Waiters : v # w => m_next'[v] = m_next[v] /\ old_value'[v] = old_value[v]
  BY <1>1 DEF EventInv, Types
<1>6. Types'
  BY <1>1, <1>2, <1>3 DEF EventInv, Types
<1>7. ValueInv' /\ ResultIsSet'
  <2>1. Opened' => Opened
    BY <1>1, <1>3, <1>4 DEF Opened, Stored
  <2>2. \A v \in Waiters : pc'[v] \in {"reading", "terminate"} => pc'[v] = pc[v]
    BY <1>1, <1>2
  <2>. QED BY <1>1, <1>3, <2>1, <2>2, ValueKept
<1>8. /\ PointInv' /\ OneHead' /\ OneWalk' /\ OneNext'
      /\ \A s \in Setters : pc'[s] = "submit" => waiter'[s] \in Waiters /\ next'[s] = m_next'[waiter'[s]]
  <2>1. \A v \in Waiters : Listed(v) => v # w
    BY <1>1 DEF Listed
  <2>2. \A v \in Waiters : Listed(v) => m_next'[v] = m_next[v]
    BY <1>5, <2>1
  <2>. QED BY <1>1, <1>3, <1>4, <2>2, ListsKept
<1>9. LocalInv'
  BY <1>1, <1>2, <1>5, <1>8 DEF EventInv, LocalInv
<1>. QED BY <1>6, <1>7, <1>8, <1>9 DEF EventInv

\* The CAS fails.
LEMMA CasFailKeeps ==
  ASSUME EventInv, NEW w \in Waiters, CasFail(w)
  PROVE  EventInv'
<1> USE Apart
<1>1. /\ pc[w] = "cas" /\ pc' = [pc EXCEPT ![w] = "load"]
      /\ UNCHANGED <<m_state, m_next, m_storage, ev, got, old_value, waiter, next>>
  BY DEF CasFail, Goto
<1>2. pc'[w] = "load" /\ DOMAIN pc' = DOMAIN pc /\ \A x \in Waiters \cup Setters : x # w => pc'[x] = pc[x]
  BY <1>1 DEF EventInv, Types
<1>3. \A s \in Setters : pc'[s] = pc[s]
  BY <1>2
<1>4. \A v \in Waiters : (Listed(v)' <=> Listed(v)) /\ (Through(v)' <=> Through(v))
  BY <1>1, <1>2 DEF Listed, Through
<1>5. Types'
  BY <1>1, <1>2, <1>3 DEF EventInv, Types
<1>6. ValueInv' /\ ResultIsSet'
  <2>1. Opened' => Opened
    BY <1>1, <1>3, <1>4 DEF Opened, Stored
  <2>2. \A v \in Waiters : pc'[v] \in {"reading", "terminate"} => pc'[v] = pc[v]
    BY <1>1, <1>2
  <2>. QED BY <1>1, <1>3, <2>1, <2>2, ValueKept
<1>7. /\ PointInv' /\ OneHead' /\ OneWalk' /\ OneNext'
      /\ \A s \in Setters : pc'[s] = "submit" => waiter'[s] \in Waiters /\ next'[s] = m_next'[waiter'[s]]
  BY <1>1, <1>3, <1>4, ListsKept
<1>8. LocalInv'
  BY <1>1, <1>2, <1>7 DEF EventInv, LocalInv
<1>. QED BY <1>5, <1>6, <1>7, <1>8 DEF EventInv

\* await_resume and what follows until the awaiter dies.
LEMMA ResumeKeeps ==
  ASSUME EventInv, NEW w \in Waiters, Resume(w)
  PROVE  EventInv'
<1> USE Apart
<1>1. PICK l \in {"reading", "terminate", "done"} :
        /\ pc[w] \in {"resume", "queued", "reading"} /\ pc' = [pc EXCEPT ![w] = l]
        /\ m_next' = m_next \/ m_next' = [m_next EXCEPT ![w] = Garbage]
        /\ UNCHANGED <<m_state, m_storage, ev, old_value, waiter, next>>
  BY DEF Resume, AwaitResume, ResultUnset, ResultThrows, ResumeVoid, CopyResult, Goto
<1>2. pc'[w] = l /\ DOMAIN pc' = DOMAIN pc /\ \A x \in Waiters \cup Setters : x # w => pc'[x] = pc[x]
  BY <1>1 DEF EventInv, Types
<1>3. \A s \in Setters : pc'[s] = pc[s]
  BY <1>2
<1>4. \A v \in Waiters : (Listed(v)' <=> Listed(v)) /\ (Through(v)' <=> Through(v)) /\ (Listed(v) => v # w)
  BY <1>1, <1>2 DEF Listed, Through
<1>5. /\ (Storing' <=> Storing) /\ (SetAgain' <=> SetAgain) /\ \A s \in Setters : Stored(s)' <=> Stored(s)
      /\ Opened /\ Opened'
  <2>1. (Storing' <=> Storing) /\ (SetAgain' <=> SetAgain) /\ \A s \in Setters : Stored(s)' <=> Stored(s)
    BY <1>3 DEF Storing, SetAgain, Stored
  <2>2. Through(w) /\ Through(w)'
    BY <1>1, <1>2 DEF Through
  <2>. QED BY <2>1, <2>2 DEF Opened
<1>6. /\ got' \in [Waiters -> {"nothing", "unset", "stored", "torn", "void"}]
      /\ \A v \in Waiters : v # w => got'[v] = got[v]
  BY DEF EventInv, Types, Resume, AwaitResume, ResultUnset, ResultThrows, ResumeVoid, CopyResult
<1>7. Types'
  <2>1. m_next' \in [Waiters -> Waiters \cup {NULL, Garbage}]
    BY <1>1 DEF EventInv, Types
  <2>. QED BY <1>1, <1>2, <1>3, <1>6, <2>1 DEF EventInv, Types
<1>8. ValueInv'
  <2>1. l \in {"reading", "terminate"} => m_storage # "void"
    <3>1. pc[w] # "reading" => (l \in {"reading", "terminate"} => m_storage \in {"stored", "torn", "unset"} \/ Storing)
      BY <1>1, <1>2 DEF Resume, AwaitResume, ResultUnset, ResultThrows, ResumeVoid, CopyResult, Goto
    <3>. QED BY <3>1 DEF EventInv, ValueInv
  <2>2. m_storage = "void" => \A v \in Waiters : pc'[v] \notin {"reading", "terminate"}
    BY <1>2, <2>1 DEF EventInv, ValueInv
  <2>. QED BY <1>1, <1>5, <2>2 DEF EventInv, ValueInv
<1>9. ResultIsSet'
  <2>1. m_storage = "unset" => ev.initial_set
    BY <1>5 DEF EventInv, ValueInv
  <2>2. m_storage = "torn" \/ Storing => ev.initial_set \/ SetAgain
    BY <1>5, StoringAgain DEF EventInv, ValueInv
  <2>3. got'[w] = "unset" => ev.initial_set
    BY <2>1 DEF EventInv, Types, ResultIsSet, Resume, AwaitResume, ResultUnset, ResultThrows, ResumeVoid, CopyResult
  <2>4. got'[w] = "torn" => ev.initial_set \/ SetAgain
    BY <2>2 DEF EventInv, Types, ResultIsSet, Resume, AwaitResume, ResultUnset, ResultThrows, ResumeVoid, CopyResult
  <2>5. l = "terminate" => m_storage \in {"unset", "torn"} \/ Storing
    BY <1>1, <1>2 DEF EventInv, Types, Resume, AwaitResume, ResultUnset, ResultThrows, ResumeVoid, CopyResult, Goto
  <2>6. Dead' => ev.initial_set \/ SetAgain
    <3>1. Dead' => Dead \/ l = "terminate"
      BY <1>2 DEF Dead
    <3>2. Dead => ev.initial_set \/ SetAgain
      BY DEF EventInv, ResultIsSet
    <3>. QED BY <2>1, <2>2, <2>5, <3>1, <3>2
  <2>. QED BY <1>1, <1>5, <1>6, <2>3, <2>4, <2>6 DEF EventInv, ResultIsSet
<1>10. /\ PointInv' /\ OneHead' /\ OneWalk' /\ OneNext'
       /\ \A s \in Setters : pc'[s] = "submit" => waiter'[s] \in Waiters /\ next'[s] = m_next'[waiter'[s]]
  <2>1. \A v \in Waiters : Listed(v) => m_next'[v] = m_next[v]
    BY <1>1, <1>4 DEF EventInv, Types
  <2>. QED BY <1>1, <1>3, <1>4, <2>1, ListsKept
<1>11. LocalInv'
  <2>1. \A v \in Waiters : pc'[v] = "cas" => pc[v] = "cas" /\ m_next'[v] = m_next[v]
    BY <1>1, <1>2 DEF EventInv, Types
  <2>. QED BY <1>1, <1>10, <2>1 DEF EventInv, LocalInv
<1>. QED BY <1>7, <1>8, <1>9, <1>10, <1>11 DEF EventInv

\* The CAS succeeds: the pointer to the old head moves from m_state to the
\* m_next of the new one, which nothing has pointed to.
LEMMA CasPushKeeps ==
  ASSUME EventInv, NEW w \in Waiters, CasPush(w)
  PROVE  EventInv'
<1> USE Apart
<1>1. /\ pc[w] = "cas" /\ pc' = [pc EXCEPT ![w] = "suspended"] /\ m_state' = w
      /\ m_state = old_value[w] /\ m_next[w] = m_state /\ m_state # This
      /\ UNCHANGED <<m_next, m_storage, ev, got, old_value, waiter, next>>
  BY DEF CasPush, Goto, EventInv, LocalInv
<1>2. pc'[w] = "suspended" /\ DOMAIN pc' = DOMAIN pc /\ \A x \in Waiters \cup Setters : x # w => pc'[x] = pc[x]
  BY <1>1 DEF EventInv, Types
<1>3. /\ \A s \in Setters : pc'[s] = pc[s] /\ (Walks(s)' <=> Walks(s))
      /\ m_state \in Waiters \cup {NULL} /\ \A s \in Setters : waiter[s] \in Waiters \cup {NULL}
  BY <1>1, <1>2 DEF Walks, EventInv, Types
<1>4. \A v \in Waiters : /\ Listed(v)' <=> Listed(v) \/ v = w
                         /\ Through(v)' <=> Through(v)
                         /\ Listed(v) => v # w
  BY <1>1, <1>2 DEF Listed, Through
<1>5. Types'
  BY <1>1, <1>2, <1>3 DEF EventInv, Types
<1>6. ValueInv' /\ ResultIsSet'
  <2>1. Opened' => Opened
    BY <1>1, <1>3, <1>4 DEF Opened, Stored
  <2>2. \A v \in Waiters : pc'[v] \in {"reading", "terminate"} => pc'[v] = pc[v]
    BY <1>1, <1>2
  <2>. QED BY <1>1, <1>3, <2>1, <2>2, ValueKept
<1>7. /\ m_state # w /\ \A s \in Setters : Walks(s) => waiter[s] # w
      /\ \A v \in Waiters : Listed(v) => m_next[v] # w
  BY <1>3, <1>4 DEF EventInv, PointInv
<1>8. PointInv'
  <2>1. \A s \in Setters : Walks(s) /\ waiter[s] # NULL => Listed(waiter[s])'
    BY <1>1, <1>3, <1>4 DEF EventInv, PointInv
  <2>2. \A v \in Waiters : Listed(v)' => m_next[v] = NULL \/ (m_next[v] \in Waiters /\ Listed(m_next[v])')
    BY <1>1, <1>3, <1>4 DEF EventInv, PointInv
  <2>3. \A s \in Setters : Walks(s) /\ waiter[s] # NULL => pc'[waiter[s]] = "suspended"
    BY <1>1, <2>1 DEF Listed
  <2>4. \A v \in Waiters : Listed(v)' => m_next[v] = NULL \/ (m_next[v] \in Waiters /\ pc'[m_next[v]] = "suspended")
    BY <1>1, <2>2 DEF Listed
  <2>. QED BY <1>1, <1>2, <1>3, <2>3, <2>4 DEF PointInv, Listed
<1>9. OneHead'
  BY <1>1, <1>3, <1>4, <1>7 DEF OneHead
<1>10. OneWalk'
  <2>1. \A s \in Setters : Walks(s) /\ waiter[s] # NULL => waiter[s] # m_next[w]
    BY <1>1, <1>3 DEF EventInv, OneHead
  <2>. QED BY <1>1, <1>3, <1>4, <2>1 DEF EventInv, OneWalk
<1>11. OneNext'
  <2>1. \A v \in Waiters : Listed(v) /\ m_next[v] # NULL => m_next[v] # m_next[w]
    BY <1>1, <1>3 DEF EventInv, OneHead
  <2>. QED BY <1>1, <1>4, <2>1 DEF EventInv, OneNext
<1>12. LocalInv'
  BY <1>1, <1>2, <1>3 DEF EventInv, LocalInv
<1>. QED BY <1>5, <1>6, <1>8, <1>9, <1>10, <1>11, <1>12 DEF EventInv

LEMMA WaitKeeps ==
  ASSUME EventInv, NEW w \in Waiters, Wait(w)
  PROVE  EventInv'
BY AwaitReadyKeeps, LoadHeadKeeps, CasPushKeeps, CasFailKeeps, ResumeKeeps DEF Wait

-----------------------------------------------------------------------------
(***************************************************************************)
(* coro::event: set().                                                     *)
(***************************************************************************)

\* A setter has begun, or is through: it walks no list.
LEMMA SetterMoves ==
  ASSUME EventInv, NEW s \in Setters, NEW l \in {"store", "exchange", "done"},
         ~Walks(s) \/ waiter[s] = NULL, pc' = [pc EXCEPT ![s] = l],
         m_storage' \in {"unset", "stored", "torn", "void"}, ValueInv', ResultIsSet',
         UNCHANGED <<m_state, m_next, ev, got, old_value, waiter, next>>
  PROVE  EventInv'
<1> USE Apart
<1>1. /\ pc'[s] = l /\ DOMAIN pc' = DOMAIN pc /\ (\A x \in Waiters \cup Setters : x # s => pc'[x] = pc[x])
      /\ \A w \in Waiters : pc'[w] = pc[w]
  BY DEF EventInv, Types
<1>2. Types'
  BY <1>1 DEF EventInv, Types
<1>3. \A w \in Waiters : Listed(w)' <=> Listed(w)
  BY <1>1 DEF Listed
<1>4. \A r \in Setters : Walks(r)' <=> Walks(r) /\ r # s
  BY <1>1 DEF Walks
<1>5. PointInv'
  <2>1. m_state \in Waiters => pc'[m_state] = "suspended"
    BY <1>1 DEF EventInv, PointInv, Listed
  <2>2. \A r \in Setters : Walks(r) /\ r # s /\ waiter[r] # NULL => pc'[waiter[r]] = "suspended"
    BY <1>1 DEF EventInv, PointInv, Listed, Types
  <2>3. \A w \in Waiters : Listed(w) => m_next[w] = NULL \/ (m_next[w] \in Waiters /\ pc'[m_next[w]] = "suspended")
    BY <1>1 DEF EventInv, PointInv, Listed
  <2>. QED BY <1>3, <1>4, <2>1, <2>2, <2>3 DEF PointInv, Listed
<1>6. OneHead'
  BY <1>3, <1>4 DEF EventInv, OneHead
<1>7. OneWalk'
  BY <1>3, <1>4 DEF EventInv, OneWalk
<1>8. OneNext'
  BY <1>3 DEF EventInv, OneNext
<1>9. LocalInv'
  BY <1>1 DEF EventInv, LocalInv
<1>. QED BY <1>2, <1>5, <1>6, <1>7, <1>8, <1>9 DEF EventInv

\* set_state takes the list.
LEMMA ExchangeKeeps ==
  ASSUME EventInv, NEW s \in Setters, Exchange(s)
  PROVE  EventInv'
<1> USE Apart
<1>1. PICK h \in Waiters \cup {NULL} :
        /\ pc[s] = "exchange" /\ pc' = [pc EXCEPT ![s] = "walk"] /\ m_state' = This
        /\ waiter' = [waiter EXCEPT ![s] = h] /\ (h = NULL \/ h = m_state)
        /\ UNCHANGED <<m_next, m_storage, ev, got, old_value, next>>
  <2>1. CASE m_state = This
    BY <2>1 DEF Exchange, Goto
  <2>2. CASE m_state # This
    BY <2>2 DEF Exchange, Goto, EventInv, Types
  <2>. QED BY <2>1, <2>2
<1>2. /\ pc'[s] = "walk" /\ DOMAIN pc' = DOMAIN pc /\ (\A x \in Waiters \cup Setters : x # s => pc'[x] = pc[x])
      /\ \A w \in Waiters : pc'[w] = pc[w]
  BY <1>1 DEF EventInv, Types
<1>3. waiter'[s] = h /\ \A r \in Setters : r # s => waiter'[r] = waiter[r]
  BY <1>1 DEF EventInv, Types
<1>4. Types'
  BY <1>1, <1>2 DEF EventInv, Types
<1>5. \A w \in Waiters : (Listed(w)' <=> Listed(w)) /\ (Through(w)' <=> Through(w))
  BY <1>2 DEF Listed, Through
<1>6. Walks(s)' /\ ~Walks(s) /\ \A r \in Setters : r # s => (Walks(r)' <=> Walks(r))
  BY <1>1, <1>2 DEF Walks
<1>7. ValueInv' /\ ResultIsSet'
  <2>1. Opened /\ \A r \in Setters : (pc'[r] = "idle" <=> pc[r] = "idle") /\ (pc'[r] = "store" <=> pc[r] = "store")
    BY <1>1, <1>2 DEF Opened, Stored
  <2>2. \A v \in Waiters : pc'[v] \in {"reading", "terminate"} => pc'[v] = pc[v]
    BY <1>2
  <2>. QED BY <1>1, <2>1, <2>2, ValueKept
<1>8. PointInv'
  <2>1. \A r \in Setters : Walks(r)' /\ waiter'[r] # NULL => waiter'[r] \in Waiters /\ pc'[waiter'[r]] = "suspended"
    BY <1>1, <1>2, <1>3, <1>6 DEF EventInv, PointInv, Listed, Types
  <2>2. \A w \in Waiters : Listed(w) => m_next[w] = NULL \/ (m_next[w] \in Waiters /\ pc'[m_next[w]] = "suspended")
    BY <1>2 DEF EventInv, PointInv, Listed
  <2>. QED BY <1>1, <1>5, <2>1, <2>2 DEF PointInv, Listed
<1>9. OneHead'
  BY <1>1 DEF OneHead
<1>10. OneWalk'
  <2>1. h \in Waiters => /\ \A r \in Setters : Walks(r) => waiter[r] # h
                         /\ \A w \in Waiters : Listed(w) => m_next[w] # h
    BY <1>1 DEF EventInv, OneHead
  <2>. QED BY <1>1, <1>3, <1>5, <1>6, <2>1 DEF EventInv, OneWalk
<1>11. OneNext'
  BY <1>1, <1>5 DEF EventInv, OneNext
<1>12. LocalInv'
  BY <1>1, <1>2, <1>3 DEF EventInv, LocalInv
<1>. QED BY <1>4, <1>7, <1>8, <1>9, <1>10, <1>11, <1>12 DEF EventInv

\* The walk reads m_next.
LEMMA ReadNextKeeps ==
  ASSUME EventInv, NEW s \in Setters, ReadNext(s)
  PROVE  EventInv'
<1> USE Apart
<1>1. PICK w \in Waiters :
        /\ w = waiter[s] /\ pc[s] = "walk" /\ pc' = [pc EXCEPT ![s] = "submit"]
        /\ next' = [next EXCEPT ![s] = m_next[w]]
        /\ UNCHANGED <<m_state, m_next, m_storage, ev, got, old_value, waiter>>
  BY DEF ReadNext, Goto, EventInv, Types
<1>2. /\ pc'[s] = "submit" /\ DOMAIN pc' = DOMAIN pc /\ (\A x \in Waiters \cup Setters : x # s => pc'[x] = pc[x])
      /\ \A v \in Waiters : pc'[v] = pc[v]
  BY <1>1 DEF EventInv, Types
<1>3. m_next[w] \in Waiters \cup {NULL}
  BY <1>1 DEF EventInv, PointInv, Walks
<1>4. next'[s] = m_next[w] /\ \A r \in Setters : r # s => next'[r] = next[r]
  BY <1>1 DEF EventInv, Types
<1>5. Types'
  BY <1>1, <1>2, <1>3 DEF EventInv, Types
<1>6. \A v \in Waiters : (Listed(v)' <=> Listed(v)) /\ (Through(v)' <=> Through(v))
  BY <1>2 DEF Listed, Through
<1>7. \A r \in Setters : Walks(r)' <=> Walks(r)
  BY <1>1, <1>2 DEF Walks
<1>8. ValueInv' /\ ResultIsSet'
  <2>1. Opened /\ \A r \in Setters : (pc'[r] = "idle" <=> pc[r] = "idle") /\ (pc'[r] = "store" <=> pc[r] = "store")
    BY <1>1, <1>2 DEF Opened, Stored
  <2>2. \A v \in Waiters : pc'[v] \in {"reading", "terminate"} => pc'[v] = pc[v]
    BY <1>2
  <2>. QED BY <1>1, <2>1, <2>2, ValueKept
<1>9. PointInv'
  <2>1. m_state \in Waiters => pc'[m_state] = "suspended"
    BY <1>2 DEF EventInv, PointInv, Listed
  <2>2. \A r \in Setters : Walks(r) /\ waiter[r] # NULL => pc'[waiter[r]] = "suspended"
    BY <1>2 DEF EventInv, PointInv, Listed, Types
  <2>3. \A v \in Waiters : Listed(v) => m_next[v] = NULL \/ (m_next[v] \in Waiters /\ pc'[m_next[v]] = "suspended")
    BY <1>2 DEF EventInv, PointInv, Listed
  <2>. QED BY <1>1, <1>6, <1>7, <2>1, <2>2, <2>3 DEF PointInv, Listed
<1>10. OneHead' /\ OneNext'
  BY <1>1, <1>6, <1>7 DEF EventInv, OneHead, OneNext
<1>11. OneWalk'
  BY <1>1, <1>6, <1>7 DEF EventInv, OneWalk
<1>12. LocalInv'
  BY <1>1, <1>2, <1>4 DEF EventInv, LocalInv
<1>. QED BY <1>5, <1>8, <1>9, <1>10, <1>11, <1>12 DEF EventInv

\* ... and resumes the awaiter: nothing else has pointed to it, and its
\* m_next becomes the place where the walk is.
LEMMA SubmitAwaiterKeeps ==
  ASSUME EventInv, NEW s \in Setters, SubmitAwaiter(s)
  PROVE  EventInv'
<1> USE Apart
<1>1. PICK w \in Waiters :
        /\ w = waiter[s] /\ pc[s] = "submit" /\ pc' = [pc EXCEPT ![s] = "walk", ![w] = "queued"]
        /\ next[s] = m_next[w] /\ waiter' = [waiter EXCEPT ![s] = m_next[w]]
        /\ UNCHANGED <<m_state, m_next, m_storage, ev, got, old_value, next>>
  BY DEF SubmitAwaiter, EventInv, LocalInv
<1>2. /\ pc'[s] = "walk" /\ pc'[w] = "queued" /\ DOMAIN pc' = DOMAIN pc
      /\ \A x \in Waiters \cup Setters : x # s /\ x # w => pc'[x] = pc[x]
  BY <1>1 DEF EventInv, Types
<1>3. /\ Listed(w) /\ Walks(s) /\ w # NULL
      /\ m_next[w] \in Waiters \cup {NULL} /\ (m_next[w] \in Waiters => Listed(m_next[w]))
  BY <1>1 DEF EventInv, PointInv, Walks
<1>4. waiter'[s] = m_next[w] /\ \A r \in Setters : r # s => waiter'[r] = waiter[r]
  BY <1>1 DEF EventInv, Types
<1>5. /\ m_state # w
      /\ \A r \in Setters : Walks(r) /\ waiter[r] = w => r = s
      /\ \A v \in Waiters : Listed(v) => m_next[v] # w
  BY <1>1, <1>3 DEF EventInv, OneHead, OneWalk
<1>6. Types'
  <2>1. waiter' \in [Setters -> Waiters \cup {NULL}]
    BY <1>1, <1>3 DEF EventInv, Types
  <2>2. \A v \in Waiters : pc'[v] \in {"idle", "load", "cas", "suspended", "resume", "queued", "reading", "terminate", "done"}
    BY <1>2 DEF EventInv, Types
  <2>3. \A r \in Setters : pc'[r] \in {"idle", "store", "exchange", "walk", "submit", "done"}
    BY <1>2 DEF EventInv, Types
  <2>. QED BY <1>1, <1>2, <2>1, <2>2, <2>3 DEF EventInv, Types
<1>7. \A v \in Waiters : (Listed(v)' <=> Listed(v) /\ v # w) /\ (Through(v)' <=> Through(v) \/ v = w)
  BY <1>2 DEF Listed, Through
<1>8. \A r \in Setters : Walks(r)' <=> Walks(r)
  BY <1>1, <1>2 DEF Walks
<1>9. ValueInv' /\ ResultIsSet'
  <2>1. Opened /\ \A r \in Setters : (pc'[r] = "idle" <=> pc[r] = "idle") /\ (pc'[r] = "store" <=> pc[r] = "store")
    BY <1>1, <1>2 DEF Opened, Stored
  <2>2. \A v \in Waiters : pc'[v] \in {"reading", "terminate"} => pc'[v] = pc[v]
    BY <1>2
  <2>. QED BY <1>1, <2>1, <2>2, ValueKept
<1>10. PointInv'
  <2>1. m_state \in Waiters => pc'[m_state] = "suspended"
    BY <1>2, <1>5 DEF EventInv, PointInv, Listed
  <2>2. m_next[w] \in Waiters => pc'[m_next[w]] = "suspended"
    BY <1>2, <1>3, <1>5 DEF Listed
  <2>3. \A r \in Setters : r # s /\ Walks(r) /\ waiter[r] # NULL => pc'[waiter[r]] = "suspended"
    BY <1>2, <1>5 DEF EventInv, PointInv, Listed, Types
  <2>4. \A v \in Waiters : Listed(v) => m_next[v] = NULL \/ (m_next[v] \in Waiters /\ pc'[m_next[v]] = "suspended")
    BY <1>2, <1>5 DEF EventInv, PointInv, Listed
  <2>5. \A r \in Setters : Walks(r)' /\ waiter'[r] # NULL => pc'[waiter'[r]] = "suspended"
    BY <1>3, <1>4, <1>8, <2>2, <2>3
  <2>6. m_state' = m_state /\ m_next' = m_next
    BY <1>1
  <2>7. \A v \in Waiters : Listed(v)' => Listed(v)
    BY <1>7
  <2>. QED BY <2>1, <2>4, <2>5, <2>6, <2>7 DEF PointInv, Listed
<1>11. OneHead'
  BY <1>1, <1>3, <1>4, <1>7, <1>8 DEF EventInv, OneHead
<1>12. OneWalk'
  <2>1. m_next[w] # NULL => /\ \A r \in Setters : Walks(r) => waiter[r] # m_next[w]
                            /\ \A v \in Waiters : Listed(v) /\ v # w => m_next[v] # m_next[w]
    BY <1>3 DEF EventInv, OneWalk, OneNext
  <2>. QED BY <1>1, <1>4, <1>7, <1>8, <2>1 DEF EventInv, OneWalk
<1>13. OneNext'
  BY <1>1, <1>7 DEF EventInv, OneNext
<1>14. LocalInv'
  <2>1. \A v \in Waiters : pc'[v] = "cas" => pc[v] = "cas"
    BY <1>2
  <2>2. \A r \in Setters : pc'[r] = "submit" => pc[r] = "submit" /\ r # s
    BY <1>2
  <2>3. \A r \in Setters : pc'[r] = "submit" => waiter'[r] \in Waiters /\ next'[r] = m_next'[waiter'[r]]
    BY <1>1, <1>4, <2>2 DEF EventInv, LocalInv
  <2>4. \A v \in Waiters : pc'[v] = "cas" => m_next'[v] = old_value'[v] /\ old_value'[v] # This
    BY <1>1, <2>1 DEF EventInv, LocalInv
  <2>. QED BY <2>3, <2>4 DEF LocalInv
<1>. QED BY <1>6, <1>9, <1>10, <1>11, <1>12, <1>13, <1>14 DEF EventInv

LEMMA SetStateKeeps ==
  ASSUME EventInv, NEW s \in Setters, SetState(s)
  PROVE  EventInv'
<1>1. CASE WalkDone(s)
  <2>1. /\ pc[s] = "walk" /\ waiter[s] = NULL /\ pc' = [pc EXCEPT ![s] = "done"]
        /\ UNCHANGED <<m_state, m_next, m_storage, ev, got, old_value, waiter, next>>
    BY <1>1 DEF WalkDone, Goto
  <2>2. pc'[s] = "done" /\ \A x \in Waiters \cup Setters : x # s => pc'[x] = pc[x]
    BY <2>1 DEF EventInv, Types
  <2>3. Opened /\ \A r \in Setters : (pc'[r] = "idle" <=> pc[r] = "idle") /\ (pc'[r] = "store" <=> pc[r] = "store")
    BY <2>1, <2>2 DEF Opened, Stored
  <2>4. \A v \in Waiters : pc'[v] \in {"reading", "terminate"} => pc'[v] = pc[v]
    BY <2>2, Apart
  <2>5. ValueInv' /\ ResultIsSet'
    BY <2>1, <2>3, <2>4, ValueKept
  <2>6. m_storage' \in {"unset", "stored", "torn", "void"}
    BY <2>1 DEF EventInv, Types
  <2>. QED BY <2>1, <2>5, <2>6, SetterMoves
<1>. QED BY <1>1, ExchangeKeeps, ReadNextKeeps, SubmitAwaiterKeeps DEF SetState

-----------------------------------------------------------------------------
(***************************************************************************)
(* coro::latch: the counter.                                               *)
(***************************************************************************)

LEMMA BegunCount ==
  Cardinality(Begun) \in Nat /\ IsFiniteSet(Begun)
<1>1. Begun \subseteq Setters /\ IsFiniteSet(Setters)
  BY EventAssumption DEF Begun
<1>2. IsFiniteSet(Begun)
  BY <1>1, FS_Subset
<1>. QED BY <1>2, FS_CardinalityType

\* A step of nobody who begins: the counter is as it was.
LEMMA CountKept ==
  ASSUME CountInv, UNCHANGED <<m_count, count, ev, m_storage>>,
         \A s \in Setters : pc'[s] = "idle" <=> pc[s] = "idle",
         \/ Cardinality(Begun) >= Needed
         \/ /\ m_state' # This
            /\ \A s \in Setters : pc'[s] \notin {"exchange", "walk", "submit"}
            /\ \A w \in Waiters : ~Through(w)'
  PROVE  CountInv'
<1>1. Begun' = Begun /\ Needed' = Needed
  BY DEF Begun, Needed
<1>. QED BY <1>1 DEF CountInv

\* One more setter has begun.
LEMMA OneMore ==
  ASSUME NEW s \in Setters, pc[s] = "idle", pc'[s] # "idle", \A r \in Setters : r # s => pc'[r] = pc[r]
  PROVE  Cardinality(Begun)' = Cardinality(Begun) + 1
<1>1. s \notin Begun /\ Begun' = Begun \cup {s}
  BY DEF Begun
<1>2. IsFiniteSet(Begun)
  BY BegunCount
<1>. QED BY <1>1, <1>2, FS_AddElement

\* What opens the way: the event is set, or about to be, or let somebody through.
Open == \/ m_state = This
        \/ \E s \in Setters : pc[s] \in {"exchange", "walk", "submit"}
        \/ \E w \in Waiters : Through(w)

LEMMA WaitCounts ==
  ASSUME LatchInv, NEW w \in Waiters, Wait(w), UNCHANGED latch
  PROVE  LatchInv'
<1> USE Apart
<1>1. EventInv'
  BY WaitKeeps DEF LatchInv
<1>2. \A x \in Setters : pc'[x] = pc[x]
  BY DEF LatchInv, EventInv, Types, Wait, AwaitReady, LoadHead, CasPush, CasFail, Resume, AwaitResume, ResultUnset, ResultThrows,
     ResumeVoid, CopyResult, Goto
<1>3. UNCHANGED <<m_count, count, ev, m_storage>>
  BY DEF Wait, AwaitReady, LoadHead, CasPush, CasFail, Resume, AwaitResume, ResultUnset, ResultThrows, ResumeVoid, CopyResult, latch
<1>4. \A v \in Waiters : v # w => (Through(v)' <=> Through(v))
  BY DEF LatchInv, EventInv, Types, Through, Wait, AwaitReady, LoadHead, CasPush, CasFail, Resume, AwaitResume, ResultUnset, ResultThrows,
     ResumeVoid, CopyResult, Goto
<1>5. Through(w)' => Through(w) \/ m_state = This
  BY DEF LatchInv, EventInv, Types, Through, Wait, AwaitReady, LoadHead, CasPush, CasFail, Resume, AwaitResume, ResultUnset, ResultThrows,
     ResumeVoid, CopyResult, Goto
<1>6. m_state' = This => m_state = This
  BY DEF Wait, AwaitReady, LoadHead, CasPush, CasFail, Resume, AwaitResume, ResultUnset, ResultThrows,
     ResumeVoid, CopyResult
<1>7. Open' => Open
  BY <1>2, <1>4, <1>5, <1>6 DEF Open
<1>8. Open => Cardinality(Begun) >= Needed
  BY DEF LatchInv, CountInv, Open
<1>9. CASE Open
  BY <1>1, <1>2, <1>3, <1>8, <1>9, CountKept DEF LatchInv
<1>10. CASE ~Open'
  <2>1. /\ m_state' # This
        /\ \A s \in Setters : pc'[s] \notin {"exchange", "walk", "submit"}
        /\ \A v \in Waiters : ~Through(v)'
    BY <1>10 DEF Open
  <2>. QED BY <1>1, <1>2, <1>3, <2>1, CountKept DEF LatchInv
<1>. QED BY <1>7, <1>9, <1>10

LEMMA SetStateCounts ==
  ASSUME LatchInv, NEW s \in Setters, SetState(s), UNCHANGED latch
  PROVE  LatchInv'
<1> USE Apart
<1>1. EventInv'
  BY SetStateKeeps DEF LatchInv
<1>2. UNCHANGED <<m_count, count, ev, m_storage>>
  BY DEF SetState, Exchange, ReadNext, SubmitAwaiter, WalkDone, latch
<1>3. pc[s] \in {"exchange", "walk", "submit"}
  BY DEF SetState, Exchange, ReadNext, SubmitAwaiter, WalkDone, Goto
<1>4. Cardinality(Begun) >= Needed
  BY <1>3 DEF LatchInv, CountInv
<1>5. \A r \in Setters : pc'[r] = "idle" <=> pc[r] = "idle"
  <2>1. pc[s] = "submit" => waiter[s] \in Waiters
    BY DEF LatchInv, EventInv, LocalInv
  <2>2. CASE SubmitAwaiter(s)
    BY <1>3, <2>1, <2>2 DEF SubmitAwaiter, LatchInv, EventInv, Types
  <2>3. CASE Exchange(s) \/ ReadNext(s) \/ WalkDone(s)
    BY <1>3, <2>3 DEF Exchange, ReadNext, WalkDone, Goto, LatchInv, EventInv, Types
  <2>. QED BY <2>2, <2>3 DEF SetState
<1>. QED BY <1>1, <1>2, <1>4, <1>5, CountKept DEF LatchInv

\* One setter that has begun is at least one.
LEMMA AtLeastOne ==
  ASSUME NEW s \in Setters, pc[s] # "idle"
  PROVE  Cardinality(Begun) >= 1
<1>1. Begun # {}
  BY DEF Begun
<1>. QED BY <1>1, BegunCount, FS_EmptySet

\* set() of a bare event overwrites the container ...
LEMMA BeginStoreCounts ==
  ASSUME LatchInv, NEW s \in Setters, count = NoLatch, BeginStore(s), UNCHANGED latch
  PROVE  LatchInv'
<1> USE Apart
<1>1. /\ pc[s] = "idle" /\ pc' = [pc EXCEPT ![s] = "store"]
      /\ m_storage' = IF Storing THEN "torn" ELSE m_storage
      /\ UNCHANGED <<m_state, m_next, ev, got, old_value, waiter, next, m_count, count>>
  BY DEF BeginStore, Goto, latch
<1>2. /\ pc'[s] = "store" /\ (\A r \in Setters : r # s => pc'[r] = pc[r]) /\ \A w \in Waiters : pc'[w] = pc[w]
  BY <1>1 DEF LatchInv, EventInv, Types
<1>3. /\ \A r \in Setters : Stored(r)' <=> Stored(r)
      /\ \A w \in Waiters : Through(w)' <=> Through(w)
      /\ (Dead' <=> Dead) /\ (SetAgain => SetAgain') /\ (Storing => SetAgain')
  BY <1>1, <1>2 DEF Stored, Through, Dead, SetAgain, Storing
<1>4. m_storage # "void" /\ m_storage' # "void" /\ m_storage' \in {"unset", "stored", "torn", "void"}
  BY <1>1 DEF LatchInv, CountInv, EventInv, Types
<1>5. ValueInv'
  <2>1. Opened' <=> Opened
    BY <1>1, <1>3 DEF Opened
  <2>. QED BY <1>1, <1>3, <1>4, <2>1 DEF LatchInv, EventInv, ValueInv
<1>6. ResultIsSet'
  BY <1>1, <1>3 DEF LatchInv, EventInv, ResultIsSet
<1>7. EventInv'
  BY <1>1, <1>4, <1>5, <1>6, SetterMoves DEF LatchInv, Walks
<1>8. Needed' \in {0, 1} /\ count' = NoLatch
  BY <1>1 DEF Needed, LatchInv, EventInv, Types
<1>9. Cardinality(Begun)' >= Needed'
  BY <1>1, <1>2, <1>8, OneMore, BegunCount
<1>. QED BY <1>4, <1>7, <1>8, <1>9 DEF LatchInv, CountInv

\* ... and has stored the value.
LEMMA StoreValueCounts ==
  ASSUME LatchInv, NEW s \in Setters, count = NoLatch, StoreValue(s), UNCHANGED latch
  PROVE  LatchInv'
<1> USE Apart
<1>1. /\ pc[s] = "store" /\ pc' = [pc EXCEPT ![s] = "exchange"]
      /\ m_storage' = IF m_storage = "torn" THEN "torn" ELSE "stored"
      /\ UNCHANGED <<m_state, m_next, ev, got, old_value, waiter, next, m_count, count>>
  BY DEF StoreValue, Goto, latch
<1>2. /\ pc'[s] = "exchange" /\ (\A r \in Setters : r # s => pc'[r] = pc[r]) /\ \A w \in Waiters : pc'[w] = pc[w]
  BY <1>1 DEF LatchInv, EventInv, Types
<1>3. (Dead' <=> Dead) /\ (SetAgain <=> SetAgain') /\ Stored(s)'
  BY <1>1, <1>2 DEF Stored, Dead, SetAgain
<1>4. m_storage' \in {"stored", "torn"}
  BY <1>1
<1>5. ValueInv'
  BY <1>1, <1>3, <1>4 DEF LatchInv, EventInv, ValueInv
<1>6. ResultIsSet'
  BY <1>1, <1>3 DEF LatchInv, EventInv, ResultIsSet
<1>7. EventInv'
  BY <1>1, <1>4, <1>5, <1>6, SetterMoves DEF LatchInv, Walks
<1>8. Begun' = Begun /\ Cardinality(Begun) >= 1 /\ Cardinality(Begun) \in Nat
  <2>1. Begun' = Begun
    BY <1>1, <1>2 DEF Begun
  <2>. QED BY <1>1, <2>1, AtLeastOne, BegunCount
<1>9. Needed' \in {0, 1} /\ count' = NoLatch
  BY <1>1 DEF Needed, LatchInv, EventInv, Types
<1>10. Cardinality(Begun)' >= Needed'
  BY <1>8, <1>9
<1>. QED BY <1>4, <1>7, <1>9, <1>10 DEF LatchInv, CountInv

\* How many count_down() calls it takes: the one that finds m_count at 1, or
\* below, is not too early.
LEMMA NeededIs ==
  ASSUME NEW b \in Nat, count \in 0 .. (2 * Int64Max + 1), ev.initial_set \in BOOLEAN
  PROVE  Needed \in Nat /\ (ToInt64(count) - b <= 1 => b + 1 >= Needed)
<1>1. Int64Max \in Nat
  BY CountAssumption
<1>2. CASE ev.initial_set
  BY <1>1, <1>2 DEF Needed
<1>3. CASE ~ev.initial_set /\ (count = NoLatch \/ ToInt64(count) < 0)
  <2>1. Needed = 1
    BY <1>3 DEF Needed
  <2>. QED BY <1>1, <2>1
<1>4. CASE ~ev.initial_set /\ ~(count = NoLatch \/ ToInt64(count) < 0)
  <2>1. Needed = count
    BY <1>4 DEF Needed
  <2>2. ToInt64(count) = count
    BY <1>1, <1>4 DEF ToInt64
  <2>. QED BY <1>1, <2>1, <2>2
<1>. QED BY <1>2, <1>3, <1>4

\* count_down().
LEMMA CountDownCounts ==
  ASSUME LatchInv, NEW s \in Setters, count # NoLatch, CountDown(s)
  PROVE  LatchInv'
<1> USE Apart
<1>1. PICK l \in {"exchange", "done"} :
      /\ pc[s] = "idle" /\ pc' = [pc EXCEPT ![s] = l] /\ (l = "exchange" <=> m_count <= 1)
      /\ m_count' = m_count - 1
      /\ UNCHANGED <<m_state, m_next, m_storage, ev, got, old_value, waiter, next, count>>
  BY DEF CountDown, Goto
<1>2. /\ pc'[s] = l /\ \A r \in Setters : r # s => pc'[r] = pc[r]
      /\ \A w \in Waiters : pc'[w] = pc[w]
  BY <1>1 DEF LatchInv, EventInv, Types
<1>3. count \in 0 .. (2 * Int64Max + 1) /\ m_count = ToInt64(count) - Cardinality(Begun) /\ m_storage = "void"
  BY DEF LatchInv, CountInv
<1>4. EventInv'
  <2>1. (Dead' <=> Dead) /\ (SetAgain => SetAgain') /\ ~Storing'
    BY <1>1, <1>2, <1>3 DEF Dead, SetAgain, Storing, LatchInv, EventInv, ValueInv
  <2>2. ValueInv'
    BY <1>1, <1>2, <1>3, <2>1 DEF LatchInv, EventInv, ValueInv
  <2>3. ResultIsSet'
    BY <1>1, <2>1 DEF LatchInv, EventInv, ResultIsSet
  <2>4. ~Walks(s) /\ m_storage' \in {"unset", "stored", "torn", "void"}
    BY <1>1, <1>3 DEF Walks
  <2>. QED BY <1>1, <2>2, <2>3, <2>4, SetterMoves DEF LatchInv
<1>5. Cardinality(Begun)' = Cardinality(Begun) + 1 /\ Cardinality(Begun) \in Nat
  BY <1>1, <1>2, OneMore, BegunCount
<1>6. /\ Needed' = Needed /\ Needed \in Nat
      /\ ToInt64(count) - Cardinality(Begun) <= 1 => Cardinality(Begun) + 1 >= Needed
  <2>1. ev.initial_set \in BOOLEAN
    BY DEF LatchInv, EventInv, Types
  <2>2. Needed' = Needed
    BY <1>1 DEF Needed, ToInt64
  <2>. QED BY <1>3, <1>5, <2>1, <2>2, NeededIs
<1>7. ToInt64(count) \in Int
  BY <1>3, CountAssumption DEF ToInt64
<1>8. m_count' = ToInt64(count)' - Cardinality(Begun)'
  <2>1. ToInt64(count)' = ToInt64(count)
    BY <1>1 DEF ToInt64
  <2>. QED BY <1>1, <1>3, <1>5, <1>7, <2>1
<1>9. Open' => Open \/ l = "exchange"
  BY <1>1, <1>2 DEF Open, Through
<1>10. Open => Cardinality(Begun) >= Needed
  BY DEF LatchInv, CountInv, Open
<1>11. l = "exchange" => Cardinality(Begun) + 1 >= Needed
  BY <1>1, <1>3, <1>6
<1>12. Open' => Cardinality(Begun)' >= Needed'
  BY <1>5, <1>6, <1>9, <1>10, <1>11
<1>13. CountInv'
  BY <1>1, <1>3, <1>8, <1>12 DEF CountInv, Open
<1>. QED BY <1>4, <1>13 DEF LatchInv

LEMMA LatchStarts == BareInit \/ LatchInit => LatchInv
<1>1. SUFFICES ASSUME BareInit \/ LatchInit PROVE LatchInv
  OBVIOUS
<1> USE Apart
<1>2. /\ m_next = [w \in Waiters |-> NULL] /\ got = [w \in Waiters |-> "nothing"]
      /\ pc = [x \in Waiters \cup Setters |-> "idle"] /\ old_value = [w \in Waiters |-> NULL]
      /\ waiter = [s \in Setters |-> NULL] /\ next = [s \in Setters |-> NULL]
      /\ m_storage \in {"unset", "void"} /\ ev \in [initial_set : BOOLEAN, pod : BOOLEAN]
      /\ m_state \in {NULL, This} /\ (m_state = This <=> ev.initial_set)
  <2>1. CASE BareInit
    BY <2>1 DEF BareInit, Init
  <2>2. CASE LatchInit
    <3>1. (count <= 0) \in BOOLEAN
      OBVIOUS
    <3>. QED BY <2>2, <3>1 DEF LatchInit
  <2>. QED BY <1>1, <2>1, <2>2
<1>3. \A x \in Waiters \cup Setters : pc[x] = "idle"
  BY <1>2
<1>4. Types
  BY <1>2, <1>3 DEF Types
<1>5. PointInv /\ OneHead /\ OneWalk /\ OneNext /\ LocalInv
  BY <1>2, <1>3 DEF PointInv, OneHead, OneWalk, OneNext, LocalInv, Walks, Listed
<1>6. ValueInv /\ ResultIsSet
  <2>1. Opened => ev.initial_set
    BY <1>2, <1>3 DEF Opened, Stored, Through
  <2>2. ~Storing /\ ~Dead
    BY <1>3 DEF Storing, Dead
  <2>. QED BY <1>2, <1>3, <2>1, <2>2 DEF ValueInv, ResultIsSet
<1>7. CountInv
  <2>1. Begun = {}
    BY <1>3 DEF Begun
  <2>2. Cardinality(Begun) = 0
    BY <2>1, FS_EmptySet
  <2>3. Open => m_state = This
    BY <1>3 DEF Open, Through
  <2>4. m_state = This => Needed = 0
    BY <1>2 DEF Needed
  <2>5. Open => Cardinality(Begun) >= Needed
    BY <2>2, <2>3, <2>4
  <2>6. CASE BareInit
    BY <2>5, <2>6 DEF BareInit, Init, CountInv, Open
  <2>7. CASE LatchInit
    <3>1. count \in 0 .. (2 * Int64Max + 1) /\ count # NoLatch /\ m_count = ToInt64(count) /\ m_storage = "void"
      BY <2>7, CountAssumption DEF LatchInit
    <3>2. ToInt64(count) - 0 = ToInt64(count)
      BY <3>1, CountAssumption DEF ToInt64
    <3>. QED BY <2>2, <2>5, <3>1, <3>2 DEF CountInv, Open
  <2>. QED BY <1>1, <2>6, <2>7
<1>. QED BY <1>4, <1>5, <1>6, <1>7 DEF LatchInv, EventInv

LEMMA LatchStep == LatchInv /\ [LatchNext]_latchVars => LatchInv'
<1>1. SUFFICES ASSUME LatchInv, [LatchNext]_latchVars PROVE LatchInv'
  OBVIOUS
<1>2. ASSUME NEW w \in Waiters, Wait(w), UNCHANGED latch PROVE LatchInv'
  BY <1>1, <1>2, WaitCounts
<1>3. ASSUME NEW s \in Setters, SetterStep(s) PROVE LatchInv'
  BY <1>1, <1>3, BeginStoreCounts, StoreValueCounts, CountDownCounts, SetStateCounts DEF SetterStep
<1>4. CASE UNCHANGED latchVars
  BY <1>1, <1>4 DEF latchVars, vars, latch, LatchInv, EventInv, Types, PointInv, OneHead, OneWalk, OneNext,
     LocalInv, ValueInv, ResultIsSet, CountInv, Begun, Needed, Walks, Listed, Through, Opened, Stored, Storing,
     SetAgain, Dead
<1>. QED BY <1>1, <1>2, <1>3, <1>4 DEF LatchNext, WaiterRuns, SetterRuns, Terminated, latchVars

-----------------------------------------------------------------------------
(***************************************************************************)
(* The theorems.                                                           *)
(***************************************************************************)

\* The pointers of the list, the value and the counter stay consistent,
\* whatever waits, sets and count_downs overlap (event.cpp, latch.hpp).
THEOREM LatchInvariant == LatchSpec => []LatchInv
BY LatchStarts, LatchStep, PTL DEF LatchSpec

\* set() never follows or submits a dead awaiter, for any number of waiters
\* that push and of set() calls that overlap (event.cpp 35).
THEOREM WalksAreSafe == LatchSpec => []NoDanglingWalk
<1>1. LatchInv => NoDanglingWalk
  BY DEF LatchInv, EventInv, Types, PointInv, Walks, Listed, NoDanglingWalk
<1>. QED BY <1>1, LatchInvariant, PTL

\* co_await yields what set() stored: nothing else for an event that was not
\* born set, and nothing spoiled unless set() was called again (event.hpp 57,
\* 117-138, container.hpp 38-97).
THEOREM ResultsAreSet == LatchSpec => []ResultIsSet
<1>1. LatchInv => ResultIsSet
  BY DEF LatchInv, EventInv
<1>. QED BY <1>1, LatchInvariant, PTL

-----------------------------------------------------------------------------
(***************************************************************************)
(* An event, or a latch, is a gate.                                        *)
(***************************************************************************)

\* A step of one waiter, as the gate sees it.
LEMMA AtMoves ==
  ASSUME NEW w \in Waiters, w \in DOMAIN pc, NEW l, pc'[w] = l,
         \A v \in Waiters : v # w => pc'[v] = pc[v]
  PROVE  At' = [At EXCEPT ![w] = Seen(l)]
BY DEF At

LEMMA SeenAs ==
  /\ Seen("idle") = "outside" /\ Seen("done") = "returned"
  /\ \A l \in {"resume", "queued", "reading", "terminate"} : Seen(l) = "released"
  /\ \A l \in {"load", "cas", "suspended", "count", "head"} : Seen(l) = "waiting"
BY DEF Seen

LEMMA MissingKept ==
  ASSUME UNCHANGED <<count, ev>>, \A s \in Setters : pc'[s] = "idle" <=> pc[s] = "idle"
  PROVE  Missing' = Missing
<1>1. Begun' = Begun /\ Needed' = Needed
  BY DEF Begun, Needed, ToInt64
<1>. QED BY <1>1 DEF Missing

\* A waiter that was let through came after all the calls.
LEMMA OpenMissing ==
  ASSUME LatchInv, Open
  PROVE  Missing = 0
BY DEF LatchInv, CountInv, Open, Missing

LEMMA GateWait ==
  ASSUME LatchInv, NEW w \in Waiters, Wait(w), UNCHANGED latch
  PROVE  LatchGate!GateNext \/ UNCHANGED <<Missing, At>>
<1> USE Apart
<1>1. w \in DOMAIN pc /\ w \notin Setters /\ DOMAIN pc = Waiters \cup Setters
  BY DEF LatchInv, EventInv, Types
<1>2. PICK l : pc' = [pc EXCEPT ![w] = l]
  BY DEF Wait, AwaitReady, LoadHead, CasPush, CasFail, Resume, AwaitResume, ResultUnset, ResultThrows,
     ResumeVoid, CopyResult, Goto
<1>3. pc'[w] = l /\ (\A x \in Waiters \cup Setters : x # w => pc'[x] = pc[x])
  BY <1>1, <1>2
<1>4. Missing' = Missing
  <2>1. UNCHANGED ev
    BY DEF Wait, AwaitReady, LoadHead, CasPush, CasFail, Resume, AwaitResume, ResultUnset, ResultThrows,
       ResumeVoid, CopyResult
  <2>. QED BY <1>3, <2>1, MissingKept DEF latch
<1>5. At' = [At EXCEPT ![w] = Seen(l)] /\ At[w] = Seen(pc[w])
  <2>1. At' = [At EXCEPT ![w] = Seen(l)]
    BY <1>1, <1>3, AtMoves
  <2>. QED BY <2>1 DEF At
<1>6. CASE AwaitReady(w) /\ m_state # This
  <2>1. pc[w] = "idle" /\ l = "load"
    BY <1>1, <1>3, <1>6 DEF AwaitReady, Goto
  <2>2. LatchGate!Arrive(w)
    BY <1>4, <1>5, <2>1, SeenAs DEF LatchGate!Arrive
  <2>. QED BY <2>2 DEF LatchGate!GateNext
<1>7. CASE (AwaitReady(w) \/ LoadHead(w)) /\ m_state = This
  <2>1. pc[w] \in {"idle", "load"} /\ l = "resume"
    BY <1>1, <1>3, <1>7 DEF AwaitReady, LoadHead, Goto
  <2>2. Missing = 0
    BY <1>7, OpenMissing DEF Open
  <2>3. LatchGate!Release(w)
    BY <1>4, <1>5, <2>1, <2>2, SeenAs DEF LatchGate!Release, LatchGate!LetGo
  <2>. QED BY <2>3 DEF LatchGate!GateNext
<1>8. CASE (LoadHead(w) /\ m_state # This) \/ CasPush(w) \/ CasFail(w)
  <2>1. pc[w] \in {"load", "cas"} /\ l \in {"load", "cas", "suspended"}
    BY <1>1, <1>3, <1>8 DEF LoadHead, CasPush, CasFail, Goto
  <2>2. Seen(l) = At[w]
    BY <1>5, <2>1, SeenAs
  <2>3. At' = At
    BY <1>5, <2>2 DEF At
  <2>. QED BY <1>4, <2>3
<1>9. CASE AwaitResume(w) \/ ResultThrows(w)
  <2>1. pc[w] \in {"resume", "queued"} /\ l \in {"reading", "terminate"}
    BY <1>1, <1>3, <1>9 DEF AwaitResume, ResultThrows
  <2>2. Seen(l) = At[w]
    BY <1>5, <2>1, SeenAs
  <2>3. At' = At
    BY <1>5, <2>2 DEF At
  <2>. QED BY <1>4, <2>3
<1>10. CASE ResultUnset(w) \/ ResumeVoid(w) \/ CopyResult(w)
  <2>1. pc[w] \in {"resume", "queued", "reading"} /\ l = "done"
    BY <1>1, <1>3, <1>10 DEF ResultUnset, ResumeVoid, CopyResult, Goto
  <2>2. LatchGate!Return(w)
    BY <1>4, <1>5, <2>1, SeenAs DEF LatchGate!Return
  <2>. QED BY <2>2 DEF LatchGate!GateNext
<1>. QED BY <1>6, <1>7, <1>8, <1>9, <1>10 DEF Wait, Resume

LEMMA NeededNat == LatchInv => Needed \in Nat
<1>1. SUFFICES ASSUME LatchInv PROVE Needed \in Nat
  OBVIOUS
<1>2. ev.initial_set \in BOOLEAN
  BY <1>1 DEF LatchInv, EventInv, Types
<1>3. CASE count = NoLatch
  BY <1>2, <1>3 DEF Needed
<1>4. CASE count # NoLatch
  BY <1>1, <1>2, <1>4, BegunCount, NeededIs DEF LatchInv, CountInv
<1>. QED BY <1>3, <1>4

\* A set() or count_down() begins: the gate has one call less to wait for.
LEMMA GateCall ==
  ASSUME LatchInv, NEW s \in Setters, pc[s] = "idle", NEW l \in {"store", "exchange", "done"},
         pc' = [pc EXCEPT ![s] = l], UNCHANGED <<count, ev>>
  PROVE  LatchGate!GateNext \/ UNCHANGED <<Missing, At>>
<1> USE Apart
<1>1. /\ pc'[s] = l /\ (\A r \in Setters : r # s => pc'[r] = pc[r])
      /\ \A w \in Waiters : pc'[w] = pc[w]
  BY DEF LatchInv, EventInv, Types
<1>2. At' = At
  BY <1>1 DEF At
<1>3. Cardinality(Begun)' = Cardinality(Begun) + 1 /\ Cardinality(Begun) \in Nat
  BY <1>1, OneMore, BegunCount
<1>4. Needed' = Needed /\ Needed \in Nat
  BY NeededNat DEF Needed, ToInt64
<1>5. Missing \in Nat /\ ((Missing > 0 /\ Missing' = Missing - 1) \/ Missing' = Missing)
  BY <1>3, <1>4 DEF Missing
<1>6. LatchGate!Call \/ Missing' = Missing
  BY <1>2, <1>5 DEF LatchGate!Call
<1>. QED BY <1>2, <1>6 DEF LatchGate!GateNext

LEMMA GateSet ==
  ASSUME LatchInv, NEW s \in Setters, SetState(s), UNCHANGED latch
  PROVE  LatchGate!GateNext \/ UNCHANGED <<Missing, At>>
<1> USE Apart
<1>1. DOMAIN pc = Waiters \cup Setters /\ UNCHANGED <<count, ev>>
  BY DEF LatchInv, EventInv, Types, latch, SetState, Exchange, ReadNext, SubmitAwaiter, WalkDone
<1>2. CASE Exchange(s) \/ ReadNext(s) \/ WalkDone(s)
  <2>1. /\ \A r \in Setters : pc'[r] = "idle" <=> pc[r] = "idle"
        /\ \A w \in Waiters : pc'[w] = pc[w]
    BY <1>1, <1>2 DEF Exchange, ReadNext, WalkDone, Goto
  <2>2. At' = At
    BY <2>1 DEF At
  <2>. QED BY <1>1, <2>1, <2>2, MissingKept
<1>3. CASE SubmitAwaiter(s)
  <2>1. waiter[s] \in Waiters /\ pc[waiter[s]] = "suspended" /\ pc[s] = "submit"
    BY <1>3 DEF SubmitAwaiter, LatchInv, EventInv, LocalInv, PointInv, Walks, Listed
  <2>2. pc' = [pc EXCEPT ![s] = "walk", ![waiter[s]] = "queued"]
    BY <1>3 DEF SubmitAwaiter
  <2>3. /\ pc'[waiter[s]] = "queued" /\ (\A v \in Waiters : v # waiter[s] => pc'[v] = pc[v])
        /\ \A r \in Setters : pc'[r] = "idle" <=> pc[r] = "idle"
    BY <1>1, <2>1, <2>2
  <2>4. At' = [At EXCEPT ![waiter[s]] = "released"] /\ At[waiter[s]] = "waiting"
    <3>1. At' = [At EXCEPT ![waiter[s]] = Seen("queued")]
      BY <1>1, <2>1, <2>3, AtMoves
    <3>. QED BY <2>1, <3>1, SeenAs DEF At
  <2>5. Missing = 0 /\ Missing' = Missing
    <3>1. Missing = 0
      BY <2>1, OpenMissing DEF Open
    <3>. QED BY <1>1, <2>3, <3>1, MissingKept
  <2>6. LatchGate!Release(waiter[s])
    BY <2>4, <2>5 DEF LatchGate!Release, LatchGate!LetGo
  <2>. QED BY <2>1, <2>6 DEF LatchGate!GateNext
<1>. QED BY <1>2, <1>3 DEF SetState

LEMMA GateStep ==
  LatchInv /\ [LatchNext]_latchVars => [LatchGate!GateNext]_(LatchGate!gateVars)
<1>1. SUFFICES ASSUME LatchInv, [LatchNext]_latchVars
               PROVE  LatchGate!GateNext \/ UNCHANGED <<Missing, At>>
  BY DEF LatchGate!gateVars
<1>2. ASSUME NEW w \in Waiters, Wait(w), UNCHANGED latch PROVE LatchGate!GateNext \/ UNCHANGED <<Missing, At>>
  BY <1>1, <1>2, GateWait
<1>3. ASSUME NEW s \in Setters, SetterStep(s) PROVE LatchGate!GateNext \/ UNCHANGED <<Missing, At>>
  <2>1. CASE BeginStore(s) /\ UNCHANGED latch
    <3>1. pc[s] = "idle" /\ pc' = [pc EXCEPT ![s] = "store"] /\ UNCHANGED <<count, ev>>
      BY <2>1 DEF BeginStore, Goto, latch
    <3>. QED BY <1>1, <3>1, GateCall
  <2>2. CASE CountDown(s)
    <3>1. PICK l \in {"exchange", "done"} : pc[s] = "idle" /\ pc' = [pc EXCEPT ![s] = l] /\ UNCHANGED <<count, ev>>
      BY <2>2 DEF CountDown, Goto
    <3>. QED BY <1>1, <3>1, GateCall
  <2>3. CASE SetState(s) /\ UNCHANGED latch
    BY <1>1, <2>3, GateSet
  <2>4. CASE StoreValue(s) /\ UNCHANGED latch
    <3>1. pc[s] = "store" /\ pc' = [pc EXCEPT ![s] = "exchange"] /\ UNCHANGED <<count, ev>>
      BY <2>4 DEF StoreValue, Goto, latch
    <3>2. /\ \A r \in Setters : pc'[r] = "idle" <=> pc[r] = "idle"
          /\ \A w \in Waiters : pc'[w] = pc[w]
      BY <1>1, <3>1, Apart DEF LatchInv, EventInv, Types
    <3>3. At' = At
      BY <3>2 DEF At
    <3>. QED BY <3>1, <3>2, <3>3, MissingKept
  <2>. QED BY <1>3, <2>1, <2>2, <2>3, <2>4 DEF SetterStep
<1>4. CASE UNCHANGED latchVars
  <2>1. UNCHANGED <<pc, count, ev>>
    BY <1>4 DEF latchVars, vars, latch
  <2>2. At' = At /\ Missing' = Missing
    BY <2>1, MissingKept DEF At
  <2>. QED BY <2>2
<1>. QED BY <1>1, <1>2, <1>3, <1>4 DEF LatchNext, WaiterRuns, SetterRuns, Terminated, latchVars

\* An event or a latch implements the gate: nobody is released before set(), or
\* before count_down() was called as often as the count says, nobody is released
\* twice, and the way stays open (latch.hpp 48-52, event.cpp 23-38).
THEOREM LatchImplementsGate == LatchSpec => LatchIsGate
<1>1. BareInit \/ LatchInit => LatchGate!GateInit
  <2>1. SUFFICES ASSUME BareInit \/ LatchInit PROVE LatchGate!GateInit
    OBVIOUS
  <2>2. pc = [x \in Waiters \cup Setters |-> "idle"] 
    BY <2>1 DEF BareInit, LatchInit, Init
  <2>3. At = [w \in Waiters |-> "outside"]
    BY <2>2, SeenAs DEF At
  <2>4. Missing \in Nat
    BY <2>1, LatchStarts, NeededNat, BegunCount DEF Missing
  <2>. QED BY <2>3, <2>4 DEF LatchGate!GateInit
<1>. QED BY <1>1, GateStep, LatchInvariant, PTL DEF LatchSpec, LatchIsGate, LatchGate!GateSpec

-----------------------------------------------------------------------------
(***************************************************************************)
(* Nobody is left behind.                                                  *)
(***************************************************************************)

\* Something points to everybody who is in a list, ...
HeldInv == \A w \in Waiters : Listed(w) =>
  \/ m_state = w
  \/ \E s \in Setters : Walks(s) /\ waiter[s] = w
  \/ \E v \in Waiters : Listed(v) /\ m_next[v] = w

\* ... and the lists have no cycle: an awaiter is above the one it points to.
Ranked(rank) == \A w \in Waiters : Listed(w) /\ m_next[w] # NULL => rank[m_next[w]] < rank[w]
RankInv == \E b \in Nat : \E rank \in [Waiters -> 0 .. b] : Ranked(rank)

KeptInv == HeldInv /\ RankInv

\* A step that takes nobody in or out of a list.
LEMMA KeptSame ==
  ASSUME KeptInv, UNCHANGED <<m_state, waiter>>,
         \A s \in Setters : waiter[s] # NULL => (Walks(s)' <=> Walks(s)),
         \A w \in Waiters : w # NULL /\ (Listed(w)' <=> Listed(w)) /\ (Listed(w) => m_next'[w] = m_next[w])
  PROVE  KeptInv'
<1>1. HeldInv'
  BY DEF KeptInv, HeldInv
<1>2. PICK b, rank : b \in Nat /\ rank \in [Waiters -> 0 .. b] /\ Ranked(rank)
  BY DEF KeptInv, RankInv
<1>3. Ranked(rank)'
  BY <1>2 DEF Ranked
<1>4. RankInv'
  BY <1>2, <1>3 DEF RankInv
<1>. QED BY <1>1, <1>4 DEF KeptInv

LEMMA KeptPush ==
  ASSUME EventInv, KeptInv, NEW w \in Waiters, CasPush(w)
  PROVE  KeptInv'
<1> USE Apart
<1>1. /\ pc[w] = "cas" /\ pc' = [pc EXCEPT ![w] = "suspended"] /\ m_state' = w
      /\ m_next[w] = m_state /\ m_state # This /\ UNCHANGED <<m_next, waiter>>
  BY DEF CasPush, Goto, EventInv, LocalInv
<1>2. pc'[w] = "suspended" /\ \A x \in Waiters \cup Setters : x # w => pc'[x] = pc[x]
  BY <1>1 DEF EventInv, Types
<1>3. /\ \A s \in Setters : Walks(s)' <=> Walks(s)
      /\ \A v \in Waiters : (Listed(v)' <=> Listed(v) \/ v = w) /\ (Listed(v) => v # w)
  BY <1>1, <1>2 DEF Walks, Listed
<1>4. \A v \in Waiters : Listed(v) => m_next[v] # w
  BY <1>3 DEF EventInv, PointInv
<1>5. m_state = NULL \/ (m_state \in Waiters /\ m_state # w)
  BY <1>1, <1>3 DEF EventInv, Types, PointInv
<1>6. HeldInv'
  <2>1. ASSUME NEW v \in Waiters, Listed(v)'
        PROVE  m_state' = v \/ (\E s \in Setters : Walks(s)' /\ waiter'[s] = v)
               \/ (\E u \in Waiters : Listed(u)' /\ m_next'[u] = v)
    <3>1. CASE v = w
      BY <1>1, <3>1
    <3>2. CASE v # w /\ m_state = v
      BY <1>1, <1>3, <3>2
    <3>3. CASE v # w /\ m_state # v
      BY <1>1, <1>3, <2>1, <3>3 DEF KeptInv, HeldInv
    <3>. QED BY <3>1, <3>2, <3>3
  <2>. QED BY <2>1 DEF HeldInv
<1>7. PICK b, rank : b \in Nat /\ rank \in [Waiters -> 0 .. b] /\ Ranked(rank)
  BY DEF KeptInv, RankInv
<1>. DEFINE n == IF m_state = NULL THEN 0 ELSE rank[m_state] + 1
<1>8. n \in 0 .. (b + 1) /\ (m_state # NULL => rank[m_state] < n)
  BY <1>5, <1>7
<1>9. PICK rk \in [Waiters -> 0 .. (b + 1)] : rk[w] = n /\ \A v \in Waiters : v # w => rk[v] = rank[v]
  <2>1. [rank EXCEPT ![w] = n] \in [Waiters -> 0 .. (b + 1)]
    BY <1>7, <1>8
  <2>. QED BY <1>7, <2>1
<1>10. ASSUME NEW v \in Waiters, Listed(v)', m_next'[v] # NULL
       PROVE  rk[m_next'[v]] < rk[v]
  <2>1. CASE v = w
    BY <1>1, <1>5, <1>8, <1>9, <1>10, <2>1
  <2>2. CASE v # w
    <3>1. Listed(v) /\ m_next[v] \in Waiters /\ m_next[v] # w
      BY <1>1, <1>3, <1>4, <1>10, <2>2 DEF EventInv, PointInv
    <3>2. rank[m_next[v]] < rank[v]
      BY <1>1, <1>7, <1>10, <3>1 DEF Ranked
    <3>. QED BY <1>1, <1>9, <2>2, <3>1, <3>2
  <2>. QED BY <2>1, <2>2
<1>11. Ranked(rk)'
  BY <1>10 DEF Ranked
<1>12. RankInv'
  <2>1. b + 1 \in Nat
    BY <1>7
  <2>. QED BY <1>9, <1>11, <2>1 DEF RankInv
<1>. QED BY <1>6, <1>12 DEF KeptInv

LEMMA KeptWait ==
  ASSUME EventInv, KeptInv, NEW w \in Waiters, Wait(w)
  PROVE  KeptInv'
<1> USE Apart
<1>1. CASE CasPush(w)
  BY <1>1, KeptPush
<1>2. CASE AwaitReady(w) \/ LoadHead(w) \/ CasFail(w) \/ Resume(w)
  <2>1. PICK l \in {"load", "cas", "resume", "reading", "terminate", "done"} :
           pc[w] # "suspended" /\ pc' = [pc EXCEPT ![w] = l]
    BY <1>2 DEF AwaitReady, LoadHead, CasFail, Resume, AwaitResume, ResultUnset, ResultThrows, ResumeVoid,
       CopyResult, Goto
  <2>2. UNCHANGED <<m_state, waiter>> /\ \A v \in Waiters : v # w => m_next'[v] = m_next[v]
    BY <1>2 DEF AwaitReady, LoadHead, CasFail, Resume, AwaitResume, ResultUnset, ResultThrows, ResumeVoid,
       CopyResult, EventInv, Types
  <2>3. /\ pc'[w] = l /\ (\A x \in Waiters : x # w => pc'[x] = pc[x])
        /\ \A s \in Setters : pc'[s] = pc[s]
    BY <2>1 DEF EventInv, Types
  <2>4. \A v \in Waiters : v # NULL /\ (Listed(v)' <=> Listed(v)) /\ (Listed(v) => m_next'[v] = m_next[v])
    BY <2>1, <2>2, <2>3 DEF Listed
  <2>5. \A s \in Setters : waiter[s] # NULL => (Walks(s)' <=> Walks(s))
    BY <2>3 DEF Walks
  <2>. QED BY <2>2, <2>4, <2>5, KeptSame
<1>. QED BY <1>1, <1>2 DEF Wait

\* A setter begins, reads a pointer or is through.
LEMMA KeptSetter ==
  ASSUME EventInv, KeptInv, NEW s \in Setters, NEW l, pc' = [pc EXCEPT ![s] = l],
         waiter[s] # NULL => (pc[s] \in {"walk", "submit"} <=> l \in {"walk", "submit"}),
         UNCHANGED <<m_state, m_next, waiter>>
  PROVE  KeptInv'
<1> USE Apart
<1>1. /\ pc'[s] = l /\ (\A r \in Setters : r # s => pc'[r] = pc[r])
      /\ \A w \in Waiters : pc'[w] = pc[w]
  BY DEF EventInv, Types
<1>2. \A w \in Waiters : w # NULL /\ (Listed(w)' <=> Listed(w)) /\ (Listed(w) => m_next'[w] = m_next[w])
  BY <1>1 DEF Listed
<1>3. \A r \in Setters : waiter[r] # NULL => (Walks(r)' <=> Walks(r))
  BY <1>1 DEF Walks
<1>. QED BY <1>2, <1>3, KeptSame

\* set_state takes the list: the walk points to its first awaiter.
LEMMA KeptExchange ==
  ASSUME EventInv, KeptInv, NEW s \in Setters, Exchange(s)
  PROVE  KeptInv'
<1> USE Apart
<1>1. /\ pc[s] = "exchange" /\ pc' = [pc EXCEPT ![s] = "walk"] /\ m_state' = This /\ UNCHANGED m_next
      /\ waiter' = [waiter EXCEPT ![s] = IF m_state = This THEN NULL ELSE m_state]
  BY DEF Exchange, Goto
<1>2. /\ pc'[s] = "walk" /\ (\A r \in Setters : r # s => pc'[r] = pc[r] /\ waiter'[r] = waiter[r])
      /\ (m_state # This => waiter'[s] = m_state) /\ \A w \in Waiters : pc'[w] = pc[w]
  BY <1>1 DEF EventInv, Types
<1>3. /\ \A w \in Waiters : Listed(w)' <=> Listed(w)
      /\ Walks(s)' /\ ~Walks(s) /\ \A r \in Setters : r # s => (Walks(r)' <=> Walks(r))
  BY <1>1, <1>2 DEF Listed, Walks
<1>4. HeldInv'
  <2>1. ASSUME NEW v \in Waiters, Listed(v)'
        PROVE  (\E r \in Setters : Walks(r)' /\ waiter'[r] = v) \/ (\E u \in Waiters : Listed(u)' /\ m_next'[u] = v)
    <3>1. CASE m_state = v
      BY <1>2, <1>3, <3>1
    <3>2. CASE m_state # v
      BY <1>1, <1>2, <1>3, <2>1, <3>2 DEF KeptInv, HeldInv
    <3>. QED BY <3>1, <3>2
  <2>. QED BY <2>1 DEF HeldInv
<1>5. PICK b, rank : b \in Nat /\ rank \in [Waiters -> 0 .. b] /\ Ranked(rank)
  BY DEF KeptInv, RankInv
<1>6. Ranked(rank)'
  BY <1>1, <1>3, <1>5 DEF Ranked
<1>7. RankInv'
  BY <1>5, <1>6 DEF RankInv
<1>. QED BY <1>4, <1>7 DEF KeptInv

\* The awaiter at the walk is submitted: the walk points to the next one.
LEMMA KeptSubmit ==
  ASSUME EventInv, KeptInv, NEW s \in Setters, SubmitAwaiter(s)
  PROVE  KeptInv'
<1> USE Apart
<1>. DEFINE v == waiter[s]
<1>1. /\ pc[s] = "submit" /\ pc' = [pc EXCEPT ![s] = "walk", ![v] = "queued"]
      /\ waiter' = [waiter EXCEPT ![s] = next[s]] /\ UNCHANGED <<m_state, m_next>>
  BY DEF SubmitAwaiter
<1>2. v \in Waiters /\ next[s] = m_next[v] /\ Listed(v)
  BY <1>1 DEF EventInv, LocalInv, PointInv, Walks
<1>. HIDE DEF v
<1>3. /\ pc'[s] = "walk" /\ pc'[v] = "queued" /\ waiter'[s] = m_next[v] /\ waiter[s] = v
      /\ \A r \in Setters : r # s => pc'[r] = pc[r] /\ waiter'[r] = waiter[r]
      /\ \A w \in Waiters : w # v => pc'[w] = pc[w]
  BY <1>1, <1>2 DEF EventInv, Types, v
<1>4. /\ \A w \in Waiters : Listed(w)' <=> Listed(w) /\ w # v
      /\ Walks(s)' /\ \A r \in Setters : r # s => (Walks(r)' <=> Walks(r))
  BY <1>1, <1>3 DEF Listed, Walks
<1>5. HeldInv'
  <2>1. ASSUME NEW w \in Waiters, Listed(w)'
        PROVE  m_state' = w \/ (\E r \in Setters : Walks(r)' /\ waiter'[r] = w)
               \/ (\E u \in Waiters : Listed(u)' /\ m_next'[u] = w)
    <3>1. Listed(w) /\ w # v
      BY <1>4, <2>1
    <3>2. CASE m_next[v] = w
      BY <1>3, <1>4, <3>2
    <3>3. CASE m_next[v] # w
      <4>1. CASE \E r \in Setters : Walks(r) /\ waiter[r] = w
        BY <1>3, <1>4, <3>1, <4>1
      <4>2. CASE \E u \in Waiters : Listed(u) /\ m_next[u] = w
        BY <1>1, <1>4, <3>3, <4>2
      <4>. QED BY <1>1, <3>1, <4>1, <4>2 DEF KeptInv, HeldInv
    <3>. QED BY <3>2, <3>3
  <2>. QED BY <2>1 DEF HeldInv
<1>6. PICK b, rank : b \in Nat /\ rank \in [Waiters -> 0 .. b] /\ Ranked(rank)
  BY DEF KeptInv, RankInv
<1>7. Ranked(rank)'
  BY <1>1, <1>4, <1>6 DEF Ranked
<1>8. RankInv'
  BY <1>6, <1>7 DEF RankInv
<1>. QED BY <1>5, <1>8 DEF KeptInv

LEMMA KeptStep == LatchInv /\ KeptInv /\ [LatchNext]_latchVars => KeptInv'
<1>1. SUFFICES ASSUME EventInv, KeptInv, [LatchNext]_latchVars PROVE KeptInv'
  BY DEF LatchInv
<1>2. ASSUME NEW w \in Waiters, Wait(w) PROVE KeptInv'
  BY <1>1, <1>2, KeptWait
<1>3. ASSUME NEW s \in Setters, SetterStep(s) PROVE KeptInv'
  <2>1. CASE BeginStore(s) \/ StoreValue(s) \/ CountDown(s) \/ ReadNext(s) \/ WalkDone(s)
    <3>1. PICK l : /\ pc' = [pc EXCEPT ![s] = l] /\ UNCHANGED <<m_state, m_next, waiter>>
                   /\ waiter[s] # NULL => (pc[s] \in {"walk", "submit"} <=> l \in {"walk", "submit"})
      BY <2>1 DEF BeginStore, StoreValue, CountDown, ReadNext, WalkDone, Goto
    <3>. QED BY <1>1, <3>1, KeptSetter
  <2>2. CASE Exchange(s)
    BY <1>1, <2>2, KeptExchange
  <2>3. CASE SubmitAwaiter(s)
    BY <1>1, <2>3, KeptSubmit
  <2>. QED BY <1>3, <2>1, <2>2, <2>3 DEF SetterStep, SetState
<1>4. CASE UNCHANGED latchVars
  <2>1. UNCHANGED <<m_state, m_next, waiter, pc>>
    BY <1>4 DEF latchVars, vars
  <2>. QED BY <1>1, <2>1 DEF KeptInv, HeldInv, RankInv, Ranked, Listed, Walks
<1>. QED BY <1>1, <1>2, <1>3, <1>4 DEF LatchNext, WaiterRuns, SetterRuns, Terminated, latchVars

LEMMA KeptStarts == BareInit \/ LatchInit => KeptInv
<1>1. SUFFICES ASSUME BareInit \/ LatchInit PROVE KeptInv
  OBVIOUS
<1>2. \A w \in Waiters : ~Listed(w)
  BY <1>1 DEF BareInit, LatchInit, Init, Listed
<1>3. [w \in Waiters |-> 0] \in [Waiters -> 0 .. 0] /\ Ranked([w \in Waiters |-> 0])
  BY <1>2 DEF Ranked
<1>. QED BY <1>2, <1>3 DEF KeptInv, HeldInv, RankInv

\* Without a head and without a walk, the one that is highest up would have
\* something above it that points to it.
LEMMA NoListLeft ==
  ASSUME KeptInv, m_state = This, \A s \in Setters : ~Walks(s), NEW w \in Waiters, Listed(w)
  PROVE  FALSE
<1> USE Apart
<1>1. PICK b, rank : b \in Nat /\ rank \in [Waiters -> 0 .. b] /\ Ranked(rank)
  BY DEF KeptInv, RankInv
<1>. DEFINE S == {b - rank[v] : v \in {u \in Waiters : Listed(u)}}
<1>2. S \subseteq Nat /\ S # {}
  BY <1>1
<1>3. \E x \in S : \A y \in S : x =< y
  <2>. HIDE DEF S
  <2>. QED BY <1>2, LeastElement
<1>4. PICK v \in Waiters : Listed(v) /\ \A u \in Waiters : Listed(u) => b - rank[v] =< b - rank[u]
  BY <1>3
<1>5. PICK u \in Waiters : Listed(u) /\ m_next[u] = v
  BY <1>4 DEF KeptInv, HeldInv
<1>6. rank[v] < rank[u]
  BY <1>1, <1>5 DEF Ranked
<1>. QED BY <1>1, <1>4, <1>5, <1>6

\* When the event is set and no set() walks, nobody is suspended, for any number
\* of waiters that push while it is set (event.cpp 23-54).
THEOREM NobodyIsLeft == LatchSpec => []NobodyLeft
<1>1. LatchSpec => []KeptInv
  BY KeptStarts, KeptStep, LatchInvariant, PTL DEF LatchSpec
<1>2. KeptInv => NobodyLeft
  BY NoListLeft DEF NobodyLeft, Walks, Listed
<1>. QED BY <1>1, <1>2, PTL

-----------------------------------------------------------------------------
(***************************************************************************)
(* coro::wait_group.  The variables that WaitGroup shares with Latch stand *)
(* for its own state here.                                                 *)
(***************************************************************************)

WgTypes ==
  /\ m_state \in Seq(Waiters)
  /\ DOMAIN pc = Waiters \cup Doers
  /\ \A w \in Waiters : pc[w] \in {"idle", "count", "head", "cas", "suspended", "resume", "queued", "done"}
  /\ \A d \in Doers : pc[d] \in {"unborn", "idle", "exchange", "walk", "done"}
  /\ walk \in [Doers -> Seq(Waiters)]
  /\ resumed \in [Waiters -> {0, 1}]
  /\ late \subseteq Doers /\ woken \in BOOLEAN

\* The counter counts the coroutines that are still to call done(), ...
WgCount == IsFiniteSet(Idle) /\ m_count = Cardinality(Idle)

\* ... of which none is left while a done() takes and walks the list, unless
\* an add() has overtaken it, ...
Takes(d) == pc[d] \in {"exchange", "walk"} /\ d \notin late
WgZero == \A d \in Doers : Takes(d) => Idle = {}

\* ... so that there is only one such done(), ...
WgLast == \A d, e \in Doers : Takes(d) /\ Takes(e) => d = e

\* ... and none that has still to take the list when one of them has resumed
\* somebody, until the next add().
WgWoken == woken => Idle = {} /\ \A d \in Doers : Takes(d) => pc[d] # "exchange"

\* A waiter is in one list, once, and suspended; it leaves it when it is resumed.
WgStack == IsInjective(m_state) /\ \A w \in ToSet(m_state) : pc[w] = "suspended"
WgWalk  == \A d \in Doers :
             /\ IsInjective(walk[d])
             /\ \A w \in ToSet(walk[d]) :
                  /\ pc[w] = "suspended" /\ w \notin ToSet(m_state)
                  /\ \A e \in Doers : e # d => w \notin ToSet(walk[e])
WgResumed == \A w \in Waiters : resumed[w] > 0 => pc[w] \in {"queued", "done"}

WgOrder == WgCount /\ WgZero /\ WgLast /\ WgWoken

WgInv == WgTypes /\ WgOrder /\ WgStack /\ WgWalk /\ WgResumed

LEMMA WgApart ==
  /\ \A w \in Waiters : w \notin Doers
  /\ \A d \in Doers : d \notin Waiters
BY WaitGroupAssumption DEF Doers

\* Nobody begins or ends a done(), adds or is resumed.
LEMMA OrderKept ==
  ASSUME WgOrder, UNCHANGED <<m_count, late, woken>>, \A d \in Doers : pc'[d] = pc[d]
  PROVE  WgOrder'
<1>1. Idle' = Idle /\ \A d \in Doers : Takes(d)' <=> Takes(d)
  BY DEF Idle, Takes
<1>2. WgCount'
  BY <1>1 DEF WgOrder, WgCount
<1>3. WgZero' /\ WgLast' /\ WgWoken'
  BY <1>1 DEF WgOrder, WgZero, WgLast, WgWoken
<1>. QED BY <1>2, <1>3 DEF WgOrder

\* A step of wait() that pushes nothing.
LEMMA WaiterMoves ==
  ASSUME WgInv, NEW w \in Waiters,
         NEW l \in {"count", "head", "cas", "resume", "done"},
         pc[w] # "suspended", pc' = [pc EXCEPT ![w] = l],
         pc[w] \in {"queued", "done"} => l = "done",
         UNCHANGED <<m_count, m_state, walk, resumed, late, woken>>
  PROVE  WgInv'
<1> USE WgApart
<1>1. /\ pc'[w] = l /\ DOMAIN pc' = DOMAIN pc /\ (\A x \in Waiters \cup Doers : x # w => pc'[x] = pc[x])
      /\ \A d \in Doers : pc'[d] = pc[d]
  BY DEF WgInv, WgTypes
<1>2. WgTypes'
  BY <1>1 DEF WgInv, WgTypes
<1>3. WgOrder'
  BY <1>1, OrderKept DEF WgInv
<1>4. WgStack'
  <2>1. \A x \in ToSet(m_state) : x \in Waiters /\ x # w
    BY DEF WgInv, WgTypes, WgStack, ToSet
  <2>. QED BY <1>1, <2>1 DEF WgInv, WgStack
<1>5. WgWalk'
  <2>1. \A d \in Doers : \A x \in ToSet(walk[d]) : x \in Waiters /\ x # w
    BY DEF WgInv, WgTypes, WgWalk, ToSet
  <2>. QED BY <1>1, <2>1 DEF WgInv, WgWalk
<1>6. WgResumed'
  BY <1>1 DEF WgInv, WgResumed
<1>. QED BY <1>2, <1>3, <1>4, <1>5, <1>6 DEF WgInv

\* The awaiter is pushed.
LEMMA WgPushKeeps ==
  ASSUME WgInv, NEW w \in Waiters, WgCasPush(w)
  PROVE  WgInv'
<1> USE WgApart
<1>1. /\ pc[w] = "cas" /\ pc' = [pc EXCEPT ![w] = "suspended"] /\ m_state' = <<w>> \o m_state
      /\ UNCHANGED <<m_count, walk, resumed, late, woken>>
  BY DEF WgCasPush, Goto
<1>2. /\ pc'[w] = "suspended" /\ DOMAIN pc' = DOMAIN pc /\ (\A x \in Waiters \cup Doers : x # w => pc'[x] = pc[x])
      /\ \A d \in Doers : pc'[d] = pc[d]
  BY <1>1 DEF WgInv, WgTypes
<1>3. w \notin ToSet(m_state) /\ \A d \in Doers : w \notin ToSet(walk[d])
  BY <1>1 DEF WgInv, WgStack, WgWalk
<1>4. m_state' \in Seq(Waiters) /\ ToSet(m_state') = ToSet(m_state) \cup {w} /\ IsInjective(m_state')
  <2>1. m_state \in Seq(Waiters) /\ IsInjective(m_state)
    BY DEF WgInv, WgTypes, WgStack
  <2>. QED BY <1>1, <1>3, <2>1, PushSet
<1>5. WgTypes'
  BY <1>1, <1>2, <1>4 DEF WgInv, WgTypes
<1>6. WgOrder'
  BY <1>1, <1>2, OrderKept DEF WgInv
<1>7. WgStack'
  <2>1. \A x \in ToSet(m_state) : x \in Waiters
    BY DEF WgInv, WgTypes, ToSet
  <2>. QED BY <1>2, <1>4, <2>1 DEF WgInv, WgStack
<1>8. WgWalk'
  <2>1. \A d \in Doers : \A x \in ToSet(walk[d]) : x \in Waiters /\ x # w
    BY <1>3 DEF WgInv, WgTypes, ToSet
  <2>. QED BY <1>1, <1>2, <1>4, <2>1 DEF WgInv, WgWalk
<1>9. WgResumed'
  BY <1>1, <1>2 DEF WgInv, WgResumed
<1>. QED BY <1>5, <1>6, <1>7, <1>8, <1>9 DEF WgInv

LEMMA WgWaitKeeps ==
  ASSUME WgInv, NEW w \in Waiters, WgWait(w)
  PROVE  WgInv'
<1>1. CASE AwaitSuspend(w)
  <2>1. pc[w] = "idle" /\ pc' = [pc EXCEPT ![w] = "count"] /\ UNCHANGED <<m_count, m_state, walk, resumed, late, woken>>
    BY <1>1 DEF AwaitSuspend, Goto
  <2>. QED BY <2>1, WaiterMoves
<1>2. CASE LoadCount(w)
  <2>1. CASE m_count = 0
    <3>1. pc[w] = "count" /\ pc' = [pc EXCEPT ![w] = "resume"] /\ UNCHANGED <<m_count, m_state, walk, resumed, late, woken>>
      BY <1>2, <2>1 DEF LoadCount, Goto
    <3>. QED BY <3>1, WaiterMoves
  <2>2. CASE m_count # 0
    <3>1. pc[w] = "count" /\ pc' = [pc EXCEPT ![w] = "head"] /\ UNCHANGED <<m_count, m_state, walk, resumed, late, woken>>
      BY <1>2, <2>2 DEF LoadCount, Goto
    <3>. QED BY <3>1, WaiterMoves
  <2>. QED BY <2>1, <2>2
<1>3. CASE WgLoadHead(w)
  <2>1. pc[w] = "head" /\ pc' = [pc EXCEPT ![w] = "cas"] /\ UNCHANGED <<m_count, m_state, walk, resumed, late, woken>>
    BY <1>3 DEF WgLoadHead, Goto
  <2>. QED BY <2>1, WaiterMoves
<1>4. CASE WgCasFail(w)
  <2>1. pc[w] = "cas" /\ pc' = [pc EXCEPT ![w] = "count"] /\ UNCHANGED <<m_count, m_state, walk, resumed, late, woken>>
    BY <1>4 DEF WgCasFail, Goto
  <2>. QED BY <2>1, WaiterMoves
<1>5. CASE WgAwaitResume(w)
  <2>1. pc[w] \in {"resume", "queued"} /\ pc' = [pc EXCEPT ![w] = "done"] /\ UNCHANGED <<m_count, m_state, walk, resumed, late, woken>>
    BY <1>5 DEF WgAwaitResume
  <2>. QED BY <2>1, WaiterMoves
<1>. QED BY <1>1, <1>2, <1>3, <1>4, <1>5, WgPushKeeps DEF WgWait

\* A step of a worker that resumes nobody: what it leaves alone.
LEMMA WorkerMoves ==
  ASSUME WgInv, NEW d \in Doers, NEW l \in {"idle", "exchange", "walk", "done"},
         pc' = [pc EXCEPT ![d] = l], UNCHANGED resumed, late' \subseteq Doers, woken' \in BOOLEAN
  PROVE  /\ pc'[d] = l /\ DOMAIN pc' = DOMAIN pc /\ (\A e \in Doers : e # d => pc'[e] = pc[e])
         /\ \A w \in Waiters : pc'[w] = pc[w]
         /\ \A e \in Doers : pc'[e] \in {"unborn", "idle", "exchange", "walk", "done"}
         /\ WgResumed'
         /\ UNCHANGED <<m_state, walk>> => WgTypes' /\ WgStack' /\ WgWalk'
<1> USE WgApart
<1>1. /\ pc'[d] = l /\ DOMAIN pc' = DOMAIN pc /\ (\A e \in Doers : e # d => pc'[e] = pc[e])
      /\ \A w \in Waiters : pc'[w] = pc[w]
  BY DEF WgInv, WgTypes
<1>2. \A e \in Doers : pc'[e] \in {"unborn", "idle", "exchange", "walk", "done"}
  BY <1>1 DEF WgInv, WgTypes
<1>3. WgResumed'
  BY <1>1 DEF WgInv, WgResumed
<1>4. ASSUME UNCHANGED <<m_state, walk>> PROVE WgTypes' /\ WgStack' /\ WgWalk'
  <2>1. WgTypes'
    BY <1>1, <1>2, <1>4 DEF WgInv, WgTypes
  <2>2. \A x \in ToSet(m_state) : x \in Waiters
    BY DEF WgInv, WgTypes, ToSet
  <2>3. \A e \in Doers : \A x \in ToSet(walk[e]) : x \in Waiters
    BY DEF WgInv, WgTypes, ToSet
  <2>4. WgStack'
    BY <1>1, <1>4, <2>2 DEF WgInv, WgStack
  <2>5. WgWalk'
    BY <1>1, <1>4, <2>3 DEF WgInv, WgWalk
  <2>. QED BY <2>1, <2>4, <2>5
<1>. QED BY <1>1, <1>2, <1>3, <1>4

\* add(1), whoever calls it: every done() that is at work is late from now on.
LEMMA WgAddKeeps ==
  ASSUME WgInv, NEW e \in Extra, Add(e)
  PROVE  WgInv'
<1>1. e \in Doers /\ e \notin Waiters
  BY WaitGroupAssumption DEF Doers
<1>2. /\ pc[e] = "unborn" /\ pc' = [pc EXCEPT ![e] = "idle"] /\ m_count' = m_count + 1
      /\ late' = late \cup {d \in Doers : pc[d] \in {"exchange", "walk"}} /\ woken' = FALSE
      /\ UNCHANGED <<m_state, walk, resumed>>
  BY DEF Add, Goto
<1>3. late' \subseteq Doers
  BY <1>2 DEF WgInv, WgTypes
<1>4. /\ pc'[e] = "idle" /\ (\A x \in Doers : x # e => pc'[x] = pc[x])
      /\ WgResumed' /\ WgTypes' /\ WgStack' /\ WgWalk'
  BY <1>1, <1>2, <1>3, WorkerMoves
<1>5. WgCount'
  <2>1. Idle' = Idle \cup {e} /\ e \notin Idle
    BY <1>1, <1>2, <1>4 DEF Idle
  <2>2. IsFiniteSet(Idle) /\ m_count = Cardinality(Idle)
    BY DEF WgInv, WgOrder, WgCount
  <2>3. IsFiniteSet(Idle') /\ Cardinality(Idle') = Cardinality(Idle) + 1
    BY <2>1, <2>2, FS_AddElement
  <2>. QED BY <1>2, <2>2, <2>3 DEF WgCount
<1>6. \A d \in Doers : ~Takes(d)'
  BY <1>2, <1>4 DEF Takes
<1>7. WgZero' /\ WgLast' /\ WgWoken'
  BY <1>2, <1>6 DEF WgZero, WgLast, WgWoken
<1>. QED BY <1>4, <1>5, <1>7 DEF WgInv, WgOrder

\* done(): the decrement.
LEMMA WgFetchSubKeeps ==
  ASSUME WgInv, NEW d \in Doers, FetchSub(d)
  PROVE  WgInv'
<1>1. PICK l \in {"exchange", "done"} :
        /\ pc[d] = "idle" /\ pc' = [pc EXCEPT ![d] = l] /\ (l = "exchange" <=> m_count = 1) /\ m_count' = m_count - 1
        /\ UNCHANGED <<m_state, walk, resumed, late, woken>>
  BY DEF FetchSub, Goto
<1>2. late' \subseteq Doers /\ woken' \in BOOLEAN
  BY <1>1 DEF WgInv, WgTypes
<1>3. /\ pc'[d] = l /\ (\A x \in Doers : x # d => pc'[x] = pc[x])
      /\ WgResumed' /\ WgTypes' /\ WgStack' /\ WgWalk'
  BY <1>1, <1>2, WorkerMoves
<1>4. /\ IsFiniteSet(Idle') /\ m_count' = Cardinality(Idle')
  <2>1. Idle' = Idle \ {d} /\ d \in Idle
    BY <1>1, <1>3 DEF Idle
  <2>2. IsFiniteSet(Idle) /\ m_count = Cardinality(Idle)
    BY DEF WgInv, WgOrder, WgCount
  <2>3. IsFiniteSet(Idle') /\ Cardinality(Idle') = Cardinality(Idle) - 1
    BY <2>1, <2>2, FS_RemoveElement
  <2>. QED BY <1>1, <2>2, <2>3
<1>5. Idle # {} /\ ~woken /\ \A e \in Doers : ~Takes(e)
  <2>1. Idle # {}
    BY <1>1 DEF Idle
  <2>. QED BY <2>1 DEF WgInv, WgOrder, WgZero, WgWoken
<1>6. \A e \in Doers : Takes(e)' => e = d /\ l = "exchange"
  BY <1>1, <1>3, <1>5 DEF Takes
<1>7. WgZero'
  <2>1. l = "exchange" => Cardinality(Idle') = 0
    BY <1>1, <1>4
  <2>2. l = "exchange" => Idle' = {}
    BY <1>4, <2>1, FS_EmptySet
  <2>. QED BY <1>6, <2>2 DEF WgZero
<1>8. WgLast' /\ WgWoken'
  BY <1>1, <1>5, <1>6 DEF WgLast, WgWoken
<1>. QED BY <1>3, <1>4, <1>7, <1>8 DEF WgInv, WgOrder, WgCount

\* done() takes the list.
LEMMA WgExchangeKeeps ==
  ASSUME WgInv, NEW d \in Doers, ExchangeList(d)
  PROVE  WgInv'
<1>1. /\ pc[d] = "exchange" /\ pc' = [pc EXCEPT ![d] = "walk"] /\ walk' = [walk EXCEPT ![d] = m_state]
      /\ m_state' = <<>> /\ UNCHANGED <<m_count, resumed, late, woken>>
  BY DEF ExchangeList, Goto
<1>2. /\ pc'[d] = "walk" /\ DOMAIN pc' = DOMAIN pc /\ (\A x \in Doers : x # d => pc'[x] = pc[x])
      /\ \A w \in Waiters : pc'[w] = pc[w]
      /\ \A x \in Doers : pc'[x] \in {"unborn", "idle", "exchange", "walk", "done"}
      /\ WgResumed'
  <2>1. late' \subseteq Doers /\ woken' \in BOOLEAN
    BY <1>1 DEF WgInv, WgTypes
  <2>. QED BY <1>1, <2>1, WorkerMoves
<1>3. m_state' \in Seq(Waiters) /\ ToSet(m_state') = {} /\ IsInjective(m_state')
  BY <1>1, NoElements
<1>4. walk'[d] = m_state /\ \A x \in Doers : x # d => walk'[x] = walk[x]
  BY <1>1 DEF WgInv, WgTypes
<1>5. WgTypes'
  <2>1. walk' \in [Doers -> Seq(Waiters)]
    BY <1>1 DEF WgInv, WgTypes
  <2>. QED BY <1>1, <1>2, <1>3, <2>1 DEF WgInv, WgTypes
<1>6. WgOrder'
  <2>1. Idle' = Idle /\ \A x \in Doers : Takes(x)' <=> Takes(x)
    BY <1>1, <1>2 DEF Idle, Takes
  <2>2. WgCount'
    BY <1>1, <2>1 DEF WgInv, WgOrder, WgCount
  <2>3. WgZero' /\ WgLast' /\ WgWoken'
    BY <1>1, <1>2, <2>1 DEF WgInv, WgOrder, WgZero, WgLast, WgWoken
  <2>. QED BY <2>2, <2>3 DEF WgOrder
<1>7. WgStack'
  BY <1>3 DEF WgStack
<1>8. WgWalk'
  <2>1. /\ \A x \in ToSet(m_state) : x \in Waiters
        /\ \A e \in Doers : \A x \in ToSet(walk[e]) : x \in Waiters
    BY DEF WgInv, WgTypes, ToSet
  <2>2. ASSUME NEW e \in Doers
        PROVE  IsInjective(walk'[e]) /\ \A w \in ToSet(walk'[e]) : pc'[w] = "suspended" /\ w \notin ToSet(m_state')
    BY <1>2, <1>3, <1>4, <2>1 DEF WgInv, WgStack, WgWalk
  <2>3. ASSUME NEW e \in Doers, NEW x \in Doers, x # e, NEW w \in ToSet(walk'[e])
        PROVE  w \notin ToSet(walk'[x])
    BY <1>4, <2>3 DEF WgInv, WgWalk
  <2>. QED BY <2>2, <2>3 DEF WgWalk
<1>. QED BY <1>2, <1>5, <1>6, <1>7, <1>8 DEF WgInv

\* The loop of done() resumes a waiter, which leaves the only list it is in.
LEMMA WgResumeKeeps ==
  ASSUME WgInv, NEW d \in Doers, ResumeHead(d)
  PROVE  WgInv'
<1> USE WgApart
<1>1. walk[d] # <<>> /\ pc[d] = "walk" /\ walk[d] \in Seq(Waiters) /\ IsInjective(walk[d])
  BY DEF ResumeHead, WgInv, WgTypes, WgWalk
<1>2. PICK h \in Waiters : /\ h = Head(walk[d]) /\ Tail(walk[d]) \in Seq(Waiters) /\ IsInjective(Tail(walk[d]))
                           /\ h \notin ToSet(Tail(walk[d])) /\ ToSet(walk[d]) = ToSet(Tail(walk[d])) \cup {h}
  BY <1>1, TailSet
<1>3. /\ pc' = [pc EXCEPT ![h] = "queued"] /\ resumed' = [resumed EXCEPT ![h] = resumed[h] + 1]
      /\ walk' = [walk EXCEPT ![d] = Tail(walk[d])] /\ UNCHANGED <<m_count, m_state, late>>
      /\ woken' = (woken \/ d \notin late)
  BY <1>2 DEF ResumeHead
<1>4. /\ pc[h] = "suspended" /\ h \notin ToSet(m_state)
      /\ \A e \in Doers : e # d => h \notin ToSet(walk[e])
  BY <1>2 DEF WgInv, WgWalk
<1>5. resumed[h] = 0
  <2>1. ~(resumed[h] > 0)
    BY <1>4 DEF WgInv, WgResumed
  <2>2. resumed[h] \in {0, 1}
    BY DEF WgInv, WgTypes
  <2>. QED BY <2>1, <2>2
<1>6. /\ pc'[h] = "queued" /\ DOMAIN pc' = DOMAIN pc /\ (\A x \in Waiters \cup Doers : x # h => pc'[x] = pc[x])
      /\ \A e \in Doers : pc'[e] = pc[e]
  BY <1>3 DEF WgInv, WgTypes
<1>7. /\ walk'[d] = Tail(walk[d]) /\ (\A e \in Doers : e # d => walk'[e] = walk[e])
      /\ resumed'[h] = 1 /\ \A w \in Waiters : w # h => resumed'[w] = resumed[w]
  BY <1>3, <1>5 DEF WgInv, WgTypes
<1>8. WgTypes'
  <2>1. walk' \in [Doers -> Seq(Waiters)] /\ resumed' \in [Waiters -> {0, 1}]
    BY <1>2, <1>3, <1>5 DEF WgInv, WgTypes
  <2>. QED BY <1>3, <1>6, <2>1 DEF WgInv, WgTypes
<1>9. WgOrder'
  <2>1. Idle' = Idle /\ \A x \in Doers : Takes(x)' <=> Takes(x)
    BY <1>3, <1>6 DEF Idle, Takes
  <2>2. WgCount'
    BY <1>3, <2>1 DEF WgInv, WgOrder, WgCount
  <2>3. WgZero' /\ WgLast'
    BY <2>1 DEF WgInv, WgOrder, WgZero, WgLast
  <2>4. d \notin late => Takes(d) /\ Idle = {} /\ \A x \in Doers : Takes(x) => pc[x] # "exchange"
    BY <1>1 DEF Takes, WgInv, WgOrder, WgZero, WgLast
  <2>5. WgWoken'
    BY <1>3, <1>6, <2>1, <2>4 DEF WgInv, WgOrder, WgWoken
  <2>. QED BY <2>2, <2>3, <2>5 DEF WgOrder
<1>10. WgStack'
  <2>1. \A x \in ToSet(m_state) : x \in Waiters /\ x # h
    BY <1>4 DEF WgInv, WgTypes, ToSet
  <2>. QED BY <1>3, <1>6, <2>1 DEF WgInv, WgStack
<1>11. WgWalk'
  <2>1. \A e \in Doers : ToSet(walk'[e]) \subseteq ToSet(walk[e]) /\ h \notin ToSet(walk'[e]) /\ IsInjective(walk'[e])
    BY <1>2, <1>4, <1>7 DEF WgInv, WgWalk
  <2>2. \A e \in Doers : \A x \in ToSet(walk[e]) : x \in Waiters
    BY DEF WgInv, WgTypes, ToSet
  <2>3. \A e \in Doers : \A x \in ToSet(walk'[e]) : pc'[x] = "suspended" /\ x \notin ToSet(m_state')
    BY <1>3, <1>6, <2>1, <2>2 DEF WgInv, WgWalk
  <2>4. \A e, f \in Doers : \A x \in ToSet(walk'[e]) : f # e => x \notin ToSet(walk'[f])
    BY <2>1 DEF WgInv, WgWalk
  <2>. QED BY <2>1, <2>3, <2>4 DEF WgWalk
<1>12. WgResumed'
  BY <1>6, <1>7 DEF WgInv, WgResumed
<1>. QED BY <1>8, <1>9, <1>10, <1>11, <1>12 DEF WgInv

LEMMA WgDoneKeeps ==
  ASSUME WgInv, NEW d \in Doers, Done(d)
  PROVE  WgInv'
<1>1. CASE WgWalkDone(d)
  <2>1. /\ pc[d] = "walk" /\ pc' = [pc EXCEPT ![d] = "done"] /\ UNCHANGED <<m_count, m_state, walk, resumed, late, woken>>
    BY <1>1 DEF WgWalkDone, Goto
  <2>2. late' \subseteq Doers /\ woken' \in BOOLEAN
    BY <2>1 DEF WgInv, WgTypes
  <2>3. /\ pc'[d] = "done" /\ (\A x \in Doers : x # d => pc'[x] = pc[x])
        /\ WgResumed' /\ WgTypes' /\ WgStack' /\ WgWalk'
    BY <2>1, <2>2, WorkerMoves
  <2>4. Idle' = Idle /\ \A x \in Doers : Takes(x)' => Takes(x) /\ pc'[x] = pc[x]
    BY <2>1, <2>3 DEF Idle, Takes
  <2>5. WgCount'
    BY <2>1, <2>4 DEF WgInv, WgOrder, WgCount
  <2>6. WgZero' /\ WgLast' /\ WgWoken'
    BY <2>1, <2>4 DEF WgInv, WgOrder, WgZero, WgLast, WgWoken
  <2>. QED BY <2>3, <2>5, <2>6 DEF WgInv, WgOrder
<1>. QED BY <1>1, WgFetchSubKeeps, WgExchangeKeeps, WgResumeKeeps DEF Done

LEMMA WgStarts ==
  ASSUME WgInit
  PROVE  WgInv
<1> USE WgApart
<1>1. /\ m_count = Cardinality(Workers) /\ m_state = <<>> /\ DOMAIN pc = Waiters \cup Doers
      /\ \A x \in Waiters \cup Doers : pc[x] = IF x \in Extra THEN "unborn" ELSE "idle"
      /\ walk = [d \in Doers |-> <<>>] /\ resumed = [w \in Waiters |-> 0]
      /\ late = {} /\ woken = FALSE
  <2>1. m_count = Cardinality(Workers)
    BY DEF WgInit, Cardinality, Cardinality
  <2>. QED BY <2>1 DEF WgInit
<1>2. m_state \in Seq(Waiters) /\ ToSet(m_state) = {} /\ IsInjective(m_state)
  BY <1>1, NoElements
<1>3. \A d \in Doers : walk[d] = <<>> /\ ToSet(walk[d]) = {} /\ IsInjective(walk[d])
  BY <1>1, NoElements
<1>4. /\ \A w \in Waiters : pc[w] = "idle"
      /\ \A d \in Doers : pc[d] \in {"unborn", "idle"} /\ (pc[d] = "idle" <=> d \in Workers)
  BY <1>1, WaitGroupAssumption DEF Doers
<1>5. WgTypes
  <2>1. walk \in [Doers -> Seq(Waiters)]
    BY <1>1, NoElements
  <2>. QED BY <1>1, <1>2, <1>4, <2>1 DEF WgTypes
<1>6. WgCount
  <2>1. Idle = Workers
    BY <1>4 DEF Idle, Doers
  <2>2. IsFiniteSet(Workers)
    BY WaitGroupAssumption
  <2>. QED BY <1>1, <2>1, <2>2 DEF WgCount
<1>7. WgZero /\ WgLast /\ WgWoken
  BY <1>1, <1>4 DEF WgZero, Takes, WgLast, WgWoken
<1>8. WgStack /\ WgWalk
  BY <1>2, <1>3 DEF WgStack, WgWalk
<1>9. WgResumed
  BY <1>1 DEF WgResumed
<1>. QED BY <1>5, <1>6, <1>7, <1>8, <1>9 DEF WgInv, WgOrder

LEMMA WgStep ==
  ASSUME WgInv, [WgNext]_wgVars
  PROVE  WgInv'
<1>1. ASSUME UNCHANGED <<m_count, m_state, pc, walk, resumed, late, woken>> PROVE WgInv'
  BY <1>1, OrderKept DEF WgInv, WgTypes, WgStack, WgWalk, WgResumed
<1>2. CASE Destroy \/ WgTerminated \/ UNCHANGED wgVars
  BY <1>1, <1>2 DEF Destroy, WgTerminated, wgVars
<1>3. ASSUME NEW w \in Waiters, WgWait(w) PROVE WgInv'
  BY <1>3, WgWaitKeeps
<1>4. ASSUME NEW d \in Doers, Done(d) PROVE WgInv'
  BY <1>4, WgDoneKeeps
<1>5. ASSUME NEW e \in Extra, Add(e) PROVE WgInv'
  BY <1>5, WgAddKeeps
<1>. QED BY <1>2, <1>3, <1>4, <1>5 DEF WgNext

\* The counter, the stack and the walks of a wait_group stay consistent
\* (wait_group.cpp).
THEOREM WaitGroupInvariant ==
  WgSpec => []WgInv
<1>1. WgInit => WgInv
  BY WgStarts
<1>2. WgInv /\ [WgNext]_wgVars => WgInv'
  BY WgStep
<1>. QED BY <1>1, <1>2, PTL DEF WgSpec

\* done() resumes a waiter at most once, follows no list with one that has
\* been resumed, and leaves a wait_group alone that may be gone since somebody
\* was resumed, unless an add() has overtaken it (wait_group.cpp 64-70).
THEOREM WaitGroupWalksSafe ==
  WgSpec => []SafeWalk
<1>1. WgInv => SafeWalk
  <2>1. SUFFICES ASSUME WgInv PROVE SafeWalk
    OBVIOUS
  <2>2. ResumedOnce
    <3>1. \A w \in Waiters : resumed[w] <= 1
      BY <2>1 DEF WgInv, WgTypes
    <3>2. \A w \in Waiters : w \in ToSet(m_state) \/ (\E d \in Doers : w \in ToSet(walk[d])) => pc[w] = "suspended"
      BY <2>1 DEF WgInv, WgStack, WgWalk
    <3>. QED BY <3>1, <3>2 DEF ResumedOnce, ToSet
  <2>3. ASSUME woken, NEW d \in Doers \ late PROVE pc[d] \notin {"idle", "exchange"}
    BY <2>1, <2>3 DEF WgInv, WgOrder, WgWoken, Takes, Idle
  <2>. QED BY <2>2, <2>3 DEF SafeWalk
<1>. QED BY <1>1, WaitGroupInvariant, PTL

-----------------------------------------------------------------------------
(***************************************************************************)
(* A wait_group is a gate, and drops nobody who is in its lists.           *)
(***************************************************************************)

LEMMA WgLeft ==
  ASSUME WgInv
  PROVE  Cardinality(Idle) = m_count /\ m_count \in Nat /\ (Idle = {} <=> m_count = 0)
<1>1. Cardinality(Idle) = m_count /\ IsFiniteSet(Idle)
  BY DEF WgInv, WgOrder, WgCount
<1>2. m_count \in Nat /\ (Idle = {} <=> m_count = 0)
  BY <1>1, FS_CardinalityType, FS_EmptySet
<1>. QED BY <1>1, <1>2

LEMMA WgGateWait ==
  ASSUME WgInv, WgInv', NEW w \in Waiters, WgWait(w)
  PROVE  WgGate!GateNext \/ UNCHANGED <<Cardinality(Idle), At>>
<1>1. DOMAIN pc = Waiters \cup Doers
  BY DEF WgInv, WgTypes
<1>2. PICK l : pc' = [pc EXCEPT ![w] = l]
  BY DEF WgWait, AwaitSuspend, LoadCount, WgLoadHead, WgCasPush, WgCasFail, WgAwaitResume, Goto
<1>3. pc'[w] = l /\ \A x \in Waiters \cup Doers : x # w => pc'[x] = pc[x]
  BY <1>1, <1>2
<1>4. Idle' = Idle
  BY <1>3, WgApart DEF Idle
<1>5. At' = [At EXCEPT ![w] = Seen(l)] /\ At[w] = Seen(pc[w])
  <2>1. At' = [At EXCEPT ![w] = Seen(l)]
    BY <1>1, <1>3, AtMoves
  <2>. QED BY <2>1 DEF At
<1>6. CASE AwaitSuspend(w)
  <2>1. pc[w] = "idle" /\ l = "count"
    BY <1>1, <1>3, <1>6 DEF AwaitSuspend, Goto
  <2>2. WgGate!Arrive(w)
    BY <1>4, <1>5, <2>1, SeenAs DEF WgGate!Arrive
  <2>. QED BY <2>2 DEF WgGate!GateNext
<1>7. CASE LoadCount(w) /\ m_count = 0
  <2>1. pc[w] = "count" /\ l = "resume"
    BY <1>1, <1>3, <1>7 DEF LoadCount, Goto
  <2>2. Cardinality(Idle) = 0
    BY <1>7, WgLeft
  <2>3. WgGate!Release(w)
    BY <1>4, <1>5, <2>1, <2>2, SeenAs DEF WgGate!Release, WgGate!LetGo
  <2>. QED BY <2>3 DEF WgGate!GateNext
<1>8. CASE (LoadCount(w) /\ m_count # 0) \/ WgLoadHead(w) \/ WgCasPush(w) \/ WgCasFail(w)
  <2>1. pc[w] \in {"count", "head", "cas"} /\ l \in {"count", "head", "cas", "suspended"}
    BY <1>1, <1>3, <1>8 DEF LoadCount, WgLoadHead, WgCasPush, WgCasFail, Goto
  <2>2. Seen(l) = At[w]
    BY <1>5, <2>1, SeenAs
  <2>3. At' = At
    BY <1>5, <2>2 DEF At
  <2>. QED BY <1>4, <2>3
<1>9. CASE WgAwaitResume(w)
  <2>1. pc[w] \in {"resume", "queued"} /\ l = "done"
    BY <1>1, <1>3, <1>9 DEF WgAwaitResume
  <2>2. WgGate!Return(w)
    BY <1>4, <1>5, <2>1, SeenAs DEF WgGate!Return
  <2>. QED BY <2>2 DEF WgGate!GateNext
<1>. QED BY <1>6, <1>7, <1>8, <1>9 DEF WgWait

LEMMA WgGateDone ==
  ASSUME WgInv, WgInv', NEW d \in Doers, Done(d)
  PROVE  \/ WgGate!GateNext \/ UNCHANGED <<Cardinality(Idle), At>>
         \/ (\E e \in late : ResumeHead(e)) /\ \E w \in Waiters : WgGate!LetGo(w)
<1> USE WgApart
<1>1. DOMAIN pc = Waiters \cup Doers
  BY DEF WgInv, WgTypes
<1>2. Cardinality(Idle) = m_count /\ m_count \in Nat /\ Cardinality(Idle)' = m_count'
  BY WgLeft DEF WgInv, WgOrder, WgCount
<1>3. CASE FetchSub(d)
  <2>1. pc[d] = "idle" /\ m_count' = m_count - 1 /\ \A w \in Waiters : pc'[w] = pc[w]
    BY <1>1, <1>3 DEF FetchSub, Goto
  <2>2. m_count > 0
    BY <1>2, <2>1, WgLeft DEF Idle
  <2>3. At' = At
    BY <2>1 DEF At
  <2>4. WgGate!Call
    BY <1>2, <2>1, <2>2, <2>3 DEF WgGate!Call
  <2>. QED BY <2>4 DEF WgGate!GateNext
<1>4. CASE ExchangeList(d) \/ WgWalkDone(d)
  <2>1. m_count' = m_count /\ \A w \in Waiters : pc'[w] = pc[w]
    BY <1>1, <1>4 DEF ExchangeList, WgWalkDone, Goto
  <2>2. At' = At
    BY <2>1 DEF At
  <2>. QED BY <1>2, <2>1, <2>2
<1>5. CASE ResumeHead(d)
  <2>. DEFINE v == Head(walk[d])
  <2>1. pc[d] = "walk" /\ walk[d] # <<>> /\ pc' = [pc EXCEPT ![v] = "queued"] /\ m_count' = m_count
    BY <1>5 DEF ResumeHead
  <2>2. v \in Waiters /\ pc[v] = "suspended"
    <3>1. walk[d] \in Seq(Waiters)
      BY DEF WgInv, WgTypes
    <3>2. v \in ToSet(walk[d])
      BY <2>1, <3>1 DEF ToSet
    <3>. QED BY <2>1, <3>1, <3>2 DEF WgInv, WgWalk
  <2>. HIDE DEF v
  <2>3. pc'[v] = "queued" /\ \A w \in Waiters : w # v => pc'[w] = pc[w]
    BY <1>1, <2>1, <2>2
  <2>4. At' = [At EXCEPT ![v] = "released"] /\ At[v] = "waiting"
    <3>1. At' = [At EXCEPT ![v] = Seen("queued")]
      BY <1>1, <2>2, <2>3, AtMoves
    <3>. QED BY <2>2, <3>1, SeenAs DEF At
  <2>5. WgGate!LetGo(v)
    BY <1>2, <2>1, <2>4 DEF WgGate!LetGo
  <2>6. CASE d \notin late
    <3>1. m_count = 0
      BY <2>1, <2>6, WgLeft DEF WgInv, WgOrder, WgZero, Takes
    <3>2. WgGate!Release(v)
      BY <1>2, <2>5, <3>1 DEF WgGate!Release
    <3>. QED BY <2>2, <3>2 DEF WgGate!GateNext
  <2>7. CASE d \in late
    BY <1>5, <2>2, <2>5, <2>7
  <2>. QED BY <2>6, <2>7
<1>. QED BY <1>3, <1>4, <1>5 DEF Done

WgGateMove == \/ WgGate!GateNext \/ WgGate!AddCall
              \/ (\E d \in late : ResumeHead(d)) /\ \E w \in Waiters : WgGate!LetGo(w)

LEMMA WgGateStep ==
  WgInv /\ WgInv' /\ [WgNext]_wgVars => [WgGateMove]_(WgGate!gateVars)
<1>1. SUFFICES ASSUME WgInv, WgInv', [WgNext]_wgVars
               PROVE  WgGateMove \/ UNCHANGED <<Cardinality(Idle), At>>
  BY DEF WgGate!gateVars
<1>2. ASSUME NEW w \in Waiters, WgWait(w) PROVE WgGateMove \/ UNCHANGED <<Cardinality(Idle), At>>
  BY <1>1, <1>2, WgGateWait DEF WgGateMove
<1>3. ASSUME NEW d \in Doers, Done(d) PROVE WgGateMove \/ UNCHANGED <<Cardinality(Idle), At>>
  BY <1>1, <1>3, WgGateDone DEF WgGateMove
<1>4. ASSUME NEW e \in Extra, Add(e) PROVE WgGateMove
  <2>1. e \in Doers /\ e \notin Waiters
    BY WaitGroupAssumption DEF Doers
  <2>2. m_count' = m_count + 1 /\ \A w \in Waiters : pc'[w] = pc[w]
    BY <1>1, <1>4, <2>1 DEF Add, Goto, WgInv, WgTypes
  <2>3. Cardinality(Idle) = m_count /\ Cardinality(Idle)' = m_count'
    BY <1>1, WgLeft DEF WgInv, WgOrder, WgCount
  <2>4. At' = At
    BY <2>2 DEF At
  <2>5. WgGate!AddCall
    BY <2>2, <2>3, <2>4 DEF WgGate!AddCall
  <2>. QED BY <2>5 DEF WgGateMove
<1>5. CASE Destroy \/ WgTerminated \/ UNCHANGED wgVars
  <2>1. pc' = pc
    BY <1>5 DEF Destroy, WgTerminated, wgVars
  <2>2. At' = At /\ Idle' = Idle
    BY <2>1 DEF At, Idle
  <2>. QED BY <2>2
<1>. QED BY <1>1, <1>2, <1>3, <1>4, <1>5 DEF WgNext

\* A wait_group implements a gate that may close again: nobody is released while
\* a counted coroutine, one that an add() counted later included, has not called
\* done(), except by a done() that an add() has overtaken, and nobody is released
\* twice (wait_group.cpp 11-70).
THEOREM WaitGroupImplementsGate == WgSpec => WaitGroupIsGate
<1>1. WgInit => WgGate!GateInit
  <2>1. SUFFICES ASSUME WgInit PROVE WgGate!GateInit
    OBVIOUS
  <2>2. \A w \in Waiters : pc[w] = "idle"
    BY <2>1, WaitGroupAssumption DEF WgInit, Doers
  <2>3. At = [w \in Waiters |-> "outside"]
    BY <2>2, SeenAs DEF At
  <2>4. Cardinality(Idle) \in Nat
    BY <2>1, WgStarts, WgLeft
  <2>. QED BY <2>3, <2>4 DEF WgGate!GateInit
<1>. QED BY <1>1, WgGateStep, WaitGroupInvariant, PTL DEF WgSpec, WaitGroupIsGate, WgGateMove

\* Whoever is suspended is in the stack or in a list that a done() walks.
WgListed == \A w \in Waiters : pc[w] = "suspended" =>
  w \in ToSet(m_state) \/ \E d \in Doers : pc[d] = "walk" /\ w \in ToSet(walk[d])

LEMMA WgListedStep ==
  ASSUME WgInv, WgListed, [WgNext]_wgVars
  PROVE  WgListed'
<1> USE WgApart
<1>1. DOMAIN pc = Waiters \cup Doers /\ m_state \in Seq(Waiters) /\ walk \in [Doers -> Seq(Waiters)]
  BY DEF WgInv, WgTypes
<1>2. ASSUME UNCHANGED <<m_state, walk>>,
             \A w \in Waiters : pc'[w] = "suspended" => pc[w] = "suspended",
             \A d \in Doers : pc[d] = "walk" /\ walk[d] # <<>> => pc'[d] = "walk"
      PROVE  WgListed'
  <2>1. \A d \in Doers : walk[d] = <<>> => ToSet(walk[d]) = {}
    BY NoElements
  <2>. QED BY <1>2, <2>1 DEF WgListed
<1>3. ASSUME NEW w \in Waiters, WgWait(w) PROVE WgListed'
  <2>1. CASE WgCasPush(w)
    <3>1. m_state' = <<w>> \o m_state /\ walk' = walk /\ pc' = [pc EXCEPT ![w] = "suspended"] /\ pc[w] = "cas"
      BY <2>1 DEF WgCasPush, Goto
    <3>2. w \notin ToSet(m_state)
      BY <3>1 DEF WgInv, WgStack
    <3>3. ToSet(m_state') = ToSet(m_state) \cup {w}
      BY <1>1, <3>1, <3>2, PushSet DEF WgInv, WgStack
    <3>. QED BY <1>1, <3>1, <3>3 DEF WgListed
  <2>2. CASE AwaitSuspend(w) \/ LoadCount(w) \/ WgLoadHead(w) \/ WgCasFail(w) \/ WgAwaitResume(w)
    <3>1. UNCHANGED <<m_state, walk>>
      BY <2>2 DEF AwaitSuspend, LoadCount, WgLoadHead, WgCasFail, WgAwaitResume
    <3>2. PICK l \in {"count", "head", "cas", "resume", "done"} : pc' = [pc EXCEPT ![w] = l]
      BY <2>2 DEF AwaitSuspend, LoadCount, WgLoadHead, WgCasFail, WgAwaitResume, Goto
    <3>. QED BY <1>1, <1>2, <3>1, <3>2
  <2>. QED BY <1>3, <2>1, <2>2 DEF WgWait
<1>4. ASSUME NEW d \in Doers, FetchSub(d) \/ WgWalkDone(d) PROVE WgListed'
  <2>1. /\ UNCHANGED <<m_state, walk>> /\ (pc[d] = "walk" => walk[d] = <<>>)
        /\ \A x \in Waiters \cup Doers : x # d => pc'[x] = pc[x]
    BY <1>1, <1>4 DEF FetchSub, WgWalkDone, Goto
  <2>. QED BY <1>2, <2>1
<1>5. ASSUME NEW d \in Doers, ExchangeList(d) PROVE WgListed'
  <2>1. /\ pc[d] = "exchange" /\ pc'[d] = "walk" /\ walk'[d] = m_state
        /\ \A x \in Waiters \cup Doers : x # d => pc'[x] = pc[x]
        /\ \A e \in Doers : e # d => walk'[e] = walk[e]
    BY <1>1, <1>5 DEF ExchangeList, Goto
  <2>. QED BY <2>1 DEF WgListed
<1>6. ASSUME NEW d \in Doers, ResumeHead(d) PROVE WgListed'
  <2>. DEFINE v == Head(walk[d])
  <2>1. /\ pc[d] = "walk" /\ walk[d] # <<>> /\ m_state' = m_state
        /\ pc' = [pc EXCEPT ![v] = "queued"] /\ walk' = [walk EXCEPT ![d] = Tail(@)]
    BY <1>6 DEF ResumeHead
  <2>2. walk[d] \in Seq(Waiters) /\ IsInjective(walk[d])
    BY <1>1 DEF WgInv, WgWalk
  <2>3. v \in Waiters /\ ToSet(Tail(walk[d])) = ToSet(walk[d]) \ {v}
    BY <2>1, <2>2, TailSet
  <2>. HIDE DEF v
  <2>4. /\ pc'[v] = "queued" /\ (\A x \in Waiters \cup Doers : x # v => pc'[x] = pc[x])
        /\ walk'[d] = Tail(walk[d]) /\ \A e \in Doers : e # d => walk'[e] = walk[e]
    BY <1>1, <2>1, <2>3
  <2>. QED BY <2>1, <2>3, <2>4 DEF WgListed
<1>7. ASSUME NEW e \in Extra, Add(e) PROVE WgListed'
  <2>1. e \in Doers
    BY DEF Doers
  <2>2. UNCHANGED <<m_state, walk>> /\ pc[e] = "unborn" /\ \A x \in Waiters \cup Doers : x # e => pc'[x] = pc[x]
    BY <1>1, <1>7, <2>1 DEF Add, Goto
  <2>. QED BY <1>2, <2>1, <2>2
<1>8. CASE Destroy \/ WgTerminated \/ UNCHANGED wgVars
  <2>1. UNCHANGED <<m_state, walk, pc>>
    BY <1>8 DEF Destroy, WgTerminated, wgVars
  <2>. QED BY <1>2, <2>1
<1>. QED BY <1>3, <1>4, <1>5, <1>6, <1>7, <1>8 DEF WgNext, Done

\* done() drops nobody: a waiter that stays suspended for ever is one that is in
\* the stack when the last done() has taken its list, so it pushed itself too
\* late (wait_group.cpp 11-26, 60-70).
THEOREM WaitGroupDropsNobody == WgSpec => []WgListed
<1>1. WgInit => WgListed
  BY WaitGroupAssumption DEF WgInit, WgListed, Doers
<1>2. WgInv /\ WgListed /\ [WgNext]_wgVars => WgListed'
  BY WgListedStep
<1>. QED BY <1>1, <1>2, WaitGroupInvariant, PTL DEF WgSpec
=============================================================================
