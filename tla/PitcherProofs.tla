--------------------------- MODULE PitcherProofs ---------------------------
(* Proofs about Pitcher, for any number of tasks, ids and restarts. *)
EXTENDS Pitcher, FiniteSetTheorems, TLAPS

\* What queuCache puts on the idle queue is a sequence of tasks.
LEMMA KeyOrderIsSeq ==
    ASSUME NEW S \in SUBSET Task, NEW s \in KeyOrder(S)
    PROVE  s \in Seq(S)
<1>1. IsFiniteSet(S)
  BY FS_Subset, PitcherConstants
<1>2. Cardinality(S) \in Nat
  BY <1>1, FS_CardinalityType
<1>3. s \in [1..Cardinality(S) -> S]
  BY DEF KeyOrder
<1> QED BY <1>2, <1>3

LEMMA CountIsNat ==
    ASSUME TypeOK, NEW t \in Task
    PROVE  /\ Count(t) \in [Task -> 0..MaxSubmits]
           /\ Count(t)[t] > 0
           /\ \A u \in Task : accepted[u] > 0 => Count(t)[u] > 0
<1>1. /\ accepted \in [Task -> 0..MaxSubmits]
      /\ MaxSubmits \in Nat \ {0}
  BY PitcherConstants DEF TypeOK
<1>2. \A u \in Task : Count(t)[u] = IF u = t
                                    THEN (IF accepted[t] < MaxSubmits THEN accepted[t] + 1 ELSE accepted[t])
                                    ELSE accepted[u]
  BY <1>1 DEF Count
<1> QED BY <1>1, <1>2 DEF Count

\* Every step keeps the types.
LEMMA TypeStep == TypeOK /\ [Next]_vars => TypeOK'
<1> SUFFICES ASSUME TypeOK, [Next]_vars PROVE TypeOK'
  OBVIOUS
<1> USE PitcherConstants
<1>1. CASE \E t \in Task : Submit(t)
  BY <1>1 DEF TypeOK, Submit, Handling
<1>2. CASE Boot
  BY <1>2 DEF TypeOK, Boot, Handling
<1>3. CASE \E t \in Task : Receive(t)
  BY <1>3 DEF TypeOK, Receive, Handling, Forwarded, Idle, Priority
<1>4. CASE Put
  BY <1>4 DEF TypeOK, Put, Handling
<1>5. CASE Push
  <2>1. mtask \in Task /\ (Forwarded(mtask) \/ Idle(mtask))
    BY <1>5 DEF TypeOK, Push, Handling
  <2>2. Idle(mtask) => ~Forwarded(mtask)
    BY DEF Idle, Forwarded
  <2>3. taskListIdle' \in Seq({t \in Task : Idle(t)})
    <3>1. CASE Idle(mtask)
      <4>1. Append(taskListIdle, mtask) \in Seq({t \in Task : Idle(t)})
        BY <2>1, <3>1 DEF TypeOK
      <4> QED BY <1>5, <3>1, <4>1 DEF TypeOK, Push
    <3>2. CASE ~Idle(mtask)
      BY <1>5, <3>2 DEF TypeOK, Push
    <3> QED BY <3>1, <3>2
  <2>4. taskListIdle = <<>> \/ taskListIdle' # <<>>
    BY <1>5, <2>1 DEF TypeOK, Push
  <2>5. taskList' \in SUBSET {t \in Task : Forwarded(t)}
    BY <1>5, <2>1, <2>2 DEF TypeOK, Push
  <2>6. raced' \in SUBSET (0..MaxRestarts)
    BY <1>5 DEF TypeOK, Push
  <2> QED BY <1>5, <2>3, <2>4, <2>5, <2>6 DEF TypeOK, Push, Handling
<1>6. CASE Reply
  BY <1>6 DEF TypeOK, Reply, Handling
<1>7. CASE Loop
  BY <1>7 DEF TypeOK, Loop, Handling
<1>8. CASE Pop
  BY <1>8 DEF TypeOK, Pop, Handling, Front
<1>9. CASE PopIdle
  <2>1. /\ Head(taskListIdle) \in Task
        /\ Tail(taskListIdle) \in Seq({t \in Task : Idle(t)})
    BY <1>9 DEF TypeOK, PopIdle
  <2>2. raced' \in SUBSET (0..MaxRestarts)
    BY <1>9 DEF TypeOK, PopIdle
  <2> QED BY <1>9, <2>1, <2>2 DEF TypeOK, PopIdle, Handling
<1>10. CASE Send
  BY <1>10 DEF TypeOK, Send, Handling
<1>11. CASE MasterAccepts
  BY <1>11, CountIsNat DEF TypeOK, MasterAccepts, Handling
<1>12. CASE MasterLost
  <2>1. ptask \in Task
    BY <1>12 DEF TypeOK, MasterLost
  <2>2. Count(ptask) \in [Task -> 0..MaxSubmits] /\ accepted \in [Task -> 0..MaxSubmits]
    BY <2>1, CountIsNat DEF TypeOK
  <2>3. accepted' = accepted \/ accepted' = Count(ptask)
    BY <1>12 DEF MasterLost
  <2> QED BY <1>12, <2>1, <2>2, <2>3 DEF TypeOK, MasterLost, Handling
<1>13. CASE DoneTask
  BY <1>13 DEF TypeOK, DoneTask, Handling
<1>14. CASE Crash \/ Interrupt
  <2>1. Halt
    BY <1>14 DEF Crash, Interrupt
  <2>2. client' \in [Task -> {"new", "sent", "queued", "stuck"}]
    BY <2>1 DEF TypeOK, Halt
  <2>3. taskListIdle' \in Seq({t \in Task : Idle(t)})
    BY <2>1 DEF Halt
  <2> QED BY <2>1, <2>2, <2>3 DEF TypeOK, Halt, Handling
<1>15. CASE Restart
  <2>1. Stored \in SUBSET Task
    BY DEF Stored
  <2>2. taskListIdle' \in Seq({t \in Stored : Idle(t)})
    BY <1>15, <2>1, KeyOrderIsSeq DEF Restart, Requeue
  <2>3. taskListIdle' \in Seq({t \in Task : Idle(t)})
    BY <2>1, <2>2
  <2>4. restarts' \in 0..MaxRestarts
    BY <1>15 DEF TypeOK, Restart, Requeue
  <2> QED BY <1>15, <2>1, <2>3, <2>4 DEF TypeOK, Restart, Requeue, Handling
<1>16. CASE UNCHANGED vars
  BY <1>16 DEF TypeOK, vars, Handling
<1> QED
  BY <1>1, <1>2, <1>3, <1>4, <1>5, <1>6, <1>7, <1>8, <1>9, <1>10, <1>11, <1>12, <1>13,
     <1>14, <1>15, <1>16 DEF Next, MainNext, ProvNext

LEMMA TypeInit == Init => TypeOK
<1> SUFFICES ASSUME Init PROVE TypeOK
  OBVIOUS
<1>1. taskListIdle \in Seq({t \in Task : Idle(t)})
  BY DEF Init
<1>2. /\ client \in [Task -> {"new", "sent", "queued", "stuck"}]
      /\ store \in [Id -> Task \cup {NoTask}]
      /\ accepted \in [Task -> 0..MaxSubmits]
  BY PitcherConstants DEF Init
<1>3. /\ mtask \in Task \cup {NoTask} /\ ptask \in Task \cup {NoTask}
      /\ taskList \in SUBSET {t \in Task : Forwarded(t)}
      /\ restarts \in 0..MaxRestarts
      /\ raced \in SUBSET (0..MaxRestarts)
  BY PitcherConstants DEF Init
<1>4. main = "boot" /\ prov = "loop"
  BY DEF Init
<1>5. active \in BOOLEAN
  BY Zenon DEF Init
<1> QED BY <1>1, <1>2, <1>3, <1>4, <1>5 DEF TypeOK, Handling

\* The pitcher keeps its types.
THEOREM TypeCorrect == Spec => []TypeOK
BY TypeInit, TypeStep, PTL DEF Spec

-----------------------------------------------------------------------------
(* No acknowledged task is lost.  The invariant adds to AckedIsDurable the task
   the main thread has stored but not yet answered, and what the provision
   thread knows before it deletes a task from the store. *)

Promised(t) == client[t] = "queued" \/ (main \in {"push", "reply"} /\ mtask = t)
PromisedIsDurable ==
    \A t \in Task : Forwarded(t) /\ Promised(t) => accepted[t] > 0 \/ store[idOf[t]] = t
DoneIsAccepted == prov = "done" /\ Forwarded(ptask) => accepted[ptask] > 0

DurableInv == TypeOK /\ PromisedIsDurable /\ DoneIsAccepted

LEMMA DurableStep == UniqueIds /\ DurableInv /\ [Next]_vars => DurableInv'
<1> SUFFICES ASSUME UniqueIds, DurableInv, [Next]_vars
             PROVE  PromisedIsDurable' /\ DoneIsAccepted'
  BY TypeStep DEF DurableInv
<1> USE PitcherConstants DEF DurableInv
<1>1. CASE \E t \in Task : Submit(t)
  BY <1>1 DEF TypeOK, Submit, PromisedIsDurable, Promised, DoneIsAccepted
<1>2. CASE Boot
  BY <1>2 DEF Boot, PromisedIsDurable, Promised, DoneIsAccepted
<1>3. CASE \E t \in Task : Receive(t)
  BY <1>3 DEF Receive, PromisedIsDurable, Promised, DoneIsAccepted, Forwarded
<1>4. CASE Put
  <2>1. mtask \in Task
    BY <1>4 DEF TypeOK, Put, Handling
  <2>2. \A t \in Task : store'[idOf[t]] = IF t = mtask THEN mtask ELSE store[idOf[t]]
    BY <1>4, <2>1 DEF TypeOK, Put, UniqueIds
  <2> QED BY <1>4, <2>1, <2>2 DEF Put, PromisedIsDurable, Promised, DoneIsAccepted
<1>5. CASE Push
  BY <1>5 DEF Push, PromisedIsDurable, Promised, DoneIsAccepted
<1>6. CASE Reply
  BY <1>6 DEF TypeOK, Reply, PromisedIsDurable, Promised, DoneIsAccepted
<1>7. CASE Loop
  BY <1>7 DEF Loop, PromisedIsDurable, Promised, DoneIsAccepted
<1>8. CASE Pop
  BY <1>8 DEF Pop, PromisedIsDurable, Promised, DoneIsAccepted
<1>9. CASE PopIdle
  <2>1. ~Forwarded(ptask')
    BY <1>9 DEF TypeOK, PopIdle, Forwarded, Idle
  <2> QED BY <1>9, <2>1 DEF PopIdle, PromisedIsDurable, Promised, DoneIsAccepted
<1>10. CASE Send
  BY <1>10 DEF Send, PromisedIsDurable, Promised, DoneIsAccepted
<1>11. CASE MasterAccepts \/ MasterLost
  <2>1. ptask \in Task
    BY <1>11 DEF TypeOK, MasterAccepts, MasterLost
  <2>2. /\ \A u \in Task : accepted[u] > 0 => accepted'[u] > 0
        /\ MasterAccepts => accepted'[ptask] > 0
    BY <1>11, <2>1, CountIsNat DEF MasterAccepts, MasterLost
  <2> QED BY <1>11, <2>1, <2>2
          DEF MasterAccepts, MasterLost, PromisedIsDurable, Promised, DoneIsAccepted
<1>12. CASE DoneTask
  <2>1. ptask \in Task
    BY <1>12 DEF TypeOK, DoneTask
  <2>2. \A t \in Task : t # ptask => store'[idOf[t]] = store[idOf[t]]
    BY <1>12, <2>1 DEF TypeOK, DoneTask, UniqueIds
  <2> QED BY <1>12, <2>1, <2>2 DEF DoneTask, PromisedIsDurable, Promised, DoneIsAccepted
<1>13. CASE Crash \/ Interrupt
  <2>1. \A t \in Task : client'[t] = "queued" => client[t] = "queued"
    BY <1>13 DEF TypeOK, Crash, Interrupt, Halt
  <2> QED BY <1>13, <2>1
          DEF Crash, Interrupt, Halt, PromisedIsDurable, Promised, DoneIsAccepted
<1>14. CASE Restart
  BY <1>14 DEF Restart, Requeue, PromisedIsDurable, Promised, DoneIsAccepted
<1>15. CASE UNCHANGED vars
  BY <1>15 DEF vars, PromisedIsDurable, Promised, DoneIsAccepted
<1> QED
  BY <1>1, <1>2, <1>3, <1>4, <1>5, <1>6, <1>7, <1>8, <1>9, <1>10, <1>11, <1>12, <1>13,
     <1>14, <1>15 DEF Next, MainNext, ProvNext

\* When no two tasks carry the same id, no task that was answered QUEUED is
\* lost, through any interleaving of the threads and any number of deaths.
THEOREM AckedIsDurableTheorem == UniqueIds /\ Spec => []AckedIsDurable
<1> SUFFICES ASSUME UniqueIds PROVE Spec => []AckedIsDurable
  OBVIOUS
<1>1. Init => DurableInv
  BY TypeInit DEF Init, DurableInv, PromisedIsDurable, Promised, DoneIsAccepted
<1>2. DurableInv => AckedIsDurable
  BY DEF DurableInv, PromisedIsDurable, Promised, AckedIsDurable
<1>3. DurableInv /\ [Next]_vars => DurableInv'
  BY DurableStep
<1> QED BY <1>1, <1>2, <1>3, PTL DEF Spec

-----------------------------------------------------------------------------
(* Nothing waits in the store for the next restart.  The invariant adds that an
   entry is filed under its own id and is of a kind that queuCache puts back. *)

StoreKeyed ==
    \A i \in Id : store[i] # NoTask =>
        idOf[store[i]] = i /\ (Forwarded(store[i]) \/ Idle(store[i]))

InMemory(i) ==
    \/ store[i] \in taskList
    \/ \E k \in 1..Len(taskListIdle) : taskListIdle[k] = store[i]
    \/ prov \in {"send", "await", "done", "hung"} /\ ptask = store[i]
    \/ main = "push" /\ mtask = store[i]

MemoryInv == TypeOK /\ StoreKeyed /\ MemoryCoversStore

\* queuCache finds room for every idle task: a list in key order has them all.
LEMMA KeyOrderIsOnto ==
    ASSUME NEW S \in SUBSET Task, NEW s \in KeyOrder(S), NEW t \in S
    PROVE  \E k \in 1..Len(s) : s[k] = t
<1>1. IsFiniteSet(S) /\ Cardinality(S) \in Nat
  BY FS_Subset, FS_CardinalityType, PitcherConstants
<1> DEFINE n == Cardinality(S)
<1>2. s \in [1..n -> S] /\ Len(s) = n
  BY <1>1 DEF KeyOrder
<1>3. ASSUME NEW i \in 1..n, NEW j \in 1..n, s[i] = s[j]
      PROVE  i = j
  <2>1. \A a, b \in 1..n : a < b => keyRank[idOf[s[a]]] < keyRank[idOf[s[b]]]
    BY DEF KeyOrder
  <2>2. s[i] \in Task /\ keyRank[idOf[s[i]]] \in Nat
    BY <1>2, PitcherConstants
  <2>3. ~(i < j) /\ ~(j < i)
    BY <1>3, <2>1, <2>2
  <2> QED BY <1>1, <2>3
<1>4. s \in Injection(1..n, S)
  BY <1>2, <1>3 DEF Injection, IsInjective
<1>5. IsFiniteSet(1..n) /\ Cardinality(1..n) = n
  BY <1>1, FS_Interval
<1>6. s \in Surjection(1..n, S)
  BY <1>1, <1>4, <1>5, FS_Injection
<1> QED BY <1>2, <1>6 DEF Surjection

LEMMA KeyedStep == TypeOK /\ StoreKeyed /\ [Next]_vars => StoreKeyed'
<1> SUFFICES ASSUME TypeOK, StoreKeyed, [Next]_vars PROVE StoreKeyed'
  OBVIOUS
<1> USE PitcherConstants
<1>1. CASE Put
  <2>1. mtask \in Task /\ (Forwarded(mtask) \/ Idle(mtask))
    BY <1>1 DEF TypeOK, Put, Handling
  <2> QED BY <1>1, <2>1 DEF TypeOK, Put, StoreKeyed, Forwarded, Idle
<1>2. CASE DoneTask
  BY <1>2 DEF TypeOK, DoneTask, StoreKeyed, Forwarded, Idle
<1>3. CASE UNCHANGED store
  BY <1>3 DEF StoreKeyed, Forwarded, Idle
<1> QED
  BY <1>1, <1>2, <1>3 DEF Next, MainNext, ProvNext, Submit, Boot, Receive, Push, Reply,
     Loop, Pop, PopIdle, Send, MasterAccepts, MasterLost, Crash, Interrupt, Halt,
     Restart, Requeue, vars

LEMMA MemoryStep == MemoryInv /\ [Next]_vars => MemoryInv'
<1> SUFFICES ASSUME MemoryInv, [Next]_vars, (main # "down" /\ ~Racy)',
                    NEW i \in Id, store'[i] # NoTask
             PROVE  InMemory(i)'
  BY TypeStep, KeyedStep DEF MemoryInv, MemoryCoversStore, InMemory
<1> USE PitcherConstants
<1>0. /\ TypeOK /\ StoreKeyed
      /\ main # "down" /\ ~Racy => (store[i] # NoTask => InMemory(i))
  BY DEF MemoryInv, MemoryCoversStore, InMemory
<1>1. CASE \E t \in Task : Submit(t)
  BY <1>0, <1>1 DEF Submit, InMemory, Racy
<1>2. CASE Boot
  BY <1>0, <1>2 DEF Boot, InMemory, Racy
<1>3. CASE \E t \in Task : Receive(t)
  BY <1>0, <1>3 DEF Receive, InMemory, Racy
<1>4. CASE Put
  <2>1. mtask \in Task
    BY <1>0, <1>4 DEF TypeOK, Put, Handling
  <2>2. store'[i] = IF i = idOf[mtask] THEN mtask ELSE store[i]
    BY <1>0, <1>4, <2>1 DEF TypeOK, Put
  <2> QED BY <1>0, <1>4, <2>1, <2>2 DEF Put, InMemory, Racy
<1>5. CASE Push
  <2>1. mtask \in Task /\ restarts \in 0..MaxRestarts
    BY <1>0, <1>5 DEF TypeOK, Push, Handling
  <2>2. ~Racy /\ main # "down" /\ store' = store
    BY <1>5 DEF Push, Racy
  <2>3. CASE Idle(mtask)
    <3>1. prov # "popIdle" /\ taskListIdle' = Append(taskListIdle, mtask) /\ taskList' = taskList
      BY <1>5, <2>3 DEF Push, Racy
    <3>2. taskListIdle \in Seq(Task)
      BY <1>0 DEF TypeOK
    <3>3. /\ \A k \in 1..Len(taskListIdle) : taskListIdle'[k] = taskListIdle[k]
          /\ taskListIdle'[Len(taskListIdle) + 1] = mtask
          /\ Len(taskListIdle') = Len(taskListIdle) + 1
          /\ Len(taskListIdle) \in Nat
      BY <2>1, <3>1, <3>2
    <3>4. InMemory(i)
      BY <1>0, <2>2
    <3>5. (\E k \in 1..Len(taskListIdle) : taskListIdle[k] = store[i]) \/ store[i] = mtask
             => \E k \in 1..Len(taskListIdle') : taskListIdle'[k] = store[i]
      BY <3>3
    <3> QED BY <1>5, <2>2, <3>1, <3>4, <3>5 DEF Push, InMemory
  <2>4. CASE ~Idle(mtask)
    <3>1. taskList' = taskList \cup {mtask} /\ taskListIdle' = taskListIdle
      BY <1>5, <2>4 DEF Push, Racy
    <3> QED BY <1>0, <1>5, <2>2, <3>1 DEF Push, InMemory
  <2> QED BY <2>3, <2>4
<1>6. CASE Reply
  BY <1>0, <1>6 DEF Reply, InMemory, Racy
<1>7. CASE Loop
  BY <1>0, <1>7 DEF Loop, InMemory, Racy
<1>8. CASE Pop
  <2>1. ~Racy /\ main # "down" /\ store' = store /\ ~(main = "push" /\ ~Idle(mtask))
    BY <1>8 DEF Pop, Racy
  <2>2. taskList' = taskList \ {ptask'} /\ taskListIdle' = taskListIdle
    BY <1>8, <2>1 DEF Pop
  <2> QED BY <1>0, <1>8, <2>1, <2>2 DEF Pop, InMemory
<1>9. CASE PopIdle
  <2>1. ~Racy /\ main # "down" /\ store' = store /\ ~(main = "push" /\ Idle(mtask))
    BY <1>9 DEF PopIdle, Racy
  <2>2. /\ taskListIdle' = Tail(taskListIdle) /\ taskList' = taskList
        /\ ptask' = Head(taskListIdle) /\ prov = "popIdle" /\ prov' = "done"
        /\ main' = main /\ mtask' = mtask
    BY <1>9, <2>1 DEF PopIdle
  <2>3. taskListIdle \in Seq(Task) /\ taskListIdle # <<>>
    BY <1>0, <2>2 DEF TypeOK
  <2>4. ASSUME NEW k \in 1..Len(taskListIdle), taskListIdle[k] = store[i]
        PROVE  \/ ptask' = store[i]
               \/ \E m \in 1..Len(taskListIdle') : taskListIdle'[m] = store[i]
    <3>1. CASE k = 1
      BY <2>2, <2>3, <2>4, <3>1
    <3>2. CASE k # 1
      <4>1. k - 1 \in 1..Len(Tail(taskListIdle)) /\ Tail(taskListIdle)[k - 1] = taskListIdle[k]
        BY <2>3, <3>2
      <4> QED BY <2>2, <2>4, <4>1
    <3> QED BY <3>1, <3>2
  <2>5. InMemory(i)
    BY <1>0, <2>1
  <2> QED BY <2>1, <2>2, <2>4, <2>5 DEF InMemory
<1>10. CASE Send
  BY <1>0, <1>10 DEF Send, InMemory, Racy
<1>11. CASE MasterAccepts \/ MasterLost
  BY <1>0, <1>11 DEF MasterAccepts, MasterLost, InMemory, Racy
<1>12. CASE DoneTask
  <2>1. ptask \in Task /\ prov = "done"
    BY <1>0, <1>12 DEF TypeOK, DoneTask
  <2>2. store'[i] = IF i = idOf[ptask] THEN NoTask ELSE store[i]
    BY <1>0, <1>12, <2>1 DEF TypeOK, DoneTask
  <2>3. store[i] # NoTask /\ i # idOf[ptask] /\ store'[i] = store[i]
    BY <2>2
  <2>4. store[i] # ptask
    BY <1>0, <2>3 DEF StoreKeyed
  <2> QED BY <1>0, <1>12, <2>1, <2>3, <2>4 DEF DoneTask, InMemory, Racy
<1>13. CASE Crash \/ Interrupt
  BY <1>13 DEF Crash, Interrupt, Halt
<1>14. CASE Restart
  <2>1. store' = store /\ store[i] \in Task /\ idOf[store[i]] = i
    BY <1>0, <1>14 DEF Restart, Requeue, TypeOK, StoreKeyed
  <2>2. store[i] \in Stored
    BY <2>1 DEF Stored
  <2>3. CASE Forwarded(store[i])
    BY <1>14, <2>1, <2>2, <2>3 DEF Restart, Requeue, InMemory
  <2>4. CASE Idle(store[i])
    <3> DEFINE idle == {t \in Stored : Idle(t)}
    <3>1. taskListIdle' \in KeyOrder(idle)
      BY <1>14 DEF Restart, Requeue
    <3>2. idle \in SUBSET Task /\ store[i] \in idle
      BY <2>2, <2>4 DEF Stored
    <3> HIDE DEF idle
    <3>3. \A s \in KeyOrder(idle), t \in idle : \E k \in 1..Len(s) : s[k] = t
      BY <3>2, KeyOrderIsOnto
    <3>4. \E k \in 1..Len(taskListIdle') : taskListIdle'[k] = store[i]
      BY <3>1, <3>2, <3>3
    <3> QED BY <2>1, <3>4 DEF InMemory
  <2> QED BY <1>0, <2>1, <2>3, <2>4 DEF StoreKeyed
<1>15. CASE UNCHANGED vars
  BY <1>0, <1>15 DEF vars, InMemory, Racy
<1> QED
  BY <1>1, <1>2, <1>3, <1>4, <1>5, <1>6, <1>7, <1>8, <1>9, <1>10, <1>11, <1>12, <1>13,
     <1>14, <1>15 DEF Next, MainNext, ProvNext

\* While the process is up and its threads have not raced, whatever is in the store
\* is on a queue or in the hands of a thread, after any number of deaths: queuCache
\* puts everything back, and push and pop keep hold of every task.
THEOREM MemoryCoversStoreTheorem == Spec => []MemoryCoversStore
<1>1. Init => MemoryInv
  BY TypeInit, PitcherConstants DEF Init, MemoryInv, StoreKeyed, MemoryCoversStore
<1>2. MemoryInv => MemoryCoversStore
  BY DEF MemoryInv
<1> QED BY <1>1, <1>2, MemoryStep, PTL DEF Spec

-----------------------------------------------------------------------------
(* Delivery is at least once, and the copies are counted.  As long as no two
   threads raced, an incarnation of the process has at most one copy of a task
   that can still be submitted: on the queue or in flight, never both. *)

\* The client still waits and push has not reached the queue in memory.
Fresh(t) == client[t] \in {"new", "sent"} /\ ~(main = "reply" /\ mtask = t)

InFlight(t) == prov \in {"send", "await"} /\ ptask = t

Copies(t) ==
    /\ Fresh(t) => accepted[t] = 0 /\ t \notin taskList /\ ~InFlight(t)
    /\ Fresh(t) /\ ~(main = "push" /\ mtask = t) => store[idOf[t]] # t
    /\ t \in taskList => accepted[t] <= restarts /\ ~InFlight(t)
    /\ InFlight(t) => accepted[t] <= restarts
    /\ accepted[t] <= restarts + 1

HandledIsSent == Handling => client[mtask] = "sent"

CopiesInv == TypeOK /\ HandledIsSent /\ (raced = {} => \A t \in Task : Copies(t))

LEMMA HandledStep == TypeOK /\ HandledIsSent /\ [Next]_vars => HandledIsSent'
<1> SUFFICES ASSUME TypeOK, HandledIsSent, [Next]_vars PROVE HandledIsSent'
  OBVIOUS
<1>1. CASE \E t \in Task : Submit(t)
  BY <1>1 DEF TypeOK, HandledIsSent, Submit, Handling
<1>2. CASE Crash \/ Interrupt \/ Restart \/ Boot \/ Reply
  BY <1>2 DEF Crash, Interrupt, Halt, Restart, Requeue, Boot, Reply, HandledIsSent, Handling
<1>3. CASE \E t \in Task : Receive(t)
  BY <1>3 DEF HandledIsSent, Receive, Handling
<1>4. CASE Put \/ Push
  BY <1>4 DEF HandledIsSent, Put, Push, Handling
<1>5. CASE UNCHANGED <<client, main, mtask>>
  BY <1>5 DEF HandledIsSent, Handling
<1> QED
  BY <1>1, <1>2, <1>3, <1>4, <1>5 DEF Next, MainNext, ProvNext, Loop, Pop, PopIdle, Send,
     DoneTask, MasterAccepts, MasterLost, vars

\* An answer of the master counts at most one copy, of the task in hand.
LEMMA CountAddsOne ==
    ASSUME TypeOK, NEW u \in Task, NEW t \in Task
    PROVE  /\ u # t => Count(u)[t] = accepted[t]
           /\ Count(u)[t] <= accepted[t] + 1
<1>1. accepted \in [Task -> 0..MaxSubmits] /\ MaxSubmits \in Nat
  BY PitcherConstants DEF TypeOK
<1> QED BY <1>1 DEF Count

LEMMA CopiesStep == CopiesInv /\ [Next]_vars => CopiesInv'
<1> SUFFICES ASSUME CopiesInv, [Next]_vars, raced' = {}, NEW t \in Task
             PROVE  Copies(t)'
  BY TypeStep, HandledStep DEF CopiesInv
<1> USE PitcherConstants
<1>0. TypeOK /\ HandledIsSent /\ (raced = {} => Copies(t))
  BY DEF CopiesInv
<1>a. accepted[t] \in Nat /\ restarts \in Nat /\ accepted \in [Task -> Nat]
  BY <1>0 DEF TypeOK
<1>1. CASE \E u \in Task : Submit(u)
  <2>1. UNCHANGED <<main, mtask, prov, ptask, taskList, store, accepted, restarts, raced>>
    BY <1>1 DEF Submit
  <2>2. client'[t] = client[t] \/ (client[t] = "new" /\ client'[t] = "sent")
    BY <1>0, <1>1 DEF TypeOK, Submit
  <2>3. (Fresh(t)' <=> Fresh(t)) /\ (InFlight(t)' <=> InFlight(t))
    BY <2>1, <2>2 DEF Fresh, InFlight
  <2> QED BY <1>0, <2>1, <2>3 DEF Copies
<1>2. CASE Boot
  BY <1>0, <1>2 DEF Boot, Copies, Fresh, InFlight
<1>3. CASE \E u \in Task : Receive(u)
  BY <1>0, <1>3 DEF Receive, Copies, Fresh, InFlight
<1>4. CASE Put
  <2>1. mtask \in Task
    BY <1>0, <1>4 DEF TypeOK, Put, Handling
  <2>2. t # mtask /\ store[idOf[t]] # t => store'[idOf[t]] # t
    BY <1>0, <1>4, <2>1 DEF TypeOK, Put
  <2> QED BY <1>0, <1>4, <2>2 DEF Put, Copies, Fresh, InFlight
<1>5. CASE Push
  <2>1. mtask \in Task /\ client[mtask] = "sent" /\ main = "push" /\ main' = "reply"
    BY <1>0, <1>5 DEF TypeOK, HandledIsSent, Push, Handling
  <2>2. raced = {} /\ (taskList' = taskList \/ taskList' = taskList \cup {mtask})
    BY <1>5 DEF Push
  <2>3. UNCHANGED <<client, mtask, prov, ptask, store, accepted, restarts>>
    BY <1>5 DEF Push
  <2>4. CASE t = mtask
    BY <1>0, <1>a, <2>1, <2>2, <2>3, <2>4 DEF Copies, Fresh, InFlight
  <2>5. CASE t # mtask
    BY <1>0, <2>1, <2>2, <2>3, <2>5 DEF Copies, Fresh, InFlight
  <2> QED BY <2>4, <2>5
<1>6. CASE Reply
  <2>1. client'[t] = IF t = mtask THEN "queued" ELSE client[t]
    BY <1>0, <1>6 DEF TypeOK, Reply
  <2> QED BY <1>0, <1>6, <2>1 DEF Reply, Copies, Fresh, InFlight
<1>7. CASE Loop
  BY <1>0, <1>7 DEF Loop, Copies, Fresh, InFlight
<1>8. CASE Pop
  <2>1. raced = {} /\ taskList' = taskList \ {ptask'} /\ ptask' \in taskList
    BY <1>8 DEF Pop, Front
  <2>2. /\ prov = "pop" /\ prov' = "send"
        /\ UNCHANGED <<client, main, mtask, store, accepted, restarts>>
    BY <1>8 DEF Pop
  <2> QED BY <1>0, <2>1, <2>2 DEF Copies, Fresh, InFlight
<1>9. CASE PopIdle
  BY <1>0, <1>9 DEF PopIdle, Copies, Fresh, InFlight
<1>10. CASE Send
  BY <1>0, <1>10 DEF Send, Copies, Fresh, InFlight
<1>11. CASE MasterAccepts \/ MasterLost
  <2>1. /\ ptask \in Task /\ prov = "await" /\ prov' \in {"done", "hung"} /\ raced = {}
        /\ UNCHANGED <<client, main, mtask, taskList, store, restarts, ptask>>
        /\ accepted' = accepted \/ accepted' = Count(ptask)
    BY <1>0, <1>11 DEF TypeOK, MasterAccepts, MasterLost
  <2>2. accepted' = accepted \/ (accepted'[t] <= accepted[t] + 1 /\ (ptask # t => accepted'[t] = accepted[t]))
    BY <1>0, <2>1, CountAddsOne
  <2>3. accepted'[t] \in Nat
    BY <1>0, <1>a, <2>1, CountIsNat
  <2>4. CASE ptask = t
    BY <1>0, <1>a, <2>1, <2>2, <2>3, <2>4 DEF Copies, Fresh, InFlight
  <2>5. CASE ptask # t
    BY <1>0, <1>a, <2>1, <2>2, <2>3, <2>5 DEF Copies, Fresh, InFlight
  <2> QED BY <2>4, <2>5
<1>12. CASE DoneTask
  <2>1. store[idOf[t]] # t => store'[idOf[t]] # t
    BY <1>0, <1>12 DEF TypeOK, DoneTask
  <2> QED BY <1>0, <1>12, <2>1 DEF DoneTask, Copies, Fresh, InFlight
<1>13. CASE Crash \/ Interrupt
  <2>1. client'[t] \in {"new", "sent"} => client[t] = client'[t] /\ ~(Handling /\ t = mtask)
    BY <1>0, <1>13 DEF TypeOK, Crash, Interrupt, Halt
  <2>2. /\ main' = "down" /\ prov' = "off" /\ taskList' = {}
        /\ UNCHANGED <<store, accepted, restarts, raced>>
    BY <1>13 DEF Crash, Interrupt, Halt
  <2> QED BY <1>0, <2>1, <2>2 DEF Copies, Fresh, InFlight, Handling
<1>14. CASE Restart
  <2>1. /\ main = "down" /\ main' = "boot" /\ prov' = "loop" /\ restarts' = restarts + 1
        /\ UNCHANGED <<client, store, accepted, raced>>
        /\ t \in taskList' => store[idOf[t]] = t
    BY <1>14 DEF Restart, Requeue, Stored
  <2> QED BY <1>0, <1>a, <2>1 DEF Copies, Fresh, InFlight
<1>15. CASE UNCHANGED vars
  BY <1>0, <1>15 DEF vars, Copies, Fresh, InFlight
<1> QED
  BY <1>1, <1>2, <1>3, <1>4, <1>5, <1>6, <1>7, <1>8, <1>9, <1>10, <1>11, <1>12, <1>13,
     <1>14, <1>15 DEF Next, MainNext, ProvNext

\* Without a race on the queue each incarnation of the pitcher submits a task at
\* most once, so the master gets at most one copy more than there were restarts.
\* It holds for any ids: doneTask may delete another task's entry, never add one.
THEOREM DuplicatesBoundedTheorem == Spec => []DuplicatesBounded
<1>1. Init => CopiesInv
  BY TypeInit, PitcherConstants
     DEF Init, CopiesInv, HandledIsSent, Handling, Copies, Fresh, InFlight
<1>2. CopiesInv => DuplicatesBounded
  BY DEF CopiesInv, Copies, DuplicatesBounded
<1> QED BY <1>1, <1>2, CopiesStep, PTL DEF Spec
=============================================================================
