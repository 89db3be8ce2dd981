------------------------------ MODULE Pitcher ------------------------------
(***************************************************************************)
(* The pitcher service: a REP socket that queues tasks (the main thread),  *)
(* a queue mirrored in a LevelDB store, and a provision thread that feeds  *)
(* the queue to the chella master.  The two threads share the queue        *)
(* without a lock, and the process may die at any point.                   *)
(***************************************************************************)
EXTENDS Naturals, Sequences, FiniteSets

CONSTANTS Task,        \* task messages, each sent by one client
          Id,          \* values of Task.id, the key of a task in the store
          idOf,        \* the id a task carries
          prio,        \* the priority a task carries
          keyRank,     \* position of to_string(id) in the store's key order
          NoTask,      \* "no task"
          MaxRestarts, \* bound: how often the process is started again
          MaxSubmits   \* bound: where the count of submissions saturates

Priority == {"REALTIME", "HIGH", "NORMAL", "LOW", "IDLE"}

ASSUME PitcherConstants ==
    /\ idOf \in [Task -> Id]
    /\ prio \in [Task -> Priority]
    /\ keyRank \in [Id -> Nat]
    /\ \A i, j \in Id : keyRank[i] = keyRank[j] => i = j
    /\ IsFiniteSet(Task)
    /\ NoTask \notin Task
    /\ MaxRestarts \in Nat
    /\ MaxSubmits \in Nat \ {0}

VARIABLES
    client,        \* the sender of each task: new, sent, queued (answered) or stuck
    main, mtask,   \* main thread: where it is and the task it handles
    prov, ptask,   \* provision thread: where it is and the task it handles
    active,        \* Provision::_active
    taskList,      \* the priority queue
    taskListIdle,  \* the idle queue
    store,         \* the LevelDB store: id -> task
    accepted,      \* history: how often the master has accepted each task
    restarts,      \* history: number of restarts, i.e. the current incarnation
    raced          \* history: incarnations in which the threads raced on a queue

vars == <<client, main, mtask, prov, ptask, active, taskList, taskListIdle,
          store, accepted, restarts, raced>>

Handling == main \in {"put", "push", "reply"}
Forwarded(t) == prio[t] \in {"HIGH", "NORMAL", "LOW"}
Idle(t) == prio[t] = "IDLE"
Racy == restarts \in raced

\* Task::QueuePriority: a smaller number is served first.
Rank == [p \in Priority |->
            CASE p = "REALTIME" -> 0 [] p = "HIGH" -> 1 [] p = "NORMAL" -> 2
              [] p = "LOW" -> 3 [] p = "IDLE" -> 4]

Stored == {t \in Task : store[idOf[t]] = t}

\* Tasks a thread-safe priority_queue could have on top.  Once two threads have
\* modified the heap at the same time its order is gone.
Front(disordered) ==
    {t \in taskList : disordered \/ \A u \in taskList : Rank[prio[t]] <= Rank[prio[u]]}

Init ==
    /\ client = [t \in Task |-> "new"]
    /\ main = "boot" /\ mtask = NoTask
    /\ prov = "loop" /\ ptask = NoTask
    /\ active = FALSE
    /\ taskList = {} /\ taskListIdle = <<>>
    /\ store = [i \in Id |-> NoTask]
    /\ accepted = [t \in Task |-> 0]
    /\ restarts = 0 /\ raced = {}

-----------------------------------------------------------------------------
(* The client: extract's Queue action sends and blocks for the reply. *)

Submit(t) ==
    /\ client[t] = "new"
    /\ client' = [client EXCEPT ![t] = "sent"]
    /\ UNCHANGED <<main, mtask, prov, ptask, active, taskList, taskListIdle,
                   store, accepted, restarts, raced>>

(* The main thread. *)

\* Provision::start assigns _active only after it has created the thread.
Boot ==
    /\ main = "boot"
    /\ main' = "recv" /\ active' = TRUE
    /\ UNCHANGED <<client, mtask, prov, ptask, taskList, taskListIdle, store,
                   accepted, restarts, raced>>

\* REALTIME tasks are answered like any other but kept nowhere.
Receive(t) ==
    /\ main = "recv" /\ client[t] = "sent"
    /\ mtask' = t
    /\ main' = IF prio[t] = "REALTIME" THEN "reply" ELSE "put"
    /\ UNCHANGED <<client, prov, ptask, active, taskList, taskListIdle, store,
                   accepted, restarts, raced>>

\* Queue::push, first half: the store.
Put ==
    /\ main = "put"
    /\ store' = [store EXCEPT ![idOf[mtask]] = mtask]
    /\ main' = "push"
    /\ UNCHANGED <<client, mtask, prov, ptask, active, taskList, taskListIdle,
                   accepted, restarts, raced>>

\* Queue::push, second half: the queue in memory.  When the provision thread is
\* inside getNextTask the unsynchronised update may be lost.
Push ==
    /\ main = "push"
    /\ main' = "reply"
    /\ \/ /\ Idle(mtask)
          /\ taskListIdle' \in {Append(taskListIdle, mtask)} \cup
                 (IF prov = "popIdle" THEN {taskListIdle} ELSE {})
          /\ raced' = raced \cup (IF prov = "popIdle" THEN {restarts} ELSE {})
          /\ UNCHANGED taskList
       \/ /\ ~Idle(mtask)
          /\ taskList' \in {taskList \cup {mtask}} \cup
                 (IF prov = "pop" THEN {taskList} ELSE {})
          /\ raced' = raced \cup (IF prov = "pop" THEN {restarts} ELSE {})
          /\ UNCHANGED taskListIdle
    /\ UNCHANGED <<client, mtask, prov, ptask, active, store, accepted, restarts>>

Reply ==
    /\ main = "reply"
    /\ client' = [client EXCEPT ![mtask] = "queued"]
    /\ main' = "recv" /\ mtask' = NoTask
    /\ UNCHANGED <<prov, ptask, active, taskList, taskListIdle, store, accepted,
                   restarts, raced>>

-----------------------------------------------------------------------------
(* The provision thread. *)

\* The head of runTask's loop.  With both queues empty the thread sleeps.
Loop ==
    /\ prov = "loop"
    /\ \/ ~active /\ prov' = "exited"
       \/ active /\ taskList # {} /\ prov' = "pop"
       \/ active /\ taskList = {} /\ taskListIdle # <<>> /\ prov' = "popIdle"
    /\ UNCHANGED <<client, main, mtask, ptask, active, taskList, taskListIdle,
                   store, accepted, restarts, raced>>

\* Mutant: getNextTask reads top() and forgets pop().
PopKeepsTask ==
    /\ prov = "pop"
    /\ \E t \in Front(FALSE) : ptask' = t
    /\ prov' = "send"
    /\ UNCHANGED <<client, main, mtask, active, taskList, taskListIdle, store,
                   accepted, restarts, raced>>

\* getNextTask.  In a race with Push the removal may be lost, too.
Pop ==
    /\ prov = "pop"
    /\ LET race == main = "push" /\ ~Idle(mtask)
       IN  /\ \E t \in Front(Racy \/ race) :
                 /\ ptask' = t
                 /\ taskList' \in {taskList \ {t}} \cup (IF race THEN {taskList} ELSE {})
           /\ raced' = raced \cup (IF race THEN {restarts} ELSE {})
    /\ prov' = "send"
    /\ UNCHANGED <<client, main, mtask, active, taskListIdle, store, accepted, restarts>>

\* getNextIdleTask.  An idle task is not sent anywhere: it goes on to doneTask.
PopIdle ==
    /\ prov = "popIdle"
    /\ ptask' = Head(taskListIdle)
    /\ LET race == main = "push" /\ Idle(mtask)
       IN  /\ taskListIdle' \in {Tail(taskListIdle)} \cup
                  (IF race THEN {taskListIdle} ELSE {})
           /\ raced' = raced \cup (IF race THEN {restarts} ELSE {})
    /\ prov' = "done"
    /\ UNCHANGED <<client, main, mtask, active, taskList, store, accepted, restarts>>

\* Mutant: doneTask is called before the job is sent.
SendDeletesFirst ==
    /\ prov = "send"
    /\ store' = [store EXCEPT ![idOf[ptask]] = NoTask]
    /\ prov' = "await"
    /\ UNCHANGED <<client, main, mtask, ptask, active, taskList, taskListIdle,
                   accepted, restarts, raced>>

Send ==
    /\ prov = "send"
    /\ prov' = "await"
    /\ UNCHANGED <<client, main, mtask, ptask, active, taskList, taskListIdle,
                   store, accepted, restarts, raced>>

Count(t) == [accepted EXCEPT ![t] = IF @ < MaxSubmits THEN @ + 1 ELSE @]

\* The chella master queues the job and answers.
MasterAccepts ==
    /\ prov = "await"
    /\ accepted' = Count(ptask)
    /\ prov' = "done"
    /\ UNCHANGED <<client, main, mtask, ptask, active, taskList, taskListIdle,
                   store, restarts, raced>>

\* The master dies with the request, before or after it has queued the job: the
\* REQ socket has no timeout and waits for ever.
MasterLost ==
    /\ prov = "await"
    /\ accepted' \in {accepted, Count(ptask)}
    /\ prov' = "hung"
    /\ UNCHANGED <<client, main, mtask, ptask, active, taskList, taskListIdle,
                   store, restarts, raced>>

\* Queue::doneTask deletes by id.
DoneTask ==
    /\ prov = "done"
    /\ store' = [store EXCEPT ![idOf[ptask]] = NoTask]
    /\ prov' = "loop" /\ ptask' = NoTask
    /\ UNCHANGED <<client, main, mtask, active, taskList, taskListIdle, accepted,
                   restarts, raced>>

-----------------------------------------------------------------------------
(* The process. *)

\* Everything in memory is gone.  The client of the task in hand, and of any
\* request the socket had already read, never gets a reply.
Halt ==
    /\ restarts < MaxRestarts
    /\ \E lost \in SUBSET {t \in Task : client[t] = "sent"} :
          client' = [t \in Task |-> IF t \in lost \/ (Handling /\ t = mtask)
                                    THEN "stuck" ELSE client[t]]
    /\ main' = "down" /\ mtask' = NoTask
    /\ prov' = "off" /\ ptask' = NoTask
    /\ active' = FALSE /\ taskList' = {} /\ taskListIdle' = <<>>
    /\ UNCHANGED <<store, accepted, restarts, raced>>

Crash == main # "down" /\ Halt

\* A signal ends the receive loop; stop() then joins the thread that start()
\* has detached, which throws, so the process aborts.
Interrupt == main = "recv" /\ Halt

KeyOrder(S) ==
    {s \in [1..Cardinality(S) -> S] :
        \A i, j \in 1..Cardinality(S) : i < j => keyRank[idOf[s[i]]] < keyRank[idOf[s[j]]]}

Requeue(forwarded, idle) ==
    /\ main = "down"
    /\ main' = "boot" /\ prov' = "loop"
    /\ taskList' = forwarded
    /\ taskListIdle' \in KeyOrder(idle)
    /\ restarts' = restarts + 1
    /\ UNCHANGED <<client, mtask, ptask, active, store, accepted, raced>>

\* Mutants: queuCache ignores the priority; it leaves out the idle tasks; the
\* constructor does not call it.
RestartIgnoresPriority == Requeue(Stored, {})
RestartSkipsIdle == Requeue({t \in Stored : Forwarded(t)}, {})
RestartForgets == Requeue({}, {})

\* The static queue object is built first: queuCache puts the stored tasks back
\* in key order, then the provision thread is created.
Restart == Requeue({t \in Stored : Forwarded(t)}, {t \in Stored : Idle(t)})

MainNext == Boot \/ (\E t \in Task : Receive(t)) \/ Put \/ Push \/ Reply
ProvNext == Loop \/ Pop \/ PopIdle \/ Send \/ DoneTask
Next == \/ \E t \in Task : Submit(t)
        \/ MainNext
        \/ ProvNext
        \/ MasterAccepts \/ MasterLost
        \/ Crash \/ Interrupt \/ Restart

Spec == Init /\ [][Next]_vars

\* Threads that can run do run, a master that is up answers, and a pitcher that
\* died is started again.  Nothing obliges a client to submit or a process to die.
FairSpec == Spec /\ WF_vars(MainNext) /\ WF_vars(ProvNext)
                 /\ WF_vars(MasterAccepts \/ MasterLost) /\ WF_vars(Restart)

-----------------------------------------------------------------------------
(* Properties. *)

\* Type invariant.  The queues hold only the priorities push() sorts into them,
\* and a thread that is handling a task, or is about to take one, has one.
TypeOK ==
    /\ client \in [Task -> {"new", "sent", "queued", "stuck"}]
    /\ main \in {"down", "boot", "recv", "put", "push", "reply"}
    /\ mtask \in Task \cup {NoTask}
    /\ Handling => mtask \in Task
    /\ main \in {"put", "push"} => Forwarded(mtask) \/ Idle(mtask)
    /\ prov \in {"off", "loop", "pop", "popIdle", "send", "await", "done", "hung", "exited"}
    /\ ptask \in Task \cup {NoTask}
    /\ prov \in {"send", "await", "done", "hung"} => ptask \in Task
    /\ active \in BOOLEAN
    /\ taskList \in SUBSET {t \in Task : Forwarded(t)}
    /\ taskListIdle \in Seq({t \in Task : Idle(t)})
    /\ prov = "popIdle" => taskListIdle # <<>>
    /\ store \in [Id -> Task \cup {NoTask}]
    /\ accepted \in [Task -> 0..MaxSubmits]
    /\ restarts \in 0..MaxRestarts
    /\ main = "down" => restarts < MaxRestarts
    /\ raced \in SUBSET (0..MaxRestarts)

UniqueIds == \A a, b \in Task : idOf[a] = idOf[b] => a = b

\* A task whose client was told QUEUED is not lost, whatever races, deaths and
\* restarts follow: until the master has accepted it, it is in the store.
AckedIsDurable ==
    \A t \in Task : client[t] = "queued" /\ Forwarded(t)
                     => accepted[t] > 0 \/ store[idOf[t]] = t

\* While the process is up and its threads have not raced, every task in the
\* store is also in memory: on a queue or in the hands of one of the threads.
\* So nothing waits in the store for the next restart.
MemoryCoversStore ==
    main # "down" /\ ~Racy =>
        \A i \in Id : store[i] # NoTask =>
            \/ store[i] \in taskList
            \/ \E k \in 1..Len(taskListIdle) : taskListIdle[k] = store[i]
            \/ prov \in {"send", "await", "done", "hung"} /\ ptask = store[i]
            \/ main = "push" /\ mtask = store[i]

\* Delivery to the master is at least once.  Without a race each incarnation of
\* the process submits a task at most once, so the copies of a task are bounded
\* by the number of restarts.
DuplicatesBounded ==
    raced = {} => \A t \in Task : accepted[t] <= restarts + 1

\* A task answered QUEUED reaches the master, unless the provision thread left
\* its loop because start() set _active too late, hangs on a dead master, or
\* the threads raced.
AckedReachesMaster ==
    \A t \in Task :
        client[t] = "queued" /\ Forwarded(t)
            ~> accepted[t] > 0 \/ prov \in {"exited", "hung"} \/ Racy
=============================================================================
