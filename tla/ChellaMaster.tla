---------------------------- MODULE ChellaMaster ----------------------------
(***************************************************************************)
(* The chella master and the peers that talk to it: clients that submit    *)
(* jobs and workers that solicit an id and then poll for jobs.  Every peer *)
(* uses a REQ socket without a timeout: a request or a reply that dies     *)
(* with a process leaves its peer waiting.  The master keeps its job queue *)
(* in memory and only the job counter in LevelDB.                          *)
(***************************************************************************)
EXTENDS Naturals, Sequences, FiniteSets

CONSTANTS Job,         \* jobs, each submitted by one client
          Worker,      \* worker hosts
          None,        \* an empty inbox
          MaxRestarts, \* bound: how often the master is started again
          MaxLives     \* bound: how often each worker is started

ASSUME MasterConstants ==
    /\ IsFiniteSet(Job) /\ IsFiniteSet(Worker)
    /\ MaxRestarts \in Nat
    /\ MaxLives \in Nat \ {0}
    /\ None \notin [kind : {"job"}, job : Job]

VARIABLES
    up,             \* is the master running
    jobqueue,       \* sequence of jobs
    jobcounter,     \* Indexer::jobcounter
    stored,         \* the counter in LevelDB
    worker_counter, \* next worker id
    client,         \* submitter of a job: new, sent, accepted or stuck
    reqs,           \* worker requests the master has not handled yet
    inbox,          \* reply on its way to a worker
    wst,            \* worker process: down, solicit, ready, stalled or poll
    life,           \* number of the worker's current or last process
    wid,            \* worker's id and the master incarnation that issued it
    jid,            \* history: id and origin of each accepted job
    popped,         \* history: how often a job was taken off the queue
    received,       \* history: how often a job reached a worker
    restarts,       \* history: the master's incarnation
    crashes         \* history: how many incarnations ended without storeCounter

vars == <<up, jobqueue, jobcounter, stored, worker_counter, client, reqs, inbox,
          wst, life, wid, jid, popped, received, restarts, crashes>>
peers == <<client, reqs, inbox, wst, life, wid>>
history == <<jid, popped, received>>
masterState == <<up, jobqueue, jobcounter, stored, worker_counter, restarts, crashes>>

Request == [w : Worker, life : 1..MaxLives, kind : {"solicit", "poll"}]
Id == [id : Nat, inc : 0..MaxRestarts]

Init ==
    /\ up = TRUE
    /\ jobqueue = <<>>
    /\ jobcounter = 0 /\ stored = 0
    /\ worker_counter = 0
    /\ client = [j \in Job |-> "new"]
    /\ reqs = {}
    /\ inbox = [w \in Worker |-> None]
    /\ wst = [w \in Worker |-> "down"]
    /\ life = [w \in Worker |-> 0]
    /\ wid = [w \in Worker |-> None]
    /\ jid = [j \in Job |-> None]
    /\ popped = [j \in Job |-> 0]
    /\ received = [j \in Job |-> 0]
    /\ restarts = 0 /\ crashes = 0

Accepted(j) == jid[j] # None
InQueue(j) == \E k \in 1..Len(jobqueue) : jobqueue[k] = j
\* A worker that waits for a reply that will never come.
Hung(w) == /\ wst[w] \in {"solicit", "poll"}
           /\ inbox[w] = None
           /\ \A r \in reqs : r.w = w => r.life # life[w]

-----------------------------------------------------------------------------
(* The master's handlers.  They run one at a time, to completion. *)

\* A reply is dropped when the process that sent the request is gone.
Answer(r, msg) ==
    /\ reqs' = reqs \ {r}
    /\ inbox' = IF wst[r.w] # "down" /\ life[r.w] = r.life
                THEN [inbox EXCEPT ![r.w] = msg] ELSE inbox

\* Mutant: the counter is not advanced for the next worker.
SolicitSameId(r) ==
    /\ up /\ r.kind = "solicit"
    /\ Answer(r, [kind |-> "id", id |-> worker_counter, inc |-> restarts])
    /\ UNCHANGED <<up, jobqueue, jobcounter, stored, worker_counter, client, wst, life,
                   wid, history, restarts, crashes>>

HandleSolicit(r) ==
    /\ up /\ r.kind = "solicit"
    /\ Answer(r, [kind |-> "id", id |-> worker_counter, inc |-> restarts])
    /\ worker_counter' = worker_counter + 1
    /\ UNCHANGED <<up, jobqueue, jobcounter, stored, client, wst, life, wid,
                   history, restarts, crashes>>

\* Mutant: no reply is sent when the queue is empty.
PollUnanswered(r) ==
    /\ up /\ r.kind = "poll" /\ jobqueue = <<>>
    /\ reqs' = reqs \ {r}
    /\ UNCHANGED <<masterState, client, inbox, wst, life, wid, history>>

HandlePollEmpty(r) ==
    /\ up /\ r.kind = "poll" /\ jobqueue = <<>>
    /\ Answer(r, [kind |-> "empty"])
    /\ UNCHANGED <<masterState, client, wst, life, wid, history>>

\* Mutants: a job is sent and not removed; one job is sent and another removed;
\* the queue is served from the back.
PollKeepsJob(r) ==
    /\ up /\ r.kind = "poll" /\ jobqueue # <<>>
    /\ Answer(r, [kind |-> "job", job |-> Head(jobqueue)])
    /\ popped' = [popped EXCEPT ![Head(jobqueue)] = @ + 1]
    /\ UNCHANGED <<masterState, client, wst, life, wid, jid, received>>
PollSendsBack(r) ==
    /\ up /\ r.kind = "poll" /\ jobqueue # <<>>
    /\ Answer(r, [kind |-> "job", job |-> jobqueue[Len(jobqueue)]])
    /\ jobqueue' = Tail(jobqueue)
    /\ popped' = [popped EXCEPT ![jobqueue[1]] = @ + 1]
    /\ UNCHANGED <<up, jobcounter, stored, worker_counter, client, wst, life, wid,
                   jid, received, restarts, crashes>>
PollTakesBack(r) ==
    /\ up /\ r.kind = "poll" /\ jobqueue # <<>>
    /\ LET n == Len(jobqueue)
       IN  /\ Answer(r, [kind |-> "job", job |-> jobqueue[n]])
           /\ jobqueue' = SubSeq(jobqueue, 1, n - 1)
           /\ popped' = [popped EXCEPT ![jobqueue[n]] = @ + 1]
    /\ UNCHANGED <<up, jobcounter, stored, worker_counter, client, wst, life, wid,
                   jid, received, restarts, crashes>>

HandlePollJob(r) ==
    /\ up /\ r.kind = "poll" /\ jobqueue # <<>>
    /\ Answer(r, [kind |-> "job", job |-> Head(jobqueue)])
    /\ jobqueue' = Tail(jobqueue)
    /\ popped' = [popped EXCEPT ![Head(jobqueue)] = @ + 1]
    /\ UNCHANGED <<up, jobcounter, stored, worker_counter, client, wst, life, wid,
                   jid, received, restarts, crashes>>

\* handleIncommingJob.  The test !job.id() % 2 parses as (!id) % 2, so the counter
\* is stored for the job with id 0 only.
HandleIncommingJob(j) ==
    /\ up /\ client[j] = "sent"
    /\ jid' = [jid EXCEPT ![j] = [id |-> jobcounter, inc |-> restarts, epoch |-> crashes]]
    /\ jobcounter' = jobcounter + 1
    /\ jobqueue' = Append(jobqueue, j)
    /\ stored' = IF jobcounter = 0 THEN jobcounter + 1 ELSE stored
    /\ client' = [client EXCEPT ![j] = "accepted"]
    /\ UNCHANGED <<up, worker_counter, reqs, inbox, wst, life, wid, popped, received,
                   restarts, crashes>>

-----------------------------------------------------------------------------
(* The master process. *)

\* The master's memory is gone; the next process starts with the initial values.
Forget ==
    /\ up' = FALSE
    /\ jobqueue' = <<>> /\ jobcounter' = 0 /\ worker_counter' = 0

\* Requests that had reached the master die with it; the others wait in their
\* senders for the next master.
LoseRequests ==
    /\ \E lost \in SUBSET reqs : reqs' = reqs \ lost
    /\ \E lost \in SUBSET {j \in Job : client[j] = "sent"} :
          client' = [j \in Job |-> IF j \in lost THEN "stuck" ELSE client[j]]

\* Mutant: initMaster leaves its loop without storeCounter.
StopWithoutStore ==
    /\ up /\ restarts < MaxRestarts
    /\ Forget
    /\ LoseRequests
    /\ UNCHANGED <<stored, inbox, wst, life, wid, history, restarts, crashes>>

\* A signal interrupts the poll: the counter is stored, the queue is not, and
\* the replies already sent are still delivered.
Stop ==
    /\ up /\ restarts < MaxRestarts
    /\ stored' = jobcounter
    /\ Forget
    /\ LoseRequests
    /\ UNCHANGED <<inbox, wst, life, wid, history, restarts, crashes>>

Crash ==
    /\ up /\ restarts < MaxRestarts
    /\ crashes' = crashes + 1
    /\ Forget
    /\ LoseRequests
    /\ \E lost \in SUBSET Worker :
          inbox' = [w \in Worker |-> IF w \in lost THEN None ELSE inbox[w]]
    /\ UNCHANGED <<stored, wst, life, wid, history, restarts>>

\* initMaster and Indexer's constructor.
Start ==
    /\ ~up
    /\ up' = TRUE
    /\ jobcounter' = stored
    /\ restarts' = restarts + 1
    /\ UNCHANGED <<jobqueue, stored, worker_counter, peers, history, crashes>>

-----------------------------------------------------------------------------
(* Clients and workers. *)

Submit(j) ==
    /\ client[j] = "new"
    /\ client' = [client EXCEPT ![j] = "sent"]
    /\ UNCHANGED <<masterState, reqs, inbox, wst, life, wid, history>>

\* initSlave asks for a worker id.
WorkerSolicit(w) ==
    /\ wst[w] = "down" /\ life[w] < MaxLives
    /\ life' = [life EXCEPT ![w] = @ + 1]
    /\ wst' = [wst EXCEPT ![w] = "solicit"]
    /\ reqs' = reqs \cup {[w |-> w, life |-> life[w] + 1, kind |-> "solicit"]}
    /\ UNCHANGED <<masterState, client, inbox, wid, history>>

WorkerAccepted(w) ==
    /\ wst[w] = "solicit" /\ inbox[w] # None
    /\ wid' = [wid EXCEPT ![w] = [id |-> inbox[w].id, inc |-> inbox[w].inc]]
    /\ wst' = [wst EXCEPT ![w] = "ready"]
    /\ inbox' = [inbox EXCEPT ![w] = None]
    /\ UNCHANGED <<masterState, client, reqs, life, history>>

WorkerPoll(w) ==
    /\ wst[w] = "ready"
    /\ wst' = [wst EXCEPT ![w] = "poll"]
    /\ reqs' = reqs \cup {[w |-> w, life |-> life[w], kind |-> "poll"]}
    /\ UNCHANGED <<masterState, client, inbox, life, wid, history>>

\* Between its polls a worker runs jobs itself: those that Execute::init recovers
\* and, with --nofork, each job it receives.  Such a run waits without end for a
\* lock file that a dead process left in the home (the loop on isLocked), or for
\* the answer to a subjob that died with the master (prospect).
WorkerStalls(w) ==
    /\ wst[w] = "ready"
    /\ wst' = [wst EXCEPT ![w] = "stalled"]
    /\ UNCHANGED <<masterState, client, reqs, inbox, life, wid, history>>

\* An empty reply makes the worker sleep, a job goes to prepareJob; both then poll again.
WorkerReceives(w) ==
    /\ wst[w] = "poll" /\ inbox[w] # None
    /\ received' = IF inbox[w].kind = "job" THEN [received EXCEPT ![inbox[w].job] = @ + 1]
                                            ELSE received
    /\ wst' = [wst EXCEPT ![w] = "ready"]
    /\ inbox' = [inbox EXCEPT ![w] = None]
    /\ UNCHANGED <<masterState, client, reqs, life, wid, jid, popped>>

\* Mutant: a reply to the dead process is read by its successor.
WorkerStopsKeepingReply(w) ==
    /\ wst[w] # "down"
    /\ wst' = [wst EXCEPT ![w] = "down"]
    /\ wid' = [wid EXCEPT ![w] = None]
    /\ UNCHANGED <<masterState, client, reqs, inbox, life, history>>

\* The worker dies or is interrupted.  A request it has sent may still reach the
\* master, which then takes a job off its queue for nobody.
WorkerStops(w) ==
    /\ wst[w] # "down"
    /\ wst' = [wst EXCEPT ![w] = "down"]
    /\ inbox' = [inbox EXCEPT ![w] = None]
    /\ wid' = [wid EXCEPT ![w] = None]
    /\ \E lost \in SUBSET {r \in reqs : r.w = w} : reqs' = reqs \ lost
    /\ UNCHANGED <<masterState, client, life, history>>

HandleWorkerRequest == \E r \in reqs : HandleSolicit(r) \/ HandlePollEmpty(r) \/ HandlePollJob(r)
MasterNext == HandleWorkerRequest \/ (\E j \in Job : HandleIncommingJob(j))
WorkerLoop(w) == WorkerAccepted(w) \/ WorkerPoll(w) \/ WorkerReceives(w)
WorkerNext(w) == WorkerSolicit(w) \/ WorkerLoop(w) \/ WorkerStalls(w) \/ WorkerStops(w)

Next == \/ MasterNext
        \/ Stop \/ Crash \/ Start
        \/ \E j \in Job : Submit(j)
        \/ \E w \in Worker : WorkerNext(w)

Spec == Init /\ [][Next]_vars

\* The master serves every request that reaches it (zmq queues fairly), is started
\* again when it stops, and a worker that neither waits nor is stalled keeps going.
FairSpec == /\ Spec
            /\ WF_vars(HandleWorkerRequest)
            /\ \A j \in Job : WF_vars(HandleIncommingJob(j))
            /\ WF_vars(Start)
            /\ \A w \in Worker : WF_vars(WorkerSolicit(w)) /\ WF_vars(WorkerLoop(w))

-----------------------------------------------------------------------------
(* Properties. *)

\* Type invariant.  A reply is only ever on its way to a process that waits for
\* one of its kind.
TypeOK ==
    /\ up \in BOOLEAN
    /\ jobqueue \in Seq(Job)
    /\ jobcounter \in Nat /\ stored \in Nat /\ worker_counter \in Nat
    /\ client \in [Job -> {"new", "sent", "accepted", "stuck"}]
    /\ reqs \subseteq Request
    /\ wst \in [Worker -> {"down", "solicit", "ready", "stalled", "poll"}]
    /\ \A w \in Worker :
          \/ inbox[w] = None
          \/ wst[w] = "solicit" /\ inbox[w].kind = "id" /\ inbox[w].id \in Nat
          \/ wst[w] = "poll" /\ inbox[w].kind = "empty"
          \/ wst[w] = "poll" /\ inbox[w].kind = "job" /\ inbox[w].job \in Job
    /\ life \in [Worker -> 0..MaxLives]
    /\ wid \in [Worker -> Id \cup {None}]
    /\ jid \in [Job -> [id : Nat, inc : 0..MaxRestarts, epoch : 0..MaxRestarts] \cup {None}]
    /\ popped \in [Job -> Nat] /\ received \in [Job -> Nat]
    /\ restarts \in 0..MaxRestarts /\ crashes \in 0..MaxRestarts

OnItsWay(j) == \E w \in Worker : inbox[w] # None /\ inbox[w].kind = "job" /\ inbox[w].job = j

\* No job is given to two workers, and a job the running master has accepted is
\* either still queued or was taken off the queue, once.
HandedOutOnce ==
    \A j \in Job :
        /\ received[j] + (IF OnItsWay(j) THEN 1 ELSE 0) <= popped[j]
        /\ popped[j] <= 1
        /\ up /\ Accepted(j) /\ jid[j].inc = restarts => (InQueue(j) <=> popped[j] = 0)

\* The worker processes that have ended.
Ended == {p \in Worker \X (1..MaxLives) :
             p[2] < life[p[1]] \/ (p[2] = life[p[1]] /\ wst[p[1]] = "down")}

LostJobs == {j \in Job : popped[j] > received[j] /\ ~OnItsWay(j)}

\* handleWorkerRequest pops a job whether or not its reply arrives.  As long as
\* the master itself has not crashed, each death of a worker costs at most one job.
OneJobPerDeath ==
    crashes = 0 => Cardinality(LostJobs) <= Cardinality(Ended)

\* Jobs leave in the order they came: a job handed out by this master has a
\* smaller id than every job still queued, and the queue is in order of ids.
HandedOutInOrder ==
    /\ \A m, n \in 1..Len(jobqueue) : m < n => jid[jobqueue[m]].id < jid[jobqueue[n]].id
    /\ \A j, k \in Job :
          (up /\ Accepted(j) /\ jid[j].inc = restarts /\ popped[j] > 0 /\ InQueue(k))
              => jid[j].id < jid[k].id

\* Two jobs get the same id only when the master crashed between them: a
\* graceful stop stores the counter.
JobIdsUnique ==
    \A j, k \in Job :
        (j # k /\ Accepted(j) /\ Accepted(k) /\ jid[j].epoch = jid[k].epoch)
            => jid[j].id # jid[k].id

\* Two workers that got their ids from the same incarnation of the master have
\* different ids.
WorkerIdsUnique ==
    \A v, w \in Worker : (v # w /\ wid[v] # None /\ wid[w] # None) => wid[v] # wid[w]

\* A worker that polls no more: it is down for good, it waits for a reply that died
\* with an earlier master, or a job that it runs itself never returns.
Gone(w) == \/ wst[w] = "down" /\ life[w] = MaxLives
           \/ Hung(w) /\ restarts > 0
           \/ wst[w] = "stalled"

\* A queued job leaves the queue, unless there is a moment at which each worker is
\* down for good, waits for a reply that died with the master, or is stalled in a
\* job: one worker that still polls is enough.
QueueDrains ==
    \A j \in Job : InQueue(j) ~> ~InQueue(j) \/ \A w \in Worker : Gone(w)

\* What the comment in Indexer's constructor says: the accepted jobs that were not
\* handed out are put back on the queue when the master is started again.
JobsSurviveStop ==
    up /\ crashes = 0 => \A j \in Job : Accepted(j) /\ popped[j] = 0 => InQueue(j)
=============================================================================
