# Mavicona: a TLA+ verification project

Mavicona is a proof-of-concept cluster for parallel data processing. Files enter
through the **scraper**, are analysed by the **extractor**, which stores them in
**cynder** and queues tasks with the **pitcher**; the pitcher feeds the **chella
master**, whose **workers** run the jobs and report to the master by a
**heartbeat**. Beside this path stand the web server of the **orchestrator** and
the redis client **mavredis**. This project models all of these: several processes
and threads share state in them, processes die, messages are lost or late, and the
code keeps stores and logs to survive that.

## 1. Inventory

### The path of a task (modelled)

| Part | State it keeps | Operations | Talks to |
|---|---|---|---|
| pitcher (`src/pitch`) | priority queue and idle queue in memory, the same tasks by id in LevelDB (`qstore`), `_active` | receive, `push`, reply (main thread); `getNextTask`, submit, `doneTask` (provision thread); `queuCache` at start | clients by REQ/REP (5599), master by REQ (5566) |
| chella master (`src/chella/chella.cpp`, `indexer.h`) | `jobqueue` and `worker_counter` in memory, job counter in LevelDB | `handleWorkerRequest`, `handleIncommingJob`, `handleWokerController`, start, stop | submitters (5566), workers (5555), heartbeats (5544) |
| chella worker (`chella.cpp`, `exec.cpp`) | `cache_counter`, `exec.chain`; on disk the package cache | solicit, poll, `prepareJob`, `Execute::init`, `run`, `prospect`, `dispose` | master |
| write-ahead log (`wal.cpp`, `wal.h`) | one file per job, behind a stdio buffer | `commit`, `setCheckpoint`, `markDone`, `rollback` | used by `Execute` |
| job environment (`localenv.cpp`, `package.cpp`) | one home directory per package: `.jobhome`, `MXLOCK` | `hasHome`, `setupHome`, `isLocked`, `setLock`, `setupEnv`, `teardown`, `extract` | shared by all jobs of a package |

What is hard here, and what makes each part correct:

* *pitcher*: two threads use one `std::priority_queue` without a lock; the process
  may die between any two of store, push, reply, submit and delete. Correct: what
  was answered QUEUED is not lost, is not held back in the store, reaches the
  master, and is not duplicated without bound.
* *master*: REQ sockets without timeouts, workers that die between poll and reply,
  masters that stop or crash. Correct: no job goes to two workers, jobs go in
  order, ids are unique, a death costs at most the job it was handed, and the
  queue drains.
* *worker*: children and a main process share logs, homes and the package cache,
  each may die at any step, and recovery runs jobs again, possibly beside a child
  that is still alive. Correct: a log says done only for a job that came to its
  end, no two jobs work in a home unless the lock test failed them, an interrupted
  job keeps its home locked, subjobs are submitted once, and runs end.

### The way in, and storage (modelled)

| Part | State it keeps | Operations | Talks to |
|---|---|---|---|
| scraper (`src/scrape/scrape.cpp`) | datastack, one REQ socket | push, `dispatch_commit` | extractor |
| extractor (`src/extract`) | `dataCounter`, ruleset; one child process per item | `handleRequest`, `parseData`, the actions log, discard, store, queue | scraper, cynder master, pitcher |
| cynder (`src/cynder`) | four upscaledb files, large file store, catalogus; hash ring in the master | `initMaster`, `initSlave` with SELECT, INSERT, UPDATE, DELETE, SEARCH; `Filepage` create, open, store, retrieve; `addNode`, `removeNode`, `getNode` | extractor, clients |
| control client, node manager (`controlclient.*`, `nodemanager.cpp`) | `_active`, `_state`, progress; the last report at the master | start, set state, heartbeat with timeout and retry, stop | master (5544) |
| orchestrate (`src/orchestrate`) | thread vector, sockets, logger | accept, handle, `Stop(cleanup)`, destructor | web clients |
| mavredis (`src/lib/mavredis`) | lists of connections per node of a slice | connect, get, free, `Keepalive`, `Release` | Redis servers |

What is hard here, and what makes each part correct:

* *scraper and extractor*: a commit is cut by a signal in the middle of its list,
  forks fail, children die, and DONE is answered before the work. Correct: what was
  pushed is kept until it is answered, nothing is sent twice without an interrupt,
  an answered item was at least taken, ids are unique within a process, an item is
  queued after it is stored, and children end.
* *cynder*: a request is several writes that reach the disk one by one. Correct: a
  reader finds what was last answered SUCCESS, an index entry never points to
  content that is not there, SEARCH finds what matches. The large file store is a
  map whose stores are atomic under death at any write.
* *hash ring*: virtual nodes may collide. Correct: a change of one worker moves the
  records of that worker.
* *control client*: the job and its heartbeat share fields without a lock, and the
  master may be away. Correct: states are seen in order, `stop` returns, the last
  state is reported.
* *orchestrate*: a full vector is cleaned by joining half of it. Correct: the
  cleanup ends, and nobody uses the logger once it is deleted.
* *mavredis*: threads share the lists, servers go away. Correct: no connection is
  lost or shared, the pool runs dry only if it is too small, connections heal.

### The rest of the system

| Part | What it is | Why it is left out |
|---|---|---|
| mumux (`src/mumux`) | HTTP connections and buffers | one select loop over bytes, no caller in this repository |
| ace (`src/chella/ace`) | Python bindings of a job | glue; the state it reaches (chain, progress) is in `ChellaWorker` and `ControlClient` |
| connect, the rule parser of extract, protoc | SQL and rule grammars, messages | generated by flex, bison and protoc; the message types the models use are taken from the `.proto` files |
| packer, par, quid, mavc, cuzed, ecoli, utils, common, compat, third_party | archive format, generators, command-line tools, headers, vendored code | sequential, I/O, or not this project's code |

`PROJECT.json` lists every component, and under `hazards` each place where one of
these behaviours bites, with the property that covers it.

## 2. Modules

| Module | Models | Checked by | Proved in |
|---|---|---|---|
| `Pitcher` | the pitcher process: both threads, the store, the client's and the master's side of its sockets | `MCPitcher` | `PitcherProofs` |
| `ChellaMaster` | the master with its submitters and workers, as peers | `MCChellaMaster` | `ChellaMasterProofs` |
| `ChellaWorker` | one worker host: main process, children, logs, homes, package cache | `MCChellaWorker` | `ChellaWorkerProofs` |
| `LargeStore` | abstract: what the large file store promises, a map with atomic stores | as a property of `Filepage` | |
| `Filepage` | one page file of the store, cell by cell | `MCFilepage` | `FilepageProofs` |
| `Cynder` | a cynder worker with its files, and the master in front of it | `MCCynder` | `CynderProofs` |
| `HashRing` | the consistent hash of the cynder master | `MCServices` | `ServicesProofs` |
| `Ruler` | detection of a type and the choice of a rule, as operators | through `Ingest` | |
| `Extractor` | the extractor and its children; extends `Ruler` | through `Ingest` | `IngestProofs` |
| `Ingest` | the scraper composed with `Extractor` | `MCIngest` | `IngestProofs` |
| `ControlClient` | a job's thread, its heartbeat thread, and the master's handler | `MCServices` | `ServicesProofs` |
| `RedisPool` | the connection pool of a slice | `MCServices` | `ServicesProofs` |
| `Orchestrate` | accept loop, handler threads, stop | `MCServices` | `ServicesProofs` |

Definitions keep the names of the code (`Submit`, `Put`, `HandleIncommingJob`,
`Rollback`, `Likeliness`...). Definitions that begin with the comment *Mutant* are
wrong variants of the definition that follows them; no specification uses them.
They show that the property named in `PROJECT.json` fails when the code has that
bug.

### Pitcher

`main`/`mtask` and `prov`/`ptask` are the program counters and tasks of the two
threads. `Receive`, `Put`, `Push`, `Reply` are one pass of the main loop (`Put` and
`Push` are the two halves of `Queue::push`); `Loop`, `Pop`, `Send`,
`MasterAccepts`/`MasterLost`, `DoneTask` one pass of `runTask`; `PopIdle` is the
other branch, which deletes an idle task without sending it, as the code does.
Data race: while one thread is about to `Push` and the other about to pop the same
container, the update of either may be lost, and from then on the heap of that
process has no order (`raced`). `Boot` is the late assignment of `_active`.
`Crash` may happen anywhere; `Interrupt` is the graceful exit, which aborts in
`join` because the thread was detached. The store survives both: LevelDB's
unsynced writes survive the death of a process, though not of the machine.
`Restart` is `queuCache`; LevelDB iterates in the order of the decimal strings,
which `keyRank` stands for.

### ChellaMaster

The handlers are atomic, as the poll loop runs them one at a time. Peers hold at
most one request. A reply whose requester is gone is dropped (`Answer`). `Stop` is
the graceful exit (it stores the counter), `Crash` is not; both lose the requests
that had already been read, and the queue. `HandleIncommingJob` stores the counter
only for id 0, which is what `!job.id() % 2` does. `jid` remembers with which id,
by which incarnation (`inc`) and after how many crashes (`epoch`) a job was
accepted. `WorkerStalls` is a worker that polls no more because a job it runs itself
does not return: `Execute::init` recovers jobs before the first poll, and with
`--nofork` each job runs between two polls; either may wait for ever, for a stale
`MXLOCK` (`chella_worker_lock`) or for the answer to a subjob (`ChellaWorker`'s
`AnswerLost`). The controller handler, which changes nothing the job path reads, is
in `ControlClient`.

### ChellaWorker

A *runner* is a process inside `Execute::run`: a child, named after its job, or the
main process (recovery, `--nofork`, or a failed fork). `pc` is its stage, one per
step that reads or writes what processes share. `buf` and `disk` are the stdio
buffer and the file of the log: `rewind` writes out the previous record, so the
file trails by one. `Advance` is one Python method and its checkpoint, in the order
of `After`; `PyFailed` is the jump to `py_failed`, which ends in `markDone` like a
success; `EarlyReturn` is each `return true` before it, after which the
destructor of a joinable `std::thread` terminates the process. The heartbeat thread
appears only as the time between `Teardown` and `CloseWal`. `SendSubjob` is the send
of `prospect`; `SubjobAnswered` and `AnswerLost` are how its `recv`, which has no
timeout, may end or not. What a job's Python
code does is abstracted to: it returns, raises, or kills the process. `stolen`,
`doubled` and `abandoned` record when a lock was set twice, when recovery ran a
job beside its living child, and when a runner died in a home.

### Filepage and LargeStore

The file is a function from positions to cells: header, index item, pointer to the
next block, part of a value. `Create`, `Open`, `StoreItem` and `RetrieveItem` are
the methods of the class; `GrowPage`, `NeedsBlock`, `ShouldClose` what `storeItem`
calls. An operation puts its writes into `pending` in the order of the code, and
`Write` takes them to the file one at a time, so `Exit` cuts them anywhere. Offsets
are unsigned (`Wrap`). `Load` and `LastBlock` are the loops of `open`; the walk over
the blocks is a recursive function. The refinement mapping takes `store` to `Found`,
the map that a process opening the file now would read: a store takes effect with
the last header it writes.

### Cynder

`Take` receives a request and `Steps` lists what it will write; each put or remove
is an action on its own (`PutLarge`, `PutData`, `PutRecord`, `PutKey`, `PutText`,
`RemoveData`, `RemoveRecord`), since the engine flushes each. `Fail` is the jump to
the exception handler, `DatabaseError` the errors that are printed and answered
SUCCESS. `GetMulti` keeps the `continue` that skips `move_next`; `CopyMeta` keeps
the master's copy of a group into one entry. `Throws` is the `move_next` after the
last duplicate, which leaves the database at its greatest key (`AtEnd`, by `keyOrder`)
and ends the whole SEARCH as NOTFOUND. A QUID comes in one of three forms (`Form`):
`put` crops the braces and `get` and `remove` do not (`Raw`, `Select`), and one that
`crop` rejects makes every `put` return without a word, so the request has no steps
and is answered SUCCESS. `lower` is the normalization of a key before the test for a
keyword; the term of a SEARCH is not normalized. The version counts are stored at a
graceful `Exit` only and name the files of the next worker (`Restart`). `accepted`,
`copied`, `dropped`, `cut` and `clobbered` are history: what was answered, and the
records for which the code promises less.

### Ruler, Extractor, Ingest

`Match` keeps that only the first rule of a type is considered, `Stumbles` the null
entry that `parseMagic` leaves behind, `HandlerThrows` the conversion that throws.
`HandleRequest` counts and forks, or fails to, or, with `--inorder`, works itself;
`Answer` is the reply, which does not depend on the outcome. A child goes through
`ParseData` and one action per step; it may be `Killed` at any of them. Children
are not waited for, so they use up `MaxProcs`. The store and queue actions are a send
(`Store`, `Queue`) and an answer (`StoreReply`, `QueueReply`); neither `recv` has a
timeout, and `NoReply` is the peer that is away, that dies with the request
(`Pitcher`'s stuck clients) or that waits itself (`Cynder`'s `master = "lost"`). In `Ingest`, `Commit`, `Send`, `Recv`, `EndCommit` are
`dispatch_commit`; `Interrupt` ends it with the datastack as it is and, if a reply
was due, the socket unusable.

### ControlClient, RedisPool, Orchestrate, HashRing

`ControlClient` follows `Execute::run` through `Follows`; `StartHeart` and
`SetActive` are the two halves of `start`. A report is the number of the state
change it shows; requests of an abandoned socket may still be handled later.
`CloseSocket` waits for unsent requests, as the default linger does. `AssertFails`
is the assertion on the progress. `RedisPool` treats each critical section as a
step; `undefined` marks the front of an empty list and the use of a deleted pool,
after which nothing is claimed. `Orchestrate` has the cleanup of half of the vector
(`Bound`), the threads it forgets, descriptors that are never closed, and the errors
that end the accept loop: `accept` may fail at any time (`AcceptFails`), and so may
the creation of a thread (`Create`), after a cleanup or without one. `HashRing`
is the map from points to nodes, with `lower_bound` and wrap-around in `getNode`.

## 3. Runs

| Run | Bounds | Result |
|---|---|---|
| `pitcher` | 4 tasks (HIGH, NORMAL, IDLE, REALTIME), 2 restarts | passes: `AckedIsDurable`, `MemoryCoversStore`, `DuplicatesBounded`, and under fairness `AckedReachesMaster` |
| `pitcher_reused_ids` | 2 tasks, one id, 1 restart | `AckedIsDurable` violated |
| `chella_master` | 3 jobs, 2 workers with 2 lives each, 1 restart of the master | passes: `HandedOutOnce`, `OneJobPerDeath`, `HandedOutInOrder`, `JobIdsUnique`, `WorkerIdsUnique` |
| `chella_master_live` | 2 jobs, 2 workers with 1 life, 1 restart | passes: `QueueDrains` |
| `chella_master_stop` | as `chella_master` | `JobsSurviveStop` violated |
| `chella_worker` | 2 jobs of one package (2 subjobs and none), 1 restart, cache limit 1 | passes: `DoneMeansFinished`, `UnfinishedKeepsLock`, `TwoInHomeMeansStolen`, `SubjobsSentOnce`, `ScoreIsCache` |
| `chella_worker_live` | the same without restart | passes: `RunsEnd` |
| `chella_worker_lock` | as `chella_worker` | `LockHasOwner` violated |
| `filepage` | 2 names, 2 values of 1 and 2 cells, blocks of 2 items, 5 items, 2 processes | passes: `ReopenIsInvisible`, `LiveIsBelowFree`, and the refinement `ImplementsLargeStore` |
| `cynder` | 2 records, 3 contents of which 2 are large, 3 requests that write, 1 restart | passes: `StoredIsLastAccepted`, `LargeContentPresent`, `RecordHasContent`, `SearchFindsAll` |
| `ingest` | 2 items (one whose handler throws), 2 commits, 3 QUIDs, 2 processes of the extractor, 2 children each | passes: `PushedIsKept`, `ResentOnlyAfterInterrupt`, `AnsweredIsTaken`, `TaskIdsUnique`, `QueuedFollowsStore`, and under fairness `ChildrenEnd` |
| `services` | one heartbeat with 1 early timeout and 1 death of the master; 2 threads, a master and a slave with up to 2 connections, 4 commands, 1 outage; 6 clients, 5 descriptors and a vector of 2; 3 nodes of 2 points, two of them colliding, 5 keys | passes: `SeenInOrder`, `ConnectionsConserved`, `DryOnlyIfUndersized`, `LoggerOutlivesThreads`, `OnlyOwnKeysMove`, and under fairness `StopReturns`, `IdleReported`, `KeepaliveHeals`, `AcceptResumes` |

Why the bounds are enough for the cases that matter:

* Two restarts of the pitcher let a task be submitted, lost before `doneTask`, and
  submitted again twice; two forwarded tasks of different priority let a push race
  a pop. `MaxSubmits` (4) is above the number of copies without a race (3), so
  saturation hides nothing.
* Three jobs let one be queued, one be under way to a worker and one be lost; two
  lives of a worker let a request of its first process be answered in its second.
  Jobs and workers are symmetric in the safety run (`Symmetry`); the liveness run
  uses none.
* Two jobs of one package are the least that contend for a home; with one restart
  either may be recovered beside the living child of the other. `CacheLimit` stands
  for the 100 of the code, so that the disposal of the cache is reachable. The
  safety run of the worker fingerprints states by `View`, which leaves out only
  what no action and no invariant distinguishes.
* Five items in blocks of two fill two blocks exactly and open a third, with the
  death of a process at any cell before, during and after the growth and a second
  process that reads and goes on. `Word` is above every offset the run reaches.
* Three requests let a record be inserted, refused and updated, or deleted and
  inserted again; the value of one record is the key of the other, so a term is
  found in both indexes; the first record's group has two entries, of which the
  master keeps the last; one key has a capital; and of the terms some are the greatest
  key of an index and some are not, by what is stored. The two large contents are symmetric.
* Three QUIDs let one item be sent again after an interrupted commit; the limit of
  two children lets a fork fail, and both processes of the extractor count from the
  same id.
* The four services share nothing: `service` chooses one and the others rest, so the
  run is the sum of four small ones. Pools with 0 to 2 connections for two threads
  cover the sufficient and the undersized case; the vector of two fills up, so that
  a cleanup joins one thread and forgets others.
* Deadlock is not checked: each of these services may come to rest, with nothing to
  do or waiting for a reply that is gone.

### What the violations show

* `pitcher_reused_ids`: the store is keyed by `Task.id`, and the extractor counts
  from 1000 again in each process. In the trace the first of two tasks with one id is
  acknowledged and not yet with the master when the `Put` of the second replaces its
  entry: only memory still has it.
* `chella_master_stop`: the comment in `Indexer`'s constructor speaks of putting
  tasks back on the queue, but only the counter is read; a stop loses the queue.
* `chella_worker_lock`: `MXLOCK` outlives a runner that dies, and the wait in
  `run` then has no end; the recovery of that very job is the first to wait.

One more disagreement is shown by a property that holds. `wal.cpp:75` says "Only try so
many times" of the line that takes `failcount` into the score. `ScoreIsCache` says that
the score depends on the cache alone: `commit` never fills in the count, which stays 0,
and its factor of -10 is subtracted, so a count would raise the score. There is no limit
on how often a job is tried.

### Fairness

`Pitcher`: threads that can run do run (operating system), a master that is up
answers or dies, a pitcher that died is started again by its operator. A client
need not submit, and nothing needs to die. `ChellaMaster`: the poll loop serves
every socket and ZeroMQ queues fairly among peers; a stopped master is started
again; a worker that neither waits nor is stalled goes on. `ChellaWorker`: a process
that can go on does, a job's methods return, and the master answers `prospect` or never
will (`AnswerLost`). `Ingest`: the extractor and each of its children run, and cynder
and the pitcher answer a request or never will (`NoReply`); nobody needs to push, commit
or send signals. `MCServices`: threads run,
ZeroMQ hands requests over, a master or Redis server that went away comes back, the
timeout of a lost reply fires, `Keepalive` is called again and again as its caller is
meant to, and a cancelled thread reaches a cancellation point (`recv` and `send`
are). All of these are weak fairness.

The liveness properties name the ways in which the modelled code does hang or abort, and
say that among the modelled steps nothing else keeps it from its end:

* `AckedReachesMaster`: the provision thread that never started (`exited`) or waits for
  a master that died with its request (`hung`), and a queue that both threads changed
  at once.
* `QueueDrains`: every worker is down for good, waits for a reply that died with the
  master, or is stalled in a job (`Gone`).
* `RunsEnd`: a home left locked by a process that died (`abandoned`), a subjob whose
  answer died with the master (`unanswered`).
* `ChildrenEnd`: a request to cynder or to the pitcher that is never answered.
* `StopReturns`, `IdleReported`: a progress above 1000, which aborts (`overrun`).
* `KeepaliveHeals`: the use of an empty list or a deleted pool (`undefined`).
* `AcceptResumes`: a signal, or a thread that cannot be created (`createFailed`).

What the models leave out may hang too: a Python method that does not return, a disk or
a database that does not answer, a peer outside of these modules.

### What holds only with exceptions

Several invariants name an exception that the code really has; the run shows that the
model has no other.

* `StoredIsLastAccepted`: a request cut by a death or by a database error (`cut`), a
  large content replaced by an INSERT that was then refused as a duplicate
  (`clobbered`), and a write whose QUID was malformed, which is answered SUCCESS and
  stores nothing (`dropped`). It speaks of a SELECT by the bare QUID: one in braces is
  answered NOTFOUND whatever is stored.
* `SearchFindsAll`: the same, and: a term under which a QUID is indexed twice stops the
  cursor (`Doubled`); the greatest key of an index is answered NOTFOUND (`Greatest`);
  records that came through the master have lost all but the last entry of a group; a
  term with capitals finds values only, since keywords are stored in lower case.
* `QueuedFollowsStore`: an answer of FAIL counts, since the action does not look at it.
* `AcceptResumes`: see above.
* `DryOnlyIfUndersized`: a node with fewer connections than threads, which also a
  partly failed connect leads to, since it is reported as success; `Release` during
  a command.
* `LoggerOutlivesThreads`: the threads that a cleanup dropped without a join.
* `OnlyOwnKeysMove`: nodes that share a point.
* `SeenInOrder`: a timeout that strikes while the report is still on its way.
* `StopReturns`: a progress above 1000, which aborts the process.
* `TaskIdsUnique`: across restarts ids repeat, and `pitcher_reused_ids` shows what
  that leads to.

## 4. Proofs

TLAPS proves the theorems below for every value of the constants: any number of
tasks, jobs, workers, packages, records, threads or nodes, any bound on restarts. Each
proof module extends the module it is about. Every safety invariant that a passing run
checks is a theorem, and so are the action property of the hash ring and the refinement
of the large file store; what is left to TLC is liveness.

The assumptions are the `ASSUME`s of the modules (`PitcherConstants`,
`MasterConstants`, `WorkerConstants`, `IngestConstants`, `ExtractorConstants`,
`CynderConstants`, `RequestConstants`, `FilepageConstants` and those of the four services): types of
parameters, finite sets where something is counted, null values that are no other
value, a ruleset that `verifyRules` accepts. TLC evaluates them in the runs. Two
hypotheses stand in theorems of their own: `UniqueIds` in the one of the pitcher, and
`Room` in those of a page.

Most properties are not inductive. Every theorem `Spec => []P` rests on a stronger
invariant, of which the module proves `Init => Inv`, `Inv /\ [Next]_vars => Inv'`
(one step per action) and `Inv => P`. The largest of them (`LockInv`, `SendInv`,
`RecordInv`, `ListInv`, `PageInv`) were checked by TLC on the runs' instances before they were proved.

### PitcherProofs

* `TypeCorrect`. `TypeOK` is inductive because it also says that a thread about to
  put, push or pop has something to put, push or pop.
* `AckedIsDurableTheorem`: `UniqueIds /\ Spec => []AckedIsDurable`. `Reply` would
  acknowledge a task nothing is known of, and `DoneTask` could delete one the master
  has not accepted; `DurableInv` adds the task between `Put` and `Reply`
  (`PromisedIsDurable`) and that a forwarded task at `DoneTask` has been accepted
  (`DoneIsAccepted`). `UniqueIds` is needed: without it `Put` and `DoneTask` reach
  other tasks' entries, which is the violation above. The races on the queues play
  no part, since the store is written before and deleted after everything else.
* `MemoryCoversStoreTheorem`: `MemoryInv` adds that a task is stored under its own id
  (`StoreKeyed`). The case of `Restart` rests on `KeyOrderIsOnto`: a list of the
  stored tasks in key order has them all, an argument about cardinalities. No
  hypothesis on ids is needed.
* `DuplicatesBoundedTheorem`: `CopiesInv` says of each task (`Copies`) that as long as it
  is `Fresh`, not yet pushed, nobody else has it, and that on the queue or in flight it
  was accepted at most once by every earlier process; and that the task the main thread
  handles was not handled before (`HandledIsSent`).

### ChellaMasterProofs

The invariants build on each other: `TypeInv`, `IdInv`, `OrderInv`, `OnceInv`,
`DeathInv`.

* `TypeCorrect`: `TypeInv` adds to `TypeOK` that a living process of a worker has at
  most one request under way, of the kind it waits for (`Outstanding`), and how crashes
  and restarts relate (`Incarnations`).
* `JobIdsUniqueTheorem`: every id given out since the last crash is below the counter
  of a running master and below the stored one of a stopped master (`IdsBelow`). This
  is the argument that storing the counter at a graceful stop is enough, and that it
  is not after a crash.
* `WorkerIdsUniqueTheorem`: `IssuedOnce` speaks of ids in replies still under way too.
* `HandedOutInOrderTheorem`: `OrderParts` has the queue sorted by id, made of jobs of
  this incarnation, and above every id already popped in it.
* `HandedOutOnceTheorem`: `CarriedOnce` says that what was received and what is in some
  inbox is at most what was popped, and that no two inboxes hold the same job.
* `OneJobPerDeathTheorem`: while the master has not crashed, `Cardinality(LostJobs) +
  Cardinality(Stale) <= Cardinality(Ended)` (`DeathsPay`). `Stale` are the requests of
  ended processes that the master may still answer; a death pays for one lost reply or
  for one stale request, which may later cost one job.

### ChellaWorkerProofs

* `TypeCorrect`; `TypeOK` is proved and no run repeats it. `TypeInv` is stronger: no
  record has counted a failure.
* `ScoreIsCacheTheorem`: with it, the score of `Wal::rollback` is at least 40 exactly if
  the package is in the cache. Checkpoint and state add 15 to 50, a missing package
  takes 75, and the count of failures is 0, so the comment "Only try so many times" is
  not borne out.
* `TwoInHomeMeansStolenTheorem`, `DoneMeansFinishedTheorem`,
  `UnfinishedKeepsLockTheorem` from `LockInv`: a runner in a home holds its lock unless
  it was stolen (`LockHeld`), a runner past its last checkpoint has finished
  (`FinishedStages`), and the home of a job that was cut short is locked with nobody
  else in it (`CutShortLocked`, `CutShortAlone`).
* `SubjobsSentOnceTheorem` from `SendInv`: a job that recovery did not double is run by
  one process at a time (`OneRun`), a job that nobody took has no trace
  (`FreshUntouched`), and from the first subjob on its log says done on disk
  (`ClosedBeforeSend`), so no later start runs it again; `SentSoFar` counts the
  subjobs in between.

### IngestProofs

* `PushedIsKeptTheorem`: what is on the datastack during a commit was answered or is
  still in the commit (`CommitCovers`).
* `ResentOnlyAfterInterruptTheorem`: without an interrupt, `complete` counts exactly the
  items of the datastack that were sent, and the rest were not (`InStep`, `Unsent`).
* `AnsweredIsTakenTheorem`: `WireInv` ties the state of the REQ socket, the message under
  way and the state of the server together.
* `TaskIdsUniqueTheorem`: children of one process have different ids below its counter
  (`ChildIds`), and each task is some child's (`TasksAreChildren`).
* `QueuedFollowsStoreTheorem`: what a child has still to do is a tail of its rule's
  actions (`FollowsRule`), and everything before it was done (`QueuedInTurn`). The
  conclusion is that the storage cluster has answered, DONE or FAIL. The
  proof attempt corrected the property: a rule with `queue, store, queue` queues before
  it stores, so the premise is that it stores before its *first* queue.

### CynderProofs

Three theorems come from `RecordInv`: outside the record that is being written,
content, record and history agree (`Others`, `Settled`), and for the record that is
being written they agree up to the step the worker is at (`Current`, with one predicate
for each of the stages large file, content, record, indexes); an entry that points to
the large file store finds its content at every step (`LargePresent`). That a request
has its steps in this order is a set of lemmas on `Steps` (`StepsStage`, `NextStep`).

* `StoredIsLastAcceptedTheorem`, `LargeContentPresentTheorem`,
  `RecordHasContentTheorem`. `Others` and `Current` speak of the records outside of
  `Excepted`; a malformed write has no steps, so it leaves every record as it was and
  adds its QUID to `dropped` when it is answered.
* `SearchFindsAllTheorem` needs `ListInv` as well: a record that was accepted and not cut
  is in both indexes under every keyword of its meta (`RecordsListed`), except while the
  request that lists it is at work; and of the leaves of that request each is listed
  or still among the steps to do (`ListsRest`). The exception is needed because `ari.put`
  makes a record whole again that an earlier cut had left in pieces, before its entries
  are there. Nothing is ever taken from an index (`Longer`), which is why one list
  suffices for records that were updated or deleted in between. `GetMultiIs` says that
  the cursor returns each QUID once, and all of them if none comes twice, and `Throws` needs
  a term that is the greatest key of an index; that `Doubled`,
  a comparison of a length with a cardinality, means just this is the theorem on
  surjections between finite sets of one size.

`FlattenIs` unrolls the recursive function behind `FlattenSeq`, by the least
counterexample; `FlattenType` and `FlattenRange` give its type and its elements, from
which `LeavesType` and `IndexStepsHave` tell what `traverseMeta` visits.

### FilepageProofs

`PageReopens`, `PageKeepsLive` and `PageImplements` have the hypothesis `Room`, on the
constants alone: with `MaxItems` stores and `MaxOpens` processes, values of the largest
size, and a block for each of them, the last offset computed is still below `Word`. The
code has no such bound. `shouldClose` is meant to keep it ("Close page if INT limit
exceeds") and never does, as the sum it compares with `UINT_MAX` is an `unsigned int`
itself; that is `PageNeverFull`, proved without `Room` (`NotFullInv`). Past 4 GiB the offsets wrap and
nothing is promised. The instance of the run satisfies `Room` (46 < 1000). Items are
larger than 8 MiB in the code, so a page below 4 GiB has fewer than 512 of them, and the
`unsigned short` that counts them is far from its own limit.

* `PageInv` is the inductive invariant. A file is sound (`FileOK`) when its header has a
  magic, the blocks of its chain lie below a limit and apart from each other
  (`Chained`), and every item lies there with its data, apart from the blocks and from
  the other items (`Placed`). An open page is `Fresh`, before its first header is
  written; `Settled`, with the members that `open` would read; or `Storing` an item.
  `Storing` is the heart: no write before the last one is to a cell that a reader needs
  (`Live`), or it is the header with the same items that `growPage` writes; and the
  index item, the data and the pointer to a new block have been written or are still due
  (`Due`). So a death anywhere leaves a sound file, and the last header makes the new
  item part of it.
* `PageBound` counts stores and deaths, and gives from `Room` that the next store does
  not wrap (`Fits`); `PageStep` preserves `PageInv` as long as it holds.
* `BlockDef` unrolls the walk of `open` over the blocks, a recursive function of the
  file, and `BlockKeeps` says that it is the same in two files that agree on the
  pointers; both by induction (`AllNats`). From these, `KeepFile` and `SafeWrite`: a
  write outside of what is live changes nothing that `open` finds. `CommitFile`,
  `CommitLoad` and `CommitFetch` are about the header that ends a store.
* `PageImplements`: `PageRefines` goes through the actions. Every `Write` but the last
  one of a store leaves `Found` as it is, the last one is the abstract store
  (`WriteRefines`), `RetrieveItem` returns what `Found` has, and the others stutter.

### ServicesProofs

Each service is proved from a specification of its own (`ControlSpec`, `PoolSpec`,
`WebSpec`, `RingSpec`); `ServicesTheorem` concludes all five properties for the `Spec`
of `MCServices`, in which the services that were not chosen rest.

* `SeenInOrderTheorem`: until a timeout comes too early there is at most one report
  under way, that of the current socket (`OneReport`).
* `ConnectionsConservedTheorem`, `DryOnlyIfUndersizedTheorem` from `PoolInv`: a connection
  appears in one list, once, or with one thread (`ListsAreDistinct`, `NoneIsLost`). That a
  list is not empty as long as its node has a connection for every thread is a counting
  argument: the threads hold at most as many as there are other threads.
* `LoggerOutlivesThreadsTheorem`: a running thread is in the vector or was forgotten
  (`Tracked`), and the final loop of `Stop` has joined all it has passed.
* `OnlyOwnKeysMoveTheorem`, the action property: `RingInv` says that the node at a point
  has it among its hashes; the rest is that `lower_bound` with wrap-around depends only
  on the points that are taken.

`SetLemmas` holds what several of these need: a least element of a set of numbers,
induction for the members of a set, and the cardinality of a set with one element more.

### What stays with TLC, and why

* Liveness under fairness: `AckedReachesMaster`, `QueueDrains`, `RunsEnd`, `ChildrenEnd`,
  `StopReturns`, `IdleReported`, `KeepaliveHeals`, `AcceptResumes`. TLAPS does not handle
  `ENABLED`.
* That `MaxItems`, `MaxOpens` and the bounds of the other modules may be any number is
  part of the theorems; that a page beyond `Room` keeps anything is not claimed.
* The three violations are traces, and stay with TLC by nature.

## 5. Not modelled, and why

Beyond the table in section 1:

* in general: the content of tasks, jobs, packages, requests and replies; the text
  of logs; failure of LevelDB writes (every status is ignored by the code); loss of
  power;
* chella: the guard process, which is compiled in only with `GUARD`;
  `Provision::pause` and `resume`, which nothing calls; the contents of the home
  directory apart from whether it is complete; Python itself;
* cynder: `Filepage::removeItem` and `Filebase::remove`, which nothing calls; more
  than one page, since a page is replaced only when it is full and `shouldClose`
  compares an unsigned sum with its own maximum, so it never is; what happens after
  that sum wraps; a store to a page without its magic when the uninitialised
  `m_Grow` is not zero (with zero the process dies, which is `Exit`);
* extractor: the scanner and parser of the rule file, the magic database, the PNG
  metadata;
* mavredis: which command asks for which role, and the command text; commands issued
  after `Release`;
* orchestrate: what is served. Requests, headers and error pages change nothing that
  the server keeps.

Most of the repository's lines are outside the models: `common/json.h` and
`cxxopts.h` are vendored, the parsers and message classes generated, and the tools
around them sequential. The parts that keep state between requests, or share it, are
those of section 2.

## 6. What could follow

The modelling goes as far as the parts above, and the safety properties of all passing
runs are theorems. What could follow:

1. Liveness, with a prover that handles `ENABLED`.
2. The recovery log that a second death hits while it waits for its lock: `Wal` opens it
   with `w+`, which truncates it. `ChellaWorker` starts a recovery run with a fresh log,
   so the case is in the model, but no property speaks of it.
3. Several pages in `Filebase`, once `shouldClose` can close one.
