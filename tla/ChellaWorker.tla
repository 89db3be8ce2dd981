---------------------------- MODULE ChellaWorker ----------------------------
(***************************************************************************)
(* One chella worker host.  The main process takes jobs from the master,   *)
(* caches their packages and runs them, each in a forked child or, with    *)
(* --nofork, itself; at start-up it runs the jobs it finds in the          *)
(* write-ahead logs.  The processes share the files: the logs, the package *)
(* cache, and one home directory with a lock file MXLOCK for each package. *)
(* Any of them may die at any time.                                        *)
(***************************************************************************)
EXTENDS Integers, FiniteSetsExt

CONSTANTS Job,
          Package,
          pkgOf,       \* the package of a job
          stateOf,     \* ProcessJob::State of a job
          subjobs,     \* how many subjobs a job's chains hold
          Main,        \* the main process, as a runner of jobs
          NoJob,
          CacheLimit,  \* jobs between two disposals of the cache (100)
          MaxRestarts  \* bound: how often the main process is started again

ASSUME WorkerConstants ==
    /\ pkgOf \in [Job -> Package]
    /\ stateOf \in [Job -> {"SPAWN", "PARTITION", "FUNNEL"}]
    /\ subjobs \in [Job -> Nat]
    /\ Main \notin Job /\ NoJob \notin Job
    /\ CacheLimit \in Nat /\ MaxRestarts \in Nat

\* The child that runs a job is named after it.
Runner == Job \cup {Main}

\* Wal::Checkpoint
NIL == 0
INIT == 1
LOAD == 2
INJECT == 3
SETUP_ONCE == 4
SETUP == 5
RUN == 6
TEARDOWN == 7
TEARDOWN_ONCE == 8
PULLCHAIN == 9
Checkpoint == NIL..PULLCHAIN

\* What Wal::commit writes.  It never fills in failcount, which memset has cleared.
Record(c, d) == [checkpoint |-> c, done |-> d, failcount |-> 0]
NoFile == [file |-> "none"]
Empty == [file |-> "empty"]
NoChain == [parent |-> NoJob, left |-> 0]

VARIABLES
    jobfork,       \* FALSE with --nofork
    main,          \* main process: down, recover, loop, write, inline or unforked
    mjob,          \* the job whose package it is writing
    todo,          \* logs it has still to look at
    cache_counter,
    pc, job, cp, buf, chain, \* per runner: stage, job, checkpoint, buffered record, exec.chain
    disk,          \* per job: its log file
    pkg,           \* per package: its file in the cache: absent, partial or ok
    home,          \* per package: its directory: none, dir (no .jobhome yet), bad or ok
    locked,        \* per package: does MXLOCK exist
    given, finished, sent, \* history, per job: was it taken, how often did a run reach
                   \* markDone, how many subjobs were submitted for it
    stolen,        \* history: packages whose lock was set when it was set already
    doubled,       \* history: jobs that recovery ran while their child was alive
    abandoned,     \* history: packages whose home was occupied by a runner that died
    restarts       \* history: number of restarts

runners == <<pc, job, cp, buf, chain>>
cache == <<pkg, cache_counter>>
history == <<given, finished, sent, stolen, doubled, abandoned, restarts>>
vars == <<jobfork, main, mjob, todo, runners, disk, cache, home, locked, history>>

Init ==
    /\ jobfork \in BOOLEAN
    /\ main = "recover" /\ mjob = NoJob /\ todo = {} /\ cache_counter = 0
    /\ pc = [r \in Runner |-> "none"]
    /\ job = [r \in Runner |-> NoJob]
    /\ cp = [r \in Runner |-> NIL]
    /\ buf = [r \in Runner |-> Empty]
    /\ chain = [r \in Runner |-> NoChain]
    /\ disk = [j \in Job |-> NoFile]
    /\ pkg = [p \in Package |-> "absent"]
    /\ home = [p \in Package |-> "none"]
    /\ locked = [p \in Package |-> FALSE]
    /\ given = [j \in Job |-> FALSE]
    /\ finished = [j \in Job |-> 0]
    /\ sent = [j \in Job |-> 0]
    /\ stolen = {} /\ doubled = {} /\ abandoned = {}
    /\ restarts = 0

Pkg(r) == pkgOf[job[r]]
\* Stages between setLock and the unlink in teardown.
Inside(r) == pc[r] \in {"env", "exec", "close", "teardown"}
IsRecord(d) == d \notin {NoFile, Empty}

-----------------------------------------------------------------------------
(* The write-ahead log.  Its records go through a stdio buffer: rewind writes
   out the record before the new one is put in the buffer. *)

\* Writing to a file that was unlinked changes nothing that can be found again.
Flush(r) == IF disk[job[r]] = NoFile THEN disk
            ELSE [disk EXCEPT ![job[r]] = buf[r]]

\* Mutant: commit ignores isDone.
CommitDone(r, c, d) ==
    /\ disk' = Flush(r)
    /\ buf' = [buf EXCEPT ![r] = Record(c, TRUE)]
    /\ cp' = [cp EXCEPT ![r] = c]

Commit(r, c, d) ==
    /\ disk' = Flush(r)
    /\ buf' = [buf EXCEPT ![r] = Record(c, d)]
    /\ cp' = [cp EXCEPT ![r] = c]

\* The checkpoints a job passes, and the one after c.
Passes(j, c) ==
    /\ c = SETUP_ONCE => stateOf[j] = "SPAWN"
    /\ c = TEARDOWN_ONCE => stateOf[j] = "FUNNEL" \/ (stateOf[j] = "SPAWN" /\ subjobs[j] = 0)
After == [j \in Job |-> [c \in NIL..TEARDOWN_ONCE |->
             Min({d \in Checkpoint : d > c /\ Passes(j, d)})]]

\* Wal::rollback's score.
CheckpointBonus == <<30, 20, 10, 20, 15, 10, 5, 20, 25, 30>>
StateBonus == [SPAWN |-> 15, PARTITION |-> 20, FUNNEL |-> 10]
\* Mutant: a module that is missing costs too little.
LikelyWithoutModule(rec, state, cached) ==
    50 - rec.failcount * (-10) - (IF cached THEN 0 ELSE 25)
       + CheckpointBonus[rec.checkpoint + 1] + StateBonus[state]
Likeliness(rec, state, cached) ==
    50 - rec.failcount * (-10) - (IF cached THEN 0 ELSE 75)
       + CheckpointBonus[rec.checkpoint + 1] + StateBonus[state]
Recoverable(rec, state, cached) == Likeliness(rec, state, cached) >= 40

-----------------------------------------------------------------------------
(* Execute::run, one action per step that touches shared state. *)

\* A process is gone, with its stdio buffers.  The main process may be one.
Dies(R) ==
    /\ pc' = [r \in Runner |-> IF r \in R THEN "none" ELSE pc[r]]
    /\ job' = [r \in Runner |-> IF r \in R THEN NoJob ELSE job[r]]
    /\ cp' = [r \in Runner |-> IF r \in R THEN NIL ELSE cp[r]]
    /\ buf' = [r \in Runner |-> IF r \in R THEN Empty ELSE buf[r]]
    /\ chain' = [r \in Runner |-> IF r \in R THEN NoChain ELSE chain[r]]
    /\ abandoned' = abandoned \cup {Pkg(r) : r \in {q \in R : Inside(q)}}
    /\ main' = IF Main \in R THEN "down" ELSE main
    /\ mjob' = IF Main \in R THEN NoJob ELSE mjob
    /\ todo' = IF Main \in R THEN {} ELSE todo
    /\ cache_counter' = IF Main \in R THEN 0 ELSE cache_counter
    /\ UNCHANGED <<jobfork, disk, pkg, home, locked, given, finished, sent, stolen, doubled, restarts>>

Stage(r, from, to) ==
    /\ pc[r] = from
    /\ pc' = [pc EXCEPT ![r] = to]
    /\ UNCHANGED <<jobfork, main, mjob, todo, job, cache, given, sent, doubled, restarts>>

\* Wal's constructor truncates the log and buffers the first record.
OpenWal(r) ==
    /\ Stage(r, "start", "check")
    /\ disk' = [disk EXCEPT ![job[r]] = Empty]
    /\ buf' = [buf EXCEPT ![r] = Record(NIL, FALSE)]
    /\ UNCHANGED <<chain, cp, home, locked, finished, stolen, abandoned>>

HasPackage(r) ==
    /\ pkg[Pkg(r)] # "absent"
    /\ Stage(r, "check", "await")
    /\ UNCHANGED <<chain, cp, buf, disk, home, locked, finished, stolen, abandoned>>

AwaitLock(r) ==
    /\ ~locked[Pkg(r)]
    /\ Stage(r, "await", "home")
    /\ UNCHANGED <<chain, cp, buf, disk, home, locked, finished, stolen, abandoned>>

HasHome(r) ==
    /\ home[Pkg(r)] \in {"ok", "bad"}
    /\ Stage(r, "home", "lock")
    /\ UNCHANGED <<chain, cp, buf, disk, home, locked, finished, stolen, abandoned>>

\* Package::extract makes the directory before it unpacks.
OpenPackage(r) ==
    /\ home[Pkg(r)] \in {"none", "dir"} /\ pkg[Pkg(r)] # "absent"
    /\ Stage(r, "home", "extract")
    /\ home' = [home EXCEPT ![Pkg(r)] = "dir"]
    /\ UNCHANGED <<chain, cp, buf, disk, locked, finished, stolen, abandoned>>

\* extract may fail, on a file that is not complete it does, and reports no error:
\* setupHome creates .jobhome whatever was unpacked.
SetupHome(r) ==
    /\ Stage(r, "extract", "lock")
    /\ \E h \in IF pkg[Pkg(r)] = "partial" THEN {"bad"} ELSE {"ok", "bad"} :
          home' = [home EXCEPT ![Pkg(r)] = h]
    /\ UNCHANGED <<chain, cp, buf, disk, locked, finished, stolen, abandoned>>

\* The package was disposed of in the meantime, but a directory was there.
SetupEmptyHome(r) ==
    /\ home[Pkg(r)] = "dir" /\ pkg[Pkg(r)] = "absent"
    /\ Stage(r, "home", "lock")
    /\ home' = [home EXCEPT ![Pkg(r)] = "bad"]
    /\ UNCHANGED <<chain, cp, buf, disk, locked, finished, stolen, abandoned>>

\* Mutant: the lock file is not created.
SetNoLock(r) ==
    /\ Stage(r, "lock", "env")
    /\ UNCHANGED <<chain, cp, buf, disk, home, locked, finished, stolen, abandoned>>

\* setLock does not look whether the lock is there by now.
SetLock(r) ==
    /\ Stage(r, "lock", "env")
    /\ locked' = [locked EXCEPT ![Pkg(r)] = TRUE]
    /\ stolen' = stolen \cup (IF locked[Pkg(r)] THEN {Pkg(r)} ELSE {})
    /\ UNCHANGED <<chain, cp, buf, disk, home, finished, abandoned>>

\* setupEnv, packageMain and packageInvoke, then checkpoint INIT.
SetupEnv(r) ==
    /\ home[Pkg(r)] = "ok"
    /\ Stage(r, "env", "exec")
    /\ Commit(r, INIT, FALSE)
    /\ UNCHANGED <<chain, home, locked, finished, stolen, abandoned>>

\* The job's Python methods, in order, each followed by its checkpoint.  Before
\* PULLCHAIN the subjobs are put in the chain.
Advance(r) ==
    LET c == After[job[r]][cp[r]]
    IN  /\ Stage(r, "exec", IF c = PULLCHAIN THEN "close" ELSE "exec")
        /\ Commit(r, c, FALSE)
        /\ chain' = IF c = PULLCHAIN /\ subjobs[job[r]] > 0
                    THEN [chain EXCEPT ![r] = [parent |-> job[r], left |-> subjobs[job[r]]]]
                    ELSE chain
        /\ UNCHANGED <<home, locked, finished, stolen, abandoned>>

\* A Python exception in inject or later jumps to py_failed.
PyFailed(r) ==
    /\ cp[r] \in LOAD..TEARDOWN
    /\ Stage(r, "exec", "close")
    /\ UNCHANGED <<cp, buf, chain, disk, home, locked, finished, stolen, abandoned>>

\* Mutant: the home is unlocked before the teardown commands ran in it.
MarkDoneUnlocks(r) ==
    /\ Stage(r, "close", "teardown")
    /\ Commit(r, cp[r], TRUE)
    /\ finished' = [finished EXCEPT ![job[r]] = @ + 1]
    /\ locked' = [locked EXCEPT ![Pkg(r)] = FALSE]
    /\ UNCHANGED <<chain, home, stolen, abandoned>>

MarkDone(r) ==
    /\ Stage(r, "close", "teardown")
    /\ Commit(r, cp[r], TRUE)
    /\ finished' = [finished EXCEPT ![job[r]] = @ + 1]
    /\ UNCHANGED <<chain, home, locked, stolen, abandoned>>

\* Mutant: LocalEnv::teardown forgets the lock file.
TeardownKeepsLock(r) ==
    /\ Stage(r, "teardown", "stop")
    /\ UNCHANGED <<cp, buf, chain, disk, home, locked, finished, stolen, abandoned>>

Teardown(r) ==
    /\ Stage(r, "teardown", "stop")
    /\ locked' = [locked EXCEPT ![Pkg(r)] = FALSE]
    /\ UNCHANGED <<cp, buf, chain, disk, home, finished, stolen, abandoned>>

\* Mutant: prospect runs before the log is closed.
CloseWalLate(r) ==
    /\ Stage(r, "stop", "prospect")
    /\ UNCHANGED <<cp, buf, chain, disk, home, locked, finished, stolen, abandoned>>

\* control.stop() joins the heartbeat thread, which takes seconds, or as long as
\* the master is away.  Only then does fclose write the done record.  A --nofork
\* job ends here: prepareJob calls prospect for forked jobs only.
CloseWal(r) ==
    /\ pc[r] = "stop"
    /\ disk' = Flush(r)
    /\ buf' = [buf EXCEPT ![r] = Empty]
    /\ IF r = Main /\ main = "inline"
       THEN /\ pc' = [pc EXCEPT ![r] = "none"]
            /\ job' = [job EXCEPT ![r] = NoJob]
            /\ cp' = [cp EXCEPT ![r] = NIL]
            /\ main' = "loop"
       ELSE /\ pc' = [pc EXCEPT ![r] = "prospect"]
            /\ UNCHANGED <<job, cp, main>>
    /\ UNCHANGED <<jobfork, mjob, todo, chain, cache, home, locked, history>>

\* After prospect a child, or a main process whose fork failed, exits; recovery
\* goes on with the next log.
EndRun(r, newChain) ==
    IF r # Main \/ main = "unforked" THEN Dies({r})
    ELSE /\ pc' = [pc EXCEPT ![r] = "none"]
         /\ job' = [job EXCEPT ![r] = NoJob]
         /\ cp' = [cp EXCEPT ![r] = NIL]
         /\ chain' = [chain EXCEPT ![r] = newChain]
         /\ UNCHANGED <<jobfork, main, mjob, todo, buf, disk, cache, home, locked, history>>

\* Execute::prospect returns at once when there is no chain or the package is no
\* longer cached.
NothingToSend(r) ==
    /\ pc[r] = "prospect"
    /\ chain[r] = NoChain \/ pkg[Pkg(r)] = "absent"
    /\ EndRun(r, chain[r])

Prospect(r) ==
    /\ chain[r] # NoChain /\ pkg[Pkg(r)] # "absent"
    /\ Stage(r, "prospect", "send")
    /\ UNCHANGED <<cp, buf, chain, disk, home, locked, finished, stolen, abandoned>>

\* One subjob is sent; recv then waits for the answer of the master.
SendSubjob(r) ==
    /\ pc[r] = "send" /\ chain[r].left > 0
    /\ pc' = [pc EXCEPT ![r] = "asked"]
    /\ chain' = [chain EXCEPT ![r].left = @ - 1]
    /\ sent' = [sent EXCEPT ![chain[r].parent] = @ + 1]
    /\ UNCHANGED <<jobfork, main, mjob, todo, job, cp, buf, disk, cache, home, locked,
                   given, finished, stolen, doubled, abandoned, restarts>>

SubjobAnswered(r) ==
    /\ Stage(r, "asked", "send")
    /\ UNCHANGED <<cp, buf, chain, disk, home, locked, finished, stolen, abandoned>>

\* The master dies with the request or the reply: recv has no timeout, and nothing
\* but its own death ends the process that called prospect.
AnswerLost(r) ==
    /\ Stage(r, "asked", "unanswered")
    /\ UNCHANGED <<cp, buf, chain, disk, home, locked, finished, stolen, abandoned>>

AllSent(r) ==
    /\ pc[r] = "send" /\ chain[r].left = 0
    /\ EndRun(r, NoChain)

\* run returns early when the package is missing, the home cannot be made or is
\* incomplete, or Python cannot load the job.  The ControlClient on its stack
\* then destroys a thread that was not joined, and the process is terminated.
EarlyReturn(r) ==
    /\ \/ pc[r] = "check" /\ pkg[Pkg(r)] = "absent"
       \/ pc[r] = "home" /\ home[Pkg(r)] = "none" /\ pkg[Pkg(r)] = "absent"
       \/ pc[r] = "env" /\ home[Pkg(r)] # "ok"
       \/ pc[r] = "exec" /\ cp[r] \in {INIT, LOAD}
    /\ Dies({r})

RunnerStep(r) ==
    /\ pc[r] # "none"
    /\ \/ OpenWal(r) \/ HasPackage(r) \/ AwaitLock(r)
       \/ HasHome(r) \/ OpenPackage(r) \/ SetupHome(r) \/ SetupEmptyHome(r)
       \/ SetLock(r) \/ SetupEnv(r) \/ Advance(r) \/ PyFailed(r) \/ EarlyReturn(r)
       \/ MarkDone(r) \/ Teardown(r) \/ CloseWal(r)
       \/ NothingToSend(r) \/ Prospect(r) \/ SendSubjob(r) \/ SubjobAnswered(r) \/ AllSent(r)

-----------------------------------------------------------------------------
(* The main process. *)

\* A runner begins Execute::run.  A child inherits the chain of its parent.
Begin(r, j) ==
    /\ pc' = [pc EXCEPT ![r] = "start"]
    /\ job' = [job EXCEPT ![r] = j]
    /\ chain' = [chain EXCEPT ![r] = chain[Main]]
    /\ UNCHANGED <<cp, buf>>

Idle == pc[Main] = "none"

\* Wal::rollback on one log: an empty file fails the magic check, a done log is
\* removed, a job with a low score is left where it is, any other is run.
Rollback(j) ==
    /\ main = "recover" /\ Idle /\ j \in todo
    /\ todo' = todo \ {j}
    /\ \/ /\ disk[j] = Empty
          /\ UNCHANGED <<runners, disk, doubled>>
       \/ /\ IsRecord(disk[j]) /\ disk[j].done
          /\ disk' = [disk EXCEPT ![j] = NoFile]
          /\ UNCHANGED <<runners, doubled>>
       \/ /\ IsRecord(disk[j]) /\ ~disk[j].done
          /\ ~Recoverable(disk[j], stateOf[j], pkg[pkgOf[j]] # "absent")
          /\ UNCHANGED <<runners, disk, doubled>>
       \/ /\ IsRecord(disk[j]) /\ ~disk[j].done
          /\ Recoverable(disk[j], stateOf[j], pkg[pkgOf[j]] # "absent")
          /\ Begin(Main, j)
          /\ doubled' = doubled \cup (IF pc[j] # "none" THEN {j} ELSE {})
          /\ UNCHANGED disk
    /\ UNCHANGED <<jobfork, main, mjob, cache, home, locked, given, finished, sent, stolen,
                   abandoned, restarts>>

Recovered ==
    /\ main = "recover" /\ Idle /\ todo = {}
    /\ main' = "loop"
    /\ UNCHANGED <<jobfork, mjob, todo, runners, disk, cache, home, locked, history>>

\* Execute::run: fork, or run in this process.  When fork fails, main runs the
\* job as if it were the child.
Launch(j) ==
    \/ jobfork /\ Begin(j, j) /\ main' = "loop"
    \/ jobfork /\ Begin(Main, j) /\ main' = "unforked"
    \/ ~jobfork /\ Begin(Main, j) /\ main' = "inline"

\* prepareJob.  The counter is unsigned; it is capped just above the only value
\* it is compared with.
TakeJob(j) ==
    /\ main = "loop" /\ ~given[j]
    /\ given' = [given EXCEPT ![j] = TRUE]
    /\ cache_counter' = IF cache_counter > CacheLimit THEN cache_counter ELSE cache_counter + 1
    /\ IF pkg[pkgOf[j]] = "absent"
       THEN /\ pkg' = [pkg EXCEPT ![pkgOf[j]] = "partial"]
            /\ main' = "write" /\ mjob' = j
            /\ UNCHANGED runners
       ELSE Launch(j) /\ UNCHANGED <<pkg, mjob>>
    /\ UNCHANGED <<jobfork, todo, disk, home, locked, finished, sent, stolen, doubled,
                   abandoned, restarts>>

PackageWritten ==
    /\ main = "write"
    /\ pkg' = [pkg EXCEPT ![pkgOf[mjob]] = "ok"]
    /\ mjob' = NoJob
    /\ Launch(mjob)
    /\ UNCHANGED <<jobfork, todo, cache_counter, disk, home, locked, history>>

\* An empty reply when the counter is exactly at the limit: Execute::dispose.
Dispose ==
    /\ main = "loop" /\ cache_counter = CacheLimit
    /\ pkg' = [p \in Package |-> "absent"]
    /\ cache_counter' = 0
    /\ UNCHANGED <<jobfork, main, mjob, todo, runners, disk, home, locked, history>>

ChildDies(j) == pc[j] # "none" /\ Dies({j})
\* The main process dies or is stopped; its children live on.
MainDies == main # "down" /\ Dies({Main})
HostDies == main # "down" /\ Dies(Runner)

Restart ==
    /\ main = "down" /\ restarts < MaxRestarts
    /\ main' = "recover"
    /\ todo' = {j \in Job : disk[j] # NoFile}
    /\ restarts' = restarts + 1
    /\ UNCHANGED <<jobfork, mjob, runners, disk, cache, home, locked, given, finished, sent,
                   stolen, doubled, abandoned>>

MainStep == (\E j \in Job : Rollback(j)) \/ Recovered \/ PackageWritten
Next == \/ \E r \in Runner : RunnerStep(r) \/ AnswerLost(r)
        \/ MainStep
        \/ \E j \in Job : TakeJob(j)
        \/ Dispose
        \/ \E j \in Job : ChildDies(j)
        \/ MainDies \/ HostDies \/ Restart

Spec == Init /\ [][Next]_vars
\* A process that can go on does: the operating system schedules it, the job's
\* own methods return, the heartbeat's join returns (ControlClient), and a master
\* that has a request answers it, unless it dies with it: a master that is away
\* comes back.
FairSpec == Spec /\ WF_vars(MainStep) /\ \A r \in Runner : WF_vars(RunnerStep(r))

-----------------------------------------------------------------------------
(* Properties. *)

\* Type invariant.
TypeOK ==
    /\ jobfork \in BOOLEAN
    /\ main \in {"down", "recover", "loop", "write", "inline", "unforked"}
    /\ mjob \in Job \cup {NoJob} /\ (main = "write" <=> mjob # NoJob)
    /\ todo \subseteq Job
    /\ cache_counter \in 0..CacheLimit + 1
    /\ pc \in [Runner -> {"none", "start", "check", "await", "home", "extract", "lock", "env",
                          "exec", "close", "teardown", "stop", "prospect", "send", "asked",
                          "unanswered"}]
    /\ job \in [Runner -> Job \cup {NoJob}]
    /\ \A r \in Runner : pc[r] = "none" <=> job[r] = NoJob
    /\ cp \in [Runner -> Checkpoint]
    /\ buf \in [Runner -> {Record(c, d) : c \in Checkpoint, d \in BOOLEAN} \cup {Empty}]
    /\ chain \in [Runner -> [parent : Job \cup {NoJob}, left : Nat]]
    /\ disk \in [Job -> [checkpoint : Checkpoint, done : BOOLEAN, failcount : Nat]
                        \cup {NoFile, Empty}]
    /\ pkg \in [Package -> {"absent", "partial", "ok"}]
    /\ home \in [Package -> {"none", "dir", "bad", "ok"}]
    /\ locked \in [Package -> BOOLEAN]
    /\ given \in [Job -> BOOLEAN] /\ finished \in [Job -> Nat] /\ sent \in [Job -> Nat]
    /\ stolen \subseteq Package /\ doubled \subseteq Job /\ abandoned \subseteq Package
    /\ restarts \in 0..MaxRestarts

\* A log marked done belongs to a job of which a run came to its end, so
\* recovery never throws away the log of a job that was cut short.
DoneMeansFinished ==
    \A j \in Job : IsRecord(disk[j]) /\ disk[j].done => finished[j] > 0

\* The home of a job that was cut short stays locked, so no other job works in
\* what it left half done.
UnfinishedKeepsLock ==
    \A j \in Job :
        (/\ IsRecord(disk[j]) /\ ~disk[j].done /\ finished[j] = 0
         /\ \A r \in Runner : job[r] # j
         /\ pkgOf[j] \notin stolen)
            => locked[pkgOf[j]]

\* Two runners are in one home only after one of them set a lock that was there
\* already, that is, after both had found the home free.
TwoInHomeMeansStolen ==
    \A q, r \in Runner :
        q # r /\ Inside(q) /\ Inside(r) /\ Pkg(q) = Pkg(r) => Pkg(q) \in stolen

\* However often processes die and jobs are recovered, no subjob is submitted
\* twice: the done record is on disk before the first one is sent.  The exception
\* is a job that recovery ran while the child of a dead main process was at it.
SubjobsSentOnce ==
    \A j \in Job : j \notin doubled => sent[j] <= subjobs[j]

\* Whatever a log says, Wal::rollback runs its job again exactly if the package is
\* still in the cache.  The comment "Only try so many times" on its first line is
\* not borne out: no failure is ever counted, and the count would raise the score.
ScoreIsCache ==
    \A j \in Job : IsRecord(disk[j]) =>
        \A cached \in BOOLEAN : Recoverable(disk[j], stateOf[j], cached) <=> cached

\* A run that has begun ends, unless the home it needs was left locked by a
\* process that died, or the answer to one of its subjobs died with the master.
RunsEnd ==
    \A r \in Runner :
        pc[r] # "none" ~> pc[r] \in {"none", "unanswered"} \/ Pkg(r) \in abandoned

\* What "Directory busy, waiting on mutex" tells: a job that waits for the lock
\* waits for another one that is working in the home.
LockHasOwner ==
    \A p \in Package : locked[p] => \E r \in Runner : Inside(r) /\ Pkg(r) = p
=============================================================================
