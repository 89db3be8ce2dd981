------------------------- MODULE ChellaWorkerProofs -------------------------
(***************************************************************************)
(* Proofs about ChellaWorker: the logs, the locks and the subjobs of one   *)
(* host, for any jobs and packages, any number of children at work, and    *)
(* deaths of any of the processes at any point.                            *)
(***************************************************************************)
EXTENDS ChellaWorker, SetLemmas, TLAPS

Stages == {"none", "start", "check", "await", "home", "extract", "lock", "env",
           "exec", "close", "teardown", "stop", "prospect", "send", "asked", "unanswered"}
\* In prospect, and among its subjobs.
Sending == {"send", "asked", "unanswered"}
Prospecting == {"prospect"} \cup Sending
USE DEF Sending, Prospecting

LogRecord == [checkpoint : Checkpoint, done : BOOLEAN, failcount : {0}]
Chain == [parent : Job \cup {NoJob}, left : Nat]

\* The parts of TypeOK.
MainTypes ==
    /\ jobfork \in BOOLEAN
    /\ main \in {"down", "recover", "loop", "write", "inline", "unforked"}
    /\ mjob \in Job \cup {NoJob} /\ (main = "write" <=> mjob # NoJob)
    /\ todo \subseteq Job
    /\ cache_counter \in 0..CacheLimit + 1
    /\ restarts \in 0..MaxRestarts
RunnerTypes ==
    /\ pc \in [Runner -> Stages]
    /\ job \in [Runner -> Job \cup {NoJob}]
    /\ \A r \in Runner : pc[r] = "none" <=> job[r] = NoJob
LogTypes ==
    /\ cp \in [Runner -> Checkpoint]
    /\ buf \in [Runner -> LogRecord \cup {Empty}]
    /\ disk \in [Job -> LogRecord \cup {NoFile, Empty}]
    /\ chain \in [Runner -> Chain]
FileTypes ==
    /\ pkg \in [Package -> {"absent", "partial", "ok"}]
    /\ home \in [Package -> {"none", "dir", "bad", "ok"}]
    /\ locked \in [Package -> BOOLEAN]
HistoryTypes ==
    /\ given \in [Job -> BOOLEAN] /\ finished \in [Job -> Nat] /\ sent \in [Job -> Nat]
    /\ stolen \subseteq Package /\ doubled \subseteq Job /\ abandoned \subseteq Package

\* While the methods of a job run there is another checkpoint to come.
BeforePullchain == \A r \in Runner : pc[r] = "exec" => cp[r] \in NIL..TEARDOWN_ONCE

TypeInv ==
    MainTypes /\ RunnerTypes /\ LogTypes /\ FileTypes /\ HistoryTypes /\ BeforePullchain

LEMMA RecordType ==
    /\ \A c \in Checkpoint, d \in BOOLEAN : Record(c, d) \in LogRecord
    /\ \A x \in LogRecord : x = Record(x.checkpoint, x.done)
  BY DEF Record, LogRecord

LEMMA TypeParts == TypeInv => TypeOK
<1> SUFFICES ASSUME TypeInv PROVE TypeOK
  OBVIOUS
<1>1. LogRecord \subseteq {Record(c, d) : c \in Checkpoint, d \in BOOLEAN}
  BY DEF Record, LogRecord
<1>2. buf \in [Runner -> {Record(c, d) : c \in Checkpoint, d \in BOOLEAN} \cup {Empty}]
  BY <1>1 DEF TypeInv, LogTypes
<1>3. disk \in [Job -> [checkpoint : Checkpoint, done : BOOLEAN, failcount : Nat]
                        \cup {NoFile, Empty}]
  BY DEF TypeInv, LogTypes, LogRecord
<1> QED BY <1>2, <1>3 DEF TypeInv, MainTypes, RunnerTypes, LogTypes, FileTypes, HistoryTypes, TypeOK,
                    LogRecord, Stages, Chain

\* Checkpoints are passed in order, and PULLCHAIN comes last.
LEMMA AfterType ==
    ASSUME NEW j \in Job, NEW c \in NIL..TEARDOWN_ONCE
    PROVE  After[j][c] \in Checkpoint /\ After[j][c] > c
<1> DEFINE next == {d \in Checkpoint : d > c /\ Passes(j, d)}
<1>1. PULLCHAIN \in next
  BY DEF PULLCHAIN, Checkpoint, NIL, TEARDOWN_ONCE, SETUP_ONCE, Passes
<1>2. next \in SUBSET Nat
  BY DEF Checkpoint, NIL, PULLCHAIN
<1>3. Min(next) \in next
  BY <1>1, <1>2, MinOfNats
<1>4. After[j][c] = Min(next)
  BY DEF After
<1> QED BY <1>3, <1>4

LEMMA Names == Main \in Runner /\ Job \subseteq Runner /\ Main \notin Job /\ NoJob \notin Job
  BY WorkerConstants DEF Runner

\* A runner that is at work has a job, and that a package.
LEMMA AtWork ==
    ASSUME TypeInv, NEW r \in Runner, pc[r] # "none"
    PROVE  job[r] \in Job /\ Pkg(r) \in Package
  BY WorkerConstants DEF TypeInv, RunnerTypes, Pkg

LEMMA TypeInit == Init => TypeInv
<1> SUFFICES ASSUME Init PROVE TypeInv
  OBVIOUS
<1>1. MainTypes
  BY WorkerConstants DEF Init, MainTypes
<1>2. RunnerTypes
  BY DEF Init, RunnerTypes, Stages
<1>3. LogTypes
  BY DEF Init, LogTypes, NoChain, Chain, Checkpoint, NIL, PULLCHAIN
<1>4. FileTypes /\ HistoryTypes /\ BeforePullchain
  BY DEF Init, FileTypes, HistoryTypes, BeforePullchain
<1> QED BY <1>1, <1>2, <1>3, <1>4 DEF TypeInv

\* The end of processes.
LEMMA DiesTypes ==
    ASSUME TypeInv, NEW R \in SUBSET Runner, Dies(R)
    PROVE  TypeInv'
<1>1. MainTypes'
  BY WorkerConstants DEF Dies, TypeInv, MainTypes
<1>2. RunnerTypes'
  BY Names DEF Dies, TypeInv, RunnerTypes, Stages
<1>3. LogTypes'
  BY DEF Dies, TypeInv, LogTypes, NoChain, Chain, Checkpoint, NIL, PULLCHAIN
<1>4. \A r \in R : Inside(r) => Pkg(r) \in Package
  BY AtWork DEF Inside
<1>5. FileTypes' /\ HistoryTypes'
  BY <1>4 DEF Dies, TypeInv, FileTypes, HistoryTypes
<1>6. BeforePullchain'
  BY DEF Dies, TypeInv, BeforePullchain
<1> QED BY <1>1, <1>2, <1>3, <1>5, <1>6 DEF TypeInv

LEMMA FlushType ==
    ASSUME TypeInv, NEW r \in Runner, pc[r] # "none"
    PROVE  /\ Flush(r) \in [Job -> LogRecord \cup {NoFile, Empty}]
           /\ \A j \in Job : Flush(r)[j] = IF j = job[r] /\ disk[j] # NoFile THEN buf[r] ELSE disk[j]
<1>1. job[r] \in Job
  BY AtWork
<1> QED BY <1>1 DEF Flush, TypeInv, LogTypes

\* A step of a runner on its way: where it is, and what it may touch.
LEMMA StageTypes ==
    ASSUME TypeInv, NEW r \in Runner, NEW from, NEW to \in Stages, Stage(r, from, to),
           from # "none", to # "none", LogTypes', FileTypes',
           finished' \in [Job -> Nat], stolen' \subseteq Package, abandoned' \subseteq Package,
           to = "exec" => cp'[r] \in NIL..TEARDOWN_ONCE,
           \A q \in Runner : q # r => cp'[q] = cp[q]
    PROVE  TypeInv'
<1>1. MainTypes'
  BY DEF Stage, cache, TypeInv, MainTypes
<1>2. RunnerTypes'
  BY DEF Stage, TypeInv, RunnerTypes
<1>3. HistoryTypes'
  BY DEF Stage, TypeInv, HistoryTypes
<1>4. BeforePullchain'
  BY DEF Stage, TypeInv, RunnerTypes, BeforePullchain
<1> QED BY <1>1, <1>2, <1>3, <1>4 DEF TypeInv

LEMMA CommitTypes ==
    ASSUME TypeInv, NEW r \in Runner, pc[r] # "none", NEW c \in Checkpoint, NEW d \in BOOLEAN,
           Commit(r, c, d), chain' \in [Runner -> Chain]
    PROVE  LogTypes' /\ cp'[r] = c /\ (\A q \in Runner : q # r => cp'[q] = cp[q])
<1>1. Record(c, d) \in LogRecord
  BY RecordType
<1>2. disk' \in [Job -> LogRecord \cup {NoFile, Empty}]
  BY FlushType DEF Commit
<1> QED BY <1>1, <1>2 DEF Commit, TypeInv, LogTypes

LEMMA EndRunTypes ==
    ASSUME TypeInv, NEW r \in Runner, NEW new \in Chain, EndRun(r, new)
    PROVE  TypeInv'
<1>1. CASE Dies({r})
  BY <1>1, DiesTypes
<1>2. CASE ~Dies({r})
  <2>1. /\ pc' = [pc EXCEPT ![r] = "none"] /\ job' = [job EXCEPT ![r] = NoJob]
        /\ cp' = [cp EXCEPT ![r] = NIL] /\ chain' = [chain EXCEPT ![r] = new]
        /\ UNCHANGED <<jobfork, main, mjob, todo, buf, disk, cache, home, locked, history>>
    BY <1>2 DEF EndRun
  <2>2. MainTypes'
    BY <2>1 DEF TypeInv, MainTypes, cache, history
  <2>3. RunnerTypes'
    BY <2>1 DEF TypeInv, RunnerTypes, Stages
  <2>4. LogTypes'
    BY <2>1 DEF TypeInv, LogTypes, Checkpoint, NIL, PULLCHAIN
  <2>5. FileTypes' /\ HistoryTypes' /\ BeforePullchain'
    BY <2>1 DEF TypeInv, FileTypes, HistoryTypes, BeforePullchain, RunnerTypes, LogTypes, cache, history
  <2> QED BY <2>2, <2>3, <2>4, <2>5 DEF TypeInv
<1> QED BY <1>1, <1>2

LEMMA RunnerStepTypes ==
    ASSUME TypeInv, NEW r \in Runner, RunnerStep(r)
    PROVE  TypeInv'
<1>0. MainTypes /\ RunnerTypes /\ LogTypes /\ FileTypes /\ HistoryTypes /\ BeforePullchain
  BY DEF TypeInv
<1>a. pc[r] # "none" /\ job[r] \in Job /\ Pkg(r) \in Package
  BY AtWork DEF RunnerStep
<1>b. ASSUME UNCHANGED <<chain, cp, buf, disk>> PROVE LogTypes'
  BY <1>0, <1>b DEF LogTypes
<1>c. ASSUME UNCHANGED <<pkg, home, locked>> PROVE FileTypes'
  BY <1>0, <1>c DEF FileTypes
<1>1. CASE OpenWal(r)
  <2>1. LogTypes'
    <3>0. NIL \in Checkpoint
      BY DEF Checkpoint, NIL, PULLCHAIN
    <3>1. Record(NIL, FALSE) \in LogRecord
      BY <3>0, RecordType
    <3> QED BY <1>0, <1>1, <1>a, <3>1 DEF OpenWal, LogTypes
  <2> QED BY <1>0, <1>1, <1>c, <2>1, StageTypes DEF OpenWal, Stage, cache, Stages, HistoryTypes
<1>2. CASE HasPackage(r) \/ AwaitLock(r) \/ HasHome(r) \/ Prospect(r) \/ SubjobAnswered(r)
  BY <1>0, <1>2, <1>b, <1>c, StageTypes
     DEF HasPackage, AwaitLock, HasHome, Prospect, SubjobAnswered, Stage, cache, Stages, HistoryTypes
<1>3. CASE OpenPackage(r) \/ SetupHome(r) \/ SetupEmptyHome(r)
  <2>1. FileTypes'
    BY <1>0, <1>3 DEF OpenPackage, SetupHome, SetupEmptyHome, FileTypes, Stage, cache
  <2> QED BY <1>0, <1>3, <1>b, <2>1, StageTypes
          DEF OpenPackage, SetupHome, SetupEmptyHome, Stages, HistoryTypes
<1>4. CASE SetLock(r)
  <2>1. FileTypes'
    BY <1>0, <1>4 DEF SetLock, FileTypes, Stage, cache
  <2> QED BY <1>0, <1>4, <1>a, <1>b, <2>1, StageTypes DEF SetLock, Stages, HistoryTypes
<1>5. CASE SetupEnv(r)
  <2>1. INIT \in Checkpoint /\ INIT \in NIL..TEARDOWN_ONCE
    BY DEF INIT, Checkpoint, NIL, PULLCHAIN, TEARDOWN_ONCE
  <2>2. Commit(r, INIT, FALSE) /\ chain' \in [Runner -> Chain]
    BY <1>0, <1>5 DEF SetupEnv, LogTypes
  <2>3. LogTypes' /\ cp'[r] = INIT /\ (\A q \in Runner : q # r => cp'[q] = cp[q])
    BY <1>a, <2>1, <2>2, CommitTypes
  <2> QED BY <1>0, <1>5, <1>c, <2>1, <2>3, StageTypes DEF SetupEnv, Stage, cache, Stages, HistoryTypes
<1>6. CASE Advance(r)
  <2> DEFINE c == After[job[r]][cp[r]]
  <2>1. c \in Checkpoint
    BY <1>0, <1>6, <1>a, AfterType DEF Advance, Stage, BeforePullchain
  <2>2. Commit(r, c, FALSE) /\ Stage(r, "exec", IF c = PULLCHAIN THEN "close" ELSE "exec")
    BY <1>6 DEF Advance
  <2>3. chain' \in [Runner -> Chain]
    BY <1>0, <1>6, <1>a, WorkerConstants DEF Advance, LogTypes, Chain
  <2> HIDE DEF c
  <2>4. LogTypes' /\ cp'[r] = c /\ (\A q \in Runner : q # r => cp'[q] = cp[q])
    BY <1>a, <2>1, <2>2, <2>3, CommitTypes
  <2>5. c # PULLCHAIN => c \in NIL..TEARDOWN_ONCE
    BY <2>1 DEF Checkpoint, NIL, PULLCHAIN, TEARDOWN_ONCE
  <2>6. FileTypes' /\ UNCHANGED <<finished, stolen, abandoned>>
    BY <1>6, <1>c DEF Advance, Stage, cache
  <2>7. CASE c = PULLCHAIN
    <3>1. Stage(r, "exec", "close")
      BY <2>2, <2>7
    <3> QED BY <1>0, <2>4, <2>6, <3>1, StageTypes DEF Stages, HistoryTypes
  <2>8. CASE c # PULLCHAIN
    <3>1. Stage(r, "exec", "exec")
      BY <2>2, <2>8
    <3> QED BY <1>0, <2>4, <2>5, <2>6, <2>8, <3>1, StageTypes DEF Stages, HistoryTypes
  <2> QED BY <2>7, <2>8
<1>7. CASE PyFailed(r)
  BY <1>0, <1>7, <1>b, <1>c, StageTypes DEF PyFailed, Stage, cache, Stages, HistoryTypes
<1>8. CASE MarkDone(r)
  <2>1. Commit(r, cp[r], TRUE) /\ cp[r] \in Checkpoint /\ chain' \in [Runner -> Chain]
    BY <1>0, <1>8 DEF MarkDone, LogTypes
  <2>2. LogTypes' /\ (\A q \in Runner : q # r => cp'[q] = cp[q])
    BY <1>a, <2>1, CommitTypes
  <2>3. finished' \in [Job -> Nat]
    BY <1>0, <1>8, <1>a DEF MarkDone, HistoryTypes
  <2> QED BY <1>0, <1>8, <1>c, <2>2, <2>3, StageTypes DEF MarkDone, Stage, cache, Stages, HistoryTypes
<1>9. CASE Teardown(r)
  <2>1. FileTypes'
    BY <1>0, <1>9 DEF Teardown, FileTypes, Stage, cache
  <2> QED BY <1>0, <1>9, <1>b, <2>1, StageTypes DEF Teardown, Stages, HistoryTypes
<1>10. CASE CloseWal(r)
  <2>1. disk' \in [Job -> LogRecord \cup {NoFile, Empty}]
    BY <1>10, <1>a, FlushType DEF CloseWal
  <2>2. LogTypes'
    BY <1>0, <1>10, <2>1 DEF CloseWal, LogTypes, Checkpoint, NIL, PULLCHAIN
  <2>3. MainTypes' /\ FileTypes' /\ HistoryTypes'
    BY <1>0, <1>10 DEF CloseWal, MainTypes, FileTypes, HistoryTypes, cache, history
  <2>4. RunnerTypes'
    BY <1>0, <1>10, <1>a DEF CloseWal, RunnerTypes, Stages
  <2>5. BeforePullchain'
    BY <1>0, <1>10, <1>a DEF CloseWal, RunnerTypes, LogTypes, BeforePullchain
  <2> QED BY <2>2, <2>3, <2>4, <2>5 DEF TypeInv
<1>11. CASE NothingToSend(r) \/ AllSent(r)
  <2>1. NoChain \in Chain /\ chain[r] \in Chain
    BY <1>0 DEF LogTypes, NoChain, Chain
  <2> QED BY <1>11, <2>1, EndRunTypes DEF NothingToSend, AllSent
<1>12. CASE SendSubjob(r)
  <2>1. chain[r] \in Chain /\ chain[r].left \in Nat /\ chain[r].left > 0
    BY <1>0, <1>12 DEF SendSubjob, LogTypes, Chain
  <2>2. chain' = [chain EXCEPT ![r] = [chain[r] EXCEPT !.left = chain[r].left - 1]]
    BY <1>12 DEF SendSubjob
  <2>3. [chain[r] EXCEPT !.left = chain[r].left - 1] \in Chain
    BY <2>1 DEF Chain
  <2>4. chain' \in [Runner -> Chain]
    BY <1>0, <2>2, <2>3 DEF LogTypes
  <2>5. sent' \in [Job -> Nat]
    <3>1. PICK p : sent' = [sent EXCEPT ![p] = sent[p] + 1]
      BY <1>12 DEF SendSubjob
    <3>2. p \in Job => sent[p] + 1 \in Nat
      BY <1>0 DEF HistoryTypes
    <3> QED BY <1>0, <3>1, <3>2 DEF HistoryTypes
  <2> QED BY <1>0, <1>12, <2>4, <2>5
          DEF SendSubjob, TypeInv, MainTypes, RunnerTypes, LogTypes, FileTypes, HistoryTypes,
              BeforePullchain, Stages, cache
<1>13. CASE EarlyReturn(r)
  BY <1>13, DiesTypes DEF EarlyReturn
<1> QED BY <1>1, <1>2, <1>3, <1>4, <1>5, <1>6, <1>7, <1>8, <1>9, <1>10, <1>11, <1>12, <1>13
        DEF RunnerStep

LEMMA BeginTypes ==
    ASSUME TypeInv, NEW r \in Runner, NEW j \in Job, Begin(r, j)
    PROVE  /\ RunnerTypes' /\ BeforePullchain' /\ cp' = cp /\ buf' = buf
           /\ chain' \in [Runner -> Chain]
<1>1. RunnerTypes'
  BY Names DEF Begin, TypeInv, RunnerTypes, Stages
<1>2. chain' \in [Runner -> Chain]
  BY Names DEF Begin, TypeInv, LogTypes
<1>3. BeforePullchain'
  BY DEF Begin, TypeInv, RunnerTypes, BeforePullchain
<1> QED BY <1>1, <1>2, <1>3 DEF Begin

LEMMA LaunchTypes ==
    ASSUME TypeInv, NEW j \in Job, Launch(j)
    PROVE  /\ RunnerTypes' /\ BeforePullchain' /\ cp' = cp /\ buf' = buf
           /\ chain' \in [Runner -> Chain] /\ main' \in {"loop", "unforked", "inline"}
  BY BeginTypes, Names DEF Launch

LEMMA TypeStep == TypeInv /\ [Next]_vars => TypeInv'
<1> SUFFICES ASSUME TypeInv, [Next]_vars PROVE TypeInv'
  OBVIOUS
<1>0. MainTypes /\ RunnerTypes /\ LogTypes /\ FileTypes /\ HistoryTypes /\ BeforePullchain
  BY DEF TypeInv
<1>1. ASSUME NEW r \in Runner, RunnerStep(r) PROVE TypeInv'
  BY <1>1, RunnerStepTypes
<1>2. ASSUME NEW j \in Job, Rollback(j) PROVE TypeInv'
  <2>1. MainTypes' /\ FileTypes' /\ HistoryTypes'
    BY <1>0, <1>2 DEF Rollback, MainTypes, FileTypes, HistoryTypes, cache
  <2>2. CASE UNCHANGED runners
    <3>1. RunnerTypes' /\ BeforePullchain'
      BY <1>0, <2>2 DEF runners, RunnerTypes, BeforePullchain
    <3>2. disk' \in [Job -> LogRecord \cup {NoFile, Empty}]
      <4>1. disk' = disk \/ disk' = [disk EXCEPT ![j] = NoFile]
        BY <1>2 DEF Rollback
      <4> QED BY <1>0, <4>1 DEF LogTypes
    <3>3. LogTypes'
      BY <1>0, <2>2, <3>2 DEF runners, LogTypes
    <3> QED BY <2>1, <3>1, <3>3 DEF TypeInv
  <2>3. CASE Begin(Main, j) /\ UNCHANGED disk
    BY <1>0, <2>1, <2>3, BeginTypes, Names DEF LogTypes, TypeInv
  <2> QED BY <1>2, <2>2, <2>3 DEF Rollback
<1>3. CASE PackageWritten
  <2>1. mjob \in Job /\ Launch(mjob)
    BY <1>0, <1>3 DEF PackageWritten, MainTypes
  <2>2. RunnerTypes' /\ BeforePullchain' /\ LogTypes' /\ main' \in {"loop", "unforked", "inline"}
    BY <1>0, <1>3, <2>1, LaunchTypes DEF PackageWritten, LogTypes
  <2>3. MainTypes' /\ FileTypes' /\ HistoryTypes'
    BY <1>0, <1>3, <2>2 DEF PackageWritten, MainTypes, FileTypes, HistoryTypes, history
  <2> QED BY <2>2, <2>3 DEF TypeInv
<1>4. ASSUME NEW j \in Job, TakeJob(j) PROVE TypeInv'
  <2>1. HistoryTypes' /\ FileTypes'
    BY <1>0, <1>4 DEF TakeJob, HistoryTypes, FileTypes
  <2>2. cache_counter' \in 0..CacheLimit + 1 /\ UNCHANGED <<jobfork, todo, restarts>> /\ mjob = NoJob
    BY <1>0, <1>4, WorkerConstants DEF TakeJob, MainTypes
  <2>3. CASE pkg[pkgOf[j]] = "absent"
    <3>1. main' = "write" /\ mjob' = j /\ UNCHANGED <<runners, disk>>
      BY <1>4, <2>3 DEF TakeJob
    <3>2. MainTypes'
      BY <1>0, <2>2, <3>1, Names DEF MainTypes
    <3> QED BY <1>0, <2>1, <3>1, <3>2 DEF TypeInv, runners, RunnerTypes, LogTypes, BeforePullchain
  <2>4. CASE pkg[pkgOf[j]] # "absent"
    <3>1. Launch(j) /\ UNCHANGED <<mjob, disk>>
      BY <1>4, <2>4 DEF TakeJob
    <3>2. RunnerTypes' /\ BeforePullchain' /\ LogTypes' /\ main' \in {"loop", "unforked", "inline"}
      BY <1>0, <3>1, LaunchTypes DEF LogTypes
    <3>3. MainTypes'
      BY <1>0, <2>2, <3>1, <3>2 DEF MainTypes
    <3> QED BY <2>1, <3>2, <3>3 DEF TypeInv
  <2> QED BY <2>3, <2>4
<1>5. CASE Recovered \/ Restart \/ Dispose
  <2>1. UNCHANGED <<runners, disk, home, locked>> /\ UNCHANGED <<given, finished, sent, stolen, doubled, abandoned>>
    BY <1>5 DEF Recovered, Restart, Dispose, history
  <2>2. MainTypes'
    BY <1>0, <1>5, WorkerConstants DEF Recovered, Restart, Dispose, MainTypes, history, cache
  <2>3. pkg' \in [Package -> {"absent", "partial", "ok"}]
    BY <1>0, <1>5 DEF Recovered, Restart, Dispose, FileTypes, cache
  <2> QED BY <1>0, <2>1, <2>2, <2>3
          DEF TypeInv, runners, RunnerTypes, LogTypes, BeforePullchain, FileTypes, HistoryTypes
<1>6. ASSUME NEW R \in SUBSET Runner, Dies(R) PROVE TypeInv'
  BY <1>6, DiesTypes
<1>7. CASE UNCHANGED vars
  BY <1>0, <1>7 DEF vars, runners, cache, history, TypeInv, MainTypes, RunnerTypes, LogTypes,
                    FileTypes, HistoryTypes, BeforePullchain
<1>8. ASSUME (\E j \in Job : ChildDies(j)) \/ MainDies \/ HostDies
      PROVE  \E R \in SUBSET Runner : Dies(R)
  BY <1>8, Names DEF ChildDies, MainDies, HostDies
<1>9. ASSUME NEW r \in Runner, AnswerLost(r) PROVE TypeInv'
  <2>1. LogTypes' /\ FileTypes'
    BY <1>0, <1>9 DEF AnswerLost, Stage, cache, LogTypes, FileTypes
  <2> QED BY <1>0, <1>9, <2>1, StageTypes DEF AnswerLost, Stages, HistoryTypes
<1> QED BY <1>1, <1>2, <1>3, <1>4, <1>5, <1>6, <1>7, <1>8, <1>9 DEF Next, MainStep

\* The state of a worker host has its type whatever dies when.
THEOREM TypeCorrect == Spec => []TypeOK
  BY TypeInit, TypeStep, TypeParts, PTL DEF Spec

\* Whatever a log says, and however often it was tried, Wal::rollback runs its job
\* again exactly if the package is still in the cache: no checkpoint and state of a
\* job weigh as much as a missing package, and the count of failures that is to end
\* the attempts ("Only try so many times") stays 0.
THEOREM ScoreIsCacheTheorem == Spec => []ScoreIsCache
<1>1. TypeInv => ScoreIsCache
  <2> SUFFICES ASSUME TypeInv, NEW j \in Job, IsRecord(disk[j]), NEW cached \in BOOLEAN
               PROVE  Recoverable(disk[j], stateOf[j], cached) <=> cached
    BY DEF ScoreIsCache
  <2> DEFINE c == disk[j].checkpoint
             a == CheckpointBonus[c + 1]
             b == StateBonus[stateOf[j]]
  <2>1. disk[j].failcount = 0 /\ c \in 0..9
    BY DEF TypeInv, LogTypes, LogRecord, IsRecord, Checkpoint, NIL, PULLCHAIN
  <2>2. a \in 5..30
    <3>1. c \in {0, 1, 2, 3, 4, 5, 6, 7, 8, 9}
      BY <2>1
    <3> HIDE DEF c
    <3> QED BY <3>1 DEF CheckpointBonus
  <2>3. b \in 10..20
    <3>1. stateOf[j] \in {"SPAWN", "PARTITION", "FUNNEL"}
      BY WorkerConstants
    <3> QED BY <3>1 DEF StateBonus
  <2>4. Likeliness(disk[j], stateOf[j], cached) = 50 - 0 * (-10) - (IF cached THEN 0 ELSE 75) + a + b
    BY <2>1 DEF Likeliness
  <2> HIDE DEF a, b
  <2>5. CASE cached
    BY <2>2, <2>3, <2>4, <2>5 DEF Recoverable
  <2>6. CASE ~cached
    BY <2>2, <2>3, <2>4, <2>6 DEF Recoverable
  <2> QED BY <2>5, <2>6
<1> QED BY <1>1, TypeInit, TypeStep, PTL DEF Spec

-----------------------------------------------------------------------------
(* The locks and the done records. *)

\* The log of a job that no run of it has finished tells that it was begun.
CutShort(j) == IsRecord(disk[j]) /\ ~disk[j].done /\ finished[j] = 0

\* Whoever is in a home has its lock, unless a lock was set over another there:
\* then the first to leave has unlocked the home of both.
LockHeld == \A r \in Runner : Inside(r) => locked[Pkg(r)] \/ Pkg(r) \in stolen
\* A run counts as finished from markDone on, and only from then on is there a
\* done record in its buffer.
FinishedStages ==
    \A r \in Runner :
        /\ pc[r] \in {"teardown", "stop"} \cup Prospecting => finished[job[r]] > 0
        /\ pc[r] \notin {"none", "start"} /\ buf[r] # Empty /\ buf[r].done
              => finished[job[r]] > 0
\* A job that was cut short, or is still at work, has a locked home; and nobody
\* with another job is in there.
CutShortLocked == \A j \in Job : CutShort(j) => locked[pkgOf[j]] \/ pkgOf[j] \in stolen
CutShortAlone ==
    \A j \in Job, r \in Runner :
        CutShort(j) /\ Inside(r) /\ Pkg(r) = pkgOf[j] /\ job[r] # j => pkgOf[j] \in stolen

LockInv ==
    /\ TypeInv /\ LockHeld /\ TwoInHomeMeansStolen /\ FinishedStages /\ DoneMeansFinished
    /\ CutShortLocked /\ CutShortAlone

\* From markDone to the end of the run.
LateStages == {"teardown", "stop"} \cup Prospecting

LEMMA LockInit == Init => LockInv
<1> SUFFICES ASSUME Init PROVE LockInv
  OBVIOUS
<1>1. TypeInv
  BY TypeInit
<1>2. \A r \in Runner : pc[r] = "none" /\ ~Inside(r)
  BY DEF Init, Inside
<1>3. \A j \in Job : ~IsRecord(disk[j])
  BY DEF Init, IsRecord
<1> QED BY <1>1, <1>2, <1>3
        DEF LockInv, LockHeld, TwoInHomeMeansStolen, FinishedStages, DoneMeansFinished,
            CutShortLocked, CutShortAlone, CutShort

\* A step that leaves the locks alone: nobody enters a home, and only a log whose
\* run holds the home or has finished gets a record.
LEMMA LockKeep ==
    ASSUME LockInv, TypeInv', UNCHANGED <<locked, stolen>>,
           \A j \in Job : finished'[j] >= finished[j],
           \A j \in Job : \/ disk'[j] \in {disk[j], NoFile, Empty}
                          \/ \E r \in Runner : /\ job[r] = j /\ disk'[j] = buf[r]
                                               /\ pc[r] \in {"env", "exec", "close", "stop"},
           \A q \in Runner :
               \/ pc'[q] \in {"none", "start"}
               \/ /\ job'[q] = job[q] /\ (Inside(q)' => Inside(q))
                  /\ pc'[q] \in LateStages => pc[q] \in LateStages \/ finished'[job[q]] > 0
                  /\ \/ buf'[q] = Empty \/ ~buf'[q].done \/ finished'[job[q]] > 0
                     \/ buf'[q] = buf[q] /\ pc[q] \notin {"none", "start"}
    PROVE  LockInv'
<1>0. /\ TypeInv /\ LockHeld /\ TwoInHomeMeansStolen /\ FinishedStages /\ DoneMeansFinished
      /\ CutShortLocked /\ CutShortAlone
  BY DEF LockInv
<1>1. finished \in [Job -> Nat] /\ finished' \in [Job -> Nat] /\ \A r \in Runner : pc[r] # "none" => job[r] \in Job
  BY <1>0, AtWork DEF TypeInv, HistoryTypes
<1>2. \A q \in Runner : Inside(q)' => Inside(q) /\ Pkg(q)' = Pkg(q) /\ job'[q] = job[q]
  BY DEF Inside, Pkg
<1>3. \A j \in Job : CutShort(j)' => \/ CutShort(j)
                                     \/ \E r \in Runner : job[r] = j /\ Inside(r)
  <2> SUFFICES ASSUME NEW j \in Job, CutShort(j)'
               PROVE  CutShort(j) \/ \E r \in Runner : job[r] = j /\ Inside(r)
    OBVIOUS
  <2>1. finished[j] = 0
    BY <1>1 DEF CutShort
  <2>2. CASE disk'[j] \in {disk[j], NoFile, Empty}
    BY <2>1, <2>2 DEF CutShort, IsRecord
  <2>3. ASSUME NEW r \in Runner, job[r] = j, pc[r] \in {"env", "exec", "close", "stop"}
        PROVE  Inside(r)
    BY <1>0, <1>1, <2>1, <2>3 DEF FinishedStages, Inside
  <2> QED BY <2>2, <2>3
<1>4. LockHeld' /\ TwoInHomeMeansStolen'
  BY <1>0, <1>2 DEF LockHeld, TwoInHomeMeansStolen
<1>5. FinishedStages'
  <2> SUFFICES ASSUME NEW q \in Runner, pc'[q] \notin {"none", "start"}
               PROVE  /\ pc'[q] \in LateStages => finished'[job'[q]] > 0
                      /\ buf'[q] # Empty /\ buf'[q].done => finished'[job'[q]] > 0
    BY DEF FinishedStages, LateStages
  <2>1. job'[q] = job[q] /\ job[q] \in Job
    BY AtWork, TypeInv' DEF TypeInv, RunnerTypes
  <2>2. finished[job[q]] > 0 => finished'[job[q]] > 0
    BY <1>1, <2>1
  <2>3. pc[q] \in LateStages => finished[job[q]] > 0
    BY <1>0 DEF FinishedStages, LateStages
  <2> QED BY <1>0, <2>1, <2>2, <2>3 DEF FinishedStages
<1>6. DoneMeansFinished'
  <2> SUFFICES ASSUME NEW j \in Job, IsRecord(disk'[j]), disk'[j].done PROVE finished'[j] > 0
    BY DEF DoneMeansFinished
  <2>1. finished[j] > 0
    <3>1. CASE disk'[j] \in {disk[j], NoFile, Empty}
      BY <1>0, <3>1 DEF DoneMeansFinished, IsRecord
    <3>2. ASSUME NEW r \in Runner, job[r] = j, disk'[j] = buf[r],
                 pc[r] \in {"env", "exec", "close", "stop"}
          PROVE  finished[j] > 0
      BY <1>0, <3>2 DEF FinishedStages, IsRecord
    <3> QED BY <3>1, <3>2
  <2> QED BY <1>1, <2>1
<1>7. CutShortLocked'
  BY <1>0, <1>3 DEF CutShortLocked, LockHeld, Pkg
<1>8. CutShortAlone'
  BY <1>0, <1>2, <1>3 DEF CutShortAlone, TwoInHomeMeansStolen, Pkg
<1> QED BY <1>4, <1>5, <1>6, <1>7, <1>8 DEF LockInv

\* setLock: whoever finds the home in use takes it, and it counts as stolen.
LEMMA SetLockKeeps ==
    ASSUME LockInv, TypeInv', NEW r \in Runner, SetLock(r)
    PROVE  LockInv'
<1>0. /\ TypeInv /\ LockHeld /\ TwoInHomeMeansStolen /\ FinishedStages /\ DoneMeansFinished
      /\ CutShortLocked /\ CutShortAlone
  BY DEF LockInv
<1>1. pc[r] = "lock" /\ job[r] \in Job /\ Pkg(r) \in Package
  BY <1>0, AtWork DEF SetLock, Stage
<1>2. /\ pc' = [pc EXCEPT ![r] = "env"] /\ locked' = [locked EXCEPT ![Pkg(r)] = TRUE]
      /\ stolen' = stolen \cup (IF locked[Pkg(r)] THEN {Pkg(r)} ELSE {})
      /\ UNCHANGED <<job, buf, disk, finished>>
  BY DEF SetLock, Stage
<1>3. \A q \in Runner : /\ Pkg(q)' = Pkg(q)
                        /\ Inside(q)' <=> Inside(q) \/ q = r
  BY <1>0, <1>1, <1>2 DEF Pkg, Inside, TypeInv, RunnerTypes
<1>4. \A p \in Package : locked'[p] <=> locked[p] \/ p = Pkg(r)
  BY <1>0, <1>1, <1>2 DEF TypeInv, FileTypes
<1>5. \A q \in Runner : Inside(q) => Pkg(q) \in Package
  BY <1>0, AtWork DEF Inside
<1>6. \A j \in Job : (CutShort(j)' <=> CutShort(j)) /\ pkgOf[j] \in Package
  BY <1>2, WorkerConstants DEF CutShort
<1>7. LockHeld'
  BY <1>0, <1>1, <1>2, <1>3, <1>4, <1>5 DEF LockHeld
<1>8. TwoInHomeMeansStolen'
  BY <1>0, <1>2, <1>3 DEF TwoInHomeMeansStolen, LockHeld
<1>9. FinishedStages' /\ DoneMeansFinished'
  BY <1>0, <1>1, <1>2 DEF FinishedStages, DoneMeansFinished, TypeInv, RunnerTypes
<1>10. CutShortLocked'
  BY <1>0, <1>2, <1>4, <1>6 DEF CutShortLocked
<1>11. CutShortAlone'
  BY <1>0, <1>2, <1>3, <1>6 DEF CutShortAlone, CutShortLocked
<1> QED BY <1>7, <1>8, <1>9, <1>10, <1>11 DEF LockInv

\* The unlink in teardown: the run that does it has finished, and another that is
\* in the home, or was cut short there, had its lock stolen.
LEMMA TeardownKeeps ==
    ASSUME LockInv, TypeInv', NEW r \in Runner, Teardown(r)
    PROVE  LockInv'
<1>0. /\ TypeInv /\ LockHeld /\ TwoInHomeMeansStolen /\ FinishedStages /\ DoneMeansFinished
      /\ CutShortLocked /\ CutShortAlone
  BY DEF LockInv
<1>1. pc[r] = "teardown" /\ Inside(r) /\ job[r] \in Job /\ Pkg(r) \in Package /\ finished[job[r]] > 0
  BY <1>0, AtWork DEF Teardown, Stage, Inside, FinishedStages
<1>2. /\ pc' = [pc EXCEPT ![r] = "stop"] /\ locked' = [locked EXCEPT ![Pkg(r)] = FALSE]
      /\ UNCHANGED <<job, buf, disk, finished, stolen>>
  BY DEF Teardown, Stage
<1>3. \A q \in Runner : /\ Pkg(q)' = Pkg(q)
                        /\ Inside(q)' => Inside(q) /\ q # r
  BY <1>0, <1>1, <1>2 DEF Pkg, Inside, TypeInv, RunnerTypes
<1>4. \A p \in Package : p # Pkg(r) => locked'[p] = locked[p]
  BY <1>0, <1>1, <1>2 DEF TypeInv, FileTypes
<1>5. \A q \in Runner : Inside(q) => Pkg(q) \in Package
  BY <1>0, AtWork DEF Inside
<1>6. \A j \in Job : /\ (CutShort(j)' <=> CutShort(j)) /\ pkgOf[j] \in Package
                     /\ CutShort(j) => job[r] # j
  BY <1>1, <1>2, WorkerConstants DEF CutShort
<1>7. LockHeld'
  BY <1>0, <1>1, <1>2, <1>3, <1>4, <1>5 DEF LockHeld, TwoInHomeMeansStolen
<1>8. TwoInHomeMeansStolen'
  BY <1>0, <1>2, <1>3 DEF TwoInHomeMeansStolen
<1>9. FinishedStages' /\ DoneMeansFinished'
  BY <1>0, <1>1, <1>2 DEF FinishedStages, DoneMeansFinished, TypeInv, RunnerTypes
<1>10. CutShortLocked'
  BY <1>0, <1>1, <1>2, <1>4, <1>6 DEF CutShortLocked, CutShortAlone
<1>11. CutShortAlone'
  BY <1>0, <1>2, <1>3, <1>6 DEF CutShortAlone
<1> QED BY <1>7, <1>8, <1>9, <1>10, <1>11 DEF LockInv

\* What the log of the runner's job may become when the runner flushes.
LEMMA FlushWrites ==
    ASSUME TypeInv, NEW r \in Runner, pc[r] \in {"env", "exec", "close", "stop"}, disk' = Flush(r)
    PROVE  \A j \in Job : \/ disk'[j] \in {disk[j], NoFile, Empty}
                          \/ \E q \in Runner : /\ job[q] = j /\ disk'[j] = buf[q]
                                               /\ pc[q] \in {"env", "exec", "close", "stop"}
  BY FlushType

LEMMA RunnerStepLock ==
    ASSUME LockInv, TypeInv', NEW r \in Runner, RunnerStep(r)
    PROVE  LockInv'
<1>0. TypeInv /\ MainTypes /\ RunnerTypes /\ LogTypes /\ HistoryTypes
  BY DEF LockInv, TypeInv
<1>a. pc[r] # "none" /\ job[r] \in Job
  BY <1>0, AtWork DEF RunnerStep
<1>b. \A j \in Job : finished[j] >= finished[j]
  BY <1>0 DEF HistoryTypes
<1>1. CASE OpenWal(r)
  <2>1. ~buf'[r].done
    BY <1>0, <1>1 DEF OpenWal, LogTypes, Record
  <2> QED BY <1>0, <1>1, <1>a, <1>b, <2>1, LockKeep
          DEF OpenWal, Stage, RunnerTypes, LogTypes, Inside, LateStages
<1>2. CASE HasPackage(r) \/ AwaitLock(r) \/ HasHome(r) \/ Prospect(r) \/ OpenPackage(r)
           \/ SetupHome(r) \/ SetupEmptyHome(r) \/ PyFailed(r) \/ SubjobAnswered(r)
  BY <1>0, <1>2, <1>a, <1>b, LockKeep
     DEF HasPackage, AwaitLock, HasHome, Prospect, OpenPackage, SetupHome, SetupEmptyHome,
         PyFailed, SubjobAnswered, Stage, RunnerTypes, LogTypes, Inside, LateStages
<1>3. CASE SetLock(r)
  BY <1>3, SetLockKeeps
<1>4. CASE Teardown(r)
  BY <1>4, TeardownKeeps
<1>5. CASE SetupEnv(r) \/ Advance(r)
  <2>1. PICK c : Commit(r, c, FALSE)
    BY <1>5 DEF SetupEnv, Advance
  <2>2. ~buf'[r].done /\ \A q \in Runner : q # r => buf'[q] = buf[q]
    BY <1>0, <2>1 DEF Commit, LogTypes, Record
  <2>3. /\ pc[r] \in {"env", "exec"} /\ pc'[r] \in {"exec", "close"}
        /\ \A q \in Runner : q # r => pc'[q] = pc[q]
        /\ UNCHANGED <<job, locked, stolen, finished>>
    BY <1>0, <1>5 DEF SetupEnv, Advance, Stage, RunnerTypes
  <2>4. disk' = Flush(r)
    BY <2>1 DEF Commit
  <2>5. \A j \in Job : \/ disk'[j] \in {disk[j], NoFile, Empty}
                       \/ \E q \in Runner : /\ job[q] = j /\ disk'[j] = buf[q]
                                            /\ pc[q] \in {"env", "exec", "close", "stop"}
    BY <1>0, <2>3, <2>4, FlushWrites
  <2> QED BY <1>0, <1>a, <1>b, <2>2, <2>3, <2>5, LockKeep DEF Inside, LateStages
<1>6. CASE MarkDone(r)
  <2>1. \A q \in Runner : q # r => buf'[q] = buf[q]
    BY <1>0, <1>6 DEF MarkDone, Commit, LogTypes
  <2>2. /\ pc[r] = "close" /\ pc'[r] = "teardown"
        /\ \A q \in Runner : q # r => pc'[q] = pc[q]
        /\ UNCHANGED <<job, locked, stolen>> /\ disk' = Flush(r)
    BY <1>0, <1>6 DEF MarkDone, Commit, Stage, RunnerTypes
  <2>3. finished'[job[r]] > 0 /\ \A j \in Job : finished'[j] >= finished[j]
    BY <1>0, <1>6, <1>a DEF MarkDone, HistoryTypes
  <2>5. \A j \in Job : \/ disk'[j] \in {disk[j], NoFile, Empty}
                       \/ \E q \in Runner : /\ job[q] = j /\ disk'[j] = buf[q]
                                            /\ pc[q] \in {"env", "exec", "close", "stop"}
    BY <1>0, <2>2, FlushWrites
  <2> QED BY <1>0, <1>a, <2>1, <2>2, <2>3, <2>5, LockKeep DEF Inside, LateStages
<1>7. CASE CloseWal(r)
  <2>1. buf'[r] = Empty /\ \A q \in Runner : q # r => buf'[q] = buf[q]
    BY <1>0, <1>7 DEF CloseWal, LogTypes
  <2>2. /\ pc[r] = "stop" /\ (pc'[r] = "none" \/ (pc'[r] = "prospect" /\ job'[r] = job[r]))
        /\ \A q \in Runner : q # r => pc'[q] = pc[q] /\ job'[q] = job[q]
    BY <1>0, <1>7 DEF CloseWal, RunnerTypes
  <2>3. UNCHANGED <<locked, stolen, finished>> /\ disk' = Flush(r)
    BY <1>7 DEF CloseWal, history
  <2>5. \A j \in Job : \/ disk'[j] \in {disk[j], NoFile, Empty}
                       \/ \E q \in Runner : /\ job[q] = j /\ disk'[j] = buf[q]
                                            /\ pc[q] \in {"env", "exec", "close", "stop"}
    BY <1>0, <2>2, <2>3, FlushWrites
  <2> QED BY <1>0, <1>a, <1>b, <2>1, <2>2, <2>3, <2>5, LockKeep DEF Inside, LateStages
<1>8. CASE SendSubjob(r)
  <2>1. /\ pc[r] = "send" /\ pc'[r] = "asked" /\ \A q \in Runner : q # r => pc'[q] = pc[q]
        /\ UNCHANGED <<job, buf, disk, locked, stolen, finished>>
    BY <1>0, <1>8 DEF SendSubjob, RunnerTypes
  <2> QED BY <1>0, <1>a, <1>b, <2>1, LockKeep DEF Inside, LateStages
<1>9. CASE NothingToSend(r) \/ AllSent(r) \/ EarlyReturn(r)
  <2>1. Dies({r}) \/ \E new : EndRun(r, new)
    BY <1>9 DEF NothingToSend, AllSent, EarlyReturn
  <2>2. /\ pc'[r] = "none"
        /\ \A q \in Runner : q # r => pc'[q] = pc[q] /\ job'[q] = job[q] /\ buf'[q] = buf[q]
        /\ UNCHANGED <<locked, stolen, finished, disk>>
    BY <1>0, <2>1 DEF Dies, EndRun, RunnerTypes, LogTypes, history
  <2> QED BY <1>0, <1>b, <2>2, LockKeep DEF Inside
<1> QED BY <1>1, <1>2, <1>3, <1>4, <1>5, <1>6, <1>7, <1>8, <1>9 DEF RunnerStep

LEMMA LockStep == LockInv /\ [Next]_vars => LockInv'
<1> SUFFICES ASSUME LockInv, [Next]_vars PROVE LockInv'
  OBVIOUS
<1>0. TypeInv /\ RunnerTypes /\ LogTypes /\ HistoryTypes /\ TypeInv'
  BY TypeStep DEF LockInv, TypeInv
<1>b. \A j \in Job : finished[j] >= finished[j]
  BY <1>0 DEF HistoryTypes
<1>1. ASSUME NEW r \in Runner, RunnerStep(r) PROVE LockInv'
  BY <1>0, <1>1, RunnerStepLock
<1>2. ASSUME UNCHANGED <<runners, disk, locked, stolen, finished>> PROVE LockInv'
  BY <1>0, <1>b, <1>2, LockKeep DEF runners, Inside
<1>3. ASSUME NEW r \in Runner, NEW j \in Job, Begin(r, j), UNCHANGED <<disk, locked, stolen, finished>>
      PROVE  LockInv'
  <2>1. /\ pc'[r] = "start"
        /\ \A q \in Runner : q # r => pc'[q] = pc[q] /\ job'[q] = job[q]
        /\ buf' = buf
    BY <1>0, <1>3 DEF Begin, RunnerTypes
  <2> QED BY <1>0, <1>b, <1>3, <2>1, LockKeep DEF Inside
<1>4. ASSUME NEW j \in Job, Rollback(j) PROVE LockInv'
  <2>1. UNCHANGED <<locked, stolen, finished>>
    BY <1>4 DEF Rollback
  <2>2. CASE UNCHANGED runners
    <3>1. \A i \in Job : disk'[i] \in {disk[i], NoFile, Empty}
      <4>1. disk' = disk \/ disk' = [disk EXCEPT ![j] = NoFile]
        BY <1>4 DEF Rollback
      <4> QED BY <1>0, <4>1 DEF LogTypes
    <3> QED BY <1>0, <1>b, <2>1, <2>2, <3>1, LockKeep DEF runners, Inside
  <2>3. CASE Begin(Main, j) /\ UNCHANGED disk
    BY <1>3, <2>1, <2>3, Names
  <2> QED BY <1>4, <2>2, <2>3 DEF Rollback
<1>5. ASSUME NEW j \in Job, Launch(j), UNCHANGED <<disk, locked, stolen, finished>> PROVE LockInv'
  BY <1>3, <1>5, Names DEF Launch
<1>6. CASE PackageWritten
  BY <1>0, <1>5, <1>6 DEF PackageWritten, history, TypeInv, MainTypes
<1>7. ASSUME NEW j \in Job, TakeJob(j) PROVE LockInv'
  BY <1>2, <1>5, <1>7 DEF TakeJob
<1>8. CASE Recovered \/ Restart \/ Dispose \/ UNCHANGED vars
  BY <1>2, <1>8 DEF Recovered, Restart, Dispose, vars, history
<1>9. ASSUME NEW R \in SUBSET Runner, Dies(R) PROVE LockInv'
  <2>1. \A q \in Runner : \/ pc'[q] = "none"
                          \/ pc'[q] = pc[q] /\ job'[q] = job[q] /\ buf'[q] = buf[q]
    BY <1>9 DEF Dies
  <2> QED BY <1>0, <1>b, <1>9, <2>1, LockKeep DEF Dies, Inside
<1>10. ASSUME (\E j \in Job : ChildDies(j)) \/ MainDies \/ HostDies
       PROVE  \E R \in SUBSET Runner : Dies(R)
  BY <1>10, Names DEF ChildDies, MainDies, HostDies
<1>11. ASSUME NEW r \in Runner, AnswerLost(r) PROVE LockInv'
  <2>1. /\ pc[r] = "asked" /\ pc'[r] = "unanswered" /\ \A q \in Runner : q # r => pc'[q] = pc[q]
        /\ UNCHANGED <<job, buf, disk, locked, stolen, finished>>
    BY <1>0, <1>11 DEF AnswerLost, Stage, RunnerTypes
  <2> QED BY <1>0, <1>b, <2>1, LockKeep DEF Inside, LateStages
<1> QED BY <1>1, <1>4, <1>6, <1>7, <1>8, <1>9, <1>10, <1>11 DEF Next, MainStep

LEMMA LockAlways == Spec => []LockInv
  BY LockInit, LockStep, PTL DEF Spec

\* The locking of a home fails in one way only: two runners both found it free,
\* and the second setLock took what the first had.  In no other history are two
\* runs of any jobs, recovered or not, in one home.
THEOREM TwoInHomeMeansStolenTheorem == Spec => []TwoInHomeMeansStolen
<1>1. LockInv => TwoInHomeMeansStolen
  BY DEF LockInv
<1> QED BY <1>1, LockAlways, PTL

\* A log that says done belongs to a job of which a run came to markDone, however
\* the writes of a recovery run and of a child that outlived its main process to
\* the same log interleave.
THEOREM DoneMeansFinishedTheorem == Spec => []DoneMeansFinished
<1>1. LockInv => DoneMeansFinished
  BY DEF LockInv
<1> QED BY <1>1, LockAlways, PTL

\* What a job that was cut short left in its home stays behind its lock, through
\* any number of restarts, unless the lock was stolen.
THEOREM UnfinishedKeepsLockTheorem == Spec => []UnfinishedKeepsLock
<1>1. LockInv => UnfinishedKeepsLock
  BY DEF LockInv, CutShortLocked, CutShort, UnfinishedKeepsLock
<1> QED BY <1>1, LockAlways, PTL
-----------------------------------------------------------------------------
(* The subjobs. *)

\* Up to the job's own methods, and from there to prospect.
EarlyStages == {"start", "check", "await", "home", "extract", "lock", "env", "exec"}
MidStages == {"close", "teardown", "stop", "prospect"}

\* A run that never comes to prospect: prepareJob of a worker with --nofork.
Inline(r) == r = Main /\ main = "inline"
\* Only a run in progress rewrites this log, and recovery will not begin one.
Closed(j) == disk[j] = NoFile \/ (disk[j] \in LogRecord /\ disk[j].done)
\* The job was not handed to a run yet.
Fresh(j) == ~given[j] \/ mjob = j
FullChain(j) == [parent |-> j, left |-> subjobs[j]]

\* When the main process runs jobs itself, and what is then in its chain.
MainRuns ==
    /\ main \in {"loop", "write", "down"} => Idle
    /\ main = "write" => given[mjob]
    /\ main = "inline" => ~jobfork /\ pc[Main] \notin Prospecting
    /\ Idle /\ (jobfork \/ main \in {"recover", "down"}) => chain[Main] = NoChain
    /\ main = "recover" /\ pc[Main] \notin {"none", "start", "check"} => pkg[Pkg(Main)] # "absent"
\* A child has the job it was forked for, and there are children only of a worker
\* that forks.
ChildRuns == \A k \in Job : pc[k] # "none" => job[k] = k /\ jobfork
\* What a run will send is what its own job asked for.
OwnChain ==
    \A r \in Runner : ~Inline(r) =>
        /\ pc[r] \in EarlyStages => chain[r] = NoChain
        /\ pc[r] \in MidStages => chain[r] \in {NoChain, FullChain(job[r])}
        /\ pc[r] \in Sending => chain[r].parent = job[r]
\* The done record is buffered when the home is left and on disk before prospect.
DoneBuffered ==
    \A r \in Runner : pc[r] \in {"teardown", "stop"} => buf[r] \in LogRecord /\ buf[r].done

\* One run at a time: the child or the main process.
OneRun == \A j \in Job : j \notin doubled => ~(job[Main] = j /\ job[j] = j)
FreshUntouched ==
    \A j \in Job : Fresh(j) => sent[j] = 0 /\ disk[j] = NoFile /\ \A r \in Runner : job[r] # j
SentSoFar ==
    \A r \in Runner : pc[r] # "none" /\ job[r] \notin doubled =>
        IF pc[r] \in Sending THEN sent[job[r]] + chain[r].left <= subjobs[job[r]]
                            ELSE sent[job[r]] = 0
ClosedBeforeSend ==
    /\ \A r \in Runner : pc[r] \in Prospecting /\ job[r] \notin doubled => Closed(job[r])
    /\ \A j \in Job : j \notin doubled /\ sent[j] > 0 => Closed(j)

RunInv == TypeInv /\ MainRuns /\ ChildRuns /\ OwnChain /\ DoneBuffered
SendInv == RunInv /\ OneRun /\ FreshUntouched /\ SentSoFar /\ ClosedBeforeSend /\ SubjobsSentOnce

LEMMA SendInit == Init => SendInv
<1> SUFFICES ASSUME Init PROVE SendInv
  OBVIOUS
<1>1. TypeInv
  BY TypeInit
<1>2. \A r \in Runner : pc[r] = "none" /\ job[r] = NoJob /\ chain[r] = NoChain
  BY DEF Init
<1>3. Main \in Runner /\ Job \subseteq Runner /\ NoJob \notin Job
  BY Names
<1>4. MainRuns /\ ChildRuns /\ OwnChain /\ DoneBuffered
  BY <1>2, <1>3 DEF Init, MainRuns, ChildRuns, OwnChain, DoneBuffered, Idle, EarlyStages, MidStages
<1>5. \A j \in Job : sent[j] = 0 /\ disk[j] = NoFile /\ 0 <= subjobs[j]
  BY WorkerConstants DEF Init
<1> QED BY <1>1, <1>2, <1>3, <1>4, <1>5
        DEF SendInv, RunInv, OneRun, FreshUntouched, SentSoFar, ClosedBeforeSend, SubjobsSentOnce

\* A run goes on.
LEMMA StageRuns ==
    ASSUME RunInv, TypeInv', NEW r \in Runner, NEW from, NEW to, Stage(r, from, to),
           from # "none", to \notin {"none", "start", "prospect"},
           to = "check" \/ pkg[Pkg(r)] # "absent" \/ from \notin {"start", "check"},
           \A q \in Runner : q # r => chain'[q] = chain[q] /\ buf'[q] = buf[q],
           to \in EarlyStages => from \in EarlyStages /\ chain'[r] = chain[r],
           to \in MidStages => /\ from \in EarlyStages \cup MidStages
                               /\ chain'[r] \in {chain[r], FullChain(job[r])},
           to \in Sending => from = "prospect" /\ chain[r] # NoChain /\ chain'[r] = chain[r],
           to \in {"teardown", "stop"} => buf'[r] \in LogRecord /\ buf'[r].done
    PROVE  RunInv'
<1>0. TypeInv /\ MainRuns /\ ChildRuns /\ OwnChain /\ DoneBuffered
  BY DEF RunInv
<1>1. /\ pc[r] = from /\ pc'[r] = to /\ job' = job
      /\ \A q \in Runner : q # r => pc'[q] = pc[q]
      /\ UNCHANGED <<jobfork, main, mjob, given, pkg>>
  BY <1>0 DEF Stage, TypeInv, RunnerTypes, cache
<1>2. MainRuns'
  BY <1>0, <1>1, Names DEF MainRuns, Idle, Pkg
<1>3. ChildRuns'
  BY <1>0, <1>1, Names DEF ChildRuns
<1>4. OwnChain'
  <2> SUFFICES ASSUME NEW q \in Runner, ~Inline(q)
               PROVE  /\ pc'[q] \in EarlyStages => chain'[q] = NoChain
                      /\ pc'[q] \in MidStages => chain'[q] \in {NoChain, FullChain(job[q])}
                      /\ pc'[q] \in Sending => chain'[q].parent = job[q]
    BY <1>1 DEF OwnChain, Inline, FullChain
  <2>1. CASE q # r
    BY <1>0, <1>1, <2>1 DEF OwnChain
  <2>2. CASE q = r
    <3>1. to \in Sending => chain[r] = FullChain(job[r])
      BY <1>0, <1>1, <2>2 DEF OwnChain, MidStages
    <3>2. to \in Sending => chain[r].parent = job[r]
      BY <3>1 DEF FullChain
    <3> QED BY <1>0, <1>1, <2>2, <3>2 DEF OwnChain
  <2> QED BY <2>1, <2>2
<1>5. DoneBuffered'
  BY <1>0, <1>1 DEF DoneBuffered
<1> QED BY <1>2, <1>3, <1>4, <1>5 DEF RunInv

\* A run is over, because its process is or because the main process goes on to
\* the next log or the next request.
LEMMA EndRuns ==
    ASSUME RunInv, TypeInv', NEW R \in SUBSET Runner,
           \A q \in R : pc'[q] = "none",
           \A q \in Runner \ R : pc'[q] = pc[q] /\ job'[q] = job[q] /\ chain'[q] = chain[q] /\ buf'[q] = buf[q],
           UNCHANGED <<jobfork, given, pkg>>,
           Main \notin R => UNCHANGED <<main, mjob>>,
           Main \in R => /\ main' # "inline" /\ main' # "write"
                         /\ chain'[Main] = NoChain \/ (~jobfork /\ main' \notin {"recover", "down"})
    PROVE  RunInv'
<1>0. TypeInv /\ MainRuns /\ ChildRuns /\ OwnChain /\ DoneBuffered
  BY DEF RunInv
<1>2. MainRuns'
  <2>1. CASE Main \in R
    BY <2>1 DEF MainRuns, Idle
  <2>2. CASE Main \notin R
    BY <1>0, <2>2, Names DEF MainRuns, Idle, Pkg
  <2> QED BY <2>1, <2>2
<1>3. ChildRuns'
  BY <1>0, Names DEF ChildRuns
<1>4. OwnChain'
  <2> SUFFICES ASSUME NEW q \in Runner, ~Inline(q)', pc'[q] # "none"
               PROVE  /\ pc'[q] \in EarlyStages => chain'[q] = NoChain
                      /\ pc'[q] \in MidStages => chain'[q] \in {NoChain, FullChain(job[q])}
                      /\ pc'[q] \in Sending => chain'[q].parent = job[q]
                      /\ job'[q] = job[q]
    BY DEF OwnChain, FullChain, EarlyStages, MidStages
  <2>1. q \notin R /\ ~Inline(q)
    BY DEF Inline
  <2> QED BY <1>0, <2>1 DEF OwnChain
<1>5. DoneBuffered'
  BY <1>0 DEF DoneBuffered
<1> QED BY <1>2, <1>3, <1>4, <1>5 DEF RunInv

LEMMA DiesRuns ==
    ASSUME RunInv, TypeInv', NEW R \in SUBSET Runner, Dies(R)
    PROVE  RunInv'
<1>1. /\ \A q \in R : pc'[q] = "none" /\ chain'[q] = NoChain
      /\ \A q \in Runner \ R : pc'[q] = pc[q] /\ job'[q] = job[q] /\ chain'[q] = chain[q] /\ buf'[q] = buf[q]
      /\ UNCHANGED <<jobfork, given, pkg>>
      /\ Main \notin R => UNCHANGED <<main, mjob>>
      /\ Main \in R => main' = "down"
  BY DEF Dies
<1> QED BY <1>1, EndRuns

\* The master answers, or it never will.
LEMMA AnswerRuns ==
    ASSUME RunInv, TypeInv', NEW r \in Runner, SubjobAnswered(r) \/ AnswerLost(r)
    PROVE  RunInv'
<1>0. TypeInv /\ RunnerTypes /\ MainRuns /\ ChildRuns /\ OwnChain /\ DoneBuffered
  BY DEF RunInv, TypeInv
<1>1. /\ pc[r] = "asked" /\ pc'[r] \in Sending /\ \A q \in Runner : q # r => pc'[q] = pc[q]
      /\ UNCHANGED <<jobfork, main, mjob, given, pkg, job, buf, chain>>
  BY <1>0 DEF SubjobAnswered, AnswerLost, Stage, RunnerTypes, cache
<1>2. MainRuns'
  BY <1>0, <1>1, Names DEF MainRuns, Idle, Pkg
<1>3. ChildRuns' /\ DoneBuffered'
  BY <1>0, <1>1, Names DEF ChildRuns, DoneBuffered
<1>4. OwnChain'
  BY <1>0, <1>1 DEF OwnChain, Inline, FullChain, EarlyStages, MidStages
<1> QED BY <1>2, <1>3, <1>4 DEF RunInv

LEMMA RunnerStepRuns ==
    ASSUME RunInv, TypeInv', NEW r \in Runner, RunnerStep(r)
    PROVE  RunInv'
<1>0. /\ TypeInv /\ RunnerTypes /\ LogTypes /\ MainRuns /\ ChildRuns /\ OwnChain /\ DoneBuffered
      /\ MainTypes
  BY DEF RunInv, TypeInv
<1>a. pc[r] # "none" /\ job[r] \in Job
  BY <1>0, AtWork DEF RunnerStep
<1>1. CASE OpenWal(r)
  <2>1. Stage(r, "start", "check") /\ chain' = chain /\ \A q \in Runner : q # r => buf'[q] = buf[q]
    BY <1>0, <1>1 DEF OpenWal, LogTypes
  <2> QED BY <2>1, StageRuns DEF EarlyStages, MidStages
<1>2. CASE HasPackage(r)
  BY <1>2, StageRuns DEF HasPackage, EarlyStages, MidStages
<1>3. CASE AwaitLock(r) \/ HasHome(r) \/ OpenPackage(r) \/ SetupHome(r) \/ SetupEmptyHome(r)
           \/ SetLock(r) \/ PyFailed(r)
  <2>1. /\ UNCHANGED <<chain, buf>>
        /\ \/ Stage(r, "await", "home") \/ Stage(r, "home", "lock") \/ Stage(r, "home", "extract")
           \/ Stage(r, "extract", "lock") \/ Stage(r, "lock", "env") \/ Stage(r, "exec", "close")
    BY <1>3 DEF AwaitLock, HasHome, OpenPackage, SetupHome, SetupEmptyHome, SetLock, PyFailed
  <2> QED BY <2>1, StageRuns DEF EarlyStages, MidStages
<1>4. CASE SetupEnv(r)
  <2>1. Stage(r, "env", "exec") /\ chain' = chain /\ \A q \in Runner : q # r => buf'[q] = buf[q]
    BY <1>0, <1>4 DEF SetupEnv, Commit, LogTypes
  <2> QED BY <2>1, StageRuns DEF EarlyStages, MidStages
<1>5. CASE Advance(r)
  <2>1. PICK c : /\ Stage(r, "exec", IF c = PULLCHAIN THEN "close" ELSE "exec") /\ Commit(r, c, FALSE)
                 /\ chain' = IF c = PULLCHAIN /\ subjobs[job[r]] > 0
                             THEN [chain EXCEPT ![r] = FullChain(job[r])] ELSE chain
    BY <1>5 DEF Advance, FullChain
  <2>2. \A q \in Runner : q # r => buf'[q] = buf[q] /\ chain'[q] = chain[q]
    BY <1>0, <2>1 DEF Commit, LogTypes
  <2>3. chain'[r] \in {chain[r], FullChain(job[r])}
    BY <1>0, <2>1 DEF LogTypes
  <2>4. CASE c = PULLCHAIN
    <3>1. Stage(r, "exec", "close")
      BY <2>1, <2>4
    <3> QED BY <2>2, <2>3, <3>1, StageRuns DEF EarlyStages, MidStages
  <2>5. CASE c # PULLCHAIN
    <3>1. Stage(r, "exec", "exec") /\ chain' = chain
      BY <2>1, <2>5
    <3> QED BY <2>2, <3>1, StageRuns DEF EarlyStages, MidStages
  <2> QED BY <2>4, <2>5
<1>6. CASE MarkDone(r)
  <2>1. /\ Stage(r, "close", "teardown") /\ chain' = chain
        /\ \A q \in Runner : q # r => buf'[q] = buf[q]
        /\ buf'[r] = Record(cp[r], TRUE)
    BY <1>0, <1>6 DEF MarkDone, Commit, LogTypes
  <2>2. Record(cp[r], TRUE) \in LogRecord /\ Record(cp[r], TRUE).done
    BY <1>0 DEF LogTypes, LogRecord, Record
  <2> QED BY <2>1, <2>2, StageRuns DEF EarlyStages, MidStages
<1>7. CASE Teardown(r)
  <2>1. Stage(r, "teardown", "stop") /\ UNCHANGED <<chain, buf>> /\ pc[r] = "teardown"
    BY <1>7 DEF Teardown, Stage
  <2>2. buf[r] \in LogRecord /\ buf[r].done
    BY <1>0, <2>1 DEF DoneBuffered
  <2> QED BY <2>1, <2>2, StageRuns DEF EarlyStages, MidStages
<1>8. CASE Prospect(r)
  <2>1. Stage(r, "prospect", "send") /\ UNCHANGED <<chain, buf>> /\ chain[r] # NoChain
    BY <1>8 DEF Prospect
  <2> QED BY <2>1, StageRuns DEF EarlyStages, MidStages
<1>9. CASE CloseWal(r)
  <2>1. /\ pc[r] = "stop" /\ UNCHANGED <<jobfork, mjob, chain, given, pkg>>
        /\ \A q \in Runner : q # r => pc'[q] = pc[q] /\ job'[q] = job[q] /\ buf'[q] = buf[q]
    BY <1>0, <1>9 DEF CloseWal, RunnerTypes, LogTypes, cache, history
  <2>2. CASE Inline(r)
    <3>1. pc'[r] = "none" /\ main' = "loop" /\ ~jobfork /\ r = Main
      BY <1>0, <1>9, <2>2 DEF CloseWal, RunnerTypes, Inline, MainRuns
    <3>2. /\ {r} \in SUBSET Runner /\ \A q \in {r} : pc'[q] = "none"
          /\ \A q \in Runner \ {r} : /\ pc'[q] = pc[q] /\ job'[q] = job[q]
                                      /\ chain'[q] = chain[q] /\ buf'[q] = buf[q]
          /\ Main \in {r}
      BY <2>1, <3>1
    <3> QED BY <2>1, <3>1, <3>2, EndRuns
  <2>3. CASE ~Inline(r)
    <3>1. pc'[r] = "prospect" /\ job'[r] = job[r] /\ main' = main
      BY <1>0, <1>9, <2>3 DEF CloseWal, RunnerTypes, Inline
    <3>2. MainRuns'
      BY <1>0, <2>1, <2>3, <3>1, Names DEF MainRuns, Idle, Pkg, Inline
    <3>3. ChildRuns'
      BY <1>0, <2>1, <3>1, Names DEF ChildRuns
    <3>4. OwnChain'
      BY <1>0, <2>1, <2>3, <3>1 DEF OwnChain, Inline, FullChain, EarlyStages, MidStages
    <3>5. DoneBuffered'
      BY <1>0, <2>1, <3>1 DEF DoneBuffered
    <3> QED BY <3>2, <3>3, <3>4, <3>5 DEF RunInv
  <2> QED BY <2>2, <2>3
<1>10. CASE EarlyReturn(r)
  BY <1>10, DiesRuns DEF EarlyReturn
<1>11. CASE NothingToSend(r) \/ AllSent(r)
  <2>1. CASE Dies({r})
    BY <2>1, DiesRuns
  <2>2. CASE ~Dies({r})
    <3>1. PICK new : /\ EndRun(r, new) /\ pc[r] \in Prospecting
                     /\ new = NoChain \/ (pc[r] = "prospect" /\ pkg[Pkg(r)] = "absent")
      BY <1>11 DEF NothingToSend, AllSent
    <3>2. r = Main /\ main # "unforked"
      BY <2>2, <3>1 DEF EndRun
    <3>3. /\ pc' = [pc EXCEPT ![r] = "none"] /\ job' = [job EXCEPT ![r] = NoJob]
          /\ chain' = [chain EXCEPT ![r] = new] /\ UNCHANGED <<jobfork, main, mjob, buf, cache, history>>
      BY <2>2, <3>1 DEF EndRun
    <3>4. main = "recover" /\ new = NoChain
      BY <1>0, <3>1, <3>2 DEF MainRuns, Idle, MainTypes
    <3>5. /\ {r} \in SUBSET Runner /\ \A q \in {r} : pc'[q] = "none"
          /\ \A q \in Runner \ {r} : /\ pc'[q] = pc[q] /\ job'[q] = job[q]
                                      /\ chain'[q] = chain[q] /\ buf'[q] = buf[q]
          /\ Main \in {r} /\ chain'[Main] = NoChain
      BY <1>0, <3>2, <3>3, <3>4 DEF RunnerTypes, LogTypes
    <3>6. UNCHANGED <<jobfork, given, pkg, main, mjob>>
      BY <3>3 DEF cache, history
    <3> QED BY <3>4, <3>5, <3>6, EndRuns
  <2> QED BY <2>1, <2>2
<1>12. CASE SendSubjob(r)
  <2>1. /\ UNCHANGED <<jobfork, main, mjob, given, pkg, job, buf>>
        /\ pc[r] = "send" /\ pc'[r] = "asked"
        /\ \A q \in Runner : q # r => pc'[q] = pc[q] /\ chain'[q] = chain[q]
    BY <1>0, <1>12 DEF SendSubjob, LogTypes, RunnerTypes, cache
  <2>2. chain'[r].parent = chain[r].parent
    <3>1. chain[r] \in Chain
      BY <1>0 DEF LogTypes
    <3>2. PICK x : chain' = [chain EXCEPT ![r] = [chain[r] EXCEPT !.left = x]]
      BY <1>12 DEF SendSubjob
    <3>3. chain'[r] = [chain[r] EXCEPT !.left = x]
      BY <1>0, <3>2 DEF LogTypes
    <3> QED BY <3>1, <3>3 DEF Chain
  <2>3. MainRuns'
    BY <1>0, <2>1, Names DEF MainRuns, Idle, Pkg
  <2>4. ChildRuns' /\ DoneBuffered'
    BY <1>0, <2>1, Names DEF ChildRuns, DoneBuffered
  <2>5. OwnChain'
    BY <1>0, <2>1, <2>2 DEF OwnChain, Inline, FullChain, EarlyStages, MidStages
  <2> QED BY <2>3, <2>4, <2>5 DEF RunInv
<1>13. CASE SubjobAnswered(r)
  BY <1>13, AnswerRuns
<1> QED BY <1>1, <1>2, <1>3, <1>4, <1>5, <1>6, <1>7, <1>8, <1>9, <1>10, <1>11, <1>12, <1>13
        DEF RunnerStep

\* A run begins: the main process, which was idle, goes on or forks.
LEMMA BeginRuns ==
    ASSUME RunInv, TypeInv', NEW r \in Runner, NEW j \in Job, Begin(r, j), Idle,
           jobfork \/ main = "recover" \/ (r = Main /\ main' = "inline"),
           r \in {Main, j}, r # Main => jobfork,
           jobfork' = jobfork, main' = "inline" => r = Main /\ ~jobfork,
           main' \in {"loop", "write", "down"} => r # Main, main' # "write"
    PROVE  RunInv'
<1>0. TypeInv /\ MainRuns /\ ChildRuns /\ OwnChain /\ DoneBuffered /\ RunnerTypes /\ LogTypes
  BY DEF RunInv, TypeInv
<1>1. /\ pc'[r] = "start" /\ job'[r] = j /\ chain'[r] = chain[Main] /\ buf' = buf
      /\ \A q \in Runner : q # r => pc'[q] = pc[q] /\ job'[q] = job[q] /\ chain'[q] = chain[q]
  BY <1>0 DEF Begin, RunnerTypes, LogTypes
<1>2. main' # "inline" => chain[Main] = NoChain
  BY <1>0 DEF MainRuns
<1>3. MainRuns'
  BY <1>0, <1>1, <1>2, Names DEF MainRuns, Idle
<1>4. ChildRuns'
  BY <1>0, <1>1, Names DEF ChildRuns
<1>5. OwnChain'
  <2> SUFFICES ASSUME NEW q \in Runner, ~Inline(q)', pc'[q] # "none"
               PROVE  /\ pc'[q] \in EarlyStages => chain'[q] = NoChain
                      /\ pc'[q] \in MidStages => chain'[q] \in {NoChain, FullChain(job'[q])}
                      /\ pc'[q] \in Sending => chain'[q].parent = job'[q]
    BY DEF OwnChain, FullChain, EarlyStages, MidStages
  <2>1. CASE q = r
    BY <1>0, <1>1, <2>1 DEF Inline, MidStages, MainRuns
  <2>2. CASE q # r
    BY <1>0, <1>1, <2>2 DEF OwnChain, Inline, Idle
  <2> QED BY <2>1, <2>2
<1>6. DoneBuffered'
  BY <1>0, <1>1 DEF DoneBuffered
<1> QED BY <1>3, <1>4, <1>5, <1>6 DEF RunInv

LEMMA LaunchRuns ==
    ASSUME RunInv, TypeInv', NEW j \in Job, Launch(j), main \in {"loop", "write"}, jobfork' = jobfork
    PROVE  RunInv'
<1>1. Idle
  BY DEF RunInv, MainRuns
<1>2. CASE jobfork /\ Begin(j, j) /\ main' = "loop"
  BY <1>1, <1>2, BeginRuns, Names
<1>3. CASE jobfork /\ Begin(Main, j) /\ main' = "unforked"
  BY <1>1, <1>3, BeginRuns, Names
<1>4. CASE ~jobfork /\ Begin(Main, j) /\ main' = "inline"
  BY <1>1, <1>4, BeginRuns, Names
<1> QED BY <1>2, <1>3, <1>4 DEF Launch

LEMMA RunStep == RunInv /\ [Next]_vars => RunInv'
<1> SUFFICES ASSUME RunInv, [Next]_vars PROVE RunInv'
  OBVIOUS
<1>0. TypeInv /\ TypeInv' /\ MainRuns /\ ChildRuns /\ OwnChain /\ DoneBuffered /\ MainTypes
  BY TypeStep DEF RunInv, TypeInv
<1>1. ASSUME NEW r \in Runner, RunnerStep(r) PROVE RunInv'
  BY <1>0, <1>1, RunnerStepRuns
<1>2. ASSUME UNCHANGED runners, MainRuns', UNCHANGED jobfork, main' = "inline" => main = "inline",
             Idle \/ main' = main
      PROVE  RunInv'
  <2>1. ChildRuns' /\ DoneBuffered'
    BY <1>0, <1>2 DEF ChildRuns, DoneBuffered, runners
  <2>2. OwnChain'
    BY <1>0, <1>2 DEF OwnChain, runners, Inline, FullChain, Idle, EarlyStages, MidStages
  <2> QED BY <1>0, <1>2, <2>1, <2>2 DEF RunInv
<1>3. ASSUME NEW j \in Job, Rollback(j) PROVE RunInv'
  <2>1. main = "recover" /\ Idle /\ UNCHANGED <<jobfork, main, mjob, given, pkg>>
    BY <1>3 DEF Rollback, cache
  <2>2. CASE UNCHANGED runners
    BY <1>0, <1>2, <2>1, <2>2 DEF MainRuns, Idle, runners
  <2>3. CASE Begin(Main, j)
    BY <1>0, <2>1, <2>3, BeginRuns, Names
  <2> QED BY <1>3, <2>2, <2>3 DEF Rollback
<1>4. CASE PackageWritten
  BY <1>0, <1>4, LaunchRuns DEF PackageWritten, MainTypes
<1>5. ASSUME NEW j \in Job, TakeJob(j) PROVE RunInv'
  <2>1. CASE pkg[pkgOf[j]] = "absent"
    <3>1. /\ main = "loop" /\ main' = "write" /\ mjob' = j /\ UNCHANGED <<runners, jobfork>>
          /\ given' = [given EXCEPT ![j] = TRUE] /\ Idle
      BY <1>0, <1>5, <2>1 DEF TakeJob, MainRuns
    <3>2. given'[j]
      BY <1>0, <3>1 DEF TypeInv, HistoryTypes
    <3> QED BY <1>0, <1>2, <3>1, <3>2 DEF MainRuns, Idle, runners
  <2>2. CASE pkg[pkgOf[j]] # "absent"
    BY <1>0, <1>5, <2>2, LaunchRuns DEF TakeJob
  <2> QED BY <2>1, <2>2
<1>6. CASE Recovered \/ Restart
  BY <1>0, <1>2, <1>6 DEF Recovered, Restart, MainRuns, Idle, runners
<1>7. CASE Dispose
  BY <1>0, <1>2, <1>7 DEF Dispose, MainRuns, Idle, runners
<1>8. CASE UNCHANGED vars
  <2>1. UNCHANGED <<runners, jobfork, main, mjob, given, pkg>>
    BY <1>8 DEF vars, cache, history
  <2>2. MainRuns'
    BY <1>0, <2>1 DEF MainRuns, Idle, runners, Pkg
  <2> QED BY <1>2, <2>1, <2>2
<1>9. ASSUME NEW R \in SUBSET Runner, Dies(R) PROVE RunInv'
  BY <1>0, <1>9, DiesRuns
<1>10. ASSUME (\E j \in Job : ChildDies(j)) \/ MainDies \/ HostDies
       PROVE  \E R \in SUBSET Runner : Dies(R)
  BY <1>10, Names DEF ChildDies, MainDies, HostDies
<1>11. ASSUME NEW r \in Runner, AnswerLost(r) PROVE RunInv'
  BY <1>0, <1>11, AnswerRuns
<1> QED BY <1>1, <1>3, <1>4, <1>5, <1>6, <1>7, <1>8, <1>9, <1>10, <1>11 DEF Next, MainStep

\* Two runners at one job are the main process and the child.
LEMMA TwoAtOneJob ==
    ASSUME RunInv, OneRun, NEW q \in Runner, NEW r \in Runner, q # r,
           pc[q] # "none", pc[r] # "none", job[q] = job[r]
    PROVE  job[r] \in doubled
  BY AtWork, Names DEF RunInv, ChildRuns, OneRun, Runner

\* A step in which no run begins and no subjob is sent.
LEMMA SendKeep ==
    ASSUME SendInv, RunInv', sent' = sent, doubled' = doubled,
           \A j \in Job : Fresh(j)' => Fresh(j),
           \A j \in Job : \/ disk'[j] \in {disk[j], NoFile}
                          \/ \E r \in Runner : job[r] = j /\ pc[r] \notin {"none"} \cup Prospecting,
           \A q \in Runner :
               \/ pc'[q] = "none"
               \/ /\ pc[q] # "none" /\ job'[q] = job[q]
                  /\ pc'[q] \in Prospecting =>
                         pc[q] \in Prospecting \/ Closed(job[q])'
                  /\ pc'[q] \notin Sending => pc[q] \notin Sending
                  /\ pc'[q] \in Sending /\ job[q] \notin doubled =>
                         sent[job[q]] + chain'[q].left <= subjobs[job[q]]
    PROVE  SendInv'
<1>0. /\ RunInv /\ TypeInv /\ RunnerTypes /\ OneRun /\ FreshUntouched /\ SentSoFar
      /\ ClosedBeforeSend /\ SubjobsSentOnce /\ RunnerTypes'
  BY DEF SendInv, RunInv, TypeInv
<1>1. \A q \in Runner : \/ pc'[q] = "none" /\ job'[q] = NoJob
                        \/ pc'[q] # "none" /\ pc[q] # "none" /\ job'[q] = job[q] /\ job[q] \in Job
  BY <1>0 DEF RunnerTypes
<1>2. OneRun'
  BY <1>0, <1>1, Names DEF OneRun
<1>3. FreshUntouched'
  <2> SUFFICES ASSUME NEW j \in Job, Fresh(j)'
               PROVE  sent[j] = 0 /\ disk'[j] = NoFile /\ \A r \in Runner : job'[r] # j
    BY DEF FreshUntouched
  <2>1. sent[j] = 0 /\ disk[j] = NoFile /\ \A r \in Runner : job[r] # j
    BY <1>0 DEF FreshUntouched
  <2> QED BY <1>1, <2>1, Names
<1>4. SentSoFar'
  BY <1>0, <1>1 DEF SentSoFar
<1>5. ASSUME NEW j \in Job, j \notin doubled, Closed(j),
             \A r \in Runner : job[r] = j => pc[r] \in {"none"} \cup Prospecting
      PROVE  Closed(j)'
  BY <1>5 DEF Closed
<1>6. ASSUME NEW q \in Runner, pc'[q] \in Prospecting, job'[q] \notin doubled
      PROVE  Closed(job[q])'
  <2>1. pc[q] # "none" /\ job'[q] = job[q] /\ job[q] \in Job
    BY <1>1, <1>6
  <2>2. CASE pc[q] \in Prospecting
    <3>1. Closed(job[q])
      BY <1>0, <1>6, <2>1, <2>2 DEF ClosedBeforeSend
    <3>2. \A r \in Runner : job[r] = job[q] => pc[r] \in {"none"} \cup Prospecting
      BY <1>0, <1>6, <2>1, <2>2, TwoAtOneJob
    <3>3. disk'[job[q]] \in {disk[job[q]], NoFile}
      BY <2>1, <3>2
    <3> QED BY <2>1, <3>1, <3>3 DEF Closed
  <2>3. CASE Closed(job[q])'
    BY <2>1, <2>3 DEF Closed
  <2> QED BY <1>6, <2>1, <2>2, <2>3
<1>7. ASSUME NEW j \in Job, j \notin doubled, sent[j] > 0 PROVE Closed(j)'
  <2>1. Closed(j)
    BY <1>0, <1>7 DEF ClosedBeforeSend
  <2>2. \A r \in Runner : job[r] = j => pc[r] \in {"none"} \cup Sending
    BY <1>0, <1>7 DEF SentSoFar
  <2> QED BY <1>5, <1>7, <2>1, <2>2
<1>8. ClosedBeforeSend'
  BY <1>6, <1>7 DEF ClosedBeforeSend, Closed
<1>9. SubjobsSentOnce'
  BY <1>0 DEF SubjobsSentOnce
<1> QED BY <1>2, <1>3, <1>4, <1>8, <1>9 DEF SendInv

\* A run begins: of a job that was just handed out, or of one in whose log
\* recovery found a record that is not done.
LEMMA BeginSends ==
    ASSUME SendInv, RunInv', NEW r \in Runner, NEW j \in Job, Begin(r, j), Idle,
           r \in {Main, j}, UNCHANGED <<sent, disk>>,
           doubled \subseteq doubled', j \in doubled' \/ sent[j] = 0,
           r = Main => j \in doubled' \/ pc[j] = "none",
           \A i \in Job : Fresh(i)' => Fresh(i) /\ i # j
    PROVE  SendInv'
<1>0. /\ RunInv /\ TypeInv /\ RunnerTypes /\ LogTypes /\ OneRun /\ FreshUntouched /\ SentSoFar
      /\ ClosedBeforeSend /\ SubjobsSentOnce /\ ChildRuns
  BY DEF SendInv, RunInv, TypeInv
<1>1. /\ pc'[r] = "start" /\ job'[r] = j
      /\ \A q \in Runner : q # r => pc'[q] = pc[q] /\ job'[q] = job[q] /\ chain'[q] = chain[q]
  BY <1>0 DEF Begin, RunnerTypes, LogTypes
<1>2. job[Main] = NoJob /\ (pc[j] = "none" => job[j] = NoJob)
  BY <1>0, Names DEF Idle, RunnerTypes
<1>3. OneRun'
  <2> SUFFICES ASSUME NEW i \in Job, i \notin doubled', job'[Main] = i, job'[i] = i PROVE FALSE
    BY DEF OneRun
  <2>1. CASE r = Main
    BY <1>1, <1>2, <2>1, Names
  <2>2. CASE r # Main
    BY <1>1, <1>2, <2>2, Names
  <2> QED BY <2>1, <2>2
<1>4. FreshUntouched'
  <2> SUFFICES ASSUME NEW i \in Job, Fresh(i)'
               PROVE  sent[i] = 0 /\ disk[i] = NoFile /\ \A q \in Runner : job'[q] # i
    BY DEF FreshUntouched
  <2> QED BY <1>0, <1>1 DEF FreshUntouched
<1>5. SentSoFar'
  <2> SUFFICES ASSUME NEW q \in Runner, pc'[q] # "none", job'[q] \notin doubled'
               PROVE  IF pc'[q] \in Sending THEN sent[job'[q]] + chain'[q].left <= subjobs[job'[q]]
                                         ELSE sent[job'[q]] = 0
    BY DEF SentSoFar
  <2>1. CASE q = r
    BY <1>1, <2>1
  <2>2. CASE q # r
    BY <1>0, <1>1, <2>2 DEF SentSoFar
  <2> QED BY <2>1, <2>2
<1>6. ClosedBeforeSend'
  BY <1>0, <1>1 DEF ClosedBeforeSend, Closed
<1>7. SubjobsSentOnce'
  BY <1>0 DEF SubjobsSentOnce
<1> QED BY <1>3, <1>4, <1>5, <1>6, <1>7 DEF SendInv

LEMMA SendSubjobSends ==
    ASSUME SendInv, RunInv', NEW r \in Runner, SendSubjob(r)
    PROVE  SendInv'
<1>0. /\ RunInv /\ TypeInv /\ LogTypes /\ HistoryTypes /\ OwnChain /\ MainRuns /\ OneRun
      /\ FreshUntouched /\ SentSoFar /\ ClosedBeforeSend /\ SubjobsSentOnce
  BY DEF SendInv, RunInv, TypeInv
<1>1. /\ pc[r] = "send" /\ pc'[r] = "asked" /\ UNCHANGED <<job, disk, given, mjob, doubled>>
      /\ \A q \in Runner : q # r => pc'[q] = pc[q]
      /\ chain[r].left > 0 /\ chain[r] \in Chain
  BY <1>0 DEF SendSubjob, LogTypes, TypeInv, RunnerTypes
<1>2. PICK j \in Job : job[r] = j
  BY <1>0, <1>1, AtWork
<1>3. chain[r].parent = j
  BY <1>0, <1>1, <1>2 DEF OwnChain, Inline, MainRuns
<1>4. \A i \in Job : sent[i] \in Nat /\ sent'[i] = IF i = j THEN sent[i] + 1 ELSE sent[i]
  BY <1>0, <1>3 DEF SendSubjob, HistoryTypes
<1>5. chain'[r].left = chain[r].left - 1 /\ chain[r].left \in Nat /\ \A q \in Runner : q # r => chain'[q] = chain[q]
  <2>1. chain' = [chain EXCEPT ![r] = [chain[r] EXCEPT !.left = chain[r].left - 1]]
    BY DEF SendSubjob
  <2>2. chain'[r] = [chain[r] EXCEPT !.left = chain[r].left - 1]
    BY <1>0, <2>1 DEF LogTypes
  <2>3. chain'[r].left = chain[r].left - 1
    BY <1>1, <2>2 DEF Chain
  <2> QED BY <1>0, <1>1, <2>1, <2>3 DEF LogTypes, Chain
<1>6. j \notin doubled => sent[j] + chain[r].left <= subjobs[j] /\ Closed(j)
  BY <1>0, <1>1, <1>2 DEF SentSoFar, ClosedBeforeSend
<1>7. OneRun'
  BY <1>0, <1>1 DEF OneRun
<1>8. FreshUntouched'
  BY <1>0, <1>1, <1>2, <1>4 DEF FreshUntouched, Fresh
<1>9. SentSoFar'
  <2> SUFFICES ASSUME NEW q \in Runner, pc[q] # "none", job[q] \notin doubled
               PROVE  IF pc[q] \in Sending THEN sent'[job[q]] + chain'[q].left <= subjobs[job[q]]
                                          ELSE sent'[job[q]] = 0
    <3>1. \A q \in Runner : pc'[q] \in Sending <=> pc[q] \in Sending
      BY <1>1
    <3>2. \A q \in Runner : pc'[q] # "none" => pc[q] # "none"
      BY <1>1
    <3> QED BY <1>1, <3>1, <3>2 DEF SentSoFar
  <2>0. job[q] \in Job
    BY <1>0, AtWork
  <2>1. CASE q = r
    <3>1. sent'[j] = sent[j] + 1 /\ sent[j] \in Nat /\ subjobs[j] \in Nat
      BY <1>4, WorkerConstants
    <3>2. sent[j] + chain[r].left <= subjobs[j]
      BY <1>2, <1>6, <2>1
    <3>3. sent'[j] + chain'[r].left <= subjobs[j]
      BY <1>5, <3>1, <3>2
    <3> QED BY <1>1, <1>2, <2>1, <3>3
  <2>2. CASE q # r
    <3>1. job[q] # j
      BY <1>0, <1>1, <1>2, <2>2, TwoAtOneJob
    <3> QED BY <1>0, <1>4, <1>5, <2>0, <2>2, <3>1 DEF SentSoFar
  <2> QED BY <2>1, <2>2
<1>10. ClosedBeforeSend'
  BY <1>0, <1>1, <1>4, <1>6 DEF ClosedBeforeSend, Closed
<1>11. SubjobsSentOnce'
  <2> SUFFICES ASSUME NEW i \in Job, i \notin doubled PROVE sent'[i] <= subjobs[i]
    BY <1>1 DEF SubjobsSentOnce
  <2>1. subjobs[j] \in Nat
    BY WorkerConstants
  <2>2. CASE i = j
    BY <1>1, <1>4, <1>5, <1>6, <2>1, <2>2
  <2>3. CASE i # j
    BY <1>0, <1>4, <2>3 DEF SubjobsSentOnce
  <2> QED BY <2>2, <2>3
<1> QED BY <1>7, <1>8, <1>9, <1>10, <1>11 DEF SendInv

LEMMA AnswerSends ==
    ASSUME SendInv, RunInv', NEW r \in Runner, SubjobAnswered(r) \/ AnswerLost(r)
    PROVE  SendInv'
<1>0. RunnerTypes /\ SentSoFar
  BY DEF SendInv, RunInv, TypeInv
<1>1. /\ pc[r] = "asked" /\ pc'[r] \in Sending /\ \A q \in Runner : q # r => pc'[q] = pc[q]
      /\ UNCHANGED <<mjob, given, job, chain, disk, sent, doubled>>
  BY <1>0 DEF SubjobAnswered, AnswerLost, Stage, RunnerTypes
<1>2. \A q \in Runner : pc[q] \in Sending /\ job[q] \notin doubled
                            => sent[job[q]] + chain[q].left <= subjobs[job[q]]
  BY <1>0 DEF SentSoFar
<1>3. \A j \in Job : Fresh(j)' => Fresh(j)
  BY <1>1 DEF Fresh
<1> QED BY <1>1, <1>2, <1>3, SendKeep

LEMMA RunnerStepSends ==
    ASSUME SendInv, RunInv', NEW r \in Runner, RunnerStep(r)
    PROVE  SendInv'
<1>0. /\ RunInv /\ TypeInv /\ RunnerTypes /\ LogTypes /\ OwnChain /\ MainRuns /\ DoneBuffered
      /\ SentSoFar
  BY DEF SendInv, RunInv, TypeInv
<1>a. pc[r] # "none" /\ job[r] \in Job
  BY <1>0, AtWork DEF RunnerStep
<1>b. \A q \in Runner : pc[q] \in Sending /\ job[q] \notin doubled
                            => sent[job[q]] + chain[q].left <= subjobs[job[q]]
  BY <1>0 DEF SentSoFar
<1>1. ASSUME NEW from \in EarlyStages \cup MidStages, NEW to \in EarlyStages \cup MidStages,
             Stage(r, from, to), from # "prospect", to # "prospect",
             \A j \in Job : j # job[r] => disk'[j] = disk[j],
             \A q \in Runner : q # r => chain'[q] = chain[q]
      PROVE  SendInv'
  <2>1. /\ pc[r] \notin {"none"} \cup Prospecting /\ pc'[r] \notin {"none"} \cup Prospecting
        /\ job' = job /\ \A q \in Runner : q # r => pc'[q] = pc[q]
        /\ UNCHANGED <<sent, doubled, given, mjob>>
    BY <1>0, <1>1 DEF Stage, RunnerTypes, EarlyStages, MidStages
  <2>2. \A j \in Job : Fresh(j)' => Fresh(j)
    BY <2>1 DEF Fresh
  <2> QED BY <1>1, <1>b, <2>1, <2>2, SendKeep
<1>2. CASE HasPackage(r) \/ AwaitLock(r) \/ HasHome(r) \/ OpenPackage(r) \/ SetupHome(r)
           \/ SetupEmptyHome(r) \/ SetLock(r) \/ PyFailed(r) \/ Teardown(r)
  <2>1. /\ UNCHANGED <<chain, disk>>
        /\ \/ Stage(r, "check", "await") \/ Stage(r, "await", "home") \/ Stage(r, "home", "lock")
           \/ Stage(r, "home", "extract") \/ Stage(r, "extract", "lock") \/ Stage(r, "lock", "env")
           \/ Stage(r, "exec", "close") \/ Stage(r, "teardown", "stop")
    BY <1>2 DEF HasPackage, AwaitLock, HasHome, OpenPackage, SetupHome, SetupEmptyHome, SetLock,
                PyFailed, Teardown
  <2> QED BY <1>1, <2>1 DEF EarlyStages, MidStages
<1>3. CASE OpenWal(r)
  BY <1>0, <1>1, <1>3 DEF OpenWal, LogTypes, EarlyStages, MidStages
<1>4. CASE SetupEnv(r) \/ Advance(r) \/ MarkDone(r)
  <2>1. /\ disk' = Flush(r) /\ \A q \in Runner : q # r => chain'[q] = chain[q]
        /\ \/ Stage(r, "env", "exec") \/ Stage(r, "exec", "exec") \/ Stage(r, "exec", "close")
           \/ Stage(r, "close", "teardown")
    BY <1>0, <1>4 DEF SetupEnv, Advance, MarkDone, Commit, LogTypes
  <2>2. \A j \in Job : j # job[r] => disk'[j] = disk[j]
    BY <1>0, <1>a, <2>1, FlushType
  <2> QED BY <1>1, <2>1, <2>2 DEF EarlyStages, MidStages
<1>5. CASE CloseWal(r)
  <2>1. /\ pc[r] = "stop" /\ disk' = Flush(r) /\ UNCHANGED <<chain, sent, doubled, given, mjob>>
        /\ \/ pc'[r] = "none"
           \/ pc'[r] = "prospect" /\ job'[r] = job[r]
        /\ \A q \in Runner : q # r => pc'[q] = pc[q] /\ job'[q] = job[q]
    BY <1>0, <1>5 DEF CloseWal, RunnerTypes, history
  <2>2. \A j \in Job : disk'[j] = IF j = job[r] /\ disk[j] # NoFile THEN buf[r] ELSE disk[j]
    BY <1>0, <1>a, <2>1, FlushType
  <2>3. buf[r] \in LogRecord /\ buf[r].done
    BY <1>0, <2>1 DEF DoneBuffered
  <2>4. job'[r] = job[r] => Closed(job[r])'
    BY <1>a, <2>2, <2>3 DEF Closed
  <2>5. \A j \in Job : Fresh(j)' => Fresh(j)
    BY <2>1 DEF Fresh
  <2>6. \A j \in Job : \/ disk'[j] \in {disk[j], NoFile}
                       \/ \E q \in Runner : job[q] = j /\ pc[q] \notin {"none"} \cup Prospecting
    BY <2>1, <2>2
  <2> QED BY <1>b, <2>1, <2>4, <2>5, <2>6, SendKeep
<1>6. CASE Prospect(r)
  <2>1. /\ pc[r] = "prospect" /\ pc'[r] = "send" /\ job' = job /\ chain' = chain /\ disk' = disk
        /\ \A q \in Runner : q # r => pc'[q] = pc[q]
        /\ UNCHANGED <<sent, doubled, given, mjob>> /\ chain[r] # NoChain
    BY <1>0, <1>6 DEF Prospect, Stage, RunnerTypes
  <2>2. chain[r] = FullChain(job[r])
    BY <1>0, <2>1 DEF OwnChain, Inline, MainRuns, MidStages
  <2>3. chain[r].left = subjobs[job[r]] /\ subjobs[job[r]] \in Nat
    BY <1>a, <2>2, WorkerConstants DEF FullChain
  <2>4. job[r] \notin doubled => sent[job[r]] = 0
    BY <1>0, <2>1 DEF SentSoFar
  <2>5. job[r] \notin doubled => sent[job[r]] + chain[r].left <= subjobs[job[r]]
    BY <2>3, <2>4
  <2>6. \A j \in Job : Fresh(j)' => Fresh(j)
    BY <2>1 DEF Fresh
  <2> QED BY <1>b, <2>1, <2>5, <2>6, SendKeep
<1>7. CASE SendSubjob(r)
  BY <1>7, SendSubjobSends
<1>8. CASE NothingToSend(r) \/ AllSent(r) \/ EarlyReturn(r)
  <2>1. Dies({r}) \/ \E new : EndRun(r, new)
    BY <1>8 DEF NothingToSend, AllSent, EarlyReturn
  <2>2. /\ pc'[r] = "none"
        /\ \A q \in Runner : q # r => pc'[q] = pc[q] /\ job'[q] = job[q] /\ chain'[q] = chain[q]
        /\ UNCHANGED <<disk, sent, doubled, given>>
    BY <1>0, <2>1 DEF Dies, EndRun, RunnerTypes, LogTypes, history
  <2>3. mjob' = mjob \/ mjob' = NoJob
    BY <2>1 DEF Dies, EndRun
  <2>4. \A j \in Job : Fresh(j)' => Fresh(j)
    BY <2>2, <2>3, Names DEF Fresh
  <2> QED BY <1>b, <2>2, <2>4, SendKeep
<1>9. CASE SubjobAnswered(r)
  BY <1>9, AnswerSends
<1> QED BY <1>2, <1>3, <1>4, <1>5, <1>6, <1>7, <1>8, <1>9 DEF RunnerStep

LEMMA LaunchSends ==
    ASSUME SendInv, RunInv', NEW j \in Job, Launch(j), main \in {"loop", "write"}, Fresh(j),
           UNCHANGED <<sent, disk, doubled>>, \A i \in Job : Fresh(i)' => Fresh(i) /\ i # j
    PROVE  SendInv'
<1>1. Idle
  BY DEF SendInv, RunInv, MainRuns
<1>2. sent[j] = 0 /\ job[j] = NoJob /\ pc[j] = "none"
  BY Names DEF SendInv, RunInv, FreshUntouched, ChildRuns, TypeInv, RunnerTypes
<1> QED BY <1>1, <1>2, BeginSends, Names DEF Launch

LEMMA SendStep == SendInv /\ [Next]_vars => SendInv'
<1> SUFFICES ASSUME SendInv, [Next]_vars PROVE SendInv'
  OBVIOUS
<1>0. RunInv /\ RunInv' /\ TypeInv /\ MainTypes /\ RunnerTypes /\ MainRuns /\ SentSoFar /\ ClosedBeforeSend
  BY RunStep DEF SendInv, RunInv, TypeInv
<1>b. \A q \in Runner : pc[q] \in Sending /\ job[q] \notin doubled
                            => sent[job[q]] + chain[q].left <= subjobs[job[q]]
  BY <1>0 DEF SentSoFar
<1>1. ASSUME NEW r \in Runner, RunnerStep(r) PROVE SendInv'
  BY <1>0, <1>1, RunnerStepSends
<1>2. ASSUME UNCHANGED <<runners, sent, doubled>>, \A j \in Job : Fresh(j)' => Fresh(j),
             \A j \in Job : disk'[j] \in {disk[j], NoFile}
      PROVE  SendInv'
  BY <1>0, <1>b, <1>2, SendKeep DEF runners
<1>3. ASSUME NEW j \in Job, Rollback(j) PROVE SendInv'
  <2>1. Idle /\ UNCHANGED <<given, mjob, sent>> /\ main = "recover"
    BY <1>3 DEF Rollback
  <2>2. \A i \in Job : Fresh(i)' => Fresh(i)
    BY <2>1 DEF Fresh
  <2>3. CASE UNCHANGED <<runners, doubled>>
    <3>1. disk' = disk \/ disk' = [disk EXCEPT ![j] = NoFile]
      BY <1>3 DEF Rollback
    <3>2. \A i \in Job : disk'[i] \in {disk[i], NoFile}
      BY <1>0, <3>1 DEF TypeInv, LogTypes
    <3> QED BY <1>2, <2>1, <2>2, <2>3, <3>2
  <2>4. CASE /\ IsRecord(disk[j]) /\ ~disk[j].done /\ Begin(Main, j) /\ UNCHANGED disk
             /\ doubled' = doubled \cup (IF pc[j] # "none" THEN {j} ELSE {})
    <3>1. ~Closed(j) /\ disk[j] # NoFile
      BY <2>4 DEF Closed, IsRecord
    <3>2. j \in doubled' \/ sent[j] = 0
      BY <1>0, <2>4, <3>1 DEF ClosedBeforeSend, TypeInv, HistoryTypes
    <3>3. ~Fresh(j)
      BY <3>1 DEF SendInv, FreshUntouched
    <3> QED BY <1>0, <2>1, <2>2, <2>4, <3>2, <3>3, BeginSends, Names
  <2> QED BY <1>3, <2>3, <2>4 DEF Rollback
<1>4. CASE PackageWritten
  <2>1. main = "write" /\ mjob \in Job /\ given[mjob]
    BY <1>0, <1>4 DEF PackageWritten, MainTypes, MainRuns
  <2>2. PICK j \in Job : j = mjob
    BY <2>1
  <2>3. /\ Launch(j) /\ UNCHANGED <<sent, disk, doubled>>
        /\ \A i \in Job : Fresh(i)' => Fresh(i) /\ i # j
    BY <1>4, <2>1, <2>2, Names DEF PackageWritten, history, Fresh
  <2>4. Fresh(j)
    BY <2>2 DEF Fresh
  <2> QED BY <1>0, <2>1, <2>3, <2>4, LaunchSends
<1>5. ASSUME NEW j \in Job, TakeJob(j) PROVE SendInv'
  <2>1. /\ main = "loop" /\ ~given[j] /\ mjob = NoJob /\ UNCHANGED <<sent, disk, doubled>>
        /\ given' = [given EXCEPT ![j] = TRUE]
    BY <1>0, <1>5 DEF TakeJob, MainTypes
  <2>2. \A i \in Job : given'[i] = (i = j \/ given[i])
    BY <1>0, <2>1 DEF TypeInv, HistoryTypes
  <2>3. CASE pkg[pkgOf[j]] = "absent"
    <3>1. mjob' = j /\ UNCHANGED runners
      BY <1>5, <2>3 DEF TakeJob
    <3>2. \A i \in Job : Fresh(i)' => Fresh(i)
      BY <2>1, <2>2, <3>1 DEF Fresh
    <3> QED BY <1>2, <2>1, <3>1, <3>2
  <2>4. CASE pkg[pkgOf[j]] # "absent"
    <3>1. Launch(j) /\ mjob' = mjob
      BY <1>5, <2>4 DEF TakeJob
    <3>2. Fresh(j) /\ \A i \in Job : Fresh(i)' => Fresh(i) /\ i # j
      BY <2>1, <2>2, <3>1, Names DEF Fresh
    <3> QED BY <1>0, <2>1, <3>1, <3>2, LaunchSends
  <2> QED BY <2>3, <2>4
<1>6. CASE Recovered \/ Restart \/ Dispose \/ UNCHANGED vars
  <2>1. UNCHANGED <<runners, sent, doubled, given, mjob, disk>>
    BY <1>6 DEF Recovered, Restart, Dispose, vars, history
  <2> QED BY <1>2, <2>1 DEF Fresh
<1>7. ASSUME NEW R \in SUBSET Runner, Dies(R) PROVE SendInv'
  <2>1. /\ \A q \in Runner : \/ pc'[q] = "none"
                             \/ pc'[q] = pc[q] /\ job'[q] = job[q] /\ chain'[q] = chain[q]
        /\ UNCHANGED <<sent, doubled, given, disk>> /\ mjob' \in {mjob, NoJob}
    BY <1>7 DEF Dies
  <2>2. \A j \in Job : Fresh(j)' => Fresh(j)
    BY <2>1, Names DEF Fresh
  <2> QED BY <1>0, <1>b, <2>1, <2>2, SendKeep
<1>8. ASSUME (\E j \in Job : ChildDies(j)) \/ MainDies \/ HostDies
      PROVE  \E R \in SUBSET Runner : Dies(R)
  BY <1>8, Names DEF ChildDies, MainDies, HostDies
<1>9. ASSUME NEW r \in Runner, AnswerLost(r) PROVE SendInv'
  BY <1>0, <1>9, AnswerSends
<1> QED BY <1>1, <1>3, <1>4, <1>5, <1>6, <1>7, <1>8, <1>9 DEF Next, MainStep

\* No subjob is submitted twice.  The done record is on disk before the first
\* subjob is sent, so no recovery repeats what was sent, whichever processes die
\* and however often; only a job that recovery took while its child was still
\* alive is excepted.
THEOREM SubjobsSentOnceTheorem == Spec => []SubjobsSentOnce
<1>1. SendInv => SubjobsSentOnce
  BY DEF SendInv
<1> QED BY <1>1, SendInit, SendStep, PTL DEF Spec
=============================================================================
