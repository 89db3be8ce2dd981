------------------------- MODULE ChellaMasterProofs -------------------------
(***************************************************************************)
(* Proofs about ChellaMaster, for any number of jobs, workers, restarts of *)
(* the master and lives of the workers.                                    *)
(***************************************************************************)
EXTENDS ChellaMaster, SetLemmas, TLAPS

IdReply == [kind : {"id"}, id : Nat, inc : 0..MaxRestarts]
JobReply == [kind : {"job"}, job : Job]
EmptyReply == [kind : {"empty"}]
JobId == [id : Nat, inc : 0..MaxRestarts, epoch : 0..MaxRestarts]

InboxType == inbox \in [Worker -> IdReply \cup JobReply \cup EmptyReply \cup {None}]

\* The process that sent a request still waits for its reply.
Live(r) == r.life = life[r.w] /\ wst[r.w] # "down"

\* A process has one request under way at most, of the kind it waits for, and
\* then no reply; the other requests come from processes that are gone.
Outstanding ==
    \A r \in reqs : /\ r.life <= life[r.w]
                    /\ Live(r) => wst[r.w] = r.kind /\ inbox[r.w] = None

\* Only a master that is started again counts, and one that crashed was up.
Incarnations ==
    /\ crashes <= IF up THEN restarts ELSE restarts + 1
    /\ ~up => restarts < MaxRestarts /\ jobqueue = <<>>

HasLife == \A w \in Worker : wst[w] # "down" => life[w] > 0

TypeInv == TypeOK /\ InboxType /\ Outstanding /\ Incarnations /\ HasLife

\* The conjunct of TypeOK about the reply on its way to a worker.
Awaited(w) ==
    \/ inbox[w] = None
    \/ wst[w] = "solicit" /\ inbox[w].kind = "id" /\ inbox[w].id \in Nat
    \/ wst[w] = "poll" /\ inbox[w].kind = "empty"
    \/ wst[w] = "poll" /\ inbox[w].kind = "job" /\ inbox[w].job \in Job

\* What the reply to a request leaves behind, whatever its text.
LEMMA AnswerFacts ==
    ASSUME TypeInv, NEW r \in reqs, NEW msg, Answer(r, msg)
    PROVE  /\ r \in Request /\ reqs' = reqs \ {r}
           /\ \A w \in Worker : inbox'[w] = IF w = r.w /\ Live(r) THEN msg ELSE inbox[w]
           /\ msg \in IdReply \cup JobReply \cup EmptyReply => InboxType'
           /\ UNCHANGED <<life, wst>> => Outstanding'
<1>1. r \in Request /\ reqs \subseteq Request
  BY DEF TypeInv, TypeOK
<1>2. reqs' = reqs \ {r}
  BY DEF Answer
<1>3. \A w \in Worker : inbox'[w] = IF w = r.w /\ Live(r) THEN msg ELSE inbox[w]
  BY <1>1 DEF TypeInv, InboxType, Answer, Live
<1>4. msg \in IdReply \cup JobReply \cup EmptyReply => InboxType'
  BY <1>1 DEF TypeInv, InboxType, Answer
<1>5. ASSUME UNCHANGED <<life, wst>> PROVE Outstanding'
  <2> SUFFICES ASSUME NEW q \in reqs'
               PROVE  (/\ q.life <= life[q.w]
                       /\ Live(q) => wst[q.w] = q.kind /\ inbox[q.w] = None)'
    BY DEF Outstanding
  <2>1. q \in reqs /\ q # r /\ q \in Request
    BY <1>1, <1>2
  <2>2. q.life <= life[q.w] /\ (Live(q) => wst[q.w] = q.kind /\ inbox[q.w] = None)
    BY <2>1 DEF TypeInv, Outstanding
  <2>3. q.w = r.w /\ Live(q) /\ Live(r) => q = r
    <3>1. Live(r) => wst[r.w] = r.kind
      BY DEF TypeInv, Outstanding
    <3>2. q.w = r.w /\ q.life = r.life /\ q.kind = r.kind => q = r
      BY <1>1, <2>1 DEF Request
    <3> QED BY <2>2, <3>1, <3>2 DEF Live
  <2> QED BY <1>1, <1>3, <1>5, <2>1, <2>2, <2>3 DEF Live, Request
<1> QED BY <1>1, <1>2, <1>3, <1>4, <1>5

LEMMA TypeInit == Init => TypeInv
<1> SUFFICES ASSUME Init PROVE TypeInv
  OBVIOUS
<1>1. TypeOK
  BY MasterConstants DEF Init, TypeOK
<1>2. InboxType /\ Outstanding /\ Incarnations /\ HasLife
  BY MasterConstants DEF Init, InboxType, Outstanding, Incarnations, HasLife
<1> QED BY <1>1, <1>2 DEF TypeInv

LEMMA TypeStep == TypeInv /\ [Next]_vars => TypeInv'
<1> SUFFICES ASSUME TypeInv, [Next]_vars PROVE TypeInv'
  OBVIOUS
<1> USE MasterConstants
<1>0. TypeOK /\ InboxType /\ Outstanding /\ Incarnations /\ HasLife
  BY DEF TypeInv
<1>a. \A w \in Worker : Awaited(w)
  BY <1>0 DEF TypeOK, Awaited
<1>1. ASSUME NEW r \in reqs, HandleSolicit(r) PROVE TypeInv'
  <2> DEFINE msg == [kind |-> "id", id |-> worker_counter, inc |-> restarts]
  <2>1. /\ Answer(r, msg) /\ up /\ r.kind = "solicit" /\ worker_counter' = worker_counter + 1
        /\ UNCHANGED <<up, jobqueue, jobcounter, stored, client, wst, life, wid,
                       jid, popped, received, restarts, crashes>>
    BY <1>1 DEF HandleSolicit, history
  <2>2. msg \in IdReply
    BY <1>0 DEF TypeOK, IdReply
  <2>3. /\ r \in Request /\ reqs' = reqs \ {r} /\ InboxType' /\ Outstanding'
        /\ \A w \in Worker : inbox'[w] = IF w = r.w /\ Live(r) THEN msg ELSE inbox[w]
    BY <2>1, <2>2, AnswerFacts
  <2>4. Live(r) => wst[r.w] = "solicit"
    BY <1>0, <2>1 DEF Outstanding
  <2>a. \A w \in Worker : Awaited(w)'
    BY <1>a, <2>1, <2>2, <2>3, <2>4 DEF Awaited, IdReply
  <2>5. TypeOK'
    BY <1>0, <2>1, <2>3, <2>a DEF TypeOK, Awaited
  <2> QED BY <1>0, <2>1, <2>3, <2>5 DEF TypeInv, HasLife, Incarnations
<1>2. ASSUME NEW r \in reqs, HandlePollEmpty(r) PROVE TypeInv'
  <2> DEFINE msg == [kind |-> "empty"]
  <2>1. /\ Answer(r, msg) /\ up /\ r.kind = "poll"
        /\ UNCHANGED <<masterState, client, wst, life, wid, jid, popped, received>>
    BY <1>2 DEF HandlePollEmpty, history
  <2>2. msg \in EmptyReply
    BY DEF EmptyReply
  <2>3. /\ r \in Request /\ reqs' = reqs \ {r} /\ InboxType' /\ Outstanding'
        /\ \A w \in Worker : inbox'[w] = IF w = r.w /\ Live(r) THEN msg ELSE inbox[w]
    BY <2>1, <2>2, AnswerFacts, UNCHANGED <<wst, life>>
  <2>4. Live(r) => wst[r.w] = "poll"
    BY <1>0, <2>1 DEF Outstanding
  <2>a. \A w \in Worker : Awaited(w)'
    BY <1>a, <2>1, <2>3, <2>4 DEF Awaited
  <2>5. TypeOK'
    BY <1>0, <2>1, <2>3, <2>a DEF TypeOK, masterState, Awaited
  <2> QED BY <1>0, <2>1, <2>3, <2>5 DEF TypeInv, HasLife, Incarnations, masterState
<1>3. ASSUME NEW r \in reqs, HandlePollJob(r) PROVE TypeInv'
  <2> DEFINE msg == [kind |-> "job", job |-> Head(jobqueue)]
  <2>1. /\ Answer(r, msg) /\ up /\ r.kind = "poll" /\ jobqueue # <<>>
        /\ jobqueue' = Tail(jobqueue)
        /\ popped' = [popped EXCEPT ![Head(jobqueue)] = @ + 1]
        /\ UNCHANGED <<up, jobcounter, stored, worker_counter, client, wst, life, wid,
                       jid, received, restarts, crashes>>
    BY <1>3 DEF HandlePollJob
  <2>2. Head(jobqueue) \in Job /\ msg \in JobReply /\ jobqueue' \in Seq(Job)
    BY <1>0, <2>1 DEF TypeOK, JobReply
  <2>3. /\ r \in Request /\ reqs' = reqs \ {r} /\ InboxType' /\ Outstanding'
        /\ \A w \in Worker : inbox'[w] = IF w = r.w /\ Live(r) THEN msg ELSE inbox[w]
    BY <2>1, <2>2, AnswerFacts
  <2>4. Live(r) => wst[r.w] = "poll"
    BY <1>0, <2>1 DEF Outstanding
  <2>5. popped' \in [Job -> Nat]
    BY <1>0, <2>1, <2>2 DEF TypeOK
  <2>a. \A w \in Worker : Awaited(w)'
    BY <1>a, <2>1, <2>2, <2>3, <2>4 DEF Awaited, JobReply
  <2>6. TypeOK'
    BY <1>0, <2>1, <2>2, <2>3, <2>5, <2>a DEF TypeOK, Awaited
  <2> QED BY <1>0, <2>1, <2>3, <2>6 DEF TypeInv, HasLife, Incarnations
<1>4. ASSUME NEW j \in Job, HandleIncommingJob(j) PROVE TypeInv'
  <2>1. TypeOK'
    BY <1>0, <1>4 DEF HandleIncommingJob, TypeOK
  <2> QED BY <1>0, <1>4, <2>1
          DEF HandleIncommingJob, TypeInv, HasLife, InboxType, Outstanding, Live, Incarnations
<1>5. CASE Stop \/ Crash
  <2>1. /\ up /\ ~up' /\ restarts < MaxRestarts /\ jobqueue' = <<>>
        /\ jobcounter' = 0 /\ worker_counter' = 0 /\ stored' \in {stored, jobcounter}
        /\ crashes' \in {crashes, crashes + 1} /\ up' = FALSE
        /\ UNCHANGED <<wst, life, wid, jid, popped, received, restarts>>
    BY <1>5 DEF Stop, Crash, Forget, history
  <2>2. reqs' \subseteq reqs /\ client' \in [Job -> {"new", "sent", "accepted", "stuck"}]
    BY <1>0, <1>5 DEF TypeOK, Stop, Crash, LoseRequests
  <2>3. InboxType' /\ \A w \in Worker : inbox'[w] \in {inbox[w], None}
    BY <1>0, <1>5 DEF InboxType, Stop, Crash
  <2>4. crashes' \in 0..MaxRestarts /\ crashes' <= restarts + 1
    BY <1>0, <2>1 DEF TypeOK, Incarnations
  <2>a. \A w \in Worker : Awaited(w)'
    BY <1>a, <2>1, <2>3 DEF Awaited
  <2>b. jobqueue' \in Seq(Job) /\ jobcounter' \in Nat /\ worker_counter' \in Nat /\ stored' \in Nat
    BY <1>0, <2>1 DEF TypeOK
  <2>5. TypeOK'
    BY <1>0, <2>1, <2>2, <2>4, <2>a, <2>b DEF TypeOK, Awaited
  <2>6. Outstanding'
    <3>1. ASSUME NEW q \in reqs
          PROVE  /\ q.w \in Worker /\ q.life <= life[q.w]
                 /\ Live(q) => wst[q.w] = q.kind /\ inbox[q.w] = None
      BY <1>0 DEF Outstanding, TypeOK, Request
    <3> QED BY <2>1, <2>2, <2>3, <3>1 DEF Outstanding, Live
  <2> QED BY <1>0, <2>1, <2>3, <2>4, <2>5, <2>6 DEF TypeInv, HasLife, Incarnations
<1>6. CASE Start
  <2>1. TypeOK'
    BY <1>0, <1>6 DEF Start, peers, history, TypeOK, Incarnations
  <2> QED BY <1>0, <1>6, <2>1
          DEF Start, peers, TypeInv, HasLife, InboxType, Outstanding, Live, Incarnations, TypeOK
<1>7. ASSUME NEW j \in Job, Submit(j) PROVE TypeInv'
  <2>1. TypeOK'
    BY <1>0, <1>7 DEF Submit, masterState, history, TypeOK
  <2> QED BY <1>0, <1>7, <2>1
          DEF Submit, masterState, TypeInv, HasLife, InboxType, Outstanding, Live, Incarnations
<1>8. ASSUME NEW w \in Worker, WorkerSolicit(w) PROVE TypeInv'
  <2> DEFINE q == [w |-> w, life |-> life[w] + 1, kind |-> "solicit"]
  <2>1. /\ wst[w] = "down" /\ life[w] < MaxLives /\ reqs' = reqs \cup {q}
        /\ UNCHANGED <<masterState, client, inbox, wid, jid, popped, received>>
    BY <1>8 DEF WorkerSolicit, history
  <2>2. /\ \A v \in Worker : wst'[v] = IF v = w THEN "solicit" ELSE wst[v]
        /\ \A v \in Worker : life'[v] = IF v = w THEN life[w] + 1 ELSE life[v]
        /\ wst' \in [Worker -> {"down", "solicit", "ready", "stalled", "poll"}]
        /\ life' \in [Worker -> 0..MaxLives]
    BY <1>0, <1>8, <2>1 DEF WorkerSolicit, TypeOK
  <2>3. q \in Request
    BY <1>0, <2>1 DEF TypeOK, Request
  <2>4. inbox[w] = None
    BY <1>a, <2>1 DEF Awaited
  <2>a. \A v \in Worker : Awaited(v)'
    BY <1>a, <2>1, <2>2, <2>4 DEF Awaited
  <2>5. TypeOK'
    BY <1>0, <2>1, <2>2, <2>3, <2>a DEF TypeOK, masterState, Awaited
  <2>6. Outstanding'
    BY <1>0, <2>1, <2>2, <2>3, <2>4 DEF Outstanding, Live, TypeOK, Request
  <2>7. HasLife'
    <3>1. life[w] \in Nat /\ life[w] + 1 > 0
      BY <1>0 DEF TypeOK
    <3> QED BY <1>0, <2>2, <3>1 DEF HasLife
  <2> QED BY <1>0, <2>1, <2>5, <2>6, <2>7 DEF TypeInv, InboxType, Incarnations, masterState
<1>9. ASSUME NEW w \in Worker, WorkerPoll(w) PROVE TypeInv'
  <2> DEFINE q == [w |-> w, life |-> life[w], kind |-> "poll"]
  <2>1. /\ wst[w] = "ready" /\ reqs' = reqs \cup {q}
        /\ UNCHANGED <<masterState, client, inbox, life, wid, jid, popped, received>>
    BY <1>9 DEF WorkerPoll, history
  <2>2. /\ \A v \in Worker : wst'[v] = IF v = w THEN "poll" ELSE wst[v]
        /\ wst' \in [Worker -> {"down", "solicit", "ready", "stalled", "poll"}]
    BY <1>0, <1>9 DEF WorkerPoll, TypeOK
  <2>3. q \in Request
    <3>1. life[w] \in 0..MaxLives /\ life[w] > 0
      BY <1>0, <2>1 DEF TypeOK, HasLife
    <3>2. life[w] \in 1..MaxLives
      BY <3>1
    <3> QED BY <3>2 DEF Request
  <2>4. inbox[w] = None
    BY <1>a, <2>1 DEF Awaited
  <2>a. \A v \in Worker : Awaited(v)'
    BY <1>a, <2>1, <2>2, <2>4 DEF Awaited
  <2>5. TypeOK'
    BY <1>0, <2>1, <2>2, <2>3, <2>a DEF TypeOK, masterState, Awaited
  <2>6. Outstanding'
    BY <1>0, <2>1, <2>2, <2>3, <2>4 DEF Outstanding, Live, TypeOK, Request
  <2> QED BY <1>0, <2>1, <2>2, <2>5, <2>6 DEF TypeInv, HasLife, InboxType, Incarnations, masterState
<1>10. ASSUME NEW w \in Worker, WorkerAccepted(w) PROVE TypeInv'
  <2>1. /\ wst[w] = "solicit" /\ inbox[w] # None
        /\ UNCHANGED <<masterState, client, reqs, life, jid, popped, received>>
        /\ wid' = [wid EXCEPT ![w] = [id |-> inbox[w].id, inc |-> inbox[w].inc]]
    BY <1>10 DEF WorkerAccepted, history
  <2>2. /\ \A v \in Worker : wst'[v] = IF v = w THEN "ready" ELSE wst[v]
        /\ wst' \in [Worker -> {"down", "solicit", "ready", "stalled", "poll"}]
        /\ \A v \in Worker : inbox'[v] = IF v = w THEN None ELSE inbox[v]
        /\ InboxType'
    BY <1>0, <1>10 DEF WorkerAccepted, TypeOK, InboxType
  <2>3. inbox[w] \in IdReply
    BY <1>0, <1>a, <2>1 DEF Awaited, InboxType, IdReply, JobReply, EmptyReply
  <2>4. wid' \in [Worker -> Id \cup {None}]
    BY <1>0, <2>1, <2>3 DEF TypeOK, IdReply, Id
  <2>5. \A v \in Worker : Awaited(v)'
    BY <1>a, <2>1, <2>2 DEF Awaited
  <2>6. TypeOK'
    BY <1>0, <2>1, <2>2, <2>4, <2>5 DEF TypeOK, masterState, Awaited
  <2>7. Outstanding'
    <3>1. ASSUME NEW q \in reqs PROVE q.w \in Worker /\ q.life <= life[q.w] /\ (q.w = w => ~Live(q))
      BY <1>0, <2>1 DEF Outstanding, TypeOK, Request
    <3> QED BY <1>0, <2>1, <2>2, <3>1 DEF Outstanding, Live
  <2> QED BY <1>0, <2>1, <2>2, <2>6, <2>7 DEF TypeInv, HasLife, Incarnations, masterState
<1>11. ASSUME NEW w \in Worker, WorkerReceives(w) PROVE TypeInv'
  <2>1. /\ wst[w] = "poll" /\ inbox[w] # None
        /\ UNCHANGED <<masterState, client, reqs, life, wid, jid, popped>>
        /\ received' = IF inbox[w].kind = "job" THEN [received EXCEPT ![inbox[w].job] = @ + 1]
                                                ELSE received
    BY <1>11 DEF WorkerReceives
  <2>2. /\ \A v \in Worker : wst'[v] = IF v = w THEN "ready" ELSE wst[v]
        /\ wst' \in [Worker -> {"down", "solicit", "ready", "stalled", "poll"}]
        /\ \A v \in Worker : inbox'[v] = IF v = w THEN None ELSE inbox[v]
        /\ InboxType'
    BY <1>0, <1>11 DEF WorkerReceives, TypeOK, InboxType
  <2>3. received' \in [Job -> Nat]
    <3>1. inbox[w].kind = "job" => inbox[w].job \in Job
      BY <1>a, <2>1 DEF Awaited
    <3>2. received \in [Job -> Nat]
      BY <1>0 DEF TypeOK
    <3> QED BY <2>1, <3>1, <3>2
  <2>5. \A v \in Worker : Awaited(v)'
    BY <1>a, <2>1, <2>2 DEF Awaited
  <2>6. TypeOK'
    BY <1>0, <2>1, <2>2, <2>3, <2>5 DEF TypeOK, masterState, Awaited
  <2>7. Outstanding'
    <3>1. ASSUME NEW q \in reqs PROVE q.w \in Worker /\ q.life <= life[q.w] /\ (q.w = w => ~Live(q))
      BY <1>0, <2>1 DEF Outstanding, TypeOK, Request
    <3> QED BY <1>0, <2>1, <2>2, <3>1 DEF Outstanding, Live
  <2> QED BY <1>0, <2>1, <2>2, <2>6, <2>7 DEF TypeInv, HasLife, Incarnations, masterState
<1>12. ASSUME NEW w \in Worker, WorkerStops(w) PROVE TypeInv'
  <2>1. UNCHANGED <<masterState, client, life, jid, popped, received>> /\ reqs' \subseteq reqs
    BY <1>12 DEF WorkerStops, history
  <2>2. /\ \A v \in Worker : wst'[v] = IF v = w THEN "down" ELSE wst[v]
        /\ wst' \in [Worker -> {"down", "solicit", "ready", "stalled", "poll"}]
        /\ \A v \in Worker : inbox'[v] = IF v = w THEN None ELSE inbox[v]
        /\ InboxType' /\ wid' \in [Worker -> Id \cup {None}]
    BY <1>0, <1>12 DEF WorkerStops, TypeOK, InboxType
  <2>3. \A v \in Worker : Awaited(v)'
    BY <1>a, <2>2 DEF Awaited
  <2>4. TypeOK'
    BY <1>0, <2>1, <2>2, <2>3 DEF TypeOK, masterState, Awaited
  <2>5. Outstanding'
    <3>1. ASSUME NEW q \in reqs
          PROVE  /\ q.w \in Worker /\ q.life <= life[q.w]
                 /\ Live(q) => wst[q.w] = q.kind /\ inbox[q.w] = None
      BY <1>0 DEF Outstanding, TypeOK, Request
    <3> QED BY <2>1, <2>2, <3>1 DEF Outstanding, Live
  <2> QED BY <1>0, <2>1, <2>2, <2>4, <2>5 DEF TypeInv, HasLife, Incarnations, masterState
<1>13. CASE UNCHANGED vars
  BY <1>0, <1>13
     DEF vars, TypeInv, TypeOK, InboxType, Outstanding, Live, Incarnations, HasLife
<1>14. ASSUME NEW w \in Worker, WorkerStalls(w) PROVE TypeInv'
  <2>1. /\ wst[w] = "ready"
        /\ UNCHANGED <<masterState, client, reqs, inbox, life, wid, jid, popped, received>>
    BY <1>14 DEF WorkerStalls, history
  <2>2. /\ \A v \in Worker : wst'[v] = IF v = w THEN "stalled" ELSE wst[v]
        /\ wst' \in [Worker -> {"down", "solicit", "ready", "stalled", "poll"}]
    BY <1>0, <1>14 DEF WorkerStalls, TypeOK
  <2>3. inbox[w] = None
    BY <1>a, <2>1 DEF Awaited
  <2>4. \A v \in Worker : Awaited(v)'
    BY <1>a, <2>1, <2>2, <2>3 DEF Awaited
  <2>5. TypeOK'
    BY <1>0, <2>1, <2>2, <2>4 DEF TypeOK, masterState, Awaited
  <2>6. Outstanding'
    <3>1. ASSUME NEW q \in reqs PROVE q.w \in Worker /\ q.life <= life[q.w] /\ (q.w = w => ~Live(q))
      <4>1. q.w \in Worker /\ q.kind # "ready"
        BY <1>0 DEF TypeOK, Request
      <4>2. q.life <= life[q.w] /\ (Live(q) => wst[q.w] = q.kind)
        BY <1>0 DEF Outstanding
      <4> QED BY <2>1, <4>1, <4>2
    <3> QED BY <1>0, <2>1, <2>2, <3>1 DEF Outstanding, Live
  <2> QED BY <1>0, <2>1, <2>2, <2>5, <2>6 DEF TypeInv, HasLife, InboxType, Incarnations, masterState
<1> QED
  BY <1>1, <1>2, <1>3, <1>4, <1>5, <1>6, <1>7, <1>8, <1>9, <1>10, <1>11, <1>12, <1>13, <1>14
     DEF Next, MasterNext, HandleWorkerRequest, WorkerNext, WorkerLoop

\* The types, and that a reply is only on its way to a process that waits for one
\* of its kind, whatever processes die with requests and replies under way.
THEOREM TypeCorrect == Spec => []TypeOK
<1>1. TypeInv => TypeOK
  BY DEF TypeInv
<1> QED BY <1>1, TypeInit, TypeStep, PTL DEF Spec

-----------------------------------------------------------------------------
(* Job ids.  The counter that the next job gets is in memory while the master is
   up and in LevelDB while it is down, as long as no crash came between. *)

NextId == IF up THEN jobcounter ELSE stored

IdsBelow ==
    \A j \in Job : Accepted(j) =>
        /\ jid[j].epoch <= crashes /\ jid[j].inc <= restarts
        /\ jid[j].epoch = crashes => jid[j].id < NextId

IdInv == TypeInv /\ IdsBelow /\ JobIdsUnique

LEMMA IdStep == IdInv /\ [Next]_vars => IdInv'
<1> SUFFICES ASSUME IdInv, [Next]_vars PROVE (IdsBelow /\ JobIdsUnique)'
  BY TypeStep DEF IdInv
<1>0. TypeOK /\ Incarnations /\ IdsBelow /\ JobIdsUnique
  BY DEF IdInv, TypeInv
<1>a. /\ jid \in [Job -> JobId \cup {None}] /\ jobcounter \in Nat /\ stored \in Nat
      /\ crashes \in Nat /\ restarts \in Nat
  BY <1>0, MasterConstants DEF TypeOK, JobId
<1>b. \A j \in Job : Accepted(j) => jid[j] \in JobId /\ jid[j].id \in Nat /\ jid[j].epoch \in Nat
                                       /\ jid[j].inc \in Nat
  BY <1>a DEF Accepted, JobId
<1>1. ASSUME NEW j \in Job, HandleIncommingJob(j) PROVE (IdsBelow /\ JobIdsUnique)'
  <2>1. /\ up /\ up' = up /\ jobcounter' = jobcounter + 1 /\ UNCHANGED <<restarts, crashes>>
        /\ \A k \in Job : jid'[k] = IF k = j THEN [id |-> jobcounter, inc |-> restarts, epoch |-> crashes]
                                             ELSE jid[k]
    BY <1>1, <1>a DEF HandleIncommingJob
  <2>2. ASSUME NEW k \in Job, k # j, Accepted(k)'
        PROVE  Accepted(k) /\ (jid[k].epoch = crashes => jid[k].id < jobcounter) /\ jid'[k] = jid[k]
    BY <1>0, <2>1, <2>2 DEF IdsBelow, Accepted, NextId
  <2>3. IdsBelow'
    BY <1>0, <1>a, <1>b, <2>1, <2>2 DEF IdsBelow, NextId
  <2>4. JobIdsUnique'
    <3> SUFFICES ASSUME NEW k \in Job, NEW m \in Job, k # m, Accepted(k)', Accepted(m)',
                        jid'[k].epoch = jid'[m].epoch
                 PROVE  jid'[k].id # jid'[m].id
      BY DEF JobIdsUnique
    <3>1. CASE k # j /\ m # j
      BY <1>0, <2>2, <3>1 DEF JobIdsUnique
    <3>2. CASE k = j
      BY <1>a, <1>b, <2>1, <2>2, <3>2
    <3>3. CASE m = j
      BY <1>a, <1>b, <2>1, <2>2, <3>3
    <3> QED BY <3>1, <3>2, <3>3
  <2> QED BY <2>3, <2>4
<1>2. CASE Stop
  <2>1. up /\ ~up' /\ stored' = jobcounter /\ UNCHANGED <<jid, restarts, crashes>>
    BY <1>2 DEF Stop, Forget, history
  <2> QED BY <1>0, <2>1 DEF IdsBelow, JobIdsUnique, Accepted, NextId
<1>3. CASE Crash
  <2>1. crashes' = crashes + 1 /\ UNCHANGED <<jid, restarts>>
    BY <1>3 DEF Crash, history
  <2> QED BY <1>0, <1>a, <1>b, <2>1 DEF IdsBelow, JobIdsUnique, Accepted
<1>4. CASE Start
  <2>1. ~up /\ up' /\ jobcounter' = stored /\ restarts' = restarts + 1 /\ UNCHANGED <<jid, crashes>>
    BY <1>4 DEF Start, history
  <2> QED BY <1>0, <1>a, <1>b, <2>1 DEF IdsBelow, JobIdsUnique, Accepted, NextId
<1>5. CASE UNCHANGED <<up, jobcounter, stored, jid, restarts, crashes>>
  BY <1>0, <1>5 DEF IdsBelow, JobIdsUnique, Accepted, NextId
<1> QED
  BY <1>1, <1>2, <1>3, <1>4, <1>5
     DEF Next, MasterNext, HandleWorkerRequest, HandleSolicit, HandlePollEmpty, HandlePollJob,
         Submit, WorkerNext, WorkerLoop, WorkerSolicit, WorkerAccepted, WorkerPoll,
         WorkerStalls, WorkerReceives, WorkerStops, masterState, history, vars

LEMMA IdInit == Init => IdInv
  BY TypeInit DEF Init, IdInv, IdsBelow, JobIdsUnique, Accepted

\* Two jobs have the same id only if the master crashed between them: storeCounter
\* on a graceful stop is enough, although handleIncommingJob hardly ever stores.
THEOREM JobIdsUniqueTheorem == Spec => []JobIdsUnique
<1>1. IdInv => JobIdsUnique
  BY DEF IdInv
<1> QED BY <1>1, IdInit, IdStep, PTL DEF Spec

-----------------------------------------------------------------------------
(* Worker ids.  An id is issued once per incarnation, and is with one worker: in
   its inbox or taken. *)

InboxId(w) == [id |-> inbox[w].id, inc |-> inbox[w].inc]

Issued(w, x) ==
    (wid[w] # None /\ wid[w] = x) \/ (inbox[w] # None /\ inbox[w].kind = "id" /\ InboxId(w) = x)

IssuedOnce ==
    \A v \in Worker : \A x \in Id :
        Issued(v, x) => /\ x.inc <= restarts
                        /\ up /\ x.inc = restarts => x.id < worker_counter
                        /\ \A w \in Worker : Issued(w, x) => v = w

WorkerIdInv == TypeInv /\ IssuedOnce

LEMMA WorkerIdStep == WorkerIdInv /\ [Next]_vars => WorkerIdInv'
<1> SUFFICES ASSUME WorkerIdInv, [Next]_vars PROVE IssuedOnce'
  BY TypeStep DEF WorkerIdInv
<1>0. TypeInv /\ TypeOK /\ InboxType /\ IssuedOnce
  BY DEF WorkerIdInv, TypeInv
<1>a. restarts \in Nat /\ worker_counter \in Nat /\ \A x \in Id : x.inc \in Nat /\ x.id \in Nat
  BY <1>0, MasterConstants DEF TypeOK, Id
\* Most steps issue no id and go back on none.
<1>b. ASSUME \A w \in Worker : \A x \in Id : Issued(w, x)' => Issued(w, x),
             UNCHANGED <<restarts, up, worker_counter>> \/ (~up' /\ UNCHANGED restarts)
                \/ restarts' = restarts + 1
      PROVE  IssuedOnce'
  BY <1>0, <1>a, <1>b DEF IssuedOnce
<1>1. ASSUME NEW r \in reqs, HandleSolicit(r) PROVE IssuedOnce'
  <2> DEFINE y == [id |-> worker_counter, inc |-> restarts]
             msg == [kind |-> "id", id |-> worker_counter, inc |-> restarts]
  <2>1. /\ up /\ Answer(r, msg) /\ worker_counter' = worker_counter + 1
        /\ UNCHANGED <<up, wid, wst, life, restarts>>
    BY <1>1 DEF HandleSolicit
  <2>2. \A w \in Worker : inbox'[w] = IF w = r.w /\ Live(r) THEN msg ELSE inbox[w]
    BY <1>0, <2>1, AnswerFacts
  <2>3. ASSUME NEW w \in Worker, NEW x \in Id, Issued(w, x)'
        PROVE  Issued(w, x) \/ (x = y /\ w = r.w)
    BY <2>1, <2>2, <2>3 DEF Issued, InboxId
  <2>4. \A w \in Worker : ~Issued(w, y)
    <3>1. y \in Id /\ ~(y.id < worker_counter) /\ y.inc = restarts
      BY <1>0, <1>a DEF TypeOK, Id
    <3> QED BY <1>0, <2>1, <3>1 DEF IssuedOnce
  <2> HIDE DEF y
  <2>5. y.inc = restarts /\ y.id = worker_counter
    BY DEF y
  <2> QED BY <1>0, <1>a, <2>1, <2>3, <2>4, <2>5 DEF IssuedOnce
<1>2. ASSUME NEW r \in reqs, HandlePollEmpty(r) \/ HandlePollJob(r) PROVE IssuedOnce'
  <2>1. PICK msg : Answer(r, msg) /\ msg.kind # "id" /\ UNCHANGED <<up, restarts, worker_counter, wid>>
    BY <1>2 DEF HandlePollEmpty, HandlePollJob, masterState
  <2>2. \A w \in Worker : inbox'[w] = IF w = r.w /\ Live(r) THEN msg ELSE inbox[w]
    BY <1>0, <2>1, AnswerFacts
  <2>3. \A w \in Worker : \A x \in Id : Issued(w, x)' => Issued(w, x)
    BY <2>1, <2>2 DEF Issued, InboxId
  <2> QED BY <1>b, <2>1, <2>3
<1>3. CASE Stop \/ Crash
  <2>1. ~up' /\ UNCHANGED <<wid, restarts>> /\ \A w \in Worker : inbox'[w] \in {inbox[w], None}
    BY <1>3 DEF Stop, Crash, Forget
  <2>2. \A w \in Worker : \A x \in Id : Issued(w, x)' => Issued(w, x)
    BY <2>1 DEF Issued, InboxId
  <2> QED BY <1>b, <2>1, <2>2
<1>4. CASE Start
  <2>1. restarts' = restarts + 1 /\ UNCHANGED <<wid, inbox>>
    BY <1>4 DEF Start, peers
  <2>2. \A w \in Worker : \A x \in Id : Issued(w, x)' => Issued(w, x)
    BY <2>1 DEF Issued, InboxId
  <2> QED BY <1>b, <2>1, <2>2
<1>5. ASSUME NEW w \in Worker, WorkerAccepted(w) PROVE IssuedOnce'
  <2>1. /\ wst[w] = "solicit" /\ inbox[w] # None /\ UNCHANGED <<up, restarts, worker_counter>>
        /\ \A v \in Worker : wid'[v] = IF v = w THEN InboxId(w) ELSE wid[v]
        /\ \A v \in Worker : inbox'[v] = IF v = w THEN None ELSE inbox[v]
    BY <1>0, <1>5 DEF WorkerAccepted, TypeOK, InboxType, InboxId, masterState
  <2>2. inbox[w].kind = "id"
    BY <1>0, <2>1 DEF TypeOK
  <2>3. \A v \in Worker : \A x \in Id : Issued(v, x)' => Issued(v, x)
    BY <2>1, <2>2 DEF Issued, InboxId
  <2> QED BY <1>b, <2>1, <2>3
<1>6. ASSUME NEW w \in Worker, WorkerReceives(w) \/ WorkerStops(w) PROVE IssuedOnce'
  <2>1. /\ UNCHANGED <<up, restarts, worker_counter>>
        /\ \A v \in Worker : wid'[v] \in {wid[v], None}
        /\ \A v \in Worker : inbox'[v] \in {inbox[v], None}
    BY <1>0, <1>6 DEF WorkerReceives, WorkerStops, TypeOK, InboxType, masterState
  <2>2. \A v \in Worker : \A x \in Id : Issued(v, x)' => Issued(v, x)
    BY <2>1 DEF Issued, InboxId
  <2> QED BY <1>b, <2>1, <2>2
<1>7. CASE UNCHANGED <<up, restarts, worker_counter, wid, inbox>>
  <2>1. \A v \in Worker : \A x \in Id : Issued(v, x)' => Issued(v, x)
    BY <1>7 DEF Issued, InboxId
  <2> QED BY <1>b, <1>7, <2>1
<1> QED
  BY <1>1, <1>2, <1>3, <1>4, <1>5, <1>6, <1>7
     DEF Next, MasterNext, HandleWorkerRequest, HandleIncommingJob, Submit, WorkerNext,
         WorkerLoop, WorkerSolicit, WorkerPoll, WorkerStalls, masterState, vars

\* Workers that got their ids from the same incarnation of the master have different
\* ids, though workers die and their ids and replies are lost.
THEOREM WorkerIdsUniqueTheorem == Spec => []WorkerIdsUnique
<1>1. Init => WorkerIdInv
  BY TypeInit DEF Init, WorkerIdInv, IssuedOnce, Issued, Id
<1>2. WorkerIdInv => WorkerIdsUnique
  BY DEF WorkerIdInv, TypeInv, TypeOK, IssuedOnce, Issued, WorkerIdsUnique
<1> QED BY <1>1, <1>2, WorkerIdStep, PTL DEF Spec

-----------------------------------------------------------------------------
(* The queue.  It holds jobs of this incarnation that were never handed out, in
   the order of their ids; those handed out came before them. *)

Recent(j) == up /\ Accepted(j) /\ jid[j].inc = restarts

QueuedFresh ==
    \A k \in 1..Len(jobqueue) :
        /\ client[jobqueue[k]] = "accepted" /\ popped[jobqueue[k]] = 0
        /\ jid[jobqueue[k]] \in JobId /\ jid[jobqueue[k]].inc = restarts
        /\ jid[jobqueue[k]].id < jobcounter

QueueSorted ==
    \A m, n \in 1..Len(jobqueue) : m < n => jid[jobqueue[m]].id < jid[jobqueue[n]].id

TakenFirst ==
    \A j \in Job : Recent(j) =>
        /\ jid[j].id < jobcounter
        /\ popped[j] = 0 => InQueue(j)
        /\ popped[j] > 0 => \A k \in 1..Len(jobqueue) : jid[j].id < jid[jobqueue[k]].id

KnownAreAccepted == \A j \in Job : Accepted(j) \/ popped[j] > 0 => client[j] = "accepted"

OrderParts == QueuedFresh /\ QueueSorted /\ TakenFirst /\ KnownAreAccepted

OrderInv == IdInv /\ OrderParts

LEMMA OrderStep == OrderInv /\ [Next]_vars => OrderInv'
<1> SUFFICES ASSUME OrderInv, [Next]_vars PROVE OrderParts'
  BY IdStep DEF OrderInv
<1>0. TypeInv /\ TypeOK /\ Incarnations /\ IdsBelow /\ OrderParts
  BY DEF OrderInv, IdInv, TypeInv
<1>a. /\ jid \in [Job -> JobId \cup {None}] /\ jobcounter \in Nat /\ restarts \in Nat
      /\ jobqueue \in Seq(Job) /\ Len(jobqueue) \in Nat /\ popped \in [Job -> Nat]
      /\ \A k \in 1..Len(jobqueue) : jobqueue[k] \in Job
      /\ \A x \in JobId : x.id \in Nat /\ x.inc \in Nat
  BY <1>0, MasterConstants DEF TypeOK, JobId
<1>b. \A j \in Job : Accepted(j) => jid[j] \in JobId
  BY <1>a DEF Accepted
<1>1. ASSUME NEW r \in reqs, HandlePollJob(r) PROVE OrderParts'
  <2> DEFINE h == Head(jobqueue)
             n == Len(jobqueue)
  <2>1. /\ jobqueue # <<>> /\ jobqueue' = Tail(jobqueue) /\ up
        /\ popped' = [popped EXCEPT ![h] = @ + 1]
        /\ UNCHANGED <<up, jobcounter, client, jid, restarts>>
    BY <1>1 DEF HandlePollJob
  <2>2. /\ n \in Nat \ {0} /\ h = jobqueue[1] /\ Len(jobqueue') = n - 1
        /\ \A k \in 1..(n - 1) : jobqueue'[k] = jobqueue[k + 1] /\ k + 1 \in 1..n /\ 1 < k + 1
        /\ 1 \in 1..n
    BY <1>a, <2>1
  <2>3. \A j \in Job : popped'[j] = IF j = h THEN popped[h] + 1 ELSE popped[j]
    BY <1>a, <2>1
  <2> HIDE DEF h, n
  <2>4. \A k \in 1..(n - 1) : jid[h].id < jid[jobqueue'[k]].id /\ jobqueue'[k] # h
                                /\ jobqueue'[k] \in Job
    <3> TAKE k \in 1..(n - 1)
    <3>1. jobqueue'[k] = jobqueue[k + 1] /\ jid[jobqueue[1]].id < jid[jobqueue[k + 1]].id
          /\ jobqueue[k + 1] \in Job
      BY <1>0, <1>a, <2>2 DEF OrderParts, QueueSorted, n
    <3>2. jid[h].id \in Nat
      BY <1>0, <1>a, <2>2 DEF OrderParts, QueuedFresh, n
    <3> QED BY <2>2, <3>1, <3>2
  <2>5. QueuedFresh'
    BY <1>0, <2>1, <2>2, <2>3, <2>4 DEF OrderParts, QueuedFresh, n
  <2>6. QueueSorted'
    <3> SUFFICES ASSUME NEW a \in 1..(n - 1), NEW b \in 1..(n - 1), a < b
                 PROVE  jid[jobqueue'[a]].id < jid[jobqueue'[b]].id
      BY <2>1, <2>2 DEF QueueSorted
    <3>1. a + 1 \in 1..n /\ b + 1 \in 1..n /\ a + 1 < b + 1
      BY <2>2
    <3>2. jid[jobqueue[a + 1]].id < jid[jobqueue[b + 1]].id
      BY <1>0, <3>1 DEF OrderParts, QueueSorted, n
    <3> QED BY <2>2, <3>2
  <2>7. TakenFirst'
    <3> SUFFICES ASSUME NEW j \in Job, Recent(j)
                 PROVE  /\ jid[j].id < jobcounter
                        /\ popped'[j] = 0 => InQueue(j)'
                        /\ popped'[j] > 0 => \A k \in 1..(n - 1) : jid[j].id < jid[jobqueue'[k]].id
      BY <2>1, <2>2 DEF TakenFirst, Recent, Accepted
    <3>1. /\ jid[j].id < jobcounter /\ (popped[j] = 0 => InQueue(j))
          /\ popped[j] > 0 => \A k \in 1..n : jid[j].id < jid[jobqueue[k]].id
      BY <1>0 DEF OrderParts, TakenFirst, n
    <3>2. CASE j = h
      BY <1>a, <2>3, <2>4, <3>1, <3>2
    <3>3. CASE j # h
      <4>1. popped'[j] = popped[j]
        BY <2>3, <3>3
      <4>2. ASSUME InQueue(j) PROVE InQueue(j)'
        <5>1. PICK i \in 1..n : jobqueue[i] = j
          BY <4>2 DEF InQueue, n
        <5>2. i # 1 /\ i - 1 \in 1..(n - 1) /\ (i - 1) + 1 = i
          BY <2>2, <3>3, <5>1
        <5>3. jobqueue'[i - 1] = j /\ i - 1 \in 1..Len(jobqueue')
          BY <2>2, <5>1, <5>2
        <5> QED BY <5>3 DEF InQueue
      <4> QED BY <2>2, <3>1, <4>1, <4>2
    <3> QED BY <3>2, <3>3
  <2>8. KnownAreAccepted'
    <3>1. client[h] = "accepted"
      BY <1>0, <2>2 DEF OrderParts, QueuedFresh, n
    <3> QED BY <1>0, <2>1, <2>3, <3>1 DEF OrderParts, KnownAreAccepted, Accepted
  <2> QED BY <2>5, <2>6, <2>7, <2>8 DEF OrderParts
<1>2. ASSUME NEW j \in Job, HandleIncommingJob(j) PROVE OrderParts'
  <2> DEFINE n == Len(jobqueue)
             x == [id |-> jobcounter, inc |-> restarts, epoch |-> crashes]
  <2>1. /\ up /\ client[j] = "sent" /\ jobqueue' = Append(jobqueue, j) /\ jobcounter' = jobcounter + 1
        /\ UNCHANGED <<up, popped, restarts>>
        /\ \A k \in Job : jid'[k] = IF k = j THEN x ELSE jid[k]
        /\ \A k \in Job : client'[k] = IF k = j THEN "accepted" ELSE client[k]
    BY <1>0, <1>2, <1>a DEF HandleIncommingJob, TypeOK
  <2>2. x \in JobId /\ x.id = jobcounter /\ x.inc = restarts
    BY <1>0, <1>a DEF TypeOK, JobId
  <2>3. /\ Len(jobqueue') = n + 1 /\ jobqueue'[n + 1] = j /\ n \in Nat
        /\ \A k \in 1..n : jobqueue'[k] = jobqueue[k] /\ jobqueue[k] \in Job
    BY <1>a, <2>1
  <2>4. popped[j] = 0 /\ ~Accepted(j) /\ \A k \in 1..n : jobqueue[k] # j
    BY <1>0, <1>a, <2>1 DEF OrderParts, KnownAreAccepted, QueuedFresh
  <2> HIDE DEF n, x
  <2>5. \A k \in 1..(n + 1) : k = n + 1 \/ k \in 1..n
    BY <2>3
  <2>6. ASSUME NEW k \in 1..n
        PROVE  /\ client[jobqueue[k]] = "accepted" /\ popped[jobqueue[k]] = 0
               /\ jid[jobqueue[k]] \in JobId /\ jid[jobqueue[k]].inc = restarts
               /\ jid[jobqueue[k]].id < jobcounter /\ jid[jobqueue[k]].id \in Nat
               /\ jid'[jobqueue'[k]] = jid[jobqueue[k]] /\ client'[jobqueue'[k]] = "accepted"
    BY <1>0, <1>a, <2>1, <2>3, <2>4 DEF OrderParts, QueuedFresh, n
  <2>7. QueuedFresh'
    <3> SUFFICES ASSUME NEW k \in 1..(n + 1)
                 PROVE  /\ client'[jobqueue'[k]] = "accepted" /\ popped[jobqueue'[k]] = 0
                        /\ jid'[jobqueue'[k]] \in JobId /\ jid'[jobqueue'[k]].inc = restarts
                        /\ jid'[jobqueue'[k]].id < jobcounter + 1
      BY <2>1, <2>3 DEF QueuedFresh
    <3>1. CASE k = n + 1
      <4>1. jobqueue'[k] = j
        BY <2>3, <3>1
      <4>2. jid'[j] = x /\ client'[j] = "accepted"
        BY <2>1
      <4>3. x.id < jobcounter + 1
        BY <1>a, <2>2
      <4> QED BY <2>2, <2>4, <4>1, <4>2, <4>3
    <3>2. CASE k \in 1..n
      <4>1. jobqueue'[k] = jobqueue[k]
        BY <2>3, <3>2
      <4>2. jid[jobqueue[k]].id < jobcounter + 1
        BY <1>a, <2>6, <3>2
      <4> QED BY <2>6, <3>2, <4>1, <4>2
    <3> QED BY <2>5, <3>1, <3>2
  <2>8. QueueSorted'
    <3> SUFFICES ASSUME NEW a \in 1..(n + 1), NEW b \in 1..(n + 1), a < b
                 PROVE  jid'[jobqueue'[a]].id < jid'[jobqueue'[b]].id
      BY <2>3 DEF QueueSorted
    <3>1. a \in 1..n
      BY <2>3
    <3>2. CASE b = n + 1
      BY <2>1, <2>2, <2>3, <2>6, <3>1, <3>2
    <3>3. CASE b \in 1..n
      BY <1>0, <2>6, <3>1, <3>3 DEF OrderParts, QueueSorted, n
    <3> QED BY <2>5, <3>2, <3>3
  <2>9. TakenFirst'
    <3> SUFFICES ASSUME NEW i \in Job, Recent(i)'
                 PROVE  /\ jid'[i].id < jobcounter + 1
                        /\ popped[i] = 0 => InQueue(i)'
                        /\ popped[i] > 0 => \A k \in 1..(n + 1) : jid'[i].id < jid'[jobqueue'[k]].id
      BY <2>1, <2>3 DEF TakenFirst
    <3>1. CASE i = j
      <4>1. InQueue(j)'
        <5>1. n + 1 \in 1..Len(jobqueue') /\ jobqueue'[n + 1] = j
          BY <2>3
        <5> QED BY <5>1 DEF InQueue
      <4> QED BY <1>a, <2>1, <2>2, <2>4, <3>1, <4>1
    <3>2. CASE i # j
      <4>1. Recent(i) /\ jid'[i] = jid[i] /\ jid[i].id \in Nat
        BY <1>a, <1>b, <2>1, <3>2 DEF Recent, Accepted
      <4>2. /\ jid[i].id < jobcounter /\ (popped[i] = 0 => InQueue(i))
            /\ popped[i] > 0 => \A k \in 1..n : jid[i].id < jid[jobqueue[k]].id
        BY <1>0, <4>1 DEF OrderParts, TakenFirst, n
      <4>3. InQueue(i) => InQueue(i)'
        BY <2>3 DEF InQueue, n
      <4>4. jid'[jobqueue'[n + 1]].id = jobcounter
        BY <2>1, <2>2, <2>3
      <4>5. ASSUME popped[i] > 0, NEW k \in 1..(n + 1) PROVE jid'[i].id < jid'[jobqueue'[k]].id
        BY <2>5, <2>6, <4>1, <4>2, <4>4, <4>5
      <4>6. jid'[i].id < jobcounter + 1
        BY <1>a, <4>1, <4>2
      <4> QED BY <4>2, <4>3, <4>5, <4>6
    <3> QED BY <3>1, <3>2
  <2>10. KnownAreAccepted'
    BY <1>0, <2>1, <2>4 DEF OrderParts, KnownAreAccepted, Accepted
  <2> QED BY <2>7, <2>8, <2>9, <2>10 DEF OrderParts
<1>3. CASE Stop \/ Crash
  <2>1. ~up' /\ jobqueue' = <<>> /\ UNCHANGED <<jid, popped, restarts>>
    BY <1>3 DEF Stop, Crash, Forget, history
  <2>2. \A j \in Job : client[j] = "accepted" => client'[j] = "accepted"
    BY <1>3 DEF Stop, Crash, LoseRequests
  <2> QED BY <1>0, <2>1, <2>2
          DEF OrderParts, QueuedFresh, QueueSorted, TakenFirst, Recent, KnownAreAccepted, Accepted
<1>4. CASE Start
  <2>1. /\ ~up /\ restarts' = restarts + 1 /\ jobqueue = <<>>
        /\ UNCHANGED <<jobqueue, jid, popped, client>>
    BY <1>0, <1>4 DEF Start, Incarnations, peers, history
  <2>2. \A j \in Job : ~Recent(j)'
    BY <1>0, <1>a, <1>b, <2>1 DEF IdsBelow, Recent, Accepted
  <2> QED BY <1>0, <2>1, <2>2
          DEF OrderParts, QueuedFresh, QueueSorted, TakenFirst, KnownAreAccepted, Accepted
<1>5. ASSUME NEW j \in Job, Submit(j) PROVE OrderParts'
  <2>1. /\ UNCHANGED <<up, jobqueue, jid, popped, restarts, jobcounter>>
        /\ \A k \in Job : client[k] = "accepted" => client'[k] = "accepted"
    BY <1>0, <1>5 DEF Submit, masterState, history, TypeOK
  <2> QED BY <1>0, <1>a, <2>1 DEF OrderParts, QueuedFresh, QueueSorted, TakenFirst, Recent,
                            KnownAreAccepted, Accepted, InQueue
<1>6. CASE UNCHANGED <<up, jobqueue, jid, popped, restarts, client, jobcounter>>
  BY <1>0, <1>6 DEF OrderParts, QueuedFresh, QueueSorted, TakenFirst, Recent,
                    KnownAreAccepted, Accepted, InQueue
<1> QED
  BY <1>1, <1>2, <1>3, <1>4, <1>5, <1>6
     DEF Next, MasterNext, HandleWorkerRequest, HandleSolicit, HandlePollEmpty,
         WorkerNext, WorkerLoop, WorkerSolicit, WorkerAccepted, WorkerPoll,
         WorkerStalls, WorkerReceives, WorkerStops, masterState, history, vars

LEMMA OrderInit == Init => OrderInv
  BY IdInit DEF Init, OrderInv, OrderParts, QueuedFresh, QueueSorted, TakenFirst, Recent,
                KnownAreAccepted, Accepted

\* The master hands jobs out in the order it accepted them, across any mix of
\* deaths: the queue is in order of ids, behind every job of this master that left.
THEOREM HandedOutInOrderTheorem == Spec => []HandedOutInOrder
<1>1. OrderInv => HandedOutInOrder
  BY DEF OrderInv, IdInv, TypeInv, TypeOK, OrderParts, QueueSorted, TakenFirst, Recent,
         InQueue, HandedOutInOrder
<1> QED BY <1>1, OrderInit, OrderStep, PTL DEF Spec

-----------------------------------------------------------------------------
(* Delivery.  A job is taken off the queue once, and its reply goes to one worker. *)

Carries(w, j) == inbox[w] # None /\ inbox[w].kind = "job" /\ inbox[w].job = j

CarriedOnce ==
    \A j \in Job :
        /\ received[j] + (IF OnItsWay(j) THEN 1 ELSE 0) <= popped[j]
        /\ popped[j] <= 1
        /\ \A v, w \in Worker : Carries(v, j) /\ Carries(w, j) => v = w

OnceInv == OrderInv /\ CarriedOnce

\* A step that moves no job: nothing is popped or received, and a worker carries a
\* job only if it did before.
LEMMA NothingMoves ==
    ASSUME OnceInv, UNCHANGED <<popped, received>>,
           \A w \in Worker, j \in Job : Carries(w, j)' => Carries(w, j)
    PROVE  CarriedOnce'
<1>1. \A j \in Job : OnItsWay(j)' => OnItsWay(j)
  BY DEF OnItsWay, Carries
<1>2. \A j \in Job : received[j] \in Nat /\ popped[j] \in Nat
  BY DEF OnceInv, OrderInv, IdInv, TypeInv, TypeOK
<1> QED BY <1>1, <1>2 DEF OnceInv, CarriedOnce

LEMMA OnceStep == OnceInv /\ [Next]_vars => OnceInv'
<1> SUFFICES ASSUME OnceInv, [Next]_vars PROVE CarriedOnce'
  BY OrderStep DEF OnceInv
<1>0. TypeInv /\ TypeOK /\ InboxType /\ Outstanding /\ OrderParts /\ CarriedOnce
  BY DEF OnceInv, OrderInv, IdInv, TypeInv
<1>a. received \in [Job -> Nat] /\ popped \in [Job -> Nat]
  BY <1>0 DEF TypeOK
<1>1. ASSUME NEW r \in reqs, HandlePollJob(r) PROVE CarriedOnce'
  <2>0. PICK h \in Job : h = Head(jobqueue)
    BY <1>0, <1>1 DEF HandlePollJob, TypeOK
  <2> DEFINE msg == [kind |-> "job", job |-> h]
  <2>1. Answer(r, msg) /\ jobqueue # <<>> /\ received' = received
    BY <1>1, <2>0 DEF HandlePollJob
  <2>2. h \in Job /\ popped[h] = 0
    BY <1>0, <2>0, <2>1 DEF TypeOK, OrderParts, QueuedFresh
  <2>3. \A j \in Job : popped'[j] = IF j = h THEN 1 ELSE popped[j]
    BY <1>1, <1>a, <2>0, <2>2 DEF HandlePollJob
  <2>4. \A w \in Worker : inbox'[w] = IF w = r.w /\ Live(r) THEN msg ELSE inbox[w]
    BY <1>0, <2>1, AnswerFacts
  <2>5. received[h] = 0 /\ ~OnItsWay(h)
    BY <1>0, <1>a, <2>2 DEF CarriedOnce
  <2>a. \A w \in Worker : ~Carries(w, h)
    BY <2>5 DEF OnItsWay, Carries
  <2>b. \A w \in Worker : w # r.w => inbox'[w] = inbox[w]
    BY <2>4
  <2>6. \A w \in Worker : Carries(w, h)' => w = r.w
    <3> SUFFICES ASSUME NEW w \in Worker, w # r.w PROVE ~Carries(w, h)'
      OBVIOUS
    <3>1. inbox'[w] = inbox[w] /\ ~Carries(w, h)
      BY <2>a, <2>b
    <3> QED BY <3>1 DEF Carries
  <2>7. \A w \in Worker, j \in Job : j # h /\ Carries(w, j)' => Carries(w, j)
    BY <2>4 DEF Carries
  <2>8. \A j \in Job : j # h /\ OnItsWay(j)' => OnItsWay(j)
    BY <2>7 DEF OnItsWay, Carries
  <2>9. ASSUME NEW j \in Job
        PROVE  /\ received'[j] + (IF OnItsWay(j)' THEN 1 ELSE 0) <= popped'[j]
               /\ popped'[j] <= 1
               /\ \A v, w \in Worker : Carries(v, j)' /\ Carries(w, j)' => v = w
    <3>1. CASE j = h
      <4>1. received'[j] = 0 /\ popped'[j] = 1
        BY <2>1, <2>2, <2>3, <2>5, <3>1
      <4>2. \A v, w \in Worker : Carries(v, j)' /\ Carries(w, j)' => v = w
        BY <2>6, <3>1
      <4> QED BY <4>1, <4>2
    <3>2. CASE j # h
      BY <1>0, <1>a, <2>1, <2>3, <2>7, <2>8, <3>2 DEF CarriedOnce
    <3> QED BY <3>1, <3>2
  <2> QED BY <2>9 DEF CarriedOnce
<1>2. ASSUME NEW r \in reqs, HandleSolicit(r) \/ HandlePollEmpty(r) PROVE CarriedOnce'
  <2>1. PICK msg : Answer(r, msg) /\ msg.kind # "job" /\ UNCHANGED <<popped, received>>
    BY <1>2 DEF HandleSolicit, HandlePollEmpty, history
  <2>2. \A w \in Worker : inbox'[w] = IF w = r.w /\ Live(r) THEN msg ELSE inbox[w]
    BY <1>0, <2>1, AnswerFacts
  <2>3. \A w \in Worker, j \in Job : Carries(w, j)' => Carries(w, j)
    BY <2>1, <2>2 DEF Carries
  <2> QED BY <2>1, <2>3, NothingMoves
<1>3. ASSUME NEW w \in Worker, WorkerReceives(w) PROVE CarriedOnce'
  <2>1. /\ inbox[w] # None /\ UNCHANGED popped
        /\ \A v \in Worker : inbox'[v] = IF v = w THEN None ELSE inbox[v]
        /\ received' = IF inbox[w].kind = "job" THEN [received EXCEPT ![inbox[w].job] = @ + 1]
                                                ELSE received
    BY <1>0, <1>3 DEF WorkerReceives, InboxType
  <2>2. \A v \in Worker, j \in Job : Carries(v, j)' => Carries(v, j) /\ v # w
    BY <2>1 DEF Carries
  <2>3. CASE inbox[w].kind # "job"
    BY <2>1, <2>2, <2>3, NothingMoves
  <2>4. CASE inbox[w].kind = "job"
    <3>1. PICK h \in Job : h = inbox[w].job
      BY <1>0, <2>1, <2>4 DEF TypeOK
    <3>2. \A j \in Job : received'[j] = IF j = h THEN received[h] + 1 ELSE received[j]
      BY <1>a, <2>1, <2>4, <3>1
    <3>3. Carries(w, h) /\ OnItsWay(h)
      BY <2>1, <2>4, <3>1 DEF Carries, OnItsWay
    <3>4. ~OnItsWay(h)'
      <4>1. \A v \in Worker : Carries(v, h) => v = w
        BY <1>0, <3>1, <3>3 DEF CarriedOnce
      <4>2. \A v \in Worker : ~Carries(v, h)'
        BY <2>2, <3>1, <4>1
      <4> QED BY <4>2 DEF OnItsWay, Carries
    <3>5. \A j \in Job : OnItsWay(j)' => OnItsWay(j)
      BY <2>2 DEF OnItsWay, Carries
    <3>6. ASSUME NEW j \in Job
          PROVE  /\ received'[j] + (IF OnItsWay(j)' THEN 1 ELSE 0) <= popped'[j]
                 /\ popped'[j] <= 1
                 /\ \A u, v \in Worker : Carries(u, j)' /\ Carries(v, j)' => u = v
      <4>1. CASE j = h
        <5>1. received[j] + 1 <= popped[j] /\ popped[j] <= 1
          BY <1>0, <3>1, <3>3, <4>1 DEF CarriedOnce
        <5>2. received'[j] = received[j] + 1 /\ popped'[j] = popped[j] /\ ~OnItsWay(j)'
          BY <2>1, <3>2, <3>4, <4>1
        <5>3. received'[j] + (IF OnItsWay(j)' THEN 1 ELSE 0) <= popped'[j] /\ popped'[j] <= 1
          BY <1>a, <5>1, <5>2
        <5>4. \A u, v \in Worker : Carries(u, j)' /\ Carries(v, j)' => u = v
          BY <1>0, <2>2 DEF CarriedOnce
        <5> QED BY <5>3, <5>4
      <4>2. CASE j # h
        BY <1>0, <1>a, <2>1, <2>2, <3>2, <3>5, <4>2 DEF CarriedOnce
      <4> QED BY <4>1, <4>2
    <3> QED BY <3>6 DEF CarriedOnce
  <2> QED BY <2>3, <2>4
<1>4. ASSUME NEW w \in Worker, WorkerStops(w) \/ WorkerAccepted(w) PROVE CarriedOnce'
  <2>1. UNCHANGED <<popped, received>> /\ \A v \in Worker : inbox'[v] \in {inbox[v], None}
    BY <1>0, <1>4 DEF WorkerStops, WorkerAccepted, InboxType, history
  <2>2. \A v \in Worker, j \in Job : Carries(v, j)' => Carries(v, j)
    BY <2>1 DEF Carries
  <2> QED BY <2>1, <2>2, NothingMoves
<1>5. CASE Stop \/ Crash
  <2>1. UNCHANGED <<popped, received>> /\ \A v \in Worker : inbox'[v] \in {inbox[v], None}
    BY <1>0, <1>5 DEF Stop, Crash, history
  <2>2. \A v \in Worker, j \in Job : Carries(v, j)' => Carries(v, j)
    BY <2>1 DEF Carries
  <2> QED BY <2>1, <2>2, NothingMoves
<1>6. CASE UNCHANGED <<popped, received, inbox>>
  <2>1. \A v \in Worker, j \in Job : Carries(v, j)' => Carries(v, j)
    BY <1>6 DEF Carries
  <2> QED BY <1>6, <2>1, NothingMoves
<1> QED
  BY <1>1, <1>2, <1>3, <1>4, <1>5, <1>6
     DEF Next, MasterNext, HandleWorkerRequest, HandleIncommingJob, Start, Submit,
         WorkerNext, WorkerLoop, WorkerSolicit, WorkerPoll, WorkerStalls, peers, history, vars

LEMMA OnceInit == Init => OnceInv
<1> SUFFICES ASSUME Init PROVE CarriedOnce
  BY OrderInit DEF OnceInv
<1>1. \A w \in Worker : inbox[w] = None
  BY DEF Init
<1>2. \A j \in Job : ~OnItsWay(j) /\ received[j] = 0 /\ popped[j] = 0
  BY <1>1 DEF Init, OnItsWay
<1> QED BY <1>1, <1>2 DEF CarriedOnce, Carries

\* No job is given to two workers, and one the running master has accepted is either
\* queued or was taken off the queue once, for any jobs, workers and deaths.
THEOREM HandedOutOnceTheorem == Spec => []HandedOutOnce
<1>1. ASSUME OnceInv PROVE HandedOutOnce
  <2>1. CarriedOnce /\ QueuedFresh /\ TakenFirst /\ TypeOK
    BY <1>1 DEF OnceInv, OrderInv, OrderParts, IdInv, TypeInv
  <2>2. ASSUME NEW j \in Job, up, Accepted(j), jid[j].inc = restarts
        PROVE  InQueue(j) <=> popped[j] = 0
    BY <2>1, <2>2 DEF QueuedFresh, TakenFirst, Recent, InQueue, TypeOK
  <2> QED BY <2>1, <2>2 DEF CarriedOnce, HandedOutOnce
<1> QED BY <1>1, OnceInit, OnceStep, PTL DEF Spec

-----------------------------------------------------------------------------
(* What a death costs.  A job is lost with its worker, or later, when the     *)
(* master answers a request that the dead worker left behind.                 *)

Stale == {r \in reqs : ~Live(r)}

\* Each process that ended pays for one lost job or for one request it left.
DeathsPay == crashes = 0 => Cardinality(LostJobs) + Cardinality(Stale) <= Cardinality(Ended)

DeathInv == OnceInv /\ IsFiniteSet(reqs) /\ DeathsPay

LEMMA Finite ==
    /\ IsFiniteSet(LostJobs) /\ IsFiniteSet(Ended)
    /\ IsFiniteSet(reqs) => IsFiniteSet(Stale)
<1>0. IsFiniteSet(1..MaxLives) /\ IsFiniteSet(Worker) /\ IsFiniteSet(Job)
  BY MasterConstants, FS_Interval
<1>1. IsFiniteSet(Worker \X (1..MaxLives)) /\ IsFiniteSet(Job)
  BY <1>0, FS_Product
<1>2. LostJobs \subseteq Job /\ Ended \subseteq Worker \X (1..MaxLives) /\ Stale \subseteq reqs
  BY DEF LostJobs, Ended, Stale
<1> QED BY <1>1, <1>2, FS_Subset

\* A step in which no process ends, no job is lost and no request is left behind.
LEMMA NothingLost ==
    ASSUME DeathInv, IsFiniteSet(reqs'), crashes' = crashes,
           LostJobs' \subseteq LostJobs, Stale' \subseteq Stale, Ended' = Ended
    PROVE  DeathsPay'
<1>1. IsFiniteSet(LostJobs) /\ IsFiniteSet(Stale) /\ IsFiniteSet(Ended)
  BY Finite DEF DeathInv
<1>2. /\ Cardinality(LostJobs') <= Cardinality(LostJobs) /\ Cardinality(Stale') <= Cardinality(Stale)
      /\ IsFiniteSet(LostJobs') /\ IsFiniteSet(Stale')
  BY <1>1, FS_Subset
<1>3. /\ Cardinality(LostJobs') \in Nat /\ Cardinality(Stale') \in Nat
      /\ Cardinality(LostJobs) \in Nat /\ Cardinality(Stale) \in Nat /\ Cardinality(Ended) \in Nat
  BY <1>1, <1>2, FS_CardinalityType
<1>4. Cardinality(Ended)' = Cardinality(Ended)
  OBVIOUS
<1> QED BY <1>2, <1>3, <1>4 DEF DeathInv, DeathsPay

\* Replies are only lost when they are taken out of an inbox.
LEMMA LostKept ==
    ASSUME UNCHANGED <<popped, received>>,
           \A w \in Worker, j \in Job : Carries(w, j) => Carries(w, j)'
    PROVE  LostJobs' \subseteq LostJobs
<1>1. \A j \in Job : OnItsWay(j) => OnItsWay(j)'
  BY DEF OnItsWay, Carries
<1> QED BY <1>1 DEF LostJobs

LEMMA DeathStep == DeathInv /\ [Next]_vars => DeathInv'
<1> SUFFICES ASSUME DeathInv, [Next]_vars PROVE IsFiniteSet(reqs') /\ DeathsPay'
  BY OnceStep DEF DeathInv
<1>0. TypeInv /\ TypeOK /\ InboxType /\ Outstanding /\ OrderParts /\ CarriedOnce /\ HasLife
  BY DEF DeathInv, OnceInv, OrderInv, IdInv, TypeInv
<1>a. received \in [Job -> Nat] /\ popped \in [Job -> Nat] /\ reqs \subseteq Request
  BY <1>0 DEF TypeOK
<1>b. IsFiniteSet(reqs) /\ DeathsPay
  BY DEF DeathInv
<1>c. reqs' \subseteq reqs => IsFiniteSet(reqs')
  BY <1>b, FS_Subset
<1>d. IsFiniteSet(LostJobs) /\ IsFiniteSet(Stale) /\ IsFiniteSet(Ended)
  BY <1>b, Finite
<1>e. Cardinality(LostJobs) \in Nat /\ Cardinality(Stale) \in Nat /\ Cardinality(Ended) \in Nat
  BY <1>d, FS_CardinalityType
<1>1. ASSUME NEW r \in reqs, HandlePollJob(r) PROVE IsFiniteSet(reqs') /\ DeathsPay'
  <2>0. PICK h \in Job : h = Head(jobqueue)
    BY <1>0, <1>1 DEF HandlePollJob, TypeOK
  <2> DEFINE msg == [kind |-> "job", job |-> h]
  <2>1. Answer(r, msg) /\ jobqueue # <<>> /\ UNCHANGED <<received, wst, life, crashes>>
    BY <1>1, <2>0 DEF HandlePollJob
  <2>2. \A j \in Job : popped'[j] = IF j = h THEN popped[h] + 1 ELSE popped[j]
    BY <1>1, <1>a, <2>0 DEF HandlePollJob
  <2>3. /\ reqs' = reqs \ {r} /\ r \in Request
        /\ \A w \in Worker : inbox'[w] = IF w = r.w /\ Live(r) THEN msg ELSE inbox[w]
    BY <1>0, <2>1, AnswerFacts
  <2>4. IsFiniteSet(reqs') /\ Ended' = Ended /\ Stale' = Stale \ {r}
    BY <1>c, <2>1, <2>3 DEF Ended, Stale, Live
  <2>5. Live(r) => inbox[r.w] = None
    BY <1>0 DEF Outstanding
  <2>6. \A j \in Job, w \in Worker : Carries(w, j) => Carries(w, j)'
    BY <2>3, <2>5 DEF Carries
  <2>7. \A j \in Job : OnItsWay(j) => OnItsWay(j)'
    BY <2>6 DEF OnItsWay, Carries
  <2>8. \A j \in Job : j # h /\ j \in LostJobs' => j \in LostJobs
    BY <2>1, <2>2, <2>7 DEF LostJobs
  <2>9. CASE Live(r)
    <3>1. r.w \in Worker /\ inbox'[r.w] = msg
      BY <2>3, <2>9 DEF Request
    <3>2. msg # None
      BY MasterConstants
    <3>3. OnItsWay(h)'
      BY <3>1, <3>2 DEF OnItsWay
    <3>4. LostJobs' \subseteq LostJobs
      BY <2>8, <3>3 DEF LostJobs
    <3> QED BY <2>1, <2>4, <3>4, NothingLost
  <2>10. CASE ~Live(r)
    <3>1. r \in Stale /\ IsFiniteSet(Stale')
      BY <1>d, <2>4, <2>10, FS_RemoveElement DEF Stale
    <3>2. Cardinality(Stale') = Cardinality(Stale) - 1
      BY <1>d, <2>4, <3>1, FS_RemoveElement
    <3>3. LostJobs' \subseteq LostJobs \cup {h}
      BY <2>8 DEF LostJobs
    <3>4. Cardinality(LostJobs') <= Cardinality(LostJobs) + 1 /\ Cardinality(LostJobs') \in Nat
      BY <1>d, <3>3, OneMore
    <3>5. Cardinality(Ended') = Cardinality(Ended)
      BY <2>4
    <3> QED BY <1>b, <1>e, <2>1, <2>4, <3>2, <3>4, <3>5 DEF DeathsPay
  <2> QED BY <2>9, <2>10
<1>2. ASSUME NEW r \in reqs, HandleSolicit(r) \/ HandlePollEmpty(r)
      PROVE  IsFiniteSet(reqs') /\ DeathsPay'
  <2>1. PICK msg : Answer(r, msg) /\ UNCHANGED <<popped, received, wst, life, crashes>>
    BY <1>2 DEF HandleSolicit, HandlePollEmpty, history, masterState
  <2>2. /\ reqs' = reqs \ {r} /\ r \in Request
        /\ \A w \in Worker : inbox'[w] = IF w = r.w /\ Live(r) THEN msg ELSE inbox[w]
    BY <1>0, <2>1, AnswerFacts
  <2>3. IsFiniteSet(reqs') /\ Ended' = Ended /\ Stale' \subseteq Stale
    BY <1>c, <2>1, <2>2 DEF Ended, Stale, Live
  <2>4. Live(r) => inbox[r.w] = None
    BY <1>0 DEF Outstanding
  <2>5. \A w \in Worker, j \in Job : Carries(w, j) => Carries(w, j)'
    BY <2>2, <2>4 DEF Carries
  <2> QED BY <2>1, <2>3, <2>5, LostKept, NothingLost
<1>3. ASSUME NEW w \in Worker, WorkerReceives(w) PROVE IsFiniteSet(reqs') /\ DeathsPay'
  <2>1. /\ inbox[w] # None /\ UNCHANGED <<popped, life, reqs, crashes>> /\ wst[w] = "poll"
        /\ \A v \in Worker : inbox'[v] = IF v = w THEN None ELSE inbox[v]
        /\ \A v \in Worker : wst'[v] = IF v = w THEN "ready" ELSE wst[v]
        /\ received' = IF inbox[w].kind = "job" THEN [received EXCEPT ![inbox[w].job] = @ + 1]
                                                ELSE received
    BY <1>0, <1>3 DEF WorkerReceives, InboxType, masterState, TypeOK
  <2>2. IsFiniteSet(reqs') /\ Ended' = Ended /\ Stale' \subseteq Stale
    <3>1. \A v \in Worker : (wst'[v] = "down") <=> (wst[v] = "down")
      BY <2>1
    <3>2. \A r \in reqs : r.w \in Worker
      BY <1>a DEF Request
    <3> QED BY <1>b, <2>1, <3>1, <3>2 DEF Ended, Stale, Live
  <2>3. \A j \in Job, v \in Worker : v # w /\ Carries(v, j) => Carries(v, j)'
    BY <2>1 DEF Carries
  <2>4. ASSUME NEW j \in LostJobs' PROVE j \in LostJobs
    <3>1. j \in Job /\ popped[j] > received'[j] /\ ~OnItsWay(j)'
      BY <2>1, <2>4 DEF LostJobs
    <3>2. \A v \in Worker : v # w => ~Carries(v, j)
      BY <2>3, <3>1 DEF OnItsWay, Carries
    <3>3. received[j] <= received'[j]
      BY <1>0, <1>a, <2>1, <3>1 DEF TypeOK
    <3>4. ~Carries(w, j)
      <4> SUFFICES ASSUME Carries(w, j) PROVE FALSE
        OBVIOUS
      <4>1. received'[j] = received[j] + 1
        BY <1>a, <2>1, <3>1 DEF Carries
      <4>2. popped[j] <= 1
        BY <1>0, <3>1 DEF CarriedOnce
      <4> QED BY <1>a, <3>1, <4>1, <4>2
    <3>5. ~OnItsWay(j) /\ popped[j] > received[j]
      <4>1. received'[j] \in Nat
        BY <1>0, <1>a, <2>1, <3>1 DEF TypeOK
      <4>2. popped[j] > received[j]
        BY <1>a, <3>1, <3>3, <4>1
      <4> QED BY <3>2, <3>4, <4>2 DEF OnItsWay, Carries
    <3> QED BY <3>1, <3>5 DEF LostJobs
  <2> QED BY <2>1, <2>2, <2>4, NothingLost
<1>4. ASSUME NEW w \in Worker, WorkerStops(w) PROVE IsFiniteSet(reqs') /\ DeathsPay'
  <2>1. /\ wst[w] # "down" /\ UNCHANGED <<popped, received, life, crashes>> /\ reqs' \subseteq reqs
        /\ \A v \in Worker : inbox'[v] = IF v = w THEN None ELSE inbox[v]
        /\ \A v \in Worker : wst'[v] = IF v = w THEN "down" ELSE wst[v]
    BY <1>0, <1>4 DEF WorkerStops, InboxType, masterState, history, TypeOK
  <2> DEFINE p == <<w, life[w]>>
             left == [w |-> w, life |-> life[w], kind |-> wst[w]]
  <2>2. life \in [Worker -> 0..MaxLives] /\ life[w] > 0 /\ MaxLives \in Nat
    BY <1>0, <2>1, MasterConstants DEF TypeOK, HasLife
  <2>3. p \in Worker \X (1..MaxLives) /\ p \notin Ended
    BY <2>1, <2>2 DEF Ended
  <2>4. Ended' = Ended \cup {p}
    BY <2>1, <2>2, <2>3 DEF Ended
  <2>5. Cardinality(Ended') = Cardinality(Ended) + 1
    BY <1>d, <2>3, <2>4, FS_AddElement
  <2>6. \A r \in Stale' : r \in Stale \/ (Live(r) /\ r \in reqs /\ r.w = w)
    BY <1>a, <2>1 DEF Stale, Live, Request
  <2>7. IsFiniteSet(reqs')
    BY <1>c, <2>1
  <2>8. CASE \E j \in Job : Carries(w, j)
    <3>1. PICK j \in Job : Carries(w, j)
      BY <2>8
    <3>2. Stale' \subseteq Stale
      BY <1>0, <2>6, <3>1 DEF Outstanding, Carries
    <3>3. Cardinality(Stale') <= Cardinality(Stale) /\ Cardinality(Stale') \in Nat
      BY <1>d, <3>2, OneMore
    <3>4. \A v \in Worker, k \in Job : k # j /\ Carries(v, k) => Carries(v, k)'
      BY <2>1, <3>1 DEF Carries
    <3>5. \A k \in Job : k # j /\ OnItsWay(k) => OnItsWay(k)'
      BY <3>4 DEF OnItsWay, Carries
    <3>6. LostJobs' \subseteq LostJobs \cup {j}
      BY <2>1, <3>5 DEF LostJobs
    <3>7. Cardinality(LostJobs') <= Cardinality(LostJobs) + 1 /\ Cardinality(LostJobs') \in Nat
      BY <1>d, <3>6, OneMore
    <3> QED BY <1>b, <1>e, <2>1, <2>5, <2>7, <3>3, <3>7 DEF DeathsPay
  <2>9. CASE ~ \E j \in Job : Carries(w, j)
    <3>1. \A v \in Worker, k \in Job : Carries(v, k) => Carries(v, k)'
      BY <2>1, <2>9 DEF Carries
    <3>2. LostJobs' \subseteq LostJobs
      BY <2>1, <3>1, LostKept
    <3>3. Cardinality(LostJobs') <= Cardinality(LostJobs) /\ Cardinality(LostJobs') \in Nat
      BY <1>d, <3>2, OneMore
    <3>4. \A r \in reqs : Live(r) /\ r.w = w => r = left
      BY <1>0, <1>a DEF Outstanding, Live, Request
    <3>5. Stale' \subseteq Stale \cup {left}
      BY <2>6, <3>4
    <3>6. Cardinality(Stale') <= Cardinality(Stale) + 1 /\ Cardinality(Stale') \in Nat
      BY <1>d, <3>5, OneMore
    <3> QED BY <1>b, <1>e, <2>1, <2>5, <2>7, <3>3, <3>6 DEF DeathsPay
  <2> QED BY <2>8, <2>9
<1>5. ASSUME NEW w \in Worker, WorkerSolicit(w) \/ WorkerPoll(w)
      PROVE  IsFiniteSet(reqs') /\ DeathsPay'
  <2>1. PICK r : /\ reqs' = reqs \cup {r} /\ r.w = w /\ r.life = life'[w]
                 /\ UNCHANGED <<popped, received, inbox, crashes>>
    <3>1. life'[w] = IF wst[w] = "down" THEN life[w] + 1 ELSE life[w]
      BY <1>0, <1>5 DEF WorkerSolicit, WorkerPoll, TypeOK
    <3>2. UNCHANGED <<popped, received, inbox, crashes>>
      BY <1>5 DEF WorkerSolicit, WorkerPoll, masterState, history
    <3>3. \E k : reqs' = reqs \cup {[w |-> w, life |-> life'[w], kind |-> k]}
      BY <1>5, <3>1 DEF WorkerSolicit, WorkerPoll
    <3>4. PICK k : reqs' = reqs \cup {[w |-> w, life |-> life'[w], kind |-> k]}
      BY <3>3
    <3>5. /\ [w |-> w, life |-> life'[w], kind |-> k].w = w
          /\ [w |-> w, life |-> life'[w], kind |-> k].life = life'[w]
      OBVIOUS
    <3> QED BY <3>2, <3>4, <3>5
  <2>2. /\ \A v \in Worker : v # w => life'[v] = life[v] /\ wst'[v] = wst[v]
        /\ wst'[w] # "down"
        /\ \/ wst[w] = "down" /\ life'[w] = life[w] + 1
           \/ wst[w] # "down" /\ life'[w] = life[w]
    BY <1>0, <1>5 DEF WorkerSolicit, WorkerPoll, TypeOK
  <2>3. life \in [Worker -> 0..MaxLives] /\ MaxLives \in Nat
    BY <1>0, MasterConstants DEF TypeOK
  <2>4. IsFiniteSet(reqs')
    BY <1>b, <2>1, FS_AddElement
  <2>5. Ended' = Ended
    <3> SUFFICES ASSUME NEW v \in Worker, NEW l \in 1..MaxLives
                 PROVE  (l < life'[v] \/ (l = life'[v] /\ wst'[v] = "down"))
                            <=> (l < life[v] \/ (l = life[v] /\ wst[v] = "down"))
      BY DEF Ended
    <3> QED BY <2>2, <2>3
  <2>6. \A q \in reqs : Live(q) => Live(q)'
    BY <1>a, <2>2, <2>3 DEF Live, Request
  <2>7. Stale' \subseteq Stale
    BY <2>1, <2>2, <2>6 DEF Stale, Live
  <2>8. LostJobs' \subseteq LostJobs
    BY <2>1, LostKept DEF Carries
  <2> QED BY <2>1, <2>4, <2>5, <2>7, <2>8, NothingLost
<1>6. ASSUME NEW w \in Worker, WorkerAccepted(w) PROVE IsFiniteSet(reqs') /\ DeathsPay'
  <2>1. /\ inbox[w] # None /\ UNCHANGED <<popped, received, life, reqs, crashes>>
        /\ wst[w] = "solicit"
        /\ \A v \in Worker : inbox'[v] = IF v = w THEN None ELSE inbox[v]
        /\ \A v \in Worker : wst'[v] = IF v = w THEN "ready" ELSE wst[v]
    BY <1>0, <1>6 DEF WorkerAccepted, InboxType, masterState, history, TypeOK
  <2>2. \A v \in Worker : (wst'[v] = "down") <=> (wst[v] = "down")
    BY <2>1
  <2>3. \A r \in reqs : r.w \in Worker
    BY <1>a DEF Request
  <2>4. Ended' = Ended /\ Stale' \subseteq Stale
    BY <2>1, <2>2, <2>3 DEF Ended, Stale, Live
  <2>5. \A j \in Job : ~Carries(w, j)
    BY <1>0, <2>1 DEF TypeOK, Carries
  <2>6. \A v \in Worker, j \in Job : Carries(v, j) => Carries(v, j)'
    BY <2>1, <2>5 DEF Carries
  <2> QED BY <1>b, <2>1, <2>4, <2>6, LostKept, NothingLost
<1>7. CASE Stop
  <2>1. /\ UNCHANGED <<popped, received, inbox, wst, life, crashes>> /\ reqs' \subseteq reqs
    BY <1>7 DEF Stop, LoseRequests, history
  <2>2. Ended' = Ended /\ Stale' \subseteq Stale
    BY <2>1 DEF Ended, Stale, Live
  <2>3. LostJobs' \subseteq LostJobs
    BY <2>1, LostKept DEF Carries
  <2> QED BY <1>c, <2>1, <2>2, <2>3, NothingLost
<1>8. CASE Crash
  <2>1. crashes' = crashes + 1 /\ reqs' \subseteq reqs /\ crashes \in Nat
    BY <1>0, <1>8 DEF Crash, LoseRequests, TypeOK
  <2> QED BY <1>c, <2>1 DEF DeathsPay
<1>9. CASE UNCHANGED <<popped, received, inbox, wst, life, crashes, reqs>>
  <2>1. Ended' = Ended /\ Stale' \subseteq Stale
    BY <1>9 DEF Ended, Stale, Live
  <2>2. LostJobs' \subseteq LostJobs
    BY <1>9, LostKept DEF Carries
  <2> QED BY <1>b, <1>9, <2>1, <2>2, NothingLost
<1>10. ASSUME NEW w \in Worker, WorkerStalls(w) PROVE IsFiniteSet(reqs') /\ DeathsPay'
  <2>1. /\ UNCHANGED <<popped, received, inbox, life, reqs, crashes>>
        /\ \A v \in Worker : (wst'[v] = "down") <=> (wst[v] = "down")
    BY <1>0, <1>10 DEF WorkerStalls, masterState, history, TypeOK
  <2>2. \A r \in reqs : r.w \in Worker
    BY <1>a DEF Request
  <2>3. Ended' = Ended /\ Stale' \subseteq Stale
    BY <2>1, <2>2 DEF Ended, Stale, Live
  <2>4. LostJobs' \subseteq LostJobs
    BY <2>1, LostKept DEF Carries
  <2> QED BY <1>b, <2>1, <2>3, <2>4, NothingLost
<1> QED
  BY <1>1, <1>2, <1>3, <1>4, <1>5, <1>6, <1>7, <1>8, <1>9, <1>10
     DEF Next, MasterNext, HandleWorkerRequest, HandleIncommingJob, Start, Submit,
         WorkerNext, WorkerLoop, peers, history, masterState, vars

LEMMA DeathInit == Init => DeathInv
<1> SUFFICES ASSUME Init PROVE IsFiniteSet(reqs) /\ DeathsPay
  BY OnceInit DEF DeathInv
<1>1. reqs = {} /\ \A j \in Job : popped[j] = 0 /\ received[j] = 0
  BY DEF Init
<1>2. LostJobs = {} /\ Stale = {}
  BY <1>1 DEF LostJobs, Stale
<1>3. Cardinality(LostJobs) = 0 /\ Cardinality(Stale) = 0 /\ IsFiniteSet(reqs)
  BY <1>1, <1>2, FS_EmptySet
<1>4. Cardinality(Ended) \in Nat
  BY Finite, FS_CardinalityType
<1> QED BY <1>3, <1>4 DEF DeathsPay

\* As long as the master has not crashed, the jobs that were taken off the queue and
\* reached nobody are at most as many as the worker processes that have ended.
THEOREM OneJobPerDeathTheorem == Spec => []OneJobPerDeath
<1>1. ASSUME DeathInv PROVE OneJobPerDeath
  <2>1. IsFiniteSet(LostJobs) /\ IsFiniteSet(Stale) /\ IsFiniteSet(Ended)
    BY <1>1, Finite DEF DeathInv
  <2>2. Cardinality(LostJobs) \in Nat /\ Cardinality(Stale) \in Nat /\ Cardinality(Ended) \in Nat
    BY <2>1, FS_CardinalityType
  <2> QED BY <1>1, <2>2 DEF DeathInv, DeathsPay, OneJobPerDeath
<1> QED BY <1>1, DeathInit, DeathStep, PTL DEF Spec
=============================================================================
