---------------------------- MODULE ControlClient ----------------------------
(***************************************************************************)
(* The heartbeat of one job (src/chella/controlclient.h) and the master's  *)
(* answer to it (handleWokerController, NodeManager::runTask).  The thread *)
(* that runs the job (Execute::run) sets the state; a second thread reads  *)
(* it without a lock and reports it over a REQ socket with timeouts.       *)
(*                                                                         *)
(* A report carries the number of the state change it shows.  The worker   *)
(* id, the job and the QUID are set before the thread starts and never     *)
(* change; the number of cluster jobs is carried along and decides nothing; *)
(* of the progress only whether it exceeds 1000 does.                      *)
(***************************************************************************)
EXTENDS Naturals, FiniteSets

CONSTANTS
    MaxLate,        \* bound: timeouts while the request or its reply is on its way
    MaxMasterBoots  \* bound: deaths of the master

ASSUME ControlConstants == {MaxLate, MaxMasterBoots} \subseteq Nat

VARIABLES
    main,       \* the job's thread: new, started, running, joining, done, terminated
    active,     \* _active
    state,      \* _state
    nth,        \* changes of _state so far
    overrun,    \* is _progress above 1000
    heart,      \* heartbeat thread: none, test, asleep, built, waiting, closing, ended
    report,     \* the message it has filled in
    sock,       \* number of its socket
    out,        \* requests that have not left the worker
    inbox,      \* requests at the master
    replied,    \* has a reply reached the socket
    master,     \* is the master up
    boots,
    late,       \* timeouts that were too early
    seen,       \* the report the master has handled last
    behind      \* history: it has handled one older than the last

jobVars == <<main, active, state, nth, overrun>>
heartVars == <<heart, report, sock>>
wire == <<out, inbox, replied>>
masterVars == <<master, boots, seen, behind>>
controlVars == <<jobVars, heartVars, wire, masterVars, late>>

ControlInit ==
    /\ main = "new" /\ active = FALSE /\ state = "IDLE" /\ nth = 0 /\ overrun = FALSE
    /\ heart = "none" /\ report = 0 /\ sock = 0
    /\ out = {} /\ inbox = {} /\ replied = FALSE
    /\ master = TRUE /\ boots = 0 /\ seen = 0 /\ behind = FALSE
    /\ late = 0

-----------------------------------------------------------------------------
\* The thread of the job.

\* start(): the thread exists before _active is set.
StartHeart ==
    /\ main = "new"
    /\ main' = "started" /\ heart' = "test"
    /\ UNCHANGED <<active, state, nth, overrun, report, sock, wire, masterVars, late>>

SetActive ==
    /\ main = "started"
    /\ main' = "running" /\ active' = TRUE
    /\ UNCHANGED <<state, nth, overrun, heartVars, wire, masterVars, late>>

\* The states of Execute::run, in its order.
Follows ==
    [IDLE |-> {"ACCEPTED"}, ACCEPTED |-> {"AWAITING", "SETUP", "FAILED"},
     AWAITING |-> {"SETUP", "FAILED"}, SETUP |-> {"RUNNING", "FAILED"},
     RUNNING |-> {"TEARDOWN", "FAILED"}, TEARDOWN |-> {"FAILED", "IDLE"},
     FAILED |-> {"IDLE"}]

Over == state = "IDLE" /\ nth > 0

SetState(s) ==
    /\ main = "running" /\ ~Over /\ s \in Follows[state]
    /\ state' = s /\ nth' = nth + 1
    /\ UNCHANGED <<main, active, overrun, heartVars, wire, masterVars, late>>

\* update_progress of the job's Python code: any unsigned int.
UpdateProgress ==
    /\ main = "running" /\ state \in {"SETUP", "RUNNING", "TEARDOWN"}
    /\ overrun' \in BOOLEAN
    /\ UNCHANGED <<main, active, state, nth, heartVars, wire, masterVars, late>>

\* The early returns of run() destroy the thread object without a join, which
\* terminates the process.
ReturnEarly ==
    /\ main = "running" /\ state \in {"ACCEPTED", "AWAITING"}
    /\ main' = "terminated" /\ heart' = "ended"
    /\ out' = {} /\ replied' = FALSE
    /\ UNCHANGED <<active, state, nth, overrun, report, sock, inbox, masterVars, late>>

StopHeart ==
    /\ main = "running" /\ Over
    /\ main' = "joining" /\ active' = FALSE
    /\ UNCHANGED <<state, nth, overrun, heartVars, wire, masterVars, late>>

Joined ==
    /\ main = "joining" /\ heart = "ended"
    /\ main' = "done"
    /\ UNCHANGED <<active, state, nth, overrun, heartVars, wire, masterVars, late>>

-----------------------------------------------------------------------------
\* The heartbeat thread, runTask.

TestActive ==
    /\ heart = "test"
    /\ heart' = IF active THEN "asleep" ELSE "ended"
    /\ UNCHANGED <<jobVars, report, sock, wire, masterVars, late>>

\* The assertion on _progress after the sleep aborts the process, job included.
AssertFails ==
    /\ heart = "asleep" /\ overrun
    /\ main' = "terminated" /\ heart' = "ended"
    /\ out' = {} /\ replied' = FALSE
    /\ UNCHANGED <<active, state, nth, overrun, report, sock, inbox, masterVars, late>>

\* Mutant: _active is tested again after the sleep.
WakeTestsActive ==
    /\ heart = "asleep" /\ ~overrun
    /\ heart' = IF active THEN "built" ELSE "ended"
    /\ report' = nth
    /\ UNCHANGED <<jobVars, sock, wire, masterVars, late>>

\* sleep_for, then the message is filled in.
Wake ==
    /\ heart = "asleep" /\ ~overrun
    /\ heart' = "built" /\ report' = nth
    /\ UNCHANGED <<jobVars, sock, wire, masterVars, late>>

\* Mutant: a socket for every report, and no wait for its reply.
SendOnly ==
    /\ heart = "built"
    /\ heart' = "test" /\ sock' = sock + 1
    /\ out' = out \cup {[sock |-> sock, nth |-> report]}
    /\ UNCHANGED <<jobVars, report, inbox, replied, masterVars, late>>

SendReport ==
    /\ heart = "built"
    /\ heart' = "waiting"
    /\ out' = out \cup {[sock |-> sock, nth |-> report]}
    /\ UNCHANGED <<jobVars, report, sock, inbox, replied, masterVars, late>>

\* send() times out: a new context and socket, and the loop from its test.
SendFails ==
    /\ heart = "built" /\ ~master /\ late < MaxLate
    /\ heart' = "test" /\ sock' = sock + 1 /\ late' = late + 1
    /\ UNCHANGED <<jobVars, report, wire, masterVars>>

RecvReply ==
    /\ heart = "waiting" /\ replied
    /\ heart' = "test" /\ replied' = FALSE
    /\ UNCHANGED <<jobVars, report, sock, out, inbox, masterVars, late>>

\* Nothing is left of the request that the thread waits for.
Lost == ~replied /\ \A m \in out \cup inbox : m.sock # sock

\* Mutant: no timeout is set for recv().
RecvForever == FALSE

\* recv() times out.
RecvTimeout ==
    /\ heart = "waiting" /\ (Lost \/ late < MaxLate)
    /\ heart' = "closing" /\ replied' = FALSE
    /\ late' = IF Lost THEN late ELSE late + 1
    /\ UNCHANGED <<jobVars, report, sock, out, inbox, masterVars>>

\* context.close() lingers until the request has left, then goto retry.
CloseSocket ==
    /\ heart = "closing" /\ \A m \in out : m.sock # sock
    /\ heart' = "test" /\ sock' = sock + 1
    /\ UNCHANGED <<jobVars, report, wire, masterVars, late>>

-----------------------------------------------------------------------------
\* ZeroMQ hands a request over to a master that is up.
Transfer ==
    /\ master
    /\ \E m \in out : out' = out \ {m} /\ inbox' = inbox \cup {m}
    /\ UNCHANGED <<jobVars, heartVars, replied, masterVars, late>>

\* handleWokerController: requests of different sockets come in any order, and a
\* reply to a socket that is closed is dropped.
HandleReport(m) ==
    /\ master /\ m \in inbox
    /\ inbox' = inbox \ {m}
    /\ seen' = m.nth /\ behind' = (behind \/ m.nth < seen)
    /\ replied' = (replied \/ (m.sock = sock /\ heart = "waiting"))
    /\ UNCHANGED <<jobVars, heartVars, out, master, boots, late>>

MasterDies ==
    /\ master /\ boots < MaxMasterBoots
    /\ master' = FALSE /\ boots' = boots + 1 /\ seen' = 0
    /\ inbox' = {} /\ replied' \in {replied, FALSE}
    /\ UNCHANGED <<jobVars, heartVars, out, behind, late>>

MasterReturns ==
    /\ ~master
    /\ master' = TRUE
    /\ UNCHANGED <<jobVars, heartVars, wire, boots, seen, behind, late>>

JobStep == StartHeart \/ SetActive \/ (\E s \in DOMAIN Follows : SetState(s)) \/ StopHeart \/ Joined
HeartStep == TestActive \/ Wake \/ AssertFails \/ SendReport \/ RecvReply \/ CloseSocket
Deliver == \E m \in inbox : HandleReport(m)

ControlNext ==
    \/ JobStep \/ UpdateProgress \/ ReturnEarly
    \/ HeartStep \/ SendFails \/ RecvTimeout
    \/ Transfer \/ Deliver
    \/ MasterDies \/ MasterReturns

-----------------------------------------------------------------------------
\* The master gets the states of a job in the order the job went through them,
\* unless a timeout struck while an earlier report was still on its way: then the
\* report of the next socket may overtake it, and the older one is shown last.
SeenInOrder == behind => late > 0

\* stop() returns although the heartbeat thread may be asleep, waiting for a reply
\* that is lost, or lingering in context.close(): it needs a master that comes back.
\* Only a progress above 1000 keeps it from that, by the assertion in runTask.
StopReturns == main = "joining" /\ ~overrun ~> main = "done"

\* A stop() that finds the heartbeat asleep still has the final IDLE reported: the
\* thread tests _active only after it has sent the state.
IdleReported ==
    main = "joining" /\ heart = "asleep" /\ ~overrun ~> seen = nth \/ late > 0 \/ boots > 0
=============================================================================
