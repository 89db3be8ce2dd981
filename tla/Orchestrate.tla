----------------------------- MODULE Orchestrate -----------------------------
(***************************************************************************)
(* The web server of the orchestrator (src/orchestrate): the main thread   *)
(* accepts clients and starts a thread for each, keeps the threads in a    *)
(* vector, and cancels and joins them when the vector is full and at the   *)
(* end.  Requests are abstracted to the steps of Handler: what is served,  *)
(* and the text of the reply, change nothing in the server.                *)
(***************************************************************************)
EXTENDS Integers, Sequences, SequencesExt

CONSTANTS
    MaxThreads,     \* MAX_THREAD_COUNT
    MaxFds,         \* descriptors the process may open for clients
    MaxClients      \* bound: clients that connect

ASSUME OrchestrateConstants == {MaxThreads, MaxFds, MaxClients} \subseteq Nat \ {0}

Client == 1..MaxClients

VARIABLES
    server,     \* accepting, cleaning, stopping, deleting, returning, exited
    threads,    \* clients of the threads in the vector
    pos,        \* loop counter of Stop
    arriving,   \* the client whose thread is to be created after the cleanup
    handler,    \* thread of a client: none, reading, replying, ended, joined
    cancelled,  \* threads with a cancellation request
    fds,        \* descriptors of clients
    logger,     \* does the logger exist
    interrupted,
    forgotten,  \* history: threads that a cleanup took off the vector unjoined
    createFailed    \* history: some thread could not be created

mainVars == <<server, threads, pos, arriving, logger>>
handlerVars == <<handler, cancelled>>
history == <<forgotten, createFailed>>
webVars == <<mainVars, handlerVars, fds, interrupted, history>>

WebInit ==
    /\ server = "accepting" /\ threads = <<>> /\ pos = 1 /\ arriving = 0
    /\ handler = [c \in Client |-> "none"] /\ cancelled = {}
    /\ fds = 0 /\ logger = TRUE /\ interrupted = FALSE
    /\ forgotten = {} /\ createFailed = FALSE

Running(c) == handler[c] \in {"reading", "replying"}

-----------------------------------------------------------------------------
\* The loop of main() ends once a signal has come.
Onward == IF interrupted THEN "stopping" ELSE "accepting"

\* The rest of CreateThread, with these threads in the vector.  When pthread_create
\* fails, Accept returns false, which ends the loop of main() as a signal would; the
\* socket of the client stays open.
Create(c, others) ==
    \/ /\ threads' = Append(others, c) /\ handler' = [handler EXCEPT ![c] = "reading"]
       /\ server' = Onward /\ UNCHANGED createFailed
    \/ /\ threads' = others /\ UNCHANGED handler
       /\ server' = "stopping" /\ createFailed' = TRUE

\* CServer::Accept and CreateThread: a full vector is cleaned first.
AcceptClient(c) ==
    /\ server = "accepting" /\ handler[c] = "none" /\ \A d \in 1..(c - 1) : handler[d] # "none"
    /\ fds < MaxFds /\ fds' = fds + 1
    /\ pos' = 1
    /\ IF Len(threads) > MaxThreads
       THEN server' = "cleaning" /\ arriving' = c /\ UNCHANGED <<threads, handler, createFailed>>
       ELSE Create(c, threads) /\ UNCHANGED arriving
    /\ UNCHANGED <<cancelled, logger, interrupted, forgotten>>

\* accept() fails, for want of a descriptor or by another error: Accept returns
\* false, and the loop of main() ends.
AcceptFails ==
    /\ server = "accepting"
    /\ server' = "stopping" /\ pos' = 1
    /\ UNCHANGED <<threads, arriving, logger, handlerVars, fds, interrupted, history>>

\* A signal breaks the accept() of the main thread, or the recv() of a handler, if
\* the kernel picks its thread, or finds the main thread elsewhere.
Signal ==
    /\ ~interrupted /\ interrupted' = TRUE
    /\ \/ server = "accepting" /\ server' = "stopping" /\ pos' = 1 /\ UNCHANGED handler
       \/ /\ \E c \in Client : handler[c] = "reading" /\ handler' = [handler EXCEPT ![c] = "ended"]
          /\ UNCHANGED <<server, pos>>
       \/ server # "accepting" /\ UNCHANGED <<server, pos, handler>>
    /\ UNCHANGED <<threads, arriving, logger, cancelled, fds, history>>

\* Stop(cleanup): the loop bound.
Bound == IF server = "cleaning" THEN Len(threads) \div 2 ELSE Len(threads)

InStop == server \in {"cleaning", "stopping"}

\* Mutant: the thread is joined before it is cancelled.
DestroyEnded ==
    /\ InStop /\ pos <= Bound /\ threads[pos] \notin cancelled
    /\ handler[threads[pos]] = "ended"
    /\ cancelled' = cancelled \cup {threads[pos]}
    /\ UNCHANGED <<mainVars, handler, fds, interrupted, history>>

Destroy ==
    /\ InStop /\ pos <= Bound /\ threads[pos] \notin cancelled
    /\ cancelled' = cancelled \cup {threads[pos]}
    /\ UNCHANGED <<mainVars, handler, fds, interrupted, history>>

\* Mutant: nobody waits for the thread.
JoinAtOnce ==
    /\ InStop /\ pos <= Bound /\ threads[pos] \in cancelled
    /\ pos' = pos + 1
    /\ UNCHANGED <<server, threads, arriving, logger, handlerVars, fds, interrupted, history>>

\* delete then cancels the joined thread once more, which finds nobody.
Join ==
    /\ InStop /\ pos <= Bound /\ threads[pos] \in cancelled /\ handler[threads[pos]] = "ended"
    /\ handler' = [handler EXCEPT ![threads[pos]] = "joined"]
    /\ pos' = pos + 1
    /\ UNCHANGED <<server, threads, arriving, logger, cancelled, fds, interrupted, history>>

\* The vector is cleared, also of the half that was not joined; after a cleanup
\* CreateThread goes on for the new client.
Cleared ==
    /\ InStop /\ pos > Bound
    /\ forgotten' = IF server = "cleaning"
                    THEN forgotten \cup {c \in Range(threads) : handler[c] # "joined"}
                    ELSE forgotten
    /\ IF server = "cleaning"
       THEN Create(arriving, <<>>)
       ELSE threads' = <<>> /\ server' = "deleting" /\ UNCHANGED <<handler, createFailed>>
    /\ pos' = 1 /\ arriving' = 0
    /\ UNCHANGED <<logger, cancelled, fds, interrupted>>

\* ~CServer deletes the logger; main() then returns, and the process ends.
DeleteServer ==
    /\ server = "deleting"
    /\ server' = "returning" /\ logger' = FALSE
    /\ UNCHANGED <<threads, pos, arriving, handlerVars, fds, interrupted, history>>

ExitProcess ==
    /\ server = "returning"
    /\ server' = "exited"
    /\ handler' = [c \in Client |-> IF Running(c) THEN "ended" ELSE handler[c]]
    /\ UNCHANGED <<threads, pos, arriving, logger, cancelled, fds, interrupted, history>>

-----------------------------------------------------------------------------
HandlerStep(c, from, to) ==
    /\ handler[c] = from /\ handler' = [handler EXCEPT ![c] = to]
    /\ UNCHANGED <<mainVars, cancelled, fds, interrupted, history>>

\* RecvRequest; the request is logged.
Receive(c) == HandlerStep(c, "reading", "replying")

\* The reply; the results of SendRedirect and ParseUri are not looked at, and the
\* loop goes on, a failed HandleError ends it.
Respond(c) == HandlerStep(c, "replying", "reading") \/ HandlerStep(c, "replying", "ended")

\* The client is gone.  Disconnect shuts the socket down and never closes it.
Hangup(c) == HandlerStep(c, "reading", "ended")

\* recv, send and the log are cancellation points.
Cancel(c) ==
    /\ c \in cancelled
    /\ HandlerStep(c, "reading", "ended") \/ HandlerStep(c, "replying", "ended")

StopStep == Destroy \/ Join \/ Cleared
CancelStep == \E c \in Client : Cancel(c)

WebNext ==
    \/ \E c \in Client : AcceptClient(c) \/ Receive(c) \/ Respond(c) \/ Hangup(c)
    \/ AcceptFails \/ Signal
    \/ StopStep \/ CancelStep
    \/ DeleteServer \/ ExitProcess

-----------------------------------------------------------------------------
\* When ~CServer deletes the logger, no thread that logs requests is left, except
\* those that Stop(true) took off the vector without a join: they may use it still.
LoggerOutlivesThreads == ~logger => \A c \in Client : Running(c) => c \in forgotten

\* A cleanup of the full vector ends although it joins threads that wait for their
\* clients, so the server comes back to its accept loop, unless a signal has come or
\* the thread of the new client cannot be created (CreateThread).
AcceptResumes == server = "cleaning" ~> server = "accepting" \/ interrupted \/ createFailed
=============================================================================
