------------------------------ MODULE Extractor ------------------------------
(***************************************************************************)
(* The extractor (src/extract/extractor.cpp): a server that forks a child  *)
(* for every item it receives and answers DONE at once.  A child runs the  *)
(* actions of the item's rule, talking to the cynder master and to the     *)
(* pitcher.  Children are never waited for, so each keeps its entry in the *)
(* process table.                                                          *)
(***************************************************************************)
EXTENDS Ruler, FiniteSets

CONSTANTS
    Rules,      \* the ruleset, as sequence of [type, name, actions]
    MaxProcs,   \* the children the system lets a process have
    FirstId,    \* dataCounter of a new process, 1000 in the code
    MaxBoots    \* bound: extractor processes

\* What a rule can do with an item.
Action == {"log", "discard", "store", "queue"}

ASSUME ExtractorConstants ==
    /\ Rules \in Seq({Rules[i] : i \in DOMAIN Rules})
    /\ \A i \in DOMAIN Rules : Rules[i].actions \in Seq(Action)
    /\ None \notin Seq(Action)
    /\ VerifyRules(Rules)
    /\ {MaxProcs, FirstId, MaxBoots} \subseteq Nat

VARIABLES
    doFork,         \* FALSE with --inorder
    server,         \* "wait", "busy" inorder, "handled" when an answer is due, "down"
    wire,           \* the scraper's connection: "idle", a message on its way ("sent"),
                    \* "taken" by the server, "lost" with it, or its answer "DONE"
    message,        \* that message
    dataCounter, boots,
    children,       \* children by number: their message, state and actions left
    unforked,       \* messages whose fork failed, answered all the same
    stored,         \* QUIDs the cynder master answered DONE for
    refused,        \* QUIDs it answered FAIL for
    tasks           \* tasks sent to the pitcher

peers == <<stored, refused, tasks>>
extractor == <<doFork, message, server, dataCounter, boots, children, unforked>>

ExtractorInit ==
    /\ doFork \in BOOLEAN /\ server = "wait" /\ wire = "idle" /\ message = None /\ dataCounter = FirstId /\ boots = 1
    /\ children = <<>> /\ unforked = {}
    /\ stored = {} /\ refused = {} /\ tasks = {}

-----------------------------------------------------------------------------
Child(m, id) ==
    [msg |-> m, id |-> id, boot |-> boots, state |-> "parse", todo |-> <<>>]

\* Mutant: the counter is not moved on.
HandleSameId ==
    /\ server = "wait" /\ wire = "sent" /\ wire' = "taken"
    /\ server' = IF doFork THEN "handled" ELSE "busy"
    /\ children' = Append(children, Child(message, dataCounter))
    /\ UNCHANGED <<doFork, message, dataCounter, boots, unforked, peers>>

\* handleRequest after recv: the counter, and the child if the fork succeeds.  With
\* --inorder the server itself is the child, and answers when that has ended.
HandleRequest ==
    LET id == dataCounter + 1
        mine == {c \in DOMAIN children : children[c].boot = boots}
        child == Append(children, Child(message, id))
    IN  /\ server = "wait" /\ wire = "sent"
        /\ dataCounter' = id /\ wire' = "taken"
        /\ \/ /\ ~doFork
              /\ server' = "busy" /\ children' = child /\ UNCHANGED unforked
           \/ /\ doFork /\ Cardinality(mine) < MaxProcs
              /\ server' = "handled" /\ children' = child /\ UNCHANGED unforked
           \/ /\ doFork
              /\ server' = "handled" /\ unforked' = unforked \cup {message}
              /\ UNCHANGED children
        /\ UNCHANGED <<doFork, message, boots, peers>>

Ended(c) == children[c].state \in {"done", "died"}

\* Mutant: the answer does not wait for the work.
InOrderEarly ==
    /\ server = "busy"
    /\ server' = "handled"
    /\ UNCHANGED <<doFork, message, wire, dataCounter, boots, children, unforked, peers>>

\* The answer of an inorder server comes after its work.
InOrderDone ==
    /\ server = "busy" /\ children[Len(children)].state = "done"
    /\ server' = "handled"
    /\ UNCHANGED <<doFork, message, wire, dataCounter, boots, children, unforked, peers>>

Answer ==
    /\ server = "handled"
    /\ server' = "wait" /\ wire' = "DONE"
    /\ UNCHANGED <<doFork, message, dataCounter, boots, children, unforked, peers>>

-----------------------------------------------------------------------------
Becomes(c, s, todo) == children' = [children EXCEPT ![c].state = s, ![c].todo = todo]

\* The state in which a child takes up its next action.
Go(todo) ==
    IF todo = <<>> THEN "done"
    ELSE IF Head(todo) \in {"store", "queue"} THEN Head(todo) ELSE "act"

\* What is lost with a server that goes down: a message it has taken, and perhaps
\* one that was on its way.
Loses ==
    \/ wire = "taken" /\ wire' = "lost"
    \/ wire = "sent" /\ wire' \in {"sent", "lost"}
    \/ wire \in {"idle", "lost", "DONE"} /\ UNCHANGED wire

\* A child that dies takes an inorder server with it.
Dies(c) ==
    /\ Becomes(c, "died", <<>>)
    /\ IF server = "busy" /\ c = Len(children)
       THEN server' = "down" /\ Loses
       ELSE UNCHANGED <<server, wire>>

\* parseData: detection, the rule, the handlers, then the actions.
ParseData(c) ==
    LET d == children[c].msg.item
        todo == RuleActions(Rules, d)
    IN  /\ children[c].state = "parse"
        /\ IF Stumbles(d) \/ HandlerThrows(d) THEN Dies(c)
           ELSE Becomes(c, Go(todo), todo) /\ UNCHANGED <<server, wire>>
        /\ UNCHANGED <<doFork, message, dataCounter, boots, unforked, peers>>

\* Mutant: the list of actions is not moved on.
ActAgain(c) ==
    /\ children[c].state = "act"
    /\ Becomes(c, "act", children[c].todo)
    /\ UNCHANGED <<doFork, message, server, wire, dataCounter, boots, unforked, peers>>

\* Log and Discard.
Act(c) ==
    LET rest == Tail(children[c].todo)
    IN  /\ children[c].state = "act"
        /\ Becomes(c, Go(rest), rest)
        /\ UNCHANGED <<doFork, message, server, wire, dataCounter, boots, unforked, peers>>

\* Mutant: the store action does not wait for the master's answer.
StoreUnanswered(c) ==
    LET rest == Tail(children[c].todo)
    IN  /\ children[c].state = "store"
        /\ Becomes(c, Go(rest), rest)
        /\ UNCHANGED <<doFork, message, server, wire, dataCounter, boots, unforked, peers>>

\* Store::run, up to the recv of send.
Store(c) ==
    /\ children[c].state = "store"
    /\ Becomes(c, "storing", children[c].todo)
    /\ UNCHANGED <<doFork, message, server, wire, dataCounter, boots, unforked, peers>>

\* The rest of Store::send: the master answers DONE or FAIL, which is only printed.
StoreReply(c) ==
    LET rest == Tail(children[c].todo)
        q == children[c].msg.quid
    IN  /\ children[c].state = "storing"
        /\ \/ stored' = stored \cup {q} /\ UNCHANGED refused
           \/ refused' = refused \cup {q} /\ UNCHANGED stored
        /\ Becomes(c, Go(rest), rest)
        /\ UNCHANGED <<doFork, message, server, wire, dataCounter, boots, unforked, tasks>>

\* Queue::run, up to the recv of send: a task with the id of the item; its data is
\* not sent.
Queue(c) ==
    LET ch == children[c]
    IN  /\ ch.state = "queue"
        /\ tasks' = tasks \cup {[id |-> ch.id, quid |-> ch.msg.quid, boot |-> ch.boot]}
        /\ Becomes(c, "queuing", ch.todo)
        /\ UNCHANGED <<doFork, message, server, wire, dataCounter, boots, unforked, stored, refused>>

\* The rest of Queue::send: the pitcher's answer is only printed.
QueueReply(c) ==
    LET rest == Tail(children[c].todo)
    IN  /\ children[c].state = "queuing"
        /\ Becomes(c, Go(rest), rest)
        /\ UNCHANGED <<doFork, message, server, wire, dataCounter, boots, unforked, peers>>

\* The answer never comes, and neither recv has a timeout: the peer is not there,
\* or it dies with the request, or cynder's master waits for a worker that is lost
\* (Cynder!MasterLoses).
NoReply(c) ==
    /\ children[c].state \in {"storing", "queuing"}
    /\ Becomes(c, "unanswered", children[c].todo)
    /\ UNCHANGED <<doFork, message, server, wire, dataCounter, boots, unforked, peers>>

\* A child is killed.
Killed(c) ==
    /\ ~Ended(c)
    /\ Dies(c)
    /\ UNCHANGED <<doFork, message, dataCounter, boots, unforked, peers>>

\* The extractor dies or is stopped; children that it forked go on.
ServerDown ==
    /\ server \in {"wait", "handled"} /\ boots < MaxBoots
    /\ server' = "down" /\ Loses
    /\ UNCHANGED <<doFork, message, dataCounter, boots, children, unforked, peers>>

\* A new process: the counter starts again, and so does the process table.
ServerUp ==
    /\ server = "down" /\ boots < MaxBoots
    /\ server' = "wait" /\ dataCounter' = FirstId /\ boots' = boots + 1
    /\ UNCHANGED <<doFork, message, wire, children, unforked, peers>>

Step(c) ==
    \/ ParseData(c) \/ Act(c)
    \/ Store(c) \/ StoreReply(c) \/ Queue(c) \/ QueueReply(c)

ExtractorNext ==
    \/ HandleRequest \/ InOrderDone \/ Answer
    \/ \E c \in DOMAIN children : Step(c) \/ NoReply(c) \/ Killed(c)
    \/ ServerDown \/ ServerUp
=============================================================================
