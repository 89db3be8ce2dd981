------------------------------- MODULE Ingest -------------------------------
(***************************************************************************)
(* The scraper (src/scrape/scrape.cpp) in front of the extractor.  A plugin *)
(* or script pushes items on the datastack and commits it: every item goes *)
(* to the extractor under a new QUID, one after the other, over one REQ    *)
(* socket.  A signal ends a commit in the middle.                          *)
(*                                                                         *)
(* A push is a number; Item[p] is the data it pushed.  The datastack is a  *)
(* multimap ordered by name; the order of the pushes stands for it.        *)
(***************************************************************************)
EXTENDS Extractor

CONSTANTS
    Item,           \* the items that are pushed, in order
    MaxCommits,     \* bound: commits
    MaxQuid         \* bound: QUIDs generated, at most MaxCommits * Len(Item)

ASSUME IngestConstants ==
    /\ Item \in Seq({Item[i] : i \in DOMAIN Item})
    /\ None \notin Seq(DOMAIN Item)

VARIABLES
    pushed,         \* pushes so far
    datastack,      \* the pushes on the datastack, in its order
    commit,         \* pushes left of the commit under way, or None
    complete,       \* answers DONE in this commit
    socket,         \* the REQ socket: "send", "recv", or "stuck": it owes a recv that
                    \* no later commit makes, and refuses every send
    commits, nextQuid,
    answered,       \* pushes that were answered DONE
    sent,           \* messages sent, as <<push, message>>
    interrupted     \* a signal has ended a commit

scraper == <<pushed, datastack, commit, complete, socket, commits, nextQuid,
             answered, sent, interrupted>>
vars == <<scraper, extractor, wire, peers>>

Init ==
    /\ ExtractorInit
    /\ pushed = 0 /\ datastack = <<>> /\ commit = None /\ complete = 0
    /\ socket = "send" /\ commits = 0 /\ nextQuid = 1
    /\ answered = {} /\ sent = {} /\ interrupted = FALSE

\* py_mav_push, lv_mav_push, or an item of the s_datastack of a plugin.
Push ==
    /\ commit = None /\ pushed < Len(Item)
    /\ pushed' = pushed + 1
    /\ datastack' = Append(datastack, pushed + 1)
    /\ UNCHANGED <<commit, complete, socket, commits, nextQuid, answered, sent, interrupted,
                   extractor, wire, peers>>

\* dispatch_commit.
Commit ==
    /\ commit = None /\ commits < MaxCommits
    /\ commit' = datastack /\ complete' = 0 /\ commits' = commits + 1
    /\ UNCHANGED <<pushed, datastack, socket, nextQuid, answered, sent, interrupted,
                   extractor, wire, peers>>

\* One turn of the loop: a new QUID, and the message.
Send ==
    LET m == [item |-> Item[Head(commit)], quid |-> nextQuid]
    IN  /\ commit \notin {None, <<>>} /\ socket = "send" /\ nextQuid <= MaxQuid
        /\ wire' = "sent" /\ message' = m /\ socket' = "recv" /\ nextQuid' = nextQuid + 1
        /\ sent' = sent \cup {<<Head(commit), m>>}
        /\ UNCHANGED <<pushed, datastack, commit, complete, commits, answered, interrupted,
                       doFork, server, dataCounter, boots, children, unforked, peers>>

Recv ==
    /\ commit \notin {None, <<>>} /\ socket = "recv" /\ wire = "DONE"
    /\ wire' = "idle" /\ socket' = "send"
    /\ complete' = complete + 1 /\ answered' = answered \cup {Head(commit)}
    /\ commit' = Tail(commit)
    /\ UNCHANGED <<pushed, datastack, commits, nextQuid, sent, interrupted, extractor, peers>>

\* Mutant: the datastack is cleared whenever a commit ends.
InterruptClears ==
    /\ commit \notin {None, <<>>}
    /\ commit' = None /\ interrupted' = TRUE /\ datastack' = <<>>
    /\ socket' = IF socket = "recv" THEN "stuck" ELSE socket
    /\ UNCHANGED <<pushed, complete, commits, nextQuid, answered, sent,
                   extractor, wire, peers>>

\* A signal during send or recv, or a send on a stuck socket: the error ends the
\* commit, and the datastack stays as it is.
Interrupt ==
    /\ commit \notin {None, <<>>}
    /\ commit' = None /\ interrupted' = TRUE
    /\ socket' = IF socket = "recv" THEN "stuck" ELSE socket
    /\ UNCHANGED <<pushed, datastack, complete, commits, nextQuid, answered, sent,
                   extractor, wire, peers>>

\* Mutant: a commit leaves the datastack alone.
EndCommitKeeps ==
    /\ commit = <<>>
    /\ commit' = None
    /\ UNCHANGED <<pushed, datastack, complete, socket, commits, nextQuid, answered, sent,
                   interrupted, extractor, wire, peers>>

\* The datastack is cleared if every item was answered.
EndCommit ==
    /\ commit = <<>>
    /\ datastack' = IF complete = Len(datastack) THEN <<>> ELSE datastack
    /\ commit' = None
    /\ UNCHANGED <<pushed, complete, socket, commits, nextQuid, answered, sent, interrupted,
                   extractor, wire, peers>>

Next ==
    \/ Push \/ Commit \/ Send \/ Recv \/ Interrupt \/ EndCommit
    \/ ExtractorNext /\ UNCHANGED scraper

Spec == Init /\ [][Next]_vars

\* The server and its children run, and cynder and the pitcher answer a request
\* unless they lose it (NoReply); nobody has to push, commit or send signals.
Fairness ==
    /\ WF_vars((HandleRequest \/ InOrderDone \/ Answer) /\ UNCHANGED scraper)
    /\ \A c \in 1..MaxQuid : WF_vars(c \in DOMAIN children /\ Step(c) /\ UNCHANGED scraper)

FairSpec == Spec /\ Fairness

-----------------------------------------------------------------------------
\* What was pushed stays on the datastack until the extractor has answered DONE for
\* it, whichever item of a commit a signal interrupts (dispatch_commit).
PushedIsKept ==
    \A p \in 1..pushed : p \in answered \/ \E i \in DOMAIN datastack : datastack[i] = p

\* An item goes to the extractor under two QUIDs only after an interrupted commit:
\* dispatch_commit then sends those already delivered again.
ResentOnlyAfterInterrupt ==
    \A s, t \in sent : s[1] = t[1] /\ s # t => interrupted

\* DONE means that a child was started for the item or that the fork failed; with
\* --inorder it means that the item's actions are done (handleRequest and the reply
\* that follows it whatever it returns).
AnsweredIsTaken ==
    \A p \in answered : \E s \in sent :
        /\ s[1] = p
        /\ \/ s[2] \in unforked
           \/ \E c \in DOMAIN children :
                 children[c].msg = s[2] /\ (doFork \/ children[c].state = "done")

\* Tasks that one extractor process queues have different ids, whatever order its
\* children reach the pitcher in: the pitcher's store is keyed by them.  Across
\* processes they repeat, as dataCounter starts again.
TaskIdsUnique ==
    \A t, u \in tasks : t # u /\ t.boot = u.boot => t.id # u.id

\* "each of these actions is processed in order" (default.rule): a task goes to the
\* pitcher only after the storage cluster has answered for its record, if its rule
\* stores before it queues for the first time.  It goes also when that answer was
\* FAIL, and never when there was none.
QueuedFollowsStore ==
    \A t \in tasks, c \in DOMAIN children :
        LET a == RuleActions(Rules, children[c].msg.item)
        IN  children[c].msg.quid = t.quid
              /\ (\E i \in DOMAIN a : a[i] = "store" /\ \A j \in DOMAIN a : a[j] = "queue" => i < j)
              => t.quid \in stored \cup refused

Busy(c) == c \in DOMAIN children /\ ~Ended(c) /\ children[c].state # "unanswered"

\* Every child comes to an end, unless a request of its own to cynder's master
\* (action_store.cpp) or to the pitcher (action_queue.cpp) is never answered: it
\* then waits in recv for ever, and with --inorder the server with it.
ChildrenEnd == \A c \in 1..MaxQuid : Busy(c) ~> ~Busy(c)
=============================================================================
