--------------------------- MODULE ServicesProofs ---------------------------
(***************************************************************************)
(* Proofs about the four services of MCServices: each on its own, for all  *)
(* values of its constants, and then for the specification that runs them. *)
(***************************************************************************)
EXTENDS MCServices, SetLemmas, TLAPS

(* The heartbeat of a job.  While no timeout came too early, at most one report
   is on its way, the one that the thread waits for; a process that died may
   leave it at the master, but sends no other. *)

ControlSpec == ControlInit /\ [][ControlNext]_controlVars

CountsAreNat ==
    /\ {nth, report, seen, sock, late} \subseteq Nat
    /\ \A m \in out \cup inbox : m.nth \in Nat

OneReport ==
    /\ \A m \in out \cup inbox : m = [sock |-> sock, nth |-> report]
    /\ out = {} \/ inbox = {}
    /\ out \cup inbox # {} => heart \in {"waiting", "ended"} /\ ~replied
    /\ replied => heart = "waiting"

ReportInv ==
    /\ CountsAreNat
    /\ main = "new" => heart = "none"
    /\ late = 0 => OneReport /\ ~behind /\ seen <= report /\ report <= nth

LEMMA ReportStep == ReportInv /\ [ControlNext]_controlVars => ReportInv'
<1> SUFFICES ASSUME ReportInv, [ControlNext]_controlVars PROVE ReportInv'
  OBVIOUS
<1> USE DEF ReportInv, CountsAreNat, OneReport, jobVars, heartVars, wire, masterVars
<1>1. CASE StartHeart
  BY <1>1 DEF StartHeart
<1>2. CASE SetActive \/ StopHeart \/ Joined \/ UpdateProgress
  BY <1>2 DEF SetActive, StopHeart, Joined, UpdateProgress
<1>3. CASE \E s \in DOMAIN Follows : SetState(s)
  BY <1>3 DEF SetState
<1>4. CASE ReturnEarly \/ AssertFails
  BY <1>4 DEF ReturnEarly, AssertFails
<1>5. CASE TestActive
  BY <1>5 DEF TestActive
<1>6. CASE Wake
  BY <1>6 DEF Wake
<1>7. CASE SendReport
  BY <1>7 DEF SendReport
<1>8. CASE SendFails
  BY <1>8 DEF SendFails
<1>9. CASE RecvReply
  BY <1>9 DEF RecvReply
<1>10. CASE RecvTimeout
  <2>1. late' \in Nat /\ (late' = 0 => late = 0 /\ Lost)
    BY <1>10 DEF RecvTimeout
  <2> QED BY <1>10, <2>1 DEF RecvTimeout, Lost
<1>11. CASE CloseSocket
  BY <1>11 DEF CloseSocket
<1>12. CASE Transfer
  BY <1>12 DEF Transfer
<1>13. CASE Deliver
  <2> PICK m \in inbox : HandleReport(m)
    BY <1>13 DEF Deliver
  <2>1. /\ inbox' = inbox \ {m} /\ seen' = m.nth
        /\ UNCHANGED <<main, nth, heart, report, sock, out, late>>
    BY DEF HandleReport
  <2>2. late = 0 => m.nth = report /\ m.sock = sock /\ out = {} /\ inbox' = {} /\ ~(m.nth < seen)
    BY <2>1
  <2>3. late = 0 => ~behind'
    BY <2>2, Zenon DEF HandleReport
  <2>4. replied' => replied \/ heart = "waiting"
    BY Zenon DEF HandleReport
  <2> QED BY <2>1, <2>2, <2>3, <2>4
<1>14. CASE MasterDies
  <2>1. replied' => replied
    BY <1>14, Zenon DEF MasterDies
  <2>2. /\ inbox' = {} /\ seen' = 0
        /\ UNCHANGED <<main, nth, heart, report, sock, out, late, behind>>
    BY <1>14 DEF MasterDies
  <2> QED BY <2>1, <2>2
<1>15. CASE MasterReturns
  BY <1>15 DEF MasterReturns
<1>16. CASE UNCHANGED controlVars
  BY <1>16 DEF controlVars
<1> QED
  BY <1>1, <1>2, <1>3, <1>4, <1>5, <1>6, <1>7, <1>8, <1>9, <1>10, <1>11, <1>12, <1>13,
     <1>14, <1>15, <1>16 DEF ControlNext, JobStep, HeartStep

\* The master sees the states of a job in order, however long the job runs and
\* however often the master dies, unless a timeout struck too early.
THEOREM SeenInOrderTheorem == ControlSpec => []SeenInOrder
<1>1. ControlInit => ReportInv
  BY DEF ControlInit, ReportInv, CountsAreNat, OneReport
<1>2. ReportInv => SeenInOrder
  BY DEF ReportInv, CountsAreNat, SeenInOrder
<1> QED BY <1>1, <1>2, ReportStep, PTL DEF ControlSpec

-----------------------------------------------------------------------------
(* The web server.  Until the vector is cleared for the last time it holds every
   running thread that no cleanup forgot; Stop has joined those before `pos`, and
   a joined thread never runs again. *)

WebSpec == WebInit /\ [][WebNext]_webVars

Up == server \in {"accepting", "cleaning", "stopping"}

WebTypes ==
    /\ server \in {"accepting", "cleaning", "stopping", "deleting", "returning", "exited"}
    /\ threads \in Seq(Client) /\ pos \in Nat \ {0}
    /\ handler \in [Client -> {"none", "reading", "replying", "ended", "joined"}]
    /\ server = "cleaning" => arriving \in Client

Tracked(c) == Running(c) => c \in forgotten \/ (Up /\ \E i \in 1..Len(threads) : threads[i] = c)

ThreadInv ==
    /\ WebTypes
    /\ Up => logger
    /\ \A c \in Client : Tracked(c)
    /\ server = "stopping" =>
          \A i \in 1..(pos - 1) : i <= Len(threads) /\ handler[threads[i]] = "joined"

\* A step of a handler's thread alone: it may end, and never starts again.
LEMMA HandlerKeepsThreads ==
    ASSUME ThreadInv, NEW c \in Client, NEW from \in {"reading", "replying"},
           NEW to \in {"reading", "replying", "ended"}, HandlerStep(c, from, to)
    PROVE  ThreadInv'
<1> USE DEF ThreadInv, WebTypes, HandlerStep, mainVars, history
<1>1. /\ UNCHANGED <<server, threads, pos, arriving, logger, forgotten>>
      /\ \A d \in Client : handler'[d] = IF d = c THEN to ELSE handler[d]
      /\ handler[c] = from
  OBVIOUS
<1>2. WebTypes'
  BY <1>1
<1>3. \A d \in Client : Tracked(d)'
  BY <1>1 DEF Tracked, Running, Up
<1>4. server = "stopping" =>
          \A i \in 1..(pos - 1) : i <= Len(threads) /\ handler'[threads[i]] = "joined"
  BY <1>1
<1> QED BY <1>1, <1>2, <1>3, <1>4 DEF Up

\* The two outcomes of CreateThread.
Made(c, others) ==
    /\ threads' = Append(others, c) /\ handler' = [handler EXCEPT ![c] = "reading"]
    /\ server' \in {"accepting", "stopping"}
NotMade(others) == threads' = others /\ UNCHANGED handler /\ server' = "stopping"

LEMMA CreateCases ==
    ASSUME NEW c, NEW others, Create(c, others)
    PROVE  Made(c, others) \/ NotMade(others)
  BY DEF Create, Made, NotMade, Onward

LEMMA ThreadStep == ThreadInv /\ [WebNext]_webVars => ThreadInv'
<1> SUFFICES ASSUME ThreadInv, [WebNext]_webVars PROVE ThreadInv'
  OBVIOUS
<1>0. WebTypes /\ (Up => logger) /\ \A c \in Client : Tracked(c)
  BY DEF ThreadInv
<1>1. ASSUME NEW c \in Client, AcceptClient(c) PROVE ThreadInv'
  <2>1. server = "accepting" /\ handler[c] = "none" /\ pos' = 1 /\ UNCHANGED <<logger, forgotten>>
    BY <1>1 DEF AcceptClient
  <2>2. CASE Len(threads) > MaxThreads
    <3>1. server' = "cleaning" /\ arriving' = c /\ UNCHANGED <<threads, handler>>
      BY <1>1, <2>2 DEF AcceptClient
    <3> QED BY <1>0, <2>1, <3>1 DEF ThreadInv, WebTypes, Tracked, Running, Up
  <2>3. CASE Made(c, threads)
    <3>1. /\ threads' = Append(threads, c) /\ handler' = [handler EXCEPT ![c] = "reading"]
          /\ server' \in {"accepting", "stopping"}
      BY <2>3 DEF Made
    <3>2. /\ threads' \in Seq(Client) /\ Len(threads') = Len(threads) + 1
          /\ \A i \in 1..Len(threads) : threads'[i] = threads[i]
          /\ threads'[Len(threads) + 1] = c /\ Len(threads) \in Nat
      BY <1>0, <3>1 DEF WebTypes
    <3>3. ASSUME NEW d \in Client PROVE Tracked(d)'
      <4>1. Running(d)' => d = c \/ Running(d)
        BY <1>0, <3>1 DEF WebTypes, Running
      <4> QED BY <1>0, <2>1, <3>1, <3>2, <4>1 DEF Tracked, Up
    <3>4. WebTypes'
      BY <1>0, <2>1, <3>1, <3>2 DEF WebTypes
    <3> QED BY <1>0, <2>1, <3>1, <3>3, <3>4 DEF ThreadInv, Up
  <2>4. CASE NotMade(threads)
    BY <1>0, <2>1, <2>4 DEF NotMade, ThreadInv, WebTypes, Tracked, Running, Up
  <2> QED BY <1>1, <2>2, <2>3, <2>4, CreateCases DEF AcceptClient
<1>2. CASE AcceptFails
  BY <1>0, <1>2 DEF AcceptFails, handlerVars, history, ThreadInv, WebTypes, Tracked, Running, Up
<1>3. CASE Signal
  <2>1. UNCHANGED <<threads, arriving, logger, forgotten>>
    BY <1>3 DEF Signal, history
  <2>2. CASE server = "accepting" /\ server' = "stopping" /\ pos' = 1 /\ UNCHANGED handler
    BY <1>0, <2>1, <2>2 DEF ThreadInv, WebTypes, Tracked, Running, Up
  <2>3. ASSUME NEW c \in Client, handler[c] = "reading",
               handler' = [handler EXCEPT ![c] = "ended"], UNCHANGED <<server, pos>>
        PROVE  ThreadInv'
    <3>1. \A d \in Client : handler'[d] = IF d = c THEN "ended" ELSE handler[d]
      BY <1>0, <2>3 DEF WebTypes
    <3>2. WebTypes'
      BY <1>0, <2>1, <2>3 DEF WebTypes
    <3>3. server = "stopping" =>
              \A i \in 1..(pos - 1) : i <= Len(threads) /\ handler'[threads[i]] = "joined"
      BY <1>0, <2>3, <3>1 DEF ThreadInv, WebTypes
    <3> QED BY <1>0, <2>1, <2>3, <3>1, <3>2, <3>3 DEF ThreadInv, Tracked, Running, Up
  <2>4. CASE UNCHANGED <<server, pos, handler>>
    BY <1>0, <2>1, <2>4 DEF ThreadInv, WebTypes, Tracked, Running, Up
  <2> QED BY <1>3, <2>2, <2>3, <2>4 DEF Signal
<1>4. CASE Destroy
  BY <1>0, <1>4 DEF Destroy, mainVars, history, ThreadInv, WebTypes, Tracked, Running, Up
<1>5. CASE Join
  <2> DEFINE c == threads[pos]
  <2>1. /\ InStop /\ pos <= Bound /\ handler[c] = "ended" /\ pos' = pos + 1
        /\ handler' = [handler EXCEPT ![c] = "joined"]
        /\ UNCHANGED <<server, threads, arriving, logger, forgotten>>
    BY <1>5 DEF Join, history
  <2>2. pos \in 1..Len(threads) /\ c \in Client
    BY <1>0, <2>1 DEF WebTypes, Bound
  <2>3. \A d \in Client : handler'[d] = IF d = c THEN "joined" ELSE handler[d]
    BY <1>0, <2>1 DEF WebTypes
  <2>4. WebTypes'
    BY <1>0, <2>1, <2>2 DEF WebTypes
  <2>5. \A d \in Client : Tracked(d)'
    BY <1>0, <2>1, <2>3 DEF Tracked, Running, Up
  <2>6. ASSUME server = "stopping", NEW i \in 1..pos
        PROVE  i <= Len(threads) /\ handler'[threads[i]] = "joined"
    BY <1>0, <2>2, <2>3, <2>6 DEF ThreadInv, WebTypes
  <2> QED BY <1>0, <2>1, <2>2, <2>4, <2>5, <2>6 DEF ThreadInv, Up
<1>6. CASE Cleared
  <2>1. InStop /\ pos > Bound /\ pos' = 1 /\ UNCHANGED logger
    BY <1>6 DEF Cleared
  <2>2. CASE server = "cleaning"
    <3>1. /\ arriving \in Client /\ (Made(arriving, <<>>) \/ NotMade(<<>>))
          /\ forgotten' = forgotten \cup {c \in Range(threads) : handler[c] # "joined"}
      BY <1>0, <1>6, <2>2, CreateCases DEF Cleared, WebTypes
    <3>2. \A d \in Client : Running(d) => d \in forgotten'
      BY <1>0, <3>1 DEF Tracked, Running, Range, WebTypes
    <3>3. CASE Made(arriving, <<>>)
      <4>1. /\ threads' = <<arriving>> /\ handler' = [handler EXCEPT ![arriving] = "reading"]
            /\ server' \in {"accepting", "stopping"}
        BY <3>3 DEF Made
      <4>2. ASSUME NEW d \in Client PROVE Tracked(d)'
        <5>1. CASE d = arriving
          <6>1. threads'[1] = d /\ 1 \in 1..Len(threads')
            BY <4>1, <5>1
          <6> QED BY <4>1, <6>1 DEF Tracked, Up
        <5>2. CASE d # arriving
          <6>1. handler'[d] = handler[d]
            BY <1>0, <4>1, <5>2 DEF WebTypes
          <6> QED BY <3>2, <6>1 DEF Tracked, Running
        <5> QED BY <5>1, <5>2
      <4>3. WebTypes'
        BY <1>0, <2>1, <3>1, <4>1 DEF WebTypes
      <4> QED BY <1>0, <2>1, <2>2, <4>1, <4>2, <4>3 DEF ThreadInv, Up
    <3>4. CASE NotMade(<<>>)
      BY <1>0, <2>1, <2>2, <3>2, <3>4 DEF NotMade, ThreadInv, WebTypes, Tracked, Running, Up
    <3> QED BY <3>1, <3>3, <3>4
  <2>3. CASE server = "stopping"
    <3>1. threads' = <<>> /\ server' = "deleting" /\ UNCHANGED <<handler, forgotten>>
      BY <1>6, <2>3 DEF Cleared
    <3>2. \A i \in 1..Len(threads) : handler[threads[i]] = "joined"
      BY <1>0, <2>1, <2>3 DEF ThreadInv, WebTypes, Bound
    <3>3. \A c \in Client : Running(c) => c \in forgotten
      BY <1>0, <3>2 DEF Tracked, Running
    <3> QED BY <1>0, <2>1, <3>1, <3>3 DEF ThreadInv, WebTypes, Tracked, Running, Up
  <2> QED BY <2>1, <2>2, <2>3 DEF InStop
<1>7. CASE DeleteServer
  BY <1>0, <1>7 DEF DeleteServer, handlerVars, history, ThreadInv, WebTypes, Tracked, Running, Up
<1>8. CASE ExitProcess
  BY <1>0, <1>8 DEF ExitProcess, history, ThreadInv, WebTypes, Tracked, Running, Up
<1>9. ASSUME NEW c \in Client, Receive(c) \/ Respond(c) \/ Hangup(c) \/ Cancel(c)
      PROVE  ThreadInv'
  BY <1>9, HandlerKeepsThreads DEF Receive, Respond, Hangup, Cancel
<1>10. CASE UNCHANGED webVars
  BY <1>0, <1>10 DEF webVars, mainVars, handlerVars, history, ThreadInv, WebTypes, Tracked, Running, Up
<1> QED
  BY <1>1, <1>2, <1>3, <1>4, <1>5, <1>6, <1>7, <1>8, <1>9, <1>10
     DEF WebNext, StopStep, CancelStep

\* ~CServer deletes the logger when no thread that logs is left but the ones that a
\* cleanup forgot, for any number of clients and any size of the vector.
THEOREM LoggerOutlivesThreadsTheorem == WebSpec => []LoggerOutlivesThreads
<1>1. WebInit => ThreadInv
  BY DEF WebInit, ThreadInv, WebTypes, Tracked, Running, Up
<1>2. ThreadInv => LoggerOutlivesThreads
  BY DEF ThreadInv, Tracked, LoggerOutlivesThreads
<1> QED BY <1>1, <1>2, ThreadStep, PTL DEF WebSpec

-----------------------------------------------------------------------------
(* The ring of the cynder workers. *)

RingSpec == RingInit /\ [][RingNext]_ring_

\* A point that is taken is one of its node's own.
RingInv ==
    /\ ring_ \in [Point -> Node \cup {NoNode}]
    /\ \A p \in Point : ring_[p] # NoNode => p \in NodeHash[ring_[p]]

LEMMA RingStep == RingInv /\ [RingNext]_ring_ => RingInv'
<1> SUFFICES ASSUME RingInv, [RingNext]_ring_ PROVE RingInv'
  OBVIOUS
<1>1. ASSUME NEW n \in Node, addNode(n) \/ removeNode(n) PROVE RingInv'
  BY <1>1, RingConstants DEF RingInv, addNode, removeNode
<1> QED BY <1>1 DEF RingInv, RingNext

\* An added node takes over the points it hashes to, and the others stay.
LEMMA AddMovesToNew ==
    ASSUME RingInv, NEW n \in Node, NEW k \in Key, addNode(n)
    PROVE  getNode(k)' \in {getNode(k), n}
<1> DEFINE used == {p \in Point : ring_[p] # NoNode}
           above == {p \in used : p >= KeyHash[k]}
           first == IF above # {} THEN above ELSE used
           usedN == {p \in Point : ring_'[p] # NoNode}
           aboveN == {p \in usedN : p >= KeyHash[k]}
           firstN == IF aboveN # {} THEN aboveN ELSE usedN
<1>1. getNode(k) = (IF used = {} THEN NoNode ELSE ring_[Min(first)])
  BY DEF getNode
<1>2. getNode(k)' = (IF usedN = {} THEN NoNode ELSE ring_'[Min(firstN)])
  BY DEF getNode
<1>3. /\ usedN # {} /\ used \subseteq usedN
      /\ \A p \in Point : ring_'[p] = IF p \in NodeHash[n] THEN n ELSE ring_[p]
  BY RingConstants DEF addNode, Point, RingInv
<1>4. first \in SUBSET Nat /\ firstN \in SUBSET Nat /\ firstN # {} /\ firstN \subseteq usedN
  BY <1>3, RingConstants
<1>5. CASE Min(firstN) \in NodeHash[n]
  BY <1>2, <1>3, <1>4, <1>5, MinOfNats
<1>6. CASE Min(firstN) \notin NodeHash[n]
  <2>1. Min(firstN) \in usedN /\ Min(firstN) \in firstN /\ \A x \in firstN : Min(firstN) <= x
    BY <1>4, MinOfNats
  <2>2. Min(firstN) \in used /\ ring_'[Min(firstN)] = ring_[Min(firstN)]
    BY <1>3, <1>6, <2>1
  <2>3. first \subseteq firstN /\ Min(firstN) \in first
    BY <1>3, <2>1, <2>2
  <2>4. Min(first) \in first /\ \A x \in first : Min(first) <= x
    BY <1>4, <2>3, MinOfNats
  <2> HIDE DEF first, firstN
  <2>5. Min(first) = Min(firstN)
    <3>1. Min(first) <= Min(firstN) /\ Min(firstN) <= Min(first)
      BY <2>1, <2>3, <2>4
    <3>2. Min(first) \in Nat /\ Min(firstN) \in Nat
      BY <1>4, <2>1, <2>4
    <3> QED BY <3>1, <3>2
  <2> QED BY <1>1, <1>2, <1>3, <2>2, <2>5
<1> QED BY <1>5, <1>6

\* A removed node gives up its points; the key whose first point stays keeps it.
LEMMA RemoveMovesOwn ==
    ASSUME RingInv, NEW n \in Node, NEW k \in Key, removeNode(n)
    PROVE  getNode(k)' = getNode(k) \/ getNode(k) = n \/ Collides(n, getNode(k))
<1> DEFINE used == {p \in Point : ring_[p] # NoNode}
           above == {p \in used : p >= KeyHash[k]}
           first == IF above # {} THEN above ELSE used
           usedN == {p \in Point : ring_'[p] # NoNode}
           aboveN == {p \in usedN : p >= KeyHash[k]}
           firstN == IF aboveN # {} THEN aboveN ELSE usedN
<1>1. getNode(k) = (IF used = {} THEN NoNode ELSE ring_[Min(first)])
  BY DEF getNode
<1>2. getNode(k)' = (IF usedN = {} THEN NoNode ELSE ring_'[Min(firstN)])
  BY DEF getNode
<1>3. /\ usedN \subseteq used
      /\ \A p \in Point : ring_'[p] = IF p \in NodeHash[n] THEN NoNode ELSE ring_[p]
  BY RingConstants DEF removeNode, Point, RingInv
<1>4. first \in SUBSET Nat /\ firstN \in SUBSET Nat /\ first \subseteq used
  BY <1>3, RingConstants
<1>5. CASE used = {}
  BY <1>1, <1>2, <1>3, <1>5
<1>6. CASE used # {}
  <2>1. Min(first) \in used /\ Min(first) \in first /\ \A x \in first : Min(first) <= x
    BY <1>4, <1>6, MinOfNats
  <2>2. CASE Min(first) \in NodeHash[n]
    <3>1. ring_[Min(first)] # NoNode /\ Min(first) \in NodeHash[ring_[Min(first)]]
      BY <2>1 DEF RingInv
    <3> QED BY <1>1, <1>6, <2>2, <3>1 DEF Collides
  <2>3. CASE Min(first) \notin NodeHash[n]
    <3>1. Min(first) \in usedN /\ ring_'[Min(first)] = ring_[Min(first)]
      BY <1>3, <2>1, <2>3
    <3>2. firstN \subseteq first /\ Min(first) \in firstN
      BY <1>3, <2>1, <3>1
    <3>3. Min(firstN) \in firstN /\ \A x \in firstN : Min(firstN) <= x
      BY <1>4, <3>2, MinOfNats
    <3> HIDE DEF first, firstN
    <3>4. Min(first) = Min(firstN)
      <4>1. Min(first) <= Min(firstN) /\ Min(firstN) <= Min(first)
        BY <2>1, <3>2, <3>3
      <4>2. Min(first) \in Nat /\ Min(firstN) \in Nat
        BY <1>4, <2>1, <3>3
      <4> QED BY <4>1, <4>2
    <3> QED BY <1>1, <1>2, <1>6, <3>1, <3>4
  <2> QED BY <2>2, <2>3
<1> QED BY <1>5, <1>6

\* Adding a worker moves records only to it, and removing one moves only its own
\* records and those of a worker it shares a point with, on every ring.
THEOREM OnlyOwnKeysMoveTheorem == RingSpec => OnlyOwnKeysMove
<1> DEFINE Moves == \A n \in Node, k \in Key :
          /\ addNode(n) => getNode(k)' \in {getNode(k), n}
          /\ removeNode(n) =>
                \/ getNode(k)' = getNode(k)
                \/ getNode(k) = n \/ Collides(n, getNode(k))
<1>1. RingInit => RingInv
  BY DEF RingInit, RingInv
<1>2. RingInv /\ [RingNext]_ring_ => [Moves]_ring_
  BY AddMovesToNew, RemoveMovesOwn
<1>3. RingSpec => [][Moves]_ring_
  BY <1>1, <1>2, RingStep, PTL DEF RingSpec
<1> QED BY <1>3 DEF OnlyOwnKeysMove

-----------------------------------------------------------------------------
(* The connection pool of mavredis.  Until Release a connection is in one place
   of the list of its own node or in the hands of one thread. *)

PoolSpec == PoolInit /\ [][PoolNext]_poolVars

Conn == Group \X (1..PoolSize)

Listed(c) == \E i \in 1..Len(free[c[1]]) : free[c[1]][i] = c

PoolTypes ==
    /\ made \subseteq Conn /\ held \in [Thread -> made \cup {NoConn}]
    /\ free \in [Group -> Seq(Conn)]
    /\ nodes \in 0..(Slaves + 1) /\ \A c \in made : c[1] < nodes

\* Every list has its node's connections, each once, and none that a thread holds.
ListsAreDistinct ==
    /\ \A g \in Group : \A i \in 1..Len(free[g]) :
          /\ free[g][i] \in made /\ free[g][i][1] = g
          /\ \A j \in 1..Len(free[g]) : free[g][i] = free[g][j] => i = j
          /\ \A t \in Thread : held[t] # free[g][i]
    /\ \A t, u \in Thread : held[t] = held[u] /\ held[t] # NoConn => t = u

NoneIsLost == \A c \in made : Listed(c) \/ \E t \in Thread : held[t] = c

PoolInv ==
    /\ PoolTypes
    /\ ~released => ListsAreDistinct /\ NoneIsLost
    /\ DryOnlyIfUndersized
    /\ undefined \/ mStatus = "DEAD" => nodes = Slaves + 1

NodeConns(g) == {c \in made : c[1] = g}

\* ConnectRedisNodes fills a list with each new connection once.
LEMMA SetToSeqLists ==
    ASSUME NEW S, IsFiniteSet(S)
    PROVE  /\ SetToSeq(S) \in Seq(S)
           /\ \A i, j \in 1..Len(SetToSeq(S)) : SetToSeq(S)[i] = SetToSeq(S)[j] => i = j
           /\ \A x \in S : \E i \in 1..Len(SetToSeq(S)) : SetToSeq(S)[i] = x
<1> DEFINE n == Cardinality(S)
           s == SetToSeq(S)
<1>1. n \in Nat /\ ExistsBijection(1..n, S)
  BY FS_CardinalityType
<1>2. \E f \in [1..n -> S] : IsInjective(f)
  BY <1>1 DEF ExistsBijection, Bijection, Injection
<1>3. s \in [1..n -> S] /\ IsInjective(s)
  BY <1>2 DEF SetToSeq
<1>4. IsFiniteSet(1..n) /\ Cardinality(1..n) = n
  BY <1>1, FS_Interval
<1>5. s \in Injection(1..n, S)
  BY <1>3 DEF Injection
<1>6. s \in Surjection(1..n, S)
  BY <1>1, <1>4, <1>5, FS_Injection
<1>7. s \in Seq(S) /\ Len(s) = n
  BY <1>1, <1>3
<1>8. \A i, j \in 1..n : s[i] = s[j] => i = j
  BY <1>3 DEF IsInjective
<1>9. \A x \in S : \E i \in 1..n : s[i] = x
  BY <1>6 DEF Surjection
<1> QED BY <1>7, <1>8, <1>9

\* A list that is empty has all its node's connections in the hands of threads:
\* a thread without one then finds fewer connections than threads.
LEMMA EmptyMeansUndersized ==
    ASSUME PoolTypes, NoneIsLost, NEW g \in Group, free[g] = <<>>,
           NEW t \in Thread, held[t] = NoConn
    PROVE  Size(g) < Cardinality(Thread)
<1> DEFINE users == {u \in Thread : held[u] \in NodeConns(g)}
           f == [u \in users |-> held[u]]
<1>1. NoConn \notin NodeConns(g)
  BY PoolConstants DEF PoolTypes, NodeConns, Conn, Group
<1>2. IsFiniteSet(users) /\ users \subseteq Thread \ {t} /\ IsFiniteSet(Thread)
  BY <1>1, FS_Subset, PoolConstants
<1>3. ASSUME NEW c \in NodeConns(g) PROVE \E u \in users : f[u] = c
  <2>1. c \in made /\ c[1] = g /\ ~Listed(c)
    BY DEF NodeConns, Listed
  <2> QED BY <2>1 DEF NoneIsLost
<1>4. f \in Surjection(users, NodeConns(g))
  BY <1>3 DEF Surjection
<1>5. Cardinality(NodeConns(g)) <= Cardinality(users) /\ IsFiniteSet(NodeConns(g))
  BY <1>2, <1>4, FS_Surjection
<1>6. IsFiniteSet(Thread \ {t}) /\ Cardinality(Thread \ {t}) = Cardinality(Thread) - 1
  BY <1>2, FS_RemoveElement
<1>7. Cardinality(users) <= Cardinality(Thread \ {t})
  BY <1>2, <1>6, FS_Subset
<1>8. {Cardinality(NodeConns(g)), Cardinality(users), Cardinality(Thread)} \subseteq Nat
  BY <1>2, <1>5, FS_CardinalityType
<1> QED BY <1>5, <1>6, <1>7, <1>8 DEF Size, NodeConns

\* pop_front: the thread holds what the list has given up.
LEMMA TakeKeepsAll ==
    ASSUME PoolTypes, ListsAreDistinct, NoneIsLost, NEW g \in Group, NEW t \in Thread,
           held[t] = NoConn, free[g] # <<>>,
           held' = [held EXCEPT ![t] = Head(free[g])],
           free' = [free EXCEPT ![g] = Tail(@)],
           UNCHANGED <<made, nodes>>
    PROVE  PoolTypes' /\ ListsAreDistinct' /\ NoneIsLost'
<1> DEFINE c == Head(free[g])
           n == Len(free[g])
<1>1. /\ free[g] \in Seq(Conn) /\ n \in Nat \ {0} /\ c = free[g][1]
      /\ Len(Tail(free[g])) = n - 1 /\ Tail(free[g]) \in Seq(Conn)
      /\ \A i \in 1..(n - 1) : Tail(free[g])[i] = free[g][i + 1]
  BY DEF PoolTypes
<1>2. c \in made /\ c[1] = g /\ c # NoConn
  BY <1>1 DEF PoolTypes, ListsAreDistinct
<1>3. /\ \A h \in Group : free'[h] = IF h = g THEN Tail(free[g]) ELSE free[h]
      /\ \A u \in Thread : held'[u] = IF u = t THEN c ELSE held[u]
  BY DEF PoolTypes
<1> HIDE DEF c, n
<1>4. PoolTypes'
  BY <1>1, <1>2 DEF PoolTypes, c
<1>5. ASSUME NEW h \in Group, NEW i \in 1..Len(free'[h])
      PROVE  /\ free'[h][i] \in made /\ free'[h][i][1] = h
             /\ \A j \in 1..Len(free'[h]) : free'[h][i] = free'[h][j] => i = j
             /\ \A u \in Thread : held'[u] # free'[h][i]
  <2>1. CASE h # g
    <3>1. free'[h] = free[h] /\ i \in 1..Len(free[h])
      BY <1>3, <2>1
    <3>2. free[h][i] \in made /\ free[h][i][1] = h /\ free[h][i] # c
      BY <1>2, <2>1, <3>1 DEF ListsAreDistinct
    <3> QED BY <1>3, <3>1, <3>2 DEF ListsAreDistinct
  <2>2. CASE h = g
    <3>0. free'[h] = Tail(free[g]) /\ Len(free'[h]) = n - 1
      BY <1>1, <1>3, <2>2
    <3>a. n \in Nat \ {0}
      BY <1>1
    <3>1. i \in 1..(n - 1) /\ 1 \in 1..n /\ \A j \in 1..(n - 1) : j + 1 \in 1..n
      BY <3>0, <3>a
    <3>2. \A j \in 1..(n - 1) : free'[h][j] = free[g][j + 1] /\ j + 1 \in 1..n
      BY <1>1, <3>0, <3>1
    <3>3. free'[h][i] # c
      BY <1>1, <3>1, <3>2 DEF ListsAreDistinct, n
    <3>4. \A u \in Thread : held'[u] # free'[h][i]
      BY <1>3, <3>1, <3>2, <3>3 DEF ListsAreDistinct, n
    <3>5. free'[h][i] \in made /\ free'[h][i][1] = h
      BY <2>2, <3>1, <3>2 DEF ListsAreDistinct, n
    <3>6. ASSUME NEW j \in 1..(n - 1), free'[h][i] = free'[h][j] PROVE i = j
      <4>1. free[g][i + 1] = free[g][j + 1] /\ i + 1 \in 1..n /\ j + 1 \in 1..n
        BY <3>1, <3>2, <3>6
      <4>2. i + 1 = j + 1
        BY <4>1 DEF ListsAreDistinct, n
      <4> QED BY <1>1, <3>1, <4>2
    <3> QED BY <3>0, <3>4, <3>5, <3>6
  <2> QED BY <2>1, <2>2
<1>6. \A u, v \in Thread : held'[u] = held'[v] /\ held'[u] # NoConn => u = v
  <2>1. \A u \in Thread : held[u] # c
    BY <1>1 DEF ListsAreDistinct, n
  <2> QED BY <1>3, <2>1 DEF ListsAreDistinct
<1>7. ASSUME NEW d \in made PROVE Listed(d)' \/ \E u \in Thread : held'[u] = d
  <2>1. CASE d = c
    BY <1>3, <2>1
  <2>2. CASE \E u \in Thread : held[u] = d
    <3>1. PICK u \in Thread : held[u] = d
      BY <2>2
    <3>2. u # t
      BY <3>1, PoolConstants DEF PoolTypes, Conn, Group
    <3> QED BY <1>3, <3>1, <3>2
  <2>3. CASE d # c /\ Listed(d)
    <3>1. PICK i \in 1..Len(free[d[1]]) : free[d[1]][i] = d
      BY <2>3 DEF Listed
    <3>2. d[1] \in Group
      BY DEF PoolTypes, Conn
    <3>3. CASE d[1] # g
      BY <1>3, <3>1, <3>2, <3>3 DEF Listed
    <3>4. CASE d[1] = g
      <4>1. i # 1 /\ i \in 1..n
        BY <1>1, <2>3, <3>1, <3>4 DEF n
      <4>2. i - 1 \in 1..(n - 1) /\ Tail(free[g])[i - 1] = free[g][(i - 1) + 1] /\ (i - 1) + 1 = i
        BY <1>1, <4>1
      <4>3. free'[d[1]] = Tail(free[g])
        BY <1>3, <3>2, <3>4
      <4> QED BY <1>1, <3>1, <3>4, <4>2, <4>3 DEF Listed
    <3> QED BY <3>3, <3>4
  <2> QED BY <2>1, <2>2, <2>3 DEF NoneIsLost
<1> QED BY <1>4, <1>5, <1>6, <1>7 DEF ListsAreDistinct, NoneIsLost

\* push_back: FreeConn puts a connection into the list of its own node.
LEMMA GiveBackKeepsAll ==
    ASSUME PoolTypes, ListsAreDistinct, NoneIsLost, NEW t \in Thread, held[t] # NoConn,
           held' = [held EXCEPT ![t] = NoConn],
           free' = [free EXCEPT ![held[t][1]] = Append(@, held[t])],
           UNCHANGED <<made, nodes>>
    PROVE  PoolTypes' /\ ListsAreDistinct' /\ NoneIsLost'
<1> DEFINE c == held[t]
           g == c[1]
           n == Len(free[g])
<1>1. c \in made /\ c \in Conn /\ g \in Group
  BY DEF PoolTypes, Conn
<1>2. /\ free[g] \in Seq(Conn) /\ n \in Nat /\ Append(free[g], c) \in Seq(Conn)
      /\ Len(Append(free[g], c)) = n + 1 /\ Append(free[g], c)[n + 1] = c
      /\ \A i \in 1..n : Append(free[g], c)[i] = free[g][i]
  BY <1>1 DEF PoolTypes
<1>3. /\ \A h \in Group : free'[h] = IF h = g THEN Append(free[g], c) ELSE free[h]
      /\ \A u \in Thread : held'[u] = IF u = t THEN NoConn ELSE held[u]
  BY DEF PoolTypes
<1>4. NoConn \notin made
  BY PoolConstants DEF PoolTypes, Conn, Group
<1>5. PoolTypes'
  BY <1>1, <1>2 DEF PoolTypes
<1> HIDE DEF c, g, n
<1>6. ASSUME NEW h \in Group, NEW i \in 1..Len(free'[h])
      PROVE  /\ free'[h][i] \in made /\ free'[h][i][1] = h
             /\ \A j \in 1..Len(free'[h]) : free'[h][i] = free'[h][j] => i = j
             /\ \A u \in Thread : held'[u] # free'[h][i]
  <2>1. CASE h # g
    <3>1. free'[h] = free[h]
      BY <1>3, <2>1
    <3>2. /\ free[h][i] \in made /\ free[h][i][1] = h
          /\ \A j \in 1..Len(free[h]) : free[h][i] = free[h][j] => i = j
          /\ \A u \in Thread : held[u] # free[h][i]
      BY <3>1 DEF ListsAreDistinct
    <3>3. \A u \in Thread : held'[u] # free[h][i]
      BY <1>3, <1>4, <3>2
    <3> QED BY <3>1, <3>2, <3>3
  <2>2. CASE h = g
    <3>1. Len(free'[h]) = n + 1 /\ free'[h] = Append(free[g], c)
      BY <1>2, <1>3, <2>2
    <3>2. \A j \in 1..n : free'[h][j] = free[g][j] /\ free[g][j] # c /\ free[g][j] \in made
                             /\ free[g][j][1] = g /\ \A u \in Thread : held[u] # free[g][j]
      <4>1. \A j \in 1..n : free'[h][j] = free[g][j]
        BY <1>2, <3>1
      <4>2. \A j \in 1..n : free[g][j] \in made /\ free[g][j][1] = g
                               /\ \A u \in Thread : held[u] # free[g][j]
        BY <1>1 DEF ListsAreDistinct, n
      <4> QED BY <4>1, <4>2 DEF c
    <3>3. \A u \in Thread : u # t => held[u] # c
      BY <1>1, <1>4 DEF ListsAreDistinct, c
    <3>4. CASE i = n + 1
      <4>1. free'[h][i] = c /\ c[1] = h
        <5>1. c[1] = h
          BY <2>2 DEF g
        <5>2. free'[h][i] = c
          BY <1>2, <3>1, <3>4
        <5> QED BY <5>1, <5>2
      <4>2. \A j \in 1..(n + 1) : free'[h][j] = c => j = n + 1
        <5>1. \A j \in 1..(n + 1) : j = n + 1 \/ j \in 1..n
          BY <1>2
        <5>2. \A j \in 1..n : free'[h][j] # c
          BY <3>2
        <5> QED BY <5>1, <5>2
      <4>3. \A u \in Thread : held'[u] # c
        BY <1>1, <1>3, <1>4, <3>3
      <4> QED BY <1>1, <3>1, <3>4, <4>1, <4>2, <4>3
    <3>5. CASE i # n + 1
      <4>1. i \in 1..n
        BY <1>2, <3>1, <3>5
      <4>2. \A j \in 1..n : free[g][i] = free[g][j] => i = j
        BY <1>1, <4>1 DEF ListsAreDistinct, n
      <4>3. \A j \in 1..(n + 1) : free'[h][i] = free'[h][j] => i = j
        <5> SUFFICES ASSUME NEW j \in 1..(n + 1), free'[h][i] = free'[h][j] PROVE i = j
          OBVIOUS
        <5>1. j # n + 1
          BY <1>2, <3>1, <3>2, <4>1
        <5>2. n \in Nat
          BY <1>2
        <5>3. j \in 1..n
          BY <5>1, <5>2
        <5>4. free[g][i] = free[g][j]
          BY <3>2, <4>1, <5>3
        <5> QED BY <4>2, <5>3, <5>4
      <4>4. \A u \in Thread : held'[u] # free'[h][i]
        BY <1>3, <1>4, <3>2, <4>1
      <4> QED BY <2>2, <3>1, <3>2, <4>1, <4>3, <4>4
    <3> QED BY <3>4, <3>5
  <2> QED BY <2>1, <2>2
<1>7. \A u, v \in Thread : held'[u] = held'[v] /\ held'[u] # NoConn => u = v
  BY <1>3 DEF ListsAreDistinct
<1>8. ASSUME NEW d \in made PROVE Listed(d)' \/ \E u \in Thread : held'[u] = d
  <2>0. d[1] \in Group
    BY DEF PoolTypes, Conn
  <2>1. CASE d = c
    <3>1. Len(free'[g]) = n + 1 /\ free'[g][n + 1] = c /\ n \in Nat
      BY <1>1, <1>2, <1>3
    <3>2. n + 1 \in 1..Len(free'[g])
      BY <3>1
    <3> QED BY <2>1, <3>1, <3>2 DEF Listed, g
  <2>2. CASE d # c /\ \E u \in Thread : held[u] = d
    BY <1>3, <2>2 DEF c
  <2>3. CASE Listed(d)
    <3>1. PICK i \in 1..Len(free[d[1]]) : free[d[1]][i] = d
      BY <2>3 DEF Listed
    <3>2. i \in 1..Len(free'[d[1]]) /\ free'[d[1]][i] = d
      BY <1>2, <1>3, <2>0, <3>1 DEF n
    <3> QED BY <3>2 DEF Listed
  <2> QED BY <2>1, <2>2, <2>3 DEF NoneIsLost
<1> QED BY <1>5, <1>6, <1>7, <1>8 DEF ListsAreDistinct, NoneIsLost

\* ConnectRedisNodes: the connections are new, and so is the list they go to.
LEMMA ConnectKeepsAll ==
    ASSUME PoolTypes, ListsAreDistinct, NoneIsLost, NEW g \in Group,
           NEW S \in SUBSET ({g} \X (1..PoolSize)), ConnectRedisNodes(g, S)
    PROVE  ListsAreDistinct' /\ NoneIsLost'
<1> DEFINE s == SetToSeq(S)
<1>1. /\ nodes = g /\ made' = made \cup S /\ held' = held
      /\ \A h \in Group : free'[h] = IF h = g THEN s ELSE free[h]
  BY DEF ConnectRedisNodes, use, PoolTypes
<1>2. IsFiniteSet(S)
  <2>1. IsFiniteSet(1..PoolSize)
    BY FS_Interval, PoolConstants
  <2>2. S \subseteq {<<g, i>> : i \in 1..PoolSize}
    OBVIOUS
  <2> DEFINE T == {i \in 1..PoolSize : <<g, i>> \in S}
             f == [i \in T |-> <<g, i>>]
  <2>3. IsFiniteSet(T)
    BY <2>1, FS_Subset
  <2>4. f \in Surjection(T, S)
    BY <2>2 DEF Surjection
  <2> QED BY <2>3, <2>4, FS_Surjection
<1>3. /\ s \in Seq(S) /\ \A i, j \in 1..Len(s) : s[i] = s[j] => i = j
      /\ \A x \in S : \E i \in 1..Len(s) : s[i] = x
  BY <1>2, SetToSeqLists
<1> HIDE DEF s
<1>4. /\ \A c \in S : c[1] = g
      /\ \A c \in made : c[1] # g
      /\ \A t \in Thread : held[t] \notin S
  <2>1. \A c \in S : c[1] = g /\ c # NoConn
    BY PoolConstants DEF Group
  <2>2. \A c \in made : c[1] # g
    BY <1>1 DEF PoolTypes, Conn, Group
  <2> QED BY <2>1, <2>2 DEF PoolTypes
<1>5. ASSUME NEW h \in Group, NEW i \in 1..Len(free'[h])
      PROVE  /\ free'[h][i] \in made' /\ free'[h][i][1] = h
             /\ \A j \in 1..Len(free'[h]) : free'[h][i] = free'[h][j] => i = j
             /\ \A t \in Thread : held'[t] # free'[h][i]
  <2>1. CASE h # g
    BY <1>1, <2>1 DEF ListsAreDistinct
  <2>2. CASE h = g
    <3>1. free'[h] = s /\ s[i] \in S
      BY <1>1, <1>3, <2>2
    <3>2. s[i][1] = h /\ \A t \in Thread : held[t] # s[i]
      BY <1>4, <2>2, <3>1
    <3> QED BY <1>1, <1>3, <3>1, <3>2
  <2> QED BY <2>1, <2>2
<1>6. ASSUME NEW c \in made' PROVE Listed(c)' \/ \E t \in Thread : held'[t] = c
  <2>1. CASE c \in S
    <3>1. free'[c[1]] = s
      BY <1>1, <1>4, <2>1
    <3> QED BY <1>3, <2>1, <3>1 DEF Listed
  <2>2. CASE c \in made
    <3>1. free'[c[1]] = free[c[1]]
      BY <1>1, <1>4, <2>2 DEF PoolTypes, Conn
    <3> QED BY <1>1, <2>2, <3>1 DEF NoneIsLost, Listed
  <2> QED BY <1>1, <2>1, <2>2
<1>7. \A t, u \in Thread : held'[t] = held'[u] /\ held'[t] # NoConn => t = u
  BY <1>1 DEF ListsAreDistinct
<1> QED BY <1>5, <1>6, <1>7 DEF ListsAreDistinct, NoneIsLost

LEMMA PoolStep == PoolInv /\ [PoolNext]_poolVars => PoolInv'
<1> SUFFICES ASSUME PoolInv, [PoolNext]_poolVars PROVE PoolInv'
  OBVIOUS
<1>0. PoolTypes /\ (~released => ListsAreDistinct /\ NoneIsLost) /\ DryOnlyIfUndersized
  BY DEF PoolInv
<1>1. ASSUME NEW g \in Group, NEW S \in SUBSET ({g} \X (1..PoolSize)), ConnectRedisNodes(g, S)
      PROVE  PoolInv'
  <2>1. /\ nodes = g /\ nodes' = g + 1 /\ made' = made \cup S
        /\ free' = [free EXCEPT ![g] = SetToSeq(S)]
        /\ UNCHANGED <<held, released, undefined>>
        /\ mStatus' \in {mStatus, "WORKING"}
    BY <1>1 DEF ConnectRedisNodes, use
  <2>2. g # Slaves + 1 /\ g \in Nat /\ g + 1 \in 0..(Slaves + 1)
    BY PoolConstants DEF Group
  <2>3. ~undefined /\ mStatus # "DEAD" /\ mStatus' # "DEAD" /\ ~undefined'
    BY <2>1, <2>2 DEF PoolInv
  <2>4. S \subseteq Conn /\ \A c \in S : c[1] = g
    BY DEF Conn
  <2>5. SetToSeq(S) \in Seq(Conn)
    <3>1. IsFiniteSet({g} \X (1..PoolSize))
      <4> DEFINE f == [i \in 1..PoolSize |-> <<g, i>>]
      <4>1. IsFiniteSet(1..PoolSize)
        BY FS_Interval, PoolConstants
      <4>2. f \in Surjection(1..PoolSize, {g} \X (1..PoolSize))
        BY DEF Surjection
      <4> QED BY <4>1, <4>2, FS_Surjection
    <3>2. IsFiniteSet(S)
      BY <3>1, FS_Subset
    <3>3. SetToSeq(S) \in Seq(S)
      BY <3>2, SetToSeqLists
    <3> QED BY <2>4, <3>3
  <2>6. PoolTypes'
    <3>1. made' \subseteq Conn /\ \A c \in made' : c[1] < nodes'
      BY <1>0, <2>1, <2>2, <2>4 DEF PoolTypes, Conn, Group
    <3> QED BY <1>0, <2>1, <2>2, <2>5, <3>1 DEF PoolTypes
  <2>7. ~released' => ListsAreDistinct' /\ NoneIsLost'
    BY <1>0, <1>1, <2>1, ConnectKeepsAll
  <2> QED BY <2>3, <2>6, <2>7 DEF PoolInv, DryOnlyIfUndersized
<1>2. ASSUME NEW t \in Thread, NEW g \in Group,
             (GetMasterConn(t) /\ g = 0) \/ (GetSlaveConn(t, g) /\ g \in SlaveGroup)
      PROVE  PoolInv'
  <2>1. /\ Ready /\ ~released /\ held[t] = NoConn /\ nodes = Slaves + 1 /\ ~undefined
        /\ UNCHANGED <<nodes, made, released>>
    BY <1>2 DEF GetMasterConn, GetSlaveConn, Idle, Ready
  <2>2. CASE free[g] # <<>>
    <3>1. /\ held' = [held EXCEPT ![t] = Head(free[g])] /\ free' = [free EXCEPT ![g] = Tail(@)]
          /\ UNCHANGED <<mStatus, undefined>>
      BY <1>2, <2>2 DEF GetMasterConn, GetSlaveConn
    <3>2. PoolTypes' /\ ListsAreDistinct' /\ NoneIsLost'
      BY <1>0, <2>1, <2>2, <3>1, TakeKeepsAll
    <3> QED BY <2>1, <3>1, <3>2 DEF PoolInv, DryOnlyIfUndersized, Size
  <2>3. CASE free[g] = <<>>
    <3>1. Size(g) < Cardinality(Thread)
      BY <1>0, <2>1, <2>3, EmptyMeansUndersized
    <3>2. UNCHANGED <<held, free>>
      BY <1>2, <2>3 DEF GetMasterConn, GetSlaveConn
    <3>3. \/ g = 0 /\ undefined' = undefined
          \/ g \in SlaveGroup /\ undefined' = TRUE /\ mStatus' = mStatus
      BY <1>2, <2>3 DEF GetMasterConn, GetSlaveConn
    <3>4. PoolTypes'
      BY <1>0, <2>1, <3>2, <3>3 DEF PoolTypes
    <3>5. ListsAreDistinct' /\ NoneIsLost'
      BY <1>0, <2>1, <3>2 DEF ListsAreDistinct, NoneIsLost, Listed
    <3>6. DryOnlyIfUndersized'
      <4>1. \A h : Size(h)' = Size(h)
        BY <2>1 DEF Size
      <4>2. CASE g = 0 /\ undefined' = undefined
        BY <2>1, <3>1, <4>1, <4>2 DEF DryOnlyIfUndersized
      <4>3. CASE g \in SlaveGroup /\ undefined' = TRUE /\ mStatus' = mStatus
        BY <1>0, <2>1, <3>1, <4>1, <4>3 DEF DryOnlyIfUndersized
      <4> QED BY <3>3, <4>2, <4>3
    <3> QED BY <2>1, <3>4, <3>5, <3>6 DEF PoolInv
  <2> QED BY <2>2, <2>3
<1>3. ASSUME NEW t \in Thread, FreeConn(t) PROVE PoolInv'
  <2>1. /\ Ready /\ held[t] # NoConn /\ nodes = Slaves + 1 /\ ~undefined
        /\ UNCHANGED <<nodes, made, mStatus, released>>
    BY <1>3 DEF FreeConn, Ready
  <2>2. CASE released
    <3>1. undefined' = TRUE /\ UNCHANGED <<held, free>>
      BY <1>3, <2>2 DEF FreeConn
    <3>2. PoolTypes'
      BY <1>0, <2>1, <3>1 DEF PoolTypes
    <3> QED BY <2>1, <2>2, <3>1, <3>2 DEF PoolInv, DryOnlyIfUndersized
  <2>3. CASE ~released
    <3>1. /\ held' = [held EXCEPT ![t] = NoConn] /\ undefined' = undefined
          /\ free' = [free EXCEPT ![held[t][1]] = Append(@, held[t])]
      BY <1>3, <2>3 DEF FreeConn
    <3>2. PoolTypes' /\ ListsAreDistinct' /\ NoneIsLost'
      BY <1>0, <2>1, <2>3, <3>1, GiveBackKeepsAll
    <3> QED BY <2>1, <3>1, <3>2 DEF PoolInv, DryOnlyIfUndersized, Size
  <2> QED BY <2>2, <2>3
<1>4. CASE PingSlaves
  <2>1. UNCHANGED <<free, nodes, made, mStatus, held, released>> /\ nodes = Slaves + 1
    BY <1>4 DEF PingSlaves, pools, Ready
  <2>2. undefined' = undefined \/ released
    BY <1>4 DEF PingSlaves
  <2>3. PoolTypes'
    BY <1>0, <2>1 DEF PoolTypes
  <2>4. ~released' => ListsAreDistinct' /\ NoneIsLost'
    BY <1>0, <2>1 DEF ListsAreDistinct, NoneIsLost, Listed
  <2>5. DryOnlyIfUndersized'
    BY <1>0, <2>1, <2>2 DEF DryOnlyIfUndersized, Size
  <2> QED BY <2>1, <2>3, <2>4, <2>5 DEF PoolInv
<1>5. CASE Release
  <2>1. /\ released' = TRUE /\ free' = [g \in Group |-> <<>>] /\ nodes = Slaves + 1 /\ ~undefined
        /\ UNCHANGED <<nodes, made, held, undefined>>
    BY <1>5 DEF Release, Ready
  <2>2. PoolTypes'
    BY <1>0, <2>1 DEF PoolTypes
  <2> QED BY <2>1, <2>2 DEF PoolInv, DryOnlyIfUndersized
<1>6. CASE UNCHANGED <<free, nodes, made, mStatus, held, released, undefined>>
  <2>1. PoolTypes' /\ DryOnlyIfUndersized'
    BY <1>0, <1>6 DEF PoolTypes, DryOnlyIfUndersized, Size
  <2>2. ~released' => ListsAreDistinct' /\ NoneIsLost'
    BY <1>0, <1>6 DEF ListsAreDistinct, NoneIsLost, Listed
  <2> QED BY <1>6, <2>1, <2>2 DEF PoolInv
<1>7. 0 \in Group /\ SlaveGroup \subseteq Group
  BY PoolConstants DEF Group, SlaveGroup
<1>8. PingMaster \/ (\E g \in Group : ServerDown(g) \/ ServerReturns(g)) \/ UNCHANGED poolVars
         => UNCHANGED <<free, nodes, made, mStatus, held, released, undefined>>
  BY DEF PingMaster, ServerDown, ServerReturns, poolVars, pools, use
<1>9. ASSUME NEW t \in Thread, GetMasterConn(t) PROVE PoolInv'
  BY <1>2, <1>7, <1>9
<1>10. ASSUME NEW t \in Thread, NEW g \in SlaveGroup, GetSlaveConn(t, g) PROVE PoolInv'
  BY <1>2, <1>7, <1>10
<1> QED
  BY <1>1, <1>3, <1>4, <1>5, <1>6, <1>8, <1>9, <1>10 DEF PoolNext, Finish, Ping

LEMMA PoolInitial == PoolInit => PoolInv
<1> SUFFICES ASSUME PoolInit PROVE PoolInv
  OBVIOUS
<1>1. made = {} /\ nodes = 0 /\ 0 \in 0..(Slaves + 1) /\ free \in [Group -> Seq(Conn)]
  BY PoolConstants DEF PoolInit
<1>2. PoolTypes
  BY <1>1 DEF PoolInit, PoolTypes
<1>3. ListsAreDistinct /\ NoneIsLost
  BY DEF PoolInit, ListsAreDistinct, NoneIsLost
<1> QED BY <1>2, <1>3 DEF PoolInit, PoolInv, DryOnlyIfUndersized

\* A list is never longer than the poolsize of its node.
LEMMA ListsAreBounded ==
    ASSUME PoolTypes, ListsAreDistinct, NEW g \in Group
    PROVE  Len(free[g]) <= PoolSize
<1> DEFINE n == Len(free[g])
           f == [i \in 1..n |-> free[g][i][2]]
<1>1. n \in Nat /\ \A i \in 1..n : free[g][i] \in Conn /\ free[g][i][1] = g
  BY DEF PoolTypes, ListsAreDistinct
<1>2. \A i \in 1..n : free[g][i] = <<g, free[g][i][2]>> /\ free[g][i][2] \in 1..PoolSize
  BY <1>1 DEF Conn
<1>3. \A i, j \in 1..n : free[g][i][2] = free[g][j][2] => i = j
  BY <1>2 DEF ListsAreDistinct
<1>4. f \in Injection(1..n, 1..PoolSize)
  BY <1>2, <1>3 DEF Injection, IsInjective
<1> HIDE DEF n, f
<1>5. /\ IsFiniteSet(1..PoolSize) /\ Cardinality(1..PoolSize) = PoolSize
      /\ Cardinality(1..n) = n
  <2>1. \A m \in Nat : IsFiniteSet(1..m) /\ Cardinality(1..m) = m
    BY FS_Interval
  <2> QED BY <1>1, <2>1, PoolConstants
<1>6. Cardinality(1..n) <= Cardinality(1..PoolSize)
  BY <1>4, <1>5, FS_Injection
<1> QED BY <1>5, <1>6 DEF n

\* Before Release, commands of any number of threads on any number of nodes neither
\* share a connection nor lose one, and each goes back to the list of its own node.
THEOREM ConnectionsConservedTheorem == PoolSpec => []ConnectionsConserved
<1>1. PoolInv => ConnectionsConserved
  <2> SUFFICES ASSUME PoolInv, ~released, ~undefined, NEW c \in made
               PROVE  LET inLists == {p \in Group \X (1..PoolSize) :
                               p[2] \in DOMAIN free[p[1]] /\ free[p[1]][p[2]] = c}
                          users == {t \in Thread : held[t] = c}
                      IN  /\ Cardinality(inLists) + Cardinality(users) = 1
                          /\ \A p \in inLists : p[1] = c[1]
    BY DEF ConnectionsConserved
  <2> DEFINE inLists == {p \in Group \X (1..PoolSize) :
                            p[2] \in DOMAIN free[p[1]] /\ free[p[1]][p[2]] = c}
             users == {t \in Thread : held[t] = c}
  <2>1. PoolTypes /\ ListsAreDistinct /\ NoneIsLost /\ c[1] \in Group /\ c # NoConn
    BY PoolConstants DEF PoolInv, PoolTypes, Conn, Group
  <2>2. \A g \in Group : DOMAIN free[g] = 1..Len(free[g]) /\ Len(free[g]) \in Nat
    BY <2>1 DEF PoolTypes
  <2>3. \A p \in inLists : p[1] = c[1]
    BY <2>1, <2>2 DEF ListsAreDistinct
  <2>4. ASSUME Listed(c) PROVE Cardinality(inLists) + Cardinality(users) = 1
    <3>1. PICK i \in 1..Len(free[c[1]]) : free[c[1]][i] = c
      BY <2>4 DEF Listed
    <3>2. i \in 1..PoolSize
      <4>1. Len(free[c[1]]) <= PoolSize /\ Len(free[c[1]]) \in Nat /\ PoolSize \in Nat
        BY <2>1, <2>2, ListsAreBounded, PoolConstants
      <4> QED BY <3>1, <4>1
    <3>3. inLists = {<<c[1], i>>}
      BY <2>1, <2>2, <2>3, <3>1, <3>2 DEF ListsAreDistinct
    <3>4. users = {}
      BY <2>1, <3>1 DEF ListsAreDistinct
    <3> HIDE DEF inLists, users
    <3>5. Cardinality(inLists) = 1
      BY <3>3, FS_Singleton
    <3>6. Cardinality(users) = 0
      BY <3>4, FS_EmptySet
    <3> QED BY <3>5, <3>6
  <2>5. ASSUME ~Listed(c) PROVE Cardinality(inLists) + Cardinality(users) = 1
    <3>1. inLists = {}
      BY <2>2, <2>3, <2>5 DEF Listed
    <3>2. PICK t \in Thread : held[t] = c
      BY <2>1, <2>5 DEF NoneIsLost
    <3>3. users = {t}
      BY <2>1, <3>2 DEF ListsAreDistinct
    <3> HIDE DEF inLists, users
    <3>4. Cardinality(inLists) = 0
      BY <3>1, FS_EmptySet
    <3>5. Cardinality(users) = 1
      BY <3>3, FS_Singleton
    <3> QED BY <3>4, <3>5
  <2> QED BY <2>3, <2>4, <2>5
<1> QED BY <1>1, PoolInitial, PoolStep, PTL DEF PoolSpec

\* No pool runs dry while every node has as many connections as there are threads.
THEOREM DryOnlyIfUndersizedTheorem == PoolSpec => []DryOnlyIfUndersized
<1>1. PoolInv => DryOnlyIfUndersized
  BY DEF PoolInv
<1> QED BY <1>1, PoolInitial, PoolStep, PTL DEF PoolSpec

-----------------------------------------------------------------------------
\* The specification that the runs explore is each service's own, so what is proved
\* of the services holds of it: the invariants of the heartbeat, the connection pool
\* and the web server, and the action property of the ring.
THEOREM ServicesTheorem ==
    Spec => /\ [](SeenInOrder /\ ConnectionsConserved /\ DryOnlyIfUndersized
                              /\ LoggerOutlivesThreads)
            /\ OnlyOwnKeysMove
<1>1. Init => ControlInit /\ PoolInit /\ WebInit /\ RingInit
  BY DEF Init
<1>2. ASSUME [Next]_serviceVars
      PROVE  [ControlNext]_controlVars /\ [PoolNext]_poolVars /\ [WebNext]_webVars
                /\ [RingNext]_ring_
  BY <1>2, Zenon DEF Next, Control, Redis, Web, Ring, serviceVars
<1>3. Spec => ControlSpec /\ PoolSpec /\ WebSpec /\ RingSpec
  BY <1>1, <1>2, PTL DEF Spec, ControlSpec, PoolSpec, WebSpec, RingSpec
<1> QED
  BY <1>3, SeenInOrderTheorem, ConnectionsConservedTheorem, DryOnlyIfUndersizedTheorem,
     LoggerOutlivesThreadsTheorem, OnlyOwnKeysMoveTheorem, PTL
=============================================================================
