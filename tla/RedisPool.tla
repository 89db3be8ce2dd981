------------------------------ MODULE RedisPool ------------------------------
(***************************************************************************)
(* The connection pool of mavredis (src/lib/mavredis): one slice, with the *)
(* pool of its Redis master and one pool for each of its slaves, shared by *)
(* threads that run commands and by a caller of Keepalive.  The lists are  *)
(* guarded by recursive mutexes, so every operation on a list is one step. *)
(*                                                                         *)
(* A connection <<g, i>> belongs to group g: 0 is the master (role MASTER) *)
(* and g > 0 is the slave with mSlaveIdx g - 1.  Commands are abstracted   *)
(* to the role they ask for; the slices of a cache share nothing.          *)
(***************************************************************************)
EXTENDS Integers, Sequences, FiniteSets, SequencesExt

CONSTANTS
    Thread,         \* threads that run commands
    NoConn,
    Slaves,         \* number of slave nodes of the slice
    PoolSize,       \* poolsize of every node
    MaxCommands,    \* bound: commands in all
    MaxDowns        \* bound: outages of a Redis server

ASSUME PoolConstants ==
    /\ IsFiniteSet(Thread) /\ NoConn \notin Int \X Int
    /\ {Slaves, MaxCommands, MaxDowns} \subseteq Nat /\ PoolSize \in Nat \ {0}

Group == 0..Slaves
SlaveGroup == 1..Slaves

VARIABLES
    free,       \* RedisMasterConn and RedisSlaveConn, as lists of connections
    nodes,      \* groups connected so far
    made,       \* connections that ConnectRedisNodes made
    link,       \* connections whose context works
    held,       \* the connection that a thread holds
    mStatus,
    serverUp,   \* Redis servers that are up
    pinging,    \* Keepalive has done the master and not yet the slaves
    released,   \* Release has deleted the pool
    undefined,  \* an operation outside what the language defines
    commands, downs

pools == <<free, nodes, made, mStatus>>
use == <<held, released, undefined, commands>>
servers == <<serverUp, downs>>
poolVars == <<pools, use, servers, link, pinging>>

PoolInit ==
    /\ free = [g \in Group |-> <<>>] /\ nodes = 0 /\ made = {}
    /\ link = {} /\ held = [t \in Thread |-> NoConn]
    /\ mStatus = "UNCONN" /\ serverUp = Group
    /\ pinging = FALSE /\ released = FALSE /\ undefined = FALSE
    /\ commands = 0 /\ downs = 0

Ready == nodes = Slaves + 1 /\ ~undefined

-----------------------------------------------------------------------------
\* ConnectRedisCache connects the nodes of its list in turn, before the client is
\* used.  ConnectRedisNodes keeps the connections that RedisConnect could open and
\* reports success even if there are none; a slave's pool is then added empty.
ConnectRedisNodes(g, S) ==
    /\ nodes = g /\ nodes' = g + 1
    /\ S \subseteq ({g} \X (1..PoolSize)) /\ (g \notin serverUp => S = {})
    /\ free' = [free EXCEPT ![g] = SetToSeq(S)]
    /\ made' = made \cup S /\ link' = link \cup S
    /\ mStatus' = IF g = 0 /\ S # {} THEN "WORKING" ELSE mStatus
    /\ UNCHANGED <<use, servers, pinging>>

Idle(t) == Ready /\ ~released /\ held[t] = NoConn /\ commands < MaxCommands

\* Mutant: the last connection is not given away.
GetAllButLast(t) ==
    /\ Idle(t)
    /\ commands' = commands + 1
    /\ IF Len(free[0]) > 1
       THEN /\ held' = [held EXCEPT ![t] = Head(free[0])]
            /\ free' = [free EXCEPT ![0] = Tail(@)]
            /\ UNCHANGED mStatus
       ELSE mStatus' = "DEAD" /\ UNCHANGED <<held, free>>
    /\ UNCHANGED <<nodes, made, released, undefined, servers, link, pinging>>

\* GetMasterConn, or NULL; nothing sets the status back to WORKING.
GetMasterConn(t) ==
    /\ Idle(t)
    /\ commands' = commands + 1
    /\ IF free[0] # <<>>
       THEN /\ held' = [held EXCEPT ![t] = Head(free[0])]
            /\ free' = [free EXCEPT ![0] = Tail(@)]
            /\ UNCHANGED mStatus
       ELSE mStatus' = "DEAD" /\ UNCHANGED <<held, free>>
    /\ UNCHANGED <<nodes, made, released, undefined, servers, link, pinging>>

\* GetSlaveConn takes the front of a random slave's list, and does not look
\* whether there is one.  Without slaves, GetConn asks the master.
GetSlaveConn(t, g) ==
    /\ Idle(t)
    /\ commands' = commands + 1
    /\ IF free[g] # <<>>
       THEN /\ held' = [held EXCEPT ![t] = Head(free[g])]
            /\ free' = [free EXCEPT ![g] = Tail(@)]
            /\ UNCHANGED undefined
       ELSE undefined' = TRUE /\ UNCHANGED <<held, free>>
    /\ UNCHANGED <<nodes, made, mStatus, released, servers, link, pinging>>

\* The command: a context that failed stays broken, and a broken one gives no reply.
Served(c) == c \in link /\ c[1] \in serverUp

\* Mutant: the role of the connection is not looked at.
FreeToMaster(t) ==
    LET c == held[t]
    IN  /\ Ready /\ c # NoConn /\ ~released
        /\ link' = IF Served(c) THEN link ELSE link \ {c}
        /\ held' = [held EXCEPT ![t] = NoConn]
        /\ free' = [free EXCEPT ![0] = Append(@, c)]
        /\ UNCHANGED <<undefined, nodes, made, mStatus, released, commands, servers, pinging>>

\* Every command ends with FreeConnection, whatever the reply: FreeConn takes the
\* connection back to the list of its role and slave.
FreeConn(t) ==
    LET c == held[t]
    IN  /\ Ready /\ c # NoConn
        /\ link' = IF Served(c) THEN link ELSE link \ {c}
        /\ IF released
           THEN undefined' = TRUE /\ UNCHANGED <<held, free>>
           ELSE /\ held' = [held EXCEPT ![t] = NoConn]
                /\ free' = [free EXCEPT ![c[1]] = Append(@, c)]
                /\ UNCHANGED undefined
        /\ UNCHANGED <<nodes, made, mStatus, released, commands, servers, pinging>>

-----------------------------------------------------------------------------
\* Mutant: a connection that does not answer is not connected again.
PingedOnly(groups) ==
    LET listed == UNION {Range(free[g]) : g \in groups}
    IN  (link \ listed) \cup {c \in listed \cap link : c[1] \in serverUp}

\* ConnPoolPing on some groups: Ping, and RedisReConnect where it fails, which keeps
\* the old context if the server is away.
Pinged(groups) ==
    LET listed == UNION {Range(free[g]) : g \in groups}
    IN  (link \ listed) \cup {c \in listed : c[1] \in serverUp}

PingMaster ==
    /\ Ready /\ ~released /\ ~pinging
    /\ pinging' = TRUE /\ link' = Pinged({0})
    /\ UNCHANGED <<pools, use, servers>>

PingSlaves ==
    /\ Ready /\ pinging
    /\ pinging' = FALSE
    /\ IF released
       THEN undefined' = TRUE /\ UNCHANGED link
       ELSE link' = Pinged(SlaveGroup) /\ UNCHANGED undefined
    /\ UNCHANGED <<pools, held, released, commands, servers>>

\* Release closes what is in the lists and deletes them.  It waits for nobody:
\* a command or a Keepalive under way meets a pool that is gone.
Release ==
    /\ Ready /\ ~released
    /\ released' = TRUE /\ mStatus' = "DEAD"
    /\ link' = link \ UNION {Range(free[g]) : g \in Group}
    /\ free' = [g \in Group |-> <<>>]
    /\ UNCHANGED <<nodes, made, held, undefined, commands, servers, pinging>>

\* A Redis server goes away, with every connection to it, and comes back.
ServerDown(g) ==
    /\ g \in serverUp /\ downs < MaxDowns
    /\ serverUp' = serverUp \ {g} /\ downs' = downs + 1
    /\ link' = {c \in link : c[1] # g}
    /\ UNCHANGED <<pools, use, pinging>>

ServerReturns(g) ==
    /\ g \notin serverUp
    /\ serverUp' = serverUp \cup {g}
    /\ UNCHANGED <<pools, use, link, pinging, downs>>

Finish == \E t \in Thread : FreeConn(t)
Ping == PingMaster \/ PingSlaves

PoolNext ==
    \/ \E g \in Group : \E S \in SUBSET ({g} \X (1..PoolSize)) : ConnectRedisNodes(g, S)
    \/ \E t \in Thread : GetMasterConn(t)
    \/ \E t \in Thread, g \in SlaveGroup : GetSlaveConn(t, g)
    \/ Finish \/ Ping \/ Release
    \/ \E g \in Group : ServerDown(g) \/ ServerReturns(g)

-----------------------------------------------------------------------------
\* Until Release, every connection that was made is in the list of its own node
\* once, or in the hands of exactly one thread: commands of several threads never
\* share a context, none is lost on an error path, and GetSlaveIdx leads it home.
ConnectionsConserved ==
    ~released /\ ~undefined =>
        \A c \in made :
            LET inLists == {p \in Group \X (1..PoolSize) :
                               p[2] \in DOMAIN free[p[1]] /\ free[p[1]][p[2]] = c}
                users == {t \in Thread : held[t] = c}
            IN  /\ Cardinality(inLists) + Cardinality(users) = 1
                /\ \A p \in inLists : p[1] = c[1]

Size(g) == Cardinality({c \in made : c[1] = g})

\* The pool runs dry only if a node has fewer connections than there are threads:
\* otherwise no caller gets NULL and the status DEAD, and GetSlaveConn never takes
\* the front of an empty list.  Release while a command or Keepalive runs is the
\* other way to undefined behaviour.
DryOnlyIfUndersized ==
    /\ mStatus = "DEAD" /\ ~released => Size(0) < Cardinality(Thread)
    /\ undefined =>
          \/ released
          \/ \E g \in SlaveGroup : Size(g) < Cardinality(Thread)

\* Once the servers are back and commands have ended, Keepalive mends every
\* connection, those that failed in a thread's hands too.
KeepaliveHeals ==
    Ready /\ serverUp = Group ~> made \subseteq link \/ released \/ undefined
                                    \/ serverUp # Group
=============================================================================
