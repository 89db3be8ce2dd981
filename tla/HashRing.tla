------------------------------- MODULE HashRing -------------------------------
(***************************************************************************)
(* The ring that spreads records over the cynder workers                   *)
(* (src/cynder/consistent_hash.h): the master adds the workers its config  *)
(* lists, and sends each query to the worker that getNode names.           *)
(* Crc32 is a constant function, of the virtual nodes and of the keys.     *)
(***************************************************************************)
EXTENDS Integers, FiniteSets, FiniteSetsExt

CONSTANTS
    Node, NoNode,
    Key,
    NodeHash,       \* the hashes of a node's virtual nodes, m_spread of them
    KeyHash

Point == UNION {NodeHash[n] : n \in Node} \cup {KeyHash[k] : k \in Key}

ASSUME RingConstants ==
    /\ NoNode \notin Node /\ Point \subseteq Nat
    /\ \A n \in Node : NodeHash[n] # {}

VARIABLE ring_      \* the node at each point, or NoNode

RingInit == ring_ = [p \in Point |-> NoNode]

\* A point that another node has is taken over.
addNode(n) == ring_' = [p \in Point |-> IF p \in NodeHash[n] THEN n ELSE ring_[p]]

\* The points of the node are erased, whoever has them.
removeNode(n) == ring_' = [p \in Point |-> IF p \in NodeHash[n] THEN NoNode ELSE ring_[p]]

RingNext == \E n \in Node : addNode(n) \/ removeNode(n)

\* Mutant: the key's hash counts points instead of being one.
getNodeModulo(k) ==
    LET used == {p \in Point : ring_[p] # NoNode}
        at(p) == Cardinality({q \in used : q < p}) = KeyHash[k] % Cardinality(used)
    IN  IF used = {} THEN NoNode ELSE ring_[CHOOSE p \in used : at(p)]

\* lower_bound, and the first point when the ring wraps around; an empty ring throws.
getNode(k) ==
    LET used == {p \in Point : ring_[p] # NoNode}
        above == {p \in used : p >= KeyHash[k]}
    IN  IF used = {} THEN NoNode
        ELSE ring_[Min(IF above # {} THEN above ELSE used)]

-----------------------------------------------------------------------------
Collides(n, m) == NodeHash[n] \cap NodeHash[m] # {}

\* Adding a worker moves records to it and to no other worker, whatever points
\* collide; removing one moves its own records, and those of a worker that shares a
\* point with it, which removeNode erases too.
OnlyOwnKeysMove ==
    [][\A n \in Node, k \in Key :
          /\ addNode(n) => getNode(k)' \in {getNode(k), n}
          /\ removeNode(n) =>
                \/ getNode(k)' = getNode(k)
                \/ getNode(k) = n \/ Collides(n, getNode(k))]_ring_
=============================================================================
