----------------------------- MODULE LargeStore -----------------------------
(***************************************************************************)
(* What cynder's large file store promises: a map from names to values.  A *)
(* store operation takes effect as a whole or, when the process dies under *)
(* it, not at all; what took effect is never lost; a retrieval returns     *)
(* what the map holds.  Filepage implements this specification.            *)
(***************************************************************************)
CONSTANTS Name, Value, None

VARIABLES
    store,      \* what every later process will find
    request,    \* the store operation under way, or None
    answer      \* the name just retrieved and what was returned, or None

Init ==
    /\ store = [n \in Name |-> None]
    /\ request = None
    /\ answer = None

Request(n, v) ==
    /\ request = None
    /\ request' = <<n, v>>
    /\ answer' = None
    /\ UNCHANGED store

Commit ==
    /\ request # None
    /\ store' = [store EXCEPT ![request[1]] = request[2]]
    /\ request' = None
    /\ UNCHANGED answer

\* The process dies before the operation took effect.
Lose ==
    /\ request # None
    /\ request' = None
    /\ answer' = None
    /\ UNCHANGED store

Retrieve(n) ==
    /\ request = None
    /\ answer' = <<n, store[n]>>
    /\ UNCHANGED <<store, request>>

\* The caller has used the answer.
Forget ==
    /\ answer' = None
    /\ UNCHANGED <<store, request>>

Next ==
    \/ \E n \in Name, v \in Value : Request(n, v)
    \/ Commit
    \/ Lose
    \/ \E n \in Name : Retrieve(n)
    \/ Forget

Spec == Init /\ [][Next]_<<store, request, answer>>
=============================================================================
