----------------------------- MODULE MCServices -----------------------------
(***************************************************************************)
(* Four services that share no state, each explored with the others at     *)
(* rest: `service` is chosen once.                                         *)
(***************************************************************************)
EXTENDS ControlClient, RedisPool, Orchestrate, HashRing

VARIABLE service

serviceVars == <<service, controlVars, poolVars, webVars, ring_>>

MCNodeHash == [a |-> {1, 4}, b |-> {4, 7}, c |-> {2, 9}]
MCKeyHash == [k1 |-> 0, k2 |-> 3, k3 |-> 5, k4 |-> 8, k5 |-> 10]
MCNode == DOMAIN MCNodeHash
MCKey == DOMAIN MCKeyHash

Init ==
    /\ service \in {"control", "redis", "web", "ring"}
    /\ ControlInit /\ PoolInit /\ WebInit /\ RingInit

Control(A) == service = "control" /\ A /\ UNCHANGED <<service, poolVars, webVars, ring_>>
Redis(A) == service = "redis" /\ A /\ UNCHANGED <<service, controlVars, webVars, ring_>>
Web(A) == service = "web" /\ A /\ UNCHANGED <<service, controlVars, poolVars, ring_>>
Ring(A) == service = "ring" /\ A /\ UNCHANGED <<service, controlVars, poolVars, webVars>>

Next == Control(ControlNext) \/ Redis(PoolNext) \/ Web(WebNext) \/ Ring(RingNext)

\* Threads run, ZeroMQ delivers, and servers that went away come back; Keepalive is
\* called again and again, and cancelled threads reach a cancellation point.
Fairness ==
    /\ WF_serviceVars(Control(JobStep)) /\ WF_serviceVars(Control(HeartStep))
    /\ WF_serviceVars(Control(Lost /\ RecvTimeout))
    /\ WF_serviceVars(Control(Transfer)) /\ WF_serviceVars(Control(Deliver))
    /\ WF_serviceVars(Control(MasterReturns))
    /\ WF_serviceVars(Redis(Finish)) /\ WF_serviceVars(Redis(Ping))
    /\ \A g \in Group : WF_serviceVars(Redis(ServerReturns(g)))
    /\ WF_serviceVars(Web(StopStep)) /\ WF_serviceVars(Web(CancelStep))

Spec == Init /\ [][Next]_serviceVars /\ Fairness
=============================================================================
