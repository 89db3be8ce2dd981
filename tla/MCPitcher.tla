----------------------------- MODULE MCPitcher -----------------------------
(* Small instances of Pitcher. *)
EXTENDS Pitcher, TLC

CONSTANTS t1, t2, t3, t4

\* One task for each way the pitcher treats a task.
Priorities == t1 :> "HIGH" @@ t2 :> "NORMAL" @@ t3 :> "IDLE" @@ t4 :> "REALTIME"
DistinctIds == t1 :> 1 @@ t2 :> 2 @@ t3 :> 3 @@ t4 :> 4
Keys == [i \in Id |-> i]

\* extract/extractor.cpp numbers from 1000 again each time it is started, so two
\* tasks of the extractor, both NORMAL, may carry the same id.
ExtractorPriorities == t1 :> "NORMAL" @@ t2 :> "NORMAL"
ReusedIds == t1 :> 1 @@ t2 :> 1
=============================================================================
