--------------------------- MODULE MCChellaWorker ---------------------------
(* Small instances of ChellaWorker. *)
EXTENDS ChellaWorker, TLC

CONSTANTS j1, j2, p1

\* A job with subjobs and one of those subjobs' kind, of the same package.
OnePackage == j1 :> p1 @@ j2 :> p1
SpawnAndPart == j1 :> "SPAWN" @@ j2 :> "PARTITION"
FirstHasSubjobs == j1 :> 2 @@ j2 :> 0

\* What no action and none of the invariants tells apart is left out of a state's
\* fingerprint: the checkpoint of a record or a runner past markDone, how often
\* beyond once a job finished, and the abandoned homes.
Collapsed(d) == IF IsRecord(d) /\ d.done THEN Record(NIL, TRUE) ELSE d
View ==
    <<jobfork, main, mjob, todo, pc, job, chain, cache, home, locked,
      [r \in Runner |-> IF pc[r] \in {"teardown", "stop", "prospect", "send",
                                             "asked", "unanswered"}
                        THEN NIL ELSE cp[r]],
      [r \in Runner |-> Collapsed(buf[r])],
      [j \in Job |-> Collapsed(disk[j])],
      given, [j \in Job |-> finished[j] > 0], sent, stolen, doubled, restarts>>
=============================================================================
