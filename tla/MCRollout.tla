----------------------------- MODULE MCRollout -----------------------------
(* Rollout on a small instance: an ALTER TABLE, a CREATE OR REPLACE and one *)
(* CREATE ... IF NOT EXISTS stand for those of the list.                   *)
EXTENDS Rollout

CONSTANTS w1, a1, a2

OneWorker  == {w1}
TwoApis    == {a1, a2}
ThreeProcs == {a1, a2, w1}
OneJob     == {1}
Nobody     == {}
Crashes    == {"crash", "stop"}
Second     == {2}
Third      == {3}

(* Bound: a second fault only while no job has been claimed. *)
Early == budget' = budget \/ budget' > 0 \/ \A j \in Jobs : attempts'[j] = 0

SmallFairSpec == RolloutInit /\ [][RolloutNext /\ Early]_allVars /\ RolloutFairness

=============================================================================
