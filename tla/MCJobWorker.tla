---------------------------- MODULE MCJobWorker ----------------------------
(* JobWorker on small instances: the .cfg files choose among these values. *)
EXTENDS JobWorker, FiniteSets

CONSTANTS w1, w2

OneJob    == {1}
TwoJobs   == {1, 2}
BadJob    == {2}
TwoWorkers == {w1, w2}
SecondOnly == {w2}

AllFaults  == {"crash", "stop", "db", "listen"}
StopFault  == {"stop"}

(* One job with every fault, or two and none. *)
Small ==
  Cardinality({j \in Jobs : status[j] # "absent"}) > 1 => budget = MaxFaults

SmallWokenSpec == Init /\ [][Next /\ Small']_vars /\ WokenFairness

=============================================================================
