----------------------------- MODULE MCJobQueue -----------------------------
(***************************************************************************)
(* Two small pieces of V1_INVALIDATION_DAG for TLC: the end of the         *)
(* workflow, where one job hands the last step to the user, and the fork   *)
(* where two independent steps make a third one ready.                     *)
(***************************************************************************)
EXTENDS JobQueue, TLC

ChainSteps == {"matching", "rapports", "package"}
ChainEntry == {"matching"}
ChainOnDemand == {"package"}
ChainSources ==
  ("matching" :> {}) @@ ("rapports" :> {"matching"}) @@ ("package" :> {"rapports"})
ChainDownstream ==
  ("matching" :> {"rapports", "package"}) @@ ("rapports" :> {"package"})
    @@ ("package" :> {})
ChainEnqueues ==
  ("matching" :> {"rapports"}) @@ ("rapports" :> {}) @@ ("package" :> {})
ChainValidates ==
  ("matching" :> {}) @@ ("rapports" :> {"package"}) @@ ("package" :> {})

ForkSteps == {"normalisation", "inspection", "matching"}
ForkEntry == {"normalisation", "inspection"}
ForkSources ==
  ("normalisation" :> {}) @@ ("inspection" :> {})
    @@ ("matching" :> {"normalisation", "inspection"})
ForkDownstream ==
  ("normalisation" :> {"matching"}) @@ ("inspection" :> {"matching"})
    @@ ("matching" :> {})
ForkEnqueues == ForkDownstream
ForkValidates == [s \in ForkSteps |-> {}]

TwoPerSecond == [j \in Jobs |-> j \div 2]
Symmetry == Permutations(Workers)
=============================================================================
