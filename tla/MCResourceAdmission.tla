------------------------ MODULE MCResourceAdmission ------------------------
(* A small and a large review whose scarce resources differ, a service,    *)
(* and builders that disagree on their concurrency.                        *)
EXTENDS ResourceAdmission, TLC

CONSTANTS small, large, service, k1, k2, k3, cpu, io

TwoReviewsDemand == [h \in {small, large, service} |-> [r \in {cpu, io} |-> 1]]
TwoReviewsLimit ==
    (small :> (cpu :> 2 @@ io :> 3)) @@ (large :> (cpu :> 3 @@ io :> 3)) @@
    (service :> (cpu :> 3 @@ io :> 2))
TwoReviewsParent == (k1 :> small) @@ (k2 :> large) @@ (k3 :> large)
TwoReviewsBuilds == (small :> 1) @@ (large :> 2)

Symmetry == Permutations(LeaseIds) \cup Permutations(Builds)
=============================================================================
