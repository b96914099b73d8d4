--------------------------- MODULE MCAssessmentRuns ---------------------------
(* AssessmentRuns for TLC. *)
EXTENDS AssessmentRuns, TLC

CONSTANTS q1, q2, q3, w1, w2, w3, p1, p2, i1, i2, s1, s2, org

\* each session has one input to assess; both are of one organisation
MCSessionOf == i1 :> s1 @@ i2 :> s2
MCOrgOf == s1 :> org @@ s2 :> org
\* one replica, and two replicas with the second for the last worker
OneReplica == [w \in Workers |-> p1]
TwoReplicas == [w \in Workers |-> IF w = w3 THEN p2 ELSE p1]

\* requests are alike, and so are the two workers of the first replica
Symmetry == Permutations({q1, q2, q3}) \cup Permutations({w1, w2})
=============================================================================
