---------------------------- MODULE MCNodeGateway ----------------------------
(* Instances of NodeGateway for TLC.                                       *)
EXTENDS NodeGateway

CONSTANTS r1, r2, r3, r4

FourRequests == {r1, r2, r3, r4}
ThreeRequests == {r1, r2, r3}
TwoRequests == {r1, r2}
OnePrePage == {r4}
NoPrePages == {}
=============================================================================
