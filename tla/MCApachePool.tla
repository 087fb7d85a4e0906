---------------------------- MODULE MCApachePool ----------------------------
(* Instances of ApachePool for TLC.                                        *)
EXTENDS ApachePool, TLC

CONSTANTS r1, r2, r3, t1, t2

TwoRequests == {r1, r2}
ThreeRequests == {r1, r2, r3}

FirstTarget == {t1}
TwoTargets == {t1, t2}

(* One server, of each kind in turn.                                       *)
OneServer == {[kind |-> [t \in FirstTarget |-> k], want |-> [r \in TwoRequests |-> t1]]
              : k \in Kinds}

(* Two servers that one Apache child talks to.                             *)
TwoServers == {[kind |-> [t \in TwoTargets |-> "inetd"],
                want |-> (r1 :> t1 @@ r2 :> t2 @@ r3 :> t2)]}
=============================================================================
