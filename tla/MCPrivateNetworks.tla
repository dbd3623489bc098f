-------------------------- MODULE MCPrivateNetworks --------------------------
(* Small instances of PrivateNetworks. *)
EXTENDS PrivateNetworks, TLC

CONSTANTS n1, n2, d1, d2, d3, d4, p1, u1, u2, s1

(* Two networks of one user; d2 is somebody else's.                        *)
PairOwner == [x \in Dbs \cup Nets |-> IF x = d2 THEN u2 ELSE u1]
PairHost  == [d \in Dbs |-> s1]
PairEnds  == (p1 :> <<n1, n2>>)

(* One network; d2 is on the local docker, d4 somebody else's.              *)
CrowdOwner == [x \in Dbs \cup Nets |-> IF x = d4 THEN u2 ELSE u1]
CrowdHost  == [d \in Dbs |-> IF d = d2 THEN Local ELSE s1]
NoEnds     == <<>>

(* Request slots are interchangeable: sound without liveness.              *)
CallSymmetry == Permutations(Calls)
=============================================================================
