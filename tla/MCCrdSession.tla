----------------------------- MODULE MCCrdSession -----------------------------
(* Instances of CrdSession: two sessions, of two users or of one.             *)
EXTENDS CrdSession

CONSTANTS s1, s2, u1, u2, n1, a1, a2, a3

TwoUsers == [s \in Sessions |-> IF s = s1 THEN u1 ELSE u2]
OneUser  == [s \in Sessions |-> u1]

\* u1's reservation ends when that of u2 begins.
Starts == [u \in Users |-> IF u = u1 THEN 0 ELSE 1]
Ends   == [u \in Users |-> IF u = u1 THEN 1 ELSE 2]

\* a1 is a component of s1 and a2 of s2, on the same node; a3 a link or a
\* cluster of s1.
Owners == [a \in Reqs |-> IF a = a2 THEN s2 ELSE s1]
Kinds  == [a \in Reqs |-> IF a = a3 THEN "link" ELSE "component"]
ClusterKinds == [a \in Reqs |-> IF a = a3 THEN "cluster" ELSE "component"]
SameNode == [a \in Reqs |-> IF a = a3 THEN NoNode ELSE n1]
===============================================================================
