---------------------------- MODULE MCCrdComponent ----------------------------
(* Instances of CrdComponent: one node, or a dominant node and its dependent. *)
EXTENDS CrdComponent

CONSTANTS n1, n2,     \* nodes; n2 is dependent on n1 where there are two
          c0, c1, c2, \* objects of n1
          c3,         \* an object of n2 in the pair, else of n1
          none

OneNode == [c \in Comps |-> n1]
TwoNodes == [c \in Comps |-> IF c = c3 THEN n2 ELSE n1]
NoDep == [c \in Comps |-> none]
Dominant == [c \in Comps |-> IF c = c3 THEN none ELSE n2]
===============================================================================
