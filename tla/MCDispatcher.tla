---------------------------- MODULE MCDispatcher ----------------------------
(***************************************************************************)
(* Instances of Dispatcher for TLC.  r1 and r2 use one operation and so    *)
(* one sequence counter, r3 another whose responses are not registered.    *)
(***************************************************************************)
EXTENDS Dispatcher

CONSTANTS r1, r2, r3, p1, p2, p3, opA, opB

MCOpOf == [r \in Reqs |-> IF r = r3 THEN opB ELSE opA]

=============================================================================
