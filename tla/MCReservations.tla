--------------------------- MODULE MCReservations ---------------------------
(* Instances of Reservations: two nodes, two users and two clients; the users *)
(* are interchangeable, a slot is two ticks.  The number of calls is bounded. *)
EXTENDS Reservations

CONSTANTS n1, n2, u1, u2, c1, c2, MaxCalls

VARIABLE calls

MCInit == Init /\ calls = 0

MCNext ==
  \/ Call /\ calls < MaxCalls /\ calls' = calls + 1
  \/ (Tick \/ \E c \in Clients : Continue(c)) /\ UNCHANGED calls

MCSpec == MCInit /\ [][MCNext]_<<vars, calls>>

Symmetry == Permutations(Users)
=============================================================================
