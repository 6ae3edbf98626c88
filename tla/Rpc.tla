-------------------------------- MODULE Rpc ---------------------------------
(***************************************************************************)
(* What request::send_and_wait promises a caller that uses a request once: *)
(* the call ends, it ends once, and it succeeds only if the peer answered  *)
(* this request.  The peer may answer a call that has already failed.      *)
(***************************************************************************)
CONSTANT Reqs

VARIABLES call,      \* the state of each request's call
          answered   \* the requests the peer has answered

vars == <<call, answered>>

Init == /\ call = [r \in Reqs |-> "idle"]
        /\ answered = {}

Begin(r) == /\ call[r] = "idle"
            /\ call' = [call EXCEPT ![r] = "pending"]
            /\ UNCHANGED answered

Answer(r) == /\ call[r] # "idle"
             /\ answered' = answered \cup {r}
             /\ UNCHANGED call

Reply(r) == /\ call[r] = "pending"
            /\ r \in answered
            /\ call' = [call EXCEPT ![r] = "replied"]
            /\ UNCHANGED answered

Fail(r) == /\ call[r] = "pending"
           /\ call' = [call EXCEPT ![r] = "failed"]
           /\ UNCHANGED answered

Next == \E r \in Reqs : Begin(r) \/ Answer(r) \/ Reply(r) \/ Fail(r)

Spec == Init /\ [][Next]_vars
=============================================================================
