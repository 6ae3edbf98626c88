----------------------------- MODULE Dispatcher -----------------------------
(***************************************************************************)
(* The request/response matching of the shared messaging library           *)
(* (src/shared/dispatcher.cc, message.cc): request threads that call       *)
(* request::send_and_wait, the detached threads nccp_connection starts for *)
(* every response that arrives, the map from rendezvous markers to request *)
(* objects they share, and the peer that answers late, twice or never.     *)
(*                                                                         *)
(* A request object is used for up to MaxCalls calls before its owner      *)
(* deletes it: the crd's requests are used once, the periodic relays of    *)
(* the base daemons (rli_relay_req::handle) call send_and_wait on the same *)
(* object in every period.                                                 *)
(*                                                                         *)
(* Each action is one critical section or one unprotected step of a        *)
(* thread; what a thread does between two of them it does with local data. *)
(***************************************************************************)
EXTENDS Naturals

CONSTANTS Reqs,      \* request objects
          Ops,       \* operation ids, the first half of a rendezvous marker
          OpOf,      \* the operation of each request
          RespOps,   \* the operations with a class in resp_map
          Resps,     \* response messages that arrive, one thread each
          MaxCalls,  \* bound: calls of send_and_wait on one request object
          MaxSeq,    \* bound: the 32-bit next_seq counters stop here
          NoReq,     \* what rend_map holds for a marker without an entry
          NoResp     \* an uninitialised resp pointer

ASSUME OpAssumption   == OpOf \in [Reqs -> Ops] /\ RespOps \subseteq Ops
ASSUME BoundAssumption == MaxCalls \in Nat \ {0} /\ MaxSeq \in Nat \ {0}
ASSUME NoReqAssumption  == NoReq \notin Reqs
ASSUME NoRespAssumption == NoResp \notin Resps

VARIABLES next_seq,  \* dispatcher::next_seq, one counter per operation
          rend_map,  \* dispatcher::rend_map
          rend,      \* message::rend of each request object
          sent,      \* the marker written into the request's buffer
          wire,      \* the markers of the requests the peer has received
          pc,        \* where the thread that owns a request is
          calls,     \* send_and_wait calls begun on a request
          received,  \* request::received_response
          resp,      \* request::resp
          result,    \* what the last send_and_wait returned
          tst,       \* where the thread of a response is
          trend,     \* the marker its response carries
          treq       \* the request object it has looked up

vars == <<next_seq, rend_map, rend, sent, wire, pc, calls, received, resp,
          result, tst, trend, treq>>

\* What the owners never write.
threadVars == <<tst, trend, treq>>

-----------------------------------------------------------------------------
Seqs  == 1..MaxSeq
Rends == Ops \X Seqs

\* The marker clear_rendezvous leaves behind; no counter ever yields seq 0.
DefRend == <<NoReq, 0>>

OwnerStates == {"idle", "numbered", "registered", "sent", "blocked",
                "returning", "returned", "deleted"}
ThreadStates == {"unused", "arrived", "found", "stored", "delivered",
                 "discarded"}

\* Mutant of Init: the sequence counters start at 0, the default marker's.
InitSeqZero ==
  /\ next_seq = [o \in Ops |-> 0]
  /\ rend_map = [k \in Rends |-> NoReq]
  /\ rend = [r \in Reqs |-> DefRend]
  /\ sent = [r \in Reqs |-> DefRend]
  /\ wire = {}
  /\ pc = [r \in Reqs |-> "idle"]
  /\ calls = [r \in Reqs |-> 0]
  /\ received = [r \in Reqs |-> FALSE]
  /\ resp = [r \in Reqs |-> NoResp]
  /\ result = [r \in Reqs |-> FALSE]
  /\ tst = [p \in Resps |-> "unused"]
  /\ trend = [p \in Resps |-> DefRend]
  /\ treq = [p \in Resps |-> NoReq]

Init ==
  /\ next_seq = [o \in Ops |-> 1]
  /\ rend_map = [k \in Rends |-> NoReq]
  /\ rend = [r \in Reqs |-> DefRend]
  /\ sent = [r \in Reqs |-> DefRend]
  /\ wire = {}
  /\ pc = [r \in Reqs |-> "idle"]
  /\ calls = [r \in Reqs |-> 0]
  /\ received = [r \in Reqs |-> FALSE]
  /\ resp = [r \in Reqs |-> NoResp]
  /\ result = [r \in Reqs |-> FALSE]
  /\ tst = [p \in Resps |-> "unused"]
  /\ trend = [p \in Resps |-> DefRend]
  /\ treq = [p \in Resps |-> NoReq]

-----------------------------------------------------------------------------
(* request::send_and_wait, by the thread that owns the request.            *)

\* Mutant of TakeSeq: the increment is lost to another thread's.
TakeSeqLost(r) ==
  /\ pc[r] = "idle"
  /\ calls[r] < MaxCalls
  /\ rend' = [rend EXCEPT ![r] = <<OpOf[r], next_seq[OpOf[r]]>>]
  /\ calls' = [calls EXCEPT ![r] = @ + 1]
  /\ pc' = [pc EXCEPT ![r] = "numbered"]
  /\ UNCHANGED <<next_seq, rend_map, sent, wire, received, resp, result,
                 threadVars>>

\* register_rendezvous up to the unlock of seq_lock, and set_rendezvous.
TakeSeq(r) ==
  /\ pc[r] = "idle"
  /\ calls[r] < MaxCalls
  /\ next_seq[OpOf[r]] < MaxSeq
  /\ next_seq' = [next_seq EXCEPT ![OpOf[r]] = @ + 1]
  /\ rend' = [rend EXCEPT ![r] = <<OpOf[r], next_seq[OpOf[r]]>>]
  /\ calls' = [calls EXCEPT ![r] = @ + 1]
  /\ pc' = [pc EXCEPT ![r] = "numbered"]
  /\ UNCHANGED <<rend_map, sent, wire, received, resp, result,
                 threadVars>>

\* register_rendezvous under the write lock of map_lock.
Register(r) ==
  /\ pc[r] = "numbered"
  /\ rend_map' = [rend_map EXCEPT ![rend[r]] = r]
  /\ pc' = [pc EXCEPT ![r] = "registered"]
  /\ UNCHANGED <<next_seq, rend, sent, wire, calls, received, resp, result,
                 threadVars>>

\* message::send succeeds: the peer will read the message.
Send(r) ==
  /\ pc[r] = "registered"
  /\ sent' = [sent EXCEPT ![r] = rend[r]]
  /\ wire' = wire \cup {rend[r]}
  /\ pc' = [pc EXCEPT ![r] = "sent"]
  /\ UNCHANGED <<next_seq, rend_map, rend, calls, received, resp, result,
                 threadVars>>

\* Mutant of SendFails: the failed send returns without clear_rendezvous.
SendFailsUncleared(r) ==
  /\ pc[r] = "registered"
  /\ result' = [result EXCEPT ![r] = FALSE]
  /\ pc' = [pc EXCEPT ![r] = "returned"]
  /\ UNCHANGED <<next_seq, rend_map, rend, sent, wire, calls, received, resp,
                 threadVars>>

\* message::send finds the connection closed, or send_message fails.
SendFails(r) ==
  /\ pc[r] = "registered"
  /\ result' = [result EXCEPT ![r] = FALSE]
  /\ pc' = [pc EXCEPT ![r] = "returning"]
  /\ UNCHANGED <<next_seq, rend_map, rend, sent, wire, calls, received, resp,
                 threadVars>>

\* wait_for_response takes response_mutex and finds no response yet.
Block(r) ==
  /\ pc[r] = "sent"
  /\ ~received[r]
  /\ pc' = [pc EXCEPT ![r] = "blocked"]
  /\ UNCHANGED <<next_seq, rend_map, rend, sent, wire, calls, received, resp,
                 result, threadVars>>

\* The loop of wait_for_response ends with wait_rc # ETIMEDOUT.
WakeUp(r) ==
  /\ pc[r] \in {"sent", "blocked"}
  /\ received[r]
  /\ received' = [received EXCEPT ![r] = FALSE]
  /\ result' = [result EXCEPT ![r] = TRUE]
  /\ pc' = [pc EXCEPT ![r] = "returning"]
  /\ UNCHANGED <<next_seq, rend_map, rend, sent, wire, calls, resp,
                 threadVars>>

\* Mutant of TimeOut: the result of the wait is not looked at.
TimeOutUnnoticed(r) ==
  /\ pc[r] = "blocked"
  /\ received' = [received EXCEPT ![r] = FALSE]
  /\ result' = [result EXCEPT ![r] = TRUE]
  /\ pc' = [pc EXCEPT ![r] = "returning"]
  /\ UNCHANGED <<next_seq, rend_map, rend, sent, wire, calls, resp,
                 threadVars>>

\* Mutant of TimeOut: the loop waits for received_response only.
TimeOutIgnored(r) ==
  /\ pc[r] = "blocked"
  /\ received[r]
  /\ received' = [received EXCEPT ![r] = FALSE]
  /\ result' = [result EXCEPT ![r] = FALSE]
  /\ pc' = [pc EXCEPT ![r] = "returning"]
  /\ UNCHANGED <<next_seq, rend_map, rend, sent, wire, calls, resp,
                 threadVars>>

\* pthread_cond_timedwait returns ETIMEDOUT, which it may do although the
\* response was signalled meanwhile; received_response is reset all the same.
TimeOut(r) ==
  /\ pc[r] = "blocked"
  /\ received' = [received EXCEPT ![r] = FALSE]
  /\ result' = [result EXCEPT ![r] = FALSE]
  /\ pc' = [pc EXCEPT ![r] = "returning"]
  /\ UNCHANGED <<next_seq, rend_map, rend, sent, wire, calls, resp,
                 threadVars>>

\* clear_rendezvous, after which send_and_wait returns.
Clear(r) ==
  /\ pc[r] = "returning"
  /\ rend_map' = [rend_map EXCEPT ![rend[r]] = NoReq]
  /\ rend' = [rend EXCEPT ![r] = DefRend]
  /\ pc' = [pc EXCEPT ![r] = "returned"]
  /\ UNCHANGED <<next_seq, sent, wire, calls, received, resp, result,
                 threadVars>>

\* The owner has used the result and keeps the object for the next period.
Reuse(r) ==
  /\ pc[r] = "returned"
  /\ calls[r] < MaxCalls
  /\ pc' = [pc EXCEPT ![r] = "idle"]
  /\ UNCHANGED <<next_seq, rend_map, rend, sent, wire, calls, received, resp,
                 result, threadVars>>

\* The owner has used the result and deletes the object.
Delete(r) ==
  /\ pc[r] = "returned"
  /\ pc' = [pc EXCEPT ![r] = "deleted"]
  /\ UNCHANGED <<next_seq, rend_map, rend, sent, wire, calls, received, resp,
                 result, threadVars>>

-----------------------------------------------------------------------------
(* The peer and the response threads.                                      *)

\* The peer answers a request it has read, any number of times and as late
\* as it likes; the receive loop starts a thread for the response.  A
\* response whose operation is not in resp_map is dropped by create_message.
PeerAnswers(p) ==
  /\ tst[p] = "unused"
  /\ \E k \in wire :
       /\ trend' = [trend EXCEPT ![p] = k]
       /\ tst' = [tst EXCEPT ![p] = IF k[1] \in RespOps THEN "arrived"
                                                        ELSE "discarded"]
  /\ UNCHANGED <<next_seq, rend_map, rend, sent, wire, pc, calls, received,
                 resp, result, treq>>

\* call_rendezvous under the read lock: not registered, the message is freed.
Discard(p) ==
  /\ tst[p] = "arrived"
  /\ rend_map[trend[p]] = NoReq
  /\ tst' = [tst EXCEPT ![p] = "discarded"]
  /\ UNCHANGED <<next_seq, rend_map, rend, sent, wire, pc, calls, received,
                 resp, result, trend, treq>>

\* call_rendezvous under the read lock: the request object is looked up.
Find(p) ==
  /\ tst[p] = "arrived"
  /\ rend_map[trend[p]] # NoReq
  /\ treq' = [treq EXCEPT ![p] = rend_map[trend[p]]]
  /\ tst' = [tst EXCEPT ![p] = "found"]
  /\ UNCHANGED <<next_seq, rend_map, rend, sent, wire, pc, calls, received,
                 resp, result, trend>>

\* request_rendezvous stores the response, holding no lock at all.
Store(p) ==
  /\ tst[p] = "found"
  /\ resp' = [resp EXCEPT ![treq[p]] = p]
  /\ tst' = [tst EXCEPT ![p] = "stored"]
  /\ UNCHANGED <<next_seq, rend_map, rend, sent, wire, pc, calls, received,
                 result, trend, treq>>

\* request_rendezvous sets received_response under response_mutex.
Signal(p) ==
  /\ tst[p] = "stored"
  /\ received' = [received EXCEPT ![treq[p]] = TRUE]
  /\ tst' = [tst EXCEPT ![p] = "delivered"]
  /\ UNCHANGED <<next_seq, rend_map, rend, sent, wire, pc, calls, resp, result,
                 trend, treq>>

-----------------------------------------------------------------------------
OwnerStep(r) == \/ TakeSeq(r) \/ Register(r) \/ Send(r) \/ SendFails(r)
                \/ Block(r) \/ WakeUp(r) \/ TimeOut(r) \/ Clear(r)
                \/ Reuse(r) \/ Delete(r)

ThreadStep(p) == Discard(p) \/ Find(p) \/ Store(p) \/ Signal(p)

Next == \/ \E r \in Reqs : OwnerStep(r)
        \/ \E p \in Resps : PeerAnswers(p) \/ ThreadStep(p)

Spec == Init /\ [][Next]_vars

\* Every thread is scheduled, and a timed wait ends; the peer promises nothing.
Fairness == /\ \A r \in Reqs : WF_vars(OwnerStep(r))
            /\ \A p \in Resps : WF_vars(ThreadStep(p))

FairSpec == Spec /\ Fairness

-----------------------------------------------------------------------------
TypeOK ==
  /\ next_seq \in [Ops -> Seqs]
  /\ rend_map \in [Rends -> Reqs \cup {NoReq}]
  /\ rend \in [Reqs -> Rends \cup {DefRend}]
  /\ sent \in [Reqs -> Rends \cup {DefRend}]
  /\ wire \in SUBSET Rends
  /\ pc \in [Reqs -> OwnerStates]
  /\ calls \in [Reqs -> 0..MaxCalls]
  /\ received \in [Reqs -> BOOLEAN]
  /\ resp \in [Reqs -> Resps \cup {NoResp}]
  /\ result \in [Reqs -> BOOLEAN]
  /\ tst \in [Resps -> ThreadStates]
  /\ trend \in [Resps -> Rends \cup {DefRend}]
  /\ treq \in [Resps -> Reqs \cup {NoReq}]

\* The states of a request whose marker is in rend_map.
Registered(r) == pc[r] \in {"registered", "sent", "blocked", "returning"}

(***************************************************************************)
(* rend_map holds exactly the requests inside send_and_wait, each under    *)
(* its own marker: no path out of send_and_wait (response, timeout, failed *)
(* send) leaves behind an entry that a late response would follow to a     *)
(* deleted request, and no request loses its entry to another one.         *)
(***************************************************************************)
MapMatchesWaiters ==
  /\ \A k \in Rends : rend_map[k] # NoReq =>
        Registered(rend_map[k]) /\ rend[rend_map[k]] = k
  /\ \A r \in Reqs : Registered(r) => rend_map[rend[r]] = r

(***************************************************************************)
(* A send_and_wait that returned true hands its caller a response to the   *)
(* request it sent: request::resp carries the marker that was written into *)
(* the request.                                                            *)
(***************************************************************************)
ReplyMatchesCall ==
  \A r \in Reqs :
    pc[r] = "returned" /\ result[r] =>
      resp[r] # NoResp /\ trend[resp[r]] = sent[r]

(***************************************************************************)
(* A response thread works on a request that still exists: between the     *)
(* lookup in call_rendezvous and the end of request_rendezvous the owner   *)
(* has not deleted the object.                                             *)
(***************************************************************************)
NoCallOnDeleted ==
  \A p \in Resps :
    tst[p] \in {"found", "stored"} => pc[treq[p]] # "deleted"

(***************************************************************************)
(* Every send_and_wait returns, whatever the peer does: a response, the    *)
(* timeout or a failed send ends it.                                       *)
(***************************************************************************)
CallReturns ==
  \A r \in Reqs : pc[r] = "numbered" ~> pc[r] \in {"returned", "deleted"}

-----------------------------------------------------------------------------
(* With MaxCalls = 1 the library implements Rpc.                           *)

AbsCall ==
  [r \in Reqs |->
     IF pc[r] = "idle" THEN "idle"
     ELSE IF pc[r] \notin {"returned", "deleted"} THEN "pending"
     ELSE IF result[r] THEN "replied" ELSE "failed"]

AbsAnswered ==
  {r \in Reqs : \E p \in Resps : tst[p] # "unused" /\ trend[p] = sent[r]}

Abs == INSTANCE Rpc WITH call <- AbsCall, answered <- AbsAnswered

(***************************************************************************)
(* One use of send_and_wait is a remote procedure call: every behaviour of *)
(* the dispatcher, its map and its threads is one of Rpc.                  *)
(***************************************************************************)
ImplementsRpc == Abs!Spec
=============================================================================
