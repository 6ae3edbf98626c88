-------------------------- MODULE DispatcherProofs --------------------------
(***************************************************************************)
(* Theorems about Dispatcher.  The map invariant holds for any number of   *)
(* calls per request; that a reply matches its call, and that the library  *)
(* implements Rpc, hold when each request object is used once.             *)
(***************************************************************************)
EXTENDS Dispatcher, TLAPS

-----------------------------------------------------------------------------
(* The map, for any number of calls per request.                           *)

\* A request has a marker from TakeSeq to Clear, and only then.
MarkerInv ==
  \A r \in Reqs : rend[r] # DefRend <=> (pc[r] = "numbered" \/ Registered(r))

\* A marker was drawn from the counter of the request's operation.
SeqInv ==
  \A r \in Reqs : rend[r] # DefRend =>
    rend[r][1] = OpOf[r] /\ rend[r][2] < next_seq[OpOf[r]]

\* No two requests hold one marker.
UniqueInv ==
  \A r, s \in Reqs : rend[r] # DefRend /\ rend[r] = rend[s] => r = s

\* A response that has arrived carries a marker that was sent.
WireInv ==
  \A p \in Resps : tst[p] # "unused" => trend[p] \in wire

\* A thread past the lookup has found a request.
FoundInv ==
  \A p \in Resps :
    tst[p] \in {"found", "stored", "delivered"} => treq[p] \in Reqs

MapInv == /\ TypeOK
          /\ MarkerInv
          /\ SeqInv
          /\ UniqueInv
          /\ WireInv
          /\ FoundInv
          /\ MapMatchesWaiters

\* The default marker is not in the map's domain.
LEMMA DefRendNotRend == DefRend \notin Rends
  BY BoundAssumption DEF DefRend, Rends, Seqs

LEMMA InitMapInv == Init => MapInv
<1> SUFFICES ASSUME Init PROVE MapInv
  OBVIOUS
<1>1. TypeOK
  BY BoundAssumption DEF Init, TypeOK, Seqs, OwnerStates, ThreadStates
<1>2. MarkerInv /\ SeqInv /\ UniqueInv /\ WireInv /\ FoundInv
  BY DEF Init, MarkerInv, SeqInv, UniqueInv, WireInv, FoundInv, Registered
<1>3. MapMatchesWaiters
  BY DEF Init, MapMatchesWaiters, Registered
<1>4. QED
  BY <1>1, <1>2, <1>3 DEF MapInv

\* Drawing a marker: it is new, because every marker is below its counter.
LEMMA TakeSeqMapInv ==
  ASSUME MapInv, NEW r \in Reqs, TakeSeq(r)
  PROVE  MapInv'
<1> DEFINE o == OpOf[r]
           k == <<o, next_seq[o]>>
<1>1. o \in Ops /\ next_seq[o] \in Nat /\ next_seq[o] + 1 \in Seqs
  <2>1. o \in Ops
    BY OpAssumption
  <2>2. next_seq[o] \in 1..MaxSeq /\ next_seq[o] < MaxSeq
    BY <2>1 DEF MapInv, TypeOK, TakeSeq, Seqs
  <2>3. QED
    BY <2>1, <2>2, BoundAssumption DEF Seqs
<1>2. k \in Rends /\ k # DefRend
  BY <1>1, DefRendNotRend DEF MapInv, TypeOK, Rends
<1>3. TypeOK'
  BY <1>1, <1>2, BoundAssumption
  DEF MapInv, TypeOK, TakeSeq, OwnerStates, threadVars
<1>4. \A s \in Reqs : rend[s] # k
  <2> SUFFICES ASSUME NEW s \in Reqs, rend[s] = k PROVE FALSE
    OBVIOUS
  <2>1. OpOf[s] = o /\ next_seq[o] < next_seq[o]
    BY <1>2 DEF MapInv, SeqInv
  <2>2. QED
    BY <1>1, <2>1
<1>5. /\ rend'[r] = k
      /\ \A s \in Reqs : s # r => rend'[s] = rend[s] /\ pc'[s] = pc[s]
      /\ pc'[r] = "numbered"
      /\ next_seq'[o] = next_seq[o] + 1
      /\ \A q \in Ops : q # o => next_seq'[q] = next_seq[q]
  BY <1>1 DEF MapInv, TypeOK, TakeSeq
<1>6. MarkerInv'
  BY <1>2, <1>5 DEF MapInv, MarkerInv, Registered
<1>7. SeqInv'
  <2> SUFFICES ASSUME NEW s \in Reqs, rend'[s] # DefRend
               PROVE  rend'[s][1] = OpOf[s] /\ rend'[s][2] < next_seq'[OpOf[s]]
    BY DEF SeqInv
  <2>1. CASE s = r
    BY <1>1, <1>5, <2>1
  <2>2. CASE s # r
    <3>1. rend[s] # DefRend /\ rend[s] \in Rends
      BY <1>5, <2>2 DEF MapInv, TypeOK
    <3>2. rend[s][1] = OpOf[s] /\ rend[s][2] < next_seq[OpOf[s]]
      BY <3>1 DEF MapInv, SeqInv
    <3>3. rend[s][2] \in Nat /\ OpOf[s] \in Ops
      BY <3>1, OpAssumption DEF Rends, Seqs
    <3>4. QED
      BY <1>1, <1>5, <2>2, <3>2, <3>3
  <2>3. QED
    BY <2>1, <2>2
<1>8. UniqueInv'
  BY <1>2, <1>4, <1>5 DEF MapInv, UniqueInv
<1>9. WireInv' /\ FoundInv'
  BY DEF MapInv, WireInv, FoundInv, TakeSeq, threadVars
<1>10. MapMatchesWaiters'
  BY <1>5 DEF MapInv, TypeOK, MapMatchesWaiters, Registered, TakeSeq
<1>11. QED
  BY <1>3, <1>6, <1>7, <1>8, <1>9, <1>10 DEF MapInv

\* Entering the marker: no other request is registered under it.
LEMMA RegisterMapInv ==
  ASSUME MapInv, NEW r \in Reqs, Register(r)
  PROVE  MapInv'
<1>1. rend[r] \in Rends /\ rend[r] # DefRend
  BY DefRendNotRend DEF MapInv, TypeOK, MarkerInv, Register
<1>2. TypeOK'
  BY <1>1 DEF MapInv, TypeOK, Register, OwnerStates, threadVars
<1>3. MarkerInv' /\ SeqInv' /\ UniqueInv' /\ WireInv' /\ FoundInv'
  BY DEF MapInv, TypeOK, MarkerInv, SeqInv, UniqueInv, WireInv, FoundInv,
         Registered, Register, threadVars
<1>4. MapMatchesWaiters'
  <2>1. /\ rend_map'[rend[r]] = r
        /\ \A k \in Rends : k # rend[r] => rend_map'[k] = rend_map[k]
        /\ rend' = rend
        /\ pc'[r] = "registered"
        /\ \A s \in Reqs : s # r => pc'[s] = pc[s]
    BY <1>1 DEF MapInv, TypeOK, Register
  <2>2. ASSUME NEW k \in Rends, rend_map'[k] # NoReq
        PROVE  Registered(rend_map[k])' /\ rend[rend_map[k]]' = k
    <3>1. CASE k = rend[r]
      BY <2>1, <3>1 DEF Registered
    <3>2. CASE k # rend[r]
      <4>1. rend_map[k] \in Reqs /\ Registered(rend_map[k])
            /\ rend[rend_map[k]] = k
        BY <2>1, <2>2, <3>2 DEF MapInv, TypeOK, MapMatchesWaiters
      <4>2. rend_map[k] # r
        BY <4>1, <3>2
      <4>3. QED
        BY <2>1, <3>2, <4>1, <4>2 DEF Registered
    <3>3. QED
      BY <3>1, <3>2
  <2>3. ASSUME NEW s \in Reqs, Registered(s)'
        PROVE  (rend_map[rend[s]] = s)'
    <3>1. CASE s = r
      BY <2>1, <3>1
    <3>2. CASE s # r
      <4>1. Registered(s) /\ rend_map[rend[s]] = s
        BY <2>1, <2>3, <3>2 DEF MapInv, MapMatchesWaiters, Registered
      <4>2. rend[s] # rend[r]
        BY <1>1, <3>2 DEF MapInv, UniqueInv
      <4>3. rend[s] \in Rends
        BY <4>1 DEF MapInv, TypeOK, MarkerInv
      <4>4. QED
        BY <2>1, <4>1, <4>2, <4>3
    <3>3. QED
      BY <3>1, <3>2
  <2>4. QED
    BY <2>2, <2>3 DEF MapMatchesWaiters
<1>5. QED
  BY <1>2, <1>3, <1>4 DEF MapInv

\* Leaving send_and_wait: the entry goes, and no other request's entry does.
LEMMA ClearMapInv ==
  ASSUME MapInv, NEW r \in Reqs, Clear(r)
  PROVE  MapInv'
<1>1. rend[r] \in Rends /\ rend[r] # DefRend /\ Registered(r)
  BY DefRendNotRend DEF MapInv, TypeOK, MarkerInv, Clear, Registered
<1>2. TypeOK'
  BY <1>1 DEF MapInv, TypeOK, Clear, OwnerStates, threadVars
<1>3. /\ rend_map'[rend[r]] = NoReq
      /\ \A k \in Rends : k # rend[r] => rend_map'[k] = rend_map[k]
      /\ rend'[r] = DefRend
      /\ pc'[r] = "returned"
      /\ \A s \in Reqs : s # r => rend'[s] = rend[s] /\ pc'[s] = pc[s]
      /\ next_seq' = next_seq
  BY <1>1 DEF MapInv, TypeOK, Clear
<1>4. MarkerInv' /\ SeqInv' /\ UniqueInv'
  BY <1>3 DEF MapInv, MarkerInv, SeqInv, UniqueInv, Registered
<1>5. WireInv' /\ FoundInv'
  BY DEF MapInv, WireInv, FoundInv, Clear, threadVars
<1>6. MapMatchesWaiters'
  <2>1. ASSUME NEW k \in Rends, rend_map'[k] # NoReq
        PROVE  Registered(rend_map[k])' /\ rend[rend_map[k]]' = k
    <3>1. k # rend[r] /\ rend_map'[k] = rend_map[k]
      BY <1>3, <2>1
    <3>2. rend_map[k] \in Reqs /\ Registered(rend_map[k])
          /\ rend[rend_map[k]] = k
      BY <2>1, <3>1 DEF MapInv, TypeOK, MapMatchesWaiters
    <3>3. QED
      BY <1>3, <3>1, <3>2 DEF Registered
  <2>2. ASSUME NEW s \in Reqs, Registered(s)'
        PROVE  (rend_map[rend[s]] = s)'
    <3>1. s # r /\ Registered(s) /\ rend_map[rend[s]] = s
      BY <1>3, <2>2 DEF MapInv, MapMatchesWaiters, Registered
    <3>2. rend[s] # rend[r]
      BY <1>1, <3>1 DEF MapInv, UniqueInv
    <3>3. rend[s] \in Rends
      BY <3>1 DEF MapInv, TypeOK, MarkerInv
    <3>4. QED
      BY <1>3, <3>1, <3>2, <3>3
  <2>3. QED
    BY <2>1, <2>2 DEF MapMatchesWaiters
<1>7. QED
  BY <1>2, <1>4, <1>5, <1>6 DEF MapInv

\* The other steps of an owner move pc within or outside send_and_wait.
LEMMA OwnerMapInv ==
  ASSUME MapInv, NEW r \in Reqs, OwnerStep(r)
  PROVE  MapInv'
<1>1. CASE TakeSeq(r)
  BY <1>1, TakeSeqMapInv
<1>2. CASE Register(r)
  BY <1>2, RegisterMapInv
<1>3. CASE Clear(r)
  BY <1>3, ClearMapInv
<1>4. CASE Send(r)
  <2>1. rend[r] \in Rends
    BY <1>4 DEF MapInv, TypeOK, MarkerInv, Send, Registered
  <2>2. TypeOK'
    BY <1>4, <2>1 DEF MapInv, TypeOK, Send, OwnerStates, threadVars
  <2>3. MarkerInv' /\ SeqInv' /\ UniqueInv' /\ WireInv' /\ FoundInv'
    BY <1>4 DEF MapInv, TypeOK, MarkerInv, SeqInv, UniqueInv, WireInv,
                FoundInv, Registered, Send, threadVars
  <2>4. MapMatchesWaiters'
    BY <1>4 DEF MapInv, TypeOK, MapMatchesWaiters, Registered, Send
  <2>5. QED
    BY <2>2, <2>3, <2>4 DEF MapInv
<1>5. CASE SendFails(r) \/ Block(r) \/ WakeUp(r) \/ TimeOut(r)
  <2>1. TypeOK'
    BY <1>5 DEF MapInv, TypeOK, SendFails, Block, WakeUp, TimeOut,
                OwnerStates, threadVars
  <2>2. /\ UNCHANGED <<next_seq, rend_map, rend, wire, tst, trend, treq>>
        /\ Registered(r)
        /\ \A s \in Reqs : Registered(s)' <=> Registered(s)
        /\ \A s \in Reqs : pc'[s] = "numbered" <=> pc[s] = "numbered"
    BY <1>5 DEF MapInv, TypeOK, SendFails, Block, WakeUp, TimeOut,
                Registered, threadVars
  <2>3. MarkerInv' /\ SeqInv' /\ UniqueInv' /\ WireInv' /\ FoundInv'
    BY <2>2 DEF MapInv, MarkerInv, SeqInv, UniqueInv, WireInv, FoundInv
  <2>4. MapMatchesWaiters'
    BY <2>2 DEF MapInv, TypeOK, MapMatchesWaiters
  <2>5. QED
    BY <2>1, <2>3, <2>4 DEF MapInv
<1>6. CASE Reuse(r) \/ Delete(r)
  <2>1. TypeOK'
    BY <1>6 DEF MapInv, TypeOK, Reuse, Delete, OwnerStates, threadVars
  <2>2. /\ UNCHANGED <<next_seq, rend_map, rend, wire, tst, trend, treq>>
        /\ \A s \in Reqs : Registered(s)' <=> Registered(s)
        /\ \A s \in Reqs : pc'[s] = "numbered" <=> pc[s] = "numbered"
    BY <1>6 DEF MapInv, TypeOK, Reuse, Delete, Registered, threadVars
  <2>3. MarkerInv' /\ SeqInv' /\ UniqueInv' /\ WireInv' /\ FoundInv'
    BY <2>2 DEF MapInv, MarkerInv, SeqInv, UniqueInv, WireInv, FoundInv
  <2>4. MapMatchesWaiters'
    BY <2>2 DEF MapInv, TypeOK, MapMatchesWaiters
  <2>5. QED
    BY <2>1, <2>3, <2>4 DEF MapInv
<1>7. QED
  BY <1>1, <1>2, <1>3, <1>4, <1>5, <1>6 DEF OwnerStep

\* Neither the peer nor a response thread touches the map or the markers.
LEMMA ThreadMapInv ==
  ASSUME MapInv, NEW p \in Resps, PeerAnswers(p) \/ ThreadStep(p)
  PROVE  MapInv'
<1>1. /\ UNCHANGED <<next_seq, rend_map, rend, sent, wire, pc, calls, result>>
      /\ \A r \in Reqs : Registered(r)' <=> Registered(r)
  BY DEF PeerAnswers, ThreadStep, Discard, Find, Store, Signal, Registered
<1>2. MarkerInv' /\ SeqInv' /\ UniqueInv' /\ MapMatchesWaiters'
  BY <1>1 DEF MapInv, TypeOK, MarkerInv, SeqInv, UniqueInv, MapMatchesWaiters
<1>3. TypeOK' /\ WireInv' /\ FoundInv'
  <2>1. CASE PeerAnswers(p)
    BY <2>1 DEF PeerAnswers, MapInv, TypeOK, ThreadStates, WireInv, FoundInv
  <2>2. CASE Discard(p)
    BY <2>2 DEF Discard, MapInv, TypeOK, ThreadStates, WireInv, FoundInv
  <2>3. CASE Find(p)
    <3>1. trend[p] \in Rends
      BY <2>3 DEF Find, MapInv, TypeOK, WireInv
    <3>2. rend_map[trend[p]] \in Reqs
      BY <2>3, <3>1 DEF Find, MapInv, TypeOK
    <3>3. QED
      BY <2>3, <3>2 DEF Find, MapInv, TypeOK, ThreadStates, WireInv, FoundInv
  <2>4. CASE Store(p)
    BY <2>4 DEF Store, MapInv, TypeOK, ThreadStates, WireInv, FoundInv
  <2>5. CASE Signal(p)
    BY <2>5 DEF Signal, MapInv, TypeOK, ThreadStates, WireInv, FoundInv
  <2>6. QED
    BY <2>1, <2>2, <2>3, <2>4, <2>5 DEF ThreadStep
<1>4. QED
  BY <1>2, <1>3 DEF MapInv

LEMMA NextMapInv == MapInv /\ [Next]_vars => MapInv'
<1> SUFFICES ASSUME MapInv, [Next]_vars PROVE MapInv'
  OBVIOUS
<1>1. ASSUME NEW r \in Reqs, OwnerStep(r) PROVE MapInv'
  BY <1>1, OwnerMapInv
<1>2. ASSUME NEW p \in Resps, PeerAnswers(p) \/ ThreadStep(p) PROVE MapInv'
  BY <1>2, ThreadMapInv
<1>3. CASE UNCHANGED vars
  BY <1>3 DEF vars, MapInv, TypeOK, MarkerInv, SeqInv, UniqueInv, WireInv,
              FoundInv, MapMatchesWaiters, Registered
<1>4. QED
  BY <1>1, <1>2, <1>3 DEF Next

(***************************************************************************)
(* Type correctness of the dispatcher, for every set of requests,          *)
(* operations and responses and every number of calls.                     *)
(***************************************************************************)
THEOREM TypeCorrect == Spec => []TypeOK
<1>1. MapInv => TypeOK
  BY DEF MapInv
<1>2. QED
  BY <1>1, InitMapInv, NextMapInv, PTL DEF Spec

(***************************************************************************)
(* rend_map holds exactly the requests inside send_and_wait, however they  *)
(* leave it, however many threads interleave.                              *)
(***************************************************************************)
THEOREM MapCorrect == Spec => []MapMatchesWaiters
<1>1. MapInv => MapMatchesWaiters
  BY DEF MapInv
<1>2. QED
  BY <1>1, InitMapInv, NextMapInv, PTL DEF Spec

-----------------------------------------------------------------------------
(* Requests that are used for one call.                                    *)

\* A request that has begun its only call is never idle again.
OneCallInv ==
  \A r \in Reqs : IF pc[r] = "idle" THEN calls[r] = 0 ELSE calls[r] = 1

\* The marker in the buffer: none before the send, the request's own after.
SentInv ==
  \A r \in Reqs :
    /\ pc[r] \in {"idle", "numbered", "registered"} => sent[r] = DefRend
    /\ pc[r] \in {"sent", "blocked"} => sent[r] = rend[r]
    /\ sent[r] # DefRend => sent[r] \in wire
    /\ sent[r] # DefRend =>
         sent[r][1] = OpOf[r] /\ sent[r][2] < next_seq[OpOf[r]]

\* A marker on the wire was sent by one request and is held by no other.
WireOwnerInv ==
  \A k \in wire : \E r \in Reqs :
    /\ sent[r] = k
    /\ \A s \in Reqs : rend[s] = k \/ sent[s] = k => s = r

\* A thread that found a request brings the response to that request.
TargetInv ==
  \A p \in Resps :
    tst[p] \in {"found", "stored", "delivered"} => trend[p] = sent[treq[p]]

\* What is stored, signalled and reported as a reply was stored by a thread
\* that found this request.
StoredInv ==
  /\ \A r \in Reqs : resp[r] # NoResp =>
       tst[resp[r]] \in {"stored", "delivered"} /\ treq[resp[r]] = r
  /\ \A p \in Resps : tst[p] \in {"stored", "delivered"} =>
       resp[treq[p]] # NoResp
  /\ \A r \in Reqs : received[r] \/ result[r] => resp[r] # NoResp

OneShotInv == /\ MapInv
              /\ OneCallInv
              /\ SentInv
              /\ WireOwnerInv
              /\ TargetInv
              /\ StoredInv

LEMMA InitOneShotInv == Init => OneShotInv
<1> SUFFICES ASSUME Init PROVE OneShotInv
  OBVIOUS
<1>1. OneCallInv /\ SentInv /\ WireOwnerInv /\ TargetInv /\ StoredInv
  BY DEF Init, OneCallInv, SentInv, WireOwnerInv, TargetInv, StoredInv
<1>2. QED
  BY <1>1, InitMapInv DEF OneShotInv

\* A new marker is above every marker on the wire.
LEMMA TakeSeqOneShotInv ==
  ASSUME MaxCalls = 1, OneShotInv, NEW r \in Reqs, TakeSeq(r)
  PROVE  OneShotInv'
<1> DEFINE o == OpOf[r]
           k == <<o, next_seq[o]>>
<1>1. o \in Ops /\ next_seq[o] \in Nat
  BY OpAssumption, BoundAssumption DEF OneShotInv, MapInv, TypeOK, Seqs
<1>2. /\ rend'[r] = k
      /\ \A s \in Reqs : s # r => rend'[s] = rend[s] /\ pc'[s] = pc[s]
      /\ pc[r] = "idle" /\ pc'[r] = "numbered"
      /\ next_seq'[o] = next_seq[o] + 1
      /\ \A q \in Ops : q # o => next_seq'[q] = next_seq[q]
      /\ UNCHANGED <<sent, wire, received, resp, result, tst, trend, treq>>
  BY <1>1 DEF OneShotInv, MapInv, TypeOK, TakeSeq, threadVars
<1>3. MapInv'
  BY TakeSeqMapInv DEF OneShotInv
<1>4. OneCallInv'
  BY DEF OneShotInv, MapInv, TypeOK, OneCallInv, TakeSeq
<1>5. \A s \in Reqs : sent[s] # DefRend => sent[s] \in Rends
  BY DEF OneShotInv, MapInv, TypeOK
<1>6. SentInv'
  <2> SUFFICES ASSUME NEW s \in Reqs
               PROVE  /\ pc'[s] \in {"idle", "numbered", "registered"}
                            => sent'[s] = DefRend
                      /\ pc'[s] \in {"sent", "blocked"} => sent'[s] = rend'[s]
                      /\ sent'[s] # DefRend => sent'[s] \in wire'
                      /\ sent'[s] # DefRend =>
                           /\ sent'[s][1] = OpOf[s]
                           /\ sent'[s][2] < next_seq'[OpOf[s]]
    BY DEF SentInv
  <2>1. /\ pc'[s] \in {"idle", "numbered", "registered"} => sent'[s] = DefRend
        /\ pc'[s] \in {"sent", "blocked"} => sent'[s] = rend'[s]
        /\ sent'[s] # DefRend => sent'[s] \in wire'
    BY <1>2 DEF OneShotInv, SentInv
  <2>2. ASSUME sent[s] # DefRend
        PROVE  sent[s][1] = OpOf[s] /\ sent[s][2] < next_seq'[OpOf[s]]
    <3>1. sent[s][1] = OpOf[s] /\ sent[s][2] < next_seq[OpOf[s]]
      BY <2>2 DEF OneShotInv, SentInv
    <3>2. sent[s][2] \in Nat /\ OpOf[s] \in Ops
      BY <2>2, <1>5, OpAssumption DEF Rends, Seqs
    <3>3. QED
      BY <1>1, <1>2, <3>1, <3>2
  <2>3. QED
    BY <1>2, <2>1, <2>2
<1>7. \A s \in Reqs : sent[s] # k
  <2> SUFFICES ASSUME NEW s \in Reqs, sent[s] = k PROVE FALSE
    OBVIOUS
  <2>1. k # DefRend
    BY <1>1, DefRendNotRend, OpAssumption
    DEF OneShotInv, MapInv, TypeOK, Rends
  <2>2. OpOf[s] = o /\ next_seq[o] < next_seq[o]
    BY <2>1 DEF OneShotInv, SentInv
  <2>3. QED
    BY <1>1, <2>2
<1>8. WireOwnerInv'
  <2> SUFFICES ASSUME NEW w \in wire
               PROVE  \E q \in Reqs :
                        /\ sent[q] = w
                        /\ \A s \in Reqs : rend'[s] = w \/ sent[s] = w => s = q
    BY <1>2 DEF WireOwnerInv
  <2>1. PICK q \in Reqs : /\ sent[q] = w
                          /\ \A s \in Reqs : rend[s] = w \/ sent[s] = w => s = q
    BY DEF OneShotInv, WireOwnerInv
  <2>2. w # k
    BY <1>7, <2>1
  <2>3. QED
    BY <1>2, <2>1, <2>2
<1>9. TargetInv' /\ StoredInv'
  BY <1>2 DEF OneShotInv, TargetInv, StoredInv
<1>10. QED
  BY <1>3, <1>4, <1>6, <1>8, <1>9 DEF OneShotInv

\* The only send of a request puts its own marker on the wire.
LEMMA SendOneShotInv ==
  ASSUME OneShotInv, NEW r \in Reqs, Send(r)
  PROVE  OneShotInv'
<1>1. /\ sent[r] = DefRend /\ rend[r] # DefRend /\ rend[r] \in Rends
      /\ sent'[r] = rend[r] /\ pc'[r] = "sent" /\ pc[r] = "registered"
      /\ \A s \in Reqs : s # r => sent'[s] = sent[s] /\ pc'[s] = pc[s]
      /\ wire' = wire \cup {rend[r]}
      /\ UNCHANGED <<rend, next_seq, calls, received, resp, result, tst, trend,
                    treq>>
  BY DEF OneShotInv, MapInv, TypeOK, MarkerInv, SentInv, Registered, Send,
         threadVars
<1>2. OwnerStep(r)
  BY DEF OwnerStep
<1>3. MapInv'
  BY <1>2, OwnerMapInv DEF OneShotInv
<1>4. OneCallInv'
  BY <1>1 DEF OneShotInv, OneCallInv
<1>5. SentInv'
  BY <1>1 DEF OneShotInv, MapInv, SeqInv, SentInv
<1>6. WireOwnerInv'
  <2> SUFFICES ASSUME NEW w \in wire'
               PROVE  \E q \in Reqs :
                        /\ sent'[q] = w
                        /\ \A s \in Reqs : rend[s] = w \/ sent'[s] = w => s = q
    BY <1>1 DEF WireOwnerInv
  <2>1. CASE w = rend[r]
    <3>1. w \notin wire
      BY <2>1, <1>1 DEF OneShotInv, WireOwnerInv
    <3>2. \A s \in Reqs : sent[s] # w
      BY <2>1, <1>1, <3>1 DEF OneShotInv, SentInv
    <3>3. \A s \in Reqs : rend[s] = w \/ sent'[s] = w => s = r
      BY <2>1, <1>1, <3>2 DEF OneShotInv, MapInv, UniqueInv
    <3>4. QED
      BY <2>1, <1>1, <3>3
  <2>2. CASE w # rend[r]
    <3>1. PICK q \in Reqs :
            /\ sent[q] = w
            /\ \A s \in Reqs : rend[s] = w \/ sent[s] = w => s = q
      BY <2>2, <1>1 DEF OneShotInv, WireOwnerInv
    <3>2. w # DefRend
      BY <2>2, <1>1, DefRendNotRend DEF OneShotInv, MapInv, TypeOK
    <3>3. QED
      BY <1>1, <2>2, <3>1, <3>2
  <2>3. QED
    BY <2>1, <2>2
<1>7. TargetInv'
  <2> SUFFICES ASSUME NEW p \in Resps,
                      tst[p] \in {"found", "stored", "delivered"}
               PROVE  trend[p] = sent'[treq[p]]
    BY <1>1 DEF TargetInv
  <2>1. treq[p] \in Reqs /\ trend[p] = sent[treq[p]] /\ trend[p] \in wire
    BY DEF OneShotInv, MapInv, FoundInv, WireInv, TargetInv
  <2>2. trend[p] # DefRend
    BY <2>1, DefRendNotRend DEF OneShotInv, MapInv, TypeOK
  <2>3. QED
    BY <1>1, <2>1, <2>2
<1>8. StoredInv'
  BY <1>1 DEF OneShotInv, StoredInv
<1>9. QED
  BY <1>3, <1>4, <1>5, <1>6, <1>7, <1>8 DEF OneShotInv

\* The remaining steps of the owner.
LEMMA OwnerOneShotInv ==
  ASSUME MaxCalls = 1, OneShotInv, NEW r \in Reqs, OwnerStep(r)
  PROVE  OneShotInv'
<1>1. MapInv'
  BY OwnerMapInv DEF OneShotInv
<1>2. CASE TakeSeq(r)
  BY <1>2, TakeSeqOneShotInv
<1>3. CASE Send(r)
  BY <1>3, SendOneShotInv
<1>4. CASE Register(r) \/ SendFails(r) \/ Block(r) \/ WakeUp(r) \/ TimeOut(r)
  <2>1. /\ UNCHANGED <<next_seq, rend, sent, wire, calls, resp, tst, trend,
                       treq>>
        /\ \A s \in Reqs : s # r =>
             /\ pc'[s] = pc[s] /\ received'[s] = received[s]
             /\ result'[s] = result[s]
        /\ received'[r] => received[r]
        /\ result'[r] => received[r] \/ result[r]
        /\ pc[r] # "idle" /\ pc'[r] # "idle"
        /\ pc'[r] \in {"idle", "numbered", "registered"} => pc[r] = "numbered"
        /\ pc'[r] \in {"sent", "blocked"} => pc[r] = "sent"
    BY <1>4 DEF OneShotInv, MapInv, TypeOK, Register, SendFails, Block, WakeUp,
                TimeOut, threadVars
  <2>2. OneCallInv' /\ SentInv'
    BY <2>1 DEF OneShotInv, OneCallInv, SentInv
  <2>3. WireOwnerInv' /\ TargetInv'
    BY <2>1 DEF OneShotInv, WireOwnerInv, TargetInv
  <2>4. StoredInv'
    BY <2>1 DEF OneShotInv, StoredInv
  <2>5. QED
    BY <1>1, <2>2, <2>3, <2>4 DEF OneShotInv
<1>5. CASE Clear(r)
  <2>1. /\ UNCHANGED <<next_seq, sent, wire, calls, received, resp, result, tst,
                       trend, treq>>
        /\ \A s \in Reqs : s # r => pc'[s] = pc[s] /\ rend'[s] = rend[s]
        /\ pc[r] = "returning" /\ pc'[r] = "returned" /\ rend'[r] = DefRend
    BY <1>5 DEF OneShotInv, MapInv, TypeOK, Clear, threadVars
  <2>2. OneCallInv' /\ SentInv'
    BY <2>1 DEF OneShotInv, OneCallInv, SentInv
  <2>3. WireOwnerInv'
    <3> SUFFICES ASSUME NEW w \in wire
                 PROVE  \E q \in Reqs :
                   /\ sent[q] = w
                   /\ \A s \in Reqs : rend'[s] = w \/ sent[s] = w => s = q
      BY <2>1 DEF WireOwnerInv
    <3>1. PICK q \in Reqs :
            /\ sent[q] = w
            /\ \A s \in Reqs : rend[s] = w \/ sent[s] = w => s = q
      BY DEF OneShotInv, WireOwnerInv
    <3>2. w # DefRend
      BY DefRendNotRend DEF OneShotInv, MapInv, TypeOK
    <3>3. QED
      BY <2>1, <3>1, <3>2
  <2>4. TargetInv' /\ StoredInv'
    BY <2>1 DEF OneShotInv, TargetInv, StoredInv
  <2>5. QED
    BY <1>1, <2>2, <2>3, <2>4 DEF OneShotInv
<1>6. CASE Reuse(r)
  BY <1>6 DEF Reuse, OneShotInv, OneCallInv
<1>7. CASE Delete(r)
  <2>1. /\ UNCHANGED <<next_seq, rend, sent, wire, calls, received, resp,
                       result, tst, trend, treq>>
        /\ \A s \in Reqs : s # r => pc'[s] = pc[s]
        /\ pc[r] = "returned" /\ pc'[r] = "deleted"
    BY <1>7 DEF OneShotInv, MapInv, TypeOK, Delete, threadVars
  <2>2. OneCallInv' /\ SentInv'
    BY <2>1 DEF OneShotInv, OneCallInv, SentInv
  <2>3. WireOwnerInv' /\ TargetInv' /\ StoredInv'
    BY <2>1 DEF OneShotInv, WireOwnerInv, TargetInv, StoredInv
  <2>4. QED
    BY <1>1, <2>2, <2>3 DEF OneShotInv
<1>8. QED
  BY <1>2, <1>3, <1>4, <1>5, <1>6, <1>7 DEF OwnerStep

\* The marker looked up in the map identifies the request that sent it.
LEMMA ThreadOneShotInv ==
  ASSUME OneShotInv, NEW p \in Resps, PeerAnswers(p) \/ ThreadStep(p)
  PROVE  OneShotInv'
<1>1. MapInv'
  BY ThreadMapInv DEF OneShotInv
<1>2. UNCHANGED <<next_seq, rend_map, rend, sent, wire, pc, calls, result>>
  BY DEF PeerAnswers, ThreadStep, Discard, Find, Store, Signal
<1>3. OneCallInv' /\ SentInv' /\ WireOwnerInv'
  BY <1>2 DEF OneShotInv, OneCallInv, SentInv, WireOwnerInv
<1>4. TargetInv'
  <2>1. CASE PeerAnswers(p)
    BY <1>2, <2>1 DEF PeerAnswers, OneShotInv, MapInv, TypeOK, TargetInv
  <2>2. CASE Discard(p) \/ Store(p) \/ Signal(p)
    BY <1>2, <2>2
    DEF Discard, Store, Signal, OneShotInv, MapInv, TypeOK, TargetInv
  <2>3. CASE Find(p)
    <3> DEFINE q == rend_map[trend[p]]
    <3>1. trend[p] \in wire /\ trend[p] \in Rends
      BY <2>3 DEF Find, OneShotInv, MapInv, TypeOK, WireInv
    <3>2. q \in Reqs /\ rend[q] = trend[p]
      BY <2>3, <3>1 DEF Find, OneShotInv, MapInv, TypeOK, MapMatchesWaiters
    <3>3. sent[q] = trend[p]
      BY <3>1, <3>2 DEF OneShotInv, WireOwnerInv
    <3>4. QED
      BY <1>2, <2>3, <3>3 DEF Find, OneShotInv, MapInv, TypeOK, TargetInv
  <2>4. QED
    BY <2>1, <2>2, <2>3 DEF ThreadStep
<1>5. StoredInv'
  <2>1. CASE PeerAnswers(p)
    BY <1>2, <2>1 DEF PeerAnswers, OneShotInv, MapInv, TypeOK, StoredInv
  <2>2. CASE Discard(p)
    BY <1>2, <2>2 DEF Discard, OneShotInv, MapInv, TypeOK, StoredInv
  <2>3. CASE Find(p)
    BY <1>2, <2>3 DEF Find, OneShotInv, MapInv, TypeOK, StoredInv
  <2>4. CASE Store(p)
    <3>1. treq[p] \in Reqs /\ p # NoResp
      BY <2>4, NoRespAssumption DEF Store, OneShotInv, MapInv, FoundInv
    <3>2. /\ resp'[treq[p]] = p
          /\ \A s \in Reqs : s # treq[p] => resp'[s] = resp[s]
          /\ tst'[p] = "stored"
          /\ \A q \in Resps : q # p => tst'[q] = tst[q]
          /\ UNCHANGED <<trend, treq, received, result>>
      BY <2>4, <3>1 DEF Store, OneShotInv, MapInv, TypeOK
    <3>3. \A s \in Reqs : resp[s] \in Resps \cup {NoResp}
      BY DEF OneShotInv, MapInv, TypeOK
    <3>4. \A q \in Resps : tst[q] \in {"stored", "delivered"} =>
            treq[q] \in Reqs /\ resp[treq[q]] # NoResp
      BY DEF OneShotInv, MapInv, FoundInv, StoredInv
    <3>5. QED
      BY <3>1, <3>2, <3>3, <3>4 DEF OneShotInv, StoredInv
  <2>5. CASE Signal(p)
    BY <1>2, <2>5 DEF Signal, OneShotInv, MapInv, TypeOK, FoundInv, StoredInv
  <2>6. QED
    BY <2>1, <2>2, <2>3, <2>4, <2>5 DEF ThreadStep
<1>6. QED
  BY <1>1, <1>3, <1>4, <1>5 DEF OneShotInv

LEMMA NextOneShotInv ==
  MaxCalls = 1 => (OneShotInv /\ [Next]_vars => OneShotInv')
<1> SUFFICES ASSUME MaxCalls = 1, OneShotInv, [Next]_vars PROVE OneShotInv'
  OBVIOUS
<1>1. ASSUME NEW r \in Reqs, OwnerStep(r) PROVE OneShotInv'
  BY <1>1, OwnerOneShotInv
<1>2. ASSUME NEW p \in Resps, PeerAnswers(p) \/ ThreadStep(p)
      PROVE  OneShotInv'
  BY <1>2, ThreadOneShotInv
<1>3. CASE UNCHANGED vars
  <2>1. MapInv'
    BY NextMapInv DEF OneShotInv
  <2>2. QED
    BY <1>3, <2>1 DEF vars, OneShotInv, OneCallInv, SentInv, WireOwnerInv,
                      TargetInv, StoredInv
<1>4. QED
  BY <1>1, <1>2, <1>3 DEF Next

LEMMA OneShotReply == OneShotInv => ReplyMatchesCall
<1> SUFFICES ASSUME OneShotInv, NEW r \in Reqs, pc[r] = "returned", result[r]
             PROVE  resp[r] # NoResp /\ trend[resp[r]] = sent[r]
  BY DEF ReplyMatchesCall
<1>1. resp[r] # NoResp /\ resp[r] \in Resps
  BY DEF OneShotInv, MapInv, TypeOK, StoredInv
<1>2. tst[resp[r]] \in {"stored", "delivered"} /\ treq[resp[r]] = r
  BY <1>1 DEF OneShotInv, StoredInv
<1>3. QED
  BY <1>1, <1>2 DEF OneShotInv, TargetInv

(***************************************************************************)
(* If every request object is used for one call, a send_and_wait that      *)
(* returns true returns the response to the request it sent.               *)
(***************************************************************************)
THEOREM ReplyCorrect ==
  ASSUME MaxCalls = 1
  PROVE  Spec => []ReplyMatchesCall
<1>1. OneShotInv /\ [Next]_vars => OneShotInv'
  BY NextOneShotInv
<1>2. QED
  BY <1>1, InitOneShotInv, OneShotReply, PTL DEF Spec

-----------------------------------------------------------------------------
(* The refinement of Rpc.                                                  *)

LEMMA InitRpc == Init => Abs!Init
  BY DEF Init, Abs!Init, AbsCall, AbsAnswered

\* The peer's answer to a marker on the wire answers its sender's call.
LEMMA AnswerRpc ==
  ASSUME OneShotInv, NEW p \in Resps, PeerAnswers(p)
  PROVE  Abs!Next
<1>1. PICK k \in wire : /\ trend' = [trend EXCEPT ![p] = k]
                        /\ tst'[p] \in {"arrived", "discarded"}
                        /\ \A q \in Resps : q # p => tst'[q] = tst[q]
  BY DEF PeerAnswers, OneShotInv, MapInv, TypeOK
<1>2. /\ tst[p] = "unused"
      /\ trend'[p] = k
      /\ \A q \in Resps : q # p => trend'[q] = trend[q]
      /\ UNCHANGED <<sent, pc, result>>
  BY <1>1 DEF PeerAnswers, OneShotInv, MapInv, TypeOK
<1>3. PICK r \in Reqs : /\ sent[r] = k
                        /\ \A s \in Reqs : rend[s] = k \/ sent[s] = k => s = r
  BY DEF OneShotInv, WireOwnerInv
<1>4. pc[r] # "idle"
  BY <1>3, DefRendNotRend DEF OneShotInv, MapInv, TypeOK, SentInv
<1>5. AbsCall' = AbsCall /\ AbsCall[r] # "idle"
  BY <1>2, <1>4 DEF AbsCall
<1>6. AbsAnswered' = AbsAnswered \cup {r}
  BY <1>1, <1>2, <1>3 DEF AbsAnswered
<1>7. QED
  BY <1>5, <1>6 DEF Abs!Next, Abs!Answer

\* A step of a response thread is invisible to the caller.
LEMMA ThreadRpc ==
  ASSUME OneShotInv, NEW p \in Resps, ThreadStep(p)
  PROVE  UNCHANGED Abs!vars
<1>1. /\ UNCHANGED <<sent, pc, result, trend>>
      /\ \A q \in Resps : tst'[q] # "unused" <=> tst[q] # "unused"
  BY DEF ThreadStep, Discard, Find, Store, Signal, OneShotInv, MapInv, TypeOK
<1>2. QED
  BY <1>1 DEF Abs!vars, AbsCall, AbsAnswered

\* A call begins in TakeSeq and ends in Clear.
LEMMA OwnerRpc ==
  ASSUME MaxCalls = 1, OneShotInv, NEW r \in Reqs, OwnerStep(r)
  PROVE  Abs!Next \/ UNCHANGED Abs!vars
<1>1. CASE TakeSeq(r)
  <2>1. /\ UNCHANGED <<sent, result, tst, trend>>
        /\ pc[r] = "idle" /\ pc' = [pc EXCEPT ![r] = "numbered"]
        /\ pc \in [Reqs -> OwnerStates]
    BY <1>1 DEF TakeSeq, OneShotInv, MapInv, TypeOK, threadVars
  <2>2. AbsAnswered' = AbsAnswered
    BY <2>1 DEF AbsAnswered
  <2>3. AbsCall[r] = "idle" /\ AbsCall' = [AbsCall EXCEPT ![r] = "pending"]
    BY <2>1 DEF AbsCall
  <2>4. QED
    BY <2>2, <2>3 DEF Abs!Next, Abs!Begin
<1>2. CASE Send(r)
  <2>1. /\ UNCHANGED <<result, tst, trend>>
        /\ pc[r] = "registered" /\ pc' = [pc EXCEPT ![r] = "sent"]
        /\ sent' = [sent EXCEPT ![r] = rend[r]]
        /\ pc \in [Reqs -> OwnerStates]
        /\ sent[r] = DefRend
        /\ sent \in [Reqs -> Rends \cup {DefRend}]
    BY <1>2 DEF Send, OneShotInv, MapInv, TypeOK, SentInv, threadVars
  <2>2. AbsCall' = AbsCall
    BY <2>1 DEF AbsCall
  <2>3. \A p \in Resps : tst[p] # "unused" =>
          trend[p] # DefRend /\ trend[p] # rend[r]
    <3> SUFFICES ASSUME NEW p \in Resps, tst[p] # "unused"
                 PROVE  trend[p] # DefRend /\ trend[p] # rend[r]
      OBVIOUS
    <3>1. trend[p] \in wire /\ trend[p] # DefRend
      BY DefRendNotRend DEF OneShotInv, MapInv, TypeOK, WireInv
    <3>2. QED
      BY <2>1, <3>1 DEF OneShotInv, WireOwnerInv
  <2>4. AbsAnswered' = AbsAnswered
    BY <2>1, <2>3 DEF AbsAnswered
  <2>5. QED
    BY <2>2, <2>4 DEF Abs!vars
<1>3. CASE Register(r) \/ SendFails(r) \/ Block(r) \/ WakeUp(r) \/ TimeOut(r)
  <2>1. /\ UNCHANGED <<sent, tst, trend>>
        /\ pc[r] \notin {"idle", "returned", "deleted"}
        /\ pc'[r] \notin {"idle", "returned", "deleted"}
        /\ \A s \in Reqs : s # r => pc'[s] = pc[s] /\ result'[s] = result[s]
    BY <1>3 DEF Register, SendFails, Block, WakeUp, TimeOut, OneShotInv,
                MapInv, TypeOK, threadVars
  <2>2. AbsCall' = AbsCall /\ AbsAnswered' = AbsAnswered
    BY <2>1 DEF AbsCall, AbsAnswered
  <2>3. QED
    BY <2>2 DEF Abs!vars
<1>4. CASE Clear(r)
  <2>1. /\ UNCHANGED <<sent, result, tst, trend>>
        /\ pc[r] = "returning" /\ pc' = [pc EXCEPT ![r] = "returned"]
        /\ pc \in [Reqs -> OwnerStates]
    BY <1>4 DEF Clear, OneShotInv, MapInv, TypeOK, threadVars
  <2>2. AbsAnswered' = AbsAnswered
    BY <2>1 DEF AbsAnswered
  <2>3. AbsCall[r] = "pending"
    BY <2>1 DEF AbsCall
  <2>4. CASE result[r]
    <3>1. resp[r] \in Resps /\ tst[resp[r]] \in {"stored", "delivered"}
          /\ treq[resp[r]] = r
      BY <2>4 DEF OneShotInv, MapInv, TypeOK, StoredInv
    <3>2. r \in AbsAnswered
      BY <3>1 DEF OneShotInv, TargetInv, AbsAnswered
    <3>3. AbsCall' = [AbsCall EXCEPT ![r] = "replied"]
      BY <2>1, <2>4 DEF AbsCall
    <3>4. QED
      BY <2>2, <2>3, <3>2, <3>3 DEF Abs!Next, Abs!Reply
  <2>5. CASE ~result[r]
    <3>1. AbsCall' = [AbsCall EXCEPT ![r] = "failed"]
      BY <2>1, <2>5 DEF AbsCall
    <3>2. QED
      BY <2>2, <2>3, <3>1 DEF Abs!Next, Abs!Fail
  <2>6. QED
    BY <2>4, <2>5
<1>5. CASE Reuse(r)
  BY <1>5 DEF Reuse, OneShotInv, OneCallInv
<1>6. CASE Delete(r)
  <2>1. /\ UNCHANGED <<sent, result, tst, trend>>
        /\ pc[r] = "returned" /\ pc' = [pc EXCEPT ![r] = "deleted"]
        /\ pc \in [Reqs -> OwnerStates]
    BY <1>6 DEF Delete, OneShotInv, MapInv, TypeOK, threadVars
  <2>2. AbsCall' = AbsCall /\ AbsAnswered' = AbsAnswered
    BY <2>1 DEF AbsCall, AbsAnswered
  <2>3. QED
    BY <2>2 DEF Abs!vars
<1>7. QED
  BY <1>1, <1>2, <1>3, <1>4, <1>5, <1>6 DEF OwnerStep

LEMMA StepRpc ==
  MaxCalls = 1 => (OneShotInv /\ [Next]_vars => [Abs!Next]_(Abs!vars))
<1> SUFFICES ASSUME MaxCalls = 1, OneShotInv, [Next]_vars
             PROVE  Abs!Next \/ UNCHANGED Abs!vars
  OBVIOUS
<1>1. ASSUME NEW r \in Reqs, OwnerStep(r)
      PROVE  Abs!Next \/ UNCHANGED Abs!vars
  BY <1>1, OwnerRpc
<1>2. ASSUME NEW p \in Resps, PeerAnswers(p) PROVE Abs!Next
  BY <1>2, AnswerRpc
<1>3. ASSUME NEW p \in Resps, ThreadStep(p) PROVE UNCHANGED Abs!vars
  BY <1>3, ThreadRpc
<1>4. CASE UNCHANGED vars
  BY <1>4 DEF vars, Abs!vars, AbsCall, AbsAnswered
<1>5. QED
  BY <1>1, <1>2, <1>3, <1>4 DEF Next

(***************************************************************************)
(* If every request object is used for one call, the dispatcher, the       *)
(* request threads and the response threads implement Rpc.                 *)
(***************************************************************************)
THEOREM RpcRefinement ==
  ASSUME MaxCalls = 1
  PROVE  Spec => ImplementsRpc
<1>1. OneShotInv /\ [Next]_vars => OneShotInv'
  BY NextOneShotInv
<1>2. OneShotInv /\ [Next]_vars => [Abs!Next]_(Abs!vars)
  BY StepRpc
<1>3. QED
  BY <1>1, <1>2, InitOneShotInv, InitRpc, PTL DEF Spec, ImplementsRpc, Abs!Spec
=============================================================================
