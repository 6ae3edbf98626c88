---------------------------- MODULE DaemonsProofs ----------------------------
(***************************************************************************)
(* What holds of the daemons around the crd for every number of            *)
(* connections, VMs, sessions, ports, threads and paths, and however many  *)
(* requests they get.  Four parts, in the order of the theorems: the       *)
(* connections and the listener; the routes of the hosts; those of the     *)
(* CCNx router; and the sessions and names of the VM and VPN servers,      *)
(* whose steps are first reduced to what they do to lists and requests,    *)
(* the same for both servers (the Shape lemmas), and then shown to keep    *)
(* the invariants (the Keep and Names lemmas).                             *)
(***************************************************************************)
EXTENDS MCDaemons, FiniteSetTheorems, WellFoundedInduction, TLAPS

-----------------------------------------------------------------------------
(* Who may delete a connection (src/shared/nccp_connection.cc).  An         *)
(* accepted connection is kept alive by its count of messages, the          *)
(* connection of a daemon by the flag with which its owner and its receiver *)
(* thread hand it over.                                                     *)

Thread ==
  [pc : {"free", "create", "handle", "kept"}, conn : Conns \cup {None}, kind : Kinds,
   stop : BOOLEAN]

TypeOK ==
  /\ obj \in [Conns -> {"none", "live", "freed"}]
  /\ closed \in [Conns -> BOOLEAN]
  /\ finished \in [Conns -> BOOLEAN]
  /\ count \in [Conns -> Int]
  /\ listed \subseteq Accepted
  /\ lis \in {"cleanup", "select"}
  /\ rcv \in [Conns -> {"none", "loop", "exit", "mark", "done"}]
  /\ held \in [Clients -> BOOLEAN]
  /\ asked \in [Clients -> BOOLEAN]
  /\ thr \in [MsgThreads -> Thread]

\* The threads on a connection, and those whose message object counts as its user.
Users(c) == {t \in MsgThreads : thr[t].conn = c}
Counted(c) == {t \in Users(c) : thr[t].pc \in {"handle", "kept"}}

\* A thread that is not free has a connection, a free one has none.
FreeInv == \A t \in MsgThreads : thr[t].conn = None <=> thr[t].pc = "free"

\* The count of an accepted connection covers the message objects, and one more as
\* soon as a thread has been started: the receipt is counted too, and never taken back.
CountInv ==
  \A c \in Accepted :
    /\ count[c] >= Cardinality(Counted(c))
    /\ Users(c) # {} => count[c] > Cardinality(Counted(c))

\* A connection that is yet to be made has no receiver thread and is not finished.
FreshInv == \A c \in Conns : obj[c] = "none" => rcv[c] = "none" /\ ~finished[c]

\* A connection the listener may delete has no receiver thread any more.
ReceiverInv ==
  \A c \in Accepted :
    /\ finished[c] => rcv[c] = "done"
    /\ obj[c] = "freed" => rcv[c] = "done"

\* The owner of a connection that the receiver thread has finished may delete it, for
\* the thread is done with it.
OwnerInv ==
  \A c \in Clients :
    held[c] /\ finished[c] => rcv[c] = "done"

ConnInv ==
  /\ TypeOK /\ FreeInv /\ CountInv /\ FreshInv /\ ReceiverInv
  /\ OwnerInv /\ DeletedUnused /\ OwnerPointerLive
-----------------------------------------------------------------------------
\* The counted threads of a connection are finitely many.
LEMMA CountedFinite ==
  ASSUME NEW c
  PROVE  IsFiniteSet(Counted(c)) /\ Cardinality(Counted(c)) \in Nat
  <1>1. Counted(c) \subseteq MsgThreads
    BY DEF Counted, Users
  <1> QED
    BY <1>1, FS_Subset, FS_CardinalityType, ConnAssumption

\* The constants and the initial state.
LEMMA InitInv == ASSUME Init PROVE ConnInv
  <1> USE ConnAssumption
  <1>1. TypeOK
    BY DEF Init, TypeOK, Thread, Free, Kinds
  <1>2. FreeInv
    BY DEF Init, FreeInv, Free
  <1>3. \A c \in Accepted : Users(c) = {} /\ Counted(c) = {}
    BY DEF Init, Users, Counted, Free, Conns
  <1>4. CountInv
    BY <1>3, FS_EmptySet DEF Init, CountInv, Conns
  <1>5. FreshInv /\ ReceiverInv /\ OwnerInv /\ DeletedUnused /\ OwnerPointerLive
    BY DEF Init, FreshInv, ReceiverInv, OwnerInv, DeletedUnused, OwnerPointerLive, Conns
  <1> QED
    BY <1>1, <1>2, <1>4, <1>5 DEF ConnInv

\* A step that changes no thread's place and no accepted connection's count.
LEMMA SameThreads ==
  ASSUME CountInv,
         \A t \in MsgThreads : thr'[t].conn = thr[t].conn /\ thr'[t].pc = thr[t].pc,
         \A c \in Accepted : count'[c] = count[c]
  PROVE  CountInv'
  <1>1. \A c : Users(c)' = Users(c) /\ Counted(c)' = Counted(c)
    BY DEF Users, Counted
  <1> QED
    BY <1>1 DEF CountInv

\* A step of one thread on its connection d: it starts, becomes counted, or ends, and
\* the count of d follows.
LEMMA OneThread ==
  ASSUME TypeOK, CountInv,
         NEW t \in MsgThreads, NEW d \in Conns,
         \A u \in MsgThreads \ {t} : thr'[u].conn = thr[u].conn /\ thr'[u].pc = thr[u].pc,
         thr[t].conn \in {d, None}, thr'[t].conn \in {d, None},
         \A c \in Conns \ {d} : count'[c] = count[c],
         \/ /\ t \notin Counted(d) /\ thr'[t].conn = d /\ thr'[t].pc = "create"
            /\ count'[d] = count[d] + 1
         \/ /\ t \in Users(d) \ Counted(d)
            /\ \/ thr'[t].conn = None /\ count'[d] = count[d]
               \/ /\ thr'[t].conn = d /\ thr'[t].pc \in {"handle", "kept"}
                  /\ count'[d] = count[d] + 1
         \/ t \in Counted(d) /\ thr'[t].conn = None /\ count'[d] = count[d] - 1
  PROVE  CountInv'
  <1> SUFFICES ASSUME NEW c \in Accepted
               PROVE  /\ count'[c] >= Cardinality(Counted(c)')
                      /\ Users(c)' # {} => count'[c] > Cardinality(Counted(c)')
    BY DEF CountInv
  <1>1. c \in Conns /\ c # None /\ count[c] \in Int
    BY ConnAssumption DEF TypeOK, Conns
  <1>2. IsFiniteSet(Counted(c)) /\ Cardinality(Counted(c)) \in Nat
    BY CountedFinite
  <1>3. /\ count[c] >= Cardinality(Counted(c))
        /\ Users(c) # {} => count[c] > Cardinality(Counted(c))
    BY DEF CountInv
  <1>4. CASE c # d
    <2>1. Users(c)' = Users(c) /\ Counted(c)' = Counted(c)
      BY <1>1, <1>4 DEF Users, Counted
    <2> QED
      BY <1>1, <1>3, <1>4, <2>1
  <1>5. CASE c = d /\ t \notin Counted(d) /\ thr'[t].conn = d /\ thr'[t].pc = "create"
             /\ count'[d] = count[d] + 1
    <2>1. Counted(c)' = Counted(c)
      BY <1>5 DEF Users, Counted
    <2> QED
      BY <1>1, <1>2, <1>3, <1>5, <2>1
  <1>6. CASE c = d /\ t \in Users(d) \ Counted(d) /\ thr'[t].conn = None
             /\ count'[d] = count[d]
    <2>1. Counted(c)' = Counted(c)
      BY <1>1, <1>6 DEF Users, Counted
    <2> QED
      BY <1>1, <1>2, <1>3, <1>6, <2>1
  <1>7. CASE c = d /\ t \in Users(d) \ Counted(d) /\ thr'[t].conn = d
             /\ thr'[t].pc \in {"handle", "kept"} /\ count'[d] = count[d] + 1
    <2>1. Counted(c)' = Counted(c) \cup {t}
      BY <1>7 DEF Users, Counted
    <2>2. Cardinality(Counted(c) \cup {t}) = Cardinality(Counted(c)) + 1
      BY <1>2, <1>7, FS_AddElement
    <2> QED
      BY <1>1, <1>2, <1>3, <1>7, <2>1, <2>2
  <1>8. CASE c = d /\ t \in Counted(d) /\ thr'[t].conn = None /\ count'[d] = count[d] - 1
    <2>1. Counted(c)' = Counted(c) \ {t}
      BY <1>1, <1>8 DEF Users, Counted
    <2>2. Cardinality(Counted(c)') = Cardinality(Counted(c)) - 1
      BY <1>2, <1>8, <2>1, FS_RemoveElement
    <2>3. Users(c) # {}
      BY <1>8 DEF Counted
    <2> QED
      BY <1>1, <1>2, <1>3, <1>8, <2>2, <2>3
  <1> QED
    BY <1>4, <1>5, <1>6, <1>7, <1>8

\* A stop message ends its thread and leaves the others where they are.
LEMMA StopShape ==
  ASSUME TypeOK, NEW t \in MsgThreads, stop_periodic(t)
  PROVE  /\ thr' \in [MsgThreads -> Thread]
         /\ thr'[t] = Free
         /\ \A v \in MsgThreads \ {t} : thr'[v].conn = thr[v].conn /\ thr'[v].pc = thr[v].pc
  <1>1. PICK u \in MsgThreads \cup {None} :
          thr' = [v \in MsgThreads |->
                    CASE v = t -> Free
                      [] v = u /\ v # t /\ thr[v].kind = "periodic"
                           -> [thr[v] EXCEPT !.stop = TRUE]
                      [] OTHER -> thr[v]]
    BY DEF stop_periodic
  <1>2. thr'[t] = Free
    BY <1>1
  <1>3. ASSUME NEW v \in MsgThreads, v # t
        PROVE  thr'[v] = thr[v] \/ thr'[v] = [thr[v] EXCEPT !.stop = TRUE]
    BY <1>1, <1>3
  <1>4. ASSUME NEW v \in MsgThreads, v # t
        PROVE  /\ thr'[v] \in Thread
               /\ thr'[v].conn = thr[v].conn /\ thr'[v].pc = thr[v].pc
    <2>1. thr[v] \in Thread
      BY DEF TypeOK
    <2> QED
      BY <1>3, <1>4, <2>1 DEF Thread
  <1>5. Free \in Thread
    BY DEF Free, Thread, Kinds
  <1>6. thr' = [v \in MsgThreads |-> thr'[v]]
    BY <1>1
  <1>7. \A v \in MsgThreads : thr'[v] \in Thread
    BY <1>2, <1>4, <1>5
  <1> QED
    BY <1>2, <1>4, <1>6, <1>7

\* Every step keeps the types.
LEMMA TypeStep == ASSUME TypeOK, FreeInv, [Next]_vars PROVE TypeOK'
  <1> USE DEF TypeOK
  <1>1. CASE cleanup
    BY <1>1 DEF cleanup
  <1>2. ASSUME NEW c \in Conns, Request(c) PROVE TypeOK'
    <2>1. CASE add_connection(c)
      BY <2>1 DEF add_connection
    <2>2. CASE Connect(c)
      BY <2>2 DEF Connect
    <2>3. CASE send_and_wait(c)
      <3>1. count' \in [Conns -> Int]
        BY <2>3 DEF send_and_wait, increment_msg_count
      <3>2. closed' \in [Conns -> BOOLEAN]
        BY <2>3 DEF send_and_wait
      <3> QED
        BY <2>3, <3>1, <3>2 DEF send_and_wait
    <2>4. ASSUME NEW t \in MsgThreads, NEW k \in Kinds, get_message(c, t, k) PROVE TypeOK'
      <3>1. count' \in [Conns -> Int]
        BY <2>4 DEF get_message, Received, increment_msg_count
      <3>2. [Free EXCEPT !.pc = "create", !.conn = c, !.kind = k] \in Thread
        BY DEF Thread, Free
      <3>3. thr' \in [MsgThreads -> Thread]
        BY <2>4, <3>2 DEF get_message
      <3> QED
        BY <2>4, <3>1, <3>3 DEF get_message
    <2> QED
      BY <1>2, <2>1, <2>2, <2>3, <2>4 DEF Request
  <1>3. ASSUME NEW c \in Conns, Step(c) PROVE TypeOK'
    <2>1. CASE DeleteRequest(c)
      BY <2>1 DEF DeleteRequest, decrement_msg_count
    <2>2. CASE OwnerFinished(c)
      BY <2>2 DEF OwnerFinished
    <2>3. CASE OwnerDeletes(c)
      BY <2>3 DEF OwnerDeletes
    <2>4. CASE EndOfMessages(c)
      BY <2>4 DEF EndOfMessages
    <2>5. CASE isFinished(c)
      BY <2>5 DEF isFinished
    <2>6. CASE setFinished(c)
      BY <2>6 DEF setFinished
    <2> QED
      BY <1>3, <2>1, <2>2, <2>3, <2>4, <2>5, <2>6 DEF Step
  <1>4. ASSUME NEW t \in MsgThreads, Process(t) PROVE TypeOK'
    <2>0. /\ Free \in Thread /\ thr[t] \in Thread
          /\ [thr[t] EXCEPT !.pc = "handle"] \in Thread
          /\ [thr[t] EXCEPT !.pc = "kept"] \in Thread
      BY DEF Thread, Free, Kinds
    <2>c. thr[t].conn \in Conns /\ count[thr[t].conn] \in Int
      BY <1>4 DEF Process, process_message, handle, DeleteKept, handle_periodic,
                  stop_periodic, FreeInv, Thread
    <2>1. CASE process_message(t)
      <3>1. count' \in [Conns -> Int]
        BY <2>1, <2>c DEF process_message, increment_msg_count
      <3>2. thr' \in [MsgThreads -> Thread]
        BY <2>0, <2>1 DEF process_message
      <3> QED
        BY <2>1, <3>1, <3>2 DEF process_message
    <2>2. CASE handle(t)
      <3>1. count' \in [Conns -> Int]
        BY <2>2, <2>c DEF handle, decrement_msg_count
      <3>2. thr' \in [MsgThreads -> Thread]
        BY <2>0, <2>2 DEF handle
      <3>3. closed' \in [Conns -> BOOLEAN]
        BY <2>2, <2>c DEF handle, Sends
      <3> QED
        BY <2>2, <3>1, <3>2, <3>3 DEF handle
    <2>3. CASE DeleteKept(t)
      <3>1. count' \in [Conns -> Int]
        BY <2>3, <2>c DEF DeleteKept, decrement_msg_count
      <3>2. thr' \in [MsgThreads -> Thread]
        BY <2>0, <2>3 DEF DeleteKept
      <3> QED
        BY <2>3, <3>1, <3>2 DEF DeleteKept
    <2>4. CASE handle_periodic(t)
      <3>1. count' \in [Conns -> Int]
        BY <2>4, <2>c DEF handle_periodic, decrement_msg_count
      <3>2. thr' \in [MsgThreads -> Thread]
        BY <2>0, <2>4 DEF handle_periodic
      <3>3. closed' \in [Conns -> BOOLEAN]
        BY <2>4, <2>c DEF handle_periodic, Sends
      <3> QED
        BY <2>4, <3>1, <3>2, <3>3 DEF handle_periodic
    <2>5. CASE stop_periodic(t)
      <3>1. thr' \in [MsgThreads -> Thread]
        BY <2>5, StopShape
      <3>2. count' \in [Conns -> Int]
        BY <2>5, <2>c DEF stop_periodic, decrement_msg_count
      <3> QED
        BY <2>5, <3>1, <3>2 DEF stop_periodic
    <2> QED
      BY <1>4, <2>1, <2>2, <2>3, <2>4, <2>5 DEF Process
  <1>5. CASE UNCHANGED vars
    BY <1>5 DEF vars
  <1> QED
    BY <1>1, <1>2, <1>3, <1>4, <1>5 DEF Next

\* A thread is on a connection while it is not free.
LEMMA FreeStep == ASSUME TypeOK, FreeInv, [Next]_vars PROVE FreeInv'
  <1> USE DEF FreeInv
  <1>1. CASE cleanup \/ UNCHANGED vars
    BY <1>1 DEF cleanup, vars
  <1>2. ASSUME NEW c \in Conns, Request(c) PROVE FreeInv'
    <2>1. CASE add_connection(c) \/ Connect(c) \/ send_and_wait(c)
      BY <2>1 DEF add_connection, Connect, send_and_wait
    <2>2. ASSUME NEW t \in MsgThreads, NEW k \in Kinds, get_message(c, t, k) PROVE FreeInv'
      BY <2>2, ConnAssumption DEF get_message, Free, TypeOK
    <2> QED
      BY <1>2, <2>1, <2>2 DEF Request
  <1>3. ASSUME NEW c \in Conns, Step(c) PROVE FreeInv'
    BY <1>3 DEF Step, DeleteRequest, OwnerFinished, OwnerDeletes, EndOfMessages, isFinished,
                setFinished
  <1>4. ASSUME NEW t \in MsgThreads, Process(t) PROVE FreeInv'
    <2> USE DEF TypeOK, Thread
    <2>1. CASE process_message(t)
      BY <2>1 DEF process_message, Free
    <2>2. CASE handle(t)
      BY <2>2 DEF handle, Free
    <2>3. CASE DeleteKept(t)
      BY <2>3 DEF DeleteKept, Free
    <2>4. CASE handle_periodic(t)
      BY <2>4 DEF handle_periodic, Free
    <2>5. CASE stop_periodic(t)
      BY <2>5, StopShape DEF Free
    <2> QED
      BY <1>4, <2>1, <2>2, <2>3, <2>4, <2>5 DEF Process
  <1> QED
    BY <1>1, <1>2, <1>3, <1>4 DEF Next

\* The count of an accepted connection covers its messages after every step.
LEMMA CountStep ==
  ASSUME TypeOK, FreeInv, CountInv, [Next]_vars
  PROVE  CountInv'
  <1>1. CASE cleanup \/ UNCHANGED vars
    BY <1>1, SameThreads DEF cleanup, vars
  <1>2. ASSUME NEW c \in Conns, Request(c) PROVE CountInv'
    <2>1. CASE add_connection(c) \/ Connect(c)
      BY <2>1, SameThreads DEF add_connection, Connect
    <2>2. CASE send_and_wait(c)
      <3>1. \A a \in Accepted : count'[a] = count[a]
        BY <2>2, ConnAssumption DEF send_and_wait, increment_msg_count, TypeOK, Conns
      <3> QED
        BY <2>2, <3>1, SameThreads DEF send_and_wait
    <2>3. ASSUME NEW t \in MsgThreads, NEW k \in Kinds, get_message(c, t, k) PROVE CountInv'
      <3>1. /\ thr[t].conn = None /\ thr'[t].conn = c /\ thr'[t].pc = "create"
            /\ \A u \in MsgThreads \ {t} : thr'[u] = thr[u]
        BY <2>3 DEF get_message, Free, TypeOK, FreeInv
      <3>2. count'[c] = count[c] + 1 /\ \A a \in Conns \ {c} : count'[a] = count[a]
        BY <2>3 DEF get_message, Received, increment_msg_count, TypeOK
      <3>3. t \notin Counted(c)
        BY <3>1, ConnAssumption DEF Counted, Users
      <3> QED
        BY <3>1, <3>2, <3>3, OneThread
    <2> QED
      BY <1>2, <2>1, <2>2, <2>3 DEF Request
  <1>3. ASSUME NEW c \in Conns, Step(c) PROVE CountInv'
    <2>1. CASE DeleteRequest(c)
      <3>1. \A a \in Accepted : count'[a] = count[a]
        BY <2>1, ConnAssumption DEF DeleteRequest, decrement_msg_count, TypeOK, Conns
      <3> QED
        BY <2>1, <3>1, SameThreads DEF DeleteRequest
    <2>2. CASE \/ OwnerFinished(c) \/ OwnerDeletes(c) \/ EndOfMessages(c)
               \/ isFinished(c) \/ setFinished(c)
      BY <2>2, SameThreads
         DEF OwnerFinished, OwnerDeletes, EndOfMessages, isFinished, setFinished
    <2> QED
      BY <1>3, <2>1, <2>2 DEF Step
  <1>4. ASSUME NEW t \in MsgThreads, Process(t) PROVE CountInv'
    <2> DEFINE d == thr[t].conn
    <2>1. d \in Conns
      BY <1>4 DEF Process, process_message, handle, DeleteKept, handle_periodic,
                  stop_periodic, FreeInv, TypeOK, Thread
    <2>2. ASSUME thr[t].pc \in {"handle", "kept"}, thr'[t] = Free, decrement_msg_count(d),
                 \A u \in MsgThreads \ {t} :
                   thr'[u].conn = thr[u].conn /\ thr'[u].pc = thr[u].pc
          PROVE  CountInv'
      <3>1. count'[d] = count[d] - 1 /\ \A a \in Conns \ {d} : count'[a] = count[a]
        BY <2>1, <2>2 DEF decrement_msg_count, TypeOK
      <3>2. t \in Counted(d)
        BY <2>2 DEF Counted, Users
      <3>3. thr'[t].conn = None
        BY <2>2 DEF Free
      <3> QED
        BY <2>1, <2>2, <3>1, <3>2, <3>3, OneThread
    <2>3. CASE process_message(t)
      <3>1. t \in Users(d) \ Counted(d)
        BY <2>3 DEF process_message, Users, Counted
      <3>2. \A u \in MsgThreads \ {t} : thr'[u] = thr[u]
        BY <2>3 DEF process_message, TypeOK
      <3>3. CASE thr[t].kind = "unknown"
        <4>1. thr'[t].conn = None /\ count' = count
          BY <2>3, <3>3 DEF process_message, Free, TypeOK
        <4> QED
          BY <2>1, <3>1, <3>2, <4>1, OneThread
      <3>4. CASE thr[t].kind # "unknown"
        <4>1. thr'[t].conn = d /\ thr'[t].pc = "handle"
          BY <2>3, <3>4 DEF process_message, TypeOK, Thread
        <4>2. count'[d] = count[d] + 1 /\ \A a \in Conns \ {d} : count'[a] = count[a]
          BY <2>1, <2>3, <3>4 DEF process_message, increment_msg_count, TypeOK
        <4> QED
          BY <2>1, <3>1, <3>2, <4>1, <4>2, OneThread
      <3> QED
        BY <3>3, <3>4
    <2>4. CASE handle(t)
      <3>1. CASE thr' = [thr EXCEPT ![t] = Free] /\ decrement_msg_count(thr[t].conn)
        BY <2>2, <2>4, <3>1 DEF handle, TypeOK
      <3>2. CASE thr' = [thr EXCEPT ![t].pc = "kept"] /\ UNCHANGED count
        <4>1. \A c \in Conns : Users(c)' = Users(c) /\ Counted(c)' = Counted(c)
          BY <2>4, <3>2 DEF handle, Users, Counted, TypeOK, Thread
        <4> QED
          BY <3>2, <4>1 DEF CountInv, Conns
      <3> QED
        BY <2>4, <3>1, <3>2 DEF handle
    <2>5. CASE DeleteKept(t)
      BY <2>2, <2>5 DEF DeleteKept, TypeOK
    <2>6. CASE handle_periodic(t)
      <3>1. CASE thr[t].stop
        BY <2>2, <2>6, <3>1 DEF handle_periodic, TypeOK
      <3>2. CASE ~thr[t].stop
        BY <2>6, <3>2, SameThreads DEF handle_periodic
      <3> QED
        BY <3>1, <3>2
    <2>7. CASE stop_periodic(t)
      BY <2>2, <2>7, StopShape DEF stop_periodic
    <2> QED
      BY <1>4, <2>3, <2>4, <2>5, <2>6, <2>7 DEF Process
  <1> QED
    BY <1>1, <1>2, <1>3, <1>4 DEF Next

\* The listener deletes only what neither a receiver nor a message thread uses, and the
\* owner and the receiver of a made connection never both delete it.
LEMMA DeleteStep ==
  ASSUME ConnInv, [Next]_vars
  PROVE  FreshInv' /\ ReceiverInv' /\ OwnerInv' /\ DeletedUnused' /\ OwnerPointerLive'
  <1> DEFINE Goal ==
    FreshInv /\ ReceiverInv /\ OwnerInv /\ DeletedUnused /\ OwnerPointerLive
  <1> USE DEF ConnInv, TypeOK, Conns, FreshInv, ReceiverInv, OwnerInv, DeletedUnused,
              OwnerPointerLive
  <1>1. CASE cleanup
    <2>1. ASSUME NEW c \in Accepted, Over(c) PROVE Users(c) = {}
      <3>1. count[c] = 0 /\ Cardinality(Counted(c)) \in Nat
        BY <2>1, CountedFinite DEF Over, has_outstanding_msgs
      <3> QED
        BY <3>1 DEF CountInv
    <2>2. \A c \in Accepted : Over(c) => rcv[c] = "done" /\ \A t \in MsgThreads : thr[t].conn # c
      BY <2>1 DEF Over, Users
    <2> QED
      BY <1>1, <2>2, ConnAssumption DEF cleanup
  <1>2. ASSUME NEW c \in Conns, Request(c) PROVE Goal'
    <2>1. CASE add_connection(c)
      BY <2>1, ConnAssumption DEF add_connection
    <2>2. CASE Connect(c)
      BY <2>2, ConnAssumption DEF Connect
    <2>3. CASE send_and_wait(c)
      BY <2>3 DEF send_and_wait
    <2>4. ASSUME NEW t \in MsgThreads, NEW k \in Kinds, get_message(c, t, k) PROVE Goal'
      <3>1. thr'[t].conn = c /\ \A u \in MsgThreads \ {t} : thr'[u] = thr[u]
        BY <2>4 DEF get_message, Free
      <3> QED
        BY <2>4, <3>1 DEF get_message
    <2> QED
      BY <1>2, <2>1, <2>2, <2>3, <2>4 DEF Request
  <1>3. ASSUME NEW c \in Conns, Step(c) PROVE Goal'
    <2> USE ConnAssumption
    <2>1. CASE DeleteRequest(c)
      BY <2>1 DEF DeleteRequest
    <2>2. CASE OwnerFinished(c)
      BY <2>2 DEF OwnerFinished
    <2>3. CASE OwnerDeletes(c)
      BY <2>3 DEF OwnerDeletes
    <2>4. CASE EndOfMessages(c)
      BY <2>4 DEF EndOfMessages
    <2>5. CASE isFinished(c)
      BY <2>5 DEF isFinished, Deletes
    <2>6. CASE setFinished(c)
      BY <2>6 DEF setFinished
    <2> QED
      BY <1>3, <2>1, <2>2, <2>3, <2>4, <2>5, <2>6 DEF Step
  <1>4. ASSUME NEW t \in MsgThreads, Process(t) PROVE Goal'
    <2>1. \A u \in MsgThreads : thr'[u].conn \in {thr[u].conn, None}
      <3>1. CASE process_message(t)
        BY <3>1 DEF process_message, Free, Thread
      <3>2. CASE handle(t)
        BY <3>2 DEF handle, Free, Thread
      <3>3. CASE DeleteKept(t)
        BY <3>3 DEF DeleteKept, Free, Thread
      <3>4. CASE handle_periodic(t)
        BY <3>4 DEF handle_periodic, Free, Thread
      <3>5. CASE stop_periodic(t)
        BY <3>5, StopShape DEF Free
      <3> QED
        BY <1>4, <3>1, <3>2, <3>3, <3>4, <3>5 DEF Process
    <2>2. UNCHANGED <<obj, finished, rcv, held>>
      BY <1>4 DEF Process, process_message, handle, DeleteKept, handle_periodic, stop_periodic
    <2> QED
      BY <2>1, <2>2, ConnAssumption
  <1>5. CASE UNCHANGED vars
    BY <1>5 DEF vars
  <1> QED
    BY <1>1, <1>2, <1>3, <1>4, <1>5 DEF Next

\* A connection is never deleted while it is used: an accepted one has neither receiver
\* nor message threads left when nccp_listener::cleanup deletes it, and the owner of a
\* made one never holds the pointer of an object that the receiver's wrapper deleted.
THEOREM NotFreedInUseCorrect == Spec => []NotFreedInUse
  <1>1. Init => ConnInv
    BY InitInv
  <1>2. ConnInv /\ [Next]_vars => ConnInv'
    <2> SUFFICES ASSUME ConnInv, [Next]_vars PROVE ConnInv'
      OBVIOUS
    <2>1. TypeOK /\ FreeInv /\ CountInv
      BY DEF ConnInv
    <2>2. TypeOK' /\ FreeInv' /\ CountInv'
      BY <2>1, TypeStep, FreeStep, CountStep
    <2> QED
      BY <2>2, DeleteStep DEF ConnInv
  <1>3. ConnInv => NotFreedInUse
    BY DEF ConnInv, NotFreedInUse
  <1> QED
    BY <1>1, <1>2, <1>3, PTL DEF Spec

-----------------------------------------------------------------------------
(***************************************************************************)
(* The plain hosts and the CCNx router (RoutesKept)                        *)
(***************************************************************************)
RliType(m) == [pc : {"idle", "add", "delete", "added", "deleted"}, port : 0..m, ok : BOOLEAN]

(* A route is on its way to be answered Fine, or was answered, only when it *)
(* is in the kernel; and while there is one, no port is being configured,   *)
(* which would take the port's routes away.                                 *)
HostInv(m) ==
  /\ rli \in [Prefixes -> RliType(m)] /\ acked \subseteq Prefixes
  /\ \A x \in acked : \E p \in 0..m : <<x, p>> \in routes
  /\ acked # {} => cfg.pc = "idle"
  /\ \A x \in Prefixes :
       /\ rli[x].pc # "idle" => cfg.pc = "idle"
       /\ rli[x].pc = "added" /\ rli[x].ok => \E p \in 0..m : <<x, p>> \in routes
       /\ rli[x].pc \in {"delete", "deleted"} => x \notin acked

(* What the steps of a host with ports 0..m do to the state above.          *)
CfgStep ==
  \/ /\ cfg.pc = "idle" /\ acked = {} /\ \A x \in Prefixes : rli[x].pc = "idle"
     /\ UNCHANGED <<routes, rli, acked>>
  \/ cfg.pc # "idle" /\ UNCHANGED <<rli, acked>>

RouteReq(x, op, p) ==
  /\ rli[x].pc = "idle" /\ cfg.pc = "idle"
  /\ rli' = [rli EXCEPT ![x] = [pc |-> op, port |-> p, ok |-> TRUE]]
  /\ acked' = IF op = "delete" THEN acked \ {x} ELSE acked
  /\ UNCHANGED <<routes, cfg>>

AddStep(x, ok) ==
  /\ rli[x].pc = "add"
  /\ routes' = IF ok THEN routes \cup {<<x, rli[x].port>>} ELSE routes
  /\ rli' = [rli EXCEPT ![x].ok = ok, ![x].pc = "added"]
  /\ UNCHANGED <<cfg, acked>>

DelStep(x, ok) ==
  /\ rli[x].pc = "delete"
  /\ routes' = IF ok THEN {r \in routes : r[1] # x} ELSE routes
  /\ rli' = [rli EXCEPT ![x].ok = ok, ![x].pc = "deleted"]
  /\ UNCHANGED <<cfg, acked>>

AnswerStep(x) ==
  /\ rli[x].pc \in {"added", "deleted"}
  /\ acked' = IF rli[x].pc = "added" /\ rli[x].ok THEN acked \cup {x} ELSE acked
  /\ rli' = [rli EXCEPT ![x] = [pc |-> "idle", port |-> 0, ok |-> TRUE]]
  /\ UNCHANGED <<routes, cfg>>

ScriptStep ==
  \E x \in Prefixes :
    AnswerStep(x) \/ \E ok \in BOOLEAN : AddStep(x, ok) \/ DelStep(x, ok)

HostChange(m) ==
  \/ CfgStep \/ ScriptStep
  \/ \E x \in Prefixes, op \in {"add", "delete"}, p \in 0..m : RouteReq(x, op, p)

LEMMA HostChangeSound ==
  ASSUME NEW m \in Nat, HostInv(m), HostChange(m)
  PROVE  HostInv(m)'
<1> USE DEF HostInv
<1>1. CASE CfgStep
  BY <1>1 DEF CfgStep
<1>2. ASSUME NEW x \in Prefixes, NEW op \in {"add", "delete"}, NEW p \in 0..m, RouteReq(x, op, p)
      PROVE  HostInv(m)'
  <2>1. [pc |-> op, port |-> p, ok |-> TRUE] \in RliType(m)
    BY DEF RliType
  <2>2. rli' \in [Prefixes -> RliType(m)] /\ rli'[x].pc = op
          /\ \A y \in Prefixes \ {x} : rli'[y] = rli[y]
    BY <1>2, <2>1 DEF RouteReq
  <2>3. acked' \subseteq acked /\ (op = "delete" => x \notin acked')
    BY <1>2 DEF RouteReq
  <2> QED
    BY <1>2, <2>2, <2>3 DEF RouteReq
<1>3. ASSUME NEW x \in Prefixes, NEW ok \in BOOLEAN, AddStep(x, ok)
      PROVE  HostInv(m)'
  <2>1. rli[x] \in RliType(m)
    OBVIOUS
  <2>2. /\ [rli[x] EXCEPT !.ok = ok, !.pc = "added"] \in RliType(m)
        /\ [rli[x] EXCEPT !.ok = ok, !.pc = "added"].pc = "added"
        /\ [rli[x] EXCEPT !.ok = ok, !.pc = "added"].ok = ok
    BY <2>1 DEF RliType
  <2>5. rli' = [rli EXCEPT ![x] = [rli[x] EXCEPT !.ok = ok, !.pc = "added"]]
    BY <1>3 DEF AddStep
  <2>3. /\ rli' \in [Prefixes -> RliType(m)] /\ rli'[x].pc = "added" /\ rli'[x].ok = ok
        /\ \A y \in Prefixes \ {x} : rli'[y] = rli[y]
    BY <2>2, <2>5
  <2>4. rli[x].port \in 0..m /\ routes \subseteq routes' /\ (ok => <<x, rli[x].port>> \in routes')
    BY <1>3, <2>1 DEF RliType, AddStep
  <2> QED
    BY <1>3, <2>3, <2>4 DEF AddStep
<1>4. ASSUME NEW x \in Prefixes, NEW ok \in BOOLEAN, DelStep(x, ok)
      PROVE  HostInv(m)'
  <2>1. rli[x] \in RliType(m)
    OBVIOUS
  <2>2. /\ [rli[x] EXCEPT !.ok = ok, !.pc = "deleted"] \in RliType(m)
        /\ [rli[x] EXCEPT !.ok = ok, !.pc = "deleted"].pc = "deleted"
    BY <2>1 DEF RliType
  <2>6. rli' = [rli EXCEPT ![x] = [rli[x] EXCEPT !.ok = ok, !.pc = "deleted"]]
    BY <1>4 DEF DelStep
  <2>3. /\ rli' \in [Prefixes -> RliType(m)] /\ rli'[x].pc = "deleted"
        /\ \A y \in Prefixes \ {x} : rli'[y] = rli[y]
    BY <2>2, <2>6
  <2>4. \A y \in Prefixes \ {x} : \A p \in 0..m : <<y, p>> \in routes => <<y, p>> \in routes'
    BY <1>4 DEF DelStep
  <2>5. x \notin acked'
    BY <1>4 DEF DelStep
  <2> QED
    BY <1>4, <2>3, <2>4, <2>5 DEF DelStep
<1>5. ASSUME NEW x \in Prefixes, AnswerStep(x)
      PROVE  HostInv(m)'
  <2>1. [pc |-> "idle", port |-> 0, ok |-> TRUE] \in RliType(m)
    BY DEF RliType
  <2>2. rli' \in [Prefixes -> RliType(m)] /\ rli'[x].pc = "idle"
          /\ \A y \in Prefixes \ {x} : rli'[y] = rli[y]
    BY <1>5, <2>1 DEF AnswerStep
  <2> QED
    BY <1>5, <2>2 DEF AnswerStep
<1> HIDE DEF HostInv
<1> QED
  BY <1>1, <1>2, <1>3, <1>4, <1>5 DEF HostChange, ScriptStep

LEMMA HostInit ==
  ASSUME NEW m \in Nat, rli = [x \in Prefixes |-> [pc |-> "idle", port |-> 0, ok |-> TRUE]],
         acked = {}
  PROVE  HostInv(m)
<1>1. [pc |-> "idle", port |-> 0, ok |-> TRUE] \in RliType(m)
  BY DEF RliType
<1>2. rli \in [Prefixes -> RliType(m)] /\ \A x \in Prefixes : rli[x].pc = "idle"
  BY <1>1
<1> QED
  BY <1>2 DEF HostInv

(* The four daemons take such steps; only pc48core has a second port.       *)
LEMMA HostSteps ==
  /\ Ho!Request \/ Ho!Step => HostChange(0)
  /\ Hs!pc8_request \/ Hs!pc8_step => HostChange(0)
  /\ Hs!pc48_request \/ Hs!pc48_step => HostChange(1)
  /\ Hs!ccnx_request \/ Hs!ccnx_step => HostChange(0)
<1>1. ASSUME NEW p, NEW nh, \/ Ho!Configure(p, nh)
                              \/ Hs!P8!Configure(p, nh)
                              \/ Hs!P48!Configure(p, nh)
                              \/ Hs!CR!Configure(p, nh)
      PROVE  CfgStep
  BY <1>1 DEF CfgStep, Ho!Configure, Hs!P8!Configure, Hs!P48!Configure, Hs!CR!Configure
<1>2. \/ Ho!set_port_info \/ Ho!default_route
      \/ Hs!P8!set_port_info \/ Hs!P8!default_route
      \/ Hs!P48!set_port_info \/ Hs!P48!default_route
      \/ Hs!CR!set_port_info \/ Hs!CR!default_route
      => CfgStep
  BY DEF CfgStep, Ho!set_port_info, Ho!default_route, Hs!P8!set_port_info, Hs!P8!default_route,
         Hs!P48!set_port_info, Hs!P48!default_route, Hs!CR!set_port_info,
         Hs!CR!default_route
<1>3. ASSUME NEW x, NEW op, NEW p, \/ Ho!Route(x, op, p)
                                   \/ Hs!P8!Route(x, op, p)
                                   \/ Hs!P48!Route(x, op, p)
                                   \/ Hs!CR!Route(x, op, p)
      PROVE  RouteReq(x, op, p)
  BY <1>3 DEF RouteReq, Ho!Route, Hs!P8!Route, Hs!P48!Route, Hs!CR!Route
<1>4. ASSUME NEW x \in Prefixes, \/ Ho!add_route(x) \/ Ho!delete_route(x) \/ Ho!Answer(x)
                                  \/ Hs!P8!add_route(x) \/ Hs!P8!delete_route(x) \/ Hs!P8!Answer(x)
                                  \/ Hs!P48!add_route(x) \/ Hs!P48!delete_route(x) \/ Hs!P48!Answer(x)
                                  \/ Hs!CR!add_route(x) \/ Hs!CR!delete_route(x) \/ Hs!CR!Answer(x)
      PROVE  ScriptStep
  <2>1. ASSUME \/ Ho!add_route(x)
               \/ Hs!P8!add_route(x)
               \/ Hs!P48!add_route(x)
               \/ Hs!CR!add_route(x)
        PROVE  \E ok \in BOOLEAN : AddStep(x, ok)
    BY <2>1 DEF AddStep, Ho!add_route, Ho!system_cmd, Hs!P8!add_route, Hs!P8!system_cmd, Hs!P48!add_route,
         Hs!P48!system_cmd, Hs!CR!add_route, Hs!CR!system_cmd
  <2>2. ASSUME \/ Ho!delete_route(x)
               \/ Hs!P8!delete_route(x)
               \/ Hs!P48!delete_route(x)
               \/ Hs!CR!delete_route(x)
        PROVE  \E ok \in BOOLEAN : DelStep(x, ok)
    BY <2>2 DEF DelStep, Ho!delete_route, Ho!system_cmd, Hs!P8!delete_route, Hs!P8!system_cmd,
         Hs!P48!delete_route, Hs!P48!system_cmd, Hs!CR!delete_route, Hs!CR!system_cmd
  <2>3. ASSUME \/ Ho!Answer(x)
               \/ Hs!P8!Answer(x)
               \/ Hs!P48!Answer(x)
               \/ Hs!CR!Answer(x)
        PROVE  AnswerStep(x)
    BY <2>3 DEF AnswerStep, Ho!Answer, Ho!NoRli, Hs!P8!Answer, Hs!P8!NoRli, Hs!P48!Answer, Hs!P48!NoRli,
         Hs!CR!Answer, Hs!CR!NoRli
  <2> QED
    BY <1>4, <2>1, <2>2, <2>3 DEF ScriptStep
<1>5. Ho!max_port = 0 /\ Hs!P8!max_port = 0 /\ Hs!P48!max_port = 1 /\ Hs!CR!max_port = 0
  BY DEF Ho!max_port, Hs!P8!max_port, Hs!P48!max_port, Hs!CR!max_port
<1>6. Ho!Request \/ Ho!Step => HostChange(0)
  BY <1>1, <1>2, <1>3, <1>4, <1>5 DEF HostChange, Ho!Request, Ho!Step
<1>7. Hs!pc8_request \/ Hs!pc8_step => HostChange(0)
  BY <1>1, <1>2, <1>3, <1>4, <1>5
     DEF HostChange, Hs!pc8_request, Hs!pc8_step, Hs!pc8_configure, Hs!pc8_add_route_req,
         Hs!pc8_delete_route_req, Hs!pc8_set_port_info, Hs!pc8_default_route,
         Hs!pc8_add_route, Hs!pc8_delete_route, Hs!pc8_max_port
<1>8. Hs!pc48_request \/ Hs!pc48_step => HostChange(1)
  BY <1>1, <1>2, <1>3, <1>4, <1>5
     DEF HostChange, Hs!pc48_request, Hs!pc48_step, Hs!pc48_configure, Hs!pc48_add_route_req,
         Hs!pc48_delete_route_req, Hs!pc48_set_port_info, Hs!pc48_default_route,
         Hs!pc48_add_route, Hs!pc48_delete_route, Hs!pc48_max_port
<1>9. Hs!ccnx_request \/ Hs!ccnx_step => HostChange(0)
  BY <1>1, <1>2, <1>3, <1>4, <1>5
     DEF HostChange, Hs!ccnx_request, Hs!ccnx_step, Hs!ccnx_configure, Hs!ccnx_add_route_req,
         Hs!ccnx_delete_route_req, Hs!ccnx_set_port_info, Hs!ccnx_default_route,
         Hs!ccnx_add_route, Hs!ccnx_delete_route, Hs!ccnx_max_port
<1> QED
  BY <1>6, <1>7, <1>8, <1>9

-----------------------------------------------------------------------------
Jobs ==
  [op : {"none", "add", "del", "init", "daemon"} \cup Cc!Counters \cup Cc!Quiet,
   pc : {"idle", "add", "path", "hop", "tell", "del", "init", "lock", "replay", "daemon",
         "launch"} \cup Cc!Counters \cup Cc!Quiet,
   path : Paths \cup {"none"}, nh : Hops \cup BadHops \cup {"none"},
   i : Nat, ok : BOOLEAN]

Critical == {"path", "hop", "replay"}

(* The CCNx router: a thread that saves a route or replays the saved ones  *)
(* holds the mutex, and the two lists differ in length only while a thread *)
(* is between its two writes.                                              *)
CcInv ==
  /\ job \in [CcnxThreads -> Jobs]
  /\ paths \in Seq(Paths \cup {"none"}) /\ nexthops \in Seq(Hops \cup BadHops \cup {"none"})
  /\ \A t \in CcnxThreads : job[t].pc \in Critical => mutex = t
  /\ (\A t \in CcnxThreads : job[t].pc # "hop") => Len(paths) = Len(nexthops)
  /\ \A t \in CcnxThreads : job[t].pc = "hop" => Len(paths) = Len(nexthops) + 1

(* Thread t, and no other, goes on to pc.                                  *)
Moves(t, pc) ==
  /\ job' \in [CcnxThreads -> Jobs] /\ job'[t].pc = pc
  /\ \A u \in CcnxThreads \ {t} : job'[u] = job[u]

LEMMA Goes ==
  ASSUME NEW t \in CcnxThreads, job \in [CcnxThreads -> Jobs]
  PROVE  /\ \A pc \in {"path", "hop", "tell", "lock", "replay", "launch"} :
              Cc!Goto(t, pc) => Moves(t, pc)
         /\ job' = [job EXCEPT ![t] = Cc!Idle] => Moves(t, "idle")
         /\ job' = [job EXCEPT ![t].i = @ + 1] => Moves(t, job[t].pc)
<1>1. job[t] \in Jobs
  OBVIOUS
<1>2. ASSUME NEW pc \in {"path", "hop", "tell", "lock", "replay", "launch"}, Cc!Goto(t, pc)
      PROVE  Moves(t, pc)
  <2>1. [job[t] EXCEPT !.pc = pc] \in Jobs /\ [job[t] EXCEPT !.pc = pc].pc = pc
    BY <1>1 DEF Jobs
  <2>2. job' = [job EXCEPT ![t] = [job[t] EXCEPT !.pc = pc]]
    BY <1>2 DEF Cc!Goto
  <2> QED
    BY <2>1, <2>2 DEF Moves
<1>3. ASSUME job' = [job EXCEPT ![t] = Cc!Idle]
      PROVE  Moves(t, "idle")
  <2>1. Cc!Idle \in Jobs /\ Cc!Idle.pc = "idle"
    BY DEF Jobs, Cc!Idle, Cc!None
  <2> QED
    BY <1>3, <2>1 DEF Moves
<1>4. ASSUME job' = [job EXCEPT ![t].i = @ + 1]
      PROVE  Moves(t, job[t].pc)
  <2>1. [job[t] EXCEPT !.i = job[t].i + 1] \in Jobs
          /\ [job[t] EXCEPT !.i = job[t].i + 1].pc = job[t].pc
    BY <1>1 DEF Jobs
  <2>2. job' = [job EXCEPT ![t] = [job[t] EXCEPT !.i = job[t].i + 1]]
    BY <1>4
  <2> QED
    BY <2>1, <2>2 DEF Moves
<1> QED
  BY <1>2, <1>3, <1>4

LEMMA CcRequest ==
  ASSUME NEW t \in CcnxThreads, CcInv, Cc!Request(t)
  PROVE  CcInv'
<1>1. ASSUME NEW op \in {"add", "del", "init", "daemon"} \cup Cc!Counters \cup Cc!Quiet,
             NEW p \in Paths \cup {"none"}, NEW nh \in Hops \cup BadHops \cup {"none"},
             Cc!Receive(t, op, p, nh)
      PROVE  CcInv'
  <2> DEFINE j == [Cc!Idle EXCEPT !.op = op, !.pc = op, !.path = p, !.nh = nh]
  <2>1. j \in Jobs /\ j.pc = op
    BY DEF Jobs, Cc!Idle, Cc!None
  <2>2. op \notin Critical
    BY DEF Critical, Cc!Counters, Cc!Quiet
  <2>3. job' = [job EXCEPT ![t] = j] /\ job[t].pc = "idle"
    BY <1>1 DEF Cc!Receive
  <2> HIDE DEF j
  <2>4. Moves(t, op)
    BY <2>1, <2>3 DEF Moves, CcInv
  <2> QED
    BY <1>1, <2>2, <2>3, <2>4 DEF CcInv, Moves, Cc!Receive, Critical
<1> QED
  BY <1>1 DEF Cc!Request, Cc!None

LEMMA CcAdd ==
  ASSUME NEW t \in CcnxThreads, CcInv,
         \/ Cc!add_route_lock(t) \/ Cc!add_route_path(t)
         \/ Cc!add_route_hop(t) \/ Cc!add_route_tell(t)
  PROVE  CcInv'
<1> USE HostAssumption
<1>t. job[t] \in Jobs /\ job \in [CcnxThreads -> Jobs]
  BY DEF CcInv
<1>1. CASE Cc!add_route_lock(t)
  <2>1. Moves(t, "path")
    BY <1>1, <1>t, Goes DEF Cc!add_route_lock
  <2> QED
    BY <1>1, <2>1 DEF CcInv, Moves, Critical, Cc!add_route_lock, Cc!Enters, Cc!None
<1>2. CASE Cc!add_route_path(t)
  <2>1. Moves(t, "hop")
    BY <1>2, <1>t, Goes DEF Cc!add_route_path
  <2>2. job[t].path \in Paths \cup {"none"}
    BY <1>t DEF Jobs
  <2>3. paths' \in Seq(Paths \cup {"none"}) /\ Len(paths') = Len(paths) + 1
    BY <1>2, <2>2 DEF Cc!add_route_path, CcInv
  <2>4. \A u \in CcnxThreads \ {t} : job[u].pc \notin Critical
    BY <1>2 DEF CcInv, Critical, Cc!add_route_path
  <2> QED
    BY <1>2, <2>1, <2>3, <2>4 DEF CcInv, Moves, Critical, Cc!add_route_path
<1>3. CASE Cc!add_route_hop(t)
  <2>1. Moves(t, "tell")
    BY <1>3, <1>t, Goes DEF Cc!add_route_hop
  <2>2. job[t].nh \in Hops \cup BadHops \cup {"none"}
    BY <1>t DEF Jobs
  <2>3. nexthops' \in Seq(Hops \cup BadHops \cup {"none"}) /\ Len(nexthops') = Len(nexthops) + 1
    BY <1>3, <2>2 DEF Cc!add_route_hop, CcInv
  <2>4. \A u \in CcnxThreads \ {t} : job[u].pc \notin Critical
    BY <1>3 DEF CcInv, Critical, Cc!add_route_hop
  <2> QED
    BY <1>3, <2>1, <2>3, <2>4 DEF CcInv, Moves, Critical, Cc!add_route_hop
<1>4. CASE Cc!add_route_tell(t)
  <2>1. Moves(t, "idle")
    BY <1>4, <1>t, Goes DEF Cc!add_route_tell
  <2> QED
    BY <1>4, <2>1 DEF CcInv, Moves, Critical, Cc!add_route_tell
<1> QED
  BY <1>1, <1>2, <1>3, <1>4

LEMMA CcOther ==
  ASSUME NEW t \in CcnxThreads, CcInv,
         \/ Cc!init_kill(t) \/ Cc!init_lock(t) \/ Cc!init_replay(t) \/ Cc!init_unlock(t)
         \/ Cc!do_daemon_kill(t) \/ Cc!do_daemon_launch(t) \/ Cc!del_route(t)
         \/ \E op \in Cc!Quiet : Cc!no_effect(t, op)
         \/ \E c \in Cc!Counters : Cc!read_counter(t, c)
  PROVE  CcInv'
<1> USE HostAssumption
<1>t. job[t] \in Jobs /\ job \in [CcnxThreads -> Jobs]
  BY DEF CcInv
<1>1. CASE Cc!init_kill(t)
  <2>1. Moves(t, "lock")
    BY <1>1, <1>t, Goes DEF Cc!init_kill
  <2> QED
    BY <1>1, <2>1 DEF CcInv, Moves, Critical, Cc!init_kill
<1>2. CASE Cc!init_lock(t)
  <2>1. Moves(t, "replay")
    BY <1>2, <1>t, Goes DEF Cc!init_lock
  <2> QED
    BY <1>2, <2>1 DEF CcInv, Moves, Critical, Cc!init_lock, Cc!None
<1>3. CASE Cc!init_replay(t)
  <2>1. Moves(t, "replay") \/ Moves(t, "idle")
    BY <1>3, <1>t, Goes DEF Cc!init_replay
  <2> QED
    BY <1>3, <2>1 DEF CcInv, Moves, Critical, Cc!init_replay
<1>4. CASE Cc!init_unlock(t)
  <2>1. Moves(t, "idle")
    BY <1>4, <1>t, Goes DEF Cc!init_unlock
  <2>2. \A u \in CcnxThreads \ {t} : job[u].pc \notin Critical
    BY <1>4 DEF CcInv, Critical, Cc!init_unlock
  <2> QED
    BY <1>4, <2>1, <2>2 DEF CcInv, Moves, Critical, Cc!init_unlock
<1>5. CASE Cc!do_daemon_kill(t)
  <2>1. Moves(t, "launch")
    BY <1>5, <1>t, Goes DEF Cc!do_daemon_kill
  <2> QED
    BY <1>5, <2>1 DEF CcInv, Moves, Critical, Cc!do_daemon_kill
<1>6. ASSUME \/ Cc!do_daemon_launch(t) \/ Cc!del_route(t)
             \/ \E op \in Cc!Quiet : Cc!no_effect(t, op)
             \/ \E c \in Cc!Counters : Cc!read_counter(t, c)
      PROVE  CcInv'
  <2>1. job' = [job EXCEPT ![t] = Cc!Idle] /\ job[t].pc # "hop"
          /\ UNCHANGED <<paths, nexthops, mutex>>
    BY <1>6 DEF Cc!do_daemon_launch, Cc!del_route, Cc!no_effect, Cc!read_counter,
                Cc!Quiet, Cc!Counters
  <2>2. Moves(t, "idle")
    BY <1>t, <2>1, Goes
  <2> QED
    BY <2>1, <2>2 DEF CcInv, Moves, Critical
<1> QED
  BY <1>1, <1>2, <1>3, <1>4, <1>5, <1>6

LEMMA CcSteps ==
  ASSUME CcInv, Cc!Packet \/ \E t \in CcnxThreads : Cc!Request(t) \/ Cc!Step(t)
  PROVE  CcInv'
<1>1. CASE Cc!Packet
  BY <1>1 DEF Cc!Packet, CcInv
<1>2. ASSUME NEW t \in CcnxThreads, Cc!Step(t)
      PROVE  CcInv'
  <2>1. ASSUME \/ Cc!get_do_role_req(t) \/ Cc!set_log_level_req(t) \/ Cc!get_usage_req(t)
               \/ Cc!get_update_route_req(t)
        PROVE  \E op \in Cc!Quiet : Cc!no_effect(t, op)
    BY <2>1 DEF Cc!Quiet, Cc!get_do_role_req, Cc!set_log_level_req, Cc!get_usage_req,
                Cc!get_update_route_req
  <2>2. ASSUME \/ Cc!get_rx_pkt_req(t) \/ Cc!get_rx_byte_req(t)
               \/ Cc!get_tx_pkt_req(t) \/ Cc!get_tx_byte_req(t)
        PROVE  \E c \in Cc!Counters : Cc!read_counter(t, c)
    BY <2>2 DEF Cc!Counters, Cc!get_rx_pkt_req, Cc!get_rx_byte_req, Cc!get_tx_pkt_req,
                Cc!get_tx_byte_req
  <2> QED
    BY <1>2, <2>1, <2>2, CcAdd, CcOther DEF Cc!Step
<1> QED
  BY <1>1, <1>2, CcRequest

-----------------------------------------------------------------------------
(* The hosts and the CCNx router together.                                 *)
RoutesInv ==
  /\ kind \in {"pc1core", "pc8core", "ccnxhost"} => HostInv(0)
  /\ kind = "pc48core" => HostInv(1)
  /\ kind = "ccnx" => CcInv

LEMMA RoutesInit == MCInit => RoutesInv
<1>1. ASSUME \/ Ho!Init \/ Hs!pc8_init \/ Hs!pc48_init \/ Hs!ccnx_init
      PROVE  HostInv(0) /\ HostInv(1)
  <2>1. /\ rli = [x \in Prefixes |-> [pc |-> "idle", port |-> 0, ok |-> TRUE]]
        /\ acked = {}
    BY <1>1 DEF Ho!Init, Hs!pc8_init, Hs!pc48_init, Hs!ccnx_init, Hs!P8!Init, Hs!P48!Init,
                Hs!CR!Init, Ho!NoRli, Hs!P8!NoRli, Hs!P48!NoRli, Hs!CR!NoRli
  <2> QED
    BY <2>1, HostInit
<1>2. ASSUME Cc!Init
      PROVE  CcInv
  <2>1. Cc!Idle \in Jobs /\ Cc!Idle.pc = "idle"
    BY DEF Jobs, Cc!Idle, Cc!None
  <2>2. job \in [CcnxThreads -> Jobs] /\ \A t \in CcnxThreads : job[t].pc = "idle"
    BY <1>2, <2>1 DEF Cc!Init
  <2> QED
    BY <1>2, <2>2 DEF Cc!Init, CcInv, Critical
<1> QED
  BY <1>1, <1>2 DEF MCInit, RoutesInv

LEMMA RoutesNext == RoutesInv /\ [MCNext]_mcVars => RoutesInv'
<1> SUFFICES ASSUME RoutesInv, [MCNext]_mcVars
             PROVE  RoutesInv'
  OBVIOUS
<1>1. ASSUME UNCHANGED <<kind, rli, routes, hostVars, ccnxVars>>
      PROVE  RoutesInv'
  BY <1>1 DEF RoutesInv, HostInv, CcInv, hostVars, ccnxVars
<1>2. CASE ConnNext \/ NmdNext \/ UNCHANGED mcVars
  BY <1>1, <1>2 DEF ConnNext, NmdNext, mcVars
<1>3. CASE VmNext
  <2>1. kind \in {"vm", "vpn"} /\ kind' = kind
    BY <1>3 DEF VmNext
  <2> QED
    BY <2>1 DEF RoutesInv
<1>4. CASE HostNext
  <2>1. UNCHANGED kind
    BY <1>4 DEF HostNext
  <2>2. ASSUME kind \in {"pc1core", "pc8core", "ccnxhost"}
        PROVE  HostInv(0)'
    BY <1>4, <2>2, HostSteps, HostChangeSound DEF HostNext, RoutesInv
  <2>3. ASSUME kind = "pc48core"
        PROVE  HostInv(1)'
    BY <1>4, <2>3, HostSteps, HostChangeSound DEF HostNext, RoutesInv
  <2>4. kind # "ccnx"
    BY <1>4 DEF HostNext
  <2> QED
    BY <2>1, <2>2, <2>3, <2>4 DEF RoutesInv
<1>5. CASE CcnxNext
  <2>1. kind = "ccnx" /\ kind' = kind
    BY <1>5 DEF CcnxNext
  <2>2. CcInv'
    BY <1>5, CcSteps DEF CcnxNext, RoutesInv
  <2> QED
    BY <2>1, <2>2 DEF RoutesInv
<1> QED
  BY <1>2, <1>3, <1>4, <1>5 DEF MCNext

(* A host's route that add_route answered Fine is in the kernel until it is *)
(* deleted, and when the CCNx router replays its saved routes each path has *)
(* its own next hop (get_add_route_req, get_subtype_init_req): for every    *)
(* number of threads and requests.                                          *)
THEOREM RoutesKeptCorrect == MCSpec => []RoutesKept
<1>1. RoutesInv => RoutesKept
  <2>1. Ho!max_port = 0 /\ Hs!P8!max_port = 0 /\ Hs!P48!max_port = 1 /\ Hs!CR!max_port = 0
    BY DEF Ho!max_port, Hs!P8!max_port, Hs!P48!max_port, Hs!CR!max_port
  <2>2. HostInv(0) => Ho!FineRouteIsThere /\ Hs!P8!FineRouteIsThere /\ Hs!CR!FineRouteIsThere
    BY <2>1 DEF HostInv, Ho!FineRouteIsThere, Hs!P8!FineRouteIsThere, Hs!CR!FineRouteIsThere
  <2>3. HostInv(1) => Hs!P48!FineRouteIsThere
    BY <2>1 DEF HostInv, Hs!P48!FineRouteIsThere
  <2>4. CcInv => Cc!SavedPairs
    BY DEF CcInv, Cc!SavedPairs, Critical
  <2> QED
    BY <2>2, <2>3, <2>4 DEF RoutesInv, RoutesKept
<1> QED
  BY <1>1, RoutesInit, RoutesNext, PTL DEF MCSpec

-----------------------------------------------------------------------------
(***************************************************************************)
(* The VM and VPN servers (ConfiguredIsFound, NamesApart)                  *)
(***************************************************************************)
LEMMA Least ==
  ASSUME NEW S \in SUBSET Nat, S # {}
  PROVE  /\ Vm!Min(S) \in S /\ \A y \in S : Vm!Min(S) <= y
         /\ Vp!B!Min(S) = Vm!Min(S)
<1>1. \E x \in S : \A y \in S : ~(<<y, x>> \in OpToRel(<, Nat))
  BY NatLessThanWellFounded, WFMin
<1>2. \E x \in S : \A y \in S : x <= y
  <2>1. PICK x \in S : \A y \in S : ~(<<y, x>> \in OpToRel(<, Nat))
    BY <1>1
  <2>2. ASSUME NEW y \in S
        PROVE  x <= y
    <3>1. <<y, x>> \in Nat \X Nat /\ <<y, x>>[1] = y /\ <<y, x>>[2] = x
      OBVIOUS
    <3>2. ~(y < x)
      BY <2>1, <3>1 DEF OpToRel
    <3> QED
      BY <3>2
  <2> QED
    BY <2>2
<1> QED
  BY <1>2 DEF Vm!Min, Vp!B!Min

(* r is q without its first e.                                             *)
Without(q, e, r) ==
  \/ r = q
  \/ \E k \in DOMAIN q :
       /\ q[k] = e /\ Len(r) = Len(q) - 1
       /\ \A j \in DOMAIN r : r[j] = IF j < k THEN q[j] ELSE q[j + 1]

LEMMA Joined ==
  ASSUME NEW T, NEW a \in Seq(T), NEW b \in Seq(T)
  PROVE  /\ a \o b \in Seq(T) /\ Len(a \o b) = Len(a) + Len(b)
         /\ \A j \in 1..(Len(a) + Len(b)) :
              (a \o b)[j] = IF j <= Len(a) THEN a[j] ELSE b[j - Len(a)]
OBVIOUS

LEMMA Removed ==
  ASSUME NEW T, NEW q \in Seq(T), NEW e
  PROVE  /\ Vm!RemoveFirst(q, e) \in Seq(T) /\ Without(q, e, Vm!RemoveFirst(q, e))
         /\ Vp!B!RemoveFirst(q, e) = Vm!RemoveFirst(q, e)
         /\ (\A i \in DOMAIN Vm!RemoveFirst(q, e) : Vm!RemoveFirst(q, e)[i] # e)
              \/ \E i, j \in DOMAIN q : i # j /\ q[i] = e /\ q[j] = e
<1> DEFINE I == {i \in 1..Len(q) : q[i] = e}
<1>1. CASE I = {}
  <2>1. Vm!RemoveFirst(q, e) = q /\ Vp!B!RemoveFirst(q, e) = q
    BY <1>1 DEF Vm!RemoveFirst, Vp!B!RemoveFirst
  <2> QED
    BY <1>1, <2>1 DEF Without
<1>2. CASE I # {}
  <2> DEFINE k == Vm!Min(I)
             r == SubSeq(q, 1, k - 1) \o SubSeq(q, k + 1, Len(q))
  <2>0. I \in SUBSET Nat
    OBVIOUS
  <2>1. k \in I /\ k = Vp!B!Min(I)
    <3> HIDE DEF I
    <3> QED
      BY <1>2, <2>0, Least
  <2>2. Vm!RemoveFirst(q, e) = r /\ Vp!B!RemoveFirst(q, e) = r
    BY <1>2, <2>1 DEF Vm!RemoveFirst, Vp!B!RemoveFirst, Vm!RemoveAt, Vp!B!RemoveAt,
                      Vm!SelectInSeq, Vp!B!SelectInSeq
  <2>3. k \in 1..Len(q) /\ q[k] = e
    BY <2>1
  <2> HIDE DEF k, I
  <2>4. /\ r \in Seq(T) /\ Len(r) = Len(q) - 1
        /\ \A j \in 1..Len(r) : r[j] = IF j < k THEN q[j] ELSE q[j + 1]
    <3> DEFINE a == SubSeq(q, 1, k - 1)
               b == SubSeq(q, k + 1, Len(q))
    <3>1. a \in Seq(T) /\ Len(a) = k - 1 /\ \A j \in 1..(k - 1) : a[j] = q[j]
      BY <2>3
    <3>2. /\ b \in Seq(T) /\ Len(b) = Len(q) - k
          /\ \A j \in 1..(Len(q) - k) : b[j] = q[j + k]
      BY <2>3
    <3> HIDE DEF a, b
    <3>3. a \o b \in Seq(T) /\ Len(a \o b) = Len(a) + Len(b)
      BY <3>1, <3>2, Joined
    <3>4. \A j \in 1..(Len(a) + Len(b)) :
             (a \o b)[j] = IF j <= Len(a) THEN a[j] ELSE b[j - Len(a)]
      BY <3>1, <3>2, Joined
    <3>5. r = a \o b
      BY DEF a, b
    <3> HIDE DEF r
    <3>6. ASSUME NEW j \in 1..Len(r)
          PROVE  r[j] = IF j < k THEN q[j] ELSE q[j + 1]
      <4>1. r[j] = IF j <= Len(a) THEN a[j] ELSE b[j - Len(a)]
        BY <3>3, <3>4, <3>5
      <4>2. CASE j < k
        BY <2>3, <3>1, <4>1, <4>2
      <4>3. CASE j >= k
        <5>0. Len(r) = (k - 1) + (Len(q) - k)
          BY <3>1, <3>2, <3>3, <3>5
        <5>1. j - (k - 1) \in 1..(Len(q) - k)
          <6>1. j \in 1..((k - 1) + (Len(q) - k)) /\ k \in Nat /\ Len(q) \in Nat
            BY <2>3, <5>0
          <6> QED
            BY <4>3, <6>1
        <5>2. b[j - (k - 1)] = q[j - (k - 1) + k]
          BY <3>2, <5>1
        <5>3. j - (k - 1) + k = j + 1
          BY <2>3
        <5> QED
          BY <2>3, <3>1, <4>1, <4>3, <5>2, <5>3
      <4> QED
        BY <2>3, <4>2, <4>3
    <3>7. r \in Seq(T)
      BY <3>3, <3>5
    <3>8. Len(r) = Len(q) - 1
      <4>1. Len(r) = Len(a) + Len(b)
        BY <3>3, <3>5
      <4> QED
        BY <2>3, <3>1, <3>2, <4>1
    <3> QED
      BY <3>6, <3>7, <3>8
  <2> HIDE DEF r
  <2>5. DOMAIN r = 1..Len(r) /\ DOMAIN q = 1..Len(q)
    BY <2>4
  <2>6. ASSUME NEW i \in DOMAIN r, r[i] = e
        PROVE  \E m, j \in DOMAIN q : m # j /\ q[m] = e /\ q[j] = e
    <3>1. CASE i < k
      BY <2>3, <2>4, <2>5, <2>6, <3>1
    <3>2. CASE i >= k
      BY <2>3, <2>4, <2>5, <2>6, <3>2
    <3> QED
      BY <2>3, <2>4, <2>5, <3>1, <3>2
  <2> QED
    BY <2>2, <2>3, <2>4, <2>5, <2>6 DEF Without
<1> QED
  BY <1>1, <1>2

VmRecs == [comp : Vms \cup {"none"}, name : Nat, ifs : BOOLEAN]
SessRecs ==
  [exp : {ExpOf[c] : c \in Vms} \cup {"none"}, vms : Seq(VmRecs),
   vlans : SUBSET ({VlanOf[c] : c \in Vms} \X Nat)]
VmOps == {"start", "configure", "end", "refresh"}
ReqRecs ==
  [op : VmOps \cup {"none"},
   pc : VmOps \cup {"idle", "push", "addVM", "link", "startVM", "script", "delete",
                    "undefine", "removed", "drop", "clear"},
   sptr : Sids \cup {"none"}, vm : VmRecs, ok : BOOLEAN]

VmTypes ==
  /\ active \in Seq(Sids)
  /\ sess \in [Sids -> SessRecs]
  /\ req \in [Vms -> ReqRecs]
  /\ stage \in [Vms -> {"off", "started", "configured", "up", "failed"}]

(* Session s is in the list, and one of its VMs is that of c.               *)
InList(s) == \E i \in DOMAIN active : active[i] = s
Has(q, c) == \E k \in DOMAIN q : q[k].comp = c

(* The first session of c's experiment has a VM of c.                       *)
First(c, i) ==
  /\ i \in DOMAIN active /\ sess[active[i]].exp = ExpOf[c]
  /\ \A j \in 1..(i - 1) : sess[active[j]].exp # ExpOf[c]
FoundAt(c) == \E i \in DOMAIN active : First(c, i) /\ Has(sess[active[i]].vms, c)

Owning == {"addVM", "link", "startVM", "script", "delete", "undefine", "removed", "clear"}

(* What holds of the request of c: the session it points to is there; a     *)
(* session that is being cleared has no other pointer; the steps of a       *)
(* request are those of its operation; and a configured VM is found.        *)
Pointer(c) ==
  /\ req[c].sptr # "none" => sess[req[c].sptr].exp # "none"
  /\ req[c].pc \in Owning => req[c].sptr # "none"
Alone(c) ==
  req[c].pc = "clear" =>
    ~InList(req[c].sptr) /\ \A d \in Vms \ {c} : req[d].sptr # req[c].sptr
OpOfPc(c) ==
  /\ req[c].pc \in {"start", "push", "addVM", "link"} => req[c].op = "start"
  /\ req[c].pc = "configure" => req[c].op = "configure"
  /\ req[c].pc \in {"end", "startVM", "script"} => req[c].op = "end"
  /\ req[c].pc \in {"refresh", "delete", "undefine", "removed"} => req[c].op = "refresh"
Found(c) ==
  stage[c] = "configured" /\ req[c].pc \in {"idle", "drop", "clear", "end"} => FoundAt(c)

VmSound(c) == Pointer(c) /\ Alone(c) /\ OpOfPc(c) /\ Found(c)

VmInv ==
  /\ VmTypes
  /\ \A i \in DOMAIN active : sess[active[i]].exp # "none"
  /\ \A c \in Vms : VmSound(c)

-----------------------------------------------------------------------------
(* The lookups, the same in both servers.                                  *)
LEMMA Lookup ==
  ASSUME NEW c \in Vms, VmTypes
  PROVE  /\ Vp!B!getSession(c) = Vm!getSession(c)
         /\ Vm!getSession(c) # "none" =>
              \E i \in DOMAIN active : First(c, i) /\ Vm!getSession(c) = active[i]
         /\ FoundAt(c) => Vm!getSession(c) # "none" /\ Has(sess[Vm!getSession(c)].vms, c)
<1> DEFINE is == {i \in DOMAIN active : sess[active[i]].exp = ExpOf[c]}
<1>1. is \in SUBSET Nat /\ "none" \notin Sids /\ DOMAIN active = 1..Len(active)
  BY VmAssumption DEF VmTypes
<1>2. CASE is = {}
  <2>1. Vm!getSession(c) = "none" /\ Vp!B!getSession(c) = "none"
    BY <1>2 DEF Vm!getSession, Vp!B!getSession, Vm!None, Vp!B!None
  <2> QED
    BY <1>2, <2>1 DEF FoundAt, First
<1>3. CASE is # {}
  <2> DEFINE k == Vm!Min(is)
  <2>1. Vm!getSession(c) = active[k] /\ Vp!B!getSession(c) = active[Vp!B!Min(is)]
    BY <1>3 DEF Vm!getSession, Vp!B!getSession
  <2> HIDE DEF is
  <2>2. k \in is /\ (\A y \in is : k <= y) /\ Vp!B!Min(is) = k
    BY <1>1, <1>3, Least
  <2> HIDE DEF k
  <2>3. First(c, k)
    <3>1. ASSUME NEW j \in 1..(k - 1)
          PROVE  sess[active[j]].exp # ExpOf[c]
      <4>1. k \in 1..Len(active)
        BY <1>1, <2>2 DEF is
      <4>2. j \in DOMAIN active /\ ~(k <= j)
        BY <1>1, <4>1
      <4> QED
        BY <2>2, <4>2 DEF is
    <3> QED
      BY <2>2, <3>1 DEF First, is
  <2>4. active[k] \in Sids
    BY <2>2 DEF is, VmTypes
  <2>5. ASSUME NEW i \in DOMAIN active, First(c, i)
        PROVE  i = k
    <3>1. i \in is /\ k <= i
      BY <2>2, <2>5 DEF First, is
    <3>2. k \notin 1..(i - 1)
      BY <2>2, <2>5 DEF First, is
    <3> QED
      BY <1>1, <2>2, <3>1, <3>2 DEF is
  <2> QED
    BY <1>1, <2>1, <2>2, <2>3, <2>4, <2>5 DEF FoundAt, First
<1> QED
  BY <1>2, <1>3

LEMMA LookupVm ==
  ASSUME NEW c \in Vms, NEW s \in Sids, VmTypes
  PROVE  /\ Vp!B!getVM(s, c) = Vm!getVM(s, c) /\ Vp!B!NoVm = Vm!NoVm
         /\ Vm!getVM(s, c) \in VmRecs /\ Vm!NoVm \in VmRecs /\ Vm!NoVm.comp = "none"
         /\ Vm!getVM(s, c) # Vm!NoVm =>
              \E k \in DOMAIN sess[s].vms :
                sess[s].vms[k] = Vm!getVM(s, c) /\ Vm!getVM(s, c).comp = c
         /\ Has(sess[s].vms, c) <=> Vm!getVM(s, c) # Vm!NoVm
<1> DEFINE q == sess[s].vms
           is == {i \in DOMAIN q : q[i].comp = c}
<1>1. sess[s] \in SessRecs
  BY DEF VmTypes
<1>2. q \in Seq(VmRecs)
  BY <1>1 DEF SessRecs
<1>3. is \in SUBSET Nat
  BY <1>2
<1>4. /\ Vm!NoVm \in VmRecs /\ Vm!NoVm.comp = "none" /\ Vp!B!NoVm = Vm!NoVm
      /\ c # "none"
  BY VmAssumption DEF Vm!NoVm, Vp!B!NoVm, VmRecs, Vm!None, Vp!B!None
<1>5. CASE is = {}
  <2>1. Vm!getVM(s, c) = Vm!NoVm /\ Vp!B!getVM(s, c) = Vp!B!NoVm
    BY <1>5 DEF Vm!getVM, Vp!B!getVM
  <2> QED
    BY <1>4, <1>5, <2>1 DEF Has
<1>6. CASE is # {}
  <2> DEFINE k == Vm!Min(is)
  <2>1. Vm!getVM(s, c) = q[k] /\ Vp!B!getVM(s, c) = q[Vp!B!Min(is)]
    BY <1>6 DEF Vm!getVM, Vp!B!getVM
  <2>2. k \in is /\ Vp!B!Min(is) = k
    <3> HIDE DEF is
    <3> QED
      BY <1>3, <1>6, Least
  <2> HIDE DEF k
  <2>3. k \in DOMAIN q /\ q[k].comp = c /\ q[k] \in VmRecs
    BY <1>2, <2>2
  <2> QED
    BY <1>4, <2>1, <2>2, <2>3 DEF Has
<1> QED
  BY <1>5, <1>6

-----------------------------------------------------------------------------
(* The request of c becomes one with these fields, and no other changes.    *)
Turns(c, op, pc, s, v) ==
  /\ req' \in [Vms -> ReqRecs]
  /\ req'[c].op = op /\ req'[c].pc = pc /\ req'[c].sptr = s /\ req'[c].vm = v
  /\ \A d \in Vms \ {c} : req'[d] = req[d]

LEMMA TurnsTo ==
  ASSUME NEW c \in Vms, req \in [Vms -> ReqRecs], NEW r \in ReqRecs,
         req' = [req EXCEPT ![c] = r]
  PROVE  Turns(c, r.op, r.pc, r.sptr, r.vm)
BY DEF Turns

LEMMA Gone ==
  ASSUME NEW c \in Vms, VmTypes, NEW pc \in {"script", "removed", "undefine", "clear", "drop"},
         Vm!Goto(c, pc) \/ Vp!B!Goto(c, pc)
  PROVE  Turns(c, req[c].op, pc, req[c].sptr, req[c].vm)
<1> DEFINE r == [req[c] EXCEPT !.pc = pc]
<1>1. req[c] \in ReqRecs /\ req \in [Vms -> ReqRecs]
  BY DEF VmTypes
<1>2. /\ r \in ReqRecs
      /\ r.op = req[c].op /\ r.pc = pc /\ r.sptr = req[c].sptr /\ r.vm = req[c].vm
  BY <1>1 DEF ReqRecs
<1>3. req' = [req EXCEPT ![c] = r]
  BY DEF Vm!Goto, Vp!B!Goto
<1> HIDE DEF r
<1> QED
  BY <1>1, <1>2, <1>3, TurnsTo

(* An answer, from which the crd learns that a VM is configured only when   *)
(* a configure request found it.                                            *)
Answers(c, s) ==
  /\ Turns(c, "none", "drop", s, Vm!NoVm)
  /\ stage' \in [Vms -> {"off", "started", "configured", "up", "failed"}]
  /\ \A d \in Vms \ {c} : stage'[d] = stage[d]
  /\ stage'[c] = "configured" => req[c].op = "configure"

LEMMA Answered ==
  ASSUME NEW c \in Vms, VmTypes, NEW s \in Sids \cup {"none"}, NEW ok \in BOOLEAN,
         Vm!Answer(c, ok, s) \/ Vp!B!Answer(c, ok, s)
  PROVE  Answers(c, s) /\ (stage'[c] = "configured" => ok)
<1> DEFINE r == [op |-> "none", pc |-> "drop", sptr |-> s, vm |-> Vm!NoVm, ok |-> TRUE]
<1>1. req \in [Vms -> ReqRecs]
  BY DEF VmTypes
<1>2. Vm!NoVm \in VmRecs /\ Vm!NoVm = Vp!B!NoVm
  BY DEF Vm!NoVm, Vp!B!NoVm, VmRecs, Vm!None, Vp!B!None
<1>3. r \in ReqRecs
  BY <1>2 DEF ReqRecs
<1>4. req' = [req EXCEPT ![c] = r]
  BY <1>2 DEF Vm!Answer, Vp!B!Answer, Vm!Idle, Vp!B!Idle, Vm!None, Vp!B!None
<1>5. Turns(c, "none", "drop", s, Vm!NoVm)
  <2>1. r.op = "none" /\ r.pc = "drop" /\ r.sptr = s /\ r.vm = Vm!NoVm
    OBVIOUS
  <2> HIDE DEF r
  <2> QED
    BY <1>1, <1>3, <1>4, <2>1, TurnsTo
<1> DEFINE x == IF req[c].op = "refresh" THEN "off"
                ELSE IF ~ok THEN "failed"
                ELSE CASE req[c].op = "end" -> "up"
                       [] req[c].op = "configure" -> "configured"
                       [] OTHER -> "started"
<1>6. stage' = [stage EXCEPT ![c] = x]
  BY DEF Vm!Answer, Vp!B!Answer
<1>7. /\ x \in {"off", "started", "configured", "up", "failed"}
      /\ x = "configured" => req[c].op = "configure" /\ ok
  OBVIOUS
<1> HIDE DEF x
<1> QED
  BY <1>5, <1>6, <1>7 DEF Answers, VmTypes

(* What a step on behalf of c must respect so that the rest stays sound.    *)
Careful(c) ==
  /\ VmTypes'
  /\ \A d \in Vms \ {c} : req'[d] = req[d] /\ stage'[d] = stage[d]
  /\ \A i \in DOMAIN active' :
       /\ sess'[active'[i]].exp # "none"
       /\ InList(active'[i]) \/ sess[active'[i]].exp = "none"
  /\ \A d \in Vms \ {c} : req[d].sptr # "none" => sess'[req[d].sptr].exp # "none"
  /\ \/ req'[c].sptr \in {"none", req[c].sptr}
     \/ InList(req'[c].sptr)
     \/ sess[req'[c].sptr].exp = "none"
  /\ \A d \in Vms \ {c} : FoundAt(d) => FoundAt(d)'

LEMMA CarefulStep ==
  ASSUME NEW c \in Vms, VmInv, Careful(c), VmSound(c)'
  PROVE  VmInv'
<1>1. ASSUME NEW d \in Vms \ {c}
      PROVE  VmSound(d)'
  <2>1. VmSound(d) /\ req'[d] = req[d] /\ stage'[d] = stage[d]
    BY DEF Careful, VmInv
  <2>2. Pointer(d)' /\ OpOfPc(d)'
    BY <2>1 DEF Careful, VmSound, Pointer, OpOfPc
  <2>3. Found(d)'
    BY <2>1 DEF Careful, VmSound, Found
  <2>4. Alone(d)'
    <3> SUFFICES ASSUME req[d].pc = "clear"
                 PROVE  /\ \A i \in DOMAIN active' : active'[i] # req[d].sptr
                        /\ \A e \in Vms \ {d} : req'[e].sptr # req[d].sptr
      BY <2>1 DEF Alone, InList
    <3>1. /\ ~InList(req[d].sptr) /\ \A e \in Vms \ {d} : req[e].sptr # req[d].sptr
          /\ req[d].sptr # "none" /\ sess[req[d].sptr].exp # "none"
      BY <2>1 DEF VmSound, Alone, Pointer, Owning
    <3>2. \A i \in DOMAIN active' : active'[i] # req[d].sptr
      BY <3>1 DEF Careful
    <3>3. req'[c].sptr # req[d].sptr
      BY <3>1 DEF Careful
    <3>4. \A e \in Vms \ {c} : req'[e] = req[e]
      BY DEF Careful
    <3> QED
      BY <3>1, <3>2, <3>3, <3>4
  <2> QED
    BY <2>2, <2>3, <2>4 DEF VmSound
<1> QED
  BY <1>1 DEF VmInv, Careful

(* Steps that leave the sessions as they are.                               *)
LEMMA SameSessions ==
  ASSUME NEW c \in Vms, VmInv, UNCHANGED <<active, sess>>, VmTypes',
         \A d \in Vms \ {c} : req'[d] = req[d] /\ stage'[d] = stage[d],
         \/ req'[c].sptr \in {"none", req[c].sptr}
         \/ InList(req'[c].sptr),
         req'[c].pc \in Owning => req'[c].sptr # "none",
         req'[c].pc # "clear", OpOfPc(c)',
         Found(c)'
  PROVE  VmInv'
<1>1. \A d \in Vms : FoundAt(d) => FoundAt(d)'
  BY DEF FoundAt, First, Has
<1>2. \A d \in Vms : VmSound(d)
  BY DEF VmInv
<1>3. Careful(c)
  BY <1>1, <1>2 DEF Careful, VmInv, InList, VmSound, Pointer
<1>4. req'[c].sptr # "none" => sess'[req'[c].sptr].exp # "none"
  BY <1>2 DEF VmInv, InList, VmSound, Pointer
<1>5. VmSound(c)'
  BY <1>4 DEF VmSound, Pointer, Alone
<1> QED
  BY <1>3, <1>5, CarefulStep

(* Steps that change one session.                                           *)
LEMMA FoundKept ==
  ASSUME VmTypes, UNCHANGED active, NEW s \in Sids, NEW x \in SessRecs, NEW d \in Vms,
         sess' = [sess EXCEPT ![s] = x],
         InList(s) => x.exp = sess[s].exp /\ (Has(sess[s].vms, d) => Has(x.vms, d)),
         FoundAt(d)
  PROVE  FoundAt(d)'
<1>1. PICK i \in DOMAIN active : First(d, i) /\ Has(sess[active[i]].vms, d)
  BY DEF FoundAt
<1>2. \A j \in DOMAIN active : active[j] \in Sids
  BY DEF VmTypes
<1>3. \A j \in DOMAIN active : sess'[active[j]].exp = sess[active[j]].exp
  BY <1>2 DEF VmTypes, InList
<1>4. First(d, i)'
  <2>1. 1..(i - 1) \subseteq DOMAIN active
    BY <1>1 DEF VmTypes
  <2> QED
    BY <1>1, <1>3, <2>1 DEF First
<1>5. Has(sess'[active[i]].vms, d)
  BY <1>1, <1>2 DEF VmTypes, InList
<1> QED
  BY <1>4, <1>5 DEF FoundAt, Has

LEMMA OneSession ==
  ASSUME NEW c \in Vms, VmInv, UNCHANGED active, VmTypes',
         NEW s \in Sids, NEW x \in SessRecs, sess' = [sess EXCEPT ![s] = x],
         \A d \in Vms \ {c} : req'[d] = req[d] /\ stage'[d] = stage[d],
         InList(s) => /\ x.exp = sess[s].exp
                      /\ \A d \in Vms \ {c} : Has(sess[s].vms, d) => Has(x.vms, d),
         x.exp = "none" => \A d \in Vms \ {c} : req[d].sptr # s,
         \/ req'[c].sptr \in {"none", req[c].sptr}
         \/ InList(req'[c].sptr),
         VmSound(c)'
  PROVE  VmInv'
<1>1. VmTypes /\ \A d \in Vms : VmSound(d)
  BY DEF VmInv
<1>2. \A d \in Vms \ {c} : FoundAt(d) => FoundAt(d)'
  BY <1>1, FoundKept
<1>3. ASSUME NEW i \in DOMAIN active'
      PROVE  sess'[active'[i]].exp # "none" /\ InList(active'[i])
  <2>1. active[i] \in Sids /\ sess[active[i]].exp # "none" /\ InList(active[i])
    BY <1>1, <1>3 DEF VmInv, VmTypes, InList
  <2> QED
    BY <1>1, <2>1 DEF VmTypes
<1>4. ASSUME NEW d \in Vms \ {c}, req[d].sptr # "none"
      PROVE  sess'[req[d].sptr].exp # "none"
  <2>1. req[d] \in ReqRecs
    BY <1>1 DEF VmTypes
  <2>2. req[d].sptr \in Sids /\ sess[req[d].sptr].exp # "none"
    BY <1>1, <1>4, <2>1 DEF VmSound, Pointer, ReqRecs
  <2> QED
    BY <1>1, <2>2 DEF VmTypes
<1>5. Careful(c)
  BY <1>2, <1>3, <1>4 DEF Careful
<1> QED
  BY <1>5, CarefulStep

-----------------------------------------------------------------------------
VmReceive(c) == \E op \in VmOps : Vm!Receive(c, op) \/ Vp!B!Receive(c, op)

LEMMA StepReceive ==
  ASSUME NEW c \in Vms, VmInv, VmReceive(c)
  PROVE  VmInv' /\ Turns(c, req'[c].op, req'[c].op, "none", Vm!NoVm) /\ req'[c].op \in VmOps
           /\ req[c].pc = "idle"
<1>1. VmTypes /\ VmSound(c)
  BY DEF VmInv
<1>2. PICK op \in VmOps : Vm!Receive(c, op) \/ Vp!B!Receive(c, op)
  BY DEF VmReceive
<1> DEFINE r == [op |-> op, pc |-> op, sptr |-> "none", vm |-> Vm!NoVm, ok |-> TRUE]
<1>3. Vm!NoVm \in VmRecs /\ Vm!NoVm = Vp!B!NoVm
  BY DEF Vm!NoVm, Vp!B!NoVm, VmRecs, Vm!None, Vp!B!None
<1>4. r \in ReqRecs
  BY <1>3 DEF ReqRecs, VmOps
<1>5. req' = [req EXCEPT ![c] = r]
  BY <1>2, <1>3 DEF Vm!Receive, Vp!B!Receive, Vm!Idle, Vp!B!Idle, Vm!None, Vp!B!None
<1>6. Turns(c, op, op, "none", Vm!NoVm)
  <2>1. r.op = op /\ r.pc = op /\ r.sptr = "none" /\ r.vm = Vm!NoVm
    OBVIOUS
  <2> HIDE DEF r
  <2>2. req \in [Vms -> ReqRecs]
    BY <1>1 DEF VmTypes
  <2>3. Turns(c, r.op, r.pc, r.sptr, r.vm)
    BY <1>4, <1>5, <2>2, TurnsTo
  <2> QED
    BY <2>1, <2>3
<1> HIDE DEF r
<1>7. UNCHANGED <<active, sess, stage>> /\ req[c].pc = "idle"
  BY <1>2 DEF Vm!Receive, Vp!B!Receive
<1>8. VmTypes'
  BY <1>1, <1>6, <1>7 DEF VmTypes, Turns
<1>9. OpOfPc(c)' /\ req'[c].pc \notin Owning /\ req'[c].pc # "clear"
  BY <1>6 DEF Turns, OpOfPc, Owning, VmOps
<1>10. Found(c)'
  <2>1. FoundAt(c) => FoundAt(c)'
    BY <1>7 DEF FoundAt, First, Has
  <2>2. stage[c] = "configured" => FoundAt(c)
    BY <1>1, <1>7 DEF VmSound, Found
  <2> QED
    BY <1>7, <2>1, <2>2 DEF Found
<1>11. VmInv'
  BY <1>6, <1>7, <1>8, <1>9, <1>10, SameSessions DEF Turns
<1> QED
  BY <1>6, <1>7, <1>11 DEF Turns

LEMMA AnswerSame ==
  ASSUME NEW c \in Vms, VmInv, UNCHANGED <<active, sess>>,
         NEW s \in Sids \cup {"none"}, Answers(c, s),
         s \in {"none", req[c].sptr} \/ InList(s),
         stage'[c] = "configured" => FoundAt(c)
  PROVE  VmInv'
<1>1. VmTypes'
  BY DEF VmInv, VmTypes, Answers, Turns
<1>2. OpOfPc(c)' /\ req'[c].pc \notin Owning /\ req'[c].pc # "clear"
  BY DEF Answers, Turns, OpOfPc, Owning
<1>3. Found(c)'
  <2>1. FoundAt(c) => FoundAt(c)'
    BY DEF FoundAt, First, Has
  <2> QED
    BY <2>1 DEF Found
<1> QED
  BY <1>1, <1>2, <1>3, SameSessions DEF Answers, Turns

-----------------------------------------------------------------------------
(* What each step of either server does to sessions, list and request.      *)
Sets(s, x) == x \in SessRecs /\ sess' = [sess EXCEPT ![s] = x]
SetsVms(s, q) == q \in Seq(VmRecs) /\ Sets(s, [sess[s] EXCEPT !.vms = q])
SetsVlans(s) ==
  \E l \in SUBSET ({VlanOf[c] : c \in Vms} \X Nat) : Sets(s, [sess[s] EXCEPT !.vlans = l])
Moves2(c, pc, s, v) == Turns(c, req[c].op, pc, s, v) /\ UNCHANGED stage
Last(c) ==
  /\ req[c].sptr \in Sids /\ ~InList(req[c].sptr)
  /\ \A d \in Vms \ {c} : req[d].sptr # req[c].sptr

DoLook(c) ==
  /\ req[c].pc = "start" /\ UNCHANGED <<active, sess>>
  /\ \/ Moves2(c, "push", "none", req[c].vm)
     \/ \E s \in Sids : InList(s) /\ Moves2(c, "addVM", s, req[c].vm)
DoPush(c) ==
  /\ req[c].pc = "push"
  /\ \E s \in Sids :
       /\ sess[s].exp = "none"
       /\ Sets(s, [exp |-> ExpOf[c], vms |-> <<>>, vlans |-> {}])
       /\ active' = Append(active, s)
       /\ Moves2(c, "addVM", s, req[c].vm)
DoAdd(c) ==
  /\ req[c].pc = "addVM" /\ UNCHANGED <<active, sess>>
  /\ \/ Answers(c, req[c].sptr)
     \/ \E v \in VmRecs : v.comp = c /\ Moves2(c, "link", req[c].sptr, v)
DoLink(c) ==
  /\ req[c].pc = "link" /\ UNCHANGED active
  /\ Answers(c, req[c].sptr)
  /\ \/ UNCHANGED sess
     \/ SetsVms(req[c].sptr, Append(sess[req[c].sptr].vms, req[c].vm))
DoConfigure(c) ==
  /\ req[c].pc = "configure" /\ UNCHANGED active
  /\ \/ /\ UNCHANGED sess /\ stage'[c] # "configured"
        /\ \E s \in Sids \cup {"none"} : (s = "none" \/ InList(s)) /\ Answers(c, s)
     \/ \E i \in DOMAIN active :
          /\ First(c, i) /\ Has(sess[active[i]].vms, c) /\ Answers(c, active[i])
          /\ \E q \in Seq(VmRecs) :
               /\ SetsVms(active[i], q) /\ DOMAIN q = DOMAIN sess[active[i]].vms
               /\ \A k \in DOMAIN q : /\ q[k].comp = sess[active[i]].vms[k].comp
                                      /\ q[k].name = sess[active[i]].vms[k].name
DoEnd(c) ==
  /\ req[c].pc = "end" /\ UNCHANGED <<active, sess, stage>>
  /\ \/ UNCHANGED req
     \/ \E s \in Sids : \E k \in DOMAIN sess[s].vms :
          /\ InList(s) /\ sess[s].vms[k].comp = c
          /\ Moves2(c, "startVM", s, sess[s].vms[k])
DoStart(c) ==
  /\ req[c].pc = "startVM" /\ UNCHANGED active
  /\ SetsVlans(req[c].sptr) /\ Moves2(c, "script", req[c].sptr, req[c].vm)
DoScript(c) ==
  /\ req[c].pc = "script" /\ UNCHANGED <<active, sess>>
  /\ Answers(c, req[c].sptr)
DoRefresh(c) ==
  /\ req[c].pc = "refresh" /\ UNCHANGED <<active, sess>>
  /\ \/ Answers(c, "none")
     \/ \E s \in Sids : InList(s) /\ Moves2(c, "delete", s, req[c].vm)
DoLock(c) ==
  /\ req[c].pc = "delete" /\ UNCHANGED active
  /\ \/ UNCHANGED sess /\ Moves2(c, "removed", req[c].sptr, req[c].vm)
     \/ SetsVlans(req[c].sptr) /\ Moves2(c, "undefine", req[c].sptr, req[c].vm)
DoUndefine(c) ==
  /\ req[c].pc = "undefine" /\ UNCHANGED active
  /\ Moves2(c, "removed", req[c].sptr, req[c].vm)
  /\ \/ UNCHANGED sess
     \/ \E v \in VmRecs, q \in Seq(VmRecs) :
          /\ v.comp \in {c, "none"} /\ Without(sess[req[c].sptr].vms, v, q)
          /\ SetsVms(req[c].sptr, q)
DoRemoved(c) ==
  /\ req[c].pc = "removed" /\ UNCHANGED sess
  /\ Answers(c, req[c].sptr)
  /\ \/ UNCHANGED active
     \/ /\ sess[req[c].sptr].vms = <<>>
        /\ active' \in Seq(Sids) /\ Without(active, req[c].sptr, active')
DoDrop(c) ==
  /\ req[c].pc = "drop" /\ UNCHANGED active
  /\ \/ /\ Turns(c, "none", "idle", "none", Vm!NoVm) /\ UNCHANGED stage
        /\ \/ UNCHANGED sess
           \/ Last(c) /\ Sets(req[c].sptr, [exp |-> "none", vms |-> <<>>, vlans |-> {}])
     \/ /\ Last(c) /\ sess[req[c].sptr].vms # <<>>
        /\ SetsVlans(req[c].sptr) /\ Moves2(c, "clear", req[c].sptr, req[c].vm)
DoClear(c) ==
  /\ req[c].pc = "clear" /\ UNCHANGED active
  /\ Moves2(c, "drop", req[c].sptr, req[c].vm)
  /\ \E q \in Seq(VmRecs) : SetsVms(req[c].sptr, q)

-----------------------------------------------------------------------------
LEMMA ReqOf ==
  ASSUME NEW c \in Vms, VmInv
  PROVE  /\ VmTypes /\ VmSound(c) /\ req[c] \in ReqRecs /\ req \in [Vms -> ReqRecs]
         /\ req[c].vm \in VmRecs /\ req[c].sptr \in Sids \cup {"none"}
         /\ req[c].pc \in Owning => req[c].sptr \in Sids
<1>1. req[c] \in ReqRecs
  BY DEF VmInv, VmTypes
<1> QED
  BY <1>1 DEF VmInv, VmTypes, ReqRecs, VmSound, Pointer

LEMMA SessOf ==
  ASSUME VmTypes, NEW s \in Sids
  PROVE  /\ sess[s] \in SessRecs /\ sess[s].vms \in Seq(VmRecs)
         /\ sess[s].vlans \in SUBSET ({VlanOf[c] : c \in Vms} \X Nat)
         /\ \A q \in Seq(VmRecs) : [sess[s] EXCEPT !.vms = q] \in SessRecs
         /\ \A l \in SUBSET ({VlanOf[c] : c \in Vms} \X Nat) :
              [sess[s] EXCEPT !.vlans = l] \in SessRecs
<1>1. sess[s] \in SessRecs
  BY DEF VmTypes
<1> QED
  BY <1>1 DEF SessRecs

LEMMA NewVm ==
  ASSUME NEW c, NEW n \in Nat, NEW w, w = [comp |-> "none", name |-> 0, ifs |-> FALSE],
         NEW q, q = [w EXCEPT !.comp = c, !.name = n]
  PROVE  q = [comp |-> c, name |-> n, ifs |-> FALSE]
<1>1. DOMAIN q = {"comp", "name", "ifs"}
  OBVIOUS
<1>2. q.comp = c /\ q.name = n /\ q.ifs = FALSE
  OBVIOUS
<1> QED
  BY <1>1, <1>2

LEMMA NewSess ==
  ASSUME NEW e, NEW w, w = [exp |-> "none", vms |-> <<>>, vlans |-> {}],
         NEW q, q = [w EXCEPT !.exp = e]
  PROVE  q = [exp |-> e, vms |-> <<>>, vlans |-> {}]
<1>1. DOMAIN q = {"exp", "vms", "vlans"}
  OBVIOUS
<1>2. q.exp = e /\ q.vms = <<>> /\ q.vlans = {}
  OBVIOUS
<1> QED
  BY <1>1, <1>2

LEMMA ShapeLook ==
  ASSUME NEW c \in Vms, VmInv, Vm!addSession_look(c) \/ Vp!B!addSession_look(c)
  PROVE  DoLook(c)
<1> DEFINE s == Vm!getSession(c)
           pc == IF s = "none" THEN "push" ELSE "addVM"
           r == [req[c] EXCEPT !.sptr = s, !.pc = pc]
<1>1. /\ VmTypes /\ req[c] \in ReqRecs /\ req \in [Vms -> ReqRecs]
  BY ReqOf
<1>2. s = Vp!B!getSession(c) /\ (s # "none" => s \in Sids /\ InList(s))
  BY <1>1, Lookup DEF VmTypes, InList
<1>3. req' = [req EXCEPT ![c] = r]
  BY <1>2 DEF Vm!addSession_look, Vp!B!addSession_look, Vm!None, Vp!B!None
<1> HIDE DEF s
<1>4. /\ r \in ReqRecs /\ r.op = req[c].op /\ r.pc = pc /\ r.sptr = s /\ r.vm = req[c].vm
  BY <1>1, <1>2 DEF ReqRecs
<1> HIDE DEF r, pc
<1>5. Turns(c, req[c].op, pc, s, req[c].vm)
  <2>1. Turns(c, r.op, r.pc, r.sptr, r.vm)
    BY <1>1, <1>3, <1>4, TurnsTo
  <2> QED
    BY <1>4, <2>1
<1>6. req[c].pc = "start" /\ UNCHANGED <<active, sess, stage>>
  BY DEF Vm!addSession_look, Vp!B!addSession_look
<1> QED
  BY <1>2, <1>5, <1>6 DEF DoLook, Moves2, pc

LEMMA ShapePush ==
  ASSUME NEW c \in Vms, VmInv, Vm!addSession_push(c) \/ Vp!B!addSession_push(c)
  PROVE  DoPush(c)
<1> DEFINE x == [exp |-> ExpOf[c], vms |-> <<>>, vlans |-> {}]
<1>1. /\ VmTypes /\ req[c] \in ReqRecs /\ req \in [Vms -> ReqRecs]
  BY ReqOf
<1>2. PICK s \in Sids : /\ sess[s].exp = "none"
                        /\ sess' = [sess EXCEPT ![s] = x]
                        /\ active' = Append(active, s)
                        /\ req' = [req EXCEPT ![c].sptr = s, ![c].pc = "addVM"]
  <2>1. Vm!NoSess = [exp |-> "none", vms |-> <<>>, vlans |-> {}] /\ Vp!B!NoSess = Vm!NoSess
    BY DEF Vm!NoSess, Vp!B!NoSess, Vm!None, Vp!B!None
  <2>2. [Vm!NoSess EXCEPT !.exp = ExpOf[c]] = x
    BY <2>1, NewSess
  <2> HIDE DEF x
  <2> QED
    BY <2>1, <2>2 DEF Vm!addSession_push, Vp!B!addSession_push, Vm!None, Vp!B!None
<1> DEFINE r == [req[c] EXCEPT !.sptr = s, !.pc = "addVM"]
<1>3. req' = [req EXCEPT ![c] = r]
  BY <1>2
<1>4. /\ r \in ReqRecs /\ r.op = req[c].op /\ r.pc = "addVM" /\ r.sptr = s /\ r.vm = req[c].vm
  BY <1>1 DEF ReqRecs
<1>5. x \in SessRecs
  BY DEF SessRecs
<1> HIDE DEF r, x
<1>6. Turns(c, r.op, r.pc, r.sptr, r.vm)
  BY <1>1, <1>3, <1>4, TurnsTo
<1>7. Moves2(c, "addVM", s, req[c].vm)
  <2>1. UNCHANGED stage
    BY DEF Vm!addSession_push, Vp!B!addSession_push
  <2> QED
    BY <1>4, <1>6, <2>1 DEF Moves2
<1>8. req[c].pc = "push"
  BY DEF Vm!addSession_push, Vp!B!addSession_push
<1> QED
  BY <1>2, <1>5, <1>7, <1>8 DEF DoPush, Sets, x

NamedReq(c, n) ==
  \/ req' = [req EXCEPT ![c].pc = "link", ![c].vm = [Vm!NoVm EXCEPT !.comp = c, !.name = n]]
  \/ req' = [req EXCEPT ![c].pc = "link", ![c].vm = [Vp!B!NoVm EXCEPT !.comp = c, !.name = n]]

LEMMA Named ==
  ASSUME NEW c \in Vms, req[c] \in ReqRecs, req \in [Vms -> ReqRecs], NEW n \in Nat,
         NamedReq(c, n)
  PROVE  \E v \in VmRecs :
           v.comp = c /\ v.name = n /\ Turns(c, req[c].op, "link", req[c].sptr, v)
<1> DEFINE v == [comp |-> c, name |-> n, ifs |-> FALSE]
           r == [req[c] EXCEPT !.pc = "link", !.vm = v]
<1>1. v \in VmRecs /\ v.comp = c /\ v.name = n
  BY DEF VmRecs
<1>2. [Vm!NoVm EXCEPT !.comp = c, !.name = n] = v /\ [Vp!B!NoVm EXCEPT !.comp = c, !.name = n] = v
  <2>1. /\ Vm!NoVm = [comp |-> "none", name |-> 0, ifs |-> FALSE]
        /\ Vp!B!NoVm = Vm!NoVm
    BY DEF Vm!NoVm, Vp!B!NoVm, Vm!None, Vp!B!None
  <2> QED
    BY <2>1, NewVm
<1>3. req' = [req EXCEPT ![c] = r]
  BY <1>2 DEF NamedReq
<1> HIDE DEF v
<1>4. /\ r \in ReqRecs /\ r.op = req[c].op /\ r.pc = "link" /\ r.sptr = req[c].sptr /\ r.vm = v
  BY <1>1 DEF ReqRecs
<1> HIDE DEF r
<1>5. Turns(c, r.op, r.pc, r.sptr, r.vm)
  BY <1>3, <1>4, TurnsTo
<1> QED
  BY <1>1, <1>4, <1>5

LEMMA ShapeAdd ==
  ASSUME NEW c \in Vms, VmInv, Vm!addVM(c) \/ Vp!B!addVM(c)
  PROVE  DoAdd(c)
<1>1. /\ VmTypes /\ req[c] \in ReqRecs /\ req \in [Vms -> ReqRecs]
      /\ req[c].sptr \in Sids \cup {"none"}
  BY ReqOf
<1>2. req[c].pc = "addVM" /\ UNCHANGED <<active, sess>>
  BY DEF Vm!addVM, Vp!B!addVM
<1>3. ASSUME NEW ok \in BOOLEAN,
             Vm!Answer(c, ok, req[c].sptr) \/ Vp!B!Answer(c, ok, req[c].sptr)
      PROVE  DoAdd(c)
  BY <1>1, <1>2, <1>3, Answered DEF DoAdd
<1>4. ASSUME NEW n \in Nat, UNCHANGED stage, NamedReq(c, n)
      PROVE  DoAdd(c)
  BY <1>1, <1>2, <1>4, Named DEF DoAdd, Moves2
<1>5. CASE Vm!addVM(c)
  <2>1. Vm!FreeNames(c) \in SUBSET Nat
    BY VmAssumption DEF Vm!FreeNames, Vm!Names
  <2>2. Vm!FreeNames(c) # {} => Vm!Min(Vm!FreeNames(c)) \in Nat
    BY <2>1, Least
  <2> QED
    BY <1>3, <1>4, <1>5, <2>2 DEF Vm!addVM, NamedReq
<1>6. CASE Vp!B!addVM(c)
  <2>1. Vp!B!FreeNames(c) \in SUBSET Nat
    BY VmAssumption DEF Vp!B!FreeNames
  <2>2. Vp!B!FreeNames(c) # {} => Vp!B!Min(Vp!B!FreeNames(c)) \in Nat
    BY <2>1, Least
  <2> QED
    BY <1>3, <1>4, <1>6, <2>2 DEF Vp!B!addVM, NamedReq
<1> QED
  BY <1>5, <1>6

LEMMA ShapeLink ==
  ASSUME NEW c \in Vms, VmInv, Vm!addVM_link(c) \/ Vp!B!addVM_link(c)
  PROVE  DoLink(c)
<1> DEFINE s == req[c].sptr
<1>1. req[c].pc = "link" /\ UNCHANGED active
  BY DEF Vm!addVM_link, Vp!B!addVM_link
<1>2. VmTypes /\ s \in Sids /\ req[c].vm \in VmRecs
  BY <1>1, ReqOf DEF Owning
<1>3. Answers(c, s)
  <2>1. Vm!Answer(c, TRUE, s) \/ Vp!B!Answer(c, TRUE, s)
    BY DEF Vm!addVM_link, Vp!B!addVM_link
  <2> QED
    BY <1>2, <2>1, Answered
<1>4. UNCHANGED sess \/ sess' = [sess EXCEPT ![s] = [sess[s] EXCEPT !.vms = Append(sess[s].vms, req[c].vm)]]
  BY DEF Vm!addVM_link, Vp!B!addVM_link
<1>5. Append(sess[s].vms, req[c].vm) \in Seq(VmRecs)
  BY <1>2, SessOf
<1> QED
  BY <1>1, <1>2, <1>3, <1>4, <1>5, SessOf DEF DoLink, SetsVms, Sets

LEMMA ShapeConfigure ==
  ASSUME NEW c \in Vms, VmInv, Vm!configureVM(c) \/ Vp!B!configureVM(c)
  PROVE  DoConfigure(c)
<1> DEFINE s == Vm!getSession(c)
           v == Vm!getVM(s, c)
           q == [i \in DOMAIN sess[s].vms |-> IF sess[s].vms[i] = v
                                              THEN [sess[s].vms[i] EXCEPT !.ifs = TRUE]
                                              ELSE sess[s].vms[i]]
<1>1. VmTypes
  BY ReqOf
<1>2. /\ s = Vp!B!getSession(c)
      /\ s # "none" => s \in Sids /\ \E i \in DOMAIN active : First(c, i) /\ s = active[i]
  BY <1>1, Lookup DEF VmTypes, First
<1>3. /\ req[c].pc = "configure" /\ UNCHANGED active
      /\ \/ /\ s = "none" /\ UNCHANGED sess
            /\ Vm!Answer(c, FALSE, "none") \/ Vp!B!Answer(c, FALSE, "none")
         \/ /\ s # "none" /\ UNCHANGED sess
            /\ Vm!Answer(c, FALSE, s) \/ Vp!B!Answer(c, FALSE, s)
         \/ /\ s # "none" /\ v # Vm!NoVm
            /\ sess' = [sess EXCEPT ![s].vms = q]
            /\ Vm!Answer(c, TRUE, s) \/ Vp!B!Answer(c, TRUE, s)
  <2>1. CASE Vm!configureVM(c)
    BY <2>1 DEF Vm!configureVM, Vm!None
  <2>2. CASE Vp!B!configureVM(c)
    <3>1. s # "none" => Vp!B!getVM(s, c) = v /\ Vp!B!NoVm = Vm!NoVm
      BY <1>1, <1>2, LookupVm
    <3> DEFINE w == Vp!B!getVM(s, c)
               u == [i \in DOMAIN sess[s].vms |-> IF sess[s].vms[i] = w
                                                  THEN [sess[s].vms[i] EXCEPT !.ifs = TRUE]
                                                  ELSE sess[s].vms[i]]
    <3>2. /\ req[c].pc = "configure" /\ UNCHANGED active
          /\ \/ s = "none" /\ UNCHANGED sess /\ Vp!B!Answer(c, FALSE, "none")
             \/ s # "none" /\ UNCHANGED sess /\ Vp!B!Answer(c, FALSE, s)
             \/ /\ s # "none" /\ w # Vp!B!NoVm /\ sess' = [sess EXCEPT ![s].vms = u]
                /\ Vp!B!Answer(c, TRUE, s)
      <4> HIDE DEF s
      <4> QED
        BY <1>2, <2>2 DEF Vp!B!configureVM, Vp!B!None
    <3>3. s # "none" => w = v /\ u = q
      BY <3>1
    <3> HIDE DEF s, v, u, w, q
    <3> QED
      BY <3>1, <3>2, <3>3 DEF w
  <2> QED
    BY <2>1, <2>2
<1> HIDE DEF s, v, q
<1>4. ASSUME NEW p \in Sids \cup {"none"}, p = "none" \/ InList(p), UNCHANGED sess,
             Vm!Answer(c, FALSE, p) \/ Vp!B!Answer(c, FALSE, p)
      PROVE  DoConfigure(c)
  <2>1. Answers(c, p) /\ stage'[c] # "configured"
    BY <1>1, <1>4, Answered
  <2> QED
    BY <1>3, <1>4, <2>1 DEF DoConfigure
<1>5. s # "none" => InList(s)
  BY <1>2 DEF InList
<1>6. ASSUME s # "none", v # Vm!NoVm, sess' = [sess EXCEPT ![s].vms = q],
             Vm!Answer(c, TRUE, s) \/ Vp!B!Answer(c, TRUE, s)
      PROVE  DoConfigure(c)
  <2>1. PICK i \in DOMAIN active : First(c, i) /\ s = active[i]
    BY <1>2, <1>6
  <2>2. s \in Sids /\ Answers(c, s)
    BY <1>1, <1>2, <1>6, Answered
  <2>3. Has(sess[s].vms, c)
    BY <1>1, <1>6, <2>2, LookupVm DEF v
  <2>4. sess[s].vms \in Seq(VmRecs)
    BY <1>1, <2>2, SessOf
  <2>5. ASSUME NEW k \in DOMAIN sess[s].vms
        PROVE  /\ q[k] \in VmRecs /\ q[k].comp = sess[s].vms[k].comp
               /\ q[k].name = sess[s].vms[k].name
    <3> DEFINE w == sess[s].vms[k]
    <3>1. w \in VmRecs
      BY <2>4
    <3>2. /\ [w EXCEPT !.ifs = TRUE] \in VmRecs /\ [w EXCEPT !.ifs = TRUE].comp = w.comp
          /\ [w EXCEPT !.ifs = TRUE].name = w.name
      BY <3>1 DEF VmRecs
    <3>3. q[k] = w \/ q[k] = [w EXCEPT !.ifs = TRUE]
      BY DEF q
    <3> QED
      BY <3>1, <3>2, <3>3
  <2>6. DOMAIN q = DOMAIN sess[s].vms /\ DOMAIN q = 1..Len(sess[s].vms)
    BY <2>4 DEF q
  <2>7. q \in Seq(VmRecs)
    <3>1. q = [k \in 1..Len(sess[s].vms) |-> q[k]] /\ Len(sess[s].vms) \in Nat
      BY <2>4, <2>6 DEF q
    <3>2. \A k \in 1..Len(sess[s].vms) : q[k] \in VmRecs
      BY <2>5, <2>6
    <3> QED
      BY <3>1, <3>2
  <2>8. SetsVms(s, q)
    <3>1. sess' = [sess EXCEPT ![s] = [sess[s] EXCEPT !.vms = q]]
      BY <1>6
    <3> QED
      BY <1>1, <2>2, <2>7, <3>1, SessOf DEF SetsVms, Sets
  <2> QED
    BY <1>3, <2>1, <2>2, <2>3, <2>5, <2>6, <2>7, <2>8 DEF DoConfigure
<1> QED
  BY <1>2, <1>3, <1>4, <1>5, <1>6

LEMMA ShapeEnd ==
  ASSUME NEW c \in Vms, VmInv, Vm!end_configure_node_req(c) \/ Vp!B!end_configure_node_req(c)
  PROVE  DoEnd(c)
<1> DEFINE s == Vm!getSession(c)
           v == Vm!getVM(s, c)
           r == [req[c] EXCEPT !.sptr = s, !.vm = v, !.pc = "startVM"]
<1>1. VmTypes /\ req[c] \in ReqRecs /\ req \in [Vms -> ReqRecs]
  BY ReqOf
<1>2. s = Vp!B!getSession(c) /\ (s # "none" => s \in Sids /\ InList(s))
  BY <1>1, Lookup DEF VmTypes, InList
<1>3. /\ req[c].pc = "end" /\ UNCHANGED <<active, sess, stage>>
      /\ \/ UNCHANGED req
         \/ s # "none" /\ v # Vm!NoVm /\ req' = [req EXCEPT ![c] = r]
  <2>1. CASE Vm!end_configure_node_req(c)
    BY <2>1 DEF Vm!end_configure_node_req, Vm!None
  <2>2. CASE Vp!B!end_configure_node_req(c)
    <3>1. s # "none" => Vp!B!getVM(s, c) = v /\ Vp!B!NoVm = Vm!NoVm
      BY <1>1, <1>2, LookupVm
    <3> QED
      BY <1>2, <2>2, <3>1 DEF Vp!B!end_configure_node_req, Vp!B!None
  <2> QED
    BY <2>1, <2>2
<1> HIDE DEF s, v
<1>4. ASSUME s # "none", v # Vm!NoVm, req' = [req EXCEPT ![c] = r]
      PROVE  DoEnd(c)
  <2>1. s \in Sids /\ InList(s)
    BY <1>2, <1>4
  <2>2. v \in VmRecs /\ \E k \in DOMAIN sess[s].vms : sess[s].vms[k] = v /\ v.comp = c
    BY <1>1, <1>4, <2>1, LookupVm DEF v
  <2>3. /\ r \in ReqRecs /\ r.op = req[c].op /\ r.pc = "startVM" /\ r.sptr = s /\ r.vm = v
    BY <1>1, <2>1, <2>2 DEF ReqRecs
  <2> HIDE DEF r
  <2>4. Turns(c, r.op, r.pc, r.sptr, r.vm)
    BY <1>1, <1>4, <2>3, TurnsTo
  <2> QED
    BY <1>3, <2>1, <2>2, <2>3, <2>4 DEF DoEnd, Moves2
<1> QED
  BY <1>3, <1>4 DEF DoEnd

LEMMA ShapeStart ==
  ASSUME NEW c \in Vms, VmInv, Vm!startVM(c) \/ Vp!B!startVM(c)
  PROVE  DoStart(c)
<1> DEFINE s == req[c].sptr
           v == req[c].vm
           l == IF v.ifs THEN sess[s].vlans \cup {<<VlanOf[c], v.name>>} ELSE sess[s].vlans
<1>1. req[c].pc = "startVM" /\ UNCHANGED <<active, stage>>
  BY DEF Vm!startVM, Vp!B!startVM
<1>2. VmTypes /\ s \in Sids /\ v \in VmRecs
  BY <1>1, ReqOf DEF Owning
<1>3. l \in SUBSET ({VlanOf[d] : d \in Vms} \X Nat)
  <2>1. v.name \in Nat
    BY <1>2 DEF VmRecs
  <2>2. sess[s].vlans \in SUBSET ({VlanOf[d] : d \in Vms} \X Nat)
    BY <1>2, SessOf
  <2> QED
    BY <2>1, <2>2
<1>4. sess' = [sess EXCEPT ![s] = [sess[s] EXCEPT !.vlans = l]]
  BY DEF Vm!startVM, Vp!B!startVM
<1>5. Turns(c, req[c].op, "script", s, v)
  <2>1. Vm!Goto(c, "script") \/ Vp!B!Goto(c, "script")
    BY DEF Vm!startVM, Vp!B!startVM
  <2> QED
    BY <1>2, <2>1, Gone
<1> QED
  BY <1>1, <1>2, <1>3, <1>4, <1>5, SessOf DEF DoStart, SetsVlans, Sets, Moves2

LEMMA ShapeScript ==
  ASSUME NEW c \in Vms, VmInv, Vm!startVM_script(c) \/ Vp!B!startVM_script(c)
  PROVE  DoScript(c)
<1>1. req[c].pc = "script" /\ UNCHANGED <<active, sess>>
  BY DEF Vm!startVM_script, Vp!B!startVM_script
<1>2. VmTypes /\ req[c].sptr \in Sids
  BY <1>1, ReqOf DEF Owning
<1>3. \E ok \in BOOLEAN : Vm!Answer(c, ok, req[c].sptr) \/ Vp!B!Answer(c, ok, req[c].sptr)
  BY DEF Vm!startVM_script, Vp!B!startVM_script
<1> QED
  BY <1>1, <1>2, <1>3, Answered DEF DoScript

LEMMA ShapeRefresh ==
  ASSUME NEW c \in Vms, VmInv, Vm!deleteVM_look(c) \/ Vp!B!deleteVM_look(c)
  PROVE  DoRefresh(c)
<1> DEFINE s == Vm!getSession(c)
           r == [req[c] EXCEPT !.pc = "delete", !.sptr = s]
<1>1. VmTypes /\ req[c] \in ReqRecs /\ req \in [Vms -> ReqRecs]
  BY ReqOf
<1>2. s = Vp!B!getSession(c) /\ (s # "none" => s \in Sids /\ InList(s))
  BY <1>1, Lookup DEF VmTypes, InList
<1>3. /\ req[c].pc = "refresh" /\ UNCHANGED <<active, sess>>
      /\ \/ Vm!Answer(c, TRUE, "none") \/ Vp!B!Answer(c, TRUE, "none")
         \/ s # "none" /\ req' = [req EXCEPT ![c] = r] /\ UNCHANGED stage
  BY <1>2 DEF Vm!deleteVM_look, Vp!B!deleteVM_look, Vm!None, Vp!B!None
<1> HIDE DEF s
<1>4. ASSUME s # "none", req' = [req EXCEPT ![c] = r], UNCHANGED stage
      PROVE  DoRefresh(c)
  <2>1. /\ r \in ReqRecs /\ r.op = req[c].op /\ r.pc = "delete" /\ r.sptr = s /\ r.vm = req[c].vm
    BY <1>1, <1>2, <1>4 DEF ReqRecs
  <2> HIDE DEF r
  <2>2. Turns(c, r.op, r.pc, r.sptr, r.vm)
    BY <1>1, <1>4, <2>1, TurnsTo
  <2> QED
    BY <1>2, <1>3, <1>4, <2>1, <2>2 DEF DoRefresh, Moves2
<1> QED
  BY <1>1, <1>3, <1>4, Answered DEF DoRefresh

LEMMA Leaving ==
  ASSUME NEW c \in Vms, VmTypes, NEW s \in Sids, NEW v, NEW next \in {"undefine", "clear"},
         req[c].sptr = s,
         Vm!removeVM_vlans(c, s, v, next) \/ Vp!B!removeVM_vlans(c, s, v, next)
  PROVE  SetsVlans(s) /\ Turns(c, req[c].op, next, s, req[c].vm)
<1> DEFINE l == {m \in sess[s].vlans : m[2] # v.name}
<1>1. l \in SUBSET ({VlanOf[d] : d \in Vms} \X Nat)
  BY SessOf
<1>2. sess' = [sess EXCEPT ![s] = [sess[s] EXCEPT !.vlans = l]]
  BY DEF Vm!removeVM_vlans, Vp!B!removeVM_vlans, Vm!LeaveVlan, Vp!B!LeaveVlan
<1>3. Turns(c, req[c].op, next, s, req[c].vm)
  <2>1. Vm!Goto(c, next) \/ Vp!B!Goto(c, next)
    BY DEF Vm!removeVM_vlans, Vp!B!removeVM_vlans
  <2> QED
    BY <2>1, Gone
<1> HIDE DEF l
<1> QED
  BY <1>1, <1>2, <1>3, SessOf DEF SetsVlans, Sets

LEMMA ShapeLock ==
  ASSUME NEW c \in Vms, VmInv, Vm!deleteVM_lock(c) \/ Vp!B!deleteVM_lock(c)
  PROVE  DoLock(c)
<1> DEFINE s == req[c].sptr
<1>1. req[c].pc = "delete" /\ UNCHANGED <<active, stage>>
  BY DEF Vm!deleteVM_lock, Vp!B!deleteVM_lock
<1>2. VmTypes /\ s \in Sids
  BY <1>1, ReqOf DEF Owning
<1>3. \/ UNCHANGED sess /\ (Vm!Goto(c, "removed") \/ Vp!B!Goto(c, "removed"))
      \/ \E v : \/ Vm!removeVM_vlans(c, s, v, "undefine")
                \/ Vp!B!removeVM_vlans(c, s, v, "undefine")
  BY DEF Vm!deleteVM_lock, Vp!B!deleteVM_lock
<1>4. Vm!Goto(c, "removed") \/ Vp!B!Goto(c, "removed") => Turns(c, req[c].op, "removed", s, req[c].vm)
  BY <1>2, Gone
<1> QED
  BY <1>1, <1>2, <1>3, <1>4, Leaving DEF DoLock, Moves2

LEMMA ShapeUndefine ==
  ASSUME NEW c \in Vms, VmInv, Vm!deleteVM_undefine(c) \/ Vp!B!deleteVM_undefine(c)
  PROVE  DoUndefine(c)
<1> DEFINE s == req[c].sptr
           v == Vm!getVM(s, c)
           q == Vm!RemoveFirst(sess[s].vms, v)
<1>1. req[c].pc = "undefine" /\ UNCHANGED <<active, stage>>
  BY DEF Vm!deleteVM_undefine, Vp!B!deleteVM_undefine
<1>2. VmTypes /\ s \in Sids /\ req[c] \in ReqRecs /\ req \in [Vms -> ReqRecs]
  BY <1>1, ReqOf DEF Owning
<1>3. v \in VmRecs /\ v.comp \in {c, "none"} /\ Vp!B!getVM(s, c) = v
  BY <1>2, LookupVm
<1> HIDE DEF v
<1>4. sess[s].vms \in Seq(VmRecs)
  BY <1>2, SessOf
<1>5. /\ q \in Seq(VmRecs) /\ Without(sess[s].vms, v, q)
      /\ Vp!B!RemoveFirst(sess[s].vms, v) = q
  BY <1>4, Removed
<1>6. PICK ok \in BOOLEAN :
        /\ sess' = sess \/ sess' = [sess EXCEPT ![s].vms = q]
        /\ req' = [req EXCEPT ![c].ok = ok, ![c].pc = "removed"]
  <2>1. CASE Vm!deleteVM_undefine(c)
    BY <2>1 DEF Vm!deleteVM_undefine, v
  <2>2. CASE Vp!B!deleteVM_undefine(c)
    <3>1. PICK ok \in BOOLEAN :
        /\ sess' = sess \/ sess' = [sess EXCEPT ![s].vms = Vp!B!RemoveFirst(sess[s].vms, Vp!B!getVM(s, c))]
        /\ req' = [req EXCEPT ![c].ok = ok, ![c].pc = "removed"]
      BY <2>2 DEF Vp!B!deleteVM_undefine
    <3> HIDE DEF q
    <3> QED
      BY <1>3, <1>5, <3>1
  <2> QED
    BY <2>1, <2>2
<1> HIDE DEF q
<1> DEFINE r == [req[c] EXCEPT !.ok = ok, !.pc = "removed"]
<1>7. req' = [req EXCEPT ![c] = r]
  BY <1>6
<1>8. /\ r \in ReqRecs /\ r.op = req[c].op /\ r.pc = "removed" /\ r.sptr = s /\ r.vm = req[c].vm
  BY <1>2 DEF ReqRecs
<1> HIDE DEF r
<1>9. Turns(c, r.op, r.pc, r.sptr, r.vm)
  BY <1>2, <1>7, <1>8, TurnsTo
<1>10. sess' = sess \/ SetsVms(s, q)
  <2>1. sess' = sess \/ sess' = [sess EXCEPT ![s] = [sess[s] EXCEPT !.vms = q]]
    BY <1>6
  <2> QED
    BY <1>2, <1>5, <2>1, SessOf DEF SetsVms, Sets
<1> QED
  BY <1>1, <1>3, <1>5, <1>8, <1>9, <1>10 DEF DoUndefine, Moves2

LEMMA ShapeRemoved ==
  ASSUME NEW c \in Vms, VmInv, Vm!deleteVM_done(c) \/ Vp!B!deleteVM_done(c)
  PROVE  DoRemoved(c)
<1> DEFINE s == req[c].sptr
<1>1. req[c].pc = "removed" /\ UNCHANGED sess
  BY DEF Vm!deleteVM_done, Vp!B!deleteVM_done
<1>2. VmTypes /\ s \in Sids
  BY <1>1, ReqOf DEF Owning
<1>3. active \in Seq(Sids)
  BY <1>2 DEF VmTypes
<1>4. Vm!Answer(c, TRUE, s) \/ Vp!B!Answer(c, TRUE, s)
  BY DEF Vm!deleteVM_done, Vp!B!deleteVM_done
<1>5. Vp!B!RemoveFirst(active, s) = Vm!RemoveFirst(active, s)
  BY <1>3, Removed
<1>6. active' = active \/ (sess[s].vms = <<>> /\ active' = Vm!RemoveFirst(active, s))
  BY <1>5 DEF Vm!deleteVM_done, Vp!B!deleteVM_done, Vm!SessionEmpty, Vp!B!SessionEmpty
<1>7. Answers(c, s)
  BY <1>2, <1>4, Answered
<1>8. Vm!RemoveFirst(active, s) \in Seq(Sids) /\ Without(active, s, Vm!RemoveFirst(active, s))
  BY <1>3, Removed
<1> QED
  BY <1>1, <1>6, <1>7, <1>8 DEF DoRemoved

LEMMA ShapeDrop ==
  ASSUME NEW c \in Vms, VmInv, Vm!drop(c) \/ Vp!B!drop(c)
  PROVE  DoDrop(c)
<1> DEFINE s == req[c].sptr
           x == [exp |-> "none", vms |-> <<>>, vlans |-> {}]
           r == [op |-> "none", pc |-> "idle", sptr |-> "none", vm |-> Vm!NoVm, ok |-> TRUE]
<1>1. req[c].pc = "drop" /\ UNCHANGED <<active, stage>>
  BY DEF Vm!drop, Vp!B!drop
<1>2. VmTypes /\ s \in Sids \cup {"none"} /\ req \in [Vms -> ReqRecs]
  BY ReqOf
<1>3. /\ Vm!LastPointer(c, s) => Last(c)
      /\ Vp!B!LastPointer(c, s) => Last(c)
  BY <1>2 DEF Vm!LastPointer, Vp!B!LastPointer, Last, InList, Vm!None, Vp!B!None
<1>4. /\ Vm!NoVm \in VmRecs /\ Vp!B!NoVm = Vm!NoVm
      /\ Vm!Idle = r /\ Vp!B!Idle = r /\ Vm!NoSess = x /\ Vp!B!NoSess = x
  BY DEF VmRecs, Vm!NoVm, Vp!B!NoVm, Vm!Idle, Vp!B!Idle, Vm!NoSess, Vp!B!NoSess,
         Vm!None, Vp!B!None
<1>5. r \in ReqRecs /\ x \in SessRecs
  BY <1>4 DEF ReqRecs, SessRecs
<1>6. req' = [req EXCEPT ![c] = r] => Turns(c, "none", "idle", "none", Vm!NoVm)
  <2>1. r.op = "none" /\ r.pc = "idle" /\ r.sptr = "none" /\ r.vm = Vm!NoVm
    OBVIOUS
  <2> HIDE DEF r
  <2>2. req' = [req EXCEPT ![c] = r] => Turns(c, r.op, r.pc, r.sptr, r.vm)
    BY <1>2, <1>5, TurnsTo
  <2> QED
    BY <2>1, <2>2
<1> HIDE DEF r, x
<1>7. \/ req' = [req EXCEPT ![c] = r] /\ UNCHANGED sess
      \/ req' = [req EXCEPT ![c] = r] /\ Last(c) /\ sess' = [sess EXCEPT ![s] = x]
      \/ /\ Last(c) /\ sess[s].vms # <<>>
         /\ \E v : \/ Vm!removeVM_vlans(c, s, v, "clear")
                  \/ Vp!B!removeVM_vlans(c, s, v, "clear")
  BY <1>3, <1>4 DEF Vm!drop, Vp!B!drop
<1>8. ASSUME Last(c), sess[s].vms # <<>>,
             NEW v, \/ Vm!removeVM_vlans(c, s, v, "clear")
                    \/ Vp!B!removeVM_vlans(c, s, v, "clear")
      PROVE  DoDrop(c)
  <2>1. s \in Sids
    BY <1>8 DEF Last
  <2>2. SetsVlans(s) /\ Turns(c, req[c].op, "clear", s, req[c].vm)
    BY <1>2, <1>8, <2>1, Leaving
  <2> QED
    BY <1>1, <1>8, <2>2 DEF DoDrop, Moves2
<1>9. ASSUME Last(c), sess' = [sess EXCEPT ![s] = x]
      PROVE  Sets(s, [exp |-> "none", vms |-> <<>>, vlans |-> {}])
  BY <1>5, <1>9 DEF Sets, x
<1> QED
  BY <1>1, <1>6, <1>7, <1>8, <1>9 DEF DoDrop

LEMMA ShapeClear ==
  ASSUME NEW c \in Vms, VmInv, Vm!clear(c) \/ Vp!B!clear(c)
  PROVE  DoClear(c)
<1> DEFINE s == req[c].sptr
<1>1. req[c].pc = "clear" /\ UNCHANGED <<active, stage>>
  BY DEF Vm!clear, Vp!B!clear
<1>2. VmTypes /\ s \in Sids
  BY <1>1, ReqOf DEF Owning
<1>3. sess[s].vms \in Seq(VmRecs)
  BY <1>2, SessOf
<1>4. \E q : /\ q \in {<<>>, SubSeq(sess[s].vms, 3, Len(sess[s].vms)),
                       SubSeq(sess[s].vms, 2, Len(sess[s].vms))}
             /\ sess' = [sess EXCEPT ![s] = [sess[s] EXCEPT !.vms = q]]
  BY DEF Vm!clear, Vp!B!clear
<1>5. /\ SubSeq(sess[s].vms, 3, Len(sess[s].vms)) \in Seq(VmRecs)
      /\ SubSeq(sess[s].vms, 2, Len(sess[s].vms)) \in Seq(VmRecs)
      /\ <<>> \in Seq(VmRecs)
  BY <1>3
<1>6. Turns(c, req[c].op, "drop", s, req[c].vm)
  <2>1. Vm!Goto(c, "drop") \/ Vp!B!Goto(c, "drop")
    BY DEF Vm!clear, Vp!B!clear
  <2> QED
    BY <1>2, <2>1, Gone
<1> QED
  BY <1>1, <1>2, <1>4, <1>5, <1>6, SessOf DEF DoClear, SetsVms, Sets, Moves2

-----------------------------------------------------------------------------
(* Each of these steps keeps the invariant.                                 *)
LEMMA KeepMove ==
  ASSUME NEW c \in Vms, VmInv, UNCHANGED <<active, sess>>, NEW pc, NEW s, NEW v,
         Moves2(c, pc, s, v), s \in {"none", req[c].sptr} \/ InList(s),
         pc \in Owning => s # "none", pc \notin {"idle", "drop", "clear", "end"},
         OpOfPc(c)'
  PROVE  VmInv'
<1>1. VmTypes'
  BY DEF VmInv, VmTypes, Moves2, Turns
<1>2. Found(c)'
  BY DEF Found, Moves2, Turns
<1> QED
  BY <1>1, <1>2, SameSessions DEF Moves2, Turns

LEMMA KeepAlter ==
  ASSUME NEW c \in Vms, VmInv, UNCHANGED active, NEW s \in Sids, NEW x, Sets(s, x),
         req' \in [Vms -> ReqRecs], stage' \in [Vms -> {"off", "started", "configured", "up", "failed"}],
         \A d \in Vms \ {c} : req'[d] = req[d] /\ stage'[d] = stage[d],
         InList(s) => /\ x.exp = sess[s].exp
                      /\ \A d \in Vms \ {c} : Has(sess[s].vms, d) => Has(x.vms, d),
         x.exp = "none" => \A d \in Vms \ {c} : req[d].sptr # s,
         \/ req'[c].sptr \in {"none", req[c].sptr}
         \/ InList(req'[c].sptr),
         VmSound(c)'
  PROVE  VmInv'
<1>1. VmTypes'
  BY DEF VmInv, VmTypes, Sets
<1> QED
  BY <1>1, OneSession DEF Sets

LEMMA KeepLook == ASSUME NEW c \in Vms, VmInv, DoLook(c) PROVE VmInv'
<1>1. VmTypes /\ VmSound(c) /\ req[c].op = "start" /\ UNCHANGED <<active, sess>>
        /\ "none" \notin Sids
  BY ReqOf, VmAssumption DEF DoLook, VmSound, OpOfPc
<1>2. ASSUME Moves2(c, "push", "none", req[c].vm)
      PROVE  VmInv'
  <2>1. OpOfPc(c)'
    BY <1>1, <1>2 DEF Moves2, Turns, OpOfPc
  <2>2. "push" \notin Owning
    BY DEF Owning
  <2> QED
    BY <1>1, <1>2, <2>1, <2>2, KeepMove
<1>3. ASSUME NEW s \in Sids, InList(s), Moves2(c, "addVM", s, req[c].vm)
      PROVE  VmInv'
  <2>1. OpOfPc(c)'
    BY <1>1, <1>3 DEF Moves2, Turns, OpOfPc
  <2> QED
    BY <1>1, <1>3, <2>1, KeepMove
<1> QED
  BY <1>2, <1>3 DEF DoLook

LEMMA KeepPush == ASSUME NEW c \in Vms, VmInv, DoPush(c) PROVE VmInv'
<1>1. VmTypes /\ VmSound(c) /\ req[c].op = "start" /\ "none" \notin Sids /\ ExpOf[c] # "none"
  BY ReqOf, VmAssumption DEF DoPush, VmSound, OpOfPc
<1> DEFINE x == [exp |-> ExpOf[c], vms |-> <<>>, vlans |-> {}]
<1>2. PICK s \in Sids : /\ sess[s].exp = "none" /\ Sets(s, x)
                        /\ active' = Append(active, s)
                        /\ Moves2(c, "addVM", s, req[c].vm)
  BY DEF DoPush
<1>3. VmTypes'
  BY <1>1, <1>2 DEF VmTypes, Sets, Moves2, Turns
<1>4. /\ sess' \in [Sids -> SessRecs] /\ sess'[s].exp = ExpOf[c]
      /\ \A u \in Sids \ {s} : sess'[u] = sess[u]
  BY <1>1, <1>2, <1>3 DEF VmTypes, Sets
<1>5. /\ active \in Seq(Sids) /\ Len(active') = Len(active) + 1
      /\ \A i \in 1..Len(active) : active'[i] = active[i]
      /\ active'[Len(active) + 1] = s
      /\ DOMAIN active = 1..Len(active) /\ DOMAIN active' = 1..(Len(active) + 1)
      /\ Len(active) \in Nat
  BY <1>1, <1>2 DEF VmTypes
<1>6. \A i \in DOMAIN active : sess[active[i]].exp # "none" /\ active[i] \in Sids /\ active[i] # s
  BY <1>1, <1>2 DEF VmInv, VmTypes
<1>7. ASSUME NEW i \in DOMAIN active'
      PROVE  /\ sess'[active'[i]].exp # "none"
             /\ InList(active'[i]) \/ sess[active'[i]].exp = "none"
  <2>1. CASE i = Len(active) + 1
    BY <1>1, <1>2, <1>4, <1>5, <2>1
  <2>2. CASE i \in DOMAIN active
    BY <1>4, <1>5, <1>6, <2>2 DEF InList
  <2> QED
    BY <1>5, <2>1, <2>2
<1>8. ASSUME NEW d \in Vms, FoundAt(d)
      PROVE  FoundAt(d)'
  <2>1. PICK i \in DOMAIN active : First(d, i) /\ Has(sess[active[i]].vms, d)
    BY <1>8 DEF FoundAt
  <2>2. i \in DOMAIN active' /\ active'[i] = active[i] /\ sess'[active'[i]] = sess[active[i]]
    BY <1>4, <1>5, <1>6
  <2>3. ASSUME NEW j \in 1..(i - 1)
        PROVE  sess'[active'[j]].exp # ExpOf[d]
    <3>1. j \in DOMAIN active /\ sess[active[j]].exp # ExpOf[d]
      BY <1>5, <2>1 DEF First
    <3> QED
      BY <1>4, <1>5, <1>6, <3>1
  <2> QED
    BY <2>1, <2>2, <2>3 DEF FoundAt, First
<1>9. ASSUME NEW d \in Vms \ {c}, req[d].sptr # "none"
      PROVE  sess'[req[d].sptr].exp # "none"
  <2>1. req[d].sptr \in Sids \cup {"none"} /\ VmSound(d)
    BY ReqOf
  <2>2. sess[req[d].sptr].exp # "none" /\ req[d].sptr \in Sids
    BY <1>9, <2>1 DEF VmSound, Pointer
  <2> QED
    BY <1>2, <1>4, <2>2
<1>10. Careful(c)
  BY <1>2, <1>3, <1>7, <1>8, <1>9 DEF Careful, Moves2, Turns
<1>11. VmSound(c)'
  <2>1. Pointer(c)' /\ Alone(c)' /\ OpOfPc(c)' /\ Found(c)'
    BY <1>1, <1>2, <1>4 DEF Pointer, Alone, OpOfPc, Found, Moves2, Turns
  <2> QED
    BY <2>1 DEF VmSound
<1> QED
  BY <1>10, <1>11, CarefulStep

LEMMA KeepAdd == ASSUME NEW c \in Vms, VmInv, DoAdd(c) PROVE VmInv'
<1>1. VmTypes /\ VmSound(c) /\ req[c].op = "start" /\ req[c].sptr \in Sids
        /\ UNCHANGED <<active, sess>> /\ "none" \notin Sids
  BY ReqOf, VmAssumption DEF DoAdd, VmSound, OpOfPc, Owning
<1>2. ASSUME Answers(c, req[c].sptr)
      PROVE  VmInv'
  <2>1. stage'[c] # "configured"
    BY <1>1, <1>2 DEF Answers
  <2> QED
    BY <1>1, <1>2, <2>1, AnswerSame
<1>3. ASSUME NEW v, Moves2(c, "link", req[c].sptr, v)
      PROVE  VmInv'
  <2>1. OpOfPc(c)'
    BY <1>1, <1>3 DEF Moves2, Turns, OpOfPc
  <2> QED
    BY <1>1, <1>3, <2>1, KeepMove
<1> QED
  BY <1>2, <1>3 DEF DoAdd

LEMMA KeepLink == ASSUME NEW c \in Vms, VmInv, DoLink(c) PROVE VmInv'
<1> DEFINE s == req[c].sptr
           q == Append(sess[s].vms, req[c].vm)
<1>1. VmTypes /\ VmSound(c) /\ req[c].op = "start" /\ s \in Sids /\ UNCHANGED active
        /\ Answers(c, s) /\ stage'[c] # "configured" /\ "none" \notin Sids
  BY ReqOf, VmAssumption DEF DoLink, VmSound, OpOfPc, Owning, Answers
<1>2. CASE UNCHANGED sess
  BY <1>1, <1>2, AnswerSame
<1>3. CASE SetsVms(s, q)
  <2> DEFINE x == [sess[s] EXCEPT !.vms = q]
  <2>1. Sets(s, x) /\ sess[s].vms \in Seq(VmRecs) /\ req[c].vm \in VmRecs
    BY <1>1, <1>3, SessOf, ReqOf DEF SetsVms
  <2>2. x.exp = sess[s].exp /\ x.vms = q
    BY <1>1, SessOf DEF SessRecs
  <2>3. \A d \in Vms : Has(sess[s].vms, d) => Has(q, d)
    <3>1. \A k \in DOMAIN sess[s].vms : k \in DOMAIN q /\ q[k] = sess[s].vms[k]
      BY <2>1
    <3> QED
      BY <3>1 DEF Has
  <2> HIDE DEF x, q
  <2>4. sess[s].exp # "none" /\ sess'[s].exp # "none"
    BY <1>1, <2>1, <2>2 DEF VmSound, Pointer, Sets, VmTypes
  <2>5. VmSound(c)'
    BY <1>1, <2>4 DEF VmSound, Pointer, Alone, OpOfPc, Found, Answers, Turns, Owning
  <2> QED
    BY <1>1, <2>1, <2>2, <2>3, <2>4, <2>5, KeepAlter DEF Answers, Turns
<1> QED
  BY <1>2, <1>3 DEF DoLink

LEMMA KeepConfigure == ASSUME NEW c \in Vms, VmInv, DoConfigure(c) PROVE VmInv'
<1>1. VmTypes /\ VmSound(c) /\ UNCHANGED active /\ "none" \notin Sids
  BY ReqOf, VmAssumption DEF DoConfigure
<1>2. ASSUME UNCHANGED sess, stage'[c] # "configured", NEW s \in Sids \cup {"none"},
             s = "none" \/ InList(s), Answers(c, s)
      PROVE  VmInv'
  BY <1>1, <1>2, AnswerSame
<1>3. ASSUME NEW i \in DOMAIN active, First(c, i), Has(sess[active[i]].vms, c),
             Answers(c, active[i]), NEW q \in Seq(VmRecs), SetsVms(active[i], q),
             DOMAIN q = DOMAIN sess[active[i]].vms,
             \A k \in DOMAIN q : q[k].comp = sess[active[i]].vms[k].comp
      PROVE  VmInv'
  <2> DEFINE s == active[i]
             x == [sess[s] EXCEPT !.vms = q]
  <2>1. s \in Sids /\ InList(s) /\ sess[s].exp # "none"
    BY <1>1 DEF VmTypes, InList, VmInv
  <2>2. Sets(s, x)
    BY <1>3 DEF SetsVms
  <2>3. x.exp = sess[s].exp /\ x.vms = q /\ x \in SessRecs
    BY <1>1, <2>1, <2>2, SessOf DEF SessRecs, Sets
  <2>4. \A d \in Vms : Has(sess[s].vms, d) => Has(x.vms, d)
    BY <1>3, <2>3 DEF Has
  <2> HIDE DEF x
  <2>5. FoundAt(c)'
    <3>1. FoundAt(c)
      BY <1>3 DEF FoundAt
    <3> QED
      BY <1>1, <2>1, <2>2, <2>3, <2>4, <3>1, FoundKept DEF Sets
  <2>6. sess'[s].exp # "none"
    BY <1>1, <2>1, <2>2, <2>3 DEF Sets, VmTypes
  <2>7. VmSound(c)'
    BY <1>3, <2>5, <2>6 DEF VmSound, Pointer, Alone, OpOfPc, Found, Answers, Turns, Owning
  <2> QED
    BY <1>1, <1>3, <2>1, <2>2, <2>3, <2>4, <2>7, KeepAlter DEF Answers, Turns
<1> QED
  BY <1>2, <1>3 DEF DoConfigure

LEMMA KeepEnd == ASSUME NEW c \in Vms, VmInv, DoEnd(c) PROVE VmInv'
<1>1. VmTypes /\ VmSound(c) /\ req[c].op = "end" /\ UNCHANGED <<active, sess, stage>>
        /\ "none" \notin Sids
  BY ReqOf, VmAssumption DEF DoEnd, VmSound, OpOfPc
<1>2. CASE UNCHANGED req
  BY <1>1, <1>2 DEF VmInv, VmTypes, VmSound, Pointer, Alone, OpOfPc, Found, FoundAt, First, InList, Has
<1>3. ASSUME NEW s \in Sids, InList(s), NEW v, Moves2(c, "startVM", s, v)
      PROVE  VmInv'
  <2>1. OpOfPc(c)'
    BY <1>1, <1>3 DEF Moves2, Turns, OpOfPc
  <2> QED
    BY <1>1, <1>3, <2>1, KeepMove
<1> QED
  BY <1>2, <1>3 DEF DoEnd

(* A step that changes only the vlans of the session of its request.        *)
LEMMA KeepVlans ==
  ASSUME NEW c \in Vms, VmInv, UNCHANGED active, NEW pc, req[c].sptr \in Sids,
         SetsVlans(req[c].sptr), Moves2(c, pc, req[c].sptr, req[c].vm),
         OpOfPc(c)', pc = "clear" => Last(c) /\ req[c].pc = "drop",
         pc \in {"script", "undefine", "clear"}
  PROVE  VmInv'
<1> DEFINE s == req[c].sptr
<1>1. VmTypes /\ VmSound(c) /\ "none" \notin Sids
  BY ReqOf, VmAssumption
<1>2. PICK l \in SUBSET ({VlanOf[d] : d \in Vms} \X Nat) : Sets(s, [sess[s] EXCEPT !.vlans = l])
  BY DEF SetsVlans
<1> DEFINE x == [sess[s] EXCEPT !.vlans = l]
<1>3. x.exp = sess[s].exp /\ x.vms = sess[s].vms /\ x \in SessRecs
  BY <1>1, SessOf DEF SessRecs
<1> HIDE DEF x
<1>4. sess[s].exp # "none" /\ sess'[s].exp # "none"
  BY <1>1, <1>2, <1>3 DEF VmSound, Pointer, Sets, VmTypes, x
<1>5. FoundAt(c) => FoundAt(c)'
  BY <1>1, <1>2, <1>3, FoundKept DEF Sets, x
<1>6. Pointer(c)' /\ Found(c)'
  BY <1>1, <1>4, <1>5 DEF Pointer, Found, VmSound, Moves2, Turns
<1>7. Alone(c)'
  BY DEF Alone, Last, InList, Moves2, Turns
<1>8. VmSound(c)'
  BY <1>6, <1>7 DEF VmSound
<1>9. stage' \in [Vms -> {"off", "started", "configured", "up", "failed"}]
  BY <1>1 DEF VmTypes, Moves2
<1> QED
  BY <1>2, <1>3, <1>4, <1>8, <1>9, KeepAlter DEF Moves2, Turns, x

LEMMA KeepStart == ASSUME NEW c \in Vms, VmInv, DoStart(c) PROVE VmInv'
<1>1. VmSound(c) /\ req[c].op = "end" /\ req[c].sptr \in Sids
  BY ReqOf DEF DoStart, VmSound, OpOfPc, Owning
<1>2. OpOfPc(c)'
  BY <1>1 DEF DoStart, Moves2, Turns, OpOfPc
<1> QED
  BY <1>1, <1>2, KeepVlans DEF DoStart

LEMMA KeepScript == ASSUME NEW c \in Vms, VmInv, DoScript(c) PROVE VmInv'
<1>1. VmSound(c) /\ req[c].op = "end" /\ req[c].sptr \in Sids
  BY ReqOf DEF DoScript, VmSound, OpOfPc, Owning
<1>2. stage'[c] # "configured"
  BY <1>1 DEF DoScript, Answers
<1> QED
  BY <1>1, <1>2, AnswerSame DEF DoScript

LEMMA KeepRefresh == ASSUME NEW c \in Vms, VmInv, DoRefresh(c) PROVE VmInv'
<1>1. VmSound(c) /\ req[c].op = "refresh" /\ UNCHANGED <<active, sess>> /\ "none" \notin Sids
  BY ReqOf, VmAssumption DEF DoRefresh, VmSound, OpOfPc
<1>2. ASSUME Answers(c, "none")
      PROVE  VmInv'
  <2>1. stage'[c] # "configured"
    BY <1>1, <1>2 DEF Answers
  <2> QED
    BY <1>1, <1>2, <2>1, AnswerSame
<1>3. ASSUME NEW s \in Sids, InList(s), Moves2(c, "delete", s, req[c].vm)
      PROVE  VmInv'
  <2>1. OpOfPc(c)'
    BY <1>1, <1>3 DEF Moves2, Turns, OpOfPc
  <2> QED
    BY <1>1, <1>3, <2>1, KeepMove
<1> QED
  BY <1>2, <1>3 DEF DoRefresh

LEMMA KeepLock == ASSUME NEW c \in Vms, VmInv, DoLock(c) PROVE VmInv'
<1>1. VmSound(c) /\ req[c].op = "refresh" /\ req[c].sptr \in Sids /\ "none" \notin Sids
  BY ReqOf, VmAssumption DEF DoLock, VmSound, OpOfPc, Owning
<1>2. OpOfPc(c)'
  BY <1>1 DEF DoLock, Moves2, Turns, OpOfPc
<1>3. CASE UNCHANGED sess /\ Moves2(c, "removed", req[c].sptr, req[c].vm)
  BY <1>1, <1>2, <1>3, KeepMove DEF DoLock
<1>4. CASE SetsVlans(req[c].sptr) /\ Moves2(c, "undefine", req[c].sptr, req[c].vm)
  BY <1>1, <1>2, <1>4, KeepVlans DEF DoLock
<1> QED
  BY <1>3, <1>4 DEF DoLock

(* The other VMs survive the removal of one.                                *)
LEMMA OthersStay ==
  ASSUME NEW q \in Seq(VmRecs), NEW r \in Seq(VmRecs), NEW v, Without(q, v, r),
         NEW i \in DOMAIN q, q[i] # v
  PROVE  \E j \in DOMAIN r : r[j] = q[i]
<1>1. CASE r = q
  BY <1>1
<1>2. ASSUME NEW k \in DOMAIN q, q[k] = v, Len(r) = Len(q) - 1,
             \A j \in DOMAIN r : r[j] = IF j < k THEN q[j] ELSE q[j + 1]
      PROVE  \E j \in DOMAIN r : r[j] = q[i]
  <2>1. i \in 1..Len(q) /\ k \in 1..Len(q) /\ i # k /\ DOMAIN r = 1..(Len(q) - 1)
          /\ Len(q) \in Nat
    BY <1>2
  <2>2. CASE i < k
    <3>1. i \in DOMAIN r /\ r[i] = q[i]
      BY <1>2, <2>1, <2>2
    <3> QED
      BY <3>1
  <2>3. CASE i > k
    <3>1. i - 1 \in DOMAIN r /\ ~(i - 1 < k) /\ (i - 1) + 1 = i
      BY <2>1, <2>3
    <3>2. r[i - 1] = q[i]
      BY <1>2, <3>1
    <3> QED
      BY <3>1, <3>2
  <2> QED
    BY <2>1, <2>2, <2>3
<1> QED
  BY <1>1, <1>2 DEF Without

LEMMA KeepUndefine == ASSUME NEW c \in Vms, VmInv, DoUndefine(c) PROVE VmInv'
<1> DEFINE s == req[c].sptr
<1>1. VmTypes /\ VmSound(c) /\ req[c].op = "refresh" /\ s \in Sids /\ "none" \notin Sids
        /\ "none" \notin Vms
  BY ReqOf, VmAssumption DEF DoUndefine, VmSound, OpOfPc, Owning
<1>2. OpOfPc(c)'
  BY <1>1 DEF DoUndefine, Moves2, Turns, OpOfPc
<1>3. CASE UNCHANGED sess
  BY <1>1, <1>2, <1>3, KeepMove DEF DoUndefine
<1>4. ASSUME NEW v \in VmRecs, NEW q \in Seq(VmRecs), v.comp \in {c, "none"},
             Without(sess[s].vms, v, q), SetsVms(s, q)
      PROVE  VmInv'
  <2> DEFINE x == [sess[s] EXCEPT !.vms = q]
  <2>1. Sets(s, x) /\ sess[s].vms \in Seq(VmRecs)
    BY <1>1, <1>4, SessOf DEF SetsVms
  <2>2. x.exp = sess[s].exp /\ x.vms = q
    BY <1>1, SessOf DEF SessRecs
  <2>3. \A d \in Vms \ {c} : Has(sess[s].vms, d) => Has(q, d)
    BY <1>1, <1>4, <2>1, OthersStay DEF Has
  <2> HIDE DEF x
  <2>4. sess[s].exp # "none" /\ sess'[s].exp # "none"
    BY <1>1, <2>1, <2>2 DEF VmSound, Pointer, Sets, VmTypes
  <2>5. Moves2(c, "removed", s, req[c].vm) /\ UNCHANGED active
    BY DEF DoUndefine
  <2>6. VmSound(c)'
    BY <1>1, <1>2, <2>4, <2>5 DEF VmSound, Pointer, Alone, Found, Moves2, Turns
  <2>7. stage' \in [Vms -> {"off", "started", "configured", "up", "failed"}]
    BY <1>1, <2>5 DEF VmTypes, Moves2
  <2> QED
    BY <1>1, <2>1, <2>2, <2>3, <2>4, <2>5, <2>6, <2>7, KeepAlter DEF Moves2, Turns
<1> QED
  BY <1>3, <1>4 DEF DoUndefine

LEMMA KeepRemoved == ASSUME NEW c \in Vms, VmInv, DoRemoved(c) PROVE VmInv'
<1> DEFINE s == req[c].sptr
<1>1. VmTypes /\ VmSound(c) /\ req[c].op = "refresh" /\ s \in Sids /\ UNCHANGED sess
        /\ Answers(c, s) /\ stage'[c] # "configured" /\ "none" \notin Sids
  BY ReqOf, VmAssumption DEF DoRemoved, VmSound, OpOfPc, Owning, Answers
<1>2. CASE UNCHANGED active
  BY <1>1, <1>2, AnswerSame
<1>3. ASSUME sess[s].vms = <<>>, active' \in Seq(Sids), NEW k \in DOMAIN active,
             active[k] = s, Len(active') = Len(active) - 1,
             \A j \in DOMAIN active' : active'[j] = IF j < k THEN active[j] ELSE active[j + 1]
      PROVE  VmInv'
  <2>1. /\ DOMAIN active = 1..Len(active) /\ DOMAIN active' = 1..(Len(active) - 1)
        /\ Len(active) \in Nat /\ k \in 1..Len(active)
    BY <1>1, <1>3 DEF VmTypes
  <2>2. ASSUME NEW j \in DOMAIN active'
        PROVE  InList(active'[j]) /\ sess[active'[j]].exp # "none"
    <3>1. j \in DOMAIN active /\ j + 1 \in DOMAIN active
      BY <2>1
    <3>2. active'[j] = active[j] \/ active'[j] = active[j + 1]
      BY <1>3
    <3> QED
      BY <3>1, <3>2 DEF InList, VmInv
  <2>3. ASSUME NEW d \in Vms, FoundAt(d)
        PROVE  FoundAt(d)'
    <3>1. PICK i \in DOMAIN active : First(d, i) /\ Has(sess[active[i]].vms, d)
      BY <2>3 DEF FoundAt
    <3>2. i # k
      BY <1>3, <3>1 DEF Has
    <3>3. CASE i < k
      <4>1. i \in DOMAIN active' /\ active'[i] = active[i]
        BY <1>3, <2>1, <3>3
      <4>2. \A j \in 1..(i - 1) : j \in DOMAIN active' /\ active'[j] = active[j]
        BY <1>3, <2>1, <3>3
      <4> QED
        BY <1>1, <3>1, <4>1, <4>2 DEF FoundAt, First
    <3>4. CASE i > k
      <4>1. i - 1 \in DOMAIN active' /\ ~(i - 1 < k) /\ (i - 1) + 1 = i
        BY <2>1, <3>4
      <4>2. active'[i - 1] = active[i]
        BY <1>3, <4>1
      <4>3. ASSUME NEW j \in 1..((i - 1) - 1)
            PROVE  sess'[active'[j]].exp # ExpOf[d]
        <5>1. j \in DOMAIN active' /\ j \in 1..(i - 1) /\ j + 1 \in 1..(i - 1)
          BY <2>1, <4>1
        <5>2. active'[j] = active[j] \/ active'[j] = active[j + 1]
          BY <1>3, <5>1
        <5> QED
          BY <1>1, <3>1, <5>1, <5>2 DEF First
      <4> QED
        BY <1>1, <3>1, <4>1, <4>2, <4>3 DEF FoundAt, First
    <3> QED
      BY <2>1, <3>2, <3>3, <3>4
  <2>4. VmTypes'
    BY <1>1, <1>3 DEF VmTypes, Answers, Turns
  <2>5. \A d \in Vms : VmSound(d)
    BY DEF VmInv
  <2>6. Careful(c)
    BY <1>1, <2>2, <2>3, <2>4, <2>5 DEF Careful, Answers, Turns, VmSound, Pointer
  <2>7. VmSound(c)'
    BY <1>1 DEF VmSound, Pointer, Alone, OpOfPc, Found, Answers, Turns, Owning
  <2> QED
    BY <2>6, <2>7, CarefulStep
<1> QED
  BY <1>2, <1>3 DEF DoRemoved, Without

LEMMA KeepDrop == ASSUME NEW c \in Vms, VmInv, DoDrop(c) PROVE VmInv'
<1> DEFINE s == req[c].sptr
           x == [exp |-> "none", vms |-> <<>>, vlans |-> {}]
<1>1. VmTypes /\ VmSound(c) /\ UNCHANGED active /\ "none" \notin Sids /\ req[c].pc = "drop"
  BY ReqOf, VmAssumption DEF DoDrop
<1>2. ASSUME Turns(c, "none", "idle", "none", Vm!NoVm), UNCHANGED stage
      PROVE  /\ OpOfPc(c)' /\ Pointer(c)' /\ Alone(c)' /\ req'[c].pc = "idle"
             /\ (FoundAt(c) => FoundAt(c)') => Found(c)'
  BY <1>1, <1>2 DEF OpOfPc, Pointer, Alone, Turns, Owning, VmSound, Found
<1>3. ASSUME Turns(c, "none", "idle", "none", Vm!NoVm), UNCHANGED stage, UNCHANGED sess
      PROVE  VmInv'
  <2>1. FoundAt(c) => FoundAt(c)'
    BY <1>1, <1>3 DEF FoundAt, First, Has
  <2>2. VmTypes'
    BY <1>1, <1>3 DEF VmTypes, Turns
  <2>3. "idle" \notin Owning
    BY DEF Owning
  <2> QED
    BY <1>1, <1>2, <1>3, <2>1, <2>2, <2>3, SameSessions DEF Turns
<1>4. ASSUME Turns(c, "none", "idle", "none", Vm!NoVm), UNCHANGED stage, Last(c), Sets(s, x)
      PROVE  VmInv'
  <2>1. s \in Sids /\ ~InList(s) /\ \A d \in Vms \ {c} : req[d].sptr # s
    BY <1>4 DEF Last
  <2> HIDE DEF x
  <2>2. FoundAt(c) => FoundAt(c)'
    BY <1>1, <1>4, <2>1, FoundKept DEF Sets
  <2>3. VmSound(c)'
    BY <1>2, <1>4, <2>2 DEF VmSound
  <2>4. stage' \in [Vms -> {"off", "started", "configured", "up", "failed"}]
    BY <1>1, <1>4 DEF VmTypes
  <2> QED
    BY <1>1, <1>4, <2>1, <2>3, <2>4, KeepAlter DEF Turns
<1>5. ASSUME Last(c), SetsVlans(s), Moves2(c, "clear", s, req[c].vm)
      PROVE  VmInv'
  <2>1. OpOfPc(c)' /\ s \in Sids
    BY <1>5 DEF OpOfPc, Moves2, Turns, Last
  <2> QED
    BY <1>1, <1>5, <2>1, KeepVlans
<1> QED
  BY <1>3, <1>4, <1>5 DEF DoDrop

LEMMA KeepClear == ASSUME NEW c \in Vms, VmInv, DoClear(c) PROVE VmInv'
<1> DEFINE s == req[c].sptr
<1>1. VmTypes /\ VmSound(c) /\ s \in Sids /\ UNCHANGED active /\ "none" \notin Sids
        /\ req[c].pc = "clear" /\ Moves2(c, "drop", s, req[c].vm)
  BY ReqOf, VmAssumption DEF DoClear, Owning
<1>2. ~InList(s) /\ sess[s].exp # "none"
  BY <1>1 DEF VmSound, Alone, Pointer
<1>3. PICK q \in Seq(VmRecs) : SetsVms(s, q)
  BY DEF DoClear
<1> DEFINE x == [sess[s] EXCEPT !.vms = q]
<1>4. Sets(s, x) /\ x.exp = sess[s].exp
  BY <1>1, <1>3, SessOf DEF SetsVms, SessRecs
<1> HIDE DEF x
<1>5. FoundAt(c) => FoundAt(c)'
  BY <1>1, <1>2, <1>4, FoundKept DEF Sets
<1>6. sess'[s].exp # "none"
  BY <1>1, <1>2, <1>4 DEF Sets, VmTypes
<1>7. VmSound(c)'
  BY <1>1, <1>5, <1>6 DEF VmSound, Pointer, Alone, OpOfPc, Found, Moves2, Turns, Owning
<1>8. stage' \in [Vms -> {"off", "started", "configured", "up", "failed"}]
  BY <1>1 DEF VmTypes, Moves2
<1> QED
  BY <1>1, <1>2, <1>4, <1>7, <1>8, KeepAlter DEF Moves2, Turns

LEMMA VmSteps ==
  ASSUME NEW c \in Vms, VmInv, Vm!Step(c) \/ Vp!DevStep(c)
  PROVE  VmInv'
<1> USE DEF Vp!addSession_look, Vp!addSession_push, Vp!addDev, Vp!addDev_link,
            Vp!configureDev, Vp!end_configure_node_req, Vp!startDev, Vp!startDev_script,
            Vp!deleteDev_look, Vp!deleteDev_lock, Vp!deleteDev_undefine, Vp!deleteDev_done,
            Vp!drop, Vp!clear
<1>1. ASSUME \/ Vm!addSession_look(c) \/ Vp!addSession_look(c)
             \/ Vm!addSession_push(c) \/ Vp!addSession_push(c)
             \/ Vm!addVM(c) \/ Vp!addDev(c) \/ Vm!addVM_link(c) \/ Vp!addDev_link(c)
      PROVE  VmInv'
  BY <1>1, ShapeLook, ShapePush, ShapeAdd, ShapeLink, KeepLook, KeepPush, KeepAdd, KeepLink
<1>2. ASSUME \/ Vm!configureVM(c) \/ Vp!configureDev(c)
             \/ Vm!end_configure_node_req(c) \/ Vp!end_configure_node_req(c)
             \/ Vm!startVM(c) \/ Vp!startDev(c) \/ Vm!startVM_script(c) \/ Vp!startDev_script(c)
      PROVE  VmInv'
  BY <1>2, ShapeConfigure, ShapeEnd, ShapeStart, ShapeScript, KeepConfigure, KeepEnd,
     KeepStart, KeepScript
<1>3. ASSUME \/ Vm!deleteVM_look(c) \/ Vp!deleteDev_look(c)
             \/ Vm!deleteVM_lock(c) \/ Vp!deleteDev_lock(c)
             \/ Vm!deleteVM_undefine(c) \/ Vp!deleteDev_undefine(c)
             \/ Vm!deleteVM_done(c) \/ Vp!deleteDev_done(c)
      PROVE  VmInv'
  BY <1>3, ShapeRefresh, ShapeLock, ShapeUndefine, ShapeRemoved, KeepRefresh, KeepLock,
     KeepUndefine, KeepRemoved
<1>4. ASSUME Vm!drop(c) \/ Vp!drop(c) \/ Vm!clear(c) \/ Vp!clear(c)
      PROVE  VmInv'
  BY <1>4, ShapeDrop, ShapeClear, KeepDrop, KeepClear
<1> HIDE DEF Vp!addSession_look, Vp!addSession_push, Vp!addDev, Vp!addDev_link,
            Vp!configureDev, Vp!end_configure_node_req, Vp!startDev, Vp!startDev_script,
            Vp!deleteDev_look, Vp!deleteDev_lock, Vp!deleteDev_undefine, Vp!deleteDev_done,
            Vp!drop, Vp!clear
<1> QED
  BY <1>1, <1>2, <1>3, <1>4 DEF Vm!Step, Vp!DevStep

-----------------------------------------------------------------------------
SessionsInv == kind \in {"vm", "vpn"} => VmInv

LEMMA SessionsInit == MCInit => SessionsInv
<1> SUFFICES ASSUME MCInit, kind \in {"vm", "vpn"}
             PROVE  VmInv
  BY DEF SessionsInv
<1> DEFINE r == [op |-> "none", pc |-> "idle", sptr |-> "none", vm |-> Vm!NoVm, ok |-> TRUE]
           x == [exp |-> "none", vms |-> <<>>, vlans |-> {}]
<1>1. Vm!Init \/ Vp!B!Init
  BY DEF MCInit, Vp!Init
<1>2. /\ Vm!NoVm \in VmRecs /\ Vp!B!NoVm = Vm!NoVm
      /\ Vm!Idle = r /\ Vp!B!Idle = r /\ Vm!NoSess = x /\ Vp!B!NoSess = x
  BY DEF VmRecs, Vm!NoVm, Vp!B!NoVm, Vm!Idle, Vp!B!Idle, Vm!NoSess, Vp!B!NoSess,
         Vm!None, Vp!B!None
<1>3. r \in ReqRecs /\ x \in SessRecs /\ r.pc = "idle" /\ r.sptr = "none"
  BY <1>2 DEF ReqRecs, SessRecs
<1> HIDE DEF r, x
<1>4. /\ active = <<>> /\ sess = [s \in Sids |-> x] /\ req = [c \in Vms |-> r]
      /\ stage = [c \in Vms |-> "off"]
  BY <1>1, <1>2 DEF Vm!Init, Vp!B!Init
<1>5. VmTypes
  BY <1>3, <1>4 DEF VmTypes
<1>6. ASSUME NEW c \in Vms
      PROVE  VmSound(c)
  BY <1>3, <1>4 DEF VmSound, Pointer, Alone, OpOfPc, Found, Owning
<1> QED
  BY <1>4, <1>5, <1>6 DEF VmInv

LEMMA SessionsNext == SessionsInv /\ [MCNext]_mcVars => SessionsInv'
<1> SUFFICES ASSUME SessionsInv, [MCNext]_mcVars
             PROVE  SessionsInv'
  OBVIOUS
<1>1. ASSUME UNCHANGED <<kind, active, sess, req, stage>>
      PROVE  SessionsInv'
  BY <1>1 DEF SessionsInv, VmInv, VmTypes, VmSound, Pointer, Alone, OpOfPc, Found, FoundAt,
              First, InList, Has
<1>2. CASE ConnNext \/ HostNext \/ CcnxNext \/ NmdNext \/ UNCHANGED mcVars
  BY <1>1, <1>2 DEF ConnNext, HostNext, CcnxNext, NmdNext, mcVars, vmVars
<1>3. CASE VmNext
  <2>1. PICK c \in Vms :
          \/ kind = "vm" /\ (Vm!Request(c) \/ Vm!Step(c))
          \/ kind = "vpn" /\ (Vp!Request(c) \/ Vp!Step(c))
    BY <1>3 DEF VmNext
  <2>2. VmInv /\ kind' = kind
    BY <1>3, <2>1 DEF SessionsInv, VmNext
  <2>3. ASSUME UNCHANGED <<active, sess, req, stage>>
        PROVE  SessionsInv'
    BY <1>1, <2>2, <2>3
  <2>4. Vm!Request(c) => VmReceive(c)
    BY DEF Vm!Request, VmReceive, VmOps
  <2>5. Vp!Request(c) => VmReceive(c) \/ UNCHANGED <<active, sess, req, stage>>
    BY DEF Vp!Request, VmReceive, VmOps, Vp!RouteRequest, Vp!base
  <2>6. Vp!Step(c) => Vp!DevStep(c) \/ UNCHANGED <<active, sess, req, stage>>
    BY DEF Vp!Step, Vp!Lookup, Vp!add_route, Vp!delete_route, Vp!conf_client, Vp!base
  <2>7. \/ VmReceive(c) \/ Vm!Step(c) \/ Vp!DevStep(c)
        \/ UNCHANGED <<active, sess, req, stage>>
    BY <2>1, <2>4, <2>5, <2>6
  <2> QED
    BY <2>2, <2>3, <2>7, StepReceive, VmSteps DEF SessionsInv
<1> QED
  BY <1>2, <1>3 DEF MCNext

(* A VM or device whose configuration was answered Fine is found when its   *)
(* configuration ends, whatever deleteVM and deleteDev do for the others:   *)
(* for every number of VMs, experiments, sessions and names.                *)
THEOREM ConfiguredIsFoundCorrect == MCSpec => []ConfiguredIsFound
<1>1. SessionsInv => ConfiguredIsFound
  <2> SUFFICES ASSUME SessionsInv
               PROVE  ConfiguredIsFound
    OBVIOUS
  <2>1. ASSUME VmInv, NEW c \in Vms, stage[c] = "configured" /\ req[c].pc = "end"
        PROVE  /\ Vm!getSession(c) # "none" /\ Vm!getVM(Vm!getSession(c), c) # Vm!NoVm
               /\ Vp!B!getSession(c) # "none"
               /\ Vp!B!getVM(Vp!B!getSession(c), c) # Vp!B!NoVm
    <3> DEFINE s == Vm!getSession(c)
    <3>1. VmTypes /\ FoundAt(c)
      BY <2>1, ReqOf DEF VmSound, Found
    <3>2. /\ s # "none" /\ Has(sess[s].vms, c) /\ Vp!B!getSession(c) = s
          /\ \E i \in DOMAIN active : s = active[i]
      BY <3>1, Lookup
    <3>3. s \in Sids
      BY <3>1, <3>2 DEF VmTypes
    <3> HIDE DEF s
    <3>4. Vm!getVM(s, c) # Vm!NoVm /\ Vp!B!getVM(s, c) # Vp!B!NoVm
      BY <3>1, <3>2, <3>3, LookupVm
    <3> QED
      BY <3>2, <3>4 DEF s
  <2> QED
    BY <2>1 DEF SessionsInv, ConfiguredIsFound, Vm!ConfiguredIsFound, Vp!ConfiguredIsFound,
                Vp!B!ConfiguredIsFound, Vm!None, Vp!B!None
<1> QED
  BY <1>1, SessionsInit, SessionsNext, PTL DEF MCSpec

-----------------------------------------------------------------------------
(* The names of the VMs (NamesApart).  A name is marked from the moment it *)
(* is given out; it is that of one VM in one list, or of one VM that is    *)
(* about to be linked; a VM that is being started is in its session's list.*)
Listed ==
  \A s \in Sids : \A i \in DOMAIN sess[s].vms :
    sess[s].vms[i].name \in Vm!Names /\ in_use[sess[s].vms[i].name]
Apart ==
  \A s, u \in Sids : \A i \in DOMAIN sess[s].vms, j \in DOMAIN sess[u].vms :
    sess[s].vms[i].name = sess[u].vms[j].name => s = u /\ i = j
Unlisted(n) == \A s \in Sids : \A i \in DOMAIN sess[s].vms : sess[s].vms[i].name # n
Linking(c) ==
  req[c].pc = "link" =>
    /\ req[c].vm.name \in Vm!Names /\ in_use[req[c].vm.name] /\ Unlisted(req[c].vm.name)
    /\ \A d \in Vms \ {c} : req[d].pc = "link" => req[d].vm.name # req[c].vm.name
Runs(q, c, n) == \E i \in DOMAIN q : q[i].comp = c /\ q[i].name = n
Running(c) ==
  /\ req[c].pc \in {"startVM", "script"} => Runs(sess[req[c].sptr].vms, c, req[c].vm.name)
  /\ req[c].pc = "clear" => sess[req[c].sptr].vms # <<>>

Marks ==
  /\ in_use \in [Vm!Names -> BOOLEAN] /\ defined \subseteq Vm!Names
  /\ \A n \in defined : in_use[n]

NameInv == Marks /\ Listed /\ Apart /\ \A c \in Vms : Linking(c) /\ Running(c)

(* The VMs of list q are some of those of list p.                           *)
Sub(q, p) ==
  \E f \in [DOMAIN q -> DOMAIN p] :
    /\ \A i, j \in DOMAIN q : f[i] = f[j] => i = j
    /\ \A i \in DOMAIN q : q[i].name = p[f[i]].name

LEMMA SubSelf == \A q : Sub(q, q)
<1> SUFFICES ASSUME NEW q
             PROVE  Sub(q, q)
  OBVIOUS
<1> DEFINE f == [i \in DOMAIN q |-> i]
<1>1. /\ f \in [DOMAIN q -> DOMAIN q]
      /\ \A i, j \in DOMAIN q : f[i] = f[j] => i = j
      /\ \A i \in DOMAIN q : q[i].name = q[f[i]].name
  OBVIOUS
<1> HIDE DEF f
<1> QED
  BY <1>1 DEF Sub

LEMMA SubShift ==
  ASSUME NEW q, NEW p, NEW n \in Nat, DOMAIN q \subseteq Nat, DOMAIN p \subseteq Nat,
         \A i \in DOMAIN q : i + n \in DOMAIN p /\ q[i] = p[i + n]
  PROVE  Sub(q, p)
<1> DEFINE f == [i \in DOMAIN q |-> i + n]
<1>1. f \in [DOMAIN q -> DOMAIN p] /\ \A i \in DOMAIN q : f[i] = i + n
  OBVIOUS
<1> HIDE DEF f
<1>2. \A i, j \in DOMAIN q : f[i] = f[j] => i = j
  BY <1>1
<1>3. \A i \in DOMAIN q : q[i].name = p[f[i]].name
  BY <1>1
<1> QED
  BY <1>1, <1>2, <1>3 DEF Sub

LEMMA SubWithout ==
  ASSUME NEW p \in Seq(VmRecs), NEW q \in Seq(VmRecs), NEW v, Without(p, v, q)
  PROVE  Sub(q, p)
<1>1. CASE q = p
  BY <1>1, SubSelf
<1>2. ASSUME NEW k \in DOMAIN p, Len(q) = Len(p) - 1,
             \A j \in DOMAIN q : q[j] = IF j < k THEN p[j] ELSE p[j + 1]
      PROVE  Sub(q, p)
  <2> DEFINE f == [i \in DOMAIN q |-> IF i < k THEN i ELSE i + 1]
  <2>1. /\ DOMAIN p = 1..Len(p) /\ DOMAIN q = 1..(Len(p) - 1) /\ k \in 1..Len(p)
        /\ Len(p) \in Nat
    BY <1>2
  <2>2. /\ f \in [DOMAIN q -> DOMAIN p]
        /\ \A i \in DOMAIN q : f[i] = IF i < k THEN i ELSE i + 1
    BY <2>1
  <2> HIDE DEF f
  <2>3. ASSUME NEW i \in DOMAIN q, NEW j \in DOMAIN q, f[i] = f[j]
        PROVE  i = j
    <3>1. i \in Nat /\ j \in Nat /\ k \in Nat
      BY <2>1
    <3> QED
      BY <2>2, <2>3, <3>1
  <2>4. \A i \in DOMAIN q : q[i].name = p[f[i]].name
    BY <1>2, <2>2
  <2> QED
    BY <2>2, <2>3, <2>4 DEF Sub
<1> QED
  BY <1>1, <1>2 DEF Without

(* No step but those that give a name out or link a VM adds to the lists.   *)
LEMMA NamesKept ==
  ASSUME NEW c \in Vms, NameInv, Marks', req' \in [Vms -> ReqRecs],
         \A d \in Vms \ {c} : req'[d] = req[d],
         req'[c].pc # "link",
         \A s \in Sids : Sub(sess'[s].vms, sess[s].vms),
         \A s \in Sids : \A i \in DOMAIN sess'[s].vms :
           in_use[sess'[s].vms[i].name] => in_use'[sess'[s].vms[i].name],
         \A d \in Vms \ {c} : req[d].pc = "link" => in_use'[req[d].vm.name],
         \A d \in Vms : Running(d)'
  PROVE  NameInv'
<1>1. ASSUME NEW s \in Sids, NEW i \in DOMAIN sess'[s].vms
      PROVE  \E k \in DOMAIN sess[s].vms : sess'[s].vms[i].name = sess[s].vms[k].name
  BY DEF Sub
<1>2. Listed'
  <2> SUFFICES ASSUME NEW s \in Sids, NEW i \in DOMAIN sess'[s].vms
               PROVE  sess'[s].vms[i].name \in Vm!Names /\ in_use'[sess'[s].vms[i].name]
    BY DEF Listed, Vm!Names
  <2>1. PICK k \in DOMAIN sess[s].vms : sess'[s].vms[i].name = sess[s].vms[k].name
    BY <1>1
  <2>2. sess[s].vms[k].name \in Vm!Names /\ in_use[sess[s].vms[k].name]
    BY DEF NameInv, Listed
  <2> QED
    BY <2>1, <2>2
<1>3. Apart'
  <2> SUFFICES ASSUME NEW s \in Sids, NEW u \in Sids, NEW i \in DOMAIN sess'[s].vms,
                      NEW j \in DOMAIN sess'[u].vms,
                      sess'[s].vms[i].name = sess'[u].vms[j].name
               PROVE  s = u /\ i = j
    BY DEF Apart
  <2>1. PICK f \in [DOMAIN sess'[s].vms -> DOMAIN sess[s].vms] :
          /\ \A k, l \in DOMAIN sess'[s].vms : f[k] = f[l] => k = l
          /\ \A k \in DOMAIN sess'[s].vms : sess'[s].vms[k].name = sess[s].vms[f[k]].name
    BY DEF Sub
  <2>2. PICK k \in DOMAIN sess[u].vms : sess'[u].vms[j].name = sess[u].vms[k].name
    BY <1>1
  <2>3. f[i] \in DOMAIN sess[s].vms /\ sess[s].vms[f[i]].name = sess[u].vms[k].name
    BY <2>1, <2>2
  <2>4. s = u
    BY <2>3 DEF NameInv, Apart
  <2>5. f[j] \in DOMAIN sess[s].vms /\ sess[s].vms[f[i]].name = sess[s].vms[f[j]].name
    BY <2>1, <2>4
  <2>6. f[i] = f[j]
    BY <2>3, <2>5 DEF NameInv, Apart
  <2> QED
    BY <2>1, <2>4, <2>6
<1>4. ASSUME NEW d \in Vms, req'[d].pc = "link"
      PROVE  Linking(d)'
  <2>1. d # c /\ req'[d] = req[d] /\ Linking(d) /\ req[d].pc = "link"
    BY <1>4 DEF NameInv
  <2>2. /\ req[d].vm.name \in Vm!Names /\ in_use'[req[d].vm.name] /\ Unlisted(req[d].vm.name)
        /\ \A e \in Vms \ {d} : req[e].pc = "link" => req[e].vm.name # req[d].vm.name
    BY <2>1 DEF Linking
  <2>3. \A s \in Sids : \A i \in DOMAIN sess'[s].vms : sess'[s].vms[i].name # req[d].vm.name
    BY <1>1, <2>2 DEF Unlisted
  <2>4. \A e \in Vms \ {d} : req'[e].pc = "link" => req'[e].vm.name # req'[d].vm.name
    BY <2>1, <2>2
  <2> QED
    BY <2>1, <2>2, <2>3, <2>4 DEF Linking, Unlisted, Vm!Names
<1> QED
  BY <1>2, <1>3, <1>4 DEF NameInv, Linking

LEMMA NamesSame ==
  ASSUME NEW c \in Vms, NameInv, UNCHANGED <<sess, in_use>>, Marks',
         req' \in [Vms -> ReqRecs], \A d \in Vms \ {c} : req'[d] = req[d],
         req'[c].pc \notin {"link", "clear"},
         req'[c].pc \in {"startVM", "script"} =>
           Runs(sess[req'[c].sptr].vms, c, req'[c].vm.name)
  PROVE  NameInv'
<1>1. \A s \in Sids : Sub(sess'[s].vms, sess[s].vms)
  BY SubSelf
<1>2. \A d \in Vms : Running(d)'
  BY DEF NameInv, Running, Runs
<1>3. \A d \in Vms \ {c} : req[d].pc = "link" => in_use'[req[d].vm.name]
  BY DEF NameInv, Linking
<1> QED
  BY <1>1, <1>2, <1>3, NamesKept

(* Steps that change one session.  Nobody else clears it.                   *)
LEMMA NamesSet ==
  ASSUME NEW c \in Vms, VmInv, NameInv, Marks',
         req' \in [Vms -> ReqRecs], \A d \in Vms \ {c} : req'[d] = req[d],
         req'[c].pc # "link", NEW s \in Sids, NEW x, Sets(s, x), Sub(x.vms, sess[s].vms),
         s = req[c].sptr \/ InList(s) \/ sess[s].exp = "none",
         \A d \in Vms \ {c} : req[d].sptr = s =>
           \A n : Runs(sess[s].vms, d, n) => Runs(x.vms, d, n),
         \A u \in Sids : \A i \in DOMAIN sess'[u].vms :
           in_use[sess'[u].vms[i].name] => in_use'[sess'[u].vms[i].name],
         \A d \in Vms \ {c} : req[d].pc = "link" => in_use'[req[d].vm.name],
         Running(c)'
  PROVE  NameInv'
<1>1. sess'[s] = x /\ \A u \in Sids \ {s} : sess'[u] = sess[u]
  BY DEF VmInv, VmTypes, Sets
<1>2. \A u \in Sids : Sub(sess'[u].vms, sess[u].vms)
  BY <1>1, SubSelf
<1>3. ASSUME NEW d \in Vms \ {c}
      PROVE  Running(d)'
  <2>1. /\ Running(d) /\ VmSound(d) /\ req'[d] = req[d]
        /\ req[d].pc \in Owning => req[d].sptr \in Sids
    BY ReqOf DEF NameInv
  <2>2. ASSUME req[d].pc \in {"startVM", "script"}
        PROVE  Runs(sess'[req[d].sptr].vms, d, req[d].vm.name)
    <3>1. Runs(sess[req[d].sptr].vms, d, req[d].vm.name) /\ req[d].sptr \in Sids
      BY <2>1, <2>2 DEF Running, Owning
    <3> QED
      BY <1>1, <3>1
  <2>3. ASSUME req[d].pc = "clear"
        PROVE  sess'[req[d].sptr].vms # <<>>
    <3>1. /\ sess[req[d].sptr].vms # <<>> /\ req[d].sptr \in Sids
          /\ req[c].sptr # req[d].sptr /\ ~InList(req[d].sptr)
          /\ sess[req[d].sptr].exp # "none"
      BY <2>1, <2>3, VmAssumption DEF Running, Owning, VmSound, Alone, Pointer
    <3> QED
      BY <1>1, <3>1
  <2> QED
    BY <2>1, <2>2, <2>3 DEF Running, Runs
<1> QED
  BY <1>2, <1>3, NamesKept

-----------------------------------------------------------------------------
LEMMA NamesMove ==
  ASSUME NEW c \in Vms, VmInv, NameInv, UNCHANGED <<in_use, defined>>,
         \/ VmReceive(c) \/ DoLook(c) \/ DoConfigure(c) \/ DoEnd(c) \/ DoRefresh(c)
         \/ DoRemoved(c) \/ (DoAdd(c) /\ Answers(c, req[c].sptr))
  PROVE  NameInv'
<1>1. Marks' /\ VmTypes
  BY DEF NameInv, Marks, VmInv, Vm!Names
<1>2. ASSUME UNCHANGED sess, NEW op, NEW s, NEW v,
             NEW pc \in {"push", "addVM", "delete", "drop"} \cup VmOps, Turns(c, op, pc, s, v)
      PROVE  NameInv'
  BY <1>1, <1>2, NamesSame DEF Turns, VmOps
<1>3. CASE VmReceive(c)
  <2>1. UNCHANGED sess
    BY <1>3 DEF VmReceive, Vm!Receive, Vp!B!Receive
  <2>2. Turns(c, req'[c].op, req'[c].op, "none", Vm!NoVm) /\ req'[c].op \in VmOps
    BY <1>3, StepReceive
  <2> QED
    BY <1>2, <2>1, <2>2
<1>4. CASE DoLook(c) \/ DoRefresh(c) \/ DoRemoved(c) \/ (DoAdd(c) /\ Answers(c, req[c].sptr))
  BY <1>2, <1>4 DEF DoLook, DoRefresh, DoRemoved, DoAdd, Moves2, Answers
<1>5. CASE DoEnd(c)
  <2>1. CASE UNCHANGED req
    <3>1. UNCHANGED sess
      BY <1>5 DEF DoEnd
    <3> QED
      BY <1>1, <2>1, <3>1 DEF NameInv, Listed, Apart, Linking, Unlisted, Running, Runs, Vm!Names
  <2>2. ASSUME NEW s \in Sids, NEW k \in DOMAIN sess[s].vms, sess[s].vms[k].comp = c,
               Moves2(c, "startVM", s, sess[s].vms[k])
        PROVE  NameInv'
    <3>1. Runs(sess[s].vms, c, sess[s].vms[k].name)
      BY <2>2 DEF Runs
    <3>2. UNCHANGED sess
      BY <1>5 DEF DoEnd
    <3>3. Turns(c, req[c].op, "startVM", s, sess[s].vms[k])
      BY <2>2 DEF Moves2
    <3> QED
      BY <1>1, <3>1, <3>2, <3>3, NamesSame DEF Turns
  <2> QED
    BY <1>5, <2>1, <2>2 DEF DoEnd
<1>6. CASE DoConfigure(c)
  <2>1. ASSUME UNCHANGED sess, NEW s, Answers(c, s)
        PROVE  NameInv'
    BY <1>2, <2>1 DEF Answers
  <2>2. ASSUME NEW i \in DOMAIN active, Answers(c, active[i]), NEW q \in Seq(VmRecs),
               SetsVms(active[i], q), DOMAIN q = DOMAIN sess[active[i]].vms,
               \A k \in DOMAIN q : /\ q[k].comp = sess[active[i]].vms[k].comp
                                   /\ q[k].name = sess[active[i]].vms[k].name
        PROVE  NameInv'
    <3> DEFINE s == active[i]
               x == [sess[s] EXCEPT !.vms = q]
    <3>1. s \in Sids /\ InList(s) /\ Sets(s, x)
      BY <1>1, <2>2 DEF VmTypes, InList, SetsVms
    <3>2. x.vms = q
      BY <1>1, <3>1, SessOf DEF SessRecs
    <3>3. Sub(q, sess[s].vms)
      <4> DEFINE f == [k \in DOMAIN q |-> k]
      <4>1. f \in [DOMAIN q -> DOMAIN sess[s].vms] /\ \A k \in DOMAIN q : f[k] = k
        BY <2>2
      <4> HIDE DEF f
      <4>2. /\ \A k, l \in DOMAIN q : f[k] = f[l] => k = l
            /\ \A k \in DOMAIN q : q[k].name = sess[s].vms[f[k]].name
        BY <2>2, <4>1
      <4> QED
        BY <4>1, <4>2 DEF Sub
    <3>4. \A d, n : Runs(sess[s].vms, d, n) => Runs(q, d, n)
      BY <2>2 DEF Runs
    <3> HIDE DEF x
    <3>5. /\ req' \in [Vms -> ReqRecs] /\ (\A d \in Vms \ {c} : req'[d] = req[d])
          /\ req'[c].pc = "drop"
      BY <2>2 DEF Answers, Turns
    <3>6. \A d \in Vms \ {c} : req[d].pc = "link" => in_use'[req[d].vm.name]
      BY DEF NameInv, Linking
    <3>7. Running(c)'
      BY <3>5 DEF Running
    <3> QED
      BY <1>1, <3>1, <3>2, <3>3, <3>4, <3>5, <3>6, <3>7, NamesSet
  <2> QED
    BY <1>6, <2>1, <2>2 DEF DoConfigure
<1> QED
  BY <1>3, <1>4, <1>5, <1>6

LEMMA NamesVlans ==
  ASSUME NEW c \in Vms, VmInv, NameInv, UNCHANGED <<in_use, defined>>, NEW pc, NEW op, NEW v,
         req[c].sptr \in Sids, SetsVlans(req[c].sptr), Turns(c, op, pc, req[c].sptr, v),
         pc # "link", pc = "clear" => sess[req[c].sptr].vms # <<>>,
         pc \in {"startVM", "script"} => Runs(sess[req[c].sptr].vms, c, v.name)
  PROVE  NameInv'
<1> DEFINE s == req[c].sptr
<1>1. Marks' /\ VmTypes
  BY DEF NameInv, Marks, VmInv, Vm!Names
<1>2. PICK l \in SUBSET ({VlanOf[d] : d \in Vms} \X Nat) : Sets(s, [sess[s] EXCEPT !.vlans = l])
  BY DEF SetsVlans
<1> DEFINE x == [sess[s] EXCEPT !.vlans = l]
<1>3. x.vms = sess[s].vms
  BY <1>1, SessOf DEF SessRecs
<1> HIDE DEF x
<1>4. sess'[s].vms = sess[s].vms
  BY <1>1, <1>2, <1>3 DEF Sets, VmTypes, x
<1>5. Running(c)'
  BY <1>4 DEF Running, Turns, Runs
<1>6. \A d \in Vms \ {c} : req[d].pc = "link" => in_use'[req[d].vm.name]
  BY DEF NameInv, Linking
<1> QED
  BY <1>1, <1>2, <1>3, <1>5, <1>6, SubSelf, NamesSet DEF Turns, x

LEMMA NamesEmptied ==
  ASSUME NEW c \in Vms, VmInv, NameInv, UNCHANGED <<in_use, defined>>, NEW pc, NEW op, NEW u,
         NEW v, Turns(c, op, pc, u, v), pc \notin {"link", "startVM", "script", "clear"},
         NEW s \in Sids, NEW x, Sets(s, x), x.vms = <<>>,
         \A d \in Vms \ {c} : req[d].sptr # s,
         s = req[c].sptr \/ sess[s].exp = "none"
  PROVE  NameInv'
<1>1. Marks' /\ VmTypes
  BY DEF NameInv, Marks, VmInv, Vm!Names
<1>2. sess[s].vms \in Seq(VmRecs)
  BY <1>1, SessOf
<1>3. Sub(x.vms, sess[s].vms)
  <2>1. /\ DOMAIN x.vms \subseteq Nat /\ DOMAIN sess[s].vms \subseteq Nat
        /\ \A i \in DOMAIN x.vms :
             i + 0 \in DOMAIN sess[s].vms /\ x.vms[i] = sess[s].vms[i + 0]
    BY <1>2
  <2> QED
    BY <2>1, SubShift
<1>4. Running(c)'
  BY DEF Running, Turns
<1>5. \A d \in Vms \ {c} : req[d].pc = "link" => in_use'[req[d].vm.name]
  BY DEF NameInv, Linking
<1> QED
  BY <1>1, <1>3, <1>4, <1>5, NamesSet DEF Turns

LEMMA NamesSessions ==
  ASSUME NEW c \in Vms, VmInv, NameInv, UNCHANGED <<in_use, defined>>,
         DoPush(c) \/ DoStart(c) \/ DoLock(c) \/ DoDrop(c)
  PROVE  NameInv'
<1>1. VmTypes /\ \A d \in Vms : VmSound(d)
  BY DEF VmInv
<1>2. CASE DoPush(c)
  <2>1. PICK s \in Sids : /\ sess[s].exp = "none"
                          /\ Sets(s, [exp |-> ExpOf[c], vms |-> <<>>, vlans |-> {}])
                          /\ Moves2(c, "addVM", s, req[c].vm)
    BY <1>2 DEF DoPush
  <2>2. \A d \in Vms \ {c} : req[d].sptr # s
    BY <1>1, <2>1, VmAssumption DEF VmSound, Pointer
  <2> QED
    BY <2>1, <2>2, NamesEmptied DEF Moves2
<1>3. CASE DoStart(c)
  <2>1. req[c].sptr \in Sids /\ Runs(sess[req[c].sptr].vms, c, req[c].vm.name)
    BY <1>3, ReqOf DEF DoStart, Owning, NameInv, Running
  <2>2. SetsVlans(req[c].sptr) /\ Turns(c, req[c].op, "script", req[c].sptr, req[c].vm)
    BY <1>3 DEF DoStart, Moves2
  <2> QED
    <3>1. "script" # "link" /\ "script" # "clear"
      OBVIOUS
    <3> QED
      BY <2>1, <2>2, <3>1, NamesVlans
<1>4. CASE DoLock(c)
  <2>1. req[c].sptr \in Sids
    BY <1>4, ReqOf DEF DoLock, Owning
  <2>2. ASSUME UNCHANGED sess, Turns(c, req[c].op, "removed", req[c].sptr, req[c].vm)
        PROVE  NameInv'
    <3>1. Marks'
      BY DEF NameInv, Marks, Vm!Names
    <3> QED
      BY <2>2, <3>1, NamesSame DEF Turns
  <2>3. ASSUME SetsVlans(req[c].sptr), Turns(c, req[c].op, "undefine", req[c].sptr, req[c].vm)
        PROVE  NameInv'
    <3>1. "undefine" \notin {"link", "clear", "startVM", "script"}
      OBVIOUS
    <3> QED
      BY <2>1, <2>3, <3>1, NamesVlans
  <2> QED
    BY <1>4, <2>2, <2>3 DEF DoLock, Moves2
<1>5. CASE DoDrop(c)
  <2>1. ASSUME UNCHANGED sess, Turns(c, "none", "idle", "none", Vm!NoVm)
        PROVE  NameInv'
    <3>1. Marks'
      BY DEF NameInv, Marks, Vm!Names
    <3> QED
      BY <2>1, <3>1, NamesSame DEF Turns
  <2>2. ASSUME Last(c), Turns(c, "none", "idle", "none", Vm!NoVm),
               Sets(req[c].sptr, [exp |-> "none", vms |-> <<>>, vlans |-> {}])
        PROVE  NameInv'
    BY <2>2, NamesEmptied DEF Last
  <2>3. ASSUME Last(c), sess[req[c].sptr].vms # <<>>, SetsVlans(req[c].sptr),
               Moves2(c, "clear", req[c].sptr, req[c].vm)
        PROVE  NameInv'
    BY <2>3, NamesVlans DEF Last, Moves2
  <2> QED
    BY <1>5, <2>1, <2>2, <2>3 DEF DoDrop
<1> QED
  BY <1>2, <1>3, <1>4, <1>5

-----------------------------------------------------------------------------
(* A name is given out.                                                     *)
LEMMA NamesAdd ==
  ASSUME NEW c \in Vms, VmInv, NameInv, Vm!addVM(c)
  PROVE  NameInv'
<1>1. VmTypes /\ req[c] \in ReqRecs /\ req \in [Vms -> ReqRecs] /\ Marks
        /\ req[c].sptr \in Sids \cup {"none"} /\ UNCHANGED <<sess, defined>>
  BY ReqOf DEF NameInv, Vm!addVM
<1>2. ASSUME NEW ok \in BOOLEAN, Vm!Answer(c, ok, req[c].sptr), UNCHANGED in_use
      PROVE  NameInv'
  <2>1. Answers(c, req[c].sptr) /\ Marks'
    BY <1>1, <1>2, Answered DEF Marks, Vm!Names
  <2> QED
    BY <1>1, <1>2, <2>1, NamesSame DEF Answers, Turns
<1>3. ASSUME Vm!FreeNames(c) # {},
             Vm!assignVM(Vm!Min(Vm!FreeNames(c))),
             NamedReq(c, Vm!Min(Vm!FreeNames(c)))
      PROVE  NameInv'
  <2> DEFINE n == Vm!Min(Vm!FreeNames(c))
  <2>1. Vm!FreeNames(c) = {m \in Vm!Names : ~in_use[m]} /\ Vm!Names \subseteq Nat
    BY VmAssumption DEF Vm!FreeNames, Vm!Names
  <2>2. n \in Vm!FreeNames(c)
    BY <1>3, <2>1, Least
  <2>3. n \in Nat /\ n \in Vm!Names /\ ~in_use[n]
    BY <2>1, <2>2
  <2>4. in_use' = [in_use EXCEPT ![n] = TRUE]
    BY <1>3 DEF Vm!assignVM
  <2>5. PICK v \in VmRecs : v.name = n /\ Turns(c, req[c].op, "link", req[c].sptr, v)
    BY <1>1, <1>3, <2>3, Named
  <2> HIDE DEF n
  <2>6. Unlisted(n) /\ \A d \in Vms : req[d].pc = "link" => req[d].vm.name # n
    BY <2>3 DEF NameInv, Listed, Unlisted, Linking
  <2>7. Marks' /\ \A m \in Vm!Names : in_use[m] => in_use'[m]
    BY <1>1, <2>4 DEF Marks, Vm!Names
  <2>8. Listed' /\ Apart'
    BY <1>1, <2>7 DEF NameInv, Listed, Apart, Vm!Names
  <2>9. in_use'[n]
    BY <1>1, <2>3, <2>4 DEF Marks
  <2>10. ASSUME NEW d \in Vms
         PROVE  Linking(d)'
    <3>1. CASE d = c
      BY <1>1, <2>3, <2>5, <2>6, <2>9, <3>1 DEF Linking, Turns, Unlisted, Vm!Names
    <3>2. CASE d # c
      BY <1>1, <2>5, <2>6, <2>7, <3>2 DEF NameInv, Linking, Turns, Unlisted, Vm!Names
    <3> QED
      BY <3>1, <3>2
  <2>11. ASSUME NEW d \in Vms
         PROVE  Running(d)'
    BY <1>1, <2>5 DEF NameInv, Running, Runs, Turns
  <2> QED
    BY <2>7, <2>8, <2>10, <2>11 DEF NameInv
<1> QED
  BY <1>2, <1>3 DEF Vm!addVM, NamedReq

(* The VM enters its session's list, or is lost, and keeps its name.        *)
LEMMA NamesLink ==
  ASSUME NEW c \in Vms, VmInv, NameInv, DoLink(c), UNCHANGED <<in_use, defined>>
  PROVE  NameInv'
<1> DEFINE s == req[c].sptr
           p == sess[s].vms
           n == req[c].vm.name
           q == Append(p, req[c].vm)
<1>1. /\ VmTypes /\ s \in Sids /\ req[c].pc = "link" /\ Answers(c, s)
      /\ req[c].vm \in VmRecs /\ p \in Seq(VmRecs)
  BY ReqOf, SessOf DEF DoLink, Owning
<1>2. Marks'
  BY DEF NameInv, Marks, Vm!Names
<1>3. CASE UNCHANGED sess
  BY <1>1, <1>2, <1>3, NamesSame DEF Answers, Turns
<1>4. CASE SetsVms(s, q)
  <2>1. sess'[s].vms = q /\ \A u \in Sids \ {s} : sess'[u] = sess[u]
    <3> DEFINE x == [sess[s] EXCEPT !.vms = q]
    <3>1. Sets(s, x)
      BY <1>4 DEF SetsVms
    <3>2. x.vms = q
      BY <1>1, SessOf DEF SessRecs
    <3> HIDE DEF x
    <3> QED
      BY <1>1, <3>1, <3>2 DEF Sets, VmTypes
  <2>2. /\ DOMAIN q = DOMAIN p \cup {Len(p) + 1} /\ Len(p) + 1 \notin DOMAIN p
        /\ q[Len(p) + 1].name = n /\ \A i \in DOMAIN p : q[i] = p[i]
    <3> DEFINE v == req[c].vm
    <3> HIDE DEF p, v
    <3>1. q = Append(p, v) /\ v \in VmRecs /\ n = v.name
      BY <1>1 DEF v
    <3> HIDE DEF q, n
    <3>2. DOMAIN p = 1..Len(p) /\ Len(p) \in Nat /\ DOMAIN q = 1..(Len(p) + 1)
      BY <1>1, <3>1
    <3>3. q[Len(p) + 1] = v /\ \A i \in 1..Len(p) : q[i] = p[i]
      BY <1>1, <3>1
    <3> QED
      BY <3>1, <3>2, <3>3
  <2>3. /\ n \in Vm!Names /\ in_use[n] /\ Unlisted(n)
        /\ \A d \in Vms \ {c} : req[d].pc = "link" => req[d].vm.name # n
    BY <1>1 DEF NameInv, Linking
  <2> DEFINE Old(u, i) == i \in DOMAIN sess[u].vms /\ sess'[u].vms[i] = sess[u].vms[i]
             New(u, i) == u = s /\ i = Len(p) + 1 /\ sess'[u].vms[i].name = n
  <2>4. ASSUME NEW u \in Sids, NEW i \in DOMAIN sess'[u].vms
        PROVE  Old(u, i) \/ New(u, i)
    <3> HIDE DEF q
    <3> QED
      BY <2>1, <2>2, <2>4
  <2>5. \A u \in Sids : \A i \in DOMAIN sess[u].vms :
           i \in DOMAIN sess'[u].vms /\ sess'[u].vms[i] = sess[u].vms[i]
    <3> HIDE DEF q
    <3> QED
      BY <2>1, <2>2
  <2> HIDE DEF q
  <2>6. Listed'
    BY <2>3, <2>4 DEF NameInv, Listed, Vm!Names
  <2>7. Apart'
    <3> SUFFICES ASSUME NEW u \in Sids, NEW w \in Sids, NEW i \in DOMAIN sess'[u].vms,
                        NEW j \in DOMAIN sess'[w].vms,
                        sess'[u].vms[i].name = sess'[w].vms[j].name
                 PROVE  u = w /\ i = j
      BY DEF Apart
    <3>1. (Old(u, i) \/ New(u, i)) /\ (Old(w, j) \/ New(w, j))
      BY <2>4
    <3>2. CASE Old(u, i) /\ Old(w, j)
      BY <3>2 DEF NameInv, Apart
    <3>3. ~(Old(u, i) /\ New(w, j)) /\ ~(New(u, i) /\ Old(w, j))
      BY <2>3 DEF Unlisted
    <3> QED
      BY <3>1, <3>2, <3>3
  <2>8. ASSUME NEW d \in Vms, req'[d].pc = "link"
        PROVE  Linking(d)'
    <3>1. d # c /\ req'[d] = req[d] /\ Linking(d)
      BY <1>1, <2>8 DEF NameInv, Answers, Turns
    <3>2. /\ req[d].vm.name \in Vm!Names /\ in_use[req[d].vm.name]
          /\ Unlisted(req[d].vm.name) /\ req[d].vm.name # n
          /\ \A e \in Vms \ {d} : req[e].pc = "link" => req[e].vm.name # req[d].vm.name
      BY <2>3, <2>8, <3>1 DEF Linking
    <3>3. \A u \in Sids : \A i \in DOMAIN sess'[u].vms : sess'[u].vms[i].name # req[d].vm.name
      BY <2>4, <3>2 DEF Unlisted
    <3>4. \A e \in Vms \ {d} : req'[e].pc = "link" => req'[e].vm.name # req'[d].vm.name
      BY <1>1, <3>1, <3>2 DEF Answers, Turns
    <3> QED
      BY <3>1, <3>2, <3>3, <3>4 DEF Linking, Unlisted, Vm!Names
  <2>9. ASSUME NEW d \in Vms
        PROVE  Running(d)'
    <3>1. CASE d = c
      BY <1>1, <3>1 DEF Running, Answers, Turns
    <3>2. CASE d # c
      <4>1. /\ req'[d] = req[d] /\ Running(d)
            /\ req[d].pc \in Owning => req[d].sptr \in Sids
        BY <1>1, <3>2, ReqOf DEF NameInv, Answers, Turns
      <4>2. req[d].pc \in {"startVM", "script"} => Runs(sess'[req[d].sptr].vms, d, req[d].vm.name)
        BY <2>5, <4>1 DEF Running, Runs, Owning
      <4>3. req[d].pc = "clear" => req[d].sptr # s /\ req[d].sptr \in Sids
        BY <3>2, <4>1, ReqOf DEF VmSound, Alone, Owning
      <4> QED
        BY <2>1, <4>1, <4>2, <4>3 DEF Running, Runs
    <3> QED
      BY <3>1, <3>2
  <2> QED
    BY <1>2, <2>6, <2>7, <2>8, <2>9 DEF NameInv, Linking
<1> QED
  BY <1>3, <1>4 DEF DoLink

LEMMA NamesScript ==
  ASSUME NEW c \in Vms, VmInv, NameInv, Vm!startVM_script(c)
  PROVE  NameInv'
<1>1. /\ DoScript(c) /\ VmTypes /\ req[c].sptr \in Sids /\ UNCHANGED <<sess, in_use>>
      /\ defined' = defined \/ defined' = defined \cup {req[c].vm.name}
  BY ShapeScript, ReqOf DEF DoScript, Owning, Vm!startVM_script
<1>2. PICK k \in DOMAIN sess[req[c].sptr].vms :
        sess[req[c].sptr].vms[k].name = req[c].vm.name
  BY <1>1 DEF DoScript, NameInv, Running, Runs
<1>3. req[c].vm.name \in Vm!Names /\ in_use[req[c].vm.name]
  BY <1>1, <1>2 DEF NameInv, Listed
<1>4. Marks'
  BY <1>1, <1>3 DEF NameInv, Marks, Vm!Names
<1> QED
  BY <1>1, <1>4, NamesSame DEF DoScript, Answers, Turns

(* The k-th VM of the session leaves the list, and its name is released.    *)
Releases(c, s, p, k, q) ==
  /\ s \in Sids /\ s = req[c].sptr /\ p = sess[s].vms /\ k \in DOMAIN p
  /\ q \in Seq(VmRecs) /\ SetsVms(s, q) /\ Sub(q, p)
  /\ \A i \in DOMAIN q : \E m \in DOMAIN p : m # k /\ q[i] = p[m]
  /\ in_use' = [in_use EXCEPT ![p[k].name] = FALSE]
  /\ defined' = defined \ {p[k].name}
  /\ req' \in [Vms -> ReqRecs] /\ req'[c].pc \in {"removed", "drop"}
  /\ \A d \in Vms \ {c} :
       /\ req'[d] = req[d]
       /\ req[d].sptr = s => \A n : Runs(p, d, n) => Runs(q, d, n)

LEMMA NamesRelease ==
  ASSUME NEW c \in Vms, VmInv, NameInv, NEW s, NEW p, NEW k, NEW q, Releases(c, s, p, k, q)
  PROVE  NameInv'
<1> USE DEF Releases
<1> DEFINE n == p[k].name
           x == [sess[s] EXCEPT !.vms = q]
<1>1. VmTypes /\ Marks /\ Listed /\ Apart /\ s \in Sids
  BY DEF NameInv, VmInv
<1>2. Sets(s, x) /\ x.vms = q
  BY <1>1, SessOf DEF SetsVms, SessRecs
<1> HIDE DEF x
<1>3. sess'[s].vms = q /\ \A u \in Sids \ {s} : sess'[u] = sess[u]
  BY <1>1, <1>2 DEF Sets, VmTypes
<1>4. n \in Vm!Names /\ in_use[n]
  BY <1>1 DEF Listed
<1>5. \A m \in Vm!Names \ {n} : in_use'[m] = in_use[m]
  BY <1>1 DEF Marks
<1>6. Marks'
  BY <1>1, <1>4 DEF Marks, Vm!Names
<1>7. ASSUME NEW u \in Sids, NEW i \in DOMAIN sess'[u].vms
      PROVE  in_use[sess'[u].vms[i].name] => in_use'[sess'[u].vms[i].name]
  <2>1. \E m \in DOMAIN sess[u].vms : sess'[u].vms[i] = sess[u].vms[m] /\ (u = s => m # k)
    BY <1>3
  <2>2. PICK m \in DOMAIN sess[u].vms : sess'[u].vms[i] = sess[u].vms[m] /\ (u = s => m # k)
    BY <2>1
  <2>3. sess[u].vms[m].name # n /\ sess[u].vms[m].name \in Vm!Names
    BY <1>1, <2>2 DEF Apart, Listed
  <2> QED
    BY <1>5, <2>2, <2>3
<1>8. ASSUME NEW d \in Vms \ {c}, req[d].pc = "link"
      PROVE  in_use'[req[d].vm.name]
  <2>1. /\ req[d].vm.name \in Vm!Names /\ in_use[req[d].vm.name] /\ Unlisted(req[d].vm.name)
    BY <1>8 DEF NameInv, Linking
  <2>2. req[d].vm.name # n
    BY <1>1, <2>1 DEF Unlisted
  <2> QED
    BY <1>5, <2>1, <2>2
<1>9. Running(c)'
  BY DEF Running
<1>10. req'[c].pc # "link"
  OBVIOUS
<1>11. \A d \in Vms \ {c} : req[d].sptr = s => \A m : Runs(p, d, m) => Runs(x.vms, d, m)
  BY <1>2
<1>12. Sub(x.vms, p)
  BY <1>2
<1> QED
  BY <1>1, <1>2, <1>6, <1>7, <1>8, <1>9, <1>10, <1>11, <1>12, NamesSet

(* Steps that take the name from virsh only.                                *)
LEMMA NamesUndefined ==
  ASSUME NEW c \in Vms, NameInv, UNCHANGED in_use, NEW n, defined' = defined \ {n}
  PROVE  Marks'
BY DEF NameInv, Marks, Vm!Names

LEMMA NamesUndefine ==
  ASSUME NEW c \in Vms, VmInv, NameInv, Vm!deleteVM_undefine(c)
  PROVE  NameInv'
<1> DEFINE s == req[c].sptr
           p == sess[s].vms
           v == Vm!getVM(s, c)
           q == Vm!RemoveFirst(p, v)
<1>1. /\ VmTypes /\ Marks /\ Apart /\ s \in Sids /\ DoUndefine(c) /\ p \in Seq(VmRecs)
  BY ReqOf, SessOf, ShapeUndefine DEF NameInv, DoUndefine, Owning
<1>2. Turns(c, req[c].op, "removed", s, req[c].vm)
  BY <1>1 DEF DoUndefine, Moves2
<1>3. /\ v # Vm!NoVm => \E k \in DOMAIN p : p[k] = v /\ v.comp = c
      /\ Vm!NoVm.name \notin Vm!Names
  <2>1. v # Vm!NoVm => \E k \in DOMAIN p : p[k] = v /\ v.comp = c
    BY <1>1, LookupVm
  <2>2. Vm!NoVm.name \notin Vm!Names
    BY VmAssumption DEF Vm!NoVm, Vm!Names
  <2> QED
    BY <2>1, <2>2
<1>4. \/ sess' = sess /\ UNCHANGED in_use /\ defined' = defined \ {v.name}
      \/ /\ v.name \in defined
         /\ sess' = [sess EXCEPT ![s] = [sess[s] EXCEPT !.vms = q]]
         /\ in_use' = [in_use EXCEPT ![v.name] = FALSE]
         /\ defined' = defined \ {v.name}
  BY DEF Vm!deleteVM_undefine, Vm!CanSucceed, Vm!releaseVMname
<1> HIDE DEF v
<1>5. /\ q \in Seq(VmRecs) /\ Without(p, v, q)
      /\ (\A i \in DOMAIN q : q[i] # v) \/ \E i, j \in DOMAIN p : i # j /\ p[i] = v /\ p[j] = v
  BY <1>1, Removed
<1> HIDE DEF q
<1>6. CASE sess' = sess /\ UNCHANGED in_use /\ defined' = defined \ {v.name}
  BY <1>2, <1>6, NamesSame, NamesUndefined DEF Turns
<1>7. ASSUME v.name \in defined,
             sess' = [sess EXCEPT ![s] = [sess[s] EXCEPT !.vms = q]],
             in_use' = [in_use EXCEPT ![v.name] = FALSE],
             defined' = defined \ {v.name}
      PROVE  NameInv'
  <2>1. v # Vm!NoVm
    BY <1>1, <1>3, <1>7 DEF Marks
  <2>2. PICK k \in DOMAIN p : p[k] = v /\ v.comp = c
    BY <1>3, <2>1
  <2>3. \A m \in DOMAIN p : p[m].name = v.name => m = k
    BY <1>1, <2>2 DEF Apart
  <2>4. \A i \in DOMAIN q : q[i] # v
    BY <1>5, <2>2, <2>3
  <2>5. SetsVms(s, q)
    BY <1>1, <1>5, <1>7, SessOf DEF SetsVms, Sets
  <2>6. Sub(q, p)
    BY <1>1, <1>5, SubWithout
  <2>7. ASSUME NEW i \in DOMAIN q
        PROVE  \E m \in DOMAIN p : m # k /\ q[i] = p[m]
    <3>1. \E m \in DOMAIN p : q[i] = p[m]
      <4>1. CASE q = p
        BY <4>1
      <4>2. ASSUME NEW h \in DOMAIN p, Len(q) = Len(p) - 1,
                   \A j \in DOMAIN q : q[j] = IF j < h THEN p[j] ELSE p[j + 1]
            PROVE  \E m \in DOMAIN p : q[i] = p[m]
        <5>1. /\ DOMAIN p = 1..Len(p) /\ Len(p) \in Nat /\ DOMAIN q = 1..(Len(p) - 1)
          BY <1>1, <1>5, <4>2
        <5>2. i \in DOMAIN p /\ i + 1 \in DOMAIN p
          BY <5>1
        <5>3. q[i] = p[i] \/ q[i] = p[i + 1]
          BY <4>2
        <5> QED
          BY <5>2, <5>3
      <4> QED
        BY <1>5, <4>1, <4>2 DEF Without
    <3> QED
      BY <2>2, <2>4, <3>1
  <2>8. ASSUME NEW d \in Vms \ {c}, NEW n, Runs(p, d, n)
        PROVE  Runs(q, d, n)
    <3>1. PICK i \in DOMAIN p : p[i].comp = d /\ p[i].name = n
      BY <2>8 DEF Runs
    <3>2. p[i] # v
      BY <2>2, <3>1
    <3>3. \E j \in DOMAIN q : q[j] = p[i]
      BY <1>1, <1>5, <3>2, OthersStay
    <3> QED
      BY <3>1, <3>3 DEF Runs
  <2>9. /\ in_use' = [in_use EXCEPT ![p[k].name] = FALSE]
        /\ defined' = defined \ {p[k].name}
    BY <1>7, <2>2
  <2>10. s = req[c].sptr /\ p = sess[s].vms
    OBVIOUS
  <2>11. /\ req' \in [Vms -> ReqRecs] /\ (\A d \in Vms \ {c} : req'[d] = req[d])
         /\ req'[c].pc \in {"removed", "drop"}
    BY <1>2 DEF Turns
  <2>12. s \in Sids /\ q \in Seq(VmRecs)
    BY <1>1, <1>5
  <2>13. \A d \in Vms \ {c} : req[d].sptr = s => \A n : Runs(p, d, n) => Runs(q, d, n)
    BY <2>8
  <2> HIDE DEF p, s
  <2> QED
    <3>1. Releases(c, s, p, k, q)
      BY <2>2, <2>5, <2>6, <2>7, <2>9, <2>10, <2>11, <2>12, <2>13 DEF Releases
    <3> QED
      BY <3>1, NamesRelease
<1> QED
  BY <1>4, <1>6, <1>7

LEMMA NamesClear ==
  ASSUME NEW c \in Vms, VmInv, NameInv, Vm!clear(c)
  PROVE  NameInv'
<1> DEFINE s == req[c].sptr
           p == sess[s].vms
           v == Head(p)
           Tail2(m) == SubSeq(p, m, Len(p))
<1>1. /\ VmTypes /\ Marks /\ Apart /\ s \in Sids /\ DoClear(c) /\ p \in Seq(VmRecs)
      /\ req[c].pc = "clear"
  BY ReqOf, SessOf, ShapeClear DEF NameInv, DoClear, Owning
<1>2. Turns(c, req[c].op, "drop", s, req[c].vm)
  BY <1>1 DEF DoClear, Moves2
<1>3. p # <<>>
  BY <1>1 DEF NameInv, Running
<1>4. 1 \in DOMAIN p /\ v = p[1] /\ Len(p) \in Nat /\ DOMAIN p = 1..Len(p)
  BY <1>1, <1>3
<1>5. \A d \in Vms \ {c} : req[d].sptr # s
  BY <1>1 DEF VmInv, VmSound, Alone
<1>6. \/ /\ UNCHANGED in_use /\ defined' = defined \ {v.name}
         /\ sess' = [sess EXCEPT ![s] = [sess[s] EXCEPT !.vms = Tail2(2)]]
      \/ /\ in_use' = [in_use EXCEPT ![v.name] = FALSE] /\ defined' = defined \ {v.name}
         /\ \E q \in {<<>>, Tail2(3)} : sess' = [sess EXCEPT ![s] = [sess[s] EXCEPT !.vms = q]]
  BY DEF Vm!clear, Vm!releaseVMname
<1>7. /\ Tail2(2) \in Seq(VmRecs) /\ DOMAIN Tail2(2) \subseteq Nat
      /\ \A i \in DOMAIN Tail2(2) : i + 1 \in DOMAIN p /\ Tail2(2)[i] = p[i + 1]
  BY <1>1, <1>4
<1>8. /\ Tail2(3) \in Seq(VmRecs) /\ DOMAIN Tail2(3) \subseteq Nat
      /\ \A i \in DOMAIN Tail2(3) : i + 2 \in DOMAIN p /\ Tail2(3)[i] = p[i + 2]
  BY <1>1, <1>4
<1>9. DOMAIN p \subseteq Nat
  BY <1>4
<1> HIDE DEF Tail2, v
<1>10. ASSUME UNCHANGED in_use, defined' = defined \ {v.name},
              sess' = [sess EXCEPT ![s] = [sess[s] EXCEPT !.vms = Tail2(2)]]
       PROVE  NameInv'
  <2> DEFINE x == [sess[s] EXCEPT !.vms = Tail2(2)]
  <2>1. Sets(s, x) /\ x.vms = Tail2(2)
    BY <1>1, <1>7, <1>10, SessOf DEF Sets, SessRecs
  <2> HIDE DEF x
  <2>2. Sub(x.vms, p)
    BY <1>7, <1>9, <2>1, SubShift
  <2>3. Marks'
    BY <1>10, NamesUndefined
  <2>4. Running(c)'
    BY <1>2 DEF Running, Turns
  <2>5. \A d \in Vms \ {c} : req[d].pc = "link" => in_use'[req[d].vm.name]
    BY <1>10 DEF NameInv, Linking
  <2> HIDE DEF p
  <2> QED
    BY <1>1, <1>2, <1>5, <1>10, <2>1, <2>2, <2>3, <2>4, <2>5, NamesSet DEF Turns, p
<1>11. ASSUME in_use' = [in_use EXCEPT ![v.name] = FALSE], defined' = defined \ {v.name},
              NEW q \in {<<>>, Tail2(3)},
              sess' = [sess EXCEPT ![s] = [sess[s] EXCEPT !.vms = q]]
       PROVE  NameInv'
  <2>1. /\ q \in Seq(VmRecs) /\ DOMAIN q \subseteq Nat
        /\ \A i \in DOMAIN q : i + 2 \in DOMAIN p /\ q[i] = p[i + 2]
    <3> HIDE DEF p
    <3>1. CASE q = <<>>
      <4>1. q \in Seq(VmRecs) /\ DOMAIN q = {}
        BY <3>1
      <4> QED
        BY <4>1
    <3>2. CASE q = Tail2(3)
      BY <1>8, <3>2
    <3> QED
      BY <1>11, <3>1, <3>2
  <2>2. Sub(q, p)
    <3> HIDE DEF p
    <3>1. 2 \in Nat
      OBVIOUS
    <3> QED
      BY <1>9, <2>1, <3>1, SubShift
  <2>3. SetsVms(s, q)
    BY <1>1, <1>11, <2>1, SessOf DEF SetsVms, Sets
  <2>4. \A i \in DOMAIN q : \E m \in DOMAIN p : m # 1 /\ q[i] = p[m]
    BY <2>1
  <2>5. /\ in_use' = [in_use EXCEPT ![p[1].name] = FALSE]
        /\ defined' = defined \ {p[1].name}
    BY <1>4, <1>11
  <2>6. \A d \in Vms \ {c} : req[d].sptr = s => \A n : Runs(p, d, n) => Runs(q, d, n)
    BY <1>5
  <2>7. s = req[c].sptr /\ p = sess[s].vms /\ s \in Sids /\ 1 \in DOMAIN p
    BY <1>1, <1>4
  <2>8. /\ req' \in [Vms -> ReqRecs] /\ (\A d \in Vms \ {c} : req'[d] = req[d])
        /\ req'[c].pc \in {"removed", "drop"}
    BY <1>2 DEF Turns
  <2> HIDE DEF p, s
  <2> QED
    <3>1. Releases(c, s, p, 1, q)
      BY <2>1, <2>2, <2>3, <2>4, <2>5, <2>6, <2>7, <2>8 DEF Releases
    <3> QED
      BY <3>1, NamesRelease
<1> QED
  BY <1>6, <1>10, <1>11


LEMMA NamesSteps ==
  ASSUME NEW c \in Vms, VmInv, NameInv, Vm!Step(c)
  PROVE  NameInv'
<1>1. CASE \/ Vm!addSession_look(c) \/ Vm!configureVM(c) \/ Vm!end_configure_node_req(c)
           \/ Vm!deleteVM_look(c) \/ Vm!deleteVM_done(c)
  <2>1. UNCHANGED <<in_use, defined>>
    BY <1>1 DEF Vm!addSession_look, Vm!configureVM, Vm!end_configure_node_req,
                Vm!deleteVM_look, Vm!deleteVM_done
  <2>2. DoLook(c) \/ DoConfigure(c) \/ DoEnd(c) \/ DoRefresh(c) \/ DoRemoved(c)
    BY <1>1, ShapeLook, ShapeConfigure, ShapeEnd, ShapeRefresh, ShapeRemoved
  <2> QED
    BY <2>1, <2>2, NamesMove
<1>2. CASE Vm!addSession_push(c) \/ Vm!startVM(c) \/ Vm!deleteVM_lock(c) \/ Vm!drop(c)
  <2>1. UNCHANGED <<in_use, defined>>
    BY <1>2 DEF Vm!addSession_push, Vm!startVM, Vm!deleteVM_lock, Vm!drop
  <2>2. DoPush(c) \/ DoStart(c) \/ DoLock(c) \/ DoDrop(c)
    BY <1>2, ShapePush, ShapeStart, ShapeLock, ShapeDrop
  <2> QED
    BY <2>1, <2>2, NamesSessions
<1>3. CASE Vm!addVM_link(c)
  <2>1. UNCHANGED <<in_use, defined>>
    BY <1>3 DEF Vm!addVM_link
  <2> QED
    BY <1>3, <2>1, ShapeLink, NamesLink
<1>4. CASE Vm!addVM(c) \/ Vm!startVM_script(c) \/ Vm!deleteVM_undefine(c) \/ Vm!clear(c)
  BY <1>4, NamesAdd, NamesScript, NamesUndefine, NamesClear
<1> QED
  BY <1>1, <1>2, <1>3, <1>4 DEF Vm!Step

-----------------------------------------------------------------------------
NamesInv == SessionsInv /\ (kind = "vm" => NameInv)

LEMMA NamesInit == MCInit => NamesInv
<1> SUFFICES ASSUME MCInit, kind = "vm"
             PROVE  NameInv
  BY SessionsInit DEF NamesInv
<1>1. Vm!Init
  BY DEF MCInit
<1>2. /\ in_use = [n \in Vm!Names |-> FALSE] /\ defined = {}
      /\ \A s \in Sids : sess[s].vms = <<>>
      /\ \A c \in Vms : req[c].pc = "idle"
  BY <1>1 DEF Vm!Init, Vm!NoSess, Vm!Idle
<1>3. \A s \in Sids : DOMAIN sess[s].vms = {}
  BY <1>2
<1> QED
  BY <1>2, <1>3 DEF NameInv, Marks, Listed, Apart, Linking, Running

LEMMA NamesNext == NamesInv /\ [MCNext]_mcVars => NamesInv'
<1> SUFFICES ASSUME NamesInv, [MCNext]_mcVars, kind' = "vm"
             PROVE  NameInv'
  BY SessionsNext DEF NamesInv
<1>1. kind' = kind /\ kind = "vm" /\ VmInv /\ NameInv
  <2>1. kind' = kind
    BY DEF MCNext, ConnNext, VmNext, HostNext, CcnxNext, NmdNext, mcVars
  <2> QED
    BY <2>1 DEF NamesInv, SessionsInv
<1>2. CASE ConnNext \/ HostNext \/ CcnxNext \/ NmdNext \/ UNCHANGED mcVars
  <2>1. UNCHANGED <<in_use, defined, sess, req>>
    BY <1>2 DEF ConnNext, HostNext, CcnxNext, NmdNext, mcVars, vmVars
  <2> QED
    BY <1>1, <2>1 DEF NameInv, Marks, Listed, Apart, Linking, Unlisted, Running, Runs, Vm!Names
<1>3. CASE VmNext
  <2>1. PICK c \in Vms : Vm!Request(c) \/ Vm!Step(c)
    <3>1. kind # "vpn"
      BY <1>1
    <3> QED
      BY <1>3, <3>1 DEF VmNext
  <2>2. CASE Vm!Request(c)
    <3>1. VmReceive(c) /\ UNCHANGED <<in_use, defined>>
      BY <2>2 DEF Vm!Request, VmReceive, VmOps, Vm!Receive
    <3> QED
      BY <1>1, <3>1, NamesMove
  <2>3. CASE Vm!Step(c)
    BY <1>1, <2>3, NamesSteps
  <2> QED
    BY <2>1, <2>2, <2>3
<1> QED
  BY <1>2, <1>3 DEF MCNext

(* A VM that some thread or list holds has a name that is marked, and a VM  *)
(* in a list that it shares its name with is itself.                        *)
LEMMA OneName ==
  ASSUME VmInv, NameInv
  PROVE  Vm!OneVmPerName
<1> DEFINE Lists(v) == \E s \in Sids : \E i \in DOMAIN sess[s].vms :
                         v = <<sess[s].vms[i].comp, sess[s].vms[i].name>>
           Links(v) == \E c \in Vms : req[c].pc = "link" /\ v = <<c, req[c].vm.name>>
<1>1. ASSUME NEW v \in Vm!Held
      PROVE  Lists(v) \/ Links(v)
  <2>1. CASE \E s \in Sids : v \in {<<sess[s].vms[i].comp, sess[s].vms[i].name>> :
                                      i \in DOMAIN sess[s].vms}
    BY <2>1
  <2>2. ASSUME NEW c \in Vms, req[c].pc \in {"link", "startVM", "script"},
               v = <<c, req[c].vm.name>>
        PROVE  Lists(v) \/ Links(v)
    <3>1. CASE req[c].pc = "link"
      BY <2>2, <3>1
    <3>2. CASE req[c].pc # "link"
      <4>1. Runs(sess[req[c].sptr].vms, c, req[c].vm.name)
        BY <2>2, <3>2 DEF NameInv, Running
      <4>2. req[c].sptr \in Sids
        BY <2>2, <3>2, ReqOf DEF Owning
      <4> QED
        BY <2>2, <4>1, <4>2 DEF Runs
    <3> QED
      BY <3>1, <3>2
  <2> QED
    BY <2>1, <2>2 DEF Vm!Held
<1>2. ASSUME NEW v \in Vm!Held, NEW w \in Vm!Held, v[2] = w[2]
      PROVE  v = w
  <2>1. (Lists(v) \/ Links(v)) /\ (Lists(w) \/ Links(w))
    BY <1>1
  <2>2. CASE Lists(v) /\ Lists(w)
    BY <1>2, <2>2 DEF NameInv, Apart
  <2>3. ~(Lists(v) /\ Links(w)) /\ ~(Links(v) /\ Lists(w))
    BY <1>2 DEF NameInv, Linking, Unlisted
  <2>4. CASE Links(v) /\ Links(w)
    BY <1>2, <2>4 DEF NameInv, Linking
  <2> QED
    BY <2>1, <2>2, <2>3, <2>4
<1> QED
  BY <1>2 DEF Vm!OneVmPerName

(* No two VMs have the same name and a VM that virsh knows keeps its name:  *)
(* assignVM gives out names that are free, and releaseVMname frees the name *)
(* of a VM only with its last entry, after the undefine script; the races   *)
(* of the requests lose VMs, never names.                                   *)
THEOREM NamesApartCorrect == MCSpec => []NamesApart
<1>1. NamesInv => NamesApart
  BY OneName DEF NamesInv, SessionsInv, NamesApart, NameInv, Marks, Vm!RunningNameTaken
<1> QED
  BY <1>1, NamesInit, NamesNext, PTL DEF MCSpec
=============================================================================
