---------------------------- MODULE NccpConnection ----------------------------
(***************************************************************************)
(* Connections and the listener (src/shared/nccp_connection.cc), with the  *)
(* message objects that count as users of a connection (message.cc).  A    *)
(* connection has a receiver thread, which starts a thread for each        *)
(* message.  Accepted connections are deleted by the listener; a           *)
(* connection a daemon made (the crd's to its nodes) is deleted by its     *)
(* owner or by its receiver thread, whichever finishes last.               *)
(***************************************************************************)
EXTENDS Naturals, FiniteSets

CONSTANTS Accepted,  \* connections the listener accepts
          Clients,   \* connections a daemon makes
          MsgThreads \* threads for messages

VARIABLES obj,       \* "none", "live" or "freed": the connection object
          closed, finished, count,   \* its fields; count: message_count
          listed,    \* the listener's list
          lis,       \* the listener's thread
          rcv,       \* the receiver thread of each connection
          held,      \* a client's owner holds its pointer
          asked,     \* the owner has a request out on the connection
          thr        \* the message threads

vars == <<obj, closed, finished, count, listed, lis, rcv, held, asked, thr>>

Conns == Accepted \cup Clients
None == "none"

ASSUME ConnAssumption ==
  /\ Accepted \cap Clients = {}
  /\ None \notin Conns
  /\ IsFiniteSet(MsgThreads)

Kinds == {"request", "periodic", "response", "stop", "unknown"}
Free == [pc |-> "free", conn |-> None, kind |-> "unknown", stop |-> FALSE]

Init ==
  /\ obj = [c \in Conns |-> "none"]
  /\ closed = [c \in Conns |-> FALSE]
  /\ finished = [c \in Conns |-> FALSE]
  /\ count = [c \in Conns |-> 0]
  /\ listed = {}
  /\ lis = "cleanup"
  /\ rcv = [c \in Conns |-> "none"]
  /\ held = [c \in Clients |-> FALSE]
  /\ asked = [c \in Clients |-> FALSE]
  /\ thr = [t \in MsgThreads |-> Free]

increment_msg_count(c) == count' = [count EXCEPT ![c] = @ + 1]
decrement_msg_count(c) == count' = [count EXCEPT ![c] = @ - 1]

-----------------------------------------------------------------------------
(* nccp_listener::receive_messages_forever: clean up, wait, accept.        *)
has_outstanding_msgs(c) == count[c] # 0

Over(c) == finished[c] /\ ~has_outstanding_msgs(c)

cleanup ==
  LET over == {c \in listed : Over(c)}
  IN /\ lis = "cleanup"
     /\ listed' = listed \ over
     /\ obj' = [c \in Conns |-> IF c \in over THEN "freed" ELSE obj[c]]
     /\ closed' = [c \in Conns |-> closed[c] \/ c \in over]
     /\ lis' = "select"
     /\ UNCHANGED <<finished, count, rcv, held, asked, thr>>

add_connection(c) ==
  /\ c \in Accepted /\ lis = "select" /\ obj[c] = "none"
  /\ obj' = [obj EXCEPT ![c] = "live"]
  /\ listed' = listed \cup {c}
  /\ rcv' = [rcv EXCEPT ![c] = "loop"]
  /\ lis' = "cleanup"
  /\ UNCHANGED <<closed, finished, count, held, asked, thr>>

-----------------------------------------------------------------------------
(* The owner of a client connection (crd_component): connect and start the *)
(* receiver; send requests and wait; at the end only set finished and      *)
(* forget the pointer, or, before it connects again, delete a connection   *)
(* whose receiver is done.                                                 *)
Connect(c) ==
  /\ c \in Clients /\ obj[c] = "none"
  /\ \A d \in Clients : ~held[d]
  /\ obj' = [obj EXCEPT ![c] = "live"]
  /\ held' = [held EXCEPT ![c] = TRUE]
  /\ rcv' = [rcv EXCEPT ![c] = "loop"]
  /\ UNCHANGED <<closed, finished, count, listed, lis, asked, thr>>

send_and_wait(c) ==
  /\ c \in Clients /\ held[c] /\ ~asked[c]
  /\ asked' = [asked EXCEPT ![c] = TRUE]
  /\ increment_msg_count(c)                     \* set_connection
  /\ closed' \in {closed, [closed EXCEPT ![c] = TRUE]}   \* the send failed
  /\ UNCHANGED <<obj, finished, listed, lis, rcv, held, thr>>

(* Answered or timed out: the request is deleted.                           *)
DeleteRequest(c) ==
  /\ c \in Clients /\ asked[c]
  /\ asked' = [asked EXCEPT ![c] = FALSE]
  /\ decrement_msg_count(c)
  /\ UNCHANGED <<obj, closed, finished, listed, lis, rcv, held, thr>>

OwnerFinished(c) ==
  /\ c \in Clients /\ held[c] /\ ~asked[c]
  /\ finished' = [finished EXCEPT ![c] = TRUE]
  /\ held' = [held EXCEPT ![c] = FALSE]
  /\ UNCHANGED <<obj, closed, count, listed, lis, rcv, asked, thr>>

OwnerDeletes(c) ==
  /\ c \in Clients /\ held[c] /\ ~asked[c] /\ finished[c]
  /\ obj' = [obj EXCEPT ![c] = "freed"]
  /\ closed' = [closed EXCEPT ![c] = TRUE]
  /\ held' = [held EXCEPT ![c] = FALSE]
  /\ UNCHANGED <<finished, count, listed, lis, rcv, asked, thr>>

-----------------------------------------------------------------------------
(* nccp_connection::receive_messages_forever: a message counts as a user   *)
(* of the connection from here on, before its thread runs.                 *)
(* Mutant: it counts only once its thread has made the object.             *)
ReceivedMut(c) == UNCHANGED count
Received(c) == increment_msg_count(c)

get_message(c, t, k) ==
  /\ rcv[c] = "loop" /\ ~closed[c] /\ ~finished[c]
  /\ thr[t].pc = "free"
  /\ Received(c)
  /\ thr' = [thr EXCEPT ![t] = [Free EXCEPT !.pc = "create", !.conn = c, !.kind = k]]
  /\ UNCHANGED <<obj, closed, finished, listed, lis, rcv, held, asked>>

(* The peer closed, or the loop sees closed or finished.                   *)
EndOfMessages(c) ==
  /\ rcv[c] = "loop"
  /\ closed' \in {[closed EXCEPT ![c] = TRUE]} \cup
       (IF closed[c] \/ finished[c] THEN {closed} ELSE {})
  /\ rcv' = [rcv EXCEPT ![c] = "exit"]
  /\ UNCHANGED <<obj, finished, count, listed, lis, held, asked, thr>>

(* receive_messages_forever_wrapper: delete a connection the other side    *)
(* has finished, else finish it; the flag is read and written unlocked.    *)
Deletes(c) == finished[c]

isFinished(c) ==
  /\ rcv[c] = "exit"
  /\ IF Deletes(c)
     THEN /\ obj' = [obj EXCEPT ![c] = "freed"]
          /\ rcv' = [rcv EXCEPT ![c] = "done"]
          /\ closed' = [closed EXCEPT ![c] = TRUE]
     ELSE /\ rcv' = [rcv EXCEPT ![c] = "mark"]
          /\ UNCHANGED <<obj, closed>>
  /\ UNCHANGED <<finished, count, listed, lis, held, asked, thr>>

setFinished(c) ==
  /\ rcv[c] = "mark"
  /\ finished' = [finished EXCEPT ![c] = TRUE]
  /\ rcv' = [rcv EXCEPT ![c] = "done"]
  /\ UNCHANGED <<obj, closed, count, listed, lis, held, asked, thr>>

-----------------------------------------------------------------------------
(* process_message: make the message, count it again (set_connection).  A  *)
(* message of no known class is given up.                                  *)
process_message(t) ==
  /\ thr[t].pc = "create"
  /\ IF thr[t].kind = "unknown"
     THEN /\ thr' = [thr EXCEPT ![t] = Free]
          /\ UNCHANGED count
     ELSE /\ thr' = [thr EXCEPT ![t].pc = "handle"]
          /\ increment_msg_count(thr[t].conn)
  /\ UNCHANGED <<obj, closed, finished, listed, lis, rcv, held, asked>>

(* handle() with its answer, which is sent on the connection unless it is  *)
(* closed; the answer's own count goes up and down within.                  *)
Sends(t) ==
  closed' \in {closed, [closed EXCEPT ![thr[t].conn] = TRUE]}

(* A message is deleted, or kept by the one it is for, which deletes it    *)
(* later.                                                                  *)
handle(t) ==
  /\ thr[t].pc = "handle" /\ thr[t].kind \in {"request", "response"}
  /\ \/ /\ thr' = [thr EXCEPT ![t] = Free]
        /\ decrement_msg_count(thr[t].conn)
     \/ /\ thr' = [thr EXCEPT ![t].pc = "kept"]
        /\ UNCHANGED count
  /\ IF thr[t].kind = "request" THEN Sends(t) ELSE UNCHANGED closed
  /\ UNCHANGED <<obj, finished, listed, lis, rcv, held, asked>>

DeleteKept(t) ==
  /\ thr[t].pc = "kept"
  /\ thr' = [thr EXCEPT ![t] = Free]
  /\ decrement_msg_count(thr[t].conn)
  /\ UNCHANGED <<obj, closed, finished, listed, lis, rcv, held, asked>>

(* A periodic request is handled until it is stopped, also when its        *)
(* connection is closed.                                                   *)
handle_periodic(t) ==
  /\ thr[t].pc = "handle" /\ thr[t].kind = "periodic"
  /\ IF thr[t].stop
     THEN /\ thr' = [thr EXCEPT ![t] = Free]
          /\ decrement_msg_count(thr[t].conn)
          /\ UNCHANGED closed
     ELSE /\ Sends(t)
          /\ UNCHANGED <<thr, count>>
  /\ UNCHANGED <<obj, finished, listed, lis, rcv, held, asked>>

stop_periodic(t) ==
  /\ thr[t].pc = "handle" /\ thr[t].kind = "stop"
  /\ \E u \in MsgThreads \cup {None} :
       thr' = [v \in MsgThreads |->
                 CASE v = t -> Free
                   [] v = u /\ v # t /\ thr[v].kind = "periodic"
                        -> [thr[v] EXCEPT !.stop = TRUE]
                   [] OTHER -> thr[v]]
  /\ decrement_msg_count(thr[t].conn)
  /\ UNCHANGED <<obj, closed, finished, listed, lis, rcv, held, asked>>

-----------------------------------------------------------------------------
Request(c) ==
  \/ add_connection(c) \/ Connect(c) \/ send_and_wait(c)
  \/ \E t \in MsgThreads, k \in Kinds : get_message(c, t, k)
Step(c) ==
  \/ DeleteRequest(c) \/ OwnerFinished(c) \/ OwnerDeletes(c)
  \/ EndOfMessages(c) \/ isFinished(c) \/ setFinished(c)
Process(t) ==
  \/ process_message(t) \/ handle(t) \/ DeleteKept(t) \/ handle_periodic(t)
  \/ stop_periodic(t)
Next ==
  \/ cleanup
  \/ \E c \in Conns : Request(c) \/ Step(c)
  \/ \E t \in MsgThreads : Process(t)
Spec == Init /\ [][Next]_vars

-----------------------------------------------------------------------------
(* An accepted connection is deleted only when nothing uses it any more:   *)
(* no message of it is being made, handled, kept or fired periodically,    *)
(* and its receiver thread has done its last access (nccp_listener::       *)
(* cleanup against process_message and the receiver's wrapper).            *)
DeletedUnused ==
  \A c \in Accepted : obj[c] = "freed" =>
    /\ rcv[c] = "done"
    /\ \A t \in MsgThreads : thr[t].conn # c

(* The owner of a client connection never holds the pointer of a deleted   *)
(* one, although its receiver thread may delete it (crd_component and      *)
(* receive_messages_forever_wrapper agree through the finished flag).       *)
OwnerPointerLive == \A c \in Clients : held[c] => obj[c] = "live"

(* A connection object is deleted only when nothing uses it any more.      *)
NotFreedInUse == DeletedUnused /\ OwnerPointerLive
=============================================================================
