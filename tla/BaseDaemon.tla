------------------------------ MODULE BaseDaemon ------------------------------
(***************************************************************************)
(* The base daemon of a node (src/base).  It starts the daemon that        *)
(* specialises the node, keeps one connection to it and relays to it the   *)
(* requests of the crd and of the RLI; it also reads values from files the *)
(* user's programs write.  Every request runs in a thread of its own; a    *)
(* periodic request is handled again and again by the same thread, with    *)
(* the same request object, until it is stopped.                           *)
(***************************************************************************)
EXTENDS Naturals, Sequences

CONSTANTS Threads,    \* request threads
          Conns,      \* connections to specialisation daemons
          Attempts,   \* tries of connect_to_specialization_daemon (5)
          MaxPieces   \* bound on what user programs write

VARIABLES testing,    \* option -t: a refresh does not reboot
          using_spec_daemon,
          spec_conn,  \* the global pointer
          conn,       \* what became of each connection object
          thr,        \* request threads
          file,       \* the user's file: one Boolean per piece written,
                      \* TRUE if the piece ends its line
          last,       \* the last answer of each thread
          started     \* since the node came up, the crd has started it

vars == <<testing, using_spec_daemon, spec_conn, conn, thr, file, last, started>>

Null == "null"
Rli == "rli"
Relays == {"rli_relay", "rli_relay_short", "crd_relay"}
Files == {"user_data", "user_data_ts"}
Ops == Relays \cup Files \cup {"start_experiment", "refresh", "end_configure"}

Idle == [op |-> "none", pc |-> "idle", periodic |-> FALSE, stop |-> FALSE,
         nccpconn |-> Null, rend |-> "none", try |-> 0,
         was |-> FALSE, got |-> "none",
         open |-> FALSE, from |-> 0, pos |-> 0, out |-> <<>>]
NoAnswer == [status |-> "none", to |-> Rli, rend |-> "orig", periodic |-> FALSE]

Init ==
  /\ testing \in BOOLEAN
  /\ using_spec_daemon = FALSE
  /\ spec_conn = Null
  /\ conn = [c \in Conns |-> "none"]
  /\ thr = [t \in Threads |-> Idle]
  /\ file = <<>>
  /\ last = [t \in Threads |-> NoAnswer]
  /\ started = FALSE

(* A message becomes a request object of the class registered for its op.  *)
(* Only RLI operations are periodic.                                       *)
Receive(t, op, per) ==
  /\ thr[t].pc = "idle"
  /\ per => op \in {"rli_relay", "rli_relay_short"} \cup Files
  /\ op = "start_experiment" => ~started
  /\ started' = (started \/ op = "start_experiment")
  /\ thr' = [thr EXCEPT ![t] = [Idle EXCEPT !.op = op, !.pc = "handle",
               !.periodic = per, !.nccpconn = Rli, !.rend = "orig"]]
  /\ last' = [last EXCEPT ![t] = NoAnswer]
  /\ UNCHANGED <<testing, using_spec_daemon, spec_conn, conn, file>>

(* The answer goes where the request object points at that moment.         *)
Answer(t, status) ==
  last' = [last EXCEPT ![t] = [status |-> status, to |-> thr[t].nccpconn,
             rend |-> thr[t].rend, periodic |-> thr[t].periodic]]

(* After handle() process_message fires a periodic request again unless it *)
(* was stopped, and deletes any other.                                     *)
(* Mutant: a stopped request is fired again.                                *)
DoneMut(t, r) ==
  thr' = [thr EXCEPT ![t] = IF r.periodic THEN [r EXCEPT !.pc = "handle"] ELSE Idle]
Done(t, r) ==
  thr' = [thr EXCEPT ![t] =
            IF r.periodic /\ ~r.stop THEN [r EXCEPT !.pc = "handle"] ELSE Idle]

StopPeriodic(t) ==
  /\ thr[t].op \in Ops /\ ~thr[t].stop
  /\ thr[t].periodic \/ thr[t].was
  /\ thr' = [thr EXCEPT ![t].stop = TRUE]
  /\ UNCHANGED <<testing, using_spec_daemon, spec_conn, conn, file, last, started>>

-----------------------------------------------------------------------------
(* start_experiment_req: the home area's mount only warns.  With a daemon  *)
(* among the parameters, it is started and connected to.                   *)
start_experiment_req(t, specd) ==
  /\ thr[t].op = "start_experiment" /\ thr[t].pc = "handle"
  /\ IF specd
     THEN /\ using_spec_daemon' = TRUE
          /\ \/ /\ Answer(t, "Failed")           \* no such file
                /\ Done(t, thr[t])
             \/ /\ thr' = [thr EXCEPT ![t].pc = "connect"]  \* forked
                /\ UNCHANGED last
     ELSE /\ Answer(t, "Fine")
          /\ Done(t, thr[t])
          /\ UNCHANGED using_spec_daemon
  /\ UNCHANGED <<testing, spec_conn, conn, file, started>>

(* A try that succeeds publishes the pointer; one that throws deletes the  *)
(* connection the pointer names, which is an older one if the constructor  *)
(* threw.                                                                  *)
connect_to_specialization_daemon(t) ==
  /\ thr[t].pc = "connect"
  /\ \/ \E c \in Conns :
          /\ conn[c] = "none"
          /\ conn' = [conn EXCEPT ![c] = "open"]
          /\ spec_conn' = c
          /\ Answer(t, "Fine")
          /\ Done(t, thr[t])
     \/ /\ conn' = IF spec_conn = Null THEN conn
                   ELSE [conn EXCEPT ![spec_conn] = "freed"]
        /\ spec_conn' = Null
        /\ IF thr[t].try + 1 < Attempts
           THEN /\ thr' = [thr EXCEPT ![t].try = @ + 1]
                /\ UNCHANGED last
           ELSE /\ Answer(t, "Failed")
                /\ Done(t, thr[t])
  /\ UNCHANGED <<testing, using_spec_daemon, file, started>>

(* refresh_req: answer, then reboot, or in testing mode only say i_am_up.  *)
refresh_req(t) ==
  /\ thr[t].op = "refresh" /\ thr[t].pc = "handle"
  /\ Answer(t, "Fine")
  /\ thr' = [thr EXCEPT ![t].pc = "reboot"]
  /\ UNCHANGED <<testing, using_spec_daemon, spec_conn, conn, file, started>>

Reboot(t) ==
  /\ thr[t].pc = "reboot"
  /\ IF testing
     THEN /\ Done(t, thr[t])
          /\ UNCHANGED <<using_spec_daemon, spec_conn, conn, last>>
     ELSE /\ using_spec_daemon' = FALSE
          /\ spec_conn' = Null
          /\ conn' = [c \in Conns |-> "none"]
          /\ thr' = [u \in Threads |-> Idle]
          /\ last' = [u \in Threads |-> NoAnswer]
  /\ started' = FALSE
  /\ UNCHANGED <<testing, file>>

end_configure_node_req(t) ==
  /\ thr[t].op = "end_configure" /\ thr[t].pc = "handle"
  /\ Answer(t, "Fine")
  /\ Done(t, thr[t])
  /\ UNCHANGED <<testing, using_spec_daemon, spec_conn, conn, file, started>>

-----------------------------------------------------------------------------
(* The relays: check the daemon is there, point the request object at its  *)
(* connection with a fresh rendezvous and not periodic, send and wait,     *)
(* point it back, answer.                                                  *)
NoDaemon == spec_conn \in Conns => conn[spec_conn] # "open"

relay_refused(t) ==
  /\ thr[t].op \in Relays /\ thr[t].pc = "handle"
  /\ \/ /\ thr[t].op = "crd_relay" /\ ~using_spec_daemon
        /\ Answer(t, "Fine")
        /\ Done(t, thr[t])
     \/ /\ IF thr[t].op = "crd_relay" THEN using_spec_daemon /\ NoDaemon
           ELSE ~using_spec_daemon \/ NoDaemon
        /\ Answer(t, "TimeoutRemote")
        /\ Done(t, [thr[t] EXCEPT !.stop = @ \/ thr[t].periodic])
  /\ UNCHANGED <<testing, using_spec_daemon, spec_conn, conn, file, started>>

relay_swap(t) ==
  /\ thr[t].op \in Relays /\ thr[t].pc = "handle"
  /\ using_spec_daemon /\ ~NoDaemon
  /\ thr' = [thr EXCEPT ![t].pc = "swapped"]
  /\ UNCHANGED <<testing, using_spec_daemon, spec_conn, conn, file, last, started>>

(* set_connection reads the global again: it may have changed since the    *)
(* check.                                                                  *)
relay_send(t) ==
  /\ thr[t].pc = "swapped"
  /\ thr' = [thr EXCEPT ![t] = [@ EXCEPT !.pc = "wait", !.nccpconn = spec_conn,
               !.rend = "fresh", !.was = thr[t].periodic, !.periodic = FALSE]]
  /\ UNCHANGED <<testing, using_spec_daemon, spec_conn, conn, file, last, started>>

(* send_and_wait: no connection or a failed send returns at once, as does  *)
(* the timeout; the daemon's status may be Fine or not.                    *)
(* Mutant: the request is not pointed back.                                 *)
RestoredMut(t) == [thr[t] EXCEPT !.periodic = thr[t].was, !.pc = "answer"]
Restored(t) ==
  [thr[t] EXCEPT !.nccpconn = Rli, !.rend = "orig", !.periodic = thr[t].was,
                 !.pc = "answer"]

relay_wait(t) ==
  /\ thr[t].pc = "wait"
  /\ \E status \in {"none", "Fine", "Failed"} :
       /\ status # "none" =>
            thr[t].nccpconn # Null /\ conn[thr[t].nccpconn] = "open"
       /\ thr' = [thr EXCEPT ![t] = [Restored(t) EXCEPT !.got = status]]
  /\ UNCHANGED <<testing, using_spec_daemon, spec_conn, conn, file, last, started>>

relay_answer(t) ==
  /\ thr[t].pc = "answer"
  /\ LET status == thr[t].got
     IN /\ Answer(t, IF status = "none" THEN "TimeoutRemote" ELSE status)
        /\ Done(t, [thr[t] EXCEPT !.was = FALSE, !.got = "none",
             !.stop = @ \/ (status = "Failed" /\ thr[t].periodic)])
  /\ UNCHANGED <<testing, using_spec_daemon, spec_conn, conn, file, started>>

-----------------------------------------------------------------------------
(* userdata.  The first handling opens the file, if its mode lets the user *)
(* read it, and skips to its end.                                          *)
(* Mutant: the end of the file is not looked for.                           *)
OpenMut(t, r) == [r EXCEPT !.open = TRUE, !.from = Len(file)]
Open(t, r) == [r EXCEPT !.open = TRUE, !.from = Len(file), !.pos = Len(file)]

NoSuchFile(t) ==
  /\ thr[t].op \in Files /\ thr[t].pc = "handle" /\ ~thr[t].open
  /\ Answer(t, "Failed")
  /\ Done(t, [thr[t] EXCEPT !.stop = TRUE])
  /\ UNCHANGED <<testing, using_spec_daemon, spec_conn, conn, file, started>>

OpenFile(t) ==
  /\ thr[t].op \in Files /\ thr[t].pc = "handle" /\ ~thr[t].open
  /\ thr' = [thr EXCEPT ![t] = Open(t, thr[t])]
  /\ UNCHANGED <<testing, using_spec_daemon, spec_conn, conn, file, last, started>>

(* The line that starts after piece p ends with the first piece that ends  *)
(* a line, or with what there is.                                          *)
LineEnd(p) ==
  CHOOSE e \in (p + 1)..Len(file) :
    /\ file[e] \/ e = Len(file)
    /\ \A i \in (p + 1)..(e - 1) : ~file[i]

read_last_value(t) ==
  /\ thr[t].op = "user_data" /\ thr[t].pc = "handle" /\ thr[t].open
  /\ Answer(t, "Fine")
  /\ Done(t, [thr[t] EXCEPT !.pos = Len(file)])
  /\ UNCHANGED <<testing, using_spec_daemon, spec_conn, conn, file, started>>

(* One getline of read_next_values, an answer per line; the end of the     *)
(* file, also right behind an unfinished line, ends the loop.              *)
read_next_values(t) ==
  /\ thr[t].op = "user_data_ts" /\ thr[t].pc = "handle" /\ thr[t].open
  /\ IF thr[t].pos = Len(file)
     THEN UNCHANGED last /\ Done(t, thr[t])
     ELSE LET e == LineEnd(thr[t].pos)
              r == [thr[t] EXCEPT !.pos = e,
                      !.out = Append(@, <<thr[t].pos + 1, e>>)]
          IN /\ Answer(t, "Fine")
             /\ IF file[e] THEN thr' = [thr EXCEPT ![t] = r] ELSE Done(t, r)
  /\ UNCHANGED <<testing, using_spec_daemon, spec_conn, conn, file, started>>

-----------------------------------------------------------------------------
(* The environment: the user's program writes, and the specialisation      *)
(* daemon ends, which the connection's receiver thread notices.            *)
Write(eol) ==
  /\ Len(file) < MaxPieces
  /\ file' = Append(file, eol)
  /\ UNCHANGED <<testing, using_spec_daemon, spec_conn, conn, thr, last, started>>

DaemonEnds(c) ==
  /\ conn[c] = "open"
  /\ conn' = [conn EXCEPT ![c] = "closed"]
  /\ UNCHANGED <<testing, using_spec_daemon, spec_conn, thr, file, last, started>>

Handle(t) ==
  \/ \E specd \in BOOLEAN : start_experiment_req(t, specd)
  \/ connect_to_specialization_daemon(t)
  \/ refresh_req(t) \/ Reboot(t) \/ end_configure_node_req(t)
  \/ relay_refused(t) \/ relay_swap(t) \/ relay_send(t) \/ relay_wait(t)
  \/ relay_answer(t)
  \/ NoSuchFile(t) \/ OpenFile(t) \/ read_last_value(t) \/ read_next_values(t)

Request(t) == \E op \in Ops, per \in BOOLEAN : Receive(t, op, per)
Environment ==
  \/ \E eol \in BOOLEAN : Write(eol)
  \/ \E c \in Conns : DaemonEnds(c)
  \/ \E t \in Threads : StopPeriodic(t)
Step(t) == Handle(t)
Next == (\E t \in Threads : Request(t) \/ Step(t)) \/ Environment
Spec == Init /\ [][Next]_vars

(* Threads run, and a wait ends: send_and_wait has a timeout.              *)
Fairness == \A t \in Threads : WF_vars(Step(t))

-----------------------------------------------------------------------------
(* Every answer goes to the connection the request came from, with the     *)
(* rendezvous and the periodic flag the requester gave, whatever the relay *)
(* did to the request object meanwhile (rli_relay_req::handle).            *)
AnsweredToOrigin ==
  \A t \in Threads : last[t].to = Rli /\ last[t].rend = "orig"

(* A periodic relay ends once the specialisation daemon is gone for good:  *)
(* a handling that finds no open connection stops it.                      *)
RelayStops ==
  (<>[](NoDaemon)) =>
     \A t \in Threads :
       []<>~(thr[t].op \in Relays /\ thr[t].periodic)

(* A time series reports each piece the user's program wrote since the     *)
(* file was opened, once and in order, although the program writes while   *)
(* the daemon reads (userdata::read_next_values).                          *)
NothingLost ==
  \A t \in Threads : thr[t].op = "user_data_ts" =>
    LET out == thr[t].out
    IN /\ \A i \in 1..Len(out) :
            out[i][1] = (IF i = 1 THEN thr[t].from ELSE out[i - 1][2]) + 1
       /\ thr[t].pos = IF out = <<>> THEN thr[t].from ELSE out[Len(out)][2]

=============================================================================
