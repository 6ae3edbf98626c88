------------------------------ MODULE CcnxRouter ------------------------------
(***************************************************************************)
(* The daemon of a CCNx router (src/ccnx_router/host).  Besides the ports  *)
(* and kernel routes of a host (module HostDaemon) it starts the CCN       *)
(* daemon ccnd, gives it routes (a path and a next hop), starts producers  *)
(* and consumers, and reads the traffic counters.  Routes are also saved,  *)
(* because a route may arrive before ccnd is started.                      *)
(***************************************************************************)
EXTENDS Naturals, Sequences

CONSTANTS Threads,   \* request threads
          Paths,     \* paths of routes
          Hops,      \* next hops that resolve
          BadHops,   \* next hops that do not
          MaxPkts    \* bound on the packets counted

VARIABLES ccnd,      \* the daemon: "down" or "up"
          fib,       \* its routes: <<path, next hop>>
          paths, nexthops,    \* the saved routes
          mutex,     \* holder of the mutex
          job,       \* request threads
          pkts,      \* packets each counter counted since it was last read
          total      \* how much was ever counted

vars == <<ccnd, fib, paths, nexthops, mutex, job, pkts, total>>

None == "none"
Counters == {"rx_pkt", "rx_byte", "tx_pkt", "tx_byte"}
Quiet == {"do_role", "set_log_level", "usage", "update_route"}
Idle == [op |-> None, pc |-> "idle", path |-> None, nh |-> None, i |-> 1, ok |-> TRUE]

(* main() launches ccnd before it listens.                                 *)
Init ==
  /\ ccnd \in {"down", "up"}
  /\ fib = {}
  /\ paths = <<>> /\ nexthops = <<>>
  /\ mutex = None
  /\ job = [t \in Threads |-> Idle]
  /\ pkts = [c \in Counters |-> 0] /\ total = 0

Goto(t, pc) == job' = [job EXCEPT ![t].pc = pc]
Resolves(nh) == nh \in Hops

(* The scripts change ccnd only if it runs.                                *)
add_route_sh(path, nh) ==
  fib' = IF ccnd = "up" THEN fib \cup {<<path, nh>>} ELSE fib

Receive(t, op, path, nh) ==
  /\ job[t].pc = "idle"
  /\ job' = [job EXCEPT ![t] = [Idle EXCEPT !.op = op, !.pc = op, !.path = path, !.nh = nh]]
  /\ UNCHANGED <<ccnd, fib, paths, nexthops, mutex, pkts, total>>

-----------------------------------------------------------------------------
(* get_add_route_req: save the route under the mutex, then tell ccnd.       *)
(* Mutant: the mutex is not taken.                                         *)
EntersMut(t) == UNCHANGED mutex
Enters(t) == mutex = None /\ mutex' = t

add_route_lock(t) ==
  /\ job[t].pc = "add"
  /\ Enters(t)
  /\ Goto(t, "path")
  /\ UNCHANGED <<ccnd, fib, paths, nexthops, pkts, total>>

add_route_path(t) ==
  /\ job[t].pc = "path"
  /\ paths' = Append(paths, job[t].path)
  /\ Goto(t, "hop")
  /\ UNCHANGED <<ccnd, fib, nexthops, mutex, pkts, total>>

add_route_hop(t) ==
  /\ job[t].pc = "hop"
  /\ nexthops' = Append(nexthops, job[t].nh)
  /\ mutex' = None
  /\ Goto(t, "tell")
  /\ UNCHANGED <<ccnd, fib, paths, pkts, total>>

add_route_tell(t) ==
  /\ job[t].pc = "tell"
  /\ IF Resolves(job[t].nh) THEN add_route_sh(job[t].path, job[t].nh)
     ELSE UNCHANGED fib
  /\ job' = [job EXCEPT ![t] = Idle]       \* Fine, or Failed
  /\ UNCHANGED <<ccnd, paths, nexthops, mutex, pkts, total>>

(* get_del_route_req: only ccnd; the saved route stays.                     *)
del_route(t) ==
  /\ job[t].pc = "del"
  /\ fib' = IF Resolves(job[t].nh) THEN fib \ {<<job[t].path, job[t].nh>>} ELSE fib
  /\ job' = [job EXCEPT ![t] = Idle]
  /\ UNCHANGED <<ccnd, paths, nexthops, mutex, pkts, total>>

-----------------------------------------------------------------------------
(* get_subtype_init_req: kill ccnd; under the mutex start it and give it   *)
(* the saved routes; start the role.  The path of its own parameters is    *)
(* used for every one of them.  A next hop that does not resolve throws,   *)
(* and the mutex stays locked.                                             *)
init_kill(t) ==
  /\ job[t].pc = "init"
  /\ ccnd' = "down" /\ fib' = {}
  /\ Goto(t, "lock")
  /\ UNCHANGED <<paths, nexthops, mutex, pkts, total>>

init_lock(t) ==
  /\ job[t].pc = "lock" /\ mutex = None
  /\ mutex' = t
  /\ ccnd' \in {"down", "up"}     \* launched; it may not come up
  /\ Goto(t, "replay")
  /\ UNCHANGED <<fib, paths, nexthops, pkts, total>>

init_replay(t) ==
  LET i == job[t].i
  IN /\ job[t].pc = "replay" /\ i <= Len(paths)
     /\ IF Resolves(nexthops[i])
        THEN /\ add_route_sh(job[t].path, nexthops[i])
             /\ job' = [job EXCEPT ![t].i = @ + 1]
        ELSE /\ job' = [job EXCEPT ![t] = Idle]           \* Failed
             /\ UNCHANGED fib
     /\ UNCHANGED <<ccnd, paths, nexthops, mutex, pkts, total>>

init_unlock(t) ==
  /\ job[t].pc = "replay" /\ job[t].i > Len(paths)
  /\ mutex' = None
  /\ job' = [job EXCEPT ![t] = Idle]       \* the role's script; Fine
  /\ UNCHANGED <<ccnd, fib, paths, nexthops, pkts, total>>

(* get_do_daemon_req restarts ccnd, without the mutex or the routes.       *)
do_daemon_kill(t) ==
  /\ job[t].pc = "daemon"
  /\ ccnd' = "down" /\ fib' = {}
  /\ Goto(t, "launch")
  /\ UNCHANGED <<paths, nexthops, mutex, pkts, total>>

do_daemon_launch(t) ==
  /\ job[t].pc = "launch"
  /\ ccnd' \in {"down", "up"}
  /\ job' = [job EXCEPT ![t] = Idle]
  /\ UNCHANGED <<fib, paths, nexthops, mutex, pkts, total>>

(* The requests that start a role, set the log level, read the use of      *)
(* memory or processor, update a route (only logged), or are of no known   *)
(* kind: no state of this daemon changes.                                  *)
no_effect(t, op) ==
  /\ job[t].pc = op
  /\ job' = [job EXCEPT ![t] = Idle]
  /\ UNCHANGED <<ccnd, fib, paths, nexthops, mutex, pkts, total>>

get_do_role_req(t) == no_effect(t, "do_role")
set_log_level_req(t) == no_effect(t, "set_log_level")
get_usage_req(t) == no_effect(t, "usage")
get_update_route_req(t) == no_effect(t, "update_route")

-----------------------------------------------------------------------------
(* The counters are read and set to zero by one command; what cannot be    *)
(* parsed is lost.                                                         *)
Zeroed(c) == [pkts EXCEPT ![c] = 0]

read_counter(t, c) ==
  /\ job[t].pc = c
  /\ pkts' \in {pkts, Zeroed(c)}      \* unchanged only when it answers Failed
  /\ job' = [job EXCEPT ![t] = Idle]
  /\ UNCHANGED <<ccnd, fib, paths, nexthops, mutex, total>>

get_rx_pkt_req(t) == read_counter(t, "rx_pkt")
get_rx_byte_req(t) == read_counter(t, "rx_byte")
get_tx_pkt_req(t) == read_counter(t, "tx_pkt")
get_tx_byte_req(t) == read_counter(t, "tx_byte")

Packet ==
  /\ total < MaxPkts
  /\ \E c \in Counters : pkts' = [pkts EXCEPT ![c] = @ + 1]
  /\ total' = total + 1
  /\ UNCHANGED <<ccnd, fib, paths, nexthops, mutex, job>>

-----------------------------------------------------------------------------
Request(t) ==
  \/ \E op \in {"add", "del"}, p \in Paths, nh \in Hops \cup BadHops :
       Receive(t, op, p, nh)
  \/ \E p \in Paths : Receive(t, "init", p, None)
  \/ \E op \in {"daemon"} \cup Counters \cup Quiet : Receive(t, op, None, None)
Step(t) ==
  \/ add_route_lock(t) \/ add_route_path(t) \/ add_route_hop(t) \/ add_route_tell(t)
  \/ del_route(t)
  \/ init_kill(t) \/ init_lock(t) \/ init_replay(t) \/ init_unlock(t)
  \/ do_daemon_kill(t) \/ do_daemon_launch(t)
  \/ get_do_role_req(t) \/ set_log_level_req(t) \/ get_usage_req(t)
  \/ get_update_route_req(t)
  \/ get_rx_pkt_req(t) \/ get_rx_byte_req(t) \/ get_tx_pkt_req(t) \/ get_tx_byte_req(t)
Next == (\E t \in Threads : Request(t) \/ Step(t)) \/ Packet
Spec == Init /\ [][Next]_vars

-----------------------------------------------------------------------------
(* Whenever the init command reads the saved routes, each path has its own *)
(* next hop, whatever add requests run at the same time: the assertion     *)
(* paths.size() == nexthops.size() and the pairing it stands for.          *)
SavedPairs ==
  \A t \in Threads : job[t].pc = "replay" =>
    /\ Len(paths) = Len(nexthops)
    /\ \A u \in Threads : job[u].pc \notin {"path", "hop"}

(* What the comment on get_add_route_req promises: a route that was saved  *)
(* because ccnd was not started yet is given to ccnd by the init command.  *)
SavedRoutesReplayed ==
  [][\A t \in Threads :
       init_unlock(t) /\ ccnd = "up" =>
         \A i \in DOMAIN paths : <<paths[i], nexthops[i]>> \in fib']_vars
=============================================================================
