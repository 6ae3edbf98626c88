------------------------------ MODULE VmUserData ------------------------------
(***************************************************************************)
(* The requests of the RLI to the daemons of VM servers (src/vmbase) and   *)
(* of the VPN node (src/onlvpn_base): copies of the base daemon's code     *)
(* that reads the user's files and relays requests.  Nothing in these      *)
(* daemons starts a specialisation daemon, so a relay is always refused.   *)
(***************************************************************************)
EXTENDS Naturals, Sequences

CONSTANTS Threads, Conns, Attempts, MaxPieces

VARIABLES testing, using_spec_daemon, spec_conn, conn, thr, file, last, started

B == INSTANCE BaseDaemon

Init == B!Init
Write(eol) == B!Write(eol)

(* vmbase                                                                  *)
vm_receive(t, op, per) ==
  /\ op \in {"rli_relay"} \cup B!Files
  /\ B!Receive(t, op, per)
vm_rli_relay_req(t) == B!relay_refused(t)
vm_checkfile(t) == B!NoSuchFile(t)
vm_userdata(t) == B!OpenFile(t)
vm_line(q) == B!LineEnd(q)
vm_read_last_value(t) == B!read_last_value(t)
vm_read_next_values(t) == B!read_next_values(t)
vm_user_data_req(t) ==
  /\ thr[t].op = "user_data"
  /\ vm_checkfile(t) \/ vm_userdata(t) \/ vm_read_last_value(t)
vm_user_data_ts_req(t) ==
  /\ thr[t].op = "user_data_ts"
  /\ vm_checkfile(t) \/ vm_userdata(t) \/ vm_read_next_values(t)
vm_request(t) == \E op \in B!Ops, per \in BOOLEAN : vm_receive(t, op, per)
vm_step(t) == vm_rli_relay_req(t) \/ vm_user_data_req(t) \/ vm_user_data_ts_req(t)

(* onlvpn_base                                                             *)
vpn_receive(t, op, per) ==
  /\ op \in {"rli_relay"} \cup B!Files
  /\ B!Receive(t, op, per)
vpn_rli_relay_req(t) == B!relay_refused(t)
vpn_checkfile(t) == B!NoSuchFile(t)
vpn_userdata(t) == B!OpenFile(t)
vpn_line(q) == B!LineEnd(q)
vpn_read_last_value(t) == B!read_last_value(t)
vpn_read_next_values(t) == B!read_next_values(t)
vpn_user_data_req(t) ==
  /\ thr[t].op = "user_data"
  /\ vpn_checkfile(t) \/ vpn_userdata(t) \/ vpn_read_last_value(t)
vpn_user_data_ts_req(t) ==
  /\ thr[t].op = "user_data_ts"
  /\ vpn_checkfile(t) \/ vpn_userdata(t) \/ vpn_read_next_values(t)
vpn_request(t) == \E op \in B!Ops, per \in BOOLEAN : vpn_receive(t, op, per)
vpn_step(t) == vpn_rli_relay_req(t) \/ vpn_user_data_req(t) \/ vpn_user_data_ts_req(t)

Environment ==
  \/ \E eol \in BOOLEAN : Write(eol)
  \/ \E t \in Threads : B!StopPeriodic(t)
=============================================================================
