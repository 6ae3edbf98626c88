----------------------------- MODULE NprPackets -----------------------------
(***************************************************************************)
(* Packets the data path of the network processor router hands to the      *)
(* daemon (src/ixp/npr: DataPathConn, DataPathMessage, IPv4, ARP).  The    *)
(* main loop polls the rings and starts a thread per packet; the thread    *)
(* reads the message, decides its type and handles it.  A packet's buffer  *)
(* must go back to the data path (to the multiplexer, to a plugin or to    *)
(* the free list) exactly once.                                            *)
(*                                                                         *)
(* A packet that needs a hardware address waits in the request of its      *)
(* address.  The thread that makes the request sends up to Attempts ARP    *)
(* packets, sleeping between them without the lock; an ARP packet from the *)
(* network sends the waiting packets on and finishes the request.          *)
(*                                                                         *)
(* Headers, checksums and statistics are left out; a packet is its form,   *)
(* the fields the handlers decide on.  The thread of a packet is named     *)
(* after it.                                                               *)
(***************************************************************************)
EXTENDS Naturals, Sequences, FiniteSets

CONSTANTS Packets, NoPacket,
          Forms,      \* the forms of packets: see Form below
          Addrs,      \* addresses to resolve
          Slots,      \* SRAM results of routes through a next hop router
          NextHop,    \* NextHop[s]: the address in the result at s
          Attempts,   \* ARP packets sent for a request: 3
          MaxFaults,  \* bound on failures of the TCAM
          MaxRoutes   \* bound on routes removed and added

VARIABLES ring,     \* ring[r]: packets the data path has put into ring r
          msg_ready,\* the packet taken from a ring that no thread has read
          form,     \* form[p]: the fields of p
          thr,      \* thr[p]: the thread of p
          out,      \* out[p]: where p's buffer went
          req,      \* req[a]: the request node of address a
          srid,     \* srid[s]: id of the route whose result is at s, 0: none
          mac,      \* mac[s]: nh_mac_valid of the result at s
          threw,    \* ghost: packets whose handler ended with an exception
          faults, routes

vars == <<ring, msg_ready, form, thr, out, req, srid, mac, threw, faults, routes>>

Rings == <<"ERRORS", "LOCAL_DELIVERY", "EXCEPTIONS">>
RingNames == {Rings[i] : i \in 1..3}
NoForm == [flags |-> {}]

(* type(): the first flag in this order decides.                           *)
type(f) ==
  LET Flag(x) == x \in f.flags
  IN IF Flag("arp_needed")
     THEN IF Flag("arp_source") THEN "ARP_NEEDED_DIP" ELSE "ARP_NEEDED_NHR"
     ELSE IF Flag("ttl_expired") THEN "TTL_EXPIRED"
     ELSE IF Flag("ip_options") THEN "IP_OPTIONS"
     ELSE IF Flag("no_route") THEN "NO_ROUTE"
     ELSE IF Flag("nh_invalid") THEN "NH_INVALID"
     ELSE IF ~Flag("non_ip") THEN "LD_PACKET"
     ELSE IF Flag("ethertype_arp") THEN "ARP_PACKET" ELSE "GENERAL_ERROR"

NoRequest == [state |-> "NONE", valid |-> FALSE, dip |-> NoPacket, nhr |-> <<>>]
Thread == [pc |-> "none", addr |-> NoPacket, attempts |-> 0]

Init ==
  /\ ring = [r \in RingNames |-> <<>>]
  /\ msg_ready = NoPacket
  /\ form = [p \in Packets |-> NoForm]
  /\ thr = [p \in Packets |-> Thread]
  /\ out = [p \in Packets |-> <<>>]
  /\ req = [a \in Addrs |-> NoRequest]
  /\ srid = [s \in Slots |-> 1]
  /\ mac = [s \in Slots |-> FALSE]
  /\ threw = {} /\ faults = 0 /\ routes = 1

----------------------------------------------------------------------------
(* The data path and the main loop                                         *)

Arrive(p) ==
  /\ form[p] = NoForm
  /\ \E f \in Forms :
       /\ form' = [form EXCEPT ![p] = f]
       /\ ring' = [ring EXCEPT ![f.ring] = Append(@, p)]
  /\ UNCHANGED <<msg_ready, thr, out, req, srid, mac, threw, faults, routes>>

(* check(): one message at a time, errors first; then a thread starts.     *)
FirstRing ==
  CHOOSE r \in RingNames :
    /\ ring[r] # <<>>
    /\ \E i \in 1..3 : Rings[i] = r /\ \A j \in 1..(i - 1) : ring[Rings[j]] = <<>>

check ==
  /\ msg_ready = NoPacket
  /\ \E r \in RingNames : ring[r] # <<>>
  /\ LET p == Head(ring[FirstRing])
     IN /\ ring' = [ring EXCEPT ![FirstRing] = Tail(@)]
        /\ msg_ready' = p
        /\ thr' = [thr EXCEPT ![p].pc = "read"]
  /\ UNCHANGED <<form, out, req, srid, mac, threw, faults, routes>>

(* handle_task: the message is read, which lets the next check succeed.    *)
First(f) ==
  CASE type(f) = "ARP_NEEDED_DIP" -> "lock"
    [] type(f) = "ARP_NEEDED_NHR" -> "result"
    [] type(f) = "ARP_PACKET" -> "arp"
    [] OTHER -> "ipv4"

readmsg(p) ==
  /\ thr[p].pc = "read"
  /\ msg_ready' = NoPacket
  /\ thr' = [thr EXCEPT ![p].pc = First(form[p]),
                        ![p].addr = IF type(form[p]) = "ARP_NEEDED_DIP"
                                    THEN form[p].addr ELSE NoPacket]
  /\ UNCHANGED <<ring, form, out, req, srid, mac, threw, faults, routes>>

----------------------------------------------------------------------------
(* Buffers                                                                 *)

(* writemsg: a full ring sends the buffer to the free list instead.        *)
writemsg(o, p, dest) == {[o EXCEPT ![p] = Append(@, d)] : d \in {dest, "flm"}}
Drop(o, p) == [o EXCEPT ![p] = Append(@, "flm")]

End(p) == thr' = [thr EXCEPT ![p].pc = "done"]
Throw(p) == End(p) /\ threw' = threw \cup {p}

(* send_packet_to_data_path; a packet for an invalid plugin throws.        *)
Throws(p) == form[p].dest = "invalid"
send_packet_to_data_path(o, p) == writemsg(o, p, form[p].dest)

----------------------------------------------------------------------------
(* IPv4                                                                    *)

(* An ICMP message in a buffer of its own (when one is free) may be sent   *)
(* for the packet; the packet is dropped in any case.                      *)
send_ttl_expired(p) == type(form[p]) = "TTL_EXPIRED" /\ out' = Drop(out, p)
send_no_route(p) == type(form[p]) = "NO_ROUTE" /\ out' = Drop(out, p)

handle_ip_options(p) == type(form[p]) = "IP_OPTIONS" /\ out' = Drop(out, p)
handle_next_hop_invalid(p) == type(form[p]) = "NH_INVALID" /\ out' = Drop(out, p)
handle_general_error(p) == type(form[p]) = "GENERAL_ERROR" /\ out' = Drop(out, p)

(* An echo request goes back in its own buffer, everything else is dropped. *)
handle_local_delivery(p) ==
  /\ type(form[p]) = "LD_PACKET"
  /\ out' \in IF "echo" \in form[p].flags THEN writemsg(out, p, "mux")
                                          ELSE {Drop(out, p)}

Ipv4(p) ==
  /\ thr[p].pc = "ipv4"
  /\ \/ send_ttl_expired(p) \/ send_no_route(p) \/ handle_ip_options(p)
     \/ handle_next_hop_invalid(p) \/ handle_general_error(p)
     \/ handle_local_delivery(p)
  /\ End(p)
  /\ UNCHANGED <<ring, msg_ready, form, req, srid, mac, threw, faults, routes>>

----------------------------------------------------------------------------
(* ARP packets from the network                                            *)

find_nhr(r, id) == {i \in DOMAIN r.nhr : r.nhr[i].id = id}
Waiting(r) == ({r.dip} \cup {r.nhr[i].pkt : i \in DOMAIN r.nhr}) \ {NoPacket}
Without(r, ps) ==
  [r EXCEPT !.dip = IF @ \in ps THEN NoPacket ELSE @,
            !.nhr = [i \in DOMAIN r.nhr |->
                       [r.nhr[i] EXCEPT !.pkt = IF @ \in ps THEN NoPacket ELSE @]]]
Cleared(r) == Without(r, Waiting(r))

(* The packets of a set go on; any of them may meet a full ring.           *)
SentAll(o, ps) ==
  {[p \in Packets |->
      IF p \notin ps THEN o[p]
      ELSE Append(o[p], IF p \in full THEN "flm" ELSE form[p].dest)] :
     full \in SUBSET ps}

(* Both operations teach the sender's address.  With request_list_lock:    *)
(* the waiting packets of an outstanding request are sent, the ARP entry   *)
(* is updated or added (which may throw), the results of the routes in the *)
(* request get the hardware address, and the request is finished.          *)
Learn(p, a) ==
  LET r == req[a]
      known == r.state # "NONE"
      waiting == IF r.state = "OUTSTANDING" THEN Waiting(r) ELSE {}
  IN /\ ~\E q \in waiting : Throws(q)
     /\ out' \in SentAll(out, waiting)
     /\ \/ /\ req' = [req EXCEPT ![a] =
                        [IF waiting # {} THEN Cleared(r) ELSE r
                           EXCEPT !.state = "FINISHED", !.valid = TRUE]]
           /\ mac' = [s \in Slots |-> mac[s] \/ \E i \in DOMAIN r.nhr : r.nhr[i].slot = s]
           /\ thr' = [thr EXCEPT ![p].pc = "reply"]
           /\ UNCHANGED <<threw, faults>>
        \/ /\ faults < MaxFaults /\ faults' = faults + 1
           /\ req' = [req EXCEPT ![a] =
                        IF known THEN IF waiting # {} THEN Cleared(r) ELSE r
                        ELSE [r EXCEPT !.state = "FINISHED"]]
           /\ Throw(p)
           /\ UNCHANGED mac

(* A waiting packet for an invalid plugin is an exception, after those     *)
(* before it (first the packet for the address itself) have been sent.     *)
LearnThrows(p, a) ==
  LET r == req[a]
      line == <<r.dip>> \o [i \in DOMAIN r.nhr |-> r.nhr[i].pkt]
      bad == {i \in DOMAIN line : line[i] # NoPacket /\ Throws(line[i])}
      sent == {line[i] : i \in {j \in DOMAIN line : \A k \in bad : j < k}} \ {NoPacket}
  IN /\ r.state = "OUTSTANDING" /\ bad # {}
     /\ out' \in SentAll(out, sent)
     /\ req' = [req EXCEPT ![a] = Without(r, sent)]
     /\ Throw(p)
     /\ UNCHANGED <<mac, faults>>

process_arp_packet(p) ==
  /\ thr[p].pc = "arp"
  /\ IF "malformed" \in form[p].flags
     THEN out' = Drop(out, p) /\ End(p) /\ UNCHANGED <<req, mac, threw, faults>>
     ELSE Learn(p, form[p].addr) \/ LearnThrows(p, form[p].addr)
  /\ UNCHANGED <<ring, msg_ready, form, srid, routes>>

(* A request for this port's address is answered from a buffer of its own; *)
(* the packet is dropped with or without an answer.                        *)
Reply(p) ==
  /\ thr[p].pc = "reply"
  /\ out' = Drop(out, p)
  /\ End(p)
  /\ UNCHANGED <<ring, msg_ready, form, req, srid, mac, threw, faults, routes>>

----------------------------------------------------------------------------
(* send_arp_request                                                        *)

(* For a next hop router the address is in the result, read without a      *)
(* lock; a result that already has a hardware address drops the packet.    *)
ReadResult(p) ==
  LET s == form[p].slot
  IN /\ thr[p].pc = "result"
     /\ IF mac[s] THEN out' = Drop(out, p) /\ End(p)
        ELSE /\ thr' = [thr EXCEPT ![p].pc = "lock", ![p].addr = NextHop[s]]
             /\ UNCHANGED out
     /\ UNCHANGED <<ring, msg_ready, form, req, srid, mac, threw, faults, routes>>

NhrNode(p, pkt) == [id |-> srid[form[p].slot], slot |-> form[p].slot, pkt |-> pkt]
Dip(p) == type(form[p]) = "ARP_NEEDED_DIP"
Set(a, r) == req' = [req EXCEPT ![a] = r]
Start(p) == thr' = [thr EXCEPT ![p].pc = "attempt", ![p].attempts = 0]

(* The request is finished and no message waits: the packet goes on, and   *)
(* the ARP database or the result learns the address.                      *)
AlreadyFinished(p, a, r) ==
  /\ r.state = "FINISHED"
  /\ IF Throws(p) THEN /\ Throw(p)
                       /\ Set(a, IF Dip(p) THEN r
                                 ELSE [r EXCEPT !.nhr = <<NhrNode(p, NoPacket)>> \o @])
                       /\ UNCHANGED <<out, mac, faults>>
     ELSE /\ out' \in send_packet_to_data_path(out, p)
          /\ \/ /\ IF Dip(p)
                   THEN Set(a, [r EXCEPT !.valid = TRUE]) /\ UNCHANGED mac
                   ELSE /\ Set(a, [r EXCEPT !.nhr = <<NhrNode(p, NoPacket)>> \o @])
                        /\ mac' = [mac EXCEPT ![form[p].slot] = TRUE]
                /\ End(p) /\ UNCHANGED <<threw, faults>>
             \/ /\ Dip(p) /\ faults < MaxFaults /\ faults' = faults + 1
                /\ Throw(p) /\ UNCHANGED <<req, mac>>

(* The request exists and has not failed.                                  *)
Join(p, a, r) ==
  LET duplicate == IF Dip(p) THEN r.valid \/ r.dip # NoPacket
                   ELSE find_nhr(r, srid[form[p].slot]) # {}
  IN IF duplicate THEN out' = Drop(out, p) /\ End(p) /\ UNCHANGED <<req, mac, threw, faults>>
     ELSE \/ AlreadyFinished(p, a, r)
          \/ /\ r.state = "OUTSTANDING"
             /\ Set(a, IF Dip(p) THEN [r EXCEPT !.dip = p]
                       ELSE [r EXCEPT !.nhr = <<NhrNode(p, p)>> \o @])
             /\ End(p) /\ UNCHANGED <<out, mac, threw, faults>>

(* A new or a failed request: this thread will send.                       *)
Ask(p, a, r) ==
  LET old == find_nhr(r, srid[form[p].slot])
  IN /\ Set(a, [IF Dip(p) THEN [r EXCEPT !.dip = p]
                ELSE IF old # {} THEN [r EXCEPT !.nhr[CHOOSE i \in old : TRUE].pkt = p]
                ELSE [r EXCEPT !.nhr = <<NhrNode(p, p)>> \o @]
                  EXCEPT !.state = "OUTSTANDING"])
     /\ Start(p)
     /\ UNCHANGED <<out, mac, threw, faults>>

(* get_sram_map throws for a result whose route is gone.  By then a new    *)
(* request is in the list with the packet, a failed one is outstanding.    *)
NoRoute(p) == ~Dip(p) /\ srid[form[p].slot] = 0
GetSramMapThrows(p, a, r) ==
  /\ Set(a, CASE r.state = "NONE" -> [r EXCEPT !.state = "OUTSTANDING",
                                               !.nhr = <<NhrNode(p, p)>>]
              [] r.state = "FAILED" -> [r EXCEPT !.state = "OUTSTANDING"]
              [] OTHER -> r)
  /\ Throw(p) /\ UNCHANGED <<out, mac, faults>>

send_arp_request(p) ==
  LET a == thr[p].addr
      r == req[a]
  IN /\ thr[p].pc = "lock"
     /\ IF NoRoute(p) THEN GetSramMapThrows(p, a, r)
        ELSE IF r.state \in {"NONE", "FAILED"} THEN Ask(p, a, r)
        ELSE Join(p, a, r)
     /\ UNCHANGED <<ring, msg_ready, form, srid, routes>>

(* Without the lock: an ARP packet goes out, or no buffer is free and this *)
(* attempt does not even look at the request.                              *)
Attempt(p) ==
  /\ thr[p].pc = "attempt" /\ thr[p].attempts < Attempts
  /\ \/ thr' = [thr EXCEPT ![p].pc = "wake"]
     \/ thr' = [thr EXCEPT ![p].attempts = @ + 1]
  /\ UNCHANGED <<ring, msg_ready, form, out, req, srid, mac, threw, faults, routes>>

(* Mutant: the last attempt ends without giving up. *)
WakeMut(p) ==
  /\ thr[p].pc = "wake"
  /\ IF req[thr[p].addr].state = "FINISHED" \/ thr[p].attempts + 1 = Attempts
     THEN End(p) ELSE thr' = [thr EXCEPT ![p].pc = "attempt", ![p].attempts = @ + 1]
  /\ UNCHANGED <<ring, msg_ready, form, out, req, srid, mac, threw, faults, routes>>

(* After the sleep, with the lock.                                         *)
Wake(p) ==
  /\ thr[p].pc = "wake"
  /\ IF req[thr[p].addr].state = "FINISHED" THEN End(p)
     ELSE thr' = [thr EXCEPT ![p].pc = "attempt", ![p].attempts = @ + 1]
  /\ UNCHANGED <<ring, msg_ready, form, out, req, srid, mac, threw, faults, routes>>

(* Mutant: the packets stay with the request. *)
GiveUpMut(p) ==
  LET a == thr[p].addr
  IN /\ thr[p].pc = "attempt" /\ thr[p].attempts = Attempts
     /\ out' = [q \in Packets |-> IF q \in Waiting(req[a]) THEN Append(out[q], "flm")
                                                           ELSE out[q]]
     /\ Set(a, [req[a] EXCEPT !.state = "FAILED"])
     /\ End(p)
     /\ UNCHANGED <<ring, msg_ready, form, srid, mac, threw, faults, routes>>

(* After the last attempt: whatever the state is by now, the request has   *)
(* failed and its packets are dropped.                                     *)
GiveUp(p) ==
  LET a == thr[p].addr
  IN /\ thr[p].pc = "attempt" /\ thr[p].attempts = Attempts
     /\ out' = [q \in Packets |-> IF q \in Waiting(req[a]) THEN Append(out[q], "flm")
                                                           ELSE out[q]]
     /\ Set(a, [Cleared(req[a]) EXCEPT !.state = "FAILED"])
     /\ End(p)
     /\ UNCHANGED <<ring, msg_ready, form, srid, mac, threw, faults, routes>>

----------------------------------------------------------------------------
(* The user removes a route, or adds one in the slot of a removed one      *)
(* (Configuration, module NprTables).                                      *)
RouteChange(s) ==
  /\ routes < MaxRoutes /\ routes' = routes + 1
  /\ srid' = [srid EXCEPT ![s] = IF @ = 0 THEN routes' ELSE 0]
  /\ mac' = [mac EXCEPT ![s] = IF srid[s] = 0 THEN FALSE ELSE @]
  /\ UNCHANGED <<ring, msg_ready, form, thr, out, req, threw, faults>>

Step(p) ==
  \/ readmsg(p) \/ Ipv4(p) \/ process_arp_packet(p) \/ Reply(p)
  \/ ReadResult(p) \/ send_arp_request(p) \/ Attempt(p) \/ Wake(p) \/ GiveUp(p)

Next == \/ \E p \in Packets : Arrive(p) \/ Step(p)
        \/ check
        \/ \E s \in Slots : RouteChange(s)

Fairness == WF_vars(check) /\ \A p \in Packets : WF_vars(Step(p))
Spec == Init /\ [][Next]_vars /\ Fairness

----------------------------------------------------------------------------
(* Properties                                                              *)

(* No buffer goes back twice: a packet waiting for an address is sent by   *)
(* process_arp_packet or dropped by send_arp_request, never both, however  *)
(* their threads interleave with new packets for the same address.         *)
ReleasedOnce == \A p \in Packets : Len(out[p]) <= 1

(* Without an exception, a packet waits only in a request that some        *)
(* sleeping thread of send_arp_request will finish, and only one does.     *)
OneSenderPerRequest ==
  threw = {} =>
    \A a \in Addrs :
      LET senders == {p \in Packets : thr[p].pc \in {"attempt", "wake"} /\ thr[p].addr = a}
      IN /\ Cardinality(senders) <= 1
         /\ (req[a].state = "OUTSTANDING" \/ Waiting(req[a]) # {})
              => senders # {}

(* Without an exception every packet's buffer goes back in the end: no     *)
(* reply from the network and no lost wake-up keeps one forever.           *)
EveryPacketReleased ==
  \A p \in Packets : (form[p] # NoForm) ~> (out[p] # <<>> \/ threw # {})
=============================================================================
