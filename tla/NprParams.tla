------------------------------ MODULE NprParams ------------------------------
(***************************************************************************)
(* Queue parameters, port rates, sample rates and counters of the network  *)
(* processor router (Configuration and Monitor of src/ixp/npr): requests   *)
(* of the user, one thread each, that write and read SRAM words.           *)
(* A queue's parameters are at (port + 1) * 2^QidBits | qid; QidBits is 13 *)
(* in the code.                                                            *)
(***************************************************************************)
EXTENDS Naturals

CONSTANTS Reqs,      \* requests, one thread each
          MaxPort,   \* highest port: 4
          QidBits,   \* bits of a queue number within its port
          Qids,      \* queue numbers the user gives
          Values,    \* quanta and thresholds
          Rates,     \* port rates the user gives
          Unit,      \* QPORT_RATE_CONVERSION
          MaxIndex,  \* ONL_ROUTER_STATS_INDEX_MAX = ONL_ROUTER_REGISTERS_MAX
          Def        \* the default quantum and threshold

VARIABLES qparams,   \* qparams[a]: quantum and threshold at word a
          qfrom,     \* ghost: <<port, qid>> of the requests that wrote a
          prate,     \* prate[p]: the rate of port p, in units
          sample,    \* the sampling rates
          thr, answer

vars == <<qparams, qfrom, prate, sample, thr, answer>>

Ports == 0..MaxPort
Words == 0..(2^QidBits * (MaxPort + 2) * 2 - 1)

(* queue | ((port+1) << 13), for a queue number within its bits an addition. *)
QueueWord(port, qid) == (port + 1) * 2^QidBits + qid

(* The values start_router writes.                                         *)
Init ==
  /\ qparams = [a \in Words |-> [quantum |-> Def, threshold |-> Def]]
  /\ qfrom = [a \in Words |-> {}]
  /\ prate = [p \in Ports |-> 0]
  /\ sample = Def
  /\ thr = [r \in Reqs |-> [pc |-> "new"]]
  /\ answer = [r \in Reqs |-> "none"]

Fine(r) == /\ answer' = [answer EXCEPT ![r] = "Fine"]
           /\ thr' = [thr EXCEPT ![r] = [pc |-> "done"]]
Failed(r) == /\ answer' = [answer EXCEPT ![r] = "Failed"]
             /\ thr' = [thr EXCEPT ![r] = [pc |-> "done"]]

----------------------------------------------------------------------------
(* Two writes, each with sram_lock; the other thread may come between.     *)
set_queue_quantum(r, p, q, v) ==
  /\ qparams' = [qparams EXCEPT ![QueueWord(p, q)].quantum = v]
  /\ qfrom' = [qfrom EXCEPT ![QueueWord(p, q)] = @ \cup {<<p, q>>}]

set_queue_threshold(r, p, q, v) ==
  /\ qparams' = [qparams EXCEPT ![QueueWord(p, q)].threshold = v]
  /\ qfrom' = [qfrom EXCEPT ![QueueWord(p, q)] = @ \cup {<<p, q>>}]

set_queue_params_req(r) ==
  /\ thr[r].pc = "new"
  /\ \E p \in Ports, q \in Qids, quantum \in Values, threshold \in Values :
       /\ set_queue_quantum(r, p, q, quantum)
       /\ thr' = [thr EXCEPT ![r] = [pc |-> "threshold", port |-> p, qid |-> q, val |-> threshold]]
  /\ UNCHANGED <<prate, sample, answer>>

SetThreshold(r) ==
  /\ thr[r].pc = "threshold"
  /\ set_queue_threshold(r, thr[r].port, thr[r].qid, thr[r].val)
  /\ Fine(r)
  /\ UNCHANGED <<prate, sample>>

(* The rate is stored in units and read back for the answer, each with     *)
(* sram_lock.                                                              *)
set_port_rate(p, rate) == prate' = [prate EXCEPT ![p] = rate \div Unit]

set_port_rate_req(r) ==
  /\ thr[r].pc = "new"
  /\ \E p \in Ports \cup {MaxPort + 1}, rate \in Rates :
       IF p > MaxPort THEN Failed(r) /\ UNCHANGED prate
       ELSE /\ set_port_rate(p, rate)
            /\ thr' = [thr EXCEPT ![r] = [pc |-> "getrate", port |-> p, val |-> rate]]
            /\ UNCHANGED answer
  /\ UNCHANGED <<qparams, qfrom, sample>>

get_port_rate(p) == prate[p] * Unit

GetRate(r) ==
  /\ thr[r].pc = "getrate"
  /\ answer' = [answer EXCEPT ![r] = "Fine"]
  /\ thr' = [thr EXCEPT ![r] = [pc |-> "rate", port |-> thr[r].port, val |-> thr[r].val,
                                actual |-> get_port_rate(thr[r].port)]]
  /\ UNCHANGED <<qparams, qfrom, prate, sample>>

set_sample_rates(v) == sample' = v
set_sample_rates_req(r) ==
  /\ thr[r].pc = "new"
  /\ \E v \in Values : set_sample_rates(v)
  /\ Fine(r)
  /\ UNCHANGED <<qparams, qfrom, prate>>

----------------------------------------------------------------------------
(* Reads.  Each checks its index and answers with the word.                *)
Read(r, ok) ==
  /\ thr[r].pc = "new"
  /\ IF ok THEN Fine(r) ELSE Failed(r)
  /\ UNCHANGED <<qparams, qfrom, prate, sample>>

read_stats_register(index) == index <= MaxIndex
read_stats_counter(index, counter) == counter <= 3 /\ index <= MaxIndex
read_queue_length(p, q) == p <= MaxPort /\ q < 2^QidBits * (MaxPort + 2)

Indices == {0, MaxIndex, MaxIndex + 1}
ReadRegister(r) == \E i \in Indices : Read(r, read_stats_register(i))
ReadCounter(r, c) == \E i \in Indices : Read(r, read_stats_counter(i, c))

get_rx_pkt_req(r) == ReadRegister(r)
get_rx_byte_req(r) == ReadRegister(r)
get_tx_pkt_req(r) == ReadRegister(r)
get_tx_byte_req(r) == ReadRegister(r)
get_reg_pkt_req(r) == ReadRegister(r)
get_reg_byte_req(r) == ReadRegister(r)
get_stats_preq_byte_req(r) == ReadCounter(r, 0)
get_stats_preq_pkt_req(r) == ReadCounter(r, 1)
get_stats_postq_byte_req(r) == ReadCounter(r, 2)
get_stats_postq_pkt_req(r) == ReadCounter(r, 3)
get_plugin_counter_req(r) == ReadRegister(r)
get_queue_len_req(r) ==
  \E p \in Ports \cup {MaxPort + 1}, q \in Qids : Read(r, read_queue_length(p, q))

Request(r) ==
  \/ set_queue_params_req(r) \/ set_port_rate_req(r) \/ set_sample_rates_req(r)
  \/ get_rx_pkt_req(r) \/ get_rx_byte_req(r) \/ get_tx_pkt_req(r) \/ get_tx_byte_req(r)
  \/ get_reg_pkt_req(r) \/ get_reg_byte_req(r)
  \/ get_stats_preq_byte_req(r) \/ get_stats_preq_pkt_req(r)
  \/ get_stats_postq_byte_req(r) \/ get_stats_postq_pkt_req(r)
  \/ get_plugin_counter_req(r) \/ get_queue_len_req(r)

Next == \E r \in Reqs : Request(r) \/ SetThreshold(r) \/ GetRate(r)
Spec == Init /\ [][Next]_vars

----------------------------------------------------------------------------
(* Properties                                                              *)

(* Queues of different ports never share a parameter word, as long as the  *)
(* queue numbers fit their bits, and a port rate is never reported above   *)
(* what some request asked for that port.                                  *)
QueuesApart ==
  /\ \A a \in Words : \A x, y \in qfrom[a] : x = y
  /\ \A r \in Reqs : thr[r].pc = "rate" =>
       \E s \in Reqs : /\ thr[s].pc \in {"rate", "getrate"} /\ thr[s].port = thr[r].port
                       /\ thr[r].actual <= thr[s].val /\ thr[s].val < thr[r].actual + Unit
=============================================================================
