----------------------------- MODULE NprTables -----------------------------
(***************************************************************************)
(* The tables of the network processor router (class Configuration of      *)
(* src/ixp/npr): routes, primary and auxiliary filters and ARP entries in  *)
(* the TCAM, their results in SRAM, and the lists of free indices.  The    *)
(* order of the TCAM decides which entry matches, so each prefix length    *)
(* and each priority owns a class of indices; the constants of             *)
(* nprd_configuration.h are parameters here.                               *)
(*                                                                         *)
(* Every request of the user runs in a thread of its own; packets of the   *)
(* data path add ARP entries from another.  The threads meet at conf_lock, *)
(* sram_lock and tcam_lock, each held for one step: a step below is what   *)
(* one thread does between two lock operations.                            *)
(***************************************************************************)
EXTENDS NprFields, FiniteSets

CONSTANTS Npus, Npu,    \* the processors of the board, and this one
          MaxPrefix,    \* MAX_PREFIX_LEN, the bits of an address
          PerClass,     \* ROUTE_MC_NUM_PER_CLASS = ROUTE_UC_NUM_PER_CLASS
          MaxPriority,  \* MAX_PRIORITY
          FilterClass,  \* PFILTER_NUM_PER_CLASS = AFILTER_NUM_PER_CLASS
          NumArp,       \* ARP_NUM_ENTRIES
          NumResults,   \* RESULT_NUM_ENTRIES
          DefPriority,  \* the priority 60 of the default filters
          Defaults,     \* the default filters (keys), a sequence
          Filters,      \* the fields of the filters the user sends
          RliThreads,   \* threads that handle the user's requests
          ArpThread,    \* the thread that handles ARP packets
          MaxFaults     \* bound on failures of the TCAM daemon

VARIABLES conn, tcam_state, dbs,  \* the TCAM daemon (module Tcam)
          router,   \* "STOP", "INIT" (default filters going in), "START", "EXIT"
          todo,     \* default filters still to be added
          free,     \* free[l]: the index list l, a sequence of ranges
          sram,     \* sram[a]: the result at a and its fourth word, the index
          srmap,    \* srmap[a]: number of sram_result_map nodes for a
          arpKnown, \* addresses whose request has valid_arp_db_entry set
          thr,      \* the threads
          lost,     \* ghost: an exception dropped indices it had taken
          faults

tcamVars == <<conn, tcam_state, dbs>>
vars == <<conn, tcam_state, dbs, router, todo, free, sram, srmap, arpKnown,
          thr, lost, faults>>

T == INSTANCE Tcam WITH KeyBits <- MaxPrefix

Main == "main"
Threads == RliThreads \cup {ArpThread, Main}
Keys == 0..(2^MaxPrefix - 1)
Results == 1..(NumResults - 2)

----------------------------------------------------------------------------
(* Index lists                                                             *)

McFirst == 1
McLast == McFirst + PerClass * (MaxPrefix + 1)
UcFirst == McLast + 3

Lists == {<<"sram", 0>>, <<"arp", 0>>}
         \cup ({"mc", "uc"} \X (0..MaxPrefix))
         \cup ({"pfilter", "afilter"} \X (0..MaxPriority))

(* The database whose indices a list holds.                                *)
DbOf(l) == IF l[1] \in {"mc", "uc"} THEN "route" ELSE l[1]

get_free_index(s) ==
  [index |-> s[1][1],
   list  |-> IF s[1][1] # s[1][2] THEN [s EXCEPT ![1][1] = @ + 1] ELSE Tail(s)]

(* add_free_index puts x behind the ranges that end before it and joins it *)
(* with its neighbours.                                                    *)
add_free_index(s, x) ==
  LET k == CHOOSE j \in 0..Len(s) :
             /\ \A i \in 1..j : s[i][2] < x
             /\ j < Len(s) => s[j + 1][2] >= x
      left  == k > 0 /\ s[k][2] = x - 1
      right == k < Len(s) /\ s[k + 1][1] = x + 1
  IN SubSeq(s, 1, IF left THEN k - 1 ELSE k)
       \o << <<IF left THEN s[k][1] ELSE x, IF right THEN s[k + 1][2] ELSE x>> >>
       \o SubSeq(s, IF right THEN k + 2 ELSE k + 1, Len(s))

IndexRange(l, n) == << <<l, l + n - 1>> >>

(* The classes of start_router: prefixes of length 1 leave one index to    *)
(* the default route.  The unicast class of length 1 starts one class      *)
(* further than the others (MAX_PREFIX_LEN-0 instead of -1).               *)
RouteClass(kind, i) ==
  LET base == IF kind = "mc" THEN McFirst ELSE UcFirst
      one  == base + PerClass * (IF kind = "mc" THEN MaxPrefix - 1 ELSE MaxPrefix)
  IN CASE i = 0 -> IndexRange(one + PerClass - 1, 1)
       [] i = 1 -> IndexRange(one, PerClass - 1)
       [] OTHER -> IndexRange(base + PerClass * (MaxPrefix - i), PerClass)

InitialLists ==
  [l \in Lists |->
     CASE l[1] = "sram" -> IndexRange(1, NumResults - 2)
       [] l[1] = "arp" -> IndexRange(1, NumArp - 2)
       [] l[1] \in {"mc", "uc"} -> RouteClass(l[1], l[2])
       [] OTHER -> IndexRange(1 + FilterClass * l[2], FilterClass)]

(* The list del_route and del_pfilter, del_afilter give an index back to.  *)
RouteListOf(x) ==
  LET kind == IF x >= McFirst /\ x <= McLast THEN "mc" ELSE "uc"
      base == IF kind = "mc" THEN McFirst ELSE UcFirst
      len  == MaxPrefix - ((x - base) \div PerClass)
  IN <<kind, IF len = 1 /\ x = base + PerClass * MaxPrefix - 1 THEN 0 ELSE len>>

FilterListOf(d, x) == <<d, MaxPriority - ((x - 1) \div FilterClass)>>

ListOf(d, x) ==
  CASE d = "route" -> RouteListOf(x)
    [] d = "arp" -> <<"arp", 0>>
    [] OTHER -> FilterListOf(d, x)

----------------------------------------------------------------------------
(* Threads                                                                 *)

Idle == [pc |-> "idle", op |-> "none", db |-> "route", key |-> 0, len |-> 0,
         list |-> <<"uc", 0>>, index |-> 0, addr |-> 0]

NoResult == [of |-> <<>>, index |-> 0]
ResultOf(r) == [of |-> <<r.db, r.key, r.len>>, index |-> r.index]

Init ==
  /\ T!inittcam
  /\ router = "STOP"
  /\ todo = Defaults
  /\ free = [l \in Lists |-> <<>>]
  /\ sram = [a \in Results |-> NoResult]
  /\ srmap = [a \in Results |-> 0]
  /\ arpKnown = {}
  /\ thr = [t \in Threads |-> Idle]
  /\ lost = FALSE
  /\ faults = 0

Begin(t, r) == thr[t].pc = "idle" /\ thr' = [thr EXCEPT ![t] = r]
Goto(t, pc) == thr' = [thr EXCEPT ![t].pc = pc]

(* The handler answers: Fine at the end, Failed for any exception.  An      *)
(* exception in the main thread's init ends the daemon.                    *)
Throw(t) ==
  IF t = Main THEN /\ router' = "EXIT"
                   /\ thr' = [x \in Threads |-> Idle]
              ELSE /\ thr' = [thr EXCEPT ![t] = Idle]
                   /\ UNCHANGED router

Answer(t) == thr' = [thr EXCEPT ![t] = Idle] /\ UNCHANGED router

----------------------------------------------------------------------------
(* The steps of add_route, add_pfilter, add_afilter and add_arp            *)

Adding(db, key, len, list) ==
  [Idle EXCEPT !.pc = "alloc", !.op = "add", !.db = db, !.key = key,
               !.len = len, !.list = list]

(* With conf_lock: a TCAM index, a result slot and (except for ARP) a node  *)
(* of the result map.  Without a free slot the TCAM index already taken is *)
(* not given back.                                                         *)
Alloc(t) ==
  LET r == thr[t]
      tcam == get_free_index(free[r.list])
      res  == get_free_index(free[<<"sram", 0>>])
  IN /\ r.pc = "alloc"
     /\ IF free[r.list] = <<>>
        THEN Throw(t) /\ UNCHANGED <<free, srmap, lost>>
        ELSE IF free[<<"sram", 0>>] = <<>>
        THEN /\ free' = [free EXCEPT ![r.list] = tcam.list]
             /\ lost' = TRUE
             /\ Throw(t)
             /\ UNCHANGED srmap
        ELSE /\ free' = [free EXCEPT ![r.list] = tcam.list,
                                     ![<<"sram", 0>>] = res.list]
             /\ srmap' = IF r.db = "arp" THEN srmap
                         ELSE [srmap EXCEPT ![res.index] = @ + 1]
             /\ thr' = [thr EXCEPT ![t].pc = "result", ![t].index = tcam.index,
                                   ![t].addr = res.index]
             /\ UNCHANGED <<lost, router>>
     /\ UNCHANGED <<conn, tcam_state, dbs, todo, sram, arpKnown, faults>>

(* Mutant: the result goes to the place of the TCAM's index. *)
WriteResultMut(t) ==
  /\ thr[t].pc = "result"
  /\ sram' = [a \in Results |->
       IF a = thr[t].index THEN ResultOf(thr[t]) ELSE sram[a]]
  /\ Goto(t, "tcam")
  /\ UNCHANGED <<conn, tcam_state, dbs, router, todo, free, srmap, arpKnown,
                 lost, faults>>

(* With sram_lock: the result, before the TCAM entry that leads to it.     *)
WriteResult(t) ==
  /\ thr[t].pc = "result"
  /\ sram' = [sram EXCEPT ![thr[t].addr] = ResultOf(thr[t])]
  /\ Goto(t, "tcam")
  /\ UNCHANGED <<conn, tcam_state, dbs, router, todo, free, srmap, arpKnown,
                 lost, faults>>

TcamEntry(r) == [key |-> r.key, len |-> r.len, addr |-> r.addr]

TcamAdd(r) ==
  CASE r.db = "route" -> T!addroute(Npu, r.index, TcamEntry(r))
    [] r.db = "pfilter" -> T!addpfilter(Npu, r.index, TcamEntry(r))
    [] r.db = "afilter" -> T!addafilter(Npu, r.index, TcamEntry(r))
    [] r.db = "arp" -> T!addarp(Npu, r.index, TcamEntry(r))

(* With tcam_lock: the command to the TCAM daemon.  A lost connection or an *)
(* answer other than SUCCESS is an exception that keeps both indices.      *)
WriteTcam(t) ==
  LET r == thr[t]
      ok == conn[Npu] /\ T!AddResponse(Npu, r.db, r.index) = "SUCCESS"
  IN /\ r.pc = "tcam"
     /\ dbs' = IF ok THEN TcamAdd(r) ELSE dbs
     /\ IF ok THEN Answer(t) /\ UNCHANGED lost ELSE Throw(t) /\ lost' = TRUE
     /\ arpKnown' = IF ok /\ r.db = "arp" THEN arpKnown \cup {r.key} ELSE arpKnown
     /\ UNCHANGED <<conn, tcam_state, todo, free, sram, srmap, faults>>

(* The request's part of an add: the class its index comes from.           *)
add_route(t, key, len) == Begin(t, Adding("route", key, len, <<"uc", len>>))
add_pfilter(t, key, len, prio) ==
  Begin(t, Adding("pfilter", key, len, <<"pfilter", prio>>))
add_afilter(t, key, len, prio) ==
  Begin(t, Adding("afilter", key, len, <<"afilter", prio>>))
add_arp(t, key) == Begin(t, Adding("arp", key, MaxPrefix, <<"arp", 0>>))

----------------------------------------------------------------------------
(* The steps of del_route, del_pfilter, del_afilter and update_arp         *)

TcamQuery(r) ==
  CASE r.db = "route" -> T!queryroute(Npu, r.key)
    [] r.db = "pfilter" -> T!querypfilter(Npu, r.key)
    [] r.db = "afilter" -> T!queryafilter(Npu, r.key)
    [] r.db = "arp" -> T!queryarp(Npu, r.key)

Looking(op, db, key) ==
  [Idle EXCEPT !.pc = "query", !.op = op, !.db = db, !.key = key]

(* With tcam_lock: the result address of the entry that matches the key.   *)
QueryTcam(t) ==
  LET found == IF conn[Npu] THEN TcamQuery(thr[t]) ELSE 0
  IN /\ thr[t].pc = "query"
     /\ IF found = 0
        THEN Throw(t)
        ELSE /\ thr' = [thr EXCEPT ![t].addr = found,
                          ![t].pc = IF thr[t].op = "del" THEN "read" ELSE "update"]
             /\ UNCHANGED router
     /\ UNCHANGED <<conn, tcam_state, dbs, todo, free, sram, srmap, arpKnown,
                    lost, faults>>

(* With sram_lock: the fourth word tells the TCAM index.                   *)
ReadIndex(t) ==
  /\ thr[t].pc = "read"
  /\ thr' = [thr EXCEPT ![t].index = sram[thr[t].addr].index, ![t].pc = "remove"]
  /\ UNCHANGED <<conn, tcam_state, dbs, router, todo, free, sram, srmap,
                 arpKnown, lost, faults>>

(* With tcam_lock: only FAILURE is an exception, ALREADYINVALID is not.    *)
RemoveTcam(t) ==
  LET r == thr[t]
  IN /\ r.pc = "remove"
     /\ dbs' = IF ~conn[Npu] THEN dbs
               ELSE CASE r.db = "route" -> T!delroute(Npu, r.index)
                      [] r.db = "pfilter" -> T!delpfilter(Npu, r.index)
                      [] r.db = "afilter" -> T!delafilter(Npu, r.index)
     /\ IF conn[Npu] THEN Goto(t, "free") /\ UNCHANGED router ELSE Throw(t)
     /\ UNCHANGED <<conn, tcam_state, todo, free, sram, srmap, arpKnown, lost,
                    faults>>

(* Mutant: the result is not given back. *)
FreeIndicesMut(t) ==
  LET r == thr[t]
  IN /\ r.pc = "free"
     /\ free' = [free EXCEPT ![ListOf(r.db, r.index)] = add_free_index(@, r.index)]
     /\ srmap' = [srmap EXCEPT ![r.addr] = 0]
     /\ Answer(t)
     /\ UNCHANGED <<conn, tcam_state, dbs, todo, sram, arpKnown, lost, faults>>

(* With conf_lock: both indices go back, and the node of the result map    *)
(* (whose absence is an exception too late to matter).                     *)
FreeIndices(t) ==
  LET r == thr[t]
      l == ListOf(r.db, r.index)
  IN /\ r.pc = "free"
     /\ free' = [free EXCEPT ![<<"sram", 0>>] = add_free_index(@, r.addr),
                             ![l] = add_free_index(@, r.index)]
     /\ srmap' = [srmap EXCEPT ![r.addr] = IF @ = 0 THEN 0 ELSE @ - 1]
     /\ Answer(t)
     /\ UNCHANGED <<conn, tcam_state, dbs, todo, sram, arpKnown, lost, faults>>

(* update_arp writes the new hardware address into the result.             *)
UpdateArp(t) ==
  /\ thr[t].pc = "update"
  /\ sram' = [sram EXCEPT ![thr[t].addr].of = <<"arp", thr[t].key, MaxPrefix>>]
  /\ Answer(t)
  /\ UNCHANGED <<conn, tcam_state, dbs, todo, free, srmap, arpKnown, lost, faults>>

del_route(t, key) == Begin(t, Looking("del", "route", key))
del_pfilter(t, key) == Begin(t, Looking("del", "pfilter", key))
del_afilter(t, key) == Begin(t, Looking("del", "afilter", key))
update_arp(t, key) == Begin(t, Looking("update", "arp", key))

----------------------------------------------------------------------------
(* The daemon starts                                                       *)

others == <<router, todo, free, sram, srmap, arpKnown, thr, lost, faults>>
tables == <<conn, tcam_state, dbs, router, todo, free, sram, srmap, arpKnown,
            lost, faults>>

(* The constructor connects to the TCAM daemon.                            *)
Connect == router = "STOP" /\ T!Accept(Npu) /\ UNCHANGED others

(* ROUTERINIT, then memory, lists and microengines.                        *)
start_router ==
  /\ router = "STOP"
  /\ \E ok \in BOOLEAN :
       /\ ok \/ faults < MaxFaults
       /\ T!routerinit(Npu, ok)
       /\ faults' = IF ok THEN faults ELSE faults + 1
  /\ router' = IF tcam_state'[Npu] = "INIT" THEN "INIT" ELSE "EXIT"
  /\ free' = IF router' = "INIT" THEN InitialLists ELSE free
  /\ UNCHANGED <<todo, sram, srmap, arpKnown, thr, lost>>

(* The default filters follow, outside the lock.                           *)
AddDefault ==
  /\ router = "INIT" /\ todo # <<>>
  /\ add_pfilter(Main, Head(todo), MaxPrefix, DefPriority)
  /\ todo' = Tail(todo)
  /\ UNCHANGED <<conn, tcam_state, dbs, router, free, sram, srmap, arpKnown,
                 lost, faults>>

(* Then init returns and the requests of the user are received.            *)
receive_messages ==
  /\ router = "INIT" /\ todo = <<>> /\ thr[Main].pc = "idle"
  /\ router' = "START"
  /\ UNCHANGED <<conn, tcam_state, dbs, todo, free, sram, srmap, arpKnown, thr,
                 lost, faults>>

(* The connection to the TCAM daemon breaks; nothing reconnects.           *)
TcamdFails ==
  /\ faults < MaxFaults /\ faults' = faults + 1
  /\ router \in {"INIT", "START"}
  /\ T!Disconnect(Npu)
  /\ UNCHANGED <<router, todo, free, sram, srmap, arpKnown, thr, lost>>

----------------------------------------------------------------------------
(* Requests                                                                *)

(* A prefix of a length: the bits after the mask are not compared.         *)
Prefixes(len) == {k \in Keys : k % 2^(MaxPrefix - len) = 0}

add_route_req(t) ==
  \E len \in 0..MaxPrefix : \E k \in Prefixes(len) : add_route(t, k, len)

delete_route_req(t) == \E k \in Keys : del_route(t, k)

(* A filter compares its fields (len = MaxPrefix) or leaves them open      *)
(* (len = 0).  Fields that do not convert, a priority above MAX_PRIORITY   *)
(* and an auxiliary filter that would use the route are answered Failed.   *)
add_filter_req(t) ==
  \E f \in Filters, aux \in BOOLEAN, len \in {0, MaxPrefix}, prio \in 0..MaxPriority :
    \E k \in Prefixes(len), port \in OutputPorts(f) :
      /\ Converts(f) /\ ~(aux /\ port = UseRoute)
      /\ IF aux THEN add_afilter(t, k, len, prio) ELSE add_pfilter(t, k, len, prio)

delete_filter_req(t) ==
  \E f \in Filters, aux \in BOOLEAN, k \in Keys :
    /\ ConvertsKey(f)
    /\ IF aux THEN del_afilter(t, k) ELSE del_pfilter(t, k)

Refused(t) ==
  /\ thr[t].pc = "idle" /\ UNCHANGED thr
  /\ \E f \in Filters, aux \in BOOLEAN, prio \in 0..(MaxPriority + 1) :
       \/ ~Converts(f) \/ prio > MaxPriority
       \/ aux /\ UseRoute \in OutputPorts(f)

(* configure_port: a default filter delivers the packets for a port.       *)
configure_node_req(t) ==
  \E k \in Keys : add_pfilter(t, k, MaxPrefix, DefPriority)

Request(t) ==
  /\ router = "START" /\ t \in RliThreads
  /\ \/ configure_node_req(t)
     \/ add_route_req(t) \/ delete_route_req(t)
     \/ add_filter_req(t) \/ delete_filter_req(t) \/ Refused(t)
  /\ UNCHANGED tables

(* An ARP packet of the data path (module NprPackets decides which).       *)
ArpPacket ==
  /\ router = "START"
  /\ \E k \in Keys : IF k \in arpKnown THEN update_arp(ArpThread, k)
                                       ELSE add_arp(ArpThread, k)
  /\ UNCHANGED tables

Step(t) ==
  \/ Alloc(t) \/ WriteResult(t) \/ WriteTcam(t)
  \/ QueryTcam(t) \/ ReadIndex(t) \/ RemoveTcam(t) \/ FreeIndices(t)
  \/ UpdateArp(t)

Start == Connect \/ start_router \/ AddDefault \/ receive_messages

Next == \/ Start \/ TcamdFails \/ ArpPacket
        \/ \E t \in RliThreads : Request(t)
        \/ \E t \in Threads : Step(t)

Spec == Init /\ [][Next]_vars

----------------------------------------------------------------------------
(* Properties                                                              *)

TypeOK ==
  /\ router \in {"STOP", "INIT", "START", "EXIT"}
  /\ free \in [Lists -> Seq(Nat \X Nat)]
  /\ \A l \in Lists : \A i \in DOMAIN free[l] : free[l][i][1] <= free[l][i][2]
  /\ srmap \in [Results -> Nat]
  /\ DOMAIN thr = Threads

Holds(s, x) == \E i \in DOMAIN s : x \in s[i][1]..s[i][2]

(* The pairs <<database, index>> a thread owns between taking them from    *)
(* the free lists and handing them to the TCAM, or back.                   *)
InFlight(t) == thr[t].op = "add" /\ thr[t].pc \in {"result", "tcam"}
Freeing(t) == thr[t].op = "del" /\ thr[t].pc \in {"free"}
Taken(t) == InFlight(t) \/ Freeing(t)

Entries == UNION {{d} \X DOMAIN dbs[Npu][d] : d \in T!Databases}

(* Every entry of the TCAM leads to its own result: the SRAM slot of its    *)
(* result word was written before the entry (add_route, add_pfilter,       *)
(* add_afilter, add_arp) and names the entry's index in its fourth word,   *)
(* which is what del_route and the others remove.  ARP results may be      *)
(* rewritten by update_arp, for the same address.                          *)
ResultsInPlace ==
  \A e \in Entries :
    LET entry == dbs[Npu][e[1]][e[2]]
    IN sram[entry.addr] = [of |-> <<e[1], entry.key, entry.len>>, index |-> e[2]]

(* No TCAM index and no result slot is free while an entry or a thread     *)
(* still uses it, whatever the order of requests and ARP packets           *)
(* (get_free_index, add_free_index).                                       *)
NothingFreeInUse ==
  /\ \A e \in Entries :
       /\ ~\E l \in Lists : DbOf(l) = e[1] /\ Holds(free[l], e[2])
       /\ ~Holds(free[<<"sram", 0>>], dbs[Npu][e[1]][e[2]].addr)
  /\ \A t \in Threads : Taken(t) =>
       /\ ~\E l \in Lists : DbOf(l) = thr[t].db /\ Holds(free[l], thr[t].index)
       /\ ~Holds(free[<<"sram", 0>>], thr[t].addr)

(* No index is leaked: unless an exception dropped indices, every result   *)
(* slot is free, the result of an entry, or in the hands of a thread, and  *)
(* the result map has one node for each slot in use except those of ARP.   *)
NoSlotLeaked ==
  (router = "START" /\ ~lost /\ conn[Npu]) =>
    \A a \in Results :
      /\ \/ Holds(free[<<"sram", 0>>], a)
         \/ \E e \in Entries : dbs[Npu][e[1]][e[2]].addr = a
         \/ \E t \in Threads : Taken(t) /\ thr[t].addr = a
      /\ srmap[a] <= 1
      /\ srmap[a] = 1 => ~Holds(free[<<"sram", 0>>], a)

(* "for unicast, we do LPM on destination IP addy, so TCAM entries need to *)
(* be in LP first order on dest IP" (add_route): a longer prefix has a     *)
(* lower index.                                                            *)
LongestPrefixFirst ==
  \A i, j \in DOMAIN dbs[Npu]["route"] :
    i < j => dbs[Npu]["route"][i].len >= dbs[Npu]["route"][j].len
=============================================================================
