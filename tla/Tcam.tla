-------------------------------- MODULE Tcam --------------------------------
(***************************************************************************)
(* The TCAM daemon of a network processor board (src/ixp/npr_tcam): it     *)
(* serves the two network processors of the board over one connection      *)
(* each, keeps four TCAM databases for each of them, and writes, removes   *)
(* and looks up entries by index.  A database maps the indices in use to   *)
(* entries [key, len, addr]: the first len bits of key are compared, addr  *)
(* is the result word.  Key fields that are always compared exactly (the   *)
(* port) are left out: one value stands for all.                           *)
(*                                                                         *)
(* The main loop handles one command at a time, so that a command and its  *)
(* answer are one step of the processor that sends it.                     *)
(***************************************************************************)
EXTENDS Naturals, FiniteSets

CONSTANTS Npus,     \* the processors: NPRA and NPRB
          KeyBits   \* number of bits of a key

VARIABLES conn,        \* conn[n]: n's connection is CONNECTED
          tcam_state,  \* tcam_state[n]: "STOP" or "INIT"
          dbs          \* dbs[n][d]: database d of n

vars == <<conn, tcam_state, dbs>>

Databases == {"route", "pfilter", "afilter", "arp"}

Empty == [i \in {} |-> 0]
NoDbs == [d \in Databases |-> Empty]

(* inittcam: no database exists before a processor asks for its own.        *)
inittcam ==
  /\ conn = [n \in Npus |-> FALSE]
  /\ tcam_state = [n \in Npus |-> "STOP"]
  /\ dbs = [n \in Npus |-> NoDbs]

(* Accept a processor's connection; a second one from the same address is  *)
(* closed at once.                                                         *)
Accept(n) ==
  /\ ~conn[n]
  /\ conn' = [conn EXCEPT ![n] = TRUE]
  /\ UNCHANGED <<tcam_state, dbs>>

(* routerstop destroys the databases of a processor.                       *)
routerstop(n) ==
  /\ tcam_state' = [tcam_state EXCEPT ![n] = "STOP"]
  /\ dbs' = [dbs EXCEPT ![n] = NoDbs]

(* A read or a write on the connection failed or the processor hung up:     *)
(* its databases go and the socket is closed.                              *)
Disconnect(n) ==
  /\ conn[n]
  /\ conn' = [conn EXCEPT ![n] = FALSE]
  /\ routerstop(n)

(* The databases are created; one that cannot be created takes the others  *)
(* with it and the answer is FAILURE.  A second ROUTERINIT changes nothing. *)
routerinit(n, ok) ==
  /\ conn[n]
  /\ tcam_state' = IF ok THEN [tcam_state EXCEPT ![n] = "INIT"] ELSE tcam_state
  /\ dbs' = IF tcam_state[n] = "INIT" THEN dbs ELSE [dbs EXCEPT ![n] = NoDbs]
  /\ UNCHANGED conn

----------------------------------------------------------------------------
(* What the answer to a command is, and the databases after it.            *)

(* write_fltr refuses an index in use (INUSE).                             *)
AddResponse(n, d, i) == IF i \in DOMAIN dbs[n][d] THEN "INUSE" ELSE "SUCCESS"
AddEntry(n, d, i, e) ==
  IF i \in DOMAIN dbs[n][d] THEN dbs
  ELSE [dbs EXCEPT ![n][d] =
          [j \in DOMAIN dbs[n][d] \cup {i} |-> IF j = i THEN e ELSE dbs[n][d][j]]]

addroute(n, i, e)   == AddEntry(n, "route", i, e)
addpfilter(n, i, e) == AddEntry(n, "pfilter", i, e)
addafilter(n, i, e) == AddEntry(n, "afilter", i, e)
addarp(n, i, e)     == AddEntry(n, "arp", i, e)

(* rem_fltr; an index not in use changes nothing.                           *)
DelEntry(n, d, i) ==
  [dbs EXCEPT ![n][d] = [j \in DOMAIN dbs[n][d] \ {i} |-> dbs[n][d][j]]]

delroute(n, i)   == DelEntry(n, "route", i)
delpfilter(n, i) == DelEntry(n, "pfilter", i)
delafilter(n, i) == DelEntry(n, "afilter", i)

(* lookup_fltr: the entries that match a key; the TCAM answers with the    *)
(* one of the lowest index.                                                *)
Matches(e, key) ==
  LET drop == 2^(KeyBits - e.len) IN e.key \div drop = key \div drop

Found(n, d, key) == {i \in DOMAIN dbs[n][d] : Matches(dbs[n][d][i], key)}

Lookup(n, d, key) ==
  dbs[n][d][CHOOSE i \in Found(n, d, key) : \A j \in Found(n, d, key) : i <= j].addr

(* The answer of a query: the result word, or 0 for NOTFOUND (the           *)
(* processors' results start at 1).                                        *)
Query(n, d, key) == IF Found(n, d, key) = {} THEN 0 ELSE Lookup(n, d, key)

queryroute(n, key)   == Query(n, "route", key)
querypfilter(n, key) == Query(n, "pfilter", key)
queryafilter(n, key) == Query(n, "afilter", key)
queryarp(n, key)     == Query(n, "arp", key)
=============================================================================
