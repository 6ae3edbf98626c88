------------------------------ MODULE NmdProofs ------------------------------
(***************************************************************************)
(* That the network management daemon loses no vlan, for every number of   *)
(* sessions, vlans, switches, ports, threads and requests.  A vlan that no *)
(* list has is in the hands of a thread; what makes the proof long is that *)
(* clear_if_empty reads a vlan without its lock, so that two sessions may  *)
(* have one vlan, and the ports one of them adds are on switches that the  *)
(* other does not clear.  The lemmas say first what each step does to the  *)
(* tables and to its request (the Step lemmas), then that this keeps the   *)
(* invariant (the Keep lemmas).                                            *)
(***************************************************************************)
EXTENDS DaemonsProofs

-----------------------------------------------------------------------------
(***************************************************************************)
(* Lists as sets.                                                          *)
(***************************************************************************)
ToSet(q) == {q[i] : i \in DOMAIN q}

LEMMA ElementsSet ==
  ASSUME NEW T, NEW q \in Seq(T)
  PROVE  ToSet(q) \subseteq T
BY DEF ToSet

LEMMA AppendSet ==
  ASSUME NEW T, NEW q \in Seq(T), NEW x \in T
  PROVE  /\ Append(q, x) \in Seq(T) /\ ToSet(Append(q, x)) = ToSet(q) \cup {x}
         /\ ToSet(q) \subseteq T
<1> DEFINE a == Append(q, x)
<1>1. /\ a \in Seq(T) /\ Len(a) = Len(q) + 1 /\ a[Len(q) + 1] = x
      /\ \A i \in 1..Len(q) : a[i] = q[i]
  OBVIOUS
<1>2. DOMAIN a = 1..(Len(q) + 1) /\ DOMAIN q = 1..Len(q) /\ Len(q) \in Nat
  BY <1>1
<1> HIDE DEF a
<1>3. ASSUME NEW y \in ToSet(a)
      PROVE  y \in ToSet(q) \cup {x}
  <2>1. PICK i \in 1..(Len(q) + 1) : y = a[i]
    BY <1>2, <1>3 DEF ToSet
  <2>2. CASE i \in 1..Len(q)
    BY <1>1, <1>2, <2>1, <2>2 DEF ToSet
  <2>3. CASE i = Len(q) + 1
    BY <1>1, <2>1, <2>3
  <2> QED
    BY <1>2, <2>1, <2>2, <2>3
<1>4. ASSUME NEW y \in ToSet(q) \cup {x}
      PROVE  y \in ToSet(a)
  <2>1. CASE y = x
    <3>1. Len(q) + 1 \in DOMAIN a
      BY <1>2
    <3> QED
      BY <1>1, <2>1, <3>1 DEF ToSet
  <2>2. CASE y \in ToSet(q)
    <3>1. PICK i \in 1..Len(q) : y = q[i]
      BY <1>2, <2>2 DEF ToSet
    <3>2. i \in DOMAIN a
      BY <1>2, <3>1
    <3> QED
      BY <1>1, <3>1, <3>2 DEF ToSet
  <2> QED
    BY <1>4, <2>1, <2>2
<1>5. ToSet(q) \subseteq T
  BY DEF ToSet
<1> QED
  BY <1>1, <1>3, <1>4, <1>5 DEF a

LEMMA JoinedSet ==
  ASSUME NEW T, NEW a \in Seq(T), NEW b \in Seq(T)
  PROVE  a \o b \in Seq(T) /\ ToSet(a \o b) = ToSet(a) \cup ToSet(b)
<1> DEFINE c == a \o b
<1>1. /\ c \in Seq(T) /\ Len(c) = Len(a) + Len(b)
      /\ \A j \in 1..(Len(a) + Len(b)) : c[j] = IF j <= Len(a) THEN a[j] ELSE b[j - Len(a)]
  BY Joined
<1>2. /\ DOMAIN c = 1..(Len(a) + Len(b)) /\ DOMAIN a = 1..Len(a) /\ DOMAIN b = 1..Len(b)
      /\ Len(a) \in Nat /\ Len(b) \in Nat
  BY <1>1
<1> HIDE DEF c
<1>3. ASSUME NEW y \in ToSet(c)
      PROVE  y \in ToSet(a) \cup ToSet(b)
  <2>1. PICK j \in 1..(Len(a) + Len(b)) : y = c[j]
    BY <1>2, <1>3 DEF ToSet
  <2>2. CASE j <= Len(a)
    <3>1. j \in DOMAIN a /\ y = a[j]
      BY <1>1, <1>2, <2>1, <2>2
    <3> QED
      BY <3>1 DEF ToSet
  <2>3. CASE j > Len(a)
    <3>1. j - Len(a) \in DOMAIN b /\ y = b[j - Len(a)]
      BY <1>1, <1>2, <2>1, <2>3
    <3> QED
      BY <3>1 DEF ToSet
  <2> QED
    BY <1>2, <2>1, <2>2, <2>3
<1>4. ASSUME NEW y \in ToSet(a)
      PROVE  y \in ToSet(c)
  <2>1. PICK i \in 1..Len(a) : y = a[i]
    BY <1>2, <1>4 DEF ToSet
  <2>2. i \in DOMAIN c /\ c[i] = a[i]
    BY <1>1, <1>2, <2>1
  <2> QED
    BY <2>1, <2>2 DEF ToSet
<1>5. ASSUME NEW y \in ToSet(b)
      PROVE  y \in ToSet(c)
  <2>1. PICK i \in 1..Len(b) : y = b[i]
    BY <1>2, <1>5 DEF ToSet
  <2>2. Len(a) + i \in DOMAIN c /\ c[Len(a) + i] = b[i]
    <3>1. Len(a) + i \in 1..(Len(a) + Len(b)) /\ ~(Len(a) + i <= Len(a)) /\ Len(a) + i - Len(a) = i
      BY <1>2, <2>1
    <3> QED
      BY <1>1, <1>2, <3>1
  <2> QED
    BY <2>1, <2>2 DEF ToSet
<1> QED
  BY <1>1, <1>3, <1>4, <1>5 DEF c

LEMMA HeadSet ==
  ASSUME NEW T, NEW q \in Seq(T), q # <<>>
  PROVE  /\ Head(q) \in ToSet(q) /\ Head(q) \in T /\ Tail(q) \in Seq(T)
         /\ ToSet(q) \subseteq ToSet(Tail(q)) \cup {Head(q)}
<1>1. /\ Head(q) = q[1] /\ 1 \in DOMAIN q /\ Tail(q) \in Seq(T) /\ q[1] \in T
      /\ Len(Tail(q)) = Len(q) - 1 /\ DOMAIN q = 1..Len(q) /\ Len(q) \in Nat
      /\ DOMAIN Tail(q) = 1..Len(Tail(q))
  OBVIOUS
<1>2. \A i \in 1..(Len(q) - 1) : Tail(q)[i] = q[i + 1]
  OBVIOUS
<1>3. ASSUME NEW y \in ToSet(q)
      PROVE  y \in ToSet(Tail(q)) \cup {Head(q)}
  <2>1. PICK i \in 1..Len(q) : y = q[i]
    BY <1>1, <1>3 DEF ToSet
  <2>2. CASE i = 1
    BY <1>1, <2>1, <2>2
  <2>3. CASE i # 1
    <3>1. i - 1 \in 1..(Len(q) - 1) /\ (i - 1) + 1 = i
      BY <1>1, <2>1, <2>3
    <3>2. i - 1 \in DOMAIN Tail(q) /\ Tail(q)[i - 1] = y
      BY <1>1, <1>2, <2>1, <3>1
    <3> QED
      BY <3>2 DEF ToSet
  <2> QED
    BY <2>2, <2>3
<1> QED
  BY <1>1, <1>3 DEF ToSet

(* SetToSeq lists a finite set.                                             *)
LEMMA ListedSet ==
  ASSUME NEW S, IsFiniteSet(S)
  PROVE  Nm!SetToSeq(S) \in Seq(S) /\ ToSet(Nm!SetToSeq(S)) = S
<1> DEFINE n == Cardinality(S)
           f == Nm!SetToSeq(S)
<1>1. n \in Nat /\ ExistsBijection(1..n, S)
  BY FS_CardinalityType
<1>2. PICK g \in Bijection(1..n, S) : TRUE
  BY <1>1 DEF ExistsBijection
<1>3. g \in [1..n -> S] /\ IsInjective(g)
  BY <1>2 DEF Bijection, Injection
<1>4. f \in [1..n -> S] /\ Nm!IsInjective(f)
  <2>1. Nm!IsInjective(g)
    BY <1>3 DEF IsInjective, Nm!IsInjective
  <2>2. \E h \in [1..Cardinality(S) -> S] : Nm!IsInjective(h)
    BY <1>3, <2>1
  <2>3. f = CHOOSE h \in [1..Cardinality(S) -> S] : Nm!IsInjective(h)
    <3>1. Nm!Cardinality(S) = Cardinality(S)
      BY Zenon DEF Nm!Cardinality, Cardinality
    <3> QED
      BY <3>1, Zenon DEF Nm!SetToSeq
  <2> HIDE DEF f
  <2> QED
    BY <2>2, <2>3
<1>5. f \in Injection(1..n, S)
  <2> HIDE DEF f, n
  <2>1. IsInjective(f)
    BY <1>4 DEF IsInjective, Nm!IsInjective
  <2> QED
    BY <1>4, <2>1 DEF Injection
<1>6. Cardinality(1..n) = n
  <2> HIDE DEF n
  <2>1. Cardinality(1..n) = IF 1 > n THEN 0 ELSE n - 1 + 1
    BY <1>1, FS_Interval
  <2> QED
    BY <1>1, <2>1
<1>7. f \in Surjection(1..n, S)
  <2> HIDE DEF f
  <2> QED
    BY <1>5, <1>6, FS_Injection
<1>8. f \in Seq(S)
  <2> HIDE DEF f, n
  <2> QED
    BY <1>1, <1>4
<1>9. ToSet(f) = S
  <2> HIDE DEF f, n
  <2> QED
    BY <1>4, <1>7 DEF ToSet, Surjection
<1> QED
  BY <1>8, <1>9

(* The first element of q that is e leaves it; nothing else does.           *)
LEMMA RemovedSet ==
  ASSUME NEW T, NEW q \in Seq(T), NEW e,
         \A i, j \in DOMAIN q : q[i] = q[j] => i = j
  PROVE  LET r == Nm!RemoveFirst(q, e)
         IN  /\ r \in Seq(T) /\ ToSet(r) = ToSet(q) \ {e}
             /\ \A i \in DOMAIN r : \E m \in DOMAIN q : r[i] = q[m]
             /\ \A i, j \in DOMAIN r : i # j =>
                  \E m, k \in DOMAIN q : m # k /\ r[i] = q[m] /\ r[j] = q[k]
<1> DEFINE r == Nm!RemoveFirst(q, e)
<1>0. r = Vm!RemoveFirst(q, e)
  BY DEF Nm!RemoveFirst, Vm!RemoveFirst, Nm!RemoveAt, Vm!RemoveAt, Nm!SelectInSeq,
         Vm!SelectInSeq, Nm!Min, Vm!Min
<1>1. r \in Seq(T) /\ Without(q, e, r) /\ \A i \in DOMAIN r : r[i] # e
  BY <1>0, Removed
<1> HIDE DEF r
<1>2. CASE r = q
  BY <1>1, <1>2 DEF ToSet, r
<1>3. ASSUME NEW k \in DOMAIN q, q[k] = e, Len(r) = Len(q) - 1,
             \A j \in DOMAIN r : r[j] = IF j < k THEN q[j] ELSE q[j + 1]
      PROVE  /\ ToSet(r) = ToSet(q) \ {e}
             /\ \A i \in DOMAIN r : \E m \in DOMAIN q : r[i] = q[m]
             /\ \A i, j \in DOMAIN r : i # j =>
                  \E m, l \in DOMAIN q : m # l /\ r[i] = q[m] /\ r[j] = q[l]
  <2> DEFINE at(j) == IF j < k THEN j ELSE j + 1
  <2>1. /\ DOMAIN q = 1..Len(q) /\ DOMAIN r = 1..Len(r) /\ Len(q) \in Nat
        /\ k \in 1..Len(q)
    BY <1>1, <1>3
  <2>2. \A j \in DOMAIN r : at(j) \in DOMAIN q /\ r[j] = q[at(j)]
    BY <1>3, <2>1
  <2>3. \A i, j \in DOMAIN r : i # j => at(i) # at(j)
    BY <2>1
  <2>4. ASSUME NEW y \in ToSet(q), y # e
        PROVE  y \in ToSet(r)
    <3>1. PICK m \in 1..Len(q) : y = q[m]
      BY <2>1, <2>4 DEF ToSet
    <3>2. m # k
      BY <1>3, <2>4, <3>1
    <3>3. CASE m < k
      <4>1. m \in DOMAIN r /\ r[m] = q[m]
        BY <1>3, <2>1, <3>1, <3>3
      <4> QED
        BY <3>1, <4>1 DEF ToSet
    <3>4. CASE m > k
      <4>1. m - 1 \in DOMAIN r /\ ~(m - 1 < k) /\ (m - 1) + 1 = m
        BY <1>3, <2>1, <3>1, <3>4
      <4>2. r[m - 1] = q[m]
        BY <1>3, <4>1
      <4> QED
        BY <3>1, <4>1, <4>2 DEF ToSet
    <3> QED
      BY <2>1, <3>1, <3>2, <3>3, <3>4
  <2> HIDE DEF at
  <2>5. ASSUME NEW y \in ToSet(r)
        PROVE  y \in ToSet(q) /\ y # e
    BY <1>1, <2>2, <2>5 DEF ToSet
  <2> QED
    BY <2>2, <2>3, <2>4, <2>5
<1> QED
  BY <1>1, <1>2, <1>3 DEF Without, r

-----------------------------------------------------------------------------
(***************************************************************************)
(* The inductive invariant.                                                *)
(***************************************************************************)
Adders == {"add_vlan", "add_to_vlan"}
Removers == {"delete_vlan", "end_session"}

\* The places where a thread has its session, where it is clearing it, and where it
\* looks for vlans that never had a port.
Inside == {"enter", "port", "switch", "build", "clear", "wipe", "empty", "reset", "free",
           "cleared"}
Clearing == {"wipe", "empty", "reset", "free", "cleared"}
Emptying == {"empty", "reset", "free"}

ThrRecs ==
  [pc : Inside \cup {"idle", "alloc", "use", "session", "create"},
   op : Adders \cup Removers \cup {"start_session", "none"},
   sid : VlanSids \cup {""}, v : Vlans \cup {0}, port : SwitchPorts \cup {"none"},
   obj : 0..Objs, todo : SUBSET (Switches \cup Vlans), empty : Vlans \cup {0}]

VlanRecs == [in_use : BOOLEAN, sid : VlanSids \cup {""}, ports : SUBSET SwitchPorts]

ObjRecs ==
  [sid : VlanSids \cup {""}, active : SUBSET Vlans, removed : SUBSET Vlans,
   switches : SUBSET Switches, cleared : BOOLEAN, owner : VlanThreads \cup {"none"}]

NmdTypes ==
  /\ vlans \in [Vlans -> VlanRecs]
  /\ free_vlans \in Seq(Vlans)
  /\ objs \in [1..Objs -> ObjRecs]
  /\ sessions \in Seq(1..Objs)
  /\ nthr \in [VlanThreads -> ThrRecs]
  /\ known \in [VlanSids -> SUBSET Vlans]

Live == ToSet(sessions)
FreeVlans == ToSet(free_vlans)
Holdings(o) == objs[o].active \cup objs[o].removed

\* What the place of a thread says of its request.
AtPlace(t) ==
  LET r == nthr[t]
  IN  /\ r.pc = "idle" <=> r.op = "none"
      /\ r.pc # "idle" => r.sid \in VlanSids
      /\ r.pc = "idle" => r.sid = ""
      /\ r.pc \in {"alloc", "use", "create"} => r.op = "add_vlan"
      /\ r.op = "add_vlan" => r.pc \in {"alloc", "use", "session", "create", "enter"}
      /\ r.pc \in {"port", "switch"} => r.op = "add_to_vlan"
      /\ r.op = "add_to_vlan" => r.pc \in {"session", "enter", "port", "switch"}
      /\ r.pc = "clear" => r.op = "delete_vlan"
      /\ r.pc \in Clearing => r.op \in Removers
      /\ r.op = "add_vlan" /\ r.pc # "alloc" => r.v \in Vlans
      /\ r.op = "add_to_vlan" => r.v \in Vlans /\ r.port \in SwitchPorts
      /\ r.op = "delete_vlan" => r.v \in Vlans
      /\ r.pc \in {"reset", "free"} => r.empty \in Vlans
      /\ r.pc \in Emptying => r.todo \subseteq Vlans
      /\ r.pc \in Inside => r.obj \in 1..Objs /\ objs[r.obj].sid = r.sid

\* What a thread relies on while others work: a session that it adds to is there, has
\* not been cleared and keeps the vlan; one it creates is not there yet; one it clears
\* because of its last vlan has none.
Relies(t) ==
  LET r == nthr[t]
  IN  /\ r.op = "add_to_vlan" /\ r.pc = "session" => r.v \in known[r.sid]
      /\ r.pc = "create" => \A o \in Live : objs[o].sid # r.sid
      /\ r.op \in Adders /\ r.pc \in Inside => r.obj \in Live /\ ~objs[r.obj].cleared
      /\ r.op = "add_to_vlan" /\ r.pc \in Inside => r.v \in Holdings(r.obj)
      /\ r.pc = "clear" => objs[r.obj].active = {}

\* The crd does not add to a session while it removes from it, and makes one vlan of a
\* session at a time.
Excludes(t, u) ==
  t # u /\ nthr[t].sid = nthr[u].sid =>
    /\ ~(nthr[t].op \in Adders /\ nthr[u].op \in Removers)
    /\ ~(nthr[t].op = "add_vlan" /\ nthr[u].op \in Adders)

\* No session is there twice.
Sessions ==
  /\ \A i, j \in DOMAIN sessions : objs[sessions[i]].sid = objs[sessions[j]].sid => i = j
  /\ \A o \in Live : objs[o].sid \in VlanSids

\* A cleared session is there until a thread that is clearing it has removed it.
Leaves ==
  \A o \in Live : objs[o].cleared =>
    \E t \in VlanThreads : nthr[t].obj = o /\ nthr[t].pc \in Clearing

\* What the crd knows of is active in a session, or somebody is about to remove it.
KnowsBy(t, s, v) ==
  /\ nthr[t].sid = s
  /\ nthr[t].op = "end_session" \/ (nthr[t].op = "delete_vlan" /\ nthr[t].v = v)

ActiveIn(o, s, v) == o \in Live /\ objs[o].sid = s /\ ~objs[o].cleared /\ v \in objs[o].active

Knows(s, v) ==
  (\E o \in 1..Objs : ActiveIn(o, s, v)) \/ (\E t \in VlanThreads : KnowsBy(t, s, v))

Known == \A s \in VlanSids : \A v \in known[s] : Knows(s, v)

\* A vlan that is not in use is free, or about to be used or freed.
UnusedBy(t, v) ==
  \/ nthr[t].pc = "use" /\ nthr[t].v = v
  \/ nthr[t].pc = "free" /\ nthr[t].empty = v

Unused ==
  \A v \in Vlans \ lost :
    vlans[v].in_use \/ v \in FreeVlans \/ \E t \in VlanThreads : UnusedBy(t, v)

\* One that is in use and has no ports is on its way into a session, in one that has not
\* been cleared, or still to be looked at by the thread that clears its session.
HeldIn(o, v) == o \in Live /\ ~objs[o].cleared /\ v \in Holdings(o)

OwnedBy(t, v) ==
  LET r == nthr[t]
  IN  \/ r.op = "add_vlan" /\ r.pc \in {"session", "create", "enter"} /\ r.v = v
      \/ r.pc = "reset" /\ r.empty = v
      \/ r.pc = "wipe" /\ v \in objs[r.obj].removed
      \/ r.pc \in Emptying /\ v \in r.todo

Owned(v) == (\E o \in 1..Objs : HeldIn(o, v)) \/ (\E t \in VlanThreads : OwnedBy(t, v))

Empty == \A v \in Vlans \ lost : vlans[v].in_use /\ vlans[v].ports = {} => Owned(v)

\* Each port of a vlan, in use or not, will be taken off by somebody: the switch of the
\* port is known to a session that has the vlan, or will be.
CoveredIn(o, v, p) == HeldIn(o, v) /\ SwitchOf[p] \in objs[o].switches

CoveredBy(t, v, p) ==
  LET r == nthr[t]
  IN  \/ r.pc = "switch" /\ r.v = v /\ r.port = p
      \/ r.pc = "wipe" /\ v \in objs[r.obj].removed /\ SwitchOf[p] \in r.todo

Covered(v, p) ==
  (\E o \in 1..Objs : CoveredIn(o, v, p)) \/ (\E t \in VlanThreads : CoveredBy(t, v, p))

Ported == \A v \in Vlans \ lost : \A p \in vlans[v].ports : Covered(v, p)

NmdInv ==
  /\ NmdTypes
  /\ \A t \in VlanThreads : AtPlace(t) /\ Relies(t)
  /\ \A t, u \in VlanThreads : Excludes(t, u)
  /\ Sessions /\ Leaves /\ Known /\ Unused /\ Empty /\ Ported

-----------------------------------------------------------------------------
(* At rest the places of threads hold nothing, and the sessions hold all.   *)
LEMMA AtRest ==
  ASSUME NmdInv, kind = "nmd"
  PROVE  NoVlanLeaked
<1> SUFFICES ASSUME Nm!Quiet, NEW v \in Vlans, v \notin FreeVlans, v \notin lost
             PROVE  \E i \in DOMAIN sessions : v \in Holdings(sessions[i])
  BY DEF NoVlanLeaked, Nm!NoVlanLeaked, Nm!ToSet, ToSet, FreeVlans, Holdings
<1>1. \A t \in VlanThreads : nthr[t].pc = "idle" /\ nthr[t].op = "none"
  BY DEF Nm!Quiet, Nm!At, NmdInv, AtPlace
<1>2. vlans[v].in_use
  BY <1>1 DEF NmdInv, Unused, UnusedBy
<1>3. \E o \in 1..Objs : HeldIn(o, v)
  <2>1. CASE vlans[v].ports = {}
    BY <1>1, <1>2, <2>1 DEF NmdInv, Empty, Owned, OwnedBy, Emptying
  <2>2. CASE vlans[v].ports # {}
    <3>1. PICK p \in vlans[v].ports : Covered(v, p)
      BY <2>2 DEF NmdInv, Ported
    <3> QED
      BY <1>1, <3>1 DEF Covered, CoveredBy, CoveredIn
  <2> QED
    BY <2>1, <2>2
<1> QED
  BY <1>3 DEF HeldIn, Live, ToSet

LEMMA NoRequestIs ==
  /\ Nm!NoRequest \in ThrRecs
  /\ Nm!NoRequest.pc = "idle" /\ Nm!NoRequest.op = "none" /\ Nm!NoRequest.sid = ""
<1>0. Objs \in Nat
  BY NmdAssumption
<1>1. 0 \in 0..Objs
  BY <1>0
<1>2. "idle" \in Inside \cup {"idle", "alloc", "use", "session", "create"}
  OBVIOUS
<1>3. "none" \in Adders \cup Removers \cup {"start_session", "none"}
  OBVIOUS
<1>4. "" \in VlanSids \cup {""} /\ "none" \in SwitchPorts \cup {"none"}
  OBVIOUS
<1> QED
  BY <1>1, <1>2, <1>3, <1>4 DEF Nm!NoRequest, ThrRecs

LEMMA AtStart ==
  ASSUME Nm!Init
  PROVE  NmdInv
<1>1. /\ vlans = [v \in Vlans |-> Nm!Free] /\ free_vlans = Nm!SetToSeq(Vlans)
      /\ objs = [o \in 1..Objs |-> Nm!NoObj] /\ sessions = <<>>
      /\ nthr = [t \in VlanThreads |-> Nm!NoRequest] /\ known = [s \in VlanSids |-> {}]
  BY DEF Nm!Init
<1>2. free_vlans \in Seq(Vlans) /\ FreeVlans = Vlans
  BY <1>1, ListedSet, NmdAssumption DEF FreeVlans
<1>3. Nm!Free \in VlanRecs /\ ~Nm!Free.in_use /\ Nm!Free.ports = {}
  BY DEF Nm!Free, VlanRecs
<1>4. Nm!NoObj \in ObjRecs
  BY DEF Nm!NoObj, ObjRecs
<1>5. /\ Nm!NoRequest \in ThrRecs /\ Nm!NoRequest.pc = "idle" /\ Nm!NoRequest.op = "none"
      /\ Nm!NoRequest.sid = ""
  BY NoRequestIs
<1>6. Live = {} /\ sessions \in Seq(1..Objs) /\ DOMAIN sessions = {}
  BY <1>1 DEF Live, ToSet
<1>7. NmdTypes
  BY <1>1, <1>2, <1>3, <1>4, <1>5, <1>6 DEF NmdTypes
<1>8. \A t \in VlanThreads : AtPlace(t) /\ Relies(t)
  BY <1>1, <1>5 DEF AtPlace, Relies, Inside, Clearing, Emptying, Adders
<1>9. \A t, u \in VlanThreads : Excludes(t, u)
  BY <1>1, <1>5 DEF Excludes, Adders
<1>10. Sessions /\ Leaves /\ Known
  BY <1>1, <1>6 DEF Sessions, Leaves, Known
<1>11. Unused /\ Empty /\ Ported
  BY <1>1, <1>2, <1>3 DEF Unused, Empty, Ported
<1> QED
  BY <1>7, <1>8, <1>9, <1>10, <1>11 DEF NmdInv

-----------------------------------------------------------------------------
(***************************************************************************)
(* A step of one thread: what it may do to the others' state.              *)
(***************************************************************************)
Others(t) == \A u \in VlanThreads \ {t} : nthr'[u] = nthr[u]

\* The request of t stays what it is, or is answered.
SameRequest(t) ==
  \/ nthr'[t].op = nthr[t].op /\ nthr'[t].sid = nthr[t].sid
  \/ nthr'[t].op = "none" /\ nthr'[t].sid = ""

\* Sessions grow, but for what t adds to its own or clears in it; a session that is new
\* is that of t, one that goes has been cleared.
Grows(t) ==
  /\ \A o \in 1..Objs : objs[o].sid \in VlanSids =>
       /\ objs'[o].sid = objs[o].sid
       /\ objs[o].removed \subseteq objs'[o].removed
       /\ Holdings(o) \subseteq Holdings(o)'
       /\ objs[o].switches \subseteq objs'[o].switches
       /\ \/ objs'[o].active \subseteq objs[o].active
          \/ nthr[t].op = "add_vlan" /\ objs[o].sid = nthr[t].sid
       /\ \/ objs'[o].cleared = objs[o].cleared
          \/ nthr[t].op \in Removers /\ objs[o].sid = nthr[t].sid
  /\ \A o \in Live' :
       o \in Live \/ (nthr[t].op = "add_vlan" /\ objs'[o].sid = nthr[t].sid)
  /\ \A o \in Live : o \in Live' \/ objs[o].cleared

Learns(t) ==
  \A s \in VlanSids :
    known[s] \subseteq known'[s] \/ (nthr[t].op \in Removers /\ s = nthr[t].sid)

Frame(t) == Others(t) /\ SameRequest(t) /\ Grows(t) /\ Learns(t)

\* What the step must show of itself for each part of the invariant.
LeavesOk(t) ==
  \A o \in Live' : objs'[o].cleared =>
    \/ nthr'[t].obj = o /\ nthr'[t].pc \in Clearing
    \/ o \in Live /\ objs[o].cleared /\ ~(nthr[t].obj = o /\ nthr[t].pc \in Clearing)

KnownOk(t) ==
  \A s \in VlanSids : \A v \in known'[s] :
    \/ Knows(s, v)'
    \/ /\ v \in known[s] /\ ~KnowsBy(t, s, v)
       /\ \A o \in 1..Objs : ActiveIn(o, s, v) => ActiveIn(o, s, v)'

UnusedOk(t) ==
  \A v \in Vlans \ lost :
    \/ vlans'[v].in_use \/ v \in FreeVlans' \/ UnusedBy(t, v)'
    \/ ~vlans[v].in_use /\ v \notin FreeVlans /\ ~UnusedBy(t, v)

EmptyOk(t) ==
  \A v \in Vlans \ lost : vlans'[v].in_use /\ vlans'[v].ports = {} =>
    \/ Owned(v)'
    \/ /\ vlans[v].in_use /\ vlans[v].ports = {} /\ ~OwnedBy(t, v)
       /\ \A o \in 1..Objs : HeldIn(o, v) => HeldIn(o, v)'

PortedOk(t) ==
  \A v \in Vlans \ lost : \A p \in vlans'[v].ports :
    \/ Covered(v, p)'
    \/ /\ p \in vlans[v].ports /\ ~CoveredBy(t, v, p)
       /\ \A o \in 1..Objs : CoveredIn(o, v, p) => CoveredIn(o, v, p)'

LEMMA LiveType ==
  ASSUME NmdInv
  PROVE  Live \subseteq 1..Objs
<1>1. sessions \in Seq(1..Objs)
  BY DEF NmdInv, NmdTypes
<1> QED
  BY <1>1, ElementsSet DEF Live

(* What others rely on stays, for the crd does not let their requests       *)
(* disturb it.                                                              *)
LEMMA OthersRely ==
  ASSUME NEW t \in VlanThreads, NmdInv, Frame(t), NEW u \in VlanThreads \ {t}
  PROVE  AtPlace(u)' /\ Relies(u)'
<1>1. nthr'[u] = nthr[u] /\ AtPlace(u) /\ Relies(u) /\ Excludes(t, u) /\ Excludes(u, t)
  BY DEF Frame, Others, NmdInv
<1>2. nthr[u].pc \in Inside =>
        /\ nthr[u].obj \in 1..Objs /\ objs[nthr[u].obj].sid = nthr[u].sid
        /\ nthr[u].sid \in VlanSids
  BY <1>1 DEF AtPlace, Inside
<1>3. AtPlace(u)'
  <2>1. nthr[u].pc \in Inside => objs'[nthr[u].obj].sid = nthr[u].sid
    BY <1>2 DEF Frame, Grows
  <2> QED
    BY <1>1, <2>1 DEF AtPlace
<1>4. Relies(u)'
  <2>1. nthr[u].op = "add_to_vlan" /\ nthr[u].pc = "session" => nthr[u].v \in known'[nthr[u].sid]
    BY <1>1 DEF Relies, Frame, Learns, Excludes, Adders, AtPlace
  <2>2. ASSUME nthr[u].pc = "create", NEW o \in Live'
        PROVE  objs'[o].sid # nthr[u].sid
    <3>1. nthr[u].op = "add_vlan" /\ (nthr[t].op = "add_vlan" => nthr[t].sid # nthr[u].sid)
      BY <1>1, <2>2 DEF AtPlace, Excludes, Adders
    <3>2. CASE o \in Live
      <4>1. objs[o].sid \in VlanSids /\ o \in 1..Objs
        BY <3>2, LiveType DEF NmdInv, Sessions
      <4>2. objs'[o].sid = objs[o].sid
        BY <4>1 DEF Frame, Grows
      <4> QED
        BY <1>1, <2>2, <3>2, <4>2 DEF Relies
    <3> QED
      BY <2>2, <3>1, <3>2 DEF Frame, Grows
  <2>3. ASSUME nthr[u].op \in Adders, nthr[u].pc \in Inside
        PROVE  nthr[u].obj \in Live' /\ ~objs'[nthr[u].obj].cleared
    <3>1. nthr[u].obj \in Live /\ ~objs[nthr[u].obj].cleared
      BY <1>1, <2>3 DEF Relies
    <3>2. ~(nthr[t].op \in Removers /\ nthr[t].sid = nthr[u].sid)
      BY <1>1, <2>3 DEF Excludes
    <3> QED
      BY <1>2, <2>3, <3>1, <3>2 DEF Frame, Grows
  <2>4. nthr[u].op = "add_to_vlan" /\ nthr[u].pc \in Inside => nthr[u].v \in Holdings(nthr[u].obj)'
    BY <1>1, <1>2 DEF Relies, Frame, Grows, Holdings
  <2>5. ASSUME nthr[u].pc = "clear"
        PROVE  objs'[nthr[u].obj].active = {}
    <3>1. nthr[u].op \in Removers /\ nthr[u].pc \in Inside
      BY <1>1, <2>5 DEF AtPlace, Removers, Inside
    <3>2. ~(nthr[t].op = "add_vlan" /\ nthr[t].sid = nthr[u].sid)
      BY <1>1, <3>1 DEF Excludes, Adders
    <3>3. objs[nthr[u].obj].active = {}
      BY <1>1, <2>5 DEF Relies
    <3> QED
      BY <1>2, <3>1, <3>2, <3>3 DEF Frame, Grows
  <2> QED
    BY <1>1, <2>1, <2>2, <2>3, <2>4, <2>5 DEF Relies
<1> QED
  BY <1>3, <1>4

LEMMA ExcludesStays ==
  ASSUME NEW t \in VlanThreads, NmdInv, Frame(t)
  PROVE  \A u, w \in VlanThreads : Excludes(u, w)'
<1> SUFFICES ASSUME NEW u \in VlanThreads, NEW w \in VlanThreads
             PROVE  Excludes(u, w)'
  OBVIOUS
<1>1. Excludes(u, w)
  BY DEF NmdInv
<1>2. /\ u # t => nthr'[u] = nthr[u]
      /\ w # t => nthr'[w] = nthr[w]
  BY DEF Frame, Others
<1>3. CASE nthr'[t].op = nthr[t].op /\ nthr'[t].sid = nthr[t].sid
  BY <1>1, <1>2, <1>3 DEF Excludes
<1>4. CASE nthr'[t].op = "none"
  BY <1>1, <1>2, <1>4 DEF Excludes, Adders, Removers
<1> QED
  BY <1>3, <1>4 DEF Frame, SameRequest

(* What others own or cover stays theirs.                                   *)
LEMMA OthersOwn ==
  ASSUME NEW t \in VlanThreads, NmdInv, Frame(t), NEW u \in VlanThreads \ {t}, NEW v
  PROVE  /\ \A s : KnowsBy(u, s, v) => KnowsBy(u, s, v)'
         /\ UnusedBy(u, v) => UnusedBy(u, v)'
         /\ OwnedBy(u, v) => OwnedBy(u, v)'
         /\ \A p : CoveredBy(u, v, p) => CoveredBy(u, v, p)'
<1>1. nthr'[u] = nthr[u] /\ AtPlace(u)
  BY DEF Frame, Others, NmdInv
<1>2. nthr[u].pc = "wipe" => objs[nthr[u].obj].removed \subseteq objs'[nthr[u].obj].removed
  <2>1. nthr[u].pc = "wipe" => nthr[u].pc \in Inside
    BY DEF Inside
  <2>2. nthr[u].pc = "wipe" => /\ nthr[u].obj \in 1..Objs
                               /\ objs[nthr[u].obj].sid \in VlanSids
    BY <1>1, <2>1 DEF AtPlace
  <2> QED
    BY <2>2 DEF Frame, Grows
<1> QED
  BY <1>1, <1>2 DEF KnowsBy, UnusedBy, OwnedBy, CoveredBy

Sound(t) ==
  /\ Frame(t) /\ NmdTypes' /\ AtPlace(t)' /\ Relies(t)' /\ Sessions' /\ lost' = lost
  /\ LeavesOk(t) /\ KnownOk(t) /\ UnusedOk(t) /\ EmptyOk(t) /\ PortedOk(t)

(* A step that does all this keeps the invariant.                           *)
LEMMA SoundKeeps ==
  ASSUME NEW t \in VlanThreads, NmdInv, Sound(t)
  PROVE  NmdInv'
<1>1. NmdTypes' /\ Sessions' /\ Frame(t)
  BY DEF Sound
<1>2. \A u \in VlanThreads : AtPlace(u)' /\ Relies(u)'
  BY <1>1, OthersRely DEF Sound
<1>3. \A u, w \in VlanThreads : Excludes(u, w)'
  BY <1>1, ExcludesStays
<1>4. Leaves'
  <2> SUFFICES ASSUME NEW o \in Live', objs'[o].cleared
               PROVE  \E u \in VlanThreads : nthr'[u].obj = o /\ nthr'[u].pc \in Clearing
    BY DEF Leaves
  <2>1. CASE o \in Live /\ objs[o].cleared /\ ~(nthr[t].obj = o /\ nthr[t].pc \in Clearing)
    <3>1. PICK u \in VlanThreads : nthr[u].obj = o /\ nthr[u].pc \in Clearing
      BY <2>1 DEF NmdInv, Leaves
    <3> QED
      BY <1>1, <2>1, <3>1 DEF Frame, Others
  <2> QED
    BY <2>1 DEF Sound, LeavesOk
<1>5. Known'
  <2> SUFFICES ASSUME NEW s \in VlanSids, NEW v \in known'[s], ~Knows(s, v)'
               PROVE  FALSE
    BY DEF Known
  <2>1. /\ v \in known[s] /\ ~KnowsBy(t, s, v)
        /\ \A o \in 1..Objs : ActiveIn(o, s, v) => ActiveIn(o, s, v)'
    BY DEF Sound, KnownOk
  <2>2. Knows(s, v)
    BY <2>1 DEF NmdInv, Known
  <2>3. \A u \in VlanThreads \ {t} : KnowsBy(u, s, v) => KnowsBy(u, s, v)'
    BY <1>1, OthersOwn
  <2> QED
    BY <2>1, <2>2, <2>3 DEF Knows
<1>6. Unused'
  <2> SUFFICES ASSUME NEW v \in Vlans \ lost, ~vlans'[v].in_use, v \notin FreeVlans',
                      ~\E u \in VlanThreads : UnusedBy(u, v)'
               PROVE  FALSE
    BY DEF Unused, Sound
  <2>1. ~vlans[v].in_use /\ v \notin FreeVlans /\ ~UnusedBy(t, v)
    BY DEF Sound, UnusedOk
  <2>2. PICK u \in VlanThreads : UnusedBy(u, v)
    BY <2>1 DEF NmdInv, Unused
  <2> QED
    BY <1>1, <2>1, <2>2, OthersOwn
<1>7. Empty'
  <2> SUFFICES ASSUME NEW v \in Vlans \ lost, vlans'[v].in_use, vlans'[v].ports = {}, ~Owned(v)'
               PROVE  FALSE
    BY DEF Empty, Sound
  <2>1. /\ vlans[v].in_use /\ vlans[v].ports = {} /\ ~OwnedBy(t, v)
        /\ \A o \in 1..Objs : HeldIn(o, v) => HeldIn(o, v)'
    BY DEF Sound, EmptyOk
  <2>2. Owned(v)
    BY <2>1 DEF NmdInv, Empty
  <2>3. \A u \in VlanThreads \ {t} : OwnedBy(u, v) => OwnedBy(u, v)'
    BY <1>1, OthersOwn
  <2> QED
    BY <2>1, <2>2, <2>3 DEF Owned
<1>8. Ported'
  <2> SUFFICES ASSUME NEW v \in Vlans \ lost, NEW p \in vlans'[v].ports, ~Covered(v, p)'
               PROVE  FALSE
    BY DEF Ported, Sound
  <2>1. /\ p \in vlans[v].ports /\ ~CoveredBy(t, v, p)
        /\ \A o \in 1..Objs : CoveredIn(o, v, p) => CoveredIn(o, v, p)'
    BY DEF Sound, PortedOk
  <2>2. Covered(v, p)
    BY <2>1 DEF NmdInv, Ported
  <2>3. \A u \in VlanThreads \ {t} : CoveredBy(u, v, p) => CoveredBy(u, v, p)'
    BY <1>1, OthersOwn
  <2> QED
    BY <2>1, <2>2, <2>3 DEF Covered
<1> QED
  BY <1>1, <1>2, <1>3, <1>4, <1>5, <1>6, <1>7, <1>8 DEF NmdInv

-----------------------------------------------------------------------------
(***************************************************************************)
(* What the steps do to the requests and to the tables.                    *)
(***************************************************************************)
\* The request of t moves to pc, and keeps what it was asked for.
MovedTo(t, pc) ==
  /\ nthr' \in [VlanThreads -> ThrRecs] /\ Others(t) /\ SameRequest(t)
  /\ nthr'[t].pc = pc /\ nthr'[t].op = nthr[t].op /\ nthr'[t].sid = nthr[t].sid
  /\ nthr'[t].port = nthr[t].port

LEMMA ThrFields ==
  ASSUME NmdTypes, NEW t \in VlanThreads
  PROVE  /\ nthr[t] \in ThrRecs
         /\ nthr[t].v \in Vlans \cup {0} /\ nthr[t].obj \in 0..Objs
         /\ nthr[t].todo \in SUBSET (Switches \cup Vlans) /\ nthr[t].empty \in Vlans \cup {0}
BY DEF NmdTypes, ThrRecs

LEMMA GotoStep ==
  ASSUME NmdTypes, NEW t \in VlanThreads, NEW pc, Nm!Goto(t, pc),
         pc \in Inside \cup {"idle", "alloc", "use", "session", "create"}
  PROVE  /\ MovedTo(t, pc)
         /\ nthr'[t].v = nthr[t].v /\ nthr'[t].obj = nthr[t].obj
         /\ nthr'[t].todo = nthr[t].todo /\ nthr'[t].empty = nthr[t].empty
<1>1. nthr \in [VlanThreads -> ThrRecs]
  BY DEF NmdTypes
<1>2. nthr' = [nthr EXCEPT ![t].pc = pc]
  BY DEF Nm!Goto
<1>3. nthr' = [nthr EXCEPT ![t] = [nthr[t] EXCEPT !.pc = pc]]
  BY <1>2
<1>4. [nthr[t] EXCEPT !.pc = pc] \in ThrRecs
  BY <1>1 DEF ThrRecs
<1> QED
  BY <1>1, <1>3, <1>4 DEF MovedTo, Others, SameRequest, ThrRecs

(* Its record changes otherwise.                                            *)
LEMMA ChangeStep ==
  ASSUME NmdTypes, NEW t \in VlanThreads, NEW q \in ThrRecs, nthr' = [nthr EXCEPT ![t] = q],
         q.op = nthr[t].op, q.sid = nthr[t].sid, q.port = nthr[t].port, NEW pc, q.pc = pc
  PROVE  MovedTo(t, pc) /\ nthr'[t] = q
<1>1. nthr \in [VlanThreads -> ThrRecs]
  BY DEF NmdTypes
<1> QED
  BY <1>1 DEF MovedTo, Others, SameRequest

\* It is answered.
IsAnswered(t) ==
  /\ nthr' \in [VlanThreads -> ThrRecs] /\ Others(t) /\ SameRequest(t)
  /\ nthr'[t].pc = "idle" /\ nthr'[t].op = "none" /\ nthr'[t].sid = ""

LEMMA IdleStep ==
  ASSUME NmdTypes, NEW t \in VlanThreads, Nm!Answer(t)
  PROVE  IsAnswered(t) /\ AtPlace(t)' /\ Relies(t)'
<1>1. nthr \in [VlanThreads -> ThrRecs]
  BY DEF NmdTypes
<1>2. nthr' = [nthr EXCEPT ![t] = Nm!NoRequest]
  BY DEF Nm!Answer
<1>3. IsAnswered(t)
  BY <1>1, <1>2, NoRequestIs DEF IsAnswered, Others, SameRequest
<1>4. AtPlace(t)' /\ Relies(t)'
  BY <1>3 DEF IsAnswered, AtPlace, Relies, Inside, Clearing, Emptying, Adders
<1> QED
  BY <1>3, <1>4

\* The sessions are what they are, but for who has their locks.
SameObjs ==
  /\ objs' \in [1..Objs -> ObjRecs] /\ sessions' = sessions /\ lost' = lost
  /\ \A o \in 1..Objs :
       /\ objs'[o].sid = objs[o].sid /\ objs'[o].active = objs[o].active
       /\ objs'[o].removed = objs[o].removed /\ objs'[o].switches = objs[o].switches
       /\ objs'[o].cleared = objs[o].cleared

LEMMA SameAll ==
  ASSUME NmdTypes, UNCHANGED objs, UNCHANGED sessions, UNCHANGED lost
  PROVE  SameObjs
BY DEF NmdTypes, SameObjs

\* Somebody takes the lock of a session, or gives it back.
LEMMA SameOwner ==
  ASSUME NmdTypes, NEW o \in 1..Objs, NEW u \in VlanThreads \cup {"none"},
         objs' = [objs EXCEPT ![o].owner = u], UNCHANGED sessions, UNCHANGED lost
  PROVE  SameObjs
<1>1. objs \in [1..Objs -> ObjRecs]
  BY DEF NmdTypes
<1>2. objs' = [objs EXCEPT ![o] = [objs[o] EXCEPT !.owner = u]]
  OBVIOUS
<1>3. objs[o] \in ObjRecs
  BY <1>1
<1> DEFINE q == [objs[o] EXCEPT !.owner = u]
<1>4. /\ q \in ObjRecs /\ q.sid = objs[o].sid /\ q.active = objs[o].active
      /\ q.removed = objs[o].removed /\ q.switches = objs[o].switches
      /\ q.cleared = objs[o].cleared
  BY <1>3 DEF ObjRecs
<1> HIDE DEF q
<1>5. objs' = [objs EXCEPT ![o] = q]
  BY <1>2 DEF q
<1>6. \A p \in 1..Objs : objs'[p] = IF p = o THEN q ELSE objs[p]
  BY <1>1, <1>5
<1>7. objs' \in [1..Objs -> ObjRecs]
  BY <1>1, <1>4, <1>5
<1> QED
  BY <1>4, <1>6, <1>7 DEF SameObjs

\* A step that leaves the tables of vlans and what the crd knows, too.
SameVlans == UNCHANGED vlans /\ UNCHANGED free_vlans

LEMMA SessionsStay ==
  ASSUME NEW t \in VlanThreads, NmdInv, SameObjs
  PROVE  /\ Grows(t) /\ Sessions' /\ Live' = Live
         /\ \A o \in 1..Objs : Holdings(o)' = Holdings(o)
         /\ \A o \in 1..Objs : \A s, v : ActiveIn(o, s, v) => ActiveIn(o, s, v)'
         /\ \A o \in 1..Objs : \A v : HeldIn(o, v) => HeldIn(o, v)'
         /\ \A o \in 1..Objs : \A v, p : CoveredIn(o, v, p) => CoveredIn(o, v, p)'
<1>1. Live' = Live /\ Live \subseteq 1..Objs
  BY LiveType DEF SameObjs, Live
<1>2. \A o \in 1..Objs : Holdings(o)' = Holdings(o)
  BY DEF SameObjs, Holdings
<1>3. Grows(t)
  BY <1>1, <1>2 DEF SameObjs, Grows
<1>4. Sessions'
  <2>1. \A i \in DOMAIN sessions : sessions[i] \in 1..Objs
    BY <1>1 DEF Live, ToSet
  <2>2. \A i \in DOMAIN sessions : objs'[sessions[i]].sid = objs[sessions[i]].sid
    BY <2>1 DEF SameObjs
  <2>3. Sessions
    BY DEF NmdInv
  <2>4. \A i, j \in DOMAIN sessions :
          objs'[sessions[i]].sid = objs'[sessions[j]].sid => i = j
    BY <2>2, <2>3 DEF Sessions
  <2>5. \A o \in Live : objs'[o].sid \in VlanSids
    BY <1>1, <2>3 DEF Sessions, SameObjs
  <2> QED
    BY <1>1, <2>4, <2>5 DEF SameObjs, Sessions
<1>5. \A o \in 1..Objs : \A s, v : ActiveIn(o, s, v) => ActiveIn(o, s, v)'
  BY <1>1 DEF SameObjs, ActiveIn
<1>6. \A o \in 1..Objs : \A v : HeldIn(o, v) => HeldIn(o, v)'
  BY <1>1, <1>2 DEF SameObjs, HeldIn
<1>7. \A o \in 1..Objs : \A v, p : CoveredIn(o, v, p) => CoveredIn(o, v, p)'
  BY <1>6 DEF SameObjs, CoveredIn
<1> QED
  BY <1>1, <1>2, <1>3, <1>4, <1>5, <1>6, <1>7

(* A step that changes no session, and knows what it does to the vlans.     *)
LEMMA QuietStep ==
  ASSUME NEW t \in VlanThreads, NmdInv, SameObjs, Others(t), SameRequest(t),
         nthr' \in [VlanThreads -> ThrRecs], AtPlace(t)', Relies(t)',
         vlans' \in [Vlans -> VlanRecs], free_vlans' \in Seq(Vlans), UNCHANGED known,
         nthr[t].pc \in Clearing => nthr'[t].pc \in Clearing /\ nthr'[t].obj = nthr[t].obj,
         \A s, v : KnowsBy(t, s, v) => KnowsBy(t, s, v)',
         UnusedOk(t), EmptyOk(t), PortedOk(t)
  PROVE  NmdInv'
<1>1. /\ Grows(t) /\ Sessions' /\ Live' = Live
      /\ \A o \in 1..Objs : \A s, v : ActiveIn(o, s, v) => ActiveIn(o, s, v)'
  BY SessionsStay
<1>2. Learns(t) /\ known' \in [VlanSids -> SUBSET Vlans]
  BY DEF Learns, NmdInv, NmdTypes
<1>3. LeavesOk(t)
  <2>1. Live \subseteq 1..Objs
    BY LiveType
  <2> QED
    BY <1>1, <2>1 DEF LeavesOk, SameObjs
<1>4. KnownOk(t)
  <2> SUFFICES ASSUME NEW s \in VlanSids, NEW v \in known'[s], ~Knows(s, v)'
               PROVE  v \in known[s] /\ ~KnowsBy(t, s, v)
    BY <1>1 DEF KnownOk
  <2> QED
    BY DEF Knows
<1>5. NmdTypes' /\ lost' = lost
  BY <1>2 DEF NmdTypes, NmdInv, SameObjs
<1> QED
  BY <1>1, <1>2, <1>3, <1>4, <1>5, SoundKeeps DEF Sound, Frame

(* One that leaves the vlans as they are, too, and whose thread holds on to *)
(* what it has.                                                             *)
LEMMA VlansStay ==
  ASSUME NEW t \in VlanThreads, NmdInv, SameObjs, SameVlans,
         \A v : UnusedBy(t, v) => UnusedBy(t, v)',
         \A v : OwnedBy(t, v) => OwnedBy(t, v)',
         \A v, p : CoveredBy(t, v, p) => CoveredBy(t, v, p)'
  PROVE  /\ UnusedOk(t) /\ EmptyOk(t) /\ PortedOk(t)
         /\ vlans' \in [Vlans -> VlanRecs] /\ free_vlans' \in Seq(Vlans)
<1>1. /\ \A o \in 1..Objs : \A v : HeldIn(o, v) => HeldIn(o, v)'
      /\ \A o \in 1..Objs : \A v, p : CoveredIn(o, v, p) => CoveredIn(o, v, p)'
  BY SessionsStay
<1>2. vlans' = vlans /\ free_vlans' = free_vlans /\ FreeVlans' = FreeVlans
  BY DEF SameVlans, FreeVlans
<1>3. UnusedOk(t)
  BY <1>2 DEF UnusedOk
<1>4. EmptyOk(t)
  <2>1. ASSUME NEW v \in Vlans \ lost, ~Owned(v)'
        PROVE  ~OwnedBy(t, v)
    BY <2>1 DEF Owned
  <2> QED
    BY <1>1, <1>2, <2>1 DEF EmptyOk
<1>5. PortedOk(t)
  <2>1. ASSUME NEW v, NEW p, ~Covered(v, p)'
        PROVE  ~CoveredBy(t, v, p)
    BY <2>1 DEF Covered
  <2> QED
    BY <1>1, <1>2, <2>1 DEF PortedOk
<1> QED
  BY <1>2, <1>3, <1>4, <1>5 DEF NmdInv, NmdTypes

-----------------------------------------------------------------------------
(***************************************************************************)
(* The steps of add_vlan and add_to_vlan that change no session.           *)
(***************************************************************************)
(* A request that holds no vlan is answered, and nothing changes.           *)
LEMMA AnswerKeeps ==
  ASSUME NEW t \in VlanThreads, NmdInv, SameObjs, SameVlans, UNCHANGED known, Nm!Answer(t),
         nthr[t].op \notin Removers, nthr[t].pc \notin Clearing,
         \A v : ~UnusedBy(t, v) /\ ~OwnedBy(t, v),
         \A v, p : ~CoveredBy(t, v, p)
  PROVE  NmdInv'
<1>1. IsAnswered(t) /\ AtPlace(t)' /\ Relies(t)'
  BY IdleStep DEF NmdInv
<1>2. /\ UnusedOk(t) /\ EmptyOk(t) /\ PortedOk(t)
      /\ vlans' \in [Vlans -> VlanRecs] /\ free_vlans' \in Seq(Vlans)
  BY VlansStay
<1>3. \A s, v : ~KnowsBy(t, s, v)
  BY DEF KnowsBy, Removers
<1> QED
  BY <1>1, <1>2, <1>3, QuietStep DEF IsAnswered

LEMMA KeepAlloc ==
  ASSUME NEW t \in VlanThreads, NmdInv, Nm!alloc_vlan(t)
  PROVE  NmdInv'
<1>1. /\ NmdTypes /\ AtPlace(t) /\ nthr[t].pc = "alloc" /\ nthr[t].op = "add_vlan"
      /\ nthr[t].sid \in VlanSids
  BY DEF Nm!alloc_vlan, Nm!At, NmdInv, AtPlace
<1>2. SameObjs /\ UNCHANGED known /\ UNCHANGED vlans
  BY <1>1, SameAll DEF Nm!alloc_vlan
<1>3. /\ \A v : ~UnusedBy(t, v) /\ ~OwnedBy(t, v)
      /\ \A v, p : ~CoveredBy(t, v, p)
      /\ \A s, v : ~KnowsBy(t, s, v)
  BY <1>1 DEF UnusedBy, OwnedBy, CoveredBy, KnowsBy, Emptying
<1>4. CASE free_vlans = <<>>
  <2>1. Nm!Answer(t) /\ SameVlans
    BY <1>4 DEF Nm!alloc_vlan, SameVlans
  <2> QED
    BY <1>1, <1>2, <1>3, <2>1, AnswerKeeps DEF Removers, Clearing, Emptying
<1>5. CASE free_vlans # <<>>
  <2> DEFINE v == Head(free_vlans)
  <2>1. /\ free_vlans' = Tail(free_vlans)
        /\ nthr' = [nthr EXCEPT ![t].pc = "use", ![t].v = v]
    BY <1>5 DEF Nm!alloc_vlan
  <2>2. /\ v \in Vlans /\ free_vlans' \in Seq(Vlans) /\ FreeVlans \subseteq FreeVlans' \cup {v}
    BY <1>1, <1>5, <2>1, HeadSet DEF NmdTypes, FreeVlans
  <2>3. nthr \in [VlanThreads -> ThrRecs] /\ nthr[t] \in ThrRecs
    BY <1>1 DEF NmdTypes
  <2> HIDE DEF v
  <2> DEFINE q == [nthr[t] EXCEPT !.pc = "use", !.v = v]
  <2>4. nthr' = [nthr EXCEPT ![t] = q]
    BY <2>1
  <2>5. /\ q \in ThrRecs /\ q.pc = "use" /\ q.op = nthr[t].op /\ q.sid = nthr[t].sid
        /\ q.v = v /\ q.port = nthr[t].port /\ q.obj = nthr[t].obj
    BY <2>2, <2>3 DEF ThrRecs
  <2> HIDE DEF q
  <2>6. MovedTo(t, "use") /\ nthr'[t].v = v /\ nthr'[t].obj = nthr[t].obj
    BY <1>1, <2>4, <2>5, ChangeStep
  <2>7. AtPlace(t)' /\ Relies(t)'
    BY <1>1, <2>2, <2>6 DEF MovedTo, AtPlace, Relies, Inside, Clearing, Emptying, Adders, Removers
  <2>8. UnusedOk(t)
    <3>1. \A w : w = v => UnusedBy(t, w)'
      BY <2>6 DEF UnusedBy, MovedTo
    <3> QED
      BY <1>2, <1>3, <2>2, <3>1 DEF UnusedOk
  <2>9. EmptyOk(t) /\ PortedOk(t)
    BY <1>2, <1>3, SessionsStay DEF EmptyOk, PortedOk
  <2>10. vlans' \in [Vlans -> VlanRecs]
    BY <1>1, <1>2 DEF NmdTypes
  <2> QED
    BY <1>1, <1>2, <1>3, <2>2, <2>6, <2>7, <2>8, <2>9, <2>10, QuietStep
    DEF MovedTo, Clearing, Emptying
<1> QED
  BY <1>4, <1>5

LEMMA KeepSetInUse ==
  ASSUME NEW t \in VlanThreads, NmdInv, Nm!set_in_use(t)
  PROVE  NmdInv'
<1> DEFINE v == nthr[t].v
<1>1. /\ NmdTypes /\ AtPlace(t) /\ nthr[t].pc = "use" /\ nthr[t].op = "add_vlan"
      /\ nthr[t].sid \in VlanSids /\ v \in Vlans
  BY DEF Nm!set_in_use, Nm!At, NmdInv, AtPlace
<1>2. SameObjs /\ UNCHANGED known /\ UNCHANGED free_vlans /\ FreeVlans' = FreeVlans
  BY <1>1, SameAll DEF Nm!set_in_use, FreeVlans
<1>3. /\ \A w : ~OwnedBy(t, w)
      /\ \A w, p : ~CoveredBy(t, w, p)
      /\ \A s, w : ~KnowsBy(t, s, w)
      /\ \A w : UnusedBy(t, w) => w = v
  BY <1>1 DEF UnusedBy, OwnedBy, CoveredBy, KnowsBy, Emptying
<1>4. vlans \in [Vlans -> VlanRecs] /\ free_vlans' \in Seq(Vlans)
  BY <1>1, <1>2 DEF NmdTypes
<1>5. /\ \A o \in 1..Objs : \A w : HeldIn(o, w) => HeldIn(o, w)'
      /\ \A o \in 1..Objs : \A w, p : CoveredIn(o, w, p) => CoveredIn(o, w, p)'
  BY <1>2, SessionsStay
<1>6. CASE vlans[v].in_use
  <2>1. Nm!Answer(t) /\ UNCHANGED vlans
    BY <1>6 DEF Nm!set_in_use
  <2>2. IsAnswered(t) /\ AtPlace(t)' /\ Relies(t)'
    BY <1>1, <2>1, IdleStep
  <2>3. UnusedOk(t) /\ EmptyOk(t) /\ PortedOk(t)
    BY <1>2, <1>3, <1>5, <1>6, <2>1 DEF UnusedOk, EmptyOk, PortedOk
  <2>4. vlans' \in [Vlans -> VlanRecs]
    BY <1>4, <2>1
  <2> QED
    BY <1>1, <1>2, <1>3, <1>4, <2>2, <2>3, <2>4, QuietStep DEF IsAnswered, Clearing, Emptying
<1>7. CASE ~vlans[v].in_use
  <2>1. /\ vlans' = [vlans EXCEPT ![v].in_use = TRUE, ![v].sid = nthr[t].sid]
        /\ Nm!Goto(t, "session")
    BY <1>7 DEF Nm!set_in_use
  <2>2. /\ MovedTo(t, "session") /\ nthr'[t].v = v /\ nthr'[t].obj = nthr[t].obj
    BY <1>1, <2>1, GotoStep
  <2>3. AtPlace(t)' /\ Relies(t)'
    BY <1>1, <2>2 DEF MovedTo, AtPlace, Relies, Inside, Clearing, Emptying, Adders, Removers
  <2> HIDE DEF v
  <2>4. /\ vlans' \in [Vlans -> VlanRecs]
        /\ vlans'[v].in_use /\ vlans'[v].ports = vlans[v].ports
        /\ \A w \in Vlans \ {v} : vlans'[w] = vlans[w]
    <3>1. vlans' = [vlans EXCEPT ![v] = [vlans[v] EXCEPT !.in_use = TRUE, !.sid = nthr[t].sid]]
      BY <2>1
    <3>2. [vlans[v] EXCEPT !.in_use = TRUE, !.sid = nthr[t].sid] \in VlanRecs
      BY <1>1, <1>4 DEF VlanRecs
    <3>3. vlans' \in [Vlans -> VlanRecs] /\ \A w \in Vlans \ {v} : vlans'[w] = vlans[w]
      BY <1>1, <1>4, <3>1, <3>2
    <3>4. vlans'[v].in_use /\ vlans'[v].ports = vlans[v].ports
      BY <1>1, <1>4, <3>1 DEF VlanRecs
    <3> QED
      BY <3>3, <3>4
  <2>5. UnusedOk(t)
    BY <1>2, <1>3, <2>4 DEF UnusedOk
  <2>6. EmptyOk(t)
    <3>1. \A w : w = v => OwnedBy(t, w)'
      BY <1>1, <2>2 DEF OwnedBy, MovedTo
    <3> QED
      BY <1>3, <1>5, <2>4, <3>1 DEF EmptyOk, Owned
  <2>7. PortedOk(t)
    BY <1>3, <1>5, <2>4 DEF PortedOk
  <2> QED
    BY <1>1, <1>2, <1>3, <1>4, <2>2, <2>3, <2>4, <2>5, <2>6, <2>7, QuietStep
    DEF MovedTo, Clearing, Emptying
<1> QED
  BY <1>6, <1>7

LEMMA KeepAddToVlan ==
  ASSUME NEW t \in VlanThreads, NmdInv, Nm!add_to_vlan(t)
  PROVE  NmdInv'
<1>1. /\ NmdTypes /\ AtPlace(t) /\ Relies(t)
      /\ nthr[t].pc = "enter" /\ nthr[t].op = "add_to_vlan"
  BY DEF Nm!add_to_vlan, Nm!At, NmdInv
<1>2. SameObjs /\ SameVlans /\ UNCHANGED known
  BY <1>1, SameAll DEF Nm!add_to_vlan, SameVlans
<1>3. /\ \A v : ~UnusedBy(t, v) /\ ~OwnedBy(t, v)
      /\ \A v, p : ~CoveredBy(t, v, p)
      /\ \A s, v : ~KnowsBy(t, s, v)
  BY <1>1 DEF UnusedBy, OwnedBy, CoveredBy, KnowsBy, Emptying
<1>4. CASE Nm!Answer(t)
  BY <1>1, <1>2, <1>3, <1>4, AnswerKeeps DEF Removers, Clearing, Emptying
<1>5. CASE Nm!Goto(t, "port")
  <2>1. /\ MovedTo(t, "port") /\ nthr'[t].v = nthr[t].v /\ nthr'[t].obj = nthr[t].obj
    BY <1>1, <1>5, GotoStep DEF Inside
  <2>2. /\ nthr[t].obj \in 1..Objs /\ Live' = Live
        /\ objs'[nthr[t].obj].sid = objs[nthr[t].obj].sid
        /\ objs'[nthr[t].obj].cleared = objs[nthr[t].obj].cleared
        /\ \A o \in 1..Objs : Holdings(o)' = Holdings(o)
    BY <1>1, <1>2, SessionsStay DEF SameObjs, AtPlace, Inside
  <2>3. AtPlace(t)'
    BY <1>1, <2>1, <2>2 DEF MovedTo, AtPlace, Inside, Clearing, Emptying, Removers
  <2>4. Relies(t)'
    BY <1>1, <2>1, <2>2 DEF MovedTo, Relies, Inside, Adders
  <2>5. /\ UnusedOk(t) /\ EmptyOk(t) /\ PortedOk(t)
        /\ vlans' \in [Vlans -> VlanRecs] /\ free_vlans' \in Seq(Vlans)
    BY <1>2, <1>3, VlansStay
  <2> QED
    BY <1>1, <1>2, <1>3, <2>1, <2>3, <2>4, <2>5, QuietStep DEF MovedTo, Clearing, Emptying
<1> QED
  BY <1>4, <1>5 DEF Nm!add_to_vlan

LEMMA KeepAddPort ==
  ASSUME NEW t \in VlanThreads, NmdInv, Nm!add_port(t)
  PROVE  NmdInv'
<1> DEFINE v == nthr[t].v
           q == nthr[t].port
<1>1. /\ NmdTypes /\ AtPlace(t) /\ Relies(t) /\ nthr[t].pc = "port"
      /\ nthr[t].op = "add_to_vlan" /\ v \in Vlans /\ q \in SwitchPorts
  BY DEF Nm!add_port, Nm!At, NmdInv, AtPlace
<1>2. SameObjs /\ UNCHANGED free_vlans /\ UNCHANGED known /\ FreeVlans' = FreeVlans
  BY <1>1, SameAll DEF Nm!add_port, FreeVlans
<1>3. /\ \A w : ~UnusedBy(t, w) /\ ~OwnedBy(t, w)
      /\ \A w, p : ~CoveredBy(t, w, p)
      /\ \A s, w : ~KnowsBy(t, s, w)
  BY <1>1 DEF UnusedBy, OwnedBy, CoveredBy, KnowsBy, Emptying
<1>4. /\ vlans' = [vlans EXCEPT ![v].ports = vlans[v].ports \cup {q}]
      /\ Nm!Goto(t, "switch")
  BY DEF Nm!add_port
<1>5. /\ MovedTo(t, "switch") /\ nthr'[t].v = v /\ nthr'[t].obj = nthr[t].obj
  BY <1>1, <1>4, GotoStep DEF Inside
<1>6. /\ nthr[t].obj \in 1..Objs /\ Live' = Live
      /\ objs'[nthr[t].obj].sid = objs[nthr[t].obj].sid
      /\ objs'[nthr[t].obj].cleared = objs[nthr[t].obj].cleared
      /\ \A o \in 1..Objs : Holdings(o)' = Holdings(o)
      /\ \A o \in 1..Objs : \A w : HeldIn(o, w) => HeldIn(o, w)'
      /\ \A o \in 1..Objs : \A w, p : CoveredIn(o, w, p) => CoveredIn(o, w, p)'
  BY <1>1, <1>2, SessionsStay DEF SameObjs, AtPlace, Inside
<1>7. AtPlace(t)'
  BY <1>1, <1>5, <1>6 DEF MovedTo, AtPlace, Inside, Clearing, Emptying, Removers
<1>8. Relies(t)'
  BY <1>1, <1>5, <1>6 DEF MovedTo, Relies, Inside, Adders
<1>9. \A w, p : w = v /\ p = q => CoveredBy(t, w, p)'
  BY <1>5 DEF MovedTo, CoveredBy
<1>10. vlans \in [Vlans -> VlanRecs] /\ free_vlans' \in Seq(Vlans)
  BY <1>1, <1>2 DEF NmdTypes
<1> HIDE DEF v, q
<1>11. /\ vlans' \in [Vlans -> VlanRecs]
       /\ vlans'[v].in_use = vlans[v].in_use /\ vlans'[v].ports = vlans[v].ports \cup {q}
       /\ \A w \in Vlans \ {v} : vlans'[w] = vlans[w]
  <2> DEFINE r == [vlans[v] EXCEPT !.ports = vlans[v].ports \cup {q}]
  <2>1. vlans' = [vlans EXCEPT ![v] = r]
    BY <1>4
  <2>2. r \in VlanRecs /\ r.in_use = vlans[v].in_use /\ r.ports = vlans[v].ports \cup {q}
    BY <1>1, <1>10 DEF VlanRecs
  <2> HIDE DEF r
  <2> QED
    BY <1>1, <1>10, <2>1, <2>2
<1>12. UnusedOk(t)
  BY <1>2, <1>3, <1>11 DEF UnusedOk
<1>13. EmptyOk(t)
  BY <1>3, <1>6, <1>11 DEF EmptyOk
<1>14. PortedOk(t)
  BY <1>3, <1>6, <1>9, <1>11 DEF PortedOk, Covered
<1> QED
  BY <1>1, <1>2, <1>3, <1>5, <1>7, <1>8, <1>10, <1>11, <1>12, <1>13, <1>14, QuietStep
  DEF MovedTo, Clearing, Emptying

-----------------------------------------------------------------------------
(***************************************************************************)
(* The steps of start_session and of a clearing that change no session.    *)
(***************************************************************************)
(* A request other than an addition moves on inside, and keeps what it      *)
(* needs.                                                                   *)
LEMMA MoveKeeps ==
  ASSUME NEW t \in VlanThreads, NmdInv, SameObjs, UNCHANGED known, NEW pc \in Inside,
         nthr[t].pc \in Inside, nthr[t].op \notin Adders, MovedTo(t, pc),
         nthr'[t].obj = nthr[t].obj, nthr'[t].v = nthr[t].v,
         pc \in Clearing => nthr[t].op \in Removers,
         nthr[t].pc \in Clearing => pc \in Clearing,
         pc \notin {"clear", "port", "switch"},
         pc \in {"reset", "free"} => nthr'[t].empty \in Vlans,
         pc \in Emptying => nthr'[t].todo \subseteq Vlans,
         vlans' \in [Vlans -> VlanRecs], free_vlans' \in Seq(Vlans),
         UnusedOk(t), EmptyOk(t), PortedOk(t)
  PROVE  NmdInv'
<1>1. AtPlace(t)
  BY DEF NmdInv
<1>2. nthr[t].obj \in 1..Objs /\ objs'[nthr[t].obj].sid = objs[nthr[t].obj].sid
  BY <1>1 DEF AtPlace, SameObjs
<1>3. AtPlace(t)'
  BY <1>1, <1>2 DEF MovedTo, AtPlace, Inside, Adders, Clearing, Emptying
<1>4. Relies(t)'
  BY DEF MovedTo, Relies, Inside, Adders
<1>5. \A s, v : KnowsBy(t, s, v) => KnowsBy(t, s, v)'
  BY DEF KnowsBy, MovedTo
<1> QED
  BY <1>3, <1>4, <1>5, QuietStep DEF MovedTo

LEMMA KeepCreate ==
  ASSUME NEW t \in VlanThreads, NmdInv, Nm!create_vlans(t)
  PROVE  NmdInv'
<1> DEFINE o == nthr[t].obj
<1>1. /\ NmdTypes /\ AtPlace(t) /\ nthr[t].pc = "enter" /\ nthr[t].op = "start_session"
      /\ nthr \in [VlanThreads -> ThrRecs] /\ objs \in [1..Objs -> ObjRecs]
      /\ o \in 1..Objs
  BY DEF Nm!create_vlans, Nm!At, NmdInv, AtPlace, NmdTypes, Inside
<1>2. SameVlans /\ UNCHANGED known
  BY DEF Nm!create_vlans, SameVlans
<1>3. /\ \A v : ~UnusedBy(t, v) /\ ~OwnedBy(t, v)
      /\ \A v, p : ~CoveredBy(t, v, p)
  BY <1>1 DEF UnusedBy, OwnedBy, CoveredBy, Emptying
<1>4. CASE objs[o].cleared
  <2>1. Nm!Answer(t) /\ SameObjs
    BY <1>1, <1>4, SameAll DEF Nm!create_vlans
  <2> QED
    BY <1>1, <1>2, <1>3, <2>1, AnswerKeeps DEF Removers, Clearing, Emptying
<1>5. CASE ~objs[o].cleared
  <2> DEFINE q == [nthr[t] EXCEPT !.pc = "build", !.todo = objs[o].switches]
  <2>1. /\ objs' = [objs EXCEPT ![o].owner = t] /\ nthr' = [nthr EXCEPT ![t] = q]
        /\ UNCHANGED sessions /\ UNCHANGED lost
    BY <1>5 DEF Nm!create_vlans
  <2>2. SameObjs
    <3>1. t \in VlanThreads \cup {"none"}
      OBVIOUS
    <3> HIDE DEF o
    <3> QED
      BY <1>1, <2>1, <3>1, SameOwner
  <2>3. /\ q \in ThrRecs /\ q.pc = "build" /\ q.op = nthr[t].op /\ q.sid = nthr[t].sid
        /\ q.v = nthr[t].v /\ q.port = nthr[t].port /\ q.obj = nthr[t].obj
    <3>1. nthr[t] \in ThrRecs /\ objs[o].switches \in SUBSET (Switches \cup Vlans)
      BY <1>1 DEF ObjRecs
    <3> QED
      BY <3>1 DEF ThrRecs, Inside
  <2> HIDE DEF q, o
  <2>4. MovedTo(t, "build") /\ nthr'[t] = q
    BY <1>1, <2>1, <2>3, ChangeStep
  <2>5. /\ UnusedOk(t) /\ EmptyOk(t) /\ PortedOk(t)
        /\ vlans' \in [Vlans -> VlanRecs] /\ free_vlans' \in Seq(Vlans)
    BY <1>2, <1>3, <2>2, VlansStay
  <2> QED
    BY <1>1, <1>2, <2>2, <2>3, <2>4, <2>5, MoveKeeps DEF Inside, Adders, Clearing, Emptying
<1> QED
  BY <1>4, <1>5

LEMMA KeepAddCmd ==
  ASSUME NEW t \in VlanThreads, NmdInv, Nm!get_add_ports_cmd(t)
  PROVE  NmdInv'
<1>1. /\ NmdTypes /\ AtPlace(t) /\ nthr[t].pc = "build" /\ nthr[t].op = "start_session"
      /\ nthr \in [VlanThreads -> ThrRecs]
  BY DEF Nm!get_add_ports_cmd, Nm!At, NmdInv, NmdTypes
<1>2. SameVlans /\ SameObjs /\ UNCHANGED known
  BY <1>1, SameAll DEF Nm!get_add_ports_cmd, SameVlans
<1>3. /\ \A v : ~UnusedBy(t, v) /\ ~OwnedBy(t, v)
      /\ \A v, p : ~CoveredBy(t, v, p)
  BY <1>1 DEF UnusedBy, OwnedBy, CoveredBy, Emptying
<1>4. PICK w \in nthr[t].todo : nthr' = [nthr EXCEPT ![t].todo = nthr[t].todo \ {w}]
  BY DEF Nm!get_add_ports_cmd
<1> DEFINE q == [nthr[t] EXCEPT !.todo = nthr[t].todo \ {w}]
<1>5. nthr' = [nthr EXCEPT ![t] = q]
  BY <1>4
<1>6. /\ q \in ThrRecs /\ q.pc = "build" /\ q.op = nthr[t].op /\ q.sid = nthr[t].sid
      /\ q.v = nthr[t].v /\ q.port = nthr[t].port /\ q.obj = nthr[t].obj
  BY <1>1 DEF ThrRecs
<1> HIDE DEF q
<1>7. MovedTo(t, "build") /\ nthr'[t] = q
  BY <1>1, <1>5, <1>6, ChangeStep
<1>8. /\ UnusedOk(t) /\ EmptyOk(t) /\ PortedOk(t)
      /\ vlans' \in [Vlans -> VlanRecs] /\ free_vlans' \in Seq(Vlans)
  BY <1>2, <1>3, VlansStay
<1> QED
  BY <1>1, <1>2, <1>6, <1>7, <1>8, MoveKeeps DEF Inside, Adders, Clearing, Emptying

LEMMA KeepCreated ==
  ASSUME NEW t \in VlanThreads, NmdInv, Nm!create_vlans_finished(t)
  PROVE  NmdInv'
<1> DEFINE o == nthr[t].obj
<1>1. /\ NmdTypes /\ AtPlace(t) /\ nthr[t].pc = "build" /\ nthr[t].op = "start_session"
      /\ o \in 1..Objs
  BY DEF Nm!create_vlans_finished, Nm!At, NmdInv, AtPlace, Inside
<1>2. /\ SameVlans /\ UNCHANGED known /\ Nm!Answer(t) /\ UNCHANGED sessions /\ UNCHANGED lost
      /\ objs' = [objs EXCEPT ![o].owner = "none"]
  BY DEF Nm!create_vlans_finished, SameVlans
<1>3. /\ \A v : ~UnusedBy(t, v) /\ ~OwnedBy(t, v)
      /\ \A v, p : ~CoveredBy(t, v, p)
  BY <1>1 DEF UnusedBy, OwnedBy, CoveredBy, Emptying
<1>4. SameObjs
  <2>1. "none" \in VlanThreads \cup {"none"}
    OBVIOUS
  <2> HIDE DEF o
  <2> QED
    BY <1>1, <1>2, <2>1, SameOwner
<1> QED
  BY <1>1, <1>2, <1>3, <1>4, AnswerKeeps DEF Removers, Clearing, Emptying

LEMMA KeepWiped ==
  ASSUME NEW t \in VlanThreads, NmdInv, Nm!Wiped(t)
  PROVE  NmdInv'
<1> DEFINE o == nthr[t].obj
           q == [nthr[t] EXCEPT !.pc = "empty", !.todo = objs[o].removed]
<1>1. /\ NmdTypes /\ AtPlace(t) /\ nthr[t].pc = "wipe" /\ nthr[t].op \in Removers
      /\ nthr \in [VlanThreads -> ThrRecs] /\ objs \in [1..Objs -> ObjRecs]
      /\ o \in 1..Objs /\ nthr[t].todo = {}
  BY DEF Nm!Wiped, Nm!At, NmdInv, AtPlace, NmdTypes, Inside, Clearing
<1>2. SameVlans /\ SameObjs /\ UNCHANGED known
  BY <1>1, SameAll DEF Nm!Wiped, SameVlans
<1>3. nthr' = [nthr EXCEPT ![t] = q]
  BY DEF Nm!Wiped
<1>4. /\ q \in ThrRecs /\ q.pc = "empty" /\ q.op = nthr[t].op /\ q.sid = nthr[t].sid
      /\ q.v = nthr[t].v /\ q.port = nthr[t].port /\ q.obj = nthr[t].obj
      /\ q.todo = objs[o].removed /\ q.todo \subseteq Vlans
  <2>1. nthr[t] \in ThrRecs /\ objs[o].removed \in SUBSET Vlans
    BY <1>1 DEF ObjRecs
  <2>2. objs[o].removed \in SUBSET (Switches \cup Vlans)
    BY <2>1
  <2> QED
    BY <2>1, <2>2 DEF ThrRecs, Inside
<1> HIDE DEF q
<1>5. MovedTo(t, "empty") /\ nthr'[t] = q
  BY <1>1, <1>3, <1>4, ChangeStep
<1>6. /\ \A v : ~UnusedBy(t, v)
      /\ \A v, p : ~CoveredBy(t, v, p)
  BY <1>1 DEF UnusedBy, CoveredBy
<1>7. \A v : OwnedBy(t, v) => OwnedBy(t, v)'
  BY <1>1, <1>4, <1>5 DEF OwnedBy, Emptying, MovedTo
<1>8. /\ UnusedOk(t) /\ EmptyOk(t) /\ PortedOk(t)
      /\ vlans' \in [Vlans -> VlanRecs] /\ free_vlans' \in Seq(Vlans)
  BY <1>2, <1>6, <1>7, VlansStay
<1> QED
  BY <1>1, <1>2, <1>4, <1>5, <1>8, MoveKeeps DEF Inside, Adders, Clearing, Emptying, Removers

LEMMA KeepClearIfEmpty ==
  ASSUME NEW t \in VlanThreads, NmdInv, Nm!clear_if_empty(t)
  PROVE  NmdInv'
<1>1. /\ NmdTypes /\ AtPlace(t) /\ nthr[t].pc = "empty" /\ nthr[t].op \in Removers
      /\ nthr \in [VlanThreads -> ThrRecs] /\ nthr[t].todo \subseteq Vlans
  BY DEF Nm!clear_if_empty, Nm!At, NmdInv, AtPlace, NmdTypes, Clearing, Emptying
<1>2. SameVlans /\ SameObjs /\ UNCHANGED known
  BY <1>1, SameAll DEF Nm!clear_if_empty, SameVlans
<1>3. PICK e \in nthr[t].todo :
        nthr' = [nthr EXCEPT ![t].todo = nthr[t].todo \ {e},
                             ![t].pc = IF Nm!ClearsIfEmpty(e) THEN "reset" ELSE "empty",
                             ![t].empty = e]
  BY DEF Nm!clear_if_empty
<1>4. PICK pc \in {"reset", "empty"} : pc = IF Nm!ClearsIfEmpty(e) THEN "reset" ELSE "empty"
  OBVIOUS
<1> DEFINE q == [nthr[t] EXCEPT !.todo = nthr[t].todo \ {e}, !.pc = pc, !.empty = e]
<1>5. nthr' = [nthr EXCEPT ![t] = q]
  BY <1>3, <1>4
<1>6. /\ q \in ThrRecs /\ q.pc = pc /\ q.op = nthr[t].op /\ q.sid = nthr[t].sid
      /\ q.v = nthr[t].v /\ q.port = nthr[t].port /\ q.obj = nthr[t].obj
      /\ q.todo = nthr[t].todo \ {e} /\ q.empty = e /\ e \in Vlans
  <2>1. nthr[t] \in ThrRecs /\ pc \in Inside /\ e \in Vlans
    BY <1>1, <1>4 DEF Inside
  <2> QED
    BY <2>1 DEF ThrRecs
<1> HIDE DEF q
<1>7. MovedTo(t, pc) /\ nthr'[t] = q
  BY <1>1, <1>5, <1>6, ChangeStep
<1>8. /\ \A v : ~UnusedBy(t, v)
      /\ \A v, p : ~CoveredBy(t, v, p)
  BY <1>1 DEF UnusedBy, CoveredBy
<1>9. ASSUME NEW v, OwnedBy(t, v), ~OwnedBy(t, v)'
      PROVE  v = e /\ ~(vlans[v].in_use /\ vlans[v].ports = {})
  <2>1. v \in nthr[t].todo
    BY <1>1, <1>9 DEF OwnedBy, Emptying, Removers
  <2>2. pc \in Emptying
    BY <1>4 DEF Emptying
  <2>3. v = e
    BY <1>6, <1>7, <1>9, <2>1, <2>2 DEF OwnedBy, MovedTo
  <2>4. pc # "reset"
    BY <1>6, <1>7, <1>9, <2>3 DEF OwnedBy, MovedTo
  <2> QED
    BY <1>4, <2>3, <2>4 DEF Nm!ClearsIfEmpty
<1>10. /\ vlans' = vlans /\ free_vlans' = free_vlans /\ FreeVlans' = FreeVlans
       /\ vlans' \in [Vlans -> VlanRecs] /\ free_vlans' \in Seq(Vlans)
  BY <1>1, <1>2 DEF SameVlans, FreeVlans, NmdTypes
<1>11. UnusedOk(t)
  BY <1>8, <1>10 DEF UnusedOk
<1>12. EmptyOk(t)
  <2>1. \A o \in 1..Objs : \A v : HeldIn(o, v) => HeldIn(o, v)'
    BY <1>2, SessionsStay
  <2>2. ASSUME NEW v \in Vlans, vlans[v].in_use, vlans[v].ports = {}, ~Owned(v)'
        PROVE  ~OwnedBy(t, v)
    BY <1>9, <2>2 DEF Owned
  <2> QED
    BY <1>10, <2>1, <2>2 DEF EmptyOk
<1>13. PortedOk(t)
  BY <1>2, <1>8, <1>10, SessionsStay DEF PortedOk
<1> QED
  BY <1>1, <1>2, <1>4, <1>6, <1>7, <1>10, <1>11, <1>12, <1>13, MoveKeeps
  DEF Inside, Adders, Clearing, Emptying, Removers

LEMMA KeepResetVlan ==
  ASSUME NEW t \in VlanThreads, NmdInv, Nm!ResetVlan(t)
  PROVE  NmdInv'
<1> DEFINE e == nthr[t].empty
<1>1. /\ NmdTypes /\ AtPlace(t) /\ nthr[t].pc = "reset" /\ nthr[t].op \in Removers
      /\ nthr[t].todo \subseteq Vlans /\ e \in Vlans
  BY DEF Nm!ResetVlan, Nm!At, NmdInv, AtPlace, Clearing, Emptying
<1>2. SameObjs /\ UNCHANGED known /\ free_vlans' = free_vlans /\ FreeVlans' = FreeVlans
  BY <1>1, SameAll DEF Nm!ResetVlan, FreeVlans
<1>3. /\ vlans' = [vlans EXCEPT ![e].in_use = FALSE, ![e].sid = ""]
      /\ Nm!Goto(t, "free")
  BY DEF Nm!ResetVlan
<1>4. /\ MovedTo(t, "free") /\ nthr'[t].v = nthr[t].v /\ nthr'[t].obj = nthr[t].obj
      /\ nthr'[t].todo = nthr[t].todo /\ nthr'[t].empty = e
  BY <1>1, <1>3, GotoStep DEF Inside
<1>5. vlans \in [Vlans -> VlanRecs] /\ free_vlans' \in Seq(Vlans)
  BY <1>1, <1>2 DEF NmdTypes
<1>6. \A v : v = e => UnusedBy(t, v)'
  BY <1>4 DEF UnusedBy, MovedTo
<1>7. /\ \A v : ~UnusedBy(t, v)
      /\ \A v, p : ~CoveredBy(t, v, p)
  BY <1>1 DEF UnusedBy, CoveredBy
<1>8. \A v : OwnedBy(t, v) => v = e \/ OwnedBy(t, v)'
  BY <1>1, <1>4 DEF OwnedBy, Emptying, MovedTo, Removers
<1> HIDE DEF e
<1>9. /\ vlans' \in [Vlans -> VlanRecs]
      /\ ~vlans'[e].in_use /\ vlans'[e].ports = vlans[e].ports
      /\ \A v \in Vlans \ {e} : vlans'[v] = vlans[v]
  <2> DEFINE r == [vlans[e] EXCEPT !.in_use = FALSE, !.sid = ""]
  <2>1. vlans' = [vlans EXCEPT ![e] = r]
    BY <1>3
  <2>2. r \in VlanRecs /\ ~r.in_use /\ r.ports = vlans[e].ports
    BY <1>1, <1>5 DEF VlanRecs
  <2> HIDE DEF r
  <2> QED
    BY <1>1, <1>5, <2>1, <2>2
<1>10. UnusedOk(t)
  BY <1>2, <1>6, <1>7, <1>9 DEF UnusedOk
<1>11. EmptyOk(t)
  <2>1. \A o \in 1..Objs : \A v : HeldIn(o, v) => HeldIn(o, v)'
    BY <1>2, SessionsStay
  <2>2. \A v : v # e /\ OwnedBy(t, v) => Owned(v)'
    BY <1>8 DEF Owned
  <2> QED
    BY <1>9, <2>1, <2>2 DEF EmptyOk
<1>12. PortedOk(t)
  BY <1>2, <1>7, <1>9, SessionsStay DEF PortedOk
<1>13. /\ "free" \in Inside /\ "free" \in Clearing /\ "reset" \in Inside
       /\ nthr[t].op \notin Adders
  BY <1>1 DEF Inside, Adders, Clearing, Emptying, Removers
<1>14. nthr'[t].empty \in Vlans /\ nthr'[t].todo \subseteq Vlans
  BY <1>1, <1>4
<1> QED
  BY <1>1, <1>2, <1>4, <1>5, <1>9, <1>10, <1>11, <1>12, <1>13, <1>14, MoveKeeps

LEMMA KeepFreeVlan ==
  ASSUME NEW t \in VlanThreads, NmdInv, Nm!FreeVlan(t)
  PROVE  NmdInv'
<1> DEFINE e == nthr[t].empty
<1>1. /\ NmdTypes /\ AtPlace(t) /\ nthr[t].pc = "free" /\ nthr[t].op \in Removers
      /\ nthr[t].todo \subseteq Vlans /\ e \in Vlans
  BY DEF Nm!FreeVlan, Nm!At, NmdInv, AtPlace, Clearing, Emptying
<1>2. SameObjs /\ UNCHANGED known /\ UNCHANGED vlans
  BY <1>1, SameAll DEF Nm!FreeVlan
<1>3. free_vlans' = Nm!free_vlan(free_vlans, e) /\ Nm!Goto(t, "empty")
  BY DEF Nm!FreeVlan
<1>4. /\ MovedTo(t, "empty") /\ nthr'[t].v = nthr[t].v /\ nthr'[t].obj = nthr[t].obj
      /\ nthr'[t].todo = nthr[t].todo
  BY <1>1, <1>3, GotoStep DEF Inside
<1>5. free_vlans' \in Seq(Vlans) /\ FreeVlans' = FreeVlans \cup {e}
  <2>1. free_vlans \in Seq(Vlans)
    BY <1>1 DEF NmdTypes
  <2>2. CASE e \in FreeVlans
    BY <1>3, <2>1, <2>2 DEF Nm!free_vlan, Nm!ToSet, FreeVlans, ToSet
  <2>3. CASE e \notin FreeVlans
    <3>1. free_vlans' = Append(free_vlans, e)
      BY <1>3, <2>3 DEF Nm!free_vlan, Nm!ToSet, FreeVlans, ToSet
    <3> HIDE DEF e
    <3> QED
      BY <1>1, <2>1, <3>1, AppendSet DEF FreeVlans
  <2> QED
    BY <2>2, <2>3
<1>6. /\ \A v : UnusedBy(t, v) => v = e
      /\ \A v, p : ~CoveredBy(t, v, p)
  BY <1>1 DEF UnusedBy, CoveredBy
<1>7. \A v : OwnedBy(t, v) => OwnedBy(t, v)'
  BY <1>1, <1>4 DEF OwnedBy, Emptying, MovedTo, Removers
<1> HIDE DEF e
<1>8. UnusedOk(t)
  BY <1>2, <1>5, <1>6 DEF UnusedOk
<1>9. EmptyOk(t)
  <2>1. \A o \in 1..Objs : \A v : HeldIn(o, v) => HeldIn(o, v)'
    BY <1>2, SessionsStay
  <2>2. \A v : OwnedBy(t, v) => Owned(v)'
    BY <1>7 DEF Owned
  <2> QED
    BY <1>2, <2>1, <2>2 DEF EmptyOk
<1>10. PortedOk(t)
  BY <1>2, <1>6, SessionsStay DEF PortedOk
<1>11. /\ "empty" \in Inside /\ "empty" \in Clearing /\ "free" \in Inside
       /\ nthr[t].op \notin Adders /\ vlans' \in [Vlans -> VlanRecs]
  BY <1>1, <1>2 DEF Inside, Adders, Clearing, Emptying, Removers, NmdTypes
<1>12. nthr'[t].todo \subseteq Vlans
  BY <1>1, <1>4
<1> QED
  BY <1>1, <1>2, <1>4, <1>5, <1>8, <1>9, <1>10, <1>11, <1>12, MoveKeeps

LEMMA KeepCleared ==
  ASSUME NEW t \in VlanThreads, NmdInv, Nm!clear_session_finished(t)
  PROVE  NmdInv'
<1> DEFINE o == nthr[t].obj
<1>1. /\ NmdTypes /\ AtPlace(t) /\ nthr[t].pc = "empty" /\ nthr[t].op \in Removers
      /\ o \in 1..Objs /\ nthr[t].todo = {}
  BY DEF Nm!clear_session_finished, Nm!At, NmdInv, AtPlace, Inside, Clearing, Emptying
<1>2. /\ SameVlans /\ UNCHANGED known /\ Nm!Goto(t, "cleared") /\ UNCHANGED sessions
      /\ UNCHANGED lost /\ objs' = [objs EXCEPT ![o].owner = "none"]
  BY DEF Nm!clear_session_finished, SameVlans
<1>3. /\ \A v : ~UnusedBy(t, v) /\ ~OwnedBy(t, v)
      /\ \A v, p : ~CoveredBy(t, v, p)
  BY <1>1 DEF UnusedBy, OwnedBy, CoveredBy, Emptying, Removers
<1>4. /\ MovedTo(t, "cleared") /\ nthr'[t].v = nthr[t].v /\ nthr'[t].obj = nthr[t].obj
  BY <1>1, <1>2, GotoStep DEF Inside
<1>5. SameObjs
  <2>1. "none" \in VlanThreads \cup {"none"}
    OBVIOUS
  <2> HIDE DEF o
  <2> QED
    BY <1>1, <1>2, <2>1, SameOwner
<1>6. /\ UnusedOk(t) /\ EmptyOk(t) /\ PortedOk(t)
      /\ vlans' \in [Vlans -> VlanRecs] /\ free_vlans' \in Seq(Vlans)
  BY <1>2, <1>3, <1>5, VlansStay
<1>7. /\ "cleared" \in Inside /\ "cleared" \in Clearing /\ "empty" \in Inside
      /\ nthr[t].op \notin Adders /\ "cleared" \notin Emptying
  BY <1>1 DEF Inside, Adders, Clearing, Emptying, Removers
<1> QED
  BY <1>1, <1>2, <1>4, <1>5, <1>6, <1>7, MoveKeeps

-----------------------------------------------------------------------------
LEMMA KeepClearCmd ==
  ASSUME NEW t \in VlanThreads, NmdInv, Nm!get_clear_vlan_cmd(t)
  PROVE  NmdInv'
<1> DEFINE o == nthr[t].obj
<1>1. /\ NmdTypes /\ AtPlace(t) /\ nthr[t].pc = "wipe" /\ nthr[t].op \in Removers
      /\ nthr \in [VlanThreads -> ThrRecs] /\ vlans \in [Vlans -> VlanRecs]
      /\ o \in 1..Objs /\ objs[o].removed \subseteq Vlans
  BY DEF Nm!get_clear_vlan_cmd, Nm!At, NmdInv, AtPlace, NmdTypes, Inside, Clearing, ObjRecs
<1>2. SameObjs /\ UNCHANGED known
  BY <1>1, SameAll DEF Nm!get_clear_vlan_cmd
<1> DEFINE On(v, w) == Nm!OnSwitch(vlans[v].ports, w)
           hit(w) == {v \in objs[o].removed : On(v, w) # {}}
           done(w) == {v \in hit(w) : vlans[v].ports \subseteq Nm!OnSwitch(SwitchPorts, w)}
<1>3. PICK w \in nthr[t].todo :
        /\ nthr' = [nthr EXCEPT ![t].todo = nthr[t].todo \ {w}]
        /\ vlans' = [v \in Vlans |->
             IF v \in done(w) THEN Nm!Free
             ELSE IF v \in hit(w)
                  THEN [vlans[v] EXCEPT !.ports = vlans[v].ports \ Nm!OnSwitch(SwitchPorts, w)]
             ELSE vlans[v]]
        /\ free_vlans' = free_vlans \o Nm!SetToSeq(done(w) \ Nm!ToSet(free_vlans))
  BY DEF Nm!get_clear_vlan_cmd
<1>4. /\ \A v : v \in hit(w) <=> v \in objs[o].removed /\ \E p \in vlans[v].ports : SwitchOf[p] = w
      /\ \A v : v \in done(w) <=> v \in hit(w) /\ \A p \in vlans[v].ports : SwitchOf[p] = w
  <2>1. \A v \in Vlans : vlans[v].ports \subseteq SwitchPorts
    BY <1>1 DEF VlanRecs
  <2> QED
    BY <1>1, <2>1 DEF Nm!OnSwitch
<1> HIDE DEF done, hit, On
<1> DEFINE q == [nthr[t] EXCEPT !.todo = nthr[t].todo \ {w}]
<1>5. nthr' = [nthr EXCEPT ![t] = q]
  BY <1>3
<1>6. /\ q \in ThrRecs /\ q.pc = "wipe" /\ q.op = nthr[t].op /\ q.sid = nthr[t].sid
      /\ q.v = nthr[t].v /\ q.port = nthr[t].port /\ q.obj = nthr[t].obj
      /\ q.todo = nthr[t].todo \ {w}
  BY <1>1 DEF ThrRecs
<1> HIDE DEF q
<1>7. MovedTo(t, "wipe") /\ nthr'[t] = q
  BY <1>1, <1>5, <1>6, ChangeStep
<1>8. free_vlans' \in Seq(Vlans) /\ FreeVlans' = FreeVlans \cup done(w)
  <2> DEFINE S == done(w) \ Nm!ToSet(free_vlans)
  <2>1. S \subseteq Vlans /\ IsFiniteSet(S)
    BY <1>1, <1>4, NmdAssumption, FS_Subset
  <2> HIDE DEF S
  <2>2. Nm!SetToSeq(S) \in Seq(S) /\ ToSet(Nm!SetToSeq(S)) = S
    BY <2>1, ListedSet
  <2>3. Nm!SetToSeq(S) \in Seq(Vlans)
    BY <2>1, <2>2
  <2>4. free_vlans \in Seq(Vlans)
    BY <1>1 DEF NmdTypes
  <2>5. free_vlans' \in Seq(Vlans) /\ ToSet(free_vlans') = ToSet(free_vlans) \cup S
    <3>1. free_vlans' = free_vlans \o Nm!SetToSeq(S)
      BY <1>3 DEF S
    <3> QED
      BY <2>2, <2>3, <2>4, <3>1, JoinedSet
  <2> QED
    BY <2>5 DEF FreeVlans, S, Nm!ToSet, ToSet
<1>9. /\ vlans' \in [Vlans -> VlanRecs]
      /\ \A v \in Vlans :
           /\ v \in done(w) => ~vlans'[v].in_use /\ vlans'[v].ports = {}
           /\ v \notin done(w) => /\ vlans'[v].in_use = vlans[v].in_use
                                  /\ vlans'[v].ports \subseteq vlans[v].ports
           /\ v \notin hit(w) => vlans'[v] = vlans[v]
           /\ v \in hit(w) => \A p \in vlans'[v].ports : SwitchOf[p] # w
           /\ v \in hit(w) /\ v \notin done(w) => vlans'[v].ports # {}
  <2> DEFINE cut(v) == [vlans[v] EXCEPT !.ports = vlans[v].ports \ Nm!OnSwitch(SwitchPorts, w)]
  <2>1. Nm!Free \in VlanRecs /\ ~Nm!Free.in_use /\ Nm!Free.ports = {}
    BY DEF Nm!Free, VlanRecs
  <2>2. \A v \in Vlans :
          /\ cut(v) \in VlanRecs /\ cut(v).in_use = vlans[v].in_use
          /\ cut(v).ports = {p \in vlans[v].ports : SwitchOf[p] # w}
    <3> SUFFICES ASSUME NEW v \in Vlans
                 PROVE  /\ cut(v) \in VlanRecs /\ cut(v).in_use = vlans[v].in_use
                        /\ cut(v).ports = {p \in vlans[v].ports : SwitchOf[p] # w}
      OBVIOUS
    <3>1. vlans[v] \in VlanRecs /\ vlans[v].ports \subseteq SwitchPorts
      BY <1>1 DEF VlanRecs
    <3>2. cut(v) \in VlanRecs /\ cut(v).in_use = vlans[v].in_use
          /\ cut(v).ports = vlans[v].ports \ Nm!OnSwitch(SwitchPorts, w)
      BY <3>1 DEF VlanRecs
    <3> HIDE DEF cut
    <3> QED
      BY <3>1, <3>2 DEF Nm!OnSwitch
  <2> HIDE DEF cut
  <2>3. vlans' = [v \in Vlans |-> IF v \in done(w) THEN Nm!Free
                                  ELSE IF v \in hit(w) THEN cut(v) ELSE vlans[v]]
    BY <1>3 DEF cut
  <2>4. vlans' \in [Vlans -> VlanRecs]
    BY <1>1, <2>1, <2>2, <2>3
  <2>5. /\ \A v \in Vlans : v \in done(w) => vlans'[v] = Nm!Free
        /\ \A v \in Vlans : v \in hit(w) /\ v \notin done(w) => vlans'[v] = cut(v)
        /\ \A v \in Vlans : v \notin hit(w) => vlans'[v] = vlans[v]
    BY <1>4, <2>3
  <2> QED
    BY <1>4, <2>1, <2>2, <2>4, <2>5
<1>10. \A v : ~UnusedBy(t, v)
  BY <1>1 DEF UnusedBy
<1>11. \A v : OwnedBy(t, v) => OwnedBy(t, v)'
  <2>1. \A p \in 1..Objs : objs'[p].removed = objs[p].removed
    BY <1>2 DEF SameObjs
  <2> QED
    BY <1>1, <1>6, <1>7, <2>1 DEF OwnedBy, Emptying, MovedTo, Removers
<1>12. \A v, p : CoveredBy(t, v, p) =>
         v \in objs[o].removed /\ (SwitchOf[p] = w \/ CoveredBy(t, v, p)')
  <2>1. \A p \in 1..Objs : objs'[p].removed = objs[p].removed
    BY <1>2 DEF SameObjs
  <2> QED
    BY <1>1, <1>6, <1>7, <2>1 DEF CoveredBy, MovedTo
<1> HIDE DEF o
<1>13. UnusedOk(t)
  BY <1>8, <1>9, <1>10 DEF UnusedOk
<1>14. EmptyOk(t)
  <2>1. \A p \in 1..Objs : \A v : HeldIn(p, v) => HeldIn(p, v)'
    BY <1>2, SessionsStay
  <2>2. \A v : OwnedBy(t, v) => Owned(v)'
    BY <1>11 DEF Owned
  <2> QED
    BY <1>9, <2>1, <2>2 DEF EmptyOk
<1>15. PortedOk(t)
  <2>1. \A r \in 1..Objs : \A v, p : CoveredIn(r, v, p) => CoveredIn(r, v, p)'
    BY <1>2, SessionsStay
  <2>2. ASSUME NEW v \in Vlans, NEW p \in vlans'[v].ports
        PROVE  p \in vlans[v].ports /\ (v \in objs[o].removed => SwitchOf[p] # w)
    <3>1. p \in vlans[v].ports
      BY <1>9, <2>2
    <3> QED
      BY <1>4, <1>9, <2>2, <3>1
  <2>3. \A v, p : CoveredBy(t, v, p)' => Covered(v, p)'
    BY DEF Covered
  <2> QED
    BY <1>12, <2>1, <2>2, <2>3 DEF PortedOk
<1>16. /\ "wipe" \in Inside /\ "wipe" \in Clearing /\ "wipe" \notin Emptying
       /\ nthr[t].op \notin Adders
  BY <1>1 DEF Inside, Adders, Clearing, Emptying, Removers
<1> QED
  BY <1>1, <1>2, <1>6, <1>7, <1>8, <1>9, <1>13, <1>14, <1>15, <1>16, MoveKeeps

-----------------------------------------------------------------------------
(***************************************************************************)
(* The steps that change a session.                                        *)
(***************************************************************************)
LEMMA ObjStep ==
  ASSUME NmdTypes, NEW o \in 1..Objs, NEW q \in ObjRecs, objs' = [objs EXCEPT ![o] = q]
  PROVE  /\ objs' \in [1..Objs -> ObjRecs] /\ objs'[o] = q
         /\ \A p \in 1..Objs : p # o => objs'[p] = objs[p]
BY DEF NmdTypes

LEMMA ObjFields ==
  ASSUME NmdTypes, NEW o \in 1..Objs
  PROVE  /\ objs[o] \in ObjRecs
         /\ objs[o].active \in SUBSET Vlans /\ objs[o].removed \in SUBSET Vlans
         /\ objs[o].switches \in SUBSET Switches /\ objs[o].sid \in VlanSids \cup {""}
BY DEF NmdTypes, ObjRecs

(* A step that leaves the vlans alone, and changes no more of the sessions  *)
(* than the thread's own.                                                   *)
LEMMA SessionStep ==
  ASSUME NEW t \in VlanThreads, NmdInv, SameVlans, UNCHANGED lost, Others(t), SameRequest(t),
         nthr' \in [VlanThreads -> ThrRecs], AtPlace(t)', Relies(t)',
         objs' \in [1..Objs -> ObjRecs], sessions' \in Seq(1..Objs), Sessions', Grows(t),
         known' \in [VlanSids -> SUBSET Vlans], Learns(t), LeavesOk(t), KnownOk(t),
         \A v : ~UnusedBy(t, v),
         \A v : OwnedBy(t, v) => Owned(v)',
         \A v, p : CoveredBy(t, v, p) => Covered(v, p)',
         \A o \in 1..Objs : \A v : HeldIn(o, v) => HeldIn(o, v)' \/ Owned(v)',
         \A o \in 1..Objs : \A v, p : CoveredIn(o, v, p) => CoveredIn(o, v, p)' \/ Covered(v, p)'
  PROVE  NmdInv'
<1>1. vlans' = vlans /\ free_vlans' = free_vlans /\ FreeVlans' = FreeVlans
  BY DEF SameVlans, FreeVlans
<1>2. UnusedOk(t)
  BY <1>1 DEF UnusedOk
<1>3. EmptyOk(t)
  BY <1>1 DEF EmptyOk
<1>4. PortedOk(t)
  BY <1>1 DEF PortedOk
<1>5. NmdTypes'
  BY <1>1 DEF NmdInv, NmdTypes
<1> QED
  BY <1>2, <1>3, <1>4, <1>5, SoundKeeps DEF Sound, Frame

LEMMA KeepNewSession ==
  ASSUME NEW t \in VlanThreads, NmdInv, Nm!NewSession(t)
  PROVE  NmdInv'
<1>1. /\ NmdTypes /\ AtPlace(t) /\ Relies(t) /\ nthr[t].pc = "create"
      /\ nthr[t].op = "add_vlan" /\ nthr[t].sid \in VlanSids /\ nthr[t].v \in Vlans
      /\ nthr \in [VlanThreads -> ThrRecs] /\ sessions \in Seq(1..Objs)
  BY DEF Nm!NewSession, Nm!At, NmdInv, AtPlace, NmdTypes
<1>2. /\ SameVlans /\ UNCHANGED known /\ UNCHANGED lost /\ known \in [VlanSids -> SUBSET Vlans]
  BY <1>1 DEF Nm!NewSession, SameVlans, NmdTypes
<1>3. PICK o \in 1..Objs :
        /\ objs[o] = Nm!NoObj /\ objs' = [objs EXCEPT ![o].sid = nthr[t].sid]
        /\ sessions' = Append(sessions, o)
        /\ nthr' = [nthr EXCEPT ![t].pc = "enter", ![t].obj = o]
  BY DEF Nm!NewSession
<1> DEFINE q == [objs[o] EXCEPT !.sid = nthr[t].sid]
           r == [nthr[t] EXCEPT !.pc = "enter", !.obj = o]
<1>4. objs' = [objs EXCEPT ![o] = q] /\ nthr' = [nthr EXCEPT ![t] = r]
  BY <1>3
<1>5. /\ q \in ObjRecs /\ q.sid = nthr[t].sid /\ q.cleared = FALSE
      /\ objs[o].sid = "" /\ "" \notin VlanSids
  <2>1. objs[o] \in ObjRecs /\ nthr[t].sid \in VlanSids \cup {""}
    BY <1>1, ObjFields
  <2>2. objs[o].sid = "" /\ objs[o].cleared = FALSE
    <3>1. Nm!NoObj.sid = "" /\ Nm!NoObj.cleared = FALSE
      BY DEF Nm!NoObj
    <3>2. objs[o] = Nm!NoObj
      BY <1>3
    <3> QED
      BY <3>1, <3>2
  <2>3. q \in ObjRecs /\ q.sid = nthr[t].sid /\ q.cleared = objs[o].cleared
    BY <2>1 DEF ObjRecs
  <2> QED
    BY <2>2, <2>3, NmdAssumption
<1>6. /\ r \in ThrRecs /\ r.pc = "enter" /\ r.op = nthr[t].op /\ r.sid = nthr[t].sid
      /\ r.v = nthr[t].v /\ r.port = nthr[t].port /\ r.obj = o
  <2>1. o \in 0..Objs
    OBVIOUS
  <2> QED
    BY <1>1, <2>1 DEF ThrRecs, Inside
<1> HIDE DEF q, r
<1>7. MovedTo(t, "enter") /\ nthr'[t] = r
  BY <1>1, <1>4, <1>6, ChangeStep
<1>8. /\ objs' \in [1..Objs -> ObjRecs] /\ objs'[o] = q
      /\ \A p \in 1..Objs : p # o => objs'[p] = objs[p]
  BY <1>1, <1>4, <1>5, ObjStep
<1>9. sessions' \in Seq(1..Objs) /\ Live' = Live \cup {o} /\ Live \subseteq 1..Objs
  <2> DEFINE T == 1..Objs
  <2>1. sessions \in Seq(T) /\ o \in T /\ sessions' = Append(sessions, o)
    BY <1>1, <1>3
  <2> HIDE DEF T
  <2>2. Append(sessions, o) \in Seq(T) /\ ToSet(Append(sessions, o)) = ToSet(sessions) \cup {o}
        /\ ToSet(sessions) \subseteq T
    BY <2>1, AppendSet
  <2>3. sessions' \in Seq(T) /\ Live' = Live \cup {o} /\ Live \subseteq T
    BY <2>1, <2>2 DEF Live
  <2> QED
    BY <2>3 DEF T
<1>10. o \notin Live /\ \A p \in Live : objs'[p] = objs[p] /\ objs[p].sid # nthr[t].sid
  <2>1. \A p \in Live : objs[p].sid \in VlanSids
    BY DEF NmdInv, Sessions
  <2>2. \A p \in Live : objs[p].sid # nthr[t].sid
    BY <1>1 DEF Relies
  <2>3. o \notin Live
    BY <1>5, <2>1
  <2>4. \A p \in Live : p \in 1..Objs /\ p # o
    BY <1>9, <2>3
  <2> QED
    BY <1>8, <2>2, <2>3, <2>4
<1>11. Sessions'
  <2>1. /\ Len(sessions) \in Nat /\ DOMAIN sessions = 1..Len(sessions)
        /\ DOMAIN sessions' = 1..(Len(sessions) + 1) /\ sessions'[Len(sessions) + 1] = o
        /\ \A i \in DOMAIN sessions : sessions'[i] = sessions[i]
    BY <1>1, <1>3
  <2>2. \A i \in DOMAIN sessions : sessions[i] \in Live
    BY DEF Live, ToSet
  <2>3. ASSUME NEW i \in DOMAIN sessions', NEW j \in DOMAIN sessions',
               objs'[sessions'[i]].sid = objs'[sessions'[j]].sid
        PROVE  i = j
    <3>1. CASE i \in DOMAIN sessions /\ j \in DOMAIN sessions
      BY <1>10, <2>1, <2>2, <2>3, <3>1 DEF NmdInv, Sessions
    <3>2. CASE i \in DOMAIN sessions /\ j = Len(sessions) + 1
      BY <1>5, <1>8, <1>10, <2>1, <2>2, <2>3, <3>2
    <3>3. CASE i = Len(sessions) + 1 /\ j \in DOMAIN sessions
      BY <1>5, <1>8, <1>10, <2>1, <2>2, <2>3, <3>3
    <3> QED
      BY <2>1, <3>1, <3>2, <3>3
  <2>4. \A p \in Live' : objs'[p].sid \in VlanSids
    BY <1>1, <1>5, <1>8, <1>9, <1>10 DEF NmdInv, Sessions
  <2> QED
    BY <2>3, <2>4 DEF Sessions
<1>12. \A p \in 1..Objs : objs[p].sid \in VlanSids => p # o
  BY <1>5
<1>13. Grows(t)
  BY <1>1, <1>5, <1>8, <1>9, <1>12 DEF Grows, Holdings
<1>14. Learns(t)
  BY <1>2 DEF Learns
<1>15. LeavesOk(t)
  BY <1>1, <1>5, <1>8, <1>9, <1>10 DEF LeavesOk, Clearing, Emptying
<1>16. /\ \A p \in 1..Objs : \A s, v : ActiveIn(p, s, v) => ActiveIn(p, s, v)'
       /\ \A p \in 1..Objs : \A v : HeldIn(p, v) => HeldIn(p, v)'
       /\ \A p \in 1..Objs : \A v, x : CoveredIn(p, v, x) => CoveredIn(p, v, x)'
  BY <1>9, <1>10 DEF ActiveIn, HeldIn, CoveredIn, Holdings
<1>17. /\ \A v : ~UnusedBy(t, v)
       /\ \A v, p : ~CoveredBy(t, v, p)
       /\ \A s, v : ~KnowsBy(t, s, v)
  BY <1>1 DEF UnusedBy, CoveredBy, KnowsBy
<1>18. \A v : OwnedBy(t, v) => Owned(v)'
  <2>1. \A v : OwnedBy(t, v) => OwnedBy(t, v)'
    BY <1>1, <1>6, <1>7 DEF OwnedBy, Emptying, MovedTo
  <2> QED
    BY <2>1 DEF Owned
<1>19. KnownOk(t)
  BY <1>2, <1>16, <1>17 DEF KnownOk
<1>20. AtPlace(t)'
  BY <1>1, <1>5, <1>6, <1>7, <1>8 DEF MovedTo, AtPlace, Inside, Clearing, Emptying, Removers
<1>21. Relies(t)'
  BY <1>1, <1>5, <1>6, <1>7, <1>8, <1>9 DEF MovedTo, Relies, Inside, Adders
<1> QED
  BY <1>2, <1>7, <1>8, <1>9, <1>11, <1>13, <1>14, <1>15, <1>16, <1>17, <1>18, <1>19,
     <1>20, <1>21, SessionStep DEF MovedTo

-----------------------------------------------------------------------------
(* A step that changes one session that is there, and leaves it there.      *)
LEMMA OwnSession ==
  ASSUME NEW t \in VlanThreads, NmdInv, NEW o \in 1..Objs, NEW q \in ObjRecs,
         objs' = [objs EXCEPT ![o] = q], UNCHANGED sessions,
         q.sid = objs[o].sid, objs[o].removed \subseteq q.removed,
         Holdings(o) \subseteq q.active \cup q.removed, objs[o].switches \subseteq q.switches,
         \/ q.active \subseteq objs[o].active
         \/ nthr[t].op = "add_vlan" /\ objs[o].sid = nthr[t].sid,
         q.cleared = objs[o].cleared \/ (nthr[t].op \in Removers /\ objs[o].sid = nthr[t].sid)
  PROVE  /\ objs' \in [1..Objs -> ObjRecs] /\ sessions' \in Seq(1..Objs) /\ Live' = Live
         /\ Sessions' /\ Grows(t) /\ objs'[o] = q
         /\ \A p \in 1..Objs : p # o => objs'[p] = objs[p]
<1>1. NmdTypes /\ Sessions /\ Live \subseteq 1..Objs
  BY LiveType DEF NmdInv
<1>2. /\ objs' \in [1..Objs -> ObjRecs] /\ objs'[o] = q
      /\ \A p \in 1..Objs : p # o => objs'[p] = objs[p]
  BY <1>1, ObjStep
<1>3. sessions' \in Seq(1..Objs) /\ Live' = Live
  BY <1>1 DEF NmdTypes, Live
<1>4. \A p \in 1..Objs : objs'[p].sid = objs[p].sid
  BY <1>2
<1>5. Sessions'
  <2>1. \A i \in DOMAIN sessions : sessions[i] \in 1..Objs
    BY <1>1 DEF Live, ToSet
  <2>2. \A i \in DOMAIN sessions : objs'[sessions[i]].sid = objs[sessions[i]].sid
    BY <1>4, <2>1
  <2>3. \A i, j \in DOMAIN sessions :
          objs'[sessions[i]].sid = objs'[sessions[j]].sid => i = j
    BY <1>1, <2>2 DEF Sessions
  <2>4. \A p \in Live : objs'[p].sid \in VlanSids
    BY <1>1, <1>4 DEF Sessions
  <2> QED
    BY <1>3, <2>3, <2>4 DEF Sessions
<1>6. Grows(t)
  BY <1>2, <1>3 DEF Grows, Holdings
<1> QED
  BY <1>2, <1>3, <1>5, <1>6

LEMMA KeepAddVlan ==
  ASSUME NEW t \in VlanThreads, NmdInv, Nm!session_add_vlan(t)
  PROVE  NmdInv'
<1> DEFINE o == nthr[t].obj
           v == nthr[t].v
           s == nthr[t].sid
           q == [objs[o] EXCEPT !.active = objs[o].active \cup {v}]
<1>1. /\ NmdTypes /\ AtPlace(t) /\ Relies(t) /\ nthr[t].pc = "enter"
      /\ nthr[t].op = "add_vlan" /\ s \in VlanSids /\ v \in Vlans
      /\ o \in 1..Objs /\ o \in Live /\ ~objs[o].cleared /\ objs[o].sid = s
  BY DEF Nm!session_add_vlan, Nm!At, NmdInv, AtPlace, Relies, Inside, Adders
<1>2. /\ SameVlans /\ UNCHANGED lost /\ UNCHANGED sessions /\ Nm!Answer(t)
      /\ known' = [known EXCEPT ![s] = known[s] \cup {v}]
      /\ objs' = [objs EXCEPT ![o] = q]
  BY DEF Nm!session_add_vlan, SameVlans
<1>3. /\ q \in ObjRecs /\ q.sid = objs[o].sid /\ q.removed = objs[o].removed
      /\ q.switches = objs[o].switches /\ q.cleared = objs[o].cleared
      /\ q.active = objs[o].active \cup {v}
  BY <1>1, ObjFields DEF ObjRecs
<1>4. IsAnswered(t) /\ AtPlace(t)' /\ Relies(t)'
  BY <1>1, <1>2, IdleStep
<1>5. /\ \A w : ~UnusedBy(t, w)
      /\ \A w, p : ~CoveredBy(t, w, p)
      /\ \A x, w : ~KnowsBy(t, x, w)
      /\ \A w : OwnedBy(t, w) => w = v
  BY <1>1 DEF UnusedBy, OwnedBy, CoveredBy, KnowsBy, Emptying
<1> HIDE DEF o, v, s, q
<1>6. /\ objs' \in [1..Objs -> ObjRecs] /\ sessions' \in Seq(1..Objs) /\ Live' = Live
      /\ Sessions' /\ Grows(t) /\ objs'[o] = q
      /\ \A p \in 1..Objs : p # o => objs'[p] = objs[p]
  <2>1. nthr[t].op = "add_vlan" /\ objs[o].sid = nthr[t].sid
    BY <1>1 DEF s
  <2>2. Holdings(o) \subseteq q.active \cup q.removed
    BY <1>3 DEF Holdings
  <2>3. objs[o].removed \subseteq q.removed /\ objs[o].switches \subseteq q.switches
    BY <1>3
  <2> QED
    BY <1>1, <1>2, <1>3, <2>1, <2>2, <2>3, OwnSession
<1>7. /\ \A p \in 1..Objs : \A x, w : ActiveIn(p, x, w) => ActiveIn(p, x, w)'
      /\ \A p \in 1..Objs : \A w : HeldIn(p, w) => HeldIn(p, w)'
      /\ \A p \in 1..Objs : \A w, x : CoveredIn(p, w, x) => CoveredIn(p, w, x)'
  BY <1>3, <1>6 DEF ActiveIn, HeldIn, CoveredIn, Holdings
<1>8. /\ \A p, x, w : p = o /\ x = s /\ w = v => ActiveIn(p, x, w)'
      /\ \A p, w : p = o /\ w = v => HeldIn(p, w)'
  BY <1>1, <1>3, <1>6 DEF ActiveIn, HeldIn, Holdings
<1>9. /\ known' \in [VlanSids -> SUBSET Vlans]
      /\ \A x \in VlanSids : known[x] \subseteq known'[x]
      /\ \A x \in VlanSids : \A w \in known'[x] : w \in known[x] \/ (x = s /\ w = v)
  <2>1. known \in [VlanSids -> SUBSET Vlans]
    BY <1>1 DEF NmdTypes
  <2> QED
    BY <1>1, <1>2, <2>1
<1>10. Learns(t)
  BY <1>9 DEF Learns
<1>11. LeavesOk(t)
  BY <1>1, <1>3, <1>6, LiveType DEF LeavesOk, Clearing, Emptying
<1>12. KnownOk(t)
  BY <1>1, <1>5, <1>7, <1>8, <1>9 DEF KnownOk, Knows
<1>13. \A w : OwnedBy(t, w) => Owned(w)'
  BY <1>1, <1>5, <1>8 DEF Owned
<1> QED
  BY <1>2, <1>4, <1>5, <1>6, <1>7, <1>9, <1>10, <1>11, <1>12, <1>13, SessionStep DEF IsAnswered

LEMMA KeepAddSwitch ==
  ASSUME NEW t \in VlanThreads, NmdInv, Nm!add_switch(t)
  PROVE  NmdInv'
<1> DEFINE o == nthr[t].obj
           v == nthr[t].v
           w == SwitchOf[nthr[t].port]
           q == [objs[o] EXCEPT !.switches = objs[o].switches \cup {w}]
<1>1. /\ NmdTypes /\ AtPlace(t) /\ Relies(t) /\ nthr[t].pc = "switch"
      /\ nthr[t].op = "add_to_vlan" /\ v \in Vlans /\ w \in Switches
      /\ o \in 1..Objs /\ o \in Live /\ ~objs[o].cleared /\ v \in Holdings(o)
  BY NmdAssumption DEF Nm!add_switch, Nm!At, NmdInv, AtPlace, Relies, Inside, Adders
<1>2. /\ SameVlans /\ UNCHANGED lost /\ UNCHANGED sessions /\ Nm!Answer(t) /\ UNCHANGED known
      /\ objs' = [objs EXCEPT ![o] = q]
  <2>1. objs' = [objs EXCEPT ![o].switches =
                   IF objs[o].cleared THEN objs[o].switches ELSE objs[o].switches \cup {w}]
    BY DEF Nm!add_switch
  <2> QED
    BY <1>1, <2>1 DEF Nm!add_switch, SameVlans
<1>3. /\ q \in ObjRecs /\ q.sid = objs[o].sid /\ q.removed = objs[o].removed
      /\ q.active = objs[o].active /\ q.cleared = objs[o].cleared
      /\ q.switches = objs[o].switches \cup {w}
  BY <1>1, ObjFields DEF ObjRecs
<1>4. IsAnswered(t) /\ AtPlace(t)' /\ Relies(t)'
  BY <1>1, <1>2, IdleStep
<1>5. /\ \A x : ~UnusedBy(t, x) /\ ~OwnedBy(t, x)
      /\ \A s, x : ~KnowsBy(t, s, x)
      /\ \A x, p : CoveredBy(t, x, p) => x = v /\ SwitchOf[p] = w
  BY <1>1 DEF UnusedBy, OwnedBy, CoveredBy, KnowsBy, Emptying
<1> HIDE DEF o, v, w, q
<1>6. /\ objs' \in [1..Objs -> ObjRecs] /\ sessions' \in Seq(1..Objs) /\ Live' = Live
      /\ Sessions' /\ Grows(t) /\ objs'[o] = q
      /\ \A p \in 1..Objs : p # o => objs'[p] = objs[p]
  <2>1. Holdings(o) \subseteq q.active \cup q.removed
    BY <1>3 DEF Holdings
  <2>2. objs[o].removed \subseteq q.removed /\ objs[o].switches \subseteq q.switches
    BY <1>3
  <2> QED
    BY <1>1, <1>2, <1>3, <2>1, <2>2, OwnSession
<1>7. /\ \A p \in 1..Objs : \A x, y : ActiveIn(p, x, y) => ActiveIn(p, x, y)'
      /\ \A p \in 1..Objs : \A x : HeldIn(p, x) => HeldIn(p, x)'
      /\ \A p \in 1..Objs : \A x, y : CoveredIn(p, x, y) => CoveredIn(p, x, y)'
  BY <1>3, <1>6 DEF ActiveIn, HeldIn, CoveredIn, Holdings
<1>8. \A p, x, y : p = o /\ x = v /\ SwitchOf[y] = w => CoveredIn(p, x, y)'
  BY <1>1, <1>3, <1>6 DEF CoveredIn, HeldIn, Holdings
<1>9. Learns(t) /\ known' \in [VlanSids -> SUBSET Vlans]
  BY <1>1, <1>2 DEF Learns, NmdTypes
<1>10. LeavesOk(t)
  BY <1>1, <1>3, <1>6, LiveType DEF LeavesOk, Clearing, Emptying
<1>11. KnownOk(t)
  BY <1>2, <1>5, <1>7 DEF KnownOk
<1>12. \A x, y : CoveredBy(t, x, y) => Covered(x, y)'
  BY <1>1, <1>5, <1>8 DEF Covered
<1> QED
  BY <1>2, <1>4, <1>5, <1>6, <1>7, <1>9, <1>10, <1>11, <1>12, SessionStep DEF IsAnswered

LEMMA KeepRemoveVlan ==
  ASSUME NEW t \in VlanThreads, NmdInv, Nm!remove_vlan(t)
  PROVE  NmdInv'
<1> DEFINE o == nthr[t].obj
           v == nthr[t].v
           left == objs[o].active \ {v}
           q == [objs[o] EXCEPT !.active = left,
                                !.removed = objs[o].removed \cup (objs[o].active \cap {v})]
<1>1. /\ NmdTypes /\ AtPlace(t) /\ nthr[t].pc = "enter"
      /\ nthr[t].op = "delete_vlan" /\ nthr[t].sid \in VlanSids /\ v \in Vlans
      /\ o \in 1..Objs /\ objs[o].sid = nthr[t].sid
  BY DEF Nm!remove_vlan, Nm!At, NmdInv, AtPlace, Inside
<1>2. /\ SameVlans /\ UNCHANGED lost /\ UNCHANGED sessions /\ UNCHANGED known
      /\ Nm!Goto(t, IF left = {} THEN "clear" ELSE "cleared")
      /\ objs' = [objs EXCEPT ![o] = q]
  <2>1. objs' = [objs EXCEPT ![o].active = left,
                             ![o].removed = objs[o].removed \cup (objs[o].active \cap {v})]
    BY DEF Nm!remove_vlan
  <2> QED
    BY <1>1, <2>1 DEF Nm!remove_vlan, SameVlans
<1>3. /\ q \in ObjRecs /\ q.sid = objs[o].sid /\ q.switches = objs[o].switches
      /\ q.cleared = objs[o].cleared /\ q.active = left
      /\ q.removed = objs[o].removed \cup (objs[o].active \cap {v})
  BY <1>1, ObjFields DEF ObjRecs
<1>4. PICK pc \in {"clear", "cleared"} :
        pc = (IF left = {} THEN "clear" ELSE "cleared") /\ Nm!Goto(t, pc)
  BY <1>2
<1>5. /\ MovedTo(t, pc) /\ nthr'[t].v = v /\ nthr'[t].obj = o
  BY <1>1, <1>4, GotoStep DEF Inside
<1>6. /\ \A x : ~UnusedBy(t, x) /\ ~OwnedBy(t, x)
      /\ \A x, y : ~CoveredBy(t, x, y)
      /\ \A s, x : KnowsBy(t, s, x) => KnowsBy(t, s, x)'
      /\ \A s, x : s = nthr[t].sid /\ x = v => KnowsBy(t, s, x)'
  BY <1>1, <1>5 DEF UnusedBy, OwnedBy, CoveredBy, KnowsBy, Emptying, MovedTo
<1>7. AtPlace(t)'
  <2>1. objs'[o].sid = nthr[t].sid
    BY <1>1, <1>2, <1>3, ObjStep
  <2> QED
    BY <1>1, <1>4, <1>5, <2>1
    DEF MovedTo, AtPlace, Inside, Clearing, Emptying, Removers
<1>8. Relies(t)'
  <2>1. pc = "clear" => q.active = {}
    BY <1>3, <1>4
  <2>2. objs'[o] = q
    BY <1>1, <1>2, <1>3, ObjStep
  <2> QED
    BY <1>1, <1>4, <1>5, <2>1, <2>2 DEF MovedTo, Relies, Inside, Adders
<1> HIDE DEF o, v, left, q
<1>9. /\ objs' \in [1..Objs -> ObjRecs] /\ sessions' \in Seq(1..Objs) /\ Live' = Live
      /\ Sessions' /\ Grows(t) /\ objs'[o] = q
      /\ \A p \in 1..Objs : p # o => objs'[p] = objs[p]
  <2>1. Holdings(o) \subseteq q.active \cup q.removed
    BY <1>3 DEF Holdings, left
  <2>2. /\ objs[o].removed \subseteq q.removed /\ objs[o].switches \subseteq q.switches
        /\ q.active \subseteq objs[o].active
    BY <1>3 DEF left
  <2> QED
    BY <1>1, <1>2, <1>3, <2>1, <2>2, OwnSession
<1>10. /\ \A p \in 1..Objs : \A s, x : ActiveIn(p, s, x) =>
            ActiveIn(p, s, x)' \/ (s = nthr[t].sid /\ x = v)
       /\ \A p \in 1..Objs : \A x : HeldIn(p, x) => HeldIn(p, x)'
       /\ \A p \in 1..Objs : \A x, y : CoveredIn(p, x, y) => CoveredIn(p, x, y)'
  <2>1. \A x : x \in objs[o].active => x \in q.active \/ x = v
    BY <1>3 DEF left
  <2>2. Holdings(o) \subseteq q.active \cup q.removed
    BY <1>3 DEF Holdings, left
  <2> QED
    BY <1>1, <1>3, <1>9, <2>1, <2>2 DEF ActiveIn, HeldIn, CoveredIn, Holdings
<1>11. Learns(t) /\ known' \in [VlanSids -> SUBSET Vlans]
  BY <1>1, <1>2 DEF Learns, NmdTypes
<1>12. LeavesOk(t)
  BY <1>1, <1>3, <1>9, LiveType DEF LeavesOk, Clearing, Emptying
<1>13. KnownOk(t)
  BY <1>2, <1>6, <1>10 DEF KnownOk, Knows
<1> QED
  BY <1>2, <1>5, <1>6, <1>7, <1>8, <1>9, <1>10, <1>11, <1>12, <1>13, SessionStep DEF MovedTo

LEMMA KeepClearing ==
  ASSUME NEW t \in VlanThreads, NmdInv, Nm!clear_session(t)
  PROVE  NmdInv'
<1> DEFINE o == nthr[t].obj
<1>1. /\ NmdTypes /\ AtPlace(t) /\ Relies(t) /\ nthr[t].pc \in {"clear", "enter"}
      /\ nthr[t].op \in Removers /\ nthr[t].sid \in VlanSids
      /\ nthr[t].pc = "enter" => nthr[t].op = "end_session"
      /\ nthr[t].pc = "clear" => objs[o].active = {}
      /\ o \in 1..Objs /\ objs[o].sid = nthr[t].sid
      /\ nthr \in [VlanThreads -> ThrRecs]
  BY DEF Nm!clear_session, Nm!At, NmdInv, AtPlace, Relies, Inside, Removers, NmdTypes
<1>2. SameVlans /\ UNCHANGED lost /\ UNCHANGED sessions /\ UNCHANGED known
  BY DEF Nm!clear_session, SameVlans
<1>3. /\ \A x : ~UnusedBy(t, x) /\ ~OwnedBy(t, x)
      /\ \A x, y : ~CoveredBy(t, x, y)
  BY <1>1 DEF UnusedBy, OwnedBy, CoveredBy, Emptying, Removers
<1>4. CASE objs[o].cleared
  <2>1. Nm!Goto(t, "cleared") /\ SameObjs
    BY <1>1, <1>2, <1>4, SameAll DEF Nm!clear_session
  <2>2. MovedTo(t, "cleared") /\ nthr'[t].v = nthr[t].v /\ nthr'[t].obj = o
    BY <1>1, <2>1, GotoStep DEF Inside
  <2>3. /\ UnusedOk(t) /\ EmptyOk(t) /\ PortedOk(t)
        /\ vlans' \in [Vlans -> VlanRecs] /\ free_vlans' \in Seq(Vlans)
    BY <1>2, <1>3, <2>1, VlansStay
  <2>4. /\ "cleared" \in Inside /\ "cleared" \in Clearing /\ nthr[t].pc \in Inside
        /\ nthr[t].op \notin Adders /\ "cleared" \notin Emptying
    BY <1>1 DEF Inside, Adders, Clearing, Emptying, Removers
  <2> QED
    BY <1>1, <1>2, <2>1, <2>2, <2>3, <2>4, MoveKeeps
<1>5. CASE ~objs[o].cleared
  <2> DEFINE q == [objs[o] EXCEPT !.cleared = TRUE, !.owner = t,
                                  !.removed = objs[o].removed \cup objs[o].active]
             r == [nthr[t] EXCEPT !.pc = "wipe", !.todo = objs[o].switches]
  <2>1. objs' = [objs EXCEPT ![o] = q] /\ nthr' = [nthr EXCEPT ![t] = r]
    <3>1. /\ objs' = [objs EXCEPT ![o].cleared = TRUE, ![o].owner = t,
                                 ![o].removed = objs[o].removed \cup objs[o].active]
          /\ nthr' = [nthr EXCEPT ![t].pc = "wipe", ![t].todo = objs[o].switches]
      BY <1>5 DEF Nm!clear_session
    <3> QED
      BY <1>1, <3>1
  <2>2. /\ q \in ObjRecs /\ q.sid = objs[o].sid /\ q.switches = objs[o].switches
        /\ q.cleared = TRUE /\ q.active = objs[o].active
        /\ q.removed = objs[o].removed \cup objs[o].active
    <3>1. objs[o] \in ObjRecs /\ t \in VlanThreads \cup {"none"}
      BY <1>1, ObjFields
    <3> QED
      BY <3>1 DEF ObjRecs
  <2>3. /\ r \in ThrRecs /\ r.pc = "wipe" /\ r.op = nthr[t].op /\ r.sid = nthr[t].sid
        /\ r.v = nthr[t].v /\ r.port = nthr[t].port /\ r.obj = o
        /\ r.todo = objs[o].switches
    <3>1. nthr[t] \in ThrRecs /\ objs[o].switches \in SUBSET (Switches \cup Vlans)
      BY <1>1, ObjFields
    <3> QED
      BY <3>1 DEF ThrRecs, Inside
  <2> HIDE DEF q, r
  <2>4. MovedTo(t, "wipe") /\ nthr'[t] = r
    BY <1>1, <2>1, <2>3, ChangeStep
  <2>5. objs'[o] = q
    BY <1>1, <2>1, <2>2, ObjStep
  <2>6. AtPlace(t)'
    BY <1>1, <2>2, <2>3, <2>4, <2>5
    DEF MovedTo, AtPlace, Inside, Clearing, Emptying, Removers
  <2>7. Relies(t)'
    BY <1>1, <2>4 DEF MovedTo, Relies, Adders, Removers
  <2>8. /\ \A x : x \in q.removed => OwnedBy(t, x)'
        /\ \A x, y : x \in q.removed /\ SwitchOf[y] \in objs[o].switches => CoveredBy(t, x, y)'
        /\ \A s, x : KnowsBy(t, s, x) => KnowsBy(t, s, x)'
        /\ \A s, x : s = nthr[t].sid /\ nthr[t].op = "end_session" => KnowsBy(t, s, x)'
    BY <2>3, <2>4, <2>5 DEF MovedTo, OwnedBy, CoveredBy, KnowsBy
  <2>9. nthr'[t].obj = o
    BY <2>3, <2>4
  <2> HIDE DEF o
  <2>10. /\ objs' \in [1..Objs -> ObjRecs] /\ sessions' \in Seq(1..Objs) /\ Live' = Live
         /\ Sessions' /\ Grows(t)
         /\ \A p \in 1..Objs : p # o => objs'[p] = objs[p]
    <3>1. Holdings(o) \subseteq q.active \cup q.removed
      BY <2>2 DEF Holdings
    <3>2. /\ objs[o].removed \subseteq q.removed /\ objs[o].switches \subseteq q.switches
          /\ q.active \subseteq objs[o].active
      BY <2>2
    <3> QED
      BY <1>1, <1>2, <2>1, <2>2, <3>1, <3>2, OwnSession
  <2>11. /\ \A p \in 1..Objs : \A s, x : ActiveIn(p, s, x) =>
               ActiveIn(p, s, x)' \/ KnowsBy(t, s, x)'
         /\ \A p \in 1..Objs : \A x : HeldIn(p, x) => HeldIn(p, x)' \/ OwnedBy(t, x)'
         /\ \A p \in 1..Objs : \A x, y : CoveredIn(p, x, y) =>
               CoveredIn(p, x, y)' \/ CoveredBy(t, x, y)'
    <3>1. \A s, x : ActiveIn(o, s, x) => s = nthr[t].sid /\ nthr[t].op = "end_session"
      BY <1>1 DEF ActiveIn
    <3>2. Holdings(o) = q.removed
      BY <2>2 DEF Holdings
    <3>3. \A p \in 1..Objs : p # o =>
            /\ \A s, x : ActiveIn(p, s, x) => ActiveIn(p, s, x)'
            /\ \A x : HeldIn(p, x) => HeldIn(p, x)'
            /\ \A x, y : CoveredIn(p, x, y) => CoveredIn(p, x, y)'
      BY <2>10 DEF ActiveIn, HeldIn, CoveredIn, Holdings
    <3>4. \A x : HeldIn(o, x) => OwnedBy(t, x)'
      BY <2>8, <3>2 DEF HeldIn
    <3>5. \A x, y : CoveredIn(o, x, y) => CoveredBy(t, x, y)'
      BY <2>8, <3>2 DEF CoveredIn, HeldIn
    <3> QED
      BY <2>8, <3>1, <3>3, <3>4, <3>5
  <2>12. Learns(t) /\ known' \in [VlanSids -> SUBSET Vlans]
    BY <1>1, <1>2 DEF Learns, NmdTypes
  <2>13. LeavesOk(t)
    <3>1. \A p \in Live : p \in 1..Objs
      BY LiveType
    <3>2. "wipe" \in Clearing /\ nthr[t].pc \notin Clearing
      BY <1>1 DEF Clearing, Emptying
    <3> QED
      BY <2>4, <2>9, <2>10, <3>1, <3>2 DEF LeavesOk, MovedTo
  <2>14. KnownOk(t)
    BY <1>2, <2>8, <2>11 DEF KnownOk, Knows
  <2>15. /\ \A x : OwnedBy(t, x)' => Owned(x)'
         /\ \A x, y : CoveredBy(t, x, y)' => Covered(x, y)'
    BY DEF Owned, Covered
  <2> QED
    BY <1>2, <1>3, <2>4, <2>6, <2>7, <2>10, <2>11, <2>12, <2>13, <2>14, <2>15, SessionStep
    DEF MovedTo
<1> QED
  BY <1>4, <1>5

-----------------------------------------------------------------------------
(* get_session finds the session with the id, if it is there.               *)
LEMMA SessionFound ==
  ASSUME NmdInv, NEW s \in VlanSids, NEW o, o = Nm!get_session(s)
  PROVE  /\ o = 0 => \A p \in Live : objs[p].sid # s
         /\ o # 0 => o \in Live /\ o \in 1..Objs /\ objs[o].sid = s
<1> DEFINE I == {i \in 1..Len(sessions) : objs[sessions[i]].sid = s}
<1>1. sessions \in Seq(1..Objs) /\ Live \subseteq 1..Objs
  BY LiveType DEF NmdInv, NmdTypes
<1>2. DOMAIN sessions = 1..Len(sessions) /\ Len(sessions) \in Nat
  BY <1>1
<1>3. 0 \notin Live
  BY <1>1
<1>4. Live = {sessions[i] : i \in 1..Len(sessions)}
  BY <1>2 DEF Live, ToSet
<1>5. CASE I = {}
  <2>1. o = 0
    BY <1>5 DEF Nm!get_session, Nm!SelectInSeq
  <2>2. \A i \in 1..Len(sessions) : objs[sessions[i]].sid # s
    BY <1>5
  <2>3. \A p \in Live : objs[p].sid # s
    BY <1>4, <2>2
  <2> QED
    BY <2>1, <2>3
<1>6. CASE I # {}
  <2> DEFINE m == Nm!Min(I)
  <2>1. m \in I
    <3>1. Nm!Min(I) = Vm!Min(I)
      BY DEF Nm!Min, Vm!Min
    <3>2. I \in SUBSET Nat
      OBVIOUS
    <3> HIDE DEF I
    <3> QED
      BY <1>6, <3>1, <3>2, Least
  <2>2. o = IF m = 0 THEN 0 ELSE sessions[m]
    BY <1>6 DEF Nm!get_session, Nm!SelectInSeq
  <2>3. m \in 1..Len(sessions) /\ objs[sessions[m]].sid = s
    BY <2>1
  <2> HIDE DEF m, I
  <2>4. o = sessions[m] /\ o \in Live
    BY <1>4, <2>2, <2>3
  <2> QED
    BY <1>1, <1>3, <2>3, <2>4
<1> QED
  BY <1>5, <1>6

(* What Forget leaves out is what the request is about to remove.           *)
LEMMA Forgotten ==
  ASSUME NmdInv, NEW t \in VlanThreads, nthr[t].sid \in VlanSids,
         known' = Nm!Forget(t)
  PROVE  /\ known' \in [VlanSids -> SUBSET Vlans] /\ Learns(t)
         /\ \A s \in VlanSids : \A v \in known'[s] : v \in known[s] /\ ~KnowsBy(t, s, v)
<1>1. known \in [VlanSids -> SUBSET Vlans]
  BY DEF NmdInv, NmdTypes
<1>2. CASE nthr[t].op = "delete_vlan"
  <2>1. known' = [known EXCEPT ![nthr[t].sid] = known[nthr[t].sid] \ {nthr[t].v}]
    BY <1>2 DEF Nm!Forget
  <2> QED
    BY <1>1, <1>2, <2>1 DEF Learns, KnowsBy, Removers
<1>3. CASE nthr[t].op = "end_session"
  <2>1. known' = [known EXCEPT ![nthr[t].sid] = {}]
    BY <1>3 DEF Nm!Forget
  <2> QED
    BY <1>1, <1>3, <2>1 DEF Learns, KnowsBy, Removers
<1>4. CASE nthr[t].op \notin Removers
  <2>1. known' = known
    BY <1>4 DEF Nm!Forget, Removers
  <2> QED
    BY <1>1, <1>4, <2>1 DEF Learns, KnowsBy, Removers
<1> QED
  BY <1>2, <1>3, <1>4 DEF Removers

LEMMA KeepLookUp ==
  ASSUME NEW t \in VlanThreads, NmdInv, Nm!LookUp(t)
  PROVE  NmdInv'
<1> DEFINE o == Nm!get_session(nthr[t].sid)
<1>1. /\ NmdTypes /\ AtPlace(t) /\ Relies(t) /\ nthr[t].pc = "session"
      /\ nthr[t].sid \in VlanSids /\ nthr \in [VlanThreads -> ThrRecs]
  BY DEF Nm!LookUp, Nm!At, NmdInv, AtPlace, NmdTypes
<1>2. SameVlans /\ SameObjs
  BY <1>1, SameAll DEF Nm!LookUp, SameVlans
<1>3. /\ Grows(t) /\ Sessions' /\ Live' = Live /\ Live \subseteq 1..Objs
      /\ objs' = objs /\ sessions' = sessions /\ lost' = lost
      /\ objs \in [1..Objs -> ObjRecs] /\ sessions \in Seq(1..Objs)
  BY <1>1, <1>2, SessionsStay, LiveType DEF Nm!LookUp, NmdTypes
<1>4. LeavesOk(t)
  BY <1>1, <1>3 DEF LeavesOk, Clearing, Emptying
<1>5. /\ \A v : ~UnusedBy(t, v)
      /\ \A v, p : ~CoveredBy(t, v, p)
      /\ \A v : OwnedBy(t, v) => nthr[t].op = "add_vlan" /\ v = nthr[t].v
  BY <1>1 DEF UnusedBy, OwnedBy, CoveredBy, Emptying
<1>6. /\ \A p \in 1..Objs : \A s, v : ActiveIn(p, s, v) => ActiveIn(p, s, v)'
      /\ \A p \in 1..Objs : \A v : HeldIn(p, v) => HeldIn(p, v)'
      /\ \A p \in 1..Objs : \A v, x : CoveredIn(p, v, x) => CoveredIn(p, v, x)'
  BY <1>2, SessionsStay
<1>7. CASE o = 0
  <2>1. known' = Nm!Forget(t)
    BY <1>7 DEF Nm!LookUp
  <2>2. /\ known' \in [VlanSids -> SUBSET Vlans] /\ Learns(t)
        /\ \A s \in VlanSids : \A v \in known'[s] : v \in known[s] /\ ~KnowsBy(t, s, v)
    BY <1>1, <2>1, Forgotten
  <2>3. KnownOk(t)
    BY <1>6, <2>2 DEF KnownOk
  <2>4. CASE nthr[t].op = "add_vlan"
    <3>1. Nm!Goto(t, "create")
      BY <1>7, <2>4 DEF Nm!LookUp
    <3>2. MovedTo(t, "create") /\ nthr'[t].v = nthr[t].v
      BY <1>1, <3>1, GotoStep
    <3>3. \A p \in Live : objs[p].sid # nthr[t].sid
      BY <1>1, <1>7, SessionFound
    <3>4. AtPlace(t)'
      BY <1>1, <2>4, <3>2 DEF MovedTo, AtPlace, Inside, Clearing, Emptying, Removers
    <3>5. Relies(t)'
      BY <1>1, <1>3, <2>4, <3>2, <3>3 DEF MovedTo, Relies, Inside, Adders
    <3>6. \A v : OwnedBy(t, v) => OwnedBy(t, v)'
      BY <1>5, <3>2 DEF OwnedBy, MovedTo
    <3>7. \A v : OwnedBy(t, v) => Owned(v)'
      BY <3>6 DEF Owned
    <3> QED
      BY <1>2, <1>3, <1>4, <1>5, <1>6, <2>2, <2>3, <3>2, <3>4, <3>5, <3>7, SessionStep
      DEF MovedTo
  <2>5. CASE nthr[t].op # "add_vlan"
    <3>1. Nm!Answer(t)
      BY <1>7, <2>5 DEF Nm!LookUp
    <3>2. IsAnswered(t) /\ AtPlace(t)' /\ Relies(t)'
      BY <1>1, <3>1, IdleStep
    <3>3. \A v : ~OwnedBy(t, v)
      BY <1>5, <2>5
    <3> QED
      BY <1>2, <1>3, <1>4, <1>5, <1>6, <2>2, <2>3, <3>2, <3>3, SessionStep DEF IsAnswered
  <2> QED
    BY <2>4, <2>5
<1>8. CASE o # 0
  <2> DEFINE q == [nthr[t] EXCEPT !.pc = "enter", !.obj = o]
  <2>1. nthr' = [nthr EXCEPT ![t] = q] /\ UNCHANGED known
    BY <1>8 DEF Nm!LookUp
  <2>2. o \in Live /\ o \in 1..Objs /\ objs[o].sid = nthr[t].sid
    BY <1>1, <1>8, SessionFound
  <2> HIDE DEF o
  <2>3. /\ q \in ThrRecs /\ q.pc = "enter" /\ q.op = nthr[t].op /\ q.sid = nthr[t].sid
        /\ q.v = nthr[t].v /\ q.port = nthr[t].port /\ q.obj = o
    <3>1. o \in 0..Objs /\ nthr[t] \in ThrRecs
      BY <1>1, <2>2
    <3> QED
      BY <3>1 DEF ThrRecs, Inside
  <2> HIDE DEF q
  <2>4. MovedTo(t, "enter") /\ nthr'[t].v = nthr[t].v /\ nthr'[t].obj = o
    BY <1>1, <2>1, <2>3, ChangeStep
  <2>5. AtPlace(t)'
    BY <1>1, <1>3, <2>2, <2>4 DEF MovedTo, AtPlace, Inside, Clearing, Emptying, Removers
  <2>6. ASSUME nthr[t].op \in Adders
        PROVE  ~objs[o].cleared
    <3>1. SUFFICES ASSUME objs[o].cleared
                   PROVE  FALSE
      OBVIOUS
    <3>2. PICK u \in VlanThreads : nthr[u].obj = o /\ nthr[u].pc \in Clearing
      BY <2>2, <3>1 DEF NmdInv, Leaves
    <3>3. nthr[u].op \in Removers /\ nthr[u].sid = nthr[t].sid
      BY <2>2, <3>2 DEF NmdInv, AtPlace, Inside, Clearing, Emptying
    <3>4. t # u
      BY <1>1, <3>2 DEF Clearing, Emptying
    <3> QED
      BY <2>6, <3>3, <3>4 DEF NmdInv, Excludes
  <2>7. ASSUME nthr[t].op = "add_to_vlan"
        PROVE  nthr[t].v \in Holdings(o)
    <3>1. nthr[t].v \in known[nthr[t].sid]
      BY <1>1, <2>7 DEF Relies
    <3>2. Knows(nthr[t].sid, nthr[t].v)
      BY <1>1, <3>1 DEF NmdInv, Known
    <3>3. \A u \in VlanThreads : ~KnowsBy(u, nthr[t].sid, nthr[t].v)
      BY <2>7 DEF NmdInv, Excludes, KnowsBy, Adders, Removers
    <3>4. PICK p \in 1..Objs : ActiveIn(p, nthr[t].sid, nthr[t].v)
      BY <3>2, <3>3 DEF Knows
    <3>5. p = o
      BY <2>2, <3>4 DEF ActiveIn, NmdInv, Sessions, Live, ToSet
    <3> QED
      BY <3>4, <3>5 DEF ActiveIn, Holdings
  <2>8. Relies(t)'
    <3>1. nthr[t].op = "add_to_vlan" => nthr[t].v \in objs[o].active \cup objs[o].removed
      BY <2>7 DEF Holdings
    <3> QED
      BY <1>3, <2>2, <2>4, <2>6, <3>1 DEF MovedTo, Relies, Holdings, Adders
  <2>9. Learns(t) /\ known' \in [VlanSids -> SUBSET Vlans]
    BY <1>1, <2>1 DEF Learns, NmdTypes
  <2>10. KnownOk(t)
    <3>1. \A s, v : KnowsBy(t, s, v) => KnowsBy(t, s, v)'
      BY <2>4 DEF KnowsBy, MovedTo
    <3> QED
      BY <1>6, <2>1, <3>1 DEF KnownOk, Knows
  <2>11. \A v : OwnedBy(t, v) => Owned(v)'
    <3>1. \A v : OwnedBy(t, v) => OwnedBy(t, v)'
      BY <1>5, <2>4 DEF OwnedBy, MovedTo
    <3> QED
      BY <3>1 DEF Owned
  <2> QED
    BY <1>2, <1>3, <1>4, <1>5, <1>6, <2>4, <2>5, <2>8, <2>9, <2>10, <2>11, SessionStep
    DEF MovedTo
<1> QED
  BY <1>7, <1>8

LEMMA KeepRemoveSession ==
  ASSUME NEW t \in VlanThreads, NmdInv, Nm!remove_session(t)
  PROVE  NmdInv'
<1> DEFINE o == nthr[t].obj
<1>1. /\ NmdTypes /\ AtPlace(t) /\ nthr[t].pc = "cleared" /\ nthr[t].op \in Removers
      /\ nthr[t].sid \in VlanSids /\ o \in 1..Objs /\ Sessions /\ Live \subseteq 1..Objs
  BY LiveType DEF Nm!remove_session, Nm!At, NmdInv, AtPlace, Inside, Clearing, Emptying
<1>2. /\ SameVlans /\ UNCHANGED objs /\ UNCHANGED lost /\ Nm!Answer(t) /\ known' = Nm!Forget(t)
      /\ sessions' = IF objs[o].cleared THEN Nm!RemoveFirst(sessions, o) ELSE sessions
  BY DEF Nm!remove_session, SameVlans
<1>3. IsAnswered(t) /\ AtPlace(t)' /\ Relies(t)'
  BY <1>1, <1>2, IdleStep
<1>4. /\ known' \in [VlanSids -> SUBSET Vlans] /\ Learns(t)
      /\ \A s \in VlanSids : \A v \in known'[s] : v \in known[s] /\ ~KnowsBy(t, s, v)
  BY <1>1, <1>2, Forgotten
<1>5. /\ \A v : ~UnusedBy(t, v) /\ ~OwnedBy(t, v)
      /\ \A v, p : ~CoveredBy(t, v, p)
  BY <1>1 DEF UnusedBy, OwnedBy, CoveredBy, Emptying, Removers
<1>6. /\ sessions' \in Seq(1..Objs) /\ Live' \subseteq Live
      /\ \A p \in Live : p \in Live' \/ (p = o /\ objs[o].cleared)
      /\ objs[o].cleared => o \notin Live'
      /\ \A i, j \in DOMAIN sessions' : i # j =>
           \E m, k \in DOMAIN sessions :
             m # k /\ sessions'[i] = sessions[m] /\ sessions'[j] = sessions[k]
  <2> DEFINE T == 1..Objs
  <2>1. sessions \in Seq(T)
    BY <1>1 DEF NmdTypes
  <2>2. \A i, j \in DOMAIN sessions : sessions[i] = sessions[j] => i = j
    BY <1>1 DEF Sessions
  <2>3. CASE objs[o].cleared
    <3> DEFINE r == Nm!RemoveFirst(sessions, o)
    <3>1. sessions' = r
      BY <1>2, <2>3
    <3> HIDE DEF T, o
    <3>2. /\ r \in Seq(T) /\ ToSet(r) = ToSet(sessions) \ {o}
          /\ \A i, j \in DOMAIN r : i # j =>
               \E m, k \in DOMAIN sessions : m # k /\ r[i] = sessions[m] /\ r[j] = sessions[k]
      BY <2>1, <2>2, RemovedSet
    <3> HIDE DEF r
    <3>3. Live' = Live \ {o}
      BY <3>1, <3>2 DEF Live
    <3>4. sessions' \in Seq(1..Objs)
      BY <3>1, <3>2 DEF T
    <3> QED
      BY <2>3, <3>1, <3>2, <3>3, <3>4
  <2>4. CASE ~objs[o].cleared
    <3>1. sessions' = sessions /\ Live' = Live
      BY <1>2, <2>4 DEF Live
    <3> QED
      BY <2>1, <2>4, <3>1
  <2> QED
    BY <2>3, <2>4
<1> HIDE DEF o
<1>7. Sessions'
  <2>1. ASSUME NEW i \in DOMAIN sessions', NEW j \in DOMAIN sessions', i # j
        PROVE  objs'[sessions'[i]].sid # objs'[sessions'[j]].sid
    <3>1. PICK m \in DOMAIN sessions, k \in DOMAIN sessions :
             m # k /\ sessions'[i] = sessions[m] /\ sessions'[j] = sessions[k]
      BY <1>6, <2>1
    <3>2. objs[sessions[m]].sid # objs[sessions[k]].sid
      BY <1>1, <3>1 DEF Sessions
    <3> QED
      BY <1>2, <3>1, <3>2
  <2>2. \A p \in Live' : objs'[p].sid \in VlanSids
    BY <1>1, <1>2, <1>6 DEF Sessions
  <2> QED
    BY <2>1, <2>2 DEF Sessions
<1>8. Grows(t)
  BY <1>2, <1>6 DEF Grows, Holdings
<1>9. LeavesOk(t)
  BY <1>2, <1>6 DEF LeavesOk, o
<1>10. /\ \A p \in 1..Objs : \A s, v : ActiveIn(p, s, v) => ActiveIn(p, s, v)'
       /\ \A p \in 1..Objs : \A v : HeldIn(p, v) => HeldIn(p, v)'
       /\ \A p \in 1..Objs : \A v, x : CoveredIn(p, v, x) => CoveredIn(p, v, x)'
  BY <1>2, <1>6 DEF ActiveIn, HeldIn, CoveredIn, Holdings
<1>11. KnownOk(t)
  BY <1>4, <1>10 DEF KnownOk
<1>12. objs' \in [1..Objs -> ObjRecs]
  BY <1>1, <1>2 DEF NmdTypes
<1> QED
  BY <1>2, <1>3, <1>4, <1>5, <1>6, <1>7, <1>8, <1>9, <1>10, <1>11, <1>12, SessionStep
  DEF IsAnswered

-----------------------------------------------------------------------------
LEMMA StepKeeps ==
  ASSUME NEW t \in VlanThreads, NmdInv, Nm!Step(t)
  PROVE  NmdInv'
BY KeepAlloc, KeepSetInUse, KeepNewSession, KeepAddVlan, KeepLookUp, KeepAddToVlan,
   KeepAddPort, KeepAddSwitch, KeepCreate, KeepAddCmd, KeepCreated, KeepRemoveVlan,
   KeepClearing, KeepClearCmd, KeepWiped, KeepClearIfEmpty, KeepResetVlan, KeepFreeVlan,
   KeepCleared, KeepRemoveSession
DEF Nm!Step

-----------------------------------------------------------------------------
(***************************************************************************)
(* New requests, the switches and the crd.                                 *)
(***************************************************************************)
Taken(n, pc, op, s, v, p) == [n EXCEPT !.pc = pc, !.op = op, !.sid = s, !.v = v, !.port = p]

LEMMA TakenRecord ==
  ASSUME NEW n \in ThrRecs, NEW pc \in {"alloc", "session"},
         NEW op \in Adders \cup Removers \cup {"start_session"}, NEW s \in VlanSids,
         NEW v \in Vlans \cup {0}, NEW p \in SwitchPorts \cup {"none"}, NEW q,
         q = Taken(n, pc, op, s, v, p)
  PROVE  q \in ThrRecs /\ q.pc = pc /\ q.op = op /\ q.sid = s /\ q.v = v /\ q.port = p
<1>1. pc \in Inside \cup {"idle", "alloc", "use", "session", "create"}
  OBVIOUS
<1>2. op \in Adders \cup Removers \cup {"start_session", "none"} /\ s \in VlanSids \cup {""}
  OBVIOUS
<1> DEFINE m == [n EXCEPT !.pc = pc, !.op = op]
<1>3. m \in ThrRecs /\ m.pc = pc /\ m.op = op
  BY <1>1, <1>2 DEF ThrRecs
<1>4. q = [m EXCEPT !.sid = s, !.v = v, !.port = p]
  BY DEF Taken
<1> HIDE DEF m
<1> QED
  BY <1>2, <1>3, <1>4 DEF ThrRecs

(* A request is taken by an idle thread if the crd excludes it from the     *)
(* ones it has not answers for.                                             *)
LEMMA KeepTake ==
  ASSUME NEW t \in VlanThreads, NmdInv, NEW op \in Adders \cup Removers \cup {"start_session"},
         NEW pc \in {"alloc", "session"}, NEW s \in VlanSids, NEW v \in Vlans \cup {0},
         NEW p \in SwitchPorts \cup {"none"}, Nm!Take(t, op, pc, s, v, p),
         pc = "alloc" <=> op = "add_vlan",
         op = "add_to_vlan" => v \in known[s] /\ v \in Vlans /\ p \in SwitchPorts,
         op = "delete_vlan" => v \in Vlans,
         op \in Adders => ~Nm!Removing(s),
         op \in Removers => ~Nm!Adding(s),
         op = "add_vlan" => ~Nm!Adding(s),
         op = "add_to_vlan" => \A u \in VlanThreads : ~(nthr[u].sid = s /\ nthr[u].op = "add_vlan")
  PROVE  NmdInv'
<1> DEFINE q == Taken(Nm!NoRequest, pc, op, s, v, p)
<1>1. /\ NmdTypes /\ nthr[t].pc = "idle" /\ nthr[t].op = "none" /\ nthr[t].sid = ""
      /\ nthr \in [VlanThreads -> ThrRecs]
  BY DEF Nm!Take, Nm!At, NmdInv, AtPlace, NmdTypes
<1>2. /\ nthr' = [nthr EXCEPT ![t] = q]
      /\ vlans' = vlans /\ free_vlans' = free_vlans /\ objs' = objs /\ sessions' = sessions
      /\ known' = known /\ lost' = lost
  BY DEF Nm!Take, Taken
<1>3. /\ q \in ThrRecs /\ q.pc = pc /\ q.op = op /\ q.sid = s /\ q.v = v /\ q.port = p
  <2>1. Nm!NoRequest \in ThrRecs
    BY NoRequestIs
  <2> QED
    BY <2>1, TakenRecord
<1> HIDE DEF q
<1>4. /\ nthr' \in [VlanThreads -> ThrRecs] /\ nthr'[t] = q
      /\ \A u \in VlanThreads \ {t} : nthr'[u] = nthr[u]
  BY <1>1, <1>2, <1>3
<1>5. /\ Live' = Live /\ FreeVlans' = FreeVlans
      /\ \A o : Holdings(o)' = Holdings(o)
  BY <1>2 DEF Live, FreeVlans, Holdings
<1>6. NmdTypes'
  BY <1>1, <1>2, <1>4 DEF NmdTypes
<1>7. AtPlace(t)' /\ Relies(t)'
  <2>1. AtPlace(t)'
    BY <1>3, <1>4 DEF AtPlace, Inside, Clearing, Emptying, Adders, Removers
  <2>2. Relies(t)'
    BY <1>2, <1>3, <1>4 DEF Relies, Inside
  <2> QED
    BY <2>1, <2>2
<1>8. \A u \in VlanThreads : AtPlace(u)' /\ Relies(u)'
  <2> SUFFICES ASSUME NEW u \in VlanThreads \ {t}
               PROVE  AtPlace(u)' /\ Relies(u)'
    BY <1>7
  <2>1. AtPlace(u) /\ Relies(u) /\ nthr'[u] = nthr[u]
    BY <1>4 DEF NmdInv
  <2>2. AtPlace(u)'
    BY <1>2, <2>1 DEF AtPlace
  <2>3. Relies(u)'
    BY <1>2, <1>5, <2>1 DEF Relies
  <2> QED
    BY <2>2, <2>3
<1>9. \A u, w \in VlanThreads : Excludes(u, w)'
  <2>1. \A u \in VlanThreads \ {t} : Excludes(t, u)' /\ Excludes(u, t)'
    BY <1>3, <1>4 DEF Excludes, Nm!Adding, Nm!Removing, Adders, Removers
  <2>2. \A u, w \in VlanThreads \ {t} : Excludes(u, w)'
    BY <1>4 DEF NmdInv, Excludes
  <2>3. Excludes(t, t)'
    BY DEF Excludes
  <2> QED
    BY <2>1, <2>2, <2>3
<1>10. Sessions'
  BY <1>2, <1>5 DEF NmdInv, Sessions
<1>11. /\ \A x : ~UnusedBy(t, x) /\ ~OwnedBy(t, x)
       /\ \A x, y : ~CoveredBy(t, x, y) /\ ~KnowsBy(t, x, y)
       /\ nthr[t].pc \notin Clearing
  BY <1>1 DEF UnusedBy, OwnedBy, CoveredBy, KnowsBy, Emptying, Clearing
<1>12. Leaves'
  BY <1>2, <1>4, <1>5, <1>11 DEF NmdInv, Leaves
<1>13. Known'
  <2>1. \A x, y : \A u \in VlanThreads \ {t} : KnowsBy(u, x, y) => KnowsBy(u, x, y)'
    BY <1>4 DEF KnowsBy
  <2>2. \A o, x, y : ActiveIn(o, x, y) => ActiveIn(o, x, y)'
    BY <1>2, <1>5 DEF ActiveIn
  <2>3. \A x \in VlanSids : \A y \in known[x] : Knows(x, y)
    BY DEF NmdInv, Known
  <2>4. \A x, y : Knows(x, y) => Knows(x, y)'
    BY <1>11, <2>1, <2>2 DEF Knows
  <2> QED
    BY <1>2, <2>3, <2>4 DEF Known
<1>14. Unused'
  <2>1. \A x : \A u \in VlanThreads \ {t} : UnusedBy(u, x) => UnusedBy(u, x)'
    BY <1>4 DEF UnusedBy
  <2> QED
    BY <1>2, <1>5, <1>11, <2>1 DEF NmdInv, Unused
<1>15. Empty'
  <2>1. \A x : \A u \in VlanThreads \ {t} : OwnedBy(u, x) => OwnedBy(u, x)'
    BY <1>2, <1>4 DEF OwnedBy
  <2>2. \A o, x : HeldIn(o, x) => HeldIn(o, x)'
    BY <1>2, <1>5 DEF HeldIn
  <2>3. \A x : Owned(x) => Owned(x)'
    BY <1>11, <2>1, <2>2 DEF Owned
  <2> QED
    BY <1>2, <2>3 DEF NmdInv, Empty
<1>16. Ported'
  <2>1. \A x, y : \A u \in VlanThreads \ {t} : CoveredBy(u, x, y) => CoveredBy(u, x, y)'
    BY <1>2, <1>4 DEF CoveredBy
  <2>2. \A o, x, y : CoveredIn(o, x, y) => CoveredIn(o, x, y)'
    BY <1>2, <1>5 DEF CoveredIn, HeldIn
  <2>3. \A x, y : Covered(x, y) => Covered(x, y)'
    BY <1>11, <2>1, <2>2 DEF Covered
  <2> QED
    BY <1>2, <2>3 DEF NmdInv, Ported
<1> QED
  BY <1>6, <1>8, <1>9, <1>10, <1>12, <1>13, <1>14, <1>15, <1>16 DEF NmdInv

(* What the invariant reads is the tables, not the switches.                *)
LEMMA KeepTables ==
  ASSUME NmdInv, UNCHANGED <<vlans, free_vlans, objs, sessions, nthr, known, lost>>
  PROVE  NmdInv'
<1>1. /\ vlans' = vlans /\ free_vlans' = free_vlans /\ objs' = objs /\ sessions' = sessions
      /\ nthr' = nthr /\ known' = known /\ lost' = lost
  OBVIOUS
<1>2. Live' = Live /\ FreeVlans' = FreeVlans /\ \A o : Holdings(o)' = Holdings(o)
  BY <1>1 DEF Live, FreeVlans, Holdings
<1>3. NmdTypes' /\ \A t \in VlanThreads : AtPlace(t)' /\ Relies(t)'
  <2>1. NmdTypes'
    BY <1>1 DEF NmdInv, NmdTypes
  <2>2. \A t \in VlanThreads : AtPlace(t)'
    BY <1>1 DEF NmdInv, AtPlace
  <2>3. \A t \in VlanThreads : Relies(t) => Relies(t)'
    BY <1>1, <1>2 DEF Relies
  <2> QED
    BY <2>1, <2>2, <2>3 DEF NmdInv
<1>4. \A t, u \in VlanThreads : Excludes(t, u)'
  BY <1>1 DEF NmdInv, Excludes
<1>5. Sessions' /\ Leaves'
  BY <1>1, <1>2 DEF NmdInv, Sessions, Leaves
<1>6. Known'
  BY <1>1, <1>2 DEF NmdInv, Known, Knows, ActiveIn, KnowsBy
<1>7. Unused'
  BY <1>1, <1>2 DEF NmdInv, Unused, UnusedBy
<1>8. Empty'
  BY <1>1, <1>2 DEF NmdInv, Empty, Owned, HeldIn, OwnedBy
<1>9. Ported'
  BY <1>1, <1>2 DEF NmdInv, Ported, Covered, CoveredIn, HeldIn, CoveredBy
<1> QED
  BY <1>3, <1>4, <1>5, <1>6, <1>7, <1>8, <1>9 DEF NmdInv

(* When all the switches are emptied nothing has a vlan any more, and the   *)
(* vlans that were in use are lost to the list of free vlans.               *)
LEMMA KeepInitialize ==
  ASSUME NEW t \in VlanThreads, NmdInv, Nm!initialize_req(t)
  PROVE  NmdInv'
<1>1. \A u \in VlanThreads : nthr[u].pc = "idle" /\ nthr[u].op = "none" /\ nthr[u].sid = ""
  BY DEF Nm!initialize_req, Nm!At, NmdInv, AtPlace
<1>2. /\ free_vlans' = free_vlans /\ objs' = objs /\ nthr' = nthr
      /\ known' = [s \in VlanSids |-> {}]
  BY DEF Nm!initialize_req
<1>3. NmdTypes /\ FreeVlans' = FreeVlans /\ vlans \in [Vlans -> VlanRecs]
  BY <1>2 DEF NmdInv, NmdTypes, FreeVlans
<1>4. \A u \in VlanThreads : AtPlace(u)' /\ Relies(u)'
  BY <1>1, <1>2 DEF AtPlace, Relies, Inside, Clearing, Emptying, Adders
<1>5. \A u, w \in VlanThreads : Excludes(u, w)'
  BY <1>1, <1>2 DEF Excludes, Adders, Removers
<1>6. Known' /\ known' \in [VlanSids -> SUBSET Vlans]
  BY <1>2 DEF Known
<1>7. CASE /\ vlans' = [v \in Vlans |-> [vlans[v] EXCEPT !.in_use = FALSE, !.ports = {}]]
           /\ sessions' = <<>>
           /\ lost' = lost \cup (Vlans \ Nm!ToSet(free_vlans))
  <2>1. \A v \in Vlans : vlans'[v] \in VlanRecs /\ ~vlans'[v].in_use /\ vlans'[v].ports = {}
    BY <1>3, <1>7 DEF VlanRecs
  <2>2. vlans' \in [Vlans -> VlanRecs]
    <3>1. \A v \in Vlans : [vlans[v] EXCEPT !.in_use = FALSE, !.ports = {}] \in VlanRecs
      BY <1>3 DEF VlanRecs
    <3> QED
      BY <1>7, <3>1
  <2>3. sessions' \in Seq(1..Objs) /\ DOMAIN sessions' = {} /\ Live' = {}
    <3>1. sessions' = <<>>
      BY <1>7
    <3>2. sessions' \in Seq(1..Objs) /\ DOMAIN sessions' = {}
      BY <3>1
    <3> QED
      BY <3>2 DEF Live, ToSet
  <2>4. NmdTypes'
    BY <1>2, <1>3, <1>6, <2>2, <2>3 DEF NmdTypes
  <2>5. Sessions' /\ Leaves'
    BY <2>3 DEF Sessions, Leaves
  <2>6. \A v \in Vlans \ lost' : v \in FreeVlans'
    BY <1>3, <1>7 DEF FreeVlans, ToSet, Nm!ToSet
  <2>7. Unused'
    BY <2>6 DEF Unused
  <2>8. Empty' /\ Ported'
    BY <2>1 DEF Empty, Ported
  <2> QED
    BY <1>4, <1>5, <1>6, <2>4, <2>5, <2>7, <2>8 DEF NmdInv
<1>8. CASE UNCHANGED <<vlans, sessions, lost>>
  <2>1. vlans' = vlans /\ sessions' = sessions /\ lost' = lost /\ Live' = Live
    BY <1>8 DEF Live
  <2>2. NmdTypes'
    BY <1>2, <1>3, <1>6, <2>1 DEF NmdTypes
  <2>3. Sessions' /\ Leaves'
    BY <1>2, <2>1 DEF NmdInv, Sessions, Leaves
  <2>4. Unused'
    BY <1>2, <1>3, <2>1 DEF NmdInv, Unused, UnusedBy
  <2>5. \A o : Holdings(o)' = Holdings(o)
    BY <1>2 DEF Holdings
  <2>6. Empty'
    BY <1>2, <2>1, <2>5 DEF NmdInv, Empty, Owned, HeldIn, OwnedBy
  <2>7. Ported'
    BY <1>2, <2>1, <2>5 DEF NmdInv, Ported, Covered, CoveredIn, HeldIn, CoveredBy
  <2> QED
    BY <1>4, <1>5, <1>6, <2>2, <2>3, <2>4, <2>6, <2>7 DEF NmdInv
<1> QED
  BY <1>7, <1>8 DEF Nm!initialize_req

LEMMA RequestKeeps ==
  ASSUME NEW t \in VlanThreads, NmdInv, Nm!Request(t)
  PROVE  NmdInv'
<1>1. ASSUME NEW s \in VlanSids, Nm!add_vlan_req(t, s)
      PROVE  NmdInv'
  <2>1. /\ ~Nm!Adding(s) /\ ~Nm!Removing(s)
        /\ Nm!Take(t, "add_vlan", "alloc", s, 0, "none")
    BY <1>1 DEF Nm!add_vlan_req
  <2> QED
    BY <2>1, KeepTake DEF Adders, Removers
<1>2. ASSUME NEW s \in VlanSids, Nm!add_to_vlan_req(t, s)
      PROVE  NmdInv'
  <2>1. PICK v \in known[s], p \in SwitchPorts :
          Nm!Take(t, "add_to_vlan", "session", s, v, p)
    BY <1>2 DEF Nm!add_to_vlan_req
  <2>2. /\ ~Nm!Removing(s)
        /\ \A u \in VlanThreads : ~(nthr[u].sid = s /\ nthr[u].op = "add_vlan")
    BY <1>2 DEF Nm!add_to_vlan_req
  <2>3. v \in Vlans
    BY <2>1 DEF NmdInv, NmdTypes
  <2> QED
    BY <2>1, <2>2, <2>3, KeepTake DEF Adders, Removers
<1>3. ASSUME NEW s \in VlanSids, Nm!delete_vlan_req(t, s)
      PROVE  NmdInv'
  <2>1. PICK v \in known[s] : Nm!Take(t, "delete_vlan", "session", s, v, "none")
    BY <1>3 DEF Nm!delete_vlan_req
  <2>2. ~Nm!Adding(s)
    BY <1>3 DEF Nm!delete_vlan_req
  <2>3. v \in Vlans
    BY <2>1 DEF NmdInv, NmdTypes
  <2> QED
    BY <2>1, <2>2, <2>3, KeepTake DEF Adders, Removers
<1>4. ASSUME NEW s \in VlanSids, Nm!start_session_req(t, s)
      PROVE  NmdInv'
  <2>1. Nm!Take(t, "start_session", "session", s, 0, "none")
    BY <1>4 DEF Nm!start_session_req
  <2> QED
    BY <2>1, KeepTake DEF Adders, Removers
<1>5. ASSUME NEW s \in VlanSids, Nm!end_session_req(t, s)
      PROVE  NmdInv'
  <2>1. ~Nm!Adding(s) /\ Nm!Take(t, "end_session", "session", s, 0, "none")
    BY <1>5 DEF Nm!end_session_req
  <2> QED
    BY <2>1, KeepTake DEF Adders, Removers
<1>6. ASSUME NEW s \in VlanSids, Nm!delete_from_vlan_req(t, s)
      PROVE  NmdInv'
  BY <1>6, KeepTables DEF Nm!delete_from_vlan_req, Nm!vars
<1> QED
  BY <1>1, <1>2, <1>3, <1>4, <1>5, <1>6, KeepInitialize DEF Nm!Request

-----------------------------------------------------------------------------
(* In the other parts the nmd does nothing.                                 *)
VlansInv == kind = "nmd" => NmdInv

LEMMA VlansStart == MCInit => VlansInv
BY AtStart DEF MCInit, VlansInv

LEMMA VlansStep == VlansInv /\ [MCNext]_mcVars => VlansInv'
<1> SUFFICES ASSUME VlansInv, [MCNext]_mcVars, kind' = "nmd"
             PROVE  NmdInv'
  BY DEF VlansInv
<1>1. kind = "nmd" /\ NmdInv
  BY DEF VlansInv, MCNext, ConnNext, VmNext, HostNext, CcnxNext, NmdNext, mcVars
<1>2. CASE nmdVars' = nmdVars
  BY <1>1, <1>2, KeepTables DEF nmdVars
<1>3. CASE NmdNext
  <2>1. CASE Nm!Environment
    BY <1>1, <2>1, KeepTables DEF Nm!Environment, Nm!start_ssh, Nm!start_ssh_timeout, Nm!finish_ssh
  <2>2. CASE \E t \in VlanThreads : Nm!Request(t)
    BY <1>1, <2>2, RequestKeeps
  <2>3. CASE \E t \in VlanThreads : Nm!Step(t)
    BY <1>1, <2>3, StepKeeps
  <2> QED
    BY <1>3, <2>1, <2>2, <2>3 DEF NmdNext
<1> QED
  BY <1>1, <1>2, <1>3 DEF MCNext, ConnNext, VmNext, HostNext, CcnxNext, mcVars

(* The nmd loses no vlan: at rest each one is on the list of free vlans, or *)
(* in a session that can still be ended, or was in use when the switches    *)
(* were initialized again.  Whatever two sessions do at the same time, the  *)
(* vlans that never had a port are given back by clear_if_empty and the     *)
(* others by get_clear_vlan_cmd (vlan_set, session).                        *)
THEOREM NoVlanLeakedCorrect == MCSpec => []NoVlanLeaked
<1>1. VlansInv => NoVlanLeaked
  BY AtRest DEF VlansInv, NoVlanLeaked
<1> QED
  BY <1>1, VlansStart, VlansStep, PTL DEF MCSpec
=============================================================================
