---------------------------- MODULE Reservations ----------------------------
(***************************************************************************)
(* The reservations of the testbed: the operations of the class onldb      *)
(* (src/database/src/onldb.cc) on the tables reservations, nodeschedule,   *)
(* experiments and nodes.                                                  *)
(*                                                                         *)
(* Every client (the crd, the reservation web page's program, the          *)
(* operators' tools) has a database connection of its own and serialises   *)
(* its changes with the MySQL lock "reservation"; the state column of      *)
(* nodes and clear_all_experiments are written without it.  A statement    *)
(* can throw: what was written before it stays.                            *)
(*                                                                         *)
(* A node stands for a base node or for a hardware cluster with its        *)
(* members, which are scheduled as one.  A request asks for a number of    *)
(* nodes of one type, some of them fixed; how its links are embedded in    *)
(* the testbed's topology is left out.  What a client does between taking  *)
(* the lock and its first write is one step: nobody else writes these      *)
(* tables then.                                                            *)
(***************************************************************************)
EXTENDS ResRanges

CONSTANTS Nodes,
          Users,        \* the users, administrators included
          Admins,       \* is_admin and is_sysadmin
          UserClients,  \* the reservation programs, which act for users
          CrdClients,   \* the crd
          OpClients,    \* the operators' tools
          Rids,         \* 1..n; bound: the rows that can be inserted
          MaxNow,       \* bound: the clock stops here
          Horizon,      \* policy: how far ahead a reservation may end
          MaxLen,       \* typepolicy: the longest reservation
          UserMaxNum,   \* typepolicy: the most nodes in one request
          UserMaxUsage, GrpMaxUsage, \* typepolicy: usage per week
          Begins,       \* the begin times asked for
          Lens,         \* the lengths asked for
          Nums,         \* the numbers of nodes asked for
          Named,        \* the nodes asked for by name and operated upon
          NoClient

Clients == UserClients \cup CrdClients \cup OpClients

ASSUME ClientAssumption ==
  NoClient \notin Clients /\ Named \subseteq Nodes /\ Admins \subseteq Users
ASSUME TimesAssumption ==
  /\ MaxNow \in Nat /\ Horizon \in Nat /\ MaxLen \in Nat
  /\ Begins \subseteq Nat /\ Lens \subseteq Nat \ {0} /\ Nums \subseteq Nat
  /\ Rids \subseteq Nat
ASSUME UserAssumption == {"testing", "repair", "system"} \cap Users = {}

Special == {"testing", "repair"}

Owners == Users \cup Special \cup {"system"}

RowStates == {"none", "pending", "active", "used", "cancelled"}

NodeStates == {"free", "active", "repair", "testing"}

VARIABLES
  now,       \* the clock
  rsv,       \* the rows of reservations with their nodeschedule
  open,      \* the reservations with an open experiment (begin = end)
  nstate,    \* nodes.state
  lock,      \* the holder of the lock "reservation"
  pc,        \* where each client is in its call
  job        \* the locals of that call; threw: one of its statements has failed

vars == <<now, rsv, open, nstate, lock, pc, job>>

Row == [user : Owners, begin : Int, end : Int, state : RowStates,
        nodes : SUBSET Nodes, fixed : SUBSET Nodes]

NoRow == [user |-> "system", begin |-> 0, end |-> 0, state |-> "none",
          nodes |-> {}, fixed |-> {}]

NoJob == [row |-> NoRow, node |-> {}, old |-> "free", new |-> "free", todo |-> {},
          threw |-> FALSE]

Init ==
  /\ now = 0
  /\ rsv = [r \in Rids |-> NoRow]
  /\ open = {}
  /\ nstate = [n \in Nodes |-> "free"]
  /\ lock = NoClient
  /\ pc = [c \in Clients |-> "idle"]
  /\ job = [c \in Clients |-> NoJob]

-----------------------------------------------------------------------------
(* The queries.                                                             *)

Live(r) == rsv[r].state \in {"pending", "active", "used"}

\* The live rows but the cancelled row `not', that overlap a time.
LiveIn(b, e, not) == {r \in Rids \ not : Live(r) /\ Overlaps(rsv[r], b, e)}

SpansOf(S) == {<<r, rsv[r]>> : r \in S}

Reserved(b, e, not) == UNION {rsv[r].nodes : r \in LiveIn(b, e, not)}

\* The nodes that get_base_topology leaves unmarked.
BaseNodes(b, e, not) ==
  {n \in Nodes : nstate[n] \notin Special /\ n \notin Reserved(b, e, not)}

\* With noreservations set, also those that users have reserved.
AllBaseNodes(b, e) ==
  BaseNodes(b, e, {}) \cup
  UNION {rsv[r].nodes : r \in {s \in LiveIn(b, e, {}) : rsv[s].user \notin Special}}

\* The nodes of the repair and testing reservations: check_fixed_comps refuses
\* them to users, add_special_node hands them to administrators.
SpecialNodes(b, e, not) ==
  UNION {rsv[r].nodes : r \in {s \in LiveIn(b, e, not) : rsv[s].user \in Special}}

(***************************************************************************)
(* The sets of nodes that try_reservation can give to a request without    *)
(* links: as many as asked for, the fixed ones among them.                 *)
(***************************************************************************)
Candidates(base, special, u, num, fixed) ==
  LET extra == IF u \in Admins THEN (fixed \ base) \cap special ELSE {}
  IN IF u \notin Admins /\ fixed \cap special # {} THEN {}
     ELSE {S \in SUBSET (base \cup extra) :
             Cardinality(S) = num /\ fixed \subseteq S}

TryReservation(u, b, e, num, fixed, not) ==
  Candidates(BaseNodes(b, e, not), SpecialNodes(b, e, not), u, num, fixed)

\* The first test of a range: could the request be met if no user had
\* reserved anything?
Mappable(u, b, e, num, fixed) ==
  Candidates(AllBaseNodes(b, e), SpecialNodes(b, e, {}), u, num, fixed) # {}

-----------------------------------------------------------------------------
(* The lock.                                                                *)

\* Mutant: the statements are not serialised.
CanLockMut(c) == c \in Clients

\* get_lock succeeds when nobody holds the lock, and for the connection that
\* holds it already.
CanLock(c) == lock \in {NoClient, c}

\* get_lock times out after ten seconds.
LockFails(c) == lock \notin {NoClient, c}

\* The call of a client ends, with the lock released.
Return(c) ==
  /\ lock' = NoClient
  /\ pc' = [pc EXCEPT ![c] = "idle"]
  /\ job' = [job EXCEPT ![c] = NoJob]

\* The call of a client ends before it held the lock.
Refuse(c) ==
  /\ pc' = [pc EXCEPT ![c] = "idle"]
  /\ job' = [job EXCEPT ![c] = NoJob]
  /\ UNCHANGED <<now, rsv, open, nstate, lock>>

\* The row that the next insert makes.
NextRid == Min({r \in Rids : rsv[r].state = "none"})

HasRid == \E r \in Rids : rsv[r].state = "none"

-----------------------------------------------------------------------------
(* make_reservation.                                                        *)

\* The users' reservations that count for the weekly usage.
UsageSpans(us) ==
  SpansOf({r \in Rids : Live(r) /\ rsv[r].user \in us /\ rsv[r].nodes # {}})

\* The reservations that block a user: his own, and for users the system's.
OwnSpans(u) ==
  SpansOf({r \in Rids : Live(r) /\ rsv[r].user \in
             IF u \in Admins THEN {u} ELSE {u, "system"}})

\* What the checks leave of a requested range, in the order it is tried.
PossibleTimes(u, tr, len, num) ==
  LET weeks == WeekRanges(tr, len, num, UsageSpans({u}), UserMaxUsage,
                          UsageSpans(Users), GrpMaxUsage)
  IN FoldLeft(LAMBDA acc, w : acc \o OwnRanges(w, len, OwnSpans(u)), <<>>, weeks)

\* What is left of the range a request asks for; nothing when it asks for too
\* much or for a time that is past or too far ahead.
RangesFor(u, begin1, begin2, len, num) ==
  LET tr == RequestedRange(now, begin1, begin2, len, Horizon)
  IN IF ~tr.ok \/ len > MaxLen \/ num > UserMaxNum THEN <<>>
     ELSE PossibleTimes(u, [b1 |-> tr.b1, b2 |-> tr.b2], len, num)

\* The begin times that are tried and at which the request fits.
Fit(u, tr, len, num, fixed) ==
  {t \in Tried(tr, len, SpansOf({r \in Rids : Live(r)})) :
     TryReservation(u, t, t + len, num, fixed, {}) # {}}

(***************************************************************************)
(* The ranges are tried in turn: the first that could never be met, or in  *)
(* which the request fits, ends the search.                                *)
(***************************************************************************)
Ends(u, tr, len, num, fixed) ==
  ~Mappable(u, tr.b1, tr.b1 + len, num, fixed) \/ Fit(u, tr, len, num, fixed) # {}

Deciding(times, u, len, num, fixed) ==
  {i \in 1..Len(times) : /\ Ends(u, times[i], len, num, fixed)
                         /\ \A j \in 1..(i - 1) : ~Ends(u, times[j], len, num, fixed)}

\* The begin time the search finds, if any.
FirstFit(times, u, len, num, fixed) ==
  UNION {{t \in Fit(u, times[i], len, num, fixed) :
            /\ Mappable(u, times[i].b1, times[i].b1 + len, num, fixed)
            /\ \A x \in Fit(u, times[i], len, num, fixed) : t <= x} :
         i \in Deciding(times, u, len, num, fixed)}

\* The request takes the lock and finds its time and its nodes.
MakeReservation(c, u, begin1, begin2, l, num, fixed) ==
  LET len   == RoundLen(l)
      times == RangesFor(u, begin1, begin2, len, num)
  IN /\ pc[c] = "idle" /\ CanLock(c) /\ HasRid
     /\ num > 0 /\ Cardinality(fixed) <= num
     /\ \/ /\ FirstFit(times, u, len, num, fixed) = {}
           /\ Return(c)
        \/ \E t \in FirstFit(times, u, len, num, fixed) :
             /\ \E S \in TryReservation(u, t, t + len, num, fixed, {}) :
                  job' = [job EXCEPT ![c].row =
                            [user |-> u, begin |-> t, end |-> t + len, state |-> "pending",
                             nodes |-> S, fixed |-> fixed]]
             /\ lock' = c
             /\ pc' = [pc EXCEPT ![c] = "insert"]
     /\ UNCHANGED <<now, rsv, open, nstate>>

\* add_reservation inserts the row first, then its nodes; a failed statement
\* leaves a row without nodes.
Partial(row) == [row EXCEPT !.nodes = {}, !.fixed = {}]

AddReservation(c) ==
  /\ pc[c] = "insert" /\ HasRid
  /\ \/ rsv' = [rsv EXCEPT ![NextRid] = job[c].row] /\ Return(c)
     \/ rsv' = [rsv EXCEPT ![NextRid] = Partial(job[c].row)] /\ Return(c)
     \/ Return(c) /\ UNCHANGED rsv
  /\ UNCHANGED <<now, open, nstate>>

-----------------------------------------------------------------------------
(* The user's current reservation.                                          *)

Mine(u, states) == {r \in Rids : rsv[r].user = u /\ rsv[r].state \in states}

\* begin < now < end: at the very begin and end nobody has a reservation.
Current(u, states) ==
  {r \in Mine(u, states) : rsv[r].begin < now /\ now < rsv[r].end}

CancelCurrentReservation(c, u) ==
  /\ pc[c] = "idle" /\ CanLock(c)
  /\ \/ /\ rsv' = [r \in Rids |-> IF r \in Current(u, {"pending", "used"})
                                  THEN [rsv[r] EXCEPT !.state = "cancelled"] ELSE rsv[r]]
        /\ Return(c)
     \/ Return(c) /\ UNCHANGED rsv
  /\ UNCHANGED <<now, open, nstate>>

\* has_reservation does not release the lock when its query throws.
HasReservation(c, u) ==
  /\ pc[c] = "idle" /\ CanLock(c)
  /\ \/ Return(c)
     \/ lock' = c /\ UNCHANGED <<pc, job>>
  /\ UNCHANGED <<now, rsv, open, nstate>>

\* One of the user's current reservations becomes active and gets an
\* experiment; the experiment is a second statement.
AssignResources(c, u) ==
  LET cur == Current(u, {"pending", "active", "used"})
  IN /\ pc[c] = "idle" /\ CanLock(c)
     /\ \/ cur = {} /\ Return(c) /\ UNCHANGED <<rsv, open>>
        \/ \E r \in cur : /\ rsv' = [rsv EXCEPT ![r].state = "active"]
                          /\ \/ open' = open \cup {r} /\ Return(c)
                             \/ Return(c) /\ UNCHANGED open
     /\ UNCHANGED <<now, nstate>>

ReturnResources(c, u) ==
  LET exps == Mine(u, {"active"}) \cap open
  IN /\ pc[c] = "idle" /\ CanLock(c)
     /\ \/ exps = {} /\ Return(c) /\ UNCHANGED <<rsv, open>>
        \/ \E r \in exps : /\ open' = open \ {r}
                           /\ \/ rsv' = [rsv EXCEPT ![r].state = "used"] /\ Return(c)
                              \/ Return(c) /\ UNCHANGED rsv
     /\ UNCHANGED <<now, nstate>>

\* The crd closes what it left open when it starts; no lock is taken.
ClearAllExperiments(c) ==
  /\ pc[c] = "idle"
  /\ rsv' = [r \in Rids |-> IF rsv[r].state = "active"
                            THEN [rsv[r] EXCEPT !.state = "used"] ELSE rsv[r]]
  /\ \/ /\ open' = {}
        /\ nstate' = [n \in Nodes |-> IF nstate[n] = "active" THEN "free" ELSE nstate[n]]
     \/ UNCHANGED <<open, nstate>>
  /\ UNCHANGED <<now, lock, pc, job>>

\* Nobody else may hold, or a system reservation block, the time between the
\* old and the new end of the reservation.
ExtendBlocked(u, r, end) ==
  LET later   == {s \in Rids : Live(s) /\ rsv[s].begin <= end /\ rsv[s].end > rsv[r].end}
      exempt  == IF u \in Admins THEN Special \cup {"system"} ELSE {}
      weeks   == {w \in 0..end : w % WeekLen = 0 /\ w >= get_start_of_week(now)}
      cur     == discretize_time(now)
      len     == end - cur
      num     == Cardinality(rsv[r].nodes)
      Over(w) == LET use == MaxWeekLength(cur, end, len, w) * num
                 IN \/ Usage(UsageSpans({u}), w) + use > UserMaxUsage
                    \/ Usage(UsageSpans(Users), w) + use > GrpMaxUsage
  IN \/ len > MaxLen
     \/ num > 0 /\ \E w \in weeks : Over(w)
     \/ \E s \in later : rsv[s].user = u \/ (u \notin Admins /\ rsv[s].user = "system")
     \/ \E s \in later : rsv[s].user \notin exempt /\ rsv[s].nodes \cap rsv[r].nodes # {}

ExtendCurrentReservation(c, u, l) ==
  LET cur == {r \in Rids : Live(r) /\ rsv[r].user = u
                /\ rsv[r].begin <= discretize_time(now) /\ discretize_time(now) <= rsv[r].end}
  IN /\ pc[c] = "idle" /\ CanLock(c)
     /\ \/ cur = {} /\ Return(c) /\ UNCHANGED rsv
        \/ \E r \in cur :
             LET end == rsv[r].end + RoundLen(l)
             IN \/ ExtendBlocked(u, r, end) /\ Return(c) /\ UNCHANGED rsv
                \/ /\ ~ExtendBlocked(u, r, end)
                   /\ rsv' = [rsv EXCEPT ![r].end = end]
                   /\ Return(c)
     /\ UNCHANGED <<now, open, nstate>>

\* A reservation of the system for maintenance: it takes no nodes.
ReserveAll(c, begin, l) ==
  LET b == discretize_time(begin)
      e == b + RoundLen(l)
  IN /\ pc[c] = "idle" /\ CanLock(c) /\ HasRid
     /\ \/ /\ \/ b < discretize_time(now)
              \/ e > discretize_time(now) + Horizon
              \/ \E r \in LiveIn(b, e, {}) : rsv[r].user \notin Special
           /\ Return(c) /\ UNCHANGED rsv
        \/ /\ b >= discretize_time(now)
           /\ e <= discretize_time(now) + Horizon
           /\ \A r \in LiveIn(b, e, {}) : rsv[r].user \in Special
           /\ rsv' = [rsv EXCEPT ![NextRid] =
                        [NoRow EXCEPT !.begin = b, !.end = e, !.state = "pending"]]
           /\ Return(c)
     /\ UNCHANGED <<now, open, nstate>>

-----------------------------------------------------------------------------
(* Nodes in repair and in testing.                                          *)

\* The state of a node is changed without the lock; what the change calls for
\* (old is left, new is entered) follows.
ChangeNode(c, n, old, new) ==
  /\ nstate' = [nstate EXCEPT ![n] = new]
  /\ job' = [job EXCEPT ![c] = IF {old, new} \cap Special = {} THEN NoJob
                               ELSE [NoJob EXCEPT !.node = {n}, !.old = old, !.new = new]]
  /\ pc' = [pc EXCEPT ![c] = IF old \in Special THEN "leave"
                             ELSE IF new \in Special THEN "enter" ELSE "idle"]
  /\ UNCHANGED <<now, rsv, open, lock>>

\* set_state leaves a node in testing alone.
SetState(c, n, new) ==
  /\ pc[c] = "idle" /\ nstate[n] # new /\ nstate[n] # "testing"
  /\ ChangeNode(c, n, nstate[n], new)

PutInTesting(c, n) ==
  /\ pc[c] = "idle" /\ nstate[n] # "testing"
  /\ ChangeNode(c, n, nstate[n], "testing")

RemoveFromTesting(c, n) ==
  /\ pc[c] = "idle" /\ nstate[n] = "testing"
  /\ ChangeNode(c, n, "testing", "free")

\* clear_special_state: the current repair or testing reservation of the node
\* is cancelled.
ClearSpecialState(c) ==
  LET n   == CHOOSE m \in Nodes : m \in job[c].node
      cur == {r \in Current(job[c].old, {"pending", "used"}) : n \in rsv[r].nodes}
  IN /\ pc[c] = "leave"
     /\ \/ LockFails(c) /\ Refuse(c)
        \/ /\ CanLock(c)
           /\ rsv' = [r \in Rids |-> IF r \in cur THEN [rsv[r] EXCEPT !.state = "cancelled"]
                                     ELSE rsv[r]]
           /\ lock' = NoClient
           /\ pc' = [pc EXCEPT ![c] = IF job[c].new \in Special THEN "enter" ELSE "idle"]
           /\ job' = [job EXCEPT ![c] = IF job[c].new \in Special THEN @ ELSE NoJob]
           /\ UNCHANGED <<now, open, nstate>>
        \/ /\ CanLock(c) /\ Return(c)
           /\ UNCHANGED <<now, rsv, open, nstate>>

\* The users' reservations that use a node at a time, the active ones not
\* included: they have to make way.
Affected(n, b, e) ==
  {r \in Rids : /\ rsv[r].state \in {"pending", "used"} /\ rsv[r].user \in Users
                /\ rsv[r].end >= b /\ rsv[r].begin <= e /\ n \in rsv[r].nodes}

\* handle_special_state: the node is reserved from now on in the name of its
\* new state.
EnterSpecialState(c, l) ==
  LET n   == CHOOSE m \in Nodes : m \in job[c].node
      b   == discretize_time(now)
      row == [user |-> job[c].new, begin |-> b, end |-> b + l * Slot, state |-> "pending",
              nodes |-> {n}, fixed |-> {n}]
  IN /\ pc[c] = "enter"
     /\ \/ LockFails(c) /\ Refuse(c)
        \/ /\ CanLock(c) /\ HasRid
           /\ rsv' = [rsv EXCEPT ![NextRid] = row]
           /\ job' = [job EXCEPT ![c].todo = Affected(n, row.begin, row.end)]
           /\ lock' = c
           /\ pc' = [pc EXCEPT ![c] = "remap"]
           /\ UNCHANGED <<now, open, nstate>>
        \/ /\ CanLock(c) /\ HasRid
           /\ rsv' = [rsv EXCEPT ![NextRid] = Partial(row)]
           /\ Return(c)
           /\ UNCHANGED <<now, open, nstate>>

\* extend_repair and extend_testing.
ExtendSpecialState(c, n, state, l) ==
  LET t   == discretize_time(now)
      cur == {r \in Rids : Live(r) /\ rsv[r].user = state /\ n \in rsv[r].nodes
                           /\ rsv[r].begin <= t /\ t <= rsv[r].end}
  IN /\ pc[c] = "idle" /\ CanLock(c)
     /\ \/ cur = {} /\ Return(c) /\ UNCHANGED rsv
        \/ \E r \in cur :
             LET end == rsv[r].end + l * Slot
             IN /\ end <= MaxNow + Horizon
                /\ rsv' = [rsv EXCEPT ![r].end = end]
                /\ job' = [job EXCEPT ![c] = [NoJob EXCEPT !.node = {n},
                                                !.todo = Affected(n, rsv[r].end, end)]]
                /\ lock' = c
                /\ pc' = [pc EXCEPT ![c] = "remap"]
     /\ UNCHANGED <<now, open, nstate>>

\* The new row of a reservation that moves to other nodes.
Moved(r, S) == [rsv[r] EXCEPT !.state = "used", !.nodes = S]

\* Mutant: the cancellation of a reservation that cannot move is not taken
\* back.
RemapMut(c, r) ==
  /\ pc[c] = "remap" /\ r \in job[c].todo
  /\ rsv' = [rsv EXCEPT ![r].state = "cancelled"]
  /\ job' = [job EXCEPT ![c].todo = @ \ {r}]
  /\ UNCHANGED <<now, open, nstate, lock, pc>>

(***************************************************************************)
(* One affected reservation: it is cancelled and, when it asks for no node *)
(* by name, tried again at the same time with other nodes.  When that      *)
(* fails the cancellation is taken back; after an error in between the     *)
(* reservation stays cancelled, and when it was an exception those after   *)
(* it are not looked at.                                                   *)
(***************************************************************************)
Remap(c, r) ==
  LET row == rsv[r]
      try == IF row.fixed # {} THEN {}
             ELSE TryReservation(row.user, row.begin, row.end,
                                 Cardinality(row.nodes), {}, {r})
  IN /\ pc[c] = "remap" /\ r \in job[c].todo
     /\ \/ /\ HasRid
           /\ \E S \in try : rsv' = [rsv EXCEPT ![r].state = "cancelled",
                                                ![NextRid] = Moved(r, S)]
           /\ job' = [job EXCEPT ![c].todo = @ \ {r}]
           /\ UNCHANGED <<lock, pc>>
        \/ /\ try = {}
           /\ job' = [job EXCEPT ![c].todo = @ \ {r}]
           /\ UNCHANGED <<rsv, lock, pc>>
        \/ /\ \/ rsv' = [rsv EXCEPT ![r].state = "cancelled"]
              \/ try # {} /\ HasRid
                 /\ rsv' = [rsv EXCEPT ![r].state = "cancelled",
                                       ![NextRid] = Partial(Moved(r, {}))]
           /\ \/ /\ job' = [job EXCEPT ![c].todo = @ \ {r}, ![c].threw = TRUE]
                 /\ UNCHANGED <<lock, pc>>
              \/ Return(c)
     /\ UNCHANGED <<now, open, nstate>>

RemapDone(c) ==
  /\ pc[c] = "remap" /\ job[c].todo = {}
  /\ Return(c)
  /\ UNCHANGED <<now, rsv, open, nstate>>

-----------------------------------------------------------------------------
Tick == now < MaxNow /\ now' = now + 1 /\ UNCHANGED <<rsv, open, nstate, lock, pc, job>>

\* The calls of users, of the crd for them, and of the operators.
UserCall(c, u) ==
  \/ \E b1, b2 \in Begins, l \in Lens, num \in Nums, fixed \in SUBSET Named :
       b1 <= b2 /\ MakeReservation(c, u, b1, b2, l, num, fixed)
  \/ CancelCurrentReservation(c, u)
  \/ \E l \in Lens : ExtendCurrentReservation(c, u, l)

CrdCall(c, u) ==
  \/ HasReservation(c, u)
  \/ AssignResources(c, u)
  \/ ReturnResources(c, u)
  \/ ClearAllExperiments(c)

OperatorCall(c) ==
  \/ \E n \in Named, s \in {"free", "active", "repair"} : SetState(c, n, s)
  \/ \E n \in Named : PutInTesting(c, n) \/ RemoveFromTesting(c, n)
  \/ \E n \in Named, s \in Special, l \in Lens : ExtendSpecialState(c, n, s, l)
  \/ \E b \in Begins, l \in Lens : ReserveAll(c, b, l)

Continue(c) ==
  \/ AddReservation(c)
  \/ ClearSpecialState(c)
  \/ \E l \in Lens : EnterSpecialState(c, l)
  \/ \E r \in Rids : Remap(c, r)
  \/ RemapDone(c)

Call ==
  \/ \E u \in Users : \/ \E c \in UserClients : UserCall(c, u)
                      \/ \E c \in CrdClients : CrdCall(c, u)
  \/ \E c \in OpClients : OperatorCall(c)

Next == Tick \/ Call \/ \E c \in Clients : Continue(c)

Spec == Init /\ [][Next]_vars

-----------------------------------------------------------------------------
TypeOK ==
  /\ now \in Nat
  /\ rsv \in [Rids -> Row]
  /\ open \in SUBSET Rids
  /\ nstate \in [Nodes -> NodeStates]
  /\ lock \in Clients \cup {NoClient}
  /\ pc \in [Clients -> {"idle", "insert", "leave", "enter", "remap"}]
  /\ job \in [Clients -> [row : Row, node : SUBSET Nodes, old : NodeStates,
                          new : NodeStates, todo : SUBSET Rids, threw : BOOLEAN]]

(***************************************************************************)
(* A node is never promised to two users at one time, whatever is made,    *)
(* extended, cancelled, moved away from a broken node or restored, by      *)
(* however many clients.  Administrators may take a node that is in repair *)
(* or testing by name, whoever else has it.                                *)
(***************************************************************************)
NoDoubleBooking ==
  \A r, s \in Rids :
    /\ r # s /\ Live(r) /\ Live(s)
    /\ rsv[r].user \in Users \ Admins /\ rsv[s].user \in Users \ Admins
    /\ Overlaps(rsv[r], rsv[s].begin, rsv[s].end)
    => rsv[r].nodes \cap rsv[s].nodes = {}

(***************************************************************************)
(* make_reservation only tries the begin times where a reservation begins  *)
(* or ends, yet it never answers that the resources are used by others     *)
(* while some begin time of the ranges it searched would have done.        *)
(***************************************************************************)
SearchIsComplete ==
  lock = NoClient =>
  \A u \in Users, b1, b2 \in Begins, l \in Lens, num \in Nums :
    LET len   == RoundLen(l)
        times == RangesFor(u, b1, b2, len, num)
    IN b1 <= b2 /\ Deciding(times, u, len, num, {}) = {} =>
         \A i \in 1..Len(times) : \A t \in Starts(times[i]) :
           TryReservation(u, t, t + len, num, {}, {}) = {}

\* A reservation that a client's loop cancels has a successor.
RemapKept(c, r) ==
  /\ pc[c] = "remap" /\ pc'[c] = "remap" /\ ~job'[c].threw
  /\ Live(r) /\ rsv'[r].state = "cancelled" /\ job'[c].todo # job[c].todo
  => \E s \in Rids :
       /\ rsv[s].state = "none" /\ rsv'[s].state = "used"
       /\ rsv'[s].user = rsv[r].user
       /\ rsv'[s].begin = rsv[r].begin /\ rsv'[s].end = rsv[r].end
       /\ Cardinality(rsv'[s].nodes) = Cardinality(rsv[r].nodes)
       /\ \A q \in Rids \ {r} :
            Live(q) /\ Overlaps(rsv[q], rsv[r].begin, rsv[r].end)
            => rsv'[s].nodes \cap rsv[q].nodes = {}

(***************************************************************************)
(* Taking a node out for repair or testing costs no user a reservation:    *)
(* each one that made way is replaced by one of the same user, time and    *)
(* size on nodes that nobody has at that time, or kept as it was.  Only a  *)
(* failing database statement loses one.                                   *)
(***************************************************************************)
RemapKeepsReservations == [][\A c \in Clients, r \in Rids : RemapKept(c, r)]_vars

(***************************************************************************)
(* A user has one reservation at a time: make_reservation removes from the *)
(* requested range "any time where the user already has a reservation".    *)
(***************************************************************************)
OneReservationAtATime ==
  \A r, s \in Rids :
    /\ r # s /\ Live(r) /\ Live(s)
    /\ rsv[r].user \in Users /\ rsv[r].user = rsv[s].user
    /\ rsv[r].nodes # {} /\ rsv[s].nodes # {}
    => ~Overlaps(rsv[r], rsv[s].begin, rsv[s].end)
=============================================================================
