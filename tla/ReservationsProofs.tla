------------------------- MODULE ReservationsProofs -------------------------
(***************************************************************************)
(* The reservations (module Reservations): no node is promised to two      *)
(* users at one time, and a node taken out for repair or testing costs no  *)
(* user a reservation, for any number of nodes, users, clients and rows.   *)
(***************************************************************************)
EXTENDS Reservations, WellFoundedInduction, TLAPS

\* A client between its query and its last write holds the lock "reservation".
LockInv == \A c \in Clients : pc[c] \in {"insert", "remap"} => lock = c

\* A client that changes a node's state knows the node, and the state it enters.
SpecialOf(c) ==
  /\ pc[c] \in {"leave", "enter"} => job[c].node # {}
  /\ pc[c] = "enter" => job[c].new \in Special

\* The row a client is about to insert still fits: what the query found free is free.
InsertOf(c) ==
  pc[c] = "insert" =>
    LET row == job[c].row
    IN /\ row.user \in Users /\ row.begin < row.end
       /\ row.user \notin Admins =>
            \A r \in Rids : Live(r) /\ Overlaps(rsv[r], row.begin, row.end)
                              => row.nodes \cap rsv[r].nodes = {}

\* The reservations that are still to make way are users' and not taken up.
TodoOf(c) ==
  pc[c] = "remap" =>
    \A r \in job[c].todo : rsv[r].user \in Users /\ rsv[r].state \in {"pending", "used"}

\* A user's reservation has a length; so extending one meets only what begins later.
SpanInv == \A r \in Rids : Live(r) /\ rsv[r].user \in Users => rsv[r].begin < rsv[r].end

ResInv ==
  /\ TypeOK /\ LockInv /\ SpanInv /\ NoDoubleBooking
  /\ \A c \in Clients : SpecialOf(c) /\ InsertOf(c) /\ TodoOf(c)

-----------------------------------------------------------------------------

LEMMA LeastElement ==
  ASSUME NEW S \in SUBSET Nat, S # {}
  PROVE  Min(S) \in S /\ \A y \in S : Min(S) <= y
<1>1. \E x \in S : \A y \in S : ~(<<y, x>> \in OpToRel(<, Nat))
  BY NatLessThanWellFounded, WFMin
<1>2. \E x \in S : \A y \in S : x <= y
  <2>1. PICK x \in S : \A y \in S : ~(<<y, x>> \in OpToRel(<, Nat))
    BY <1>1
  <2>2. ASSUME NEW y \in S
        PROVE  x <= y
    <3>1. <<y, x>> \in Nat \X Nat /\ <<y, x>>[1] = y /\ <<y, x>>[2] = x
      OBVIOUS
    <3>2. ~(y < x)
      BY <2>1, <3>1 DEF OpToRel
    <3> QED
      BY <3>2
  <2> QED
    BY <2>2
<1> QED
  BY <1>2 DEF Min

LEMMA RoundLenPositive ==
  ASSUME NEW l \in Nat \ {0}
  PROVE  RoundLen(l) \in Nat \ {0}
<1> DEFINE q == (l - 1) \div Slot
<1>1. q \in Nat
  BY SlotAssumption
<1> HIDE DEF q
<1>2. (q + 1) * Slot \in Nat \ {0}
  BY <1>1, SlotAssumption
<1> QED
  BY <1>2 DEF RoundLen, q

LEMMA TriedInt ==
  ASSUME NEW tr, NEW len, NEW spans, NEW t \in Tried(tr, len, spans)
  PROVE  t \in Int
<1>1. t \in Starts(tr)
  BY DEF Tried
<1> QED
  BY <1>1 DEF Starts

LEMMA DiscretizeInt ==
  ASSUME NEW t \in Int
  PROVE  discretize_time(t) \in Int
BY SlotAssumption DEF discretize_time

\* The row an insert makes was not in the table.
LEMMA NextRidFree ==
  ASSUME HasRid
  PROVE  NextRid \in Rids /\ rsv[NextRid].state = "none"
<1> DEFINE S == {r \in Rids : rsv[r].state = "none"}
<1>1. S \in SUBSET Nat /\ S # {}
  BY TimesAssumption DEF HasRid
<1>2. Min(S) \in S
  BY <1>1, LeastElement
<1> QED
  BY <1>2 DEF NextRid

\* The rows made from other rows.
LEMMA RowForms ==
  ASSUME NEW row \in Row
  PROVE  /\ \A s \in RowStates : /\ [row EXCEPT !.state = s] \in Row
                                 /\ [row EXCEPT !.state = s].state = s
                                 /\ [row EXCEPT !.state = s].user = row.user
                                 /\ [row EXCEPT !.state = s].begin = row.begin
                                 /\ [row EXCEPT !.state = s].end = row.end
                                 /\ [row EXCEPT !.state = s].nodes = row.nodes
         /\ \A e \in Int : /\ [row EXCEPT !.end = e] \in Row
                           /\ [row EXCEPT !.end = e].state = row.state
                           /\ [row EXCEPT !.end = e].user = row.user
                           /\ [row EXCEPT !.end = e].begin = row.begin
                           /\ [row EXCEPT !.end = e].end = e
                           /\ [row EXCEPT !.end = e].nodes = row.nodes
         /\ Partial(row) \in Row
         /\ Partial(row).state = row.state /\ Partial(row).user = row.user
         /\ Partial(row).begin = row.begin /\ Partial(row).end = row.end
         /\ Partial(row).nodes = {}
BY DEF Row, Partial

\* A row that moves keeps its user and its time.
LEMMA MovedForm ==
  ASSUME TypeOK, NEW r \in Rids, NEW S \in SUBSET Nodes
  PROVE  /\ Moved(r, S) \in Row
         /\ Moved(r, S).state = "used" /\ Moved(r, S).user = rsv[r].user
         /\ Moved(r, S).begin = rsv[r].begin /\ Moved(r, S).end = rsv[r].end
         /\ Moved(r, S).nodes = S
BY DEF Moved, TypeOK, Row, RowStates

LEMMA NoRowForm == NoRow \in Row /\ NoRow.user = "system"
BY DEF NoRow, Row, Owners, RowStates

JobType == [row : Row, node : SUBSET Nodes, old : NodeStates, new : NodeStates,
            todo : SUBSET Rids, threw : BOOLEAN]

LEMMA NoJobForm == NoJob \in JobType /\ NoJob.todo = {} /\ NoJob.threw = FALSE
BY NoRowForm DEF NoJob, JobType, NodeStates

-----------------------------------------------------------------------------
(* What a step may do to the table without promising a node twice.          *)

\* A row is left alone, or no longer counts, or still counts.
Kept(r) ==
  /\ rsv'[r].user = rsv[r].user /\ rsv'[r].nodes = rsv[r].nodes
  /\ rsv'[r].begin = rsv[r].begin /\ rsv'[r].end = rsv[r].end
  /\ Live(r)' => Live(r)

LEMMA KeptStep ==
  ASSUME SpanInv, NoDoubleBooking, \A r \in Rids : Kept(r)
  PROVE  SpanInv' /\ NoDoubleBooking'
<1>1. SpanInv'
  BY DEF SpanInv, Kept
<1>2. NoDoubleBooking'
  BY DEF NoDoubleBooking, Kept, Overlaps
<1> QED
  BY <1>1, <1>2

\* One row is made or changed, so that it has a length and nobody else has its nodes.
LEMMA InsertStep ==
  ASSUME rsv' \in [Rids -> Row], SpanInv, NoDoubleBooking, NEW n \in Rids,
         \A r \in Rids \ {n} : Kept(r),
         rsv'[n].user \in Users => rsv'[n].begin < rsv'[n].end,
         rsv'[n].user \in Users \ Admins =>
           \A r \in Rids \ {n} :
             /\ Live(r)' /\ rsv'[r].user \in Users \ Admins
             /\ Overlaps(rsv'[r], rsv'[n].begin, rsv'[n].end)
             => rsv'[n].nodes \cap rsv'[r].nodes = {}
  PROVE  SpanInv' /\ NoDoubleBooking'
<1>1. SpanInv'
  BY DEF SpanInv, Kept
<1>2. ASSUME NEW r \in Rids, NEW s \in Rids,
             r # s, Live(r)', Live(s)',
             rsv'[r].user \in Users \ Admins, rsv'[s].user \in Users \ Admins,
             Overlaps(rsv'[r], rsv'[s].begin, rsv'[s].end)
      PROVE  rsv'[r].nodes \cap rsv'[s].nodes = {}
  <2>1. CASE r # n /\ s # n
    BY <1>2, <2>1 DEF NoDoubleBooking, Kept, Overlaps
  <2>2. CASE s = n
    BY <1>2, <2>2
  <2>3. CASE r = n
    <3>1. Overlaps(rsv'[s], rsv'[n].begin, rsv'[n].end)
      BY <1>2, <2>3 DEF Overlaps, Row
    <3> QED
      BY <1>2, <2>3, <3>1
  <2> QED
    BY <2>1, <2>2, <2>3
<1>3. NoDoubleBooking'
  BY <1>2 DEF NoDoubleBooking
<1> QED
  BY <1>1, <1>3

-----------------------------------------------------------------------------
(* What a step may do to the other clients.                                 *)

Only(c) == \A d \in Clients \ {c} : pc'[d] = pc[d] /\ job'[d] = job[d]

\* Nobody else is between its query and its last write when a client gets the lock.
LEMMA LockedStep ==
  ASSUME ResInv, TypeOK', SpanInv', NoDoubleBooking', NEW c \in Clients, CanLock(c), Only(c),
         pc'[c] \in {"insert", "remap"} => lock' = c,
         SpecialOf(c)', InsertOf(c)', TodoOf(c)'
  PROVE  ResInv'
<1>1. ASSUME NEW d \in Clients \ {c}
      PROVE  pc'[d] \notin {"insert", "remap"} /\ SpecialOf(d)' /\ InsertOf(d)' /\ TodoOf(d)'
  <2>1. pc'[d] = pc[d] /\ job'[d] = job[d]
    BY DEF Only
  <2>2. pc[d] \notin {"insert", "remap"}
    BY ClientAssumption DEF ResInv, LockInv, CanLock
  <2>3. SpecialOf(d)
    BY DEF ResInv
  <2> QED
    BY <2>1, <2>2, <2>3 DEF SpecialOf, InsertOf, TodoOf
<1>2. LockInv'
  BY <1>1 DEF LockInv
<1> QED
  BY <1>1, <1>2 DEF ResInv

\* A call that ends with the lock released.
LEMMA ReturnStep ==
  ASSUME ResInv, TypeOK', SpanInv', NoDoubleBooking', NEW c \in Clients, CanLock(c), Return(c)
  PROVE  ResInv'
<1>1. Only(c) /\ pc'[c] = "idle"
  BY DEF Return, Only, ResInv, TypeOK
<1>2. SpecialOf(c)' /\ InsertOf(c)' /\ TodoOf(c)'
  BY <1>1 DEF SpecialOf, InsertOf, TodoOf
<1> QED
  BY <1>1, <1>2, LockedStep

\* A step without the lock changes at most the state of active rows and of a node.
LEMMA UnlockedStep ==
  ASSUME ResInv, TypeOK', NEW c \in Clients, Only(c), lock' = lock,
         pc'[c] \notin {"insert", "remap"}, SpecialOf(c)',
         \A r \in Rids : /\ Kept(r)
                         /\ rsv[r].state \in {"pending", "used"} => rsv'[r].state = rsv[r].state
  PROVE  ResInv'
<1>1. SpanInv' /\ NoDoubleBooking'
  BY KeptStep DEF ResInv
<1>2. LockInv'
  BY DEF LockInv, ResInv, Only
<1>3. ASSUME NEW d \in Clients
      PROVE  SpecialOf(d)' /\ InsertOf(d)' /\ TodoOf(d)'
  <2>1. CASE d = c
    BY <2>1 DEF InsertOf, TodoOf
  <2>2. CASE d # c
    <3>1. pc'[d] = pc[d] /\ job'[d] = job[d]
      BY <2>2 DEF Only
    <3>2. SpecialOf(d) /\ InsertOf(d) /\ TodoOf(d)
      BY DEF ResInv
    <3>3. SpecialOf(d)'
      BY <3>1, <3>2 DEF SpecialOf
    <3>4. InsertOf(d)'
      BY <3>1, <3>2 DEF InsertOf, Kept, Overlaps
    <3>5. TodoOf(d)'
      <4>1. pc[d] = "remap" => job[d].todo \subseteq Rids
        BY DEF ResInv, TypeOK
      <4> QED
        BY <3>1, <3>2, <4>1 DEF TodoOf, Kept
    <3> QED
      BY <3>3, <3>4, <3>5
  <2> QED
    BY <2>1, <2>2
<1> QED
  BY <1>1, <1>2, <1>3 DEF ResInv

-----------------------------------------------------------------------------
(* The calls that end in the step that holds the lock.                      *)

PcStates == {"idle", "insert", "leave", "enter", "remap"}

LEMMA ReturnTypes ==
  ASSUME TypeOK, NEW c \in Clients, Return(c)
  PROVE  /\ lock' \in Clients \cup {NoClient}
         /\ pc' \in [Clients -> PcStates]
         /\ job' \in [Clients -> JobType]
BY NoJobForm DEF TypeOK, Return, PcStates, JobType

\* One row of the table is written.
LEMMA WriteRow ==
  ASSUME TypeOK, NEW n \in Rids, NEW row \in Row, rsv' = [rsv EXCEPT ![n] = row]
  PROVE  /\ rsv' \in [Rids -> Row] /\ rsv'[n] = row
         /\ \A r \in Rids \ {n} : rsv'[r] = rsv[r] /\ Kept(r)
BY DEF TypeOK, Kept, Live

\* A row that counts is given another state.
LEMMA RestateRow ==
  ASSUME TypeOK, NEW n \in Rids, Live(n), NEW s \in RowStates,
         rsv' = [rsv EXCEPT ![n].state = s]
  PROVE  rsv' \in [Rids -> Row] /\ rsv'[n].state = s /\ \A r \in Rids : Kept(r)
<1> DEFINE row == [rsv[n] EXCEPT !.state = s]
<1>1. rsv[n] \in Row
  BY DEF TypeOK
<1>2. /\ row \in Row /\ row.user = rsv[n].user /\ row.nodes = rsv[n].nodes
      /\ row.begin = rsv[n].begin /\ row.end = rsv[n].end /\ row.state = s
  BY <1>1, RowForms
<1>3. rsv' = [rsv EXCEPT ![n] = row]
  OBVIOUS
<1> HIDE DEF row
<1>4. rsv' \in [Rids -> Row] /\ rsv'[n] = row /\ \A r \in Rids \ {n} : Kept(r)
  BY <1>2, <1>3, WriteRow
<1>5. Kept(n)
  BY <1>2, <1>4 DEF Kept
<1> QED
  BY <1>2, <1>4, <1>5

\* A call that returns and leaves the table as it was.
LEMMA NothingDone ==
  ASSUME ResInv, NEW c \in Clients, CanLock(c), Return(c), UNCHANGED <<now, rsv, open, nstate>>
  PROVE  ResInv'
<1>1. TypeOK'
  BY ReturnTypes DEF ResInv, TypeOK, PcStates, JobType
<1>2. SpanInv' /\ NoDoubleBooking'
  BY DEF ResInv, SpanInv, NoDoubleBooking, Live
<1> QED
  BY <1>1, <1>2, ReturnStep

\* A call that returns and takes rows off the table or gives them another state.
LEMMA StatesChanged ==
  ASSUME ResInv, NEW c \in Clients, CanLock(c), Return(c),
         rsv' \in [Rids -> Row], \A r \in Rids : Kept(r),
         open' \subseteq Rids, UNCHANGED <<now, nstate>>
  PROVE  ResInv'
<1>1. TypeOK'
  BY ReturnTypes DEF ResInv, TypeOK, PcStates, JobType
<1>2. SpanInv' /\ NoDoubleBooking'
  BY KeptStep DEF ResInv
<1> QED
  BY <1>1, <1>2, ReturnStep

LEMMA CancelStep ==
  ASSUME ResInv, NEW c \in Clients, NEW u \in Users, CancelCurrentReservation(c, u)
  PROVE  ResInv'
<1>1. CanLock(c) /\ Return(c) /\ UNCHANGED <<now, open, nstate>>
  BY DEF CancelCurrentReservation
<1>2. CASE UNCHANGED rsv
  BY <1>1, <1>2, NothingDone
<1>3. CASE rsv' = [r \in Rids |-> IF r \in Current(u, {"pending", "used"})
                                  THEN [rsv[r] EXCEPT !.state = "cancelled"] ELSE rsv[r]]
  <2>1. \A r \in Rids : rsv[r] \in Row
    BY DEF ResInv, TypeOK
  <2>2. rsv' \in [Rids -> Row] /\ \A r \in Rids : Kept(r)
    BY <1>3, <2>1, RowForms DEF Kept, Live, RowStates
  <2>3. open' \subseteq Rids
    BY <1>1 DEF ResInv, TypeOK
  <2> QED
    BY <1>1, <2>2, <2>3, StatesChanged
<1> QED
  BY <1>2, <1>3 DEF CancelCurrentReservation

LEMMA HasReservationStep ==
  ASSUME ResInv, NEW c \in Clients, NEW u \in Users, HasReservation(c, u)
  PROVE  ResInv'
<1>1. CanLock(c) /\ UNCHANGED <<now, rsv, open, nstate>> /\ pc[c] = "idle"
  BY DEF HasReservation
<1>2. CASE Return(c)
  BY <1>1, <1>2, NothingDone
<1>3. CASE lock' = c /\ UNCHANGED <<pc, job>>
  <2>1. TypeOK'
    BY <1>1, <1>3 DEF ResInv, TypeOK
  <2>2. SpanInv' /\ NoDoubleBooking'
    BY <1>1 DEF ResInv, SpanInv, NoDoubleBooking, Live
  <2>3. Only(c) /\ SpecialOf(c)' /\ InsertOf(c)' /\ TodoOf(c)'
    BY <1>1, <1>3 DEF Only, SpecialOf, InsertOf, TodoOf
  <2> QED
    BY <1>1, <1>3, <2>1, <2>2, <2>3, LockedStep
<1> QED
  BY <1>2, <1>3 DEF HasReservation

LEMMA AssignStep ==
  ASSUME ResInv, NEW c \in Clients, NEW u \in Users, AssignResources(c, u)
  PROVE  ResInv'
<1> DEFINE cur == Current(u, {"pending", "active", "used"})
<1>1. CanLock(c) /\ Return(c) /\ UNCHANGED <<now, nstate>>
  BY DEF AssignResources
<1>2. CASE UNCHANGED <<rsv, open>>
  BY <1>1, <1>2, NothingDone
<1>3. CASE \E r \in cur : /\ rsv' = [rsv EXCEPT ![r].state = "active"]
                          /\ open' \in {open \cup {r}, open}
  <2>1. PICK r \in cur : /\ rsv' = [rsv EXCEPT ![r].state = "active"]
                         /\ open' \in {open \cup {r}, open}
    BY <1>3
  <2>2. r \in Rids /\ Live(r)
    BY DEF Current, Mine, Live
  <2>5. rsv' \in [Rids -> Row] /\ \A q \in Rids : Kept(q)
    BY <2>1, <2>2, RestateRow DEF RowStates, ResInv
  <2>6. open' \subseteq Rids
    BY <2>1, <2>2 DEF ResInv, TypeOK
  <2> QED
    BY <1>1, <2>5, <2>6, StatesChanged
<1> QED
  BY <1>2, <1>3 DEF AssignResources

LEMMA ReturnResourcesStep ==
  ASSUME ResInv, NEW c \in Clients, NEW u \in Users, ReturnResources(c, u)
  PROVE  ResInv'
<1> DEFINE exps == Mine(u, {"active"}) \cap open
<1>1. CanLock(c) /\ Return(c) /\ UNCHANGED <<now, nstate>>
  BY DEF ReturnResources
<1>2. CASE UNCHANGED <<rsv, open>>
  BY <1>1, <1>2, NothingDone
<1>3. CASE \E r \in exps : /\ open' = open \ {r}
                           /\ rsv' = [rsv EXCEPT ![r].state = "used"] \/ UNCHANGED rsv
  <2>1. PICK r \in exps : /\ open' = open \ {r}
                          /\ rsv' = [rsv EXCEPT ![r].state = "used"] \/ UNCHANGED rsv
    BY <1>3
  <2>2. r \in Rids /\ Live(r)
    BY DEF Mine, Live
  <2>3. open' \subseteq Rids
    BY <2>1, <2>2 DEF ResInv, TypeOK
  <2>5. rsv' \in [Rids -> Row] /\ \A q \in Rids : Kept(q)
    <3>1. CASE rsv' = [rsv EXCEPT ![r].state = "used"]
      BY <2>2, <3>1, RestateRow DEF RowStates, ResInv
    <3>2. CASE UNCHANGED rsv
      BY <3>2 DEF Kept, Live, ResInv, TypeOK
    <3> QED
      BY <2>1, <3>1, <3>2
  <2> QED
    BY <1>1, <2>3, <2>5, StatesChanged
<1> QED
  BY <1>2, <1>3 DEF ReturnResources

LEMMA ClearAllStep ==
  ASSUME ResInv, NEW c \in Clients, ClearAllExperiments(c)
  PROVE  ResInv'
<1>1. /\ rsv' = [r \in Rids |-> IF rsv[r].state = "active"
                                THEN [rsv[r] EXCEPT !.state = "used"] ELSE rsv[r]]
      /\ UNCHANGED <<now, lock, pc, job>> /\ pc[c] = "idle"
  BY DEF ClearAllExperiments
<1>2. \A r \in Rids : rsv[r] \in Row
  BY DEF ResInv, TypeOK
<1>3. /\ rsv' \in [Rids -> Row]
      /\ \A r \in Rids : /\ Kept(r)
                         /\ rsv[r].state \in {"pending", "used"} => rsv'[r].state = rsv[r].state
  BY <1>1, <1>2, RowForms DEF Kept, Live, RowStates
<1>4. TypeOK'
  BY <1>1, <1>3 DEF ResInv, TypeOK, ClearAllExperiments, NodeStates
<1>5. Only(c) /\ SpecialOf(c)'
  BY <1>1 DEF Only, SpecialOf
<1> QED
  BY <1>1, <1>3, <1>4, <1>5, UnlockedStep

-----------------------------------------------------------------------------
(* make_reservation.                                                        *)

\* The nodes try_reservation finds are the number asked for and are in no reservation of
\* that time, unless an administrator names nodes.
LEMMA TryFindsFree ==
  ASSUME TypeOK, NEW u, NEW b, NEW e, NEW num, NEW fixed, NEW not,
         NEW S \in TryReservation(u, b, e, num, fixed, not)
  PROVE  /\ S \in SUBSET Nodes /\ Cardinality(S) = num
         /\ u \notin Admins \/ fixed = {} =>
              \A r \in Rids \ not : Live(r) /\ Overlaps(rsv[r], b, e)
                                    => S \cap rsv[r].nodes = {}
<1> DEFINE base == BaseNodes(b, e, not)
           special == SpecialNodes(b, e, not)
           extra == IF u \in Admins THEN (fixed \ base) \cap special ELSE {}
<1>1. S \in SUBSET (base \cup extra) /\ Cardinality(S) = num
  BY DEF TryReservation, Candidates
<1>2. base \subseteq Nodes
  BY DEF BaseNodes
<1>3. special \subseteq Nodes
  BY DEF SpecialNodes, LiveIn, TypeOK, Row
<1>4. ASSUME u \notin Admins \/ fixed = {},
             NEW r \in Rids \ not, Live(r), Overlaps(rsv[r], b, e)
      PROVE  S \cap rsv[r].nodes = {}
  <2>1. S \subseteq base
    BY <1>1, <1>4
  <2>2. r \in LiveIn(b, e, not)
    BY <1>4 DEF LiveIn
  <2>3. base \cap rsv[r].nodes = {}
    BY <2>2 DEF BaseNodes, Reserved
  <2> QED
    BY <2>1, <2>3
<1> QED
  BY <1>1, <1>2, <1>3, <1>4

\* The search is over times.
LEMMA FirstFitInt ==
  ASSUME NEW times, NEW u, NEW len, NEW num, NEW fixed,
         NEW t \in FirstFit(times, u, len, num, fixed)
  PROVE  t \in Int
<1>1. PICK i : t \in Fit(u, times[i], len, num, fixed)
  BY DEF FirstFit
<1> QED
  BY <1>1, TriedInt DEF Fit

LEMMA MakeStep ==
  ASSUME ResInv, NEW c \in Clients, NEW u \in Users, NEW begin1, NEW begin2, NEW l \in Lens,
         NEW num, NEW fixed \in SUBSET Named,
         MakeReservation(c, u, begin1, begin2, l, num, fixed)
  PROVE  ResInv'
<1> DEFINE len   == RoundLen(l)
           times == RangesFor(u, begin1, begin2, len, num)
<1>1. CanLock(c) /\ UNCHANGED <<now, rsv, open, nstate>>
  BY DEF MakeReservation
<1>2. CASE Return(c)
  BY <1>1, <1>2, NothingDone
<1>3. CASE \E t \in FirstFit(times, u, len, num, fixed) :
             /\ \E S \in TryReservation(u, t, t + len, num, fixed, {}) :
                  job' = [job EXCEPT ![c].row =
                            [user |-> u, begin |-> t, end |-> t + len, state |-> "pending",
                             nodes |-> S, fixed |-> fixed]]
             /\ lock' = c
             /\ pc' = [pc EXCEPT ![c] = "insert"]
  <2>1. PICK t \in FirstFit(times, u, len, num, fixed) :
             /\ \E S \in TryReservation(u, t, t + len, num, fixed, {}) :
                  job' = [job EXCEPT ![c].row =
                            [user |-> u, begin |-> t, end |-> t + len, state |-> "pending",
                             nodes |-> S, fixed |-> fixed]]
             /\ lock' = c
             /\ pc' = [pc EXCEPT ![c] = "insert"]
    BY <1>3
  <2>2. PICK S \in TryReservation(u, t, t + len, num, fixed, {}) :
               job' = [job EXCEPT ![c].row =
                         [user |-> u, begin |-> t, end |-> t + len, state |-> "pending",
                          nodes |-> S, fixed |-> fixed]]
    BY <2>1
  <2> DEFINE row == [user |-> u, begin |-> t, end |-> t + len, state |-> "pending",
                     nodes |-> S, fixed |-> fixed]
  <2>3. TypeOK
    BY DEF ResInv
  <2>4. t \in Int /\ len \in Nat \ {0}
    BY FirstFitInt, RoundLenPositive, TimesAssumption
  <2>5. /\ S \in SUBSET Nodes
        /\ u \notin Admins => \A r \in Rids : Live(r) /\ Overlaps(rsv[r], t, t + len)
                                              => S \cap rsv[r].nodes = {}
    <3> DEFINE e == t + len
    <3> HIDE DEF e
    <3>1. S \in TryReservation(u, t, e, num, fixed, {})
      BY DEF e
    <3>2. /\ S \in SUBSET Nodes
          /\ u \notin Admins => \A r \in Rids \ {} : Live(r) /\ Overlaps(rsv[r], t, e)
                                                     => S \cap rsv[r].nodes = {}
      BY <2>3, <3>1, TryFindsFree
    <3> QED
      BY <3>2 DEF e
  <2>6. t + len \in Int /\ t < t + len
    BY <2>4
  <2> HIDE DEF len, times
  <2>7. /\ row \in Row /\ row.user = u /\ row.nodes = S
        /\ row.begin = t /\ row.end = t + len
    BY <2>4, <2>5, <2>6, ClientAssumption DEF Row, Owners, RowStates
  <2> HIDE DEF row
  <2>8. job' = [job EXCEPT ![c] = [job[c] EXCEPT !.row = row]]
    BY <2>2 DEF row
  <2>9. /\ job' \in [Clients -> JobType]
        /\ job'[c].row = row /\ \A d \in Clients \ {c} : job'[d] = job[d]
    <3>1. job \in [Clients -> JobType]
      BY <2>3 DEF TypeOK, JobType
    <3>2. [job[c] EXCEPT !.row = row] \in JobType /\ [job[c] EXCEPT !.row = row].row = row
      BY <2>7, <3>1 DEF JobType
    <3> QED
      BY <2>8, <3>1, <3>2
  <2>10. pc' \in [Clients -> PcStates] /\ pc'[c] = "insert"
        /\ \A d \in Clients \ {c} : pc'[d] = pc[d]
    BY <2>1, <2>3 DEF TypeOK, PcStates
  <2>11. TypeOK'
    BY <1>1, <2>1, <2>3, <2>9, <2>10 DEF TypeOK, JobType, PcStates
  <2>12. SpanInv' /\ NoDoubleBooking'
    BY <1>1 DEF ResInv, SpanInv, NoDoubleBooking, Live
  <2>13. SpecialOf(c)' /\ TodoOf(c)' /\ Only(c)
    BY <2>9, <2>10 DEF SpecialOf, TodoOf, Only
  <2>14. InsertOf(c)'
    BY <1>1, <2>5, <2>6, <2>7, <2>9 DEF InsertOf, Live, Overlaps
  <2> QED
    BY <1>1, <2>1, <2>11, <2>12, <2>13, <2>14, LockedStep
<1> QED
  BY <1>2, <1>3 DEF MakeReservation

LEMMA AddStep ==
  ASSUME ResInv, NEW c \in Clients, AddReservation(c)
  PROVE  ResInv'
<1>1. /\ CanLock(c) /\ Return(c) /\ HasRid /\ pc[c] = "insert"
      /\ UNCHANGED <<now, open, nstate>>
  BY DEF AddReservation, ResInv, LockInv, CanLock
<1>2. NextRid \in Rids /\ ~Live(NextRid)
  BY <1>1, NextRidFree DEF Live
<1> DEFINE row == job[c].row
<1>3. /\ row \in Row /\ row.user \in Users /\ row.begin < row.end
      /\ row.user \notin Admins =>
            \A r \in Rids : Live(r) /\ Overlaps(rsv[r], row.begin, row.end)
                              => row.nodes \cap rsv[r].nodes = {}
  BY <1>1 DEF ResInv, TypeOK, InsertOf
<1> HIDE DEF row
<1>4. ASSUME NEW new \in {row, Partial(row)}, rsv' = [rsv EXCEPT ![NextRid] = new]
      PROVE  ResInv'
  <2>1. /\ new \in Row /\ new.user = row.user /\ new.begin = row.begin /\ new.end = row.end
        /\ new.nodes \subseteq row.nodes
    BY <1>3, RowForms
  <2>2. /\ rsv' \in [Rids -> Row] /\ rsv'[NextRid] = new
        /\ \A r \in Rids \ {NextRid} : rsv'[r] = rsv[r] /\ Kept(r)
    BY <1>2, <1>4, <2>1, WriteRow DEF ResInv
  <2>3. TypeOK'
    BY <1>1, <2>2, ReturnTypes DEF ResInv, TypeOK, PcStates, JobType
  <2>4. SpanInv' /\ NoDoubleBooking'
    <3>1. SpanInv /\ NoDoubleBooking
      BY DEF ResInv
    <3>2. new.user \in Users \ Admins =>
            \A r \in Rids \ {NextRid} :
              Live(r)' /\ Overlaps(rsv'[r], new.begin, new.end) => new.nodes \cap rsv'[r].nodes = {}
      BY <1>3, <2>1, <2>2 DEF Live, Overlaps
    <3> QED
      BY <1>2, <1>3, <2>1, <2>2, <2>3, <3>1, <3>2, InsertStep
  <2> QED
    BY <1>1, <2>3, <2>4, ReturnStep
<1>5. CASE UNCHANGED rsv
  BY <1>1, <1>5, NothingDone
<1> QED
  BY <1>4, <1>5 DEF AddReservation, row

LEMMA ExtendStep ==
  ASSUME ResInv, NEW c \in Clients, NEW u \in Users, NEW l \in Lens,
         ExtendCurrentReservation(c, u, l)
  PROVE  ResInv'
<1>1. CanLock(c) /\ Return(c) /\ UNCHANGED <<now, open, nstate>>
  BY DEF ExtendCurrentReservation
<1>2. CASE UNCHANGED rsv
  BY <1>1, <1>2, NothingDone
<1>3. ASSUME NEW r \in Rids, Live(r), rsv[r].user = u, NEW end, end = rsv[r].end + RoundLen(l),
             ~ExtendBlocked(u, r, end), rsv' = [rsv EXCEPT ![r].end = end]
      PROVE  ResInv'
  <2>1. rsv[r] \in Row /\ rsv[r].begin < rsv[r].end
    BY <1>3 DEF ResInv, TypeOK, SpanInv
  <2>2. RoundLen(l) \in Nat \ {0}
    BY RoundLenPositive, TimesAssumption
  <2>3. end \in Int /\ rsv[r].end < end /\ rsv[r].begin < end
    BY <1>3, <2>1, <2>2 DEF Row
  <2> DEFINE row == [rsv[r] EXCEPT !.end = end]
  <2>4. /\ row \in Row /\ row.user = u /\ row.nodes = rsv[r].nodes
        /\ row.begin = rsv[r].begin /\ row.end = end
    BY <1>3, <2>1, <2>3, RowForms
  <2>5. rsv' = [rsv EXCEPT ![r] = row]
    BY <1>3
  <2> HIDE DEF row
  <2>6. /\ rsv' \in [Rids -> Row] /\ rsv'[r] = row
        /\ \A q \in Rids \ {r} : rsv'[q] = rsv[q] /\ Kept(q)
    BY <2>4, <2>5, WriteRow DEF ResInv
  <2>7. ASSUME u \notin Admins, NEW s \in Rids \ {r}, Live(s)', rsv'[s].user \in Users \ Admins,
               Overlaps(rsv'[s], row.begin, row.end)
        PROVE  row.nodes \cap rsv'[s].nodes = {}
    <3>1. rsv'[s] = rsv[s] /\ Live(s) /\ rsv[s] \in Row
      BY <2>6, <2>7 DEF Live, ResInv, TypeOK
    <3>2. rsv[s].begin < end /\ rsv[s].end > rsv[r].begin
      BY <2>4, <2>7, <3>1 DEF Overlaps
    <3>3. rsv[s].begin < rsv[s].end
      BY <2>7, <3>1 DEF ResInv, SpanInv
    <3>4. CASE rsv[s].begin < rsv[r].end
      <4>1. Overlaps(rsv[r], rsv[s].begin, rsv[s].end)
        BY <2>1, <3>1, <3>2, <3>4 DEF Overlaps, Row
      <4> QED
        BY <1>3, <2>4, <2>7, <3>1, <4>1 DEF ResInv, NoDoubleBooking
    <3>5. CASE ~(rsv[s].begin < rsv[r].end)
      <4>1. rsv[s].begin <= end /\ rsv[s].end > rsv[r].end
        BY <2>1, <2>3, <3>1, <3>2, <3>3, <3>5 DEF Row
      <4>2. rsv[s].nodes \cap rsv[r].nodes = {}
        BY <1>3, <2>7, <3>1, <4>1 DEF ExtendBlocked
      <4> QED
        BY <2>4, <3>1, <4>2
    <3> QED
      BY <3>4, <3>5
  <2>8. SpanInv' /\ NoDoubleBooking'
    <3>1. SpanInv /\ NoDoubleBooking
      BY DEF ResInv
    <3> QED
      BY <2>3, <2>4, <2>6, <2>7, <3>1, InsertStep
  <2>9. TypeOK'
    BY <1>1, <2>6, ReturnTypes DEF ResInv, TypeOK, PcStates, JobType
  <2> QED
    BY <1>1, <2>8, <2>9, ReturnStep
<1> QED
  BY <1>2, <1>3 DEF ExtendCurrentReservation

\* A row that is not a user's takes no node from a user.
LEMMA OthersRow ==
  ASSUME ResInv, rsv' \in [Rids -> Row], NEW n \in Rids, rsv'[n].user \notin Users,
         \A r \in Rids \ {n} : Kept(r)
  PROVE  SpanInv' /\ NoDoubleBooking'
BY InsertStep DEF ResInv

LEMMA ReserveAllStep ==
  ASSUME ResInv, NEW c \in Clients, NEW begin \in Begins, NEW l \in Lens, ReserveAll(c, begin, l)
  PROVE  ResInv'
<1> DEFINE b == discretize_time(begin)
           e == b + RoundLen(l)
           row == [NoRow EXCEPT !.begin = b, !.end = e, !.state = "pending"]
<1>1. CanLock(c) /\ Return(c) /\ HasRid /\ UNCHANGED <<now, open, nstate>>
  BY DEF ReserveAll
<1>2. CASE UNCHANGED rsv
  BY <1>1, <1>2, NothingDone
<1>3. CASE rsv' = [rsv EXCEPT ![NextRid] = row]
  <2>1. b \in Int /\ e \in Int
    BY DiscretizeInt, RoundLenPositive, TimesAssumption
  <2> HIDE DEF b, e
  <2>2. row \in Row /\ row.user = "system"
    BY <2>1 DEF Row, NoRow, Owners, RowStates
  <2> HIDE DEF row
  <2>3. NextRid \in Rids
    BY <1>1, NextRidFree
  <2>4. /\ rsv' \in [Rids -> Row] /\ rsv'[NextRid] = row
        /\ \A r \in Rids \ {NextRid} : Kept(r)
    BY <1>3, <2>2, <2>3, WriteRow DEF ResInv
  <2>5. rsv'[NextRid].user \notin Users
    BY <2>2, <2>4, UserAssumption
  <2>6. SpanInv' /\ NoDoubleBooking'
    BY <2>3, <2>4, <2>5, OthersRow
  <2>7. TypeOK'
    BY <1>1, <2>4, ReturnTypes DEF ResInv, TypeOK, PcStates, JobType
  <2> QED
    BY <1>1, <2>6, <2>7, ReturnStep
<1> QED
  BY <1>2, <1>3 DEF ReserveAll

-----------------------------------------------------------------------------
(* Nodes in repair and in testing.                                          *)

LEMMA ChangeNodeStep ==
  ASSUME ResInv, NEW c \in Clients, NEW n \in Nodes, NEW old \in NodeStates,
         NEW new \in NodeStates, ChangeNode(c, n, old, new)
  PROVE  ResInv'
<1> DEFINE j == IF {old, new} \cap Special = {} THEN NoJob
                ELSE [NoJob EXCEPT !.node = {n}, !.old = old, !.new = new]
           p == IF old \in Special THEN "leave" ELSE IF new \in Special THEN "enter" ELSE "idle"
<1>1. /\ nstate' = [nstate EXCEPT ![n] = new]
      /\ job' = [job EXCEPT ![c] = j] /\ pc' = [pc EXCEPT ![c] = p]
      /\ UNCHANGED <<now, rsv, open, lock>>
  BY DEF ChangeNode
<1>2. /\ j \in JobType
      /\ p \in {"leave", "enter"} => j.node # {} /\ j.new = new
      /\ p = "enter" => new \in Special
      /\ p \in {"leave", "enter", "idle"}
  BY NoJobForm DEF JobType, Special
<1> HIDE DEF j, p
<1>3. job' \in [Clients -> JobType] /\ pc' \in [Clients -> PcStates]
      /\ job'[c] = j /\ pc'[c] = p /\ Only(c)
  BY <1>1, <1>2 DEF ResInv, TypeOK, JobType, PcStates, Only
<1>4. TypeOK'
  BY <1>1, <1>3 DEF ResInv, TypeOK, JobType, PcStates
<1>5. SpecialOf(c)'
  BY <1>2, <1>3 DEF SpecialOf
<1>6. \A r \in Rids : Kept(r) /\ rsv'[r].state = rsv[r].state
  BY <1>1 DEF Kept, Live
<1> QED
  BY <1>1, <1>2, <1>3, <1>4, <1>5, <1>6, UnlockedStep

LEMMA NodeStateSteps ==
  ASSUME ResInv, NEW c \in Clients, NEW n \in Named,
         \/ \E s \in {"free", "active", "repair"} : SetState(c, n, s)
         \/ PutInTesting(c, n) \/ RemoveFromTesting(c, n)
  PROVE  ResInv'
<1>1. n \in Nodes /\ nstate[n] \in NodeStates
  BY ClientAssumption DEF ResInv, TypeOK
<1>2. \E old, new \in NodeStates : ChangeNode(c, n, old, new)
  BY <1>1 DEF SetState, PutInTesting, RemoveFromTesting, NodeStates
<1> QED
  BY <1>1, <1>2, ChangeNodeStep

\* A call that gives up before it has the lock.
LEMMA RefuseStep ==
  ASSUME ResInv, NEW c \in Clients, Refuse(c)
  PROVE  ResInv'
<1>1. /\ job' \in [Clients -> JobType] /\ pc' \in [Clients -> PcStates]
      /\ pc'[c] = "idle" /\ Only(c) /\ UNCHANGED <<now, rsv, open, nstate, lock>>
  BY NoJobForm DEF Refuse, ResInv, TypeOK, JobType, PcStates, Only
<1>2. TypeOK'
  BY <1>1 DEF ResInv, TypeOK, JobType, PcStates
<1>3. SpecialOf(c)'
  BY <1>1 DEF SpecialOf
<1>4. \A r \in Rids : Kept(r) /\ rsv'[r].state = rsv[r].state
  BY <1>1 DEF Kept, Live
<1> QED
  BY <1>1, <1>2, <1>3, <1>4, UnlockedStep

LEMMA ClearSpecialStep ==
  ASSUME ResInv, NEW c \in Clients, ClearSpecialState(c)
  PROVE  ResInv'
<1> DEFINE n   == CHOOSE m \in Nodes : m \in job[c].node
           cur == {r \in Current(job[c].old, {"pending", "used"}) : n \in rsv[r].nodes}
<1>1. CASE Refuse(c)
  BY <1>1, RefuseStep
<1>2. CASE CanLock(c) /\ Return(c) /\ UNCHANGED <<now, rsv, open, nstate>>
  BY <1>2, NothingDone
<1>3. CASE /\ CanLock(c) /\ pc[c] = "leave"
           /\ rsv' = [r \in Rids |-> IF r \in cur THEN [rsv[r] EXCEPT !.state = "cancelled"]
                                     ELSE rsv[r]]
           /\ lock' = NoClient
           /\ pc' = [pc EXCEPT ![c] = IF job[c].new \in Special THEN "enter" ELSE "idle"]
           /\ job' = [job EXCEPT ![c] = IF job[c].new \in Special THEN @ ELSE NoJob]
           /\ UNCHANGED <<now, open, nstate>>
  <2> HIDE DEF cur
  <2>1. \A r \in Rids : rsv[r] \in Row
    BY DEF ResInv, TypeOK
  <2>2. rsv' \in [Rids -> Row] /\ \A r \in Rids : Kept(r)
    BY <1>3, <2>1, RowForms DEF Kept, Live, RowStates
  <2>3. SpanInv' /\ NoDoubleBooking'
    BY <2>2, KeptStep DEF ResInv
  <2>4. job \in [Clients -> JobType] /\ pc \in [Clients -> PcStates]
    BY DEF ResInv, TypeOK, JobType, PcStates
  <2>5. /\ job' \in [Clients -> JobType] /\ pc' \in [Clients -> PcStates] /\ Only(c)
        /\ pc'[c] \in {"enter", "idle"}
        /\ pc'[c] = "enter" => job'[c] = job[c] /\ job[c].new \in Special
    BY <1>3, <2>4, NoJobForm DEF PcStates, Only
  <2>6. TypeOK'
    BY <1>3, <2>2, <2>5 DEF ResInv, TypeOK, JobType, PcStates
  <2>7. SpecialOf(c)' /\ InsertOf(c)' /\ TodoOf(c)'
    <3>1. job[c].node # {}
      BY <1>3 DEF ResInv, SpecialOf
    <3> QED
      BY <2>5, <3>1 DEF SpecialOf, InsertOf, TodoOf
  <2> QED
    BY <1>3, <2>3, <2>5, <2>6, <2>7, LockedStep
<1> QED
  BY <1>1, <1>2, <1>3 DEF ClearSpecialState

\* The client goes on with the reservations that have to make way, with the lock.
LEMMA RemapBegins ==
  ASSUME ResInv, NEW c \in Clients, CanLock(c),
         rsv' \in [Rids -> Row], SpanInv', NoDoubleBooking',
         NEW j \in JobType, job' = [job EXCEPT ![c] = j],
         \A r \in j.todo : rsv'[r].user \in Users /\ rsv'[r].state \in {"pending", "used"},
         lock' = c, pc' = [pc EXCEPT ![c] = "remap"], UNCHANGED <<now, open, nstate>>
  PROVE  ResInv'
<1>1. job \in [Clients -> JobType] /\ pc \in [Clients -> PcStates]
  BY DEF ResInv, TypeOK, JobType, PcStates
<1>2. /\ job' \in [Clients -> JobType] /\ pc' \in [Clients -> PcStates] /\ Only(c)
      /\ pc'[c] = "remap" /\ job'[c] = j
  BY <1>1 DEF PcStates, Only
<1>3. TypeOK'
  BY <1>2 DEF ResInv, TypeOK, JobType, PcStates
<1>4. SpecialOf(c)' /\ InsertOf(c)' /\ TodoOf(c)'
  BY <1>2 DEF SpecialOf, InsertOf, TodoOf
<1> QED
  BY <1>2, <1>3, <1>4, LockedStep

LEMMA EnterStep ==
  ASSUME ResInv, NEW c \in Clients, NEW l \in Lens, EnterSpecialState(c, l)
  PROVE  ResInv'
<1> DEFINE n   == CHOOSE m \in Nodes : m \in job[c].node
           b   == discretize_time(now)
           row == [user |-> job[c].new, begin |-> b, end |-> b + l * Slot, state |-> "pending",
                   nodes |-> {n}, fixed |-> {n}]
           todo == Affected(n, row.begin, row.end)
<1>1. pc[c] = "enter"
  BY DEF EnterSpecialState
<1>2. n \in Nodes
  <2>1. job[c].node # {} /\ job[c].node \subseteq Nodes
    BY <1>1 DEF ResInv, TypeOK, SpecialOf
  <2> QED
    BY <2>1
<1>3. b \in Int /\ b + l * Slot \in Int
  <2>1. b \in Int
    BY DiscretizeInt DEF ResInv, TypeOK
  <2>2. l * Slot \in Int
    BY TimesAssumption, SlotAssumption
  <2> QED
    BY <2>1, <2>2
<1>4. job[c].new \in Special
  BY <1>1 DEF ResInv, SpecialOf
<1>5. row \in Row /\ row.user \notin Users
  BY <1>2, <1>3, <1>4, UserAssumption DEF Row, Owners, RowStates, Special
<1>6. todo \subseteq Rids /\ \A r \in todo : /\ rsv[r].user \in Users
                                            /\ rsv[r].state \in {"pending", "used"}
  BY DEF Affected
<1> HIDE DEF n, b, row, todo
<1>7. CASE Refuse(c)
  BY <1>7, RefuseStep
<1>8. CASE /\ CanLock(c) /\ HasRid
           /\ rsv' = [rsv EXCEPT ![NextRid] = row]
           /\ job' = [job EXCEPT ![c].todo = todo]
           /\ lock' = c
           /\ pc' = [pc EXCEPT ![c] = "remap"]
           /\ UNCHANGED <<now, open, nstate>>
  <2>1. NextRid \in Rids /\ rsv[NextRid].state = "none"
    BY <1>8, NextRidFree
  <2>2. /\ rsv' \in [Rids -> Row] /\ rsv'[NextRid] = row
        /\ \A r \in Rids \ {NextRid} : rsv'[r] = rsv[r] /\ Kept(r)
    BY <1>5, <1>8, <2>1, WriteRow DEF ResInv
  <2>3. SpanInv' /\ NoDoubleBooking'
    BY <1>5, <2>1, <2>2, OthersRow
  <2> DEFINE j == [job[c] EXCEPT !.todo = todo]
  <2>4. j \in JobType /\ j.todo = todo
    BY <1>6 DEF ResInv, TypeOK, JobType
  <2>5. job' = [job EXCEPT ![c] = j]
    BY <1>8
  <2> HIDE DEF j
  <2>6. \A r \in j.todo : rsv'[r].user \in Users /\ rsv'[r].state \in {"pending", "used"}
    BY <1>6, <2>1, <2>2, <2>4
  <2> QED
    BY <1>8, <2>2, <2>3, <2>4, <2>5, <2>6, RemapBegins
<1>9. CASE /\ CanLock(c) /\ HasRid
           /\ rsv' = [rsv EXCEPT ![NextRid] = Partial(row)]
           /\ Return(c)
           /\ UNCHANGED <<now, open, nstate>>
  <2>1. NextRid \in Rids /\ Partial(row) \in Row /\ Partial(row).user = row.user
    BY <1>5, <1>9, NextRidFree, RowForms
  <2>2. /\ rsv' \in [Rids -> Row] /\ rsv'[NextRid] = Partial(row)
        /\ \A r \in Rids \ {NextRid} : Kept(r)
    BY <1>9, <2>1, WriteRow DEF ResInv
  <2>3. SpanInv' /\ NoDoubleBooking'
    BY <1>5, <2>1, <2>2, OthersRow
  <2>4. TypeOK'
    BY <1>9, <2>2, ReturnTypes DEF ResInv, TypeOK, PcStates, JobType
  <2> QED
    BY <1>9, <2>3, <2>4, ReturnStep
<1> QED
  BY <1>7, <1>8, <1>9 DEF EnterSpecialState, n, b, row, todo

LEMMA ExtendSpecialStep ==
  ASSUME ResInv, NEW c \in Clients, NEW n \in Named, NEW state \in Special, NEW l \in Lens,
         ExtendSpecialState(c, n, state, l)
  PROVE  ResInv'
<1>1. CanLock(c) /\ UNCHANGED <<now, open, nstate>>
  BY DEF ExtendSpecialState
<1>2. CASE Return(c) /\ UNCHANGED rsv
  BY <1>1, <1>2, NothingDone
<1>3. ASSUME NEW r \in Rids, rsv[r].user = state, NEW end, end = rsv[r].end + l * Slot,
             NEW todo, todo = Affected(n, rsv[r].end, end),
             rsv' = [rsv EXCEPT ![r].end = end],
             job' = [job EXCEPT ![c] = [NoJob EXCEPT !.node = {n}, !.todo = todo]],
             lock' = c, pc' = [pc EXCEPT ![c] = "remap"]
      PROVE  ResInv'
  <2>1. rsv[r] \in Row /\ state \notin Users
    BY UserAssumption DEF ResInv, TypeOK, Special
  <2>2. l * Slot \in Int
    BY TimesAssumption, SlotAssumption
  <2>3. end \in Int
    BY <1>3, <2>1, <2>2 DEF Row
  <2> DEFINE row == [rsv[r] EXCEPT !.end = end]
             j == [NoJob EXCEPT !.node = {n}, !.todo = todo]
  <2>4. row \in Row /\ row.user = state /\ row.state = rsv[r].state
    BY <1>3, <2>1, <2>3, RowForms
  <2>5. rsv' = [rsv EXCEPT ![r] = row]
    BY <1>3
  <2> HIDE DEF row
  <2>6. /\ rsv' \in [Rids -> Row] /\ rsv'[r] = row
        /\ \A q \in Rids \ {r} : rsv'[q] = rsv[q] /\ Kept(q)
    BY <2>4, <2>5, WriteRow DEF ResInv
  <2>7. SpanInv' /\ NoDoubleBooking'
    BY <2>1, <2>4, <2>6, OthersRow
  <2>8. todo \subseteq Rids /\ \A q \in todo : /\ rsv[q].user \in Users
                                              /\ rsv[q].state \in {"pending", "used"}
    BY <1>3 DEF Affected
  <2>9. j \in JobType /\ j.todo = todo
    BY <2>8, NoJobForm, ClientAssumption DEF JobType
  <2>10. job' = [job EXCEPT ![c] = j]
    BY <1>3
  <2> HIDE DEF j
  <2>11. \A q \in j.todo : rsv'[q].user \in Users /\ rsv'[q].state \in {"pending", "used"}
    BY <1>3, <2>1, <2>6, <2>8, <2>9
  <2> QED
    BY <1>1, <1>3, <2>6, <2>7, <2>9, <2>10, <2>11, RemapBegins
<1> QED
  BY <1>2, <1>3 DEF ExtendSpecialState

-----------------------------------------------------------------------------
(* The reservations that make way.                                          *)

\* What happens to the table when a reservation is moved, lost or half moved.
LEMMA RemapTable ==
  ASSUME ResInv, NEW r \in Rids, rsv[r].user \in Users, rsv[r].state \in {"pending", "used"},
         NEW S \in SUBSET Nodes, NEW row \in {Moved(r, S), Partial(Moved(r, S))},
         row.user \notin Admins =>
           \A q \in Rids \ {r} : Live(q) /\ Overlaps(rsv[q], row.begin, row.end)
                                 => row.nodes \cap rsv[q].nodes = {},
         \/ rsv' = [rsv EXCEPT ![r].state = "cancelled"]
         \/ HasRid /\ rsv' = [rsv EXCEPT ![r].state = "cancelled", ![NextRid] = row]
  PROVE  /\ rsv' \in [Rids -> Row] /\ SpanInv' /\ NoDoubleBooking'
         /\ \A q \in Rids \ {r} : rsv[q].state # "none" => rsv'[q] = rsv[q]
<1>1. TypeOK /\ SpanInv /\ NoDoubleBooking /\ Live(r)
  BY DEF ResInv, Live
<1> DEFINE old == [rsv[r] EXCEPT !.state = "cancelled"]
<1>2. rsv[r] \in Row
  BY <1>1 DEF TypeOK
<1>3. /\ old \in Row /\ old.user = rsv[r].user /\ old.nodes = rsv[r].nodes
      /\ old.begin = rsv[r].begin /\ old.end = rsv[r].end /\ old.state = "cancelled"
  BY <1>2, RowForms DEF RowStates
<1>4. CASE rsv' = [rsv EXCEPT ![r].state = "cancelled"]
  <2>1. rsv' \in [Rids -> Row] /\ \A q \in Rids : Kept(q)
    BY <1>1, <1>4, RestateRow DEF RowStates
  <2>2. SpanInv' /\ NoDoubleBooking'
    BY <1>1, <2>1, KeptStep
  <2>3. \A q \in Rids \ {r} : rsv'[q] = rsv[q]
    BY <1>1, <1>4 DEF TypeOK
  <2> QED
    BY <2>1, <2>2, <2>3
<1>5. CASE HasRid /\ rsv' = [rsv EXCEPT ![r].state = "cancelled", ![NextRid] = row]
  <2>1. NextRid \in Rids /\ rsv[NextRid].state = "none" /\ NextRid # r
    BY <1>5, NextRidFree
  <2>2. /\ row \in Row /\ row.user = rsv[r].user
        /\ row.begin = rsv[r].begin /\ row.end = rsv[r].end
    BY <1>1, MovedForm, RowForms
  <2>3. rsv' = [q \in Rids |-> IF q = NextRid THEN row ELSE IF q = r THEN old ELSE rsv[q]]
    BY <1>1, <1>5, <2>1 DEF TypeOK
  <2> HIDE DEF old
  <2>4. /\ rsv' \in [Rids -> Row] /\ rsv'[NextRid] = row /\ rsv'[r] = old
        /\ \A q \in Rids \ {r, NextRid} : rsv'[q] = rsv[q]
    BY <1>1, <1>3, <2>1, <2>2, <2>3 DEF TypeOK
  <2>5. \A q \in Rids \ {NextRid} : Kept(q)
    BY <1>1, <1>3, <2>4 DEF Kept, Live
  <2>6. row.begin < row.end
    BY <1>1, <2>2 DEF SpanInv
  <2>7. row.user \in Users \ Admins =>
          \A q \in Rids \ {NextRid} :
            /\ Live(q)' /\ rsv'[q].user \in Users \ Admins
            /\ Overlaps(rsv'[q], row.begin, row.end)
            => row.nodes \cap rsv'[q].nodes = {}
    <3>1. ASSUME NEW q \in Rids \ {NextRid}, Live(q)'
          PROVE  q # r /\ rsv'[q] = rsv[q] /\ Live(q)
      BY <1>3, <2>4, <3>1 DEF Live
    <3> QED
      BY <3>1
  <2>8. SpanInv' /\ NoDoubleBooking'
    BY <1>1, <2>1, <2>4, <2>5, <2>6, <2>7, InsertStep
  <2> QED
    BY <2>1, <2>4, <2>8
<1> QED
  BY <1>4, <1>5

\* The list of those that make way gets shorter.
LEMMA RemapGoesOn ==
  ASSUME ResInv, NEW c \in Clients, pc[c] = "remap", NEW r \in Rids,
         rsv' \in [Rids -> Row], SpanInv', NoDoubleBooking',
         \A q \in Rids \ {r} : rsv[q].state # "none" => rsv'[q] = rsv[q],
         \/ job' = [job EXCEPT ![c].todo = @ \ {r}]
         \/ job' = [job EXCEPT ![c].todo = @ \ {r}, ![c].threw = TRUE],
         UNCHANGED <<lock, pc, now, open, nstate>>
  PROVE  ResInv'
<1>1. /\ job \in [Clients -> JobType] /\ pc \in [Clients -> PcStates]
      /\ job[c] \in JobType /\ job[c].todo \subseteq Rids
  BY DEF ResInv, TypeOK, JobType, PcStates
<1>2. PICK j \in JobType : job' = [job EXCEPT ![c] = j] /\ j.todo = job[c].todo \ {r}
  <2>1. CASE job' = [job EXCEPT ![c].todo = @ \ {r}]
    <3> DEFINE j == [job[c] EXCEPT !.todo = @ \ {r}]
    <3>1. j \in JobType /\ j.todo = job[c].todo \ {r}
      BY <1>1 DEF JobType
    <3>2. job' = [job EXCEPT ![c] = j]
      BY <2>1
    <3> QED
      BY <3>1, <3>2
  <2>2. CASE job' = [job EXCEPT ![c].todo = @ \ {r}, ![c].threw = TRUE]
    <3> DEFINE j == [job[c] EXCEPT !.todo = @ \ {r}, !.threw = TRUE]
    <3>1. j \in JobType /\ j.todo = job[c].todo \ {r}
      BY <1>1 DEF JobType
    <3>2. job' = [job EXCEPT ![c] = j]
      BY <1>1, <2>2
    <3> QED
      BY <3>1, <3>2
  <2> QED
    BY <2>1, <2>2
<1>3. \A q \in j.todo : rsv'[q].user \in Users /\ rsv'[q].state \in {"pending", "used"}
  <2>1. \A q \in job[c].todo : rsv[q].user \in Users /\ rsv[q].state \in {"pending", "used"}
    BY DEF ResInv, TodoOf
  <2> QED
    BY <1>1, <1>2, <2>1
<1>4. lock = c /\ pc' = [pc EXCEPT ![c] = "remap"]
  BY <1>1 DEF ResInv, LockInv
<1> QED
  BY <1>2, <1>3, <1>4, RemapBegins DEF CanLock

LEMMA RemapStep ==
  ASSUME ResInv, NEW c \in Clients, NEW r \in Rids, Remap(c, r)
  PROVE  ResInv'
<1> DEFINE try == IF rsv[r].fixed # {} THEN {}
                  ELSE TryReservation(rsv[r].user, rsv[r].begin, rsv[r].end,
                                      Cardinality(rsv[r].nodes), {}, {r})
<1>1. pc[c] = "remap" /\ r \in job[c].todo /\ UNCHANGED <<now, open, nstate>>
  BY DEF Remap
<1>2. TypeOK /\ rsv[r].user \in Users /\ rsv[r].state \in {"pending", "used"} /\ CanLock(c)
  BY <1>1 DEF ResInv, TodoOf, LockInv, CanLock
<1>3. ASSUME HasRid, NEW S \in try,
             rsv' = [rsv EXCEPT ![r].state = "cancelled", ![NextRid] = Moved(r, S)],
             job' = [job EXCEPT ![c].todo = @ \ {r}], UNCHANGED <<lock, pc>>
      PROVE  ResInv'
  <2>1. S \in TryReservation(rsv[r].user, rsv[r].begin, rsv[r].end,
                             Cardinality(rsv[r].nodes), {}, {r})
    BY <1>3
  <2>2. /\ S \in SUBSET Nodes
        /\ \A q \in Rids \ {r} : Live(q) /\ Overlaps(rsv[q], rsv[r].begin, rsv[r].end)
                                 => S \cap rsv[q].nodes = {}
    <3> DEFINE u == rsv[r].user
               b == rsv[r].begin
               e == rsv[r].end
               num == Cardinality(rsv[r].nodes)
               none == {}
               not == {r}
    <3>1. S \in TryReservation(u, b, e, num, none, not)
      BY <2>1
    <3>2. none = {}
      OBVIOUS
    <3> HIDE DEF u, b, e, num, none, not
    <3>3. /\ S \in SUBSET Nodes
          /\ \A q \in Rids \ not : Live(q) /\ Overlaps(rsv[q], b, e)
                                   => S \cap rsv[q].nodes = {}
      BY <1>2, <3>1, <3>2, TryFindsFree
    <3> QED
      BY <3>3 DEF b, e, not
  <2>3. \A q \in Rids \ {r} :
          Live(q) /\ Overlaps(rsv[q], Moved(r, S).begin, Moved(r, S).end)
          => Moved(r, S).nodes \cap rsv[q].nodes = {}
    BY <1>2, <2>2, MovedForm
  <2>4. /\ rsv' \in [Rids -> Row] /\ SpanInv' /\ NoDoubleBooking'
        /\ \A q \in Rids \ {r} : rsv[q].state # "none" => rsv'[q] = rsv[q]
    BY <1>2, <1>3, <2>2, <2>3, RemapTable
  <2> QED
    BY <1>1, <1>3, <2>4, RemapGoesOn
<1>4. ASSUME job' = [job EXCEPT ![c].todo = @ \ {r}], UNCHANGED <<rsv, lock, pc>>
      PROVE  ResInv'
  <2>1. rsv' \in [Rids -> Row] /\ SpanInv' /\ NoDoubleBooking'
    BY <1>4 DEF ResInv, TypeOK, SpanInv, NoDoubleBooking, Live
  <2> QED
    BY <1>1, <1>4, <2>1, RemapGoesOn
<1>5. ASSUME \/ rsv' = [rsv EXCEPT ![r].state = "cancelled"]
             \/ HasRid /\ rsv' = [rsv EXCEPT ![r].state = "cancelled",
                                             ![NextRid] = Partial(Moved(r, {}))],
             \/ /\ job' = [job EXCEPT ![c].todo = @ \ {r}, ![c].threw = TRUE]
                /\ UNCHANGED <<lock, pc>>
             \/ Return(c)
      PROVE  ResInv'
  <2> DEFINE row == Partial(Moved(r, {}))
  <2>1. row.nodes = {}
    BY <1>2, MovedForm, RowForms
  <2>2. /\ rsv' \in [Rids -> Row] /\ SpanInv' /\ NoDoubleBooking'
        /\ \A q \in Rids \ {r} : rsv[q].state # "none" => rsv'[q] = rsv[q]
    BY <1>2, <1>5, <2>1, RemapTable
  <2>3. CASE Return(c)
    <3>1. TypeOK'
      BY <1>1, <2>2, <2>3, ReturnTypes DEF ResInv, TypeOK, PcStates, JobType
    <3> QED
      BY <1>2, <2>2, <2>3, <3>1, ReturnStep
  <2>4. CASE /\ job' = [job EXCEPT ![c].todo = @ \ {r}, ![c].threw = TRUE]
             /\ UNCHANGED <<lock, pc>>
    BY <1>1, <2>2, <2>4, RemapGoesOn
  <2> QED
    BY <1>5, <2>3, <2>4
<1> QED
  BY <1>3, <1>4, <1>5 DEF Remap

LEMMA RemapDoneStep ==
  ASSUME ResInv, NEW c \in Clients, RemapDone(c)
  PROVE  ResInv'
BY NothingDone DEF RemapDone, ResInv, LockInv, CanLock

-----------------------------------------------------------------------------
LEMMA ResInit == Init => ResInv
<1> SUFFICES ASSUME Init PROVE ResInv
  OBVIOUS
<1>1. \A r \in Rids : rsv[r] = NoRow /\ ~Live(r)
  BY DEF Init, NoRow, Live
<1>2. TypeOK
  BY NoRowForm, NoJobForm DEF Init, TypeOK, JobType, NodeStates
<1>3. SpanInv /\ NoDoubleBooking
  BY <1>1 DEF SpanInv, NoDoubleBooking
<1>4. \A c \in Clients : pc[c] = "idle"
  BY DEF Init
<1> QED
  BY <1>2, <1>3, <1>4 DEF ResInv, LockInv, SpecialOf, InsertOf, TodoOf

LEMMA ResStutter ==
  ASSUME ResInv, UNCHANGED <<rsv, open, nstate, lock, pc, job>>, now' \in Nat
  PROVE  ResInv'
<1>1. TypeOK'
  BY DEF ResInv, TypeOK
<1>2. LockInv' /\ SpanInv' /\ NoDoubleBooking'
  BY DEF ResInv, LockInv, SpanInv, NoDoubleBooking, Live
<1>3. \A c \in Clients : SpecialOf(c)' /\ InsertOf(c)' /\ TodoOf(c)'
  BY DEF ResInv, SpecialOf, InsertOf, TodoOf, Live
<1> QED
  BY <1>1, <1>2, <1>3 DEF ResInv

LEMMA ResNext == ResInv /\ [Next]_vars => ResInv'
<1> SUFFICES ASSUME ResInv, [Next]_vars PROVE ResInv'
  OBVIOUS
<1>1. CASE UNCHANGED vars
  BY <1>1, ResStutter DEF vars, ResInv, TypeOK
<1>2. CASE Tick
  BY <1>2, ResStutter DEF Tick, ResInv, TypeOK
<1>3. ASSUME NEW u \in Users, NEW c \in UserClients, UserCall(c, u)
      PROVE  ResInv'
  BY <1>3, MakeStep, CancelStep, ExtendStep DEF UserCall, Clients
<1>4. ASSUME NEW u \in Users, NEW c \in CrdClients, CrdCall(c, u)
      PROVE  ResInv'
  BY <1>4, HasReservationStep, AssignStep, ReturnResourcesStep, ClearAllStep
     DEF CrdCall, Clients
<1>5. ASSUME NEW c \in OpClients, OperatorCall(c)
      PROVE  ResInv'
  BY <1>5, NodeStateSteps, ExtendSpecialStep, ReserveAllStep DEF OperatorCall, Clients
<1>6. ASSUME NEW c \in Clients, Continue(c)
      PROVE  ResInv'
  BY <1>6, AddStep, ClearSpecialStep, EnterStep, RemapStep, RemapDoneStep DEF Continue
<1> QED
  BY <1>1, <1>2, <1>3, <1>4, <1>5, <1>6 DEF Next, Call

\* The table, the lock and the locals of the calls have their types at any time, whatever
\* reservations are asked for, by however many clients.
THEOREM TypeCorrect == Spec => []TypeOK
<1>1. ResInv => TypeOK
  BY DEF ResInv
<1> QED
  BY <1>1, ResInit, ResNext, PTL DEF Spec

\* A node is never promised to two users at one time: make_reservation, the extension
\* and the moves of reservations find free what they write, because they hold the lock
\* from the query to the last write, also when statements fail in between.
THEOREM NoDoubleBookingCorrect == Spec => []NoDoubleBooking
<1>1. ResInv => NoDoubleBooking
  BY DEF ResInv
<1> QED
  BY <1>1, ResInit, ResNext, PTL DEF Spec

-----------------------------------------------------------------------------
(* Taking a node out costs no user a reservation.                           *)

\* Only the loop over the reservations that make way shortens its own list.
LEMMA OnlyRemap ==
  ASSUME TypeOK, NEW c \in Clients, Next, pc[c] = "remap", pc'[c] = "remap",
         job'[c].todo # job[c].todo
  PROVE  \E r \in Rids : Remap(c, r)
<1>1. \A d \in Clients : Return(d) => d # c /\ job'[c] = job[c]
  BY DEF Return, TypeOK
<1>2. \A d \in Clients : Refuse(d) => d # c /\ job'[c] = job[c]
  BY DEF Refuse, TypeOK
<1>3. ASSUME NEW d \in Clients, NEW n, NEW old, NEW new, ChangeNode(d, n, old, new), pc[d] = "idle"
      PROVE  job'[c] = job[c]
  BY <1>3 DEF ChangeNode, TypeOK
<1>4. ~Tick
  BY DEF Tick
<1>5. ASSUME NEW u \in Users, NEW d \in UserClients PROVE ~UserCall(d, u)
  <2>1. d \in Clients
    BY DEF Clients
  <2>2. \A b1, b2, l, num, fixed : ~MakeReservation(d, u, b1, b2, l, num, fixed)
    BY <1>1, <2>1 DEF MakeReservation, TypeOK
  <2>3. ~CancelCurrentReservation(d, u)
    BY <1>1, <2>1 DEF CancelCurrentReservation
  <2>4. \A l : ~ExtendCurrentReservation(d, u, l)
    BY <1>1, <2>1 DEF ExtendCurrentReservation
  <2> QED
    BY <2>2, <2>3, <2>4 DEF UserCall
<1>6. ASSUME NEW u \in Users, NEW d \in CrdClients PROVE ~CrdCall(d, u)
  <2>1. d \in Clients
    BY DEF Clients
  <2> QED
    BY <1>1, <2>1
       DEF CrdCall, HasReservation, AssignResources, ReturnResources, ClearAllExperiments
<1>7. ASSUME NEW d \in OpClients PROVE ~OperatorCall(d)
  <2>1. d \in Clients
    BY DEF Clients
  <2>2. \A n, s : ~SetState(d, n, s)
    BY <1>3, <2>1 DEF SetState
  <2>3. \A n : ~PutInTesting(d, n) /\ ~RemoveFromTesting(d, n)
    BY <1>3, <2>1 DEF PutInTesting, RemoveFromTesting
  <2>4. \A n, s, l : ~ExtendSpecialState(d, n, s, l)
    BY <1>1, <2>1 DEF ExtendSpecialState, TypeOK
  <2>5. \A b, l : ~ReserveAll(d, b, l)
    BY <1>1, <2>1 DEF ReserveAll
  <2> QED
    BY <2>2, <2>3, <2>4, <2>5 DEF OperatorCall
<1>8. ASSUME NEW d \in Clients, Continue(d)
      PROVE  d = c /\ \E r \in Rids : Remap(d, r)
  <2>1. ~AddReservation(d) /\ ~RemapDone(d)
    BY <1>1 DEF AddReservation, RemapDone
  <2>2. ~ClearSpecialState(d)
    BY <1>1, <1>2 DEF ClearSpecialState, TypeOK
  <2>3. \A l : ~EnterSpecialState(d, l)
    BY <1>1, <1>2 DEF EnterSpecialState, TypeOK
  <2>4. PICK r \in Rids : Remap(d, r)
    BY <1>8, <2>1, <2>2, <2>3 DEF Continue
  <2>5. d = c
    BY <1>1, <2>4 DEF Remap, TypeOK
  <2> QED
    BY <2>4, <2>5
<1> QED
  BY <1>4, <1>5, <1>6, <1>7, <1>8 DEF Next, Call

LEMMA RemapKeepsStep ==
  ASSUME ResInv, NEW c \in Clients, NEW r \in Rids, Next
  PROVE  RemapKept(c, r)
<1> SUFFICES ASSUME pc[c] = "remap", pc'[c] = "remap", ~job'[c].threw, Live(r),
                    rsv'[r].state = "cancelled", job'[c].todo # job[c].todo
             PROVE  \E s \in Rids :
                      /\ rsv[s].state = "none" /\ rsv'[s].state = "used"
                      /\ rsv'[s].user = rsv[r].user
                      /\ rsv'[s].begin = rsv[r].begin /\ rsv'[s].end = rsv[r].end
                      /\ Cardinality(rsv'[s].nodes) = Cardinality(rsv[r].nodes)
                      /\ \A q \in Rids \ {r} :
                           Live(q) /\ Overlaps(rsv[q], rsv[r].begin, rsv[r].end)
                           => rsv'[s].nodes \cap rsv[q].nodes = {}
  BY DEF RemapKept
<1>1. TypeOK
  BY DEF ResInv
<1>2. PICK m \in Rids : Remap(c, m)
  BY <1>1, OnlyRemap
<1> DEFINE try == IF rsv[m].fixed # {} THEN {}
                  ELSE TryReservation(rsv[m].user, rsv[m].begin, rsv[m].end,
                                      Cardinality(rsv[m].nodes), {}, {m})
<1>3. ~Return(c)
  BY <1>1 DEF Return, TypeOK
<1>4. job' # [job EXCEPT ![c].todo = @ \ {m}, ![c].threw = TRUE]
  <2>1. job[c] \in JobType /\ job \in [Clients -> JobType]
    BY <1>1 DEF TypeOK, JobType
  <2> QED
    BY <2>1 DEF JobType
<1>5. rsv' # rsv
  BY DEF Live
<1>6. /\ HasRid
      /\ \E S \in try : rsv' = [rsv EXCEPT ![m].state = "cancelled", ![NextRid] = Moved(m, S)]
  BY <1>2, <1>3, <1>4, <1>5 DEF Remap
<1>7. PICK S \in try : rsv' = [rsv EXCEPT ![m].state = "cancelled", ![NextRid] = Moved(m, S)]
  BY <1>6
<1>8. NextRid \in Rids /\ rsv[NextRid].state = "none" /\ NextRid # r
  BY <1>6, NextRidFree DEF Live
<1>9. r = m
  BY <1>1, <1>7, <1>8 DEF Live, TypeOK
<1>10. /\ S \in SUBSET Nodes /\ Cardinality(S) = Cardinality(rsv[m].nodes)
       /\ \A q \in Rids \ {m} : Live(q) /\ Overlaps(rsv[q], rsv[m].begin, rsv[m].end)
                                => S \cap rsv[q].nodes = {}
  <2> DEFINE u == rsv[m].user
             b == rsv[m].begin
             e == rsv[m].end
             num == Cardinality(rsv[m].nodes)
             none == {}
             not == {m}
  <2>1. S \in TryReservation(u, b, e, num, none, not)
    BY <1>7
  <2>2. none = {}
    OBVIOUS
  <2> HIDE DEF u, b, e, num, none, not
  <2>3. /\ S \in SUBSET Nodes /\ Cardinality(S) = num
        /\ \A q \in Rids \ not : Live(q) /\ Overlaps(rsv[q], b, e) => S \cap rsv[q].nodes = {}
    BY <1>1, <2>1, <2>2, TryFindsFree
  <2> QED
    BY <2>3 DEF b, e, num, not
<1>11. rsv'[NextRid] = Moved(m, S)
  BY <1>1, <1>7, <1>8 DEF TypeOK
<1>12. /\ Moved(m, S).state = "used" /\ Moved(m, S).user = rsv[m].user
       /\ Moved(m, S).begin = rsv[m].begin /\ Moved(m, S).end = rsv[m].end
       /\ Moved(m, S).nodes = S
  BY <1>1, <1>10, MovedForm
<1> QED
  BY <1>8, <1>9, <1>10, <1>11, <1>12

\* Taking a node out for repair or testing costs no user a reservation: every one that
\* the loop of handle_special_state cancels is replaced in the same step by one of the
\* same user, time and size on nodes that nobody has, unless a statement failed.
THEOREM RemapKeepsCorrect == Spec => RemapKeepsReservations
<1>1. ResInv /\ [Next]_vars => [\A c \in Clients, r \in Rids : RemapKept(c, r)]_vars
  BY RemapKeepsStep
<1> QED
  BY <1>1, ResInit, ResNext, PTL DEF Spec, RemapKeepsReservations

-----------------------------------------------------------------------------
(* The search misses no time.                                               *)

\* No multiple of k lies strictly between 0 and k.
LEMMA NoMultipleBetween ==
  ASSUME NEW k \in Nat \ {0}, NEW z \in Int, 0 <= k * z, k * z < k
  PROVE  z = 0
<1>1. CASE z >= 1
  <2>1. k * z >= k
    BY <1>1
  <2> QED
    BY <2>1
<1>2. CASE z <= -1
  <2>1. k * z <= -k
    BY <1>2
  <2> QED
    BY <2>1
<1> QED
  BY <1>1, <1>2

\* What is a whole number of slots away stays so one slot earlier.
LEMMA ModStep ==
  ASSUME NEW k \in Nat \ {0}, NEW a \in Int, a % k = 0
  PROVE  (a - k) % k = 0 /\ (a > 0 => a >= k)
<1>1. PICK q \in Int : a = k * q
  OBVIOUS
<1>2. PICK p \in Int, r \in Int : a - k = k * p + r /\ 0 <= r /\ r < k /\ (a - k) % k = r
  OBVIOUS
<1>3. r = k * (q - 1 - p)
  BY <1>1, <1>2
<1>4. q - 1 - p = 0
  BY <1>2, <1>3, NoMultipleBetween
<1>5. a > 0 => a >= k
  <2>1. a > 0 => q >= 1
    BY <1>1
  <2> QED
    BY <2>1, <1>1
<1> QED
  BY <1>2, <1>3, <1>4, <1>5

TimeRange == [b1 : Int, b2 : Int]

LiveSpans == SpansOf({r \in Rids : Live(r)})

\* A begin time that is not tried is no better than the one a slot earlier: no reservation
\* ends between the two, so the earlier one meets no reservation the later one does not.
LEMMA SlotEarlier ==
  ASSUME TypeOK, NEW tr \in TimeRange, NEW len \in Nat \ {0}, NEW u, NEW num,
         NEW t \in Starts(tr), t \notin Tried(tr, len, LiveSpans)
  PROVE  /\ t - Slot \in Starts(tr)
         /\ TryReservation(u, t, t + len, num, {}, {})
              \subseteq TryReservation(u, t - Slot, t - Slot + len, num, {}, {})
<1> DEFINE s == t - Slot
<1>1. tr.b1 \in Int /\ tr.b2 \in Int /\ Slot \in Nat \ {0}
  BY SlotAssumption DEF TimeRange
<1>2. t \in Int /\ tr.b1 <= t /\ t <= tr.b2 /\ (t - tr.b1) % Slot = 0
  BY <1>1 DEF Starts
<1>3. t # tr.b1
  BY DEF Tried
<1>4. (t - tr.b1 - Slot) % Slot = 0 /\ t - tr.b1 >= Slot
  <2> DEFINE a == t - tr.b1
  <2>1. a \in Int /\ a % Slot = 0 /\ a > 0
    BY <1>1, <1>2, <1>3
  <2> HIDE DEF a
  <2>2. (a - Slot) % Slot = 0 /\ a >= Slot
    BY <1>1, <2>1, ModStep
  <2> QED
    BY <2>2 DEF a
<1>5. s \in Int /\ tr.b1 <= s /\ s < t /\ s + len < t + len
  BY <1>1, <1>2, <1>4
<1>6. s \in Starts(tr)
  <2>1. s - tr.b1 = t - tr.b1 - Slot
    BY <1>1, <1>2
  <2> QED
    BY <1>1, <1>2, <1>4, <1>5, <2>1 DEF Starts
<1>7. ASSUME NEW r \in Rids, Live(r), Overlaps(rsv[r], s, s + len)
      PROVE  Overlaps(rsv[r], t, t + len)
  <2>1. rsv[r] \in Row /\ rsv[r].begin \in Int /\ rsv[r].end \in Int
    BY DEF TypeOK, Row
  <2>2. rsv[r].begin < s + len /\ rsv[r].end > s
    BY <1>7 DEF Overlaps
  <2>3. rsv[r].begin < t + len
    BY <1>2, <1>5, <2>1, <2>2
  <2>4. CASE rsv[r].end <= t
    <3>1. Overlaps(rsv[r], tr.b1, tr.b2 + len)
      BY <1>1, <1>2, <1>5, <2>1, <2>2 DEF Overlaps
    <3>2. <<r, rsv[r]>> \in LiveSpans /\ <<r, rsv[r]>>[2] = rsv[r]
      BY <1>7 DEF LiveSpans, SpansOf
    <3>3. rsv[r].end > tr.b1 /\ rsv[r].end < tr.b2 + len
      BY <1>1, <1>2, <1>5, <2>1, <2>2, <2>4
    <3> DEFINE hits == {p[2] : p \in {q \in LiveSpans : Overlaps(q[2], tr.b1, tr.b2 + len)}}
    <3>4. rsv[r] \in hits
      BY <3>1, <3>2
    <3> HIDE DEF hits
    <3>5. rsv[r].end \in {x.begin : x \in hits} \cup {x.end : x \in hits}
      BY <3>4
    <3>6. rsv[r].end \in TimesOfInterest(tr, len, LiveSpans)
      BY <3>3, <3>5 DEF TimesOfInterest, hits
    <3>7. rsv[r].end <= t /\ rsv[r].end > t - Slot
      BY <2>2, <2>4
    <3>8. t \in Tried(tr, len, LiveSpans)
      BY <3>6, <3>7 DEF Tried
    <3> QED
      BY <3>8
  <2> QED
    BY <1>2, <2>1, <2>3, <2>4 DEF Overlaps
<1>8. LiveIn(s, s + len, {}) \subseteq LiveIn(t, t + len, {})
  BY <1>7 DEF LiveIn
<1>9. BaseNodes(t, t + len, {}) \subseteq BaseNodes(s, s + len, {})
  BY <1>8 DEF BaseNodes, Reserved
<1>10. \A b, e : TryReservation(u, b, e, num, {}, {}) =
                   {S \in SUBSET BaseNodes(b, e, {}) : Cardinality(S) = num}
  BY DEF TryReservation, Candidates
<1> QED
  BY <1>6, <1>9, <1>10

\* When the request fits at no time that is tried, it fits at no time of the range.
LEMMA TriedEnough ==
  ASSUME TypeOK, NEW tr \in TimeRange, NEW len \in Nat \ {0}, NEW u, NEW num,
         Fit(u, tr, len, num, {}) = {}, NEW t \in Starts(tr)
  PROVE  TryReservation(u, t, t + len, num, {}, {}) = {}
<1> DEFINE fits == {x \in Starts(tr) : TryReservation(u, x, x + len, num, {}, {}) # {}}
           from == {n \in Nat : tr.b1 + n \in fits}
<1>1. tr.b1 \in Int /\ tr.b2 \in Int /\ Slot \in Nat \ {0}
  BY SlotAssumption DEF TimeRange
<1>2. \A x \in Starts(tr) : x \in Int /\ tr.b1 <= x
  BY <1>1 DEF Starts
<1>3. SUFFICES ASSUME from # {} PROVE FALSE
  <2>1. SUFFICES ASSUME t \in fits PROVE FALSE
    OBVIOUS
  <2>2. t - tr.b1 \in Nat /\ tr.b1 + (t - tr.b1) = t
    BY <1>1, <1>2
  <2> QED
    BY <1>3, <2>1, <2>2
<1>4. Min(from) \in from /\ \A n \in from : Min(from) <= n
  BY <1>3, LeastElement
<1> DEFINE x == tr.b1 + Min(from)
<1>5. x \in fits /\ Min(from) \in Nat
  BY <1>4
<1>6. CASE x \in Tried(tr, len, LiveSpans)
  BY <1>5, <1>6 DEF Fit, LiveSpans
<1>7. CASE x \notin Tried(tr, len, LiveSpans)
  <2> HIDE DEF x
  <2>1. x \in Starts(tr)
    BY <1>5
  <2>2. /\ x - Slot \in Starts(tr)
        /\ TryReservation(u, x, x + len, num, {}, {})
             \subseteq TryReservation(u, x - Slot, x - Slot + len, num, {}, {})
    BY <1>7, <2>1, SlotEarlier
  <2>3. x - Slot \in fits
    BY <1>5, <2>2
  <2>4. Min(from) - Slot \in Nat /\ tr.b1 + (Min(from) - Slot) = x - Slot
    BY <1>1, <1>2, <1>5, <2>2 DEF x
  <2>5. Min(from) - Slot \in from
    BY <2>3, <2>4
  <2> DEFINE m == Min(from)
  <2>6. m \in Nat /\ m - Slot \in Nat /\ m <= m - Slot
    BY <1>4, <2>4, <2>5
  <2> HIDE DEF m
  <2> QED
    BY <1>1, <2>6
<1> QED
  BY <1>6, <1>7

\* The ranges that the usage limits and the user's own reservations leave are ranges of
\* times.  They are the result of two loops, which the provers cannot unfold.
RangesAreTimes ==
  \A u \in Users, b1, b2 \in Begins, l \in Lens, num \in Nums :
    LET times == RangesFor(u, b1, b2, RoundLen(l), num)
    IN \A i \in 1..Len(times) : times[i] \in TimeRange

\* The search that no range ends has looked at every range.
LEMMA NoneDecides ==
  ASSUME NEW times, NEW u, NEW len, NEW num,
         Deciding(times, u, len, num, {}) = {}
  PROVE  \A i \in 1..Len(times) : ~Ends(u, times[i], len, num, {})
<1> DEFINE bad == {i \in 1..Len(times) : Ends(u, times[i], len, num, {})}
<1>1. SUFFICES ASSUME bad # {} PROVE FALSE
  OBVIOUS
<1>2. Min(bad) \in bad /\ \A i \in bad : Min(bad) <= i
  <2>1. bad \in SUBSET Nat
    OBVIOUS
  <2> HIDE DEF bad
  <2> QED
    BY <1>1, <2>1, LeastElement
<1>3. Min(bad) \in 1..Len(times)
  BY <1>2
<1>4. \A j \in 1..(Min(bad) - 1) : ~Ends(u, times[j], len, num, {})
  <2>1. ASSUME NEW j \in 1..(Min(bad) - 1), Ends(u, times[j], len, num, {})
        PROVE  FALSE
    <3>1. j \in 1..Len(times) /\ j < Min(bad)
      BY <1>3
    <3> QED
      BY <1>2, <1>3, <2>1, <3>1
  <2> QED
    BY <2>1
<1>5. Min(bad) \in Deciding(times, u, len, num, {})
  BY <1>2, <1>3, <1>4 DEF Deciding
<1> QED
  BY <1>5

LEMMA SearchStep ==
  ASSUME TypeOK, RangesAreTimes
  PROVE  SearchIsComplete
<1> SUFFICES ASSUME NEW u \in Users, NEW b1 \in Begins, NEW b2 \in Begins, NEW l \in Lens,
                    NEW num \in Nums,
                    Deciding(RangesFor(u, b1, b2, RoundLen(l), num), u, RoundLen(l), num, {}) = {},
                    NEW i \in 1..Len(RangesFor(u, b1, b2, RoundLen(l), num)),
                    NEW t \in Starts(RangesFor(u, b1, b2, RoundLen(l), num)[i])
             PROVE  TryReservation(u, t, t + RoundLen(l), num, {}, {}) = {}
  BY DEF SearchIsComplete
<1> DEFINE len   == RoundLen(l)
           times == RangesFor(u, b1, b2, len, num)
<1>1. len \in Nat \ {0}
  BY RoundLenPositive, TimesAssumption
<1>2. times[i] \in TimeRange
  BY DEF RangesAreTimes
<1>3. ~Ends(u, times[i], len, num, {})
  BY NoneDecides
<1>4. Fit(u, times[i], len, num, {}) = {}
  BY <1>3 DEF Ends
<1> QED
  BY <1>1, <1>2, <1>4, TriedEnough

\* make_reservation answers that the resources are used by others only when no begin time
\* of its ranges would have done, although it tries only those at which a reservation
\* begins or ends within a slot.  The ranges need only be ranges of times.
THEOREM SearchCorrect == Spec => [](RangesAreTimes => SearchIsComplete)
<1>1. ResInv => (RangesAreTimes => SearchIsComplete)
  BY SearchStep DEF ResInv
<1> QED
  BY <1>1, ResInit, ResNext, PTL DEF Spec
=============================================================================
