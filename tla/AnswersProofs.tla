--------------------------- MODULE AnswersProofs ---------------------------
(***************************************************************************)
(* Proofs about the parts that promise an answer (MCLiveness): that the    *)
(* links of a session are answered once and configured last, where the     *)
(* base daemon's answers go, what its file readers and their copies        *)
(* report, and that the NPR gives a packet's buffer back once.  The        *)
(* theorems are about every value of the constants of MCLiveness: any      *)
(* number of links, threads, connections, packets, addresses and bounds.   *)
(***************************************************************************)
EXTENDS MCLiveness, WellFoundedInduction, TLAPS

-----------------------------------------------------------------------------
(***************************************************************************)
(* The links of a crd session (module CrdLinks): no request is answered    *)
(* twice and the switches are configured last, for any number of links,    *)
(* ports and faults.                                                       *)
(***************************************************************************)
LinkObject ==
  [state : {"new", "initializing", "active", "failed", "refreshing"},
   needs_refresh : BOOLEAN, done : 0..2, answers : Nat,
   status : {"incomplete", "fine", "failed"}, alloc_vlan : BOOLEAN, sess : BOOLEAN,
   ports : Nat]

MainType ==
  [commit : SUBSET Owners, start : SUBSET Links,
   started : {"no", "asked", "fine", "failed"}, clear : {"no", "end", "links", "done"},
   left : SUBSET Links]

\* The types of what decides about answers; the vlans and the daemon play no part.
TypeOK ==
  /\ lnk \in [Links -> LinkObject]
  /\ unreported \subseteq Links
  /\ created \in BOOLEAN
  /\ main \in MainType
  /\ init \in [Links -> {"none", "vlan", "ports", "failed", "report", "complete"}]

\* A link whose ends are not both done, or whose thread is running, is unreported and
\* its request is open.
RunningInv ==
  \A l \in Links :
    /\ lnk[l].done < 2 => init[l] = "none"
    /\ lnk[l].done < 2 \/ init[l] # "none" => l \in unreported /\ lnk[l].answers = 0

\* A reported link is answered by the loop of the last reporter only.
ReportedInv ==
  \A l \in Links \ unreported :
    \/ lnk[l].answers = 0
    \/ /\ lnk[l].answers = 1
       /\ main.started \in {"fine", "failed"} /\ l \notin main.start

\* The last reporter's work begins when every link has reported, and once only.
StartInv ==
  /\ main.started # "no" <=> created
  /\ created => unreported = {}
  /\ main.start # {} => main.started \in {"fine", "failed"}
  /\ \A l \in main.start : lnk[l].answers = 0

LinksInv == TypeOK /\ RunningInv /\ ReportedInv /\ StartInv /\ LinkAnsweredOnce
-----------------------------------------------------------------------------
\* What a link's refresh leaves alone.
LEMMA RefreshedFields ==
  ASSUME TypeOK, NEW l \in Links, NEW k \in LinkObject
  PROVE  /\ Refreshed(l, k) \in LinkObject
         /\ [Refreshed(l, k) EXCEPT !.sess = FALSE] \in LinkObject
         /\ Refreshed(l, k).done = k.done /\ Refreshed(l, k).answers = k.answers
  BY DEF Refreshed, LinkObject

\* A refresh changes one link, and neither its ends nor its answers.
LEMMA RefreshEffect ==
  ASSUME TypeOK, NEW l \in Links, NEW k \in LinkObject, refresh(l, k)
  PROVE  \E m \in LinkObject : /\ lnk' = [lnk EXCEPT ![l] = m]
                               /\ m.done = k.done /\ m.answers = k.answers
  <1>1. CASE lnk' = [lnk EXCEPT ![l] = Refreshed(l, k)]
    BY <1>1, RefreshedFields
  <1>2. CASE lnk' = [lnk EXCEPT ![l] = [Refreshed(l, k) EXCEPT !.sess = FALSE]]
    <2>1. \A r \in LinkObject : /\ [r EXCEPT !.sess = FALSE] \in LinkObject
                                /\ [r EXCEPT !.sess = FALSE].done = r.done
                                /\ [r EXCEPT !.sess = FALSE].answers = r.answers
      BY DEF LinkObject
    <2> DEFINE m == [Refreshed(l, k) EXCEPT !.sess = FALSE]
    <2>2. m \in LinkObject /\ m.done = k.done /\ m.answers = k.answers
      BY <2>1, RefreshedFields
    <2> QED
      BY <1>2, <2>2
  <1> QED
    BY <1>1, <1>2 DEF refresh, Link

\* The object of a link whose request is answered.
LEMMA CompletedFields ==
  ASSUME NEW r \in LinkObject, NEW st \in {"fine", "failed"}, NEW to \in {"active", "failed"}
  PROVE  LET k == [r EXCEPT !.answers = @ + 1, !.status = st, !.state = to]
         IN  k \in LinkObject /\ k.done = r.done /\ k.answers = r.answers + 1
  <1>1. r.answers + 1 \in Nat
    BY DEF LinkObject
  <1>2. ASSUME NEW a \in Nat
        PROVE  LET k == [r EXCEPT !.answers = a, !.status = st, !.state = to]
               IN  k \in LinkObject /\ k.done = r.done /\ k.answers = a
    BY DEF LinkObject
  <1> QED
    BY <1>1, <1>2

\* Completing a link answers its request once more and does nothing else that matters
\* here.
LEMMA CompleteEffect ==
  ASSUME TypeOK, NEW l \in Links, NEW st, complete_initialization(l, st)
  PROVE  \E m \in LinkObject : /\ lnk' = [lnk EXCEPT ![l] = m]
                               /\ m.done = lnk[l].done
                               /\ m.answers = lnk[l].answers + 1
  <1> DEFINE ok == st = "fine" /\ lnk[l].status = "fine"
             k == [lnk[l] EXCEPT !.answers = @ + 1,
                                 !.status = IF ok THEN "fine" ELSE "failed",
                                 !.state = IF ok THEN "active" ELSE "failed"]
  <1>1. lnk[l] \in LinkObject
    BY DEF TypeOK
  <1>2. k \in LinkObject /\ k.done = lnk[l].done /\ k.answers = lnk[l].answers + 1
    BY <1>1, CompletedFields
  <1> HIDE DEF k
  <1>3. CASE refresh(l, k)
    BY <1>2, <1>3, RefreshEffect
  <1>4. CASE lnk' = [lnk EXCEPT ![l] = k]
    BY <1>2, <1>4
  <1> QED
    BY <1>3, <1>4 DEF complete_initialization, Link, k

LEMMA LinksInit == Init => LinksInv
  <1> SUFFICES ASSUME Init PROVE LinksInv
    OBVIOUS
  <1>1. \A l \in Links : NewLink(l) \in LinkObject /\ NewLink(l).done = 0 /\ NewLink(l).answers = 0
    BY LinksAssumption DEF NewLink, LinkObject
  <1>2. TypeOK
    BY <1>1 DEF Init, TypeOK, MainType, Owners
  <1> QED
    BY <1>1, <1>2 DEF Init, LinksInv, RunningInv, ReportedInv, StartInv, LinkAnsweredOnce

\* A step that changes one link, and not its ends, its answers or its reports.
LEMMA SameAnswers ==
  ASSUME LinksInv, NEW l \in Links, NEW m \in LinkObject,
         lnk' = [lnk EXCEPT ![l] = m], m.done = lnk[l].done, m.answers = lnk[l].answers,
         UNCHANGED <<unreported, created, init>>,
         main' \in MainType, main'.started = main.started, main'.start = main.start
  PROVE  LinksInv'
  BY DEF LinksInv, TypeOK, RunningInv, ReportedInv, StartInv, LinkAnsweredOnce, MainType

\* A step that leaves the links, their threads and their reports alone.
LEMMA SameLinks ==
  ASSUME LinksInv, UNCHANGED <<lnk, unreported, created, init>>,
         main' \in MainType, main'.started = main.started, main'.start = main.start
  PROVE  LinksInv'
  BY DEF LinksInv, TypeOK, RunningInv, ReportedInv, StartInv, LinkAnsweredOnce, MainType

\* Every step of the session's own threads keeps the invariant.
LEMMA SessionStep ==
  ASSUME LinksInv,
         \/ CommitVlans \/ start_session_vlans \/ CompleteAll
         \/ clear_session_vlans \/ ClearLink \/ ClearSwitch \/ Clear
  PROVE  LinksInv'
  <1> USE DEF LinksInv
  <1>1. CASE CommitVlans
    <2>1. PICK o \in main.commit :
            /\ main' = [main EXCEPT !.commit = @ \ {o}]
            /\ \/ UNCHANGED lnk
               \/ lnk' = [l \in Links |->
                    IF o = Switch /\ l \in OnSwitch /\ held'[o].known
                    THEN [lnk[l] EXCEPT !.alloc_vlan = FALSE] ELSE lnk[l]]
            /\ UNCHANGED <<unreported, created, init>>
      BY <1>1 DEF CommitVlans
    <2>2. main' \in MainType /\ main'.started = main.started /\ main'.start = main.start
      BY <2>1 DEF TypeOK, MainType
    <2>3. \A r \in LinkObject : /\ [r EXCEPT !.alloc_vlan = FALSE] \in LinkObject
                                /\ [r EXCEPT !.alloc_vlan = FALSE].done = r.done
                                /\ [r EXCEPT !.alloc_vlan = FALSE].answers = r.answers
      BY DEF LinkObject
    <2>4. /\ lnk' \in [Links -> LinkObject]
          /\ \A l \in Links : /\ lnk'[l].done = lnk[l].done
                              /\ lnk'[l].answers = lnk[l].answers
      BY <2>1, <2>3 DEF TypeOK
    <2> QED
      BY <2>1, <2>2, <2>4
         DEF TypeOK, RunningInv, ReportedInv, StartInv, LinkAnsweredOnce, MainType
  <1>2. CASE start_session_vlans
    <2>1. PICK st \in {"fine", "failed"} :
            main' = [main EXCEPT !.started = st, !.start = Links]
      BY <1>2 DEF start_session_vlans
    <2>2. main' \in MainType /\ main'.started = st /\ main'.start = Links
      BY <2>1 DEF TypeOK, MainType
    <2>3. UNCHANGED <<lnk, unreported, created, init>> /\ main.started = "asked"
      BY <1>2 DEF start_session_vlans
    <2>4. created /\ \A l \in Links : l \notin unreported /\ lnk[l].answers = 0
      BY <2>3 DEF StartInv, ReportedInv
    <2> QED
      BY <2>2, <2>3, <2>4
         DEF TypeOK, RunningInv, ReportedInv, StartInv, LinkAnsweredOnce
  <1>3. CASE CompleteAll
    <2>1. PICK l \in main.start :
            /\ complete_initialization(l, main.started)
            /\ main' = [main EXCEPT !.start = @ \ {l}]
            /\ UNCHANGED <<unreported, created, init>>
      BY <1>3 DEF CompleteAll
    <2>2. l \in Links /\ lnk[l].answers = 0 /\ main.started \in {"fine", "failed"} /\ created
      BY <2>1 DEF TypeOK, MainType, StartInv
    <2>3. PICK m \in LinkObject : /\ lnk' = [lnk EXCEPT ![l] = m]
                                  /\ m.done = lnk[l].done /\ m.answers = lnk[l].answers + 1
      BY <2>1, <2>2, CompleteEffect
    <2>4. main' \in MainType /\ main'.started = main.started /\ main'.start = main.start \ {l}
      BY <2>1 DEF TypeOK, MainType
    <2>5. main.start \subseteq Links
      BY DEF TypeOK, MainType
    <2>6. unreported = {} /\ \A j \in Links : init[j] = "none" /\ ~(lnk[j].done < 2)
      BY <2>2 DEF StartInv, RunningInv
    <2>7. /\ lnk' \in [Links -> LinkObject] /\ lnk'[l].answers = 1 /\ lnk'[l].done = lnk[l].done
          /\ \A j \in Links \ {l} : lnk'[j] = lnk[j]
      BY <2>2, <2>3 DEF TypeOK
    <2> QED
      BY <2>1, <2>2, <2>4, <2>5, <2>6, <2>7
         DEF TypeOK, RunningInv, ReportedInv, StartInv, LinkAnsweredOnce
  <1>4. CASE clear_session_vlans
    <2>1. main' \in MainType /\ main'.started = main.started /\ main'.start = main.start
      BY <1>4 DEF clear_session_vlans, TypeOK, MainType
    <2> QED
      BY <1>4, <2>1, SameLinks DEF clear_session_vlans
  <1>5. CASE ClearLink
    <2>1. PICK l \in main.left :
            /\ refresh(l, lnk[l])
            /\ main' = [main EXCEPT !.left = @ \ {l}]
            /\ UNCHANGED <<unreported, created, init>>
      BY <1>5 DEF ClearLink
    <2>2. l \in Links /\ lnk[l] \in LinkObject
      BY DEF TypeOK, MainType
    <2>3. main' \in MainType /\ main'.started = main.started /\ main'.start = main.start
      BY <2>1 DEF TypeOK, MainType
    <2>4. PICK m \in LinkObject : /\ lnk' = [lnk EXCEPT ![l] = m]
                                  /\ m.done = lnk[l].done /\ m.answers = lnk[l].answers
      BY <2>1, <2>2, RefreshEffect
    <2> QED
      BY <2>1, <2>2, <2>3, <2>4, SameAnswers
  <1>6. CASE ClearSwitch
    <2>1. main' \in MainType /\ main'.started = main.started /\ main'.start = main.start
      BY <1>6 DEF ClearSwitch, TypeOK, MainType
    <2> QED
      BY <1>6, <2>1, SameLinks DEF ClearSwitch
  <1>7. CASE Clear
    <2>1. main' \in MainType /\ main'.started = main.started /\ main'.start = main.start
      BY <1>7 DEF Clear, TypeOK, MainType
    <2> QED
      BY <1>7, <2>1, SameLinks DEF Clear
  <1> QED
    BY <1>1, <1>2, <1>3, <1>4, <1>5, <1>6, <1>7

\* Every step of a link's threads keeps the invariant.
LEMMA LinkStep ==
  ASSUME LinksInv, NEW l \in Links,
         \/ both_comps_done(l) \/ InitVlan(l) \/ add_port_to_vlan(l)
         \/ InitDone(l) \/ link_vlanports_added(l) \/ CompleteAlone(l)
  PROVE  LinksInv'
  <1> USE DEF LinksInv
  <1>0. lnk[l] \in LinkObject /\ l \in DOMAIN lnk /\ l \in DOMAIN init
    BY DEF TypeOK
  <1>1. CASE both_comps_done(l)
    <2>1. PICK m \in LinkObject :
            /\ lnk' = [lnk EXCEPT ![l] = m] /\ m.done = lnk[l].done + 1
            /\ \/ m.answers = lnk[l].answers
               \/ m.done = 2 /\ m.answers = lnk[l].answers + 1 /\ UNCHANGED init
            /\ \/ UNCHANGED init
               \/ m.done = 2 /\ init' = [init EXCEPT ![l] = "vlan"]
      <3> DEFINE k == [lnk[l] EXCEPT !.done = @ + 1]
      <3>1. k \in LinkObject /\ k.done = lnk[l].done + 1 /\ k.answers = lnk[l].answers
        BY <1>0, <1>1 DEF both_comps_done, LinkObject
      <3> HIDE DEF k
      <3>2. CASE lnk' = [lnk EXCEPT ![l] = k] /\ UNCHANGED init
        BY <3>1, <3>2
      <3>3. CASE /\ lnk' = [lnk EXCEPT ![l] = [k EXCEPT !.state = "initializing"]]
                 /\ init' = [init EXCEPT ![l] = "vlan"] /\ ~(k.done < 2)
        <4> DEFINE m == [k EXCEPT !.state = "initializing"]
        <4>1. m \in LinkObject /\ m.done = k.done /\ m.answers = k.answers /\ k.done = 2
          BY <3>1, <3>3 DEF LinkObject
        <4> QED
          BY <3>1, <3>3, <4>1
      <3>4. CASE /\ lnk' = [lnk EXCEPT ![l] = [k EXCEPT !.state = "failed", !.answers = @ + 1]]
                 /\ UNCHANGED init /\ ~(k.done < 2)
        <4> DEFINE m == [k EXCEPT !.state = "failed", !.answers = @ + 1]
        <4>1. k.answers + 1 \in Nat /\ k.done = 2
          BY <3>1, <3>4 DEF LinkObject
        <4>2. \A a \in Nat : /\ [k EXCEPT !.state = "failed", !.answers = a] \in LinkObject
                             /\ [k EXCEPT !.state = "failed", !.answers = a].done = k.done
                             /\ [k EXCEPT !.state = "failed", !.answers = a].answers = a
          BY <3>1 DEF LinkObject
        <4>3. m \in LinkObject /\ m.done = k.done /\ m.answers = k.answers + 1
          BY <4>1, <4>2
        <4> QED
          BY <3>1, <3>4, <4>1, <4>3
      <3> QED
        BY <1>1, <3>2, <3>3, <3>4 DEF both_comps_done, Link, k
    <2>2. UNCHANGED <<unreported, created, main>> /\ lnk[l].done < 2
      BY <1>1 DEF both_comps_done
    <2>3. l \in unreported /\ lnk[l].answers = 0 /\ init[l] = "none"
      BY <2>2 DEF RunningInv
    <2> QED
      BY <1>0, <2>1, <2>2, <2>3
         DEF TypeOK, RunningInv, ReportedInv, StartInv, LinkAnsweredOnce, LinkObject
  <1>2. CASE InitVlan(l)
    <2>1. /\ init[l] = "vlan" /\ init' \in {[init EXCEPT ![l] = "ports"],
                                           [init EXCEPT ![l] = "failed"]}
          /\ UNCHANGED <<lnk, unreported, created, main>>
      BY <1>2 DEF InitVlan
    <2> QED
      BY <2>1 DEF TypeOK, RunningInv, ReportedInv, StartInv, LinkAnsweredOnce
  <1>3. CASE add_port_to_vlan(l)
    <2>1. PICK p \in Nat : lnk' = [lnk EXCEPT ![l] = [lnk[l] EXCEPT !.ports = p]]
      <3>1. lnk[l].ports - 1 \in Nat
        BY <1>0, <1>3 DEF add_port_to_vlan, LinkObject
      <3> QED
        BY <1>3, <3>1 DEF add_port_to_vlan, Link
    <2>2. /\ [lnk[l] EXCEPT !.ports = p] \in LinkObject
          /\ [lnk[l] EXCEPT !.ports = p].done = lnk[l].done
          /\ [lnk[l] EXCEPT !.ports = p].answers = lnk[l].answers
      BY <1>0 DEF LinkObject
    <2>3. /\ init[l] = "ports" /\ init' \in {[init EXCEPT ![l] = "ports"],
                                            [init EXCEPT ![l] = "failed"]}
          /\ UNCHANGED <<unreported, created, main>>
      BY <1>3 DEF add_port_to_vlan
    <2> QED
      BY <2>1, <2>2, <2>3 DEF TypeOK, RunningInv, ReportedInv, StartInv, LinkAnsweredOnce
  <1>4. CASE InitDone(l)
    <2>1. PICK st \in {"fine", "failed"} :
            lnk' = [lnk EXCEPT ![l] = [lnk[l] EXCEPT !.status = st]]
      BY <1>4 DEF InitDone, Link
    <2>2. /\ [lnk[l] EXCEPT !.status = st] \in LinkObject
          /\ [lnk[l] EXCEPT !.status = st].done = lnk[l].done
          /\ [lnk[l] EXCEPT !.status = st].answers = lnk[l].answers
      BY <1>0 DEF LinkObject
    <2>3. /\ init[l] # "none" /\ init' \in {[init EXCEPT ![l] = "complete"],
                                           [init EXCEPT ![l] = "report"]}
          /\ UNCHANGED <<unreported, created, main>>
      BY <1>4 DEF InitDone
    <2> QED
      BY <2>1, <2>2, <2>3 DEF TypeOK, RunningInv, ReportedInv, StartInv, LinkAnsweredOnce
  <1>5. CASE link_vlanports_added(l)
    <2> DEFINE final == Remaining(l) = {} /\ ~created
    <2>1. /\ init[l] = "report" /\ init' = [init EXCEPT ![l] = "none"]
          /\ unreported' = unreported \ {l} /\ UNCHANGED lnk
          /\ created' = (created \/ final)
          /\ main' = IF final THEN [main EXCEPT !.started = "asked"] ELSE main
      BY <1>5 DEF link_vlanports_added, Remaining
    <2>2. l \in unreported /\ lnk[l].answers = 0 /\ ~(lnk[l].done < 2) /\ ~created
      BY <2>1 DEF RunningInv, StartInv
    <2>3. CASE final
      <3>1. main' \in MainType /\ main'.started = "asked" /\ main'.start = main.start
        BY <2>1, <2>3 DEF TypeOK, MainType
      <3>2. created' /\ unreported' = {} /\ main.start = {}
        BY <2>1, <2>2, <2>3 DEF StartInv, Remaining
      <3> QED
        BY <2>1, <2>2, <3>1, <3>2
           DEF TypeOK, RunningInv, ReportedInv, StartInv, LinkAnsweredOnce
    <2>4. CASE ~final
      <3>1. main' = main /\ created' = created
        BY <2>1, <2>2, <2>4 DEF TypeOK
      <3> QED
        BY <2>1, <2>2, <3>1 DEF TypeOK, RunningInv, ReportedInv, StartInv, LinkAnsweredOnce
    <2> QED
      BY <2>3, <2>4
  <1>6. CASE CompleteAlone(l)
    <2>1. /\ init[l] = "complete" /\ init' = [init EXCEPT ![l] = "none"]
          /\ complete_initialization(l, lnk[l].status)
          /\ UNCHANGED <<unreported, created, main>>
      BY <1>6 DEF CompleteAlone, Then
    <2>2. PICK m \in LinkObject : /\ lnk' = [lnk EXCEPT ![l] = m]
                                  /\ m.done = lnk[l].done /\ m.answers = lnk[l].answers + 1
      BY <2>1, CompleteEffect
    <2>3. l \in unreported /\ lnk[l].answers = 0 /\ ~(lnk[l].done < 2) /\ l \notin main.start
      BY <2>1 DEF RunningInv, StartInv, TypeOK
    <2> QED
      BY <2>1, <2>2, <2>3 DEF TypeOK, RunningInv, ReportedInv, StartInv, LinkAnsweredOnce
  <1> QED
    BY <1>1, <1>2, <1>3, <1>4, <1>5, <1>6

\* The deletion of a vlan takes its link out of the session.
LEMMA DeleteStep == ASSUME LinksInv, NEW o \in Owners, DeleteVlan(o) PROVE LinksInv'
  <1>1. UNCHANGED <<unreported, created, main, init>>
    BY DEF DeleteVlan
  <1>2. CASE o \in Links
    <2>1. lnk' = [lnk EXCEPT ![o] = [lnk[o] EXCEPT !.sess = FALSE]]
      BY <1>2 DEF DeleteVlan
    <2>2. /\ [lnk[o] EXCEPT !.sess = FALSE] \in LinkObject
          /\ [lnk[o] EXCEPT !.sess = FALSE].done = lnk[o].done
          /\ [lnk[o] EXCEPT !.sess = FALSE].answers = lnk[o].answers
      BY <1>2 DEF LinksInv, TypeOK, LinkObject
    <2> QED
      BY <1>1, <1>2, <2>1, <2>2, SameAnswers DEF LinksInv, TypeOK
  <1>3. CASE o \notin Links
    BY <1>1, <1>3, SameLinks DEF DeleteVlan, LinksInv, TypeOK
  <1> QED
    BY <1>2, <1>3

LEMMA LinksInvariant == Spec => []LinksInv
  <1>1. LinksInv /\ [Next]_vars => LinksInv'
    <2> SUFFICES ASSUME LinksInv, [Next]_vars PROVE LinksInv'
      OBVIOUS
    <2>1. CASE Step
      BY <2>1, SessionStep, LinkStep, DeleteStep DEF Step
    <2>2. CASE Clear
      BY <2>2, SessionStep
    <2>3. CASE UNCHANGED vars
      BY <2>3, SameLinks DEF vars, LinksInv, TypeOK
    <2> QED
      BY <2>1, <2>2, <2>3 DEF Next
  <1> QED
    BY <1>1, LinksInit, PTL DEF Spec

\* The request for a link is answered at most once: by the last link to report, by the
\* link itself when its session was closed, or when its thread could not be made
\* (crd_link::complete_initialization, cleanup_reqs).
THEOREM LinkAnsweredOnceCorrect == Spec => []LinkAnsweredOnce
  <1>1. LinksInv => LinkAnsweredOnce
    BY DEF LinksInv
  <1> QED
    BY <1>1, LinksInvariant, PTL

\* When start_session is sent no link's thread has a port left to add
\* (session::link_vlanports_added).
THEOREM StartsLastCorrect == Spec => []StartsLast
  <1>1. LinksInv => StartsLast
    BY DEF LinksInv, TypeOK, StartInv, RunningInv, StartsLast
  <1> QED
    BY <1>1, LinksInvariant, PTL

-----------------------------------------------------------------------------
(* The base daemon                                                          *)

Places == {"idle", "handle", "connect", "reboot", "swapped", "wait", "answer"}
Statuses == {"none", "Fine", "Failed", "TimeoutRemote"}

Request == [op : Ba!Ops \cup {"none"}, pc : Places, periodic : BOOLEAN, stop : BOOLEAN,
            nccpconn : Conns \cup {"null", "rli"}, rend : {"none", "orig", "fresh"},
            try : Nat, was : BOOLEAN, got : Statuses, open : BOOLEAN,
            from : Nat, pos : Nat, out : Seq(Nat \X Nat)]

Reply == [status : Statuses, to : {"rli"}, rend : {"orig"}, periodic : BOOLEAN]

(* A request object points at the specialisation daemon only while its      *)
(* relay waits for that daemon.                                             *)
PointsBack(r) == r.pc \in {"idle", "wait"} \/ (r.nccpconn = "rli" /\ r.rend = "orig")

(* Nothing is reported before the file is open; then the reported lines    *)
(* follow each other from where the file was opened to where the next line *)
(* starts.                                                                 *)
Reported(r) ==
  /\ ~r.open => r.out = <<>>
  /\ r.op = "user_data_ts" =>
       /\ \A i \in 1..Len(r.out) :
            r.out[i][1] = (IF i = 1 THEN r.from ELSE r.out[i - 1][2]) + 1
       /\ r.pos = IF r.out = <<>> THEN r.from ELSE r.out[Len(r.out)][2]

Sound(r) == r \in Request /\ PointsBack(r) /\ Reported(r) /\ r.pos <= Len(file)

BaseInv ==
  /\ file \in Seq(BOOLEAN)
  /\ spec_conn \in Conns \cup {"null"}
  /\ thr \in [Threads -> Request]
  /\ \A t \in Threads : Sound(thr[t])
  /\ last \in [Threads -> Reply]

LEMMA LeastOf ==
  ASSUME NEW S \in SUBSET Nat, S # {}
  PROVE  \E x \in S : \A y \in S : x <= y
<1>1. PICK x \in S : \A y \in S : ~(<<y, x>> \in OpToRel(<, Nat))
  BY NatLessThanWellFounded, WFMin
<1>2. ASSUME NEW y \in S
      PROVE  x <= y
  <2>1. <<y, x>> \in Nat \X Nat /\ <<y, x>>[1] = y /\ <<y, x>>[2] = x
    OBVIOUS
  <2>2. ~(y < x)
    BY <1>1, <2>1 DEF OpToRel
  <2> QED
    BY <2>2
<1> QED
  BY <1>2

(* A line of the file ends behind its start and within the file. *)
LEMMA LineEndInFile ==
  ASSUME file \in Seq(BOOLEAN), NEW p \in Nat, p < Len(file)
  PROVE  Ba!LineEnd(p) \in (p + 1)..Len(file)
<1> DEFINE S == {e \in (p + 1)..Len(file) : file[e] \/ e = Len(file)}
<1>1. S \in SUBSET Nat /\ Len(file) \in S
  OBVIOUS
<1>2. PICK e \in S : \A y \in S : e <= y
  BY <1>1, LeastOf
<1>3. \A i \in (p + 1)..(e - 1) : i \in (p + 1)..Len(file) /\ ~(e <= i)
  BY <1>1, <1>2
<1>4. \A i \in (p + 1)..(e - 1) : ~file[i]
  BY <1>2, <1>3
<1> QED
  BY <1>2, <1>4 DEF Ba!LineEnd

(* A change of the fields that have nothing to do with files. *)
LEMMA SoundKept ==
  ASSUME NEW r, Sound(r), NEW q \in Request, PointsBack(q),
         q.op = r.op, q.open = r.open, q.out = r.out, q.from = r.from, q.pos = r.pos
  PROVE  Sound(q)
BY DEF Sound, Reported

LEMMA IdleSound ==
  ASSUME file \in Seq(BOOLEAN)
  PROVE  Ba!Idle \in Request /\ Sound(Ba!Idle)
<1>0. <<>> \in Seq(Nat \X Nat)
  OBVIOUS
<1>1. Ba!Idle \in Request
  BY <1>0 DEF Ba!Idle, Request, Places, Statuses, Ba!Null
<1> QED
  BY <1>1 DEF Ba!Idle, Sound, PointsBack, Reported

(* One request thread changes; what it is and what it answered are sound. *)
LEMMA OneChanges ==
  ASSUME BaseInv, NEW t \in Threads, NEW q, Sound(q),
         thr' = [thr EXCEPT ![t] = q], file' = file,
         spec_conn' \in Conns \cup {"null"},
         \/ last' = last
         \/ \E a \in Reply : last' = [last EXCEPT ![t] = a]
  PROVE  BaseInv'
<1>1. q \in Request /\ thr' \in [Threads -> Request]
  BY DEF BaseInv, Sound
<1>2. \A u \in Threads : thr'[u] = IF u = t THEN q ELSE thr[u]
  BY DEF BaseInv
<1>3. \A u \in Threads : Sound(thr[u])'
  BY <1>2 DEF BaseInv, Sound, PointsBack, Reported
<1> QED
  BY <1>1, <1>3 DEF BaseInv

(* The end of a handling keeps the request or deletes it. *)
LEMMA DoneSound ==
  ASSUME BaseInv, NEW t \in Threads, NEW r, Sound(r),
         r.pc \notin {"idle", "wait"}, Ba!Done(t, r)
  PROVE  \E q : Sound(q) /\ thr' = [thr EXCEPT ![t] = q]
<1> DEFINE h == [r EXCEPT !.pc = "handle"]
<1>1. r \in Request
  BY DEF Sound
<1>2. h \in Request
  BY <1>1 DEF Request, Places
<1>5. h.nccpconn = r.nccpconn /\ h.rend = r.rend
  BY <1>1 DEF Request
<1>3. Sound(h)
  <2>1. PointsBack(h)
    BY <1>5 DEF Sound, PointsBack
  <2>2. h.op = r.op /\ h.open = r.open /\ h.out = r.out /\ h.from = r.from /\ h.pos = r.pos
    BY <1>1 DEF Request
  <2> QED
    BY <1>2, <2>1, <2>2, SoundKept
<1>4. Sound(Ba!Idle)
  BY IdleSound DEF BaseInv
<1> QED
  BY <1>3, <1>4 DEF Ba!Done

(* The answer of a thread that is not waiting for the daemon goes to the    *)
(* requester.                                                               *)
LEMMA AnswerSound ==
  ASSUME BaseInv, NEW t \in Threads, thr[t].pc \notin {"idle", "wait"},
         NEW s \in Statuses, Ba!Answer(t, s)
  PROVE  \E a \in Reply : last' = [last EXCEPT ![t] = a]
BY DEF BaseInv, Sound, PointsBack, Request, Reply, Ba!Answer

(* A thread that goes on in its handler, or is told to stop. *)
LEMMA GoesOnSound ==
  ASSUME BaseInv, NEW t \in Threads
  PROVE  /\ thr[t].pc \notin {"idle", "wait"} =>
              /\ \A pc \in Places \ {"idle", "wait"} : Sound([thr[t] EXCEPT !.pc = pc])
              /\ Sound([thr[t] EXCEPT !.try = @ + 1])
         /\ \A b \in BOOLEAN : /\ Sound([thr[t] EXCEPT !.stop = b])
                               /\ [thr[t] EXCEPT !.stop = b].pc = thr[t].pc
<1> DEFINE r == thr[t]
<1>1. r \in Request /\ Sound(r)
  BY DEF BaseInv
<1>2. ASSUME r.pc \notin {"idle", "wait"}, NEW pc \in Places \ {"idle", "wait"}
      PROVE  Sound([r EXCEPT !.pc = pc])
  <2> DEFINE q == [r EXCEPT !.pc = pc]
  <2>1. q \in Request
    BY <1>1, <1>2 DEF Request
  <2>2. PointsBack(q)
    BY <1>1, <1>2 DEF Request, Sound, PointsBack
  <2>3. q.op = r.op /\ q.open = r.open /\ q.out = r.out /\ q.from = r.from /\ q.pos = r.pos
    BY <1>1 DEF Request
  <2> QED
    BY <1>1, <2>1, <2>2, <2>3, SoundKept
<1>3. ASSUME r.pc \notin {"idle", "wait"}
      PROVE  Sound([r EXCEPT !.try = @ + 1])
  <2> DEFINE n == r.try + 1
             q == [r EXCEPT !.try = n]
  <2>0. n \in Nat
    BY <1>1 DEF Request
  <2> HIDE DEF n
  <2>1. q \in Request
    BY <1>1, <2>0 DEF Request
  <2>2. PointsBack(q)
    BY <1>1, <1>3 DEF Request, Sound, PointsBack
  <2>3. q.op = r.op /\ q.open = r.open /\ q.out = r.out /\ q.from = r.from /\ q.pos = r.pos
    BY <1>1 DEF Request
  <2>4. Sound(q)
    BY <1>1, <2>1, <2>2, <2>3, SoundKept
  <2> QED
    BY <2>4 DEF n
<1>4. ASSUME NEW b \in BOOLEAN
      PROVE  Sound([r EXCEPT !.stop = b]) /\ [r EXCEPT !.stop = b].pc = r.pc
  <2> DEFINE q == [r EXCEPT !.stop = b]
  <2>1. q \in Request
    BY <1>1 DEF Request
  <2>2. PointsBack(q) /\ q.pc = r.pc
    BY <1>1 DEF Request, Sound, PointsBack
  <2>3. q.op = r.op /\ q.open = r.open /\ q.out = r.out /\ q.from = r.from /\ q.pos = r.pos
    BY <1>1 DEF Request
  <2> QED
    BY <1>1, <2>1, <2>2, <2>3, SoundKept
<1> QED
  BY <1>2, <1>3, <1>4

(* Receipt of a request. *)
LEMMA RequestSound ==
  ASSUME BaseInv, NEW t \in Threads, Ba!Request(t)
  PROVE  BaseInv'
<1>1. PICK op \in Ba!Ops, per \in BOOLEAN : Ba!Receive(t, op, per)
  BY DEF Ba!Request
<1> DEFINE q == [Ba!Idle EXCEPT !.op = op, !.pc = "handle", !.periodic = per,
                                !.nccpconn = Ba!Rli, !.rend = "orig"]
<1>2. Ba!Idle \in Request /\ Sound(Ba!Idle)
  BY IdleSound DEF BaseInv
<1>3. q \in Request
  BY <1>2 DEF Request, Places, Ba!Rli
<1>4. PointsBack(q)
  BY DEF PointsBack, Ba!Idle, Ba!Rli
<1>5. q.out = <<>> /\ q.from = 0 /\ q.pos = 0
  BY DEF Ba!Idle
<1>6. Sound(q)
  BY <1>3, <1>4, <1>5 DEF Sound, Reported, BaseInv
<1>7. Ba!NoAnswer \in Reply
  BY DEF Ba!NoAnswer, Reply, Statuses, Ba!Rli
<1> QED
  BY <1>1, <1>6, <1>7, OneChanges DEF Ba!Receive, BaseInv

LEMMA Appended ==
  ASSUME NEW S, NEW s \in Seq(S), NEW x \in S
  PROVE  /\ Append(s, x) \in Seq(S) /\ Len(Append(s, x)) = Len(s) + 1
         /\ Append(s, x)[Len(s) + 1] = x
         /\ \A i \in 1..Len(s) : Append(s, x)[i] = s[i]
         /\ Append(s, x) # <<>>
OBVIOUS

(* The line that a time series reads next. *)
LEMMA NextLine ==
  ASSUME BaseInv, NEW t \in Threads, thr[t].op = "user_data_ts", thr[t].open,
         thr[t].pc = "handle", thr[t].pos # Len(file),
         NEW e, e = Ba!LineEnd(thr[t].pos)
  PROVE  Sound([thr[t] EXCEPT !.pos = e, !.out = Append(@, <<thr[t].pos + 1, e>>)])
<1> DEFINE r == thr[t]
           x == <<r.pos + 1, e>>
           o == Append(r.out, x)
           n == Len(r.out)
           q == [r EXCEPT !.pos = e, !.out = o]
<1>1. r \in Request /\ Sound(r)
  BY DEF BaseInv
<1>0. r.op = "user_data_ts"
  OBVIOUS
<1>2. r.pos \in Nat /\ r.pos < Len(file) /\ file \in Seq(BOOLEAN) /\ r.out \in Seq(Nat \X Nat)
  BY <1>1 DEF Request, Sound, BaseInv
<1>3. e \in (r.pos + 1)..Len(file)
  BY <1>2, LineEndInFile
<1>4. x \in Nat \X Nat /\ x[1] = r.pos + 1 /\ x[2] = e
  BY <1>2, <1>3
<1>5. /\ o \in Seq(Nat \X Nat) /\ Len(o) = n + 1 /\ n \in Nat
      /\ o[n + 1] = x
      /\ \A i \in 1..n : o[i] = r.out[i]
      /\ o # <<>>
  <2> DEFINE S == Nat \X Nat
             s == r.out
  <2>1. s \in Seq(S) /\ x \in S
    BY <1>2, <1>4
  <2> HIDE DEF x, S, s
  <2>2. /\ Append(s, x) \in Seq(S) /\ Len(Append(s, x)) = Len(s) + 1
        /\ Append(s, x)[Len(s) + 1] = x
        /\ \A i \in 1..Len(s) : Append(s, x)[i] = s[i]
        /\ Append(s, x) # <<>>
        /\ Len(s) \in Nat
    BY <2>1, Appended
  <2> QED
    BY <2>2 DEF s, S
<1>6. e \in Nat /\ e <= Len(file)
  BY <1>2, <1>3
<1>7. /\ q \in Request
      /\ q.op = r.op /\ q.open = r.open /\ q.from = r.from /\ q.pc = r.pc
      /\ q.nccpconn = r.nccpconn /\ q.rend = r.rend
      /\ q.pos = e /\ q.out = o
  BY <1>1, <1>5, <1>6 DEF Request
<1>8. PointsBack(q)
  BY <1>1, <1>7 DEF Sound, PointsBack
<1>14. (r.out = <<>>) <=> (n = 0)
  BY <1>2
<1> HIDE DEF o, q, r, x, n
<1>9. ASSUME NEW i \in 1..Len(o)
      PROVE  o[i][1] = (IF i = 1 THEN r.from ELSE o[i - 1][2]) + 1
  <2>0. i \in 1..(n + 1) /\ n \in Nat
    BY <1>5, <1>9
  <2>1. CASE i = n + 1 /\ n = 0
    <3>1. r.pos = r.from
      BY <1>0, <1>1, <1>14, <2>1 DEF Sound, Reported
    <3> QED
      BY <1>4, <1>5, <2>1, <3>1
  <2>2. CASE i = n + 1 /\ n # 0
    <3>1. i - 1 = n /\ n \in 1..n /\ i # 1
      BY <2>0, <2>2
    <3>2. r.pos = r.out[n][2]
      BY <1>0, <1>1, <1>14, <2>2 DEF Sound, Reported, n
    <3>3. o[i - 1] = r.out[n] /\ o[i] = x
      BY <1>5, <2>2, <3>1
    <3> QED
      BY <1>4, <3>1, <3>2, <3>3
  <2>3. CASE i # n + 1
    <3>1. i \in 1..n /\ (i # 1 => i - 1 \in 1..n)
      BY <2>0, <2>3
    <3>2. r.out[i][1] = (IF i = 1 THEN r.from ELSE r.out[i - 1][2]) + 1
      BY <1>0, <1>1, <3>1 DEF Sound, Reported, n
    <3> QED
      BY <1>5, <3>1, <3>2
  <2> QED
    BY <2>1, <2>2, <2>3
<1>10. o[Len(o)][2] = e
  BY <1>4, <1>5
<1>12. q.open
  BY <1>7 DEF r
<1>11. Reported(q)
  BY <1>12, <1>5, <1>7, <1>9, <1>10 DEF Reported
<1>13. Sound(q)
  BY <1>6, <1>7, <1>8, <1>11 DEF Sound
<1> QED
  BY <1>13 DEF q, r, o, x

(* Steps with several outcomes: a relay that is refused, its answer, and   *)
(* the next line of a time series.                                         *)
LEMMA RefusedSound ==
  ASSUME BaseInv, NEW t \in Threads, Ba!relay_refused(t)
  PROVE  BaseInv'
<1> DEFINE r == thr[t]
           b == r.stop \/ r.periodic
           q == [r EXCEPT !.stop = b]
<1>1. r \in Request /\ Sound(r) /\ spec_conn \in Conns \cup {"null"} /\ b \in BOOLEAN
  BY DEF BaseInv
<1>2. Sound(q) /\ q.pc = r.pc
  BY <1>1, GoesOnSound
<1>3. /\ r.pc = "handle" /\ file' = file /\ spec_conn' = spec_conn
      /\ \E s \in Statuses : Ba!Answer(t, s)
      /\ Ba!Done(t, r) \/ Ba!Done(t, q)
  BY DEF Ba!relay_refused, Statuses
<1> QED
  BY <1>1, <1>2, <1>3, DoneSound, AnswerSound, OneChanges

LEMMA RelayAnswerSound ==
  ASSUME BaseInv, NEW t \in Threads, Ba!relay_answer(t)
  PROVE  BaseInv'
<1> DEFINE r == thr[t]
           b == r.stop \/ (r.got = "Failed" /\ r.periodic)
           q == [r EXCEPT !.was = FALSE, !.got = "none", !.stop = b]
<1>1. r \in Request /\ Sound(r) /\ spec_conn \in Conns \cup {"null"}
  BY DEF BaseInv
<1>2. b \in BOOLEAN
  OBVIOUS
<1>3. q \in Request /\ q.pc = r.pc /\ q.nccpconn = r.nccpconn /\ q.rend = r.rend /\ q.op = r.op
        /\ q.open = r.open /\ q.out = r.out /\ q.from = r.from /\ q.pos = r.pos
  BY <1>1, <1>2 DEF Request, Statuses
<1>6. PointsBack(q)
  BY <1>1, <1>3 DEF Sound, PointsBack
<1>4. Sound(q)
  BY <1>1, <1>3, <1>6, SoundKept
<1>5. /\ r.pc = "answer" /\ file' = file /\ spec_conn' = spec_conn /\ Ba!Done(t, q)
      /\ \E s \in Statuses : Ba!Answer(t, s)
  BY <1>1 DEF Ba!relay_answer, Request, Statuses
<1> QED
  BY <1>1, <1>3, <1>4, <1>5, DoneSound, AnswerSound, OneChanges

LEMMA ReadNextSound ==
  ASSUME BaseInv, NEW t \in Threads, Ba!read_next_values(t)
  PROVE  BaseInv'
<1> DEFINE r == thr[t]
           e == Ba!LineEnd(r.pos)
           q == [r EXCEPT !.pos = e, !.out = Append(@, <<r.pos + 1, e>>)]
<1>1. r \in Request /\ Sound(r) /\ spec_conn \in Conns \cup {"null"}
  BY DEF BaseInv
<1>2. /\ r.op = "user_data_ts" /\ r.pc = "handle" /\ r.open
      /\ file' = file /\ spec_conn' = spec_conn
  BY DEF Ba!read_next_values
<1>3. CASE r.pos = Len(file)
  <2>1. last' = last /\ Ba!Done(t, r)
    BY <1>3 DEF Ba!read_next_values
  <2> QED
    BY <1>1, <1>2, <2>1, DoneSound, OneChanges
<1>4. CASE r.pos # Len(file)
  <2>1. Sound(q)
    BY <1>2, <1>4, NextLine
  <2>2. q.pc = r.pc
    BY <1>1 DEF Request
  <2>3. Ba!Answer(t, "Fine") /\ "Fine" \in Statuses
    BY <1>4 DEF Ba!read_next_values, Statuses
  <2>4. thr' = [thr EXCEPT ![t] = q] \/ Ba!Done(t, q)
    BY <1>4 DEF Ba!read_next_values
  <2> QED
    BY <1>1, <1>2, <2>1, <2>2, <2>3, <2>4, DoneSound, AnswerSound, OneChanges
<1> QED
  BY <1>3, <1>4

(* A step of a request thread. *)
LEMMA StepSound ==
  ASSUME BaseInv, NEW t \in Threads, Ba!Step(t)
  PROVE  BaseInv'
<1> DEFINE r == thr[t]
<1>0. /\ r \in Request /\ Sound(r) /\ file \in Seq(BOOLEAN) /\ last \in [Threads -> Reply]
      /\ spec_conn \in Conns \cup {"null"}
  BY DEF BaseInv
<1>1. CASE \E specd \in BOOLEAN : Ba!start_experiment_req(t, specd)
  <2>1. r.pc = "handle" /\ file' = file /\ spec_conn' = spec_conn
    BY <1>1 DEF Ba!start_experiment_req
  <2>2. CASE Ba!Done(t, r) /\ \E s \in Statuses : Ba!Answer(t, s)
    BY <1>0, <2>1, <2>2, DoneSound, AnswerSound, OneChanges
  <2>3. CASE thr' = [thr EXCEPT ![t].pc = "connect"] /\ last' = last
    <3>1. thr' = [thr EXCEPT ![t] = [r EXCEPT !.pc = "connect"]]
      BY <2>3
    <3>2. Sound([r EXCEPT !.pc = "connect"])
      BY <2>1, GoesOnSound DEF Places
    <3> QED
      BY <1>0, <2>1, <2>3, <3>1, <3>2, OneChanges
  <2> QED
    BY <1>1, <2>2, <2>3 DEF Ba!start_experiment_req, Statuses
<1>2. CASE Ba!connect_to_specialization_daemon(t)
  <2>1. r.pc = "connect" /\ file' = file /\ spec_conn' \in Conns \cup {"null"}
    BY <1>2 DEF Ba!connect_to_specialization_daemon, Ba!Null
  <2>2. CASE Ba!Done(t, r) /\ \E s \in Statuses : Ba!Answer(t, s)
    BY <1>0, <2>1, <2>2, DoneSound, AnswerSound, OneChanges
  <2>3. CASE thr' = [thr EXCEPT ![t].try = @ + 1] /\ last' = last
    <3>1. thr' = [thr EXCEPT ![t] = [r EXCEPT !.try = @ + 1]]
      BY <2>3
    <3>2. Sound([r EXCEPT !.try = @ + 1])
      BY <2>1, GoesOnSound
    <3> QED
      BY <1>0, <2>1, <2>3, <3>1, <3>2, OneChanges
  <2> QED
    BY <1>2, <2>2, <2>3 DEF Ba!connect_to_specialization_daemon, Statuses
<1>3. CASE Ba!refresh_req(t)
  <2>1. /\ r.pc = "handle" /\ file' = file /\ spec_conn' = spec_conn
        /\ Ba!Answer(t, "Fine") /\ "Fine" \in Statuses
        /\ thr' = [thr EXCEPT ![t] = [r EXCEPT !.pc = "reboot"]]
    BY <1>3 DEF Ba!refresh_req, Statuses
  <2>2. Sound([r EXCEPT !.pc = "reboot"])
    BY <2>1, GoesOnSound DEF Places
  <2>3. \E a \in Reply : last' = [last EXCEPT ![t] = a]
    BY <2>1, AnswerSound
  <2> QED
    BY <1>0, <2>1, <2>2, <2>3, OneChanges
<1>4. CASE Ba!Reboot(t)
  <2>1. CASE testing
    <3>1. r.pc = "reboot" /\ file' = file /\ spec_conn' = spec_conn /\ last' = last /\ Ba!Done(t, r)
      BY <1>4, <2>1 DEF Ba!Reboot
    <3> QED
      BY <1>0, <3>1, DoneSound, OneChanges
  <2>2. CASE ~testing
    <3>1. /\ file' = file /\ spec_conn' = "null"
          /\ thr' = [u \in Threads |-> Ba!Idle] /\ last' = [u \in Threads |-> Ba!NoAnswer]
      BY <1>4, <2>2 DEF Ba!Reboot, Ba!Null
    <3>2. Ba!Idle \in Request /\ Sound(Ba!Idle)
      BY <1>0, IdleSound
    <3>3. Ba!NoAnswer \in Reply
      BY DEF Ba!NoAnswer, Reply, Statuses, Ba!Rli
    <3>4. thr' \in [Threads -> Request] /\ \A u \in Threads : Sound(thr[u])'
      BY <3>1, <3>2 DEF Sound, PointsBack, Reported
    <3> QED
      BY <1>0, <3>1, <3>3, <3>4 DEF BaseInv
  <2> QED
    BY <2>1, <2>2
<1>5. CASE Ba!end_configure_node_req(t)
  <2>1. /\ r.pc = "handle" /\ file' = file /\ spec_conn' = spec_conn /\ Ba!Done(t, r)
        /\ Ba!Answer(t, "Fine") /\ "Fine" \in Statuses
    BY <1>5 DEF Ba!end_configure_node_req, Statuses
  <2> QED
    BY <1>0, <2>1, DoneSound, AnswerSound, OneChanges
<1>6. CASE Ba!relay_refused(t)
  BY <1>6, RefusedSound
<1>7. CASE Ba!relay_swap(t)
  <2>1. /\ r.pc = "handle" /\ file' = file /\ spec_conn' = spec_conn /\ last' = last
        /\ thr' = [thr EXCEPT ![t] = [r EXCEPT !.pc = "swapped"]]
    BY <1>7 DEF Ba!relay_swap
  <2>2. Sound([r EXCEPT !.pc = "swapped"])
    BY <2>1, GoesOnSound DEF Places
  <2> QED
    BY <1>0, <2>1, <2>2, OneChanges
<1>8. CASE Ba!relay_send(t)
  <2> DEFINE q == [r EXCEPT !.pc = "wait", !.nccpconn = spec_conn,
                            !.rend = "fresh", !.was = r.periodic, !.periodic = FALSE]
  <2>1. /\ file' = file /\ spec_conn' = spec_conn /\ last' = last
        /\ thr' = [thr EXCEPT ![t] = q]
    BY <1>8 DEF Ba!relay_send
  <2>2. q \in Request /\ q.pc = "wait" /\ q.op = r.op /\ q.open = r.open /\ q.out = r.out
          /\ q.from = r.from /\ q.pos = r.pos
    BY <1>0 DEF Request, Places
  <2>3. Sound(q)
    BY <1>0, <2>2, SoundKept DEF PointsBack
  <2> QED
    BY <1>0, <2>1, <2>3, OneChanges
<1>9. CASE Ba!relay_wait(t)
  <2>1. PICK s \in Statuses : /\ file' = file /\ spec_conn' = spec_conn /\ last' = last
                              /\ thr' = [thr EXCEPT ![t] = [Ba!Restored(t) EXCEPT !.got = s]]
    BY <1>9 DEF Ba!relay_wait, Statuses
  <2> DEFINE p == Ba!Restored(t)
             q == [p EXCEPT !.got = s]
  <2>2. p \in Request /\ p.nccpconn = "rli" /\ p.rend = "orig" /\ p.op = r.op
          /\ p.open = r.open /\ p.out = r.out /\ p.from = r.from /\ p.pos = r.pos
    BY <1>0 DEF Request, Places, Ba!Restored, Ba!Rli
  <2>3. q \in Request /\ q.nccpconn = "rli" /\ q.rend = "orig" /\ q.op = r.op
          /\ q.open = r.open /\ q.out = r.out /\ q.from = r.from /\ q.pos = r.pos
    BY <2>2 DEF Request
  <2>4. Sound(q)
    BY <1>0, <2>3, SoundKept DEF PointsBack
  <2> QED
    BY <1>0, <2>1, <2>4, OneChanges
<1>10. CASE Ba!relay_answer(t)
  BY <1>10, RelayAnswerSound
<1>11. CASE Ba!NoSuchFile(t)
  <2> DEFINE q == [r EXCEPT !.stop = TRUE]
  <2>1. /\ r.pc = "handle" /\ file' = file /\ spec_conn' = spec_conn /\ Ba!Done(t, q)
        /\ Ba!Answer(t, "Failed") /\ "Failed" \in Statuses
    BY <1>11 DEF Ba!NoSuchFile, Statuses
  <2>2. Sound(q) /\ q.pc = r.pc
    BY GoesOnSound
  <2> QED
    BY <1>0, <2>1, <2>2, DoneSound, AnswerSound, OneChanges
<1>12. CASE Ba!OpenFile(t)
  <2> DEFINE q == [r EXCEPT !.open = TRUE, !.from = Len(file), !.pos = Len(file)]
  <2>1. /\ r.pc = "handle" /\ ~r.open /\ file' = file /\ spec_conn' = spec_conn /\ last' = last
        /\ thr' = [thr EXCEPT ![t] = q]
    BY <1>12 DEF Ba!OpenFile, Ba!Open
  <2>2. Len(file) \in Nat
    BY <1>0
  <2>3. q \in Request /\ q.nccpconn = r.nccpconn /\ q.rend = r.rend /\ q.pc = r.pc
          /\ q.open /\ q.out = r.out /\ q.from = Len(file) /\ q.pos = Len(file)
    BY <1>0, <2>2 DEF Request
  <2>4. r.out = <<>>
    BY <1>0, <2>1 DEF Sound, Reported
  <2>5. Sound(q)
    BY <1>0, <2>2, <2>3, <2>4 DEF Sound, Reported, PointsBack
  <2> QED
    BY <1>0, <2>1, <2>5, OneChanges
<1>13. CASE Ba!read_last_value(t)
  <2> DEFINE q == [r EXCEPT !.pos = Len(file)]
  <2>1. /\ r.pc = "handle" /\ r.open /\ r.op = "user_data"
        /\ file' = file /\ spec_conn' = spec_conn /\ Ba!Done(t, q)
        /\ Ba!Answer(t, "Fine") /\ "Fine" \in Statuses
    BY <1>13 DEF Ba!read_last_value, Statuses
  <2>2. Len(file) \in Nat
    BY <1>0
  <2>3. q \in Request /\ q.nccpconn = r.nccpconn /\ q.rend = r.rend /\ q.pc = r.pc
          /\ q.open /\ q.op = r.op /\ q.pos = Len(file)
    BY <1>0, <2>1, <2>2 DEF Request
  <2>4. Sound(q)
    BY <1>0, <2>1, <2>2, <2>3 DEF Sound, Reported, PointsBack
  <2> QED
    BY <1>0, <2>1, <2>3, <2>4, DoneSound, AnswerSound, OneChanges
<1>14. CASE Ba!read_next_values(t)
  BY <1>14, ReadNextSound
<1>15. QED
  BY <1>1, <1>2, <1>3, <1>4, <1>5, <1>6, <1>7, <1>8, <1>9, <1>10, <1>11, <1>12, <1>13,
     <1>14 DEF Ba!Step, Ba!Handle

(* The environment writes, ends the daemon or stops a request. *)
LEMMA EnvironmentSound ==
  ASSUME BaseInv,
         \/ \E eol \in BOOLEAN : Ba!Write(eol) \/ Ud!B!Write(eol)
         \/ \E c \in Conns : Ba!DaemonEnds(c)
         \/ \E t \in Threads : Ba!StopPeriodic(t)
  PROVE  BaseInv'
<1>1. CASE \E eol \in BOOLEAN : Ba!Write(eol) \/ Ud!B!Write(eol)
  <2>1. PICK eol \in BOOLEAN : file' = Append(file, eol) /\ UNCHANGED <<spec_conn, thr, last>>
    BY <1>1 DEF Ba!Write, Ud!B!Write
  <2>2. file \in Seq(BOOLEAN) /\ file' \in Seq(BOOLEAN) /\ Len(file') = Len(file) + 1
          /\ Len(file) \in Nat
    BY <2>1, Appended DEF BaseInv
  <2>3. \A t \in Threads : thr[t].pos \in Nat
    BY DEF BaseInv, Request
  <2>4. \A t \in Threads : Sound(thr[t])'
    BY <2>1, <2>2, <2>3 DEF BaseInv, Sound, PointsBack, Reported
  <2> QED
    BY <2>1, <2>2, <2>4 DEF BaseInv
<1>2. CASE \E c \in Conns : Ba!DaemonEnds(c)
  <2>1. UNCHANGED <<file, spec_conn, thr, last>>
    BY <1>2 DEF Ba!DaemonEnds
  <2> QED
    BY <2>1 DEF BaseInv, Sound, PointsBack, Reported
<1>3. CASE \E t \in Threads : Ba!StopPeriodic(t)
  <2>1. PICK t \in Threads : Ba!StopPeriodic(t)
    BY <1>3
  <2>2. thr' = [thr EXCEPT ![t] = [thr[t] EXCEPT !.stop = TRUE]]
          /\ UNCHANGED <<file, spec_conn, last>>
    BY <2>1 DEF Ba!StopPeriodic
  <2>3. Sound([thr[t] EXCEPT !.stop = TRUE])
    BY GoesOnSound
  <2> QED
    BY <2>2, <2>3, OneChanges DEF BaseInv
<1> QED
  BY <1>1, <1>2, <1>3

(* The copies of the file readers and relays in the VM and VPN daemons are  *)
(* steps of the base daemon.                                               *)
LEMMA CopySteps ==
  ASSUME NEW t \in Threads
  PROVE  /\ Ud!vm_step(t) => Ba!Step(t)
         /\ Ud!vpn_step(t) => Ba!Step(t)
         /\ Ud!vm_request(t) => Ba!Request(t)
         /\ Ud!vpn_request(t) => Ba!Request(t)
<1>1. Ud!B!relay_refused(t) => Ba!relay_refused(t)
  BY DEF Ud!B!relay_refused, Ba!relay_refused, Ud!B!Answer, Ba!Answer, Ud!B!Done,
         Ba!Done, Ud!B!NoDaemon, Ba!NoDaemon, Ud!B!Relays, Ba!Relays, Ud!B!Idle,
         Ba!Idle, Ud!B!Null, Ba!Null
<1>2. Ud!B!NoSuchFile(t) => Ba!NoSuchFile(t)
  BY DEF Ud!B!NoSuchFile, Ba!NoSuchFile, Ud!B!Answer, Ba!Answer, Ud!B!Done, Ba!Done,
         Ud!B!Files, Ba!Files, Ud!B!Idle, Ba!Idle, Ud!B!Null, Ba!Null
<1>3. Ud!B!OpenFile(t) => Ba!OpenFile(t)
  BY DEF Ud!B!OpenFile, Ba!OpenFile, Ud!B!Open, Ba!Open, Ud!B!Files, Ba!Files
<1>4. Ud!B!read_last_value(t) => Ba!read_last_value(t)
  BY DEF Ud!B!read_last_value, Ba!read_last_value, Ud!B!Answer, Ba!Answer, Ud!B!Done,
         Ba!Done, Ud!B!Idle, Ba!Idle, Ud!B!Null, Ba!Null
<1>5. Ud!B!read_next_values(t) => Ba!read_next_values(t)
  BY DEF Ud!B!read_next_values, Ba!read_next_values, Ud!B!Answer, Ba!Answer, Ud!B!Done,
         Ba!Done, Ud!B!LineEnd, Ba!LineEnd, Ud!B!Idle, Ba!Idle, Ud!B!Null, Ba!Null
<1>6. ASSUME NEW op \in Ba!Ops, NEW per \in BOOLEAN, Ud!B!Receive(t, op, per)
      PROVE  Ba!Receive(t, op, per)
  BY <1>6 DEF Ud!B!Receive, Ba!Receive, Ud!B!Files, Ba!Files, Ud!B!Idle, Ba!Idle,
              Ud!B!Null, Ba!Null, Ud!B!Rli, Ba!Rli, Ud!B!NoAnswer, Ba!NoAnswer
<1>7. Ud!B!Ops = Ba!Ops
  BY DEF Ud!B!Ops, Ba!Ops, Ud!B!Relays, Ba!Relays, Ud!B!Files, Ba!Files
<1>8. /\ Ud!vm_request(t) => Ba!Request(t)
      /\ Ud!vpn_request(t) => Ba!Request(t)
  BY <1>6, <1>7 DEF Ud!vm_request, Ud!vm_receive, Ud!vpn_request, Ud!vpn_receive, Ba!Request
<1>9. Ud!vm_step(t) => Ba!Step(t)
  BY <1>1, <1>2, <1>3, <1>4, <1>5
     DEF Ud!vm_step, Ud!vm_rli_relay_req, Ud!vm_user_data_req, Ud!vm_user_data_ts_req,
         Ud!vm_checkfile, Ud!vm_userdata, Ud!vm_read_last_value, Ud!vm_read_next_values,
         Ba!Step, Ba!Handle
<1>10. Ud!vpn_step(t) => Ba!Step(t)
  BY <1>1, <1>2, <1>3, <1>4, <1>5
     DEF Ud!vpn_step, Ud!vpn_rli_relay_req, Ud!vpn_user_data_req, Ud!vpn_user_data_ts_req,
         Ud!vpn_checkfile, Ud!vpn_userdata, Ud!vpn_read_last_value, Ud!vpn_read_next_values,
         Ba!Step, Ba!Handle
<1> QED
  BY <1>8, <1>9, <1>10

Readers == {"base", "vmdata", "vpndata"}

LEMMA BaseInit ==
  ASSUME MCInit
  PROVE  kind \in Readers => BaseInv
<1>1. ASSUME kind \in Readers
      PROVE  /\ file = <<>> /\ spec_conn = "null" /\ thr = [t \in Threads |-> Ba!Idle]
             /\ last = [t \in Threads |-> Ba!NoAnswer]
  <2>1. CASE Ba!Init
    BY <2>1 DEF Ba!Init, Ba!Null
  <2>2. CASE Ud!Init
    BY <2>2 DEF Ud!Init, Ud!B!Init, Ud!B!Null, Ud!B!Idle, Ba!Idle, Ud!B!NoAnswer, Ba!NoAnswer,
                Ba!Null, Ud!B!Rli, Ba!Rli
  <2> QED
    BY <1>1, <2>1, <2>2 DEF MCInit, Readers
<1>2. ASSUME kind \in Readers
      PROVE  file \in Seq(BOOLEAN)
  BY <1>1, <1>2
<1>3. Ba!NoAnswer \in Reply
  BY DEF Ba!NoAnswer, Reply, Statuses, Ba!Rli
<1> QED
  BY <1>1, <1>2, <1>3, IdleSound DEF BaseInv

LEMMA BaseNext ==
  ASSUME kind \in Readers => BaseInv, [MCNext]_mcVars
  PROVE  (kind \in Readers => BaseInv)'
<1> SUFFICES ASSUME kind' \in Readers
             PROVE  BaseInv'
  OBVIOUS
<1>1. CASE BaseEnvironment
  <2>1. BaseInv
    BY <1>1 DEF BaseEnvironment, Readers
  <2>2. \/ \E eol \in BOOLEAN : Ba!Write(eol) \/ Ud!B!Write(eol)
        \/ \E c \in Conns : Ba!DaemonEnds(c)
        \/ \E t \in Threads : Ba!StopPeriodic(t)
    BY <1>1 DEF BaseEnvironment, Ba!Environment, Ud!Environment, Ud!Write, Ud!B!StopPeriodic,
                Ba!StopPeriodic, Ud!B!Ops, Ba!Ops, Ud!B!Relays, Ba!Relays, Ud!B!Files, Ba!Files
  <2> QED
    BY <2>1, <2>2, EnvironmentSound
<1>2. CASE \E t \in Threads : BaseRequest(t)
  <2>1. BaseInv /\ \E t \in Threads : Ba!Request(t)
    BY <1>2, CopySteps DEF BaseRequest, Readers
  <2> QED
    BY <2>1, RequestSound
<1>3. CASE \E t \in Threads : BaseStep(t)
  <2>1. BaseInv /\ \E t \in Threads : Ba!Step(t)
    BY <1>3, CopySteps DEF BaseStep, Readers
  <2> QED
    BY <2>1, StepSound
<1>4. CASE Linking(Next) \/ Packet(Pk!Next) \/ UNCHANGED mcVars
  <2>1. UNCHANGED <<kind, file, spec_conn, thr, last>>
    BY <1>4 DEF Linking, Packet, mcVars, baseVars
  <2> QED
    BY <2>1 DEF BaseInv, Sound, PointsBack, Reported
<1> QED
  BY <1>1, <1>2, <1>3, <1>4 DEF MCNext

(* Every answer of the base daemon goes to the connection its request came  *)
(* from, with the requester's rendezvous, for any number of request        *)
(* threads, whatever daemons are started, end or do not answer             *)
(* (rli_relay_req::handle).                                                *)
THEOREM AnsweredToOriginCorrect == MCSpec => []AnsweredToOrigin
<1>1. (kind \in Readers => BaseInv) => AnsweredToOrigin
  BY DEF AnsweredToOrigin, Ba!AnsweredToOrigin, BaseInv, Reply, Readers, Ba!Rli
<1> QED
  BY <1>1, BaseInit, BaseNext, PTL DEF MCSpec

(* A time series reports each piece written since the file was opened once  *)
(* and in order, for any writes between any two reads, in the base daemon   *)
(* and its two copies (userdata::read_next_values).                        *)
THEOREM NothingLostCorrect == MCSpec => []NothingLost
<1>1. (kind \in Readers => BaseInv) => NothingLost
  BY DEF NothingLost, Ba!NothingLost, Ud!B!NothingLost, BaseInv, Sound, Reported, Readers
<1> QED
  BY <1>1, BaseInit, BaseNext, PTL DEF MCSpec

-----------------------------------------------------------------------------
(* The packets of the NPR                                                   *)

Maybe == Packets \cup {NoPacket}
Node == [id : Nat, slot : Slots, pkt : Maybe]
ArpRequest == [state : {"NONE", "OUTSTANDING", "FINISHED", "FAILED"}, valid : BOOLEAN,
               dip : Maybe, nhr : Seq(Node)]
Stages == {"none", "read", "ipv4", "arp", "reply", "result", "lock", "attempt", "wake", "done"}
Dests == {"flm", "mux"} \cup {f.dest : f \in Forms}

PktType ==
  /\ ring \in [Pk!RingNames -> Seq(Packets)]
  /\ msg_ready \in Maybe
  /\ form \in [Packets -> Forms \cup {Pk!NoForm}]
  /\ pthr \in [Packets -> [pc : Stages, addr : Addrs \cup {NoPacket}, attempts : Nat]]
  /\ out \in [Packets -> Seq(Dests)]
  /\ req \in [Addrs -> ArpRequest]
  /\ srid \in [Slots -> Nat]
  /\ routes \in Nat

(* A packet that waits in a ring is there once, and has no thread yet. *)
RingOnce ==
  \A r, s \in Pk!RingNames : \A i \in DOMAIN ring[r], j \in DOMAIN ring[s] :
    /\ ring[r][i] = ring[s][j] => r = s /\ i = j
    /\ pthr[ring[r][i]].pc = "none" /\ form[ring[r][i]] # Pk!NoForm

(* A packet whose thread has it has not been given back, one whose thread   *)
(* resolves an address knows the address.                                   *)
Owned == {"none", "read", "ipv4", "arp", "reply", "result", "lock"}

ThreadOwns ==
  \A p \in Packets :
    /\ pthr[p].pc \in Owned => out[p] = <<>>
    /\ pthr[p].pc \in {"lock", "attempt", "wake"} => pthr[p].addr \in Addrs
    /\ pthr[p].pc # "none" => form[p] # Pk!NoForm

(* A packet waits in the request of one address only, its thread has left  *)
(* it there, and it has not been given back.                               *)
WaitsOnce ==
  \A a \in Addrs : \A p \in Pk!Waiting(req[a]) :
    /\ p \in Packets
    /\ pthr[p].addr = a
    /\ pthr[p].pc \in {"attempt", "wake", "done"}
    /\ out[p] = <<>>

PktInv == PktType /\ RingOnce /\ ThreadOwns /\ WaitsOnce /\ Pk!ReleasedOnce

(* What a change of a request does to the packets that wait in it. *)
LEMMA WaitingForms ==
  ASSUME NEW r \in ArpRequest
  PROVE  /\ Pk!Waiting(r) \subseteq Packets
         /\ \A s \in {"NONE", "OUTSTANDING", "FINISHED", "FAILED"} :
              /\ [r EXCEPT !.state = s] \in ArpRequest
              /\ Pk!Waiting([r EXCEPT !.state = s]) = Pk!Waiting(r)
         /\ [r EXCEPT !.valid = TRUE] \in ArpRequest
         /\ Pk!Waiting([r EXCEPT !.valid = TRUE]) = Pk!Waiting(r)
         /\ \A p \in Packets : /\ [r EXCEPT !.dip = p] \in ArpRequest
                               /\ Pk!Waiting([r EXCEPT !.dip = p]) \subseteq Pk!Waiting(r) \cup {p}
<1>0. r.dip \in Maybe /\ r.nhr \in Seq(Node)
  BY DEF ArpRequest
<1>1. \A i \in DOMAIN r.nhr : r.nhr[i].pkt \in Maybe
  <2>1. \A i \in DOMAIN r.nhr : r.nhr[i] \in Node
    BY <1>0
  <2> QED
    BY <2>1 DEF Node
<1>2. Pk!Waiting(r) \subseteq Packets
  BY <1>0, <1>1 DEF Pk!Waiting, Maybe
<1>3. ASSUME NEW s \in {"NONE", "OUTSTANDING", "FINISHED", "FAILED"}
      PROVE  /\ [r EXCEPT !.state = s] \in ArpRequest
             /\ Pk!Waiting([r EXCEPT !.state = s]) = Pk!Waiting(r)
  <2>1. [r EXCEPT !.state = s] \in ArpRequest
    BY DEF ArpRequest
  <2>2. [r EXCEPT !.state = s].dip = r.dip /\ [r EXCEPT !.state = s].nhr = r.nhr
    BY DEF ArpRequest
  <2> QED
    BY <2>1, <2>2 DEF Pk!Waiting
<1>4. /\ [r EXCEPT !.valid = TRUE] \in ArpRequest
      /\ Pk!Waiting([r EXCEPT !.valid = TRUE]) = Pk!Waiting(r)
  <2>1. [r EXCEPT !.valid = TRUE] \in ArpRequest
    BY DEF ArpRequest
  <2>2. [r EXCEPT !.valid = TRUE].dip = r.dip /\ [r EXCEPT !.valid = TRUE].nhr = r.nhr
    BY DEF ArpRequest
  <2> QED
    BY <2>1, <2>2 DEF Pk!Waiting
<1>5. ASSUME NEW p \in Packets
      PROVE  /\ [r EXCEPT !.dip = p] \in ArpRequest
             /\ Pk!Waiting([r EXCEPT !.dip = p]) \subseteq Pk!Waiting(r) \cup {p}
  <2>1. [r EXCEPT !.dip = p] \in ArpRequest
    BY DEF ArpRequest, Maybe
  <2>2. [r EXCEPT !.dip = p].dip = p /\ [r EXCEPT !.dip = p].nhr = r.nhr
    BY DEF ArpRequest
  <2> QED
    BY <2>1, <2>2 DEF Pk!Waiting
<1> QED
  BY <1>2, <1>3, <1>4, <1>5

(* A node in front of those of the request, or a packet in one of them. *)
LEMMA WaitingNodes ==
  ASSUME NEW r \in ArpRequest, NEW n \in Node
  PROVE  /\ [r EXCEPT !.nhr = <<n>> \o @] \in ArpRequest
         /\ Pk!Waiting([r EXCEPT !.nhr = <<n>> \o @]) \subseteq Pk!Waiting(r) \cup ({n.pkt} \ {NoPacket})
         /\ [r EXCEPT !.nhr = <<n>>] \in ArpRequest
         /\ Pk!Waiting([r EXCEPT !.nhr = <<n>>]) \subseteq Pk!Waiting(r) \cup ({n.pkt} \ {NoPacket})
         /\ \A i \in DOMAIN r.nhr, p \in Packets :
              /\ [r EXCEPT !.nhr[i].pkt = p] \in ArpRequest
              /\ Pk!Waiting([r EXCEPT !.nhr[i].pkt = p]) \subseteq Pk!Waiting(r) \cup {p}
<1> DEFINE m == r.nhr
           c == <<n>> \o m
<1>1. m \in Seq(Node) /\ Len(m) \in Nat /\ DOMAIN m = 1..Len(m) /\ \A i \in DOMAIN m : m[i] \in Node
  BY DEF ArpRequest
<1>2. /\ c \in Seq(Node) /\ DOMAIN c = 1..(Len(m) + 1) /\ c[1] = n
      /\ \A i \in 2..(Len(m) + 1) : c[i] = m[i - 1] /\ i - 1 \in DOMAIN m
  BY <1>1
<1>3. \A i \in DOMAIN c : c[i] = n \/ \E j \in DOMAIN m : c[i] = m[j]
  <2> HIDE DEF c, m
  <2>1. \A i \in DOMAIN c : i = 1 \/ i \in 2..(Len(m) + 1)
    BY <1>1, <1>2
  <2> QED
    BY <1>2, <2>1
<1>4. /\ [r EXCEPT !.nhr = c] \in ArpRequest
      /\ [r EXCEPT !.nhr = c].dip = r.dip /\ [r EXCEPT !.nhr = c].nhr = c
  <2> HIDE DEF c
  <2> QED
    BY <1>2 DEF ArpRequest
<1>5. Pk!Waiting([r EXCEPT !.nhr = c]) \subseteq Pk!Waiting(r) \cup ({n.pkt} \ {NoPacket})
  <2> HIDE DEF c
  <2> QED
    BY <1>3, <1>4 DEF Pk!Waiting
<1> DEFINE d == <<n>>
<1>6. d \in Seq(Node) /\ \A i \in DOMAIN d : d[i] = n
  OBVIOUS
<1>7. /\ [r EXCEPT !.nhr = d] \in ArpRequest
      /\ [r EXCEPT !.nhr = d].dip = r.dip /\ [r EXCEPT !.nhr = d].nhr = d
  <2> HIDE DEF d
  <2> QED
    BY <1>6 DEF ArpRequest
<1>8. Pk!Waiting([r EXCEPT !.nhr = d]) \subseteq Pk!Waiting(r) \cup ({n.pkt} \ {NoPacket})
  <2> HIDE DEF d
  <2> QED
    BY <1>6, <1>7 DEF Pk!Waiting
<1>9. ASSUME NEW i \in DOMAIN m, NEW p \in Packets
      PROVE  /\ [r EXCEPT !.nhr[i].pkt = p] \in ArpRequest
             /\ Pk!Waiting([r EXCEPT !.nhr[i].pkt = p]) \subseteq Pk!Waiting(r) \cup {p}
  <2> DEFINE k == [m[i] EXCEPT !.pkt = p]
             e == [m EXCEPT ![i] = k]
  <2>1. k \in Node /\ k.pkt = p
    BY <1>1 DEF Node, Maybe
  <2>2. [r EXCEPT !.nhr[i].pkt = p] = [r EXCEPT !.nhr = e]
    BY DEF ArpRequest
  <2> HIDE DEF k
  <2>3. e \in Seq(Node) /\ DOMAIN e = DOMAIN m /\ \A j \in DOMAIN m : e[j] = IF j = i THEN k ELSE m[j]
    BY <1>1, <2>1
  <2> HIDE DEF e
  <2>4. /\ [r EXCEPT !.nhr = e] \in ArpRequest
        /\ [r EXCEPT !.nhr = e].dip = r.dip /\ [r EXCEPT !.nhr = e].nhr = e
    BY <2>3 DEF ArpRequest
  <2>5. Pk!Waiting([r EXCEPT !.nhr = e]) \subseteq Pk!Waiting(r) \cup {p}
    BY <2>1, <2>3, <2>4 DEF Pk!Waiting
  <2> QED
    BY <2>2, <2>4, <2>5
<1> QED
  BY <1>4, <1>5, <1>7, <1>8, <1>9

(* The packets of a set leave the request. *)
LEMMA WaitingWithout ==
  ASSUME NEW r \in ArpRequest, NEW ps
  PROVE  /\ Pk!Without(r, ps) \in ArpRequest
         /\ Pk!Waiting(Pk!Without(r, ps)) \subseteq Pk!Waiting(r) \ ps
<1> DEFINE m == r.nhr
           d == IF r.dip \in ps THEN NoPacket ELSE r.dip
           e == [i \in DOMAIN m |-> [m[i] EXCEPT !.pkt = IF @ \in ps THEN NoPacket ELSE @]]
<1>1. m \in Seq(Node) /\ Len(m) \in Nat /\ DOMAIN m = 1..Len(m) /\ \A i \in DOMAIN m : m[i] \in Node
  BY DEF ArpRequest
<1>2. \A i \in DOMAIN m : /\ e[i] \in Node
                          /\ e[i].pkt = IF m[i].pkt \in ps THEN NoPacket ELSE m[i].pkt
  BY <1>1 DEF Node, Maybe
<1>3. DOMAIN e = 1..Len(m)
  BY <1>1
<1>4. e \in Seq(Node)
  <2>1. e \in [1..Len(m) -> Node]
    BY <1>1, <1>2
  <2> HIDE DEF e
  <2> QED
    BY <1>1, <2>1
<1>5. d \in Maybe
  BY DEF ArpRequest, Maybe
<1>6. Pk!Without(r, ps) = [r EXCEPT !.dip = d, !.nhr = e]
  BY DEF Pk!Without
<1> HIDE DEF e, d
<1>7. /\ Pk!Without(r, ps) \in ArpRequest
      /\ Pk!Without(r, ps).dip = d /\ Pk!Without(r, ps).nhr = e
  BY <1>4, <1>5, <1>6 DEF ArpRequest
<1>8. Pk!Waiting(Pk!Without(r, ps)) = ({d} \cup {e[i].pkt : i \in DOMAIN m}) \ {NoPacket}
  BY <1>1, <1>3, <1>7 DEF Pk!Waiting
<1>9. ({d} \cup {e[i].pkt : i \in DOMAIN m}) \ {NoPacket} \subseteq Pk!Waiting(r) \ ps
  BY <1>2 DEF Pk!Waiting, d
<1> QED
  BY <1>7, <1>8, <1>9

ThreadType == [pc : Stages, addr : Addrs \cup {NoPacket}, attempts : Nat]

(* A step of the thread of p, which becomes q, that gives back the packets  *)
(* of gone: they were p's own or waited for an address, and wait no more.  *)
GivesBack(p, q, gone) ==
  /\ pthr[p].pc # "none" /\ q.pc # "none"
  /\ pthr' = [pthr EXCEPT ![p] = q]
  /\ UNCHANGED <<ring, form, srid, routes>> /\ msg_ready' \in Maybe
  /\ out' \in [Packets -> Seq(Dests)]
  /\ \A u \in gone : out[u] = <<>> /\ Len(out'[u]) = 1
  /\ \A u \in Packets \ gone : out'[u] = out[u]
  /\ req' \in [Addrs -> ArpRequest]
  /\ \A a \in Addrs : /\ Pk!Waiting(req'[a]) \subseteq Pk!Waiting(req[a]) \cup {p}
                       /\ Pk!Waiting(req'[a]) \cap gone = {}
  /\ \A a \in Addrs : p \in Pk!Waiting(req'[a]) =>
                         /\ q.addr = a /\ q.pc \in {"attempt", "wake", "done"}
                         /\ out[p] = <<>>
  /\ \A u \in gone : u # p => pthr[u].pc \notin Owned
  /\ q.pc \in Owned => pthr[p].pc \in Owned /\ p \notin gone
  /\ q.pc \in {"lock", "attempt", "wake"} => q.addr \in Addrs

LEMMA PktChange ==
  ASSUME PktInv, NEW p \in Packets, NEW q \in ThreadType, NEW gone \in SUBSET Packets,
         GivesBack(p, q, gone)
  PROVE  PktInv'
<1> USE DEF GivesBack
<1>1. /\ pthr' \in [Packets -> ThreadType]
      /\ \A u \in Packets : pthr'[u] = IF u = p THEN q ELSE pthr[u]
  BY DEF PktInv, PktType, ThreadType
<1>2. PktType'
  BY <1>1 DEF PktInv, PktType, ThreadType
<1>3. RingOnce'
  <2>1. \A r \in Pk!RingNames : \A i \in DOMAIN ring[r] : ring[r][i] \in Packets
    BY DEF PktInv, PktType
  <2>2. \A r \in Pk!RingNames : \A i \in DOMAIN ring[r] : ring[r][i] # p
    BY DEF PktInv, RingOnce
  <2> QED
    BY <1>1, <2>1, <2>2 DEF PktInv, RingOnce, Pk!NoForm, Pk!RingNames, Pk!Rings
<1>4. ThreadOwns'
  <2>1. ASSUME NEW u \in Packets, pthr'[u].pc \in Owned
        PROVE  out'[u] = <<>>
    BY <1>1, <2>1 DEF PktInv, ThreadOwns
  <2>2. ASSUME NEW u \in Packets
        PROVE  /\ pthr'[u].pc \in {"lock", "attempt", "wake"} => pthr'[u].addr \in Addrs
               /\ pthr'[u].pc # "none" => form'[u] # Pk!NoForm
    BY <1>1 DEF PktInv, ThreadOwns
  <2> QED
    BY <2>1, <2>2 DEF ThreadOwns, Owned, Pk!NoForm
<1>5. WaitsOnce'
  <2>1. ASSUME NEW a \in Addrs, NEW u \in Pk!Waiting(req'[a])
        PROVE  /\ u \in Packets /\ pthr'[u].addr = a
               /\ pthr'[u].pc \in {"attempt", "wake", "done"} /\ out'[u] = <<>>
    BY <1>1, <2>1 DEF PktInv, WaitsOnce
  <2>2. \A a \in Addrs : Pk!Waiting(req[a])' = Pk!Waiting(req'[a])
    BY DEF Pk!Waiting
  <2> QED
    BY <2>1, <2>2 DEF WaitsOnce
<1>6. Pk!ReleasedOnce'
  <2>1. ASSUME NEW u \in Packets
        PROVE  Len(out'[u]) <= 1
    <3>1. CASE u \in gone
      <4>1. Len(out'[u]) = 1
        BY <3>1
      <4> QED
        BY <4>1
    <3>2. CASE u \notin gone
      BY <3>2 DEF PktInv, Pk!ReleasedOnce
    <3> QED
      BY <3>1, <3>2
  <2> QED
    BY <2>1 DEF Pk!ReleasedOnce
<1> QED
  BY <1>2, <1>3, <1>4, <1>5, <1>6 DEF PktInv

(* The thread of p as it goes on. *)
LEMMA ThreadForms ==
  ASSUME PktInv, NEW p \in Packets
  PROVE  /\ pthr[p] \in ThreadType
         /\ \A pc \in Stages : /\ [pthr[p] EXCEPT !.pc = pc] \in ThreadType
                               /\ [pthr[p] EXCEPT !.pc = pc].pc = pc
                               /\ [pthr[p] EXCEPT !.pc = pc].addr = pthr[p].addr
         /\ pthr[p].attempts + 1 \in Nat
<1>1. pthr[p] \in ThreadType
  BY DEF PktInv, PktType, ThreadType
<1> DEFINE t == pthr[p]
<1> HIDE DEF t
<1>2. t \in ThreadType
  BY <1>1 DEF t
<1>3. ASSUME NEW pc \in Stages
      PROVE  /\ [t EXCEPT !.pc = pc] \in ThreadType
             /\ [t EXCEPT !.pc = pc].pc = pc
             /\ [t EXCEPT !.pc = pc].addr = t.addr
  BY <1>2 DEF ThreadType
<1>4. t.attempts + 1 \in Nat
  BY <1>2 DEF ThreadType
<1> QED
  BY <1>2, <1>3, <1>4 DEF t

(* A packet that has not been given back, given back. *)
LEMMA GivenBack ==
  ASSUME NEW o \in [Packets -> Seq(Dests)], NEW p \in Packets, o[p] = <<>>, NEW d \in Dests
  PROVE  LET n == [o EXCEPT ![p] = Append(@, d)]
         IN  /\ n \in [Packets -> Seq(Dests)]
             /\ Len(n[p]) = 1
             /\ \A u \in Packets \ {p} : n[u] = o[u]
<1>1. Append(<<>>, d) \in Seq(Dests) /\ Len(Append(<<>>, d)) = 1
  OBVIOUS
<1> QED
  BY <1>1

(* The thread of p goes on without touching a buffer or a request. *)
LEMMA GoesOn ==
  ASSUME PktInv, NEW p \in Packets, NEW q \in ThreadType,
         pthr[p].pc # "none", q.pc # "none",
         pthr' = [pthr EXCEPT ![p] = q],
         UNCHANGED <<ring, form, out, req, srid, routes>>, msg_ready' \in Maybe,
         pthr[p].pc \in Owned \/ q.addr = pthr[p].addr,
         q.pc \in Owned => pthr[p].pc \in Owned,
         pthr[p].pc \notin Owned => q.pc \in {"attempt", "wake", "done"},
         q.pc \in {"lock", "attempt", "wake"} => q.addr \in Addrs
  PROVE  PktInv'
<1>1. out \in [Packets -> Seq(Dests)] /\ req \in [Addrs -> ArpRequest]
  BY DEF PktInv, PktType
<1>2. \A a \in Addrs : p \in Pk!Waiting(req[a]) =>
        /\ q.addr = a /\ q.pc \in {"attempt", "wake", "done"}
        /\ out[p] = <<>>
  BY DEF PktInv, WaitsOnce, Owned
<1>0. PICK gone \in SUBSET Packets : gone = {}
  OBVIOUS
<1>3. /\ gone \in SUBSET Packets
      /\ \A u \in gone : out[u] = <<>> /\ Len(out'[u]) = 1
      /\ \A u \in Packets \ gone : out'[u] = out[u]
      /\ \A u \in gone : u # p => pthr[u].pc \notin Owned
      /\ p \notin gone
      /\ \A a \in Addrs : Pk!Waiting(req'[a]) \cap gone = {}
  BY <1>0
<1>4. /\ out' = out /\ req' = req /\ UNCHANGED <<ring, form, srid, routes>>
      /\ out' \in [Packets -> Seq(Dests)] /\ req' \in [Addrs -> ArpRequest]
  BY <1>1
<1>7. q.pc \in Owned => pthr[p].pc \in Owned /\ p \notin gone
  BY <1>3
<1>5. \A a \in Addrs : p \in Pk!Waiting(req'[a]) =>
        /\ q.addr = a /\ q.pc \in {"attempt", "wake", "done"}
        /\ out[p] = <<>>
  BY <1>2, <1>4
<1>6. \A a \in Addrs : /\ Pk!Waiting(req'[a]) \subseteq Pk!Waiting(req[a]) \cup {p}
                       /\ Pk!Waiting(req'[a]) \cap gone = {}
  BY <1>3, <1>4
<1>8. GivesBack(p, q, gone)
  BY <1>3, <1>4, <1>5, <1>6, <1>7 DEF GivesBack
<1> QED
  BY <1>8, PktChange

(* The thread of p gives p back. *)
LEMMA GivesOwn ==
  ASSUME PktInv, NEW p \in Packets, pthr[p].pc \in Owned \ {"none"},
         Pk!End(p), NEW d \in Dests, out' = [out EXCEPT ![p] = Append(@, d)],
         UNCHANGED <<ring, form, srid, routes>>, msg_ready' \in Maybe,
         \/ req' = req
         \/ \E a \in Addrs : \E r \in ArpRequest :
              req' = [req EXCEPT ![a] = r] /\ Pk!Waiting(r) \subseteq Pk!Waiting(req[a])
  PROVE  PktInv'
<1>1. PICK q \in ThreadType : q.pc = "done" /\ pthr' = [pthr EXCEPT ![p] = q]
  BY ThreadForms DEF Pk!End, Stages
<1>2. out \in [Packets -> Seq(Dests)] /\ req \in [Addrs -> ArpRequest] /\ out[p] = <<>>
  BY DEF PktInv, PktType, ThreadOwns
<1>3. /\ out' \in [Packets -> Seq(Dests)]
      /\ Len(out'[p]) = 1
      /\ \A u \in Packets \ {p} : out'[u] = out[u]
  BY <1>2, GivenBack
<1>4. \A a \in Addrs : p \notin Pk!Waiting(req[a])
  BY DEF PktInv, WaitsOnce, Owned
<1>5. req' \in [Addrs -> ArpRequest] /\ \A a \in Addrs : Pk!Waiting(req'[a]) \subseteq Pk!Waiting(req[a])
  BY <1>2
<1>0. PICK gone \in SUBSET Packets : gone = {p}
  OBVIOUS
<1>6. /\ gone \in SUBSET Packets
      /\ \A u \in gone : out[u] = <<>> /\ Len(out'[u]) = 1
      /\ \A u \in Packets \ gone : out'[u] = out[u]
      /\ \A u \in gone : u # p => pthr[u].pc \notin Owned
  BY <1>0, <1>2, <1>3
<1>7. \A a \in Addrs : /\ Pk!Waiting(req'[a]) \subseteq Pk!Waiting(req[a]) \cup {p}
                       /\ Pk!Waiting(req'[a]) \cap gone = {}
  BY <1>0, <1>4, <1>5
<1>8. \A a \in Addrs : p \in Pk!Waiting(req'[a]) =>
        /\ q.addr = a /\ q.pc \in {"attempt", "wake", "done"}
        /\ out[p] = <<>>
  BY <1>4, <1>5
<1>9. q.pc # "none" /\ q.pc \notin Owned /\ q.pc \notin {"lock", "attempt", "wake"}
        /\ pthr[p].pc # "none"
  BY <1>1 DEF Owned
<1>10. /\ q.pc \in Owned => pthr[p].pc \in Owned /\ p \notin gone
       /\ q.pc \in {"lock", "attempt", "wake"} => q.addr \in Addrs
       /\ out' \in [Packets -> Seq(Dests)] /\ req' \in [Addrs -> ArpRequest]
       /\ UNCHANGED <<ring, form, srid, routes>>
  BY <1>3, <1>5, <1>9
<1>11. GivesBack(p, q, gone)
  BY <1>1, <1>6, <1>7, <1>8, <1>9, <1>10 DEF GivesBack
<1> QED
  BY <1>11, PktChange

(* The thread of p gives back packets that wait for the address a. *)
LEMMA GivesWaiting ==
  ASSUME PktInv, NEW p \in Packets, NEW q \in ThreadType, NEW a \in Addrs,
         NEW gone \in SUBSET Pk!Waiting(req[a]), NEW r \in ArpRequest,
         pthr[p].pc # "none", q.pc # "none", q.addr = pthr[p].addr,
         q.pc \in Owned => pthr[p].pc \in Owned,
         pthr[p].pc \notin Owned => q.pc = "done",
         q.pc \in {"lock", "attempt", "wake"} => q.addr \in Addrs,
         pthr' = [pthr EXCEPT ![p] = q],
         UNCHANGED <<ring, form, srid, routes>>, msg_ready' \in Maybe,
         out' \in [Packets -> Seq(Dests)],
         \A u \in gone : Len(out'[u]) = 1,
         \A u \in Packets \ gone : out'[u] = out[u],
         req' = [req EXCEPT ![a] = r],
         Pk!Waiting(r) \subseteq Pk!Waiting(req[a]) \ gone
  PROVE  PktInv'
<1>1. req \in [Addrs -> ArpRequest]
  BY DEF PktInv, PktType
<1>2. \A b \in Addrs : \A u \in Pk!Waiting(req[b]) :
        /\ u \in Packets /\ pthr[u].addr = b
        /\ pthr[u].pc \in {"attempt", "wake", "done"} /\ out[u] = <<>>
  BY DEF PktInv, WaitsOnce
<1>3. gone \in SUBSET Packets /\ \A u \in gone : out[u] = <<>> /\ pthr[u].pc \notin Owned
  BY <1>2 DEF Owned
<1>4. req' \in [Addrs -> ArpRequest]
  BY <1>1
<1>5. \A b \in Addrs : req'[b] = IF b = a THEN r ELSE req[b]
  BY <1>1
<1>6. \A b \in Addrs : /\ Pk!Waiting(req'[b]) \subseteq Pk!Waiting(req[b])
                       /\ Pk!Waiting(req'[b]) \cap gone = {}
  <2>1. ASSUME NEW b \in Addrs, b # a, NEW u \in gone
        PROVE  u \notin Pk!Waiting(req[b])
    BY <1>2, <2>1
  <2> QED
    BY <1>5, <2>1
<1>7. \A b \in Addrs : p \in Pk!Waiting(req'[b]) =>
        /\ q.addr = b /\ q.pc \in {"attempt", "wake", "done"}
        /\ out[p] = <<>>
  BY <1>2, <1>6 DEF Owned
<1>8. q.pc \in Owned => pthr[p].pc \in Owned /\ p \notin gone
  BY <1>3
<1>9. /\ \A u \in gone : out[u] = <<>> /\ Len(out'[u]) = 1
      /\ \A u \in Packets \ gone : out'[u] = out[u]
      /\ \A u \in gone : u # p => pthr[u].pc \notin Owned
      /\ \A b \in Addrs : /\ Pk!Waiting(req'[b]) \subseteq Pk!Waiting(req[b]) \cup {p}
                           /\ Pk!Waiting(req'[b]) \cap gone = {}
  BY <1>3, <1>6
<1>10. GivesBack(p, q, gone)
  BY <1>3, <1>4, <1>7, <1>8, <1>9 DEF GivesBack
<1> QED
  BY <1>3, <1>10, PktChange

(* A packet arrives: its form says by which ring. *)
LEMMA ArriveSound ==
  ASSUME PktInv, NEW p \in Packets, Pk!Arrive(p)
  PROVE  PktInv'
<1>1. PICK f \in Forms : /\ form' = [form EXCEPT ![p] = f]
                         /\ ring' = [ring EXCEPT ![f.ring] = Append(@, p)]
  BY DEF Pk!Arrive
<1>2. /\ form[p] = Pk!NoForm
      /\ UNCHANGED <<msg_ready, pthr, out, req, srid, routes>>
  BY DEF Pk!Arrive
<1> DEFINE R == f.ring
<1>3. R \in Pk!RingNames /\ f # Pk!NoForm
  <2>1. f \in [ring : Pk!RingNames, flags : SUBSET STRING, addr : Addrs,
               slot : Slots, dest : STRING]
    BY PacketAssumption
  <2>2. DOMAIN f = {"ring", "flags", "addr", "slot", "dest"} /\ R \in Pk!RingNames
    BY <2>1
  <2>3. DOMAIN Pk!NoForm = {"flags"}
    BY DEF Pk!NoForm
  <2>4. "ring" # "flags"
    OBVIOUS
  <2> QED
    BY <2>2, <2>3, <2>4
<1> HIDE DEF R
<1>4. /\ ring \in [Pk!RingNames -> Seq(Packets)]
      /\ ring' = [ring EXCEPT ![R] = Append(ring[R], p)]
  BY <1>1 DEF PktInv, PktType, R
<1>5. \A r \in Pk!RingNames : ring[r] \in Seq(Packets)
  BY <1>4
<1>6. /\ Append(ring[R], p) \in Seq(Packets)
      /\ DOMAIN Append(ring[R], p) = 1..(Len(ring[R]) + 1)
      /\ DOMAIN ring[R] = 1..Len(ring[R]) /\ Len(ring[R]) \in Nat
      /\ Append(ring[R], p)[Len(ring[R]) + 1] = p
      /\ \A i \in 1..Len(ring[R]) : Append(ring[R], p)[i] = ring[R][i]
  BY <1>3, <1>5
<1>7. /\ ring' \in [Pk!RingNames -> Seq(Packets)]
      /\ \A r \in Pk!RingNames : r # R => ring'[r] = ring[r]
      /\ ring'[R] = Append(ring[R], p)
  BY <1>3, <1>4, <1>6
<1>8. ASSUME NEW r \in Pk!RingNames, NEW i \in DOMAIN ring'[r]
      PROVE  \/ i \in DOMAIN ring[r] /\ ring'[r][i] = ring[r][i]
             \/ r = R /\ i = Len(ring[R]) + 1 /\ ring'[r][i] = p
  <2>1. CASE r # R
    BY <1>7, <1>8, <2>1
  <2>2. CASE r = R
    <3>1. i \in 1..(Len(ring[R]) + 1)
      BY <1>6, <1>7, <1>8, <2>2
    <3>2. i \in 1..Len(ring[R]) \/ i = Len(ring[R]) + 1
      BY <1>6, <3>1
    <3> QED
      BY <1>6, <1>7, <2>2, <3>2
  <2> QED
    BY <2>1, <2>2
<1>9. \A r \in Pk!RingNames : \A i \in DOMAIN ring[r] :
        ring[r][i] \in Packets /\ ring[r][i] # p
  <2>1. \A r \in Pk!RingNames : \A i \in DOMAIN ring[r] : ring[r][i] \in Packets
    BY <1>5
  <2> QED
    BY <1>2, <2>1 DEF PktInv, RingOnce
<1>10. form' \in [Packets -> Forms \cup {Pk!NoForm}] /\ \A u \in Packets : form'[u] = IF u = p THEN f ELSE form[u]
  BY <1>1 DEF PktInv, PktType
<1>11. PktType'
  <2>1. form' \in [Packets -> Forms \cup {[flags |-> {}]}]
    BY <1>10 DEF Pk!NoForm
  <2> QED
    BY <1>2, <1>7, <2>1 DEF PktInv, PktType, Pk!NoForm, Pk!RingNames, Pk!Rings
<1>12. pthr[p].pc = "none"
  BY <1>2 DEF PktInv, ThreadOwns
<1>13. RingOnce'
  <2>1. ASSUME NEW r \in Pk!RingNames, NEW s \in Pk!RingNames,
               NEW i \in DOMAIN ring'[r], NEW j \in DOMAIN ring'[s]
        PROVE  /\ ring'[r][i] = ring'[s][j] => r = s /\ i = j
               /\ pthr[ring'[r][i]].pc = "none" /\ form'[ring'[r][i]] # Pk!NoForm
    <3>1. /\ \/ i \in DOMAIN ring[r] /\ ring'[r][i] = ring[r][i]
             \/ r = R /\ i = Len(ring[R]) + 1 /\ ring'[r][i] = p
          /\ \/ j \in DOMAIN ring[s] /\ ring'[s][j] = ring[s][j]
             \/ s = R /\ j = Len(ring[R]) + 1 /\ ring'[s][j] = p
      BY <1>8
    <3>2. ring'[r][i] = ring'[s][j] => r = s /\ i = j
      BY <1>9, <3>1 DEF PktInv, RingOnce
    <3>3. pthr[ring'[r][i]].pc = "none" /\ form'[ring'[r][i]] # Pk!NoForm
      BY <1>3, <1>9, <1>10, <1>12, <3>1 DEF PktInv, RingOnce
    <3> QED
      BY <3>2, <3>3
  <2> QED
    BY <1>2, <2>1 DEF RingOnce, Pk!NoForm, Pk!RingNames, Pk!Rings
<1>14. ThreadOwns'
  BY <1>2, <1>3, <1>10 DEF PktInv, ThreadOwns, Pk!NoForm
<1>15. WaitsOnce' /\ Pk!ReleasedOnce'
  BY <1>2 DEF PktInv, WaitsOnce, Pk!ReleasedOnce, Pk!Waiting
<1> QED
  BY <1>11, <1>13, <1>14, <1>15 DEF PktInv

LEMMA FirstRingFound ==
  ASSUME \E r \in Pk!RingNames : ring[r] # <<>>
  PROVE  Pk!FirstRing \in Pk!RingNames /\ ring[Pk!FirstRing] # <<>>
<1> DEFINE Is(r) == /\ ring[r] # <<>>
                    /\ \E i \in 1..3 : /\ Pk!Rings[i] = r
                                       /\ \A j \in 1..(i - 1) : ring[Pk!Rings[j]] = <<>>
<1>1. \E i \in 1..3 : ring[Pk!Rings[i]] # <<>>
  BY DEF Pk!RingNames
<1>2. \E r \in Pk!RingNames : Is(r)
  <2>1. PICK i \in 1..3 : /\ ring[Pk!Rings[i]] # <<>>
                          /\ \A j \in 1..(i - 1) : ring[Pk!Rings[j]] = <<>>
    <3>1. CASE ring[Pk!Rings[1]] # <<>>
      BY <3>1
    <3>2. CASE ring[Pk!Rings[1]] = <<>> /\ ring[Pk!Rings[2]] # <<>>
      BY <3>2
    <3>3. CASE ring[Pk!Rings[1]] = <<>> /\ ring[Pk!Rings[2]] = <<>>
      <4>1. ring[Pk!Rings[3]] # <<>>
        BY <1>1, <3>3
      <4>2. \A j \in 1..(3 - 1) : j = 1 \/ j = 2
        OBVIOUS
      <4> QED
        BY <3>3, <4>1, <4>2
    <3> QED
      BY <3>1, <3>2, <3>3
  <2> QED
    BY <2>1 DEF Pk!RingNames
<1> QED
  BY <1>2 DEF Pk!FirstRing

(* The main loop takes the first packet of a ring and starts its thread. *)
LEMMA CheckSound ==
  ASSUME PktInv, Pk!check
  PROVE  PktInv'
<1> DEFINE R == Pk!FirstRing
           p == Head(ring[R])
<1>1. R \in Pk!RingNames /\ ring[R] # <<>>
  BY FirstRingFound DEF Pk!check
<1>2. /\ ring' = [ring EXCEPT ![R] = Tail(@)]
      /\ pthr' = [pthr EXCEPT ![p].pc = "read"]
      /\ msg_ready' = p
      /\ UNCHANGED <<form, out, req, srid, routes>>
  BY DEF Pk!check
<1> HIDE DEF R
<1>3. \A r \in Pk!RingNames : /\ ring[r] \in Seq(Packets) /\ Len(ring[r]) \in Nat
                              /\ DOMAIN ring[r] = 1..Len(ring[r])
  BY DEF PktInv, PktType
<1>4. /\ p = ring[R][1] /\ 1 \in DOMAIN ring[R] /\ p \in Packets
      /\ Tail(ring[R]) \in Seq(Packets)
      /\ DOMAIN Tail(ring[R]) = 1..(Len(ring[R]) - 1)
      /\ \A i \in 1..(Len(ring[R]) - 1) : Tail(ring[R])[i] = ring[R][i + 1]
  BY <1>1, <1>3
<1> HIDE DEF p
<1>5. /\ ring' \in [Pk!RingNames -> Seq(Packets)]
      /\ ring'[R] = Tail(ring[R])
      /\ \A r \in Pk!RingNames : r # R => ring'[r] = ring[r]
  BY <1>1, <1>2, <1>4 DEF PktInv, PktType
<1>6. pthr[p].pc = "none" /\ form[p] # Pk!NoForm
  BY <1>1, <1>4 DEF PktInv, RingOnce
<1> DEFINE q == [pthr[p] EXCEPT !.pc = "read"]
<1>7. q \in ThreadType /\ q.pc = "read" /\ q.addr = pthr[p].addr
  <2>1. p \in Packets /\ "read" \in Stages
    BY <1>4 DEF Stages
  <2> QED
    BY <2>1, ThreadForms
<1>8. /\ pthr' \in [Packets -> ThreadType]
      /\ \A u \in Packets : pthr'[u] = IF u = p THEN q ELSE pthr[u]
  BY <1>2, <1>4, <1>7 DEF PktInv, PktType, ThreadType
<1> HIDE DEF q
<1>9. ASSUME NEW r \in Pk!RingNames, NEW i \in DOMAIN ring'[r]
      PROVE  \E k \in DOMAIN ring[r] : /\ ring'[r][i] = ring[r][k]
                                       /\ k = IF r = R THEN i + 1 ELSE i
                                       /\ r = R => k # 1
                                       /\ i \in Int
  <2>1. CASE r # R
    BY <1>3, <1>5, <1>9, <2>1
  <2>2. CASE r = R
    <3>1. i \in 1..(Len(ring[R]) - 1) /\ i + 1 \in 1..Len(ring[R]) /\ i + 1 # 1
      BY <1>1, <1>3, <1>4, <1>5, <1>9, <2>2
    <3> QED
      BY <1>1, <1>3, <1>4, <1>5, <2>2, <3>1
  <2> QED
    BY <2>1, <2>2
<1>10. PktType'
  BY <1>2, <1>4, <1>5, <1>8 DEF PktInv, PktType, ThreadType, Maybe, Pk!NoForm, Pk!RingNames,
                               Pk!Rings
<1>11. RingOnce'
  <2>1. ASSUME NEW r \in Pk!RingNames, NEW s \in Pk!RingNames,
               NEW i \in DOMAIN ring'[r], NEW j \in DOMAIN ring'[s]
        PROVE  /\ ring'[r][i] = ring'[s][j] => r = s /\ i = j
               /\ pthr'[ring'[r][i]].pc = "none" /\ form[ring'[r][i]] # Pk!NoForm
    <3>1. PICK k \in DOMAIN ring[r] : /\ ring'[r][i] = ring[r][k]
                                      /\ k = IF r = R THEN i + 1 ELSE i
                                      /\ r = R => k # 1
                                      /\ i \in Int
      BY <1>9
    <3>2. PICK l \in DOMAIN ring[s] : /\ ring'[s][j] = ring[s][l]
                                      /\ l = IF s = R THEN j + 1 ELSE j
                                      /\ s = R => l # 1
                                      /\ j \in Int
      BY <1>9
    <3>3. ring[r][k] = ring[s][l] => r = s /\ k = l
      BY DEF PktInv, RingOnce
    <3>4. r = s /\ k = l => i = j
      BY <3>1, <3>2
    <3>5. ring[r][k] # p
      BY <1>1, <1>4, <3>1 DEF PktInv, RingOnce
    <3>6. ring[r][k] \in Packets /\ pthr[ring[r][k]].pc = "none" /\ form[ring[r][k]] # Pk!NoForm
      BY <1>3 DEF PktInv, RingOnce
    <3> QED
      BY <1>8, <3>1, <3>2, <3>3, <3>4, <3>5, <3>6
  <2> QED
    BY <1>2, <2>1 DEF RingOnce, Pk!NoForm, Pk!RingNames, Pk!Rings
<1>12. out[p] = <<>>
  BY <1>4, <1>6 DEF PktInv, ThreadOwns, Owned
<1>13. ThreadOwns'
  BY <1>2, <1>6, <1>7, <1>8, <1>12 DEF PktInv, ThreadOwns, Pk!NoForm, Owned
<1>14. WaitsOnce'
  <2>1. \A a \in Addrs : p \notin Pk!Waiting(req[a])
    BY <1>6 DEF PktInv, WaitsOnce
  <2>2. \A a \in Addrs : Pk!Waiting(req[a])' = Pk!Waiting(req[a])
    BY <1>2 DEF Pk!Waiting
  <2> QED
    BY <1>2, <1>8, <2>1, <2>2 DEF PktInv, WaitsOnce
<1>15. Pk!ReleasedOnce'
  BY <1>2 DEF PktInv, Pk!ReleasedOnce
<1> QED
  BY <1>10, <1>11, <1>13, <1>14, <1>15 DEF PktInv

LEMMA RouteChangeSound ==
  ASSUME PktInv, NEW s \in Slots, Pk!RouteChange(s)
  PROVE  PktInv'
<1>1. /\ UNCHANGED <<ring, msg_ready, form, pthr, out, req>>
      /\ routes' = routes + 1
      /\ srid' = [srid EXCEPT ![s] = IF srid[s] = 0 THEN routes' ELSE 0]
  BY DEF Pk!RouteChange
<1>2. routes' \in Nat /\ srid' \in [Slots -> Nat]
  BY <1>1 DEF PktInv, PktType
<1>3. PktType'
  BY <1>1, <1>2 DEF PktInv, PktType, Pk!NoForm, Pk!RingNames, Pk!Rings
<1>4. RingOnce' /\ ThreadOwns' /\ WaitsOnce' /\ Pk!ReleasedOnce'
  BY <1>1 DEF PktInv, RingOnce, ThreadOwns, WaitsOnce, Pk!ReleasedOnce, Pk!NoForm, Pk!RingNames,
              Pk!Rings, Pk!Waiting
<1> QED
  BY <1>3, <1>4 DEF PktInv

(* The thread of p ends and leaves its packet with the request of its       *)
(* address, or has thrown; or it begins to resolve the address.            *)
LEMMA LeavesOwn ==
  ASSUME PktInv, NEW p \in Packets, pthr[p].pc = "lock", NEW q \in ThreadType,
         q.pc \in {"attempt", "done"}, q.addr = pthr[p].addr,
         pthr' = [pthr EXCEPT ![p] = q],
         NEW r \in ArpRequest, req' = [req EXCEPT ![pthr[p].addr] = r],
         Pk!Waiting(r) \subseteq Pk!Waiting(req[pthr[p].addr]) \cup {p},
         UNCHANGED <<ring, form, out, srid, routes>>, msg_ready' \in Maybe
  PROVE  PktInv'
<1> DEFINE a == pthr[p].addr
<1>1. /\ a \in Addrs /\ out[p] = <<>> /\ req \in [Addrs -> ArpRequest]
      /\ out \in [Packets -> Seq(Dests)]
  BY DEF PktInv, PktType, ThreadOwns, Owned
<1>2. \A b \in Addrs : p \notin Pk!Waiting(req[b])
  BY DEF PktInv, WaitsOnce
<1>3. req' \in [Addrs -> ArpRequest] /\ \A b \in Addrs : req'[b] = IF b = a THEN r ELSE req[b]
  BY <1>1
<1>4. PICK gone \in SUBSET Packets : gone = {}
  OBVIOUS
<1>5. \A b \in Addrs : /\ Pk!Waiting(req'[b]) \subseteq Pk!Waiting(req[b]) \cup {p}
                       /\ Pk!Waiting(req'[b]) \cap gone = {}
  BY <1>3, <1>4
<1>6. \A b \in Addrs : p \in Pk!Waiting(req'[b]) => q.addr = b /\ out[p] = <<>>
  BY <1>1, <1>2, <1>3
<1>7. GivesBack(p, q, gone)
  BY <1>1, <1>3, <1>4, <1>5, <1>6 DEF GivesBack, Owned
<1> QED
  BY <1>7, PktChange

LEMMA ReadSound ==
  ASSUME PktInv, NEW p \in Packets, Pk!readmsg(p)
  PROVE  PktInv'
<1>1. pthr[p].pc = "read" /\ form[p] \in Forms
  BY DEF Pk!readmsg, PktInv, PktType, ThreadOwns
<1> DEFINE f == form[p]
           pc == Pk!First(f)
           a == IF Pk!type(f) = "ARP_NEEDED_DIP" THEN f.addr ELSE NoPacket
           q == [pthr[p] EXCEPT !.pc = pc, !.addr = a]
<1>2. f.addr \in Addrs
  BY <1>1, PacketAssumption
<1>3. pc \in {"lock", "result", "arp", "ipv4"} /\ (pc = "lock" => Pk!type(f) = "ARP_NEEDED_DIP")
  BY DEF Pk!First
<1>4. a \in Addrs \cup {NoPacket} /\ pc \in Stages /\ pc \in Owned /\ pc # "none"
  BY <1>2, <1>3 DEF Stages, Owned
<1>5. pthr' = [pthr EXCEPT ![p] = q] /\ UNCHANGED <<ring, form, out, req, srid, routes>>
        /\ msg_ready' \in Maybe
  BY DEF Pk!readmsg, Maybe
<1>6. pc = "lock" => a \in Addrs
  BY <1>2, <1>3
<1> HIDE DEF pc, a
<1>7. q \in ThreadType /\ q.pc = pc /\ q.addr = a
  <2>1. pthr[p] \in ThreadType
    BY ThreadForms
  <2>2. pc \in Stages /\ a \in Addrs \cup {NoPacket}
    BY <1>4
  <2> QED
    BY <2>1, <2>2 DEF ThreadType
<1> HIDE DEF q
<1>8. pthr[p].pc \in Owned /\ pthr[p].pc # "none"
  BY <1>1 DEF Owned
<1>9. q.pc \in {"lock", "attempt", "wake"} => q.addr \in Addrs
  BY <1>3, <1>6, <1>7
<1> QED
  BY <1>4, <1>5, <1>7, <1>8, <1>9, GoesOn

(* What a packet can be sent to. *)
LEMMA DestOf ==
  ASSUME PktInv, NEW p \in Packets, form[p] # Pk!NoForm
  PROVE  form[p].dest \in Dests /\ form[p] \in Forms /\ form[p].addr \in Addrs
           /\ form[p].slot \in Slots
<1>1. form[p] \in Forms
  BY DEF PktInv, PktType
<1> QED
  BY <1>1, PacketAssumption DEF Dests

(* A handler that ends with its packet dropped or written to a ring. *)
LEMMA HandlerGivesOwn ==
  ASSUME PktInv, NEW p \in Packets, pthr[p].pc \in Owned \ {"none"}, Pk!End(p),
         \/ out' = Pk!Drop(out, p)
         \/ out' \in Pk!writemsg(out, p, "mux")
         \/ out' \in Pk!send_packet_to_data_path(out, p),
         UNCHANGED <<ring, form, srid, routes, msg_ready>>,
         \/ req' = req
         \/ \E a \in Addrs : \E r \in ArpRequest :
              req' = [req EXCEPT ![a] = r] /\ Pk!Waiting(r) \subseteq Pk!Waiting(req[a])
  PROVE  PktInv'
<1>1. form[p].dest \in Dests /\ "flm" \in Dests /\ "mux" \in Dests
  BY DestOf DEF PktInv, ThreadOwns, Dests
<1>2. \E d \in Dests : out' = [out EXCEPT ![p] = Append(@, d)]
  BY <1>1 DEF Pk!Drop, Pk!writemsg, Pk!send_packet_to_data_path
<1>3. msg_ready' \in Maybe
  BY DEF PktInv, PktType
<1> QED
  BY <1>2, <1>3, GivesOwn

LEMMA Ipv4Sound ==
  ASSUME PktInv, NEW p \in Packets, Pk!Ipv4(p) \/ Pk!Reply(p)
  PROVE  PktInv'
<1>1. /\ pthr[p].pc \in Owned \ {"none"} /\ Pk!End(p)
      /\ UNCHANGED <<ring, form, srid, routes, msg_ready>> /\ req' = req
  BY DEF Pk!Ipv4, Pk!Reply, Owned
<1>2. out' = Pk!Drop(out, p) \/ out' \in Pk!writemsg(out, p, "mux")
  BY DEF Pk!Ipv4, Pk!Reply, Pk!send_ttl_expired, Pk!send_no_route, Pk!handle_ip_options,
         Pk!handle_next_hop_invalid, Pk!handle_general_error, Pk!handle_local_delivery
<1> QED
  BY <1>1, <1>2, HandlerGivesOwn

LEMMA ReadResultSound ==
  ASSUME PktInv, NEW p \in Packets, Pk!ReadResult(p)
  PROVE  PktInv'
<1> DEFINE s == form[p].slot
           q == [pthr[p] EXCEPT !.pc = "lock", !.addr = NextHop[s]]
<1>1. pthr[p].pc = "result" /\ pthr[p].pc \in Owned \ {"none"}
        /\ UNCHANGED <<ring, form, srid, routes, msg_ready>> /\ req' = req
  BY DEF Pk!ReadResult, Owned
<1>2. s \in Slots /\ NextHop[s] \in Addrs
  BY <1>1, DestOf, PacketAssumption DEF PktInv, ThreadOwns
<1>3. CASE mac[s]
  BY <1>1, <1>3, HandlerGivesOwn DEF Pk!ReadResult
<1>4. CASE ~mac[s]
  <2>1. pthr' = [pthr EXCEPT ![p] = q] /\ out' = out /\ msg_ready' \in Maybe
    BY <1>4 DEF Pk!ReadResult, PktInv, PktType
  <2>2. q \in ThreadType /\ q.pc = "lock" /\ q.addr = NextHop[s]
    <3>1. "lock" \in Stages /\ NextHop[s] \in Addrs \cup {NoPacket}
      BY <1>2 DEF Stages
    <3>2. pthr[p] \in ThreadType
      BY ThreadForms
    <3> HIDE DEF s
    <3> QED
      BY <3>1, <3>2 DEF ThreadType
  <2> HIDE DEF q, s
  <2>3. UNCHANGED <<ring, form, out, req, srid, routes>> /\ "lock" \in Owned
    BY <1>1, <2>1 DEF Owned
  <2> QED
    BY <1>1, <1>2, <2>1, <2>2, <2>3, GoesOn
<1> QED
  BY <1>3, <1>4

LEMMA AttemptSound ==
  ASSUME PktInv, NEW p \in Packets, Pk!Attempt(p) \/ Pk!Wake(p)
  PROVE  PktInv'
<1> DEFINE t == pthr[p]
           n == t.attempts + 1
<1>1. /\ t.pc \in {"attempt", "wake"} /\ t.addr \in Addrs
      /\ UNCHANGED <<ring, form, out, req, srid, routes>> /\ msg_ready' \in Maybe
  BY DEF Pk!Attempt, Pk!Wake, PktInv, PktType, ThreadOwns
<1>2. t \in ThreadType /\ n \in Nat
  BY ThreadForms
<1>3. \E q \in ThreadType : /\ pthr' = [pthr EXCEPT ![p] = q] /\ q.addr = t.addr
                            /\ q.pc \in {"attempt", "wake", "done"}
  <2>1. \/ pthr' = [pthr EXCEPT ![p] = [t EXCEPT !.pc = "wake"]]
        \/ pthr' = [pthr EXCEPT ![p] = [t EXCEPT !.pc = "done"]]
        \/ pthr' = [pthr EXCEPT ![p] = [t EXCEPT !.attempts = n]]
        \/ pthr' = [pthr EXCEPT ![p] = [t EXCEPT !.pc = "attempt", !.attempts = n]]
    BY DEF Pk!Attempt, Pk!Wake, Pk!End
  <2> HIDE DEF t, n
  <2>2. /\ [t EXCEPT !.pc = "wake"] \in ThreadType /\ [t EXCEPT !.pc = "wake"].addr = t.addr
        /\ [t EXCEPT !.pc = "done"] \in ThreadType /\ [t EXCEPT !.pc = "done"].addr = t.addr
        /\ [t EXCEPT !.pc = "wake"].pc = "wake" /\ [t EXCEPT !.pc = "done"].pc = "done"
    BY <1>2 DEF ThreadType, Stages
  <2>3. /\ [t EXCEPT !.attempts = n] \in ThreadType /\ [t EXCEPT !.attempts = n].addr = t.addr
        /\ [t EXCEPT !.attempts = n].pc = t.pc
    BY <1>2 DEF ThreadType
  <2>4. /\ [t EXCEPT !.pc = "attempt", !.attempts = n] \in ThreadType
        /\ [t EXCEPT !.pc = "attempt", !.attempts = n].addr = t.addr
        /\ [t EXCEPT !.pc = "attempt", !.attempts = n].pc = "attempt"
    BY <1>2 DEF ThreadType, Stages
  <2> QED
    BY <1>1, <2>1, <2>2, <2>3, <2>4
<1>4. PICK q \in ThreadType : /\ pthr' = [pthr EXCEPT ![p] = q] /\ q.addr = t.addr
                              /\ q.pc \in {"attempt", "wake", "done"}
  BY <1>3
<1>5. t.pc # "none" /\ q.pc # "none" /\ q.pc \notin Owned
  BY <1>1, <1>4 DEF Owned
<1> QED
  BY <1>1, <1>4, <1>5, GoesOn

(* What SentAll does to the buffers of packets that have not been given     *)
(* back.                                                                   *)
LEMMA SentAllGives ==
  ASSUME PktInv, NEW ps \in SUBSET Packets, out' \in Pk!SentAll(out, ps),
         \A u \in ps : out[u] = <<>> /\ form[u] # Pk!NoForm
  PROVE  /\ out' \in [Packets -> Seq(Dests)]
         /\ \A u \in ps : Len(out'[u]) = 1
         /\ \A u \in Packets \ ps : out'[u] = out[u]
<1>1. PICK full \in SUBSET ps :
        out' = [u \in Packets |->
                  IF u \notin ps THEN out[u]
                  ELSE Append(out[u], IF u \in full THEN "flm" ELSE form[u].dest)]
  BY DEF Pk!SentAll
<1>2. \A u \in ps : form[u].dest \in Dests /\ "flm" \in Dests
  BY DestOf DEF Dests
<1>3. \A d \in Dests : Append(<<>>, d) \in Seq(Dests) /\ Len(Append(<<>>, d)) = 1
  OBVIOUS
<1>4. \A u \in Packets : out[u] \in Seq(Dests)
  BY DEF PktInv, PktType
<1>5. ASSUME NEW u \in ps
      PROVE  out'[u] \in Seq(Dests) /\ Len(out'[u]) = 1
  <2>1. out'[u] = Append(<<>>, IF u \in full THEN "flm" ELSE form[u].dest)
    BY <1>1
  <2> QED
    BY <1>2, <1>3, <2>1
<1>6. \A u \in Packets \ ps : out'[u] = out[u]
  BY <1>1
<1>7. out' \in [Packets -> Seq(Dests)]
  BY <1>1, <1>4, <1>5, <1>6
<1> QED
  BY <1>5, <1>6, <1>7

(* Packets that wait have not been given back. *)
LEMMA WaitingFacts ==
  ASSUME PktInv, NEW a \in Addrs
  PROVE  /\ req[a] \in ArpRequest /\ Pk!Waiting(req[a]) \subseteq Packets
         /\ \A u \in Pk!Waiting(req[a]) : out[u] = <<>> /\ form[u] # Pk!NoForm
         /\ Pk!Waiting(Pk!Cleared(req[a])) = {} /\ Pk!Cleared(req[a]) \in ArpRequest
<1>1. req[a] \in ArpRequest
  BY DEF PktInv, PktType
<1>2. \A u \in Pk!Waiting(req[a]) : u \in Packets /\ out[u] = <<>> /\ form[u] # Pk!NoForm
  BY DEF PktInv, WaitsOnce, ThreadOwns
<1>3. Pk!Waiting(Pk!Cleared(req[a])) = {} /\ Pk!Cleared(req[a]) \in ArpRequest
  BY <1>1, WaitingWithout DEF Pk!Cleared
<1> QED
  BY <1>1, <1>2, <1>3

(* An ARP packet teaches an address: the packets that wait for it go on. *)
LEMMA LearnSound ==
  ASSUME PktInv, NEW p \in Packets, pthr[p].pc = "arp", NEW a \in Addrs, Pk!Learn(p, a),
         UNCHANGED <<ring, msg_ready, form, srid, routes>>
  PROVE  PktInv'
<1> DEFINE r == req[a]
           w == IF r.state = "OUTSTANDING" THEN Pk!Waiting(r) ELSE {}
           s == IF w # {} THEN Pk!Cleared(r) ELSE r
<1>1. /\ r \in ArpRequest /\ w \in SUBSET Pk!Waiting(r) /\ w \in SUBSET Packets
      /\ \A u \in w : out[u] = <<>> /\ form[u] # Pk!NoForm
  BY WaitingFacts
<1>2. s \in ArpRequest /\ Pk!Waiting(s) \subseteq Pk!Waiting(r) \ w
  BY <1>1, WaitingFacts
<1>3. out' \in Pk!SentAll(out, w)
  BY DEF Pk!Learn
<1> DEFINE fin == [s EXCEPT !.state = "FINISHED"]
           fv == [fin EXCEPT !.valid = TRUE]
<1>4. /\ fin \in ArpRequest /\ Pk!Waiting(fin) = Pk!Waiting(s)
      /\ fv \in ArpRequest /\ Pk!Waiting(fv) = Pk!Waiting(s)
  <2> HIDE DEF s
  <2>1. fin \in ArpRequest /\ Pk!Waiting(fin) = Pk!Waiting(s)
    BY <1>2, WaitingForms
  <2> HIDE DEF fin
  <2> QED
    BY <2>1, WaitingForms
<1>5. r.state = "NONE" => w = {} /\ s = r
  OBVIOUS
<1>6. \/ req' = [req EXCEPT ![a] = [s EXCEPT !.state = "FINISHED", !.valid = TRUE]]
           /\ pthr' = [pthr EXCEPT ![p].pc = "reply"]
      \/ /\ req' = [req EXCEPT ![a] = IF r.state # "NONE" THEN s
                                      ELSE [r EXCEPT !.state = "FINISHED"]]
         /\ pthr' = [pthr EXCEPT ![p].pc = "done"]
  BY DEF Pk!Learn, Pk!Throw, Pk!End
<1>7. [s EXCEPT !.state = "FINISHED", !.valid = TRUE] = fv
  <2> HIDE DEF s
  <2> QED
    BY <1>2 DEF ArpRequest
<1>8. PICK n \in ArpRequest : /\ req' = [req EXCEPT ![a] = n]
                              /\ Pk!Waiting(n) \subseteq Pk!Waiting(r) \ w
  <2>1. req' = [req EXCEPT ![a] = fv] \/ req' = [req EXCEPT ![a] = s]
          \/ req' = [req EXCEPT ![a] = fin]
    BY <1>5, <1>6, <1>7
  <2> HIDE DEF fv, s, fin, w, r
  <2> QED
    BY <1>2, <1>4, <2>1
<1>9. PICK q \in ThreadType : /\ pthr' = [pthr EXCEPT ![p] = q] /\ q.addr = pthr[p].addr
                              /\ q.pc \in {"reply", "done"}
  <2>1. "reply" \in Stages /\ "done" \in Stages
    BY DEF Stages
  <2>2. \/ pthr' = [pthr EXCEPT ![p] = [pthr[p] EXCEPT !.pc = "reply"]]
        \/ pthr' = [pthr EXCEPT ![p] = [pthr[p] EXCEPT !.pc = "done"]]
    BY <1>6
  <2> QED
    BY <2>1, <2>2, ThreadForms
<1>10. /\ out' \in [Packets -> Seq(Dests)]
       /\ \A u \in w : Len(out'[u]) = 1
       /\ \A u \in Packets \ w : out'[u] = out[u]
  <2> HIDE DEF w
  <2> QED
    BY <1>1, <1>3, SentAllGives
<1>11. /\ pthr[p].pc # "none" /\ q.pc # "none"
       /\ pthr[p].pc \in Owned /\ q.pc \notin {"lock", "attempt", "wake"}
       /\ UNCHANGED <<ring, form, srid, routes>> /\ msg_ready' \in Maybe
  BY <1>9 DEF Owned, PktInv, PktType
<1> HIDE DEF w, r
<1> QED
  BY <1>1, <1>8, <1>9, <1>10, <1>11, GivesWaiting DEF r

(* A waiting packet for an invalid plugin throws; those before it are sent. *)
LEMMA LearnThrowsSound ==
  ASSUME PktInv, NEW p \in Packets, pthr[p].pc = "arp", NEW a \in Addrs, Pk!LearnThrows(p, a),
         UNCHANGED <<ring, msg_ready, form, srid, routes>>
  PROVE  PktInv'
<1> DEFINE r == req[a]
           line == <<r.dip>> \o [i \in DOMAIN r.nhr |-> r.nhr[i].pkt]
           bad == {i \in DOMAIN line : line[i] # NoPacket /\ Pk!Throws(line[i])}
           sent == {line[i] : i \in {j \in DOMAIN line : \A k \in bad : j < k}} \ {NoPacket}
<1>1. /\ out' \in Pk!SentAll(out, sent)
      /\ req' = [req EXCEPT ![a] = Pk!Without(r, sent)]
      /\ pthr' = [pthr EXCEPT ![p].pc = "done"]
  BY DEF Pk!LearnThrows, Pk!Throw, Pk!End
<1>2. /\ r \in ArpRequest /\ Pk!Waiting(r) \subseteq Packets
      /\ \A u \in Pk!Waiting(r) : out[u] = <<>> /\ form[u] # Pk!NoForm
  BY WaitingFacts
<1>3. sent \subseteq Pk!Waiting(r)
  <2> DEFINE m == r.nhr
             b == [i \in DOMAIN m |-> m[i].pkt]
  <2>1. m \in Seq(Node) /\ Len(m) \in Nat /\ DOMAIN m = 1..Len(m) /\ r.dip \in Maybe
    BY <1>2 DEF ArpRequest
  <2>2. \A i \in DOMAIN m : m[i].pkt \in Maybe
    <3>1. \A i \in DOMAIN m : m[i] \in Node
      BY <2>1
    <3> QED
      BY <3>1 DEF Node
  <2>3. b \in Seq(Maybe) /\ Len(b) = Len(m) /\ \A i \in 1..Len(m) : b[i] = m[i].pkt
    <3>1. b \in [1..Len(m) -> Maybe]
      BY <2>1, <2>2
    <3>2. \A i \in 1..Len(m) : b[i] = m[i].pkt
      BY <2>1
    <3> HIDE DEF b, m
    <3> QED
      BY <2>1, <3>1, <3>2
  <2>4. line = <<r.dip>> \o b
    OBVIOUS
  <2> HIDE DEF b, m
  <2>5. /\ DOMAIN (<<r.dip>> \o b) = 1..(Len(m) + 1) /\ (<<r.dip>> \o b)[1] = r.dip
        /\ \A i \in 2..(Len(m) + 1) : (<<r.dip>> \o b)[i] = b[i - 1] /\ i - 1 \in 1..Len(m)
    BY <2>1, <2>3
  <2> HIDE DEF line
  <2>6. \A i \in DOMAIN line : line[i] = r.dip \/ \E j \in 1..Len(m) : line[i] = m[j].pkt
    <3>1. \A i \in DOMAIN line : i = 1 \/ i \in 2..(Len(m) + 1)
      BY <2>1, <2>4, <2>5
    <3> QED
      BY <2>3, <2>4, <2>5, <3>1
  <2>7. \A x \in sent : x # NoPacket /\ \E i \in DOMAIN line : x = line[i]
    OBVIOUS
  <2> QED
    BY <2>1, <2>6, <2>7 DEF Pk!Waiting, m
<1> HIDE DEF sent, bad, line
<1>4. sent \in SUBSET Packets /\ \A u \in sent : out[u] = <<>> /\ form[u] # Pk!NoForm
  BY <1>2, <1>3
<1>5. /\ out' \in [Packets -> Seq(Dests)]
      /\ \A u \in sent : Len(out'[u]) = 1
      /\ \A u \in Packets \ sent : out'[u] = out[u]
  BY <1>1, <1>4, SentAllGives
<1>6. PICK n \in ArpRequest : /\ req' = [req EXCEPT ![a] = n]
                              /\ Pk!Waiting(n) \subseteq Pk!Waiting(r) \ sent
  <2> HIDE DEF r
  <2>1. /\ Pk!Without(r, sent) \in ArpRequest
        /\ Pk!Waiting(Pk!Without(r, sent)) \subseteq Pk!Waiting(r) \ sent
    BY <1>2, WaitingWithout
  <2> QED
    BY <1>1, <2>1
<1>7. PICK q \in ThreadType : /\ pthr' = [pthr EXCEPT ![p] = q] /\ q.addr = pthr[p].addr
                              /\ q.pc = "done"
  <2>1. "done" \in Stages /\ pthr' = [pthr EXCEPT ![p] = [pthr[p] EXCEPT !.pc = "done"]]
    BY <1>1 DEF Stages
  <2> QED
    BY <2>1, ThreadForms
<1>8. /\ pthr[p].pc # "none" /\ q.pc # "none"
      /\ pthr[p].pc \in Owned /\ q.pc \notin {"lock", "attempt", "wake"}
      /\ UNCHANGED <<ring, form, srid, routes>> /\ msg_ready' \in Maybe
  BY <1>7 DEF Owned, PktInv, PktType
<1> QED
  BY <1>3, <1>5, <1>6, <1>7, <1>8, GivesWaiting

LEMMA ArpPacketSound ==
  ASSUME PktInv, NEW p \in Packets, Pk!process_arp_packet(p)
  PROVE  PktInv'
<1>1. pthr[p].pc = "arp" /\ UNCHANGED <<ring, msg_ready, form, srid, routes>>
  BY DEF Pk!process_arp_packet
<1>2. form[p].addr \in Addrs
  BY <1>1, DestOf DEF PktInv, ThreadOwns
<1>3. CASE out' = Pk!Drop(out, p) /\ Pk!End(p) /\ req' = req
  <2>1. pthr[p].pc \in Owned \ {"none"}
    BY <1>1 DEF Owned
  <2> QED
    BY <1>1, <1>3, <2>1, HandlerGivesOwn
<1>4. CASE Pk!Learn(p, form[p].addr)
  BY <1>1, <1>2, <1>4, LearnSound
<1>5. CASE Pk!LearnThrows(p, form[p].addr)
  BY <1>1, <1>2, <1>5, LearnThrowsSound
<1> QED
  BY <1>3, <1>4, <1>5 DEF Pk!process_arp_packet

(* The last attempt is over: the packets that wait are dropped. *)
LEMMA GiveUpSound ==
  ASSUME PktInv, NEW p \in Packets, Pk!GiveUp(p)
  PROVE  PktInv'
<1> DEFINE a == pthr[p].addr
           w == Pk!Waiting(req[a])
           c == Pk!Cleared(req[a])
           n == [c EXCEPT !.state = "FAILED"]
<1>1. /\ pthr[p].pc = "attempt" /\ a \in Addrs
      /\ UNCHANGED <<ring, form, srid, routes>> /\ msg_ready' \in Maybe
      /\ out' = [u \in Packets |-> IF u \in w THEN Append(out[u], "flm") ELSE out[u]]
      /\ req' = [req EXCEPT ![a] = n]
      /\ pthr' = [pthr EXCEPT ![p] = [pthr[p] EXCEPT !.pc = "done"]]
  BY DEF Pk!GiveUp, Pk!Set, Pk!End, PktInv, PktType, ThreadOwns
<1>2. /\ w \subseteq Packets /\ \A u \in w : out[u] = <<>>
      /\ c \in ArpRequest /\ Pk!Waiting(c) = {}
  BY <1>1, WaitingFacts
<1>3. n \in ArpRequest /\ Pk!Waiting(n) = {}
  <2> HIDE DEF c
  <2> QED
    BY <1>2, WaitingForms
<1>4. /\ out' \in [Packets -> Seq(Dests)]
      /\ \A u \in w : Len(out'[u]) = 1
      /\ \A u \in Packets \ w : out'[u] = out[u]
  <2>1. "flm" \in Dests
    BY DEF Dests
  <2>2. Append(<<>>, "flm") \in Seq(Dests) /\ Len(Append(<<>>, "flm")) = 1
    BY <2>1
  <2>3. \A u \in Packets : out[u] \in Seq(Dests)
    BY DEF PktInv, PktType
  <2> HIDE DEF w
  <2>4. \A u \in w : out'[u] = Append(<<>>, "flm")
    BY <1>1, <1>2
  <2>5. \A u \in Packets \ w : out'[u] = out[u]
    BY <1>1
  <2>6. out' \in [Packets -> Seq(Dests)]
    BY <1>1, <2>2, <2>3, <2>4, <2>5
  <2> QED
    BY <2>2, <2>4, <2>5, <2>6
<1>5. PICK q \in ThreadType : /\ pthr' = [pthr EXCEPT ![p] = q] /\ q.addr = pthr[p].addr
                              /\ q.pc = "done"
  <2>1. "done" \in Stages
    BY DEF Stages
  <2> QED
    BY <1>1, <2>1, ThreadForms
<1>6. /\ pthr[p].pc # "none" /\ q.pc # "none" /\ q.pc \notin Owned
      /\ q.pc \notin {"lock", "attempt", "wake"}
  BY <1>1, <1>5 DEF Owned
<1>7. w \in SUBSET Pk!Waiting(req[a]) /\ Pk!Waiting(n) \subseteq Pk!Waiting(req[a]) \ w
  BY <1>3
<1> HIDE DEF w, n, c, a
<1> QED
  BY <1>1, <1>3, <1>4, <1>5, <1>6, <1>7, GivesWaiting

(* What send_arp_request finds with the lock: a request, and the node it    *)
(* would add for its route.                                                *)
LEMMA LockFacts ==
  ASSUME PktInv, NEW p \in Packets, pthr[p].pc = "lock"
  PROVE  /\ pthr[p].addr \in Addrs /\ req[pthr[p].addr] \in ArpRequest
         /\ Pk!NhrNode(p, p) \in Node /\ Pk!NhrNode(p, p).pkt = p
         /\ Pk!NhrNode(p, NoPacket) \in Node /\ Pk!NhrNode(p, NoPacket).pkt = NoPacket
         /\ pthr[p].pc \in Owned \ {"none"}
<1>1. pthr[p].addr \in Addrs /\ req[pthr[p].addr] \in ArpRequest
  BY DEF PktInv, PktType, ThreadOwns
<1>2. form[p].slot \in Slots
  BY DestOf DEF PktInv, ThreadOwns
<1>3. srid[form[p].slot] \in Nat
  BY <1>2 DEF PktInv, PktType
<1>4. p \in Maybe /\ NoPacket \in Maybe
  BY DEF Maybe
<1> QED
  BY <1>1, <1>2, <1>3, <1>4 DEF Pk!NhrNode, Node, Owned

(* The thread of p leaves its packet with the request, and ends.           *)
LEMMA EndsWithRequest ==
  ASSUME PktInv, NEW p \in Packets, pthr[p].pc = "lock", Pk!End(p),
         NEW n \in ArpRequest, req' = [req EXCEPT ![pthr[p].addr] = n],
         Pk!Waiting(n) \subseteq Pk!Waiting(req[pthr[p].addr]) \cup {p},
         UNCHANGED <<ring, form, out, srid, routes, msg_ready>>
  PROVE  PktInv'
<1>1. "done" \in Stages /\ pthr' = [pthr EXCEPT ![p] = [pthr[p] EXCEPT !.pc = "done"]]
  BY DEF Stages, Pk!End
<1>2. PICK q \in ThreadType : /\ pthr' = [pthr EXCEPT ![p] = q] /\ q.addr = pthr[p].addr
                              /\ q.pc = "done"
  BY <1>1, ThreadForms
<1>3. q.pc \in {"attempt", "done"} /\ msg_ready' \in Maybe
        /\ UNCHANGED <<ring, form, out, srid, routes>>
  BY <1>2 DEF PktInv, PktType
<1> QED
  BY <1>2, <1>3, LeavesOwn

(* A result whose route is gone: get_sram_map throws.                      *)
LEMMA NoRouteSound ==
  ASSUME PktInv, NEW p \in Packets, pthr[p].pc = "lock",
         Pk!GetSramMapThrows(p, pthr[p].addr, req[pthr[p].addr]),
         UNCHANGED <<ring, msg_ready, form, srid, routes>>
  PROVE  PktInv'
<1> DEFINE r == req[pthr[p].addr]
           o == [r EXCEPT !.state = "OUTSTANDING"]
           m == <<Pk!NhrNode(p, p)>>
           n == [o EXCEPT !.nhr = m]
<1>1. r \in ArpRequest /\ Pk!NhrNode(p, p) \in Node /\ Pk!NhrNode(p, p).pkt = p
  BY LockFacts
<1>2. /\ Pk!End(p) /\ out' = out
      /\ \/ req' = [req EXCEPT ![pthr[p].addr] =
                      [r EXCEPT !.state = "OUTSTANDING", !.nhr = m]]
         \/ req' = [req EXCEPT ![pthr[p].addr] = o]
         \/ req' = [req EXCEPT ![pthr[p].addr] = r]
  BY DEF Pk!GetSramMapThrows, Pk!Set, Pk!Throw
<1>3. o \in ArpRequest /\ Pk!Waiting(o) = Pk!Waiting(r)
  <2> HIDE DEF r
  <2> QED
    BY <1>1, WaitingForms
<1>4. [r EXCEPT !.state = "OUTSTANDING", !.nhr = m] = n
  <2> HIDE DEF r, m
  <2> QED
    BY <1>1 DEF ArpRequest
<1>5. n \in ArpRequest /\ Pk!Waiting(n) \subseteq Pk!Waiting(r) \cup {p}
  <2>1. n \in ArpRequest
          /\ Pk!Waiting(n) \subseteq Pk!Waiting(o) \cup ({Pk!NhrNode(p, p).pkt} \ {NoPacket})
    <3> HIDE DEF o
    <3> QED
      BY <1>1, <1>3, WaitingNodes
  <2> HIDE DEF n, o, r
  <2> QED
    BY <1>1, <1>3, <2>1
<1> HIDE DEF n, o, m
<1>6. \E u \in ArpRequest : /\ req' = [req EXCEPT ![pthr[p].addr] = u]
                            /\ Pk!Waiting(u) \subseteq Pk!Waiting(r) \cup {p}
  <2> HIDE DEF r
  <2> QED
    BY <1>1, <1>2, <1>3, <1>4, <1>5
<1>7. UNCHANGED <<ring, form, out, srid, routes, msg_ready>>
  BY <1>2
<1> QED
  BY <1>2, <1>6, <1>7, EndsWithRequest

(* A new or failed request: the packet waits in it and its thread sends.   *)
LEMMA AskSound ==
  ASSUME PktInv, NEW p \in Packets, pthr[p].pc = "lock",
         Pk!Ask(p, pthr[p].addr, req[pthr[p].addr]),
         UNCHANGED <<ring, msg_ready, form, srid, routes>>
  PROVE  PktInv'
<1> DEFINE r == req[pthr[p].addr]
           old == Pk!find_nhr(r, srid[form[p].slot])
           i == CHOOSE j \in old : TRUE
           k == IF Pk!Dip(p) THEN [r EXCEPT !.dip = p]
                ELSE IF old # {} THEN [r EXCEPT !.nhr[i].pkt = p]
                ELSE [r EXCEPT !.nhr = <<Pk!NhrNode(p, p)>> \o @]
           n == [k EXCEPT !.state = "OUTSTANDING"]
           q == [pthr[p] EXCEPT !.pc = "attempt", !.attempts = 0]
<1>1. r \in ArpRequest /\ Pk!NhrNode(p, p) \in Node /\ Pk!NhrNode(p, p).pkt = p
  BY LockFacts
<1>2. /\ req' = [req EXCEPT ![pthr[p].addr] = n] /\ pthr' = [pthr EXCEPT ![p] = q]
      /\ UNCHANGED <<ring, form, out, srid, routes>> /\ msg_ready' \in Maybe
  BY DEF Pk!Ask, Pk!Set, Pk!Start, PktInv, PktType
<1>3. old # {} => i \in DOMAIN r.nhr
  BY DEF Pk!find_nhr
<1>4. k \in ArpRequest /\ Pk!Waiting(k) \subseteq Pk!Waiting(r) \cup {p}
  <2> HIDE DEF r, i, old
  <2>1. CASE Pk!Dip(p)
    BY <1>1, <2>1, WaitingForms
  <2>2. CASE ~Pk!Dip(p) /\ old # {}
    BY <1>1, <1>3, <2>2, WaitingNodes
  <2>3. CASE ~Pk!Dip(p) /\ old = {}
    <3>1. k = [r EXCEPT !.nhr = <<Pk!NhrNode(p, p)>> \o @]
      BY <2>3
    <3> HIDE DEF k
    <3> QED
      BY <1>1, <3>1, WaitingNodes
  <2> QED
    BY <2>1, <2>2, <2>3
<1>5. n \in ArpRequest /\ Pk!Waiting(n) \subseteq Pk!Waiting(r) \cup {p}
  <2> HIDE DEF k, r
  <2> QED
    BY <1>4, WaitingForms
<1>6. q \in ThreadType /\ q.pc \in {"attempt", "done"} /\ q.addr = pthr[p].addr
  <2>1. pthr[p] \in ThreadType
    BY ThreadForms
  <2> QED
    BY <2>1 DEF ThreadType, Stages
<1> HIDE DEF n, q
<1> QED
  BY <1>2, <1>5, <1>6, LeavesOwn

(* A request that waits for its answer or has it: the packet is dropped,   *)
(* goes on at once, or waits with the others.                              *)
LEMMA JoinSound ==
  ASSUME PktInv, NEW p \in Packets, pthr[p].pc = "lock",
         Pk!Join(p, pthr[p].addr, req[pthr[p].addr]),
         UNCHANGED <<ring, msg_ready, form, srid, routes>>
  PROVE  PktInv'
<1> DEFINE a == pthr[p].addr
           r == req[a]
           added(x) == [r EXCEPT !.nhr = <<Pk!NhrNode(p, x)>> \o @]
<1>1. /\ a \in Addrs /\ r \in ArpRequest /\ pthr[p].pc \in Owned \ {"none"}
      /\ Pk!NhrNode(p, p) \in Node /\ Pk!NhrNode(p, p).pkt = p
      /\ Pk!NhrNode(p, NoPacket) \in Node /\ Pk!NhrNode(p, NoPacket).pkt = NoPacket
  BY LockFacts
<1>2. /\ added(p) \in ArpRequest /\ Pk!Waiting(added(p)) \subseteq Pk!Waiting(r) \cup {p}
      /\ added(NoPacket) \in ArpRequest /\ Pk!Waiting(added(NoPacket)) \subseteq Pk!Waiting(r)
  <2> HIDE DEF r, a
  <2>1. /\ added(p) \in ArpRequest
        /\ Pk!Waiting(added(p)) \subseteq Pk!Waiting(r) \cup ({Pk!NhrNode(p, p).pkt} \ {NoPacket})
    BY <1>1, WaitingNodes
  <2>2. /\ added(NoPacket) \in ArpRequest
        /\ Pk!Waiting(added(NoPacket))
             \subseteq Pk!Waiting(r) \cup ({Pk!NhrNode(p, NoPacket).pkt} \ {NoPacket})
    BY <1>1, WaitingNodes
  <2> HIDE DEF added
  <2> QED
    BY <1>1, <2>1, <2>2
<1>3. /\ [r EXCEPT !.dip = p] \in ArpRequest
      /\ Pk!Waiting([r EXCEPT !.dip = p]) \subseteq Pk!Waiting(r) \cup {p}
      /\ [r EXCEPT !.valid = TRUE] \in ArpRequest
      /\ Pk!Waiting([r EXCEPT !.valid = TRUE]) \subseteq Pk!Waiting(r)
  <2> HIDE DEF r, a
  <2> QED
    BY <1>1, WaitingForms
<1>4. Pk!Throw(p) => Pk!End(p)
  BY DEF Pk!Throw
<1>5. CASE out' = Pk!Drop(out, p) /\ Pk!End(p) /\ req' = req
  BY <1>1, <1>5, HandlerGivesOwn
<1>6. CASE Pk!AlreadyFinished(p, a, r) /\ Pk!Throws(p)
  <2>1. /\ Pk!End(p) /\ out' = out
        /\ req' = [req EXCEPT ![a] = r] \/ req' = [req EXCEPT ![a] = added(NoPacket)]
    BY <1>4, <1>6 DEF Pk!AlreadyFinished, Pk!Set
  <2>2. \E n \in ArpRequest : /\ req' = [req EXCEPT ![a] = n]
                              /\ Pk!Waiting(n) \subseteq Pk!Waiting(r) \cup {p}
    <3> HIDE DEF added, r, a
    <3> QED
      BY <1>1, <1>2, <2>1
  <2>3. UNCHANGED <<ring, form, out, srid, routes, msg_ready>>
    BY <2>1
  <2> QED
    BY <2>1, <2>2, <2>3, EndsWithRequest
<1>7. CASE Pk!AlreadyFinished(p, a, r) /\ ~Pk!Throws(p)
  <2>1. /\ Pk!End(p) /\ out' \in Pk!send_packet_to_data_path(out, p)
        /\ \/ req' = [req EXCEPT ![a] = [r EXCEPT !.valid = TRUE]]
           \/ req' = [req EXCEPT ![a] = added(NoPacket)]
           \/ req' = req
    BY <1>4, <1>7 DEF Pk!AlreadyFinished, Pk!Set
  <2>2. \/ req' = req
        \/ \E b \in Addrs : \E n \in ArpRequest :
             req' = [req EXCEPT ![b] = n] /\ Pk!Waiting(n) \subseteq Pk!Waiting(req[b])
    <3>1. r = req[a]
      OBVIOUS
    <3> HIDE DEF added, r, a
    <3> QED
      BY <1>1, <1>2, <1>3, <2>1, <3>1
  <2> QED
    BY <1>1, <2>1, <2>2, HandlerGivesOwn
<1>8. CASE /\ Pk!Set(a, IF Pk!Dip(p) THEN [r EXCEPT !.dip = p] ELSE added(p))
           /\ Pk!End(p) /\ out' = out
  <2>1. req' = [req EXCEPT ![a] = [r EXCEPT !.dip = p]] \/ req' = [req EXCEPT ![a] = added(p)]
    BY <1>8 DEF Pk!Set
  <2>2. \E n \in ArpRequest : /\ req' = [req EXCEPT ![a] = n]
                              /\ Pk!Waiting(n) \subseteq Pk!Waiting(r) \cup {p}
    <3> HIDE DEF added, r, a
    <3> QED
      BY <1>2, <1>3, <2>1
  <2>3. UNCHANGED <<ring, form, out, srid, routes, msg_ready>>
    BY <1>8
  <2> QED
    BY <1>8, <2>2, <2>3, EndsWithRequest
<1> QED
  BY <1>5, <1>6, <1>7, <1>8 DEF Pk!Join

LEMMA RequestSent ==
  ASSUME PktInv, NEW p \in Packets, Pk!send_arp_request(p)
  PROVE  PktInv'
<1>1. pthr[p].pc = "lock" /\ UNCHANGED <<ring, msg_ready, form, srid, routes>>
  BY DEF Pk!send_arp_request
<1>2. \/ Pk!GetSramMapThrows(p, pthr[p].addr, req[pthr[p].addr])
      \/ Pk!Ask(p, pthr[p].addr, req[pthr[p].addr])
      \/ Pk!Join(p, pthr[p].addr, req[pthr[p].addr])
  BY DEF Pk!send_arp_request
<1> QED
  BY <1>1, <1>2, NoRouteSound, AskSound, JoinSound

LEMMA PktInit ==
  ASSUME MCInit
  PROVE  kind = "packets" => PktInv
<1> SUFFICES ASSUME kind = "packets"
             PROVE  PktInv
  OBVIOUS
<1>1. Pk!Init
  BY DEF MCInit
<1>2. Pk!NoRequest \in ArpRequest /\ Pk!Waiting(Pk!NoRequest) = {}
  <2>1. <<>> \in Seq(Node) /\ NoPacket \in Maybe
    BY DEF Maybe
  <2>2. Pk!NoRequest \in ArpRequest /\ Pk!NoRequest.dip = NoPacket /\ Pk!NoRequest.nhr = <<>>
    BY <2>1 DEF Pk!NoRequest, ArpRequest
  <2> QED
    BY <2>2 DEF Pk!Waiting
<1>3. /\ Pk!Thread \in [pc : Stages, addr : Addrs \cup {NoPacket}, attempts : Nat]
      /\ Pk!Thread.pc = "none"
  BY DEF Pk!Thread, Stages
<1>4. PktType
  <2>1. <<>> \in Seq(Packets) /\ <<>> \in Seq(Dests)
    OBVIOUS
  <2> QED
    BY <1>1, <1>2, <1>3, <2>1 DEF PktType, Pk!Init, Maybe
<1>5. RingOnce
  BY <1>1 DEF RingOnce, Pk!Init
<1>6. ThreadOwns /\ Pk!ReleasedOnce
  BY <1>1, <1>3 DEF ThreadOwns, Pk!ReleasedOnce, Pk!Init
<1>7. WaitsOnce
  BY <1>1, <1>2 DEF WaitsOnce, Pk!Init
<1> QED
  BY <1>4, <1>5, <1>6, <1>7 DEF PktInv

LEMMA PktNext ==
  ASSUME kind = "packets" => PktInv, [MCNext]_mcVars
  PROVE  (kind = "packets" => PktInv)'
<1> SUFFICES ASSUME kind' = "packets"
             PROVE  PktInv'
  OBVIOUS
<1>1. CASE Packet(Pk!Next)
  <2>1. PktInv /\ Pk!Next
    BY <1>1 DEF Packet
  <2>2. CASE \E p \in Packets : Pk!Arrive(p)
    BY <2>1, <2>2, ArriveSound
  <2>3. CASE \E p \in Packets : Pk!Step(p)
    BY <2>1, <2>3, ReadSound, Ipv4Sound, ArpPacketSound, ReadResultSound, RequestSent,
       AttemptSound, GiveUpSound DEF Pk!Step
  <2>4. CASE Pk!check
    BY <2>1, <2>4, CheckSound
  <2>5. CASE \E s \in Slots : Pk!RouteChange(s)
    BY <2>1, <2>5, RouteChangeSound
  <2> QED
    BY <2>1, <2>2, <2>3, <2>4, <2>5 DEF Pk!Next
<1>2. CASE ~Packet(Pk!Next)
  <2>1. UNCHANGED <<kind, pktVars>>
    BY <1>2 DEF MCNext, BaseEnvironment, BaseRequest, BaseStep, Linking, mcVars
  <2>2. PktInv /\ UNCHANGED <<ring, msg_ready, form, pthr, out, req, srid, routes>>
    BY <2>1 DEF pktVars
  <2> QED
    BY <2>2 DEF PktInv, PktType, RingOnce, ThreadOwns, WaitsOnce, Pk!ReleasedOnce
<1> QED
  BY <1>1, <1>2

(* The buffer of a packet is given back at most once, for any number of     *)
(* packets, addresses and routes, however the threads of send_arp_request   *)
(* and process_arp_packet interleave and whatever they throw                *)
(* (nprd_datapathmessage.cc, nprd_arp.cc).                                      *)
THEOREM ReleasedOnceCorrect == MCSpec => []ReleasedOnce
<1>1. (kind = "packets" => PktInv) => ReleasedOnce
  BY DEF ReleasedOnce, PktInv
<1> QED
  BY <1>1, PktInit, PktNext, PTL DEF MCSpec
=============================================================================
