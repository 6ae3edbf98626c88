------------------------------ MODULE CrdLinks ------------------------------
(***************************************************************************)
(* The links of one session of the crd and the vlans behind them.  Commit  *)
(* has the network management daemon allocate a vlan for every group of    *)
(* virtual switches and for every other link.  When both ends of a link    *)
(* are done a thread adds its switch ports; the last link to report has    *)
(* the daemon configure all of them and completes every link.  Clearing    *)
(* the session may come at any time.  The daemon itself is module Nmd:     *)
(* here a call is carried out, refused, or carried out with its answer     *)
(* lost (send_and_wait times out).                                         *)
(***************************************************************************)
EXTENDS Naturals

CONSTANTS Links,     \* the session's links
          OnSwitch,  \* the links at the virtual switch
          Ports,     \* [Links -> number of switch ports]
          Switch,    \* the virtual switch
          MaxFaults  \* bound on refused and unanswered calls and failed threads

ASSUME LinksAssumption ==
  /\ Switch \notin Links /\ OnSwitch \subseteq Links
  /\ Ports \in [Links -> Nat]
  /\ MaxFaults \in Nat

VARIABLES
  lnk,       \* [Links -> link object]
  held,      \* [Links, Switch -> vlan object]
  unreported,\* session::unreported_links
  created,   \* session::vlans_created
  main,      \* the threads of the session: commit, the last reporter, clear
  init,      \* [Links -> do_initialize thread]
  fresh,     \* [Links, Switch -> do_refresh thread]
  nmd,       \* the daemon: vlans it holds for the session, ports it knows
  faults     \* refused and unanswered calls and failed threads so far

vars == <<lnk, held, unreported, created, main, init, fresh, nmd, faults>>

Owners == Links \cup {Switch}

NoVlan == [known |-> FALSE, deleted |-> TRUE]

\* crd_link::crd_link and the end of session::commit's loop over the link requests.
NewLink(l) ==
  [state |-> "new", needs_refresh |-> FALSE, done |-> 0, answers |-> 0,
   status |-> "incomplete", alloc_vlan |-> TRUE, sess |-> TRUE, ports |-> Ports[l]]

Init ==
  /\ lnk = [l \in Links |-> NewLink(l)]
  /\ held = [o \in Owners |-> NoVlan]
  /\ unreported = Links
  /\ created = FALSE
  /\ main = [commit |-> Owners, start |-> {}, started |-> "no", clear |-> "no",
             left |-> {}]
  /\ init = [l \in Links |-> "none"]
  /\ fresh = [o \in Owners |-> "none"]
  /\ nmd = [vlans |-> {}, ports |-> [o \in Owners |-> 0], configured |-> FALSE]
  /\ faults = 0

Link(l, f) == lnk' = [lnk EXCEPT ![l] = f]

\* The vlan object of a link: its own, or the one session::set_vlans gave it.
VlanOf(l) == IF lnk[l].alloc_vlan THEN l ELSE Switch

\* send_and_wait: the answer and whether the daemon did what it was asked.  An answer
\* that is missing costs a fault.
Call(answered, carried) ==
  \/ answered /\ carried /\ UNCHANGED faults
  \/ ~answered /\ faults < MaxFaults /\ faults' = faults + 1

-----------------------------------------------------------------------------
(***************************************************************************)
(* session::commit and session_manager::add_vlan.                          *)
(***************************************************************************)
\* add_vlan for owner o; without an answer the object has vlan 0.
add_vlan(o) ==
  \E answered, carried \in BOOLEAN :
    /\ Call(answered, carried)
    /\ nmd' = IF carried THEN [nmd EXCEPT !.vlans = @ \cup {o}] ELSE nmd
    /\ held' = [held EXCEPT ![o] =
                  IF answered THEN [known |-> TRUE, deleted |-> FALSE] ELSE NoVlan]

\* The virtual switches come first: the links of one that has a vlan share it; the
\* others allocate their own (allocate_vlan).
CommitVlans ==
  \E o \in main.commit :
    /\ o # Switch => Switch \notin main.commit
    /\ main' = [main EXCEPT !.commit = @ \ {o}]
    /\ IF o \in Links /\ ~lnk[o].alloc_vlan
       THEN UNCHANGED <<lnk, held, nmd, faults>>
       ELSE /\ add_vlan(o)
            /\ lnk' = [l \in Links |->
                 IF o = Switch /\ l \in OnSwitch /\ held'[o].known
                 THEN [lnk[l] EXCEPT !.alloc_vlan = FALSE] ELSE lnk[l]]
    /\ UNCHANGED <<unreported, created, init, fresh>>

-----------------------------------------------------------------------------
(***************************************************************************)
(* A link's initialization.                                                *)
(***************************************************************************)
\* both_comps_done, called by the thread of either end, and initialize for the second
\* one; when its thread cannot be made the request is answered (cleanup_reqs).
both_comps_done(l) ==
  LET k == [lnk[l] EXCEPT !.done = @ + 1]
  IN  /\ main.commit = {}
      /\ lnk[l].done < 2
      /\ IF k.done < 2 \/ k.state # "new"
         THEN Link(l, k) /\ UNCHANGED <<init, faults>>
         ELSE \/ /\ Link(l, [k EXCEPT !.state = "initializing"])
                 /\ init' = [init EXCEPT ![l] = "vlan"]
                 /\ UNCHANGED faults
              \/ /\ faults < MaxFaults
                 /\ faults' = faults + 1
                 /\ Link(l, [k EXCEPT !.state = "failed", !.answers = @ + 1])
                 /\ UNCHANGED init
      /\ UNCHANGED <<held, unreported, created, main, fresh, nmd>>

\* do_initialize asks for a vlan again when commit got none.
InitVlan(l) ==
  /\ init[l] = "vlan"
  /\ IF lnk[l].alloc_vlan /\ ~held[l].known
     THEN add_vlan(l)
     ELSE UNCHANGED <<held, nmd, faults>>
  /\ init' = [init EXCEPT ![l] = IF held'[VlanOf(l)].known THEN "ports" ELSE "failed"]
  /\ UNCHANGED <<lnk, unreported, created, main, fresh>>

\* session_manager::add_port_to_vlan for the next port; the rest is dropped when one
\* fails.
add_port_to_vlan(l) ==
  /\ init[l] = "ports" /\ lnk[l].ports > 0
  /\ \E answered, carried \in BOOLEAN :
       /\ Call(answered, carried)
       /\ nmd' = IF carried THEN [nmd EXCEPT !.ports[VlanOf(l)] = @ + 1] ELSE nmd
       /\ Link(l, [lnk[l] EXCEPT !.ports = IF answered THEN @ - 1 ELSE 0])
       /\ init' = [init EXCEPT ![l] = IF answered THEN "ports" ELSE "failed"]
  /\ UNCHANGED <<held, unreported, created, main, fresh>>

\* needs_refresh is read without the link's lock: a link of a closed session completes
\* by itself, the others report to the session.
InitDone(l) ==
  /\ init[l] = "failed" \/ (init[l] = "ports" /\ lnk[l].ports = 0)
  /\ Link(l, [lnk[l] EXCEPT !.status = IF init[l] = "failed" THEN "failed" ELSE "fine"])
  /\ init' = [init EXCEPT ![l] = IF lnk[l].needs_refresh THEN "complete" ELSE "report"]
  /\ UNCHANGED <<held, unreported, created, main, fresh, nmd, faults>>

\* session::link_vlanports_added.  The first mutant takes the first report for the last;
\* the other forgets to take the link off the list.
RemainingMut(l) == {}
KeptMut(l) == unreported

Remaining(l) == unreported \ {l}

link_vlanports_added(l) ==
  LET last == Remaining(l) = {} /\ ~created
  IN  /\ init[l] = "report"
      /\ unreported' = Remaining(l)
      /\ created' = (created \/ last)
      /\ main' = IF last THEN [main EXCEPT !.started = "asked"] ELSE main
      /\ init' = [init EXCEPT ![l] = "none"]
      /\ UNCHANGED <<lnk, held, fresh, nmd, faults>>

\* start_session_vlans, then every link is completed with its answer.
start_session_vlans ==
  /\ main.started = "asked"
  /\ \E answered, carried \in BOOLEAN :
       /\ Call(answered, carried)
       /\ nmd' = IF carried THEN [nmd EXCEPT !.configured = TRUE] ELSE nmd
       /\ main' = [main EXCEPT !.started = IF answered THEN "fine" ELSE "failed",
                               !.start = Links]
  /\ UNCHANGED <<lnk, held, unreported, created, init, fresh>>

-----------------------------------------------------------------------------
(***************************************************************************)
(* crd_link::refresh: what it makes of the link, and whether a do_refresh  *)
(* thread is needed.                                                       *)
(***************************************************************************)
HasVlan(l) == held[VlanOf(l)].known

Refreshed(l, k) ==
  IF k.state = "failed" /\ ~HasVlan(l) THEN [k EXCEPT !.sess = FALSE]
  ELSE IF k.state = "new" /\ ~HasVlan(l) THEN [k EXCEPT !.sess = FALSE, !.state = "refreshing"]
  ELSE IF k.state = "initializing" THEN [k EXCEPT !.needs_refresh = TRUE]
  ELSE IF k.state = "failed" THEN k
  ELSE [k EXCEPT !.state = "refreshing"]

RefreshThread(l, k) == k.state # "initializing" /\ (k.state \in {"failed", "new"} => HasVlan(l))

\* The thread is made, or cannot be made and the link leaves the session.
refresh(l, k) ==
  \/ /\ ~RefreshThread(l, k)
     /\ Link(l, Refreshed(l, k))
     /\ UNCHANGED <<fresh, faults>>
  \/ /\ RefreshThread(l, k)
     /\ Link(l, Refreshed(l, k))
     /\ fresh' = [fresh EXCEPT ![l] = "delete"]
     /\ UNCHANGED faults
  \/ /\ RefreshThread(l, k)
     /\ faults < MaxFaults
     /\ faults' = faults + 1
     /\ Link(l, [Refreshed(l, k) EXCEPT !.sess = FALSE])
     /\ UNCHANGED fresh

\* complete_initialization: the request is answered, the state set, and the refresh a
\* closed session asked for is done.
complete_initialization(l, st) ==
  LET ok == st = "fine" /\ lnk[l].status = "fine"
      k == [lnk[l] EXCEPT !.answers = @ + 1, !.status = IF ok THEN "fine" ELSE "failed",
                          !.state = IF ok THEN "active" ELSE "failed"]
  IN  IF k.needs_refresh
      THEN refresh(l, k)
      ELSE Link(l, k) /\ UNCHANGED <<fresh, faults>>

\* What the thread of a link that completed by itself does next: it ends.  The mutant
\* reports to the session all the same.
ThenMut(l) == "report"

Then(l) == "none"

CompleteAlone(l) ==
  /\ init[l] = "complete"
  /\ complete_initialization(l, lnk[l].status)
  /\ init' = [init EXCEPT ![l] = Then(l)]
  /\ UNCHANGED <<held, unreported, created, main, nmd>>

CompleteAll ==
  \E l \in main.start :
    /\ complete_initialization(l, main.started)
    /\ main' = [main EXCEPT !.start = @ \ {l}]
    /\ UNCHANGED <<held, unreported, created, init, nmd>>

\* do_refresh of a link or of the virtual switch: session_manager::delete_vlan marks
\* the vlan deleted first and takes that back when the call times out.
DeleteVlan(o) ==
  /\ fresh[o] = "delete"
  /\ IF held[o].deleted \/ (o \in Links /\ ~lnk[o].alloc_vlan)
     THEN UNCHANGED <<held, nmd, faults>>
     ELSE \E answered, carried \in BOOLEAN :
            /\ Call(answered, carried)
            /\ nmd' = IF carried THEN [nmd EXCEPT !.vlans = @ \ {o}] ELSE nmd
            /\ held' = [held EXCEPT ![o].deleted = answered]
  /\ lnk' = IF o \in Links THEN [lnk EXCEPT ![o].sess = FALSE] ELSE lnk
  /\ fresh' = [fresh EXCEPT ![o] = "none"]
  /\ UNCHANGED <<unreported, created, main, init>>

-----------------------------------------------------------------------------
(***************************************************************************)
(* session::clear.                                                         *)
(***************************************************************************)
Clear ==
  /\ main.clear = "no" /\ main.commit = {}
  /\ main' = [main EXCEPT !.clear = "end"]
  /\ UNCHANGED <<lnk, held, unreported, created, init, fresh, nmd, faults>>

\* clear_session_vlans: the daemon gives back everything the session has.
clear_session_vlans ==
  /\ main.clear = "end"
  /\ main' = [main EXCEPT !.clear = "links", !.left = Links]
  /\ \E answered, carried \in BOOLEAN :
       /\ Call(answered, carried)
       /\ nmd' = IF carried THEN [nmd EXCEPT !.vlans = {}] ELSE nmd
  /\ UNCHANGED <<lnk, held, unreported, created, init, fresh>>

\* The links are refreshed, then the components: the virtual switch deletes its vlan.
ClearLink ==
  \E l \in main.left :
    /\ refresh(l, lnk[l])
    /\ main' = [main EXCEPT !.left = @ \ {l}]
    /\ UNCHANGED <<held, unreported, created, init, nmd>>

ClearSwitch ==
  /\ main.clear = "links" /\ main.left = {}
  /\ main' = [main EXCEPT !.clear = "done"]
  /\ fresh' = IF held[Switch].known THEN [fresh EXCEPT ![Switch] = "delete"] ELSE fresh
  /\ UNCHANGED <<lnk, held, unreported, created, init, nmd, faults>>

Step ==
  \/ CommitVlans \/ start_session_vlans \/ CompleteAll
  \/ clear_session_vlans \/ ClearLink \/ ClearSwitch
  \/ \E l \in Links : \/ both_comps_done(l) \/ InitVlan(l) \/ add_port_to_vlan(l)
                      \/ InitDone(l) \/ link_vlanports_added(l) \/ CompleteAlone(l)
  \/ \E o \in Owners : DeleteVlan(o)

Next == Step \/ Clear

Spec == Init /\ [][Next]_vars /\ WF_vars(Step)

-----------------------------------------------------------------------------
\* The request for a link is answered at most once (complete_initialization deletes
\* it): by the last link to report, by the link itself when the session was closed
\* under it, or when its thread could not be made, never by two of them.
LinkAnsweredOnce == \A l \in Links : lnk[l].answers <= 1

\* The switches are configured from the ports known then: once start_session is sent
\* no thread still has a port to add, which no switch would ever learn of.
StartsLast == main.started # "no" => \A l \in Links : init[l] \notin {"vlan", "ports"}

\* Whatever the daemon refuses or leaves unanswered, a session answers every link's
\* request, unless it is cleared meanwhile or the thread of a link could not be made.
NoThread(l) == lnk[l].answers = 1 /\ lnk[l].status = "incomplete"

AllAnswered ==
  <>(\/ main.clear # "no" \/ \E l \in Links : NoThread(l)
     \/ \A l \in Links : lnk[l].answers = 1)

\* Every link of a session is answered in the end, that of a closed session too.
ClosedLinksAnswered ==
  \A l \in Links : [](init[l] # "none" => <>(lnk[l].answers = 1))
=============================================================================
