----------------------------- MODULE NodeStatus -----------------------------
(***************************************************************************)
(* The status of one node in the panel, and its log of events.             *)
(*                                                                         *)
(* The node's own requests (enroll, heartbeat, sync) mark it online.  Some *)
(* pages of the administrator (the nodes, a node's events, the presence    *)
(* summary) first mark it offline when its last request is older than the  *)
(* timeout; nothing else does.  The dashboard summary and the profiles of  *)
(* a subscription show the status as it is.  The administrator edits the   *)
(* node with a PATCH that reads the row and writes all of it back.  Each   *)
(* of these is a few statements without transaction, in a handler of its   *)
(* own, and all of them interleave; a request of an agent that gave up on  *)
(* it goes on too.                                                         *)
(*                                                                         *)
(* The fields PATCH carries besides the status are written back the same   *)
(* way; only the status is modelled.                                       *)
(***************************************************************************)
EXTENDS Integers

CONSTANTS
  Handlers,   \* requests that can be in progress at a time
  MaxPatches, \* bound: edits by the administrator
  MaxStale,   \* bound: times the last request gets older than the timeout
  MaxFaults   \* bound: statements that fail

ASSUME StatusAssumption == {MaxPatches, MaxStale, MaxFaults} \subseteq Nat

VARIABLES
  status,   \* nodes.status, "deleted" without a row
  seen,     \* nodes.last_seen_at: null, within the timeout, or older
  last,     \* the last event: the node came up, went down, or none yet
  agent,    \* the agent runs, or has stopped for good
  pc,       \* where each request is
  held,     \* the status a node's request has read, or a PATCH will write
  marked,   \* history: "yes" since a page has marked the node offline, or
            \* found it not online, for its last request
  giving,   \* history: edits that give a status, or have read it before that
  periods,  \* history: times the node was not online
  restored, \* history: events that each handler wrote of the node coming up
  mixed,    \* history: "yes" once an offline mark and a request overlapped
  patches, stales, faults \* counted against the bounds

requestVars == <<pc, held>>
historyVars == <<marked, giving, periods, restored, mixed>>
bounds == <<patches, stales, faults>>
vars == <<status, seen, last, agent, requestVars, historyVars, bounds>>

Statuses == {"pending", "online", "offline", "disabled"}

TypeOK ==
  /\ status \in Statuses \cup {"deleted"}
  /\ seen \in {"never", "fresh", "stale"}
  /\ last \in {"none", "up", "down"}
  /\ agent \in {"up", "gone"}
  /\ pc \in [Handlers -> {"idle", "write", "event", "patch", "down", "list"}]
  /\ held \in [Handlers -> Statuses \cup {"deleted", "unknown", "none"}]
  /\ marked \in {"yes", "no"} /\ giving \subseteq Handlers
  /\ periods \in Nat
  /\ restored \in [Handlers -> Nat]
  /\ mixed \in {"yes", "no"}
  /\ patches \in Nat /\ stales \in Nat /\ faults \in Nat

\* A node the administrator has just created, with any status.
Init ==
  /\ status \in Statuses /\ seen = "never" /\ last = "none" /\ agent = "up"
  /\ pc = [h \in Handlers |-> "idle"]
  /\ held = [h \in Handlers |-> "none"]
  /\ marked = "no" /\ giving = {}
  /\ periods = 1
  /\ restored = [h \in Handlers |-> 0]
  /\ mixed = IF status \in {"online", "offline"} THEN "yes" ELSE "no"
  /\ patches = 0 /\ stales = 0 /\ faults = 0

-----------------------------------------------------------------------------
\* The request goes on, and holds nothing, or what it has read.
Goto(h, place) ==
  pc' = [pc EXCEPT ![h] = place] /\ held' = [held EXCEPT ![h] = "none"]
Keep(h, place, s) ==
  pc' = [pc EXCEPT ![h] = place] /\ held' = [held EXCEPT ![h] = s]

Fault == faults < MaxFaults /\ faults' = faults + 1 /\ UNCHANGED <<patches, stales>>

\* The handlers that are somewhere in places.
At(places) == {h \in Handlers : pc[h] \in places}

\* A page looks at the last request.
Mark ==
  IF seen = "stale" THEN marked' = "yes" /\ giving' = giving \cup At({"patch"})
  ELSE UNCHANGED <<marked, giving>>

\* The last request gets older than the timeout.
Expire ==
  /\ seen = "fresh"
  /\ \/ agent = "gone" /\ UNCHANGED stales
     \/ agent = "up" /\ stales < MaxStale /\ stales' = stales + 1
  /\ seen' = "stale"
  /\ UNCHANGED <<status, last, agent, requestVars, historyVars, patches, faults>>

AgentGone ==
  /\ agent = "up"
  /\ agent' = "gone"
  /\ UNCHANGED <<status, seen, last, requestVars, historyVars, bounds>>

(* EnrollNode and TouchNodeHeartbeat. *)

\* A request of the node arrives and is authenticated; the status before is
\* read on its own, and an error of that leaves the zero value.
Read(h) ==
  /\ pc[h] = "idle" /\ agent = "up" /\ status # "deleted"
  /\ \/ Keep(h, "write", status) /\ UNCHANGED bounds
     \/ Keep(h, "write", "unknown") /\ Fault
  /\ UNCHANGED <<status, seen, last, agent, historyVars>>

\* Broken variant: only an offline node is marked online.
TouchOffline(h) ==
  /\ pc[h] = "write" /\ status # "deleted"
  /\ status' = IF status = "offline" THEN "online" ELSE status
  /\ seen' = "fresh"
  /\ Goto(h, IF status = "offline" THEN "event" ELSE "idle")
  /\ mixed' = IF At({"down"}) # {} THEN "yes" ELSE mixed
  /\ marked' = "no"
  /\ UNCHANGED <<last, agent, giving, periods, restored, bounds>>

\* Broken variant: the event is written whatever the status was.
TouchAlwaysTells(h) ==
  /\ pc[h] = "write" /\ status # "deleted"
  /\ status' = "online" /\ seen' = "fresh"
  /\ Goto(h, "event")
  /\ mixed' = IF At({"down"}) # {} THEN "yes" ELSE mixed
  /\ marked' = "no"
  /\ UNCHANGED <<last, agent, giving, periods, restored, bounds>>

\* The update, whatever the status is now; an event follows if it was not
\* online when it was read.
Touch(h) ==
  /\ pc[h] = "write" /\ status # "deleted"
  /\ status' = "online" /\ seen' = "fresh"
  /\ Goto(h, IF held[h] # "online" THEN "event" ELSE "idle")
  /\ mixed' = IF At({"down"}) # {} THEN "yes" ELSE mixed
  /\ marked' = "no"
  /\ UNCHANGED <<last, agent, giving, periods, restored, bounds>>

\* node_connected or node_heartbeat_restored.
TellUp(h) ==
  /\ pc[h] = "event" /\ status # "deleted"
  /\ last' = "up"
  /\ restored' = [restored EXCEPT ![h] = @ + 1]
  /\ Goto(h, "idle")
  /\ UNCHANGED <<status, seen, agent, marked, giving, periods, mixed, bounds>>

(* Pages that show the node: ReconcileStaleNodes, if they call it, and then *)
(* the status.                                                              *)

\* Broken variant: only a node that was never seen is marked.
ReconcileNever(h) ==
  /\ pc[h] = "idle"
  /\ UNCHANGED <<status, periods, mixed>>
  /\ Goto(h, "list")
  /\ Mark
  /\ UNCHANGED <<seen, last, agent, restored, bounds>>

\* Broken variant: the node is marked without an event.
ReconcileQuietly(h) ==
  /\ pc[h] = "idle"
  /\ IF status = "online" /\ seen = "stale"
     THEN /\ status' = "offline"
          /\ periods' = periods + 1
          /\ mixed' = IF At({"write", "event"}) # {} THEN "yes" ELSE mixed
     ELSE UNCHANGED <<status, periods, mixed>>
  /\ Goto(h, "list")
  /\ Mark
  /\ UNCHANGED <<seen, last, agent, restored, bounds>>

\* One statement marks the node offline; the event follows if it did.
Reconcile(h) ==
  /\ pc[h] = "idle"
  /\ IF status = "online" /\ seen = "stale"
     THEN /\ status' = "offline"
          /\ periods' = periods + 1
          /\ mixed' = IF At({"write", "event"}) # {} THEN "yes" ELSE mixed
          /\ Goto(h, "down")
     ELSE Goto(h, "list") /\ UNCHANGED <<status, periods, mixed>>
  /\ Mark
  /\ UNCHANGED <<seen, last, agent, restored, bounds>>

\* Its error is ignored.
ReconcileFails(h) ==
  /\ pc[h] = "idle"
  /\ Fault
  /\ Goto(h, "list")
  /\ UNCHANGED <<status, seen, last, agent, historyVars>>

\* The dashboard summary or a subscription, which do not call it.
Show(h) ==
  /\ pc[h] = "idle"
  /\ Goto(h, "list")
  /\ UNCHANGED <<status, seen, last, agent, historyVars, bounds>>

\* node_disconnected.
TellDown(h) ==
  /\ pc[h] = "down" /\ status # "deleted"
  /\ last' = "down"
  /\ Goto(h, "list")
  /\ UNCHANGED <<status, seen, agent, historyVars, bounds>>

\* An event that is not written, because the row is gone or the insert fails,
\* is ignored; an update of a row that is gone changes nothing.
Untold(h) ==
  /\ pc[h] \in {"event", "down"} \/ (pc[h] = "write" /\ status = "deleted")
  /\ IF status = "deleted" THEN UNCHANGED <<bounds, mixed>> ELSE Fault /\ mixed' = "yes"
  /\ Goto(h, IF pc[h] = "down" THEN "list" ELSE "idle")
  /\ UNCHANGED <<status, seen, last, agent, marked, giving, periods, restored>>

\* ListNodes, GetPresenceSummary and the like.
List(h) ==
  /\ pc[h] = "list"
  /\ Goto(h, "idle")
  /\ UNCHANGED <<status, seen, last, agent, historyVars, bounds>>

(* The administrator's edits. *)

PatchRead(h, s) ==
  /\ pc[h] = "idle" /\ status # "deleted"
  /\ patches < MaxPatches /\ patches' = patches + 1
  /\ Keep(h, "patch", IF s = "keep" THEN status ELSE s)
  /\ giving' = IF s = "keep" THEN giving \ {h} ELSE giving \cup {h}
  /\ UNCHANGED <<status, seen, last, agent, marked, periods, restored, mixed, stales, faults>>

\* UpdateNode writes the status back, given or read.
PatchWrite(h) ==
  /\ pc[h] = "patch"
  /\ Goto(h, "idle")
  /\ IF status = "deleted" THEN UNCHANGED <<status, periods, mixed, marked>>
     ELSE /\ status' = held[h]
          /\ periods' = IF status = "online" /\ status' # "online" THEN periods + 1 ELSE periods
          /\ mixed' = IF status' = status THEN mixed ELSE "yes"
          /\ marked' = IF h \in giving /\ status' = "online" THEN "no" ELSE marked
  /\ giving' = giving \ {h}
  /\ UNCHANGED <<seen, last, agent, restored, bounds>>

\* A statement whose error ends the request fails.
Fail(h) ==
  /\ pc[h] \in {"write", "patch", "list"}
  /\ Fault
  /\ Goto(h, "idle")
  /\ giving' = giving \ {h}
  /\ UNCHANGED <<status, seen, last, agent, marked, periods, restored, mixed>>

DeleteNode ==
  /\ status # "deleted"
  /\ status' = "deleted" /\ last' = "none"
  /\ UNCHANGED <<seen, agent, requestVars, historyVars, bounds>>

\* What a handler does next.
Step(h) ==
  Touch(h) \/ TellUp(h) \/ TellDown(h) \/ Untold(h) \/ List(h) \/ PatchWrite(h)

Next ==
  \/ \E h \in Handlers :
       Read(h) \/ Step(h) \/ Reconcile(h) \/ ReconcileFails(h) \/ Show(h) \/ Fail(h)
  \/ \E h \in Handlers, s \in Statuses \cup {"keep"} : PatchRead(h, s)
  \/ Expire \/ AgentGone \/ DeleteNode

Spec == Init /\ [][Next]_vars

\* A request goes on, and the agent's ticker fires for another one.
FairSpec ==
  /\ Spec
  /\ \A h \in Handlers : WF_vars(Step(h))
  /\ SF_vars(\E h \in Handlers : Read(h))
-----------------------------------------------------------------------------
\* However its requests interleave, a handler tells at most once per time the
\* node was not online that it came up, and once for each failed look at the
\* status: an alarm is not repeated by the next heartbeats.
RestoredBounded == \A h \in Handlers : restored[h] <= periods + faults

\* The inductive form of RestoredBounded.  A request that has read another
\* status than online may tell once more, and while the node is not online
\* every other request is one short of the bound.
Told(h, n) == restored[h] + n <= periods + faults
NotOnline == Statuses \ {"online"}

StatusInv ==
  /\ TypeOK
  /\ \A h \in Handlers :
       /\ pc[h] = "patch" => held[h] \in Statuses
       /\ Told(h, 0)
       /\ pc[h] = "write" /\ held[h] # "online" => Told(h, 1)
       /\ pc[h] = "event" => Told(h, 1)
       /\ status \in NotOnline => Told(h, 1)
       /\ status \in NotOnline /\ pc[h] = "event" => Told(h, 2)

\* Once a page has marked the node offline after its last request got older than
\* the timeout, or found it not online, no page shows it online, one that does
\* not mark (the dashboard summary, a subscription) no more than one that does,
\* until the node sends a request or an edit gives the status or has read it
\* before the mark.  Before that, or when the statement that marks fails, a dead
\* node is shown online; one set online that was never seen always is.
ShownOnlineWasSeen == \A h \in At({"list"}) : status = "online" => marked = "no"

\* When no request is half-way, the last event agrees with the status, as long
\* as no offline mark overlapped a request of the node, no event was dropped
\* and the administrator did not set the status.
LogTellsStatus ==
  mixed = "no" /\ At({"write", "event", "down"}) = {} =>
    /\ status = "online" => last = "up"
    /\ status = "offline" => last = "down"

\* A node that runs is shown online again and again, whatever pages and edits
\* have made of its status.
LiveIsShown == agent = "up" ~> status \in {"online", "deleted"} \/ agent = "gone"
=============================================================================
