------------------------------ MODULE Presence ------------------------------
(***************************************************************************)
(* Who is shown online: from a node's sing-box to the panel's pages.       *)
(*                                                                         *)
(* At every telemetry tick the node agent asks sing-box who relayed bytes  *)
(* since the last tick and who has sessions, and pushes the users it found *)
(* as one snapshot.  The panel replaces the node's rows by the snapshot in *)
(* one transaction, and stamps them with its own clock.  A page shows a    *)
(* user online for whom a row is fresh; that it also asks for the node to  *)
(* be online is the matter of module NodeStatus, and taken as given here.  *)
(*                                                                         *)
(* When nobody was found nothing is pushed: old rows end by getting stale. *)
(* The agent gives up on a push after a timeout, but the panel may still   *)
(* be at it, so two snapshots of a node can be stored at the same time, or *)
(* an old one after a new one.  Time passes in ticks.                      *)
(*                                                                         *)
(* A user's protocols and numbers of connections are left out: a user is   *)
(* shown online when there is any row, and rows come and go per user.      *)
(***************************************************************************)
EXTENDS Integers, FiniteSets

CONSTANTS
  Users,
  Slots,      \* bound: pushes that can be under way at a time
  Fresh,      \* ticks for which a row is shown
  MaxLate,    \* bound: ticks from a collection until its push has ended
  MaxFaults,  \* bound: failed fetches, pushes and transactions, and crashes
  MaxDeletes  \* bound: users the administrator deletes

ASSUME PresenceAssumption == {Fresh, MaxLate, MaxFaults, MaxDeletes} \subseteq Nat

VARIABLES
  conf,     \* the users in the configuration sing-box runs
  sessions, \* the users with connections that sing-box lists
  moved,    \* the users with more bytes than the agent's last counters say
  idle,     \* history: ticks since a user was last in sessions or moved
  pc,       \* where the agent is: between ticks, collecting, or pushing
  active,   \* trafficActiveUsers of the collection
  lag,      \* ticks since the collection started
  push,     \* the pushes under way, and their transactions
  waiting,  \* the push the agent waits for
  users,    \* rows of table users
  rows,     \* users with a row of the node in user_node_session_presence
  age,      \* ticks since their updated_at
  last,     \* history: the snapshot that was committed last
  mixed,    \* history: "yes" if its transaction was open together with another
  faults

nodeVars  == <<conf, sessions, moved>>
agentVars == <<pc, active, lag, waiting>>
tableVars == <<rows, age, last, mixed>>
vars == <<nodeVars, agentVars, tableVars, idle, push, users, faults>>

Forgotten == Fresh + MaxLate + 1  \* where idle ends
Nobody == [u \in Users |-> 0]

\* open: the transaction has begun and has deleted the rows in del, as far as
\* no other transaction has; alone: no other one was open with it.
Push == [stage : {"none", "sent", "open"}, snap : SUBSET Users, lag : 0..MaxLate,
         del : SUBSET Users, open : 0..MaxLate, alone : {"yes", "no"}]
NoPush == [stage |-> "none", snap |-> {}, lag |-> 0, del |-> {}, open |-> 0, alone |-> "no"]
Sent(S, n) == [stage |-> "sent", snap |-> S, lag |-> n, del |-> {}, open |-> 0, alone |-> "no"]

TypeOK ==
  /\ conf \subseteq Users /\ sessions \subseteq conf /\ moved \subseteq conf
  /\ idle \in [Users -> 0..Forgotten]
  /\ pc \in {"idle", "sessions", "push"}
  /\ active \subseteq Users /\ lag \in 0..MaxLate
  /\ push \in [Slots -> Push]
  /\ waiting \subseteq Slots
  /\ users \subseteq Users
  /\ rows \subseteq users /\ age \in [Users -> 0..Forgotten]
  /\ last \subseteq Users /\ mixed \in {"yes", "no"}
  /\ faults \in Nat

Init ==
  /\ conf = Users /\ sessions = {} /\ moved = {}
  /\ idle = [u \in Users |-> Forgotten]
  /\ pc = "idle" /\ active = {} /\ lag = 0 /\ waiting = {}
  /\ push = [s \in Slots |-> NoPush]
  /\ users = Users
  /\ rows = {} /\ age = Nobody /\ last = {} /\ mixed = "no"
  /\ faults = 0

Fault == faults < MaxFaults /\ faults' = faults + 1
-----------------------------------------------------------------------------
(* sing-box and its users. *)

\* A user connects, or disconnects.
Connect(u) ==
  /\ u \in conf \ sessions
  /\ sessions' = sessions \cup {u}
  /\ idle' = [idle EXCEPT ![u] = 0]
  /\ UNCHANGED <<conf, moved, agentVars, tableVars, push, users, faults>>

Disconnect(u) ==
  /\ u \in sessions
  /\ sessions' = sessions \ {u}
  /\ UNCHANGED <<conf, moved, agentVars, tableVars, idle, push, users, faults>>

\* Bytes are relayed.  The connection need not be listed: it may have come and
\* gone between two ticks, or not carry the user's name.
Relay(u) ==
  /\ u \in conf \ moved
  /\ moved' = moved \cup {u}
  /\ idle' = [idle EXCEPT ![u] = 0]
  /\ UNCHANGED <<conf, sessions, agentVars, tableVars, push, users, faults>>

Older(p) ==
  IF p.stage = "none" THEN p
  ELSE [p EXCEPT !.lag = @ + 1, !.open = IF p.stage = "open" THEN @ + 1 ELSE @]

\* Whoever is neither connected nor has uncounted bytes gets idle; rows,
\* collections and pushes get older.
Tick ==
  /\ pc # "idle" => lag < MaxLate
  /\ \A s \in Slots : push[s].stage # "none" => push[s].lag < MaxLate
  /\ lag' = IF pc = "idle" THEN 0 ELSE lag + 1
  /\ push' = [s \in Slots |-> Older(push[s])]
  /\ idle' = [u \in Users |->
       IF u \in sessions \cup moved THEN 0
       ELSE IF idle[u] < Forgotten THEN idle[u] + 1 ELSE Forgotten]
  /\ age' = [u \in Users |->
       IF u \notin rows THEN 0 ELSE IF age[u] <= Fresh THEN age[u] + 1 ELSE age[u]]
  /\ UNCHANGED <<nodeVars, pc, active, waiting, rows, last, mixed, users, faults>>
-----------------------------------------------------------------------------
(* The agent: collectTelemetry, and what a sync does to sing-box. *)

\* The traffic counters: whose have grown is active, and the agent remembers
\* the new ones.  When they cannot be had nobody counts as active.
CollectTraffic ==
  /\ pc = "idle"
  /\ pc' = "sessions" /\ lag' = 0
  /\ \/ active' = moved /\ moved' = {} /\ UNCHANGED faults
     \/ active' = {} /\ UNCHANGED moved /\ Fault
  /\ UNCHANGED <<conf, sessions, waiting, tableVars, idle, push, users>>

\* Those with sessions, or else those with traffic.
Snapshot == IF sessions # {} THEN sessions ELSE active

Done == pc' = "idle" /\ active' = {} /\ lag' = 0 /\ waiting' = {}

\* Nobody was found: nothing is pushed.
NothingToPush ==
  /\ pc = "sessions" /\ Snapshot = {}
  /\ Done
  /\ UNCHANGED <<nodeVars, tableVars, idle, push, users, faults>>

PushSnapshot(s) ==
  /\ pc = "sessions" /\ Snapshot # {}
  /\ push[s].stage = "none"
  /\ s = CHOOSE t \in Slots : push[t].stage = "none"
  /\ push' = [push EXCEPT ![s] = Sent(Snapshot, lag)]
  /\ pc' = "push" /\ waiting' = {s} /\ active' = {} /\ lag' = 0
  /\ UNCHANGED <<nodeVars, tableVars, idle, users, faults>>

\* The sessions cannot be had: not even the traffic is pushed.
SessionsFail ==
  /\ pc = "sessions"
  /\ Fault /\ Done
  /\ UNCHANGED <<nodeVars, tableVars, idle, push, users>>

\* The answer does not come in time; what has become of the push is unknown.
GiveUp ==
  /\ pc = "push"
  /\ Fault /\ Done
  /\ UNCHANGED <<nodeVars, tableVars, idle, push, users>>

\* The agent stops and starts again, and sing-box with it.
Crash ==
  /\ Fault /\ Done
  /\ sessions' = {} /\ moved' = {}
  /\ UNCHANGED <<conf, tableVars, idle, push, users>>

\* Broken variant: the new configuration is loaded without closing what is open.
SyncKeepsSessions ==
  /\ pc = "idle" /\ conf # users
  /\ conf' = users
  /\ UNCHANGED <<sessions, moved, agentVars, tableVars, idle, push, users, faults>>

\* A sync brings a configuration without the users that were deleted: sing-box
\* is started again, its connections are closed and its counters are zero.
Sync ==
  /\ pc = "idle" /\ conf # users
  /\ conf' = users /\ sessions' = {} /\ moved' = {}
  /\ UNCHANGED <<agentVars, tableVars, idle, push, users, faults>>
-----------------------------------------------------------------------------
(* The panel: UpsertSessionSnapshot, one transaction at READ COMMITTED. *)

\* The push is over, and the agent goes on if it waits for it.
End(s) ==
  IF s \in waiting THEN Done ELSE UNCHANGED agentVars

IsOpen(s) == push[s].stage = "open"

\* Authenticated; the delete statement sees the rows that are committed now.
Begin(s) ==
  /\ push[s].stage = "sent"
  /\ push' = [t \in Slots |->
       IF t = s THEN [push[s] EXCEPT !.stage = "open", !.del = rows,
                                     !.alone = IF \E o \in Slots : IsOpen(o) THEN "no" ELSE "yes"]
       ELSE IF IsOpen(t) THEN [push[t] EXCEPT !.alone = "no"] ELSE push[t]]
  /\ UNCHANGED <<nodeVars, agentVars, tableVars, idle, users, faults>>

\* Rows that a committed transaction has deleted or replaced are not another's
\* to delete.
Closed(s) ==
  [t \in Slots |->
     IF t = s THEN NoPush
     ELSE [push[t] EXCEPT !.del = @ \ (push[s].del \cup push[s].snap)]]

\* Broken variant: the rows of before are left.
CommitWithoutDelete(s) ==
  /\ IsOpen(s) /\ push[s].snap \subseteq users
  /\ rows' = rows \cup push[s].snap
  /\ age' = [u \in Users |-> IF u \in push[s].snap THEN push[s].open
                             ELSE IF u \in rows' THEN age[u] ELSE 0]
  /\ last' = push[s].snap /\ mixed' = IF push[s].alone = "yes" THEN "no" ELSE "yes"
  /\ push' = Closed(s) /\ End(s)
  /\ UNCHANGED <<nodeVars, idle, users, faults>>

\* Broken variant: the update stamps every row of the node.
CommitStampsAll(s) ==
  /\ IsOpen(s) /\ push[s].snap \subseteq users
  /\ rows' = rows \cup push[s].snap
  /\ age' = [u \in Users |-> IF u \in rows' THEN push[s].open ELSE 0]
  /\ last' = push[s].snap /\ mixed' = IF push[s].alone = "yes" THEN "no" ELSE "yes"
  /\ push' = Closed(s) /\ End(s)
  /\ UNCHANGED <<nodeVars, idle, users, faults>>

\* All are inserted, or updated, with the time the transaction began.
Commit(s) ==
  /\ IsOpen(s) /\ push[s].snap \subseteq users
  /\ rows' = (rows \ push[s].del) \cup push[s].snap
  /\ age' = [u \in Users |-> IF u \in push[s].snap THEN push[s].open
                             ELSE IF u \in rows' THEN age[u] ELSE 0]
  /\ last' = push[s].snap /\ mixed' = IF push[s].alone = "yes" THEN "no" ELSE "yes"
  /\ push' = Closed(s) /\ End(s)
  /\ UNCHANGED <<nodeVars, idle, users, faults>>

\* The foreign key of one entry fails, and the whole snapshot with it.
Refuse(s) ==
  /\ IsOpen(s) /\ ~(push[s].snap \subseteq users)
  /\ push' = [push EXCEPT ![s] = NoPush] /\ End(s)
  /\ UNCHANGED <<nodeVars, tableVars, idle, users, faults>>

\* The push is lost, or its transaction fails or deadlocks with another.
Lose(s) ==
  /\ push[s].stage # "none"
  /\ Fault
  /\ push' = [push EXCEPT ![s] = NoPush] /\ End(s)
  /\ UNCHANGED <<nodeVars, tableVars, idle, users>>

\* The administrator deletes a user, and the foreign key the user's rows.
DeleteUser(u) ==
  /\ u \in users /\ Cardinality(Users \ users) < MaxDeletes
  /\ users' = users \ {u}
  /\ rows' = rows \ {u} /\ age' = [age EXCEPT ![u] = 0]
  /\ push' = [s \in Slots |-> [push[s] EXCEPT !.del = @ \ {u}]]
  /\ UNCHANGED <<nodeVars, agentVars, idle, last, mixed, faults>>

\* Broken variant: a row is shown whatever its age.
ShownForEver(u) == u \in rows

\* attachUserPresence, GetPresenceSummary, attachNodePresence.
Shown(u) == u \in rows /\ age[u] <= Fresh
-----------------------------------------------------------------------------
Handle(s) == Begin(s) \/ Commit(s) \/ Refuse(s)
Collect == NothingToPush \/ \E s \in Slots : PushSnapshot(s)

Next ==
  \/ \E u \in Users : Connect(u) \/ Disconnect(u) \/ Relay(u) \/ DeleteUser(u)
  \/ \E s \in Slots : Handle(s) \/ Lose(s)
  \/ CollectTraffic \/ Collect \/ SessionsFail \/ GiveUp \/ Crash \/ Sync
  \/ Tick

Spec == Init /\ [][Next]_vars

\* Time passes, the panel handles what it has received, a collection goes on,
\* and the agent's loop takes up each of its tickers again and again.
FairSpec ==
  /\ Spec
  /\ WF_vars(Tick)
  /\ \A s \in Slots : WF_vars(Handle(s))
  /\ WF_vars(Collect)
  /\ SF_vars(CollectTraffic)
  /\ SF_vars(Sync)
-----------------------------------------------------------------------------
\* A user on a page had a session, or relayed bytes that were not yet counted,
\* at most as long ago as a row is fresh plus as long as a push can take: late
\* and overlapping pushes, and snapshots that are not sent because they would
\* be empty, never keep anybody on it longer.
ShownWasActive == \A u \in Users : Shown(u) => idle[u] <= Fresh + MaxLate

\* The rows of the node are those of one snapshot, the last one committed, of
\* one time, and without the users deleted since, unless its transaction was
\* open together with another.
SnapshotIsWhole ==
  mixed = "no" => /\ rows = last \cap users
                  /\ \A u, v \in rows : age[u] = age[v]

\* The inductive form of the two: what is under way is not older than its lag,
\* and a row not older than its stamp and a push; a transaction that is alone
\* has all rows to delete.
PresenceInv ==
  /\ TypeOK
  /\ \A u \in Users :
       /\ u \in sessions \cup moved => idle[u] = 0
       /\ pc = "sessions" /\ u \in active => idle[u] <= lag
       /\ u \in rows /\ age[u] <= Fresh => idle[u] <= age[u] + MaxLate
  /\ \A s \in Slots :
       /\ push[s].stage # "none" =>
            /\ push[s].open <= push[s].lag
            /\ \A u \in push[s].snap : idle[u] <= push[s].lag
       /\ IsOpen(s) /\ push[s].alone = "yes" =>
            /\ push[s].del = rows
            /\ \A t \in Slots \ {s} : ~IsOpen(t)
  /\ SnapshotIsWhole

\* A user who stays away is no longer shown from some time on, although no
\* snapshot says so when it is empty.
GoneDisappears ==
  \A u \in Users : <>[](u \notin sessions \cup moved) => <>[]~Shown(u)

\* A user who stays connected is shown again and again, and so is one who is
\* only seen to relay bytes while nobody is listed: the refusals of snapshots
\* with a deleted user end.
StayerIsShown ==
  \A u \in Users :
    \/ <>[](u \in sessions)
    \/ <>[](sessions = {}) /\ []<>(u \in moved)
    => []<>Shown(u)
=============================================================================
