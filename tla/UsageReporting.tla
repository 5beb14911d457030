--------------------------- MODULE UsageReporting ---------------------------
(***************************************************************************)
(* Traffic accounting from sing-box to the panel's ledger.                 *)
(*                                                                         *)
(* One node agent reads the per-user counters of its sing-box, turns them  *)
(* into deltas, keeps the deltas as pending records in a state file and    *)
(* posts all pending records as one batch, which the panel stores in one   *)
(* transaction.  The agent is a single select loop, so its steps are       *)
(* sequential; sing-box, the panel, the administrator, the network and     *)
(* crashes interleave with them.                                           *)
(*                                                                         *)
(* Pending records are kept as bytes per user and direction: a batch is    *)
(* always all pending records and is committed or refused as a whole, so   *)
(* how many records the bytes are split into, and their order, never       *)
(* matters.  A record has a positive number of bytes, so a user has a      *)
(* pending record exactly when one of its two amounts is positive.         *)
(***************************************************************************)
EXTENDS Integers, FiniteSets

CONSTANTS
  Users,       \* the users of the panel
  Directions,  \* {uplink, downlink}: the code treats the two alike
  MaxBytes,    \* bound: bytes sing-box relays per user and direction
  MaxResets,   \* bound: times sing-box is restarted while the agent lives
  MaxFaults,   \* bound: crashes of the agent and requests that time out
  MaxBadSaves, \* bound: failed writes of the state file
  MaxDeletes   \* bound: users the administrator deletes

ASSUME BoundsAssumption ==
  /\ MaxBytes \in Nat /\ MaxResets \in Nat /\ MaxFaults \in Nat
  /\ MaxBadSaves \in Nat /\ MaxDeletes \in Nat

VARIABLES
  served,   \* history: bytes sing-box has relayed
  counter,  \* the counters of sing-box's v2ray stats service
  resets,   \* history: how often the counters were set back to zero
  mem,      \* the agent's RuntimeState: last counters and pending records
  disk,     \* the same, as last written to the state file
  torn,     \* the state file holds a truncated write
  badSaves, \* history: writes of the state file that failed
  pc,       \* where the agent's loop is
  return,   \* where flushPendingUsage returns to
  request,  \* the POST the agent waits for
  late,     \* POSTs the agent gave up on that may still reach the panel
  faults,   \* history: crashes and timeouts so far
  users,    \* rows of table users
  ledger    \* table usage_records, summed per user and direction

agentVars == <<mem, disk, torn, badSaves, pc, return>>
netVars   == <<request, late, faults>>
panelVars == <<users, ledger>>
nodeVars  == <<served, counter, resets>>
vars == <<nodeVars, agentVars, netVars, panelVars>>

Usage == [Users -> [Directions -> Nat]]
Nothing == [u \in Users |-> [d \in Directions |-> 0]]
Plus(a, b) == [u \in Users |-> [d \in Directions |-> a[u][d] + b[u][d]]]

\* A user has a record in a batch.
HasRecord(batch, u) == \E d \in Directions : batch[u][d] > 0

\* seen is history: everything this state's lineage ever put in pending.
AgentState == [last : Usage, pending : Usage, seen : Usage]
FreshState == [last |-> Nothing, pending |-> Nothing, seen |-> Nothing]

NoRequest == [status |-> "none", batch |-> Nothing]
Requests == [status : {"none", "sent", "stored", "refused"}, batch : Usage]

TypeOK ==
  /\ served \in Usage /\ counter \in Usage /\ resets \in Nat
  /\ mem \in AgentState /\ disk \in AgentState /\ torn \in BOOLEAN
  /\ badSaves \in Nat
  /\ pc \in {"idle", "flush", "drain", "fetch", "save", "sync", "down"}
  /\ return \in {"fetch", "idle"}
  /\ request \in Requests
  /\ late \subseteq [id : Nat, batch : Usage]
  /\ faults \in Nat
  /\ users \subseteq Users
  /\ ledger \in Usage

Init ==
  /\ served = Nothing /\ counter = Nothing /\ resets = 0
  /\ mem = FreshState /\ disk = FreshState /\ torn = FALSE
  /\ badSaves = 0
  /\ pc = "idle" /\ return = "idle"
  /\ request = NoRequest /\ late = {} /\ faults = 0
  /\ users = Users /\ ledger = Nothing

-----------------------------------------------------------------------------
(* sing-box.  It is a child of the agent, which is the container's         *)
(* entrypoint, so it relays nothing while the agent is down.               *)

Serve(u, d) ==
  /\ pc # "down"
  /\ served[u][d] < MaxBytes
  /\ served' = [served EXCEPT ![u][d] = @ + 1]
  /\ counter' = [counter EXCEPT ![u][d] = @ + 1]
  /\ UNCHANGED <<resets, agentVars, netVars, panelVars>>

\* A config apply or a crash of sing-box: its counters start again at zero.
SingboxRestart ==
  /\ pc # "down"
  /\ resets < MaxResets
  /\ resets' = resets + 1
  /\ counter' = Nothing
  /\ UNCHANGED <<served, agentVars, netVars, panelVars>>

-----------------------------------------------------------------------------
(* The panel: SaveUsageBatch is one transaction; its foreign key on        *)
(* user_id fails, and rolls everything back, if any record's user is gone. *)

Storable(batch) == \A u \in Users : HasRecord(batch, u) => u \in users

SaveUsageBatch(batch) ==
  /\ Storable(batch)
  /\ ledger' = Plus(ledger, batch)

HandleNodeUsageBatch ==
  /\ request.status = "sent"
  /\ \/ /\ SaveUsageBatch(request.batch)
        /\ request' = [request EXCEPT !.status = "stored"]
     \/ /\ ~Storable(request.batch)
        /\ request' = [request EXCEPT !.status = "refused"]
        /\ UNCHANGED ledger
  /\ UNCHANGED <<nodeVars, agentVars, late, faults, users>>

\* A request whose client is gone: it is still handled, or dies with the
\* connection.
HandleLate(r) ==
  /\ r \in late
  /\ late' = late \ {r}
  /\ \/ SaveUsageBatch(r.batch)
     \/ UNCHANGED ledger
  /\ UNCHANGED <<nodeVars, agentVars, request, faults, users>>

\* Deleting a user cascades to its usage_records.
DeleteUser(u) ==
  /\ u \in users
  /\ Cardinality(Users \ users) < MaxDeletes
  /\ users' = users \ {u}
  /\ ledger' = [ledger EXCEPT ![u] = Nothing[u]]
  /\ UNCHANGED <<nodeVars, agentVars, netVars>>
-----------------------------------------------------------------------------
(* The agent.                                                              *)

\* flushPendingUsage, entered with the pending records p: post them all, or
\* return at once when there are none.
Flush(p, returnTo) ==
  IF p = Nothing
  THEN /\ pc' = returnTo
       /\ UNCHANGED <<return, request>>
  ELSE /\ pc' = "flush"
       /\ return' = returnTo
       /\ request' = [status |-> "sent", batch |-> p]

\* Broken variant: pending records are only flushed after a new snapshot.
TelemetryTickWithoutFlush ==
  /\ pc = "idle"
  /\ pc' = "fetch"
  /\ UNCHANGED <<nodeVars, mem, disk, torn, badSaves, return, netVars, panelVars>>

\* The telemetry ticker fires: collectTelemetry flushes what is pending first.
TelemetryTick ==
  /\ pc = "idle"
  /\ Flush(mem.pending, "fetch")
  /\ UNCHANGED <<nodeVars, mem, disk, torn, badSaves, late, faults, panelVars>>

\* The panel answered with an error status: the records stay pending.
FlushRefused ==
  /\ pc = "flush" /\ request.status = "refused"
  /\ pc' = return
  /\ request' = NoRequest
  /\ UNCHANGED <<nodeVars, mem, disk, torn, badSaves, return, late, faults, panelVars>>

\* What becomes of a request whose client goes away.
Abandon ==
  late' = IF request.status = "sent"
          THEN late \union {[id |-> faults, batch |-> request.batch]}
          ELSE late

\* Broken variant: a timeout is taken for success.
FlushTimeoutIsSuccess ==
  /\ pc = "flush" /\ faults < MaxFaults
  /\ faults' = faults + 1
  /\ Abandon
  /\ mem' = [mem EXCEPT !.pending = Nothing]
  /\ pc' = return
  /\ request' = NoRequest
  /\ UNCHANGED <<nodeVars, disk, torn, badSaves, return, panelVars>>

\* The request or its answer is lost, or the client's 20 seconds pass: the
\* records stay pending, whatever the panel did or still does with them.
FlushTimeout ==
  /\ pc = "flush" /\ faults < MaxFaults
  /\ faults' = faults + 1
  /\ Abandon
  /\ pc' = return
  /\ request' = NoRequest
  /\ UNCHANGED <<nodeVars, mem, disk, torn, badSaves, return, panelVars>>

\* Broken variant: the pending records are not cleared after a success.
FlushDoneKeepsPending ==
  /\ pc = "flush" /\ request.status = "stored"
  /\ pc' = "drain"
  /\ request' = NoRequest
  /\ UNCHANGED <<nodeVars, mem, disk, torn, badSaves, return, late, faults, panelVars>>

\* The panel answered OK: nothing is pending any more, in memory.
FlushDone ==
  /\ pc = "flush" /\ request.status = "stored"
  /\ mem' = [mem EXCEPT !.pending = Nothing]
  /\ pc' = "drain"
  /\ request' = NoRequest
  /\ UNCHANGED <<nodeVars, disk, torn, badSaves, return, late, faults, panelVars>>

\* Broken variant: a reset of the counter is not noticed.
DeltaUnchecked(current, previous) == current - previous

\* Broken variant: the distance to the previous counter is charged.
DeltaDistance(current, previous) ==
  IF current >= previous THEN current - previous ELSE previous - current

\* Broken variant: the counter itself is charged each time.
DeltaIsCounter(current, previous) == current

\* Bytes since the previous counter; a smaller counter means it was reset.
Delta(current, previous) ==
  IF current >= previous THEN current - previous ELSE current

\* handleTrafficSnapshot up to its Save.  A user without counter (absent from
\* the snapshot) counts as zero, here and in mem.last, where the code deletes
\* the entry: a missing entry reads as zero.
Snapshot ==
  LET delta == [u \in Users |-> [d \in Directions |->
                  Delta(counter[u][d], mem.last[u][d])]]
  IN  mem' = [last |-> counter,
              pending |-> Plus(mem.pending, delta),
              seen |-> Plus(mem.seen, delta)]

FetchCounters ==
  /\ pc = "fetch"
  /\ Snapshot
  /\ pc' = "save"
  /\ UNCHANGED <<nodeVars, disk, torn, badSaves, return, netVars, panelVars>>

\* The stats service does not answer: the round ends without a snapshot.
FetchFails ==
  /\ pc = "fetch"
  /\ pc' = "idle"
  /\ UNCHANGED <<nodeVars, mem, disk, torn, badSaves, return, netVars, panelVars>>

\* A sync round: of the state this module keeps it only rewrites the file.
Sync ==
  /\ pc = "idle"
  /\ pc' = "sync"
  /\ UNCHANGED <<nodeVars, mem, disk, torn, badSaves, return, netVars, panelVars>>

Saving == {"save", "drain", "sync"}

WriteFile ==
  /\ disk' = mem
  /\ torn' = FALSE

\* state.Save, then on: the snapshot's Save is followed by a flush.
Save ==
  /\ pc \in Saving
  /\ WriteFile
  /\ CASE pc = "save"  -> Flush(mem.pending, "idle")
       [] pc = "drain" -> pc' = return /\ UNCHANGED <<return, request>>
       [] pc = "sync"  -> pc' = "idle" /\ UNCHANGED <<return, request>>
  /\ UNCHANGED <<nodeVars, mem, badSaves, late, faults, panelVars>>

\* state.Save fails before or after it truncated the file.  The error ends
\* handleTrafficSnapshot and sync; collectTelemetry goes on after it.
SaveFails ==
  /\ pc \in Saving
  /\ badSaves < MaxBadSaves
  /\ badSaves' = badSaves + 1
  /\ torn' \in {torn, TRUE}
  /\ pc' = IF pc = "drain" THEN return ELSE "idle"
  /\ UNCHANGED <<nodeVars, mem, disk, return, netVars, panelVars>>

\* The container dies at any point, sing-box with it.  In the middle of
\* os.WriteFile the file is as before, complete, or truncated.
Crash ==
  /\ pc # "down" /\ faults < MaxFaults
  /\ faults' = faults + 1
  /\ resets' = resets + 1
  /\ counter' = Nothing
  /\ pc' = "down"
  /\ Abandon
  /\ request' = NoRequest
  /\ \/ UNCHANGED <<disk, torn>>
     \/ pc \in Saving /\ WriteFile
     \/ pc \in Saving /\ torn' = TRUE /\ UNCHANGED disk
  /\ UNCHANGED <<served, mem, badSaves, return, panelVars>>

\* The container is restarted and the agent loads its state.
Start ==
  /\ pc = "down" /\ ~torn
  /\ mem' = disk
  /\ pc' = "idle"
  /\ UNCHANGED <<nodeVars, disk, torn, badSaves, return, netVars, panelVars>>

\* A truncated state file does not parse: New fails and the agent exits, to
\* be restarted by the container runtime for ever.
StartFails ==
  /\ pc = "down" /\ torn
  /\ UNCHANGED vars

-----------------------------------------------------------------------------
Agent ==
  \/ TelemetryTick \/ FlushRefused \/ FlushDone
  \/ FetchCounters \/ Save \/ Start \/ StartFails

Environment ==
  \/ \E u \in Users, d \in Directions : Serve(u, d)
  \/ SingboxRestart \/ FetchFails \/ Sync
  \/ FlushTimeout \/ SaveFails \/ Crash
  \/ \E r \in late : HandleLate(r)
  \/ \E u \in Users : DeleteUser(u)

Next == Agent \/ HandleNodeUsageBatch \/ Environment

Spec == Init /\ [][Next]_vars

\* The agent's loop goes on: its ticker fires, its calls return, the container
\* is restarted; and the panel answers the requests that reach it.
FairSpec ==
  /\ Spec
  /\ SF_vars(TelemetryTick) /\ WF_vars(FlushRefused) /\ WF_vars(FlushDone)
  /\ WF_vars(FetchCounters \/ FetchFails) /\ WF_vars(Save) /\ WF_vars(Start)
  /\ WF_vars(HandleNodeUsageBatch)

-----------------------------------------------------------------------------
\* No usage the agent has written to its state file is ever lost for a user
\* that still exists: it is in the panel's ledger or pending in the file,
\* unless a write truncated the file; and while the agent runs the same is
\* true of what it holds in memory (handleTrafficSnapshot saves counters and
\* records together, and flushPendingUsage clears the records only after the
\* panel's answer).
NoUsageLost ==
  \A u \in users, d \in Directions :
    /\ ~torn => disk.seen[u][d] <= ledger[u][d] + disk.pending[u][d]
    /\ pc # "down" => mem.seen[u][d] <= ledger[u][d] + mem.pending[u][d]

\* A request is in flight exactly while the agent waits in a flush, and it
\* carries what is pending; once it is stored the ledger covers all the agent
\* has seen, which is what allows FlushDone to clear the pending records.
RequestInv ==
  /\ request.status # "none" => /\ pc = "flush"
                                /\ request.batch = mem.pending
  /\ request.status = "stored" =>
       \A u \in users, d \in Directions : mem.seen[u][d] <= ledger[u][d]

\* A user is never charged more than 1 + faults times the bytes sing-box
\* relayed for it; without a crash or a timeout, never more than it used.
\* The batch carries no id the panel could recognise a repetition by.
OverchargeBounded ==
  \A u \in users, d \in Directions : ledger[u][d] <= (1 + faults) * served[u][d]

\* Until sing-box's counters are first set back, the agent has seen exactly
\* what its last snapshot covers: every byte is in a record or still ahead of
\* the last counter.
ExactUntilReset ==
  resets = 0 => \A u \in Users, d \in Directions :
    mem.seen[u][d] + counter[u][d] = served[u][d] + mem.last[u][d]

\* The agent's view of what was used never exceeds what was used, however
\* sing-box restarts and the agent falls back to an older state file.
SeenWasServed ==
  \A u \in Users, d \in Directions :
    mem.seen[u][d] + Delta(counter[u][d], mem.last[u][d]) <= served[u][d]

\* A record of a deleted user is in the batch the agent will post.
Poisoned == ~Storable(mem.pending)

\* All the usage in the state file is in the ledger, for the users there are.
AllCredited ==
  \A u \in users, d \in Directions : disk.seen[u][d] <= ledger[u][d]

\* Again and again everything the agent has saved is credited, whatever was
\* lost or refused before, unless the file is truncated or a record of a deleted
\* user is in the batch.
SavedIsCredited == []<>(AllCredited \/ torn \/ Poisoned)

\* Traffic usage of every existing user is reported: what the README lists
\* as the node's "traffic usage reporting", without exception for a deleted
\* neighbour in the batch.
UsageIsReported == []<>(AllCredited \/ torn)
=============================================================================
