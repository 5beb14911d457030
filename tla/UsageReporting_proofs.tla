----------------------- MODULE UsageReporting_proofs ------------------------
(* Proofs about UsageReporting, for any sets of users and directions and    *)
(* any bounds.                                                              *)
EXTENDS UsageReporting, TLAPS

\* Adding two usages adds them up user by user and direction by direction.
LEMMA PlusUsage ==
  ASSUME NEW a \in Usage, NEW b \in Usage
  PROVE  /\ Plus(a, b) \in Usage
         /\ \A u \in Users, d \in Directions :
              Plus(a, b)[u][d] = a[u][d] + b[u][d]
BY DEF Plus, Usage

\* Nothing is a usage.
LEMMA NothingUsage ==
  /\ Nothing \in Usage
  /\ \A u \in Users, d \in Directions : Nothing[u][d] = 0
BY DEF Nothing, Usage

\* The delta between two counters is a number of bytes, at most the counter,
\* and it is the exact difference when the counter did not fall.
LEMMA DeltaProperties ==
  ASSUME NEW c \in Nat, NEW p \in Nat
  PROVE  /\ Delta(c, p) \in Nat
         /\ Delta(c, p) <= c
         /\ p <= c => Delta(c, p) = c - p
BY DEF Delta

\* The deltas of one snapshot.
Deltas == [u \in Users |-> [d \in Directions |->
             Delta(counter[u][d], mem.last[u][d])]]

\* The deltas of a snapshot are a usage.
LEMMA DeltasUsage ==
  ASSUME TypeOK
  PROVE  /\ Deltas \in Usage
         /\ \A u \in Users, d \in Directions :
              Deltas[u][d] = Delta(counter[u][d], mem.last[u][d])
<1>1. \A u \in Users, d \in Directions :
         counter[u][d] \in Nat /\ mem.last[u][d] \in Nat
  BY DEF TypeOK, Usage, AgentState
<1>2. \A u \in Users, d \in Directions :
         Delta(counter[u][d], mem.last[u][d]) \in Nat
  BY <1>1, DeltaProperties
<1> QED
  BY <1>2 DEF Deltas, Usage

\* The state after a snapshot.
LEMMA SnapshotState ==
  ASSUME TypeOK, Snapshot
  PROVE  /\ mem' \in AgentState
         /\ \A u \in Users, d \in Directions :
              LET delta == Delta(counter[u][d], mem.last[u][d])
              IN  /\ delta \in Nat
                  /\ mem'.last[u][d] = counter[u][d]
                  /\ mem'.pending[u][d] = mem.pending[u][d] + delta
                  /\ mem'.seen[u][d] = mem.seen[u][d] + delta
<1>1. mem' = [last |-> counter,
              pending |-> Plus(mem.pending, Deltas),
              seen |-> Plus(mem.seen, Deltas)]
  BY DEF Snapshot, Deltas
<1>2. mem.pending \in Usage /\ mem.seen \in Usage /\ counter \in Usage
  BY DEF TypeOK, AgentState
<1>3. Plus(mem.pending, Deltas) \in Usage /\ Plus(mem.seen, Deltas) \in Usage
  BY <1>2, DeltasUsage, PlusUsage
<1>4. mem' \in AgentState
  BY <1>1, <1>2, <1>3 DEF AgentState
<1>5. ASSUME NEW u \in Users, NEW d \in Directions
      PROVE  LET delta == Delta(counter[u][d], mem.last[u][d])
             IN  /\ delta \in Nat
                 /\ mem'.last[u][d] = counter[u][d]
                 /\ mem'.pending[u][d] = mem.pending[u][d] + delta
                 /\ mem'.seen[u][d] = mem.seen[u][d] + delta
  <2>1. Deltas[u][d] = Delta(counter[u][d], mem.last[u][d])
    BY DeltasUsage
  <2>2. Deltas[u][d] \in Nat
    BY DeltasUsage DEF Usage
  <2>3. /\ Plus(mem.pending, Deltas)[u][d] = mem.pending[u][d] + Deltas[u][d]
        /\ Plus(mem.seen, Deltas)[u][d] = mem.seen[u][d] + Deltas[u][d]
    BY <1>2, DeltasUsage, PlusUsage
  <2> QED
    BY <1>1, <2>1, <2>2, <2>3
<1> QED
  BY <1>4, <1>5

-----------------------------------------------------------------------------
(* Type correctness.                                                        *)

\* The initial state has the declared types.
LEMMA TypeInit == ASSUME Init PROVE TypeOK
<1>1. FreshState \in AgentState /\ NoRequest \in Requests
  BY NothingUsage DEF FreshState, AgentState, NoRequest, Requests
<1>2. torn \in BOOLEAN
  BY DEF Init
<1> QED
  BY <1>1, <1>2, NothingUsage DEF Init, TypeOK

\* Every reachable state has the declared types (all actions of the agent,
\* sing-box and the panel).
THEOREM TypeCorrect == Spec => []TypeOK
<1>1. Init => TypeOK
  BY TypeInit
<1>2. TypeOK /\ [Next]_vars => TypeOK'
  <2> SUFFICES ASSUME TypeOK, [Next]_vars
               PROVE  TypeOK'
    OBVIOUS
  <2> USE NothingUsage
  <2>1. CASE TelemetryTick
    BY <2>1 DEF TelemetryTick, Flush, TypeOK, Requests, AgentState,
                nodeVars, panelVars
  <2>2. CASE FlushRefused
    BY <2>2 DEF FlushRefused, TypeOK, Requests, NoRequest, nodeVars, panelVars
  <2>3. CASE FlushDone
    BY <2>3 DEF FlushDone, TypeOK, Requests, NoRequest, AgentState,
                nodeVars, panelVars
  <2>4. CASE FetchCounters
    BY <2>4, SnapshotState
       DEF FetchCounters, TypeOK, nodeVars, netVars, panelVars
  <2>5. CASE Save
    <3>1. torn' \in BOOLEAN
      BY <2>5 DEF Save, WriteFile
    <3>2. disk' \in AgentState /\ mem' \in AgentState
      BY <2>5 DEF Save, WriteFile, TypeOK
    <3>3. /\ request' \in Requests /\ return' \in {"fetch", "idle"}
          /\ pc' \in {"flush", "fetch", "idle"}
      <4>1. CASE pc = "save"
        BY <2>5, <4>1 DEF Save, Flush, TypeOK, Requests, AgentState
      <4>2. CASE pc = "drain"
        BY <2>5, <4>2 DEF Save, TypeOK
      <4>3. CASE pc = "sync"
        BY <2>5, <4>3 DEF Save, TypeOK
      <4> QED
        BY <2>5, <4>1, <4>2, <4>3 DEF Save, Saving
    <3> QED
      BY <2>5, <3>1, <3>2, <3>3 DEF Save, TypeOK, nodeVars, panelVars
  <2>6. CASE Start
    BY <2>6 DEF Start, TypeOK, nodeVars, netVars, panelVars
  <2>7. CASE HandleNodeUsageBatch
    <3>1. request' \in Requests
      BY <2>7 DEF HandleNodeUsageBatch, TypeOK, Requests
    <3>2. ledger' \in Usage
      BY <2>7, PlusUsage
         DEF HandleNodeUsageBatch, SaveUsageBatch, TypeOK, Requests
    <3> QED
      BY <2>7, <3>1, <3>2
         DEF HandleNodeUsageBatch, TypeOK, nodeVars, agentVars
  <2>8. ASSUME NEW u \in Users, NEW d \in Directions, Serve(u, d)
        PROVE  TypeOK'
    <3>1. served' \in Usage /\ counter' \in Usage
      BY <2>8 DEF Serve, TypeOK, Usage
    <3> QED
      BY <2>8, <3>1 DEF Serve, TypeOK, agentVars, netVars, panelVars
  <2>9. CASE SingboxRestart
    BY <2>9 DEF SingboxRestart, TypeOK, agentVars, netVars, panelVars
  <2>10. CASE FetchFails
    BY <2>10 DEF FetchFails, TypeOK, nodeVars, netVars, panelVars
  <2>11. CASE Sync
    BY <2>11 DEF Sync, TypeOK, nodeVars, netVars, panelVars
  <2>12. CASE FlushTimeout
    BY <2>12 DEF FlushTimeout, Abandon, TypeOK, Requests, NoRequest,
                 nodeVars, panelVars
  <2>13. CASE SaveFails
    <3>1. torn' \in BOOLEAN
      BY <2>13, Zenon DEF SaveFails, TypeOK
    <3>2. pc' \in {"fetch", "idle"}
      BY <2>13 DEF SaveFails, TypeOK
    <3> QED
      BY <2>13, <3>1, <3>2 DEF SaveFails, TypeOK, nodeVars, netVars, panelVars
  <2>14. CASE Crash
    <3>1. torn' \in BOOLEAN
      BY <2>14, Zenon DEF Crash, WriteFile, TypeOK
    <3>2. disk' \in AgentState
      BY <2>14, Zenon DEF Crash, WriteFile, TypeOK
    <3>3. late' \subseteq [id : Nat, batch : Usage]
      BY <2>14 DEF Crash, Abandon, TypeOK, Requests
    <3> QED
      BY <2>14, <3>1, <3>2, <3>3
         DEF Crash, TypeOK, Requests, NoRequest, panelVars
  <2>15. ASSUME NEW r \in late, HandleLate(r)
         PROVE  TypeOK'
    <3>1. r.batch \in Usage
      BY DEF TypeOK
    <3>2. ledger' \in Usage
      BY <2>15, <3>1, PlusUsage DEF HandleLate, SaveUsageBatch, TypeOK
    <3> QED
      BY <2>15, <3>2 DEF HandleLate, TypeOK, nodeVars, agentVars
  <2>16. ASSUME NEW u \in Users, DeleteUser(u)
         PROVE  TypeOK'
    <3>1. ledger' \in Usage
      BY <2>16 DEF DeleteUser, TypeOK, Usage
    <3> QED
      BY <2>16, <3>1 DEF DeleteUser, TypeOK, nodeVars, agentVars, netVars
  <2>17. CASE UNCHANGED vars
    BY <2>17 DEF vars, nodeVars, agentVars, netVars, panelVars, TypeOK
  <2> QED
    BY <2>1, <2>2, <2>3, <2>4, <2>5, <2>6, <2>7, <2>8, <2>9, <2>10, <2>11,
       <2>12, <2>13, <2>14, <2>15, <2>16, <2>17
       DEF Next, Agent, Environment, StartFails
<1> QED
  BY <1>1, <1>2, PTL DEF Spec
-----------------------------------------------------------------------------
(* No usage is lost.                                                        *)

\* The inductive invariant.
LossInv == TypeOK /\ RequestInv /\ NoUsageLost

\* The ledger only grows for a user that still exists.
LEMMA LedgerGrows ==
  ASSUME TypeOK, [Next]_vars
  PROVE  \A u \in users', d \in Directions :
           u \in users /\ ledger[u][d] <= ledger'[u][d]
<1> SUFFICES ASSUME NEW u \in users', NEW d \in Directions
             PROVE  u \in users /\ ledger[u][d] <= ledger'[u][d]
  OBVIOUS
<1>1. ASSUME users' = users, ledger' = ledger
      PROVE  u \in users /\ ledger[u][d] <= ledger'[u][d]
  BY <1>1 DEF TypeOK, Usage
<1>2. ASSUME NEW b \in Usage, users' = users, SaveUsageBatch(b)
      PROVE  u \in users /\ ledger[u][d] <= ledger'[u][d]
  <2>1. ledger'[u][d] = ledger[u][d] + b[u][d]
    BY <1>2, PlusUsage DEF SaveUsageBatch, TypeOK
  <2> QED
    BY <1>2, <2>1 DEF TypeOK, Usage
<1>3. CASE HandleNodeUsageBatch
  BY <1>1, <1>2, <1>3 DEF HandleNodeUsageBatch, TypeOK, Requests
<1>4. ASSUME NEW r \in late, HandleLate(r)
      PROVE  u \in users /\ ledger[u][d] <= ledger'[u][d]
  BY <1>1, <1>2, <1>4 DEF HandleLate, TypeOK
<1>5. ASSUME NEW v \in Users, DeleteUser(v)
      PROVE  u \in users /\ ledger[u][d] <= ledger'[u][d]
  BY <1>5 DEF DeleteUser, TypeOK, Usage
<1>6. CASE UNCHANGED panelVars
  BY <1>1, <1>6 DEF panelVars
<1>7. CASE Agent
  BY <1>6, <1>7
     DEF Agent, TelemetryTick, FlushRefused, FlushDone, FetchCounters, Save,
         Start, StartFails, vars
<1>8. CASE Environment
  BY <1>4, <1>5, <1>6, <1>8
     DEF Environment, Serve, SingboxRestart, FetchFails, Sync, FlushTimeout,
         SaveFails, Crash
<1> QED
  BY <1>3, <1>6, <1>7, <1>8 DEF Next, vars
\* LossInv holds initially and every step preserves it.
THEOREM LossInvariant == Spec => []LossInv
<1>1. Init => LossInv
  <2> SUFFICES ASSUME Init PROVE LossInv
    OBVIOUS
  <2>1. TypeOK
    BY TypeInit
  <2> QED
    BY <2>1, NothingUsage
       DEF Init, LossInv, RequestInv, NoUsageLost, NoRequest, FreshState
<1>2. LossInv /\ TypeOK' /\ [Next]_vars => LossInv'
  <2> SUFFICES ASSUME TypeOK, RequestInv, NoUsageLost, TypeOK', [Next]_vars
               PROVE  RequestInv' /\ NoUsageLost'
    BY DEF LossInv
  <2>a. \A u \in users', d \in Directions :
          u \in users /\ ledger[u][d] <= ledger'[u][d]
    BY LedgerGrows
  <2>b. \A u \in Users, d \in Directions :
          /\ ledger[u][d] \in Nat /\ ledger'[u][d] \in Nat
          /\ mem.seen[u][d] \in Nat /\ mem.pending[u][d] \in Nat
          /\ mem'.seen[u][d] \in Nat /\ mem'.pending[u][d] \in Nat
          /\ disk.seen[u][d] \in Nat /\ disk.pending[u][d] \in Nat
          /\ disk'.seen[u][d] \in Nat /\ disk'.pending[u][d] \in Nat
    BY DEF TypeOK, AgentState, Usage
  <2>c. users' \subseteq Users
    BY DEF TypeOK
  \* Steps that leave the agent's state, memory and file, alone.
  <2>d. ASSUME mem' = mem, disk' = disk, torn' = torn, pc = "down" => pc' = "down"
        PROVE  NoUsageLost'
    BY <2>a, <2>b, <2>c, <2>d DEF NoUsageLost
  <2>e. ASSUME mem' = mem, pc' = pc, request' = request
        PROVE  RequestInv'
    BY <2>a, <2>b, <2>c, <2>e DEF RequestInv
  <2>f. ASSUME request' = NoRequest
        PROVE  RequestInv'
    BY <2>f DEF RequestInv, NoRequest
  <2>1. CASE TelemetryTick
    <3>1. NoUsageLost'
      BY <2>1, <2>d DEF TelemetryTick
    <3>2. RequestInv'
      BY <2>1 DEF TelemetryTick, Flush, RequestInv
    <3> QED
      BY <3>1, <3>2
  <2>2. CASE FlushRefused
    BY <2>2, <2>d, <2>f DEF FlushRefused, panelVars, TypeOK
  <2>3. CASE FlushDone
    <3>1. \A u \in users, d \in Directions : mem.seen[u][d] <= ledger[u][d]
      BY <2>3 DEF FlushDone, RequestInv
    <3>2. /\ mem'.seen = mem.seen /\ mem'.pending = Nothing
          /\ disk' = disk /\ torn' = torn
      BY <2>3 DEF FlushDone, TypeOK, AgentState
    <3>3. NoUsageLost'
      BY <2>a, <2>b, <2>c, <3>1, <3>2, NothingUsage DEF NoUsageLost
    <3> QED
      BY <2>3, <2>f, <3>3 DEF FlushDone
  <2>4. CASE FetchCounters
    <3>1. \A u \in Users, d \in Directions :
            \E delta \in Nat :
              /\ mem'.pending[u][d] = mem.pending[u][d] + delta
              /\ mem'.seen[u][d] = mem.seen[u][d] + delta
      BY <2>4, SnapshotState DEF FetchCounters
    <3>2. disk' = disk /\ torn' = torn /\ pc = "fetch" /\ request' = request
          /\ pc' = "save"
      BY <2>4 DEF FetchCounters, netVars
    <3>3. NoUsageLost'
      BY <2>a, <2>b, <2>c, <3>1, <3>2 DEF NoUsageLost
    <3>4. RequestInv'
      BY <3>2 DEF RequestInv, TypeOK, Requests
    <3> QED
      BY <3>3, <3>4
  <2>5. CASE Save
    <3>1. disk' = mem /\ mem' = mem /\ pc # "down" /\ pc # "flush"
      BY <2>5 DEF Save, WriteFile, Saving
    <3>2. NoUsageLost'
      BY <2>a, <2>b, <2>c, <3>1 DEF NoUsageLost
    <3>3. RequestInv'
      <4>1. request.status = "none"
        BY <3>1 DEF RequestInv, TypeOK, Requests
      <4>2. CASE pc = "save" /\ mem.pending # Nothing
        BY <2>5, <3>1, <4>2 DEF Save, Flush, RequestInv
      <4>3. CASE request' = request
        BY <3>1, <4>1, <4>3 DEF RequestInv
      <4> QED
        BY <2>5, <3>1, <4>2, <4>3 DEF Save, Saving, Flush
    <3> QED
      BY <3>2, <3>3
  <2>6. CASE Start
    <3>1. mem' = disk /\ disk' = disk /\ ~torn /\ pc = "down"
          /\ request' = request
      BY <2>6 DEF Start, netVars
    <3>2. NoUsageLost'
      BY <2>a, <2>b, <2>c, <3>1 DEF NoUsageLost
    <3>3. RequestInv'
      BY <3>1 DEF RequestInv, TypeOK, Requests
    <3> QED
      BY <3>2, <3>3
  <2>7. CASE HandleNodeUsageBatch
    <3>1. NoUsageLost'
      BY <2>7, <2>d DEF HandleNodeUsageBatch, agentVars
    <3>2. /\ mem' = mem /\ pc' = pc /\ pc = "flush" /\ users' = users
          /\ request.batch = mem.pending /\ request'.batch = request.batch
      BY <2>7 DEF HandleNodeUsageBatch, agentVars, RequestInv, TypeOK, Requests
    <3>3. ASSUME SaveUsageBatch(request.batch), NEW u \in users, NEW d \in Directions
          PROVE  mem.seen[u][d] <= ledger'[u][d]
      <4>1. ledger'[u][d] = ledger[u][d] + mem.pending[u][d]
        BY <3>2, <3>3, PlusUsage DEF SaveUsageBatch, TypeOK, AgentState
      <4> QED
        BY <3>2, <4>1 DEF NoUsageLost
    <3>4. CASE request'.status = "stored"
      <4>1. SaveUsageBatch(request.batch)
        BY <2>7, <3>4 DEF HandleNodeUsageBatch, TypeOK, Requests
      <4> QED
        BY <3>1, <3>2, <3>3, <4>1 DEF RequestInv
    <3>5. CASE request'.status # "stored"
      BY <3>1, <3>2, <3>5 DEF RequestInv
    <3> QED
      BY <3>4, <3>5
  <2>8. ASSUME NEW u \in Users, NEW d \in Directions, Serve(u, d)
        PROVE  RequestInv' /\ NoUsageLost'
    BY <2>8, <2>d, <2>e DEF Serve, agentVars, netVars
  <2>9. CASE SingboxRestart
    BY <2>9, <2>d, <2>e DEF SingboxRestart, agentVars, netVars
  <2>10. CASE FetchFails \/ Sync
    <3>1. NoUsageLost'
      BY <2>10, <2>d DEF FetchFails, Sync
    <3>2. RequestInv'
      BY <2>10 DEF FetchFails, Sync, netVars, RequestInv, TypeOK, Requests
    <3> QED
      BY <3>1, <3>2
  <2>11. CASE FlushTimeout
    BY <2>11, <2>d, <2>f DEF FlushTimeout
  <2>12. CASE SaveFails
    <3>1. /\ mem' = mem /\ disk' = disk /\ request' = request
          /\ pc # "down" /\ pc # "flush"
      BY <2>12 DEF SaveFails, Saving, netVars
    <3>4. ~torn' => ~torn
      BY <2>12, Zenon DEF SaveFails
    <3>2. NoUsageLost'
      BY <2>a, <2>b, <2>c, <3>1, <3>4 DEF NoUsageLost
    <3>3. RequestInv'
      BY <3>1 DEF RequestInv, TypeOK, Requests
    <3> QED
      BY <3>2, <3>3
  <2>13. CASE Crash
    <3>1. /\ mem' = mem /\ pc # "down" /\ pc' = "down" /\ request' = NoRequest
      BY <2>13 DEF Crash
    <3>2. \/ disk' = disk /\ torn' = torn
          \/ disk' = mem
          \/ torn'
      <4>1. CASE UNCHANGED <<disk, torn>>
        BY <4>1
      <4>2. CASE WriteFile
        BY <4>2 DEF WriteFile
      <4>3. CASE torn' = TRUE
        BY <4>3
      <4> QED
        BY <2>13, <4>1, <4>2, <4>3, Zenon DEF Crash
    <3>3. NoUsageLost'
      BY <2>a, <2>b, <2>c, <3>1, <3>2 DEF NoUsageLost
    <3> QED
      BY <2>f, <3>1, <3>3
  <2>14. ASSUME NEW r \in late, HandleLate(r)
         PROVE  RequestInv' /\ NoUsageLost'
    BY <2>14, <2>d, <2>e DEF HandleLate, agentVars
  <2>15. ASSUME NEW u \in Users, DeleteUser(u)
         PROVE  RequestInv' /\ NoUsageLost'
    BY <2>15, <2>d, <2>e DEF DeleteUser, agentVars, netVars
  <2>16. CASE UNCHANGED vars
    BY <2>16, <2>d, <2>e DEF vars, agentVars, netVars
  <2> QED
    BY <2>1, <2>2, <2>3, <2>4, <2>5, <2>6, <2>7, <2>8, <2>9, <2>10, <2>11,
       <2>12, <2>13, <2>14, <2>15, <2>16
       DEF Next, Agent, Environment, StartFails
<1> QED
  BY <1>1, <1>2, TypeCorrect, PTL DEF Spec

\* Usage in the agent's state file or memory is never lost for a user that
\* still exists, whatever crashes, timeouts, late requests and failed writes
\* happen (flushPendingUsage, handleTrafficSnapshot, state.Save, state.Load).
THEOREM NothingLost == Spec => []NoUsageLost
<1>1. LossInv => NoUsageLost
  BY DEF LossInv
<1> QED
  BY <1>1, LossInvariant, PTL
-----------------------------------------------------------------------------
(* What the agent has seen, against what sing-box relayed.                  *)

\* The strengthening of SeenWasServed and ExactUntilReset: the state file is
\* never ahead of what was relayed, a dead node has no counters, and a counter
\* falls behind the agent's last value only after a reset.
SeenInv ==
  /\ TypeOK
  /\ SeenWasServed
  /\ ExactUntilReset
  /\ \A u \in Users, d \in Directions : disk.seen[u][d] <= served[u][d]
  /\ pc = "down" => counter = Nothing /\ resets > 0
  /\ resets = 0 => \A u \in Users, d \in Directions :
                     mem.last[u][d] <= counter[u][d]

\* The same, for one user and direction.
SeenAt(u, d) ==
  /\ mem.seen[u][d] + Delta(counter[u][d], mem.last[u][d]) <= served[u][d]
  /\ disk.seen[u][d] <= served[u][d]
  /\ resets = 0 =>
       /\ mem.seen[u][d] + counter[u][d] = served[u][d] + mem.last[u][d]
       /\ mem.last[u][d] <= counter[u][d]

\* SeenInv says SeenAt of every user and direction.
LEMMA SeenInvPointwise ==
  SeenInv <=> /\ TypeOK
              /\ pc = "down" => counter = Nothing /\ resets > 0
              /\ \A u \in Users, d \in Directions : SeenAt(u, d)
BY DEF SeenInv, SeenAt, SeenWasServed, ExactUntilReset

\* SeenInv holds initially and every step preserves it.
THEOREM SeenInvariant == Spec => []SeenInv
<1>1. Init => SeenInv
  <2> SUFFICES ASSUME Init PROVE SeenInv
    OBVIOUS
  <2>1. ASSUME NEW u \in Users, NEW d \in Directions
        PROVE  SeenAt(u, d)
    BY NothingUsage DEF Init, FreshState, SeenAt, Delta
  <2> QED
    BY <2>1, TypeInit, SeenInvPointwise DEF Init
<1>2. SeenInv /\ TypeOK' /\ [Next]_vars => SeenInv'
  <2> SUFFICES ASSUME SeenInv, TypeOK, TypeOK', [Next]_vars
               PROVE  /\ (pc = "down" => counter = Nothing /\ resets > 0)'
                      /\ \A u \in Users, d \in Directions : SeenAt(u, d)'
    BY SeenInvPointwise DEF SeenInv, SeenAt, SeenWasServed, ExactUntilReset
  <2>a. /\ pc = "down" => counter = Nothing /\ resets > 0
        /\ \A u \in Users, d \in Directions : SeenAt(u, d)
    BY SeenInvPointwise
  <2>b. resets \in Nat
    BY DEF TypeOK
  <2>0. (pc = "down" => counter = Nothing /\ resets > 0)'
    <3>1. CASE UNCHANGED <<pc, nodeVars>>
      BY <2>a, <3>1 DEF nodeVars
    <3>2. CASE pc' # "down"
      BY <3>2
    <3>3. CASE Crash
      BY <3>3, <2>b DEF Crash
    <3>4. CASE Agent
      <4>1. pc' # "down" \/ UNCHANGED <<pc, nodeVars>>
        BY <3>4 DEF Agent, TelemetryTick, FlushRefused, FlushDone, FetchCounters,
                    Save, Saving, Start, StartFails, Flush, TypeOK, vars, nodeVars,
                    agentVars
      <4> QED
        BY <3>1, <3>2, <4>1
    <3>5. CASE HandleNodeUsageBatch
      BY <3>1, <3>5 DEF HandleNodeUsageBatch, agentVars
    <3>6. CASE UNCHANGED vars
      BY <3>1, <3>6 DEF vars, agentVars
    <3>7. CASE Environment /\ ~Crash
      <4>1. pc' # "down" \/ UNCHANGED <<pc, nodeVars>>
        BY <3>7 DEF Environment, Serve, SingboxRestart, FetchFails, Sync,
                    FlushTimeout, SaveFails, HandleLate, DeleteUser, TypeOK, agentVars
      <4> QED
        BY <3>1, <3>2, <4>1
    <3> QED
      BY <3>3, <3>4, <3>5, <3>6, <3>7 DEF Next
  <2> SUFFICES ASSUME NEW u \in Users, NEW d \in Directions
               PROVE  SeenAt(u, d)'
    BY <2>0
  <2>c. /\ served[u][d] \in Nat /\ served'[u][d] \in Nat
        /\ counter[u][d] \in Nat /\ counter'[u][d] \in Nat
        /\ mem.seen[u][d] \in Nat /\ mem'.seen[u][d] \in Nat
        /\ mem.last[u][d] \in Nat /\ mem'.last[u][d] \in Nat
        /\ disk.seen[u][d] \in Nat /\ disk'.seen[u][d] \in Nat
    BY DEF TypeOK, AgentState, Usage
  <2>d. SeenAt(u, d)
    BY <2>a
  \* Steps that touch neither counters nor the agent's state.
  <2>e. ASSUME UNCHANGED <<nodeVars, mem, disk, pc>>
        PROVE  SeenAt(u, d)'
    BY <2>a, <2>d, <2>e DEF nodeVars, SeenAt
  <2>f. ASSUME nodeVars' = nodeVars, mem'.seen = mem.seen, mem'.last = mem.last,
               disk' = disk \/ disk' = mem, pc' # "down"
        PROVE  SeenAt(u, d)'
    BY <2>c, <2>d, <2>f DEF nodeVars, SeenAt, Delta
  <2>1. CASE TelemetryTick
    BY <2>1, <2>f DEF TelemetryTick, Flush
  <2>2. CASE FlushRefused \/ FlushTimeout
    BY <2>2, <2>f DEF FlushRefused, FlushTimeout, TypeOK
  <2>3. CASE FlushDone
    <3>1. mem'.seen = mem.seen /\ mem'.last = mem.last
      BY <2>3 DEF FlushDone, TypeOK, AgentState
    <3> QED
      BY <2>3, <2>f, <3>1 DEF FlushDone
  <2>4. CASE FetchCounters
    <3>1. /\ mem'.last[u][d] = counter[u][d]
          /\ mem'.seen[u][d] = mem.seen[u][d] + Delta(counter[u][d], mem.last[u][d])
      BY <2>4, SnapshotState DEF FetchCounters
    <3>2. /\ counter' = counter /\ served' = served /\ resets' = resets
          /\ disk' = disk /\ pc' = "save"
      BY <2>4 DEF FetchCounters, nodeVars
    <3>3. Delta(counter[u][d], counter[u][d]) = 0
      <4>1. counter[u][d] \in Nat
        BY <2>c
      <4> QED
        BY <4>1 DEF Delta
    <3>4. resets = 0 => Delta(counter[u][d], mem.last[u][d])
                         = counter[u][d] - mem.last[u][d]
      BY <2>c, <2>d, DeltaProperties DEF SeenAt
    <3>5. Delta(counter[u][d], mem.last[u][d]) \in Nat
      BY <2>c, DeltaProperties
    <3> QED
      BY <2>c, <2>d, <3>1, <3>2, <3>3, <3>4, <3>5 DEF SeenAt
  <2>5. CASE Save
    <3>1. pc' # "down" /\ disk' = mem /\ mem' = mem /\ nodeVars' = nodeVars
      BY <2>5 DEF Save, Saving, WriteFile, Flush, TypeOK
    <3> QED
      BY <2>f, <3>1
  <2>6. CASE Start
    <3>1. /\ mem' = disk /\ disk' = disk /\ pc' = "idle" /\ counter' = Nothing
          /\ counter = Nothing /\ served' = served /\ resets' = resets /\ resets > 0
      BY <2>6, <2>a DEF Start, nodeVars
    <3>2. Delta(0, disk.last[u][d]) = 0
      BY DeltaProperties DEF TypeOK, AgentState, Usage, Delta
    <3> QED
      BY <2>c, <2>d, <3>1, <3>2, NothingUsage DEF SeenAt
  <2>7. CASE HandleNodeUsageBatch
    BY <2>7, <2>e DEF HandleNodeUsageBatch, agentVars
  <2>8. ASSUME NEW v \in Users, NEW e \in Directions, Serve(v, e)
        PROVE  SeenAt(u, d)'
    <3>1. /\ mem' = mem /\ disk' = disk /\ resets' = resets /\ pc' = pc
          /\ pc # "down"
      BY <2>8 DEF Serve, agentVars
    <3>2. CASE u = v /\ d = e
      <4>1. served'[u][d] = served[u][d] + 1 /\ counter'[u][d] = counter[u][d] + 1
        BY <2>8, <3>2 DEF Serve, TypeOK, Usage
      <4> QED
        BY <2>c, <2>d, <3>1, <4>1 DEF SeenAt, Delta
    <3>3. CASE ~(u = v /\ d = e)
      <4>1. served'[u][d] = served[u][d] /\ counter'[u][d] = counter[u][d]
        BY <2>8, <3>3 DEF Serve, TypeOK, Usage
      <4> QED
        BY <2>d, <3>1, <4>1 DEF SeenAt
    <3> QED
      BY <3>2, <3>3
  <2>9. CASE SingboxRestart
    <3>1. /\ mem' = mem /\ disk' = disk /\ resets' > 0 /\ pc' = pc
          /\ pc # "down" /\ counter'[u][d] = 0 /\ served' = served
      BY <2>9, <2>b, NothingUsage DEF SingboxRestart, agentVars
    <3> QED
      BY <2>c, <2>d, <3>1 DEF SeenAt, Delta
  <2>10. CASE FetchFails \/ Sync
    BY <2>10, <2>f DEF FetchFails, Sync
  <2>11. CASE SaveFails
    BY <2>11, <2>f DEF SaveFails, TypeOK
  <2>12. CASE Crash
    <3>1. /\ mem' = mem /\ resets' > 0 /\ counter' = Nothing /\ served' = served
          /\ counter'[u][d] = 0
      BY <2>12, <2>b, NothingUsage DEF Crash
    <3>2. disk' = disk \/ disk' = mem
      BY <2>12 DEF Crash, WriteFile
    <3> QED
      BY <2>c, <2>d, <3>1, <3>2 DEF SeenAt, Delta
  <2>13. ASSUME NEW r \in late, HandleLate(r)
         PROVE  SeenAt(u, d)'
    BY <2>13, <2>e DEF HandleLate, agentVars
  <2>14. ASSUME NEW v \in Users, DeleteUser(v)
         PROVE  SeenAt(u, d)'
    BY <2>14, <2>e DEF DeleteUser, agentVars
  <2>15. CASE UNCHANGED vars
    BY <2>15, <2>e DEF vars, agentVars
  <2> QED
    BY <2>1, <2>2, <2>3, <2>4, <2>5, <2>6, <2>7, <2>8, <2>9, <2>10, <2>11,
       <2>12, <2>13, <2>14, <2>15
       DEF Next, Agent, Environment, StartFails
<1> QED
  BY <1>1, <1>2, TypeCorrect, PTL DEF Spec

\* The agent never reports more than sing-box relayed, however sing-box
\* restarts and the agent falls back to an older state file (the handling of a
\* falling counter in handleTrafficSnapshot).
THEOREM SeenIsServed == Spec => []SeenWasServed
<1>1. SeenInv => SeenWasServed
  BY DEF SeenInv
<1> QED
  BY <1>1, SeenInvariant, PTL

\* As long as sing-box keeps its counters the agent's accounting is exact.
THEOREM ExactWithoutReset == Spec => []ExactUntilReset
<1>1. SeenInv => ExactUntilReset
  BY DEF SeenInv
<1> QED
  BY <1>1, SeenInvariant, PTL
-----------------------------------------------------------------------------
(* What a user is charged.                                                  *)

\* Nothing is pending that was not seen, in memory and in the state file.
PendingInv ==
  \A u \in Users, d \in Directions :
    /\ mem.pending[u][d] <= mem.seen[u][d]
    /\ disk.pending[u][d] <= disk.seen[u][d]

\* PendingInv holds initially and every step preserves it: a snapshot adds the
\* same to both, and the rest copies a state or clears what is pending.
THEOREM PendingInvariant == Spec => []PendingInv
<1>1. Init => PendingInv
  BY NothingUsage DEF Init, FreshState, PendingInv
<1>2. TypeOK /\ TypeOK' /\ PendingInv /\ [Next]_vars => PendingInv'
  <2> SUFFICES ASSUME TypeOK, TypeOK', PendingInv, [Next]_vars,
                      NEW u \in Users, NEW d \in Directions
               PROVE  /\ mem'.pending[u][d] <= mem'.seen[u][d]
                      /\ disk'.pending[u][d] <= disk'.seen[u][d]
    BY DEF PendingInv
  <2>a. /\ mem.seen[u][d] \in Nat /\ mem.pending[u][d] \in Nat
        /\ mem.pending[u][d] <= mem.seen[u][d]
        /\ disk.pending[u][d] <= disk.seen[u][d]
    BY DEF TypeOK, AgentState, Usage, PendingInv
  <2>b. ASSUME mem' \in {mem, disk}, disk' \in {mem, disk}
        PROVE  /\ mem'.pending[u][d] <= mem'.seen[u][d]
               /\ disk'.pending[u][d] <= disk'.seen[u][d]
    BY <2>a, <2>b
  <2>1. CASE FlushDone
    <3>1. /\ mem'.pending[u][d] = 0 /\ mem'.seen[u][d] = mem.seen[u][d]
          /\ disk' = disk
      BY <2>1, NothingUsage DEF FlushDone, TypeOK, AgentState
    <3> QED
      BY <2>a, <3>1
  <2>2. CASE FetchCounters
    <3>1. /\ \E n \in Nat : /\ mem'.pending[u][d] = mem.pending[u][d] + n
                            /\ mem'.seen[u][d] = mem.seen[u][d] + n
          /\ disk' = disk
      BY <2>2, SnapshotState DEF FetchCounters
    <3> QED
      BY <2>a, <3>1
  <2>3. CASE \/ TelemetryTick \/ FlushRefused \/ Save \/ Start \/ StartFails
             \/ HandleNodeUsageBatch \/ UNCHANGED vars
    <3>1. mem' \in {mem, disk} /\ disk' \in {mem, disk}
      BY <2>3, Zenon
         DEF TelemetryTick, FlushRefused, Save, WriteFile, Start, StartFails,
             HandleNodeUsageBatch, vars, agentVars
    <3> QED
      BY <2>b, <3>1
  <2>4. CASE Environment
    <3>1. mem' \in {mem, disk} /\ disk' \in {mem, disk}
      BY <2>4, Zenon
         DEF Environment, Serve, SingboxRestart, FetchFails, Sync, FlushTimeout,
             SaveFails, Crash, WriteFile, HandleLate, DeleteUser, agentVars
    <3> QED
      BY <2>b, <3>1
  <2> QED
    BY <2>1, <2>2, <2>3, <2>4 DEF Next, Agent
<1> QED
  BY <1>1, <1>2, TypeCorrect, PTL DEF Spec

\* A request that was given up on carries the number of its fault.
LateInv ==
  /\ \A r \in late : r.id < faults
  /\ \A r, s \in late : r.id = s.id => r = s

\* Multiplication, as far as it is needed: kept folded below.
Times(n, bytes) == n * bytes
\* One fault more, and one byte more.
LEMMA TimesRules ==
  ASSUME NEW n \in Nat, NEW b \in Nat
  PROVE  /\ Times(n, b) \in Nat
         /\ Times(n + 1, b) = Times(n, b) + b
         /\ (1 + n) * b = Times(n, b) + b
         /\ Times(n, b + 1) = Times(n, b) + n
         /\ Times(0, b) = 0
BY DEF Times

\* What the late requests still can charge a user is bounded by a running
\* total: the request of fault i takes at most total[i + 1] - total[i].  (A sum
\* over the set of requests would need induction.)
Covers(total, posts, u, d) ==
  /\ \A i, j \in Nat : i <= j => total[i] <= total[j]
  /\ \A r \in posts : total[r.id] + r.batch[u][d] <= total[r.id + 1]

\* What the agent holds and will post, unless the panel has just stored it.
Due(u, d) == IF request.status = "stored" THEN 0 ELSE mem.pending[u][d]

\* The ledger, the late requests and what is due are within what was seen, and
\* once more everything relayed for each fault.
Within(total, u, d) ==
  /\ pc = "down" => ledger[u][d] + total[faults] <= Times(faults, served[u][d])
  /\ pc # "down" => ledger[u][d] + total[faults] + Due(u, d)
                      <= Times(faults, served[u][d]) + mem.seen[u][d]

\* The inductive form of OverchargeBounded.
ChargeInv ==
  /\ LateInv
  /\ \A u \in users, d \in Directions :
       \E total \in [Nat -> Nat] : Covers(total, late, u, d) /\ Within(total, u, d)

\* The numbers of one user and direction.
LEMMA Amounts ==
  ASSUME TypeOK, NEW u \in Users, NEW d \in Directions
  PROVE  /\ ledger[u][d] \in Nat /\ served[u][d] \in Nat
         /\ mem.seen[u][d] \in Nat /\ mem.pending[u][d] \in Nat
         /\ disk.seen[u][d] \in Nat /\ disk.pending[u][d] \in Nat
         /\ Due(u, d) \in Nat /\ faults \in Nat
         /\ Times(faults, served[u][d]) \in Nat
         /\ \A r \in late : r.id \in Nat /\ r.batch[u][d] \in Nat
<1>1. /\ ledger[u][d] \in Nat /\ served[u][d] \in Nat
      /\ mem.seen[u][d] \in Nat /\ mem.pending[u][d] \in Nat
      /\ disk.seen[u][d] \in Nat /\ disk.pending[u][d] \in Nat /\ faults \in Nat
      /\ \A r \in late : r.id \in Nat /\ r.batch[u][d] \in Nat
  BY DEF TypeOK, AgentState, Usage
<1> QED
  BY <1>1, TimesRules DEF Due

\* What the agent has seen was relayed.
LEMMA SeenServed ==
  ASSUME SeenInv, NEW u \in Users, NEW d \in Directions
  PROVE  mem.seen[u][d] <= served[u][d]
<1>1. /\ counter[u][d] \in Nat /\ mem.last[u][d] \in Nat
      /\ mem.seen[u][d] \in Nat /\ served[u][d] \in Nat
  BY DEF SeenInv, TypeOK, AgentState, Usage
<1>2. Delta(counter[u][d], mem.last[u][d]) \in Nat
  BY <1>1, DeltaProperties
<1> QED
  BY <1>1, <1>2 DEF SeenInv, SeenWasServed

\* A fault leaves at most one more request, with its own number.
LEMMA LateInvAbandoned ==
  ASSUME TypeOK, LateInv, Abandon, faults' = faults + 1
  PROVE  LateInv'
<1>1. faults \in Nat /\ \A r \in late : r.id \in Nat
  BY DEF TypeOK
<1>2. \A r \in late' : r \in late \/ r = [id |-> faults, batch |-> request.batch]
  BY DEF Abandon
<1> QED
  BY <1>1, <1>2 DEF LateInv

\* The running total after a fault: what was in flight is added at its end.
LEMMA CoversAbandoned ==
  ASSUME TypeOK, RequestInv, LateInv, Abandon, faults' = faults + 1,
         NEW u \in Users, NEW d \in Directions,
         NEW total \in [Nat -> Nat], Covers(total, late, u, d)
  PROVE  \E next \in [Nat -> Nat] :
           /\ Covers(next, late', u, d)
           /\ next[faults'] = total[faults] +
                IF request.status = "sent" THEN mem.pending[u][d] ELSE 0
<1> DEFINE added == IF request.status = "sent" THEN mem.pending[u][d] ELSE 0
           next == [j \in Nat |-> IF j <= faults THEN total[j]
                                  ELSE total[faults] + added]
<1>1. faults \in Nat /\ added \in Nat /\ \A i \in Nat : total[i] \in Nat
  BY Amounts
<1>2. next \in [Nat -> Nat]
  BY <1>1
<1>3. ASSUME NEW i \in Nat, NEW j \in Nat, i <= j
      PROVE  next[i] <= next[j]
  <2>1. total[i] <= total[j] /\ (i <= faults => total[i] <= total[faults])
    BY <1>1, <1>3 DEF Covers
  <2> HIDE DEF added
  <2> QED
    BY <1>1, <1>3, <2>1
<1>4. ASSUME NEW r \in late'
      PROVE  next[r.id] + r.batch[u][d] <= next[r.id + 1]
  <2>1. CASE r \in late
    <3>1. r.id \in Nat /\ r.id < faults /\ r.id + 1 <= faults
      BY <1>1, <2>1 DEF LateInv, TypeOK
    <3>2. next[r.id] = total[r.id] /\ next[r.id + 1] = total[r.id + 1]
      BY <1>1, <3>1
    <3> QED
      BY <2>1, <3>2 DEF Covers
  <2>2. CASE r \notin late
    <3>1. request.status = "sent" /\ r.id = faults /\ r.batch = mem.pending
      BY <2>2 DEF Abandon, RequestInv
    <3>2. next[r.id] = total[faults] /\ next[r.id + 1] = total[faults] + added
      BY <1>1, <3>1
    <3> QED
      BY <1>1, <3>1, <3>2
  <2> QED
    BY <2>1, <2>2
<1>5. Covers(next, late', u, d)
  BY <1>2, <1>3, <1>4, Zenon DEF Covers
<1>6. next[faults'] = total[faults] + added
  BY <1>1
<1> QED
  BY <1>2, <1>5, <1>6

\* The running total after a late request was handled: what it had is free.
LEMMA CoversHandled ==
  ASSUME TypeOK, LateInv, NEW r \in late, late' = late \ {r},
         NEW u \in Users, NEW d \in Directions,
         NEW total \in [Nat -> Nat], Covers(total, late, u, d)
  PROVE  \E next \in [Nat -> Nat] :
           /\ Covers(next, late', u, d)
           /\ next[faults] + r.batch[u][d] = total[faults]
<1> DEFINE freed == r.batch[u][d]
           next == [j \in Nat |-> IF j <= r.id THEN total[j] ELSE total[j] - freed]
<1>1. /\ faults \in Nat /\ r.id \in Nat /\ r.id < faults /\ freed \in Nat
      /\ \A i \in Nat : total[i] \in Nat
  BY Amounts DEF LateInv
<1>2. \A j \in Nat : j > r.id => total[r.id] + freed <= total[j]
  <2> SUFFICES ASSUME NEW j \in Nat, j > r.id
               PROVE  total[r.id] + freed <= total[j]
    OBVIOUS
  <2>1. total[r.id] + freed <= total[r.id + 1]
    BY DEF Covers
  <2>2. r.id + 1 \in Nat /\ r.id + 1 <= j
    BY <1>1
  <2>3. total[r.id + 1] <= total[j]
    BY <2>2 DEF Covers
  <2> QED
    BY <1>1, <2>1, <2>2, <2>3
<1>3. next \in [Nat -> Nat]
  <2> SUFFICES ASSUME NEW j \in Nat, ~(j <= r.id)
               PROVE  total[j] - freed \in Nat
    BY <1>1
  <2>1. j > r.id
    BY <1>1
  <2> HIDE DEF freed
  <2> QED
    BY <1>1, <1>2, <2>1
<1>4. ASSUME NEW i \in Nat, NEW j \in Nat, i <= j
      PROVE  next[i] <= next[j]
  <2>1. total[i] <= total[j] /\ (i <= r.id => total[i] <= total[r.id])
    BY <1>1, <1>4 DEF Covers
  <2>2. j > r.id => total[r.id] + freed <= total[j]
    BY <1>2
  <2> HIDE DEF freed
  <2> QED
    BY <1>1, <1>4, <2>1, <2>2
<1>5. ASSUME NEW s \in late'
      PROVE  next[s.id] + s.batch[u][d] <= next[s.id + 1]
  <2>1. /\ s \in late /\ s.id # r.id /\ s.id \in Nat /\ s.batch[u][d] \in Nat
        /\ total[s.id] + s.batch[u][d] <= total[s.id + 1]
    BY Amounts DEF LateInv, Covers
  <2>2. s.id + 1 <= r.id \/ s.id > r.id
    BY <1>1, <2>1
  <2>3. s.id + 1 \in Nat
    BY <2>1
  <2> HIDE DEF freed
  <2> QED
    BY <1>1, <2>1, <2>2, <2>3
<1>6. Covers(next, late', u, d)
  BY <1>3, <1>4, <1>5, Zenon DEF Covers
<1>7. next[faults] = total[faults] - freed
  BY <1>1
<1> HIDE DEF next
<1>8. next[faults] + freed = total[faults]
  BY <1>1, <1>7
<1> QED
  BY <1>3, <1>6, <1>8

\* ChargeInv holds initially and every step preserves it: what is due becomes
\* charged, a fault leaves at most one more request that can charge what was
\* pending, and what a fallen-back agent posts again was relayed before.
THEOREM ChargeInvariant == Spec => []ChargeInv
<1>1. Init => ChargeInv
  <2> SUFFICES ASSUME Init, NEW u \in users, NEW d \in Directions
               PROVE  LateInv /\ \E total \in [Nat -> Nat] :
                        Covers(total, late, u, d) /\ Within(total, u, d)
    BY DEF ChargeInv, LateInv, Init
  <2> DEFINE total == [i \in Nat |-> 0]
  <2>1. LateInv /\ total \in [Nat -> Nat] /\ Covers(total, late, u, d)
    BY DEF Init, LateInv, Covers
  <2>2. u \in Users /\ faults = 0 /\ pc = "idle"
    BY DEF Init
  <2>3. ledger[u][d] = 0 /\ served[u][d] = 0 /\ mem.seen[u][d] = 0 /\ mem.pending[u][d] = 0
    BY <2>2, NothingUsage DEF Init, FreshState
  <2>4. Within(total, u, d)
    BY <2>2, <2>3, TimesRules DEF Within, Due
  <2> QED
    BY <2>1, <2>4
<1>2. LossInv /\ SeenInv /\ PendingInv /\ TypeOK' /\ ChargeInv /\ [Next]_vars => ChargeInv'
  <2> SUFFICES ASSUME LossInv, SeenInv, PendingInv, TypeOK', ChargeInv, [Next]_vars
               PROVE  ChargeInv'
    OBVIOUS
  <2>t. TypeOK /\ RequestInv /\ LateInv
    BY DEF LossInv, ChargeInv
  <2>l. LateInv'
    <3>1. ASSUME late' \subseteq late, faults' = faults PROVE LateInv'
      BY <2>t, <3>1 DEF LateInv
    <3>2. CASE FlushTimeout \/ Crash
      BY <2>t, <3>2, LateInvAbandoned DEF FlushTimeout, Crash
    <3>3. CASE Environment /\ ~(FlushTimeout \/ Crash)
      <4>1. late' \subseteq late /\ faults' = faults
        BY <3>3 DEF Environment, Serve, SingboxRestart, FetchFails, Sync, SaveFails,
                    HandleLate, DeleteUser, netVars
      <4> QED
        BY <3>1, <4>1
    <3>4. CASE Agent \/ HandleNodeUsageBatch \/ UNCHANGED vars
      <4>1. late' \subseteq late /\ faults' = faults
        BY <3>4 DEF Agent, TelemetryTick, FlushRefused, FlushDone, FetchCounters, Save,
                    Start, StartFails, HandleNodeUsageBatch, vars, netVars
      <4> QED
        BY <3>1, <4>1
    <3> QED
      BY <3>2, <3>3, <3>4 DEF Next
  <2> SUFFICES ASSUME NEW u \in users', NEW d \in Directions
               PROVE  \E total \in [Nat -> Nat] :
                        Covers(total, late', u, d) /\ Within(total, u, d)'
    BY <2>l DEF ChargeInv
  <2>u. u \in users /\ u \in Users
    BY <2>t, LedgerGrows DEF TypeOK
  <2>w. PICK total \in [Nat -> Nat] : Covers(total, late, u, d) /\ Within(total, u, d)
    BY <2>u DEF ChargeInv
  <2>a. /\ ledger[u][d] \in Nat /\ served[u][d] \in Nat
        /\ mem.seen[u][d] \in Nat /\ mem.pending[u][d] \in Nat
        /\ disk.seen[u][d] \in Nat /\ disk.pending[u][d] \in Nat
        /\ Due(u, d) \in Nat /\ faults \in Nat
        /\ Times(faults, served[u][d]) \in Nat
        /\ \A r \in late : r.id \in Nat /\ r.batch[u][d] \in Nat
    BY <2>t, <2>u, Amounts
  <2>b. /\ ledger'[u][d] \in Nat /\ served'[u][d] \in Nat
        /\ mem'.seen[u][d] \in Nat /\ mem'.pending[u][d] \in Nat
    BY <2>u DEF TypeOK, AgentState, Usage
  <2>c. /\ mem.pending[u][d] <= mem.seen[u][d]
        /\ disk.pending[u][d] <= disk.seen[u][d]
        /\ mem.seen[u][d] <= served[u][d]
    BY <2>u, SeenServed DEF PendingInv
  <2>n. \A i \in Nat : total[i] \in Nat
    OBVIOUS
  <2>m. /\ Times(faults + 1, served[u][d]) = Times(faults, served[u][d]) + served[u][d]
    BY <2>a, TimesRules
  \* Steps that change neither the requests given up on nor the numbers.
  <2>q. ASSUME late' = late, faults' = faults, ledger'[u][d] = ledger[u][d],
               served' = served, mem'.seen = mem.seen, Due(u, d)' <= Due(u, d),
               pc = "down" <=> pc' = "down"
        PROVE  Covers(total, late', u, d) /\ Within(total, u, d)'
    <3>1. Due(u, d)' \in Nat
      BY <2>b DEF Due
    <3> QED
      BY <2>w, <2>a, <2>n, <2>q, <3>1 DEF Within
  <2>1. CASE TelemetryTick
    <3>1. /\ late' = late /\ faults' = faults /\ ledger' = ledger /\ served' = served
          /\ mem' = mem /\ pc = "idle" /\ pc' # "down"
      BY <2>1 DEF TelemetryTick, Flush, panelVars, nodeVars
    <3>2. request.status = "none"
      BY <2>t, <3>1 DEF RequestInv, TypeOK, Requests
    <3>3. request'.status \in {"none", "sent"}
      BY <2>1, <3>2 DEF TelemetryTick, Flush
    <3>4. Due(u, d)' = Due(u, d)
      BY <3>1, <3>2, <3>3 DEF Due
    <3> QED
      BY <2>a, <2>q, <3>1, <3>4
  <2>2. CASE Save
    <3>1. /\ late' = late /\ faults' = faults /\ ledger' = ledger /\ served' = served
          /\ mem' = mem /\ pc \in Saving /\ pc' # "down"
      BY <2>2, <2>t DEF Save, Saving, Flush, panelVars, nodeVars, TypeOK
    <3>2. request.status = "none"
      BY <2>t, <3>1 DEF RequestInv, TypeOK, Requests, Saving
    <3>3. request'.status \in {"none", "sent"}
      <4>1. CASE pc = "save"
        BY <2>2, <3>2, <4>1 DEF Save, Flush
      <4>2. CASE pc = "drain" \/ pc = "sync"
        BY <2>2, <3>2, <4>2 DEF Save
      <4> QED
        BY <3>1, <4>1, <4>2 DEF Saving
    <3>4. Due(u, d)' = Due(u, d)
      BY <3>1, <3>2, <3>3 DEF Due
    <3> QED
      BY <2>a, <2>q, <3>1, <3>4 DEF Saving
  <2>3. CASE FlushRefused
    <3>1. /\ late' = late /\ faults' = faults /\ ledger' = ledger /\ served' = served
          /\ mem' = mem /\ pc # "down" /\ pc' # "down"
      BY <2>3, <2>t DEF FlushRefused, panelVars, nodeVars, TypeOK
    <3>2. Due(u, d)' = Due(u, d)
      BY <2>3, <3>1 DEF Due, FlushRefused, NoRequest
    <3> QED
      BY <2>a, <2>q, <3>1, <3>2
  <2>4. CASE FlushDone
    <3>1. /\ late' = late /\ faults' = faults /\ ledger' = ledger /\ served' = served
          /\ mem'.seen = mem.seen /\ mem'.pending[u][d] = 0 /\ pc # "down" /\ pc' # "down"
      BY <2>4, <2>t, <2>u, NothingUsage
         DEF FlushDone, panelVars, nodeVars, TypeOK, AgentState
    <3>2. Due(u, d)' = 0
      BY <3>1 DEF Due
    <3> QED
      BY <2>a, <2>q, <3>1, <3>2
  <2>5. CASE FetchCounters
    <3>1. /\ late' = late /\ faults' = faults /\ ledger' = ledger /\ served' = served
          /\ request' = request /\ pc # "down" /\ pc' # "down"
      BY <2>5 DEF FetchCounters, panelVars, nodeVars, netVars
    <3>2. PICK n \in Nat : /\ mem'.pending[u][d] = mem.pending[u][d] + n
                           /\ mem'.seen[u][d] = mem.seen[u][d] + n
      BY <2>5, <2>t, <2>u, SnapshotState DEF FetchCounters
    <3>3. Due(u, d)' \in Nat /\ Due(u, d)' <= Due(u, d) + n
      BY <2>a, <2>b, <3>1, <3>2 DEF Due
    <3>4. Within(total, u, d)'
      BY <2>w, <2>a, <2>n, <3>1, <3>2, <3>3 DEF Within
    <3> QED
      BY <2>w, <3>1, <3>4
  <2>6. CASE Start
    <3>1. /\ late' = late /\ faults' = faults /\ ledger' = ledger /\ served' = served
          /\ mem' = disk /\ pc = "down" /\ pc' # "down"
      BY <2>6 DEF Start, panelVars, nodeVars, netVars
    <3>2. Due(u, d)' \in Nat /\ Due(u, d)' <= disk.pending[u][d]
      BY <2>a, <3>1 DEF Due
    <3>3. Within(total, u, d)'
      BY <2>w, <2>a, <2>c, <2>n, <3>1, <3>2 DEF Within
    <3> QED
      BY <2>w, <3>1, <3>3
  <2>7. CASE HandleNodeUsageBatch
    <3>1. /\ late' = late /\ faults' = faults /\ served' = served
          /\ mem' = mem /\ pc' = pc /\ request.status = "sent" /\ pc = "flush"
          /\ request.batch = mem.pending
      BY <2>7, <2>t DEF HandleNodeUsageBatch, nodeVars, agentVars, RequestInv
    <3>2. Due(u, d) = mem.pending[u][d]
      BY <3>1 DEF Due
    <3>3. CASE SaveUsageBatch(request.batch) /\ request'.status = "stored"
      <4>1. ledger'[u][d] = ledger[u][d] + mem.pending[u][d]
        BY <2>t, <2>u, <3>1, <3>3, PlusUsage DEF SaveUsageBatch, TypeOK, AgentState
      <4>2. Due(u, d)' = 0
        BY <3>3 DEF Due
      <4>3. Within(total, u, d)'
        BY <2>w, <2>a, <2>n, <3>1, <3>2, <4>1, <4>2 DEF Within
      <4> QED
        BY <2>w, <3>1, <4>3
    <3>4. CASE ledger' = ledger /\ request'.status = "refused"
      <4>1. Due(u, d)' = Due(u, d)
        BY <3>1, <3>2, <3>4 DEF Due
      <4> QED
        BY <2>a, <2>q, <3>1, <3>4, <4>1
    <3> QED
      BY <2>7, <2>t, <3>3, <3>4 DEF HandleNodeUsageBatch, TypeOK, Requests
  <2>8. ASSUME NEW v \in Users, NEW e \in Directions, Serve(v, e)
        PROVE  Covers(total, late', u, d) /\ Within(total, u, d)'
    <3>1. /\ late' = late /\ faults' = faults /\ ledger' = ledger
          /\ mem' = mem /\ pc' = pc /\ request' = request
      BY <2>8 DEF Serve, panelVars, agentVars, netVars
    <3>2. served'[u][d] = served[u][d] \/ served'[u][d] = served[u][d] + 1
      BY <2>8, <2>t, <2>u DEF Serve, TypeOK, Usage
    <3>3. /\ Times(faults, served'[u][d]) \in Nat
          /\ Times(faults, served[u][d]) <= Times(faults, served'[u][d])
      <4>1. CASE served'[u][d] = served[u][d]
        BY <2>a, <4>1
      <4>2. CASE served'[u][d] = served[u][d] + 1
        <5>1. /\ Times(faults, served[u][d] + 1) = Times(faults, served[u][d]) + faults
          BY <2>a, TimesRules
        <5> QED
          BY <2>a, <4>2, <5>1
      <4> QED
        BY <3>2, <4>1, <4>2
    <3>4. Due(u, d)' = Due(u, d)
      BY <3>1 DEF Due
    <3>5. Within(total, u, d)'
      BY <2>w, <2>a, <2>n, <3>1, <3>3, <3>4 DEF Within
    <3> QED
      BY <2>w, <3>1, <3>5
  <2>9. ASSUME NEW r \in late, HandleLate(r)
        PROVE  \E next \in [Nat -> Nat] :
                 Covers(next, late', u, d) /\ Within(next, u, d)'
    <3>1. /\ late' = late \ {r} /\ faults' = faults /\ served' = served
          /\ mem' = mem /\ pc' = pc /\ request' = request
      BY <2>9 DEF HandleLate, nodeVars, agentVars
    <3>2. PICK next \in [Nat -> Nat] :
            Covers(next, late', u, d) /\ next[faults] + r.batch[u][d] = total[faults]
      BY <2>t, <2>u, <2>w, <3>1, CoversHandled
    <3>3. ledger'[u][d] \in {ledger[u][d], ledger[u][d] + r.batch[u][d]}
      <4>1. CASE ledger' = ledger
        BY <4>1
      <4>2. CASE SaveUsageBatch(r.batch)
        <5>1. r.batch \in Usage
          BY <2>t DEF TypeOK
        <5> QED
          BY <2>t, <2>u, <4>2, <5>1, PlusUsage DEF SaveUsageBatch, TypeOK
      <4> QED
        BY <2>9, <4>1, <4>2 DEF HandleLate
    <3>4. Due(u, d)' = Due(u, d)
      BY <3>1 DEF Due
    <3>5. next[faults] \in Nat /\ r.batch[u][d] \in Nat
      BY <2>a
    <3>6. Within(next, u, d)'
      BY <2>w, <2>a, <2>n, <3>1, <3>2, <3>3, <3>4, <3>5 DEF Within
    <3> QED
      BY <3>2, <3>6
  <2>10. CASE FlushTimeout \/ Crash
    <3>1. /\ faults' = faults + 1 /\ Abandon /\ ledger' = ledger /\ served' = served
          /\ mem' = mem /\ pc # "down" /\ request'.status = "none"
      BY <2>10 DEF FlushTimeout, Crash, panelVars, nodeVars, NoRequest
    <3>2. PICK next \in [Nat -> Nat] :
            /\ Covers(next, late', u, d)
            /\ next[faults'] = total[faults] +
                 IF request.status = "sent" THEN mem.pending[u][d] ELSE 0
      BY <2>t, <2>u, <2>w, <3>1, CoversAbandoned
    <3>3. Due(u, d)' = mem.pending[u][d]
      BY <3>1 DEF Due
    <3>4. /\ next[faults'] \in Nat
          /\ next[faults'] <= total[faults] + Due(u, d)
      BY <2>a, <2>n, <3>1, <3>2 DEF Due
    <3>5. Times(faults', served'[u][d]) = Times(faults, served[u][d]) + served[u][d]
      BY <2>m, <3>1
    <3>6. ledger[u][d] + total[faults] + Due(u, d)
            <= Times(faults, served[u][d]) + mem.seen[u][d]
      BY <2>w, <3>1 DEF Within
    <3>7. Within(next, u, d)'
      BY <2>a, <2>c, <2>n, <3>1, <3>3, <3>4, <3>5, <3>6 DEF Within
    <3> QED
      BY <3>2, <3>7
  <2>11. CASE SingboxRestart \/ FetchFails \/ Sync \/ SaveFails \/ UNCHANGED vars
    <3>1. /\ late' = late /\ faults' = faults /\ ledger' = ledger /\ served' = served
          /\ mem' = mem /\ request' = request /\ (pc = "down" <=> pc' = "down")
      <4>1. CASE SingboxRestart \/ UNCHANGED vars
        BY <4>1 DEF SingboxRestart, vars, nodeVars, agentVars, netVars, panelVars
      <4>2. CASE FetchFails \/ Sync
        BY <4>2 DEF FetchFails, Sync, nodeVars, netVars, panelVars
      <4>3. CASE SaveFails
        BY <2>t, <4>3 DEF SaveFails, Saving, TypeOK, nodeVars, netVars, panelVars
      <4> QED
        BY <2>11, <4>1, <4>2, <4>3
    <3>2. Due(u, d)' = Due(u, d)
      BY <3>1 DEF Due
    <3> QED
      BY <2>a, <2>q, <3>1, <3>2
  <2>12. ASSUME NEW v \in Users, DeleteUser(v)
         PROVE  Covers(total, late', u, d) /\ Within(total, u, d)'
    <3>1. /\ late' = late /\ faults' = faults /\ served' = served
          /\ mem' = mem /\ request' = request /\ pc' = pc
      BY <2>12 DEF DeleteUser, nodeVars, agentVars, netVars
    <3>2. ledger'[u][d] = ledger[u][d]
      BY <2>12, <2>t, <2>u DEF DeleteUser, TypeOK, Usage
    <3>3. Due(u, d)' = Due(u, d)
      BY <3>1 DEF Due
    <3> QED
      BY <2>a, <2>q, <3>1, <3>2, <3>3
  <2> QED
    BY <2>1, <2>2, <2>3, <2>4, <2>5, <2>6, <2>7, <2>8, <2>9, <2>10, <2>11, <2>12
       DEF Next, Agent, Environment, StartFails
<1> QED
  BY <1>1, <1>2, TypeCorrect, LossInvariant, SeenInvariant, PendingInvariant, PTL DEF Spec

\* A user is charged at most 1 + faults times what sing-box relayed for it, and
\* without a crash or a timeout never more than it used (a batch that was given
\* up on is posted again, and the panel cannot tell).
THEOREM OverchargeIsBounded == Spec => []OverchargeBounded
<1>1. LossInv /\ SeenInv /\ ChargeInv => OverchargeBounded
  <2> SUFFICES ASSUME LossInv, SeenInv, ChargeInv, NEW u \in users, NEW d \in Directions
               PROVE  ledger[u][d] <= (1 + faults) * served[u][d]
    BY DEF OverchargeBounded
  <2>1. TypeOK /\ u \in Users
    BY DEF LossInv, TypeOK
  <2>2. PICK total \in [Nat -> Nat] : Within(total, u, d)
    BY DEF ChargeInv
  <2>3. /\ ledger[u][d] \in Nat /\ served[u][d] \in Nat /\ mem.seen[u][d] \in Nat
        /\ Due(u, d) \in Nat /\ faults \in Nat
        /\ Times(faults, served[u][d]) \in Nat
    BY <2>1, Amounts
  <2>4. total[faults] \in Nat
    BY <2>3
  <2>5. mem.seen[u][d] <= served[u][d]
    BY <2>1, SeenServed
  <2>6. (1 + faults) * served[u][d] = Times(faults, served[u][d]) + served[u][d]
    BY <2>3, TimesRules
  <2>7. ledger[u][d] <= Times(faults, served[u][d]) + served[u][d]
    BY <2>2, <2>3, <2>4, <2>5 DEF Within
  <2> QED
    BY <2>6, <2>7
<1> QED
  BY <1>1, LossInvariant, SeenInvariant, ChargeInvariant, PTL
=============================================================================
