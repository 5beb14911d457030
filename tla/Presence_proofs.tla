--------------------------- MODULE Presence_proofs ---------------------------
(***************************************************************************)
(* Proofs about Presence, for any users, slots and bounds.  PresenceInv is *)
(* inductive: every action is checked once against its type, once against  *)
(* the ages, and once against what transactions do to the rows.            *)
(***************************************************************************)
EXTENDS Presence, TLAPS

\* The bounds are natural numbers.
LEMMA Bounds == Fresh \in Nat /\ MaxLate \in Nat /\ MaxFaults \in Nat /\ MaxDeletes \in Nat
  BY PresenceAssumption

\* The parts of PresenceInv.
Ages ==
  \A u \in Users :
    /\ u \in sessions \cup moved => idle[u] = 0
    /\ pc = "sessions" /\ u \in active => idle[u] <= lag
    /\ u \in rows /\ age[u] <= Fresh => idle[u] <= age[u] + MaxLate

PushAges ==
  \A s \in Slots :
    push[s].stage # "none" =>
      /\ push[s].open <= push[s].lag
      /\ \A u \in push[s].snap : idle[u] <= push[s].lag

Alone ==
  \A s \in Slots :
    IsOpen(s) /\ push[s].alone = "yes" =>
      /\ push[s].del = rows
      /\ \A t \in Slots \ {s} : ~IsOpen(t)

LEMMA InvParts == PresenceInv <=> TypeOK /\ Ages /\ PushAges /\ Alone /\ SnapshotIsWhole
  BY DEF PresenceInv, Ages, PushAges, Alone

LEMMA NoPushTyped == NoPush \in Push
  BY Bounds DEF NoPush, Push

-----------------------------------------------------------------------------
\* The initial states are well typed.
LEMMA InitTyped == Init => TypeOK
<1> SUFFICES ASSUME Init PROVE TypeOK
  OBVIOUS
<1>1. idle \in [Users -> 0..Forgotten] BY Bounds DEF Init, Forgotten
<1>2. age \in [Users -> 0..Forgotten] BY Bounds DEF Init, Nobody, Forgotten
<1>3. push \in [Slots -> Push] BY NoPushTyped DEF Init
<1>4. lag \in 0..MaxLate BY Bounds DEF Init
<1> QED BY <1>1, <1>2, <1>3, <1>4 DEF Init, TypeOK

\* sing-box's and the administrator's actions keep the types.
LEMMA NodeTyped ==
  ASSUME TypeOK, NEW u \in Users, Connect(u) \/ Disconnect(u) \/ Relay(u) \/ DeleteUser(u)
  PROVE  TypeOK'
<1>1. CASE Connect(u) BY <1>1, Bounds DEF Connect, TypeOK, agentVars, tableVars, Forgotten
<1>2. CASE Disconnect(u) BY <1>2 DEF Disconnect, TypeOK, agentVars, tableVars
<1>3. CASE Relay(u) BY <1>3, Bounds DEF Relay, TypeOK, agentVars, tableVars, Forgotten
<1>4. CASE DeleteUser(u)
  <2>1. push' \in [Slots -> Push]
    <3>1. \A s \in Slots : [push[s] EXCEPT !.del = @ \ {u}] \in Push
      BY DEF TypeOK, Push
    <3> QED BY <1>4, <3>1 DEF DeleteUser
  <2>2. age' \in [Users -> 0..Forgotten] BY <1>4, Bounds DEF DeleteUser, TypeOK, Forgotten
  <2> QED BY <1>4, <2>1, <2>2 DEF DeleteUser, TypeOK, nodeVars, agentVars
<1> QED BY <1>1, <1>2, <1>3, <1>4

\* So does time.
LEMMA OlderTyped ==
  ASSUME NEW p \in Push, p.stage # "none" => p.lag < MaxLate,
         p.stage # "none" => p.open <= p.lag
  PROVE  /\ Older(p) \in Push
         /\ Older(p).snap = p.snap /\ Older(p).stage = p.stage
         /\ Older(p).alone = p.alone /\ Older(p).del = p.del
         /\ p.stage # "none" => Older(p).lag = p.lag + 1 /\ Older(p).open <= Older(p).lag
<1>1. p.lag \in Nat /\ p.open \in Nat /\ p.stage \in {"none", "sent", "open"}
  BY Bounds DEF Push
<1>2. CASE p.stage = "none" BY <1>2 DEF Older
<1>3. CASE p.stage = "sent"
  <2>1. Older(p) = [stage |-> p.stage, snap |-> p.snap, lag |-> p.lag + 1, del |-> p.del,
                    open |-> p.open, alone |-> p.alone]
    BY <1>3 DEF Older, Push
  <2>2. p.lag + 1 \in 0..MaxLate /\ p.open \in 0..MaxLate /\ p.open <= p.lag + 1
    BY <1>1, <1>3, Bounds DEF Push
  <2>3. Older(p) \in Push BY <2>1, <2>2 DEF Push
  <2> QED BY <1>3, <2>1, <2>2, <2>3
<1>4. CASE p.stage = "open"
  <2>1. Older(p) = [stage |-> p.stage, snap |-> p.snap, lag |-> p.lag + 1, del |-> p.del,
                    open |-> p.open + 1, alone |-> p.alone]
    BY <1>4 DEF Older, Push
  <2>2. p.lag + 1 \in 0..MaxLate /\ p.open + 1 \in 0..MaxLate /\ p.open + 1 <= p.lag + 1
    BY <1>1, <1>4, Bounds DEF Push
  <2>3. Older(p) \in Push BY <2>1, <2>2 DEF Push
  <2> QED BY <1>4, <2>1, <2>2, <2>3
<1> QED BY <1>1, <1>2, <1>3, <1>4

LEMMA TickTyped == ASSUME TypeOK, PushAges, Tick PROVE TypeOK'
<1>1. lag' \in 0..MaxLate
  <2>1. lag \in 0..MaxLate /\ (pc # "idle" => lag < MaxLate) BY DEF TypeOK, Tick
  <2>2. lag' = IF pc = "idle" THEN 0 ELSE lag + 1 BY DEF Tick
  <2> QED BY <2>1, <2>2, Bounds
<1>2. push' \in [Slots -> Push]
  <2>1. \A s \in Slots : Older(push[s]) \in Push
    <3> SUFFICES ASSUME NEW s \in Slots PROVE Older(push[s]) \in Push
      OBVIOUS
    <3>1. push[s] \in Push BY DEF TypeOK
    <3> QED BY <3>1, OlderTyped DEF Tick, PushAges
  <2> QED BY <2>1 DEF Tick
<1>3. idle' \in [Users -> 0..Forgotten]
  <2>1. idle \in [Users -> 0..Forgotten] /\ Forgotten \in Nat
    BY Bounds DEF TypeOK, Forgotten
  <2>2. idle' = [u \in Users |->
          IF u \in sessions \cup moved THEN 0
          ELSE IF idle[u] < Forgotten THEN idle[u] + 1 ELSE Forgotten]
    BY DEF Tick
  <2> QED BY <2>1, <2>2
<1>4. age' \in [Users -> 0..Forgotten]
  <2>1. age' = [u \in Users |->
          IF u \notin rows THEN 0 ELSE IF age[u] <= Fresh THEN age[u] + 1 ELSE age[u]]
    BY DEF Tick
  <2> QED BY <2>1, Bounds DEF TypeOK, Forgotten
<1> QED BY <1>1, <1>2, <1>3, <1>4 DEF Tick, TypeOK, nodeVars

\* The agent's actions keep the types.
LEMMA AgentTyped ==
  ASSUME TypeOK, CollectTraffic \/ NothingToPush \/ SessionsFail \/ GiveUp \/ Crash \/ Sync
  PROVE  TypeOK'
<1>1. CASE CollectTraffic
  BY <1>1, Bounds DEF CollectTraffic, Fault, TypeOK, tableVars
<1>2. CASE NothingToPush
  BY <1>2, Bounds DEF NothingToPush, Done, TypeOK, nodeVars, tableVars
<1>3. CASE SessionsFail
  BY <1>3, Bounds DEF SessionsFail, Done, Fault, TypeOK, nodeVars, tableVars
<1>4. CASE GiveUp
  BY <1>4, Bounds DEF GiveUp, Done, Fault, TypeOK, nodeVars, tableVars
<1>5. CASE Crash
  BY <1>5, Bounds DEF Crash, Done, Fault, TypeOK, tableVars
<1>6. CASE Sync
  BY <1>6 DEF Sync, TypeOK, agentVars, tableVars
<1> QED BY <1>1, <1>2, <1>3, <1>4, <1>5, <1>6

\* What a push starts as.
LEMMA NewPush == ASSUME TypeOK PROVE Sent(Snapshot, lag) \in Push
<1>1. Snapshot \subseteq Users /\ lag \in 0..MaxLate BY DEF TypeOK, Snapshot
<1> QED BY <1>1, Bounds DEF Push, Sent

LEMMA PushTyped == ASSUME TypeOK, NEW s \in Slots, PushSnapshot(s) PROVE TypeOK'
<1>1. push' \in [Slots -> Push] BY NewPush DEF PushSnapshot, TypeOK
<1> QED BY <1>1, Bounds DEF PushSnapshot, TypeOK, nodeVars, tableVars

\* What Begin, Commit and the others make of the pushes, and of the agent.
LEMMA EndTyped ==
  ASSUME TypeOK, NEW s \in Slots, End(s)
  PROVE  /\ pc' \in {"idle", "sessions", "push"} /\ active' \subseteq Users
         /\ lag' \in 0..MaxLate /\ waiting' \subseteq Slots
         /\ pc' = "sessions" => UNCHANGED agentVars
  BY Bounds DEF TypeOK, End, Done, agentVars

Begun(s) ==
  [push[s] EXCEPT !.stage = "open", !.del = rows,
                  !.alone = IF \E o \in Slots : IsOpen(o) THEN "no" ELSE "yes"]

LEMMA BegunTyped ==
  ASSUME TypeOK, NEW s \in Slots
  PROVE  /\ Begun(s) \in Push
         /\ Begun(s).stage = "open" /\ Begun(s).snap = push[s].snap
         /\ Begun(s).lag = push[s].lag /\ Begun(s).open = push[s].open
         /\ Begun(s).del = rows
         /\ Begun(s).alone = IF \E o \in Slots : IsOpen(o) THEN "no" ELSE "yes"
<1>1. push[s] \in Push /\ rows \subseteq Users BY DEF TypeOK
<1>2. PICK c \in {"yes", "no"} : c = IF \E o \in Slots : IsOpen(o) THEN "no" ELSE "yes"
  OBVIOUS
<1>3. Begun(s) = [push[s] EXCEPT !.stage = "open", !.del = rows, !.alone = c]
  BY <1>2 DEF Begun
<1>4. Begun(s) = [stage |-> "open", snap |-> push[s].snap, lag |-> push[s].lag, del |-> rows,
                  open |-> push[s].open, alone |-> c]
  BY <1>1, <1>3 DEF Push
<1>5. Begun(s) \in Push BY <1>1, <1>2, <1>4 DEF Push
<1> QED BY <1>2, <1>4, <1>5

LEMMA BeginSplit ==
  ASSUME TypeOK, NEW s \in Slots, Begin(s), NEW t \in Slots
  PROVE  push'[t] = IF t = s THEN Begun(s)
                    ELSE IF IsOpen(t) THEN [push[t] EXCEPT !.alone = "no"] ELSE push[t]
  BY DEF Begin, Begun

LEMMA BeginTyped == ASSUME TypeOK, NEW s \in Slots, Begin(s) PROVE TypeOK'
<1>1. \A t \in Slots : push'[t] \in Push
  <2> SUFFICES ASSUME NEW t \in Slots PROVE push'[t] \in Push
    OBVIOUS
  <2>1. push[t] \in Push BY DEF TypeOK
  <2>2. [push[t] EXCEPT !.alone = "no"] \in Push BY <2>1 DEF Push
  <2> QED BY <2>1, <2>2, BeginSplit, BegunTyped
<1>2. push' \in [Slots -> Push] BY <1>1 DEF Begin
<1> QED BY <1>2 DEF Begin, TypeOK, nodeVars, agentVars, tableVars

LEMMA ClosedTyped ==
  ASSUME TypeOK, NEW s \in Slots, NEW t \in Slots
  PROVE  /\ Closed(s)[t] \in Push
         /\ t = s => Closed(s)[t] = NoPush
         /\ t # s => /\ Closed(s)[t].stage = push[t].stage /\ Closed(s)[t].snap = push[t].snap
                     /\ Closed(s)[t].lag = push[t].lag /\ Closed(s)[t].open = push[t].open
                     /\ Closed(s)[t].alone = push[t].alone
<1>1. push[t] \in Push BY DEF TypeOK
<1>2. [push[t] EXCEPT !.del = @ \ (push[s].del \cup push[s].snap)] \in Push BY <1>1 DEF Push
<1>3. Closed(s)[t] = IF t = s THEN NoPush
                     ELSE [push[t] EXCEPT !.del = @ \ (push[s].del \cup push[s].snap)]
  BY Zenon DEF Closed
<1> QED BY <1>1, <1>2, <1>3, NoPushTyped DEF Push

LEMMA CommitTyped == ASSUME TypeOK, PushAges, NEW s \in Slots, Commit(s) PROVE TypeOK'
<1>1. push' \in [Slots -> Push]
  <2>1. \A t \in Slots : Closed(s)[t] \in Push BY ClosedTyped
  <2>2. push' = Closed(s) BY DEF Commit
  <2> QED BY <2>1, <2>2 DEF Closed
<1>2. rows' \subseteq users /\ last' \subseteq Users BY DEF Commit, TypeOK
<1>3. mixed' \in {"yes", "no"} BY DEF Commit, TypeOK, Push
<1>4. age' \in [Users -> 0..Forgotten]
  <2>1. push[s].open \in 0..Forgotten /\ age \in [Users -> 0..Forgotten]
    BY Bounds DEF TypeOK, Push, Forgotten
  <2>2. 0 \in 0..Forgotten BY Bounds DEF Forgotten
  <2>3. age' = [u \in Users |-> IF u \in push[s].snap THEN push[s].open
                                ELSE IF u \in rows' THEN age[u] ELSE 0]
    BY DEF Commit
  <2> QED BY <2>1, <2>2, <2>3
<1> QED BY <1>1, <1>2, <1>3, <1>4, EndTyped DEF Commit, TypeOK, nodeVars

LEMMA DropTyped ==
  ASSUME TypeOK, NEW s \in Slots, Refuse(s) \/ Lose(s)
  PROVE  TypeOK'
<1>1. push' = [push EXCEPT ![s] = NoPush] /\ End(s) BY DEF Refuse, Lose
<1>2. push' \in [Slots -> Push] BY <1>1, NoPushTyped DEF TypeOK
<1>3. faults' \in Nat BY DEF TypeOK, Refuse, Lose, Fault
<1> QED BY <1>1, <1>2, <1>3, EndTyped DEF Refuse, Lose, TypeOK, nodeVars, tableVars

-----------------------------------------------------------------------------
\* The ages hold at first: there is no row, push or collection.
LEMMA InitAges == Init => Ages /\ PushAges /\ Alone /\ SnapshotIsWhole
<1> SUFFICES ASSUME Init PROVE Ages /\ PushAges /\ Alone /\ SnapshotIsWhole
  OBVIOUS
<1>1. \A s \in Slots : push[s].stage = "none" BY DEF Init, NoPush
<1>2. sessions = {} /\ moved = {} /\ active = {} /\ rows = {} /\ last = {} BY DEF Init
<1> QED BY <1>1, <1>2 DEF Ages, PushAges, Alone, SnapshotIsWhole, IsOpen

\* A user's activity only makes the user less idle, and the rest keeps its age.
LEMMA NodeAges ==
  ASSUME TypeOK, Ages, PushAges,
         NEW v \in Users, Connect(v) \/ Disconnect(v) \/ Relay(v) \/ DeleteUser(v)
  PROVE  Ages' /\ PushAges'
<1>1. CASE Connect(v) \/ Relay(v)
  <2>1. idle' = [idle EXCEPT ![v] = 0] /\ UNCHANGED <<agentVars, tableVars, push>>
    BY <1>1 DEF Connect, Relay
  <2>2. \A u \in Users : u \in (sessions \cup moved)' => u = v \/ u \in sessions \cup moved
    BY <1>1 DEF Connect, Relay
  <2>3. idle \in [Users -> 0..Forgotten] /\ lag \in 0..MaxLate /\ age \in [Users -> 0..Forgotten]
    BY DEF TypeOK
  <2>4. \A s \in Slots : push[s].lag \in 0..MaxLate /\ push[s].snap \subseteq Users
    BY DEF TypeOK, Push
  <2>5. Ages'
    <3> SUFFICES ASSUME NEW u \in Users
                 PROVE  /\ u \in (sessions \cup moved)' => idle'[u] = 0
                        /\ pc = "sessions" /\ u \in active => idle'[u] <= lag
                        /\ u \in rows /\ age[u] <= Fresh => idle'[u] <= age[u] + MaxLate
      BY <2>1 DEF Ages, agentVars, tableVars
    <3>1. CASE u = v BY <2>1, <2>3, <3>1, Bounds
    <3>2. CASE u # v BY <2>1, <2>2, <2>3, <3>2 DEF Ages
    <3> QED BY <3>1, <3>2
  <2>6. PushAges' BY <2>1, <2>3, <2>4 DEF PushAges
  <2> QED BY <2>5, <2>6
<1>2. CASE Disconnect(v)
  BY <1>2 DEF Disconnect, Ages, PushAges, agentVars, tableVars
<1>3. CASE DeleteUser(v)
  <2>1. /\ rows' = rows \ {v} /\ \A u \in Users : u # v => age'[u] = age[u]
        /\ UNCHANGED <<nodeVars, agentVars, idle>>
    BY <1>3 DEF DeleteUser, TypeOK
  <2>2. \A s \in Slots : /\ push'[s].stage = push[s].stage /\ push'[s].snap = push[s].snap
                         /\ push'[s].lag = push[s].lag /\ push'[s].open = push[s].open
    BY <1>3 DEF DeleteUser, TypeOK, Push
  <2>3. Ages' BY <2>1 DEF Ages, nodeVars, agentVars
  <2>4. PushAges' BY <2>1, <2>2 DEF PushAges
  <2> QED BY <2>3, <2>4
<1> QED BY <1>1, <1>2, <1>3

\* Whoever gets idle does so no faster than rows, collections and pushes age.
LEMMA TickAges == ASSUME TypeOK, Ages, PushAges, Tick PROVE Ages' /\ PushAges'
<1>1. idle' = [u \in Users |->
         IF u \in sessions \cup moved THEN 0
         ELSE IF idle[u] < Forgotten THEN idle[u] + 1 ELSE Forgotten]
  BY DEF Tick
<1>2. idle \in [Users -> 0..Forgotten] /\ lag \in 0..MaxLate /\ age \in [Users -> 0..Forgotten]
      /\ Forgotten \in Nat
  BY Bounds DEF TypeOK, Forgotten
<1>3. \A u \in Users : /\ idle'[u] \in Nat /\ idle[u] \in Nat
                       /\ idle'[u] <= idle[u] + 1
                       /\ u \in sessions \cup moved => idle'[u] = 0
  <2> SUFFICES ASSUME NEW u \in Users
               PROVE  /\ idle'[u] \in Nat /\ idle[u] \in Nat
                      /\ idle'[u] <= idle[u] + 1
                      /\ u \in sessions \cup moved => idle'[u] = 0
    OBVIOUS
  <2>1. idle[u] \in 0..Forgotten BY <1>2
  <2>2. idle'[u] = IF u \in sessions \cup moved THEN 0
                   ELSE IF idle[u] < Forgotten THEN idle[u] + 1 ELSE Forgotten
    BY <1>1
  <2> QED BY <1>2, <2>1, <2>2
<1>4. Ages'
  <2> SUFFICES ASSUME NEW u \in Users
               PROVE  /\ u \in sessions \cup moved => idle'[u] = 0
                      /\ pc = "sessions" /\ u \in active => idle'[u] <= lag'
                      /\ u \in rows /\ age'[u] <= Fresh => idle'[u] <= age'[u] + MaxLate
    BY DEF Ages, Tick, nodeVars
  <2>1. pc = "sessions" /\ u \in active => idle'[u] <= lag'
    BY <1>2, <1>3, Bounds DEF Tick, Ages
  <2>2. ASSUME u \in rows, age'[u] <= Fresh PROVE idle'[u] <= age'[u] + MaxLate
    <3>1. age'[u] = IF age[u] <= Fresh THEN age[u] + 1 ELSE age[u] BY <2>2 DEF Tick
    <3>2. age[u] \in Nat BY <1>2
    <3>3. age[u] <= Fresh /\ age'[u] = age[u] + 1 BY <2>2, <3>1, <3>2, Bounds
    <3>4. idle[u] <= age[u] + MaxLate BY <2>2, <3>3 DEF Ages
    <3> QED BY <1>3, <3>2, <3>3, <3>4, Bounds
  <2> QED BY <1>3, <2>1, <2>2
<1>5. PushAges'
  <2> SUFFICES ASSUME NEW s \in Slots, push'[s].stage # "none"
               PROVE  /\ push'[s].open <= push'[s].lag
                      /\ \A u \in push'[s].snap : idle'[u] <= push'[s].lag
    BY DEF PushAges
  <2>1. push[s] \in Push /\ push'[s] = Older(push[s]) BY DEF TypeOK, Tick
  <2>2. push[s].stage # "none" /\ push'[s].snap = push[s].snap
        /\ push'[s].lag = push[s].lag + 1 /\ push'[s].open <= push'[s].lag
    BY <2>1, OlderTyped DEF Tick, PushAges
  <2>3. push[s].lag \in Nat /\ push[s].snap \subseteq Users BY <2>1, Bounds DEF Push
  <2>4. \A u \in push[s].snap : idle[u] <= push[s].lag BY <2>2 DEF PushAges
  <2>5. ASSUME NEW u \in push[s].snap PROVE idle'[u] <= push'[s].lag
    <3>1. u \in Users /\ idle[u] <= push[s].lag BY <2>3, <2>4
    <3> QED BY <1>3, <2>2, <2>3, <3>1
  <2> QED BY <2>2, <2>5
<1> QED BY <1>4, <1>5

\* A collection finds users who are not idle, and a restart leaves nobody.
LEMMA AgentAges ==
  ASSUME TypeOK, Ages, PushAges,
         CollectTraffic \/ NothingToPush \/ SessionsFail \/ GiveUp \/ Crash \/ Sync
  PROVE  Ages' /\ PushAges'
<1>1. CASE CollectTraffic
  BY <1>1, Bounds DEF CollectTraffic, Ages, PushAges, TypeOK, tableVars
<1>2. CASE NothingToPush \/ SessionsFail \/ GiveUp
  BY <1>2 DEF NothingToPush, SessionsFail, GiveUp, Done, Ages, PushAges, nodeVars, tableVars
<1>3. CASE Crash
  BY <1>3 DEF Crash, Done, Ages, PushAges, tableVars
<1>4. CASE Sync
  BY <1>4 DEF Sync, Ages, PushAges, agentVars, tableVars
<1> QED BY <1>1, <1>2, <1>3, <1>4

\* A push starts as old as its collection.
LEMMA PushAges1 ==
  ASSUME TypeOK, Ages, PushAges, NEW s \in Slots, PushSnapshot(s)
  PROVE  Ages' /\ PushAges'
<1>1. pc = "sessions" /\ push' = [push EXCEPT ![s] = Sent(Snapshot, lag)]
      /\ pc' = "push" /\ UNCHANGED <<nodeVars, tableVars, idle>>
  BY DEF PushSnapshot
<1>2. lag \in 0..MaxLate /\ sessions \subseteq Users /\ active \subseteq Users BY DEF TypeOK
<1>3. \A u \in Snapshot : idle[u] <= lag
  <2> SUFFICES ASSUME NEW u \in Snapshot PROVE idle[u] <= lag
    OBVIOUS
  <2>1. u \in Users /\ (u \in sessions \/ u \in active) BY <1>2 DEF Snapshot
  <2> QED BY <1>1, <1>2, <2>1, Bounds DEF Ages
<1>4. Ages' BY <1>1 DEF Ages, nodeVars, tableVars
<1>5. PushAges'
  <2> SUFFICES ASSUME NEW t \in Slots, push'[t].stage # "none"
               PROVE  /\ push'[t].open <= push'[t].lag
                      /\ \A u \in push'[t].snap : idle[u] <= push'[t].lag
    BY <1>1 DEF PushAges
  <2>1. CASE t = s
    <3>1. push'[t] = Sent(Snapshot, lag) BY <1>1, <2>1 DEF TypeOK
    <3> QED BY <1>2, <1>3, <3>1, Bounds DEF Sent
  <2>2. CASE t # s
    <3>1. push'[t] = push[t] BY <1>1, <2>2 DEF TypeOK
    <3> QED BY <3>1 DEF PushAges
  <2> QED BY <2>1, <2>2
<1> QED BY <1>4, <1>5

\* A transaction keeps the age of its push, and the rows it stamps are as old
\* as itself.
LEMMA PanelAges ==
  ASSUME TypeOK, Ages, PushAges, NEW s \in Slots, Begin(s) \/ Commit(s) \/ Refuse(s) \/ Lose(s)
  PROVE  Ages' /\ PushAges'
<1>1. CASE Begin(s)
  <2>1. ASSUME NEW t \in Slots
        PROVE  /\ push'[t].stage # "none" => push[t].stage # "none"
               /\ push'[t].snap = push[t].snap
               /\ push'[t].lag = push[t].lag /\ push'[t].open = push[t].open
    <3>1. push[t] \in Push /\ push[s].stage = "sent" BY <1>1 DEF TypeOK, Begin
    <3>2. [push[t] EXCEPT !.alone = "no"].snap = push[t].snap
          /\ [push[t] EXCEPT !.alone = "no"].lag = push[t].lag
          /\ [push[t] EXCEPT !.alone = "no"].open = push[t].open
          /\ [push[t] EXCEPT !.alone = "no"].stage = push[t].stage
      BY <3>1 DEF Push
    <3> QED BY <1>1, <3>1, <3>2, BeginSplit, BegunTyped
  <2>2. PushAges' BY <1>1, <2>1 DEF PushAges, Begin
  <2>3. Ages' BY <1>1 DEF Ages, Begin, nodeVars, agentVars, tableVars
  <2> QED BY <2>2, <2>3
<1>2. ASSUME End(s), UNCHANGED <<nodeVars, idle, rows, age>> PROVE Ages'
  BY <1>2 DEF Ages, End, Done, nodeVars, agentVars
<1>3. CASE Commit(s)
  <2>1. ASSUME NEW t \in Slots, push'[t].stage # "none"
        PROVE  /\ push[t].stage # "none" /\ push'[t].snap = push[t].snap
               /\ push'[t].lag = push[t].lag /\ push'[t].open = push[t].open
    BY <1>3, <2>1, ClosedTyped DEF Commit, NoPush
  <2>2. PushAges' BY <1>3, <2>1 DEF PushAges, Commit
  <2>3. Ages'
    <3> SUFFICES ASSUME NEW u \in Users
                 PROVE  /\ u \in sessions \cup moved => idle[u] = 0
                        /\ pc' = "sessions" /\ u \in active' => idle[u] <= lag'
                        /\ u \in rows' /\ age'[u] <= Fresh => idle[u] <= age'[u] + MaxLate
      BY <1>3 DEF Ages, Commit, nodeVars
    <3>1. pc' = "sessions" /\ u \in active' => idle[u] <= lag'
      BY <1>3 DEF Ages, Commit, End, Done, agentVars
    <3>2. u \in rows' /\ age'[u] <= Fresh => idle[u] <= age'[u] + MaxLate
      <4>1. CASE u \in push[s].snap
        <5>1. age'[u] = push[s].open /\ push[s].stage # "none" BY <1>3, <4>1 DEF Commit, IsOpen
        <5>2. idle[u] <= push[s].lag BY <4>1, <5>1 DEF PushAges
        <5>3. push[s].lag \in 0..MaxLate /\ push[s].open \in 0..MaxLate /\ idle[u] \in Nat
          BY Bounds DEF TypeOK, Push, Forgotten
        <5> QED BY <5>1, <5>2, <5>3, Bounds
      <4>2. CASE u \notin push[s].snap
        <5>1. u \in rows' => u \in rows /\ age'[u] = age[u] BY <1>3, <4>2 DEF Commit
        <5> QED BY <5>1 DEF Ages
      <4> QED BY <4>1, <4>2
    <3> QED BY <3>1, <3>2 DEF Ages
  <2> QED BY <2>2, <2>3
<1>4. CASE Refuse(s) \/ Lose(s)
  <2>1. push' = [push EXCEPT ![s] = NoPush] /\ End(s) /\ UNCHANGED <<nodeVars, idle, rows, age>>
    BY <1>4 DEF Refuse, Lose, tableVars
  <2>2. \A t \in Slots : push'[t].stage # "none" => push'[t] = push[t]
    BY <2>1 DEF TypeOK, NoPush
  <2>3. PushAges' BY <2>1, <2>2 DEF PushAges
  <2> QED BY <1>2, <2>1, <2>3
<1> QED BY <1>1, <1>3, <1>4

-----------------------------------------------------------------------------
\* Steps that leave the rows and the transactions' stages alone keep what is
\* said of them.
LEMMA WholeKept ==
  ASSUME TypeOK, Alone, SnapshotIsWhole, UNCHANGED <<tableVars, users>>,
         \A t \in Slots : IsOpen(t)' => /\ IsOpen(t) /\ push'[t].alone = push[t].alone
                                        /\ push'[t].del = push[t].del
  PROVE  Alone' /\ SnapshotIsWhole'
  BY DEF Alone, SnapshotIsWhole, tableVars

\* Rows of one time stay so, and so do the transactions.
LEMMA TickWhole ==
  ASSUME TypeOK, PushAges, Alone, SnapshotIsWhole, Tick PROVE Alone' /\ SnapshotIsWhole'
<1>1. ASSUME NEW t \in Slots
      PROVE  /\ push'[t].stage = push[t].stage /\ push'[t].alone = push[t].alone
             /\ push'[t].del = push[t].del
  <2>1. push[t] \in Push /\ push'[t] = Older(push[t]) BY DEF TypeOK, Tick
  <2> QED BY <2>1, OlderTyped DEF Tick, PushAges
<1>2. Alone' BY <1>1 DEF Alone, IsOpen, Tick
<1>3. SnapshotIsWhole'
  <2>1. rows' = rows /\ last' = last /\ mixed' = mixed /\ users' = users BY DEF Tick
  <2>2. \A u \in rows : age'[u] = IF age[u] <= Fresh THEN age[u] + 1 ELSE age[u]
    BY DEF Tick, TypeOK
  <2> QED BY <2>1, <2>2 DEF SnapshotIsWhole
<1> QED BY <1>2, <1>3

\* Deleting a user takes the user from the rows and from what is to delete.
LEMMA DeleteWhole ==
  ASSUME TypeOK, Alone, SnapshotIsWhole, NEW v \in Users, DeleteUser(v)
  PROVE  Alone' /\ SnapshotIsWhole'
<1>1. ASSUME NEW t \in Slots
      PROVE  /\ push'[t].stage = push[t].stage /\ push'[t].alone = push[t].alone
             /\ push'[t].del = push[t].del \ {v}
  BY DEF DeleteUser, TypeOK, Push
<1>2. rows' = rows \ {v} /\ users' = users \ {v} /\ last' = last /\ mixed' = mixed
  BY DEF DeleteUser
<1>3. \A u \in rows' : age'[u] = age[u] BY <1>2 DEF DeleteUser, TypeOK
<1>4. Alone' BY <1>1, <1>2 DEF Alone, IsOpen
<1>5. SnapshotIsWhole' BY <1>2, <1>3 DEF SnapshotIsWhole
<1> QED BY <1>4, <1>5

\* A transaction begins alone only when no other is open, and ends the
\* solitude of those that are.
LEMMA BeginWhole ==
  ASSUME TypeOK, Alone, SnapshotIsWhole, NEW s \in Slots, Begin(s)
  PROVE  Alone' /\ SnapshotIsWhole'
<1>1. push[s].stage = "sent" /\ UNCHANGED <<tableVars, users>> BY DEF Begin
<1>2. ASSUME NEW t \in Slots, t # s, IsOpen(t)' PROVE IsOpen(t) /\ push'[t].alone = "no"
  <2>1. push[t] \in Push BY DEF TypeOK
  <2>2. push'[t] = IF IsOpen(t) THEN [push[t] EXCEPT !.alone = "no"] ELSE push[t]
    BY <1>2, BeginSplit
  <2>3. [push[t] EXCEPT !.alone = "no"].alone = "no" BY <2>1 DEF Push
  <2>4. IsOpen(t) BY <1>2, <2>2 DEF IsOpen
  <2> QED BY <2>2, <2>3, <2>4
<1>3. push'[s].del = rows
      /\ push'[s].alone = IF \E o \in Slots : IsOpen(o) THEN "no" ELSE "yes"
  BY BeginSplit, BegunTyped
<1>4. ASSUME NEW t \in Slots, IsOpen(t)', push'[t].alone = "yes"
      PROVE  push'[t].del = rows' /\ \A o \in Slots \ {t} : ~IsOpen(o)'
  <2>1. t = s BY <1>2, <1>4
  <2>2. \A o \in Slots : ~IsOpen(o) BY <1>3, <1>4, <2>1
  <2> QED BY <1>1, <1>2, <1>3, <2>1, <2>2 DEF tableVars
<1>5. Alone' BY <1>4 DEF Alone
<1>6. SnapshotIsWhole' BY <1>1 DEF SnapshotIsWhole, tableVars
<1> QED BY <1>5, <1>6

\* A transaction that was alone leaves its own snapshot and nothing else.
LEMMA CommitWhole ==
  ASSUME TypeOK, Alone, SnapshotIsWhole, NEW s \in Slots, Commit(s)
  PROVE  Alone' /\ SnapshotIsWhole'
<1>1. /\ IsOpen(s) /\ push[s].snap \subseteq users /\ last' = push[s].snap /\ users' = users
      /\ rows' = (rows \ push[s].del) \cup push[s].snap
      /\ push' = Closed(s)
      /\ age' = [u \in Users |-> IF u \in push[s].snap THEN push[s].open
                                 ELSE IF u \in rows' THEN age[u] ELSE 0]
  BY DEF Commit
<1>4. mixed' = "no" => push[s].alone = "yes" BY DEF Commit
<1>2. Alone'
  <2> SUFFICES ASSUME NEW t \in Slots, IsOpen(t)', push'[t].alone = "yes" PROVE FALSE
    BY DEF Alone
  <2>0. push'[t] = Closed(s)[t] /\ push'[t].stage = "open" BY <1>1 DEF IsOpen
  <2>1. t # s BY <2>0, ClosedTyped DEF NoPush
  <2>2. IsOpen(t) /\ push[t].alone = "yes" BY <2>0, <2>1, ClosedTyped DEF IsOpen
  <2> QED BY <1>1, <2>1, <2>2 DEF Alone
<1>3. SnapshotIsWhole'
  <2> SUFFICES ASSUME mixed' = "no"
               PROVE  rows' = last' \cap users' /\ \A u, v \in rows' : age'[u] = age'[v]
    BY DEF SnapshotIsWhole
  <2>1. push[s].alone = "yes" /\ push[s].del = rows BY <1>1, <1>4 DEF Alone
  <2>2. rows' = push[s].snap BY <1>1, <2>1
  <2>3. users \subseteq Users BY DEF TypeOK
  <2>4. \A u \in rows' : age'[u] = push[s].open BY <1>1, <2>2, <2>3
  <2> QED BY <1>1, <2>2, <2>4
<1> QED BY <1>2, <1>3

\* A transaction that fails leaves the rows as they are.
LEMMA DropWhole ==
  ASSUME TypeOK, Alone, SnapshotIsWhole, NEW s \in Slots, Refuse(s) \/ Lose(s)
  PROVE  Alone' /\ SnapshotIsWhole'
<1>1. push' = [push EXCEPT ![s] = NoPush] /\ UNCHANGED <<tableVars, users>>
  BY DEF Refuse, Lose
<1>2. \A t \in Slots : IsOpen(t)' => push'[t] = push[t] BY <1>1 DEF TypeOK, IsOpen, NoPush
<1> QED BY <1>1, <1>2, WholeKept DEF IsOpen

\* Nothing else touches them.
LEMMA OtherWhole ==
  ASSUME TypeOK, Alone, SnapshotIsWhole,
         \/ \E u \in Users : Connect(u) \/ Disconnect(u) \/ Relay(u)
         \/ \E s \in Slots : PushSnapshot(s)
         \/ CollectTraffic \/ NothingToPush \/ SessionsFail \/ GiveUp \/ Crash \/ Sync
  PROVE  Alone' /\ SnapshotIsWhole'
<1>1. CASE \E s \in Slots : PushSnapshot(s)
  <2>1. PICK s \in Slots : PushSnapshot(s) BY <1>1
  <2>2. push' = [push EXCEPT ![s] = Sent(Snapshot, lag)] /\ UNCHANGED <<tableVars, users>>
    BY <2>1 DEF PushSnapshot
  <2>3. \A t \in Slots : IsOpen(t)' => push'[t] = push[t] BY <2>2 DEF TypeOK, IsOpen, Sent
  <2> QED BY <2>2, <2>3, WholeKept DEF IsOpen
<1>2. CASE \/ \E u \in Users : Connect(u) \/ Disconnect(u) \/ Relay(u)
           \/ CollectTraffic \/ NothingToPush \/ SessionsFail \/ GiveUp \/ Crash \/ Sync
  <2>1. UNCHANGED <<push, tableVars, users>>
    BY <1>2 DEF Connect, Disconnect, Relay, CollectTraffic, NothingToPush, SessionsFail, GiveUp,
                Crash, Sync
  <2> QED BY <2>1, WholeKept DEF IsOpen
<1> QED BY <1>1, <1>2

-----------------------------------------------------------------------------
\* A step of the specification keeps the invariant.
LEMMA StepKeeps == ASSUME PresenceInv, [Next]_vars PROVE PresenceInv'
<1>1. TypeOK /\ Ages /\ PushAges /\ Alone /\ SnapshotIsWhole BY InvParts
<1> SUFFICES TypeOK' /\ Ages' /\ PushAges' /\ Alone' /\ SnapshotIsWhole'
  BY DEF PresenceInv, Ages, PushAges, Alone
<1>2. ASSUME NEW u \in Users, Connect(u) \/ Disconnect(u) \/ Relay(u)
      PROVE  TypeOK' /\ Ages' /\ PushAges' /\ Alone' /\ SnapshotIsWhole'
  <2>1. TypeOK' BY <1>1, <1>2, NodeTyped
  <2>2. Ages' /\ PushAges' BY <1>1, <1>2, NodeAges
  <2>3. Alone' /\ SnapshotIsWhole' BY <1>1, <1>2, OtherWhole
  <2> QED BY <2>1, <2>2, <2>3
<1>3. CASE \E u \in Users : DeleteUser(u)
  BY <1>1, <1>3, NodeTyped, NodeAges, DeleteWhole
<1>4. CASE \E s \in Slots : Begin(s)
  BY <1>1, <1>4, BeginTyped, PanelAges, BeginWhole
<1>5. CASE \E s \in Slots : Commit(s)
  BY <1>1, <1>5, CommitTyped, PanelAges, CommitWhole
<1>6. CASE \E s \in Slots : Refuse(s) \/ Lose(s)
  BY <1>1, <1>6, DropTyped, PanelAges, DropWhole
<1>7. CASE \E s \in Slots : PushSnapshot(s)
  BY <1>1, <1>7, PushTyped, PushAges1, OtherWhole
<1>8. CASE CollectTraffic \/ NothingToPush \/ SessionsFail \/ GiveUp \/ Crash \/ Sync
  BY <1>1, <1>8, AgentTyped, AgentAges, OtherWhole
<1>9. CASE Tick BY <1>1, <1>9, TickTyped, TickAges, TickWhole
<1>10. CASE UNCHANGED vars
  <2>1. UNCHANGED <<nodeVars, agentVars, tableVars, idle, push, users, faults>>
    BY <1>10 DEF vars
  <2>2. TypeOK' BY <1>1, <2>1 DEF TypeOK, nodeVars, agentVars, tableVars
  <2>3. Ages' /\ PushAges' BY <1>1, <2>1 DEF Ages, PushAges, nodeVars, agentVars, tableVars
  <2>4. Alone' /\ SnapshotIsWhole' BY <1>1, <2>1, WholeKept DEF IsOpen
  <2> QED BY <2>2, <2>3, <2>4
<1> QED BY <1>2, <1>3, <1>4, <1>5, <1>6, <1>7, <1>8, <1>9, <1>10 DEF Next, Handle, Collect

\* The inductive invariant of collections, pushes, transactions and rows, for
\* any users, pushes and bounds.
THEOREM PresenceInvariant == Spec => []PresenceInv
<1>1. Init => PresenceInv BY InitTyped, InitAges, InvParts
<1>2. PresenceInv /\ [Next]_vars => PresenceInv' BY StepKeeps
<1> QED BY <1>1, <1>2, PTL DEF Spec

\* Nobody is shown online who was not active within the freshness and the
\* time a push can take, whatever pushes overlap, come late or are not sent.
THEOREM ShownIsActive == Spec => []ShownWasActive
<1>1. PresenceInv => ShownWasActive
  <2> SUFFICES ASSUME PresenceInv, NEW u \in Users, Shown(u) PROVE idle[u] <= Fresh + MaxLate
    BY DEF ShownWasActive
  <2>1. TypeOK /\ Ages BY InvParts
  <2>2. u \in rows /\ age[u] <= Fresh /\ idle[u] <= age[u] + MaxLate BY <2>1 DEF Shown, Ages
  <2>3. age[u] \in Nat /\ idle[u] \in Nat BY <2>1, Bounds DEF TypeOK, Forgotten
  <2> QED BY <2>2, <2>3, Bounds
<1> QED BY <1>1, PresenceInvariant, PTL

\* The rows of a node are one snapshot, unless transactions overlapped.
THEOREM SnapshotStaysWhole == Spec => []SnapshotIsWhole
<1>1. PresenceInv => SnapshotIsWhole BY InvParts
<1> QED BY <1>1, PresenceInvariant, PTL
=============================================================================
