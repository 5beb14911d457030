-------------------------- MODULE NodeStatus_proofs -------------------------
(* Proofs about NodeStatus, for any number of requests and any bounds.      *)
EXTENDS NodeStatus, TLAPS

\* StatusInv is inductive.
THEOREM StatusInvariant == Spec => []StatusInv
<1> USE DEF StatusInv, TypeOK, Statuses, Told, NotOnline
<1>1. Init => StatusInv
  BY DEF Init
<1>2. StatusInv /\ [Next]_vars => StatusInv'
  <2> SUFFICES ASSUME StatusInv, [Next]_vars
               PROVE  StatusInv'
    OBVIOUS
  <2> USE DEF requestVars, historyVars, bounds, At, Mark, Goto, Keep, Fault
  <2>1. ASSUME NEW h \in Handlers, Read(h)
        PROVE  StatusInv'
    BY <2>1 DEF Read
  <2>2. ASSUME NEW h \in Handlers, Touch(h)
        PROVE  StatusInv'
    BY <2>2 DEF Touch
  <2>3. ASSUME NEW h \in Handlers, TellUp(h)
        PROVE  StatusInv'
    BY <2>3 DEF TellUp
  <2>4. ASSUME NEW h \in Handlers, Reconcile(h)
        PROVE  StatusInv'
    BY <2>4 DEF Reconcile
  <2>5. ASSUME NEW h \in Handlers, ReconcileFails(h) \/ Show(h)
        PROVE  StatusInv'
    BY <2>5 DEF ReconcileFails, Show
  <2>6. ASSUME NEW h \in Handlers, TellDown(h) \/ List(h)
        PROVE  StatusInv'
    BY <2>6 DEF TellDown, List
  <2>7. ASSUME NEW h \in Handlers, Untold(h)
        PROVE  StatusInv'
    BY <2>7 DEF Untold
  <2>8. ASSUME NEW h \in Handlers, NEW s \in Statuses \cup {"keep"}, PatchRead(h, s)
        PROVE  StatusInv'
    BY <2>8 DEF PatchRead
  <2>9. ASSUME NEW h \in Handlers, PatchWrite(h)
        PROVE  StatusInv'
    BY <2>9 DEF PatchWrite
  <2>10. ASSUME NEW h \in Handlers, Fail(h)
         PROVE  StatusInv'
    BY <2>10 DEF Fail
  <2>11. CASE Expire \/ AgentGone \/ DeleteNode
    BY <2>11 DEF Expire, AgentGone, DeleteNode
  <2>12. CASE UNCHANGED vars
    BY <2>12 DEF vars
  <2>13. ASSUME NEW h \in Handlers, Step(h)
         PROVE  StatusInv'
    <3> HIDE DEF StatusInv
    <3> QED  BY <2>13, <2>2, <2>3, <2>6, <2>7, <2>9 DEF Step
  <2> HIDE DEF StatusInv, TypeOK, Statuses, Told, NotOnline, requestVars,
               historyVars, bounds, At, Mark, Goto, Keep, Fault
  <2>14. CASE \E h \in Handlers :
                Read(h) \/ Step(h) \/ Reconcile(h) \/ ReconcileFails(h) \/ Show(h) \/ Fail(h)
    BY <2>14, <2>1, <2>4, <2>5, <2>10, <2>13
  <2>15. CASE \E h \in Handlers, s \in Statuses \cup {"keep"} : PatchRead(h, s)
    BY <2>15, <2>8
  <2> QED
    BY <2>11, <2>12, <2>14, <2>15 DEF Next
<1> HIDE DEF StatusInv, TypeOK, Statuses, Told, NotOnline
<1> QED
  BY <1>1, <1>2, PTL DEF Spec

\* However its requests interleave, a handler tells at most once per time the
\* node was not online that it came up.
THEOREM RestoredIsBounded == Spec => []RestoredBounded
<1>1. StatusInv => RestoredBounded
  <2> SUFFICES ASSUME StatusInv, NEW h \in Handlers
               PROVE  restored[h] <= periods + faults
    BY DEF RestoredBounded
  <2>1. restored[h] \in Nat /\ restored[h] + 0 <= periods + faults
    BY DEF StatusInv, TypeOK, Told
  <2> QED
    BY <2>1
<1> QED
  BY <1>1, StatusInvariant, PTL
-----------------------------------------------------------------------------
\* The inductive form of ShownOnlineWasSeen: of the row itself and not of a page,
\* and of what the edits that keep the status will write.
MarkInv ==
  marked = "yes" =>
    /\ status # "online"
    /\ \A h \in At({"patch"}) \ giving : held[h] # "online"

\* A node that was marked offline for its last request, or found not online, is
\* shown online by no page, those that do not mark included (GetDashboardSummary,
\* BuildSubscription), until it sends a request (TouchNodeHeartbeat, EnrollNode)
\* or an edit gives the status or has read it before (UpdateNode).
THEOREM ShownOnlineWereSeen == Spec => []ShownOnlineWasSeen
<1>1. Init => MarkInv
  BY DEF Init, MarkInv, At
<1>2. StatusInv /\ MarkInv /\ [Next]_vars => MarkInv'
  <2> SUFFICES ASSUME StatusInv, MarkInv, [Next]_vars
               PROVE  MarkInv'
    OBVIOUS
  <2> USE DEF StatusInv, TypeOK, MarkInv, Mark, At, Goto, Keep
  <2>1. ASSUME NEW h \in Handlers, Read(h) \/ Fail(h)
        PROVE  MarkInv'
    BY <2>1 DEF Read, Fail, historyVars
  <2>2. ASSUME NEW h \in Handlers, Touch(h)
        PROVE  MarkInv'
    BY <2>2 DEF Touch
  <2>3. ASSUME NEW h \in Handlers, TellUp(h) \/ TellDown(h)
        PROVE  MarkInv'
    BY <2>3 DEF TellUp, TellDown, historyVars
  <2>4. ASSUME NEW h \in Handlers, Reconcile(h)
        PROVE  MarkInv'
    BY <2>4 DEF Reconcile
  <2>5. ASSUME NEW h \in Handlers, ReconcileFails(h) \/ Show(h)
        PROVE  MarkInv'
    BY <2>5 DEF ReconcileFails, Show, historyVars
  <2>6. ASSUME NEW h \in Handlers, Untold(h) \/ List(h)
        PROVE  MarkInv'
    BY <2>6 DEF Untold, List, historyVars
  <2>7. ASSUME NEW h \in Handlers, PatchWrite(h)
        PROVE  MarkInv'
    BY <2>7 DEF PatchWrite
  <2>8. ASSUME NEW h \in Handlers, NEW s \in Statuses \cup {"keep"}, PatchRead(h, s)
        PROVE  MarkInv'
    BY <2>8 DEF PatchRead, historyVars
  <2>9. CASE Expire \/ AgentGone \/ DeleteNode \/ UNCHANGED vars
    BY <2>9 DEF Expire, AgentGone, DeleteNode, vars, requestVars, historyVars
  <2> HIDE DEF StatusInv, TypeOK, MarkInv, Mark, At, Goto, Keep
  <2> QED
    BY <2>1, <2>2, <2>3, <2>4, <2>5, <2>6, <2>7, <2>8, <2>9 DEF Next, Step
<1>3. StatusInv /\ MarkInv => ShownOnlineWasSeen
  BY DEF StatusInv, TypeOK, MarkInv, At, ShownOnlineWasSeen
<1> QED
  BY <1>1, <1>2, <1>3, StatusInvariant, PTL DEF Spec

\* The inductive form of LogTellsStatus: an event that is still to be written
\* agrees with the status already, and until it is written it stands for the
\* last event.  A request that has read online finds the node online.
LogInv ==
  mixed = "no" =>
    /\ At({"event"}) # {} => status \in {"online", "deleted"}
    /\ At({"down"}) # {} => status \in {"offline", "deleted"}
    /\ \A h \in At({"write"}) : held[h] = "online" => status \in {"online", "deleted"}
    /\ status = "online" => last = "up" \/ At({"event"}) # {}
    /\ status = "offline" => last = "down" \/ At({"down"}) # {}

\* When no request is half-way, the last event agrees with the status, unless an
\* offline mark overlapped a request, an event was dropped or the administrator
\* set the status.
THEOREM LogAlwaysTellsStatus == Spec => []LogTellsStatus
<1>1. Init => LogInv
  BY DEF Init, LogInv, At
<1>2. StatusInv /\ LogInv /\ [Next]_vars => LogInv'
  <2> SUFFICES ASSUME StatusInv, LogInv, [Next]_vars
               PROVE  LogInv'
    OBVIOUS
  <2> USE DEF StatusInv, TypeOK, LogInv, Goto, Keep, At, Statuses
  <2>1. ASSUME NEW h \in Handlers, Read(h)
        PROVE  LogInv'
    BY <2>1 DEF Read, historyVars
  <2>2. ASSUME NEW h \in Handlers, Touch(h)
        PROVE  LogInv'
    BY <2>2 DEF Touch
  <2>3. ASSUME NEW h \in Handlers, TellUp(h)
        PROVE  LogInv'
    BY <2>3 DEF TellUp
  <2>4. ASSUME NEW h \in Handlers, TellDown(h)
        PROVE  LogInv'
    BY <2>4 DEF TellDown, historyVars
  <2>5. ASSUME NEW h \in Handlers, Reconcile(h)
        PROVE  LogInv'
    BY <2>5 DEF Reconcile
  <2>6. ASSUME NEW h \in Handlers, ReconcileFails(h) \/ Show(h) \/ List(h) \/ Fail(h)
        PROVE  LogInv'
    BY <2>6 DEF ReconcileFails, Show, List, Fail, historyVars
  <2>7. ASSUME NEW h \in Handlers, Untold(h)
        PROVE  LogInv'
    BY <2>7 DEF Untold
  <2>8. ASSUME NEW h \in Handlers, PatchWrite(h)
        PROVE  LogInv'
    BY <2>8 DEF PatchWrite
  <2>9. ASSUME NEW h \in Handlers, NEW s \in Statuses \cup {"keep"}, PatchRead(h, s)
        PROVE  LogInv'
    BY <2>9 DEF PatchRead, historyVars
  <2>10. CASE Expire \/ AgentGone \/ DeleteNode \/ UNCHANGED vars
    BY <2>10 DEF Expire, AgentGone, DeleteNode, vars, requestVars, historyVars
  <2> HIDE DEF StatusInv, TypeOK, LogInv, Goto, Keep, At, Statuses
  <2>11. CASE \E h \in Handlers, s \in Statuses \cup {"keep"} : PatchRead(h, s)
    BY <2>9, <2>11
  <2>12. CASE \E h \in Handlers :
                Read(h) \/ Step(h) \/ Reconcile(h) \/ ReconcileFails(h) \/ Show(h) \/ Fail(h)
    BY <2>1, <2>2, <2>3, <2>4, <2>5, <2>6, <2>7, <2>8, <2>12 DEF Step
  <2> QED
    BY <2>10, <2>11, <2>12 DEF Next
<1>3. StatusInv /\ LogInv => LogTellsStatus
  BY DEF LogInv, LogTellsStatus, At
<1> QED
  BY <1>1, <1>2, <1>3, StatusInvariant, PTL DEF Spec
=============================================================================
