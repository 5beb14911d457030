------------------------ MODULE SingboxDriver_proofs ------------------------
(* Proofs about SingboxDriver, for any configurations and any number of     *)
(* processes.                                                               *)
EXTENDS SingboxDriver, TLAPS

\* DriverInv is inductive: nobody else touches what the agent and the watchers
\* of earlier processes agree on through the mutex and the channel.
THEOREM DriverInvariant == Spec => []DriverInv
<1> USE DriverAssumption
    DEF DriverInv, TypeOK, AnnouncementComes, FailedRestartIsDown, Procs, Contents,
        Calls, Places, Answers, Alive, Return, Goto
<1>1. Init => DriverInv
  BY DEF Init
<1>2. DriverInv /\ [Next]_vars => DriverInv'
  <2> SUFFICES ASSUME DriverInv, [Next]_vars
               PROVE  DriverInv'
    OBVIOUS
  <2> USE DEF fileVars, procVars, watchVars, agentVars
  <2>1. ASSUME NEW op \in {"validate", "apply", "ensure", "restart"},
               NEW c \in Configs, Call(op, c)
        PROVE  DriverInv'
    BY <2>1 DEF Call
  <2>0. CASE Call("restart", None)
    BY <2>0 DEF Call
  <2>2. CASE Peek
    BY <2>2 DEF Peek
  <2>3. CASE WriteConfig \/ WriteConfigFails
    BY <2>3 DEF WriteConfig, WriteConfigFails
  <2>4. CASE Check
    BY <2>4 DEF Check
  <2>5. CASE Lock
    BY <2>5 DEF Lock
  <2>6. CASE StopLocked
    BY <2>6 DEF StopLocked, IsRunning
  <2>7. CASE Kill
    BY <2>7 DEF Kill
  <2>8. CASE Stopped
    BY <2>8 DEF Stopped
  <2>9. CASE StartProcess
    BY <2>9 DEF StartProcess
  <2>10. CASE StartProcessFails
    BY <2>10 DEF StartProcessFails
  <2>11. CASE ExitedImmediately
    BY <2>11 DEF ExitedImmediately
  <2>12. CASE SurvivedWindow
    BY <2>12 DEF SurvivedWindow
  <2>13. ASSUME NEW p \in Procs, Exit(p)
         PROVE  DriverInv'
    BY <2>13 DEF Exit
  <2>14. ASSUME NEW p \in Procs, WaitReturns(p)
         PROVE  DriverInv'
    BY <2>14 DEF WaitReturns
  <2>15. ASSUME NEW p \in Procs, Announce(p)
         PROVE  DriverInv'
    BY <2>15 DEF Announce
  <2>16. ASSUME NEW p \in Procs, Forget(p)
         PROVE  DriverInv'
    BY <2>16 DEF Forget
  <2>17. CASE UNCHANGED vars
    BY <2>17 DEF vars
  <2> QED
    BY <2>0, <2>1, <2>2, <2>3, <2>4, <2>5, <2>6, <2>7, <2>8, <2>9, <2>10, <2>11,
       <2>12, <2>13, <2>14, <2>15, <2>16, <2>17 DEF Next, Agent, Watcher
<1> QED
  BY <1>1, <1>2, PTL DEF Spec

\* Every process that is there is the one the driver knows.
THEOREM NothingOrphaned == Spec => []NoOrphan
<1>1. DriverInv => NoOrphan
  BY DEF DriverInv, NoOrphan, Alive
<1> QED
  BY <1>1, DriverInvariant, PTL

\* There is never more than one process.
THEOREM OneProcess == Spec => []AtMostOneProcess
<1>1. NoOrphan => AtMostOneProcess
  BY DEF NoOrphan, AtMostOneProcess
<1> QED
  BY <1>1, NothingOrphaned, PTL

\* The agent never waits with the mutex held for somebody who needs the mutex.
THEOREM NoDeadlock == Spec => []AnnouncementComes
<1>1. DriverInv => AnnouncementComes
  BY DEF DriverInv
<1> QED
  BY <1>1, DriverInvariant, PTL

\* After a failed restart nothing runs.
THEOREM FailedIsDown == Spec => []FailedRestartIsDown
<1>1. DriverInv => FailedRestartIsDown
  BY DEF DriverInv
<1> QED
  BY <1>1, DriverInvariant, PTL

-----------------------------------------------------------------------------
\* What the refinement mapping says when the invariant holds, before a step
\* and after it.
LEMMA RunningValue ==
  ASSUME DriverInv
  PROVE  /\ \A p \in Procs : Alive(p) => Running = runs[p]
         /\ (\A p \in Procs : ~Alive(p)) => Running = None
BY DEF DriverInv, Alive, Running

LEMMA RunningValueNext ==
  ASSUME DriverInv'
  PROVE  /\ \A p \in Procs : Alive(p)' => Running' = runs'[p]
         /\ (\A p \in Procs : ~Alive(p)') => Running' = None
BY DEF DriverInv, Alive, Running

\* A step that leaves the processes alone leaves Running alone.
LEMMA RunningKept ==
  ASSUME DriverInv, DriverInv', runs' = runs,
         \A p \in Procs : Alive(p)' <=> Alive(p)
  PROVE  Running' = Running
<1>1. CASE \E p \in Procs : Alive(p)
  BY <1>1, RunningValue, RunningValueNext
<1>2. CASE ~ \E p \in Procs : Alive(p)
  BY <1>2, RunningValue, RunningValueNext
<1> QED
  BY <1>1, <1>2

\* The driver implements Singbox: its steps on file and processes are writes,
\* stops, and starts when nothing runs.
THEOREM DriverImplementsSingbox == Spec => ImplementsSingbox
<1>1. Init => Driver!SingboxInit
  BY DEF Init, Driver!SingboxInit, Running, Alive, Contents, Driver!Contents
<1>2. DriverInv /\ DriverInv' /\ [Next]_vars
        => [Driver!SingboxNext]_<<file, Running>>
  <2> SUFFICES ASSUME DriverInv, DriverInv', [Next]_vars
               PROVE  [Driver!SingboxNext]_<<file, Running>>
    OBVIOUS
  <2> USE DEF Driver!SingboxNext, procVars, watchVars, agentVars, Goto, Return
  <2>1. CASE WriteConfig
    <3>1. call.config \in Configs /\ file' = call.config
      BY <2>1 DEF WriteConfig, DriverInv, TypeOK, Calls
    <3>2. Running' = Running
      BY <2>1, RunningKept DEF WriteConfig, Alive
    <3> QED
      BY <3>1, <3>2 DEF Driver!Write
  <2>2. CASE WriteConfigFails
    <3>1. Running' = Running
      BY <2>2, RunningKept DEF WriteConfigFails, Alive
    <3> QED
      BY <2>2, <3>1 DEF WriteConfigFails, Driver!WriteFails
  <2>3. CASE Kill
    <3>1. \A p \in Procs : Alive(p)' <=> Alive(p)
      BY <2>3 DEF Kill, Alive, DriverInv, TypeOK
    <3>2. Running' = Running
      BY <2>3, <3>1, RunningKept DEF Kill
    <3> QED
      BY <2>3, <3>2 DEF Kill
  <2>4. CASE StartProcess
    <3>1. \A p \in Procs : ~Alive(p)
      BY <2>4 DEF StartProcess, DriverInv, Alive
    <3>2. Running = None
      BY <3>1, RunningValue
    <3>3. PICK p \in Procs : p = started + 1
      BY <2>4 DEF StartProcess, DriverInv, TypeOK, Procs
    <3>4. Alive(p)' /\ runs'[p] = file
      BY <2>4, <3>3 DEF StartProcess, DriverInv, TypeOK, Alive
    <3>5. Running' = file
      BY <3>4, RunningValueNext
    <3> QED
      BY <2>4, <3>2, <3>5 DEF StartProcess, Driver!Start
  <2>5. ASSUME NEW p \in Procs, Exit(p)
        PROVE  Driver!Stop
    <3>1. \A q \in Procs : ~Alive(q)'
      BY <2>5 DEF Exit, Alive, DriverInv, TypeOK
    <3>2. Running' = None
      BY <3>1, RunningValueNext
    <3> QED
      BY <2>5, <3>2 DEF Exit, Driver!Stop
  <2>6. ASSUME NEW p \in Procs, Watcher(p)
        PROVE  UNCHANGED <<file, Running>>
    <3>1. /\ \A q \in Procs : Alive(q)' <=> Alive(q)
          /\ UNCHANGED <<file, runs>>
      BY <2>6 DEF Watcher, WaitReturns, Announce, Forget, Alive, DriverInv, TypeOK
    <3> QED
      BY <3>1, RunningKept
  <2>7. ASSUME UNCHANGED <<file, process, runs>>
        PROVE  UNCHANGED <<file, Running>>
    BY <2>7, RunningKept DEF Alive
  <2>8. CASE \/ \E op \in {"validate", "apply", "ensure"}, c \in Configs : Call(op, c)
             \/ Call("restart", None) \/ UNCHANGED vars
    BY <2>7, <2>8 DEF Call, vars
  <2>9. CASE \/ Peek \/ Check \/ Lock \/ StopLocked \/ Stopped
             \/ StartProcessFails \/ ExitedImmediately \/ SurvivedWindow
    BY <2>7, <2>9 DEF Peek, Check, Lock, StopLocked, Stopped, StartProcessFails,
                      ExitedImmediately, SurvivedWindow
  <2> QED
    BY <2>1, <2>2, <2>3, <2>4, <2>5, <2>6, <2>8, <2>9 DEF Next, Agent
<1> QED
  BY <1>1, <1>2, DriverInvariant, PTL
     DEF Spec, ImplementsSingbox, Driver!SingboxSpec
=============================================================================
