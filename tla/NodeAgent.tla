----------------------------- MODULE NodeAgent ------------------------------
(***************************************************************************)
(* The agent of one node between the panel and sing-box: it enrolls, keeps *)
(* its state on disk, fetches the desired configuration and the pending    *)
(* commands with every sync, runs the commands, applies the configuration  *)
(* with a rollback to the last known good one, and reports the results.    *)
(*                                                                         *)
(* One goroutine does all of this; every driver call takes several steps,  *)
(* between which sing-box can exit and the container can be killed (the    *)
(* agent is its entry point, so sing-box dies with it).  The driver is     *)
(* used through Singbox, which SingboxDriver implements.                   *)
(*                                                                         *)
(* LastAppliedConfig and LastKnownGood are assigned together and only      *)
(* there: one field, applied.  A configuration stands for its normalised   *)
(* form.  The usage fields of the state are in UsageReporting.             *)
(***************************************************************************)
EXTENDS Integers, FiniteSets

CONSTANTS
  Configs,    \* configurations the panel can desire
  None, Torn, \* see Singbox
  Accepted,   \* configurations "sing-box check" accepts
  Commands,   \* identities of node commands
  MaxChanges, \* bound: times the desired configuration changes
  MaxFaults,  \* bound: crashes and failed requests
  MaxDown,    \* bound: checks and starts that fail, exits of sing-box
  MaxWrites   \* bound: writes of a file that fail

\* What the agent applies a configuration for, besides a command.
Jobs == {"boot", "initial", "sync"}

ASSUME AgentAssumption ==
  /\ None \notin Configs /\ Torn \notin Configs /\ None # Torn
  /\ Accepted \subseteq Configs
  /\ IsFiniteSet(Commands) /\ Commands \cap Jobs = {}
  /\ {MaxChanges, MaxFaults, MaxDown, MaxWrites} \subseteq Nat

VARIABLES
  desired,  \* panel: what BuildNodeDesiredConfig returns
  issuedAt, \* panel: when each command was issued
  kind,     \* panel: the type of each command
  status,   \* panel: the status of each command
  net,      \* results on their way to the panel
  file, running, \* see Singbox
  state,    \* the agent's RuntimeState in memory
  disk,     \* the state last written to state.json
  stateFile, \* state.json is whole, or torn by a write that failed half-way
  pc,       \* where the agent is
  job,      \* what the agent calls the driver for: one of Jobs, or a command
  err,      \* what the call returned
  mode,     \* why the driver is restarting sing-box
  target,   \* the configuration handed to the driver
  changed,  \* configChanged of the current sync
  todo,     \* commands of the current sync still to run
  results,  \* results of the current sync
  ran,      \* history: times each command was run
  faults, downs, writes, changes \* counted against the bounds

panelVars  == <<desired, issuedAt, kind, status>>
driverVars == <<file, running>>
diskVars   == <<disk, stateFile>>
callVars   == <<job, mode, target>>
syncVars   == <<changed, todo, results>>
bounds     == <<faults, downs, writes, changes>>
vars == <<panelVars, net, driverVars, state, diskVars, pc, callVars, err, syncVars, ran, bounds>>

Driver == INSTANCE Singbox

Kinds == {"restart", "apply", "ping", "unknown"}
Outcomes == {"done", "failed"}
States == [key : {"none", "key"}, desired : Configs \cup {None}, applied : Configs \cup {None}]
Fresh == [key |-> "none", desired |-> None, applied |-> None]
Places == {"down", "enroll", "apply", "validate", "check", "write", "stop", "start",
           "return", "loop", "commands", "save", "report", "wait"}

TypeOK ==
  /\ desired \in Configs
  /\ issuedAt \in [Commands -> Nat]
  /\ kind \in [Commands -> Kinds]
  /\ status \in [Commands -> {"none", "pending"} \cup Outcomes]
  /\ net \subseteq SUBSET (Commands \X Outcomes)
  /\ file \in Driver!Contents /\ running \in Driver!Contents
  /\ state \in States /\ disk \in States
  /\ stateFile \in {"whole", "torn"}
  /\ pc \in Places
  /\ job \in Jobs \cup Commands
  /\ mode \in {"new", "ensure", "rollback", "restart"}
  /\ target \in Configs \cup {None}
  /\ err \in {"nil", "error"}
  /\ changed \in BOOLEAN
  /\ todo \subseteq Commands
  /\ results \subseteq Commands \X Outcomes
  /\ ran \in [Commands -> Nat]
  /\ faults \in 0 .. MaxFaults /\ downs \in 0 .. MaxDown
  /\ writes \in 0 .. MaxWrites /\ changes \in 0 .. MaxChanges

\* A node that was never enrolled.
Init ==
  /\ desired \in Configs
  /\ issuedAt = [c \in Commands |-> 0]
  /\ kind = [c \in Commands |-> "ping"]
  /\ status = [c \in Commands |-> "none"]
  /\ net = {}
  /\ file = None /\ running = None
  /\ state = Fresh /\ disk = Fresh /\ stateFile = "whole"
  /\ pc = "down" /\ job = "boot" /\ mode = "new" /\ target = None
  /\ err = "nil" /\ changed = FALSE /\ todo = {} /\ results = {}
  /\ ran = [c \in Commands |-> 0]
  /\ faults = 0 /\ downs = 0 /\ writes = 0 /\ changes = 0

-----------------------------------------------------------------------------
(* Bounded events. *)

Fault == faults < MaxFaults /\ faults' = faults + 1 /\ UNCHANGED <<downs, writes, changes>>

WriteFault == writes < MaxWrites /\ writes' = writes + 1 /\ UNCHANGED <<faults, downs, changes>>

DownFault == downs < MaxDown /\ downs' = downs + 1 /\ UNCHANGED <<faults, writes, changes>>

(* The panel and its administrator. *)

ChangeConfig(c) ==
  /\ c # desired
  /\ changes < MaxChanges /\ changes' = changes + 1
  /\ desired' = c
  /\ UNCHANGED <<issuedAt, kind, status, net, driverVars, state, diskVars, pc, callVars,
                 err, syncVars, ran, faults, downs, writes>>

\* CreateNodeCommand
Issue(c, k) ==
  /\ status[c] = "none"
  /\ issuedAt' = [issuedAt EXCEPT ![c] = 1 + Cardinality({d \in Commands : status[d] # "none"})]
  /\ kind' = [kind EXCEPT ![c] = k]
  /\ status' = [status EXCEPT ![c] = "pending"]
  /\ UNCHANGED <<desired, net, driverVars, state, diskVars, pc, callVars, err, syncVars,
                 ran, bounds>>

\* Broken variant: commands that have a result are listed again.
AllIssued == {c \in Commands : status[c] # "none"}

\* Broken variant: a command is handed out once.
PendingOnce == {c \in Commands : status[c] = "pending" /\ ran[c] = 0}

\* ListPendingNodeCommands; the order is in issuedAt.
Pending == {c \in Commands : status[c] = "pending"}

\* CompleteNodeCommand, whatever the status was.
Completed(m) ==
  [c \in Commands |-> IF \E o \in Outcomes : <<c, o>> \in m
                      THEN CHOOSE o \in Outcomes : <<c, o>> \in m
                      ELSE status[c]]

\* handleNodeSync on a report.  The errors of CompleteNodeCommand are ignored,
\* so a part of the results can be dropped.  The agent goes on whether or not
\* the answer reaches it, unless it has already given up.
Handle(m, part) ==
  /\ m \in net /\ part \subseteq m
  /\ IF part = m THEN UNCHANGED bounds ELSE Fault
  /\ net' = net \ {m}
  /\ status' = Completed(part)
  /\ pc' = IF pc = "wait" /\ m = results THEN "loop" ELSE pc
  /\ UNCHANGED <<desired, issuedAt, kind, driverVars, state, diskVars, callVars, err, syncVars, ran>>

-----------------------------------------------------------------------------
(* The agent's life. *)

\* The container stops; sing-box and what was in memory are gone.
Down ==
  /\ pc' = "down" /\ state' = Fresh /\ todo' = {} /\ results' = {}
  /\ Driver!Stop

\* state.Save, which writes state.json in place.
WriteState == disk' = state /\ stateFile' = "whole"

\* A write that fails, or is cut off, leaves state.json alone or truncated.
TearState == stateFile' \in {stateFile, "torn"} /\ UNCHANGED disk

\* The container is killed.  It can be in the middle of a Save, of sync or of
\* collectTelemetry, which runs in the loop.
Crash ==
  /\ pc # "down"
  /\ Fault
  /\ Down
  /\ \/ UNCHANGED diskVars
     \/ pc \in {"save", "loop"} /\ (WriteState \/ TearState)
  /\ UNCHANGED <<panelVars, net, callVars, err, changed, ran>>

\* A state file that does not parse ends New, and the agent, every time.
BootFails ==
  /\ pc = "down" /\ stateFile = "torn"
  /\ UNCHANGED vars

\* New and the start of Run, after the container was started again.
Boot ==
  /\ pc = "down" /\ stateFile = "whole"
  /\ state' = disk
  /\ IF disk.key # "none" THEN pc' = "apply" /\ job' = "initial"
                 ELSE pc' = "enroll" /\ job' = "boot"
  /\ UNCHANGED <<panelVars, net, driverVars, diskVars, mode, target, err, syncVars, ran, bounds>>

\* Broken variant: bootstrap saves the key before the configuration is applied.
EnrollSavesFirst ==
  /\ pc = "enroll"
  /\ state' = [state EXCEPT !.key = "key", !.desired = desired]
  /\ disk' = state'
  /\ pc' = "apply"
  /\ UNCHANGED <<panelVars, net, driverVars, stateFile, callVars, err, syncVars, ran, bounds>>

\* bootstrap up to applyDesired.
Enroll ==
  /\ pc = "enroll"
  /\ state' = [state EXCEPT !.key = "key", !.desired = desired]
  /\ pc' = "apply"
  /\ UNCHANGED <<panelVars, net, driverVars, diskVars, callVars, err, syncVars, ran, bounds>>

EnrollFails ==
  /\ pc = "enroll"
  /\ Fault
  /\ Down
  /\ UNCHANGED <<panelVars, net, diskVars, callVars, err, changed, ran>>

\* Broken variant: the answer is compared with the previous one.
SyncComparesDesired ==
  /\ pc = "loop"
  /\ state' = [state EXCEPT !.desired = desired]
  /\ changed' = (state.desired # desired)
  /\ todo' = Pending
  /\ results' = {}
  /\ pc' = "commands"
  /\ UNCHANGED <<panelVars, net, driverVars, diskVars, callVars, err, ran, bounds>>

\* sync up to the commands: the answer has the configuration and commands.  A
\* sync that fails here changes nothing.
SyncAnswer(commands) ==
  /\ pc = "loop"
  /\ state' = [state EXCEPT !.desired = desired]
  /\ changed' = (state.applied # desired)
  /\ todo' = commands
  /\ results' = {}
  /\ pc' = "commands"
  /\ UNCHANGED <<panelVars, net, driverVars, diskVars, callVars, err, ran>>

Sync == SyncAnswer(Pending) /\ UNCHANGED bounds

\* The panel ignores that the commands cannot be listed, and sends none.
SyncUnlisted == SyncAnswer({}) /\ Fault

\* runCommand on the command issued first, up to the driver call if it makes one.
RunCommand(c) ==
  /\ pc = "commands"
  /\ c \in todo /\ \A d \in todo : issuedAt[c] <= issuedAt[d]
  /\ todo' = todo \ {c}
  /\ ran' = [ran EXCEPT ![c] = @ + 1]
  /\ \/ /\ kind[c] \in {"ping", "unknown"}
        /\ results' = results \cup {<<c, IF kind[c] = "ping" THEN "done" ELSE "failed">>}
        /\ UNCHANGED <<pc, job, mode>>
     \/ /\ kind[c] = "apply"
        /\ job' = c /\ pc' = "apply"
        /\ UNCHANGED <<mode, results>>
     \/ /\ kind[c] = "restart"
        /\ job' = c /\ mode' = "restart" /\ pc' = "stop"
        /\ UNCHANGED results
  /\ UNCHANGED <<panelVars, net, driverVars, state, diskVars, target, err, changed, bounds>>

\* After the commands, the configuration if it changed.
CommandsRun ==
  /\ pc = "commands" /\ todo = {}
  /\ job' = "sync"
  /\ pc' = IF changed THEN "apply" ELSE "save"
  /\ UNCHANGED <<panelVars, net, driverVars, state, diskVars, mode, target, err, syncVars, ran, bounds>>

\* Bootstrap goes on to Run, sync to the report if there is something to report.
AfterSave ==
  IF job = "boot" THEN pc' = "apply" /\ job' = "initial"
  ELSE /\ pc' = IF results = {} THEN "loop" ELSE "report"
       /\ UNCHANGED job

\* Save, at the end of bootstrap and of sync.
Save ==
  /\ pc = "save"
  /\ WriteState
  /\ AfterSave
  /\ UNCHANGED <<panelVars, net, driverVars, state, mode, target, err, syncVars, ran, bounds>>

\* An error of Save ends bootstrap, and with it the agent; it ends sync before
\* the results are reported.
SaveFails ==
  /\ pc = "save"
  /\ WriteFault
  /\ TearState
  /\ IF job = "boot"
     THEN Down
     ELSE pc' = "loop" /\ UNCHANGED <<state, todo, results, driverVars>>
  /\ UNCHANGED <<panelVars, net, callVars, err, changed, ran>>

\* collectTelemetry saves the whole state, not only the usage.
TelemetrySave ==
  /\ pc = "loop"
  /\ \/ WriteState /\ UNCHANGED bounds
     \/ TearState /\ WriteFault
  /\ UNCHANGED <<panelVars, net, driverVars, state, pc, callVars, err, syncVars, ran>>

\* The second request of sync.
Report ==
  /\ pc = "report"
  /\ net' = net \cup {results}
  /\ pc' = "wait"
  /\ UNCHANGED <<panelVars, driverVars, state, diskVars, callVars, err, syncVars, ran, bounds>>

\* The request is lost, or takes so long that the panel acts on it later.
GiveUp ==
  /\ pc = "wait"
  /\ Fault
  /\ net' \in {net, net \ {results}}
  /\ pc' = "loop"
  /\ UNCHANGED <<panelVars, driverVars, state, diskVars, callVars, err, syncVars, ran>>

-----------------------------------------------------------------------------
(* applyDesired and the driver calls in it. *)

\* Unchanged by the steps of a driver call.
Others == <<panelVars, net, diskVars, job, syncVars, ran>>

\* Broken variant: a configuration in force is not looked after.
ApplyOnlyChanges ==
  /\ pc = "apply"
  /\ IF state.applied # state.desired
     THEN mode' = "new" /\ target' = state.desired /\ pc' = "validate" /\ UNCHANGED err
     ELSE err' = "nil" /\ pc' = "return" /\ UNCHANGED <<mode, target>>
  /\ UNCHANGED <<Others, driverVars, state, bounds>>

\* A configuration in force is only kept running; another one is validated.
ApplyDesired ==
  /\ pc = "apply"
  /\ IF state.applied # state.desired
     THEN mode' = "new" /\ target' = state.desired /\ pc' = "validate" /\ UNCHANGED err
     ELSE IF running # None
     THEN err' = "nil" /\ pc' = "return" /\ UNCHANGED <<mode, target>>
     ELSE mode' = "ensure" /\ target' = state.desired /\ pc' = "write" /\ UNCHANGED err
  /\ UNCHANGED <<Others, driverVars, state, bounds>>

\* Broken variant: the error is returned and the last known good one is not
\* applied again.
FailedWithoutRollback ==
  err' = "error" /\ pc' = "return" /\ UNCHANGED <<mode, target>>

\* A driver call failed: a new configuration is rolled back when there is a
\* last known good one; any other failure goes to the caller.
Failed ==
  /\ err' = "error"
  /\ IF mode = "new" /\ state.applied # None
     THEN mode' = "rollback" /\ target' = state.applied /\ pc' = "write"
     ELSE pc' = "return" /\ UNCHANGED <<mode, target>>

\* The restart succeeded; a new configuration is now the last known good one.
Succeeded ==
  /\ err' = IF mode = "rollback" THEN "error" ELSE "nil"
  /\ state' = IF mode = "new" THEN [state EXCEPT !.applied = target] ELSE state
  /\ pc' = "return"
  /\ UNCHANGED <<mode, target>>

\* Validate writes the candidate over the file that sing-box runs from.
Validate ==
  /\ pc = "validate"
  /\ Driver!Write(target)
  /\ pc' = "check"
  /\ UNCHANGED <<Others, state, mode, target, err, bounds>>

\* Broken variant: the verdict is not looked at.
CheckIgnored ==
  /\ pc = "check"
  /\ pc' = "write" /\ UNCHANGED <<mode, target, err, bounds>>
  /\ UNCHANGED <<Others, driverVars, state>>

\* The verdict of "sing-box check", which can also fail to run.
Check ==
  /\ pc = "check"
  /\ \/ file \in Accepted /\ pc' = "write" /\ UNCHANGED <<mode, target, err, bounds>>
     \/ file \notin Accepted /\ Failed /\ UNCHANGED bounds
     \/ file \in Accepted /\ Failed /\ DownFault
  /\ UNCHANGED <<Others, driverVars, state>>

\* Apply: the file, then the restart.
Apply ==
  /\ pc = "write"
  /\ Driver!Write(target)
  /\ pc' = "stop"
  /\ UNCHANGED <<Others, state, mode, target, err, bounds>>

WriteConfigFails ==
  /\ pc \in {"validate", "write"}
  /\ WriteFault
  /\ Driver!WriteFails
  /\ Failed
  /\ UNCHANGED <<Others, state>>

StopSingbox ==
  /\ pc = "stop"
  /\ Driver!Stop
  /\ pc' = "start"
  /\ UNCHANGED <<Others, state, mode, target, err, bounds>>

StartSingbox ==
  /\ pc = "start"
  /\ Driver!Start
  /\ Succeeded
  /\ UNCHANGED <<Others, bounds>>

StartFails ==
  /\ pc = "start"
  /\ DownFault
  /\ Failed
  /\ UNCHANGED <<Others, driverVars, state>>

\* External: sing-box exits by itself.
SingboxExits ==
  /\ running # None
  /\ DownFault
  /\ Driver!Stop
  /\ UNCHANGED <<Others, state, mode, target, err, pc>>

(* What the callers do with the answer. *)

\* Run and sync log it and go on.
ReturnToLoop ==
  /\ pc = "return" /\ job \in {"initial", "sync"}
  /\ pc' = IF job = "sync" THEN "save" ELSE "loop"
  /\ UNCHANGED <<panelVars, net, driverVars, state, diskVars, callVars, err, syncVars, ran, bounds>>

ReturnToCommand ==
  /\ pc = "return" /\ job \in Commands
  /\ results' = results \cup {<<job, IF err = "nil" THEN "done" ELSE "failed">>}
  /\ pc' = "commands"
  /\ UNCHANGED <<panelVars, net, driverVars, state, diskVars, callVars, err, changed, todo, ran,
                 bounds>>

\* An error ends bootstrap and the agent, which has saved nothing.
ReturnToBootstrap ==
  /\ pc = "return" /\ job = "boot"
  /\ IF err = "nil" THEN pc' = "save" /\ UNCHANGED <<state, todo, results, driverVars>>
           ELSE Down
  /\ UNCHANGED <<panelVars, net, diskVars, callVars, err, changed, ran, bounds>>

Agent ==
  \/ Boot \/ BootFails \/ Enroll
  \/ Sync \/ (\E c \in Commands : RunCommand(c)) \/ CommandsRun \/ Save \/ Report
  \/ ApplyDesired \/ Validate \/ Check \/ Apply \/ StopSingbox \/ StartSingbox
  \/ ReturnToLoop \/ ReturnToCommand \/ ReturnToBootstrap

Trouble ==
  \/ Crash \/ EnrollFails \/ SyncUnlisted \/ SaveFails \/ TelemetrySave \/ GiveUp \/ WriteConfigFails
  \/ StartFails \/ SingboxExits

Next ==
  \/ \E c \in Configs : ChangeConfig(c)
  \/ \E c \in Commands, k \in Kinds : Issue(c, k)
  \/ \E m \in net : \E part \in SUBSET m : Handle(m, part)
  \/ Agent
  \/ Trouble

Spec == Init /\ [][Next]_vars

\* The container is restarted, the tickers fire, sing-box calls end, and the
\* panel works through a request it has received.
Fairness ==
  /\ WF_vars(Agent)
  /\ WF_vars(\E m \in net : Handle(m, m))

FairSpec == Spec /\ Fairness
-----------------------------------------------------------------------------
\* No write of the configuration file has failed.
DiskFine == writes = 0

\* Between two driver calls the file is the last known good configuration:
\* what Validate wrote over it has been applied or undone.  The restart command
\* starts whatever the file holds.
FileIsKnownGood ==
  DiskFine /\ pc \in {"loop", "commands", "save", "report", "wait"} =>
    file = state.applied

\* A configuration that "sing-box check" rejected is never run, even though it
\* is written to the file first.
NeverRunsRejected == DiskFine /\ running # None => running \in Accepted

\* The agent can be started again.
Startable == stateFile = "whole" \/ pc # "down"

\* Once the state file holds the node's key, it also holds a known good
\* configuration to come back to after a crash at any point.
Recoverable == disk.key # "none" => disk.applied \in Accepted /\ disk.desired # None

\* What the safety of the agent rests on.  The file is followed through every
\* driver call: it is the target from the write on, the target was accepted by
\* the check or was applied before, and a call other than bootstrap's ends with
\* the file on the configuration applied last.
Idle == {"loop", "commands", "save", "report", "wait"}

AgentInv ==
  /\ TypeOK
  /\ Recoverable
  /\ state.key # "none" <=> pc \notin {"down", "enroll"}
  /\ state.key # "none" => state.desired # None
  /\ disk.key = "none" => disk.applied = None
  /\ pc = "enroll" => job = "boot" /\ state.applied = None
  /\ pc = "apply" /\ job = "boot" => state.applied = None
  /\ state.applied \in Accepted \cup {None}
  /\ pc \notin {"down", "enroll"} /\ job # "boot" => state.applied # None
  /\ pc \in Idle \/ (pc = "return" /\ job = "boot" /\ err = "nil") => state.applied # None
  /\ pc \in {"validate", "check"} => mode = "new" /\ target # None
  /\ pc = "check" => file = target
  /\ pc = "write" => mode # "restart"
  /\ pc \in {"write", "stop", "start"} /\ mode # "restart" =>
       target \in Accepted /\ (mode # "new" => target = state.applied)
  /\ pc \in {"stop", "start"} =>
       IF mode = "restart" THEN job \in Commands ELSE file = target
  /\ pc \in {"down", "start"} => running = None
  /\ DiskFine =>
       /\ running \in Accepted \cup {None}
       /\ pc \in Idle => file = state.applied
       /\ pc = "return" /\ (job # "boot" \/ err = "nil") => file = state.applied
       /\ pc = "apply" /\ job \in Commands \cup {"sync"} => file = state.applied
       /\ pc = "apply" /\ job = "initial" /\ running # None => file = state.applied
       /\ pc \in {"stop", "start"} /\ mode = "restart" => file = state.applied

\* From issuing to result, through handing out, running, lost and late reports,
\* crashes and failed writes, the commands behave as CommandQueue says: none is
\* run again but for a failure, and no result is reported that no run had.
Failures == faults + writes
Queue == INSTANCE CommandQueue WITH failures <- Failures
ImplementsCommandQueue == Queue!QueueSpec

\* What that rests on.  A command may be run while it is pending and neither is
\* being run nor has a result in the agent's hands; then it was run at most once
\* for every failure.  Two different results come from different runs.
Calls == {"apply", "validate", "check", "write", "stop", "start", "return"}
BeingRun(c) == job = c /\ pc \in Calls
InFlight(c, o) == <<c, o>> \in results \/ \E m \in net : <<c, o>> \in m
Known(c, o) == status[c] = o \/ InFlight(c, o)
InHand(c) ==
  pc \notin {"down", "enroll", "loop"} /\ (BeingRun(c) \/ \E o \in Outcomes : <<c, o>> \in results)

Empty ==
  /\ pc = "down" => todo = {} /\ results = {}
  /\ job \in {"boot", "initial"} /\ pc \in Calls \cup {"enroll", "save"} => todo = {} /\ results = {}

Bounded(c) ==
  /\ ran[c] <= 1 + Failures
  /\ status[c] = "none" => ran[c] = 0
  /\ status[c] = "pending" /\ ~InHand(c) => ran[c] <= Failures
  /\ c \in todo => ran[c] <= Failures /\ status[c] # "none"

Genuine(c) ==
  /\ BeingRun(c) => kind[c] \in {"apply", "restart"} /\ ran[c] >= 1 /\ status[c] # "none"
  /\ \A o \in Outcomes :
       /\ InFlight(c, o) => status[c] # "none"
       /\ Known(c, o) => ran[c] >= 1 /\ o \in Queue!OutcomesOf(kind[c])
       /\ Known(c, o) /\ BeingRun(c) => ran[c] >= 2
       /\ \A p \in Outcomes : Known(c, o) /\ Known(c, p) => o = p \/ ran[c] >= 2

QueueInv == Empty /\ \A c \in Commands : Bounded(c) /\ Genuine(c)

\* Once the node is enrolled, every command gets a result, whatever fails,
\* unless the agent died over a torn state file.
CommandsComplete ==
  \A c \in Commands : disk.key # "none" /\ status[c] = "pending" ~>
    status[c] \in Outcomes \/ ~Startable

\* Once the node is enrolled, an accepted configuration that stays desired ends
\* up applied, and a rejected one never does, as long as the agent can start.
DesiredIsApplied ==
  \A c \in Configs : <>[](disk.key # "none" /\ desired = c /\ Startable) =>
    IF c \in Accepted THEN <>[](state.applied = c)
                      ELSE <>[](state.applied # c)

\* An enrolled node runs sing-box again and again, whatever the panel desires
\* and wherever the agent is killed, as long as sing-box and the disk do not
\* fail.
KeepsRunning ==
  disk.key # "none" ~> running # None \/ downs + writes > 0 \/ ~Startable
=============================================================================
