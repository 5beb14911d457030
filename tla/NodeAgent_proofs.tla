-------------------------- MODULE NodeAgent_proofs --------------------------
(* Proofs about NodeAgent, for any configurations, commands and bounds.     *)
EXTENDS NodeAgent, FiniteSetTheorems, TLAPS

\* Issue times are numbers.
LEMMA IssueTime == 1 + Cardinality({d \in Commands : status[d] # "none"}) \in Nat
<1>1. {d \in Commands : status[d] # "none"} \in SUBSET Commands
  OBVIOUS
<1>2. IsFiniteSet({d \in Commands : status[d] # "none"})
  BY <1>1, AgentAssumption, FS_Subset
<1>3. Cardinality({d \in Commands : status[d] # "none"}) \in Nat
  BY <1>2, FS_CardinalityType
<1> QED
  BY <1>3

\* The panel's step on a report completes commands and nothing else.
LEMMA CompletedType ==
  ASSUME TypeOK, NEW m \in SUBSET (Commands \X Outcomes)
  PROVE  Completed(m) \in [Commands -> {"none", "pending"} \cup Outcomes]
<1> SUFFICES ASSUME NEW c \in Commands
             PROVE  (IF \E o \in Outcomes : <<c, o>> \in m
                     THEN CHOOSE o \in Outcomes : <<c, o>> \in m
                     ELSE status[c]) \in {"none", "pending"} \cup Outcomes
  BY DEF Completed
<1>1. status[c] \in {"none", "pending"} \cup Outcomes
  BY DEF TypeOK
<1>2. CASE \E o \in Outcomes : <<c, o>> \in m
  BY <1>2
<1> QED
  BY <1>1, <1>2

\* AgentInv is inductive.
THEOREM AgentInvariant == Spec => []AgentInv
<1> USE AgentAssumption
    DEF AgentInv, TypeOK, Recoverable, Idle, DiskFine, Jobs, Kinds, Outcomes, States,
        Fresh, Places, Driver!Contents
<1>1. Init => AgentInv
  <2> SUFFICES ASSUME Init PROVE AgentInv
    OBVIOUS
  <2>1. TypeOK
    <3>1. state \in States /\ disk \in States
      BY DEF Init
    <3>2. issuedAt \in [Commands -> Nat] /\ ran \in [Commands -> Nat]
      BY DEF Init
    <3>3. /\ kind \in [Commands -> Kinds]
          /\ status \in [Commands -> {"none", "pending"} \cup Outcomes]
      BY DEF Init
    <3>4. /\ faults \in 0 .. MaxFaults /\ downs \in 0 .. MaxDown
          /\ writes \in 0 .. MaxWrites /\ changes \in 0 .. MaxChanges
      BY DEF Init
    <3> QED
      BY <3>1, <3>2, <3>3, <3>4, Zenon DEF Init
  <2>2. /\ disk.key = "none" /\ disk.applied = None
        /\ state.key = "none" /\ state.applied = None /\ pc = "down"
    BY DEF Init
  <2>3. running = None
    BY DEF Init
  <2> QED
    BY <2>1, <2>2, <2>3
<1>2. AgentInv /\ [Next]_vars => AgentInv'
  <2> SUFFICES ASSUME AgentInv, [Next]_vars
               PROVE  AgentInv'
    OBVIOUS
  <2> USE DEF panelVars, driverVars, diskVars, WriteState, TearState, callVars, syncVars, bounds, Others,
              Driver!Stop, Driver!Start, Driver!Write, Driver!WriteFails,
              Fault, WriteFault, DownFault
  <2>1. ASSUME NEW c \in Configs, ChangeConfig(c)
        PROVE  AgentInv'
    BY <2>1 DEF ChangeConfig
  <2>2. ASSUME NEW c \in Commands, NEW k \in Kinds, Issue(c, k)
        PROVE  AgentInv'
    BY <2>2, IssueTime DEF Issue
  <2>3. ASSUME NEW m \in net, NEW part \in SUBSET m, Handle(m, part)
        PROVE  AgentInv'
    BY <2>3, CompletedType DEF Handle
  <2>4. CASE Crash
    BY <2>4 DEF Crash, Down
  <2>5. CASE Boot
    <3>1. TypeOK'
      BY <2>5 DEF Boot
    <3>2. CASE disk.key # "none"
      BY <2>5, <3>1, <3>2 DEF Boot
    <3>3. CASE disk.key = "none"
      BY <2>5, <3>1, <3>3 DEF Boot
    <3> QED
      BY <3>2, <3>3
  <2>6. CASE Enroll
    <3>1. /\ state'.key = "key" /\ state'.desired = desired
          /\ state'.applied = state.applied
          /\ state' \in States
      BY <2>6, Zenon DEF Enroll
    <3>2. TypeOK'
      BY <2>6, <3>1 DEF Enroll
    <3> QED
      BY <2>6, <3>1, <3>2 DEF Enroll
  <2>26. CASE EnrollFails
    BY <2>26 DEF EnrollFails, Down
  <2>29. CASE BootFails
    BY <2>29 DEF BootFails, vars
  <2>30. CASE TelemetrySave
    BY <2>30 DEF TelemetrySave
  <2>7. CASE Sync
    BY <2>7 DEF Sync, SyncAnswer, Pending
  <2>31. CASE SyncUnlisted
    BY <2>31 DEF SyncUnlisted, SyncAnswer
  <2>8. ASSUME NEW c \in Commands, RunCommand(c)
        PROVE  AgentInv'
    BY <2>8 DEF RunCommand
  <2>9. CASE CommandsRun
    BY <2>9 DEF CommandsRun
  <2>10. CASE Save
    BY <2>10 DEF Save, AfterSave
  <2>11. CASE SaveFails
    BY <2>11 DEF SaveFails, Down
  <2>12. CASE Report \/ GiveUp
    BY <2>12 DEF Report, GiveUp
  <2>13. CASE ApplyDesired
    BY <2>13 DEF ApplyDesired
  <2>14. CASE Validate
    BY <2>14 DEF Validate
  <2>15. CASE Check
    BY <2>15 DEF Check, Failed
  <2>16. CASE Apply
    BY <2>16 DEF Apply
  <2>17. CASE WriteConfigFails
    BY <2>17 DEF WriteConfigFails, Failed
  <2>18. CASE StopSingbox
    BY <2>18 DEF StopSingbox
  <2>19. CASE StartSingbox
    BY <2>19 DEF StartSingbox, Succeeded
  <2>20. CASE StartFails
    BY <2>20 DEF StartFails, Failed
  <2>21. CASE SingboxExits
    BY <2>21 DEF SingboxExits
  <2>22. CASE ReturnToLoop
    BY <2>22 DEF ReturnToLoop
  <2>23. CASE ReturnToCommand
    BY <2>23 DEF ReturnToCommand
  <2>24. CASE ReturnToBootstrap
    <3>1. TypeOK'
      BY <2>24 DEF ReturnToBootstrap, Down
    <3>2. CASE err = "nil"
      BY <2>24, <3>1, <3>2 DEF ReturnToBootstrap
    <3>3. CASE err # "nil"
      BY <2>24, <3>1, <3>3 DEF ReturnToBootstrap, Down
    <3> QED
      BY <3>2, <3>3
  <2>25. CASE UNCHANGED vars
    BY <2>25 DEF vars
  <2> HIDE DEF AgentInv, TypeOK, Recoverable, Idle, DiskFine, Jobs, Kinds, Outcomes,
               States, Fresh, Places, Driver!Contents, panelVars, driverVars,
               diskVars, WriteState, TearState, callVars, syncVars, bounds, Others, Driver!Stop, Driver!Start,
               Driver!Write, Driver!WriteFails, Fault, WriteFault, DownFault
  <2>27. CASE Agent
    BY <2>27, <2>5, <2>6, <2>7, <2>8, <2>9, <2>10, <2>12, <2>13, <2>14, <2>15,
       <2>16, <2>18, <2>19, <2>22, <2>23, <2>24, <2>29, Zenon DEF Agent
  <2>28. CASE Trouble
    BY <2>28, <2>4, <2>31, <2>11, <2>12, <2>17, <2>20, <2>21, <2>26, <2>30, Zenon DEF Trouble
  <2> QED
    BY <2>1, <2>2, <2>3, <2>25, <2>27, <2>28, Zenon DEF Next
<1> HIDE DEF AgentInv, TypeOK, Recoverable, Idle, DiskFine, Jobs, Kinds, Outcomes,
             States, Fresh, Places, Driver!Contents
<1> QED
  BY <1>1, <1>2, PTL DEF Spec

\* Between two driver calls the file is the last known good configuration.
THEOREM FileStaysKnownGood == Spec => []FileIsKnownGood
<1>1. AgentInv => FileIsKnownGood
  BY DEF AgentInv, Idle, FileIsKnownGood
<1> QED
  BY <1>1, AgentInvariant, PTL

\* A rejected configuration is never run.
THEOREM RejectedNeverRuns == Spec => []NeverRunsRejected
<1>1. AgentInv => NeverRunsRejected
  BY AgentAssumption DEF AgentInv, NeverRunsRejected
<1> QED
  BY <1>1, AgentInvariant, PTL

\* There is a known good configuration to come back to after any crash.
THEOREM AlwaysRecoverable == Spec => []Recoverable
<1>1. AgentInv => Recoverable
  BY DEF AgentInv
<1> QED
  BY <1>1, AgentInvariant, PTL

-----------------------------------------------------------------------------
(* Commands: QueueInv is inductive beside AgentInv, and implies that every  *)
(* step is one of CommandQueue's.                                           *)

\* The types the arguments about commands need.
LEMMA QueueTypes ==
  ASSUME AgentInv
  PROVE  /\ faults \in Nat /\ writes \in Nat /\ Failures \in Nat
         /\ ran \in [Commands -> Nat] /\ kind \in [Commands -> Kinds]
         /\ status \in [Commands -> {"none", "pending"} \cup Outcomes]
         /\ todo \subseteq Commands /\ job \in Jobs \cup Commands
         /\ pc = "enroll" => job = "boot"
  BY AgentAssumption DEF AgentInv, TypeOK, Failures

\* A job is none of the commands.
LEMMA JobsApart == "boot" \notin Commands /\ "initial" \notin Commands /\ "sync" \notin Commands
  BY AgentAssumption DEF Jobs

\* A step that runs nothing, resolves nothing and hands out nothing keeps the
\* invariant if what it drops counts as a failure.
LEMMA QuietStep ==
  ASSUME AgentInv, QueueInv, AgentInv', UNCHANGED <<kind, status, ran>>, todo' \subseteq todo,
         Failures' \in {Failures, Failures + 1},
         \A c \in Commands :
           /\ BeingRun(c)' => BeingRun(c)
           /\ \A o \in Outcomes : InFlight(c, o)' => InFlight(c, o)
           /\ InHand(c) => InHand(c)' \/ Failures' = Failures + 1,
         Empty'
  PROVE  QueueInv'
<1>1. Empty /\ \A c \in Commands : Bounded(c) /\ Genuine(c) BY DEF QueueInv
<1>2. ASSUME NEW c \in Commands PROVE Bounded(c)' /\ Genuine(c)'
  <2>1. ran[c] \in Nat /\ Failures \in Nat /\ Failures' \in Nat BY QueueTypes
  <2>2. Bounded(c)' BY <1>1, <1>2, <2>1 DEF Bounded
  <2>3. \A o \in Outcomes : Known(c, o)' => Known(c, o) BY <1>2 DEF Known
  <2>4. Genuine(c)' BY <1>1, <1>2, <2>3 DEF Genuine
  <2> QED BY <2>2, <2>4
<1> QED BY <1>2 DEF QueueInv

\* The steps inside a driver call, and those that lead to one or from one.
LEMMA CallSteps ==
  ASSUME AgentInv, QueueInv, AgentInv',
         \/ ApplyDesired \/ Validate \/ Check \/ Apply \/ StopSingbox \/ StartSingbox
         \/ WriteConfigFails \/ StartFails
  PROVE  QueueInv'
<1> USE DEF Others, panelVars, diskVars, syncVars, bounds, Fault, WriteFault, DownFault
<1>1. UNCHANGED <<kind, status, ran, todo, results, net, job>>
  BY DEF ApplyDesired, Validate, Check, Apply, StopSingbox, StartSingbox, WriteConfigFails,
         StartFails
<1>2. pc \in Calls /\ pc' \in Calls
  BY DEF ApplyDesired, Validate, Check, Apply, StopSingbox, StartSingbox, WriteConfigFails,
         StartFails, Failed, Succeeded, Calls
<1>3. Failures' \in {Failures, Failures + 1}
  BY QueueTypes DEF ApplyDesired, Validate, Check, Apply, StopSingbox, StartSingbox,
     WriteConfigFails, StartFails, Failures
<1>4. Empty /\ \A c \in Commands : Bounded(c) /\ Genuine(c) BY DEF QueueInv
<1>5. Empty' BY <1>1, <1>2, <1>4 DEF Empty, Calls
<1>6. \A c \in Commands :
        /\ BeingRun(c)' => BeingRun(c)
        /\ \A o \in Outcomes : InFlight(c, o)' => InFlight(c, o)
        /\ InHand(c) => InHand(c)'
  BY <1>1, <1>2 DEF BeingRun, InFlight, InHand, Calls
<1> QED BY <1>1, <1>3, <1>5, <1>6, QuietStep

\* The steps that lose what the agent has in its hands are failures.
LEMMA LosingSteps ==
  ASSUME AgentInv, QueueInv, AgentInv', Crash \/ EnrollFails \/ SaveFails \/ GiveUp
  PROVE  QueueInv'
<1> USE DEF panelVars, Down, diskVars, bounds, Fault, WriteFault
<1>1. UNCHANGED <<kind, status, ran>> /\ Failures' = Failures + 1
  BY QueueTypes DEF Crash, EnrollFails, SaveFails, GiveUp, Failures
<1>2. net' \subseteq net /\ todo' \subseteq todo /\ results' \subseteq results
  BY DEF Crash, EnrollFails, SaveFails, GiveUp, syncVars, driverVars
<1>3. pc' \notin Calls \cup {"enroll", "save"} /\ (pc' = "down" => todo' = {} /\ results' = {})
  BY DEF Crash, EnrollFails, SaveFails, GiveUp, Calls
<1>4. Empty' BY <1>3 DEF Empty
<1>5. \A c \in Commands :
        /\ BeingRun(c)' => BeingRun(c)
        /\ \A o \in Outcomes : InFlight(c, o)' => InFlight(c, o)
  BY <1>2, <1>3 DEF BeingRun, InFlight
<1> QED BY <1>1, <1>2, <1>4, <1>5, QueueTypes, QuietStep

\* The other steps that change nothing about commands.
LEMMA OtherSteps ==
  ASSUME AgentInv, QueueInv, AgentInv',
         \/ \E c \in Configs : ChangeConfig(c)
         \/ Boot \/ BootFails \/ Enroll \/ CommandsRun \/ Save \/ TelemetrySave \/ SingboxExits
         \/ ReturnToLoop \/ ReturnToBootstrap \/ Report \/ UNCHANGED vars
  PROVE  QueueInv'
<1> USE DEF Others, panelVars, driverVars, diskVars, callVars, syncVars, bounds, vars, WriteFault,
            DownFault
<1>0. Empty /\ \A c \in Commands : Bounded(c) /\ Genuine(c) BY DEF QueueInv
<1>1. UNCHANGED <<kind, status, ran>> /\ todo' \subseteq todo /\ results' \subseteq results
  BY DEF ChangeConfig, Boot, BootFails, Enroll, CommandsRun, Save, TelemetrySave, SingboxExits,
         ReturnToLoop, ReturnToBootstrap, Report, Down
<1>2. Failures' \in {Failures, Failures + 1}
  BY QueueTypes DEF ChangeConfig, Boot, BootFails, Enroll, CommandsRun, Save, TelemetrySave,
         SingboxExits, ReturnToLoop, ReturnToBootstrap, Report, Failures
<1>3. \A c \in Commands : \A o \in Outcomes : InFlight(c, o)' => InFlight(c, o)
  <2>1. net' \subseteq net \cup {results}
    BY DEF ChangeConfig, Boot, BootFails, Enroll, CommandsRun, Save, TelemetrySave, SingboxExits,
           ReturnToLoop, ReturnToBootstrap, Report
  <2> QED BY <1>1, <2>1 DEF InFlight
<1>4. \A c \in Commands : (BeingRun(c)' => BeingRun(c)) /\ (InHand(c) => InHand(c)')
  <2>1. CASE (\E c \in Configs : ChangeConfig(c)) \/ BootFails \/ TelemetrySave \/ SingboxExits
             \/ UNCHANGED vars
    BY <2>1 DEF ChangeConfig, BootFails, TelemetrySave, SingboxExits, BeingRun, InHand
  <2>2. CASE Boot \/ Enroll
    BY <2>2, JobsApart, QueueTypes DEF Boot, Enroll, BeingRun, InHand
  <2>3. CASE CommandsRun
    BY <2>3, JobsApart DEF CommandsRun, BeingRun, InHand, Calls
  <2>4. CASE Save
    BY <2>4, <1>0, JobsApart DEF Save, AfterSave, BeingRun, InHand, Calls, Empty
  <2>5. CASE ReturnToLoop
    BY <2>5, <1>0, JobsApart DEF ReturnToLoop, BeingRun, InHand, Calls, Empty
  <2>6. CASE ReturnToBootstrap
    BY <2>6, <1>0, JobsApart DEF ReturnToBootstrap, Down, BeingRun, InHand, Calls, Empty
  <2>7. CASE Report
    BY <2>7 DEF Report, BeingRun, InHand, Calls
  <2> QED BY <2>1, <2>2, <2>3, <2>4, <2>5, <2>6, <2>7
<1>5. Empty'
  <2>1. CASE (\E c \in Configs : ChangeConfig(c)) \/ BootFails \/ TelemetrySave \/ SingboxExits
             \/ UNCHANGED vars
    BY <2>1, <1>0 DEF ChangeConfig, BootFails, TelemetrySave, SingboxExits, Empty
  <2>2. CASE Boot \/ Enroll
    BY <2>2, <1>0, QueueTypes DEF Boot, Enroll, Empty
  <2>3. CASE CommandsRun BY <2>3 DEF CommandsRun, Empty
  <2>4. CASE Save BY <2>4, <1>0 DEF Save, AfterSave, Empty
  <2>5. CASE ReturnToLoop \/ Report
    BY <2>5 DEF ReturnToLoop, Report, Empty, Calls
  <2>6. CASE ReturnToBootstrap
    BY <2>6, <1>0 DEF ReturnToBootstrap, Down, Empty, Calls
  <2> QED BY <2>1, <2>2, <2>3, <2>4, <2>5, <2>6
<1> QED BY <1>1, <1>2, <1>3, <1>4, <1>5, QuietStep

\* A new command is known to nobody.
LEMMA IssueStep ==
  ASSUME AgentInv, QueueInv, NEW c \in Commands, NEW k \in Kinds, Issue(c, k)
  PROVE  QueueInv'
<1>1. Empty /\ \A d \in Commands : Bounded(d) /\ Genuine(d) BY DEF QueueInv
<1>2. UNCHANGED <<ran, net, results, todo, pc, job, Failures>>
  BY DEF Issue, driverVars, callVars, syncVars, bounds, Failures
<1>3. /\ status[c] = "none" /\ status' = [status EXCEPT ![c] = "pending"]
      /\ kind' = [kind EXCEPT ![c] = k]
  BY DEF Issue
<1>4. Empty' BY <1>1, <1>2 DEF Empty
<1>5. ASSUME NEW d \in Commands PROVE Bounded(d)' /\ Genuine(d)'
  <2>1. /\ (BeingRun(d)' <=> BeingRun(d)) /\ (InHand(d)' <=> InHand(d))
        /\ \A o \in Outcomes : InFlight(d, o)' <=> InFlight(d, o)
    BY <1>2 DEF BeingRun, InHand, InFlight
  <2>2. CASE d # c
    <3>1. status'[d] = status[d] /\ kind'[d] = kind[d] /\ ran'[d] = ran[d]
      BY <1>2, <1>3, <2>2, QueueTypes
    <3>2. \A o \in Outcomes : Known(d, o)' <=> Known(d, o) BY <2>1, <3>1 DEF Known
    <3> QED BY <1>1, <1>2, <2>1, <3>1, <3>2 DEF Bounded, Genuine
  <2>3. CASE d = c
    <3>1. status'[d] = "pending" BY <1>3, <2>3, QueueTypes
    <3>2. ran'[d] = 0 /\ d \notin todo' /\ ~BeingRun(d)' /\ \A o \in Outcomes : ~InFlight(d, o)'
      BY <1>1, <1>2, <1>3, <2>1, <2>3 DEF Bounded, Genuine
    <3>3. \A o \in Outcomes : ~Known(d, o)' BY <3>1, <3>2 DEF Known, Outcomes
    <3>5. Bounded(d)' BY <1>2, <3>1, <3>2, QueueTypes DEF Bounded
    <3>6. Genuine(d)' BY <3>2, <3>3 DEF Genuine
    <3> QED BY <3>5, <3>6
  <2> QED BY <2>2, <2>3
<1> QED BY <1>4, <1>5 DEF QueueInv

\* What the panel makes of a command when a part of a report reaches it.
LEMMA CompletedOf ==
  ASSUME NEW part, NEW c \in Commands
  PROVE  \/ Completed(part)[c] \in Outcomes /\ <<c, Completed(part)[c]>> \in part
         \/ Completed(part)[c] = status[c] /\ \A o \in Outcomes : <<c, o>> \notin part
  BY DEF Completed

\* A report resolves commands with results that were in flight.
LEMMA HandleStep ==
  ASSUME AgentInv, QueueInv, AgentInv', NEW m \in net, NEW part \in SUBSET m, Handle(m, part)
  PROVE  QueueInv'
<1>1. Empty /\ \A c \in Commands : Bounded(c) /\ Genuine(c) BY DEF QueueInv
<1>2. UNCHANGED <<kind, ran, results, todo, job>>
  BY DEF Handle, driverVars, callVars, syncVars
<1>3. Failures' = Failures \/ Failures' = Failures + 1
  BY QueueTypes DEF Handle, Fault, bounds, Failures
<1>4. Failures' = Failures + 1 \/ part = m
  BY QueueTypes DEF Handle, Fault, bounds, Failures
<1>5. /\ net' = net \ {m} /\ status' = Completed(part)
      /\ pc' = IF pc = "wait" /\ m = results THEN "loop" ELSE pc
  BY DEF Handle
<1>6. Empty' BY <1>1, <1>2, <1>5 DEF Empty, Calls
<1>7. ASSUME NEW c \in Commands PROVE Bounded(c)' /\ Genuine(c)'
  <2>1. ran[c] \in Nat /\ Failures \in Nat /\ Failures' \in Nat BY <1>3, QueueTypes
  <2>2. \A o \in Outcomes : <<c, o>> \in part => InFlight(c, o) BY DEF InFlight
  <2>3. \A o \in Outcomes : InFlight(c, o)' => InFlight(c, o) BY <1>2, <1>5 DEF InFlight
  <2>4. \/ status'[c] \in Outcomes /\ InFlight(c, status'[c])
        \/ status'[c] = status[c] /\ \A o \in Outcomes : <<c, o>> \notin part
    BY <1>5, <2>2, CompletedOf
  <2>5. \A o \in Outcomes : Known(c, o)' => Known(c, o) BY <2>3, <2>4 DEF Known
  <2>6. BeingRun(c)' => BeingRun(c) BY <1>2, <1>5 DEF BeingRun, Calls
  <2>7. status'[c] = "none" <=> status[c] = "none"
    <3>1. "none" \notin Outcomes BY DEF Outcomes
    <3> QED BY <1>1, <2>4, <3>1 DEF Genuine
  <2>8. Genuine(c)' BY <1>1, <1>2, <2>3, <2>5, <2>6, <2>7 DEF Genuine
  <2>9. status'[c] = "pending" /\ ~InHand(c)' => ran[c] <= Failures'
    <3>1. SUFFICES ASSUME status'[c] = "pending", ~InHand(c)'
                   PROVE  ran[c] <= Failures'
      OBVIOUS
    <3>2. status[c] = "pending" /\ \A o \in Outcomes : <<c, o>> \notin part
      BY <2>4, <3>1 DEF Outcomes
    <3>3. CASE part # m BY <1>1, <1>4, <2>1, <3>3 DEF Bounded
    <3>4. CASE part = m
      <4>1. ~InHand(c) BY <1>2, <1>5, <3>1, <3>2, <3>4 DEF InHand, BeingRun, Calls
      <4> QED BY <1>1, <1>3, <2>1, <3>2, <4>1 DEF Bounded
    <3> QED BY <3>3, <3>4
  <2>10. Bounded(c)' BY <1>1, <1>2, <1>3, <2>1, <2>7, <2>9 DEF Bounded
  <2> QED BY <2>8, <2>10
<1> QED BY <1>6, <1>7 DEF QueueInv

\* The commands handed out are pending and in nobody's hands.
LEMMA SyncStep ==
  ASSUME AgentInv, QueueInv, NEW C \in SUBSET Pending, SyncAnswer(C),
         Failures' \in {Failures, Failures + 1}
  PROVE  QueueInv'
<1>1. Empty /\ \A c \in Commands : Bounded(c) /\ Genuine(c) BY DEF QueueInv
<1>2. UNCHANGED <<kind, status, ran, net, job>>
  BY DEF SyncAnswer, panelVars, callVars
<1>3. pc = "loop" /\ pc' = "commands" /\ todo' = C /\ results' = {} BY DEF SyncAnswer
<1>4. Empty' BY <1>3 DEF Empty, Calls
<1>5. ASSUME NEW c \in Commands PROVE Bounded(c)' /\ Genuine(c)'
  <2>1. ~InHand(c) /\ ~BeingRun(c)' BY <1>3 DEF InHand, BeingRun, Calls
  <2>2. \A o \in Outcomes : InFlight(c, o)' => InFlight(c, o) BY <1>2, <1>3 DEF InFlight
  <2>3. \A o \in Outcomes : Known(c, o)' => Known(c, o) BY <1>2, <2>2 DEF Known
  <2>4. c \in todo' => status[c] = "pending" BY <1>3 DEF Pending
  <2>5. ran[c] \in Nat /\ Failures \in Nat /\ Failures <= Failures' BY QueueTypes
  <2>6. Bounded(c)' BY <1>1, <1>2, <2>1, <2>4, <2>5 DEF Bounded
  <2>7. Genuine(c)' BY <1>1, <1>2, <2>1, <2>2, <2>3 DEF Genuine
  <2> QED BY <2>6, <2>7
<1> QED BY <1>4, <1>5 DEF QueueInv

\* The result of a run is one of the command's kind, and a result known before
\* came from an earlier run.
LEMMA RunStep ==
  ASSUME AgentInv, QueueInv, AgentInv', NEW c \in Commands, RunCommand(c)
  PROVE  QueueInv'
<1>1. Empty /\ \A d \in Commands : Bounded(d) /\ Genuine(d) BY DEF QueueInv
<1>2. UNCHANGED <<kind, status, net, Failures>>
  BY DEF RunCommand, panelVars, bounds, Failures
<1>3. /\ pc = "commands" /\ c \in todo /\ todo' = todo \ {c}
      /\ ran' = [ran EXCEPT ![c] = @ + 1]
      /\ results \subseteq results'
  BY DEF RunCommand
<1>4. \/ pc' = "commands"
      \/ pc' \in Calls /\ job' = c /\ kind[c] \in {"apply", "restart"} /\ results' = results
  BY DEF RunCommand, Calls
<1>5. Empty'
  <2>1. pc' = "commands" \/ job' = c BY <1>4
  <2>2. pc' # "down" BY <1>4 DEF Calls
  <2> QED BY <2>1, <2>2, JobsApart DEF Empty, Calls
<1>6. ASSUME NEW o \in Outcomes, <<c, o>> \in results' \ results
      PROVE  o \in Queue!OutcomesOf(kind[c])
  BY <1>6 DEF RunCommand, Queue!OutcomesOf
<1>7. ASSUME NEW d \in Commands, NEW o \in Outcomes, d # c, <<d, o>> \in results'
      PROVE  <<d, o>> \in results
  BY <1>7 DEF RunCommand
<1>8. pc' \in Calls \/ \E o \in Outcomes : <<c, o>> \in results'
  BY DEF RunCommand, Calls, Outcomes, Kinds, AgentInv, TypeOK
<1>9. ASSUME NEW d \in Commands PROVE Bounded(d)' /\ Genuine(d)'
  <2>1. ran[d] \in Nat /\ Failures \in Nat BY QueueTypes
  <2>2. CASE d # c
    <3>1. ran'[d] = ran[d] /\ (d \in todo' => d \in todo) BY <1>3, <2>2, QueueTypes
    <3>2. ~BeingRun(d)' BY <1>4, <2>2 DEF BeingRun, Calls
    <3>3. \A o \in Outcomes : InFlight(d, o)' => InFlight(d, o) BY <1>2, <1>7, <2>2 DEF InFlight
    <3>4. \A o \in Outcomes : Known(d, o)' => Known(d, o) BY <1>2, <3>3 DEF Known
    <3>5. InHand(d) => InHand(d)' BY <1>3, <1>4 DEF InHand, BeingRun, Calls
    <3> QED BY <1>1, <1>2, <3>1, <3>2, <3>3, <3>4, <3>5 DEF Bounded, Genuine
  <2>3. CASE d = c
    <3>1. ran'[d] = ran[d] + 1 /\ d \notin todo' BY <1>3, <2>3, QueueTypes
    <3>2. ran[d] <= Failures /\ status[d] # "none" BY <1>1, <1>3, <2>3 DEF Bounded
    <3>3. InHand(d)' BY <1>4, <1>8, <2>3 DEF InHand, BeingRun, Calls
    <3>4. Bounded(d)' BY <1>2, <2>1, <3>1, <3>2, <3>3 DEF Bounded
    <3>5. BeingRun(d)' => kind[d] \in {"apply", "restart"}
      BY <1>4, <2>3 DEF BeingRun, Calls
    <3>6. ASSUME NEW o \in Outcomes, Known(d, o)
          PROVE  ran[d] >= 1 /\ o \in Queue!OutcomesOf(kind[d])
      BY <1>1, <3>6 DEF Genuine
    <3>7. ASSUME NEW o \in Outcomes, Known(d, o)', ~Known(d, o)
          PROVE  o \in Queue!OutcomesOf(kind[d]) /\ kind[d] \notin {"apply", "restart"}
      <4>1. <<d, o>> \in results' \ results BY <1>2, <3>7 DEF Known, InFlight
      <4> QED BY <1>6, <2>3, <4>1 DEF RunCommand
    <3>8. \A o, p \in Outcomes : Known(d, o)' /\ Known(d, p)' /\ ~Known(d, o) /\ ~Known(d, p) => o = p
      BY <1>2, <2>3 DEF Known, InFlight, RunCommand
    <3>9. Genuine(d)'
      BY <1>2, <2>1, <3>1, <3>2, <3>5, <3>6, <3>7, <3>8 DEF Genuine
    <3> QED BY <3>4, <3>9
  <2> QED BY <2>2, <2>3
<1> QED BY <1>5, <1>9 DEF QueueInv

\* The result of a driver call is that of the run in progress.
LEMMA ReturnStep ==
  ASSUME AgentInv, QueueInv, ReturnToCommand
  PROVE  QueueInv'
<1>1. Empty /\ \A d \in Commands : Bounded(d) /\ Genuine(d) BY DEF QueueInv
<1>2. UNCHANGED <<kind, status, ran, net, todo, Failures>>
  BY DEF ReturnToCommand, panelVars, bounds, Failures
<1>3. PICK r \in Outcomes : results' = results \cup {<<job, r>>}
  BY DEF ReturnToCommand, Outcomes
<1>4. pc = "return" /\ pc' = "commands" /\ job \in Commands BY DEF ReturnToCommand
<1>5. Empty' BY <1>4 DEF Empty, Calls
<1>6. ASSUME NEW d \in Commands PROVE Bounded(d)' /\ Genuine(d)'
  <2>1. ran[d] \in Nat /\ Failures \in Nat BY QueueTypes
  <2>2. ~BeingRun(d)' BY <1>4 DEF BeingRun, Calls
  <2>3. InHand(d) => InHand(d)' BY <1>3, <1>4 DEF InHand, BeingRun
  <2>4. Bounded(d)' BY <1>1, <1>2, <2>3 DEF Bounded
  <2>5. CASE d # job
    <3>1. \A o \in Outcomes : InFlight(d, o)' => InFlight(d, o) BY <1>2, <1>3, <2>5 DEF InFlight
    <3>2. \A o \in Outcomes : Known(d, o)' => Known(d, o) BY <1>2, <3>1 DEF Known
    <3> QED BY <1>1, <1>2, <2>2, <2>4, <3>1, <3>2 DEF Genuine
  <2>6. CASE d = job
    <3>1. BeingRun(d) BY <1>4, <2>6 DEF BeingRun, Calls
    <3>2. kind[d] \in {"apply", "restart"} /\ ran[d] >= 1 /\ status[d] # "none"
      BY <1>1, <3>1 DEF Genuine
    <3>3. \A o \in Outcomes : o \in Queue!OutcomesOf(kind[d])
      BY <3>2 DEF Outcomes, Queue!OutcomesOf
    <3>4. \A o \in Outcomes : Known(d, o)' => Known(d, o) \/ o = r
      BY <1>2, <1>3 DEF Known, InFlight
    <3>5. \A o \in Outcomes : Known(d, o) => ran[d] >= 2 BY <1>1, <3>1 DEF Genuine
    <3>6. Genuine(d)' BY <1>2, <2>2, <3>2, <3>3, <3>4, <3>5 DEF Genuine
    <3> QED BY <2>4, <3>6
  <2> QED BY <2>5, <2>6
<1> QED BY <1>5, <1>6 DEF QueueInv

\* QueueInv is an invariant of the agent.
THEOREM QueueInvariant == Spec => []QueueInv
<1>1. Init => QueueInv
  <2> SUFFICES ASSUME Init PROVE QueueInv
    OBVIOUS
  <2>1. Empty BY DEF Init, Empty
  <2>2. ASSUME NEW c \in Commands PROVE Bounded(c) /\ Genuine(c)
    <3>1. /\ ran[c] = 0 /\ status[c] = "none" /\ c \notin todo /\ ~BeingRun(c)
          /\ \A o \in Outcomes : ~InFlight(c, o)
      BY DEF Init, BeingRun, Calls, InFlight
    <3>2. \A o \in Outcomes : ~Known(c, o) BY <3>1 DEF Known, Outcomes
    <3>3. Failures = 0 BY DEF Init, Failures
    <3>4. Bounded(c) BY <3>1, <3>3 DEF Bounded
    <3>5. Genuine(c) BY <3>1, <3>2 DEF Genuine
    <3> QED BY <3>4, <3>5
  <2> QED BY <2>1, <2>2 DEF QueueInv
<1>2. AgentInv /\ QueueInv /\ (Sync \/ SyncUnlisted) => QueueInv'
  <2> SUFFICES ASSUME AgentInv, QueueInv, Sync \/ SyncUnlisted PROVE QueueInv'
    OBVIOUS
  <2>1. \E C \in SUBSET Pending : SyncAnswer(C) BY DEF Sync, SyncUnlisted
  <2>2. Failures' \in {Failures, Failures + 1}
    BY QueueTypes DEF Sync, SyncUnlisted, bounds, Fault, Failures
  <2> QED BY <2>1, <2>2, SyncStep
<1>3. AgentInv /\ AgentInv' /\ QueueInv /\ [Next]_vars => QueueInv'
  BY <1>2, CallSteps, LosingSteps, OtherSteps, IssueStep, HandleStep, RunStep, ReturnStep,
     Zenon DEF Next, Agent, Trouble
<1> QED
  BY <1>1, <1>3, AgentInvariant, PTL DEF Spec

\* A step that fails at most once and touches no command is one in which a
\* report without results arrives.
LEMMA FailureOnly ==
  ASSUME AgentInv, UNCHANGED <<kind, status, ran>>, Failures' \in {Failures, Failures + 1}
  PROVE  Queue!QueueNext
<1> DEFINE none == [c \in {} |-> "done"]
<1>1. none \in [{} -> {"done", "failed"}] OBVIOUS
<1>2. status' = [c \in Commands |-> IF c \in {} THEN none[c] ELSE status[c]] BY QueueTypes
<1>3. Queue!Resolve({}, none) BY <1>2 DEF Queue!Resolve, Queue!MayFail
<1> QED BY <1>1, <1>3 DEF Queue!QueueNext

\* A part of a report that arrives resolves the commands it names.
LEMMA HandleResolves ==
  ASSUME AgentInv, QueueInv, NEW m \in net, NEW part \in SUBSET m, Handle(m, part)
  PROVE  Queue!QueueNext
<1> DEFINE S == {c \in Commands : \E o \in Outcomes : <<c, o>> \in part}
           new == [c \in S |-> Completed(part)[c]]
<1>1. \A c \in Commands : Bounded(c) /\ Genuine(c) BY DEF QueueInv
<1>2. UNCHANGED <<kind, ran>> /\ status' = Completed(part) /\ Failures' \in {Failures, Failures + 1}
  BY QueueTypes DEF Handle, Fault, bounds, Failures
<1>3. ASSUME NEW c \in S
      PROVE  /\ new[c] \in Outcomes /\ new[c] \in Queue!OutcomesOf(kind[c])
             /\ \/ status[c] = "pending" /\ ran[c] >= 1
                \/ status[c] = new[c]
                \/ status[c] \in {"done", "failed"} /\ ran[c] >= 2
  <2>1. new[c] \in Outcomes /\ <<c, new[c]>> \in part BY CompletedOf
  <2>2. Known(c, new[c]) /\ InFlight(c, new[c]) BY <2>1 DEF Known, InFlight
  <2>3. /\ status[c] # "none" /\ ran[c] >= 1
        /\ new[c] \in Queue!OutcomesOf(kind[c])
        /\ \A p \in Outcomes : Known(c, p) => new[c] = p \/ ran[c] >= 2
    BY <1>1, <2>1, <2>2 DEF Genuine
  <2>4. status[c] = "pending" \/ status[c] \in Outcomes BY <2>3, QueueTypes
  <2>5. CASE status[c] \in Outcomes
    BY <2>1, <2>3, <2>5 DEF Known, Outcomes
  <2> QED BY <2>1, <2>3, <2>4, <2>5
<1>4. new \in [S -> {"done", "failed"}] BY <1>3 DEF Outcomes
<1>5. status' = [c \in Commands |-> IF c \in S THEN new[c] ELSE status[c]]
  <2>1. ASSUME NEW c \in Commands
        PROVE  Completed(part)[c] = IF c \in S THEN new[c] ELSE status[c]
    BY CompletedOf
  <2> QED BY <1>2, <2>1 DEF Completed
<1>6. Queue!Resolve(S, new) BY <1>2, <1>3, <1>5 DEF Queue!Resolve, Queue!MayFail
<1> QED BY <1>4, <1>6 DEF Queue!QueueNext

\* Every step of the agent is one of the queue, or leaves it alone.
LEMMA QueueStep ==
  ASSUME AgentInv, QueueInv, AgentInv', [Next]_vars
  PROVE  [Queue!QueueNext]_(Queue!queueVars)
<1>1. ASSUME NEW c \in Commands, NEW k \in Kinds, Issue(c, k)
      PROVE  Queue!QueueNext
  <2>1. Queue!Enqueue(c, k) BY <1>1 DEF Issue, bounds, Failures, Queue!Enqueue
  <2> QED BY <2>1 DEF Queue!QueueNext, Kinds, Queue!Kinds
<1>2. ASSUME NEW m \in net, NEW part \in SUBSET m, Handle(m, part)
      PROVE  Queue!QueueNext
  BY <1>2, HandleResolves
<1>3. ASSUME NEW c \in Commands, RunCommand(c)
      PROVE  Queue!QueueNext
  <2>1. status[c] # "none" /\ ran[c] <= Failures BY <1>3 DEF RunCommand, QueueInv, Bounded
  <2>2. Queue!RunOnce(c)
    BY <1>3, <2>1 DEF RunCommand, panelVars, bounds, Failures, Queue!RunOnce
  <2> QED BY <2>2 DEF Queue!QueueNext
<1>4. ASSUME \/ \E c \in Configs : ChangeConfig(c)
             \/ Boot \/ BootFails \/ Enroll \/ Sync \/ SyncUnlisted \/ CommandsRun \/ Save \/ Report
             \/ ReturnToLoop \/ ReturnToCommand \/ ReturnToBootstrap
             \/ Crash \/ EnrollFails \/ SaveFails \/ TelemetrySave \/ GiveUp \/ SingboxExits
             \/ UNCHANGED vars
      PROVE  Queue!QueueNext
  <2> USE DEF Others, panelVars, driverVars, diskVars, callVars, syncVars, bounds, vars, Fault,
              WriteFault, DownFault
  <2>1. UNCHANGED <<kind, status, ran>>
    BY <1>4 DEF ChangeConfig, Boot, BootFails, Enroll, Sync, SyncUnlisted, SyncAnswer,
       CommandsRun, Save, Report, ReturnToLoop, ReturnToCommand, ReturnToBootstrap, Crash, EnrollFails, SaveFails,
       TelemetrySave, GiveUp, SingboxExits
  <2>2. Failures' \in {Failures, Failures + 1}
    BY <1>4, QueueTypes DEF ChangeConfig, Boot, BootFails, Enroll, Sync, SyncUnlisted,
       SyncAnswer, CommandsRun, Save, Report, ReturnToLoop, ReturnToCommand, ReturnToBootstrap, Crash, EnrollFails, SaveFails,
       TelemetrySave, GiveUp, SingboxExits, Failures
  <2> QED BY <2>1, <2>2, FailureOnly
<1>5. ASSUME \/ ApplyDesired \/ Validate \/ Check \/ Apply \/ StopSingbox \/ StartSingbox
             \/ WriteConfigFails \/ StartFails
      PROVE  Queue!QueueNext
  <2> USE DEF Others, panelVars, bounds, Fault, WriteFault, DownFault
  <2>1. UNCHANGED <<kind, status, ran>>
    BY <1>5 DEF ApplyDesired, Validate, Check, Apply, StopSingbox, StartSingbox,
       WriteConfigFails, StartFails
  <2>2. Failures' \in {Failures, Failures + 1}
    BY <1>5, QueueTypes DEF ApplyDesired, Validate, Check, Apply, StopSingbox, StartSingbox,
       WriteConfigFails, StartFails, Failures
  <2> QED BY <2>1, <2>2, FailureOnly
<1> QED
  BY <1>1, <1>2, <1>3, <1>4, <1>5, Zenon DEF Next, Agent, Trouble

\* The panel, the agent and the requests between them implement the queue: what
\* a command goes through is what CommandQueue allows.
THEOREM AgentImplementsCommandQueue == Spec => ImplementsCommandQueue
<1>1. Init => Queue!QueueInit
  BY DEF Init, Failures, Queue!QueueInit, Queue!Kinds
<1>2. AgentInv /\ QueueInv /\ AgentInv' /\ [Next]_vars => [Queue!QueueNext]_(Queue!queueVars)
  BY QueueStep
<1> QED
  BY <1>1, <1>2, AgentInvariant, QueueInvariant, PTL DEF Spec, ImplementsCommandQueue, Queue!QueueSpec
=============================================================================
