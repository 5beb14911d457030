--------------------------- MODULE SingboxDriver ----------------------------
(***************************************************************************)
(* The driver of the local sing-box process.                               *)
(*                                                                         *)
(* The agent's only goroutine calls Validate, Apply, EnsureRunning and     *)
(* Restart.  Every process that is started gets a goroutine of its own,    *)
(* its watcher, which waits for the exit, announces it on the process's    *)
(* channel and, under the mutex, forgets the process.  The agent waits for *)
(* the announcement while it holds the mutex.                              *)
(*                                                                         *)
(* d.cmd and d.waitDone are always assigned together: cmd is the number of *)
(* the process both belong to.  The agent reads ProcessState while the     *)
(* watcher may be writing it; reading the old value is as if the agent had *)
(* come before the watcher, so the interleavings below include it.  The    *)
(* agent's context is never cancelled.                                     *)
(***************************************************************************)
EXTENDS Integers

CONSTANTS
  Configs,   \* configurations
  None,      \* no configuration yet
  Torn,      \* a file whose writing failed half-way
  Accepted,  \* configurations "sing-box check" accepts
  MaxStarts  \* bound: processes started

ASSUME DriverAssumption ==
  /\ None \notin Configs /\ Torn \notin Configs /\ None # Torn
  /\ Accepted \subseteq Configs
  /\ MaxStarts \in Nat

VARIABLES
  file,     \* the content of ConfigPath
  mu,       \* d.mu: free, or held by the agent
  cmd,      \* d.cmd and d.waitDone: a process, or 0
  process,  \* what the operating system says of each process
  runs,     \* the configuration each process was started with
  done,     \* processes with the announcement in their channel
  watcher,  \* where each watcher is
  started,  \* processes started
  pc,       \* where the agent is in the call
  call,     \* the call: its operation and configuration
  answer    \* what the last call returned

fileVars  == <<file>>
procVars  == <<process, runs, started>>
watchVars == <<done, watcher>>
agentVars == <<pc, call, answer>>
vars == <<file, mu, cmd, procVars, watchVars, agentVars>>

Procs == 1 .. MaxStarts
Contents == Configs \cup {None, Torn}
Calls == [op : {"validate", "apply", "ensure", "restart"}, config : Contents]
Places == {"idle", "write", "check", "peek", "lock", "stop", "await", "killed",
           "start", "window"}

\* "unwritten" is an error before sing-box was touched, "down" an error after.
Answers == {"ok", "rejected", "unwritten", "down"}

TypeOK ==
  /\ file \in Contents
  /\ mu \in {"free", "agent"}
  /\ cmd \in 0 .. MaxStarts
  /\ process \in [Procs -> {"none", "up", "killed", "exited", "waited"}]
  /\ runs \in [Procs -> Contents]
  /\ done \subseteq Procs
  /\ watcher \in [Procs -> {"none", "wait", "send", "lock", "gone"}]
  /\ started \in 0 .. MaxStarts
  /\ pc \in Places /\ call \in Calls /\ answer \in Answers

\* The agent starts without a process, over the file an earlier life left.
Init ==
  /\ file \in Contents
  /\ mu = "free"
  /\ cmd = 0
  /\ process = [p \in Procs |-> "none"]
  /\ runs = [p \in Procs |-> None]
  /\ done = {}
  /\ watcher = [p \in Procs |-> "none"]
  /\ started = 0
  /\ pc = "idle" /\ call = [op |-> "restart", config |-> None] /\ answer = "ok"

-----------------------------------------------------------------------------
\* A process that holds its ports.
Alive(p) == process[p] \in {"up", "killed"}

Return(a) == pc' = "idle" /\ answer' = a /\ UNCHANGED call

Goto(place) == pc' = place /\ UNCHANGED <<call, answer>>

\* isRunningLocked
IsRunning == cmd # 0 /\ process[cmd] # "waited"

Call(op, c) ==
  /\ pc = "idle"
  /\ call' = [op |-> op, config |-> c]
  /\ pc' = CASE op = "ensure"  -> "peek"
             [] op = "restart" -> "lock"
             [] OTHER          -> "write"
  /\ UNCHANGED <<file, mu, cmd, procVars, watchVars, answer>>

\* EnsureRunning: a look under the mutex, then Apply unless sing-box runs.
Peek ==
  /\ pc = "peek" /\ mu = "free"
  /\ IF IsRunning THEN Return("ok") ELSE Goto("write")
  /\ UNCHANGED <<file, mu, cmd, procVars, watchVars>>

WriteConfig ==
  /\ pc = "write"
  /\ file' = call.config
  /\ Goto(IF call.op = "validate" THEN "check" ELSE "lock")
  /\ UNCHANGED <<mu, cmd, procVars, watchVars>>

WriteConfigFails ==
  /\ pc = "write"
  /\ file' \in {file, Torn}
  /\ Return("unwritten")
  /\ UNCHANGED <<mu, cmd, procVars, watchVars>>

\* sing-box check reads the file that was just written.
Check ==
  /\ pc = "check"
  /\ Return(IF file \in Accepted THEN "ok" ELSE "rejected")
  /\ UNCHANGED <<file, mu, cmd, procVars, watchVars>>

Lock ==
  /\ pc = "lock" /\ mu = "free"
  /\ mu' = "agent"
  /\ Goto("stop")
  /\ UNCHANGED <<file, cmd, procVars, watchVars>>

\* stopLocked up to the wait: SIGTERM, which the process may ignore.
StopLocked ==
  /\ pc = "stop"
  /\ Goto(IF IsRunning THEN "await" ELSE "start")
  /\ UNCHANGED <<file, mu, cmd, procVars, watchVars>>

\* Three seconds have passed: SIGKILL, which takes a moment.
Kill ==
  /\ pc = "await"
  /\ process' = [process EXCEPT ![cmd] = IF @ = "up" THEN "killed" ELSE @]
  /\ Goto("killed")
  /\ UNCHANGED <<file, mu, cmd, runs, started, watchVars>>

\* Broken variant: after the SIGKILL nobody waits for the exit.
StoppedWithoutWait ==
  /\ pc = "killed" \/ (pc = "await" /\ cmd \in done)
  /\ done' = done \ {cmd}
  /\ cmd' = 0
  /\ Goto("start")
  /\ UNCHANGED <<file, mu, procVars, watcher>>

\* The announcement of the exit arrives.
Stopped ==
  /\ pc \in {"await", "killed"}
  /\ cmd \in done
  /\ done' = done \ {cmd}
  /\ cmd' = 0
  /\ Goto("start")
  /\ UNCHANGED <<file, mu, procVars, watcher>>

StartProcess ==
  /\ pc = "start"
  /\ started < MaxStarts
  /\ started' = started + 1
  /\ process' = [process EXCEPT ![started + 1] = "up"]
  /\ runs' = [runs EXCEPT ![started + 1] = file]
  /\ watcher' = [watcher EXCEPT ![started + 1] = "wait"]
  /\ cmd' = started + 1
  /\ Goto("window")
  /\ UNCHANGED <<file, mu, done>>

StartProcessFails ==
  /\ pc = "start"
  /\ mu' = "free"
  /\ Return("down")
  /\ UNCHANGED <<file, cmd, procVars, watchVars>>

\* The exit is announced within 300 ms of the start.
ExitedImmediately ==
  /\ pc = "window"
  /\ cmd \in done
  /\ done' = done \ {cmd}
  /\ cmd' = 0
  /\ mu' = "free"
  /\ Return("down")
  /\ UNCHANGED <<file, procVars, watcher>>

\* 300 ms have passed; an announcement that came as well may lose the select.
SurvivedWindow ==
  /\ pc = "window"
  /\ mu' = "free"
  /\ Return("ok")
  /\ UNCHANGED <<file, cmd, procVars, watchVars>>

\* External: sing-box exits, by itself or because of a signal.
Exit(p) ==
  /\ Alive(p)
  /\ process' = [process EXCEPT ![p] = "exited"]
  /\ UNCHANGED <<file, mu, cmd, runs, started, watchVars, agentVars>>

\* Broken variant: the watcher takes the mutex before it announces the exit.
WaitReturnsLockFirst(p) ==
  /\ watcher[p] = "wait" /\ process[p] = "exited"
  /\ process' = [process EXCEPT ![p] = "waited"]
  /\ watcher' = [watcher EXCEPT ![p] = "lock"]
  /\ UNCHANGED <<file, mu, cmd, runs, started, done, agentVars>>

\* cmd.Wait sets ProcessState and returns.
WaitReturns(p) ==
  /\ watcher[p] = "wait" /\ process[p] = "exited"
  /\ process' = [process EXCEPT ![p] = "waited"]
  /\ watcher' = [watcher EXCEPT ![p] = "send"]
  /\ UNCHANGED <<file, mu, cmd, runs, started, done, agentVars>>

\* The channel has room for the one announcement.
Announce(p) ==
  /\ watcher[p] = "send"
  /\ done' = done \cup {p}
  /\ watcher' = [watcher EXCEPT ![p] = "lock"]
  /\ UNCHANGED <<file, mu, cmd, procVars, agentVars>>

\* Broken variant: the watcher forgets whatever process is there.
ForgetAny(p) ==
  /\ watcher[p] = "lock" /\ mu = "free"
  /\ cmd' = 0
  /\ watcher' = [watcher EXCEPT ![p] = "gone"]
  /\ UNCHANGED <<file, mu, done, procVars, agentVars>>

\* Under the mutex, the watcher forgets its process if it is still the one.
Forget(p) ==
  /\ watcher[p] = "lock" /\ mu = "free"
  /\ cmd' = IF cmd = p THEN 0 ELSE cmd
  /\ watcher' = [watcher EXCEPT ![p] = "gone"]
  /\ UNCHANGED <<file, mu, done, procVars, agentVars>>

Agent ==
  \/ Peek \/ WriteConfig \/ WriteConfigFails \/ Check \/ Lock \/ StopLocked
  \/ Kill \/ Stopped \/ StartProcess \/ StartProcessFails \/ ExitedImmediately
  \/ SurvivedWindow

Watcher(p) == WaitReturns(p) \/ Announce(p) \/ Forget(p)

Next ==
  \/ \E op \in {"validate", "apply", "ensure"}, c \in Configs : Call(op, c)
  \/ Call("restart", None)
  \/ Agent
  \/ \E p \in Procs : Exit(p) \/ Watcher(p)

Spec == Init /\ [][Next]_vars

\* Goroutines that can go on do; a killed process exits.  A process need not
\* exit on SIGTERM, and the agent need not make another call.
Fairness ==
  /\ WF_vars(Agent)
  /\ \A p \in Procs : WF_vars(Watcher(p))
  /\ \A p \in Procs : WF_vars(process[p] = "killed" /\ Exit(p))

FairSpec == Spec /\ Fairness
-----------------------------------------------------------------------------
\* There is never more than one process: two would fight for the ports.
AtMostOneProcess == \A p, q \in Procs : Alive(p) /\ Alive(q) => p = q

\* A process that is there can always be stopped: the driver knows it, whatever
\* late watchers of earlier processes do.
NoOrphan == \A p \in Procs : Alive(p) => cmd = p

\* Whoever waits for an announcement, with the mutex held, will get it without
\* anybody needing the mutex.
AnnouncementComes ==
  pc \in {"await", "killed"} =>
    cmd # 0 /\ (cmd \in done \/ watcher[cmd] \in {"wait", "send"})

\* A restart that failed leaves nothing running, while an error before the
\* restart leaves sing-box as it was; the caller's rollback relies on it.
FailedRestartIsDown ==
  pc = "idle" /\ answer = "down" => \A p \in Procs : ~Alive(p)

\* What the safety of the driver rests on.  A process nobody has waited for is
\* the one the driver knows; it is forgotten by the agent after its exit was
\* announced, or by its own watcher, which cannot while the agent has the mutex.
DriverInv ==
  /\ TypeOK
  /\ mu = "agent" <=> pc \in {"stop", "await", "killed", "start", "window"}
  /\ cmd <= started
  /\ \A p \in Procs :
       /\ p > started <=> process[p] = "none"
       /\ process[p] = "none" => watcher[p] = "none"
       /\ process[p] \in {"up", "killed", "exited"} => watcher[p] = "wait" /\ cmd = p
       /\ process[p] = "waited" => watcher[p] \in {"send", "lock", "gone"}
       /\ p \in done => watcher[p] \in {"lock", "gone"}
  /\ pc \in {"peek", "write"} => call.config \in Configs
  /\ pc = "start" => \A p \in Procs : process[p] \in {"none", "waited"}
  /\ pc = "window" => cmd # 0
  /\ AnnouncementComes
  /\ FailedRestartIsDown

\* Every call returns: no order of exits, timers and watchers blocks the agent.
CallsReturn == pc # "idle" ~> pc = "idle"

\* The driver implements Singbox: a process is started only when the last one
\* is gone, and runs what the file then holds.
Running == IF \E p \in Procs : Alive(p)
           THEN runs[CHOOSE p \in Procs : Alive(p)]
           ELSE None
Driver == INSTANCE Singbox WITH running <- Running
ImplementsSingbox == Driver!SingboxSpec
=============================================================================
