------------------------------ MODULE Singbox -------------------------------
(***************************************************************************)
(* What the driver promises the agent about sing-box: one configuration    *)
(* file and at most one process, which runs what the file held when it     *)
(* was started.  A process is started only when the last one is gone.      *)
(***************************************************************************)
CONSTANTS
  Configs, \* configurations
  None,    \* no configuration, and no process
  Torn     \* a file whose writing failed half-way

VARIABLES
  file,    \* the content of ConfigPath
  running  \* the configuration of the process, None without a process

Contents == Configs \cup {None, Torn}

SingboxInit == file \in Contents /\ running = None

Write(c) == file' = c /\ UNCHANGED running

WriteFails == file' \in {file, Torn} /\ UNCHANGED running

\* The process is stopped, or exits by itself.
Stop == running' = None /\ UNCHANGED file

Start == running = None /\ running' = file /\ UNCHANGED file

SingboxNext == (\E c \in Configs : Write(c)) \/ WriteFails \/ Stop \/ Start

SingboxSpec == SingboxInit /\ [][SingboxNext]_<<file, running>>
=============================================================================
