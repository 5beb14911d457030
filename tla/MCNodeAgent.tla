---------------------------- MODULE MCNodeAgent -----------------------------
(* Instances of NodeAgent for TLC.                                          *)
EXTENDS NodeAgent, TLC

\* The accepted configurations are alike, and so are the commands.
AgentSymmetry == Permutations(Accepted) \cup Permutations(Commands)
=============================================================================
