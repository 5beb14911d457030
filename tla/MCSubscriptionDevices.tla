----------------------- MODULE MCSubscriptionDevices ------------------------
(* Instances of SubscriptionDevices for TLC.                                *)
EXTENDS SubscriptionDevices, TLC

DeviceSymmetry == Permutations(Handlers) \cup Permutations(Identified)

\* What the administrator enters; a negative number is no limit.
EnteredLimits == -1 .. 2
=============================================================================
