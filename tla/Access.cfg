\* One user and one node, a sync, a subscription and two PATCH requests at a
\* time, and two writes or failures (one where the user is allowed the node by
\* name or lacks credentials).
SPECIFICATION FairSpec
CONSTANTS
  n1 = n1
  vip = vip
  first = first
  serverKey = serverKey
  sharedKey = sharedKey
  Missing = missing
  Users = {u1}
  Secrets = {first, n1, u1, a1, a2}
  Nodes = {n1}
  Passwords = {none, serverKey, sharedKey}
  NoPassword = none
  Settings <- MCSettings
  Tags = {vip}
  Admins = {a1, a2}
  Protocols <- MCProtocols
  Inbounds <- MCInbounds
  Bodies <- MCBodies
  Creations <- MCCreations
  EntryChoices <- MCEntryChoices
  NodeChoices <- MCNodeChoices
  StartViews <- MCStartViews
  MaxEvents <- MCMaxEvents
INVARIANTS TypeOK OfferMatchesNode SuspensionHolds
PROPERTIES AdmittedWasEntitled ChangesArrive
\* When the user and the node are deleted nothing is left to happen.
CHECK_DEADLOCK FALSE
