\* The same instance: a user all of whose entries are disabled.
SPECIFICATION Spec
CONSTANTS
  n1 = n1
  vip = vip
  first = first
  serverKey = serverKey
  sharedKey = sharedKey
  Missing = missing
  Users = {u1}
  Secrets = {first, n1, u1, a1, a2}
  Nodes = {n1}
  Passwords = {none, serverKey, sharedKey}
  NoPassword = none
  Settings <- MCSettings
  Tags = {vip}
  Admins = {a1, a2}
  Protocols <- MCProtocols
  Inbounds <- MCInbounds
  Bodies <- MCBodies
  Creations <- MCCreations
  EntryChoices <- MCEntryChoices
  NodeChoices <- MCNodeChoices
  StartViews <- MCStartViews
  MaxEvents <- MCMaxEvents
INVARIANT OfferedProfileWorks
\* When the user and the node are deleted nothing is left to happen.
CHECK_DEADLOCK FALSE
