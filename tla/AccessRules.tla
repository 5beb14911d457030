---------------------------- MODULE AccessRules ----------------------------
(***************************************************************************)
(* Who may use which node by which protocol: the pure functions of the     *)
(* panel that decide what a node admits (its desired configuration) and    *)
(* what a user is offered (the profiles of a subscription).  The two are   *)
(* separate code over the same tables.                                     *)
(*                                                                         *)
(* A view is what a request has read of the tables:                        *)
(*   row[u]      the row of users, credentials and quota included, and     *)
(*               whether there is one: "live", "new" before, "gone" after  *)
(*   tags[u]     the tags of the user, table user_tags                     *)
(*   allowed[u]  the nodes allowed by name, table user_node_access         *)
(*   entries[u]  table user_node_protocol_access: for each node and        *)
(*               protocol "on", "off", or "none" where there is no entry   *)
(*               (shadowtls has none: the panel lists it as shadowsocks)   *)
(*   node[n]     the row of nodes, live, new or gone as well, with the     *)
(*               settings its configuration gets by the override:          *)
(*     version   of shadowtls, 3 where none is given                       *)
(*     keyed     whether the method of shadowsocks is a 2022-blake3 one,   *)
(*               whose clients give the inbound's password before their own *)
(*     server    the password of the shadowsocks inbound, or none          *)
(*     shared    the password of the shadowtls inbound, or none            *)
(*                                                                         *)
(* The credentials of a user stand together as one secret.  An inbound is  *)
(* known by its type, is complete (it has a port and, for shadowsocks, a   *)
(* method) and is the only one of its type; the node has an address.       *)
(***************************************************************************)
EXTENDS Integers

CONSTANTS
  Users,     \* users of the panel
  Nodes,     \* nodes of the panel
  Tags,      \* tags that users can have and nodes can ask for
  Secrets,   \* credentials of a user
  Missing,   \* no credentials, or a legacy password that needs rotation
  Passwords, \* passwords of inbounds
  NoPassword,
  Protocols, \* protocols with profiles of their own, shadowsocks among them
  Inbounds,  \* the types of inbounds each node's merged configuration has
  Settings   \* settings that configurations can have

InboundTypes == Protocols \cup {"shadowtls"}

ASSUME RulesAssumption ==
  /\ Missing \notin Secrets
  /\ "shadowsocks" \in Protocols /\ "shadowtls" \notin Protocols
  /\ Inbounds \in [Nodes -> SUBSET InboundTypes]
  /\ NoPassword \in Passwords
  /\ Settings \subseteq [version: Nat, keyed: BOOLEAN, server: Passwords, shared: Passwords]

Rows == [life: {"new", "live", "gone"}, status: {"active", "disabled"}, limit: Nat, used: Nat,
         mode: {"tags", "explicit"}, secret: Secrets \cup {Missing}]
NodeRows == [life: {"new", "live", "gone"}, status: {"online", "disabled"},
             policy: {"open", "tag", "nobody"}, tag: Tags, settings: Settings]
Entries == [Nodes -> [Protocols -> {"none", "on", "off"}]]
Views == [row: [Users -> Rows], tags: [Users -> SUBSET Tags],
          allowed: [Users -> SUBSET Nodes], entries: [Users -> Entries],
          node: [Nodes -> NodeRows]]

\* The users and the nodes that are in their tables.
Listed(view) == {u \in Users : view.row[u].life = "live"}
ListedNodes(view) == {n \in Nodes : view.node[n].life = "live"}

isUserEligible(row) ==
  /\ row.status = "active"
  /\ row.limit <= 0 \/ row.used < row.limit

userCanAccessNode(view, u, n) ==
  /\ view.node[n].status # "disabled"
  /\ \/ view.row[u].mode = "explicit" /\ n \in view.allowed[u]
     \/ /\ view.row[u].mode # "explicit"
        /\ \/ view.node[n].policy = "open"
           \/ view.node[n].policy = "tag" /\ view.node[n].tag \in view.tags[u]

\* Broken variant: without an entry the protocol is disabled.
protocolNeedsEntry(entries, u, n, type) ==
  type \in Protocols => entries[u][n][type] = "on"

protocolEnabledForUser(entries, u, n, type) ==
  type \in Protocols => entries[u][n][type] # "off"

userHasAnyEnabledProtocol(entries, u, n) ==
  \/ \E p \in Protocols : entries[u][n][p] = "on"
  \/ \A p \in Protocols : entries[u][n][p] = "none"

\* A user in an inbound of a configuration of a node.
Login(view, u, n, type) ==
  [user |-> u, node |-> n, type |-> type, secret |-> view.row[u].secret,
   settings |-> view.node[n].settings]

ListEligibleUsersForNode(view, n) ==
  {u \in Listed(view) : /\ isUserEligible(view.row[u])
                        /\ userCanAccessNode(view, u, n)
                        /\ userHasAnyEnabledProtocol(view.entries, u, n)}

\* The inbounds that list users: below version 3 shadowtls keeps its password
\* and lists none.
ListsUsers(view, n) ==
  {type \in Inbounds[n] : type = "shadowtls" => view.node[n].settings.version >= 3}

\* The users of each inbound.  The entries were read once to list the users
\* and are read again to choose their inbounds.
resolveNodeRuntimeConfig(view, again, n) ==
  UNION {{Login(view, u, n, type) :
            type \in {t \in ListsUsers(view, n) : protocolEnabledForUser(again, u, n, t)}} :
           u \in ListEligibleUsersForNode(view, n)}

AccessibleNodesForUser(view, u) == {n \in ListedNodes(view) : userCanAccessNode(view, u, n)}

\* What a profile made of an inbound is called: shadowtls wraps shadowsocks.
ProfileProtocol(type) == IF type = "shadowtls" THEN "shadowsocks" ELSE type

buildNodeProfilesForUser(view, u, n) ==
  {type \in Inbounds[n] :
     /\ type = "shadowsocks" => "shadowtls" \notin Inbounds[n]
     /\ type = "shadowtls" => "shadowsocks" \in Inbounds[n]
     /\ view.entries[u][n][ProfileProtocol(type)] # "off"}

\* The password that goes before the user's in a profile, if any: behind a
\* shadowtls below version 3 it is the one of the shadowtls inbound.
serverPassword(settings, type) ==
  CASE ~settings.keyed \/ type \notin {"shadowsocks", "shadowtls"} -> NoPassword
    [] settings.keyed /\ type = "shadowtls" /\ settings.version < 3 -> settings.shared
    [] OTHER -> settings.server

\* A profile, and the password it has for shadowtls, if it goes by that.
Profile(view, u, n, type) ==
  LET settings == view.node[n].settings
      secret == view.row[u].secret
  IN [user |-> u, node |-> n, type |-> type, secret |-> secret,
      server |-> serverPassword(settings, type),
      front |-> CASE type # "shadowtls" -> NoPassword
                  [] type = "shadowtls" /\ settings.version <= 2 -> settings.shared
                  [] OTHER -> secret]

BuildSubscription(view, u) ==
  UNION {{Profile(view, u, n, type) : type \in buildNodeProfilesForUser(view, u, n)} :
           n \in {m \in AccessibleNodesForUser(view, u) : isUserEligible(view.row[u])}}

-----------------------------------------------------------------------------
(* Reference notions for the properties.                                    *)

\* What sing-box lets in, by the users and passwords of its inbounds: the client
\* of a profile at the user's login, with the password of a shadowsocks inbound
\* before the user's own if the method wants it.
LetsIn(login, profile) ==
  /\ login.user = profile.user /\ login.secret = profile.secret
  /\ profile.server = IF login.type = "shadowsocks" /\ login.settings.keyed
                      THEN login.settings.server ELSE NoPassword

\* A profile that goes by shadowtls gets past it, and then to shadowsocks.
Admits(logins, profile) ==
  \E login \in logins :
    /\ login.type = ProfileProtocol(profile.type) /\ LetsIn(login, profile)
    /\ profile.type = "shadowtls" =>
         IF login.settings.version < 3 THEN profile.front = login.settings.shared
         ELSE \E first \in logins : /\ first.type = "shadowtls"
                                    /\ first.user = profile.user /\ first.secret = profile.front

\* Profiles that go by a shadowtls below version 3 have its password before the
\* user's, where the shadowsocks inbound takes another one.
WrongPassword(settings) ==
  settings.keyed /\ settings.version < 3 /\ settings.shared # settings.server

\* Entries exist for the user on the node, and none of them is enabled.
OnlyDisabledEntries(entries, u, n) ==
  /\ \E p \in Protocols : entries[u][n][p] = "off"
  /\ \A p \in Protocols : entries[u][n][p] # "on"
=============================================================================
