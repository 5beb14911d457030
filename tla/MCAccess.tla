----------------------------- MODULE MCAccess ------------------------------
(* An instance of Access for TLC: one node with shadowsocks behind          *)
(* shadowtls and one more protocol, which stands for trojan, vless,         *)
(* hysteria2 and tuic: the code treats them alike.                          *)
EXTENDS Access

CONSTANTS n1, vip, first, serverKey, sharedKey

MCProtocols == {"shadowsocks", "trojan"}

MCInbounds == [n \in Nodes |-> InboundTypes]

\* The default configuration; shadowtls 3 with an inbound password of the
\* shadowsocks behind it; and shadowtls 2 before a method without one.
SettingsOf(version, keyed, server) ==
  [version |-> version, keyed |-> keyed, server |-> server, shared |-> sharedKey]

MCDefaultSettings == SettingsOf(2, TRUE, NoPassword)
MCVersion3 == SettingsOf(3, TRUE, serverKey)
MCUnkeyed == SettingsOf(2, FALSE, NoPassword)

MCSettings == {MCDefaultSettings, MCVersion3, MCUnkeyed}

MCBodies ==
  {[status |-> "disabled"], [status |-> "active"],
   [mode |-> "explicit", allowed |-> {n1}], [mode |-> "tags", allowed |-> {}]}

\* New users by tag and by name, as far as their creation gets.
MCCreations ==
  {[status |-> "active", limit |-> 1, mode |-> "tags", tags |-> {vip}, allowed |-> {}],
   [status |-> "active", limit |-> 0, mode |-> "explicit", tags |-> {vip}, allowed |-> {n1}]}

EntriesOf(ss, trojan) ==
  [n \in Nodes |-> [p \in Protocols |-> IF p = "shadowsocks" THEN ss ELSE trojan]]

MCEntryChoices ==
  {EntriesOf("off", "none"), EntriesOf("on", "off")}

NodeRow(status, policy, settings) ==
  [life |-> "live", status |-> status, policy |-> policy, tag |-> vip, settings |-> settings]

MCNodeChoices ==
  {NodeRow("online", "open", MCDefaultSettings), NodeRow("disabled", "tag", MCDefaultSettings)}

\* On a node by tag: a user with the tag, one who has been allowed the node by
\* name, one with the tag and without credentials, and none so far; and a user
\* of a node that is still to be created; the second and the third with settings
\* that are not the default.
StartView(life, mode, allowed, secret, settings) ==
  [row |-> [u \in Users |-> [life |-> life, status |-> "active", limit |-> 1, used |-> 0,
                             mode |-> mode, secret |-> secret]],
   tags |-> [u \in Users |-> IF life = "live" THEN {vip} ELSE {}],
   allowed |-> [u \in Users |-> allowed],
   entries |-> [u \in Users |-> EntriesOf("none", "none")],
   node |-> [n \in Nodes |-> NodeRow("online", "tag", settings)]]

MCStartViews ==
  {StartView("live", "tags", {}, first, MCDefaultSettings),
   StartView("live", "explicit", {n1}, first, MCUnkeyed),
   StartView("live", "tags", {}, Missing, MCVersion3),
   StartView("new", "tags", {}, first, MCDefaultSettings),
   [StartView("live", "tags", {}, first, MCDefaultSettings) EXCEPT !.node[n1].life = "new"]}

\* Two events where the user is on the node by tag, from where a PATCH leads to
\* the user of one who is allowed it by name, and where one is to be created.
MCMaxEvents ==
  [view \in StartViews |->
     IF \A u \in Users : view.row[u].secret # Missing /\ view.row[u].mode = "tags" THEN 2 ELSE 1]
=============================================================================
