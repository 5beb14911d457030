------------------------------- MODULE Access -------------------------------
(***************************************************************************)
(* Access of users to nodes while requests interleave.                     *)
(*                                                                         *)
(* A sync of a node and a subscription of a user each read the tables of   *)
(* AccessRules one statement after the other, outside any transaction, and *)
(* then answer with a configuration or with profiles.  On the way they     *)
(* give a user without credentials fresh ones.  A PATCH of a user reads    *)
(* all users the same way, writes the fields of the row, changed or not,   *)
(* and then the allowed nodes.  A POST inserts a user and then writes its  *)
(* tags and allowed nodes.  Tags, protocol access, nodes, usage and        *)
(* deletions are one transaction or statement each.  A statement may fail: *)
(* most failures fail the request; a failed read of tags or allowed nodes  *)
(* counts as none, and a failed write of them after that of the user, or   *)
(* of the node's status by a sync, is not reported.                        *)
(*                                                                         *)
(* An agent has one sync under way at a time and a user one subscription,  *)
(* so that the node or the user names it.  A PATCH changes the fields in   *)
(* the domain of its body; what it reads of tags and allowed nodes it does *)
(* not use, and those reads are left out.                                  *)
(***************************************************************************)
EXTENDS AccessRules

CONSTANTS
  Admins,        \* PATCH and POST requests that can be in progress at a time
  Bodies,        \* bodies of PATCH: records of some of the fields
  Creations,     \* bodies of POST
  EntryChoices,  \* protocol access the administrator may save
  NodeChoices,   \* rows of nodes the administrator may save
  StartViews,    \* tables to start from
  MaxEvents      \* bound: for each of StartViews, writes of access data and
                 \* statements that fail

ASSUME AccessAssumption ==
  /\ Users # {} /\ StartViews # {}
  /\ Nodes \cup Users \cup Admins \subseteq Secrets
  /\ Admins \cap Nodes = {} /\ Admins \cap Users = {} /\ Users \cap Nodes = {}
  /\ \A body \in Bodies :
       /\ "status" \in DOMAIN body => body["status"] \in {"active", "disabled"}
       /\ "limit" \in DOMAIN body => body["limit"] \in Nat
       /\ "mode" \in DOMAIN body => body["mode"] \in {"tags", "explicit"}
       /\ "allowed" \in DOMAIN body => body["allowed"] \subseteq Nodes
  /\ Creations \subseteq [status: {"active", "disabled"}, limit: Nat, mode: {"tags", "explicit"},
                          tags: SUBSET Tags, allowed: SUBSET Nodes]
  /\ EntryChoices \subseteq Entries
  /\ NodeChoices \subseteq NodeRows /\ \A row \in NodeChoices : row.life = "live"
  /\ StartViews \subseteq Views
  /\ MaxEvents \in [StartViews -> Nat]

VARIABLES
  db,        \* the tables, as a view
  req,       \* the requests in progress
  config,    \* the logins in the configuration each node was last sent
  fresh,     \* history: the users and nodes whose last answer has seen the
             \* tables as they are
  offer,     \* history: the profiles in such an answer to a user
  suspended, \* history: "yes" since the administrator suspended the user,
             \* "raced" if another PATCH of the user was due at that time
  events     \* writes and failures still to come

historyVars == <<fresh, offer, suspended>>
vars == <<db, req, config, historyVars, events>>

Requests == Nodes \cup Users \cup Admins

Blank == CHOOSE view \in StartViews : TRUE

SomeUser == CHOOSE u \in Users : TRUE

\* at is the user whose result is being completed, user whom a PATCH or POST is
\* for.
Idle == [pc |-> "idle", todo |-> {}, at |-> SomeUser, view |-> Blank,
         user |-> SomeUser, body |-> <<>>, clean |-> TRUE, writes |-> 0, entitled |-> {}]

\* The logins a node would admit if a sync read all tables at once.
Entitled(view, n) ==
  {<<login.user, login.type>> : login \in
     IF n \in ListedNodes(view) THEN resolveNodeRuntimeConfig(view, view.entries, n) ELSE {}}

Init ==
  /\ db \in StartViews
  /\ req = [r \in Requests |-> Idle]
  /\ config = [n \in Nodes |-> {}]
  /\ offer = [u \in Users |-> {}]
  /\ fresh = {}
  /\ suspended = [u \in Users |-> "no"]
  /\ events = MaxEvents[db]

-----------------------------------------------------------------------------
(* History: what a write means to the requests in progress.                 *)

Interrupted(request, r) ==
  IF request.pc = "idle" \/ r \in Admins THEN request
  ELSE IF r \in Users THEN [request EXCEPT !.clean = FALSE]
  ELSE [request EXCEPT !.clean = FALSE,
                       !.writes = IF @ < 2 THEN @ + 1 ELSE @,
                       !.entitled = @ \cup Entitled(db', r)]

\* No answer has seen the tables as they are now.
Stale == fresh' = {} /\ offer' = [u \in Users |-> {}]

\* After a write of access data, with the requests as the writer left them.
Wrote(requests) ==
  /\ req' = [r \in Requests |-> Interrupted(requests[r], r)]
  /\ Stale

Answered(who) ==
  fresh' = IF req[who].clean THEN fresh \cup {who} ELSE fresh \ {who}

\* The administrator or the usage writes, or a statement fails.
Event == events > 0 /\ events' = events - 1

NoEntries == [n \in Nodes |-> [p \in Protocols |-> "none"]]

\* The foreign keys of tags, allowed nodes and entries.
ReferencesExist(view) ==
  \A u \in Users :
    /\ u \notin Listed(view) =>
         view.tags[u] = {} /\ view.allowed[u] = {} /\ view.entries[u] = NoEntries
    /\ view.allowed[u] \subseteq ListedNodes(view)
    /\ \A n \in Nodes \ ListedNodes(view) : view.entries[u][n] = NoEntries[n]

-----------------------------------------------------------------------------
(* The steps that all requests have in common.                              *)

\* The requests when r is through with user u.
AfterUser(r, u) ==
  LET todo == req[r].todo \ {u}
      next == IF r \in Nodes THEN "entries" ELSE IF r \in Users THEN "profiles" ELSE "update"
  IN [req EXCEPT ![r].todo = todo, ![r].at = SomeUser,
                      ![r].pc = IF todo = {} THEN next ELSE "load"]

\* Broken variant: the row is written back as it was read.
ensureUserSecretsWholeRow(r, u) ==
  /\ req[r].pc = "load" /\ u \in req[r].todo
  /\ LET row == [req[r].view.row[u] EXCEPT !.secret = IF @ = Missing THEN r ELSE @]
     IN /\ db' = [db EXCEPT !.row[u] = row]
        /\ req' = [AfterUser(r, u) EXCEPT ![r].pc = IF r \in Nodes THEN "tags" ELSE @,
                                               ![r].at = u, ![r].view.row[u] = row]
  /\ UNCHANGED <<config, historyVars, events>>

\* A user in the result of a query gets the credentials it lacks.  Credentials
\* are known by the request that generated them: it does so once at most, for
\* the row has some from then on.  A row that is gone is not written.
ensureUserSecrets(r, u) ==
  /\ req[r].pc = "load" /\ u \in req[r].todo
  /\ LET next == IF r \in Nodes THEN [req EXCEPT ![r].pc = "tags", ![r].at = u]
                 ELSE AfterUser(r, u)
     IN \/ /\ req[r].view.row[u].secret # Missing
           /\ req' = next
           /\ UNCHANGED <<db, fresh, offer>>
        \/ /\ req[r].view.row[u].secret = Missing /\ u \notin Listed(db)
           /\ req' = [next EXCEPT ![r].view.row[u].secret = r]
           /\ UNCHANGED <<db, fresh, offer>>
        \/ /\ req[r].view.row[u].secret = Missing /\ u \in Listed(db)
           /\ db' = [db EXCEPT !.row[u].secret = r]
           /\ req' = [q \in Requests |->
                        IF q = r THEN [next[q] EXCEPT !.view.row[u].secret = r]
                        ELSE [req[q] EXCEPT !.clean = @ /\ (q \in Admins \/ req[q].pc = "idle")]]
           /\ Stale
  /\ UNCHANGED <<config, suspended, events>>

\* A read whose error is ignored: it got the value, or nothing.
ReadOrNone(value, got) ==
  \/ got = value /\ UNCHANGED events
  \/ got = {} /\ Event

ListUserTags(r) ==
  /\ req[r].pc = "tags"
  /\ LET u == req[r].at
     IN \E got \in {db.tags[u], {}} :
          /\ ReadOrNone(db.tags[u], got)
          /\ req' = [req EXCEPT ![r].pc = "allowed", ![r].view.tags[u] = got,
                                ![r].clean = @ /\ got = db.tags[u]]
  /\ UNCHANGED <<db, config, historyVars>>

ListUserAllowedNodes(r) ==
  /\ req[r].pc = "allowed"
  /\ LET u == req[r].at
     IN \E got \in {db.allowed[u], {}} :
          /\ ReadOrNone(db.allowed[u], got)
          /\ req' = [AfterUser(r, u) EXCEPT ![r].view.allowed[u] = got,
                                                 ![r].clean = @ /\ got = db.allowed[u]]
  /\ UNCHANGED <<db, config, historyVars>>

\* A write whose error is ignored: it is made, has no effect or is refused, or
\* fails.
WriteOrNot(r, view, after) ==
  LET done == [req EXCEPT ![r] = after] IN
  /\ \/ /\ view # db /\ ReferencesExist(view)
        /\ db' = view
        /\ Wrote(done)
        /\ UNCHANGED events
     \/ /\ view = db \/ ~ReferencesExist(view)
        /\ req' = done
        /\ UNCHANGED <<db, fresh, offer, events>>
     \/ /\ Event
        /\ req' = done
        /\ UNCHANGED <<db, fresh, offer>>
  /\ UNCHANGED <<config, suspended>>

\* A statement fails and the request with it.
Abort(r) ==
  /\ req[r].pc \notin {"idle", "touch", "tags", "allowed", "attach", "replace"}
  /\ Event
  /\ req' = [req EXCEPT ![r] = Idle]
  /\ UNCHANGED <<db, config, historyVars>>

-----------------------------------------------------------------------------
(* A sync: nodeAuth, the heartbeat, ListUsers, and the node's entries, twice. *)

\* Broken variant: a node that is disabled is refused.
StartSyncUnlessDisabled(n) ==
  /\ req[n].pc = "idle" /\ n \in ListedNodes(db) /\ db.node[n].status # "disabled"
  /\ req' = [req EXCEPT ![n] = [Idle EXCEPT !.pc = "touch", !.view.node = db.node,
                                            !.entitled = Entitled(db, n)]]
  /\ UNCHANGED <<db, config, historyVars, events>>

StartSync(n) ==
  /\ req[n].pc = "idle" /\ n \in ListedNodes(db)
  /\ req' = [req EXCEPT ![n] = [Idle EXCEPT !.pc = "touch", !.view.node = db.node,
                                            !.entitled = Entitled(db, n)]]
  /\ UNCHANGED <<db, config, historyVars, events>>

\* Whatever its status was, the node is online: not in what this sync has read.
TouchNodeHeartbeat(n) ==
  /\ req[n].pc = "touch"
  /\ WriteOrNot(n, [db EXCEPT !.node[n].status = IF n \in ListedNodes(db) THEN "online" ELSE @],
                [req[n] EXCEPT !.pc = "users"])

ListUsers(n) ==
  /\ req[n].pc = "users"
  /\ req' = [req EXCEPT ![n].pc = IF Listed(db) = {} THEN "entries" ELSE "load",
                        ![n].todo = Listed(db), ![n].view.row = db.row]
  /\ UNCHANGED <<db, config, historyVars, events>>

ListUserProtocolAccessByNode(n) ==
  /\ req[n].pc = "entries"
  /\ req' = [req EXCEPT ![n].pc = "resolve", ![n].view.entries = db.entries]
  /\ UNCHANGED <<db, config, historyVars, events>>

\* Broken variant: the error of the second read is ignored as well.
SyncAnswersOnError(n) ==
  /\ req[n].pc = "resolve"
  /\ \/ config' = [config EXCEPT ![n] = resolveNodeRuntimeConfig(req[n].view, db.entries, n)]
     \/ config' = [config EXCEPT ![n] = resolveNodeRuntimeConfig(req[n].view,
                     [u \in Users |-> [q \in Nodes |-> [p \in Protocols |-> "none"]]], n)]
  /\ Answered(n)
  /\ req' = [req EXCEPT ![n] = Idle]
  /\ UNCHANGED <<db, offer, suspended, events>>

SyncAnswers(n) ==
  /\ req[n].pc = "resolve"
  /\ config' = [config EXCEPT ![n] = resolveNodeRuntimeConfig(req[n].view, db.entries, n)]
  /\ Answered(n)
  /\ req' = [req EXCEPT ![n] = Idle]
  /\ UNCHANGED <<db, offer, suspended, events>>

-----------------------------------------------------------------------------
(* A subscription, or the profile page.  Only one that the tables did not    *)
(* change under is looked at, so that what it reads after the user's row is *)
(* read in one step.                                                        *)

StartSubscription(u) ==
  /\ req[u].pc = "idle" /\ u \in Listed(db)
  /\ req' = [req EXCEPT ![u] = [Idle EXCEPT !.pc = "load", !.todo = {u},
                                            !.view.row[u] = db.row[u]]]
  /\ UNCHANGED <<db, config, historyVars, events>>

SubscriptionAnswers(u) ==
  /\ req[u].pc = "profiles"
  /\ LET view == [db EXCEPT !.row = req[u].view.row]
     IN offer' = [offer EXCEPT ![u] = IF req[u].clean THEN BuildSubscription(view, u) ELSE {}]
  /\ Answered(u)
  /\ req' = [req EXCEPT ![u] = Idle]
  /\ UNCHANGED <<db, config, suspended, events>>

-----------------------------------------------------------------------------
(* A PATCH or a POST of a user.                                             *)

StartPatch(c, u, body) ==
  /\ req[c].pc = "idle"
  /\ Event
  /\ req' = [req EXCEPT ![c] = [Idle EXCEPT !.pc = IF Listed(db) = {} THEN "update" ELSE "load",
                                            !.todo = Listed(db), !.view.row = db.row,
                                            !.user = u, !.body = body]]
  /\ UNCHANGED <<db, config, historyVars>>

\* What UpdateUser makes of a row: fields of the body or as they were read.
Field(f, read, body) == IF f \in DOMAIN body THEN body[f] ELSE read[f]

Patched(row, read, body) ==
  [row EXCEPT !.status = Field("status", read, body),
              !.limit = Field("limit", read, body),
              !.mode = Field("mode", read, body)]

\* Another PATCH of the user has read the status and will write it back.
PatchDue(c, u) ==
  \E other \in Admins \ {c} :
    /\ req[other].pc \notin {"idle", "replace"}
    /\ req[other].user = u
    /\ "status" \notin DOMAIN req[other].body

\* The user was listed, and is still there to be updated.
Found(c) == req[c].user \in Listed(req[c].view) \cap Listed(db)

UserNotFound(c) ==
  /\ req[c].pc = "update" /\ ~Found(c)
  /\ req' = [req EXCEPT ![c] = Idle]
  /\ UNCHANGED <<db, config, historyVars, events>>

\* Broken variant: the nodes are replaced when the body has none, too.
UpdateUserAlwaysReplaces(c) ==
  /\ req[c].pc = "update" /\ Found(c)
  /\ LET u == req[c].user
         body == req[c].body
     IN /\ db' = [db EXCEPT !.row[u] = Patched(@, req[c].view.row[u], body)]
        /\ Wrote([req EXCEPT ![c].pc = "replace"])
        /\ suspended' = [suspended EXCEPT ![u] =
                           IF "status" \notin DOMAIN body THEN @
                           ELSE IF body["status"] = "active" THEN "no"
                           ELSE IF PatchDue(c, u) THEN "raced" ELSE "yes"]
  /\ UNCHANGED <<config, events>>

UpdateUser(c) ==
  /\ req[c].pc = "update" /\ Found(c)
  /\ LET u == req[c].user
         body == req[c].body
     IN /\ db' = [db EXCEPT !.row[u] = Patched(@, req[c].view.row[u], body)]
        /\ Wrote([req EXCEPT ![c] = IF "allowed" \in DOMAIN body
                                    THEN [@ EXCEPT !.pc = "replace"] ELSE Idle])
        /\ suspended' = [suspended EXCEPT ![u] =
                           IF "status" \notin DOMAIN body THEN @
                           ELSE IF body["status"] = "active" THEN "no"
                           ELSE IF PatchDue(c, u) THEN "raced" ELSE "yes"]
  /\ UNCHANGED <<config, events>>

ReplaceAllowedNodes(c) ==
  /\ req[c].pc = "replace"
  /\ WriteOrNot(c, [db EXCEPT !.allowed[req[c].user] = req[c].body["allowed"]], Idle)

\* A new user has all credentials.
NewRow(body, c) ==
  [life |-> "live", status |-> body["status"], limit |-> body["limit"], used |-> 0,
   mode |-> body["mode"], secret |-> c]

\* What a POST goes on with: tags and allowed nodes, if the body has any.
AfterTags(request) ==
  IF request.body["allowed"] # {} THEN [request EXCEPT !.pc = "replace"] ELSE Idle

AfterInsert(request) ==
  IF request.body["tags"] # {} THEN [request EXCEPT !.pc = "attach"] ELSE AfterTags(request)

CreateUser(c, u, body) ==
  /\ req[c].pc = "idle" /\ db.row[u].life = "new"
  /\ Event
  /\ db' = [db EXCEPT !.row[u] = NewRow(body, c)]
  /\ Wrote([req EXCEPT ![c] = AfterInsert([Idle EXCEPT !.user = u, !.body = body])])
  /\ UNCHANGED <<config, suspended>>

AttachNewTags(c) ==
  /\ req[c].pc = "attach"
  /\ WriteOrNot(c, [db EXCEPT !.tags[req[c].user] = req[c].body["tags"]], AfterTags(req[c]))

-----------------------------------------------------------------------------
(* Writes of one transaction or statement.                                  *)

Write(view) ==
  /\ Event
  /\ view # db /\ ReferencesExist(view)
  /\ db' = view
  /\ Wrote(req)
  /\ UNCHANGED <<config, suspended>>

AttachTagsToUser(u, tags) == Write([db EXCEPT !.tags[u] = tags])

ReplaceUserProtocolAccess(u, entries) == Write([db EXCEPT !.entries[u] = entries])

SaveUsage(u) == u \in Listed(db) /\ Write([db EXCEPT !.row[u].used = @ + 1])

\* The foreign keys take what refers to the user along.
DeleteUser(u) ==
  /\ u \in Listed(db)
  /\ Write([db EXCEPT !.row[u].life = "gone", !.tags[u] = {}, !.allowed[u] = {},
                      !.entries[u] = NoEntries])

CreateNode(n, row) == db.node[n].life = "new" /\ Write([db EXCEPT !.node[n] = row])

UpdateNode(n, row) ==
  /\ n \in ListedNodes(db)
  /\ Write([db EXCEPT !.node[n] = [row EXCEPT !.settings = db.node[n].settings]])

UpdateNodeConfig(n, settings) ==
  n \in ListedNodes(db) /\ Write([db EXCEPT !.node[n].settings = settings])

DeleteNode(n) ==
  /\ n \in ListedNodes(db)
  /\ Write([db EXCEPT !.node[n].life = "gone",
                      !.allowed = [u \in Users |-> @[u] \ {n}],
                      !.entries = [u \in Users |-> [@[u] EXCEPT ![n] = NoEntries[n]]]])

-----------------------------------------------------------------------------
SyncStep(n) ==
  \/ StartSync(n)
  \/ TouchNodeHeartbeat(n)
  \/ ListUsers(n)
  \/ \E u \in Users : ensureUserSecrets(n, u)
  \/ ListUserTags(n)
  \/ ListUserAllowedNodes(n)
  \/ ListUserProtocolAccessByNode(n)
  \/ SyncAnswers(n)

SubscriptionStep(u) ==
  \/ StartSubscription(u)
  \/ ensureUserSecrets(u, u)
  \/ SubscriptionAnswers(u)

AdminStep(c) ==
  \/ \E u \in Users, body \in Bodies : StartPatch(c, u, body)
  \/ \E u \in Users : ensureUserSecrets(c, u)
  \/ UpdateUser(c) \/ UserNotFound(c)
  \/ \E u \in Users, body \in Creations : CreateUser(c, u, body)
  \/ AttachNewTags(c)
  \/ ReplaceAllowedNodes(c)

WriteStep ==
  \/ \E u \in Users, tags \in SUBSET Tags : AttachTagsToUser(u, tags)
  \/ \E u \in Users, entries \in EntryChoices : ReplaceUserProtocolAccess(u, entries)
  \/ \E n \in Nodes, row \in NodeChoices : CreateNode(n, row) \/ UpdateNode(n, row)
  \/ \E n \in Nodes, settings \in Settings : UpdateNodeConfig(n, settings)
  \/ \E n \in Nodes : DeleteNode(n)
  \/ \E u \in Users : SaveUsage(u) \/ DeleteUser(u)

Next ==
  \/ \E n \in Nodes : SyncStep(n)
  \/ \E u \in Users : SubscriptionStep(u)
  \/ \E c \in Admins : AdminStep(c)
  \/ \E r \in Requests : Abort(r)
  \/ WriteStep

Spec == Init /\ [][Next]_vars

\* The agent's ticker starts a sync again and again, and the server runs it.
FairSpec == Spec /\ \A n \in Nodes : WF_vars(SyncStep(n))

-----------------------------------------------------------------------------
(* Properties.                                                              *)

RequestStates ==
  [pc : {"idle", "touch", "users", "load", "tags", "allowed", "entries", "resolve", "profiles",
         "update", "attach", "replace"},
   todo : SUBSET Users, at : Users, view : Views, user : Users,
   body : Bodies \cup Creations \cup {<<>>}, clean : BOOLEAN, writes : 0..2,
   entitled : SUBSET (Users \X InboundTypes)]

Logins ==
  [user : Users, node : Nodes, type : InboundTypes, secret : Secrets, settings : Settings]

Profiles ==
  [user : Users, node : Nodes, type : InboundTypes, secret : Secrets, server : Passwords,
   front : Passwords \cup Secrets]

\* Every variable has its type; a request that will write the allowed nodes
\* was given some (ReplaceAllowedNodes is called with a body that has them).
TypeOK ==
  /\ db \in Views
  /\ req \in [Requests -> RequestStates]
  /\ \A r \in Requests : req[r].pc = "replace" => "allowed" \in DOMAIN req[r].body
  /\ config \in [Nodes -> SUBSET Logins]
  /\ offer \in [Users -> SUBSET Profiles]
  /\ fresh \subseteq Users \cup Nodes
  /\ suspended \in [Users -> {"no", "yes", "raced"}]
  /\ events \in Nat

\* A configuration made while at most one write hit the sync admits nobody to
\* an inbound who was not entitled to it at some moment of the sync, unless
\* that write fell between the two reads of the entries, or deleted the user or
\* the node: the entries that keep a user off go before the sync forgets either.
\* Two writes can mix an old row with new tags and admit a user whom no state
\* of the tables does.
AdmittedWasEntitled ==
  [][\A n \in Nodes :
       (SyncAnswers(n) /\ req[n].writes <= 1) =>
         \/ \A login \in config'[n] : \/ <<login.user, login.type>> \in req[n].entitled
                                       \/ login.user \notin Listed(db)
         \/ n \notin ListedNodes(db)
         \/ req[n].view.entries # db.entries]_vars

\* With the tables at rest, a client with a profile that a user is offered is let
\* in by the node, passwords included, and whatever inbound lists the user is
\* offered, but for the cases the code treats differently:
\*  - a user all of whose entries are disabled is off the node and still offered
\*    the protocols without an entry;
\*  - behind a shadowtls below version 3, which the default configuration has,
\*    the profile gives the password of the shadowtls inbound to shadowsocks;
\*  - shadowsocks behind shadowtls is offered as shadowtls only, and not without
\*    a shadowsocks inbound or with shadowsocks disabled, while a shadowtls
\*    inbound that lists users lists the user.
OfferMatchesNode ==
  \A u \in fresh \cap Users, n \in fresh \cap Nodes :
    LET offered == {profile \in offer[u] : profile.node = n}
        admitted == {login \in config[n] : login.user = u}
    IN /\ \A profile \in offered :
            \/ Admits(admitted, profile)
            \/ OnlyDisabledEntries(db.entries, u, n)
            \/ profile.type = "shadowtls" /\ WrongPassword(db.node[n].settings)
       /\ \A login \in admitted :
            \/ \E profile \in offered : profile.type = login.type /\ profile.secret = login.secret
            \/ login.type = "shadowsocks" /\ "shadowtls" \in Inbounds[n]
            \/ /\ login.type = "shadowtls"
               /\ \/ "shadowsocks" \notin Inbounds[n]
                  \/ db.entries[u][n]["shadowsocks"] = "off"

\* A suspension that met no other PATCH of the user stays in force until the
\* administrator lifts it, whatever else is patched meanwhile (UpdateUser
\* writes back a status that may have been read long before).
SuspensionHolds ==
  \A u \in Users : suspended[u] = "yes" => db.row[u].status = "disabled"

\* A user whose subscription has ended for good, deleted, suspended or out of
\* traffic, is in the end off every node that is not deleted itself; and a user
\* who is to have an inbound of a node, be one or the other new, is on it in the
\* end, with the credentials in the table.  What was read half-way, lost or
\* failed before does not matter.
ChangesArrive ==
  \A u \in Users, n \in Nodes :
    /\ <>[](n \in ListedNodes(db) /\ ~(u \in Listed(db) /\ isUserEligible(db.row[u]))) =>
         <>[](\A login \in config[n] : login.user # u)
    /\ \A type \in Inbounds[n] :
         <>[](<<u, type>> \in Entitled(db, n)) => <>[](Login(db, u, n, type) \in config[n])

\* A user who is offered a profile is in the inbound of the node it leads to: an
\* access protocol without an entry counts as enabled.
OfferedProfileWorks ==
  \A u \in fresh \cap Users, n \in fresh \cap Nodes :
    \A profile \in offer[u] : profile.node = n =>
      \E login \in config[n] : login.user = u /\ login.type = ProfileProtocol(profile.type)
=============================================================================
