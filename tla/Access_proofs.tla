--------------------------- MODULE Access_proofs ---------------------------
(***************************************************************************)
(* Proofs about AccessRules and Access.                                    *)
(***************************************************************************)
EXTENDS Access, TLAPS

-----------------------------------------------------------------------------
(* The rules, on one view of the tables.                                    *)

\* A client with a profile that a subscription offers (buildNodeProfilesForUser)
\* is let in by the user's logins on the node (resolveNodeRuntimeConfig), with
\* every password the two compose, unless entries exist and none is enabled, or
\* the profile goes by a shadowtls below version 3 whose password stands for that
\* of shadowsocks.
THEOREM OfferedIsAdmitted ==
  ASSUME NEW view \in Views, NEW u \in Listed(view), NEW n \in Nodes,
         NEW profile \in BuildSubscription(view, u), profile.node = n,
         ~ OnlyDisabledEntries(view.entries, u, n),
         profile.type = "shadowtls" => ~ WrongPassword(view.node[n].settings)
  PROVE  Admits({login \in resolveNodeRuntimeConfig(view, view.entries, n) : login.user = u},
                profile)
<1> DEFINE logins == {login \in resolveNodeRuntimeConfig(view, view.entries, n) : login.user = u}
           settings == view.node[n].settings
<1>0. PICK m \in AccessibleNodesForUser(view, u) :
        /\ isUserEligible(view.row[u])
        /\ \E type \in buildNodeProfilesForUser(view, u, m) : profile = Profile(view, u, m, type)
  BY DEF BuildSubscription
<1>1. PICK type \in buildNodeProfilesForUser(view, u, m) : profile = Profile(view, u, m, type)
  BY <1>0
<1>2. /\ m = n /\ profile.type = type /\ profile.user = u /\ profile.secret = view.row[u].secret
      /\ profile.server = serverPassword(settings, type)
      /\ type = "shadowtls" =>
           profile.front = IF settings.version <= 2 THEN settings.shared ELSE view.row[u].secret
  <2>1. m = n
    BY <1>1 DEF Profile
  <2> QED BY <1>1, <2>1 DEF Profile
<1>3. n \in AccessibleNodesForUser(view, u) /\ type \in buildNodeProfilesForUser(view, u, n)
  BY <1>0, <1>1, <1>2
<1>4. \A p \in Protocols : view.entries[u][n][p] \in {"none", "on", "off"}
  BY DEF Views, Entries, Listed
<1>5. userHasAnyEnabledProtocol(view.entries, u, n)
  BY <1>4 DEF userHasAnyEnabledProtocol, OnlyDisabledEntries
<1>6. u \in ListEligibleUsersForNode(view, n)
  BY <1>0, <1>3, <1>5 DEF ListEligibleUsersForNode, AccessibleNodesForUser
<1>7. ASSUME NEW t \in ListsUsers(view, n), protocolEnabledForUser(view.entries, u, n, t)
      PROVE  /\ Login(view, u, n, t) \in logins
             /\ Login(view, u, n, t).user = u /\ Login(view, u, n, t).type = t
             /\ Login(view, u, n, t).secret = view.row[u].secret
             /\ Login(view, u, n, t).settings = settings
  BY <1>6, <1>7 DEF resolveNodeRuntimeConfig, Login
<1>8. settings.version \in Nat /\ settings.keyed \in BOOLEAN
  BY RulesAssumption DEF Views, NodeRows
<1> HIDE DEF logins, settings
<1>9. CASE type = "shadowtls"
  <2>1. /\ "shadowtls" \in Inbounds[n] /\ "shadowsocks" \in Inbounds[n]
        /\ view.entries[u][n]["shadowsocks"] # "off"
    BY <1>3, <1>9 DEF buildNodeProfilesForUser, ProfileProtocol
  <2> DEFINE second == Login(view, u, n, "shadowsocks")
             first == Login(view, u, n, "shadowtls")
  <2>2. /\ second \in logins /\ second.user = u /\ second.type = "shadowsocks"
        /\ second.secret = view.row[u].secret /\ second.settings = settings
    BY <1>7, <2>1 DEF protocolEnabledForUser, ListsUsers
  <2>3. settings.version >= 3 =>
          first \in logins /\ first.type = "shadowtls" /\ first.user = u
          /\ first.secret = view.row[u].secret
    BY <1>7, <2>1, RulesAssumption DEF protocolEnabledForUser, ListsUsers, settings
  <2> HIDE DEF second, first
  <2>4. serverPassword(settings, type) = IF settings.keyed THEN settings.server ELSE NoPassword
    BY <1>2, <1>8, <1>9 DEF serverPassword, WrongPassword, settings
  <2>5. LetsIn(second, profile)
    BY <1>2, <2>2, <2>4 DEF LetsIn
  <2>6. IF settings.version < 3 THEN profile.front = settings.shared
        ELSE first \in logins /\ first.type = "shadowtls"
             /\ first.user = profile.user /\ first.secret = profile.front
    BY <1>2, <1>8, <1>9, <2>3
  <2>7. Admits(logins, profile)
    BY <1>2, <1>9, <2>2, <2>5, <2>6 DEF Admits, ProfileProtocol
  <2> QED BY <2>7 DEF logins
<1>10. CASE type # "shadowtls"
  <2>1. type \in Inbounds[n] /\ view.entries[u][n][type] # "off"
    BY <1>3, <1>10 DEF buildNodeProfilesForUser, ProfileProtocol
  <2> DEFINE second == Login(view, u, n, type)
  <2>2. /\ second \in logins /\ second.user = u /\ second.type = type
        /\ second.secret = view.row[u].secret /\ second.settings = settings
    BY <1>7, <1>10, <2>1 DEF protocolEnabledForUser, ListsUsers
  <2> HIDE DEF second
  <2>3. serverPassword(settings, type) =
          IF type = "shadowsocks" /\ settings.keyed THEN settings.server ELSE NoPassword
    BY <1>8, <1>10 DEF serverPassword
  <2>4. Admits(logins, profile)
    BY <1>2, <1>10, <2>2, <2>3 DEF Admits, ProfileProtocol, LetsIn
  <2> QED BY <2>4 DEF logins
<1> QED BY <1>9, <1>10

\* A user whom an inbound of a listed node lists is offered a profile by it, with
\* the same credentials, but for shadowsocks itself behind shadowtls, and
\* shadowtls without a shadowsocks inbound or with shadowsocks disabled.
THEOREM AdmittedIsOffered ==
  ASSUME NEW view \in Views, NEW n \in ListedNodes(view),
         NEW login \in resolveNodeRuntimeConfig(view, view.entries, n),
         login.type = "shadowsocks" => "shadowtls" \notin Inbounds[n],
         login.type = "shadowtls" =>
           /\ "shadowsocks" \in Inbounds[n]
           /\ view.entries[login.user][n]["shadowsocks"] # "off"
  PROVE  \E profile \in BuildSubscription(view, login.user) :
           profile.node = n /\ profile.type = login.type /\ profile.secret = login.secret
<1>1. PICK u \in ListEligibleUsersForNode(view, n) : \E type \in ListsUsers(view, n) :
        /\ protocolEnabledForUser(view.entries, u, n, type)
        /\ login = Login(view, u, n, type)
  BY DEF resolveNodeRuntimeConfig
<1>2. PICK type \in ListsUsers(view, n) :
        /\ protocolEnabledForUser(view.entries, u, n, type)
        /\ login = Login(view, u, n, type)
  BY <1>1
<1>3. login.type = type /\ login.user = u /\ login.secret = view.row[u].secret
  BY <1>2 DEF Login
<1>4. type \in Inbounds[n] /\ type \in InboundTypes
  BY <1>2, RulesAssumption DEF ListedNodes, ListsUsers
<1>5. type \in buildNodeProfilesForUser(view, u, n)
  BY <1>2, <1>3, <1>4
     DEF buildNodeProfilesForUser, ProfileProtocol, protocolEnabledForUser, InboundTypes
<1>6. n \in AccessibleNodesForUser(view, u) /\ isUserEligible(view.row[u])
  BY <1>1 DEF ListEligibleUsersForNode, AccessibleNodesForUser
<1> DEFINE profile == Profile(view, u, n, type)
<1>7. profile \in BuildSubscription(view, u)
  BY <1>5, <1>6 DEF BuildSubscription
<1>8. profile.node = n /\ profile.type = type /\ profile.secret = view.row[u].secret
  BY DEF Profile
<1> QED BY <1>3, <1>7, <1>8

-----------------------------------------------------------------------------
(* Type correctness.                                                        *)

\* The users whose credentials a request has seen to.
Through(request) ==
  {u \in Users :
     \/ request.pc \in {"load", "tags", "allowed"} /\ u \notin request.todo
     \/ request.pc \in {"tags", "allowed"} /\ u = request.at
     \/ request.pc \in {"entries", "resolve", "profiles"}}

\* What holds of request r between its steps: it takes the steps of its kind,
\* users it is through with have credentials in what it read, and a PATCH or
\* POST has a body, with allowed nodes if it is about to replace them.
Formed(request, r) ==
  /\ request.pc = "replace" => "allowed" \in DOMAIN request.body
  /\ r \in Nodes =>
       /\ request.pc \in {"idle", "touch", "users", "load", "tags", "allowed", "entries", "resolve"}
       /\ \A u \in Through(request) \cap Listed(request.view) : request.view.row[u].secret \in Secrets
  /\ r \in Users =>
       /\ request.pc \in {"idle", "load", "profiles"}
       /\ r \in Through(request) => request.view.row[r].secret \in Secrets
  /\ r \in Admins =>
       /\ request.pc \in {"idle", "load", "update", "attach", "replace"}
       /\ request.pc \in {"load", "update"} => request.body \in Bodies
       /\ request.pc = "attach" => request.body \in Creations
       /\ request.pc = "replace" => request.body \in Bodies \cup Creations

RequestsFormed ==
  /\ req \in [Requests -> RequestStates]
  /\ \A r \in Requests : Formed(req[r], r)

OthersTyped ==
  /\ db \in Views
  /\ config \in [Nodes -> SUBSET Logins]
  /\ offer \in [Users -> SUBSET Profiles]
  /\ fresh \subseteq Users \cup Nodes
  /\ suspended \in [Users -> {"no", "yes", "raced"}]
  /\ events \in Nat

AccessInv == RequestsFormed /\ OthersTyped

LEMMA InvType == AccessInv => TypeOK
BY DEF AccessInv, RequestsFormed, OthersTyped, Formed, TypeOK

LEMMA EntitledType ==
  ASSUME NEW view, NEW n \in Nodes
  PROVE  Entitled(view, n) \subseteq Users \X InboundTypes
<1> SUFFICES ASSUME NEW login \in resolveNodeRuntimeConfig(view, view.entries, n)
             PROVE  <<login.user, login.type>> \in Users \X InboundTypes
  BY DEF Entitled
<1>1. PICK u \in Users, type \in Inbounds[n] : login = Login(view, u, n, type)
  BY DEF resolveNodeRuntimeConfig, ListEligibleUsersForNode, Listed, ListsUsers
<1> QED BY <1>1, RulesAssumption DEF Login

LEMMA IdleType == Idle \in RequestStates
<1>1. SomeUser \in Users
  BY AccessAssumption DEF SomeUser
<1>2. Blank \in Views
  BY AccessAssumption DEF Blank
<1> QED BY <1>1, <1>2 DEF Idle, RequestStates

LEMMA InterruptedType ==
  ASSUME NEW r \in Requests, NEW request \in RequestStates
  PROVE  /\ Interrupted(request, r) \in RequestStates
         /\ Interrupted(request, r).pc = request.pc
         /\ Interrupted(request, r).todo = request.todo
         /\ Interrupted(request, r).at = request.at
         /\ Interrupted(request, r).view = request.view
         /\ Interrupted(request, r).user = request.user
         /\ Interrupted(request, r).body = request.body
<1>1. r \in Nodes => Entitled(db', r) \subseteq Users \X InboundTypes
  BY EntitledType
<1>2. CASE request.pc = "idle" \/ r \in Admins
  BY <1>2 DEF Interrupted
<1>3. CASE ~ (request.pc = "idle" \/ r \in Admins) /\ r \in Users
  BY <1>3 DEF Interrupted, RequestStates
<1>4. CASE ~ (request.pc = "idle" \/ r \in Admins) /\ r \notin Users
  <2>1. r \in Nodes
    BY <1>4 DEF Requests
  <2>2. (IF request.writes < 2 THEN request.writes + 1 ELSE request.writes) \in 0..2
    BY DEF RequestStates
  <2>3. request.entitled \cup Entitled(db', r) \in SUBSET (Users \X InboundTypes)
    BY <1>1, <2>1 DEF RequestStates
  <2> HIDE DEF Entitled
  <2> QED BY <1>4, <2>2, <2>3 DEF Interrupted, RequestStates
<1> QED BY <1>2, <1>3, <1>4

LEMMA IdleFormed == \A r \in Requests : Formed(Idle, r)
<1>1. Idle.pc = "idle"
  BY DEF Idle
<1> QED BY <1>1 DEF Formed, Through

LEMMA InitInv == Init => AccessInv
<1> SUFFICES ASSUME Init PROVE AccessInv
  OBVIOUS
<1>1. db \in Views /\ events \in Nat
  BY AccessAssumption DEF Init
<1>2. req \in [Requests -> RequestStates] /\ \A r \in Requests : req[r] = Idle
  BY IdleType DEF Init
<1> QED BY <1>1, <1>2, IdleFormed DEF Init, AccessInv, RequestsFormed, OthersTyped

\* A step of one request.
LEMMA OneRequest ==
  ASSUME RequestsFormed,
         NEW r \in Requests, NEW request \in RequestStates, Formed(request, r),
         req' = [req EXCEPT ![r] = request]
  PROVE  RequestsFormed'
BY DEF RequestsFormed, Formed, Through

\* A write of access data by one of the requests.
LEMMA OneWrite ==
  ASSUME NEW requests \in [Requests -> RequestStates],
         \A r \in Requests : Formed(requests[r], r), Wrote(requests)
  PROVE  RequestsFormed' /\ fresh' = {} /\ offer' = [u \in Users |-> {}]
<1>1. req' \in [Requests -> RequestStates]
  BY InterruptedType DEF Wrote
<1>2. ASSUME NEW r \in Requests PROVE Formed(req'[r], r)
  <2>1. /\ req'[r].pc = requests[r].pc /\ req'[r].todo = requests[r].todo
        /\ req'[r].at = requests[r].at /\ req'[r].view = requests[r].view
        /\ req'[r].body = requests[r].body
    BY InterruptedType DEF Wrote
  <2> QED BY <2>1 DEF Formed, Through
<1> QED BY <1>1, <1>2 DEF RequestsFormed, Formed, Through, Wrote, Stale

\* The tables keep their types when one field is replaced.
LEMMA ViewUpdates ==
  ASSUME NEW view \in Views, NEW u \in Users
  PROVE  /\ \A rows \in [Users -> Rows] : [view EXCEPT !.row = rows] \in Views
         /\ \A row \in Rows : [view EXCEPT !.row[u] = row] \in Views
         /\ \A secret \in Secrets : [view EXCEPT !.row[u].secret = secret] \in Views
         /\ \A tags \in SUBSET Tags : [view EXCEPT !.tags[u] = tags] \in Views
         /\ \A nodes \in SUBSET Nodes : [view EXCEPT !.allowed[u] = nodes] \in Views
         /\ \A e \in [Users -> Entries] : [view EXCEPT !.entries = e] \in Views
         /\ \A e \in Entries : [view EXCEPT !.entries[u] = e] \in Views
         /\ \A nodes \in [Nodes -> NodeRows] : [view EXCEPT !.node = nodes] \in Views
         /\ \A n \in Nodes, row \in NodeRows : [view EXCEPT !.node[n] = row] \in Views
         /\ [view EXCEPT !.row[u].used = @ + 1] \in Views
<1>1. view.row[u] \in Rows
  BY DEF Views
<1>2. \A secret \in Secrets : [view.row[u] EXCEPT !.secret = secret] \in Rows
  BY <1>1 DEF Rows
<1>3. [view.row[u] EXCEPT !.used = @ + 1] \in Rows
  BY <1>1 DEF Rows
<1> HIDE DEF Rows, NodeRows, Entries
<1> QED BY <1>1, <1>2, <1>3 DEF Views

\* The request when it is through with its user.
LEMMA AfterUserFormed ==
  ASSUME AccessInv, NEW r \in Requests, NEW u \in Users, NEW view \in Views, NEW clean \in BOOLEAN,
         \/ req[r].pc = "load" /\ u \in req[r].todo
         \/ req[r].pc = "allowed" /\ u = req[r].at,
         r \in Users => r = u,
         (r \in Nodes /\ u \notin Listed(view)) \/ view.row[u].secret \in Secrets,
         \A v \in Users : view.row[v] = req[r].view.row[v] \/ view.row[v].secret \in Secrets
  PROVE  /\ [AfterUser(r, u)[r] EXCEPT !.view = view, !.clean = clean] \in RequestStates
         /\ Formed([AfterUser(r, u)[r] EXCEPT !.view = view, !.clean = clean], r)
<1> DEFINE todo == req[r].todo \ {u}
           next == IF r \in Nodes THEN "entries" ELSE IF r \in Users THEN "profiles" ELSE "update"
           done == [req[r] EXCEPT !.todo = todo, !.at = SomeUser,
                                  !.pc = IF todo = {} THEN next ELSE "load"]
           request == [done EXCEPT !.view = view, !.clean = clean]
<1>1. req[r] \in RequestStates /\ Formed(req[r], r)
  BY DEF AccessInv, RequestsFormed
<1>2. SomeUser \in Users
  BY AccessAssumption DEF SomeUser
<1>3. AfterUser(r, u)[r] = done
  BY DEF AfterUser, AccessInv, RequestsFormed
<1>4. request \in RequestStates
  BY <1>1, <1>2 DEF RequestStates
<1>5. /\ request.pc = (IF todo = {} THEN next ELSE "load")
      /\ request.todo = todo /\ request.view = view /\ request.body = req[r].body
  BY <1>1 DEF RequestStates
<1>6. todo \subseteq Users
  BY <1>1 DEF RequestStates
<1> SUFFICES Formed(request, r)
  BY <1>3, <1>4
<1> HIDE DEF request, done
<1>7. CASE r \in Nodes
  <2>1. r \notin Users /\ r \notin Admins
    BY <1>7, AccessAssumption
  <2>2. ASSUME NEW v \in Through(request) PROVE v = u \/ v \in Through(req[r])
    BY <1>5, <1>7 DEF Through
  <2>3. \A v \in Through(request) \cap Listed(view) : view.row[v].secret \in Secrets
    BY <1>1, <1>7, <2>2 DEF Formed, Through, Listed
  <2>4. request.pc \in {"load", "entries"}
    BY <1>5, <1>7
  <2> QED BY <1>5, <2>1, <2>3, <2>4 DEF Formed
<1>8. CASE r \in Users
  <2>1. r \notin Nodes /\ r \notin Admins
    BY <1>8, AccessAssumption
  <2>2. request.pc \in {"load", "profiles"}
    BY <1>5, <1>8, <2>1
  <2> QED BY <1>5, <1>8, <2>1, <2>2 DEF Formed
<1>9. CASE r \in Admins
  <2>1. r \notin Nodes /\ r \notin Users
    BY <1>9, AccessAssumption
  <2>2. request.pc \in {"load", "update"}
    BY <1>5, <2>1
  <2>3. req[r].pc # "idle"
    OBVIOUS
  <2> QED BY <1>1, <1>5, <1>9, <2>1, <2>2, <2>3 DEF Formed
<1> QED BY <1>7, <1>8, <1>9 DEF Requests

\* What requests answer.
LEMMA LoginTypes ==
  ASSUME NEW view \in Views
  PROVE  /\ \A again : \A n \in Nodes :
              (\A u \in Listed(view) : view.row[u].secret \in Secrets)
                => resolveNodeRuntimeConfig(view, again, n) \in SUBSET Logins
         /\ \A u \in Users :
              view.row[u].secret \in Secrets => BuildSubscription(view, u) \in SUBSET Profiles
<1>1. ASSUME NEW n \in Nodes
      PROVE  /\ view.node[n].settings \in Settings
             /\ view.node[n].settings.server \in Passwords
             /\ view.node[n].settings.shared \in Passwords
  BY RulesAssumption DEF Views, NodeRows
<1>2. ASSUME NEW n \in Nodes, NEW u \in Users, NEW type \in Inbounds[n],
             view.row[u].secret \in Secrets
      PROVE  Login(view, u, n, type) \in Logins /\ Profile(view, u, n, type) \in Profiles
  <2>1. type \in InboundTypes
    BY RulesAssumption
  <2>2. serverPassword(view.node[n].settings, type) \in Passwords
    BY <1>1, RulesAssumption DEF serverPassword
  <2>3. Profile(view, u, n, type).front \in Passwords \cup Secrets
    BY <1>1, <1>2, RulesAssumption DEF Profile
  <2>4. Login(view, u, n, type) \in Logins
    BY <1>1, <1>2, <2>1 DEF Login, Logins
  <2>5. Profile(view, u, n, type) \in Profiles
    BY <1>2, <2>1, <2>2, <2>3 DEF Profile, Profiles
  <2> QED BY <2>4, <2>5
<1>3. ASSUME NEW again, NEW n \in Nodes, \A u \in Listed(view) : view.row[u].secret \in Secrets,
             NEW login \in resolveNodeRuntimeConfig(view, again, n)
      PROVE  login \in Logins
  <2>1. PICK u \in Listed(view), type \in Inbounds[n] : login = Login(view, u, n, type)
    BY DEF resolveNodeRuntimeConfig, ListEligibleUsersForNode, ListsUsers
  <2> QED BY <1>2, <1>3, <2>1 DEF Listed
<1>4. ASSUME NEW u \in Users, view.row[u].secret \in Secrets,
             NEW profile \in BuildSubscription(view, u)
      PROVE  profile \in Profiles
  <2>1. PICK n \in Nodes : \E type \in Inbounds[n] : profile = Profile(view, u, n, type)
    BY DEF BuildSubscription, AccessibleNodesForUser, ListedNodes, buildNodeProfilesForUser
  <2> QED BY <1>2, <1>4, <2>1
<1> QED BY <1>3, <1>4

-----------------------------------------------------------------------------
(* The steps, one lemma for each.                                           *)

LEMMA StartSyncInv ==
  ASSUME AccessInv, NEW n \in Nodes, StartSync(n) PROVE AccessInv'
<1> DEFINE request == [Idle EXCEPT !.pc = "touch", !.view.node = db.node,
                                   !.entitled = Entitled(db, n)]
<1>1. OthersTyped'
  BY DEF AccessInv, OthersTyped, StartSync, historyVars
<1>2. n \in Requests /\ n \notin Users /\ n \notin Admins
  BY AccessAssumption DEF Requests
<1>3. [Idle.view EXCEPT !.node = db.node] \in Views
  BY IdleType DEF RequestStates, AccessInv, OthersTyped, Views
<1>4. request \in RequestStates
  BY <1>3, IdleType, EntitledType DEF RequestStates
<1>5. request.pc = "touch"
  BY IdleType DEF RequestStates
<1>6. Formed(request, n)
  BY <1>2, <1>5 DEF Formed, Through
<1>7. req' = [req EXCEPT ![n] = request]
  BY DEF StartSync
<1> HIDE DEF request
<1>8. RequestsFormed'
  BY <1>2, <1>4, <1>6, <1>7, OneRequest DEF AccessInv
<1> QED BY <1>1, <1>8 DEF AccessInv

LEMMA ListUsersInv ==
  ASSUME AccessInv, NEW n \in Nodes, ListUsers(n) PROVE AccessInv'
<1> DEFINE request == [req[n] EXCEPT !.pc = IF Listed(db) = {} THEN "entries" ELSE "load",
                                     !.todo = Listed(db), !.view.row = db.row]
<1>1. OthersTyped'
  BY DEF AccessInv, OthersTyped, ListUsers, historyVars
<1>2. n \in Requests /\ n \notin Users /\ n \notin Admins
  BY AccessAssumption DEF Requests
<1>3. req[n] \in RequestStates
  BY <1>2 DEF AccessInv, RequestsFormed
<1>4. [req[n].view EXCEPT !.row = db.row] \in Views
  BY <1>3 DEF RequestStates, AccessInv, OthersTyped, Views
<1>5. request \in RequestStates
  BY <1>3, <1>4 DEF RequestStates, Listed
<1>6. /\ request.pc \in {"entries", "load"}
      /\ request.pc = "entries" => Listed(db) = {}
      /\ request.todo = Listed(db) /\ Listed(request.view) = Listed(db)
  BY <1>3, <1>4 DEF RequestStates, Listed, Views
<1>7. Formed(request, n)
  <2> HIDE DEF request
  <2> QED BY <1>2, <1>6 DEF Formed, Through
<1>8. req' = [req EXCEPT ![n] = request]
  BY <1>2 DEF ListUsers, AccessInv, RequestsFormed
<1> HIDE DEF request
<1>9. RequestsFormed'
  BY <1>2, <1>5, <1>7, <1>8, OneRequest DEF AccessInv
<1> QED BY <1>1, <1>9 DEF AccessInv

LEMMA ListUserTagsInv ==
  ASSUME AccessInv, NEW n \in Nodes, ListUserTags(n) PROVE AccessInv'
<1> DEFINE u == req[n].at
<1>0. PICK got \in {db.tags[u], {}} :
        /\ ReadOrNone(db.tags[u], got)
        /\ req' = [req EXCEPT ![n].pc = "allowed", ![n].view.tags[u] = got,
                              ![n].clean = @ /\ got = db.tags[u]]
  BY DEF ListUserTags
<1> DEFINE request == [req[n] EXCEPT !.pc = "allowed", !.view.tags[u] = got,
                                     !.clean = @ /\ got = db.tags[u]]
<1>1. OthersTyped'
  BY <1>0 DEF AccessInv, OthersTyped, ListUserTags, historyVars, ReadOrNone, Event
<1>2. n \in Requests /\ n \notin Users /\ n \notin Admins
  BY AccessAssumption DEF Requests
<1>3. req[n] \in RequestStates /\ Formed(req[n], n) /\ req[n].pc = "tags"
  BY <1>2 DEF AccessInv, RequestsFormed, ListUserTags
<1>4. u \in Users /\ req[n].view \in Views /\ got \in SUBSET Tags
  BY <1>3 DEF RequestStates, AccessInv, OthersTyped, Views
<1>5. /\ [req[n].view EXCEPT !.tags[u] = got] \in Views
      /\ [req[n].view EXCEPT !.tags[u] = got].row = req[n].view.row
  BY <1>4, ViewUpdates DEF Views
<1>6. request \in RequestStates
  BY <1>3, <1>5 DEF RequestStates
<1>7. /\ request.pc = "allowed" /\ request.todo = req[n].todo /\ request.at = u
      /\ request.view.row = req[n].view.row
  BY <1>3, <1>5 DEF RequestStates
<1>8. req' = [req EXCEPT ![n] = request]
  BY <1>0, <1>2 DEF AccessInv, RequestsFormed
<1> HIDE DEF request
<1>9. Formed(request, n)
  BY <1>2, <1>3, <1>7 DEF Formed, Through, Listed
<1>10. RequestsFormed'
  BY <1>2, <1>6, <1>8, <1>9, OneRequest DEF AccessInv
<1> QED BY <1>1, <1>10 DEF AccessInv

LEMMA ListUserAllowedNodesInv ==
  ASSUME AccessInv, NEW n \in Nodes, ListUserAllowedNodes(n) PROVE AccessInv'
<1> DEFINE u == req[n].at
<1>0. PICK got \in {db.allowed[u], {}} :
        /\ ReadOrNone(db.allowed[u], got)
        /\ req' = [AfterUser(n, u) EXCEPT ![n].view.allowed[u] = got,
                                           ![n].clean = @ /\ got = db.allowed[u]]
  BY DEF ListUserAllowedNodes
<1> DEFINE view == [req[n].view EXCEPT !.allowed[u] = got]
           clean == req[n].clean /\ got = db.allowed[u]
           request == [AfterUser(n, u)[n] EXCEPT !.view = view, !.clean = clean]
<1>1. OthersTyped'
  BY <1>0 DEF AccessInv, OthersTyped, ListUserAllowedNodes, historyVars, ReadOrNone, Event
<1>2. n \in Requests /\ n \notin Users /\ n \notin Admins
  BY AccessAssumption DEF Requests
<1>3. req[n] \in RequestStates /\ Formed(req[n], n) /\ req[n].pc = "allowed"
  BY <1>2 DEF AccessInv, RequestsFormed, ListUserAllowedNodes
<1>4. u \in Users /\ req[n].view \in Views /\ got \in SUBSET Nodes /\ clean \in BOOLEAN
  BY <1>3 DEF RequestStates, AccessInv, OthersTyped, Views
<1>5. view \in Views /\ view.row = req[n].view.row
  BY <1>4, ViewUpdates DEF Views
<1>6. u \in Listed(view) => view.row[u].secret \in Secrets
  BY <1>3, <1>4, <1>5 DEF Formed, Through, Listed
<1>7. /\ AfterUser(n, u)[n].view = req[n].view /\ AfterUser(n, u)[n].clean = req[n].clean
      /\ \A r \in Requests \ {n} : AfterUser(n, u)[r] = req[r]
      /\ AfterUser(n, u) = [req EXCEPT ![n] = AfterUser(n, u)[n]]
  BY <1>2, <1>3 DEF AfterUser, AccessInv, RequestsFormed, RequestStates
<1>8. req' = [req EXCEPT ![n] = request]
  BY <1>0, <1>2, <1>3, <1>7 DEF AccessInv, RequestsFormed
<1>9. request \in RequestStates /\ Formed(request, n)
  <2> HIDE DEF view, clean
  <2> QED BY <1>2, <1>3, <1>4, <1>5, <1>6, AfterUserFormed
<1> HIDE DEF request
<1>10. RequestsFormed'
  BY <1>2, <1>8, <1>9, OneRequest DEF AccessInv
<1> QED BY <1>1, <1>10 DEF AccessInv

LEMMA ListUserProtocolAccessByNodeInv ==
  ASSUME AccessInv, NEW n \in Nodes, ListUserProtocolAccessByNode(n) PROVE AccessInv'
<1> DEFINE request == [req[n] EXCEPT !.pc = "resolve", !.view.entries = db.entries]
<1>1. OthersTyped'
  BY DEF AccessInv, OthersTyped, ListUserProtocolAccessByNode, historyVars
<1>2. n \in Requests /\ n \notin Users /\ n \notin Admins
  BY AccessAssumption DEF Requests
<1>3. req[n] \in RequestStates /\ Formed(req[n], n) /\ req[n].pc = "entries"
  BY <1>2 DEF AccessInv, RequestsFormed, ListUserProtocolAccessByNode
<1>4. /\ [req[n].view EXCEPT !.entries = db.entries] \in Views
      /\ [req[n].view EXCEPT !.entries = db.entries].row = req[n].view.row
  BY <1>3 DEF RequestStates, AccessInv, OthersTyped, Views
<1>5. request \in RequestStates
  BY <1>3, <1>4 DEF RequestStates
<1>6. request.pc = "resolve" /\ request.view.row = req[n].view.row
  BY <1>3, <1>4 DEF RequestStates
<1>7. req' = [req EXCEPT ![n] = request]
  BY <1>2 DEF ListUserProtocolAccessByNode, AccessInv, RequestsFormed
<1> HIDE DEF request
<1>8. Formed(request, n)
  BY <1>2, <1>3, <1>6 DEF Formed, Through, Listed
<1>9. RequestsFormed'
  BY <1>2, <1>5, <1>7, <1>8, OneRequest DEF AccessInv
<1> QED BY <1>1, <1>9 DEF AccessInv

LEMMA SyncAnswersInv ==
  ASSUME AccessInv, NEW n \in Nodes, SyncAnswers(n) PROVE AccessInv'
<1>1. n \in Requests /\ n \notin Users /\ n \notin Admins
  BY AccessAssumption DEF Requests
<1>2. req[n] \in RequestStates /\ Formed(req[n], n) /\ req[n].pc = "resolve"
  BY <1>1 DEF AccessInv, RequestsFormed, SyncAnswers
<1>3. req[n].view \in Views /\ \A u \in Listed(req[n].view) : req[n].view.row[u].secret \in Secrets
  BY <1>2 DEF RequestStates, Formed, Through, Listed
<1>4. resolveNodeRuntimeConfig(req[n].view, db.entries, n) \in SUBSET Logins
  BY <1>3, LoginTypes
<1>5. OthersTyped'
  BY <1>4 DEF AccessInv, OthersTyped, SyncAnswers, Answered
<1>6. RequestsFormed'
  BY <1>1, IdleType, IdleFormed, OneRequest DEF AccessInv, SyncAnswers
<1> QED BY <1>5, <1>6 DEF AccessInv

LEMMA AbortInv ==
  ASSUME AccessInv, NEW r \in Requests, Abort(r) PROVE AccessInv'
<1>1. OthersTyped'
  BY DEF AccessInv, OthersTyped, Abort, Event, historyVars
<1>2. RequestsFormed'
  BY IdleType, IdleFormed, OneRequest DEF AccessInv, Abort
<1> QED BY <1>1, <1>2 DEF AccessInv

LEMMA ensureUserSecretsInv ==
  ASSUME AccessInv, NEW r \in Requests, NEW u \in Users, r \in Users => r = u,
         ensureUserSecrets(r, u)
  PROVE  AccessInv'
<1>1. req[r] \in RequestStates /\ Formed(req[r], r)
  BY DEF AccessInv, RequestsFormed
<1>2. req[r].pc = "load" /\ u \in req[r].todo /\ req[r].view \in Views /\ req[r].clean \in BOOLEAN
  BY <1>1 DEF ensureUserSecrets, RequestStates
<1> DEFINE given == IF req[r].view.row[u].secret = Missing THEN r ELSE req[r].view.row[u].secret
           view == [req[r].view EXCEPT !.row[u].secret = given]
           base == IF r \in Nodes THEN [req[r] EXCEPT !.pc = "tags", !.at = u]
                   ELSE AfterUser(r, u)[r]
           request == [base EXCEPT !.view = view, !.clean = req[r].clean]
<1>3. given \in Secrets
  BY <1>2, AccessAssumption DEF Views, Rows, Requests
<1>4. view \in Views /\ view.row[u].secret = given
  <2> HIDE DEF given
  <2>1. view \in Views
    BY <1>2, <1>3, ViewUpdates
  <2>2. view.row[u].secret = given
    BY <1>2 DEF Views, Rows
  <2> QED BY <2>1, <2>2
<1>5. \A v \in Users \ {u} : view.row[v] = req[r].view.row[v]
  BY <1>2 DEF Views
<1>6. base.view = req[r].view /\ base.clean = req[r].clean
  BY <1>1 DEF AfterUser, RequestStates, AccessInv, RequestsFormed
<1>7. request \in RequestStates /\ Formed(request, r)
  <2>1. CASE r \in Nodes
    <3> HIDE DEF view
    <3>1. request \in RequestStates
      BY <1>1, <1>4, <2>1 DEF RequestStates
    <3>2. /\ request.pc = "tags" /\ request.at = u /\ request.todo = req[r].todo
          /\ request.view = view
      BY <1>1, <2>1 DEF RequestStates
    <3>3. r \notin Users /\ r \notin Admins
      BY <2>1, AccessAssumption
    <3> HIDE DEF request
    <3> QED BY <1>1, <1>2, <1>3, <1>4, <1>5, <2>1, <3>1, <3>2, <3>3 DEF Formed, Through, Listed
  <2>2. CASE r \notin Nodes
    <3> HIDE DEF view, given
    <3> QED BY <1>2, <1>3, <1>4, <1>5, <2>2, AfterUserFormed
  <2> QED BY <2>1, <2>2
<1>8. CASE req[r].view.row[u].secret # Missing
  <2>1. view = req[r].view
    <3> DEFINE old == req[r].view
    <3>1. given = old.row[u].secret /\ old \in Views
      BY <1>2, <1>8
    <3> HIDE DEF old, given
    <3>2. old.row[u] = [old.row[u] EXCEPT !.secret = given]
      <4>1. old.row[u] \in Rows
        BY <3>1 DEF Views
      <4> QED BY <3>1, <4>1 DEF Rows
    <3>3. old.row = [old.row EXCEPT ![u] = old.row[u]]
      BY <3>1 DEF Views
    <3>4. old = [old EXCEPT !.row = old.row]
      BY <3>1 DEF Views
    <3>5. old = [old EXCEPT !.row[u].secret = given]
      BY <3>2, <3>3, <3>4
    <3> QED BY <3>5 DEF old
  <2>2. request = base
    BY <1>1, <1>6, <2>1 DEF RequestStates, AfterUser, AccessInv, RequestsFormed
  <2>3. req' = [req EXCEPT ![r] = base]
    BY <1>8 DEF ensureUserSecrets, AfterUser, AccessInv, RequestsFormed
  <2>4. RequestsFormed'
    <3> HIDE DEF request, base
    <3> QED BY <1>7, <2>2, <2>3, OneRequest DEF AccessInv
  <2>5. OthersTyped'
    BY <1>8 DEF AccessInv, OthersTyped, ensureUserSecrets
  <2> QED BY <2>4, <2>5 DEF AccessInv
<1>9. CASE req[r].view.row[u].secret = Missing /\ u \notin Listed(db)
  <2>1. view = [base.view EXCEPT !.row[u].secret = r] /\ base.clean = req[r].clean
    BY <1>6, <1>9
  <2>2. req' = [req EXCEPT ![r] = [base EXCEPT !.view.row[u].secret = r]]
    <3> DEFINE next == IF r \in Nodes THEN [req EXCEPT ![r].pc = "tags", ![r].at = u]
                       ELSE AfterUser(r, u)
    <3>1. req' = [next EXCEPT ![r].view.row[u].secret = r]
      BY <1>9 DEF ensureUserSecrets
    <3>2. next = [req EXCEPT ![r] = base] /\ r \in DOMAIN req
      BY DEF AfterUser, AccessInv, RequestsFormed
    <3> HIDE DEF next, base
    <3> QED BY <3>1, <3>2
  <2>3. [base EXCEPT !.view.row[u].secret = r] = request
    <3>1. base = [base EXCEPT !.clean = base.clean]
      BY <1>1, <1>6 DEF RequestStates, AfterUser, AccessInv, RequestsFormed
    <3> HIDE DEF base, view
    <3> QED BY <2>1, <3>1
  <2>4. RequestsFormed'
    <3> HIDE DEF request, base
    <3> QED BY <1>7, <2>2, <2>3, OneRequest DEF AccessInv
  <2>5. OthersTyped'
    BY <1>9 DEF AccessInv, OthersTyped, ensureUserSecrets
  <2> QED BY <2>4, <2>5 DEF AccessInv
<1>10. CASE req[r].view.row[u].secret = Missing /\ u \in Listed(db)
  <2>1. req' \in [Requests -> RequestStates] /\ req'[r] = request
    <3>1. \A q \in Requests \ {r} :
            req'[q] = [req[q] EXCEPT !.clean = @ /\ (q \in Admins \/ req[q].pc = "idle")]
      BY <1>10 DEF ensureUserSecrets
    <3>2. ASSUME NEW q \in Requests \ {r} PROVE req'[q] \in RequestStates
      <4> DEFINE clean == req[q].clean /\ (q \in Admins \/ req[q].pc = "idle")
      <4>1. clean \in BOOLEAN
        OBVIOUS
      <4>2. req'[q] = [req[q] EXCEPT !.clean = clean]
        BY <3>1
      <4> HIDE DEF clean
      <4> QED BY <4>1, <4>2 DEF RequestStates, AccessInv, RequestsFormed
    <3>3. req'[r] = [base EXCEPT !.view.row[u].secret = r]
      BY <1>10 DEF ensureUserSecrets, AccessInv, RequestsFormed
    <3>4. req'[r] = request
      <4>1. view = [base.view EXCEPT !.row[u].secret = r]
        BY <1>6, <1>10
      <4>2. base.clean = req[r].clean /\ base = [base EXCEPT !.clean = base.clean]
        BY <1>1, <1>6 DEF RequestStates, AfterUser, AccessInv, RequestsFormed
      <4> HIDE DEF base, view
      <4> QED BY <3>3, <4>1, <4>2
    <3>5. DOMAIN req' = Requests /\ req' = [q \in Requests |-> req'[q]]
      BY <1>10 DEF ensureUserSecrets
    <3> HIDE DEF request
    <3> QED BY <1>7, <3>2, <3>4, <3>5
  <2>2. ASSUME NEW q \in Requests \ {r} PROVE Formed(req'[q], q)
    <3>1. req'[q] = [req[q] EXCEPT !.clean = @ /\ (q \in Admins \/ req[q].pc = "idle")]
      BY <1>10 DEF ensureUserSecrets
    <3>2. /\ req'[q].pc = req[q].pc /\ req'[q].todo = req[q].todo /\ req'[q].at = req[q].at
          /\ req'[q].view = req[q].view /\ req'[q].body = req[q].body
      BY <3>1 DEF AccessInv, RequestsFormed, RequestStates
    <3> QED BY <3>2 DEF AccessInv, RequestsFormed, Formed, Through
  <2>3. RequestsFormed'
    <3> HIDE DEF request
    <3>1. \A q \in Requests : Formed(req'[q], q)
      BY <1>7, <2>1, <2>2
    <3> QED BY <2>1, <3>1 DEF RequestsFormed, Formed, Through
  <2>4. db' \in Views
    <3>1. db' = [db EXCEPT !.row[u].secret = r]
      BY <1>10 DEF ensureUserSecrets
    <3>2. r \in Secrets
      BY AccessAssumption DEF Requests
    <3> QED BY <3>1, <3>2, ViewUpdates DEF AccessInv, OthersTyped
  <2>5. OthersTyped'
    BY <1>10, <2>4 DEF AccessInv, OthersTyped, ensureUserSecrets, Stale
  <2> QED BY <2>3, <2>5 DEF AccessInv
<1> QED BY <1>8, <1>9, <1>10

LEMMA StartSubscriptionInv ==
  ASSUME AccessInv, NEW u \in Users, StartSubscription(u) PROVE AccessInv'
<1> DEFINE request == [Idle EXCEPT !.pc = "load", !.todo = {u}, !.view.row[u] = db.row[u]]
<1>1. OthersTyped'
  BY DEF AccessInv, OthersTyped, StartSubscription, historyVars
<1>2. u \in Requests /\ u \notin Nodes /\ u \notin Admins
  BY AccessAssumption DEF Requests
<1>3. [Idle.view EXCEPT !.row[u] = db.row[u]] \in Views
  <2>1. Idle.view \in Views /\ db.row[u] \in Rows
    BY IdleType DEF RequestStates, AccessInv, OthersTyped, Views
  <2> QED BY <2>1, ViewUpdates
<1>4. request \in RequestStates
  BY <1>3, IdleType DEF RequestStates
<1>5. request.pc = "load" /\ request.todo = {u}
  BY IdleType DEF RequestStates
<1>6. req' = [req EXCEPT ![u] = request]
  BY DEF StartSubscription
<1> HIDE DEF request
<1>7. Formed(request, u)
  BY <1>2, <1>5 DEF Formed, Through
<1>8. RequestsFormed'
  BY <1>2, <1>4, <1>6, <1>7, OneRequest DEF AccessInv
<1> QED BY <1>1, <1>8 DEF AccessInv

LEMMA SubscriptionAnswersInv ==
  ASSUME AccessInv, NEW u \in Users, SubscriptionAnswers(u) PROVE AccessInv'
<1> DEFINE view == [db EXCEPT !.row = req[u].view.row]
<1>1. u \in Requests /\ u \notin Nodes /\ u \notin Admins
  BY AccessAssumption DEF Requests
<1>2. req[u] \in RequestStates /\ Formed(req[u], u) /\ req[u].pc = "profiles"
  BY <1>1 DEF AccessInv, RequestsFormed, SubscriptionAnswers
<1>3. req[u].view \in Views /\ req[u].view.row[u].secret \in Secrets
  BY <1>2 DEF RequestStates, Formed, Through
<1>4. view \in Views /\ view.row = req[u].view.row
  BY <1>3 DEF Views, AccessInv, OthersTyped
<1>5. BuildSubscription(view, u) \in SUBSET Profiles
  <2> HIDE DEF view
  <2> QED BY <1>3, <1>4, LoginTypes
<1>6. offer' = [offer EXCEPT ![u] = IF req[u].clean THEN BuildSubscription(view, u) ELSE {}]
  BY DEF SubscriptionAnswers
<1> HIDE DEF view
<1>7. OthersTyped'
  BY <1>5, <1>6 DEF AccessInv, OthersTyped, SubscriptionAnswers, Answered
<1>8. RequestsFormed'
  BY <1>1, IdleType, IdleFormed, OneRequest DEF AccessInv, SubscriptionAnswers
<1> QED BY <1>7, <1>8 DEF AccessInv

LEMMA StartPatchInv ==
  ASSUME AccessInv, NEW c \in Admins, NEW u \in Users, NEW body \in Bodies, StartPatch(c, u, body)
  PROVE  AccessInv'
<1> DEFINE request == [Idle EXCEPT !.pc = IF Listed(db) = {} THEN "update" ELSE "load",
                                   !.todo = Listed(db), !.view.row = db.row,
                                   !.user = u, !.body = body]
<1>1. OthersTyped'
  BY DEF AccessInv, OthersTyped, StartPatch, Event, historyVars
<1>2. c \in Requests /\ c \notin Nodes /\ c \notin Users
  BY AccessAssumption DEF Requests
<1>3. [Idle.view EXCEPT !.row = db.row] \in Views
  BY IdleType DEF RequestStates, AccessInv, OthersTyped, Views
<1>4. request \in RequestStates
  BY <1>3, IdleType DEF RequestStates, Listed
<1>5. request.pc \in {"load", "update"} /\ request.body = body
  BY IdleType DEF RequestStates
<1>6. req' = [req EXCEPT ![c] = request]
  BY DEF StartPatch
<1> HIDE DEF request
<1>7. Formed(request, c)
  BY <1>2, <1>5 DEF Formed
<1>8. RequestsFormed'
  BY <1>2, <1>4, <1>6, <1>7, OneRequest DEF AccessInv
<1> QED BY <1>1, <1>8 DEF AccessInv

LEMMA PatchedType ==
  ASSUME NEW row \in Rows, NEW read \in Rows, NEW body \in Bodies
  PROVE  /\ Patched(row, read, body) \in Rows
         /\ Patched(row, read, body).status = Field("status", read, body)
         /\ Patched(row, read, body).life = row.life
<1>1. Field("status", read, body) \in {"active", "disabled"}
  BY AccessAssumption DEF Field, Rows
<1>2. Field("limit", read, body) \in Nat
  BY AccessAssumption DEF Field, Rows
<1>3. Field("mode", read, body) \in {"tags", "explicit"}
  BY AccessAssumption DEF Field, Rows
<1> QED BY <1>1, <1>2, <1>3 DEF Patched, Rows

\* What UpdateUser starts from and leaves.
LEMMA UpdateUserEffect ==
  ASSUME AccessInv, NEW c \in Admins, UpdateUser(c)
  PROVE  LET u == req[c].user
             body == req[c].body
         IN /\ u \in Users /\ body \in Bodies /\ db.row[u] \in Rows
            /\ req[c].view.row[u] \in Rows
            /\ db' = [db EXCEPT !.row[u] = Patched(db.row[u], req[c].view.row[u], body)]
            /\ db' \in Views
<1> DEFINE u == req[c].user
           body == req[c].body
           row == Patched(db.row[u], req[c].view.row[u], body)
<1>1. c \in Requests
  BY DEF Requests
<1>2. req[c] \in RequestStates /\ body \in Bodies
  BY <1>1 DEF AccessInv, RequestsFormed, UpdateUser, Formed
<1>3. u \in Users /\ db.row[u] \in Rows /\ req[c].view.row[u] \in Rows
  BY <1>2 DEF RequestStates, Views, AccessInv, OthersTyped
<1>4. row \in Rows
  BY <1>2, <1>3, PatchedType
<1>5. db' = [db EXCEPT !.row[u] = row]
  BY DEF UpdateUser
<1>6. db' \in Views
  <2> HIDE DEF row
  <2> QED BY <1>3, <1>4, <1>5, ViewUpdates DEF AccessInv, OthersTyped
<1> QED BY <1>2, <1>3, <1>5, <1>6

LEMMA UpdateUserInv ==
  ASSUME AccessInv, NEW c \in Admins, UpdateUser(c) PROVE AccessInv'
<1> DEFINE body == req[c].body
           request == IF "allowed" \in DOMAIN body THEN [req[c] EXCEPT !.pc = "replace"] ELSE Idle
           requests == [req EXCEPT ![c] = request]
<1>1. c \in Requests /\ c \notin Nodes /\ c \notin Users
  BY AccessAssumption DEF Requests
<1>2. req[c] \in RequestStates /\ body \in Bodies
  BY <1>1, UpdateUserEffect DEF AccessInv, RequestsFormed
<1>3. request \in RequestStates
  BY <1>2, IdleType DEF RequestStates
<1>4. Formed(request, c)
  <2>1. CASE "allowed" \in DOMAIN body
    <3>1. request.pc = "replace" /\ request.body = body
      BY <1>2, <2>1 DEF RequestStates
    <3> QED BY <1>1, <1>2, <2>1, <3>1 DEF Formed
  <2>2. CASE "allowed" \notin DOMAIN body
    BY <1>1, <2>2, IdleFormed
  <2> QED BY <2>1, <2>2
<1>5. Wrote(requests)
  BY <1>1 DEF UpdateUser, AccessInv, RequestsFormed
<1> HIDE DEF request
<1>6. requests \in [Requests -> RequestStates] /\ \A r \in Requests : Formed(requests[r], r)
  BY <1>1, <1>3, <1>4 DEF AccessInv, RequestsFormed
<1> HIDE DEF requests
<1>7. RequestsFormed' /\ fresh' = {} /\ offer' = [v \in Users |-> {}]
  BY <1>5, <1>6, OneWrite
<1>8. suspended' \in [Users -> {"no", "yes", "raced"}]
  BY UpdateUserEffect DEF UpdateUser, AccessInv, OthersTyped
<1>9. db' \in Views
  BY UpdateUserEffect
<1>10. OthersTyped'
  BY <1>7, <1>8, <1>9 DEF AccessInv, OthersTyped, UpdateUser
<1> QED BY <1>7, <1>10 DEF AccessInv

LEMMA UserNotFoundInv ==
  ASSUME AccessInv, NEW c \in Admins, UserNotFound(c) PROVE AccessInv'
<1>1. OthersTyped'
  BY DEF AccessInv, OthersTyped, UserNotFound, historyVars
<1>2. RequestsFormed'
  BY IdleType, IdleFormed, OneRequest DEF AccessInv, UserNotFound, Requests
<1> QED BY <1>1, <1>2 DEF AccessInv

LEMMA WriteOrNotInv ==
  ASSUME AccessInv, NEW r \in Requests, NEW view \in Views, NEW after \in RequestStates,
         Formed(after, r), WriteOrNot(r, view, after)
  PROVE  AccessInv'
<1> DEFINE done == [req EXCEPT ![r] = after]
<1>1. done \in [Requests -> RequestStates] /\ \A q \in Requests : Formed(done[q], q)
  BY DEF AccessInv, RequestsFormed
<1>2. CASE Wrote(done) /\ db' = view /\ UNCHANGED events
  <2> HIDE DEF done
  <2>1. RequestsFormed' /\ fresh' = {} /\ offer' = [v \in Users |-> {}]
    BY <1>1, <1>2, OneWrite
  <2>2. OthersTyped'
    BY <1>2, <2>1 DEF AccessInv, OthersTyped, WriteOrNot
  <2> QED BY <2>1, <2>2 DEF AccessInv
<1>3. CASE req' = done /\ UNCHANGED <<db, fresh, offer>> /\ (Event \/ UNCHANGED events)
  <2>1. OthersTyped'
    BY <1>3 DEF AccessInv, OthersTyped, WriteOrNot, Event
  <2>2. RequestsFormed'
    BY <1>3, OneRequest DEF AccessInv
  <2> QED BY <2>1, <2>2 DEF AccessInv
<1> QED BY <1>2, <1>3 DEF WriteOrNot

LEMMA TouchNodeHeartbeatInv ==
  ASSUME AccessInv, NEW n \in Nodes, TouchNodeHeartbeat(n) PROVE AccessInv'
<1> DEFINE row == [db.node[n] EXCEPT !.status = IF n \in ListedNodes(db) THEN "online" ELSE @]
           view == [db EXCEPT !.node[n] = row]
           after == [req[n] EXCEPT !.pc = "users"]
<1>1. n \in Requests /\ n \notin Users /\ n \notin Admins
  BY AccessAssumption DEF Requests
<1>2. db \in Views /\ db.node[n] \in NodeRows /\ SomeUser \in Users
  BY AccessAssumption DEF AccessInv, OthersTyped, Views, SomeUser
<1>3. row \in NodeRows
  BY <1>2 DEF NodeRows
<1>4. view \in Views
  <2> HIDE DEF row
  <2> QED BY <1>2, <1>3, ViewUpdates
<1>5. after \in RequestStates /\ after.pc = "users"
  BY <1>1 DEF AccessInv, RequestsFormed, RequestStates
<1>6. Formed(after, n)
  <2> HIDE DEF after
  <2> QED BY <1>1, <1>5 DEF Formed, Through
<1>7. WriteOrNot(n, view, after)
  BY <1>1 DEF TouchNodeHeartbeat
<1> HIDE DEF view, after
<1> QED BY <1>1, <1>4, <1>5, <1>6, <1>7, WriteOrNotInv

\* A POST once the user, or the tags, have been written.
LEMMA AfterTagsFormed ==
  ASSUME NEW c \in Admins, NEW request \in RequestStates, request.body \in Creations
  PROVE  /\ AfterTags(request) \in RequestStates /\ Formed(AfterTags(request), c)
         /\ AfterInsert(request) \in RequestStates /\ Formed(AfterInsert(request), c)
<1>1. c \in Requests /\ c \notin Nodes /\ c \notin Users
  BY AccessAssumption DEF Requests
<1>2. "allowed" \in DOMAIN request.body
  BY AccessAssumption
<1>3. AfterTags(request) \in RequestStates /\ Formed(AfterTags(request), c)
  <2>1. CASE request.body["allowed"] = {}
    BY <1>1, <2>1, IdleType, IdleFormed DEF AfterTags
  <2>2. CASE request.body["allowed"] # {}
    <3> DEFINE after == [request EXCEPT !.pc = "replace"]
    <3>1. after \in RequestStates /\ after.pc = "replace" /\ after.body = request.body
      BY DEF RequestStates
    <3>2. AfterTags(request) = after
      BY <2>2 DEF AfterTags
    <3> HIDE DEF after
    <3> QED BY <1>1, <1>2, <3>1, <3>2 DEF Formed
  <2> QED BY <2>1, <2>2
<1>4. CASE request.body["tags"] # {}
  <2> DEFINE after == [request EXCEPT !.pc = "attach"]
  <2>1. after \in RequestStates /\ after.pc = "attach" /\ after.body = request.body
    BY DEF RequestStates
  <2>2. AfterInsert(request) = after
    BY <1>4 DEF AfterInsert
  <2> HIDE DEF after
  <2> QED BY <1>1, <1>3, <2>1, <2>2 DEF Formed
<1>5. CASE request.body["tags"] = {}
  BY <1>3, <1>5 DEF AfterInsert
<1> QED BY <1>3, <1>4, <1>5

\* What CreateUser leaves.
LEMMA CreateUserEffect ==
  ASSUME AccessInv, NEW c \in Admins, NEW u \in Users, NEW body \in Creations,
         CreateUser(c, u, body)
  PROVE  LET after == AfterInsert([Idle EXCEPT !.user = u, !.body = body])
         IN /\ after \in RequestStates /\ Formed(after, c)
            /\ after.pc \in {"idle", "attach", "replace"}
            /\ after.pc # "idle" => after.body = body
            /\ db' = [db EXCEPT !.row[u] = NewRow(body, c)] /\ db' \in Views
            /\ Wrote([req EXCEPT ![c] = after])
<1> DEFINE request == [Idle EXCEPT !.user = u, !.body = body]
<1>1. request \in RequestStates /\ request.body = body /\ Idle.pc = "idle"
  BY IdleType DEF RequestStates, Idle
<1>2. NewRow(body, c) \in Rows
  BY AccessAssumption DEF NewRow, Rows, Requests
<1>3. db' = [db EXCEPT !.row[u] = NewRow(body, c)] /\ Wrote([req EXCEPT ![c] = AfterInsert(request)])
  BY DEF CreateUser
<1>4. db' \in Views
  BY <1>2, <1>3, ViewUpdates DEF AccessInv, OthersTyped
<1>5. /\ AfterInsert(request).pc \in {"idle", "attach", "replace"}
      /\ AfterInsert(request).pc # "idle" => AfterInsert(request).body = body
  <2> HIDE DEF request
  <2> QED BY <1>1 DEF AfterInsert, AfterTags, RequestStates
<1> HIDE DEF request
<1>6. AfterInsert(request) \in RequestStates /\ Formed(AfterInsert(request), c)
  BY <1>1, AfterTagsFormed
<1> QED BY <1>3, <1>4, <1>5, <1>6 DEF request

LEMMA CreateUserInv ==
  ASSUME AccessInv, NEW c \in Admins, NEW u \in Users, NEW body \in Creations,
         CreateUser(c, u, body)
  PROVE  AccessInv'
<1> DEFINE after == AfterInsert([Idle EXCEPT !.user = u, !.body = body])
           requests == [req EXCEPT ![c] = after]
<1>1. /\ after \in RequestStates /\ Formed(after, c) /\ db' \in Views /\ Wrote(requests)
  BY CreateUserEffect
<1> HIDE DEF after
<1>2. requests \in [Requests -> RequestStates] /\ \A q \in Requests : Formed(requests[q], q)
  BY <1>1 DEF AccessInv, RequestsFormed, Requests
<1> HIDE DEF requests
<1>3. RequestsFormed' /\ fresh' = {} /\ offer' = [v \in Users |-> {}]
  BY <1>1, <1>2, OneWrite
<1>4. OthersTyped'
  BY <1>1, <1>3 DEF AccessInv, OthersTyped, CreateUser, Event
<1> QED BY <1>3, <1>4 DEF AccessInv

LEMMA AttachNewTagsInv ==
  ASSUME AccessInv, NEW c \in Admins, AttachNewTags(c) PROVE AccessInv'
<1> DEFINE view == [db EXCEPT !.tags[req[c].user] = req[c].body["tags"]]
<1>1. c \in Requests /\ c \notin Nodes /\ c \notin Users
  BY AccessAssumption DEF Requests
<1>2. req[c] \in RequestStates /\ req[c].body \in Creations
  BY <1>1 DEF AccessInv, RequestsFormed, AttachNewTags, Formed
<1>3. req[c].user \in Users /\ req[c].body["tags"] \in SUBSET Tags
  BY <1>2, AccessAssumption DEF RequestStates
<1>4. view \in Views
  BY <1>3, ViewUpdates DEF AccessInv, OthersTyped
<1>5. AfterTags(req[c]) \in RequestStates /\ Formed(AfterTags(req[c]), c)
  BY <1>2, AfterTagsFormed
<1>6. WriteOrNot(c, view, AfterTags(req[c]))
  BY DEF AttachNewTags
<1> HIDE DEF view
<1> QED BY <1>1, <1>4, <1>5, <1>6, WriteOrNotInv

LEMMA ReplaceAllowedNodesInv ==
  ASSUME AccessInv, NEW c \in Admins, ReplaceAllowedNodes(c) PROVE AccessInv'
<1> DEFINE view == [db EXCEPT !.allowed[req[c].user] = req[c].body["allowed"]]
<1>1. c \in Requests /\ c \notin Nodes /\ c \notin Users
  BY AccessAssumption DEF Requests
<1>2. req[c] \in RequestStates /\ Formed(req[c], c) /\ req[c].pc = "replace"
  BY <1>1 DEF AccessInv, RequestsFormed, ReplaceAllowedNodes
<1>3. req[c].user \in Users /\ req[c].body["allowed"] \in SUBSET Nodes
  BY <1>2, AccessAssumption DEF RequestStates, Formed
<1>4. view \in Views
  BY <1>3, ViewUpdates DEF AccessInv, OthersTyped
<1>5. WriteOrNot(c, view, Idle)
  BY DEF ReplaceAllowedNodes
<1> HIDE DEF view
<1> QED BY <1>1, <1>4, <1>5, IdleType, IdleFormed, WriteOrNotInv

LEMMA WriteInv ==
  ASSUME AccessInv, NEW view \in Views, Write(view) PROVE AccessInv'
<1>1. RequestsFormed' /\ fresh' = {} /\ offer' = [v \in Users |-> {}]
  BY OneWrite DEF Write, AccessInv, RequestsFormed
<1>2. OthersTyped'
  BY <1>1 DEF AccessInv, OthersTyped, Write, Event
<1> QED BY <1>1, <1>2 DEF AccessInv

\* What a deletion leaves of the tables.
LEMMA Deletions ==
  ASSUME NEW view \in Views
  PROVE  /\ \A u \in Users :
              LET left == [view EXCEPT !.row[u].life = "gone", !.tags[u] = {}, !.allowed[u] = {},
                                       !.entries[u] = NoEntries]
              IN /\ left \in Views
                 /\ \A v \in Users : /\ left.row[v].status = view.row[v].status
                                     /\ left.row[v].life \in {view.row[v].life, "gone"}
         /\ \A n \in Nodes :
              LET left == [view EXCEPT !.node[n].life = "gone",
                                       !.allowed = [u \in Users |-> @[u] \ {n}],
                                       !.entries = [u \in Users |->
                                                      [@[u] EXCEPT ![n] = NoEntries[n]]]]
              IN left \in Views /\ left.row = view.row
<1>1. ASSUME NEW u \in Users
      PROVE  LET left == [view EXCEPT !.row[u].life = "gone", !.tags[u] = {}, !.allowed[u] = {},
                                      !.entries[u] = NoEntries]
             IN /\ left \in Views
                /\ \A v \in Users : /\ left.row[v].status = view.row[v].status
                                    /\ left.row[v].life \in {view.row[v].life, "gone"}
  <2> DEFINE row == [view.row[u] EXCEPT !.life = "gone"]
             left == [view EXCEPT !.row[u] = row, !.tags[u] = {}, !.allowed[u] = {},
                                  !.entries[u] = NoEntries]
  <2>1. row \in Rows /\ row.life = "gone" /\ row.status = view.row[u].status
    BY DEF Views, Rows
  <2>2. NoEntries \in Entries
    BY DEF NoEntries, Entries
  <2> HIDE DEF row
  <2>3. left \in Views /\ left.row = [view.row EXCEPT ![u] = row]
    BY <2>1, <2>2 DEF Views
  <2>4. \A v \in Users : left.row[v] = IF v = u THEN row ELSE view.row[v]
    BY <2>3 DEF Views
  <2> HIDE DEF left
  <2>5. /\ left \in Views
        /\ \A v \in Users : /\ left.row[v].status = view.row[v].status
                            /\ left.row[v].life \in {view.row[v].life, "gone"}
    BY <2>1, <2>3, <2>4
  <2> QED BY <2>5 DEF left, row
<1>2. ASSUME NEW n \in Nodes
      PROVE  LET left == [view EXCEPT !.node[n].life = "gone",
                                      !.allowed = [u \in Users |-> @[u] \ {n}],
                                      !.entries = [u \in Users |->
                                                     [@[u] EXCEPT ![n] = NoEntries[n]]]]
             IN left \in Views /\ left.row = view.row
  <2> DEFINE row == [view.node[n] EXCEPT !.life = "gone"]
             allowed == [u \in Users |-> view.allowed[u] \ {n}]
             entries == [u \in Users |-> [view.entries[u] EXCEPT ![n] = NoEntries[n]]]
             left == [view EXCEPT !.node[n] = row, !.allowed = allowed, !.entries = entries]
  <2>1. row \in NodeRows
    BY DEF Views, NodeRows
  <2>2. allowed \in [Users -> SUBSET Nodes]
    BY DEF Views
  <2>3. entries \in [Users -> Entries]
    BY DEF Views, Entries, NoEntries
  <2> HIDE DEF row, allowed, entries
  <2>4. left \in Views /\ left.row = view.row
    BY <2>1, <2>2, <2>3 DEF Views
  <2> QED BY <2>4 DEF row, allowed, entries
<1> QED BY <1>1, <1>2

LEMMA WriteStepInv == ASSUME AccessInv, WriteStep PROVE AccessInv'
<1>0. db \in Views
  BY DEF AccessInv, OthersTyped
<1>1. ASSUME NEW u \in Users, NEW tags \in SUBSET Tags, AttachTagsToUser(u, tags) PROVE AccessInv'
  <2>1. [db EXCEPT !.tags[u] = tags] \in Views
    BY <1>0, ViewUpdates
  <2> QED BY <1>1, <2>1, WriteInv DEF AttachTagsToUser
<1>2. ASSUME NEW u \in Users, NEW entries \in EntryChoices, ReplaceUserProtocolAccess(u, entries)
      PROVE  AccessInv'
  <2>1. entries \in Entries
    BY AccessAssumption
  <2>2. [db EXCEPT !.entries[u] = entries] \in Views
    BY <1>0, <2>1, ViewUpdates
  <2> QED BY <1>2, <2>2, WriteInv DEF ReplaceUserProtocolAccess
<1>3. ASSUME NEW n \in Nodes, NEW row \in NodeChoices, CreateNode(n, row) \/ UpdateNode(n, row)
      PROVE  AccessInv'
  <2>1. row \in NodeRows /\ SomeUser \in Users
    BY AccessAssumption DEF SomeUser
  <2>2. db.node[n].settings \in Settings
    BY <1>0 DEF Views, NodeRows
  <2>3. [row EXCEPT !.settings = db.node[n].settings] \in NodeRows
    BY <2>1, <2>2 DEF NodeRows
  <2>4. /\ [db EXCEPT !.node[n] = row] \in Views
        /\ [db EXCEPT !.node[n] = [row EXCEPT !.settings = db.node[n].settings]] \in Views
    BY <1>0, <2>1, <2>3, ViewUpdates
  <2> QED BY <1>3, <2>4, WriteInv DEF CreateNode, UpdateNode
<1>4. ASSUME NEW u \in Users, SaveUsage(u) PROVE AccessInv'
  <2>1. [db EXCEPT !.row[u].used = @ + 1] \in Views
    BY <1>0, ViewUpdates
  <2> QED BY <1>4, <2>1, WriteInv DEF SaveUsage
<1>5. ASSUME NEW u \in Users, DeleteUser(u) PROVE AccessInv'
  BY <1>0, <1>5, Deletions, WriteInv DEF DeleteUser
<1>6. ASSUME NEW n \in Nodes, DeleteNode(n) PROVE AccessInv'
  BY <1>0, <1>6, Deletions, WriteInv DEF DeleteNode
<1>7. ASSUME NEW n \in Nodes, NEW settings \in Settings, UpdateNodeConfig(n, settings)
      PROVE  AccessInv'
  <2>1. db.node[n] \in NodeRows
    BY <1>0 DEF Views
  <2>2. [db.node[n] EXCEPT !.settings = settings] \in NodeRows
    BY <2>1 DEF NodeRows
  <2>3. SomeUser \in Users
    BY AccessAssumption DEF SomeUser
  <2>4. [db EXCEPT !.node[n] = [db.node[n] EXCEPT !.settings = settings]] \in Views
    BY <1>0, <2>2, <2>3, ViewUpdates
  <2> QED BY <1>7, <2>4, WriteInv DEF UpdateNodeConfig
<1> QED BY <1>1, <1>2, <1>3, <1>4, <1>5, <1>6, <1>7 DEF WriteStep

LEMMA NextInv == AccessInv /\ [Next]_vars => AccessInv'
<1> SUFFICES ASSUME AccessInv, [Next]_vars PROVE AccessInv'
  OBVIOUS
<1>1. ASSUME NEW n \in Nodes, SyncStep(n) PROVE AccessInv'
  <2>1. n \in Requests /\ n \notin Users
    BY AccessAssumption DEF Requests
  <2> QED BY <1>1, <2>1, StartSyncInv, TouchNodeHeartbeatInv, ListUsersInv, ensureUserSecretsInv, ListUserTagsInv,
             ListUserAllowedNodesInv, ListUserProtocolAccessByNodeInv, SyncAnswersInv
          DEF SyncStep
<1>2. ASSUME NEW u \in Users, SubscriptionStep(u) PROVE AccessInv'
  <2>1. u \in Requests
    BY DEF Requests
  <2> QED BY <1>2, <2>1, StartSubscriptionInv, ensureUserSecretsInv, SubscriptionAnswersInv
          DEF SubscriptionStep
<1>3. ASSUME NEW c \in Admins, AdminStep(c) PROVE AccessInv'
  <2>1. c \in Requests /\ c \notin Users
    BY AccessAssumption DEF Requests
  <2> QED BY <1>3, <2>1, StartPatchInv, ensureUserSecretsInv, UpdateUserInv, UserNotFoundInv,
             CreateUserInv, AttachNewTagsInv, ReplaceAllowedNodesInv
          DEF AdminStep
<1>4. CASE UNCHANGED vars
  BY <1>4 DEF AccessInv, RequestsFormed, OthersTyped, Formed, Through, vars, historyVars
<1> QED BY <1>1, <1>2, <1>3, <1>4, AbortInv, WriteStepInv DEF Next

\* Types hold in every state, whatever the interleaving: no login without
\* credentials reaches a configuration or a profile (ensureUserSecrets comes
\* first), and the allowed nodes are replaced only by a body that has them.
THEOREM TypeCorrect == Spec => []TypeOK
<1>1. Spec => []AccessInv
  BY InitInv, NextInv, PTL DEF Spec
<1> QED BY <1>1, InvType, PTL

-----------------------------------------------------------------------------
(* Suspension.  A PATCH of a suspended user that has no status of its own   *)
(* will write the status back that it has read, so that has to be disabled. *)

Due(request) == request.pc \notin {"idle", "replace"} /\ "status" \notin DOMAIN request.body

SuspensionInv ==
  \A u \in Users : suspended[u] = "yes" =>
    /\ db.row[u].status = "disabled" /\ db.row[u].life # "new"
    /\ \A c \in Admins :
         (Due(req[c]) /\ req[c].user = u) => req[c].view.row[u].status = "disabled"

\* A request that is over or whose part in SuspensionInv is as before.
SameDue(request, before) ==
  \/ ~ Due(request)
  \/ /\ Due(before) /\ request.user = before.user
     /\ \A u \in Users : request.view.row[u].status = before.view.row[u].status

LEMMA SameDueKeeps ==
  ASSUME SuspensionInv, UNCHANGED suspended,
         \A u \in Users : /\ db'.row[u].status = db.row[u].status
                         /\ db'.row[u].life \in {db.row[u].life, "gone"},
         \A c \in Admins : SameDue(req'[c], req[c])
  PROVE  SuspensionInv'
BY DEF SuspensionInv, SameDue, Due

LEMMA IdleNotDue == ~ Due(Idle)
BY DEF Due, Idle

\* Steps of others do not matter to a PATCH.
LEMMA WroteDue ==
  ASSUME NEW requests, Wrote(requests), NEW c \in Admins
  PROVE  req'[c] = requests[c]
BY DEF Wrote, Interrupted, Requests

LEMMA WriteSuspension ==
  ASSUME AccessInv, SuspensionInv, NEW view, Write(view),
         \A u \in Users : /\ view.row[u].status = db.row[u].status
                         /\ view.row[u].life \in {db.row[u].life, "gone"}
  PROVE  SuspensionInv'
<1>1. \A c \in Admins : req'[c] = req[c]
  BY WroteDue DEF Write
<1> QED BY <1>1 DEF Write, SuspensionInv, Due

LEMMA WriteStepSuspension == ASSUME AccessInv, SuspensionInv, WriteStep PROVE SuspensionInv'
<1>0. db \in Views
  BY DEF AccessInv, OthersTyped
<1>1. ASSUME NEW u \in Users, NEW tags \in SUBSET Tags, AttachTagsToUser(u, tags)
      PROVE  SuspensionInv'
  <2>1. [db EXCEPT !.tags[u] = tags].row = db.row
    BY <1>0 DEF Views
  <2> QED BY <1>1, <2>1, WriteSuspension DEF AttachTagsToUser
<1>2. ASSUME NEW u \in Users, NEW entries \in EntryChoices, ReplaceUserProtocolAccess(u, entries)
      PROVE  SuspensionInv'
  <2>1. [db EXCEPT !.entries[u] = entries].row = db.row
    BY <1>0 DEF Views
  <2> QED BY <1>2, <2>1, WriteSuspension DEF ReplaceUserProtocolAccess
<1>3. ASSUME NEW n \in Nodes, NEW row \in NodeChoices, CreateNode(n, row) \/ UpdateNode(n, row)
      PROVE  SuspensionInv'
  <2>1. \A new : [db EXCEPT !.node[n] = new].row = db.row
    BY <1>0 DEF Views
  <2> QED BY <1>3, <2>1, WriteSuspension DEF CreateNode, UpdateNode
<1>4. ASSUME NEW u \in Users, SaveUsage(u) PROVE SuspensionInv'
  <2>1. \A v \in Users : LET row == [db EXCEPT !.row[u].used = @ + 1].row[v] IN
          row.status = db.row[v].status /\ row.life = db.row[v].life
    BY <1>0 DEF Views, Rows
  <2> QED BY <1>4, <2>1, WriteSuspension DEF SaveUsage
<1>5. ASSUME NEW u \in Users, DeleteUser(u) PROVE SuspensionInv'
  BY <1>0, <1>5, Deletions, WriteSuspension DEF DeleteUser
<1>6. ASSUME NEW n \in Nodes, DeleteNode(n) PROVE SuspensionInv'
  BY <1>0, <1>6, Deletions, WriteSuspension DEF DeleteNode
<1>7. ASSUME NEW n \in Nodes, NEW settings \in Settings, UpdateNodeConfig(n, settings)
      PROVE  SuspensionInv'
  <2>1. [db EXCEPT !.node[n].settings = settings].row = db.row
    BY <1>0 DEF Views
  <2> QED BY <1>7, <2>1, WriteSuspension DEF UpdateNodeConfig
<1> QED BY <1>1, <1>2, <1>3, <1>4, <1>5, <1>6, <1>7 DEF WriteStep

LEMMA SecretsSuspension ==
  ASSUME AccessInv, SuspensionInv, NEW r \in Requests, NEW u \in Users, ensureUserSecrets(r, u)
  PROVE  SuspensionInv'
<1>1. \A v \in Users : db'.row[v].status = db.row[v].status /\ db'.row[v].life = db.row[v].life
  <2>1. db' = db \/ db' = [db EXCEPT !.row[u].secret = r]
    BY DEF ensureUserSecrets
  <2>2. \A v \in Users : LET row == [db EXCEPT !.row[u].secret = r].row[v] IN
          row.status = db.row[v].status /\ row.life = db.row[v].life
    BY DEF AccessInv, OthersTyped, Views, Rows
  <2> QED BY <2>1, <2>2
<1>2. ASSUME NEW c \in Admins PROVE SameDue(req'[c], req[c])
  <2>1. c \in Requests /\ c \notin Nodes /\ req[c] \in RequestStates
    BY AccessAssumption DEF Requests, AccessInv, RequestsFormed
  <2>2. CASE c # r
    <3> DEFINE clean == req[c].clean /\ (c \in Admins \/ req[c].pc = "idle")
    <3>1. req'[c] = req[c] \/ req'[c] = [req[c] EXCEPT !.clean = clean]
      BY <2>1, <2>2 DEF ensureUserSecrets, AfterUser, AccessInv, RequestsFormed
    <3> HIDE DEF clean
    <3>2. /\ req'[c].pc = req[c].pc /\ req'[c].user = req[c].user
          /\ req'[c].body = req[c].body /\ req'[c].view = req[c].view
      BY <2>1, <3>1 DEF RequestStates
    <3> QED BY <3>2 DEF SameDue, Due
  <2>3. CASE c = r
    <3> DEFINE after == AfterUser(c, u)[c]
               view == [req[c].view EXCEPT !.row[u].secret = c]
    <3>0. PICK pc, todo, at : after = [req[c] EXCEPT !.todo = todo, !.at = at, !.pc = pc]
      BY <2>1 DEF AfterUser, AccessInv, RequestsFormed
    <3>1. /\ after.user = req[c].user /\ after.body = req[c].body /\ after.view = req[c].view
          /\ [after EXCEPT !.view = view].user = req[c].user
          /\ [after EXCEPT !.view = view].body = req[c].body
          /\ [after EXCEPT !.view = view].view = view
      BY <2>1, <3>0 DEF RequestStates
    <3>2. req'[c] = after \/ req'[c] = [after EXCEPT !.view = view]
      <4>1. req'[c] = after \/ req'[c] = [after EXCEPT !.view.row[u].secret = c]
        <5> DEFINE next == AfterUser(c, u)
        <5>1. \/ req' = next
              \/ req' = [next EXCEPT ![c].view.row[u].secret = c]
              \/ req'[c] = [next[c] EXCEPT !.view.row[u].secret = c]
          BY <2>1, <2>3 DEF ensureUserSecrets
        <5>2. c \in DOMAIN next
          BY <2>1 DEF AfterUser, AccessInv, RequestsFormed
        <5>3. after = next[c]
          OBVIOUS
        <5> HIDE DEF next, after
        <5> QED BY <5>1, <5>2, <5>3
      <4>2. after.view = req[c].view
        BY <3>1
      <4> HIDE DEF after
      <4> QED BY <4>1, <4>2
    <3>3. req'[c].user = req[c].user /\ req'[c].body = req[c].body
      BY <3>1, <3>2
    <3>4. \A v \in Users : req'[c].view.row[v].status = req[c].view.row[v].status
      <4>1. req[c].view \in Views
        BY <2>1 DEF RequestStates
      <4>2. \A v \in Users : view.row[v].status = req[c].view.row[v].status
        BY <4>1 DEF Views, Rows
      <4> HIDE DEF view, after
      <4> QED BY <3>1, <3>2, <4>2
    <3>5. req[c].pc = "load"
      BY <2>3 DEF ensureUserSecrets
    <3> QED BY <3>3, <3>4, <3>5 DEF SameDue, Due
  <2> QED BY <2>2, <2>3
<1>3. UNCHANGED suspended
  BY DEF ensureUserSecrets
<1> QED BY <1>1, <1>2, <1>3, SameDueKeeps

LEMMA StartPatchSuspension ==
  ASSUME AccessInv, SuspensionInv, NEW c \in Admins, NEW u \in Users, NEW body \in Bodies,
         StartPatch(c, u, body)
  PROVE  SuspensionInv'
<1>1. \A d \in Admins \ {c} : req'[d] = req[d]
  BY DEF StartPatch, AccessInv, RequestsFormed, Requests
<1>2. req'[c].view.row = db.row
  BY IdleType DEF StartPatch, AccessInv, RequestsFormed, Requests, RequestStates, Views
<1>3. UNCHANGED <<db, suspended>>
  BY DEF StartPatch, historyVars
<1> QED BY <1>1, <1>2, <1>3 DEF SuspensionInv, Due

LEMMA UpdateUserSuspension ==
  ASSUME AccessInv, SuspensionInv, NEW c \in Admins, UpdateUser(c) PROVE SuspensionInv'
<1> DEFINE u == req[c].user
           body == req[c].body
           read == req[c].view.row[u]
<1>1. /\ u \in Users /\ body \in Bodies /\ db.row[u] \in Rows /\ read \in Rows
      /\ db' = [db EXCEPT !.row[u] = Patched(db.row[u], read, body)]
  BY UpdateUserEffect
<1> DEFINE left == IF "allowed" \in DOMAIN body THEN [req[c] EXCEPT !.pc = "replace"] ELSE Idle
           requests == [req EXCEPT ![c] = left]
<1>2. (\A d \in Admins \ {c} : req'[d] = req[d]) /\ req'[c] = left
  <2>1. Wrote(requests)
    BY DEF UpdateUser, AccessInv, RequestsFormed, Requests
  <2>2. (\A d \in Admins \ {c} : requests[d] = req[d]) /\ requests[c] = left
    BY DEF AccessInv, RequestsFormed, Requests
  <2> HIDE DEF requests, left
  <2>3. \A d \in Admins : req'[d] = requests[d]
    BY <2>1, WroteDue
  <2> QED BY <2>2, <2>3
<1>3. ~ Due(req'[c])
  <2>1. c \in Requests /\ req[c] \in RequestStates
    BY DEF AccessInv, RequestsFormed, Requests
  <2>2. req'[c] = left
    BY <1>2
  <2>3. [req[c] EXCEPT !.pc = "replace"].pc = "replace"
    BY <2>1 DEF RequestStates
  <2> QED BY <2>2, <2>3, IdleNotDue DEF Due
<1>4. db'.row[u].status = Field("status", read, body) /\ db'.row[u].life = db.row[u].life
  <2>1. /\ Patched(db.row[u], read, body).status = Field("status", read, body)
        /\ Patched(db.row[u], read, body).life = db.row[u].life
    BY <1>1, PatchedType
  <2> HIDE DEF read
  <2> QED BY <1>1, <2>1 DEF AccessInv, OthersTyped, Views
<1>5. \A v \in Users \ {u} : db'.row[v] = db.row[v] /\ suspended'[v] = suspended[v]
  BY <1>1 DEF UpdateUser, AccessInv, OthersTyped, Views
<1>6. req[c].pc = "update" /\ db.row[u].life = "live"
  BY DEF UpdateUser, Found, Listed
<1>7. ASSUME NEW v \in Users \ {u}, suspended'[v] = "yes"
      PROVE  /\ db'.row[v].status = "disabled" /\ db'.row[v].life # "new"
             /\ \A d \in Admins :
                  (Due(req'[d]) /\ req'[d].user = v) => req'[d].view.row[v].status = "disabled"
  BY <1>2, <1>3, <1>5, <1>7 DEF SuspensionInv
<1>8. ASSUME suspended'[u] = "yes"
      PROVE  /\ db'.row[u].status = "disabled" /\ db'.row[u].life # "new"
             /\ \A d \in Admins :
                  (Due(req'[d]) /\ req'[d].user = u) => req'[d].view.row[u].status = "disabled"
  <2>1. CASE "status" \in DOMAIN body
    <3>1. body["status"] = "disabled" /\ ~ PatchDue(c, u)
      BY <1>1, <1>8, <2>1, AccessAssumption DEF UpdateUser, AccessInv, OthersTyped
    <3>2. \A d \in Admins \ {c} : ~ (Due(req[d]) /\ req[d].user = u)
      BY <3>1 DEF PatchDue, Due
    <3> QED BY <1>2, <1>3, <1>4, <1>6, <2>1, <3>1, <3>2 DEF Field
  <2>2. CASE "status" \notin DOMAIN body
    <3>1. suspended[u] = "yes"
      BY <1>1, <1>8, <2>2 DEF UpdateUser, AccessInv, OthersTyped
    <3>2. read.status = "disabled"
      BY <1>1, <1>6, <2>2, <3>1 DEF SuspensionInv, Due
    <3> QED BY <1>1, <1>2, <1>3, <1>4, <1>6, <2>2, <3>1, <3>2 DEF Field, SuspensionInv
  <2> QED BY <2>1, <2>2
<1> QED BY <1>7, <1>8 DEF SuspensionInv

\* A write whose error is ignored, of a request that is then not due.
LEMMA WriteOrNotSuspension ==
  ASSUME AccessInv, SuspensionInv, NEW r \in Requests, NEW view, NEW after,
         WriteOrNot(r, view, after), view.row = db.row, r \in Admins => ~ Due(after)
  PROVE  SuspensionInv'
<1> DEFINE done == [req EXCEPT ![r] = after]
<1>1. \A d \in Admins : req'[d] = done[d]
  <2>1. Wrote(done) \/ req' = done
    BY DEF WriteOrNot
  <2> HIDE DEF done
  <2> QED BY <2>1, WroteDue
<1>2. \A d \in Admins : done[d] = req[d] \/ ~ Due(done[d])
  BY DEF AccessInv, RequestsFormed, Requests
<1>3. db'.row = db.row /\ UNCHANGED suspended
  BY DEF WriteOrNot
<1>4. \A d \in Admins : SameDue(req'[d], req[d])
  BY <1>1, <1>2 DEF SameDue
<1> QED BY <1>3, <1>4, SameDueKeeps

LEMMA ReplaceSuspension ==
  ASSUME AccessInv, SuspensionInv, NEW c \in Admins, ReplaceAllowedNodes(c) PROVE SuspensionInv'
<1> DEFINE view == [db EXCEPT !.allowed[req[c].user] = req[c].body["allowed"]]
<1>1. view.row = db.row /\ c \in Requests
  BY DEF AccessInv, OthersTyped, Views, Requests
<1>2. WriteOrNot(c, view, Idle)
  BY DEF ReplaceAllowedNodes
<1> HIDE DEF view
<1> QED BY <1>1, <1>2, IdleNotDue, WriteOrNotSuspension

LEMMA AttachSuspension ==
  ASSUME AccessInv, SuspensionInv, NEW c \in Admins, AttachNewTags(c) PROVE SuspensionInv'
<1> DEFINE view == [db EXCEPT !.tags[req[c].user] = req[c].body["tags"]]
<1>1. view.row = db.row /\ c \in Requests
  BY DEF AccessInv, OthersTyped, Views, Requests
<1>2. WriteOrNot(c, view, AfterTags(req[c]))
  BY DEF AttachNewTags
<1>3. req[c] \in RequestStates
  BY <1>1 DEF AccessInv, RequestsFormed
<1>4. ~ Due(AfterTags(req[c]))
  BY <1>3, IdleNotDue DEF AfterTags, Due, RequestStates
<1> HIDE DEF view
<1> QED BY <1>1, <1>2, <1>4, WriteOrNotSuspension

LEMMA TouchSuspension ==
  ASSUME AccessInv, SuspensionInv, NEW n \in Nodes, TouchNodeHeartbeat(n) PROVE SuspensionInv'
<1> DEFINE view == [db EXCEPT !.node[n].status = IF n \in ListedNodes(db) THEN "online" ELSE @]
           after == [req[n] EXCEPT !.pc = "users"]
<1>1. view.row = db.row /\ n \in Requests /\ n \notin Admins
  BY AccessAssumption DEF AccessInv, OthersTyped, Views, Requests
<1>2. WriteOrNot(n, view, after)
  BY DEF TouchNodeHeartbeat
<1> HIDE DEF view, after
<1> QED BY <1>1, <1>2, WriteOrNotSuspension

\* A user that is created has never been suspended.
LEMMA CreateUserSuspension ==
  ASSUME AccessInv, SuspensionInv, NEW c \in Admins, NEW u \in Users, NEW body \in Creations,
         CreateUser(c, u, body)
  PROVE  SuspensionInv'
<1> DEFINE after == AfterInsert([Idle EXCEPT !.user = u, !.body = body])
           requests == [req EXCEPT ![c] = after]
<1>1. /\ after.pc \in {"idle", "attach", "replace"} /\ (after.pc # "idle" => after.body = body)
      /\ db' = [db EXCEPT !.row[u] = NewRow(body, c)] /\ Wrote(requests)
  BY CreateUserEffect
<1>2. "status" \in DOMAIN body
  BY AccessAssumption
<1>3. ~ Due(after)
  <2> HIDE DEF after
  <2> QED BY <1>1, <1>2 DEF Due
<1> HIDE DEF after
<1>4. (\A d \in Admins \ {c} : requests[d] = req[d]) /\ requests[c] = after
  BY DEF AccessInv, RequestsFormed, Requests
<1> HIDE DEF requests
<1>5. \A d \in Admins : req'[d] = requests[d]
  BY <1>1, WroteDue
<1>6. \A v \in Users \ {u} : db'.row[v] = db.row[v]
  BY <1>1 DEF AccessInv, OthersTyped, Views
<1>7. suspended' = suspended /\ suspended[u] # "yes"
  BY DEF CreateUser, SuspensionInv
<1> QED BY <1>3, <1>4, <1>5, <1>6, <1>7 DEF SuspensionInv

\* Steps of a sync or a subscription but ensureUserSecrets, and failures.
LEMMA OtherSuspension ==
  ASSUME AccessInv, SuspensionInv, UNCHANGED <<db, suspended>>,
         \A c \in Admins : req'[c] = req[c] \/ req'[c] = Idle
  PROVE  SuspensionInv'
<1>1. \A d \in Admins : SameDue(req'[d], req[d])
  BY IdleNotDue DEF SameDue
<1> QED BY <1>1, SameDueKeeps

LEMMA NextSuspension == AccessInv /\ SuspensionInv /\ [Next]_vars => SuspensionInv'
<1> SUFFICES ASSUME AccessInv, SuspensionInv, [Next]_vars PROVE SuspensionInv'
  OBVIOUS
<1>1. ASSUME NEW n \in Nodes, SyncStep(n) PROVE SuspensionInv'
  <2>1. n \in Requests /\ n \notin Admins /\ Admins \subseteq Requests
    BY AccessAssumption DEF Requests
  <2>2. CASE \E u \in Users : ensureUserSecrets(n, u)
    BY <2>1, <2>2, SecretsSuspension
  <2>3. CASE StartSync(n) \/ ListUsers(n) \/ ListUserProtocolAccessByNode(n) \/ SyncAnswers(n)
    <3>1. \A c \in Admins : req'[c] = req[c]
      BY <2>1, <2>3 DEF StartSync, ListUsers, ListUserProtocolAccessByNode, SyncAnswers,
                        AccessInv, RequestsFormed
    <3> QED BY <2>3, <3>1, OtherSuspension
            DEF StartSync, ListUsers, ListUserProtocolAccessByNode, SyncAnswers, historyVars
  <2>4. CASE ListUserTags(n) \/ ListUserAllowedNodes(n)
    <3>1. \A c \in Admins : req'[c] = req[c]
      BY <2>1, <2>4 DEF ListUserTags, ListUserAllowedNodes, AfterUser, AccessInv, RequestsFormed
    <3> QED BY <2>4, <3>1, OtherSuspension DEF ListUserTags, ListUserAllowedNodes, historyVars
  <2>5. CASE TouchNodeHeartbeat(n)
    BY <2>5, TouchSuspension
  <2> QED BY <1>1, <2>2, <2>3, <2>4, <2>5 DEF SyncStep
<1>2. ASSUME NEW u \in Users, SubscriptionStep(u) PROVE SuspensionInv'
  <2>1. u \in Requests /\ u \notin Admins /\ Admins \subseteq Requests
    BY AccessAssumption DEF Requests
  <2>2. CASE ensureUserSecrets(u, u)
    BY <2>1, <2>2, SecretsSuspension
  <2>3. CASE StartSubscription(u) \/ SubscriptionAnswers(u)
    <3>1. \A c \in Admins : req'[c] = req[c]
      BY <2>1, <2>3 DEF StartSubscription, SubscriptionAnswers, AccessInv, RequestsFormed
    <3> QED BY <2>3, <3>1, OtherSuspension DEF StartSubscription, SubscriptionAnswers, historyVars
  <2> QED BY <1>2, <2>2, <2>3 DEF SubscriptionStep
<1>3. ASSUME NEW c \in Admins, AdminStep(c) PROVE SuspensionInv'
  <2>1. c \in Requests
    BY DEF Requests
  <2>2. CASE UserNotFound(c)
    <3>1. \A d \in Admins : req'[d] = req[d] \/ req'[d] = Idle
      BY <2>2 DEF UserNotFound, AccessInv, RequestsFormed, Requests
    <3> QED BY <2>2, <3>1, OtherSuspension DEF UserNotFound, historyVars
  <2> QED BY <1>3, <2>1, <2>2, StartPatchSuspension, SecretsSuspension, UpdateUserSuspension,
             CreateUserSuspension, AttachSuspension, ReplaceSuspension
          DEF AdminStep
<1>4. ASSUME NEW r \in Requests, Abort(r) PROVE SuspensionInv'
  <2>1. \A c \in Admins : req'[c] = req[c] \/ req'[c] = Idle
    BY <1>4 DEF Abort, AccessInv, RequestsFormed, Requests
  <2> QED BY <1>4, <2>1, OtherSuspension DEF Abort, historyVars
<1>5. CASE UNCHANGED vars
  BY <1>5, OtherSuspension DEF vars, historyVars
<1> QED BY <1>1, <1>2, <1>3, <1>4, <1>5, WriteStepSuspension DEF Next

\* A suspension that no PATCH under way can undo stays until it is lifted,
\* although UpdateUser writes back a status its request read earlier: every
\* PATCH that starts later reads disabled.
THEOREM SuspensionStays == Spec => []SuspensionHolds
<1>1. Init => SuspensionInv
  BY DEF Init, SuspensionInv
<1>2. SuspensionInv => SuspensionHolds
  BY DEF SuspensionInv, SuspensionHolds
<1> QED BY <1>1, <1>2, InitInv, NextInv, NextSuspension, PTL DEF Spec

-----------------------------------------------------------------------------
(* What a sync has read.                                                    *)

\* The rows of users are read; the users whose tags, and whose allowed nodes,
\* have been read after that.
RowsRead(request) ==
  request.pc \in {"load", "tags", "allowed", "entries", "resolve"}

TagsRead(request) ==
  {u \in Users : \/ request.pc \in {"load", "tags", "allowed"} /\ u \notin request.todo
                 \/ request.pc = "allowed" /\ u = request.at
                 \/ request.pc \in {"entries", "resolve"}}

AllowedRead(request) ==
  {u \in Users : \/ request.pc \in {"load", "tags", "allowed"} /\ u \notin request.todo
                 \/ request.pc \in {"entries", "resolve"}}

\* What each step of a sync leaves of its own request.  The other requests stay
\* as they are.
LEMMA StartSyncEffect ==
  ASSUME AccessInv, NEW n \in Nodes, StartSync(n)
  PROVE  /\ \A q \in Requests \ {n} : req'[q] = req[q]
         /\ n \in ListedNodes(db) /\ db' = db
         /\ req'[n].pc = "touch" /\ req'[n].view.node = db.node
         /\ req'[n].clean = TRUE /\ req'[n].writes = 0 /\ req'[n].entitled = Entitled(db, n)
<1>1. [Idle.view EXCEPT !.node = db.node].node = db.node
  BY IdleType DEF RequestStates, AccessInv, OthersTyped, Views
<1>2. Idle \in RequestStates /\ Idle.clean = TRUE /\ Idle.writes = 0
  BY IdleType DEF Idle
<1>3. /\ n \in Requests /\ n \in ListedNodes(db) /\ db' = db
      /\ req' = [req EXCEPT ![n] = [Idle EXCEPT !.pc = "touch", !.view.node = db.node,
                                                !.entitled = Entitled(db, n)]]
  BY DEF StartSync, Requests
<1> QED BY <1>1, <1>2, <1>3 DEF RequestStates, AccessInv, RequestsFormed

LEMMA ListUsersEffect ==
  ASSUME AccessInv, NEW n \in Nodes, ListUsers(n)
  PROVE  /\ \A q \in Requests \ {n} : req'[q] = req[q]
         /\ db' = db /\ req[n].pc = "users"
         /\ req'[n].pc = IF Listed(db) = {} THEN "entries" ELSE "load"
         /\ req'[n].todo = Listed(db)
         /\ req'[n].view.row = db.row /\ req'[n].view.node = req[n].view.node
         /\ req'[n].clean = req[n].clean /\ req'[n].writes = req[n].writes
         /\ req'[n].entitled = req[n].entitled
<1>1. n \in Requests /\ req[n] \in RequestStates
  BY DEF Requests, AccessInv, RequestsFormed
<1>2. /\ [req[n].view EXCEPT !.row = db.row].row = db.row
      /\ [req[n].view EXCEPT !.row = db.row].node = req[n].view.node
  BY <1>1 DEF RequestStates, Views
<1> QED BY <1>1, <1>2 DEF ListUsers, RequestStates, AccessInv, RequestsFormed

LEMMA ListUserTagsEffect ==
  ASSUME AccessInv, NEW n \in Nodes, ListUserTags(n)
  PROVE  LET u == req[n].at IN
         /\ \A q \in Requests \ {n} : req'[q] = req[q]
         /\ db' = db /\ req[n].pc = "tags" /\ u \in Users
         /\ req'[n].pc = "allowed" /\ req'[n].todo = req[n].todo /\ req'[n].at = u
         /\ req'[n].view.row = req[n].view.row /\ req'[n].view.node = req[n].view.node
         /\ req'[n].view.allowed = req[n].view.allowed
         /\ req'[n].writes = req[n].writes /\ req'[n].entitled = req[n].entitled
         /\ \A v \in Users \ {u} : req'[n].view.tags[v] = req[n].view.tags[v]
         /\ req'[n].view.tags[u] \in {db.tags[u], {}}
         /\ req'[n].clean => req[n].clean /\ req'[n].view.tags[u] = db.tags[u]
<1> DEFINE u == req[n].at
<1>0. PICK got \in {db.tags[u], {}} :
        req' = [req EXCEPT ![n].pc = "allowed", ![n].view.tags[u] = got,
                           ![n].clean = @ /\ got = db.tags[u]]
  BY DEF ListUserTags
<1>1. n \in Requests /\ req[n] \in RequestStates /\ req[n].view \in Views /\ u \in Users
  BY DEF Requests, AccessInv, RequestsFormed, RequestStates
<1> DEFINE view == [req[n].view EXCEPT !.tags[u] = got]
           clean == req[n].clean /\ got = db.tags[u]
<1>2. /\ view.row = req[n].view.row /\ view.node = req[n].view.node
      /\ view.allowed = req[n].view.allowed
      /\ \A v \in Users \ {u} : view.tags[v] = req[n].view.tags[v]
      /\ view.tags[u] = got
  BY <1>1 DEF Views
<1>3. /\ req' = [req EXCEPT ![n] = [req[n] EXCEPT !.pc = "allowed", !.view = view, !.clean = clean]]
      /\ n \in DOMAIN req
  BY <1>0, <1>1 DEF AccessInv, RequestsFormed
<1> HIDE DEF view
<1>4. /\ req'[n].pc = "allowed" /\ req'[n].todo = req[n].todo /\ req'[n].at = u
      /\ req'[n].view = view /\ (req'[n].clean <=> clean)
      /\ req'[n].writes = req[n].writes /\ req'[n].entitled = req[n].entitled
  BY <1>1, <1>3 DEF RequestStates
<1>5. \A q \in Requests \ {n} : req'[q] = req[q]
  BY <1>3 DEF AccessInv, RequestsFormed
<1> QED BY <1>1, <1>2, <1>4, <1>5 DEF ListUserTags

LEMMA ListUserAllowedNodesEffect ==
  ASSUME AccessInv, NEW n \in Nodes, ListUserAllowedNodes(n)
  PROVE  LET u == req[n].at IN
         /\ \A q \in Requests \ {n} : req'[q] = req[q]
         /\ db' = db /\ req[n].pc = "allowed" /\ u \in Users
         /\ req'[n].todo = req[n].todo \ {u}
         /\ req'[n].pc = IF req'[n].todo = {} THEN "entries" ELSE "load"
         /\ req'[n].view.row = req[n].view.row /\ req'[n].view.node = req[n].view.node
         /\ req'[n].view.tags = req[n].view.tags
         /\ req'[n].writes = req[n].writes /\ req'[n].entitled = req[n].entitled
         /\ \A v \in Users \ {u} : req'[n].view.allowed[v] = req[n].view.allowed[v]
         /\ req'[n].view.allowed[u] \in {db.allowed[u], {}}
         /\ req'[n].clean => req[n].clean /\ req'[n].view.allowed[u] = db.allowed[u]
<1> DEFINE u == req[n].at
<1>0. PICK got \in {db.allowed[u], {}} :
        req' = [AfterUser(n, u) EXCEPT ![n].view.allowed[u] = got,
                                       ![n].clean = @ /\ got = db.allowed[u]]
  BY DEF ListUserAllowedNodes
<1>1. n \in Requests /\ req[n] \in RequestStates /\ req[n].view \in Views /\ u \in Users
  BY DEF Requests, AccessInv, RequestsFormed, RequestStates
<1> DEFINE view == [req[n].view EXCEPT !.allowed[u] = got]
           clean == req[n].clean /\ got = db.allowed[u]
           base == AfterUser(n, u)[n]
<1>2. /\ view.row = req[n].view.row /\ view.node = req[n].view.node
      /\ view.tags = req[n].view.tags
      /\ \A v \in Users \ {u} : view.allowed[v] = req[n].view.allowed[v]
      /\ view.allowed[u] = got
  BY <1>1 DEF Views
<1>3. /\ base.todo = req[n].todo \ {u} /\ base.view = req[n].view /\ base.clean = req[n].clean
      /\ base.pc = IF base.todo = {} THEN "entries" ELSE "load"
      /\ base.writes = req[n].writes /\ base.entitled = req[n].entitled
      /\ DOMAIN base = DOMAIN req[n]
      /\ n \in DOMAIN AfterUser(n, u)
      /\ \A q \in Requests \ {n} : AfterUser(n, u)[q] = req[q] /\ q \in DOMAIN AfterUser(n, u)
  <2>1. base = [req[n] EXCEPT !.todo = @ \ {u}, !.at = SomeUser,
                              !.pc = IF req[n].todo \ {u} = {} THEN "entries" ELSE "load"]
    BY <1>1 DEF AfterUser, AccessInv, RequestsFormed
  <2>2. /\ DOMAIN AfterUser(n, u) = Requests
        /\ \A q \in Requests \ {n} : AfterUser(n, u)[q] = req[q]
    BY <1>1 DEF AfterUser, AccessInv, RequestsFormed
  <2> QED BY <1>1, <2>1, <2>2 DEF RequestStates
<1>4. req'[n] = [base EXCEPT !.view = view, !.clean = clean]
  <2> DEFINE all == AfterUser(n, u)
  <2>1. all[n].view = req[n].view /\ all[n].clean = req[n].clean /\ n \in DOMAIN all
    BY <1>3
  <2>2. req' = [all EXCEPT ![n].view.allowed[u] = got, ![n].clean = @ /\ got = db.allowed[u]]
    BY <1>0
  <2> HIDE DEF all
  <2>3. req'[n] = [all[n] EXCEPT !.view.allowed[u] = got, !.clean = @ /\ got = db.allowed[u]]
    BY <2>1, <2>2
  <2>4. req'[n] = [all[n] EXCEPT !.view = view, !.clean = clean]
    BY <2>1, <2>3
  <2> QED BY <2>4 DEF all
<1>5. \A q \in Requests \ {n} : req'[q] = req[q]
  BY <1>0, <1>3
<1> HIDE DEF view
<1>6. /\ req'[n].todo = req[n].todo \ {u} /\ req'[n].view = view /\ (req'[n].clean <=> clean)
      /\ req'[n].pc = IF req'[n].todo = {} THEN "entries" ELSE "load"
      /\ req'[n].writes = req[n].writes /\ req'[n].entitled = req[n].entitled
  <2> HIDE DEF base
  <2>1. {"view", "clean", "todo", "pc", "writes", "entitled"} \subseteq DOMAIN base
    BY <1>1, <1>3 DEF RequestStates
  <2> QED BY <1>3, <1>4, <2>1
<1> QED BY <1>1, <1>2, <1>5, <1>6 DEF ListUserAllowedNodes

LEMMA ListUserProtocolAccessByNodeEffect ==
  ASSUME AccessInv, NEW n \in Nodes, ListUserProtocolAccessByNode(n)
  PROVE  /\ \A q \in Requests \ {n} : req'[q] = req[q]
         /\ db' = db /\ req[n].pc = "entries" /\ req'[n].pc = "resolve"
         /\ req'[n].todo = req[n].todo /\ req'[n].clean = req[n].clean
         /\ req'[n].writes = req[n].writes /\ req'[n].entitled = req[n].entitled
         /\ req'[n].view.row = req[n].view.row /\ req'[n].view.node = req[n].view.node
         /\ req'[n].view.tags = req[n].view.tags /\ req'[n].view.allowed = req[n].view.allowed
         /\ req'[n].view.entries = db.entries
<1>1. n \in Requests /\ req[n] \in RequestStates /\ req[n].view \in Views
  BY DEF Requests, AccessInv, RequestsFormed, RequestStates
<1> DEFINE view == [req[n].view EXCEPT !.entries = db.entries]
<1>2. /\ view.row = req[n].view.row /\ view.node = req[n].view.node
      /\ view.tags = req[n].view.tags /\ view.allowed = req[n].view.allowed
      /\ view.entries = db.entries
  BY <1>1 DEF Views
<1>3. req' = [req EXCEPT ![n] = [req[n] EXCEPT !.pc = "resolve", !.view = view]]
  BY <1>1 DEF ListUserProtocolAccessByNode, AccessInv, RequestsFormed
<1> HIDE DEF view
<1> QED BY <1>1, <1>2, <1>3 DEF ListUserProtocolAccessByNode, RequestStates, AccessInv, RequestsFormed

\* The credentials a request sees or gives are in what it has read of the row,
\* and nothing else of that changes.
LEMMA ensureUserSecretsEffect ==
  ASSUME AccessInv, NEW r \in Requests, NEW u \in Users, ensureUserSecrets(r, u)
  PROVE  /\ req[r].pc = "load" /\ u \in req[r].todo
         /\ r \in Nodes => req'[r].pc = "tags" /\ req'[r].todo = req[r].todo /\ req'[r].at = u
         /\ r \in Users => req'[r].pc = IF req[r].todo = {u} THEN "profiles" ELSE "load"
         /\ req'[r].clean = req[r].clean /\ req'[r].writes = req[r].writes
         /\ req'[r].entitled = req[r].entitled
         /\ \/ /\ req'[r].view = req[r].view /\ db' = db
               /\ UNCHANGED <<fresh, offer>>
               /\ \A q \in Requests \ {r} : req'[q] = req[q]
            \/ /\ req'[r].view = [req[r].view EXCEPT !.row[u].secret = r] /\ db' = db
               /\ u \notin Listed(db)
               /\ UNCHANGED <<fresh, offer>>
               /\ \A q \in Requests \ {r} : req'[q] = req[q]
            \/ /\ req'[r].view = [req[r].view EXCEPT !.row[u].secret = r]
               /\ db' = [db EXCEPT !.row[u].secret = r]
               /\ Stale
               /\ \A q \in Requests \ {r} :
                    req'[q] = [req[q] EXCEPT !.clean = @ /\ (q \in Admins \/ req[q].pc = "idle")]
<1> DEFINE next == IF r \in Nodes THEN [req EXCEPT ![r].pc = "tags", ![r].at = u]
                   ELSE AfterUser(r, u)
           base == next[r]
           given == [base EXCEPT !.view.row[u].secret = r]
<1>1. req \in [Requests -> RequestStates] /\ req[r] \in RequestStates
  BY DEF AccessInv, RequestsFormed
<1>2. r \in Users => r \notin Nodes
  BY AccessAssumption
<1>3. /\ r \in Nodes => base.pc = "tags" /\ base.todo = req[r].todo /\ base.at = u
      /\ r \in Users => base.pc = IF req[r].todo \ {u} = {} THEN "profiles" ELSE "load"
      /\ base.clean = req[r].clean /\ base.writes = req[r].writes
      /\ base.entitled = req[r].entitled /\ base.view = req[r].view
      /\ DOMAIN base = DOMAIN req[r]
      /\ DOMAIN next = Requests /\ \A q \in Requests \ {r} : next[q] = req[q]
  BY <1>1, <1>2 DEF AfterUser, RequestStates
<1>4. /\ {"view", "pc", "todo", "at", "clean", "writes", "entitled"} \subseteq DOMAIN base
  BY <1>1, <1>3 DEF RequestStates
<1>5. /\ given.pc = base.pc /\ given.todo = base.todo /\ given.at = base.at
      /\ given.clean = base.clean /\ given.writes = base.writes
      /\ given.entitled = base.entitled
      /\ given.view = [req[r].view EXCEPT !.row[u].secret = r]
  <2> HIDE DEF base
  <2> QED BY <1>3, <1>4
<1>6. req[r].pc = "load" /\ u \in req[r].todo
  BY DEF ensureUserSecrets
<1>7. (req[r].todo \ {u} = {}) <=> (req[r].todo = {u})
  BY <1>6
<1>8. \/ /\ req' = next /\ UNCHANGED <<db, fresh, offer>>
      \/ /\ u \notin Listed(db)
         /\ req' = [next EXCEPT ![r].view.row[u].secret = r] /\ UNCHANGED <<db, fresh, offer>>
      \/ /\ db' = [db EXCEPT !.row[u].secret = r] /\ Stale
         /\ req' = [q \in Requests |->
                      IF q = r THEN [next[q] EXCEPT !.view.row[u].secret = r]
                      ELSE [req[q] EXCEPT !.clean = @ /\ (q \in Admins \/ req[q].pc = "idle")]]
  BY DEF ensureUserSecrets
<1> HIDE DEF next
<1>9. \/ /\ req'[r] = base /\ db' = db /\ UNCHANGED <<fresh, offer>>
         /\ \A q \in Requests \ {r} : req'[q] = req[q]
      \/ /\ req'[r] = given /\ db' = db /\ u \notin Listed(db) /\ UNCHANGED <<fresh, offer>>
         /\ \A q \in Requests \ {r} : req'[q] = req[q]
      \/ /\ req'[r] = given /\ db' = [db EXCEPT !.row[u].secret = r] /\ Stale
         /\ \A q \in Requests \ {r} :
              req'[q] = [req[q] EXCEPT !.clean = @ /\ (q \in Admins \/ req[q].pc = "idle")]
  BY <1>3, <1>8
<1> HIDE DEF base, given
<1> QED BY <1>3, <1>5, <1>6, <1>7, <1>9


-----------------------------------------------------------------------------
(* Offers and configurations.  A request that no write has hit has read the *)
(* tables as they are, and so has the last answer of everybody in fresh.    *)

\* What request q of r has read is what the tables have.
Agrees(q, r, tables) ==
  q.pc # "idle" =>
    /\ r \in Nodes =>
         /\ q.view.node = tables.node /\ r \in ListedNodes(tables)
         /\ RowsRead(q) => q.view.row = tables.row /\ q.todo \subseteq Listed(tables)
         /\ \A u \in TagsRead(q) \cap Listed(tables) : q.view.tags[u] = tables.tags[u]
         /\ \A u \in AllowedRead(q) \cap Listed(tables) : q.view.allowed[u] = tables.allowed[u]
         /\ q.pc = "resolve" => q.view.entries = tables.entries
    /\ r \in Users =>
         q.view.row[r] = tables.row[r] /\ r \in Listed(tables)

\* No write has hit a clean request, so what it has read is there.
CleanInv == \A r \in Nodes \cup Users : req[r].clean => Agrees(req[r], r, db)

\* Who has been answered since the last write has what the tables give.
FreshInv ==
  /\ \A n \in fresh \cap Nodes :
       n \in ListedNodes(db) /\ config[n] = resolveNodeRuntimeConfig(db, db.entries, n)
  /\ \A u \in fresh \cap Users : u \in Listed(db) /\ offer[u] = BuildSubscription(db, u)

\* A request that is over has read nothing.
LEMMA IdleAgrees == \A r, tables : Agrees(Idle, r, tables)
BY DEF Agrees, Idle

\* A step of one request that writes nothing.
LEMMA CleanStep ==
  ASSUME CleanInv, db' = db, NEW r \in Requests,
         \A q \in Requests \ {r} : req'[q] = req[q],
         r \in Nodes \cup Users /\ req'[r].clean => Agrees(req'[r], r, db)
  PROVE  CleanInv'
BY DEF CleanInv, Requests

\* A write of access data interrupts every sync and subscription under way.
LEMMA CleanWrite ==
  ASSUME NEW requests \in [Requests -> RequestStates], Wrote(requests)
  PROVE  CleanInv' /\ FreshInv'
<1>1. ASSUME NEW r \in Nodes \cup Users, req'[r].clean
      PROVE  Agrees(req'[r], r, db')
  <2>1. r \in Requests /\ r \notin Admins /\ requests[r] \in RequestStates
    BY AccessAssumption DEF Requests
  <2>2. req'[r] = Interrupted(requests[r], r)
    BY <2>1 DEF Wrote
  <2>3. CASE requests[r].pc = "idle"
    BY <2>2, <2>3 DEF Interrupted, Agrees
  <2>4. CASE requests[r].pc # "idle"
    <3>1. Interrupted(requests[r], r).clean = FALSE
      BY <2>1, <2>4 DEF Interrupted, RequestStates
    <3> QED BY <1>1, <2>2, <3>1
  <2> QED BY <2>3, <2>4
<1>2. fresh' = {}
  BY DEF Wrote, Stale
<1> QED BY <1>1, <1>2 DEF CleanInv, FreshInv

\* Nothing is answered and nothing is written.
LEMMA FreshStep ==
  ASSUME FreshInv, UNCHANGED <<db, fresh, offer, config>> PROVE FreshInv'
BY DEF FreshInv

\* A write whose error is ignored, by a request that has read nothing wrong.
LEMMA WriteOrNotClean ==
  ASSUME AccessInv, CleanInv, FreshInv, NEW r \in Requests, NEW view, NEW after \in RequestStates,
         WriteOrNot(r, view, after),
         r \in Nodes \cup Users /\ after.clean => Agrees(after, r, db)
  PROVE  CleanInv' /\ FreshInv'
<1> DEFINE done == [req EXCEPT ![r] = after]
<1>1. done \in [Requests -> RequestStates]
  BY DEF AccessInv, RequestsFormed
<1>2. CASE Wrote(done)
  BY <1>1, <1>2, CleanWrite
<1>3. CASE req' = done /\ UNCHANGED <<db, fresh, offer>>
  <2>1. (\A q \in Requests \ {r} : req'[q] = req[q]) /\ req'[r] = after
    BY <1>3 DEF AccessInv, RequestsFormed
  <2> QED BY <1>3, <2>1, CleanStep, FreshStep DEF WriteOrNot
<1> QED BY <1>2, <1>3 DEF WriteOrNot

\* Credentials do not change who is listed.
LEMMA SecretListed ==
  ASSUME NEW view \in Views, NEW u \in Users, NEW secret
  PROVE  LET given == [view EXCEPT !.row[u].secret = secret] IN
         /\ Listed(given) = Listed(view) /\ ListedNodes(given) = ListedNodes(view)
         /\ given.node = view.node /\ given.tags = view.tags /\ given.allowed = view.allowed
         /\ given.entries = view.entries
         /\ given.row = [view.row EXCEPT ![u].secret = secret]
         /\ \A v \in Users : /\ given.row[v].life = view.row[v].life
                             /\ given.row[v].status = view.row[v].status
                             /\ given.row[v].limit = view.row[v].limit
                             /\ given.row[v].used = view.row[v].used
                             /\ given.row[v].mode = view.row[v].mode
<1> DEFINE given == [view EXCEPT !.row[u].secret = secret]
<1>1. /\ given.node = view.node /\ given.tags = view.tags /\ given.allowed = view.allowed
      /\ given.entries = view.entries
      /\ given.row = [view.row EXCEPT ![u].secret = secret]
  BY DEF Views
<1>2. \A v \in Users : given.row[v] = IF v = u THEN [view.row[u] EXCEPT !.secret = secret]
                                      ELSE view.row[v]
  BY <1>1 DEF Views
<1>3. \A v \in Users : view.row[v] \in Rows
  BY DEF Views
<1> HIDE DEF given
<1>4. \A v \in Users : /\ given.row[v].life = view.row[v].life
                       /\ given.row[v].status = view.row[v].status
                       /\ given.row[v].limit = view.row[v].limit
                       /\ given.row[v].used = view.row[v].used
                       /\ given.row[v].mode = view.row[v].mode
  BY <1>2, <1>3 DEF Rows
<1>5. Listed(given) = Listed(view) /\ ListedNodes(given) = ListedNodes(view)
  BY <1>1, <1>4 DEF Listed, ListedNodes
<1> QED BY <1>1, <1>4, <1>5 DEF given

LEMMA SecretsClean ==
  ASSUME AccessInv, CleanInv, FreshInv, NEW r \in Requests, NEW u \in Users,
         r \in Users => r = u, ensureUserSecrets(r, u)
  PROVE  CleanInv' /\ FreshInv'
<1> DEFINE given(view) == [view EXCEPT !.row[u].secret = r]
<1>1. /\ req[r] \in RequestStates /\ Formed(req[r], r) /\ req[r].view \in Views /\ db \in Views
      /\ req[r].todo \subseteq Users
  BY DEF AccessInv, RequestsFormed, OthersTyped, RequestStates
<1>2. req[r].pc = "load" /\ u \in req[r].todo
  BY ensureUserSecretsEffect
<1>3. req'[r].clean = req[r].clean
  BY ensureUserSecretsEffect
\* What r has read agrees with the tables, when both or neither were given the
\* credentials.
<1>4. ASSUME r \in Nodes \cup Users, req'[r].clean, NEW tables,
             \/ req'[r].view = req[r].view /\ tables = db
             \/ req'[r].view = given(req[r].view) /\ tables = given(db)
      PROVE  Agrees(req'[r], r, tables)
  <2>1. Agrees(req[r], r, db)
    BY <1>3, <1>4 DEF CleanInv
  <2>2. CASE r \in Nodes
    <3>1. req'[r].pc = "tags" /\ req'[r].todo = req[r].todo /\ req'[r].at = u /\ r \notin Users
      BY <2>2, ensureUserSecretsEffect, AccessAssumption
    <3>2. TagsRead(req'[r]) = TagsRead(req[r]) /\ AllowedRead(req'[r]) = AllowedRead(req[r])
      BY <1>2, <3>1 DEF TagsRead, AllowedRead
    <3>3. /\ req[r].view.node = db.node /\ r \in ListedNodes(db)
          /\ req[r].view.row = db.row /\ req[r].todo \subseteq Listed(db)
          /\ \A v \in TagsRead(req[r]) \cap Listed(db) : req[r].view.tags[v] = db.tags[v]
          /\ \A v \in AllowedRead(req[r]) \cap Listed(db) : req[r].view.allowed[v] = db.allowed[v]
      BY <1>2, <2>1, <2>2 DEF Agrees, RowsRead
    <3>4. /\ req'[r].view.node = tables.node /\ r \in ListedNodes(tables)
          /\ req'[r].view.row = tables.row /\ Listed(tables) = Listed(db)
          /\ req'[r].view.tags = req[r].view.tags /\ tables.tags = db.tags
          /\ req'[r].view.allowed = req[r].view.allowed /\ tables.allowed = db.allowed
      <4>1. CASE req'[r].view = req[r].view /\ tables = db
        BY <3>3, <4>1
      <4>2. CASE req'[r].view = given(req[r].view) /\ tables = given(db)
        BY <1>1, <3>3, <4>2, SecretListed
      <4> QED BY <1>4, <4>1, <4>2
    <3> QED BY <3>1, <3>2, <3>3, <3>4 DEF Agrees
  <2>3. CASE r \in Users
    <3>1. r = u /\ r \notin Nodes
      BY <2>3, AccessAssumption
    <3>2. req[r].view.row[u] = db.row[u] /\ u \in Listed(db)
      BY <1>2, <2>1, <2>3, <3>1 DEF Agrees
    <3>3. req'[r].view.row[u] = tables.row[u] /\ u \in Listed(tables)
      <4>1. CASE req'[r].view = req[r].view /\ tables = db
        BY <3>2, <4>1
      <4>2. CASE req'[r].view = given(req[r].view) /\ tables = given(db)
        <5>1. /\ req'[r].view.row = [req[r].view.row EXCEPT ![u].secret = r]
              /\ tables.row = [db.row EXCEPT ![u].secret = r]
              /\ Listed(tables) = Listed(db)
          BY <1>1, <4>2, SecretListed
        <5>2. u \in DOMAIN req[r].view.row /\ u \in DOMAIN db.row
          BY <1>1 DEF Views
        <5> QED BY <3>2, <5>1, <5>2
      <4> QED BY <1>4, <4>1, <4>2
    <3> QED BY <3>1, <3>3 DEF Agrees
  <2> QED BY <1>4, <2>2, <2>3
<1>5. CASE /\ req'[r].view = req[r].view /\ db' = db
           /\ UNCHANGED <<fresh, offer>>
           /\ \A q \in Requests \ {r} : req'[q] = req[q]
  <2>1. CleanInv'
    BY <1>4, <1>5, CleanStep
  <2> QED BY <1>5, <2>1, FreshStep DEF ensureUserSecrets
<1>6. CASE /\ req'[r].view = given(req[r].view) /\ db' = db
           /\ u \notin Listed(db)
           /\ UNCHANGED <<fresh, offer>>
           /\ \A q \in Requests \ {r} : req'[q] = req[q]
  <2>1. ~ (r \in Nodes \cup Users /\ req[r].clean)
    <3> SUFFICES ASSUME r \in Nodes \cup Users, Agrees(req[r], r, db) PROVE FALSE
      BY DEF CleanInv
    <3>1. r \in Nodes => u \in Listed(db)
      BY <1>2 DEF Agrees, RowsRead
    <3>2. r \in Users => u \in Listed(db)
      BY <1>2 DEF Agrees
    <3> QED BY <1>6, <3>1, <3>2
  <2>2. CleanInv'
    BY <1>3, <1>6, <2>1, CleanStep
  <2> QED BY <1>6, <2>2, FreshStep DEF ensureUserSecrets
<1>7. CASE /\ req'[r].view = given(req[r].view)
           /\ db' = given(db)
           /\ Stale
           /\ \A q \in Requests \ {r} :
                req'[q] = [req[q] EXCEPT !.clean = @ /\ (q \in Admins \/ req[q].pc = "idle")]
  <2>1. ASSUME NEW q \in (Nodes \cup Users) \ {r}, req'[q].clean
        PROVE  Agrees(req'[q], q, db')
    <3>1. q \in Requests \ {r} /\ q \notin Admins /\ req[q] \in RequestStates
      BY AccessAssumption DEF Requests, AccessInv, RequestsFormed
    <3> DEFINE clean == req[q].clean /\ (q \in Admins \/ req[q].pc = "idle")
    <3>2. req'[q] = [req[q] EXCEPT !.clean = clean]
      BY <1>7, <3>1
    <3>3. req'[q].pc = req[q].pc /\ (req'[q].clean <=> clean)
      BY <3>1, <3>2 DEF RequestStates
    <3>4. req[q].pc = "idle"
      BY <2>1, <3>1, <3>3
    <3> QED BY <3>3, <3>4 DEF Agrees
  <2>2. CleanInv'
    BY <1>4, <1>7, <2>1 DEF CleanInv
  <2>3. FreshInv'
    BY <1>7 DEF Stale, FreshInv
  <2> QED BY <2>2, <2>3
<1> HIDE DEF given
<1>8. \/ /\ req'[r].view = req[r].view /\ db' = db
         /\ UNCHANGED <<fresh, offer>>
         /\ \A q \in Requests \ {r} : req'[q] = req[q]
      \/ /\ req'[r].view = given(req[r].view) /\ db' = db
         /\ u \notin Listed(db)
         /\ UNCHANGED <<fresh, offer>>
         /\ \A q \in Requests \ {r} : req'[q] = req[q]
      \/ /\ req'[r].view = given(req[r].view)
         /\ db' = given(db)
         /\ Stale
         /\ \A q \in Requests \ {r} :
              req'[q] = [req[q] EXCEPT !.clean = @ /\ (q \in Admins \/ req[q].pc = "idle")]
  BY ensureUserSecretsEffect DEF given
<1> QED BY <1>5, <1>6, <1>7, <1>8

LEMMA StartSyncClean ==
  ASSUME AccessInv, CleanInv, FreshInv, NEW n \in Nodes, StartSync(n) PROVE CleanInv' /\ FreshInv'
<1>1. n \in Requests /\ n \notin Users
  BY AccessAssumption DEF Requests
<1>2. Agrees(req'[n], n, db)
  BY <1>1, StartSyncEffect DEF Agrees, RowsRead, TagsRead, AllowedRead
<1>3. CleanInv'
  BY <1>1, <1>2, StartSyncEffect, CleanStep
<1> QED BY <1>3, FreshStep DEF StartSync, historyVars

LEMMA ListUsersClean ==
  ASSUME AccessInv, CleanInv, FreshInv, NEW n \in Nodes, ListUsers(n) PROVE CleanInv' /\ FreshInv'
<1>1. n \in Requests /\ n \notin Users
  BY AccessAssumption DEF Requests
<1>2. ASSUME req'[n].clean PROVE Agrees(req'[n], n, db)
  <2>1. req[n].view.node = db.node /\ n \in ListedNodes(db)
    BY <1>2, ListUsersEffect DEF CleanInv, Agrees
  <2>2. TagsRead(req'[n]) \cap Listed(db) = {} /\ AllowedRead(req'[n]) \cap Listed(db) = {}
    BY ListUsersEffect DEF TagsRead, AllowedRead
  <2>3. req'[n].pc # "resolve"
    BY ListUsersEffect
  <2> QED BY <1>1, <2>1, <2>2, <2>3, ListUsersEffect DEF Agrees
<1>3. CleanInv'
  BY <1>1, <1>2, ListUsersEffect, CleanStep
<1> QED BY <1>3, FreshStep DEF ListUsers, historyVars

LEMMA ListUserTagsClean ==
  ASSUME AccessInv, CleanInv, FreshInv, NEW n \in Nodes, ListUserTags(n)
  PROVE  CleanInv' /\ FreshInv'
<1> DEFINE u == req[n].at
<1>1. n \in Requests /\ n \notin Users
  BY AccessAssumption DEF Requests
<1>2. ASSUME req'[n].clean PROVE Agrees(req'[n], n, db)
  <2>1. /\ req[n].view.node = db.node /\ n \in ListedNodes(db)
        /\ req[n].view.row = db.row /\ req[n].todo \subseteq Listed(db)
        /\ \A v \in TagsRead(req[n]) \cap Listed(db) : req[n].view.tags[v] = db.tags[v]
        /\ \A v \in AllowedRead(req[n]) \cap Listed(db) : req[n].view.allowed[v] = db.allowed[v]
    BY <1>2, ListUserTagsEffect DEF CleanInv, Agrees, RowsRead
  <2>2. /\ TagsRead(req'[n]) \subseteq TagsRead(req[n]) \cup {u}
        /\ AllowedRead(req'[n]) = AllowedRead(req[n])
    BY ListUserTagsEffect DEF TagsRead, AllowedRead
  <2>3. \A v \in TagsRead(req'[n]) \cap Listed(db) : req'[n].view.tags[v] = db.tags[v]
    BY <1>2, <2>1, <2>2, ListUserTagsEffect DEF TagsRead
  <2> QED BY <1>1, <2>1, <2>2, <2>3, ListUserTagsEffect DEF Agrees
<1>3. CleanInv'
  BY <1>1, <1>2, ListUserTagsEffect, CleanStep
<1> QED BY <1>3, FreshStep DEF ListUserTags, historyVars

LEMMA ListUserAllowedNodesClean ==
  ASSUME AccessInv, CleanInv, FreshInv, NEW n \in Nodes, ListUserAllowedNodes(n)
  PROVE  CleanInv' /\ FreshInv'
<1> DEFINE u == req[n].at
<1>1. n \in Requests /\ n \notin Users
  BY AccessAssumption DEF Requests
<1>2. ASSUME req'[n].clean PROVE Agrees(req'[n], n, db)
  <2>1. /\ req[n].view.node = db.node /\ n \in ListedNodes(db)
        /\ req[n].view.row = db.row /\ req[n].todo \subseteq Listed(db)
        /\ \A v \in TagsRead(req[n]) \cap Listed(db) : req[n].view.tags[v] = db.tags[v]
        /\ \A v \in AllowedRead(req[n]) \cap Listed(db) : req[n].view.allowed[v] = db.allowed[v]
    BY <1>2, ListUserAllowedNodesEffect DEF CleanInv, Agrees, RowsRead
  <2>2. /\ TagsRead(req'[n]) \subseteq TagsRead(req[n])
        /\ AllowedRead(req'[n]) \subseteq AllowedRead(req[n]) \cup {u}
        /\ req'[n].todo \subseteq Listed(db) /\ req'[n].pc # "resolve"
    BY <2>1, ListUserAllowedNodesEffect DEF TagsRead, AllowedRead
  <2>3. \A v \in AllowedRead(req'[n]) \cap Listed(db) : req'[n].view.allowed[v] = db.allowed[v]
    BY <1>2, <2>1, <2>2, ListUserAllowedNodesEffect DEF AllowedRead
  <2> QED BY <1>1, <2>1, <2>2, <2>3, ListUserAllowedNodesEffect DEF Agrees
<1>3. CleanInv'
  BY <1>1, <1>2, ListUserAllowedNodesEffect, CleanStep
<1> QED BY <1>3, FreshStep DEF ListUserAllowedNodes, historyVars

LEMMA ListUserProtocolAccessByNodeClean ==
  ASSUME AccessInv, CleanInv, FreshInv, NEW n \in Nodes, ListUserProtocolAccessByNode(n)
  PROVE  CleanInv' /\ FreshInv'
<1>1. n \in Requests /\ n \notin Users
  BY AccessAssumption DEF Requests
<1>2. ASSUME req'[n].clean PROVE Agrees(req'[n], n, db)
  <2>1. Agrees(req[n], n, db)
    BY <1>2, ListUserProtocolAccessByNodeEffect DEF CleanInv
  <2>2. TagsRead(req[n]) = Users /\ AllowedRead(req[n]) = Users /\ RowsRead(req[n])
    BY ListUserProtocolAccessByNodeEffect DEF TagsRead, AllowedRead, RowsRead
  <2> QED BY <1>1, <2>1, <2>2, ListUserProtocolAccessByNodeEffect DEF Agrees, TagsRead, AllowedRead
<1>3. CleanInv'
  BY <1>1, <1>2, ListUserProtocolAccessByNodeEffect, CleanStep
<1> QED BY <1>3, FreshStep DEF ListUserProtocolAccessByNode, historyVars

LEMMA TouchClean ==
  ASSUME AccessInv, CleanInv, FreshInv, NEW n \in Nodes, TouchNodeHeartbeat(n)
  PROVE  CleanInv' /\ FreshInv'
<1> DEFINE view == [db EXCEPT !.node[n].status = IF n \in ListedNodes(db) THEN "online" ELSE @]
           after == [req[n] EXCEPT !.pc = "users"]
<1>1. n \in Requests /\ n \notin Users /\ req[n] \in RequestStates /\ req[n].pc = "touch"
  BY AccessAssumption DEF Requests, AccessInv, RequestsFormed, TouchNodeHeartbeat
<1>2. WriteOrNot(n, view, after)
  BY DEF TouchNodeHeartbeat
<1>3. /\ after \in RequestStates /\ after.pc = "users" /\ after.view = req[n].view
      /\ after.clean = req[n].clean
  BY <1>1 DEF RequestStates
<1> HIDE DEF view, after
<1>4. ASSUME after.clean PROVE Agrees(after, n, db)
  <2>1. req[n].view.node = db.node /\ n \in ListedNodes(db)
    BY <1>1, <1>3, <1>4 DEF CleanInv, Agrees
  <2>2. ~ RowsRead(after) /\ TagsRead(after) = {} /\ AllowedRead(after) = {}
    BY <1>3 DEF RowsRead, TagsRead, AllowedRead
  <2> QED BY <1>1, <1>3, <2>1, <2>2 DEF Agrees
<1> QED BY <1>1, <1>2, <1>3, <1>4, WriteOrNotClean

\* What is resolved for a node depends on the rows and the node, on tags and
\* allowed nodes of listed users, and on the entries.
LEMMA SameResolved ==
  ASSUME NEW view, NEW tables, NEW again, NEW n \in Nodes,
         view.node[n] = tables.node[n], view.row = tables.row,
         \A u \in Listed(tables) : view.tags[u] = tables.tags[u] /\ view.allowed[u] = tables.allowed[u],
         view.entries = tables.entries
  PROVE  resolveNodeRuntimeConfig(view, again, n) = resolveNodeRuntimeConfig(tables, again, n)
<1>1. Listed(view) = Listed(tables)
  BY DEF Listed
<1>2. \A u \in Listed(tables) : userCanAccessNode(view, u, n) <=> userCanAccessNode(tables, u, n)
  BY DEF userCanAccessNode
<1>3. ListEligibleUsersForNode(view, n) = ListEligibleUsersForNode(tables, n)
  BY <1>1, <1>2 DEF ListEligibleUsersForNode
<1>4. \A u, type : Login(view, u, n, type) = Login(tables, u, n, type)
  BY DEF Login
<1>5. ListsUsers(view, n) = ListsUsers(tables, n)
  BY DEF ListsUsers
<1> QED BY <1>3, <1>4, <1>5 DEF resolveNodeRuntimeConfig

LEMMA SyncAnswersClean ==
  ASSUME AccessInv, CleanInv, FreshInv, NEW n \in Nodes, SyncAnswers(n)
  PROVE  CleanInv' /\ FreshInv'
<1>1. n \in Requests /\ n \notin Users
  BY AccessAssumption DEF Requests
<1>2. /\ req[n].pc = "resolve" /\ db' = db /\ offer' = offer
      /\ config' = [config EXCEPT ![n] = resolveNodeRuntimeConfig(req[n].view, db.entries, n)]
      /\ fresh' = IF req[n].clean THEN fresh \cup {n} ELSE fresh \ {n}
      /\ req'[n] = Idle /\ \A q \in Requests \ {n} : req'[q] = req[q]
  BY <1>1 DEF SyncAnswers, Answered, AccessInv, RequestsFormed
<1>3. CleanInv'
  BY <1>1, <1>2, IdleAgrees, CleanStep
<1>4. ASSUME req[n].clean
      PROVE  /\ resolveNodeRuntimeConfig(req[n].view, db.entries, n)
                  = resolveNodeRuntimeConfig(db, db.entries, n)
             /\ n \in ListedNodes(db)
  <2>1. TagsRead(req[n]) = Users /\ AllowedRead(req[n]) = Users /\ RowsRead(req[n])
    BY <1>2 DEF TagsRead, AllowedRead, RowsRead
  <2>2. Listed(db) \subseteq Users
    BY DEF Listed
  <2>3. /\ req[n].view.node = db.node /\ req[n].view.row = db.row /\ n \in ListedNodes(db)
        /\ req[n].view.entries = db.entries
        /\ \A u \in Listed(db) : /\ req[n].view.tags[u] = db.tags[u]
                                 /\ req[n].view.allowed[u] = db.allowed[u]
    BY <1>2, <1>4, <2>1, <2>2 DEF CleanInv, Agrees
  <2> QED BY <2>3, SameResolved
<1>5. config' \in [Nodes -> SUBSET Logins] /\ config \in [Nodes -> SUBSET Logins]
  BY SyncAnswersInv DEF AccessInv, OthersTyped
<1>6. ASSUME NEW m \in fresh' \cap Nodes
      PROVE  m \in ListedNodes(db) /\ config'[m] = resolveNodeRuntimeConfig(db, db.entries, m)
  <2>1. CASE m = n
    BY <1>2, <1>4, <1>5, <1>6, <2>1
  <2>2. CASE m # n
    BY <1>2, <1>5, <1>6, <2>2 DEF FreshInv
  <2> QED BY <2>1, <2>2
<1>7. fresh' \cap Users \subseteq fresh
  BY <1>1, <1>2
<1>8. FreshInv'
  BY <1>2, <1>6, <1>7 DEF FreshInv
<1> QED BY <1>3, <1>8

LEMMA AbortClean ==
  ASSUME AccessInv, CleanInv, FreshInv, NEW r \in Requests, Abort(r) PROVE CleanInv' /\ FreshInv'
<1>1. req'[r] = Idle /\ \A q \in Requests \ {r} : req'[q] = req[q]
  BY DEF Abort, AccessInv, RequestsFormed
<1>2. CleanInv'
  BY <1>1, IdleAgrees, CleanStep DEF Abort
<1> QED BY <1>2, FreshStep DEF Abort, historyVars

LEMMA StartSubscriptionClean ==
  ASSUME AccessInv, CleanInv, FreshInv, NEW u \in Users, StartSubscription(u)
  PROVE  CleanInv' /\ FreshInv'
<1> DEFINE view == [Idle.view EXCEPT !.row[u] = db.row[u]]
<1>1. u \in Requests /\ u \notin Nodes
  BY AccessAssumption DEF Requests
<1>2. view.row[u] = db.row[u]
  BY IdleType DEF RequestStates, Views
<1>3. /\ req' = [req EXCEPT ![u] = [Idle EXCEPT !.pc = "load", !.todo = {u}, !.view = view]]
      /\ u \in Listed(db) /\ db' = db
  BY DEF StartSubscription
<1> HIDE DEF view
<1>4. req'[u].view = view /\ \A q \in Requests \ {u} : req'[q] = req[q]
  BY <1>1, <1>3, IdleType DEF RequestStates, AccessInv, RequestsFormed
<1>5. Agrees(req'[u], u, db)
  BY <1>1, <1>2, <1>3, <1>4 DEF Agrees
<1>6. CleanInv'
  BY <1>1, <1>3, <1>4, <1>5, CleanStep
<1> QED BY <1>6, FreshStep DEF StartSubscription, historyVars

LEMMA SubscriptionAnswersClean ==
  ASSUME AccessInv, CleanInv, FreshInv, NEW u \in Users, SubscriptionAnswers(u)
  PROVE  CleanInv' /\ FreshInv'
<1> DEFINE view == [db EXCEPT !.row = req[u].view.row]
<1>1. u \in Requests /\ u \notin Nodes
  BY AccessAssumption DEF Requests
<1>2. /\ req[u].pc = "profiles" /\ db' = db /\ config' = config
      /\ offer' = [offer EXCEPT ![u] = IF req[u].clean THEN BuildSubscription(view, u) ELSE {}]
      /\ fresh' = IF req[u].clean THEN fresh \cup {u} ELSE fresh \ {u}
      /\ req'[u] = Idle /\ \A q \in Requests \ {u} : req'[q] = req[q]
  BY <1>1 DEF SubscriptionAnswers, Answered, AccessInv, RequestsFormed
<1>3. CleanInv'
  BY <1>1, <1>2, IdleAgrees, CleanStep
<1>4. ASSUME req[u].clean
      PROVE  u \in Listed(db) /\ BuildSubscription(view, u) = BuildSubscription(db, u)
  <2>1. req[u].view.row[u] = db.row[u] /\ u \in Listed(db)
    BY <1>2, <1>4 DEF CleanInv, Agrees
  <2>2. /\ view.row[u] = db.row[u] /\ view.node = db.node /\ view.tags = db.tags
        /\ view.allowed = db.allowed /\ view.entries = db.entries
    BY <2>1 DEF AccessInv, OthersTyped, Views
  <2> HIDE DEF view
  <2>3. AccessibleNodesForUser(view, u) = AccessibleNodesForUser(db, u)
    BY <2>2 DEF AccessibleNodesForUser, ListedNodes, userCanAccessNode
  <2>4. \A n : buildNodeProfilesForUser(view, u, n) = buildNodeProfilesForUser(db, u, n)
    BY <2>2 DEF buildNodeProfilesForUser
  <2>5. \A n, type : Profile(view, u, n, type) = Profile(db, u, n, type)
    BY <2>2 DEF Profile
  <2> QED BY <2>1, <2>2, <2>3, <2>4, <2>5 DEF BuildSubscription
<1> HIDE DEF view
<1>5. ASSUME NEW v \in fresh' \cap Users
      PROVE  v \in Listed(db) /\ offer'[v] = BuildSubscription(db, v)
  <2>1. v \in DOMAIN offer
    BY <1>5 DEF AccessInv, OthersTyped
  <2>2. CASE v = u
    BY <1>2, <1>4, <1>5, <2>1, <2>2
  <2>3. CASE v # u
    BY <1>2, <1>5, <2>1, <2>3 DEF FreshInv
  <2> QED BY <2>2, <2>3
<1>6. fresh' \cap Nodes \subseteq fresh
  BY <1>1, <1>2
<1>7. FreshInv'
  BY <1>2, <1>5, <1>6 DEF FreshInv
<1> QED BY <1>3, <1>7

\* A step of a PATCH or a POST that writes nothing.
LEMMA AdminClean ==
  ASSUME AccessInv, CleanInv, FreshInv, NEW c \in Admins,
         \/ \E u \in Users, body \in Bodies : StartPatch(c, u, body)
         \/ UserNotFound(c)
  PROVE  CleanInv' /\ FreshInv'
<1>1. c \in Requests /\ c \notin Nodes \cup Users
  BY AccessAssumption DEF Requests
<1>2. \A q \in Requests \ {c} : req'[q] = req[q]
  BY DEF StartPatch, UserNotFound, AccessInv, RequestsFormed
<1>3. UNCHANGED <<db, fresh, offer, config>>
  BY DEF StartPatch, UserNotFound, historyVars
<1>4. CleanInv'
  BY <1>1, <1>2, <1>3, CleanStep
<1> QED BY <1>3, <1>4, FreshStep

LEMMA UpdateUserClean ==
  ASSUME AccessInv, CleanInv, FreshInv, NEW c \in Admins, UpdateUser(c)
  PROVE  CleanInv' /\ FreshInv'
<1> DEFINE body == req[c].body
           request == IF "allowed" \in DOMAIN body THEN [req[c] EXCEPT !.pc = "replace"] ELSE Idle
           requests == [req EXCEPT ![c] = request]
<1>1. c \in Requests
  BY DEF Requests
<1>2. request \in RequestStates /\ requests \in [Requests -> RequestStates]
  BY <1>1, IdleType DEF AccessInv, RequestsFormed, RequestStates
<1>3. Wrote(requests)
  BY <1>1 DEF UpdateUser, AccessInv, RequestsFormed
<1> HIDE DEF requests
<1> QED BY <1>2, <1>3, CleanWrite

LEMMA CreateUserClean ==
  ASSUME AccessInv, CleanInv, FreshInv, NEW c \in Admins, NEW u \in Users, NEW body \in Creations,
         CreateUser(c, u, body)
  PROVE  CleanInv' /\ FreshInv'
<1> DEFINE after == AfterInsert([Idle EXCEPT !.user = u, !.body = body])
           requests == [req EXCEPT ![c] = after]
<1>1. after \in RequestStates /\ Wrote(requests)
  BY CreateUserEffect
<1> HIDE DEF after
<1>2. requests \in [Requests -> RequestStates]
  BY <1>1 DEF AccessInv, RequestsFormed
<1> HIDE DEF requests
<1> QED BY <1>1, <1>2, CleanWrite

LEMMA ReplaceClean ==
  ASSUME AccessInv, CleanInv, FreshInv, NEW c \in Admins, ReplaceAllowedNodes(c)
  PROVE  CleanInv' /\ FreshInv'
<1>1. c \in Requests
  BY DEF Requests
<1> QED BY <1>1, IdleType, IdleAgrees, WriteOrNotClean DEF ReplaceAllowedNodes

LEMMA AttachClean ==
  ASSUME AccessInv, CleanInv, FreshInv, NEW c \in Admins, AttachNewTags(c)
  PROVE  CleanInv' /\ FreshInv'
<1>1. c \in Requests /\ c \notin Nodes \cup Users
  BY AccessAssumption DEF Requests
<1>2. AfterTags(req[c]) \in RequestStates
  BY <1>1, IdleType DEF AfterTags, AccessInv, RequestsFormed, RequestStates
<1> QED BY <1>1, <1>2, WriteOrNotClean DEF AttachNewTags

LEMMA WriteStepClean ==
  ASSUME AccessInv, CleanInv, FreshInv, WriteStep PROVE CleanInv' /\ FreshInv'
<1>1. Wrote(req)
  BY DEF WriteStep, AttachTagsToUser, ReplaceUserProtocolAccess, CreateNode, UpdateNode,
         UpdateNodeConfig, DeleteNode, SaveUsage, DeleteUser, Write
<1>2. req \in [Requests -> RequestStates]
  BY DEF AccessInv, RequestsFormed
<1> QED BY <1>1, <1>2, CleanWrite

LEMMA NextFresh == AccessInv /\ CleanInv /\ FreshInv /\ [Next]_vars => CleanInv' /\ FreshInv'
<1> SUFFICES ASSUME AccessInv, CleanInv, FreshInv, [Next]_vars PROVE CleanInv' /\ FreshInv'
  OBVIOUS
<1>1. ASSUME NEW n \in Nodes, SyncStep(n) PROVE CleanInv' /\ FreshInv'
  <2>1. n \in Requests /\ n \notin Users
    BY AccessAssumption DEF Requests
  <2> QED BY <1>1, <2>1, StartSyncClean, TouchClean, ListUsersClean, SecretsClean,
             ListUserTagsClean, ListUserAllowedNodesClean, ListUserProtocolAccessByNodeClean,
             SyncAnswersClean
          DEF SyncStep
<1>2. ASSUME NEW u \in Users, SubscriptionStep(u) PROVE CleanInv' /\ FreshInv'
  <2>1. u \in Requests
    BY DEF Requests
  <2> QED BY <1>2, <2>1, StartSubscriptionClean, SecretsClean, SubscriptionAnswersClean
          DEF SubscriptionStep
<1>3. ASSUME NEW c \in Admins, AdminStep(c) PROVE CleanInv' /\ FreshInv'
  <2>1. c \in Requests /\ c \notin Users
    BY AccessAssumption DEF Requests
  <2> QED BY <1>3, <2>1, AdminClean, SecretsClean, UpdateUserClean, CreateUserClean,
             AttachClean, ReplaceClean
          DEF AdminStep
<1>4. CASE UNCHANGED vars
  <2>1. UNCHANGED <<db, req, config, fresh, offer>>
    BY <1>4 DEF vars, historyVars
  <2> QED BY <2>1 DEF CleanInv, FreshInv
<1> QED BY <1>1, <1>2, <1>3, <1>4, AbortClean, WriteStepClean DEF Next

\* When the tables are at rest, that is, a user and a node have both been
\* answered since they last changed, a client with a profile the user holds
\* (BuildSubscription) is let in by the node (resolveNodeRuntimeConfig), with
\* every password the two compose, and a user the node lists holds a profile, but
\* for the cases the property names: however the statements of syncs,
\* subscriptions and administrators interleaved before.
THEOREM OffersMatchNodes == Spec => []OfferMatchesNode
<1>1. Init => CleanInv /\ FreshInv
  BY IdleAgrees DEF Init, CleanInv, FreshInv, Requests
<1>2. AccessInv /\ FreshInv => OfferMatchesNode
  <2> SUFFICES ASSUME AccessInv, FreshInv,
                      NEW u \in fresh \cap Users, NEW n \in fresh \cap Nodes
               PROVE  LET offered == {profile \in offer[u] : profile.node = n}
                          admitted == {login \in config[n] : login.user = u}
                      IN /\ \A profile \in offered :
                              \/ Admits(admitted, profile)
                              \/ OnlyDisabledEntries(db.entries, u, n)
                              \/ profile.type = "shadowtls" /\ WrongPassword(db.node[n].settings)
                         /\ \A login \in admitted :
                              \/ \E profile \in offered :
                                   profile.type = login.type /\ profile.secret = login.secret
                              \/ login.type = "shadowsocks" /\ "shadowtls" \in Inbounds[n]
                              \/ /\ login.type = "shadowtls"
                                 /\ \/ "shadowsocks" \notin Inbounds[n]
                                    \/ db.entries[u][n]["shadowsocks"] = "off"
    BY DEF OfferMatchesNode
  <2>1. /\ u \in Listed(db) /\ n \in ListedNodes(db) /\ n \in Nodes /\ db \in Views
        /\ offer[u] = BuildSubscription(db, u)
        /\ config[n] = resolveNodeRuntimeConfig(db, db.entries, n)
    BY DEF FreshInv, AccessInv, OthersTyped
  <2>2. ASSUME NEW profile \in offer[u], profile.node = n,
               ~ OnlyDisabledEntries(db.entries, u, n),
               ~ (profile.type = "shadowtls" /\ WrongPassword(db.node[n].settings))
        PROVE  Admits({login \in config[n] : login.user = u}, profile)
    BY <2>1, <2>2, OfferedIsAdmitted
  <2>3. ASSUME NEW login \in config[n], login.user = u,
               ~ (login.type = "shadowsocks" /\ "shadowtls" \in Inbounds[n]),
               ~ (/\ login.type = "shadowtls"
                  /\ \/ "shadowsocks" \notin Inbounds[n]
                     \/ db.entries[u][n]["shadowsocks"] = "off")
        PROVE  \E profile \in {p \in offer[u] : p.node = n} :
                 profile.type = login.type /\ profile.secret = login.secret
    <3>1. PICK profile \in BuildSubscription(db, login.user) :
            profile.node = n /\ profile.type = login.type /\ profile.secret = login.secret
      BY <2>1, <2>3, AdmittedIsOffered
    <3> QED BY <2>1, <2>3, <3>1
  <2> QED BY <2>2, <2>3
<1> QED BY <1>1, <1>2, InitInv, NextInv, NextFresh, PTL DEF Spec

-----------------------------------------------------------------------------
(* Who a configuration admits.  A sync that met one write at most has read  *)
(* each piece of the tables as it was before or as it is after that write.  *)

\* A row but for the credentials.
Open(row) == <<row.life, row.status, row.limit, row.used, row.mode>>

\* What decides on user u at node n.
Pieces(view, u, n) ==
  [row |-> Open(view.row[u]), tags |-> view.tags[u], allowed |-> view.allowed[u] \cap {n},
   entries |-> view.entries[u][n], node |-> view.node[n]]

Kinds == {"row", "tags", "allowed", "entries", "node"}

\* One piece at most has changed for each user who is still there.
OneChange(old, new, n) ==
  n \in ListedNodes(new) =>
    \A u \in Listed(new) : \E k \in Kinds :
      \A j \in Kinds \ {k} : Pieces(old, u, n)[j] = Pieces(new, u, n)[j]

\* What request q of n has read is from one of the two views, or nothing.
ReadFrom(q, n, old, new) ==
  /\ n \in ListedNodes(q.view)
  /\ q.view.node[n] \in {old.node[n], new.node[n]}
  /\ RowsRead(q) =>
       /\ \A u \in Users : Open(q.view.row[u]) \in {Open(old.row[u]), Open(new.row[u])}
       /\ \A u \in Listed(q.view) :
            /\ u \in TagsRead(q) => q.view.tags[u] \in {old.tags[u], new.tags[u], {}}
            /\ u \in AllowedRead(q) => q.view.allowed[u] \in {old.allowed[u], new.allowed[u], {}}

\* The tables were old before the write that q of n has met, if any.
TracedTo(q, n, old, tables) ==
  /\ q.writes = 0 => old = tables
  /\ Entitled(old, n) \cup Entitled(tables, n) \subseteq q.entitled
  /\ OneChange(old, tables, n)
  /\ ReadFrom(q, n, old, tables)

\* A request that met one write at most has met tables it can be traced to.
Traced(q, n, tables) ==
  q.pc # "idle" /\ q.writes <= 1 => \E old \in Views : TracedTo(q, n, old, tables)

TraceInv == \A n \in Nodes : Traced(req[n], n, db)

\* A user whom a view lists at a node by no more than the tables have is
\* entitled by the tables.
LEMMA BelowEntitled ==
  ASSUME NEW view, NEW tables, NEW again, NEW n \in Nodes, NEW u \in Users,
         NEW type \in ListsUsers(view, n),
         u \in ListEligibleUsersForNode(view, n), protocolEnabledForUser(again, u, n, type),
         n \in ListedNodes(view),
         Open(view.row[u]) = Open(tables.row[u]), view.node[n] = tables.node[n],
         view.tags[u] \subseteq tables.tags[u],
         view.allowed[u] \cap {n} \subseteq tables.allowed[u],
         view.entries[u][n] = tables.entries[u][n], again[u][n] = tables.entries[u][n]
  PROVE  <<u, type>> \in Entitled(tables, n)
<1>1. n \in ListedNodes(tables)
  BY DEF ListedNodes
<1>2. /\ view.row[u].life = tables.row[u].life /\ view.row[u].status = tables.row[u].status
      /\ view.row[u].limit = tables.row[u].limit /\ view.row[u].used = tables.row[u].used
      /\ view.row[u].mode = tables.row[u].mode
  BY DEF Open
<1>3. u \in Listed(tables) /\ isUserEligible(tables.row[u])
  BY <1>2 DEF Listed, ListEligibleUsersForNode, isUserEligible
<1>4. userCanAccessNode(view, u, n) /\ userHasAnyEnabledProtocol(view.entries, u, n)
  BY DEF ListEligibleUsersForNode
<1>5. userCanAccessNode(tables, u, n)
  <2>1. n \in view.allowed[u] => n \in tables.allowed[u]
    OBVIOUS
  <2> QED BY <1>2, <1>4, <2>1 DEF userCanAccessNode
<1>6. userHasAnyEnabledProtocol(tables.entries, u, n)
  BY <1>4 DEF userHasAnyEnabledProtocol
<1>7. protocolEnabledForUser(tables.entries, u, n, type)
  BY DEF protocolEnabledForUser
<1>8. Login(tables, u, n, type) \in resolveNodeRuntimeConfig(tables, tables.entries, n)
  BY <1>3, <1>5, <1>6, <1>7 DEF ListEligibleUsersForNode, resolveNodeRuntimeConfig, ListsUsers
<1>9. Login(tables, u, n, type).user = u /\ Login(tables, u, n, type).type = type
  BY DEF Login
<1> HIDE DEF Login
<1> QED BY <1>1, <1>8, <1>9 DEF Entitled

\* Views that differ in credentials only.
Alike(a, b) ==
  /\ a.node = b.node /\ a.tags = b.tags /\ a.allowed = b.allowed /\ a.entries = b.entries
  /\ \A u \in Users : Open(a.row[u]) = Open(b.row[u])

LEMMA EntitledAlike ==
  ASSUME NEW a, NEW b, Alike(a, b), NEW n \in Nodes
  PROVE  Entitled(a, n) \subseteq Entitled(b, n)
<1> SUFFICES ASSUME NEW e \in Entitled(a, n) PROVE e \in Entitled(b, n)
  OBVIOUS
<1>1. n \in ListedNodes(a)
  BY DEF Entitled
<1>2. PICK login \in resolveNodeRuntimeConfig(a, a.entries, n) : e = <<login.user, login.type>>
  BY <1>1 DEF Entitled
<1>3. PICK u \in ListEligibleUsersForNode(a, n) : \E type \in ListsUsers(a, n) :
        protocolEnabledForUser(a.entries, u, n, type) /\ login = Login(a, u, n, type)
  BY DEF resolveNodeRuntimeConfig
<1>4. PICK type \in ListsUsers(a, n) :
        protocolEnabledForUser(a.entries, u, n, type) /\ login = Login(a, u, n, type)
  BY <1>3
<1>5. e = <<u, type>> /\ u \in Users
  BY <1>2, <1>4 DEF Login, ListEligibleUsersForNode, Listed
<1> QED BY <1>1, <1>4, <1>5, BelowEntitled DEF Alike

LEMMA TracedAlike ==
  ASSUME NEW a, NEW b, NEW c, NEW d, Alike(a, b), Alike(c, d), NEW n \in Nodes, NEW q, NEW p,
         Alike(q.view, p.view), TracedTo(q, n, a, c), q.writes = 0 => b = d,
         RowsRead(p) <=> RowsRead(q), TagsRead(p) = TagsRead(q), AllowedRead(p) = AllowedRead(q),
         p.writes = q.writes, p.entitled = q.entitled
  PROVE  TracedTo(p, n, b, d)
<1>1. Entitled(b, n) \cup Entitled(d, n) \subseteq p.entitled
  <2>1. Alike(b, a) /\ Alike(d, c)
    BY DEF Alike
  <2> QED BY <2>1, EntitledAlike DEF TracedTo
<1>2. Listed(d) = Listed(c) /\ ListedNodes(d) = ListedNodes(c)
  BY DEF Alike, Listed, ListedNodes, Open
<1>3. \A u \in Users : Pieces(a, u, n) = Pieces(b, u, n) /\ Pieces(c, u, n) = Pieces(d, u, n)
  BY DEF Alike, Pieces
<1>4. OneChange(b, d, n)
  <2>1. OneChange(a, c, n) /\ Listed(c) \subseteq Users
    BY DEF TracedTo, Listed
  <2> SUFFICES ASSUME n \in ListedNodes(d), NEW u \in Listed(d)
               PROVE  \E k \in Kinds : \A j \in Kinds \ {k} : Pieces(b, u, n)[j] = Pieces(d, u, n)[j]
    BY DEF OneChange
  <2>2. PICK k \in Kinds : \A j \in Kinds \ {k} : Pieces(a, u, n)[j] = Pieces(c, u, n)[j]
    BY <1>2, <2>1 DEF OneChange
  <2>3. Pieces(a, u, n) = Pieces(b, u, n) /\ Pieces(c, u, n) = Pieces(d, u, n)
    BY <1>2, <1>3, <2>1
  <2> QED BY <2>2, <2>3
<1>5. /\ Listed(q.view) = Listed(p.view) /\ ListedNodes(q.view) = ListedNodes(p.view)
      /\ (RowsRead(q) <=> RowsRead(p))
      /\ TagsRead(q) = TagsRead(p) /\ AllowedRead(q) = AllowedRead(p)
  BY DEF Alike, Listed, ListedNodes, Open
<1>6. ReadFrom(p, n, b, d)
  BY <1>5 DEF ReadFrom, TracedTo, Alike
<1> QED BY <1>1, <1>4, <1>6 DEF TracedTo

LEMMA SecretAlike ==
  ASSUME NEW view \in Views, NEW u \in Users, NEW secret
  PROVE  Alike(view, [view EXCEPT !.row[u].secret = secret]) /\ Alike(view, view)
BY SecretListed DEF Alike, Open

\* A configuration that a traced sync answers with.
LEMMA TracedAdmits ==
  ASSUME NEW n \in Nodes, NEW q \in RequestStates, NEW old \in Views, NEW tables \in Views,
         TracedTo(q, n, old, tables), q.pc = "resolve",
         n \in ListedNodes(tables), q.view.entries = tables.entries,
         NEW login \in resolveNodeRuntimeConfig(q.view, tables.entries, n),
         login.user \in Listed(tables)
  PROVE  <<login.user, login.type>> \in q.entitled
<1>1. PICK u \in ListEligibleUsersForNode(q.view, n) : \E type \in ListsUsers(q.view, n) :
        /\ protocolEnabledForUser(tables.entries, u, n, type)
        /\ login = Login(q.view, u, n, type)
  BY DEF resolveNodeRuntimeConfig
<1>2. PICK type \in ListsUsers(q.view, n) :
        /\ protocolEnabledForUser(tables.entries, u, n, type)
        /\ login = Login(q.view, u, n, type)
  BY <1>1
<1>3. login.user = u /\ login.type = type /\ u \in Users /\ u \in Listed(q.view)
  BY <1>2 DEF Login, ListEligibleUsersForNode, Listed
<1>4. TagsRead(q) = Users /\ AllowedRead(q) = Users /\ RowsRead(q)
  BY DEF TagsRead, AllowedRead, RowsRead
<1>5. /\ n \in ListedNodes(q.view)
      /\ q.view.node[n] \in {old.node[n], tables.node[n]}
      /\ Open(q.view.row[u]) \in {Open(old.row[u]), Open(tables.row[u])}
      /\ q.view.tags[u] \in {old.tags[u], tables.tags[u], {}}
      /\ q.view.allowed[u] \in {old.allowed[u], tables.allowed[u], {}}
  BY <1>3, <1>4 DEF TracedTo, ReadFrom
<1>6. PICK k \in Kinds : \A j \in Kinds \ {k} : Pieces(old, u, n)[j] = Pieces(tables, u, n)[j]
  BY <1>3 DEF TracedTo, OneChange
<1>7. /\ k # "row" => Open(old.row[u]) = Open(tables.row[u])
      /\ k # "tags" => old.tags[u] = tables.tags[u]
      /\ k # "allowed" => old.allowed[u] \cap {n} = tables.allowed[u] \cap {n}
      /\ k # "entries" => old.entries[u][n] = tables.entries[u][n]
      /\ k # "node" => old.node[n] = tables.node[n]
  BY <1>6 DEF Kinds, Pieces
<1>8. ASSUME NEW from \in {old, tables},
             Open(q.view.row[u]) = Open(from.row[u]), q.view.node[n] = from.node[n],
             q.view.tags[u] \subseteq from.tags[u], q.view.allowed[u] \cap {n} \subseteq from.allowed[u],
             tables.entries[u][n] = from.entries[u][n]
      PROVE  <<u, type>> \in q.entitled
  <2>1. <<u, type>> \in Entitled(from, n)
    BY <1>2, <1>3, <1>5, <1>8, BelowEntitled
  <2> QED BY <2>1 DEF TracedTo
<1> DEFINE row(from) == Open(q.view.row[u]) = Open(from.row[u])
           tags(from) == q.view.tags[u] \subseteq from.tags[u]
           allowed(from) == q.view.allowed[u] \cap {n} \subseteq from.allowed[u]
           entries(from) == tables.entries[u][n] = from.entries[u][n]
           node(from) == q.view.node[n] = from.node[n]
<1>9. (row(old) \/ row(tables)) /\ (k # "row" => row(old) /\ row(tables))
  BY <1>5, <1>7
<1>10. (tags(old) \/ tags(tables)) /\ (k # "tags" => tags(old) /\ tags(tables))
  BY <1>5, <1>7
<1>11. (allowed(old) \/ allowed(tables)) /\ (k # "allowed" => allowed(old) /\ allowed(tables))
  BY <1>5, <1>7
<1>12. entries(tables) /\ (k # "entries" => entries(old))
  BY <1>7
<1>13. (node(old) \/ node(tables)) /\ (k # "node" => node(old) /\ node(tables))
  BY <1>5, <1>7
<1>14. \E from \in {old, tables} :
         row(from) /\ tags(from) /\ allowed(from) /\ entries(from) /\ node(from)
  <2> HIDE DEF row, tags, allowed, entries, node
  <2> QED BY <1>9, <1>10, <1>11, <1>12, <1>13 DEF Kinds
<1> QED BY <1>3, <1>8, <1>14

\* Steps that leave the tables and the sync of a node as they are.
LEMMA OthersTraced ==
  ASSUME TraceInv, db' = db, NEW r \in Requests, \A q \in Requests \ {r} : req'[q] = req[q],
         r \in Nodes => Traced(req'[r], r, db)
  PROVE  TraceInv'
BY DEF TraceInv, Requests

\* What a write means to the syncs under way.
LEMMA WriteTraced ==
  ASSUME AccessInv, TraceInv, NEW requests \in [Requests -> RequestStates], Wrote(requests),
         db' \in Views, \A n \in Nodes : OneChange(db, db', n),
         \A n \in Nodes : \/ requests[n] = req[n]
                          \/ req[n].pc = "touch" /\ requests[n] = [req[n] EXCEPT !.pc = "users"]
  PROVE  TraceInv'
<1> SUFFICES ASSUME NEW n \in Nodes, req'[n].pc # "idle", req'[n].writes <= 1
             PROVE  \E old \in Views : TracedTo(req'[n], n, old, db')
  BY DEF TraceInv, Traced
<1> DEFINE q == requests[n]
<1>1. n \in Requests /\ n \notin Users /\ n \notin Admins
  BY AccessAssumption DEF Requests
<1>2. q \in RequestStates /\ req[n] \in RequestStates /\ db \in Views
  BY <1>1 DEF AccessInv, RequestsFormed, OthersTyped
<1>3. req'[n] = Interrupted(q, n)
  BY <1>1 DEF Wrote
<1>4. /\ req'[n].pc = q.pc /\ req'[n].todo = q.todo /\ req'[n].at = q.at /\ req'[n].view = q.view
  BY <1>1, <1>2, <1>3, InterruptedType
<1>5. /\ req'[n].writes = IF q.writes < 2 THEN q.writes + 1 ELSE q.writes
      /\ req'[n].entitled = q.entitled \cup Entitled(db', n)
  <2>1. Interrupted(q, n) = [q EXCEPT !.clean = FALSE,
                                      !.writes = IF @ < 2 THEN @ + 1 ELSE @,
                                      !.entitled = @ \cup Entitled(db', n)]
    BY <1>1, <1>3, <1>4 DEF Interrupted
  <2> HIDE DEF q
  <2> QED BY <1>2, <1>3, <2>1 DEF RequestStates
<1>6. q.writes = 0 /\ req'[n].writes = 1
  BY <1>2, <1>5 DEF RequestStates
<1>7. /\ q.writes = req[n].writes /\ q.entitled = req[n].entitled /\ q.view = req[n].view
      /\ req[n].pc # "idle"
      /\ RowsRead(q) => RowsRead(req[n])
      /\ TagsRead(q) = TagsRead(req[n]) /\ AllowedRead(q) = AllowedRead(req[n])
  <2>1. CASE q = req[n]
    BY <1>4, <2>1
  <2>2. CASE req[n].pc = "touch" /\ q = [req[n] EXCEPT !.pc = "users"]
    <3>1. /\ q.pc = "users" /\ q.writes = req[n].writes /\ q.entitled = req[n].entitled
          /\ q.view = req[n].view
      BY <1>2, <2>2 DEF RequestStates
    <3> QED BY <2>2, <3>1 DEF RowsRead, TagsRead, AllowedRead
  <2> QED BY <2>1, <2>2
<1>8. TracedTo(req[n], n, db, db)
  BY <1>6, <1>7 DEF TraceInv, Traced, TracedTo
<1>9. Entitled(db, n) \cup Entitled(db', n) \subseteq req'[n].entitled
  BY <1>5, <1>7, <1>8 DEF TracedTo
<1>10. /\ RowsRead(req'[n]) => RowsRead(req[n])
       /\ TagsRead(req'[n]) = TagsRead(req[n]) /\ AllowedRead(req'[n]) = AllowedRead(req[n])
       /\ req'[n].view = req[n].view
  <2>1. /\ RowsRead(req'[n]) <=> RowsRead(q)
        /\ TagsRead(req'[n]) = TagsRead(q) /\ AllowedRead(req'[n]) = AllowedRead(q)
    BY <1>4 DEF RowsRead, TagsRead, AllowedRead
  <2> QED BY <1>4, <1>7, <2>1
<1>11. ReadFrom(req[n], n, db, db)
  BY <1>8 DEF TracedTo
<1>12. ReadFrom(req'[n], n, db, db')
  <2> HIDE DEF Open
  <2> QED BY <1>10, <1>11 DEF ReadFrom
<1>13. OneChange(db, db', n) /\ req'[n].writes # 0
  BY <1>6
<1> QED BY <1>2, <1>9, <1>12, <1>13 DEF TracedTo

LEMMA StartSyncTraced ==
  ASSUME AccessInv, TraceInv, NEW n \in Nodes, StartSync(n) PROVE TraceInv'
<1>1. n \in Requests /\ db \in Views
  BY DEF Requests, AccessInv, OthersTyped
<1>2. OneChange(db, db, n)
  BY DEF OneChange, Kinds
<1>3. ReadFrom(req'[n], n, db, db)
  BY StartSyncEffect DEF ReadFrom, RowsRead, ListedNodes
<1>4. TracedTo(req'[n], n, db, db)
  BY <1>2, <1>3, StartSyncEffect DEF TracedTo
<1>5. Traced(req'[n], n, db)
  BY <1>1, <1>4 DEF Traced
<1> QED BY <1>1, <1>5, StartSyncEffect, OthersTraced

\* A step of a sync that reads: it reads what the tables have, or nothing.
LEMMA ReadTraced ==
  ASSUME AccessInv, TraceInv, NEW n \in Nodes, db' = db, req[n].pc # "idle",
         req'[n].writes = req[n].writes, req'[n].entitled = req[n].entitled,
         \A q \in Requests \ {n} : req'[q] = req[q],
         \A old \in Views : ReadFrom(req[n], n, old, db) => ReadFrom(req'[n], n, old, db)
  PROVE  TraceInv'
<1>1. n \in Requests
  BY DEF Requests
<1>2. Traced(req[n], n, db)
  BY DEF TraceInv
<1>3. Traced(req'[n], n, db)
  BY <1>2 DEF Traced, TracedTo
<1> QED BY <1>1, <1>3, OthersTraced

LEMMA ListUsersTraced ==
  ASSUME AccessInv, TraceInv, NEW n \in Nodes, ListUsers(n) PROVE TraceInv'
<1>1. ASSUME NEW old \in Views, ReadFrom(req[n], n, old, db) PROVE ReadFrom(req'[n], n, old, db)
  <2>1. Listed(req'[n].view) = Listed(db) /\ ListedNodes(req'[n].view) = ListedNodes(req[n].view)
    BY ListUsersEffect DEF Listed, ListedNodes
  <2>2. TagsRead(req'[n]) \cap Listed(db) = {} /\ AllowedRead(req'[n]) \cap Listed(db) = {}
    BY ListUsersEffect DEF TagsRead, AllowedRead
  <2> QED BY <1>1, <2>1, <2>2, ListUsersEffect DEF ReadFrom
<1> QED BY <1>1, ListUsersEffect, ReadTraced

LEMMA ListUserTagsTraced ==
  ASSUME AccessInv, TraceInv, NEW n \in Nodes, ListUserTags(n) PROVE TraceInv'
<1> DEFINE u == req[n].at
<1>1. ASSUME NEW old \in Views, ReadFrom(req[n], n, old, db) PROVE ReadFrom(req'[n], n, old, db)
  <2>1. /\ Listed(req'[n].view) = Listed(req[n].view)
        /\ ListedNodes(req'[n].view) = ListedNodes(req[n].view)
    BY ListUserTagsEffect DEF Listed, ListedNodes
  <2>2. /\ TagsRead(req'[n]) \subseteq TagsRead(req[n]) \cup {u}
        /\ AllowedRead(req'[n]) = AllowedRead(req[n]) /\ RowsRead(req[n])
    BY ListUserTagsEffect DEF TagsRead, AllowedRead, RowsRead
  <2>3. \A v \in Listed(req[n].view) :
          v \in TagsRead(req'[n]) => req'[n].view.tags[v] \in {old.tags[v], db.tags[v], {}}
    <3> SUFFICES ASSUME NEW v \in Listed(req[n].view), v \in TagsRead(req'[n])
                 PROVE  req'[n].view.tags[v] \in {old.tags[v], db.tags[v], {}}
      OBVIOUS
    <3>1. CASE v = u
      BY <3>1, ListUserTagsEffect
    <3>2. CASE v # u
      <4>1. v \in Users /\ v \in TagsRead(req[n])
        BY <2>2, <3>2 DEF Listed
      <4>2. req[n].view.tags[v] \in {old.tags[v], db.tags[v], {}}
        BY <1>1, <2>2, <4>1 DEF ReadFrom
      <4> QED BY <3>2, <4>1, <4>2, ListUserTagsEffect
    <3> QED BY <3>1, <3>2
  <2> QED BY <1>1, <2>1, <2>2, <2>3, ListUserTagsEffect DEF ReadFrom
<1> QED BY <1>1, ListUserTagsEffect, ReadTraced

LEMMA ListUserAllowedNodesTraced ==
  ASSUME AccessInv, TraceInv, NEW n \in Nodes, ListUserAllowedNodes(n) PROVE TraceInv'
<1> DEFINE u == req[n].at
<1>1. ASSUME NEW old \in Views, ReadFrom(req[n], n, old, db) PROVE ReadFrom(req'[n], n, old, db)
  <2>1. /\ Listed(req'[n].view) = Listed(req[n].view)
        /\ ListedNodes(req'[n].view) = ListedNodes(req[n].view)
    BY ListUserAllowedNodesEffect DEF Listed, ListedNodes
  <2>2. /\ TagsRead(req'[n]) \subseteq TagsRead(req[n])
        /\ AllowedRead(req'[n]) \subseteq AllowedRead(req[n]) \cup {u} /\ RowsRead(req[n])
    BY ListUserAllowedNodesEffect DEF TagsRead, AllowedRead, RowsRead
  <2>3. \A v \in Listed(req[n].view) :
          v \in AllowedRead(req'[n]) => req'[n].view.allowed[v] \in {old.allowed[v], db.allowed[v], {}}
    <3> SUFFICES ASSUME NEW v \in Listed(req[n].view), v \in AllowedRead(req'[n])
                 PROVE  req'[n].view.allowed[v] \in {old.allowed[v], db.allowed[v], {}}
      OBVIOUS
    <3>1. CASE v = u
      BY <3>1, ListUserAllowedNodesEffect
    <3>2. CASE v # u
      <4>1. v \in Users /\ v \in AllowedRead(req[n])
        BY <2>2, <3>2 DEF Listed
      <4>2. req[n].view.allowed[v] \in {old.allowed[v], db.allowed[v], {}}
        BY <1>1, <2>2, <4>1 DEF ReadFrom
      <4> QED BY <3>2, <4>1, <4>2, ListUserAllowedNodesEffect
    <3> QED BY <3>1, <3>2
  <2> QED BY <1>1, <2>1, <2>2, <2>3, ListUserAllowedNodesEffect DEF ReadFrom
<1> QED BY <1>1, ListUserAllowedNodesEffect, ReadTraced

LEMMA ListUserProtocolAccessByNodeTraced ==
  ASSUME AccessInv, TraceInv, NEW n \in Nodes, ListUserProtocolAccessByNode(n) PROVE TraceInv'
<1>1. ASSUME NEW old \in Views, ReadFrom(req[n], n, old, db) PROVE ReadFrom(req'[n], n, old, db)
  <2>1. /\ Listed(req'[n].view) = Listed(req[n].view)
        /\ ListedNodes(req'[n].view) = ListedNodes(req[n].view)
    BY ListUserProtocolAccessByNodeEffect DEF Listed, ListedNodes
  <2>2. /\ TagsRead(req'[n]) = TagsRead(req[n]) /\ AllowedRead(req'[n]) = AllowedRead(req[n])
        /\ RowsRead(req[n])
    BY ListUserProtocolAccessByNodeEffect DEF TagsRead, AllowedRead, RowsRead
  <2> QED BY <1>1, <2>1, <2>2, ListUserProtocolAccessByNodeEffect DEF ReadFrom
<1> QED BY <1>1, ListUserProtocolAccessByNodeEffect, ReadTraced

LEMMA SecretsTraced ==
  ASSUME AccessInv, TraceInv, NEW r \in Requests, NEW u \in Users, r \in Users => r = u,
         ensureUserSecrets(r, u)
  PROVE  TraceInv'
<1> DEFINE given(view) == [view EXCEPT !.row[u].secret = r]
<1>1. /\ req[r].pc = "load" /\ u \in req[r].todo
      /\ r \in Nodes => req'[r].pc = "tags" /\ req'[r].todo = req[r].todo /\ req'[r].at = u
      /\ req'[r].writes = req[r].writes /\ req'[r].entitled = req[r].entitled
  BY ensureUserSecretsEffect
<1>2. /\ req[r] \in RequestStates /\ req[r].view \in Views /\ db \in Views /\ db' \in Views
  BY ensureUserSecretsInv DEF AccessInv, RequestsFormed, OthersTyped, RequestStates
<1> DEFINE marked(q) == [req[q] EXCEPT !.clean = @ /\ (q \in Admins \/ req[q].pc = "idle")]
<1>0. /\ db' = db \/ db' = given(db)
      /\ req'[r].view = req[r].view \/ req'[r].view = given(req[r].view)
      /\ \A q \in Requests \ {r} : req'[q] = req[q] \/ req'[q] = marked(q)
  <2> HIDE DEF given, marked
  <2>1. \/ /\ req'[r].view = req[r].view /\ db' = db
           /\ UNCHANGED <<fresh, offer>>
           /\ \A q \in Requests \ {r} : req'[q] = req[q]
        \/ /\ req'[r].view = given(req[r].view) /\ db' = db
           /\ u \notin Listed(db)
           /\ UNCHANGED <<fresh, offer>>
           /\ \A q \in Requests \ {r} : req'[q] = req[q]
        \/ /\ req'[r].view = given(req[r].view)
           /\ db' = given(db)
           /\ Stale
           /\ \A q \in Requests \ {r} : req'[q] = marked(q)
    BY ensureUserSecretsEffect DEF given, marked
  <2> QED BY <2>1
<1>3. Alike(db, db') /\ Alike(req[r].view, req'[r].view)
  <2>1. db' = db \/ db' = given(db)
    BY <1>0
  <2>2. req'[r].view = req[r].view \/ req'[r].view = given(req[r].view)
    BY <1>0
  <2>3. /\ Alike(db, db) /\ Alike(db, given(db))
        /\ Alike(req[r].view, req[r].view) /\ Alike(req[r].view, given(req[r].view))
    BY <1>2, SecretAlike
  <2> HIDE DEF given
  <2> QED BY <2>1, <2>2, <2>3
<1>4. ASSUME NEW n \in Nodes, req'[n].pc # "idle", req'[n].writes <= 1,
             NEW p, Alike(req[n].view, p.view), TagsRead(p) = TagsRead(req[n]),
             AllowedRead(p) = AllowedRead(req[n]), RowsRead(p) <=> RowsRead(req[n]),
             p.writes = req[n].writes, p.entitled = req[n].entitled,
             req[n].pc # "idle", p = req'[n]
      PROVE  Traced(p, n, db')
  <2>1. PICK old \in Views : TracedTo(req[n], n, old, db)
    BY <1>4 DEF TraceInv, Traced
  <2> DEFINE before == IF req[n].writes = 0 THEN db' ELSE old
  <2>2. before \in Views /\ Alike(old, before)
    <3>1. Alike(old, old)
      BY DEF Alike
    <3> QED BY <1>2, <1>3, <2>1, <3>1 DEF TracedTo
  <2> HIDE DEF before
  <2>3. req[n].writes = 0 => before = db'
    BY DEF before
  <2>4. TracedTo(p, n, before, db')
    BY <1>3, <1>4, <2>1, <2>2, <2>3, TracedAlike
  <2> QED BY <2>2, <2>4 DEF Traced
<1>5. ASSUME NEW n \in Nodes PROVE Traced(req'[n], n, db')
  <2> SUFFICES ASSUME req'[n].pc # "idle", req'[n].writes <= 1 PROVE Traced(req'[n], n, db')
    BY DEF Traced
  <2>1. n \in Requests /\ n \notin Admins /\ req[n] \in RequestStates
    BY AccessAssumption DEF Requests, AccessInv, RequestsFormed
  <2>2. CASE n = r
    <3>1. /\ TagsRead(req'[n]) = TagsRead(req[n]) /\ AllowedRead(req'[n]) = AllowedRead(req[n])
          /\ RowsRead(req'[n]) <=> RowsRead(req[n])
      BY <1>1, <2>2 DEF TagsRead, AllowedRead, RowsRead
    <3> QED BY <1>1, <1>3, <1>4, <2>2, <3>1
  <2>3. CASE n # r
    <3> DEFINE clean == req[n].clean /\ (n \in Admins \/ req[n].pc = "idle")
    <3>1. req'[n] = req[n] \/ req'[n] = [req[n] EXCEPT !.clean = clean]
      BY <1>0, <2>1, <2>3
    <3>2. /\ req'[n].pc = req[n].pc /\ req'[n].todo = req[n].todo /\ req'[n].at = req[n].at
          /\ req'[n].view = req[n].view /\ req'[n].writes = req[n].writes
          /\ req'[n].entitled = req[n].entitled
      BY <2>1, <3>1 DEF RequestStates
    <3>3. Alike(req[n].view, req'[n].view)
      BY <3>2 DEF Alike
    <3>4. /\ TagsRead(req'[n]) = TagsRead(req[n]) /\ AllowedRead(req'[n]) = AllowedRead(req[n])
          /\ RowsRead(req'[n]) <=> RowsRead(req[n])
      BY <3>2 DEF TagsRead, AllowedRead, RowsRead
    <3> QED BY <1>4, <3>2, <3>3, <3>4
  <2> QED BY <2>2, <2>3
<1> QED BY <1>5 DEF TraceInv

\* A write whose error is ignored, of one piece of the tables.
LEMMA WriteOrNotTraced ==
  ASSUME AccessInv, TraceInv, NEW r \in Requests, NEW view \in Views, NEW after \in RequestStates,
         WriteOrNot(r, view, after), \A n \in Nodes : OneChange(db, view, n),
         r \in Nodes => req[r].pc = "touch" /\ after = [req[r] EXCEPT !.pc = "users"]
  PROVE  TraceInv'
<1> DEFINE done == [req EXCEPT ![r] = after]
<1>1. /\ done \in [Requests -> RequestStates] /\ done[r] = after
      /\ \A q \in Requests \ {r} : done[q] = req[q]
  BY DEF AccessInv, RequestsFormed
<1>2. CASE Wrote(done) /\ db' = view
  <2>1. \A n \in Nodes : \/ done[n] = req[n]
                         \/ req[n].pc = "touch" /\ done[n] = [req[n] EXCEPT !.pc = "users"]
    BY <1>1 DEF Requests
  <2> HIDE DEF done
  <2> QED BY <1>1, <1>2, <2>1, WriteTraced
<1>3. CASE req' = done /\ db' = db
  <2>1. CASE r \in Nodes
    <3>1. req[r] \in RequestStates /\ req'[r] = [req[r] EXCEPT !.pc = "users"]
      BY <1>1, <1>3, <2>1 DEF AccessInv, RequestsFormed
    <3>2. /\ req'[r].pc = "users" /\ req'[r].writes = req[r].writes
          /\ req'[r].entitled = req[r].entitled /\ req'[r].view = req[r].view
      BY <3>1 DEF RequestStates
    <3>3. ~ RowsRead(req'[r])
      BY <3>2 DEF RowsRead
    <3>4. \A old \in Views : ReadFrom(req[r], r, old, db) => ReadFrom(req'[r], r, old, db)
      BY <3>2, <3>3 DEF ReadFrom
    <3>5. \A q \in Requests \ {r} : req'[q] = req[q]
      BY <1>1, <1>3
    <3> HIDE DEF done
    <3> QED BY <1>3, <2>1, <3>2, <3>4, <3>5, ReadTraced
  <2>2. CASE r \notin Nodes
    BY <1>1, <1>3, <2>2, OthersTraced
  <2> QED BY <2>1, <2>2
<1> QED BY <1>2, <1>3 DEF WriteOrNot

\* One change to the tables is one change for each user at each node.
LEMMA KindChanges ==
  ASSUME NEW view \in Views, NEW n \in Nodes, NEW u \in Users
  PROVE  /\ \A row : OneChange(view, [view EXCEPT !.row[u] = row], n)
         /\ \A tags : OneChange(view, [view EXCEPT !.tags[u] = tags], n)
         /\ \A nodes : OneChange(view, [view EXCEPT !.allowed[u] = nodes], n)
         /\ \A entries : OneChange(view, [view EXCEPT !.entries[u] = entries], n)
         /\ \A m \in Nodes : \A row : OneChange(view, [view EXCEPT !.node[m] = row], n)
<1>1. ASSUME NEW new, NEW k \in Kinds,
             \A j \in Kinds \ {k} : \A v \in Users : Pieces(view, v, n)[j] = Pieces(new, v, n)[j]
      PROVE  OneChange(view, new, n)
  BY <1>1 DEF OneChange, Listed
<1>2. ASSUME NEW row PROVE OneChange(view, [view EXCEPT !.row[u] = row], n)
  <2> DEFINE new == [view EXCEPT !.row[u] = row]
  <2>1. /\ new.tags = view.tags /\ new.allowed = view.allowed /\ new.entries = view.entries
        /\ new.node = view.node
    BY DEF Views
  <2> HIDE DEF new
  <2>2. \A j \in Kinds \ {"row"} : \A v \in Users : Pieces(view, v, n)[j] = Pieces(new, v, n)[j]
    BY <2>1 DEF Kinds, Pieces
  <2>3. "row" \in Kinds
    BY DEF Kinds
  <2>4. OneChange(view, new, n)
    BY <1>1, <2>2, <2>3
  <2> QED BY <2>4 DEF new
<1>3. ASSUME NEW tags PROVE OneChange(view, [view EXCEPT !.tags[u] = tags], n)
  <2> DEFINE new == [view EXCEPT !.tags[u] = tags]
  <2>1. /\ new.row = view.row /\ new.allowed = view.allowed /\ new.entries = view.entries
        /\ new.node = view.node
    BY DEF Views
  <2> HIDE DEF new
  <2>2. \A j \in Kinds \ {"tags"} : \A v \in Users : Pieces(view, v, n)[j] = Pieces(new, v, n)[j]
    BY <2>1 DEF Kinds, Pieces
  <2>3. "tags" \in Kinds
    BY DEF Kinds
  <2>4. OneChange(view, new, n)
    BY <1>1, <2>2, <2>3
  <2> QED BY <2>4 DEF new
<1>4. ASSUME NEW nodes PROVE OneChange(view, [view EXCEPT !.allowed[u] = nodes], n)
  <2> DEFINE new == [view EXCEPT !.allowed[u] = nodes]
  <2>1. /\ new.row = view.row /\ new.tags = view.tags /\ new.entries = view.entries
        /\ new.node = view.node
    BY DEF Views
  <2> HIDE DEF new
  <2>2. \A j \in Kinds \ {"allowed"} : \A v \in Users : Pieces(view, v, n)[j] = Pieces(new, v, n)[j]
    BY <2>1 DEF Kinds, Pieces
  <2>3. "allowed" \in Kinds
    BY DEF Kinds
  <2>4. OneChange(view, new, n)
    BY <1>1, <2>2, <2>3
  <2> QED BY <2>4 DEF new
<1>5. ASSUME NEW entries PROVE OneChange(view, [view EXCEPT !.entries[u] = entries], n)
  <2> DEFINE new == [view EXCEPT !.entries[u] = entries]
  <2>1. /\ new.row = view.row /\ new.tags = view.tags /\ new.allowed = view.allowed
        /\ new.node = view.node
    BY DEF Views
  <2> HIDE DEF new
  <2>2. \A j \in Kinds \ {"entries"} : \A v \in Users : Pieces(view, v, n)[j] = Pieces(new, v, n)[j]
    BY <2>1 DEF Kinds, Pieces
  <2>3. "entries" \in Kinds
    BY DEF Kinds
  <2>4. OneChange(view, new, n)
    BY <1>1, <2>2, <2>3
  <2> QED BY <2>4 DEF new
<1>6. ASSUME NEW m \in Nodes, NEW row PROVE OneChange(view, [view EXCEPT !.node[m] = row], n)
  <2> DEFINE new == [view EXCEPT !.node[m] = row]
  <2>1. /\ new.row = view.row /\ new.tags = view.tags /\ new.allowed = view.allowed
        /\ new.entries = view.entries
    BY DEF Views
  <2> HIDE DEF new
  <2>2. \A j \in Kinds \ {"node"} : \A v \in Users : Pieces(view, v, n)[j] = Pieces(new, v, n)[j]
    BY <2>1 DEF Kinds, Pieces
  <2>3. "node" \in Kinds
    BY DEF Kinds
  <2>4. OneChange(view, new, n)
    BY <1>1, <2>2, <2>3
  <2> QED BY <2>4 DEF new
<1> QED BY <1>2, <1>3, <1>4, <1>5, <1>6

\* A user or a node that is deleted is not looked at, and nothing changes for
\* the others.
LEMMA DeletionChanges ==
  ASSUME NEW view \in Views, NEW n \in Nodes
  PROVE  /\ \A u \in Users :
              OneChange(view, [view EXCEPT !.row[u].life = "gone", !.tags[u] = {}, !.allowed[u] = {},
                                           !.entries[u] = NoEntries], n)
         /\ \A m \in Nodes :
              OneChange(view, [view EXCEPT !.node[m].life = "gone",
                                           !.allowed = [u \in Users |-> @[u] \ {m}],
                                           !.entries = [u \in Users |->
                                                          [@[u] EXCEPT ![m] = NoEntries[m]]]], n)
<1>1. ASSUME NEW new, \A u \in Listed(new) : Pieces(view, u, n) = Pieces(new, u, n)
      PROVE  OneChange(view, new, n)
  BY <1>1 DEF OneChange, Kinds
<1>2. ASSUME NEW u \in Users
      PROVE  OneChange(view, [view EXCEPT !.row[u].life = "gone", !.tags[u] = {}, !.allowed[u] = {},
                                          !.entries[u] = NoEntries], n)
  <2> DEFINE row == [view.row[u] EXCEPT !.life = "gone"]
             new == [view EXCEPT !.row[u] = row, !.tags[u] = {}, !.allowed[u] = {},
                                 !.entries[u] = NoEntries]
  <2>1. row.life = "gone"
    BY DEF Views, Rows
  <2> HIDE DEF row
  <2>2. /\ new.row[u] = row /\ new.node = view.node
        /\ \A v \in Users \ {u} :
             /\ new.row[v] = view.row[v] /\ new.tags[v] = view.tags[v]
             /\ new.allowed[v] = view.allowed[v] /\ new.entries[v] = view.entries[v]
    BY DEF Views
  <2> HIDE DEF new
  <2>3. Listed(new) \subseteq Users \ {u}
    BY <2>1, <2>2 DEF Listed
  <2>4. \A v \in Listed(new) : Pieces(view, v, n) = Pieces(new, v, n)
    BY <2>2, <2>3 DEF Pieces
  <2>5. OneChange(view, new, n)
    BY <1>1, <2>4
  <2> QED BY <2>5 DEF new, row
<1>3. ASSUME NEW m \in Nodes
      PROVE  OneChange(view, [view EXCEPT !.node[m].life = "gone",
                                          !.allowed = [u \in Users |-> @[u] \ {m}],
                                          !.entries = [u \in Users |->
                                                         [@[u] EXCEPT ![m] = NoEntries[m]]]], n)
  <2> DEFINE row == [view.node[m] EXCEPT !.life = "gone"]
             allowed == [u \in Users |-> view.allowed[u] \ {m}]
             entries == [u \in Users |-> [view.entries[u] EXCEPT ![m] = NoEntries[m]]]
             new == [view EXCEPT !.node[m] = row, !.allowed = allowed, !.entries = entries]
  <2>1. row.life = "gone"
    BY DEF Views, NodeRows
  <2>2. \A u \in Users : n # m => /\ allowed[u] \cap {n} = view.allowed[u] \cap {n}
                                  /\ entries[u][n] = view.entries[u][n]
    BY DEF Views, Entries
  <2> HIDE DEF row, allowed, entries
  <2>3. /\ new.node[m] = row /\ (n # m => new.node[n] = view.node[n])
        /\ new.row = view.row /\ new.tags = view.tags
        /\ new.allowed = allowed /\ new.entries = entries
    BY DEF Views
  <2> HIDE DEF new
  <2>4. CASE n = m
    <3>1. n \notin ListedNodes(new)
      BY <2>1, <2>3, <2>4 DEF ListedNodes
    <3> QED BY <3>1 DEF OneChange, new, row, allowed, entries
  <2>5. CASE n # m
    <3>1. \A u \in Listed(new) : Pieces(view, u, n) = Pieces(new, u, n)
      BY <2>2, <2>3, <2>5 DEF Pieces, Listed
    <3>2. OneChange(view, new, n)
      BY <1>1, <3>1
    <3> QED BY <3>2 DEF new, row, allowed, entries
  <2> QED BY <2>4, <2>5
<1> QED BY <1>2, <1>3

LEMMA WriteStepTraced ==
  ASSUME AccessInv, AccessInv', TraceInv, WriteStep PROVE TraceInv'
<1>1. /\ req \in [Requests -> RequestStates] /\ db \in Views /\ db' \in Views
      /\ SomeUser \in Users
  BY AccessAssumption DEF AccessInv, RequestsFormed, OthersTyped, SomeUser
<1>2. ASSUME NEW view, Write(view), \A n \in Nodes : OneChange(db, view, n) PROVE TraceInv'
  BY <1>1, <1>2, WriteTraced DEF Write
<1>3. ASSUME NEW u \in Users, NEW tags \in SUBSET Tags, AttachTagsToUser(u, tags) PROVE TraceInv'
  BY <1>1, <1>2, <1>3, KindChanges DEF AttachTagsToUser
<1>4. ASSUME NEW u \in Users, NEW entries \in EntryChoices, ReplaceUserProtocolAccess(u, entries)
      PROVE  TraceInv'
  BY <1>1, <1>2, <1>4, KindChanges DEF ReplaceUserProtocolAccess
<1>5. ASSUME NEW n \in Nodes, NEW row \in NodeChoices, CreateNode(n, row) \/ UpdateNode(n, row)
      PROVE  TraceInv'
  <2>1. \A new : \A m \in Nodes : OneChange(db, [db EXCEPT !.node[n] = new], m)
    BY <1>1, KindChanges
  <2> QED BY <1>2, <1>5, <2>1 DEF CreateNode, UpdateNode
<1>6. ASSUME NEW u \in Users, SaveUsage(u) PROVE TraceInv'
  BY <1>1, <1>2, <1>6, KindChanges DEF SaveUsage
<1>7. ASSUME NEW u \in Users, DeleteUser(u) PROVE TraceInv'
  BY <1>1, <1>2, <1>7, DeletionChanges DEF DeleteUser
<1>8. ASSUME NEW n \in Nodes, DeleteNode(n) PROVE TraceInv'
  BY <1>1, <1>2, <1>8, DeletionChanges DEF DeleteNode
<1>9. ASSUME NEW n \in Nodes, NEW settings \in Settings, UpdateNodeConfig(n, settings)
      PROVE  TraceInv'
  <2>1. \A m \in Nodes : OneChange(db, [db EXCEPT !.node[n] = [@ EXCEPT !.settings = settings]], m)
    BY <1>1, KindChanges
  <2> QED BY <1>2, <1>9, <2>1 DEF UpdateNodeConfig
<1> QED BY <1>3, <1>4, <1>5, <1>6, <1>7, <1>8, <1>9 DEF WriteStep

LEMMA TouchTraced ==
  ASSUME AccessInv, TraceInv, NEW n \in Nodes, TouchNodeHeartbeat(n) PROVE TraceInv'
<1> DEFINE row == [db.node[n] EXCEPT !.status = IF n \in ListedNodes(db) THEN "online" ELSE @]
           view == [db EXCEPT !.node[n] = row]
           after == [req[n] EXCEPT !.pc = "users"]
<1>1. /\ n \in Requests /\ db \in Views /\ db.node[n] \in NodeRows /\ SomeUser \in Users
      /\ req[n] \in RequestStates /\ req[n].pc = "touch"
  BY AccessAssumption DEF Requests, AccessInv, RequestsFormed, OthersTyped, Views, SomeUser,
                          TouchNodeHeartbeat
<1>2. row \in NodeRows
  BY <1>1 DEF NodeRows
<1>3. view \in Views /\ \A m \in Nodes : OneChange(db, view, m)
  <2> HIDE DEF row
  <2> QED BY <1>1, <1>2, ViewUpdates, KindChanges
<1>4. after \in RequestStates
  BY <1>1 DEF RequestStates
<1>5. WriteOrNot(n, view, after)
  BY DEF TouchNodeHeartbeat
<1> HIDE DEF view
<1> QED BY <1>1, <1>3, <1>4, <1>5, WriteOrNotTraced

LEMMA ReplaceTraced ==
  ASSUME AccessInv, TraceInv, NEW c \in Admins, ReplaceAllowedNodes(c) PROVE TraceInv'
<1> DEFINE view == [db EXCEPT !.allowed[req[c].user] = req[c].body["allowed"]]
<1>1. c \in Requests /\ c \notin Nodes /\ db \in Views
  BY AccessAssumption DEF Requests, AccessInv, OthersTyped
<1>2. req[c] \in RequestStates /\ Formed(req[c], c) /\ req[c].pc = "replace" /\ c \in Admins
  BY <1>1 DEF AccessInv, RequestsFormed, ReplaceAllowedNodes
<1>3. req[c].user \in Users /\ req[c].body["allowed"] \in SUBSET Nodes
  BY <1>2, AccessAssumption DEF RequestStates, Formed
<1>4. view \in Views /\ \A m \in Nodes : OneChange(db, view, m)
  BY <1>1, <1>3, ViewUpdates, KindChanges
<1>5. WriteOrNot(c, view, Idle)
  BY DEF ReplaceAllowedNodes
<1> HIDE DEF view
<1> QED BY <1>1, <1>4, <1>5, IdleType, WriteOrNotTraced

LEMMA AttachTraced ==
  ASSUME AccessInv, TraceInv, NEW c \in Admins, AttachNewTags(c) PROVE TraceInv'
<1> DEFINE view == [db EXCEPT !.tags[req[c].user] = req[c].body["tags"]]
<1>1. c \in Requests /\ c \notin Nodes /\ db \in Views
  BY AccessAssumption DEF Requests, AccessInv, OthersTyped
<1>2. req[c] \in RequestStates /\ req[c].body \in Creations
  BY <1>1 DEF AccessInv, RequestsFormed, AttachNewTags, Formed
<1>3. req[c].user \in Users /\ req[c].body["tags"] \in SUBSET Tags
  BY <1>2, AccessAssumption DEF RequestStates
<1>4. view \in Views /\ \A m \in Nodes : OneChange(db, view, m)
  BY <1>1, <1>3, ViewUpdates, KindChanges
<1>5. AfterTags(req[c]) \in RequestStates
  BY <1>2, IdleType DEF AfterTags, RequestStates
<1>6. WriteOrNot(c, view, AfterTags(req[c]))
  BY DEF AttachNewTags
<1> HIDE DEF view
<1> QED BY <1>1, <1>4, <1>5, <1>6, WriteOrNotTraced

LEMMA UpdateUserTraced ==
  ASSUME AccessInv, TraceInv, NEW c \in Admins, UpdateUser(c) PROVE TraceInv'
<1> DEFINE u == req[c].user
           body == req[c].body
           row == Patched(db.row[u], req[c].view.row[u], body)
           request == IF "allowed" \in DOMAIN body THEN [req[c] EXCEPT !.pc = "replace"] ELSE Idle
           requests == [req EXCEPT ![c] = request]
<1>1. c \in Requests /\ c \notin Nodes /\ db \in Views
  BY AccessAssumption DEF Requests, AccessInv, OthersTyped
<1>2. requests \in [Requests -> RequestStates] /\ \A n \in Nodes : requests[n] = req[n]
  <2>1. request \in RequestStates
    BY <1>1, IdleType DEF AccessInv, RequestsFormed, RequestStates
  <2> HIDE DEF request
  <2> QED BY <1>1, <2>1 DEF AccessInv, RequestsFormed, Requests
<1>3. Wrote(requests)
  BY <1>1 DEF UpdateUser, AccessInv, RequestsFormed
<1>4. u \in Users /\ db' = [db EXCEPT !.row[u] = row] /\ db' \in Views
  BY UpdateUserEffect
<1> HIDE DEF requests, row
<1>5. \A n \in Nodes : OneChange(db, db', n)
  BY <1>1, <1>4, KindChanges
<1> QED BY <1>2, <1>3, <1>4, <1>5, WriteTraced

LEMMA CreateUserTraced ==
  ASSUME AccessInv, TraceInv, NEW c \in Admins, NEW u \in Users, NEW body \in Creations,
         CreateUser(c, u, body)
  PROVE  TraceInv'
<1> DEFINE after == AfterInsert([Idle EXCEPT !.user = u, !.body = body])
           requests == [req EXCEPT ![c] = after]
<1>1. /\ after \in RequestStates /\ Wrote(requests)
      /\ db' = [db EXCEPT !.row[u] = NewRow(body, c)] /\ db' \in Views
  BY CreateUserEffect
<1> HIDE DEF after
<1>2. c \notin Nodes /\ db \in Views
  BY AccessAssumption DEF AccessInv, OthersTyped
<1>3. requests \in [Requests -> RequestStates] /\ \A n \in Nodes : requests[n] = req[n]
  BY <1>1, <1>2 DEF AccessInv, RequestsFormed, Requests
<1>4. \A n \in Nodes : OneChange(db, db', n)
  BY <1>1, <1>2, KindChanges
<1> HIDE DEF requests
<1> QED BY <1>1, <1>3, <1>4, WriteTraced

\* Steps that end a request or are none of a sync.
LEMMA OtherTraced ==
  ASSUME AccessInv, TraceInv, db' = db, NEW r \in Requests,
         \A q \in Requests \ {r} : req'[q] = req[q], r \in Nodes => req'[r] = Idle
  PROVE  TraceInv'
<1>1. Idle.pc = "idle"
  BY DEF Idle
<1>2. r \in Nodes => Traced(req'[r], r, db)
  BY <1>1 DEF Traced
<1> QED BY <1>2, OthersTraced

LEMMA NextTraced == AccessInv /\ AccessInv' /\ TraceInv /\ [Next]_vars => TraceInv'
<1> SUFFICES ASSUME AccessInv, AccessInv', TraceInv, [Next]_vars PROVE TraceInv'
  OBVIOUS
<1>1. ASSUME NEW n \in Nodes, SyncStep(n) PROVE TraceInv'
  <2>1. n \in Requests /\ n \notin Users
    BY AccessAssumption DEF Requests
  <2>2. CASE SyncAnswers(n)
    BY <2>1, <2>2, OtherTraced DEF SyncAnswers, AccessInv, RequestsFormed
  <2> QED BY <1>1, <2>1, <2>2, StartSyncTraced, TouchTraced, ListUsersTraced, SecretsTraced,
             ListUserTagsTraced, ListUserAllowedNodesTraced, ListUserProtocolAccessByNodeTraced
          DEF SyncStep
<1>2. ASSUME NEW u \in Users, SubscriptionStep(u) PROVE TraceInv'
  <2>1. u \in Requests /\ u \notin Nodes
    BY AccessAssumption DEF Requests
  <2>2. CASE StartSubscription(u) \/ SubscriptionAnswers(u)
    <3>1. db' = db /\ \A q \in Requests \ {u} : req'[q] = req[q]
      BY <2>1, <2>2 DEF StartSubscription, SubscriptionAnswers, AccessInv, RequestsFormed
    <3> QED BY <2>1, <3>1, OtherTraced
  <2> QED BY <1>2, <2>1, <2>2, SecretsTraced DEF SubscriptionStep
<1>3. ASSUME NEW c \in Admins, AdminStep(c) PROVE TraceInv'
  <2>1. c \in Requests /\ c \notin Nodes /\ c \notin Users
    BY AccessAssumption DEF Requests
  <2>2. CASE UserNotFound(c) \/ \E u \in Users, body \in Bodies : StartPatch(c, u, body)
    <3>1. db' = db /\ \A q \in Requests \ {c} : req'[q] = req[q]
      BY <2>1, <2>2 DEF UserNotFound, StartPatch, AccessInv, RequestsFormed
    <3> QED BY <2>1, <3>1, OtherTraced
  <2> QED BY <1>3, <2>1, <2>2, SecretsTraced, UpdateUserTraced, CreateUserTraced, AttachTraced,
             ReplaceTraced
          DEF AdminStep
<1>4. ASSUME NEW r \in Requests, Abort(r) PROVE TraceInv'
  BY <1>4, OtherTraced DEF Abort, AccessInv, RequestsFormed
<1>5. CASE UNCHANGED vars
  BY <1>5 DEF vars, TraceInv
<1> QED BY <1>1, <1>2, <1>3, <1>4, <1>5, WriteStepTraced DEF Next

\* A configuration made while at most one write hit the sync
\* (handleNodeSync reads users, tags, allowed nodes and the entries one statement
\* after the other) admits nobody to an inbound who was not entitled to it
\* before or after that write, but for a write between the two reads of the
\* entries and for users and nodes that are gone: what the sync has mixed is
\* never more than one of the two states of the tables allows.
THEOREM AdmittedWereEntitled == Spec => AdmittedWasEntitled
<1> DEFINE Step == \A n \in Nodes :
             (SyncAnswers(n) /\ req[n].writes <= 1) =>
               \/ \A login \in config'[n] : \/ <<login.user, login.type>> \in req[n].entitled
                                             \/ login.user \notin Listed(db)
               \/ n \notin ListedNodes(db)
               \/ req[n].view.entries # db.entries
<1>1. Init => TraceInv
  BY DEF Init, TraceInv, Traced, Idle, Requests
<1>2. ASSUME AccessInv, TraceInv, [Next]_vars PROVE [Step]_vars
  <2> SUFFICES ASSUME NEW n \in Nodes, SyncAnswers(n), req[n].writes <= 1,
                      n \in ListedNodes(db), req[n].view.entries = db.entries,
                      NEW login \in config'[n], login.user \in Listed(db)
               PROVE  <<login.user, login.type>> \in req[n].entitled
    OBVIOUS
  <2>1. /\ n \in Requests /\ req[n] \in RequestStates /\ db \in Views /\ req[n].pc = "resolve"
        /\ config \in [Nodes -> SUBSET Logins]
    BY <1>2 DEF Requests, AccessInv, RequestsFormed, OthersTyped, SyncAnswers
  <2>2. login \in resolveNodeRuntimeConfig(req[n].view, db.entries, n)
    BY <2>1 DEF SyncAnswers
  <2>3. PICK old \in Views : TracedTo(req[n], n, old, db)
    BY <1>2, <2>1 DEF TraceInv, Traced
  <2> QED BY <2>1, <2>2, <2>3, TracedAdmits
<1>3. AccessInv /\ TraceInv /\ [Next]_vars => [Step]_vars
  BY <1>2
<1> HIDE DEF Step
<1>4. Spec => [][Step]_vars
  BY <1>1, <1>3, InitInv, NextInv, NextTraced, PTL DEF Spec
<1> QED BY <1>4 DEF AdmittedWasEntitled, Step

=============================================================================
