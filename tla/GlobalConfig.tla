---------------------------- MODULE GlobalConfig ----------------------------
(***************************************************************************)
(* The global node configuration of the panel.                             *)
(*                                                                         *)
(* Every request that needs the configuration (a sync of a node, any       *)
(* authenticated node request, a subscription, the administrator's page)   *)
(* calls GetGlobalConfig, which is no plain read: it inserts the default   *)
(* into an empty table, and it writes the normalised form of what it read  *)
(* back to the row.  The column is jsonb, whose text (a blank after each   *)
(* colon) is never the text json.Marshal makes, so the comparison that     *)
(* guards the write always finds a difference.  Saving is GetGlobalConfig  *)
(* followed by the update.  No transaction holds these statements together *)
(* and requests run concurrently.                                          *)
(*                                                                         *)
(* A configuration stands for its normalised form: normalising adds what   *)
(* the default has and the configuration lacks, and is idempotent.         *)
(***************************************************************************)
EXTENDS Integers, FiniteSets

CONSTANTS
  Handlers, \* requests that can be in progress at a time
  Bodies,   \* configurations the administrator saves
  Default,  \* defaultGlobalConfig
  Null,     \* the body null, which normalises to the default
  Broken,   \* a body that is no JSON object, which does not normalise
  None,     \* no configuration: the request is no save
  MaxSaves  \* bound: times the administrator saves

Saves == Bodies \cup {Default, Null, Broken}

ASSUME ConfigAssumption ==
  /\ None \notin Saves
  /\ Default # Null /\ Default # Broken /\ Null # Broken
  /\ Bodies \cap {Default, Null, Broken} = {}
  /\ MaxSaves \in Nat

VARIABLES
  rows,   \* rows of table global_config, each known by who inserted it
  config, \* the configuration in each row
  pc,     \* where each request is
  body,   \* what each request saves, None when it only reads
  row,    \* the row each request has read
  copy,   \* the normalised configuration each request has read
  latest, \* history: what the administrator saved last
  raced,  \* history: "yes" if another request's write was due at that time
  saves   \* history: how often the administrator saved

requestVars == <<body, row, copy>>
historyVars == <<latest, raced, saves>>
vars == <<rows, config, pc, requestVars, historyVars>>

TypeOK ==
  /\ rows \subseteq Handlers
  /\ config \in [Handlers -> Saves]
  /\ pc \in [Handlers -> {"idle", "select", "insert", "repair", "update"}]
  /\ body \in [Handlers -> Saves \cup {None}]
  /\ row \in [Handlers -> Handlers]
  /\ copy \in [Handlers -> Saves]
  /\ latest \in Saves
  /\ raced \in {"yes", "no"}
  /\ saves \in Nat

\* A database without configuration, or with the default that an earlier request
\* has inserted; nothing is saved yet.
Init ==
  /\ rows = {} \/ \E h \in Handlers : rows = {h}
  /\ config = [h \in Handlers |-> Default]
  /\ pc = [h \in Handlers |-> "idle"]
  /\ body = [h \in Handlers |-> None]
  /\ row = [h \in Handlers |-> h]
  /\ copy = [h \in Handlers |-> Default]
  /\ latest = Default /\ raced = "no" /\ saves = 0

-----------------------------------------------------------------------------
Goto(h, place) == pc' = [pc EXCEPT ![h] = place]

\* Broken variant: mergeMap gets its arguments in the other order.
NormalDefaultsWin(c) == IF c = Broken THEN Broken ELSE Default

\* normalizeGlobalConfigJSON; what is no object is an error and stays.
Normal(c) == IF c = Null THEN Default ELSE c

\* GetGlobalConfig returns: a save goes on to its update.
AfterGet(h) == IF body[h] = None THEN "idle" ELSE "update"

\* A request arrives, handleGlobalConfig or a handler that builds a node's
\* configuration, and has read nothing yet.
Begin(h, b) ==
  /\ pc[h] = "idle"
  /\ IF b = None THEN UNCHANGED saves
     ELSE saves < MaxSaves /\ saves' = saves + 1
  /\ body' = [body EXCEPT ![h] = b]
  /\ row' = [row EXCEPT ![h] = h]
  /\ copy' = [copy EXCEPT ![h] = Default]
  /\ Goto(h, "select")
  /\ UNCHANGED <<rows, config, latest, raced>>

\* The select takes any row.  What does not normalise is returned as it is.
Select(h) ==
  /\ pc[h] = "select"
  /\ \/ rows = {} /\ Goto(h, "insert") /\ UNCHANGED <<row, copy>>
     \/ \E r \in rows :
          /\ row' = [row EXCEPT ![h] = r]
          /\ copy' = [copy EXCEPT ![h] = Normal(config[r])]
          /\ Goto(h, IF config[r] = Broken THEN AfterGet(h) ELSE "repair")
  /\ UNCHANGED <<rows, config, body, historyVars>>

\* The default is inserted under a new id, so nothing conflicts.
Insert(h) ==
  /\ pc[h] = "insert"
  /\ rows' = rows \cup {h}
  /\ config' = [config EXCEPT ![h] = Default]
  /\ row' = [row EXCEPT ![h] = h]
  /\ copy' = [copy EXCEPT ![h] = Default]
  /\ Goto(h, AfterGet(h))
  /\ UNCHANGED <<body, historyVars>>

\* The normalised copy is written back; an error of this write is ignored.
Repair(h) ==
  /\ pc[h] = "repair"
  /\ config' \in {config, [config EXCEPT ![row[h]] = copy[h]]}
  /\ Goto(h, AfterGet(h))
  /\ UNCHANGED <<rows, requestVars, historyVars>>

\* The requests, other than h, that are about to write what they have read.
Due(h) == {g \in Handlers \ {h} : pc[g] \in {"insert", "repair"}}

\* UpdateGlobalConfig's own statement stores the body as it came.
Update(h) ==
  /\ pc[h] = "update"
  /\ config' = [config EXCEPT ![row[h]] = body[h]]
  /\ latest' = body[h]
  /\ raced' = IF rows = {row[h]} /\ Due(h) = {} THEN "no" ELSE "yes"
  /\ body' = [body EXCEPT ![h] = None]
  /\ Goto(h, "idle")
  /\ UNCHANGED <<rows, row, copy, saves>>

\* A statement whose error is returned fails, and the request with it.
Fail(h) ==
  /\ pc[h] \in {"select", "insert", "update"}
  /\ body' = [body EXCEPT ![h] = None]
  /\ Goto(h, "idle")
  /\ UNCHANGED <<rows, config, row, copy, historyVars>>

Step(h) == Select(h) \/ Insert(h) \/ Repair(h) \/ Update(h)

Next ==
  \/ \E h \in Handlers, b \in Saves \cup {None} : Begin(h, b)
  \/ \E h \in Handlers : Step(h) \/ Fail(h)

Spec == Init /\ [][Next]_vars

\* A request that has begun goes on.
FairSpec == Spec /\ \A h \in Handlers : WF_vars(Step(h))
-----------------------------------------------------------------------------
\* What a configuration is to its readers.
Meaning(c) == IF c = Null THEN Default ELSE c

\* A save that met no other request on its way to a write stays: whatever
\* reads follow, and however they interleave, every row means what was saved.
SaveSticks ==
  raced = "no" => \A r \in rows : Meaning(config[r]) = Meaning(latest)

\* The inductive form of SaveSticks.  As long as the last save has not raced,
\* whatever a request is about to write back is what was saved; after a first
\* save that has not raced there is one row, and no request will add another.
ConfigInv ==
  /\ TypeOK
  /\ \A h \in Handlers :
       /\ pc[h] \in {"repair", "update"} => row[h] \in rows
       /\ pc[h] = "update" => body[h] # None
  /\ rows = {} => latest = Default
  /\ raced = "no" =>
       /\ SaveSticks
       /\ \A h \in Handlers :
            /\ pc[h] = "repair" => copy[h] = Meaning(latest)
            /\ pc[h] = "insert" => Meaning(latest) = Default

\* What the administrator saved last, in a table of one row, is the global
\* configuration again and again: the "Update global config" the API offers.
SavedIsServed ==
  \A b \in Bodies :
    [](Cardinality(rows) <= 1) /\ <>[](latest = b) =>
      []<>(\A r \in rows : Meaning(config[r]) = b)
=============================================================================
