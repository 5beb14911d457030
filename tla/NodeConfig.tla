----------------------------- MODULE NodeConfig -----------------------------
(***************************************************************************)
(* What a node is given: the global configuration of GlobalConfig with the *)
(* override of one node merged over it.  A request that reads the node's   *)
(* row, with the override, at once calls GetGlobalConfig for the protocols *)
(* the node supports; those that build a configuration call it again, and  *)
(* merge what they then get with the override they have.  In between the   *)
(* administrator can save either.  The users and the values that depend on *)
(* the node's domain are filled in afterwards (Access).                    *)
(***************************************************************************)
EXTENDS GlobalConfig, ConfigMerge

CONSTANT Overrides \* bodies the administrator saves for the node

\* Bodies stand for their normalised form, which normalising leaves alone.
ASSUME NormalAssumption ==
  \A b \in Bodies \cup {Default} : Normalized(Default, b) = b

\* An object, whose inbounds are a list where they are an array.
IsConfig(c) ==
  LET fields == c.object IN
  /\ c = Obj(fields)
  /\ fields = [key \in DOMAIN fields |-> fields[key]]
  /\ "inbounds" \in DOMAIN fields /\ IsArr(fields["inbounds"]) =>
       /\ fields["inbounds"] = Arr(InboundsOf(fields))
       /\ IsList(InboundsOf(fields))

ASSUME ShapeAssumption == \A c \in Bodies \cup {Default} \cup Overrides : IsConfig(c)

VARIABLES
  override, \* column config_override of the node
  held,     \* the override in the row each request has read, None if it has not
  built,    \* the requests that have gone on to build the configuration
  fresh     \* history: "yes" if each request began after the last save

nodeVars == <<override, held, built, fresh>>

NodeInit ==
  /\ Init
  /\ override = Obj([k \in {} |-> Null])
  /\ held = [h \in Handlers |-> None]
  /\ built = {}
  /\ fresh = [h \in Handlers |-> "no"]

Stale == [h \in Handlers |-> "no"]

\* Any request of the node, or a subscription that lists it, reads the row and
\* then the supported protocols.
Authenticate(h) ==
  /\ Begin(h, None)
  /\ held' = [held EXCEPT ![h] = override]
  /\ built' = built \ {h}
  /\ fresh' = [fresh EXCEPT ![h] = "yes"]
  /\ UNCHANGED override

\* A sync, an enrolment or a subscription goes on to the configuration, whether
\* or not the protocols could be read.
Build(h) ==
  /\ held[h] # None /\ h \notin built
  /\ Begin(h, None)
  /\ built' = built \cup {h}
  /\ UNCHANGED <<override, held, fresh>>

AdminRequest(h, b) ==
  /\ Begin(h, b)
  /\ held' = [held EXCEPT ![h] = None]
  /\ built' = built \ {h}
  /\ fresh' = [fresh EXCEPT ![h] = "no"]
  /\ UNCHANGED override

Proceed(h) ==
  /\ Step(h)
  /\ fresh' = IF pc[h] = "update" THEN Stale ELSE fresh
  /\ UNCHANGED <<override, held, built>>

\* A request that fails to build is not answered with a configuration.
Drop(h) ==
  /\ Fail(h)
  /\ held' = IF h \in built THEN [held EXCEPT ![h] = None] ELSE held
  /\ built' = built \ {h}
  /\ UNCHANGED <<override, fresh>>

\* The handler for a node's config and UpdateNodeConfig.  A null is stored; what
\* is neither that nor an object is an error, as is an override that redefines
\* what the global configuration owns.
PatchOverride(o) ==
  /\ \/ o = Null /\ override' = Null
     \/ o # Null /\ Valid(o) /\ override' = Sanitized(o)
  /\ fresh' = Stale
  /\ UNCHANGED <<vars, held, built>>

NodeNext ==
  \/ \E h \in Handlers :
       \/ Authenticate(h) \/ Build(h) \/ Proceed(h) \/ Drop(h)
       \/ \E b \in Saves \cup {None} : AdminRequest(h, b)
  \/ \E o \in Overrides \cup {Null} : PatchOverride(o)

NodeSpec == NodeInit /\ [][NodeNext]_<<vars, nodeVars>>
-----------------------------------------------------------------------------
\* Broken variant: the global configuration is merged over the override.
GlobalWins(g, o) ==
  IF o = Null THEN g.object ELSE MergeMap(Sanitized(o).object, g.object)

\* BuildMergedNodeConfig: a null override is none.
Merged(g, o) ==
  IF o = Null THEN g.object ELSE MergeMap(g.object, Sanitized(o).object)

\* BuildNodeDesiredConfig; a configuration that is no object is an error.
Given(h) == IF copy[h] = Broken THEN Broken ELSE Obj(Stripped(Merged(copy[h], held[h])))

\* The request of a node has been answered.
Answered(h) == pc[h] = "idle" /\ h \in built

\* What a node is to be given for a global configuration and an override.
Intended(g, o) ==
  CASE g = Broken -> Broken
    [] g # Broken /\ o = Null -> Obj(Stripped(g.object))
    [] OTHER -> Obj(Stripped(Overlaid(g.object, o.object)))

\* A request that began after the last save of the administrator, of either
\* kind, gives the node what was saved: the override laid over the global
\* configuration, whatever requests came before or run beside it, as long as
\* the last save of the global configuration had not raced.
NodeGetsSaved ==
  \A h \in Handlers : Answered(h) /\ fresh[h] = "yes" /\ raced = "no" =>
    Given(h) = Intended(Meaning(latest), override)

\* sing-box refuses a configuration with two inbounds of the same tag: merging
\* gives none, unless the global list has two itself or is empty.
OneInboundPerKey ==
  \A h \in Handlers : Answered(h) /\ copy[h] # Broken =>
    LET list == InboundsOf(copy[h].object) IN
    list # <<>> /\ KeysUnique(list) => KeysUnique(InboundsOf(Given(h).object))
=============================================================================
