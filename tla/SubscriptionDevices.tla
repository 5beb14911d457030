------------------------ MODULE SubscriptionDevices -------------------------
(***************************************************************************)
(* The device limit of one user's subscription.                            *)
(*                                                                         *)
(* Each subscription request runs in its own HTTP handler.  The handler    *)
(* reads the user, records the request, and registers the device in three  *)
(* separate statements (look it up, count the others, insert it), with no  *)
(* transaction around them: handlers of the same user interleave.          *)
(*                                                                         *)
(* A request names its device by a hash of the identifier it carries, or,  *)
(* when it carries none, by a fingerprint.  Identified and Anonymous are   *)
(* the sets of these keys.                                                 *)
(***************************************************************************)
EXTENDS Integers, FiniteSets

CONSTANTS
  Handlers,   \* requests that can be in progress at a time
  Identified, \* keys of devices that send an identifier
  Anonymous,  \* fingerprints of requests without identifier
  Limits      \* limits the administrator enters; 0 and less is no limit

ASSUME DevicesAssumption ==
  /\ IsFiniteSet(Handlers)
  /\ IsFiniteSet(Identified)
  /\ Identified \cap Anonymous = {}
  /\ Limits \subseteq Int

VARIABLES
  exists,     \* the user's row is there
  limit,      \* users.subscription_device_limit
  devices,    \* keys in user_subscription_devices
  requests,   \* keys in subscription_request_events
  pc,         \* where each handler is
  key,        \* the device key of each handler's request
  seenLimit,  \* the limit each handler read with the user
  known,      \* history: the device was registered when the request began
  highest,    \* history: the highest limit ever in force
  unlimited   \* history: the limit has been 0

handlerVars  == <<pc, key, seenLimit, known>>
historyVars == <<highest, unlimited>>
vars == <<exists, limit, devices, requests, handlerVars, historyVars>>

Keys == Identified \cup Anonymous
Answers == {"served", "missing", "denied", "failed", "notfound"}
Working == {"record", "lookup", "count", "insert", "build"}

\* CreateUser and UpdateUser store no negative limit.
Stored(n) == IF n < 0 THEN 0 ELSE n

TypeOK ==
  /\ exists \in BOOLEAN
  /\ limit \in Nat
  /\ devices \subseteq Keys /\ requests \subseteq Keys
  /\ pc \in [Handlers -> {"idle"} \cup Working \cup Answers]
  /\ key \in [Handlers -> Keys]
  /\ seenLimit \in [Handlers -> Nat]
  /\ known \in [Handlers -> BOOLEAN]
  /\ highest \in Nat
  /\ unlimited \in BOOLEAN

Init ==
  /\ exists = TRUE
  /\ limit \in {Stored(n) : n \in Limits}
  /\ devices = {} /\ requests = {}
  /\ pc = [h \in Handlers |-> "idle"]
  /\ key \in [Handlers -> Keys] /\ \A g, h \in Handlers : key[g] = key[h]
  /\ seenLimit = [h \in Handlers |-> limit]
  /\ known = [h \in Handlers |-> FALSE]
  /\ highest = limit /\ unlimited = (limit = 0)

-----------------------------------------------------------------------------
Goto(h, place) == pc' = [pc EXCEPT ![h] = place]

\* The devices that count towards the limit.
Counted == devices \cap Identified

\* handleSubscription and handleSubj: GetUserBySubscriptionToken reads the
\* user, limit included, and everything below uses that copy.
Begin(h, k) ==
  /\ pc[h] \notin Working
  /\ exists
  /\ key' = [key EXCEPT ![h] = k]
  /\ seenLimit' = [seenLimit EXCEPT ![h] = limit]
  /\ known' = [known EXCEPT ![h] = k \in devices]
  /\ Goto(h, "record")
  /\ UNCHANGED <<exists, limit, devices, requests, historyVars>>

\* No user has the token, or none any more: it was rotated, or the user is
\* deleted.
NotFound(h) ==
  /\ pc[h] \notin Working
  /\ Goto(h, "notfound")
  /\ UNCHANGED <<exists, limit, devices, requests, key, seenLimit, known, historyVars>>

\* RecordSubscriptionRequest: the event refers to the user's row.
Record(h) ==
  /\ pc[h] = "record"
  /\ IF exists
     THEN /\ requests' = requests \cup {key[h]}
          /\ Goto(h, "lookup")
     ELSE /\ Goto(h, "failed")
          /\ UNCHANGED requests
  /\ UNCHANGED <<exists, limit, devices, key, seenLimit, known, historyVars>>

\* Broken variant: a device that is registered already is counted anyway.
LookupIgnoresRegistered(h) ==
  /\ pc[h] = "lookup"
  /\ Goto(h, IF seenLimit[h] = 0 THEN "insert"
             ELSE IF key[h] \in Anonymous THEN "missing"
             ELSE "count")
  /\ UNCHANGED <<exists, limit, devices, requests, key, seenLimit, known, historyVars>>

\* Broken variant: without a limit nothing is registered.
LookupSkipsUnlimited(h) ==
  /\ pc[h] = "lookup"
  /\ Goto(h, IF seenLimit[h] = 0 THEN "build"
             ELSE IF key[h] \in Anonymous THEN "missing"
             ELSE IF key[h] \in devices THEN "insert"
             ELSE "count")
  /\ UNCHANGED <<exists, limit, devices, requests, key, seenLimit, known, historyVars>>

\* Broken variant: the identifier is not required.
LookupAdmitsAnonymous(h) ==
  /\ pc[h] = "lookup"
  /\ Goto(h, IF seenLimit[h] = 0 \/ key[h] \in devices THEN "insert" ELSE "count")
  /\ UNCHANGED <<exists, limit, devices, requests, key, seenLimit, known, historyVars>>

\* RegisterSubscriptionDevice up to the look-up: with a limit, the request
\* must carry an identifier; a registered device is not counted again.
Lookup(h) ==
  /\ pc[h] = "lookup"
  /\ Goto(h, IF seenLimit[h] = 0 THEN "insert"
             ELSE IF key[h] \in Anonymous THEN "missing"
             ELSE IF key[h] \in devices THEN "insert"
             ELSE "count")
  /\ UNCHANGED <<exists, limit, devices, requests, key, seenLimit, known, historyVars>>

\* Broken variant: one device too many is let in.
CountOffByOne(h) ==
  /\ pc[h] = "count"
  /\ Goto(h, IF Cardinality(Counted) > seenLimit[h] THEN "denied" ELSE "insert")
  /\ UNCHANGED <<exists, limit, devices, requests, key, seenLimit, known, historyVars>>

\* The count, compared with the limit read at the start.
Count(h) ==
  /\ pc[h] = "count"
  /\ Goto(h, IF Cardinality(Counted) >= seenLimit[h] THEN "denied" ELSE "insert")
  /\ UNCHANGED <<exists, limit, devices, requests, key, seenLimit, known, historyVars>>

\* The insert, which updates the row of a registered device.
Insert(h) ==
  /\ pc[h] = "insert"
  /\ IF exists
     THEN /\ devices' = devices \cup {key[h]}
          /\ Goto(h, "build")
     ELSE /\ Goto(h, "failed")
          /\ UNCHANGED devices
  /\ UNCHANGED <<exists, limit, requests, key, seenLimit, known, historyVars>>

\* BuildSubscription or BuildProfilePage, and the answer.
Build(h) ==
  /\ pc[h] = "build"
  /\ Goto(h, "served")
  /\ UNCHANGED <<exists, limit, devices, requests, key, seenLimit, known, historyVars>>

\* A statement fails: the client is gone or the database is.
Fail(h) ==
  /\ pc[h] \in Working
  /\ Goto(h, "failed")
  /\ UNCHANGED <<exists, limit, devices, requests, key, seenLimit, known, historyVars>>

\* The administrator edits the user; devices stay registered.
SetLimit(n) ==
  /\ exists
  /\ limit' = Stored(n)
  /\ highest' = IF Stored(n) > highest THEN Stored(n) ELSE highest
  /\ unlimited' = (unlimited \/ Stored(n) = 0)
  /\ UNCHANGED <<exists, devices, requests, handlerVars>>

\* The administrator deletes the user: its devices and events go with it.
DeleteUser ==
  /\ exists
  /\ exists' = FALSE
  /\ devices' = {} /\ requests' = {}
  /\ UNCHANGED <<limit, handlerVars, historyVars>>

Step(h) == Record(h) \/ Lookup(h) \/ Count(h) \/ Insert(h) \/ Build(h)

Next ==
  \/ \E h \in Handlers : Step(h) \/ Fail(h) \/ NotFound(h)
  \/ \E h \in Handlers, k \in Keys : Begin(h, k)
  \/ \E n \in Limits : SetLimit(n)
  \/ DeleteUser

Spec == Init /\ [][Next]_vars
-----------------------------------------------------------------------------
\* As long as there always was a limit, concurrent requests let in at most one
\* device more than the limit for every request beyond the first: between a
\* handler's count and its insert every other handler can insert one device.
OvershootBounded ==
  ~unlimited => Cardinality(Counted) <= highest + Cardinality(Handlers) - 1

\* A device that was registered when its request began is never turned away,
\* even when the limit has been lowered or other devices are let in meanwhile
\* (the look-up comes before the count).
RegisteredNeverDenied ==
  \A h \in Handlers : known[h] => pc[h] \notin {"count", "denied"} \/ ~exists

\* Nothing is served to a device that is not registered, or whose request was
\* not recorded, unless the user is gone.
ServedIsRegistered ==
  exists => \A h \in Handlers :
    /\ pc[h] \in {"build", "served"} => key[h] \in devices
    /\ pc[h] \in {"lookup", "count", "insert", "build", "served", "missing", "denied"} =>
         key[h] \in requests

\* The handlers that will add a device the count they did has not seen.
Admitted == {h \in Handlers : pc[h] = "insert" /\ key[h] \notin devices}

\* The inductive form of OvershootBounded: the devices there and those already
\* let in together stay within the bound.
AdmittedInv ==
  ~unlimited =>
    /\ limit \in 1 .. highest
    /\ \A h \in Handlers : seenLimit[h] \in 1 .. highest
    /\ Cardinality(Counted) + Cardinality(Admitted) <= highest + Cardinality(Handlers) - 1
    /\ \A h \in Handlers : pc[h] \in {"count", "insert"} => key[h] \in Identified
=============================================================================
