---------------------------- MODULE ConfigMerge -----------------------------
(***************************************************************************)
(* How the panel makes the configuration of a node from the global one and *)
(* the node's override.  A JSON object is a function from its keys, under  *)
(* a name that tells it from an array, a string or a number.               *)
(***************************************************************************)
EXTENDS Integers, SequencesExt

CONSTANT MergeNested(_, _) \* what two values nested in fields merge to: MergeValue again

Obj(fields) == [object |-> fields]
Arr(items) == [array |-> items]
Str(chars) == [string |-> chars]
Num(number) == [number |-> number]

IsObj(v) == DOMAIN v = {"object"}
IsArr(v) == DOMAIN v = {"array"}
IsStr(v) == DOMAIN v = {"string"}

\* The items of an array are in an order, from 1.
IsList(items) == items \in Seq({items[i] : i \in DOMAIN items})

\* asString of a field; what is missing or no string is empty.
StringAt(fields, key) ==
  IF key \in DOMAIN fields /\ IsStr(fields[key]) THEN fields[key].string ELSE ""

\* The inbounds of a configuration, where it has a list of them.
InboundsOf(fields) ==
  IF "inbounds" \in DOMAIN fields /\ IsArr(fields["inbounds"]) THEN fields["inbounds"].array
  ELSE <<>>

-----------------------------------------------------------------------------
NoKey == <<>>

\* inboundMergeKey, by which an inbound is found again.
KeyOf(v) ==
  IF ~IsObj(v) THEN NoKey
  ELSE LET tag == StringAt(v.object, "tag")
           type == StringAt(v.object, "type")
       IN CASE tag # "" -> <<"tag", tag>>
            [] tag = "" /\ type # "" -> <<"type", type>>
            [] OTHER -> NoKey

\* indexByKey: of inbounds with the same key, the last one is found.
Index(list) ==
  [k \in {KeyOf(list[i]) : i \in DOMAIN list} \ {NoKey} |->
     Max({i \in DOMAIN list : KeyOf(list[i]) = k})]

\* Broken variant: an inbound that was appended is not found again.
Forgotten(acc, k) == acc.at

\* What is found once an inbound with key k is appended.
Noted(acc, k) ==
  [j \in (DOMAIN acc.at \cup {k}) \ {NoKey} |-> IF j = k THEN Len(acc.list) + 1 ELSE acc.at[j]]

\* The fields that are merged where both sides have them; others are replaced.
Merges(base, overlay, key) ==
  /\ key \in DOMAIN base \cap DOMAIN overlay
  /\ \/ key = "inbounds" /\ IsArr(overlay[key])
     \/ IsObj(base[key]) /\ IsObj(overlay[key])

\* A value of the kind of v.
Like(v, content) == IF IsArr(v) THEN Arr(content) ELSE Obj(content)

\* mergeMap of what a configuration has in it, objects and inbounds.
MergeObject(base, overlay) ==
  [key \in DOMAIN base \cup DOMAIN overlay |->
     IF key \notin DOMAIN overlay THEN base[key]
     ELSE IF ~Merges(base, overlay, key) THEN overlay[key]
     ELSE Like(overlay[key], MergeNested(base[key], overlay[key]))]

\* An inbound of the override is merged into the one with its key, or appended
\* and found by those after it.
MergeInbound(acc, raw) ==
  LET k == KeyOf(raw) IN
  IF k \in DOMAIN acc.at
  THEN [acc EXCEPT !.list[acc.at[k]] = Obj(MergeObject(@.object, raw.object))]
  ELSE [list |-> Append(acc.list, raw), at |-> Noted(acc, k)]

\* mergeInboundArrays when i inbounds of the override are merged.
Merging(base, overlay) ==
  LET acc[i \in 0..Len(overlay)] ==
        IF i = 0 THEN [list |-> base, at |-> Index(base)]
        ELSE MergeInbound(acc[i - 1], overlay[i])
  IN acc

\* mergeInboundArrays; into an empty list the override is copied as it is.
MergeInbounds(base, overlay) ==
  IF base = <<>> THEN overlay ELSE Merging(base, overlay)[Len(overlay)].list

\* What two values merge to; inbounds that are no array count as none.
MergeValue(old, new) ==
  IF IsArr(new) THEN MergeInbounds(IF IsArr(old) THEN old.array ELSE <<>>, new.array)
  ELSE MergeObject(old.object, new.object)

\* mergeMap of configurations.
MergeMap(base, overlay) ==
  [key \in DOMAIN base \cup DOMAIN overlay |->
     IF key \notin DOMAIN overlay THEN base[key]
     ELSE IF ~Merges(base, overlay, key) THEN overlay[key]
     ELSE Like(overlay[key], MergeValue(base[key], overlay[key]))]

-----------------------------------------------------------------------------
\* normalizeGlobalConfigJSON of an object: the default fills in what is missing,
\* but inbounds that are given stand as they are.
Normalized(default, config) ==
  LET merged == MergeMap(default.object, config.object) IN
  Obj(IF "inbounds" \in DOMAIN config.object
      THEN [merged EXCEPT !["inbounds"] = config.object["inbounds"]]
      ELSE merged)

\* The protocols that the global configuration owns.
Owned == {"shadowsocks", "shadowtls", "vless"}

\* strings.ToLower, on the types that occur.
Lower(type) == IF type = "VLESS" THEN "vless" ELSE type

Redefines(v) == IsObj(v) /\ Lower(StringAt(v.object, "type")) \in Owned

\* validateNodeInboundOverrides.  The check of settings that sing-box does not
\* know is left out: it only refuses more.
Valid(override) ==
  ~ \E i \in DOMAIN InboundsOf(override.object) : Redefines(InboundsOf(override.object)[i])

\* The inbounds that are kept of the first i of a list.
Kept(list) ==
  LET kept[i \in 0..Len(list)] ==
        IF i = 0 THEN <<>>
        ELSE IF Redefines(list[i]) THEN kept[i - 1] ELSE Append(kept[i - 1], list[i])
  IN kept

\* sanitizeNodeOverrideJSON of an object.
Sanitized(override) ==
  LET fields == override.object IN
  IF "inbounds" \in DOMAIN fields /\ IsArr(fields["inbounds"])
  THEN Obj([fields EXCEPT !["inbounds"] = Arr(Kept(@.array)[Len(@.array)])])
  ELSE override

\* stripControlPlaneConfig
Stripped(fields) == [key \in DOMAIN fields \ {"camouflage", "node_template"} |-> fields[key]]

-----------------------------------------------------------------------------
(* What merging is meant to do, without an order of steps. *)

\* What an inbound has become when i patches of a list have been gone through:
\* those after place from that have its key are merged into it.
Patching(v, patches, from) ==
  LET patched[i \in 0..Len(patches)] ==
        IF i <= from THEN v
        ELSE IF KeyOf(v) \in {KeyOf(patches[i])} \ {NoKey}
             THEN Obj(MergeObject(patched[i - 1].object, patches[i].object))
             ELSE patched[i - 1]
  IN patched

Patched(v, patches, from) == Patching(v, patches, from)[Len(patches)]

IsLast(list, i) == \A j \in i + 1 .. Len(list) : KeyOf(list[j]) # KeyOf(list[i])

\* The inbounds of an override that are new: without key, or the first of a key
\* that the global list has not.
NewOnes(base, overlay) ==
  {j \in DOMAIN overlay :
     \/ KeyOf(overlay[j]) = NoKey
     \/ /\ \A i \in DOMAIN base : KeyOf(base[i]) # KeyOf(overlay[j])
        /\ \A i \in 1 .. j - 1 : KeyOf(overlay[i]) # KeyOf(overlay[j])}

Place(base, overlay, j) == Len(base) + Cardinality({i \in NewOnes(base, overlay) : i <= j})

\* Of the global inbounds with a key, the last one takes all the override's
\* patches for it; what is new follows in its order, with the patches after it.
InboundsByKey(base, overlay) ==
  [n \in 1 .. Len(base) + Cardinality(NewOnes(base, overlay)) |->
     IF n \in DOMAIN base
     THEN IF IsLast(base, n) THEN Patched(base[n], overlay, 0) ELSE base[n]
     ELSE LET j == CHOOSE j \in NewOnes(base, overlay) : Place(base, overlay, j) = n
          IN Patched(overlay[j], overlay, j)]

\* A configuration with an override laid over it: inbounds by key, objects field
\* by field, anything else replaced.
Overlaid(base, overlay) ==
  [key \in DOMAIN base \cup DOMAIN overlay |->
     CASE key \notin DOMAIN overlay -> base[key]
       [] key \in DOMAIN overlay /\ key = "inbounds" /\ IsArr(overlay[key]) ->
            Arr(IF InboundsOf(base) = <<>> THEN overlay[key].array
                ELSE InboundsByKey(InboundsOf(base), overlay[key].array))
       [] key \in DOMAIN base \cap DOMAIN overlay /\ IsObj(base[key]) /\ IsObj(overlay[key]) ->
            Obj(MergeObject(base[key].object, overlay[key].object))
       [] OTHER -> overlay[key]]

\* No two inbounds with the same key.
KeysUnique(list) ==
  \A i, j \in DOMAIN list : KeyOf(list[i]) = KeyOf(list[j]) => i = j \/ KeyOf(list[i]) = NoKey
=============================================================================
