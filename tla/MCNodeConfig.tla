---------------------------- MODULE MCNodeConfig ----------------------------
(* An instance of NodeConfig for TLC: configurations and overrides in which  *)
(* inbounds meet by tag, by type, twice or not at all.                       *)
EXTENDS NodeConfig, TLC

Level(level) == Obj("level" :> Str(level))
Tagged(tag, port) == Obj("tag" :> Str(tag) @@ "port" :> Num(port))
Typed(type, field, value) ==
  Obj("type" :> Str(type) @@ "transport" :> Obj(field :> Num(value)))
Inbound(tag, type) == Obj("tag" :> Str(tag) @@ "type" :> Str(type))
WithInbounds(list) == Obj("inbounds" :> Arr(list))

\* mergeMap calls itself; here the objects in fields of fields have no object in
\* a field, and what the overlay has stands.
MCMergeNested(old, new) == new.object @@ old.object

MCDefault ==
  Obj("log" :> Level("info") @@ "dns" :> Level("info") @@ "camouflage" :> Level("off")
      @@ "inbounds" :> Arr(<<Inbound("ss-in", "shadowsocks"), Inbound("vless-in", "vless")>>))

\* The administrator's bodies, before they are normalised.
Raw ==
  {Obj("inbounds" :> Str("none")),
   Obj("log" :> Level("debug")
       @@ "inbounds" :> Arr(<<Inbound("ss-in", "shadowsocks"), Typed("trojan", "path", 1),
                              Num(1)>>))}

MCBodies == {Normalized(MCDefault, r) : r \in Raw}

\* Patches by tag and by type, two of the same key, an inbound without a key, a
\* field that is no object, and an override that is refused.
MCOverrides ==
  {Obj("log" :> Level("warn") @@ "dns" :> Str("off")
       @@ "inbounds" :> Arr(<<Tagged("ss-in", 2), Tagged("new", 3), Typed("trojan", "host", 2),
                              Tagged("new", 4), Num(5), Typed("trojan", "path", 3)>>)),
   WithInbounds(<<Inbound("ss-in", "VLESS")>>)}

ConfigSymmetry == Permutations(Handlers)
=============================================================================
