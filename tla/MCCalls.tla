------------------------------ MODULE MCCalls ------------------------------
(* Instances of Calls for TLC.                                             *)
EXTENDS Calls

(* A host template with a text, a metric and a list; an attribute that is  *)
(* on no template; a record with a key and one without.                    *)
Project ==
  [templates |-> {"host"},
   attrs |-> [a \in {"name", "cpu", "os", "stray"} |->
     [kind |-> CASE a = "cpu" -> "metric" [] a = "os" -> "list" [] OTHER -> "text", options |-> {}]],
   binds |-> {"host"} \X {"name", "cpu", "os"},
   records |-> [i \in 1 .. 2 |->
     [tmpl |-> "host", key |-> IF i = 1 THEN "k1" ELSE NoKey, values |-> [a \in {"name"} |-> "v1"],
      metrics |-> <<>>, hidden |-> 0, live |-> TRUE]],
   reads |-> 0, searches |-> 0, pending |-> <<>>]

Named(v) == [a \in {"name"} |-> v]
WithGone(v) == [a \in {"name", "gone"} |-> v]

Template == CreateTemplateCall("ups")
Attribute == CreateAttributeCall("load", "metric", {"host"}, <<None, None>>)
Link == CreateAttributeCall("link", "reference", {"ups"}, <<"ups", "name">>)
Option == AddListOptionCall("os", "linux")
Bind == BindAttributeCall("stray", {"host"})
Upsert(key) == UpsertByKeyCall("host", key, Named("v2"))
Unkeyed == CreateEntityCall("host", Named("v2"))
Ingest(attrs) == IngestMetricsCall(1, attrs)
Find == FindEntitiesCall("host", "name", "v2")
ByKey == EntityByKeyCall("host", "k2")

CONSTANTS a, b

Both(p, q, cred) ==
  [c \in {a, b} |-> [cred |-> IF c = a THEN cred ELSE "good", left |-> IF c = a THEN p ELSE q]]
Pair(p, q) == Both(p, q, "good")

(* Two clients that want the same, that read what the other writes, or     *)
(* that use what the other creates.                                        *)
Mixed ==
  {Pair(<<w>>, <<w>>) : w \in {Option, Attribute, Ingest({"cpu"})}}
  \cup {Pair(<<SetEntityKeyCall(2, "k2")>>, <<Upsert("k2")>>)}
  \cup {Pair(<<Upsert("k2")>>, <<Find>>), Pair(<<Upsert("k2")>>, <<ByKey>>), Pair(<<Template>>, <<Link>>),
        Pair(<<SetEntityKeyCall(2, "k1")>>, <<Unkeyed>>), Pair(<<UpdateEntityCall(1, WithGone("v2"))>>, <<Ingest({"cpu", "name"})>>),
        Pair(<<Template>>, <<ReadSchemaCall>>), Pair(<<Bind>>, <<ReadSchemaCall>>),
        Both(<<EntityValuesCall(2)>>, <<UpdateEntityCall(1, Named("v2"))>>, "other project")}
  \cup {Both(<<Option>>, <<MyPermissionsCall>>, cred) : cred \in {"bad token", "read only"}}
=============================================================================
