------------------------------ MODULE Platform ------------------------------
(***************************************************************************)
(* What the Omnismith platform answers a request, and what it makes of it: *)
(* the in-memory platform the repository's tests run against               *)
(* (src/internal/omni/omnitest).  A project is one record:                 *)
(*   templates   their slugs                                               *)
(*   attrs       slug -> [kind, options]                                   *)
(*   binds       pairs <<template, attribute>>                             *)
(*   records     a sequence of [tmpl, key, values, metrics, hidden, live]  *)
(*   reads, searches, pending: what its asynchronous reads show so far     *)
(* Slugs are unique, so the id of a template or attribute is its slug; a   *)
(* record's id is its place.                                               *)
(***************************************************************************)
EXTENDS Naturals, Sequences, FiniteSets, FiniteSetsExt

CONSTANTS
  None,
  NoKey,
  SchemaLag,  \* discovery reads that do not show a schema write yet
  SearchLag   \* searches that do not show a new record yet

ASSUME PlatformAssumption == SchemaLag \in Nat /\ SearchLag \in Nat

-----------------------------------------------------------------------------
(* Answers.  fields are the field errors of a 422: pairs of what is wrong  *)
(* and how; body is what a success carries.                                *)

Answer(p, status, fields, body) ==
  [project |-> p,
   answer |-> [status |-> status, code |-> "none", fields |-> fields, body |-> body]]

Success(p, status, body) == Answer(p, status, {}, body)
Problem(p, status) == Answer(p, status, {}, None)
Validation(p, what, how) == Answer(p, 422, {<<w, how>> : w \in what}, None)
NoProject(p) == [Problem(p, 409) EXCEPT !.answer.code = "no_project_selected"]

-----------------------------------------------------------------------------
(* The schema.                                                             *)

SchemaDoc(p) == [templates |-> p.templates, attrs |-> p.attrs, binds |-> p.binds]

(* The document from before a schema write, for the reads that lag.        *)
NoteSchemaWrite(p) ==
  IF SchemaLag = 0 THEN p
  ELSE [p EXCEPT !.pending = Append(@, [hidden |-> p.reads + SchemaLag, doc |-> SchemaDoc(p)])]

(* A read drops the documents up to the first it must still show: the one  *)
(* from before the earliest write it cannot see.                           *)
Discovery(p) ==
  LET reads == p.reads + 1
      shown == {k \in DOMAIN p.pending : p.pending[k].hidden >= reads}
      left  == IF shown = {} THEN <<>> ELSE SubSeq(p.pending, Min(shown), Len(p.pending))
  IN  Success([p EXCEPT !.reads = reads, !.pending = left], 200,
              IF left = <<>> THEN SchemaDoc(p) ELSE Head(left).doc)

CreateTemplate(p, r) ==
  IF r.slug \in p.templates THEN Validation(p, {"slug"}, "taken")
  ELSE Success([p EXCEPT !.templates = @ \cup {r.slug}], 201, r.slug)

IsReference(r) == r.kind = "reference"

CreateAttribute(p, r) ==
  IF r.slug \in DOMAIN p.attrs THEN Validation(p, {"slug"}, "taken")
  ELSE IF ~(r.tmpls \subseteq p.templates) THEN Validation(p, {"template_ids"}, "unknown")
  ELSE IF IsReference(r) /\ ~(r.target \in p.templates /\ r.display \in DOMAIN p.attrs)
  THEN Validation(p, {"reference_config"}, "needed")
  ELSE Success([p EXCEPT
         !.attrs = [a \in DOMAIN @ \cup {r.slug} |->
                      IF a = r.slug THEN [kind |-> r.kind, options |-> {}] ELSE @[a]],
         !.binds = @ \cup (r.tmpls \X {r.slug})], 201, r.slug)

CreateItem(p, r) ==
  IF r.attr \notin DOMAIN p.attrs THEN Problem(p, 404)
  ELSE IF p.attrs[r.attr].kind # "list" THEN Validation(p, {"attribute"}, "not a list")
  ELSE IF r.value \in p.attrs[r.attr].options THEN Validation(p, {"value"}, "taken")
  ELSE Success([p EXCEPT !.attrs[r.attr].options = @ \cup {r.value}], 201, r.value)

(* The templates given replace those the attribute was bound to. *)
PatchAttribute(p, r) ==
  IF r.attr \notin DOMAIN p.attrs THEN Problem(p, 404)
  ELSE IF ~(r.tmpls \subseteq p.templates) THEN Validation(p, {"template_ids"}, "unknown")
  ELSE Success([p EXCEPT !.binds = {b \in @ : b[2] # r.attr} \cup (r.tmpls \X {r.attr})], 204, None)

-----------------------------------------------------------------------------
(* Records.  A handler's refusals stand in the order the code makes them.  *)

Live(p) == {i \in DOMAIN p.records : p.records[i].live}

(* Mutant: a key is looked up where records show late. *)
LiveByKeySearched(p, t, key) ==
  {i \in Live(p) : p.records[i].tmpl = t /\ p.records[i].key = key /\ key # NoKey
                   /\ p.records[i].hidden <= p.searches}

(* The live record of a template that holds the key: none or one. *)
LiveByKey(p, t, key) == {i \in Live(p) : p.records[i].tmpl = t /\ p.records[i].key = key /\ key # NoKey}

(* The attributes that a record of the template cannot have; map order     *)
(* decides which of them a refusal names.                                  *)
Misplaced(p, t, attrs) == {a \in attrs : a \notin DOMAIN p.attrs \/ <<t, a>> \notin p.binds}

(* Values given join the ones a record has. *)
With(values, given) ==
  [a \in DOMAIN values \cup DOMAIN given |-> IF a \in DOMAIN given THEN given[a] ELSE values[a]]

(* A new record; search lags, the key does not. *)
AddRecord(p, t, key, values) ==
  [p EXCEPT !.records = Append(@, [tmpl |-> t, key |-> key, values |-> values, metrics |-> <<>>,
                                   hidden |-> p.searches + SearchLag, live |-> TRUE])]

(* The records with a value, oldest first. *)
SearchEntities(p, r) ==
  LET searches == p.searches + 1
      found == {i \in Live(p) :
                  /\ p.records[i].tmpl = r.tmpl /\ p.records[i].hidden < searches
                  /\ r.attr \in DOMAIN p.records[i].values /\ p.records[i].values[r.attr] = r.value}
  IN  IF r.tmpl \notin p.templates THEN Problem(p, 404)
      ELSE Success([p EXCEPT !.searches = searches], 200, found)

CreateEntity(p, r) ==
  LET misplaced == Misplaced(p, r.tmpl, DOMAIN r.values) IN
  IF r.tmpl \notin p.templates THEN Problem(p, 404)
  ELSE IF misplaced # {} THEN Validation(p, {CHOOSE a \in misplaced : TRUE}, "unknown")
  ELSE Success(AddRecord(p, r.tmpl, NoKey, r.values), 201, Len(p.records) + 1)

EntityByKey(p, r) ==
  IF LiveByKey(p, r.tmpl, r.key) = {} THEN Problem(p, 404)
  ELSE Success(p, 200, CHOOSE i \in LiveByKey(p, r.tmpl, r.key) : TRUE)

(* Create the record with the key, or update the one that holds it, in one *)
(* step; race: a concurrent write took the key and the platform gave up.   *)
UpsertByKey(p, r, race) ==
  LET held == LiveByKey(p, r.tmpl, r.key)
      i == CHOOSE h \in held : TRUE
      misplaced == Misplaced(p, r.tmpl, DOMAIN r.values)
  IN
  IF r.tmpl \notin p.templates THEN Problem(p, 404)
  ELSE IF race THEN Problem(p, 409)
  ELSE IF misplaced # {} THEN Validation(p, {CHOOSE a \in misplaced : TRUE}, "unknown")
  ELSE IF held # {} THEN Success([p EXCEPT !.records[i].values = With(@, r.values)], 200, i)
  ELSE Success(AddRecord(p, r.tmpl, r.key, r.values), 201, Len(p.records) + 1)

(* A key and values, or one of them.  The key is set before the values are *)
(* looked at.                                                              *)
Keyed(p, r) == IF r.key = NoKey THEN p ELSE [p EXCEPT !.records[r.id].key = r.key]

(* Mutant: the values that are in order are stored, and the rest refused. *)
UpdateEntityPartly(p, r) ==
  LET unknown == DOMAIN r.values \ DOMAIN p.attrs
      given   == [a \in DOMAIN r.values \ unknown |-> r.values[a]]
  IN
  IF r.id \notin Live(p) THEN Problem(p, 404)
  ELSE IF LiveByKey(p, p.records[r.id].tmpl, r.key) \ {r.id} # {} THEN Problem(p, 409)
  ELSE LET q == [Keyed(p, r) EXCEPT !.records[r.id].values = With(@, given)] IN
       IF unknown # {} THEN Validation(q, unknown, "unknown") ELSE Success(q, 200, None)

UpdateEntity(p, r) ==
  LET unknown == DOMAIN r.values \ DOMAIN p.attrs IN
  IF r.id \notin Live(p) THEN Problem(p, 404)
  ELSE IF LiveByKey(p, p.records[r.id].tmpl, r.key) \ {r.id} # {} THEN Problem(p, 409)
  ELSE IF unknown # {} THEN Validation(Keyed(p, r), unknown, "unknown")
  ELSE Success([Keyed(p, r) EXCEPT !.records[r.id].values = With(@, r.values)], 200, None)

(* Observations are appended, all or none, whatever was sent before. *)
IngestMetrics(p, r) ==
  LET wrong == {a \in r.attrs : a \notin DOMAIN p.attrs \/ p.attrs[a].kind # "metric"} IN
  IF r.id \notin Live(p) THEN Problem(p, 404)
  ELSE IF wrong # {} THEN Validation(p, wrong, "unknown")
  ELSE Success([p EXCEPT !.records[r.id].metrics = Append(@, r.attrs)], 202, None)

GetEntity(p, r) == IF r.id \notin Live(p) THEN Problem(p, 404) ELSE Success(p, 200, p.records[r.id].values)

(* A user deletes a record; its key is free again. *)
DeleteEntity(p, i) == [p EXCEPT !.records[i].live = FALSE]

-----------------------------------------------------------------------------
(* Projects.                                                               *)

IsList(s) == s \in Seq({s[k] : k \in DOMAIN s})

IsProject(p) ==
  /\ p = [templates |-> p.templates, attrs |-> p.attrs, binds |-> p.binds, records |-> p.records,
          reads |-> p.reads, searches |-> p.searches, pending |-> p.pending]
  /\ p.attrs = [a \in DOMAIN p.attrs |-> [kind |-> p.attrs[a].kind, options |-> p.attrs[a].options]]
  /\ IsList(p.records)
  /\ \A i \in DOMAIN p.records :
       LET e == p.records[i] IN
       /\ IsList(e.metrics)
       /\ e = [tmpl |-> e.tmpl, key |-> e.key, values |-> e.values, metrics |-> e.metrics,
               hidden |-> e.hidden, live |-> e.live]

(* A key has one holder among the live records of a template. *)
KeysHeldOnce(p) ==
  \A i, j \in Live(p) :
    p.records[i].tmpl = p.records[j].tmpl /\ p.records[i].key = p.records[j].key /\ p.records[i].key # NoKey
      => i = j

-----------------------------------------------------------------------------
(* Requests.                                                               *)

Reads == {"ReadSchema", "MyPermissions", "EntityByKey", "EntityValues"}  \* the GETs

Operations ==
  Reads \cup {"CreateTemplate", "CreateAttribute", "AddListOption", "BindAttribute", "FindEntities",
             "UpsertByKey", "CreateEntity", "UpdateEntity", "SetEntityKey", "IngestMetrics"}

Route(p, r, race) ==
  CASE r.op = "ReadSchema"      -> Discovery(p)
    [] r.op = "MyPermissions"   -> Success(p, 200, None)
    [] r.op = "CreateTemplate"  -> CreateTemplate(NoteSchemaWrite(p), r)
    [] r.op = "CreateAttribute" -> CreateAttribute(NoteSchemaWrite(p), r)
    [] r.op = "AddListOption"   -> CreateItem(NoteSchemaWrite(p), r)
    [] r.op = "BindAttribute"   -> PatchAttribute(NoteSchemaWrite(p), r)
    [] r.op = "FindEntities"    -> SearchEntities(p, r)
    [] r.op = "EntityByKey"     -> EntityByKey(p, r)
    [] r.op = "UpsertByKey"     -> UpsertByKey(p, r, race)
    [] r.op = "CreateEntity"    -> CreateEntity(p, r)
    [] r.op \in {"UpdateEntity", "SetEntityKey"} -> UpdateEntity(p, r)
    [] r.op = "IngestMetrics"   -> IngestMetrics(p, r)
    [] r.op = "EntityValues"    -> GetEntity(p, r)

(* Who asks, then whether writing is denied, then the request itself.      *)
Handle(p, cred, r, race) ==
  IF cred = "bad token" THEN Problem(p, 401)
  ELSE IF cred = "no project" /\ r.op # "MyPermissions" THEN NoProject(p)
  ELSE IF cred = "other project" /\ r.op # "MyPermissions" THEN Problem(p, 403)
  ELSE IF cred = "read only" /\ r.op \notin Reads THEN Problem(p, 403)
  ELSE Route(p, r, race)
=============================================================================
