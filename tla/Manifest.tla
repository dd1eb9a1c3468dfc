------------------------------ MODULE Manifest ------------------------------
(***************************************************************************)
(* What the enabled modules declare about the schema, and what the         *)
(* operator's overrides make of it (src/internal/manifest).                *)
(*   manifests   a sequence, in registration order, of [module, templates, *)
(*               attrs]: templates is a sequence of [slug, entity], entity *)
(*               where records of their own go; attrs is a set of          *)
(*               [key, slug, kind, options, tmpl, target, label]           *)
(*   overrides   [host, modules]: modules maps names to [tmpl, attrs],     *)
(*               attrs maps keys to [slug, tmpl]                           *)
(* Slugs are numbers, as they are sorted; NoSlug is one that is not given. *)
(* Names, descriptions and platforms are carried along and left out.       *)
(***************************************************************************)
EXTENDS Naturals, Sequences, FiniteSets

CONSTANTS
  Slugs,         \* the well-formed ones
  HostTemplate,  \* the slug of the host's template unless overridden
  Nobody         \* the module and key of a template without records of its own

NoSlug == 0

ASSUME ManifestAssumption == Slugs \subseteq Nat \ {NoSlug} /\ HostTemplate \in Slugs

ValidSlug(s) == s \in Slugs

Kinds == {"text", "number", "boolean", "date", "datetime", "list", "metric", "reference"}

-----------------------------------------------------------------------------
(* Manifests by themselves.                                                *)

(* The templates of a module that hold records of their own. *)
EntityPlaces(m) == {k \in DOMAIN m.templates : m.templates[k].entity}

Entities(m) == {m.templates[k].slug : k \in EntityPlaces(m)}

LinksOn(m, t) == {a \in m.attrs : a.kind = "reference" /\ a.tmpl = t}

ValidAttribute(m, a) ==
  /\ ValidSlug(a.slug) /\ a.kind \in Kinds
  /\ a.kind = "list" <=> a.options # {}
  /\ a.tmpl = NoSlug \/ ValidSlug(a.tmpl)
  /\ a.label \in Nat
  /\ IF a.kind = "reference" THEN a.target = HostTemplate /\ a.tmpl \in Entities(m) ELSE a.target = NoSlug

Validate(ms) ==
  /\ \A i, j \in DOMAIN ms : ms[i].module = ms[j].module => i = j
  /\ \A i, j \in DOMAIN ms : \A a \in ms[i].attrs, b \in ms[j].attrs : a.slug = b.slug => i = j /\ a = b
  /\ \A i \in DOMAIN ms :
       /\ \A k \in DOMAIN ms[i].templates : ValidSlug(ms[i].templates[k].slug)
       /\ HostTemplate \notin Entities(ms[i])
       /\ \A a \in ms[i].attrs : ValidAttribute(ms[i], a)
       /\ \A a, b \in ms[i].attrs : a.key = b.key => a = b
       /\ \A t \in Entities(ms[i]) : \E a \in ms[i].attrs : LinksOn(ms[i], t) = {a}

-----------------------------------------------------------------------------
(* Overrides.                                                              *)

ModuleOverride(ov, m) ==
  IF m.module \in DOMAIN ov.modules THEN ov.modules[m.module] ELSE [tmpl |-> NoSlug, attrs |-> <<>>]

AttributeOverride(ov, m, a) ==
  IF a.key \in DOMAIN ModuleOverride(ov, m).attrs THEN ModuleOverride(ov, m).attrs[a.key]
  ELSE [slug |-> NoSlug, tmpl |-> NoSlug]

(* They name what there is, by slugs that are well formed. *)
Meant(ms, ov) ==
  /\ ov.host = NoSlug \/ ValidSlug(ov.host)
  /\ \A name \in DOMAIN ov.modules : \E i \in DOMAIN ms :
       /\ ms[i].module = name
       /\ ov.modules[name].tmpl = NoSlug \/ ValidSlug(ov.modules[name].tmpl)
       /\ \A key \in DOMAIN ov.modules[name].attrs :
            LET ao == ov.modules[name].attrs[key] IN
            /\ \E a \in ms[i].attrs : a.key = key
            /\ ao.slug = NoSlug \/ ValidSlug(ao.slug)
            /\ ao.tmpl = NoSlug \/ ValidSlug(ao.tmpl)

HostSlug(ov) == IF ValidSlug(ov.host) THEN ov.host ELSE HostTemplate

(* A module whose attributes all sit on its one template of records: the   *)
(* template override renames that template.                                *)
AllOnOne(m) ==
  \E k \in EntityPlaces(m) : EntityPlaces(m) = {k} /\ \A a \in m.attrs : a.tmpl = m.templates[k].slug

EntitySlug(ov, m, e) ==
  IF ValidSlug(ModuleOverride(ov, m).tmpl) /\ AllOnOne(m) THEN ModuleOverride(ov, m).tmpl ELSE e

(* The modules that have records of their own on a template. *)
EntityOwners(ms, ov, t) == {i \in DOMAIN ms : \E e \in Entities(ms[i]) : EntitySlug(ov, ms[i], e) = t}

Slug(ov, m, a) == LET s == AttributeOverride(ov, m, a).slug IN IF ValidSlug(s) THEN s ELSE a.slug

(* The attribute's override, the module's, the manifest's, the host's. *)
Home(ov, m, a) ==
  LET own == AttributeOverride(ov, m, a).tmpl
      all == ModuleOverride(ov, m).tmpl
  IN  IF a.tmpl \in Entities(m) THEN EntitySlug(ov, m, a.tmpl)
      ELSE IF ValidSlug(own) THEN own
      ELSE IF ValidSlug(all) THEN all
      ELSE IF a.tmpl # NoSlug THEN a.tmpl
      ELSE HostSlug(ov)

(* The attributes a link to the host may show. *)
Labels(ms, ov) ==
  {x \in UNION {{<<i, a>> : a \in ms[i].attrs} : i \in DOMAIN ms} :
     x[2].label > 0 /\ Home(ov, ms[x[1]], x[2]) = HostSlug(ov)}

(* The highest rank, and of those the first slug. *)
Display(ms, ov) ==
  LET slug(x) == Slug(ov, ms[x[1]], x[2])
      best == CHOOSE x \in Labels(ms, ov) : \A y \in Labels(ms, ov) :
                \/ x[2].label > y[2].label
                \/ x[2].label = y[2].label /\ slug(x) <= slug(y)
  IN  IF Labels(ms, ov) = {} THEN NoSlug ELSE slug(best)

(* Nothing is refused. *)
Accepted(ms, ov) ==
  /\ Meant(ms, ov)
  /\ \A i \in DOMAIN ms :
       /\ Entities(ms[i]) # {} /\ ValidSlug(ModuleOverride(ov, ms[i]).tmpl) => AllOnOne(ms[i])
       /\ \A e \in Entities(ms[i]) :
            /\ EntitySlug(ov, ms[i], e) # HostSlug(ov)
            /\ EntityOwners(ms, ov, EntitySlug(ov, ms[i], e)) = {i}
       /\ \A a \in ms[i].attrs :
            LET own == AttributeOverride(ov, ms[i], a).tmpl IN
            /\ a.kind = "reference" => Display(ms, ov) # NoSlug
            /\ IF a.tmpl \in Entities(ms[i]) THEN own \in {NoSlug, EntitySlug(ov, ms[i], a.tmpl)}
               ELSE EntityOwners(ms, ov, Home(ov, ms[i], a)) = {}
            /\ \A j \in DOMAIN ms : \A b \in ms[j].attrs :
                 Slug(ov, ms[i], a) = Slug(ov, ms[j], b) => i = j /\ a = b

-----------------------------------------------------------------------------
(* The schema that is wanted.                                              *)

Plain(t) == [slug |-> t, module |-> Nobody, key |-> Nobody]

Positions(ms) == UNION {{<<i, k>> : k \in DOMAIN ms[i].templates} : i \in DOMAIN ms}

Earlier(p, q) == p[1] < q[1] \/ (p[1] = q[1] /\ p[2] < q[2])

DeclaredAt(ms, ov, p) ==
  LET m == ms[p[1]]
      t == m.templates[p[2]]
  IN  IF t.entity THEN [slug |-> EntitySlug(ov, m, t.slug), module |-> m.module, key |-> t.slug] ELSE Plain(t.slug)

(* The first to declare a slug decides what it is; the host's is the host's.*)
Declared(ms, ov) ==
  {DeclaredAt(ms, ov, p) : p \in {q \in Positions(ms) :
     LET slug == DeclaredAt(ms, ov, q).slug IN
     /\ slug # HostSlug(ov)
     /\ \A r \in Positions(ms) : DeclaredAt(ms, ov, r).slug = slug => ~Earlier(r, q)}}

DesiredTemplates(ms, ov) ==
  LET homes == UNION {{Home(ov, ms[i], a) : a \in ms[i].attrs} : i \in DOMAIN ms}
      named == {t.slug : t \in Declared(ms, ov)}
  IN  Declared(ms, ov) \cup {Plain(t) : t \in ({HostSlug(ov)} \cup homes) \ named}

DesiredAttribute(ms, ov, m, a) ==
  [slug |-> Slug(ov, m, a), home |-> Home(ov, m, a), kind |-> a.kind, options |-> a.options,
   module |-> m.module, key |-> a.key,
   entity |-> IF a.tmpl \in Entities(m) THEN a.tmpl ELSE NoSlug,
   target |-> IF a.kind = "reference" THEN HostSlug(ov) ELSE NoSlug,
   display |-> IF a.kind = "reference" THEN Display(ms, ov) ELSE NoSlug]

Resolve(ms, ov) ==
  [host |-> HostSlug(ov), templates |-> DesiredTemplates(ms, ov),
   attrs |-> UNION {{DesiredAttribute(ms, ov, ms[i], a) : a \in ms[i].attrs} : i \in DOMAIN ms}]

Find(d, module, key) == {a \in d.attrs : a.module = module /\ a.key = key}

EntityTemplate(d, module, key) == {t \in d.templates : t.module = module /\ t.key = key}

HostLink(d, t) == {a \in d.attrs : a.kind = "reference" /\ a.home = t}

-----------------------------------------------------------------------------
(* What the rest of the program relies on.                                 *)

(* No template that holds records is also declared as one that does not.   *)
NoNamesakes(ms, ov) ==
  \A p, q \in Positions(ms) :
    DeclaredAt(ms, ov, p).slug = DeclaredAt(ms, ov, q).slug => DeclaredAt(ms, ov, p) = DeclaredAt(ms, ov, q)

(* Each attribute a module declares is there once, under a slug of its own.*)
AttributesFound(ms, ov) ==
  LET d == Resolve(ms, ov) IN
  /\ \A i \in DOMAIN ms : \A a \in ms[i].attrs : \E x \in d.attrs : Find(d, ms[i].module, a.key) = {x}
  /\ \A x, y \in d.attrs : x.slug = y.slug => x = y

(* An attribute sits on a template that is wanted: its module's own where  *)
(* it is one of a record, and one that holds no records otherwise.         *)
HomesWanted(ms, ov) ==
  LET d == Resolve(ms, ov) IN
  \A x \in d.attrs :
    /\ \E t \in d.templates : t.slug = x.home
    /\ \A t \in d.templates : t.slug = x.home =>
         IF x.entity = NoSlug THEN t.module = Nobody ELSE t.module = x.module /\ t.key = x.entity

(* A template of records is found by its module, and its one link leads to *)
(* the host and shows an attribute the host has.                           *)
LinksLead(ms, ov) ==
  LET d == Resolve(ms, ov) IN
  \A i \in DOMAIN ms : \A e \in Entities(ms[i]) :
    \E t \in d.templates, l, x \in d.attrs :
      /\ EntityTemplate(d, ms[i].module, e) = {t} /\ HostLink(d, t.slug) = {l}
      /\ l.target = d.host /\ x.slug = l.display /\ x.home = d.host
=============================================================================
