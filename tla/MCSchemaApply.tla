--------------------------- MODULE MCSchemaApply ---------------------------
(* Instances of SchemaApply for TLC.  Templates: 1 is the host's, 2 that of *)
(* a module's entities or of another fleet.  Attributes: 1 and 2 are lists, *)
(* 3 is a link to the host's template that shows attribute 1.               *)
(* What the hosts want is what Resolve makes of manifests and overrides.         *)
EXTENDS SchemaApply, Manifest

CONSTANTS h1, h2

Empty == [templates |-> {}, attrs |-> {}, other |-> {}, options |-> {}, binds |-> {}]

(* A project where attribute 1 exists already, bound to template 2 only.   *)
Elsewhere == [Empty EXCEPT !.templates = {2}, !.attrs = {1}, !.binds = {<<1, 2>>}]

Fresh == {Empty}
FreshOrElsewhere == {Empty, Elsewhere}

Attribute(key, slug, kind, options, tmpl, target, label) ==
  [key |-> key, slug |-> slug, kind |-> kind, options |-> options, tmpl |-> tmpl, target |-> target, label |-> label]

List(slug, options) == Attribute(slug, slug, "list", options, NoSlug, NoSlug, 1)

Machine(attrs) == [module |-> "machine", templates |-> <<>>, attrs |-> attrs]

(* Devices have a template, 4, and on it a link, 5. *)
Devices ==
  [module |-> "devices", templates |-> <<[slug |-> 4, entity |-> TRUE]>>,
   attrs |-> {Attribute(5, 5, "reference", {}, 4, HostTemplate, 0)}]

NoOverrides == [host |-> NoSlug, modules |-> <<>>]

(* The operator has them renamed. *)
Renamed ==
  [host |-> NoSlug, modules |->
     [m \in {"devices"} |-> [tmpl |-> 2, attrs |-> [k \in {5} |-> [slug |-> 3, tmpl |-> NoSlug]]]]]

(* What a plan is made from. *)
Wanted(ms, ov) ==
  LET d == Resolve(ms, ov)
      at(s) == CHOOSE a \in d.attrs : a.slug = s
  IN  [templates |-> {t.slug : t \in d.templates},
       home |-> [s \in {a.slug : a \in d.attrs} |-> at(s).home],
       options |-> UNION {{a.slug} \X a.options : a \in d.attrs},
       links |-> [s \in {a.slug : a \in {b \in d.attrs : b.kind = "reference"}} |->
                    [target |-> at(s).target, display |-> at(s).display]]]

(* A list with two options. *)
TwoOptionsHost ==
  [templates |-> {1}, home |-> [s \in {2} |-> 1], options |-> {2} \X {1, 2}, links |-> <<>>]
AllTwoOptions == [h \in Hosts |-> TwoOptionsHost]

(* A list with one option... *)
PlainHost ==
  [templates |-> {1}, home |-> [s \in {1} |-> 1], options |-> {<<1, 1>>}, links |-> <<>>]

(* ...and beside it a module's template, whose entities link to the host.  *)
LinkedHost ==
  [templates |-> {1, 2}, home |-> [s \in {1, 3} |-> IF s = 1 THEN 1 ELSE 2], options |-> {<<1, 1>>},
   links |-> [s \in {3} |-> [target |-> 1, display |-> 1]]]

(* One host has the module, the other does not. *)
Mixed == [h \in Hosts |-> IF h = h1 THEN LinkedHost ELSE PlainHost]

(* These are what their manifests come to, the last one's renamed. *)
ASSUME WantsResolved ==
  /\ TwoOptionsHost = Wanted(<<Machine({List(2, {1, 2})})>>, NoOverrides)
  /\ PlainHost = Wanted(<<Machine({List(1, {1})})>>, NoOverrides)
  /\ LinkedHost = Wanted(<<Machine({List(1, {1})}), Devices>>, Renamed)

-----------------------------------------------------------------------------
(* Two modules, and overrides that move and rename what they declare.      *)

Text(key, slug, tmpl, label) == Attribute(key, slug, "text", {}, tmpl, NoSlug, label)

SmallManifests ==
  {<<[module |-> "one", templates |-> ts, attrs |-> {Text(1, 2, tmpl, 1)}], two>> :
     ts \in {<<>>, <<[slug |-> 3, entity |-> FALSE]>>}, tmpl \in {NoSlug, 3, 4},
     two \in {[module |-> "two", templates |-> <<[slug |-> t, entity |-> TRUE]>>,
               attrs |-> {Attribute(1, 3, "reference", {}, t, HostTemplate, 0), Text(2, 4, s, l)}] :
               t \in {3, 4}, s \in {NoSlug, 4}, l \in {0, 1}}}

SmallOverrides ==
  {[host |-> h, modules |-> [m \in {"one", "two"} |->
      [tmpl |-> IF m = "one" THEN t ELSE u,
       attrs |-> [k \in {1} |-> [slug |-> IF m = "one" THEN s ELSE NoSlug, tmpl |-> IF m = "one" THEN v ELSE NoSlug]]]]] :
     h \in {NoSlug, 2, 3}, t \in {NoSlug, 2, 3}, u \in {NoSlug, 2, 3}, s \in {NoSlug, 3, 5}, v \in {NoSlug, 1, 2}}

Resolvable(ms, ov) == Validate(ms) /\ Accepted(ms, ov)

(* Whatever is accepted, the rest of the program finds what it relies on.  *)
ASSUME ResolveKept ==
  \A ms \in SmallManifests, ov \in SmallOverrides :
    Resolvable(ms, ov) /\ NoNamesakes(ms, ov) =>
      AttributesFound(ms, ov) /\ HomesWanted(ms, ov) /\ LinksLead(ms, ov)

(* With a namesake a template of records can be lost. *)
ASSUME NamesakeHides ==
  \E ms \in SmallManifests, ov \in SmallOverrides : Resolvable(ms, ov) /\ ~LinksLead(ms, ov)
=============================================================================
