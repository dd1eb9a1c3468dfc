---------------------------- MODULE SchemaApply ----------------------------
(***************************************************************************)
(* A fleet brings one project's schema to what each host wants             *)
(* (src/internal/schema/diff.go and apply.go): every run reads the schema, *)
(* plans the additions it misses and executes them one call at a time,     *)
(* while other hosts, a user and its own earlier runs do the same.         *)
(*                                                                         *)
(* The platform processes writes at once but shows them late: discovery    *)
(* reads a replica that catches up whenever it likes.  Slugs are unique,   *)
(* so an object's id is known by its slug; slugs are numbers because plans *)
(* are sorted by slug, and 0 stands where an action names no such object.  *)
(***************************************************************************)
EXTENDS Naturals, FiniteSets

CONSTANTS
  Hosts,
  Wants,       \* Hosts -> what the host desires: a record of
               \*   templates: the template slugs
               \*   home:      attribute slug -> the template it belongs to
               \*   options:   pairs <<attribute, option>> of its lists
               \*   links:     reference slug -> [target, display]
  Kept,        \* states of the project a run may start from
  Strays,      \* attributes a user may create with another kind
  Reads,       \* reads of one settle policy (the immediate one included)
  MaxRereads,  \* re-reads after an "already exists" in one run
  MaxRuns,     \* bound of the model: runs of one host...
  Restarted    \* ...of those whose runs die or are repeated

ASSUME SchemaAssumption == Reads \in Nat \ {0} /\ MaxRereads \in Nat /\ MaxRuns \in Nat \ {0}

WantedAttrs(h) == DOMAIN Wants[h].home
Links(h) == DOMAIN Wants[h].links

(* What Resolve makes of the manifests: attributes sit on templates that   *)
(* are wanted, and a link leads to one and shows an attribute that is not  *)
(* a link itself.                                                          *)
ASSUME WantsAssumption ==
  /\ Strays \subseteq Nat
  /\ \A h \in Hosts :
       /\ Wants[h].templates \subseteq Nat /\ WantedAttrs(h) \subseteq Nat
       /\ \A a \in WantedAttrs(h) : Wants[h].home[a] \in Wants[h].templates
       /\ Wants[h].options \subseteq WantedAttrs(h) \X Nat
       /\ Links(h) \subseteq WantedAttrs(h)
       /\ \A a \in Links(h) : /\ Wants[h].links[a].target \in Wants[h].templates
                             /\ Wants[h].links[a].display \in WantedAttrs(h) \ Links(h)

Projects == [templates : SUBSET Nat, attrs : SUBSET Nat, other : SUBSET Nat,
             options : SUBSET (Nat \X Nat), binds : SUBSET (Nat \X Nat)]

(* Nothing in a project hangs in the air. *)
WellFormed(project) ==
  /\ project \in Projects
  /\ project.other \subseteq project.attrs
  /\ project.binds \subseteq project.attrs \X project.templates
  /\ \A e \in project.options : e[1] \in project.attrs

ASSUME KeptAssumption == \A project \in Kept : WellFormed(project)

VARIABLES
  plat,     \* the project: [templates, attrs, other, options, binds]
  replica,  \* the project as discovery shows it
  pc,       \* Hosts -> where its run is
  todo,     \* Hosts -> actions still to execute
  did,      \* Hosts -> keys of the actions it executed or skipped
  known,    \* Hosts -> the ids it holds: [templates, attrs, options]
  bound,    \* Hosts -> it bound an attribute and owes a verification
  rereads,  \* Hosts -> re-reads after an "already exists"
  reads,    \* Hosts -> reads of the current wait
  created,  \* history: Hosts -> objects this run created
  again,    \* history: hosts that tried to create one of those again
  runs      \* Hosts -> runs started

hostVars == <<pc, todo, did, known, bound, rereads, reads, created, again, runs>>
vars == <<plat, replica, hostVars>>

-----------------------------------------------------------------------------
(* Plans.                                                                  *)

NoIds == [templates |-> {}, attrs |-> {}, options |-> {}]

(* The ids a reading of the schema yields. *)
IdsOf(cur) == [templates |-> cur.templates, attrs |-> cur.attrs, options |-> cur.options]

(* Mutant: the ids of the latest reading are the ids the run holds. *)
MergeLatest(read, own) == read

(* Mutant: a later reading adds no ids. *)
MergeOwn(read, own) == own

(* Ids of a later reading join the ones already held; none is dropped. *)
Merge(read, own) == [f \in DOMAIN own |-> read[f] \cup own[f]]

Step(type, attr, tmpl, option, ids) ==
  [type |-> type, attr |-> attr, tmpl |-> tmpl, option |-> option, ids |-> ids]

(* Mutant: an attribute's bindings are taken to be none. *)
BoundToNone(cur, a) == {}

(* The templates a schema shows an attribute bound to. *)
BoundTo(cur, a) == {t \in cur.templates : <<a, t>> \in cur.binds}

(* Mutant: what holds the slug is taken to be what the host wants. *)
ConflictsOfLinks(h, cur) ==
  {a \in WantedAttrs(h) \cap cur.attrs :
     a \in Links(h) /\ Wants[h].links[a].target \notin cur.templates}

(* An attribute of another kind, or a link whose target is not there. *)
Conflicts(h, cur) ==
  {a \in WantedAttrs(h) \cap cur.attrs :
     a \in cur.other \/ (a \in Links(h) /\ Wants[h].links[a].target \notin cur.templates)}

Diff(h, cur) ==
  {Step("template", 0, t, 0, {}) : t \in Wants[h].templates \ cur.templates}
  \cup {Step("attribute", a, Wants[h].home[a], 0, {}) : a \in WantedAttrs(h) \ cur.attrs}
  \cup {Step("option", e[1], 0, e[2], {}) : e \in Wants[h].options \ cur.options}
  \cup {Step("bind", a, Wants[h].home[a], 0, BoundTo(cur, a)) :
          a \in {b \in WantedAttrs(h) \cap cur.attrs : Wants[h].home[b] \notin BoundTo(cur, b)}}

(* Templates, then attributes, then links, then options, then binds; by    *)
(* slug within each.                                                       *)
Rank(h, s) ==
  CASE s.type = "template" -> 1 [] s.type = "attribute" /\ s.attr \notin Links(h) -> 2
    [] s.type = "attribute" /\ s.attr \in Links(h) -> 3
    [] s.type = "option" -> 4 [] s.type = "bind" -> 5

Before(h, s, t) ==
  \/ Rank(h, s) < Rank(h, t)
  \/ /\ Rank(h, s) = Rank(h, t)
     /\ \/ s.attr < t.attr
        \/ s.attr = t.attr /\ s.tmpl < t.tmpl
        \/ s.attr = t.attr /\ s.tmpl = t.tmpl /\ s.option < t.option

IsFirst(h, s) == s \in todo[h] /\ \A t \in todo[h] : s = t \/ Before(h, s, t)

(* What tells a done action: its type and the slug it is about.  Options   *)
(* of one list share the attribute's slug.                                 *)
Key(s) == <<s.type, IF s.type = "template" THEN s.tmpl ELSE s.attr>>

(* Mutant: a lagging read makes the run's own objects look missing. *)
EverythingAgain(steps, done) == steps

(* What a later plan still has to do: nothing twice, but for binds. *)
NotYetDone(steps, done) == {s \in steps : s.type = "bind" \/ Key(s) \notin done}

-----------------------------------------------------------------------------
(* The platform's side of a call.                                          *)

Exists(cur, s) ==
  CASE s.type = "template"  -> s.tmpl \in cur.templates
    [] s.type = "attribute" -> s.attr \in cur.attrs
    [] s.type = "option"    -> <<s.attr, s.option>> \in cur.options
    [] s.type = "bind"      -> s.attr \in cur.attrs /\ s.tmpl \in BoundTo(cur, s.attr)

(* A slug or value that is taken is refused; binding never is. *)
Taken(s) == s.type # "bind" /\ Exists(plat, s)

After(s) ==
  CASE s.type = "template"  -> [plat EXCEPT !.templates = @ \cup {s.tmpl}]
    [] s.type = "attribute" -> [plat EXCEPT !.attrs = @ \cup {s.attr}, !.binds = @ \cup {<<s.attr, s.tmpl>>}]
    [] s.type = "option"    -> [plat EXCEPT !.options = @ \cup {<<s.attr, s.option>>}]
    [] s.type = "bind"      -> [plat EXCEPT !.binds =
                                  {b \in @ : b[1] # s.attr} \cup ({s.attr} \X (s.ids \cup {s.tmpl}))]

(* The ids a call needs before it can be made at all. *)
Ready(h, s) ==
  /\ s.type \in {"attribute", "bind"} => s.tmpl \in known[h].templates
  /\ s.type = "attribute" /\ s.attr \in Links(h) =>
       /\ Wants[h].links[s.attr].target \in known[h].templates
       /\ Wants[h].links[s.attr].display \in known[h].attrs
  /\ s.type = "option" => s.attr \in known[h].attrs

(* The id in the answer to a create. *)
Learnt(h, s) ==
  CASE s.type = "template"  -> [known[h] EXCEPT !.templates = @ \cup {s.tmpl}]
    [] s.type = "attribute" -> [known[h] EXCEPT !.attrs = @ \cup {s.attr}]
    [] s.type = "option"    -> [known[h] EXCEPT !.options = @ \cup {<<s.attr, s.option>>}]
    [] s.type = "bind"      -> known[h]

Object(s) == <<s.type, s.attr, s.tmpl, s.option>>

-----------------------------------------------------------------------------
Init ==
  /\ plat \in Kept /\ replica = plat
  /\ pc = [h \in Hosts |-> "new"]
  /\ todo = [h \in Hosts |-> {}] /\ did = [h \in Hosts |-> {}]
  /\ known = [h \in Hosts |-> NoIds]
  /\ bound = [h \in Hosts |-> FALSE]
  /\ rereads = [h \in Hosts |-> 0] /\ reads = [h \in Hosts |-> 0]
  /\ created = [h \in Hosts |-> {}] /\ again = {}
  /\ runs = [h \in Hosts |-> 1]

(* A run reads the schema and plans; conflicts end it before any write.    *)
Begin(h) ==
  /\ pc[h] = "new"
  /\ IF Conflicts(h, replica) # {}
     THEN pc' = [pc EXCEPT ![h] = "failed"] /\ UNCHANGED <<todo, known>>
     ELSE /\ pc' = [pc EXCEPT ![h] = "acting"]
          /\ todo' = [todo EXCEPT ![h] = Diff(h, replica)]
          /\ known' = [known EXCEPT ![h] = IdsOf(replica)]
  /\ UNCHANGED <<plat, replica, did, bound, rereads, reads, created, again, runs>>

(* The history of creates, each time one is sent. *)
Sent(h, s) ==
  again' = IF s.type # "bind" /\ Object(s) \in created[h] THEN again \cup {h} ELSE again

(* The run is at its next call. *)
Calling(h, places, s) == pc[h] \in places /\ IsFirst(h, s)

(* The call succeeds. *)
Applied(h, s) ==
  /\ plat' = After(s)
  /\ todo' = [todo EXCEPT ![h] = @ \ {s}]
  /\ did' = [did EXCEPT ![h] = @ \cup {Key(s)}]
  /\ known' = [known EXCEPT ![h] = Learnt(h, s)]
  /\ created' = [created EXCEPT ![h] = IF s.type = "bind" THEN @ ELSE @ \cup {Object(s)}]
  /\ Sent(h, s)
  /\ UNCHANGED <<replica, pc, rereads, reads, runs>>

Execute(h) ==
  \E s \in todo[h] :
    /\ Calling(h, {"acting"}, s) /\ Ready(h, s) /\ ~Taken(s)
    /\ Applied(h, s)
    /\ bound' = [bound EXCEPT ![h] = @ \/ s.type = "bind"]

(* Mutant: one re-read more than the bound. *)
ExecuteTakenOnceMore(h) ==
  /\ \E s \in todo[h] : Calling(h, {"acting"}, s) /\ Ready(h, s) /\ Taken(s) /\ Sent(h, s)
  /\ IF rereads[h] <= MaxRereads
     THEN /\ pc' = [pc EXCEPT ![h] = "reread"]
          /\ rereads' = [rereads EXCEPT ![h] = @ + 1]
          /\ reads' = [reads EXCEPT ![h] = 0]
     ELSE pc' = [pc EXCEPT ![h] = "failed"] /\ UNCHANGED <<rereads, reads>>
  /\ UNCHANGED <<plat, replica, todo, did, known, bound, created, runs>>

(* Already there: re-read, if the run may still do so. *)
ExecuteTaken(h) ==
  /\ \E s \in todo[h] : Calling(h, {"acting"}, s) /\ Ready(h, s) /\ Taken(s) /\ Sent(h, s)
  /\ IF rereads[h] < MaxRereads
     THEN /\ pc' = [pc EXCEPT ![h] = "reread"]
          /\ rereads' = [rereads EXCEPT ![h] = @ + 1]
          /\ reads' = [reads EXCEPT ![h] = 0]
     ELSE pc' = [pc EXCEPT ![h] = "failed"] /\ UNCHANGED <<rereads, reads>>
  /\ UNCHANGED <<plat, replica, todo, did, known, bound, created, runs>>

(* An attempt is processed but its answer lost, and the transport repeats  *)
(* the call.                                                               *)
Unanswered(h) ==
  /\ \E s \in todo[h] :
       /\ Calling(h, {"acting", "redoing"}, s) /\ Ready(h, s) /\ ~Taken(s)
       /\ plat' = After(s) /\ Sent(h, s)
  /\ UNCHANGED <<replica, pc, todo, did, known, bound, rereads, reads, created, runs>>

(* Any other error ends the run, and so does an id that is missing, before *)
(* the call is made.                                                       *)
Refused(h) ==
  /\ \E s \in todo[h] :
       /\ Calling(h, {"acting", "redoing"}, s)
       /\ pc' = [pc EXCEPT ![h] = IF Ready(h, s) THEN "failed" ELSE "disorder"]
  /\ UNCHANGED <<plat, replica, todo, did, known, bound, rereads, reads, created, again, runs>>

(* The wait for the taken object to show: it does, and the rest is planned *)
(* anew...                                                                 *)
Reread(h) ==
  /\ \E s \in todo[h] :
       /\ Calling(h, {"reread"}, s) /\ Exists(replica, s)
       /\ did' = [did EXCEPT ![h] = @ \cup {Key(s)}]
  /\ IF Conflicts(h, replica) # {}
     THEN pc' = [pc EXCEPT ![h] = "failed"] /\ UNCHANGED <<todo, known>>
     ELSE /\ pc' = [pc EXCEPT ![h] = "acting"]
          /\ known' = [known EXCEPT ![h] = Merge(IdsOf(replica), @)]
          /\ todo' = [todo EXCEPT ![h] = NotYetDone(Diff(h, replica), did'[h])]
  /\ UNCHANGED <<plat, replica, bound, rereads, reads, created, again, runs>>

(* Mutant: the wait for it has no end. *)
RereadAgain(h) ==
  /\ \E s \in todo[h] : Calling(h, {"reread"}, s) /\ ~Exists(replica, s)
  /\ UNCHANGED vars

(* ...or it does not, and the reads run out. *)
RereadInVain(h) ==
  /\ \E s \in todo[h] : Calling(h, {"reread"}, s) /\ ~Exists(replica, s)
  /\ reads' = [reads EXCEPT ![h] = @ + 1]
  /\ pc' = IF reads[h] + 1 < Reads THEN pc ELSE [pc EXCEPT ![h] = "failed"]
  /\ UNCHANGED <<plat, replica, todo, did, known, bound, rereads, created, again, runs>>

(* The plan is done.  After binds it is verified once, by a read that may  *)
(* lag, and what is missing is executed again.                             *)
Planned(h) ==
  /\ pc[h] = "acting" /\ todo[h] = {}
  /\ IF ~bound[h]
     THEN pc' = [pc EXCEPT ![h] = "ok"] /\ UNCHANGED <<todo, known>>
     ELSE /\ pc' = [pc EXCEPT ![h] = "redoing"]
          /\ known' = [known EXCEPT ![h] = Merge(IdsOf(replica), @)]
          /\ todo' = [todo EXCEPT ![h] =
                IF Conflicts(h, replica) = {} THEN NotYetDone(Diff(h, replica), did[h]) ELSE {}]
  /\ UNCHANGED <<plat, replica, did, bound, rereads, reads, created, again, runs>>

Redo(h) ==
  /\ \E s \in todo[h] :
       /\ Calling(h, {"redoing"}, s) /\ Ready(h, s)
       /\ IF Taken(s)
          THEN /\ todo' = [todo EXCEPT ![h] = @ \ {s}]
               /\ did' = [did EXCEPT ![h] = @ \cup {Key(s)}]
               /\ Sent(h, s)
               /\ UNCHANGED <<plat, replica, pc, known, rereads, reads, created, runs>>
          ELSE Applied(h, s)
  /\ UNCHANGED bound

Verified(h) ==
  /\ pc[h] = "redoing" /\ todo[h] = {}
  /\ pc' = [pc EXCEPT ![h] = "ok"]
  /\ UNCHANGED <<plat, replica, todo, did, known, bound, rereads, reads, created, again, runs>>

(* A read that fails ends the run: the first one, one of a wait, or the    *)
(* verification.                                                           *)
ReadFails(h) ==
  /\ \/ pc[h] \in {"new", "reread"}
     \/ pc[h] = "acting" /\ todo[h] = {} /\ bound[h]
  /\ pc' = [pc EXCEPT ![h] = "failed"]
  /\ UNCHANGED <<plat, replica, todo, did, known, bound, rereads, reads, created, again, runs>>

(* The process dies, or has ended, and is started again: it remembers      *)
(* nothing.                                                                *)
Rerun(h) ==
  /\ h \in Restarted /\ pc[h] # "new" /\ runs[h] < MaxRuns
  /\ pc' = [pc EXCEPT ![h] = "new"]
  /\ todo' = [todo EXCEPT ![h] = {}] /\ did' = [did EXCEPT ![h] = {}]
  /\ known' = [known EXCEPT ![h] = NoIds] /\ bound' = [bound EXCEPT ![h] = FALSE]
  /\ rereads' = [rereads EXCEPT ![h] = 0] /\ reads' = [reads EXCEPT ![h] = 0]
  /\ created' = [created EXCEPT ![h] = {}]
  /\ runs' = [runs EXCEPT ![h] = @ + 1]
  /\ UNCHANGED <<plat, replica, again>>

(* Discovery catches up with the writes. *)
CatchUp ==
  /\ replica # plat /\ replica' = plat
  /\ UNCHANGED <<plat, hostVars>>

(* A user takes a slug for an attribute of another kind. *)
UserCreates(a) ==
  /\ a \notin plat.attrs
  /\ plat' = [plat EXCEPT !.attrs = @ \cup {a}, !.other = @ \cup {a}]
  /\ UNCHANGED <<replica, hostVars>>

(* What the program does of itself, and what befalls it. *)
Run(h) ==
  \/ Begin(h) \/ Execute(h) \/ ExecuteTaken(h)
  \/ Reread(h) \/ RereadInVain(h) \/ Planned(h) \/ Redo(h) \/ Verified(h)

Befalls(h) == Unanswered(h) \/ Refused(h) \/ ReadFails(h) \/ Rerun(h)

Next ==
  \/ \E h \in Hosts : Run(h) \/ Befalls(h)
  \/ \E a \in Strays : UserCreates(a)
  \/ CatchUp

Spec == Init /\ [][Next]_vars

(* A started run goes on: its loop has no wait without an end. *)
FairSpec == Spec /\ \A h \in Hosts : WF_vars(Run(h))

-----------------------------------------------------------------------------
(* Properties.                                                             *)

TypeOK ==
  /\ WellFormed(plat) /\ WellFormed(replica)
  /\ \A h \in Hosts :
       /\ pc[h] \in {"new", "acting", "reread", "redoing", "ok", "failed", "disorder"}
       /\ \A s \in todo[h] : s.type \in {"template", "attribute", "option", "bind"}
       /\ bound[h] \in BOOLEAN /\ rereads[h] \in 0 .. MaxRereads /\ reads[h] \in 0 .. Reads
       /\ runs[h] \in 1 .. MaxRuns

(* FR-024, Apply: a run that reports success leaves a schema with every    *)
(* template, attribute (of the right kind) and list option its host wants, *)
(* whoever created them.                                                   *)
SuccessMeansComplete ==
  \A h \in Hosts : pc[h] = "ok" =>
    /\ Wants[h].templates \subseteq plat.templates
    /\ WantedAttrs(h) \subseteq plat.attrs \ plat.other
    /\ Wants[h].options \subseteq plat.options

(* FR-025, merge: after a success the run holds the id of everything its   *)
(* host wants, also when the last reading lags behind its own writes.      *)
SuccessMeansResolved ==
  \A h \in Hosts : pc[h] = "ok" =>
    /\ Wants[h].templates \subseteq known[h].templates
    /\ WantedAttrs(h) \subseteq known[h].attrs
    /\ Wants[h].options \subseteq known[h].options

(* FR-025, notYetDone: an object a run created is not created again by it, *)
(* however late discovery shows it.                                        *)
OwnNotRecreated == again = {}

(* execute (plan order violated): no plan, whatever it was recomputed      *)
(* from, reaches a call before the ids that call needs.                    *)
PlanOrderHolds == \A h \in Hosts : pc[h] # "disorder"

(* Additive only (FR-013), among hosts that agree: the platform's call     *)
(* replaces an attribute's bindings, and the reads it is computed from     *)
(* lag, yet no template, attribute, option or binding is ever lost.        *)
NothingTakenAway == [][\A f \in DOMAIN plat : plat[f] \subseteq plat'[f]]_vars

(* settle.Until, maxRereads: a run ends, whatever the reads show and even  *)
(* if discovery never catches up.                                          *)
RunsEnd == \A h \in Hosts : pc[h] \in {"acting", "reread", "redoing"} ~>
                            pc[h] \in {"new", "ok", "failed", "disorder"}
=============================================================================
