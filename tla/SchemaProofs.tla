---------------------------- MODULE SchemaProofs ----------------------------
(***************************************************************************)
(* What SchemaApply promises for any number of hosts, any schemas they     *)
(* want and runs of any length, proved with TLAPS.                         *)
(***************************************************************************)
EXTENDS SchemaApply, TLAPS

(* Only a bind carries ids, so what a step creates tells the step. *)
Plain(s) ==
  /\ s = Step(s.type, s.attr, s.tmpl, s.option, s.ids)
  /\ s.type # "bind" => s.ids = {}

(* The key of the action that created an object. *)
KeyOf(o) == <<o[1], IF o[1] = "template" THEN o[3] ELSE o[2]>>

(* The variables of a run are functions on the hosts. *)
PerHost ==
  /\ pc = [h \in Hosts |-> pc[h]] /\ todo = [h \in Hosts |-> todo[h]]
  /\ did = [h \in Hosts |-> did[h]] /\ created = [h \in Hosts |-> created[h]]

(* What a run created it is done with, and no plan of it names that again. *)
HostOwnInv(h) ==
  /\ pc[h] = "new" => created[h] = {}
  /\ \A s \in todo[h] : Plain(s)
  /\ \A o \in created[h] : KeyOf(o) \in did[h]
  /\ \A s \in todo[h] : s.type # "bind" => Object(s) \notin created[h]

OwnInv == PerHost /\ OwnNotRecreated /\ \A h \in Hosts : HostOwnInv(h)

-----------------------------------------------------------------------------
(* The plans.                                                              *)

(* Diff plans plain steps. *)
LEMMA DiffPlain ==
  ASSUME NEW h, NEW cur, NEW s \in Diff(h, cur)
  PROVE  Plain(s)
  BY DEF Diff, Plain, Step

LEMMA ObjectKey ==
  ASSUME NEW s, s.type # "bind"
  PROVE  KeyOf(Object(s)) = Key(s)
  BY DEF KeyOf, Object, Key

LEMMA SameObject ==
  ASSUME NEW s, NEW t, Plain(s), Plain(t), s.type # "bind", t.type # "bind",
         Object(s) = Object(t)
  PROVE  s = t
<1>1. s.type = t.type /\ s.attr = t.attr /\ s.tmpl = t.tmpl /\ s.option = t.option
  BY DEF Object
<1>2. s.ids = t.ids
  BY DEF Plain
<1> QED
  BY <1>1, <1>2 DEF Plain

(* notYetDone leaves out what the run created. *)
LEMMA NewPlanKeeps ==
  ASSUME NEW h, NEW cur, NEW done, NEW own,
         \A o \in own : KeyOf(o) \in done,
         NEW s \in NotYetDone(Diff(h, cur), done)
  PROVE  Plain(s) /\ (s.type # "bind" => Object(s) \notin own)
<1>1. s \in Diff(h, cur) /\ (s.type = "bind" \/ Key(s) \notin done)
  BY DEF NotYetDone
<1>2. Plain(s)
  BY <1>1, DiffPlain
<1> QED
  BY <1>1, <1>2, ObjectKey

-----------------------------------------------------------------------------
(* The steps.                                                              *)

LEMMA OwnInit == Init => OwnInv
  BY DEF Init, OwnInv, PerHost, OwnNotRecreated, HostOwnInv

(* Steps of the platform, and those that only move a started run's pc.     *)
LEMMA OwnFrame ==
  ASSUME OwnInv, UNCHANGED <<todo, did, created, again>>,
         pc' = [g \in Hosts |-> pc'[g]],
         \A g \in Hosts : pc'[g] = "new" => pc[g] = "new"
  PROVE  OwnInv'
  BY DEF OwnInv, PerHost, OwnNotRecreated, HostOwnInv

(* A create that is planned is not one of the run's own. *)
LEMMA SentNew ==
  ASSUME OwnInv, NEW h \in Hosts, NEW s \in todo[h], Sent(h, s)
  PROVE  again' = {}
  BY DEF OwnInv, HostOwnInv, OwnNotRecreated, Sent

LEMMA AppliedKeeps ==
  ASSUME OwnInv, NEW h \in Hosts, NEW s \in todo[h], pc[h] # "new", Applied(h, s)
  PROVE  OwnInv'
<1>1. again' = {}
  BY SentNew DEF Applied
<1>2. /\ todo' = [todo EXCEPT ![h] = @ \ {s}]
      /\ did' = [did EXCEPT ![h] = @ \cup {Key(s)}]
      /\ created' = [created EXCEPT ![h] = IF s.type = "bind" THEN @ ELSE @ \cup {Object(s)}]
      /\ pc' = pc
  BY DEF Applied
<1>3. PerHost'
  BY <1>2 DEF OwnInv, PerHost
<1>4. ASSUME NEW g \in Hosts, g # h
      PROVE  HostOwnInv(g)'
  BY <1>2, <1>4 DEF OwnInv, PerHost, HostOwnInv
<1>5. HostOwnInv(h)'
  <2>1. /\ todo'[h] = todo[h] \ {s} /\ did'[h] = did[h] \cup {Key(s)}
        /\ created'[h] = IF s.type = "bind" THEN created[h] ELSE created[h] \cup {Object(s)}
    BY <1>2 DEF OwnInv, PerHost
  <2>2. \A o \in created'[h] : KeyOf(o) \in did'[h]
    BY <2>1, ObjectKey DEF OwnInv, HostOwnInv
  <2>3. \A t \in todo'[h] : Plain(t) /\ (t.type # "bind" => Object(t) \notin created'[h])
    BY <2>1, SameObject DEF OwnInv, HostOwnInv
  <2> QED
    BY <1>2, <2>2, <2>3 DEF HostOwnInv
<1> QED
  BY <1>1, <1>3, <1>4, <1>5 DEF OwnInv, OwnNotRecreated

(* A host gets a new plan, or none, and perhaps more done actions.         *)
LEMMA PlanKeeps ==
  ASSUME OwnInv, NEW h \in Hosts, NEW steps, NEW done,
         todo' = [todo EXCEPT ![h] = steps], did' = [did EXCEPT ![h] = done],
         pc' = [g \in Hosts |-> pc'[g]], pc'[h] # "new",
         \A g \in Hosts : pc'[g] = "new" => pc[g] = "new",
         UNCHANGED <<created, again>>, did[h] \subseteq done,
         \A s \in steps : Plain(s) /\ (s.type # "bind" => Object(s) \notin created[h])
  PROVE  OwnInv'
<1>1. PerHost'
  BY DEF OwnInv, PerHost
<1>2. ASSUME NEW g \in Hosts, g # h
      PROVE  HostOwnInv(g)'
  BY <1>2 DEF OwnInv, PerHost, HostOwnInv
<1>3. HostOwnInv(h)'
  <2>1. todo'[h] = steps /\ did'[h] = done
    BY DEF OwnInv, PerHost
  <2> QED
    BY <2>1 DEF OwnInv, HostOwnInv
<1> QED
  BY <1>1, <1>2, <1>3 DEF OwnInv, OwnNotRecreated

LEMMA RunStep ==
  ASSUME OwnInv, NEW h \in Hosts, Run(h) \/ Befalls(h)
  PROVE  OwnInv'
<1>0. PerHost /\ HostOwnInv(h)
  BY DEF OwnInv
<1>1. CASE Begin(h)
  <2>1. CASE Conflicts(h, replica) # {}
    BY <1>1, <2>1, <1>0, OwnFrame DEF Begin, PerHost
  <2>2. CASE Conflicts(h, replica) = {}
    <3>1. created[h] = {}
      BY <1>1, <1>0 DEF Begin, HostOwnInv
    <3>2. did' = [did EXCEPT ![h] = did[h]]
      BY <1>1, <1>0 DEF Begin, PerHost
    <3> QED
      BY <1>1, <2>2, <1>0, <3>1, <3>2, DiffPlain, PlanKeeps DEF Begin, PerHost
  <2> QED
    BY <2>1, <2>2
<1>2. CASE Execute(h)
  <2>1. PICK s \in todo[h] : Calling(h, {"acting"}, s) /\ Applied(h, s)
    BY <1>2 DEF Execute
  <2> QED
    BY <2>1, AppliedKeeps DEF Calling
<1>3. CASE ExecuteTaken(h)
  <2>1. again' = {}
    BY <1>3, SentNew DEF ExecuteTaken
  <2>2. UNCHANGED again
    BY <2>1 DEF OwnInv, OwnNotRecreated
  <2> QED
    BY <1>3, <2>2, <1>0, OwnFrame DEF ExecuteTaken, PerHost
<1>4. CASE Reread(h)
  <2>1. PICK s \in todo[h] : pc[h] = "reread" /\ did' = [did EXCEPT ![h] = @ \cup {Key(s)}]
    BY <1>4 DEF Reread, Calling
  <2> DEFINE done == did[h] \cup {Key(s)}
  <2>2. did' = [did EXCEPT ![h] = done] /\ did'[h] = done /\ did[h] \subseteq done
    BY <2>1, <1>0 DEF PerHost
  <2>3. \A o \in created[h] : KeyOf(o) \in done
    BY <1>0 DEF HostOwnInv
  <2>4. UNCHANGED <<created, again>>
    BY <1>4 DEF Reread
  <2>5. CASE Conflicts(h, replica) # {}
    <3>1. todo' = [todo EXCEPT ![h] = todo[h]] /\ pc' = [pc EXCEPT ![h] = "failed"]
      BY <1>4, <2>5, <1>0 DEF Reread, PerHost
    <3>2. \A t \in todo[h] : Plain(t) /\ (t.type # "bind" => Object(t) \notin created[h])
      BY <1>0 DEF HostOwnInv
    <3>3. pc' = [g \in Hosts |-> pc'[g]] /\ pc'[h] # "new" /\ \A g \in Hosts : pc'[g] = "new" => pc[g] = "new"
      BY <3>1, <1>0 DEF PerHost
    <3> HIDE DEF done
    <3> QED
      BY <2>2, <2>4, <3>1, <3>2, <3>3, PlanKeeps
  <2>6. CASE Conflicts(h, replica) = {}
    <3> DEFINE steps == NotYetDone(Diff(h, replica), done)
    <3>1. todo' = [todo EXCEPT ![h] = steps] /\ pc' = [pc EXCEPT ![h] = "acting"]
      BY <1>4, <2>6, <2>2 DEF Reread
    <3>2. \A t \in steps : Plain(t) /\ (t.type # "bind" => Object(t) \notin created[h])
      BY <2>3, NewPlanKeeps
    <3>3. pc' = [g \in Hosts |-> pc'[g]] /\ pc'[h] # "new" /\ \A g \in Hosts : pc'[g] = "new" => pc[g] = "new"
      BY <3>1, <1>0 DEF PerHost
    <3> HIDE DEF done, steps
    <3> QED
      BY <2>2, <2>4, <3>1, <3>2, <3>3, PlanKeeps
  <2> QED
    BY <2>5, <2>6
<1>5. CASE RereadInVain(h)
  BY <1>5, <1>0, OwnFrame DEF RereadInVain, PerHost
<1>6. CASE Planned(h)
  <2>1. CASE ~bound[h]
    BY <1>6, <2>1, <1>0, OwnFrame DEF Planned, PerHost
  <2>2. CASE bound[h]
    <3> DEFINE steps == IF Conflicts(h, replica) = {} THEN NotYetDone(Diff(h, replica), did[h]) ELSE {}
    <3>1. /\ todo' = [todo EXCEPT ![h] = steps] /\ pc' = [pc EXCEPT ![h] = "redoing"]
          /\ UNCHANGED <<did, created, again>>
      BY <1>6, <2>2 DEF Planned
    <3>2. \A t \in steps : Plain(t) /\ (t.type # "bind" => Object(t) \notin created[h])
      BY <1>0, NewPlanKeeps DEF HostOwnInv
    <3>3. did' = [did EXCEPT ![h] = did[h]]
      BY <3>1, <1>0 DEF PerHost
    <3>4. pc' = [g \in Hosts |-> pc'[g]] /\ pc'[h] # "new" /\ \A g \in Hosts : pc'[g] = "new" => pc[g] = "new"
      BY <3>1, <1>0 DEF PerHost
    <3> HIDE DEF steps
    <3> QED
      BY <3>1, <3>2, <3>3, <3>4, PlanKeeps
  <2> QED
    BY <2>1, <2>2
<1>7. CASE Redo(h)
  <2>1. PICK s \in todo[h] :
          /\ pc[h] = "redoing"
          /\ IF Taken(s)
             THEN /\ todo' = [todo EXCEPT ![h] = @ \ {s}]
                  /\ did' = [did EXCEPT ![h] = @ \cup {Key(s)}]
                  /\ Sent(h, s)
                  /\ UNCHANGED <<pc, created>>
             ELSE Applied(h, s)
    BY <1>7 DEF Redo, Calling
  <2>2. CASE Taken(s)
    <3>1. UNCHANGED again
      BY <2>1, <2>2, SentNew DEF OwnInv, OwnNotRecreated
    <3>2. todo' = [todo EXCEPT ![h] = todo[h] \ {s}] /\ did' = [did EXCEPT ![h] = did[h] \cup {Key(s)}]
      BY <2>1, <2>2, <1>0 DEF PerHost
    <3>3. \A t \in todo[h] \ {s} : Plain(t) /\ (t.type # "bind" => Object(t) \notin created[h])
      BY <1>0 DEF HostOwnInv
    <3>4. pc' = [g \in Hosts |-> pc'[g]] /\ pc'[h] # "new" /\ \A g \in Hosts : pc'[g] = "new" => pc[g] = "new"
      BY <2>1, <2>2, <1>0 DEF PerHost
    <3>5. UNCHANGED <<created, again>> /\ did[h] \subseteq did[h] \cup {Key(s)}
      BY <2>1, <2>2, <3>1
    <3> QED
      BY <3>2, <3>3, <3>4, <3>5, PlanKeeps
  <2>3. CASE ~Taken(s)
    BY <2>1, <2>3, AppliedKeeps
  <2> QED
    BY <2>2, <2>3
<1>8. CASE Verified(h)
  BY <1>8, <1>0, OwnFrame DEF Verified, PerHost
<1>9. CASE Unanswered(h)
  <2>1. again' = {}
    BY <1>9, SentNew DEF Unanswered
  <2>2. UNCHANGED again
    BY <2>1 DEF OwnInv, OwnNotRecreated
  <2> QED
    BY <1>9, <2>2, <1>0, OwnFrame DEF Unanswered, PerHost
<1>10. CASE Refused(h)
  BY <1>10, <1>0, OwnFrame DEF Refused, PerHost
<1>11. CASE ReadFails(h)
  BY <1>11, <1>0, OwnFrame DEF ReadFails, PerHost
<1>12. CASE Rerun(h)
  <2>1. /\ pc' = [pc EXCEPT ![h] = "new"] /\ todo' = [todo EXCEPT ![h] = {}]
        /\ did' = [did EXCEPT ![h] = {}] /\ created' = [created EXCEPT ![h] = {}] /\ again' = again
    BY <1>12 DEF Rerun
  <2>2. PerHost'
    BY <2>1, <1>0 DEF PerHost
  <2>3. ASSUME NEW g \in Hosts PROVE HostOwnInv(g)'
    BY <2>1, <1>0 DEF OwnInv, PerHost, HostOwnInv
  <2> QED
    BY <2>1, <2>2, <2>3 DEF OwnInv, OwnNotRecreated
<1> QED
  BY <1>1, <1>2, <1>3, <1>4, <1>5, <1>6, <1>7, <1>8, <1>9, <1>10, <1>11, <1>12 DEF Run, Befalls

LEMMA OwnStep == OwnInv /\ [Next]_vars => OwnInv'
<1> SUFFICES ASSUME OwnInv, [Next]_vars
             PROVE  OwnInv'
  OBVIOUS
<1>1. ASSUME NEW h \in Hosts, Run(h) \/ Befalls(h) PROVE OwnInv'
  BY <1>1, RunStep
<1>2. ASSUME NEW a \in Strays, UserCreates(a) PROVE OwnInv'
  BY <1>2, OwnFrame DEF UserCreates, hostVars, OwnInv, PerHost
<1>3. CASE CatchUp
  BY <1>3, OwnFrame DEF CatchUp, hostVars, OwnInv, PerHost
<1>4. CASE UNCHANGED vars
  BY <1>4, OwnFrame DEF vars, hostVars, OwnInv, PerHost
<1> QED
  BY <1>1, <1>2, <1>3, <1>4 DEF Next

(* FR-025, notYetDone: however long discovery hides a run's own writes, a  *)
(* run never sends a create again that it saw succeed.                     *)
THEOREM CreatedOnce == Spec => []OwnNotRecreated
<1>1. OwnInv => OwnNotRecreated
  BY DEF OwnInv
<1> QED
  BY OwnInit, OwnStep, <1>1, PTL DEF Spec

-----------------------------------------------------------------------------
(* Types, plans and what a success means.                                  *)

Steps == {"template", "attribute", "option", "bind"}
Places == {"new", "acting", "reread", "redoing", "ok", "failed", "disorder"}

Ids == [templates : SUBSET Nat, attrs : SUBSET Nat, options : SUBSET (Nat \X Nat)]

Typed ==
  /\ WellFormed(plat) /\ WellFormed(replica)
  /\ pc \in [Hosts -> Places]
  /\ todo = [h \in Hosts |-> todo[h]] /\ did = [h \in Hosts |-> did[h]]
  /\ known \in [Hosts -> Ids]
  /\ bound \in [Hosts -> BOOLEAN]
  /\ rereads \in [Hosts -> 0 .. MaxRereads]
  /\ reads \in [Hosts -> 0 .. Reads]
  /\ runs \in [Hosts -> 1 .. MaxRuns]
  /\ \A h \in Hosts : pc[h] = "reread" => reads[h] < Reads

(* What discovery shows is there, and of the kind it shows. *)
Shown ==
  /\ replica.templates \subseteq plat.templates /\ replica.attrs \subseteq plat.attrs
  /\ replica.options \subseteq plat.options
  /\ plat.other \cap replica.attrs \subseteq replica.other

(* A step of a plan: something its host wants. *)
Wanted(project, h, s) ==
  /\ Plain(s)
  /\ \/ s.type = "template" /\ s.tmpl \in Wants[h].templates
     \/ s.type = "attribute" /\ s.attr \in WantedAttrs(h) /\ s.tmpl = Wants[h].home[s.attr]
     \/ s.type = "option" /\ <<s.attr, s.option>> \in Wants[h].options
     \/ /\ s.type = "bind" /\ s.attr \in WantedAttrs(h) /\ s.tmpl = Wants[h].home[s.attr]
        /\ s.attr \in project.attrs /\ s.ids \subseteq project.templates

(* Each list wants one option of this host: its actions are told apart.    *)
OneOption(h) == \A e, f \in Wants[h].options : e[1] = f[1] => e = f

(* The ids held are of objects that are there, and none that is wanted is  *)
(* of an attribute of another kind.                                        *)
Held(project, h, ids) ==
  /\ ids.templates \subseteq project.templates /\ ids.attrs \subseteq project.attrs
  /\ ids.options \subseteq project.options
  /\ WantedAttrs(h) \cap ids.attrs \cap project.other = {}

(* Whatever a plan leaves out is known. *)
Covered(h, ids, steps) ==
  /\ \A t \in Wants[h].templates :
       t \in ids.templates \/ \E s \in steps : s.type = "template" /\ s.tmpl = t
  /\ \A a \in WantedAttrs(h) :
       a \in ids.attrs \/ \E s \in steps : s.type = "attribute" /\ s.attr = a
  /\ OneOption(h) => \A e \in Wants[h].options :
       e \in ids.options \/ \E s \in steps : s.type = "option" /\ <<s.attr, s.option>> = e

(* So is what was done. *)
Remembered(h, ids, done) ==
  /\ \A t \in Wants[h].templates : <<"template", t>> \in done => t \in ids.templates
  /\ \A a \in WantedAttrs(h) : <<"attribute", a>> \in done => a \in ids.attrs
  /\ OneOption(h) => \A e \in Wants[h].options : <<"option", e[1]>> \in done => e \in ids.options

(* What holds of a run at a place, with its plan, its past and its ids. *)
RunOK(project, h, place, steps, done, ids) ==
  /\ place # "disorder"
  /\ \A s \in steps : Wanted(project, h, s)
  /\ Held(project, h, ids)
  /\ place = "new" => done = {}
  /\ place \in {"acting", "reread"} => Covered(h, ids, steps) /\ Remembered(h, ids, done)
  /\ place \in {"redoing", "ok"} => Covered(h, ids, {})

PlanInv == \A h \in Hosts : RunOK(plat, h, pc[h], todo[h], did[h], known[h])

Inv == Typed /\ Shown /\ PlanInv

(* A project only grows, and what is there keeps its kind. *)
Grown(old, new) ==
  /\ WellFormed(new)
  /\ old.templates \subseteq new.templates /\ old.attrs \subseteq new.attrs
  /\ old.options \subseteq new.options
  /\ new.other \cap old.attrs \subseteq old.other

LEMMA RunKept ==
  ASSUME NEW old, NEW new, Grown(old, new), NEW h, NEW place, NEW steps, NEW done, NEW ids,
         RunOK(old, h, place, steps, done, ids)
  PROVE  RunOK(new, h, place, steps, done, ids)
<1>1. \A s \in steps : Wanted(new, h, s)
  BY DEF RunOK, Wanted, Grown
<1>2. Held(new, h, ids)
  BY DEF RunOK, Held, Grown
<1> QED
  BY <1>1, <1>2 DEF RunOK

(* One host moves; the rest follows from what it moves to. *)
LEMMA HostMoves ==
  ASSUME Inv, NEW h \in Hosts, Grown(plat, plat'), UNCHANGED replica,
         NEW p \in Places, pc' = [pc EXCEPT ![h] = p],
         NEW steps, todo' = [todo EXCEPT ![h] = steps],
         NEW done, did' = [did EXCEPT ![h] = done],
         NEW ids \in Ids, known' = [known EXCEPT ![h] = ids],
         NEW n \in 0 .. Reads, reads' = [reads EXCEPT ![h] = n], p = "reread" => n < Reads,
         bound' \in [Hosts -> BOOLEAN], rereads' \in [Hosts -> 0 .. MaxRereads],
         runs' \in [Hosts -> 1 .. MaxRuns],
         RunOK(plat', h, p, steps, done, ids)
  PROVE  Inv'
<1>1. Typed /\ Shown /\ PlanInv
  BY DEF Inv
<1>2. WellFormed(plat') /\ WellFormed(replica')
  BY <1>1 DEF Grown, Typed
<1>3. /\ pc' \in [Hosts -> Places] /\ known' \in [Hosts -> Ids] /\ reads' \in [Hosts -> 0 .. Reads]
      /\ todo' = [g \in Hosts |-> todo'[g]] /\ did' = [g \in Hosts |-> did'[g]]
  BY <1>1 DEF Typed, Ids
<1>4. /\ pc'[h] = p /\ todo'[h] = steps /\ did'[h] = done /\ known'[h] = ids /\ reads'[h] = n
      /\ \A g \in Hosts : g # h =>
           /\ pc'[g] = pc[g] /\ todo'[g] = todo[g] /\ did'[g] = did[g]
           /\ known'[g] = known[g] /\ reads'[g] = reads[g]
  BY <1>1 DEF Typed
<1>5. \A g \in Hosts : pc'[g] = "reread" => reads'[g] < Reads
  BY <1>1, <1>4 DEF Typed
<1>6. Typed'
  BY <1>2, <1>3, <1>5 DEF Typed, Ids, WellFormed
<1>7. Shown'
  BY <1>1 DEF Shown, Grown
<1>8. ASSUME NEW g \in Hosts
      PROVE  RunOK(plat', g, pc'[g], todo'[g], did'[g], known'[g])
  <2>1. CASE g = h
    BY <2>1, <1>4
  <2>2. CASE g # h
    <3>1. RunOK(plat', g, pc[g], todo[g], did[g], known[g])
      BY <1>1, RunKept DEF PlanInv
    <3> QED
      BY <3>1, <2>2, <1>4
  <2> QED
    BY <2>1, <2>2
<1> QED
  BY <1>6, <1>7, <1>8 DEF Inv, PlanInv

LEMMA GrownRefl == WellFormed(plat) => Grown(plat, plat)
  BY DEF Grown

-----------------------------------------------------------------------------
(* The operators plans are made with.                                      *)

(* Diff plans what the host wants. *)
LEMMA DiffWanted ==
  ASSUME Inv, NEW h \in Hosts, NEW s \in Diff(h, replica)
  PROVE  Wanted(plat, h, s)
<1>1. Plain(s)
  BY DiffPlain
<1>2. /\ replica.templates \subseteq plat.templates /\ replica.attrs \subseteq plat.attrs
  BY DEF Inv, Shown
<1>3. \A e \in Wants[h].options : e = <<e[1], e[2]>>
  BY WantsAssumption
<1>4. CASE \E t \in Wants[h].templates : s = Step("template", 0, t, 0, {})
  BY <1>1, <1>4 DEF Wanted, Step
<1>5. CASE \E a \in WantedAttrs(h) : s = Step("attribute", a, Wants[h].home[a], 0, {})
  BY <1>1, <1>5 DEF Wanted, Step
<1>6. CASE \E e \in Wants[h].options : s = Step("option", e[1], 0, e[2], {})
  BY <1>1, <1>3, <1>6 DEF Wanted, Step
<1>7. CASE \E a \in WantedAttrs(h) \cap replica.attrs :
             s = Step("bind", a, Wants[h].home[a], 0, BoundTo(replica, a))
  BY <1>1, <1>2, <1>7 DEF Wanted, Step, BoundTo
<1> QED
  BY <1>4, <1>5, <1>6, <1>7 DEF Diff

(* A read without conflicts shows no wanted attribute of another kind.     *)
LEMMA NoConflictNoOther ==
  ASSUME Inv, NEW h \in Hosts, Conflicts(h, replica) = {}
  PROVE  WantedAttrs(h) \cap replica.attrs \cap plat.other = {}
  BY DEF Inv, Shown, Conflicts

LEMMA IdsShown ==
  ASSUME Inv
  PROVE  /\ IdsOf(replica) \in Ids
         /\ IdsOf(replica).templates = replica.templates /\ IdsOf(replica).attrs = replica.attrs
         /\ IdsOf(replica).options = replica.options
  BY DEF Inv, Typed, WellFormed, Projects, IdsOf, Ids

(* Merge drops no id, of either reading. *)
LEMMA Merged ==
  ASSUME Inv, NEW own \in Ids
  PROVE  /\ Merge(IdsOf(replica), own) \in Ids
         /\ Merge(IdsOf(replica), own).templates = replica.templates \cup own.templates
         /\ Merge(IdsOf(replica), own).attrs = replica.attrs \cup own.attrs
         /\ Merge(IdsOf(replica), own).options = replica.options \cup own.options
<1>1. PICK read \in Ids : /\ read = IdsOf(replica)
                          /\ read.templates = replica.templates /\ read.attrs = replica.attrs
                          /\ read.options = replica.options
  BY IdsShown
<1>2. DOMAIN own = {"templates", "attrs", "options"}
  BY DEF Ids
<1>3. Merge(read, own) = [f \in {"templates", "attrs", "options"} |-> read[f] \cup own[f]]
  BY <1>2 DEF Merge
<1>4. /\ Merge(read, own).templates = read.templates \cup own.templates
      /\ Merge(read, own).attrs = read.attrs \cup own.attrs
      /\ Merge(read, own).options = read.options \cup own.options
  BY <1>3
<1>5. Merge(read, own) = [templates |-> read.templates \cup own.templates,
                          attrs |-> read.attrs \cup own.attrs,
                          options |-> read.options \cup own.options]
  BY <1>3
<1>6. Merge(read, own) \in Ids
  BY <1>5 DEF Ids
<1> QED
  BY <1>1, <1>4, <1>6

(* A plan covers what the ids do not, and what was done is not missed.     *)
LEMMA DiffCovers ==
  ASSUME NEW h \in Hosts, NEW cur, NEW ids, NEW done, Remembered(h, ids, done),
         cur.templates \subseteq ids.templates, cur.attrs \subseteq ids.attrs,
         cur.options \subseteq ids.options
  PROVE  Covered(h, ids, NotYetDone(Diff(h, cur), done))
<1> DEFINE steps == NotYetDone(Diff(h, cur), done)
<1>1. ASSUME NEW t \in Wants[h].templates
      PROVE  t \in ids.templates \/ \E s \in steps : s.type = "template" /\ s.tmpl = t
  <2>1. CASE t \in cur.templates
    BY <2>1
  <2>2. CASE t \notin cur.templates
    <3>1. PICK s \in Diff(h, cur) : s = Step("template", 0, t, 0, {})
      BY <2>2 DEF Diff
    <3>2. s.type = "template" /\ s.tmpl = t /\ Key(s) = <<"template", t>>
      BY <3>1 DEF Step, Key
    <3> QED
      BY <3>1, <3>2 DEF Remembered, NotYetDone
  <2> QED
    BY <2>1, <2>2
<1>2. ASSUME NEW a \in WantedAttrs(h)
      PROVE  a \in ids.attrs \/ \E s \in steps : s.type = "attribute" /\ s.attr = a
  <2>1. CASE a \in cur.attrs
    BY <2>1
  <2>2. CASE a \notin cur.attrs
    <3>1. PICK s \in Diff(h, cur) : s = Step("attribute", a, Wants[h].home[a], 0, {})
      BY <2>2 DEF Diff
    <3>2. s.type = "attribute" /\ s.attr = a /\ Key(s) = <<"attribute", a>>
      BY <3>1 DEF Step, Key
    <3> QED
      BY <3>1, <3>2 DEF Remembered, NotYetDone
  <2> QED
    BY <2>1, <2>2
<1>3. ASSUME OneOption(h), NEW e \in Wants[h].options
      PROVE  e \in ids.options \/ \E s \in steps : s.type = "option" /\ <<s.attr, s.option>> = e
  <2>1. CASE e \in cur.options
    BY <2>1
  <2>2. CASE e \notin cur.options
    <3>1. PICK s \in Diff(h, cur) : s = Step("option", e[1], 0, e[2], {})
      BY <2>2 DEF Diff
    <3>2. s.type = "option" /\ <<s.attr, s.option>> = e /\ Key(s) = <<"option", e[1]>>
      BY <3>1, WantsAssumption DEF Step, Key
    <3> QED
      BY <1>3, <3>1, <3>2 DEF Remembered, NotYetDone
  <2> QED
    BY <2>1, <2>2
<1> QED
  BY <1>1, <1>2, <1>3 DEF Covered

(* The first of a plan that covers the rest has the ids it needs.          *)
LEMMA FirstReady ==
  ASSUME NEW h \in Hosts, NEW s, IsFirst(h, s), Wanted(plat, h, s),
         \/ Covered(h, known[h], todo[h])
         \/ Covered(h, known[h], {})
  PROVE  Ready(h, s)
<1>1. /\ \A t \in Wants[h].templates :
           t \in known[h].templates \/ \E r \in todo[h] : r.type = "template" /\ r.tmpl = t
      /\ \A a \in WantedAttrs(h) :
           a \in known[h].attrs \/ \E r \in todo[h] : r.type = "attribute" /\ r.attr = a
  BY DEF Covered
<1>2. ASSUME s.type # "template", NEW t \in Wants[h].templates
      PROVE  t \in known[h].templates
  <2> SUFFICES ASSUME NEW r \in todo[h], r.type = "template"
               PROVE  FALSE
    BY <1>1
  <2>1. Rank(h, r) = 1
    BY DEF Rank
  <2>2. Rank(h, s) \in {2, 3, 4, 5}
    BY <1>2 DEF Rank, Wanted
  <2> QED
    BY <1>2, <2>1, <2>2 DEF IsFirst, Before
<1>3. ASSUME s.type = "attribute", s.attr \in Links(h), NEW a \in WantedAttrs(h) \ Links(h)
      PROVE  a \in known[h].attrs
  <2> SUFFICES ASSUME NEW r \in todo[h], r.type = "attribute", r.attr = a
               PROVE  FALSE
    BY <1>1
  <2>0. r.type = "attribute" /\ r.attr \notin Links(h)
    BY <1>3
  <2>1. Rank(h, r) = 2
    BY <2>0 DEF Rank
  <2>2. s.type = "attribute" /\ s.attr \in Links(h)
    BY <1>3
  <2>3. Rank(h, s) = 3
    BY <2>2 DEF Rank
  <2> QED
    BY <1>3, <2>1, <2>3 DEF IsFirst, Before
<1>4. ASSUME s.type = "option", NEW a \in WantedAttrs(h)
      PROVE  a \in known[h].attrs
  <2> SUFFICES ASSUME NEW r \in todo[h], r.type = "attribute", r.attr = a
               PROVE  FALSE
    BY <1>1
  <2>1. Rank(h, r) \in {2, 3}
    BY DEF Rank
  <2>2. Rank(h, s) = 4
    BY <1>4 DEF Rank
  <2> QED
    BY <1>4, <2>1, <2>2 DEF IsFirst, Before
<1> QED
  BY <1>2, <1>3, <1>4, WantsAssumption DEF Ready, Wanted

-----------------------------------------------------------------------------
(* The platform's side of a call.                                          *)

(* A call the platform carries out lets the project grow by what it names. *)
LEMMA AfterGrows ==
  ASSUME Inv, NEW h \in Hosts, NEW s \in todo[h], Ready(h, s), ~Taken(s)
  PROVE  /\ Grown(plat, After(s))
         /\ s.type = "template" => s.tmpl \in After(s).templates
         /\ s.type = "attribute" => s.attr \in After(s).attrs /\ s.attr \notin After(s).other
         /\ s.type = "option" => <<s.attr, s.option>> \in After(s).options
<1>1. Wanted(plat, h, s) /\ Held(plat, h, known[h])
  BY DEF Inv, PlanInv, RunOK
<1>2. /\ plat \in Projects /\ plat.other \subseteq plat.attrs
      /\ plat.binds \subseteq plat.attrs \X plat.templates
      /\ \A e \in plat.options : e[1] \in plat.attrs
  BY DEF Inv, Typed, WellFormed
<1>3. /\ Wants[h].templates \subseteq Nat /\ WantedAttrs(h) \subseteq Nat
      /\ Wants[h].options \subseteq WantedAttrs(h) \X Nat
      /\ \A a \in WantedAttrs(h) : Wants[h].home[a] \in Wants[h].templates
  BY WantsAssumption
<1>4. CASE s.type = "template"
  <2>1. After(s) = [plat EXCEPT !.templates = @ \cup {s.tmpl}] /\ s.tmpl \in Nat
    BY <1>1, <1>3, <1>4 DEF After, Wanted
  <2> QED
    BY <2>1, <1>2, <1>4 DEF Projects, Grown, WellFormed
<1>5. CASE s.type = "attribute"
  <2>1. After(s) = [plat EXCEPT !.attrs = @ \cup {s.attr}, !.binds = @ \cup {<<s.attr, s.tmpl>>}]
    BY <1>5 DEF After
  <2>2. s.attr \in Nat /\ s.tmpl \in Nat /\ s.tmpl \in plat.templates /\ s.attr \notin plat.attrs
    BY <1>1, <1>3, <1>5 DEF Wanted, Ready, Held, Taken, Exists
  <2>3. /\ After(s).templates = plat.templates /\ After(s).attrs = plat.attrs \cup {s.attr}
        /\ After(s).other = plat.other /\ After(s).options = plat.options
        /\ After(s).binds = plat.binds \cup {<<s.attr, s.tmpl>>}
    BY <2>1, <1>2 DEF Projects
  <2>4. After(s) \in Projects
    <3>1. plat.attrs \cup {s.attr} \subseteq Nat /\ plat.binds \cup {<<s.attr, s.tmpl>>} \subseteq Nat \X Nat
      BY <2>2, <1>2 DEF Projects
    <3>2. After(s) = [templates |-> plat.templates, attrs |-> plat.attrs \cup {s.attr},
                      other |-> plat.other, options |-> plat.options,
                      binds |-> plat.binds \cup {<<s.attr, s.tmpl>>}]
      BY <2>1, <1>2 DEF Projects
    <3> QED
      BY <3>1, <3>2, <1>2 DEF Projects
  <2>5. WellFormed(After(s))
    BY <2>2, <2>3, <2>4, <1>2 DEF WellFormed
  <2> QED
    BY <2>2, <2>3, <2>5, <1>2, <1>5 DEF Grown
<1>6. CASE s.type = "option"
  <2>1. After(s) = [plat EXCEPT !.options = @ \cup {<<s.attr, s.option>>}]
    BY <1>6 DEF After
  <2>2. s.attr \in plat.attrs /\ <<s.attr, s.option>> \in Nat \X Nat
    BY <1>1, <1>3, <1>6 DEF Wanted, Ready, Held
  <2> QED
    BY <2>1, <2>2, <1>2, <1>6 DEF Projects, Grown, WellFormed
<1>7. CASE s.type = "bind"
  <2> DEFINE new == {b \in plat.binds : b[1] # s.attr} \cup ({s.attr} \X (s.ids \cup {s.tmpl}))
  <2>1. After(s) = [plat EXCEPT !.binds = new]
    BY <1>7 DEF After
  <2>2. s.attr \in plat.attrs /\ s.ids \subseteq plat.templates /\ s.tmpl \in plat.templates
    BY <1>1, <1>7 DEF Wanted, Ready, Held
  <2>3. plat.attrs \subseteq Nat /\ plat.templates \subseteq Nat
    BY <1>2 DEF Projects
  <2>4. new \subseteq plat.attrs \X plat.templates /\ new \subseteq Nat \X Nat
    BY <2>2, <2>3, <1>2
  <2> HIDE DEF new
  <2> QED
    BY <2>1, <2>4, <1>2, <1>7 DEF Projects, Grown, WellFormed
<1> QED
  BY <1>1, <1>4, <1>5, <1>6, <1>7 DEF Wanted

(* The id in the answer joins the others. *)
LEMMA LearntIds ==
  ASSUME Inv, NEW h \in Hosts, NEW s \in todo[h]
  PROVE  /\ Learnt(h, s) \in Ids
         /\ Learnt(h, s).templates =
              IF s.type = "template" THEN known[h].templates \cup {s.tmpl} ELSE known[h].templates
         /\ Learnt(h, s).attrs =
              IF s.type = "attribute" THEN known[h].attrs \cup {s.attr} ELSE known[h].attrs
         /\ Learnt(h, s).options =
              IF s.type = "option" THEN known[h].options \cup {<<s.attr, s.option>>} ELSE known[h].options
<1>1. Wanted(plat, h, s)
  BY DEF Inv, PlanInv, RunOK
<1>2. PICK own \in Ids : own = known[h]
  BY DEF Inv, Typed
<1>3. /\ Wants[h].templates \subseteq Nat /\ WantedAttrs(h) \subseteq Nat
      /\ Wants[h].options \subseteq WantedAttrs(h) \X Nat
  BY WantsAssumption
<1>4. CASE s.type = "template"
  BY <1>1, <1>2, <1>3, <1>4 DEF Learnt, Wanted, Ids
<1>5. CASE s.type = "attribute"
  BY <1>1, <1>2, <1>3, <1>5 DEF Learnt, Wanted, Ids
<1>6. CASE s.type = "option"
  <2>1. <<s.attr, s.option>> \in Nat \X Nat
    BY <1>1, <1>3, <1>6 DEF Wanted
  <2> QED
    BY <2>1, <1>2, <1>6 DEF Learnt, Ids
<1>7. CASE s.type = "bind"
  BY <1>2, <1>7 DEF Learnt, Ids
<1> QED
  BY <1>1, <1>4, <1>5, <1>6, <1>7 DEF Wanted

(* Carrying out a planned call leaves the rest of the plan right.          *)
LEMMA AppliedOK ==
  ASSUME Inv, NEW h \in Hosts, NEW s \in todo[h], pc[h] \in {"acting", "redoing"},
         Ready(h, s), ~Taken(s)
  PROVE  RunOK(After(s), h, pc[h], todo[h] \ {s}, did[h] \cup {Key(s)}, Learnt(h, s))
<1> DEFINE ids == Learnt(h, s)
           done == did[h] \cup {Key(s)}
           new == After(s)
<1>1. RunOK(plat, h, pc[h], todo[h], did[h], known[h]) /\ Wanted(plat, h, s)
  BY DEF Inv, PlanInv, RunOK
<1>2. Grown(plat, new) /\ RunOK(new, h, pc[h], todo[h], did[h], known[h])
  BY <1>1, AfterGrows, RunKept
<1>3. /\ ids.templates = IF s.type = "template" THEN known[h].templates \cup {s.tmpl} ELSE known[h].templates
      /\ ids.attrs = IF s.type = "attribute" THEN known[h].attrs \cup {s.attr} ELSE known[h].attrs
      /\ ids.options = IF s.type = "option" THEN known[h].options \cup {<<s.attr, s.option>>} ELSE known[h].options
  BY LearntIds
<1>4. /\ s.type = "template" => s.tmpl \in new.templates
      /\ s.type = "attribute" => s.attr \in new.attrs /\ s.attr \notin new.other
      /\ s.type = "option" => <<s.attr, s.option>> \in new.options
  BY AfterGrows
<1> HIDE DEF ids, new
<1>5. Held(new, h, ids)
  BY <1>2, <1>3, <1>4 DEF RunOK, Held
<1>6. Covered(h, known[h], todo[h]) => Covered(h, ids, todo[h] \ {s})
  BY <1>3 DEF Covered
<1>7. Covered(h, known[h], {}) => Covered(h, ids, {})
  BY <1>3 DEF Covered
<1>8. Remembered(h, known[h], did[h]) => Remembered(h, ids, done)
  <2> SUFFICES ASSUME Remembered(h, known[h], did[h]) PROVE Remembered(h, ids, done)
    OBVIOUS
  <2>1. ASSUME NEW t \in Wants[h].templates, <<"template", t>> \in done PROVE t \in ids.templates
    BY <2>1, <1>3, <1>1 DEF Remembered, Key, Wanted
  <2>2. ASSUME NEW a \in WantedAttrs(h), <<"attribute", a>> \in done PROVE a \in ids.attrs
    BY <2>2, <1>3, <1>1 DEF Remembered, Key, Wanted
  <2>3. ASSUME OneOption(h), NEW e \in Wants[h].options, <<"option", e[1]>> \in done
        PROVE  e \in ids.options
    <3>1. CASE <<"option", e[1]>> \in did[h]
      BY <2>3, <3>1, <1>3 DEF Remembered
    <3>2. CASE <<"option", e[1]>> = Key(s)
      <4>1. s.type = "option" /\ s.attr = e[1] /\ <<s.attr, s.option>> \in Wants[h].options
        BY <3>2, <1>1 DEF Key, Wanted
      <4>2. <<s.attr, s.option>> = e
        BY <4>1, <2>3 DEF OneOption
      <4> QED
        BY <4>1, <4>2, <1>3
    <3> QED
      BY <2>3, <3>1, <3>2
  <2> QED
    BY <2>1, <2>2, <2>3 DEF Remembered
<1>9. RunOK(new, h, pc[h], todo[h] \ {s}, done, ids)
  BY <1>2, <1>5, <1>6, <1>7, <1>8 DEF RunOK
<1> QED
  BY <1>9 DEF new, ids

-----------------------------------------------------------------------------
(* The steps.                                                              *)

LEMMA InvInit == Init => Inv
<1> SUFFICES ASSUME Init PROVE Inv
  OBVIOUS
<1> USE SchemaAssumption
<1>1. WellFormed(plat) /\ WellFormed(replica)
  BY KeptAssumption DEF Init
<1>2. NoIds \in Ids
  BY DEF NoIds, Ids
<1>3. Typed
  BY <1>1, <1>2 DEF Init, Typed, Places
<1>4. Shown
  BY DEF Init, Shown
<1>5. ASSUME NEW h \in Hosts PROVE RunOK(plat, h, pc[h], todo[h], did[h], known[h])
  BY DEF Init, RunOK, Held, NoIds
<1> QED
  BY <1>3, <1>4, <1>5 DEF Inv, PlanInv

(* What does not change. *)
LEMMA Stays ==
  ASSUME Inv, NEW h \in Hosts
  PROVE  /\ pc = [pc EXCEPT ![h] = pc[h]] /\ todo = [todo EXCEPT ![h] = todo[h]]
         /\ did = [did EXCEPT ![h] = did[h]] /\ known = [known EXCEPT ![h] = known[h]]
         /\ reads = [reads EXCEPT ![h] = reads[h]]
         /\ pc[h] \in Places /\ known[h] \in Ids /\ reads[h] \in 0 .. Reads
         /\ bound \in [Hosts -> BOOLEAN] /\ rereads \in [Hosts -> 0 .. MaxRereads]
         /\ runs \in [Hosts -> 1 .. MaxRuns]
         /\ pc[h] = "reread" => reads[h] < Reads
         /\ RunOK(plat, h, pc[h], todo[h], did[h], known[h])
         /\ Grown(plat, plat)
  BY DEF Inv, Typed, PlanInv, Grown

(* A host that only gives up, or moves on to where less is asked of it.    *)
LEMMA PlaceMoves ==
  ASSUME Inv, NEW h \in Hosts, NEW p \in {"failed", "ok"}, pc' = [pc EXCEPT ![h] = p],
         p = "ok" => Covered(h, known[h], {}),
         UNCHANGED <<plat, replica, todo, did, known, bound, rereads, runs>>,
         NEW n \in 0 .. Reads, reads' = [reads EXCEPT ![h] = n]
  PROVE  Inv'
<1>1. RunOK(plat, h, p, todo[h], did[h], known[h])
  BY Stays DEF RunOK
<1>2. p \in Places /\ p # "reread" /\ Grown(plat, plat') /\ RunOK(plat', h, p, todo[h], did[h], known[h])
  BY <1>1, Stays DEF Places
<1>3. /\ todo' = [todo EXCEPT ![h] = todo[h]] /\ did' = [did EXCEPT ![h] = did[h]]
      /\ known' = [known EXCEPT ![h] = known[h]] /\ known[h] \in Ids
      /\ bound' \in [Hosts -> BOOLEAN] /\ rereads' \in [Hosts -> 0 .. MaxRereads]
      /\ runs' \in [Hosts -> 1 .. MaxRuns]
  BY Stays
<1> QED
  BY <1>2, <1>3, HostMoves

LEMMA AppliedInv ==
  ASSUME Inv, NEW h \in Hosts, NEW s \in todo[h], pc[h] \in {"acting", "redoing"},
         Ready(h, s), ~Taken(s), Applied(h, s), bound' \in [Hosts -> BOOLEAN]
  PROVE  Inv'
<1>1. /\ plat' = After(s) /\ todo' = [todo EXCEPT ![h] = todo[h] \ {s}]
      /\ did' = [did EXCEPT ![h] = did[h] \cup {Key(s)}]
      /\ known' = [known EXCEPT ![h] = Learnt(h, s)]
      /\ UNCHANGED <<replica, pc, rereads, reads, runs>>
  BY DEF Applied, Inv, Typed
<1>2. Grown(plat, plat') /\ Learnt(h, s) \in Ids
  BY <1>1, AfterGrows, LearntIds
<1>3. RunOK(plat', h, pc[h], todo[h] \ {s}, did[h] \cup {Key(s)}, Learnt(h, s))
  BY <1>1, AppliedOK
<1> QED
  BY <1>1, <1>2, <1>3, Stays, HostMoves

LEMMA PlatformMoves ==
  ASSUME Inv, Grown(plat, plat'), UNCHANGED <<pc, todo, did, known, bound, rereads, reads, runs>>,
         WellFormed(replica'), Shown'
  PROVE  Inv'
<1>1. Typed'
  BY DEF Inv, Typed, Grown, WellFormed
<1>2. PlanInv'
  BY RunKept DEF Inv, PlanInv
<1> QED
  BY <1>1, <1>2 DEF Inv

LEMMA ReadyHere ==
  ASSUME Inv, NEW h \in Hosts, NEW s \in todo[h], Calling(h, {"acting", "redoing"}, s)
  PROVE  Ready(h, s)
<1>1. RunOK(plat, h, pc[h], todo[h], did[h], known[h]) /\ pc[h] \in {"acting", "redoing"} /\ IsFirst(h, s)
  BY DEF Inv, PlanInv, Calling
<1>2. Wanted(plat, h, s) /\ (\/ Covered(h, known[h], todo[h])
                             \/ Covered(h, known[h], {}))
  BY <1>1 DEF RunOK
<1> QED
  BY <1>1, <1>2, FirstReady

LEMMA BeginInv ==
  ASSUME Inv, NEW h \in Hosts, Begin(h)
  PROVE  Inv'
<1>1. CASE Conflicts(h, replica) # {}
  <2>1. /\ pc' = [pc EXCEPT ![h] = "failed"]
        /\ UNCHANGED <<plat, replica, todo, did, known, bound, rereads, reads, runs>>
    BY <1>1 DEF Begin
  <2> QED
    BY <2>1, Stays, PlaceMoves
<1>2. CASE Conflicts(h, replica) = {}
  <2> DEFINE steps == Diff(h, replica)
             ids == IdsOf(replica)
  <2>1. /\ pc[h] = "new" /\ pc' = [pc EXCEPT ![h] = "acting"]
        /\ todo' = [todo EXCEPT ![h] = steps] /\ known' = [known EXCEPT ![h] = ids]
        /\ UNCHANGED <<plat, replica, did, bound, rereads, reads, runs>>
    BY <1>2 DEF Begin
  <2>2. did[h] = {}
    BY <2>1, Stays DEF RunOK
  <2>3. Remembered(h, ids, did[h])
    BY <2>2 DEF Remembered
  <2>4. NotYetDone(steps, did[h]) = steps
    BY <2>2 DEF NotYetDone
  <2>5. Covered(h, ids, steps)
    BY <2>3, <2>4, IdsShown, DiffCovers
  <2>6. \A s \in steps : Wanted(plat, h, s)
    BY DiffWanted
  <2>7. Held(plat, h, ids)
    BY <1>2, IdsShown, NoConflictNoOther DEF Held, Inv, Shown
  <2>8. ids \in Ids
    BY IdsShown
  <2> HIDE DEF steps, ids
  <2>9. RunOK(plat, h, "acting", steps, did[h], ids)
    BY <2>3, <2>5, <2>6, <2>7 DEF RunOK
  <2> QED
    BY <2>1, <2>8, <2>9, Stays, HostMoves DEF Places
<1> QED
  BY <1>1, <1>2

LEMMA ExecuteInv ==
  ASSUME Inv, NEW h \in Hosts, Execute(h)
  PROVE  Inv'
<1>1. PICK s \in todo[h] : /\ Calling(h, {"acting"}, s) /\ Ready(h, s) /\ ~Taken(s)
                           /\ Applied(h, s)
                           /\ bound' = [bound EXCEPT ![h] = @ \/ s.type = "bind"]
  BY DEF Execute
<1>2. bound' \in [Hosts -> BOOLEAN]
  BY <1>1, Stays
<1> QED
  BY <1>1, <1>2, AppliedInv DEF Calling

LEMMA ExecuteTakenInv ==
  ASSUME Inv, NEW h \in Hosts, ExecuteTaken(h)
  PROVE  Inv'
<1>1. /\ pc[h] = "acting"
      /\ UNCHANGED <<plat, replica, todo, did, known, bound, runs>>
  BY DEF ExecuteTaken, Calling
<1>2. CASE rereads[h] < MaxRereads
  <2>1. /\ pc' = [pc EXCEPT ![h] = "reread"] /\ rereads' = [rereads EXCEPT ![h] = @ + 1]
        /\ reads' = [reads EXCEPT ![h] = 0]
    BY <1>2 DEF ExecuteTaken
  <2>2. rereads' \in [Hosts -> 0 .. MaxRereads]
    BY <1>2, <2>1, Stays, SchemaAssumption
  <2>3. 0 \in 0 .. Reads /\ 0 < Reads
    BY SchemaAssumption
  <2>4. RunOK(plat, h, "reread", todo[h], did[h], known[h])
    BY <1>1, Stays DEF RunOK
  <2> QED
    BY <1>1, <2>1, <2>2, <2>3, <2>4, Stays, HostMoves DEF Places
<1>3. CASE ~(rereads[h] < MaxRereads)
  <2>1. pc' = [pc EXCEPT ![h] = "failed"] /\ UNCHANGED <<rereads, reads>>
    BY <1>3 DEF ExecuteTaken
  <2> QED
    BY <1>1, <2>1, Stays, PlaceMoves
<1> QED
  BY <1>2, <1>3

LEMMA RereadInv ==
  ASSUME Inv, NEW h \in Hosts, Reread(h)
  PROVE  Inv'
<1>1. PICK s \in todo[h] : /\ pc[h] = "reread" /\ Exists(replica, s)
                           /\ did' = [did EXCEPT ![h] = @ \cup {Key(s)}]
  BY DEF Reread, Calling
<1> DEFINE done == did[h] \cup {Key(s)}
<1>2. did' = [did EXCEPT ![h] = done] /\ did'[h] = done
  BY <1>1 DEF Inv, Typed
<1>3. UNCHANGED <<plat, replica, bound, rereads, reads, runs>>
  BY DEF Reread
<1>4. Wanted(plat, h, s) /\ Remembered(h, known[h], did[h]) /\ Held(plat, h, known[h])
      /\ \A t \in todo[h] : Wanted(plat, h, t)
  BY <1>1, Stays DEF RunOK
<1>5. CASE Conflicts(h, replica) # {}
  <2>1. pc' = [pc EXCEPT ![h] = "failed"] /\ UNCHANGED <<todo, known>>
    BY <1>5 DEF Reread
  <2>2. RunOK(plat, h, "failed", todo[h], done, known[h])
    BY <1>4 DEF RunOK
  <2> HIDE DEF done
  <2> QED
    BY <2>1, <2>2, <1>2, <1>3, Stays, HostMoves DEF Places
<1>6. CASE Conflicts(h, replica) = {}
  <2> DEFINE ids == Merge(IdsOf(replica), known[h])
             steps == NotYetDone(Diff(h, replica), done)
  <2>1. /\ pc' = [pc EXCEPT ![h] = "acting"] /\ todo' = [todo EXCEPT ![h] = steps]
        /\ known' = [known EXCEPT ![h] = ids]
    BY <1>2, <1>6 DEF Reread, Inv, Typed
  <2>2. /\ ids \in Ids /\ ids.templates = replica.templates \cup known[h].templates
        /\ ids.attrs = replica.attrs \cup known[h].attrs
        /\ ids.options = replica.options \cup known[h].options
    BY Stays, Merged
  <2> HIDE DEF ids
  <2>3. Remembered(h, ids, done)
    <3>1. ASSUME NEW t \in Wants[h].templates, <<"template", t>> \in done PROVE t \in ids.templates
      BY <3>1, <2>2, <1>1, <1>4 DEF Remembered, Key, Wanted, Exists
    <3>2. ASSUME NEW a \in WantedAttrs(h), <<"attribute", a>> \in done PROVE a \in ids.attrs
      BY <3>2, <2>2, <1>1, <1>4 DEF Remembered, Key, Wanted, Exists
    <3>3. ASSUME OneOption(h), NEW e \in Wants[h].options, <<"option", e[1]>> \in done
          PROVE  e \in ids.options
      <4>1. CASE <<"option", e[1]>> \in did[h]
        BY <3>3, <4>1, <2>2, <1>4 DEF Remembered
      <4>2. CASE <<"option", e[1]>> = Key(s)
        <5>1. s.type = "option" /\ s.attr = e[1] /\ <<s.attr, s.option>> \in Wants[h].options
          BY <4>2, <1>4 DEF Key, Wanted
        <5>2. <<s.attr, s.option>> = e
          BY <5>1, <3>3 DEF OneOption
        <5>3. <<s.attr, s.option>> \in replica.options
          BY <5>1, <1>1 DEF Exists
        <5> QED
          BY <5>2, <5>3, <2>2
      <4> QED
        BY <3>3, <4>1, <4>2
    <3> QED
      BY <3>1, <3>2, <3>3 DEF Remembered
  <2>4. Covered(h, ids, steps)
    BY <2>2, <2>3, DiffCovers
  <2>5. \A t \in steps : Wanted(plat, h, t)
    BY DiffWanted DEF NotYetDone
  <2>6. Held(plat, h, ids)
    BY <2>2, <1>4, <1>6, NoConflictNoOther DEF Held, Inv, Shown
  <2> HIDE DEF steps, done
  <2>7. RunOK(plat, h, "acting", steps, done, ids)
    BY <2>3, <2>4, <2>5, <2>6 DEF RunOK
  <2> QED
    BY <2>1, <2>2, <2>7, <1>2, <1>3, Stays, HostMoves DEF Places
<1> QED
  BY <1>5, <1>6

LEMMA PlannedInv ==
  ASSUME Inv, NEW h \in Hosts, Planned(h)
  PROVE  Inv'
<1>1. /\ pc[h] = "acting" /\ todo[h] = {}
      /\ UNCHANGED <<plat, replica, did, bound, rereads, reads, runs>>
  BY DEF Planned
<1>2. Covered(h, known[h], {}) /\ Held(plat, h, known[h])
  BY <1>1, Stays DEF RunOK
<1>3. CASE ~bound[h]
  <2>1. pc' = [pc EXCEPT ![h] = "ok"] /\ UNCHANGED <<todo, known>>
    BY <1>3 DEF Planned
  <2> QED
    BY <1>1, <1>2, <2>1, Stays, PlaceMoves
<1>4. CASE bound[h]
  <2> DEFINE ids == Merge(IdsOf(replica), known[h])
             steps == IF Conflicts(h, replica) = {} THEN NotYetDone(Diff(h, replica), did[h]) ELSE {}
  <2>1. /\ pc' = [pc EXCEPT ![h] = "redoing"] /\ todo' = [todo EXCEPT ![h] = steps]
        /\ known' = [known EXCEPT ![h] = ids]
    BY <1>4 DEF Planned, Inv, Typed
  <2>2. /\ ids \in Ids /\ ids.templates = replica.templates \cup known[h].templates
        /\ ids.attrs = replica.attrs \cup known[h].attrs
        /\ ids.options = replica.options \cup known[h].options
    BY Stays, Merged
  <2>3. \A t \in steps : Wanted(plat, h, t)
    BY DiffWanted DEF NotYetDone
  <2> HIDE DEF ids, steps
  <2>4. Covered(h, ids, {})
    BY <1>2, <2>2 DEF Covered
  <2>5. WantedAttrs(h) \subseteq known[h].attrs
    BY <1>2 DEF Covered
  <2>6. Held(plat, h, ids)
    BY <1>2, <2>2, <2>5 DEF Held, Inv, Shown
  <2>7. RunOK(plat, h, "redoing", steps, did[h], ids)
    BY <2>3, <2>4, <2>6 DEF RunOK
  <2> QED
    BY <1>1, <2>1, <2>2, <2>7, Stays, HostMoves DEF Places
<1> QED
  BY <1>3, <1>4

LEMMA RedoInv ==
  ASSUME Inv, NEW h \in Hosts, Redo(h)
  PROVE  Inv'
<1>1. PICK s \in todo[h] :
        /\ pc[h] = "redoing" /\ Ready(h, s)
        /\ IF Taken(s)
           THEN /\ todo' = [todo EXCEPT ![h] = @ \ {s}] /\ did' = [did EXCEPT ![h] = @ \cup {Key(s)}]
                /\ UNCHANGED <<plat, replica, pc, known, rereads, reads, runs>>
           ELSE Applied(h, s)
  BY DEF Redo, Calling
<1>2. UNCHANGED bound
  BY DEF Redo
<1>3. CASE Taken(s)
  <2>1. /\ todo' = [todo EXCEPT ![h] = todo[h] \ {s}]
        /\ did' = [did EXCEPT ![h] = did[h] \cup {Key(s)}]
        /\ UNCHANGED <<plat, replica, pc, known, rereads, reads, runs>>
    BY <1>1, <1>3 DEF Inv, Typed
  <2>2. RunOK(plat, h, pc[h], todo[h] \ {s}, did[h] \cup {Key(s)}, known[h])
    BY <1>1, Stays DEF RunOK
  <2> QED
    BY <1>2, <2>1, <2>2, Stays, HostMoves
<1>4. CASE ~Taken(s)
  BY <1>1, <1>2, <1>4, Stays, AppliedInv
<1> QED
  BY <1>3, <1>4

LEMMA RerunInv ==
  ASSUME Inv, NEW h \in Hosts, Rerun(h)
  PROVE  Inv'
<1>1. /\ pc' = [pc EXCEPT ![h] = "new"] /\ todo' = [todo EXCEPT ![h] = {}]
      /\ did' = [did EXCEPT ![h] = {}] /\ known' = [known EXCEPT ![h] = NoIds]
      /\ bound' = [bound EXCEPT ![h] = FALSE] /\ rereads' = [rereads EXCEPT ![h] = 0]
      /\ reads' = [reads EXCEPT ![h] = 0] /\ runs' = [runs EXCEPT ![h] = @ + 1]
      /\ runs[h] < MaxRuns /\ UNCHANGED <<plat, replica>>
  BY DEF Rerun
<1>2. NoIds \in Ids
  BY DEF NoIds, Ids
<1>3. RunOK(plat, h, "new", {}, {}, NoIds)
  BY DEF RunOK, Held, NoIds
<1>4. bound' \in [Hosts -> BOOLEAN]
  BY <1>1, Stays
<1>5. rereads' \in [Hosts -> 0 .. MaxRereads] /\ runs' \in [Hosts -> 1 .. MaxRuns] /\ 0 \in 0 .. Reads
  BY <1>1, Stays, SchemaAssumption
<1> QED
  BY <1>1, <1>2, <1>3, <1>4, <1>5, Stays, HostMoves DEF Places

LEMMA InvStep == Inv /\ [Next]_vars => Inv'
<1> SUFFICES ASSUME Inv, [Next]_vars PROVE Inv'
  OBVIOUS
<1>1. ASSUME NEW h \in Hosts, Run(h) PROVE Inv'
  <2>1. CASE RereadInVain(h)
    <3>1. /\ pc[h] = "reread" /\ reads' = [reads EXCEPT ![h] = reads[h] + 1]
          /\ pc' = IF reads[h] + 1 < Reads THEN pc ELSE [pc EXCEPT ![h] = "failed"]
          /\ UNCHANGED <<plat, replica, todo, did, known, bound, rereads, runs>>
      BY <2>1 DEF RereadInVain, Calling, Inv, Typed
    <3>2. reads[h] + 1 \in 0 .. Reads
      BY <3>1, Stays, SchemaAssumption
    <3>3. CASE reads[h] + 1 < Reads
      BY <3>1, <3>2, <3>3, Stays, HostMoves
    <3>4. CASE ~(reads[h] + 1 < Reads)
      BY <3>1, <3>2, <3>4, PlaceMoves
    <3> QED
      BY <3>3, <3>4
  <2>2. CASE Verified(h)
    <3>1. Covered(h, known[h], {})
      BY <2>2, Stays DEF Verified, RunOK
    <3> QED
      BY <2>2, <3>1, Stays, PlaceMoves DEF Verified
  <2> QED
    BY <1>1, <2>1, <2>2, BeginInv, ExecuteInv, ExecuteTakenInv, RereadInv, PlannedInv, RedoInv DEF Run
<1>2. ASSUME NEW h \in Hosts, Befalls(h) PROVE Inv'
  <2>1. CASE Unanswered(h)
    <3>1. PICK s \in todo[h] : Ready(h, s) /\ ~Taken(s) /\ plat' = After(s)
      BY <2>1 DEF Unanswered
    <3>2. Grown(plat, plat')
      BY <3>1, AfterGrows
    <3>3. UNCHANGED <<replica, pc, todo, did, known, bound, rereads, reads, runs>>
      BY <2>1 DEF Unanswered
    <3>4. Shown' /\ WellFormed(replica')
      BY <3>2, <3>3 DEF Shown, Grown, Inv, Typed
    <3> QED
      BY <3>2, <3>3, <3>4, PlatformMoves
  <2>2. CASE Refused(h)
    <3>1. PICK s \in todo[h] : /\ Calling(h, {"acting", "redoing"}, s)
                               /\ pc' = [pc EXCEPT ![h] = IF Ready(h, s) THEN "failed" ELSE "disorder"]
      BY <2>2 DEF Refused
    <3>2. pc' = [pc EXCEPT ![h] = "failed"]
      BY <3>1, ReadyHere
    <3> QED
      BY <2>2, <3>2, Stays, PlaceMoves DEF Refused
  <2>3. CASE ReadFails(h)
    BY <2>3, Stays, PlaceMoves DEF ReadFails
  <2>4. CASE Rerun(h)
    BY <2>4, RerunInv
  <2> QED
    BY <1>2, <2>1, <2>2, <2>3, <2>4 DEF Befalls
<1>3. ASSUME NEW a \in Strays, UserCreates(a) PROVE Inv'
  <2>1. /\ a \notin plat.attrs
        /\ plat' = [plat EXCEPT !.attrs = @ \cup {a}, !.other = @ \cup {a}]
        /\ UNCHANGED <<replica, pc, todo, did, known, bound, rereads, reads, runs>>
    BY <1>3 DEF UserCreates, hostVars
  <2>2. a \in Nat /\ plat \in Projects /\ WellFormed(plat)
    BY WantsAssumption DEF Inv, Typed, WellFormed
  <2>3. plat' = [templates |-> plat.templates, attrs |-> plat.attrs \cup {a},
                 other |-> plat.other \cup {a}, options |-> plat.options, binds |-> plat.binds]
    BY <2>1, <2>2 DEF Projects
  <2>4. plat' \in Projects
    BY <2>2, <2>3 DEF Projects
  <2>5. WellFormed(plat')
    BY <2>2, <2>3, <2>4 DEF WellFormed
  <2>6. Grown(plat, plat')
    BY <2>1, <2>3, <2>5 DEF Grown
  <2>7. Shown' /\ WellFormed(replica')
    BY <2>1, <2>6 DEF Shown, Grown, Inv, Typed
  <2> QED
    BY <2>1, <2>6, <2>7, PlatformMoves
<1>4. CASE CatchUp
  <2>1. replica' = plat /\ UNCHANGED <<plat, pc, todo, did, known, bound, rereads, reads, runs>>
    BY <1>4 DEF CatchUp, hostVars
  <2>2. Grown(plat, plat') /\ WellFormed(replica') /\ Shown'
    BY <2>1 DEF Inv, Typed, Grown, Shown
  <2> QED
    BY <2>1, <2>2, PlatformMoves
<1>5. CASE UNCHANGED vars
  BY <1>5 DEF vars, hostVars, Inv, Typed, Shown, PlanInv
<1> QED
  BY <1>1, <1>2, <1>3, <1>4, <1>5 DEF Next

-----------------------------------------------------------------------------
(* What follows from it.                                                   *)

(* ApplyWith: project, plans, ids and counters stay what they are.         *)
THEOREM SchemaTyped == Spec => []TypeOK
<1>1. Inv => TypeOK
  BY DEF Inv, Typed, PlanInv, RunOK, Wanted, TypeOK, Places
<1> QED
  BY InvInit, InvStep, <1>1, PTL DEF Spec

(* execute (plan order violated): whatever other hosts do, and whatever    *)
(* reading the rest was planned from anew, no call is reached before the   *)
(* ids it needs.                                                           *)
THEOREM IdsLeadCalls == Spec => []PlanOrderHolds
<1>1. Inv => PlanOrderHolds
  BY DEF Inv, PlanInv, RunOK, PlanOrderHolds
<1> QED
  BY InvInit, InvStep, <1>1, PTL DEF Spec

(* FR-025, merge: a success holds the id of everything the host wants, as  *)
(* long as no list wants two options: notYetDone cannot tell those apart.  *)
THEOREM SuccessIsResolved ==
  ASSUME \A h \in Hosts : OneOption(h)
  PROVE  Spec => []SuccessMeansResolved
<1>1. Inv => SuccessMeansResolved
  <2> SUFFICES ASSUME Inv, NEW h \in Hosts, pc[h] = "ok"
               PROVE  /\ Wants[h].templates \subseteq known[h].templates
                      /\ WantedAttrs(h) \subseteq known[h].attrs
                      /\ Wants[h].options \subseteq known[h].options
    BY DEF SuccessMeansResolved
  <2>1. Covered(h, known[h], {})
    BY DEF Inv, PlanInv, RunOK
  <2> QED
    BY <2>1 DEF Covered
<1> QED
  BY InvInit, InvStep, <1>1, PTL DEF Spec

(* FR-024, Apply: a success means that everything wanted is there, and of  *)
(* the right kind, whoever made it; again for one option a list.           *)
THEOREM SuccessIsComplete ==
  ASSUME \A h \in Hosts : OneOption(h)
  PROVE  Spec => []SuccessMeansComplete
<1>1. Inv => SuccessMeansComplete
  <2> SUFFICES ASSUME Inv, NEW h \in Hosts, pc[h] = "ok"
               PROVE  /\ Wants[h].templates \subseteq plat.templates
                      /\ WantedAttrs(h) \subseteq plat.attrs \ plat.other
                      /\ Wants[h].options \subseteq plat.options
    BY DEF SuccessMeansComplete
  <2>1. Covered(h, known[h], {}) /\ Held(plat, h, known[h])
    BY DEF Inv, PlanInv, RunOK
  <2> QED
    BY <2>1 DEF Covered, Held
<1> QED
  BY InvInit, InvStep, <1>1, PTL DEF Spec

-----------------------------------------------------------------------------
(* Bindings: a call replaces an attribute's, and is computed from a read   *)
(* that lags.  Hosts that agree where an attribute belongs lose none.      *)

Agreed ==
  \A g, h \in Hosts : \A a \in WantedAttrs(g) \cap WantedAttrs(h) :
    Wants[g].home[a] = Wants[h].home[a]

HomeBind(b) == \E h \in Hosts : b[1] \in WantedAttrs(h) /\ b[2] = Wants[h].home[b[1]]

(* A reading may miss bindings, but only those that some host wants. *)
BindsShown ==
  /\ replica.binds \subseteq plat.binds
  /\ \A b \in plat.binds : b[1] \in replica.attrs => b \in replica.binds \/ HomeBind(b)

(* The ids of a planned bind are bindings, and miss only what it adds.     *)
BindOK(s) ==
  /\ {s.attr} \X s.ids \subseteq plat.binds
  /\ \A b \in plat.binds : b[1] = s.attr => b[2] \in s.ids \cup {s.tmpl}

BindInv == BindsShown /\ \A h \in Hosts : \A s \in todo[h] : s.type = "bind" => BindOK(s)

(* Where plans, the project and its readings come from. *)
LEMMA Sources ==
  ASSUME Inv, Next
  PROVE  /\ \A g \in Hosts : todo'[g] \subseteq todo[g] \cup Diff(g, replica)
         /\ replica' \in {replica, plat}
         /\ \/ plat' = plat
            \/ \E g \in Hosts : \E s \in todo[g] : Ready(g, s) /\ ~Taken(s) /\ plat' = After(s)
            \/ \E a \in Strays : plat' = [plat EXCEPT !.attrs = @ \cup {a}, !.other = @ \cup {a}]
<1>0. todo = [h \in Hosts |-> todo[h]]
  BY DEF Inv, Typed
<1>1. ASSUME NEW h \in Hosts, Run(h) \/ Befalls(h)
      PROVE  /\ \E steps : /\ todo' = [todo EXCEPT ![h] = steps]
                            /\ steps \subseteq todo[h] \cup Diff(h, replica)
             /\ replica' = replica
             /\ \/ plat' = plat
                \/ \E s \in todo[h] : Ready(h, s) /\ ~Taken(s) /\ plat' = After(s)
  <2>1. CASE Begin(h) \/ Planned(h) \/ Reread(h)
    BY <2>1, <1>0 DEF Begin, Planned, Reread, NotYetDone
  <2>2. CASE Execute(h) \/ Redo(h)
    BY <2>2, <1>0 DEF Execute, Redo, Applied
  <2>3. CASE ExecuteTaken(h) \/ RereadInVain(h) \/ Verified(h)
    BY <2>3, <1>0 DEF ExecuteTaken, RereadInVain, Verified
  <2>4. CASE Befalls(h)
    BY <2>4, <1>0 DEF Befalls, Unanswered, Refused, ReadFails, Rerun
  <2> QED
    BY <1>1, <2>1, <2>2, <2>3, <2>4 DEF Run
<1>2. ASSUME NEW h \in Hosts, Run(h) \/ Befalls(h), NEW g \in Hosts
      PROVE  todo'[g] \subseteq todo[g] \cup Diff(g, replica)
  BY <1>0, <1>1, <1>2
<1>3. CASE \E h \in Hosts : Run(h) \/ Befalls(h)
  BY <1>1, <1>2, <1>3
<1>4. CASE \E a \in Strays : UserCreates(a)
  BY <1>4 DEF UserCreates, hostVars
<1>5. CASE CatchUp
  BY <1>5 DEF CatchUp, hostVars
<1> QED
  BY <1>3, <1>4, <1>5 DEF Next

(* A call takes no binding away, and adds only what its host wants. *)
LEMMA AfterBinds ==
  ASSUME Inv, BindInv, NEW h \in Hosts, NEW s \in todo[h], Ready(h, s), ~Taken(s)
  PROVE  /\ plat.binds \subseteq After(s).binds /\ After(s).other = plat.other
         /\ \A b \in After(s).binds \ plat.binds : HomeBind(b)
<1>1. Wanted(plat, h, s)
  BY DEF Inv, PlanInv, RunOK
<1>2. plat \in Projects /\ plat.binds \subseteq Nat \X Nat
  BY DEF Inv, Typed, WellFormed, Projects
<1>3. CASE s.type \in {"template", "option"}
  BY <1>2, <1>3 DEF After, Projects
<1>4. CASE s.type = "attribute"
  <2>1. After(s).binds = plat.binds \cup {<<s.attr, s.tmpl>>} /\ After(s).other = plat.other
    BY <1>2, <1>4 DEF After, Projects
  <2> QED
    BY <2>1, <1>1, <1>4 DEF Wanted, HomeBind
<1>5. CASE s.type = "bind"
  <2>1. /\ After(s).binds = {b \in plat.binds : b[1] # s.attr} \cup ({s.attr} \X (s.ids \cup {s.tmpl}))
        /\ After(s).other = plat.other
    BY <1>2, <1>5 DEF After, Projects
  <2>2. BindOK(s)
    BY <1>5 DEF BindInv
  <2>3. plat.binds \subseteq After(s).binds
    <3> SUFFICES ASSUME NEW b \in plat.binds, b[1] = s.attr PROVE b \in After(s).binds
      BY <2>1
    <3>1. b = <<s.attr, b[2]>> /\ b[2] \in s.ids \cup {s.tmpl}
      BY <2>2, <1>2 DEF BindOK
    <3> QED
      BY <3>1, <2>1
  <2>4. ASSUME NEW b \in After(s).binds \ plat.binds PROVE HomeBind(b)
    <3>1. b[1] = s.attr /\ b[2] = s.tmpl
      BY <2>1, <2>2, <2>4 DEF BindOK
    <3> QED
      BY <3>1, <1>1, <1>5 DEF Wanted, HomeBind
  <2> QED
    BY <2>1, <2>3, <2>4
<1> QED
  BY <1>1, <1>3, <1>4, <1>5 DEF Wanted

(* What any step does to the bindings, and to the kinds of attributes.     *)
LEMMA BindsGrow ==
  ASSUME Inv, BindInv, Next
  PROVE  /\ plat.binds \subseteq plat'.binds /\ plat.other \subseteq plat'.other
         /\ \A b \in plat'.binds \ plat.binds : HomeBind(b)
<1>1. plat \in Projects
  BY DEF Inv, Typed, WellFormed
<1>2. CASE plat' = plat
  BY <1>2
<1>3. CASE \E g \in Hosts : \E s \in todo[g] : Ready(g, s) /\ ~Taken(s) /\ plat' = After(s)
  BY <1>3, AfterBinds
<1>4. CASE \E a \in Strays : plat' = [plat EXCEPT !.attrs = @ \cup {a}, !.other = @ \cup {a}]
  BY <1>1, <1>4 DEF Projects
<1> QED
  BY <1>2, <1>3, <1>4, Sources

LEMMA BindInit == Init => BindInv
  BY DEF Init, BindInv, BindsShown

LEMMA BindStep ==
  ASSUME Agreed, Inv, BindInv, [Next]_vars
  PROVE  BindInv'
<1>1. CASE UNCHANGED vars
  BY <1>1 DEF vars, hostVars, BindInv, BindsShown, BindOK
<1>2. CASE Next
  <2>1. /\ plat.binds \subseteq plat'.binds
        /\ \A b \in plat'.binds \ plat.binds : HomeBind(b)
    BY <1>2, BindsGrow
  <2>2. replica' \in {replica, plat}
    BY <1>2, Sources
  <2>3. BindsShown'
    BY <2>1, <2>2 DEF BindInv, BindsShown, HomeBind
  <2>4. ASSUME NEW h \in Hosts, NEW s \in todo'[h], s.type = "bind"
        PROVE  BindOK(s)'
    <3>1. s \in todo[h] \/ s \in Diff(h, replica)
      BY <1>2, <2>4, Sources
    <3>2. Wanted(plat, h, s)
      BY <3>1, DiffWanted DEF Inv, PlanInv, RunOK
    <3>3. s.attr \in WantedAttrs(h) /\ s.tmpl = Wants[h].home[s.attr]
      BY <3>2, <2>4 DEF Wanted
    <3>4. \A b : HomeBind(b) /\ b[1] = s.attr => b[2] = s.tmpl
      BY <3>3 DEF Agreed, HomeBind
    <3>5. BindOK(s)
      <4>1. CASE s \in todo[h]
        BY <4>1, <2>4 DEF BindInv
      <4>2. CASE s \in Diff(h, replica)
        <5>1. s.attr \in replica.attrs /\ s.ids = BoundTo(replica, s.attr)
          BY <4>2, <2>4 DEF Diff, Step
        <5>2. replica.binds \subseteq replica.attrs \X replica.templates
          BY DEF Inv, Typed, WellFormed
        <5>3. \A t : t \in s.ids <=> <<s.attr, t>> \in replica.binds
          BY <5>1, <5>2 DEF BoundTo
        <5>4. BindsShown
          BY DEF BindInv
        <5>5. {s.attr} \X s.ids \subseteq plat.binds
          BY <5>3, <5>4 DEF BindsShown
        <5>6. ASSUME NEW b \in plat.binds, b[1] = s.attr
              PROVE  b[2] \in s.ids \cup {s.tmpl}
          <6>1. b = <<b[1], b[2]>>
            BY DEF Inv, Typed, WellFormed
          <6> QED
            BY <6>1, <5>1, <5>3, <5>4, <5>6, <3>4 DEF BindsShown
        <5> QED
          BY <5>5, <5>6 DEF BindOK
      <4> QED
        BY <3>1, <4>1, <4>2
    <3>6. \A b \in plat'.binds : b[1] = s.attr => b[2] \in s.ids \cup {s.tmpl}
      BY <3>4, <3>5, <2>1 DEF BindOK
    <3> QED
      BY <3>5, <3>6, <2>1 DEF BindOK
  <2> QED
    BY <2>3, <2>4 DEF BindInv
<1> QED
  BY <1>1, <1>2

(* FR-013, additive only: hosts that agree where each attribute belongs    *)
(* lose no template, attribute, option or binding, however far their reads *)
(* lag behind each other's calls.                                          *)
THEOREM AdditiveOnly ==
  ASSUME Agreed
  PROVE  Spec => NothingTakenAway
<1> DEFINE Both == Inv /\ BindInv
<1>1. Init => Both
  BY InvInit, BindInit
<1>2. Both /\ [Next]_vars => Both'
  BY InvStep, BindStep
<1>3. Both /\ [Next]_vars => [\A f \in DOMAIN plat : plat[f] \subseteq plat'[f]]_vars
  <2> SUFFICES ASSUME Inv, BindInv, Next, NEW f \in DOMAIN plat PROVE plat[f] \subseteq plat'[f]
    OBVIOUS
  <2>1. plat \in Projects
    BY DEF Inv, Typed, WellFormed
  <2>2. /\ plat.templates \subseteq plat'.templates /\ plat.attrs \subseteq plat'.attrs
        /\ plat.options \subseteq plat'.options
    <3>1. CASE \E g \in Hosts : \E s \in todo[g] : Ready(g, s) /\ ~Taken(s) /\ plat' = After(s)
      BY <3>1, AfterGrows DEF Grown
    <3>2. CASE \E a \in Strays : plat' = [plat EXCEPT !.attrs = @ \cup {a}, !.other = @ \cup {a}]
      BY <3>2, <2>1 DEF Projects
    <3> QED
      BY <3>1, <3>2, Sources
  <2>3. plat.binds \subseteq plat'.binds /\ plat.other \subseteq plat'.other
    BY BindsGrow
  <2>4. f \in {"templates", "attrs", "other", "options", "binds"}
    BY <2>1 DEF Projects
  <2> QED
    BY <2>2, <2>3, <2>4
<1> QED
  BY <1>1, <1>2, <1>3, PTL DEF Spec, NothingTakenAway

=============================================================================
