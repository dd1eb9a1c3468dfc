------------------------------- MODULE Calls -------------------------------
(***************************************************************************)
(* Calls of the API client (src/internal/omni): each is one request that   *)
(* the transport sends until it is answered, refused, out of attempts or   *)
(* no longer wanted, and whose answer becomes what the caller branches on. *)
(* Requests and answers are lost and late on the way, gateways answer in   *)
(* the platform's stead, and several clients call at once.                 *)
(***************************************************************************)
EXTENDS Platform

CONSTANTS
  Clients,
  Programs,   \* choices of Clients -> [cred, left]: its credential, its requests in order
  Seeded,     \* the project at the start
  Retries,    \* attempts after the first
  MaxLate,    \* bound of the model: requests on the way that their senders gave up
  MaxFaults   \* bound of the model: overloads, upserts given up, records deleted by users

ASSUME CallsAssumption == {Retries, MaxLate, MaxFaults} \subseteq Nat

VARIABLES
  platform,  \* the project
  stopped,   \* the context of all calls is done
  program,   \* Clients -> credential, and requests still to make
  call,      \* Clients -> the call at work, or None
  result,    \* Clients -> what the latest call came to, or None
  late,      \* requests on the way that their senders have given up
  docs,      \* history: the schemas the project had, and the reads before each
  effects,   \* history: which call changed the project
  faults     \* those of the bounded things that happened so far

clientVars == <<program, call, result>>
projectVars == <<platform, late, docs, effects>>
vars == <<stopped, clientVars, projectVars, faults>>

-----------------------------------------------------------------------------
(* The request each method of the client makes.                            *)

ReadSchemaCall == [op |-> "ReadSchema"]
MyPermissionsCall == [op |-> "MyPermissions"]
CreateTemplateCall(slug) == [op |-> "CreateTemplate", slug |-> slug]

(* A reference says what it leads to and which attribute it shows. *)
CreateAttributeCall(slug, kind, tmpls, ref) ==
  [op |-> "CreateAttribute", slug |-> slug, kind |-> kind, tmpls |-> tmpls, target |-> ref[1], display |-> ref[2]]

AddListOptionCall(attr, value) == [op |-> "AddListOption", attr |-> attr, value |-> value]
BindAttributeCall(attr, tmpls) == [op |-> "BindAttribute", attr |-> attr, tmpls |-> tmpls]
FindEntitiesCall(t, attr, value) == [op |-> "FindEntities", tmpl |-> t, attr |-> attr, value |-> value]
EntityByKeyCall(t, key) == [op |-> "EntityByKey", tmpl |-> t, key |-> key]
UpsertByKeyCall(t, key, values) == [op |-> "UpsertByKey", tmpl |-> t, key |-> key, values |-> values]
CreateEntityCall(t, values) == [op |-> "CreateEntity", tmpl |-> t, values |-> values]
EntityValuesCall(i) == [op |-> "EntityValues", id |-> i]

(* One update sets the key, another the values. *)
SetEntityKeyCall(i, key) == [op |-> "SetEntityKey", id |-> i, key |-> key, values |-> <<>>]
UpdateEntityCall(i, values) == [op |-> "UpdateEntity", id |-> i, key |-> NoKey, values |-> values]
IngestMetricsCall(i, attrs) == [op |-> "IngestMetrics", id |-> i, attrs |-> attrs]

(* Callers give a key wherever one is looked up, and adopt records they    *)
(* found without one (identity/resolve.go:105-140): never one that an      *)
(* upsert of this run has created.                                         *)
Asks(r) ==
  /\ r.op \in Operations
  /\ r.op = "UpsertByKey" => r.key # NoKey
  /\ r.op = "SetEntityKey" => r.id \in DOMAIN Seeded.records /\ DOMAIN r.values = {}
  /\ r.op = "UpdateEntity" => r.key = NoKey

(* Reads show all of the project at the start (omnitest/server.go:64-72).  *)
ASSUME SeededAssumption ==
  IsProject(Seeded) /\ KeysHeldOnce(Seeded) /\ Seeded.reads \in Nat /\ Seeded.pending = <<>>

ASSUME ProgramsAssumption ==
  \A p \in Programs :
    /\ p = [c \in Clients |-> [cred |-> p[c].cred, left |-> p[c].left]]
    /\ \A c \in Clients :
         /\ IsList(p[c].left)
         /\ \A k \in DOMAIN p[c].left : Asks(p[c].left[k])

-----------------------------------------------------------------------------
(* What a caller is told.                                                  *)

Retryable(a) == a.status \in {429, 500, 502, 503, 504}

(* "This slug or value is taken". *)
AlreadyExists(a) ==
  \/ a.status = 409 /\ a.code # "no_project_selected"
  \/ a.status = 422 /\ \E f \in a.fields : f[2] = "taken"

(* The sentinels an answer matches. *)
Is(a) ==
  {s \in {"unauthorized", "forbidden", "no project", "not found", "validation", "exists", "key taken"} :
     CASE s = "unauthorized" -> a.status = 401
       [] s = "forbidden"    -> a.status = 403
       [] s = "no project"   -> a.status = 409 /\ a.code = "no_project_selected"
       [] s = "not found"    -> a.status = 404
       [] s = "validation"   -> a.status = 422
       [] s = "exists"       -> AlreadyExists(a)
       [] s = "key taken"    -> a.status = 409 /\ a.code # "no_project_selected"}

Told(kind, status, is, body) == [kind |-> kind, status |-> status, is |-> is, body |-> body]

(* A record without values is more than the SDK decodes. *)
Decoded(r, a) == r.op = "EntityValues" => DOMAIN a.body # {}

(* No record with the key is an answer to the question, not an error. *)
Outcome(r, a) ==
  IF a.status \in 200 .. 299 /\ Decoded(r, a) THEN Told("ok", a.status, {}, a.body)
  ELSE IF r.op = "EntityByKey" /\ a.status = 404 THEN Told("ok", 404, {}, None)
  ELSE Told("api", a.status, Is(a), None)

Failure == Told("error", 0, {}, None)

-----------------------------------------------------------------------------
(* A request at the platform, and what comes of it there.                  *)

Id(c) == [by |-> c, n |-> call[c].n]

Sent(c) == [id |-> Id(c), req |-> call[c].req, attempt |-> call[c].attempt]

Content(p) == <<SchemaDoc(p), p.records>>

Effect(s, h) ==
  [id |-> s.id, op |-> s.req.op, attempt |-> s.attempt,
   new |-> h.answer.status = 201, thing |-> h.answer.body]

(* h is what the platform makes of request s. *)
Processes(s, h) ==
  /\ platform' = h.project
  /\ effects' = IF Content(h.project) = Content(platform) THEN effects ELSE effects \cup {Effect(s, h)}
  /\ docs' = IF SchemaDoc(h.project) = SchemaDoc(platform) THEN docs
             ELSE Append(docs, [doc |-> SchemaDoc(h.project), after |-> platform.reads])

Handled(s, race) == Handle(platform, program[s.id.by].cred, s.req, race)

Arrives(c) ==
  /\ call[c] # None /\ call[c].pc = "sent"
  /\ \E race \in {FALSE} \cup {call[c].req.op = "UpsertByKey" /\ faults < MaxFaults} :
       LET h == Handled(Sent(c), race) IN
       /\ Processes(Sent(c), h)
       /\ call' = [call EXCEPT ![c].pc = "answered", ![c].answer = h.answer]
       /\ faults' = IF race THEN faults + 1 ELSE faults
  /\ UNCHANGED <<stopped, program, result, late>>

(* A request its sender has given up still arrives. *)
ArrivesLate(s) ==
  /\ Processes(s, Handled(s, FALSE)) /\ late' = late \ {s}
  /\ UNCHANGED <<stopped, clientVars, faults>>

(* An overloaded platform, or a gateway, answers without processing it. *)
Overloaded(c) ==
  /\ call[c] # None /\ call[c].pc = "sent"
  /\ faults < MaxFaults /\ faults' = faults + 1
  /\ call' = [call EXCEPT ![c].pc = "answered",
       ![c].answer = [status |-> 503, code |-> "none", fields |-> {}, body |-> None]]
  /\ UNCHANGED <<stopped, program, result, projectVars>>

-----------------------------------------------------------------------------
(* The client.                                                             *)

Begins(c) ==
  /\ call[c] = None /\ program[c].left # <<>>
  /\ call' = [call EXCEPT ![c] =
       [n |-> Len(program[c].left), req |-> Head(program[c].left), attempt |-> 0, pc |-> "sent",
        answer |-> None, unsure |-> FALSE]]
  /\ program' = [program EXCEPT ![c].left = Tail(@)]
  /\ UNCHANGED <<stopped, result, projectVars, faults>>

Returns(c, told, unsure) ==
  /\ result' = [result EXCEPT ![c] = [id |-> Id(c), req |-> call[c].req, told |-> told, unsure |-> unsure]]
  /\ call' = [call EXCEPT ![c] = None]

(* The attempt failed, or its answer asks for patience: another one, after *)
(* a pause, while there are attempts left.                                 *)
RetriesOr(c, told, unsure) ==
  IF call[c].attempt < Retries
  THEN call' = [call EXCEPT ![c].pc = "waiting", ![c].unsure = unsure] /\ UNCHANGED result
  ELSE Returns(c, told, unsure)

(* What is on the way when a client gives an attempt up. *)
GivenUp(c) ==
  IF call[c].pc = "sent" /\ Cardinality(late) < MaxLate THEN late \cup {Sent(c)} ELSE late

(* The connection breaks or the attempt's deadline passes, before or after *)
(* the platform has processed the request.                                 *)
Fails(c) ==
  /\ call[c] # None /\ call[c].pc \in {"sent", "answered"} /\ ~stopped
  /\ RetriesOr(c, Failure, TRUE) /\ late' = GivenUp(c)
  /\ UNCHANGED <<stopped, program, platform, docs, effects, faults>>

(* The context is done: no attempt follows. *)
Cancelled(c) ==
  /\ call[c] # None /\ stopped
  /\ Returns(c, Failure, call[c].pc # "waiting" \/ call[c].unsure) /\ late' = GivenUp(c)
  /\ UNCHANGED <<stopped, program, platform, docs, effects, faults>>

ToldToWait(c) ==
  /\ call[c] # None /\ call[c].pc = "answered" /\ Retryable(call[c].answer)
  /\ RetriesOr(c, Outcome(call[c].req, call[c].answer), call[c].unsure)
  /\ UNCHANGED <<stopped, program, projectVars, faults>>

(* Mutant: the attempts are counted from the start again. *)
WakesAfresh(c) ==
  /\ call[c] # None /\ call[c].pc = "waiting" /\ ~stopped
  /\ call' = [call EXCEPT ![c].pc = "sent", ![c].attempt = 0, ![c].answer = None]
  /\ UNCHANGED <<stopped, program, result, projectVars, faults>>

Wakes(c) ==
  /\ call[c] # None /\ call[c].pc = "waiting" /\ ~stopped
  /\ call' = [call EXCEPT ![c].pc = "sent", ![c].attempt = @ + 1, ![c].answer = None]
  /\ UNCHANGED <<stopped, program, result, projectVars, faults>>

(* Any other answer ends the call. *)
Answered(c) ==
  /\ call[c] # None /\ call[c].pc = "answered" /\ ~Retryable(call[c].answer)
  /\ Returns(c, Outcome(call[c].req, call[c].answer), call[c].unsure)
  /\ UNCHANGED <<stopped, program, projectVars, faults>>

(* Its body cannot be read: the caller learns no more, and nobody retries. *)
BodyLost(c) ==
  /\ call[c] # None /\ call[c].pc = "answered" /\ ~Retryable(call[c].answer)
  /\ Returns(c, Failure, TRUE)
  /\ UNCHANGED <<stopped, program, projectVars, faults>>

-----------------------------------------------------------------------------
(* Around them.                                                            *)

Stops ==
  /\ ~stopped /\ stopped' = TRUE
  /\ UNCHANGED <<clientVars, projectVars, faults>>

UserDeletes(i) ==
  /\ faults < MaxFaults /\ faults' = faults + 1
  /\ i \in Live(platform) /\ platform' = DeleteEntity(platform, i)
  /\ UNCHANGED <<stopped, clientVars, late, docs, effects>>

-----------------------------------------------------------------------------
Init ==
  /\ platform = Seeded /\ stopped = FALSE
  /\ program \in Programs
  /\ call = [c \in Clients |-> None] /\ result = [c \in Clients |-> None]
  /\ late = {} /\ effects = {} /\ faults = 0
  /\ docs = <<[doc |-> SchemaDoc(Seeded), after |-> 0]>>

(* What a call in progress comes to next; its deadlines see to it. *)
Proceeds(c) ==
  \/ Arrives(c) \/ Overloaded(c) \/ Fails(c) \/ Cancelled(c)
  \/ ToldToWait(c) \/ Wakes(c) \/ Answered(c) \/ BodyLost(c)

Next ==
  \/ \E c \in Clients : Begins(c) \/ Proceeds(c)
  \/ \E s \in late : ArrivesLate(s)
  \/ Stops
  \/ \E i \in DOMAIN platform.records : UserDeletes(i)

Spec == Init /\ [][Next]_vars

(* Every attempt has a deadline and every pause a timer. *)
Fairness == \A c \in Clients : WF_vars(Proceeds(c))

FairSpec == Spec /\ Fairness

-----------------------------------------------------------------------------
(* Properties.                                                             *)

EffectsOf(id) == {e \in effects : e.id = id}

(* The schema that discovery number n shows: of writes a fixed number of   *)
(* reads ago, and none later (omnitest/server.go:64-72).                   *)
Shown(n) ==
  LET seen == {j \in DOMAIN docs : j = 1 \/ docs[j].after + SchemaLag < n}
  IN  docs[Max(seen)].doc

Creates == {"CreateTemplate", "CreateAttribute", "AddListOption", "CreateEntity"}

(* The slug or value a create names is there. *)
There(r) ==
  CASE r.op = "CreateTemplate"  -> r.slug \in platform.templates
    [] r.op = "CreateAttribute" -> r.slug \in DOMAIN platform.attrs
    [] r.op = "AddListOption"   -> r.value \in platform.attrs[r.attr].options

(* What a caller may conclude from what it is told: "ok" is of something   *)
(* this call did; a refusal leaves nothing behind unless an attempt went   *)
(* unanswered; and "already exists" is true.                               *)
Honest(r) ==
  LET did == EffectsOf(r.id) IN
  /\ r.told.kind = "ok" /\ r.req.op \in Creates \cup {"IngestMetrics"} => did # {}
  /\ r.told.kind = "api" /\ r.told.status < 500 /\ ~r.unsure => did = {}
  /\ "exists" \in r.told.is /\ r.req.op \in Creates => There(r.req)

(* identity/resolve.go, schema/apply.go and publish.go branch on what the  *)
(* client tells them: it holds whatever was lost, late or answered by a    *)
(* gateway, and discovery never shows more, less or older than its lag.    *)
AnswersTrue ==
  [][\A c \in Clients :
       /\ result'[c] # result[c] => Honest(result'[c])
       /\ call[c] # None /\ call'[c] # None /\ call[c].req.op = "ReadSchema"
          /\ call'[c].answer # None /\ call[c].answer = None /\ call'[c].answer.status = 200
          => call'[c].answer.body = Shown(platform'.reads)]_vars

(* transport.go:63-109 repeats every request whose attempt fails, writes   *)
(* too: however repeats straggle and cross, a call brings at most one      *)
(* thing into being that is not deleted meanwhile, a key has one holder,   *)
(* and what can be done twice is not unless an attempt went unanswered.    *)
RetriesHarmless ==
  /\ \A e, f \in effects :
       e.new /\ f.new /\ e.id = f.id /\ e.op # "CreateEntity" =>
         e = f \/ (e.op = "UpsertByKey" /\ ~({e.thing, f.thing} \subseteq Live(platform)))
  /\ KeysHeldOnce(platform)
  /\ \A c \in Clients : call[c] # None /\ ~call[c].unsure => Cardinality(EffectsOf(Id(c))) <= 1
  /\ \A c \in Clients : result[c] # None /\ ~result[c].unsure => Cardinality(EffectsOf(result[c].id)) <= 1

(* NFR-003: attempts are bounded and so is each: every call ends, whatever *)
(* the platform and the gateways do.                                       *)
CallsEnd == \A c \in Clients : call[c] # None ~> call[c] = None
=============================================================================
