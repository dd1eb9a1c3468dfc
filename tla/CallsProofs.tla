----------------------------- MODULE CallsProofs -----------------------------
(***************************************************************************)
(* What repeated and late requests may do, for any clients and programs,   *)
(* any number of retries and requests on the way, proved with TLAPS.       *)
(***************************************************************************)
EXTENDS Calls, SequenceTheorems, FiniteSetTheorems, TLAPS

-----------------------------------------------------------------------------
(* The platform.                                                           *)

Shaped(p) ==
  p = [templates |-> p.templates, attrs |-> p.attrs, binds |-> p.binds, records |-> p.records,
       reads |-> p.reads, searches |-> p.searches, pending |-> p.pending]

(* A project in which records only joined those of the start. *)
Proper(p) == IsProject(p) /\ KeysHeldOnce(p) /\ Len(Seeded.records) <= Len(p.records)

(* What no step undoes: schema and records stay, a deleted record stays    *)
(* deleted, and the key of a record made meanwhile is its key for ever.    *)
Grown(p, q) ==
  /\ p.templates \subseteq q.templates
  /\ DOMAIN p.attrs \subseteq DOMAIN q.attrs
  /\ \A a \in DOMAIN p.attrs : p.attrs[a].options \subseteq q.attrs[a].options
  /\ DOMAIN p.records \subseteq DOMAIN q.records
  /\ \A i \in DOMAIN p.records :
       /\ q.records[i].live => p.records[i].live
       /\ i \notin DOMAIN Seeded.records =>
            q.records[i].tmpl = p.records[i].tmpl /\ q.records[i].key = p.records[i].key

(* The thing that request r made makes another impossible, or, for an      *)
(* upsert, pointless while it lives.                                       *)
Bars(p, r, thing) ==
  /\ r.op = "CreateTemplate"  => r.slug \in p.templates
  /\ r.op = "CreateAttribute" => r.slug \in DOMAIN p.attrs
  /\ r.op = "AddListOption"   => r.attr \in DOMAIN p.attrs /\ r.value \in p.attrs[r.attr].options
  /\ r.op = "UpsertByKey" =>
       /\ thing \in DOMAIN p.records \ DOMAIN Seeded.records
       /\ p.records[thing].live => p.records[thing].tmpl = r.tmpl /\ p.records[thing].key = r.key

Making == {"CreateTemplate", "CreateAttribute", "AddListOption", "UpsertByKey", "CreateEntity"}

(* Nothing bars what is made. *)
Makes(p, r, h) ==
  /\ r.op \in Making /\ Bars(h.project, r, h.answer.body)
  /\ \A thing : Bars(p, r, thing) =>
       r.op = "CreateEntity" \/ (r.op = "UpsertByKey" /\ ~p.records[thing].live)

(* A refusal leaves everything as it was, a success of a create or of an   *)
(* ingest does not, and what is said to exist does.                        *)
Truthful(p, r, h) ==
  /\ h.answer.status \notin 200 .. 299 \/ r.op \in Reads => Content(h.project) = Content(p)
  /\ h.answer.status \in 200 .. 299 /\ r.op \in Creates \cup {"IngestMetrics"} =>
       Content(h.project) # Content(p)
  /\ AlreadyExists(h.answer) /\ r.op \in Creates => r.op # "CreateEntity" /\ Bars(h.project, r, h.answer.body)

(* What the platform makes of a request. *)
Sound(p, r, h) ==
  /\ Proper(h.project) /\ Grown(p, h.project) /\ Truthful(p, r, h)
  /\ h.answer = [status |-> h.answer.status, code |-> h.answer.code, fields |-> h.answer.fields,
                 body |-> h.answer.body]
  /\ ~Retryable(h.answer)
  /\ h.answer.status = 201 => Makes(p, r, h)

LEMMA RecordsAre ==
  ASSUME NEW p, IsProject(p)
  PROVE  /\ Len(p.records) \in Nat
         /\ DOMAIN p.records = 1 .. Len(p.records)
BY LenProperties DEF IsProject, IsList

LEMMA Fields == ASSUME NEW p, IsProject(p) PROVE Shaped(p)
BY DEF IsProject, Shaped

LEMMA OtherRecords ==
  ASSUME NEW p, Shaped(p), NEW records
  PROVE  [p EXCEPT !.records = records] =
         [templates |-> p.templates, attrs |-> p.attrs, binds |-> p.binds, records |-> records,
          reads |-> p.reads, searches |-> p.searches, pending |-> p.pending]
BY DEF Shaped

LEMMA OtherTemplates ==
  ASSUME NEW p, Shaped(p), NEW templates
  PROVE  [p EXCEPT !.templates = templates] =
         [templates |-> templates, attrs |-> p.attrs, binds |-> p.binds, records |-> p.records,
          reads |-> p.reads, searches |-> p.searches, pending |-> p.pending]
BY DEF Shaped

LEMMA OtherAttrs ==
  ASSUME NEW p, Shaped(p), NEW attrs
  PROVE  [p EXCEPT !.attrs = attrs] =
         [templates |-> p.templates, attrs |-> attrs, binds |-> p.binds, records |-> p.records,
          reads |-> p.reads, searches |-> p.searches, pending |-> p.pending]
BY DEF Shaped

LEMMA OtherBinds ==
  ASSUME NEW p, Shaped(p), NEW binds
  PROVE  [p EXCEPT !.binds = binds] =
         [templates |-> p.templates, attrs |-> p.attrs, binds |-> binds, records |-> p.records,
          reads |-> p.reads, searches |-> p.searches, pending |-> p.pending]
BY DEF Shaped

LEMMA OtherPending ==
  ASSUME NEW p, Shaped(p), NEW pending
  PROVE  [p EXCEPT !.pending = pending] =
         [templates |-> p.templates, attrs |-> p.attrs, binds |-> p.binds, records |-> p.records,
          reads |-> p.reads, searches |-> p.searches, pending |-> pending]
BY DEF Shaped

LEMMA OtherSearches ==
  ASSUME NEW p, Shaped(p), NEW searches
  PROVE  [p EXCEPT !.searches = searches] =
         [templates |-> p.templates, attrs |-> p.attrs, binds |-> p.binds, records |-> p.records,
          reads |-> p.reads, searches |-> searches, pending |-> p.pending]
BY DEF Shaped

LEMMA OtherReads ==
  ASSUME NEW p, Shaped(p), NEW reads
  PROVE  [p EXCEPT !.reads = reads] =
         [templates |-> p.templates, attrs |-> p.attrs, binds |-> p.binds, records |-> p.records,
          reads |-> reads, searches |-> p.searches, pending |-> p.pending]
BY DEF Shaped

LEMMA OtherSchema ==
  ASSUME NEW p, Shaped(p), NEW attrs, NEW binds
  PROVE  [p EXCEPT !.attrs = attrs, !.binds = binds] =
         [templates |-> p.templates, attrs |-> attrs, binds |-> binds, records |-> p.records,
          reads |-> p.reads, searches |-> p.searches, pending |-> p.pending]
<1> DEFINE q == [p EXCEPT !.attrs = attrs]
<1>1. [p EXCEPT !.attrs = attrs, !.binds = binds] = [q EXCEPT !.binds = binds]
  BY DEF Shaped
<1>2. q =
         [templates |-> p.templates, attrs |-> attrs, binds |-> p.binds, records |-> p.records,
          reads |-> p.reads, searches |-> p.searches, pending |-> p.pending]
  BY OtherAttrs
<1> HIDE DEF q
<1>3. /\ Shaped(q) /\ q.templates = p.templates /\ q.attrs = attrs /\ q.binds = p.binds /\ q.records = p.records
      /\ q.reads = p.reads /\ q.searches = p.searches /\ q.pending = p.pending
  BY <1>2 DEF Shaped
<1> QED
  BY <1>1, <1>3, OtherBinds

LEMMA OtherReadings ==
  ASSUME NEW p, Shaped(p), NEW reads, NEW pending
  PROVE  [p EXCEPT !.reads = reads, !.pending = pending] =
         [templates |-> p.templates, attrs |-> p.attrs, binds |-> p.binds, records |-> p.records,
          reads |-> reads, searches |-> p.searches, pending |-> pending]
<1> DEFINE q == [p EXCEPT !.reads = reads]
<1>1. [p EXCEPT !.reads = reads, !.pending = pending] = [q EXCEPT !.pending = pending]
  BY DEF Shaped
<1>2. q =
         [templates |-> p.templates, attrs |-> p.attrs, binds |-> p.binds, records |-> p.records,
          reads |-> reads, searches |-> p.searches, pending |-> p.pending]
  BY OtherReads
<1> HIDE DEF q
<1>3. /\ Shaped(q) /\ q.templates = p.templates /\ q.attrs = p.attrs /\ q.binds = p.binds /\ q.records = p.records
      /\ q.reads = reads /\ q.searches = p.searches /\ q.pending = p.pending
  BY <1>2 DEF Shaped
<1> QED
  BY <1>1, <1>3, OtherPending

LEMMA Listed == ASSUME NEW S, NEW s \in Seq(S) PROVE IsList(s)
<1>1. Len(s) \in Nat /\ DOMAIN s = 1 .. Len(s) /\ s \in [1 .. Len(s) -> S]
  BY LenProperties
<1>2. s \in [1 .. Len(s) -> {s[k] : k \in DOMAIN s}]
  BY <1>1
<1> QED
  BY <1>1, <1>2, SeqDef DEF IsList

LEMMA EmptyList == IsList(<<>>)
<1>1. <<>> \in Seq({})
  BY EmptySeq
<1> QED
  BY <1>1, Listed

(* A list and one that has more at its end. *)
LEMMA Longer ==
  ASSUME NEW s, IsList(s), NEW e
  PROVE  LET t == Append(s, e) n == Len(s) + 1 IN
         /\ IsList(t) /\ t # s /\ Len(s) \in Nat /\ DOMAIN s = 1 .. Len(s) /\ DOMAIN t = 1 .. n /\ Len(t) = n
         /\ t[n] = e /\ \A k \in DOMAIN s : t[k] = s[k]
<1> DEFINE S == {s[k] : k \in DOMAIN s} \cup {e}
           t == Append(s, e)
<1>1. s \in Seq(S) /\ e \in S
  BY SeqMonotonic DEF IsList
<1> HIDE DEF S
<1>2. /\ t \in Seq(S) /\ Len(t) = Len(s) + 1 /\ t[Len(s) + 1] = e
      /\ \A k \in 1 .. Len(s) : t[k] = s[k]
  BY <1>1, AppendProperties
<1>3. /\ Len(s) \in Nat /\ DOMAIN s = 1 .. Len(s)
      /\ Len(t) \in Nat /\ DOMAIN t = 1 .. Len(t)
  BY <1>1, <1>2, LenProperties
<1> HIDE DEF t
<1>4. t # s
  BY <1>2, <1>3
<1> QED
  BY <1>2, <1>3, <1>4, Listed DEF t

LEMMA GrownStays ==
  ASSUME NEW p, NEW q, NEW r, NEW thing, Grown(p, q), Bars(p, r, thing)
  PROVE  Bars(q, r, thing)
BY DEF Grown, Bars

LEMMA GrownSelf == ASSUME NEW p PROVE Grown(p, p)
BY DEF Grown

LEMMA GrownThrough == ASSUME NEW p, NEW q, NEW o, Grown(p, q), Grown(q, o) PROVE Grown(p, o)
<1>1. \A a \in DOMAIN p.attrs : p.attrs[a].options \subseteq o.attrs[a].options
  BY DEF Grown
<1>2. \A i \in DOMAIN p.records :
        /\ o.records[i].live => p.records[i].live
        /\ i \notin DOMAIN Seeded.records =>
             o.records[i].tmpl = p.records[i].tmpl /\ o.records[i].key = p.records[i].key
  BY DEF Grown
<1> QED
  BY <1>1, <1>2 DEF Grown

(* Any answer but 201, and nothing undone. *)
LEMMA Answers ==
  ASSUME NEW p, NEW q, NEW r, Proper(q), Grown(p, q), NEW fields, NEW body,
         NEW status \in {200, 202, 204, 401, 403, 404, 409, 422},
         status \in {401, 403, 404, 409, 422} \/ r.op \in Reads => Content(q) = Content(p),
         status \in {200, 202, 204} /\ r.op \in Creates \cup {"IngestMetrics"} => Content(q) # Content(p),
         status \in {409, 422} /\ r.op \in Creates =>
           \/ r.op # "CreateEntity" /\ Bars(q, r, body)
           \/ status = 422 /\ \A f \in fields : f[2] # "taken"
  PROVE  Sound(p, r, Answer(q, status, fields, body))
<1> DEFINE h == [project |-> q, answer |-> [status |-> status, code |-> "none", fields |-> fields, body |-> body]]
<1>1. Answer(q, status, fields, body) = h
  BY DEF Answer
<1>2. /\ h.project = q /\ h.answer.status = status /\ h.answer.fields = fields /\ h.answer.body = body
      /\ h.answer = [status |-> h.answer.status, code |-> h.answer.code, fields |-> h.answer.fields,
                     body |-> h.answer.body]
  OBVIOUS
<1> HIDE DEF h
<1>3. status # 201 /\ status \notin {429, 500, 502, 503, 504}
  OBVIOUS
<1>4. ~Retryable(h.answer)
  BY <1>2, <1>3 DEF Retryable
<1>5. Truthful(p, r, h)
  <2>1. status \in 200 .. 299 => status \in {200, 202, 204}
    OBVIOUS
  <2>2. status \notin 200 .. 299 => status \in {401, 403, 404, 409, 422}
    OBVIOUS
  <2>3. AlreadyExists(h.answer) => status = 409 \/ (status = 422 /\ \E f \in fields : f[2] = "taken")
    BY <1>2 DEF AlreadyExists
  <2> QED
    BY <1>2, <2>1, <2>2, <2>3 DEF Truthful
<1> QED
  BY <1>1, <1>2, <1>3, <1>4, <1>5 DEF Sound

LEMMA Refusals ==
  ASSUME NEW p, NEW q, NEW r, Proper(q), Grown(p, q), NEW what, NEW how, Content(q) = Content(p),
         how = "taken" /\ r.op \in Creates => r.op # "CreateEntity" /\ Bars(q, r, None)
  PROVE  Sound(p, r, Validation(q, what, how))
<1>1. how # "taken" => \A f \in {<<w, how>> : w \in what} : f[2] # "taken"
  OBVIOUS
<1> QED
  BY <1>1, Answers DEF Validation

LEMMA Problems ==
  ASSUME NEW p, NEW q, NEW r, Proper(q), Grown(p, q), NEW status \in {401, 403, 404, 409}, Content(q) = Content(p),
         status = 409 => r.op \notin Creates
  PROVE  Sound(p, r, Problem(q, status))
BY Answers DEF Problem

LEMMA Successes ==
  ASSUME NEW p, NEW q, NEW r, Proper(q), Grown(p, q), r.op \in Reads => Content(q) = Content(p),
         r.op \in Creates \cup {"IngestMetrics"} => Content(q) # Content(p)
  PROVE  \A body : \A status \in {200, 202, 204} : Sound(p, r, Success(q, status, body))
BY Answers DEF Success

LEMMA Creations ==
  ASSUME NEW p, NEW q, NEW r, Proper(q), Grown(p, q), NEW body, r.op \in Making, Bars(q, r, body),
         \A thing : Bars(p, r, thing) =>
           r.op = "CreateEntity" \/ (r.op = "UpsertByKey" /\ ~p.records[thing].live),
         r.op = "CreateEntity" => q.records # p.records
  PROVE  Sound(p, r, Success(q, 201, body))
<1> DEFINE h == [project |-> q, answer |-> [status |-> 201, code |-> "none", fields |-> {}, body |-> body]]
<1>1. Success(q, 201, body) = h
  BY DEF Success, Answer
<1>2. /\ h.project = q /\ h.answer.body = body /\ h.answer.status = 201
      /\ h.answer = [status |-> h.answer.status, code |-> h.answer.code, fields |-> h.answer.fields,
                     body |-> h.answer.body]
  OBVIOUS
<1> HIDE DEF h
<1>3. Makes(p, r, h)
  BY <1>2 DEF Makes
<1>4. ~Retryable(h.answer)
  BY <1>2 DEF Retryable
<1>5. r.op \in Creates => Content(q) # Content(p)
  <2>1. CASE r.op = "CreateEntity"
    BY <2>1 DEF Content
  <2>2. CASE r.op \in {"CreateTemplate", "CreateAttribute", "AddListOption"}
    <3>1. ~Bars(p, r, body)
      BY <2>2
    <3>2. ~(q.templates = p.templates /\ q.attrs = p.attrs)
      BY <2>2, <3>1 DEF Bars
    <3> QED
      BY <3>2 DEF Content, SchemaDoc
  <2> QED
    BY <2>1, <2>2 DEF Creates
<1>6. Truthful(p, r, h)
  <2>1. ~AlreadyExists(h.answer) /\ 201 \in 200 .. 299
    BY <1>2 DEF AlreadyExists
  <2>2. r.op \notin Reads /\ r.op # "IngestMetrics"
    BY DEF Making, Reads
  <2> QED
    BY <1>2, <1>5, <2>1, <2>2 DEF Truthful
<1> QED
  BY <1>1, <1>2, <1>3, <1>4, <1>6 DEF Sound

(* A request that leaves the records alone. *)
LEMMA SameRecords ==
  ASSUME NEW p, NEW q, Proper(p), q.records = p.records,
         Shaped(q),
         q.attrs = [a \in DOMAIN q.attrs |-> [kind |-> q.attrs[a].kind, options |-> q.attrs[a].options]],
         p.templates \subseteq q.templates, DOMAIN p.attrs \subseteq DOMAIN q.attrs,
         \A a \in DOMAIN p.attrs : p.attrs[a].options \subseteq q.attrs[a].options
  PROVE  Proper(q) /\ Grown(p, q)
<1>1. IsProject(q)
  BY DEF Proper, IsProject, Shaped
<1>2. KeysHeldOnce(q)
  BY DEF Proper, KeysHeldOnce, Live
<1>3. Grown(p, q)
  BY DEF Grown
<1> QED
  BY <1>1, <1>2, <1>3 DEF Proper

(* A request that changes one record and keeps who it is. *)
LEMMA EditedRecord ==
  ASSUME NEW p, NEW i \in DOMAIN p.records, NEW e, Proper(p),
         e = [tmpl |-> e.tmpl, key |-> e.key, values |-> e.values, metrics |-> e.metrics,
              hidden |-> e.hidden, live |-> e.live],
         IsList(e.metrics), e.live => p.records[i].live, e.tmpl = p.records[i].tmpl,
         \/ e.key = p.records[i].key
         \/ i \in DOMAIN Seeded.records /\ LiveByKey(p, e.tmpl, e.key) \ {i} = {}
  PROVE  Proper([p EXCEPT !.records[i] = e]) /\ Grown(p, [p EXCEPT !.records[i] = e])
<1> DEFINE q == [p EXCEPT !.records[i] = e]
<1>0. IsProject(p)
  BY DEF Proper
<1>1. q = [templates |-> p.templates, attrs |-> p.attrs, binds |-> p.binds,
           records |-> [p.records EXCEPT ![i] = e],
           reads |-> p.reads, searches |-> p.searches, pending |-> p.pending]
  BY <1>0, Fields, OtherRecords
<1>2. q.records = [p.records EXCEPT ![i] = e]
  BY <1>1
<1>3. /\ q.templates = p.templates /\ q.attrs = p.attrs /\ q.binds = p.binds
      /\ q.reads = p.reads /\ q.searches = p.searches /\ q.pending = p.pending
  BY <1>1
<1>4. /\ DOMAIN q.records = DOMAIN p.records
      /\ q.records[i] = e
      /\ \A j \in DOMAIN p.records : j # i => q.records[j] = p.records[j]
  <2>1. p.records = [j \in DOMAIN p.records |-> p.records[j]]
    BY <1>0, LenProperties DEF IsProject, IsList
  <2> QED
    BY <1>2, <2>1
<1> HIDE DEF q
<1>5. Len(q.records) = Len(p.records) /\ IsList(q.records)
  <2> DEFINE S == {p.records[j] : j \in DOMAIN p.records} \cup {e}
  <2>1. p.records \in Seq(S)
    BY <1>0, SeqMonotonic DEF IsProject, IsList
  <2>2. i \in 1 .. Len(p.records) /\ e \in S
    BY <1>0, RecordsAre
  <2>3. q.records \in Seq(S) /\ Len(q.records) = Len(p.records)
    BY <2>1, <2>2, <1>2, ExceptSeq
  <2> HIDE DEF S
  <2> QED
    BY <2>3, Listed
<1>6. \A j \in DOMAIN q.records :
        /\ IsList(q.records[j].metrics)
        /\ q.records[j] = [tmpl |-> q.records[j].tmpl, key |-> q.records[j].key, values |-> q.records[j].values,
                           metrics |-> q.records[j].metrics, hidden |-> q.records[j].hidden, live |-> q.records[j].live]
  BY <1>0, <1>4 DEF IsProject
<1>7. IsProject(q)
  BY <1>0, <1>1, <1>3, <1>2, <1>5, <1>6 DEF IsProject
<1>8. KeysHeldOnce(q)
  <2> SUFFICES ASSUME NEW j \in Live(q), NEW k \in Live(q), q.records[j].tmpl = q.records[k].tmpl,
                      q.records[j].key = q.records[k].key, q.records[j].key # NoKey, j # k
               PROVE  FALSE
    BY DEF KeysHeldOnce
  <2>1. Live(q) \subseteq Live(p)
    BY <1>4 DEF Live
  <2>2. CASE e.key = p.records[i].key
    BY <2>1, <2>2, <1>4 DEF Proper, KeysHeldOnce, Live
  <2>3. CASE LiveByKey(p, e.tmpl, e.key) \ {i} = {}
    <3>1. CASE j = i
      <4>1. k \in LiveByKey(p, e.tmpl, e.key)
        BY <3>1, <2>1, <1>4 DEF LiveByKey, Live
      <4> QED
        BY <4>1, <3>1, <2>3
    <3>2. CASE k = i
      <4>1. j \in LiveByKey(p, e.tmpl, e.key)
        BY <3>2, <2>1, <1>4 DEF LiveByKey, Live
      <4> QED
        BY <4>1, <3>2, <2>3
    <3>3. CASE j # i /\ k # i
      BY <3>3, <2>1, <1>4 DEF Proper, KeysHeldOnce, Live
    <3> QED
      BY <3>1, <3>2, <3>3
  <2> QED
    BY <2>2, <2>3
<1>9. Grown(p, q)
  BY <1>3, <1>4 DEF Grown
<1> QED
  BY <1>5, <1>7, <1>8, <1>9 DEF Proper, q

(* A new record, without a key or with one that nobody holds. *)
LEMMA AddedRecord ==
  ASSUME NEW p, NEW t, NEW key, NEW values, Proper(p), key # NoKey => LiveByKey(p, t, key) = {}
  PROVE  LET q == AddRecord(p, t, key, values) n == Len(p.records) + 1 IN
         /\ Proper(q) /\ Grown(p, q)
         /\ n \in DOMAIN q.records \ DOMAIN Seeded.records /\ n \notin DOMAIN p.records
         /\ q.records[n].tmpl = t /\ q.records[n].key = key
<1> DEFINE new == [tmpl |-> t, key |-> key, values |-> values, metrics |-> <<>>,
                   hidden |-> p.searches + SearchLag, live |-> TRUE]
           q == AddRecord(p, t, key, values)
           n == Len(p.records) + 1
<1>0. IsProject(p)
  BY DEF Proper
<1>1. q = [templates |-> p.templates, attrs |-> p.attrs, binds |-> p.binds, records |-> Append(p.records, new),
           reads |-> p.reads, searches |-> p.searches, pending |-> p.pending]
  <2>1. q = [p EXCEPT !.records = Append(p.records, new)]
    BY DEF AddRecord
  <2> HIDE DEF new, q
  <2> QED
    BY <2>1, <1>0, Fields, OtherRecords
<1>2. /\ q.templates = p.templates /\ q.attrs = p.attrs /\ q.binds = p.binds /\ q.records = Append(p.records, new)
      /\ q.reads = p.reads /\ q.searches = p.searches /\ q.pending = p.pending
  BY <1>1
<1> DEFINE S == {p.records[j] : j \in DOMAIN p.records} \cup {new}
<1>3. p.records \in Seq(S) /\ Len(p.records) \in Nat /\ DOMAIN p.records = 1 .. Len(p.records) /\ new \in S
  BY <1>0, SeqMonotonic, RecordsAre DEF IsProject, IsList
<1>4. /\ new.tmpl = t /\ new.key = key /\ new.live
      /\ new = [tmpl |-> new.tmpl, key |-> new.key, values |-> new.values, metrics |-> new.metrics,
                hidden |-> new.hidden, live |-> new.live]
      /\ IsList(new.metrics)
  BY EmptyList
<1> HIDE DEF new, q, S
<1>5. /\ q.records \in Seq(S) /\ Len(q.records) = n
      /\ \A j \in 1 .. Len(p.records) : q.records[j] = p.records[j]
      /\ q.records[n] = new
  BY <1>2, <1>3, AppendProperties
<1>6. n \in Nat /\ DOMAIN q.records = 1 .. n /\ q.records \in [1 .. n -> S]
  BY <1>3, <1>5, LenProperties
<1>7. DOMAIN q.records = DOMAIN p.records \cup {n} /\ n \notin DOMAIN p.records
  BY <1>3, <1>6
<1>8. IsList(q.records)
  BY <1>5, Listed
<1>9. \A j \in DOMAIN q.records :
        /\ IsList(q.records[j].metrics)
        /\ q.records[j] = [tmpl |-> q.records[j].tmpl, key |-> q.records[j].key, values |-> q.records[j].values,
                           metrics |-> q.records[j].metrics, hidden |-> q.records[j].hidden, live |-> q.records[j].live]
  <2>1. \A j \in DOMAIN p.records : q.records[j] = p.records[j]
    BY <1>3, <1>5
  <2> QED
    BY <1>0, <1>4, <1>5, <1>7, <2>1 DEF IsProject
<1>10. IsProject(q)
  BY <1>0, <1>1, <1>2, <1>8, <1>9 DEF IsProject
<1>11. \A j \in DOMAIN p.records : q.records[j] = p.records[j]
  BY <1>3, <1>5
<1>12. KeysHeldOnce(q)
  <2> SUFFICES ASSUME NEW j \in Live(q), NEW k \in Live(q), q.records[j].tmpl = q.records[k].tmpl,
                      q.records[j].key = q.records[k].key, q.records[j].key # NoKey, j # k
               PROVE  FALSE
    BY DEF KeysHeldOnce
  <2>1. Live(q) \subseteq Live(p) \cup {n}
    BY <1>7, <1>11 DEF Live
  <2>2. CASE j = n \/ k = n
    <3>1. \A x \in Live(p) : q.records[x].tmpl = t /\ q.records[x].key = key => x \in LiveByKey(p, t, key) \/ key = NoKey
      BY <1>11 DEF LiveByKey, Live
    <3>2. q.records[n].tmpl = t /\ q.records[n].key = key
      BY <1>4, <1>5
    <3> QED
      BY <3>1, <3>2, <2>1, <2>2
  <2>3. CASE j # n /\ k # n
    BY <2>3, <2>1, <1>11 DEF Proper, KeysHeldOnce, Live
  <2> QED
    BY <2>2, <2>3
<1>13. Len(Seeded.records) <= Len(p.records) /\ Len(Seeded.records) \in Nat
       /\ DOMAIN Seeded.records = 1 .. Len(Seeded.records)
  BY SeededAssumption, RecordsAre DEF Proper
<1>14. Len(Seeded.records) <= Len(q.records) /\ n \notin DOMAIN Seeded.records
  BY <1>13, <1>3, <1>5
<1>15. Grown(p, q)
  BY <1>2, <1>7, <1>11 DEF Grown
<1> QED
  BY <1>4, <1>5, <1>7, <1>10, <1>12, <1>14, <1>15 DEF Proper, q

-----------------------------------------------------------------------------
(* Each request.                                                           *)

LEMMA Discovers == ASSUME NEW p, NEW r, Proper(p), r.op = "ReadSchema" PROVE Sound(p, r, Discovery(p))
<1>1. PICK left, body : Discovery(p) = Success([p EXCEPT !.reads = p.reads + 1, !.pending = left], 200, body)
  BY DEF Discovery
<1> DEFINE q == [p EXCEPT !.reads = p.reads + 1, !.pending = left]
<1>2. q = [templates |-> p.templates, attrs |-> p.attrs, binds |-> p.binds, records |-> p.records,
           reads |-> p.reads + 1, searches |-> p.searches, pending |-> left]
  BY Fields, OtherReadings DEF Proper
<1> HIDE DEF q
<1>3. /\ q.records = p.records /\ q.attrs = p.attrs /\ q.templates = p.templates /\ q.binds = p.binds
      /\ Shaped(q)
  BY <1>2 DEF Shaped
<1>4. q.attrs = [a \in DOMAIN q.attrs |-> [kind |-> q.attrs[a].kind, options |-> q.attrs[a].options]]
  BY <1>3 DEF Proper, IsProject
<1>5. Proper(q) /\ Grown(p, q)
  BY <1>3, <1>4, SameRecords
<1>6. Content(q) = Content(p) /\ r.op \notin Creates \cup {"IngestMetrics"}
  BY <1>3 DEF Content, SchemaDoc, Creates
<1>7. Discovery(p) = Success(q, 200, body)
  BY <1>1 DEF q
<1> QED
  BY <1>5, <1>6, <1>7, Successes

LEMMA Notes ==
  ASSUME NEW p, Proper(p)
  PROVE  LET q == NoteSchemaWrite(p) IN
         /\ Proper(q) /\ Grown(p, q)
         /\ q.templates = p.templates /\ q.attrs = p.attrs /\ q.records = p.records /\ q.binds = p.binds
<1> DEFINE more == Append(p.pending, [hidden |-> p.reads + SchemaLag, doc |-> SchemaDoc(p)])
           q == [p EXCEPT !.pending = more]
<1>1. CASE SchemaLag = 0
  BY <1>1, GrownSelf DEF NoteSchemaWrite
<1>2. CASE SchemaLag # 0
  <2>1. NoteSchemaWrite(p) = q
    BY <1>2 DEF NoteSchemaWrite
  <2> HIDE DEF more
  <2>2. q = [templates |-> p.templates, attrs |-> p.attrs, binds |-> p.binds, records |-> p.records,
             reads |-> p.reads, searches |-> p.searches, pending |-> more]
    BY Fields, OtherPending DEF Proper
  <2> HIDE DEF q
  <2>3. /\ q.records = p.records /\ q.attrs = p.attrs /\ q.templates = p.templates /\ q.binds = p.binds
        /\ Shaped(q)
    BY <2>2 DEF Shaped
  <2>4. q.attrs = [a \in DOMAIN q.attrs |-> [kind |-> q.attrs[a].kind, options |-> q.attrs[a].options]]
    BY <2>3 DEF Proper, IsProject
  <2>5. Proper(q) /\ Grown(p, q)
    BY <2>3, <2>4, SameRecords
  <2> QED
    BY <2>1, <2>3, <2>5
<1> QED
  BY <1>1, <1>2

(* Schema writes. *)
LEMMA MakesTemplate ==
  ASSUME NEW p, NEW r, Proper(p), r.op = "CreateTemplate"
  PROVE  Sound(p, r, CreateTemplate(p, r))
<1> DEFINE q == [p EXCEPT !.templates = p.templates \cup {r.slug}]
<1>1. CASE r.slug \in p.templates
  BY <1>1, Refusals, GrownSelf DEF CreateTemplate, Bars
<1>2. CASE r.slug \notin p.templates
  <2>1. CreateTemplate(p, r) = Success(q, 201, r.slug)
    BY <1>2 DEF CreateTemplate
  <2>2. q = [templates |-> p.templates \cup {r.slug}, attrs |-> p.attrs, binds |-> p.binds, records |-> p.records,
             reads |-> p.reads, searches |-> p.searches, pending |-> p.pending]
    BY Fields, OtherTemplates DEF Proper
  <2> HIDE DEF q
  <2>3. /\ q.records = p.records /\ q.attrs = p.attrs /\ q.templates = p.templates \cup {r.slug}
        /\ Shaped(q)
    BY <2>2 DEF Shaped
  <2>4. q.attrs = [a \in DOMAIN q.attrs |-> [kind |-> q.attrs[a].kind, options |-> q.attrs[a].options]]
    BY <2>3 DEF Proper, IsProject
  <2>5. Proper(q) /\ Grown(p, q)
    BY <2>3, <2>4, SameRecords
  <2>6. Bars(q, r, r.slug) /\ \A thing : ~Bars(p, r, thing)
    BY <1>2, <2>3 DEF Bars
  <2>7. r.op \in Making
    BY DEF Making
  <2> QED
    BY <2>1, <2>5, <2>6, <2>7, Creations
<1> QED
  BY <1>1, <1>2

LEMMA MakesAttribute ==
  ASSUME NEW p, NEW r, Proper(p), r.op = "CreateAttribute"
  PROVE  Sound(p, r, CreateAttribute(p, r))
<1> DEFINE attrs == [a \in DOMAIN p.attrs \cup {r.slug} |->
                       IF a = r.slug THEN [kind |-> r.kind, options |-> {}] ELSE p.attrs[a]]
           binds == p.binds \cup (r.tmpls \X {r.slug})
           q == [p EXCEPT !.attrs = attrs, !.binds = binds]
<1>1. CASE r.slug \in DOMAIN p.attrs
  BY <1>1, Refusals, GrownSelf DEF CreateAttribute, Bars
<1>2. CASE r.slug \notin DOMAIN p.attrs /\ ~(r.tmpls \subseteq p.templates)
  BY <1>2, Refusals, GrownSelf DEF CreateAttribute
<1>3. CASE /\ r.slug \notin DOMAIN p.attrs /\ r.tmpls \subseteq p.templates
           /\ IsReference(r) /\ ~(r.target \in p.templates /\ r.display \in DOMAIN p.attrs)
  BY <1>3, Refusals, GrownSelf DEF CreateAttribute
<1>4. CASE /\ r.slug \notin DOMAIN p.attrs /\ r.tmpls \subseteq p.templates
           /\ ~(IsReference(r) /\ ~(r.target \in p.templates /\ r.display \in DOMAIN p.attrs))
  <2>1. CreateAttribute(p, r) = Success(q, 201, r.slug)
    BY <1>4 DEF CreateAttribute
  <2>0. p.attrs = [a \in DOMAIN p.attrs |-> [kind |-> p.attrs[a].kind, options |-> p.attrs[a].options]]
    BY DEF Proper, IsProject
  <2>2. /\ attrs = [a \in DOMAIN attrs |-> [kind |-> attrs[a].kind, options |-> attrs[a].options]]
        /\ DOMAIN attrs = DOMAIN p.attrs \cup {r.slug}
        /\ \A a \in DOMAIN p.attrs : attrs[a] = p.attrs[a]
    BY <1>4, <2>0
  <2> HIDE DEF attrs, binds
  <2>3. q = [templates |-> p.templates, attrs |-> attrs, binds |-> binds, records |-> p.records,
             reads |-> p.reads, searches |-> p.searches, pending |-> p.pending]
    BY Fields, OtherSchema DEF Proper
  <2> HIDE DEF q
  <2>4. /\ q.records = p.records /\ q.attrs = attrs /\ q.templates = p.templates
        /\ Shaped(q)
    BY <2>3 DEF Shaped
  <2>5. Proper(q) /\ Grown(p, q)
    BY <2>2, <2>4, SameRecords
  <2>6. Bars(q, r, r.slug) /\ \A thing : ~Bars(p, r, thing)
    BY <1>4, <2>2, <2>4 DEF Bars
  <2>7. r.op \in Making
    BY DEF Making
  <2> QED
    BY <2>1, <2>5, <2>6, <2>7, Creations
<1> QED
  BY <1>1, <1>2, <1>3, <1>4

LEMMA MakesOption ==
  ASSUME NEW p, NEW r, Proper(p), r.op = "AddListOption"
  PROVE  Sound(p, r, CreateItem(p, r))
<1> DEFINE options == p.attrs[r.attr].options \cup {r.value}
           attrs == [p.attrs EXCEPT ![r.attr].options = options]
           q == [p EXCEPT !.attrs = attrs]
<1>1. CASE r.attr \notin DOMAIN p.attrs
  BY <1>1, Problems, GrownSelf DEF CreateItem
<1>2. CASE r.attr \in DOMAIN p.attrs /\ p.attrs[r.attr].kind # "list"
  BY <1>2, Refusals, GrownSelf DEF CreateItem
<1>3. CASE r.attr \in DOMAIN p.attrs /\ p.attrs[r.attr].kind = "list" /\ r.value \in p.attrs[r.attr].options
  BY <1>3, Refusals, GrownSelf DEF CreateItem, Bars
<1>4. CASE r.attr \in DOMAIN p.attrs /\ p.attrs[r.attr].kind = "list" /\ r.value \notin p.attrs[r.attr].options
  <2>1. CreateItem(p, r) = Success([p EXCEPT !.attrs[r.attr].options = options], 201, r.value)
    BY <1>4 DEF CreateItem
  <2>2. [p EXCEPT !.attrs[r.attr].options = options] = q
    OBVIOUS
  <2>0. p.attrs = [a \in DOMAIN p.attrs |-> [kind |-> p.attrs[a].kind, options |-> p.attrs[a].options]]
    BY DEF Proper, IsProject
  <2> HIDE DEF options
  <2>3. /\ DOMAIN attrs = DOMAIN p.attrs
        /\ attrs[r.attr] = [kind |-> p.attrs[r.attr].kind, options |-> options]
        /\ \A a \in DOMAIN p.attrs : a # r.attr => attrs[a] = p.attrs[a]
        /\ attrs = [a \in DOMAIN attrs |-> attrs[a]]
    BY <1>4, <2>0
  <2> HIDE DEF attrs
  <2>4. /\ \A a \in DOMAIN p.attrs : p.attrs[a].options \subseteq attrs[a].options
        /\ r.value \in attrs[r.attr].options
    BY <2>3 DEF options
  <2>5. \A a \in DOMAIN attrs : attrs[a] = [kind |-> attrs[a].kind, options |-> attrs[a].options]
    BY <2>0, <2>3
  <2>6. attrs = [a \in DOMAIN attrs |-> [kind |-> attrs[a].kind, options |-> attrs[a].options]]
    BY <2>3, <2>5
  <2>7. q = [templates |-> p.templates, attrs |-> attrs, binds |-> p.binds, records |-> p.records,
             reads |-> p.reads, searches |-> p.searches, pending |-> p.pending]
    BY Fields, OtherAttrs DEF Proper
  <2> HIDE DEF q
  <2>8. q.records = p.records /\ q.attrs = attrs /\ q.templates = p.templates /\ Shaped(q)
    BY <2>7 DEF Shaped
  <2>9. Proper(q) /\ Grown(p, q)
    BY <2>3, <2>4, <2>6, <2>8, SameRecords
  <2>10. Bars(q, r, r.value) /\ \A thing : ~Bars(p, r, thing)
    BY <1>4, <2>3, <2>4, <2>8 DEF Bars
  <2>11. r.op \in Making
    BY DEF Making
  <2> QED
    BY <2>1, <2>2, <2>9, <2>10, <2>11, Creations
<1> QED
  BY <1>1, <1>2, <1>3, <1>4

LEMMA Patches == ASSUME NEW p, NEW r, Proper(p), r.op = "BindAttribute" PROVE Sound(p, r, PatchAttribute(p, r))
<1> DEFINE binds == {b \in p.binds : b[2] # r.attr} \cup (r.tmpls \X {r.attr})
           q == [p EXCEPT !.binds = binds]
<1>1. CASE r.attr \notin DOMAIN p.attrs
  BY <1>1, Problems, GrownSelf DEF PatchAttribute
<1>2. CASE r.attr \in DOMAIN p.attrs /\ ~(r.tmpls \subseteq p.templates)
  BY <1>2, Refusals, GrownSelf DEF PatchAttribute
<1>3. CASE r.attr \in DOMAIN p.attrs /\ r.tmpls \subseteq p.templates
  <2>1. PatchAttribute(p, r) = Success(q, 204, None)
    BY <1>3 DEF PatchAttribute
  <2> HIDE DEF binds
  <2>2. q = [templates |-> p.templates, attrs |-> p.attrs, binds |-> binds, records |-> p.records,
             reads |-> p.reads, searches |-> p.searches, pending |-> p.pending]
    BY Fields, OtherBinds DEF Proper
  <2> HIDE DEF q
  <2>3. q.records = p.records /\ q.attrs = p.attrs /\ q.templates = p.templates /\ Shaped(q)
    BY <2>2 DEF Shaped
  <2>4. q.attrs = [a \in DOMAIN q.attrs |-> [kind |-> q.attrs[a].kind, options |-> q.attrs[a].options]]
    BY <2>3 DEF Proper, IsProject
  <2>5. Proper(q) /\ Grown(p, q)
    BY <2>3, <2>4, SameRecords
  <2> QED
    BY <2>1, <2>5, Successes DEF Creates, Reads
<1> QED
  BY <1>1, <1>2, <1>3

(* Records. *)
LEMMA Searches == ASSUME NEW p, NEW r, Proper(p), r.op = "FindEntities" PROVE Sound(p, r, SearchEntities(p, r))
<1> DEFINE searches == p.searches + 1
           q == [p EXCEPT !.searches = searches]
           found == {i \in Live(p) :
                      /\ p.records[i].tmpl = r.tmpl /\ p.records[i].hidden < searches
                      /\ r.attr \in DOMAIN p.records[i].values /\ p.records[i].values[r.attr] = r.value}
<1>1. CASE r.tmpl \notin p.templates
  BY <1>1, Problems, GrownSelf DEF SearchEntities
<1>2. CASE r.tmpl \in p.templates
  <2>1. SearchEntities(p, r) = Success(q, 200, found)
    BY <1>2 DEF SearchEntities
  <2> HIDE DEF found, searches
  <2>2. q = [templates |-> p.templates, attrs |-> p.attrs, binds |-> p.binds, records |-> p.records,
             reads |-> p.reads, searches |-> searches, pending |-> p.pending]
    BY Fields, OtherSearches DEF Proper
  <2> HIDE DEF q
  <2>3. q.records = p.records /\ q.attrs = p.attrs /\ q.templates = p.templates /\ Shaped(q)
    BY <2>2 DEF Shaped
  <2>4. q.attrs = [a \in DOMAIN q.attrs |-> [kind |-> q.attrs[a].kind, options |-> q.attrs[a].options]]
    BY <2>3 DEF Proper, IsProject
  <2>5. Proper(q) /\ Grown(p, q)
    BY <2>3, <2>4, SameRecords
  <2> QED
    BY <2>1, <2>5, Successes DEF Creates, Reads
<1> QED
  BY <1>1, <1>2

LEMMA CreatesEntity ==
  ASSUME NEW p, NEW r, Proper(p), r.op = "CreateEntity"
  PROVE  Sound(p, r, CreateEntity(p, r))
<1> DEFINE misplaced == Misplaced(p, r.tmpl, DOMAIN r.values)
           q == AddRecord(p, r.tmpl, NoKey, r.values)
<1> HIDE DEF misplaced
<1>1. CASE r.tmpl \notin p.templates
  BY <1>1, Problems, GrownSelf DEF CreateEntity
<1>2. CASE r.tmpl \in p.templates /\ misplaced # {}
  BY <1>2, Refusals, GrownSelf DEF CreateEntity, misplaced
<1>3. CASE r.tmpl \in p.templates /\ misplaced = {}
  <2>1. CreateEntity(p, r) = Success(q, 201, Len(p.records) + 1)
    BY <1>3 DEF CreateEntity, misplaced
  <2>2. Proper(q) /\ Grown(p, q) /\ q.records # p.records
    BY AddedRecord
  <2>3. r.op \in Making /\ Bars(q, r, Len(p.records) + 1)
    BY DEF Making, Bars
  <2> HIDE DEF q
  <2> QED
    BY <2>1, <2>2, <2>3, Creations
<1> QED
  BY <1>1, <1>2, <1>3

LEMMA Upserts ==
  ASSUME NEW p, NEW r, NEW race, Proper(p), r.op = "UpsertByKey", r.key # NoKey
  PROVE  Sound(p, r, UpsertByKey(p, r, race))
<1> DEFINE held == LiveByKey(p, r.tmpl, r.key)
           i == CHOOSE h \in held : TRUE
           misplaced == Misplaced(p, r.tmpl, DOMAIN r.values)
           e == [p.records[i] EXCEPT !.values = With(p.records[i].values, r.values)]
           q == AddRecord(p, r.tmpl, r.key, r.values)
           n == Len(p.records) + 1
<1> HIDE DEF misplaced
<1>1. CASE r.tmpl \notin p.templates \/ race
  BY <1>1, Problems, GrownSelf DEF UpsertByKey, Creates
<1>2. CASE r.tmpl \in p.templates /\ ~race /\ misplaced # {}
  BY <1>2, Refusals, GrownSelf DEF UpsertByKey, misplaced
<1>3. CASE r.tmpl \in p.templates /\ ~race /\ misplaced = {} /\ held # {}
  <2>1. UpsertByKey(p, r, race) = Success([p EXCEPT !.records[i].values = With(p.records[i].values, r.values)], 200, i)
    BY <1>3 DEF UpsertByKey, misplaced
  <2>2. [p EXCEPT !.records[i].values = With(p.records[i].values, r.values)] = [p EXCEPT !.records[i] = e]
    OBVIOUS
  <2>3. i \in DOMAIN p.records
    BY <1>3 DEF LiveByKey, Live
  <2> HIDE DEF i
  <2>4. /\ IsList(p.records[i].metrics)
        /\ p.records[i] = [tmpl |-> p.records[i].tmpl, key |-> p.records[i].key, values |-> p.records[i].values,
                        metrics |-> p.records[i].metrics, hidden |-> p.records[i].hidden, live |-> p.records[i].live]
    BY <2>3 DEF Proper, IsProject
  <2>5. /\ e.tmpl = p.records[i].tmpl /\ e.key = p.records[i].key /\ e.live = p.records[i].live
        /\ e = [tmpl |-> e.tmpl, key |-> e.key, values |-> e.values, metrics |-> e.metrics,
                hidden |-> e.hidden, live |-> e.live]
        /\ IsList(e.metrics)
    BY <2>4
  <2> HIDE DEF e
  <2>6. Proper([p EXCEPT !.records[i] = e]) /\ Grown(p, [p EXCEPT !.records[i] = e])
    BY <2>3, <2>5, EditedRecord
  <2> QED
    BY <2>1, <2>2, <2>6, Successes DEF Creates, Reads
<1>4. CASE r.tmpl \in p.templates /\ ~race /\ misplaced = {} /\ held = {}
  <2>1. UpsertByKey(p, r, race) = Success(q, 201, n)
    BY <1>4 DEF UpsertByKey, misplaced
  <2>2. /\ Proper(q) /\ Grown(p, q)
        /\ n \in DOMAIN q.records \ DOMAIN Seeded.records
        /\ q.records[n].tmpl = r.tmpl /\ q.records[n].key = r.key
    BY <1>4, AddedRecord
  <2>3. \A thing : Bars(p, r, thing) => ~p.records[thing].live
    BY <1>4 DEF Bars, LiveByKey, Live
  <2> HIDE DEF q, n
  <2>4. r.op \in Making /\ Bars(q, r, n)
    BY <2>2 DEF Making, Bars
  <2> QED
    BY <2>1, <2>2, <2>3, <2>4, Creations
<1> QED
  BY <1>1, <1>2, <1>3, <1>4

(* A record's values or metrics, and nothing else of it. *)
LEMMA Filled ==
  ASSUME NEW p, Proper(p), NEW i \in DOMAIN p.records, NEW given, NEW list, IsList(list)
  PROVE  /\ Proper([p EXCEPT !.records[i].values = given]) /\ Grown(p, [p EXCEPT !.records[i].values = given])
         /\ Proper([p EXCEPT !.records[i].metrics = list]) /\ Grown(p, [p EXCEPT !.records[i].metrics = list])
<1> DEFINE old == p.records[i]
           d == [old EXCEPT !.values = given]
           e == [old EXCEPT !.metrics = list]
<1>1. /\ IsList(old.metrics)
      /\ old = [tmpl |-> old.tmpl, key |-> old.key, values |-> old.values, metrics |-> old.metrics,
             hidden |-> old.hidden, live |-> old.live]
  BY DEF Proper, IsProject
<1>2. /\ [p EXCEPT !.records[i].values = given] = [p EXCEPT !.records[i] = d]
      /\ [p EXCEPT !.records[i].metrics = list] = [p EXCEPT !.records[i] = e]
  OBVIOUS
<1>3. /\ d.tmpl = old.tmpl /\ d.key = old.key /\ d.live = old.live
      /\ d = [tmpl |-> d.tmpl, key |-> d.key, values |-> d.values, metrics |-> d.metrics,
              hidden |-> d.hidden, live |-> d.live]
      /\ IsList(d.metrics)
  BY <1>1
<1>4. /\ e.tmpl = old.tmpl /\ e.key = old.key /\ e.live = old.live
      /\ e = [tmpl |-> e.tmpl, key |-> e.key, values |-> e.values, metrics |-> e.metrics,
              hidden |-> e.hidden, live |-> e.live]
      /\ IsList(e.metrics)
  BY <1>1
<1> HIDE DEF d, e
<1>5. Proper([p EXCEPT !.records[i] = d]) /\ Grown(p, [p EXCEPT !.records[i] = d])
  BY <1>3, EditedRecord
<1>6. Proper([p EXCEPT !.records[i] = e]) /\ Grown(p, [p EXCEPT !.records[i] = e])
  BY <1>4, EditedRecord
<1> QED
  BY <1>2, <1>5, <1>6

LEMMA Keys ==
  ASSUME NEW p, NEW r, Proper(p), Asks(r), r.op \in {"UpdateEntity", "SetEntityKey"}, r.id \in Live(p),
         LiveByKey(p, p.records[r.id].tmpl, r.key) \ {r.id} = {}
  PROVE  Proper(Keyed(p, r)) /\ Grown(p, Keyed(p, r)) /\ r.id \in DOMAIN Keyed(p, r).records
<1> DEFINE i == r.id
           old == p.records[i]
           e == [old EXCEPT !.key = r.key]
<1>1. CASE r.key = NoKey
  BY <1>1, GrownSelf DEF Keyed, Live
<1>2. CASE r.key # NoKey
  <2>1. i \in DOMAIN p.records /\ i \in DOMAIN Seeded.records
    BY <1>2 DEF Live, Asks
  <2>2. Keyed(p, r) = [p EXCEPT !.records[i].key = r.key]
    BY <1>2 DEF Keyed
  <2>3. [p EXCEPT !.records[i].key = r.key] = [p EXCEPT !.records[i] = e]
    OBVIOUS
  <2>4. /\ IsList(old.metrics)
        /\ old = [tmpl |-> old.tmpl, key |-> old.key, values |-> old.values, metrics |-> old.metrics,
               hidden |-> old.hidden, live |-> old.live]
    BY <2>1 DEF Proper, IsProject
  <2>5. /\ e.tmpl = old.tmpl /\ e.key = r.key /\ e.live = old.live
        /\ e = [tmpl |-> e.tmpl, key |-> e.key, values |-> e.values, metrics |-> e.metrics,
                hidden |-> e.hidden, live |-> e.live]
        /\ IsList(e.metrics)
    BY <2>4
  <2> HIDE DEF e
  <2>6. Proper([p EXCEPT !.records[i] = e]) /\ Grown(p, [p EXCEPT !.records[i] = e])
    BY <2>1, <2>5, EditedRecord
  <2> QED
    BY <2>1, <2>2, <2>3, <2>6 DEF Grown
<1> QED
  BY <1>1, <1>2

LEMMA Updates ==
  ASSUME NEW p, NEW r, Proper(p), Asks(r), r.op \in {"UpdateEntity", "SetEntityKey"}
  PROVE  Sound(p, r, UpdateEntity(p, r))
<1> DEFINE unknown == DOMAIN r.values \ DOMAIN p.attrs
           free == LiveByKey(p, p.records[r.id].tmpl, r.key) \ {r.id} = {}
           k == Keyed(p, r)
           q == [k EXCEPT !.records[r.id].values = With(k.records[r.id].values, r.values)]
<1> HIDE DEF unknown
<1>1. CASE r.id \notin Live(p)
  BY <1>1, Problems, GrownSelf DEF UpdateEntity
<1>2. CASE r.id \in Live(p) /\ ~free
  BY <1>2, Problems, GrownSelf DEF UpdateEntity, Creates
<1>3. CASE r.id \in Live(p) /\ free /\ unknown # {}
  <2>1. UpdateEntity(p, r) = Validation(k, unknown, "unknown")
    BY <1>3 DEF UpdateEntity, unknown
  <2>2. Proper(k) /\ Grown(p, k) /\ k = p
    BY <1>3, Keys, GrownSelf DEF Asks, Keyed, unknown
  <2> HIDE DEF k
  <2> QED
    BY <2>1, <2>2, Refusals
<1>4. CASE r.id \in Live(p) /\ free /\ unknown = {}
  <2>1. UpdateEntity(p, r) = Success(q, 200, None)
    BY <1>4 DEF UpdateEntity, unknown
  <2>2. Proper(k) /\ Grown(p, k) /\ r.id \in DOMAIN k.records
    BY <1>4, Keys
  <2> HIDE DEF k
  <2>3. Proper(q) /\ Grown(k, q)
    BY <2>2, EmptyList, Filled
  <2> HIDE DEF q
  <2>4. Grown(p, q)
    BY <2>2, <2>3, GrownThrough
  <2> QED
    BY <2>1, <2>3, <2>4, Successes DEF Creates, Reads
<1> QED
  BY <1>1, <1>2, <1>3, <1>4

LEMMA Ingests == ASSUME NEW p, NEW r, Proper(p), r.op = "IngestMetrics" PROVE Sound(p, r, IngestMetrics(p, r))
<1> DEFINE wrong == {a \in r.attrs : a \notin DOMAIN p.attrs \/ p.attrs[a].kind # "metric"}
           list == Append(p.records[r.id].metrics, r.attrs)
           q == [p EXCEPT !.records[r.id].metrics = list]
<1> HIDE DEF wrong
<1>1. CASE r.id \notin Live(p)
  BY <1>1, Problems, GrownSelf DEF IngestMetrics
<1>2. CASE r.id \in Live(p) /\ wrong # {}
  BY <1>2, Refusals, GrownSelf DEF IngestMetrics, wrong
<1>3. CASE r.id \in Live(p) /\ wrong = {}
  <2>1. IngestMetrics(p, r) = Success(q, 202, None)
    BY <1>3 DEF IngestMetrics, wrong
  <2>2. IsList(list) /\ list # p.records[r.id].metrics /\ r.id \in DOMAIN p.records
    BY <1>3, Longer DEF Live, Proper, IsProject
  <2> HIDE DEF list
  <2>3. Proper(q) /\ Grown(p, q)
    BY <2>2, Filled
  <2>4. Content(q) # Content(p)
    <3> SUFFICES q.records[r.id].metrics = list
      BY <2>2 DEF Content
    <3>1. p.records \in [DOMAIN p.records -> {p.records[j] : j \in DOMAIN p.records}]
      BY RecordsAre, LenProperties DEF Proper, IsProject, IsList
    <3>2. p.records[r.id] = [tmpl |-> p.records[r.id].tmpl, key |-> p.records[r.id].key,
                             values |-> p.records[r.id].values, metrics |-> p.records[r.id].metrics,
                             hidden |-> p.records[r.id].hidden, live |-> p.records[r.id].live]
      BY <2>2 DEF Proper, IsProject
    <3>3. Shaped(p)
      BY Fields DEF Proper
    <3> QED
      BY <2>2, <3>1, <3>2, <3>3 DEF Shaped
  <2> HIDE DEF q
  <2> QED
    BY <2>1, <2>3, <2>4, Successes DEF Reads
<1> QED
  BY <1>1, <1>2, <1>3

LEMMA Looks ==
  ASSUME NEW p, NEW r, Proper(p), r.op \in Reads
  PROVE  Sound(p, r, EntityByKey(p, r)) /\ Sound(p, r, GetEntity(p, r)) /\ Sound(p, r, Success(p, 200, None))
BY Problems, Successes, GrownSelf DEF EntityByKey, GetEntity, Creates, Reads

(* With the note of a schema write before it. *)
LEMMA Noted ==
  ASSUME NEW p, NEW r, NEW h, Proper(p), Sound(NoteSchemaWrite(p), r, h)
  PROVE  Sound(p, r, h)
<1> DEFINE q == NoteSchemaWrite(p)
<1>1. /\ Proper(q) /\ Grown(p, q)
      /\ q.templates = p.templates /\ q.attrs = p.attrs /\ q.records = p.records /\ q.binds = p.binds
  BY Notes
<1> HIDE DEF q
<1>2. Sound(q, r, h)
  BY DEF q
<1>3. Grown(p, h.project)
  BY <1>1, <1>2, GrownThrough DEF Sound
<1>4. \A thing : Bars(p, r, thing) => Bars(q, r, thing)
  BY <1>1 DEF Bars
<1>5. h.answer.status = 201 => Makes(p, r, h)
  BY <1>1, <1>2, <1>4 DEF Sound, Makes
<1>6. Content(q) = Content(p)
  BY <1>1 DEF Content, SchemaDoc
<1>7. Truthful(p, r, h)
  BY <1>2, <1>6 DEF Sound, Truthful
<1> QED
  BY <1>2, <1>3, <1>5, <1>7 DEF Sound

LEMMA Routes ==
  ASSUME NEW p, NEW r, NEW race, Proper(p), Asks(r)
  PROVE  Sound(p, r, Route(p, r, race))
<1>0. Proper(NoteSchemaWrite(p))
  BY Notes
<1>1. CASE r.op = "ReadSchema"
  BY <1>1, Discovers DEF Route
<1>2. CASE r.op = "MyPermissions"
  BY <1>2, Looks DEF Route, Reads
<1>3. CASE r.op = "CreateTemplate"
  BY <1>0, <1>3, MakesTemplate, Noted DEF Route
<1>4. CASE r.op = "CreateAttribute"
  BY <1>0, <1>4, MakesAttribute, Noted DEF Route
<1>5. CASE r.op = "AddListOption"
  BY <1>0, <1>5, MakesOption, Noted DEF Route
<1>6. CASE r.op = "BindAttribute"
  BY <1>0, <1>6, Patches, Noted DEF Route
<1>7. CASE r.op = "FindEntities"
  BY <1>7, Searches DEF Route
<1>8. CASE r.op = "EntityByKey"
  BY <1>8, Looks DEF Route, Reads
<1>9. CASE r.op = "UpsertByKey"
  BY <1>9, Upserts DEF Route, Asks
<1>10. CASE r.op = "CreateEntity"
  BY <1>10, CreatesEntity DEF Route
<1>11. CASE r.op \in {"UpdateEntity", "SetEntityKey"}
  <2>1. Route(p, r, race) = UpdateEntity(p, r)
    BY <1>11 DEF Route
  <2> QED
    BY <2>1, <1>11, Updates
<1>12. CASE r.op = "IngestMetrics"
  BY <1>12, Ingests DEF Route
<1>13. CASE r.op = "EntityValues"
  BY <1>13, Looks DEF Route, Reads
<1> QED
  BY <1>1, <1>2, <1>3, <1>4, <1>5, <1>6, <1>7, <1>8, <1>9, <1>10, <1>11, <1>12, <1>13 DEF Asks, Operations, Reads

(* Whoever asks for whatever a client asks for: nothing is undone, keys    *)
(* stay held once, and what is made was not there.                         *)
LEMMA Handling ==
  ASSUME NEW p, NEW r, NEW cred, NEW race, Proper(p), Asks(r)
  PROVE  Sound(p, r, Handle(p, cred, r, race))
<1>1. Sound(p, r, NoProject(p))
  <2> DEFINE h == [Problem(p, 409) EXCEPT !.answer.code = "no_project_selected"]
  <2>1. NoProject(p) = h
    BY DEF NoProject
  <2>2. Problem(p, 409) = [project |-> p, answer |-> [status |-> 409, code |-> "none", fields |-> {}, body |-> None]]
    BY DEF Problem, Answer
  <2>3. h.project = p
    BY <2>2
  <2>4. h.answer = [status |-> 409, code |-> "no_project_selected", fields |-> {}, body |-> None]
    BY <2>2
  <2> HIDE DEF h
  <2>5. h.answer.status = 409
    BY <2>4
  <2>6. h.answer = [status |-> h.answer.status, code |-> h.answer.code, fields |-> h.answer.fields,
                    body |-> h.answer.body]
    BY <2>4
  <2>7. ~Retryable(h.answer)
    BY <2>5 DEF Retryable
  <2>8. h.answer.code = "no_project_selected" /\ ~AlreadyExists(h.answer)
    BY <2>4, <2>5 DEF AlreadyExists
  <2>9. Truthful(p, r, h)
    BY <2>3, <2>5, <2>8 DEF Truthful
  <2> QED
    BY <2>1, <2>3, <2>5, <2>6, <2>7, <2>9, GrownSelf DEF Sound
<1>2. Sound(p, r, Problem(p, 401))
  BY Problems, GrownSelf
<1>3. Sound(p, r, Problem(p, 403))
  BY Problems, GrownSelf
<1>4. Sound(p, r, Route(p, r, race))
  BY Routes
<1> QED
  BY <1>1, <1>2, <1>3, <1>4 DEF Handle

-----------------------------------------------------------------------------
(* The clients.                                                            *)

(* What is asked and may still arrive, now or by a retry. *)
Pending == late \cup {Sent(c) : c \in {d \in Clients : call[d] # None}}

(* Calls are numbered by what is left of the program, downwards: an id of  *)
(* the past is none of a call to come.                                     *)
Past(id) ==
  /\ id = [by |-> id.by, n |-> id.n] /\ id.by \in Clients
  /\ id.n \in Nat /\ id.n > Len(program[id.by].left)

ProgramInv ==
  /\ program = [c \in Clients |-> program[c]]
  /\ \A c \in Clients :
       /\ program[c] = [cred |-> program[c].cred, left |-> program[c].left]
       /\ IsList(program[c].left)
       /\ \A k \in DOMAIN program[c].left : Asks(program[c].left[k])

CallInv ==
  /\ call = [c \in Clients |-> call[c]]
  /\ \A c \in Clients :
       call[c] # None =>
         /\ call[c] = [n |-> call[c].n, req |-> call[c].req, attempt |-> call[c].attempt, pc |-> call[c].pc,
                       answer |-> call[c].answer, unsure |-> call[c].unsure]
         /\ call[c].pc \in {"sent", "waiting", "answered"} /\ call[c].unsure \in BOOLEAN

(* All attempts of a call are for the same.                                *)
PendingInv ==
  /\ \A s \in Pending : Past(s.id) /\ Asks(s.req)
  /\ \A s, t \in Pending : s.id = t.id => s.req = t.req

(* What a call has made stands in the way of its other attempts.           *)
EffectsInv ==
  /\ \A e \in effects : Past(e.id) /\ (e.new /\ e.op = "UpsertByKey" => e.thing \in DOMAIN platform.records)
  /\ \A e, f \in effects : e.id = f.id => e.op = f.op
  /\ \A e \in effects, s \in Pending :
       e.id = s.id => e.op = s.req.op /\ (e.new => Bars(platform, s.req, e.thing))

MadeOnce ==
  \A e, f \in effects :
    e.new /\ f.new /\ e.id = f.id /\ e.op # "CreateEntity" =>
      e = f \/ (e.op = "UpsertByKey" /\ ~({e.thing, f.thing} \subseteq Live(platform)))

Once(id) == \A e, f \in effects : e.id = id /\ f.id = id => e = f
Undone(id) == \A e \in effects : e.id # id
Arrived(id) == \A s \in late : s.id # id

(* An answer after which the call has done nothing. *)
Fruitless(k) ==
  k.pc # "answered" \/ k.answer.status \notin 200 .. 299 \/ k.req.op \in Reads

(* As long as every attempt was answered, the one that was processed was   *)
(* the last.                                                               *)
CallOnce ==
  \A c \in Clients :
    call[c] # None /\ ~call[c].unsure =>
      /\ Arrived(Id(c)) /\ Once(Id(c))
      /\ Fruitless(call[c]) => Undone(Id(c))

ResultOnce ==
  /\ result = [c \in Clients |-> result[c]]
  /\ \A c \in Clients :
       result[c] # None =>
         /\ Past(result[c].id) /\ result[c].id.by = c
         /\ call[c] # None => call[c].n < result[c].id.n
         /\ ~result[c].unsure => Arrived(result[c].id) /\ Once(result[c].id)

Inv ==
  /\ Proper(platform) /\ ProgramInv /\ CallInv /\ PendingInv
  /\ EffectsInv /\ MadeOnce /\ CallOnce /\ ResultOnce

LEMMA InitInv == Init => Inv
<1> SUFFICES ASSUME Init PROVE Inv
  OBVIOUS
<1>1. Pending = {} /\ effects = {}
  BY DEF Init, Pending
<1>2. Proper(platform)
  BY SeededAssumption, RecordsAre DEF Init, Proper
<1>3. ProgramInv
  BY ProgramsAssumption DEF Init, ProgramInv
<1>4. CallInv /\ CallOnce
  BY DEF Init, CallInv, CallOnce
<1>5. ResultOnce
  BY DEF Init, ResultOnce
<1>6. PendingInv /\ EffectsInv /\ MadeOnce
  BY <1>1 DEF PendingInv, EffectsInv, MadeOnce
<1> QED
  BY <1>2, <1>3, <1>4, <1>5, <1>6 DEF Inv

LEMMA SentIs ==
  ASSUME NEW c \in Clients
  PROVE  /\ Sent(c).id = Id(c) /\ Sent(c).req = call[c].req /\ Id(c).by = c /\ Id(c).n = call[c].n
         /\ Sent(c)'.id = Id(c)' /\ Sent(c)'.req = call'[c].req /\ Id(c)'.by = c /\ Id(c)'.n = call'[c].n
BY DEF Sent, Id

(* A step of client c alone, and what it leaves of its call. *)
Stays(c) ==
  /\ \A d \in Clients \ {c} : call'[d] = call[d] /\ result'[d] = result[d]
  /\ call[c] # None
  /\ call' = [d \in Clients |-> call'[d]] /\ result' = [d \in Clients |-> result'[d]]

(* Whatever is pending was pending before. *)
PendingFrom == \A t \in Pending' : \E s \in Pending : s.id = t.id /\ s.req = t.req

LEMMA StillPending ==
  ASSUME late' \subseteq Pending,
         \A d \in Clients : call'[d] # None =>
           call[d] # None /\ call'[d].n = call[d].n /\ call'[d].req = call[d].req
  PROVE  PendingFrom
<1> SUFFICES ASSUME NEW t \in Pending'
             PROVE  \E s \in Pending : s.id = t.id /\ s.req = t.req
  BY DEF PendingFrom
<1>1. CASE t \in late'
  BY <1>1
<1>2. CASE t \notin late'
  <2>1. PICK d \in Clients : call'[d] # None /\ t = Sent(d)'
    BY <1>2 DEF Pending
  <2>2. Sent(d) \in Pending
    BY <2>1 DEF Pending
  <2>3. Id(d)' = Id(d)
    BY <2>1 DEF Id
  <2> QED
    BY <2>1, <2>2, <2>3, SentIs
<1> QED
  BY <1>1, <1>2

(* Nothing new is pending and nothing was done: what is in the way stays.  *)
LEMMA NothingDone ==
  ASSUME Inv, PendingFrom, effects' = effects, program' = program, Proper(platform'), Grown(platform, platform')
  PROVE  ProgramInv' /\ PendingInv' /\ EffectsInv' /\ MadeOnce'
<1>1. ProgramInv'
  BY DEF Inv, ProgramInv
<1>2. \A id : Past(id) => Past(id)'
  BY DEF Past
<1>3. PendingInv'
  <2>1. \A t \in Pending' : Past(t.id)' /\ Asks(t.req)
    BY <1>2 DEF PendingFrom, Inv, PendingInv
  <2>2. \A s, t \in Pending' : s.id = t.id => s.req = t.req
    BY DEF PendingFrom, Inv, PendingInv
  <2> QED
    BY <2>1, <2>2 DEF PendingInv
<1>4. EffectsInv'
  <2>1. \A e \in effects : Past(e.id)' /\ (e.new /\ e.op = "UpsertByKey" => e.thing \in DOMAIN platform'.records)
    BY <1>2 DEF Inv, EffectsInv, Grown
  <2>2. \A e \in effects, t \in Pending' :
          e.id = t.id => e.op = t.req.op /\ (e.new => Bars(platform', t.req, e.thing))
    BY GrownStays DEF PendingFrom, Inv, EffectsInv
  <2> QED
    BY <2>1, <2>2 DEF EffectsInv, Inv
<1>5. MadeOnce'
  <2>1. \A i \in DOMAIN platform.records : i \in Live(platform') => i \in Live(platform)
    BY DEF Grown, Live
  <2> QED
    <3> SUFFICES ASSUME NEW e \in effects, NEW f \in effects, e.new, f.new, e.id = f.id, e.op = "UpsertByKey",
                        ~({e.thing, f.thing} \subseteq Live(platform))
                 PROVE  ~({e.thing, f.thing} \subseteq Live(platform'))
      BY DEF Inv, MadeOnce
    <3>1. e.thing \in DOMAIN platform.records /\ f.thing \in DOMAIN platform.records
      BY DEF Inv, EffectsInv
    <3> QED
      BY <2>1, <3>1
<1> QED
  BY <1>1, <1>3, <1>4, <1>5

(* A request that is processed. *)
LEMMA Processed ==
  ASSUME Inv, NEW s \in Pending, NEW h, Sound(platform, s.req, h), Processes(s, h), PendingFrom, program' = program
  PROVE  ProgramInv' /\ PendingInv' /\ EffectsInv' /\ MadeOnce' /\ Proper(platform')
<1> DEFINE new == Effect(s, h)
<1>0. platform' = h.project /\ Proper(platform') /\ Grown(platform, platform')
  BY DEF Processes, Sound
<1>1. CASE effects' = effects
  BY <1>0, <1>1, NothingDone
<1>2. CASE effects' = effects \cup {new}
  <2>1. /\ new.id = s.id /\ new.op = s.req.op /\ new.thing = h.answer.body
        /\ new.new <=> h.answer.status = 201
    BY DEF Effect
  <2> HIDE DEF new
  <2>2. ProgramInv'
    BY DEF Inv, ProgramInv
  <2>3. \A id : Past(id) => Past(id)'
    BY DEF Past
  <2>4. PendingInv'
    <3>1. \A t \in Pending' : Past(t.id)' /\ Asks(t.req)
      BY <2>3 DEF PendingFrom, Inv, PendingInv
    <3>2. \A u, t \in Pending' : u.id = t.id => u.req = t.req
      BY DEF PendingFrom, Inv, PendingInv
    <3> QED
      BY <3>1, <3>2 DEF PendingInv
  <2>5. new.new => Makes(platform, s.req, h)
    BY <2>1 DEF Sound
  <2>6. EffectsInv'
    <3>1. \A e \in effects : Past(e.id)' /\ (e.new /\ e.op = "UpsertByKey" => e.thing \in DOMAIN platform'.records)
      BY <1>0, <2>3 DEF Inv, EffectsInv, Grown
    <3>2. Past(new.id)' /\ (new.new /\ new.op = "UpsertByKey" => new.thing \in DOMAIN platform'.records)
      <4>1. Past(new.id)'
        BY <2>1, <2>3 DEF Inv, PendingInv
      <4>2. new.new /\ new.op = "UpsertByKey" => new.thing \in DOMAIN platform'.records
        BY <1>0, <2>1, <2>5 DEF Makes, Bars
      <4> QED
        BY <4>1, <4>2
    <3>3. \A e \in effects : e.id = new.id => e.op = new.op
      BY <2>1 DEF Inv, EffectsInv
    <3>4. \A e \in effects, t \in Pending' :
            e.id = t.id => e.op = t.req.op /\ (e.new => Bars(platform', t.req, e.thing))
      BY <1>0, GrownStays DEF PendingFrom, Inv, EffectsInv
    <3>5. \A t \in Pending' : new.id = t.id => new.op = t.req.op /\ (new.new => Bars(platform', t.req, new.thing))
      <4> SUFFICES ASSUME NEW t \in Pending', new.id = t.id
                   PROVE  new.op = t.req.op /\ (new.new => Bars(platform', t.req, new.thing))
        OBVIOUS
      <4>0. PICK u \in Pending : u.id = t.id /\ u.req = t.req
        BY DEF PendingFrom
      <4>1. t.req = s.req
        BY <4>0, <2>1 DEF Inv, PendingInv
      <4> QED
        BY <4>1, <1>0, <2>1, <2>5 DEF Makes
    <3>6. \A e, f \in effects : e.id = f.id => e.op = f.op
      BY DEF Inv, EffectsInv
    <3> QED
      BY <1>2, <3>1, <3>2, <3>3, <3>4, <3>5, <3>6 DEF EffectsInv
  <2>7. \A e \in effects : e.id = new.id /\ e.new /\ new.new /\ e.op # "CreateEntity" =>
          e.op = "UpsertByKey" /\ e.thing \notin Live(platform')
    <3> SUFFICES ASSUME NEW e \in effects, e.id = new.id, e.new, new.new, e.op # "CreateEntity"
                 PROVE  e.op = "UpsertByKey" /\ e.thing \notin Live(platform')
      OBVIOUS
    <3>1. e.op = s.req.op /\ Bars(platform, s.req, e.thing)
      BY <2>1 DEF Inv, EffectsInv
    <3>2. s.req.op = "UpsertByKey" /\ ~platform.records[e.thing].live
      BY <3>1, <2>5 DEF Makes
    <3>3. e.thing \in DOMAIN platform.records
      BY <3>1, <3>2 DEF Bars
    <3> QED
      BY <3>1, <3>2, <3>3, <1>0 DEF Grown, Live
  <2>8. \A e, f \in effects : e.new /\ f.new /\ e.id = f.id /\ e.op # "CreateEntity" =>
          e = f \/ (e.op = "UpsertByKey" /\ ~({e.thing, f.thing} \subseteq Live(platform')))
    <3>1. \A i \in DOMAIN platform.records : i \in Live(platform') => i \in Live(platform)
      BY <1>0 DEF Grown, Live
    <3> SUFFICES ASSUME NEW e \in effects, NEW f \in effects, e.new, f.new, e.id = f.id, e.op = "UpsertByKey",
                        ~({e.thing, f.thing} \subseteq Live(platform))
                 PROVE  ~({e.thing, f.thing} \subseteq Live(platform'))
      BY DEF Inv, MadeOnce
    <3>2. e.thing \in DOMAIN platform.records /\ f.thing \in DOMAIN platform.records
      BY DEF Inv, EffectsInv
    <3> QED
      BY <3>1, <3>2
  <2>9. MadeOnce'
    <3> SUFFICES ASSUME NEW e \in effects', NEW f \in effects', e.new, f.new, e.id = f.id, e.op # "CreateEntity", e # f
                 PROVE  e.op = "UpsertByKey" /\ ~({e.thing, f.thing} \subseteq Live(platform'))
      BY DEF MadeOnce
    <3>1. CASE e \in effects /\ f \in effects
      BY <3>1, <2>8
    <3>2. CASE e \in effects /\ f = new
      BY <3>2, <2>7
    <3>3. CASE e = new /\ f \in effects
      <4>1. f.op = e.op
        BY <3>3, <2>1 DEF Inv, EffectsInv
      <4> QED
        BY <4>1, <3>3, <2>7
    <3> QED
      BY <3>1, <3>2, <3>3, <1>2
  <2> QED
    BY <1>0, <2>2, <2>4, <2>6, <2>9
<1> QED
  BY <1>1, <1>2 DEF Processes

-----------------------------------------------------------------------------
(* What the steps of one client leave.                                     *)

Clientwise == CallInv /\ CallOnce /\ ResultOnce

(* The call goes on: as somebody who knows of every attempt what it did,   *)
(* or unsure for the rest.                                                 *)
LEMMA CallMoves ==
  ASSUME Inv, NEW c \in Clients, call[c] # None, NEW k,
         call' = [call EXCEPT ![c] = k], result' = result, program' = program,
         k = [n |-> call[c].n, req |-> call[c].req, attempt |-> k.attempt, pc |-> k.pc,
              answer |-> k.answer, unsure |-> k.unsure],
         k.pc \in {"sent", "waiting", "answered"}, k.unsure \in BOOLEAN,
         late' \subseteq late \cup {Sent(c)}, \A e \in effects' : e \in effects \/ e.id = Id(c),
         ~k.unsure => /\ late' \subseteq late /\ ~call[c].unsure
                      /\ \A e, f \in effects' : e.id = Id(c) /\ f.id = Id(c) => e = f
                      /\ Fruitless(k) => \A e \in effects' : e.id # Id(c)
  PROVE  Clientwise' /\ PendingFrom
<1>1. /\ call'[c] = k /\ k.n = call[c].n /\ k.req = call[c].req
      /\ \A d \in Clients \ {c} : call'[d] = call[d]
      /\ call' = [d \in Clients |-> call'[d]]
  BY DEF Inv, CallInv
<1>2. \A d \in Clients : Id(d)' = Id(d) /\ Id(d).by = d /\ Id(d).n = call[d].n
  BY <1>1 DEF Id
<1>3. CallInv'
  BY <1>1 DEF Inv, CallInv
<1>4. PendingFrom
  <2>1. late' \subseteq Pending
    BY DEF Pending
  <2>2. \A d \in Clients : call'[d] # None =>
          call[d] # None /\ call'[d].n = call[d].n /\ call'[d].req = call[d].req
    BY <1>1
  <2> QED
    BY <2>1, <2>2, StillPending
<1>5. CallOnce'
  <2> SUFFICES ASSUME NEW d \in Clients, call'[d] # None, ~call'[d].unsure
               PROVE  /\ Arrived(Id(d))' /\ Once(Id(d))'
                      /\ Fruitless(call'[d]) => Undone(Id(d))'
    BY DEF CallOnce
  <2>1. CASE d = c
    <3>1. ~call[c].unsure /\ late' \subseteq late
      BY <2>1, <1>1
    <3>2. Arrived(Id(c))'
      BY <3>1, <1>2 DEF Inv, CallOnce, Arrived
    <3> QED
      BY <2>1, <3>2, <1>1, <1>2 DEF Once, Undone
  <2>2. CASE d # c
    <3>1. Id(d) # Id(c) /\ Sent(c).id = Id(c)
      BY <2>2, <1>2 DEF Sent
    <3>2. /\ Arrived(Id(d)) /\ Once(Id(d))
          /\ Fruitless(call[d]) => Undone(Id(d))
      BY <2>2, <1>1 DEF Inv, CallOnce
    <3>3. Arrived(Id(d))'
      BY <3>1, <3>2, <1>2 DEF Arrived
    <3>4. Once(Id(d))'
      BY <3>1, <3>2, <1>2 DEF Once
    <3>5. Undone(Id(d)) => Undone(Id(d))'
      BY <3>1, <1>2 DEF Undone
    <3> QED
      BY <2>2, <3>2, <3>3, <3>4, <3>5, <1>1
  <2> QED
    BY <2>1, <2>2
<1>6. ResultOnce'
  <2>1. result' = [d \in Clients |-> result'[d]]
    BY DEF Inv, ResultOnce
  <2> SUFFICES ASSUME NEW d \in Clients, result'[d] # None
               PROVE  /\ Past(result[d].id)' /\ result'[d].id.by = d
                      /\ call'[d] # None => call'[d].n < result'[d].id.n
                      /\ ~result'[d].unsure => Arrived(result[d].id)' /\ Once(result[d].id)'
    BY <2>1 DEF ResultOnce
  <2> DEFINE id == result[d].id
  <2>2. result'[d] = result[d]
    OBVIOUS
  <2>3. /\ Past(id) /\ id.by = d
        /\ call[d] # None => call[d].n < id.n
        /\ ~result[d].unsure => Arrived(id) /\ Once(id)
    BY <2>2 DEF Inv, ResultOnce
  <2>4. Past(id)'
    BY <2>2, <2>3 DEF Past
  <2>5. id # Id(c) /\ Sent(c).id = Id(c)
    <3>1. Id(c).n = call[c].n /\ Id(c).by = c /\ Sent(c).id = Id(c)
      BY <1>2 DEF Sent
    <3>2. Id(c).n \in Nat
      <4>1. Sent(c) \in Pending
        BY DEF Pending
      <4> QED
        BY <4>1, <3>1 DEF Inv, PendingInv, Past
    <3>3. id.n \in Nat
      BY <2>3 DEF Past
    <3>4. id.by = c => Id(c).n < id.n
      BY <2>3, <3>1
    <3> QED
      BY <3>1, <3>2, <3>3, <3>4
  <2>6. ~result[d].unsure => Arrived(result[d].id)' /\ Once(result[d].id)'
    <3> SUFFICES ASSUME ~result[d].unsure
                 PROVE  (\A s \in late' : s.id # id) /\ (\A e, f \in effects' : e.id = id /\ f.id = id => e = f)
      BY <2>2 DEF Arrived, Once
    <3>1. (\A s \in late : s.id # id) /\ (\A e, f \in effects : e.id = id /\ f.id = id => e = f)
      BY <2>3 DEF Arrived, Once
    <3> HIDE DEF id
    <3> QED
      BY <3>1, <2>5
  <2>7. call'[d] # None => call[d] # None /\ call'[d].n = call[d].n
    BY <1>1
  <2> QED
    BY <2>2, <2>3, <2>4, <2>6, <2>7
<1> QED
  BY <1>3, <1>4, <1>5, <1>6 DEF Clientwise

(* The call ends. *)
LEMMA CallReturns ==
  ASSUME Inv, NEW c \in Clients, call[c] # None, NEW told, NEW unsure, Returns(c, told, unsure), program' = program,
         effects' = effects, late' \subseteq late \cup {Sent(c)},
         ~unsure => late' \subseteq late /\ ~call[c].unsure
  PROVE  Clientwise' /\ PendingFrom
<1>1. /\ call'[c] = None
      /\ \A d \in Clients \ {c} : call'[d] = call[d]
      /\ call' = [d \in Clients |-> call'[d]]
  BY DEF Inv, CallInv, Returns
<1>2. /\ result'[c].id = Id(c) /\ result'[c].unsure = unsure
      /\ \A d \in Clients \ {c} : result'[d] = result[d]
      /\ result' = [d \in Clients |-> result'[d]]
  BY DEF Inv, ResultOnce, Returns
<1>3. /\ \A d \in Clients : Id(d).by = d /\ Id(d).n = call[d].n
      /\ \A d \in Clients \ {c} : Id(d)' = Id(d)
      /\ Sent(c).id = Id(c)
  BY <1>1 DEF Id, Sent
<1>4. CallInv'
  BY <1>1 DEF Inv, CallInv
<1>5. PendingFrom
  <2>1. late' \subseteq Pending
    BY DEF Pending
  <2>2. \A d \in Clients : call'[d] # None =>
          call[d] # None /\ call'[d].n = call[d].n /\ call'[d].req = call[d].req
    BY <1>1
  <2> QED
    BY <2>1, <2>2, StillPending
<1>6. CallOnce'
  <2> SUFFICES ASSUME NEW d \in Clients, call'[d] # None, ~call'[d].unsure
               PROVE  /\ Arrived(Id(d))' /\ Once(Id(d))'
                      /\ Fruitless(call'[d]) => Undone(Id(d))'
    BY DEF CallOnce
  <2>1. d # c /\ call'[d] = call[d] /\ Id(d) # Id(c) /\ Id(d)' = Id(d)
    BY <1>1, <1>3
  <2>2. /\ Arrived(Id(d)) /\ Once(Id(d))
        /\ Fruitless(call[d]) => Undone(Id(d))
    BY <2>1 DEF Inv, CallOnce
  <2>3. Arrived(Id(d))'
    BY <2>1, <2>2, <1>3 DEF Arrived
  <2>4. Once(Id(d))'
    BY <2>1, <2>2 DEF Once
  <2>5. Undone(Id(d)) => Undone(Id(d))'
    BY <2>1 DEF Undone
  <2> QED
    BY <2>1, <2>2, <2>3, <2>4, <2>5
<1>7. ResultOnce'
  <2> SUFFICES ASSUME NEW d \in Clients, result'[d] # None
               PROVE  /\ Past(result[d].id)' /\ result'[d].id.by = d
                      /\ call'[d] # None => call'[d].n < result'[d].id.n
                      /\ ~result'[d].unsure => Arrived(result[d].id)' /\ Once(result[d].id)'
    BY <1>2 DEF ResultOnce
  <2>0. Sent(c) \in Pending
    BY DEF Pending
  <2>1. CASE d = c
    <3>1. Past(Id(c))
      BY <2>0, <1>3 DEF Inv, PendingInv
    <3>2. Past(result[c].id)'
      BY <3>1, <1>2 DEF Past
    <3>3. ~unsure => Arrived(Id(c)) /\ Once(Id(c))
      BY DEF Inv, CallOnce
    <3>4. ~unsure => Arrived(result[c].id)' /\ Once(result[c].id)'
      BY <3>3, <1>2 DEF Arrived, Once
    <3> QED
      BY <2>1, <3>2, <3>4, <1>1, <1>2, <1>3
  <2>2. CASE d # c
    <3>1. result'[d] = result[d] /\ call'[d] = call[d]
      BY <2>2, <1>1, <1>2
    <3>2. /\ Past(result[d].id) /\ result[d].id.by = d
          /\ call[d] # None => call[d].n < result[d].id.n
          /\ ~result[d].unsure => Arrived(result[d].id) /\ Once(result[d].id)
      BY <3>1 DEF Inv, ResultOnce
    <3>3. Past(result[d].id)'
      BY <3>1, <3>2 DEF Past
    <3>4. result[d].id # Id(c)
      BY <2>2, <3>2, <1>3
    <3>5. ~result[d].unsure => Arrived(result[d].id)' /\ Once(result[d].id)'
      BY <3>1, <3>2, <3>4, <1>3 DEF Arrived, Once
    <3> QED
      BY <3>1, <3>2, <3>3, <3>5
  <2> QED
    BY <2>1, <2>2
<1> QED
  BY <1>4, <1>5, <1>6, <1>7 DEF Clientwise

-----------------------------------------------------------------------------
(* The steps.                                                              *)

LEMMA QuietStep ==
  ASSUME Inv, Clientwise', PendingFrom, effects' = effects, program' = program, platform' = platform
  PROVE  Inv'
<1>1. Proper(platform') /\ Grown(platform, platform')
  BY GrownSelf DEF Inv
<1>2. ProgramInv' /\ PendingInv' /\ EffectsInv' /\ MadeOnce'
  BY <1>1, NothingDone
<1> QED
  BY <1>1, <1>2 DEF Inv, Clientwise

IsCall(r) ==
  r = [n |-> r.n, req |-> r.req, attempt |-> r.attempt, pc |-> r.pc, answer |-> r.answer, unsure |-> r.unsure]

LEMMA WithPc ==
  ASSUME NEW r, IsCall(r), NEW pc
  PROVE  [r EXCEPT !.pc = pc] =
         [n |-> r.n, req |-> r.req, attempt |-> r.attempt, pc |-> pc, answer |-> r.answer, unsure |-> r.unsure]
BY DEF IsCall

LEMMA WithAnswer ==
  ASSUME NEW r, IsCall(r), NEW answer
  PROVE  [r EXCEPT !.answer = answer] =
         [n |-> r.n, req |-> r.req, attempt |-> r.attempt, pc |-> r.pc, answer |-> answer, unsure |-> r.unsure]
BY DEF IsCall

LEMMA WithUnsure ==
  ASSUME NEW r, IsCall(r), NEW unsure
  PROVE  [r EXCEPT !.unsure = unsure] =
         [n |-> r.n, req |-> r.req, attempt |-> r.attempt, pc |-> r.pc, answer |-> r.answer, unsure |-> unsure]
BY DEF IsCall

LEMMA WithAttempt ==
  ASSUME NEW r, IsCall(r), NEW attempt
  PROVE  [r EXCEPT !.attempt = attempt] =
         [n |-> r.n, req |-> r.req, attempt |-> attempt, pc |-> r.pc, answer |-> r.answer, unsure |-> r.unsure]
BY DEF IsCall

LEMMA WithAnswered ==
  ASSUME NEW r, IsCall(r), NEW pc, NEW answer
  PROVE  [r EXCEPT !.pc = pc, !.answer = answer] =
         [n |-> r.n, req |-> r.req, attempt |-> r.attempt, pc |-> pc, answer |-> answer, unsure |-> r.unsure]
<1> DEFINE q == [r EXCEPT !.pc = pc]
<1>1. [r EXCEPT !.pc = pc, !.answer = answer] = [q EXCEPT !.answer = answer]
  BY DEF IsCall
<1>2. q = [n |-> r.n, req |-> r.req, attempt |-> r.attempt, pc |-> pc, answer |-> r.answer, unsure |-> r.unsure]
  BY WithPc
<1>3. IsCall(q) /\ q.n = r.n /\ q.req = r.req /\ q.attempt = r.attempt /\ q.pc = pc /\ q.answer = r.answer /\ q.unsure = r.unsure
  BY <1>2 DEF IsCall
<1> HIDE DEF q
<1> QED
  BY <1>1, <1>3, WithAnswer

LEMMA WithPause ==
  ASSUME NEW r, IsCall(r), NEW pc, NEW unsure
  PROVE  [r EXCEPT !.pc = pc, !.unsure = unsure] =
         [n |-> r.n, req |-> r.req, attempt |-> r.attempt, pc |-> pc, answer |-> r.answer, unsure |-> unsure]
<1> DEFINE q == [r EXCEPT !.pc = pc]
<1>1. [r EXCEPT !.pc = pc, !.unsure = unsure] = [q EXCEPT !.unsure = unsure]
  BY DEF IsCall
<1>2. q = [n |-> r.n, req |-> r.req, attempt |-> r.attempt, pc |-> pc, answer |-> r.answer, unsure |-> r.unsure]
  BY WithPc
<1>3. IsCall(q) /\ q.n = r.n /\ q.req = r.req /\ q.attempt = r.attempt /\ q.pc = pc /\ q.answer = r.answer /\ q.unsure = r.unsure
  BY <1>2 DEF IsCall
<1> HIDE DEF q
<1> QED
  BY <1>1, <1>3, WithUnsure

LEMMA WithAttempted ==
  ASSUME NEW r, IsCall(r), NEW pc, NEW attempt, NEW answer
  PROVE  [r EXCEPT !.pc = pc, !.attempt = attempt, !.answer = answer] =
         [n |-> r.n, req |-> r.req, attempt |-> attempt, pc |-> pc, answer |-> answer, unsure |-> r.unsure]
<1> DEFINE q == [r EXCEPT !.pc = pc, !.answer = answer]
<1>1. [r EXCEPT !.pc = pc, !.attempt = attempt, !.answer = answer] = [q EXCEPT !.attempt = attempt]
  BY DEF IsCall
<1>2. q = [n |-> r.n, req |-> r.req, attempt |-> r.attempt, pc |-> pc, answer |-> answer, unsure |-> r.unsure]
  BY WithAnswered
<1>3. /\ IsCall(q) /\ q.n = r.n /\ q.req = r.req /\ q.pc = pc /\ q.answer = answer /\ q.unsure = r.unsure
  BY <1>2 DEF IsCall
<1> HIDE DEF q
<1> QED
  BY <1>1, <1>3, WithAttempt

LEMMA CallIs ==
  ASSUME Inv, NEW c \in Clients, call[c] # None
  PROVE  /\ IsCall(call[c])
         /\ call[c].pc \in {"sent", "waiting", "answered"} /\ call[c].unsure \in BOOLEAN
         /\ Sent(c) \in Pending /\ Asks(call[c].req)
<1>1. Sent(c) \in Pending
  BY DEF Pending
<1> QED
  BY <1>1, SentIs DEF Inv, CallInv, PendingInv, IsCall

(* A call whose attempts were all answered, and none of them by the        *)
(* platform but for the last.                                              *)
LEMMA Known ==
  ASSUME Inv, NEW c \in Clients, call[c] # None, ~call[c].unsure
  PROVE  /\ \A e, f \in effects : e.id = Id(c) /\ f.id = Id(c) => e = f
         /\ Fruitless(call[c]) => \A e \in effects : e.id # Id(c)
BY DEF Inv, CallOnce, Once, Undone

LEMMA GivesUp == ASSUME NEW c \in Clients PROVE GivenUp(c) \subseteq late \cup {Sent(c)}
BY DEF GivenUp

LEMMA OverloadedInv == ASSUME Inv, NEW c \in Clients, Overloaded(c) PROVE Inv'
<1> DEFINE a == [status |-> 503, code |-> "none", fields |-> {}, body |-> None]
           k == [n |-> call[c].n, req |-> call[c].req, attempt |-> call[c].attempt, pc |-> "answered",
                 answer |-> a, unsure |-> call[c].unsure]
<1>1. call[c] # None /\ call[c].pc = "sent"
  BY DEF Overloaded
<1>0. call' = [call EXCEPT ![c].pc = "answered", ![c].answer = a]
  BY DEF Overloaded
<1> HIDE DEF a
<1>2. call' = [call EXCEPT ![c] = [call[c] EXCEPT !.pc = "answered", !.answer = a]]
  BY <1>0
<1>3. [call[c] EXCEPT !.pc = "answered", !.answer = a] = k
  BY <1>1, CallIs, WithAnswered
<1>4. /\ k = [n |-> call[c].n, req |-> call[c].req, attempt |-> k.attempt, pc |-> k.pc,
              answer |-> k.answer, unsure |-> k.unsure]
      /\ k.pc = "answered" /\ k.unsure = call[c].unsure
  OBVIOUS
<1> HIDE DEF k
<1>5. Clientwise' /\ PendingFrom
  <2>1. /\ late' \subseteq late \cup {Sent(c)} /\ effects' = effects /\ late' = late
        /\ result' = result /\ program' = program /\ call' = [call EXCEPT ![c] = k]
    BY <1>2, <1>3 DEF Overloaded, projectVars
  <2>2. call[c].unsure \in BOOLEAN
    BY <1>1, CallIs
  <2>3. ~call[c].unsure => /\ \A e, f \in effects : e.id = Id(c) /\ f.id = Id(c) => e = f
                           /\ \A e \in effects : e.id # Id(c)
    BY <1>1, Known DEF Fruitless
  <2> HIDE DEF k
  <2> QED
    BY <1>1, <1>4, <2>1, <2>2, <2>3, CallMoves
<1> QED
  BY <1>5, QuietStep DEF Overloaded, projectVars

LEMMA WakesInv == ASSUME Inv, NEW c \in Clients, Wakes(c) PROVE Inv'
<1> DEFINE next == call[c].attempt + 1
           k == [n |-> call[c].n, req |-> call[c].req, attempt |-> next, pc |-> "sent",
                 answer |-> None, unsure |-> call[c].unsure]
<1>1. call[c] # None /\ call[c].pc = "waiting"
  BY DEF Wakes
<1>2. call' = [call EXCEPT ![c] = [call[c] EXCEPT !.pc = "sent", !.attempt = next, !.answer = None]]
  BY DEF Wakes
<1> HIDE DEF next
<1>3. [call[c] EXCEPT !.pc = "sent", !.attempt = next, !.answer = None] = k
  <2>1. IsCall(call[c])
    BY <1>1, CallIs
  <2> QED
    BY <2>1, WithAttempted
<1>4. /\ k = [n |-> call[c].n, req |-> call[c].req, attempt |-> k.attempt, pc |-> k.pc,
              answer |-> k.answer, unsure |-> k.unsure]
      /\ k.pc = "sent" /\ k.unsure = call[c].unsure
  OBVIOUS
<1> HIDE DEF k
<1>5. Clientwise' /\ PendingFrom
  <2>1. /\ late' \subseteq late \cup {Sent(c)} /\ effects' = effects /\ late' = late
        /\ result' = result /\ program' = program /\ call' = [call EXCEPT ![c] = k]
    BY <1>2, <1>3 DEF Wakes, projectVars
  <2>2. call[c].unsure \in BOOLEAN
    BY <1>1, CallIs
  <2>3. ~call[c].unsure => /\ \A e, f \in effects : e.id = Id(c) /\ f.id = Id(c) => e = f
                           /\ \A e \in effects : e.id # Id(c)
    BY <1>1, Known DEF Fruitless
  <2> HIDE DEF k
  <2> QED
    BY <1>1, <1>4, <2>1, <2>2, <2>3, CallMoves
<1> QED
  BY <1>5, QuietStep DEF Wakes, projectVars

(* The end of an attempt: a pause, or the end of the call. *)
LEMMA RetriesOrReturns ==
  ASSUME Inv, NEW c \in Clients, call[c] # None, NEW told, NEW unsure \in BOOLEAN, RetriesOr(c, told, unsure),
         program' = program, effects' = effects, platform' = platform, late' \subseteq late \cup {Sent(c)},
         ~unsure => late' \subseteq late /\ ~call[c].unsure /\ Fruitless(call[c])
  PROVE  Inv'
<1> DEFINE k == [n |-> call[c].n, req |-> call[c].req, attempt |-> call[c].attempt, pc |-> "waiting",
                 answer |-> call[c].answer, unsure |-> unsure]
<1>1. CASE call[c].attempt < Retries
  <2>1. call' = [call EXCEPT ![c] = [call[c] EXCEPT !.pc = "waiting", !.unsure = unsure]] /\ result' = result
    BY <1>1 DEF RetriesOr
  <2>2. [call[c] EXCEPT !.pc = "waiting", !.unsure = unsure] = k
    BY CallIs, WithPause
  <2>3. ~unsure => /\ \A e, f \in effects : e.id = Id(c) /\ f.id = Id(c) => e = f
                   /\ \A e \in effects : e.id # Id(c)
    BY Known
  <2>4. /\ k = [n |-> call[c].n, req |-> call[c].req, attempt |-> k.attempt, pc |-> k.pc,
                answer |-> k.answer, unsure |-> k.unsure]
        /\ k.pc = "waiting" /\ k.unsure = unsure
    OBVIOUS
  <2>5. call' = [call EXCEPT ![c] = k] /\ result' = result
    BY <2>1, <2>2
  <2> HIDE DEF k
  <2>6. Clientwise' /\ PendingFrom
    BY <2>3, <2>4, <2>5, CallMoves
  <2> QED
    BY <2>6, QuietStep
<1>2. CASE ~(call[c].attempt < Retries)
  BY <1>2, CallReturns, QuietStep DEF RetriesOr
<1> QED
  BY <1>1, <1>2

LEMMA FailsInv == ASSUME Inv, NEW c \in Clients, Fails(c) PROVE Inv'
BY RetriesOrReturns, GivesUp DEF Fails

LEMMA ToldToWaitInv == ASSUME Inv, NEW c \in Clients, ToldToWait(c) PROVE Inv'
<1>1. Fruitless(call[c])
  BY DEF ToldToWait, Retryable, Fruitless
<1> QED
  BY <1>1, RetriesOrReturns, CallIs DEF ToldToWait, projectVars

LEMMA CancelledInv == ASSUME Inv, NEW c \in Clients, Cancelled(c) PROVE Inv'
<1> DEFINE u == call[c].pc # "waiting" \/ call[c].unsure
<1>1. call[c] # None /\ Returns(c, Failure, u) /\ late' \subseteq late \cup {Sent(c)}
  BY GivesUp DEF Cancelled
<1>2. ~u => late' \subseteq late /\ ~call[c].unsure
  BY DEF Cancelled, GivenUp
<1> HIDE DEF u
<1> QED
  BY <1>1, <1>2, CallReturns, QuietStep DEF Cancelled

LEMMA AnsweredInv == ASSUME Inv, NEW c \in Clients, Answered(c) \/ BodyLost(c) PROVE Inv'
<1>1. CASE Answered(c)
  BY <1>1, CallReturns, QuietStep DEF Answered, projectVars
<1>2. CASE BodyLost(c)
  BY <1>2, CallReturns, QuietStep DEF BodyLost, projectVars
<1> QED
  BY <1>1, <1>2

LEMMA ArrivesInv == ASSUME Inv, NEW c \in Clients, Arrives(c) PROVE Inv'
<1>1. call[c] # None /\ call[c].pc = "sent"
  BY DEF Arrives
<1>2. PICK race : LET h == Handled(Sent(c), race) IN
        Processes(Sent(c), h) /\ call' = [call EXCEPT ![c].pc = "answered", ![c].answer = h.answer]
  BY DEF Arrives
<1> DEFINE h == Handled(Sent(c), race)
           k == [n |-> call[c].n, req |-> call[c].req, attempt |-> call[c].attempt, pc |-> "answered",
                 answer |-> h.answer, unsure |-> call[c].unsure]
<1>3. Sound(platform, Sent(c).req, h)
  BY <1>1, CallIs, SentIs, Handling DEF Handled, Inv
<1>4. Processes(Sent(c), h) /\ call' = [call EXCEPT ![c] = [call[c] EXCEPT !.pc = "answered", !.answer = h.answer]]
  BY <1>2
<1> HIDE DEF h
<1>5. [call[c] EXCEPT !.pc = "answered", !.answer = h.answer] = k
  BY <1>1, CallIs, WithAnswered
<1>6. effects' = effects \/ effects' = effects \cup {Effect(Sent(c), h)}
  BY <1>4 DEF Processes
<1>7. Effect(Sent(c), h).id = Id(c)
  BY SentIs DEF Effect
<1>8. /\ k = [n |-> call[c].n, req |-> call[c].req, attempt |-> k.attempt, pc |-> k.pc,
              answer |-> k.answer, unsure |-> k.unsure]
      /\ k.pc = "answered" /\ k.unsure = call[c].unsure /\ k.answer = h.answer /\ k.req = Sent(c).req
  BY SentIs
<1> HIDE DEF k
<1>9. ~call[c].unsure => /\ \A e, f \in effects' : e.id = Id(c) /\ f.id = Id(c) => e = f
                         /\ Fruitless(k) => \A e \in effects' : e.id # Id(c)
  <2>1. ~call[c].unsure => \A e \in effects : e.id # Id(c)
    BY <1>1, Known DEF Fruitless
  <2>2. Fruitless(k) => effects' = effects
    BY <1>3, <1>4, <1>8 DEF Fruitless, Sound, Truthful, Processes
  <2> QED
    BY <1>6, <1>7, <2>1, <2>2
<1>10. Clientwise' /\ PendingFrom
  <2>1. /\ late' = late /\ result' = result /\ program' = program /\ call' = [call EXCEPT ![c] = k]
    BY <1>4, <1>5 DEF Arrives
  <2>2. \A e \in effects' : e \in effects \/ e.id = Id(c)
    BY <1>6, <1>7
  <2> QED
    BY <1>1, <1>8, <1>9, <2>1, <2>2, CallIs, CallMoves
<1>11. ProgramInv' /\ PendingInv' /\ EffectsInv' /\ MadeOnce' /\ Proper(platform')
  BY <1>1, <1>3, <1>4, <1>10, CallIs, Processed DEF Arrives
<1> QED
  BY <1>10, <1>11 DEF Inv, Clientwise

LEMMA ArrivesLateInv == ASSUME Inv, NEW s \in late, ArrivesLate(s) PROVE Inv'
<1> DEFINE h == Handled(s, FALSE)
<1>1. s \in Pending
  BY DEF Pending
<1>2. Sound(platform, s.req, h)
  BY <1>1, Handling DEF Handled, Inv, PendingInv
<1>3. Processes(s, h) /\ late' = late \ {s} /\ call' = call /\ result' = result /\ program' = program
  BY DEF ArrivesLate, clientVars
<1> HIDE DEF h
<1>4. PendingFrom
  <2>1. late' \subseteq Pending
    BY <1>3 DEF Pending
  <2> QED
    BY <1>3, <2>1, StillPending
<1>5. ProgramInv' /\ PendingInv' /\ EffectsInv' /\ MadeOnce' /\ Proper(platform')
  BY <1>1, <1>2, <1>3, <1>4, Processed
<1>6. \A e \in effects' : e \in effects \/ e.id = s.id
  BY <1>3 DEF Processes, Effect
<1>7. \A id : (\A t \in late : t.id # id) =>
        /\ \A t \in late' : t.id # id
        /\ (\A e, f \in effects : e.id = id /\ f.id = id => e = f) =>
             \A e, f \in effects' : e.id = id /\ f.id = id => e = f
        /\ (\A e \in effects : e.id # id) => \A e \in effects' : e.id # id
  BY <1>3, <1>6
<1>8. \A d \in Clients : Id(d)' = Id(d)
  BY <1>3 DEF Id
<1>9. CallOnce'
  <2> SUFFICES ASSUME NEW d \in Clients, call[d] # None, ~call[d].unsure
               PROVE  /\ Arrived(Id(d))' /\ Once(Id(d))'
                      /\ Fruitless(call[d]) => Undone(Id(d))'
    BY <1>3 DEF CallOnce
  <2>1. /\ \A t \in late : t.id # Id(d)
        /\ \A e, f \in effects : e.id = Id(d) /\ f.id = Id(d) => e = f
        /\ Fruitless(call[d]) => \A e \in effects : e.id # Id(d)
    BY DEF Inv, CallOnce, Arrived, Once, Undone
  <2> QED
    BY <2>1, <1>7, <1>8 DEF Arrived, Once, Undone
<1>10. ResultOnce'
  <2> SUFFICES ASSUME NEW d \in Clients, result[d] # None
               PROVE  /\ Past(result[d].id)' /\ result[d].id.by = d
                      /\ call[d] # None => call[d].n < result[d].id.n
                      /\ ~result[d].unsure => Arrived(result[d].id)' /\ Once(result[d].id)'
    BY <1>3 DEF ResultOnce, Inv
  <2>1. /\ Past(result[d].id) /\ result[d].id.by = d
        /\ call[d] # None => call[d].n < result[d].id.n
        /\ ~result[d].unsure => Arrived(result[d].id) /\ Once(result[d].id)
    BY DEF Inv, ResultOnce
  <2>2. Past(result[d].id)'
    BY <2>1, <1>3 DEF Past
  <2>3. ~result[d].unsure => Arrived(result[d].id)' /\ Once(result[d].id)'
    BY <2>1, <1>3, <1>7 DEF Arrived, Once
  <2> QED
    BY <2>1, <2>2, <2>3
<1>11. CallInv'
  BY <1>3 DEF Inv, CallInv
<1> QED
  BY <1>5, <1>9, <1>10, <1>11 DEF Inv

(* Only the project, or only what is around it, changes. *)
LEMMA SameClients ==
  ASSUME Inv, UNCHANGED <<call, result, program, late, effects>>
  PROVE  Clientwise' /\ PendingFrom
<1>1. \A d \in Clients : Id(d)' = Id(d)
  BY DEF Id
<1>2. \A id : /\ Past(id) => Past(id)'
              /\ Arrived(id) => Arrived(id)'
              /\ Once(id) => Once(id)'
              /\ Undone(id) => Undone(id)'
  BY DEF Past, Arrived, Once, Undone
<1>3. PendingFrom
  BY StillPending DEF Pending
<1>4. CallInv'
  BY DEF Inv, CallInv
<1>5. CallOnce'
  <2> SUFFICES ASSUME NEW d \in Clients, call[d] # None, ~call[d].unsure
               PROVE  /\ Arrived(Id(d))' /\ Once(Id(d))'
                      /\ Fruitless(call[d]) => Undone(Id(d))'
    BY DEF CallOnce
  <2>1. /\ Arrived(Id(d)) /\ Once(Id(d))
        /\ Fruitless(call[d]) => Undone(Id(d))
    BY DEF Inv, CallOnce
  <2> QED
    BY <2>1, <1>1 DEF Arrived, Once, Undone
<1>6. ResultOnce'
  <2> SUFFICES ASSUME NEW d \in Clients, result[d] # None
               PROVE  /\ Past(result[d].id)' /\ result[d].id.by = d
                      /\ call[d] # None => call[d].n < result[d].id.n
                      /\ ~result[d].unsure => Arrived(result[d].id)' /\ Once(result[d].id)'
    BY DEF ResultOnce, Inv
  <2>1. /\ Past(result[d].id) /\ result[d].id.by = d
        /\ call[d] # None => call[d].n < result[d].id.n
        /\ ~result[d].unsure => Arrived(result[d].id) /\ Once(result[d].id)
    BY DEF Inv, ResultOnce
  <2> QED
    BY <2>1 DEF Past, Arrived, Once
<1> QED
  BY <1>3, <1>4, <1>5, <1>6 DEF Clientwise

LEMMA Buried ==
  ASSUME NEW e, e = [tmpl |-> e.tmpl, key |-> e.key, values |-> e.values, metrics |-> e.metrics,
                     hidden |-> e.hidden, live |-> e.live], NEW live
  PROVE  [e EXCEPT !.live = live] =
         [tmpl |-> e.tmpl, key |-> e.key, values |-> e.values, metrics |-> e.metrics,
          hidden |-> e.hidden, live |-> live]
OBVIOUS

LEMMA Deleting ==
  ASSUME NEW p, Proper(p), NEW i \in DOMAIN p.records
  PROVE  LET q == DeleteEntity(p, i) IN
         /\ Proper(q) /\ Grown(p, q)
         /\ SchemaDoc(q) = SchemaDoc(p) /\ q.reads = p.reads /\ q.pending = p.pending
<1> DEFINE old == p.records[i]
           e == [old EXCEPT !.live = FALSE]
           q == DeleteEntity(p, i)
<1>1. q = [p EXCEPT !.records[i] = e]
  BY DEF DeleteEntity
<1>2. /\ IsList(old.metrics)
      /\ old = [tmpl |-> old.tmpl, key |-> old.key, values |-> old.values, metrics |-> old.metrics,
             hidden |-> old.hidden, live |-> old.live]
  BY DEF Proper, IsProject
<1>3. e = [tmpl |-> old.tmpl, key |-> old.key, values |-> old.values, metrics |-> old.metrics,
           hidden |-> old.hidden, live |-> FALSE]
  BY <1>2, Buried
<1> HIDE DEF e, q
<1>4. /\ e.tmpl = old.tmpl /\ e.key = old.key /\ e.live = FALSE
      /\ e = [tmpl |-> e.tmpl, key |-> e.key, values |-> e.values, metrics |-> e.metrics,
              hidden |-> e.hidden, live |-> e.live]
      /\ IsList(e.metrics)
  BY <1>2, <1>3
<1>5. e.live => old.live
  BY <1>4
<1>6. Proper(q) /\ Grown(p, q)
  BY <1>1, <1>4, <1>5, EditedRecord
<1>7. Shaped(p)
  BY Fields DEF Proper
<1>8. q = [p EXCEPT !.records = [p.records EXCEPT ![i] = e]]
  BY <1>1, <1>7 DEF Shaped
<1>9. SchemaDoc(q) = SchemaDoc(p) /\ q.reads = p.reads /\ q.pending = p.pending
  BY <1>7, <1>8, OtherRecords DEF SchemaDoc
<1> QED
  BY <1>6, <1>9 DEF q

LEMMA UserDeletesInv == ASSUME Inv, NEW i, UserDeletes(i) PROVE Inv'
<1>1. i \in DOMAIN platform.records /\ platform' = DeleteEntity(platform, i)
      /\ UNCHANGED <<call, result, program, late, effects>>
  BY DEF UserDeletes, Live, clientVars
<1>2. Proper(platform') /\ Grown(platform, platform')
  BY <1>1, Deleting DEF Inv
<1>3. Clientwise' /\ PendingFrom
  BY <1>1, SameClients
<1>4. ProgramInv' /\ PendingInv' /\ EffectsInv' /\ MadeOnce'
  BY <1>1, <1>2, <1>3, NothingDone
<1> QED
  BY <1>2, <1>3, <1>4 DEF Inv, Clientwise

LEMMA TailIs ==
  ASSUME NEW s, IsList(s), s # <<>>
  PROVE  /\ Len(s) \in Nat /\ Len(s) > 0 /\ Head(s) = s[1] /\ 1 \in DOMAIN s
         /\ Len(Tail(s)) = Len(s) - 1 /\ DOMAIN Tail(s) = 1 .. Len(s) - 1
         /\ IsList(Tail(s))
         /\ \A k \in DOMAIN Tail(s) : k + 1 \in DOMAIN s /\ Tail(s)[k] = s[k + 1]
<1> DEFINE S == {s[k] : k \in DOMAIN s}
           t == Tail(s)
<1>1. Len(s) \in Nat \ {0} /\ DOMAIN s = 1 .. Len(s) /\ s \in Seq(S)
  BY EmptySeq, LenProperties DEF IsList
<1>2. /\ Head(s) = s[1] /\ t \in Seq(S) /\ Len(t) = Len(s) - 1
      /\ \A k \in 1 .. Len(t) : t[k] = s[k + 1]
  BY <1>1, HeadTailProperties
<1>3. DOMAIN t = 1 .. Len(t) /\ t \in [1 .. Len(t) -> S] /\ Len(t) \in Nat
  BY <1>2, LenProperties
<1> HIDE DEF t, S
<1>5. IsList(t)
  BY <1>2, Listed
<1>6. \A k \in DOMAIN t : k + 1 \in DOMAIN s
  BY <1>1, <1>2, <1>3
<1>7. Len(s) > 0 /\ 1 \in DOMAIN s /\ DOMAIN t = 1 .. Len(s) - 1
  BY <1>1, <1>2, <1>3
<1>8. \A k \in DOMAIN t : t[k] = s[k + 1]
  BY <1>2, <1>3
<1> QED
  BY <1>1, <1>2, <1>5, <1>6, <1>7, <1>8 DEF t

LEMMA Rested ==
  ASSUME NEW p, p = [cred |-> p.cred, left |-> p.left], NEW rest
  PROVE  [p EXCEPT !.left = rest] = [cred |-> p.cred, left |-> rest]
OBVIOUS

LEMMA BeginsInv == ASSUME Inv, NEW c \in Clients, Begins(c) PROVE Inv'
<1> DEFINE left == program[c].left
           k == [n |-> Len(left), req |-> Head(left), attempt |-> 0, pc |-> "sent", answer |-> None, unsure |-> FALSE]
<1>1. /\ call[c] = None /\ left # <<>> /\ call' = [call EXCEPT ![c] = k]
      /\ program' = [program EXCEPT ![c].left = Tail(left)]
      /\ UNCHANGED <<result, platform, late, effects>>
  BY DEF Begins, projectVars
<1>2. /\ Len(left) \in Nat /\ Len(left) > 0 /\ Head(left) = left[1] /\ 1 \in DOMAIN left
      /\ Len(Tail(left)) = Len(left) - 1
      /\ IsList(Tail(left))
      /\ \A j \in DOMAIN Tail(left) : j + 1 \in DOMAIN left /\ Tail(left)[j] = left[j + 1]
  <2>1. IsList(left) /\ left # <<>>
    BY <1>1 DEF Inv, ProgramInv
  <2> HIDE DEF left
  <2> QED
    BY <2>1, TailIs
<1>3. Asks(Head(left)) /\ \A j \in DOMAIN Tail(left) : Asks(Tail(left)[j])
  BY <1>2 DEF Inv, ProgramInv
<1>4. /\ program'[c] = [cred |-> program[c].cred, left |-> Tail(left)]
      /\ program'[c].left = Tail(left) /\ program'[c] = [cred |-> program'[c].cred, left |-> program'[c].left]
      /\ \A d \in Clients \ {c} : program'[d] = program[d]
      /\ program' = [d \in Clients |-> program'[d]]
  <2>1. /\ program = [d \in Clients |-> program[d]]
        /\ program[c] = [cred |-> program[c].cred, left |-> program[c].left]
    BY DEF Inv, ProgramInv
  <2> DEFINE rest == Tail(left)
  <2>2. program' = [program EXCEPT ![c].left = rest]
    BY <1>1
  <2> HIDE DEF rest
  <2>3. /\ program'[c] = [program[c] EXCEPT !.left = rest]
        /\ \A d \in Clients \ {c} : program'[d] = program[d]
        /\ program' = [d \in Clients |-> program'[d]]
    BY <2>1, <2>2
  <2>4. program'[c] = [cred |-> program[c].cred, left |-> rest]
    BY <2>1, <2>3, Rested
  <2>5. program'[c].left = rest /\ program'[c] = [cred |-> program'[c].cred, left |-> program'[c].left]
    BY <2>4
  <2> QED
    BY <2>3, <2>4, <2>5 DEF rest
<1>5. /\ call'[c] = k /\ k.n = Len(left) /\ k.req = Head(left) /\ k.pc = "sent" /\ k.unsure = FALSE
      /\ k = [n |-> k.n, req |-> k.req, attempt |-> k.attempt, pc |-> k.pc, answer |-> k.answer, unsure |-> k.unsure]
      /\ \A d \in Clients \ {c} : call'[d] = call[d]
      /\ call' = [d \in Clients |-> call'[d]]
  BY <1>1 DEF Inv, CallInv
<1> DEFINE rest == Tail(left)
<1>6. Len(rest) = Len(left) - 1
  BY <1>2
<1> HIDE DEF k
<1>7. ProgramInv'
  <2> SUFFICES ASSUME NEW d \in Clients
               PROVE  /\ program'[d] = [cred |-> program'[d].cred, left |-> program'[d].left]
                      /\ IsList(program'[d].left)
                      /\ \A j \in DOMAIN program'[d].left : Asks(program'[d].left[j])
    BY <1>4 DEF ProgramInv
  <2>1. CASE d = c
    <3>1. /\ program'[c].left = Tail(left)
          /\ program'[c] = [cred |-> program'[c].cred, left |-> program'[c].left]
      BY <1>4
    <3>2. /\ IsList(Tail(left))
          /\ \A j \in DOMAIN Tail(left) : Asks(Tail(left)[j])
      BY <1>2, <1>3
    <3> QED
      BY <2>1, <3>1, <3>2
  <2>2. CASE d # c
    <3>1. program'[d] = program[d]
      BY <2>2, <1>4
    <3>2. /\ program[d] = [cred |-> program[d].cred, left |-> program[d].left]
          /\ IsList(program[d].left)
          /\ \A j \in DOMAIN program[d].left : Asks(program[d].left[j])
      BY DEF Inv, ProgramInv
    <3> QED
      BY <3>1, <3>2
  <2> QED
    BY <2>1, <2>2
<1>8. \A id : Past(id) => Past(id)' /\ (id.by = c => id.n > Len(left))
  <2> SUFFICES ASSUME NEW id, Past(id) PROVE Past(id)' /\ (id.by = c => id.n > Len(left))
    OBVIOUS
  <2>1. id.n \in Nat /\ id.by \in Clients /\ id = [by |-> id.by, n |-> id.n] /\ id.n > Len(program[id.by].left)
    BY DEF Past
  <2>2. CASE id.by = c
    <3>1. id.n > Len(left) /\ program'[id.by].left = rest
      BY <2>1, <2>2, <1>4
    <3> HIDE DEF left, rest
    <3>2. id.n > Len(rest)
      BY <3>1, <1>2, <1>6, <2>1
    <3> QED
      BY <2>1, <3>1, <3>2 DEF Past
  <2>3. CASE id.by # c
    BY <2>1, <2>3, <1>4 DEF Past
  <2> QED
    BY <2>2, <2>3
<1>9. \A id : Past(id) => id # Id(c)'
  <2>1. Id(c)'.by = c /\ Id(c)'.n = Len(left)
    BY <1>5 DEF Id
  <2> QED
    BY <1>2, <1>8, <2>1 DEF Past
<1>10. /\ Sent(c)'.id = Id(c)' /\ Sent(c)'.req = Head(left) /\ Past(Id(c))'
       /\ \A d \in Clients \ {c} : Id(d)' = Id(d)
  <2>1. Sent(c)'.id = Id(c)' /\ Sent(c)'.req = Head(left) /\ Id(c)' = [by |-> c, n |-> Len(left)]
    BY <1>5 DEF Id, Sent
  <2>2. Len(program'[c].left) = Len(left) - 1
    BY <1>4, <1>6
  <2> DEFINE m == Len(program'[c].left)
             l == Len(left)
  <2>4. m = l - 1 /\ l \in Nat
    BY <2>2, <1>2
  <2> HIDE DEF m, l
  <2>5. l > m
    BY <2>4
  <2>3. Len(left) > Len(program'[c].left)
    BY <2>5 DEF m, l
  <2> QED
    BY <2>1, <2>3, <1>2, <1>5 DEF Past, Id
<1>11. \A t \in Pending' : t = Sent(c)' \/ \E s \in Pending : s.id = t.id /\ s.req = t.req
  <2> SUFFICES ASSUME NEW t \in Pending', t # Sent(c)' PROVE \E s \in Pending : s.id = t.id /\ s.req = t.req
    OBVIOUS
  <2>1. CASE t \in late'
    BY <2>1, <1>1 DEF Pending
  <2>2. CASE t \notin late'
    <3>1. PICK d \in Clients : call'[d] # None /\ t = Sent(d)'
      BY <2>2 DEF Pending
    <3>2. d # c /\ call[d] = call'[d]
      BY <3>1, <1>5
    <3>3. Sent(d) \in Pending /\ Sent(d).id = t.id /\ Sent(d).req = t.req
      BY <3>1, <3>2, <1>10, SentIs DEF Pending
    <3> QED
      BY <3>3
  <2> QED
    BY <2>1, <2>2
<1>12. PendingInv'
  <2>1. \A t \in Pending' : Past(t.id)' /\ Asks(t.req)
    BY <1>3, <1>8, <1>10, <1>11 DEF Inv, PendingInv
  <2>2. ASSUME NEW s \in Pending', NEW t \in Pending', s.id = t.id PROVE s.req = t.req
    <3>1. \A x \in Pending : x.id # Id(c)'
      BY <1>9 DEF Inv, PendingInv
    <3>2. CASE s = Sent(c)'
      BY <2>2, <3>1, <3>2, <1>10, <1>11
    <3>3. CASE t = Sent(c)'
      BY <2>2, <3>1, <3>3, <1>10, <1>11
    <3>4. CASE s # Sent(c)' /\ t # Sent(c)'
      BY <2>2, <3>4, <1>11 DEF Inv, PendingInv
    <3> QED
      BY <3>2, <3>3, <3>4
  <2> QED
    BY <2>1, <2>2 DEF PendingInv
<1>13. EffectsInv'
  <2>1. \A e \in effects : Past(e.id)' /\ (e.new /\ e.op = "UpsertByKey" => e.thing \in DOMAIN platform.records)
    BY <1>8 DEF Inv, EffectsInv
  <2>2. \A e \in effects : e.id # Id(c)'
    BY <1>9 DEF Inv, EffectsInv
  <2>3. \A e \in effects, t \in Pending' :
          e.id = t.id => e.op = t.req.op /\ (e.new => Bars(platform, t.req, e.thing))
    BY <2>2, <1>10, <1>11 DEF Inv, EffectsInv
  <2>4. \A e, f \in effects : e.id = f.id => e.op = f.op
    BY DEF Inv, EffectsInv
  <2> QED
    BY <1>1, <2>1, <2>3, <2>4 DEF EffectsInv
<1>14. MadeOnce' /\ Proper(platform')
  BY <1>1 DEF Inv, MadeOnce
<1>15. CallInv'
  BY <1>5 DEF Inv, CallInv
<1>16. \A id : /\ Arrived(id) => Arrived(id)'
               /\ Once(id) => Once(id)'
               /\ Undone(id) => Undone(id)'
  BY <1>1 DEF Arrived, Once, Undone
<1>17. CallOnce'
  <2> SUFFICES ASSUME NEW d \in Clients, call'[d] # None, ~call'[d].unsure
               PROVE  /\ Arrived(Id(d))' /\ Once(Id(d))'
                      /\ Fruitless(call'[d]) => Undone(Id(d))'
    BY DEF CallOnce
  <2>1. CASE d = c
    <3>1. (\A s \in late : s.id # Id(c)') /\ (\A e \in effects : e.id # Id(c)')
      BY <1>9 DEF Inv, PendingInv, EffectsInv, Pending
    <3> QED
      BY <2>1, <3>1, <1>1 DEF Arrived, Once, Undone
  <2>2. CASE d # c
    <3>1. /\ Arrived(Id(d)) /\ Once(Id(d))
          /\ Fruitless(call[d]) => Undone(Id(d))
      BY <2>2, <1>5 DEF Inv, CallOnce
    <3> QED
      BY <2>2, <3>1, <1>1, <1>5, <1>10 DEF Arrived, Once, Undone
  <2> QED
    BY <2>1, <2>2
<1>18. ResultOnce'
  <2> SUFFICES ASSUME NEW d \in Clients, result[d] # None
               PROVE  /\ Past(result[d].id)' /\ result[d].id.by = d
                      /\ call'[d] # None => call'[d].n < result[d].id.n
                      /\ ~result[d].unsure => Arrived(result[d].id)' /\ Once(result[d].id)'
    BY <1>1 DEF ResultOnce, Inv
  <2>1. /\ Past(result[d].id) /\ result[d].id.by = d
        /\ call[d] # None => call[d].n < result[d].id.n
        /\ ~result[d].unsure => Arrived(result[d].id) /\ Once(result[d].id)
    BY DEF Inv, ResultOnce
  <2>2. Past(result[d].id)'
    <3>1. \A id : Past(id) => Past(id)'
      BY <1>8
    <3>2. result' = result
      BY <1>1
    <3> QED
      BY <2>1, <3>2, <1>8 DEF Past
  <2>3. ~result[d].unsure => Arrived(result[d].id)' /\ Once(result[d].id)'
    BY <2>1, <1>1 DEF Arrived, Once
  <2>4. call'[d] # None => call'[d].n < result[d].id.n
    <3>1. CASE d = c
      <4>1. result[d].id.n > Len(left) /\ result[d].id.n \in Nat
        BY <2>1, <3>1, <1>8 DEF Past
      <4>2. call'[d].n = Len(left)
        BY <3>1, <1>5
      <4> HIDE DEF left
      <4> QED
        BY <4>1, <4>2, <1>2
    <3>2. CASE d # c
      BY <3>2, <2>1, <1>5
    <3> QED
      BY <3>1, <3>2
  <2> QED
    BY <2>1, <2>2, <2>3, <2>4
<1> QED
  BY <1>7, <1>12, <1>13, <1>14, <1>15, <1>17, <1>18 DEF Inv

LEMMA NextInv == Inv /\ [Next]_vars => Inv'
<1> SUFFICES ASSUME Inv, [Next]_vars PROVE Inv'
  OBVIOUS
<1>1. ASSUME NEW c \in Clients, Begins(c) \/ Proceeds(c) PROVE Inv'
  BY <1>1, BeginsInv, ArrivesInv, OverloadedInv, FailsInv, CancelledInv, ToldToWaitInv, WakesInv, AnsweredInv
     DEF Proceeds
<1>2. CASE Stops
  BY <1>2, SameClients, QuietStep DEF Stops, clientVars, projectVars
<1>3. CASE UNCHANGED vars
  BY <1>3, SameClients, QuietStep DEF vars, clientVars, projectVars
<1> QED
  BY <1>1, <1>2, <1>3, ArrivesLateInv, UserDeletesInv DEF Next

-----------------------------------------------------------------------------
(* The transport repeats every request whose attempt fails, writes too     *)
(* (transport.go:63-109), and the request given up may arrive after the    *)
(* retry: still a call makes at most one thing that is not deleted         *)
(* meanwhile, a key has one holder, and a call whose attempts were all     *)
(* answered has had at most one effect.                                    *)
THEOREM RepeatsDoNoHarm == Spec => []RetriesHarmless
<1>1. Inv => RetriesHarmless
  <2> SUFFICES ASSUME Inv PROVE RetriesHarmless
    OBVIOUS
  <2>1. \A id : Once(id) => Cardinality(EffectsOf(id)) <= 1
    <3> SUFFICES ASSUME NEW id, Once(id) PROVE Cardinality(EffectsOf(id)) <= 1
      OBVIOUS
    <3>1. CASE EffectsOf(id) = {}
      BY <3>1, FS_EmptySet
    <3>2. CASE EffectsOf(id) # {}
      <4>1. PICK e : EffectsOf(id) = {e}
        BY <3>2 DEF EffectsOf, Once
      <4> QED
        BY <4>1, FS_Singleton
    <3> QED
      BY <3>1, <3>2
  <2>2. KeysHeldOnce(platform)
    BY DEF Inv, Proper
  <2> QED
    BY <2>1, <2>2 DEF Inv, MadeOnce, CallOnce, ResultOnce, RetriesHarmless
<1> QED
  BY <1>1, InitInv, NextInv, PTL DEF Spec

-----------------------------------------------------------------------------
(* What a caller is told.                                                  *)

(* An answer on its way to the caller: what it says was done is done, what *)
(* it says exists is there.                                                *)
AnswerInv ==
  \A c \in Clients :
    call[c] # None /\ call[c].pc = "answered" =>
      /\ call[c].answer.status \in 200 .. 299 /\ call[c].req.op \in Creates \cup {"IngestMetrics"} => ~Undone(Id(c))
      /\ AlreadyExists(call[c].answer) /\ call[c].req.op \in Creates =>
           call[c].req.op # "CreateEntity" /\ Bars(platform, call[c].req, call[c].answer.body)

(* Nothing that was done is undone. *)
LEMMA Onward ==
  ASSUME Inv, [Next]_vars
  PROVE  effects \subseteq effects' /\ Grown(platform, platform')
<1>1. ASSUME platform' = platform, effects' = effects PROVE effects \subseteq effects' /\ Grown(platform, platform')
  BY <1>1, GrownSelf
<1>2. ASSUME NEW s \in Pending, NEW h, Sound(platform, s.req, h), Processes(s, h)
      PROVE  effects \subseteq effects' /\ Grown(platform, platform')
  BY <1>2 DEF Processes, Sound
<1>3. ASSUME NEW c \in Clients, Arrives(c) PROVE effects \subseteq effects' /\ Grown(platform, platform')
  <2>1. PICK race : Processes(Sent(c), Handled(Sent(c), race))
    BY <1>3 DEF Arrives
  <2>2. Sound(platform, Sent(c).req, Handled(Sent(c), race))
    BY <1>3, CallIs, SentIs, Handling DEF Handled, Inv, Arrives
  <2> QED
    BY <1>2, <1>3, <2>1, <2>2, CallIs DEF Arrives
<1>4. ASSUME NEW s \in late, ArrivesLate(s) PROVE effects \subseteq effects' /\ Grown(platform, platform')
  <2>1. s \in Pending
    BY DEF Pending
  <2>2. Sound(platform, s.req, Handled(s, FALSE))
    BY <2>1, Handling DEF Handled, Inv, PendingInv
  <2> QED
    BY <1>2, <1>4, <2>1, <2>2 DEF ArrivesLate
<1>5. ASSUME NEW i \in DOMAIN platform.records, UserDeletes(i) PROVE effects \subseteq effects' /\ Grown(platform, platform')
  BY <1>5, Deleting DEF Inv, UserDeletes, Live
<1>6. ASSUME NEW c \in Clients, Begins(c) \/ (Proceeds(c) /\ ~Arrives(c)) PROVE platform' = platform /\ effects' = effects
  BY <1>6 DEF Begins, Proceeds, Overloaded, Fails, Cancelled, ToldToWait, Wakes, Answered, BodyLost, projectVars
<1>7. CASE Stops \/ UNCHANGED vars
  BY <1>1, <1>7 DEF Stops, vars, projectVars
<1> QED
  BY <1>1, <1>3, <1>4, <1>5, <1>6, <1>7 DEF Next

(* Who moves a call, and to where. *)
LEMMA OneMoves ==
  ASSUME Inv, [Next]_vars, NEW c \in Clients
  PROVE  (call'[c] = call[c] /\ result'[c] = result[c]) \/ Begins(c) \/ Proceeds(c)
<1>0. /\ call = [d \in Clients |-> call[d]]
      /\ result = [d \in Clients |-> result[d]]
  BY DEF Inv, CallInv, ResultOnce
<1>1. ASSUME NEW d \in Clients, d # c, Begins(d) \/ Proceeds(d) PROVE call'[c] = call[c] /\ result'[c] = result[c]
  <2>1. CASE Begins(d) \/ Arrives(d) \/ Overloaded(d) \/ Wakes(d)
    BY <1>0, <1>1, <2>1 DEF Begins, Arrives, Overloaded, Wakes
  <2>2. ASSUME NEW told, NEW unsure, Returns(d, told, unsure) PROVE call'[c] = call[c] /\ result'[c] = result[c]
    BY <1>0, <1>1, <2>2 DEF Returns
  <2>3. ASSUME NEW told, NEW unsure, RetriesOr(d, told, unsure) PROVE call'[c] = call[c] /\ result'[c] = result[c]
    BY <1>0, <1>1, <2>2, <2>3 DEF RetriesOr
  <2> QED
    BY <1>1, <2>1, <2>2, <2>3 DEF Proceeds, Fails, Cancelled, ToldToWait, Answered, BodyLost
<1>2. CASE Stops \/ UNCHANGED vars \/ (\E s \in late : ArrivesLate(s)) \/ (\E i \in DOMAIN platform.records : UserDeletes(i))
  BY <1>2 DEF Stops, vars, clientVars, ArrivesLate, UserDeletes
<1> QED
  BY <1>1, <1>2 DEF Next

(* Told, and what: nothing, or the answer. *)
Ending(c) ==
  /\ call[c] # None /\ UNCHANGED <<effects, platform>>
  /\ \E told, unsure :
       /\ Returns(c, told, unsure)
       /\ told # Failure =>
            call[c].pc = "answered" /\ told = Outcome(call[c].req, call[c].answer) /\ unsure = call[c].unsure

LEMMA Proceeding ==
  ASSUME Inv, NEW c \in Clients, Begins(c) \/ Proceeds(c)
  PROVE  \/ result' = result /\ (Begins(c) \/ Arrives(c) \/ Overloaded(c))
         \/ result' = result /\ call'[c].pc # "answered" /\ call'[c].answer \in {None, call[c].answer}
         \/ Ending(c)
<1>0. call = [d \in Clients |-> call[d]]
  BY DEF Inv, CallInv
<1>1. CASE Begins(c) \/ Arrives(c) \/ Overloaded(c)
  BY <1>1 DEF Begins, Arrives, Overloaded
<1>2. CASE Wakes(c)
  <2>1. call[c] # None /\ result' = result
        /\ call' = [call EXCEPT ![c] = [call[c] EXCEPT !.pc = "sent", !.attempt = call[c].attempt + 1, !.answer = None]]
    BY <1>2 DEF Wakes
  <2>2. call'[c] = [call[c] EXCEPT !.pc = "sent", !.attempt = call[c].attempt + 1, !.answer = None]
    BY <1>0, <2>1
  <2>3. call'[c].pc = "sent" /\ call'[c].answer = None
    BY <2>1, <2>2, CallIs DEF IsCall
  <2> QED
    BY <2>1, <2>3
<1>3. ASSUME NEW told, NEW unsure, RetriesOr(c, told, unsure), call[c] # None
      PROVE  \/ Returns(c, told, unsure)
             \/ result' = result /\ call'[c].pc # "answered" /\ call'[c].answer = call[c].answer
  <2>1. CASE call[c].attempt < Retries
    <3>1. result' = result /\ call' = [call EXCEPT ![c] = [call[c] EXCEPT !.pc = "waiting", !.unsure = unsure]]
      BY <1>3, <2>1 DEF RetriesOr
    <3>2. call'[c] = [call[c] EXCEPT !.pc = "waiting", !.unsure = unsure]
      BY <1>0, <3>1
    <3>3. call'[c].pc = "waiting" /\ call'[c].answer = call[c].answer
      BY <1>3, <3>2, CallIs DEF IsCall
    <3> QED
      BY <3>1, <3>3
  <2>2. CASE ~(call[c].attempt < Retries)
    BY <1>3, <2>2 DEF RetriesOr
  <2> QED
    BY <2>1, <2>2
<1>4. CASE Fails(c)
  BY <1>3, <1>4 DEF Fails, Ending
<1>5. CASE Cancelled(c)
  BY <1>5 DEF Cancelled, Ending
<1>6. CASE ToldToWait(c)
  BY <1>3, <1>6 DEF ToldToWait, Ending, projectVars
<1>7. CASE Answered(c) \/ BodyLost(c)
  BY <1>7 DEF Answered, BodyLost, Ending, projectVars
<1> QED
  BY <1>1, <1>2, <1>4, <1>5, <1>6, <1>7 DEF Proceeds

(* What an arriving request is answered. *)
LEMMA Arriving ==
  ASSUME Inv, NEW c \in Clients, Arrives(c)
  PROVE  \E race : LET h == Handled(Sent(c), race) IN
           /\ Sound(platform, call[c].req, h) /\ Processes(Sent(c), h)
           /\ call'[c].answer = h.answer /\ call'[c].req = call[c].req /\ call'[c].n = call[c].n
<1>1. call[c] # None /\ call = [d \in Clients |-> call[d]]
  BY DEF Arrives, Inv, CallInv
<1>2. PICK race : LET h == Handled(Sent(c), race) IN
        Processes(Sent(c), h) /\ call' = [call EXCEPT ![c].pc = "answered", ![c].answer = h.answer]
  BY DEF Arrives
<1> DEFINE h == Handled(Sent(c), race)
<1>3. Sound(platform, Sent(c).req, h) /\ Sent(c).req = call[c].req
  BY <1>1, CallIs, SentIs, Handling DEF Handled, Inv
<1>4. Processes(Sent(c), h) /\ call' = [call EXCEPT ![c] = [call[c] EXCEPT !.pc = "answered", !.answer = h.answer]]
  BY <1>2
<1> HIDE DEF h
<1>5. call'[c] = [call[c] EXCEPT !.pc = "answered", !.answer = h.answer]
  BY <1>1, <1>4
<1>6. call'[c].answer = h.answer /\ call'[c].req = call[c].req /\ call'[c].n = call[c].n
  BY <1>1, <1>5, CallIs DEF IsCall
<1> QED
  BY <1>3, <1>4, <1>6 DEF h

LEMMA AnswerStep == Inv /\ AnswerInv /\ [Next]_vars => AnswerInv'
<1> SUFFICES ASSUME Inv, AnswerInv, [Next]_vars, NEW c \in Clients, call'[c] # None, call'[c].pc = "answered"
             PROVE  /\ call'[c].answer.status \in 200 .. 299 /\ call'[c].req.op \in Creates \cup {"IngestMetrics"} =>
                         ~Undone(Id(c))'
                    /\ AlreadyExists(call'[c].answer) /\ call'[c].req.op \in Creates =>
                         call'[c].req.op # "CreateEntity" /\ Bars(platform', call'[c].req, call'[c].answer.body)
  BY DEF AnswerInv
<1>0. effects \subseteq effects' /\ Grown(platform, platform') /\ call = [d \in Clients |-> call[d]]
  BY Onward DEF Inv, CallInv
<1>1. CASE call'[c] = call[c]
  <2>1. Id(c)' = Id(c)
    BY <1>1 DEF Id
  <2> QED
    BY <1>0, <1>1, <2>1, GrownStays DEF AnswerInv, Undone
<1>2. CASE Begins(c)
  <2>1. call'[c].pc = "sent"
    BY <1>0, <1>2 DEF Begins
  <2> QED
    BY <2>1
<1>3. CASE Arrives(c)
  <2>1. PICK race : LET h == Handled(Sent(c), race) IN
           /\ Sound(platform, call[c].req, h) /\ Processes(Sent(c), h)
           /\ call'[c].answer = h.answer /\ call'[c].req = call[c].req /\ call'[c].n = call[c].n
    BY <1>3, Arriving
  <2> DEFINE h == Handled(Sent(c), race)
  <2>2. /\ Sound(platform, call[c].req, h) /\ Processes(Sent(c), h)
        /\ call'[c].answer = h.answer /\ call'[c].req = call[c].req /\ call'[c].n = call[c].n
    BY <2>1
  <2> HIDE DEF h
  <2>3. Id(c)' = Id(c) /\ Effect(Sent(c), h).id = Id(c)
    BY <2>2, SentIs DEF Id, Effect
  <2>4. Content(h.project) # Content(platform) => ~Undone(Id(c))'
    BY <2>2, <2>3 DEF Processes, Undone
  <2> QED
    BY <2>2, <2>4 DEF Sound, Truthful, Processes
<1>4. CASE Overloaded(c)
  <2> DEFINE a == [status |-> 503, code |-> "none", fields |-> {}, body |-> None]
  <2>1. call[c] # None /\ call' = [call EXCEPT ![c].pc = "answered", ![c].answer = a]
    BY <1>4 DEF Overloaded
  <2>0. a.status = 503
    OBVIOUS
  <2> HIDE DEF a
  <2>2. call'[c] = [call[c] EXCEPT !.pc = "answered", !.answer = a]
    BY <1>0, <2>1
  <2>3. call'[c].answer = a
    BY <2>1, <2>2, CallIs DEF IsCall
  <2> QED
    BY <2>0, <2>3 DEF AlreadyExists
<1>5. CASE Ending(c)
  <2>1. call'[c] = None
    BY <1>0, <1>5 DEF Ending, Returns
  <2> QED
    BY <2>1
<1> QED
  BY <1>1, <1>2, <1>3, <1>4, <1>5, OneMoves, Proceeding

LEMMA OutcomeHonest ==
  ASSUME Inv, AnswerInv, NEW c \in Clients, call[c] # None, NEW told, NEW unsure, Returns(c, told, unsure),
         told # Failure => call[c].pc = "answered" /\ told = Outcome(call[c].req, call[c].answer) /\ unsure = call[c].unsure
  PROVE  Honest(result'[c])
<1> DEFINE a == call[c].answer  r == call[c].req
<1>1. result'[c] = [id |-> Id(c), req |-> r, told |-> told, unsure |-> unsure]
  BY DEF Inv, ResultOnce, Returns
<1>2. /\ result'[c].id = Id(c) /\ result'[c].req = r /\ result'[c].told = told /\ result'[c].unsure = unsure
  BY <1>1
<1>3. CASE told = Failure
  BY <1>2, <1>3 DEF Failure, Told, Honest
<1>4. CASE told # Failure
  <2>0. call[c].pc = "answered" /\ told = Outcome(r, a) /\ unsure = call[c].unsure
    BY <1>4
  <2>1. CASE a.status \in 200 .. 299 /\ Decoded(r, a)
    <3>1. told.kind = "ok" /\ told.is = {}
      BY <2>0, <2>1 DEF Outcome, Told
    <3>2. r.op \in Creates \cup {"IngestMetrics"} => EffectsOf(Id(c)) # {}
      BY <2>0, <2>1 DEF AnswerInv, Undone, EffectsOf
    <3> QED
      BY <1>2, <3>1, <3>2 DEF Honest
  <2>2. CASE ~(a.status \in 200 .. 299 /\ Decoded(r, a)) /\ r.op = "EntityByKey" /\ a.status = 404
    <3>1. told.kind = "ok" /\ told.is = {}
      BY <2>0, <2>2 DEF Outcome, Told
    <3>2. r.op \notin Creates \cup {"IngestMetrics"}
      BY <2>2 DEF Creates
    <3> QED
      BY <1>2, <3>1, <3>2 DEF Honest
  <2>3. CASE ~(a.status \in 200 .. 299 /\ Decoded(r, a)) /\ ~(r.op = "EntityByKey" /\ a.status = 404)
    <3>1. told.kind = "api" /\ told.is = Is(a)
      BY <2>0, <2>3 DEF Outcome, Told
    <3>2. Fruitless(call[c])
      BY <2>3 DEF Fruitless, Decoded, Reads
    <3>3. ~unsure => EffectsOf(Id(c)) = {}
      BY <2>0, <3>2, Known DEF EffectsOf
    <3>4. "exists" \in Is(a) => AlreadyExists(a)
      BY DEF Is
    <3>5. AlreadyExists(a) /\ r.op \in Creates => There(r)
      <4>1. AlreadyExists(a) /\ r.op \in Creates => r.op # "CreateEntity" /\ Bars(platform, r, a.body)
        BY <2>0 DEF AnswerInv
      <4> QED
        BY <4>1 DEF Creates, Bars, There
    <3> QED
      BY <1>2, <3>1, <3>3, <3>4, <3>5 DEF Honest
  <2> QED
    BY <2>1, <2>2, <2>3
<1> QED
  BY <1>3, <1>4

-----------------------------------------------------------------------------
(* What discovery shows.                                                   *)

Still(p, q) == Shaped(q) /\ SchemaDoc(q) = SchemaDoc(p) /\ q.reads = p.reads /\ q.pending = p.pending
Paced(p, q) == q.reads = p.reads /\ q.pending = p.pending

LEMMA Returned ==
  ASSUME NEW p, NEW status, NEW fields, NEW body
  PROVE  LET h == Answer(p, status, fields, body) IN h.project = p /\ h.answer.status = status /\ h.answer.body = body
BY DEF Answer

LEMMA StillSelf == ASSUME NEW p, Shaped(p) PROVE Still(p, p)
BY DEF Still

(* Records are no part of the schema. *)
LEMMA RecordsStill ==
  ASSUME NEW p, Shaped(p), NEW x
  PROVE  Still(p, [p EXCEPT !.records = x]) /\ Still(p, [p EXCEPT !.searches = x])
<1>1. Still(p, [p EXCEPT !.records = x])
  <2> DEFINE q == [p EXCEPT !.records = x]
  <2>1. q = [templates |-> p.templates, attrs |-> p.attrs, binds |-> p.binds, records |-> x,
             reads |-> p.reads, searches |-> p.searches, pending |-> p.pending]
    BY OtherRecords
  <2> HIDE DEF q
  <2>2. Still(p, q)
    BY <2>1 DEF Still, Shaped, SchemaDoc
  <2> QED
    BY <2>2 DEF q
<1>2. Still(p, [p EXCEPT !.searches = x])
  <2> DEFINE q == [p EXCEPT !.searches = x]
  <2>1. q = [templates |-> p.templates, attrs |-> p.attrs, binds |-> p.binds, records |-> p.records,
             reads |-> p.reads, searches |-> x, pending |-> p.pending]
    BY OtherSearches
  <2> HIDE DEF q
  <2>2. Still(p, q)
    BY <2>1 DEF Still, Shaped, SchemaDoc
  <2> QED
    BY <2>2 DEF q
<1> QED
  BY <1>1, <1>2

LEMMA RecordStill ==
  ASSUME NEW p, Shaped(p), NEW i, NEW x
  PROVE  /\ Still(p, [p EXCEPT !.records[i].values = x])
         /\ Still(p, [p EXCEPT !.records[i].metrics = x])
         /\ Still(p, [p EXCEPT !.records[i].key = x])
<1>1. /\ [p EXCEPT !.records[i].values = x] = [p EXCEPT !.records = [p.records EXCEPT ![i].values = x]]
      /\ [p EXCEPT !.records[i].metrics = x] = [p EXCEPT !.records = [p.records EXCEPT ![i].metrics = x]]
      /\ [p EXCEPT !.records[i].key = x] = [p EXCEPT !.records = [p.records EXCEPT ![i].key = x]]
  BY DEF Shaped
<1> QED
  BY <1>1, RecordsStill

LEMMA RecordRequests ==
  ASSUME NEW p, Shaped(p), NEW r, NEW race
  PROVE  /\ Still(p, SearchEntities(p, r).project)
         /\ Still(p, CreateEntity(p, r).project)
         /\ Still(p, EntityByKey(p, r).project)
         /\ Still(p, UpsertByKey(p, r, race).project)
         /\ Still(p, UpdateEntity(p, r).project)
         /\ Still(p, IngestMetrics(p, r).project)
         /\ Still(p, GetEntity(p, r).project)
<1>0. \A q, status, fields, body, what, how :
        /\ Success(q, status, body).project = q /\ Problem(q, status).project = q
        /\ Validation(q, what, how).project = q
  BY Returned DEF Success, Problem, Validation
<1>1. Still(p, SearchEntities(p, r).project)
  <2>1. Still(p, [p EXCEPT !.searches = p.searches + 1])
    BY RecordsStill
  <2>2. SearchEntities(p, r).project \in {p, [p EXCEPT !.searches = p.searches + 1]}
    BY <1>0 DEF SearchEntities
  <2> QED
    BY <2>1, <2>2, StillSelf
<1>2. \A key : Still(p, AddRecord(p, r.tmpl, key, r.values))
  BY RecordsStill DEF AddRecord
<1>3. Still(p, CreateEntity(p, r).project)
  <2> DEFINE misplaced == Misplaced(p, r.tmpl, DOMAIN r.values)
  <2>1. CreateEntity(p, r).project \in {p, AddRecord(p, r.tmpl, NoKey, r.values)}
    <3> HIDE DEF misplaced
    <3>1. CreateEntity(p, r) =
            IF r.tmpl \notin p.templates THEN Problem(p, 404)
            ELSE IF misplaced # {} THEN Validation(p, {CHOOSE a \in misplaced : TRUE}, "unknown")
            ELSE Success(AddRecord(p, r.tmpl, NoKey, r.values), 201, Len(p.records) + 1)
      BY DEF CreateEntity, misplaced
    <3> QED
      BY <1>0, <3>1
  <2> QED
    BY <1>2, <2>1, StillSelf
<1>4. Still(p, EntityByKey(p, r).project)
  BY <1>0, StillSelf DEF EntityByKey
<1>5. Still(p, UpsertByKey(p, r, race).project)
  <2> DEFINE held == LiveByKey(p, r.tmpl, r.key)
             i == CHOOSE h \in held : TRUE
             misplaced == Misplaced(p, r.tmpl, DOMAIN r.values)
             q == [p EXCEPT !.records[i].values = With(p.records[i].values, r.values)]
  <2>1. Still(p, q)
    BY RecordStill
  <2>2. UpsertByKey(p, r, race) =
          IF r.tmpl \notin p.templates THEN Problem(p, 404)
          ELSE IF race THEN Problem(p, 409)
          ELSE IF misplaced # {} THEN Validation(p, {CHOOSE a \in misplaced : TRUE}, "unknown")
          ELSE IF held # {} THEN Success(q, 200, i)
          ELSE Success(AddRecord(p, r.tmpl, r.key, r.values), 201, Len(p.records) + 1)
    BY DEF UpsertByKey
  <2> HIDE DEF held, i, misplaced, q
  <2>3. UpsertByKey(p, r, race).project \in {p, q, AddRecord(p, r.tmpl, r.key, r.values)}
    BY <1>0, <2>2
  <2> QED
    BY <1>2, <2>1, <2>3, StillSelf
<1>6. Still(p, UpdateEntity(p, r).project)
  <2> DEFINE k == Keyed(p, r)
             q == [k EXCEPT !.records[r.id].values = With(k.records[r.id].values, r.values)]
  <2>1. Still(p, k)
    BY RecordStill, StillSelf DEF Keyed
  <2>2. UpdateEntity(p, r).project \in {p, k, q}
    BY <1>0 DEF UpdateEntity
  <2> HIDE DEF k
  <2>3. Shaped(k)
    BY <2>1 DEF Still
  <2>4. Still(k, q)
    BY <2>3, RecordStill
  <2> HIDE DEF q
  <2> QED
    BY <2>1, <2>2, <2>4, StillSelf DEF Still
<1>7. Still(p, IngestMetrics(p, r).project)
  <2> DEFINE q == [p EXCEPT !.records[r.id].metrics = Append(p.records[r.id].metrics, r.attrs)]
  <2>1. Still(p, q)
    BY RecordStill
  <2>2. IngestMetrics(p, r).project \in {p, q}
    BY <1>0 DEF IngestMetrics
  <2> HIDE DEF q
  <2> QED
    BY <2>1, <2>2, StillSelf
<1>8. Still(p, GetEntity(p, r).project)
  BY <1>0, StillSelf DEF GetEntity
<1> QED
  BY <1>1, <1>3, <1>4, <1>5, <1>6, <1>7, <1>8

LEMMA SchemaRequests ==
  ASSUME NEW p, Shaped(p), NEW r
  PROVE  /\ Paced(p, CreateTemplate(p, r).project)
         /\ Paced(p, CreateAttribute(p, r).project)
         /\ Paced(p, CreateItem(p, r).project)
         /\ Paced(p, PatchAttribute(p, r).project)
<1>0. \A q, status, fields, body, what, how :
        /\ Success(q, status, body).project = q /\ Problem(q, status).project = q
        /\ Validation(q, what, how).project = q
  BY Returned DEF Success, Problem, Validation
<1>1. \A x, y : /\ Paced(p, [p EXCEPT !.templates = x])
                /\ Paced(p, [p EXCEPT !.binds = x])
                /\ Paced(p, [p EXCEPT !.attrs = x])
                /\ Paced(p, [p EXCEPT !.attrs = x, !.binds = y])
  BY OtherTemplates, OtherBinds, OtherAttrs, OtherSchema DEF Paced
<1>2. Paced(p, p)
  BY DEF Paced
<1>3. Paced(p, CreateTemplate(p, r).project)
  <2>1. CreateTemplate(p, r).project \in {p, [p EXCEPT !.templates = p.templates \cup {r.slug}]}
    BY <1>0 DEF CreateTemplate
  <2> QED
    BY <1>1, <1>2, <2>1
<1>4. Paced(p, CreateAttribute(p, r).project)
  <2> DEFINE attrs == [a \in DOMAIN p.attrs \cup {r.slug} |->
                       IF a = r.slug THEN [kind |-> r.kind, options |-> {}] ELSE p.attrs[a]]
             binds == p.binds \cup (r.tmpls \X {r.slug})
             q == [p EXCEPT !.attrs = attrs, !.binds = binds]
  <2>1. Paced(p, q)
    <3> HIDE DEF attrs, binds
    <3> QED
      BY <1>1
  <2>2. CreateAttribute(p, r) =
          IF r.slug \in DOMAIN p.attrs THEN Validation(p, {"slug"}, "taken")
          ELSE IF ~(r.tmpls \subseteq p.templates) THEN Validation(p, {"template_ids"}, "unknown")
          ELSE IF IsReference(r) /\ ~(r.target \in p.templates /\ r.display \in DOMAIN p.attrs)
          THEN Validation(p, {"reference_config"}, "needed")
          ELSE Success(q, 201, r.slug)
    BY DEF CreateAttribute
  <2> HIDE DEF q
  <2>3. CreateAttribute(p, r).project \in {p, q}
    BY <1>0, <2>2
  <2> QED
    BY <1>2, <2>1, <2>3
<1>5. Paced(p, CreateItem(p, r).project)
  <2> DEFINE options == p.attrs[r.attr].options \cup {r.value}
             q == [p EXCEPT !.attrs[r.attr].options = options]
             how == "not a list"
  <2>1. q = [p EXCEPT !.attrs = [p.attrs EXCEPT ![r.attr].options = options]]
    OBVIOUS
  <2>2. Paced(p, q)
    BY <1>1, <2>1
  <2>3. CreateItem(p, r) =
          IF r.attr \notin DOMAIN p.attrs THEN Problem(p, 404)
          ELSE IF p.attrs[r.attr].kind # "list" THEN Validation(p, {"attribute"}, how)
          ELSE IF r.value \in p.attrs[r.attr].options THEN Validation(p, {"value"}, "taken")
          ELSE Success(q, 201, r.value)
    BY DEF CreateItem
  <2> HIDE DEF q
  <2> HIDE DEF how
  <2>4. CreateItem(p, r).project \in {p, q}
    BY <1>0, <2>3
  <2> QED
    BY <1>2, <2>2, <2>4
<1>6. Paced(p, PatchAttribute(p, r).project)
  <2> DEFINE binds == {b \in p.binds : b[2] # r.attr} \cup (r.tmpls \X {r.attr})
             q == [p EXCEPT !.binds = binds]
  <2>1. Paced(p, q)
    <3> HIDE DEF binds
    <3> QED
      BY <1>1
  <2>2. PatchAttribute(p, r) =
          IF r.attr \notin DOMAIN p.attrs THEN Problem(p, 404)
          ELSE IF ~(r.tmpls \subseteq p.templates) THEN Validation(p, {"template_ids"}, "unknown")
          ELSE Success(q, 204, None)
    BY DEF PatchAttribute
  <2> HIDE DEF q
  <2>3. PatchAttribute(p, r).project \in {p, q}
    BY <1>0, <2>2
  <2> QED
    BY <1>2, <2>1, <2>3
<1> QED
  BY <1>3, <1>4, <1>5, <1>6

(* A request leaves the schema as it is, or notes what it was, or is a     *)
(* reading.                                                                *)
LEMMA Timed ==
  ASSUME NEW p, Proper(p), NEW r, r.op \in Operations, NEW cred, NEW race
  PROVE  LET h == Handle(p, cred, r, race) IN
         /\ Still(p, h.project) \/ Paced(NoteSchemaWrite(p), h.project) \/ h = Discovery(p)
         /\ r.op = "ReadSchema" /\ h.answer.status = 200 => h = Discovery(p)
<1> DEFINE h == Handle(p, cred, r, race)
           route == Route(p, r, race)
           noted == NoteSchemaWrite(p)
<1>1. Shaped(p) /\ Shaped(noted)
  BY Fields, Notes DEF Proper
<1>2. /\ Still(p, route.project) \/ Paced(noted, route.project) \/ route = Discovery(p)
      /\ r.op = "ReadSchema" => route = Discovery(p)
  <2> HIDE DEF noted
  <2>1. CASE r.op = "ReadSchema"
    BY <2>1 DEF Route
  <2>2. CASE r.op \in {"CreateTemplate", "CreateAttribute", "AddListOption", "BindAttribute"}
    BY <1>1, <2>2, SchemaRequests DEF Route, noted
  <2>3. CASE r.op = "MyPermissions"
    <3>1. route.project = p
      BY <2>3, Returned DEF Route, Success
    <3> QED
      BY <1>1, <2>3, <3>1, StillSelf
  <2>4. CASE r.op \in {"UpdateEntity", "SetEntityKey"}
    <3>1. route = UpdateEntity(p, r)
      BY <2>4 DEF Route
    <3> HIDE DEF route
    <3> QED
      BY <1>1, <2>4, <3>1, RecordRequests
  <2>5. CASE r.op \in {"FindEntities", "EntityByKey", "UpsertByKey", "CreateEntity", "IngestMetrics", "EntityValues"}
    BY <1>1, <2>5, RecordRequests DEF Route
  <2> QED
    BY <2>1, <2>2, <2>3, <2>4, <2>5 DEF Operations, Reads
<1>3. ASSUME NEW status \in {401, 403} PROVE Problem(p, status).project = p /\ Problem(p, status).answer.status # 200
  BY Returned DEF Problem
<1>4. NoProject(p).project = p /\ NoProject(p).answer.status # 200
  <2>1. NoProject(p) =
          [[project |-> p, answer |-> [status |-> 409, code |-> "none", fields |-> {}, body |-> None]]
             EXCEPT !.answer.code = "no_project_selected"]
    BY DEF NoProject, Problem, Answer
  <2> QED
    BY <2>1
<1>5. h \in {Problem(p, 401), Problem(p, 403), NoProject(p), route}
  BY DEF Handle
<1> HIDE DEF h, route
<1> QED
  BY <1>1, <1>2, <1>3, <1>4, <1>5, StillSelf DEF h

(* A non-empty set of naturals has a least member. *)
LEMMA LeastIs ==
  ASSUME NEW T \in SUBSET Nat, T # {}
  PROVE  Min(T) \in T /\ \A y \in T : Min(T) <= y
<1> DEFINE upTo(n) == 0 .. n
           F == {upTo(n) : n \in T}
<1>1. F \subseteq FiniteSubsetsOf(Nat) /\ F # {}
  <2>1. ASSUME NEW n \in T PROVE upTo(n) \in FiniteSubsetsOf(Nat)
    BY FS_Interval DEF FiniteSubsetsOf
  <2> QED
    BY <2>1
<1>2. PICK X \in F : \A Y \in F : ~ (<<Y, X>> \in StrictSubsetOrdering(Nat))
  <2> HIDE DEF F
  <2> QED
    BY <1>1, FS_StrictSubsetOrderingWellFounded, WFMin
<1>3. PICK x \in T : X = upTo(x)
  OBVIOUS
<1>4. ASSUME NEW y \in T PROVE x =< y
  <2> SUFFICES ASSUME y < x PROVE FALSE
    OBVIOUS
  <2>1. upTo(y) \subseteq upTo(x) /\ x \in upTo(x) /\ x \notin upTo(y) /\ upTo(x) \subseteq Nat
    OBVIOUS
  <2>2. <<upTo(y), upTo(x)>> \in StrictSubsetOrdering(Nat)
    <3> HIDE DEF upTo
    <3> QED
      BY <2>1 DEF StrictSubsetOrdering
  <2> QED
    BY <1>2, <1>3, <2>2
<1> QED
  BY <1>4 DEF Min

(* What reading number n of the project, should it come to that, shows:    *)
(* the first document that is hidden from it or, if none is, the schema.   *)
View(p, n, doc) ==
  \/ doc = SchemaDoc(p) /\ \A k \in DOMAIN p.pending : p.pending[k].hidden < n
  \/ \E k \in DOMAIN p.pending :
       /\ doc = p.pending[k].doc /\ p.pending[k].hidden >= n
       /\ \A j \in DOMAIN p.pending : j < k => p.pending[j].hidden < n

(* The documents a project keeps for readings to come. *)
Keeping(p) ==
  /\ p.reads \in Nat /\ IsList(p.pending)
  /\ \A k \in DOMAIN p.pending : p.pending[k].hidden \in Nat /\ p.pending[k].hidden <= p.reads + SchemaLag

LEMMA Reading ==
  ASSUME NEW p, Proper(p), Keeping(p)
  PROVE  LET h == Discovery(p) q == h.project IN
         /\ q.reads = p.reads + 1 /\ SchemaDoc(q) = SchemaDoc(p) /\ Keeping(q)
         /\ View(p, q.reads, h.answer.body)
         /\ \A n \in Nat : \A doc : n > q.reads /\ View(q, n, doc) => View(p, n, doc)
<1> DEFINE n1 == p.reads + 1
           shown == {k \in DOMAIN p.pending : p.pending[k].hidden >= n1}
           left == IF shown = {} THEN <<>> ELSE SubSeq(p.pending, Min(shown), Len(p.pending))
           body == IF left = <<>> THEN SchemaDoc(p) ELSE Head(left).doc
           q == [p EXCEPT !.reads = n1, !.pending = left]
<1>1. Discovery(p) = Success(q, 200, body)
  BY DEF Discovery
<1>2. Discovery(p).project = q /\ Discovery(p).answer.body = body
  <2> HIDE DEF q, body
  <2> QED
    BY <1>1, Returned DEF Success
<1>3. n1 \in Nat /\ p.reads \in Nat /\ IsList(p.pending) /\ SchemaLag \in Nat
  BY PlatformAssumption DEF Keeping
<1>4. q.reads = n1 /\ q.pending = left /\ SchemaDoc(q) = SchemaDoc(p)
  <2> HIDE DEF n1, left
  <2>1. q = [templates |-> p.templates, attrs |-> p.attrs, binds |-> p.binds, records |-> p.records,
             reads |-> n1, searches |-> p.searches, pending |-> left]
    BY Fields, OtherReadings DEF Proper
  <2> HIDE DEF q
  <2> QED
    BY <2>1 DEF SchemaDoc
<1>5. Len(p.pending) \in Nat /\ DOMAIN p.pending = 1 .. Len(p.pending)
  BY <1>3, LenProperties DEF IsList
<1> HIDE DEF q
<1>6. CASE shown = {}
  <2>1. left = <<>> /\ body = SchemaDoc(p)
    BY <1>6
  <2>2. \A k \in DOMAIN p.pending : p.pending[k].hidden < n1
    BY <1>3, <1>6 DEF Keeping
  <2> HIDE DEF n1, left, body, shown
  <2>3. DOMAIN left = {}
    BY <2>1
  <2>4. Keeping(q)
    BY <1>3, <1>4, <2>1, <2>3, EmptyList DEF Keeping
  <2>5. View(p, n1, body)
    BY <2>1, <2>2 DEF View
  <2>6. \A n \in Nat : \A doc : n > n1 /\ View(q, n, doc) => View(p, n, doc)
    <3> SUFFICES ASSUME NEW n \in Nat, NEW doc, n > n1, View(q, n, doc) PROVE View(p, n, doc)
      OBVIOUS
    <3>1. doc = SchemaDoc(p)
      BY <1>4, <2>3 DEF View
    <3>2. \A k \in DOMAIN p.pending : p.pending[k].hidden < n
      BY <1>3, <2>2 DEF Keeping
    <3> QED
      BY <3>1, <3>2 DEF View
  <2> QED
    BY <1>2, <1>4, <2>4, <2>5, <2>6 DEF n1
<1>7. CASE shown # {}
  <2> DEFINE m == Min(shown)
  <2>0. shown \in SUBSET Nat
    BY <1>5
  <2>1. m \in shown /\ \A k \in shown : m <= k
    <3> HIDE DEF shown
    <3> QED
      BY <1>7, <2>0, LeastIs
  <2> DEFINE len == Len(p.pending) - m + 1
  <2>2. /\ m \in 1 .. Len(p.pending) /\ p.pending[m].hidden >= n1
        /\ \A j \in DOMAIN p.pending : j < m => p.pending[j].hidden < n1
    <3> HIDE DEF m
    <3> QED
      BY <1>3, <1>5, <2>1 DEF Keeping
  <2>3. left = SubSeq(p.pending, m, Len(p.pending))
    BY <1>7
  <2> HIDE DEF m, left, shown, n1
  <2>4. IsList(left) /\ Len(left) = len /\ \A k \in 1 .. len : left[k] = p.pending[m + k - 1]
    <3> DEFINE S == {p.pending[k] : k \in DOMAIN p.pending}
    <3>1. p.pending \in Seq(S)
      BY <1>3 DEF IsList
    <3> HIDE DEF S
    <3>2. m \in 1 .. Len(p.pending) + 1 /\ Len(p.pending) \in m - 1 .. Len(p.pending)
      BY <1>5, <2>2
    <3>3. /\ left \in Seq(S) /\ Len(left) = Len(p.pending) - m + 1
          /\ \A i \in 1 .. Len(p.pending) - m + 1 : left[i] = p.pending[m + i - 1]
      BY <2>3, <3>1, <3>2, SubSeqProperties
    <3> QED
      BY <3>3, Listed
  <2>5. len \in Nat /\ len >= 1 /\ DOMAIN left = 1 .. len
    BY <1>5, <2>2, <2>4, LenProperties DEF IsList
  <2>6. left # <<>> /\ Head(left) = p.pending[m]
    <3>1. left # <<>>
      BY <2>5, EmptyList
    <3> QED
      BY <1>5, <2>2, <2>4, <2>5, <3>1, TailIs
  <2>7. body = p.pending[m].doc
    BY <2>6
  <2> HIDE DEF len, body
  <2>8. \A k \in DOMAIN left : m + k - 1 \in DOMAIN p.pending /\ left[k] = p.pending[m + k - 1]
    <3> SUFFICES ASSUME NEW k \in DOMAIN left PROVE m + k - 1 \in DOMAIN p.pending /\ left[k] = p.pending[m + k - 1]
      OBVIOUS
    <3>1. k \in 1 .. len /\ len = Len(p.pending) - m + 1
      BY <2>5 DEF len
    <3>2. m + k - 1 \in 1 .. Len(p.pending)
      BY <1>5, <2>2, <3>1
    <3> QED
      BY <1>5, <2>4, <3>1, <3>2
  <2>9. Keeping(q)
    <3>1. \A k \in DOMAIN p.pending : p.pending[k].hidden \in Nat /\ p.pending[k].hidden <= p.reads + SchemaLag
      BY DEF Keeping
    <3>2. \A k \in DOMAIN left : left[k].hidden \in Nat /\ left[k].hidden <= n1 + SchemaLag
      BY <1>3, <2>8, <3>1 DEF n1
    <3> QED
      BY <1>3, <1>4, <2>4, <3>2 DEF Keeping
  <2>10. View(p, n1, body)
    BY <1>5, <2>2, <2>7 DEF View
  <2>11. \A n \in Nat : \A doc : n > n1 /\ View(q, n, doc) => View(p, n, doc)
    <3> SUFFICES ASSUME NEW n \in Nat, NEW doc, n > n1, View(q, n, doc) PROVE View(p, n, doc)
      OBVIOUS
    <3>0. \A k \in DOMAIN p.pending : p.pending[k].hidden \in Nat
      BY DEF Keeping
    <3>1. \A j \in DOMAIN p.pending : j < m => p.pending[j].hidden < n
      BY <1>3, <2>2, <3>0
    <3>2. \A j \in DOMAIN p.pending : j >= m => j - m + 1 \in DOMAIN left /\ left[j - m + 1] = p.pending[j]
      <4> SUFFICES ASSUME NEW j \in DOMAIN p.pending, j >= m
                   PROVE  j - m + 1 \in DOMAIN left /\ left[j - m + 1] = p.pending[j]
        OBVIOUS
      <4>1. j - m + 1 \in DOMAIN left /\ m + (j - m + 1) - 1 = j
        BY <1>5, <2>2, <2>5 DEF len
      <4> QED
        BY <2>8, <4>1
    <3>3. CASE doc = SchemaDoc(q) /\ \A k \in DOMAIN left : left[k].hidden < n
      <4>1. \A j \in DOMAIN p.pending : p.pending[j].hidden < n
        BY <1>5, <2>2, <3>1, <3>2, <3>3
      <4> QED
        BY <1>4, <3>3, <4>1 DEF View
    <3>4. CASE \E k \in DOMAIN left :
                 /\ doc = left[k].doc /\ left[k].hidden >= n
                 /\ \A j \in DOMAIN left : j < k => left[j].hidden < n
      <4>1. PICK k \in DOMAIN left :
                 /\ doc = left[k].doc /\ left[k].hidden >= n
                 /\ \A j \in DOMAIN left : j < k => left[j].hidden < n
        BY <3>4
      <4>2. \A j \in DOMAIN p.pending : j < m + k - 1 => p.pending[j].hidden < n
        <5> SUFFICES ASSUME NEW j \in DOMAIN p.pending, j < m + k - 1, j >= m PROVE p.pending[j].hidden < n
          BY <1>5, <2>2, <3>1
        <5>1. j - m + 1 \in DOMAIN left /\ left[j - m + 1] = p.pending[j] /\ j - m + 1 < k
          BY <1>5, <2>2, <2>5, <3>2
        <5> QED
          BY <4>1, <5>1
      <4>3. m + k - 1 \in DOMAIN p.pending /\ left[k] = p.pending[m + k - 1]
        BY <2>8
      <4> QED
        BY <4>1, <4>2, <4>3 DEF View
    <3> QED
      BY <1>4, <3>3, <3>4 DEF View
  <2> QED
    BY <1>2, <1>4, <2>9, <2>10, <2>11 DEF n1
<1> QED
  BY <1>6, <1>7

(* The documents of the past and the one a reading must show.              *)
Seen(j, n) == j = 1 \/ docs[j].after + SchemaLag < n
Latest(n, doc) ==
  \E j \in DOMAIN docs :
    doc = docs[j].doc /\ Seen(j, n) /\ \A k \in DOMAIN docs : Seen(k, n) => k <= j

(* Every reading to come shows what it must. *)
LagInv ==
  /\ Keeping(platform)
  /\ IsList(docs) /\ docs # <<>> /\ \A j \in DOMAIN docs : docs[j].after \in Nat
  /\ \A n \in Nat : \A doc : n > platform.reads /\ View(platform, n, doc) => Latest(n, doc)

LEMMA LatestShown ==
  ASSUME IsList(docs), NEW n, NEW doc, Latest(n, doc)
  PROVE  doc = Shown(n)
<1> DEFINE seen == {k \in DOMAIN docs : Seen(k, n)}
<1>1. Shown(n) = docs[Max(seen)].doc
  BY DEF Shown, Seen
<1>2. PICK j \in seen : doc = docs[j].doc /\ \A k \in seen : k <= j
  BY DEF Latest
<1>3. seen \subseteq Nat
  BY LenProperties DEF IsList
<1> HIDE DEF seen
<1>4. Max(seen) = j
  <2>1. Max(seen) \in seen /\ \A k \in seen : k <= Max(seen)
    BY <1>2, <1>3 DEF Max
  <2>2. j <= Max(seen) /\ Max(seen) <= j /\ Max(seen) \in Nat /\ j \in Nat
    BY <1>2, <1>3, <2>1
  <2> QED
    BY <2>2
<1> QED
  BY <1>1, <1>2, <1>4

(* The schema is unchanged and nothing is kept, or only for readings that  *)
(* would have shown it.                                                    *)
LEMMA NotedView ==
  ASSUME NEW p, Proper(p), Keeping(p), NEW q, Paced(NoteSchemaWrite(p), q)
  PROVE  /\ q.reads = p.reads /\ Keeping(q)
         /\ \A n \in Nat : \A doc :
              n > p.reads /\ View(q, n, doc) =>
                 View(p, n, doc) \/ (doc = SchemaDoc(q) /\ n > p.reads + SchemaLag)
<1> DEFINE e == [hidden |-> p.reads + SchemaLag, doc |-> SchemaDoc(p)]
           more == Append(p.pending, e)
<1>0. p.reads \in Nat /\ SchemaLag \in Nat /\ IsList(p.pending)
      /\ \A k \in DOMAIN p.pending : p.pending[k].hidden \in Nat /\ p.pending[k].hidden <= p.reads + SchemaLag
  BY PlatformAssumption DEF Keeping
<1>1. CASE SchemaLag = 0
  <2>1. q.reads = p.reads /\ q.pending = p.pending
    BY <1>1 DEF NoteSchemaWrite, Paced
  <2>2. Keeping(q)
    BY <2>1 DEF Keeping
  <2>3. ASSUME NEW n \in Nat, NEW doc, n > p.reads, View(q, n, doc)
        PROVE  doc = SchemaDoc(q) /\ n > p.reads + SchemaLag
    <3>1. \A k \in DOMAIN p.pending : ~(p.pending[k].hidden >= n)
      BY <1>0, <1>1, <2>3
    <3> QED
      BY <1>0, <1>1, <2>1, <2>3, <3>1 DEF View
  <2> QED
    BY <1>0, <1>1, <2>1, <2>2, <2>3
<1>2. CASE SchemaLag # 0
  <2>0. e.hidden = p.reads + SchemaLag /\ e.doc = SchemaDoc(p)
    OBVIOUS
  <2>1. q.reads = p.reads /\ q.pending = more
    <3>1. NoteSchemaWrite(p) = [p EXCEPT !.pending = more]
      BY <1>2 DEF NoteSchemaWrite
    <3> HIDE DEF more
    <3>2. [p EXCEPT !.pending = more].reads = p.reads /\ [p EXCEPT !.pending = more].pending = more
      BY Fields, OtherPending DEF Proper
    <3> QED
      BY <3>1, <3>2 DEF Paced
  <2> DEFINE len == Len(p.pending)
  <2> HIDE DEF e
  <2>2. /\ IsList(more) /\ len \in Nat /\ DOMAIN p.pending = 1 .. len /\ DOMAIN more = 1 .. len + 1
        /\ more[len + 1] = e /\ \A k \in 1 .. len : more[k] = p.pending[k]
    BY <1>0, Longer
  <2> HIDE DEF more, len
  <2>3. \A k \in 1 .. len + 1 : more[k].hidden \in Nat /\ more[k].hidden <= p.reads + SchemaLag
    BY <1>0, <2>0, <2>2
  <2>4. Keeping(q)
    BY <1>0, <2>1, <2>2, <2>3 DEF Keeping
  <2>5. ASSUME NEW n \in Nat, NEW doc, n > p.reads, View(q, n, doc)
        PROVE  View(p, n, doc) \/ (doc = SchemaDoc(q) /\ n > p.reads + SchemaLag)
    <3>1. CASE doc = SchemaDoc(q) /\ \A k \in 1 .. len + 1 : more[k].hidden < n
      <4>1. more[len + 1].hidden < n
        BY <2>2, <3>1
      <4> QED
        BY <1>0, <2>0, <2>2, <2>5, <3>1, <4>1
    <3>2. ASSUME NEW k \in 1 .. len + 1, doc = more[k].doc, more[k].hidden >= n,
                 \A j \in 1 .. len + 1 : j < k => more[j].hidden < n
          PROVE  View(p, n, doc)
      <4>1. CASE k = len + 1
        <5>1. \A j \in DOMAIN p.pending : p.pending[j].hidden < n
          BY <2>2, <3>2, <4>1
        <5> QED
          BY <2>0, <2>2, <3>2, <4>1, <5>1 DEF View
      <4>2. CASE k \in 1 .. len
        <5>1. \A j \in DOMAIN p.pending : j < k => p.pending[j].hidden < n
          BY <2>2, <3>2, <4>2
        <5> QED
          BY <2>2, <3>2, <4>2, <5>1 DEF View
      <4> QED
        BY <2>2, <4>1, <4>2
    <3> QED
      BY <2>1, <2>2, <2>5, <3>1, <3>2 DEF View
  <2> QED
    BY <1>0, <2>1, <2>4, <2>5
<1> QED
  BY <1>1, <1>2

(* What a request does to the readings to come. *)
LEMMA Documents ==
  ASSUME LagInv, Proper(platform), NEW s, NEW h, Processes(s, h),
         \/ Still(platform, h.project)
         \/ Paced(NoteSchemaWrite(platform), h.project)
         \/ h = Discovery(platform)
  PROVE  LagInv'
<1> DEFINE q == h.project
           e == [doc |-> SchemaDoc(q), after |-> platform.reads]
<1>0. /\ platform' = q
      /\ docs' = IF SchemaDoc(q) = SchemaDoc(platform) THEN docs ELSE Append(docs, e)
  BY DEF Processes
<1>1. /\ Keeping(platform) /\ IsList(docs) /\ docs # <<>> /\ \A j \in DOMAIN docs : docs[j].after \in Nat
      /\ \A n \in Nat : \A doc : n > platform.reads /\ View(platform, n, doc) => Latest(n, doc)
      /\ platform.reads \in Nat /\ SchemaLag \in Nat
  BY PlatformAssumption DEF LagInv, Keeping
<1>2. ASSUME docs' = docs, Keeping(q), q.reads >= platform.reads, q.reads \in Nat,
             \A n \in Nat : \A doc : n > q.reads /\ View(q, n, doc) => View(platform, n, doc)
      PROVE  LagInv'
  <2>1. \A n, doc : Latest(n, doc) => Latest(n, doc)'
    BY <1>2 DEF Latest, Seen
  <2>2. \A n \in Nat : \A doc : n > q.reads /\ View(q, n, doc) => Latest(n, doc)'
    BY <1>1, <1>2, <2>1
  <2> QED
    BY <1>0, <1>1, <1>2, <2>2 DEF LagInv
<1>3. CASE Still(platform, q)
  <2>1. docs' = docs /\ Keeping(q) /\ q.reads = platform.reads
    BY <1>0, <1>1, <1>3 DEF Still, Keeping
  <2>2. \A n, doc : View(q, n, doc) => View(platform, n, doc)
    BY <1>3 DEF Still, View
  <2> QED
    BY <1>1, <1>2, <2>1, <2>2
<1>4. CASE h = Discovery(platform)
  <2>1. /\ q.reads = platform.reads + 1 /\ SchemaDoc(q) = SchemaDoc(platform) /\ Keeping(q)
        /\ \A n \in Nat : \A doc : n > q.reads /\ View(q, n, doc) => View(platform, n, doc)
    BY <1>1, <1>4, Reading
  <2> QED
    BY <1>0, <1>1, <1>2, <2>1
<1>5. CASE Paced(NoteSchemaWrite(platform), q)
  <2>1. /\ q.reads = platform.reads /\ Keeping(q)
        /\ \A n \in Nat : \A doc :
              n > platform.reads /\ View(q, n, doc) =>
                 View(platform, n, doc) \/ (doc = SchemaDoc(q) /\ n > platform.reads + SchemaLag)
    BY <1>1, <1>5, NotedView
  <2>2. CASE SchemaDoc(q) = SchemaDoc(platform)
    <3>1. \A n \in Nat : n > platform.reads + SchemaLag => View(platform, n, SchemaDoc(q))
      <4> SUFFICES ASSUME NEW n \in Nat, n > platform.reads + SchemaLag,
                          NEW k \in DOMAIN platform.pending
                   PROVE  platform.pending[k].hidden < n
        BY <2>2 DEF View
      <4>1. platform.pending[k].hidden \in Nat /\ platform.pending[k].hidden <= platform.reads + SchemaLag
        BY <1>1 DEF Keeping
      <4> QED
        BY <1>1, <4>1
    <3> QED
      BY <1>0, <1>1, <1>2, <2>1, <2>2, <3>1
  <2>3. CASE SchemaDoc(q) # SchemaDoc(platform)
    <3>9. PICK len : len = Len(docs)
      OBVIOUS
    <3>0. e.doc = SchemaDoc(q) /\ e.after = platform.reads
      OBVIOUS
    <3> HIDE DEF e, q
    <3>1. docs' = Append(docs, e)
      BY <1>0, <2>3
    <3>2. /\ IsList(docs') /\ len \in Nat /\ DOMAIN docs = 1 .. len /\ DOMAIN docs' = 1 .. len + 1
          /\ docs'[len + 1] = e /\ \A j \in 1 .. len : docs'[j] = docs[j]
      BY <1>1, <3>1, <3>9, Longer
    <3>3. len >= 1
      BY <1>1, <3>9, TailIs
    <3>4. ASSUME NEW n \in Nat, NEW doc, n > platform.reads, View(platform, n, doc), n <= platform.reads + SchemaLag
          PROVE  Latest(n, doc)'
      <4>1. PICK j \in 1 .. len : doc = docs[j].doc /\ Seen(j, n) /\ \A k \in 1 .. len : Seen(k, n) => k <= j
        BY <1>1, <3>2, <3>4 DEF Latest
      <4>2. doc = docs'[j].doc /\ Seen(j, n)' /\ j \in 1 .. len + 1
        BY <3>2, <4>1 DEF Seen
      <4>3. ~Seen(len + 1, n)'
        BY <1>1, <3>0, <3>2, <3>3, <3>4 DEF Seen
      <4>4. \A k \in 1 .. len + 1 : Seen(k, n)' => k <= j
        <5> SUFFICES ASSUME NEW k \in 1 .. len, Seen(k, n)' PROVE k <= j
          BY <3>2, <4>3
        <5> QED
          BY <3>2, <4>1 DEF Seen
      <4> QED
        BY <3>2, <4>2, <4>4 DEF Latest
    <3>5. ASSUME NEW n \in Nat, n > platform.reads + SchemaLag PROVE Latest(n, SchemaDoc(q))'
      <4>1. len + 1 \in 1 .. len + 1 /\ docs'[len + 1].doc = SchemaDoc(q) /\ Seen(len + 1, n)'
        BY <3>0, <3>2, <3>5 DEF Seen
      <4>2. \A k \in 1 .. len + 1 : k <= len + 1
        BY <3>2
      <4> QED
        BY <3>2, <4>1, <4>2 DEF Latest, q
    <3>6. ASSUME NEW n \in Nat, NEW doc, n > platform.reads, View(q, n, doc) PROVE Latest(n, doc)'
      <4>1. CASE n > platform.reads + SchemaLag
        <5>1. doc = SchemaDoc(q)
          <6>1. \A k \in DOMAIN q.pending : q.pending[k].hidden \in Nat /\ q.pending[k].hidden <= platform.reads + SchemaLag
            BY <2>1 DEF Keeping
          <6>2. \A k \in DOMAIN q.pending : ~(q.pending[k].hidden >= n)
            BY <1>1, <4>1, <6>1
          <6> QED
            BY <3>6, <6>2 DEF View
        <5> QED
          BY <3>5, <4>1, <5>1
      <4>2. CASE n <= platform.reads + SchemaLag
        <5>1. View(platform, n, doc)
          BY <1>1, <2>1, <3>6, <4>2
        <5> QED
          BY <3>4, <3>6, <4>2, <5>1
      <4> QED
        BY <1>1, <4>1, <4>2
    <3>7. docs' # <<>>
      BY <3>2, <3>3, EmptyList
    <3>8. \A j \in DOMAIN docs' : docs'[j].after \in Nat
      BY <1>1, <3>0, <3>2
    <3> QED
      BY <1>0, <2>1, <3>2, <3>6, <3>7, <3>8 DEF LagInv, q
  <2> QED
    BY <2>2, <2>3
<1> QED
  BY <1>3, <1>4, <1>5

LEMMA LagInit == Init => LagInv
<1> SUFFICES ASSUME Init PROVE LagInv
  OBVIOUS
<1> DEFINE e == [doc |-> SchemaDoc(Seeded), after |-> 0]
<1>1. docs = <<e>> /\ platform = Seeded
  BY DEF Init
<1>2. e.doc = SchemaDoc(Seeded) /\ e.after = 0
  OBVIOUS
<1> HIDE DEF e
<1>3. IsList(docs) /\ DOMAIN docs = {1} /\ docs[1] = e /\ docs # <<>>
  <2>1. docs \in Seq({e}) /\ DOMAIN docs = {1} /\ docs[1] = e
    BY <1>1
  <2>2. IsList(docs)
    BY <2>1, Listed
  <2>3. docs # <<>>
    BY <1>1
  <2> QED
    BY <2>1, <2>2, <2>3
<1>4. platform.reads \in Nat /\ platform.pending = <<>> /\ DOMAIN platform.pending = {}
  BY <1>1, SeededAssumption
<1>5. Keeping(platform)
  BY <1>4, EmptyList DEF Keeping
<1>6. \A n \in Nat : \A doc : View(platform, n, doc) => Latest(n, doc)
  BY <1>1, <1>2, <1>3, <1>4 DEF View, Latest, Seen
<1> QED
  BY <1>2, <1>3, <1>5, <1>6 DEF LagInv

LEMMA LagStep == Inv /\ LagInv /\ [Next]_vars => LagInv'
<1> SUFFICES ASSUME Inv, LagInv, [Next]_vars PROVE LagInv'
  OBVIOUS
<1>1. ASSUME NEW s, Asks(s.req), NEW race, Processes(s, Handled(s, race)) PROVE LagInv'
  BY <1>1, Timed, Documents DEF Handled, Inv, Asks
<1>2. ASSUME NEW c \in Clients, Arrives(c) PROVE LagInv'
  BY <1>1, <1>2, CallIs, SentIs DEF Arrives, Inv
<1>3. ASSUME NEW s \in late, ArrivesLate(s) PROVE LagInv'
  BY <1>1, <1>3 DEF ArrivesLate, Inv, PendingInv, Pending
<1>4. ASSUME UNCHANGED <<platform, docs>> PROVE LagInv'
  BY <1>4 DEF LagInv, Keeping, View, Latest, Seen, SchemaDoc
<1>5. ASSUME NEW i \in DOMAIN platform.records, UserDeletes(i) PROVE LagInv'
  <2>1. docs' = docs /\ SchemaDoc(platform') = SchemaDoc(platform)
        /\ platform'.reads = platform.reads /\ platform'.pending = platform.pending
    BY <1>5, Deleting DEF UserDeletes, Inv
  <2>2. \A n, doc : View(platform', n, doc) => View(platform, n, doc)
    BY <2>1 DEF View
  <2>3. \A n, doc : Latest(n, doc) => Latest(n, doc)'
    BY <2>1 DEF Latest, Seen
  <2> QED
    BY <2>1, <2>2, <2>3 DEF LagInv, Keeping
<1>6. ASSUME NEW c \in Clients, Begins(c) \/ (Proceeds(c) /\ ~Arrives(c)) PROVE UNCHANGED <<platform, docs>>
  BY <1>6 DEF Begins, Proceeds, Overloaded, Fails, Cancelled, ToldToWait, Wakes, Answered, BodyLost, projectVars
<1>7. CASE Stops \/ UNCHANGED vars
  BY <1>4, <1>7 DEF Stops, vars, projectVars
<1> QED
  BY <1>2, <1>3, <1>4, <1>5, <1>6, <1>7 DEF Next

(* A reading is answered what it must show.                                *)
LEMMA ReadingShown ==
  ASSUME Inv, LagInv, NEW c \in Clients, Arrives(c), call[c].req.op = "ReadSchema", call'[c].answer.status = 200
  PROVE  call'[c].answer.body = Shown(platform'.reads)
<1>1. PICK race : LET h == Handled(Sent(c), race) IN Processes(Sent(c), h) /\ call'[c].answer = h.answer
  BY Arriving
<1> DEFINE h == Handled(Sent(c), race)
<1>2. Sent(c).req = call[c].req /\ Asks(Sent(c).req)
  BY CallIs, SentIs DEF Arrives, Inv
<1>3. h = Discovery(platform)
  BY <1>1, <1>2, Timed DEF Handled, Inv, Asks
<1>4. platform' = h.project /\ call'[c].answer = h.answer
  BY <1>1 DEF Processes
<1> HIDE DEF h
<1>5. /\ platform'.reads = platform.reads + 1 /\ platform.reads \in Nat
      /\ View(platform, platform'.reads, call'[c].answer.body)
  BY <1>3, <1>4, Reading DEF LagInv, Keeping, Inv
<1>6. Latest(platform'.reads, call'[c].answer.body)
  BY <1>5 DEF LagInv
<1> QED
  BY <1>6, LatestShown DEF LagInv

-----------------------------------------------------------------------------
(* The engine, the resolver and the publisher branch on what the client    *)
(* tells them (identity/resolve.go, schema/apply.go, publish.go): "ok" is  *)
(* said only of what this call did, a refusal only when it did nothing or  *)
(* cannot know, "already exists" only of what is there, and discovery      *)
(* shows the schema of exactly its lag ago, whatever was lost, late or     *)
(* answered by a gateway.                                                  *)
THEOREM AnswersAreTrue == Spec => AnswersTrue
<1> DEFINE Sure(c) ==
      /\ result'[c] # result[c] => Honest(result'[c])
      /\ call[c] # None /\ call'[c] # None /\ call[c].req.op = "ReadSchema"
         /\ call'[c].answer # None /\ call[c].answer = None /\ call'[c].answer.status = 200
         => call'[c].answer.body = Shown(platform'.reads)
<1>1. ASSUME Inv, AnswerInv, LagInv, [Next]_vars, NEW c \in Clients PROVE Sure(c)
  <2>1. CASE call'[c] = call[c] /\ result'[c] = result[c]
    BY <2>1
  <2>2. CASE Begins(c)
    BY <2>2 DEF Begins
  <2>3. CASE Arrives(c)
    BY <1>1, <2>3, ReadingShown DEF Arrives
  <2>4. CASE Overloaded(c)
    <3> DEFINE a == [status |-> 503, code |-> "none", fields |-> {}, body |-> None]
    <3>1. call[c] # None /\ result' = result /\ call' = [call EXCEPT ![c].pc = "answered", ![c].answer = a]
      BY <2>4 DEF Overloaded
    <3>2. call'[c] = [call[c] EXCEPT !.pc = "answered", !.answer = a]
      BY <1>1, <3>1 DEF Inv, CallInv
    <3>0. a.status = 503
      OBVIOUS
    <3> HIDE DEF a
    <3>3. call'[c].answer = a
      BY <1>1, <3>1, <3>2, CallIs DEF IsCall
    <3> QED
      BY <3>0, <3>1, <3>3
  <2>5. CASE result' = result /\ call'[c].pc # "answered" /\ call'[c].answer \in {None, call[c].answer}
    BY <2>5
  <2>6. CASE Ending(c)
    <3>1. call'[c] = None
      BY <1>1, <2>6 DEF Ending, Returns, Inv, CallInv
    <3>2. Honest(result'[c])
      BY <1>1, <2>6, OutcomeHonest DEF Ending
    <3> QED
      BY <3>1, <3>2
  <2> QED
    BY <1>1, <2>1, <2>2, <2>3, <2>4, <2>5, <2>6, OneMoves, Proceeding
<1>2. Inv /\ AnswerInv /\ LagInv /\ [Next]_vars => [\A c \in Clients : Sure(c)]_vars
  BY <1>1
<1>3. Init => AnswerInv
  BY DEF Init, AnswerInv
<1> HIDE DEF Sure
<1>4. Spec => [][\A c \in Clients : Sure(c)]_vars
  BY <1>2, <1>3, InitInv, NextInv, AnswerStep, LagInit, LagStep, PTL DEF Spec
<1> QED
  BY <1>4 DEF Sure, AnswersTrue
=============================================================================
