--------------------------- MODULE EntitiesProofs ---------------------------
(***************************************************************************)
(* What Entities promises for any set of entities, any bound on their      *)
(* number and runs of any length, proved with TLAPS.                       *)
(***************************************************************************)
EXTENDS Entities, SequenceTheorems, FiniteSetTheorems, TLAPS

(* The types the argument rests on. *)
Values ==
  /\ pending \in [EntityKeys -> SUBSET Nat]
  /\ collected \in [EntityKeys -> Nat]

KeptInv == Values /\ ValuesKept

LEMMA KeptInit == Init => KeptInv
  BY DEF Init, KeptInv, Values, ValuesKept

(* Steps that touch neither buffers nor what was answered.                 *)
LEMMA KeptFrame ==
  KeptInv /\ UNCHANGED <<pending, collected, answered>> => KeptInv'
  BY DEF KeptInv, Values, ValuesKept

(* Collect puts what it admits into the buffer. *)
LEMMA CollectKeeps ==
  ASSUME KeptInv, NEW e \in EntityKeys, Collect(e)
  PROVE  KeptInv'
<1>1. /\ pending' = [pending EXCEPT ![e] = @ \cup {collected[e] + 1}]
      /\ collected' = [collected EXCEPT ![e] = @ + 1]
      /\ answered' = answered
  BY DEF Collect, platform
<1>2. Values'
  BY <1>1 DEF KeptInv, Values
<1>3. ValuesKept'
  <2> SUFFICES ASSUME NEW f \in EntityKeys, NEW v \in 1 .. collected'[f]
               PROVE  v \in pending'[f] \/ <<f, v>> \in answered'
    BY DEF ValuesKept
  <2>1. CASE f = e /\ v = collected[e] + 1
    BY <1>1, <2>1 DEF KeptInv, Values
  <2>2. CASE ~(f = e /\ v = collected[e] + 1)
    <3>1. v \in 1 .. collected[f]
      BY <1>1, <2>2 DEF KeptInv, Values
    <3>2. pending[f] \subseteq pending'[f]
      BY <1>1 DEF KeptInv, Values
    <3> QED
      BY <1>1, <3>1, <3>2 DEF KeptInv, ValuesKept
  <2> QED
    BY <2>1, <2>2
<1> QED
  BY <1>2, <1>3 DEF KeptInv

(* A publish lets go of nothing it has not seen answered.                  *)
LEMMA SendingKeeps ==
  ASSUME KeptInv, NEW stored, NEW acked \in SUBSET stored,
         answered' = answered \cup {<<Current, v>> : v \in stored},
         pending' = [pending EXCEPT ![Current] = @ \ acked],
         UNCHANGED collected
  PROVE  KeptInv'
<1>1. Values'
  BY DEF KeptInv, Values
<1>2. ValuesKept'
  <2> SUFFICES ASSUME NEW f \in EntityKeys, NEW v \in 1 .. collected[f]
               PROVE  v \in pending'[f] \/ <<f, v>> \in answered'
    BY DEF ValuesKept
  <2>1. v \in pending[f] \/ <<f, v>> \in answered
    BY DEF KeptInv, ValuesKept
  <2>2. CASE f = Current /\ v \in acked
    BY <2>2
  <2>3. CASE ~(f = Current /\ v \in acked)
    BY <2>1, <2>3 DEF KeptInv, Values
  <2> QED
    BY <2>2, <2>3
<1> QED
  BY <1>1, <1>2 DEF KeptInv

LEMMA KeptStep == KeptInv /\ [Next]_vars => KeptInv'
<1> SUFFICES ASSUME KeptInv, [Next]_vars
             PROVE  KeptInv'
  OBVIOUS
<1> USE DEF platform
<1>1. CASE HostPublished
  BY <1>1, KeptFrame DEF HostPublished
<1>2. CASE HostGone
  BY <1>2, KeptFrame DEF HostGone
<1>3. CASE NothingBuffered
  BY <1>3, KeptFrame DEF NothingBuffered
<1>4. CASE Snapshot
  BY <1>4, KeptFrame DEF Snapshot
<1>5. CASE LookUp
  BY <1>5, KeptFrame DEF LookUp
<1>6. CASE Create
  BY <1>6, KeptFrame DEF Create
<1>7. CASE CreateUnanswered
  BY <1>7, KeptFrame DEF CreateUnanswered
<1>8. CASE ResolveFails
  BY <1>8, KeptFrame DEF ResolveFails
<1>9. CASE SendOk
  BY <1>9, SendingKeeps DEF SendOk
<1>10. CASE SendFails
  <2>1. PICK stored \in SUBSET batch : \E acked \in SUBSET stored :
          /\ answered' = answered \cup {<<Current, v>> : v \in stored}
          /\ pending' = [pending EXCEPT ![Current] = @ \ acked]
    BY <1>10 DEF SendFails
  <2>2. PICK acked \in SUBSET stored :
          /\ answered' = answered \cup {<<Current, v>> : v \in stored}
          /\ pending' = [pending EXCEPT ![Current] = @ \ acked]
    BY <2>1
  <2>3. UNCHANGED collected
    BY <1>10 DEF SendFails
  <2> QED
    BY <2>2, <2>3, SendingKeeps
<1>11. CASE SendGone
  BY <1>11, KeptFrame DEF SendGone
<1>12. ASSUME NEW e \in EntityKeys, Collect(e) PROVE KeptInv'
  BY <1>12, CollectKeeps
<1>13. ASSUME NEW e \in EntityKeys, OtherRunCreates(e) PROVE KeptInv'
  BY <1>13, KeptFrame DEF OtherRunCreates
<1>14. ASSUME NEW r \in DOMAIN records, UserDeletes(r) PROVE KeptInv'
  BY <1>14, KeptFrame DEF UserDeletes
<1>15. CASE UserDeletesHost
  BY <1>15, KeptFrame DEF UserDeletesHost
<1>16. CASE UNCHANGED vars
  BY <1>16, KeptFrame DEF vars
<1> QED
  BY <1>1, <1>2, <1>3, <1>4, <1>5, <1>6, <1>7, <1>8, <1>9, <1>10, <1>11, <1>12, <1>13,
     <1>14, <1>15, <1>16 DEF Next, Publish

(* Entities.Publish (FR-014, FR-015): no value collected for an entity is  *)
(* let go before the platform stored it, however often its record is       *)
(* deleted, its lookup fails, or its publish breaks off.                   *)
THEOREM EntityValuesKept == Spec => []ValuesKept
<1>1. KeptInv => ValuesKept
  BY DEF KeptInv
<1> QED
  BY KeptInit, KeptStep, <1>1, PTL DEF Spec

-----------------------------------------------------------------------------
(* The types of the state, with what keeps them: the publish is at one of  *)
(* its entities, an id remembered is that of a record, and no key is held  *)
(* twice.                                                                  *)
Records == [key : EntityKeys, live : BOOLEAN]

BuffersTyped ==
  /\ buffers \subseteq EntityKeys /\ IsFiniteSet(buffers) /\ Cardinality(buffers) <= MaxKeys
  /\ pending \in [EntityKeys -> SUBSET Nat] /\ collected \in [EntityKeys -> Nat]
  /\ \A e \in EntityKeys : pending[e] \subseteq 1 .. collected[e]

PublishTyped ==
  /\ todo \subseteq buffers
  /\ pc \in {"host", "entities", "lookup", "create", "send", "over"}
  /\ pc \in {"entities", "lookup", "create", "send"} => todo # {}
  /\ pc = "send" => ids[Current] # 0

RecordsTyped ==
  /\ records \in Seq(Records) /\ Len(records) <= MaxRecords
  /\ ids \in [EntityKeys -> 0 .. Len(records)]

OneHolder ==
  \A r, q \in DOMAIN records :
     records[r].live /\ records[q].live /\ records[r].key = records[q].key => r = q

TypedInv == BuffersTyped /\ PublishTyped /\ RecordsTyped /\ OneHolder

(* Min of a non-empty set of naturals is one of them. *)
LEMMA MinBelongs ==
  ASSUME NEW T \in SUBSET Nat, T # {}
  PROVE  Min(T) \in T
<1> DEFINE upTo(n) == 0 .. n
           F == {upTo(n) : n \in T}
<1>1. F \subseteq FiniteSubsetsOf(Nat) /\ F # {}
  <2>1. ASSUME NEW n \in T PROVE upTo(n) \in FiniteSubsetsOf(Nat)
    BY FS_Interval DEF FiniteSubsetsOf
  <2> QED
    BY <2>1
<1>2. PICK X \in F : \A Y \in F : ~ (<<Y, X>> \in StrictSubsetOrdering(Nat))
  <2> HIDE DEF F
  <2> QED
    BY <1>1, FS_StrictSubsetOrderingWellFounded, WFMin
<1>3. PICK x \in T : X = upTo(x)
  OBVIOUS
<1>4. ASSUME NEW y \in T PROVE x =< y
  <2> SUFFICES ASSUME y < x PROVE FALSE
    OBVIOUS
  <2>1. upTo(y) \subseteq upTo(x) /\ x \in upTo(x) /\ x \notin upTo(y) /\ upTo(x) \subseteq Nat
    OBVIOUS
  <2>2. <<upTo(y), upTo(x)>> \in StrictSubsetOrdering(Nat)
    <3> HIDE DEF upTo
    <3> QED
      BY <2>1 DEF StrictSubsetOrdering
  <2> QED
    BY <1>2, <1>3, <2>2
<1> QED
  BY <1>4 DEF Min

(* While entities are left, the publish is at one of them. *)
LEMMA CurrentIsLeft ==
  TypedInv /\ todo # {} => Current \in todo /\ Current \in EntityKeys
<1> SUFFICES ASSUME TypedInv, todo # {} PROVE Current \in todo /\ Current \in EntityKeys
  OBVIOUS
<1>1. todo \in SUBSET Nat /\ todo \subseteq EntityKeys
  BY EntitiesAssumption DEF TypedInv, BuffersTyped, PublishTyped
<1> QED
  BY <1>1, MinBelongs DEF Current

(* What TypedInv says of the records, in one place. *)
LEMMA RecordFacts ==
  ASSUME TypedInv
  PROVE  /\ records \in Seq(Records) /\ Len(records) \in Nat /\ DOMAIN records = 1 .. Len(records)
         /\ \A r \in DOMAIN records : records[r] \in Records
         /\ \A e : Holders(e) \subseteq DOMAIN records
  BY LenProperties, ElementOfSeq DEF TypedInv, RecordsTyped, Holders

(* A record is created for an entity that has none. *)
LEMMA CreationTyped ==
  ASSUME TypedInv, NEW e \in EntityKeys, Holders(e) = {}, Room,
         records' = Append(records, [key |-> e, live |-> TRUE])
  PROVE  /\ records' \in Seq(Records) /\ Len(records') <= MaxRecords /\ Len(records') = Len(records) + 1
         /\ OneHolder'
<1>1. [key |-> e, live |-> TRUE] \in Records
  BY DEF Records
<1>2. /\ records' \in Seq(Records) /\ Len(records') = Len(records) + 1
      /\ \A r \in 1 .. Len(records) : records'[r] = records[r]
      /\ records'[Len(records) + 1] = [key |-> e, live |-> TRUE]
  BY <1>1, RecordFacts, AppendProperties
<1>3. DOMAIN records' = 1 .. Len(records) + 1
  BY <1>2, LenProperties
<1>4. Len(records) + 1 <= MaxRecords
  BY RecordFacts, EntitiesAssumption DEF Room
<1>5. ASSUME NEW r \in 1 .. Len(records), records[r].live PROVE records[r].key # e
  BY <1>5, RecordFacts DEF Holders
<1>6. OneHolder'
  <2> SUFFICES ASSUME NEW r \in DOMAIN records', NEW q \in DOMAIN records', records'[r].live, records'[q].live,
                      records'[r].key = records'[q].key
               PROVE  r = q
    BY DEF OneHolder
  <2>1. CASE r \in 1 .. Len(records) /\ q \in 1 .. Len(records)
    BY <1>2, <2>1, RecordFacts DEF TypedInv, OneHolder
  <2>2. CASE r = Len(records) + 1
    BY <1>2, <1>3, <1>5, <2>2, RecordFacts
  <2>3. CASE q = Len(records) + 1
    BY <1>2, <1>3, <1>5, <2>3, RecordFacts
  <2> QED
    BY <1>3, <2>1, <2>2, <2>3, RecordFacts
<1> QED
  BY <1>2, <1>4, <1>6

(* An entity goes out and the next one's turn comes: what a publish may do *)
(* to its buffer and to its id keeps the types.                            *)
LEMMA ProceedTyped ==
  ASSUME TypedInv, todo # {}, Proceed, UNCHANGED <<buffers, records, collected>>,
         NEW gone, pending' = [pending EXCEPT ![Current] = @ \ gone],
         ids' = ids \/ ids' = [ids EXCEPT ![Current] = 0]
  PROVE  TypedInv'
<1>1. Current \in EntityKeys
  BY CurrentIsLeft
<1>2. BuffersTyped'
  BY <1>1 DEF TypedInv, BuffersTyped
<1>3. PublishTyped'
  BY DEF TypedInv, PublishTyped, Proceed
<1>4. RecordsTyped'
  BY <1>1, RecordFacts DEF TypedInv, RecordsTyped
<1>5. OneHolder'
  BY DEF TypedInv, OneHolder
<1> QED
  BY <1>2, <1>3, <1>4, <1>5 DEF TypedInv

(* An id is remembered. *)
LEMMA RememberTyped ==
  ASSUME TypedInv, todo # {}, RecordsTyped' \/ UNCHANGED records, OneHolder' \/ UNCHANGED records,
         records' \in Seq(Records), Len(records') <= MaxRecords, Len(records') \in Nat, Len(records) <= Len(records'),
         NEW r \in 1 .. Len(records'), Remember(r), UNCHANGED <<buffers, pending, todo, collected>>
  PROVE  TypedInv'
<1>1. Current \in EntityKeys /\ Current' = Current
  BY CurrentIsLeft DEF Current
<1>2. BuffersTyped'
  BY DEF TypedInv, BuffersTyped
<1>3. ids \in [EntityKeys -> 0 .. Len(records)] /\ Len(records) \in Nat
  BY RecordFacts DEF TypedInv, RecordsTyped
<1>4. RecordsTyped'
  BY <1>1, <1>3 DEF RecordsTyped, Remember
<1>5. PublishTyped'
  BY <1>1, <1>3 DEF TypedInv, PublishTyped, Remember
<1>6. OneHolder'
  BY DEF TypedInv, OneHolder
<1> QED
  BY <1>2, <1>4, <1>5, <1>6 DEF TypedInv

LEMMA TypedStep == TypedInv /\ [Next]_vars => TypedInv'
<1> SUFFICES ASSUME TypedInv, [Next]_vars
             PROVE  TypedInv'
  OBVIOUS
<1> DEFINE Parts == BuffersTyped /\ PublishTyped /\ RecordsTyped /\ OneHolder
<1>0. Parts
  BY DEF TypedInv
<1>1. CASE HostPublished
  BY <1>0, <1>1 DEF HostPublished, TypedInv, BuffersTyped, PublishTyped, RecordsTyped, OneHolder, platform
<1>2. CASE HostGone
  BY <1>0, <1>2 DEF HostGone, TypedInv, BuffersTyped, PublishTyped, RecordsTyped, OneHolder, platform
<1>3. CASE NothingBuffered
  <2>1. todo # {} /\ pending' = [pending EXCEPT ![Current] = @ \ {}]
    BY <1>0, <1>3 DEF NothingBuffered, PublishTyped, BuffersTyped
  <2> QED
    BY <1>3, <2>1, ProceedTyped DEF NothingBuffered, platform
<1>4. CASE Snapshot
  BY <1>0, <1>4 DEF Snapshot, Current, TypedInv, BuffersTyped, PublishTyped, RecordsTyped, OneHolder, platform
<1>5. CASE LookUp
  <2>1. CASE \E r \in Holders(Current) : Remember(r)
    <3>1. PICK r \in Holders(Current) : Remember(r)
      BY <2>1
    <3>2. r \in 1 .. Len(records) /\ todo # {} /\ records \in Seq(Records) /\ Len(records) \in Nat /\ Len(records) <= MaxRecords
      BY <1>0, <1>5, RecordFacts DEF LookUp, PublishTyped, RecordsTyped
    <3> QED
      BY <1>5, <3>1, <3>2, RememberTyped DEF LookUp, platform
  <2>2. CASE pc' = "create" /\ UNCHANGED ids
    BY <1>0, <1>5, <2>2 DEF LookUp, Current, TypedInv, BuffersTyped, PublishTyped, RecordsTyped, OneHolder, platform
  <2> QED
    BY <1>5, <2>1, <2>2 DEF LookUp
<1>6. CASE Create
  <2>0. todo # {} /\ records \in Seq(Records) /\ Len(records) \in Nat /\ Len(records) <= MaxRecords
    BY <1>0, <1>6, RecordFacts DEF Create, PublishTyped, RecordsTyped
  <2>1. CASE \E r \in Holders(Current) : Remember(r) /\ UNCHANGED records
    <3>1. PICK r \in Holders(Current) : Remember(r) /\ UNCHANGED records
      BY <2>1
    <3>2. r \in 1 .. Len(records)
      BY RecordFacts
    <3> QED
      BY <1>6, <2>0, <3>1, <3>2, RememberTyped DEF Create
  <2>2. CASE /\ Holders(Current) = {} /\ Room
             /\ records' = Append(records, [key |-> Current, live |-> TRUE])
             /\ Remember(Len(records'))
    <3>1. /\ records' \in Seq(Records) /\ Len(records') <= MaxRecords /\ Len(records') = Len(records) + 1
          /\ OneHolder'
      BY <2>0, <2>2, CurrentIsLeft, CreationTyped
    <3>2. Len(records') \in Nat /\ Len(records') \in 1 .. Len(records') /\ Len(records) <= Len(records')
      BY <2>0, <3>1
    <3>3. RecordsTyped'
      BY <1>0, <2>0, <2>2, <3>1, <3>2, CurrentIsLeft DEF RecordsTyped, Remember
    <3>4. Current' = Current
      BY <1>6 DEF Create, Current
    <3>5. PublishTyped' /\ BuffersTyped'
      BY <1>0, <1>6, <2>0, <2>2, <3>2, <3>4, CurrentIsLeft DEF Create, Remember, PublishTyped, BuffersTyped, RecordsTyped
    <3> QED
      BY <3>1, <3>3, <3>5 DEF TypedInv
  <2> QED
    BY <1>6, <2>1, <2>2 DEF Create
<1>7. ASSUME NEW e \in EntityKeys, Holders(e) = {}, Room,
             records' = Append(records, [key |-> e, live |-> TRUE]),
             UNCHANGED <<buffers, pending, ids, pc, todo, collected>>
      PROVE  TypedInv'
  <2>1. /\ records' \in Seq(Records) /\ Len(records') <= MaxRecords /\ Len(records') = Len(records) + 1
        /\ OneHolder' /\ Len(records) \in Nat
    BY <1>7, CreationTyped, RecordFacts
  <2>2. RecordsTyped'
    BY <1>0, <1>7, <2>1 DEF RecordsTyped
  <2>3. PublishTyped' /\ BuffersTyped'
    BY <1>0, <1>7 DEF PublishTyped, BuffersTyped, Current
  <2> QED
    BY <2>1, <2>2, <2>3 DEF TypedInv
<1>8. CASE CreateUnanswered
  <2>1. Current \in EntityKeys
    BY <1>0, <1>8, CurrentIsLeft DEF CreateUnanswered, PublishTyped
  <2> QED
    BY <1>7, <1>8, <2>1 DEF CreateUnanswered
<1>9. CASE ResolveFails
  <2>1. todo # {} /\ pending' = [pending EXCEPT ![Current] = @ \ {}]
    BY <1>0, <1>9 DEF ResolveFails, PublishTyped, BuffersTyped
  <2> QED
    BY <1>9, <2>1, ProceedTyped DEF ResolveFails, platform
<1>10. CASE SendOk
  <2>1. todo # {}
    BY <1>0, <1>10 DEF SendOk, PublishTyped
  <2> QED
    BY <1>10, <2>1, ProceedTyped DEF SendOk
<1>11. CASE SendFails
  <2>1. todo # {}
    BY <1>0, <1>11 DEF SendFails, PublishTyped
  <2>2. PICK stored \in SUBSET batch : \E gone \in SUBSET stored : pending' = [pending EXCEPT ![Current] = @ \ gone]
    BY <1>11 DEF SendFails
  <2>3. PICK gone \in SUBSET stored : pending' = [pending EXCEPT ![Current] = @ \ gone]
    BY <2>2
  <2> QED
    BY <1>11, <2>1, <2>3, ProceedTyped DEF SendFails
<1>12. CASE SendGone
  <2>1. todo # {} /\ pending' = [pending EXCEPT ![Current] = @ \ {}]
    BY <1>0, <1>12 DEF SendGone, PublishTyped, BuffersTyped
  <2> QED
    BY <1>12, <2>1, ProceedTyped DEF SendGone, platform
<1>13. ASSUME NEW e \in EntityKeys, Collect(e) PROVE TypedInv'
  <2>1. buffers' \subseteq EntityKeys /\ IsFiniteSet(buffers') /\ Cardinality(buffers') <= MaxKeys
    <3>1. e \in buffers \/ Cardinality(buffers) < MaxKeys
      BY <1>13 DEF Collect
    <3>2. /\ IsFiniteSet(buffers \cup {e})
          /\ Cardinality(buffers \cup {e}) = IF e \in buffers THEN Cardinality(buffers) ELSE Cardinality(buffers) + 1
      BY <1>0, FS_AddElement DEF BuffersTyped
    <3>3. Cardinality(buffers) \in Nat /\ MaxKeys \in Nat
      BY <1>0, FS_CardinalityType, EntitiesAssumption DEF BuffersTyped
    <3> QED
      BY <1>0, <1>13, <3>1, <3>2, <3>3 DEF BuffersTyped, Collect
  <2>2. /\ pending' \in [EntityKeys -> SUBSET Nat] /\ collected' \in [EntityKeys -> Nat]
        /\ \A f \in EntityKeys : pending'[f] \subseteq 1 .. collected'[f]
    BY <1>0, <1>13 DEF BuffersTyped, Collect
  <2>3. PublishTyped' /\ RecordsTyped' /\ OneHolder'
    BY <1>0, <1>13 DEF PublishTyped, RecordsTyped, OneHolder, Collect, Current, platform
  <2> QED
    BY <2>1, <2>2, <2>3 DEF TypedInv, BuffersTyped
<1>14. ASSUME NEW e \in EntityKeys, OtherRunCreates(e) PROVE TypedInv'
  BY <1>7, <1>14 DEF OtherRunCreates
<1>15. ASSUME NEW r \in DOMAIN records, UserDeletes(r) PROVE TypedInv'
  <2>0. records[r] \in Records /\ records \in Seq(Records) /\ r \in 1 .. Len(records)
    BY RecordFacts
  <2>1. \A o \in Records : /\ [o EXCEPT !.live = FALSE] \in Records
                           /\ [o EXCEPT !.live = FALSE].key = o.key /\ ~[o EXCEPT !.live = FALSE].live
    BY DEF Records
  <2>2. PICK q \in Records : q = [records[r] EXCEPT !.live = FALSE] /\ q.key = records[r].key /\ ~q.live
    BY <2>0, <2>1
  <2>20. records' = [records EXCEPT ![r] = q]
    BY <1>15, <2>2 DEF UserDeletes
  <2>3. /\ records' \in Seq(Records) /\ Len(records') = Len(records)
        /\ \A t \in 1 .. Len(records) : records'[t] = IF t = r THEN q ELSE records[t]
    BY <2>0, <2>20, ExceptSeq
  <2>4. DOMAIN records' = DOMAIN records /\ DOMAIN records = 1 .. Len(records)
    BY <2>0, <2>3, LenProperties
  <2>5. OneHolder'
    BY <1>0, <2>2, <2>3, <2>4 DEF OneHolder
  <2>6. RecordsTyped'
    BY <1>0, <1>15, <2>3 DEF RecordsTyped, UserDeletes
  <2>7. PublishTyped' /\ BuffersTyped'
    BY <1>0, <1>15 DEF PublishTyped, BuffersTyped, Current, UserDeletes
  <2> QED
    BY <2>5, <2>6, <2>7 DEF TypedInv
<1>16. CASE UserDeletesHost
  BY <1>0, <1>16 DEF UserDeletesHost, Current, TypedInv, BuffersTyped, PublishTyped, RecordsTyped, OneHolder
<1>17. CASE UNCHANGED vars
  BY <1>0, <1>17 DEF vars, platform, Current, TypedInv, BuffersTyped, PublishTyped, RecordsTyped, OneHolder
<1> QED
  BY <1>1, <1>2, <1>3, <1>4, <1>5, <1>6, <1>8, <1>9, <1>10, <1>11, <1>12, <1>13,
     <1>14, <1>15, <1>16, <1>17 DEF Next, Publish

LEMMA TypedMeansTyped == TypedInv => TypeOK
<1> SUFFICES ASSUME TypedInv PROVE TypeOK
  OBVIOUS
<1>1. ASSUME NEW e \in EntityKeys PROVE Cardinality(Holders(e)) <= 1
  <2>1. \A r, q \in Holders(e) : r = q
    BY DEF TypedInv, OneHolder, Holders
  <2>2. CASE Holders(e) = {}
    BY <2>2, FS_EmptySet
  <2>3. CASE Holders(e) # {}
    <3>1. PICK r : Holders(e) = {r}
      BY <2>1, <2>3
    <3>2. Cardinality({r}) = 1
      BY FS_Singleton
    <3> QED
      BY <3>1, <3>2
  <2> QED
    BY <2>2, <2>3
<1>2. Len(records) \in Nat /\ Len(records) <= MaxRecords /\ MaxRecords \in Nat /\ ids \in [EntityKeys -> 0 .. Len(records)]
  BY RecordFacts, EntitiesAssumption DEF TypedInv, RecordsTyped
<1>3. \A e \in EntityKeys : ids[e] \in 0 .. MaxRecords
  BY <1>2
<1>4. pc = "send" => Target \in DOMAIN records
  <2> SUFFICES ASSUME pc = "send" PROVE Target \in DOMAIN records
    OBVIOUS
  <2>1. Current \in EntityKeys
    BY CurrentIsLeft DEF TypedInv, PublishTyped
  <2> QED
    BY <1>2, <2>1, RecordFacts DEF TypedInv, PublishTyped, Target
<1> QED
  BY <1>1, <1>3, <1>4 DEF TypeOK, TypedInv, BuffersTyped, PublishTyped

(* Buffers.Add, KeyCache, UpsertByKey: no module feeds more entities than  *)
(* its bound, values are only sent to a record that the platform has, and  *)
(* no two live records hold the key of one entity, whatever is deleted,    *)
(* created by other runs or left unanswered.                               *)
THEOREM EntitiesTyped == Spec => []TypeOK
<1>1. Init => TypedInv
  <2> SUFFICES ASSUME Init PROVE TypedInv
    OBVIOUS
  <2>1. buffers = {} /\ IsFiniteSet({}) /\ Cardinality({}) = 0 /\ MaxKeys \in Nat /\ MaxRecords \in Nat
    BY FS_EmptySet, EntitiesAssumption DEF Init
  <2>2. records = <<>> /\ records \in Seq(Records) /\ Len(records) = 0 /\ DOMAIN records = {}
    BY EmptySeq DEF Init
  <2> QED
    BY <2>1, <2>2 DEF Init, TypedInv, BuffersTyped, PublishTyped, RecordsTyped, OneHolder
<1> QED
  BY <1>1, TypedStep, TypedMeansTyped, PTL DEF Spec
=============================================================================
