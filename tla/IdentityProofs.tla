--------------------------- MODULE IdentityProofs ---------------------------
(***************************************************************************)
(* What HostIdentity promises for any starts on any machines, any records  *)
(* that are there already and runs of any length, proved with TLAPS.       *)
(***************************************************************************)
EXTENDS HostIdentity, SequenceTheorems, FiniteSetTheorems, TLAPS

(* The types the argument rests on. *)
Calls == {"lookup", "search", "adopt", "relook", "upsert", "done", "failed"}
Outcomes == {"none", "found", "adopted", "adopted-other-key", "created", "would-adopt", "would-create"}

(* Upserts are refused only while one is tried, and only so often.         *)
Refused(s) ==
  /\ pc[s] \in {"lookup", "search"} => refusals[s] = 0
  /\ pc[s] = "upsert" => refusals[s] < Attempts

Typed ==
  /\ TypeOK
  /\ pc \in [Starts -> Calls] /\ outcome \in [Starts -> Outcomes]
  /\ pick \in [Starts -> Nat] /\ host \in [Starts -> Nat] /\ refusals \in [Starts -> Nat]
  /\ \A s \in Starts : Refused(s)

(* A record keeps a machine's key only if it is that machine's.            *)
OwnKeys ==
  \A r \in DOMAIN records : records[r].key \in Identities => records[r].identity = records[r].key

(* The platform's index: no two live records have a key in common.         *)
UniqueKeys ==
  \A r, t \in Live : records[r].key # NoKey /\ records[r].key = records[t].key => r = t

(* The record a start is adopting is its machine's.                        *)
PicksOwn(s) ==
  pc[s] = "adopt" => pick[s] \in DOMAIN records /\ records[pick[s]].identity = Identity[s]

(* What a start took for its host has its key, and keeps it.               *)
HostKeyed(s) ==
  outcome[s] \in {"found", "adopted", "created"} =>
     host[s] \in DOMAIN records /\ records[host[s]].key = Identity[s]

(* A start that is about to create has seen that there is nothing to adopt,*)
(* and no earlier version leaves anything behind from then on.             *)
NothingToAdopt(s) ==
  pc[s] = "upsert" =>
     \A r \in Live : records[r].by = "legacy" => records[r].identity # Identity[s]

StartOK(s) == PicksOwn(s) /\ HostKeyed(s) /\ NothingToAdopt(s)

IInv == OwnKeys /\ UniqueKeys /\ (\A s \in Starts : StartOK(s)) /\ LegacyNotDoubled

(* Users do not give one machine's key to another machine's record.        *)
Mindful ==
  \A r \in DOMAIN records, k \in UserKeys \cap Identities :
     UserSetsKey(r, k) => records[r].identity = k

(* A later state of the records: none is lost, revived, given another      *)
(* identity or made by anybody else, and a machine's key stays put.        *)
Later ==
  /\ records' \in Seq(Records) /\ Len(records') <= MaxRecords
  /\ DOMAIN records \subseteq DOMAIN records'
  /\ \A r \in DOMAIN records :
       /\ records'[r].identity = records[r].identity
       /\ records'[r].by = records[r].by
       /\ records'[r].live => records[r].live
       /\ records[r].key \in Identities => records'[r].key = records[r].key
  /\ \A r \in DOMAIN records' \ DOMAIN records : records'[r].by # "legacy"

-----------------------------------------------------------------------------
(* Lemmas about the operators of the model.                                *)

(* Min of a non-empty set of naturals is one of them. *)
LEMMA MinBelongs ==
  ASSUME NEW T \in SUBSET Nat, T # {}
  PROVE  Min(T) \in T
<1> DEFINE upTo(n) == 0 .. n
           F == {upTo(n) : n \in T}
<1>1. F \subseteq FiniteSubsetsOf(Nat) /\ F # {}
  <2>1. ASSUME NEW n \in T PROVE upTo(n) \in FiniteSubsetsOf(Nat)
    BY FS_Interval DEF FiniteSubsetsOf
  <2> QED
    BY <2>1
<1>2. PICK X \in F : \A Y \in F : ~ (<<Y, X>> \in StrictSubsetOrdering(Nat))
  <2> HIDE DEF F
  <2> QED
    BY <1>1, FS_StrictSubsetOrderingWellFounded, WFMin
<1>3. PICK x \in T : X = upTo(x)
  OBVIOUS
<1>4. ASSUME NEW y \in T PROVE x =< y
  <2> SUFFICES ASSUME y < x PROVE FALSE
    OBVIOUS
  <2>1. upTo(y) \subseteq upTo(x) /\ x \in upTo(x) /\ x \notin upTo(y) /\ upTo(x) \subseteq Nat
    OBVIOUS
  <2>2. <<upTo(y), upTo(x)>> \in StrictSubsetOrdering(Nat)
    <3> HIDE DEF upTo
    <3> QED
      BY <2>1 DEF StrictSubsetOrdering
  <2> QED
    BY <1>2, <1>3, <2>2
<1> QED
  BY <1>4 DEF Min

(* Replacing one record of the sequence. *)
LEMMA OneReplaced ==
  ASSUME Typed, NEW r \in DOMAIN records, NEW rec \in Records,
         records' = [records EXCEPT ![r] = rec]
  PROVE  /\ records' \in Seq(Records) /\ Len(records') <= MaxRecords
         /\ DOMAIN records' = DOMAIN records
         /\ records'[r] = rec
         /\ \A t \in DOMAIN records : t # r => records'[t] = records[t]
  BY ExceptSeq, LenProperties DEF Typed, TypeOK

(* Appending one. *)
LEMMA OneAppended ==
  ASSUME Typed, Room, NEW rec \in Records, records' = Append(records, rec)
  PROVE  /\ records' \in Seq(Records) /\ Len(records') <= MaxRecords
         /\ Len(records') = Len(records) + 1
         /\ DOMAIN records' = DOMAIN records \cup {Len(records')}
         /\ Len(records') \notin DOMAIN records
         /\ records'[Len(records')] = rec
         /\ \A t \in DOMAIN records : records'[t] = records[t]
<1> USE IdentityAssumption
<1>1. records \in Seq(Records) /\ Len(records) \in Nat /\ DOMAIN records = 1 .. Len(records)
  BY LenProperties DEF Typed, TypeOK
<1>2. /\ records' \in Seq(Records) /\ Len(records') = Len(records) + 1
      /\ records'[Len(records')] = rec
      /\ \A t \in 1 .. Len(records) : records'[t] = records[t]
  BY <1>1, AppendProperties
<1>3. DOMAIN records' = 1 .. Len(records) + 1
  BY <1>2, LenProperties
<1> QED
  BY <1>1, <1>2, <1>3 DEF Room

(* What every record of a typed state holds. *)
LEMMA RecordTyped ==
  ASSUME Typed, NEW r \in DOMAIN records
  PROVE  /\ records[r] \in Records
         /\ r \in 1 .. MaxRecords
         /\ records[r] = [key |-> records[r].key, identity |-> records[r].identity,
                          live |-> records[r].live, by |-> records[r].by]
<1> USE IdentityAssumption
<1>1. records \in Seq(Records) /\ Len(records) \in Nat /\ DOMAIN records = 1 .. Len(records)
  BY LenProperties DEF Typed, TypeOK
<1>2. records[r] \in Records
  BY <1>1, ElementOfSeq
<1>3. r \in 1 .. MaxRecords
  BY <1>1 DEF Typed, TypeOK
<1> QED
  BY <1>2, <1>3 DEF Records

(* Changing one field of a record. *)
LEMMA FieldChanged ==
  ASSUME NEW q \in Records
  PROVE  /\ \A k : [q EXCEPT !.key = k] =
                   [key |-> k, identity |-> q.identity, live |-> q.live, by |-> q.by]
         /\ \A l : [q EXCEPT !.live = l] =
                   [key |-> q.key, identity |-> q.identity, live |-> l, by |-> q.by]
  BY DEF Records

(* An upsert that finds the key leaves everything as it is. *)
LEMMA HolderKept ==
  ASSUME Typed, OwnKeys, NEW s \in Starts, Holders(Identity[s]) # {}
  PROVE  Upserted(s) = records /\ Holder(Identity[s]) \in Holders(Identity[s])
<1>1. PICK h \in Holders(Identity[s]) : h = Holder(Identity[s])
  BY DEF Holder
<1>2. h \in DOMAIN records /\ records[h].key = Identity[s] /\ Identity[s] \in Identities
  BY <1>1 DEF Holders, Live, Identities
<1>3. records[h].identity = Identity[s]
  BY <1>2 DEF OwnKeys
<1>4. [records[h] EXCEPT !.identity = Identity[s]] = records[h]
  BY <1>2, <1>3, RecordTyped DEF Records
<1>5. records \in [1 .. Len(records) -> Records]
  BY LenProperties DEF Typed, TypeOK
<1>6. Upserted(s) = [records EXCEPT ![h] = [records[h] EXCEPT !.identity = Identity[s]]]
  BY <1>1 DEF Upserted
<1> QED
  BY <1>1, <1>2, <1>4, <1>5, <1>6

-----------------------------------------------------------------------------
(* What each kind of write does to the records.                            *)

RecordsOK == OwnKeys /\ UniqueKeys
RecordsStep == Later /\ OwnKeys' /\ UniqueKeys'

LEMMA RecordsUntouched ==
  ASSUME Typed, RecordsOK, UNCHANGED records
  PROVE  RecordsStep
<1>1. Later
  BY DEF Later, Typed, TypeOK
<1>2. OwnKeys' /\ UniqueKeys'
  BY DEF RecordsOK, OwnKeys, UniqueKeys, Live
<1> QED
  BY <1>1, <1>2 DEF RecordsStep

(* A free key is put on a record of the machine whose it is, whose own key *)
(* is not another machine's.                                               *)
LEMMA KeyPut ==
  ASSUME Typed, RecordsOK, NEW r \in Live, NEW k \in Identities \cup UserKeys,
         Holders(k) \subseteq {r},
         k \in Identities => records[r].identity = k,
         records[r].key \in Identities => records[r].key = k,
         records' = [records EXCEPT ![r].key = k]
  PROVE  RecordsStep
<1> DEFINE rec == [key |-> k, identity |-> records[r].identity,
                   live |-> records[r].live, by |-> records[r].by]
<1>1. r \in DOMAIN records /\ records[r] \in Records /\ records[r].live
  BY RecordTyped DEF Live
<1>2. rec \in Records /\ [records[r] EXCEPT !.key = k] = rec
  <2>1. rec \in Records
    BY <1>1, RecordTyped DEF Records
  <2>2. [records[r] EXCEPT !.key = k] = rec
    BY <1>1, FieldChanged
  <2> QED
    BY <2>1, <2>2
<1>3. records' = [records EXCEPT ![r] = rec]
  BY <1>1, <1>2
<1> HIDE DEF rec
<1>4. /\ records' \in Seq(Records) /\ Len(records') <= MaxRecords
      /\ DOMAIN records' = DOMAIN records
      /\ records'[r] = rec
      /\ \A t \in DOMAIN records : t # r => records'[t] = records[t]
  BY <1>1, <1>2, <1>3, OneReplaced
<1>5. /\ records'[r].key = k /\ records'[r].identity = records[r].identity
      /\ records'[r].live /\ records'[r].by = records[r].by
  BY <1>1, <1>4 DEF rec
<1>6. Later
  BY <1>1, <1>4, <1>5 DEF Later
<1>7. OwnKeys'
  BY <1>4, <1>5 DEF OwnKeys, RecordsOK, Identities
<1>8. UniqueKeys'
  <2> SUFFICES ASSUME NEW t \in Live', NEW u \in Live',
                      records'[t].key # NoKey, records'[t].key = records'[u].key, t # u
               PROVE  FALSE
    BY DEF UniqueKeys
  <2>1. t \in Live /\ u \in Live
    BY <1>1, <1>4 DEF Live
  <2>2. CASE t = r
    BY <1>4, <1>5, <2>1, <2>2 DEF Holders, Live
  <2>3. CASE u = r
    BY <1>4, <1>5, <2>1, <2>3 DEF Holders, Live
  <2>4. CASE t # r /\ u # r
    BY <1>4, <2>1, <2>4 DEF UniqueKeys, RecordsOK, Live
  <2> QED
    BY <2>2, <2>3, <2>4
<1> QED
  BY <1>6, <1>7, <1>8 DEF RecordsStep

(* A record is deleted. *)
LEMMA RecordDeleted ==
  ASSUME Typed, RecordsOK, NEW r \in Live, records' = [records EXCEPT ![r].live = FALSE]
  PROVE  RecordsStep
<1> DEFINE rec == [key |-> records[r].key, identity |-> records[r].identity,
                   live |-> FALSE, by |-> records[r].by]
<1>1. r \in DOMAIN records /\ records[r] \in Records /\ records[r].live
  BY RecordTyped DEF Live
<1>2. rec \in Records /\ [records[r] EXCEPT !.live = FALSE] = rec
  <2>1. rec \in Records
    BY <1>1, RecordTyped DEF Records
  <2>2. [records[r] EXCEPT !.live = FALSE] = rec
    BY <1>1, FieldChanged
  <2> QED
    BY <2>1, <2>2
<1>3. records' = [records EXCEPT ![r] = rec]
  BY <1>1, <1>2
<1> HIDE DEF rec
<1>4. /\ records' \in Seq(Records) /\ Len(records') <= MaxRecords
      /\ DOMAIN records' = DOMAIN records
      /\ records'[r] = rec
      /\ \A t \in DOMAIN records : t # r => records'[t] = records[t]
  BY <1>1, <1>2, <1>3, OneReplaced
<1>5. /\ records'[r].key = records[r].key /\ records'[r].identity = records[r].identity
      /\ ~records'[r].live /\ records'[r].by = records[r].by
  BY <1>1, <1>4 DEF rec
<1>6. Later
  BY <1>1, <1>4, <1>5 DEF Later
<1>7. OwnKeys'
  BY <1>4, <1>5 DEF OwnKeys, RecordsOK, Identities
<1>8. UniqueKeys'
  BY <1>4, <1>5 DEF UniqueKeys, RecordsOK, Live
<1> QED
  BY <1>6, <1>7, <1>8 DEF RecordsStep

(* A record is created, without a key or with a free one of its machine's. *)
LEMMA RecordCreated ==
  ASSUME Typed, RecordsOK, Room, NEW i \in Identities, NEW k \in {NoKey, i},
         NEW by \in {"old", "start"}, Holders(i) = {} \/ k = NoKey,
         records' = Append(records, Record(k, i, by))
  PROVE  /\ RecordsStep
         /\ DOMAIN records' = DOMAIN records \cup {Len(records')}
         /\ Len(records') \notin DOMAIN records
         /\ records'[Len(records')] = Record(k, i, by)
         /\ \A t \in DOMAIN records : records'[t] = records[t]
<1>1. Record(k, i, by) \in Records
  BY DEF Record, Records
<1>2. /\ records' \in Seq(Records) /\ Len(records') <= MaxRecords
      /\ DOMAIN records' = DOMAIN records \cup {Len(records')}
      /\ Len(records') \notin DOMAIN records
      /\ records'[Len(records')] = Record(k, i, by)
      /\ \A t \in DOMAIN records : records'[t] = records[t]
  BY <1>1, OneAppended
<1>3. PICK n : n = Len(records')
  OBVIOUS
<1>4. /\ records'[n].key = k /\ records'[n].identity = i
      /\ records'[n].live /\ records'[n].by = by
  BY <1>2, <1>3 DEF Record
<1>5. Later
  BY <1>2, <1>3, <1>4 DEF Later
<1>6. OwnKeys'
  BY <1>2, <1>3, <1>4, IdentityAssumption DEF OwnKeys, RecordsOK, Identities
<1>7. UniqueKeys'
  <2> SUFFICES ASSUME NEW t \in Live', NEW u \in Live',
                      records'[t].key # NoKey, records'[t].key = records'[u].key, t # u
               PROVE  FALSE
    BY DEF UniqueKeys
  <2>1. CASE t = n
    BY <1>2, <1>3, <1>4, <2>1 DEF Holders, Live
  <2>2. CASE u = n
    BY <1>2, <1>3, <1>4, <2>2 DEF Holders, Live
  <2>3. CASE t # n /\ u # n
    BY <1>2, <1>3, <2>3 DEF UniqueKeys, RecordsOK, Live
  <2> QED
    BY <2>1, <2>2, <2>3
<1> QED
  BY <1>2, <1>5, <1>6, <1>7 DEF RecordsStep

-----------------------------------------------------------------------------
(* Typing.                                                                 *)

(* The search picks a record that is there. *)
LEMMA SearchPicks ==
  ASSUME Typed, NEW k \in Identities, Found(k) # {}
  PROVE  Min(Found(k)) \in Found(k) /\ Min(Found(k)) \in 1 .. MaxRecords
<1>1. Found(k) \in SUBSET Nat /\ Found(k) \subseteq 1 .. MaxRecords
  BY RecordTyped, IdentityAssumption DEF Found, Live
<1> QED
  BY <1>1, MinBelongs

LEMMA TypedInit == Init => Typed
<1> SUFFICES ASSUME Init PROVE Typed
  OBVIOUS
<1> USE IdentityAssumption, LegacyAssumption
<1>1. TypeOK
  BY DEF Init, TypeOK
<1> QED
  BY <1>1 DEF Init, Typed, Refused, Calls, Outcomes

(* A start moves on, and the records stay typed. *)
LEMMA TypedMove ==
  ASSUME Typed, NEW s \in Starts,
         records' \in Seq(Records), Len(records') <= MaxRecords,
         NEW p \in Calls,
         pc' = [pc EXCEPT ![s] = p],
         NEW q \in 0 .. MaxRecords, pick' = [pick EXCEPT ![s] = q], p = "adopt" => q # 0,
         NEW h \in 0 .. MaxRecords, host' = [host EXCEPT ![s] = h],
         NEW o \in Outcomes, outcome' = [outcome EXCEPT ![s] = o],
         NEW n \in 0 .. Attempts, refusals' = [refusals EXCEPT ![s] = n],
         p \in {"lookup", "search"} => n = 0, p = "upsert" => n < Attempts
  PROVE  Typed'
<1> USE IdentityAssumption
<1>1. TypeOK'
  BY DEF Typed, TypeOK, Calls
<1>2. /\ pc' \in [Starts -> Calls] /\ outcome' \in [Starts -> Outcomes]
      /\ pick' \in [Starts -> Nat] /\ host' \in [Starts -> Nat]
      /\ refusals' \in [Starts -> Nat]
  BY DEF Typed
<1>3. \A t \in Starts : Refused(t)'
  BY DEF Typed, Refused
<1> QED
  BY <1>1, <1>2, <1>3 DEF Typed

(* Nobody moves on. *)
LEMMA TypedStay ==
  ASSUME Typed, records' \in Seq(Records), Len(records') <= MaxRecords,
         UNCHANGED <<pc, pick, refusals, host, outcome>>
  PROVE  Typed'
  BY DEF Typed, TypeOK, Refused

(* The counterparts of the steps of a start. *)
LEMMA TypedWrites ==
  ASSUME Typed
  PROVE  /\ records \in Seq(Records) /\ Len(records) <= MaxRecords
         /\ \A r \in DOMAIN records, k \in Identities \cup UserKeys :
              LET new == [records EXCEPT ![r].key = k]
              IN  new \in Seq(Records) /\ Len(new) = Len(records)
         /\ \A r \in DOMAIN records, i \in Identities :
              LET new == [records EXCEPT ![r].identity = i]
              IN  new \in Seq(Records) /\ Len(new) = Len(records)
         /\ \A r \in DOMAIN records :
              LET new == [records EXCEPT ![r].live = FALSE]
              IN  new \in Seq(Records) /\ Len(new) = Len(records)
         /\ Room => \A k \in Identities \cup {NoKey}, i \in Identities, by \in {"old", "start"} :
              LET new == Append(records, Record(k, i, by))
              IN  new \in Seq(Records) /\ Len(new) = Len(records) + 1 /\ Len(new) <= MaxRecords
<1> USE IdentityAssumption
<1>1. /\ records \in Seq(Records) /\ Len(records) <= MaxRecords
      /\ Len(records) \in Nat /\ DOMAIN records = 1 .. Len(records)
  BY LenProperties DEF Typed, TypeOK
<1>2. \A rec \in Records, r \in DOMAIN records :
         /\ [records EXCEPT ![r] = rec] \in Seq(Records)
         /\ Len([records EXCEPT ![r] = rec]) = Len(records)
  BY <1>1, ExceptSeq
<1>3. ASSUME NEW r \in DOMAIN records, NEW k \in Identities \cup UserKeys
      PROVE  [records[r] EXCEPT !.key = k] \in Records
  BY RecordTyped, FieldChanged DEF Records
<1>4. ASSUME NEW r \in DOMAIN records
      PROVE  [records[r] EXCEPT !.live = FALSE] \in Records
  BY RecordTyped, FieldChanged DEF Records
<1>5. ASSUME NEW r \in DOMAIN records, NEW i \in Identities
      PROVE  [records[r] EXCEPT !.identity = i] \in Records
  <2>1. PICK q \in Records : q = records[r]
    BY RecordTyped
  <2>2. [q EXCEPT !.identity = i] \in Records
    BY DEF Records
  <2> QED
    BY <2>1, <2>2
<1>6. ASSUME Room, NEW k \in Identities \cup {NoKey}, NEW i \in Identities, NEW by \in {"old", "start"}
      PROVE  LET new == Append(records, Record(k, i, by))
             IN  new \in Seq(Records) /\ Len(new) = Len(records) + 1 /\ Len(new) <= MaxRecords
  <2>1. Record(k, i, by) \in Records
    BY DEF Record, Records
  <2> QED
    BY <1>1, <1>6, <2>1, AppendProperties DEF Room
<1> QED
  BY <1>1, <1>2, <1>3, <1>4, <1>5, <1>6

LEMMA TypedGoes ==
  ASSUME Typed, NEW s \in Starts, NEW p \in Calls, Goes(s, p),
         records' \in Seq(Records), Len(records') <= MaxRecords,
         NEW q \in 0 .. MaxRecords, pick' = [pick EXCEPT ![s] = q], p = "adopt" => q # 0,
         NEW n \in 0 .. Attempts, refusals' = [refusals EXCEPT ![s] = n],
         p \in {"lookup", "search"} => n = 0, p = "upsert" => n < Attempts
  PROVE  Typed'
<1>1. pc' = [pc EXCEPT ![s] = p] /\ host' = [host EXCEPT ![s] = host[s]]
      /\ outcome' = [outcome EXCEPT ![s] = outcome[s]]
  BY DEF Goes, Typed
<1>2. host[s] \in 0 .. MaxRecords /\ outcome[s] \in Outcomes
  BY DEF Typed, TypeOK
<1> QED
  BY <1>1, <1>2, TypedMove

LEMMA TypedResolves ==
  ASSUME Typed, NEW s \in Starts, NEW h \in 0 .. MaxRecords, NEW o \in Outcomes, Resolves(s, h, o),
         records' \in Seq(Records), Len(records') <= MaxRecords,
         NEW q \in 0 .. MaxRecords, pick' = [pick EXCEPT ![s] = q],
         UNCHANGED refusals
  PROVE  Typed'
<1>1. /\ pc' = [pc EXCEPT ![s] = "done"] /\ host' = [host EXCEPT ![s] = h]
      /\ outcome' = [outcome EXCEPT ![s] = o]
  BY DEF Resolves
<1>2. refusals' = [refusals EXCEPT ![s] = refusals[s]] /\ refusals[s] \in 0 .. Attempts
  BY DEF Typed, TypeOK
<1> QED
  BY <1>1, <1>2, TypedMove DEF Calls

(* The same without a change of the pick and the refusals.                 *)
LEMMA TypedKeeps ==
  ASSUME Typed, NEW s \in Starts, UNCHANGED <<pick, refusals>>,
         records' \in Seq(Records), Len(records') <= MaxRecords,
         \/ \E p \in {"search", "relook", "failed"} :
                Goes(s, p) /\ (p = "search" => pc[s] = "lookup")
         \/ \E h \in 0 .. MaxRecords, o \in Outcomes : Resolves(s, h, o)
  PROVE  Typed'
<1>1. /\ pick' = [pick EXCEPT ![s] = pick[s]] /\ pick[s] \in 0 .. MaxRecords
      /\ refusals' = [refusals EXCEPT ![s] = refusals[s]] /\ refusals[s] \in 0 .. Attempts
  BY DEF Typed, TypeOK
<1>2. CASE \E p \in {"search", "relook", "failed"} :
             Goes(s, p) /\ (p = "search" => pc[s] = "lookup")
  <2>1. PICK p \in {"search", "relook", "failed"} :
          Goes(s, p) /\ (p = "search" => pc[s] = "lookup")
    BY <1>2
  <2>2. p = "search" => refusals[s] = 0
    BY <2>1 DEF Typed, Refused
  <2> QED
    BY <1>1, <2>1, <2>2, TypedGoes DEF Calls
<1>3. CASE \E h \in 0 .. MaxRecords, o \in Outcomes : Resolves(s, h, o)
  BY <1>1, <1>3, TypedResolves
<1> QED
  BY <1>2, <1>3

LEMMA HolderThere ==
  ASSUME Typed, NEW k, Holders(k) # {}
  PROVE  Holder(k) \in Holders(k) /\ Holder(k) \in 1 .. MaxRecords /\ Holder(k) \in DOMAIN records
<1>1. Holder(k) \in Holders(k)
  BY DEF Holder
<1> QED
  BY <1>1, RecordTyped DEF Holders, Live

LEMMA TypedUpserted ==
  ASSUME Typed, NEW s \in Starts, Holders(Identity[s]) # {} \/ Room
  PROVE  /\ Upserted(s) \in Seq(Records) /\ Len(Upserted(s)) <= MaxRecords
         /\ Holders(Identity[s]) = {} => Len(Upserted(s)) \in 1 .. MaxRecords
<1>1. Identity[s] \in Identities
  BY DEF Identities
<1>2. CASE Holders(Identity[s]) # {}
  BY <1>1, <1>2, HolderThere, TypedWrites DEF Upserted
<1>3. CASE Holders(Identity[s]) = {}
  <2>1. Upserted(s) = Append(records, Record(Identity[s], Identity[s], "start"))
    BY <1>3 DEF Upserted
  <2>2. Room /\ Len(records) \in Nat
    BY <1>3, LenProperties DEF Typed, TypeOK
  <2>3. Len(Upserted(s)) = Len(records) + 1 /\ Len(Upserted(s)) <= MaxRecords
        /\ Upserted(s) \in Seq(Records)
    BY <1>1, <2>1, <2>2, TypedWrites
  <2> QED
    BY <2>2, <2>3, IdentityAssumption
<1> QED
  BY <1>2, <1>3

LEMMA TypedStep == Typed /\ [Next]_vars => Typed'
<1> SUFFICES ASSUME Typed, [Next]_vars PROVE Typed'
  OBVIOUS
<1> USE IdentityAssumption
<1>1. ASSUME NEW s \in Starts, LookUp(s) PROVE Typed'
  BY <1>1, HolderThere, TypedKeeps, TypedWrites DEF LookUp, Calls, Outcomes
<1>2. ASSUME NEW s \in Starts, Search(s) PROVE Typed'
  <2> DEFINE k == Identity[s]
             oldest == Min(Found(k))
  <2>1. k \in Identities
    BY DEF Identities
  <2>2. /\ pick' = [pick EXCEPT ![s] = IF pc'[s] = "adopt" THEN oldest ELSE 0]
        /\ UNCHANGED records /\ UNCHANGED refusals
    BY <1>2 DEF Search
  <2>3. refusals' = [refusals EXCEPT ![s] = refusals[s]] /\ refusals[s] \in 0 .. Attempts
    BY <2>2 DEF Typed, TypeOK
  <2>4. records' \in Seq(Records) /\ Len(records') <= MaxRecords
    BY <2>2 DEF Typed, TypeOK
  <2>0. 0 \in 0 .. MaxRecords
    BY DEF Typed, TypeOK
  <2>5. CASE Found(k) = {}
    <3>1. CASE Resolves(s, 0, "would-create")
      <4>1. pick' = [pick EXCEPT ![s] = 0]
        BY <2>2, <3>1 DEF Resolves, Typed
      <4> HIDE DEF k
      <4> QED
        BY <2>0, <2>2, <2>4, <3>1, <4>1, TypedResolves DEF Outcomes
    <3>2. CASE Goes(s, "upsert")
      <4>1. pick' = [pick EXCEPT ![s] = 0]
        BY <2>2, <3>2 DEF Goes, Typed
      <4>2. refusals[s] = 0
        BY <1>2 DEF Search, Typed, Refused
      <4>3. refusals' = [refusals EXCEPT ![s] = 0] /\ 0 \in 0 .. Attempts /\ 0 < Attempts
        BY <2>3, <4>2
      <4> HIDE DEF k
      <4> QED
        BY <2>0, <2>4, <3>2, <4>1, <4>3, TypedGoes DEF Calls
    <3> QED
      BY <1>2, <2>5, <3>1, <3>2 DEF Search
  <2>6. CASE Found(k) # {}
    <3>1. oldest \in 1 .. MaxRecords
      BY <2>1, <2>6, SearchPicks
    <3>2. (\E o \in Outcomes : Resolves(s, oldest, o)) \/ Goes(s, "adopt")
      BY <1>2, <2>6 DEF Search, Outcomes
    <3>3. CASE Goes(s, "adopt")
      <4>1. pick' = [pick EXCEPT ![s] = oldest]
        BY <2>2, <3>3 DEF Goes, Typed
      <4>2. oldest \in 0 .. MaxRecords /\ oldest # 0
        BY <3>1
      <4> HIDE DEF k, oldest
      <4> QED
        BY <2>3, <2>4, <3>3, <4>1, <4>2, TypedGoes DEF Calls
    <3>4. CASE \E o \in Outcomes : Resolves(s, oldest, o)
      <4>1. PICK q \in 0 .. MaxRecords : pick' = [pick EXCEPT ![s] = q]
        <5>1. CASE pc'[s] = "adopt"
          <6>1. oldest \in 0 .. MaxRecords
            BY <3>1
          <6> HIDE DEF oldest
          <6> QED
            BY <2>2, <5>1, <6>1
        <5>2. CASE pc'[s] # "adopt"
          BY <2>0, <2>2, <5>2
        <5> QED
          BY <5>1, <5>2
      <4>2. PICK o \in Outcomes, h \in 0 .. MaxRecords : Resolves(s, h, o)
        BY <3>1, <3>4
      <4> HIDE DEF k
      <4> QED
        BY <2>2, <2>4, <4>1, <4>2, TypedResolves
    <3> QED
      BY <3>2, <3>3, <3>4
  <2> QED
    BY <2>5, <2>6
<1>3. ASSUME NEW s \in Starts, Keyable(s)
      PROVE  Keyed(s) \in Seq(Records) /\ Len(Keyed(s)) <= MaxRecords
  BY <1>3, TypedWrites DEF Keyable, Keyed, Live, Identities
<1>4. ASSUME NEW s \in Starts, Adopt(s) PROVE Typed'
  <2>1. pick[s] \in 0 .. MaxRecords
    BY DEF Typed, TypeOK
  <2>2. records' \in Seq(Records) /\ Len(records') <= MaxRecords
    BY <1>3, <1>4 DEF Adopt, Typed, TypeOK
  <2> QED
    BY <1>4, <2>1, <2>2, TypedKeeps DEF Adopt, Calls, Outcomes
<1>5. ASSUME NEW s \in Starts, AdoptUnanswered(s) PROVE Typed'
  BY <1>3, <1>5, TypedStay DEF AdoptUnanswered
<1>6. ASSUME NEW s \in Starts, LookAgain(s) PROVE Typed'
  BY <1>6, HolderThere, TypedKeeps, TypedWrites DEF LookAgain, Calls, Outcomes
<1>7. ASSUME NEW s \in Starts, Upsert(s) PROVE Typed'
  <2>1. records' \in Seq(Records) /\ Len(records') <= MaxRecords
    BY <1>7, TypedUpserted DEF Upsert
  <2>2. \E h \in 0 .. MaxRecords, o \in Outcomes : Resolves(s, h, o)
    BY <1>7, HolderThere, TypedUpserted DEF Upsert, Outcomes
  <2> QED
    BY <1>7, <2>1, <2>2, TypedKeeps DEF Upsert
<1>8. ASSUME NEW s \in Starts, UpsertUnanswered(s) PROVE Typed'
  BY <1>8, TypedUpserted, TypedStay DEF UpsertUnanswered
<1>9. ASSUME NEW s \in Starts, UpsertTaken(s) PROVE Typed'
  <2>1. records' \in Seq(Records) /\ Len(records') <= MaxRecords
    BY <1>9 DEF UpsertTaken, Typed, TypeOK
  <2>2. pick' = [pick EXCEPT ![s] = pick[s]] /\ pick[s] \in 0 .. MaxRecords
    BY <1>9 DEF UpsertTaken, Typed, TypeOK
  <2>3. refusals' = [refusals EXCEPT ![s] = refusals[s] + 1]
    BY <1>9 DEF UpsertTaken
  <2>4. PICK p \in {"upsert", "relook"} : Goes(s, p) /\ (p = "upsert" => refusals[s] + 1 < Attempts)
    BY <1>9 DEF UpsertTaken
  <2>5. refusals[s] + 1 \in 0 .. Attempts
    BY <1>9 DEF UpsertTaken, Typed, TypeOK, Refused
  <2> QED
    BY <2>1, <2>2, <2>3, <2>4, <2>5, TypedGoes DEF Calls
<1>10. ASSUME NEW s \in Starts, Fails(s) PROVE Typed'
  BY <1>10, TypedKeeps, TypedWrites DEF Fails, Calls
<1>11. ASSUME NEW k \in Identities, OldVersionCreates(k) PROVE Typed'
  BY <1>11, TypedWrites, TypedStay DEF OldVersionCreates
<1>12. ASSUME NEW r \in DOMAIN records, UserDeletes(r) PROVE Typed'
  BY <1>12, TypedWrites, TypedStay DEF UserDeletes
<1>13. ASSUME NEW r \in DOMAIN records, NEW k \in UserKeys, UserSetsKey(r, k) PROVE Typed'
  BY <1>13, TypedWrites, TypedStay DEF UserSetsKey
<1>14. CASE UNCHANGED vars
  BY <1>14, TypedWrites, TypedStay DEF vars
<1> QED
  BY <1>1, <1>2, <1>4, <1>5, <1>6, <1>7, <1>8, <1>9, <1>10, <1>11, <1>12, <1>13, <1>14 DEF Next, Start

(* ResolveHost: whatever the starts and everybody else do, upserts are     *)
(* tried upsertAttempts times, what is adopted is a record, and no state   *)
(* leaves its type.                                                        *)
THEOREM StartsTyped == Spec => []TypeOK
<1>1. Typed => TypeOK
  BY DEF Typed
<1> QED
  BY TypedInit, TypedStep, <1>1, PTL DEF Spec

-----------------------------------------------------------------------------
(* The invariant.                                                          *)

LEMMA IInvInit == Init => IInv
<1> SUFFICES ASSUME Init PROVE IInv
  OBVIOUS
<1>1. OwnKeys /\ UniqueKeys /\ LegacyNotDoubled
  BY LegacyAssumption DEF Init, OwnKeys, UniqueKeys, LegacyNotDoubled, Live
<1>2. ASSUME NEW s \in Starts PROVE StartOK(s)
  BY DEF Init, StartOK, PicksOwn, HostKeyed, NothingToAdopt
<1> QED
  BY <1>1, <1>2 DEF IInv

(* A start that does not move stays right, whoever writes.                 *)
LEMMA StartStays ==
  ASSUME Typed, IInv, RecordsStep, NEW s \in Starts,
         pc'[s] = pc[s], pick'[s] = pick[s], host'[s] = host[s], outcome'[s] = outcome[s]
  PROVE  StartOK(s)'
<1>1. Later /\ StartOK(s) /\ Identity[s] \in Identities
  BY DEF RecordsStep, IInv, Identities
<1>2. PicksOwn(s)'
  BY <1>1 DEF StartOK, PicksOwn, Later
<1>3. HostKeyed(s)'
  BY <1>1 DEF StartOK, HostKeyed, Later
<1>4. NothingToAdopt(s)'
  BY <1>1 DEF StartOK, NothingToAdopt, Later, Live
<1> QED
  BY <1>2, <1>3, <1>4 DEF StartOK

(* Nor does a start that goes on without taking a host or a pick.          *)
LEMMA StartGoes ==
  ASSUME Typed, IInv, RecordsStep, NEW s \in Starts, NEW p \in Calls, Goes(s, p),
         p # "adopt", p = "upsert" => NothingToAdopt(s)'
  PROVE  StartOK(s)'
<1>1. Later /\ StartOK(s) /\ Identity[s] \in Identities
  BY DEF RecordsStep, IInv, Identities
<1>2. pc'[s] = p /\ host'[s] = host[s] /\ outcome'[s] = outcome[s]
  BY DEF Goes, Typed
<1>3. PicksOwn(s)'
  BY <1>2 DEF PicksOwn
<1>4. HostKeyed(s)'
  BY <1>1, <1>2 DEF StartOK, HostKeyed, Later
<1>5. NothingToAdopt(s)'
  BY <1>2 DEF NothingToAdopt
<1> QED
  BY <1>3, <1>4, <1>5 DEF StartOK

(* Nor one that takes a record with its machine's key.                     *)
LEMMA StartResolves ==
  ASSUME Typed, NEW s \in Starts, NEW h, NEW o, Resolves(s, h, o),
         o \in {"found", "adopted", "created"} => h \in DOMAIN records' /\ records'[h].key = Identity[s]
  PROVE  StartOK(s)'
<1>1. pc'[s] = "done" /\ host'[s] = h /\ outcome'[s] = o
  BY DEF Resolves, Typed
<1> QED
  BY <1>1 DEF StartOK, PicksOwn, HostKeyed, NothingToAdopt

(* The other starts do not move. *)
LEMMA OthersStay ==
  ASSUME Typed, IInv, RecordsStep, NEW s \in Starts, NEW t \in Starts, t # s,
         \/ \E p : Goes(s, p)
         \/ \E h, o : Resolves(s, h, o),
         UNCHANGED pick \/ \E q : pick' = [pick EXCEPT ![s] = q]
  PROVE  StartOK(t)'
<1>1. pc'[t] = pc[t] /\ host'[t] = host[t] /\ outcome'[t] = outcome[t]
  BY DEF Goes, Resolves, Typed
<1>2. pick'[t] = pick[t]
  BY DEF Typed
<1> QED
  BY <1>1, <1>2, StartStays

(* Writes that create nothing for a start double nothing.                  *)
LEMMA LegacyKept ==
  ASSUME IInv, RecordsStep, \A r \in DOMAIN records' \ DOMAIN records : records'[r].by # "start"
  PROVE  LegacyNotDoubled'
  BY DEF IInv, RecordsStep, Later, LegacyNotDoubled, Live

(* Putting the machine's key on the record a start picked. *)
LEMMA KeyedStep ==
  ASSUME Typed, IInv, NEW s \in Starts, pc[s] = "adopt", Keyable(s), records' = Keyed(s)
  PROVE  /\ RecordsStep /\ LegacyNotDoubled'
         /\ pick[s] \in DOMAIN records' /\ records'[pick[s]].key = Identity[s]
<1>1. /\ pick[s] \in Live /\ Holders(Identity[s]) \subseteq {pick[s]}
      /\ records' = [records EXCEPT ![pick[s]].key = Identity[s]]
  BY DEF Keyable, Keyed
<1>2. Identity[s] \in Identities /\ records[pick[s]].identity = Identity[s] /\ pick[s] \in DOMAIN records
  BY DEF IInv, StartOK, PicksOwn, Identities
<1>3. records[pick[s]].key \in Identities => records[pick[s]].key = Identity[s]
  BY <1>2 DEF IInv, OwnKeys
<1>4. RecordsStep
  BY <1>1, <1>2, <1>3, KeyPut DEF IInv, RecordsOK
<1>5. DOMAIN records' = DOMAIN records /\ records'[pick[s]].key = Identity[s]
  <2>1. records' = [records EXCEPT ![pick[s]] = [records[pick[s]] EXCEPT !.key = Identity[s]]]
    BY <1>1
  <2>2. [records[pick[s]] EXCEPT !.key = Identity[s]].key = Identity[s]
    BY <1>2, RecordTyped, FieldChanged
  <2>3. records \in [1 .. Len(records) -> Records]
    BY LenProperties DEF Typed, TypeOK
  <2> QED
    BY <1>2, <2>1, <2>2, <2>3
<1> QED
  BY <1>2, <1>4, <1>5, LegacyKept

(* An upsert: nothing, or the machine's first record, where there was      *)
(* nothing to adopt.                                                       *)
LEMMA UpsertedStep ==
  ASSUME Typed, IInv, NEW s \in Starts, pc[s] = "upsert",
         Holders(Identity[s]) # {} \/ Room, records' = Upserted(s)
  PROVE  /\ RecordsStep /\ LegacyNotDoubled'
         /\ Holders(Identity[s]) # {} =>
              /\ Holder(Identity[s]) \in DOMAIN records'
              /\ records'[Holder(Identity[s])].key = Identity[s]
         /\ Holders(Identity[s]) = {} =>
              Len(records') \in DOMAIN records' /\ records'[Len(records')].key = Identity[s]
<1>1. Identity[s] \in Identities /\ NothingToAdopt(s) /\ OwnKeys /\ RecordsOK
  BY DEF IInv, StartOK, RecordsOK, Identities
<1>2. CASE Holders(Identity[s]) # {}
  <2>1. records' = records /\ Holder(Identity[s]) \in Holders(Identity[s])
    BY <1>1, <1>2, HolderKept
  <2>2. RecordsStep
    BY <1>1, <2>1, RecordsUntouched
  <2>3. LegacyNotDoubled'
    BY <2>1, <2>2, LegacyKept
  <2> QED
    BY <1>2, <2>1, <2>2, <2>3 DEF Holders, Live
<1>3. CASE Holders(Identity[s]) = {}
  <2>1. Room /\ records' = Append(records, Record(Identity[s], Identity[s], "start"))
    BY <1>3 DEF Upserted
  <2>2. /\ RecordsStep
        /\ DOMAIN records' = DOMAIN records \cup {Len(records')}
        /\ Len(records') \notin DOMAIN records
        /\ records'[Len(records')] = Record(Identity[s], Identity[s], "start")
        /\ \A t \in DOMAIN records : records'[t] = records[t]
    BY <1>1, <1>3, <2>1, RecordCreated
  <2>3. PICK n : n = Len(records')
    OBVIOUS
  <2>4. /\ DOMAIN records' = DOMAIN records \cup {n} /\ n \notin DOMAIN records
        /\ records'[n].by = "start" /\ records'[n].key = Identity[s]
        /\ records'[n].identity = Identity[s]
        /\ \A t \in DOMAIN records : records'[t] = records[t]
    BY <2>2, <2>3 DEF Record
  <2>5. ASSUME NEW r \in Live', NEW t \in Live',
               records'[r].by = "legacy", records'[t].by = "start"
        PROVE  records'[r].identity # records'[t].identity
    <3>1. r \in Live /\ records'[r] = records[r]
      BY <2>4, <2>5 DEF Live
    <3>2. CASE t \in DOMAIN records
      BY <2>4, <2>5, <3>1, <3>2 DEF IInv, LegacyNotDoubled, Live
    <3>3. CASE t = n
      BY <1>1, <2>4, <2>5, <3>1, <3>3 DEF NothingToAdopt
    <3> QED
      BY <2>4, <3>2, <3>3 DEF Live
  <2>6. LegacyNotDoubled'
    BY <2>5 DEF LegacyNotDoubled
  <2> QED
    BY <1>3, <2>2, <2>3, <2>4, <2>6
<1> QED
  BY <1>2, <1>3

LEMMA Unwritten ==
  ASSUME Typed, IInv, UNCHANGED records
  PROVE  RecordsStep /\ LegacyNotDoubled'
<1>1. RecordsStep
  BY RecordsUntouched DEF IInv, RecordsOK
<1> QED
  BY <1>1, LegacyKept

(* Writes of everybody else. *)
LEMMA OthersWrite ==
  ASSUME Typed, IInv, RecordsStep, LegacyNotDoubled',
         UNCHANGED <<pc, pick, refusals, host, outcome>>
  PROVE  IInv'
<1>1. ASSUME NEW t \in Starts PROVE StartOK(t)'
  BY StartStays
<1> QED
  BY <1>1 DEF IInv, RecordsStep

(* A step of one start. *)
LEMMA OneMoves ==
  ASSUME Typed, IInv, RecordsStep, LegacyNotDoubled', NEW s \in Starts, StartOK(s)',
         \/ \E p : Goes(s, p)
         \/ \E h, o : Resolves(s, h, o),
         UNCHANGED pick \/ \E q : pick' = [pick EXCEPT ![s] = q]
  PROVE  IInv'
<1>1. ASSUME NEW t \in Starts PROVE StartOK(t)'
  <2>1. CASE t = s
    BY <2>1
  <2>2. CASE t # s
    BY <2>2, OthersStay
  <2> QED
    BY <2>1, <2>2
<1> QED
  BY <1>1 DEF IInv, RecordsStep

LEMMA TakesHolder ==
  ASSUME Typed, NEW s \in Starts, Holders(Identity[s]) # {}, UNCHANGED records,
         Resolves(s, Holder(Identity[s]), "found")
  PROVE  StartOK(s)'
<1>1. Holder(Identity[s]) \in DOMAIN records /\ records[Holder(Identity[s])].key = Identity[s]
  BY HolderThere DEF Holders, Live
<1> QED
  BY <1>1, StartResolves

LEMMA SearchStep ==
  ASSUME Typed, IInv, NEW s \in Starts, Search(s)
  PROVE  IInv'
<1> DEFINE k == Identity[s]
           oldest == Min(Found(k))
<1>1. k \in Identities /\ UNCHANGED records
  BY DEF Identities, Search
<1>2. /\ pick' = [pick EXCEPT ![s] = IF pc'[s] = "adopt" THEN oldest ELSE 0]
      /\ RecordsStep /\ LegacyNotDoubled'
  BY <1>1, Unwritten DEF Search
<1>3. StartOK(s)' /\ (\/ \E p : Goes(s, p)
                      \/ \E h, o : Resolves(s, h, o))
  <2>1. CASE Found(k) = {}
    <3>1. CASE Goes(s, "upsert")
      <4>1. NothingToAdopt(s)'
        BY <1>1, <2>1 DEF NothingToAdopt, Found, Live
      <4> QED
        BY <1>2, <3>1, <4>1, StartGoes DEF Calls
    <3>2. CASE Resolves(s, 0, "would-create")
      BY <3>2, StartResolves
    <3> QED
      BY <2>1, <3>1, <3>2 DEF Search
  <2>2. CASE Found(k) # {}
    <3>1. oldest \in Found(k)
      BY <1>1, <2>2, SearchPicks
    <3>2. oldest \in DOMAIN records /\ records[oldest].identity = k
      BY <3>1 DEF Found, Live
    <3>3. CASE records[oldest].key = k /\ Resolves(s, oldest, "found")
      BY <1>1, <3>2, <3>3, StartResolves
    <3>4. CASE Resolves(s, oldest, "adopted-other-key")
      BY <3>4, StartResolves
    <3>5. CASE Resolves(s, oldest, "would-adopt")
      BY <3>5, StartResolves
    <3>6. CASE Goes(s, "adopt")
      <4>1. pc'[s] = "adopt" /\ pick'[s] = oldest /\ host'[s] = host[s] /\ outcome'[s] = outcome[s]
        BY <1>2, <3>6 DEF Goes, Typed
      <4>2. PicksOwn(s)'
        BY <1>1, <3>2, <4>1 DEF PicksOwn
      <4>3. HostKeyed(s)'
        BY <1>1, <4>1 DEF HostKeyed, IInv, StartOK
      <4>4. NothingToAdopt(s)'
        BY <4>1 DEF NothingToAdopt
      <4> QED
        BY <3>6, <4>2, <4>3, <4>4 DEF StartOK
    <3> QED
      BY <2>2, <3>3, <3>4, <3>5, <3>6 DEF Search
  <2> QED
    BY <2>1, <2>2
<1> QED
  BY <1>2, <1>3, OneMoves

LEMMA IInvStep == Typed /\ IInv /\ [Next /\ Mindful]_vars => IInv'
<1> SUFFICES ASSUME Typed, IInv, [Next /\ Mindful]_vars PROVE IInv'
  OBVIOUS
<1>1. ASSUME NEW s \in Starts, LookUp(s) PROVE IInv'
  <2>1. RecordsStep /\ LegacyNotDoubled'
    BY <1>1, Unwritten DEF LookUp
  <2>2. StartOK(s)'
    BY <1>1, <2>1, TakesHolder, StartGoes DEF LookUp, Calls
  <2> QED
    BY <1>1, <2>1, <2>2, OneMoves DEF LookUp
<1>2. ASSUME NEW s \in Starts, Search(s) PROVE IInv'
  BY <1>2, SearchStep
<1>3. ASSUME NEW s \in Starts, Adopt(s) PROVE IInv'
  <2>1. CASE Keyable(s)
    <3>1. /\ pc[s] = "adopt" /\ records' = Keyed(s) /\ UNCHANGED pick
          /\ Resolves(s, pick[s], "adopted")
      BY <1>3, <2>1 DEF Adopt
    <3>2. /\ RecordsStep /\ LegacyNotDoubled'
          /\ pick[s] \in DOMAIN records' /\ records'[pick[s]].key = Identity[s]
      BY <2>1, <3>1, KeyedStep
    <3>3. StartOK(s)'
      BY <3>1, <3>2, StartResolves
    <3> QED
      BY <3>1, <3>2, <3>3, OneMoves
  <2>2. CASE ~Keyable(s)
    <3>1. RecordsStep /\ LegacyNotDoubled'
      BY <1>3, <2>2, Unwritten DEF Adopt
    <3>2. StartOK(s)'
      BY <1>3, <2>2, <3>1, StartGoes DEF Adopt, Calls
    <3> QED
      BY <1>3, <2>2, <3>1, <3>2, OneMoves DEF Adopt
  <2> QED
    BY <2>1, <2>2
<1>4. ASSUME NEW s \in Starts, AdoptUnanswered(s) PROVE IInv'
  BY <1>4, KeyedStep, OthersWrite DEF AdoptUnanswered
<1>5. ASSUME NEW s \in Starts, LookAgain(s) PROVE IInv'
  <2>1. RecordsStep /\ LegacyNotDoubled'
    BY <1>5, Unwritten DEF LookAgain
  <2>2. StartOK(s)'
    BY <1>5, <2>1, TakesHolder, StartGoes DEF LookAgain, Calls
  <2> QED
    BY <1>5, <2>1, <2>2, OneMoves DEF LookAgain
<1>6. ASSUME NEW s \in Starts, Upsert(s) PROVE IInv'
  <2>1. RecordsStep /\ LegacyNotDoubled'
    BY <1>6, UpsertedStep DEF Upsert
  <2>2. StartOK(s)'
    BY <1>6, UpsertedStep, StartResolves DEF Upsert
  <2> QED
    BY <1>6, <2>1, <2>2, OneMoves DEF Upsert
<1>7. ASSUME NEW s \in Starts, UpsertUnanswered(s) PROVE IInv'
  BY <1>7, UpsertedStep, OthersWrite DEF UpsertUnanswered
<1>8. ASSUME NEW s \in Starts, UpsertTaken(s) PROVE IInv'
  <2>1. RecordsStep /\ LegacyNotDoubled'
    BY <1>8, Unwritten DEF UpsertTaken
  <2>2. NothingToAdopt(s)' \/ pc'[s] # "upsert"
    BY <1>8 DEF UpsertTaken, IInv, StartOK, NothingToAdopt, Live
  <2>3. PICK p \in {"upsert", "relook"} : Goes(s, p)
    BY <1>8 DEF UpsertTaken
  <2>4. pc'[s] = p
    BY <2>3 DEF Goes, Typed
  <2>5. StartOK(s)'
    BY <2>1, <2>2, <2>3, <2>4, StartGoes DEF Calls
  <2> QED
    BY <1>8, <2>1, <2>3, <2>5, OneMoves DEF UpsertTaken
<1>9. ASSUME NEW s \in Starts, Fails(s) PROVE IInv'
  <2>1. RecordsStep /\ LegacyNotDoubled'
    BY <1>9, Unwritten DEF Fails
  <2>2. StartOK(s)'
    BY <1>9, <2>1, StartGoes DEF Fails, Calls
  <2> QED
    BY <1>9, <2>1, <2>2, OneMoves DEF Fails
<1>10. ASSUME NEW k \in Identities, OldVersionCreates(k) PROVE IInv'
  <2>1. Room /\ records' = Append(records, Record(NoKey, k, "old")) /\ RecordsOK
    BY <1>10 DEF OldVersionCreates, IInv, RecordsOK
  <2>2. /\ RecordsStep /\ DOMAIN records' = DOMAIN records \cup {Len(records')}
        /\ records'[Len(records')] = Record(NoKey, k, "old")
    BY <2>1, RecordCreated
  <2>3. PICK n : n = Len(records')
    OBVIOUS
  <2>4. DOMAIN records' = DOMAIN records \cup {n} /\ records'[n].by = "old"
    BY <2>2, <2>3 DEF Record
  <2>5. LegacyNotDoubled'
    BY <2>2, <2>4, LegacyKept
  <2> QED
    BY <1>10, <2>2, <2>5, OthersWrite DEF OldVersionCreates
<1>11. ASSUME NEW r \in DOMAIN records, UserDeletes(r) PROVE IInv'
  <2>1. RecordsStep
    BY <1>11, RecordDeleted DEF UserDeletes, IInv, RecordsOK
  <2>2. DOMAIN records' = DOMAIN records
    BY <1>11, LenProperties DEF UserDeletes, Typed, TypeOK
  <2> QED
    BY <1>11, <2>1, <2>2, LegacyKept, OthersWrite DEF UserDeletes
<1>12. ASSUME Mindful, NEW r \in DOMAIN records, NEW k \in UserKeys, UserSetsKey(r, k) PROVE IInv'
  <2>1. k \in Identities => records[r].identity = k
    BY <1>12 DEF Mindful
  <2>2. records[r].key \notin Identities
    BY <1>12, IdentityAssumption DEF UserSetsKey
  <2>3. RecordsStep
    BY <1>12, <2>1, <2>2, KeyPut DEF UserSetsKey, IInv, RecordsOK
  <2>4. DOMAIN records' = DOMAIN records
    BY <1>12, LenProperties DEF UserSetsKey, Typed, TypeOK
  <2> QED
    BY <1>12, <2>3, <2>4, LegacyKept, OthersWrite DEF UserSetsKey
<1>13. CASE UNCHANGED vars
  BY <1>13, Unwritten, OthersWrite DEF vars
<1> QED
  BY <1>1, <1>2, <1>3, <1>4, <1>5, <1>6, <1>7, <1>8, <1>9, <1>10, <1>11, <1>12, <1>13
     DEF Next, Start

-----------------------------------------------------------------------------
(* Theorems.                                                               *)

LEMMA AgreeFollows == Typed /\ IInv => StartsAgree
<1> SUFFICES ASSUME Typed, IInv, NEW s \in Starts, NEW t \in Starts,
                    Identity[s] = Identity[t], {host[s], host[t]} \subseteq Live,
                    {outcome[s], outcome[t]} \subseteq {"found", "adopted", "created"}
             PROVE  host[s] = host[t]
  BY DEF StartsAgree
<1>1. records[host[s]].key = Identity[s] /\ records[host[t]].key = Identity[t]
  BY DEF IInv, StartOK, HostKeyed
<1>2. Identity[s] # NoKey
  BY IdentityAssumption DEF Identities
<1> QED
  BY <1>1, <1>2 DEF IInv, UniqueKeys

(* ResolveHost, any number of starts on any machines: as long as users do  *)
(* not put one machine's key on another's record, starts on one machine    *)
(* that found, adopted or created its record hold the same one.            *)
THEOREM HostAgreed == Init /\ [][Next /\ Mindful]_vars => []StartsAgree
<1>1. Typed /\ [Next /\ Mindful]_vars => Typed'
  BY TypedStep
<1> QED
  BY TypedInit, IInvInit, <1>1, IInvStep, AgreeFollows, PTL

(* Adoption (011 FR-012), under the same condition: while a record an      *)
(* earlier version left behind lives, no start creates a second one.       *)
THEOREM LegacyAdopted == Init /\ [][Next /\ Mindful]_vars => []LegacyNotDoubled
<1>1. Typed /\ [Next /\ Mindful]_vars => Typed'
  BY TypedStep
<1>2. IInv => LegacyNotDoubled
  BY DEF IInv
<1> QED
  BY TypedInit, IInvInit, <1>1, <1>2, IInvStep, PTL

(* Users are mindful where there is one machine, or where the keys they    *)
(* give are no machine's.                                                  *)
LEMMA MindfulHere ==
  ASSUME \/ \A j, k \in Identities : j = k
         \/ UserKeys \cap Identities = {}
  PROVE  Typed => Mindful
<1> SUFFICES ASSUME Typed, NEW r \in DOMAIN records, NEW k \in UserKeys \cap Identities
             PROVE  records[r].identity = k
  BY DEF Mindful
<1>1. records[r].identity \in Identities
  BY RecordTyped DEF Records
<1> QED
  BY <1>1

(* ResolveHost on one machine, or where users leave machines' keys alone:  *)
(* the specification as it is keeps starts in agreement.                   *)
THEOREM StartsOfOneMachineAgree ==
  ASSUME \/ \A j, k \in Identities : j = k
         \/ UserKeys \cap Identities = {}
  PROVE  Spec => []StartsAgree
<1>1. Typed /\ IInv /\ [Next]_vars => IInv'
  BY MindfulHere, IInvStep
<1> QED
  BY TypedInit, IInvInit, TypedStep, <1>1, AgreeFollows, PTL DEF Spec

(* The same of adoption (011 FR-012). *)
THEOREM LegacyOfOneMachineAdopted ==
  ASSUME \/ \A j, k \in Identities : j = k
         \/ UserKeys \cap Identities = {}
  PROVE  Spec => []LegacyNotDoubled
<1>1. Typed /\ IInv /\ [Next]_vars => IInv'
  BY MindfulHere, IInvStep
<1>2. IInv => LegacyNotDoubled
  BY DEF IInv
<1> QED
  BY TypedInit, IInvInit, TypedStep, <1>1, <1>2, PTL DEF Spec
=============================================================================
