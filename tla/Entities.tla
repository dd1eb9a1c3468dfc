------------------------------ MODULE Entities ------------------------------
(***************************************************************************)
(* One daemon and the entities its modules feed (disks, interfaces, UPSes: *)
(* src/internal/publish/entities.go, identity/keyed.go, collect/buffers.go)*)
(* A publish sends the host's values first, then, one entity after the     *)
(* other, resolves the record that holds the entity's key, remembers its   *)
(* id, and sends what is buffered for it.  Users delete records, other     *)
(* runs create them.                                                       *)
(*                                                                         *)
(* Entities are numbered in the order they are published in, and a value   *)
(* by its place among those collected for its entity.  How one entity's    *)
(* buffer and calls work in detail is Delivery; here a publish is one call,*)
(* and a value one that no full queue drops.                               *)
(***************************************************************************)
EXTENDS Integers, Sequences, FiniteSets, FiniteSetsExt

CONSTANTS
  EntityKeys,   \* the entities of one module
  MaxKeys,      \* entities one module may feed (MaxKeysPerModule)
  Broken,       \* entities whose calls never succeed
  MaxValues,    \* bound of the model: values per entity
  MaxRecords    \* bound of the model: records ever created

ASSUME EntitiesAssumption ==
  /\ EntityKeys \subseteq Nat /\ Broken \subseteq EntityKeys
  /\ MaxKeys \in Nat /\ MaxValues \in Nat /\ MaxRecords \in Nat

VARIABLES
  buffers,    \* entities that have a buffer
  pending,    \* EntityKeys -> values buffered
  ids,        \* EntityKeys -> the record remembered, 0 for none
  pc,         \* where the publish is
  todo,       \* entities this publish has yet to come to
  batch,      \* the values it is sending
  records,    \* sequence of [key, live]: the platform's records
  hostAlive,  \* the host's record exists
  collected,  \* history: EntityKeys -> values admitted to a buffer
  answered    \* history: <<entity, value>> the platform stored or refused

platform == <<records, hostAlive, answered>>
vars == <<buffers, pending, ids, pc, todo, batch, collected, platform>>

Holders(e) == {r \in DOMAIN records : records[r].live /\ records[r].key = e}
Room == Len(records) < MaxRecords

(* Records the bound allows beyond one for every entity that has none. *)
Spare == MaxRecords - Len(records) - Cardinality({e \in EntityKeys : Holders(e) = {}})

(* The entity the publish is at. *)
Current == Min(todo)
Works == Current \notin Broken

Init ==
  /\ buffers = {} /\ todo = {} /\ batch = {} /\ answered = {}
  /\ pending = [e \in EntityKeys |-> {}]
  /\ ids = [e \in EntityKeys |-> 0]
  /\ pc = "host" /\ records = <<>> /\ hostAlive = TRUE
  /\ collected = [e \in EntityKeys |-> 0]

(* Mutant: one entity more than the module may feed. *)
CollectOneMore(e) ==
  /\ pc # "over" /\ collected[e] < MaxValues
  /\ e \in buffers \/ Cardinality(buffers) <= MaxKeys
  /\ buffers' = buffers \cup {e}
  /\ collected' = [collected EXCEPT ![e] = @ + 1]
  /\ pending' = [pending EXCEPT ![e] = @ \cup {collected[e] + 1}]
  /\ UNCHANGED <<ids, pc, todo, batch, platform>>

(* Buffers.Add: a value of a new entity beyond the module's bound is turned *)
(* away, which changes nothing.                                            *)
Collect(e) ==
  /\ pc # "over" /\ collected[e] < MaxValues
  /\ e \in buffers \/ Cardinality(buffers) < MaxKeys
  /\ buffers' = buffers \cup {e}
  /\ collected' = [collected EXCEPT ![e] = @ + 1]
  /\ pending' = [pending EXCEPT ![e] = @ \cup {collected[e] + 1}]
  /\ UNCHANGED <<ids, pc, todo, batch, platform>>

-----------------------------------------------------------------------------
(* Entities.Publish.                                                       *)

(* The host's values went out, or failed, or there were none: now to every *)
(* entity with a buffer.                                                   *)
HostPublished ==
  /\ pc = "host" /\ buffers # {}
  /\ pc' = "entities" /\ todo' = buffers
  /\ UNCHANGED <<buffers, pending, ids, batch, collected, platform>>

(* Without the host's record the run ends. *)
HostGone ==
  /\ pc = "host" /\ ~hostAlive /\ pc' = "over"
  /\ UNCHANGED <<buffers, pending, ids, todo, batch, collected, platform>>

(* On to the next entity; after the last one the publish is over. *)
Proceed ==
  /\ todo' = todo \ {Current} /\ batch' = {}
  /\ pc' = IF todo' = {} THEN "host" ELSE "entities"

NothingBuffered ==
  /\ pc = "entities" /\ pending[Current] = {}
  /\ Proceed
  /\ UNCHANGED <<buffers, pending, ids, collected, platform>>

Snapshot ==
  /\ pc = "entities" /\ pending[Current] # {}
  /\ batch' = pending[Current]
  /\ pc' = IF ids[Current] # 0 THEN "send" ELSE "lookup"
  /\ UNCHANGED <<buffers, pending, ids, todo, collected, platform>>

Remember(r) == ids' = [ids EXCEPT ![Current] = r] /\ pc' = "send"

LookUp ==
  /\ pc = "lookup" /\ Works
  /\ IF Holders(Current) # {}
     THEN \E r \in Holders(Current) : Remember(r)
     ELSE pc' = "create" /\ UNCHANGED ids
  /\ UNCHANGED <<buffers, pending, todo, batch, collected, platform>>

(* UpsertByKey: somebody may have created the record since. *)
Create ==
  /\ pc = "create" /\ Works
  /\ \/ \E r \in Holders(Current) : Remember(r) /\ UNCHANGED records
     \/ /\ Holders(Current) = {} /\ Room
        /\ records' = Append(records, [key |-> Current, live |-> TRUE])
        /\ Remember(Len(records'))
  /\ UNCHANGED <<buffers, pending, todo, batch, hostAlive, collected, answered>>

CreateUnanswered ==
  /\ pc = "create" /\ Works /\ Holders(Current) = {} /\ Room
  /\ records' = Append(records, [key |-> Current, live |-> TRUE])
  /\ UNCHANGED <<buffers, pending, ids, pc, todo, batch, hostAlive, collected, answered>>

(* Mutant: an entity that cannot be resolved ends the publish. *)
ResolveFailsForAll ==
  /\ pc \in {"lookup", "create"}
  /\ todo' = {} /\ batch' = {} /\ pc' = "host"
  /\ UNCHANGED <<buffers, pending, ids, collected, platform>>

(* It could not be resolved: its values stay, the next one's turn. *)
ResolveFails ==
  /\ pc \in {"lookup", "create"}
  /\ Proceed
  /\ UNCHANGED <<buffers, pending, ids, collected, platform>>

Target == ids[Current]

SendOk ==
  /\ pc = "send" /\ Works /\ records[Target].live
  /\ answered' = answered \cup {<<Current, v>> : v \in batch}
  /\ pending' = [pending EXCEPT ![Current] = @ \ batch]
  /\ Proceed
  /\ UNCHANGED <<buffers, ids, records, hostAlive, collected>>

(* It failed on the way: the platform dealt with some of it, and some of   *)
(* that was acknowledged; the rest stays.                                  *)
SendFails ==
  /\ pc = "send"
  /\ \E settled \in SUBSET batch : \E acked \in SUBSET settled :
       /\ settled # {} => Works /\ records[Target].live
       /\ answered' = answered \cup {<<Current, v>> : v \in settled}
       /\ pending' = [pending EXCEPT ![Current] = @ \ acked]
  /\ Proceed
  /\ UNCHANGED <<buffers, ids, records, hostAlive, collected>>

(* Mutant: what was sent to a deleted record is forgotten. *)
SendGoneForgotten ==
  /\ pc = "send" /\ ~records[Target].live
  /\ ids' = [ids EXCEPT ![Current] = 0]
  /\ pending' = [pending EXCEPT ![Current] = @ \ batch]
  /\ Proceed
  /\ UNCHANGED <<buffers, collected, platform>>

(* The record was deleted: Forget its id, so that the next publish creates *)
(* it again.                                                               *)
SendGone ==
  /\ pc = "send" /\ ~records[Target].live
  /\ ids' = [ids EXCEPT ![Current] = 0]
  /\ Proceed
  /\ UNCHANGED <<buffers, pending, collected, platform>>

-----------------------------------------------------------------------------
(* Everybody else.  A deletion leaves the bound room for a new record.     *)

UserDeletes(r) ==
  /\ records[r].live /\ Spare > 0
  /\ records' = [records EXCEPT ![r].live = FALSE]
  /\ UNCHANGED <<buffers, pending, ids, pc, todo, batch, hostAlive, collected, answered>>

UserDeletesHost ==
  /\ hostAlive /\ hostAlive' = FALSE
  /\ UNCHANGED <<buffers, pending, ids, pc, todo, batch, records, collected, answered>>

OtherRunCreates(e) ==
  /\ Holders(e) = {} /\ Room
  /\ records' = Append(records, [key |-> e, live |-> TRUE])
  /\ UNCHANGED <<buffers, pending, ids, pc, todo, batch, hostAlive, collected, answered>>

Publish ==
  \/ HostPublished \/ HostGone \/ NothingBuffered \/ Snapshot
  \/ LookUp \/ Create \/ CreateUnanswered \/ ResolveFails
  \/ SendOk \/ SendFails \/ SendGone

Next ==
  \/ Publish
  \/ \E e \in EntityKeys : Collect(e) \/ OtherRunCreates(e)
  \/ \E r \in DOMAIN records : UserDeletes(r)
  \/ UserDeletesHost

Spec == Init /\ [][Next]_vars

(* The daemon publishes again and again, every call ends, and the platform *)
(* does not fail the same call of an entity for ever.                      *)
Fairness ==
  /\ WF_vars(Publish)
  /\ \A e \in EntityKeys \ Broken :
       /\ SF_vars(LookUp /\ Current = e)
       /\ SF_vars(Create /\ Current = e)
       /\ SF_vars((SendOk \/ SendGone) /\ Current = e)

FairSpec == Spec /\ Fairness

-----------------------------------------------------------------------------
(* Properties.                                                             *)

TypeOK ==
  /\ buffers \subseteq EntityKeys /\ Cardinality(buffers) <= MaxKeys
  /\ todo \subseteq buffers
  /\ pc \in {"host", "entities", "lookup", "create", "send", "over"}
  /\ pc \in {"entities", "lookup", "create", "send"} => todo # {}
  /\ pc = "send" => Target \in DOMAIN records
  /\ \A e \in EntityKeys :
       /\ pending[e] \subseteq 1 .. collected[e]
       /\ ids[e] \in 0 .. MaxRecords
       /\ Cardinality(Holders(e)) <= 1

(* FR-014, FR-015: a value collected for an entity waits, or the platform  *)
(* stored or refused it, whatever happened to its record, its lookup or    *)
(* its publish.  (A full queue's drops are Delivery's matter.)             *)
ValuesKept ==
  \A e \in EntityKeys : \A v \in 1 .. collected[e] : v \in pending[e] \/ <<e, v>> \in answered

(* FR-014, FR-015: one entity's failure costs only that entity.  Whatever  *)
(* is collected for a working entity reaches the platform in the end,      *)
(* though others always fail and records are deleted under the daemon.     *)
WorkingEntitiesServed ==
  \A e \in EntityKeys \ Broken : \A v \in 1 .. MaxValues :
     collected[e] >= v ~> <<e, v>> \in answered \/ pc = "over"
=============================================================================
