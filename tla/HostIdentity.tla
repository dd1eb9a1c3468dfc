---------------------------- MODULE HostIdentity ----------------------------
(***************************************************************************)
(* Which platform record is this machine?  Every start of omnistat answers *)
(* that anew (src/internal/identity/resolve.go): by the external key, else *)
(* by adopting a record an earlier version created without one, else by    *)
(* creating it.  Starts run at the same time (a daemon and a one-shot run, *)
(* a cloned machine, a restart), while earlier versions, other machines    *)
(* and users work on the same records.                                     *)
(*                                                                         *)
(* Records are numbered by age.  A key is unique among the live records of *)
(* the template; neither looking it up nor an upsert lags behind writes.   *)
(***************************************************************************)
EXTENDS Naturals, Sequences, FiniteSets, FiniteSetsExt

CONSTANTS
  Starts,       \* starts of omnistat
  Identity,     \* Starts -> the machine's key
  DryRuns,      \* the starts that write nothing
  NoKey,        \* what a record without a key holds
  Legacy,       \* possible sequences of records that are there already
  UserKeys,     \* keys a user may give a record that has none
  Attempts,     \* upserts of one creation (upsertAttempts)
  MaxRecords    \* bound of the model: records ever created

Identities == {Identity[s] : s \in Starts}

Records == [key : {NoKey} \cup Identities \cup UserKeys, identity : Identities,
            live : BOOLEAN, by : {"legacy", "old", "start"}]

ASSUME IdentityAssumption ==
  /\ DryRuns \subseteq Starts
  /\ NoKey \notin Identities \cup UserKeys
  /\ Attempts \in Nat \ {0} /\ MaxRecords \in Nat

(* What is there already is legacy, its keys are unique, and a machine's   *)
(* key is on that machine's record: upsert and adoption put it there.      *)
ASSUME LegacyAssumption ==
  \A recs \in Legacy :
    /\ recs \in Seq(Records) /\ Len(recs) <= MaxRecords
    /\ \A r \in DOMAIN recs : recs[r].by = "legacy"
    /\ \A r \in DOMAIN recs : recs[r].key \in Identities => recs[r].identity = recs[r].key
    /\ \A r, t \in DOMAIN recs : recs[r].key # NoKey /\ recs[r].key = recs[t].key => r = t

VARIABLES
  records,   \* sequence of [key, identity, live, by]; by: who created it
  pc,        \* Starts -> the call it makes next
  pick,      \* Starts -> the record it is adopting, 0 for none
  refusals,  \* Starts -> upserts answered with a conflict
  host,      \* Starts -> the record it took for its host, 0 for none
  outcome    \* Starts -> how it came by it

vars == <<records, pc, pick, refusals, host, outcome>>

Live == {r \in DOMAIN records : records[r].live}
Holders(k) == {r \in Live : records[r].key = k}
Holder(k) == CHOOSE r \in Holders(k) : TRUE

(* The records a search by the identity attribute finds. *)
Found(k) == {r \in Live : records[r].identity = k}

Record(key, identity, by) == [key |-> key, identity |-> identity, live |-> TRUE, by |-> by]

Init ==
  /\ records \in Legacy
  /\ pc = [s \in Starts |-> "lookup"]
  /\ pick = [s \in Starts |-> 0]
  /\ refusals = [s \in Starts |-> 0]
  /\ host = [s \in Starts |-> 0]
  /\ outcome = [s \in Starts |-> "none"]

-----------------------------------------------------------------------------
Goes(s, to) ==
  /\ pc' = [pc EXCEPT ![s] = to]
  /\ UNCHANGED <<host, outcome>>

Resolves(s, r, how) ==
  /\ pc' = [pc EXCEPT ![s] = "done"]
  /\ host' = [host EXCEPT ![s] = r]
  /\ outcome' = [outcome EXCEPT ![s] = how]

(* EntityByKey: the host holds its key already. *)
LookUp(s) ==
  /\ pc[s] = "lookup"
  /\ IF Holders(Identity[s]) # {}
     THEN Resolves(s, Holder(Identity[s]), "found")
     ELSE Goes(s, "search")
  /\ UNCHANGED <<records, pick, refusals>>

(* Mutant: a record with another key is not taken for the host. *)
SearchUnkeyed(s) ==
  /\ pc[s] = "search"
  /\ LET mine == {r \in Found(Identity[s]) : records[r].key \in {NoKey, Identity[s]}}
         oldest == Min(mine)
     IN  IF mine = {}
         THEN IF s \in DryRuns THEN Resolves(s, 0, "would-create") ELSE Goes(s, "upsert")
         ELSE IF records[oldest].key = Identity[s] THEN Resolves(s, oldest, "found")
         ELSE IF s \in DryRuns THEN Resolves(s, oldest, "would-adopt") ELSE Goes(s, "adopt")
  /\ pick' = [pick EXCEPT ![s] = IF pc'[s] = "adopt" THEN Min(Found(Identity[s])) ELSE 0]
  /\ UNCHANGED <<records, refusals>>

(* FindEntities: the oldest record with this identity is the host. *)
Search(s) ==
  /\ pc[s] = "search"
  /\ LET mine == Found(Identity[s])
         oldest == Min(mine)
     IN  IF mine = {}
         THEN IF s \in DryRuns THEN Resolves(s, 0, "would-create") ELSE Goes(s, "upsert")
         ELSE IF records[oldest].key = Identity[s] THEN Resolves(s, oldest, "found")
         ELSE IF records[oldest].key # NoKey THEN Resolves(s, oldest, "adopted-other-key")
         ELSE IF s \in DryRuns THEN Resolves(s, oldest, "would-adopt") ELSE Goes(s, "adopt")
  /\ pick' = [pick EXCEPT ![s] = IF pc'[s] = "adopt" THEN Min(Found(Identity[s])) ELSE 0]
  /\ UNCHANGED <<records, refusals>>

(* SetEntityKey, on the platform: it replaces whatever key the record has. *)
Keyable(s) == pick[s] \in Live /\ Holders(Identity[s]) \subseteq {pick[s]}
Keyed(s) == [records EXCEPT ![pick[s]].key = Identity[s]]

(* Mutant: a taken key is no reason to give the picked record up. *)
AdoptRegardless(s) ==
  /\ pc[s] = "adopt" /\ pick[s] \in Live
  /\ records' = IF Keyable(s) THEN Keyed(s) ELSE records
  /\ Resolves(s, pick[s], "adopted")
  /\ UNCHANGED <<pick, refusals>>

Adopt(s) ==
  /\ pc[s] = "adopt" /\ pick[s] \in Live
  /\ IF Keyable(s)
     THEN records' = Keyed(s) /\ Resolves(s, pick[s], "adopted")
     ELSE UNCHANGED records /\ Goes(s, "relook")
  /\ UNCHANGED <<pick, refusals>>

(* The answer is lost and the transport repeats the call. *)
AdoptUnanswered(s) ==
  /\ pc[s] = "adopt" /\ Keyable(s) /\ records' = Keyed(s)
  /\ UNCHANGED <<pc, pick, refusals, host, outcome>>

(* EntityByKey after a refused adoption or refused upserts: the record that *)
(* took the key is the host, and without one the start fails.              *)
LookAgain(s) ==
  /\ pc[s] = "relook"
  /\ IF Holders(Identity[s]) # {}
     THEN Resolves(s, Holder(Identity[s]), "found")
     ELSE Goes(s, "failed")
  /\ UNCHANGED <<records, pick, refusals>>

(* UpsertByKey, on the platform: the holder is updated, or one created. *)
Upserted(s) ==
  IF Holders(Identity[s]) # {}
  THEN [records EXCEPT ![Holder(Identity[s])].identity = Identity[s]]
  ELSE Append(records, Record(Identity[s], Identity[s], "start"))

Room == Len(records) < MaxRecords

Upsert(s) ==
  /\ pc[s] = "upsert" /\ (Holders(Identity[s]) # {} \/ Room)
  /\ records' = Upserted(s)
  /\ IF Holders(Identity[s]) # {}
     THEN Resolves(s, Holder(Identity[s]), "found")
     ELSE Resolves(s, Len(records'), "created")
  /\ UNCHANGED <<pick, refusals>>

UpsertUnanswered(s) ==
  /\ pc[s] = "upsert" /\ (Holders(Identity[s]) # {} \/ Room)
  /\ records' = Upserted(s)
  /\ UNCHANGED <<pc, pick, refusals, host, outcome>>

(* Mutant: an upsert is repeated without end. *)
UpsertTakenForever(s) ==
  /\ pc[s] = "upsert" /\ Holders(Identity[s]) # {}
  /\ refusals' = [refusals EXCEPT ![s] = @ + 1]
  /\ Goes(s, "upsert")
  /\ UNCHANGED <<records, pick>>

(* A concurrent write took the key (409): once more, or look who has it.   *)
UpsertTaken(s) ==
  /\ pc[s] = "upsert" /\ Holders(Identity[s]) # {}
  /\ refusals' = [refusals EXCEPT ![s] = @ + 1]
  /\ Goes(s, IF refusals[s] + 1 < Attempts THEN "upsert" ELSE "relook")
  /\ UNCHANGED <<records, pick>>

(* Any other error of any call ends the start; so does adopting a record   *)
(* that is gone.                                                           *)
Fails(s) ==
  /\ pc[s] \notin {"done", "failed"}
  /\ Goes(s, "failed")
  /\ UNCHANGED <<records, pick, refusals>>

-----------------------------------------------------------------------------
(* Everybody else.                                                         *)

OldVersionCreates(k) ==
  /\ Room /\ Found(k) = {}
  /\ records' = Append(records, Record(NoKey, k, "old"))
  /\ UNCHANGED <<pc, pick, refusals, host, outcome>>

UserSetsKey(r, k) ==
  /\ r \in Live /\ records[r].key = NoKey /\ Holders(k) = {}
  /\ records' = [records EXCEPT ![r].key = k]
  /\ UNCHANGED <<pc, pick, refusals, host, outcome>>

UserDeletes(r) ==
  /\ r \in Live
  /\ records' = [records EXCEPT ![r].live = FALSE]
  /\ UNCHANGED <<pc, pick, refusals, host, outcome>>

Start(s) ==
  \/ LookUp(s) \/ Search(s) \/ Adopt(s) \/ AdoptUnanswered(s) \/ LookAgain(s)
  \/ Upsert(s) \/ UpsertUnanswered(s) \/ UpsertTaken(s) \/ Fails(s)

Next ==
  \/ \E s \in Starts : Start(s)
  \/ \E k \in Identities : OldVersionCreates(k)
  \/ \E r \in DOMAIN records : UserDeletes(r) \/ \E k \in UserKeys : UserSetsKey(r, k)

Spec == Init /\ [][Next]_vars

-----------------------------------------------------------------------------
(* Properties.                                                             *)

TypeOK ==
  /\ records \in Seq(Records) /\ Len(records) <= MaxRecords
  /\ \A s \in Starts :
       /\ pc[s] \in {"lookup", "search", "adopt", "relook", "upsert", "done", "failed"}
       /\ pick[s] \in 0 .. MaxRecords /\ host[s] \in 0 .. MaxRecords
       /\ refusals[s] \in 0 .. Attempts
       /\ pc[s] = "adopt" => pick[s] # 0

(* ResolveHost: starts on one machine agree on its record, in whatever     *)
(* order they look, adopt and create, unless the record was deleted or a   *)
(* user had given the adopted one another key.                             *)
StartsAgree ==
  \A s, t \in Starts :
     /\ Identity[s] = Identity[t]
     /\ {host[s], host[t]} \subseteq Live
     /\ {outcome[s], outcome[t]} \subseteq {"found", "adopted", "created"}
     => host[s] = host[t]

(* Adoption (011 FR-012): while a record an earlier version left behind    *)
(* lives, no start creates a second one for the same machine.              *)
LegacyNotDoubled ==
  \A r, t \in Live :
     records[r].by = "legacy" /\ records[t].by = "start" => records[r].identity # records[t].identity
=============================================================================
