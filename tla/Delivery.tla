------------------------------ MODULE Delivery ------------------------------
(***************************************************************************)
(* From the collectors to the platform: the buffer of one entity, the      *)
(* publisher that empties it, the HTTP attempts below it and the daemon's  *)
(* stop.                                                                   *)
(*                                                                         *)
(*   collectors   Add samples at any moment, also while a publish runs     *)
(*   publisher    Drops, Snapshot, one dimension update (two tries), the   *)
(*                metric chunks in order, Ack                              *)
(*   transport    one API call is up to Retries + 1 attempts; an attempt   *)
(*                may be processed although its answer never arrives       *)
(*   platform     accepts, refuses (422), or no longer has the entity (404)*)
(*   stop         cancels the calls in flight, waits for the collectors,   *)
(*                and publishes a last time                                *)
(*                                                                         *)
(* Every sample's fate is followed in history variables, which no guard    *)
(* reads.                                                                  *)
(***************************************************************************)
EXTENDS Buffer, FiniteSets, Functions

CONSTANTS
  ListSlugs,     \* dimensions whose values need a list item id to be rendered
  HostLinks,     \* {} for the host entity, {the link} for a module's entity
  BadDims,       \* attributes (or the link) the platform refuses to write
  Naming,        \* how much a 422 names: subset of {"all", "some", "none"}
  ChunkSize,     \* observations per ingestion request
  Retries,       \* attempts after the first one
  MaxSamples     \* bound of the model: slug -> samples of it

ASSUME DeliveryAssumption ==
  /\ ListSlugs \subseteq DimSlugs
  /\ HostLinks \cap DimSlugs = {}
  /\ ChunkSize \in Nat \ {0}
  /\ Retries \in Nat
  /\ MaxSamples \in [DimSlugs \cup MetricSlugs -> Nat]

VARIABLES
  pc,          \* where the publisher is
  outcome,     \* how the current (or last) publish ends: "ok", "error", "gone"
  batch,       \* the snapshot it sends
  ack,         \* what the buffer may forget of it
  sending,     \* dimensions (and link) the current update carries
  attempt,     \* which of the two updates this is (0 or 1)
  sent,        \* MetricSlugs -> samples of the batch already dealt with
  tries,       \* HTTP attempts made for the current call
  life,        \* the daemon: running, stopping, final publish, over
  alive,       \* the platform still has the entity
  seen,        \* history: DimSlugs -> stamps handed out
  added,       \* history: MetricSlugs -> samples handed out
  dimSettled,  \* history: DimSlugs -> stamps written, refused or unrenderable
  refusedUpdates, \* history: dimension payloads a 422 answered
  landed,      \* history: <<slug, sample>> stored by the platform
  twice,       \* history: those of them stored more than once
  unsure,      \* history: those of them stored without the caller knowing
  refused,     \* history: <<slug, sample>> of chunks a 422 answered
  overflowed,  \* history: <<slug, sample>> a full queue gave up
  reported     \* history: MetricSlugs -> overflow drops logged

publisherVars == <<pc, outcome, batch, ack, sending, attempt, sent, tries>>
dimHistory    == <<seen, dimSettled, refusedUpdates>>
metricHistory == <<added, landed, twice, unsure, refused, overflowed, reported>>
vars == <<bufferVars, publisherVars, life, alive, dimHistory, metricHistory>>

Samples == MetricSlugs \X Nat

NoBatch == [dims |-> [s \in DimSlugs |-> 0], metrics |-> [s \in MetricSlugs |-> <<>>], start |-> NoMetrics]
NoAck == [dims |-> {}, metrics |-> NoMetrics]

Init ==
  /\ BufferInit
  /\ pc = "idle" /\ outcome = "ok"
  /\ batch = NoBatch /\ ack = NoAck
  /\ sending = {} /\ attempt = 0 /\ sent = NoMetrics /\ tries = 0
  /\ life = "running" /\ alive = TRUE
  /\ seen = [s \in DimSlugs |-> 0]
  /\ added = NoMetrics
  /\ dimSettled = [s \in DimSlugs |-> {}]
  /\ refusedUpdates = {}
  /\ landed = {} /\ twice = {} /\ unsure = {} /\ refused = {} /\ overflowed = {}
  /\ reported = NoMetrics

-----------------------------------------------------------------------------
(* Collectors.  They stop for good before the final publish.               *)

(* Mutant: the final publish does not wait for the collectors. *)
CollectingToTheEnd == life \in {"running", "stopping", "final"}

Collecting == life \in {"running", "stopping"}

CollectDim(s) ==
  /\ Collecting /\ seen[s] < MaxSamples[s]
  /\ \E noItem \in (IF s \in ListSlugs THEN BOOLEAN ELSE {FALSE}) :
        AddDim(s, seen[s] + 1, noItem)
  /\ seen' = [seen EXCEPT ![s] = @ + 1]
  /\ UNCHANGED <<publisherVars, life, alive, dimSettled, refusedUpdates, metricHistory>>

CollectMetric(s) ==
  /\ Collecting /\ added[s] < MaxSamples[s]
  /\ AddMetric(s, added[s] + 1)
  /\ added' = [added EXCEPT ![s] = @ + 1]
  /\ overflowed' = IF Full(s) THEN overflowed \cup {<<s, Head(items[s])>>} ELSE overflowed
  /\ UNCHANGED <<publisherVars, life, alive, dimHistory, landed, twice, unsure, refused, reported>>

-----------------------------------------------------------------------------
(* A publish starts: the drop counts are logged, then the buffer copied.   *)

TakeDrops ==
  /\ pc = "idle" /\ life \in {"running", "final"}
  /\ ResetDrops
  /\ reported' = [s \in MetricSlugs |-> reported[s] + drops[s]]
  /\ pc' = "snapshot"
  /\ UNCHANGED <<outcome, batch, ack, sending, attempt, sent, tries, life, alive, dimHistory,
                 added, landed, twice, unsure, refused, overflowed>>

(* Batch samples of s that were not dealt with yet. *)
Left(s) == Len(batch.metrics[s]) - sent[s]

NothingToPublish ==
  /\ pc = "snapshot" /\ BufferEmpty
  /\ pc' = "idle" /\ outcome' = "ok"
  /\ life' = IF life = "final" THEN "exited" ELSE life
  /\ UNCHANGED <<bufferVars, batch, ack, sending, attempt, sent, tries, alive, dimHistory, metricHistory>>

(* Snapshot and render.  A list value whose option has no item id is       *)
(* logged and given up; the host link goes with any other dimension.       *)
Snapshot ==
  /\ pc = "snapshot" /\ ~BufferEmpty
  /\ LET unrendered == HeldDims \cap itemless
         rendered   == HeldDims \ itemless
     IN  /\ batch' = SnapshotOf
         /\ ack' = [NoAck EXCEPT !.dims = unrendered]
         /\ sending' = IF rendered = {} THEN {} ELSE rendered \cup HostLinks
         /\ dimSettled' = [s \in DimSlugs |->
                 IF s \in unrendered THEN dimSettled[s] \cup {dims[s]} ELSE dimSettled[s]]
         /\ pc' = IF rendered = {} THEN "metrics" ELSE "dims"
  /\ outcome' = "ok"
  /\ UNCHANGED <<bufferVars, attempt, sent, tries, life, alive, seen, refusedUpdates, metricHistory>>

-----------------------------------------------------------------------------
(* The transport.  An attempt without a usable answer is repeated while    *)
(* tries are left and the call's context lives.  The call fails when none  *)
(* is left, when a stop or the final publish's deadline cancels it, when   *)
(* the answer breaks off in its body, and on an answer that is never       *)
(* repeated (401, 403, 400...).                                            *)

Fail(how) ==
  /\ pc' = "ack" /\ outcome' = how
  /\ UNCHANGED tries

(* Mutant: one attempt too many. *)
RetryOnceMore ==
  \/ /\ tries <= Retries /\ life # "stopping"
     /\ tries' = tries + 1
     /\ UNCHANGED <<pc, outcome>>
  \/ Fail("error")

RetryOrFail ==
  \/ /\ tries < Retries /\ life # "stopping"
     /\ tries' = tries + 1
     /\ UNCHANGED <<pc, outcome>>
  \/ Fail("error")

-----------------------------------------------------------------------------
(* The dimension update.                                                   *)

SentDims == sending \ HostLinks

(* The attributes and stamps the update carries. *)
Payload == [s \in SentDims |-> batch.dims[s]]

Settle(ds) ==
  dimSettled' = [s \in DimSlugs |->
     IF s \in ds THEN dimSettled[s] \cup {batch.dims[s]} ELSE dimSettled[s]]

(* Done with the dimensions: on to the metrics, also when both updates     *)
(* were refused and some dimensions stay unsent.                           *)
ToMetrics == pc' = "metrics" /\ tries' = 0

DimsOk ==
  /\ pc = "dims" /\ alive /\ sending \cap BadDims = {}
  /\ Settle(SentDims)
  /\ ack' = [ack EXCEPT !.dims = @ \cup SentDims]
  /\ ToMetrics
  /\ UNCHANGED <<bufferVars, outcome, batch, sending, attempt, sent, life, alive, seen, refusedUpdates, metricHistory>>

(* The fields a 422 may name when the attributes of bad are refused. *)
Named(bad) ==
  {named \in SUBSET bad : \/ "all" \in Naming /\ named = bad
                          \/ "some" \in Naming /\ named # {}
                          \/ "none" \in Naming /\ named = {}}

(* Mutant: the update is not sent again without the refused attributes. *)
DimsRejectedForGood ==
  /\ pc = "dims" /\ alive
  /\ \E named \in Named(sending \cap BadDims) \ {{}} :
       /\ sending' = sending \ named
       /\ ack' = [ack EXCEPT !.dims = @ \cup (named \ HostLinks)]
       /\ Settle(named \ HostLinks)
       /\ refusedUpdates' = refusedUpdates \cup {Payload}
       /\ attempt' = attempt + 1
       /\ ToMetrics
  /\ UNCHANGED <<bufferVars, outcome, batch, sent, life, alive, seen, metricHistory>>

(* Mutant: the refused attributes are sent again and never given up. *)
DimsRejectedAndKept ==
  /\ pc = "dims" /\ alive
  /\ Named(sending \cap BadDims) \ {{}} # {}
  /\ refusedUpdates' = refusedUpdates \cup {Payload}
  /\ attempt' = attempt + 1
  /\ IF attempt = 0 THEN pc' = "dims" /\ tries' = 0 ELSE ToMetrics
  /\ UNCHANGED <<bufferVars, outcome, batch, ack, sending, sent, life, alive, seen, dimSettled, metricHistory>>

(* 422 naming some of what was sent: those are given up, the rest is sent  *)
(* once more unless this already was the second update.                    *)
DimsRejected ==
  /\ pc = "dims" /\ alive
  /\ \E named \in Named(sending \cap BadDims) \ {{}} :
       /\ sending' = sending \ named
       /\ ack' = [ack EXCEPT !.dims = @ \cup (named \ HostLinks)]
       /\ Settle(named \ HostLinks)
       /\ refusedUpdates' = refusedUpdates \cup {Payload}
       /\ attempt' = attempt + 1
       /\ IF attempt = 0 /\ sending # named
          THEN pc' = "dims" /\ tries' = 0
          ELSE ToMetrics
  /\ UNCHANGED <<bufferVars, outcome, batch, sent, life, alive, seen, metricHistory>>

(* 422 without a field that was sent: the publish ends. *)
DimsRejectedUnnamed ==
  /\ pc = "dims" /\ alive /\ sending \cap BadDims # {}
  /\ {} \in Named(sending \cap BadDims)
  /\ refusedUpdates' = refusedUpdates \cup {Payload}
  /\ Fail("error")
  /\ UNCHANGED <<bufferVars, batch, ack, sending, attempt, sent, life, alive, seen, dimSettled, metricHistory>>

(* No answer: the update was written all the same, or it was not. *)
DimsUnanswered ==
  /\ pc = "dims"
  /\ \/ alive /\ sending \cap BadDims = {} /\ Settle(SentDims)
     \/ UNCHANGED dimSettled
  /\ RetryOrFail
  /\ UNCHANGED <<bufferVars, batch, ack, sending, attempt, sent, life, alive, seen, refusedUpdates, metricHistory>>

-----------------------------------------------------------------------------
(* The metric chunks.                                                      *)

(* The next chunk takes the first ChunkSize unsent samples of the batch,   *)
(* which is sorted by slug: none of a slug before all of the earlier ones. *)
IsChunk(take) ==
  /\ \A s \in MetricSlugs : take[s] <= Left(s)
  /\ \A s, t \in MetricSlugs : s < t /\ take[t] > 0 => take[s] = Left(s)
  /\ LET left == SumFunction([s \in MetricSlugs |-> Left(s)])
     IN  SumFunction(take) = IF left < ChunkSize THEN left ELSE ChunkSize

ChunkOf(take) ==
  UNION {{<<s, batch.metrics[s][i]>> : i \in sent[s] + 1 .. sent[s] + take[s]} : s \in MetricSlugs}

MoreToSend == \E s \in MetricSlugs : Left(s) > 0

Land(chunk) ==
  /\ landed' = landed \cup chunk
  /\ twice' = twice \cup (chunk \cap landed)

(* The chunk counts as dealt with: accepted, or refused and dropped. *)
ChunkDone(take) ==
  /\ sent' = [s \in MetricSlugs |-> sent[s] + take[s]]
  /\ ack' = [ack EXCEPT !.metrics = [s \in MetricSlugs |-> @[s] + take[s]]]
  /\ tries' = 0
  /\ UNCHANGED <<pc, outcome>>

ChunkOk ==
  /\ pc = "metrics" /\ alive /\ MoreToSend
  /\ \E take \in [MetricSlugs -> 0 .. ChunkSize] :
       IsChunk(take) /\ Land(ChunkOf(take)) /\ ChunkDone(take)
  /\ UNCHANGED <<bufferVars, batch, sending, attempt, life, alive, dimHistory,
                 added, unsure, refused, overflowed, reported>>

ChunkRejected ==
  /\ pc = "metrics" /\ alive /\ MoreToSend
  /\ \E take \in [MetricSlugs -> 0 .. ChunkSize] :
       IsChunk(take) /\ refused' = refused \cup ChunkOf(take) /\ ChunkDone(take)
  /\ UNCHANGED <<bufferVars, batch, sending, attempt, life, alive, dimHistory,
                 added, landed, twice, unsure, overflowed, reported>>

ChunkUnanswered ==
  /\ pc = "metrics" /\ MoreToSend
  /\ \/ /\ alive
        /\ \E take \in [MetricSlugs -> 0 .. ChunkSize] :
             /\ IsChunk(take)
             /\ Land(ChunkOf(take))
             /\ unsure' = unsure \cup ChunkOf(take)
     \/ UNCHANGED <<landed, twice, unsure>>
  /\ RetryOrFail
  /\ UNCHANGED <<bufferVars, batch, ack, sending, attempt, sent, life, alive, dimHistory,
                 added, refused, overflowed, reported>>

AllSent ==
  /\ pc = "metrics" /\ ~MoreToSend
  /\ pc' = "ack"
  /\ UNCHANGED <<bufferVars, outcome, batch, ack, sending, attempt, sent, tries, life, alive, dimHistory, metricHistory>>

-----------------------------------------------------------------------------
(* Either call: the platform no longer knows the entity (404).             *)

InCall == pc = "dims" \/ (pc = "metrics" /\ MoreToSend)

EntityGone ==
  /\ InCall /\ ~alive /\ Fail("gone")
  /\ UNCHANGED <<bufferVars, batch, ack, sending, attempt, sent, life, alive, dimHistory, metricHistory>>

(* Mutant: a publish that failed acknowledges nothing. *)
PublishEndsAckingSuccess ==
  /\ pc = "ack"
  /\ Ack(batch, IF outcome = "ok" THEN ack ELSE NoAck)
  /\ pc' = "idle" /\ batch' = NoBatch /\ ack' = NoAck
  /\ sending' = {} /\ attempt' = 0 /\ sent' = NoMetrics /\ tries' = 0
  /\ life' = IF life = "final" THEN "exited" ELSE IF outcome = "gone" THEN "failed" ELSE life
  /\ UNCHANGED <<outcome, alive, dimHistory, metricHistory>>

(* The publish ends, and its local state with it: the buffer forgets what  *)
(* was dealt with.  A lost host entity ends the run, and a final publish   *)
(* ends it in any case.                                                    *)
PublishEnds ==
  /\ pc = "ack"
  /\ Ack(batch, ack)
  /\ pc' = "idle" /\ batch' = NoBatch /\ ack' = NoAck
  /\ sending' = {} /\ attempt' = 0 /\ sent' = NoMetrics /\ tries' = 0
  /\ life' = IF life = "final" THEN "exited" ELSE IF outcome = "gone" THEN "failed" ELSE life
  /\ UNCHANGED <<outcome, alive, dimHistory, metricHistory>>

-----------------------------------------------------------------------------
(* The stop signal, the collectors' end, and a user deleting the entity.   *)

StopSignal ==
  /\ life = "running" /\ life' = "stopping"
  /\ UNCHANGED <<bufferVars, publisherVars, alive, dimHistory, metricHistory>>

CollectorsDone ==
  /\ life = "stopping" /\ pc = "idle" /\ life' = "final"
  /\ UNCHANGED <<bufferVars, publisherVars, alive, dimHistory, metricHistory>>

DeleteEntity ==
  /\ alive /\ alive' = FALSE
  /\ UNCHANGED <<bufferVars, publisherVars, life, dimHistory, metricHistory>>

-----------------------------------------------------------------------------
Over == life \in {"exited", "failed"}

Publisher ==
  \/ TakeDrops \/ NothingToPublish \/ Snapshot
  \/ DimsOk \/ DimsRejected \/ DimsRejectedUnnamed \/ DimsUnanswered
  \/ ChunkOk \/ ChunkRejected \/ ChunkUnanswered \/ AllSent
  \/ EntityGone \/ PublishEnds

Next ==
  \/ \E s \in DimSlugs : CollectDim(s)
  \/ \E s \in MetricSlugs : CollectMetric(s)
  \/ ~Over /\ Publisher
  \/ StopSignal \/ CollectorsDone \/ DeleteEntity

Spec == Init /\ [][Next]_vars

(* The publisher keeps taking steps and every call returns; while the      *)
(* entity exists the platform answers each of the two updates of a publish *)
(* at some time, and accepts chunks at some time.                          *)
Fairness ==
  /\ WF_vars(~Over /\ Publisher)
  /\ WF_vars(CollectorsDone)
  /\ SF_vars(DimsOk) /\ SF_vars(ChunkOk)
  /\ SF_vars(attempt = 0 /\ DimsRejected) /\ SF_vars(attempt = 1 /\ DimsRejected)

FairSpec == Spec /\ Fairness

-----------------------------------------------------------------------------
(* Properties.                                                             *)

Batches == [dims : [DimSlugs -> Nat], metrics : [MetricSlugs -> Seq(Nat)], start : [MetricSlugs -> Nat]]
Acks == [dims : SUBSET DimSlugs, metrics : [MetricSlugs -> Nat]]

PublisherTypeOK ==
  /\ pc \in {"idle", "snapshot", "dims", "metrics", "ack"}
  /\ outcome \in {"ok", "error", "gone"}
  /\ batch \in Batches /\ ack \in Acks
  /\ sending \subseteq DimSlugs \cup HostLinks
  /\ attempt \in 0 .. 2
  /\ sent \in [MetricSlugs -> Nat]
  /\ tries \in 0 .. Retries

DimHistoryOK ==
  seen \in [DimSlugs -> Nat] /\ dimSettled \in [DimSlugs -> SUBSET Nat]

MetricHistoryOK ==
  /\ added \in [MetricSlugs -> Nat] /\ reported \in [MetricSlugs -> Nat]
  /\ landed \subseteq Samples /\ twice \subseteq landed /\ unsure \subseteq landed
  /\ refused \subseteq Samples /\ overflowed \subseteq Samples

TypeOK ==
  /\ BufferTypeOK /\ PublisherTypeOK /\ DimHistoryOK /\ MetricHistoryOK
  /\ life \in {"running", "stopping", "final", "exited", "failed"}
  /\ alive \in BOOLEAN

Held(s) == {items[s][i] : i \in 1 .. Len(items[s])}

Accounted == landed \cup refused \cup overflowed

(* Buffer.Ack and the loss-free promise (FR-009): a metric sample that was *)
(* collected still waits in the buffer, or the platform stored or refused  *)
(* it, or a full queue gave it up: none disappears, whatever overflows     *)
(* while a publish runs and wherever the publish breaks off.               *)
NoSilentLoss ==
  \A s \in MetricSlugs : \A i \in 1 .. added[s] :
     i \in Held(s) \/ <<s, i>> \in Accounted

(* Buffer.Ack (a newer one stays): the latest value of a dimension waits,  *)
(* or was written, refused or unrenderable; an update that was in flight   *)
(* when it was collected never takes it away.                              *)
LatestDimKept ==
  \A s \in DimSlugs : seen[s] > 0 => dims[s] = seen[s] \/ seen[s] \in dimSettled[s]

(* Publish returns what was accepted with the error, and it is acked: a    *)
(* sample reaches the platform twice only if an attempt that delivered it  *)
(* left the transport without an answer.                                   *)
RedeliveryOnlyWhenUnsure == twice \subseteq unsure

(* A 422 answered an update that carried this value of the dimension.      *)
RefusedWith(s, at) == \E update \in refusedUpdates : s \in DOMAIN update /\ update[s] = at

(* daemon: after a stop whose final publish succeeds nothing is left in a  *)
(* queue, every sample a full queue gave up was logged, and a dimension is *)
(* left only if an update with that very value was refused; the final      *)
(* publish runs after the last collector.                                  *)
CleanExit ==
  life = "exited" /\ outcome = "ok" =>
     /\ \A s \in MetricSlugs :
           items[s] = <<>> /\ Cardinality({i \in 1 .. added[s] : <<s, i>> \in overflowed}) = reported[s]
     /\ \A s \in HeldDims : RefusedWith(s, dims[s])

(* updateDims (retrying once without the attributes a 422 names): a        *)
(* publish that was refused at most once deals with every dimension it set *)
(* out with; the refused ones cost the others nothing.                     *)
RefusalIsolated ==
  pc = "ack" /\ outcome = "ok" /\ attempt < 2 =>
     \A s \in DimSlugs : batch.dims[s] # 0 => batch.dims[s] \in dimSettled[s]

(* 003 FR-015 says that a refused update is never retried with the same    *)
(* payload.                                                                *)
NoRefusedUpdateAgain == pc = "dims" => Payload \notin refusedUpdates

(* The loop comes back to what a failed publish left: while the entity     *)
(* exists and the daemon runs, each sample is stored, refused or gives way *)
(* to newer ones, and the latest of each dimension is dealt with.          *)
EventuallySettled ==
  /\ \A s \in MetricSlugs : \A i \in 1 .. MaxSamples[s] :
       added[s] >= i ~> <<s, i>> \in Accounted \/ ~alive \/ Over
  /\ \A s \in DimSlugs : \A i \in 1 .. MaxSamples[s] :
       seen[s] = i ~> i \in dimSettled[s] \/ seen[s] > i \/ ~alive \/ Over

-----------------------------------------------------------------------------
(* What the buffer and its publisher promise of every metric sample.       *)

Fate(s, i) ==
  IF <<s, i>> \in landed THEN "stored"
  ELSE IF <<s, i>> \in refused THEN "refused"
  ELSE IF <<s, i>> \in overflowed THEN "dropped"
  ELSE IF i \in Held(s) THEN "waiting" ELSE "lost"

Promise == INSTANCE Ledger WITH
  Slugs <- MetricSlugs, Max <- MaxPerMetric,
  fate <- [s \in MetricSlugs |-> [i \in 1 .. added[s] |-> Fate(s, i)]]

(* Every step of collectors, publisher and platform is one the ledger of   *)
(* fates allows: samples leave in order, only a full queue drops, and what *)
(* is stored or refused stays so.                                          *)
KeepsLedger == Promise!Spec
=============================================================================
