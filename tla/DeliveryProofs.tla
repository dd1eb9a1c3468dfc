--------------------------- MODULE DeliveryProofs ---------------------------
(***************************************************************************)
(* What Delivery promises for every buffer bound, request size, number of  *)
(* retries, set of attributes and length of run, proved with TLAPS.        *)
(***************************************************************************)
EXTENDS Delivery, SequenceTheorems, FiniteSetTheorems, TLAPS

(* Between two publishes the publisher's local state is empty, and the     *)
(* second dimension update is the last.                                    *)
LocalsInv ==
  /\ pc \in {"idle", "snapshot"} => attempt = 0 /\ sent = NoMetrics
  /\ pc = "dims" => attempt \in {0, 1}

TypeInv == TypeOK /\ LocalsInv

(* A queue holds consecutive samples, up to the newest collected.          *)
QueueInv ==
  \A s \in MetricSlugs :
    /\ added[s] = removed[s] + Len(items[s])
    /\ \A i \in 1 .. Len(items[s]) : items[s][i] = removed[s] + i

(* So does the batch; it starts no later than the queue does now.          *)
BatchInv ==
  \A s \in MetricSlugs :
    /\ batch.start[s] <= removed[s]
    /\ batch.start[s] + Len(batch.metrics[s]) <= added[s]
    /\ \A i \in 1 .. Len(batch.metrics[s]) : batch.metrics[s][i] = batch.start[s] + i

(* What the publisher is done with is what it will acknowledge, and the    *)
(* platform stored or refused all of it.                                   *)
CursorInv ==
  \A s \in MetricSlugs :
    /\ sent[s] <= Len(batch.metrics[s])
    /\ ack.metrics[s] = sent[s]
    /\ \A i \in 1 .. sent[s] : <<s, batch.start[s] + i>> \in landed \cup refused

(* What left the queue is accounted for. *)
RemovedInv ==
  \A s \in MetricSlugs : \A i \in 1 .. removed[s] : <<s, i>> \in Accounted

(* How far the platform's answers are known. *)
Known(s) == IF pc \in {"idle", "snapshot"} THEN removed[s] ELSE batch.start[s] + sent[s]

(* A sample stored beyond that was delivered by an unanswered attempt.     *)
UnsureInv ==
  /\ twice \subseteq unsure
  /\ \A s \in MetricSlugs, i \in Nat : <<s, i>> \in landed => i <= Known(s) \/ <<s, i>> \in unsure

(* The dimensions to acknowledge were dealt with as the batch holds them.  *)
DimInv ==
  /\ LatestDimKept
  /\ \A s \in ack.dims : batch.dims[s] \in dimSettled[s]

MetricInv == QueueInv /\ BatchInv /\ CursorInv /\ RemovedInv /\ UnsureInv

-----------------------------------------------------------------------------
(* The operators on queues.                                                *)

(* DropFirst (q.items[n:]) keeps the samples behind the first n.           *)
LEMMA DropFirstFacts ==
  ASSUME NEW q \in Seq(Nat), NEW n \in 0 .. Len(q)
  PROVE  /\ DropFirst(q, n) \in Seq(Nat)
         /\ Len(DropFirst(q, n)) = Len(q) - n
         /\ \A i \in 1 .. Len(q) - n : DropFirst(q, n)[i] = q[n + i]
<1> DEFINE m == n + 1
<1>1. /\ m \in Int /\ Len(q) \in Int /\ Len(q) \in Nat
      /\ \A i \in m .. Len(q) : q[i] \in Nat
  OBVIOUS
<1> HIDE DEF m
<1>2. /\ SubSeq(q, m, Len(q)) \in Seq(Nat)
      /\ Len(SubSeq(q, m, Len(q))) = IF m <= Len(q) THEN Len(q) - m + 1 ELSE 0
      /\ \A i \in 1 .. Len(q) - m + 1 : SubSeq(q, m, Len(q))[i] = q[m + i - 1]
  BY <1>1, SubSeqProperties
<1> QED
  BY <1>2 DEF DropFirst, m

(* A batch holds stamps, samples and the place of the first of them.       *)
LEMMA BatchFacts ==
  ASSUME PublisherTypeOK
  PROVE  /\ batch.dims \in [DimSlugs -> Nat]
         /\ batch.metrics \in [MetricSlugs -> Seq(Nat)]
         /\ batch.start \in [MetricSlugs -> Nat]
         /\ \A s \in MetricSlugs : Len(batch.metrics[s]) \in Nat
BY DEF PublisherTypeOK, Batches

(* Buffer.Ack takes at most the queue, nothing beyond the acknowledged end *)
(* of the batch, and everything up to there that is still queued.          *)
LEMMA AckedNowFacts ==
  ASSUME TypeOK, NEW s \in MetricSlugs, NEW n \in Nat
  PROVE  /\ AckedNow(batch, s, n) \in 0 .. Len(items[s])
         /\ removed[s] + AckedNow(batch, s, n) <= batch.start[s] + n \/ AckedNow(batch, s, n) = 0
         /\ batch.start[s] <= removed[s] /\ batch.start[s] + n <= removed[s] + Len(items[s])
              => batch.start[s] + n <= removed[s] + AckedNow(batch, s, n)
<1>1. batch.start[s] \in Nat /\ removed[s] \in Nat /\ Len(items[s]) \in Nat
  BY BatchFacts DEF TypeOK, BufferTypeOK
<1> DEFINE end == batch.start[s] + n
           taken == IF n = 0 \/ end <= removed[s] THEN 0
                    ELSE IF end - removed[s] > Len(items[s]) THEN Len(items[s]) ELSE end - removed[s]
<1>2. AckedNow(batch, s, n) = taken
  BY DEF AckedNow
<1>3. ASSUME NEW b \in Nat, NEW r \in Nat, NEW l \in Nat, NEW t,
             t = IF n = 0 \/ b + n <= r THEN 0 ELSE IF b + n - r > l THEN l ELSE b + n - r
      PROVE  t \in 0 .. l /\ (r + t <= b + n \/ t = 0) /\ (b <= r /\ b + n <= r + l => b + n <= r + t)
  BY <1>3
<1> QED
  <2> HIDE DEF taken
  <2>1. /\ taken \in 0 .. Len(items[s]) /\ (removed[s] + taken <= batch.start[s] + n \/ taken = 0)
        /\ (batch.start[s] <= removed[s] /\ batch.start[s] + n <= removed[s] + Len(items[s])
              => batch.start[s] + n <= removed[s] + taken)
    BY <1>1, <1>3, SMTT(30) DEF taken
  <2> QED
    BY <1>2, <2>1

-----------------------------------------------------------------------------
(* Types.                                                                  *)

LEMMA TypeInit == Init => TypeInv
<1> SUFFICES ASSUME Init PROVE TypeInv
  OBVIOUS
<1> USE DEF Init, NoMetrics
<1>1. BufferTypeOK
  BY DEF BufferInit, BufferTypeOK
<1>2. PublisherTypeOK
  BY DeliveryAssumption DEF PublisherTypeOK, NoBatch, NoAck, Batches, Acks
<1>3. DimHistoryOK /\ MetricHistoryOK
  BY DEF DimHistoryOK, MetricHistoryOK
<1> QED
  BY <1>1, <1>2, <1>3 DEF TypeInv, TypeOK, LocalsInv

(* The parts of a state an action leaves alone keep their types.           *)
LEMMA TypeFrame ==
  ASSUME TypeOK
  PROVE  /\ UNCHANGED bufferVars => BufferTypeOK'
         /\ UNCHANGED publisherVars => PublisherTypeOK'
         /\ UNCHANGED dimHistory => DimHistoryOK'
         /\ UNCHANGED metricHistory => MetricHistoryOK'
<1>1. UNCHANGED bufferVars => BufferTypeOK'
  BY DEF TypeOK, BufferTypeOK, bufferVars
<1>2. UNCHANGED publisherVars => PublisherTypeOK'
  BY DEF TypeOK, PublisherTypeOK, publisherVars
<1>3. UNCHANGED dimHistory => DimHistoryOK'
  BY DEF TypeOK, DimHistoryOK, dimHistory
<1>4. UNCHANGED metricHistory => MetricHistoryOK'
  BY DEF TypeOK, MetricHistoryOK, metricHistory, Samples
<1> QED
  BY <1>1, <1>2, <1>3, <1>4

(* A chunk is made of samples of the batch that were not dealt with yet.   *)
LEMMA ChunkFacts ==
  ASSUME TypeOK, NEW take \in [MetricSlugs -> 0 .. ChunkSize], IsChunk(take)
  PROVE  /\ \A s \in MetricSlugs : take[s] \in Nat /\ sent[s] + take[s] <= Len(batch.metrics[s])
         /\ ChunkOf(take) \subseteq Samples
<1>1. \A s \in MetricSlugs :
         /\ take[s] \in Nat /\ sent[s] \in Nat /\ Len(batch.metrics[s]) \in Nat
         /\ take[s] <= Left(s)
  BY BatchFacts, DeliveryAssumption DEF TypeOK, PublisherTypeOK, IsChunk
<1>2. \A s \in MetricSlugs : sent[s] + take[s] <= Len(batch.metrics[s])
  BY <1>1 DEF Left
<1>3. ASSUME NEW s \in MetricSlugs, NEW i \in sent[s] + 1 .. sent[s] + take[s]
      PROVE  <<s, batch.metrics[s][i]>> \in Samples
  <2>1. i \in 1 .. Len(batch.metrics[s])
    BY <1>1, <1>2
  <2> QED
    BY <2>1, BatchFacts DEF TypeOK, Samples
<1> QED
  BY <1>1, <1>2, <1>3 DEF ChunkOf

(* The acknowledgement grows by dimensions, or its counts are replaced.    *)
LEMMA AckFacts ==
  ASSUME PublisherTypeOK
  PROVE  /\ \A D \in SUBSET DimSlugs :
              /\ [ack EXCEPT !.dims = @ \cup D] \in Acks
              /\ [ack EXCEPT !.dims = @ \cup D].dims = ack.dims \cup D
              /\ [ack EXCEPT !.dims = @ \cup D].metrics = ack.metrics
         /\ \A M \in [MetricSlugs -> Nat] :
              /\ [ack EXCEPT !.metrics = M] \in Acks
              /\ [ack EXCEPT !.metrics = M].dims = ack.dims
              /\ [ack EXCEPT !.metrics = M].metrics = M
         /\ ack.dims \subseteq DimSlugs /\ ack.metrics \in [MetricSlugs -> Nat]
BY DEF PublisherTypeOK, Acks

LEMMA TypeStep == TypeInv /\ [Next]_vars => TypeInv'
<1> SUFFICES ASSUME TypeInv, [Next]_vars PROVE TypeInv'
  OBVIOUS
<1> USE DEF TypeInv, TypeOK
<1>1. ASSUME NEW s \in DimSlugs, CollectDim(s) PROVE TypeInv'
  <2>1. BufferTypeOK' /\ DimHistoryOK'
    BY <1>1 DEF CollectDim, AddDim, BufferTypeOK, DimHistoryOK
  <2> QED
    BY TypeFrame, <1>1, <2>1 DEF CollectDim, publisherVars, LocalsInv
<1>2. ASSUME NEW s \in MetricSlugs, CollectMetric(s) PROVE TypeInv'
  <2>1. /\ items[s] \in Seq(Nat) /\ added[s] + 1 \in Nat
        /\ Full(s) => DropFirst(items[s], 1) \in Seq(Nat) /\ Head(items[s]) \in Nat
    <3>1. items[s] \in Seq(Nat) /\ added[s] + 1 \in Nat /\ Len(items[s]) \in Nat
      BY DEF BufferTypeOK, MetricHistoryOK
    <3>2. ASSUME Full(s) PROVE 1 \in 0 .. Len(items[s]) /\ items[s] # <<>>
      BY <3>1, <3>2, BufferAssumption DEF Full
    <3> QED
      BY <3>1, <3>2, DropFirstFacts, HeadTailProperties
  <2>2. BufferTypeOK'
    BY <1>2, <2>1, SMTT(30) DEF CollectMetric, AddMetric, BufferTypeOK
  <2>3. MetricHistoryOK'
    <3>1. added' \in [MetricSlugs -> Nat] /\ overflowed' \subseteq Samples
      BY <1>2, <2>1 DEF CollectMetric, MetricHistoryOK, Samples
    <3> QED
      BY <1>2, <3>1 DEF CollectMetric, MetricHistoryOK
  <2> QED
    BY TypeFrame, <1>2, <2>2, <2>3 DEF CollectMetric, publisherVars, LocalsInv
<1>3. CASE TakeDrops
  <2>1. BufferTypeOK'
    BY <1>3 DEF TakeDrops, ResetDrops, NoMetrics, BufferTypeOK
  <2>0. MetricHistoryOK'
    BY <1>3 DEF TakeDrops, BufferTypeOK, MetricHistoryOK
  <2>2. PublisherTypeOK' /\ LocalsInv'
    BY <1>3 DEF TakeDrops, PublisherTypeOK, LocalsInv, NoMetrics
  <2> QED
    BY TypeFrame, <1>3, <2>0, <2>1, <2>2 DEF TakeDrops
<1>4. CASE NothingToPublish
  <2>1. PublisherTypeOK' /\ LocalsInv'
    BY <1>4 DEF NothingToPublish, PublisherTypeOK, LocalsInv, NoMetrics
  <2> QED
    BY TypeFrame, <1>4, <2>1 DEF NothingToPublish
<1>5. CASE Snapshot
  <2>1. SnapshotOf \in Batches /\ HeldDims \subseteq DimSlugs
    BY DEF SnapshotOf, HeldDims, BufferTypeOK, Batches
  <2>4. \A D \in SUBSET DimSlugs : [NoAck EXCEPT !.dims = D] \in Acks
    BY DEF NoAck, NoMetrics, Acks
  <2>2. PublisherTypeOK'
    BY <1>5, <2>1, <2>4 DEF Snapshot, PublisherTypeOK
  <2>3. DimHistoryOK'
    BY <1>5 DEF Snapshot, BufferTypeOK, DimHistoryOK
  <2> QED
    BY TypeFrame, <1>5, <2>2, <2>3 DEF Snapshot, LocalsInv
<1>6. CASE DimsOk
  <2>1. SentDims \subseteq DimSlugs
    BY DEF SentDims, PublisherTypeOK
  <2>2. PublisherTypeOK'
    BY <1>6, <2>1, AckFacts, DeliveryAssumption DEF DimsOk, ToMetrics, PublisherTypeOK
  <2>3. DimHistoryOK'
    BY <1>6, <2>1, BatchFacts DEF DimsOk, Settle, DimHistoryOK
  <2> QED
    BY TypeFrame, <1>6, <2>2, <2>3 DEF DimsOk, ToMetrics, LocalsInv
<1>7. CASE DimsRejected
  <2>1. PICK named \in Named(sending \cap BadDims) \ {{}} :
          /\ sending' = sending \ named
          /\ ack' = [ack EXCEPT !.dims = @ \cup (named \ HostLinks)]
          /\ Settle(named \ HostLinks)
          /\ attempt' = attempt + 1
          /\ tries' = 0
          /\ (pc' = "dims" /\ attempt = 0) \/ pc' = "metrics"
    BY <1>7 DEF DimsRejected, ToMetrics
  <2>2. named \ HostLinks \subseteq DimSlugs
    BY DEF Named, PublisherTypeOK
  <2>3. PublisherTypeOK'
    <3>1. attempt' \in 0 .. 2 /\ tries' \in 0 .. Retries
      BY <1>7, <2>1, DeliveryAssumption DEF DimsRejected, LocalsInv
    <3>2. ack' \in Acks
      BY <2>1, <2>2, AckFacts
    <3> QED
      BY <1>7, <2>1, <3>1, <3>2 DEF DimsRejected, PublisherTypeOK
  <2>4. DimHistoryOK'
    BY <1>7, <2>1, <2>2, BatchFacts DEF DimsRejected, Settle, DimHistoryOK
  <2> QED
    BY TypeFrame, <1>7, <2>1, <2>3, <2>4 DEF DimsRejected, LocalsInv
<1>8. CASE DimsRejectedUnnamed
  <2>1. PublisherTypeOK' /\ DimHistoryOK'
    BY <1>8 DEF DimsRejectedUnnamed, Fail, PublisherTypeOK, DimHistoryOK
  <2> QED
    BY TypeFrame, <1>8, <2>1 DEF DimsRejectedUnnamed, Fail, LocalsInv
<1>9. CASE DimsUnanswered
  <2>1. PublisherTypeOK'
    BY <1>9, DeliveryAssumption DEF DimsUnanswered, RetryOrFail, Fail, PublisherTypeOK
  <2>2. DimHistoryOK'
    <3>1. \A s \in DimSlugs : batch.dims[s] \in Nat
      BY BatchFacts
    <3>2. Settle(SentDims) \/ UNCHANGED dimSettled
      BY <1>9 DEF DimsUnanswered
    <3>3. dimSettled' \in [DimSlugs -> SUBSET Nat]
      BY <3>1, <3>2 DEF Settle, DimHistoryOK
    <3> QED
      BY <1>9, <3>3 DEF DimsUnanswered, DimHistoryOK
  <2> QED
    BY TypeFrame, <1>9, <2>1, <2>2 DEF DimsUnanswered, RetryOrFail, Fail, LocalsInv
<1>10. CASE ChunkOk
  <2>1. PICK take \in [MetricSlugs -> 0 .. ChunkSize] : IsChunk(take) /\ Land(ChunkOf(take)) /\ ChunkDone(take)
    BY <1>10 DEF ChunkOk
  <2>4. /\ [s \in MetricSlugs |-> sent[s] + take[s]] \in [MetricSlugs -> Nat]
        /\ [s \in MetricSlugs |-> ack.metrics[s] + take[s]] \in [MetricSlugs -> Nat]
    BY <2>1, ChunkFacts, AckFacts DEF PublisherTypeOK
  <2>2. PublisherTypeOK'
    BY <1>10, <2>1, <2>4, AckFacts, DeliveryAssumption DEF ChunkOk, ChunkDone, PublisherTypeOK
  <2>3. MetricHistoryOK'
    BY <1>10, <2>1, ChunkFacts DEF ChunkOk, Land, MetricHistoryOK, Samples
  <2> QED
    BY TypeFrame, <1>10, <2>1, <2>2, <2>3 DEF ChunkOk, ChunkDone, LocalsInv
<1>11. CASE ChunkRejected
  <2>1. PICK take \in [MetricSlugs -> 0 .. ChunkSize] :
             IsChunk(take) /\ refused' = refused \cup ChunkOf(take) /\ ChunkDone(take)
    BY <1>11 DEF ChunkRejected
  <2>4. /\ [s \in MetricSlugs |-> sent[s] + take[s]] \in [MetricSlugs -> Nat]
        /\ [s \in MetricSlugs |-> ack.metrics[s] + take[s]] \in [MetricSlugs -> Nat]
    BY <2>1, ChunkFacts, AckFacts DEF PublisherTypeOK
  <2>2. PublisherTypeOK'
    BY <1>11, <2>1, <2>4, AckFacts, DeliveryAssumption DEF ChunkRejected, ChunkDone, PublisherTypeOK
  <2>3. MetricHistoryOK'
    BY <1>11, <2>1, ChunkFacts DEF ChunkRejected, MetricHistoryOK, Samples
  <2> QED
    BY TypeFrame, <1>11, <2>1, <2>2, <2>3 DEF ChunkRejected, ChunkDone, LocalsInv
<1>12. CASE ChunkUnanswered
  <2>1. MetricHistoryOK'
    BY <1>12, ChunkFacts DEF ChunkUnanswered, Land, MetricHistoryOK, Samples
  <2>2. PublisherTypeOK'
    BY <1>12, DeliveryAssumption DEF ChunkUnanswered, RetryOrFail, Fail, PublisherTypeOK
  <2> QED
    BY TypeFrame, <1>12, <2>1, <2>2 DEF ChunkUnanswered, RetryOrFail, Fail, LocalsInv
<1>13. CASE AllSent
  <2>1. PublisherTypeOK' /\ LocalsInv'
    BY <1>13 DEF AllSent, PublisherTypeOK, LocalsInv
  <2> QED
    BY TypeFrame, <1>13, <2>1 DEF AllSent
<1>14. CASE EntityGone
  <2>1. PublisherTypeOK' /\ LocalsInv'
    BY <1>14 DEF EntityGone, Fail, PublisherTypeOK, LocalsInv
  <2> QED
    BY TypeFrame, <1>14, <2>1 DEF EntityGone
<1>15. CASE PublishEnds
  <2>1. BufferTypeOK'
    <3>1. ack.dims \subseteq DimSlugs /\ ack.metrics \in [MetricSlugs -> Nat]
      BY AckFacts
    <3>2. \A s \in MetricSlugs :
            /\ removed[s] + AckedNow(batch, s, ack.metrics[s]) \in Nat
            /\ DropFirst(items[s], AckedNow(batch, s, ack.metrics[s])) \in Seq(Nat)
      <4> SUFFICES ASSUME NEW s \in MetricSlugs
                   PROVE  /\ removed[s] + AckedNow(batch, s, ack.metrics[s]) \in Nat
                          /\ DropFirst(items[s], AckedNow(batch, s, ack.metrics[s])) \in Seq(Nat)
        OBVIOUS
      <4>1. /\ AckedNow(batch, s, ack.metrics[s]) \in 0 .. Len(items[s])
            /\ removed[s] \in Nat /\ items[s] \in Seq(Nat) /\ Len(items[s]) \in Nat
        <5>1. TypeOK /\ ack.metrics[s] \in Nat
          BY <3>1
        <5>2. AckedNow(batch, s, ack.metrics[s]) \in 0 .. Len(items[s])
          <6> HIDE DEF TypeInv, TypeOK
          <6> QED
            BY <5>1, AckedNowFacts
        <5>3. removed[s] \in Nat /\ items[s] \in Seq(Nat)
          BY DEF BufferTypeOK
        <5> QED
          BY <5>2, <5>3
      <4> QED
        BY <4>1, DropFirstFacts
    <3> QED
      BY <1>15, <3>1, <3>2 DEF PublishEnds, Ack, BufferTypeOK
  <2>3. NoBatch \in Batches /\ NoAck \in Acks
    BY DEF NoBatch, NoAck, NoMetrics, Batches, Acks
  <2>2. PublisherTypeOK' /\ LocalsInv'
    BY <1>15, <2>3, DeliveryAssumption DEF PublishEnds, NoMetrics, PublisherTypeOK, LocalsInv
  <2> QED
    BY TypeFrame, <1>15, <2>1, <2>2 DEF PublishEnds
<1>16. CASE StopSignal \/ CollectorsDone \/ DeleteEntity \/ UNCHANGED vars
  <2>1. /\ UNCHANGED <<bufferVars, publisherVars, dimHistory, metricHistory>>
        /\ life' \in {life, "stopping", "final"} /\ alive' \in {alive, FALSE}
    BY <1>16 DEF StopSignal, CollectorsDone, DeleteEntity, vars
  <2> QED
    BY TypeFrame, <2>1 DEF publisherVars, LocalsInv
<1> QED
  BY <1>1, <1>2, <1>3, <1>4, <1>5, <1>6, <1>7, <1>8, <1>9, <1>10, <1>11, <1>12, <1>13, <1>14, <1>15, <1>16
     DEF Next, Publisher

(* Every variable keeps its type, whatever the constants.                  *)
THEOREM TypeCorrect == Spec => []TypeOK
<1>1. TypeInv => TypeOK
  BY DEF TypeInv
<1> QED
  BY TypeInit, TypeStep, <1>1, PTL DEF Spec

-----------------------------------------------------------------------------
(* Metric samples.                                                         *)

(* Steps that touch neither queues, batch and cursor nor what became of    *)
(* the samples.                                                            *)
LEMMA MetricFrame ==
  ASSUME MetricInv,
         UNCHANGED <<items, removed, added, batch, sent, landed, twice, unsure, refused, overflowed>>,
         ack'.metrics = ack.metrics, pc' \in {"idle", "snapshot"} <=> pc \in {"idle", "snapshot"}
  PROVE  MetricInv'
<1>1. QueueInv' /\ BatchInv' /\ RemovedInv'
  BY DEF MetricInv, QueueInv, BatchInv, RemovedInv, Accounted
<1>2. CursorInv'
  BY DEF MetricInv, CursorInv
<1>3. UnsureInv'
  BY DEF MetricInv, UnsureInv, Known
<1> QED
  BY <1>1, <1>2, <1>3 DEF MetricInv

(* A queue of consecutive samples that gives up its first and takes the    *)
(* next one is again consecutive.                                          *)
LEMMA ShiftQueue ==
  ASSUME NEW r \in Nat, NEW n \in Nat \ {0}, NEW old, NEW new,
         \A i \in 1 .. n : old[i] = r + i,
         \A i \in 1 .. n : new[i] = IF i = n THEN r + n + 1 ELSE old[1 + i]
  PROVE  \A i \in 1 .. n : new[i] = r + 1 + i
<1>1. ASSUME NEW i \in 1 .. n, i # n PROVE new[i] = r + 1 + i
  <2>1. 1 + i \in 1 .. n
    BY <1>1
  <2> QED
    BY <1>1, <2>1
<1> QED
  BY <1>1

(* Buffer.Add of a metric: the queue stays consecutive, and the sample it  *)
(* gives up, the oldest, is the one counted as overflowed.                 *)
LEMMA CollectMetricKeeps ==
  ASSUME TypeInv, MetricInv, NEW s \in MetricSlugs, CollectMetric(s)
  PROVE  MetricInv'
<1> USE DEF TypeInv, TypeOK, MetricInv
<1>1. /\ items[s] \in Seq(Nat) /\ Len(items[s]) \in Nat
      /\ removed[s] \in Nat /\ added[s] \in Nat
  BY DEF BufferTypeOK, MetricHistoryOK
<1>2. /\ \A t \in MetricSlugs \ {s} : items'[t] = items[t] /\ removed'[t] = removed[t] /\ added'[t] = added[t]
      /\ added'[s] = added[s] + 1
      /\ \A t \in MetricSlugs : added[t] \in Nat /\ removed[t] \in Nat
  BY DEF CollectMetric, AddMetric, BufferTypeOK, MetricHistoryOK
<1>3. CASE Full(s)
  <2>1. 1 \in 0 .. Len(items[s]) /\ items[s] # <<>>
    BY <1>1, <1>3, BufferAssumption DEF Full
  <2>2. /\ items'[s] = Append(DropFirst(items[s], 1), added[s] + 1)
        /\ removed'[s] = removed[s] + 1
        /\ overflowed' = overflowed \cup {<<s, Head(items[s])>>}
    BY <1>3 DEF CollectMetric, AddMetric, BufferTypeOK
  <2>3. Head(items[s]) = removed[s] + 1
    BY <1>1, <2>1 DEF QueueInv
  <2>4. /\ Len(items'[s]) = Len(items[s])
        /\ \A i \in 1 .. Len(items[s]) :
              items'[s][i] = IF i = Len(items[s]) THEN added[s] + 1 ELSE items[s][1 + i]
    <3> DEFINE rest == DropFirst(items[s], 1)
    <3>1. /\ rest \in Seq(Nat) /\ Len(rest) = Len(items[s]) - 1
          /\ \A i \in 1 .. Len(items[s]) - 1 : rest[i] = items[s][1 + i]
      BY <1>1, <2>1, DropFirstFacts
    <3> HIDE DEF rest
    <3>2. /\ Len(Append(rest, added[s] + 1)) = Len(rest) + 1
          /\ \A i \in 1 .. Len(rest) : Append(rest, added[s] + 1)[i] = rest[i]
          /\ Append(rest, added[s] + 1)[Len(rest) + 1] = added[s] + 1
      BY <1>1, <3>1, AppendProperties
    <3>3. items'[s] = Append(rest, added[s] + 1)
      BY <2>2 DEF rest
    <3> QED
      BY <1>1, <2>1, <3>1, <3>2, <3>3
  <2>5. QueueInv'
    <3>1. added[s] = removed[s] + Len(items[s]) /\ \A i \in 1 .. Len(items[s]) : items[s][i] = removed[s] + i
      BY DEF QueueInv
    <3>2. /\ added'[s] = removed'[s] + Len(items'[s])
          /\ \A i \in 1 .. Len(items'[s]) : items'[s][i] = removed'[s] + i
      <4>1. \A i \in 1 .. Len(items[s]) :
              items'[s][i] = IF i = Len(items[s]) THEN removed[s] + Len(items[s]) + 1 ELSE items[s][1 + i]
        BY <1>1, <2>4, <3>1
      <4>2. Len(items[s]) \in Nat \ {0}
        BY <1>1, <2>1
      <4>3. \A i \in 1 .. Len(items[s]) : items'[s][i] = removed[s] + 1 + i
        <5> DEFINE n == Len(items[s])
                   r == removed[s]
                   old == items[s]
                   new == items'[s]
        <5>1. /\ r \in Nat /\ n \in Nat \ {0}
              /\ \A i \in 1 .. n : old[i] = r + i
              /\ \A i \in 1 .. n : new[i] = IF i = n THEN r + n + 1 ELSE old[1 + i]
          BY <1>1, <3>1, <4>1, <4>2
        <5> HIDE DEF n, r, old, new
        <5>2. \A i \in 1 .. n : new[i] = r + 1 + i
          BY <5>1, ShiftQueue
        <5> QED
          BY <5>2 DEF n, r, new
      <4>4. added'[s] = removed'[s] + Len(items'[s])
        BY <1>1, <1>2, <2>2, <2>4, <3>1
      <4>5. \A i \in 1 .. Len(items'[s]) : items'[s][i] = removed'[s] + i
        BY <2>2, <2>4, <4>3
      <4> QED
        BY <4>4, <4>5
    <3> QED
      BY <1>2, <3>2 DEF QueueInv
  <2>6. RemovedInv'
    <3>1. \A i \in 1 .. removed'[s] : i \in 1 .. removed[s] \/ i = removed[s] + 1
      BY <1>1, <2>2
    <3>2. Accounted \subseteq Accounted' /\ <<s, removed[s] + 1>> \in Accounted'
      BY <2>2, <2>3 DEF CollectMetric, Accounted
    <3> QED
      BY <1>2, <3>1, <3>2 DEF RemovedInv
  <2>7. BatchInv'
    <3>1. \A t \in MetricSlugs : removed[t] <= removed'[t] /\ added[t] <= added'[t]
      BY <1>1, <1>2, <2>2
    <3>2. \A t \in MetricSlugs :
            /\ removed[t] \in Nat /\ removed'[t] \in Nat /\ added[t] \in Nat /\ added'[t] \in Nat
            /\ batch.start[t] \in Nat /\ Len(batch.metrics[t]) \in Nat
      <4>1. \A t \in MetricSlugs : batch.start[t] \in Nat /\ Len(batch.metrics[t]) \in Nat
        BY BatchFacts
      <4>2. removed'[s] \in Nat /\ added'[s] \in Nat
        BY <1>1, <1>2, <2>2
      <4>3. \A t \in MetricSlugs \ {s} : removed'[t] \in Nat /\ added'[t] \in Nat
        BY <1>2
      <4> QED
        BY <1>2, <4>1, <4>2, <4>3
    <3>3. batch' = batch
      BY DEF CollectMetric, publisherVars
    <3> QED
      BY <3>1, <3>2, <3>3 DEF BatchInv
  <2>8. UnsureInv'
    <3>1. \A t \in MetricSlugs : \A i \in Nat : i <= Known(t) => i <= Known(t)'
      BY <1>1, <1>2, <2>2 DEF CollectMetric, publisherVars, Known
    <3>2. UNCHANGED <<landed, twice, unsure>>
      BY DEF CollectMetric
    <3> QED
      BY <3>1, <3>2 DEF UnsureInv
  <2> QED
    BY <2>5, <2>6, <2>7, <2>8 DEF CollectMetric, publisherVars, CursorInv
<1>4. CASE ~Full(s)
  <2>1. /\ items'[s] = Append(items[s], added[s] + 1)
        /\ removed' = removed /\ overflowed' = overflowed
    BY <1>4 DEF CollectMetric, AddMetric, BufferTypeOK
  <2>2. /\ Len(items'[s]) = Len(items[s]) + 1
        /\ \A i \in 1 .. Len(items[s]) + 1 :
              items'[s][i] = IF i = Len(items[s]) + 1 THEN added[s] + 1 ELSE items[s][i]
    BY <1>1, <2>1, AppendProperties
  <2>3. QueueInv'
    <3>1. added[s] = removed[s] + Len(items[s]) /\ \A i \in 1 .. Len(items[s]) : items[s][i] = removed[s] + i
      BY DEF QueueInv
    <3>2. /\ added'[s] = removed'[s] + Len(items'[s])
          /\ \A i \in 1 .. Len(items'[s]) : items'[s][i] = removed'[s] + i
      BY <1>1, <1>2, <2>1, <2>2, <3>1, SMTT(30)
    <3>3. \A t \in MetricSlugs \ {s} : UNCHANGED <<items[t], removed[t], added[t]>>
      BY <1>2
    <3> QED
      BY <3>2, <3>3 DEF QueueInv
  <2>4. BatchInv'
    BY <1>1, <1>2, <2>1, BatchFacts, SMTT(30) DEF CollectMetric, publisherVars, BatchInv
  <2>5. RemovedInv' /\ UnsureInv'
    BY <2>1 DEF CollectMetric, publisherVars, RemovedInv, Accounted, UnsureInv, Known
  <2> QED
    BY <2>3, <2>4, <2>5 DEF CollectMetric, publisherVars, CursorInv
<1> QED
  BY <1>3, <1>4

(* Snapshot starts where the queue stands and has dealt with nothing.      *)
LEMMA SnapshotKeeps ==
  ASSUME TypeInv, MetricInv, Snapshot
  PROVE  MetricInv'
<1> USE DEF TypeInv, TypeOK, MetricInv
<1>1. /\ batch'.metrics = items /\ batch'.start = removed
      /\ sent' = NoMetrics /\ ack'.metrics = NoMetrics
      /\ pc \in {"idle", "snapshot"} /\ pc' \notin {"idle", "snapshot"}
  BY DEF Snapshot, SnapshotOf, NoAck, LocalsInv
<1>2. UNCHANGED <<items, removed, added, landed, twice, unsure, refused, overflowed>>
  BY DEF Snapshot, bufferVars, metricHistory
<1>3. \A s \in MetricSlugs : removed[s] \in Nat /\ Len(items[s]) \in Nat /\ NoMetrics[s] = 0
  BY DEF BufferTypeOK, NoMetrics
<1>4. QueueInv' /\ RemovedInv'
  BY <1>2 DEF QueueInv, RemovedInv, Accounted
<1>5. BatchInv'
  BY <1>1, <1>2, <1>3 DEF QueueInv, BatchInv
<1>6. CursorInv'
  BY <1>1, <1>2, <1>3 DEF CursorInv
<1>7. UnsureInv'
  BY <1>1, <1>2, <1>3 DEF UnsureInv, Known
<1> QED
  BY <1>4, <1>5, <1>6, <1>7

(* A chunk holds the samples right behind the cursor.                      *)
LEMMA ChunkIds ==
  ASSUME TypeInv, BatchInv, NEW take \in [MetricSlugs -> 0 .. ChunkSize], IsChunk(take)
  PROVE  \A s \in MetricSlugs :
           /\ \A j \in sent[s] + 1 .. sent[s] + take[s] : <<s, batch.start[s] + j>> \in ChunkOf(take)
           /\ \A i \in Nat : <<s, i>> \in ChunkOf(take) =>
                 batch.start[s] + sent[s] < i /\ i <= batch.start[s] + sent[s] + take[s]
<1> SUFFICES ASSUME NEW s \in MetricSlugs
             PROVE  /\ \A j \in sent[s] + 1 .. sent[s] + take[s] : <<s, batch.start[s] + j>> \in ChunkOf(take)
                    /\ \A i \in Nat : <<s, i>> \in ChunkOf(take) =>
                          batch.start[s] + sent[s] < i /\ i <= batch.start[s] + sent[s] + take[s]
  OBVIOUS
<1>1. /\ take[s] \in Nat /\ sent[s] \in Nat /\ Len(batch.metrics[s]) \in Nat /\ batch.start[s] \in Nat
      /\ sent[s] + take[s] <= Len(batch.metrics[s])
  BY ChunkFacts, BatchFacts DEF TypeInv, TypeOK, PublisherTypeOK
<1>2. \A j \in sent[s] + 1 .. sent[s] + take[s] : batch.metrics[s][j] = batch.start[s] + j
  <2>1. \A j \in sent[s] + 1 .. sent[s] + take[s] : j \in 1 .. Len(batch.metrics[s])
    BY <1>1
  <2> QED
    BY <2>1 DEF BatchInv
<1>3. \A j \in sent[s] + 1 .. sent[s] + take[s] : <<s, batch.start[s] + j>> \in ChunkOf(take)
  BY <1>2 DEF ChunkOf
<1>4. ASSUME NEW i \in Nat, <<s, i>> \in ChunkOf(take)
      PROVE  batch.start[s] + sent[s] < i /\ i <= batch.start[s] + sent[s] + take[s]
  <2>1. PICK j \in sent[s] + 1 .. sent[s] + take[s] : i = batch.metrics[s][j]
    BY <1>4 DEF ChunkOf
  <2>2. i = batch.start[s] + j
    BY <1>2, <2>1
  <2> QED
    BY <1>1, <2>2, SMTT(30)
<1> QED
  BY <1>3, <1>4

(* A chunk that was answered, stored or refused: the cursor passes it.     *)
LEMMA ChunkDoneKeeps ==
  ASSUME TypeInv, MetricInv, pc = "metrics",
         NEW take \in [MetricSlugs -> 0 .. ChunkSize], IsChunk(take), ChunkDone(take),
         UNCHANGED <<items, removed, added, batch, unsure, overflowed>>,
         \/ Land(ChunkOf(take)) /\ UNCHANGED refused
         \/ refused' = refused \cup ChunkOf(take) /\ UNCHANGED <<landed, twice>>
  PROVE  MetricInv'
<1> USE DEF TypeInv, TypeOK, MetricInv
<1>1. \A s \in MetricSlugs :
        /\ take[s] \in Nat /\ sent[s] \in Nat /\ batch.start[s] \in Nat
        /\ sent'[s] = sent[s] + take[s] /\ sent'[s] <= Len(batch.metrics[s])
        /\ ack'.metrics[s] = sent'[s]
  <2>1. /\ [s \in MetricSlugs |-> ack.metrics[s] + take[s]] \in [MetricSlugs -> Nat]
        /\ \A s \in MetricSlugs : take[s] \in Nat /\ sent[s] \in Nat /\ batch.start[s] \in Nat
    BY ChunkFacts, BatchFacts, AckFacts DEF PublisherTypeOK
  <2>2. \A s \in MetricSlugs : sent'[s] = sent[s] + take[s] /\ sent'[s] <= Len(batch.metrics[s])
    BY ChunkFacts DEF ChunkDone
  <2>3. \A s \in MetricSlugs : ack'.metrics[s] = ack.metrics[s] + take[s]
    BY <2>1, AckFacts DEF ChunkDone
  <2> QED
    BY <2>1, <2>2, <2>3 DEF CursorInv
<1>2. /\ ChunkOf(take) \subseteq landed' \cup refused'
      /\ landed \subseteq landed' /\ refused \subseteq refused' /\ Accounted \subseteq Accounted'
  BY DEF Land, Accounted
<1>3. QueueInv' /\ BatchInv' /\ RemovedInv'
  BY <1>2 DEF QueueInv, BatchInv, RemovedInv
<1>4. CursorInv'
  <2>1. ASSUME NEW s \in MetricSlugs, NEW i \in 1 .. sent'[s]
        PROVE  <<s, batch.start[s] + i>> \in landed' \cup refused'
    <3>1. i \in 1 .. sent[s] \/ i \in sent[s] + 1 .. sent[s] + take[s]
      BY <1>1
    <3> QED
      BY <1>2, <3>1, ChunkIds DEF CursorInv
  <2> QED
    BY <1>1, <2>1 DEF CursorInv
<1>5. UnsureInv'
  <2>1. \A s \in MetricSlugs : Known(s) = batch.start[s] + sent[s] /\ Known(s)' = Known(s) + take[s]
    BY <1>1 DEF ChunkDone, Known
  <2>2. ASSUME NEW e \in ChunkOf(take) \cap landed PROVE e \in unsure
    <3>1. PICK s \in MetricSlugs, i \in Nat : e = <<s, i>>
      BY ChunkFacts DEF Samples
    <3>2. Known(s) < i /\ Known(s) \in Nat
      BY <1>1, <2>1, <2>2, <3>1, ChunkIds
    <3> QED
      BY <2>2, <3>1, <3>2 DEF UnsureInv
  <2>3. ASSUME NEW s \in MetricSlugs, NEW i \in Nat, <<s, i>> \in landed'
        PROVE  i <= Known(s)' \/ <<s, i>> \in unsure
    <3>1. CASE <<s, i>> \in landed
      <4>1. Known(s) \in Nat /\ Known(s) <= Known(s)' /\ Known(s)' \in Nat
        BY <1>1, <2>1
      <4> QED
        BY <3>1, <4>1 DEF UnsureInv
    <3>2. CASE <<s, i>> \in ChunkOf(take)
      BY <1>1, <2>1, <3>2, ChunkIds
    <3> QED
      BY <2>3, <3>1, <3>2 DEF Land
  <2>4. twice' \subseteq unsure'
    BY <2>2 DEF Land, UnsureInv
  <2> QED
    BY <2>3, <2>4 DEF UnsureInv
<1> QED
  BY <1>3, <1>4, <1>5

(* A chunk without an answer: the cursor stays, and what the platform      *)
(* stored is remembered as unsure.                                         *)
LEMMA ChunkUnansweredKeeps ==
  ASSUME TypeInv, MetricInv, ChunkUnanswered
  PROVE  MetricInv'
<1> USE DEF MetricInv
<1>1. /\ UNCHANGED <<items, removed, added, batch, ack, sent, refused, overflowed>>
      /\ pc = "metrics" /\ pc' \in {"metrics", "ack"}
      /\ landed \subseteq landed'
  BY DEF ChunkUnanswered, RetryOrFail, Fail, bufferVars, Land
<1>2. QueueInv' /\ BatchInv' /\ CursorInv' /\ RemovedInv'
  BY <1>1 DEF QueueInv, BatchInv, CursorInv, RemovedInv, Accounted
<1>3. \A s \in MetricSlugs : Known(s)' = Known(s)
  BY <1>1 DEF Known
<1>4. \E chunk : landed' = landed \cup chunk /\ twice' \subseteq twice \cup chunk /\ unsure' = unsure \cup chunk
  <2>1. CASE UNCHANGED <<landed, twice, unsure>>
    <3>1. landed' = landed \cup {} /\ twice' \subseteq twice \cup {} /\ unsure' = unsure \cup {}
      BY <2>1
    <3> QED
      BY <3>1
  <2> QED
    BY <2>1 DEF ChunkUnanswered, Land
<1>5. UnsureInv'
  BY <1>3, <1>4 DEF UnsureInv
<1> QED
  BY <1>2, <1>5

(* Buffer.Ack: what leaves the queue is what the cursor passed, and all of *)
(* it leaves, also when an overflow took part of it before.                *)
LEMMA PublishEndsKeeps ==
  ASSUME TypeInv, TypeInv', MetricInv, PublishEnds
  PROVE  MetricInv'
<1> USE DEF TypeInv, TypeOK, MetricInv
<1> DEFINE gone(s) == AckedNow(batch, s, ack.metrics[s])
<1>1. /\ UNCHANGED <<added, landed, twice, unsure, refused, overflowed>>
      /\ pc = "ack" /\ pc' = "idle" /\ sent' = NoMetrics
      /\ \A s \in MetricSlugs :
            items'[s] = DropFirst(items[s], gone(s)) /\ removed'[s] = removed[s] + gone(s)
  BY DEF PublishEnds, Ack, metricHistory
<1>2. \A s \in MetricSlugs :
        /\ removed[s] \in Nat /\ Len(items[s]) \in Nat /\ items[s] \in Seq(Nat) /\ added[s] \in Nat
        /\ batch.start[s] \in Nat /\ sent[s] \in Nat /\ Len(batch.metrics[s]) \in Nat /\ ack.metrics[s] = sent[s]
  <2> SUFFICES ASSUME NEW s \in MetricSlugs
               PROVE  /\ removed[s] \in Nat /\ Len(items[s]) \in Nat /\ items[s] \in Seq(Nat) /\ added[s] \in Nat
                      /\ batch.start[s] \in Nat /\ sent[s] \in Nat
                      /\ Len(batch.metrics[s]) \in Nat /\ ack.metrics[s] = sent[s]
    OBVIOUS
  <2>1. removed[s] \in Nat /\ items[s] \in Seq(Nat) /\ added[s] \in Nat
    BY DEF BufferTypeOK, MetricHistoryOK
  <2>2. Len(items[s]) \in Nat
    BY <2>1
  <2>3. batch.start[s] \in Nat /\ Len(batch.metrics[s]) \in Nat
    BY BatchFacts
  <2>4. sent[s] \in Nat
    BY DEF PublisherTypeOK
  <2>5. ack.metrics[s] = sent[s]
    BY DEF CursorInv
  <2> QED
    BY <2>1, <2>2, <2>3, <2>4, <2>5
<1>3. \A s \in MetricSlugs :
        /\ gone(s) \in 0 .. Len(items[s])
        /\ removed[s] + gone(s) <= batch.start[s] + sent[s] \/ gone(s) = 0
        /\ batch.start[s] + sent[s] <= removed[s] + gone(s)
  <2> SUFFICES ASSUME NEW s \in MetricSlugs
               PROVE  /\ gone(s) \in 0 .. Len(items[s])
                      /\ removed[s] + gone(s) <= batch.start[s] + sent[s] \/ gone(s) = 0
                      /\ batch.start[s] + sent[s] <= removed[s] + gone(s)
    OBVIOUS
  <2>1. batch.start[s] <= removed[s] /\ batch.start[s] + sent[s] <= removed[s] + Len(items[s])
    <3>1. /\ batch.start[s] <= removed[s] /\ sent[s] <= Len(batch.metrics[s])
          /\ batch.start[s] + Len(batch.metrics[s]) <= added[s]
          /\ added[s] = removed[s] + Len(items[s])
      <4>1. batch.start[s] <= removed[s] /\ batch.start[s] + Len(batch.metrics[s]) <= added[s]
        BY DEF BatchInv
      <4>2. added[s] = removed[s] + Len(items[s])
        BY DEF QueueInv
      <4>3. sent[s] <= Len(batch.metrics[s])
        BY DEF CursorInv
      <4> QED
        BY <4>1, <4>2, <4>3
    <3>2. /\ removed[s] \in Nat /\ Len(items[s]) \in Nat /\ added[s] \in Nat
          /\ batch.start[s] \in Nat /\ sent[s] \in Nat /\ Len(batch.metrics[s]) \in Nat
      BY <1>2
    <3> HIDE DEF TypeInv, TypeOK, MetricInv
    <3> QED
      BY <3>1, <3>2, SMTT(30)
  <2>2. TypeOK /\ sent[s] \in Nat /\ ack.metrics[s] = sent[s]
    BY <1>2
  <2> HIDE DEF TypeInv, TypeOK, MetricInv
  <2> QED
    BY <2>1, <2>2, AckedNowFacts, SMTT(30)
<1> HIDE DEF gone
<1>4. QueueInv'
  <2> SUFFICES ASSUME NEW s \in MetricSlugs
               PROVE  /\ added'[s] = removed'[s] + Len(items'[s])
                      /\ \A i \in 1 .. Len(items'[s]) : items'[s][i] = removed'[s] + i
    BY DEF QueueInv
  <2>1. /\ Len(items'[s]) = Len(items[s]) - gone(s)
        /\ \A i \in 1 .. Len(items[s]) - gone(s) : items'[s][i] = items[s][gone(s) + i]
    <3>1. items[s] \in Seq(Nat) /\ gone(s) \in 0 .. Len(items[s]) /\ items'[s] = DropFirst(items[s], gone(s))
      BY <1>1, <1>2, <1>3
    <3> HIDE DEF TypeInv, TypeOK, MetricInv
    <3> QED
      BY <3>1, DropFirstFacts, SMTT(30)
  <2>2. ASSUME NEW i \in 1 .. Len(items[s]) - gone(s) PROVE items'[s][i] = removed'[s] + i
    <3>1. gone(s) + i \in 1 .. Len(items[s]) /\ i \in Nat /\ gone(s) \in Nat
      BY <1>2, <1>3
    <3>2. items'[s][i] = removed[s] + (gone(s) + i)
      BY <2>1, <3>1 DEF QueueInv
    <3> QED
      BY <1>1, <1>2, <3>1, <3>2
  <2>3. added[s] = removed[s] + Len(items[s])
    BY DEF QueueInv
  <2> QED
    BY <1>1, <1>2, <1>3, <2>1, <2>2, <2>3
<1>5. RemovedInv'
  <2> SUFFICES ASSUME NEW s \in MetricSlugs, NEW i \in 1 .. removed'[s]
               PROVE  <<s, i>> \in Accounted
    BY <1>1 DEF RemovedInv, Accounted
  <2>1. i \in 1 .. removed[s] \/ (i \in Nat /\ removed[s] < i /\ i <= batch.start[s] + sent[s])
    <3>1. /\ removed'[s] = removed[s] + gone(s) /\ removed[s] \in Nat
          /\ gone(s) \in Nat /\ batch.start[s] \in Nat /\ sent[s] \in Nat
          /\ removed[s] + gone(s) <= batch.start[s] + sent[s] \/ gone(s) = 0
      BY <1>1, <1>2, <1>3
    <3> HIDE DEF TypeInv, TypeOK, MetricInv
    <3> QED
      BY <3>1, SMTT(30)
  <2>2. CASE removed[s] < i /\ i <= batch.start[s] + sent[s]
    <3>1. i - batch.start[s] \in 1 .. sent[s] /\ i = batch.start[s] + (i - batch.start[s])
      <4>1. batch.start[s] \in Nat /\ sent[s] \in Nat /\ removed[s] \in Nat /\ batch.start[s] <= removed[s] /\ i \in Nat
        BY <1>2, <2>1, <2>2 DEF BatchInv
      <4> HIDE DEF TypeInv, TypeOK, MetricInv
      <4> QED
        BY <4>1, <2>2, SMTT(30)
    <3> QED
      BY <3>1 DEF CursorInv, Accounted
  <2> QED
    BY <2>1, <2>2 DEF RemovedInv
<1>6. BatchInv' /\ CursorInv'
  <2>1. \A s \in MetricSlugs :
          /\ batch'.start[s] = 0 /\ batch'.metrics[s] = <<>> /\ ack'.metrics[s] = 0 /\ sent'[s] = 0
          /\ removed'[s] \in Nat /\ added'[s] \in Nat
    BY DEF PublishEnds, NoBatch, NoAck, NoMetrics, BufferTypeOK, MetricHistoryOK
  <2> QED
    BY <2>1 DEF BatchInv, CursorInv
<1>7. UnsureInv'
  <2>1. \A s \in MetricSlugs : Known(s) = batch.start[s] + sent[s] /\ Known(s)' = removed'[s]
    BY <1>1 DEF Known
  <2>2. \A s \in MetricSlugs : \A i \in Nat : i <= Known(s) => i <= Known(s)'
    BY <1>1, <1>2, <1>3, <2>1
  <2> QED
    BY <1>1, <2>2 DEF UnsureInv
<1> QED
  BY <1>4, <1>5, <1>6, <1>7

LEMMA MetricInit == Init => MetricInv
<1> SUFFICES ASSUME Init PROVE MetricInv
  OBVIOUS
<1>1. \A s \in MetricSlugs :
        /\ items[s] = <<>> /\ removed[s] = 0 /\ added[s] = 0 /\ sent[s] = 0 /\ ack.metrics[s] = 0
        /\ batch.start[s] = 0 /\ batch.metrics[s] = <<>>
  BY DEF Init, BufferInit, NoBatch, NoAck, NoMetrics
<1>2. landed = {} /\ twice = {}
  BY DEF Init
<1> QED
  BY <1>1, <1>2 DEF MetricInv, QueueInv, BatchInv, CursorInv, RemovedInv, UnsureInv

LEMMA MetricStep == TypeInv /\ MetricInv /\ [Next]_vars => MetricInv'
<1> SUFFICES ASSUME TypeInv, MetricInv, [Next]_vars PROVE MetricInv'
  OBVIOUS
<1> DEFINE Frame ==
      /\ UNCHANGED <<items, removed, added, batch, sent, landed, twice, unsure, refused, overflowed>>
      /\ ack'.metrics = ack.metrics /\ (pc' \in {"idle", "snapshot"} <=> pc \in {"idle", "snapshot"})
<1>1. ASSUME NEW s \in DimSlugs, CollectDim(s) PROVE Frame
  BY <1>1 DEF CollectDim, AddDim, publisherVars, metricHistory
<1>2. ASSUME TakeDrops \/ NothingToPublish \/ AllSent \/ EntityGone PROVE Frame
  <2>1. /\ UNCHANGED <<items, removed, added, batch, ack, sent, landed, twice, unsure, refused, overflowed>>
        /\ \/ pc \in {"idle", "snapshot"} /\ pc' \in {"idle", "snapshot"}
           \/ pc \in {"dims", "metrics"} /\ pc' = "ack"
    BY <1>2 DEF TakeDrops, ResetDrops, NothingToPublish, AllSent, EntityGone, InCall, Fail, bufferVars, metricHistory
  <2> QED
    BY <2>1
<1>3. ASSUME DimsOk \/ DimsRejected PROVE Frame
  <2>1. /\ UNCHANGED <<bufferVars, metricHistory, batch, sent>>
        /\ pc = "dims" /\ pc' \in {"dims", "metrics"}
        /\ \E D \in SUBSET DimSlugs : ack' = [ack EXCEPT !.dims = @ \cup D]
    <3>1. CASE DimsOk
      <4>1. SentDims \in SUBSET DimSlugs
        BY DEF TypeInv, TypeOK, PublisherTypeOK, SentDims
      <4> QED
        BY <3>1, <4>1 DEF DimsOk, ToMetrics
    <3>2. CASE DimsRejected
      <4>1. PICK named \in Named(sending \cap BadDims) :
              ack' = [ack EXCEPT !.dims = @ \cup (named \ HostLinks)] /\ pc' \in {"dims", "metrics"}
        BY <3>2 DEF DimsRejected, ToMetrics
      <4>2. named \ HostLinks \in SUBSET DimSlugs
        BY DEF Named, TypeInv, TypeOK, PublisherTypeOK
      <4> QED
        BY <3>2, <4>1, <4>2 DEF DimsRejected
    <3> QED
      BY <1>3, <3>1, <3>2
  <2>2. ack'.metrics = ack.metrics
    BY <2>1, AckFacts DEF TypeInv, TypeOK
  <2> QED
    BY <2>1, <2>2 DEF bufferVars, metricHistory
<1>4. ASSUME DimsRejectedUnnamed \/ DimsUnanswered PROVE Frame
  <2>1. /\ UNCHANGED <<items, removed, added, batch, ack, sent, landed, twice, unsure, refused, overflowed>>
        /\ pc = "dims" /\ pc' \in {"dims", "ack"}
    BY <1>4 DEF DimsRejectedUnnamed, DimsUnanswered, RetryOrFail, Fail, bufferVars, metricHistory
  <2> QED
    BY <2>1
<1>5. ASSUME StopSignal \/ CollectorsDone \/ DeleteEntity \/ UNCHANGED vars PROVE Frame
  <2>1. UNCHANGED <<bufferVars, publisherVars, metricHistory>>
    BY <1>5 DEF StopSignal, CollectorsDone, DeleteEntity, vars
  <2> QED
    BY <2>1 DEF bufferVars, publisherVars, metricHistory
<1>6. Frame => MetricInv'
  BY MetricFrame
<1> HIDE DEF Frame
<1>7. CASE ChunkOk
  <2>1. PICK take \in [MetricSlugs -> 0 .. ChunkSize] : IsChunk(take) /\ Land(ChunkOf(take)) /\ ChunkDone(take)
    BY <1>7 DEF ChunkOk
  <2>2. pc = "metrics" /\ UNCHANGED <<items, removed, added, batch, unsure, overflowed, refused>>
    BY <1>7 DEF ChunkOk, bufferVars
  <2> QED
    BY <2>1, <2>2, ChunkDoneKeeps
<1>8. CASE ChunkRejected
  <2>1. PICK take \in [MetricSlugs -> 0 .. ChunkSize] :
             IsChunk(take) /\ refused' = refused \cup ChunkOf(take) /\ ChunkDone(take)
    BY <1>8 DEF ChunkRejected
  <2>2. pc = "metrics" /\ UNCHANGED <<items, removed, added, batch, unsure, overflowed, landed, twice>>
    BY <1>8 DEF ChunkRejected, bufferVars
  <2> QED
    BY <2>1, <2>2, ChunkDoneKeeps
<1>9. CASE PublishEnds
  BY <1>9, TypeStep, PublishEndsKeeps
<1> QED
  BY <1>1, <1>2, <1>3, <1>4, <1>5, <1>6, <1>7, <1>8, <1>9, CollectMetricKeeps, SnapshotKeeps,
     ChunkUnansweredKeeps DEF Next, Publisher

(* What is neither removed nor waits does not exist.                       *)
LEMMA NothingLost == TypeInv /\ MetricInv => NoSilentLoss
<1> SUFFICES ASSUME TypeInv, MetricInv, NEW s \in MetricSlugs, NEW i \in 1 .. added[s]
             PROVE  i \in Held(s) \/ <<s, i>> \in Accounted
  BY DEF NoSilentLoss
<1>1. /\ added[s] = removed[s] + Len(items[s])
      /\ \A k \in 1 .. Len(items[s]) : items[s][k] = removed[s] + k
  BY DEF MetricInv, QueueInv
<1>2. removed[s] \in Nat /\ Len(items[s]) \in Nat /\ added[s] \in Nat
  BY DEF TypeInv, TypeOK, BufferTypeOK, MetricHistoryOK
<1>3. CASE i <= removed[s]
  BY <1>2, <1>3 DEF MetricInv, RemovedInv
<1>4. CASE i > removed[s]
  <2>1. i - removed[s] \in 1 .. Len(items[s]) /\ removed[s] + (i - removed[s]) = i
    BY <1>1, <1>2, <1>4
  <2> QED
    BY <1>1, <2>1 DEF Held
<1> QED
  BY <1>2, <1>3, <1>4

(* Buffer, publisher, retries and stop lose no metric sample silently, for *)
(* any queue bound, request size and interleaving.                         *)
THEOREM NoSampleLost == Spec => []NoSilentLoss
  BY TypeInit, TypeStep, MetricInit, MetricStep, NothingLost, PTL DEF Spec

(* A sample is delivered twice only after an attempt nobody answered.      *)
THEOREM RedeliveryExplained == Spec => []RedeliveryOnlyWhenUnsure
<1>1. MetricInv => RedeliveryOnlyWhenUnsure
  BY DEF MetricInv, UnsureInv, RedeliveryOnlyWhenUnsure
<1> QED
  BY TypeInit, TypeStep, MetricInit, MetricStep, <1>1, PTL DEF Spec

-----------------------------------------------------------------------------
(* Dimensions.                                                             *)

(* A step that leaves dimensions and batch alone, settles more stamps and  *)
(* acknowledges only what is settled.                                      *)
LEMMA DimFrame ==
  ASSUME DimInv, UNCHANGED <<dims, seen, batch>>,
         \A s \in DimSlugs : dimSettled[s] \subseteq dimSettled'[s],
         \A s \in ack'.dims : s \in ack.dims \/ batch.dims[s] \in dimSettled'[s],
         ack.dims \subseteq DimSlugs
  PROVE  DimInv'
BY DEF DimInv, LatestDimKept

LEMMA DimStep == TypeInv /\ DimInv /\ [Next]_vars => DimInv'
<1> SUFFICES ASSUME TypeInv, DimInv, [Next]_vars PROVE DimInv'
  OBVIOUS
<1> USE DEF TypeInv, TypeOK
<1>0. ack.dims \subseteq DimSlugs /\ dimSettled \in [DimSlugs -> SUBSET Nat]
  BY AckFacts DEF DimHistoryOK
<1> DEFINE Still == UNCHANGED <<dims, seen, batch, ack, dimSettled>>
<1>1. ASSUME NEW s \in DimSlugs, CollectDim(s) PROVE DimInv'
  <2>1. /\ dims' = [dims EXCEPT ![s] = seen[s] + 1] /\ seen' = [seen EXCEPT ![s] = seen[s] + 1]
        /\ UNCHANGED <<batch, ack, dimSettled>>
    BY <1>1 DEF CollectDim, AddDim, publisherVars
  <2>2. dims'[s] = seen'[s] /\ \A t \in DimSlugs \ {s} : dims'[t] = dims[t] /\ seen'[t] = seen[t]
    BY <2>1 DEF BufferTypeOK, DimHistoryOK
  <2> QED
    BY <2>1, <2>2 DEF DimInv, LatestDimKept
<1>2. ASSUME NEW s \in MetricSlugs, CollectMetric(s) PROVE Still
  BY <1>2 DEF CollectMetric, AddMetric, publisherVars, dimHistory
<1>3. ASSUME TakeDrops \/ NothingToPublish \/ AllSent \/ EntityGone \/ DimsRejectedUnnamed PROVE Still
  BY <1>3 DEF TakeDrops, ResetDrops, NothingToPublish, AllSent, EntityGone, DimsRejectedUnnamed, bufferVars, dimHistory
<1>4. ASSUME StopSignal \/ CollectorsDone \/ DeleteEntity \/ UNCHANGED vars PROVE Still
  BY <1>4 DEF StopSignal, CollectorsDone, DeleteEntity, vars, bufferVars, publisherVars, dimHistory
<1>5. Still => DimInv'
  BY <1>0, DimFrame
<1> HIDE DEF Still
<1>6. CASE Snapshot
  <2>1. /\ ack'.dims \subseteq HeldDims /\ batch'.dims = dims /\ UNCHANGED <<dims, seen>>
        /\ \A s \in DimSlugs : dimSettled[s] \subseteq dimSettled'[s]
        /\ \A s \in ack'.dims : dims[s] \in dimSettled'[s]
    BY <1>0, <1>6 DEF Snapshot, SnapshotOf, NoAck, HeldDims, bufferVars
  <2> QED
    BY <2>1 DEF DimInv, LatestDimKept
<1>7. CASE DimsOk
  <2>1. SentDims \in SUBSET DimSlugs
    BY DEF SentDims, PublisherTypeOK
  <2>2. /\ UNCHANGED <<dims, seen, batch>>
        /\ \A s \in DimSlugs : dimSettled[s] \subseteq dimSettled'[s]
        /\ \A s \in SentDims : batch.dims[s] \in dimSettled'[s]
        /\ ack'.dims = ack.dims \cup SentDims
    BY <1>0, <1>7, <2>1, AckFacts DEF DimsOk, Settle, bufferVars
  <2> QED
    BY <1>0, <2>2, DimFrame
<1>8. CASE DimsRejected
  <2>1. PICK named \in Named(sending \cap BadDims) :
          ack' = [ack EXCEPT !.dims = @ \cup (named \ HostLinks)] /\ Settle(named \ HostLinks)
    BY <1>8 DEF DimsRejected
  <2>2. named \ HostLinks \in SUBSET DimSlugs
    BY DEF Named, PublisherTypeOK
  <2>3. /\ UNCHANGED <<dims, seen, batch>>
        /\ \A s \in DimSlugs : dimSettled[s] \subseteq dimSettled'[s]
        /\ \A s \in named \ HostLinks : batch.dims[s] \in dimSettled'[s]
        /\ ack'.dims = ack.dims \cup (named \ HostLinks)
    BY <1>0, <1>8, <2>1, <2>2, AckFacts DEF DimsRejected, Settle, bufferVars
  <2> QED
    BY <1>0, <2>3, DimFrame
<1>9. CASE DimsUnanswered
  <2>1. /\ UNCHANGED <<dims, seen, batch, ack>>
        /\ \A s \in DimSlugs : dimSettled[s] \subseteq dimSettled'[s]
    BY <1>0, <1>9 DEF DimsUnanswered, Settle, bufferVars
  <2> QED
    BY <1>0, <2>1, DimFrame
<1>10. CASE ChunkOk \/ ChunkRejected \/ ChunkUnanswered
  <2>1. /\ UNCHANGED <<dims, seen, batch, dimSettled>> /\ ack'.dims = ack.dims
    <3>1. CASE ChunkOk \/ ChunkRejected
      <4>1. PICK take \in [MetricSlugs -> 0 .. ChunkSize] : IsChunk(take) /\ ChunkDone(take)
        BY <3>1 DEF ChunkOk, ChunkRejected
      <4>2. [s \in MetricSlugs |-> ack.metrics[s] + take[s]] \in [MetricSlugs -> Nat]
        BY <4>1, ChunkFacts, AckFacts
      <4>3. ack'.dims = ack.dims
        BY <4>1, <4>2, AckFacts DEF ChunkDone
      <4> QED
        BY <3>1, <4>3 DEF ChunkOk, ChunkRejected, bufferVars, dimHistory
    <3> QED
      BY <1>10, <3>1 DEF ChunkUnanswered, bufferVars, dimHistory
  <2> QED
    BY <1>0, <2>1, DimFrame
<1>11. CASE PublishEnds
  <2>1. /\ UNCHANGED <<seen, dimSettled>> /\ ack'.dims = {}
        /\ \A s \in DimSlugs :
              dims'[s] = IF s \in ack.dims /\ dims[s] = batch.dims[s] THEN 0 ELSE dims[s]
    BY <1>11 DEF PublishEnds, Ack, AckedDims, NoAck, dimHistory
  <2> QED
    BY <2>1 DEF DimInv, LatestDimKept
<1> QED
  BY <1>1, <1>2, <1>3, <1>4, <1>5, <1>6, <1>7, <1>8, <1>9, <1>10, <1>11 DEF Next, Publisher

(* The newest value of a dimension is never taken away by an update that   *)
(* carried an older one.                                                   *)
THEOREM LatestDimSafe == Spec => []LatestDimKept
<1>1. Init => DimInv
  BY DEF Init, NoAck, DimInv, LatestDimKept
<1>2. DimInv => LatestDimKept
  BY DEF DimInv
<1> QED
  BY TypeInit, TypeStep, DimStep, <1>1, <1>2, PTL DEF Spec

-----------------------------------------------------------------------------
(* A refusal costs the other dimensions nothing.                           *)

Unsettled(s) == batch.dims[s] # 0 /\ batch.dims[s] \notin dimSettled[s]

(* What is not dealt with is still carried by the update, and an update    *)
(* that was refused at most once leaves nothing.                           *)
IsolatedInv ==
  /\ pc = "dims" => \A s \in DimSlugs : Unsettled(s) => s \in sending
  /\ pc = "metrics" /\ attempt < 2 => \A s \in DimSlugs : ~Unsettled(s)
  /\ RefusalIsolated

LEMMA IsolatedStep == TypeInv /\ IsolatedInv /\ [Next]_vars => IsolatedInv'
<1> SUFFICES ASSUME TypeInv, IsolatedInv, [Next]_vars PROVE IsolatedInv'
  OBVIOUS
<1> USE DEF TypeInv, TypeOK
<1>0. /\ ack.dims \subseteq DimSlugs /\ dimSettled \in [DimSlugs -> SUBSET Nat]
      /\ attempt \in 0 .. 2 /\ HostLinks \cap DimSlugs = {}
  BY AckFacts, DeliveryAssumption DEF DimHistoryOK, PublisherTypeOK
<1> DEFINE Still == /\ UNCHANGED <<batch, sending, attempt, dimSettled>>
                    /\ \/ UNCHANGED <<pc, outcome>>
                       \/ pc' = "ack" /\ outcome' # "ok"
                       \/ pc = "metrics" /\ pc' = "ack"
           Away == pc' \in {"idle", "snapshot"}
<1>1. Still \/ Away => IsolatedInv'
  BY <1>0 DEF IsolatedInv, RefusalIsolated, Unsettled
<1>2. ASSUME \/ \E s \in DimSlugs : CollectDim(s)
             \/ \E s \in MetricSlugs : CollectMetric(s)
      PROVE  Still
  BY <1>2 DEF CollectDim, CollectMetric, publisherVars, dimHistory
<1>3. ASSUME StopSignal \/ CollectorsDone \/ DeleteEntity \/ UNCHANGED vars PROVE Still
  BY <1>3 DEF StopSignal, CollectorsDone, DeleteEntity, vars, publisherVars, dimHistory
<1>4. ASSUME TakeDrops \/ NothingToPublish \/ PublishEnds PROVE Away
  BY <1>4 DEF TakeDrops, NothingToPublish, PublishEnds
<1>5. ASSUME DimsRejectedUnnamed \/ EntityGone \/ AllSent PROVE Still
  BY <1>5 DEF DimsRejectedUnnamed, EntityGone, AllSent, Fail, dimHistory
<1>6. ASSUME ChunkOk \/ ChunkRejected \/ ChunkUnanswered PROVE Still
  BY <1>6 DEF ChunkOk, ChunkRejected, ChunkUnanswered, ChunkDone, RetryOrFail, Fail, dimHistory
<1> HIDE DEF Still, Away
<1>7. CASE Snapshot
  <2>1. /\ batch'.dims = dims
        /\ pc' = IF HeldDims \ itemless = {} THEN "metrics" ELSE "dims"
        /\ sending' = IF HeldDims \ itemless = {} THEN {} ELSE (HeldDims \ itemless) \cup HostLinks
        /\ \A s \in DimSlugs : s \in HeldDims \cap itemless => dims[s] \in dimSettled'[s]
    BY <1>0, <1>7 DEF Snapshot, SnapshotOf
  <2>2. \A s \in DimSlugs : batch'.dims[s] # 0 => s \in HeldDims
    BY <2>1 DEF HeldDims
  <2>3. \A s \in DimSlugs : Unsettled(s)' => s \in HeldDims \ itemless
    BY <2>1, <2>2 DEF Unsettled
  <2> QED
    BY <2>1, <2>3 DEF IsolatedInv, RefusalIsolated, Unsettled
<1>8. CASE DimsOk
  <2>1. /\ pc = "dims" /\ pc' = "metrics" /\ batch' = batch
        /\ \A s \in DimSlugs : dimSettled'[s] = IF s \in sending \ HostLinks THEN dimSettled[s] \cup {batch.dims[s]}
                                                 ELSE dimSettled[s]
    BY <1>8 DEF DimsOk, ToMetrics, Settle, SentDims
  <2>2. \A s \in DimSlugs : ~Unsettled(s)'
    BY <2>1, <1>0 DEF IsolatedInv, Unsettled
  <2> QED
    BY <2>1, <2>2 DEF IsolatedInv, RefusalIsolated
<1>9. CASE DimsRejected
  <2>1. PICK named \in Named(sending \cap BadDims) :
          /\ sending' = sending \ named /\ attempt' = attempt + 1
          /\ pc' = IF attempt = 0 /\ sending # named THEN "dims" ELSE "metrics"
          /\ \A s \in DimSlugs : dimSettled'[s] = IF s \in named \ HostLinks THEN dimSettled[s] \cup {batch.dims[s]}
                                                   ELSE dimSettled[s]
    BY <1>9 DEF DimsRejected, ToMetrics, Settle
  <2>2. pc = "dims" /\ batch' = batch
    BY <1>9 DEF DimsRejected
  <2>3. \A s \in DimSlugs : Unsettled(s)' => s \in sending'
    BY <2>1, <2>2, <1>0 DEF IsolatedInv, Unsettled
  <2>4. pc' = "metrics" /\ attempt' < 2 => sending' = {}
    BY <2>1, <1>0
  <2>5. pc' \in {"dims", "metrics"}
    BY <2>1
  <2> QED
    BY <2>3, <2>4, <2>5 DEF IsolatedInv, RefusalIsolated
<1>10. CASE DimsUnanswered
  <2>1. /\ pc = "dims" /\ UNCHANGED <<batch, sending, attempt>>
        /\ \A s \in DimSlugs : dimSettled[s] \subseteq dimSettled'[s]
        /\ \/ UNCHANGED pc
           \/ pc' = "ack" /\ outcome' # "ok"
    BY <1>10, <1>0 DEF DimsUnanswered, Settle, RetryOrFail, Fail
  <2> QED
    BY <2>1 DEF IsolatedInv, RefusalIsolated, Unsettled
<1> QED
  BY <1>1, <1>2, <1>3, <1>4, <1>5, <1>6, <1>7, <1>8, <1>9, <1>10 DEF Next, Publisher

(* updateDims: a publish that a 422 met at most once dealt with every      *)
(* dimension it set out with.                                              *)
THEOREM RefusalCostsNoOther == Spec => []RefusalIsolated
<1>1. Init => IsolatedInv
  BY DEF Init, IsolatedInv, RefusalIsolated
<1>2. IsolatedInv => RefusalIsolated
  BY DEF IsolatedInv
<1> QED
  BY TypeInit, TypeStep, IsolatedStep, <1>1, <1>2, PTL DEF Spec

-----------------------------------------------------------------------------
(* A clean exit.                                                           *)

Dropped(s) == {i \in 1 .. added[s] : <<s, i>> \in overflowed}

(* A sample a full queue gave up has left it, and is counted: in the       *)
(* buffer's drops, or among those already logged.                          *)
DropInv ==
  \A s \in MetricSlugs :
    /\ \A i : <<s, i>> \in overflowed => i \in 1 .. removed[s]
    /\ Cardinality(Dropped(s)) = reported[s] + drops[s]

LEMMA DropFrame ==
  ASSUME DropInv, UNCHANGED <<added, overflowed>>,
         \A s \in MetricSlugs : reported'[s] + drops'[s] = reported[s] + drops[s],
         \A s \in MetricSlugs : \A i \in 1 .. removed[s] : i \in 1 .. removed'[s]
  PROVE  DropInv'
BY DEF DropInv, Dropped

(* Buffer.Add of a metric: only a full queue gives one up, its oldest.     *)
LEMMA CollectMetricFacts ==
  ASSUME TypeInv, MetricInv, NEW s \in MetricSlugs, CollectMetric(s)
  PROVE  /\ added' = [added EXCEPT ![s] = @ + 1] /\ added[s] \in Nat /\ removed[s] \in Nat
         /\ removed[s] <= added[s]
         /\ \A t \in MetricSlugs : removed'[t] = IF t = s /\ Full(s) THEN removed[t] + 1 ELSE removed[t]
         /\ \A t \in MetricSlugs : drops'[t] = IF t = s /\ Full(s) THEN drops[t] + 1 ELSE drops[t]
         /\ overflowed' = IF Full(s) THEN overflowed \cup {<<s, removed[s] + 1>>} ELSE overflowed
         /\ Full(s) => removed[s] + 1 <= added[s]
<1> USE DEF TypeInv, TypeOK, MetricInv
<1>1. /\ items[s] \in Seq(Nat) /\ Len(items[s]) \in Nat
      /\ removed[s] \in Nat /\ added[s] \in Nat
  BY DEF BufferTypeOK, MetricHistoryOK
<1>2. added[s] = removed[s] + Len(items[s])
  BY DEF QueueInv
<1>3. Full(s) => 1 \in 1 .. Len(items[s]) /\ Head(items[s]) = removed[s] + 1
  <2> SUFFICES ASSUME Full(s) PROVE 1 \in 1 .. Len(items[s]) /\ Head(items[s]) = removed[s] + 1
    OBVIOUS
  <2>1. Len(items[s]) >= 1
    BY <1>1, BufferAssumption DEF Full
  <2> QED
    BY <1>1, <2>1 DEF QueueInv
<1>4. added' = [added EXCEPT ![s] = @ + 1]
  BY DEF CollectMetric
<1>5. overflowed' = IF Full(s) THEN overflowed \cup {<<s, removed[s] + 1>>} ELSE overflowed
  BY <1>3 DEF CollectMetric
<1>6. /\ \A t \in MetricSlugs : removed'[t] = IF t = s /\ Full(s) THEN removed[t] + 1 ELSE removed[t]
      /\ \A t \in MetricSlugs : drops'[t] = IF t = s /\ Full(s) THEN drops[t] + 1 ELSE drops[t]
  BY DEF CollectMetric, AddMetric, BufferTypeOK
<1> QED
  BY <1>1, <1>2, <1>3, <1>4, <1>5, <1>6

LEMMA CollectMetricCounts ==
  ASSUME TypeInv, MetricInv, DropInv, NEW s \in MetricSlugs, CollectMetric(s)
  PROVE  DropInv'
<1>1. UNCHANGED reported /\ \A t \in MetricSlugs : reported[t] \in Nat /\ drops[t] \in Nat
  BY DEF CollectMetric, TypeInv, TypeOK, BufferTypeOK, MetricHistoryOK
<1>2. added \in [MetricSlugs -> Nat] /\ removed \in [MetricSlugs -> Nat]
  BY DEF TypeInv, TypeOK, BufferTypeOK, MetricHistoryOK
<1>3. ASSUME NEW t \in MetricSlugs, t # s
      PROVE  /\ \A i : <<t, i>> \in overflowed' => i \in 1 .. removed'[t]
             /\ Cardinality(Dropped(t)') = reported'[t] + drops'[t]
  <2>1. \A i : <<t, i>> \in overflowed' <=> <<t, i>> \in overflowed
    BY <1>3, CollectMetricFacts
  <2>2. added'[t] = added[t] /\ removed'[t] = removed[t] /\ drops'[t] = drops[t]
    BY <1>2, <1>3, CollectMetricFacts
  <2>3. Dropped(t)' = Dropped(t)
    BY <2>1, <2>2 DEF Dropped
  <2> QED
    BY <2>1, <2>2, <2>3, <1>1 DEF DropInv
<1>4. \A i : <<s, i>> \in overflowed => i \in 1 .. removed[s]
  BY DEF DropInv
<1>5. added'[s] = added[s] + 1 /\ added[s] \in Nat /\ removed[s] \in Nat /\ removed[s] <= added[s]
  BY <1>2, CollectMetricFacts
<1>6. CASE ~Full(s)
  <2>1. UNCHANGED overflowed /\ removed'[s] = removed[s] /\ drops'[s] = drops[s]
    BY <1>6, CollectMetricFacts
  <2>2. Dropped(s)' = Dropped(s)
    BY <1>4, <1>5, <2>1 DEF Dropped
  <2> QED
    BY <1>1, <1>3, <1>4, <2>1, <2>2 DEF DropInv
<1>7. CASE Full(s)
  <2>1. /\ overflowed' = overflowed \cup {<<s, removed[s] + 1>>} /\ removed'[s] = removed[s] + 1
        /\ drops'[s] = drops[s] + 1 /\ removed[s] + 1 <= added[s]
    BY <1>7, CollectMetricFacts
  <2>2. Dropped(s)' = Dropped(s) \cup {removed[s] + 1}
    <3>1. \A i : <<s, i>> \in overflowed' <=> <<s, i>> \in overflowed \/ i = removed[s] + 1
      BY <2>1
    <3> QED
      BY <1>4, <1>5, <2>1, <3>1 DEF Dropped
  <2>3. removed[s] + 1 \notin Dropped(s)
    BY <1>4, <1>5 DEF Dropped
  <2>4. IsFiniteSet(Dropped(s))
    <3>1. IsFiniteSet(1 .. added[s])
      BY <1>5, FS_Interval
    <3> QED
      BY <3>1, FS_Subset DEF Dropped
  <2>5. Cardinality(Dropped(s)') = Cardinality(Dropped(s)) + 1
    BY <2>2, <2>3, <2>4, FS_AddElement
  <2>6. Cardinality(Dropped(s)) = reported[s] + drops[s]
    BY DEF DropInv
  <2>7. Cardinality(Dropped(s)') = reported'[s] + drops'[s]
    BY <1>1, <2>1, <2>5, <2>6
  <2>8. \A i : <<s, i>> \in overflowed' => i \in 1 .. removed'[s]
    BY <1>4, <1>5, <2>1
  <2> QED
    BY <1>3, <2>7, <2>8 DEF DropInv
<1> QED
  BY <1>6, <1>7

LEMMA DropInit == Init => DropInv
<1> SUFFICES ASSUME Init PROVE DropInv
  OBVIOUS
<1>1. ASSUME NEW s \in MetricSlugs PROVE drops[s] = 0 /\ reported[s] = 0 /\ Dropped(s) = {} /\ \A i : <<s, i>> \notin overflowed
  BY DEF Init, BufferInit, NoMetrics, Dropped
<1>2. ASSUME NEW s \in MetricSlugs
      PROVE  /\ \A i : <<s, i>> \in overflowed => i \in 1 .. removed[s]
             /\ Cardinality(Dropped(s)) = reported[s] + drops[s]
  <2>1. Cardinality(Dropped(s)) = 0
    BY <1>1, FS_EmptySet
  <2> QED
    BY <1>1, <2>1
<1> QED
  BY <1>2 DEF DropInv

LEMMA DropStep == TypeInv /\ MetricInv /\ DropInv /\ [Next]_vars => DropInv'
<1> SUFFICES ASSUME TypeInv, MetricInv, DropInv, [Next]_vars PROVE DropInv'
  OBVIOUS
<1>0. TypeInv'
  BY TypeStep
<1>1. CASE \E s \in MetricSlugs : CollectMetric(s)
  BY <1>1, CollectMetricCounts
<1>2. CASE TakeDrops
  <2>1. /\ UNCHANGED <<added, overflowed, removed>>
        /\ \A s \in MetricSlugs : reported'[s] = reported[s] + drops[s] /\ drops'[s] = 0
        /\ \A s \in MetricSlugs : reported[s] \in Nat /\ drops[s] \in Nat
    BY <1>2 DEF TakeDrops, ResetDrops, NoMetrics, TypeInv, TypeOK, BufferTypeOK, MetricHistoryOK
  <2> QED
    BY <2>1, DropFrame
<1>3. CASE PublishEnds
  <2>1. /\ UNCHANGED <<added, overflowed, reported, drops>>
        /\ \A s \in MetricSlugs : removed'[s] = removed[s] + AckedNow(batch, s, ack.metrics[s])
    BY <1>3 DEF PublishEnds, Ack, metricHistory
  <2>2. \A s \in MetricSlugs : \A i \in 1 .. removed[s] : i \in 1 .. removed'[s]
    <3> SUFFICES ASSUME NEW s \in MetricSlugs PROVE \A i \in 1 .. removed[s] : i \in 1 .. removed'[s]
      OBVIOUS
    <3>1. ack.metrics[s] \in Nat
      BY AckFacts DEF TypeInv, TypeOK
    <3>2. AckedNow(batch, s, ack.metrics[s]) \in 0 .. Len(items[s])
      BY <3>1, AckedNowFacts DEF TypeInv
    <3>3. removed[s] \in Nat /\ Len(items[s]) \in Nat
      BY DEF TypeInv, TypeOK, BufferTypeOK
    <3> QED
      BY <2>1, <3>2, <3>3
  <2> QED
    BY <2>1, <2>2, DropFrame
<1>4. ASSUME UNCHANGED <<added, overflowed, removed, reported, drops>> PROVE DropInv'
  BY <1>4, DropFrame
<1>5. ASSUME \/ \E s \in DimSlugs : CollectDim(s)
             \/ StopSignal \/ CollectorsDone \/ DeleteEntity \/ UNCHANGED vars
      PROVE  UNCHANGED <<added, overflowed, removed, reported, drops>>
  BY <1>5 DEF CollectDim, AddDim, StopSignal, CollectorsDone, DeleteEntity, vars, bufferVars, metricHistory
<1>6. ASSUME NothingToPublish \/ Snapshot \/ DimsOk \/ DimsRejected \/ DimsRejectedUnnamed \/ DimsUnanswered
      PROVE  UNCHANGED <<added, overflowed, removed, reported, drops>>
  BY <1>6 DEF NothingToPublish, Snapshot, DimsOk, DimsRejected, DimsRejectedUnnamed, DimsUnanswered,
              bufferVars, metricHistory
<1>7. ASSUME ChunkOk \/ ChunkRejected \/ ChunkUnanswered \/ AllSent \/ EntityGone
      PROVE  UNCHANGED <<added, overflowed, removed, reported, drops>>
  BY <1>7 DEF ChunkOk, ChunkRejected, ChunkUnanswered, AllSent, EntityGone, bufferVars, metricHistory
<1> QED
  BY <1>1, <1>2, <1>3, <1>4, <1>5, <1>6, <1>7 DEF Next, Publisher

(* The final publish starts with every drop logged; nobody adds to the     *)
(* buffer any more, so it carries all that waits, and when it ends well    *)
(* all of it was dealt with.                                               *)
ExitInv ==
  /\ pc = "ack" /\ outcome = "ok" => \A s \in MetricSlugs : sent[s] = Len(batch.metrics[s])
  /\ life = "final" /\ pc # "idle" => \A s \in MetricSlugs : drops[s] = 0
  /\ life = "final" /\ pc \in {"dims", "metrics", "ack"} =>
       \A s \in MetricSlugs : removed[s] = batch.start[s] /\ Len(items[s]) = Len(batch.metrics[s])
  /\ life = "exited" => pc = "idle" /\ \A s \in MetricSlugs : drops[s] = 0
  /\ life = "exited" /\ outcome = "ok" => \A s \in MetricSlugs : items[s] = <<>>

LEMMA ExitFrame ==
  ASSUME ExitInv, UNCHANGED <<batch, items, removed, drops, life>>, ~Over,
         pc \in {"dims", "metrics"}, pc' \in {"dims", "metrics", "ack"},
         pc' = "ack" /\ outcome' = "ok" => \A s \in MetricSlugs : sent'[s] = Len(batch.metrics[s])
  PROVE  ExitInv'
BY DEF ExitInv, Over

(* Buffer.Ack of a whole batch empties the queues it is all of. *)
LEMMA AckEmpties ==
  ASSUME TypeInv, MetricInv, ExitInv, PublishEnds, life = "final", outcome = "ok",
         NEW s \in MetricSlugs
  PROVE  items'[s] = <<>>
<1> DEFINE n == AckedNow(batch, s, ack.metrics[s])
<1>1. items'[s] = DropFirst(items[s], n) /\ pc = "ack"
  BY DEF PublishEnds, Ack
<1>2. /\ items[s] \in Seq(Nat) /\ Len(items[s]) \in Nat /\ removed[s] \in Nat
      /\ sent[s] \in Nat /\ ack.metrics[s] = sent[s]
  <2>1. items[s] \in Seq(Nat) /\ removed[s] \in Nat /\ sent[s] \in Nat
    BY DEF TypeInv, TypeOK, BufferTypeOK, PublisherTypeOK
  <2>2. ack.metrics[s] = sent[s]
    BY DEF MetricInv, CursorInv
  <2> QED
    BY <2>1, <2>2
<1>3. removed[s] = batch.start[s] /\ sent[s] = Len(items[s])
  BY <1>1 DEF ExitInv
<1>4. n \in 0 .. Len(items[s]) /\ (batch.start[s] <= removed[s] /\ batch.start[s] + sent[s] <= removed[s] + Len(items[s])
                                    => batch.start[s] + sent[s] <= removed[s] + n)
  BY <1>2, AckedNowFacts DEF TypeInv
<1> HIDE DEF n
<1>5. n = Len(items[s])
  BY <1>2, <1>3, <1>4
<1>6. DropFirst(items[s], n) \in Seq(Nat) /\ Len(DropFirst(items[s], n)) = 0
  <2>1. n \in 0 .. Len(items[s])
    BY <1>4
  <2>2. DropFirst(items[s], n) \in Seq(Nat) /\ Len(DropFirst(items[s], n)) = Len(items[s]) - n
    BY <1>2, <2>1, DropFirstFacts
  <2> QED
    BY <1>2, <1>5, <2>2
<1> QED
  BY <1>1, <1>6, EmptySeq

LEMMA ExitStep == TypeInv /\ MetricInv /\ ExitInv /\ [Next]_vars => ExitInv'
<1> SUFFICES ASSUME TypeInv, MetricInv, ExitInv, [Next]_vars PROVE ExitInv'
  OBVIOUS
<1>1. CASE (\E s \in DimSlugs : CollectDim(s)) \/ DeleteEntity \/ UNCHANGED vars
  BY <1>1 DEF CollectDim, AddDim, DeleteEntity, vars, bufferVars, publisherVars, ExitInv
<1>2. CASE (\E s \in MetricSlugs : CollectMetric(s)) \/ StopSignal \/ CollectorsDone
  BY <1>2 DEF CollectMetric, Collecting, StopSignal, CollectorsDone, bufferVars, publisherVars, ExitInv
<1>3. ASSUME TakeDrops PROVE ExitInv'
  BY <1>3 DEF TakeDrops, ResetDrops, NoMetrics, ExitInv
<1>4. ASSUME ~Over, NothingToPublish PROVE ExitInv'
  BY <1>4 DEF Over, NothingToPublish, BufferEmpty, bufferVars, ExitInv
<1>5. ASSUME ~Over, Snapshot PROVE ExitInv'
  <2>1. /\ pc = "snapshot" /\ pc' \in {"dims", "metrics"} /\ batch'.start = removed /\ batch'.metrics = items
        /\ UNCHANGED <<items, removed, drops, life>>
    BY <1>5 DEF Snapshot, SnapshotOf, bufferVars
  <2> QED
    BY <1>5, <2>1 DEF Over, ExitInv
<1>6. ASSUME ~Over, DimsOk \/ DimsRejected \/ DimsRejectedUnnamed \/ DimsUnanswered PROVE ExitInv'
  <2>1. /\ UNCHANGED <<batch, items, removed, drops, life>> /\ pc = "dims"
        /\ pc' \in {"dims", "metrics", "ack"} /\ (pc' = "ack" => outcome' # "ok")
    BY <1>6 DEF DimsOk, DimsRejected, DimsRejectedUnnamed, DimsUnanswered, ToMetrics, RetryOrFail, Fail, bufferVars
  <2> QED
    BY <1>6, <2>1, ExitFrame
<1>7. ASSUME ~Over, ChunkOk \/ ChunkRejected \/ ChunkUnanswered \/ EntityGone PROVE ExitInv'
  <2>1. /\ UNCHANGED <<batch, items, removed, drops, life>> /\ pc \in {"dims", "metrics"}
        /\ pc' \in {"dims", "metrics", "ack"} /\ (pc' = "ack" => outcome' # "ok")
    BY <1>7 DEF ChunkOk, ChunkRejected, ChunkUnanswered, EntityGone, InCall, ChunkDone, RetryOrFail, Fail, bufferVars
  <2> QED
    BY <1>7, <2>1, ExitFrame
<1>8. ASSUME ~Over, AllSent PROVE ExitInv'
  <2>1. /\ UNCHANGED <<batch, items, removed, drops, life, sent>> /\ pc = "metrics" /\ pc' = "ack" /\ ~MoreToSend
    BY <1>8 DEF AllSent, bufferVars
  <2>2. ASSUME NEW s \in MetricSlugs PROVE sent'[s] = Len(batch.metrics[s])
    <3>1. sent[s] \in Nat /\ Len(batch.metrics[s]) \in Nat /\ sent[s] <= Len(batch.metrics[s])
      BY BatchFacts DEF TypeInv, TypeOK, PublisherTypeOK, MetricInv, CursorInv
    <3>2. ~(Len(batch.metrics[s]) - sent[s] > 0)
      BY <2>1 DEF MoreToSend, Left
    <3> QED
      BY <2>1, <3>1, <3>2
  <2> QED
    BY <1>8, <2>1, <2>2, ExitFrame
<1>9. ASSUME ~Over, PublishEnds PROVE ExitInv'
  <2>1. /\ pc = "ack" /\ pc' = "idle" /\ UNCHANGED <<drops, outcome>>
        /\ life' = IF life = "final" THEN "exited" ELSE IF outcome = "gone" THEN "failed" ELSE life
    BY <1>9 DEF PublishEnds, Ack
  <2>2. life' = "exited" => life = "final"
    BY <1>9, <2>1 DEF Over
  <2>3. life = "final" /\ outcome = "ok" => \A s \in MetricSlugs : items'[s] = <<>>
    BY <1>9, AckEmpties
  <2> QED
    BY <2>1, <2>2, <2>3 DEF ExitInv
<1> QED
  BY <1>1, <1>2, <1>3, <1>4, <1>5, <1>6, <1>7, <1>8, <1>9 DEF Next, Publisher

(* A dimension of the batch is carried by the update until it is           *)
(* acknowledged, or stays behind in one that was refused; the final batch  *)
(* holds the values that the buffer does.                                  *)
DimExitInv ==
  /\ pc = "dims" => \A s \in DimSlugs : batch.dims[s] # 0 => s \in ack.dims \cup sending
  /\ pc = "metrics" \/ (pc = "ack" /\ outcome = "ok") =>
       \A s \in DimSlugs : batch.dims[s] # 0 => s \in ack.dims \/ RefusedWith(s, batch.dims[s])
  /\ life = "final" /\ pc \in {"dims", "metrics", "ack"} => \A s \in DimSlugs : dims[s] = batch.dims[s]
  /\ life = "exited" => pc = "idle"
  /\ life = "exited" /\ outcome = "ok" => \A s \in HeldDims : RefusedWith(s, dims[s])

(* A step inside a publish that leaves the buffer alone.                   *)
LEMMA DimExitFrame ==
  ASSUME DimExitInv, ~Over, UNCHANGED <<dims, life>>, batch' = batch, ack'.dims = ack.dims,
         refusedUpdates \subseteq refusedUpdates', sending' = sending,
         pc \in {"dims", "metrics"}, pc' \in {pc, "ack"},
         pc' = "ack" => outcome' # "ok" \/ pc = "metrics"
  PROVE  DimExitInv'
<1>1. \A s \in DimSlugs : RefusedWith(s, batch.dims[s]) => RefusedWith(s, batch.dims[s])'
  BY DEF RefusedWith
<1>2. life' # "exited"
  BY DEF Over
<1> QED
  BY <1>1, <1>2 DEF DimExitInv

LEMMA DimExitStep == TypeInv /\ DimExitInv /\ [Next]_vars => DimExitInv'
<1> SUFFICES ASSUME TypeInv, DimExitInv, [Next]_vars PROVE DimExitInv'
  OBVIOUS
<1>0. /\ ack.dims \subseteq DimSlugs /\ ack \in Acks /\ HostLinks \cap DimSlugs = {}
      /\ sending \subseteq DimSlugs \cup HostLinks
  BY AckFacts, DeliveryAssumption DEF TypeInv, TypeOK, PublisherTypeOK
<1>1. CASE (\E s \in MetricSlugs : CollectMetric(s)) \/ DeleteEntity \/ StopSignal \/ UNCHANGED vars
  <2>1. /\ UNCHANGED <<dims, publisherVars, refusedUpdates>>
        /\ life' = life \/ (life = "running" /\ life' = "stopping")
    BY <1>1 DEF CollectMetric, AddMetric, DeleteEntity, StopSignal, vars, bufferVars, dimHistory
  <2> QED
    BY <2>1 DEF DimExitInv, RefusedWith, HeldDims, publisherVars
<1>2. CASE CollectorsDone
  BY <1>2 DEF CollectorsDone, bufferVars, publisherVars, DimExitInv
<1>3. ASSUME NEW s \in DimSlugs, CollectDim(s) PROVE DimExitInv'
  <2>1. UNCHANGED <<publisherVars, life, refusedUpdates>> /\ life \in {"running", "stopping"}
    BY <1>3 DEF CollectDim, Collecting
  <2> QED
    BY <2>1 DEF DimExitInv, RefusedWith, publisherVars
<1>4. ASSUME ~Over, TakeDrops PROVE DimExitInv'
  BY <1>4 DEF Over, TakeDrops, DimExitInv
<1>5. ASSUME ~Over, NothingToPublish PROVE DimExitInv'
  <2>1. HeldDims = {} /\ pc' = "idle" /\ UNCHANGED dims
    BY <1>5 DEF NothingToPublish, BufferEmpty, bufferVars
  <2>2. HeldDims' = {}
    BY <2>1 DEF HeldDims
  <2> QED
    BY <2>1, <2>2 DEF DimExitInv
<1>6. ASSUME ~Over, Snapshot PROVE DimExitInv'
  <2>1. /\ batch'.dims = dims /\ ack'.dims = HeldDims \cap itemless /\ UNCHANGED <<dims, life>>
        /\ pc' = IF HeldDims \ itemless = {} THEN "metrics" ELSE "dims"
        /\ sending' = IF HeldDims \ itemless = {} THEN {} ELSE (HeldDims \ itemless) \cup HostLinks
    BY <1>6 DEF Snapshot, SnapshotOf, NoAck, bufferVars
  <2>2. \A s \in DimSlugs : batch'.dims[s] # 0 => s \in ack'.dims \cup (HeldDims \ itemless)
    BY <2>1 DEF HeldDims
  <2>3. life' # "exited" /\ \A s \in DimSlugs : dims'[s] = batch'.dims[s]
    BY <1>6, <2>1 DEF Over
  <2> QED
    BY <2>1, <2>2, <2>3 DEF DimExitInv
<1>7. ASSUME ~Over, DimsOk PROVE DimExitInv'
  <2>1. /\ pc = "dims" /\ pc' = "metrics" /\ ack'.dims = ack.dims \cup SentDims
        /\ batch' = batch /\ UNCHANGED <<dims, life>>
    BY <1>0, <1>7 DEF DimsOk, ToMetrics, bufferVars, Acks
  <2>2. \A s \in DimSlugs : batch'.dims[s] # 0 => s \in ack'.dims
    BY <1>0, <2>1 DEF DimExitInv, SentDims
  <2>3. life' # "exited" /\ (life' = "final" => \A s \in DimSlugs : dims'[s] = batch'.dims[s])
    BY <1>7, <2>1 DEF Over, DimExitInv
  <2> QED
    BY <2>1, <2>2, <2>3 DEF DimExitInv
<1>8. ASSUME ~Over, DimsRejected PROVE DimExitInv'
  <2>1. PICK named \in Named(sending \cap BadDims) :
          /\ sending' = sending \ named /\ ack' = [ack EXCEPT !.dims = @ \cup (named \ HostLinks)]
          /\ refusedUpdates' = refusedUpdates \cup {Payload} /\ pc' \in {"dims", "metrics"}
    BY <1>8 DEF DimsRejected, ToMetrics
  <2>2. ack'.dims = ack.dims \cup (named \ HostLinks)
    BY <1>0, <2>1 DEF Acks
  <2>3. pc = "dims" /\ batch' = batch /\ UNCHANGED <<dims, life>>
    BY <1>8 DEF DimsRejected, bufferVars
  <2>4. \A s \in DimSlugs : batch'.dims[s] # 0 => s \in ack'.dims \cup sending'
    BY <1>0, <2>1, <2>2, <2>3 DEF DimExitInv
  <2>5. ASSUME NEW s \in DimSlugs, s \in sending PROVE RefusedWith(s, batch.dims[s])'
    <3>1. s \in DOMAIN Payload /\ Payload[s] = batch.dims[s]
      BY <1>0, <2>5 DEF Payload, SentDims
    <3>2. Payload \in refusedUpdates'
      BY <2>1
    <3> QED
      BY <2>3, <3>1, <3>2 DEF RefusedWith
  <2>6. life' # "exited" /\ (life' = "final" => \A s \in DimSlugs : dims'[s] = batch'.dims[s])
    BY <1>8, <2>3 DEF Over, DimExitInv
  <2>7. sending' \subseteq sending
    BY <2>1
  <2> QED
    BY <2>1, <2>4, <2>5, <2>6, <2>7 DEF DimExitInv
<1>9. ASSUME ~Over, DimsRejectedUnnamed \/ DimsUnanswered PROVE DimExitInv'
  <2>1. /\ UNCHANGED <<dims, life, batch, ack, sending>> /\ refusedUpdates \subseteq refusedUpdates'
        /\ pc = "dims" /\ pc' \in {pc, "ack"} /\ (pc' = "ack" => outcome' # "ok")
    BY <1>9 DEF DimsRejectedUnnamed, DimsUnanswered, RetryOrFail, Fail, bufferVars
  <2> QED
    BY <1>9, <2>1, DimExitFrame
<1>10. ASSUME ~Over, ChunkOk \/ ChunkRejected PROVE DimExitInv'
  <2>1. PICK take \in [MetricSlugs -> 0 .. ChunkSize] : IsChunk(take) /\ ChunkDone(take)
    BY <1>10 DEF ChunkOk, ChunkRejected
  <2>2. ack'.dims = ack.dims /\ UNCHANGED <<pc, outcome>>
    BY <1>0, <2>1 DEF ChunkDone, Acks
  <2>3. UNCHANGED <<dims, life, batch, sending, refusedUpdates>> /\ pc = "metrics"
    BY <1>10 DEF ChunkOk, ChunkRejected, bufferVars, dimHistory
  <2> QED
    BY <1>10, <2>2, <2>3, DimExitFrame
<1>11. ASSUME ~Over, ChunkUnanswered \/ AllSent \/ EntityGone PROVE DimExitInv'
  <2>1. /\ UNCHANGED <<dims, life, batch, ack, sending, refusedUpdates>>
        /\ pc \in {"dims", "metrics"} /\ pc' \in {pc, "ack"}
        /\ pc' = "ack" => outcome' # "ok" \/ pc = "metrics"
    BY <1>11 DEF ChunkUnanswered, AllSent, EntityGone, InCall, RetryOrFail, Fail, bufferVars, dimHistory
  <2> QED
    BY <1>11, <2>1, DimExitFrame
<1>12. ASSUME ~Over, PublishEnds PROVE DimExitInv'
  <2>1. /\ pc = "ack" /\ pc' = "idle" /\ UNCHANGED <<outcome, refusedUpdates>>
        /\ life' = "exited" => life = "final"
        /\ \A s \in DimSlugs : dims'[s] = IF s \in ack.dims /\ dims[s] = batch.dims[s] THEN 0 ELSE dims[s]
    BY <1>12 DEF Over, PublishEnds, Ack, AckedDims, dimHistory
  <2>2. ASSUME life' = "exited", outcome' = "ok", NEW s \in HeldDims' PROVE RefusedWith(s, dims[s])'
    <3>1. s \in DimSlugs /\ dims'[s] # 0
      BY DEF HeldDims
    <3>2. dims'[s] = dims[s] /\ dims[s] = batch.dims[s] /\ s \notin ack.dims
      BY <2>1, <2>2, <3>1 DEF DimExitInv
    <3>3. RefusedWith(s, dims[s])
      BY <2>1, <2>2, <3>1, <3>2 DEF DimExitInv
    <3> QED
      BY <2>1, <3>2, <3>3 DEF RefusedWith
  <2> QED
    BY <2>1, <2>2 DEF DimExitInv
<1> QED
  BY <1>1, <1>2, <1>3, <1>4, <1>5, <1>6, <1>7, <1>8, <1>9, <1>10, <1>11, <1>12 DEF Next, Publisher

(* daemon: a run that stops with a successful final publish leaves no      *)
(* sample in a queue, has logged every sample a full one gave up, and      *)
(* leaves no dimension but one whose update was refused with that value.   *)
THEOREM ExitIsClean == Spec => []CleanExit
<1>1. Init => ExitInv /\ DimExitInv
  BY DEF Init, BufferInit, ExitInv, DimExitInv
<1>2. TypeInv /\ DropInv /\ ExitInv /\ DimExitInv => CleanExit
  <2> SUFFICES ASSUME TypeInv, DropInv, ExitInv, DimExitInv, life = "exited", outcome = "ok"
               PROVE  /\ \A s \in MetricSlugs : items[s] = <<>> /\ Cardinality(Dropped(s)) = reported[s]
                      /\ \A s \in HeldDims : RefusedWith(s, dims[s])
    BY DEF CleanExit, Dropped
  <2>1. ASSUME NEW s \in MetricSlugs
        PROVE  items[s] = <<>> /\ Cardinality(Dropped(s)) = reported[s]
    <3>1. drops[s] = 0 /\ items[s] = <<>> /\ Cardinality(Dropped(s)) = reported[s] + drops[s] /\ reported[s] \in Nat
      BY DEF ExitInv, DropInv, TypeInv, TypeOK, MetricHistoryOK
    <3> QED
      BY <3>1
  <2>2. \A s \in HeldDims : RefusedWith(s, dims[s])
    BY DEF DimExitInv
  <2> QED
    BY <2>1, <2>2
<1> QED
  BY TypeInit, TypeStep, MetricInit, MetricStep, DropInit, DropStep, ExitStep, DimExitStep, <1>1, <1>2, PTL DEF Spec

-----------------------------------------------------------------------------
(***************************************************************************)
(* Delivery implements Ledger: each of its steps is one the ledger of      *)
(* fates allows or changes no fate.                                        *)
(***************************************************************************)
Answered == landed \cup refused

(* The platform answers for collected samples only, for none before all    *)
(* older ones are accounted for, and a refusal is always known.            *)
LedgerInv ==
  \A s \in MetricSlugs :
    /\ \A i : <<s, i>> \in Answered => i \in 1 .. added[s]
    /\ \A i : <<s, i>> \in refused => i <= Known(s)
    /\ \A j : <<s, j>> \in Answered => \A i \in 1 .. j : <<s, i>> \in Accounted

Inv == TypeInv /\ MetricInv /\ DropInv /\ LedgerInv

LEMMA SlugFacts ==
  ASSUME TypeInv, MetricInv, NEW s \in MetricSlugs
  PROVE  /\ added[s] \in Nat /\ removed[s] \in Nat /\ sent[s] \in Nat /\ batch.start[s] \in Nat
         /\ items[s] \in Seq(Nat) /\ Len(items[s]) \in Nat /\ Len(batch.metrics[s]) \in Nat
         /\ added[s] = removed[s] + Len(items[s])
         /\ batch.start[s] <= removed[s] /\ sent[s] <= Len(batch.metrics[s])
         /\ batch.start[s] + Len(batch.metrics[s]) <= added[s]
         /\ Known(s) \in Nat /\ ack.metrics[s] = sent[s]
<1>1. /\ added[s] \in Nat /\ removed[s] \in Nat /\ sent[s] \in Nat /\ items[s] \in Seq(Nat)
  BY DEF TypeInv, TypeOK, BufferTypeOK, PublisherTypeOK, MetricHistoryOK
<1>2. batch.start[s] \in Nat /\ Len(batch.metrics[s]) \in Nat
  BY BatchFacts DEF TypeInv, TypeOK
<1>3. /\ added[s] = removed[s] + Len(items[s]) /\ batch.start[s] <= removed[s]
      /\ sent[s] <= Len(batch.metrics[s]) /\ batch.start[s] + Len(batch.metrics[s]) <= added[s]
      /\ ack.metrics[s] = sent[s]
  BY DEF MetricInv, QueueInv, BatchInv, CursorInv
<1>4. Known(s) \in Nat
  BY <1>1, <1>2 DEF Known
<1>5. Len(items[s]) \in Nat
  BY <1>1
<1> QED
  BY <1>1, <1>2, <1>3, <1>4, <1>5

(* A chunk ends below the newest sample, and everything older than one of  *)
(* its samples is accounted for or in the chunk as well.                   *)
LEMMA ChunkPrefix ==
  ASSUME TypeInv, MetricInv, pc = "metrics",
         NEW take \in [MetricSlugs -> 0 .. ChunkSize], IsChunk(take),
         NEW s \in MetricSlugs, NEW j, <<s, j>> \in ChunkOf(take)
  PROVE  /\ j \in 1 .. added[s] /\ Known(s) < j /\ j <= batch.start[s] + sent[s] + take[s]
         /\ \A i \in 1 .. j : <<s, i>> \in Accounted \/ <<s, i>> \in ChunkOf(take)
<1>1. /\ take[s] \in Nat /\ sent[s] + take[s] <= Len(batch.metrics[s]) /\ ChunkOf(take) \subseteq Samples
      /\ \A k \in sent[s] + 1 .. sent[s] + take[s] : <<s, batch.start[s] + k>> \in ChunkOf(take)
      /\ \A i \in Nat : <<s, i>> \in ChunkOf(take) =>
            batch.start[s] + sent[s] < i /\ i <= batch.start[s] + sent[s] + take[s]
  BY ChunkFacts, ChunkIds DEF TypeInv, MetricInv
<1>2. Known(s) = batch.start[s] + sent[s]
  BY DEF Known
<1>3. j \in Nat
  BY <1>1 DEF Samples
<1>4. Known(s) < j /\ j <= batch.start[s] + sent[s] + take[s]
  BY <1>1, <1>2, <1>3
<1>5. j \in 1 .. added[s]
  <2>1. /\ added[s] \in Nat /\ sent[s] \in Nat /\ batch.start[s] \in Nat
        /\ Len(batch.metrics[s]) \in Nat /\ Known(s) \in Nat
        /\ batch.start[s] + Len(batch.metrics[s]) <= added[s]
    BY SlugFacts
  <2>2. 1 <= j
    BY <1>3, <1>4, <2>1
  <2>3. j <= added[s]
    <3>1. take[s] \in Nat /\ sent[s] + take[s] <= Len(batch.metrics[s])
      BY <1>1
    <3>2. j <= batch.start[s] + sent[s] + take[s]
      BY <1>4
    <3> DEFINE start == batch.start[s]
               length == Len(batch.metrics[s])
               sum == sent[s] + take[s]
    <3>3. /\ start \in Nat /\ length \in Nat /\ sum \in Nat /\ added[s] \in Nat
          /\ sum <= length /\ start + length <= added[s]
      BY <2>1, <3>1
    <3>4. j <= start + sum
      BY <1>3, <2>1, <3>1, <3>2
    <3> HIDE DEF start, length, sum
    <3> QED
      BY <1>3, <3>3, <3>4
  <2> QED
    BY <1>3, <2>1, <2>2, <2>3
<1>6. ASSUME NEW i \in 1 .. j PROVE <<s, i>> \in Accounted \/ <<s, i>> \in ChunkOf(take)
  <2>0. i \in Nat /\ i >= 1
    BY <1>3
  <2>1. CASE i <= removed[s]
    <3>1. i \in 1 .. removed[s]
      BY <2>0, <2>1, SlugFacts
    <3> QED
      BY <3>1 DEF MetricInv, RemovedInv
  <2>2. CASE removed[s] < i /\ i <= batch.start[s] + sent[s]
    <3>1. i - batch.start[s] \in 1 .. sent[s] /\ i = batch.start[s] + (i - batch.start[s])
      BY <2>0, <2>2, SlugFacts
    <3> QED
      BY <3>1 DEF MetricInv, CursorInv, Accounted
  <2>3. CASE batch.start[s] + sent[s] < i
    <3>1. /\ i - batch.start[s] \in sent[s] + 1 .. sent[s] + take[s]
          /\ i = batch.start[s] + (i - batch.start[s])
      <4>1. /\ batch.start[s] \in Nat /\ sent[s] \in Nat /\ take[s] \in Nat /\ i \in Nat /\ j \in Nat
            /\ i <= j /\ j <= batch.start[s] + sent[s] + take[s]
        BY <1>1, <1>3, <1>4, <2>0, SlugFacts
      <4> QED
        BY <4>1, <2>3, SMTT(30)
    <3> QED
      BY <3>1, <1>1
  <2> QED
    BY <2>0, <2>1, <2>2, <2>3, SlugFacts
<1> QED
  BY <1>4, <1>5, <1>6

LEMMA LedgerFrame ==
  ASSUME LedgerInv, UNCHANGED <<landed, refused>>, overflowed \subseteq overflowed',
         \A s \in MetricSlugs : added[s] \in Nat /\ added'[s] \in Nat /\ added[s] <= added'[s],
         \A s \in MetricSlugs : \A i \in 1 .. added[s] : i <= Known(s) => i <= Known(s)'
  PROVE  LedgerInv'
<1>1. Answered' = Answered /\ Accounted \subseteq Accounted'
  BY DEF Answered, Accounted
<1> SUFFICES ASSUME NEW s \in MetricSlugs
             PROVE  /\ \A i : <<s, i>> \in Answered => i \in 1 .. added'[s]
                    /\ \A i : <<s, i>> \in refused => i <= Known(s)'
                    /\ \A j : <<s, j>> \in Answered => \A i \in 1 .. j : <<s, i>> \in Accounted'
  BY <1>1 DEF LedgerInv
<1>2. /\ \A i : <<s, i>> \in Answered => i \in 1 .. added[s]
      /\ \A i : <<s, i>> \in refused => i <= Known(s)
      /\ \A j : <<s, j>> \in Answered => \A i \in 1 .. j : <<s, i>> \in Accounted
  BY DEF LedgerInv
<1>3. \A i : <<s, i>> \in Answered => i \in 1 .. added'[s]
  BY <1>2
<1>4. \A i : <<s, i>> \in refused => i <= Known(s)'
  BY <1>2 DEF Answered
<1>5. \A j : <<s, j>> \in Answered => \A i \in 1 .. j : <<s, i>> \in Accounted'
  BY <1>1, <1>2
<1> QED
  BY <1>3, <1>4, <1>5

(* A chunk reaches the platform, which stores it or refuses it; a refusal  *)
(* is known.                                                               *)
LEMMA ChunkLedger ==
  ASSUME TypeInv, MetricInv, LedgerInv, pc = "metrics", UNCHANGED <<added, overflowed>>,
         NEW take \in [MetricSlugs -> 0 .. ChunkSize], IsChunk(take),
         \A s \in MetricSlugs : Known(s)' \in Nat /\ Known(s) <= Known(s)',
         \/ landed' = landed \cup ChunkOf(take) /\ UNCHANGED refused
         \/ /\ refused' = refused \cup ChunkOf(take) /\ UNCHANGED landed
            /\ \A s \in MetricSlugs : Known(s)' = batch.start[s] + sent[s] + take[s]
  PROVE  LedgerInv'
<1>1. /\ Answered' = Answered \cup ChunkOf(take) /\ Accounted' = Accounted \cup ChunkOf(take)
      /\ refused \subseteq refused'
  BY DEF Answered, Accounted
<1> SUFFICES ASSUME NEW s \in MetricSlugs
             PROVE  /\ \A i : <<s, i>> \in Answered' => i \in 1 .. added[s]
                    /\ \A i : <<s, i>> \in refused' => i <= Known(s)'
                    /\ \A j : <<s, j>> \in Answered' => \A i \in 1 .. j : <<s, i>> \in Accounted'
  BY DEF LedgerInv
<1>2. /\ \A i : <<s, i>> \in Answered => i \in 1 .. added[s]
      /\ \A i : <<s, i>> \in refused => i <= Known(s)
      /\ \A j : <<s, j>> \in Answered => \A i \in 1 .. j : <<s, i>> \in Accounted
  BY DEF LedgerInv
<1>3. \A j : <<s, j>> \in ChunkOf(take) =>
         /\ j \in 1 .. added[s] /\ j <= batch.start[s] + sent[s] + take[s]
         /\ \A i \in 1 .. j : <<s, i>> \in Accounted \/ <<s, i>> \in ChunkOf(take)
  BY ChunkPrefix
<1>4. \A i : <<s, i>> \in Answered' => i \in 1 .. added[s]
  BY <1>1, <1>2, <1>3
<1>5. \A i : <<s, i>> \in refused' => i <= Known(s)'
  <2>1. ASSUME NEW i, <<s, i>> \in refused PROVE i <= Known(s)'
    <3>1. i \in Nat /\ i <= Known(s) /\ Known(s) \in Nat /\ Known(s)' \in Nat /\ Known(s) <= Known(s)'
      BY <2>1, <1>2, SlugFacts DEF Answered
    <3> QED
      BY <3>1
  <2>2. ASSUME NEW i, <<s, i>> \in refused', <<s, i>> \notin refused PROVE i <= Known(s)'
    BY <2>2, <1>3
  <2> QED
    BY <2>1, <2>2
<1>6. \A j : <<s, j>> \in Answered' => \A i \in 1 .. j : <<s, i>> \in Accounted'
  BY <1>1, <1>2, <1>3
<1> QED
  BY <1>4, <1>5, <1>6

(* Buffer.Ack takes off the queue at least what the publisher is done with. *)
LEMMA AckReaches ==
  ASSUME TypeInv, MetricInv, PublishEnds, NEW s \in MetricSlugs
  PROVE  Known(s)' = removed'[s] /\ Known(s) <= removed'[s]
<1>1. /\ pc = "ack" /\ pc' = "idle" /\ removed'[s] = removed[s] + AckedNow(batch, s, ack.metrics[s])
  BY DEF PublishEnds, Ack
<1>2. Known(s)' = removed'[s] /\ Known(s) = batch.start[s] + sent[s]
  BY <1>1 DEF Known
<1>3. batch.start[s] <= removed[s] /\ batch.start[s] + sent[s] <= removed[s] + Len(items[s])
  <2>1. /\ added[s] \in Nat /\ removed[s] \in Nat /\ sent[s] \in Nat /\ batch.start[s] \in Nat
        /\ Len(items[s]) \in Nat /\ Len(batch.metrics[s]) \in Nat
        /\ added[s] = removed[s] + Len(items[s]) /\ batch.start[s] <= removed[s]
        /\ sent[s] <= Len(batch.metrics[s]) /\ batch.start[s] + Len(batch.metrics[s]) <= added[s]
    BY SlugFacts
  <2> QED
    BY <2>1, SMTT(30)
<1>4. batch.start[s] + sent[s] <= removed[s] + AckedNow(batch, s, ack.metrics[s])
  <2>1. TypeOK /\ sent[s] \in Nat /\ ack.metrics[s] = sent[s]
    BY SlugFacts DEF TypeInv
  <2> QED
    BY <2>1, <1>3, AckedNowFacts
<1> QED
  BY <1>1, <1>2, <1>4

(* Steps that change nothing the ledger sees. *)
Quiet ==
  /\ UNCHANGED <<removed, added, batch, sent, landed, refused, overflowed>>
  /\ pc' \in {"idle", "snapshot"} <=> pc \in {"idle", "snapshot"}

LEMMA QuietSteps ==
  ASSUME TypeInv,
         \/ \E s \in DimSlugs : CollectDim(s)
         \/ TakeDrops \/ NothingToPublish \/ DimsOk \/ DimsRejected \/ DimsRejectedUnnamed \/ DimsUnanswered
         \/ AllSent \/ EntityGone \/ StopSignal \/ CollectorsDone \/ DeleteEntity \/ UNCHANGED vars
  PROVE  Quiet
<1>1. CASE \E s \in DimSlugs : CollectDim(s)
  BY <1>1 DEF CollectDim, AddDim, publisherVars, metricHistory, Quiet
<1>2. CASE TakeDrops \/ NothingToPublish \/ AllSent \/ EntityGone
  BY <1>2 DEF TakeDrops, ResetDrops, NothingToPublish, AllSent, EntityGone, InCall, Fail, bufferVars, metricHistory, Quiet
<1>3. CASE DimsOk \/ DimsRejected \/ DimsRejectedUnnamed \/ DimsUnanswered
  BY <1>3 DEF DimsOk, DimsRejected, DimsRejectedUnnamed, DimsUnanswered, ToMetrics, RetryOrFail, Fail,
              bufferVars, metricHistory, Quiet
<1>4. CASE StopSignal \/ CollectorsDone \/ DeleteEntity \/ UNCHANGED vars
  BY <1>4 DEF StopSignal, CollectorsDone, DeleteEntity, vars, bufferVars, publisherVars, metricHistory, Quiet
<1> QED
  BY <1>1, <1>2, <1>3, <1>4

(* What a chunk's answer, or its loss, does to what the ledger sees. *)
ChunkStored(take) ==
  /\ pc = "metrics" /\ IsChunk(take) /\ UNCHANGED <<removed, added, batch, refused, overflowed>>
  /\ landed' = landed \cup ChunkOf(take)

ChunkRefused(take) ==
  /\ pc = "metrics" /\ IsChunk(take) /\ UNCHANGED <<removed, added, batch, landed, overflowed>>
  /\ refused' = refused \cup ChunkOf(take)
  /\ \A s \in MetricSlugs : Known(s)' = batch.start[s] + sent[s] + take[s]

LEMMA ChunkSteps ==
  ASSUME TypeInv, TypeInv', MetricInv, MetricInv', ChunkOk \/ ChunkRejected \/ ChunkUnanswered
  PROVE  /\ \/ UNCHANGED <<removed, added, batch, landed, refused, overflowed>>
            \/ \E take \in [MetricSlugs -> 0 .. ChunkSize] : ChunkStored(take) \/ ChunkRefused(take)
         /\ \A s \in MetricSlugs : Known(s)' \in Nat /\ Known(s) <= Known(s)'
<1>1. ASSUME NEW take \in [MetricSlugs -> 0 .. ChunkSize], pc = "metrics", IsChunk(take), ChunkDone(take),
             UNCHANGED batch, NEW s \in MetricSlugs
      PROVE  /\ Known(s)' = batch.start[s] + sent[s] + take[s]
             /\ Known(s)' \in Nat /\ Known(s) <= Known(s)'
  <2>1. take[s] \in Nat /\ sent'[s] = sent[s] + take[s] /\ pc' = "metrics"
    BY <1>1, ChunkFacts DEF TypeInv, ChunkDone
  <2>2. Known(s) = batch.start[s] + sent[s] /\ Known(s)' = batch.start[s] + sent[s] + take[s]
    BY <1>1, <2>1, SlugFacts DEF Known
  <2> QED
    BY <2>1, <2>2, SlugFacts
<1>2. CASE ChunkOk
  <2>1. PICK take \in [MetricSlugs -> 0 .. ChunkSize] : IsChunk(take) /\ Land(ChunkOf(take)) /\ ChunkDone(take)
    BY <1>2 DEF ChunkOk
  <2>2. pc = "metrics" /\ UNCHANGED <<removed, added, batch, refused, overflowed>>
    BY <1>2 DEF ChunkOk, bufferVars
  <2>3. ChunkStored(take)
    BY <2>1, <2>2 DEF ChunkStored, Land
  <2> QED
    BY <1>1, <2>1, <2>2, <2>3
<1>3. CASE ChunkRejected
  <2>1. PICK take \in [MetricSlugs -> 0 .. ChunkSize] :
             IsChunk(take) /\ refused' = refused \cup ChunkOf(take) /\ ChunkDone(take)
    BY <1>3 DEF ChunkRejected
  <2>2. pc = "metrics" /\ UNCHANGED <<removed, added, batch, landed, overflowed>>
    BY <1>3 DEF ChunkRejected, bufferVars
  <2>3. ChunkRefused(take)
    BY <1>1, <2>1, <2>2 DEF ChunkRefused
  <2> QED
    BY <1>1, <2>1, <2>2, <2>3
<1>4. CASE ChunkUnanswered
  <2>1. /\ UNCHANGED <<removed, added, batch, refused, overflowed, sent>>
        /\ pc = "metrics" /\ pc' \in {"metrics", "ack"}
    BY <1>4 DEF ChunkUnanswered, RetryOrFail, Fail, bufferVars
  <2>2. \A s \in MetricSlugs : Known(s)' = Known(s)
    BY <2>1 DEF Known
  <2>3. \/ UNCHANGED landed
        \/ \E take \in [MetricSlugs -> 0 .. ChunkSize] : ChunkStored(take)
    BY <1>4, <2>1 DEF ChunkUnanswered, ChunkStored, Land
  <2> QED
    BY <2>1, <2>2, <2>3, SlugFacts
<1> QED
  BY <1>2, <1>3, <1>4

LEMMA LedgerStep == TypeInv /\ MetricInv /\ LedgerInv /\ [Next]_vars => LedgerInv'
<1> SUFFICES ASSUME TypeInv, MetricInv, LedgerInv, [Next]_vars PROVE LedgerInv'
  OBVIOUS
<1>0. TypeInv' /\ MetricInv'
  BY TypeStep, MetricStep
<1>1. \A s \in MetricSlugs : /\ added[s] \in Nat /\ added'[s] \in Nat /\ Known(s) \in Nat /\ Known(s)' \in Nat
                             /\ removed[s] \in Nat /\ removed'[s] \in Nat
  <2>1. ASSUME NEW s \in MetricSlugs PROVE added[s] \in Nat /\ Known(s) \in Nat /\ removed[s] \in Nat
    BY SlugFacts
  <2>2. ASSUME NEW s \in MetricSlugs PROVE added'[s] \in Nat /\ Known(s)' \in Nat /\ removed'[s] \in Nat
    <3>1. added'[s] \in Nat /\ removed'[s] \in Nat
      BY <1>0 DEF TypeInv, TypeOK, BufferTypeOK, MetricHistoryOK
    <3>2. batch'.start[s] \in Nat /\ sent'[s] \in Nat
      BY <1>0 DEF TypeInv, TypeOK, PublisherTypeOK, Batches
    <3> QED
      BY <3>1, <3>2 DEF Known
  <2> QED
    BY <2>1, <2>2
<1>2. CASE Quiet
  BY <1>1, <1>2, LedgerFrame DEF Quiet, Known
<1>3. CASE \E s \in MetricSlugs : CollectMetric(s)
  <2>1. PICK s \in MetricSlugs : CollectMetric(s)
    BY <1>3
  <2>2. /\ UNCHANGED <<landed, refused, batch, sent, pc>> /\ overflowed \subseteq overflowed'
        /\ \A t \in MetricSlugs : added[t] <= added'[t] /\ removed[t] <= removed'[t]
    <3>1. UNCHANGED <<landed, refused, batch, sent, pc>>
      BY <2>1 DEF CollectMetric, publisherVars
    <3>2. overflowed \subseteq overflowed' /\ \A t \in MetricSlugs : removed[t] <= removed'[t]
      BY <1>1, <2>1, CollectMetricFacts
    <3>3. ASSUME NEW t \in MetricSlugs PROVE added[t] <= added'[t]
      <4>1. added' = [added EXCEPT ![s] = added[s] + 1] /\ added \in [MetricSlugs -> Nat]
        BY <2>1 DEF CollectMetric, TypeInv, TypeOK, MetricHistoryOK
      <4> QED
        BY <4>1
    <3> QED
      BY <3>1, <3>2, <3>3
  <2>3. \A t \in MetricSlugs : Known(t) <= Known(t)'
    BY <1>1, <2>2 DEF Known
  <2> QED
    BY <1>1, <2>2, <2>3, LedgerFrame
<1>4. CASE Snapshot
  <2>1. /\ UNCHANGED <<landed, refused, added, overflowed, removed>>
        /\ batch'.start = removed /\ sent' = NoMetrics /\ pc = "snapshot" /\ pc' \notin {"idle", "snapshot"}
    BY <1>4 DEF Snapshot, SnapshotOf, bufferVars, metricHistory, TypeInv, LocalsInv
  <2>2. ASSUME NEW s \in MetricSlugs PROVE Known(s)' = Known(s)
    BY <1>1, <2>1 DEF Known, NoMetrics
  <2> QED
    BY <1>1, <2>1, <2>2, LedgerFrame
<1>5. CASE ChunkOk \/ ChunkRejected \/ ChunkUnanswered
  <2>1. /\ \/ UNCHANGED <<removed, added, batch, landed, refused, overflowed>>
           \/ \E take \in [MetricSlugs -> 0 .. ChunkSize] : ChunkStored(take) \/ ChunkRefused(take)
        /\ \A s \in MetricSlugs : Known(s)' \in Nat /\ Known(s) <= Known(s)'
    BY <1>0, <1>5, ChunkSteps
  <2>2. CASE UNCHANGED <<removed, added, batch, landed, refused, overflowed>>
    BY <1>1, <2>1, <2>2, LedgerFrame
  <2>3. CASE \E take \in [MetricSlugs -> 0 .. ChunkSize] : ChunkStored(take) \/ ChunkRefused(take)
    BY <2>1, <2>3, ChunkLedger DEF ChunkStored, ChunkRefused
  <2> QED
    BY <2>1, <2>2, <2>3
<1>6. CASE PublishEnds
  <2>1. UNCHANGED <<landed, refused, added, overflowed>>
    BY <1>6 DEF PublishEnds, metricHistory
  <2>2. \A s \in MetricSlugs : Known(s) <= Known(s)'
    BY <1>6, AckReaches
  <2> QED
    BY <1>1, <2>1, <2>2, LedgerFrame
<1> QED
  BY <1>2, <1>3, <1>4, <1>5, <1>6, QuietSteps DEF Next, Publisher

-----------------------------------------------------------------------------
(* The fates.                                                              *)

Names == {"stored", "refused", "dropped", "waiting"}

(* The ledger a state of Delivery stands for. *)
Fates == [s \in MetricSlugs |-> [i \in 1 .. added[s] |-> Fate(s, i)]]

FateBy(l, r, o, e) ==
  IF e \in l THEN "stored" ELSE IF e \in r THEN "refused" ELSE IF e \in o THEN "dropped" ELSE "waiting"

LEMMA FateIs ==
  TypeInv /\ MetricInv =>
    \A s \in MetricSlugs : \A i \in 1 .. added[s] : Fate(s, i) = FateBy(landed, refused, overflowed, <<s, i>>)
BY NothingLost DEF NoSilentLoss, Accounted, Fate, FateBy

FatesOK ==
  /\ Fates = [s \in MetricSlugs |-> Fates[s]]
  /\ \A s \in MetricSlugs :
       /\ Fates[s] = [i \in 1 .. added[s] |-> FateBy(landed, refused, overflowed, <<s, i>>)]
       /\ Fates[s] \in Seq(Names) /\ Len(Fates[s]) = added[s]

LEMMA FatesAre == TypeInv /\ MetricInv => FatesOK
<1> SUFFICES ASSUME TypeInv, MetricInv
             PROVE  FatesOK
  OBVIOUS
<1>1. ASSUME NEW s \in MetricSlugs
      PROVE  /\ Fates[s] = [i \in 1 .. added[s] |-> FateBy(landed, refused, overflowed, <<s, i>>)]
             /\ Fates[s] \in Seq(Names) /\ Len(Fates[s]) = added[s]
  <2>1. Fates[s] = [i \in 1 .. added[s] |-> FateBy(landed, refused, overflowed, <<s, i>>)]
    BY FateIs DEF Fates
  <2>2. added[s] \in Nat
    BY SlugFacts
  <2>3. Fates[s] \in [1 .. added[s] -> Names]
    BY <2>1 DEF FateBy, Names
  <2>4. Fates[s] \in Seq(Names)
    BY <2>2, <2>3, SeqDef
  <2>5. Len(Fates[s]) = added[s]
    BY <2>2, <2>3, <2>4, LenProperties
  <2> QED
    BY <2>1, <2>4, <2>5
<1>2. Fates = [s \in MetricSlugs |-> Fates[s]]
  BY DEF Fates
<1> QED
  BY <1>1, <1>2 DEF FatesOK

LEMMA FatesStay ==
  ASSUME TypeInv, TypeInv', MetricInv, MetricInv', UNCHANGED <<added, landed, refused, overflowed>>
  PROVE  Fates' = Fates
<1>1. \A s \in MetricSlugs : \A i \in 1 .. added[s] : Fate(s, i) = FateBy(landed, refused, overflowed, <<s, i>>)
  BY FateIs
<1>2. (\A s \in MetricSlugs : \A i \in 1 .. added[s] : Fate(s, i) = FateBy(landed, refused, overflowed, <<s, i>>))'
  BY FateIs, PTL
<1>3. \A s \in MetricSlugs : \A i \in 1 .. added[s] : Fate(s, i)' = Fate(s, i)
  BY <1>1, <1>2
<1> QED
  BY <1>3 DEF Fates

(* The platform answers for a chunk: those of its samples that had no      *)
(* answer yet get one.                                                     *)
LEMMA ChunkSettles ==
  ASSUME TypeInv, TypeInv', MetricInv, MetricInv', LedgerInv,
         NEW take \in [MetricSlugs -> 0 .. ChunkSize], ChunkStored(take) \/ ChunkRefused(take)
  PROVE  Promise!Next
<1> DEFINE chunk == ChunkOf(take)
<1>0. PICK some \in {chunk \ Answered}, how \in {"stored", "refused"} :
        some = chunk \ Answered /\ how = IF ChunkStored(take) THEN "stored" ELSE "refused"
  <2>1. (IF ChunkStored(take) THEN "stored" ELSE "refused") \in {"stored", "refused"}
    OBVIOUS
  <2> QED
    BY <2>1
<1>1. /\ pc = "metrics" /\ IsChunk(take) /\ UNCHANGED <<added, overflowed>>
  BY DEF ChunkStored, ChunkRefused
<1>2. chunk \subseteq Samples
  BY <1>1, ChunkFacts DEF TypeInv
<1>3. ASSUME NEW s \in MetricSlugs, NEW j, <<s, j>> \in chunk
      PROVE  /\ j \in 1 .. added[s] /\ <<s, j>> \notin refused
             /\ \A i \in 1 .. j : <<s, i>> \in Accounted \/ <<s, i>> \in chunk
  <2>1. /\ j \in 1 .. added[s] /\ Known(s) < j
        /\ \A i \in 1 .. j : <<s, i>> \in Accounted \/ <<s, i>> \in chunk
    BY <1>1, <1>3, ChunkPrefix
  <2>2. <<s, j>> \notin refused
    BY <2>1, SlugFacts DEF LedgerInv
  <2> QED
    BY <2>1, <2>2
<1> HIDE DEF chunk
<1>4. some \in SUBSET Promise!Open
  <2> SUFFICES ASSUME NEW e \in chunk \ Answered PROVE e \in Promise!Open
    BY <1>0
  <2>1. PICK s \in MetricSlugs, j \in Nat : e = <<s, j>>
    BY <1>2 DEF Samples
  <2>2. j \in 1 .. added[s] /\ <<s, j>> \notin Answered
    BY <1>3, <2>1
  <2>3. Fates[s][j] \in {"waiting", "dropped"} /\ j \in 1 .. Len(Fates[s])
    BY <2>2, FatesAre DEF FatesOK, FateBy, Answered
  <2>4. <<s, j>> \in UNION {{<<t, i>> : i \in {k \in 1 .. Len(Fates[t]) : Fates[t][k] \in {"waiting", "dropped"}}} : t \in MetricSlugs}
    BY <2>3
  <2> QED
    BY <2>1, <2>4 DEF Promise!Open, Fates
<1>5. \A e \in some : \A i \in Promise!Waiting(e[1]) : i < e[2] => <<e[1], i>> \in some
  <2> SUFFICES ASSUME NEW s \in MetricSlugs, NEW j \in Nat, <<s, j>> \in chunk \ Answered,
                      NEW i \in Promise!Waiting(s), i < j
               PROVE  <<s, i>> \in chunk \ Answered
    BY <1>0, <1>2 DEF Samples
  <2>1. i \in {k \in 1 .. Len(Fates[s]) : Fates[s][k] = "waiting"}
    BY DEF Promise!Waiting, Fates
  <2>2. i \in 1 .. added[s] /\ <<s, i>> \notin Accounted
    BY <2>1, FatesAre DEF FatesOK, FateBy, Accounted
  <2>3. j \in 1 .. added[s] /\ i \in 1 .. j
    BY <1>3, <2>2, SlugFacts
  <2> QED
    BY <1>3, <2>2, <2>3 DEF Accounted, Answered
<1>6. Fates' = [s \in MetricSlugs |-> [i \in 1 .. Len(Fates[s]) |-> IF <<s, i>> \in some THEN how ELSE Fates[s][i]]]
  <2>1. ASSUME NEW s \in MetricSlugs, NEW i \in 1 .. added[s]
        PROVE  FateBy(landed, refused, overflowed, <<s, i>>)' =
                 IF <<s, i>> \in some THEN how ELSE FateBy(landed, refused, overflowed, <<s, i>>)
    <3>1. CASE ChunkStored(take)
      BY <3>1, <1>0, <1>3 DEF ChunkStored, FateBy, Answered, chunk
    <3>2. CASE ~ChunkStored(take)
      <4>1. ChunkRefused(take)
        BY <3>2
      <4> QED
        BY <3>2, <4>1, <1>0 DEF ChunkRefused, FateBy, Answered, chunk
    <3> QED
      BY <3>1, <3>2
  <2>2. \A s \in MetricSlugs : \A i \in 1 .. added[s] : Fate(s, i)' = FateBy(landed, refused, overflowed, <<s, i>>)'
    <3>1. (\A s \in MetricSlugs : \A i \in 1 .. added[s] : Fate(s, i) = FateBy(landed, refused, overflowed, <<s, i>>))'
      BY FateIs, PTL
    <3> QED
      BY <1>1, <3>1
  <2>3. Fates' = [s \in MetricSlugs |-> [i \in 1 .. added[s] |-> Fate(s, i)']]
    BY <1>1 DEF Fates
  <2>4. \A s \in MetricSlugs : Len(Fates[s]) = added[s] /\ \A i \in 1 .. added[s] : Fates[s][i] = FateBy(landed, refused, overflowed, <<s, i>>)
    BY FatesAre DEF FatesOK
  <2> QED
    BY <2>1, <2>2, <2>3, <2>4
<1>7. Promise!Settle(some, how)
  BY <1>5, <1>6 DEF Promise!Settle, Fates
<1> QED
  BY <1>4, <1>7 DEF Promise!Next

(* A queue never holds more than the buffer's bound. *)
BoundInv == \A s \in MetricSlugs : Len(items[s]) <= MaxPerMetric

LEMMA BoundStep == TypeInv /\ MetricInv /\ BoundInv /\ [Next]_vars => BoundInv'
<1> SUFFICES ASSUME TypeInv, MetricInv, BoundInv, [Next]_vars PROVE BoundInv'
  OBVIOUS
<1>0. TypeInv' /\ MetricInv'
  BY TypeStep, MetricStep
<1>1. ASSUME NEW s \in MetricSlugs
      PROVE  /\ added'[s] = removed'[s] + Len(items'[s]) /\ added'[s] \in Nat /\ removed'[s] \in Nat
             /\ Len(items'[s]) \in Nat
  <2>1. added'[s] \in Nat /\ removed'[s] \in Nat /\ items'[s] \in Seq(Nat)
    BY <1>0 DEF TypeInv, TypeOK, BufferTypeOK, MetricHistoryOK
  <2>2. added'[s] = removed'[s] + Len(items'[s])
    BY <1>0 DEF MetricInv, QueueInv
  <2> QED
    BY <2>1, <2>2
<1>2. CASE UNCHANGED items
  BY <1>2 DEF BoundInv
<1>3. CASE \E s \in MetricSlugs : CollectMetric(s)
  <2>1. PICK s \in MetricSlugs : CollectMetric(s)
    BY <1>3
  <2>2. ASSUME NEW t \in MetricSlugs PROVE Len(items'[t]) <= MaxPerMetric
    <3>1. CASE t = s
      <4>1. /\ added'[s] = added[s] + 1
            /\ removed'[s] = IF Full(s) THEN removed[s] + 1 ELSE removed[s]
        BY <2>1, CollectMetricFacts DEF CollectMetric, TypeInv, TypeOK, MetricHistoryOK
      <4>2. /\ added[s] = removed[s] + Len(items[s]) /\ added[s] \in Nat /\ removed[s] \in Nat
            /\ Len(items[s]) \in Nat /\ Len(items[s]) <= MaxPerMetric /\ MaxPerMetric \in Nat
        BY SlugFacts, BufferAssumption DEF BoundInv
      <4>3. Full(s) <=> Len(items[s]) >= MaxPerMetric
        BY DEF Full
      <4>4. Len(items'[s]) <= MaxPerMetric
        <5>1. added'[s] = removed'[s] + Len(items'[s]) /\ Len(items'[s]) \in Nat
          BY <1>1
        <5>2. CASE Full(s)
          <6>1. removed[s] + Len(items[s]) + 1 = removed[s] + 1 + Len(items'[s])
            BY <4>1, <4>2, <5>1, <5>2
          <6> QED
            BY <4>2, <5>1, <6>1
        <5>3. CASE ~ Full(s)
          <6>1. removed[s] + Len(items[s]) + 1 = removed[s] + Len(items'[s]) /\ Len(items[s]) < MaxPerMetric
            BY <4>1, <4>2, <4>3, <5>1, <5>3
          <6> QED
            BY <4>2, <5>1, <6>1
        <5> QED
          BY <5>2, <5>3
      <4> QED
        BY <3>1, <4>4
    <3>2. CASE t # s
      <4>1. items'[t] = items[t]
        BY <2>1, <3>2 DEF CollectMetric, AddMetric, TypeInv, TypeOK, BufferTypeOK
      <4> QED
        BY <4>1 DEF BoundInv
    <3> QED
      BY <3>1, <3>2
  <2> QED
    BY <2>2 DEF BoundInv
<1>4. CASE PublishEnds
  <2>1. ASSUME NEW s \in MetricSlugs PROVE Len(items'[s]) <= MaxPerMetric
    <3>1. /\ added'[s] = added[s]
          /\ removed'[s] = removed[s] + AckedNow(batch, s, ack.metrics[s])
      BY <1>4 DEF PublishEnds, Ack, metricHistory
    <3>2. AckedNow(batch, s, ack.metrics[s]) \in 0 .. Len(items[s])
      <4>1. TypeOK /\ ack.metrics[s] \in Nat
        BY SlugFacts DEF TypeInv
      <4> QED
        BY <4>1, AckedNowFacts
    <3>3. /\ added[s] = removed[s] + Len(items[s]) /\ added[s] \in Nat /\ removed[s] \in Nat
          /\ Len(items[s]) \in Nat /\ Len(items[s]) <= MaxPerMetric /\ MaxPerMetric \in Nat
      BY SlugFacts, BufferAssumption DEF BoundInv
    <3> QED
      BY <1>1, <3>1, <3>2, <3>3
  <2> QED
    BY <2>1 DEF BoundInv
<1>5. ASSUME \/ \E s \in DimSlugs : CollectDim(s)
             \/ StopSignal \/ CollectorsDone \/ DeleteEntity \/ UNCHANGED vars
      PROVE  UNCHANGED items
  BY <1>5 DEF CollectDim, AddDim, StopSignal, CollectorsDone, DeleteEntity, vars, bufferVars
<1>6. ASSUME TakeDrops \/ NothingToPublish \/ Snapshot \/ DimsOk \/ DimsRejected \/ DimsRejectedUnnamed \/ DimsUnanswered
      PROVE  UNCHANGED items
  BY <1>6 DEF TakeDrops, ResetDrops, NothingToPublish, Snapshot, DimsOk, DimsRejected, DimsRejectedUnnamed,
              DimsUnanswered, bufferVars
<1>7. ASSUME ChunkOk \/ ChunkRejected \/ ChunkUnanswered \/ AllSent \/ EntityGone PROVE UNCHANGED items
  BY <1>7 DEF ChunkOk, ChunkRejected, ChunkUnanswered, AllSent, EntityGone, bufferVars
<1> QED
  BY <1>2, <1>3, <1>4, <1>5, <1>6, <1>7 DEF Next, Publisher

LEMMA Appended ==
  ASSUME NEW room \in Seq(Names), NEW new \in Seq(Names), Len(new) = Len(room) + 1,
         new[Len(room) + 1] = "waiting", \A i \in 1 .. Len(room) : new[i] = room[i]
  PROVE  new = Append(room, "waiting")
<1>1. "waiting" \in Names
  BY DEF Names
<1>2. /\ Append(room, "waiting") \in Seq(Names) /\ Len(Append(room, "waiting")) = Len(room) + 1
      /\ \A i \in 1 .. Len(room) : Append(room, "waiting")[i] = room[i]
      /\ Append(room, "waiting")[Len(room) + 1] = "waiting"
  BY <1>1, AppendProperties
<1>3. Len(room) \in Nat
  BY LenProperties
<1>4. \A i \in 1 .. Len(new) : new[i] = Append(room, "waiting")[i]
  BY <1>2, <1>3
<1> QED
  BY <1>2, <1>4, SeqEqual

(* Collecting a sample is the ledger's Collect: what waits is the queue    *)
(* without what the platform answered for already, so a full queue whose   *)
(* oldest has an answer has room in the ledger.                            *)
LEMMA CollectIsCollect ==
  ASSUME TypeInv, TypeInv', MetricInv, MetricInv', DropInv, LedgerInv, BoundInv,
         NEW s \in MetricSlugs, CollectMetric(s)
  PROVE  Promise!Collect(s)
<1> DEFINE W == {i \in 1 .. added[s] : <<s, i>> \notin Accounted}
           first == removed[s] + 1
           drop == Full(s) /\ first \in W
           room == IF drop THEN [Fates[s] EXCEPT ![first] = "dropped"] ELSE Fates[s]
<1>1. /\ added[s] = removed[s] + Len(items[s]) /\ added[s] \in Nat /\ removed[s] \in Nat
      /\ Len(items[s]) \in Nat /\ Len(items[s]) <= MaxPerMetric /\ MaxPerMetric \in Nat /\ MaxPerMetric > 0
  BY SlugFacts, BufferAssumption DEF BoundInv
<1>2. /\ Full(s) <=> Len(items[s]) >= MaxPerMetric
      /\ added' = [added EXCEPT ![s] = @ + 1] /\ added \in [MetricSlugs -> Nat]
      /\ overflowed' = IF Full(s) THEN overflowed \cup {<<s, first>>} ELSE overflowed
      /\ UNCHANGED <<landed, refused>>
  <2>1. added \in [MetricSlugs -> Nat] /\ UNCHANGED <<landed, refused>>
    BY DEF CollectMetric, TypeInv, TypeOK, MetricHistoryOK
  <2> QED
    BY <2>1, CollectMetricFacts DEF Full
<1>3. /\ \A i \in 1 .. removed[s] : <<s, i>> \in Accounted
      /\ \A i : <<s, i>> \in overflowed => i \in 1 .. removed[s]
      /\ \A i : <<s, i>> \in Answered => i \in 1 .. added[s]
      /\ \A j : <<s, j>> \in Answered => \A i \in 1 .. j : <<s, i>> \in Accounted
  BY DEF MetricInv, RemovedInv, DropInv, LedgerInv
<1>4. W \subseteq first .. added[s]
  BY <1>1, <1>3
<1>5. Promise!Waiting(s) = W
  <2>1. Promise!Waiting(s) = {i \in 1 .. Len(Fates[s]) : Fates[s][i] = "waiting"}
    BY DEF Promise!Waiting, Fates
  <2>2. \A i \in 1 .. added[s] : Fates[s][i] = "waiting" <=> <<s, i>> \notin Accounted
    BY FatesAre DEF FatesOK, FateBy, Accounted
  <2> QED
    BY <2>1, <2>2, FatesAre DEF FatesOK
<1>6. ASSUME drop
      PROVE  ~(Cardinality(W) < MaxPerMetric) /\ Promise!Oldest(s) = first
  <2>1. first \in 1 .. added[s] /\ <<s, first>> \notin Accounted
    BY <1>6
  <2>2. W = first .. added[s]
    <3> SUFFICES ASSUME NEW j \in first .. added[s], <<s, j>> \in Accounted PROVE FALSE
      BY <1>1, <1>4
    <3>1. j \in Nat /\ first <= j /\ first \in 1 .. j
      BY <1>1
    <3>2. <<s, j>> \notin Answered
      BY <1>3, <2>1, <3>1
    <3>3. <<s, j>> \notin overflowed
      BY <1>1, <1>3, <3>1
    <3> QED
      BY <3>2, <3>3 DEF Accounted, Answered
  <2>3. Cardinality(first .. added[s]) = Len(items[s])
    <3>1. first \in Int /\ added[s] \in Int
      BY <1>1
    <3> HIDE DEF first
    <3>2. Cardinality(first .. added[s]) = IF first > added[s] THEN 0 ELSE added[s] - first + 1
      BY <3>1, FS_Interval
    <3> USE DEF first
    <3> QED
      BY <1>1, <3>2
  <2>4. Full(s) /\ first \in W
    BY <1>6
  <2> HIDE DEF W, drop
  <2>5. ~(Cardinality(W) < MaxPerMetric)
    <3>1. Cardinality(W) = Len(items[s])
      BY <2>2, <2>3
    <3> QED
      BY <1>1, <1>2, <2>4, <3>1
  <2>6. \A i \in W : (\A j \in W : i <= j) <=> i = first
    BY <1>1, <2>2, <2>4
  <2>7. (CHOOSE i \in W : \A j \in W : i <= j) = first
    BY <2>4, <2>6
  <2>8. Promise!Oldest(s) = first
    BY <1>5, <2>7 DEF Promise!Oldest
  <2> QED
    BY <2>5, <2>8
<1>7. ASSUME ~drop PROVE Cardinality(W) < MaxPerMetric
  <2> DEFINE low == IF Full(s) THEN first + 1 ELSE first
  <2>1. W \subseteq low .. added[s]
    BY <1>1, <1>4, <1>7
  <2>2. low \in Int /\ added[s] \in Int
    BY <1>1
  <2>3. low = IF Full(s) THEN removed[s] + 2 ELSE removed[s] + 1
    BY <1>1
  <2> HIDE DEF low, W, drop
  <2>4. IsFiniteSet(low .. added[s]) /\ Cardinality(low .. added[s]) = IF low > added[s] THEN 0 ELSE added[s] - low + 1
    BY <2>2, FS_Interval
  <2>5. IsFiniteSet(W) /\ Cardinality(W) <= Cardinality(low .. added[s])
    BY <2>1, <2>4, FS_Subset
  <2>6. Cardinality(W) \in Nat
    BY <2>5, FS_CardinalityType
  <2>7. Cardinality(low .. added[s]) < MaxPerMetric
    <3>1. low = removed[s] + 2 \/ (low = removed[s] + 1 /\ Len(items[s]) < MaxPerMetric)
      BY <1>1, <1>2, <2>3
    <3>2. Cardinality(low .. added[s]) = IF low > added[s] THEN 0 ELSE added[s] - low + 1
      BY <2>4
    <3>3. CASE low > added[s]
      BY <1>1, <3>2, <3>3
    <3>4. CASE ~(low > added[s])
      <4>1. Cardinality(low .. added[s]) = added[s] - low + 1
        BY <3>2, <3>4
      <4> QED
        BY <1>1, <3>1, <4>1, SMTT(30)
    <3> QED
      BY <3>3, <3>4
  <2> QED
    BY <1>1, <2>2, <2>4, <2>5, <2>6, <2>7
<1>8. Fates[s] \in Seq(Names) /\ Len(Fates[s]) = added[s]
  BY FatesAre DEF FatesOK
<1>9. room \in Seq(Names) /\ Len(room) = added[s]
      /\ \A i \in 1 .. added[s] : room[i] = IF drop /\ i = first THEN "dropped" ELSE Fates[s][i]
  <2>1. CASE drop
    <3>1. first \in 1 .. Len(Fates[s]) /\ "dropped" \in Names
      BY <2>1, <1>8 DEF Names
    <3> HIDE DEF first
    <3>2. /\ [Fates[s] EXCEPT ![first] = "dropped"] \in Seq(Names)
          /\ Len([Fates[s] EXCEPT ![first] = "dropped"]) = Len(Fates[s])
          /\ \A j \in 1 .. Len(Fates[s]) : [Fates[s] EXCEPT ![first] = "dropped"][j] = IF j = first THEN "dropped" ELSE Fates[s][j]
      BY <3>1, <1>8, ExceptSeq
    <3> HIDE DEF W, drop
    <3> QED
      BY <2>1, <1>8, <3>2
  <2>2. CASE ~drop
    BY <2>2, <1>8
  <2> QED
    BY <2>1, <2>2
<1>10. Fates'[s] = Append(room, "waiting")
  <2>1. /\ Fates'[s] = [i \in 1 .. added'[s] |-> FateBy(landed, refused, overflowed, <<s, i>>)']
        /\ Fates'[s] \in Seq(Names) /\ Len(Fates'[s]) = added'[s]
    <3>1. FatesOK'
      BY FatesAre, PTL
    <3> QED
      BY <3>1 DEF FatesOK
  <2>2. added'[s] = added[s] + 1
    BY <1>2
  <2>3. \A i \in 1 .. added[s] + 1 : Fates'[s][i] = FateBy(landed, refused, overflowed', <<s, i>>)
    BY <1>2, <2>1, <2>2 DEF FateBy
  <2>4. Fates'[s][added[s] + 1] = "waiting"
    <3>1. <<s, added[s] + 1>> \notin Answered
      BY <1>1, <1>3
    <3>2. <<s, added[s] + 1>> \notin overflowed'
      BY <1>1, <1>2, <1>3
    <3> QED
      BY <1>1, <2>3, <3>1, <3>2 DEF FateBy, Answered
  <2>5. ASSUME NEW i \in 1 .. added[s]
        PROVE  FateBy(landed, refused, overflowed', <<s, i>>) =
                 IF drop /\ i = first THEN "dropped" ELSE FateBy(landed, refused, overflowed, <<s, i>>)
    <3>1. CASE i = first /\ Full(s)
      <4>1. <<s, i>> \notin overflowed /\ <<s, i>> \in overflowed'
        BY <1>1, <1>2, <1>3, <3>1
      <4>2. drop <=> <<s, i>> \notin Answered
        BY <3>1, <4>1 DEF Accounted, Answered
      <4> HIDE DEF drop
      <4> QED
        BY <3>1, <4>1, <4>2 DEF FateBy, Answered
    <3>2. CASE ~(i = first /\ Full(s))
      <4>1. <<s, i>> \in overflowed' <=> <<s, i>> \in overflowed
        BY <1>2, <3>2
      <4> QED
        BY <3>2, <4>1 DEF FateBy
    <3> QED
      BY <3>1, <3>2
  <2>6. \A i \in 1 .. added[s] : Fates[s][i] = FateBy(landed, refused, overflowed, <<s, i>>)
    BY FatesAre DEF FatesOK
  <2>7. \A i \in 1 .. added[s] : i \in 1 .. added[s] + 1
    BY <1>1
  <2> HIDE DEF room, drop, first, W
  <2>8. \A i \in 1 .. added[s] : Fates'[s][i] = room[i]
    BY <1>9, <2>3, <2>5, <2>6, <2>7
  <2> QED
    BY <1>9, <2>1, <2>2, <2>4, <2>8, Appended
<1>11. ASSUME NEW t \in MetricSlugs, t # s PROVE Fates'[t] = Fates[t]
  <2>0. FatesOK'
    BY FatesAre, PTL
  <2>1. Fates'[t] = [i \in 1 .. added'[t] |-> FateBy(landed, refused, overflowed, <<t, i>>)']
    BY <2>0 DEF FatesOK
  <2>2. Fates[t] = [i \in 1 .. added[t] |-> FateBy(landed, refused, overflowed, <<t, i>>)]
    BY FatesAre DEF FatesOK
  <2>3. added'[t] = added[t] /\ \A i : <<t, i>> \in overflowed' <=> <<t, i>> \in overflowed
    BY <1>2, <1>11
  <2>4. \A i : FateBy(landed, refused, overflowed, <<t, i>>)' = FateBy(landed, refused, overflowed, <<t, i>>)
    BY <1>2, <2>3 DEF FateBy
  <2> QED
    BY <2>1, <2>2, <2>3, <2>4
<1>12. Fates' = [Fates EXCEPT ![s] = Append(room, "waiting")]
  <2>1. Fates = [t \in MetricSlugs |-> Fates[t]]
    BY FatesAre DEF FatesOK
  <2>2. Fates' = [t \in MetricSlugs |-> Fates'[t]]
    <3>1. FatesOK'
      BY FatesAre, PTL
    <3> QED
      BY <3>1 DEF FatesOK
  <2> HIDE DEF room
  <2> QED
    BY <1>10, <1>11, <2>1, <2>2
<1>13. room = IF Cardinality(Promise!Waiting(s)) < MaxPerMetric THEN Fates[s]
              ELSE [Fates[s] EXCEPT ![Promise!Oldest(s)] = "dropped"]
  <2> HIDE DEF drop, W, first
  <2> QED
    BY <1>5, <1>6, <1>7 DEF room
<1>14. Promise!Collect(s) <=>
         Fates' = [Fates EXCEPT ![s] = Append(IF Cardinality(Promise!Waiting(s)) < MaxPerMetric THEN Fates[s]
                                             ELSE [Fates[s] EXCEPT ![Promise!Oldest(s)] = "dropped"], "waiting")]
  <2> HIDE DEF W, first, drop, room
  <2>1. Promise!Cardinality(Promise!Waiting(s)) = Cardinality(Promise!Waiting(s))
    BY DEF Promise!Cardinality, Cardinality
  <2> QED
    BY <2>1 DEF Promise!Collect, Fates
<1> HIDE DEF room
<1> QED
  BY <1>12, <1>13, <1>14

LEMMA FatesStart == Init => Promise!Init
<1> SUFFICES ASSUME Init PROVE Promise!Init
  OBVIOUS
<1>1. ASSUME NEW s \in MetricSlugs PROVE Fates[s] = <<>>
  <2>1. added[s] = 0 /\ TypeInv /\ MetricInv
    BY TypeInit, MetricInit DEF Init, NoMetrics
  <2> QED
    BY <2>1, FatesAre, EmptySeq DEF FatesOK
<1>2. Fates = [s \in MetricSlugs |-> <<>>]
  BY <1>1 DEF Fates
<1> QED
  BY <1>2 DEF Promise!Init, Fates

(* Buffer, publisher, transport and stop implement the ledger of fates:    *)
(* samples get their answers in the order they came, only a full queue     *)
(* drops one and only its oldest, and a fate given is final.               *)
THEOREM LedgerKept == Spec => KeepsLedger
<1> DEFINE LInv == TypeInv /\ MetricInv /\ DropInv /\ LedgerInv /\ BoundInv
<1>1. Init => LInv
  <2> SUFFICES ASSUME Init PROVE LInv
    OBVIOUS
  <2>1. landed = {} /\ refused = {} /\ \A s \in MetricSlugs : items[s] = <<>>
    BY DEF Init, BufferInit
  <2>2. LedgerInv
    BY <2>1 DEF LedgerInv, Answered
  <2>3. BoundInv
    BY <2>1, BufferAssumption DEF BoundInv
  <2> QED
    BY <2>2, <2>3, TypeInit, MetricInit, DropInit
<1>2. LInv /\ [Next]_vars => LInv'
  BY TypeStep, MetricStep, DropStep, LedgerStep, BoundStep
<1>3. LInv /\ LInv' /\ [Next]_vars => [Promise!Next]_Fates
  <2> SUFFICES ASSUME LInv, LInv', [Next]_vars PROVE Promise!Next \/ Fates' = Fates
    OBVIOUS
  <2>1. CASE UNCHANGED <<added, landed, refused, overflowed>>
    BY <2>1, FatesStay
  <2>2. CASE \E s \in MetricSlugs : CollectMetric(s)
    BY <2>2, CollectIsCollect DEF Promise!Next
  <2>3. CASE \E take \in [MetricSlugs -> 0 .. ChunkSize] : ChunkStored(take) \/ ChunkRefused(take)
    BY <2>3, ChunkSettles
  <2>4. CASE Snapshot \/ PublishEnds
    <3>1. UNCHANGED <<added, landed, refused, overflowed>>
      BY <2>4 DEF Snapshot, PublishEnds, metricHistory
    <3> QED
      BY <3>1, FatesStay
  <2>5. CASE ChunkOk \/ ChunkRejected \/ ChunkUnanswered
    <3>1. \/ UNCHANGED <<removed, added, batch, landed, refused, overflowed>>
          \/ \E take \in [MetricSlugs -> 0 .. ChunkSize] : ChunkStored(take) \/ ChunkRefused(take)
      BY <2>5, ChunkSteps
    <3> QED
      BY <3>1, <2>1, <2>3
  <2>6. CASE Quiet
    BY <2>6, <2>1 DEF Quiet
  <2> QED
    BY <2>2, <2>4, <2>5, <2>6, QuietSteps DEF Next, Publisher
<1>4. Promise!Spec <=> Promise!Init /\ [][Promise!Next]_Fates
  BY DEF Promise!Spec, Fates
<1> HIDE DEF LInv
<1> QED
  BY <1>1, <1>2, <1>3, <1>4, FatesStart, PTL DEF Spec, KeepsLedger
=============================================================================
