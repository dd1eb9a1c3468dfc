------------------------------- MODULE Buffer -------------------------------
(***************************************************************************)
(* The in-memory buffer one entity's observations wait in between two      *)
(* publishes (src/internal/collect/buffer.go): the latest sample of every  *)
(* dimension, and every sample of every metric up to a bound.  Collectors  *)
(* call Add, the publisher calls Drops, Snapshot and Ack; each call runs   *)
(* under the buffer's mutex, so each is one atomic operator here.          *)
(*                                                                         *)
(* A sample is known by its slug and a natural number: for a dimension the *)
(* instant it was stamped with (0: the buffer holds none), for a metric    *)
(* its place in the sequence of samples ever added to that slug.  Metric   *)
(* slugs are natural numbers because a batch is sorted by slug.            *)
(***************************************************************************)
EXTENDS Naturals, Sequences

CONSTANTS
  DimSlugs,      \* dimension attributes, the ones whose latest value wins
  MetricSlugs,   \* metric attributes, numbered in the order of their slugs
  MaxPerMetric   \* samples one metric may hold (Buffer.max)

ASSUME BufferAssumption ==
  /\ MetricSlugs \subseteq Nat
  /\ MaxPerMetric \in Nat \ {0}

VARIABLES
  dims,        \* DimSlugs -> stamp of the buffered sample, 0 when there is none
  itemless,    \* slugs whose buffered value is a list option without an item id
  items,       \* MetricSlugs -> sequence of pending samples (queue.items)
  removed,     \* MetricSlugs -> samples ever taken off the front (queue.removed)
  drops        \* MetricSlugs -> overflow drops not yet reported (Buffer.drops)

bufferVars == <<dims, itemless, items, removed, drops>>

NoMetrics == [s \in MetricSlugs |-> 0]

BufferInit ==
  /\ dims = [s \in DimSlugs |-> 0]
  /\ itemless = {}
  /\ items = [s \in MetricSlugs |-> <<>>]
  /\ removed = NoMetrics
  /\ drops = NoMetrics

(* The queue without its first n samples. *)
DropFirst(q, n) == SubSeq(q, n + 1, Len(q))

Full(s) == Len(items[s]) >= MaxPerMetric

(* Add of a dimension: the newest sample replaces the one that waits. *)
AddDim(s, at, noItem) ==
  /\ dims' = [dims EXCEPT ![s] = at]
  /\ itemless' = IF noItem THEN itemless \cup {s} ELSE itemless \ {s}
  /\ UNCHANGED <<items, removed, drops>>

(* Add of a metric: a full queue gives up its oldest sample first. *)
AddMetric(s, id) ==
  /\ items' = [items EXCEPT ![s] = Append(IF Full(s) THEN DropFirst(@, 1) ELSE @, id)]
  /\ removed' = [removed EXCEPT ![s] = IF Full(s) THEN @ + 1 ELSE @]
  /\ drops' = [drops EXCEPT ![s] = IF Full(s) THEN @ + 1 ELSE @]
  /\ UNCHANGED <<dims, itemless>>

HeldDims == {s \in DimSlugs : dims[s] # 0}

(* Empty: nothing waits. *)
BufferEmpty == HeldDims = {} /\ \A s \in MetricSlugs : items[s] = <<>>

(* Snapshot: a copy of what waits; the buffer keeps everything until Ack. *)
SnapshotOf == [dims |-> dims, metrics |-> items, start |-> removed]

(* Drops: hand the overflow counts over and start counting again. *)
ResetDrops ==
  /\ drops' = NoMetrics
  /\ UNCHANGED <<dims, itemless, items, removed>>

(* Mutant: the acknowledged samples are counted from the queue's front.    *)
AckedNowFromFront(batch, s, n) == IF n > Len(items[s]) THEN Len(items[s]) ELSE n

(* Mutant: the end of the acknowledged samples is one too far. *)
AckedNowOneMore(batch, s, n) ==
  LET over == batch.start[s] + n + 1 - removed[s]
  IN  IF n = 0 THEN 0 ELSE IF over > Len(items[s]) THEN Len(items[s]) ELSE over

(* How many samples Ack takes off the front of s when the first n samples  *)
(* of the batch were accepted: those an overflow dropped meanwhile are     *)
(* gone already and are not taken twice.                                   *)
AckedNow(batch, s, n) ==
  LET end  == batch.start[s] + n
      over == end - removed[s]
  IN  IF n = 0 \/ end <= removed[s] THEN 0
      ELSE IF over > Len(items[s]) THEN Len(items[s]) ELSE over

(* Mutant: a newer value is forgotten with the one that was sent. *)
AckedDimsByName(batch, ack) == ack.dims

(* The acknowledged dimensions the buffer still holds as they were sent. *)
AckedDims(batch, ack) == {s \in ack.dims : dims[s] = batch.dims[s]}

Ack(batch, ack) ==
  /\ dims' = [s \in DimSlugs |-> IF s \in AckedDims(batch, ack) THEN 0 ELSE dims[s]]
  /\ items' = [s \in MetricSlugs |-> DropFirst(items[s], AckedNow(batch, s, ack.metrics[s]))]
  /\ removed' = [s \in MetricSlugs |-> removed[s] + AckedNow(batch, s, ack.metrics[s])]
  /\ itemless' = itemless \ AckedDims(batch, ack)
  /\ UNCHANGED drops

BufferTypeOK ==
  /\ dims \in [DimSlugs -> Nat] /\ itemless \subseteq DimSlugs
  /\ items \in [MetricSlugs -> Seq(Nat)]
  /\ removed \in [MetricSlugs -> Nat]
  /\ drops \in [MetricSlugs -> Nat]
=============================================================================
