------------------------------- MODULE Ledger -------------------------------
(***************************************************************************)
(* What delivery promises of the samples of every metric, without buffers, *)
(* batches or calls: one fate per sample, in the order of collection.      *)
(*                                                                         *)
(*   waiting   nobody has dealt with it yet                                *)
(*   stored    the platform has it                                         *)
(*   refused   the platform answered that it will not take it              *)
(*   dropped   it was the oldest of Max waiting samples when another came  *)
(***************************************************************************)
EXTENDS Naturals, Sequences, FiniteSets

CONSTANTS Slugs, Max

VARIABLE fate    \* Slugs -> sequence of fates

Init == fate = [s \in Slugs |-> <<>>]

Waiting(s) == {i \in 1 .. Len(fate[s]) : fate[s][i] = "waiting"}
Oldest(s) == CHOOSE i \in Waiting(s) : \A j \in Waiting(s) : i <= j

(* A sample comes; Max waiting samples lose their oldest. *)
Collect(s) ==
  LET room == IF Cardinality(Waiting(s)) < Max THEN fate[s]
              ELSE [fate[s] EXCEPT ![Oldest(s)] = "dropped"]
  IN  fate' = [fate EXCEPT ![s] = Append(room, "waiting")]

(* Samples that may still change: a dropped one may be on its way.         *)
Open ==
  UNION {{<<s, i>> : i \in {j \in 1 .. Len(fate[s]) : fate[s][j] \in {"waiting", "dropped"}}} : s \in Slugs}

(* The platform answers for some samples, of each metric the oldest ones.  *)
Settle(some, how) ==
  /\ \A e \in some : \A i \in Waiting(e[1]) : i < e[2] => <<e[1], i>> \in some
  /\ fate' = [s \in Slugs |-> [i \in 1 .. Len(fate[s]) |->
                 IF <<s, i>> \in some THEN how ELSE fate[s][i]]]

Next ==
  \/ \E s \in Slugs : Collect(s)
  \/ \E some \in SUBSET Open, how \in {"stored", "refused"} : Settle(some, how)

Spec == Init /\ [][Next]_fate
=============================================================================
