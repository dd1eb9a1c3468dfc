-------------------------------- MODULE Daemon --------------------------------
(***************************************************************************)
(* The daemon's goroutines: one per source that collects on its interval   *)
(* (src/internal/collect/scheduler.go) and the loop that publishes on a    *)
(* grid, reports and stops (src/internal/cli/run.go).  Time is a step that *)
(* moves every timer; a due timer fires then or any time later, a          *)
(* collection and a publish take as long as they like.                     *)
(*                                                                         *)
(* A source's values are one token here; what becomes of them in a publish *)
(* is Delivery.  The stop signal may come at any moment.                   *)
(***************************************************************************)
EXTENDS Integers, FiniteSets

CONSTANTS
  Sources,       \* the sources the scheduler runs
  Interval,      \* Sources -> ticks between the starts of its collections
  PublishEvery,  \* ticks between two publishes
  SummaryEvery,  \* ticks between two summaries, 0 for none
  Reasons,       \* the texts of failed collections
  MaxFailures    \* bound of the model: Sources -> failures its log takes in

ASSUME DaemonAssumption ==
  /\ IsFiniteSet(Sources)
  /\ Interval \in [Sources -> Nat \ {0}] /\ MaxFailures \in [Sources -> Nat]
  /\ PublishEvery \in Nat \ {0} /\ SummaryEvery \in Nat /\ "none" \notin Reasons

VARIABLES
  run,       \* Sources -> "collecting", "adding" what it collected, "asleep" or "ended"
  spent,     \* Sources -> ticks its collection has taken, up to its interval
  left,      \* Sources -> ticks until its sleep is over
  first,     \* sources whose goroutine has its variable first set
  pending,   \* the count of the wait group pending
  opened,    \* the channel first of the scheduler is closed
  reason,    \* Sources -> failureLog.reason, or "none"
  repeats,   \* Sources -> failureLog.pending
  fresh,     \* sources with values no publish has taken or accepted
  taken,     \* sources with values in the publish under way
  stopped,   \* the stop signal has come
  pc,        \* where the loop is
  phase,     \* ticks since the last point of the publishing grid
  wait,      \* ticks until the loop's sleep is over
  since,     \* ticks since the last summary, up to SummaryEvery
  passed,    \* history: a grid point was passed since the last publish began
  finished,  \* history: sources that have finished or failed a collection
  unsent,    \* history: sources with a value no publish was offered, or only
             \* publishes before the last one, which failed
  failures,  \* history: Sources -> failures taken in by the log
  told       \* history: Sources -> those warned of or counted in a summary

sourceVars == <<run, spent, left, first, pending, finished>>
logVars == <<reason, repeats, failures, told>>
loopVars == <<pc, phase, wait, since, passed>>
bufferVars == <<fresh, taken, unsent>>
vars == <<sourceVars, opened, logVars, loopVars, bufferVars, stopped>>

Over == pc \in {"exited", "failed"}
AllEnded == \A s \in Sources : run[s] = "ended"

(* The scheduler's context: the signal cancels it, and so does stop().     *)
Cancelled == stopped \/ pc \in {"gone", "failed"}

Init ==
  /\ run = [s \in Sources |-> "collecting"]
  /\ spent = [s \in Sources |-> 0] /\ left = [s \in Sources |-> 0]
  /\ reason = [s \in Sources |-> "none"] /\ repeats = [s \in Sources |-> 0]
  /\ failures = [s \in Sources |-> 0] /\ told = [s \in Sources |-> 0]
  /\ first = Sources /\ pending = Cardinality(Sources) /\ opened = FALSE /\ finished = {}
  /\ fresh = {} /\ taken = {} /\ unsent = {} /\ stopped = FALSE
  /\ pc = "barrier" /\ phase = 0 /\ wait = 0 /\ since = 0 /\ passed = FALSE

-----------------------------------------------------------------------------
(* A source's goroutine.                                                   *)

Down(n) == IF n = 0 THEN 0 ELSE n - 1

(* Mutant: every collection counts for the first round, of whatever source.*)
FirstOverEachTime(s) ==
  /\ first' = first \ {s} /\ pending' = Down(pending)

(* The first collection of a source counts for the first round, once.      *)
FirstOver(s) ==
  IF s \in first THEN first' = first \ {s} /\ pending' = pending - 1
                 ELSE UNCHANGED <<first, pending>>

Asleep(s) ==
  /\ spent[s] < Interval[s]
  /\ run' = [run EXCEPT ![s] = "asleep"]
  /\ left' = [left EXCEPT ![s] = Interval[s] - spent[s]] /\ spent' = [spent EXCEPT ![s] = 0]

(* Mutant: a collection that took its whole interval is always repeated.   *)
RestsNever(s) ==
  \/ Asleep(s)
  \/ /\ spent[s] >= Interval[s]
     /\ run' = [run EXCEPT ![s] = "collecting"]
     /\ spent' = [spent EXCEPT ![s] = 0] /\ UNCHANGED left

(* After a collection: sleep for the rest of the interval; with none left  *)
(* collect again, unless the context is cancelled.                         *)
Rests(s) ==
  \/ Asleep(s)
  \/ /\ spent[s] >= Interval[s] /\ ~Cancelled
     /\ run' = [run EXCEPT ![s] = "collecting"]
     /\ spent' = [spent EXCEPT ![s] = 0] /\ UNCHANGED left
  \/ /\ spent[s] >= Interval[s] /\ Cancelled
     /\ run' = [run EXCEPT ![s] = "ended"]
     /\ spent' = [spent EXCEPT ![s] = 0] /\ UNCHANGED left

(* Mutant: a recovery forgets the repeats not yet reported, too.           *)
LogSuccessForgetting(s) ==
  /\ reason' = [reason EXCEPT ![s] = "none"]
  /\ repeats' = [repeats EXCEPT ![s] = 0]
  /\ UNCHANGED <<failures, told>>

(* failureLog.succeeded. *)
LogSuccess(s) ==
  /\ reason' = [reason EXCEPT ![s] = "none"]
  /\ UNCHANGED <<repeats, failures, told>>

(* failureLog.failed: a warning for a new reason, a count for a repeat.    *)
LogFailure(s, r) ==
  IF failures[s] < MaxFailures[s]
  THEN /\ failures' = [failures EXCEPT ![s] = @ + 1]
       /\ reason' = [reason EXCEPT ![s] = r]
       /\ IF reason[s] # r
          THEN told' = [told EXCEPT ![s] = @ + 1] /\ UNCHANGED repeats
          ELSE repeats' = [repeats EXCEPT ![s] = @ + 1] /\ UNCHANGED told
  ELSE UNCHANGED logVars

(* The provider answered, and one of its observations is added.            *)
Adds(s) ==
  /\ run[s] \in {"collecting", "adding"}
  /\ run' = [run EXCEPT ![s] = "adding"]
  /\ fresh' = fresh \cup {s} /\ unsent' = unsent \cup {s}
  /\ UNCHANGED <<spent, left, first, pending, finished, opened, logVars, loopVars, taken, stopped>>

(* All of them are added, or none was worth keeping.                       *)
Collected(s) ==
  /\ run[s] \in {"collecting", "adding"}
  /\ LogSuccess(s) /\ FirstOver(s) /\ Rests(s)
  /\ finished' = finished \cup {s}
  /\ UNCHANGED <<opened, loopVars, bufferVars, stopped>>

(* Mutant: a failed collection ends its goroutine.                         *)
CollectFailsForGood(s) ==
  /\ run[s] = "collecting"
  /\ \E r \in Reasons : LogFailure(s, r)
  /\ FirstOver(s) /\ run' = [run EXCEPT ![s] = "ended"]
  /\ finished' = finished \cup {s}
  /\ UNCHANGED <<spent, left, opened, loopVars, bufferVars, stopped>>

(* An error, a passed deadline, a cancelled context or a panic. *)
CollectFails(s) ==
  /\ run[s] = "collecting"
  /\ \E r \in Reasons : LogFailure(s, r)
  /\ FirstOver(s) /\ Rests(s)
  /\ finished' = finished \cup {s}
  /\ UNCHANGED <<opened, loopVars, bufferVars, stopped>>

CollectionEnds(s) == Collected(s) \/ CollectFails(s)

(* The timer of the sleep; with the context done as well, Sleep may return *)
(* for either.                                                             *)
Wakes(s) ==
  /\ run[s] = "asleep" /\ left[s] = 0
  /\ run' = [run EXCEPT ![s] = "collecting"]
  /\ UNCHANGED <<spent, left, first, pending, finished, opened, logVars, loopVars, bufferVars, stopped>>

SleepCut(s) ==
  /\ run[s] = "asleep" /\ Cancelled
  /\ run' = [run EXCEPT ![s] = "ended"] /\ left' = [left EXCEPT ![s] = 0]
  /\ UNCHANGED <<spent, first, pending, finished, opened, logVars, loopVars, bufferVars, stopped>>

(* All first collections are over, or Run is: the channel is closed.       *)
OpenFirst ==
  /\ ~opened /\ (pending = 0 \/ AllEnded) /\ opened' = TRUE
  /\ UNCHANGED <<sourceVars, logVars, loopVars, bufferVars, stopped>>

-----------------------------------------------------------------------------
(* The publishing loop.                                                    *)

(* loop.publish takes what is buffered; without anything it is over.       *)
Takes == taken' = fresh /\ fresh' = {} /\ unsent' = unsent \ fresh

Publishes ==
  /\ passed' = FALSE
  /\ IF fresh = {} THEN pc' = "report" /\ UNCHANGED bufferVars
                   ELSE pc' = "publish" /\ Takes

(* Every source has had its first collection: the grid starts here.        *)
FirstRound ==
  /\ pc = "barrier" /\ ~stopped /\ opened
  /\ Publishes /\ phase' = 0 /\ since' = 0
  /\ UNCHANGED <<sourceVars, opened, logVars, wait, stopped>>

Tock ==
  /\ pc = "wait" /\ wait = 0 /\ ~stopped
  /\ Publishes
  /\ UNCHANGED <<sourceVars, opened, logVars, phase, wait, since, stopped>>

PublishOk ==
  /\ pc = "publish" /\ pc' = "report" /\ taken' = {}
  /\ UNCHANGED <<sourceVars, opened, logVars, phase, wait, since, passed, fresh, unsent, stopped>>

(* What failed stays buffered, and waits for another publish. *)
Returns == taken' = {} /\ fresh' = fresh \cup taken /\ unsent' = unsent \cup taken

PublishFails ==
  /\ pc = "publish" /\ pc' = "report" /\ Returns
  /\ UNCHANGED <<sourceVars, opened, logVars, phase, wait, since, passed, stopped>>

(* The host's record is gone: stop the scheduler and end with an error.    *)
PublishGone ==
  /\ pc = "publish" /\ pc' = "gone" /\ Returns
  /\ UNCHANGED <<sourceVars, opened, logVars, phase, wait, since, passed, stopped>>

(* summarize and TakeFailureCounts. *)
Summary ==
  /\ told' = [s \in Sources |-> told[s] + repeats[s]]
  /\ repeats' = [s \in Sources |-> 0]
  /\ since' = 0 /\ UNCHANGED <<reason, failures>>

(* Mutants: the next grid point at or after now; the one after the next.   *)
NextTickAtOrAfter == IF phase = 0 THEN 0 ELSE PublishEvery - phase
NextTickLater == 2 * PublishEvery - phase

(* The time to the next point of the grid. *)
NextTick == PublishEvery - phase

Report ==
  /\ pc = "report" /\ pc' = "wait" /\ wait' = NextTick
  /\ IF SummaryEvery > 0 /\ since = SummaryEvery THEN Summary ELSE UNCHANGED <<logVars, since>>
  /\ UNCHANGED <<sourceVars, opened, phase, passed, bufferVars, stopped>>

(* Seen while it waits, or before the next publish. *)
StopSeen ==
  /\ pc \in {"barrier", "wait"} /\ stopped /\ pc' = "stop" /\ wait' = 0
  /\ UNCHANGED <<sourceVars, opened, logVars, phase, since, passed, bufferVars, stopped>>

(* Mutant: the last publish does not wait for the collections in flight.   *)
FinalPublishAtOnce ==
  /\ pc = "stop" /\ pc' = "final" /\ Takes
  /\ UNCHANGED <<sourceVars, opened, logVars, phase, wait, since, passed, stopped>>

(* stop() returned, every goroutine is over: publish once more.            *)
FinalPublish ==
  /\ pc = "stop" /\ AllEnded /\ pc' = "final" /\ Takes
  /\ UNCHANGED <<sourceVars, opened, logVars, phase, wait, since, passed, stopped>>

(* It went well or not: the unfinished period's summary, and exit.         *)
Exit ==
  /\ pc = "final" /\ pc' = "exited"
  /\ taken' = {} /\ fresh' \in {fresh, fresh \cup taken}
  /\ IF SummaryEvery > 0 THEN Summary ELSE UNCHANGED <<logVars, since>>
  /\ UNCHANGED <<sourceVars, opened, phase, wait, passed, unsent, stopped>>

ExitGone ==
  /\ pc = "gone" /\ AllEnded /\ pc' = "failed"
  /\ UNCHANGED <<sourceVars, opened, logVars, phase, wait, since, passed, bufferVars, stopped>>

Loop ==
  \/ FirstRound \/ Tock \/ PublishOk \/ PublishFails \/ PublishGone \/ Report
  \/ StopSeen \/ FinalPublish \/ Exit \/ ExitGone

-----------------------------------------------------------------------------

StopSignal ==
  /\ ~stopped /\ ~Over /\ stopped' = TRUE
  /\ UNCHANGED <<sourceVars, opened, logVars, loopVars, bufferVars>>

(* Time passes.  The grid and the summary's period exist from the first    *)
(* round to the stop.                                                      *)
Tick ==
  /\ ~Over
  /\ spent' = [s \in Sources |->
       IF run[s] \in {"collecting", "adding"} /\ spent[s] < Interval[s] THEN spent[s] + 1 ELSE spent[s]]
  /\ left' = [s \in Sources |-> Down(left[s])]
  /\ wait' = Down(wait)
  /\ IF pc \in {"publish", "report", "wait"}
     THEN /\ since' = IF since < SummaryEvery THEN since + 1 ELSE since
          /\ phase' = IF phase + 1 = PublishEvery THEN 0 ELSE phase + 1
          /\ passed' = (passed \/ phase + 1 = PublishEvery)
     ELSE UNCHANGED <<since, phase, passed>>
  /\ UNCHANGED <<run, first, pending, finished, opened, logVars, pc, bufferVars, stopped>>

Next ==
  \/ \E s \in Sources : Adds(s) \/ CollectionEnds(s) \/ Wakes(s) \/ SleepCut(s)
  \/ OpenFirst \/ Loop \/ StopSignal \/ Tick

Spec == Init /\ [][Next]_vars

(* Time goes on, timers fire, goroutines are scheduled, the loop's calls   *)
(* end by their deadlines, and providers return.  A select with the timer  *)
(* and the context ready takes either at random, so it does not take the   *)
(* timer for ever.                                                         *)
Fairness ==
  /\ WF_vars(Tick) /\ WF_vars(Loop) /\ WF_vars(OpenFirst)
  /\ \A s \in Sources : WF_vars(CollectionEnds(s)) /\ WF_vars(Wakes(s)) /\ SF_vars(SleepCut(s))

FairSpec == Spec /\ Fairness

-----------------------------------------------------------------------------
(* Properties.                                                             *)

TypeOK ==
  /\ run \in [Sources -> {"collecting", "adding", "asleep", "ended"}]
  /\ spent \in [Sources -> Nat] /\ left \in [Sources -> Nat]
  /\ \A s \in Sources : spent[s] <= Interval[s] /\ left[s] <= Interval[s]
  /\ first \subseteq Sources /\ pending \in Nat /\ opened \in BOOLEAN /\ finished \subseteq Sources
  /\ fresh \subseteq Sources /\ taken \subseteq Sources /\ unsent \subseteq Sources
  /\ reason \in [Sources -> Reasons \cup {"none"}]
  /\ repeats \in [Sources -> Nat] /\ failures \in [Sources -> Nat] /\ told \in [Sources -> Nat]
  /\ stopped \in BOOLEAN /\ passed \in BOOLEAN
  /\ pc \in {"barrier", "publish", "report", "wait", "stop", "final", "gone", "exited", "failed"}
  /\ phase \in 0 .. PublishEvery - 1 /\ wait \in 0 .. PublishEvery /\ since \in 0 .. SummaryEvery

(* 003 FR-014: by the first publish every source has finished or failed a  *)
(* collection, whichever of them came round how often meanwhile, and all   *)
(* that was collected is offered by it (the wait group pending, the        *)
(* goroutines' variable first and the channel of Scheduler.Run).           *)
FirstPublishComplete ==
  [][pc = "barrier" /\ pc' \in {"publish", "report"} =>
       finished = Sources /\ unsent \subseteq taken']_vars

(* 003 FR-009, FR-020: when the daemon has stopped, every value a source   *)
(* added was offered to a publish, and to a later one if that failed, the  *)
(* last one included; so nothing is added behind the last publish.         *)
NothingUnsent == pc = "exited" => unsent = {}

(* 012 FR-018, with summaries on: when the daemon has stopped, every       *)
(* failure was warned of or counted in a summary, whatever recoveries and  *)
(* summaries came between, the collections cut short by the stop included. *)
RepeatsReported ==
  pc = "exited" /\ SummaryEvery > 0 => \A s \in Sources : told[s] = failures[s]

(* 003 FR-014: two publishes never start in the same interval of the grid, *)
(* though the first may end exactly on a grid point, or after several.     *)
OneTickPerSlot == [][pc = "wait" /\ pc' \in {"publish", "report"} => passed]_vars

(* 003 FR-014, FR-020: the daemon gets to publish again and again, failing *)
(* sources and publishes notwithstanding, and a stop brings it to its end. *)
KeepsPublishing == []<>(pc \in {"report", "exited", "failed"})

(* 003 FR-004, FR-010: a source is asked again and again for as long as    *)
(* the daemon runs, whatever of its collections fail, panic or overrun.    *)
KeepsCollecting == \A s \in Sources : []<>(run[s] = "collecting" \/ Cancelled)
=============================================================================
