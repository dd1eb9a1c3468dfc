----------------------------- MODULE DaemonProofs -----------------------------
(***************************************************************************)
(* Theorems about Daemon, for any number of sources, any intervals and any *)
(* number of failures.                                                     *)
(***************************************************************************)
EXTENDS Daemon, FiniteSetTheorems, TLAPS

(* The types, in the parts that an action changes together.                *)
SourceTypeOK ==
  /\ run \in [Sources -> {"collecting", "adding", "asleep", "ended"}]
  /\ spent \in [Sources -> Nat] /\ left \in [Sources -> Nat]
  /\ \A s \in Sources : spent[s] <= Interval[s] /\ left[s] <= Interval[s]

RoundTypeOK == first \subseteq Sources /\ pending \in Nat /\ finished \subseteq Sources

LogTypeOK ==
  /\ reason \in [Sources -> Reasons \cup {"none"}]
  /\ repeats \in [Sources -> Nat] /\ failures \in [Sources -> Nat] /\ told \in [Sources -> Nat]

LoopTypeOK ==
  /\ pc \in {"barrier", "publish", "report", "wait", "stop", "final", "gone", "exited", "failed"}
  /\ phase \in 0 .. PublishEvery - 1 /\ wait \in 0 .. PublishEvery /\ since \in 0 .. SummaryEvery
  /\ passed \in BOOLEAN

ValuesTypeOK ==
  /\ fresh \subseteq Sources /\ taken \subseteq Sources /\ unsent \subseteq Sources
  /\ opened \in BOOLEAN /\ stopped \in BOOLEAN

LEMMA TypeParts ==
  /\ TypeOK <=> SourceTypeOK /\ RoundTypeOK /\ LogTypeOK /\ LoopTypeOK /\ ValuesTypeOK
  /\ TypeOK' <=> SourceTypeOK' /\ RoundTypeOK' /\ LogTypeOK' /\ LoopTypeOK' /\ ValuesTypeOK'
BY DEF TypeOK, SourceTypeOK, RoundTypeOK, LogTypeOK, LoopTypeOK, ValuesTypeOK

(* The wait group counts the sources still in their first collection, and  *)
(* a goroutine that sleeps or has ended is through its own.                *)
RoundInv ==
  /\ first = Sources \ finished /\ pending = Cardinality(first)
  /\ \A s \in Sources : run[s] \in {"asleep", "ended"} => s \in finished
  /\ opened => finished = Sources

(* What no publish was offered is buffered; once the last publish has      *)
(* begun, every goroutine is over and nothing is left of it.               *)
OfferInv ==
  /\ unsent \subseteq fresh
  /\ pc \in {"final", "exited"} => AllEnded /\ unsent = {}

(* Every failure was warned of, was counted in a summary, or waits for the *)
(* next one; after the last summary none waits.                            *)
AllCounted == \A s \in Sources : failures[s] = told[s] + repeats[s]

LogInv ==
  /\ AllCounted
  /\ pc = "exited" /\ SummaryEvery > 0 => \A s \in Sources : repeats[s] = 0

(* The loop's sleep ends on the next grid point, or has ended past it.     *)
GridInv == pc = "wait" => wait = PublishEvery - phase \/ (wait = 0 /\ passed)

LEMMA RestsType ==
  ASSUME TypeOK, NEW s \in Sources, Rests(s)
  PROVE  SourceTypeOK' /\ \A t \in Sources \ {s} : run'[t] = run[t]
<1> USE DEF TypeOK
<1>1. Interval \in [Sources -> Nat \ {0}]
  BY DaemonAssumption
<1>2. CASE spent[s] >= Interval[s] /\ ~Cancelled
  BY <1>1, <1>2 DEF Rests, Asleep, SourceTypeOK
<1>3. CASE spent[s] >= Interval[s] /\ Cancelled
  BY <1>1, <1>3 DEF Rests, Asleep, SourceTypeOK
<1>4. CASE spent[s] < Interval[s]
  BY <1>1, <1>4 DEF Rests, Asleep, SourceTypeOK
<1> QED
  BY <1>1, <1>2, <1>3, <1>4

(* The wait group counts a source down once.                               *)
LEMMA FirstOverCounts ==
  ASSUME RoundTypeOK, RoundInv, NEW s \in Sources, FirstOver(s), finished' = finished \cup {s}
  PROVE  RoundTypeOK' /\ first' = Sources \ finished' /\ pending' = Cardinality(first')
<1>1. IsFiniteSet(first)
  BY DaemonAssumption, FS_Subset DEF RoundTypeOK
<1>2. CASE s \in first
  <2>1. first' = first \ {s} /\ pending' = pending - 1
    BY <1>2 DEF FirstOver
  <2>2. IsFiniteSet(first \ {s}) /\ Cardinality(first \ {s}) = Cardinality(first) - 1
    BY <1>1, <1>2, FS_RemoveElement
  <2>3. Cardinality(first \ {s}) \in Nat
    BY <2>2, FS_CardinalityType
  <2> QED
    BY <2>1, <2>2, <2>3 DEF RoundTypeOK, RoundInv
<1>3. CASE s \notin first
  BY <1>3 DEF FirstOver, RoundTypeOK, RoundInv
<1> QED
  BY <1>2, <1>3

LEMMA LogFailureType ==
  ASSUME TypeOK, AllCounted,
         NEW s \in Sources, NEW r \in Reasons, LogFailure(s, r)
  PROVE  LogTypeOK' /\ AllCounted'
<1> USE DEF TypeOK
<1>1. CASE failures[s] < MaxFailures[s] /\ reason[s] # r
  BY <1>1 DEF LogFailure, LogTypeOK, AllCounted
<1>2. CASE failures[s] < MaxFailures[s] /\ reason[s] = r
  BY <1>2 DEF LogFailure, LogTypeOK, AllCounted
<1>3. CASE ~(failures[s] < MaxFailures[s])
  BY <1>3 DEF LogFailure, LogTypeOK, AllCounted, logVars
<1> QED
  BY <1>1, <1>2, <1>3

LEMMA SummaryType ==
  ASSUME TypeOK, AllCounted, Summary
  PROVE  LogTypeOK' /\ since' \in 0 .. SummaryEvery
         /\ AllCounted' /\ \A t \in Sources : repeats'[t] = 0
<1>1. SummaryEvery \in Nat
  BY DaemonAssumption
<1> QED
  BY <1>1 DEF Summary, LogTypeOK, TypeOK, AllCounted

(* The inductive invariant.                                                *)
IInv == TypeOK /\ RoundInv /\ OfferInv /\ LogInv /\ GridInv

LEMMA Constants ==
  /\ Interval \in [Sources -> Nat \ {0}] /\ PublishEvery \in Nat \ {0} /\ SummaryEvery \in Nat
  /\ IsFiniteSet(Sources)
BY DaemonAssumption

LEMMA InitIInv == Init => IInv
<1> SUFFICES ASSUME Init PROVE IInv
  OBVIOUS
<1>1. SourceTypeOK
  <2> SUFFICES ASSUME NEW s \in Sources PROVE spent[s] <= Interval[s] /\ left[s] <= Interval[s]
    BY DEF Init, SourceTypeOK
  <2>1. spent[s] = 0 /\ left[s] = 0 /\ Interval[s] \in Nat
    BY Constants DEF Init
  <2> QED
    BY <2>1
<1>2. LogTypeOK
  BY DEF Init, LogTypeOK
<1>3. LoopTypeOK
  <2>1. 0 \in 0 .. PublishEvery - 1 /\ 0 \in 0 .. PublishEvery /\ 0 \in 0 .. SummaryEvery
    BY Constants
  <2> QED
    BY <2>1 DEF Init, LoopTypeOK
<1>4. ValuesTypeOK
  BY DEF Init, ValuesTypeOK
<1>5. RoundTypeOK /\ RoundInv
  <2>1. Cardinality(Sources) \in Nat
    BY Constants, FS_CardinalityType
  <2> QED
    BY <2>1 DEF Init, RoundTypeOK, RoundInv
<1>6. AllCounted
  <2> SUFFICES ASSUME NEW s \in Sources PROVE failures[s] = told[s] + repeats[s]
    BY DEF AllCounted
  <2>1. failures[s] = 0 /\ told[s] = 0 /\ repeats[s] = 0
    BY DEF Init
  <2> QED
    BY <2>1
<1>7. pc = "barrier" /\ unsent = {}
  BY DEF Init
<1> QED
  BY <1>1, <1>2, <1>3, <1>4, <1>5, <1>6, <1>7, TypeParts DEF IInv, OfferInv, LogInv, GridInv

(* A step of one source's goroutine, which has not ended: what it adds is  *)
(* offered to no publish yet, and buffered.                                *)
SourceStep(s) ==
  /\ run[s] # "ended" /\ UNCHANGED <<opened, loopVars, taken, stopped>>
  /\ unsent' \subseteq fresh' /\ fresh' \subseteq Sources

LEMMA SourceStepKeeps ==
  ASSUME IInv, NEW s \in Sources, SourceStep(s),
         SourceTypeOK', RoundTypeOK', RoundInv', LogTypeOK', AllCounted'
  PROVE  IInv'
<1>1. TypeOK'
  <2>1. LoopTypeOK /\ ValuesTypeOK
    BY TypeParts DEF IInv
  <2>2. LoopTypeOK'
    BY <2>1 DEF SourceStep, LoopTypeOK, loopVars
  <2>3. ValuesTypeOK'
    BY <2>1 DEF SourceStep, ValuesTypeOK
  <2> QED
    BY <2>2, <2>3, TypeParts
<1>2. pc' = pc /\ phase' = phase /\ wait' = wait /\ passed' = passed
  BY DEF SourceStep, loopVars
<1>3. pc \notin {"final", "exited"}
  BY DEF IInv, OfferInv, AllEnded, SourceStep
<1> QED
  BY <1>1, <1>2, <1>3 DEF IInv, OfferInv, LogInv, GridInv, SourceStep

(* A collection that is over has been counted, and its goroutine ends, if  *)
(* it does, as one that has finished.                                      *)
LEMMA EndedIsFinished ==
  ASSUME IInv, NEW s \in Sources, FirstOver(s), Rests(s), finished' = finished \cup {s},
         opened' = opened
  PROVE  RoundTypeOK' /\ RoundInv'
<1>1. RoundTypeOK /\ RoundInv /\ TypeOK
  BY TypeParts DEF IInv
<1>2. RoundTypeOK' /\ first' = Sources \ finished' /\ pending' = Cardinality(first')
  BY <1>1, FirstOverCounts
<1>3. \A t \in Sources : run'[t] \in {"asleep", "ended"} => t \in finished'
  BY <1>1, RestsType DEF RoundInv
<1>4. opened' => finished' = Sources
  BY <1>1 DEF RoundInv
<1> QED
  BY <1>2, <1>3, <1>4 DEF RoundInv

LEMMA SourcesKeep ==
  ASSUME IInv, NEW s \in Sources, Adds(s) \/ CollectionEnds(s) \/ Wakes(s) \/ SleepCut(s)
  PROVE  IInv'
<1>1. /\ TypeOK /\ AllCounted /\ SourceTypeOK /\ RoundTypeOK /\ LogTypeOK /\ ValuesTypeOK
      /\ RoundInv /\ unsent \subseteq fresh
  BY TypeParts DEF IInv, LogInv, OfferInv
<1>2. CASE Adds(s)
  <2>1. /\ UNCHANGED <<spent, left, first, pending, finished, opened, logVars>>
        /\ \A t \in Sources : run'[t] \in {"asleep", "ended"} => run[t] = run'[t]
    BY <1>1, <1>2 DEF Adds, SourceTypeOK
  <2>2. SourceStep(s)
    BY <1>1, <1>2 DEF Adds, SourceStep, ValuesTypeOK
  <2>3. SourceTypeOK'
    BY <1>1, <1>2 DEF Adds, SourceTypeOK
  <2>4. RoundTypeOK' /\ RoundInv'
    BY <1>1, <2>1 DEF RoundTypeOK, RoundInv
  <2>5. LogTypeOK' /\ AllCounted'
    BY <1>1, <2>1 DEF LogTypeOK, AllCounted, logVars
  <2> QED
    BY <2>2, <2>3, <2>4, <2>5, SourceStepKeeps
<1>3. CASE Collected(s)
  <2>1. SourceStep(s) /\ SourceTypeOK'
    BY <1>1, <1>3, RestsType DEF Collected, SourceStep, bufferVars, ValuesTypeOK
  <2>2. RoundTypeOK' /\ RoundInv'
    BY <1>3, EndedIsFinished DEF Collected
  <2>3. LogTypeOK' /\ UNCHANGED <<repeats, failures, told>>
    BY <1>1, <1>3 DEF Collected, LogSuccess, LogTypeOK
  <2>4. AllCounted'
    BY <1>1, <2>3 DEF AllCounted
  <2> QED
    BY <2>1, <2>2, <2>3, <2>4, SourceStepKeeps
<1>4. CASE CollectFails(s)
  <2>1. SourceStep(s) /\ SourceTypeOK'
    BY <1>1, <1>4, RestsType DEF CollectFails, SourceStep, bufferVars, ValuesTypeOK
  <2>2. RoundTypeOK' /\ RoundInv'
    BY <1>4, EndedIsFinished DEF CollectFails
  <2>3. LogTypeOK' /\ AllCounted'
    BY <1>1, <1>4, LogFailureType DEF CollectFails
  <2> QED
    BY <2>1, <2>2, <2>3, SourceStepKeeps
<1>5. CASE Wakes(s) \/ SleepCut(s)
  <2>1. /\ UNCHANGED <<first, pending, finished, opened, logVars, bufferVars>>
        /\ run[s] = "asleep" /\ \A t \in Sources \ {s} : run'[t] = run[t]
    BY <1>1, <1>5 DEF Wakes, SleepCut, SourceTypeOK
  <2>2. SourceTypeOK'
    <3>1. Interval[s] \in Nat
      BY Constants
    <3> QED
      BY <1>1, <1>5, <3>1 DEF Wakes, SleepCut, SourceTypeOK
  <2>3. SourceStep(s)
    BY <1>1, <1>5, <2>1 DEF Wakes, SleepCut, SourceStep, bufferVars, ValuesTypeOK
  <2>4. s \in finished
    BY <1>1, <2>1 DEF RoundInv
  <2>5. RoundTypeOK' /\ RoundInv'
    BY <1>1, <2>1, <2>4 DEF RoundTypeOK, RoundInv
  <2>6. LogTypeOK' /\ AllCounted'
    BY <1>1, <2>1 DEF LogTypeOK, AllCounted, logVars
  <2> QED
    BY <2>2, <2>3, <2>5, <2>6, SourceStepKeeps
<1> QED
  BY <1>2, <1>3, <1>4, <1>5 DEF CollectionEnds

LEMMA OpenFirstKeeps == ASSUME IInv, OpenFirst PROVE IInv'
<1>1. TypeOK /\ RoundInv /\ RoundTypeOK
  BY TypeParts DEF IInv
<1>2. finished = Sources
  <2>1. CASE pending = 0
    <3>1. IsFiniteSet(first)
      BY <1>1, Constants, FS_Subset DEF RoundTypeOK
    <3>2. first = {}
      BY <1>1, <2>1, <3>1, FS_EmptySet DEF RoundInv
    <3> QED
      BY <1>1, <3>2 DEF RoundInv, RoundTypeOK
  <2>2. CASE AllEnded
    BY <1>1, <2>2 DEF AllEnded, RoundInv, RoundTypeOK
  <2> QED
    BY <2>1, <2>2 DEF OpenFirst
<1>3. UNCHANGED <<sourceVars, logVars, loopVars, bufferVars, stopped>> /\ opened' = TRUE
  BY DEF OpenFirst
<1>4. TypeOK'
  BY <1>1, <1>3 DEF TypeOK, sourceVars, logVars, loopVars, bufferVars
<1> QED
  BY <1>2, <1>3, <1>4 DEF IInv, RoundInv, OfferInv, AllEnded, LogInv, AllCounted, GridInv,
                          sourceVars, logVars, loopVars, bufferVars

(* A step of the loop that leaves the sources and the failure log alone,   *)
(* and does not claim more than it may.                                    *)
LEMMA LoopStepKeeps ==
  ASSUME IInv, UNCHANGED <<sourceVars, opened, logVars>>, LoopTypeOK', ValuesTypeOK',
         OfferInv', GridInv', pc' # "exited"
  PROVE  IInv'
<1>1. SourceTypeOK /\ RoundTypeOK /\ LogTypeOK /\ AllCounted /\ RoundInv
  BY TypeParts DEF IInv, LogInv
<1>2. SourceTypeOK' /\ RoundTypeOK' /\ LogTypeOK' /\ AllCounted' /\ RoundInv'
  BY <1>1 DEF SourceTypeOK, RoundTypeOK, LogTypeOK, AllCounted, RoundInv, sourceVars, logVars
<1> QED
  BY <1>2, TypeParts DEF IInv, LogInv

LEMMA LoopKeeps == ASSUME IInv, Loop PROVE IInv'
<1>1. LoopTypeOK /\ ValuesTypeOK /\ SourceTypeOK /\ RoundTypeOK /\ RoundInv /\ AllCounted
  BY TypeParts DEF IInv, LogInv
<1>2. NextTick \in 0 .. PublishEvery /\ 0 \in 0 .. PublishEvery - 1 /\ 0 \in 0 .. SummaryEvery
      /\ 0 \in 0 .. PublishEvery
  BY <1>1, Constants DEF LoopTypeOK, NextTick
<1>3. unsent \subseteq fresh
  BY DEF IInv, OfferInv
<1>4. CASE FirstRound \/ Tock
  <2>1. pc' \in {"publish", "report"} /\ unsent' \subseteq fresh'
    BY <1>3, <1>4 DEF FirstRound, Tock, Publishes, Takes, bufferVars
  <2>2. LoopTypeOK' /\ ValuesTypeOK'
    BY <1>1, <1>2, <1>4 DEF FirstRound, Tock, Publishes, Takes, bufferVars, LoopTypeOK, ValuesTypeOK
  <2>3. UNCHANGED <<sourceVars, opened, logVars>>
    BY <1>4 DEF FirstRound, Tock
  <2> QED
    BY <2>1, <2>2, <2>3, LoopStepKeeps DEF OfferInv, GridInv
<1>5. CASE PublishOk \/ PublishFails \/ PublishGone
  <2>1. pc' \in {"report", "gone"} /\ unsent' \subseteq fresh'
    BY <1>3, <1>5 DEF PublishOk, PublishFails, PublishGone, Returns
  <2>2. LoopTypeOK' /\ ValuesTypeOK'
    BY <1>1, <1>5 DEF PublishOk, PublishFails, PublishGone, Returns, LoopTypeOK, ValuesTypeOK
  <2>3. UNCHANGED <<sourceVars, opened, logVars>>
    BY <1>5 DEF PublishOk, PublishFails, PublishGone
  <2> QED
    BY <2>1, <2>2, <2>3, LoopStepKeeps DEF OfferInv, GridInv
<1>6. CASE StopSeen \/ FinalPublish \/ ExitGone
  <2>1. UNCHANGED <<sourceVars, opened, logVars>> /\ pc' \in {"stop", "final", "failed"}
    BY <1>6 DEF StopSeen, FinalPublish, ExitGone
  <2>2. LoopTypeOK' /\ ValuesTypeOK'
    BY <1>1, <1>2, <1>6 DEF StopSeen, FinalPublish, ExitGone, Takes, bufferVars, LoopTypeOK, ValuesTypeOK
  <2>3. unsent' \subseteq fresh' /\ (pc' = "final" => AllEnded' /\ unsent' = {})
    BY <1>3, <1>6 DEF StopSeen, FinalPublish, ExitGone, Takes, bufferVars, AllEnded, sourceVars
  <2> QED
    BY <2>1, <2>2, <2>3, LoopStepKeeps DEF OfferInv, GridInv
<1>7. CASE Report
  <2>1. /\ pc = "report" /\ pc' = "wait" /\ wait' = PublishEvery - phase
        /\ UNCHANGED <<sourceVars, opened, phase, passed, bufferVars, stopped>>
    BY <1>7 DEF Report, NextTick
  <2>2. LogTypeOK' /\ AllCounted' /\ since' \in 0 .. SummaryEvery
    <3>1. CASE Summary
      BY <1>1, <3>1, SummaryType DEF IInv
    <3>2. CASE UNCHANGED <<logVars, since>>
      BY <1>1, <3>2, TypeParts DEF IInv, LogTypeOK, LoopTypeOK, AllCounted, logVars
    <3> QED
      BY <1>7, <3>1, <3>2 DEF Report
  <2>3. LoopTypeOK' /\ ValuesTypeOK'
    BY <1>1, <1>2, <2>1, <2>2 DEF LoopTypeOK, ValuesTypeOK, bufferVars, NextTick
  <2>4. SourceTypeOK' /\ RoundTypeOK' /\ RoundInv'
    BY <1>1, <2>1 DEF SourceTypeOK, RoundTypeOK, RoundInv, sourceVars
  <2>5. OfferInv' /\ GridInv'
    BY <1>3, <2>1 DEF OfferInv, GridInv, bufferVars
  <2> QED
    BY <2>1, <2>2, <2>3, <2>4, <2>5, TypeParts DEF IInv, LogInv
<1>8. CASE Exit
  <2>1. /\ pc = "final" /\ pc' = "exited"
        /\ UNCHANGED <<sourceVars, opened, phase, wait, passed, unsent, stopped>>
        /\ taken' = {} /\ fresh' \in {fresh, fresh \cup taken}
    BY <1>8 DEF Exit
  <2>2. /\ LogTypeOK' /\ AllCounted' /\ since' \in 0 .. SummaryEvery
        /\ SummaryEvery > 0 => \A s \in Sources : repeats'[s] = 0
    <3>1. CASE Summary
      BY <1>1, <3>1, SummaryType DEF IInv
    <3>2. CASE ~(SummaryEvery > 0) /\ UNCHANGED <<logVars, since>>
      BY <1>1, <3>2, TypeParts DEF IInv, LogTypeOK, LoopTypeOK, AllCounted, logVars
    <3> QED
      BY <1>8, <3>1, <3>2 DEF Exit
  <2>3. LoopTypeOK' /\ ValuesTypeOK'
    BY <1>1, <2>1, <2>2 DEF LoopTypeOK, ValuesTypeOK
  <2>4. SourceTypeOK' /\ RoundTypeOK' /\ RoundInv'
    BY <1>1, <2>1 DEF SourceTypeOK, RoundTypeOK, RoundInv, sourceVars
  <2>5. OfferInv' /\ GridInv'
    BY <1>3, <2>1 DEF IInv, OfferInv, AllEnded, GridInv, sourceVars
  <2> QED
    BY <2>1, <2>2, <2>3, <2>4, <2>5, TypeParts DEF IInv, LogInv
<1> QED
  BY <1>4, <1>5, <1>6, <1>7, <1>8 DEF Loop

LEMMA TickKeeps == ASSUME IInv, Tick PROVE IInv'
<1>1. /\ SourceTypeOK /\ RoundTypeOK /\ LogTypeOK /\ LoopTypeOK /\ ValuesTypeOK
      /\ RoundInv /\ AllCounted
  BY TypeParts DEF IInv, LogInv
<1>2. SourceTypeOK'
  <2>1. Interval \in [Sources -> Nat \ {0}] /\ \A n \in Nat : Down(n) \in Nat /\ Down(n) <= n
    BY Constants DEF Down
  <2>2. \A s \in Sources : left'[s] \in Nat /\ left'[s] <= Interval[s]
    <3> SUFFICES ASSUME NEW s \in Sources PROVE left'[s] \in Nat /\ left'[s] <= Interval[s]
      OBVIOUS
    <3>1. left[s] \in Nat /\ left[s] <= Interval[s] /\ Interval[s] \in Nat /\ left'[s] = Down(left[s])
      BY <1>1, <2>1 DEF Tick, SourceTypeOK
    <3> QED
      BY <2>1, <3>1
  <2>3. \A s \in Sources : spent'[s] \in Nat /\ spent'[s] <= Interval[s]
    <3> SUFFICES ASSUME NEW s \in Sources PROVE spent'[s] \in Nat /\ spent'[s] <= Interval[s]
      OBVIOUS
    <3>1. spent[s] \in Nat /\ spent[s] <= Interval[s] /\ Interval[s] \in Nat
      BY <1>1, <2>1 DEF SourceTypeOK
    <3> QED
      BY <3>1 DEF Tick
  <2> QED
    BY <1>1, <2>2, <2>3 DEF Tick, SourceTypeOK
<1>3. /\ phase \in Nat /\ phase + 1 <= PublishEvery /\ PublishEvery \in Nat /\ SummaryEvery \in Nat
      /\ wait \in Nat /\ wait <= PublishEvery /\ since \in Nat /\ since <= SummaryEvery
  BY <1>1, Constants DEF LoopTypeOK
<1>4. /\ UNCHANGED <<run, first, pending, finished, opened, logVars, pc, bufferVars, stopped>>
      /\ wait' = (IF wait = 0 THEN 0 ELSE wait - 1) /\ pc # "exited"
  BY DEF Tick, Down, Over
<1>5. /\ phase' \in 0 .. PublishEvery - 1 /\ wait' \in 0 .. PublishEvery
      /\ since' \in 0 .. SummaryEvery /\ passed' \in BOOLEAN
  <2>1. CASE pc \in {"publish", "report", "wait"}
    <3>1. /\ since' = (IF since < SummaryEvery THEN since + 1 ELSE since)
          /\ phase' = (IF phase + 1 = PublishEvery THEN 0 ELSE phase + 1)
      BY <2>1 DEF Tick
    <3>2. passed' \in BOOLEAN
      BY <2>1 DEF Tick
    <3> QED
      BY <1>3, <1>4, <3>1, <3>2
  <2>2. CASE pc \notin {"publish", "report", "wait"}
    <3>1. UNCHANGED <<since, phase, passed>>
      BY <2>2 DEF Tick
    <3> QED
      BY <1>1, <1>3, <1>4, <3>1 DEF LoopTypeOK
  <2> QED
    BY <2>1, <2>2
<1>6. LogTypeOK' /\ LoopTypeOK' /\ ValuesTypeOK' /\ RoundTypeOK' /\ RoundInv'
  BY <1>1, <1>4, <1>5 DEF LogTypeOK, LoopTypeOK, ValuesTypeOK, RoundTypeOK, RoundInv, logVars, bufferVars
<1>7. GridInv'
  <2> SUFFICES ASSUME pc = "wait"
               PROVE  wait' = PublishEvery - phase' \/ (wait' = 0 /\ passed')
    BY <1>4 DEF GridInv
  <2>1. /\ phase' = (IF phase + 1 = PublishEvery THEN 0 ELSE phase + 1)
        /\ (passed => passed') /\ (phase + 1 = PublishEvery => passed')
    BY DEF Tick
  <2>2. wait = PublishEvery - phase \/ (wait = 0 /\ passed)
    BY DEF IInv, GridInv
  <2>3. CASE wait = PublishEvery - phase /\ phase + 1 = PublishEvery
    BY <1>3, <1>4, <2>1, <2>3
  <2>4. CASE wait = PublishEvery - phase /\ phase + 1 # PublishEvery
    BY <1>3, <1>4, <2>1, <2>4
  <2>5. CASE wait = 0 /\ passed
    BY <1>4, <2>1, <2>5
  <2> QED
    BY <2>2, <2>3, <2>4, <2>5
<1>8. OfferInv' /\ LogInv'
  BY <1>1, <1>4 DEF IInv, OfferInv, AllEnded, LogInv, AllCounted, logVars, bufferVars
<1> QED
  BY <1>2, <1>6, <1>7, <1>8, TypeParts DEF IInv

LEMMA StepIInv == IInv /\ [Next]_vars => IInv'
<1> SUFFICES ASSUME IInv, [Next]_vars PROVE IInv'
  OBVIOUS
<1>1. CASE StopSignal \/ UNCHANGED vars
  <2>1. UNCHANGED <<sourceVars, opened, logVars, loopVars, bufferVars>> /\ stopped' \in {TRUE, stopped}
    BY <1>1 DEF StopSignal, vars
  <2>2. TypeOK'
    <3>1. stopped' \in BOOLEAN
      BY <2>1 DEF IInv, TypeOK
    <3> QED
      BY <2>1, <3>1 DEF IInv, TypeOK, sourceVars, logVars, loopVars, bufferVars
  <2> QED
    BY <2>1, <2>2 DEF IInv, RoundInv, OfferInv, AllEnded, LogInv, AllCounted, GridInv,
                      sourceVars, logVars, loopVars, bufferVars
<1> QED
  BY <1>1, SourcesKeep, OpenFirstKeeps, LoopKeeps, TickKeeps DEF Next

LEMMA Invariant == Spec => []IInv
BY InitIInv, StepIInv, PTL DEF Spec

-----------------------------------------------------------------------------

(* The types of the daemon's timers, its failure log and its loop.         *)
THEOREM TypeCorrect == Spec => []TypeOK
<1>1. IInv => TypeOK
  BY DEF IInv
<1> QED
  BY <1>1, Invariant, PTL

(* The first publish comes after a collection of every source has finished *)
(* or failed, a source that comes round twice counting once, and offers    *)
(* all that was added (Scheduler.Run's wait group and loop.daemon).        *)
THEOREM FirstPublishHasAll == Spec => FirstPublishComplete
<1>1. IInv /\ [Next]_vars =>
        [pc = "barrier" /\ pc' \in {"publish", "report"} =>
           finished = Sources /\ unsent \subseteq taken']_vars
  <2> SUFFICES ASSUME IInv, Next, pc = "barrier", pc' \in {"publish", "report"}
               PROVE  finished = Sources /\ unsent \subseteq taken'
    OBVIOUS
  <2>1. FirstRound
    BY DEF Next, Adds, CollectionEnds, Collected, CollectFails, Wakes, SleepCut, OpenFirst, loopVars,
           Loop, Tock, PublishOk, PublishFails, PublishGone, Report, StopSeen, FinalPublish, Exit,
           ExitGone, StopSignal, Tick
  <2>2. finished = Sources /\ unsent \subseteq fresh
    BY <2>1 DEF FirstRound, IInv, RoundInv, OfferInv
  <2> QED
    BY <2>1, <2>2 DEF FirstRound, Publishes, Takes, bufferVars
<1> QED
  BY <1>1, Invariant, PTL DEF Spec, FirstPublishComplete

(* When the daemon has stopped, every value a source added was offered to  *)
(* a publish, and to a later one, the last included, if that failed: the   *)
(* stop waits for the goroutines before it publishes for the last time     *)
(* (loop.daemon).                                                          *)
THEOREM NothingLeftUnsent == Spec => []NothingUnsent
<1>1. IInv => NothingUnsent
  BY DEF IInv, OfferInv, NothingUnsent
<1> QED
  BY <1>1, Invariant, PTL

(* The failure log and the summaries leave no failure unsaid when the      *)
(* daemon has stopped (failureLog, summarize).                             *)
THEOREM FailuresReported == Spec => []RepeatsReported
<1>1. IInv => RepeatsReported
  <2> SUFFICES ASSUME IInv, pc = "exited" /\ SummaryEvery > 0, NEW s \in Sources
               PROVE  told[s] = failures[s]
    BY DEF RepeatsReported
  <2>1. told[s] \in Nat /\ failures[s] = told[s] + repeats[s] /\ repeats[s] = 0
    BY DEF IInv, TypeOK, LogInv, AllCounted
  <2> QED
    BY <2>1
<1> QED
  BY <1>1, Invariant, PTL

(* Two publishes never start in the same interval of the grid (the         *)
(* arithmetic of loop.daemon).                                             *)
THEOREM PublishesApart == Spec => OneTickPerSlot
<1>1. IInv /\ [Next]_vars => [pc = "wait" /\ pc' \in {"publish", "report"} => passed]_vars
  <2> SUFFICES ASSUME IInv, Next, pc = "wait", pc' \in {"publish", "report"} PROVE passed
    OBVIOUS
  <2>1. Tock
    BY DEF Next, Adds, CollectionEnds, Collected, CollectFails, Wakes, SleepCut, OpenFirst, loopVars,
           Loop, FirstRound, PublishOk, PublishFails, PublishGone, Report, StopSeen, FinalPublish,
           Exit, ExitGone, StopSignal, Tick
  <2>2. wait = 0 /\ phase \in 0 .. PublishEvery - 1
    BY <2>1 DEF Tock, IInv, TypeOK
  <2> QED
    BY <2>2, Constants DEF IInv, GridInv
<1> QED
  BY <1>1, Invariant, PTL DEF Spec, OneTickPerSlot
=============================================================================
