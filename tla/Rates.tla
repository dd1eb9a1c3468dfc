------------------------------- MODULE Rates -------------------------------
(***************************************************************************)
(* The modules that publish differences of the operating system's          *)
(* cumulative counters: cpu (cpu.go, usage.go), disk (io.go) and network   *)
(* (iface.go, stack.go).  They share nothing, so a behaviour is about one  *)
(* of them.  Around its collections counters advance, start again from     *)
(* less, and devices come and go, also while the first collection pauses   *)
(* between its two readings.                                               *)
(*                                                                         *)
(* Counters of one form stand for each other: ops for the disks' four      *)
(* sums, bytes and errors for the eight of the interfaces, user for all    *)
(* fields of the CPU time that are not idle.                               *)
(***************************************************************************)
EXTENDS Integers, FiniteSets, FiniteSetsExt, Functions

CONSTANTS
  Modules,     \* those of "cpu", "disk", "network" to look at
  Names,       \* names of disks and interfaces
  Installed,   \* sets of names in use at the start
  Stacked,     \* those that count what others beneath them count too
  Lifetimes,   \* what the counters of a device that is new may show
  None,        \* no reading
  MaxWork,     \* bound of the model: advances of counters
  MaxTime,     \* bound of the model: the clock
  MaxMishaps   \* bound of the model: module -> what else happens to the counters

ASSUME RatesAssumption ==
  /\ Modules \subseteq {"cpu", "disk", "network"}
  /\ IsFiniteSet(Names) /\ "host" \notin Names /\ Stacked \subseteq Names
  /\ Installed \subseteq SUBSET Names
  /\ Lifetimes \subseteq Nat /\ {MaxWork, MaxTime} \subseteq Nat
  /\ MaxMishaps \in [Modules -> Nat]

VARIABLES
  module,    \* the module of this behaviour
  now,       \* the clock
  attached,  \* the names in use
  veterans,  \* history: the names ever in use
  counters,  \* area -> device -> field -> what the system shows
  done,      \* history: the same, what was really done
  last,      \* the module's baseline: a reading, or None
  first,     \* the first reading of a priming pair, or None
  values,    \* what the collection that ended in the last step publishes
  seen,      \* history: area -> devices of the latest reading, {} if the area failed
  calm,      \* history: areas undisturbed since they were last read
  passed,    \* history: time has passed since the latest reading
  mishaps    \* the mishaps so far

hostVars == <<now, attached, veterans, counters, done, mishaps>>
moduleVars == <<last, first, values>>
vars == <<module, hostVars, moduleVars, seen, calm, passed>>

-----------------------------------------------------------------------------
(* What is read, and what is made of two readings.                         *)

Areas ==
  CASE module = "cpu" -> {"times"}
    [] module = "disk" -> {"io"}
    [] module = "network" -> {"ifaces", "stack", "listen"}

(* What fails at a time: none, one or all. *)
Outages == {{}, Areas} \cup {{a} : a \in Areas}

(* Areas with a device per name; the others are the host's own. *)
Many == {"io", "ifaces"}
Devices(area) == IF area \in Many THEN attached ELSE {"host"}
All(area) == IF area \in Many THEN Names ELSE {"host"}

Fields(area) ==
  CASE area = "times" -> {"user", "idle"} [] area = "io" -> {"ops", "busy"}
    [] area = "ifaces" -> {"bytes", "errors"}
    [] area = "stack" -> {"out", "retrans", "resets"} [] area = "listen" -> {"drops"}

(* The published values: how each follows from the increase of its fields. *)
Key(area, how, part, whole) == [area |-> area, how |-> how, part |-> part, whole |-> whole]

Keys ==
  CASE module = "cpu" -> {Key("times", "share", {"user"}, {"user", "idle"})}
    [] module = "disk" -> {Key("io", "sum", {"ops"}, {"ops"}), Key("io", "max", {"busy"}, {"busy"})}
    [] module = "network" ->
         {Key("ifaces", "sum", {f}, {f}) : f \in Fields("ifaces")}
         \cup {Key("stack", "share", {"retrans"}, {"out", "retrans"}),
               Key("stack", "sum", {"resets"}, {"resets"}), Key("listen", "sum", {"drops"}, {"drops"})}

(* The devices that do work of their own. *)
Physical(area) == IF area \in Many THEN Devices(area) \ Stacked ELSE Devices(area)

(* Whole disks and physical interfaces: what no other device counts too. *)
Counted(area) == Physical(area)

(* One reading at one instant; an area that could not be read has none.    *)
(* What was really done goes with it for the properties.                   *)
Reading(failing) ==
  [at |-> now, truth |-> done,
   of |-> [area \in Areas |->
             IF area \in failing THEN None ELSE [d \in Counted(area) |-> counters[area][d]]]]

(* Mutant: a device the baseline lacks counts from nothing. *)
CommonOrNew(prev, cur) == DOMAIN cur

(* The devices present in both readings of an area. *)
Common(prev, cur) == DOMAIN cur \cap DOMAIN prev

Was(prev, d, f) == IF d \in DOMAIN prev THEN prev[d][f] ELSE 0

Backwards(prev, cur, fields) ==
  \E d \in Common(prev, cur), f \in fields : cur[d][f] < Was(prev, d, f)

Increase(prev, cur, d, f) == cur[d][f] - Was(prev, d, f)

(* The fields' increase over all devices, or the greatest of one device.   *)
Total(prev, cur, devs, fields) ==
  SumFunction([p \in devs \X fields |-> Increase(prev, cur, p[1], p[2])])
Busiest(prev, cur, devs, fields) ==
  Max({Increase(prev, cur, d, f) : d \in devs, f \in fields})

Amount(how, prev, cur, devs, fields) ==
  IF how = "max" THEN Busiest(prev, cur, devs, fields) ELSE Total(prev, cur, devs, fields)

(* The two readings have the area, and a device in common. *)
Comparable(k, prev, cur) ==
  /\ prev.of[k.area] # None /\ cur.of[k.area] # None
  /\ Common(prev.of[k.area], cur.of[k.area]) # {}

Value(k, prev, cur) ==
  LET p == prev.of[k.area]  c == cur.of[k.area] IN
  [key |-> k, part |-> Amount(k.how, p, c, Common(p, c), k.part),
   whole |-> Amount(k.how, p, c, Common(p, c), k.whole)]

(* A rate needs time to have passed, and a share that its whole increased; *)
(* the CPU's share needs no clock.                                         *)
Published(prev, cur) ==
  {Value(k, prev, cur) : k \in
    {q \in Keys :
       /\ Comparable(q, prev, cur)
       /\ ~Backwards(prev.of[q.area], cur.of[q.area], q.whole)
       /\ module = "cpu" \/ cur.at > prev.at
       /\ q.how = "share" => Value(q, prev, cur).whole > 0}}

-----------------------------------------------------------------------------
(* Collections.                                                            *)

(* One area is everything a cpu or disk reading consists of, and without   *)
(* it there is no reading; the network's areas fail one by one.            *)
Fails(failing) == module \in {"cpu", "disk"} /\ failing # {}

(* The history of a reading. *)
Noted(failing) ==
  /\ seen' = [area \in Areas |-> IF area \in failing THEN {} ELSE Physical(area)]
  /\ calm' = calm \cup (Areas \ failing)
  /\ passed' = FALSE

(* A failed reading leaves the baseline untouched. *)
ReadFails ==
  /\ first = None /\ Fails(Areas)
  /\ values' = {}
  /\ UNCHANGED <<module, hostVars, last, first, seen, calm, passed>>

(* With a baseline, one reading is compared with it and replaces it. *)
Collect ==
  \E failing \in Outages :
    /\ first = None /\ last # None /\ ~Fails(failing)
    /\ last' = Reading(failing)
    /\ values' = Published(last, last') /\ Noted(failing)
    /\ UNCHANGED <<module, hostVars, first>>

(* Without one, and a deadline too short for the pause, the reading is the *)
(* baseline of the next collection...                                      *)
CollectUnprimed ==
  \E failing \in Outages :
    /\ first = None /\ last = None /\ ~Fails(failing)
    /\ last' = Reading(failing) /\ values' = {} /\ Noted(failing)
    /\ UNCHANGED <<module, hostVars, first>>

(* ...or the collection pauses. *)
Prime ==
  \E failing \in Outages :
    /\ first = None /\ last = None /\ ~Fails(failing)
    /\ first' = Reading(failing) /\ values' = None /\ Noted(failing)
    /\ UNCHANGED <<module, hostVars, last>>

(* Mutant: a pause that is cut short leaves no baseline. *)
PauseCutForgetting ==
  /\ first # None /\ first' = None /\ values' = {}
  /\ UNCHANGED <<module, hostVars, last, seen, calm, passed>>

(* The pause is cut short: what was read is the baseline. *)
PauseCut ==
  /\ first # None /\ last' = first /\ first' = None /\ values' = {}
  /\ UNCHANGED <<module, hostVars, seen, calm, passed>>

(* After it a second reading makes the pair. *)
ReadAgain ==
  \E failing \in Outages :
    /\ first # None /\ ~Fails(failing)
    /\ last' = Reading(failing) /\ first' = None
    /\ values' = Published(first, last') /\ Noted(failing)
    /\ UNCHANGED <<module, hostVars>>

ReadAgainFails ==
  /\ first # None /\ Fails(Areas)
  /\ last' = first /\ first' = None /\ values' = {}
  /\ UNCHANGED <<module, hostVars, seen, calm, passed>>

-----------------------------------------------------------------------------
(* The host.                                                               *)

(* The next step is not the end of a collection. *)
Elsewhere == values' = None /\ UNCHANGED <<module, last, first, seen>>

(* Work that a device does; what is stacked on it counts it again. *)
Work ==
  \E area \in Areas : \E d \in Physical(area), f \in Fields(area) :
    /\ MapThenSumSet(LAMBDA t : done[t[1]][t[2]][t[3]],
         UNION {{a} \X All(a) \X Fields(a) : a \in Areas}) < MaxWork
    /\ done' = [done EXCEPT ![area][d][f] = @ + 1]
    /\ counters' = [counters EXCEPT ![area] = [e \in Devices(area) |->
         IF e = d \/ (area \in Many /\ e \in Stacked)
         THEN [counters[area][e] EXCEPT ![f] = @ + 1] ELSE counters[area][e]]]
    /\ Elsewhere /\ UNCHANGED <<now, attached, veterans, mishaps, calm, passed>>

Mishap == mishaps < MaxMishaps[module] /\ mishaps' = mishaps + 1

(* A counter starts again: after a suspension, in a container, by a driver. *)
Restarts ==
  \E area \in Areas : \E d \in Devices(area), f \in Fields(area) : \E v \in 0 .. MaxWork :
    /\ Mishap /\ v < counters[area][d][f]
    /\ counters' = [counters EXCEPT ![area][d][f] = v]
    /\ calm' = calm \ {area}
    /\ Elsewhere /\ UNCHANGED <<now, attached, veterans, done, passed>>

(* A device goes... *)
Detach(d) ==
  /\ Mishap /\ d \in attached /\ attached' = attached \ {d}
  /\ counters' = [area \in Areas |->
       IF area \in Many THEN [e \in attached' |-> counters[area][e]] ELSE counters[area]]
  /\ Elsewhere /\ UNCHANGED <<now, veterans, done, calm, passed>>

(* ...and comes: one that is back counts from zero, a new one from where   *)
(* its life has brought it.                                                *)
Attach(d) ==
  /\ Mishap /\ d \notin attached
  /\ attached' = attached \cup {d} /\ veterans' = veterans \cup {d}
  /\ \E start \in IF d \in veterans THEN {0} ELSE Lifetimes :
       counters' = [area \in Areas |->
         IF area \in Many
         THEN [e \in attached' |-> IF e = d THEN [f \in Fields(area) |-> start] ELSE counters[area][e]]
         ELSE counters[area]]
  /\ calm' = IF d \in veterans THEN calm \ Many ELSE calm
  /\ Elsewhere /\ UNCHANGED <<now, done, passed>>

Tick ==
  /\ now < MaxTime /\ now' = now + 1 /\ passed' = TRUE
  /\ Elsewhere /\ UNCHANGED <<attached, veterans, counters, done, mishaps, calm>>

(* The process is started anew; baselines are not kept. *)
ProcessRestarts ==
  /\ Mishap /\ last' = None /\ first' = None /\ values' = None
  /\ seen' = [area \in Areas |-> {}]
  /\ UNCHANGED <<module, now, attached, veterans, counters, done, calm, passed>>

-----------------------------------------------------------------------------
Zero == [area \in Areas |-> [d \in All(area) |-> [f \in Fields(area) |-> 0]]]

Init ==
  /\ module \in Modules /\ now = 0
  /\ attached \in Installed /\ veterans = attached
  /\ counters = [area \in Areas |-> [d \in Devices(area) |-> [f \in Fields(area) |-> 0]]]
  /\ done = Zero
  /\ last = None /\ first = None /\ values = None
  /\ seen = [area \in Areas |-> {}] /\ calm = {} /\ passed = FALSE /\ mishaps = 0

Next ==
  \/ ReadFails \/ Collect \/ CollectUnprimed \/ Prime \/ PauseCut \/ ReadAgain \/ ReadAgainFails
  \/ Work \/ Restarts \/ Tick \/ ProcessRestarts
  \/ \E d \in Names : Detach(d) \/ Attach(d)

Spec == Init /\ [][Next]_vars

-----------------------------------------------------------------------------
(* Properties.                                                             *)

(* The reading the collection that ends compares with. *)
Before == IF first = None THEN last ELSE first

(* What the fields' increase really was between two readings. *)
Really(k, devs, fields) ==
  Amount(k.how, Before.truth[k.area], last'.truth[k.area], devs, fields)

(* What the values of a collection that ends are. *)
ValuesTrue ==
  values' \notin {None, {}} => \A v \in values' :
    LET k == v.key  devs == Common(Before.of[k.area], last'.of[k.area]) IN
    /\ devs # {} /\ devs \cap Stacked = {} /\ v.part >= 0
    /\ k.how = "share" => v.part <= v.whole /\ v.whole > 0
    /\ k.how # "share" => last'.at > Before.at /\ v.part <= Really(k, devs, k.part)
    /\ k.area \in calm => v.part = Really(k, devs, k.part) /\ v.whole = Really(k, devs, k.whole)

(* ADR-0006, FR-013 to FR-015 of the counter modules: whatever is read,    *)
(* fails, is cut short or happens to the counters in between, a published  *)
(* rate is of work that was done between two whole readings, never a spike *)
(* of a device's lifetime or of a counter read twice; it is all that work  *)
(* if no counter started again; a share is of a whole; and where nothing   *)
(* was measured no idleness is reported.                                   *)
RatesTrue == [][ValuesTrue]_vars

(* When a collection publishes every value. *)
GapEnds ==
  values' # None => \A k \in Keys :
    /\ k.area \in calm /\ passed /\ ~passed'
    /\ seen[k.area] \cap seen'[k.area] # {}
    /\ k.how = "share" => Before = None \/ Really(k, seen[k.area] \cap seen'[k.area], k.whole) > 0
    => \E v \in values' : v.key = k

(* FR-014 and FR-015: a disturbance costs a gap and no more.  Of an area   *)
(* that two readings show, with time in between and a device that stayed,  *)
(* and whose counters did, the second publishes every value, also after a  *)
(* pause that was cut short, a deadline without time to prime, or readings *)
(* in between that failed as a whole.                                      *)
RatesResume == [][GapEnds]_vars
=============================================================================
