# omnistat: a verification development

omnistat runs on a host, collects what its modules observe (CPU, disks,
network, UPS, ...), and publishes it to the host's entity in an Omnismith
project. This directory models in TLA+ what happens between a reading of the
operating system's counters and the platform, how many hosts bring one
project's schema to the desired state, how a machine finds its record, how the
records of a module's own entities are found, remembered and lost, and how the
program is installed, upgraded and removed. TLC checks the models on small
instances, TLAPS proves what matters most for all of them.

Source paths below are relative to `src/internal/` unless they start with
`src/`. Requirement names such as FR-015 are those of `src/specs/features/`.

## 1. The system

### Components, their state, and who calls whom

| component | code | state | operations |
|---|---|---|---|
| run loop | `cli/run.go` | publish statistics, failure streak | `run`, `once`, `daemon`, `publish` |
| scheduler | `collect/scheduler.go`, `clock.go` | a goroutine per module, first-round barrier, failure log | `Run`, `Once`, `TakeFailureCounts` |
| counter modules | `module/cpu`, `module/disk`, `module/network` | a baseline: the last reading of the counters | `Collect`, which primes itself with a second reading |
| other modules | `module/ups`, `module/memory`, ... | UPS address and notices | `Collect` |
| buffers | `collect/buffers.go` | a buffer per target, bounded per module | `Add`, `Targets`, `Drops`, `Empty` |
| buffer | `collect/buffer.go` | newest dimension samples, queues of metric samples, positions, drop counts | `Add`, `Snapshot`, `Ack`, `Drops` |
| publisher of one entity | `publish/publish.go` | none between calls | `Publish` |
| publisher of all entities | `publish/entities.go` | none between calls | `Publish` |
| resolver of module entities | `identity/keyed.go` | remembered ids | `Resolve`, `Forget` |
| host identity | `identity/resolve.go` | none | `ResolveHost` |
| schema | `schema/*`, `settle/settle.go` | none between runs; a plan, its done actions and the ids held within one | `Diff`, `ApplyWith` |
| manifest | `manifest/*` | none after start | `Validate`, `Resolve`, the look-ups of `Desired` |
| configuration | `config/*` | none after start | pure |
| client and transport | `omni/*` | none | one method per API call; attempts under a deadline each |
| platform | outside; `omni/omnitest/*` states its answers | the project | one answer per request, reads that lag |
| service installation | `service/*`, `systemd/*`, `winsvc/*` | files, units, services, stored settings | `install`, `uninstall`: plans of steps |
| upgrade | `upgrade/*`, `cli/upgrade.go` | a staging directory, the binary moved aside | fetch, verify, step aside, hand over to the new program's `install` |

A run reads the schema and applies what is missing (`reconcile`), resolves the
machine's record (`resolveHost`), then starts the scheduler. Every module has a
goroutine that calls `Collect` and adds the observations to the buffers. The
run loop's goroutine publishes after the first round and then on a grid: the
host's buffer first, then each entity's. Collectors and publisher share the
buffers (each call under a mutex) and nothing else. All hosts share the
project: its schema, its records, and discovery, which shows writes late.
Beside all this, and on their own, run the commands that put the program, its
unit and its settings in place.

### What is hard

* **A publish works on a copy.** While it is under way for seconds, collectors
  add, full queues drop their oldest samples, newer dimension values replace
  older ones. The acknowledgement is a count from the snapshot's start, and
  has to be translated into the queue as it is by then.
* **Answers get lost.** The transport repeats every call, creating and
  ingesting ones included, after a time-out or a 5xx.
* **Refusals are partial.** A 422 names some attributes; the rest has to go
  out, and nothing else may be given up.
* **Discovery lags.** A run that has created an object may not see it in the
  next reading; a run that was told "already exists" may not see the object
  that made it so; a bind replaces a list that was read a while ago.
* **A fleet starts at once.** Two hosts plan the same creations; two processes
  on a machine look for, adopt or create the same record.
* **Users act at any moment.** They delete records, give them keys, create
  attributes that take a wanted slug.
* **Stops.** Calls in flight are cancelled, collectors end, one last publish.
* **Stragglers.** The transport gives up an attempt, not the request on its
  way: the platform may process it after the retry or after somebody else's
  write.
* **Counters are not monotonic.** They start again, their devices come and go,
  readings fail as a whole or in an area, and a collection may be cut short
  between its two readings.
* **Installing is a list of steps** on a machine in any state. Any step may
  fail, the command may be killed and the machine restarted, and the next
  command has to make something of what it finds.

### What makes each component correct

* buffer and publisher: no sample disappears without being stored, refused or
  counted as dropped; the newest value of a dimension is never given up for an
  older one; a sample is sent again only when its fate is unknown; a refused
  attribute costs the others nothing; a stop whose last publish succeeds leaves
  no sample, and no dimension but one of an update that was refused.
* schema: a run that reports success holds every id it will need, and the
  project has what it wants; no run creates twice, takes away, or makes a call
  whose ids it does not have; every run ends.
* host identity: starts on a machine agree; a record of an earlier version is
  never doubled; a dry run writes nothing; a key is not overwritten.
* module entities: no value is let go unanswered; one entity's failure is its
  own; a deleted record is created again.
* scheduler and run loop: the first publish carries a collection of every source,
  however often the fast ones came round; at most one publish per interval of the
  grid; a source is asked again whatever its collections do; every suppressed
  failure is reported; every value was offered to a publish before the daemon
  exits; a stop, also one before the first round, brings the daemon to its end.
* client: what a caller is told is true, a repeated request does no more than
  one would, and every call ends.
* counter modules: a rate is of work done between two whole readings; after
  any disturbance the rates come back.
* manifest: what is wanted is complete and unambiguous, whatever the overrides
  rename or move.
* installation and upgrade: success means a service that starts with the
  settings decided; an uninstall can be finished; "nothing was changed" is
  true; an upgrade leaves a program where it found one, keeps the stored
  settings, and does not go backwards by itself.

## 2. The modules

| module | models | uses |
|---|---|---|
| `Buffer` | `collect/buffer.go`: one operator per method | |
| `Delivery` | `publish/publish.go` step by step, over `Buffer`, with the attempts of `omni/transport.go`, the daemon's stop, the platform | EXTENDS `Buffer` |
| `Ledger` | the promise of delivery: one fate per sample | instantiated by `Delivery` |
| `SchemaApply` | `schema/diff.go`, `schema/apply.go`, by several hosts | |
| `HostIdentity` | `identity/resolve.go`, by several starts | |
| `Entities` | `collect/buffers.go`, `identity/keyed.go`, `publish/entities.go` | |
| `Daemon` | `collect/scheduler.go` and the loop of `cli/run.go`, in time | |
| `Platform` | `omni/omnitest`, the repository's statement of what the platform answers | |
| `Calls` | `omni/transport.go`, `client.go`, `schema.go`, `entities.go`, `publish.go`, `errors.go`, by several clients | EXTENDS `Platform` |
| `Manifest` | `manifest/*.go`: operators | evaluated in `MCSchemaApply` |
| `Rates` | `Collect` of the cpu, disk and network modules, over counters that misbehave | |
| `EnvFile` | `systemd/envfile.go`: the quoting of a stored setting, there and back | |
| `Host` | the host's files and service manager, one operator per call | EXTENDS `EnvFile` |
| `Install` | `service/*`, `systemd/install.go`, `uninstall.go`, `winsvc/*`: settings and plans | EXTENDS `Host` |
| `Releases` | `upgrade/version.go`, `release.go`, `fetch.go`: versions and the choice of a release | |
| `Machine` | `cli/service.go`, `cli/upgrade.go`: commands, faults, crashes, the service | EXTENDS `Install`, `Releases` |
| `DeliveryProofs` (also that it implements `Ledger`), `SchemaProofs`, `IdentityProofs` (of `HostIdentity`), `EntitiesProofs`, `DaemonProofs`, `CallsProofs`, `RatesProofs`, `MachineProofs` | theorems and proofs | extend the module |
| `MC*` | values for the constants of the runs | extend the module |

The definitions whose comment starts with "Mutant:" are plausible bugs. No
specification uses them; each shows that a property is able to fail, by taking
the place of the definition of the code's behaviour that follows it.

### Buffer and Delivery

`Buffer` keeps the code's state: `dims` (`Buffer.dims`; a sample is known by
its stamp), `items`, `removed` and `drops` (the queues). `Add` is `AddDim` or
`AddMetric`, `Snapshot` is `SnapshotOf`, `Drops` is `ResetDrops`. `Ack` takes
per metric a count from the snapshot's start (`AckedNow`), and forgets a
dimension if it still holds the sample that was sent (`AckedDims`). Every
method runs under the mutex, so each is one step.

`Delivery` runs one publish as `TakeDrops`, `Snapshot` (rendering included: a
list value without an item id is given up with a log line), up to two
dimension updates, the chunks, `PublishEnds` (the acknowledgement that
`Entities.Publish` makes whatever the error). `DimsOk`, `DimsRejected`,
`DimsRejectedUnnamed`, `DimsUnanswered`, `ChunkOk`, `ChunkRejected`,
`ChunkUnanswered` and `EntityGone` are the answers. An `...Unanswered` step is
one attempt of the transport, processed by the platform or not: it is repeated
up to `Retries` times unless the run is being stopped, and the call fails
otherwise. A stop signal may come at any step; the collectors then still may
add until they are awaited, and the final publish runs alone. A collection is
one `Add`, at any moment between start and stop.

`Ledger` keeps for each metric the sequence of its samples' fates: waiting,
stored, refused, dropped. Collecting appends, and drops the oldest if `Max`
wait; answers settle the oldest waiting ones. `Delivery` implements it under
the mapping `Promise`, in which a sample's fate is computed from the buffer and
the platform's history.

### SchemaApply

The platform's project is `plat`; discovery reads `replica`, which catches up
whenever it likes (`CatchUp`). Both are snapshots: a reading is some earlier
state of the project as a whole, never a mixture, and never goes back. A plan
is a set of actions with the code's order (`Before`): templates, attributes,
references, options, binds, by slug. `Execute`, `ExecuteTaken` (another host
was first), `Reread` and `RereadInVain` (`settle.Until`), `Planned`, `Redo` and
`Verified` are the loop of `ApplyWith` and its verification. `Learnt` and
`Merge` are what happens to `Result.Resolved`, and `NotYetDone` the filter on
a re-plan with its key, the type and the slug. `Ready` is the check for ids that
`execute` makes before it calls. A `bind` sends the templates that the reading
showed plus its own, and the platform replaces its list. `Unanswered` is an
attempt whose answer was lost. `Rerun` is a restart: the run forgets all.

Names, descriptions and kinds are left out but for "another kind", which is a
conflict.

### Manifest

Operators only: `Validate` over the manifests, `Accepted` for what `Resolve`
refuses, `Resolve` itself, and `Find`, `EntityTemplate`, `HostLink`. What the
hosts of the schema runs want is what `Resolve` makes of manifests
(`WantsResolved` in `MCSchemaApply`), one of them of a module's declarations
that overrides rename; so `SchemaApply` runs on wants the program can have, and
an attribute has one template, which is how `Resolve` makes them. TLC also
evaluates two assumptions over 11 664 pairs of manifests and overrides, of which 1 412 are
accepted. `ResolveKept`: in those without namesakes every attribute is found
under a slug of its own (`AttributesFound`), on a wanted template of the right
owner (`HomesWanted`), and every template of records is found and linked to
the host (`LinksLead`). `NamesakeHides`: with a namesake, a template that one
module declares for its records and another without, the earlier declaration
wins and the records' template may not be found. None of the modules in the
repository declares another's template.

### HostIdentity

Records are numbered by their age. `LookUp`, `Search`, `Adopt`, `LookAgain`,
`Upsert` are the calls of `ResolveHost`, `UpsertTaken` its bounded repetition.
Around them earlier versions of omnistat create records without a key
(`OldVersionCreates`), users set keys and delete records. The platform keeps
the keys of live records unique, and refuses an adoption that would break this.
The search's page of 50 records is not modelled: the instances have three.

### Entities

One daemon: `Collect` (with the cap on keys per module), `HostPublished`, then
for each entity with a buffer `Snapshot`, `LookUp`/`Create` unless its id is
remembered, and `SendOk`, `SendFails` or `SendGone` (which forgets the id). One
entity's publish is one step; `Delivery` has its inside. Users delete records,
also the host's; other runs create them.

### Daemon

One goroutine per source: its provider answers and it adds the observations
one by one (`Adds`), or fails, overruns or panics; the collection ends
(`Collected`, `CollectFails`), counts for the first round if it is the
goroutine's first (`FirstOver`), and the source sleeps, collects again or ends
(`Rests`, `Wakes`, `SleepCut`). `first`, `pending` and `opened` are the code's
variable, wait group and channel; a goroutine of its own closes the channel
(`OpenFirst`), also when every source has ended before. What the properties
compare these with is history: `finished`, the sources that have had a
collection, and `unsent`, those with a value that no publish was offered, or
only publishes that failed and were not the last. Then
the loop (`FirstRound`, `Tock`, the outcomes of a publish, `Report`, `StopSeen`,
`FinalPublish`, `Exit`; `PublishGone` and `ExitGone` for the host's lost record). `Tick` moves
every timer; it is never held up, so a due timer may fire late and a
collection or a publish may overrun any number of intervals. Times are kept
relative: `phase` is the time since the last point of the grid
`start + k * interval`, `passed` says that one was passed since the last
publish began, and so no bound on time is needed; before the first round and
after the stop there is no grid and the two stand still. `LogFailure`, `LogSuccess` and
`Summary` are `failureLog` and `summarize`; `told` counts the failures an
operator could read about. A 401 is one of the failures of `PublishFails`.

`Delivery` and `Entities` look into one publish of this loop; here a source's
values are one token that a publish takes (`Takes`), and that comes back if it
fails (`Returns`).

### Platform and Calls

`Platform` is the in-memory platform of the repository's tests: `Handle` takes
a project, a credential and a request and gives the project after it and the answer, with the
checks in the order in which they refuse. Reads of the schema and searches
show writes only after `SchemaLag` and `SearchLag` further reads. Slugs are
ids.

A client in `Calls` makes the requests of its program, one call at a time, by
the operators named after the client's methods (`UpsertByKeyCall`, ...).
The loop of `RoundTrip` is the actions of `Proceeds`: an attempt is processed
(`Arrives`), answered by an overloaded platform or a gateway in its stead
(`Overloaded`), given up at its deadline, before or after the platform
processed it (`Fails`), or ended by the context (`Cancelled`); what is
retryable is retried after a pause up to `Retries` times (`ToldToWait`,
`Wakes`), and any other answer ends the call (`Answered`, `BodyLost`), mapped
to what callers branch on as `omni/errors.go` does (`Outcome`, `Is`). A request
its sender gave up stays on the way (`late`) and arrives at any time, or never
(`ArrivesLate`). `Stops` is the end of the context, and users delete records.
The modules of the callers (`Delivery`, `SchemaApply`, `HostIdentity`,
`Entities`) have a short form of this of their own: processed or not, then
answered or not.

Two things the runs show are no promise of the code, and `RetriesHarmless`
leaves room for them: an upsert repeated after its record was deleted creates
another, and a repeated `CreateEntity`, whose record has no key, creates two.

### Rates

A behaviour is about one of the three modules, with its own keys (what is
published, as a share or a rate of which fields) and areas (what one reading
can fail to give). `Collect` compares a reading with the baseline. Without a
baseline, `Prime` reads and pauses, anything may happen in the pause, and
`ReadAgain`, `ReadAgainFails` or `PauseCut` ends it; `CollectUnprimed` is the
collection whose deadline leaves no time for it. Around them devices do their
`Work`, counters start again (`Restarts`), devices come and go (`Attach`,
`Detach`), time passes, and the process restarts. `done` is the history of
what was really done, to which `RatesTrue` compares what is published.

### Machine and its parts

The host is one record `h`; each call into its files or its
service manager is an operator from host to host (`Host`). `Install` has the settings
(`ResolveSettings`) and the plans of both systems (`LinuxInstall`,
`WindowsUninstall`, ...). In `Machine` a command looks at the host and fixes its steps
(`InstallBegins`, `UninstallBegins`), takes them one by one (`StepDone`), stops at one
that fails (`StepFails`) and reports. An upgrade resolves a release, fetches
and checks it, moves the program aside, hands over to the new program's
install, which is the same steps, and finishes (`UpgradeFinishes`). `Killed`
and `MachineRestarts` come between any two steps; the service fails and is
restarted, and an administrator writes a configuration. Two commands never run
at once, which the specification declares unsupported. A stored setting is a
short sequence of characters, because the file's quoting is part of keeping it;
`RoundTrip`, an assumption TLC evaluates, is about all values of up to four.

## 3. The runs

All bounds are constants of the configurations. `MaxSamples` (per
slug), `MaxRuns`, `MaxValues`, `MaxRecords`, `MaxFailures`, `MaxLate`,
`MaxFaults`, `MaxWork`, `MaxTime`, `MaxMishaps`, `MaxCommands` and `MaxCrashes`
bound the models alone; the others are the code's parameters made small.
Deadlock is not checked: a run or daemon ends, and the bounded users and
collectors come to an end with it.

| run | question | instance |
|---|---|---|
| `overflow` | Is a sample lost, or delivered twice without cause, and does every step keep the ledger? | two metrics with queues of 2 in requests of 2, one retry; one sample of the first and three of the second; a 422 that names nothing |
| `delivery` | Are newest values kept, is a refusal's damage confined, does a clean exit leave no sample and no dimension but a refused one, is everything settled in the end? | two dimensions, one of them of a list, the host link and a metric; one dimension and the link refused; a 422 that names all or some of it; under fairness |
| `refused_again` | Is a refused update sent again? (violation) | a 422 that names nothing |
| `schema` | Does a success hold all ids and is it complete, is no call made ahead of its ids, nothing made twice or taken away, and does each run end? | two hosts, one of them with a module's template, link and overrides, on a fresh project or one whose attribute is bound elsewhere; discovery free to lag for ever; one host runs twice; a user who takes a slug |
| `schema_options` | Is a success complete when hosts add two options to one list? (violation) | two hosts, two options |
| `host_starts` | Do starts agree, is a legacy record doubled? | two starts and a dry run, up to three records, every kind of legacy |
| `entities` | Is a value let go unanswered, and is a working entity served in the end? | three entities for two buffers, two of them broken for ever, two values each; a deletion at any moment |
| `daemon` | Do the first and the last publish carry all that was collected, when does the daemon publish, what does its failure log leave unsaid, do its sources and its loop go on, and does it stop? | a source that collects every tick, one every second tick, publishes every second, summaries every third; two reasons; the first source's log takes in two failures |
| `calls` | Is what a client is told true, do repeated and late requests do no more than one, does every call end? | two clients in fourteen pairs of programs, each with one retry, one request late, one mishap, reads that lag by one |
| `rates` | Is a published rate ever wrong, and does it come back after a disturbance? | each module; three devices, one of them stacked on another; two advances, two ticks, two mishaps (one for the network) |
| `machine` | Do success, "uninstalled" and "nothing was changed" mean what they say, is a program, a setting or the newer version lost? | Linux and Windows; four hosts to begin with, four kinds of install, eight documents of releases; two commands, one failing step, one crash |
| `upgrade_again` | Does an upgrade after an interrupted one complete it? (violation) | a working installation, two upgrades, one interruption |

Why the bounds suffice. A queue's positions matter relative to the snapshot's
start, to its end, and to the overflow meanwhile: with a queue of 2 and 3
samples, a drop passes nothing or a part of what is being sent, or all of it if
that is one sample. Requests of two end inside the second metric when the batch
holds one sample of the first and two of the second, and span both. In `delivery`
the one sample of its metric never overflows a queue, so that `CleanExit` counts
every drop is shown by its theorem and not by that run; the two updates of a
publish, both refused in part, are what leaves a dimension there. In a race the runs
differ in who is first at each object; two hosts, and an object of each type,
give all of these orders, and two reads with two re-reads let a lag be
noticed, waited out, and met again. Starts disagree, if at all, over two
records; the third lets one be deleted and made anew. For an entity it matters
whether one that fails comes before it, whether it finds a buffer, and whether
its record goes before its look-up, while its id is remembered, or while its
values are on their way. A publish may end before, on and after a grid point;
a collection may take nothing, a part or all of its interval; two failures are a warning
and a repeat, or two warnings, on either side of a summary or a recovery. A
late request and a retry are what it takes for one to overtake the other, and
the programs pair every operation with one it can collide with. A rate needs
two readings, a disturbance before or between them, and the reading after it:
three collections in two ticks give all of it. Two commands are an interrupted
one and the one that comes after it; one crash and one failing step may both
fall into the first, or one into each.

### Fairness

`Delivery`: weak fairness of the publisher (the loop has no end but the ones
modelled, and every call has a deadline), of the awaited collectors, and strong
fairness of accepted updates and chunks and, for each of the two updates of a
publish by itself, of named refusals: a platform which fails *every* attempt is
no subject of a promise. `SchemaApply`: weak fairness of each run alone,
nothing of discovery. `Calls`: weak fairness of each client, because an attempt
has a deadline and a pause a timer; nothing of the platform, of gateways or of
what is late. `Entities`: weak fairness of
the publish, and strong fairness of each working entity's look-up, creation
and sending. `Daemon`: weak fairness of time, of the loop (its calls have
deadlines) and of every collection: a provider returns when its deadline
cancels it, of which the scheduler is not able to make sure, and one which
never does keeps the first publish, and the stop, waiting for ever. Weak
fairness, too, of a timer that is due and of the goroutine that closes the
channel: goroutines that can run do at some time. Strong
fairness of a cancelled sleep: `select` takes a ready case at random, so it
does not choose the timer every time.

## 4. Findings

* `refused_again`: `updateDims` answers a 422 that names no attribute it sent
  with an error, and acknowledges nothing. The next publish sends the same
  update, and the entity's metrics wait behind it until the queue drops them;
  FR-015 of the run loop says that it is never retried with the same payload.
* `schema_options`: `notYetDone` recognises done actions by type and slug, and
  all options of a list share the slug. A host that met another's first option
  drops the second from its plan and reports success without it.
* `upgrade_again`: an upgrade that was interrupted after its install replaced
  the program has left the new version installed and the service stopped. The
  next upgrade compares versions and says "up to date; nothing to do", where
  `specs/features/009-upgrade/spec.md:309-310` says that it completes the
  first. `service install` by hand does.

Met on the way, without a run of their own:

* The verification after binds reads once, without waiting (`schema/apply.go:134`).
  A lagging reading makes a run bind again with the list of that reading, which
  removes what another host bound in between. `NothingTakenAway` is claimed of
  hosts that keep an attribute in the same template.
* `SetEntityKey` is unconditional: a key a user sets after the search is
  replaced, and a request that is late may still set it after its caller was
  told that the key is taken. `StartsAgree` is claimed of machines on whose
  records no user sets another machine's key.
* A Windows uninstall interrupted between deleting the service and removing the
  program is not found by the next one (`winsvc/uninstall.go:44`);
  `UninstallResumable` claims the program's removal of Linux.
* A power loss or kill of an upgrade between `StepsAside` and its end leaves a
  service without a program; `ProgramNeverLost` excepts it.
* The 003 specification (line 319) has a 401 end the daemon; the loop logs it
  as any failure (`cli/run.go:315-320`).
* The pause before a retry is shifted by the attempt's number
  (`omni/transport.go:48`), which overflows from attempt 36 on; `http.retries`
  has no upper limit.
* Adopting (`SetEntityKey`) a record that a key upsert of the same run created
  would free that upsert's key, and its straggling repeat would create a second
  live record. The code adopts only records it found without a key
  (`identity/resolve.go:105-140`); `Asks` in `Calls` states this of callers,
  and `RetriesHarmless` needs it.

## 5. Proofs

Every invariant and every action property that a run expects to hold is also a
theorem, proved by TLAPS for all values of the constants.

**Assumptions.** The proofs use the assumptions that the modules name
(`BufferAssumption`, `DeliveryAssumption`, `SchemaAssumption`,
`WantsAssumption`, `KeptAssumption`, `IdentityAssumption`, `LegacyAssumption`,
`EntitiesAssumption`, `DaemonAssumption`, `PlatformAssumption`,
`CallsAssumption`, `SeededAssumption`, `RatesAssumption`,
`ProgramsAssumption`, `MachineAssumption`): types of the parameters, well-formed projects to begin
with, callers that ask what the code asks. TLC evaluates them in the runs. Some
theorems have a hypothesis besides:

* `HostAgreed` and `LegacyAdopted` are about behaviours of `Mindful` steps: no
  user puts one machine's key on another machine's record.
  `StartsOfOneMachineAgree` and `LegacyOfOneMachineAdopted` need no such
  condition where there is one machine, or users' keys are no machine's.
* `SuccessIsResolved` and `SuccessIsComplete` are for hosts with at most one
  option per list (`OneOption`); the run `schema_options` shows why.
* `AdditiveOnly` is for hosts that agree where an attribute belongs
  (`Agreed`); section 4 says what happens to others.
* `RatesComeBack` takes a `None` that is no function (`NoneApart`), so that no
  reading is mistaken for none.
* `UpgradesGoForward` and `InstallsWork` take versions for which the code's
  `Compare` is the precedence of semantic versions (`PrecedenceIsCompare`);
  `SettingsAreKept` and `InstallsWork` a set of values that the environment
  file reads back as it was written (`ReadsBack`). Both are about data and
  need induction over it; TLC evaluates them for the runs' values
  (`Hypotheses` in `MCMachine`), and `RoundTrip` for all short ones.

**`DeliveryProofs`** (`TypeCorrect`, `NoSampleLost`, `RedeliveryExplained`,
`LatestDimSafe`, `RefusalCostsNoOther`, `ExitIsClean`). `NoSilentLoss` is not
inductive: that the samples `Ack` takes away were answered for depends on
where they are in the queue. The inductive invariant adds
* `QueueInv`: the queue of a metric holds the consecutive samples
  `removed + 1 .. added`, so a position and a sample determine each other;
* `BatchInv`: so does the batch, from `start + 1`, and the queue has not been
  moved beyond what the overflow moved it;
* `CursorInv`: the acknowledgement never counts more than what was sent;
* `RemovedInv`: each of the samples up to `removed`, or up to the cursor in
  the batch, was stored, refused or dropped;
* `UnsureInv`: what is stored beyond the cursor was stored without an answer;
* `DimInv`: an acknowledged dimension was settled with the batch's stamp;
* `IsolatedInv`: while the updates are sent, an unsettled dimension is in the
  one being sent, and none is unsettled when the metrics' turn has come after
  an update that was not the last;
* `DropInv`: the drops reported and those still counted are all the drops;
* `ExitInv`: nothing is added behind the final publish, so its batch is the
  whole queue, and an acknowledgement of all of it leaves nothing;
* `DimExitInv`: the final batch holds the buffer's dimensions, and one of them
  that is not acknowledged when the publish ends well was in an update that was
  refused. A publish whose two updates were refused ends without an error and
  leaves those that neither answer named; `CleanExit` allows for these only.

Its last part is the refinement, `Spec => KeepsLedger` (`LedgerKept`). Every
step of `Delivery` is, under `Promise`, a step of `Ledger` or a stutter. For
that `LedgerInv` says that answers come in the order of the samples, up to the
last one answered nothing is open, and `FatesOK` that the mapped fates are those
computed from the sets of samples stored, refused and dropped; `BoundInv`
bounds the queue, and with it what may wait.

**`SchemaProofs`** (`CreatedOnce`, `SchemaTyped`, `IdsLeadCalls`,
`SuccessIsResolved`, `SuccessIsComplete`, `AdditiveOnly`). What a run has
created is in `did` by its key, and a create in `todo` has a key that is not
(`OwnInv`); `NotYetDone` keeps this for every re-plan. The invariant of the
rest is `PlanInv`, one `RunOK` for each host: ids held are ids of the project
(`Held`), each wanted object is held or still planned (`Covered`), and an
action the filter drops has left its id (`Remembered`). All three are monotone
in the project, which only grows, so the steps of other hosts disturb none.
For `AdditiveOnly` `BindInv` says that a bind still to be sent names templates
the attribute is bound to, and all of them but for the one it adds: a reading
may miss only bindings that some host wants, and agreeing hosts want the same.

**`IdentityProofs`** (`StartsTyped`, `HostAgreed`, `LegacyAdopted`, and the two
for one machine). Nothing orders the calls of two starts; what makes them agree
is `StartOK`: the record a start adopts is its machine's (`PicksOwn`), the one
it holds has its key and keeps it (`HostKeyed`), and when it is about to create
no record of an earlier version is left to adopt (`NothingToAdopt`). With
`UniqueKeys`, two starts on a machine that hold live records hold the same one.

**`EntitiesProofs`** (`EntityValuesKept`, `EntitiesTyped`). `ValuesKept` with
the types of two variables is inductive: every step that takes values from
`pending` has put them in `answered`. That a key has one holder (`OneHolder`)
and ids are of records is `TypedInv`.

**`DaemonProofs`** (`TypeCorrect`, `FirstPublishHasAll`, `NothingLeftUnsent`,
`FailuresReported`, `PublishesApart`), for any number of sources and any
intervals. The invariant adds
* `RoundInv`: the wait group counts exactly the sources without a finished
  collection, each of which still has its variable `first`, and a goroutine that
  sleeps or has ended is none of them. So the count is zero only when every
  source is finished, whichever of them came round again meanwhile;
* `OfferInv`: what no publish was offered is in the buffer, so a publish that
  takes the buffer leaves nothing unoffered; from the final publish on every
  goroutine has ended, and nothing is added to what it took;
* `LogInv`: the failures are those told and those waiting in `repeats`, and
  after the last summary none waits, which holds because every goroutine has
  ended (`OfferInv`) before that summary;
* `GridInv`: while the loop sleeps, its time left is the distance to the next
  grid point, or it is due and the point was passed. Without it nothing says
  that a due loop is in another interval than the one it last published in.

`RepeatsReported` is about the exit after a stop signal. When the host's record
is gone the loop returns without a last summary, and the repeats since the one
before are in the debug log only.

**`CallsProofs`** (`RepeatsDoNoHarm`, `AnswersAreTrue`), for any clients,
programs, lags, retries and requests on the way. The lemma `Handling` is about
one request, whatever it is and whoever sends it: the platform keeps what is
there (`Grown`), keys stay held once, what is made was not there and bars the
same from being made again (`Bars`), and what the answer says is so
(`Truthful`). `RetriesHarmless` follows from the invariant `Inv`: what an
attempt of a call has made bars every other attempt of that call, now or
when it arrives late (`EffectsInv`); and as long as all attempts were answered,
at most the last was processed (`CallOnce`). For `AnswersTrue` add `AnswerInv`
(what an answer on its way to its caller says stays so until it is
read, because nothing is undone) and `LagInv`: whichever reading comes next, or any
later one, the documents kept for it show the schema of exactly `SchemaLag`
reads before it.

**`RatesProofs`** (`RatesAreTrue`, `RatesComeBack`), for any set of devices and
any history of their counters. The invariant is about the baseline or the first
reading of a pair (`Stands`): of a device that is still in use and was not
stacked on others, what was read and what was done since are no less than the
counter shows now, and the same if the area is undisturbed (`Sound`). A device
that is back counts from zero, so the bound stays; one that is new is in no
reading. `LatestInv` says that the baseline is the reading the history
remembers, or that there is none. A published value is a sum or a maximum; the
first part of the module is about those: a sum does not depend on the order, is
monotone in the terms and no less than a part of it, and a finite set of
integers has a maximum. The library's induction over finite sets cannot be used
here, so each is shown by its smallest counterexample among the subsets of a
finite set (`Smallest`).

**`MachineProofs`** (`UninstallIsResumable`, `UninstalledStaysGone`,
`UnchangedIsUnchanged`, `ProgramIsKept`, `UpgradesGoForward`,
`SettingsAreKept`, `InstallsWork`). A command is a list of steps fixed at its
beginning, so the invariant is about what is left of it: an
uninstall with n steps left has done those before (`Uninstalling`), the unit
outlives what the next uninstall has to find (`Resumable`), an upgrade's phase
says what is where (`Upgrading`, `Released`), and an install's remaining steps
lead from the host as it is to a service that works (`Installing`), with
settings that were decided when it began (`Deciding`). A step that fails, a
kill and a restart of the machine keep all of these. Three of the theorems have
exceptions, which are the code's. `UninstalledStaysGone`: a Windows service that
was being restarted when the uninstall looked is not stopped by it; it may run
on, marked for deletion, until it ends. `UnchangedIsUnchanged`: a unit found
marked for deletion may have gone since. `ProgramIsKept`: an upgrade that is
killed between its step aside and `Finish`, or that reports that putting the
program back failed, leaves none. `InstallsWork` has a service up or about to be
restarted; that a running one uses the stored settings is claimed of Linux: on
Windows a pending restart may come before the settings are stored, and the plan's
start then finds the service running and leaves it.

Proving has changed the models where they said less than they meant:
`UnchangedMeansUnchanged` no longer excepts more than the unit a Windows
service manager has marked for deletion; `InstalledWorks` holds without an
exception for crashes; discovery's lag in `Platform` is defined by the
documents still to be shown.

**Only model-checked.** Liveness under fairness (`EventuallySettled`,
`RunsEnd`, `WorkingEntitiesServed`, `KeepsPublishing`, `KeepsCollecting`, `CallsEnd`), which the
prover cannot do. The quoting of a setting there and back, the order of versions, and what
`Manifest` computes: assumptions over bounded inputs that TLC evaluates,
because their proof is an induction over data.

## 6. What is not modelled

* Configuration: parsing and precedence of settings, once, at start.
* The UPS module: a request and an answer per collection; its parsing is data.
  Memory, hostname and machine id are stateless readings.
* One-shot runs (`once`) and exit codes: a sequence without a loop.
* The values that are no rates (space, load), the omission records, and the
  rendering of values.
* In the manifest names, descriptions and platforms; in the client the wire
  form, the lengths of pauses and `Retry-After`; in the installation dry runs,
  downloads (one step that succeeds or fails) and the control handler of a
  Windows service.
* Reading the operating system, printing, journals and event logs: I/O.
* The search's page of 50 records in `HostIdentity`; the instances have three.

## 7. Plan

1. Proofs about operators: of `Manifest`, `AttributesFound` from `Validate` and
   `Accepted`, and `HomesWanted`. Where they need induction over a finite set,
   `Smallest` in `RatesProofs` and the least elements in `CallsProofs` show
   how to do without the induction theorems.
2. The run loop further: one-shot runs with their exit codes, and the answers
   that should end a run and do not.
3. `Daemon` as what `Delivery` and `Entities` look into.
4. The UPS module and the precedence of settings as operators.
