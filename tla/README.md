# webhook-doorman: TLA+ models, model checks and proofs

webhook-doorman receives webhooks, verifies, filters and stores them, and delivers them to chat
and automation sinks. It promises that a stored event is not lost, that a withheld one does not
get out, that a delivery is attempted a bounded number of times and then shown to an operator,
and that all of this survives a restart. This directory models the code that keeps those
promises. Paths below are relative to `src/src/webhook_doorman/`.

## 1. Inventory

One process, one asyncio loop, one SQLite connection in autocommit. Code between two `await`s is
atomic; every store statement is an `await`. There are no locks: what protects the tables is that
a statement is atomic, and a condition placed inside it.

| component | state | operations | interacts with |
|---|---|---|---|
| **Store** (`store/sqlite.py`, `store/base.py`) | tables `events`, `deliveries`, `dlq` | insert-or-ignore, two kinds of enqueue, claim, mark delivered / retry / exhausted, release of a claim, roll-up, requeue, sweep, verdict, release | called by everything below |
| **Delivery worker** (`engine.py`: `run_once` ... `_recover`) | tasks of a batch, `Delivery` snapshots | claim, load, call the sink, record the outcome, repair what raised | store, sinks |
| **Requests of the engine** (`engine.py`: `ingest`, `_resume`, `_screen`, `release`, `replay`) | one coroutine each | record, resume, screen, queue, release, replay | store, detector; writes what the worker claims |
| **Lifecycle** (`engine.py`: `start`, `stop`, loops) | the running process | connect, requeue, run the loops, cancel them | all of the above |
| **Schema** (`store/sqlite.py`: `connect`, `_apply_schema`, `_install_id`) | file, version, install id | create, migrate, refuse | before everything else |
| **Configuration and secrets** (`config.py`, `secrets.py`) | none; read once at the start | validate, cross-check, name the variables, resolve | decides which sources, sinks and tokens there are |
| **Process and routes** (`__main__.py`, `app.py`) | one start | load, create the app, start the engine; route a request, check the admin and metrics tokens, report health | in front of handler and engine |
| **Request handler** (`app.py`, `verification.py`, `filtering.py`, `redaction.py`) | the body as it arrives | cap, verify, filter, route, choose delivery id and headers | hands an event to `ingest` |
| **Text pipeline** (`redaction.py`, `sanitize.py`, `fencing.py`, parts of `app.py`, `engine.py`, `models.py`) and the **detector's** fence rule | what is stored of a field | redact, sanitise, cap, score; at each delivery redact again, fence, cut | what the handler stores, what a sink reads |
| **Sinks** (`sinks/`) and the **retry schedule** (`engine.py`: `retry_delay_seconds`) | none; the row's attempt and due time | classify, parse `Retry-After`, compute the delay | worker |
| **Admin lists** (`app.py`, `list_dlq`, `list_held`) | a client's cursor | clamp, select, next cursor | read what worker and requests write |
| parsers, other detector rules, templates, metrics, logging, tracing | none that anything reads back | pure functions | see section 7 |

Hard behaviours, and what makes each part correct:

- **Worker.** A store method of several statements can be suspended, fail or be killed between
  two; tasks of one batch, a replay and the sweep work on the same event. Correct means: attempts
  are bounded, `delivered` is never said without an accepted call, a failure is repaired or
  visible, and everything settles.
- **Requests.** The event commits before its deliveries with the detector in between; a producer
  redelivers while the first request runs; a check and the write it guards are two statements.
  Correct means: never lost, at most one first dispatch, a verdict is final, and a stored routing
  decision is neither widened nor ignored.
- **Schema.** Stops between any two statements. Correct means: ready implies current, the version
  never lies, a newer file is left alone.
- **Configuration, process, handler.** No concurrency, but three inputs that meet: a file, an
  environment that may have lost a variable, and a request. Correct means: nothing unverified or
  oversized passes, nothing is silently dropped, filters fail closed, the admin API is closed to
  all but the holder of its token, a credential is not stored, and a lost variable costs exactly
  what named it.
- **Text.** What is stored under one configuration is delivered under another, possibly much
  later; a fence is only worth something if no content ends it. Correct means: the fence holds for
  whoever is untrusted now, ordinary text survives it, no secret is delivered, and the detector
  has scored what the fence removes (which the code does for every text but the names of a
  payload's members).
- **Sinks and schedule.** Boundaries: codes, negative and distant `Retry-After`, large exponents.
- **Lists.** A walk of several requests over a list that changes.

`PROJECT.json` names each hazard at its line with the properties that watch it, and one (a
power loss) that no property covers, with the reason.

## 2. The modules

```
Store ----+--> Dispatch --+--> Doorman          Config --> Gate --> Service
          |               |   (both, in one
          |               |    process)
          +--> Admission -+                     Schema     Paging     Retry     Text

Outbox, the abstract specification, is implemented by Dispatch.
Dispatch, Admission, Doorman, Schema, Paging, Retry, Service and Text each have their theorems
in a module <Module>_proofs; Doorman_proofs uses those of Dispatch and Admission by INSTANCE.
```

An arrow reads "is extended or instantiated by". Each `MC<Module>` gives values to the constants
and each of its `.cfg` files is one run.

**Store** has one operator per SQL statement, none per method: a method of several statements is
several steps of the module that uses it. A row of `deliveries` is a member of `Delivery`; as ids
are never reused and a row never changes event or sink, `eventOf` and `sinkOf` are constant
functions and `Delivery` is the pool of ids. Due times are left out: any pending row may be due.
A crash keeps what the statements committed. `stop()` cancels tasks wherever they wait, so it
leaves the tables exactly as a crash does and is the same action.

**Dispatch** is the worker. `pc[d]` is the point of the code at which the task of delivery `d`
waits: `load`, `send`, then `delivered`, `retry` or `exhaust`, `dlq`, and the three statements of
`_settle_event_for` (`settle`, `tally`, then `dispatch` or `fail`); `raised` waits for the end of the batch
and `_recover`, `release` is its `release_claim`. `snap` is the attempt count as the claim returned
it, which the code uses instead of the row's. `Claim` needs every task idle: that is the `gather`
in `run_once`. `Fault` makes any statement raise without effect. `Handlers` is the environment:
whatever requests may write to the tables, at any time, without the request's own control.
`sends`, `acked`, `buried`, `faults`, `crashes` are histories, and `counted` is the in-memory
counter `delivery_attempts_total`, incremented where the code does it.

**Outbox** is what an operator is promised, without tasks, statements and restarts: a `fate` for
each event, a `ticket` (unused, owed, delivered, exhausted, deleted) for each delivery, the calls
that were `accepted`, the dead `letters`, and whether the store ever failed (`trouble`). Dispatch
implements it by the mapping `O` at its end: a pending and a claimed row are both owed, and
claims, loads, retries, repairs, crashes and restarts are stuttering steps. An event is
concluded as dispatched only with an accepted call and no exhausted ticket, as failed only with an
exhausted one. Where the code is weaker than one would wish, Outbox says exactly how: only after
`trouble` may a delivered ticket be given up, or a second dead letter appear.

**Admission** is the request side. A request has an operation, a target and a point `rpc`;
a replay inserts one row per sink in as many statements, a first dispatch all of them in one;
`stored` is the column `sinks_json`, `routes` what the current configuration would do. The result
of `_screen` is `verdict`, kept by the coroutine while the conditional write may or may not take.
`Redeliver` is a producer that was answered an error or nothing. Which requests come, and whether
the event's text is what the detector flags, is chosen at the start. `unrouted` and `wavered`
remember the two events a property must except: one that a new configuration routes nowhere, and
one whose verdict a failing detector got wrong. The worker is one step here.

**Doorman** composes the two by `INSTANCE`: each side's steps leave the other's memory alone, and
crash and start take both. `DispatchSpec` (the `Spec` of Dispatch, checked as a property) is the
refinement that justifies the `Handlers` environment, and it is proved as well, so that what holds
of Dispatch holds of the composition. `EventSettles` goes from the stored event to the last of its
sinks.

**Config** holds the validators of `config.py` and what `secrets.py` makes of a file in an
environment, as predicates on records: `Valid`, `SourceEnabled`, `SinkEnabled`, `Token`. `strip`,
`lower` and `len` are constant functions on the strings of the instance, so that "blank", "another
spelling" and "too short" mean what they mean in the code. **Gate** is the handler of one request
(handlers of different requests share nothing before `ingest`), from the first byte to the answer;
a digest is reduced to the secret that makes it right for this body, a payload to the texts at
each path. **Service** puts a process around it: one file, one environment and one request,
chosen together from `Case`; the start in the order of `main`, `create_app` and `Engine.start`;
then the route that takes the request, in the order of registration, which is 405 or 404 where
none has its method or its path. An admin request that FastAPI cannot parse is answered 422 before
the handler, and so before the token.

**Text** follows one field: the summary, a field of the parser, a value in the payload or the
name of a member of the payload (`kind`). `Ingest` stores it (redaction of the bytes or the decoded
value, sanitising, cap), and compares what the detector reads of it, which is nothing of a name,
with the threshold of the configuration; `Restart` changes the configuration in force,
`Deliver` computes what the destination reads. A text is a sequence of tokens, with the keyword of
the fence as one; the stripping is the code's, pass by pass, with the cap on attributes and the
fallback that replaces all brackets. The rendering modelled is the plain one.

**Schema** reduces the schema to the objects that tell versions apart; `disk` is what is
committed, `txn` what an open transaction sees. **Paging** has one client and one list; a page is
one `SELECT` and atomic, the walk is not. **Retry** is the life of one delivery seen from its
sink: what an answer means, and when the next attempt is due, in hundredths of a second so that
jitter is a whole percentage.

## 3. Runs

| run | distinct states | what it shows |
|---|---|---|
| `MCDispatch_all` | 177 050 | two sibling deliveries, one of them for a sink that was not built, a crash and two failing statements at any point, the sweep, and anything the handlers may write. The refinement `OutboxSpec`. Undisturbed: `RolledUp`, `DeadLetteredUndisturbed`. In one life of the process: `OutcomesCounted`. Through everything: `AttemptBudget`, `PayloadKept`, `StrandedAfterTwoFaults`, `CalledOnlyWhileClaimed`, `EverySettles` |
| `MCAdmission_all` | 755 511 | any three of ingest, release and replay of one event, failing detector, crash and restart under other routes, a failing statement, sweep: `NoSilentLoss`, `WithheldNeverQueued`, `AtMostOncePerSink`, `StoredDecision`, `VerdictStands`, `CurrentRoutes` |
| `MCDoorman_all` | 160 196 | both sides in one process, one event for two sinks: the refinement `DispatchSpec`, `RefusedNeverSent`, and `EventSettles` from the stored event to the last delivery |
| `MCService_all` | 1 226 827 | every fault of a file with a lost, blank or short variable and a request to each route; every body, declared length and credential; every filter and payload: `OnlyVerifiedIngested`, `NoRetryStorm`, `NeverSilentlyDropped`, `AdminClosed`, `NoCollateral`, `EnabledSinkIsReady`, `CredentialNotStored` |
| `MCText_all` | 639 180 | every short text over the fence's alphabet, in each place a text can have, from ingest to a delivery under the same or another configuration: `FenceHolds`, `OrdinaryTextKept`, `SecretsRedacted`, `ForgeryFlagged` |
| `MCSchema_open` | 1 312 | every file of every release, three stops, two faults: `ReadyIsCurrent` (with one install id), `VersionHonest`, `NewerUntouched`, `UpgradeCompletes` |
| `MCPaging_all` | 13 506 | a walk of either list while it changes: `NothingSkipped`, `NothingRepeated`, `WalkEnds` |
| `MCRetry_all` | 85 080 | every kind of answer and of `Retry-After`, at an ordinary and at an Apprise sink: `DelayBounds`, `RetriedWhenItHelps`, `DeliveredMeansSuccess`, `Settles` |

Four runs expect a violation; each is a disagreement between the code and a line of the
repository, listed with that line under `findings`:

| run | what happens |
|---|---|
| `MCDispatch_deadletter_crash` | crash between the two statements of `mark_exhausted`: exhausted, and in no list |
| `MCAdmission_replay_race` | replay reads before a verdict and inserts after it: a dropped event is queued |
| `MCAdmission_release_race` | a redelivery re-quarantines between the two statements of a release: "released", nothing queued |
| `MCSchema_fresh_crash` | crash before the version of a *new* file is written: every later start fails on a duplicate column |

Each has a passing counterpart that excepts exactly what the finding needs
(`DeadLetteredUndisturbed`, `WithheldNeverQueued`, `NoSilentLoss`, `UpgradeCompletes`), so together
they say where the promise stops.

### Limits of the promises, without a run of their own

Met while modelling, and the reason why some properties carry a condition:

- *Roll-up.* A crash or a failing statement between the `UPDATE` of a delivery and
  `_settle_event_for` leaves an event that never gets its final status: `requeue_incomplete` rolls
  nothing up. `RolledUp` says `Undisturbed`.
- *A delivered last attempt whose roll-up raises* is repaired by `_recover` like any other raised
  task, so its row goes from `delivered` to `exhausted` (`engine.py`, lines 553-560), and an
  exhausted one may get a second dead letter. `Outbox` allows both after `trouble` only.
- *The counter.* An attempt whose bookkeeping fails after it was counted is counted again by
  `_recover`; `OutcomesCounted` allows one extra count for each failed statement.
- *Two screenings that disagree.* If the detector fails for one of two concurrent ingests of an
  event and `on_error` lets it through, the first may queue what the second quarantines.
  `WithheldNeverQueued` excepts the events for which this happened (`wavered`).
- *A release without routes* takes the event out of quarantine and is answered `no_sinks`; one
  that raises after its first statement is answered 500. Either waits for a replay, which
  `NoSilentLoss` counts as known to the operator; `EventSettles` excepts the
  events of such a release.
- *A replay that stops half-way.* `enqueue_deliveries` inserts one autocommitted row per sink
  (`sqlite.py`, lines 318-331). If a replay of an event without rows (its first dispatch was
  interrupted) fails after the first, that row keeps every redelivery from queuing the other sinks:
  `has_deliveries` is true (`engine.py:265`), and so is the row that `NOT EXISTS` looks for. A
  second replay queues all of them, the first one twice. The operator was answered 500.
  `EventSettles` demands every sink only while no replay has failed, and that what was queued
  settles even then.
- *Names in a payload.* The detector scores the values of a payload and not the names of its
  members (`_text_leaves`, `engine.py:848`); the fence serialises both (`fencing.py:142`). A tag in
  a name is fenced away and not flagged, although an attempt is "still recorded" according to
  `CHANGELOG.md:319-320`. `FenceHolds`, `OrdinaryTextKept` and `SecretsRedacted` include names,
  `ForgeryFlagged` does not. Nor does it speak of a threshold above the score of `fence_forgery`,
  under which the rule alone flags nothing.
- *The exponent.* `retry_delay_seconds` computes `2 ** (attempt - 1)` as a float before clamping
  it, which raises past attempt 1024, in `_recover` too, which counts nothing then: such a row waits for
  a restart, for ever. `Settles` stops at that attempt, and its run reaches it.
- *Informational codes.* `_classify` takes every code below 300 for a success. The HTTP client reads
  past interim responses, so `RetryAssumption` has the codes of a final response, 200 to 999.
- *Enabled, and yet not.* Only an `hmac_sha256` or `bearer` block refuses a blank variable name; a
  basic source with an empty one is never enabled, and a sink with an empty `token_env` is enabled
  and cannot send. `EnabledSinkIsReady` excepts the latter. `required_env_names` would list neither.
- *What validates and does not start.* An unknown parser, or a template that does not compile,
  passes `load_config` (and `--check`) and stops the start in `create_app` or `Engine.start`; for a
  sink that lacks its variable, only once the variable is provided. `NoCollateral` is about losing
  a variable, not about gaining one.
- *Tokens.* An admin token is compared with the stripped credential, so one with blanks at its
  ends can never be presented although `/health` says replay is enabled. A metrics token that is
  too short opens `/metrics` instead of closing it, as `MetricsConfig` documents.
- *`dedup.enabled`* (`config.py:183`) is validated and read nowhere.
- *Reclassification.* Only `summary` and `payload` are fenced whatever the trust was at ingest; a
  parser's other fields are fenced if the source was untrusted when the event was stored.
  `FenceHolds` says so.
- *Order of redaction and sanitising.* The halves of a secret that an invisible character or a tag
  keeps apart are joined after the last redaction. `SecretsRedacted` is about whole secrets.
- *The last word of a field.* A field that ends in `<untrusted` becomes an opening by the newline
  the fence adds, without moving the end of the fence. `Enclosed` is about the text between the two
  tags, and says nothing of what that text becomes beside them. The detector, which strips the text
  it scores, does not see an unclosed opening that ends in a blank at the very end.
- *Idempotence.* `sanitize` normalises before it removes, so `e`, U+200B, U+0301 is composed only
  by a second call, contrary to `sanitize.py:66-67`. Composition is not modelled; the fence
  sanitises again, and nothing compares the results.

`CHECK_DEADLOCK FALSE` everywhere but in `MCText_all`, whose field can always be delivered again:
the other systems may stop, as requests, rows, crashes and faults are finite and a settled store has
nothing to do.

### Bounds

- *Rows.* Two rows of one event are the smallest instance in which siblings race in the roll-up;
  in `MCDispatch_all` they are a first dispatch, which the `Handlers` may queue together or one
  after the other. `MCAdmission_all` has a second row for each sink, which is what a replay adds.
  `MCDoorman_all` has two sinks, since a set of one cannot be queued in part, and one row for each,
  which comes from the first dispatch or from a replay of an event that has none. Events are
  independent in every statement but the claim and the sweep, which select sets. `MaxAttempts = 2` has a retry and a last attempt;
  `MCDoorman_all`, whose subject is what requests and worker do to each other, has `MaxAttempts = 1`
  and batches of one.
- *Requests.* Each race found needs two or three of them; three reach ingest, resume and release
  (or replay) of one event at once. Symmetric where only safety is checked. `MCDoorman_all` has two,
  of which one is an ingest, as no event exists otherwise; its detector does not fail, which
  `MCAdmission_all` adds.
- *Failures.* One crash and two faults: `StrandedAfterTwoFaults` needs two to be non-trivial.
  `MCDoorman_all` has no failing statements of the worker, which `MCDispatch_all` has under an
  environment that is proved to be no weaker. The theorems of section 5 have no bound.
- *Schema.* Three stops reach a crash during the recovery from a crash, twice.
- *Paging.* Four ids and a ceiling of two: full, short and empty pages, limits -1, 0, 1, 2 and 5.
  `route` says which of the two lists is walked.
- *Service.* `MCCase` is a union of three products: about 80 files (a good one, and each single
  fault of a source, sink or section) by 18 environments by requests to every route, some of them with
  an admin parameter that does not parse; two
  verified sources by every body of up to three chunks of 0 to 3 bytes against a limit of 3; and
  every pair of a source filter and a route filter over two payload paths by every payload. Two
  faults in one file are not combined, but the validators are conjuncts, and all seven
  properties are proved for every file, environment and request (section 5).
- *Text.* In a summary, a parser's field and a payload: every text of up to four tokens over the
  alphabet of a tag, every one of up to six over bracket and keyword, and fifteen chosen ones (deep nesting, attributes past their cap, secrets,
  look-alikes); in a name of the payload the chosen ones. Thresholds of 0.8, the default, which
  `fence_forgery` just reaches, and 0.9. `MaxPasses` is 2 instead of 4 and `AttributeCap` 2 instead
  of 512, so that texts of this size pass both limits; in the theorems both are any number, and the texts any texts.
- *Retry.* Codes of every kind from 200 up and both edges of each; five attempts, of which the
  last have an exponent that cannot be computed, one restart.

`MaxCrashes`, `MaxFaults`, `MaxAborts`, `MaxStops`, `MaxRestarts`, `MaxPages` and `LastId` are the
only bounds that are not parameters of the program, and each is a guard of one action.
`MaxExponent` stands for 1023, the largest exponent of a double.

## 4. Fairness

Weak fairness throughout, and only where the code itself comes back:

- `Claim` and each task: the delivery loop runs until `stop`. That a sink call ends is an
  assumption, which rests on the timeout of the HTTP client (`engine.py:102-105`); a call that
  hangs for ever would hold up its batch, and no property is about it.
- a request that is under way: the loop schedules its coroutine and every statement returns or
  raises. The condition `rpc[r] # "free"` of Doorman leaves its arrival out.
- `Redeliver`: a producer retries what was answered 5xx or not at all. It is what `_resume` is
  written for, and without it a stored event may wait for ever.
- `Start`: the container is restarted (`docker-compose.yml`, `restart:`).
- in Schema, a failed start is tried again; in Paging, a client that is given a cursor uses it.

Crashes, faults, sweeps, and the arrival of an event, a release or a replay are never fair: nothing
obliges them.

## 5. Proofs

Eight modules of theorems, one for each module with a run. They hold for every value of the
constants: any sets of events, sinks, rows, requests, files, texts and destinations, any
`MaxAttempts`, batch size and limits, any number of crashes, faults and restarts. Every safety
invariant and action property that a passing run checks is among them.

| module | theorem | property |
|---|---|---|
| `Dispatch_proofs` | `TypeCorrect` | `TypeOK` |
| | `Budget` | `AttemptBudget` |
| | `Accepted` | `DeliveredWasAccepted` (also a consequence of `OutboxSpec`) |
| | `PayloadSafe` | `PayloadKept` |
| | `Repaired` | `StrandedAfterTwoFaults` |
| | `Claimed` | `CalledOnlyWhileClaimed` |
| | `Implements` | `OutboxSpec`: `Spec => O!Spec` |
| | `Rolled` | `RolledUp` |
| | `Buried` | `DeadLetteredUndisturbed` |
| | `Counted` | `OutcomesCounted` |
| `Admission_proofs` | `OncePerSink` | `AtMostOncePerSink` |
| | `Withholding` | `WithheldNeverQueued` |
| | `NotLost` | `NoSilentLoss` |
| | `Decided` | `StoredDecision` |
| | `Final` | `VerdictStands` |
| | `Routed` | `CurrentRoutes` |
| `Doorman_proofs` | `Composition` | `DispatchSpec`: `Spec => W!Spec` |
| | `Refused` | `RefusedNeverSent` |
| | `EngineWorker`, `EngineRequests`, `EngineFinal`, `EngineRouted`, `EngineOutbox` | the properties of Dispatch, Admission and Outbox, in the composition |
| `Schema_proofs` | `Honest` | `VersionHonest` |
| | `Ready` | `ReadyIsCurrent` |
| | `NewerSafe` | `NewerUntouched` |
| `Paging_proofs` | `NoneTwice` | `NothingRepeated` |
| | `NoneMissed` | `NothingSkipped` |
| `Retry_proofs` | `Success` | `DeliveredMeansSuccess` |
| | `Pace` | `DelayBounds` |
| | `Helpful` | `RetriedWhenItHelps` |
| `Service_proofs` | `Ingested` | `OnlyVerifiedIngested` |
| | `Closed` | `AdminClosed` |
| | `NotStored` | `CredentialNotStored` |
| | `NotDropped` | `NeverSilentlyDropped` |
| | `SinksReady` | `EnabledSinkIsReady` |
| | `Isolated` | `NoCollateral` |
| | `SizeDecides` | `NoRetryStorm` |
| `Text_proofs` | `Fence` | `FenceHolds` |
| | `Redaction` | `SecretsRedacted` |
| | `Forgery` | `ForgeryFlagged` |
| | `Ordinary` | `OrdinaryTextKept` |

The other modules have a theorem for their `TypeOK` as well (`AdmissionTypes`, `SchemaTypes`,
`PagingTypes`, `RetryTypes`, `ServiceTypes`, `TextTypes`), and one for each inductive invariant.

### Assumptions

`StoreAssumption`, `DispatchAssumption`, `AdmissionAssumption` (and `DoormanAssumption`, which is
the last two), `SchemaAssumption` and `PagingAssumption` type the constants and keep the markers
for "none" apart from real values. `RetryAssumption` also says that `Jitter` is a fraction of one
and that a code has three digits from 200 up (section 3, *Informational codes*).
`ConfigAssumption` says that the empty text stripped is empty, `GateAssumption` that a length that
is absent or unreadable is no number. `CaseAssumption` gives the records of `Case` the shape the
program's types give them: lists are sequences, a body is a sequence of chunks with lengths, the
limit is an integer, a `none` block names no variable, a sink has the fields of its type, no
variable has an empty name. `TextAssumption` says that a text is a sequence of tokens, that a limit
is a natural number, that a threshold is between 0 and 10 tenths (`DetectorConfig`), that the cap,
if any, is positive (`filter.max_field_bytes`) and that the fence makes at least one pass. Each is evaluated by TLC in the run of its module.

### Arguments

**The worker.** The properties are not inductive. `AttemptBudget` counts calls, but the code
decides on the counter in the row and on the copy the claim returned; so `IInv` is `TypeOK`, "no
process, no task", and for each delivery one conjunct per phase of its life:

- `Fresh`: never used, never sent;
- `Waiting`: idle, attempts left, calls at most the counter plus the crashes;
- `InHand`: one call more than that, except before the call; the snapshot is the counter; with no
  task at work in a running process, two faults happened;
- `Settled`: calls at most `MaxAttempts` plus the crashes;
- `Task`: at each point of the code, what the row says (claimed up to the outcome, settled after);
- `Payload`: a row that exists has its event.

`TypeStep`, `DeliverStep`, `FaultStep` and `OtherStep` show that each action keeps it, one step
per action, and `Invariance` puts them together.

**The refinement** needs in addition what a task remembers while its row may change (`RInv`): a
task in the roll-up knows how its delivery ended (`Outcome`), a verdict of `failed` is still true
when it is written (`Verdict`), rows go with their event (`Swept`), and only a failed statement
brings a settled row back into the hands of `_recover` (`Troubled`). A verdict of `dispatched` needs
more (`BInv`, theorem `Barred`): no sibling can be in flight once one task has found them all
settled, since the next batch waits for this one, and so none can become exhausted before the
status is written (`Barrier`); the one row that is exhausted without being claimed is a row
`_recover` works on (`Working`), which it does while no task runs (`Alone`). Then every action of
Dispatch is one action of Outbox (`DeliverImplements`, `OtherImplements`) or changes nothing that Outbox
sees (`Stutter`).

**The roll-up.** `RolledUp` is about tasks of siblings that read, decide and write in three
statements. Besides `BInv`, two facts carry it (`UInv`, while undisturbed): an event
whose deliveries have all settled has its status already, or a task on its way to write it
(`Owing`); and an exhausted row has its dead letter or a task about to insert it (`Burying`). A
replay in between reopens the event, which is why `Owing` speaks of the tasks and not of one
task. For `OutcomesCounted`, `CInv` says at which points of a task its call is not yet counted.

**The requests.** None of the six properties of Admission survives a step on its own, because a
request writes what it decided several statements earlier. `AInv` says of each request what it may
rely on where it waits: its event exists and was not filtered (`Place`), the sinks it holds are
routed now and, on an ingest, among those stored with the event (`Sinks`), and a screening that was
not undone by a failing detector has the verdict every other screening of the event has
(`Screened`). Of each event it says what any order of such requests leaves: without a replay no
sink twice, without an operator only the stored sinks, rows only of what the detector lets through
(`Queued`); and with a decision and no rows, either no producer has been told that the event is in
or a release has it (`Kept`). `HandleStep` goes through the handlers one by one (what a request
changes of its own memory, of its event, and of nobody else's: `HandleLocal`, `HandleQueued`,
`HandleKept`), `SettlingStep` is any step of the worker and the sweep, of which only `Settling` is
used: rows are finished but not made, stored events are settled, swept ones lose their rows.

**The composition.** `Doorman_proofs` takes the theorems of both sides as they are, from the
instances `WP` and `RP`; the lemmas `Same...` say that these instances define the actions Doorman
is made of. `RequestsImplement`: what a request writes is one of the things `Handlers` may do,
which needs `AInv` (a request under way has a running process, and an event that was stored and
not filtered). In the other direction `WorkerSettles`: a step of the worker is `Settling`. So each
side's invariant holds of the other's steps (`EngineStep`), and `Composition`, `EngineWorker`,
`EngineRequests` and `EngineOutbox` follow.

**The schema.** `SInv` says which files a stop can leave behind (`FileKnown`: the baseline, a
version with exactly its objects, any prefix of the script without a version, or a newer build's)
and where `connect` is in them (`Place`): an open transaction holds the previous version's objects
and a prefix of its migration (`Fit`), or it is the migration that will fail on a column the
script had added (`Unfit`, the finding of `MCSchema_fresh_crash`).

**The lists.** `PInv`: what is on a page lies at or above the cursor, and every row that was
listed from the start of the walk has been shown or lies below it. `Selected` says what the query
returns for every limit a client can send: the greatest rows below the cursor, in descending order,
fewer than asked for only when there are no more.

**The schedule.** `RInv` is small; the work is in `Scheduled`: what `retry_delay_seconds`, its
clamp and its jitter yield, for every exponent that can be computed.

**The service.** File, environment and request never change after the first state, so the
invariant of `Service_proofs` says, for each point of the start and of the handler, which
decisions have been taken on the way (`Loaded`, `Booted`, `Configured`, `Enabled`, `Authentic`,
`Decided`, `Holder`); what is left to prove of each property is about the validators, the filters
and the resolution of variables, for every record. `Measured` adds `Sized`: what the handler
has counted is the sum of the chunks it has taken, and `Sums` that these sums never fall.

**The text.** Redaction, sanitising and tag stripping are one recursive function over the matches
in a text (`From`), and so they are treated once: for any match lengths, `Scan` says that the
recursion has a solution and `Rewriting` that the result has only tokens that were replaced or
did not match, is no longer than the text if no replacement is longer than its match, and is the
text itself where nothing matches. Then:

- `Fence`: after `_strip_fence_tags` no opening is left, because either a pass changed nothing and
  the search found none, or all brackets are gone (`NothingOpens`), so the text around it is one
  fence, and a cut of it (`FenceCut`) is still the beginning of one.
- `Redaction`: redacting leaves no first half (`Redacted`), and neither sanitising nor stripping nor
  cutting makes one (`Values`).
- `Forgery` is the hard one: the detector reads a form of the text that was redacted once, the fence
  one that was redacted again. `SameOpenings` says that redaction neither makes nor breaks the
  opening of a tag: suffix by suffix, the sanitised redacted text and the sanitised text agree on
  whether they open a tag, continue one or end its keyword (`Alike`). It holds for every threshold
  that the score of the rule reaches, and for every text that is not a name in the payload.
- `Ordinary`: a text with no opening is not changed by stripping, nor a sanitised one by
  sanitising it again.

Inductions over a text or a body are by the least counterexample (`Least`), since the library's induction theorems, which take a predicate as a parameter, cannot be instantiated here.

## 6. Only model-checked

Liveness: `EverySettles`, `EventSettles`, `UpgradeCompletes`, `WalkEnds`, `Settles`. Fairness and
`ENABLED` are out of the prover's reach. The four runs that expect a violation are
counterexamples. Everything else that a run checks is proved.

## 7. Not modelled

- *Time.* Due times, retention and timeouts are choices, except in Retry, where the delay itself is
  the subject.
- *A power loss.* `synchronous=NORMAL` may lose the last commits (`ARCHITECTURE.md:93-94` accepts
  it, since producers retry); the models lose none.
- *Escaping and rendering*: what the Slack, HTML and Markdown filters of `templating.py` make of a
  fenced text, and the JSON text that a fenced structure becomes. Character tables and a
  third-party template engine.
- *Payload parsers and the other detector rules*: pure functions of one payload or text; the models
  take their outcomes as inputs.
- *Arithmetic of digests and networks*: a digest is right or wrong, a peer is in a network or not.
- *The joined text.* The detector scores all fields of an event as one text without the blanks at
  its ends; Text follows one field. Scores of several rules that add up are left out with the rules.
- *`--check`, the counters of `/metrics` other than `delivery_attempts_total`, logging, tracing*:
  observers; nothing reads them back.

## 8. Plan

Done: the modules, in the order Store, Dispatch, Admission, Doorman, Schema, Paging, Gate, Retry,
Outbox, Config, Service, Text; the runs of section 3; and a proof of every safety and action
property they check. Next:

1. A Store with unsynced commits, cut off at a power loss, and what is left of `NoSilentLoss` and
   `OutboxSpec` then.
2. Schema and Paging say of one file and one list what the code says of any; with the list read
   from the tables of Store, `NothingSkipped` would cover the sweep and the release as they are
   written instead of as a set that changes.
3. Shorter proofs: several leaves of `Admission_proofs` and `Text_proofs` could share more lemmas.
