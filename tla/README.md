# Formal model of the CWA eBook Translate Plugin

TLA+ modules for the parts of the repository in which threads, processes,
browser events or crashes interleave; TLC runs on small instances; TLAPS proofs
for every instance. Paths without a directory (`translator.py`, `cache.py`) are
relative to `src/`.

## The system

A reader (Calibre-Web-Automated or Kavita) is served through an injection proxy
that adds `static/loader.js` and `static/translator.js` to its pages. The script
finds the paragraphs on the page and sends them to the translator API
(`server.py`, Flask under gunicorn with one worker and eight threads). The API
looks them up in a SQLite cache (`cache.py`), asks a primary and possibly a
fallback provider for the rest (`translator.py`), within a budget per request
(`work_budget.py`) and sharing identical work (`singleflight.py`). The command
`btctl` installs, adopts, reconfigures, migrates and removes the containers.

| Part | State | Operations | Hard because |
|---|---|---|---|
| Single flight, `singleflight.py` | registry key → flight, flight objects, counters | `run`, `invalidate`, `stats` | leaders and followers in several threads, follower time-outs, expiry and eviction at capacity |
| Work budget, `work_budget.py` | attempts, bytes, tokens, cancel reason, deadline | `reserve_attempt`, `cancel`, `ensure_active` | shared by all workers of a request |
| Provider call, `translator.py` `_complete`, `_call_provider` | upstream semaphore, metrics, loop variables | check, queue, reserve, resolve, send, retry, fall back | many exits that all must give the slot back; deadline, ambiguous 429, consent |
| Streamed translation, `translate_text_stream`, `stream_gen` | slots held, deltas so far, row to write | advance, fall back, finish, break, close | generators driven by a client that may leave |
| Batch translation, `translate_batch_detailed`, `BatchRecoveryTracker` | groups, futures, items, recovery counters | lookup, submit, collect, recover, write, publish | workers that outlive their request |
| Cache, `cache.py` | rows, pending hits, write watermark | `get`, `put_many`, flush, `cleanup`, `stats`, prune | statements of several threads, failed transactions, restart |
| Admission and authentication, `server.py`, `auth.py`, `reader_session.py` | two rate windows, attempts per client, sessions, cached decisions, shared probes | hook, probe, exchange, revoke, sweep | tables at capacity, a clock read before a lock, addresses that change, answers that arrive late |
| Cleanup credential, `server.py` | token file, `flock`, a cached copy per process | first use, use | several processes create it at once; death in between |
| Reader engine, `static/translator.js` | generation, queues, pump, caches, controllers | page, language, mode and route events, timers, answers | every await: state read before and used after it |
| Bootstrap and drawing, `static/loader.js`, rest of `translator.js` | session promise, DOM, saved originals | refresh, draw, restore | refreshes at once, drawing over drawing |
| Split runtime, `btctl_compose.py`, `btctl_unraid.py`, `btctl_lifecycle.py` | Docker objects, `state.json`, `install-attempt.json` | install, adopt, uninstall | a crash or error between any two effects |
| Reconfiguration, `btctl_reconfigure.py` | `api.env`, snapshots, journal, API container | reconfigure, recover, roll back | the same, with the recovery itself interrupted |
| Legacy migration, `btctl_lifecycle.py` | two runtimes, data trees, migration journal | upgrade, retry, re-upgrade, rollback | never two writers, never lost data |
| Hub lifecycle, `btctl_hub.py` | two topologies, data trees, attempt, state, migration journal | install, uninstall, migrate, roll back, doctor | the same, with commands inside commands |
| Hub runtime, `hub_runtime.py`, session key of `reader_session.py` | child processes, key files | prepare, start, supervise, stop | children that die, ignore signals or cannot be started; a restart by Docker |
| Evidence stores, `btctl_core.py`, `btctl_hub.py` | files and directories of the state directory | save, remove, archive | a power loss takes back what no `fsync` has covered |

The parts meet at few places. The browser sends `/translate`, `/translate/batch`
and `/translate/stream` and sees 200, 401, 409, 429 or nothing. A request owns one
budget; its workers share it and the process-wide semaphore. Requests share the
cache and the single-flight registry. The `btctl` commands share `state.json` and
exclude each other by `OperationLock`; those of the hub hold the locks of every
runtime they touch. A request meets admission first, and the hub serves one API
per reader behind one nginx.

## Modules

| Module | Models | A step is |
|---|---|---|
| `SingleFlight` | `SingleFlight.run`, `invalidate`, `stats` | one block under `self._lock`, the end of an operation, the end of a wait |
| `WorkBudget` | the methods of `WorkBudget`, as operators on a record | – |
| `ProviderCall` (extends `WorkBudget`) | `_complete`, `_call_provider`, `_UPSTREAM_SEM` | what a worker does between two points at which another thread matters |
| `StreamTranslation` (extends `WorkBudget`) | `stream_gen`, `translate_text_stream`, `_call_provider_stream` | one pull of the generator chain, up to the next wait |
| `BatchRequest` (extends `WorkBudget`) | `_translate_paragraphs`, `translate_batch_detailed`, `_do_group`, `BatchRecoveryTracker` | one step of the request thread or of a worker |
| `TranslationCache` | `CacheStore` | one SQL transaction or one block under a lock |
| `ReaderClient` | the engine of `static/translator.js` | one handler up to its next await |
| `Reconfigure` | `btctl reconfigure` with `OperationLock` | one durable effect |
| `Deployment` | install, adopt, uninstall | one durable effect |
| `LegacyUpgrade` | upgrade, rollback | one durable effect |
| `HubMigration` | install, uninstall, migrate and rollback of the hub, what doctor looks at | one durable effect; a command may run inside another |
| `Admission` | `before_request_hook`, `/session`, `auth.py`, `reader_session.py` | one block under a lock, or the answer of the reader |
| `StateStore` | `StateStore`, `InstallAttemptStore`, `HubStateStore` | one system call |
| `EvidenceStore` | what commands rely on: atomic registers, durable once written (abstract) | one change, return, interruption or power loss |
| `HubRuntime` | `prepare_runtime`, `supervise`, `_stop_processes`, `main`, the session key, Docker's restarts | one call of the supervisor, one event of a child |
| `CleanupToken` | `_get_cleanup_token`, `_persist_cleanup_token` | one system call of a worker |
| `Host` (extends `StateStore`, `HubRuntime`, `CleanupToken`) | one machine: a command of btctl, the container and its workers, with kills, failing calls and power loss | a step of one part, or a fault of all |
| `Lists` | the part of a list at a set of positions, a list without one element, as functions (used by `Admission` and `ReaderClient`) | – |
| `TextProofs` | theorems about `SingleFlight` and `StreamTranslation` | – |
| `BatchProofs` | theorems about `TranslationCache` and `BatchRequest` | – |
| `RequestProofs` | theorems about `Admission` and `ReaderClient` | – |
| `RuntimeProofs` | theorems about `Reconfigure` and `Deployment` | – |
| `ProviderCallProofs`, `LegacyUpgradeProofs`, `HubMigrationProofs`, `HostProofs` | theorems about the module each is named for | – |

Two models proved in one module are both extended by it and therefore share no
name (`Spec` and `DeploySpec`, `TypeOK` and `ReaderTypeOK`); they do not interact.

Variables keep the names of the code where TLA+ allows it; `map` in `PROJECT.json`
gives the lines of every definition. What is abstracted:

- **Data.** A paragraph, a cache key, an environment file, a data tree and a
  manifest are model values: the properties only compare them. A translation is
  the language or the provider it came from. A digest is the content it is of.
- **Time.** `SingleFlight`, `TranslationCache` and `Admission` count ticks, since their limits
  compare times (in `Admission` a thread may be delayed by `Stall` ticks between two
  blocks and a probe by `Timeout`, so a reading of the clock can be stale when it is
  used); elsewhere a deadline, a pause or a rate limit is a flag.
- **Answers of providers** are grouped by how the code treats them (the header of
  `ProviderCall`).
- **Failures of commands.** `Raise` (`CommandRaises` in `Deployment`) makes the current
  effect fail, `Crash` (`CommandKilled`) ends the process; both between any two
  effects, bounded by `MaxFaults` (`MaxFailures`). `HubMigration` has
  a handler per command, so an exception runs the code's own recovery, which can
  fail too. An effect may raise not made or made: a write can fail when it syncs the
  directory after `os.replace` (`btctl_core.py:1598`, `btctl_hub.py:381`,
  `btctl_unraid.py:151`), and an interrupt can come before its result is taken. Made
  and raising is `RaiseLate` in `Deployment` (constant `LateFailure`), `HubMigration`
  and `LegacyUpgrade`; in `Reconfigure`, where each handler decides from the files,
  it is an alternative of `Raise` for `StateStore.save`. Effects that are not listed
  there leave, late, what a kill leaves or what is left when the next one raises and
  is not made. Files are replaced by rename, so a crash leaves the old or the new
  content; that the stores do provide this, over a power loss too, is `Durable` of
  the run `host`.
- **Templates that nothing names.** `stray` in `Deployment` holds the Unraid templates
  whose write raised after its rename: the code notes a template in
  `copied_templates` only when the write has returned, so no cleanup removes them
  (`btctl_unraid.py:510`, `:533`).
- **Objects made by hand.** Between commands of `Deployment` the operator may put an
  object or a key in the place of ours (`Recreate`) or restore a backup
  (`RestoreBackup`).
- **One command at a time.** `Reconfigure` models the lock with two operators;
  `Deployment`, `LegacyUpgrade`, `HubMigration` and `Host` rely on it and have one
  command under way.
- **Files.** In `StateStore`, `HubRuntime` and `CleanupToken` a name refers to one
  content now and to a set of contents the disk may hold. A directory entry is only
  certain once its directory was synced, and a directory once its parent was. A
  power loss chooses. Ownership and modes are never wrong.
- **Trees.** What `_tree_manifest` digests in `HubMigration` is a count of database
  writes and whether a session key is there.
- **Requests** with malformed headers or cookies are refused before any state of
  `Admission` is used and do not occur in it.
- **JavaScript.** The variables of `translator.js` are the record `client`; a
  handler is a function from `client` to `client`. An aborted fetch rejects in a
  microtask, hence before any other handler (`Settled`). The wait for a new
  policy after a 409 is folded into the wait for the answer.

External, modelled from its use: the clock, the provider, SQLite's commit or
rollback, Docker and the legacy container, the reader's own sessions, the kernel's
file system and process calls, the browser's event loop.

## Runs

`tlc -config <cfg> <module>` for each run of `PROJECT.json`. Every property of a
passing run has a mutant: a plausible wrong version of one mapped definition under
which TLC finds the property violated.

| Run | Bounds | Shows |
|---|---|---|
| `singleflight` | 3 callers, 2 keys, 1 entry, retention 1 tick, 3 calls | One operation per key (`OneOperationPerKey`), exact waiter counts when time-outs race completion (`WaiterAccounting`), no result older than the retention shared (`SharedResultFresh`), followers return though a leader hangs (`FollowersReturn`). |
| `provider_call` | 2 workers of one request, 1 slot, 2 tries, cloud fallback | Each exit gives the slot back once (`SlotsConserved`), limits hold under concurrent reservations (`BudgetRespected`), no call follows a 429 (`RateLimitIsFinal`), the cloud fallback is used only with consent and after a failure that allows it (`FallbackOnlyWhenPermitted`), and every call ends though no provider answers (`EveryCallEnds`). |
| `translation_cache` | 2 threads, 3 keys, cap 2, flush threshold 2, 5 calls and restarts | No hit lost or counted twice when a flush fails or overlaps another (`HitAccounting`), `cleanup` and `stats` see all hits queued before (`FlushBarrier`), deletion of expired rows spares rewritten ones (`FreshRowsSurvive`). |
| `stream` | 2 streams, 2 slots, 2 deltas; the primary sends deltas, the fallback one whole answer | A row is stored only under a provider that answered to the end with something; what it holds of the other one was sent before that one's connection broke (`CachedIsAnswered`). Every stream ends (`EveryStreamEnds`). |
| `batch` | 3 groups of 2, 2 and 1 paragraphs, 2 threads, 4 attempts, 6 input bytes (a paragraph costs 1), 5 initial caches | Recovery work reaches the metrics exactly once whenever the sink is attached (`PublishedOnce`), nothing is reserved after a request failed, be it that a group ran out of attempts or of bytes while a smaller call of another group would still fit (`NoWorkAfterFailure`), every request ends (`EveryBatchEnds`). |
| `reconfigure` | 2 operators, 3 environments of which two share a fingerprint, 3 runs, 2 faults | Without a journal, files, state and container agree (`NoJournalMeansWhole`); before the commit the old state can be restored (`OldStateIsRestorable`); what is reported committed is live (`CommittedIsLive`). |
| `deployment` | both profiles, with and without session key, 6 commands, 4 faults, late failures | Every object of ours but a `stray` template is covered by a journal or state (`NothingOrphaned`), a failed install that reports it cleaned up left nothing but such a template (`CleanedIsClean`), what is removed carries the id of the attempt that cleans up or of the state that is uninstalled; the key alone goes with an uninstall whoever put it there (`OnlyOwnRemoved`; `docs/operations/lifecycle.md:129` has the key go). |
| `legacy_upgrade` | 5 commands, 3 faults, early and late, 3 writes | Never two writers (`OneWriter`), an upgrade that failed by a single fault does not leave both stopped (`NeverDark`), data of the new runtime is kept (`TargetPreserved`). |
| `reader_client` | 2 paragraphs, 2 pages, 2 languages, 2 events, answers with a rate limit or an expired session | Nothing is stored under a wrong language although requests are built after an await (`RightLanguage`), one pump (`OnePump`), a new generation aborts what is at the API (`CancelsWork`). |
| `hub_migration` | 2 readers, each with an API and a proxy, 4 commands, 2 faults, early and late, 1 write | A hub that a cutover installed and that is there holds every translation of its sources (`CutoverComplete`), a migration that fails leaves its readers served by the sources or by the hub (`ReadersStayServed`), a hub container is known to evidence, and one that doctor calls healthy can be uninstalled unless the cleanup of its own install failed (`HubAccountedFor`), no topology starts beside the other (`OneTopology`). |
| `admission` | 1 browser, 2 addresses, 2 threads, both session modes, every table of size 1, windows of 2 ticks, 3 requests, 3 ticks | No window admits more than its limit although buckets are dropped under pressure and refilled (`WindowRespected`), the count of attempts equals the attempts under way on every path (`InflightExact`), nobody is let in on a decision older than its lifetime and two delays of a thread (`AuthIsFresh`). |
| `host` | 2 readers, 2 workers, 2 commands, 2 faults among all parts | A container that Docker keeps up is known to evidence that a power loss cannot undo (`RuntimeIsWitnessed`), all workers give one token (`OneToken`), the stores implement `EvidenceStore` (`Durable`), and a hub that is wanted serves every reader again (`ServesAgain`). |

The bounds allow the cases the properties are about: two callers on one key while
a third finds the registry full; two workers and one slot; a batch with more groups
than threads and fewer attempts and bytes than a full recovery takes, so that groups
really exhaust the budget beside others that run; more keys than the row
cap; a page with more paragraphs than the rush takes; a fault, the recovery from
it, and a fault in that recovery; a failed migration, a plain install and a second
migration; a client table with room for one of two addresses; a power loss after a
killed command. In `admission` a reading of the clock lags by one tick at most
(window 2, `Stall` 1); theorem `LimitsHold` covers every other window and delay.
`NeverDark` speaks of one fault: with two, the handler that restarts the service may
itself fail. A rerun that the code refuses after a kill changes nothing and is no step
of `LegacyUpgrade` or `HubMigration`; what it leaves is the state the kill left.
In `stream` only the first provider sends deltas; theorem `CachedStreamsAreAnswered`
covers a second one that does, too.
`CHECK_DEADLOCK FALSE` stands where the bound on commands, events
or requests ends the behaviour.

**Fairness.** Threads take the steps they can take, and time passes: every wait in
`ProviderCall`, `BatchRequest` and `StreamTranslation` has a timeout bound to the
request's deadline, and `Expire` is fair. Providers, DNS and the operations of
leaders are not assumed to answer. A stream moreover needs a client that reads or
is noticed to be gone (the server's write fails). In `Host` the supervisor and
Docker move on by themselves (`HubAlone`) and a system call returns or raises
(`StoreMoves`); commands, workers and children are not assumed to do anything. The
other runs have no liveness property and no fairness.

**Refinement.** `StateStore` maps its files to the registers of `EvidenceStore`
(`INSTANCE EvidenceStore WITH reg <- vis, may <- ...`); `Durable` is the abstract
specification. It says that a save, removal or archive changes a register at one
instant, that readers never see a torn document, and that a returned operation is
not undone by a power loss. What it does not promise is named: a directory whose
creation was interrupted is an orphan, since no later call syncs its parent.

## Proofs

`tlapm <Module>.tla` for the eight proof modules. Every theorem holds for all values
of the constants: the runs show the same properties on small instances.

| Module | Theorem | States |
|---|---|---|
| `TextProofs` | `OneOperation` | `OneOperationPerKey` of the run |
| | `WaitersExact` | `WaiterAccounting` |
| | `SharedResultsAreFresh` | `SharedResultFresh` |
| | `OutcomesAreStable` | `OutcomeStable`: a completed flight keeps its outcome and its time |
| | `CapacityHolds` | `CapacityRespected`: the registry never exceeds `max_entries` |
| | `CachedStreamsAreAnswered` | `CachedIsAnswered` |
| | `StreamSlotsAreConserved` | `SlotsConserved` of `StreamTranslation` |
| | `StreamMetricsBalance` | `MetricsBalance`: every attempt of a stream is settled, under way or counted as never settled |
| `ProviderCallProofs` | `SlotsAreConserved` | `SlotsConserved` |
| | `BudgetsAreRespected` | `BudgetRespected` |
| | `RateLimitsAreFinal` | `RateLimitIsFinal` |
| | `FallbackIsPermitted` | `FallbackOnlyWhenPermitted` |
| `BatchProofs` | `HitsAreAccountedFor` | `HitAccounting` |
| | `RetentionFollowsTheFlush` | `FlushBarrier` |
| | `RowsGoForAReason` | `FreshRowsSurvive`, an action property |
| | `WatermarkBoundsTheTable` | `CapPlusWatermark`: what `put_many` does promise about the cap |
| | `CountsArePublishedOnce` | `PublishedOnce` |
| | `FailureStopsTheWork` | `NoWorkAfterFailure`, an action property |
| | `ReportedReasonIsALimit` | `ReasonIsReported`: a failed request names a limit, never the bare "cancelled" of another worker |
| | `ParagraphsAreAnswered` | `EveryParagraphAnswered`: a request that answered has one item for every paragraph, in its place |
| | `RecoveryIsCounted` | `RecoveryMatchesItems`: the recovery counters of such a request agree with its items |
| | `WholeGroupsAreWritten` | `WrittenGroupsWhole`, an action property: only whole envelopes of one provider are cached |
| `RequestProofs` | `LimitsHold` | `WindowRespected` |
| | `CountersAreExact` | `InflightExact` |
| | `AuthenticationIsFresh` | `AuthIsFresh`, an action property |
| | `TextsAreInTheirLanguage` | `RightLanguage` |
| | `ThereIsOnePump` | `OnePump` |
| | `NewGenerationsCancel` | `CancelsWork`, an action property |
| | `OffStaysQuiet` | `OffIsQuiet`: when translation is off nothing is queued or sent |
| | `FailuresAreRemembered` | `FailedUntilRetry`, an action property: a failed paragraph stays marked until the reader asks again |
| `RuntimeProofs` | `WholeWithoutJournal` | `NoJournalMeansWhole` |
| | `OldStateStaysRestorable` | `OldStateIsRestorable` |
| | `CommitsAreLive` | `CommittedIsLive` |
| | `RunsReportTruly` | `ReportsAreTrue`, an action property |
| | `HolderWrites` | `OnlyHolderWrites`, an action property |
| | `NothingIsOrphaned` | `NothingOrphaned` |
| | `CleanedAttemptsAreClean` | `CleanedIsClean` |
| | `OnlyOwnIsRemoved` | `OnlyOwnRemoved`, an action property |
| | `ActiveStatesAreWhole` | `ActiveStateIsWhole`: `state.json` claims only a complete runtime, assuming that what raises is not made (`LateFailure = FALSE`) |
| `LegacyUpgradeProofs` | `OneRuntimeServes` | `OneWriter` |
| | `OneFaultIsNotDark` | `NeverDark` |
| | `CommandsKeepTheTarget` | `TargetPreserved`, an action property |
| | `ClosedJournalsAreTrue` | `RolledBackIsLegacy` |
| | `CutoversKeepLegacyData` | `SnapshotIsLegacy`: while a role of an installed cutover is up, its snapshot is what legacy wrote last |
| `HubMigrationProofs` | `NothingLeftBehind` | `CutoverComplete` |
| | `FailureIsServed` | `ReadersStayServed` |
| | `HubIsOwned` | `HubAccountedFor` |
| | `OneTopologyAtATime` | `OneTopology`, an action property |
| `HostProofs` | `OneCredential` | `OneToken` |
| | `EvidenceIsDurable` | `Durable`: the stores implement `EvidenceStore` |
| | `RuntimesAreWitnessed` | `RuntimeIsWitnessed` |

The type invariants are theorems too (`TypeCorrect`, `StreamTypeCorrect`,
`DeployTypeCorrect`) or part of the invariant. They do not hold by types alone: that
a counter which is decremented stays a natural number needs the accounting.

The arguments, by the invariant that carries each:

- **SingleFlight.** `IInv == TypeOK /\ FlightReferences /\ WaiterAccounting`.
  `FlightReferences`: a caller in an operation refers to a flight that is not
  completed and that the registry still holds under the caller's key, and no two
  callers lead one flight. Expiry and eviction only drop completed flights
  (`ExpireDropsCompleted` and the lemmas after it), so a second leader for a key
  would need a place that is not empty to be empty. `RetainedFresh`: what expiry left
  is younger than the retention; capacity needs that eviction makes room or refuses.
- **StreamTranslation.** `StreamInv`: the permits a stream holds and the attempt it has
  open are functions of where it stands, so the semaphore and the counters are sums
  over the streams, each step of which changes one summand (`Units`). `RowsStand`: a
  stream that wrote a row has sent something and sends nothing more. `HeardInv` ties
  what was sent to what the providers answered: a translated stream ended with an
  answer of its present provider, and a delta of another one is there only if the
  connection of that one broke. `HeardOK` says it for every place of the loop.
- **ProviderCall.** `WorkerInv` tells for each label what the worker holds: the slot
  from its acquisition to the `finally`, a reservation from `reserve_attempt` to the
  wire, the history of answers that its loop variables summarise.
  `ReservationsCover`: the calls counted never exceed what was reserved, so
  interleaved workers cannot spend one attempt twice.
- **TranslationCache.** `Flushing`: whoever swapped the counter out holds
  `_flush_lock`, and nobody else has hits in hand; the sum over the threads in
  `HitAccounting` is then the counter of one thread (`TakenSum`). `Barrier`: when the
  flush of a call has swapped, what is pending was queued after the call began; when
  the call goes on to retention, so was all that is in memory. A flush that fails
  puts hits back, but then no other call stands between its swap and its commit.
  `Located`: a thread about to evict remembers a stamp that has expired, so a row with
  that very stamp is old. `Capped`: the watermark stays below its threshold even if
  the prune it triggered rolled back.
- **BatchRequest.** `Tracker`: what a worker or the request thread has read under the
  lock and not yet published, together with what the sink has, is what was counted;
  the sink is detached under the same lock. `FailedIsCancelled`: as soon as a
  worker has raised or the request has failed, the budget is no longer active, and
  then it reserves nothing, whichever worker asks. `Covered`: until the request fails
  a group is in the response, still to be submitted or with a worker that is in the
  window; `Answered`, that a worker returns without raising only with a whole group,
  turns this into an item for every paragraph. `CountsExact` equates each
  counter with the size of a set of groups or segments (`Tally`).
- **Admission.** `Vouched`: a bucket holds, for every admission that still counts, a
  stamp at least as new, whatever was pruned, swept or reclaimed; `Stamped` and
  `Clocks` bound how far a reading of the clock can lag. `Counter` equates the count of
  an address with the threads inside, `Tables` bounds the age of what entries and
  shared answers hold, `Threaded` says what a request knows at each label.
- **Reconfigure.** `FilesInv` is what a crash leaves at any instant: no journal and
  one generation, or a journal beside the old state, a commit, or a state recovery
  refuses. `RunInv(p)` says how far the holder of the lock has come, what it has
  copied, and that everyone else is idle.
- **ReaderClient.** An item or request of the present generation is in the present
  language, since whoever changes the language begins a generation
  (`GenerationRenewed`); an older one is stopped by the guard on stale answers, so
  what is stored is in the language it is stored under, though it was built before an
  await. `Pumping`: one batch is out while the pump waits and none otherwise, in
  every state of the record between two awaits. `Carries` says what a handler keeps within a generation and `Moves`
  what it may do to a request, handler by handler, since all of them rewrite one
  record.
- **Deployment.** `DeployInv` relates the objects to the rest of the plan. An attempt
  under way is the newest id and all that is served is its own (`AttemptOK`); outside
  of one, what is served is of the newest install or made by hand (`NewestOK`); install
  arms the attempt before it makes anything and has either the state to commit or
  done so (`InstallOK`); as long as its cleanup has noted no error, what is left is
  still to be removed (`CleanOK`), so at the end nothing is left or an error is noted;
  the same for uninstall and its record (`UninstallOK`), in which the key is removed
  before its removal is recorded (`KeyOrder`). That each plan has this shape
  when it begins follows from how it is joined from parts (`Chained`, `Closed`,
  `Joining`). `WholeOK` adds the order of effects (`Ordered`): the commit comes when
  nothing is left to make, and the key goes when the API that needs it is gone.
- **LegacyUpgrade.** The invariant is told by the next effect of the command
  (`PlaceOK`, `LocalsOK`, `JournalOK`). `CalmOK` and `LightOK` speak of behaviours with
  no fault and with one: without a fault the preflight cannot fail, and with one no
  handler is itself interrupted, which is what `NeverDark` needs. The cleanup of an
  install may run beside its own saved state; state and journal are therefore tied to
  legacy's data only while legacy is stopped (`JournalOK`), and `SnapshotIsLegacy`
  follows by `OneWriter`, since a role that is up means that it is.
- **HubMigration.** `FilesInv` is what any effect may leave: a container is accounted
  for by the attempt or the state that names it (`OwnerOK`), it mounts trees that
  exist (`DataOK`), and beside a hub that migrate installed no source runs and every
  source's data is in its tree (`CutoverOK`). Of a state without its container, which a
  late failure of its save leaves behind, they say nothing but its id. `RunInv` adds what the command in
  progress knows, told by its next effect. Two facts carry the cutover: from the first
  comparison on no source runs, so what was compared or copied stays the last word of
  its source (`TryOK`); and a source is started again only when the hub is gone or the
  rollback has been recorded (`HandlerOK`). A hub that is installed with at most the
  attempt of its own install still open (`Settled`) can always be uninstalled
  (`ActiveAllowed`), so the handler of migrate is not refused one. `ServedOK`:
  an install over a failed migration leaves running what that migration restarted.
- **Host.** `TokenInv`: the `flock` keeps look and replacement together, and what a
  maker returned is all the disk can hold. `StoreInv` says for every phase of a system
  call sequence what the name refers to and what the disk may hold; each step is then
  a step of `EvidenceStore` or a stutter (the refinement, step by step). `CommandInv`:
  the next call of a command is harmless to the evidence that a wanted container
  rests on.

The assumptions are those of the modules, and say what the code has: finite sets of
callers, workers and threads; limits, capacities and thresholds that are positive;
`None`, `NoKey`, `NoThread` and `"free"` are not values of the sets they stand beside;
`ContentsAssumption` tells a document from a half-written one and an archived
document from the names of the two files; `HostAssumption` says which documents the
commands write; `EligibleAssumption` keeps the empty name for "no provider". TLC evaluates each of them on the run of its module. Proving `CountsArePublishedOnce`
showed that no initial cache of the run `batch` held every paragraph; it now has one.

Counting rests on `FiniteSetTheorems`. A sum or a list is written as a set where a
proof needs it: `SumHits` counts the single hits of a counter, and a bucket is what
`Picked` keeps of a sequence.

Left to TLC:

- liveness (`FollowersReturn`, `EveryCallEnds`, `EveryStreamEnds`, `EveryBatchEnds`,
  `ServesAgain`): the prover has no `ENABLED`. Every safety and every action property
  of the runs is a theorem;
- `TotalMatchesCounter` of `TranslationCache`, `CopiedKeysKept` of `HubMigration`, and what the table of further facts
  below lists without a theorem;
- what a recursive definition computes for every input: the library's induction
  theorems take an operator, which the provers cannot instantiate. No module declares
  a `RECURSIVE` operator.

## Where code and text disagree

Each row is a sentence of the repository, stated as a formula of a module, that TLC
refutes for what the code does. To reproduce one, name it as the only INVARIANT
(PROPERTY where it is an action formula) of a configuration for the module; the
constants are those of its run unless the row says otherwise.

| Statement | Module | What happens |
|---|---|---|
| `CachedUnderItsProducer` | `StreamTranslation` | after the primary's connection breaks in mid-stream the fallback goes on, the parts are joined and cached under the fallback's scope (`translator.py:1757`, `server.py:1798`); `cache.py:3` says a translation is only valid in the scope that produced it |
| `PollKeepsWork` | `ReaderClient` | the 350 ms poll and `scheduleTranslate` both own `lastFirstVisibleHash`; a tick that is not translating finds a "page turn", starts a new generation and aborts the prefetch in flight (`static/translator.js:2243` and `:2124`) |
| `CommittedStopsSources` | `HubMigration` | a plain install after an unfinished migration is adopted by the next migrate, which commits without stopping the sources (`btctl_hub.py:1515`, ADR-015 "stops exact schema-1/2 source roles") |
| `DoctorSeesAttempt` | `HubMigration` | after an attempt that could not be removed the operator is told to run doctor (`btctl_hub.py:899`), which does not look at `install-attempt.json` and reports healthy (`btctl_hub.py:951`) |
| `NoOrphans` | `StateStore` | "durably publish every new path entry" (`btctl_core.py:114`): a directory made by an interrupted call exists for the next one, which therefore does not sync its parent |
| `SaveStaysPossible` | `StateStore` | a first save that is killed leaves its temporary file; while `state.json` is missing every later save refuses the directory (`btctl_core.py:1571`) |
| `NeverStuck` | `HubRuntime` (run of `Host`) | "Load or atomically create" (`reader_session.py:579`): a stop between the exclusive creation and the write leaves a short key, and every later generation exits with 78 |
| `HardCap` | `TranslationCache` | `put_many` prunes on a watermark, so up to `min(1000, max_entries)` rows beyond the "Mandatory row cap" exist (`cache.py:571`, `docs/reference/configuration.md:186`) |
| `RateLimitIsFinal` | `StreamTranslation` | the status of a streamed answer is not looked at; after a 429 the second provider is called (`translator.py:1680`, comment at 1349) |
| `RefusedOnlyWhenBusy` | `StreamTranslation` | a stream over a provider without streaming holds one slot while it waits for a second (`translator.py:1709`) |
| `RerunRecovers` | `Reconfigure` | a stop inside `_cleanup` leaves a journal without snapshots, which every rerun refuses (`btctl_reconfigure.py:472`, `docs/operations/lifecycle.md:67`) |
| `ReinstallSupported` | `Deployment` | an `install-attempt.json` left behind a commit blocks every later install (`btctl_compose.py:1038`) |
| `UninstallRetryable` | `Deployment` | a stop between the removal of the session key and its record makes retries fail (`btctl_lifecycle.py:563`) |
| `CleanedLeavesNothing` | `Deployment` | a template whose write raised after its rename is in no list: the attempt is closed as cleaned and the template stays (`btctl_unraid.py:151`, `:510`, `:533`); `docs/operations/troubleshooting.md:325` "removes only newly created translator runtime resources [...] If cleanup completes, `install-attempt.json` records `status=cleaned`" |
| `FailedInstallLeavesNoState` | `Deployment` | a save that raises after the rename leaves an installed state without a runtime (`btctl_compose.py:1036`) |
| `StateIsCutover` | `HubMigration` | a save of the state that raises after its rename (`btctl_hub.py:381`) is taken for a failed install: the hub is removed, the sources start and write, and `state.json` stays installed with the migrated id; from then on install, uninstall and migrate refuse. `docs/operations/lifecycle.md:165`: "State is committed only after live postconditions pass" |
| `HealthyIsRemovable` | `HubMigration` | after the same save and a removal that fails too, the hub runs, its state is installed and its attempt `cleanup-failed`: doctor reports healthy and uninstall refuses it (`btctl_hub.py:1098`); `docs/operations/lifecycle.md:161` has the matching uninstall reconcile the attempt "if state committed but final journal removal failed" |
| `StateIsCutover` | `LegacyUpgrade` | the same in `btctl_compose.py:1036`: the runtime is cleaned up and legacy writes on beside a state that says installed |
| `AdoptsLiveCutover` | `LegacyUpgrade` | a re-upgrade that was killed with the new runtime live is not adopted by the rerun (`btctl_lifecycle.py:1384`) |
| `ActiveIsRecoverable` | `LegacyUpgrade` | an install that raises after its commit leaves a state neither upgrade nor rollback accepts (`btctl_lifecycle.py:1541`) |
| `RollbackResumes` | `LegacyUpgrade` | an interrupted rollback of an unfinished journal is refused (`btctl_lifecycle.py:1604`) |
| `QueueHasPump` | `ReaderClient` | a rush item answered 429 goes into a queue without a pump (`static/translator.js:1868`); Answers = {"limited"} |
| `RetryBudget` | `ReaderClient` | 429 answers to rush items are not counted; Answers = {"limited"} |
| `FailedIsNotResent` | `ReaderClient` | the pump does not filter failed paragraphs (`static/translator.js:1662`); Answers = {"network"} |
| `NoAutomaticReplay` | `ReaderClient` | a failed stream is repeated as a single request (`static/translator.js:1556`) |
| `ErrorsAreNotStored` | `ReaderClient` | a stream that ends with an error event is kept as a translation (`static/translator.js:1529`); Answers = {"broken"} |
| `StaleIsNotSent` | `ReaderClient` | a request that waits for the provider policy is posted although its generation has ended (`static/translator.js:1377`) |

Two more, seen while modelling and not stated as formulas: a rollback of the hub
that is killed between the two records of its end refuses to be run again; and a
cleanup token whose maker died before syncing it may be handed out by another
worker and be gone after a power loss (`OneToken` therefore compares, over a power
loss, the tokens their makers returned).

The modules also state facts that hold and are not among the runs; those marked * are
theorems:

| Module | Facts |
|---|---|
| all | the type invariants |
| `SingleFlight` | `CapacityRespected`*, `AnswerIsOutcome`, `OutcomeStable`*, `ActiveEntriesExact` |
| `ProviderCall` | `MetricsBalance`, `UnavailableMeansExhausted` |
| `StreamTranslation` | `SlotsConserved`*, `MetricsBalance`* |
| `TranslationCache` | `CapPlusWatermark`*, `TotalMatchesCounter` |
| `BatchRequest` | `ReasonIsReported`*, `WrittenGroupsWhole`*, `EveryParagraphAnswered`*, `RecoveryMatchesItems`* |
| `Reconfigure` | `OnlyHolderWrites`*, `ReportsAreTrue`* |
| `Deployment` | `EveryCommandEnds` (under `FairDeploySpec`), `ActiveStateIsWhole`* (with `LateFailure = FALSE`) |
| `LegacyUpgrade` | `RolledBackIsLegacy`*, `SnapshotIsLegacy`* |
| `ReaderClient` | `OffIsQuiet`*; `FailedUntilRetry`*, for TLC with Answers = {"network"}; `PumpEnds` under `FairReaderSpec` with one event, every kind of answer and `Rediscovers = TRUE`: timers fire, a fetch is answered or aborted by `REQUEST_TIMEOUT_MS`, events are finite |
| `HubMigration` | `CopiedKeysKept` |
| `HubRuntime` | `KeyIsWhole`, `StopsTogether`, `FailsFast` |
| `Admission` | `TablesBounded` |

## Not modelled

- Pure code: parsing and validation of environments, requests, addresses, headers
  and cookies; prompt building, batching by size, hashing, templates and rendered
  compose files.
- Adapters that only build argument lists (`btctl_docker.py` beyond what its calls
  do to data and containers, the mount plans of `btctl_container.py`), the injection
  proxy, the command line, scripts and benchmarks.
- The authentication modes `token` and `forwarded`: they compare one header and keep
  no state.
- In `ReaderClient`: drawing and restoring of originals, the status display, the
  consent switch, and the persistent browser cache, which is off by default.
- `static/loader.js`: the session promise and its refresh timer; `ReaderClient` takes
  a refresh as one step that succeeds or fails.
- In `TranslationCache`: schema migration.

`PROJECT.json` lists every part with the reason.

## Plan

1. Proofs: the further facts without a mark, first `AnswerIsOutcome` of
   `SingleFlight`, `TotalMatchesCounter` of `TranslationCache` and `CopiedKeysKept` of
   `HubMigration`.
2. Models: `ReaderDom` (drawing over drawing, restoring of originals) and `loader.js`
   (session promise, refresh timer, route activation).
