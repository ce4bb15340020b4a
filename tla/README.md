# A formal model of krypx

TLA+ modules, TLC runs and TLAPS proofs for `crypto_ai`: a research system that
collects GDELT GSG sentiment files in a tightly budgeted, prospective pilot,
keeps everything it collects in immutable, content-addressed form, and evaluates
models under one-shot holdout claims. Its numerical work is ordinary. What is
hard is the protocol around it: durable budgets, write-once publication, receipts
that account for every request, and processes that may die at any step; and the
few algorithms on which the meaning of its results rests: what was known when,
which rows a model may learn from, which trades a decision stands for. The models
are about those.

Paths below are relative to `src/src/crypto_ai/` unless they say otherwise.

## 1. Inventory

| Part | State it keeps | Operations | Hard behaviour | What makes it correct |
|---|---|---|---|---|
| pilot budget journal, `sentiment/network_budget.py` | a directory with `checkpoint.json` (the flock is on it) and one `event-<n>.json` per event; in memory the head, the counters, the pending and halted flags | `locked`, `record_request`, `record_received`, `finish_request`, `stop`, `_append`, `_load` | two processes; death and host crash between the event file, memory and the in-place checkpoint; failed system calls; a chunk that crosses the cap | nothing acknowledged is lost, no attempt is sent twice or too early by any sequence of sessions, bytes never pass the cap by more than one chunk, an unresolved exchange or a stop ends the pilot |
| content store, `sentiment/storage.py` | `objects/sha256/..`, `publications/<id>/`, staging directories | `put_bytes`, `publish_bundle`, `read_publication` | racing writers, failure at every step, entries visible before they are durable | a name shows a complete bundle or nothing, and one content for ever |
| network client, `sentiment/network.py` | receipts and the budget session in memory; receipts, gaps, closeout in the store | `__enter__`, `retrieve`, `closeout`, `__exit__` | retries, slot deadlines, death between the receipt, the finish and the gap, an error after the closeout | every request has a receipt or ends the pilot; requests are in plan order; the closeout accounts for all of them |
| receipts, `sentiment/receipts.py` | none (signed bodies) | sign and verify receipts, chain, closeout | rules coded twice: by the collector and by its verifier | both sides agree on every reachable store |
| pilot worker, `sentiment/pilot_runner.py`, `live_deadline.py` | the claim bundle of each slot; the launch authority | `provision`, `arm`, `worker` | relaunch, overlap of slots, SIGKILL at the end of a slot | a slot is worked once, sessions hand over a store the next one accepts |
| Phase 1 workflow, `workflow.py`, `artifacts/*` | run directories, `holdout_evaluation_claim.json`, production versions with a lock file | development run, holdout evaluation, production training | one-shot claim with a read-modify-write status; staged publication with a lock file that survives a crash | the holdout is opened once per run; a version is complete or absent; only completed evaluations are promoted |
| Phase 2 holdout, `phase2/holdout.py` | a generation registry and a claim per run | claim, verify | the marker is consumed before the claim | one evaluation per generation, whatever dies in between |
| Phase 2 stores, `phase2/production_store.py`, `evaluation_store.py`, `experiments.py`, `dataset.py`, `artifacts.py` | immutable versions and runs | publish, get, rollback | rollback of a version readers may already see | a reader never accepts an incomplete or rolled-back version |
| GSG adapter and normalizer, `sentiment/providers/gdelt_gsg.py` | snapshots; terminal facts, article versions, links, exclusions, duplicate groups | `ingest_snapshot`, `normalize`, `publish_state`, `hydrate` | late, revised, duplicated, conflicting and missing minutes; restarts that replay in other batches | a state is what its facts replay to; a version is as old as its first sighting |
| aggregation, `sentiment/aggregation.py` | none | the row of a decision from a published state | later revisions, duplicates and restarts | a row once covered never changes |
| scoring, `sentiment/scoring.py` | none | score a text under a pinned contract | none | pure function |
| live transport, `sentiment/live_transport.py`, `live_contracts.py` | a connection | one bounded HTTPS request | time limits | pure I/O; its outcomes are inputs of the client model |
| contracts, `sentiment/contracts.py`, `canonical.py` | none | validate, canonicalize | byte-exact encoding | field validation |
| market data, `data/*` | the latest file, content-addressed snapshots | `fetch_ohlcv`, `load_or_update_ohlcv`, `_persist_market_data` | pages that overlap or stall, an unfinished last candle, updates without a lock, unsynced renames | no unfinished candle is ever stored; a fetch ends |
| prepared data, `features/*` | feature file, labeled file, manifest | `prepare_datasets`, `load_prepared_dataset_bundle` | three files replaced one after the other, without a lock; rows that do not tell the snapshot | a bundle that was prepared alone is loaded as it was prepared |
| splits, models: `modeling/*`, the folds of `phase2/experiments.py` | data frames | split, fold, fit, score | labels that are decided within the period a fold scores; missing decisions | no model learns from a label decided at or after a row it scores |
| backtesting, `backtesting/*`, `phase2/backtests.py`, `costs.py` | cash, position, pending order, ledger, marks | bar-by-bar simulation, reconciliation, cost scenarios | order of exit, entry and decision on one bar; the end of the window | ledger, fees and marks agree; a decision is traded once or meets a position; a label is its trade's outcome |
| command line, settings, logging | none | dispatch | none | none |

How the parts interact: a worker (`pilot_runner.worker`) opens one network client
session, which holds the journal's flock from `__enter__` to `__exit__`. The
client writes the journal before and after every request, puts bodies and
receipts in the content store, and reads both again when a session starts. The
closeout signs an inventory of the store, journal included. The evaluation phases
read what was published and claim their holdout through files of their own. The
snapshots of the market data are the source of the prepared bundles, those of the
splits, the models and their backtests; the normalizer's published states are the
source of the aggregated rows. No part calls back into another; everything is
shared through the file system.

## 2. Plan

Order, most important first. Items 1-9 are built and item 10 is left.

1. `BudgetEvents`, `BudgetLedger` (abstract), `PilotBudget` (detailed, refines it); inductive invariants and proofs.
2. `WriteOnce` (abstract), `ContentStore` (detailed, refines it).
3. `Receipts` (pure), `GSGCollector` (composes 1 and 2 at the level of whole calls).
4. `HoldoutRun`: the Phase 1 holdout claim, its status file, and the promotion of a completed evaluation.
5. `EvaluationSource` (abstract), `GenerationEvaluation` (detailed, refines it): the Phase 2 marker, claim, evaluation and completion record.
6. `ProductionVersions`: the Phase 2 production store and its registry, over `EvaluationSource`, as an implementation of `WriteOnce`.
7. `MarketStore`, `PreparedData`, `ProductionPublication`: the files of Phase 1 from the exchange to a production version, the last an implementation of `WriteOnce`; `ResearchRuns`: the Phase 2 datasets, experiments and reports.
8. `GSGNormalizer` and, over it, `Aggregation`: causal availability from the archive to a decision's row.
9. `PurgedSplits`, `Backtest`: which rows are learnt from, and what a decision is worth.
10. `PilotArming`: provision, arm, schedule readiness. `ScoringCache`: the engine, its attempts and its item cap over `ContentStore`. The publication of one normalized batch with its coverage report.

## 3. Modules

**BudgetEvents** - the events of the journal and the ledger they build:
`ValidRequest`/`Valid` are `_validate_event`, `Apply` is `_apply`, `Usable` the
last checks of `locked`, `Ledgers`/`Replay`/`Replayable` the loop of `_load`. The
stop's reason and diagnostic are abstracted to the stop.

**BudgetLedger** - what the journal promises, without files. The owner has a
`view` that may be ahead of the acknowledged ledger; a session may start from the
acknowledged ledger or from one event more (the event of a session that died
after it was on disk).

**PilotBudget** - the journal itself. `dir`, `ckpt`, `files` are what processes see;
`ckptDisk` and `synced` what a host crash leaves. `pc` follows one call through the
system calls of the code: `reserve` (validation, event limit, capacity), `create`,
`write` (`_write_fsynced_at`), `apply` (`_apply` and the new head), `overwrite`,
`complete`, `sync` (`_write_checkpoint`). `Fail` is any exception of them, `Kill` any
death of a process, `HostCrash` the loss of everything not fsynced, in any part.
`LoadRefused` may refuse any journal, because the store as a whole may have reached its
cap (`assert_storage_capacity`). SHA-256 heads are the chains they commit to. `Send` and
the shape of the exchange come from `network.py`. The refinement mapping `Promise` takes
`acked` to its replay and the lock holder's ledger to the view.

**WriteOnce** - a register that a name fills once. `told` is the content whose
publisher was told so; until somebody was told, a crash or a rollback may empty
the name again, afterwards nothing may.

**ContentStore** - `put_bytes` and `publish_bundle`, with the publications as a
`WriteOnce`. A bundle records its author so that a lost race is visible.

**Receipts** - the receipt chain and everything read from it, by the collector
(`Retryable`, `GapEstablished`, `Attainable`, `SlotOutcome`) and by the verifier
(`ChainVerified`, `LabelVerified`). A receipt keeps its minute, attempt and the
class of its response.

**GSGCollector** - the pilot: the clock, workers that are about to enter, the
store, and the one session the flock admits (`PilotBudget`'s `OneSession`). The
two slot computations of the code are apart: `index` is the argument
`pilot_runner.worker` checked, `slot` the one `__enter__` takes from the clock.
A journal call and a bundle publication are one step; `CutShort` gives the
outcomes that `PilotBudget` shows for a call that did not return.

**HoldoutRun** - the Phase 1 holdout evaluation of one run by several processes,
and the promotion that reads it. `pc` follows a command: `freeze` (a development
run), `preflight` to `write_manifest` (`evaluate_final_holdout`), `completed`,
`failed` and `invalidated` (an `update_holdout_claim` to that status: read and
check, then replace), `verify` and `train` (`train_versioned_production_model`).
A table is linked whole, a JSON file is created and then written. `Invalidate` is
the operation of the registry a person uses after an evaluation; no command
calls it. An evaluation manifest's `hashes` are the files it was computed from.
Host crashes are left out: a run is evaluated by commands a person starts, and
the claim's durability rests on an fsync of the file without one of its directory.
The publication of the production version is one step.

**EvaluationSource** - what Phase 2 promises of a generation's one evaluation: its
subject is fixed when the holdout is opened, readers may find it or not while its
call runs or after it died, for ever once the call returned, and never again once
it raised.

**GenerationEvaluation** - `evaluate` of `phase2/evaluation.py` down to the fsyncs
of `holdout.py` and `evaluation_store.py`. Marker, claim and completion record are
written by the same steps (`kind`): exclusive creation, write, fsync, fsync of the
directory. A development run is a directory and may be copied (`CopyRun`): the
marker is bound to the inode of the run it was made for, which is what `Accepts`
compares. A call over one generation is modelled; different generations share
nothing but the registry directory. `get` reads several files; it is one step
here, `VerifyCompleted`, and what a reader accepts is the state predicate
`Accepts`. A failed invalidation, and a kill, are the phase `dead`: the manifest
is left as it is, which the promise allows as long as nobody returned. A claim
made without an evaluation run id (only tests do that) consumes no marker and is
not modelled.

**ProductionVersions** - `train` and `get` over the production store. It extends
`EvaluationSource` and lets the evaluation's steps interleave with its own, so
that an evaluation may be invalidated between any two looks of a trainer or a
reader. A version's name is taken by a directory that is completed in place; `by`
says which training made it, `manifest` how far its completion marker is. The
lock of a version is a flock, released by the kernel when its holder dies, and
released before the rollback when it fails.

**MarketStore** - the updates of one symbol. An update reads the latest file and
the clock (`Begin`), fetches page after page (`Page`, `LastPage`, `PageFails`),
merges and checks (`Merge`), and persists: the snapshot under its own content
(`ReuseSnapshot`, or `CreateSnapshot`, `CopySnapshot`, `SyncSnapshot`), then the
latest file (`ReplaceLatest`). A candle's stored value is `final`, `forming` (it
was served before it closed) or `cut` (a torn last number); `Torn` is what a host
crash leaves of a file that was never synced. `replaced` are the latest files a host
crash may bring back, because the directory of the renames is never synced either. The
exchange is any set of candles that have begun.

**PreparedData** - the three files of a prepared bundle, each named by the snapshot
it was derived from, which is what its hash tells. Its rows tell less: `Validates`
compares the candles after the warm-up (`Candles`), and no feature is computed again
from the snapshot. `alone` is history: nobody else replaced a file from the first one a
preparation wrote to the second hash it took. `prepare_datasets` is
one action per file or hash; loading is one per read. `kept` is what a host crash
brings back of each file: no directory is synced, so every rename may or may not
have reached the disk (`Reach`), which is decided when it is made. `MaxPrepares` bounds
the preparations.

**ProductionPublication** - `train_versioned_production_model` from the loading of
the bundle on: the lock file, the staged artifacts, the second look at the
prepared manifest, the sync, the rename that refuses an existing name, and the
sync of the parent. It takes the prepared bundle from `PreparedData` as a name
that others may replace at any time, and implements `WriteOnce`.

**GSGNormalizer** - the archive, the normalizer in memory and its state last
published. `Normalized` is the whole of `normalize` on a plan: candidates,
conflicts, versions, links, exclusions and groups; `Accepts` are its checks.
`Replay` is the loop of `hydrate`: the facts are normalized again in plans of the
greatest length. An instant is a number of clock units; `TextBefore` is the order
of the timestamps as texts, which is what the code sorts and compares.

**Aggregation** - extends `GSGNormalizer` with the row of a decision as a function of a
published state. A row in a gap has no features, only its diagnostics. The means are
left as the ages and scores they are computed from, so that two rows differ when any
input of them differs.

**Sentiment** - the composition of `ContentStore` and `Aggregation`, for any store, archive,
plans, grid and scores. `MC_Sentiment` gives it its values.

**Backtest** - `run_backtest` bar by bar for every cost scenario in turn, then the
report's comparison. `Walked` is one turn of the loop, composed of `Exited`,
`Entered` and `Decided` in the order of the code; `Reconciles` joins the checks of
the engine and of the report. The report takes no decision that cannot be left
(`Reportable`) and refuses such a set before it simulates (`Unreported`);
`run_cost_sensitivity` walks it and compares nothing. Numbers are exact: where the code accepts
a relative error of 1e-10 the model accepts none.

**Fractions** - the money and the rates of `Backtest`, as fractions in lowest terms, so
that equal values are equal terms. It takes no library but the integers, so that it can be
proved about.

**PurgedSplits** - the holdout split and the folds of Phase 1, and the shared folds
of Phase 2, which share one state: the retained ordinals, the planned folds, and
what was fitted and scored.

**ResearchRuns** - the publications of Phase 2 that are not evaluations: datasets,
experiments and reports. A process makes one call and stages one directory; `entry` is
the directory a name shows. A run that fails is invalidated by unlinking the manifest of
the directory it staged, a dataset only while it has not been renamed. A dataset that is
found under its name is returned as it is: that outcome is `found`, not `published`, and
nothing is synced for it. Readers (`DatasetReads`, `ExperimentReads`, `ReportReads`)
read their parents too.

**Research** - the composition of `MarketStore`, `Backtest` and `PurgedSplits`, for
any candles, updates, markets, costs and folds. `MC_Research` gives it its values.

The `MC_*` modules hold symmetry sets and response sets for TLC. Two of them join
components: `MC_Phase1` prepared data, the holdout and the publication, `MC_Phase2` the
runs and the evaluation; `Sentiment` joins the store and the rows, `Research` market
data, backtests and splits, in the same way. These components hand finished files to each
other and share no state while they work; each module takes the files it needs as
any that may be there (a snapshot, a bundle, a run). So a behaviour of such a run
exercises one of them, chosen at the start, while the others wait: the run reaches
every state of each component on its own, and no product of them.
Operators named `<definition>_<bug>` are mutated forms of the definition below
them: each is a plausible bug that one of the properties must catch.

## 4. Runs

| Run | Question | Bounds and why they are enough |
|---|---|---|
| `MC_BudgetLedger` | does the abstract budget ever repeat or crowd requests? | two processes, two minutes, three attempts, five clock readings a spacing of 1 apart: sessions change hands between any two requests, a minute is retried after another, and the cap is passed |
| `MC_PilotBudget` | does the journal on disk keep its promise through failures, deaths and host crashes? | two processes, two minutes, six events: one whole exchange with its bytes (request, chunk, finish), a second request (retry or other minute) and the stop, with a crash or failure at every step; chunks of 1 and 2 against a cap of 2 pass the cap exactly and by one |
| `MC_Sentiment` | what do racing writers leave in the store, and is what is derived from it causal, and the same however it is replayed? | the store: two writers, one digest, two names, two payload files: every race is between two, and two files are enough for a half-written bundle. The normalizer and its rows: three minutes of one second of two clock units, so that two deliveries may fall into one second, with a fraction and without; plans of one or two, four responses over two articles and two titles (one title twice, a revision, a conflict beside a restricted article), two snapshots: a duplicate may come before and in the horizon, a plan may end between any two minutes |
| `MC_Sentiment_texts` | is a state what its facts replay to, whatever their times? | the same with one name and one file; expected to fail (section 8) |
| `MC_ContentStore_raw` | is a returned object durable? | the store with one name and one file; expected to fail (section 8) |
| `MC_GSGCollector` | do requests, receipts, gaps, claims and closeout agree, whatever dies? Does every session end, and is the pilot decided? | two slots of two minutes, two attempts, one slot may be lost, four classes of answer: a retry, an exhausted retry, a lost slot before the last one and at it, and a pilot that reaches its closeout after one all occur |
| `MC_Phase1` | is the holdout of a run read once, and promoted only when whole? Is a bundle loaded as it was prepared? What do racing trainers leave under a version's name? | the holdout: three processes, so that two evaluators race while a third invalidates or promotes; two frozen artifacts, one table and two reports: an output that is linked whole, one that is created torn, and one more to die between. Prepared data: two processes that prepare or load, three snapshots of which two differ in warm-up candles only, two preparations, one host crash: files are mixed by two preparations and one load after them, and rows tell some mixtures and not others. Publication: two trainers, two bundles, two names, two staged files besides the manifest, one host crash |
| `MC_HoldoutRun_invalidation` | does an invalidation stand? | two processes, one table, one report; expected to fail (section 8) |
| `MC_Phase1_bundle` | is every loaded bundle of the snapshot it names? | the same; expected to fail (section 8) |
| `MC_Phase2` | is a generation's holdout opened once, and does its evaluation keep its promise? Does a published run stay and can be read, and does a failed one disappear? | the evaluation: three calls, so that two race while a third comes after a crash; a run and a copy of it; two evaluation run ids; every step may fail, die or be followed by a host crash. The runs before it: three processes and two run names besides the dataset's, so that a dataset, an experiment and a report of it, or three runs that race for two names, occur; one host crash |
| `MC_ProductionVersions` | what do trainers, failures and invalidations leave to readers? | two trainers on the same or on two versions, one reader, two payload files so that a version is incomplete between them; one evaluation, which may be invalidated at any step |
| `MC_Research` | is an unfinished candle ever stored, and does a fetch end? Do the backtest's accounts agree, is every decision answered, do labels tell the trade? Does the purge suffice, and does a model ever learn from the future? | market data: two updates, three candles of two clock units of which the last is unfinished when the first update begins; any page, one network error, one host crash, after which the latest file may be an earlier one again: an update may begin, fetch and persist on either side of any step of the other. Backtests: every market of six bars with prices 1 and 3, every set of decisions and scores, three scenarios; trades of one bar, so that two follow each other and one may reach the end. Splits: frames of one to fourteen rows (Phase 1) and any subset of fourteen candles (Phase 2), a purge of two, two folds of one to three rows: blocks shorter, as long as and longer than the purge |

Every property is there for a hazard that `PROJECT.json` lists. What the proofs
cover and a stronger property already shows on the small instances is not run
again (section 7).

Deadlock is checked in the journal, store, Phase 2 and production version runs.
`CHECK_DEADLOCK FALSE` is set where the system really stops: a stopped budget never
opens again, the pilot's window ends, and a run whose developer died is never
continued, so that its processes have nothing left to do; a torn latest file ends all
updates, and a split and a backtest are over when they are done.

## 5. Fairness

`MC_GSGCollector.cfg` uses `WF_vars(Work)`, a process that
runs goes on to its next step. The code justifies it: every read is bounded by
the HTTP timeout, every wait by `_remaining`, the journal's flock never blocks,
and the watchdog of `live_deadline.py` kills a process at the end of its slot.
Nothing is assumed of the launcher, the clock or the environment: a worker may
never be launched, and then neither liveness property has anything to say.

That a paged fetch ends needs no fairness to be stated: `FetchAdvances` says that
each request either moves to a later candle before the end of the range or counts
one of a bounded number of failures, whatever the exchange answers.

## 6. The file system

A process death keeps everything written so far; a descriptor that was locked is closed.
A host crash keeps what was fsynced and may lose any part of the rest: an unsynced
checkpoint is old, torn or new, unsynced directory entries vanish from the end
(`PilotBudget`) or in any subset (the other modules), and an unlink that was not fsynced
may be undone (`GenerationEvaluation`, `ProductionVersions`, `ResearchRuns`). A file
that is renamed without an fsync of its data may be cut anywhere (`MarketStore`); one
whose directory was not synced may be replaced by any earlier version (`MarketStore`,
`PreparedData`). An fsynced entry keeps its ancestors: the code creates ancestor
directories without fsyncing their parents (`storage.py:547`) and the models have no
ancestors. Rename and link are atomic and refuse an existing target. Data of a file that
is fsynced before it is named is taken as durable with its name.

## 7. Proofs

`BudgetLedger_proofs`: `TypeCorrect`, then `CountedFirst`, the inductive invariant
`IInv`. Neither `AttemptsIncrease` nor `RequestsSpaced` is inductive: a request is
ordered with what is on the wire because the ledger it was validated against had
counted all of it, and that must be known of the acknowledged ledger (a session
may start from it), of the view (a session may go on from it) and of the call and
intent on their way out. `IInv` says that; `NeverRepeated` follows.

`PilotBudget_proofs`: `JournalInvariant` proves `IInv`: in every phase of an append
the session's head is a prefix of complete event files (`Backed`), the event being
written is the file after it, and a request that may be sent is its last event and
synced. `OneSessionAtATime`, `RequestsWrittenAhead` and `AcknowledgedIsDurable`
are conjuncts of it. The lemmas `StepGrows` and `OthersKeep` say once that no step
removes a synced file and that a step of one process leaves another's invariant
alone, because only the lock's holder writes.

`LedgerInvariant` proves `LedgerInv`, what the counters need on top of `IInv`. Its part
`MemoryInv` says phase by phase how a session's head, checkpoint and counters stand to
the event files; `BytesInv` that the counters are the bytes of the wire, up to the chunk
on its way into the journal. `FilesInv` is about the files that no call returned for and
that a crash may keep or drop: every such prefix has counted every byte or has a request
pending, and those two events or more ahead of the acknowledged chain are unusable, so
that a later session starts from what was acknowledged or from one event more.
`FoundingInv` says that nobody works while one process creates the journal; `CleanInv`
that without a fault the disk is what the next load accepts. `SessionsAgree`,
`RefusalNeedsFault` and `DownloadIsBounded` follow. `JournalImplementsLedger` is the
refinement: `Mapping` says that the promise's owner is the process that works, and each
step is a step of `BudgetLedger` (`WorkerMaps`) or changes nothing in it
(`OutsiderMaps`), so that `NeverRepeated` holds of the journal's wire.
`Replay` is a recursive function over a chain of any length. The library's induction takes
a predicate as a parameter; `SetInduction` states it for a set, from the
well-foundedness of the naturals (`WFMin`), and from it follow that the function exists
(`LedgersFollow`), that it depends on the prefix only (`LedgersOfPrefix`), its type
(`LedgersType`) and its step (`ReplayAppend`).

`GSGCollector_proofs`: `CollectorInvariant` proves `IInv`, which says of each phase of a
session how journal, wire, receipts and gaps stand to each other. The chain of
receipts is verified and ordered (`ChainVerified`, `Ordered`); what is on the wire
is the receipts and at most one request more, which the journal counts and whose
exchange is pending (`WireInv`, `JournalInv`); a death leaves it pending for ever,
which `Accounted` refuses at the next entry. `GapInv` says which unresolved minutes
have no gap yet: at most the one the session is at. `CoverageInv` is what makes the
coverage gate enough: every minute of the worker before the current one is covered or
ended in a failure that no retry mends, and the gate has been passed since the
last such failure, so that a worker which comes to its closeout has every slot
decided. `CloseoutInv` says that from the signing to the return nothing the inventory
covers changes. The six properties the collector's run checks follow from it, among
them `RequestsStayInOrder` (one request per place of the chain, so order on the chain
is order on the wire) and `LabelsAlwaysVerify`, whose lemmas compare the last receipt
of each minute with all of them.

`Phase1_proofs` has the three components of `MC_Phase1`, whose operators its theorems
state. Of the publication, `PublicationInvariant` proves `ProductionInv`: the rename is
of a complete and synced directory, and who returns has synced the name. `WholeOrAbsent`
and the refinement `PublicationRefines` follow. The lock is not needed for either; the
rename that refuses an existing name is enough. Of the prepared data, `AloneIsOne`:
nothing holds of the three files together, because any preparation may replace one of
them at any time. But who was alone from its first write on found its own two files when
it hashed them (`PreparerInv`), so the hashes in its manifest are of its snapshot
(`Bound`), whatever the crash that brings the manifest back; and what a load has read it
has checked against the manifest it read first and keeps in memory (`LoaderInv`). Of the
holdout, `ClaimInvariant` proves `IInv` of `HoldoutRun`. `HoldoutOpenedOnce` alone is
not inductive: it needs that a process about to open the holdout is the one whose claim
was created (`ProcessInv`), that nobody opened it before, and that the phases between
the creation of the claim and its last status belong to that process only. What each
phase has on disk is in it too, so that `completed` means a whole evaluation, and once a
claim completed nobody is in those phases (`Finished`), so that nothing a promotion
rests on changes any more. `OpenedOnce`, `CompletionIsEvidence`, `PromotionIsEvidenced`
and `EvidenceStays` follow. The lemma `OwnerStep` says once what is left to prove of a
step inside the claimant's phases.

`Phase2_proofs` has the two sides of `MC_Phase2`. Of the runs, `ResearchInvariant`
proves `ResearchInv`: a directory is complete and synced before it has a name
(`StagedInv`), a name that is on disk shows what the disk has, and no crash or failure
takes the payload of what a name shows (`ShownInv`), so that the manifest alone decides.
`PublishedStays` follows because only its own call unlinks the manifest of an experiment
or a report, and none that of a dataset that was renamed. A run can then be read as long
as its dataset and its experiment were published by their own publishers; of a dataset
that was only found nothing follows, and section 8 shows one that is lost. And
`FailedStaysUnreadable` because a failure is told only when the unlink is durable. Of
the evaluation, `GenerationInvariant` proves `IInv`. That the holdout is opened once
(`HoldoutOpenedOnce`) rests on `Consumed`: a call past its marker is named by a marker
whose bytes and entry are both fsynced, so that no crash can clear it, and there is one
marker. `OriginalOnly` needs `EvaluationInv`: an evaluation belongs to the call that
opened the holdout, and if that call raised its manifest was removed durably. The lemmas
`StepApart`, `OtherCalls` and `OtherEvaluations` say once that a step of one call leaves
the others alone. `EvaluationRefines` is the refinement of `EvaluationSource`, all that
the production store relies on. Its invariant is `AnswersInv`: an evaluation that a
reader accepted is completed and complete on disk by then (`Kept`), so that no crash
takes it back. A step that changes what readers look at is a `Turn` before the verdict;
the step that gives the verdict changes nothing of it (`VerdictStep`), and by
`EvaluationInv` a failure is told only when the manifest is durably gone.

`ProductionVersions_proofs`: `VersionInvariant` proves the types and that a version
belongs to the trainer that reserved it; `NothingLeftBehind` follows. `ReadsAgree`
needs `ReadInv` on top: a manifest is only in a version whose own entry is fsynced
(`Durable`), so what a reader has seen cannot vanish and be reserved by another
trainer (`Lasts`), and a read that began after the invalidation is stopped at its
first look at the source.
`VersionsWriteOnce` is the refinement of `WriteOnce`, the version number being the name.
`FinishInv` says that from its last fsync on a trainer's version is finished: entry,
payloads and manifest are synced and the manifest is the trainer's. No crash and no
other trainer takes that back, because a number is reserved once and only the version's
owner writes in it, so whoever was told of a number is told of what it shows. By
`Lasts` a shown name never passes from one trainer to another in one step.

`Sentiment_proofs` has the two sides of `MC_Sentiment`. Of the store, `StoreInvariant`
proves `IInv`, the types included. `PublishedComplete` is not inductive: a crash may
take any file of a bundle that was renamed unsynced, so `NameInv` says that what is
published was synced, and `WriterInv` what each phase before the rename has staged. The
refinement of `WriteOnce` needs that a name a publisher was told of is synced and shows
that publisher's bundle. `BundlesWriteOnce` is a proof of the whole refinement: every
step publishes under a free name, returns, settles in a crash, or stutters.

Of the normalizer, `RowsInvariant` proves `RowsInv`: both states are accepted ones
(`Normal`) and the one in memory is what the published one may become (`Later`): it has
all of it unchanged, and whatever it has more was first seen at or after the end of the
last minute the published one accounts for. `PlanStep` proves this of one accepted plan.
The minutes of a plan come after those of the state and nothing is delivered before its
minute began (`Causal`), so what is new is late enough; that what is old is left alone
needs the order in which new articles join (`JoinInv`): a group is named once, by an
article that had none, and its anchor is never replaced. `Joins` is a recursive function
over that order, which exists by `JoinsFollow`; the choices it makes exist because some
text is before all others (`TextFirst`), although the order of the texts is not that
of the instants.
From `Later`, `DecisionsStand`: in a covered decision the gaps, the groups selected
and each group's title are those of before (`RowStands`), for any precision of the clock.
`SightingsAreFirst` is about the order the code gives to sightings, that of their texts:
in it a version is as old as its earliest sighting, for any precision: the earliest of a
plan is taken, and a plan with an earlier one of a stored version is refused
(`SightedStep`). Of the anchor of a group it is about instants: an article only joins one
at most the horizon before it (`RowsInv`).

`ReplayedAlike` is `ReplayInOrder`: what is known of replays holds as long as the
deliveries of a state have texts in the order of their instants (`TextsInOrder`, and
`TextAsTime` for what the code then compares), for any precision; without that the code
itself disagrees with its replay (section 8). The beginning of a state in order is in
order (`BeginningInOrder`). Its invariant, `Canonical`, says what each part of a state
is of its facts alone, with no plan in it: the accepted facts follow each other in time
(`Ordered`, by `AcceptedExtends`), so that the earlier observation is the one at the
earlier place (`EarlierBefore`); conflicts are then within one fact and no cut between
plans can part them (`EligibleOf`, `EntitledSplit`); a version is that of its first
observation (`Leads`), an article comes with its first one (`Debuts`), and the groups
are a `Grouping` of those newcomers: each anchors a group or is in the earliest it could
join when it came, however the newcomers were cut into plans. Two states with the same
facts are the same (`OneCanonical`); for the groups, the soonest article where two
groupings would differ meets the same groups in both (`OneGrouping`). `CanonicalStep`
shows that a plan of later facts keeps `Canonical`: its newcomers are sooner than none
of the state's, and each `Join` leaves a `Grouping` of those that joined
(`JoinsGrouping`). `ReplayAccepts` shows that such a plan is never refused, as of the
time `hydrate` gives it. So the replay of a state's facts, which `ReplayFollows` says
exists and `PlansAre` that it takes them in order, has after each plan one `Canonical`
state of the facts so far, and ends in the state itself (`ReplayIs`). TLC checked
`Canonical` as an invariant of the run before the proof.

`Research_proofs` is about the composition: `ResearchInvariant` proves `ResearchInv`,
one part per component. Of the market data, `MarketInv` is about what an update has in
memory: a candle it saw unfinished had not closed when it read the clock (`CallInv`),
because clocks only grow (`StaysClosed`), so the filter by that reading leaves it out;
files, those a crash may bring back and snapshots come from filtered rows only, and a
torn file holds candles of the file it was. `OnlyClosedCandles` follows, and so does
`FetchesAdvance`, for which the cursor and the last candle of a page must be comparable
(`LatestCandle`).

Of the splits, `SplitsInv` says of every fold that is planned that the labels it learns
from are decided before its block opens (`FoldInv`), whatever candles are missing.
`PurgeIsEnough` is about the refusals: a fold without training rows or with rows in the
purge is only refused when the frame is too short for it. Phase 1 refuses by position
(`PhaseOneReason`) and Phase 2 by candle (`PhaseTwoReason`); that positions and candles
agree needs that rows in time order are an increasing sequence (`InOrderIncreases`) and
that d rows further is at least d candles later, both from the least element of a set
of naturals (`LeastElement`), which is `WFMin` and takes no predicate. `NoFutureLearnt`
is kept by every fit, those of the holdout included.

Of the backtests, `BookInv` says that a book is free, has an order for the next bar or
holds a trade since one decision; that the trades of its ledger follow each other
(`Disjoint`), so that no decision is in two; and that every decision before that bar
whose trade fits the window is in one of them or in the trade under way (`Covered`).
`ExitedInv`, `EnteredInv` and `DecidedInv` follow the order of the engine within one
bar, and `OneAnswer` counts. `DecisionsAnswered` is about the ledgers of all scenarios.
The lemmas `SameInSplits` and `SameInTrading` say that the library's operators are the
same in the instances and here.

The accounts need arithmetic first. `EuclidExists` and `EuclidUnique` show that the
recursion of `Gcd` has one solution, `GcdDivides` and `GcdScales` that it divides and
scales, so that `Frac` forgets what its two numbers have in common (`FracScales`) and two
fractions are one term exactly when their cross products agree (`SameValue`). The laws
the accounts use follow (`Distributes`, `Telescopes`, `TimesKeeps`), and from them what
one trade does: `EntryBalances` and `ExitBalances` are the checks of the report,
`DearerEarnsLess` compares two scenarios, `Outcome` is a trade's return as the market's
times what the costs keep.

`MoneyInv` says what a book holds before a bar is marked (`Money`): each trade of the
ledger was bought with what those before it left (`Accounted`), the cash or the open
trade is what the last one left (`Worth`), every entry and exit behind that bar has its
mark, and no exit is scheduled past the window. That the marks agree is not inductive
without the place of each trade: an exit on the bar itself is the last of the ledger and
leaves no trade open (`TradesStand`), so the mark of that bar is its proceeds. `BarMoney`
follows a bar through `Exited`, `Entered`, the mark and `Decided`, and shows that no bar is
refused; `PathReconciles` that what is left at the end of the market passes every check, the
profits adding up by `PnlIs`. The comparison needs that the scenarios trade at the same
times: two ledgers that answer every decision without overlap have the same signals
(`Follows`, by the first place where they would differ), so trade by trade the dearer one
has no more (`DearerLeaves`). `AccountsReconcile` is then that no check of their own results fails, and
`LabelsAreRealised` compares `Outcome` with the formula the label is drawn by. Both are
about exact numbers; how far floats stray from them is not covered (section 9).

All proofs use only the ASSUMEs on the constants in the modules, or the assumption
operator (`Phase1Assumption`, `Phase2Assumption`) that the MC module of the run assumes.
They say: times, chunks, caps are naturals, `Spacing`, `MaxAttempts` and `Span`
positive, `None` and `NoProc` outside the sets they join (runs, calls, closeouts,
verdicts), the registry outside the runs, a finite set of ordinals, responses that are
sequences of lines, minutes of positive length, markets that begin at bar 0, have no bar
named `None` and open at positive prices (whole numbers: the unit of price is free),
costs and an edge that are not negative and below one (`_validate_rate`), and cost
scenarios from the cheapest to the dearest (`COST_SCENARIOS`).

Model-checked only: every liveness property, which is beyond the prover. Every safety
property and refinement of a passing run is stated by a theorem.

Proved and not run any more: the inductive invariants of all components,
`RequestsSpaced` (`NeverRepeated`), `OneSession` (`OneSessionAtATime`),
`CompletedIsWhole` (`CompletionIsEvidence`) and `EvidenceKept` (`EvidenceStays`).
TLC checked each of them before it was proved.

## 8. What the models found

`content_store_raw`: `put_bytes` returns for an object
that another writer has linked without fsyncing the directory (`storage.py:155`).
If the first writer dies before its own fsync, `raw_published_at` is recorded for
an object that a host crash may take back, where `docs/phase2-batch-b.md:882` asks
for durable publication first.

`holdout_invalidation`: `update_holdout_claim` reads the status, checks the
transition and replaces the file without a lock (`artifacts/registry.py:182-207`).
An evaluator that has read `claimed` replaces an invalidation made in between by
`completed`, and the run may then be promoted. What holds all the same, and is
proved, is that nothing failed or completed is rewritten to anything but
`invalidated` (`EvidenceKept`).

`sentiment_texts`: `first_seen_at` is ordered as text, and a timestamp without a
fraction ends in `Z`, which sorts after the `.` of one with a fraction
(`sentiment/contracts.py:144-150`). Two articles with one title whose snapshots were
published at 02:00:01 and 02:00:01.5, normalized in two plans, anchor their group at
the first; replayed in one plan, at the second. The published state cannot be
hydrated, though the stream satisfies the chronology of `docs/phase2-batch-a.md:163`.
As long as the texts sort as the instants do, `ReplayedAlike` proves that it can.

`holdout_bundle`: `_validate_logical_bundle` compares the candles after the warm-up only
and computes no feature again (`features/dataset.py:524-543`), and a preparation hashes
whatever is under the two names by then (`:773-774`). Of two overlapping preparations of
snapshots that differ in warm-up candles only, one may publish a manifest that names its
own snapshot over the files of the other, and the bundle is loaded, where the docstring
says that the hashes bind the files "to the exact immutable raw snapshot used during
preparation" (`:596-598`). What `AloneIsOne` proves is the case without the overlap.

Not a finding, but worth knowing: between the publication of the closeout and
`_closed_out` the deadline check of `network.py:1052` may raise, and the stop it
causes changes the journal that the published inventory covers.
`verify_retained_closeout` then refuses it, which fails closed.

The models also show the following, without a run of their own:

- A latest file without its snapshot: `_persist_snapshot` removes the file it created when its copy
or its fsync fails (`data/storage.py:155-158`). Another update of the same bytes may
have found that file whole and reused it; it then replaces the latest file, which
has no snapshot, and the next preparation fails. `IMPLEMENTATION_PLAN.md:1083` asks
for a snapshot with every update.

- A cut candle that is kept: the latest file is renamed into place without an fsync
(`data/storage.py:178-182`). A host crash may leave a prefix of it that ends inside
the last number of a line: all columns are there, the value is another. The next
update accepts it, starts after that candle and puts it into a snapshot for good,
against `IMPLEMENTATION_PLAN.md:1156`.

- A torn JSON file: `atomic_write_json(exclusive=True)` writes in place
(`artifacts/manifest.py:53`), against its docstring (`:46`). The protocol tolerates it: a
torn claim still blocks a second evaluation, and a torn manifest or report cannot be
promoted; but a torn claim cannot be recorded as failed or invalidated either.

- A report without its experiment: an experiment is readable from its rename on; a report of it
may be published before the experiment's publisher fails and invalidates it
(`phase2/experiments.py:959-968`). The report stays and can never be read again.
`phase2/backtests.py:3` calls the source an immutable run.

- A dataset returned too early: a dataset found under its name is returned although its
publisher may not have synced the directory (`phase2/dataset.py:992`); a host crash
takes it back, where `docs/phase2-milestone-5.md:216` says that unfinished writes are
not cache hits.

## 9. Not modelled

Canonical JSON, hashes and signatures beyond what they commit to; HTTP, TLS and
DNS; the numerical work of features, models and metrics; the rounding of floats in a
backtest, most of whose checks allow a relative 1e-10 (the comparison of two scenarios,
`phase2/backtests.py:869`, allows none, so that two equal profits may be told apart by
their rounding); the random-exposure baselines and the order of their percentiles
(`phase2/backtests.py:942-951`); logging, the command line and settings: they have no state whose
order or durability a property could be about.

In `gdelt_gsg.py`: the canonicalization of URLs and titles, the rights approval, the
bounds of the parser, and the publication of one normalized batch with its
coverage report (`publish_normalization`), which reads everything again and adds a
bundle to the content store. In `aggregation.py`: the arithmetic of the windows and
the publication of a feature artifact, a bundle too. `scoring.py` is a bounded
retry over the content store (plan, item 10); the part of it that may go wrong is
the publication, which `ContentStore` models. `pilot_runner.provision` and `arm` are
planned (item 10). In `phase2/evaluation.py`: the replay of all parents before the
holdout is opened and the gates on the metrics, which are one success or failure
of `GenerationEvaluation`.
