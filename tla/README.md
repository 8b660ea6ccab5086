# trade-analytics: TLA+ models, checks and proofs

The repository is an ETL pipeline. It asks the UN Comtrade API for monthly semiconductor
imports, keeps every accepted answer as a numbered revision in S3, loads the revisions into
two Raw tables in BigQuery, has dbt derive facts and marts from them, and releases a JSON
snapshot and a static website. Its value lies in what happens between the happy steps:
budgets run out, workers die between two puts, a BigQuery script commits after its client has
stopped waiting, a second run overtakes the first. These modules model those steps.

Contents: [inventory](#inventory), [modules](#modules-and-their-correspondence-with-the-code),
[runs](#runs), [assumptions](#operating-assumption-and-fairness), [proofs](#proofs),
[divergences](#where-code-and-documents-differ), [limits](#what-is-not-modelled),
[plan](#plan). Paths are relative to the repository; `T/` is `src/trade_analytics/`.

## Inventory

| Component | State it keeps | Operations | Shared with | What makes it correct |
|---|---|---|---|---|
| Extract (`T/pipeline.py`, `T/ingestion/multi_market.py`, `storage.py`, `s3_storage.py`, `manifest.py`) | S3 Raw: `data.ndjson` and `manifest.json` per identity, edition and revision; `extract-progress.json`, `extract.json` per run; a temporary root per execution | rebuild from S3, plan, save a response as a revision, four S3 requests per source, progress, handoff, resume | all runs write one S3 Raw | a manifest attests its data; commits are for ever; a revision is a change; a handoff covers its scope |
| Local Raw root (`T/ingestion/storage.py`, `--extract-only`, `--sync-only`) | a directory of two files per identity, edition and revision; hidden directories under way | scan, save by renaming a hidden directory, read back; put what was scanned to S3 and hand it over | executions without a lock on one root; S3 with other writers | a source appears whole and stays; completion means every identity is readable; a handoff is alike in root and S3 |
| Comtrade client and request budget (`T/ingestion/client.py`, `multi_market.py`) | attempts, requests of the execution | retry, split a truncated group, stop at the budget, resume | progress record with Extract | nothing skipped, nothing asked twice, budget respected, eventually complete |
| Load (`T/warehouse/loader.py`) | Raw tables and audit log; metadata read per month | two reads, decide, one script with assertions in a transaction, wait 180 s | the Raw tables with all runs and with late scripts | a partition serves one whole revision, never an older one; success means committed |
| dbt build (`src/dbt`) | fact table by month; two mart views with a month spine | refresh own months (`insert_overwrite`), views, tests | facts and views with all runs | facts of a run's months agree with Raw; a release has every month and no dropped partner |
| Transform and publish (`T/pipeline.py`, `T/artifacts.py`) | `transform-attempt.json`, `transform.json`, `publish.json` per run | watermark before and after; one query over both marts; release | watermark of the shared audit log | a release is of one watermark and of a successful latest attempt |
| Export and website staging (`T/export`, `src/frontend/build.mjs`) | files of a release in S3; snapshot root, data directory and `dist` of a host, with temporary and backup directories beside them | upload, record, download, verify, copy, swap | directories of a host, without a common lock | what is named, staged or built is one whole snapshot; a failed swap loses nothing |
| Airflow DAG (`src/dags`) | task states | four tasks, pool of one slot, retry of exit code 75 | | passing errors are repeated, others wait for the operator |
| Writer lock (`T/warehouse/writer_lock.py`) | one `flock` file on a host | acquire, release | CLI runs of one host | one writer per output directory; free again when its holder dies |
| Source validation, schemas, manifests (`T/ingestion/service.py`, `manifest.py`, `T/warehouse/source_validation.py`) | none | check rows before they are written, and a source whenever it is read | | what the first check accepts the second reads |
| Website (`src/frontend/src`) | a released snapshot, the reader's selection | add up products and months, find common months, render | the snapshot | what it adds up agrees with the rows of the snapshot, and what is incomplete is disclosed |

The stages call nothing of each other: they communicate by S3 records (each stage writes its
handoff last, and the next one refuses to start without it) and by the warehouse, which all
runs share. The hard behaviours are therefore interleavings on S3 Raw and on the warehouse,
crashes between two writes, calls that outlive their caller, retries at three levels (client,
Airflow, operator) and evidence that has become stale when it is used. `PROJECT.json` lists
each under `hazards`, at its line and with the properties for it.

## Modules and their correspondence with the code

| Module | What it is |
|---|---|
| `RawTable` | abstract: what the Raw tables and the audit log promise. A batch replaces source partitions whole, each by a newer revision, and logs exactly what it installed. |
| `Loader` | the load stages on the warehouse; implements `RawTable` (`ImplementsRawTable`) |
| `RevisionStore` | abstract: what S3 Raw promises. Per identity a growing list of sources, numbered from 1, each with another content than the one before it. |
| `Extract` | the extract stages on S3 Raw; implements `RevisionStore` (`ImplementsStore`) when stages execute one at a time |
| `Fetch` | one extract task between the API, the client, its budget, Airflow and the operator |
| `Sources` | rows, manifests and the two validators: operators without state |
| `LocalRaw` | extends `Sources`: executions that fill a local root and runs that hand it over |
| `Pipeline` | the four stages of several runs; one step per month for the inside of `Extract` and `Loader` |
| `Website` | from a publish stage to the website: upload, download, staging, build |
| `Marts` | the rows: what dbt makes of Raw and what a release takes from it |
| `Dashboard` | extends `Marts`: what the website computes from a release |
| `LoaderProofs`, `ExtractProofs`, `FetchProofs`, `LocalRawProofs`, `PipelineProofs`, `WebsiteProofs`, `MartsProofs` | theorems, each about the module of its name; `MartsProofs` is about `Dashboard` too |
| `SumLemmas` | what adding up the values of a finite set means: lemmas for `MartsProofs` |
| `MCLoader`, `MCExtract`, `MCFetch`, `MCLocalRaw`, `MCPipeline`, `MCWebsite`, `MCDashboard` | small instances |

**Loader.** `table[k]` holds the rows of a partition (month, kind, place), a row being the
revision, the checksum of its source and its partner. `Start` is `load` handing the months to
`load_bigquery`; `ReadPartnerDetail` and `ReadWorldTotal` are the two metadata queries of
`load_month`, apart because anything may commit between them; `Decision` is `decision`;
`Submit` sends the script, which becomes a record in `jobs` that does not end with its client;
`Commit` re-evaluates the assertions (`AsObserved`) and replaces, inserts and audits in one
step, as the transaction does; `JobSucceeded`, `JobFailed`, `Timeout` and `Crash` are how the
client learns of it, or does not. A handoff is any function from partitions to versions in
`Handoffs`: of one month, of all, agreeing with another run's or forked from it.

**Extract.** `data[p]` and `manifest[p]` are the two objects at a path that names identity, HS
edition and revision. `SyncExisting` is `run_batch` reconstructing and persisting what S3
already has; `Fetch` an accepted response saved by `save_source`; `ReadData`, `ReadManifest`, `PutData`,
`PutManifest` the four requests of `S3Storage.write`, with other writers between any two and both
puts conditional (`If-None-Match`). What the two reads find need not belong together: a worker that
commits in between makes the stage stop with "committed S3 source is missing data".
`WriteProgress` is `persist`; `Exhaust`, `Complete` and `Crash` how an execution ends. `Revise`
is the environment: the API changes its answer.

**Sources, LocalRaw.** A row is what the validators look at: reporter, partner, edition, whether
the rest is as asked, and an amount in parts of which `Unit` make the smallest amount of NUMERIC;
`copy` tells rows apart that are alike in all of this, so that a response may hold a row twice.
`Accepted` is `accept_response`, `validate_dataset` and `build_manifest`, `Readable` is
`validate_source` with `verify`. `root[p]` is the directory at a path. `Scan` is `scan_sources`
at the start of `run_batch`; `Respond` an answer for the group that `plan_jobs` has planned, which
may hold rows of any reporter, of the group, of another group or of none;
`Keep`, `Skip`, `Refuse`, `Exists` and `Stage` are the outcomes of `save_source` for the next
identity; `Rename` and `ReadBack` the rest of it. `SyncScan`, `Upload`, `Record` and `HandOver`
are `extract` with `--sync-only`, next to `CommitElsewhere`, another writer of S3; what such a
run downloads from S3 before it scans can only make it fail and is left out. The API
answers with any of `Answers` each time it is asked.

**Fetch.** `queue` is the recursion of `fetch_complete` with the plan behind it, `requests`
the `RequestBudget` of the execution, `task` and `tries` Airflow's record. `Send` and `Spent`
belong to every HTTP attempt: `Accept`, `Split`, `TooLarge`, `Retry`, `GiveUp`, `Refuse` are
its outcomes. `Exit` maps an outcome to 0, 1, 2 or 75, and `EndTask` is what `run_command` and
the retry policy of the DAG make of it. How many rows the API holds for a job and a reporter
(`rows`) is chosen from `Volumes` at the start: `Completes` promises an end only for volumes
in which every reporter fits an answer alone, the other properties for all. With `ExtractOnly`
the task is the command `--extract-only`, whose only memory is the local root (`Remembered`).

**Pipeline.** A stage executes on a worker, for the run `RunOf` gives it; with several workers
for one run two stages of that run interleave, as nothing in the code keeps them apart: only
`Exclusive`, the operating rule, does. `history` records the Raw tables at every watermark, as a
ghost: the code knows the watermark as count and latest time of successful audits. `StartLoad`,
`LoadMonth`, `LoadTimeout`, `LateScript`, `WriteLoad` are load. `StartTransform` numbers the
attempt and reads the watermark, which the stage keeps in `evidence`; `RebuildFacts` or
`SelectFacts` is what dbt reads from Raw, all of it or the months of `load.json`, and `MergeFacts`
replaces the facts with it, also after dbt's worker has died; `BuildMarts` replaces the views and
runs the tests; `WriteTransform` compares the watermark and writes the evidence. `StartPublish`
reads that evidence; `CheckEvidence` compares it with the latest attempt and the watermark;
`ReadMarts`, `CheckPublish` and `WritePublish` are the rest of publish, with the watermark compared
again after the one read of both marts.

**Website.** A directory maps each of its files to the snapshot it comes from. `Export`,
`Upload` and `Record` are the end of a publish stage: files one at a time, `publish.json`
last. `Download` is the operator's recursive copy, which may stop anywhere. `Lock` to
`Copied` are `trade-export --stage-data` (writer lock, `verify_v2`, copy to a temporary
directory); `ReadManifest` to `CopyPublic` are `build.mjs`, which takes no lock and reads the
data directory twice, to verify it and to copy it. Both swap in the same way: `MoveAside`,
`Install`, and `Restore` if that failed; `Clean`, `Fail` and `Crash` are how they end. `Edit`
is a file copied over by hand.

**Marts, Dashboard.** Here the tables have rows, and each step that `Loader` and `Pipeline`
interleave is one step. `Refreshed` is `insert_overwrite`; `Monthly` and `Partners` are the two
mart views, functions from their grain (cell; cell and country) to a row; `spineEnd` is the
literal with which the last build has created them. `Read`, `Valid` and `Availability` are
`SnapshotReader.read`, `validate_v2` and `scope_metadata`. `MarketScope`, `TotalFor`,
`CommonMonths`, `Analyze` and `Rendered` are the functions of `analytics.mjs` and `render`;
they are operators on `snapshot`, and the properties quantify over a reader's selections.
A ratio is a whole number of `1/Scale`, what is less is dropped, as `share` does with BigInt.

`PROJECT.json` `map` gives the lines of every definition.

## Runs

| Run | Question | Bounds | Result |
|---|---|---|---|
| `loader` | Can stages that are retried, crash, time out and overtake each other repeat or lose a version, or go back to an older one? Do they implement `RawTable` and settle? | 2 stages, 2 months, both kinds, 1 place, 3 handoffs (agreeing, revised in part, forked), one stage executed twice | holds |
| `extract_resume` | Do executions cut short anywhere keep one chain of revisions and a complete, fresh handoff? Do they implement `RevisionStore`? | 2 runs (one `--refresh`), 1 job, 2 reporters, 2 contents in two HS editions, 2 executions each, one at a time | holds |
| `extract_concurrent` | Do two runs interleaved between the S3 requests of one identity keep commits whole? | 2 `--refresh` runs, 1 identity, 3 contents, 3 revisions | holds |
| `extract_orphan` | Can an interrupted run always be resumed? | 1 run, 2 contents | **violated** |
| `fetch_task` | Is everything asked for once, within the budgets, and does the task complete? | 2 jobs, 4 reporters, budget 3, 3 attempts, 2 retries, 9 faults; either two reporters are truncated together or one is too large alone | holds |
| `local_raw` | Do executions that share a root commit sources whole, readable and complete, and does a sync run hand over what it says? | 1 market, both kinds, 2 editions, 2 revisions, 8 answers (valid, of another edition, not representable in three ways, contradictory, with a row twice, converted, with a row of another market), 1 execution that fills and 1 that refreshes side by side, a sync run executed twice, 1 foreign commit | holds |
| `fetch_extract_only` | Does repeating `--extract-only` complete a range that its budget does not cover at once? | 3 jobs, 4 reporters of which one has no rows, budget 2, no fault | **violated** |
| `pipeline_exclusive` | One stage at a time, in any order, with crashes, failed builds and late scripts: are releases consistent, in order, of the watermark they name, and never of a build of the run itself that failed? | 2 runs with a worker each over overlapping months, one with `--full-refresh`, 2 revisions, 7 executions of load, transform and publish | holds |
| `pipeline_stale_facts` | Are released facts as new as the world totals next to them? | 2 runs with a month each | **violated** |
| `pipeline_failed_build` | Is what a failed build left ever released? | 2 runs | **violated** |
| `website` | Whatever is interrupted and runs side by side, is what is named, staged and built one whole snapshot, and is none lost? | 2 releases, 2 stagers, 1 build, a data file and the manifest, 1 change by hand | holds |
| `dashboard` | Do releases show what Raw has, and does the website agree with them for every selection? | 3 months in years of 2, 2 markets, 2 products, 2 countries and a special area, 2 backgrounds (with gaps; one product without any data), 2 runs with another end, 2 changing sources | holds |

Why the bounds are enough to be of interest. Two stages, one of them executed twice, give three
clients and as many late scripts on one partition, so every pair of read, decision, submission
and commit meets in every order, and a retry meets the script of its own first attempt; two months are needed for a stage that fails half-way, the
third content for a fork (same revision, another checksum). An S3 identity is written
independently of others, so one with three revisions shows a chain that two writers extend,
and two show the progress record half done. Seven executions in the exclusive pipeline are
load, transform and publish of both runs and one repetition, the shortest history in which a
newer run is built between two builds of the older. The budget of 3 in `Fetch` exceeds
the depth at which its group halves: each execution then completes something. With a
budget no larger than that depth a task does ask the same again for ever. In the code the
budget is 100 and the depth at most 4 (ten markets), so `Completes` is
stated for the budgets the DAG and the CLI default to, and the smaller ones are listed as a
hazard. An execution on a local root keeps nothing but the root, so one that crashes and one that
follows are the filling and the refreshing one in a row; side by side they race for revision 1,
one after the other they make revision 2, and the sync run can scan before, between and after. Three attempts
and two retries stand for the code's four and three; the faults are bounded so that both can run
out. In `Website` one data file next to the manifest is the least that can be of two
snapshots; two stagers and a build meet in every step of each other's swaps. A year of
two months in `Dashboard` keeps the previous month and the previous year apart within three
months; the sources of three cells change (`Changing`), among them one that empties
the last country row of a month.

Deadlock is not checked: a run that has succeeded, and an execution whose bound is used up,
stop.

Every property has a mutant in `PROJECT.json`: a definition changed the way a plausible bug
would change the code (a comparison dropped, a put made unconditional, evidence of any attempt
accepted), which must break it. The mutated forms stand next to the definitions, marked
"Mutant".

## Operating assumption and fairness

`Exclusive` is the rule that one stage executes at a time, of whatever run. Within Airflow
the DAG enforces it (`pool="trade_pipeline"` with one slot, `max_active_runs=1`,
`max_active_tasks=1`), between CLI runs of a host the writer lock does; between the two only
the runbook, which is why the properties are stated for what they need. Under the rule hold
`Unambiguous`, `RevisionsAreChanges` and `ImplementsStore` of `Extract` and
`OwnMonthsConsistent`, `OwnFailedBuildNotReleased`, `ReleasesAdvance` and `FactsNeverRegress` of
`Pipeline`; every other property of the passing runs is proved for any interleaving, which in
`Pipeline` means of stages of one run, too: a transform and a publish of the same run may
execute side by side on two workers. That case of `ReleasedAsOfWatermark` is proved, not run by
TLC. The four of `Pipeline` above do not hold there, as TLC finds when
`Exclusive` is false: a publish that has checked its evidence does not notice
another transform of its run that fails before the marts are read. In `Pipeline`, the rule
includes that no fact refresh of a dead worker, of part of the facts or of all of them, is still
running when a load, transform or publish starts. A late *load* script is never excluded.

- `Loader`: weak fairness of a loader's own steps, for `StageSettles`. `job.result(timeout=180)`
  returns or raises, so a stage can always go on; BigQuery is assumed to do nothing in time.
- `Fetch`: weak fairness of `Work` (a request has a time-out, a process goes on) and of
  `Start` (Airflow repeats what exits with 75; the operator executes a failed task again with
  the same run id, which is what the runbook tells them to). Faults are never forced to occur or to stop
  other than by their bound.

## Proofs

The theorems hold for every value of the constants that satisfies the named `ASSUME`s: any
number of runs, stages, months, places, contents, revisions and executions. Of what the
passing runs check, every invariant and every action property is proved, and both
refinements; `PROJECT.json` lists the theorems by property.

*LoaderProofs.* `SingleVersion` and its companions are not inductive alone: that an
assertion passes tells nothing unless one knows that what the client observed was committed
once. `LoaderInv` adds this: a script was submitted for a reason that does not expire
(`JobsJustified`), metadata names a source that was audited (`ObservedAudited`), months done
are audited (`DoneMonthsAudited`). From it follow `NoMixedPartition`, `RevisionCommittedOnce`,
`NewestIsServed`, `SuccessIsCommitted`, `RevisionsGrow`, and `LoaderImplementsRawTable`,
which is `Spec => Raw!Spec`: the initial state maps to the empty tables, `Commit` to
`Replace`, every other step to a stutter.

*ExtractProofs.* Three invariants, each on top of the other:

1. `StoreInv`, for any interleaving of runs: data is there before its manifest is put
   (`DataFirst`), and whatever a stage sees or has noted is committed or still in its own
   queue (`ViewCommitted`, `RecordCommitted`). Both puts are
   conditional, so neither object is replaced afterwards. Hence
   `ManifestsAttest`, `RecordsAreCommitted`, `CommittedStays`.
2. `RecordInv`, for any interleaving: the record of a run, the group under way and what has
   yet to be fetched cover the scope (`RecordCovers`), and of a refreshing run they have only
   contents the API has returned to it. Hence `HandoffsComplete` and `RefreshesAreFresh`.
3. `RevisionInv`, with `Exclusive`: the view of the executing stage is S3 but for what it has
   yet to commit (`ViewCurrent`), so that what it numbers next follows the latest. Hence
   `RevisionsCountChanges`, `NeverAmbiguous` and `ExtractImplementsStore`, which is
   `Spec => Store!Spec`: the put of a manifest maps to `Add` of its identity, every other
   step to a stutter. Without `Exclusive` two stages can commit one revision in two editions,
   and the last two do not hold.

*FetchProofs.* `Kept`, the reporters of a group that are still asked for, is a recursive
function; that it keeps exactly the elements of a set, in order and without repetition, is
proved by taking the first prefix for which it fails. `WellPlanned` then goes through planning, halving
and answering: what is in the queue is wanted, not completed and there once, in groups that
halving makes disjoint. `Budgeted` bounds requests by executions, `RepeatsCaused` charges each
of Airflow's repetitions to a fault. Hence `NothingAskedTwice`, `BudgetHolds`, `TypesHold`.
`OwedIsAsked` says that what is owed is done or in the queue as long as a task executes, and
done when it succeeds; for a task with a progress record all that is wanted is owed
(`NothingIsSkipped`), for `--extract-only` what has rows, since a local root keeps no trace of
the rest: for it `NothingSkipped` itself does not hold, which is divergence 4.

*LocalRawProofs.* `AcceptedIsVerified` relates the two validators without any state: one edition
(`EditionFacts`) and one row per partner (`GrainFacts`) carry over from rows that
`validate_dataset` accepts to what `verify` asks. That a directory is whole is not inductive
alone, since it comes from the hidden one that is renamed: `RootInv` says of both that they were
written from accepted rows for their own path (`RootWritten`, `StagesWritten`), for which the
response must be of one answer and the revision one of a path. Hence `RootIsReadable` and
`RootIsWhole`. `CoverInv` follows an identity through an execution: readable in the root,
reported as unavailable, or still in the plan, the response or the hidden directory; it needs
that the root only grows, whoever writes it. Hence `CompletionCovers`. `HandInv` does the same for
sync runs and two stores that grow: what is uploaded is alike in both and stays so
(`HandoffsAgree`). The assumptions are that there are finitely many editions and rows, and that
`Missing` is none of the things it stands for the absence of.

*PipelineProofs.* Four invariants; the second has the first as a part, the third and the
fourth the second:

1. `PublishInv`, for any interleaving of stages, of one run or several: stages run on the
   records before them (`HandoffChain`), the history ends with the tables (`HistoryCurrent`), and what publish
   read lies between its two watermarks (`SnapshotBracketed`); since the watermark grows with
   every commit, equality of both pins the tables down. Hence `ReleasesAreOfOneWatermark`.
2. `OrderInv`, with `Exclusive`: refreshes under way belong to the one stage or to one that
   died (`OneStage`), and facts, refreshes under way and Raw stand in this order
   (`FactsBehindRaw`). Hence `FactsAdvance`.
3. `ReleaseInv`, with `Exclusive`: while the watermark has not moved, the facts of a run's
   months are those of Raw (`FactsCurrent`), and nothing released is ahead of what is about
   to be (`ReleasesBehind`). Hence `OwnMonthsAreConsistent` and `WatermarksAdvance`.
4. `BuildInv`, with `Exclusive`: a transform numbers its attempt before it touches the
   warehouse, so that while the latest attempt of a run is the one its evidence is of, the last
   build in the warehouse has passed or is of another run (`BuildSound`). Hence
   `OwnBuildsHavePassed`.

The steps of a stage change its worker in few ways, and a run's records in fewer (`WorkerChange`,
`RecordStep`): the invariants follow from these, not from the actions one by one.

*WebsiteProofs.* `WebInv` says of each program what it relies on at each of its steps: a stager
copies a version of which every file is there (`StagerOK`), a build that is not disturbed still
has the data directory whose manifest it has read (`BuilderOK`). The swap of several programs in one place
needs more: a program that is about to remove its backup finds a directory in place, or
another has moved that aside and still has it (`CleanSafe`), which is why two swaps lose
nothing between them. Hence `ReleasesAreWhole`, `StagedIsWhole`, `BuiltIsWhole` and
`NothingIsLost`, for any number of releases, stagers, builds and files.

*MartsProofs.* `MartsInv`: as long as nothing has been loaded since a run has built, the facts of its
months are those of Raw, whoever has built in between (`FactsCurrent`). That a release reaches the end
of its run although another build has moved the spine follows from `Valid` (`SpineReaches`).
Hence `ReleasesShowRaw` and, as a release lists the months with data, `CommonMonthsAreWhole`.
`RowsInv` says of the rows of a release that their bases are values of other rows of the same
release, though dbt has compared within a larger table (`BaseIsFact`). On it rest the two theorems
about sums: `GrowthBasesAgree` (the products of a selection are counted, and finite sets of
one size, one within the other, are equal) and `SharesAreExact` (a sum of months of sums of
products is the sum of the rows, `TotalsAddUp` and `AmountsAddUp`).
`SumLemmas` proves what they need of `MapThenSumSet`: it is defined by a choice and a recursion on
sets, of which the lemmas show, for finite sets, that the recursion exists and is unique
(`AddsUpExists`, `AddsUpUnique`); that the order of adding does not matter (`SumRemove`,
`SumUnion`), that values can be renamed (`SumRenamed`), and that they can be grouped
(`SumByGroups`). All take the smallest set for which the claim fails, since the library's
induction over finite sets takes an operator as a parameter. The assumptions are that there are
finitely many products and countries, and that values are natural numbers.

Only model-checked: liveness under fairness (`StageSettles`, `Completes`), which the prover
does not reach, and the four properties that are violated.

`AcceptedIsReadable` excludes sources with a value that Raw cannot represent: nothing checks
amounts against NUMERIC, or partners for being non-negative, before a source is renamed into
place, so such a source is committed, fails the verification that follows, and fails every later
scan of the root until somebody removes it. Executions that refresh side by side may
commit a revision in two editions, which every later scan refuses too.

`BuiltWhole` excludes builds whose data directory was swapped or edited while they ran
(`disturbed`): `build.mjs` verifies what it reads first and copies what it reads second, so for
these the property does not hold, and no document says it does.

`ReleaseShowsRaw` excludes a month that loses its last country row: `insert_overwrite` replaces
only partitions of which the build has selected a row, so such a month keeps its old facts.
`UnnoticedShareIsExact` is about shares shown without the notice of missing months; with it, the
numerator has months that the denominator lacks, and the share can exceed one.

## Where code and documents differ

1. `extract_orphan`: data is put before the manifest, and data without a manifest is compared
   with what is about to be written. If the worker dies between the two and the API then
   changes its answer, every resumption of the run, and every other run that wants this
   revision in this edition, ends in a conflict. The runbook says a failed run can be resumed
   with its id.
2. `pipeline_stale_facts`: a build takes the months of its own `load.json`; world totals come
   from Raw. If another run has loaded a month and not transformed it, the release shows its new
   total next to its old facts. The runbook says only the latest warehouse data is accepted.
3. `pipeline_failed_build`: the attempt that publish checks is that of its own run, while facts and
   views are shared. A build of another run that fails its tests at the same watermark is
   released by the first. The README says what dbt fails on is not exported.
4. `fetch_extract_only`: an execution of `--extract-only` plans every job with a reporter that
   lacks a source, in order, and keeps no record of reporters that have none to give. As soon as
   there are as many such jobs as the budget has requests, every further execution asks for the
   same ones and stops; the jobs after them are never asked for. The README says the command,
   executed again, continues. (The staged extract does: its progress record has such
   identities.)

## What is not modelled

Decimal sums and the grain check of the first assertion of the load script (abstracted to the
source's checksum); weight, quantity and the field types of a row, query parameters, the encoding of data and manifest; coverage and HHI, ratios of one row that
the website does not show; the HS edition of facts and marts; the age limit of the dbt
evidence (a refusal without trace); pauses between
requests; the inside of `publish_snapshot`, whose
workspace belongs to one process (`Export` is one step); a dbt build by hand, without refresh periods; the single-market dbt views;
rankings, rendering, smoke tests, CI and infrastructure. BigQuery is taken at its documented word: a transaction applies as a whole or not at
all, and one that conflicts with another is aborted (`Abort`); S3 is taken to be strongly
consistent with conditional puts.

## Plan

Done: all components of the plan are modelled, and the invariants, action properties and
refinements that the runs check are proved. Next, in this order:

1. An abstract specification of releases (each of one watermark, in order) that `Pipeline`
   implements, and the proof.
2. The scope of a resumed run, without its `--sync-only` flag, as a property (listed as a hazard).
3. The HS editions of the marts, coverage and HHI, as far as properties call for them.
