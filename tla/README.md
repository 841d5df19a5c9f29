# Sircom: TLA+ verification project

Sircom 2026 (`src/sircom2026/`) is a local web application that turns a
multi-sheet Excel workbook and an archive of images into an InDesign package. A
*lot* goes through 13 steps, some done by the user and some by a background
worker, and every upload or decision may be made again at any time. All state is
in one SQLite database and in a data directory; the worker, the purge and the
HTTP handlers share them, and nothing else. Beside the application the repository
keeps the chain of scripts of 2025 that it replaces and a kit that downloads the
attachments of the dossiers.

This directory holds TLA+ modules of the parts of that code that are hard to
test, TLC configurations that check them on small instances, and proofs checked
by TLAPS. Run the tools inside this directory:

    tlc -workers 2 -config JobQueue_chain.cfg MCJobQueue    # and _fork, _live
    tlc -workers 2 -config LotStorage.cfg LotStorage
    tlc -workers 2 -config Workflow.cfg Workflow
    tlc -workers 2 -config Table.cfg MCTable                # and Table_hidden
    tlc -workers 2 -config Images.cfg MCImages              # and Images_stuck
    tlc -workers 2 -config Delivery.cfg MCDelivery
    tlc -workers 2 -config Downloads.cfg MCDownloads
    tlc -workers 2 -config MasterChain.cfg MCMasterChain
    tlapm JobQueueProofs.tla    # and the other modules named *Proofs

Source paths below are relative to `src/sircom2026/` unless they say otherwise.
*The contract* is
`docs/specs/2026-07-21-contrat-execution-stockage-worker-sircom-2026.md` of the
repository, the specification of the execution, storage and worker layers.

## Inventory

### Components

| Component | State | Operations | What makes it correct |
|---|---|---|---|
| Job queue and leases (`worker.py`, `_database_jobs.py`, `worker_runner.py`) | table `jobs` (status, run, lease version, lease end, idempotency key); in memory, the context of each worker cycle | enqueue, acquire, start, heartbeat, finish (success, failure, cancellation), expire, cancel | one active job per step; a lost lease never writes; a job ends, once |
| Step runs and invalidation (`invalidation.py`, `pipeline.py`, `state.py`, `_database_steps.py`) | table `etapes` (status, current run, fingerprints) | record input change or validation, invalidate downstream, retry, recompute the lot status | a step's status and its run's job agree; nothing finished rests on something that changed |
| Lot lifecycle and purge (`purge.py`, `_database_lots.py`, `_database_purge.py`) | table `lots` (status, expiry), table `purge_traces` | cancel, delete, purge (two transactions around the removal of the files), purge of expired lots | a deleted lot is purged in the end and keeps nothing; purge waits for jobs |
| Artefact store (`artifacts.py`, `_database_artifacts.py`) | table `artefacts`; files of `data/lots`, `data/tmp`, `data/orphans` | put and commit, prepare then commit, open for read, mark obsolete, reconcile | a committed artefact has its file; what no row names goes away |
| Application lifecycle (`app_lifecycle.py`, `app_factory.py`, `app.py`) | the two loops, the startup report | startup reconciliation, worker loop, purge loop | a crash anywhere is repaired at startup |
| Database and schema (`database.py`, `_database_shared.py`, `_database_events.py`, `_database_problems.py`) | all tables, `problemes`, `evenements` | transactions (`BEGIN IMMEDIATE`), migrations, event sanitising | atomic operations; constraints that hold by design and not by error |
| Excel upload and diagnosis (`excel_upload.py`, `excel_diagnostic*.py`) | source artefact, diagnosis artefact, problems | upload; diagnosis job | header row, hidden rows, identifiers and collisions are found or reported |
| Mapping (`mapping.py`, `mapping_rules.py`) | draft and validated mapping artefacts, profiles | draft, validate, refuse, apply or save a profile | a validated mapping names existing columns once, with the required fields |
| Transformation and sort (`transform.py`, `sorting.py`) | fused, normalised, proposed and decided artefacts | fusion job, normalisation job, proposal, decision | no row and no cell is lost; the order is total |
| CSV contract and preview (`csv_contract.py`, `csv_preview.py`) | candidate, verification, validation artefacts, root of the image paths | verification job, validation, export | what is validated is what is exported |
| Images and matching (`images.py`, `image_*.py`, `processed_images.py`, `pathimg.py`) | archive artefact, inspection, matching, resolutions | archive upload (file first, row later), inspection job, matching job, manual resolutions | an image serves one dossier; what the user chose wins; nothing of the archive is lost |
| Reports and package (`reports*.py`, `package.py`) | reports, package artefact | reports job, package request, package job | the package, its CSV and its reports tell one story |
| Lots and HTTP API (`lots.py`, `api/`, `resource_guards.py`) | none of its own | routes; disk and size guards | a refused request changes nothing |
| Configuration (`config.py`) | none | environment parsing | limits are positive |
| Web interface (`web_*.py`, `templates/`) | none | page rendering | shows the public state |
| Synthetic workbooks (`synthetic_excels.py`) | none | test data | none to model |
| Master chain of 2025 (`src/sircom_master_script.py`, `src/scripts-2025/`) | Sircom.xlsx, the images, the files of 13 scripts, a folder of images, backups, a report | run the chain; each script over the files of the ones before | exit code, report and files are of one table and one run |
| Démarches simplifiées kit (`src/re-run-old-script-2026/demarches-simplifiee/`) | generated scripts, CSVs saved by Chrome, downloaded files, partial files, reports | prepare, extract in Chrome, plan, fetch with a pool of threads, report | the report and the exit code tell what is on the disk; a run may be repeated |
| Other scripts of 2026 (`src/scripts-2026/`, the rest of `src/re-run-old-script-2026/`) | files | one-shot scripts | the application has the same rules |
| Static assets and visual tests (`static/`, `visual-tests/`) | none | vendored design system, browser tests | none to model |

### Interactions

* **HTTP handlers and the worker** meet in the database only. A handler runs one
  `BEGIN IMMEDIATE` transaction; a worker cycle runs several (expire, acquire,
  start, commits of the handler, finish), and any other transaction may run
  between two of them. The image upload also works between two transactions.
* **A decision invalidates** everything downstream in the step graph: jobs are
  canceled, artefacts become obsolete, runs are cleared. The worker finds out at
  its next transaction, from the run and the lease version.
* **The end of a job starts others**: `matching_images` and `rapports` are queued
  automatically when their parents are done, and some steps are handed over to
  the user (`action_requise`) with a run of their own.
* **Content crosses steps as JSON artefacts**: diagnosis, mapping, merged and
  normalised tables, verification, sort, preview, inspection, matching. Each step
  reads the current artefact of the ones before it; the diagnosis, the mapping and
  the merge each read the workbook anew, with different readers.
* **Purge and worker**: a deletion waits for the processing jobs of the lot; the
  worker loop and the timer resume it. The files are removed between two
  transactions of the purge.
* **Startup** expires leases, compares rows and files, quarantines orphans and
  purges expired lots, in one transaction.
* A worker can also be run **in another process**
  (`src/scripts-2026/run_worker_once.py`, which the repository's README documents).
* **The earlier tools** share files only: each script of the chain reads what an
  earlier one left, possibly in an earlier run; the downloader reads the last CSV
  that Chrome saved.

### What is hard here

Interleavings of handlers, worker and purge between transactions; a worker that
lost its lease and does not know it yet; a crash between a transaction and a file
operation, which does not roll back; requests repeated with an idempotency key;
state recomputed by some operations and not by others; two readers of one workbook
that must agree on what they see; decisions that outlive what they were taken on
(image choices, mapping profiles, the root of a lot); files of an earlier run taken
for those of this one. PROJECT.json lists these hazards one by one, each at the
line where it bites, with the properties that would catch it.

## Modules

    Workbook <- Mapping <- Table                      the workbook, from diagnosis to CSV
    Table <- MCTable, TableProofs
    Images <- Delivery <- MCDelivery                  the images, the package
    Images <- MCImages
    Delivery <- DeliveryProofs
    Pipeline <- Workflow <- WorkflowProofs            when the 13 steps run
    JobContract <= JobQueue <- MCJobQueue             the queue, and what it promises
    LotLife <= JobQueue, LotStorage                   the life of a lot, which both keep
    JobQueue <- JobQueueProofs <- JobPromiseProofs
    LotStorage <- LotStorageProofs                    rows against files
    Downloads <- MCDownloads, DownloadsProofs         the download kit
    MasterChain <- MCMasterChain, ChainProofs         the chain of 2025

(`<-`: is extended by; `<=`: is implemented by.) The application is cut in two: Workflow,
JobQueue and LotStorage say *when* steps run, are interrupted and invalidated, and
leave out what they compute; Table, Images and Delivery say *what* they compute from
what earlier steps left, one lot at a time, and take from Workflow that a product
that became obsolete goes away.

### JobQueue: the queue, the steps and the lots

One transaction is one action; a worker cycle is a sequence of actions.

| Code | Model |
|---|---|
| rows of `lots`, `etapes`, `jobs`, `artefacts` | `lots`, `etapes`, `jobs`, `artefacts` |
| `WorkerJobContext` and the point a cycle has reached | `workers[w]`: `pc`, job, lease version, whether the handler committed |
| uploads and decisions (`excel_upload.py`, `images.py`, `mapping.py`, `sorting.py`, `image_matching.py`) | `Submit` when the next worker step is queued, `Reset` when it is not ready |
| `retry_step`, `request_package_generation` | `Retry`, `Request` |
| `request_lot_cancellation`, `delete_lot_and_purge_if_idle`, `purge_deleted_lots_once` | `RequestCancel`, `Delete`, `Purge` |
| `expire_stale_leases`, `acquire_next`, `start_job` | `Sweep`, `Acquire`, `Start` |
| the handler, between the two cancellation checks | `HandlerBegins`, `Publish`, `HandlerReturns`, `HandlerRaises`, `HandlerCanceled`, `LeaseLost` |
| `finish_success`, `finish_failed`, `finish_canceled`, a refused transaction | `FinishSuccess`, `FinishBlocked`, `FinishFailed`, `FinishCanceled`, `Rejected` |
| process death, an exception in a transaction of the cycle | `Crash` |
| the clock against `lease_until` | `OrphanLapses`, `HeldLapses` |

Abstractions:

* A run carries the name of its job (`enqueue_job` draws one run per job).
* A lease is current or lapsed. `lease_owner` is left out: the worker identifier
  has one default value for every process, so only the version can fence.
* All lot statuses that accept writes are one, `"ouvert"`; the two "termine"
  statuses are one. `recompute_lot_status` moves between statuses that are merged
  here, except `annule`, which the model sets where the code does.
* `cancel_requested_at` of a job is derived: it is set when the job was canceled
  or when its lot asks for it.
* The purge of a lot is one step here; its two transactions are in LotStorage.
* The sources of a handler are checked when it publishes: a source that changes
  earlier resets the step, and with it the run the commit needs.
* `acquire_next` orders by creation time, whose resolution is one second. Rows of
  one second (`CreatedAt`) may be taken in any order.
* `RequestCancel` has no HTTP route at this commit; `request_lot_cancellation` is
  called by tests, and the worker implements all of its consequences.
* Not modelled: a manual image resolution saved again while the job it queued is
  expired, which gets that job back instead of a new one.

The step graph is a parameter. `MCJobQueue` gives two pieces of
`V1_INVALIDATION_DAG`: the end of the workflow, where reports hand the package
over to the user, and the fork where two independent steps make a third ready.

### JobContract: what the queue promises

`JobContract` is the specification a user of the queue needs: jobs are asked for on
an open lot, wait, are held within the slots, and end once; a lot closes in one
direction and takes its jobs with it. It knows no step, run, lease or worker. JobQueue
implements it under the mapping `LotState`, `JobState` at the end of JobQueue.tla
(`Contract == INSTANCE JobContract WITH ...`): an acquired or running job is `held`,
a queued or expired one waits, a purged row is `purged`. The run `queue_fork` checks
the temporal property `ImplementsContract`, and JobPromiseProofs proves it.
Taking a job releases, in the same step, those whose workers were lost: the sweep of
expired leases and the acquisition are one transaction.

### LotLife: the life of a lot

JobQueue sees a lot as rows of jobs and steps, and purges it in one step; LotStorage
sees it as rows and files, and purges it in two transactions with the files in between.
`LotLife` is what both must keep of it: `status` (open, canceled, deleted, purged),
`held` (a worker has a lease on it) and `exposed` (it has a committed artefact). A lease
begins on an open lot (`Take`), a commit is refused once the lot is deleted (`Expose`),
a confirmed cancellation does not bring a deleted lot back (`Cancel`), a lot is purged
when no lease is left (`Purge`) and stays as it is. In JobQueue a lot is held by a job that
is leased or running and whose lease has not lapsed, in LotStorage by a writer whose lease
is held. Each module ends with its mapping (`Life == INSTANCE LotLife WITH ...`) and the
property `KeepsTheLifeOfLots`.

### LotStorage: rows against files

| Code | Model |
|---|---|
| rows of `artefacts`, files under `data/lots/<lot>` | `rows`, `files` |
| `put_temp_then_commit`, and its rollback after the rename | `PutThenCommit`, `PutThenRollback` |
| the image upload and the package job: `prepare_file_for_commit`, then `create_committed_from_prepared_file` | `Begin`, `PrepareFile`, `Register`, `Abandon`, `CancelLot` |
| `open_for_read` on a missing file | `ReadMissing` |
| `retry_step` (the artefacts of the step stay committed) | `Retry` |
| `delete_lot_and_purge_if_idle`, `purge_deleted_lots_once`, `purge_lot` | `Delete`, `StartPurge`, `RemoveFile`, `Removed`, `FinishPurge`, `PurgeFails` |
| process death, `reconcile_artifacts_at_startup` | `Crash`, `Startup` |
| a file deleted or altered by somebody else | `LoseFile` |

Abstractions: a lot that accepts writes is `"ouvert"`; a row knows whether its run
is still the current run of its step; a pending row never outlives its
transaction, so it is not a state; a quarantined file is gone; purge traces are
not pruned within the time covered; the purge of expired lots at startup is
`StartPurge`. Empty directories and the temporary archives of interrupted uploads
(`tmp/upload-images-*.zip`, which no code removes after a crash) are left out.
`External` names the writers that run in another process than the application:
they survive its crash and its startup does not know them.

### Pipeline and Workflow: the business steps of one open lot

`Pipeline` holds the step graph and the operators of `pipeline.py`; `Workflow`
extends it with the state of the 13 steps. A decision or an upload of the user is
one transaction, hence one action; a worker job is four, and the user may act
between any two of them.

| Code | Model |
|---|---|
| row of `etapes`, its active job, its current artefact and open blocking problems | `etapes[s]`: `status`, `job`, `artefact`, `probleme` |
| input fingerprint of a run | `sources`: the artefact of each source it was made from |
| what a running handler has read | `lu` |
| `recompute_lot_status` | `LotStatus`, `Recompute`, and `WriteQuietly` where the code does not call it |
| `upload_excel_for_lot`, `upload_prepared_image_zip_for_lot` | `UploadExcel`, `UploadImages` |
| `save_mapping_draft`, `validate_mapping` and its refusal | `SaveMappingDraft`, `ValidateMapping`, `RefuseMapping` |
| `validate_sort_decision`, `validate_csv_preview`, `save_image_resolutions`, `request_package_generation`, `retry_step` | `ValidateSort`, `ValidatePreview`, `ResolveImages`, `RequestPackage`, `Retry` |
| `start_job`; first and last transaction of a handler; `finish_success`, `finish_failed` | `Start`; `ReadSources`, `Commit`; `Finish`, `FinishBlocked`, `Fail` |
| a worker that dies and whose job is taken again | `Crash` |
| the end of a package build whose job was canceled | `EndLateBuild` |

Abstractions: JobQueue has the leases, the versions and the closing of lots, so a
step here has one job at most, and a job whose step got another run does not write
(the late build apart). Artefacts carry numbers that are reused when nothing refers
to them any more, which keeps the model finite without bounding its length. There are
more numbers (`Versions`) than rows can refer to, so a step never runs out of them;
lemma `FreshIsFree` proves it. What a handler computes is a choice between
its outcomes. "Terminé" with and without alerts are one status; `ignore` and
`annule` are left out, and so is the image root a validation may change (Delivery has
it). What is downstream of a step is the least set closed under the graph
(`Visited`), which is what the loop of the code collects. An upload or decision repeated with its idempotency key changes nothing, except
for the replayed validation of the findings below. The matching does not change the
bytes of the CSV, only the fingerprint and the alerts of the preview.

### Workbook, Mapping and Table: from the workbook to the CSV

`Workbook` translates the diagnosis as operators, `Mapping` the rules of the column
mapping, and `Table` is the state machine of one lot whose workbook, mapping, tables,
sort and CSV follow from each other.

| Code | Model |
|---|---|
| `excel_diagnostic.py`: header row, limits, identifiers, collisions | `DetectHeaderRow`, `DiagnoseSheet`, `CsvHeaderCollisions`, `DiagnoseWorkbook` |
| problems of `excel_diagnostic_pipeline.py` | `SheetProblems`, `DiagnosisProblems`, `SheetBlockers` |
| `mapping_rules.py`, `build_default_mapping`, validation, profiles | `DefaultMapping`, `FromSubmission`, `ValidationErrors`, `ProfileFrom`, `ProfileSubmission` |
| `save_mapping_draft`, `validate_mapping`, refusal, `save` and `apply` of a profile | `SaveDraft`, `ValidateMapping`, `RefuseMapping`, `SaveProfile`, `ApplyProfile` |
| `build_flat_merge`, row by row | `StartMerge`, `MergeRow`, `NextSheet`, `FinishMerge` |
| `normalize_flat_merge`; `csv_contract.py` | `Normalize`; `VerifyContract` |
| `sorting.py` | `Detection`, `SortKey`, `Sort` |
| preview and its validation | `PreviewRow`, `ValidatePreview` |

What a cell says is a member of the small set `Cells`, and each conversion of the code
is a constant function on it (`Canon`, `Ident`, `Text`, `Fold`...), so that two cells
that one conversion confuses may be different for another: this is where readers
that should agree may not. A hidden row keeps the spelling of its attribute, which
openpyxl and the merge read differently. The merge takes one row of the workbook
per step. Left out: file signatures, zip guards, the XML itself, and the bytes of the
CSV (UTF-16, quoting). `SubmissionBound`, `ProfileBound` and `DepositBound` cut orders
of actions that Workflow covers. Rows and columns that a comprehension of the code
keeps are taken out of a sequence by their places (`Picked`), in order.

### Images: inspection, matching, resolutions

| Code | Model |
|---|---|
| entries and refusals of `inspect_image_zip` | `EntryBlocker`, `Blockers`, `InspectImageZip` |
| `match_row_image`, `_fallback_match`, `_partial_suggestions` | `Probes`, `Settles`, `AutomaticMatch`, `PartialSuggestions` |
| the image the user chose | `ManualMatch`, `ManualCollisions` |
| `mark_duplicate_automatic_sources` | `MarkDuplicateSources` |
| `build_image_matching_payload`, unreferenced images, warnings | `Bindings`, `Unreferenced`, `HasWarnings` |
| `processed_images.py` | `Converted`, `ProcessedImages` |
| archive upload, inspection job, a new table, matching job, `save_image_resolutions` | `Deposit`, `Inspect`, `Normalize`, `Match`, `Resolve` |

A name is known by the keys it is looked up under (`FullName`, `Stem`, `Tolerant`,
`Folded`); keys part of one another are the relation `Within`. A row has its identifier
once in a table, which `OneRowPerIdentifier` of Table shows of the merge, a full
name is folded from the same text as the archive's name, and the name of an image is
never empty, since it has its extension (`ImagesAssumption`). The
resolutions live in the summary of the step, so they outlive the archive and the table
they were taken on: `Deposit` and `Normalize` keep them.

### Delivery: CSV, reports and package

`Delivery` extends Images with the root of the image paths (the lot's, or the
configuration's, which a restart may change), the validated CSV, the reports, the
request and the package. Its actions are those of Images with what they invalidate,
and `ValidatePreview`, `GenerateReports`, `RequestPackage`, `BuildPackage`,
`LoseArchive`, `Restart`. A table stands for the sorted and verified content. The reports
count from the rows of the artefacts, the package from their files, and a lost file is
noticed by the transaction that reads it (`SourceRead`): the two may disagree on
whether there is an archive. A table has no row without an identifier
(`DeliveryAssumption`), since the merge keeps none. Rendering of the reports, checksums and the zip itself are
left out.

### Downloads: the download kit

`src/re-run-old-script-2026/demarches-simplifiee/`: `orchestrator.py` generates a script
(`Prepare`, `PrepareErrors`), Chrome runs it and saves a CSV (`Export`), and
`download_attachments_from_csv.py` plans (`Plan`), fetches with threads (`Start`,
`Answered`, `Received`, `Check`, `Replace` and their failures), collects and writes its
report (`Collect`, `WriteReport`, `Finish`). `Crash` kills a run anywhere and may cut
the report it was writing. Rows are known by their positions in the CSV, as the code
knows them: the plan, the tasks and a report are functions on them. A report gives each
position its line; the order of the lines, which is that of the threads, is left out, and
a torn report has any strict part of them. A path is the tuple of the parts of its name; contents are an
attachment and a body (`whole`, `short`, `page`).

Bounds of the model: what happens in Chrome happens between two runs; a script of an
earlier preparation that is still running in Chrome is not modelled; a row whose own
name ends in " (2)" as another's number does is left out; nobody removes downloaded
files; a truncated body counts as usable, as it does for the code; Ctrl-C is a kill; one
page saved earlier may be in the directory at first.

### MasterChain: the chain of 2025

`src/sircom_master_script.py` runs the 13 scripts of `src/scripts-2025/`. Each script is
a function of the sheet it reads (`FillEmpty` ... `MappingOf`), `Accepts` is what it
refuses, `Executed` is `execute_script` and `validate_file` on what it left, `Status` is
the report's. The files of earlier runs stay, `ScriptFails` and `Interrupt` cut a script
before, while or after it writes, and `Deposit`, `Withdraw` and `ChangeImages` replace
the sources at any time. The sort of script 3 and the selection of script 8 are closed forms
that can be reasoned about: a sorted row has the place that its number of rows before it
gives it (`SortRows`), a kept one that of its number among the kept (`Picked`).

Two details of the code matter to images and identifiers. Script 3 writes the sorted rows
over the rows that were there, and writing `None` to a cell leaves it as it is (`Over`): a row
without identifier, whose image name is blank, keeps the image name of the row whose place
it takes. The scripts do not agree on what is empty: for script 8 "none" and "undefined" are
(`Empty`, with the texts `Voids`), for script 10 they are not, but "N/A" is (`ValidImage`);
scripts 10 and 12 strip what they read (`Stripped`). The tables of `MCMasterChain` have an
identifier "none", rows without identifier that the sort moves and that it does not, a
photo "N/A" and one with a trailing space.

Bounds: one master script at a time, one sheet without empty
header; the correspondence file (`mapping_colonnes_charles.csv`), the virtual
environment and the logs are left out.

### Proof modules

JobQueueProofs, JobPromiseProofs, WorkflowProofs, LotStorageProofs, TableProofs,
DeliveryProofs (Images and Delivery), DownloadsProofs, ChainProofs: see "Proofs".

## Runs

The runs of JobQueue, LotStorage, Table, Downloads and MasterChain do not check for
deadlock: a lot at rest, a purged lot, a validated CSV, a finished run or a spent bound
is a legitimate end. Those of Workflow, Images and Delivery do.

| Run | Instance | States | What it shows |
|---|---|---|---|
| `queue_chain` | matching, reports, package; 1 lot, 2 workers, 1 retry key, 3 jobs, 1 slot, 1 crash | 1,637,058 | jobs and steps stay in agreement through uploads, retries, package requests, cancellation, deletion and a crash |
| `queue_fork` | normalisation and inspection before matching; 2 workers, 3 jobs, 2 slots, 1 lapse under a live worker | 2,791,924 | the lease version alone keeps late workers out; the queue implements its contract |
| `queue_live` | the chain with fairness; 2 workers, 2 jobs, 1 crash | 95,018 | an accepted job ends, is replaced, or its lot closes; a deleted lot is purged |
| `storage` | 1 lot, 2 artefacts, 2 writers, 2 purges, 2 crashes, 1 lapse, 1 lost file, with fairness | 154,334 | rows and files agree where downloads are exposed; a purge ends, resumes, and leaves nothing |
| `workflow` | the 13 steps; 1 retry, failure, late build or lapsed lease | 500,577 | finished steps rest on current artefacts, automatic steps are woken, the lot tells its steps, the package has no blocker under it |
| `table` | one-sheet workbooks of 3 rows of 8 shapes, one of which may be hidden, 7 flaws, pairs of sheets that share identifiers, every edit of one column that a user may edit, 2 replacements | 166,046 | the CSV says what the workbook says, and only blocks for what is reported |
| `table_hidden` | the same, rows also hidden as `"true"` | | **violation**: an ignored row is exported |
| `images` | 10 sound and 14 flawed archives, 17 tables, 2 resolutions | 141,489 | an image serves one dossier, the chosen and the named image win, nothing is lost |
| `images_stuck` | the same | | **violation**: an ambiguity that no choice resolves |
| `delivery` | 3 archives, 3 tables, 2 roots, 1 restart, 1 resolution | 20,556 | CSV, reports and images tell the same story |
| `downloads` | 2 dossiers, 1 of them refused, 2 CSVs made by hand, 2 threads, 1 retry, 2 runs, 1 kill | 789,216 | report, exit code and files agree; every run ends |
| `master_chain` | 7 tables, 2 galleries, 2 roots, 2 runs, 2 changes, 1 incident | 944,972 | exit code, report and images tell what is on the disk |

Why the bounds are enough. Lots share nothing but the slots, so one lot is enough
for all that is about one lot. Two workers are the smallest number where a lease
can be taken over. Three jobs allow a job, the one that replaces it, and one
queued by the end of another; the proofs cover any number. One slot with two
workers makes the second wait; two slots make them run together. One crash and
one lapse each can fall at every point of a cycle; two crashes in `storage` let a
purge be interrupted and its resumption fail. Two artefacts let one replace the
other while both files exist. Symmetry is used over workers only, and in no run
that checks a liveness property. In Workflow nothing is bounded but the incidents:
uploads and decisions come in any number and order, and one retry, failure or
lapse may fall at every point of them. In Table, three rows allow a header, data above
it or two rows below it, and two sheets are what a merge needs to meet an identifier
again; the pairs hold the spellings that one conversion joins and another keeps apart.
In Images, two rows and at most three images are where two rows meet on one
image, one name or one key; archives and tables are replaced without bound. In
Downloads, two rows of one name and two runs are where a file meets another's name;
in MasterChain, two runs are where the files of one are read by the next, and two
changes withdraw and replace a table inside one run.

### Properties

JobQueue:

* `OneActiveJobPerStep`: the unique index on active jobs is never what refuses a
  request.
* `ActiveJobsAreCurrent`: an active job of an open lot carries the current run of
  its step, for every step no job hands over.
* `StepTellsItsRun`: the status of a step and that of its job tell one story.
* `FinishedStepExposesItsAttempt`: a finished step exposes the artefact of the
  attempt that finished it and no other.
* `LeasesAreFenced`: two workers on one job never hold the same version.
* `PurgedLotIsEmpty`: no late worker brings a row of a purged lot back.
* `ImplementsContract`: every step of the queue is a step of its contract.
* `JobSettles`, `DeletedLotIsPurged`: liveness.

LotStorage: `ExposedArtefactHasItsFile`, `PurgedLotKeepsNothing`, and the liveness
property `PurgeResumes`.

Workflow:

* `FinishedStepUsedWhatIsCurrent`: a finished step was made from the artefacts its
  sources have now. Two gaps of the code are left out by name: a mapping that went
  back to a draft, or was refused, invalidates nothing; and the matching of the
  preview (see the findings).
* `LotTellsItsSteps`: the status of the lot lags behind its steps only while a job
  is at work.
* `ReadyStepsAreQueued`: no lost wake-up, whichever parent ends last. The parents are
  written out, not taken from `ReadyParents`.
* `WaitingStepsAreReady`: what is offered to the user can be done.
* `PackageHasNoBlocker`: no blocker under a finished package.

Table:

* `DiagnosisTellsItsProblems`: a workbook is refused if and only if a blocking problem
  says why, although the two are computed apart.
* `AcceptedDataIsMapped`: every visible cell of an accepted workbook is under one column
  of its default mapping. That mapping may still be refused (see the findings).
* `OneRowPerIdentifier`, `EveryRowIsAccountedFor`: the merged table has one row per
  identifier, and every row of the workbook is in it, counted or refused.
* `CsvTellsTheWorkbook`: each cell of the CSV is the one a reader of the workbook would
  write there, stated from the workbook and not from the steps.
* `VerifiedContentIsAccepted`: what the verification accepts stays valid in the CSV that
  is validated after the sort.
* `ProfileReplaysItsMapping`: a profile gives back the choices it was saved with, on any
  workbook it is compatible with, and a mapping that can be validated. A name submitted
  empty stands for the default name (`SubmittedName`), so a column left out of the CSV
  whose name is cleaned to nothing comes back under its default name, and only this one.

Images and Delivery:

* `ImagesServeOneDossier`, `NamedImageIsUsed`, `EveryImageIsAccountedFor`.
* `ChosenImageIsUsed`: a chosen image that the archive has is given to its dossier, with
  two exceptions that block the lot on a line of that dossier: another dossier ends in the
  same file name, or another one finds the chosen image by its own names, and then neither
  has it (`mark_duplicate_automatic_sources` takes manual matches too).
* `PackagedImagesAreNamed`: each image of the package is at the path the CSV gives for
  its dossier, even if the CSV was validated before the matching.
* `ExportedCsvIsCurrent`: what can be exported is what would be validated now.
* `ReportsCountThePackage`, `AlertlessPackageIsComplete`.

Downloads: `ReportedFilesAreThere` (also of a torn report), `ExitTellsTheReport`,
`KeptFilesStay` (a usable file is never lost or replaced), `RunEnds`.

MasterChain: `CompleteRunIsOfOneTable` (an exit code of zero means one table, whatever
earlier runs left; the CSV has the rows whose identifier script 8 takes for one),
`ReportTellsTheRun`, `ImagesServeOneDossier` (an image that a run wrote is that of the one
row its name goes to, and after an exit code of zero each line of the CSV has in the folder,
under the name it gives, the photo of its row, if that is a valid image).

### Fairness

`FairSpec` of JobQueue asks weak fairness of `Acquire`, of a worker's `Cycle`, of
`Purge`, `Sweep` and `OrphanLapses`. `app_lifecycle.py:98-115` runs the worker loop
and the purge loop for ever, each catching every exception of an iteration; a
handler is a finite computation; a lease that nobody renews ends with the clock.
Users owe nothing, crashes and late renewals are not fair. LotStorage asks the
same of the purge loop, of the two halves of a purge, of the end of requests and
jobs, of the lapse of a dead worker's lease, and that an application that stopped
is started again. Downloads asks it of the threads of the pool together and of the main
thread, both of which the operating system schedules, and of no user and no kill; a
request ends by its timeout. The other modules state no liveness.

## Findings

Two runs show a disagreement between the code and the documents.

1. `table_hidden`. The diagnosis reads hidden rows with openpyxl, for which
   `hidden="true"` and `hidden="1"` are the same, and tells the user they are ignored
   (`excel_diagnostic_pipeline.py:347-349`); the merge reads the XML itself and passes
   over `"1"` only (`transform.py:555`), so such a row is exported.
2. `images_stuck`. A dossier without image whose name is part of another's image name is
   `ambiguous`, which blocks the matching (`image_matching_rules.py:176`). A resolution
   can only give it an image, each of which serves another dossier. The design asks for
   "ambiguïté résoluble" (`design-architecture-web-sircom-2026.md:995`).

The following were met while modelling and have no run. The modules follow the code;
their properties are stated around these cases where they meet them.

Execution and storage:

* The end of `rapports` gives `package_final` a new run (`worker.py:323`, `reports.py:210`)
  without looking at its jobs. A job queued by a retry before that is never acquired, and
  every later request gets it back (`worker.py:532-534`); the contract (line 183) has the
  worker acquire any queued job. The same retry may leave the step blocked with its
  problem open, so that neither a request nor a retry is accepted.
* The commit of an artefact does not check that the lot was not canceled
  (`_database_jobs.py:142`; contract, lines 194-198). It takes two slots.
* A crash after the files of a lot are removed and before its rows are makes the startup
  transaction roll back as a whole (`_database_problems.py:118`, `app_lifecycle.py:76`;
  contract, lines 220-224). The purge itself resumes later.
* A worker in another process prepares its file before a row names it: a startup in
  between quarantines the file, and the row is committed without it (`package.py:232`;
  contract, lines 208-213).
* A preview validated while the images are being matched stays validated under another
  matching (`csv_preview.py:479`; design, line 800).
* A validation of the preview sent again after its reports job ended is a server error
  (`csv_preview.py:133`; UI design, line 156).
* A package build that fails records its problem without checking the lease
  (`package.py:222`; contract, lines 188-198).
* A sort validated before the verification ends leaves the preview un-offered; a lot
  without images never becomes `termine`; a mapping draft or refusal invalidates
  nothing; `DELETE` purges physically when the lot is idle
  (`contrat-exploitation-purge`, line 51, says it does not); a second concurrent purge
  overwrites the counters of the trace, and one resumed after a partial removal counts
  what was left.

Workbook and mapping:

* When one sheet exceeds the limits, sound sheets get blocking problems of their own
  (`excel_diagnostic.py:514-535`, `excel_diagnostic_pipeline.py:389-412`).
* The identifiers `7` as text and `7.0` as number are two for the diagnosis and one for
  the merge, which then blocks; inner spaces of an identifier are collapsed by the
  normalisation and not by the merge key.
* A header of punctuation only and one that reads "Colonne", under the same letter in two
  sheets, collide in the default mapping though the diagnosis sees no collision
  (`mapping_rules.py:102-105`). Collisions of cleaned headers within a sheet cannot occur.
* An identifier column that is not the first is accepted by the diagnosis and the mapping
  and always refused by the verification. A user may give the role of identifier to
  another column, which becomes the merge key and leaves the CSV.
* Hidden data rows are a warning where the web specification
  (`fiabilisation`, lines 107-114) has a refusal.

Images and delivery:

* A choice whose dossier vanished keeps its image reserved, choices cannot be withdrawn,
  and one applies by name to the image of a later archive.
* Two identifiers may have one image name: it only blocks when an archive is deposited.
* The path of an image is written even for a dossier without image
  (`csv_preview.py:533-574`), which `contrat-donnees-csv-images` (lines 206 and 215) says is
  left empty; the tests hold the filled form.
* The matching writes its own paths under the configured root, the CSV under the lot's
  (`csv_preview.py:436-441`). After a restart under another root the CSV cannot be exported
  until it is validated again, while reports and package take the old one.
* An archive lost after the matching makes a package without images whose reports count
  them (`package.py:374`), with an alert only; the job does not ask again.

Earlier tools:

* Downloads: truncated bodies are kept; two rows of a plan may have one target, when the
  own name of one ends in " (2)" as `numbered_path` makes that of another (lines 116-120 of
  the downloader; outside the model); a file is kept by its name; an extraction of an
  older script that ends after a new preparation passes for fresh, by its date alone.
* Chain: the folder of images is never emptied and is not backed up; script 11 ends
  with 0 when its inputs are missing; script 12 does not fail for an identifier the CSV
  lacks and compares no other data, though it prints that they are right; script 2 wants
  column F headed exactly "ID", a header script 12 does not recognise; script 3 gives a row
  without identifier that it moves the image name of the row formerly at its place
  (`3-fusion_tri_region_departement.py:68-70`), on which script 7 stops
  (`7-add_pathimg_excel.py:106-113`); a dossier whose identifier is "none" or "undefined" is
  left out of the CSV by script 8 (`8-optimize_content_excel.py:27-32`) and the chain ends
  with 0.

## Proofs

Proved for every value of the constants that satisfies the named assumptions:

| Module | Theorem | Property |
|---|---|---|
| JobQueueProofs | `Invariance` | `IInv` |
| | `TypeCorrectness` | `TypeOK` |
| | `OneActiveJob` | `OneActiveJobPerStep` |
| | `NoJobIsOrphaned` | `ActiveJobsAreCurrent` |
| | `Fencing` | `LeasesAreFenced` |
| | `PurgeIsFinal` | `PurgedLotIsEmpty` |
| | `OutcomesNeverChange` | `OutcomesAreFinal` |
| | `LotsCloseOneWay` | `ClosingIsOneWay` |
| JobPromiseProofs | `StepsInvariance` | `FInv` |
| | `StepsTellTheirRuns` | `StepTellsItsRun` |
| | `FinishedStepsExposeTheirAttempt` | `FinishedStepExposesItsAttempt` |
| | `QueueImplementsContract` | `ImplementsContract` |
| | `QueueKeepsTheLifeOfLots` | `KeepsTheLifeOfLots` of JobQueue |
| WorkflowProofs | `WorkflowInvariance` | `IInv` |
| | `TypeCorrectness` | `TypeOK` |
| | `FinishedStepsAreCurrent` | `FinishedStepUsedWhatIsCurrent` |
| | `LotStatusIsThatOfItsSteps` | `LotTellsItsSteps` |
| | `NoWakeUpIsLost` | `ReadyStepsAreQueued` |
| | `WaitingStepsHaveTheirSources` | `WaitingStepsAreReady` |
| | `PackagesHaveNoBlocker` | `PackageHasNoBlocker` |
| | `GraphSuitsTheQueue` | `DagAssumption` of JobQueue, for the graph of the code |
| LotStorageProofs | `StorageInvariance` | `SInv` |
| | `ExposedArtefactsHaveFiles` | `ExposedArtefactHasItsFile` |
| | `PurgesLeaveNothing` | `PurgedLotKeepsNothing` |
| | `StorageKeepsTheLifeOfLots` | `KeepsTheLifeOfLots` of LotStorage |
| TableProofs | `TableInvariance` | `IInv` |
| | `VerdictsAgree` | `DiagnosisTellsItsProblems` |
| | `IdentifiersHaveOneRow` | `OneRowPerIdentifier` |
| | `RowsAreAccountedFor` | `EveryRowIsAccountedFor` |
| | `AcceptedDataHasItsColumn` | `AcceptedDataIsMapped` |
| | `ProfilesReplayTheirMapping` | `ProfileReplaysItsMapping` |
| | `VerifiedStaysAccepted` | `VerifiedContentIsAccepted` |
| | `CsvTellsWhatWasRead` | `CsvTellsTheWorkbook` |
| DeliveryProofs | `ImagesInvariance` | `Grounded` |
| | `ImagesAccounted` | `EveryImageIsAccountedFor` |
| | `OneDossierPerImage` | `ImagesServeOneDossier` |
| | `ChoicesAreKept` | `ChosenImageIsUsed` |
| | `NamesAreKept` | `NamedImageIsUsed` |
| | `DeliveryInvariance` | `DInv` |
| | `PackagedImagesHaveTheirLine` | `PackagedImagesAreNamed` |
| | `ExportsAreCurrent` | `ExportedCsvIsCurrent` |
| | `ReportsTellThePackage` | `ReportsCountThePackage` |
| | `AlertlessPackagesAreComplete` | `AlertlessPackageIsComplete` |
| DownloadsProofs | `DownloadsInvariance` | `IInv` |
| | `ReportsTellOfTheFiles` | `ReportedFilesAreThere` |
| | `ExitCodeTellsTheReport` | `ExitTellsTheReport` |
| | `UsableFilesStay` | `KeptFilesStay` |
| ChainProofs | `ReportsTellTheirRun` | `ReportTellsTheRun` |
| | `ImagesAreOfOneDossier` | `ImagesServeOneDossier` |
| | `CompleteRunsAreOfOneTable` | `CompleteRunIsOfOneTable` |

**JobQueue.** Assumptions: `DagAssumption` (the step graph: a step is not downstream of
itself, and what is downstream of a step is downstream of its sources),
`BoundAssumption` (types of the bounds) and `NullAssumption` (the null values are no job,
lot or step). TLC evaluates them on every instance. The inductive invariant `IInv`, and
why each part is there:

* `TypeOK`, and `RowsHaveSteps`: the foreign keys of a job row;
* `OneActiveJobPerStep` is not inductive alone: `Acquire` may activate an *expired*
  job. It is safe because the job's run is then the step's current run, while any
  other active job of the step would have to be current too. That is
  `ActiveJobsAreCurrentOrHandedOver`: an active job carries the run of its step, or
  the step was handed to the user since. `ActiveJobsAreCurrent` follows from it;
* `RunsHaveRows`: a step's run is never a number that a later job could take, or a
  new job would be current for two steps;
* `LeasesAreFenced` needs `LeasesAreNotAhead`: no worker holds a version above its
  job's, so the next version is one nobody holds;
* `PurgedLotIsEmpty`: a late worker finds no row of its job.

Most actions only take jobs out of the queue or move a worker: lemma `QuietStep` covers
them at once (nothing is activated, no run moves). Those that queue a job (`Submit`,
`Reset`, `Retry`, `Request`, `FinishSuccess`) are instances of lemma `QueueStep`: a step
whose run changes either has no active job left or is handed over. `Acquire` and the
purge have a lemma each (`AcquirePreserves`, `PurgedPreserves`), and `FencingKept`
carries the lease versions. The two action properties follow from the same invariant,
action by action.

**What the steps show** (JobPromiseProofs). It needs more than `IInv`. `FInv` adds to the two properties:

* `RunsAreRows`: the current run of a step is a row of that very step, in a closed lot too,
  so a row that changes changes one step only;
* `FinishedRunsSucceeded`: a finished step had a job that succeeded, in a closed lot too.
  A canceled lot still accepts a publication, and this is why it cannot be one for a
  finished step;
* `AnnouncedIsExposed`: what a worker has published stays exposed while its lease is
  current. No other worker can publish over it: both would hold the current version of
  one job, which `LeasesAreFenced` excludes.

Each action but `Publish` moves a step in one of four ways: nothing but its rows taken
out of the queue (`StepSame`), a new run or none (`StepMoved`), the purge (`StepGone`), or
together with its job (`StepRan`). Lemma `StoryStep` proves the invariant once for these;
the lemmas that follow only sort the actions. An expired lease that is taken over raises
the version, so an announcement made under the old one no longer counts.

**What the queue promises** (JobPromiseProofs). Under `IInv`, each action of the queue maps to the step of the contract
named beside it, or leaves lots and jobs as the contract sees them; the slots need the
count of active jobs, hence lemmas on cardinalities. The mapped initial state is the
contract's.

**The life of a lot** (JobPromiseProofs, LotStorageProofs). Two theorems of refinement, which
no run repeats: the proofs go through every step of both modules, for every instance. Each
proof first says what a step can do to the mapped state, once per action of `LotLife`
(`LotLoses`, `LotTakes`, ... for the queue, `LotIsLost`, `LotIsTaken`, ... for the storage),
and then places each action of the module. For the queue `IInv` is enough. The storage needs
more than `SInv`, because the second transaction of a purge does not look at the leases again
(`FinishPurge`): `LeaseInv` adds that a purge under way is of a lot without a lease
(`PurgesWaitForLeases`), which holds because a lease begins on an open lot only
(`LeasesEnd`), and that a writer at rest holds none (`IdleIsAtRest`).

**Workflow.** The only assumption is `BoundAssumption` (the number of incidents is a natural
number); the graph is that of the code. None of the five properties is inductive: each
says what a finished or offered step is *now*, and not what a job that is under way will
make of it. `IInv` is

* `Sound`: the status of a row and the state of its job go together (`RowOK`), and what a
  step counts on is there (`Grounded`): a step that is finished, offered or being made
  has its sources usable; what it was made from, or what its running handler has read,
  is what its sources are now, but for the two gaps named with the property;
* `AutoWoken` and `NoBlocker`, which are `ReadyStepsAreQueued` and `PackageHasNoBlocker`
  said of a table of rows, the second from the moment the package job has read;
* `LotTellsItsSteps`, as it stands.

A step reads only steps above it (`ReadIsAbove`, by a rank of the graph), so a change of
one step either concerns a step nobody has finished from (`CarryUnfinished`) or comes
with the invalidation of all that is below (`CarryBeside`). Decisions are one shape of
change (`ChangeKeeps`, `DecideAndQueue`), jobs at work another (`InHandSound`), and the end
of a job wakes its children (`FollowUps`). A new artefact has a number that no row holds
(`FreshIsFree`), by counting. `GraphSuitsTheQueue` proves of the real graph what JobQueue
assumes of its parameter.

**LotStorage.** The theorems assume `InProcess` (`External = {}`), that is, a worker in the
process of the application, which is how the application runs it: with a worker in
another process `ExposedArtefactHasItsFile` does not hold (see the findings). `SInv` adds
to the two properties that every row has a lot (`RowsHaveLots`), that a prepared file has
one writer and no row (`WritersOwnTheirFile`), that a purge is only at work on a deleted
lot (`PurgesAreOfDeletedLots`) and that nothing is at work while the application is down
(`DownIsQuiet`), which is what lets a startup quarantine what no row names. One lemma per
action.

**Table.** Assumptions: `WorkbookAssumption` (types of what is read of a file, in sheets that
are rectangles of cells and have names of their own, as Excel and its reader give them) and
`TableAssumption` (types of the conversions; a cell has an identifier exactly when it
has a canonical text, an identifier is never normalised to nothing, and the name of an image
and its path, which end in `.jpg`, are neither empty nor a forbidden placeholder). The tables of the diagnosis and the merge are made by taking
items out of sequences; lemma `PickedItems` says which, how many and in what order, by the
cardinality of the places up to each. `VerdictsAgree` needs no history: what refuses a
sheet is compared with what is reported of it (`SheetVerdicts`, `WorkbookVerdicts`).

The merge reads one row per step, and its properties speak of its end. `IInv` is
`Content` (the diagnosis, mapping and merge at hand are of the current workbook),
`Cursor` (the merge is inside a sheet of the mapping, below its header), `TableGrows` (the
rows merged so far have distinct identifiers, in the order of their ranks) and
`TableIsDone`. For `RowsAreAccountedFor`, `Tallied` and `Named` relate the counters and the
rows of the merge to `Taken`, the rows of the workbook above the cursor: each step takes
one more (`TakenGrows`), which counts as unnamed, duplicate or new (`OneMoreUnnamed`,
`OneMoreNamed`), and at the end `Taken` is the whole (`AllTaken`). A mapping without any
sheet is refused (`NoSheetNoMapping`), so a merge always has one to start in. This
theorem has the hypothesis `SpelledAsOne`: every hidden row of the file is spelled
`hidden="1"`, as Excel does. Without it the property is false, which is the finding of
`table_hidden`.

`AcceptedDataHasItsColumn` follows one cell from the file to the mapping. The columns of
a mapping are sequences of sequences put end to end: lemma `Flattens` says that each item
of each of them has one place in the result. So a mapping has one column per header of
each sheet to read (`HeadersRead`, `ColumnsOfASheet`, `SheetsToMap`) and no identifier
twice (`DefaultColumns`); and what the diagnosis refuses, data above the header or under
no header, is what would have no column (`CellsAreMapped`).

`ProfilesReplayTheirMapping` needs to know where a profile comes from: from a mapping that
was submitted and accepted for some workbook (`MappingIsSubmitted`, `ProfileIsSaved`). Two
workbooks of one structure have the same columns (`SameStructure`), and since no two
columns share an identifier, the choices found for one are those that were made for it
(`ProfileReplays`).

`VerifiedStaysAccepted` follows the table from the merge to the preview. `MergedTable`,
`TableIsNormalised` and `TableKept` give the columns and the cells of each table from those
of the one before; `Filled` and `CellsTaken` say that a row of the merge has a cell under
each exported column, read within the width of its sheet. `Derived` says that the products
at hand were made of one another: `Normalised` from the merged table, the report by the
contract on it, `Sorted` by one of the two decisions, and a CSV from a preview that was
ready. `RowsInOrder` is the lemma of the sort: under a total order each row has its own
place (`NumberedInOrder`), the keys of the two decisions are such an order because they end
with the rank (`KeysAreOrdered`, `TableIsSortable`), so no row is lost or doubled. The preview
then changes only the two system columns, or what the contract already read as the placeholder
(`RowPreviewed`, `ShownTwice`), and each of the four issues carries over (`AcceptedAgain`).

`CsvTellsWhatWasRead` needs besides what the merge has told so far. `Told` says of the rows
read until now, and `AllTold` of the merged table, that the cell of an identifier in a column
of a sheet is that of its row in this sheet, or empty if the sheet has none; a row that is
read adds its own cells and touches no other (`NewlyTold`, `RowTold`). Without `Tallied` this
would not last: it is because no sheet repeats an identifier that nothing told is written over.
What the property expects of an identifier is then what the table has, normalised
(`ExpectedIsTold`), and the identifiers are those of the rows (`MergedTells`). Empty columns
are taken out twice, before and after normalisation: `PickedTwice` makes one choice of the
two, which is that of the columns that say something (`ColumnsThatSay`). A line of the CSV has
the rank of one merged row, and ranks are distinct (`RowOfTheCsv`), so lines and identifiers
are as many (`RowForEach`). Like `RowsAreAccountedFor` it has the hypothesis `SpelledAsOne`:
with another spelling of a hidden row the CSV has lines the workbook does not show, which is
the finding of `table_hidden`.

**Images.** `ImagesAssumption` is the only assumption: keys defined on the names of archives
and tables, identifiers once per table, full names folded alike and not empty. `Grounded` says
that inspection and table come from what was deposited and that choices are injective.
The search of a row stops at a probe whose images are in the archive (`SettledProbe`,
`RowProbes`, `AutomaticBinding`); after `MarkDuplicateSources` two matched rows have two
images (`TableBindings`); an accepted archive has one image per full name
(`NamesAreDistinct`), so the image found for a choice is the one chosen, and a name that is in the archive
is found by the first probe of its row, before any fallback (`NamedSearch`). What then keeps a
chosen image from its dossier is another row: one of the same final name, or one that has
found the same image, which `MarkDuplicateSources` turns ambiguous together with it. Every action but
`Match` drops the matching or keeps all it depends on (`OtherSteps`).

**Delivery.** A step of Delivery is one of Images or leaves the images alone
(`ImageSteps`), so `Grounded` carries over. `DInv` adds that the validated CSV has the
lines of the current table under the root and the matching it was validated with
(`CsvIsOfTheTable`): neither has to be the current one, since the images may be matched,
and the configured root changed, after the validation. The package still agrees with it
because every matching gives a dossier the same image name, the one a CSV without
matching foresees (`NamesDossiers`, `NameOfRow`), and because the matching has the rows
of the table (`MatchingIsOfTheTable`). The configured root needs no hypothesis: paths are
compared with the root the CSV was validated under.

The two counting properties rest on `CInv`: while there are reports, nothing they count
has been replaced (`ReportsCount`), and a package is made of what they counted, or has no
image and an alert (`PackageIsCounted`). The counts then agree by sets: the rows of the
table are partitioned by the status of their binding (`RowsAddUp`), and the images of the
matching are as many as its matched rows, since no two rows have one name
(`ImagesAreCounted`).

**Downloads.** `DownloadsAssumption` types the constants. Two rows of a plan never have one
path, although their names may be the same (`PlanNumbersItsRows`: the count of rows of one
name up to a row grows); so a thread is alone on its file. `TasksOK` says what the pool
knows of each file: a task at work has seen that it has no usable file, what it has
received is of its own row, and a task that is done has its file. Each step of a thread
moves one task and one file (`ThreadEffect`, `ThreadKeeps`). `ResultsOK` carries this to the
lines collected (one per task that ended, and one per row without a URL), `ReportsOK` to
the reports on the disk, torn ones and those of earlier runs included, which is where
`KeptFilesStay` is needed: no step takes a usable file away. `TrueReport` gives the exit
code.

**MasterChain.** `ReportsTellTheirRun` needs no assumption. What the scripts compute does not
matter to what a report says of them: `LeftByAScript` says that a script, done, refused or cut
short, changes its own file or the folder of images and nothing else, and `CountedLeaves` that
one that counts has left a whole file of this run, or an image. `RunInv` says that the scripts
that counted are those before the step of the run (`Followed`) and that each has left its file
still: the next ones write elsewhere (`StillLeft`). It says so while the run goes on and once it has
a report, and no longer of a run that was interrupted: a run without a report promises nothing. The
status of a report follows from the number of scripts that counted (`ThirteenScripts`).

The two other theorems follow the cells, and rest on what the scripts do with texts:

* `TableAssumption`: a sheet is a rectangle, its headers are among those that can be cleaned;
* `TextAssumption`: `clean_cell_content` leaves nothing blank and nothing more to clean, nor
  anything to clean in "none" and "undefined"; dates are never blank, ranks are numbers, the
  column of the identifiers is a column;
* `HeadAssumption`: no cleaned header is `@pathimg` (it keeps letters, digits and underscores)
  or the mark of an unmapped column, and the headers of identifiers and images are no dates;
* `ImageAssumption`: every identifier has the name of an image, none is blank, and one that
  script 7 has made is an image for script 8 and has nothing to strip.

`ChainInv` is the inductive invariant. `Linked` says that below the step of the run each file
is what its script makes of the files it reads, as they are *now*: a script that counts links
its own (`MadeIsLinked`), and a later one, even cut short, writes elsewhere (`StillLinked`). It
says nothing of the files at and above the step, which may be of earlier runs. `Served` says
that the images of the run in the folder are asked for by its file 7, and after script 10 that
all of them are there: two counts are equal, so no two rows share an image
(`EachIsProcessed`). The rest is about functions on sheets. `Stage0` to `Stage7` give each
file in closed form from one table; for script 3, `RowsSorted` says that a sort by any
regions and departments has each row once; its cells are those of its row (`Placed`, `Cell3`)
but for a blank image name, which is that of the row formerly there. `NoImageIsTaken` shows that
none is left once script 7 has passed: each row with an identifier keeps its image name, so a
row that took one would share it, which script 7 refuses (the sort permutes the rows, so
somebody else has the name too). `ColumnsOf7` tells the columns of file 7 apart.
Script 8 leaves columns and rows out: `Optimised` says which, in their order, and `KeptColumn`
that a column found by its name before is the one found after. `CsvLine` then follows a cell
to the CSV, `CsvRows` counts its lines by a bijection with the rows that have an identifier, and
`MappingTellsTheCsv` compares the letters of the mapping with those of the CSV. For the images,
`NamedByOneRow` says that a name of file 7 is that of one row and `RowHasItsImage` that a row
with a valid photo has it in the folder; a line of the CSV is made from a row with an
identifier (`LineHasItsImage`).

Two hypotheses are not guaranteed by the code, which is why they are in the theorems and not
in the module. `NamesAreClean`: script 8 leaves the names of the images as they are. Script 7
takes spaces and points out of an identifier, but no line break: with one, script 8 writes
`<br>` in the CSV where the folder has the name with the line break. `PathsAreClean`, for
`CompleteRunsAreOfOneTable`: script 8 leaves the path of the images as it is and does not
take it for nothing; two spaces in a row, for one, it makes one. The run `master_chain` satisfies both.

Only model-checked:

* the liveness properties (`JobSettles`, `DeletedLotIsPurged`, `PurgeResumes`, `RunEnds`),
  out of the prover's reach.

## Not modelled

* Web pages, static assets, visual tests, synthetic workbooks: rendering and test data.
* The other scripts of 2026: sequential copies of the chain of 2025 with the rules the
  application has, and one-shot preparations of test data.
* Configuration: parsing. The limits are constants of the modules; the image root, the one
  value whose change a lot sees, is in Delivery.
* Migrations, events and their sanitising, the pruning of traces and quarantined files,
  disk and size guards, access control and serialisation of the HTTP layer: sequential
  input and output around the transactions that are modelled.
* Ignored and skipped steps of a lot; the decoding of images and the reading of XML.

## What could come next

Liveness of Workflow under the fairness of the worker loop: a lot whose user answers
ends finished or blocked.
