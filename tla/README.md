# A TLA+ verification of JobDock

JobDock runs containers on a set of nodes: a server (`cmd/jobdock-server`) keeps
everything in one SQLite database, an agent per node (`cmd/jobdock-agent`)
polls it and drives Docker, a builder (`cmd/jobdock-builder`) turns source
archives into images. This directory specifies its control logic in TLA+,
checks it with TLC and proves part of it with TLAPS.

    tlc -config MCJobStore.cfg MCJobStore      # model-check an instance
    tlapm JobStore_proofs.tla                  # check proofs

The proofs are in `JobStore_proofs`, `JobSystem_proofs`, `Scheduler_proofs`,
`BuildPipeline_proofs`, `Attempt_proofs`, `Logs_proofs`, `Observations_proofs` and
`SumTheorems`; the three before the last take eight to sixteen minutes each, the others a few.

`PROJECT.json` lists components, runs, mutants, the source lines behind every
definition, findings, hazards and theorems.

## Inventory

| Component | State | Operations | Interacts by |
|---|---|---|---|
| Status vocabulary (`internal/domain/types.go`) | none | `CanTransition`, `IsActive` | consulted by store and agent |
| Job lifecycle store (`internal/store/store.go`, handlers in `internal/httpapi`) | tables `jobs`, `job_attempts`, `assignments` | create, stop, rerun, delete, event, deliver, accept, reserve, mark stale | concurrent SQL statements of HTTP handlers, scheduler and monitor |
| Agent (`internal/agent/agent.go`) | `a.running`, journal `assignments/<job>.json`, containers | poll, start, execute, stop, fail, reconcile | HTTP to the server, Docker API, goroutine per job |
| Event log | `job_events`, per-record `Sequence` | append by agent, append by server | unique key (job, sequence) |
| Scheduler and capacity | snapshot of one pass | `Schedule`, `selectNode`, `Snapshot` | reads nodes and jobs, reserves in the store |
| Node registry | `nodes`, `gpus`, `enrollment_tokens` | enroll, heartbeat, rotate, drain, resume, delete, mark offline | agents, users, monitor |
| Builds, assignments, artifacts | `builds`, `build_plans`, `build_assignments`, `managed_build_artifacts`, archives | queue, claim, renew, cancel, complete, upload, collect, delete | users, builders, hourly collector |
| Builder process | `current.json`, local archive | claim, build, upload, complete | HTTP to the server, BuildKit |
| Idempotent requests | `idempotency_keys` | claim, complete, release | wraps user requests |
| Log upload | agent log files and offsets, server log files | append, order, resynchronise | HTTP with offsets |
| Checkpoints | `checkpoint_syncs`, stored checkpoint files | request, offer, upload, confirm | SDK, agent |
| Inputs, outputs, archives | files | manifest, transfer, quotas | agent, users |
| Observability, dashboards, telemetry | samples, series, tables, documents | append, aggregate, retain | SDK, agent, web client |
| Authentication, configuration, CLI, web, SDK | credentials, flags | | |

Hard behaviour, and what has to be right:

* **Interleaving in the store.** Almost every handler reads a job, decides, and
  writes it in a later statement; only some writes compare what was read.
  Attempts must stay numbered and current, tokens of ended attempts revoked,
  results kept, and no attempt may start by itself.
* **The agent against failure.** The agent dies, its calls fail, replies are lost,
  assignments are delivered again, results arrive when the job has moved on. A
  program must not be started twice, a job with a result must not still be
  running, and what was started must be reported.
* **Placement from stale reads.** A scheduler pass is several reads and one write per
  job; GPUs must stay exclusive and nodes within their size while jobs end, are
  lost, stopped and rerun and nodes drain, vanish and change.
* **Builds.** Leases expire while the old builder goes on, uploads repeat, the server
  dies between the rename of an archive and its row, the collector removes what
  a job may just have referenced.
* **Files on a bad line.** Logs, outputs, checkpoints and inputs are transferred in
  pieces that are lost, repeated, cut by limits and begun again after a crash.
* **Numbering and claims.** Two writers number one event log; an idempotency key
  is claimed, used and answered in three statements; a credential is replaced on
  one side before the other has saved it.
* **What users see.** Charts are put together from snapshots and a stream, samples
  are averaged and forgotten, pages are read while a table changes, two browser
  tabs edit the same dashboards.

## What is modelled

### `JobTypes`
The statuses, `Allowed` (the table of `CanTransition`), `Terminal`, `Active`.

### `JobStore`: the database under concurrency
One action is one statement or one transaction.

| Variable | Code |
|---|---|
| `job[j]` | row of `jobs`: `status`, `desired_status`, `observed_status`, `attempt_id` (as attempt number), `assigned_node_id` |
| `attempt[j][n]` | row of `job_attempts`, with its row of `assignments` (`delivered_at`, `accepted_at`), whether the token hash is revoked and outputs are stored |
| `made[j]`, `reruns[j]` | `MAX(attempt_number)`; a history of accepted reruns |
| `request[h]` | an HTTP handler between two statements: its step and what it has read |
| `queue`, `sweep` | the scheduler's list of one pass; the jobs `MarkStaleNodes` selected and has still to mark |

`BeginStop`/`StopCancel`/`StopWrite`/`StopAttempt` are `RequestStop`;
`BeginDelete`/`DeleteWrite`/`DeleteFiles`/`DeleteMark` are `deleteJob` with the
goroutine it leaves behind; `BeginEvent` is the check of `agentEvent`,
`EventRead`/`EventWrite` one turn of the compare-and-swap loop of
`UpdateJobStatus`, `EventOutputs` is `SetAttemptOutputs`. `RequestAborted` is a
client that goes away (the request's context fails the next statement),
`ServerRestart` loses everything but the database.

Agents appear through their requests: any status, for any attempt that was
delivered, at any time and any number of times. That is more than one agent
sends, and it is what a server sees whose client times out and repeats a
request that is still being served.

### `JobSystem`: the agents
One job, the server with atomic handlers, and an agent per node. `run[a]` is the
entry in `a.running` together with the program counter of its goroutine,
`journal[a]` the saved record, `container[a]` the container named after the
job, `reply[a]` the answer the poll loop is working on. Steps are what the code
does between two calls: `MaterializeInputs`, `ReportPulling`, `Pull`,
`ReportStarting`, `Create`, `Save`, `Accept`, `Start`, `ReportRunning`, `Wait`,
`ReportResult`, `Complete`, `Remove` follow `execute`; `ReportFailed` is `fail`,
`ReportCancelled` and `Close` are `completePreStartCancellation`; `StopRunning`,
`StopJournaled`, `CancelJournaled`, `StopIgnored` and `DockerStop` are `stop`;
`Restart` is `reconcile`. `SendEvent` has four outcomes: acknowledged, applied
with every reply lost, rejected, never arrived. A failing call may or may not
have had its effect at Docker or at the server. A poll whose answer has come is acted on
also when the agent has been told to terminate in the meantime.

Docker is external: a container has a name, a label and a state; `docker wait`
(condition `not-running`) returns at once for a container that never ran;
creating a second container of the same name fails.

Abstracted: the agent's local disk does not fail, time-outs are nondeterministic
failures, the exit code is zero or not, outputs, logs and telemetry change no
status (they have modules of their own).

### `JobLifecycle`: what `JobStore` promises
Of each job a phase (absent, waiting, placed, ended, removed), the node it is on,
how often users asked for an execution and how many have begun. An execution
begins only from the queue and for a request; only its end, a stop or a deletion
moves it on. `JobStore!IsLifecycle` maps rows to phases (`PhaseOf`), and
`asked` to the accepted reruns plus the creation.

### `Scheduler`: placement
`node` is the registry with size, CPU package and GPUs as the last heartbeat reported them
(`Heartbeat` overwrites them all, also with less than is in use), `job` and
`assignments` the columns that take and release capacity, `pass` the program
counter of `Schedule` with everything it has read: the queue (`ReadQueue`), nodes, jobs, GPU
allocations (`ReadAllocations`), then one `PlaceNext` per job, which is `selectNode` (labels, capability, packages, GPUs), the reservation
(`ReserveJobWithAffinity`) and the accounting in the snapshot; the reason a job is
told to wait for is left out. The queue is a set of which the oldest job is next, the view
of a node what is still to give of it, and the GPUs chosen are those of the free and
sufficient ones that fewer than the requested number go before in the order of memory and uuid.
Between any two steps run heartbeats, drain and resume, deletion, the
staleness monitor, agent reports, stops (read and write apart) and reruns.
`resurrected` is the history of jobs a stale stop brought back from their result.

### `BuildPipeline`: builds, builders, images
Rows of `builds`, `build_plans`, `build_assignments`, `managed_build_artifacts`,
the archive files, the analysis and the cancellation requests in progress, uploads
in flight, builder processes and jobs that reference an image. The collector takes any row no
job refers to, also of a build that has not ended. A transaction is
one step; an upload is authorisation, look at the file, rename, row, and removal when the row
is refused (`Serve`). Builders poll, heartbeat, solve, publish, flush their log and
repeat their completion. `ServerDies` and `BuilderDies` lose what is not stored;
`raced` is the history of builds whose publications overlapped, were cut off
between rename and row, or were collected before the build ended.

### Around one attempt
| Module | State | Steps |
|---|---|---|
| `NodeAccess` | tokens, node rows (current, previous credential, grace), agent memory, `credential.json`, the call in flight | create, expire and revoke tokens, consume, store the node, rotate, save, lose the reply, die, delete |
| `Inputs` | creating request, stored files, manifest, agent directory, container | store a part, refuse, create the row, copy and verify, run, remove, report, fail, resume |
| `Redactor` | secrets in some order, bytes written, held back, released | `Push` of a frame cut anywhere, `Flush` |
| `AttemptLogs` | Docker's frames, local and server files (two streams and the order), offsets in memory and journal | follow, write, note, upload, resynchronise, restart; the limit inside a chunk |
| `AttemptOutputs` | output directory, stored lengths, the walk, the manifest of the terminal event | walk, append, limit, abort, report, fail; a later terminal event replaces the manifest, and a restart begins again unless the server has the result |
| `Checkpoints` | output directory under rewriting, rows, staging, promoted directories, the agent's pass | request, offer, upload, compare, promote, confirm, crash |
| `EventLog` | `job_events`, job status, agent sequence and journal, a live viewer | append by agent (a repeated try keeps its number) and server, update, reply, death at any step, restart from the journal or a new delivery, poll |
| `Idempotency` | the key's row, overlapping requests, jobs, answers | claim, read, work, store, release, hang up, die |

### What is observed and shown
| Module | State | Steps |
|---|---|---|
| `Series` | update rows of two metrics and the resources with cursors, two snapshot requests, the stream, how often the page was given a sample, the points of each series | append, open page, snapshot (window, limit, resolution), stream, break and reconnect, and the first points that leave a full series |
| `Telemetry` | raw and averaged samples, what was forgotten | sample, compaction and retention at any time, choice of resolution |
| `Progress` | milestones, reports, requests between check and write | define, report, reach, computation of the total |
| `Tables` | rows by id, a reader's cursor, the verdict on a hierarchy | append, replace, page (in order or as a sample), cycle search |
| `Observables` | declarations, metric and matrix descriptors, samples | manifest, batch of samples, matrix |
| `Templates` | catalog of sources, template, resolution | observe, resolve with an override: slots, behaviours, compatibility, layout |
| `Dashboards` | rows, active one, requests between read and write | first dashboard, create, duplicate, put, rename, activate, default, delete |

These fifteen share no state that their operations could race on, so two
modules, `Attempt` and `Observations`, put eight and seven of them side by
side: the initial state picks the component that moves (`part`), the others stay
where they are. What is checked or proved of a component is what it would be of the
component alone. Both modules have the constants, their assumptions, and one property per component,
the conjunction of its inductive invariant (`IInv` of its module; of `Templates`, whose
only state is a last result, its types) and of what the module
states; `MCAttempt` and `MCObservations` give the constants values. The directories of files are
sets walked in the order of their names (`AttemptOutputs`, `Checkpoints`), where the code has sorted
lists. A page of a table (`IsPage`) is what ORDER BY and LIMIT determine, the first rows behind the
cursor; the search for cycles and the layout of widgets are folds of recursive functions.

## What is checked

Runs that pass:

| Run | Instance | Properties |
|---|---|---|
| `job_store` | 1 job, 1 node, 2 handlers, 2 attempts, 1 rerun, events RUNNING and FAILED (2,605,926 states) | `CurrentAttempt`, `CredentialSafety`, `NoAutomaticRetry`, `ResultLeftOnlyByUser` |
| `job_store_events` | the same with 1 handler and all six statuses | `IInv` (with `TypeOK`), `IsLifecycle` |
| `job_system` | 2 agents, 2 attempts, 1 crash or signal, 1 sweep, 1 stop, 1 failing call (2,197,344 states) | `IInv` (with `TypeOK`), `StartedOnce`, `ResultMeansEndedIfUndisturbed`, `RunningIsJournaled` |
| `job_system_liveness` | 1 agent, 2 attempts, 3 crashes or signals, 2 sweeps | `RunningEnds` |
| `scheduler` | 2 nodes of which one changes its size, 3 jobs, 3 GPUs, 2 changes by others (679,339 states) | `IInv` (with `TypeOK`), `GpuExclusiveUnlessResurrected`, `NeverOversubscribed`, `LighterIsNotOvertaken`, `QueuedIsPlaced` |
| `build_pipeline` | 1 build, 2 builders, 2 digests, 1 job, 2 cancellations, 2 faults (805,346 states) | `TypeOK`, `BuildAgreesWithAssignment`, `RailpackHasPlan`, `JobImageIsThere`, `ResultIsFinal` |
| `attempt` | eight components, see `MCAttempt` (577,153 states) | one conjunction per component with its `IInv`, and `PromotedIsFinal` |
| `observations` | seven components, see `MCObservations` (596,535 states) | one conjunction per component, `ProgressNeverGoesBack`, `MeaningIsStable`, `NothingSilentlyChosen` |

* `CurrentAttempt`: the attempt column of a job is the newest row of its history,
  on the job's node, and a queued job has none, whatever stale writes hit.
* `CredentialSafety`: the SDK token of a superseded attempt, and of an attempt whose job has its
  result, is revoked.
* `NoAutomaticRetry`: there is one attempt, and one more per rerun a user asked for.
* `ResultLeftOnlyByUser`: no late event, sweep or scheduler pass changes a job that
  has its result.
* `IsLifecycle`: every step of the store is a step of `JobLifecycle` or none.
* `StartedOnce`: crashes, redelivery and late acceptances never start an attempt's
  program twice, failing calls included.
* `ResultMeansEndedIfUndisturbed`: a job with a result, or queued again, has no running
  container on any node, through crashes, stale marks, stops and reruns, as long as no call
  has failed and no agent was told to terminate.
* `RunningIsJournaled`: whatever calls have failed and processes died, a container that runs for the
  current attempt of a job without a result is in its agent's journal and not complete there, so
  that a restart takes it up.
* `RunningEnds`: a job that was reported RUNNING gets a result, through crashes,
  restarts, a termination and stale marks, as long as no call fails and no user
  stops it.
* `GpuExclusiveUnlessResurrected`: no two active jobs hold a GPU, although a pass works from
  several reads, but for jobs that a stale stop brought back.
* `NeverOversubscribed`: a reservation never adds a job to a node or CPU package that had no room for
  it when the pass listed the node. It is a property of steps: a heartbeat may report less than is
  in use, and takes nothing from the jobs that are there.
* `LighterIsNotOvertaken`: no pass places a job before an older one that asks for no more of
  anything. A heavier one is overtaken by what fits.
* `QueuedIsPlaced`: a job that fits an empty online node does not wait for ever while
  programs end, unless a job was brought back or sits on a deleted node, or jobs are placed for
  ever. The last exception is the code's: a pass goes on behind a job that does not fit
  (`scheduler.go:62`) and keeps no room for it, so that an endless stream of smaller jobs starves a
  big one. The instance has too few jobs for such a stream; the exception is stated for those that have.
* `BuildAgreesWithAssignment`: a build is BUILDING exactly while its assignment is
  open and SUCCEEDED exactly when it is, across takeovers, late completions and cancellations.
* `RailpackHasPlan`: no Railpack build is confirmed or solved without its plan.
* `JobImageIsThere`: the image of a live job has its row and, its bytes, unless publications overlapped, were cut off, or were collected before the build ended.
* `ResultIsFinal`: no report, cancellation or repetition changes a build's result.
* `AccessIsKept`: one node per enrollment token; a deleted node has no credential;
  an agent survives one lost answer to a rotation, and its own death if the file is whole.
* `OnlySecretsAreHidden`: no secret is uploaded whole however frames cut it, nothing
  else is hidden, and with one secret the framing makes no difference.
* `LogIsTheContainers`: the server's copy is a prefix of the agent's and within the
  limit; while nothing has failed announced frames are readable, and in the end the combined log
  has every frame once, each stream's in its order, or all in the container's order if the
  redactors hold nothing back.
* `ManifestListsTheOutputs`: listed outputs are stored whole, whichever terminal event was
  taken last; if nothing was lost, no failure reported and all fits, everything is listed.
* `CheckpointIsWhole`, `PromotedIsFinal`: confirmed means promoted, with the manifest's
  sizes if undisturbed, files of one write if made in one pass, and never changed again.
* `EventsAreLoggedOnce`: one numbering without gap, no event twice or out of order
  (until the agent dies), and what is acknowledged is logged (without server events).
* `KeyGivesOneJob`: one job per key, and every answer is of that job.
* `JobRunsOnItsInputs`: manifest and storage agree, a container runs on exactly those
  files, and when its end is reported they are gone from the node.
* `ChartIsComplete`: no sample is given to the page twice, and of what the stream has passed what lies in the window
  or was stored behind the snapshot is drawn. Three exceptions are the code's: the newest points
  push out the first ones of a series that is full (`series.ts:53`); a snapshot may be cut at the limit, which it
  says (`truncated`); and of a window longer than the limit of raw rows the resources are the
  compacted ones of `Telemetry` (`series.go:386`), which may be missing for what is young
  (`SomethingIsDrawn`).
* `EverySampleIsSomewhere`: raw while young, in an average's bucket when old, never both.
* `CompleteMeansReached`, `ProgressNeverGoesBack`: progress is not overstated, and late
  reports do not replace newer ones.
* `PagesAreTheTable`: pages repeat and miss no row of an ordered read; hierarchies are
  taken if and only if they are forests (the search against a definition of acyclicity).
* `SamplesFitTheirMetric`, `MeaningIsStable`: descriptors and samples never contradict each other.
* `ResolvedIsWhole`, `NothingSilentlyChosen`: layouts do not overlap, "compatible"
  means every widget with its sources, and ties are not broken silently.
* `DashboardsAreConsistent`: one default, one active, a total order, and never none again.

Bounds. Jobs share nothing in either module except the scheduler's queue and the monitor's
list, whose elements are handled independently, so one job shows every
interleaving on a job. Two handlers are the fewest that overtake each other;
the scheduler and the monitor make four concurrent actors. Two attempts are
needed to confuse an old with a current one. Two nodes are needed for a rerun elsewhere. `Events` of two statuses keeps
the two-handler run small: one leads to a result and one does not, and the other run has all of
them. `MaxFailures`, `MaxExits`, `MaxSweeps` and `MaxStops`
count environment events, `spent` counts them. Agents in `MCJobSystem.cfg` and handlers in `MCJobStore.cfg`
differ by name only, hence the symmetry; liveness is checked without symmetry.
`CHECK_DEADLOCK FALSE`: a finished job whose bounds are used up really stops.

Fairness (`JobSystem!FairSpec`): weak fairness of the scheduler (a pass per
second), of each agent's poll loop, of its goroutine, of its restart (the
deployment says `restart: unless-stopped`) and exit after a signal, and of the program in a container ending. None
for users, the monitor or failures. All are steps that stay enabled until they
are taken, so weak fairness is enough.

`Scheduler!Fairness`: the scheduler's ticker fires every second, so a pass goes on
while there is a step (stated by naming the states without one); programs end
and their reports arrive; a stop request that was read is written. Its passes may be
aborted only `MaxChanges` times. `BuildPipeline!FairSpec` is used for
`CancelledBuildLetsGo` only (below).

Bounds of the others. `MaxChanges` of two lets a node change and a job end, or a stop
and a rerun, fall into one pass; three jobs are two that fit either node, the younger with more memory, and one for the package and a
GPU of node 1; that GPU is too small for the others, and node 1 may come back without its package and with fewer processors.
Two faults and two builders are a lost lease and a death on top of it; builds
share no row, so one is enough. In `MCAttempt` and `MCObservations` every transfer has at
least one fault and one crash and every limit is crossed by some run (five of six log records,
four of six output bytes); one server event is enough to take the number of an agent's; buckets of three samples with retentions that are no multiple of it
meet every alignment; a series of one point, raw rows of one unit of time and polls of two
updates cross the limit, both resolutions and a broken poll within three batches. `MCAttempt` takes secrets that overlap and contain each other, and logs of
six bytes; templates are all of two families, one for layout and one for slots. Dashboard requests and
reporting threads of `MCObservations` differ by name only, hence its symmetry; five row ids
in a scattered order (`MCScattered`) are two pages and a rest.

Each property of a passing run has a mutant in `PROJECT.json`: a plausible bug in
one definition (kept beside it, `Name_WhatIsWrong`) with which TLC finds the
property violated. Where a property is a conjunction, each part has one but the types and the inductive
invariant that explains it.

## Disagreements

Four runs find the code at odds with what a document, comment or test says;
`PROJECT.json` quotes the lines:

| Run | What the code does |
|---|---|
| `stop_never_ends` | a container that ends by itself while a stop is under way leaves the job STOPPING |
| `success_without_execution` | a container created but never started is reported SUCCEEDED |
| `average_of_all_samples` | compaction cuts a bucket in two and deletes the later part without averaging it |
| `frame_disappears` | one failed upload ends the following of a log, and its order record stays on the node |

The modules state more that TLC refutes; no run is kept for these. To see
one, name it in the cfg of its module's run (in `MCAttempt` and `MCObservations` through
the instance).

| Statement | What the code does |
|---|---|
| `JobStore!StaleAttemptNeverWrites` | an event of an old attempt is applied to the new one, after a rerun between two reads |
| `JobStore!AttemptsRetainResult` | a late acceptance, stop or sweep overwrites the result of an attempt row |
| `JobStore!AcceptedStopTakesEffect` | a stop that races the reservation is answered 202 and does nothing |
| `JobStore!DeletedJobIsDisarmed` | a deletion that races the reservation leaves a deleted job whose token is not revoked |
| `JobSystem!LostIsResolved` | a job marked LOST before its container runs stays LOST although its agent is there |
| `JobSystem!AssignmentExecuted` | after a restart between image pull and container creation the job stays STARTING |
| `JobSystem!ResultMeansEnded` | after one failing Docker call a job is FAILED, and may be rerun, while its container runs |
| `Scheduler!DeletedNodeIsEmpty` | a job is reserved on a node that is deleted after the pass has read it |
| `BuildPipeline!CancelledBuildLetsGo` | a builder repeats the completion of a build that was cancelled and deleted |
| `BuildPipeline!ReferencedImageKept` | overlapping publications can end with a row and without an archive |
| `Inputs!NothingLeftAfterFailure` | a failure may leave inputs on the node |
| `Checkpoints!NoMixedFiles` | staging left by an earlier pass is continued with the bytes of a later write |
| `EventLog!LiveViewEndsWithResult` | the result event can be dropped when a server event took its number |
| `Series!SnapshotAndTailAreComplete` | what is stored between the end of the window and the cursor is in neither |
| `Telemetry!SomethingIsDrawn` | a long job shows nothing before its first compaction |
| `Tables!SampledPagesAreComplete` | a sample is ordered by a hash and paged by the id |
| `Observables!MatrixMeaningIsStable`, `OmittedIsInherited` | a matrix may change a declared unit, and may not omit one |
| `Templates!ResolvedCanBeSaved`, `MoreIsNotLess` | a resolution may be refused when saved; a new source may empty a slot |
| `Dashboards!LookIsLeftAlone` | a look that was read earlier is written back over a newer one |

## What is proved

`JobStore_proofs` proves, for all jobs, nodes, handlers and bounds,
from the three named assumptions of `JobStore` (bounds are naturals,
events are statuses agents report, the null values are not identifiers):

* `Invariance`: `Spec => []IInv`, and from it `TypeCorrectness`,
  `CurrentAttemptIsNewest`, `CredentialsAreRevoked`, `NeverRetriesByItself`;
* `ResultsAreLeftByUsersOnly`: `Spec => [][ResultKept]_vars`;
* `StoreIsLifecycle`: `Spec => IsLifecycle`, the refinement.

`IInv` is `TypeOK /\ RequestOK /\ CurrentAttempt /\ CredentialSafety /\
NoAutomaticRetry`. It is needed because `CredentialSafety` is not inductive: the write
of an event changes the attempt row the handler *read*, so one must know that
the compare-and-swap makes that row the current one (`CurrentAttempt`, so that older
attempts stay revoked), and that a handler about to write holds a real attempt and a
transition the table allows (`RequestOK`). `NoAutomaticRetry` needs that only a
queued job is reserved and that a queued job owes no attempt.

The proof has a type lemma per column and per action, then one lemma per part of
the invariant: four groups of steps leave the part alone because
they leave its columns alone (`Keeps...`), and `CreateJob`, `RerunJob`, `Reserve` and
the event write have their own (`CreateKeepsInv`, `RerunKeepsInv`,
`ReserveKeepsInv`). `NextInv` collects them, and the last step is temporal logic.
`NoEventAfterResult` says that the table lets no reported status leave a
result; with `RequestOK` and the comparison of the write it gives
`ResultStep`.

The refinement needs one more invariant, `Served`: a busy handler works on a job
of the table. Its writes by job id then never act on an absent row. Each
action either leaves phase, node and counts alone or is one abstract step;
`StatusMoves` says which, given the status before and after, and `TransitionMoves`
reads it off the table of `CanTransition`.

`BuildPipeline_proofs` proves, for all builds, builders, digests, jobs and bounds,
from the three assumptions of `BuildPipeline` (the null value is no identifier
and no status, bounds are naturals):

* `Invariance`: `Spec => []IInv`, and from it `PipelineTypes`, `AssignmentsAgree`,
  `PlansAreThere` and `ImagesAreThere`;
* `ResultsAreFinal`: `Spec => ResultIsFinal`.

None of the properties is inductive by itself. `RailpackHasPlan` needs that an analysis
under way has no plan yet (`AnalysisOK`) and that an unconfirmed build has no assignment
(`AssignmentOK`). `JobImageIsThere` needs `RowOK` (a row is written while the build is
BUILDING, under the digest the build will report, and gone before its files are
removed, unless it was collected before the build ended), `UploadOK` (what an upload knows at each of its steps) and `ArchiveOK`: as long
as publications of a build do not overlap, the archive is there while the row is, and without a
row it belongs to the upload that created it. The proof has a lemma per write and its type
(`...Write`, `...Type`), then one per group of actions for the assignments
(`...Assignments`) and for rows and archives (`...Images`); most steps touch one build,
so `OneBuild` and `OneImage` reduce the goal to that one.

`JobSystem_proofs` proves, for all nodes, attempts and bounds, from its two assumptions
(bounds are naturals, the null node is no node):

* `InductiveInvariant`: `Spec => []IInv`, and from it `TypeCorrect`, `AttemptStartedOnce`,
  `ResultMeansEnded_Undisturbed` and `RunningContainerIsJournaled`.

That an attempt's program is started once is not inductive: an agent with an old journal and one with
a new assignment might both be about to start it. `IInv` says why they are not. An attempt is known to
the one agent it was assigned to (`OneOwner`), whose goroutine works on what its journal says
(`EntryIsJournaled`); between STARTING and the start of the container the attempt is the
job's current one (`PreparingIsCurrent`); and one that was started is past the only status in which it
would be prepared (`StartedIsPast`: PULLING_IMAGE is accepted before STARTING only).
`ContainersAreAttended` adds, until a call fails or a signal comes, that a running container is of the
current attempt and has a goroutine waiting or an agent that is down. `RunningIsJournaled` needs no such
condition: journal, reply and container never name attempts in the wrong order (`JournalIsLatest`), what a
goroutine starts is what it created (`ContainersAreOwn`), and a record whose container runs is only completed
when the server has left the attempt (`CompletedIsLeft`).

`Scheduler_proofs` proves, for all jobs, nodes, GPUs, packages and sizes, from the
assumptions of `Scheduler` (identifiers are numbers, finitely many jobs and GPUs, requests as
`ValidateJobSpec` leaves them, a GPU is in one node), of `SafetySpec`, which is `Spec` without fairness:

* `InductiveInvariant`: `SafetySpec => []IInv`, and from it `GpusAreExclusive`, `CapacityIsKept`
  (`SafetySpec => NeverOversubscribed`) and `OrderIsKept` (`SafetySpec => LighterIsNotOvertaken`).

The limits hold because jobs take capacity in a pass only, so what a pass has read of the load can only be too
much: between its reads and its reservations other steps release, and what is left in
its view, of the size it has listed, covers what is held (`ReservedIsKnown`, a sum over the jobs of a node;
`TakenIsKnown`, the GPUs). The order holds because the view only shrinks in a pass, so a job that was
told to wait would be told so again (`WaitedStillWait`), and a node that can serve what asks for more can serve
what asks for less. `SumTheorems` has what the sums need: a
sum over a finite set changes by what one summand changes by, and grows with the set.

`Attempt_proofs` and `Logs_proofs` prove the property of every component
of `Attempt`, for all values of its constants, from the named assumptions in `Attempt.tla`:

* `OneKeyOneJob` (`KeyGivesOneJob`): one try at a time holds the key, and its job is the only one
  (`KeyIsHeld`, `JobKeepsItsKey`).
* `AccessOutlivesFaults` (`AccessIsKept`): what the agent has in memory and on its disk is the row's
  credential, or after one unsaved answer the previous one (`CopiesAreKept`), and a call in
  flight has done no more than it says (`CallIsServed`).
* `EventsOnce` (`EventsAreLoggedOnce`): agent and journal have one number, their steps were
  acknowledged (`StepsAreAcknowledged`), and the log is at most one
  event ahead of it while the agent lives (`NumbersAreUsedUp`, `OnlyOneIsAhead`, `AloneItIsItself`).
* `CheckpointsAreWhole`, `PromotedStays` (`CheckpointIsWhole`, `PromotedIsFinal`): in a first pass staging
  has only files that are listed or being sent (`StagedIsListed`), the listed ones are of one
  write, and the bytes of the one being sent are no older than the pass's look at it and no newer
  than the file (`SentIsRecent`), so a file that has its size and time at the end is of one write.
* `InputsAreTheJobs` (`JobRunsOnItsInputs`): copied and still to copy together are the
  manifest (`CopyGoesOn`), names are apart, and the end is reported after the cleaning.
* `OutputsAreListed` (`ManifestListsTheOutputs`): the server never has more of a file than
  was written, the offset of the pass is what it has, and a pass that lost nothing
  has listed all it is past and sent nothing of what is ahead (`StoredIsWritten`, `PassIsComplete`).
* `SecretsStayHidden` (`OnlySecretsAreHidden`): what is shown and what is held back together are the masked
  log without any secret (`NoneIsLeft`), as many bytes held back as one less than the longest secret
  (`HeldBack`), and every hidden byte belongs to a secret (`HiddenIsSecret`). Its assumption is
  that secrets are not empty, which `newRedactor` sees to, and do not contain
  the masking character, which it does not: such a secret is outside the theorem.
* `LogIsComplete` (`LogIsTheContainers`): the longest of the proofs. The combined log is a fold
  over the order records; appending one appends the range it names (`CombinedLonger`), and as
  files only grow, earlier ranges stay what they were (`CombinedSame`). `RangesAreWritten` makes the next
  record name what was just written; `FramesKeepTheirOrder` says that what is in the combined log, on its
  way to it and held back by the redactors together is what was followed so far, without
  repetition and each stream in its order; `SyncedInTurn` that, until something fails, only
  the file now being synced is behind; `RedactorsAreFlushed` that nothing is held back at the end.

Each `IInv` was checked by TLC as part of the run before it was proved, and each has a lemma per
action. Induction over the length of a log or the size of a set is done by least
counterexample (`LeastNumber` in `SumTheorems`), recursive functions and the folds of the
community modules being unfolded by their definitions.

`Observations_proofs` proves the property of every component of `Observations`, for all values of its
constants, from the named assumptions in `Observations.tla`. Two of these say what the code sees to:
`TemplatesAssumption` is what `validateDashboardTemplate` lets through (sizes of at least one cell
and no wider than the grid, known behaviours), `TablesAssumption` that the hash of a sample gives no two
ids the same place, as multiplication by an odd number modulo a power of two does for the ids there are.

* `ChartsAreComplete` (`ChartIsComplete`): a sample was given once if it was in the answer of its
  snapshot or the stream has passed its update behind the snapshot's cursor, and else not at all; a poll moves
  the cursor by exactly the updates it hands on, and a connection that breaks takes up the cursor it had. Each
  series has the newest points of what was given: to keep the newest of the newest and of what arrives
  is to keep the newest of both (`NewestOf`).
* `SamplesStaySomewhere` (`EverySampleIsSomewhere`): what a compaction removes
  from the raw samples of a bucket gives it an average if it had none, and is counted there at most once
  (`CompactionKeepsResources`); only buckets behind the end of retention lose theirs. A bucket holds
  finitely many samples (`BucketHolds`), so that the counts are numbers.
* `CompleteWasReached`, `ProgressOnlyAdvances` (`CompleteMeansReached`, `ProgressNeverGoesBack`): the weight
  of the milestones reached and of one, or two, that are missing is no more than the whole
  (`WeightMissing`); the newest segment counts for its own milestone and only until that is reached
  (`CurrentCounts`), so 100% is left to a full segment that is missing alone (`FullOnlyAlone`). The
  newest report is well defined (`NewestIsThere`), which the order in time needs too.
* `SamplesAlwaysFit`, `MeaningStays` (`SamplesFitTheirMetric`, `MeaningIsStable`): descriptor and stored samples
  agree with the declaration (`SourcesAgree`). A batch is applied in stages, each of which keeps it
  (`BatchInStages`), and a merge of declarations only completes what was left open (`MergedTable`).
* `DashboardsStayConsistent` (`DashboardsAreConsistent`): a write changes one row, a change of the default moves
  it (`DefaultMoves`), and a deletion gives it and the active place to a row that is left
  (`FallbackIsOneOfTheRest`). Orders stay below the number of identifiers ever drawn, which makes room for the next.
* `PagesStayTheTable` (`PagesAreTheTable`): a reader has all rows up to its cursor and no other
  (`NextPageKeepsReader`); uploads add rows behind all ids (`AppendIsBehind`). The search for cycles is right
  (`SearchIsRight`): what is finished has no cycle and
  no way into what is not (`IsDone`), what is being visited goes on to the node at hand (`LeadsTo`), so a node met
  again closes a cycle; by induction over the number of nodes
  not yet marked (`VisitIsRight`), then over the nodes searched. A hierarchy is taken if and only if
  no set of its nodes is closed under parents (`TakenIffForest`).
* `ResolvedStaysWhole` (`ResolvedIsWhole`): there is a free place at or above the bottom of what is
  placed (`PlaceIsFree`), so the first one exists and overlaps nothing, and by induction over
  the widgets to place the layout is legal and has each of them once (`CompactIsLegal`). `compatible` is
  read off the verdicts: a widget that is there and has sources in every slot, and no other, is resolved
  (`ResolvedWidget`).
* `AllOrNoneIsChosen` (`NothingSilentlyChosen`): the candidates are closed under equally good
  sources (`CandidatesAreBest`), and a slot takes them all or none.

What these share is in lemmas on folds over finite sets: the function by which a fold is defined
exists (`FoldsExist`) and has its values where start and steps have theirs (`FoldsStay`); what holds of the
empty set and is kept by one more element holds of all, as there is no least set for which it fails
(`SetInduction`). The recursive function of the search is handled in the same way (`VisitsExist`).

The proofs also found a fault of a model. `AttemptLogs!After` was a CASE whose guards overlapped: TLC takes
the first arm that holds, but by the semantics of TLA+ any of them may be the value, and what follows a
synced stream was undetermined. It is nested conditions now, in the order of the returns
in `appendOrderedLog`. They also showed what a model took for granted: the layout needs widgets no
wider than the grid, the pages of a sample a hash without collisions. Both are assumptions now.

Model-checked only: liveness (`RunningEnds`, `QueuedIsPlaced`; fairness and ENABLED are beyond
the prover), and the disagreements. Every other property of a run that passes is a theorem.

## Plan

Done: all modules above, and the proofs of `JobStore` with its refinement, `JobSystem`, `Scheduler`,
`BuildPipeline`, the eight components of `Attempt` and the seven of `Observations`. What a
continuation would add: pagination of checkpoints, distributions, the validation of widget
configurations.

## What is not modelled, and why

Cryptography, parsing, configuration, command line, web client (but for the chart in
`Series`) and SDK keep no control state of the server. The validation of the
contents of tables, matrices and dashboard configurations is field by field and without
state. NUMA preferences, queue reasons, container options and GPU discovery change what is
chosen or shown and not whether; host inventory is data. Times are abstract: that they are
stored as RFC 3339 text without trailing zeros and compared as text (`store.go:1325`),
so that two times within a second may be out of order, is not in any model. A failure to list
containers at start-up (`agent.go:956`) is a step of `JobSystem` about which nothing
is promised.
