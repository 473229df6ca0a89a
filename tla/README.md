# burn_image in TLA+

TLA+ modules of the control logic of `burn_image`: a Bevy frontend that accepts
image jobs, a model integration that executes them on the renderer's own GPU,
and the runtimes that hold one multi-gigabyte model at a time. TLC checks the
modules on small instances; TLAPS proves every safety property and refinement for
every value of the constants.

    tlc -workers 2 -config ImageFrontend_panel.cfg ImageFrontend.tla
    tlc -workers 2 -config BooguAdapter_gate.cfg MCBooguAdapter.tla
    tlc -workers 2 -config BrowserEngine_engine.cfg MCBrowserEngine.tla
    tlapm ImageFrontend_proofs.tla      (likewise the other *_proofs modules and EventStories)

`PROJECT.json` lists every run with its module and configuration, the source
lines behind every definition (`map`), the hazards with the properties that
cover them, and for each property a plausible defect in the code that violates
it (`mutants`; the mutated operator stands just before the one it replaces).

## 1. The system

Paths are relative to `src/crates/`. The frontend never blocks: everything long
runs on another thread (native) or in another task (browser), and whoever runs
it talks to the frontend through queues polled once per frame.

    hosts, panel --Submit/Cancel--> job table --Dispatched/CancellationRequested--+
        ^                             ^                                           |
        | outputs, rejections         | Progress/Complete/Fail                    v
    display, panel <--accepted------- +-------------- runner plugin  or  Boogu adapter
                                                             |               |      |
                                                        ImageRunner   BooguRuntime  surface gate
                                                                             |
                        native: handle > switch worker > inference worker, over artifact cache
                        browser: handle > spawned tasks > engine, over artifact stream

| Component | State | Operations | Hard behaviour | What makes it correct |
|---|---|---|---|---|
| **Image job table** `bevy_image/src/jobs.rs` | records by id with a phase; id counter; six message queues | reserve an id, accept or reject submissions, cancel, apply progress, completions, failures, prune | messages in any order and number; several per frame; ids replayed, or reused after pruning | one terminal phase per record, bounded history, cancellations always routed |
| **Runner bridge** `bevy_image/src/runner.rs` | token of every job in the runner | submit, cancel, poll | runner refuses, answers late or after a cancellation | no live record without somebody who owes it an event; no cancelled work goes on |
| **Output display** `bevy_image/src/display.rs` | last outputs in order | materialize a completed output, evict | reads completions several systems after they were judged; an accepted image that cannot be made | shows validated outputs only, and every one retained or reported as failed |
| **Control panel** `bevy_image/src/controls.rs` | `latest_job`, `latest_output`, `model_switch_pending` | Run, Cancel, capture, select a model | deduces "submission under way" from the absence of a record, while records are pruned | one job at a time; Run always comes back |
| **Shared GPU status** `bevy_image/src/backend.rs` | status, `BurnDevice::is_ready` | latch a loss | set asynchronously by the GPU, seen by unordered systems | nothing runs after a loss |
| **Boogu adapter** `bevy_image/src/boogu.rs` | phase, runtime, active jobs | initialize, submit, cancel, poll, stop on loss, relay preparations | device loss in every phase; events of jobs it no longer tracks | every job settles, the gate opens again |
| **Browser surface gate** `bevy_image/src/boogu.rs` | gated jobs, saved camera states, window, violation | suspend, capture, enforce, resume | cameras and window change while it is closed | no active camera reaches extraction; exact restore |
| **Native runtime** `bevy_image/src/native_boogu.rs` | active request, preparation, command and event channels, resident cell, inner runtime, `busy`, one cancellation token | submit, cancel, poll, prepare, switch, warm up, infer, drop | three threads; panics; a warm-up with a deadline; shutdown | one release on the GPU; every request answered; short join |
| **Browser runtime** `bevy_image/src/browser_boogu/` | one engine passed between handle and tasks, bounded event queue | submit, cancel, poll, prepare, switch | an engine lost with a failed switch; events dropped when the queue is full | as above |
| **Browser engine** `bevy_image/src/browser_boogu/runtime.rs`, `burn_boogu/src/model/streaming.rs`, `packed_f16_artifacts.rs` | release, residency policy, retained sources, packed denoiser cache | build, switch, infer, clean up | cancellation and failure at every await; what a switch may keep | whole when it takes requests, never two denoisers on the GPU, nothing left of a request that failed |
| **Artifact caches** `bevy_image/src/native_artifact_cache.rs`, `burn_image/src/artifacts/cache.rs` | files, sidecar, manifest | look up, download, verify, commit, repair | crashes, several processes, partial downloads, directories of older versions | a committed manifest means verified files |
| **Browser artifact stream** `bevy_image/src/artifact_stream.rs` | Cache Storage, the page's session, its transfer plan | look up, transfer, store, verify, evict; preflight of a plan | storage shared with other tabs and the browser; quota pressure | verified bytes only, no repeated transfer, nothing the page relies on removed by itself |
| **Artifact contracts** `burn_image/src/artifacts/` | none | parse and validate manifests, layouts, identities | boundaries of ranges and sizes | only consistent layouts pass |
| **Model-neutral runtime, types** `burn_image/src/runtime/`, `burn_image/src/types/` | model registry | infer, observe, validate | cancellation points | terminal outcome matches the token |
| **Native pipeline** `burn_boogu/src/pipeline.rs`, `runtime.rs` | stage | encode, denoise, decode | cancellation between stages | released on every exit |
| **Tensor models, GPU patches, tools** | - | numerical kernels, queue patches, command line, qualification | - | - |

## 2. What is modelled, and where

| Module | Stands for |
|---|---|
| `JobLifecycle` | abstract: what the frontend promises about one record |
| `ImageJobs` | the job table: state, queues, Input and Feedback systems |
| `ImageFrontend` | `ImageJobs` + runner bridge + display + Run/Cancel buttons, around an arbitrary `ImageRunner` |
| `ImageJobs_proofs`, `ImageFrontend_proofs` | lemmas about the table; the theorems about `ImageFrontend` |
| `RuntimeContract` | abstract: what the Boogu adapter relies on in a `BooguRuntime` |
| `SurfaceGate` | the browser's surface gate and the scene it acts on |
| `BooguAdapter` | `ImageJobs` + `SurfaceGate` + `RuntimeContract` + the adapter and device loss |
| `BooguAdapter_proofs` | the theorems about adapter and gate |
| `MCBooguAdapter` | symmetry of cameras and of windows for TLC |
| `NativeSwitch` | the native runtime's three threads, shown to keep `RuntimeContract` |
| `NativeSwitch_proofs`, `EventStories` | its theorems; lemmas about event queues, used for the browser as well |
| `BrowserRuntime` | the browser runtime: one engine, its tasks, its bounded queue |
| `ModelSelection` | `BrowserRuntime` + the panel's model options and reference images + the adapter's relay, shown to keep `RuntimeContract` |
| `ModelSelection_proofs` | the theorems about `ModelSelection` |
| `ArtifactCache` | one bundle of the native cache, and the processes that fill, repair and use it |
| `ArtifactCache_proofs` | the theorems about the cache |
| `ArtifactStream` | the reader of one browser page over Cache Storage, and the preflight |
| `BrowserEngine` | `ArtifactStream` + the engine's build, switch and requests, and what is on the GPU |
| `BrowserEngine_proofs` | the theorems about engine and stream |
| `MCBrowserEngine` | the artifacts TLC uses |

Two modules speak of the browser runtime. `BrowserRuntime` says which task has
the engine and what the events report; `BrowserEngine` says what the engine that
a task has taken does between its awaits. They share the points at which an
engine is taken, comes back or is lost.

### ImageJobs and ImageFrontend

Bevy runs the systems of a frame in a fixed order; the variable `stage` names
the system that runs next. A system that treats its whole queue uniformly is one
action (`AcceptCancellations`, `ApplyProgress`); one whose messages interact is
an action per message and one that ends it (`RejectSubmission`,
`AcceptSubmission`, `SubmissionsDone`). A queue whose messages commute is a set
of ids, one whose order matters is a sequence. `phase[i] = "none"` says that the
map has no record `i`.

Payloads are reduced to the verdicts the code reaches on them: a request is
*good*, *unsupported* (passes the frontend's validation and fails the
integration's) or *invalid*; an output is valid or not. The completion messages
stay in `completed` until the Display set, because `materialize_completed_images`
reads them again and compares them with the record's phase only. Validation does not decode
images, so making the texture may fail for an accepted output: `ShowOutput` then
displays nothing (if `ImagesFail`) and remembers the `ImageDisplayFailed` message in `undisplayed`,
while the panel captures the output all the same.

Hosts act between frames: a message written during `Update` is read in the next
Input set, wherever in the frame it was written. The panel's systems run before
the Input set in the model; relative to a frame's Feedback and Display sets that
is where they are in the code, which chains them, and what they write is read
at the same place.

The runner is an environment. It reports `Cancelled` only for a use of an id whose
cancellation has reached it; otherwise it accepts, refuses and reports as it
likes. `engine[i]` is what it does with each use of an id, of which it has at most
`MaxUses` at a time, `runnerJobs` what `ActiveRunnerJobs` holds: one token per id. An
event names the id only, so it takes the token of whichever use the plugin holds
(`Settle`).

Neither `submit_dispatched_jobs` nor the `ImageRunner` trait keeps a runner from
accepting an id whose earlier use it has still to report. Some properties need that
it does not, or that no host sends an id again; the hypothesis is called
`UsesApart` (`MaxUses = 1 \/ ~(HostSubmits /\ HostReplays)`), and
"Configurations that are excluded" says what happens without it.

### SurfaceGate and BooguAdapter

`SurfaceGate` keeps the gate's five fields and the cameras' `is_active`.
`wanted` remembers what the application asked of each camera and exists only for
the property. Two systems that can interleave with the rest are kept apart:
`enforce_ready_device` and `initialize_boogu_runtime` are unordered in
`PreUpdate`, so the latter sees the backend status from before or after the
former. Cameras and windows change between frames and in the middle of one, after
the Dispatch set and before the gate is enforced in `Last`.

The runtime behind the adapter is `RuntimeContract`, which may in addition
refuse any request. Its worker takes steps at any moment of a frame. `EagerSlot`
tells the browser runtime (free for the next request as soon as a terminal event
is queued) from the native ones (free once that event has been polled). A runtime
that was dropped accepts nothing more (`rtDropped`).

### NativeSwitch

Every send, every store to a shared cell and every change of what the GPU holds
is a step of its own. `active`, `asked`, `preparing` belong to the handle;
`commands`, `events`, `prepEvents`, `resident` are shared with the switch
worker, whose control point is `pc`; `inActive`, `token`, `inCommand`,
`stopping`, `busy`, `inEvents` are those of the inner `NativeBooguRuntime`; `wk`
is the inference thread. The warm-up's `ImageJobId(0)` is `Warmup`. A panic of
model code ends the inference thread with `busy` set, or, in the loader, the
switch worker with its channels.

### BrowserRuntime and ModelSelection

Handle and tasks of the browser share one thread, so whatever happens between
two awaits is one step, and tasks run between frames only. `engine` is the
release in the shared cell, `carried` the one a task has taken; `owed` (accepted
requests whose terminal event has not been polled) and `lost` (a switch has
failed) are history. A switch has two outcomes; an inference completes, fails,
or, once its token is cancelled, is cancelled; a failure or cancellation pushes
a progress event before the terminal one, as the code does.

`ModelSelection` runs the frame around it: option presses, then
`prepare_boogu_models` (requests first, then a bounded poll), submissions, the
event poll, and the panel's reading of the answers. `pending` is
`model_switch_pending`. Reference images arrive at any point, because
`accept_reference_images` is unordered with the Dispatch set. The surface gate
appears as what it does to submissions: it admits a request when no terminal
event is outstanding.

### ArtifactCache

Pipeline bundles are kept by `cache_remote_bundle`, the components they depend on
by `FilesystemArtifactCache::ensure_dependency`; `flow` says which of the two the
bundle belongs to. They share the replacement of a manifest that is missing or not
the sealed one and the removal of a stale logical weight (`FetchManifest` to
`DropStale`); the rest is an action per file operation of each. `disk[f]` is what a
name of the directory holds, and `bad` stands for any bytes that are not the
declared ones. Weights come in two representations: as one file, or as transport
parts listed in a sidecar, when the logical file must be absent. Where the code
asks whether a file is there and removes it afterwards, these are two steps
(`WithdrawOld`, `DropOld`), because another process may have removed it in between.

Every directory is an initial state: earlier versions, crashes, full disks and
users leave anything. A process can crash before any step and be launched again.
`todo` and `left` are the files and parts its loops have not come to, `commit` is
`needs_commit`, `tries` the attempts of the transfer in progress, `cause` is history.

### ArtifactStream and BrowserEngine

`storage[k]` is what Cache Storage has for one part, or why it has nothing; the
reasons are history and tell an entry that was `taken` by somebody else from one
the preflight `pressed` out and from one the reader `rejected` itself. `populated`
is the session's set of keys the page relies on, `plan` and `counted` are the plan
of the selected model and its transferred part, `io` is the read in progress with
its one forced second attempt. Each await on Cache Storage or the network is a
step, and between two steps somebody else may remove or damage an entry (`Spoil`),
a cancellation may arrive or the page may be reloaded. A reload keeps Cache Storage
only.

The engine follows one of two residency policies. A *resident* one loads all
weights of its release at build time, keeps them, and a switch keeps those the two
releases share (`Reused`). A *packed* one preloads its denoiser, streams text and
decoder weights during each request and drops the denoiser before the decoder is
loaded. `device` is the set of weights on the GPU and `packed` the state of the
packed denoiser's cache. `pending` is the flag of a retained source that has queued
work without waiting for it, which a barrier that fails leaves behind. A build or
switch that fails takes the engine with it (`Dies`); a packed request that fails
goes through `Cleanup` before its answer, any other is answered where it ends.

## 3. Properties and runs

| Run | Question | States | Bounds |
|---|---|---|---|
| `panel` | panel as the only host, images that may fail to be made: `OneJobAtATime`, `RunComesBack`, `CompletedIsShown` | 27 k | 3 jobs, 1 retained record (the constant in the code), a display of 2 |
| `hosts` | any host, a runner with one use of an id at a time: `NoOrphanRecord`, `NoRunawayWork`, `RetentionBound`, `OnlyValidatedShown`, refinement of `JobLifecycle` | 3.0 M | 2 ids, each replayed at will, 2 submissions per frame, 1 retained |
| `adapter_hosts` | adapter on a native runtime that may fail to build and loses its device: `NoOrphanRecord`, `NoRunawayWork`, `DispatchFindsRuntime`, refinement of `JobLifecycle` | 1.1 M | 2 ids replayed at will, 1 event per poll, 2 queued events |
| `adapter_gate` | gate in a changing scene: `SurfaceQuiet`, `RestoredExactly`, `GateHasOwner` | 1.6 M | 2 jobs, 3 cameras, 2 windows, 2 scene changes, symmetry |
| `adapter_live` | `EveryJobSettles`, `GateReopens` under fairness | 0.3 M | 2 jobs, 2 cameras, 1 scene change |
| `native` | three threads that may panic, warm-ups that may exceed their deadline: `ResidencyExclusive`, `ResidentHonest`, `ActiveIsOwed`, `JoinIsShort`, `EveryCallIsAnswered`, `MemoryReturned`, refinement of `RuntimeContract` | 24 k | 3 releases of which one is warmed up, 2 request ids, 2 queued events |
| `native_warmup` | finding 1 | - | 2 releases, late warm-ups |
| `selection` | model selection on the browser runtime: `AnswersKept`, `EngineComesBack`, `NoticeTrue`, `PendingIsOwed`, `PendingEnds`, refinement of `RuntimeContract` with `EagerSlot` TRUE | 20 k | 3 releases of which 2 edit, 2 ids reused at will, a queue of 3, 2 events per poll |
| `selection_reference` | finding 2 | - | 2 releases |
| `cache` | a bundle from any directory to a committed one: `SealedLast`, `RepairedWithdrawn`, `OkMeansComplete`, `RaceHasWinner` | 1.5 M | 2 processes, one compact file, a sidecar, a weight of 2 parts, 2 attempts |
| `browser_engine` | engine over unreliable storage: `ReadyIsWhole`, `GpuBounded`, `FailsForCause`, `LostWasDeleted`, `NoRepeatTransfer` | 2.8 M | 3 releases of which 2 edit, 2 denoiser stages, a text encoder of 2 parts, 2 denoising steps, one spoiled entry, one reload |
| `stream_switch` | finding 3 | - | as `browser_engine` |

Why the bounds are enough. Job records interact in three ways only: the panel
looks at all live ones, pruning counts terminal ones, and an id may meet its own
earlier life. Two ids with replay and one retained record, or three ids without
replay, show each of these, including a record that is pruned while the runner
still works for it. The numbers that the code fixes and that matter relative to
each other are kept so: history 2 over 3 jobs exceeds the display; one retained
record is the code's own value; `PollLimit` 1 with two queued events makes a poll
leave events behind. The gate needs two cameras, so three with spawning and
despawning reach fewer than two, exactly two, and a replacement. The native
runtime handles one request at a time, so a second id and a third release (the
one it has, the one that is warmed up, one that is not) exercise every
succession of switches; its identifiers may be used again, so runs are unbounded
in length.

Cached files are handled one at a time by loops that do not look at other files, so
one compact file stands for all; a weight needs two parts to be half repaired. Two
attempts stand for `DOWNLOAD_ATTEMPTS` = 4: there is a last one and one that is not.
Two processes give every race of a check with a removal; both flows start from
each of the 3^n directories. In the engine, a switch depends on whether its source
and its target are Edit releases, so two Edit releases and one other give every
pair, and unbounded chains of them. Two stages let a load stop halfway; two parts
let an object be half stored; two steps let a cancellation fall between them.

Bounds by name: `MaxJobs` (identifiers handed out), `MaxPosted` (submissions
waiting for a frame), `MaxReports` (outputs reported in a frame), `MaxUses` (uses of
one id the runner has at a time), `MaxEvents`
(queued events beyond which a worker withholds progress; terminal events are
never withheld), `MaxSceneChanges`, `MaxRequest`, `MaxAttempts` (above),
`MaxSpoils` (entries that somebody else removes or damages), `MaxReloads`.
`MaxRetainedTerminalJobs`, `HistoryLimit`, `PollLimit` and `MaxQueued` are constants of the code. The browser's
queue of 256 events is 3 in the model and its 64 events per poll are 2: a full
queue, a poll that leaves events behind and a failure that pushes two events onto
a full queue all occur.

`CHECK_DEADLOCK FALSE` in the native runs: after `Drop` and the workers' exit the
system has stopped. It is also set in the runs of `BrowserEngine`: a page whose
engine is lost can only be reloaded, and reloads are bounded. Everywhere else a
deadlock would be reported.

### Configurations that are excluded, and why

* `panel` sets `DoubleClicks` FALSE. A Run pressed in the very frame after a
  rejected Run lets the rejection, read a frame late, overwrite `latest_job`; with
  the record pruned the panel then believes that a submission is under way until
  another job ends. Reported under `hazards` (controls.rs:2154); it takes two
  presses 16 ms apart. `HostSubmits` TRUE has a similar effect (controls.rs:2972).
  The properties of the panel are stated for the panel as the only host.
* `hosts` sets `MaxUses` to 1: the runner refuses an id while an earlier
  use of it is to be reported. The trait does not ask for it, and `NoOrphanRecord` fails
  with `MaxUses = 2`: a host submits a job, cancels it, lets its record be pruned by
  another, and submits the id again while the runner is still ending the first use.
  The `Cancelled` of the first use then removes the token of the second
  (runner.rs:307), and the live record can no longer be cancelled through it; a
  `Failed` or `Completed` of the first use settles the record while the second runs
  on. The panel takes a new id for every job, so `panel` allows two uses. The
  refinement of `JobLifecycle` is proved for every `MaxUses`.
* `hosts` sets `ImagesFail` to FALSE: a display failure changes what is on display and
  what the panel has captured, nothing the properties of that run speak of. `panel`
  has it TRUE; the theorems hold for both.
* `EagerSlot` with `Replays` and no gate is not checked: an id whose record is
  pruned can then be accepted while the terminal event of its earlier life is
  still queued, and gets that event (boogu.rs:1250). The browser, which
  has the eager runtime, also has the gate and no host that repeats identifiers.
* `EveryCallIsAnswered` has one exception, the state `Hung`: a worker that panics
  after the warm-up's deadline leaves the switch worker waiting for `busy` for good
  (hazard at native_boogu.rs:1408).
* `RunnerRepeats` is FALSE: a runner that reports one completion twice gets its
  second, unvalidated output on display, because `materialize_completed_images`
  accepts every completion of a completed record (display.rs:154).
  `OnlyValidatedShown` fails with TRUE. Every integration in the repository reports
  a use once; the `ImageRunner` trait does not ask for it.
* `cache` lets two processes overlap in the pipeline's flow only
  (`Overlap = {"pipeline"}`). `ensure_dependency` removes a file before it renames
  another to it, and two of these at once can remove a verified file below a run that
  has already succeeded: `OkMeansComplete` fails with `"dependency"` in `Overlap`.
  One process at a time, with crashes and restarts, is checked for both flows.
* `LostWasDeleted` is what holds of artifacts the reader gives up as lost: their entry
  was in the cache and has been deleted, by somebody else (`taken`), by the preflight
  (`pressed`, finding 3) or by the reader as corrupt (`rejected`). A transfer that is
  cancelled or fails before its entry is stored leads to another transfer. The last of
  the three is a limit of the code: when a corrupt entry has been evicted
  (artifact_stream.rs:2540) and the forced transfer within the same read is
  cancelled, fails or brings wrong bytes, its key stays in the session's populated set, and every later read ends
  with `BrowserCacheSessionEntryLost` (artifact_stream.rs:2463) until the page is
  reloaded, where `docs/web.md:56` speaks of an entry that is "evicted and replaced
  from the CDN". Without `rejected` the property fails, also without quota pressure.
  `FailsForCause` says nothing of artifacts.
* A packed engine is opened for a release without reference images only: that is the
  release the policy exists for. It refuses every switch, and the engine is gone with
  the refusal (hazard at runtime.rs:10910).
* `ModelSelection` has the surface gate on, as it is unless the page is opened
  with `surface-gate=0`. Without it the browser runtime may accept a request
  while the previous terminal event is still queued, and enough progress then
  pushes that event out: the mutant of `AnswersKept` is exactly this case.
* `PendingIsOwed` and `PendingEnds` are stated for a device that lives and a
  selection no reference has changed (`diverted`); what happens otherwise is
  finding 2, and the hazard at controls.rs:1410.

### Fairness

`BooguAdapter`: `WF(FrameStep)`, because Bevy keeps running frames, and
`WF(WorkerFinish)`, because an inference that was started ends (it has no
unbounded loop, and the contract lets it end in failure). Hosts, scene changes,
progress and the loss of the device are not fair.

`NativeSwitch`: the switch worker and the inference worker are threads, so they
keep running; an inference ends or panics; the adapter polls in every frame.
Submitting, preparing, cancelling, dropping and progress are not fair, and
neither is any particular outcome of a load or an inference.

`ArtifactCache` and `BrowserEngine` are checked for safety: a process may crash, a
page may be closed and a transfer may take forever. `RaceHasWinner` says of the
cache what a liveness property would be about: if every process has come to an end
and no transfer failed, the bundle is committed.

`ModelSelection`: `WF(FrameStep)`, and strong fairness of the end of a switch,
which is enabled between frames only: the page's event loop gives a task its turn
between two frames. Which end it is, ready or failed, is not fair. Requests,
cancellations, references, progress and the end of an inference are not fair:
`PendingEnds` does not need them.

### Findings

1. **`native_warmup`: a late warm-up is an availability gate.**
   `native_boogu.rs:1328` says "Prewarming is a latency optimization, never a new
   availability gate. The worker is still usable after a model-level warmup error".
   After `WARMUP_TIMEOUT` the inner runtime keeps the warm-up as its active job.
   It is polled only while a request is being forwarded, and refuses every request
   while it has an active job: the release is unusable until another one is
   loaded.
2. **`selection_reference`: the panel waits for a switch that has ended.** A
   reference image that arrives while a switch to a Generate release is under way
   selects an Edit release (controls.rs:1992) and leaves `model_switch_pending`
   up. The switch's answer then concerns a release that is not selected and does
   not clear the flag (controls.rs:1461). Run answers "Wait for the selected
   browser model to finish switching" (controls.rs:1864) from then on, and the
   model options are blocked by the same flag. The reference control is disabled
   during a switch; a file chosen before it, or dropped on the window, is accepted.
3. **`stream_switch`: the preflight removes what the page relies on.** Under quota
   pressure every stored entry that is not a weight of the selected release is deleted
   (artifact_stream.rs:818). The configuration and tokenizer files of the shared
   components are stored under the same cache name (artifact_stream.rs:2685), the
   session relies on them, and the plan registers weights only
   (artifact_stream.rs:2375). A switch keeps the session, so its first read of such a
   file ends with `BrowserCacheSessionEntryLost` (artifact_stream.rs:2614), and the
   engine is gone. `bevy_image/src/lib.rs:355` says that the preflight removes "only
   unselected entries [...] preserving all keys shared with the selected release",
   `docs/web.md:56` that "a missing or corrupt entry is evicted and replaced from the
   CDN".
## 4. Proofs

TLC shows each safety property on a small instance; TLAPS proves every one of
them, and the four refinements, for every value of the constants: any number of
jobs, releases, requests, cameras, windows, files, parts and processes, any queue
bound and any retention, under the hypotheses named below.

| Module | About | Inductive invariant | Theorems |
|---|---|---|---|
| `ImageJobs_proofs` | the table, in any composition | - | lemmas: typing, `Ids`, pruning, `TableForward` |
| `ImageFrontend_proofs` | `ImageFrontend` | `Inv` with `UsesInv`, then `RetainedInv`, `SoloInv`, `ShownInv`, `NewestInv`, `FreshInv` | `TypeCorrect`, `InvHolds`, `NoOrphans`, `NoRunaways`, `Refinement`, `RetentionIsBounded`, `OneAtATime`, `ValidatedOnly`, `RunIsAvailable`, `CompletedShown` |
| `BooguAdapter_proofs` | `BooguAdapter` with `SurfaceGate` over `RuntimeContract` | `TypeOK /\ TableInv /\ SceneInv /\ (LatestOnly => WorkInv)` | `TypeCorrect`, `AdapterInvariant`, `RuntimeIsThere`, `GateRestores`, `GateIsQuiet`, `GateIsOwned`, `NoOrphans`, `NoRunaways`, `Refinement` |
| `EventStories` | the event queue of a runtime | - | lemmas: `AppendStory`, `TailStory` |
| `NativeSwitch_proofs` | `NativeSwitch` | `TypeOK /\ CommandsInv /\ Owed /\ ModelInv /\ GpuInv /\ InnerInv /\ TokenInv` | `TypeCorrect`, `SwitchInvariant`, `OneReleaseOnGpu`, `ReadyIsHonest`, `JoinFindsNoWork`, `NothingIsLost`, `ImplementsContract` |
| `ModelSelection_proofs` | `ModelSelection` with `BrowserRuntime` | `TypeOK /\ EngineInv /\ RequestInv /\ SwitchInv /\ ReadyInv` | `TypeCorrect`, `SelectionInvariant`, `NoAnswerForgotten`, `EngineReturns`, `NoticeIsTrue`, `PendingIsAnswered`, `ImplementsContract` |
| `ArtifactCache_proofs` | `ArtifactCache` | `TypeOK /\ Labels /\ Alone /\ Knowledge /\ Causes /\ Sealed /\ Unread /\ Owed` | `TypeCorrect`, `CacheInvariant`, `ManifestIsLast`, `NoRepairInPlace`, `SuccessIsComplete`, `RacesAreWon` |
| `BrowserEngine_proofs` | `BrowserEngine` with `ArtifactStream` | `TypeOK /\ ReaderInv /\ Labels /\ Answered /\ GpuInv /\ Reads` | `TypeCorrect`, `EngineInvariant`, `TakesRequestsWhole`, `GpuStaysBounded`, `FailuresHaveACause`, `LostEntriesWereStored`, `TransferredOnce` |

`PROJECT.json` pairs each theorem with the property it states. Every inductive
invariant was model-checked before it was proved, on the instances of the runs of
its module.

### Assumptions and hypotheses

The assumptions on constants (`JobsAssumption` to `EngineAssumption`) give them
their types and make bounds positive. Two say a little more, because the models
need it to mean what they say: `CacheAssumption` that the manifest, the sidecar, the
logical weight, the compact files and the parts are different names and that there
is a process, `EngineAssumption` that text, vision, decoder, metadata and denoiser
weights are different objects.

Where a theorem has a hypothesis, it is the configuration of the run that checks
the property, and "Configurations that are excluded" says what happens without it:

| Hypothesis | Theorems | Meaning |
|---|---|---|
| `MaxRetainedTerminalJobs # 0` | `RetentionIsBounded` | the code's constant is 1; with 0 the record of the submission at hand would be inserted all the same |
| `~ HostSubmits` | `OneAtATime` | the panel is the only host |
| `UsesApart` | `InvHolds`, `NoOrphans`, `NoRunaways`, `ValidatedOnly` | the runner has one use of an id at a time, or no host sends an id again |
| `~ RunnerRepeats` | `ValidatedOnly` | the runner reports a use of an id once |
| `PanelAlone` | `RunIsAvailable` | the panel is the only host, the runner reports a use once, no Run in two consecutive frames, and some retention |
| `PanelAlone`, `MaxRetainedTerminalJobs = 1` | `CompletedShown` | in addition the retention of the code (jobs.rs:12) |
| `LatestOnly`, that is `EagerSlot /\ Replays => GateEnabled` | `GateIsOwned`, `NoOrphans`, `NoRunaways` of the adapter | a runtime that frees its slot early and identifiers used again meet behind the gate only |
| `"dependency" \notin Overlap` | all of the cache but `TypeCorrect` | no two `ensure_dependency` at once; any number of racing pipeline processes and of crashes |

### The arguments

**Frontend.** `NoOrphanRecord` and `NoRunawayWork` speak of the state between
two frames and are not inductive: within a frame a record is handed from queue
to queue. `Inv` says where it may be.

* `QueuesDrained`: each queue is empty outside the stages between its writers
  and its readers. Without it a leftover message could reach a later frame.
* `LiveHeld`: a live record is held by the runner, or has a dispatch, a failure
  or a completion under way that will hand it over or settle it.
* `WorkWanted`: what the runner works on is live or about to be cancelled, and
  has no dispatch, failure or completion pending. This keeps a record from being
  settled while the runner goes on.
* `DispatchSound`: an id is dispatched once, for a record that is live or was
  cancelled in this very frame, and a routed cancellation is for a record that is
  no longer live. Without it the second of two dispatches could be refused and
  fail a record that the first has put to work.

A terminal event settles a record only if it belongs to the present use of the id.
`UsesInv` is what the induction needs of that: with `UsesApart` an id has one use at a
time, either because the runner has one slot for it or, by `UnusedInv`, because a
new id has never been dispatched.

At `stage = "idle"` all queues are empty, and `LiveHeld` and `WorkWanted` reduce
to the two properties. `Refinement` needs only types: `TableForward` shows that
each system of the table moves every record as `JobLifecycle` allows and opens at
most one, `OthersKeepPhase` that nothing else touches a record.

Four further invariants stand on `Inv`. `ShownInv`: a completion is reported while
the record is not completed and at most once, so the message the display reads is
the very one `apply_completions` has validated. `SoloInv`: one submission at most
is unread, and none while a record is live. `NewestInv`: `latest_job` is the newest
job the table knows, and the only one unread, live, rejected or about to be
displayed; pruning cannot take its record because no settled record is newer.
`FreshInv`: with a retention of one it has the only record. `RetainedInv` needs the
one fact about numbers: `PrunedCount`, that pruning to `n` leaves at most `n`
records. Its proof maps each kept record injectively to the number of newer ones.

**Adapter.** `TableInv` is the frontend's `QueuesDrained` and `DispatchSound` with
one more conjunct: a dispatch implies a ready adapter and backend, which is
`RuntimeIsThere`. `SceneInv` says that every camera is as the application left it
or is saved as such; it needs nothing about jobs, so the gate's two theorems about
the scene hold for every runtime. `WorkInv` is about who owes what. `EventOrder`
is its heart: the queue has the events of one request with the terminal one last,
or, for a runtime that frees its slot early without a gate, only events of ids that
will not be submitted again. Otherwise a terminal event of an earlier life of an
id would settle its present one.

**Native runtime.** `Owed` says that the one command the handle waits for is in the
channel, at work or answered, with the answer last in the queue (`Story`, `Final`).
`GpuInv` ties the GPU to the inference thread: what the switch worker has let go of
is gone before the next load. `InnerInv` states when the inference worker may have
work at all, `TokenInv` that the token it sees is cancelled for its own request
only. Every `Send`, `Recv` and store is a lemma; `ImplementsContract` maps each of
them to a step of `RuntimeContract` or to a stutter.

**Browser runtime and panel.** `EngineInv`: the engine is in its cell or with the
one task. `RequestInv`: behind the gate there is one request, which runs with
progress queued or whose terminal event is the last of the queue; dropping the
oldest event of a full queue therefore never drops an answer. `SwitchInv`: a
selected release is in exactly one of relay, runtime, answers and feedback, and it
is the selected one while the panel waits. In the refinement the contract's queue
is the last event if it is terminal: the gate admits nothing before it is polled, so
no other terminal event can be queued, and progress may be dropped.

**Native cache.** `Knowledge` records, for each label of each process, which files
it has verified. It is stable under the steps of all others: a pipeline process
never makes a verified file wrong, and dependency runs do not overlap. `Sealed`
(once a run has withdrawn a manifest, a manifest stands over a complete bundle),
`Unread` (nobody has passed a manifest that is wrong) and `Owed` (while there is
none, some process is on its way to install one or has an excuse) give
`RaceHasWinner`. `SealedLast` and `RepairedWithdrawn` are properties of steps and
follow from the invariant before the step.

**Browser engine.** `ReaderInv` is about one read over storage others may change:
what the page has verified it relies on (`Relied`), and a transfer of such an entry
starts only after the reader itself has evicted it (`Evicted`). `GpuInv` says label
by label what is on the GPU, including after a cancellation or failure at each
await; `Answered` which causes a task may end with. A switch keeps
`Reused(release, target)` and queues the rest, so that what is on the GPU and what
is queued are together the weights of the target.

### Only model-checked

* Liveness: `EveryJobSettles`, `GateReopens`, `EveryCallIsAnswered`,
  `MemoryReturned`, `PendingEnds`. They need fairness and `ENABLED`, which the
  prover does not handle.
* The three findings, which are counterexamples.
* That the adapter's `RuntimeContract` is what the two runtimes implement is two
  theorems (`ImplementsContract`); that the adapter composed with either runtime
  keeps the adapter's properties follows by reading the contract in their place
  and is not stated as a theorem of a composed module.

No module uses recursive operators. `ModelSelection` maps the contract's queue with
an expression on its last event, since the prover has no theory of `SelectSeq`.

## 5. Not modelled

* Model selection on the native runtime as a composition: `NativeSwitch` has the
  preparation, `ModelSelection` the panel on the browser runtime.
* Of the browser engine: the Edit policy with runtime Q8, which has a smaller
  resident set of the same shape; qualification entry points, buffer audits, the
  GPU memory preflight, diagnostics; progress of a preparation, which only changes a
  notice.
* Of the browser stream: byte ranges and the framing of responses, transfer rates, the
  reader without persistent cache, the transactional loader.
* Of the native cache: local directories, the choice of the cache root, how a
  composition's dependencies are resolved (each bundle is then kept as modelled),
  concurrent renames on Windows, where a rename does not replace its target.
* The native factory's loading thread, the autotune and device-memory policies,
  `cleanup_native_device_allocations` beyond the fact that it may fail a switch; the
  stages of the native pipeline, which appear as the outcome of an inference.
* Parsing and validation of manifests, layouts, identities and requests: a verdict in
  the models. Their boundaries are sequential arithmetic with unit tests of their own.
* Error payloads, progress percentages, layout, editors and file dialogs.
* The wrap of the 64-bit id counter (it takes 2^64 submissions).
* Tensor kernels, GPU patches and qualification tools: numerical or third-party
  code without control state of this system.

## 6. Plan

In order of importance; items 1 to 11 are done.

1. `ImageJobs`, `ImageFrontend` with `JobLifecycle`: the core and its proofs.
2. `RuntimeContract`, the seam between frontend and GPU runtimes.
3. `SurfaceGate` and `BooguAdapter` on that seam.
4. `NativeSwitch`, refining the contract with `EagerSlot` FALSE.
5. Theorems: types, `Inv`, its two consequences and the refinement.
6. `BrowserRuntime`: one engine between handle and tasks, a bounded event queue, a
   switch that may lose the engine.
7. `ModelSelection`: panel, `prepare_boogu_models` and that runtime, refining the
   contract with `EagerSlot` TRUE.
8. `ArtifactCache`: several processes, crashes between any two file operations.
9. `ArtifactStream`: the page's reader over storage it does not own.
10. `BrowserEngine`: residency, switches and cancellation over that reader.
11. Theorems: types, the inductive invariants, every safety property of the runs and
    the refinements of `JobLifecycle` and `RuntimeContract`.
12. What could follow: the adapter's theorems for the composition with each of the
    two runtimes in one module; `OneJobAtATime` and its companions for several
    hosts, which the panel does not promise today.
