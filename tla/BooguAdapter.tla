---------------------------- MODULE BooguAdapter ----------------------------
(***************************************************************************)
(* The Boogu integration of the frontend (crates/bevy_image/src/boogu.rs): *)
(* initialization of a runtime on the shared GPU device, the Dispatch      *)
(* systems between the job table of ImageJobs and that runtime, the loss   *)
(* of the device, and the surface gate of SurfaceGate around each request. *)
(*                                                                         *)
(* The runtime behind the BooguRuntime trait is RuntimeContract, which may *)
(* refuse any request.  NativeSwitch shows that the native runtime keeps   *)
(* that contract.                                                          *)
(***************************************************************************)
EXTENDS ImageJobs, SurfaceGate, RuntimeContract

CONSTANTS
  Replays,      \* do hosts repeat identifiers they have used?
  PollLimit,    \* MAX_EVENTS_PER_POLL
  MaxEvents     \* bound: events queued before the worker withholds progress

ASSUME AdapterAssumption ==
  /\ RuntimeIds = JobIds
  /\ Replays \in BOOLEAN
  /\ PollLimit \in Nat \ {0}
  /\ MaxEvents \in Nat \ {0}

VARIABLES
  device,      \* BurnDevice::is_ready
  backend,     \* BackendStatus
  hostPhase,   \* BooguAdapterHost::phase; a runtime is present iff "ready"
  hostActive,  \* BooguAdapterHost::active
  polled       \* events taken by the poll under way

hostVars == <<device, backend, hostPhase, hostActive>>
vars == <<jobVars, surfaceVars, hostVars, rtVars, polled>>

Stages == {"idle", "prune", "submissions", "cancellations", "dispatch", "submit", "cancel",
           "poll", "progress", "completions", "failures", "display", "extract"}

(* Types: the table, the gate, the runtime and the adapter.                *)
TypeOK ==
  /\ JobTypeOK
  /\ GateTypeOK
  /\ RuntimeTypeOK
  /\ gateJobs \in SUBSET JobIds
  /\ stage \in Stages
  /\ device \in BOOLEAN
  /\ backend \in {"ready", "failed"}
  /\ hostPhase \in {"waiting", "building", "ready", "failed"}
  /\ hostActive \in SUBSET JobIds
  /\ polled \in 0 .. PollLimit

Init ==
  /\ JobInit
  /\ GateInit
  /\ RuntimeInit
  /\ device = TRUE
  /\ backend \in {"ready", "failed"}
  /\ hostPhase = "waiting"
  /\ hostActive = {}
  /\ polled = 0

-----------------------------------------------------------------------------
(* Hosts, the scene and the device, between two frames                     *)

HostStep ==
  /\ stage = "idle"
  /\ \/ \E r \in Requests : Submit(r)
     \/ Replays /\ \E i \in JobIds, r \in Requests : Resubmit(i, r)
     \/ \E i \in JobIds : Cancel(i)
  /\ UNCHANGED <<stage, surfaceVars, hostVars, rtVars, polled>>

(* Cameras and windows also change during a frame, after the Dispatch set. *)
SceneChange ==
  /\ stage \in {"idle", "progress"}
  /\ SceneStep
  /\ UNCHANGED <<jobVars, hostVars, rtVars, polled>>

DeviceLost ==
  /\ stage = "idle"
  /\ device /\ device' = FALSE
  /\ UNCHANGED <<jobVars, surfaceVars, backend, hostPhase, hostActive, rtVars, polled>>

-----------------------------------------------------------------------------
(* The runtime's worker                                                    *)

WorkerProgress ==
  /\ Len(rtEvents) < MaxEvents
  /\ Progress
  /\ UNCHANGED <<jobVars, surfaceVars, hostVars, polled>>

WorkerFinish == Finish /\ UNCHANGED <<jobVars, surfaceVars, hostVars, polled>>

-----------------------------------------------------------------------------
(* PreUpdate: enforce_ready_device and initialize_boogu_runtime, which may *)
(* run in either order: the latter sees the status before or after.        *)

InitializeRuntime(seen) ==
  \/ hostPhase \in {"ready", "failed"} /\ UNCHANGED hostPhase
  \/ /\ hostPhase \in {"waiting", "building"}
     /\ seen = "failed" \/ (hostPhase = "waiting" /\ ~ device)
     /\ hostPhase' = "failed"
  \/ /\ hostPhase \in {"waiting", "building"}
     /\ seen = "ready" /\ (hostPhase = "building" \/ device)
     /\ hostPhase' \in {"building", "ready", "failed"}

PreUpdate ==
  /\ Proceed("idle", "prune")
  /\ backend' = IF device THEN backend ELSE "failed"
  /\ \E seen \in {backend, backend'} : InitializeRuntime(seen)
  /\ UNCHANGED <<nextId, phase, inputQueues, dispatchQueues, rejected, feedbackQueues,
                 surfaceVars, device, hostActive, rtVars, polled>>

(* Mutant: the job table looks at the backend only.                        *)
TableStep_BackendOnly ==
  /\ AcceptInput(backend = "ready") \/ ApplyFeedback
  /\ UNCHANGED <<surfaceVars, hostVars, rtVars, polled>>

TableStep ==
  /\ AcceptInput(backend = "ready" /\ hostPhase = "ready") \/ ApplyFeedback
  /\ UNCHANGED <<surfaceVars, hostVars, rtVars, polled>>

-----------------------------------------------------------------------------
(* Dispatch                                                                *)

(* Mutant: the runtime is dropped and nothing else.                        *)
StopOnBackendLoss_Forgets ==
  /\ Proceed("dispatch", "submit")
  /\ IF backend = "ready" THEN UNCHANGED <<hostPhase, hostActive, rtVars>>
     ELSE /\ hostPhase' = "failed" /\ hostActive' = {}
          /\ DropRuntime
  /\ UNCHANGED <<nextId, phase, inputQueues, dispatchQueues, rejected, feedbackQueues,
                 surfaceVars, device, backend, polled>>

(* Every job the adapter holds fails, the gate is resumed for the job it   *)
(* is closed for, and the runtime is dropped for good.                     *)
StopOnBackendLoss ==
  /\ Proceed("dispatch", "submit")
  /\ IF backend = "ready" \/ hostPhase # "ready"
     THEN UNCHANGED <<hostPhase, hostActive, rtVars, failed, surfaceVars>>
     ELSE /\ hostPhase' = "failed"
          /\ failed' = failed \cup hostActive
          /\ hostActive' = {}
          /\ DropRuntime
          /\ \/ gateJobs = {} /\ UNCHANGED <<gateVars, lit>>
             \/ \E id \in gateJobs : Resume(id)
          /\ UNCHANGED sceneVars
  /\ UNCHANGED <<nextId, phase, inputQueues, dispatchQueues, rejected, progress, completed,
                 device, backend, polled>>

NextDispatch == stage = "submit" /\ dispatched # <<>> /\ dispatched' = Tail(dispatched)

(* Mutant: the refusal is not reported.                                    *)
RefuseDispatch_Silent ==
  /\ NextDispatch
  /\ UNCHANGED <<stage, nextId, phase, inputQueues, routed, rejected, feedbackQueues,
                 surfaceVars, hostVars, rtVars, polled>>

(* Refused by the adapter's own checks, by the gate or by the runtime; a   *)
(* gate that was closed for the attempt is open again.                     *)
RefuseDispatch ==
  /\ NextDispatch
  /\ failed' = failed \cup {Head(dispatched).id}
  /\ UNCHANGED <<stage, nextId, phase, inputQueues, routed, rejected, progress, completed,
                 surfaceVars, hostVars, rtVars, polled>>

SubmitToRuntime ==
  LET i == Head(dispatched).id IN
  /\ NextDispatch
  /\ Head(dispatched).request = "good"
  /\ hostPhase = "ready"
  /\ ~ SuspendRefused
  /\ Accept(i)
  /\ Suspend(i)
  /\ hostActive' = hostActive \cup {i}
  /\ UNCHANGED <<stage, nextId, phase, inputQueues, routed, rejected, feedbackQueues,
                 sceneVars, device, backend, hostPhase, polled>>

SubmitDone ==
  /\ dispatched = <<>>
  /\ Proceed("submit", "cancel")
  /\ UNCHANGED <<nextId, phase, inputQueues, dispatchQueues, rejected, feedbackQueues,
                 surfaceVars, hostVars, rtVars, polled>>

(* Mutant: the adapter forgets the job without cancelling its token.       *)
CancelRouted_NoToken ==
  /\ Proceed("cancel", "poll")
  /\ routed' = {} /\ hostActive' = hostActive \ routed
  /\ UNCHANGED <<nextId, phase, inputQueues, dispatched, rejected, feedbackQueues,
                 surfaceVars, device, backend, hostPhase, rtVars, polled>>

CancelRouted ==
  /\ Proceed("cancel", "poll")
  /\ routed' = {}
  /\ hostActive' = hostActive \ routed
  /\ CancelAny(routed)
  /\ UNCHANGED <<nextId, phase, inputQueues, dispatched, rejected, feedbackQueues,
                 surfaceVars, device, backend, hostPhase, polled>>

ResumeFor(id) == Resume(id) /\ UNCHANGED sceneVars

(* A completed output is passed on if the gate restored every camera and   *)
(* the adapter's own validation accepts it; the table validates it again.  *)
HandleCompleted(id) ==
  /\ ResumeFor(id)
  /\ \/ /\ id \notin hostActive
        /\ UNCHANGED feedbackQueues
     \/ /\ id \in hostActive
        /\ failed' = failed \cup {id}
        /\ UNCHANGED <<progress, completed>>
     \/ /\ id \in hostActive
        /\ id \in gateJobs => gateJobs = {id} /\ ExactlyRestored
        /\ \E valid \in BOOLEAN : completed' = Append(completed, [id |-> id, valid |-> valid])
        /\ UNCHANGED <<progress, failed>>

HandleFailed(id) ==
  /\ ResumeFor(id)
  /\ failed' = failed \cup ({id} \cap hostActive)
  /\ UNCHANGED <<progress, completed>>

(* Mutant: a cancelled request leaves the gate as it is.                   *)
HandleCancelled_KeepsGate(id) == UNCHANGED <<surfaceVars, feedbackQueues>>

HandleCancelled(id) == ResumeFor(id) /\ UNCHANGED feedbackQueues

HandleProgress(id) ==
  /\ progress' = progress \cup ({id} \cap hostActive)
  /\ UNCHANGED <<completed, failed, surfaceVars>>

PollEvent ==
  LET e == Head(rtEvents) IN
  /\ stage = "poll" /\ hostPhase = "ready"
  /\ TakeEvent /\ polled < PollLimit
  /\ polled' = polled + 1
  /\ \/ e.kind = "progress" /\ HandleProgress(e.id)
     \/ e.kind = "completed" /\ HandleCompleted(e.id)
     \/ e.kind = "failed" /\ HandleFailed(e.id)
     \/ e.kind = "cancelled" /\ HandleCancelled(e.id)
  /\ hostActive' = IF e.kind = "progress" THEN hostActive ELSE hostActive \ {e.id}
  /\ UNCHANGED <<stage, nextId, phase, inputQueues, dispatchQueues, rejected,
                 device, backend, hostPhase>>

PollDone ==
  /\ rtEvents = <<>> \/ polled = PollLimit \/ hostPhase # "ready"
  /\ Proceed("poll", "progress")
  /\ polled' = 0
  /\ UNCHANGED <<nextId, phase, inputQueues, dispatchQueues, rejected, feedbackQueues,
                 surfaceVars, hostVars, rtVars>>

-----------------------------------------------------------------------------
(* Last, and the end of the frame after render extraction.  Messages that  *)
(* only display and panel read are gone by the next frame.                 *)

EnforceGate ==
  /\ Proceed("display", "extract")
  /\ Enforce /\ UNCHANGED sceneVars
  /\ UNCHANGED <<nextId, phase, inputQueues, dispatchQueues, rejected, feedbackQueues,
                 hostVars, rtVars, polled>>

EndFrame ==
  /\ Proceed("extract", "idle")
  /\ completed' = <<>> /\ rejected' = <<>>
  /\ UNCHANGED <<nextId, phase, inputQueues, dispatchQueues, progress, failed,
                 surfaceVars, hostVars, rtVars, polled>>

FrameStep ==
  \/ PreUpdate \/ TableStep
  \/ StopOnBackendLoss \/ RefuseDispatch \/ SubmitToRuntime \/ SubmitDone
  \/ CancelRouted \/ PollEvent \/ PollDone
  \/ EnforceGate \/ EndFrame

Next == HostStep \/ SceneChange \/ DeviceLost \/ WorkerProgress \/ WorkerFinish \/ FrameStep

Spec == Init /\ [][Next]_vars

(* Bevy keeps running frames, and an inference that was started ends.      *)
Fairness == WF_vars(FrameStep) /\ WF_vars(WorkerFinish)
LiveSpec == Spec /\ Fairness

-----------------------------------------------------------------------------
(* Properties                                                              *)

(* Under the device loss, refusals and late events of the integration too, *)
(* every record keeps the promise of JobLifecycle.                         *)
FollowsLifecycle == Lifecycle!Spec

(* Terminal events still to be polled for a job.                           *)
Owed(id) == rtJob = id \/ Settled(id)

(* Between frames every live record is held by the adapter, and the        *)
(* runtime still owes a terminal event for it.                             *)
NoOrphanRecord == stage = "idle" => \A i \in LiveJobs : i \in hostActive /\ Owed(i)

(* Between frames the adapter holds only live records, and a request that  *)
(* runs for nobody has had its token cancelled.                            *)
NoRunawayWork ==
  stage = "idle" => /\ hostActive \subseteq LiveJobs
                    /\ rtJob \notin hostActive \cup {0} => rtCancelled \/ ~ Executing

(* Nothing is dispatched to a runtime that is not there (boogu.rs:1059).   *)
DispatchFindsRuntime ==
  stage = "submit" /\ dispatched # <<>> => hostPhase = "ready" /\ backend = "ready"

(* While the runtime executes on the shared queue no primary-window camera *)
(* reaches render extraction active, whatever cameras have been created.   *)
SurfaceQuiet ==
  stage = "extract" /\ GateEnabled /\ rtJob # 0 /\ window # NoWindow
    => \A c \in present : ~ lit[c]

(* Whenever the gate is open every camera is as the application left it.   *)
RestoredExactly ==
  stage = "extract" /\ gateJobs = {} => \A c \in present : lit[c] = wanted[c]

(* A closed gate has exactly one job, whose terminal event will open it.   *)
GateHasOwner ==
  stage = "idle" /\ gateJobs # {} => \E i \in gateJobs : gateJobs = {i} /\ Owed(i)

(* Every job settles and the page always comes back.                       *)
EveryJobSettles == \A i \in JobIds : phase[i] \in Live ~> phase[i] \notin Live
GateReopens == gateJobs # {} ~> gateJobs = {}
=============================================================================
