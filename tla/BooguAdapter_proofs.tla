------------------------ MODULE BooguAdapter_proofs ------------------------
(***************************************************************************)
(* Proofs about the Boogu adapter for any number of jobs, cameras and      *)
(* windows, any queue bounds and retention, and both kinds of runtime.     *)
(***************************************************************************)
EXTENDS BooguAdapter, ImageJobs_proofs

(* The table's queues are empty outside the stages between their writers   *)
(* and their readers.                                                      *)
Reporting == {"poll", "progress", "completions"}

QueuesDrained ==
  /\ stage \notin {"idle", "prune", "submissions"} => submitted = <<>>
  /\ stage \notin {"submissions", "cancellations", "dispatch", "submit"} => dispatched = <<>>
  /\ stage \notin {"dispatch", "submit", "cancel"} => routed = {}
  /\ stage \notin {"submit", "cancel", "failures"} \cup Reporting => failed = {}
  /\ stage \notin {"failures", "display", "extract"} \cup Reporting => completed = <<>>

(* An id is dispatched once, for a record that is live or was cancelled in *)
(* this frame, and only to a runtime that is there.                        *)
DispatchSound ==
  /\ OncePerJob(dispatched)
  /\ Ids(dispatched) \subseteq (LiveJobs \cup routed) \ failed
  /\ routed \cap LiveJobs = {}
  /\ dispatched # <<>> => backend = "ready" /\ hostPhase = "ready"

TableInv == QueuesDrained /\ DispatchSound

(* The scene: a camera's state is the application's, or it is saved.       *)
SceneKept ==
  /\ gateJobs = {} => \A c \in present : lit[c] = wanted[c]
  /\ gateJobs # {} =>
       \A c \in present : IF c \in DOMAIN saved THEN saved[c] = wanted[c] ELSE lit[c] = wanted[c]

Dark ==
  stage = "extract" /\ gateJobs # {} /\ window # NoWindow => \A c \in present : ~ lit[c]

SceneInv == SceneKept /\ Dark

(* An id that is used again finds nothing of its earlier life in a runtime *)
(* that frees its slot late, or behind a gate.                             *)
LatestOnly == EagerSlot /\ Replays => GateEnabled

Used == {rtJob} \cup Ids(rtEvents)

(* The runtime's events: those of one request at a time, its terminal one  *)
(* last, unless the slot is freed early and no gate waits for the answer;  *)
(* then the ids that are still to be submitted are new.                    *)
EventOrder ==
  /\ ~ EagerSlot => \A k \in DOMAIN rtEvents : rtEvents[k].id = rtJob
  /\ GateEnabled => Ids(rtEvents) \subseteq gateJobs
  /\ ~ EagerSlot \/ GateEnabled =>
       \A k \in DOMAIN rtEvents : rtEvents[k].kind # "progress" => k = Len(rtEvents)
  /\ EagerSlot =>
       \A k \in DOMAIN rtEvents : rtEvents[k].kind # "progress" => rtEvents[k].id # rtJob
  /\ EagerSlot /\ ~ GateEnabled =>
       /\ \A i \in Used : i <= nextId
       /\ \A i \in Ids(submitted) \cup Ids(dispatched) : i <= nextId /\ i \notin Used

(* A cancelled request is nobody's, and a request that is nobody's has     *)
(* been cancelled.                                                         *)
TokenSound ==
  /\ rtCancelled => rtJob \notin hostActive
  /\ \A k \in DOMAIN rtEvents : rtEvents[k].kind = "cancelled" => rtEvents[k].id \notin hostActive
  /\ rtJob \notin hostActive \cup {0} => rtCancelled \/ ~ Executing

(* A live record is held by the adapter or has a message under way; what   *)
(* the adapter holds is wanted and owed an answer.                         *)
LiveHeld ==
  \A i \in LiveJobs :
    \/ i \in hostActive \cup Ids(dispatched) \cup failed
    \/ stage \in Reporting /\ i \in Ids(completed)

ActiveWanted ==
  \A i \in hostActive :
    /\ Owed(i)
    /\ i \in LiveJobs \cup routed
    /\ i \notin Ids(dispatched) \cup failed \cup Ids(completed)

(* The gate is closed for one request, the one the runtime executes.       *)
GateOwned ==
  /\ gateJobs # {} => \E i \in gateJobs : gateJobs = {i} /\ Owed(i)
  /\ GateEnabled /\ rtJob # 0 => gateJobs = {rtJob}

WorkInv == EventOrder /\ TokenSound /\ LiveHeld /\ ActiveWanted /\ GateOwned

IInv == TypeOK /\ TableInv /\ SceneInv /\ (LatestOnly => WorkInv)

-----------------------------------------------------------------------------
(* Type correctness                                                        *)

LEMMA IdsTyped == JobIds \subseteq Nat \ {0} /\ RuntimeIds = JobIds /\ 0 \notin JobIds
BY JobsAssumption, AdapterAssumption DEF JobIds

LEMMA AllStages ==
  /\ {"idle", "prune", "submissions", "cancellations", "dispatch", "submit", "cancel"} \subseteq Stages
  /\ {"poll", "progress", "completions", "failures", "display", "extract"} \subseteq Stages
BY DEF Stages

LEMMA NothingSaved == DOMAIN Unsaved = {}
BY DEF Unsaved

LEMMA CapturedTyped ==
  ASSUME GateTypeOK
  PROVE  /\ DOMAIN Captured \subseteq Cameras
         /\ \A c \in DOMAIN Captured : Captured[c] \in BOOLEAN
BY DEF GateTypeOK, Captured

LEMMA ResumeTyped ==
  ASSUME GateTypeOK, gateJobs \in SUBSET JobIds, NEW id, Resume(id), UNCHANGED sceneVars
  PROVE  GateTypeOK' /\ gateJobs' \in SUBSET JobIds
<1> USE DEF GateTypeOK, sceneVars
<1>1. CASE id \notin gateJobs
  BY <1>1 DEF Resume, gateVars
<1>2. CASE id \in gateJobs /\ gateJobs # {id}
  BY <1>2 DEF Resume
<1>3. CASE id \in gateJobs /\ gateJobs = {id}
  <2>1. \A c \in DOMAIN AtResume : AtResume[c] \in BOOLEAN
    BY CapturedTyped DEF AtResume
  <2>2. /\ lit' = [c \in Cameras |-> IF c \in present \cap DOMAIN AtResume
                                    THEN AtResume[c] ELSE lit[c]]
        /\ gateJobs' = {} /\ saved' = Unsaved /\ gateWindow' = NoWindow /\ violation' = FALSE
    BY <1>3 DEF Resume
  <2>3. lit' \in [Cameras -> BOOLEAN]
    BY <2>1, <2>2
  <2> HIDE DEF GateTypeOK
  <2>4. GateTypeOK'
    BY <2>2, <2>3, NothingSaved DEF GateTypeOK
  <2> QED
    BY <2>2, <2>4
<1> QED
  BY <1>1, <1>2, <1>3

LEMMA SuspendTyped ==
  ASSUME GateTypeOK, gateJobs \in SUBSET JobIds, NEW id \in JobIds, Suspend(id), UNCHANGED sceneVars
  PROVE  GateTypeOK' /\ gateJobs' \in SUBSET JobIds
BY DEF GateTypeOK, sceneVars, Suspend, gateVars

LEMMA EnforceTyped ==
  ASSUME GateTypeOK, gateJobs \in SUBSET JobIds, Enforce, UNCHANGED sceneVars
  PROVE  GateTypeOK' /\ gateJobs' \in SUBSET JobIds
<1> USE DEF GateTypeOK, sceneVars
<1>1. CASE gateJobs = {} \/ window = NoWindow
  BY <1>1 DEF Enforce, gateVars
<1>2. CASE gateJobs # {} /\ window # NoWindow
  BY <1>2, CapturedTyped DEF Enforce
<1> QED
  BY <1>1, <1>2

LEMMA SceneTyped ==
  ASSUME GateTypeOK, SceneStep
  PROVE  GateTypeOK' /\ UNCHANGED gateVars
<1>0. MaxSceneChanges \in Nat
  BY SceneAssumption DEF SceneAssumption
<1> USE <1>0 DEF GateTypeOK, gateVars, Changed
<1>1. CASE \E c \in Cameras, on \in BOOLEAN : SpawnCamera(c, on)
  BY <1>1 DEF SpawnCamera
<1>2. CASE \E c \in Cameras : DespawnCamera(c)
  BY <1>2 DEF DespawnCamera
<1>3. CASE \E w \in Windows \cup {NoWindow} : ChangeWindow(w)
  BY <1>3 DEF ChangeWindow
<1> QED
  BY <1>1, <1>2, <1>3 DEF SceneStep

(* The runtime's steps, its events and what is owed.                       *)
LEMMA EventsAfterReport ==
  ASSUME RuntimeTypeOK, rtJob # 0, NEW kind \in EventKinds, Report(kind)
  PROVE  /\ rtEvents' \in Seq(Events) /\ Ids(rtEvents') = Ids(rtEvents) \cup {rtJob}
         /\ DOMAIN rtEvents' = DOMAIN rtEvents \cup {Len(rtEvents) + 1}
         /\ Len(rtEvents') = Len(rtEvents) + 1
         /\ DOMAIN rtEvents = 1 .. Len(rtEvents) /\ Len(rtEvents) \in Nat
         /\ rtEvents'[Len(rtEvents) + 1].id = rtJob
         /\ rtEvents'[Len(rtEvents) + 1].kind = kind
         /\ \A k \in DOMAIN rtEvents : rtEvents'[k] = rtEvents[k]
<1> DEFINE e == [kind |-> kind, id |-> rtJob]
<1>1. e \in Events /\ e.id = rtJob /\ e.kind = kind
  BY DEF Events, RuntimeTypeOK
<1>2. rtEvents \in Seq(Events) /\ rtEvents' = Append(rtEvents, e)
  BY DEF Report, RuntimeTypeOK
<1> HIDE DEF e
<1>3. Ids(rtEvents') = Ids(rtEvents) \cup {e.id}
  BY <1>1, <1>2, IdsAppend
<1>4. /\ Len(rtEvents) \in Nat /\ DOMAIN rtEvents = 1 .. Len(rtEvents)
      /\ rtEvents' \in Seq(Events) /\ Len(rtEvents') = Len(rtEvents) + 1
      /\ DOMAIN rtEvents' = 1 .. (Len(rtEvents) + 1)
      /\ rtEvents'[Len(rtEvents) + 1] = e
      /\ \A k \in 1 .. Len(rtEvents) : rtEvents'[k] = rtEvents[k]
  BY <1>1, <1>2
<1> QED
  BY <1>1, <1>3, <1>4

LEMMA SettledAfterReport ==
  ASSUME RuntimeTypeOK, rtJob # 0, NEW kind \in EventKinds, Report(kind)
  PROVE  \A i : Settled(i)' <=> Settled(i) \/ (i = rtJob /\ kind # "progress")
BY EventsAfterReport DEF Settled

LEMMA EventsAfterTake ==
  ASSUME RuntimeTypeOK, TakeEvent
  PROVE  /\ Head(rtEvents) \in Events /\ rtEvents' \in Seq(Events)
         /\ Ids(rtEvents) = Ids(rtEvents') \cup {Head(rtEvents).id}
         /\ Len(rtEvents) \in Nat \ {0} /\ DOMAIN rtEvents = 1 .. Len(rtEvents)
         /\ Len(rtEvents') = Len(rtEvents) - 1
         /\ DOMAIN rtEvents' = 1 .. (Len(rtEvents) - 1)
         /\ Head(rtEvents) = rtEvents[1]
         /\ \A k \in DOMAIN rtEvents' : rtEvents'[k] = rtEvents[k + 1]
<1>1. rtEvents \in Seq(Events) /\ rtEvents # <<>> /\ rtEvents' = Tail(rtEvents)
  BY DEF TakeEvent, RuntimeTypeOK
<1>2. Ids(rtEvents) = Ids(rtEvents') \cup {Head(rtEvents).id}
  BY <1>1, IdsTail
<1> QED
  BY <1>1, <1>2

LEMMA SettledAfterTake ==
  ASSUME RuntimeTypeOK, TakeEvent, NEW i
  PROVE  /\ Settled(i)' => Settled(i)
         /\ i = Head(rtEvents).id /\ Head(rtEvents).kind # "progress" => Settled(i)
         /\ Settled(i) => Settled(i)' \/ (i = Head(rtEvents).id /\ Head(rtEvents).kind # "progress")
<1>1. ASSUME Settled(i), ~ (i = Head(rtEvents).id /\ Head(rtEvents).kind # "progress")
      PROVE  Settled(i)'
  <2> PICK k \in DOMAIN rtEvents : rtEvents[k].id = i /\ rtEvents[k].kind # "progress"
    BY <1>1 DEF Settled
  <2>1. k - 1 \in DOMAIN rtEvents' /\ rtEvents'[k - 1] = rtEvents[k]
    BY <1>1, EventsAfterTake
  <2> QED
    BY <2>1 DEF Settled
<1>2. ASSUME Settled(i)' PROVE Settled(i)
  <2> PICK k \in DOMAIN rtEvents' : rtEvents'[k].id = i /\ rtEvents'[k].kind # "progress"
    BY <1>2 DEF Settled
  <2>1. k + 1 \in DOMAIN rtEvents /\ rtEvents'[k] = rtEvents[k + 1]
    BY EventsAfterTake
  <2> QED
    BY <2>1 DEF Settled
<1>3. ASSUME i = Head(rtEvents).id /\ Head(rtEvents).kind # "progress" PROVE Settled(i)
  BY <1>3, EventsAfterTake DEF Settled
<1> QED
  BY <1>1, <1>2, <1>3

LEMMA RuntimeStepTyped ==
  ASSUME RuntimeTypeOK,
         Progress \/ Finish \/ TakeEvent \/ DropRuntime
           \/ (\E id \in JobIds : Accept(id)) \/ CancelAny(routed)
  PROVE  RuntimeTypeOK'
<1>0. rtJob \in JobIds \cup {0} /\ RuntimeIds = JobIds
  BY IdsTyped DEF RuntimeTypeOK
<1>1. ASSUME Executing, NEW kind \in EventKinds, Report(kind)
      PROVE  rtEvents' \in Seq(Events) /\ rtDropped' = rtDropped
  BY <1>1, EventsAfterReport DEF Executing, Report
<1>2. CASE Progress
  BY <1>1, <1>2 DEF Progress, EventKinds, RuntimeTypeOK
<1>3. CASE Finish
  BY <1>1, <1>3 DEF Finish, FreeSlot, EventKinds, RuntimeTypeOK
<1>4. CASE TakeEvent
  <2>1. rtEvents' \in Seq(Events)
    BY <1>4, EventsAfterTake
  <2> QED
    BY <1>4, <2>1 DEF TakeEvent, FreeSlot, RuntimeTypeOK
<1>5. CASE DropRuntime
  <2>1. <<>> \in Seq(Events)
    OBVIOUS
  <2> QED
    BY <1>5, <2>1 DEF DropRuntime, RuntimeTypeOK
<1>6. CASE \E id \in JobIds : Accept(id)
  BY <1>0, <1>6 DEF Accept, RuntimeTypeOK
<1>7. CASE CancelAny(routed)
  BY <1>7 DEF CancelAny, RuntimeTypeOK
<1> QED
  BY <1>2, <1>3, <1>4, <1>5, <1>6, <1>7

(* What the adapter's part of TypeOK says of its own variables.            *)
HostTypeOK ==
  /\ stage \in Stages
  /\ device \in BOOLEAN
  /\ backend \in {"ready", "failed"}
  /\ hostPhase \in {"waiting", "building", "ready", "failed"}
  /\ hostActive \in SUBSET JobIds
  /\ polled \in 0 .. PollLimit

LEMMA TypeParts ==
  TypeOK <=> JobTypeOK /\ GateTypeOK /\ RuntimeTypeOK /\ gateJobs \in SUBSET JobIds /\ HostTypeOK
BY DEF TypeOK, HostTypeOK

LEMMA JobsSame ==
  ASSUME JobTypeOK,
         UNCHANGED <<nextId, phase, inputQueues, dispatchQueues, rejected, feedbackQueues>>
  PROVE  JobTypeOK'
BY DEF JobTypeOK, inputQueues, dispatchQueues, feedbackQueues

LEMMA GateSame ==
  ASSUME GateTypeOK, gateJobs \in SUBSET JobIds, UNCHANGED surfaceVars
  PROVE  GateTypeOK' /\ gateJobs' \in SUBSET JobIds
BY DEF GateTypeOK, surfaceVars, gateVars, sceneVars

LEMMA RuntimeSame ==
  ASSUME RuntimeTypeOK, UNCHANGED rtVars
  PROVE  RuntimeTypeOK'
BY DEF RuntimeTypeOK, rtVars

LEMMA TypeInit == Init => TypeOK
<1> SUFFICES ASSUME Init PROVE TypeOK
  OBVIOUS
<1>1. JobTypeOK
  <2>1. <<>> \in Seq(Submissions) /\ <<>> \in Seq(JobIds) /\ <<>> \in Seq(Outputs)
    OBVIOUS
  <2> QED
    BY <2>1, JobsAssumption DEF Init, JobInit, JobTypeOK, Phases
<1>2. GateTypeOK /\ gateJobs \in SUBSET JobIds
  <2>1. saved = Unsaved /\ wanted = lit /\ sceneChanges = 0 /\ window \in Windows
    BY DEF Init, GateInit
  <2>2. MaxSceneChanges \in Nat
    BY SceneAssumption DEF SceneAssumption
  <2>3. DOMAIN saved = {}
    BY <2>1, NothingSaved
  <2>4. /\ gateJobs = {} /\ gateWindow = NoWindow /\ violation = FALSE
        /\ present \in SUBSET Cameras /\ lit \in [Cameras -> BOOLEAN]
    BY DEF Init, GateInit
  <2>5. DOMAIN saved \subseteq Cameras /\ \A c \in DOMAIN saved : saved[c] \in BOOLEAN
    BY <2>3
  <2>6. sceneChanges \in 0 .. MaxSceneChanges /\ wanted \in [Cameras -> BOOLEAN]
    BY <2>1, <2>2, <2>4
  <2>7. gateWindow \in Windows \cup {NoWindow} /\ window \in Windows \cup {NoWindow}
    BY <2>1, <2>4
  <2>8. GateTypeOK
    BY <2>4, <2>5, <2>6, <2>7 DEF GateTypeOK
  <2> QED
    BY <2>4, <2>8
<1>3. RuntimeTypeOK
  <2>1. <<>> \in Seq(Events)
    OBVIOUS
  <2> QED
    BY <2>1 DEF Init, RuntimeInit, RuntimeTypeOK
<1>4. HostTypeOK
  BY AdapterAssumption DEF Init, JobInit, HostTypeOK, Stages, AdapterAssumption
<1> QED
  BY <1>1, <1>2, <1>3, <1>4, TypeParts

(* The steps outside the frame's systems.                                  *)
LEMMA TypeOutside ==
  ASSUME TypeOK, HostStep \/ SceneChange \/ DeviceLost \/ WorkerProgress \/ WorkerFinish
  PROVE  JobTypeOK' /\ GateTypeOK' /\ RuntimeTypeOK' /\ gateJobs' \in SUBSET JobIds /\ HostTypeOK'
<1>t. JobTypeOK /\ GateTypeOK /\ RuntimeTypeOK /\ gateJobs \in SUBSET JobIds /\ HostTypeOK
  BY TypeParts
<1> USE DEF hostVars, HostTypeOK
<1>1. CASE HostStep
  BY <1>t, <1>1, HostTyped, GateSame, RuntimeSame DEF HostStep
<1>2. CASE SceneChange
  BY <1>t, <1>2, SceneTyped, JobsSame, RuntimeSame DEF SceneChange, gateVars, jobVars
<1>3. CASE DeviceLost
  BY <1>t, <1>3, GateSame, JobsSame, RuntimeSame DEF DeviceLost, jobVars
<1>4. CASE WorkerProgress
  BY <1>t, <1>4, GateSame, JobsSame, RuntimeStepTyped DEF WorkerProgress, jobVars
<1>5. CASE WorkerFinish
  BY <1>t, <1>5, GateSame, JobsSame, RuntimeStepTyped DEF WorkerFinish, jobVars
<1> QED
  BY <1>1, <1>2, <1>3, <1>4, <1>5

LEMMA TypeFrame ==
  ASSUME TypeOK, FrameStep \/ UNCHANGED vars
  PROVE  JobTypeOK' /\ GateTypeOK' /\ RuntimeTypeOK' /\ gateJobs' \in SUBSET JobIds /\ HostTypeOK'
<1>t. JobTypeOK /\ GateTypeOK /\ RuntimeTypeOK /\ gateJobs \in SUBSET JobIds /\ HostTypeOK
  BY TypeParts
<1>n. PollLimit \in Nat \ {0}
  BY AdapterAssumption DEF AdapterAssumption
<1> USE DEF hostVars, HostTypeOK, Proceed
<1>1. CASE PreUpdate
  BY <1>t, <1>1, AllStages, GateSame, JobsSame, RuntimeSame DEF PreUpdate, InitializeRuntime
<1>2. CASE TableStep
  <2>1. GateTypeOK' /\ RuntimeTypeOK' /\ gateJobs' \in SUBSET JobIds
    BY <1>t, <1>2, GateSame, RuntimeSame DEF TableStep
  <2>2. PICK available \in BOOLEAN : AcceptInput(available) \/ ApplyFeedback
    BY <1>2 DEF TableStep
  <2>3. JobTypeOK' /\ stage' \in Stages
    BY <1>t, <2>2, InputTyped, FeedbackTyped, AllStages
  <2> QED
    BY <1>t, <1>2, <2>1, <2>3 DEF TableStep
<1>3. CASE StopOnBackendLoss
  <2>1. CASE backend = "ready" \/ hostPhase # "ready"
    BY <1>t, <1>3, <2>1, AllStages, GateSame, RuntimeSame
       DEF StopOnBackendLoss, JobTypeOK, inputQueues, dispatchQueues
  <2>2. CASE ~ (backend = "ready" \/ hostPhase # "ready")
    <3>1. RuntimeTypeOK' /\ UNCHANGED sceneVars
      BY <1>t, <1>3, <2>2, RuntimeStepTyped DEF StopOnBackendLoss
    <3>2. GateTypeOK' /\ gateJobs' \in SUBSET JobIds
      <4>1. CASE gateJobs = {} /\ UNCHANGED <<gateVars, lit>>
        BY <1>t, <3>1, <4>1, GateSame DEF surfaceVars
      <4>2. CASE \E id \in gateJobs : Resume(id)
        BY <1>t, <3>1, <4>2, ResumeTyped
      <4> QED
        BY <1>3, <2>2, <4>1, <4>2 DEF StopOnBackendLoss
    <3>3. JobTypeOK' /\ HostTypeOK'
      BY <1>t, <1>3, <2>2, AllStages DEF StopOnBackendLoss, JobTypeOK, inputQueues, dispatchQueues
    <3> QED
      BY <3>1, <3>2, <3>3
  <2> QED
    BY <2>1, <2>2
<1>h. ASSUME NextDispatch
      PROVE  Head(dispatched).id \in JobIds /\ dispatched' \in Seq(Submissions)
  BY <1>t, <1>h, HeadIsJob DEF NextDispatch, JobTypeOK
<1>4. CASE RefuseDispatch
  <2>1. JobTypeOK'
    BY <1>t, <1>h, <1>4 DEF RefuseDispatch, JobTypeOK, inputQueues
  <2> QED
    BY <1>t, <1>4, <2>1, GateSame, RuntimeSame DEF RefuseDispatch
<1>5. CASE SubmitToRuntime
  <2>1. JobTypeOK'
    BY <1>t, <1>h, <1>5 DEF SubmitToRuntime, JobTypeOK, inputQueues, feedbackQueues
  <2>2. RuntimeTypeOK'
    BY <1>t, <1>h, <1>5, RuntimeStepTyped DEF SubmitToRuntime
  <2>3. GateTypeOK' /\ gateJobs' \in SUBSET JobIds
    BY <1>t, <1>h, <1>5, SuspendTyped DEF SubmitToRuntime
  <2> QED
    BY <1>t, <1>h, <1>5, <2>1, <2>2, <2>3 DEF SubmitToRuntime
<1>6. CASE SubmitDone
  BY <1>t, <1>6, AllStages, GateSame, JobsSame, RuntimeSame DEF SubmitDone
<1>7. CASE CancelRouted
  <2>1. JobTypeOK'
    BY <1>t, <1>7 DEF CancelRouted, JobTypeOK, inputQueues, feedbackQueues
  <2>2. RuntimeTypeOK'
    BY <1>t, <1>7, RuntimeStepTyped DEF CancelRouted
  <2> QED
    BY <1>t, <1>7, <2>1, <2>2, AllStages, GateSame DEF CancelRouted
<1>8. CASE PollEvent
  <2> DEFINE e == Head(rtEvents)
  <2>1. TakeEvent /\ RuntimeTypeOK'
    BY <1>t, <1>8, RuntimeStepTyped DEF PollEvent
  <2>2. e.id \in JobIds
    BY <1>t, <2>1, EventsAfterTake, IdsTyped DEF Events
  <2> HIDE DEF e
  <2>3. /\ \/ HandleProgress(e.id) \/ HandleCompleted(e.id)
           \/ HandleFailed(e.id) \/ HandleCancelled(e.id)
        /\ hostActive' \subseteq hostActive /\ polled' = polled + 1 /\ polled < PollLimit
        /\ UNCHANGED <<stage, nextId, phase, inputQueues, dispatchQueues, rejected,
                       device, backend, hostPhase>>
    BY <1>8 DEF PollEvent, e
  <2>4. GateTypeOK' /\ gateJobs' \in SUBSET JobIds
    <3>1. CASE HandleProgress(e.id)
      BY <1>t, <3>1, GateSame DEF HandleProgress
    <3>2. CASE Resume(e.id) /\ UNCHANGED sceneVars
      BY <1>t, <3>2, ResumeTyped
    <3> QED
      BY <2>3, <3>1, <3>2 DEF HandleCompleted, HandleFailed, HandleCancelled, ResumeFor
  <2>5. failed' \in SUBSET JobIds /\ progress' \in SUBSET JobIds
    BY <1>t, <2>2, <2>3
       DEF HandleProgress, HandleCompleted, HandleFailed, HandleCancelled, feedbackQueues, JobTypeOK
  <2>6. completed' \in Seq(Outputs)
    <3>1. \/ completed' = completed
          \/ \E valid \in BOOLEAN : completed' = Append(completed, [id |-> e.id, valid |-> valid])
      BY <2>3 DEF HandleProgress, HandleCompleted, HandleFailed, HandleCancelled, feedbackQueues
    <3>2. \A valid \in BOOLEAN : [id |-> e.id, valid |-> valid] \in Outputs
      BY <2>2 DEF Outputs
    <3>3. \A o \in Outputs : Append(completed, o) \in Seq(Outputs)
      BY <1>t DEF JobTypeOK
    <3> QED
      BY <1>t, <3>1, <3>2, <3>3 DEF JobTypeOK
  <2>7. JobTypeOK'
    BY <1>t, <2>3, <2>5, <2>6 DEF JobTypeOK, inputQueues, dispatchQueues
  <2>8. HostTypeOK'
    BY <1>t, <1>n, <2>3
  <2> QED
    BY <2>1, <2>4, <2>7, <2>8
<1>9. CASE PollDone
  BY <1>t, <1>n, <1>9, AllStages, GateSame, JobsSame, RuntimeSame DEF PollDone
<1>10. CASE EnforceGate
  BY <1>t, <1>10, AllStages, EnforceTyped, JobsSame, RuntimeSame DEF EnforceGate
<1>11. CASE EndFrame
  <2>1. JobTypeOK'
    BY <1>t, <1>11 DEF EndFrame, JobTypeOK, inputQueues, dispatchQueues
  <2> QED
    BY <1>t, <1>11, <2>1, AllStages, GateSame, RuntimeSame DEF EndFrame
<1>12. CASE UNCHANGED vars
  BY <1>t, <1>12, GateSame, JobsSame, RuntimeSame DEF vars, jobVars
<1> QED
  BY <1>1, <1>2, <1>3, <1>4, <1>5, <1>6, <1>7, <1>8, <1>9, <1>10, <1>11, <1>12 DEF FrameStep

LEMMA TypeStep == TypeOK /\ [Next]_vars => TypeOK'
<1>1. TypeOK /\ [Next]_vars =>
        JobTypeOK' /\ GateTypeOK' /\ RuntimeTypeOK' /\ gateJobs' \in SUBSET JobIds /\ HostTypeOK'
  BY TypeOutside, TypeFrame DEF Next
<1> QED
  BY <1>1 DEF TypeOK, HostTypeOK

(* Every state the adapter reaches is well typed, whatever hosts, scene,   *)
(* device and runtime do: the gate saves states of cameras only, events    *)
(* are about requests, and a poll takes at most PollLimit of them.         *)
THEOREM TypeCorrect == Spec => []TypeOK
BY TypeInit, TypeStep, PTL DEF Spec

-----------------------------------------------------------------------------
(* The table's queues                                                      *)

LEMMA TableCalm ==
  ASSUME TableInv, QueuesDrained', LiveJobs' = LiveJobs,
         UNCHANGED <<dispatched, routed, failed>>,
         dispatched # <<>> => UNCHANGED <<backend, hostPhase>>
  PROVE  TableInv'
BY DEF TableInv, DispatchSound, OncePerJob

LEMMA NoneDispatched == OncePerJob(<<>>) /\ Ids(<<>>) = {}
BY IdsEmpty DEF OncePerJob

LEMMA TableInit == Init => TableInv
<1> SUFFICES ASSUME Init PROVE TableInv
  OBVIOUS
<1>1. QueuesDrained
  BY DEF Init, JobInit, QueuesDrained
<1>2. DispatchSound
  BY NoneDispatched DEF Init, JobInit, DispatchSound
<1> QED
  BY <1>1, <1>2 DEF TableInv

LEMMA TableOutside ==
  ASSUME TypeOK, TableInv,
         HostStep \/ SceneChange \/ DeviceLost \/ WorkerProgress \/ WorkerFinish \/ UNCHANGED vars
  PROVE  TableInv'
<1>1. UNCHANGED <<stage, phase, dispatched, routed, failed, completed, backend, hostPhase>>
  BY DEF HostStep, Submit, Resubmit, Cancel, SceneChange, DeviceLost, WorkerProgress, WorkerFinish,
         vars, jobVars, hostVars, dispatchQueues, feedbackQueues
<1>2. stage \in {"idle", "prune", "submissions"} \/ submitted' = submitted
  BY DEF HostStep, SceneChange, DeviceLost, WorkerProgress, WorkerFinish,
         vars, jobVars, inputQueues
<1>3. QueuesDrained'
  BY <1>1, <1>2 DEF TableInv, QueuesDrained
<1>4. LiveJobs' = LiveJobs
  BY <1>1 DEF LiveJobs
<1> QED
  BY <1>1, <1>3, <1>4, TableCalm

LEMMA TableInput ==
  ASSUME TypeOK, TableInv, AcceptInput(backend = "ready" /\ hostPhase = "ready"), UNCHANGED hostVars
  PROVE  TableInv'
<1> USE DEF inputQueues, dispatchQueues, feedbackQueues, hostVars, Proceed
<1>t. phase \in [JobIds -> Phases] /\ dispatched \in Seq(Submissions) /\ submitted \in Seq(Submissions)
  BY DEF TypeOK, JobTypeOK
<1>h. ASSUME NextSubmission
      PROVE  Head(submitted) \in Submissions /\ Head(submitted).id \in JobIds
  BY <1>h, <1>t, HeadIsJob DEF NextSubmission
<1>1. CASE PruneHistory
  <2>1. LiveJobs' = LiveJobs
    BY <1>1, <1>t, PrunedLive DEF PruneHistory
  <2>2. QueuesDrained'
    BY <1>1 DEF PruneHistory, TableInv, QueuesDrained, Reporting
  <2> QED
    BY <1>1, <2>1, <2>2, TableCalm DEF PruneHistory
<1>2. CASE RejectDuplicate
  <2>1. stage = "submissions" /\ UNCHANGED <<stage, phase, dispatched, routed, failed, completed>>
    BY <1>2 DEF RejectDuplicate, NextSubmission
  <2>2. QueuesDrained' /\ LiveJobs' = LiveJobs
    BY <2>1 DEF TableInv, QueuesDrained, Reporting, LiveJobs
  <2> QED
    BY <2>1, <2>2, TableCalm
<1>3. CASE RejectSubmission(backend = "ready" /\ hostPhase = "ready")
  <2>1. /\ NextSubmission /\ phase[Head(submitted).id] = "none"
        /\ phase' = Opened(Head(submitted).id, "failed")
        /\ UNCHANGED <<stage, dispatched, routed, failed, completed>>
    BY <1>3 DEF RejectSubmission
  <2>2. "failed" \in Phases /\ "failed" \notin Live
    BY DEF Phases, Live, Terminal
  <2>3. LiveJobs' = LiveJobs \cup (IF "failed" \in Live THEN {Head(submitted).id} ELSE {})
    BY <1>t, <1>h, <2>1, <2>2, OpenedLive
  <2>4. QueuesDrained'
    BY <2>1 DEF NextSubmission, TableInv, QueuesDrained, Reporting
  <2> QED
    BY <2>1, <2>2, <2>3, <2>4, TableCalm
<1>4. CASE AcceptSubmission(backend = "ready" /\ hostPhase = "ready")
  <2> DEFINE m == Head(submitted)
  <2>1. m \in Submissions /\ m.id \in JobIds /\ phase[m.id] = "none" /\ stage = "submissions"
    BY <1>4, <1>h DEF AcceptSubmission, NextSubmission
  <2>2. LiveJobs' = LiveJobs \cup {m.id} /\ m.id \notin LiveJobs
    BY <1>4, <1>t, <2>1, OpenedLive DEF AcceptSubmission, Phases, Live, LiveJobs
  <2>3. /\ dispatched' = Append(dispatched, m) /\ Ids(dispatched') = Ids(dispatched) \cup {m.id}
        /\ UNCHANGED <<stage, routed, failed, completed>>
        /\ backend = "ready" /\ hostPhase = "ready"
    BY <1>4, <1>t, <2>1, IdsAppend DEF AcceptSubmission
  <2>4. routed = {} /\ failed = {} /\ completed = <<>>
    BY <2>1 DEF TableInv, QueuesDrained, Reporting
  <2>5. m.id \notin Ids(dispatched)
    BY <2>2, <2>4 DEF TableInv, DispatchSound
  <2> HIDE DEF m
  <2>6. OncePerJob(dispatched')
    BY <1>t, <2>1, <2>3, <2>5, OnceAppend DEF TableInv, DispatchSound
  <2>7. QueuesDrained'
    BY <2>1, <2>3, <2>4 DEF QueuesDrained
  <2>8. DispatchSound'
    BY <2>2, <2>3, <2>4, <2>6 DEF TableInv, DispatchSound
  <2> QED
    BY <2>7, <2>8 DEF TableInv
<1>5. CASE SubmissionsDone
  <2>1. QueuesDrained' /\ LiveJobs' = LiveJobs
    BY <1>5 DEF SubmissionsDone, TableInv, QueuesDrained, Reporting, LiveJobs
  <2> QED
    BY <1>5, <2>1, TableCalm DEF SubmissionsDone
<1>6. CASE AcceptCancellations
  <2>1. LiveJobs' = LiveJobs \ routed' /\ routed' \subseteq LiveJobs
    BY <1>6, <1>t DEF AcceptCancellations, LiveJobs, Live
  <2>2. routed = {} /\ stage = "cancellations" /\ stage' = "dispatch"
    BY <1>6 DEF AcceptCancellations, TableInv, QueuesDrained
  <2>3. UNCHANGED <<submitted, dispatched, failed, completed>>
    BY <1>6 DEF AcceptCancellations
  <2>4. QueuesDrained'
    BY <2>2, <2>3 DEF TableInv, QueuesDrained, Reporting
  <2>5. DispatchSound'
    BY <2>1, <2>2, <2>3 DEF TableInv, DispatchSound
  <2> QED
    BY <2>4, <2>5 DEF TableInv
<1> QED
  BY <1>1, <1>2, <1>3, <1>4, <1>5, <1>6 DEF AcceptInput

(* Nothing is dispatched any more.                                         *)
LEMMA TableIdle ==
  ASSUME QueuesDrained', dispatched' = <<>>, routed' \cap LiveJobs' = {}
  PROVE  TableInv'
BY NoneDispatched DEF TableInv, DispatchSound

LEMMA TableFeedback ==
  ASSUME TypeOK, TableInv, ApplyFeedback
  PROVE  TableInv'
<1> USE DEF inputQueues, dispatchQueues, feedbackQueues, Proceed
<1>1. \/ ApplyProgress \/ ApplyCompletions
      \/ ApplyFailures /\ failed' = {}
  BY DEF ApplyFeedback, ApplyFailures
<1>2. /\ UNCHANGED <<submitted, dispatched, routed, completed>>
      /\ \/ stage = "progress" /\ stage' = "completions" /\ UNCHANGED failed
         \/ stage = "completions" /\ stage' = "failures" /\ UNCHANGED failed
         \/ stage = "failures" /\ stage' = "display" /\ failed' = {}
  BY <1>1 DEF ApplyProgress, ApplyCompletions, ApplyFailures
<1>3. QueuesDrained' /\ dispatched = <<>> /\ routed = {}
  BY <1>2 DEF TableInv, QueuesDrained, Reporting
<1> QED
  BY <1>2, <1>3, TableIdle

LEMMA TableDispatch ==
  ASSUME TypeOK, TableInv, FrameStep, ~ TableStep
  PROVE  TableInv'
<1> USE DEF inputQueues, dispatchQueues, feedbackQueues, hostVars, Proceed
<1>t. dispatched \in Seq(Submissions)
  BY DEF TypeOK, JobTypeOK
<1>1. LiveJobs' = LiveJobs
  <2>1. UNCHANGED phase
    BY DEF FrameStep, PreUpdate, StopOnBackendLoss, RefuseDispatch, SubmitToRuntime, SubmitDone,
           CancelRouted, PollEvent, PollDone, EnforceGate, EndFrame
  <2> QED
    BY <2>1 DEF LiveJobs
<1>2. CASE PreUpdate
  <2>1. stage = "idle" /\ stage' = "prune" /\ UNCHANGED <<submitted, dispatched, routed, failed, completed>>
    BY <1>2 DEF PreUpdate
  <2>2. QueuesDrained' /\ dispatched = <<>>
    BY <2>1 DEF TableInv, QueuesDrained, Reporting
  <2> QED
    BY <1>1, <2>1, <2>2, TableCalm
<1>3. CASE StopOnBackendLoss
  <2>1. /\ stage = "dispatch" /\ stage' = "submit"
        /\ UNCHANGED <<submitted, dispatched, routed, completed, backend>>
    BY <1>3 DEF StopOnBackendLoss
  <2>2. QueuesDrained'
    BY <2>1 DEF TableInv, QueuesDrained, Reporting
  <2>3. CASE UNCHANGED <<hostPhase, failed>>
    BY <1>1, <2>1, <2>2, <2>3, TableCalm
  <2>4. CASE backend # "ready"
    <3>1. dispatched = <<>> /\ routed \cap LiveJobs = {}
      BY <2>4 DEF TableInv, DispatchSound
    <3> QED
      BY <1>1, <2>1, <2>2, <3>1, TableIdle
  <2> QED
    BY <1>3, <2>3, <2>4 DEF StopOnBackendLoss
<1>4. ASSUME NextDispatch, UNCHANGED <<stage, submitted, routed, completed, backend, hostPhase>>,
             UNCHANGED failed \/ failed' = failed \cup {Head(dispatched).id}
      PROVE  TableInv'
  <2>1. /\ stage = "submit" /\ dispatched # <<>> /\ dispatched' = Tail(dispatched)
    BY <1>4 DEF NextDispatch
  <2>2. /\ OncePerJob(dispatched') /\ Head(dispatched).id \notin Ids(dispatched')
        /\ Ids(dispatched) = Ids(dispatched') \cup {Head(dispatched).id}
    BY <1>t, <2>1, OnceTail, IdsTail DEF TableInv, DispatchSound
  <2>3. QueuesDrained'
    BY <1>4, <2>1 DEF TableInv, QueuesDrained
  <2>4. DispatchSound'
    BY <1>1, <1>4, <2>1, <2>2 DEF TableInv, DispatchSound
  <2> QED
    BY <2>3, <2>4 DEF TableInv
<1>5. CASE RefuseDispatch \/ SubmitToRuntime
  BY <1>4, <1>5 DEF RefuseDispatch, SubmitToRuntime
<1>6. CASE SubmitDone
  <2>1. QueuesDrained'
    BY <1>6 DEF SubmitDone, TableInv, QueuesDrained, Reporting
  <2> QED
    BY <1>1, <1>6, <2>1, TableCalm DEF SubmitDone
<1>7. CASE CancelRouted
  <2>1. /\ stage = "cancel" /\ stage' = "poll" /\ routed' = {}
        /\ UNCHANGED <<submitted, dispatched, failed, completed>>
    BY <1>7 DEF CancelRouted
  <2>2. QueuesDrained' /\ dispatched' = <<>>
    BY <2>1 DEF TableInv, QueuesDrained, Reporting
  <2> QED
    BY <2>1, <2>2, TableIdle
<1>8. CASE PollEvent
  <2>1. stage = "poll" /\ UNCHANGED <<stage, submitted, dispatched, routed>>
    BY <1>8 DEF PollEvent
  <2>2. QueuesDrained' /\ dispatched = <<>> /\ routed = {}
    BY <2>1 DEF TableInv, QueuesDrained, Reporting
  <2> QED
    BY <2>1, <2>2, TableIdle
<1>9. CASE PollDone \/ EnforceGate
  <2>1. /\ UNCHANGED <<submitted, dispatched, routed, failed, completed, backend, hostPhase>>
        /\ \/ stage = "poll" /\ stage' = "progress"
           \/ stage = "display" /\ stage' = "extract"
    BY <1>9 DEF PollDone, EnforceGate
  <2>2. QueuesDrained'
    BY <2>1 DEF TableInv, QueuesDrained, Reporting
  <2> QED
    BY <1>1, <2>1, <2>2, TableCalm
<1>10. CASE EndFrame
  <2>1. /\ UNCHANGED <<submitted, dispatched, routed, failed, backend, hostPhase>>
        /\ stage = "extract" /\ stage' = "idle" /\ completed' = <<>>
    BY <1>10 DEF EndFrame
  <2>2. QueuesDrained'
    BY <2>1 DEF TableInv, QueuesDrained, Reporting
  <2> QED
    BY <1>1, <2>1, <2>2, TableCalm
<1> QED
  BY <1>2, <1>3, <1>5, <1>6, <1>7, <1>8, <1>9, <1>10 DEF FrameStep

LEMMA TableKeeps == TypeOK /\ TableInv /\ [Next]_vars => TableInv'
BY TableOutside, TableInput, TableFeedback, TableDispatch DEF Next, TableStep

-----------------------------------------------------------------------------
(* The scene behind the gate                                               *)

LEMMA SceneSame ==
  ASSUME SceneInv, UNCHANGED surfaceVars, stage' = "extract" => stage = "extract"
  PROVE  SceneInv'
BY DEF SceneInv, SceneKept, Dark, surfaceVars, gateVars, sceneVars

LEMMA ResumeKeeps ==
  ASSUME GateTypeOK, SceneKept, NEW id, Resume(id), UNCHANGED sceneVars
  PROVE  SceneKept'
<1>t. /\ present \subseteq Cameras /\ lit \in [Cameras -> BOOLEAN] /\ present' = present
      /\ wanted' = wanted
  BY DEF GateTypeOK, sceneVars
<1>1. CASE id \notin gateJobs
  BY <1>1, <1>t DEF Resume, gateVars, SceneKept
<1>2. CASE id \in gateJobs /\ gateJobs # {id}
  <2>1. gateJobs # {} /\ gateJobs' # {} /\ UNCHANGED <<saved, lit>>
    BY <1>2 DEF Resume
  <2> QED
    BY <1>t, <2>1 DEF SceneKept
<1>3. CASE id \in gateJobs /\ gateJobs = {id}
  <2>1. /\ gateJobs' = {}
        /\ \A c \in Cameras : lit'[c] = IF c \in present \cap DOMAIN AtResume THEN AtResume[c] ELSE lit[c]
    BY <1>3 DEF Resume
  <2>2. \A c \in present : IF c \in DOMAIN saved THEN saved[c] = wanted[c] ELSE lit[c] = wanted[c]
    BY <1>3 DEF SceneKept
  <2>3. \A c \in present : IF c \in DOMAIN AtResume THEN AtResume[c] = wanted[c] ELSE lit[c] = wanted[c]
    BY <2>2 DEF AtResume, Captured
  <2> QED
    BY <1>t, <2>1, <2>3 DEF SceneKept
<1> QED
  BY <1>1, <1>2, <1>3

LEMMA SuspendKeeps ==
  ASSUME GateTypeOK, SceneKept, ~ SuspendRefused, NEW id, Suspend(id), UNCHANGED sceneVars
  PROVE  SceneKept'
<1>t. present \subseteq Cameras /\ present' = present /\ wanted' = wanted
  BY DEF GateTypeOK, sceneVars
<1>1. CASE ~ GateEnabled
  BY <1>1, <1>t DEF Suspend, gateVars, SceneKept
<1>2. CASE GateEnabled
  <2>1. gateJobs = {}
    BY <1>2 DEF SuspendRefused
  <2>2. gateJobs' # {} /\ DOMAIN saved' = present /\ \A c \in present : saved'[c] = lit[c]
    BY <1>2 DEF Suspend
  <2> QED
    BY <1>t, <2>1, <2>2 DEF SceneKept
<1> QED
  BY <1>1, <1>2

LEMMA EnforceKeeps ==
  ASSUME GateTypeOK, SceneKept, Enforce, UNCHANGED sceneVars
  PROVE  /\ SceneKept'
         /\ gateJobs' # {} /\ window' # NoWindow => \A c \in present' : ~ lit'[c]
<1>t. /\ present \subseteq Cameras /\ present' = present /\ wanted' = wanted /\ window' = window
  BY DEF GateTypeOK, sceneVars
<1>1. CASE gateJobs = {} \/ window = NoWindow
  BY <1>1, <1>t DEF Enforce, gateVars, SceneKept
<1>2. CASE gateJobs # {} /\ window # NoWindow
  <2>1. gateJobs' = gateJobs /\ saved' = Captured /\ \A c \in present : ~ lit'[c]
    BY <1>2, <1>t DEF Enforce
  <2>2. \A c \in present : c \in DOMAIN saved' /\ saved'[c] = wanted[c]
    BY <1>2, <2>1 DEF Captured, SceneKept
  <2> QED
    BY <1>t, <1>2, <2>1, <2>2 DEF SceneKept
<1> QED
  BY <1>1, <1>2

LEMMA SceneChangeKeeps ==
  ASSUME GateTypeOK, SceneKept, SceneStep
  PROVE  SceneKept'
<1>t. /\ present \subseteq Cameras /\ lit \in [Cameras -> BOOLEAN] /\ wanted \in [Cameras -> BOOLEAN]
  BY DEF GateTypeOK
<1>1. ASSUME NEW c \in Cameras, NEW on \in BOOLEAN, SpawnCamera(c, on) PROVE SceneKept'
  <2>1. /\ UNCHANGED <<gateJobs, saved>> /\ present' = present \cup {c}
        /\ c \notin present /\ c \notin DOMAIN saved
        /\ lit'[c] = on /\ wanted'[c] = on
        /\ \A d \in Cameras \ {c} : lit'[d] = lit[d] /\ wanted'[d] = wanted[d]
    BY <1>t, <1>1 DEF SpawnCamera, gateVars
  <2> QED
    BY <1>t, <2>1 DEF SceneKept
<1>2. ASSUME NEW c \in Cameras, DespawnCamera(c) PROVE SceneKept'
  <2>1. /\ UNCHANGED <<gateJobs, saved>> /\ present' = present \ {c}
        /\ \A d \in Cameras \ {c} : lit'[d] = lit[d] /\ wanted'[d] = wanted[d]
    BY <1>t, <1>2 DEF DespawnCamera, gateVars
  <2> QED
    BY <1>t, <2>1 DEF SceneKept
<1>3. CASE \E w \in Windows \cup {NoWindow} : ChangeWindow(w)
  BY <1>3 DEF ChangeWindow, gateVars, SceneKept
<1> QED
  BY <1>1, <1>2, <1>3 DEF SceneStep

LEMMA SceneInit == Init => SceneInv
BY DEF Init, JobInit, GateInit, SceneInv, SceneKept, Dark

LEMMA SceneOutside ==
  ASSUME TypeOK, SceneInv,
         HostStep \/ SceneChange \/ DeviceLost \/ WorkerProgress \/ WorkerFinish \/ UNCHANGED vars
  PROVE  SceneInv'
<1>1. CASE SceneChange
  <2>1. GateTypeOK /\ SceneKept /\ SceneStep /\ stage' # "extract"
    BY <1>1 DEF TypeOK, SceneInv, SceneChange, jobVars
  <2> QED
    BY <2>1, SceneChangeKeeps DEF SceneInv, Dark
<1>2. CASE HostStep \/ DeviceLost \/ WorkerProgress \/ WorkerFinish \/ UNCHANGED vars
  <2>1. UNCHANGED <<stage, surfaceVars>>
    BY <1>2 DEF HostStep, DeviceLost, WorkerProgress, WorkerFinish, vars, jobVars
  <2> QED
    BY <2>1, SceneSame
<1> QED
  BY <1>1, <1>2

LEMMA SceneFrame ==
  ASSUME TypeOK, SceneInv, FrameStep
  PROVE  SceneInv'
<1> USE DEF Proceed
<1>t. GateTypeOK /\ SceneKept
  BY DEF TypeOK, SceneInv
<1>0. ASSUME SceneKept', stage' # "extract" PROVE SceneInv'
  BY <1>0 DEF SceneInv, Dark
<1>1. CASE PreUpdate \/ RefuseDispatch \/ SubmitDone \/ CancelRouted \/ PollDone \/ EndFrame
  <2>1. UNCHANGED surfaceVars /\ (stage' = "extract" => stage = "extract")
    BY <1>1 DEF PreUpdate, RefuseDispatch, SubmitDone, CancelRouted, PollDone, EndFrame
  <2> QED
    BY <2>1, SceneSame
<1>2. CASE TableStep
  <2>1. UNCHANGED surfaceVars
    BY <1>2 DEF TableStep
  <2>2. stage' = "extract" => stage = "extract"
    BY <1>2 DEF TableStep, AcceptInput, PruneHistory, RejectDuplicate, RejectSubmission, AcceptSubmission,
                SubmissionsDone, AcceptCancellations, ApplyFeedback, ApplyProgress, ApplyCompletions, ApplyFailures
  <2> QED
    BY <2>1, <2>2, SceneSame
<1>3. CASE StopOnBackendLoss
  <2>1. stage' = "submit"
    BY <1>3 DEF StopOnBackendLoss
  <2>2. \/ UNCHANGED surfaceVars
        \/ UNCHANGED <<gateVars, lit, sceneVars>>
        \/ \E id \in gateJobs : Resume(id) /\ UNCHANGED sceneVars
    BY <1>3 DEF StopOnBackendLoss
  <2>3. CASE \E id \in gateJobs : Resume(id) /\ UNCHANGED sceneVars
    BY <1>t, <1>0, <2>1, <2>3, ResumeKeeps
  <2> QED
    BY <2>1, <2>2, <2>3, SceneSame DEF surfaceVars
<1>4. CASE SubmitToRuntime
  <2>1. stage' = "submit" /\ ~ SuspendRefused /\ Suspend(Head(dispatched).id) /\ UNCHANGED sceneVars
    BY <1>4 DEF SubmitToRuntime, NextDispatch
  <2> QED
    BY <1>t, <1>0, <2>1, SuspendKeeps
<1>5. CASE PollEvent
  <2>1. stage' = "poll"
    BY <1>5 DEF PollEvent
  <2>2. UNCHANGED surfaceVars \/ (Resume(Head(rtEvents).id) /\ UNCHANGED sceneVars)
    BY <1>5 DEF PollEvent, HandleProgress, HandleCompleted, HandleFailed, HandleCancelled, ResumeFor
  <2> QED
    BY <1>t, <1>0, <2>1, <2>2, ResumeKeeps, SceneSame
<1>6. CASE EnforceGate
  <2>1. Enforce /\ UNCHANGED sceneVars
    BY <1>6 DEF EnforceGate
  <2> QED
    BY <1>t, <2>1, EnforceKeeps DEF SceneInv, Dark
<1> QED
  BY <1>1, <1>2, <1>3, <1>4, <1>5, <1>6 DEF FrameStep

LEMMA SceneKeeps == TypeOK /\ SceneInv /\ [Next]_vars => SceneInv'
BY SceneOutside, SceneFrame DEF Next

-----------------------------------------------------------------------------
(* Who works for whom                                                      *)

RuntimeInv ==
  EventOrder /\ TokenSound /\ GateOwned /\ \A i \in hostActive : Owed(i)

JobsHeld ==
  /\ LiveHeld
  /\ \A i \in hostActive : i \in LiveJobs \cup routed /\ i \notin Ids(dispatched) \cup failed \cup Ids(completed)

LEMMA WorkParts == WorkInv <=> RuntimeInv /\ JobsHeld
BY DEF WorkInv, RuntimeInv, JobsHeld, ActiveWanted

LEMMA WorkTypes ==
  ASSUME TypeOK
  PROVE  /\ nextId \in Nat /\ hostActive \subseteq JobIds /\ gateJobs \subseteq JobIds
         /\ rtJob \in JobIds \cup {0} /\ RuntimeTypeOK /\ rtEvents \in Seq(Events)
         /\ Ids(rtEvents) \subseteq JobIds
         /\ submitted \in Seq(Submissions) /\ dispatched \in Seq(Submissions)
         /\ Ids(submitted) \subseteq JobIds /\ Ids(dispatched) \subseteq JobIds
         /\ LiveJobs \subseteq JobIds
<1>1. /\ nextId \in 0 .. MaxJobs /\ hostActive \subseteq JobIds /\ gateJobs \subseteq JobIds
      /\ rtJob \in JobIds \cup {0} /\ RuntimeTypeOK /\ rtEvents \in Seq(Events)
      /\ submitted \in Seq(Submissions) /\ dispatched \in Seq(Submissions)
  BY IdsTyped DEF TypeOK, JobTypeOK, RuntimeTypeOK
<1>2. \A k \in DOMAIN rtEvents : rtEvents[k].id \in JobIds
  <2>1. \A k \in DOMAIN rtEvents : rtEvents[k] \in Events
    BY <1>1
  <2> QED
    BY <2>1, IdsTyped DEF Events
<1>3. ASSUME NEW s \in Seq(Submissions) PROVE Ids(s) \subseteq JobIds
  <2>1. \A k \in DOMAIN s : s[k] \in Submissions
    OBVIOUS
  <2> QED
    BY <2>1 DEF Submissions, Ids
<1> QED
  BY <1>1, <1>2, <1>3 DEF Ids, LiveJobs

(* A step that leaves the runtime, the gate and the adapter's jobs alone.  *)
LEMMA RuntimeStill ==
  ASSUME TypeOK, RuntimeInv, UNCHANGED <<rtVars, hostActive, gateJobs>>,
         nextId' \in Nat, nextId <= nextId',
         EagerSlot /\ ~ GateEnabled =>
           \A i \in Ids(submitted') \cup Ids(dispatched') : i <= nextId' /\ i \notin Used
  PROVE  RuntimeInv'
<1>1. UNCHANGED <<rtJob, rtCancelled, rtEvents, hostActive, gateJobs>>
  BY DEF rtVars
<1>2. Used' = Used /\ Executing' = Executing /\ \A i : Owed(i)' = Owed(i)
  BY <1>1 DEF Used, Executing, Owed, Settled
<1>3. EventOrder'
  <2>1. EagerSlot /\ ~ GateEnabled => \A i \in Used : i <= nextId'
    <3> SUFFICES ASSUME EagerSlot, ~ GateEnabled, NEW i \in Used PROVE i <= nextId'
      OBVIOUS
    <3>1. i \in Nat /\ nextId \in Nat
      <4>1. i = rtJob \/ i \in Ids(rtEvents)
        BY DEF Used
      <4>2. i \in JobIds \cup {0} /\ nextId \in Nat
        BY <4>1, WorkTypes
      <4> QED
        BY <4>2, IdsTyped
    <3>2. i <= nextId
      BY DEF RuntimeInv, EventOrder
    <3> QED
      BY <3>1, <3>2
  <2> QED
    BY <1>1, <1>2, <2>1 DEF RuntimeInv, EventOrder
<1>4. TokenSound' /\ GateOwned'
  BY <1>1, <1>2 DEF RuntimeInv, TokenSound, GateOwned
<1> QED
  BY <1>1, <1>2, <1>3, <1>4 DEF RuntimeInv

LEMMA RuntimeSteady ==
  ASSUME TypeOK, RuntimeInv, UNCHANGED <<rtVars, hostActive, gateJobs, nextId>>,
         Ids(submitted') \cup Ids(dispatched') \subseteq Ids(submitted) \cup Ids(dispatched)
  PROVE  RuntimeInv'
<1>1. EagerSlot /\ ~ GateEnabled =>
        \A i \in Ids(submitted') \cup Ids(dispatched') : i <= nextId' /\ i \notin Used
  BY DEF RuntimeInv, EventOrder
<1> QED
  BY <1>1, RuntimeStill, WorkTypes

(* A step that moves no job between table, queues and adapter.             *)
LEMMA JobsCalm ==
  ASSUME JobsHeld, LiveJobs' = LiveJobs, UNCHANGED <<dispatched, routed, failed, hostActive>>,
         \/ completed' = completed /\ (stage \in Reporting => stage' \in Reporting)
         \/ stage \notin Reporting /\ completed' = <<>>
  PROVE  JobsHeld'
BY IdsEmpty DEF JobsHeld, LiveHeld

LEMMA WorkCalm ==
  ASSUME TypeOK, WorkInv, LiveJobs' = LiveJobs,
         UNCHANGED <<rtVars, hostActive, gateJobs, nextId, dispatched, routed, failed>>,
         Ids(submitted') \subseteq Ids(submitted),
         \/ completed' = completed /\ (stage \in Reporting => stage' \in Reporting)
         \/ stage \notin Reporting /\ completed' = <<>>
  PROVE  WorkInv'
<1>1. RuntimeInv /\ JobsHeld
  BY WorkParts
<1>2. RuntimeInv' /\ JobsHeld'
  BY <1>1, RuntimeSteady, JobsCalm
<1> QED
  BY <1>2 DEF WorkInv, RuntimeInv, JobsHeld, ActiveWanted

(* Steps of hosts, scene and device.                                       *)
LEMMA WorkHosts ==
  ASSUME TypeOK, WorkInv, LatestOnly, HostStep \/ SceneChange \/ DeviceLost \/ UNCHANGED vars
  PROVE  WorkInv'
<1>1. /\ UNCHANGED <<stage, rtVars, hostActive, gateJobs, phase, dispatched, routed, failed, completed>>
  BY DEF HostStep, Submit, Resubmit, Cancel, SceneChange, SceneStep, SpawnCamera, DespawnCamera, ChangeWindow,
         DeviceLost, vars, jobVars, dispatchQueues, feedbackQueues, hostVars, surfaceVars, gateVars
<1>2. LiveJobs' = LiveJobs
  BY <1>1 DEF LiveJobs
<1>3. RuntimeInv /\ JobsHeld
  BY WorkParts
<1>4. JobsHeld'
  BY <1>1, <1>2, <1>3, JobsCalm
<1>5. CASE UNCHANGED <<nextId, submitted>>
  BY <1>1, <1>2, <1>5, WorkCalm
<1>6. CASE \E i \in JobIds, r \in Requests : Replays /\ Resubmit(i, r)
  <2>1. ~ (EagerSlot /\ ~ GateEnabled) /\ nextId' = nextId
    BY <1>6 DEF LatestOnly, Resubmit
  <2>2. RuntimeInv'
    BY <1>1, <1>3, <2>1, RuntimeStill, WorkTypes
  <2> QED
    BY <1>4, <2>2 DEF WorkInv, RuntimeInv, JobsHeld, ActiveWanted
<1>7. CASE \E r \in Requests : Submit(r)
  <2> PICK r \in Requests : Submit(r)
    BY <1>7
  <2>1. /\ nextId' = nextId + 1 /\ nextId \in 0 .. MaxJobs /\ nextId < MaxJobs
        /\ submitted' = Append(submitted, [id |-> nextId', request |-> r])
    BY DEF Submit, ReserveId, TypeOK, JobTypeOK
  <2>2. [id |-> nextId', request |-> r] \in Submissions
    BY <2>1, JobsAssumption DEF Submissions, JobIds
  <2> DEFINE m == [id |-> nextId', request |-> r]
  <2>3. m.id = nextId' /\ m \in Submissions
    BY <2>2
  <2> HIDE DEF m
  <2>4. Ids(submitted') = Ids(submitted) \cup {nextId'}
    BY <2>1, <2>3, WorkTypes, IdsAppend DEF m
  <2>5. EagerSlot /\ ~ GateEnabled =>
          \A i \in Ids(submitted') \cup Ids(dispatched') : i <= nextId' /\ i \notin Used
    <3> SUFFICES ASSUME EagerSlot, ~ GateEnabled, NEW i \in Ids(submitted') \cup Ids(dispatched')
                 PROVE  i <= nextId' /\ i \notin Used
      OBVIOUS
    <3>1. CASE i = nextId'
      <4>1. \A j \in Used : j <= nextId
        BY DEF EventOrder, WorkInv
      <4> QED
        BY <2>1, <3>1, <4>1
    <3>2. CASE i # nextId'
      <4>1. i \in Ids(submitted) \cup Ids(dispatched) /\ i \in Nat
        BY <1>1, <2>4, <3>2, WorkTypes, IdsTyped
      <4>2. i <= nextId /\ i \notin Used
        BY <4>1 DEF EventOrder, WorkInv
      <4> QED
        BY <2>1, <4>1, <4>2
    <3> QED
      BY <3>1, <3>2
  <2>6. RuntimeInv'
    BY <1>1, <1>3, <2>1, <2>5, RuntimeStill
  <2> QED
    BY <1>4, <2>6 DEF WorkInv, RuntimeInv, JobsHeld, ActiveWanted
<1>8. UNCHANGED <<nextId, submitted>> \/ (HostStep /\ ~ \E i \in JobIds : Cancel(i))
  BY DEF HostStep, Cancel, SceneChange, DeviceLost, vars, jobVars, inputQueues
<1> QED
  BY <1>5, <1>6, <1>7, <1>8 DEF HostStep

(* The worker reports: only what it executes, and its terminal event last. *)
LEMMA WorkerKeeps ==
  ASSUME TypeOK, RuntimeInv, Executing, NEW kind \in EventKinds, Report(kind),
         UNCHANGED <<hostActive, gateJobs, nextId, submitted, dispatched>>,
         kind = "cancelled" => rtCancelled,
         IF kind = "progress" THEN UNCHANGED <<rtJob, rtCancelled>> ELSE FreeSlot(EagerSlot)
  PROVE  RuntimeInv'
<1>t. /\ rtJob \in JobIds /\ rtJob # 0 /\ RuntimeTypeOK /\ ~ Settled(rtJob)
      /\ Ids(rtEvents) \subseteq JobIds /\ 0 \notin JobIds /\ nextId \in Nat
      /\ Ids(submitted) \subseteq JobIds /\ Ids(dispatched) \subseteq JobIds
  BY WorkTypes, IdsTyped DEF Executing
<1>2. \/ kind # "progress" /\ EagerSlot /\ rtJob' = 0 /\ rtCancelled' = FALSE
      \/ kind # "progress" /\ ~ EagerSlot /\ rtJob' = rtJob /\ rtCancelled' = rtCancelled
      \/ kind = "progress" /\ rtJob' = rtJob /\ rtCancelled' = rtCancelled
  BY DEF FreeSlot
<1>e. /\ Ids(rtEvents') = Ids(rtEvents) \cup {rtJob}
      /\ Len(rtEvents') = Len(rtEvents) + 1 /\ Len(rtEvents) \in Nat
      /\ \A k \in DOMAIN rtEvents' :
           \/ k \in DOMAIN rtEvents /\ rtEvents'[k] = rtEvents[k]
           \/ k = Len(rtEvents') /\ rtEvents'[k].id = rtJob /\ rtEvents'[k].kind = kind
  BY <1>t, EventsAfterReport
<1>s. \A i : Settled(i)' <=> Settled(i) \/ (i = rtJob /\ kind # "progress")
  BY <1>t, SettledAfterReport
<1>o. \A i : Owed(i) => Owed(i)'
  BY <1>2, <1>s DEF Owed
<1>3. EventOrder'
  <2>1. ~ EagerSlot => \A k \in DOMAIN rtEvents' : rtEvents'[k].id = rtJob'
    BY <1>2, <1>e DEF RuntimeInv, EventOrder
  <2>2. GateEnabled => Ids(rtEvents') \subseteq gateJobs'
    BY <1>t, <1>e DEF RuntimeInv, EventOrder, GateOwned
  <2>3. ~ EagerSlot \/ GateEnabled =>
          \A k \in DOMAIN rtEvents' : rtEvents'[k].kind # "progress" => k = Len(rtEvents')
    <3> SUFFICES ASSUME ~ EagerSlot \/ GateEnabled, NEW k \in DOMAIN rtEvents,
                        rtEvents[k].kind # "progress"
                 PROVE  FALSE
      BY <1>e
    <3>1. rtEvents[k].id = rtJob
      BY <1>t DEF RuntimeInv, EventOrder, GateOwned, Ids
    <3> QED
      BY <1>t, <3>1 DEF Settled
  <2>4. EagerSlot =>
          \A k \in DOMAIN rtEvents' : rtEvents'[k].kind # "progress" => rtEvents'[k].id # rtJob'
    <3> SUFFICES ASSUME EagerSlot, NEW k \in DOMAIN rtEvents', rtEvents'[k].kind # "progress"
                 PROVE  rtEvents'[k].id # rtJob'
      OBVIOUS
    <3>1. CASE rtJob' = 0
      <4>1. rtEvents'[k].id \in Ids(rtEvents')
        BY DEF Ids
      <4> QED
        BY <1>t, <1>e, <3>1, <4>1
    <3>2. CASE rtJob' = rtJob /\ kind = "progress"
      <4>1. k \in DOMAIN rtEvents /\ rtEvents'[k] = rtEvents[k]
        BY <1>e, <3>2
      <4> QED
        BY <3>2, <4>1 DEF RuntimeInv, EventOrder
    <3> QED
      BY <1>2, <3>1, <3>2
  <2>5. Used' \subseteq Used \cup {0}
    BY <1>2, <1>e DEF Used
  <2>6. EagerSlot /\ ~ GateEnabled =>
          /\ \A i \in Used' : i <= nextId'
          /\ \A i \in Ids(submitted') \cup Ids(dispatched') : i <= nextId' /\ i \notin Used'
    <3> SUFFICES ASSUME EagerSlot, ~ GateEnabled
                 PROVE  /\ \A i \in Used' : i <= nextId
                        /\ \A i \in Ids(submitted) \cup Ids(dispatched) : i <= nextId /\ i \notin Used'
      OBVIOUS
    <3>1. /\ \A i \in Used : i <= nextId
          /\ \A i \in Ids(submitted) \cup Ids(dispatched) : i <= nextId /\ i \notin Used
      BY DEF RuntimeInv, EventOrder
    <3>2. 0 <= nextId
      BY <1>t
    <3> QED
      BY <1>t, <2>5, <3>1, <3>2
  <2> QED
    BY <2>1, <2>2, <2>3, <2>4, <2>6 DEF EventOrder
<1>4. TokenSound'
  <2>1. rtCancelled' => rtJob' \notin hostActive'
    BY <1>2 DEF RuntimeInv, TokenSound
  <2>2. \A k \in DOMAIN rtEvents' :
          rtEvents'[k].kind = "cancelled" => rtEvents'[k].id \notin hostActive'
    <3> SUFFICES ASSUME NEW k \in DOMAIN rtEvents', rtEvents'[k].kind = "cancelled"
                 PROVE  rtEvents'[k].id \notin hostActive
      OBVIOUS
    <3>1. CASE k \in DOMAIN rtEvents /\ rtEvents'[k] = rtEvents[k]
      BY <3>1 DEF RuntimeInv, TokenSound
    <3>2. CASE rtEvents'[k].id = rtJob /\ rtEvents'[k].kind = kind
      BY <3>2 DEF RuntimeInv, TokenSound
    <3> QED
      BY <1>e, <3>1, <3>2
  <2>3. rtJob' \notin hostActive' \cup {0} => rtCancelled' \/ ~ Executing'
    <3> SUFFICES ASSUME rtJob' \notin hostActive' \cup {0} PROVE rtCancelled' \/ ~ Executing'
      OBVIOUS
    <3>1. CASE kind = "progress"
      <4>1. rtJob' = rtJob /\ rtCancelled' = rtCancelled
        BY <1>2, <3>1
      <4> QED
        BY <4>1 DEF RuntimeInv, TokenSound
    <3>2. CASE kind # "progress"
      <4>1. rtJob' = rtJob /\ Settled(rtJob)'
        BY <1>2, <1>s, <3>2
      <4> QED
        BY <4>1 DEF Executing, Settled
    <3> QED
      BY <3>1, <3>2
  <2> QED
    BY <2>1, <2>2, <2>3 DEF TokenSound
<1>5. GateOwned'
  BY <1>2, <1>o DEF RuntimeInv, GateOwned
<1>6. \A i \in hostActive' : Owed(i)'
  BY <1>o DEF RuntimeInv
<1> QED
  BY <1>3, <1>4, <1>5, <1>6 DEF RuntimeInv

LEMMA WorkWorker ==
  ASSUME TypeOK, WorkInv, WorkerProgress \/ WorkerFinish
  PROVE  WorkInv'
<1>1. /\ UNCHANGED <<stage, hostActive, gateJobs, nextId, submitted, dispatched, phase, routed, failed,
                     completed>>
      /\ \/ Progress \/ Finish
  BY DEF WorkerProgress, WorkerFinish, jobVars, surfaceVars, gateVars, hostVars,
         inputQueues, dispatchQueues, feedbackQueues
<1>2. RuntimeInv /\ JobsHeld /\ LiveJobs' = LiveJobs
  BY <1>1, WorkParts DEF LiveJobs
<1>3. RuntimeInv'
  <2>1. CASE Progress
    BY <1>1, <1>2, <2>1, WorkerKeeps DEF Progress, EventKinds
  <2>2. CASE Finish
    <3>1. Executing /\ FreeSlot(EagerSlot)
      BY <2>2 DEF Finish
    <3>2. PICK kind \in {"completed", "failed", "cancelled"} : Report(kind) /\ (kind = "cancelled" => rtCancelled)
      BY <2>2 DEF Finish
    <3> QED
      BY <1>1, <1>2, <3>1, <3>2, WorkerKeeps DEF EventKinds
  <2> QED
    BY <1>1, <2>1, <2>2
<1>4. JobsHeld'
  BY <1>1, <1>2, JobsCalm
<1> QED
  BY <1>3, <1>4 DEF WorkInv, RuntimeInv, JobsHeld, ActiveWanted

(* The table's own steps.                                                  *)
LEMMA WorkInput ==
  ASSUME TypeOK, TableInv, WorkInv, UNCHANGED <<rtVars, hostActive, gateJobs>>,
         NEW available, AcceptInput(available)
  PROVE  WorkInv'
<1> USE DEF inputQueues, dispatchQueues, feedbackQueues, Proceed
<1>t. phase \in [JobIds -> Phases] /\ dispatched \in Seq(Submissions) /\ submitted \in Seq(Submissions)
  BY DEF TypeOK, JobTypeOK
<1>p. RuntimeInv /\ JobsHeld
  BY WorkParts
<1>h. ASSUME NextSubmission
      PROVE  /\ Head(submitted) \in Submissions /\ Head(submitted).id \in JobIds
             /\ Ids(submitted) = Ids(submitted') \cup {Head(submitted).id}
             /\ stage = "submissions"
  BY <1>h, <1>t, HeadIsJob, IdsTail DEF NextSubmission
<1>1. CASE PruneHistory
  <2>1. LiveJobs' = LiveJobs
    BY <1>1, <1>t, PrunedLive DEF PruneHistory
  <2> QED
    BY <1>1, <2>1, WorkCalm DEF PruneHistory, Reporting
<1>2. CASE RejectDuplicate
  <2>1. LiveJobs' = LiveJobs /\ Ids(submitted') \subseteq Ids(submitted) /\ stage \notin Reporting
    BY <1>2, <1>h DEF RejectDuplicate, Reporting, LiveJobs
  <2> QED
    BY <1>2, <2>1, WorkCalm DEF RejectDuplicate
<1>3. CASE RejectSubmission(available)
  <2>1. /\ NextSubmission /\ phase[Head(submitted).id] = "none"
        /\ phase' = Opened(Head(submitted).id, "failed")
        /\ UNCHANGED <<stage, nextId, dispatched, routed, failed, completed>>
    BY <1>3 DEF RejectSubmission
  <2>2. "failed" \in Phases /\ "failed" \notin Live
    BY DEF Phases, Live, Terminal
  <2>3. LiveJobs' = LiveJobs \cup (IF "failed" \in Live THEN {Head(submitted).id} ELSE {})
    BY <1>t, <1>h, <2>1, <2>2, OpenedLive
  <2>4. Ids(submitted') \subseteq Ids(submitted) /\ stage \notin Reporting /\ LiveJobs' = LiveJobs
    BY <1>h, <2>1, <2>2, <2>3 DEF Reporting
  <2> QED
    BY <2>1, <2>4, WorkCalm
<1>4. CASE AcceptSubmission(available)
  <2> DEFINE m == Head(submitted)
  <2>1. /\ m \in Submissions /\ m.id \in JobIds /\ phase[m.id] = "none" /\ stage = "submissions"
        /\ Ids(submitted) = Ids(submitted') \cup {m.id}
    BY <1>4, <1>h DEF AcceptSubmission, NextSubmission
  <2>2. LiveJobs' = LiveJobs \cup {m.id} /\ m.id \notin LiveJobs
    BY <1>4, <1>t, <2>1, OpenedLive DEF AcceptSubmission, Phases, Live, LiveJobs
  <2>3. /\ Ids(dispatched') = Ids(dispatched) \cup {m.id}
        /\ UNCHANGED <<stage, nextId, routed, failed, completed>>
    BY <1>4, <1>t, <2>1, IdsAppend DEF AcceptSubmission
  <2>4. routed = {} /\ failed = {} /\ completed = <<>>
    BY <2>1 DEF TableInv, QueuesDrained, Reporting
  <2> HIDE DEF m
  <2>5. RuntimeInv'
    BY <1>p, <2>1, <2>3, RuntimeSteady
  <2>6. LiveHeld'
    BY <1>p, <2>2, <2>3 DEF JobsHeld, LiveHeld
  <2>7. \A i \in hostActive' : /\ i \in LiveJobs' \cup routed'
                               /\ i \notin Ids(dispatched') \cup failed' \cup Ids(completed')
    BY <1>p, <2>2, <2>3, <2>4 DEF JobsHeld
  <2> QED
    BY <2>5, <2>6, <2>7 DEF WorkInv, RuntimeInv, ActiveWanted
<1>5. CASE SubmissionsDone
  <2>1. LiveJobs' = LiveJobs /\ stage \notin Reporting
    BY <1>5 DEF SubmissionsDone, Reporting, LiveJobs
  <2> QED
    BY <1>5, <2>1, WorkCalm DEF SubmissionsDone
<1>6. CASE AcceptCancellations
  <2>1. LiveJobs' = LiveJobs \ routed' /\ routed' \subseteq LiveJobs
    BY <1>6, <1>t DEF AcceptCancellations, LiveJobs, Live
  <2>2. routed = {} /\ stage = "cancellations"
    BY <1>6 DEF AcceptCancellations, TableInv, QueuesDrained
  <2>3. UNCHANGED <<nextId, submitted, dispatched, failed, completed>>
    BY <1>6 DEF AcceptCancellations
  <2>4. RuntimeInv'
    BY <1>p, <2>3, RuntimeSteady
  <2>5. LiveHeld'
    BY <1>p, <2>1, <2>2, <2>3 DEF JobsHeld, LiveHeld, Reporting
  <2>6. \A i \in hostActive' : /\ i \in LiveJobs' \cup routed'
                               /\ i \notin Ids(dispatched') \cup failed' \cup Ids(completed')
    BY <1>p, <2>1, <2>2, <2>3 DEF JobsHeld
  <2> QED
    BY <2>4, <2>5, <2>6 DEF WorkInv, RuntimeInv, ActiveWanted
<1> QED
  BY <1>1, <1>2, <1>3, <1>4, <1>5, <1>6 DEF AcceptInput

LEMMA WorkFeedback ==
  ASSUME TypeOK, TableInv, WorkInv, UNCHANGED <<rtVars, hostActive, gateJobs>>, ApplyFeedback
  PROVE  WorkInv'
<1> USE DEF inputQueues, dispatchQueues, feedbackQueues, Proceed
<1>t. phase \in [JobIds -> Phases]
  BY DEF TypeOK, JobTypeOK
<1>p. RuntimeInv /\ JobsHeld
  BY WorkParts
<1>1. UNCHANGED <<nextId, submitted, dispatched, routed, completed>>
  BY DEF ApplyFeedback, ApplyProgress, ApplyCompletions, ApplyFailures
<1>2. RuntimeInv'
  BY <1>p, <1>1, RuntimeSteady
<1>3. JobsHeld'
  <2>1. CASE ApplyProgress
    <3>1. LiveJobs' = LiveJobs
      BY <2>1, <1>t DEF ApplyProgress, LiveJobs, Live
    <3> QED
      BY <1>p, <1>1, <2>1, <3>1, JobsCalm DEF ApplyProgress, Reporting
  <2>2. CASE ApplyCompletions
    <3>1. LiveJobs' = LiveJobs \ Ids(completed)
      <4>1. \A i \in JobIds : CompletionsFor(i) # {} <=> i \in Ids(completed)
        BY DEF CompletionsFor, Ids
      <4>2. \A i \in JobIds : Verdict(i) \notin Live
        BY DEF Verdict, Live
      <4> QED
        BY <1>t, <2>2, <4>1, <4>2 DEF ApplyCompletions, LiveJobs
    <3>2. failed' = failed
      BY <2>2 DEF ApplyCompletions
    <3> QED
      BY <1>p, <1>1, <3>1, <3>2 DEF JobsHeld, LiveHeld
  <2>3. CASE ApplyFailures
    <3>1. LiveJobs' = LiveJobs \ failed /\ failed' = {} /\ stage = "failures"
      BY <1>t, <2>3 DEF ApplyFailures, LiveJobs, Live
    <3> QED
      BY <1>p, <1>1, <3>1 DEF JobsHeld, LiveHeld, Reporting
  <2> QED
    BY <2>1, <2>2, <2>3 DEF ApplyFeedback
<1> QED
  BY <1>2, <1>3 DEF WorkInv, RuntimeInv, JobsHeld, ActiveWanted

(* The loss of the backend fails what the adapter holds and opens the gate.*)
LEMMA WorkStop ==
  ASSUME TypeOK, TableInv, WorkInv, StopOnBackendLoss
  PROVE  WorkInv'
<1> USE DEF inputQueues, dispatchQueues, feedbackQueues, hostVars, Proceed
<1>p. RuntimeInv /\ JobsHeld
  BY WorkParts
<1>1. /\ stage = "dispatch" /\ stage' = "submit" /\ submitted = <<>> /\ completed = <<>>
      /\ UNCHANGED <<nextId, phase, submitted, dispatched, routed, completed>>
  BY DEF StopOnBackendLoss, TableInv, QueuesDrained, Reporting
<1>2. LiveJobs' = LiveJobs
  BY <1>1 DEF LiveJobs
<1>3. CASE UNCHANGED <<hostPhase, hostActive, rtVars, failed, surfaceVars>>
  <2>1. stage \notin Reporting /\ gateJobs' = gateJobs
    BY <1>1, <1>3 DEF Reporting, surfaceVars, gateVars
  <2> QED
    BY <1>1, <1>2, <1>3, <2>1, WorkCalm
<1>4. CASE ~ (backend = "ready" \/ hostPhase # "ready")
  <2>1. dispatched = <<>>
    BY <1>4 DEF TableInv, DispatchSound
  <2>2. /\ failed' = failed \cup hostActive /\ hostActive' = {}
        /\ rtJob' = 0 /\ rtCancelled' = FALSE /\ rtEvents' = <<>>
        /\ \/ gateJobs = {} /\ gateJobs' = gateJobs
           \/ \E id \in gateJobs : Resume(id)
    BY <1>4 DEF StopOnBackendLoss, DropRuntime, gateVars
  <2>3. gateJobs' = {}
    <3>1. CASE \E id \in gateJobs : Resume(id)
      <4> PICK id \in gateJobs : Resume(id)
        BY <3>1
      <4>1. gateJobs = {id}
        BY <1>p DEF RuntimeInv, GateOwned
      <4> QED
        BY <4>1 DEF Resume
    <3> QED
      BY <2>2, <3>1
  <2>4. Ids(submitted') = {} /\ Ids(dispatched') = {} /\ Ids(rtEvents') = {} /\ Ids(completed') = {}
        /\ DOMAIN rtEvents' = {}
    <3>1. DOMAIN rtEvents' = {}
      BY <2>2
    <3> QED
      BY <1>1, <2>1, <2>2, <3>1, IdsEmpty
  <2>5. EventOrder'
    <3>1. 0 <= nextId' /\ Used' = {0}
      BY <1>1, <2>2, <2>4, WorkTypes DEF Used
    <3> QED
      BY <2>4, <3>1 DEF EventOrder
  <2>6. TokenSound' /\ GateOwned'
    BY <2>2, <2>3, <2>4 DEF TokenSound, GateOwned
  <2>7. LiveHeld'
    BY <1>p, <1>1, <1>2, <2>2 DEF JobsHeld, LiveHeld, Reporting
  <2> QED
    BY <2>2, <2>5, <2>6, <2>7 DEF WorkInv, ActiveWanted
<1> QED
  BY <1>3, <1>4 DEF StopOnBackendLoss

LEMMA WorkRefuse ==
  ASSUME TypeOK, TableInv, WorkInv, RefuseDispatch
  PROVE  WorkInv'
<1> USE DEF inputQueues, hostVars, surfaceVars, gateVars
<1>p. RuntimeInv /\ JobsHeld
  BY WorkParts
<1> DEFINE i == Head(dispatched).id
<1>1. /\ Ids(dispatched) = Ids(dispatched') \cup {i} /\ failed' = failed \cup {i}
      /\ UNCHANGED <<stage, nextId, phase, submitted, routed, completed, rtVars, hostActive, gateJobs>>
  BY WorkTypes, IdsTail DEF RefuseDispatch, NextDispatch
<1> HIDE DEF i
<1>2. LiveJobs' = LiveJobs
  BY <1>1 DEF LiveJobs
<1>3. RuntimeInv'
  BY <1>p, <1>1, RuntimeSteady
<1>4. LiveHeld'
  BY <1>p, <1>1, <1>2 DEF JobsHeld, LiveHeld
<1>5. \A j \in hostActive' : /\ j \in LiveJobs' \cup routed'
                             /\ j \notin Ids(dispatched') \cup failed' \cup Ids(completed')
  BY <1>p, <1>1, <1>2 DEF JobsHeld
<1> QED
  BY <1>3, <1>4, <1>5 DEF WorkInv, RuntimeInv, ActiveWanted

(* The runtime's slot is free and nothing of the job's is queued in it: a  *)
(* gate that is open, or a slot freed late, leaves no event at all.        *)
LEMMA WorkSubmit ==
  ASSUME TypeOK, TableInv, WorkInv, SubmitToRuntime
  PROVE  WorkInv'
<1> USE DEF inputQueues, feedbackQueues
<1>p. RuntimeInv /\ JobsHeld
  BY WorkParts
<1>0. PICK i : i = Head(dispatched).id
  OBVIOUS
<1>1. /\ Ids(dispatched) = Ids(dispatched') \cup {i} /\ i \notin Ids(dispatched') /\ i \in JobIds
      /\ stage = "submit" /\ ~ SuspendRefused /\ Suspend(i)
      /\ rtJob = 0 /\ rtJob' = i /\ rtCancelled' = FALSE /\ rtEvents' = rtEvents
      /\ hostActive' = hostActive \cup {i}
      /\ UNCHANGED <<stage, nextId, phase, submitted, routed, failed, completed>>
  <2>1. NextDispatch /\ Accept(i)
    BY <1>0 DEF SubmitToRuntime
  <2>2. OncePerJob(dispatched) /\ dispatched # <<>> /\ dispatched' = Tail(dispatched)
    BY <2>1 DEF TableInv, DispatchSound, NextDispatch
  <2>3. Ids(dispatched) = Ids(dispatched') \cup {i} /\ i \notin Ids(dispatched') /\ i \in JobIds
    BY <1>0, <2>2, WorkTypes, IdsTail, OnceTail, HeadIsJob
  <2> QED
    BY <1>0, <2>1, <2>3 DEF SubmitToRuntime, NextDispatch, Accept
<1>2. LiveJobs' = LiveJobs /\ submitted = <<>> /\ completed = <<>>
  BY <1>1 DEF LiveJobs, TableInv, QueuesDrained, Reporting
<1>3. i # 0 /\ GateEnabled \in BOOLEAN /\ Ids(rtEvents) \subseteq JobIds /\ 0 \notin JobIds
  BY <1>1, IdsTyped, WorkTypes, SceneAssumption DEF SceneAssumption
<1>4. gateJobs' = IF GateEnabled THEN {i} ELSE gateJobs
  BY <1>1 DEF Suspend, SuspendRefused, gateVars
<1>5. ~ EagerSlot \/ GateEnabled => DOMAIN rtEvents = {}
  <2>1. CASE GateEnabled
    <3>1. gateJobs = {}
      BY <1>1, <2>1 DEF SuspendRefused
    <3> QED
      BY <1>p, <2>1, <3>1 DEF RuntimeInv, EventOrder, Ids
  <2>2. CASE ~ EagerSlot
    BY <1>p, <1>1, <1>3, <2>2 DEF RuntimeInv, EventOrder, Ids
  <2> QED
    BY <2>1, <2>2
<1>6. i \notin Ids(rtEvents)
  <2>1. CASE EagerSlot /\ ~ GateEnabled
    BY <1>p, <1>1, <2>1 DEF RuntimeInv, EventOrder, Used
  <2> QED
    BY <1>3, <1>5, <2>1 DEF Ids
<1>7. \A j : Settled(j)' <=> Settled(j)
  BY <1>1 DEF Settled
<1>8. \A j \in JobIds : Owed(j) => Owed(j)'
  BY <1>1, <1>3, <1>7 DEF Owed
<1>9. EventOrder'
  <2>1. ~ EagerSlot \/ GateEnabled => DOMAIN rtEvents' = {} /\ Ids(rtEvents') = {}
    BY <1>1, <1>5 DEF Ids
  <2>2. EagerSlot => \A k \in DOMAIN rtEvents' : rtEvents'[k].id # rtJob'
    BY <1>1, <1>6 DEF Ids
  <2>3. EagerSlot /\ ~ GateEnabled =>
          /\ \A j \in Used' : j <= nextId'
          /\ \A j \in Ids(submitted') \cup Ids(dispatched') : j <= nextId' /\ j \notin Used'
    <3>1. Used' = {i} \cup Ids(rtEvents)
      BY <1>1 DEF Used
    <3>2. Ids(submitted') = {} /\ Ids(dispatched') \subseteq Ids(dispatched)
      BY <1>1, <1>2, IdsEmpty
    <3> QED
      BY <1>p, <1>1, <3>1, <3>2 DEF RuntimeInv, EventOrder, Used
  <2> QED
    BY <2>1, <2>2, <2>3 DEF EventOrder
<1>10. TokenSound'
  <2>1. \A k \in DOMAIN rtEvents' :
          rtEvents'[k].kind = "cancelled" => rtEvents'[k].id \notin hostActive'
    BY <1>p, <1>1, <1>6 DEF RuntimeInv, TokenSound, Ids
  <2> QED
    BY <1>1, <2>1 DEF TokenSound
<1>11. GateOwned'
  <2>1. Owed(i)'
    BY <1>1 DEF Owed
  <2>2. CASE GateEnabled
    BY <1>1, <1>4, <2>1, <2>2 DEF GateOwned
  <2>3. CASE ~ GateEnabled
    BY <1>4, <1>8, <2>3, WorkTypes, <1>p DEF RuntimeInv, GateOwned
  <2> QED
    BY <2>2, <2>3
<1>12. LiveHeld'
  BY <1>p, <1>1, <1>2 DEF JobsHeld, LiveHeld
<1>13. ActiveWanted'
  <2>1. Owed(i)' /\ i \in LiveJobs \cup routed /\ i \notin failed \cup Ids(completed)
    BY <1>1, <1>2, IdsEmpty DEF Owed, TableInv, DispatchSound
  <2>2. \A j \in hostActive : Owed(j)'
    BY <1>p, <1>8, WorkTypes DEF RuntimeInv
  <2> QED
    BY <1>p, <1>1, <1>2, <2>1, <2>2 DEF JobsHeld, ActiveWanted
<1> QED
  BY <1>9, <1>10, <1>11, <1>12, <1>13 DEF WorkInv

LEMMA WorkCancel ==
  ASSUME TypeOK, TableInv, WorkInv, CancelRouted
  PROVE  WorkInv'
<1> USE DEF inputQueues, feedbackQueues
<1>p. RuntimeInv /\ JobsHeld
  BY WorkParts
<1>1. /\ stage = "cancel" /\ routed' = {} /\ hostActive' = hostActive \ routed
      /\ rtCancelled' = (rtCancelled \/ rtJob \in routed)
      /\ UNCHANGED <<rtJob, rtEvents, gateJobs>>
      /\ UNCHANGED <<nextId, phase, submitted, dispatched, failed, completed>>
  BY DEF CancelRouted, CancelAny, Proceed, surfaceVars, gateVars
<1>2. /\ LiveJobs' = LiveJobs /\ routed \cap LiveJobs = {}
  BY <1>1 DEF LiveJobs, TableInv, DispatchSound
<1>3. /\ \A i : Owed(i)' <=> Owed(i)
      /\ Executing' <=> Executing
      /\ Used' = Used
  BY <1>1 DEF Owed, Settled, Executing, Used
<1>4. EventOrder'
  BY <1>p, <1>1, <1>3 DEF RuntimeInv, EventOrder
<1>5. TokenSound'
  BY <1>p, <1>1, <1>3 DEF RuntimeInv, TokenSound
<1>6. GateOwned'
  BY <1>p, <1>1, <1>3 DEF RuntimeInv, GateOwned
<1>7. LiveHeld'
  BY <1>p, <1>1, <1>2 DEF JobsHeld, LiveHeld, Reporting
<1>8. ActiveWanted'
  BY <1>p, <1>1, <1>2, <1>3 DEF RuntimeInv, JobsHeld, ActiveWanted
<1> QED
  BY <1>4, <1>5, <1>6, <1>7, <1>8 DEF WorkInv

(* The steps that only move the frame on.                                  *)
LEMMA WorkFrame ==
  ASSUME TypeOK, WorkInv, PreUpdate \/ SubmitDone \/ PollDone \/ EnforceGate \/ EndFrame
  PROVE  WorkInv'
<1> USE DEF inputQueues, dispatchQueues, feedbackQueues, hostVars, Proceed
<1>1. UNCHANGED <<nextId, phase, submitted, dispatched, routed, failed, rtVars, hostActive>>
  BY DEF PreUpdate, SubmitDone, PollDone, EnforceGate, EndFrame
<1>2. gateJobs' = gateJobs
  BY DEF PreUpdate, SubmitDone, PollDone, EnforceGate, Enforce, EndFrame, surfaceVars, gateVars
<1>3. \/ completed' = completed /\ (stage \in Reporting => stage' \in Reporting)
      \/ stage \notin Reporting /\ completed' = <<>>
  BY DEF PreUpdate, SubmitDone, PollDone, EnforceGate, EndFrame, Reporting
<1>4. LiveJobs' = LiveJobs
  BY <1>1 DEF LiveJobs
<1> QED
  BY <1>1, <1>2, <1>3, <1>4, WorkCalm

(* A progress event says nothing of who is held.                           *)
LEMMA PollsProgress ==
  ASSUME TypeOK, RuntimeInv, TakeEvent, Head(rtEvents).kind = "progress",
         UNCHANGED <<hostActive, gateJobs, nextId, submitted, dispatched>>
  PROVE  RuntimeInv'
<1>1. RuntimeTypeOK /\ rtJob' = rtJob /\ rtCancelled' = rtCancelled
  BY WorkTypes DEF TakeEvent, FreeSlot
<1>r. RuntimeTypeOK
  BY WorkTypes
<1>k. TakeEvent
  OBVIOUS
<1>f. /\ Ids(rtEvents) = Ids(rtEvents') \cup {Head(rtEvents).id}
      /\ Len(rtEvents) \in Nat \ {0} /\ DOMAIN rtEvents = 1 .. Len(rtEvents)
      /\ Len(rtEvents') = Len(rtEvents) - 1
      /\ DOMAIN rtEvents' = 1 .. (Len(rtEvents) - 1)
      /\ \A k \in DOMAIN rtEvents' : rtEvents'[k] = rtEvents[k + 1]
  BY <1>r, <1>k, EventsAfterTake
<1>e. /\ Ids(rtEvents') \subseteq Ids(rtEvents) /\ Len(rtEvents') = Len(rtEvents) - 1
      /\ Len(rtEvents) \in Nat
      /\ \A k \in DOMAIN rtEvents' :
           k \in Nat /\ k + 1 \in DOMAIN rtEvents /\ rtEvents'[k] = rtEvents[k + 1]
  BY <1>f
<1>g. ASSUME NEW j
      PROVE  /\ Settled(j)' => Settled(j)
             /\ Settled(j) => Settled(j)' \/ (j = Head(rtEvents).id /\ Head(rtEvents).kind # "progress")
  BY ONLY <1>r, <1>k, SettledAfterTake
<1>s. \A i : (Settled(i)' => Settled(i)) /\ (Settled(i) => Settled(i)')
  BY <1>g, Zenon
<1>o. \A i : Owed(i) => Owed(i)'
  BY <1>1, <1>s DEF Owed
<1>2. EventOrder'
  <2>1. ~ EagerSlot \/ GateEnabled =>
          \A k \in DOMAIN rtEvents' : rtEvents'[k].kind # "progress" => k = Len(rtEvents')
    <3> SUFFICES ASSUME ~ EagerSlot \/ GateEnabled, NEW k \in DOMAIN rtEvents', rtEvents'[k].kind # "progress"
                 PROVE  k = Len(rtEvents')
      OBVIOUS
    <3>1. k + 1 = Len(rtEvents)
      BY <1>e DEF RuntimeInv, EventOrder
    <3> QED
      BY <1>e, <3>1
  <2>2. /\ ~ EagerSlot => \A k \in DOMAIN rtEvents' : rtEvents'[k].id = rtJob'
        /\ EagerSlot =>
             \A k \in DOMAIN rtEvents' : rtEvents'[k].kind # "progress" => rtEvents'[k].id # rtJob'
        /\ GateEnabled => Ids(rtEvents') \subseteq gateJobs'
    BY <1>1, <1>e DEF RuntimeInv, EventOrder
  <2>3. Used' \subseteq Used
    BY <1>1, <1>e DEF Used
  <2> QED
    BY <2>1, <2>2, <2>3 DEF RuntimeInv, EventOrder
<1>3. TokenSound'
  <2>2. \A k \in DOMAIN rtEvents' :
          rtEvents'[k].kind = "cancelled" => rtEvents'[k].id \notin hostActive'
    BY <1>e DEF RuntimeInv, TokenSound
  <2>3. Executing' => Executing
    BY <1>1, <1>s DEF Executing
  <2> QED
    BY <1>1, <2>2, <2>3 DEF RuntimeInv, TokenSound
<1>4. GateOwned'
  BY <1>1, <1>o DEF RuntimeInv, GateOwned
<1> QED
  BY <1>2, <1>3, <1>4, <1>o DEF RuntimeInv

(* A terminal event ends what its request holds.                           *)
LEMMA PollsTerminal ==
  ASSUME TypeOK, RuntimeInv, TakeEvent, NEW i, i = Head(rtEvents).id,
         Head(rtEvents).kind # "progress", Resume(i),
         hostActive' = hostActive \ {i}, UNCHANGED <<nextId, submitted, dispatched>>
  PROVE  RuntimeInv'
<1>t. RuntimeTypeOK /\ Ids(rtEvents) \subseteq JobIds /\ 0 \notin JobIds
  BY WorkTypes, IdsTyped
<1>r. RuntimeTypeOK
  BY <1>t
<1>k. TakeEvent
  OBVIOUS
<1>f. /\ Ids(rtEvents) = Ids(rtEvents') \cup {Head(rtEvents).id}
      /\ Len(rtEvents) \in Nat \ {0} /\ DOMAIN rtEvents = 1 .. Len(rtEvents)
      /\ Len(rtEvents') = Len(rtEvents) - 1
      /\ DOMAIN rtEvents' = 1 .. (Len(rtEvents) - 1)
      /\ Head(rtEvents) = rtEvents[1]
      /\ \A k \in DOMAIN rtEvents' : rtEvents'[k] = rtEvents[k + 1]
  BY <1>r, <1>k, EventsAfterTake
<1>e. /\ Ids(rtEvents') \subseteq Ids(rtEvents) /\ i \in Ids(rtEvents)
      /\ Len(rtEvents') = Len(rtEvents) - 1 /\ Len(rtEvents) \in Nat \ {0}
      /\ 1 \in DOMAIN rtEvents /\ rtEvents[1] = Head(rtEvents)
      /\ DOMAIN rtEvents' = 1 .. (Len(rtEvents) - 1)
      /\ \A k \in DOMAIN rtEvents' : k + 1 \in DOMAIN rtEvents /\ rtEvents'[k] = rtEvents[k + 1]
  BY <1>f
<1>g. ASSUME NEW j
      PROVE  /\ Settled(j)' => Settled(j)
             /\ Settled(j) => Settled(j)' \/ (j = Head(rtEvents).id /\ Head(rtEvents).kind # "progress")
  BY ONLY <1>r, <1>k, SettledAfterTake
<1>s. \A j : (Settled(j)' => Settled(j)) /\ (Settled(j) /\ j # i => Settled(j)')
  BY <1>g, Zenon
<1>1. \/ ~ EagerSlot /\ i = rtJob /\ rtJob' = 0 /\ rtCancelled' = FALSE
      \/ EagerSlot /\ i # rtJob /\ rtJob' = rtJob /\ rtCancelled' = rtCancelled
  <2>1. CASE ~ EagerSlot
    <3>1. i = rtJob
      BY <1>e, <2>1 DEF RuntimeInv, EventOrder
    <3> QED
      BY <2>1, <3>1 DEF TakeEvent, FreeSlot
  <2>2. CASE EagerSlot
    <3>1. i # rtJob
      BY <1>e, <2>2 DEF RuntimeInv, EventOrder
    <3> QED
      BY <2>2, <3>1 DEF TakeEvent, FreeSlot
  <2> QED
    BY <2>1, <2>2
<1>2. ~ EagerSlot \/ GateEnabled => DOMAIN rtEvents' = {} /\ Ids(rtEvents') = {}
  <2> SUFFICES ASSUME ~ EagerSlot \/ GateEnabled PROVE DOMAIN rtEvents' = {} /\ Ids(rtEvents') = {}
    OBVIOUS
  <2>0. \A k \in DOMAIN rtEvents : rtEvents[k].kind # "progress" => k = Len(rtEvents)
    BY DEF RuntimeInv, EventOrder
  <2>1. 1 = Len(rtEvents)
    BY <1>e, <2>0
  <2>2. DOMAIN rtEvents' = {}
    <3>1. DOMAIN rtEvents' = 1 .. (Len(rtEvents) - 1)
      BY <1>e
    <3>2. Len(rtEvents) - 1 = 0 /\ 1 .. 0 = {}
      BY <2>1
    <3> QED
      BY <3>1, <3>2
  <2> QED
    BY <2>2 DEF Ids
<1>3. gateJobs' = IF gateJobs = {i} THEN {} ELSE gateJobs
  <2>1. i \in gateJobs => gateJobs = {i}
    BY DEF RuntimeInv, GateOwned
  <2> QED
    BY <2>1 DEF Resume, gateVars
<1>o. \A j : Owed(j) /\ j # i => Owed(j)'
  BY <1>1, <1>s DEF Owed
<1>4. EventOrder'
  <2>1. EagerSlot =>
          \A k \in DOMAIN rtEvents' : rtEvents'[k].kind # "progress" => rtEvents'[k].id # rtJob'
    BY <1>e, <1>1 DEF RuntimeInv, EventOrder
  <2>2. EagerSlot => Used' \subseteq Used
    BY <1>e, <1>1 DEF Used
  <2> QED
    BY <1>2, <2>1, <2>2 DEF RuntimeInv, EventOrder
<1>5. TokenSound'
  <2>1. \A k \in DOMAIN rtEvents' :
          rtEvents'[k].kind = "cancelled" => rtEvents'[k].id \notin hostActive'
    BY <1>e DEF RuntimeInv, TokenSound
  <2>2. rtJob' # 0 => rtJob' = rtJob /\ rtJob # i /\ rtCancelled' = rtCancelled
    BY <1>1
  <2>3. rtJob' # 0 => (Executing' => Executing)
    BY <1>s, <2>2 DEF Executing
  <2>4. rtCancelled' => rtJob' \notin hostActive'
    BY <1>1 DEF RuntimeInv, TokenSound
  <2>5. rtJob' \notin hostActive' \cup {0} => rtCancelled' \/ ~ Executing'
    BY <2>2, <2>3 DEF RuntimeInv, TokenSound
  <2> QED
    BY <2>1, <2>4, <2>5 DEF TokenSound
<1>6. GateOwned'
  <2>1. gateJobs' # {} => \E j \in gateJobs' : gateJobs' = {j} /\ Owed(j)'
    BY <1>3, <1>o DEF RuntimeInv, GateOwned
  <2>2. GateEnabled /\ rtJob' # 0 => gateJobs' = {rtJob'}
    BY <1>1, <1>3 DEF RuntimeInv, GateOwned
  <2> QED
    BY <2>1, <2>2 DEF GateOwned
<1> QED
  BY <1>4, <1>5, <1>6, <1>o DEF RuntimeInv

LEMMA WorkPoll ==
  ASSUME TypeOK, TableInv, WorkInv, PollEvent
  PROVE  WorkInv'
<1> USE DEF inputQueues, dispatchQueues
<1>p. RuntimeInv /\ JobsHeld
  BY WorkParts
<1>0. PICK i : i = Head(rtEvents).id
  OBVIOUS
<1>1. /\ TakeEvent /\ stage = "poll"
      /\ UNCHANGED <<stage, nextId, phase, submitted, dispatched, routed>>
  BY DEF PollEvent
<1>2. LiveJobs' = LiveJobs /\ dispatched = <<>> /\ Ids(dispatched) = {} /\ routed = {}
  BY <1>1, IdsEmpty DEF LiveJobs, TableInv, QueuesDrained
<1>t. completed \in Seq(Outputs) /\ i \in JobIds
  <2>1. Head(rtEvents) \in Events
    BY <1>1, WorkTypes, EventsAfterTake
  <2> QED
    BY <1>0, <2>1, IdsTyped DEF TypeOK, JobTypeOK, Events
<1>3. CASE Head(rtEvents).kind = "progress"
  <2>1. UNCHANGED <<hostActive, gateJobs, completed, failed>>
    BY <1>3 DEF PollEvent, HandleProgress, surfaceVars, gateVars
  <2>2. RuntimeInv'
    BY <1>p, <1>1, <1>3, <2>1, PollsProgress
  <2>3. JobsHeld'
    BY <1>p, <1>1, <1>2, <2>1, JobsCalm
  <2> QED
    BY <2>2, <2>3 DEF WorkInv, RuntimeInv, JobsHeld, ActiveWanted
<1>4. CASE Head(rtEvents).kind # "progress"
  <2>1. /\ hostActive' = hostActive \ {i} /\ Resume(i)
        /\ \/ Head(rtEvents).kind = "completed" /\ HandleCompleted(i)
           \/ Head(rtEvents).kind = "failed" /\ HandleFailed(i)
           \/ Head(rtEvents).kind = "cancelled" /\ HandleCancelled(i)
    BY <1>0, <1>4 DEF PollEvent, HandleCompleted, HandleFailed, HandleCancelled, ResumeFor
  <2>2. RuntimeInv'
    BY <1>p, <1>0, <1>1, <1>4, <2>1, PollsTerminal
  <2>3. Head(rtEvents).kind = "cancelled" => i \notin hostActive
    <3>1. 1 \in DOMAIN rtEvents /\ rtEvents[1] = Head(rtEvents)
      BY <1>1, WorkTypes, EventsAfterTake
    <3> QED
      BY <1>p, <1>0, <3>1 DEF RuntimeInv, TokenSound
  <2>4. /\ failed \subseteq failed' /\ failed' \subseteq failed \cup {i}
        /\ Ids(completed) \subseteq Ids(completed') /\ Ids(completed') \subseteq Ids(completed) \cup {i}
        /\ i \in hostActive => i \in failed' \cup Ids(completed')
    <3>1. CASE UNCHANGED <<failed, completed>> /\ i \notin hostActive
      BY <3>1
    <3>2. CASE failed' = failed \cup ({i} \cap hostActive) /\ UNCHANGED completed
      BY <3>2
    <3>3. ASSUME NEW valid \in BOOLEAN, completed' = Append(completed, [id |-> i, valid |-> valid]), UNCHANGED failed
          PROVE  failed' = failed /\ Ids(completed') = Ids(completed) \cup {i}
      <4>1. [id |-> i, valid |-> valid] \in Outputs
        BY <1>t DEF Outputs
      <4>2. Ids(completed') = Ids(completed) \cup {[id |-> i, valid |-> valid].id}
        BY <1>t, <3>3, <4>1, IdsAppend
      <4> QED
        BY <3>3, <4>2
    <3>4. CASE HandleCompleted(i)
      BY <3>1, <3>2, <3>3, <3>4 DEF HandleCompleted, feedbackQueues
    <3> QED
      BY <2>1, <2>3, <3>1, <3>2, <3>4 DEF HandleFailed, HandleCancelled, feedbackQueues
  <2>5. LiveHeld'
    BY <1>p, <1>1, <1>2, <2>1, <2>4 DEF JobsHeld, LiveHeld, Reporting
  <2>6. \A j \in hostActive' : /\ j \in LiveJobs' \cup routed'
                               /\ j \notin Ids(dispatched') \cup failed' \cup Ids(completed')
    BY <1>p, <1>1, <1>2, <2>1, <2>4 DEF JobsHeld
  <2> QED
    BY <2>2, <2>5, <2>6 DEF WorkInv, RuntimeInv, ActiveWanted
<1> QED
  BY <1>3, <1>4

LEMMA WorkInit == Init => WorkInv
<1> SUFFICES ASSUME Init PROVE WorkInv
  OBVIOUS
<1>1. /\ LiveJobs = {} /\ hostActive = {} /\ gateJobs = {} /\ nextId = 0
      /\ rtJob = 0 /\ rtEvents = <<>> /\ rtCancelled = FALSE
      /\ submitted = <<>> /\ dispatched = <<>>
  BY DEF Init, JobInit, GateInit, RuntimeInit, LiveJobs, Live
<1>2. DOMAIN rtEvents = {} /\ Ids(rtEvents) = {} /\ Ids(submitted) = {} /\ Ids(dispatched) = {}
  BY <1>1, IdsEmpty
<1>3. EventOrder
  BY <1>1, <1>2 DEF EventOrder, Used
<1> QED
  BY <1>1, <1>2, <1>3 DEF WorkInv, TokenSound, LiveHeld, ActiveWanted, GateOwned

LEMMA WorkKeeps == LatestOnly /\ TypeOK /\ TableInv /\ WorkInv /\ [Next]_vars => WorkInv'
<1> SUFFICES ASSUME LatestOnly, TypeOK, TableInv, WorkInv, [Next]_vars PROVE WorkInv'
  OBVIOUS
<1>1. CASE TableStep
  <2>1. UNCHANGED <<rtVars, hostActive, gateJobs>>
    BY <1>1 DEF TableStep, surfaceVars, gateVars, hostVars
  <2> QED
    BY <1>1, <2>1, WorkInput, WorkFeedback DEF TableStep
<1> QED
  BY <1>1, WorkHosts, WorkWorker, WorkStop, WorkRefuse, WorkSubmit, WorkCancel, WorkPoll, WorkFrame
     DEF Next, FrameStep

-----------------------------------------------------------------------------
(* Theorems                                                                *)

(* The inductive invariant: queues are empty outside their stages, nothing *)
(* is dispatched twice or without a runtime, and every camera that is not  *)
(* as the application left it has its state saved; and, when an id that is *)
(* used again cannot meet its earlier life in the runtime, live records,   *)
(* the adapter's jobs, the runtime's request and events, and the gate      *)
(* belong to each other as WorkInv says.                                   *)
THEOREM AdapterInvariant == Spec => []IInv
<1>1. Init => IInv
  BY TypeInit, TableInit, SceneInit, WorkInit DEF IInv
<1>2. IInv /\ [Next]_vars => IInv'
  BY TypeStep, TableKeeps, SceneKeeps, WorkKeeps DEF IInv, LatestOnly
<1> QED
  BY <1>1, <1>2, PTL DEF Spec

(* A dispatch never meets an adapter without its runtime.                  *)
THEOREM RuntimeIsThere == Spec => []DispatchFindsRuntime
<1>1. IInv => DispatchFindsRuntime
  BY DEF IInv, TableInv, DispatchSound, DispatchFindsRuntime
<1> QED
  BY <1>1, AdapterInvariant, PTL

(* Whatever cameras appear, disappear or change window, with the gate open *)
(* each of them is as the application left it.                             *)
THEOREM GateRestores == Spec => []RestoredExactly
<1>1. IInv => RestoredExactly
  BY DEF IInv, SceneInv, SceneKept, RestoredExactly
<1> QED
  BY <1>1, AdapterInvariant, PTL

(* No active primary-window camera is extracted while a request executes.  *)
THEOREM GateIsQuiet == Spec => []SurfaceQuiet
<1>1. IInv => SurfaceQuiet
  BY DEF IInv, SceneInv, Dark, LatestOnly, WorkInv, GateOwned, SurfaceQuiet
<1> QED
  BY <1>1, AdapterInvariant, PTL

(* A closed gate belongs to one request, whose terminal event opens it.    *)
THEOREM GateIsOwned == LatestOnly => (Spec => []GateHasOwner)
<1> SUFFICES ASSUME LatestOnly PROVE Spec => []GateHasOwner
  OBVIOUS
<1>1. IInv => GateHasOwner
  BY DEF IInv, WorkInv, GateOwned, GateHasOwner
<1> QED
  BY <1>1, AdapterInvariant, PTL

(* Between frames every live record is held by the adapter and owed a      *)
(* terminal event by the runtime, through refusals, cancellations, late    *)
(* events and the loss of the device.                                      *)
THEOREM NoOrphans == LatestOnly => (Spec => []NoOrphanRecord)
<1> SUFFICES ASSUME LatestOnly PROVE Spec => []NoOrphanRecord
  OBVIOUS
<1>1. IInv => NoOrphanRecord
  <2>1. TableInv /\ stage = "idle" =>
          Ids(dispatched) = {} /\ failed = {} /\ stage \notin Reporting
    BY IdsEmpty DEF TableInv, QueuesDrained, Reporting
  <2> QED
    BY <2>1 DEF IInv, WorkInv, LiveHeld, ActiveWanted, NoOrphanRecord
<1> QED
  BY <1>1, AdapterInvariant, PTL

(* Between frames the adapter holds live records only, and what the        *)
(* runtime executes for nobody has been told to stop.                      *)
THEOREM NoRunaways == LatestOnly => (Spec => []NoRunawayWork)
<1> SUFFICES ASSUME LatestOnly PROVE Spec => []NoRunawayWork
  OBVIOUS
<1>1. IInv => NoRunawayWork
  BY DEF IInv, TableInv, QueuesDrained, WorkInv, ActiveWanted, TokenSound, NoRunawayWork
<1> QED
  BY <1>1, AdapterInvariant, PTL

(* Device loss, refusals and late events included, every record moves as   *)
(* JobLifecycle promises: the adapter implements it step by step.          *)
THEOREM Refinement == Spec => FollowsLifecycle
<1>1. Init => Lifecycle!Init
  BY DEF Init, JobInit, Lifecycle!Init
<1>2. TypeOK /\ TypeOK' /\ [Next]_vars => [Lifecycle!Next]_phase
  <2> SUFFICES ASSUME TypeOK, TypeOK', [Next]_vars PROVE [Lifecycle!Next]_phase
    OBVIOUS
  <2>1. CASE TableStep
    <3>1. PICK available \in BOOLEAN : AcceptInput(available) \/ ApplyFeedback
      BY <2>1 DEF TableStep
    <3> QED
      BY <3>1, TableForward DEF TypeOK
  <2>2. CASE ~ TableStep
    BY <2>2 DEF Next, FrameStep, vars, jobVars, HostStep, Submit, Resubmit, Cancel, SceneChange, DeviceLost,
       WorkerProgress, WorkerFinish, PreUpdate, StopOnBackendLoss, RefuseDispatch, SubmitToRuntime,
       SubmitDone, CancelRouted, PollEvent, PollDone, EnforceGate, EndFrame
  <2> QED
    BY <2>1, <2>2
<1> QED
  BY <1>1, <1>2, TypeCorrect, PTL DEF Spec, Lifecycle!Spec, FollowsLifecycle
=============================================================================
