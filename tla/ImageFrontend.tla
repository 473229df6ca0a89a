---------------------------- MODULE ImageFrontend ----------------------------
(***************************************************************************)
(* The model-neutral frontend: the job table of ImageJobs, a runner        *)
(* installed through ImageRunnerPlugin (runner.rs), the display of         *)
(* accepted outputs (display.rs) and the Run and Cancel buttons of the     *)
(* control panel (controls.rs).                                            *)
(*                                                                         *)
(* The runner behind the ImageRunner trait is an environment: it may       *)
(* accept or refuse work, run several jobs, report in any order and answer *)
(* a cancellation with any terminal event.  Cancelled is reported only for *)
(* a use of an id that has been cancelled.  The trait does not say whether *)
(* a runner may accept an id again while an earlier use of it has still to *)
(* be reported: MaxUses = 1 is a runner that does not, and a property that *)
(* needs this, or hosts that never send an id again, says so.              *)
(***************************************************************************)
EXTENDS ImageJobs

CONSTANTS
  HistoryLimit,   \* DISPLAYED_IMAGE_HISTORY_LIMIT
  MaxReports,     \* bound: outputs reported in one frame
  ImagesFail,     \* may making an image of an accepted output fail?
  DoubleClicks,   \* may Run be pressed in two consecutive frames?
  HostSubmits,    \* do hosts other than the panel submit and cancel?
  HostReplays,    \* do they submit under ids that have been used?
  MaxUses,        \* bound: uses of one id the runner has at a time
  RunnerRepeats   \* may the runner report a completion more than once?

ASSUME FrontendAssumption ==
  /\ HistoryLimit \in Nat \ {0}
  /\ MaxReports \in Nat \ {0}
  /\ ImagesFail \in BOOLEAN
  /\ DoubleClicks \in BOOLEAN
  /\ HostSubmits \in BOOLEAN
  /\ HostReplays \in BOOLEAN
  /\ MaxUses \in Nat \ {0}
  /\ RunnerRepeats \in BOOLEAN

VARIABLES
  runnerJobs,    \* ActiveRunnerJobs: ids whose token the plugin holds
  engine,        \* what the runner itself does with each use of an id
  shown,         \* DisplayedImages in insertion order, one image per output
  undisplayed,   \* history: ids with an ImageDisplayFailed message
  latestJob,     \* ImageControlPanelState::latest_job, 0 for None
  latestOutput   \* job id of ImageControlPanelState::latest_output, 0 for None

runnerVars == <<runnerJobs, engine>>
displayVars == <<shown, undisplayed>>
panelVars == <<latestJob, latestOutput>>
vars == <<jobVars, runnerVars, displayVars, panelVars>>

(* "reported": completed, by a runner that may report it again.            *)
Uses == 1 .. MaxUses
UseStates == {"idle", "working", "cancelling", "reported"}
Held == {"working", "cancelling"}
AtWork(i) == \E u \in Uses : engine[i][u] = "working"
Stages == {"idle", "panel", "capture", "prune", "submissions", "cancellations", "dispatch", "cancel", "poll",
           "progress", "completions", "failures", "display"}

(* Types: the table, the runner, the display and the panel.                *)
TypeOK ==
  /\ JobTypeOK
  /\ stage \in Stages
  /\ runnerJobs \in SUBSET JobIds
  /\ engine \in [JobIds -> [Uses -> UseStates]]
  /\ shown \in Seq(Outputs) /\ undisplayed \in SUBSET JobIds
  /\ latestJob \in 0 .. MaxJobs
  /\ latestOutput \in 0 .. MaxJobs

Init ==
  /\ JobInit
  /\ runnerJobs = {}
  /\ engine = [i \in JobIds |-> [u \in Uses |-> "idle"]]
  /\ shown = <<>> /\ undisplayed = {}
  /\ latestJob = 0 /\ latestOutput = 0

-----------------------------------------------------------------------------
(* Hosts: automation and embedding applications                            *)

HostStep ==
  /\ HostSubmits
  /\ stage = "idle"
  /\ \/ \E r \in Requests : Submit(r)
     \/ HostReplays /\ \E i \in JobIds, r \in Requests : Resubmit(i, r)
     \/ \E i \in JobIds : Cancel(i)
  /\ UNCHANGED <<stage, runnerVars, displayVars, panelVars>>

(* Mutant: only an output answers a submission, a record does not.         *)
HasPendingSubmission_Output == latestJob # 0 /\ latestOutput # latestJob

(* The panel takes its newest job to be on its way into the table while it *)
(* has no record there and no captured output.                             *)
HasPendingSubmission ==
  latestJob # 0 /\ phase[latestJob] = "none" /\ latestOutput # latestJob

(* Mutant: a live job does not hold the Run button back.                   *)
CanRun_Busy == ~ HasPendingSubmission

CanRun == LiveJobs = {} /\ ~ HasPendingSubmission

(* The chained button systems run once per frame.  At most one of the two  *)
(* buttons is pressed in a frame.                                          *)
PressRun ==
  /\ CanRun
  /\ DoubleClicks \/ rejected = <<>>
  /\ Proceed("panel", "capture")
  /\ \E r \in Requests : Submit(r)
  /\ latestJob' = nextId'
  /\ UNCHANGED <<runnerVars, displayVars, latestOutput>>

(* The editor cannot form a request: the identifier is spent all the same. *)
PressRunUnformed ==
  /\ CanRun
  /\ Proceed("panel", "capture")
  /\ ReserveId
  /\ UNCHANGED <<phase, inputQueues, dispatchQueues, rejected, feedbackQueues,
                 runnerVars, displayVars, panelVars>>

(* The newest job if it is live, otherwise the live job with the largest id *)
CancelTarget(i) ==
  /\ i \in LiveJobs
  /\ latestJob \in LiveJobs => i = latestJob
  /\ latestJob \notin LiveJobs => \A j \in LiveJobs : j <= i

PressCancel ==
  /\ Proceed("panel", "capture")
  /\ \E i \in JobIds : CancelTarget(i) /\ Cancel(i)
  /\ UNCHANGED <<runnerVars, displayVars, panelVars>>

NoPress ==
  /\ Proceed("panel", "capture")
  /\ UNCHANGED <<nextId, phase, inputQueues, dispatchQueues, rejected, feedbackQueues,
                 runnerVars, displayVars, panelVars>>

CaptureRejections ==
  /\ Proceed("capture", "prune")
  /\ latestJob' = IF rejected = <<>> THEN latestJob ELSE rejected[Len(rejected)]
  /\ rejected' = <<>>
  /\ UNCHANGED <<nextId, phase, inputQueues, dispatchQueues, feedbackQueues,
                 runnerVars, displayVars, latestOutput>>

PanelStep == PressRun \/ PressRunUnformed \/ PressCancel \/ NoPress \/ CaptureRejections

-----------------------------------------------------------------------------
(* Dispatch: submit_dispatched_jobs, cancel_runner_jobs, poll_runner       *)

RunnerAccepts(i) ==
  /\ \E u \in Uses : /\ engine[i][u] \notin Held
                     /\ engine' = [engine EXCEPT ![i][u] = "working"]
  /\ runnerJobs' = runnerJobs \cup {i}

RunnerSubmit ==
  LET i == Head(dispatched).id IN
  /\ stage = "dispatch" /\ dispatched # <<>>
  /\ dispatched' = Tail(dispatched)
  /\ \/ Head(dispatched).request = "good" /\ RunnerAccepts(i) /\ UNCHANGED failed
     \/ failed' = failed \cup {i} /\ UNCHANGED runnerVars
  /\ UNCHANGED <<stage, nextId, phase, inputQueues, routed, rejected, progress, completed,
                 displayVars, panelVars>>

RunnerSubmitDone ==
  /\ dispatched = <<>>
  /\ Proceed("dispatch", "cancel")
  /\ UNCHANGED <<nextId, phase, inputQueues, dispatchQueues, rejected, feedbackQueues,
                 runnerVars, displayVars, panelVars>>

RunnerCancel ==
  /\ Proceed("cancel", "poll")
  /\ engine' = [i \in JobIds |-> [u \in Uses |->
                 IF i \in routed /\ engine[i][u] = "working" THEN "cancelling" ELSE engine[i][u]]]
  /\ runnerJobs' = runnerJobs \ routed
  /\ routed' = {}
  /\ UNCHANGED <<nextId, phase, inputQueues, dispatched, rejected, feedbackQueues,
                 displayVars, panelVars>>

(* A terminal event names the id only: it takes the id's token, whichever  *)
(* use of the id the token belongs to.                                     *)
Settle(i, u, as) ==
  /\ runnerJobs' = runnerJobs \ {i}
  /\ engine' = [engine EXCEPT ![i][u] = as]

RunnerProgress(i, u) ==
  /\ engine[i][u] \in Held
  /\ progress' = progress \cup {i}
  /\ UNCHANGED <<completed, failed, runnerVars>>

RunnerCompletes(i, u, valid) ==
  /\ engine[i][u] # "idle"
  /\ Len(completed) < MaxReports
  /\ completed' = Append(completed, [id |-> i, valid |-> valid])
  /\ Settle(i, u, IF RunnerRepeats THEN "reported" ELSE "idle")
  /\ UNCHANGED <<progress, failed>>

(* Mutant: the failure is logged and not reported.                         *)
RunnerFails_Silent(i, u) ==
  engine[i][u] \in Held /\ Settle(i, u, "idle") /\ UNCHANGED feedbackQueues

RunnerFails(i, u) ==
  /\ engine[i][u] \in Held
  /\ failed' = failed \cup {i}
  /\ Settle(i, u, "idle")
  /\ UNCHANGED <<progress, completed>>

RunnerCancelled(i, u) ==
  /\ engine[i][u] = "cancelling"
  /\ Settle(i, u, "idle")
  /\ UNCHANGED feedbackQueues

(* poll_runner forwards whatever the runner emits.                         *)
RunnerEvent ==
  /\ stage = "poll"
  /\ \E i \in JobIds, u \in Uses :
       \/ RunnerProgress(i, u)
       \/ \E valid \in BOOLEAN : RunnerCompletes(i, u, valid)
       \/ RunnerFails(i, u)
       \/ RunnerCancelled(i, u)
  /\ UNCHANGED <<stage, nextId, phase, inputQueues, dispatchQueues, rejected, displayVars, panelVars>>

PollDone ==
  /\ Proceed("poll", "progress")
  /\ UNCHANGED <<nextId, phase, inputQueues, dispatchQueues, rejected, feedbackQueues,
                 runnerVars, displayVars, panelVars>>

-----------------------------------------------------------------------------
(* Display: materialize_completed_images and the panel's capture_outputs   *)

(* An output shown again moves to the end; the oldest beyond the limit go. *)
Others(id) ==
  IF \E k \in DOMAIN shown : shown[k].id = id
  THEN LET k == CHOOSE k \in DOMAIN shown : shown[k].id = id
       IN SubSeq(shown, 1, k - 1) \o SubSeq(shown, k + 1, Len(shown))
  ELSE shown

(* Mutant: the history is trimmed at the wrong end.                        *)
Inserted_KeepsOldest(output) ==
  LET all == Append(Others(output.id), output)
  IN SubSeq(all, 1, IF Len(all) > HistoryLimit THEN HistoryLimit ELSE Len(all))

Inserted(output) ==
  LET all == Append(Others(output.id), output)
  IN IF Len(all) > HistoryLimit THEN Tail(all) ELSE all

(* Validation of an output does not decode its images: making a texture of *)
(* one may still fail, and the panel captures the output all the same.     *)
ShowOutput ==
  LET o == Head(completed) IN
  /\ stage = "display" /\ completed # <<>>
  /\ completed' = Tail(completed)
  /\ IF phase[o.id] = "completed"
     THEN /\ latestOutput' = o.id /\ latestJob' = o.id
          /\ \/ shown' = Inserted(o) /\ UNCHANGED undisplayed
             \/ ImagesFail /\ undisplayed' = undisplayed \cup {o.id} /\ UNCHANGED shown
     ELSE UNCHANGED <<displayVars, panelVars>>
  /\ UNCHANGED <<stage, nextId, phase, inputQueues, dispatchQueues, rejected, progress, failed,
                 runnerVars>>

-----------------------------------------------------------------------------
BeginFrame ==
  /\ Proceed("idle", "panel")
  /\ UNCHANGED <<nextId, phase, inputQueues, dispatchQueues, rejected, feedbackQueues,
                 runnerVars, displayVars, panelVars>>

EndFrame ==
  /\ completed = <<>>
  /\ Proceed("display", "idle")
  /\ UNCHANGED <<nextId, phase, inputQueues, dispatchQueues, rejected, feedbackQueues,
                 runnerVars, displayVars, panelVars>>

TableStep ==
  /\ AcceptInput(TRUE) \/ ApplyFeedback
  /\ UNCHANGED <<runnerVars, displayVars, panelVars>>

Next ==
  \/ HostStep \/ PanelStep
  \/ BeginFrame \/ TableStep
  \/ RunnerSubmit \/ RunnerSubmitDone \/ RunnerCancel
  \/ RunnerEvent \/ PollDone
  \/ ShowOutput \/ EndFrame

Spec == Init /\ [][Next]_vars

-----------------------------------------------------------------------------
(* Properties                                                              *)

(* Whatever the runner reports, in whatever order and however late, every  *)
(* record follows the promise of JobLifecycle: one terminal phase, kept    *)
(* until the record is pruned, and only terminal records are pruned.       *)
FollowsLifecycle == Lifecycle!Spec

(* Between frames a record that is still queued or running is held by the  *)
(* runner, with a token that can cancel it: no record waits for an event   *)
(* that nobody owes it.  Either no host sends an id again, or the runner   *)
(* has one use of an id at a time.                                         *)
NoOrphanRecord ==
  stage = "idle" => \A i \in LiveJobs : i \in runnerJobs /\ AtWork(i)

(* Between frames the runner works on nothing the user has cancelled or    *)
(* the table has settled: a cancellation accepted in a frame has reached   *)
(* the runner by the end of it, also for a job submitted in that frame.    *)
(* Under the condition of NoOrphanRecord.                                  *)
NoRunawayWork ==
  stage = "idle" => \A i \in JobIds : AtWork(i) => i \in LiveJobs

(* The inductive invariant behind the two: throughout a frame every live   *)
(* record is held by the runner or has a message under way that will hand  *)
(* it over or settle it, and whatever the runner works on is live or about *)
(* to be cancelled and has no such message.  Under the condition of        *)
(* NoOrphanRecord.                                                         *)
Working(i) == i \in runnerJobs /\ AtWork(i)
Reporting == {"poll", "progress", "completions"}

QueuesDrained ==
  /\ stage \notin {"submissions", "cancellations", "dispatch"} => dispatched = <<>>
  /\ stage \notin {"dispatch", "cancel"} => routed = {}
  /\ stage \notin {"dispatch", "cancel", "failures"} \cup Reporting => failed = {}
  /\ stage \notin {"failures", "display"} \cup Reporting => completed = <<>>

LiveHeld ==
  \A i \in LiveJobs :
    \/ Working(i)
    \/ i \in Ids(dispatched) \cup failed
    \/ stage \in Reporting /\ i \in Ids(completed)

WorkWanted ==
  \A i \in JobIds : AtWork(i) =>
    /\ i \in LiveJobs \cup routed
    /\ i \notin Ids(dispatched) \cup failed \cup Ids(completed)

DispatchSound ==
  /\ OncePerJob(dispatched)
  /\ Ids(dispatched) \subseteq (LiveJobs \cup routed) \ failed
  /\ routed \cap LiveJobs = {}

Inv == QueuesDrained /\ LiveHeld /\ WorkWanted /\ DispatchSound

(* The table and the display agree at the end of a frame: a completed      *)
(* record that is still retained has its output on display, unless making  *)
(* an image of it failed and ImageDisplayFailed has said so.               *)
CompletedIsShown ==
  stage = "idle" =>
    \A i \in JobIds : phase[i] = "completed" => i \in Ids(shown) \cup undisplayed

(* Submissions keep at most MAX_RETAINED_TERMINAL_JOBS settled requests in *)
(* memory even when several are rejected in one frame.                     *)
RetentionBound ==
  stage = "cancellations" => Cardinality(TerminalJobs) <= MaxRetainedTerminalJobs

(* The browser event and the texture are produced only for an output that  *)
(* has been validated (display.rs:17).  The runner reports a use of an id  *)
(* once, and NoOrphanRecord's condition holds.                             *)
OnlyValidatedShown == \A k \in DOMAIN shown : shown[k].valid

(* The panel as the only host never has two jobs in flight, counting one   *)
(* whose submission has not been read yet.                                 *)
OneJobAtATime ==
  Cardinality(LiveJobs \cup {submitted[k].id : k \in DOMAIN submitted}) <= 1

(* When nothing is live or on its way, Run is available again: the panel   *)
(* never mistakes a pruned record for a submission still under way.        *)
RunComesBack ==
  stage = "panel" /\ submitted = <<>> /\ rejected = <<>> /\ LiveJobs = {} => CanRun
=============================================================================
