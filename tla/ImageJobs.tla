------------------------------ MODULE ImageJobs ------------------------------
(***************************************************************************)
(* The job table of the Bevy frontend (crates/bevy_image/src/jobs.rs).     *)
(*                                                                         *)
(* Every frame runs a fixed chain of systems over message queues:          *)
(*                                                                         *)
(*   Input    prune_terminal_job_history, accept_submissions,              *)
(*            accept_cancellations                                         *)
(*   Dispatch the systems of the installed model integration               *)
(*   Feedback apply_progress, apply_completions, apply_failures            *)
(*   Display  the readers of accepted outputs                              *)
(*                                                                         *)
(* This module has the table, the queues and the Input and Feedback        *)
(* systems.  A module that composes it with an integration supplies the    *)
(* stages between "dispatch" and "progress" and what follows "display".    *)
(*                                                                         *)
(* A queue whose messages commute is a set of job ids; one whose order     *)
(* matters is a sequence.  Request and output payloads are abstracted to   *)
(* the verdicts the code reaches on them.                                  *)
(***************************************************************************)
EXTENDS Naturals, Sequences, FiniteSets

CONSTANTS
  MaxJobs,                   \* bound: identifiers reserve_id may hand out
  MaxPosted,                 \* bound: submissions waiting for one frame
  MaxRetainedTerminalJobs    \* MAX_RETAINED_TERMINAL_JOBS

ASSUME JobsAssumption ==
  /\ MaxJobs \in Nat \ {0}
  /\ MaxPosted \in Nat \ {0}
  /\ MaxRetainedTerminalJobs \in Nat

VARIABLES
  stage,       \* the system that runs next in the current frame
  nextId,      \* ImageJobs::next_id
  phase,       \* ImageJobs::records, reduced to the phase ("none": no record)
  submitted,   \* SubmitImageJob messages
  cancels,     \* ids with a CancelImageJob message
  dispatched,  \* ImageJobDispatched messages
  routed,      \* ids with an ImageJobCancellationRequested message
  rejected,    \* ids of ImageJobRejected messages
  progress,    \* ids with a ReportImageProgress message
  completed,   \* CompleteImageJob messages
  failed       \* ids with a FailImageJob message

inputQueues == <<submitted, cancels>>
dispatchQueues == <<dispatched, routed>>
feedbackQueues == <<progress, completed, failed>>
jobVars == <<stage, nextId, phase, inputQueues, dispatchQueues, rejected, feedbackQueues>>

JobIds == 1 .. MaxJobs
Live == {"queued", "running"}
Terminal == {"completed", "failed", "cancelled"}
Phases == {"none"} \cup Live \cup Terminal

(* "invalid" fails the request or capability validation of the frontend;   *)
(* "unsupported" passes it and is refused by the integration's own checks. *)
Requests == {"good", "unsupported", "invalid"}
Submissions == [id : JobIds, request : Requests]
Outputs == [id : JobIds, valid : BOOLEAN]

(* Types: records, identifiers and message queues.                         *)
JobTypeOK ==
  /\ nextId \in 0 .. MaxJobs
  /\ phase \in [JobIds -> Phases]
  /\ submitted \in Seq(Submissions)
  /\ cancels \in SUBSET JobIds
  /\ dispatched \in Seq(Submissions)
  /\ routed \in SUBSET JobIds
  /\ rejected \in Seq(JobIds)
  /\ progress \in SUBSET JobIds
  /\ completed \in Seq(Outputs)
  /\ failed \in SUBSET JobIds

JobInit ==
  /\ stage = "idle"
  /\ nextId = 0
  /\ phase = [i \in JobIds |-> "none"]
  /\ submitted = <<>> /\ cancels = {}
  /\ dispatched = <<>> /\ routed = {}
  /\ rejected = <<>>
  /\ progress = {} /\ completed = <<>> /\ failed = {}

(* The jobs some messages are about, for the properties.                   *)
Ids(messages) == {messages[k].id : k \in DOMAIN messages}
OncePerJob(messages) == \A k, l \in DOMAIN messages : k # l => messages[k].id # messages[l].id

LiveJobs == {i \in JobIds : phase[i] \in Live}
TerminalJobs == {i \in JobIds : phase[i] \in Terminal}

Proceed(from, to) == stage = from /\ stage' = to

-----------------------------------------------------------------------------
(* Hosts: the control panel, automation and embedding applications.        *)

(* reserve_id counts up; the wrap at 2^64 is beyond MaxJobs.               *)
(* Mutant: the counter is read and not advanced.                           *)
ReserveId_Stuck == nextId < MaxJobs /\ nextId' = nextId

ReserveId == nextId < MaxJobs /\ nextId' = nextId + 1

(* Messages written during a frame's Update are read in the next Input set, *)
(* so a composition only needs host steps between two frames.               *)
Room == Len(submitted) < MaxPosted

Submit(request) ==
  /\ Room
  /\ ReserveId
  /\ submitted' = Append(submitted, [id |-> nextId', request |-> request])
  /\ UNCHANGED <<phase, cancels, dispatchQueues, rejected, feedbackQueues>>

(* The same message once more: a duplicated or replayed submission.        *)
Resubmit(id, request) ==
  /\ Room
  /\ id <= nextId
  /\ submitted' = Append(submitted, [id |-> id, request |-> request])
  /\ UNCHANGED <<nextId, phase, cancels, dispatchQueues, rejected, feedbackQueues>>

Cancel(id) ==
  /\ id <= nextId
  /\ cancels' = cancels \cup {id}
  /\ UNCHANGED <<nextId, phase, submitted, dispatchQueues, rejected, feedbackQueues>>

-----------------------------------------------------------------------------
(* Input                                                                   *)

(* Terminal records beyond the newest `kept`: the map is ordered by id and *)
(* pruning removes from its low end.                                       *)
Stale(kept) ==
  {i \in TerminalJobs : Cardinality({j \in TerminalJobs : j > i}) >= kept}

Pruned(kept) == [i \in JobIds |-> IF i \in Stale(kept) THEN "none" ELSE phase[i]]

PruneHistory ==
  /\ Proceed("prune", "submissions")
  /\ phase' = Pruned(MaxRetainedTerminalJobs)
  /\ UNCHANGED <<nextId, inputQueues, dispatchQueues, rejected, feedbackQueues>>

NextSubmission == stage = "submissions" /\ submitted # <<>> /\ submitted' = Tail(submitted)

(* An id that still has a record is refused without touching that record.  *)
RejectDuplicate ==
  LET s == Head(submitted) IN
  /\ NextSubmission
  /\ phase[s.id] # "none"
  /\ rejected' = Append(rejected, s.id)
  /\ UNCHANGED <<stage, nextId, phase, cancels, dispatchQueues, feedbackQueues>>

(* Mutant: no room is made for the record that is about to be inserted.    *)
Opened_NoRoom(id, as) == [Pruned(MaxRetainedTerminalJobs) EXCEPT ![id] = as]

Opened(id, as) ==
  [Pruned(IF MaxRetainedTerminalJobs = 0 THEN 0 ELSE MaxRetainedTerminalJobs - 1) EXCEPT ![id] = as]

(* `available`: the backend and the runner both accept work.               *)
RejectSubmission(available) ==
  LET s == Head(submitted) IN
  /\ NextSubmission
  /\ phase[s.id] = "none"
  /\ ~ available \/ s.request = "invalid"
  /\ phase' = Opened(s.id, "failed")
  /\ rejected' = Append(rejected, s.id)
  /\ UNCHANGED <<stage, nextId, cancels, dispatchQueues, feedbackQueues>>

AcceptSubmission(available) ==
  LET s == Head(submitted) IN
  /\ NextSubmission
  /\ phase[s.id] = "none"
  /\ available /\ s.request # "invalid"
  /\ phase' = Opened(s.id, "queued")
  /\ dispatched' = Append(dispatched, s)
  /\ UNCHANGED <<stage, nextId, cancels, routed, rejected, feedbackQueues>>

SubmissionsDone ==
  /\ submitted = <<>>
  /\ Proceed("submissions", "cancellations")
  /\ UNCHANGED <<nextId, phase, inputQueues, dispatchQueues, rejected, feedbackQueues>>

(* Mutant: a job that has not reported progress is cancelled in the table  *)
(* only, as if nothing ran for it yet.                                     *)
AcceptCancellations_RunningOnly ==
  /\ Proceed("cancellations", "dispatch")
  /\ phase' = [i \in JobIds |-> IF i \in cancels \cap LiveJobs THEN "cancelled" ELSE phase[i]]
  /\ routed' = {i \in cancels : phase[i] = "running"}
  /\ cancels' = {}
  /\ UNCHANGED <<nextId, submitted, dispatched, rejected, feedbackQueues>>

(* Only a live record is cancelled, and only then is the request routed.   *)
AcceptCancellations ==
  /\ Proceed("cancellations", "dispatch")
  /\ phase' = [i \in JobIds |-> IF i \in cancels \cap LiveJobs THEN "cancelled" ELSE phase[i]]
  /\ routed' = cancels \cap LiveJobs
  /\ cancels' = {}
  /\ UNCHANGED <<nextId, submitted, dispatched, rejected, feedbackQueues>>

AcceptInput(available) ==
  \/ PruneHistory
  \/ RejectDuplicate
  \/ RejectSubmission(available)
  \/ AcceptSubmission(available)
  \/ SubmissionsDone
  \/ AcceptCancellations

-----------------------------------------------------------------------------
(* Feedback                                                                *)

(* Mutant: progress that arrives late reopens a settled record.            *)
ApplyProgress_Late ==
  /\ Proceed("progress", "completions")
  /\ phase' = [i \in JobIds |-> IF i \in progress THEN "running" ELSE phase[i]]
  /\ progress' = {}
  /\ UNCHANGED <<nextId, inputQueues, dispatchQueues, rejected, completed, failed>>

ApplyProgress ==
  /\ Proceed("progress", "completions")
  /\ phase' = [i \in JobIds |-> IF i \in progress \cap LiveJobs THEN "running" ELSE phase[i]]
  /\ progress' = {}
  /\ UNCHANGED <<nextId, inputQueues, dispatchQueues, rejected, completed, failed>>

CompletionsFor(id) == {k \in DOMAIN completed : completed[k].id = id}

(* Mutant: the output is taken as it comes.                                *)
Verdict_Trusting(id) == "completed"

(* The first completion of a live record decides, after its output and     *)
(* provenance have been validated; the messages stay for the Display set.  *)
Verdict(id) ==
  LET first == CHOOSE k \in CompletionsFor(id) : \A j \in CompletionsFor(id) : k <= j
  IN IF completed[first].valid THEN "completed" ELSE "failed"

ApplyCompletions ==
  /\ Proceed("completions", "failures")
  /\ phase' = [i \in JobIds |-> IF i \in LiveJobs /\ CompletionsFor(i) # {}
                                THEN Verdict(i) ELSE phase[i]]
  /\ UNCHANGED <<nextId, inputQueues, dispatchQueues, rejected, feedbackQueues>>

(* Mutant: a failure overrides whatever the record has settled to.         *)
ApplyFailures_Override ==
  /\ Proceed("failures", "display")
  /\ phase' = [i \in JobIds |-> IF i \in failed /\ phase[i] # "none" THEN "failed" ELSE phase[i]]
  /\ failed' = {}
  /\ UNCHANGED <<nextId, inputQueues, dispatchQueues, rejected, progress, completed>>

ApplyFailures ==
  /\ Proceed("failures", "display")
  /\ phase' = [i \in JobIds |-> IF i \in failed \cap LiveJobs THEN "failed" ELSE phase[i]]
  /\ failed' = {}
  /\ UNCHANGED <<nextId, inputQueues, dispatchQueues, rejected, progress, completed>>

ApplyFeedback == ApplyProgress \/ ApplyCompletions \/ ApplyFailures

-----------------------------------------------------------------------------
(* What every composition promises about a record.                         *)
Lifecycle == INSTANCE JobLifecycle
=============================================================================
