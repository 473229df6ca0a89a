--------------------------- MODULE ModelSelection ---------------------------
(***************************************************************************)
(* Selecting a model in the browser: the panel's model options and its     *)
(* model_switch_pending flag (crates/bevy_image/src/controls.rs), the      *)
(* relay of the adapter (prepare_boogu_models in boogu.rs) and the runtime *)
(* of BrowserRuntime, while a host submits requests and reference images   *)
(* arrive.                                                                 *)
(*                                                                         *)
(* A frame is "prepare", "submit", "poll", "feedback"; option presses come *)
(* before it and tasks run between frames.  accept_reference_images is not *)
(* ordered with the Dispatch set, so a reference may arrive at any point.  *)
(***************************************************************************)
EXTENDS BrowserRuntime

CONSTANTS
  EditVariants,   \* advertised releases that can edit
  FirstEdit,      \* the first of them in the advertised list
  References,     \* do reference images arrive?
  PollLimit       \* MAX_EVENTS_PER_POLL

ASSUME SelectionAssumption ==
  /\ EditVariants \subseteq Variants
  /\ FirstEdit \in EditVariants
  /\ References \in BOOLEAN
  /\ PollLimit \in Nat \ {0}

VARIABLES
  stage,      \* what runs next in the frame
  alive,      \* the adapter holds the runtime (false: the device is lost)
  polled,     \* events taken by the poll under way
  selected,   \* ImageEditorState::model
  pending,    \* ImageControlPanelState::model_switch_pending
  notice,     \* ImageControlPanelState::notice, as far as it is about models
  requests,   \* PrepareImageModel messages
  feedback,   \* terminal ImageModelPreparationEvent messages
  diverted    \* history: a reference has changed `selected` while `pending`

panelVars == <<selected, pending, notice>>
frameVars == <<stage, alive, polled>>
vars == <<runtimeVars, frameVars, panelVars, requests, feedback, diverted>>

(* Types: the runtime, the frame and the panel.                            *)
TypeOK ==
  /\ RuntimeTypeOK
  /\ stage \in {"idle", "prepare", "submit", "poll", "feedback"}
  /\ alive \in BOOLEAN
  /\ polled \in 0 .. PollLimit
  /\ selected \in Variants
  /\ pending \in BOOLEAN
  /\ notice \in {"", "switching", "reference", "ready", "failed"}
  /\ requests \in Seq(Variants)
  /\ feedback \in Seq(Verdicts)
  /\ diverted \in BOOLEAN

Init ==
  /\ RuntimeInit
  /\ stage = "idle" /\ alive = TRUE /\ polled = 0
  /\ selected = engine
  /\ pending = FALSE /\ notice = ""
  /\ requests = <<>> /\ feedback = <<>>
  /\ diverted = FALSE

-----------------------------------------------------------------------------
(* The panel                                                               *)

(* Mutant: a second option may be pressed while a switch is under way.     *)
MaySelect_Always == stage = "idle" /\ alive

MaySelect == stage = "idle" /\ alive /\ ~ pending

SelectModel(v) ==
  /\ MaySelect
  /\ selected' = v
  /\ pending' = TRUE
  /\ notice' = "switching"
  /\ requests' = Append(requests, v)
  /\ diverted' = FALSE
  /\ UNCHANGED <<runtimeVars, frameVars, feedback>>

(* A reference keeps the selected release if it can edit and otherwise     *)
(* selects the first that can, without preparing it.                       *)
AcceptReference ==
  /\ References /\ alive
  /\ selected' = IF selected \in EditVariants THEN selected ELSE FirstEdit
  /\ notice' = "reference"
  /\ diverted' = (diverted \/ (pending /\ selected' # selected))
  /\ UNCHANGED <<runtimeVars, frameVars, pending, requests, feedback>>

(* Mutant: any answer ends the wait, and says so.                          *)
Concerns_Any(answer) == TRUE

Concerns(answer) == answer.variant = selected

HandleFeedback ==
  LET answer == Head(feedback) IN
  /\ stage = "feedback" /\ feedback # <<>>
  /\ feedback' = Tail(feedback)
  /\ IF Concerns(answer)
     THEN pending' = FALSE /\ notice' = answer.kind
     ELSE UNCHANGED <<pending, notice>>
  /\ UNCHANGED <<runtimeVars, frameVars, selected, requests, diverted>>

-----------------------------------------------------------------------------
(* The adapter                                                             *)

Goto(from, to) ==
  /\ stage = from /\ stage' = to
  /\ UNCHANGED <<panelVars, requests, feedback, diverted>>

BeginFrame == Goto("idle", "prepare") /\ UNCHANGED <<runtimeVars, alive, polled>>

(* stop_on_backend_loss, at the head of the Dispatch set                   *)
BackendLost ==
  /\ stage = "prepare" /\ alive /\ alive' = FALSE
  /\ UNCHANGED <<runtimeVars, stage, polled, panelVars, requests, feedback, diverted>>

Tell(kind, v) == feedback' = Append(feedback, [kind |-> kind, variant |-> v])

(* Mutant: only a refusal is answered, Ready at once is not.               *)
Relay_NotReady(v) ==
  \/ PrepareRefused(v) /\ Tell("failed", v) /\ UNCHANGED runtimeVars
  \/ PrepareReady(v) /\ UNCHANGED <<feedback, runtimeVars>>
  \/ PrepareStarts(v) /\ UNCHANGED feedback

Relay(v) ==
  \/ PrepareRefused(v) /\ Tell("failed", v) /\ UNCHANGED runtimeVars
  \/ PrepareReady(v) /\ Tell("ready", v) /\ UNCHANGED runtimeVars
  \/ PrepareStarts(v) /\ UNCHANGED feedback

RelayRequest ==
  /\ stage = "prepare" /\ alive
  /\ requests # <<>> /\ requests' = Tail(requests)
  /\ Relay(Head(requests))
  /\ UNCHANGED <<frameVars, panelVars, diverted>>

RelayAnswer ==
  /\ stage = "prepare" /\ alive
  /\ requests = <<>> /\ polled < PollLimit
  /\ PollPreparation
  /\ polled' = polled + 1
  /\ feedback' = Append(feedback, Head(prepEvents))
  /\ UNCHANGED <<stage, alive, panelVars, requests, diverted>>

PrepareDone ==
  /\ ~ alive \/ (requests = <<>> /\ (prepEvents = <<>> \/ polled = PollLimit))
  /\ Goto("prepare", "submit")
  /\ polled' = 0
  /\ UNCHANGED <<runtimeVars, alive>>

(* Mutant: the gate is not asked.                                          *)
SubmitRequest_Ungated ==
  /\ stage = "submit" /\ alive
  /\ \E id \in Requests, v \in Variants : Submit(id, v)
  /\ UNCHANGED <<frameVars, panelVars, requests, feedback, diverted>>

(* A request of any host, for any release.  The surface gate admits one    *)
(* when it has no job, that is when every terminal event has been polled.  *)
SubmitRequest ==
  /\ stage = "submit" /\ alive
  /\ owed = {}
  /\ \E id \in Requests, v \in Variants : Submit(id, v)
  /\ UNCHANGED <<frameVars, panelVars, requests, feedback, diverted>>

CancelRequest ==
  /\ stage = "submit" /\ alive
  /\ active # 0 /\ Cancel(active)
  /\ UNCHANGED <<frameVars, panelVars, requests, feedback, diverted>>

SubmitDone == Goto("submit", "poll") /\ UNCHANGED <<runtimeVars, alive, polled>>

PollEvent ==
  /\ stage = "poll" /\ alive
  /\ polled < PollLimit /\ polled' = polled + 1
  /\ Poll
  /\ UNCHANGED <<stage, alive, panelVars, requests, feedback, diverted>>

PollDone ==
  /\ ~ alive \/ events = <<>> \/ polled = PollLimit
  /\ Goto("poll", "feedback")
  /\ polled' = 0
  /\ UNCHANGED <<runtimeVars, alive>>

EndFrame ==
  /\ feedback = <<>>
  /\ Goto("feedback", "idle")
  /\ UNCHANGED <<runtimeVars, alive, polled>>

(* Tasks run when the page's event loop has no frame to run.  What the     *)
(* tasks of a runtime that was dropped still do is seen by nobody.         *)
Between ==
  /\ stage = "idle" /\ alive
  /\ UNCHANGED <<frameVars, panelVars, requests, feedback, diverted>>
RuntimeTask == Between /\ TaskStep

FrameStep ==
  \/ BeginFrame \/ RelayRequest \/ RelayAnswer \/ PrepareDone \/ SubmitDone
  \/ PollEvent \/ PollDone \/ HandleFeedback \/ EndFrame

Next ==
  \/ \E v \in Variants : SelectModel(v)
  \/ AcceptReference \/ BackendLost \/ SubmitRequest \/ CancelRequest
  \/ RuntimeTask \/ FrameStep

Spec == Init /\ [][Next]_vars

(* Bevy keeps running frames, and a switch that was started ends: strongly *)
(* fair, because the event loop gives a task its turn between frames.      *)
Fairness == WF_vars(FrameStep) /\ SF_vars(Between /\ (SwitchEnds \/ SwitchFails))
LiveSpec == Spec /\ Fairness

-----------------------------------------------------------------------------
(* Properties                                                              *)

(* The runtime keeps the contract the adapter relies on, up to the         *)
(* progress it may drop when its queue is full: the adapter sees the       *)
(* terminal event, behind which nothing is queued.                         *)
IsTerminal(e) == e.kind # "progress"
Terminal ==
  IF alive /\ events # <<>> /\ IsTerminal(events[Len(events)]) THEN <<events[Len(events)]>> ELSE <<>>
Contract == INSTANCE RuntimeContract WITH
  RuntimeIds <- Requests, EagerSlot <- TRUE,
  rtJob <- IF alive THEN active ELSE 0,
  rtCancelled <- alive /\ asked,
  rtEvents <- Terminal,
  rtDropped <- ~ alive
KeepsContract == Contract!RuntimeSpec

(* No terminal event is lost to a full queue: an accepted request runs, or *)
(* its terminal event waits to be polled, exactly once.                    *)
Answered(id) == {k \in DOMAIN events : events[k].id = id /\ IsTerminal(events[k])}
AnswersKept ==
  \A id \in Requests :
    /\ id \in owed <=> id = active \/ Answered(id) # {}
    /\ \A k, l \in Answered(id) : k = l

(* Whatever requests end how, the engine is back in its cell when nothing  *)
(* is under way, unless a switch has failed.                               *)
EngineComesBack == Free /\ ~ lost => engine # NoVariant

(* "... is loaded and ready on the GPU" is said of the release that is,    *)
(* though the answer of a switch may arrive after the selection has moved. *)
NoticeTrue == alive /\ notice = "ready" => selected = Resident

(* The flag that blocks Run and the model options is up only while an      *)
(* answer for the selected release is on its way (until a reference        *)
(* changes the selection, see BlockedOnlyWhileSwitching).                  *)
Outstanding ==
  {requests[k] : k \in DOMAIN requests} \cup ({preparing} \cap Variants)
    \cup {prepEvents[k].variant : k \in DOMAIN prepEvents}
    \cup {feedback[k].variant : k \in DOMAIN feedback}
PendingIsOwed == alive /\ pending /\ ~ diverted => Outstanding = {selected}

(* Every selection ends in an answer, unless the device is lost.           *)
PendingEnds == pending ~> ~ pending \/ diverted \/ ~ alive

(* "Wait for the selected browser model to finish switching"               *)
(* (controls.rs:1864): Run is blocked only while some switch is under way. *)
BlockedOnlyWhileSwitching == alive /\ pending => Outstanding # {}
=============================================================================
