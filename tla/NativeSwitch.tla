---------------------------- MODULE NativeSwitch ----------------------------
(***************************************************************************)
(* The native desktop runtime (crates/bevy_image/src/native_boogu.rs):     *)
(* NativeSwitchableBooguRuntime, a handle the adapter drives; its          *)
(* model-switch worker; and NativeBooguRuntime, the inference worker that  *)
(* owns the one model on the GPU and that the switch worker retires and    *)
(* replaces.                                                               *)
(*                                                                         *)
(*   adapter  -- commands -->  switch worker  -- inCommand -->  inference  *)
(*            <-- events ----  (pc, model)    <-- inEvents ---  (wk)       *)
(*                                                                         *)
(* Three threads, so every send, every store of a shared cell and every    *)
(* change of the GPU's contents is a step of its own.  Progress messages   *)
(* of a preparation change nothing and are left out.                       *)
(***************************************************************************)
EXTENDS Naturals, Sequences, FiniteSets

CONSTANTS
  Variants,         \* releases the runtime advertises
  Warmed,           \* releases that are warmed up after loading
  NoVariant,        \* None
  MaxRequest,       \* bound: request identifiers are 1 .. MaxRequest and may be used again
  MaxEvents,        \* bound: events queued before the worker withholds progress
  Panics,           \* may model code panic?
  WarmupTimeouts    \* may a warm-up exceed WARMUP_TIMEOUT?

ASSUME SwitchAssumption ==
  /\ NoVariant \notin Variants
  /\ Warmed \subseteq Variants
  /\ MaxRequest \in Nat \ {0}
  /\ MaxEvents \in Nat \ {0}
  /\ Panics \in BOOLEAN
  /\ WarmupTimeouts \in BOOLEAN

VARIABLES
  (* NativeSwitchableBooguRuntime, on the adapter's thread *)
  active,       \* request in `active`, 0 for None
  asked,        \* its token is cancelled
  preparing,    \* `preparing`
  dropped,      \* the adapter has dropped the handle
  (* shared with the switch worker *)
  commands, events, prepEvents,
  resident,
  (* the switch worker *)
  pc,
  cmd,          \* the command it is executing
  model,        \* variant of its `runtime`, NoVariant for None
  (* NativeBooguRuntime, owned by the switch worker *)
  inActive,     \* `active`
  token,        \* `cancellation`, the one token of the inference runtime
  (* shared with the inference worker *)
  inCommand,    \* request sent and not received, 0 for none
  stopping,     \* Shutdown has been sent
  busy,
  inEvents,
  (* the inference worker *)
  wk,           \* what the thread is doing
  wkJob,        \* the request it executes
  wkVariant,    \* the release it owns
  gpu           \* releases with modules on the GPU

handleVars == <<active, asked, preparing, dropped>>
channelVars == <<commands, events, prepEvents, resident>>
innerVars == <<inActive, token, inCommand, stopping, busy, inEvents>>
workerVars == <<wk, wkJob, wkVariant, gpu>>
vars == <<handleVars, channelVars, pc, cmd, model, innerVars, workerVars>>

Requests == 1 .. MaxRequest
Warmup == MaxRequest + 1    \* stands for ImageJobId(0), the warm-up's id
InnerRequests == Requests \cup {Warmup}
EventKinds == {"progress", "completed", "failed", "cancelled"}
Commands == [kind : {"prepare", "infer", "shutdown"}, id : Requests \cup {0},
             variant : Variants \cup {NoVariant}]
Shutdown == [kind |-> "shutdown", id |-> 0, variant |-> NoVariant]

(* Types: the handle, its channels and the two workers.                    *)
TypeOK ==
  /\ active \in Requests \cup {0}
  /\ asked \in BOOLEAN /\ dropped \in BOOLEAN
  /\ preparing \in Variants \cup {NoVariant}
  /\ commands \in Seq(Commands)
  /\ events \in Seq([kind : EventKinds, id : Requests])
  /\ prepEvents \in Seq({"ready", "failed"})
  /\ resident \in Variants \cup {NoVariant}
  /\ pc \in {"recv", "unload", "retire", "load", "warm", "settle", "publish", "report",
             "submit", "forward", "ended", "panicked"}
  /\ cmd \in Commands
  /\ model \in Variants \cup {NoVariant}
  /\ inActive \in InnerRequests \cup {0}
  /\ token \in BOOLEAN /\ stopping \in BOOLEAN /\ busy \in BOOLEAN
  /\ inCommand \in InnerRequests \cup {0}
  /\ inEvents \in Seq([kind : EventKinds, id : InnerRequests])
  /\ wk \in {"idle", "running", "sent", "stopped", "panicked"}
  /\ wkJob \in InnerRequests \cup {0}
  /\ wkVariant \in Variants
  /\ gpu \in SUBSET Variants

(* spawn: the factory has loaded a first release.                          *)
Init ==
  /\ active = 0 /\ asked = FALSE /\ preparing = NoVariant /\ dropped = FALSE
  /\ commands = <<>> /\ events = <<>> /\ prepEvents = <<>>
  /\ pc = "recv" /\ cmd = Shutdown
  /\ model \in Variants
  /\ resident = model
  /\ inActive = 0 /\ token = FALSE
  /\ inCommand = 0 /\ stopping = FALSE /\ busy = FALSE /\ inEvents = <<>>
  /\ wk = "idle" /\ wkJob = 0 /\ wkVariant = model
  /\ gpu = {model}

-----------------------------------------------------------------------------
(* The handle.  A command for a worker that has panicked is refused; a     *)
(* refusal changes nothing.                                                *)

Listening == pc # "panicked" /\ ~ dropped

Idle == active = 0 /\ preparing = NoVariant

Prepare(v) ==
  /\ Listening
  /\ Idle
  /\ resident # v
  /\ commands' = Append(commands, [kind |-> "prepare", id |-> 0, variant |-> v])
  /\ preparing' = v
  /\ UNCHANGED <<active, asked, dropped, events, prepEvents, resident, pc, cmd, model,
                 innerVars, workerVars>>

Submit(id, v) ==
  /\ Listening
  /\ Idle
  /\ commands' = Append(commands, [kind |-> "infer", id |-> id, variant |-> v])
  /\ active' = id
  /\ asked' = FALSE
  /\ UNCHANGED <<preparing, dropped, events, prepEvents, resident, pc, cmd, model,
                 innerVars, workerVars>>

Cancel ==
  /\ active # 0 /\ ~ asked
  /\ asked' = TRUE
  /\ UNCHANGED <<active, preparing, dropped, channelVars, pc, cmd, model, innerVars, workerVars>>

Poll ==
  /\ ~ dropped
  /\ events # <<>>
  /\ events' = Tail(events)
  /\ active' = IF Head(events).kind # "progress" /\ Head(events).id = active THEN 0 ELSE active
  /\ UNCHANGED <<asked, preparing, dropped, commands, prepEvents, resident, pc, cmd, model,
                 innerVars, workerVars>>

(* The channel of a worker that has panicked is drained, then disconnected: *)
(* the active request fails.                                               *)
PollDisconnected ==
  /\ ~ dropped
  /\ pc = "panicked" /\ events = <<>> /\ active # 0
  /\ active' = 0
  /\ UNCHANGED <<asked, preparing, dropped, channelVars, pc, cmd, model, innerVars, workerVars>>

PollPreparation ==
  /\ ~ dropped
  /\ preparing # NoVariant
  /\ \/ prepEvents # <<>> /\ prepEvents' = Tail(prepEvents)
     \/ prepEvents = <<>> /\ pc = "panicked" /\ UNCHANGED prepEvents
  /\ preparing' = NoVariant
  /\ UNCHANGED <<active, asked, dropped, commands, events, resident, pc, cmd, model,
                 innerVars, workerVars>>

Drop ==
  /\ ~ dropped /\ dropped' = TRUE
  /\ asked' = (active # 0)
  /\ active' = 0
  /\ commands' = Append(commands, Shutdown)
  /\ UNCHANGED <<preparing, events, prepEvents, resident, pc, cmd, model, innerVars, workerVars>>

HandleStep ==
  \/ \E v \in Variants : Prepare(v)
  \/ \E id \in Requests, v \in Variants : Submit(id, v)
  \/ Cancel \/ Poll \/ PollDisconnected \/ PollPreparation \/ Drop

-----------------------------------------------------------------------------
(* run_switchable_worker                                                   *)

Report(kind, id) == events' = Append(events, [kind |-> kind, id |-> id])

Fail(c) ==
  /\ pc' = "recv"
  /\ IF c.kind = "prepare"
     THEN prepEvents' = Append(prepEvents, "failed") /\ UNCHANGED events
     ELSE Report("failed", c.id) /\ UNCHANGED prepEvents

Receive ==
  /\ pc = "recv" /\ commands # <<>>
  /\ cmd' = Head(commands)
  /\ commands' = Tail(commands)

Wanted == cmd'.kind = "prepare" \/ (cmd'.kind = "infer" /\ ~ asked)

Unmoved == UNCHANGED <<handleVars, commands, innerVars, workerVars>>

(* native_switch_context fails for the release of the command.             *)
RejectContext ==
  /\ Receive
  /\ Wanted
  /\ Fail(cmd')
  /\ UNCHANGED <<handleVars, resident, model, innerVars, workerVars>>

SkipCancelled ==
  /\ Receive
  /\ cmd'.kind = "infer" /\ asked
  /\ pc' = "recv" /\ Report("cancelled", cmd'.id)
  /\ UNCHANGED <<handleVars, prepEvents, resident, model, innerVars, workerVars>>

StartResident ==
  /\ Receive
  /\ cmd'.kind = "infer" /\ ~ asked /\ model = cmd'.variant
  /\ pc' = "submit"
  /\ UNCHANGED <<handleVars, events, prepEvents, resident, model, innerVars, workerVars>>

(* A command to prepare the release that is resident never gets here: the  *)
(* handle has answered it (ResidentHonest), and the worker's own answer to *)
(* it is left out.                                                         *)
StartSwitch ==
  /\ Receive
  /\ Wanted
  /\ model # cmd'.variant
  /\ pc' = "unload"
  /\ IF cmd'.kind = "infer" THEN Report("progress", cmd'.id) ELSE UNCHANGED events
  /\ UNCHANGED <<handleVars, prepEvents, resident, model, innerVars, workerVars>>

(* The runtime is taken out of its cell before the cell is cleared.  With  *)
(* a previous runtime: cancel, Shutdown and wait; with none: load.         *)
Unload ==
  /\ pc = "unload"
  /\ resident' = NoVariant
  /\ model' = NoVariant
  /\ IF model = NoVariant
     THEN pc' = "load" /\ UNCHANGED <<token, inActive, stopping>>
     ELSE /\ pc' = "retire"
          /\ token' = (token \/ inActive # 0)
          /\ inActive' = 0
          /\ stopping' = TRUE
  /\ UNCHANGED <<handleVars, commands, events, prepEvents, cmd, inCommand, busy, inEvents, workerVars>>

(* Mutant: the previous worker is told to stop and not joined.             *)
Retire_Detached ==
  /\ pc = "retire"
  /\ busy' = FALSE /\ pc' = "load"
  /\ UNCHANGED <<handleVars, channelVars, cmd, model, inActive, token, inCommand, stopping,
                 inEvents, workerVars>>

(* join: a worker that has panicked fails the switch.                      *)
Retire ==
  /\ pc = "retire"
  /\ \/ wk = "stopped" /\ busy' = FALSE /\ pc' = "load" /\ UNCHANGED <<events, prepEvents>>
     \/ wk = "panicked" /\ Fail(cmd) /\ UNCHANGED busy
  /\ UNCHANGED <<handleVars, commands, resident, cmd, model, inActive, token, inCommand,
                 stopping, inEvents, workerVars>>

(* Mutant: the failure of a load is logged and not reported.               *)
LoadFails_Silent ==
  /\ pc = "load" /\ pc' = "recv"
  /\ Unmoved /\ UNCHANGED <<events, prepEvents, resident, cmd, model>>

LoadFails ==
  /\ pc = "load"
  /\ Fail(cmd)
  /\ Unmoved /\ UNCHANGED <<resident, cmd, model>>

(* A panic of the loader unwinds the switch worker: its channels close.    *)
LoadPanics ==
  /\ Panics
  /\ pc = "load" /\ pc' = "panicked"
  /\ Unmoved /\ UNCHANGED <<events, prepEvents, resident, cmd, model>>

(* A new inference runtime with channels and a token of its own.           *)
Load ==
  /\ pc = "load"
  /\ inActive' = 0 /\ token' = FALSE /\ inCommand' = 0 /\ stopping' = FALSE
  /\ busy' = FALSE /\ inEvents' = <<>>
  /\ wk' = "idle" /\ wkJob' = 0 /\ wkVariant' = cmd.variant
  /\ gpu' = gpu \cup {cmd.variant}
  /\ pc' = IF cmd.variant \in Warmed THEN "warm" ELSE "publish"
  /\ UNCHANGED <<handleVars, channelVars, cmd, model>>

-----------------------------------------------------------------------------
(* NativeBooguRuntime::submit, ::poll and ::cancel, as the switch worker   *)
(* calls them                                                              *)

Gone == wk \in {"stopped", "panicked"}

InnerFree == inActive = 0 /\ ~ busy /\ ~ Gone

(* Mutant: the shared token keeps the previous request's cancellation.     *)
InnerSubmit_KeepToken(id) ==
  /\ busy' = TRUE
  /\ inCommand' = id
  /\ inActive' = id
  /\ UNCHANGED <<token, stopping, inEvents>>

InnerSubmit(id) ==
  /\ busy' = TRUE
  /\ token' = FALSE
  /\ inCommand' = id
  /\ inActive' = id
  /\ UNCHANGED <<stopping, inEvents>>

(* A submit that finds the worker gone has set and cleared `busy`.         *)
InnerRefuse ==
  /\ busy' = (busy /\ ~ (inActive = 0 /\ Gone))
  /\ UNCHANGED <<inActive, token, inCommand, stopping, inEvents>>

InnerTake ==
  LET e == Head(inEvents) IN
  /\ inEvents # <<>> /\ inEvents' = Tail(inEvents)
  /\ inActive' = IF e.kind # "progress" /\ e.id = inActive THEN 0 ELSE inActive
  /\ UNCHANGED <<token, inCommand, stopping, busy>>

(* Mutant: a closed channel is taken for an empty one.                     *)
InnerDisconnected_Empty ==
  /\ inEvents = <<>> /\ Gone /\ inActive # 0
  /\ FALSE

InnerDisconnected ==
  /\ inEvents = <<>> /\ Gone /\ inActive # 0
  /\ busy' = FALSE /\ inActive' = 0
  /\ UNCHANGED <<token, inCommand, stopping, inEvents>>

-----------------------------------------------------------------------------
(* warm_native_edit_runtime.  Its errors are logged and ignored.           *)

Warm ==
  /\ pc = "warm" /\ inActive = 0 /\ ~ busy
  /\ \/ InnerSubmit(Warmup) /\ pc' = "warm"
     \/ pc' = "publish" /\ UNCHANGED innerVars
  /\ UNCHANGED <<handleVars, channelVars, cmd, model, workerVars>>

WarmPoll ==
  /\ pc = "warm" /\ inActive # 0
  /\ \/ InnerTake /\ pc' = IF Head(inEvents).kind = "progress" THEN "warm" ELSE "settle"
     \/ InnerDisconnected /\ pc' = "settle"
  /\ UNCHANGED <<handleVars, channelVars, cmd, model, workerVars>>

(* Past the deadline the handle stays active and nobody cancels the token. *)
WarmTimeout ==
  /\ WarmupTimeouts
  /\ pc = "warm" /\ inActive # 0 /\ pc' = "settle"
  /\ UNCHANGED <<handleVars, channelVars, cmd, model, innerVars, workerVars>>

(* Mutant: the result of the warm-up is not waited for.                    *)
Settle_Eager ==
  /\ pc = "settle" /\ pc' = "publish"
  /\ UNCHANGED <<handleVars, channelVars, cmd, model, innerVars, workerVars>>

Settle ==
  /\ pc = "settle" /\ ~ busy /\ pc' = "publish"
  /\ UNCHANGED <<handleVars, channelVars, cmd, model, innerVars, workerVars>>

(* Mutant: the cell of the resident model is not written.                  *)
Publish_Quiet ==
  /\ pc = "publish" /\ pc' = "report"
  /\ model' = cmd.variant
  /\ UNCHANGED <<handleVars, channelVars, cmd, innerVars, workerVars>>

Publish ==
  /\ pc = "publish" /\ pc' = "report"
  /\ model' = cmd.variant
  /\ resident' = cmd.variant
  /\ UNCHANGED <<handleVars, commands, events, prepEvents, cmd, innerVars, workerVars>>

ReportSwitched ==
  /\ pc = "report"
  /\ IF cmd.kind = "prepare"
     THEN pc' = "recv" /\ prepEvents' = Append(prepEvents, "ready") /\ UNCHANGED events
     ELSE pc' = "submit" /\ Report("progress", cmd.id) /\ UNCHANGED prepEvents
  /\ Unmoved /\ UNCHANGED <<resident, cmd, model>>

StartInference ==
  /\ pc = "submit"
  /\ InnerFree
  /\ InnerSubmit(cmd.id)
  /\ pc' = "forward"
  /\ UNCHANGED <<handleVars, channelVars, cmd, model, workerVars>>

RefuseInference ==
  /\ pc = "submit"
  /\ ~ InnerFree
  /\ InnerRefuse
  /\ Fail(cmd)
  /\ UNCHANGED <<handleVars, commands, resident, cmd, model, workerVars>>

(* `cancellation` is the token of the request being forwarded, also after  *)
(* the handle has been dropped.                                            *)
ForwardCancel ==
  /\ pc = "forward" /\ asked /\ ~ token
  /\ token' = TRUE
  /\ UNCHANGED <<handleVars, channelVars, pc, cmd, model, inActive, inCommand, stopping, busy,
                 inEvents, workerVars>>

(* A request's terminal event is the last one its worker sends for it.     *)
Forward ==
  LET e == Head(inEvents) IN
  /\ pc = "forward"
  /\ InnerTake
  /\ Report(e.kind, e.id)
  /\ pc' = IF e.kind = "progress" THEN "forward" ELSE "recv"
  /\ UNCHANGED <<handleVars, commands, prepEvents, resident, cmd, model, workerVars>>

ForwardDisconnected ==
  /\ pc = "forward"
  /\ InnerDisconnected
  /\ Report("failed", inActive)
  /\ pc' = "recv"
  /\ UNCHANGED <<handleVars, commands, prepEvents, resident, cmd, model, workerVars>>

(* Shutdown: the inference runtime is dropped with the loop's locals.      *)
Exit ==
  /\ Receive /\ cmd' = Shutdown
  /\ pc' = "ended"
  /\ model' = NoVariant
  /\ token' = (token \/ inActive # 0) /\ inActive' = 0
  /\ stopping' = TRUE
  /\ UNCHANGED <<handleVars, events, prepEvents, resident, inCommand, busy, inEvents, workerVars>>

SwitchStep ==
  \/ RejectContext \/ SkipCancelled \/ StartResident \/ StartSwitch
  \/ Unload \/ Retire \/ LoadFails \/ LoadPanics \/ Load
  \/ Warm \/ WarmPoll \/ WarmTimeout \/ Settle \/ Publish \/ ReportSwitched
  \/ StartInference \/ RefuseInference \/ ForwardCancel \/ Forward \/ ForwardDisconnected
  \/ Exit

-----------------------------------------------------------------------------
(* run_worker: the inference thread                                        *)

Work(action) == action /\ UNCHANGED <<handleVars, channelVars, pc, cmd, model>>

Send(kind) == inEvents' = Append(inEvents, [kind |-> kind, id |-> wkJob])

TakeCommand ==
  /\ wk = "idle" /\ inCommand # 0
  /\ wk' = "running" /\ wkJob' = inCommand /\ inCommand' = 0
  /\ UNCHANGED <<inActive, token, stopping, busy, inEvents, wkVariant, gpu>>

Observe ==
  /\ wk = "running" /\ Len(inEvents) < MaxEvents /\ Len(events) < MaxEvents
  /\ Send("progress")
  /\ UNCHANGED <<inActive, token, inCommand, stopping, busy, workerVars>>

(* validate_job or infer returns; Cancelled only for a cancelled token.    *)
Finish ==
  /\ wk = "running" /\ wk' = "sent"
  /\ Send("completed") \/ Send("failed") \/ (token /\ Send("cancelled"))
  /\ UNCHANGED <<inActive, token, inCommand, stopping, busy, wkJob, wkVariant, gpu>>

(* Mutant: `busy` is cleared only when the worker ends.                    *)
ClearBusy_AtExit ==
  /\ wk = "sent" /\ wk' = "idle"
  /\ wkJob' = 0
  /\ UNCHANGED <<innerVars, wkVariant, gpu>>

ClearBusy ==
  /\ wk = "sent" /\ wk' = "idle"
  /\ busy' = FALSE /\ wkJob' = 0
  /\ UNCHANGED <<inActive, token, inCommand, stopping, inEvents, wkVariant, gpu>>

(* Unwinding drops the model; nobody clears `busy`.                        *)
Panic ==
  /\ Panics
  /\ wk = "running" /\ wk' = "panicked"
  /\ wkJob' = 0
  /\ gpu' = gpu \ {wkVariant}
  /\ UNCHANGED <<innerVars, wkVariant>>

Stop ==
  /\ wk = "idle" /\ stopping /\ inCommand = 0
  /\ wk' = "stopped"
  /\ busy' = FALSE
  /\ gpu' = gpu \ {wkVariant}
  /\ UNCHANGED <<inActive, token, inCommand, stopping, inEvents, wkJob, wkVariant>>

WorkerStep ==
  \/ Work(TakeCommand) \/ Work(Observe) \/ Work(Finish) \/ Work(ClearBusy)
  \/ Work(Panic) \/ Work(Stop)

Next == HandleStep \/ SwitchStep \/ WorkerStep
Spec == Init /\ [][Next]_vars

(* The threads run, an inference ends, the adapter polls every frame.      *)
Fairness ==
  /\ WF_vars(Poll) /\ WF_vars(PollDisconnected) /\ WF_vars(PollPreparation)
  /\ WF_vars(SwitchStep)
  /\ WF_vars(Work(TakeCommand)) /\ WF_vars(Work(Finish \/ Panic))
  /\ WF_vars(Work(ClearBusy)) /\ WF_vars(Work(Stop))
LiveSpec == Spec /\ Fairness

-----------------------------------------------------------------------------
(* Properties                                                              *)

(* The runtime keeps the contract the adapter relies on.  A request whose  *)
(* worker has panicked counts as failed: the next poll says so.            *)
Settled == \E k \in DOMAIN events : events[k].kind # "progress" /\ events[k].id = active
Verdict ==
  IF pc = "panicked" /\ active # 0 /\ ~ Settled
  THEN <<[kind |-> "failed", id |-> active]>> ELSE <<>>

Contract == INSTANCE RuntimeContract WITH
  RuntimeIds <- Requests, EagerSlot <- FALSE,
  rtJob <- active,
  rtCancelled <- asked /\ active # 0,
  rtEvents <- IF dropped THEN <<>> ELSE events \o Verdict,
  rtDropped <- dropped
KeepsContract == Contract!RuntimeSpec

(* Two releases are never on the GPU at once (native_boogu.rs:1165).       *)
ResidencyExclusive == Cardinality(gpu) <= 1

(* prepare_variant answers Ready from a cell the switch worker writes,     *)
(* without asking it.  While nothing is under way the cell names the       *)
(* worker's release, and a queued Ready the one that was asked for.        *)
ResidentHonest ==
  /\ Idle /\ Listening => resident = model
  /\ ~ dropped /\ prepEvents = <<"ready">> => resident = preparing /\ model = preparing

(* An accepted request, or preparation, is always somewhere: waiting in    *)
(* the channel, in the hands of the worker, or answered and not polled.    *)
Queued(kind) == {k \in DOMAIN commands : commands[k].kind = kind}
AtWork(kind) == pc \notin {"recv", "ended"} /\ cmd.kind = kind
ActiveIsOwed ==
  Listening =>
    /\ active # 0 <=> Queued("infer") # {} \/ (AtWork("infer") /\ cmd.id = active) \/ Settled
    /\ preparing # NoVariant <=> Queued("prepare") # {} \/ AtWork("prepare") \/ prepEvents # <<>>

(* Dropping the handle joins the switch worker when nothing is under way:  *)
(* then no inference and no switch can hold the join up (:712).            *)
JoinIsShort == Idle /\ Listening => pc = "recv" /\ wk # "running" /\ inCommand = 0

(* A warm-up is no availability gate: once the inference worker waits for  *)
(* work, whatever happened to its warm-up, a request is not refused        *)
(* (native_boogu.rs:1328).                                                 *)
IdleIsUsable == pc = "submit" /\ wk = "idle" /\ ~ busy => InnerFree

(* The one way for the switch worker to wait forever: the inference worker *)
(* died in a warm-up whose deadline had passed, and nobody asks it again   *)
(* (:1408).                                                                *)
Hung == pc = "settle" /\ busy /\ wk = "panicked"

(* Every request and every preparation is answered, through panics and     *)
(* late warm-ups, unless the switch worker hangs as above.                 *)
EveryCallIsAnswered ==
  /\ active # 0 ~> active = 0 \/ Hung
  /\ preparing # NoVariant ~> preparing = NoVariant \/ dropped \/ Hung

(* A dropped runtime gives its memory back.                                *)
MemoryReturned == dropped ~> gpu = {}
=============================================================================
