--------------------------- MODULE BrowserRuntime ---------------------------
(***************************************************************************)
(* The browser runtime (BrowserBooguRuntime in                             *)
(* crates/bevy_image/src/browser_boogu/runtime.rs).  There is one engine,  *)
(* with the one resident release.  It lives in a cell shared with the      *)
(* handle; an inference or a switch takes it out of the cell into a task   *)
(* of the page's event loop and puts it back when it ends, except that a   *)
(* switch that fails consumes it.                                          *)
(*                                                                         *)
(* Handle and tasks share one thread, so everything between two awaits is  *)
(* one step.  ModelSelection has the frames that drive the handle.         *)
(***************************************************************************)
EXTENDS Naturals, Sequences

CONSTANTS
  Variants,        \* releases the runtime advertises
  NoVariant,       \* None
  MaxRequest,      \* bound: request identifiers are 1 .. MaxRequest and may be used again
  MaxQueued        \* MAX_RUNTIME_EVENTS

ASSUME BrowserAssumption ==
  /\ NoVariant \notin Variants
  /\ MaxRequest \in Nat \ {0}
  /\ MaxQueued \in Nat \ {0}

VARIABLES
  (* BrowserRuntimeShared *)
  engine,       \* release of the engine in the cell, NoVariant for None
  active,       \* request in `active`, 0 for None
  asked,        \* its token is cancelled
  preparing,
  prepEvents, events,
  (* the spawned task *)
  carried,      \* release of the engine it has taken, NoVariant for no task
  (* history *)
  owed,         \* accepted requests whose terminal event has not been polled
  lost          \* a switch has failed

sharedVars == <<engine, active, asked, preparing, prepEvents, events>>
runtimeVars == <<sharedVars, carried, owed, lost>>

Requests == 1 .. MaxRequest
EventKinds == {"progress", "completed", "failed", "cancelled"}
Verdicts == [kind : {"ready", "failed"}, variant : Variants]

(* Types: the cell, the tasks and the bounded event queue.                 *)
RuntimeTypeOK ==
  /\ engine \in Variants \cup {NoVariant}
  /\ active \in Requests \cup {0}
  /\ asked \in BOOLEAN
  /\ preparing \in Variants \cup {NoVariant}
  /\ prepEvents \in Seq(Verdicts)
  /\ events \in Seq([kind : EventKinds, id : Requests]) /\ Len(events) <= MaxQueued
  /\ carried \in Variants \cup {NoVariant}
  /\ owed \in SUBSET Requests
  /\ lost \in BOOLEAN

RuntimeInit ==
  /\ engine \in Variants
  /\ active = 0 /\ asked = FALSE /\ preparing = NoVariant
  /\ prepEvents = <<>> /\ events = <<>>
  /\ carried = NoVariant
  /\ owed = {} /\ lost = FALSE

Resident == IF engine # NoVariant THEN engine ELSE carried

Free == active = 0 /\ preparing = NoVariant

-----------------------------------------------------------------------------
(* The handle                                                              *)

(* prepare_variant: refused, Ready at once, or a task that switches.       *)
PrepareRefused(v) == ~ Free \/ engine = NoVariant

PrepareReady(v) == Free /\ engine = v

PrepareStarts(v) ==
  /\ Free /\ engine \notin {v, NoVariant}
  /\ preparing' = v
  /\ carried' = engine
  /\ engine' = NoVariant
  /\ UNCHANGED <<active, asked, prepEvents, events, owed, lost>>

Accepts(v) == Free /\ engine = v

Submit(id, v) ==
  /\ Accepts(v)
  /\ active' = id /\ asked' = FALSE
  /\ carried' = engine
  /\ engine' = NoVariant
  /\ owed' = owed \cup {id}
  /\ UNCHANGED <<preparing, prepEvents, events, lost>>

Cancel(id) ==
  /\ asked' = (asked \/ active = id)
  /\ UNCHANGED <<engine, active, preparing, prepEvents, events, carried, owed, lost>>

Poll ==
  LET e == Head(events) IN
  /\ events # <<>> /\ events' = Tail(events)
  /\ owed' = IF e.kind = "progress" THEN owed ELSE owed \ {e.id}
  /\ UNCHANGED <<engine, active, asked, preparing, prepEvents, carried, lost>>

PollPreparation ==
  /\ prepEvents # <<>> /\ prepEvents' = Tail(prepEvents)
  /\ UNCHANGED <<engine, active, asked, preparing, events, carried, owed, lost>>

-----------------------------------------------------------------------------
(* The tasks                                                               *)

(* Mutant: a full queue refuses the new event.                             *)
Pushed_Newest(queue, kind, id) ==
  IF Len(queue) = MaxQueued THEN queue ELSE Append(queue, [kind |-> kind, id |-> id])

(* push_runtime_event: a full queue loses its oldest event.                *)
Pushed(queue, kind, id) ==
  Append(IF Len(queue) = MaxQueued THEN Tail(queue) ELSE queue, [kind |-> kind, id |-> id])

Observe ==
  /\ active # 0
  /\ events' = Pushed(events, "progress", active)
  /\ UNCHANGED <<engine, active, asked, preparing, prepEvents, carried, owed, lost>>

(* Mutant: an inference that fails returns early, with the engine.         *)
ReturnEngine_Completed ==
  /\ engine' = IF events'[Len(events')].kind = "completed" THEN carried ELSE NoVariant
  /\ carried' = NoVariant

ReturnEngine == engine' = carried /\ carried' = NoVariant

(* A failure or a cancellation is also reported as progress.               *)
Finish ==
  /\ active # 0
  /\ \/ events' = Pushed(events, "completed", active)
     \/ \E kind \in {"failed"} \cup (IF asked THEN {"cancelled"} ELSE {}) :
          events' = Pushed(Pushed(events, "progress", active), kind, active)
  /\ ReturnEngine
  /\ active' = 0 /\ asked' = FALSE
  /\ UNCHANGED <<preparing, prepEvents, owed, lost>>

Answer(kind) ==
  /\ preparing' = NoVariant
  /\ prepEvents' = Append(prepEvents, [kind |-> kind, variant |-> preparing])
  /\ carried' = NoVariant
  /\ UNCHANGED <<active, asked, events, owed>>

SwitchEnds ==
  /\ preparing # NoVariant
  /\ Answer("ready") /\ engine' = preparing
  /\ UNCHANGED lost

SwitchFails ==
  /\ preparing # NoVariant
  /\ Answer("failed") /\ lost' = TRUE
  /\ UNCHANGED engine

TaskStep == Observe \/ Finish \/ SwitchEnds \/ SwitchFails
=============================================================================
