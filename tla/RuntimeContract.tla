--------------------------- MODULE RuntimeContract ---------------------------
(***************************************************************************)
(* What the Boogu adapter relies on when it drives a BooguRuntime          *)
(* (crates/bevy_image/src/boogu.rs): requests are executed one at a time,  *)
(* a request that was accepted gets exactly one terminal event, which is   *)
(* the last event of that request, and Cancelled is reported only for a    *)
(* request whose token was cancelled.                                      *)
(*                                                                         *)
(* EagerSlot is the one point in which the crate's runtimes differ: the    *)
(* browser runtime can accept the next request as soon as it has queued a  *)
(* terminal event, the native ones when that event has been polled.        *)
(***************************************************************************)
EXTENDS Naturals, Sequences

CONSTANTS
  RuntimeIds,   \* identifiers of requests
  EagerSlot

ASSUME ContractAssumption == 0 \notin RuntimeIds /\ EagerSlot \in BOOLEAN

VARIABLES
  rtJob,        \* the request that holds the runtime's slot, 0 for none
  rtCancelled,  \* is its token cancelled?
  rtEvents,     \* queued events, oldest first
  rtDropped     \* the adapter has dropped the runtime

rtVars == <<rtJob, rtCancelled, rtEvents, rtDropped>>

EventKinds == {"progress", "completed", "failed", "cancelled"}
Events == [kind : EventKinds, id : RuntimeIds]

(* Types: the slot, the token and the events.                              *)
RuntimeTypeOK ==
  /\ rtJob \in RuntimeIds \cup {0}
  /\ rtCancelled \in BOOLEAN
  /\ rtEvents \in Seq(Events)
  /\ rtDropped \in BOOLEAN

RuntimeInit == rtJob = 0 /\ rtCancelled = FALSE /\ rtEvents = <<>> /\ rtDropped = FALSE

Settled(id) == \E k \in DOMAIN rtEvents : rtEvents[k].id = id /\ rtEvents[k].kind # "progress"
Executing == rtJob # 0 /\ ~ Settled(rtJob)

Accept(id) ==
  /\ ~ rtDropped
  /\ rtJob = 0 /\ rtJob' = id
  /\ rtCancelled' = FALSE
  /\ UNCHANGED <<rtEvents, rtDropped>>

CancelAny(ids) ==
  /\ rtCancelled' = (rtCancelled \/ rtJob \in ids)
  /\ UNCHANGED <<rtJob, rtEvents, rtDropped>>

Report(kind) ==
  rtEvents' = Append(rtEvents, [kind |-> kind, id |-> rtJob]) /\ UNCHANGED rtDropped
FreeSlot(free) ==
  IF free THEN rtJob' = 0 /\ rtCancelled' = FALSE ELSE UNCHANGED <<rtJob, rtCancelled>>

Progress == Executing /\ Report("progress") /\ UNCHANGED <<rtJob, rtCancelled>>

Finish ==
  /\ Executing
  /\ \/ Report("completed") \/ Report("failed")
     \/ rtCancelled /\ Report("cancelled")
  /\ FreeSlot(EagerSlot)

TakeEvent ==
  LET e == Head(rtEvents) IN
  /\ rtEvents # <<>>
  /\ rtEvents' = Tail(rtEvents) /\ UNCHANGED rtDropped
  /\ FreeSlot(~ EagerSlot /\ e.kind # "progress" /\ e.id = rtJob)

(* The adapter drops the runtime and everything it has queued, for good.   *)
DropRuntime ==
  /\ rtJob' = 0 /\ rtCancelled' = FALSE /\ rtEvents' = <<>>
  /\ rtDropped' = TRUE

RuntimeNext ==
  \/ \E id \in RuntimeIds : Accept(id) \/ CancelAny({id})
  \/ Progress \/ Finish \/ TakeEvent \/ DropRuntime

RuntimeSpec == RuntimeInit /\ [][RuntimeNext]_rtVars
=============================================================================
