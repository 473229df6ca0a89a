------------------------ MODULE NativeSwitch_proofs ------------------------
(***************************************************************************)
(* Proofs about NativeSwitch for any releases, warm-ups, request           *)
(* identifiers and panics.                                                 *)
(***************************************************************************)
EXTENDS NativeSwitch, EventStories, FiniteSetTheorems

-----------------------------------------------------------------------------
(* The inductive invariant                                                 *)

Working == pc \notin {"recv", "ended", "panicked"}

(* Commands name what they need, and only a dropped handle says Shutdown.  *)
WellFormed(c) ==
  /\ c.kind = "infer" => c.id \in Requests
  /\ c.kind # "shutdown" => c.variant \in Variants
CommandsInv ==
  /\ \A k \in 1 .. Len(commands) :
       WellFormed(commands[k]) /\ (commands[k].kind = "shutdown" => dropped)
  /\ WellFormed(cmd)
  /\ Working => cmd.kind # "shutdown"
  /\ pc \in {"submit", "forward"} => cmd.kind = "infer"
  /\ pc = "ended" => dropped

(* The one command the handle waits for is queued, at work, or answered,   *)
(* and the answer is the last event of its request.                        *)
Asks(c) ==
  \/ c.kind = "infer" /\ c.id = active /\ active # 0
  \/ c.kind = "prepare" /\ c.variant = preparing /\ preparing # NoVariant
Owed ==
  /\ dropped => active = 0
  /\ ~ dropped =>
       /\ active = 0 \/ preparing = NoVariant
       /\ Story(events, active)
       /\ preparing = NoVariant => prepEvents = <<>>
       /\ Len(prepEvents) <= 1
       /\ commands # <<>> => Len(commands) = 1 /\ pc = "recv" /\ Asks(commands[1])
       /\ Working => Asks(cmd)
       /\ commands # <<>> \/ pc # "recv" => prepEvents = <<>> /\ ~ Final(events)
       /\ commands = <<>> /\ pc = "recv" =>
            (active # 0 => Final(events)) /\ (preparing # NoVariant => prepEvents # <<>>)
       /\ prepEvents = <<"ready">> => model = preparing

(* Which release the switch worker has, and what the shared cell says.     *)
ModelInv ==
  /\ pc # "ended" => resident = model
  /\ pc \in {"retire", "load", "warm", "settle", "publish", "ended", "panicked"} => model = NoVariant
  /\ pc \in {"report", "submit", "forward"} => model = cmd.variant

(* The GPU has what the inference worker owns, and a worker the switch     *)
(* worker has let go of is gone.                                           *)
GpuInv ==
  /\ gpu = IF Gone THEN {} ELSE {wkVariant}
  /\ model = NoVariant /\ pc \notin {"retire", "warm", "settle", "publish", "ended"} => Gone

(* The inference runtime the switch worker holds.                          *)
Live == model # NoVariant \/ pc \in {"warm", "settle", "publish"}
InnerInv ==
  /\ wk = "running" \/ inCommand # 0 => pc \in {"warm", "settle", "forward"}
  /\ wk \in {"running", "sent"} => busy
  /\ inCommand # 0 => wk = "idle" /\ busy /\ inEvents = <<>> /\ inActive = inCommand
  /\ wk = "running" => wkJob = inActive /\ inActive # 0 /\ ~ Final(inEvents)
  /\ wk = "stopped" => stopping
  /\ Live => ~ stopping /\ Story(inEvents, inActive)
  /\ pc = "warm" /\ inActive = 0 => wk = "idle"
  /\ pc = "forward" => inActive = cmd.id

(* A request's token is only cancelled for the adapter.                    *)
TokenInv ==
  pc = "forward" /\ ~ dropped => (token => asked) /\ (Cancels(inEvents) => asked)

IInv == TypeOK /\ CommandsInv /\ Owed /\ ModelInv /\ GpuInv /\ InnerInv /\ TokenInv

LEMMA SettledFinal ==
  ASSUME TypeOK, Story(events, active)
  PROVE  Settled <=> Final(events)
<1>1. DOMAIN events = 1 .. Len(events)
  BY DEF TypeOK
<1> QED
  BY <1>1 DEF Settled, Final, Story

-----------------------------------------------------------------------------
(* Types, in two halves                                                    *)

Event == [kind : EventKinds, id : Requests]
InnerEvent == [kind : EventKinds, id : InnerRequests]

OuterTypes ==
  /\ active \in Requests \cup {0} /\ asked \in BOOLEAN /\ dropped \in BOOLEAN
  /\ preparing \in Variants \cup {NoVariant}
  /\ commands \in Seq(Commands) /\ events \in Seq(Event) /\ prepEvents \in Seq({"ready", "failed"})
  /\ resident \in Variants \cup {NoVariant}
  /\ pc \in {"recv", "unload", "retire", "load", "warm", "settle", "publish", "report",
             "submit", "forward", "ended", "panicked"}
  /\ cmd \in Commands /\ model \in Variants \cup {NoVariant}

InnerTypes ==
  /\ inActive \in InnerRequests \cup {0} /\ token \in BOOLEAN /\ stopping \in BOOLEAN
  /\ busy \in BOOLEAN /\ inCommand \in InnerRequests \cup {0} /\ inEvents \in Seq(InnerEvent)
  /\ wk \in {"idle", "running", "sent", "stopped", "panicked"}
  /\ wkJob \in InnerRequests \cup {0} /\ wkVariant \in Variants /\ gpu \in SUBSET Variants

LEMMA Typed == TypeOK <=> OuterTypes /\ InnerTypes
BY DEF TypeOK, OuterTypes, InnerTypes, Event, InnerEvent

LEMMA Identifiers ==
  /\ 0 \notin Requests /\ 0 \notin InnerRequests /\ Warmup \notin Requests
  /\ InnerRequests = Requests \cup {Warmup} /\ NoVariant \notin Variants /\ Warmed \subseteq Variants
<1>1. MaxRequest \in Nat
  BY SwitchAssumption DEF SwitchAssumption
<1>2. 0 \notin Requests /\ Warmup # 0 /\ Warmup \notin Requests
  BY <1>1 DEF Requests, Warmup
<1> QED
  BY <1>2, SwitchAssumption DEF InnerRequests, SwitchAssumption

LEMMA Kinds == EventKinds = {"progress", "completed", "failed", "cancelled"}
BY DEF EventKinds

LEMMA CommandFields ==
  ASSUME NEW c \in Commands
  PROVE  /\ c.kind \in {"prepare", "infer", "shutdown"} /\ c.id \in Requests \cup {0}
         /\ c.variant \in Variants \cup {NoVariant}
BY DEF Commands

-----------------------------------------------------------------------------
(* The inference worker's steps                                            *)

OuterFrame == UNCHANGED <<handleVars, channelVars, pc, cmd, model>>

LEMMA OuterStill ==
  ASSUME IInv, OuterFrame
  PROVE  OuterTypes' /\ CommandsInv' /\ Owed' /\ ModelInv'
<1>0. UNCHANGED <<active, asked, preparing, dropped, commands, events, prepEvents, resident, pc, cmd, model>>
  BY DEF OuterFrame, handleVars, channelVars
<1>1. OuterTypes'
  BY <1>0, Typed DEF IInv, OuterTypes
<1>2. CommandsInv'
  BY <1>0 DEF IInv, CommandsInv, WellFormed, Working
<1>3. Owed'
  BY <1>0 DEF IInv, Owed, Working, Asks
<1>4. ModelInv'
  BY <1>0 DEF IInv, ModelInv
<1> QED
  BY <1>1, <1>2, <1>3, <1>4

LEMMA Whole ==
  ASSUME TypeOK', CommandsInv', Owed', ModelInv', GpuInv', InnerInv', TokenInv'
  PROVE  IInv'
BY DEF IInv

LEMMA TakeCommandKeeps ==
  ASSUME IInv, Work(TakeCommand)
  PROVE  IInv'
<1> USE DEF IInv
<1>0. OuterFrame /\ OuterTypes' /\ CommandsInv' /\ Owed' /\ ModelInv'
  BY OuterStill DEF Work, OuterFrame
<1>1. /\ wk = "idle" /\ inCommand # 0 /\ wk' = "running" /\ wkJob' = inCommand /\ inCommand' = 0
      /\ UNCHANGED <<inActive, token, stopping, busy, inEvents, wkVariant, gpu, pc, cmd, model,
                     asked, dropped>>
  BY DEF Work, TakeCommand, handleVars
<1>2. InnerTypes'
  BY <1>1, Typed DEF InnerTypes
<1>3. GpuInv'
  BY <1>1 DEF GpuInv, Gone
<1>4. InnerInv'
  BY <1>1, EmptyStory DEF InnerInv, Live
<1>5. TokenInv'
  BY <1>1 DEF TokenInv
<1>6. TypeOK'
  BY <1>0, <1>2, Typed, PTL
<1> QED
  BY <1>0, <1>3, <1>4, <1>5, <1>6

(* The worker sends an event of the request it executes.                   *)
LEMMA SendKeeps ==
  ASSUME IInv, NEW kind \in EventKinds, Work(Send(kind)), wk = "running",
         wk' = IF kind = "progress" THEN "running" ELSE "sent",
         kind = "cancelled" => token,
         UNCHANGED <<inActive, token, inCommand, stopping, busy, wkJob, wkVariant, gpu>>
  PROVE  IInv'
<1> USE DEF IInv
<1>0. OuterFrame /\ OuterTypes' /\ CommandsInv' /\ Owed' /\ ModelInv'
  BY OuterStill DEF Work, OuterFrame
<1> DEFINE e == [kind |-> kind, id |-> wkJob]
<1>1. inEvents' = Append(inEvents, e) /\ UNCHANGED <<pc, cmd, model, asked, dropped>>
  BY DEF Work, Send, handleVars
<1>2. wkJob = inActive /\ inActive # 0 /\ ~ Final(inEvents) /\ pc \in {"warm", "settle", "forward"}
      /\ busy /\ inCommand = 0
  BY DEF InnerInv
<1>3. e \in InnerEvent /\ e.id = inActive /\ e.kind = kind /\ inEvents \in Seq(InnerEvent)
  BY <1>2, Typed DEF InnerTypes, InnerEvent
<1>4. Live
  BY <1>2, Identifiers, CommandFields DEF Live, ModelInv, CommandsInv, WellFormed, OuterTypes, TypeOK
<1>5. /\ inEvents' \in Seq(InnerEvent) /\ inEvents' # <<>> /\ Story(inEvents', inActive)
      /\ (Final(inEvents') <=> kind # "progress") /\ (Cancels(inEvents') <=> kind = "cancelled")
  <2>1. Story(inEvents, inActive)
    BY <1>4 DEF InnerInv
  <2> HIDE DEF e
  <2> QED
    BY <1>1, <1>2, <1>3, <2>1, AppendStory
<1>6. InnerTypes'
  BY <1>5, Typed DEF InnerTypes
<1>7. GpuInv'
  BY <1>1 DEF GpuInv, Gone
<1>8. InnerInv'
  BY <1>1, <1>2, <1>4, <1>5 DEF InnerInv, Live
<1>9. TokenInv'
  BY <1>1, <1>5 DEF TokenInv
<1>10. TypeOK'
  BY <1>0, <1>6, Typed, PTL
<1> QED
  BY <1>0, <1>7, <1>8, <1>9, <1>10

LEMMA ClearBusyKeeps ==
  ASSUME IInv, Work(ClearBusy)
  PROVE  IInv'
<1> USE DEF IInv
<1>0. OuterFrame /\ OuterTypes' /\ CommandsInv' /\ Owed' /\ ModelInv'
  BY OuterStill DEF Work, OuterFrame
<1>1. /\ wk = "sent" /\ wk' = "idle" /\ busy' = FALSE /\ wkJob' = 0
      /\ UNCHANGED <<inActive, token, inCommand, stopping, inEvents, wkVariant, gpu, pc, cmd, model,
                     asked, dropped>>
  BY DEF Work, ClearBusy, handleVars
<1>2. InnerTypes'
  BY <1>1, Typed DEF InnerTypes
<1>3. GpuInv'
  BY <1>1 DEF GpuInv, Gone
<1>4. InnerInv'
  BY <1>1 DEF InnerInv, Live
<1>5. TokenInv'
  BY <1>1 DEF TokenInv
<1>6. TypeOK'
  BY <1>0, <1>2, Typed, PTL
<1> QED
  BY <1>0, <1>3, <1>4, <1>5, <1>6

(* A worker that ends, by a panic or because it was told to, leaves the    *)
(* GPU empty.                                                              *)
LEMMA EndKeeps ==
  ASSUME IInv, Work(Panic) \/ Work(Stop)
  PROVE  IInv'
<1> USE DEF IInv
<1>0. OuterFrame /\ OuterTypes' /\ CommandsInv' /\ Owed' /\ ModelInv'
  BY OuterStill DEF Work, OuterFrame
<1>1. /\ \/ wk = "running" /\ wk' = "panicked" /\ wkJob' = 0 /\ busy' = busy
         \/ wk = "idle" /\ stopping /\ inCommand = 0 /\ wk' = "stopped" /\ busy' = FALSE /\ wkJob' = wkJob
      /\ gpu' = gpu \ {wkVariant}
      /\ UNCHANGED <<inActive, token, inCommand, stopping, inEvents, wkVariant, pc, cmd, model,
                     asked, dropped>>
  BY DEF Work, Panic, Stop, handleVars, innerVars
<1>2. InnerTypes'
  BY <1>1, Typed DEF InnerTypes
<1>3. GpuInv'
  BY <1>1 DEF GpuInv, Gone
<1>4. InnerInv'
  BY <1>1 DEF InnerInv, Live
<1>5. TokenInv'
  BY <1>1 DEF TokenInv
<1>6. TypeOK'
  BY <1>0, <1>2, Typed, PTL
<1> QED
  BY <1>0, <1>3, <1>4, <1>5, <1>6

LEMMA WorkerKeeps ==
  ASSUME IInv, WorkerStep
  PROVE  IInv'
<1>1. CASE Work(Observe)
  <2>1. /\ wk = "running" /\ Work(Send("progress"))
        /\ UNCHANGED <<inActive, token, inCommand, stopping, busy, wk, wkJob, wkVariant, gpu>>
    BY <1>1 DEF Work, Observe, workerVars
  <2> QED
    BY <2>1, SendKeeps, Kinds
<1>2. CASE Work(Finish)
  <2>1. /\ wk = "running" /\ wk' = "sent"
        /\ UNCHANGED <<inActive, token, inCommand, stopping, busy, wkJob, wkVariant, gpu>>
        /\ Work(Send("completed")) \/ Work(Send("failed")) \/ (token /\ Work(Send("cancelled")))
    BY <1>2 DEF Work, Finish
  <2> QED
    BY <2>1, SendKeeps, Kinds
<1> QED
  BY <1>1, <1>2, TakeCommandKeeps, ClearBusyKeeps, EndKeeps DEF WorkerStep

-----------------------------------------------------------------------------
(* The handle's steps                                                      *)

InnerFrame == UNCHANGED <<pc, cmd, model, resident, innerVars, workerVars>>

LEMMA InnerStill ==
  ASSUME IInv, InnerFrame
  PROVE  InnerTypes' /\ ModelInv' /\ GpuInv' /\ InnerInv'
<1>0. UNCHANGED <<pc, cmd, model, resident, inActive, token, inCommand, stopping, busy, inEvents,
                  wk, wkJob, wkVariant, gpu>>
  BY DEF InnerFrame, innerVars, workerVars
<1>1. InnerTypes'
  BY <1>0, Typed DEF IInv, InnerTypes
<1>2. ModelInv' /\ GpuInv'
  BY <1>0 DEF IInv, ModelInv, GpuInv, Gone
<1>3. InnerInv'
  BY <1>0 DEF IInv, InnerInv, Live
<1> QED
  BY <1>1, <1>2, <1>3

LEMMA HandleParts ==
  ASSUME IInv, InnerFrame, active' \in Requests \cup {0}, asked' \in BOOLEAN, dropped' \in BOOLEAN,
         preparing' \in Variants \cup {NoVariant}, commands' \in Seq(Commands),
         events' \in Seq(Event), prepEvents' \in Seq({"ready", "failed"}),
         CommandsInv', Owed', TokenInv'
  PROVE  IInv'
<1>1. InnerTypes' /\ ModelInv' /\ GpuInv' /\ InnerInv'
  BY InnerStill
<1>2. OuterTypes'
  BY Typed DEF InnerFrame, IInv, OuterTypes
<1>3. TypeOK'
  BY <1>1, <1>2, Typed, PTL
<1> QED
  BY <1>1, <1>3, Whole

(* While nothing is under way every channel is empty and the switch worker *)
(* waits.                                                                  *)
LEMMA IdleIsQuiet ==
  ASSUME IInv, Idle, Listening
  PROVE  commands = <<>> /\ pc = "recv" /\ events = <<>> /\ prepEvents = <<>>
<1> USE DEF IInv
<1>1. ~ dropped /\ active = 0 /\ preparing = NoVariant /\ pc # "panicked"
  BY DEF Idle, Listening
<1>2. \A c : ~ Asks(c)
  BY <1>1 DEF Asks
<1>3. commands = <<>> /\ pc = "recv" /\ prepEvents = <<>>
  BY <1>1, <1>2 DEF Owed, Working, CommandsInv
<1>4. Story(events, active) /\ events \in Seq(Event)
  BY <1>1, Typed DEF Owed, OuterTypes
<1>5. events = <<>>
  <2>1. SUFFICES ASSUME events # <<>> PROVE FALSE
    OBVIOUS
  <2>2. Head(events) \in Event /\ Head(events).id = 0
    BY <1>1, <1>4, <2>1, TailStory
  <2> QED
    BY <2>2, Identifiers DEF Event
<1> QED
  BY <1>3, <1>5

LEMMA AppendCommand ==
  ASSUME NEW q \in Seq(Commands), NEW c \in Commands
  PROVE  /\ Append(q, c) \in Seq(Commands) /\ Len(Append(q, c)) = Len(q) + 1 /\ Len(q) \in Nat
         /\ \A k \in 1 .. Len(Append(q, c)) :
              (k \in 1 .. Len(q) /\ Append(q, c)[k] = q[k]) \/ (k = Len(q) + 1 /\ Append(q, c)[k] = c)
OBVIOUS

(* A command for an idle handle.                                           *)
LEMMA CommandKeeps ==
  ASSUME IInv, Idle, Listening, NEW c \in Commands, c.kind # "shutdown", WellFormed(c),
         commands' = Append(commands, c), active' \in Requests \cup {0},
         preparing' \in Variants \cup {NoVariant}, active' = 0 \/ preparing' = NoVariant, Asks(c)',
         asked' \in BOOLEAN, UNCHANGED <<dropped, events, prepEvents>>, InnerFrame
  PROVE  IInv'
<1>1. commands = <<>> /\ pc = "recv" /\ events = <<>> /\ prepEvents = <<>> /\ ~ dropped
  BY IdleIsQuiet DEF Listening
<1>2. commands' \in Seq(Commands) /\ Len(commands') = 1 /\ commands' # <<>> /\ commands'[1] = c
      /\ \A k \in 1 .. Len(commands') : commands'[k] = c
  BY <1>1
<1>3. pc' = "recv" /\ cmd' = cmd /\ model' = model
  BY <1>1 DEF InnerFrame
<1>4. CommandsInv'
  BY <1>2, <1>3 DEF IInv, CommandsInv, WellFormed, Working
<1>5. Story(events', active') /\ ~ Final(events') /\ Len(prepEvents') <= 1
  BY <1>1, EmptyStory, EmptySeq
<1>6. Asks(commands[1])'
  BY <1>2 DEF Asks
<1>7. Owed'
  BY <1>1, <1>2, <1>3, <1>5, <1>6 DEF Owed, Working
<1>8. TokenInv'
  BY <1>3 DEF TokenInv
<1> QED
  BY <1>1, <1>2, <1>4, <1>7, <1>8, HandleParts, Typed DEF IInv, OuterTypes

LEMMA PrepareKeeps ==
  ASSUME IInv, NEW v \in Variants, Prepare(v)
  PROVE  IInv'
<1> DEFINE c == [kind |-> "prepare", id |-> 0, variant |-> v]
<1>1. /\ Idle /\ Listening /\ commands' = Append(commands, c) /\ preparing' = v
      /\ UNCHANGED <<active, asked, dropped, events, prepEvents>> /\ InnerFrame
  BY DEF Prepare, InnerFrame
<1>2. c \in Commands /\ c.kind # "shutdown" /\ WellFormed(c)
  BY DEF Commands, WellFormed
<1>3. Asks(c)'
  BY <1>1, Identifiers DEF Asks
<1>4. active' = 0 /\ asked' \in BOOLEAN
  BY <1>1, Typed DEF Idle, IInv, OuterTypes
<1> HIDE DEF c
<1> QED
  BY <1>1, <1>2, <1>3, <1>4, CommandKeeps

LEMMA SubmitKeeps ==
  ASSUME IInv, NEW id \in Requests, NEW v \in Variants, Submit(id, v)
  PROVE  IInv'
<1> DEFINE c == [kind |-> "infer", id |-> id, variant |-> v]
<1>1. /\ Idle /\ Listening /\ commands' = Append(commands, c) /\ active' = id /\ asked' = FALSE
      /\ UNCHANGED <<preparing, dropped, events, prepEvents>> /\ InnerFrame
  BY DEF Submit, InnerFrame
<1>2. c \in Commands /\ c.kind # "shutdown" /\ WellFormed(c)
  BY DEF Commands, WellFormed
<1>3. Asks(c)'
  BY <1>1, Identifiers DEF Asks
<1>4. preparing' = NoVariant
  BY <1>1 DEF Idle
<1> HIDE DEF c
<1> QED
  BY <1>1, <1>2, <1>3, <1>4, CommandKeeps

LEMMA CancelKeeps ==
  ASSUME IInv, Cancel
  PROVE  IInv'
<1>1. /\ asked' = TRUE /\ UNCHANGED <<active, preparing, dropped, commands, events, prepEvents>>
      /\ InnerFrame
  BY DEF Cancel, InnerFrame, channelVars
<1>2. UNCHANGED <<pc, cmd, model>>
  BY <1>1 DEF InnerFrame
<1>3. CommandsInv'
  BY <1>1, <1>2 DEF IInv, CommandsInv, WellFormed, Working
<1>4. Owed'
  BY <1>1, <1>2 DEF IInv, Owed, Working, Asks
<1>5. TokenInv'
  BY <1>1 DEF TokenInv
<1> QED
  BY <1>1, <1>3, <1>4, <1>5, HandleParts, Typed DEF IInv, OuterTypes

LEMMA PollKeeps ==
  ASSUME IInv, Poll
  PROVE  IInv'
<1> USE DEF IInv
<1>1. /\ ~ dropped /\ events # <<>> /\ events' = Tail(events)
      /\ active' = (IF Head(events).kind # "progress" /\ Head(events).id = active THEN 0 ELSE active)
      /\ UNCHANGED <<asked, preparing, dropped, commands, prepEvents>> /\ InnerFrame
  BY DEF Poll, InnerFrame
<1>2. UNCHANGED <<pc, cmd, model, token, inEvents>>
  BY <1>1 DEF InnerFrame, innerVars
<1>3. events \in Seq(Event) /\ Story(events, active) /\ active \in Requests \cup {0}
  BY <1>1, Typed DEF Owed, OuterTypes
<1>4. /\ Head(events) \in Event /\ Head(events).id = active /\ events' \in Seq(Event)
      /\ Story(events', active)
      /\ (Head(events).kind # "progress" => events' = <<>> /\ Final(events))
      /\ (Head(events).kind = "progress" => (Final(events') <=> Final(events)))
  BY <1>1, <1>3, TailStory
<1>5. active # 0 /\ preparing = NoVariant
  BY <1>1, <1>4, Identifiers DEF Event, Owed
<1>6. CommandsInv'
  BY <1>1, <1>2 DEF CommandsInv, WellFormed, Working
<1>7. Owed'
  <2>1. CASE Head(events).kind = "progress"
    <3>1. active' = active
      BY <1>1, <2>1
    <3> QED
      BY <1>1, <1>2, <1>4, <2>1, <3>1 DEF Owed, Working, Asks
  <2>2. CASE Head(events).kind # "progress"
    <3>1. active' = 0 /\ events' = <<>> /\ commands = <<>> /\ pc = "recv"
      BY <1>1, <1>4, <2>2 DEF Owed
    <3>2. Story(events', active') /\ ~ Final(events')
      BY <3>1, EmptyStory
    <3> QED
      BY <1>1, <1>2, <1>5, <3>1, <3>2 DEF Owed, Working
  <2> QED
    BY <2>1, <2>2
<1>8. TokenInv'
  BY <1>1, <1>2 DEF TokenInv
<1> QED
  BY <1>1, <1>3, <1>4, <1>6, <1>7, <1>8, HandleParts, Typed DEF OuterTypes

LEMMA PollDisconnectedKeeps ==
  ASSUME IInv, PollDisconnected
  PROVE  IInv'
<1> USE DEF IInv
<1>1. /\ ~ dropped /\ pc = "panicked" /\ events = <<>> /\ active # 0 /\ active' = 0
      /\ UNCHANGED <<asked, preparing, dropped, commands, events, prepEvents>> /\ InnerFrame
  BY DEF PollDisconnected, InnerFrame, channelVars
<1>2. UNCHANGED <<pc, cmd, model>>
  BY <1>1 DEF InnerFrame
<1>3. commands = <<>> /\ preparing = NoVariant /\ Story(events', active') /\ ~ Final(events')
  BY <1>1, EmptyStory DEF Owed
<1>4. CommandsInv'
  BY <1>1, <1>2 DEF CommandsInv, WellFormed, Working
<1>5. Owed'
  BY <1>1, <1>2, <1>3 DEF Owed, Working
<1>6. TokenInv'
  BY <1>1, <1>2 DEF TokenInv
<1> QED
  BY <1>1, <1>4, <1>5, <1>6, HandleParts, Typed DEF OuterTypes

LEMMA PollPreparationKeeps ==
  ASSUME IInv, PollPreparation
  PROVE  IInv'
<1> USE DEF IInv
<1>1. /\ ~ dropped /\ preparing # NoVariant /\ preparing' = NoVariant
      /\ \/ prepEvents # <<>> /\ prepEvents' = Tail(prepEvents)
         \/ prepEvents = <<>> /\ pc = "panicked" /\ prepEvents' = prepEvents
      /\ UNCHANGED <<active, asked, dropped, commands, events>> /\ InnerFrame
  BY DEF PollPreparation, InnerFrame
<1>2. UNCHANGED <<pc, cmd, model, token, inEvents>>
  BY <1>1 DEF InnerFrame, innerVars
<1>3. prepEvents \in Seq({"ready", "failed"}) /\ Len(prepEvents) <= 1
  BY <1>1, Typed DEF Owed, OuterTypes
<1>4. prepEvents' \in Seq({"ready", "failed"}) /\ prepEvents' = <<>>
  BY <1>1, <1>3, EmptySeq
<1>5. commands = <<>> /\ pc \in {"recv", "panicked"} /\ active = 0
  BY <1>1 DEF Owed
<1>6. CommandsInv'
  BY <1>1, <1>2 DEF CommandsInv, WellFormed, Working
<1>7. Len(prepEvents') <= 1 /\ prepEvents' # <<"ready">>
  BY <1>4
<1>8. Owed'
  BY <1>1, <1>2, <1>4, <1>5, <1>7 DEF Owed, Working
<1>9. TokenInv'
  BY <1>1, <1>2 DEF TokenInv
<1> QED
  BY <1>1, <1>4, <1>6, <1>8, <1>9, HandleParts, Typed DEF OuterTypes

LEMMA DropKeeps ==
  ASSUME IInv, Drop
  PROVE  IInv'
<1> USE DEF IInv
<1>1. /\ dropped' = TRUE /\ asked' = (active # 0) /\ active' = 0
      /\ commands' = Append(commands, Shutdown)
      /\ UNCHANGED <<preparing, events, prepEvents>> /\ InnerFrame
  BY DEF Drop, InnerFrame
<1>2. UNCHANGED <<pc, cmd, model>>
  BY <1>1 DEF InnerFrame
<1>3. Shutdown \in Commands /\ Shutdown.kind = "shutdown" /\ WellFormed(Shutdown)
  BY DEF Shutdown, Commands, WellFormed
<1>4. commands \in Seq(Commands)
  BY Typed DEF OuterTypes
<1>5. /\ commands' \in Seq(Commands)
      /\ \A k \in 1 .. Len(commands') :
           (k \in 1 .. Len(commands) /\ commands'[k] = commands[k]) \/ commands'[k] = Shutdown
  BY <1>1, <1>3, <1>4, AppendCommand
<1>6. CommandsInv'
  BY <1>1, <1>2, <1>3, <1>5 DEF CommandsInv, WellFormed, Working
<1>7. Owed' /\ TokenInv'
  BY <1>1 DEF Owed, TokenInv
<1>8. asked' \in BOOLEAN
  BY <1>1
<1> QED
  BY <1>1, <1>5, <1>6, <1>7, <1>8, HandleParts, Typed DEF OuterTypes

LEMMA HandleKeeps ==
  ASSUME IInv, HandleStep
  PROVE  IInv'
BY PrepareKeeps, SubmitKeeps, CancelKeeps, PollKeeps, PollDisconnectedKeeps, PollPreparationKeeps,
   DropKeeps DEF HandleStep

-----------------------------------------------------------------------------
(* The switch worker's command                                             *)

QueueOk(q) ==
  \A k \in 1 .. Len(q) : WellFormed(q[k]) /\ (q[k].kind = "shutdown" => dropped)

(* The worker has taken c, and the rest is queued.                         *)
InHand(c, rest) ==
  /\ c \in Commands /\ WellFormed(c) /\ c.kind # "shutdown"
  /\ rest \in Seq(Commands) /\ QueueOk(rest)
  /\ ~ dropped => Asks(c) /\ rest = <<>> /\ ~ Final(events) /\ prepEvents = <<>>

LEMMA WorksOnIt ==
  ASSUME IInv, Working
  PROVE  InHand(cmd, commands)
<1>1. cmd \in Commands /\ commands \in Seq(Commands)
  BY Typed DEF IInv, OuterTypes
<1>2. WellFormed(cmd) /\ cmd.kind # "shutdown" /\ QueueOk(commands)
  BY DEF IInv, CommandsInv, QueueOk
<1>3. ~ dropped => Asks(cmd) /\ commands = <<>> /\ ~ Final(events) /\ prepEvents = <<>>
  BY DEF IInv, Owed, Working
<1> QED
  BY <1>1, <1>2, <1>3 DEF InHand

LEMMA TakesIt ==
  ASSUME IInv, Receive
  PROVE  /\ cmd' \in Commands /\ WellFormed(cmd') /\ (cmd'.kind = "shutdown" => dropped)
         /\ commands' \in Seq(Commands) /\ QueueOk(commands')
         /\ cmd'.kind # "shutdown" => InHand(cmd', commands')
<1>1. pc = "recv" /\ commands # <<>> /\ cmd' = Head(commands) /\ commands' = Tail(commands)
  BY DEF Receive
<1>2. commands \in Seq(Commands)
  BY Typed DEF IInv, OuterTypes
<1>3. /\ Len(commands) \in Nat /\ Len(commands) >= 1 /\ cmd' = commands[1]
      /\ commands' \in Seq(Commands) /\ Len(commands') = Len(commands) - 1
      /\ 1 \in 1 .. Len(commands)
      /\ \A k \in 1 .. Len(commands) - 1 :
           k + 1 \in 1 .. Len(commands) /\ commands'[k] = commands[k + 1]
  BY <1>1, <1>2
<1>4. cmd' \in Commands
  BY <1>2, <1>3, ElementOfSeq
<1>5. WellFormed(cmd') /\ (cmd'.kind = "shutdown" => dropped)
  BY <1>3 DEF IInv, CommandsInv
<1>6. QueueOk(commands')
  <2>1. SUFFICES ASSUME NEW k \in 1 .. Len(commands')
                 PROVE  WellFormed(commands'[k]) /\ (commands'[k].kind = "shutdown" => dropped)
    BY DEF QueueOk
  <2>2. k + 1 \in 1 .. Len(commands) /\ commands'[k] = commands[k + 1]
    BY <1>3
  <2> QED
    BY <2>2 DEF IInv, CommandsInv
<1>7. ASSUME ~ dropped
      PROVE  Asks(cmd') /\ commands' = <<>> /\ ~ Final(events) /\ prepEvents = <<>>
  <2>1. Len(commands) = 1 /\ Asks(commands[1]) /\ ~ Final(events) /\ prepEvents = <<>>
    BY <1>1, <1>7 DEF IInv, Owed
  <2>2. Len(commands') = 0
    BY <1>3, <2>1
  <2>3. commands' = <<>>
    BY <1>3, <2>2, EmptySeq
  <2> QED
    BY <1>3, <2>1, <2>3
<1> QED
  BY <1>3, <1>4, <1>5, <1>6, <1>7 DEF InHand

LEMMA HandleStill ==
  handleVars' = handleVars => UNCHANGED <<active, asked, preparing, dropped>>
BY DEF handleVars

LEMMA AppendEvent ==
  ASSUME NEW q \in Seq(Event), NEW kind \in EventKinds, NEW id \in Requests
  PROVE  Append(q, [kind |-> kind, id |-> id]) \in Seq(Event)
<1>1. [kind |-> kind, id |-> id] \in Event
  BY DEF Event
<1> QED
  BY <1>1

(* The worker goes on with the command; a request may hear of it.          *)
LEMMA GoesOn ==
  ASSUME IInv, NEW c, NEW rest, InHand(c, rest), cmd' = c, commands' = rest,
         pc' \in {"unload", "retire", "load", "warm", "settle", "publish", "report", "submit", "forward"},
         pc' \in {"submit", "forward"} => c.kind = "infer", UNCHANGED <<handleVars, prepEvents>>,
         resident' \in Variants \cup {NoVariant}, model' \in Variants \cup {NoVariant},
         events' = events \/ (c.kind = "infer" /\ Report("progress", c.id))
  PROVE  OuterTypes' /\ CommandsInv' /\ Owed'
<1> USE HandleStill DEF InHand
<1>1. events \in Seq(Event)
  BY Typed DEF IInv, OuterTypes
<1>2. events' \in Seq(Event)
  BY <1>1, AppendEvent, Kinds DEF Report, WellFormed
<1>3. OuterTypes'
  BY <1>2, Typed DEF IInv, OuterTypes
<1>4. CommandsInv'
  BY DEF CommandsInv, QueueOk, WellFormed, Working
<1>5. ASSUME ~ dropped PROVE Story(events', active) /\ ~ Final(events')
  <2>1. Story(events, active) /\ ~ Final(events)
    BY <1>5 DEF IInv, Owed
  <2>2. ASSUME c.kind = "infer", Report("progress", c.id) PROVE Story(events', active) /\ ~ Final(events')
    <3> DEFINE e == [kind |-> "progress", id |-> c.id]
    <3>1. e \in Event /\ e.id = active /\ e.kind = "progress" /\ events' = Append(events, e)
      BY <1>5, <2>2, Kinds DEF WellFormed, Event, Asks, Report
    <3> HIDE DEF e
    <3> QED
      BY <1>1, <2>1, <3>1, AppendStory
  <2> QED
    BY <2>1, <2>2
<1>6. ASSUME ~ dropped PROVE Asks(cmd)'
  BY <1>6 DEF Asks
<1>7. Owed'
  <2>1. ASSUME ~ dropped
        PROVE  /\ prepEvents' = <<>> /\ commands' = <<>>
               /\ Len(prepEvents') <= 1 /\ prepEvents' # <<"ready">>
    BY <2>1
  <2> QED
    BY <1>5, <1>6, <2>1 DEF IInv, Owed, Working
<1> QED
  BY <1>3, <1>4, <1>7

(* The worker answers the command and waits for the next one.              *)
LEMMA AnswersIt ==
  ASSUME IInv, NEW c, NEW rest, InHand(c, rest), cmd' = c, commands' = rest, pc' = "recv",
         UNCHANGED handleVars,
         resident' \in Variants \cup {NoVariant}, model' \in Variants \cup {NoVariant},
         \/ /\ c.kind = "prepare" /\ events' = events
            /\ \E x \in {"ready", "failed"} :
                 prepEvents' = Append(prepEvents, x) /\ (x = "ready" => model' = c.variant)
         \/ /\ c.kind = "infer" /\ prepEvents' = prepEvents
            /\ \E kind \in EventKinds \ {"progress"} : Report(kind, c.id)
  PROVE  OuterTypes' /\ CommandsInv' /\ Owed'
<1> USE HandleStill DEF InHand
<1>1. events \in Seq(Event) /\ prepEvents \in Seq({"ready", "failed"})
  BY Typed DEF IInv, OuterTypes
<1>2. events' \in Seq(Event) /\ prepEvents' \in Seq({"ready", "failed"})
  <2>1. ASSUME NEW x \in {"ready", "failed"} PROVE Append(prepEvents, x) \in Seq({"ready", "failed"})
    BY <1>1
  <2>2. ASSUME c.kind = "infer", NEW kind \in EventKinds, Report(kind, c.id) PROVE events' \in Seq(Event)
    <3>1. c.id \in Requests /\ events' = Append(events, [kind |-> kind, id |-> c.id])
      BY <2>2 DEF Report, WellFormed
    <3> QED
      BY <1>1, <3>1, AppendEvent
  <2> QED
    BY <1>1, <2>1, <2>2
<1>3. OuterTypes'
  BY <1>2, Typed DEF IInv, OuterTypes
<1>4. CommandsInv'
  BY DEF CommandsInv, QueueOk, WellFormed, Working
<1>5. ASSUME ~ dropped, c.kind = "prepare" PROVE Owed'
  <2>1. active = 0 /\ preparing = c.variant /\ preparing # NoVariant /\ prepEvents = <<>> /\ commands' = <<>>
    BY <1>5 DEF Asks, IInv, Owed
  <2>2. PICK x \in {"ready", "failed"} :
          prepEvents' = Append(prepEvents, x) /\ (x = "ready" => model' = c.variant)
    BY <1>5
  <2>3. prepEvents' = <<x>> /\ Len(prepEvents') = 1 /\ prepEvents' # <<>>
    BY <2>1, <2>2
  <2>4. prepEvents' = <<"ready">> => model' = preparing
    BY <2>1, <2>2, <2>3
  <2>5. Story(events', active')
    BY <1>5 DEF IInv, Owed
  <2> QED
    BY <1>5, <2>1, <2>3, <2>4, <2>5 DEF Owed, Working
<1>6. ASSUME ~ dropped, c.kind = "infer" PROVE Owed'
  <2>1. active = c.id /\ active # 0 /\ preparing = NoVariant /\ prepEvents = <<>> /\ commands' = <<>>
    BY <1>6 DEF Asks, IInv, Owed
  <2>2. PICK kind \in EventKinds \ {"progress"} : Report(kind, c.id)
    BY <1>6
  <2> DEFINE e == [kind |-> kind, id |-> c.id]
  <2>3. e \in Event /\ e.id = active /\ e.kind # "progress" /\ events' = Append(events, e)
    BY <1>6, <2>1, <2>2 DEF WellFormed, Event, Report
  <2>4. Story(events, active) /\ ~ Final(events)
    BY <1>6 DEF IInv, Owed
  <2> HIDE DEF e
  <2>5. Story(events', active) /\ Final(events')
    BY <1>1, <2>3, <2>4, AppendStory
  <2>6. Len(prepEvents') <= 1 /\ prepEvents' = <<>>
    BY <1>6, <2>1
  <2> QED
    BY <1>6, <2>1, <2>5, <2>6 DEF Owed, Working
<1>7. ASSUME dropped PROVE Owed'
  BY <1>7 DEF IInv, Owed
<1> QED
  BY <1>3, <1>4, <1>5, <1>6, <1>7, CommandFields

(* A failure is an answer.                                                 *)
LEMMA FailAnswers ==
  ASSUME NEW c, Fail(c)
  PROVE  /\ pc' = "recv"
         /\ \/ /\ c.kind = "prepare" /\ events' = events
               /\ \E x \in {"ready", "failed"} : prepEvents' = Append(prepEvents, x) /\ x # "ready"
            \/ /\ c.kind # "prepare" /\ prepEvents' = prepEvents
               /\ \E kind \in EventKinds \ {"progress"} : Report(kind, c.id)
BY Kinds DEF Fail

(* What is left to show of a step of the switch worker.                    *)
LEMMA SwitchParts ==
  ASSUME OuterTypes' /\ CommandsInv' /\ Owed', InnerTypes', ModelInv', GpuInv', InnerInv', TokenInv'
  PROVE  IInv'
<1>1. TypeOK'
  BY Typed, PTL
<1> QED
  BY <1>1, Whole

LEMMA InnerSame ==
  ASSUME IInv, UNCHANGED <<innerVars, workerVars>>
  PROVE  /\ InnerTypes'
         /\ UNCHANGED <<inActive, token, inCommand, stopping, busy, inEvents, wk, wkJob, wkVariant, gpu>>
         /\ Gone' = Gone
<1>1. UNCHANGED <<inActive, token, inCommand, stopping, busy, inEvents, wk, wkJob, wkVariant, gpu>>
  BY DEF innerVars, workerVars
<1>2. InnerTypes'
  BY <1>1, Typed DEF IInv, InnerTypes
<1> QED
  BY <1>1, <1>2 DEF Gone

-----------------------------------------------------------------------------
(* The switch worker's steps                                               *)

LEMMA CellTypes ==
  IInv => resident \in Variants \cup {NoVariant} /\ model \in Variants \cup {NoVariant}
BY Typed DEF IInv, OuterTypes

LEMMA SkipKeeps ==
  ASSUME IInv, RejectContext \/ SkipCancelled
  PROVE  IInv'
<1>1. /\ Receive /\ pc = "recv" /\ pc' = "recv" /\ UNCHANGED handleVars
      /\ UNCHANGED <<resident, model, innerVars, workerVars>>
  BY DEF RejectContext, SkipCancelled, Receive, Fail
<1>2. \/ cmd'.kind \in {"prepare", "infer"} /\ Fail(cmd')
      \/ cmd'.kind = "infer" /\ Report("cancelled", cmd'.id) /\ UNCHANGED prepEvents
  BY DEF RejectContext, SkipCancelled, Wanted
<1>3. InHand(cmd', commands')
  BY <1>1, <1>2, TakesIt
<1>4. OuterTypes' /\ CommandsInv' /\ Owed'
  BY <1>1, <1>2, <1>3, AnswersIt, FailAnswers, CellTypes, Kinds
<1>5. /\ InnerTypes' /\ Gone' = Gone
      /\ UNCHANGED <<inActive, token, inCommand, stopping, busy, inEvents, wk, wkJob, wkVariant, gpu>>
  BY <1>1, InnerSame
<1>6. ModelInv' /\ GpuInv' /\ InnerInv' /\ TokenInv'
  BY <1>1, <1>5 DEF IInv, ModelInv, GpuInv, InnerInv, TokenInv, Live
<1> QED
  BY <1>4, <1>5, <1>6, SwitchParts

LEMMA StartResidentKeeps ==
  ASSUME IInv, StartResident
  PROVE  IInv'
<1>1. /\ Receive /\ pc = "recv" /\ cmd'.kind = "infer" /\ model = cmd'.variant /\ pc' = "submit"
      /\ UNCHANGED handleVars /\ UNCHANGED <<events, prepEvents, resident, model, innerVars, workerVars>>
  BY DEF StartResident, Receive
<1>2. InHand(cmd', commands')
  BY <1>1, TakesIt
<1>3. OuterTypes' /\ CommandsInv' /\ Owed'
  BY <1>1, <1>2, GoesOn, CellTypes
<1>4. /\ InnerTypes' /\ Gone' = Gone
      /\ UNCHANGED <<inActive, token, inCommand, stopping, busy, inEvents, wk, wkJob, wkVariant, gpu>>
  BY <1>1, InnerSame
<1>5. ModelInv' /\ GpuInv' /\ InnerInv' /\ TokenInv'
  BY <1>1, <1>4 DEF IInv, ModelInv, GpuInv, InnerInv, TokenInv, Live
<1> QED
  BY <1>3, <1>4, <1>5, SwitchParts

LEMMA StartSwitchKeeps ==
  ASSUME IInv, StartSwitch
  PROVE  IInv'
<1>1. /\ Receive /\ pc = "recv" /\ cmd'.kind \in {"prepare", "infer"} /\ pc' = "unload"
      /\ events' = events \/ (cmd'.kind = "infer" /\ Report("progress", cmd'.id))
      /\ UNCHANGED handleVars /\ UNCHANGED <<prepEvents, resident, model, innerVars, workerVars>>
  BY DEF StartSwitch, Receive, Wanted
<1>2. InHand(cmd', commands')
  BY <1>1, TakesIt
<1>3. OuterTypes' /\ CommandsInv' /\ Owed'
  BY <1>1, <1>2, GoesOn, CellTypes
<1>4. /\ InnerTypes' /\ Gone' = Gone
      /\ UNCHANGED <<inActive, token, inCommand, stopping, busy, inEvents, wk, wkJob, wkVariant, gpu>>
  BY <1>1, InnerSame
<1>5. ModelInv' /\ GpuInv' /\ InnerInv' /\ TokenInv'
  BY <1>1, <1>4 DEF IInv, ModelInv, GpuInv, InnerInv, TokenInv, Live
<1> QED
  BY <1>3, <1>4, <1>5, SwitchParts

(* The command stays in hand while the worker changes what it owns.        *)
LEMMA StaysInHand ==
  ASSUME IInv, Working, UNCHANGED <<handleVars, commands, cmd, prepEvents>>,
         pc' \in {"unload", "retire", "load", "warm", "settle", "publish", "report", "submit", "forward"},
         pc' \in {"submit", "forward"} => cmd.kind = "infer",
         resident' \in Variants \cup {NoVariant}, model' \in Variants \cup {NoVariant},
         events' = events \/ (cmd.kind = "infer" /\ Report("progress", cmd.id))
  PROVE  OuterTypes' /\ CommandsInv' /\ Owed'
BY WorksOnIt, GoesOn

LEMMA FailsIt ==
  ASSUME IInv, Working, Fail(cmd), UNCHANGED <<handleVars, commands, cmd, resident, model>>
  PROVE  OuterTypes' /\ CommandsInv' /\ Owed' /\ pc' = "recv"
<1>1. InHand(cmd, commands)
  BY WorksOnIt
<1>2. cmd.kind \in {"prepare", "infer"}
  BY <1>1, CommandFields DEF InHand
<1> QED
  BY <1>1, <1>2, FailAnswers, AnswersIt, CellTypes

LEMMA UnloadKeeps ==
  ASSUME IInv, Unload
  PROVE  IInv'
<1> USE DEF IInv
<1>1. /\ pc = "unload" /\ resident' = NoVariant /\ model' = NoVariant
      /\ \/ model = NoVariant /\ pc' = "load" /\ UNCHANGED <<token, inActive, stopping>>
         \/ /\ model # NoVariant /\ pc' = "retire"
            /\ token' = (token \/ inActive # 0) /\ inActive' = 0 /\ stopping' = TRUE
      /\ UNCHANGED <<handleVars, commands, events, prepEvents, cmd, inCommand, busy, inEvents>>
      /\ UNCHANGED <<wk, wkJob, wkVariant, gpu>>
  BY DEF Unload, workerVars
<1>2. OuterTypes' /\ CommandsInv' /\ Owed'
  BY <1>1, StaysInHand DEF Working
<1>3. InnerTypes'
  BY <1>1, Typed DEF InnerTypes
<1>4. ModelInv' /\ GpuInv' /\ TokenInv'
  BY <1>1 DEF ModelInv, GpuInv, Gone, TokenInv
<1>5. InnerInv'
  BY <1>1 DEF InnerInv, Live
<1> QED
  BY <1>2, <1>3, <1>4, <1>5, SwitchParts

LEMMA RetireKeeps ==
  ASSUME IInv, Retire
  PROVE  IInv'
<1> USE DEF IInv
<1>1. /\ pc = "retire"
      /\ \/ wk = "stopped" /\ busy' = FALSE /\ pc' = "load" /\ UNCHANGED <<events, prepEvents>>
         \/ wk = "panicked" /\ Fail(cmd) /\ pc' = "recv" /\ UNCHANGED busy
      /\ UNCHANGED <<handleVars, commands, resident, cmd, model>>
      /\ UNCHANGED <<inActive, token, inCommand, stopping, inEvents, wk, wkJob, wkVariant, gpu>>
  BY DEF Retire, Fail, workerVars
<1>2. OuterTypes' /\ CommandsInv' /\ Owed'
  BY <1>1, StaysInHand, FailsIt, CellTypes DEF Working
<1>3. InnerTypes'
  BY <1>1, Typed DEF InnerTypes
<1>4. ModelInv' /\ GpuInv' /\ TokenInv'
  BY <1>1 DEF ModelInv, GpuInv, Gone, TokenInv
<1>5. InnerInv'
  BY <1>1 DEF InnerInv, ModelInv, Live
<1> QED
  BY <1>2, <1>3, <1>4, <1>5, SwitchParts

LEMMA LoadFailsKeeps ==
  ASSUME IInv, LoadFails
  PROVE  IInv'
<1>1. /\ pc = "load" /\ Fail(cmd) /\ pc' = "recv"
      /\ UNCHANGED <<handleVars, commands, resident, cmd, model, innerVars, workerVars>>
  BY DEF LoadFails, Unmoved, Fail
<1>2. OuterTypes' /\ CommandsInv' /\ Owed'
  BY <1>1, FailsIt DEF Working
<1>3. /\ InnerTypes' /\ Gone' = Gone
      /\ UNCHANGED <<inActive, token, inCommand, stopping, busy, inEvents, wk, wkJob, wkVariant, gpu>>
  BY <1>1, InnerSame
<1>4. ModelInv' /\ GpuInv' /\ InnerInv' /\ TokenInv'
  BY <1>1, <1>3 DEF IInv, ModelInv, GpuInv, InnerInv, TokenInv, Live
<1> QED
  BY <1>2, <1>3, <1>4, SwitchParts

LEMMA LoadPanicsKeeps ==
  ASSUME IInv, LoadPanics
  PROVE  IInv'
<1>1. /\ pc = "load" /\ pc' = "panicked" /\ UNCHANGED <<active, asked, preparing, dropped>>
      /\ UNCHANGED <<commands, events, prepEvents, resident, cmd, model, innerVars, workerVars>>
  BY DEF LoadPanics, Unmoved, handleVars
<1>2. InHand(cmd, commands)
  BY <1>1, WorksOnIt DEF Working
<1>3. OuterTypes'
  BY <1>1, Typed DEF IInv, OuterTypes
<1>4. CommandsInv'
  BY <1>1 DEF IInv, CommandsInv, WellFormed, Working
<1>5. Owed'
  BY <1>1, <1>2 DEF IInv, Owed, Working, InHand
<1>6. /\ InnerTypes' /\ Gone' = Gone
      /\ UNCHANGED <<inActive, token, inCommand, stopping, busy, inEvents, wk, wkJob, wkVariant, gpu>>
  BY <1>1, InnerSame
<1>7. ModelInv' /\ GpuInv' /\ InnerInv' /\ TokenInv'
  BY <1>1, <1>6 DEF IInv, ModelInv, GpuInv, InnerInv, TokenInv, Live
<1> QED
  BY <1>3, <1>4, <1>5, <1>6, <1>7, SwitchParts

LEMMA LoadKeeps ==
  ASSUME IInv, Load
  PROVE  IInv'
<1> USE DEF IInv
<1>1. /\ pc = "load" /\ inActive' = 0 /\ token' = FALSE /\ inCommand' = 0 /\ stopping' = FALSE
      /\ busy' = FALSE /\ inEvents' = <<>> /\ wk' = "idle" /\ wkJob' = 0 /\ wkVariant' = cmd.variant
      /\ gpu' = gpu \cup {cmd.variant} /\ pc' \in {"warm", "publish"}
      /\ UNCHANGED <<handleVars, commands, events, prepEvents, resident, cmd, model>>
  BY DEF Load, channelVars
<1>2. OuterTypes' /\ CommandsInv' /\ Owed'
  BY <1>1, StaysInHand, CellTypes DEF Working
<1>3. cmd.variant \in Variants
  BY <1>1 DEF CommandsInv, WellFormed, Working
<1>4. gpu = {} /\ model = NoVariant
  BY <1>1 DEF GpuInv, ModelInv
<1>5. InnerTypes'
  BY <1>1, <1>3, <1>4, EmptySeq DEF InnerTypes
<1>6. ModelInv' /\ TokenInv'
  BY <1>1 DEF ModelInv, TokenInv
<1>7. GpuInv'
  BY <1>1, <1>4 DEF GpuInv, Gone
<1>8. InnerInv'
  BY <1>1, EmptyStory DEF InnerInv, Live
<1> QED
  BY <1>2, <1>5, <1>6, <1>7, <1>8, SwitchParts

(* Warm-up: nothing the GPU, the cells or the adapter see.                 *)
LEMMA WarmKeeps ==
  ASSUME IInv, Warm
  PROVE  IInv'
<1> USE DEF IInv
<1>1. /\ pc = "warm" /\ inActive = 0 /\ ~ busy /\ pc' \in {"warm", "publish"}
      /\ \/ /\ pc' = "warm" /\ busy' = TRUE /\ token' = FALSE /\ inCommand' = Warmup /\ inActive' = Warmup
            /\ UNCHANGED <<stopping, inEvents>>
         \/ pc' = "publish" /\ UNCHANGED <<inActive, token, inCommand, stopping, busy, inEvents>>
      /\ UNCHANGED <<handleVars, commands, events, prepEvents, resident, cmd, model>>
      /\ UNCHANGED <<wk, wkJob, wkVariant, gpu>>
  BY DEF Warm, InnerSubmit, channelVars, workerVars, innerVars
<1>2. OuterTypes' /\ CommandsInv' /\ Owed'
  BY <1>1, StaysInHand, CellTypes DEF Working
<1>3. InnerTypes'
  BY <1>1, Identifiers, Typed DEF InnerTypes
<1>4. ModelInv' /\ GpuInv' /\ TokenInv'
  BY <1>1 DEF ModelInv, GpuInv, Gone, TokenInv
<1>5. inEvents = <<>>
  <2>1. Story(inEvents, 0) /\ inEvents \in Seq(InnerEvent)
    BY <1>1, Typed DEF InnerInv, Live, InnerTypes
  <2>2. SUFFICES ASSUME inEvents # <<>> PROVE FALSE
    OBVIOUS
  <2>3. Head(inEvents) \in InnerEvent /\ Head(inEvents).id = 0
    BY <2>1, <2>2, TailStory
  <2> QED
    BY <2>3, Identifiers DEF InnerEvent
<1>6. InnerInv'
  BY <1>1, <1>5, EmptyStory, Identifiers DEF InnerInv, Live
<1> QED
  BY <1>2, <1>3, <1>4, <1>6, SwitchParts

(* The worker's handle takes an event.                                     *)
LEMMA Taken ==
  ASSUME IInv, Live, InnerTake
  PROVE  /\ inEvents' \in Seq(InnerEvent) /\ Head(inEvents) \in InnerEvent
         /\ Head(inEvents).id = inActive /\ inActive # 0
         /\ inCommand = 0 /\ UNCHANGED <<token, inCommand, stopping, busy>>
         /\ Story(inEvents', inActive')
         /\ Head(inEvents).kind # "progress" => inActive' = 0 /\ inEvents' = <<>> /\ wk # "running"
         /\ Head(inEvents).kind = "progress" => inActive' = inActive
         /\ wk = "running" => ~ Final(inEvents')
         /\ Head(inEvents).kind = "cancelled" => Cancels(inEvents)
         /\ Cancels(inEvents') => Cancels(inEvents)
<1> USE DEF IInv
<1>1. /\ inEvents # <<>> /\ inEvents' = Tail(inEvents)
      /\ inActive' = (IF Head(inEvents).kind # "progress" /\ Head(inEvents).id = inActive THEN 0 ELSE inActive)
      /\ UNCHANGED <<token, inCommand, stopping, busy>>
  BY DEF InnerTake
<1>2. inEvents \in Seq(InnerEvent) /\ Story(inEvents, inActive)
  BY Typed DEF InnerTypes, InnerInv
<1>3. /\ Head(inEvents) \in InnerEvent /\ Head(inEvents).id = inActive /\ inEvents' \in Seq(InnerEvent)
      /\ Story(inEvents', inActive)
      /\ (Head(inEvents).kind # "progress" => inEvents' = <<>> /\ Final(inEvents))
      /\ (Head(inEvents).kind = "progress" => (Final(inEvents') <=> Final(inEvents)))
      /\ (Head(inEvents).kind = "cancelled" => Cancels(inEvents))
      /\ (Cancels(inEvents') => Cancels(inEvents))
  BY <1>1, <1>2, TailStory
<1>4. inActive # 0
  BY <1>3, Identifiers DEF InnerEvent
<1>5. inCommand = 0 /\ (wk = "running" => ~ Final(inEvents))
  BY <1>1 DEF InnerInv
<1> QED
  BY <1>1, <1>3, <1>4, <1>5, EmptyStory

LEMMA WarmPollKeeps ==
  ASSUME IInv, WarmPoll
  PROVE  IInv'
<1> USE DEF IInv
<1>1. /\ pc = "warm" /\ inActive # 0 /\ pc' \in {"warm", "settle"}
      /\ UNCHANGED <<handleVars, commands, events, prepEvents, resident, cmd, model>>
      /\ UNCHANGED <<wk, wkJob, wkVariant, gpu>>
  BY DEF WarmPoll, channelVars, workerVars
<1>2. OuterTypes' /\ CommandsInv' /\ Owed'
  BY <1>1, StaysInHand, CellTypes DEF Working
<1>3. ModelInv' /\ GpuInv' /\ TokenInv'
  BY <1>1 DEF ModelInv, GpuInv, Gone, TokenInv
<1>4. CASE InnerTake /\ pc' = (IF Head(inEvents).kind = "progress" THEN "warm" ELSE "settle")
  <2>1. Live
    BY <1>1 DEF Live
  <2>2. InnerTypes'
    BY <1>1, <1>4, <2>1, Taken, Typed DEF InnerTypes
  <2>3. InnerInv'
    BY <1>1, <1>4, <2>1, Taken DEF InnerInv, Live
  <2> QED
    BY <1>2, <1>3, <2>2, <2>3, SwitchParts
<1>5. CASE InnerDisconnected /\ pc' = "settle"
  <2>1. /\ inEvents = <<>> /\ Gone /\ busy' = FALSE /\ inActive' = 0
        /\ UNCHANGED <<token, inCommand, stopping, inEvents>>
    BY <1>5 DEF InnerDisconnected
  <2>2. InnerTypes'
    BY <1>1, <2>1, Typed DEF InnerTypes
  <2>3. InnerInv'
    BY <1>1, <1>5, <2>1, EmptyStory DEF InnerInv, Live, Gone
  <2> QED
    BY <1>2, <1>3, <2>2, <2>3, SwitchParts
<1> QED
  BY <1>4, <1>5 DEF WarmPoll

LEMMA WarmedKeeps ==
  ASSUME IInv, WarmTimeout \/ Settle
  PROVE  IInv'
<1>1. /\ \/ pc = "warm" /\ pc' = "settle"
         \/ pc = "settle" /\ ~ busy /\ pc' = "publish"
      /\ UNCHANGED <<handleVars, commands, events, prepEvents, resident, cmd, model, innerVars, workerVars>>
  BY DEF WarmTimeout, Settle, channelVars
<1>2. OuterTypes' /\ CommandsInv' /\ Owed'
  BY <1>1, StaysInHand, CellTypes DEF Working
<1>3. /\ InnerTypes' /\ Gone' = Gone
      /\ UNCHANGED <<inActive, token, inCommand, stopping, busy, inEvents, wk, wkJob, wkVariant, gpu>>
  BY <1>1, InnerSame
<1>4. ModelInv' /\ GpuInv' /\ InnerInv' /\ TokenInv'
  BY <1>1, <1>3 DEF IInv, ModelInv, GpuInv, InnerInv, TokenInv, Live
<1> QED
  BY <1>2, <1>3, <1>4, SwitchParts

LEMMA PublishKeeps ==
  ASSUME IInv, Publish
  PROVE  IInv'
<1>1. /\ pc = "publish" /\ pc' = "report" /\ model' = cmd.variant /\ resident' = cmd.variant
      /\ UNCHANGED <<handleVars, commands, events, prepEvents, cmd, innerVars, workerVars>>
  BY DEF Publish
<1>2. cmd.variant \in Variants
  BY <1>1 DEF IInv, CommandsInv, WellFormed, Working
<1>3. OuterTypes' /\ CommandsInv' /\ Owed'
  BY <1>1, <1>2, StaysInHand DEF Working
<1>4. /\ InnerTypes' /\ Gone' = Gone
      /\ UNCHANGED <<inActive, token, inCommand, stopping, busy, inEvents, wk, wkJob, wkVariant, gpu>>
  BY <1>1, InnerSame
<1>5. ModelInv' /\ GpuInv' /\ InnerInv' /\ TokenInv'
  BY <1>1, <1>2, <1>4, Identifiers DEF IInv, ModelInv, GpuInv, InnerInv, TokenInv, Live
<1> QED
  BY <1>3, <1>4, <1>5, SwitchParts

LEMMA ReportSwitchedKeeps ==
  ASSUME IInv, ReportSwitched
  PROVE  IInv'
<1>1. /\ pc = "report" /\ UNCHANGED <<handleVars, commands, resident, cmd, model, innerVars, workerVars>>
      /\ \/ /\ cmd.kind = "prepare" /\ pc' = "recv" /\ prepEvents' = Append(prepEvents, "ready")
            /\ UNCHANGED events
         \/ cmd.kind # "prepare" /\ pc' = "submit" /\ Report("progress", cmd.id) /\ UNCHANGED prepEvents
  BY DEF ReportSwitched, Unmoved
<1>2. InHand(cmd, commands) /\ model = cmd.variant
  BY <1>1, WorksOnIt DEF Working, IInv, ModelInv
<1>3. cmd.kind \in {"prepare", "infer"}
  BY <1>2, CommandFields DEF InHand
<1>4. OuterTypes' /\ CommandsInv' /\ Owed'
  <2>1. CASE cmd.kind = "prepare"
    <3>1. \E x \in {"ready", "failed"} : prepEvents' = Append(prepEvents, x) /\ (x = "ready" => model' = cmd.variant)
      BY <1>1, <1>2, <2>1
    <3> QED
      BY <1>1, <1>2, <2>1, <3>1, AnswersIt, CellTypes
  <2>2. CASE cmd.kind = "infer"
    BY <1>1, <2>2, StaysInHand, CellTypes DEF Working
  <2> QED
    BY <1>3, <2>1, <2>2
<1>5. /\ InnerTypes' /\ Gone' = Gone
      /\ UNCHANGED <<inActive, token, inCommand, stopping, busy, inEvents, wk, wkJob, wkVariant, gpu>>
  BY <1>1, InnerSame
<1>6. ModelInv' /\ GpuInv' /\ InnerInv' /\ TokenInv'
  BY <1>1, <1>5 DEF IInv, ModelInv, GpuInv, InnerInv, TokenInv, Live
<1> QED
  BY <1>4, <1>5, <1>6, SwitchParts

LEMMA StartInferenceKeeps ==
  ASSUME IInv, StartInference
  PROVE  IInv'
<1> USE DEF IInv
<1>1. /\ pc = "submit" /\ inActive = 0 /\ ~ busy /\ wk \notin {"stopped", "panicked"} /\ pc' = "forward"
      /\ busy' = TRUE /\ token' = FALSE /\ inCommand' = cmd.id /\ inActive' = cmd.id
      /\ UNCHANGED <<handleVars, commands, events, prepEvents, resident, cmd, model>>
      /\ UNCHANGED <<stopping, inEvents, wk, wkJob, wkVariant, gpu>>
  BY DEF StartInference, InnerFree, InnerSubmit, Gone, channelVars, workerVars
<1>2. cmd.kind = "infer" /\ cmd.id \in Requests /\ cmd.variant \in Variants /\ model = cmd.variant
  BY <1>1 DEF CommandsInv, WellFormed, Working, ModelInv
<1>3. OuterTypes' /\ CommandsInv' /\ Owed'
  BY <1>1, <1>2, StaysInHand, CellTypes DEF Working
<1>4. InnerTypes'
  BY <1>1, <1>2, Identifiers, Typed DEF InnerTypes
<1>5. ModelInv' /\ GpuInv'
  BY <1>1, <1>2, Identifiers DEF ModelInv, GpuInv, Gone
<1>6. inEvents = <<>>
  <2>1. Story(inEvents, 0) /\ inEvents \in Seq(InnerEvent)
    BY <1>1, <1>2, Identifiers, Typed DEF InnerInv, Live, InnerTypes
  <2>2. SUFFICES ASSUME inEvents # <<>> PROVE FALSE
    OBVIOUS
  <2>3. Head(inEvents) \in InnerEvent /\ Head(inEvents).id = 0
    BY <2>1, <2>2, TailStory
  <2> QED
    BY <2>3, Identifiers DEF InnerEvent
<1>7. wk = "idle"
  BY <1>1, Typed DEF InnerTypes, InnerInv
<1>8. InnerInv'
  BY <1>1, <1>2, <1>6, <1>7, EmptyStory, Identifiers DEF InnerInv, Live
<1>9. TokenInv'
  BY <1>1, <1>6, EmptyStory DEF TokenInv
<1> QED
  BY <1>3, <1>4, <1>5, <1>8, <1>9, SwitchParts

LEMMA RefuseInferenceKeeps ==
  ASSUME IInv, RefuseInference
  PROVE  IInv'
<1> USE DEF IInv
<1>1. /\ pc = "submit" /\ Fail(cmd) /\ pc' = "recv" /\ busy' = (busy /\ ~ (inActive = 0 /\ Gone))
      /\ UNCHANGED <<handleVars, commands, resident, cmd, model>>
      /\ UNCHANGED <<inActive, token, inCommand, stopping, inEvents, wk, wkJob, wkVariant, gpu>>
  BY DEF RefuseInference, InnerRefuse, Fail, workerVars
<1>2. OuterTypes' /\ CommandsInv' /\ Owed'
  BY <1>1, FailsIt DEF Working
<1>3. busy' \in BOOLEAN /\ (wk \in {"running", "sent"} \/ inCommand # 0 => busy' = busy)
  BY <1>1, Typed DEF InnerTypes, InnerInv, Gone
<1>4. InnerTypes'
  BY <1>1, <1>3, Typed DEF InnerTypes
<1>5. ModelInv' /\ GpuInv' /\ TokenInv'
  BY <1>1 DEF ModelInv, GpuInv, Gone, TokenInv
<1>6. InnerInv'
  BY <1>1, <1>3 DEF InnerInv, Live
<1> QED
  BY <1>2, <1>4, <1>5, <1>6, SwitchParts

LEMMA ForwardCancelKeeps ==
  ASSUME IInv, ForwardCancel
  PROVE  IInv'
<1> USE DEF IInv
<1>1. /\ pc = "forward" /\ asked /\ token' = TRUE /\ pc' = "forward"
      /\ UNCHANGED <<active, asked, preparing, dropped, commands, events, prepEvents, resident, cmd, model>>
      /\ UNCHANGED <<inActive, inCommand, stopping, busy, inEvents, wk, wkJob, wkVariant, gpu>>
  BY DEF ForwardCancel, handleVars, channelVars, workerVars
<1>2. cmd.kind = "infer"
  BY <1>1 DEF CommandsInv
<1>3. OuterTypes' /\ CommandsInv' /\ Owed'
  BY <1>1, <1>2, StaysInHand, CellTypes DEF Working, handleVars
<1>4. InnerTypes'
  BY <1>1, Typed DEF InnerTypes
<1>5. ModelInv' /\ GpuInv' /\ TokenInv'
  BY <1>1 DEF ModelInv, GpuInv, Gone, TokenInv
<1>6. InnerInv'
  BY <1>1 DEF InnerInv, Live
<1> QED
  BY <1>3, <1>4, <1>5, <1>6, SwitchParts

(* What the worker forwards is of the request in hand, and Cancelled only  *)
(* if the adapter asked for it.                                            *)
LEMMA Forwarded ==
  ASSUME IInv, Forward
  PROVE  /\ pc = "forward" /\ InHand(cmd, commands) /\ cmd.kind = "infer" /\ Live
         /\ Head(inEvents).kind \in EventKinds /\ Report(Head(inEvents).kind, cmd.id)
         /\ ~ dropped /\ Head(inEvents).kind = "cancelled" => asked
<1>1. pc = "forward" /\ InnerTake /\ Report(Head(inEvents).kind, Head(inEvents).id)
  BY DEF Forward
<1>2. cmd.kind = "infer" /\ cmd.variant \in Variants /\ model = cmd.variant /\ inActive = cmd.id
  BY <1>1 DEF IInv, CommandsInv, WellFormed, ModelInv, InnerInv
<1>3. Live
  BY <1>2, Identifiers DEF Live
<1>4. /\ Head(inEvents) \in InnerEvent /\ Head(inEvents).id = cmd.id
      /\ (Head(inEvents).kind = "cancelled" => Cancels(inEvents))
  BY <1>1, <1>2, <1>3, Taken
<1>5. ~ dropped /\ Head(inEvents).kind = "cancelled" => asked
  BY <1>1, <1>4 DEF IInv, TokenInv
<1>6. InHand(cmd, commands)
  BY <1>1, WorksOnIt DEF Working
<1> QED
  BY <1>1, <1>2, <1>3, <1>4, <1>5, <1>6 DEF InnerEvent

LEMMA ForwardKeeps ==
  ASSUME IInv, Forward
  PROVE  IInv'
<1> USE DEF IInv
<1> DEFINE kind == Head(inEvents).kind
<1>1. /\ InnerTake /\ pc' = (IF kind = "progress" THEN "forward" ELSE "recv")
      /\ UNCHANGED <<handleVars, commands, prepEvents, resident, cmd, model>>
      /\ UNCHANGED <<active, asked, dropped>>
      /\ UNCHANGED <<wk, wkJob, wkVariant, gpu>>
  BY DEF Forward, workerVars, handleVars
<1>2. /\ pc = "forward" /\ InHand(cmd, commands) /\ cmd.kind = "infer" /\ Live
      /\ kind \in EventKinds /\ Report(kind, cmd.id)
  BY Forwarded
<1>3. OuterTypes' /\ CommandsInv' /\ Owed'
  <2>1. CASE kind = "progress"
    BY <1>1, <1>2, <2>1, StaysInHand, CellTypes DEF Working
  <2>2. CASE kind # "progress"
    <3>1. \E k \in EventKinds \ {"progress"} : Report(k, cmd.id)
      BY <1>2, <2>2
    <3> QED
      BY <1>1, <1>2, <2>2, <3>1, AnswersIt, CellTypes
  <2> QED
    BY <2>1, <2>2
<1>4. /\ inEvents' \in Seq(InnerEvent) /\ Story(inEvents', inActive')
      /\ inCommand = 0 /\ UNCHANGED <<token, inCommand, stopping, busy>>
      /\ (kind # "progress" => inActive' = 0 /\ wk # "running")
      /\ (kind = "progress" => inActive' = inActive)
      /\ (wk = "running" => ~ Final(inEvents')) /\ (Cancels(inEvents') => Cancels(inEvents))
  BY <1>1, <1>2, Taken
<1>5. InnerTypes'
  BY <1>1, <1>4, Typed DEF InnerTypes
<1>6. ModelInv' /\ GpuInv'
  BY <1>1, <1>2 DEF ModelInv, GpuInv, Gone
<1>7. InnerInv'
  BY <1>1, <1>2, <1>4 DEF InnerInv, Live
<1>8. TokenInv'
  BY <1>1, <1>2, <1>4 DEF TokenInv
<1> QED
  BY <1>3, <1>5, <1>6, <1>7, <1>8, SwitchParts

LEMMA ForwardDisconnectedKeeps ==
  ASSUME IInv, ForwardDisconnected
  PROVE  IInv'
<1> USE DEF IInv
<1>1. /\ pc = "forward" /\ pc' = "recv" /\ Report("failed", inActive)
      /\ inEvents = <<>> /\ Gone /\ busy' = FALSE /\ inActive' = 0
      /\ UNCHANGED <<handleVars, commands, prepEvents, resident, cmd, model>>
      /\ UNCHANGED <<token, inCommand, stopping, inEvents, wk, wkJob, wkVariant, gpu>>
  BY DEF ForwardDisconnected, InnerDisconnected, workerVars
<1>2. cmd.kind = "infer" /\ inActive = cmd.id /\ InHand(cmd, commands)
  BY <1>1, WorksOnIt DEF CommandsInv, InnerInv, Working
<1>3. OuterTypes' /\ CommandsInv' /\ Owed'
  <2>1. \E k \in EventKinds \ {"progress"} : Report(k, cmd.id)
    BY <1>1, <1>2, Kinds
  <2> QED
    BY <1>1, <1>2, <2>1, AnswersIt, CellTypes
<1>4. InnerTypes'
  BY <1>1, Typed DEF InnerTypes
<1>5. ModelInv' /\ GpuInv' /\ TokenInv'
  BY <1>1 DEF ModelInv, GpuInv, Gone, TokenInv
<1>6. InnerInv'
  BY <1>1, EmptyStory DEF InnerInv, Live, Gone
<1> QED
  BY <1>3, <1>4, <1>5, <1>6, SwitchParts

LEMMA ExitKeeps ==
  ASSUME IInv, Exit
  PROVE  IInv' /\ dropped
<1> USE DEF IInv
<1>1. /\ Receive /\ cmd' = Shutdown /\ pc = "recv" /\ pc' = "ended" /\ model' = NoVariant
      /\ token' = (token \/ inActive # 0) /\ inActive' = 0 /\ stopping' = TRUE
      /\ UNCHANGED <<active, asked, preparing, dropped, events, prepEvents, resident>>
      /\ UNCHANGED <<inCommand, busy, inEvents, wk, wkJob, wkVariant, gpu>>
  BY DEF Exit, Receive, workerVars, handleVars
<1>2. cmd' \in Commands /\ WellFormed(cmd') /\ dropped /\ commands' \in Seq(Commands) /\ QueueOk(commands')
  BY <1>1, TakesIt DEF Shutdown
<1>3. OuterTypes'
  BY <1>1, <1>2, Typed DEF OuterTypes
<1>4. CommandsInv'
  BY <1>1, <1>2 DEF CommandsInv, QueueOk, WellFormed, Working
<1>5. Owed'
  BY <1>1, <1>2 DEF Owed
<1>6. InnerTypes'
  BY <1>1, Typed DEF InnerTypes
<1>7. ModelInv' /\ GpuInv' /\ TokenInv'
  BY <1>1 DEF ModelInv, GpuInv, Gone, TokenInv
<1>8. InnerInv'
  BY <1>1 DEF InnerInv, Live
<1> QED
  BY <1>2, <1>3, <1>4, <1>5, <1>6, <1>7, <1>8, SwitchParts

LEMMA SwitchKeeps ==
  ASSUME IInv, SwitchStep
  PROVE  IInv'
BY SkipKeeps, StartResidentKeeps, StartSwitchKeeps, UnloadKeeps, RetireKeeps, LoadFailsKeeps,
   LoadPanicsKeeps, LoadKeeps, WarmKeeps, WarmPollKeeps, WarmedKeeps, PublishKeeps,
   ReportSwitchedKeeps, StartInferenceKeeps, RefuseInferenceKeeps, ForwardCancelKeeps,
   ForwardKeeps, ForwardDisconnectedKeeps, ExitKeeps DEF SwitchStep

-----------------------------------------------------------------------------
(* Theorems                                                                *)

LEMMA InitHolds == Init => IInv
<1> SUFFICES ASSUME Init PROVE IInv
  OBVIOUS
<1>1. Shutdown \in Commands /\ Shutdown.kind = "shutdown" /\ Shutdown.id = 0
  BY DEF Shutdown, Commands
<1>2. OuterTypes /\ InnerTypes
  BY <1>1, EmptySeq DEF Init, OuterTypes, InnerTypes
<1>3. CommandsInv
  BY <1>1, EmptySeq DEF Init, CommandsInv, WellFormed, Working
<1>4. Owed
  <2>1. Len(prepEvents) <= 1 /\ prepEvents # <<"ready">>
    BY DEF Init
  <2> QED
    BY <2>1, EmptyStory DEF Init, Owed, Working
<1>5. ModelInv /\ GpuInv /\ TokenInv
  BY Identifiers DEF Init, ModelInv, GpuInv, Gone, TokenInv
<1>6. InnerInv
  BY EmptyStory DEF Init, InnerInv, Live
<1> QED
  BY <1>2, <1>3, <1>4, <1>5, <1>6, Typed DEF IInv

LEMMA StepKeeps == IInv /\ [Next]_vars => IInv'
<1> SUFFICES ASSUME IInv, [Next]_vars PROVE IInv'
  OBVIOUS
<1>1. CASE Next
  BY <1>1, HandleKeeps, SwitchKeeps, WorkerKeeps DEF Next
<1>2. CASE UNCHANGED vars
  <2>1. OuterFrame /\ InnerFrame /\ UNCHANGED <<token, inEvents, asked, dropped, pc>>
    BY <1>2 DEF vars, OuterFrame, InnerFrame, channelVars, innerVars, handleVars
  <2>2. OuterTypes' /\ CommandsInv' /\ Owed' /\ InnerTypes' /\ ModelInv' /\ GpuInv' /\ InnerInv'
    BY <2>1, OuterStill, InnerStill
  <2>3. TokenInv'
    BY <2>1 DEF IInv, TokenInv
  <2> QED
    BY <2>2, <2>3, SwitchParts
<1> QED
  BY <1>1, <1>2

(* The handle, the switch worker and the inference worker keep the         *)
(* inductive invariant.                                                    *)
THEOREM SwitchInvariant == Spec => []IInv
<1> QED
  BY InitHolds, StepKeeps, PTL DEF Spec

(* The variables of the three threads keep their types.                    *)
THEOREM TypeCorrect == Spec => []TypeOK
<1>1. IInv => TypeOK
  BY DEF IInv
<1> QED
  BY <1>1, SwitchInvariant, PTL

(* Two releases are never on the GPU at once.                              *)
THEOREM OneReleaseOnGpu == Spec => []ResidencyExclusive
<1>1. IInv => ResidencyExclusive
  <2> SUFFICES ASSUME IInv PROVE Cardinality(gpu) <= 1
    BY DEF ResidencyExclusive
  <2>1. gpu = {} \/ gpu = {wkVariant}
    BY DEF IInv, GpuInv
  <2>2. Cardinality({}) = 0 /\ Cardinality({wkVariant}) = 1
    BY FS_EmptySet, FS_Singleton
  <2> QED
    BY <2>1, <2>2
<1> QED
  BY <1>1, SwitchInvariant, PTL

(* Ready is only answered for the release the worker has.                  *)
THEOREM ReadyIsHonest == Spec => []ResidentHonest
<1>1. IInv => ResidentHonest
  <2> SUFFICES ASSUME IInv PROVE ResidentHonest
    OBVIOUS
  <2>1. Idle /\ Listening => resident = model
    BY IdleIsQuiet DEF IInv, ModelInv
  <2>2. ASSUME ~ dropped, prepEvents = <<"ready">> PROVE resident = preparing /\ model = preparing
    <3>1. pc # "ended" /\ model = preparing
      BY <2>2 DEF IInv, CommandsInv, Owed
    <3> QED
      BY <3>1 DEF IInv, ModelInv
  <2> QED
    BY <2>1, <2>2 DEF ResidentHonest
<1> QED
  BY <1>1, SwitchInvariant, PTL

(* While nothing is under way a drop finds the switch worker waiting.      *)
THEOREM JoinFindsNoWork == Spec => []JoinIsShort
<1>1. IInv => JoinIsShort
  <2> SUFFICES ASSUME IInv, Idle, Listening PROVE pc = "recv" /\ wk # "running" /\ inCommand = 0
    BY DEF JoinIsShort
  <2>1. pc = "recv"
    BY IdleIsQuiet
  <2> QED
    BY <2>1 DEF IInv, InnerInv
<1> QED
  BY <1>1, SwitchInvariant, PTL

(* An accepted request, or preparation, is queued, at work or answered.    *)
THEOREM NothingIsLost == Spec => []ActiveIsOwed
<1>1. IInv => ActiveIsOwed
  <2> SUFFICES ASSUME IInv, ~ dropped, pc # "panicked"
               PROVE  /\ active # 0 <=> Queued("infer") # {} \/ (AtWork("infer") /\ cmd.id = active) \/ Settled
                      /\ preparing # NoVariant <=> Queued("prepare") # {} \/ AtWork("prepare") \/ prepEvents # <<>>
    BY DEF ActiveIsOwed, Listening
  <2> USE DEF IInv
  <2>1. DOMAIN commands = 1 .. Len(commands) /\ Len(commands) \in Nat /\ pc # "ended"
        /\ (Len(commands) = 0 => commands = <<>>)
    BY Typed, EmptySeq DEF OuterTypes, CommandsInv
  <2>2. Settled <=> Final(events)
    BY SettledFinal DEF Owed
  <2>3. \A kind : AtWork(kind) <=> Working /\ cmd.kind = kind
    BY <2>1 DEF AtWork, Working
  <2>4. Final(events) => active # 0
    <3>1. SUFFICES ASSUME Final(events) PROVE active # 0
      OBVIOUS
    <3>2. events \in Seq(Event) /\ Story(events, active)
      BY Typed DEF OuterTypes, Owed
    <3>3. events # <<>>
      BY <3>1, EmptyStory
    <3>4. Head(events) \in Event /\ Head(events).id = active
      BY <3>2, <3>3, TailStory
    <3> QED
      BY <3>4, Identifiers DEF Event
  <2>5. ASSUME commands = <<>> PROVE \A kind : Queued(kind) = {}
    BY <2>5 DEF Queued
  <2>6. ASSUME commands # <<>>
        PROVE  /\ Len(commands) = 1 /\ Asks(commands[1]) /\ ~ Working /\ ~ Final(events) /\ prepEvents = <<>>
               /\ \A kind : Queued(kind) # {} <=> commands[1].kind = kind
    BY <2>1, <2>6 DEF Owed, Working, Queued
  <2>7. active = 0 \/ preparing = NoVariant
    BY DEF Owed
  <2>8. CASE commands # <<>>
    BY <2>2, <2>3, <2>6, <2>7, <2>8 DEF Asks
  <2>9. CASE commands = <<>> /\ Working
    <3>1. Asks(cmd) /\ ~ Final(events) /\ prepEvents = <<>>
      BY <2>9 DEF Owed, Working
    <3> QED
      BY <2>2, <2>3, <2>5, <2>7, <2>9, <3>1 DEF Asks
  <2>10. CASE commands = <<>> /\ ~ Working
    <3>1. pc = "recv"
      BY <2>1, <2>10 DEF Working
    <3>2. (active # 0 => Final(events)) /\ (preparing # NoVariant <=> prepEvents # <<>>)
      BY <2>10, <3>1 DEF Owed
    <3> QED
      BY <2>2, <2>3, <2>4, <2>5, <2>10, <3>2
  <2> QED
    BY <2>8, <2>9, <2>10
<1> QED
  BY <1>1, SwitchInvariant, PTL

-----------------------------------------------------------------------------
(* The runtime implements the contract the adapter relies on               *)

RtCancelled == asked /\ active # 0
RtEvents == IF dropped THEN <<>> ELSE events \o Verdict
Lost == [kind |-> "failed", id |-> active]

(* What the adapter can see of the queue.                                  *)
Seen ==
  /\ dropped => RtEvents = <<>> /\ active = 0
  /\ ~ dropped /\ (pc # "panicked" \/ active = 0) => RtEvents = events
  /\ ~ dropped /\ pc = "panicked" /\ active # 0 => RtEvents = Append(events, Lost)
  /\ ~ dropped => events \in Seq(Event) /\ Story(events, active) /\ (Settled <=> Final(events))

LEMMA SeenEvents == IInv => Seen
<1> SUFFICES ASSUME IInv PROVE Seen
  OBVIOUS
<1> USE DEF IInv
<1>1. events \in Seq(Event)
  BY Typed DEF OuterTypes
<1>2. dropped => RtEvents = <<>> /\ active = 0
  BY DEF RtEvents, Owed
<1>3. ~ dropped => Story(events, active) /\ (Settled <=> Final(events))
  BY SettledFinal DEF Owed
<1>4. ASSUME ~ dropped, pc # "panicked" \/ active = 0 PROVE RtEvents = events
  <2>1. Verdict = <<>>
    BY <1>4 DEF Verdict
  <2> QED
    BY <1>1, <1>4, <2>1 DEF RtEvents
<1>5. ASSUME ~ dropped, pc = "panicked", active # 0 PROVE RtEvents = Append(events, Lost)
  <2>1. ~ Settled
    BY <1>3, <1>5 DEF Owed
  <2>2. Verdict = <<Lost>>
    BY <1>5, <2>1 DEF Verdict, Lost
  <2>3. Lost \in Event
    BY <1>5, Typed, Kinds DEF OuterTypes, Lost, Event
  <2> HIDE DEF Lost
  <2> QED
    BY <1>1, <1>5, <2>2, <2>3 DEF RtEvents
<1> QED
  BY <1>1, <1>2, <1>3, <1>4, <1>5 DEF Seen

LEMMA ContractSettled ==
  ASSUME IInv, ~ dropped, pc # "panicked", Story(events, active), ~ Final(events)
  PROVE  ~ Contract!Settled(active)
<1>1. RtEvents = events /\ events \in Seq(Event)
  BY SeenEvents DEF Seen
<1>2. DOMAIN events = 1 .. Len(events)
  BY <1>1
<1> QED
  BY <1>1, <1>2 DEF Contract!Settled, RtEvents, Final

(* A step that the contract does not see.                                  *)
LEMMA Unseen ==
  ASSUME RtEvents' = RtEvents, RtCancelled' = RtCancelled, UNCHANGED <<active, dropped>>
  PROVE  UNCHANGED Contract!rtVars
BY DEF Contract!rtVars, RtEvents, RtCancelled

(* The switch worker reports on the active request.                        *)
LEMMA ReportIsSeen ==
  ASSUME IInv, IInv', ~ dropped, pc # "panicked", ~ Final(events), active # 0, UNCHANGED handleVars,
         NEW kind \in EventKinds, kind = "cancelled" => asked,
         RtEvents' = Append(events, [kind |-> kind, id |-> active])
  PROVE  Contract!RuntimeNext
<1>1. UNCHANGED <<active, asked, dropped>>
  BY HandleStill
<1>2. RtEvents = events /\ Story(events, active)
  BY SeenEvents DEF Seen
<1>3. Contract!Executing
  BY <1>2, ContractSettled DEF Contract!Executing
<1>4. Contract!Report(kind)
  BY <1>1, <1>2 DEF Contract!Report, RtEvents
<1>5. CASE kind = "progress"
  BY <1>1, <1>3, <1>4, <1>5 DEF Contract!RuntimeNext, Contract!Progress
<1>6. CASE kind # "progress"
  <2>1. Contract!FreeSlot(FALSE)
    BY <1>1 DEF Contract!FreeSlot
  <2>2. kind \in {"completed", "failed", "cancelled"}
    BY <1>6, Kinds
  <2> QED
    BY <1>1, <1>3, <1>4, <2>1, <2>2 DEF Contract!RuntimeNext, Contract!Finish
<1> QED
  BY <1>5, <1>6

(* What a step of the switch worker reports.                               *)
Silent == pc' # "panicked" /\ events' = events
Tells ==
  /\ pc' # "panicked" /\ active # 0 /\ ~ Final(events)
  /\ \E kind \in EventKinds :
       (kind = "cancelled" => asked) /\ events' = Append(events, [kind |-> kind, id |-> active])

LEMMA InHandTells ==
  ASSUME ~ dropped, NEW c, NEW rest, InHand(c, rest), c.kind = "infer", pc' # "panicked",
         NEW kind \in EventKinds, Report(kind, c.id), kind = "cancelled" => asked
  PROVE  Tells
<1>1. c.id = active /\ active # 0 /\ ~ Final(events)
  BY DEF InHand, Asks
<1> QED
  BY <1>1 DEF Tells, Report

LEMMA FailTells ==
  ASSUME ~ dropped, NEW c, NEW rest, InHand(c, rest), Fail(c)
  PROVE  Silent \/ Tells
<1>1. c.kind \in {"prepare", "infer"}
  BY CommandFields DEF InHand
<1>2. CASE c.kind = "prepare"
  BY <1>2 DEF Fail, Silent
<1>3. CASE c.kind = "infer"
  BY <1>3, InHandTells, Kinds DEF Fail
<1> QED
  BY <1>1, <1>2, <1>3

LEMMA SwitchTells ==
  ASSUME IInv, SwitchStep, ~ dropped
  PROVE  pc # "panicked" /\ UNCHANGED handleVars /\ (Silent \/ Tells \/ LoadPanics)
<1>1. ASSUME StartResident \/ Unload \/ Load \/ Warm \/ WarmPoll \/ WarmTimeout \/ Settle \/ Publish
             \/ StartInference \/ ForwardCancel
      PROVE  pc # "panicked" /\ UNCHANGED handleVars /\ Silent
  BY <1>1 DEF StartResident, Receive, Unload, Load, Warm, WarmPoll, WarmTimeout, Settle, Publish,
              StartInference, ForwardCancel, channelVars, Silent
<1>2. CASE RejectContext
  <2>1. Receive /\ cmd'.kind # "shutdown" /\ Fail(cmd') /\ UNCHANGED handleVars /\ pc = "recv"
    BY <1>2 DEF RejectContext, Wanted, Receive
  <2> QED
    BY <2>1, TakesIt, FailTells
<1>3. CASE SkipCancelled
  <2>1. /\ Receive /\ cmd'.kind = "infer" /\ asked /\ Report("cancelled", cmd'.id)
        /\ UNCHANGED handleVars /\ pc = "recv" /\ pc' = "recv"
    BY <1>3 DEF SkipCancelled, Receive
  <2> QED
    BY <2>1, TakesIt, InHandTells, Kinds
<1>4. CASE StartSwitch
  <2>1. /\ Receive /\ cmd'.kind \in {"prepare", "infer"} /\ UNCHANGED handleVars
        /\ pc = "recv" /\ pc' = "unload"
        /\ events' = events \/ (cmd'.kind = "infer" /\ Report("progress", cmd'.id))
    BY <1>4 DEF StartSwitch, Wanted, Receive
  <2>2. InHand(cmd', commands')
    BY <2>1, TakesIt
  <2>3. ASSUME cmd'.kind = "infer", Report("progress", cmd'.id) PROVE Tells
    BY <2>1, <2>2, <2>3, InHandTells, Kinds
  <2> QED
    BY <2>1, <2>3 DEF Silent
<1>5. CASE Retire \/ LoadFails \/ RefuseInference
  <2>1. pc \in {"retire", "load", "submit"} /\ UNCHANGED handleVars /\ (Silent \/ Fail(cmd))
    BY <1>5 DEF Retire, LoadFails, RefuseInference, Unmoved, Silent
  <2>2. InHand(cmd, commands)
    BY <2>1, WorksOnIt DEF Working
  <2> QED
    BY <2>1, <2>2, FailTells
<1>6. CASE ReportSwitched
  <2>1. /\ pc = "report" /\ pc' \in {"recv", "submit"} /\ UNCHANGED handleVars
        /\ events' = events \/ (cmd.kind # "prepare" /\ Report("progress", cmd.id))
    BY <1>6 DEF ReportSwitched, Unmoved
  <2>2. InHand(cmd, commands)
    BY <2>1, WorksOnIt DEF Working
  <2>3. cmd.kind # "prepare" => cmd.kind = "infer"
    BY <2>2, CommandFields DEF InHand
  <2>4. ASSUME cmd.kind = "infer", Report("progress", cmd.id) PROVE Tells
    BY <2>1, <2>2, <2>4, InHandTells, Kinds
  <2> QED
    BY <2>1, <2>3, <2>4 DEF Silent
<1>7. CASE Forward
  <2>1. pc' # "panicked" /\ UNCHANGED handleVars
    BY <1>7 DEF Forward
  <2>2. /\ pc = "forward" /\ InHand(cmd, commands) /\ cmd.kind = "infer"
        /\ Head(inEvents).kind \in EventKinds /\ Report(Head(inEvents).kind, cmd.id)
        /\ (Head(inEvents).kind = "cancelled" => asked)
    BY <1>7, Forwarded
  <2> QED
    BY <2>1, <2>2, InHandTells
<1>8. CASE ForwardDisconnected
  <2>1. pc = "forward" /\ pc' = "recv" /\ UNCHANGED handleVars /\ Report("failed", inActive)
    BY <1>8 DEF ForwardDisconnected
  <2>2. inActive = cmd.id /\ cmd.kind = "infer" /\ InHand(cmd, commands)
    BY <2>1, WorksOnIt DEF IInv, InnerInv, CommandsInv, Working
  <2> QED
    BY <2>1, <2>2, InHandTells, Kinds
<1>9. CASE LoadPanics
  BY <1>9 DEF LoadPanics, Unmoved
<1>10. ~ Exit
  BY ExitKeeps
<1> QED
  BY <1>1, <1>2, <1>3, <1>4, <1>5, <1>6, <1>7, <1>8, <1>9, <1>10 DEF SwitchStep

LEMMA SwitchImplements ==
  ASSUME IInv, IInv', SwitchStep
  PROVE  Contract!RuntimeNext \/ UNCHANGED Contract!rtVars
<1>1. Seen /\ Seen'
  BY SeenEvents, PTL
<1>2. UNCHANGED handleVars
  BY DEF SwitchStep, RejectContext, SkipCancelled, StartResident, StartSwitch, Unload, Retire, LoadFails,
         LoadPanics, Load, Warm, WarmPoll, WarmTimeout, Settle, Publish, ReportSwitched, StartInference,
         RefuseInference, ForwardCancel, Forward, ForwardDisconnected, Exit, Unmoved
<1>3. UNCHANGED <<active, asked, dropped>> /\ RtCancelled' = RtCancelled
  BY <1>2, HandleStill DEF RtCancelled
<1>4. CASE dropped
  <2>1. RtEvents' = RtEvents
    BY <1>1, <1>3, <1>4 DEF Seen
  <2> QED
    BY <1>3, <2>1, Unseen
<1>5. CASE ~ dropped /\ Silent
  <2>1. pc # "panicked"
    BY <1>5, SwitchTells
  <2>2. RtEvents' = RtEvents
    BY <1>1, <1>3, <1>5, <2>1 DEF Seen, Silent
  <2> QED
    BY <1>3, <2>2, Unseen
<1>6. CASE ~ dropped /\ Tells
  <2>1. pc # "panicked"
    BY <1>6, SwitchTells
  <2>2. PICK kind \in EventKinds :
          (kind = "cancelled" => asked) /\ events' = Append(events, [kind |-> kind, id |-> active])
    BY <1>6 DEF Tells
  <2>3. RtEvents' = Append(events, [kind |-> kind, id |-> active])
    BY <1>1, <1>3, <1>6, <2>2 DEF Seen, Tells
  <2> QED
    BY <1>2, <1>6, <2>1, <2>2, <2>3, ReportIsSeen DEF Tells
<1>7. CASE ~ dropped /\ LoadPanics
  <2>1. pc = "load" /\ pc' = "panicked" /\ events' = events
    BY <1>7 DEF LoadPanics
  <2>2. ~ Final(events)
    BY <1>7, <2>1 DEF IInv, Owed
  <2>3. CASE active = 0
    <3>1. RtEvents' = RtEvents
      BY <1>1, <1>3, <1>7, <2>1, <2>3 DEF Seen
    <3> QED
      BY <1>3, <3>1, Unseen
  <2>4. CASE active # 0
    <3>1. RtEvents' = Append(events, [kind |-> "failed", id |-> active])
      BY <1>1, <1>3, <1>7, <2>1, <2>4 DEF Seen, Lost
    <3> QED
      BY <1>2, <1>7, <2>1, <2>2, <2>4, <3>1, ReportIsSeen, Kinds
  <2> QED
    BY <2>3, <2>4
<1> QED
  BY <1>4, <1>5, <1>6, <1>7, SwitchTells

LEMMA WorkerUnseen ==
  ASSUME IInv, IInv', WorkerStep
  PROVE  UNCHANGED Contract!rtVars
<1>1. UNCHANGED <<handleVars, channelVars, pc, cmd, model>>
  BY DEF WorkerStep, Work
<1>2. UNCHANGED <<active, asked, dropped, events, pc>>
  BY <1>1 DEF handleVars, channelVars
<1>3. RtEvents' = RtEvents /\ RtCancelled' = RtCancelled
  BY <1>2 DEF RtEvents, RtCancelled, Verdict, Settled
<1> QED
  BY <1>2, <1>3, Unseen

LEMMA HandleImplements ==
  ASSUME IInv, IInv', HandleStep
  PROVE  Contract!RuntimeNext \/ UNCHANGED Contract!rtVars
<1>1. Seen /\ Seen'
  BY SeenEvents, PTL
<1>2. ASSUME NEW v \in Variants, Prepare(v) PROVE UNCHANGED Contract!rtVars
  <2>1. UNCHANGED <<active, asked, dropped, events, pc>>
    BY <1>2 DEF Prepare
  <2>2. RtEvents' = RtEvents /\ RtCancelled' = RtCancelled
    BY <2>1 DEF RtEvents, RtCancelled, Verdict, Settled
  <2> QED
    BY <2>1, <2>2, Unseen
<1>3. ASSUME NEW id \in Requests, NEW v \in Variants, Submit(id, v) PROVE Contract!RuntimeNext
  <2>1. ~ dropped /\ pc # "panicked" /\ active = 0 /\ active' = id /\ asked' = FALSE
        /\ UNCHANGED <<dropped, events, pc>>
    BY <1>3 DEF Submit, Listening, Idle
  <2>2. RtEvents' = RtEvents
    BY <1>1, <2>1 DEF Seen
  <2>3. Contract!Accept(id)
    BY <2>1, <2>2 DEF Contract!Accept, RtEvents
  <2> QED
    BY <2>3 DEF Contract!RuntimeNext
<1>4. ASSUME Cancel PROVE Contract!RuntimeNext
  <2>1. active # 0 /\ asked' = TRUE /\ UNCHANGED <<active, dropped, events, pc>>
    BY <1>4 DEF Cancel, channelVars
  <2>2. RtEvents' = RtEvents
    BY <2>1 DEF RtEvents, Verdict, Settled
  <2>3. active \in Requests
    BY <2>1, Typed DEF IInv, OuterTypes
  <2>4. Contract!CancelAny({active})
    BY <2>1, <2>2 DEF Contract!CancelAny, RtEvents
  <2> QED
    BY <2>3, <2>4 DEF Contract!RuntimeNext
<1>5. ASSUME Poll PROVE Contract!RuntimeNext
  <2>1. /\ ~ dropped /\ events # <<>> /\ events' = Tail(events)
        /\ active' = (IF Head(events).kind # "progress" /\ Head(events).id = active THEN 0 ELSE active)
        /\ UNCHANGED <<asked, dropped, pc>>
    BY <1>5 DEF Poll
  <2>2. events \in Seq(Event) /\ Story(events, active)
    BY <1>1, <2>1 DEF Seen
  <2>3. /\ Head(events) \in Event /\ Head(events).id = active
        /\ (Head(events).kind # "progress" => Final(events))
    BY <2>1, <2>2, TailStory
  <2>4. active # 0
    BY <2>3, Identifiers DEF Event
  <2>5. Head(RtEvents) = Head(events) /\ RtEvents # <<>> /\ RtEvents' = Tail(RtEvents)
    <3>1. CASE pc # "panicked"
      BY <1>1, <2>1, <3>1 DEF Seen
    <3>2. CASE pc = "panicked"
      <4>1. Head(events).kind = "progress"
        BY <2>1, <2>3, <3>2 DEF IInv, Owed
      <4>2. active' = active /\ Lost' = Lost
        BY <2>1, <4>1 DEF Lost
      <4>3. RtEvents = Append(events, Lost) /\ RtEvents' = Append(Tail(events), Lost)
        BY <1>1, <2>1, <2>4, <3>2, <4>2 DEF Seen
      <4>4. Lost \in Event
        BY <2>4, Typed, Kinds DEF IInv, OuterTypes, Lost, Event
      <4> QED
        BY <2>1, <2>2, <4>3, <4>4, HeadTailAppend
    <3> QED
      BY <3>1, <3>2
  <2>6. Contract!FreeSlot(Head(RtEvents).kind # "progress" /\ Head(RtEvents).id = active)
    BY <2>1, <2>5 DEF Contract!FreeSlot
  <2>7. Contract!TakeEvent
    BY <2>1, <2>5, <2>6 DEF Contract!TakeEvent, RtEvents
  <2> QED
    BY <2>7 DEF Contract!RuntimeNext
<1>6. ASSUME PollDisconnected PROVE Contract!RuntimeNext
  <2>1. /\ ~ dropped /\ pc = "panicked" /\ events = <<>> /\ active # 0 /\ active' = 0
        /\ UNCHANGED <<asked, dropped, events, pc>>
    BY <1>6 DEF PollDisconnected, channelVars
  <2>2. RtEvents = <<Lost>> /\ RtEvents' = <<>>
    BY <1>1, <2>1 DEF Seen
  <2>3. Head(RtEvents) = Lost /\ RtEvents # <<>> /\ RtEvents' = Tail(RtEvents)
    BY <2>2
  <2>4. Contract!FreeSlot(Head(RtEvents).kind # "progress" /\ Head(RtEvents).id = active)
    BY <2>1, <2>3 DEF Contract!FreeSlot, Lost
  <2>5. Contract!TakeEvent
    BY <2>1, <2>3, <2>4 DEF Contract!TakeEvent, RtEvents
  <2> QED
    BY <2>5 DEF Contract!RuntimeNext
<1>7. ASSUME PollPreparation PROVE UNCHANGED Contract!rtVars
  <2>1. UNCHANGED <<active, asked, dropped, events, pc>>
    BY <1>7 DEF PollPreparation
  <2>2. RtEvents' = RtEvents /\ RtCancelled' = RtCancelled
    BY <2>1 DEF RtEvents, RtCancelled, Verdict, Settled
  <2> QED
    BY <2>1, <2>2, Unseen
<1>8. ASSUME Drop PROVE Contract!RuntimeNext
  <2>1. dropped' /\ active' = 0
    BY <1>8 DEF Drop
  <2>2. RtEvents' = <<>>
    BY <1>1, <2>1 DEF Seen
  <2>3. Contract!DropRuntime
    BY <2>1, <2>2 DEF Contract!DropRuntime, RtEvents
  <2> QED
    BY <2>3 DEF Contract!RuntimeNext
<1> QED
  BY <1>2, <1>3, <1>4, <1>5, <1>6, <1>7, <1>8 DEF HandleStep

(* The native runtime keeps the contract of RuntimeContract: one request   *)
(* at a time, one terminal event for each, the last of its request, and    *)
(* Cancelled only for a cancelled token.                                   *)
THEOREM ImplementsContract == Spec => KeepsContract
<1>1. Init => Contract!RuntimeInit
  <2> SUFFICES ASSUME Init PROVE Contract!RuntimeInit
    OBVIOUS
  <2>1. IInv /\ events = <<>> /\ active = 0 /\ ~ dropped /\ asked = FALSE
    BY InitHolds DEF Init
  <2>2. RtEvents = <<>>
    BY <2>1, SeenEvents DEF Seen
  <2> QED
    BY <2>1, <2>2 DEF Contract!RuntimeInit, RtEvents
<1>2. IInv /\ IInv' /\ [Next]_vars => [Contract!RuntimeNext]_(Contract!rtVars)
  <2> SUFFICES ASSUME IInv, IInv', [Next]_vars
               PROVE  Contract!RuntimeNext \/ UNCHANGED Contract!rtVars
    OBVIOUS
  <2>1. CASE UNCHANGED vars
    <3>1. UNCHANGED <<active, asked, dropped, events, pc>>
      BY <2>1 DEF vars, handleVars, channelVars
    <3>2. RtEvents' = RtEvents /\ RtCancelled' = RtCancelled
      BY <3>1 DEF RtEvents, RtCancelled, Verdict, Settled
    <3> QED
      BY <3>1, <3>2, Unseen
  <2> QED
    BY <2>1, HandleImplements, SwitchImplements, WorkerUnseen DEF Next
<1> QED
  BY <1>1, <1>2, SwitchInvariant, PTL DEF Spec, KeepsContract, Contract!RuntimeSpec

=============================================================================
