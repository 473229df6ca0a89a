----------------------- MODULE ModelSelection_proofs -----------------------
(***************************************************************************)
(* Proofs about selecting a model in the browser, for any advertised       *)
(* releases, request identifiers and sizes of the event queue.             *)
(***************************************************************************)
EXTENDS ModelSelection, EventStories

-----------------------------------------------------------------------------
(* The inductive invariant                                                 *)

(* The engine is in its cell or with the one task there is, and is gone    *)
(* only after a switch has failed.                                         *)
EngineInv ==
  /\ active = 0 \/ preparing = NoVariant
  /\ Free => carried = NoVariant /\ (engine = NoVariant => lost)
  /\ ~ Free => engine = NoVariant /\ carried # NoVariant

(* The gate lets one request through: it runs and has only progress        *)
(* queued, or its terminal event is queued, last.                          *)
RequestInv ==
  /\ owed = {} => active = 0 /\ events = <<>>
  /\ owed # {} =>
       \E id \in owed : /\ owed = {id} /\ Story(events, id)
                        /\ active = IF Final(events) THEN 0 ELSE id

(* A selected release is in one place: with the relay, the runtime, the    *)
(* runtime's answers or the relay's.                                       *)
Quiet == requests = <<>> /\ preparing = NoVariant /\ prepEvents = <<>> /\ feedback = <<>>
Carries(v) ==
  \/ requests = <<v>> /\ preparing = NoVariant /\ prepEvents = <<>> /\ feedback = <<>>
  \/ requests = <<>> /\ preparing = v /\ prepEvents = <<>> /\ feedback = <<>>
  \/ requests = <<>> /\ preparing = NoVariant /\ feedback = <<>>
     /\ \E kind \in {"ready", "failed"} : prepEvents = <<[kind |-> kind, variant |-> v]>>
  \/ requests = <<>> /\ preparing = NoVariant /\ prepEvents = <<>>
     /\ \E kind \in {"ready", "failed"} : feedback = <<[kind |-> kind, variant |-> v]>>
SwitchInv ==
  /\ Quiet \/ \E v \in Variants : Carries(v)
  /\ ~ pending => Quiet
  /\ pending /\ ~ diverted => Carries(selected)

(* Ready is said of the resident release, on its way and in the panel.     *)
ReadyInv ==
  /\ \A k \in 1 .. Len(prepEvents) :
       prepEvents[k].kind = "ready" => prepEvents[k].variant = Resident
  /\ \A k \in 1 .. Len(feedback) : feedback[k].kind = "ready" => feedback[k].variant = Resident
  /\ notice = "ready" => ~ pending /\ selected = Resident

IInv == TypeOK /\ EngineInv /\ RequestInv /\ SwitchInv /\ ReadyInv

-----------------------------------------------------------------------------
(* The event queue                                                         *)

Event == [kind : EventKinds, id : Requests]

LEMMA Names ==
  /\ 0 \notin Requests /\ NoVariant \notin Variants /\ MaxQueued \in Nat \ {0}
  /\ EventKinds = {"progress", "completed", "failed", "cancelled"}
BY BrowserAssumption DEF Requests, EventKinds

(* A full queue makes room by forgetting progress, never the answer.       *)
LEMMA PushedStory ==
  ASSUME NEW q \in Seq(Event), Len(q) <= MaxQueued, NEW kind \in EventKinds, NEW id \in Requests,
         Story(q, id), ~ Final(q)
  PROVE  /\ Pushed(q, kind, id) \in Seq(Event) /\ Len(Pushed(q, kind, id)) <= MaxQueued
         /\ Pushed(q, kind, id) # <<>> /\ Story(Pushed(q, kind, id), id)
         /\ Final(Pushed(q, kind, id)) <=> kind # "progress"
         /\ Pushed(q, kind, id)[Len(Pushed(q, kind, id))] = [kind |-> kind, id |-> id]
<1> DEFINE r == IF Len(q) = MaxQueued THEN Tail(q) ELSE q
           e == [kind |-> kind, id |-> id]
<1>1. r \in Seq(Event) /\ Len(r) \in Nat /\ Len(r) < MaxQueued /\ Story(r, id) /\ ~ Final(r)
  <2>1. CASE Len(q) = MaxQueued
    <3>1. q # <<>>
      BY <2>1, Names
    <3>2. /\ Tail(q) \in Seq(Event) /\ Story(Tail(q), id)
          /\ (Head(q).kind # "progress" => Final(q))
          /\ (Head(q).kind = "progress" => (Final(Tail(q)) <=> Final(q)))
      BY <3>1, TailStory
    <3>3. Len(Tail(q)) \in Nat /\ Len(Tail(q)) < Len(q)
      BY <3>1
    <3> QED
      BY <2>1, <3>2, <3>3
  <2>2. CASE Len(q) # MaxQueued
    <3>1. Len(q) \in Nat
      OBVIOUS
    <3> QED
      BY <2>2, <3>1, Names
  <2> QED
    BY <2>1, <2>2
<1>2. e \in Event /\ e.id = id /\ e.kind = kind
  BY DEF Event
<1> HIDE DEF r, e
<1>3. /\ Append(r, e) \in Seq(Event) /\ Append(r, e) # <<>> /\ Story(Append(r, e), id)
      /\ Final(Append(r, e)) <=> e.kind # "progress"
  BY <1>1, <1>2, AppendStory
<1>4. Len(Append(r, e)) = Len(r) + 1 /\ Append(r, e)[Len(r) + 1] = e
  BY <1>1, <1>2
<1>5. Len(Append(r, e)) <= MaxQueued
  BY <1>1, <1>4, Names
<1>6. Pushed(q, kind, id) = Append(r, e)
  BY DEF Pushed, r, e
<1>7. e = [kind |-> kind, id |-> id]
  BY DEF e
<1> QED
  BY <1>2, <1>3, <1>4, <1>5, <1>6, <1>7

(* What a task of the request that runs finds in the queue.                *)
LEMMA RunningStory ==
  ASSUME RuntimeTypeOK, RequestInv, active # 0
  PROVE  /\ active \in Requests /\ owed = {active}
         /\ events \in Seq(Event) /\ Len(events) <= MaxQueued
         /\ Story(events, active) /\ ~ Final(events)
<1>1. active \in Requests /\ events \in Seq(Event) /\ Len(events) <= MaxQueued
  BY DEF RuntimeTypeOK, Event
<1>2. owed # {}
  BY DEF RequestInv
<1>3. PICK id \in owed : owed = {id} /\ Story(events, id) /\ active = IF Final(events) THEN 0 ELSE id
  BY <1>2 DEF RequestInv
<1> QED
  BY <1>1, <1>3

-----------------------------------------------------------------------------
(* The runtime                                                             *)

RuntimeKept == RuntimeTypeOK' /\ EngineInv' /\ RequestInv'

LEMMA RuntimeSame ==
  ASSUME RuntimeTypeOK, EngineInv, RequestInv, UNCHANGED runtimeVars
  PROVE  RuntimeKept /\ Resident' = Resident
<1>1. UNCHANGED <<engine, active, asked, preparing, prepEvents, events, carried, owed, lost>>
  BY DEF runtimeVars, sharedVars
<1> QED
  BY <1>1 DEF RuntimeKept, RuntimeTypeOK, EngineInv, RequestInv, Free, Resident

LEMMA StartsKeeps ==
  ASSUME RuntimeTypeOK, EngineInv, RequestInv, NEW v \in Variants, PrepareStarts(v)
  PROVE  RuntimeKept /\ Resident' = Resident
<1>1. RuntimeTypeOK'
  BY DEF RuntimeTypeOK, PrepareStarts
<1>2. EngineInv' /\ Resident' = Resident
  BY Names DEF PrepareStarts, EngineInv, Free, Resident
<1>3. RequestInv'
  BY DEF RequestInv, PrepareStarts
<1> QED
  BY <1>1, <1>2, <1>3 DEF RuntimeKept

LEMMA SubmitKeeps ==
  ASSUME RuntimeTypeOK, EngineInv, RequestInv, owed = {},
         NEW id \in Requests, NEW v \in Variants, Submit(id, v)
  PROVE  RuntimeKept /\ Resident' = Resident
<1>1. RuntimeTypeOK'
  BY DEF RuntimeTypeOK, Submit
<1>2. EngineInv' /\ Resident' = Resident
  BY Names DEF Submit, Accepts, EngineInv, Free, Resident
<1>3. RequestInv'
  <2>1. events' = <<>> /\ owed' = {id} /\ active' = id
    BY DEF RequestInv, Submit
  <2>2. Story(events', id) /\ ~ Final(events')
    BY <2>1, EmptyStory
  <2> QED
    BY <2>1, <2>2 DEF RequestInv
<1> QED
  BY <1>1, <1>2, <1>3 DEF RuntimeKept

LEMMA CancelKeeps ==
  ASSUME RuntimeTypeOK, EngineInv, RequestInv, Cancel(active)
  PROVE  RuntimeKept /\ Resident' = Resident
<1>1. RuntimeTypeOK'
  BY DEF RuntimeTypeOK, Cancel
<1> QED
  BY <1>1 DEF RuntimeKept, Cancel, EngineInv, RequestInv, Free, Resident

LEMMA PollKeeps ==
  ASSUME RuntimeTypeOK, EngineInv, RequestInv, Poll
  PROVE  RuntimeKept /\ Resident' = Resident
<1>1. /\ events # <<>> /\ events' = Tail(events)
      /\ owed' = IF Head(events).kind = "progress" THEN owed ELSE owed \ {Head(events).id}
      /\ UNCHANGED <<engine, active, asked, preparing, prepEvents, carried, lost>>
  BY DEF Poll
<1>2. events \in Seq(Event) /\ Len(events) <= MaxQueued
  BY DEF RuntimeTypeOK, Event
<1>3. owed # {}
  BY <1>1 DEF RequestInv
<1>4. PICK id \in owed : owed = {id} /\ Story(events, id) /\ active = IF Final(events) THEN 0 ELSE id
  BY <1>3 DEF RequestInv
<1>5. /\ Head(events).id = id /\ Tail(events) \in Seq(Event) /\ Story(Tail(events), id)
      /\ (Head(events).kind # "progress" => Tail(events) = <<>> /\ Final(events))
      /\ (Head(events).kind = "progress" => (Final(Tail(events)) <=> Final(events)))
  BY <1>1, <1>2, <1>4, TailStory
<1>6. RuntimeTypeOK'
  <2>1. Len(Tail(events)) <= MaxQueued
    <3>1. Len(Tail(events)) = Len(events) - 1 /\ Len(events) \in Nat
      BY <1>1, <1>2
    <3> QED
      BY <1>2, <3>1, Names
  <2> QED
    BY <1>1, <1>5, <2>1 DEF RuntimeTypeOK, Event
<1>7. RequestInv'
  BY <1>1, <1>4, <1>5 DEF RequestInv
<1>8. EngineInv' /\ Resident' = Resident
  BY <1>1 DEF EngineInv, Free, Resident
<1> QED
  BY <1>6, <1>7, <1>8 DEF RuntimeKept

LEMMA PollPreparationKeeps ==
  ASSUME RuntimeTypeOK, EngineInv, RequestInv, PollPreparation
  PROVE  RuntimeKept /\ Resident' = Resident
<1>1. prepEvents \in Seq(Verdicts) /\ prepEvents # <<>>
  BY DEF RuntimeTypeOK, PollPreparation
<1>2. prepEvents' \in Seq(Verdicts)
  BY <1>1 DEF PollPreparation
<1> QED
  BY <1>2 DEF RuntimeKept, PollPreparation, RuntimeTypeOK, EngineInv, RequestInv, Free, Resident

LEMMA ObserveKeeps ==
  ASSUME RuntimeTypeOK, EngineInv, RequestInv, Observe
  PROVE  RuntimeKept /\ Resident' = Resident
<1>1. /\ active # 0 /\ events' = Pushed(events, "progress", active)
      /\ UNCHANGED <<engine, active, asked, preparing, prepEvents, carried, owed, lost>>
  BY DEF Observe
<1>2. /\ active \in Requests /\ owed = {active}
      /\ events \in Seq(Event) /\ Len(events) <= MaxQueued /\ Story(events, active) /\ ~ Final(events)
  BY <1>1, RunningStory
<1>3. /\ events' \in Seq(Event) /\ Len(events') <= MaxQueued
      /\ Story(events', active) /\ ~ Final(events')
  BY <1>1, <1>2, PushedStory, Names
<1>4. RuntimeTypeOK'
  BY <1>1, <1>3 DEF RuntimeTypeOK, Event
<1>5. RequestInv'
  BY <1>1, <1>2, <1>3 DEF RequestInv
<1> QED
  BY <1>1, <1>4, <1>5 DEF RuntimeKept, EngineInv, Free, Resident

(* The answer of an inference is its last event; the engine is back.       *)
LEMMA Finished ==
  ASSUME RuntimeTypeOK, RequestInv, Finish
  PROVE  /\ active \in Requests /\ owed = {active} /\ ~ Final(events)
         /\ events' \in Seq(Event) /\ Len(events') <= MaxQueued /\ events' # <<>>
         /\ Story(events', active) /\ Final(events')
         /\ \E kind \in EventKinds \ {"progress"} :
              /\ kind = "cancelled" => asked
              /\ events'[Len(events')] = [kind |-> kind, id |-> active]
<1>1. active # 0
  BY DEF Finish
<1>2. /\ active \in Requests /\ owed = {active}
      /\ events \in Seq(Event) /\ Len(events) <= MaxQueued /\ Story(events, active) /\ ~ Final(events)
  BY <1>1, RunningStory
<1> DEFINE told == Pushed(events, "progress", active)
<1>3. told \in Seq(Event) /\ Len(told) <= MaxQueued /\ Story(told, active) /\ ~ Final(told)
  BY <1>2, PushedStory, Names
<1> HIDE DEF told
<1>4. \E kind \in EventKinds \ {"progress"}, q \in {events, told} :
        (kind = "cancelled" => asked) /\ events' = Pushed(q, kind, active)
  BY Names DEF Finish, told
<1>5. PICK kind \in EventKinds \ {"progress"}, q \in {events, told} :
        (kind = "cancelled" => asked) /\ events' = Pushed(q, kind, active)
  BY <1>4
<1>6. q \in Seq(Event) /\ Len(q) <= MaxQueued /\ Story(q, active) /\ ~ Final(q)
  BY <1>2, <1>3
<1>7. /\ events' \in Seq(Event) /\ Len(events') <= MaxQueued /\ events' # <<>>
      /\ Story(events', active) /\ Final(events')
      /\ events'[Len(events')] = [kind |-> kind, id |-> active]
  BY <1>2, <1>5, <1>6, PushedStory
<1> QED
  BY <1>2, <1>5, <1>7

LEMMA FinishKeeps ==
  ASSUME RuntimeTypeOK, EngineInv, RequestInv, Finish
  PROVE  RuntimeKept /\ Resident' = Resident
<1>1. /\ active \in Requests /\ owed = {active}
      /\ events' \in Seq(Event) /\ Len(events') <= MaxQueued
      /\ Story(events', active) /\ Final(events')
  BY Finished
<1>2. /\ engine' = carried /\ carried' = NoVariant /\ active' = 0 /\ asked' = FALSE
      /\ UNCHANGED <<preparing, prepEvents, owed, lost>> /\ active # 0
  BY DEF Finish, ReturnEngine
<1>3. RuntimeTypeOK'
  BY <1>1, <1>2 DEF RuntimeTypeOK, Event
<1>4. EngineInv' /\ Resident' = Resident
  BY <1>2 DEF EngineInv, Free, Resident
<1>5. RequestInv'
  BY <1>1, <1>2 DEF RequestInv
<1> QED
  BY <1>3, <1>4, <1>5 DEF RuntimeKept

LEMMA SwitchKeeps ==
  ASSUME RuntimeTypeOK, EngineInv, RequestInv, SwitchEnds \/ SwitchFails
  PROVE  /\ RuntimeKept /\ preparing \in Variants /\ preparing' = NoVariant
         /\ \E kind \in {"ready", "failed"} :
              /\ prepEvents' = Append(prepEvents, [kind |-> kind, variant |-> preparing])
              /\ kind = "ready" => Resident' = preparing
<1>1. PICK kind \in {"ready", "failed"} :
        /\ prepEvents' = Append(prepEvents, [kind |-> kind, variant |-> preparing])
        /\ kind = "ready" => engine' = preparing /\ lost' = lost
        /\ kind = "failed" => engine' = engine /\ lost' = TRUE
        /\ preparing # NoVariant /\ preparing' = NoVariant /\ carried' = NoVariant
        /\ UNCHANGED <<active, asked, events, owed>>
  BY DEF SwitchEnds, SwitchFails, Answer
<1>2. preparing \in Variants /\ prepEvents \in Seq(Verdicts)
  BY <1>1 DEF RuntimeTypeOK
<1>3. [kind |-> kind, variant |-> preparing] \in Verdicts
  BY <1>2 DEF Verdicts
<1>4. prepEvents' \in Seq(Verdicts)
  BY <1>1, <1>2, <1>3
<1>5. RuntimeTypeOK'
  BY <1>1, <1>2, <1>4 DEF RuntimeTypeOK
<1>6. EngineInv'
  BY <1>1 DEF EngineInv, Free
<1>7. RequestInv'
  BY <1>1 DEF RequestInv
<1>8. kind = "ready" => Resident' = preparing
  BY <1>1 DEF Resident
<1> QED
  BY <1>1, <1>2, <1>5, <1>6, <1>7, <1>8 DEF RuntimeKept
-----------------------------------------------------------------------------
(* The selected release on its way                                         *)

FrameTypes ==
  stage \in {"idle", "prepare", "submit", "poll", "feedback"} /\ alive \in BOOLEAN /\ polled \in 0 .. PollLimit
PanelTypes ==
  /\ selected \in Variants /\ pending \in BOOLEAN
  /\ notice \in {"", "switching", "reference", "ready", "failed"}
  /\ requests \in Seq(Variants) /\ feedback \in Seq(Verdicts) /\ diverted \in BOOLEAN

LEMMA Typed == TypeOK <=> RuntimeTypeOK /\ FrameTypes /\ PanelTypes
BY DEF TypeOK, FrameTypes, PanelTypes

PanelInv == PanelTypes /\ SwitchInv /\ ReadyInv

LEMMA One ==
  ASSUME NEW S, NEW a \in S
  PROVE  /\ <<a>> \in Seq(S) /\ Len(<<a>>) = 1 /\ <<a>>[1] = a /\ <<a>> # <<>>
         /\ Head(<<a>>) = a /\ Tail(<<a>>) = <<>> /\ Append(<<>>, a) = <<a>>
OBVIOUS

LEMMA Empty == \A S : <<>> \in Seq(S)
OBVIOUS

LEMMA Answers ==
  ASSUME NEW v \in Variants, NEW kind \in {"ready", "failed"}
  PROVE  [kind |-> kind, variant |-> v] \in Verdicts
BY DEF Verdicts

LEMMA PanelSame ==
  ASSUME PanelInv, Resident' = Resident,
         UNCHANGED <<panelVars, requests, feedback, diverted, preparing, prepEvents>>
  PROVE  PanelInv'
<1>1. UNCHANGED <<selected, pending, notice, requests, feedback, diverted, preparing, prepEvents>>
  BY DEF panelVars
<1>2. PanelTypes'
  BY <1>1 DEF PanelInv, PanelTypes
<1>3. SwitchInv'
  BY <1>1 DEF PanelInv, SwitchInv, Quiet, Carries
<1>4. ReadyInv'
  BY <1>1 DEF PanelInv, ReadyInv
<1> QED
  BY <1>2, <1>3, <1>4 DEF PanelInv

(* A step that carries the selected release on.                            *)
LEMMA CarriedOn ==
  ASSUME SwitchInv, UNCHANGED <<selected, pending, diverted>>, ~ Quiet, selected \in Variants,
         \A v \in Variants : Carries(v) => Carries(v)'
  PROVE  SwitchInv' /\ pending
BY DEF SwitchInv

LEMMA SelectKeeps ==
  ASSUME PanelInv, NEW v \in Variants, SelectModel(v)
  PROVE  PanelInv'
<1>1. /\ ~ pending /\ selected' = v /\ pending' = TRUE /\ notice' = "switching"
      /\ requests' = Append(requests, v) /\ diverted' = FALSE
      /\ UNCHANGED <<runtimeVars, feedback>>
  BY DEF SelectModel, MaySelect
<1>2. UNCHANGED <<engine, carried, preparing, prepEvents>>
  BY <1>1 DEF runtimeVars, sharedVars
<1>3. Quiet
  BY <1>1 DEF PanelInv, SwitchInv
<1>4. requests' = <<v>>
  BY <1>1, <1>3, One DEF Quiet
<1>5. Carries(v)'
  BY <1>1, <1>2, <1>3, <1>4 DEF Quiet, Carries
<1>6. SwitchInv'
  BY <1>1, <1>5 DEF SwitchInv
<1>7. PanelTypes'
  BY <1>1, <1>4, One DEF PanelInv, PanelTypes
<1>8. ReadyInv'
  BY <1>1, <1>2 DEF PanelInv, ReadyInv, Resident
<1> QED
  BY <1>6, <1>7, <1>8 DEF PanelInv

LEMMA ReferenceKeeps ==
  ASSUME PanelInv, AcceptReference
  PROVE  PanelInv'
<1>1. /\ selected' = (IF selected \in EditVariants THEN selected ELSE FirstEdit)
      /\ notice' = "reference" /\ diverted' = (diverted \/ (pending /\ selected' # selected))
      /\ UNCHANGED <<runtimeVars, pending, requests, feedback>>
  BY DEF AcceptReference
<1>2. UNCHANGED <<engine, carried, preparing, prepEvents>>
  BY <1>1 DEF runtimeVars, sharedVars
<1>3. (Quiet' <=> Quiet) /\ \A v : Carries(v)' <=> Carries(v)
  BY <1>1, <1>2 DEF Quiet, Carries
<1>4. SwitchInv'
  BY <1>1, <1>3 DEF PanelInv, SwitchInv
<1>5. PanelTypes'
  BY <1>1, SelectionAssumption DEF PanelInv, PanelTypes
<1>6. ReadyInv'
  BY <1>1, <1>2 DEF PanelInv, ReadyInv, Resident
<1> QED
  BY <1>4, <1>5, <1>6 DEF PanelInv

LEMMA FeedbackKeeps ==
  ASSUME PanelInv, HandleFeedback
  PROVE  PanelInv'
<1>1. /\ feedback # <<>> /\ feedback' = Tail(feedback)
      /\ UNCHANGED <<runtimeVars, selected, requests, diverted>>
      /\ Head(feedback).variant = selected => pending' = FALSE /\ notice' = Head(feedback).kind
      /\ Head(feedback).variant # selected => UNCHANGED <<pending, notice>>
  BY DEF HandleFeedback, Concerns
<1>2. UNCHANGED <<engine, carried, preparing, prepEvents>>
  BY <1>1 DEF runtimeVars, sharedVars
<1>3. pending /\ \E v \in Variants : Carries(v)
  BY <1>1 DEF PanelInv, SwitchInv, Quiet
<1>4. PICK v \in Variants : Carries(v)
  BY <1>3
<1>5. PICK kind \in {"ready", "failed"} : feedback = <<[kind |-> kind, variant |-> v]>>
  BY <1>1, <1>4 DEF Carries
<1>6. requests = <<>> /\ preparing = NoVariant /\ prepEvents = <<>>
  BY <1>1, <1>4 DEF Carries
<1>7. /\ Head(feedback) = [kind |-> kind, variant |-> v] /\ feedback' = <<>>
      /\ Len(feedback) = 1 /\ feedback[1] = [kind |-> kind, variant |-> v]
  BY <1>1, <1>5, Answers, One
<1>8. Quiet'
  BY <1>1, <1>2, <1>6, <1>7 DEF Quiet
<1>9. pending' => diverted'
  <2> SUFFICES ASSUME pending', ~ diverted' PROVE FALSE
    OBVIOUS
  <2>1. Carries(selected)
    BY <1>1, <1>3 DEF PanelInv, SwitchInv
  <2>2. PICK k \in {"ready", "failed"} : feedback = <<[kind |-> k, variant |-> selected]>>
    BY <1>1, <2>1 DEF Carries
  <2>3. selected \in Variants
    BY DEF PanelInv, PanelTypes
  <2>4. Head(feedback) = [kind |-> k, variant |-> selected]
    BY <2>2, <2>3, Answers, One
  <2>5. Head(feedback).variant = selected
    BY <2>4
  <2>6. pending' = FALSE
    BY <1>1, <2>5
  <2> QED
    BY <2>6
<1>10. SwitchInv'
  BY <1>8, <1>9 DEF SwitchInv
<1>11. ReadyInv'
  <2>1. Resident' = Resident /\ Len(prepEvents') = 0 /\ Len(feedback') = 0
    BY <1>2, <1>6, <1>7 DEF Resident
  <2>2. notice # "ready" /\ (kind = "ready" => v = Resident)
    BY <1>3, <1>7 DEF PanelInv, ReadyInv
  <2>3. CASE v = selected
    <3>1. pending' = FALSE /\ notice' = kind
      BY <1>1, <1>7, <2>3
    <3>2. notice' = "ready" => ~ pending' /\ selected' = Resident'
      BY <1>1, <2>1, <2>2, <2>3, <3>1
    <3> QED
      BY <2>1, <3>2 DEF ReadyInv
  <2>4. CASE v # selected
    <3>1. notice' = notice
      BY <1>1, <1>7, <2>4
    <3> QED
      BY <2>1, <2>2, <3>1 DEF ReadyInv
  <2> QED
    BY <2>3, <2>4
<1>12. PanelTypes'
  <2>1. feedback' \in Seq(Verdicts)
    BY <1>7, Empty
  <2>2. PanelTypes
    BY DEF PanelInv
  <2>3. /\ pending' \in BOOLEAN /\ notice' \in {"", "switching", "reference", "ready", "failed"}
        /\ selected' \in Variants /\ requests' \in Seq(Variants) /\ diverted' \in BOOLEAN
    <3>1. pending' = FALSE \/ pending' = pending
      BY <1>1
    <3>2. notice' = kind \/ notice' = notice
      BY <1>1, <1>7
    <3> QED
      BY <1>1, <2>2, <3>1, <3>2 DEF PanelTypes
  <2> QED
    BY <2>1, <2>3 DEF PanelTypes
<1> QED
  BY <1>10, <1>11, <1>12 DEF PanelInv

LEMMA SwitchMoves ==
  ASSUME RuntimeTypeOK, EngineInv, RequestInv, PanelInv, SwitchEnds \/ SwitchFails,
         UNCHANGED <<panelVars, requests, feedback, diverted>>
  PROVE  RuntimeKept /\ PanelInv'
<1>1. /\ RuntimeKept /\ preparing \in Variants /\ preparing' = NoVariant
      /\ \E kind \in {"ready", "failed"} :
           /\ prepEvents' = Append(prepEvents, [kind |-> kind, variant |-> preparing])
           /\ kind = "ready" => Resident' = preparing
  BY SwitchKeeps
<1>2. PICK kind \in {"ready", "failed"} :
        /\ prepEvents' = Append(prepEvents, [kind |-> kind, variant |-> preparing])
        /\ kind = "ready" => Resident' = preparing
  BY <1>1
<1>3. UNCHANGED <<selected, pending, notice, requests, feedback, diverted>>
  BY DEF panelVars
<1>4. ~ Quiet /\ selected \in Variants
  BY <1>1, Names DEF Quiet, PanelInv, PanelTypes
<1>5. PICK v \in Variants : Carries(v)
  BY <1>4 DEF PanelInv, SwitchInv
<1>6. requests = <<>> /\ prepEvents = <<>> /\ feedback = <<>>
  BY <1>1, <1>5, Names DEF Carries
<1>7. prepEvents' = <<[kind |-> kind, variant |-> preparing]>>
  BY <1>1, <1>2, <1>6, Answers, One
<1>8. \A u \in Variants : Carries(u) => Carries(u)'
  <2> SUFFICES ASSUME NEW u \in Variants, Carries(u) PROVE Carries(u)'
    OBVIOUS
  <2>1. u = preparing
    BY <1>1, Names DEF Carries
  <2> QED
    BY <1>1, <1>3, <1>6, <1>7, <2>1 DEF Carries
<1>9. SwitchInv' /\ pending
  BY <1>3, <1>4, <1>8, CarriedOn DEF PanelInv
<1>10. ReadyInv'
  <2>1. Len(prepEvents') = 1 /\ prepEvents'[1] = [kind |-> kind, variant |-> preparing]
    BY <1>1, <1>7, Answers, One
  <2>2. Len(feedback') = 0
    BY <1>3, <1>6
  <2>3. notice' # "ready"
    BY <1>3, <1>9 DEF PanelInv, ReadyInv
  <2> QED
    BY <1>2, <2>1, <2>2, <2>3 DEF ReadyInv
<1>11. PanelTypes'
  BY <1>3 DEF PanelInv, PanelTypes
<1> QED
  BY <1>1, <1>9, <1>10, <1>11 DEF PanelInv

LEMMA RelayMoves ==
  ASSUME RuntimeTypeOK, EngineInv, RequestInv, PanelInv, RelayRequest
  PROVE  RuntimeKept /\ PanelInv'
<1>1. /\ requests # <<>> /\ requests' = Tail(requests) /\ Relay(Head(requests))
      /\ UNCHANGED <<selected, pending, notice, diverted>>
  BY DEF RelayRequest, panelVars
<1>2. ~ Quiet /\ selected \in Variants
  BY <1>1 DEF Quiet, PanelInv, PanelTypes
<1>3. PICK v \in Variants : Carries(v)
  BY <1>2 DEF PanelInv, SwitchInv
<1>4. requests = <<v>> /\ preparing = NoVariant /\ prepEvents = <<>> /\ feedback = <<>>
  BY <1>1, <1>3 DEF Carries
<1>5. Head(requests) = v /\ requests' = <<>>
  BY <1>1, <1>4, One
<1>6. \A u \in Variants : Carries(u) => u = v
  <2> SUFFICES ASSUME NEW u \in Variants, Carries(u) PROVE u = v
    OBVIOUS
  <2>1. requests = <<u>>
    BY <1>1 DEF Carries
  <2> QED
    BY <1>5, <2>1, One
<1>7. \/ /\ UNCHANGED runtimeVars
         /\ \E kind \in {"ready", "failed"} :
              /\ feedback' = Append(feedback, [kind |-> kind, variant |-> v])
              /\ kind = "ready" => engine = v
      \/ PrepareStarts(v) /\ UNCHANGED feedback
  BY <1>1, <1>5 DEF Relay, Tell, PrepareReady
<1>8. CASE PrepareStarts(v) /\ UNCHANGED feedback
  <2>1. RuntimeKept /\ Resident' = Resident
    BY <1>8, StartsKeeps
  <2>2. preparing' = v /\ UNCHANGED prepEvents
    BY <1>8 DEF PrepareStarts
  <2>3. Carries(v)'
    BY <1>4, <1>5, <1>8, <2>2 DEF Carries
  <2>4. SwitchInv' /\ pending
    BY <1>1, <1>2, <1>6, <2>3, CarriedOn DEF PanelInv
  <2>5. ReadyInv'
    BY <1>1, <1>8, <2>1, <2>2 DEF PanelInv, ReadyInv
  <2>6. PanelTypes'
    BY <1>1, <1>5, <1>8, Empty DEF PanelInv, PanelTypes
  <2> QED
    BY <2>1, <2>4, <2>5, <2>6 DEF PanelInv
<1>9. CASE /\ UNCHANGED runtimeVars
           /\ \E kind \in {"ready", "failed"} :
                /\ feedback' = Append(feedback, [kind |-> kind, variant |-> v])
                /\ kind = "ready" => engine = v
  <2>1. RuntimeKept /\ Resident' = Resident
    BY <1>9, RuntimeSame
  <2>2. UNCHANGED <<preparing, prepEvents>>
    BY <1>9 DEF runtimeVars, sharedVars
  <2>3. PICK kind \in {"ready", "failed"} :
          /\ feedback' = Append(feedback, [kind |-> kind, variant |-> v])
          /\ kind = "ready" => engine = v
    BY <1>9
  <2>4. /\ feedback' = <<[kind |-> kind, variant |-> v]>> /\ feedback' \in Seq(Verdicts)
        /\ Len(feedback') = 1 /\ feedback'[1] = [kind |-> kind, variant |-> v]
    BY <1>4, <2>3, Answers, One
  <2>5. Carries(v)'
    BY <1>4, <1>5, <2>2, <2>4 DEF Carries
  <2>6. SwitchInv' /\ pending
    BY <1>1, <1>2, <1>6, <2>5, CarriedOn DEF PanelInv
  <2>7. ReadyInv'
    <3>1. engine = v => Resident = v
      BY Names DEF Resident
    <3>2. Len(prepEvents') = 0
      BY <1>4, <2>2
    <3>3. notice' # "ready"
      BY <1>1, <2>6 DEF PanelInv, ReadyInv
    <3> QED
      BY <2>1, <2>3, <2>4, <3>1, <3>2, <3>3 DEF ReadyInv
  <2>8. PanelTypes'
    BY <1>1, <1>5, <2>4, Empty DEF PanelInv, PanelTypes
  <2> QED
    BY <2>1, <2>6, <2>7, <2>8 DEF PanelInv
<1> QED
  BY <1>7, <1>8, <1>9

LEMMA AnswerMoves ==
  ASSUME RuntimeTypeOK, EngineInv, RequestInv, PanelInv, RelayAnswer
  PROVE  RuntimeKept /\ PanelInv'
<1>1. /\ PollPreparation /\ feedback' = Append(feedback, Head(prepEvents))
      /\ prepEvents # <<>> /\ prepEvents' = Tail(prepEvents)
      /\ UNCHANGED <<selected, pending, notice, requests, diverted, preparing>>
  BY DEF RelayAnswer, PollPreparation, panelVars
<1>2. RuntimeKept /\ Resident' = Resident
  BY <1>1, PollPreparationKeeps
<1>3. ~ Quiet /\ selected \in Variants
  BY <1>1 DEF Quiet, PanelInv, PanelTypes
<1>4. PICK v \in Variants : Carries(v)
  BY <1>3 DEF PanelInv, SwitchInv
<1>5. PICK kind \in {"ready", "failed"} : prepEvents = <<[kind |-> kind, variant |-> v]>>
  BY <1>1, <1>4 DEF Carries
<1>6. requests = <<>> /\ preparing = NoVariant /\ feedback = <<>>
  BY <1>1, <1>4 DEF Carries
<1> DEFINE answer == [kind |-> kind, variant |-> v]
<1>7. /\ prepEvents' = <<>> /\ feedback' = <<answer>> /\ feedback' \in Seq(Verdicts)
      /\ Len(feedback') = 1 /\ feedback'[1] = answer
      /\ Len(prepEvents) = 1 /\ prepEvents[1] = answer
  BY <1>1, <1>5, <1>6, Answers, One
<1>8. \A u \in Variants : Carries(u) => Carries(u)'
  <2> SUFFICES ASSUME NEW u \in Variants, Carries(u) PROVE Carries(u)'
    OBVIOUS
  <2>1. PICK k \in {"ready", "failed"} : prepEvents = <<[kind |-> k, variant |-> u]>>
    BY <1>1 DEF Carries
  <2>2. prepEvents[1] = [kind |-> k, variant |-> u]
    BY <2>1, Answers, One
  <2>3. u = v
    BY <1>7, <2>2
  <2> QED
    BY <1>1, <1>6, <1>7, <2>3 DEF Carries
<1>9. SwitchInv' /\ pending
  BY <1>1, <1>3, <1>8, CarriedOn DEF PanelInv
<1>10. ReadyInv'
  <2>1. answer.kind = "ready" => answer.variant = Resident
    BY <1>7 DEF PanelInv, ReadyInv
  <2>2. notice' # "ready" /\ Len(prepEvents') = 0
    BY <1>1, <1>7, <1>9 DEF PanelInv, ReadyInv
  <2> QED
    BY <1>2, <1>7, <2>1, <2>2 DEF ReadyInv
<1>11. PanelTypes'
  BY <1>1, <1>7 DEF PanelInv, PanelTypes
<1> QED
  BY <1>2, <1>9, <1>10, <1>11 DEF PanelInv
-----------------------------------------------------------------------------
(* Every step                                                              *)

LEMMA FrameTyped ==
  ASSUME FrameTypes, [Next]_vars
  PROVE  FrameTypes'
<1>1. CASE UNCHANGED frameVars
  BY <1>1 DEF FrameTypes, frameVars
<1>2. CASE BeginFrame \/ SubmitDone \/ EndFrame
  BY <1>2 DEF FrameTypes, BeginFrame, SubmitDone, EndFrame, Goto
<1>3. CASE PrepareDone \/ PollDone
  <2>1. polled' = 0 /\ alive' = alive /\ stage' \in {"submit", "feedback"}
    BY <1>3 DEF PrepareDone, PollDone, Goto
  <2> QED
    BY <2>1, SelectionAssumption DEF FrameTypes
<1>4. CASE RelayAnswer \/ PollEvent
  <2>1. polled < PollLimit /\ polled' = polled + 1 /\ alive' = alive /\ stage' = stage
    BY <1>4 DEF RelayAnswer, PollEvent
  <2> QED
    BY <2>1, SelectionAssumption DEF FrameTypes
<1>5. CASE BackendLost
  BY <1>5 DEF FrameTypes, BackendLost
<1>6. UNCHANGED vars => UNCHANGED frameVars
  BY DEF vars
<1>7. \A v \in Variants : SelectModel(v) => UNCHANGED frameVars
  BY DEF SelectModel
<1>8. AcceptReference \/ SubmitRequest \/ CancelRequest \/ RuntimeTask \/ RelayRequest \/ HandleFeedback
        => UNCHANGED frameVars
  BY DEF AcceptReference, SubmitRequest, CancelRequest, RuntimeTask, Between, RelayRequest,
         HandleFeedback, frameVars
<1> QED
  BY <1>1, <1>2, <1>3, <1>4, <1>5, <1>6, <1>7, <1>8 DEF Next, FrameStep

Elsewhere == UNCHANGED <<panelVars, requests, feedback, diverted>>

(* The steps of the runtime that do not concern the selection.             *)
LEMMA InferenceKeeps ==
  ASSUME RuntimeTypeOK, EngineInv, RequestInv, PanelInv, Elsewhere,
         \/ owed = {} /\ \E id \in Requests, v \in Variants : Submit(id, v)
         \/ Cancel(active) \/ Poll \/ Observe \/ Finish
  PROVE  RuntimeKept /\ PanelInv'
<1>1. RuntimeKept /\ Resident' = Resident
  BY SubmitKeeps, CancelKeeps, PollKeeps, ObserveKeeps, FinishKeeps
<1>2. UNCHANGED <<preparing, prepEvents>>
  BY DEF Submit, Cancel, Poll, Observe, Finish
<1> QED
  BY <1>1, <1>2, PanelSame DEF Elsewhere

LEMMA InitHolds == Init => IInv
<1> SUFFICES ASSUME Init PROVE IInv
  OBVIOUS
<1>1. /\ engine \in Variants /\ active = 0 /\ asked = FALSE /\ preparing = NoVariant
      /\ prepEvents = <<>> /\ events = <<>> /\ carried = NoVariant /\ owed = {} /\ lost = FALSE
      /\ stage = "idle" /\ alive = TRUE /\ polled = 0 /\ selected = engine /\ pending = FALSE
      /\ notice = "" /\ requests = <<>> /\ feedback = <<>> /\ diverted = FALSE
  BY DEF Init, RuntimeInit
<1>2. RuntimeTypeOK
  <2>1. Len(events) <= MaxQueued
    <3>1. Len(events) = 0 /\ MaxQueued \in Nat
      BY <1>1, Names
    <3> QED
      BY <3>1
  <2>2. prepEvents \in Seq(Verdicts) /\ events \in Seq([kind : EventKinds, id : Requests])
    BY <1>1, Empty
  <2> QED
    BY <1>1, <2>1, <2>2 DEF RuntimeTypeOK
<1>3. FrameTypes
  <2>1. 0 \in 0 .. PollLimit
    BY SelectionAssumption
  <2> QED
    BY <1>1, <2>1 DEF FrameTypes
<1>4. PanelTypes
  BY <1>1, Empty DEF PanelTypes
<1>5. EngineInv /\ RequestInv
  BY <1>1, Names DEF EngineInv, RequestInv, Free
<1>6. SwitchInv
  BY <1>1 DEF SwitchInv, Quiet
<1>7. ReadyInv
  <2>1. Len(prepEvents) = 0 /\ Len(feedback) = 0
    BY <1>1
  <2>2. notice # "ready"
    BY <1>1
  <2>3. 1 .. Len(prepEvents) = {} /\ 1 .. Len(feedback) = {}
    BY <2>1
  <2> QED
    BY <2>2, <2>3 DEF ReadyInv
<1> QED
  BY <1>2, <1>3, <1>4, <1>5, <1>6, <1>7, Typed DEF IInv

LEMMA StepKeeps == IInv /\ [Next]_vars => IInv'
<1> SUFFICES ASSUME IInv, [Next]_vars PROVE IInv'
  OBVIOUS
<1>p. RuntimeTypeOK /\ EngineInv /\ RequestInv /\ PanelInv /\ FrameTypes
  BY Typed DEF IInv, PanelInv
<1>f. FrameTypes'
  BY <1>p, FrameTyped
<1>k. RuntimeKept /\ PanelInv'
  <2>1. ASSUME NEW v \in Variants, SelectModel(v) PROVE RuntimeKept /\ PanelInv'
    BY <1>p, <2>1, RuntimeSame, SelectKeeps DEF SelectModel
  <2>2. CASE AcceptReference
    BY <1>p, <2>2, RuntimeSame, ReferenceKeeps DEF AcceptReference
  <2>3. CASE HandleFeedback
    BY <1>p, <2>3, RuntimeSame, FeedbackKeeps DEF HandleFeedback
  <2>4. CASE BackendLost \/ BeginFrame \/ PrepareDone \/ SubmitDone \/ PollDone \/ EndFrame \/ UNCHANGED vars
    <3>1. UNCHANGED runtimeVars /\ Elsewhere
      BY <2>4 DEF BackendLost, BeginFrame, PrepareDone, SubmitDone, PollDone, EndFrame, Goto, Elsewhere, vars
    <3>2. UNCHANGED <<preparing, prepEvents>>
      BY <3>1 DEF runtimeVars, sharedVars
    <3> QED
      BY <1>p, <3>1, <3>2, RuntimeSame, PanelSame DEF Elsewhere
  <2>5. CASE RelayRequest
    BY <1>p, <2>5, RelayMoves
  <2>6. CASE RelayAnswer
    BY <1>p, <2>6, AnswerMoves
  <2>7. CASE SubmitRequest \/ CancelRequest \/ PollEvent
    <3>1. /\ Elsewhere
          /\ \/ owed = {} /\ \E id \in Requests, v \in Variants : Submit(id, v)
             \/ Cancel(active) \/ Poll
      BY <2>7 DEF SubmitRequest, CancelRequest, PollEvent, Elsewhere
    <3> QED
      BY <1>p, <3>1, InferenceKeeps
  <2>8. CASE RuntimeTask
    <3>1. Elsewhere /\ (Observe \/ Finish \/ SwitchEnds \/ SwitchFails)
      BY <2>8 DEF RuntimeTask, Between, TaskStep, Elsewhere
    <3>2. CASE Observe \/ Finish
      BY <1>p, <3>1, <3>2, InferenceKeeps
    <3>3. CASE SwitchEnds \/ SwitchFails
      BY <1>p, <3>1, <3>3, SwitchMoves DEF Elsewhere
    <3> QED
      BY <3>1, <3>2, <3>3
  <2> QED
    BY <2>1, <2>2, <2>3, <2>4, <2>5, <2>6, <2>7, <2>8 DEF Next, FrameStep
<1>t. TypeOK' <=> RuntimeTypeOK' /\ FrameTypes' /\ PanelTypes'
  BY DEF TypeOK, FrameTypes, PanelTypes
<1> QED
  BY <1>f, <1>k, <1>t DEF IInv, RuntimeKept, PanelInv

-----------------------------------------------------------------------------
(* Theorems                                                                *)

(* The inductive invariant.                                                *)
THEOREM SelectionInvariant == Spec => []IInv
BY InitHolds, StepKeeps, PTL DEF Spec

(* Types: the cell, the queues, the frame and the panel, whatever answers  *)
(* are dropped from the bounded queue.                                     *)
THEOREM TypeCorrect == Spec => []TypeOK
<1>1. IInv => TypeOK
  BY DEF IInv
<1> QED
  BY <1>1, SelectionInvariant, PTL

(* push_runtime_event forgets the oldest event of a full queue, and yet    *)
(* every request that was accepted is running or has its one answer        *)
(* queued.                                                                 *)
THEOREM NoAnswerForgotten == Spec => []AnswersKept
<1>1. IInv => AnswersKept
  <2> SUFFICES ASSUME IInv, NEW id \in Requests
               PROVE  /\ id \in owed <=> id = active \/ Answered(id) # {}
                      /\ \A k, l \in Answered(id) : k = l
    BY DEF AnswersKept
  <2>1. events \in Seq(Event) /\ DOMAIN events = 1 .. Len(events)
    BY Typed DEF IInv, RuntimeTypeOK, Event
  <2>2. CASE owed = {}
    <3>1. active = 0 /\ DOMAIN events = {}
      BY <2>2 DEF IInv, RequestInv
    <3> QED
      BY <2>2, <3>1, Names DEF Answered
  <2>3. CASE owed # {}
    <3>1. PICK i \in owed : owed = {i} /\ Story(events, i) /\ active = IF Final(events) THEN 0 ELSE i
      BY <2>3 DEF IInv, RequestInv
    <3>2. Answered(id) # {} <=> id = i /\ Final(events)
      BY <2>1, <3>1 DEF Answered, IsTerminal, Story, Final
    <3>3. \A k \in Answered(id) : k = Len(events)
      BY <2>1, <3>1 DEF Answered, IsTerminal, Story
    <3> QED
      BY <3>1, <3>2, <3>3, Names
  <2> QED
    BY <2>2, <2>3
<1> QED
  BY <1>1, SelectionInvariant, PTL

(* An inference puts the engine back however it ends.                      *)
THEOREM EngineReturns == Spec => []EngineComesBack
<1>1. IInv => EngineComesBack
  BY DEF IInv, EngineInv, EngineComesBack
<1> QED
  BY <1>1, SelectionInvariant, PTL

(* The panel says Ready of the release that is resident.                   *)
THEOREM NoticeIsTrue == Spec => []NoticeTrue
<1>1. IInv => NoticeTrue
  BY DEF IInv, ReadyInv, NoticeTrue
<1> QED
  BY <1>1, SelectionInvariant, PTL

(* The flag that blocks the panel is paid for by one answer on its way,    *)
(* for the selected release, unless a reference has changed the selection. *)
THEOREM PendingIsAnswered == Spec => []PendingIsOwed
<1>1. IInv => PendingIsOwed
  <2> SUFFICES ASSUME IInv, pending, ~ diverted PROVE Outstanding = {selected}
    BY DEF PendingIsOwed
  <2>1. Carries(selected) /\ selected \in Variants
    BY Typed DEF IInv, SwitchInv, PanelTypes
  <2>2. selected # NoVariant
    BY <2>1, Names
  <2>3. CASE requests = <<selected>> /\ preparing = NoVariant /\ prepEvents = <<>> /\ feedback = <<>>
    BY <2>1, <2>3, Names DEF Outstanding
  <2>4. CASE requests = <<>> /\ preparing = selected /\ prepEvents = <<>> /\ feedback = <<>>
    BY <2>1, <2>4, Names DEF Outstanding
  <2>5. CASE /\ requests = <<>> /\ preparing = NoVariant /\ feedback = <<>>
             /\ \E kind \in {"ready", "failed"} : prepEvents = <<[kind |-> kind, variant |-> selected]>>
    BY <2>1, <2>5, Names DEF Outstanding
  <2>6. CASE /\ requests = <<>> /\ preparing = NoVariant /\ prepEvents = <<>>
             /\ \E kind \in {"ready", "failed"} : feedback = <<[kind |-> kind, variant |-> selected]>>
    BY <2>1, <2>6, Names DEF Outstanding
  <2> QED
    BY <2>1, <2>3, <2>4, <2>5, <2>6 DEF Carries
<1> QED
  BY <1>1, SelectionInvariant, PTL
-----------------------------------------------------------------------------
(* The contract of the runtime                                             *)

Job == IF alive THEN active ELSE 0
Token == alive /\ asked

(* What the contract sees of the queue.                                    *)
Seen ==
  /\ ~ alive \/ ~ Final(events) => Terminal = <<>>
  /\ alive /\ Final(events) =>
       /\ events # <<>> /\ Terminal = <<events[Len(events)]>>
       /\ events[Len(events)].kind # "progress" /\ events[Len(events)].id \in owed
       /\ owed = {events[Len(events)].id} /\ active = 0
  /\ active # 0 => ~ Final(events)

LEMMA IsSeen == IInv => Seen
<1> SUFFICES ASSUME IInv PROVE Seen
  OBVIOUS
<1>1. events \in Seq(Event) /\ Len(events) \in Nat /\ (events # <<>> <=> Len(events) # 0)
  BY Typed DEF IInv, RuntimeTypeOK, Event
<1>2. CASE owed = {}
  <2>1. active = 0 /\ events = <<>> /\ ~ Final(events)
    BY <1>2, EmptyStory DEF IInv, RequestInv
  <2> QED
    BY <2>1 DEF Seen, Terminal
<1>3. CASE owed # {}
  <2>1. PICK id \in owed : owed = {id} /\ Story(events, id) /\ active = IF Final(events) THEN 0 ELSE id
    BY <1>3 DEF IInv, RequestInv
  <2>2. CASE ~ Final(events)
    <3>1. events # <<>> => ~ IsTerminal(events[Len(events)])
      BY <1>1, <2>2 DEF Final, IsTerminal
    <3> QED
      BY <2>2, <3>1 DEF Seen, Terminal
  <2>3. CASE Final(events)
    <3>1. PICK k \in 1 .. Len(events) : events[k].kind # "progress"
      BY <2>3 DEF Final
    <3>2. k = Len(events) /\ events # <<>> /\ events[k].id = id
      BY <1>1, <2>1, <3>1 DEF Story
    <3>3. IsTerminal(events[Len(events)])
      BY <3>1, <3>2 DEF IsTerminal
    <3> QED
      BY <2>1, <2>3, <3>1, <3>2, <3>3 DEF Seen, Terminal
  <2> QED
    BY <2>2, <2>3
<1> QED
  BY <1>2, <1>3

LEMMA SeenNext ==
  ASSUME IInv' PROVE Seen'
BY IsSeen, PTL

LEMMA Unseen ==
  ASSUME Terminal' = Terminal, Token' = Token, Job' = Job, alive' = alive
  PROVE  UNCHANGED Contract!rtVars
BY DEF Contract!rtVars, Token, Job

(* Nothing the contract sees changes with these variables.                 *)
LEMMA Aside ==
  ASSUME UNCHANGED <<active, asked, events, alive>>
  PROVE  UNCHANGED Contract!rtVars
<1>1. Terminal' = Terminal
  BY DEF Terminal, IsTerminal
<1>2. Token' = Token /\ Job' = Job
  BY DEF Token, Job
<1> QED
  BY <1>1, <1>2, Unseen

LEMMA FinishImplements ==
  ASSUME IInv, IInv', Finish, alive, alive' = alive
  PROVE  Contract!RuntimeNext
<1>1. RuntimeTypeOK /\ RequestInv
  BY Typed DEF IInv
<1>2. /\ active \in Requests /\ ~ Final(events) /\ Final(events')
  BY <1>1, Finished
<1>3. PICK kind \in EventKinds \ {"progress"} :
        (kind = "cancelled" => asked) /\ events'[Len(events')] = [kind |-> kind, id |-> active]
  BY <1>1, Finished
<1>4. active # 0 /\ active' = 0 /\ asked' = FALSE
  BY DEF Finish
<1>5. Terminal = <<>>
  BY <1>2, IsSeen DEF Seen
<1>6. Terminal' = <<[kind |-> kind, id |-> active]>>
  BY <1>2, <1>3, SeenNext DEF Seen
<1>7. Terminal' = Append(Terminal, [kind |-> kind, id |-> active])
  BY <1>5, <1>6
<1>8. Contract!Executing
  BY <1>4, <1>5 DEF Contract!Executing, Contract!Settled
<1>9. Contract!Report(kind)
  BY <1>7 DEF Contract!Report
<1>10. Contract!FreeSlot(TRUE)
  BY <1>4 DEF Contract!FreeSlot
<1>11. kind \in {"completed", "failed", "cancelled"}
  BY Names
<1>12. Contract!Finish
  BY <1>3, <1>8, <1>9, <1>10, <1>11 DEF Contract!Finish
<1> QED
  BY <1>12 DEF Contract!RuntimeNext

LEMMA PollImplements ==
  ASSUME IInv, IInv', Poll, alive, alive' = alive
  PROVE  Contract!RuntimeNext \/ UNCHANGED Contract!rtVars
<1>1. /\ events # <<>> /\ events' = Tail(events) /\ UNCHANGED <<active, asked>>
  BY DEF Poll
<1>2. events \in Seq(Event)
  BY Typed DEF IInv, RuntimeTypeOK, Event
<1>3. owed # {}
  BY <1>1 DEF IInv, RequestInv
<1>4. PICK id \in owed : owed = {id} /\ Story(events, id) /\ active = IF Final(events) THEN 0 ELSE id
  BY <1>3 DEF IInv, RequestInv
<1>5. /\ Head(events).kind # "progress" => Tail(events) = <<>> /\ Final(events)
      /\ Head(events).kind = "progress" => (Final(Tail(events)) <=> Final(events))
      /\ Tail(events) \in Seq(Event)
  BY <1>1, <1>2, <1>4, TailStory
<1>6. Token' = Token /\ Job' = Job
  BY <1>1 DEF Token, Job
<1>7. CASE Head(events).kind # "progress"
  <2>1. Final(events) /\ events' = <<>> /\ ~ Final(events')
    BY <1>1, <1>5, <1>7, EmptyStory
  <2>2. Terminal = <<events[Len(events)]>> /\ Terminal' = <<>>
    BY <2>1, IsSeen, SeenNext DEF Seen
  <2>3. Terminal # <<>> /\ Terminal' = Tail(Terminal)
    BY <2>2
  <2>4. Contract!FreeSlot(FALSE)
    BY <1>1 DEF Contract!FreeSlot
  <2>5. Contract!TakeEvent
    BY <2>3, <2>4 DEF Contract!TakeEvent
  <2> QED
    BY <2>5 DEF Contract!RuntimeNext
<1>8. CASE Head(events).kind = "progress"
  <2>1. Final(events') <=> Final(events)
    BY <1>1, <1>5, <1>8
  <2>2. CASE ~ Final(events)
    <3>1. Terminal = <<>> /\ Terminal' = <<>>
      BY <2>1, <2>2, IsSeen, SeenNext DEF Seen
    <3> QED
      BY <1>6, <3>1, Unseen
  <2>3. CASE Final(events)
    <3>1. /\ Terminal = <<events[Len(events)]>> /\ Terminal' = <<events'[Len(events')]>>
          /\ events' # <<>>
      BY <2>1, <2>3, IsSeen, SeenNext DEF Seen
    <3>2. Len(events') = Len(events) - 1 /\ Len(events') \in Nat /\ Len(events') # 0
      BY <1>1, <1>2, <1>5, <3>1
    <3>3. events'[Len(events')] = events[Len(events)]
      BY <1>1, <1>2, <3>2
    <3> QED
      BY <1>6, <3>1, <3>3, Unseen
  <2> QED
    BY <2>2, <2>3
<1> QED
  BY <1>7, <1>8

LEMMA ObserveImplements ==
  ASSUME IInv, IInv', Observe, alive' = alive
  PROVE  UNCHANGED Contract!rtVars
<1>1. active # 0 /\ UNCHANGED <<active, asked>>
  BY DEF Observe
<1>2. Terminal = <<>> /\ Terminal' = <<>>
  BY <1>1, IsSeen, SeenNext DEF Seen
<1>3. Token' = Token /\ Job' = Job
  BY <1>1 DEF Token, Job
<1> QED
  BY <1>2, <1>3, Unseen

(* The browser runtime keeps the contract of RuntimeContract too: a        *)
(* request is answered once, last, and Cancelled only if its token is      *)
(* cancelled, though progress is dropped and the slot is freed before the  *)
(* answer is polled.                                                       *)
THEOREM ImplementsContract == Spec => KeepsContract
<1>1. Init => Contract!RuntimeInit
  <2> SUFFICES ASSUME Init PROVE Contract!RuntimeInit
    OBVIOUS
  <2>1. events = <<>> /\ active = 0 /\ asked = FALSE /\ alive = TRUE
    BY DEF Init, RuntimeInit
  <2>2. Terminal = <<>>
    BY <2>1 DEF Terminal
  <2> QED
    BY <2>1, <2>2 DEF Contract!RuntimeInit
<1>2. IInv /\ IInv' /\ [Next]_vars => [Contract!RuntimeNext]_(Contract!rtVars)
  <2> SUFFICES ASSUME IInv, IInv', [Next]_vars
               PROVE  Contract!RuntimeNext \/ UNCHANGED Contract!rtVars
    OBVIOUS
  <2>1. CASE \/ UNCHANGED vars \/ \E v \in Variants : SelectModel(v)
             \/ AcceptReference \/ BeginFrame \/ RelayRequest \/ RelayAnswer \/ PrepareDone
             \/ SubmitDone \/ PollDone \/ HandleFeedback \/ EndFrame
    <3>1. UNCHANGED <<active, asked, events, alive>>
      BY <2>1 DEF vars, SelectModel, AcceptReference, BeginFrame, RelayRequest, Relay, PrepareStarts,
                  RelayAnswer, PollPreparation, PrepareDone, SubmitDone, PollDone, HandleFeedback,
                  EndFrame, Goto, runtimeVars, sharedVars, frameVars
    <3> QED
      BY <3>1, Aside
  <2>2. CASE BackendLost
    <3>1. alive' = FALSE
      BY <2>2 DEF BackendLost
    <3>2. Terminal' = <<>>
      BY <3>1 DEF Terminal
    <3>3. Contract!DropRuntime
      BY <3>1, <3>2 DEF Contract!DropRuntime
    <3> QED
      BY <3>3 DEF Contract!RuntimeNext
  <2>3. CASE SubmitRequest
    <3>1. PICK id \in Requests, v \in Variants : Submit(id, v)
      BY <2>3 DEF SubmitRequest
    <3>2. /\ alive /\ alive' = alive /\ owed = {}
          /\ active = 0 /\ active' = id /\ asked' = FALSE /\ events' = events
      BY <2>3, <3>1 DEF SubmitRequest, Submit, Accepts, Free, frameVars
    <3>3. ~ Final(events) /\ ~ Final(events')
      <4>1. events = <<>>
        BY <3>2 DEF IInv, RequestInv
      <4> QED
        BY <3>2, <4>1, EmptyStory
    <3>4. Terminal = <<>> /\ Terminal' = <<>>
      BY <3>3, IsSeen, SeenNext DEF Seen
    <3>5. Contract!Accept(id)
      BY <3>2, <3>4 DEF Contract!Accept
    <3> QED
      BY <3>5 DEF Contract!RuntimeNext
  <2>4. CASE CancelRequest
    <3>1. /\ alive /\ alive' = alive /\ active # 0 /\ active \in Requests
          /\ asked' = TRUE /\ UNCHANGED <<active, events>>
      BY <2>4, Typed DEF CancelRequest, Cancel, frameVars, IInv, RuntimeTypeOK
    <3>2. Terminal' = Terminal
      BY <3>1 DEF Terminal, IsTerminal
    <3>3. Contract!CancelAny({active})
      BY <3>1, <3>2 DEF Contract!CancelAny
    <3> QED
      BY <3>1, <3>3 DEF Contract!RuntimeNext
  <2>5. CASE PollEvent
    <3>1. Poll /\ alive /\ alive' = alive
      BY <2>5 DEF PollEvent
    <3> QED
      BY <3>1, PollImplements
  <2>6. CASE RuntimeTask
    <3>1. alive /\ alive' = alive /\ (Observe \/ Finish \/ SwitchEnds \/ SwitchFails)
      BY <2>6 DEF RuntimeTask, Between, TaskStep, frameVars
    <3>2. CASE SwitchEnds \/ SwitchFails
      <4>1. UNCHANGED <<active, asked, events>>
        BY <3>2 DEF SwitchEnds, SwitchFails, Answer
      <4> QED
        BY <3>1, <4>1, Aside
    <3> QED
      BY <3>1, <3>2, ObserveImplements, FinishImplements
  <2> QED
    BY <2>1, <2>2, <2>3, <2>4, <2>5, <2>6 DEF Next, FrameStep
<1> QED
  BY <1>1, <1>2, SelectionInvariant, PTL DEF Spec, KeepsContract, Contract!RuntimeSpec
=============================================================================
