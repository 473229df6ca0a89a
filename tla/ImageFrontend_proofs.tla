------------------------ MODULE ImageFrontend_proofs ------------------------
(***************************************************************************)
(* Proofs about the frontend for any number of jobs, any queue bounds, any *)
(* retention, and any runner within the contract of ImageFrontend.         *)
(***************************************************************************)
EXTENDS ImageFrontend, ImageJobs_proofs

USE JobsAssumption, FrontendAssumption

LEMMA OthersTyped ==
  ASSUME shown \in Seq(Outputs), NEW id \in JobIds
  PROVE  Others(id) \in Seq(Outputs)
<1>1. CASE ~ \E k \in DOMAIN shown : shown[k].id = id
  BY <1>1 DEF Others
<1>2. CASE \E k \in DOMAIN shown : shown[k].id = id
  <2> DEFINE m == CHOOSE k \in DOMAIN shown : shown[k].id = id
  <2>1. m \in 1 .. Len(shown)
    BY <1>2
  <2> HIDE DEF m
  <2>2. SubSeq(shown, 1, m - 1) \in Seq(Outputs)
    BY <2>1, SubSeqProperties
  <2>3. SubSeq(shown, m + 1, Len(shown)) \in Seq(Outputs)
    BY <2>1, SubSeqProperties
  <2>4. SubSeq(shown, 1, m - 1) \o SubSeq(shown, m + 1, Len(shown)) \in Seq(Outputs)
    BY <2>2, <2>3
  <2> QED
    BY <1>2, <2>4 DEF Others, m
<1> QED
  BY <1>1, <1>2

LEMMA InsertedTyped ==
  ASSUME shown \in Seq(Outputs), NEW o \in Outputs
  PROVE  Inserted(o) \in Seq(Outputs)
<1>1. Others(o.id) \in Seq(Outputs)
  BY OthersTyped DEF Outputs
<1>2. \A s \in Seq(Outputs) : Append(s, o) \in Seq(Outputs) /\ Append(s, o) # <<>>
  BY AppendProperties
<1>3. \A s \in Seq(Outputs) : s # <<>> => Tail(s) \in Seq(Outputs)
  OBVIOUS
<1> QED
  BY <1>1, <1>2, <1>3 DEF Inserted

-----------------------------------------------------------------------------
(* Type correctness                                                        *)

(* What a terminal event does to the runner's book of uses.                *)
LEMMA SettledUse ==
  ASSUME engine \in [JobIds -> [Uses -> UseStates]],
         NEW i \in JobIds, NEW u \in Uses, NEW as \in UseStates, Settle(i, u, as)
  PROVE  /\ engine' \in [JobIds -> [Uses -> UseStates]]
         /\ runnerJobs' = runnerJobs \ {i}
         /\ engine'[i][u] = as
         /\ \A v \in Uses \ {u} : engine'[i][v] = engine[i][v]
         /\ \A j \in JobIds \ {i} : engine'[j] = engine[j]
BY DEF Settle

LEMMA AcceptedUse ==
  ASSUME engine \in [JobIds -> [Uses -> UseStates]], NEW i \in JobIds, RunnerAccepts(i)
  PROVE  /\ engine' \in [JobIds -> [Uses -> UseStates]]
         /\ runnerJobs' = runnerJobs \cup {i}
         /\ \E u \in Uses : /\ engine'[i][u] = "working"
                            /\ \A v \in Uses \ {u} : engine'[i][v] = engine[i][v]
         /\ \A j \in JobIds \ {i} : engine'[j] = engine[j]
<1>1. PICK u \in Uses : engine' = [engine EXCEPT ![i][u] = "working"]
  BY DEF RunnerAccepts
<1>2. engine' \in [JobIds -> [Uses -> UseStates]]
  BY <1>1 DEF UseStates
<1> QED
  BY <1>1, <1>2 DEF RunnerAccepts

(* A runner's report about one use of an id.                               *)
RunnerReport(i, u) ==
  \/ RunnerProgress(i, u)
  \/ \E valid \in BOOLEAN : RunnerCompletes(i, u, valid)
  \/ RunnerFails(i, u)
  \/ RunnerCancelled(i, u)

LEMMA TypeInit == Init => TypeOK
<1> SUFFICES ASSUME Init PROVE TypeOK
  OBVIOUS
<1>1. JobTypeOK
  BY DEF Init, JobInit, JobTypeOK, Phases
<1>2. shown \in Seq(Outputs) /\ stage \in Stages
  BY DEF Init, JobInit, Stages
<1> QED
  BY <1>1, <1>2 DEF Init, TypeOK, UseStates

(* Every state a run of the frontend reaches is well typed, for any number *)
(* of jobs: identifiers stay in range, every record has a phase and every  *)
(* queue holds messages of its kind, though messages come and go in every  *)
(* order the hosts and the runner choose.                                  *)
LEMMA TypeStep == TypeOK /\ [Next]_vars => TypeOK'
<1> SUFFICES ASSUME TypeOK, [Next]_vars PROVE TypeOK'
  OBVIOUS
<1> USE DEF TypeOK, jobVars, inputQueues, dispatchQueues, feedbackQueues, runnerVars, displayVars,
            panelVars
<1>t. ASSUME UNCHANGED <<nextId, phase, inputQueues, dispatchQueues, rejected, feedbackQueues>>
      PROVE  JobTypeOK'
  BY <1>t DEF JobTypeOK
<1>1. CASE HostStep
  BY <1>1, HostTyped DEF HostStep
<1>2. CASE PanelStep
  <2>1. CASE PressRun
    <3>1. JobTypeOK'
      BY <2>1, HostTyped DEF PressRun
    <3>2. nextId' \in 0 .. MaxJobs
      BY <3>1 DEF JobTypeOK
    <3> QED
      BY <2>1, <3>1, <3>2 DEF PressRun, Proceed, Stages
  <2>2. CASE PressCancel
    BY <2>2, HostTyped DEF PressCancel, Proceed, Stages
  <2>5. CASE PressRunUnformed
    BY <2>5 DEF PressRunUnformed, ReserveId, Proceed, Stages, JobTypeOK
  <2>3. CASE NoPress
    BY <1>t, <2>3 DEF NoPress, Proceed, Stages
  <2>4. CASE CaptureRejections
    BY <2>4 DEF CaptureRejections, Proceed, Stages, JobTypeOK, JobIds
  <2> QED
    BY <1>2, <2>1, <2>2, <2>3, <2>4, <2>5 DEF PanelStep
<1>3. CASE BeginFrame
  BY <1>t, <1>3 DEF BeginFrame, Proceed, Stages
<1>4. CASE TableStep
  BY <1>4, InputTyped, FeedbackTyped DEF TableStep, Stages
<1>5. CASE RunnerSubmit
  <2>1. Head(dispatched) \in Submissions /\ Tail(dispatched) \in Seq(Submissions)
    BY <1>5 DEF RunnerSubmit, JobTypeOK
  <2>2. Head(dispatched).id \in JobIds
    BY <2>1 DEF Submissions
  <2>3. RunnerAccepts(Head(dispatched).id) =>
           runnerJobs' \in SUBSET JobIds /\ engine' \in [JobIds -> [Uses -> UseStates]]
    BY <2>2, AcceptedUse
  <2> QED
    BY <1>5, <2>1, <2>2, <2>3 DEF RunnerSubmit, JobTypeOK
<1>6. CASE RunnerSubmitDone
  BY <1>t, <1>6 DEF RunnerSubmitDone, Proceed, Stages
<1>7. CASE RunnerCancel
  BY <1>7 DEF RunnerCancel, Proceed, Stages, JobTypeOK, UseStates
<1>8. CASE RunnerEvent
  <2> PICK i \in JobIds, u \in Uses : RunnerReport(i, u)
    BY <1>8 DEF RunnerEvent, RunnerReport
  <2>1. UNCHANGED <<stage, nextId, phase, inputQueues, dispatchQueues, rejected, displayVars, panelVars>>
    BY <1>8 DEF RunnerEvent
  <2>2. ASSUME NEW as \in UseStates, Settle(i, u, as)
        PROVE  runnerJobs' \in SUBSET JobIds /\ engine' \in [JobIds -> [Uses -> UseStates]]
    BY <2>2, SettledUse
  <2>3. CASE \E valid \in BOOLEAN : RunnerCompletes(i, u, valid)
    BY <2>1, <2>2, <2>3 DEF RunnerCompletes, JobTypeOK, Outputs, UseStates
  <2>4. CASE RunnerProgress(i, u)
    BY <2>1, <2>4 DEF RunnerProgress, JobTypeOK
  <2>5. CASE RunnerFails(i, u)
    BY <2>1, <2>2, <2>5 DEF RunnerFails, JobTypeOK, UseStates
  <2>6. CASE RunnerCancelled(i, u)
    BY <2>1, <2>2, <2>6 DEF RunnerCancelled, JobTypeOK, UseStates
  <2> QED
    BY <2>3, <2>4, <2>5, <2>6 DEF RunnerReport
<1>9. CASE PollDone
  BY <1>t, <1>9 DEF PollDone, Proceed, Stages
<1>10. CASE ShowOutput
  <2>1. Head(completed) \in Outputs /\ Tail(completed) \in Seq(Outputs)
    BY <1>10 DEF ShowOutput, JobTypeOK
  <2>2. Inserted(Head(completed)) \in Seq(Outputs)
    BY <2>1, InsertedTyped
  <2>3. Head(completed).id \in 0 .. MaxJobs
    BY <2>1 DEF Outputs, JobIds
  <2>4. JobTypeOK'
    BY <1>10, <2>1 DEF ShowOutput, JobTypeOK
  <2>5. /\ shown' \in Seq(Outputs) /\ latestJob' \in 0 .. MaxJobs /\ latestOutput' \in 0 .. MaxJobs
        /\ undisplayed' \in SUBSET JobIds
    BY <1>10, <2>1, <2>2, <2>3 DEF ShowOutput, Outputs
  <2> QED
    BY <1>10, <2>4, <2>5 DEF ShowOutput
<1>11. CASE EndFrame
  BY <1>t, <1>11 DEF EndFrame, Proceed, Stages
<1>12. CASE UNCHANGED vars
  BY <1>t, <1>12 DEF vars
<1> QED
  BY <1>1, <1>2, <1>3, <1>4, <1>5, <1>6, <1>7, <1>8, <1>9, <1>10, <1>11, <1>12 DEF Next

(* The panel, the table and the runner stay well typed.                    *)
THEOREM TypeCorrect == Spec => []TypeOK
BY TypeInit, TypeStep, PTL DEF Spec

-----------------------------------------------------------------------------
(* One use of an id at a time                                              *)

(* The runner has one use of an id at a time, or no host sends an id again.*)
UsesApart == MaxUses = 1 \/ ~ (HostSubmits /\ HostReplays)

Unused(i) == \A u \in Uses : engine[i][u] = "idle"

OneUse ==
  \A i \in JobIds, u, v \in Uses : engine[i][u] # "idle" /\ engine[i][v] # "idle" => u = v

(* While ids are not sent again, one that has not reached the runner has   *)
(* one message, and the runner has never used it.                          *)
UnusedInv ==
  /\ \A i \in JobIds : i > nextId => Unused(i)
  /\ \A i \in Ids(submitted) \cup Ids(dispatched) : i <= nextId /\ Unused(i)
  /\ OncePerJob(submitted) /\ OncePerJob(dispatched)
  /\ Ids(submitted) \cap Ids(dispatched) = {}

UsesInv == OneUse /\ (~ (HostSubmits /\ HostReplays) => UnusedInv)

LEMMA SubmissionIds ==
  ASSUME NEW s \in Seq(Submissions)
  PROVE  Ids(s) \subseteq JobIds
<1>1. \A k \in DOMAIN s : s[k] \in Submissions
  OBVIOUS
<1> QED
  BY <1>1 DEF Ids, Submissions

(* Only accepting a job makes the runner use an id.                        *)
LEMMA IdleStays ==
  ASSUME TypeOK, [Next]_vars, ~ RunnerSubmit
  PROVE  \A i \in JobIds, u \in Uses : engine[i][u] = "idle" => engine'[i][u] = "idle"
<1> USE DEF runnerVars
<1>t. engine \in [JobIds -> [Uses -> UseStates]]
  BY DEF TypeOK
<1>1. CASE RunnerCancel
  BY <1>1 DEF RunnerCancel
<1>2. CASE RunnerEvent
  <2> PICK i \in JobIds, u \in Uses : RunnerReport(i, u)
    BY <1>2 DEF RunnerEvent, RunnerReport
  <2>1. UNCHANGED engine \/ \E as \in UseStates : engine[i][u] # "idle" /\ Settle(i, u, as)
    BY DEF RunnerReport, RunnerProgress, RunnerCompletes, RunnerFails, RunnerCancelled, Held, UseStates
  <2>2. ASSUME NEW as \in UseStates, engine[i][u] # "idle", Settle(i, u, as)
        PROVE  \A j \in JobIds, v \in Uses : engine[j][v] = "idle" => engine'[j][v] = "idle"
    BY <1>t, <2>2, SettledUse
  <2> QED
    BY <2>1, <2>2
<1>3. CASE ~ RunnerCancel /\ ~ RunnerEvent
  <2>1. UNCHANGED engine
    BY <1>3 DEF Next, vars, HostStep, PanelStep, PressRun, PressRunUnformed, PressCancel, NoPress,
       CaptureRejections, BeginFrame, TableStep, RunnerSubmitDone, PollDone, ShowOutput, EndFrame
  <2> QED
    BY <2>1
<1> QED
  BY <1>1, <1>2, <1>3

(* A step that moves no submission and makes the runner use nothing.       *)
LEMMA UnusedCalm ==
  ASSUME TypeOK, UnusedInv, nextId' \in Nat, nextId' >= nextId, UNCHANGED <<submitted, dispatched>>,
         \A i \in JobIds, u \in Uses : engine[i][u] = "idle" => engine'[i][u] = "idle"
  PROVE  UnusedInv'
<1>1. /\ Ids(submitted) \subseteq JobIds /\ Ids(dispatched) \subseteq JobIds
      /\ nextId \in Nat /\ JobIds \subseteq Nat
  BY SubmissionIds DEF TypeOK, JobTypeOK, JobIds
<1>2. \A i \in JobIds : Unused(i) => Unused(i)'
  BY DEF Unused
<1>3. \A i \in JobIds : i > nextId' => i > nextId
  BY <1>1
<1>4. \A i \in JobIds : i <= nextId => i <= nextId'
  BY <1>1
<1>5. (\A i \in JobIds : i > nextId => Unused(i))'
  BY <1>2, <1>3 DEF UnusedInv
<1>6. (\A i \in Ids(submitted) \cup Ids(dispatched) : i <= nextId /\ Unused(i))'
  BY <1>1, <1>2, <1>4 DEF UnusedInv
<1> QED
  BY <1>5, <1>6 DEF UnusedInv

(* A submission under a new id.                                            *)
LEMMA UnusedSubmit ==
  ASSUME TypeOK, UnusedInv, NEW r \in Requests, Submit(r), UNCHANGED engine
  PROVE  UnusedInv'
<1>0. PICK n \in JobIds : n = nextId'
  BY DEF Submit, ReserveId, TypeOK, JobTypeOK, JobIds
<1> DEFINE m == [id |-> n, request |-> r]
<1>1. /\ submitted \in Seq(Submissions) /\ dispatched \in Seq(Submissions) /\ nextId \in Nat
      /\ n = nextId + 1 /\ nextId' = n /\ UNCHANGED dispatched
      /\ submitted' = Append(submitted, m)
  BY <1>0 DEF Submit, ReserveId, dispatchQueues, TypeOK, JobTypeOK, JobIds
<1>2. m \in Submissions /\ m.id = n
  BY <1>1 DEF Submissions
<1>3. Ids(submitted) \subseteq JobIds /\ Ids(dispatched) \subseteq JobIds /\ JobIds \subseteq Nat
  BY <1>1, SubmissionIds DEF JobIds
<1>4. n \notin Ids(submitted) \cup Ids(dispatched)
  BY <1>1, <1>3 DEF UnusedInv
<1> HIDE DEF m
<1>5. Ids(submitted') = Ids(submitted) \cup {n}
  BY <1>1, <1>2, IdsAppend
<1>6. OncePerJob(submitted')
  BY <1>1, <1>2, <1>4, OnceAppend DEF UnusedInv
<1>7. \A i : Unused(i) => Unused(i)'
  BY DEF Unused
<1>8. Unused(n)'
  BY <1>1, <1>7 DEF UnusedInv
<1>9. (\A i \in JobIds : i > nextId => Unused(i))'
  BY <1>1, <1>3, <1>7 DEF UnusedInv
<1>10. (\A i \in Ids(submitted) \cup Ids(dispatched) : i <= nextId /\ Unused(i))'
  <2>1. Ids(dispatched)' = Ids(dispatched) /\ Ids(submitted)' = Ids(submitted) \cup {n}
    BY <1>1, <1>5
  <2>2. \A i \in Ids(submitted) \cup Ids(dispatched) : i <= n /\ Unused(i)'
    <3>1. \A i \in Ids(submitted) \cup Ids(dispatched) : i \in Nat /\ i <= nextId /\ Unused(i)
      BY <1>3 DEF UnusedInv
    <3>2. \A i \in Nat : i <= nextId => i <= n
      BY <1>1
    <3> QED
      BY <1>7, <3>1, <3>2
  <2>3. n <= n
    BY <1>1
  <2> QED
    BY <1>1, <1>8, <2>1, <2>2, <2>3
<1>11. OncePerJob(dispatched')
  BY <1>1 DEF UnusedInv
<1>12. Ids(submitted') \cap Ids(dispatched') = {}
  BY <1>1, <1>4, <1>5 DEF UnusedInv
<1> QED
  BY <1>6, <1>9, <1>10, <1>11, <1>12 DEF UnusedInv

(* A submission read: refused, or on its way to the runner.                *)
LEMMA UnusedRead ==
  ASSUME TypeOK, UnusedInv, NextSubmission, UNCHANGED <<nextId, engine>>,
         dispatched' \in {dispatched, Append(dispatched, Head(submitted))}
  PROVE  UnusedInv'
<1> DEFINE m == Head(submitted)
<1>1. /\ submitted \in Seq(Submissions) /\ dispatched \in Seq(Submissions)
      /\ submitted # <<>> /\ submitted' = Tail(submitted)
  BY DEF NextSubmission, TypeOK, JobTypeOK
<1>2. m \in Submissions /\ Ids(submitted) = Ids(submitted') \cup {m.id}
  BY <1>1, HeadIsJob, IdsTail
<1>3. OncePerJob(submitted') /\ m.id \notin Ids(submitted')
  BY <1>1, OnceTail DEF UnusedInv
<1>4. m.id \notin Ids(dispatched)
  BY <1>2 DEF UnusedInv
<1> HIDE DEF m
<1>5. \A i : Unused(i)' <=> Unused(i)
  BY DEF Unused
<1>6. CASE dispatched' = dispatched
  BY <1>2, <1>3, <1>5, <1>6 DEF UnusedInv
<1>7. CASE dispatched' = Append(dispatched, m)
  <2>1. Ids(dispatched') = Ids(dispatched) \cup {m.id}
    BY <1>1, <1>2, <1>7, IdsAppend
  <2>2. OncePerJob(dispatched')
    BY <1>1, <1>2, <1>4, <1>7, OnceAppend DEF UnusedInv
  <2> QED
    BY <1>2, <1>3, <1>5, <2>1, <2>2 DEF UnusedInv
<1> QED
  BY <1>6, <1>7 DEF m

(* A job handed over: its id is in no other message.                       *)
LEMMA UnusedHandover ==
  ASSUME TypeOK, UnusedInv, RunnerSubmit
  PROVE  UnusedInv'
<1> DEFINE i == Head(dispatched).id
<1>1. /\ dispatched \in Seq(Submissions) /\ dispatched # <<>> /\ dispatched' = Tail(dispatched)
      /\ UNCHANGED <<nextId, submitted>> /\ nextId \in Nat
  BY DEF RunnerSubmit, inputQueues, TypeOK, JobTypeOK
<1>2. Ids(dispatched) = Ids(dispatched') \cup {i} /\ i \in JobIds
  BY <1>1, HeadIsJob, IdsTail
<1>3. OncePerJob(dispatched') /\ i \notin Ids(dispatched')
  BY <1>1, OnceTail DEF UnusedInv
<1>4. i \notin Ids(submitted) /\ i <= nextId
  BY <1>2 DEF UnusedInv
<1>5. \A j \in JobIds \ {i} : engine'[j] = engine[j]
  <2>1. RunnerAccepts(i) \/ UNCHANGED engine
    BY DEF RunnerSubmit, runnerVars
  <2> QED
    BY <1>2, <2>1, AcceptedUse DEF TypeOK
<1>6. Ids(submitted) \subseteq JobIds /\ Ids(dispatched) \subseteq JobIds
  BY SubmissionIds DEF TypeOK, JobTypeOK
<1> HIDE DEF i
<1>7. \A j \in JobIds \ {i} : Unused(j) => Unused(j)'
  BY <1>5 DEF Unused
<1>8. \A j \in JobIds : j > nextId => j # i
  BY <1>1, <1>2, <1>4 DEF JobIds
<1>9. (\A j \in JobIds : j > nextId => Unused(j))'
  BY <1>1, <1>7, <1>8 DEF UnusedInv
<1>10. (\A j \in Ids(submitted) \cup Ids(dispatched) : j <= nextId /\ Unused(j))'
  BY <1>1, <1>2, <1>3, <1>4, <1>6, <1>7 DEF UnusedInv
<1> QED
  BY <1>1, <1>2, <1>3, <1>9, <1>10 DEF UnusedInv

LEMMA UnusedStep ==
  ASSUME TypeOK, TypeOK', UnusedInv, [Next]_vars, ~ (HostSubmits /\ HostReplays)
  PROVE  UnusedInv'
<1> USE DEF inputQueues, dispatchQueues, runnerVars
<1>1. CASE RunnerSubmit
  BY <1>1, UnusedHandover
<1>2. CASE \E r \in Requests : Submit(r) /\ UNCHANGED engine
  BY <1>2, UnusedSubmit
<1>3. CASE (RejectDuplicate \/ RejectSubmission(TRUE) \/ AcceptSubmission(TRUE)) /\ UNCHANGED engine
  <2>1. /\ NextSubmission /\ UNCHANGED nextId
        /\ dispatched' \in {dispatched, Append(dispatched, Head(submitted))}
    BY <1>3 DEF RejectDuplicate, RejectSubmission, AcceptSubmission
  <2> QED
    BY <1>3, <2>1, UnusedRead
<1>4. ASSUME nextId' >= nextId, UNCHANGED <<submitted, dispatched>>, ~ RunnerSubmit
      PROVE  UnusedInv'
  <2>1. nextId' \in Nat
    BY DEF TypeOK, JobTypeOK
  <2> QED
    BY <1>4, <2>1, IdleStays, UnusedCalm
<1>5. nextId \in Nat
  BY DEF TypeOK, JobTypeOK
<1>6. CASE HostStep \/ PanelStep
  <2>1. \/ \E r \in Requests : Submit(r) /\ UNCHANGED engine
        \/ UNCHANGED <<submitted, dispatched>> /\ nextId' \in {nextId, nextId + 1}
    BY <1>6 DEF HostStep, PanelStep, PressRun, PressRunUnformed, PressCancel, NoPress, CaptureRejections,
       ReserveId, Cancel
  <2>2. ~ RunnerSubmit \/ UNCHANGED <<submitted, nextId>>
    BY DEF RunnerSubmit
  <2> QED
    BY <1>1, <1>2, <1>4, <1>5, <2>1, <2>2
<1>7. CASE TableStep
  <2>1. \/ (RejectDuplicate \/ RejectSubmission(TRUE) \/ AcceptSubmission(TRUE)) /\ UNCHANGED engine
        \/ UNCHANGED <<submitted, dispatched, nextId>>
    BY <1>7 DEF TableStep, AcceptInput, ApplyFeedback, PruneHistory, SubmissionsDone, AcceptCancellations,
       ApplyProgress, ApplyCompletions, ApplyFailures
  <2>2. CASE (RejectDuplicate \/ RejectSubmission(TRUE) \/ AcceptSubmission(TRUE)) /\ UNCHANGED engine
    BY <1>3, <2>2
  <2>3. CASE UNCHANGED <<submitted, dispatched, nextId>>
    BY <1>1, <1>4, <1>5, <2>3
  <2> QED
    BY <2>1, <2>2, <2>3
<1>8. CASE \/ BeginFrame \/ RunnerSubmitDone \/ RunnerCancel \/ RunnerEvent \/ PollDone
           \/ ShowOutput \/ EndFrame \/ UNCHANGED vars
  <2>1. UNCHANGED <<submitted, dispatched, nextId>>
    BY <1>8 DEF BeginFrame, RunnerSubmitDone, RunnerCancel, RunnerEvent, PollDone, ShowOutput, EndFrame,
       vars, jobVars
  <2> QED
    BY <1>1, <1>4, <1>5, <2>1
<1> QED
  BY <1>1, <1>6, <1>7, <1>8 DEF Next

LEMMA UsesInit == Init => UsesInv
<1> SUFFICES ASSUME Init PROVE UsesInv
  OBVIOUS
<1>1. Ids(submitted) = {} /\ Ids(dispatched) = {} /\ \A i \in JobIds : Unused(i)
  BY IdsEmpty DEF Init, JobInit, Unused
<1>2. OncePerJob(submitted) /\ OncePerJob(dispatched)
  BY DEF Init, JobInit, OncePerJob
<1> QED
  BY <1>1, <1>2 DEF UsesInv, UnusedInv, OneUse, Unused

LEMMA UsesStep ==
  ASSUME TypeOK, TypeOK', UsesInv, [Next]_vars, UsesApart
  PROVE  UsesInv'
<1>1. ~ (HostSubmits /\ HostReplays) => UnusedInv'
  BY UnusedStep DEF UsesInv
<1>2. CASE MaxUses = 1
  <2>1. \A u, v \in Uses : u = v
    BY <1>2 DEF Uses
  <2> QED
    BY <1>1, <2>1 DEF UsesInv, OneUse
<1>3. CASE ~ RunnerSubmit
  <2>1. OneUse'
    BY <1>3, IdleStays DEF UsesInv, OneUse
  <2> QED
    BY <1>1, <2>1 DEF UsesInv
<1>4. CASE RunnerSubmit /\ MaxUses # 1
  <2> DEFINE i == Head(dispatched).id
  <2>1. dispatched \in Seq(Submissions) /\ dispatched # <<>>
    BY <1>4 DEF RunnerSubmit, TypeOK, JobTypeOK
  <2>2. i \in JobIds /\ i \in Ids(dispatched)
    BY <2>1, HeadIsJob, IdsTail
  <2>3. \A v \in Uses : engine[i][v] = "idle"
    BY <1>4, <2>2 DEF UsesApart, UsesInv, UnusedInv, Unused
  <2>4. RunnerAccepts(i) \/ UNCHANGED engine
    BY <1>4 DEF RunnerSubmit, runnerVars
  <2> HIDE DEF i
  <2>5. CASE RunnerAccepts(i)
    <3>1. PICK u \in Uses : \A v \in Uses \ {u} : engine'[i][v] = engine[i][v]
      BY <2>2, <2>5, AcceptedUse DEF TypeOK
    <3>2. \A j \in JobIds \ {i} : engine'[j] = engine[j]
      BY <2>2, <2>5, AcceptedUse DEF TypeOK
    <3>3. OneUse'
      BY <2>3, <3>1, <3>2 DEF UsesInv, OneUse
    <3> QED
      BY <1>1, <3>3 DEF UsesInv
  <2>6. CASE UNCHANGED engine
    BY <1>1, <2>6 DEF UsesInv, OneUse
  <2> QED
    BY <2>4, <2>5, <2>6
<1> QED
  BY <1>2, <1>3, <1>4

-----------------------------------------------------------------------------
(* Nothing is orphaned and nothing runs away                               *)

(* A step that moves no job between table, queues and runner.              *)
LEMMA Calm ==
  ASSUME Inv, QueuesDrained', LiveJobs' = LiveJobs,
         stage \in Reporting => stage' \in Reporting \/ completed = <<>>,
         UNCHANGED <<runnerVars, dispatched, routed, failed, completed>>
  PROVE  Inv'
<1> USE DEF runnerVars, Inv, AtWork
<1>1. LiveHeld'
  BY IdsEmpty DEF LiveHeld, Working
<1>2. WorkWanted'
  BY DEF WorkWanted
<1>3. DispatchSound'
  BY DEF DispatchSound
<1> QED
  BY <1>1, <1>2, <1>3

LEMMA InvInit == Init => Inv
<1> SUFFICES ASSUME Init PROVE Inv
  OBVIOUS
<1>1. LiveJobs = {}
  BY DEF Init, JobInit, LiveJobs, Live
<1>2. Ids(dispatched) = {}
  BY IdsEmpty DEF Init, JobInit
<1> QED
  BY <1>1, <1>2 DEF Init, JobInit, Inv, QueuesDrained, LiveHeld, WorkWanted, DispatchSound, OncePerJob,
                   AtWork

(* Steps of the hosts and of the panel.                                    *)
LEMMA InvHosts == TypeOK /\ Inv /\ (HostStep \/ PanelStep) => Inv'
<1> SUFFICES ASSUME TypeOK, Inv, HostStep \/ PanelStep PROVE Inv'
  OBVIOUS
<1> USE DEF inputQueues, dispatchQueues, feedbackQueues, runnerVars, panelVars
<1>1. UNCHANGED <<runnerVars, phase, dispatched, routed, failed, completed>>
  BY DEF HostStep, PanelStep, PressRun, PressRunUnformed, PressCancel, NoPress, CaptureRejections,
         Submit, Resubmit, Cancel
<1>2. \/ stage' = stage
      \/ stage \in {"panel", "capture"} /\ stage' \in {"capture", "prune"}
  BY DEF HostStep, PanelStep, PressRun, PressRunUnformed, PressCancel, NoPress, CaptureRejections,
         Proceed
<1>3. LiveJobs' = LiveJobs
  BY <1>1 DEF LiveJobs
<1>4. QueuesDrained' /\ (stage \in Reporting => stage' \in Reporting)
  BY <1>1, <1>2 DEF Inv, QueuesDrained, Reporting
<1> QED
  BY <1>1, <1>3, <1>4, Calm

(* Input: pruning, submissions and cancellations.                          *)
LEMMA InvInput == TypeOK /\ Inv /\ AcceptInput(TRUE) /\ UNCHANGED runnerVars => Inv'
<1> SUFFICES ASSUME TypeOK, Inv, AcceptInput(TRUE), UNCHANGED runnerVars PROVE Inv'
  OBVIOUS
<1> USE DEF inputQueues, dispatchQueues, feedbackQueues, runnerVars, Proceed
<1>t. phase \in [JobIds -> Phases] /\ dispatched \in Seq(Submissions)
  BY DEF TypeOK, JobTypeOK
<1>w. runnerJobs' = runnerJobs /\ \A i : AtWork(i)' = AtWork(i)
  BY DEF AtWork
<1>h. ASSUME NextSubmission
      PROVE  Head(submitted) \in Submissions /\ Head(submitted).id \in JobIds
  <2>1. Head(submitted) \in Submissions
    BY <1>h DEF TypeOK, JobTypeOK, NextSubmission
  <2> QED
    BY <2>1 DEF Submissions
<1>1. CASE PruneHistory
  <2>1. LiveJobs' = LiveJobs
    BY <1>1, <1>t, PrunedLive DEF PruneHistory
  <2>2. QueuesDrained' /\ stage \notin Reporting
    BY <1>1 DEF PruneHistory, Inv, QueuesDrained, Reporting
  <2> QED
    BY <1>1, <2>1, <2>2, Calm DEF PruneHistory
<1>2. CASE RejectDuplicate
  <2>1. stage = "submissions" /\ UNCHANGED <<stage, phase, dispatched, routed, failed, completed>>
    BY <1>2 DEF RejectDuplicate, NextSubmission
  <2>2. QueuesDrained' /\ LiveJobs' = LiveJobs /\ stage \notin Reporting
    BY <2>1 DEF Inv, QueuesDrained, Reporting, LiveJobs
  <2> QED
    BY <2>1, <2>2, Calm
<1>3. CASE RejectSubmission(TRUE)
  <2>1. LiveJobs' = LiveJobs
    <3>1. NextSubmission /\ phase[Head(submitted).id] = "none" /\ phase' = Opened(Head(submitted).id, "failed")
      BY <1>3 DEF RejectSubmission
    <3>2. "failed" \in Phases /\ "failed" \notin Live
      BY DEF Phases, Live, Terminal
    <3>3. LiveJobs' = LiveJobs \cup (IF "failed" \in Live THEN {Head(submitted).id} ELSE {})
      BY <1>t, <1>h, <3>1, <3>2, OpenedLive
    <3> QED
      BY <3>2, <3>3
  <2>2. stage = "submissions" /\ UNCHANGED <<stage, dispatched, routed, failed, completed>>
    BY <1>3 DEF RejectSubmission, NextSubmission
  <2>3. QueuesDrained' /\ stage \notin Reporting
    BY <2>2 DEF Inv, QueuesDrained, Reporting
  <2> QED
    BY <2>1, <2>2, <2>3, Calm
<1>4. CASE AcceptSubmission(TRUE)
  <2> DEFINE m == Head(submitted)
  <2>1. m \in Submissions /\ m.id \in JobIds /\ phase[m.id] = "none" /\ stage = "submissions"
    BY <1>4, <1>h DEF AcceptSubmission, NextSubmission
  <2>2. LiveJobs' = LiveJobs \cup {m.id} /\ m.id \notin LiveJobs
    BY <1>4, <1>t, <2>1, OpenedLive DEF AcceptSubmission, Phases, Live, LiveJobs
  <2>3. dispatched' = Append(dispatched, m) /\ Ids(dispatched') = Ids(dispatched) \cup {m.id}
    BY <1>4, <1>t, <2>1, IdsAppend DEF AcceptSubmission
  <2>4. UNCHANGED <<stage, routed, failed, completed>>
    BY <1>4 DEF AcceptSubmission
  <2>5. routed = {} /\ failed = {} /\ completed = <<>> /\ Ids(completed) = {}
    BY <2>1, IdsEmpty DEF Inv, QueuesDrained, Reporting
  <2>6. m.id \notin Ids(dispatched) /\ ~ AtWork(m.id)
    BY <2>1, <2>2, <2>5 DEF Inv, DispatchSound, WorkWanted
  <2> HIDE DEF m
  <2>7. OncePerJob(dispatched')
    BY <1>t, <2>1, <2>3, <2>6, OnceAppend DEF Inv, DispatchSound
  <2>8. QueuesDrained'
    BY <2>1, <2>4 DEF Inv, QueuesDrained
  <2>9. LiveHeld'
    BY <1>w, <2>2, <2>3, <2>4 DEF Inv, LiveHeld, Working
  <2>10. WorkWanted'
    BY <1>w, <2>2, <2>3, <2>4, <2>5, <2>6 DEF Inv, WorkWanted
  <2>11. DispatchSound'
    BY <2>2, <2>3, <2>4, <2>5, <2>7 DEF Inv, DispatchSound
  <2> QED
    BY <2>8, <2>9, <2>10, <2>11 DEF Inv
<1>5. CASE SubmissionsDone
  BY <1>5, Calm DEF SubmissionsDone, Inv, QueuesDrained, Reporting, LiveJobs
<1>6. CASE AcceptCancellations
  <2>1. LiveJobs' = LiveJobs \ routed' /\ routed' \subseteq LiveJobs
    BY <1>6, <1>t DEF AcceptCancellations, LiveJobs, Live
  <2>2. routed = {} /\ stage = "cancellations" /\ stage' = "dispatch"
    BY <1>6 DEF AcceptCancellations, Inv, QueuesDrained
  <2>3. UNCHANGED <<dispatched, failed, completed>>
    BY <1>6 DEF AcceptCancellations
  <2>4. QueuesDrained'
    BY <2>2, <2>3 DEF Inv, QueuesDrained, Reporting
  <2>5. LiveHeld'
    BY <1>w, <2>1, <2>2, <2>3 DEF Inv, LiveHeld, Working, Reporting
  <2>6. WorkWanted'
    BY <1>w, <2>1, <2>2, <2>3 DEF Inv, WorkWanted
  <2>7. DispatchSound'
    BY <2>1, <2>2, <2>3 DEF Inv, DispatchSound
  <2> QED
    BY <2>4, <2>5, <2>6, <2>7 DEF Inv
<1> QED
  BY <1>1, <1>2, <1>3, <1>4, <1>5, <1>6 DEF AcceptInput

(* Feedback: a message that settles a record is consumed as it does.       *)
LEMMA InvFeedback == TypeOK /\ Inv /\ ApplyFeedback /\ UNCHANGED runnerVars => Inv'
<1> SUFFICES ASSUME TypeOK, Inv, ApplyFeedback, UNCHANGED runnerVars PROVE Inv'
  OBVIOUS
<1> USE DEF inputQueues, dispatchQueues, feedbackQueues, runnerVars, Proceed
<1>t. phase \in [JobIds -> Phases]
  BY DEF TypeOK, JobTypeOK
<1>w. runnerJobs' = runnerJobs /\ \A i : AtWork(i)' = AtWork(i)
  BY DEF AtWork
<1>1. CASE ApplyProgress
  <2>1. LiveJobs' = LiveJobs
    BY <1>1, <1>t DEF ApplyProgress, LiveJobs, Live
  <2> QED
    BY <1>1, <2>1, Calm DEF ApplyProgress, Inv, QueuesDrained, Reporting
<1>2. CASE ApplyCompletions
  <2>1. \A i \in JobIds : CompletionsFor(i) # {} <=> i \in Ids(completed)
    BY DEF CompletionsFor, Ids
  <2>2. LiveJobs' = LiveJobs \ Ids(completed)
    <3>1. \A i \in JobIds : Verdict(i) \notin Live
      BY DEF Verdict, Live
    <3> QED
      BY <1>2, <1>t, <2>1, <3>1 DEF ApplyCompletions, LiveJobs
  <2>3. stage = "completions" /\ stage' = "failures" /\ dispatched = <<>> /\ routed = {}
    BY <1>2 DEF ApplyCompletions, Inv, QueuesDrained
  <2>4. UNCHANGED <<dispatched, routed, failed, completed>>
    BY <1>2 DEF ApplyCompletions
  <2>5. QueuesDrained'
    BY <2>3, <2>4 DEF QueuesDrained, Reporting
  <2>6. LiveHeld'
    BY <1>w, <2>2, <2>4 DEF Inv, LiveHeld, Working
  <2>7. WorkWanted'
    BY <1>w, <2>2, <2>4 DEF Inv, WorkWanted
  <2>8. DispatchSound'
    BY <2>2, <2>3, <2>4, IdsEmpty DEF Inv, DispatchSound
  <2> QED
    BY <2>5, <2>6, <2>7, <2>8 DEF Inv
<1>3. CASE ApplyFailures
  <2>1. LiveJobs' = LiveJobs \ failed
    BY <1>3, <1>t DEF ApplyFailures, LiveJobs, Live
  <2>2. stage = "failures" /\ stage' = "display" /\ dispatched = <<>> /\ routed = {}
    BY <1>3 DEF ApplyFailures, Inv, QueuesDrained, Reporting
  <2>3. UNCHANGED <<dispatched, routed, completed>> /\ failed' = {}
    BY <1>3 DEF ApplyFailures
  <2>4. QueuesDrained'
    BY <2>2, <2>3 DEF QueuesDrained, Reporting
  <2>5. LiveHeld'
    BY <1>w, <2>1, <2>2, <2>3 DEF Inv, LiveHeld, Working, Reporting
  <2>6. WorkWanted'
    BY <1>w, <2>1, <2>3 DEF Inv, WorkWanted
  <2>7. DispatchSound'
    BY <2>1, <2>2, <2>3, IdsEmpty DEF Inv, DispatchSound
  <2> QED
    BY <2>4, <2>5, <2>6, <2>7 DEF Inv
<1> QED
  BY <1>1, <1>2, <1>3 DEF ApplyFeedback

(* Dispatch: handing over, cancelling, and whatever the runner reports.    *)
LEMMA InvRunnerSubmit == TypeOK /\ Inv /\ RunnerSubmit => Inv'
<1> SUFFICES ASSUME TypeOK, Inv, RunnerSubmit PROVE Inv'
  OBVIOUS
<1> DEFINE m == Head(dispatched)
<1>t. dispatched \in Seq(Submissions) /\ engine \in [JobIds -> [Uses -> UseStates]]
  BY DEF TypeOK, JobTypeOK
<1>1. /\ stage = "dispatch" /\ stage' = "dispatch" /\ dispatched # <<>>
      /\ dispatched' = Tail(dispatched)
      /\ UNCHANGED <<phase, routed, completed>>
  BY DEF RunnerSubmit
<1>2. m \in Submissions /\ m.id \in JobIds
  <2>1. m \in Submissions
    BY <1>t, <1>1
  <2> QED
    BY <2>1 DEF Submissions
<1>3. Ids(dispatched) = Ids(dispatched') \cup {m.id}
  BY <1>t, <1>1, IdsTail
<1>4. OncePerJob(dispatched') /\ m.id \notin Ids(dispatched')
  BY <1>t, <1>1, OnceTail DEF Inv, DispatchSound
<1> HIDE DEF m
<1>5. LiveJobs' = LiveJobs /\ completed = <<>> /\ Ids(completed) = {}
  BY <1>1, IdsEmpty DEF LiveJobs, Inv, QueuesDrained, Reporting
<1>6. QueuesDrained'
  BY <1>1, <1>5 DEF Inv, QueuesDrained, Reporting
<1>7. /\ m.id \in LiveJobs \cup routed /\ m.id \notin failed
      /\ ~ AtWork(m.id)
  BY <1>2, <1>3 DEF Inv, DispatchSound, WorkWanted
<1>8. CASE RunnerAccepts(m.id) /\ UNCHANGED failed
  <2> PICK i \in JobIds : i = m.id
    BY <1>2
  <2>1. /\ runnerJobs' = runnerJobs \cup {i}
        /\ AtWork(i)'
        /\ \A j \in JobIds \ {i} : AtWork(j)' = AtWork(j)
    BY <1>t, <1>8, AcceptedUse DEF AtWork
  <2>2. Ids(dispatched) = Ids(dispatched') \cup {i} /\ i \notin Ids(dispatched')
    BY <1>3, <1>4
  <2>3. LiveHeld'
    BY <1>1, <1>5, <1>8, <2>1, <2>2 DEF Inv, LiveHeld, Working, LiveJobs
  <2>4. WorkWanted'
    BY <1>1, <1>5, <1>7, <1>8, <2>1, <2>2 DEF Inv, WorkWanted
  <2>5. DispatchSound'
    BY <1>1, <1>3, <1>4, <1>5, <1>8 DEF Inv, DispatchSound
  <2> QED
    BY <1>6, <2>3, <2>4, <2>5 DEF Inv
<1>9. CASE failed' = failed \cup {m.id} /\ UNCHANGED runnerVars
  <2>1. LiveHeld'
    BY <1>1, <1>3, <1>5, <1>9 DEF Inv, LiveHeld, Working, AtWork, runnerVars
  <2>2. WorkWanted'
    BY <1>1, <1>3, <1>5, <1>7, <1>9 DEF Inv, WorkWanted, AtWork, runnerVars
  <2>3. DispatchSound'
    BY <1>1, <1>3, <1>4, <1>5, <1>9 DEF Inv, DispatchSound
  <2> QED
    BY <1>6, <2>1, <2>2, <2>3 DEF Inv
<1> QED
  BY <1>8, <1>9 DEF RunnerSubmit, m

LEMMA InvRunnerCancel == TypeOK /\ Inv /\ RunnerCancel => Inv'
<1> SUFFICES ASSUME TypeOK, Inv, RunnerCancel PROVE Inv'
  OBVIOUS
<1>1. /\ stage = "cancel" /\ stage' = "poll" /\ routed' = {}
      /\ dispatched = <<>> /\ completed = <<>> /\ Ids(completed) = {} /\ Ids(dispatched) = {}
      /\ UNCHANGED <<phase, dispatched, failed, completed>>
  BY IdsEmpty DEF RunnerCancel, Proceed, Inv, QueuesDrained, Reporting, feedbackQueues
<1>2. LiveJobs' = LiveJobs /\ LiveJobs \subseteq JobIds
  BY <1>1 DEF LiveJobs
<1>3. /\ runnerJobs' = runnerJobs \ routed
      /\ \A i \in JobIds : AtWork(i)' <=> (AtWork(i) /\ i \notin routed)
  BY DEF RunnerCancel, AtWork
<1>4. QueuesDrained'
  BY <1>1 DEF QueuesDrained, Reporting
<1>5. LiveHeld'
  <2>1. \A i \in LiveJobs : i \notin routed
    BY DEF Inv, DispatchSound
  <2> QED
    BY <1>1, <1>2, <1>3, <2>1 DEF Inv, LiveHeld, Working
<1>6. WorkWanted'
  BY <1>1, <1>2, <1>3 DEF Inv, WorkWanted
<1>7. DispatchSound'
  BY <1>1, <1>2 DEF Inv, DispatchSound
<1> QED
  BY <1>4, <1>5, <1>6, <1>7 DEF Inv

LEMMA InvRunnerEvent == TypeOK /\ OneUse /\ Inv /\ RunnerEvent => Inv'
<1> SUFFICES ASSUME TypeOK, OneUse, Inv, RunnerEvent PROVE Inv'
  OBVIOUS
<1>t. /\ completed \in Seq(Outputs) /\ engine \in [JobIds -> [Uses -> UseStates]]
  BY DEF TypeOK, JobTypeOK
<1>1. /\ stage = "poll" /\ stage' = "poll"
      /\ UNCHANGED <<phase, dispatched, routed>>
  BY DEF RunnerEvent, dispatchQueues
<1>2. LiveJobs' = LiveJobs /\ LiveJobs \subseteq JobIds
  BY <1>1 DEF LiveJobs
<1>3. dispatched = <<>> /\ routed = {} /\ Ids(dispatched) = {} /\ Ids(dispatched') = {}
  BY <1>1, IdsEmpty DEF Inv, QueuesDrained
<1>4. QueuesDrained'
  BY <1>1, <1>3 DEF QueuesDrained, Reporting
<1>5. DispatchSound'
  BY <1>1, <1>2, <1>3 DEF Inv, DispatchSound
<1>6. PICK i \in JobIds, u \in Uses : RunnerReport(i, u)
  BY DEF RunnerEvent, RunnerReport
<1>7. ASSUME NEW as \in {"idle", "reported"}, engine[i][u] # "idle", Settle(i, u, as)
      PROVE  /\ runnerJobs' = runnerJobs \ {i}
             /\ ~ AtWork(i)'
             /\ \A j \in JobIds \ {i} : AtWork(j)' = AtWork(j)
  <2>1. as \in UseStates
    BY DEF UseStates
  <2>2. \A v \in Uses \ {u} : engine[i][v] = "idle"
    BY <1>7 DEF OneUse
  <2>3. /\ runnerJobs' = runnerJobs \ {i} /\ engine'[i][u] = as
        /\ \A v \in Uses \ {u} : engine'[i][v] = engine[i][v]
        /\ \A j \in JobIds \ {i} : engine'[j] = engine[j]
    BY <1>t, <1>7, <2>1, SettledUse
  <2> QED
    BY <2>2, <2>3 DEF AtWork
<1>8. LiveHeld' /\ WorkWanted'
  <2>1. CASE RunnerProgress(i, u)
    <3>1. UNCHANGED <<completed, failed, runnerVars>>
      BY <2>1 DEF RunnerProgress
    <3> QED
      BY <1>1, <1>2, <1>3, <3>1 DEF runnerVars, Inv, LiveHeld, WorkWanted, Working, AtWork
  <2>2. CASE \E valid \in BOOLEAN : RunnerCompletes(i, u, valid)
    <3> PICK valid \in BOOLEAN : RunnerCompletes(i, u, valid)
      BY <2>2
    <3>1. /\ completed' = Append(completed, [id |-> i, valid |-> valid]) /\ UNCHANGED failed
          /\ engine[i][u] # "idle" /\ \E as \in {"idle", "reported"} : Settle(i, u, as)
      BY DEF RunnerCompletes
    <3>2. Ids(completed') = Ids(completed) \cup {i}
      <4>1. [id |-> i, valid |-> valid] \in Outputs
        BY DEF Outputs
      <4>2. Ids(completed') = Ids(completed) \cup {[id |-> i, valid |-> valid].id}
        BY <1>t, <3>1, <4>1, IdsAppend
      <4> QED
        BY <4>2
    <3>3. LiveHeld'
      BY <1>1, <1>2, <1>3, <1>7, <3>1, <3>2 DEF Inv, LiveHeld, Working, Reporting
    <3>4. WorkWanted'
      BY <1>1, <1>2, <1>3, <1>7, <3>1, <3>2 DEF Inv, WorkWanted
    <3> QED
      BY <3>3, <3>4
  <2>3. CASE RunnerFails(i, u)
    <3>1. failed' = failed \cup {i} /\ engine[i][u] # "idle" /\ Settle(i, u, "idle") /\ UNCHANGED completed
      BY <2>3 DEF RunnerFails, Held
    <3> QED
      BY <1>1, <1>2, <1>3, <1>7, <3>1 DEF Inv, LiveHeld, WorkWanted, Working, Reporting
  <2>4. CASE RunnerCancelled(i, u)
    <3>1. engine[i][u] = "cancelling" /\ Settle(i, u, "idle") /\ UNCHANGED <<failed, completed>>
      BY <2>4 DEF RunnerCancelled, feedbackQueues
    <3>2. ~ AtWork(i)
      <4>1. \A v \in Uses : engine[i][v] # "idle" => v = u
        BY <3>1 DEF OneUse
      <4> QED
        BY <3>1, <4>1 DEF AtWork
    <3> QED
      BY <1>1, <1>2, <1>3, <1>7, <3>1, <3>2 DEF Inv, LiveHeld, WorkWanted, Working, Reporting
  <2> QED
    BY <1>6, <2>1, <2>2, <2>3, <2>4 DEF RunnerReport
<1> QED
  BY <1>4, <1>5, <1>8 DEF Inv

LEMMA InvShow == TypeOK /\ Inv /\ ShowOutput => Inv'
<1> SUFFICES ASSUME TypeOK, Inv, ShowOutput PROVE Inv'
  OBVIOUS
<1>1. /\ stage = "display" /\ stage' = "display" /\ completed # <<>>
      /\ completed' = Tail(completed) /\ completed \in Seq(Outputs)
      /\ UNCHANGED <<phase, dispatched, routed, failed, runnerVars>>
  BY DEF ShowOutput, dispatchQueues, TypeOK, JobTypeOK
<1>2. Ids(completed') \subseteq Ids(completed)
  BY <1>1, IdsTail
<1>3. LiveJobs' = LiveJobs
  BY <1>1 DEF LiveJobs
<1>4. QueuesDrained'
  BY <1>1 DEF Inv, QueuesDrained, Reporting
<1>5. LiveHeld'
  BY <1>1, <1>3 DEF Inv, LiveHeld, Working, AtWork, Reporting, runnerVars
<1>6. WorkWanted'
  BY <1>1, <1>2, <1>3 DEF Inv, WorkWanted, AtWork, runnerVars
<1>7. DispatchSound'
  BY <1>1, <1>3 DEF Inv, DispatchSound
<1> QED
  BY <1>4, <1>5, <1>6, <1>7 DEF Inv

(* The steps that only move the frame on.                                  *)
LEMMA InvFrame ==
  TypeOK /\ Inv /\ (BeginFrame \/ RunnerSubmitDone \/ PollDone \/ EndFrame \/ UNCHANGED vars) => Inv'
<1> SUFFICES ASSUME TypeOK, Inv, BeginFrame \/ RunnerSubmitDone \/ PollDone \/ EndFrame \/ UNCHANGED vars
             PROVE  Inv'
  OBVIOUS
<1> USE DEF dispatchQueues, feedbackQueues
<1>1. UNCHANGED <<runnerVars, phase, dispatched, routed, failed, completed>>
  BY DEF BeginFrame, RunnerSubmitDone, PollDone, EndFrame, vars, jobVars
<1>2. \/ stage' = stage
      \/ stage = "idle" /\ stage' = "panel"
      \/ stage = "dispatch" /\ stage' = "cancel" /\ dispatched = <<>>
      \/ stage = "poll" /\ stage' = "progress"
      \/ stage = "display" /\ stage' = "idle" /\ completed = <<>>
  BY DEF BeginFrame, RunnerSubmitDone, PollDone, EndFrame, vars, jobVars, Proceed
<1>3. LiveJobs' = LiveJobs
  BY <1>1 DEF LiveJobs
<1>4. QueuesDrained' /\ (stage \in Reporting => stage' \in Reporting)
  BY <1>1, <1>2 DEF Inv, QueuesDrained, Reporting
<1> QED
  BY <1>1, <1>3, <1>4, Calm

LEMMA InvStep == TypeOK /\ OneUse /\ Inv /\ [Next]_vars => Inv'
BY InvHosts, InvInput, InvFeedback, InvRunnerSubmit, InvRunnerCancel, InvRunnerEvent, InvShow, InvFrame
   DEF Next, TableStep

LEMMA UsesHold == UsesApart => (Spec => []UsesInv)
<1> SUFFICES ASSUME UsesApart PROVE Spec => []UsesInv
  OBVIOUS
<1>1. TypeOK /\ TypeOK' /\ UsesInv /\ [Next]_vars => UsesInv'
  BY UsesStep
<1> QED
  BY <1>1, UsesInit, TypeCorrect, PTL DEF Spec

(* The inductive invariant: in every state of every frame a live record is *)
(* held by the runner or has a message under way that hands it over or     *)
(* settles it, and the runner works on nothing else.  A terminal event     *)
(* names an id only, so the runner must not have two uses of one id.       *)
THEOREM InvHolds == UsesApart => (Spec => []Inv)
<1> SUFFICES ASSUME UsesApart PROVE Spec => []Inv
  OBVIOUS
<1>1. Init => Inv
  BY InvInit
<1>2. UsesInv => OneUse
  BY DEF UsesInv
<1>3. TypeOK /\ OneUse /\ Inv /\ [Next]_vars => Inv'
  BY InvStep
<1> QED
  BY <1>1, <1>2, <1>3, UsesHold, TypeCorrect, PTL DEF Spec

(* No record waits for an event nobody owes it: between frames whatever is *)
(* queued or running is held by the runner with a token that can cancel it,*)
(* provided the runner has one use of an id at a time or no host sends an  *)
(* id again.                                                               *)
THEOREM NoOrphans == UsesApart => (Spec => []NoOrphanRecord)
<1> SUFFICES ASSUME UsesApart PROVE Spec => []NoOrphanRecord
  OBVIOUS
<1>1. Inv => NoOrphanRecord
  BY IdsEmpty DEF Inv, QueuesDrained, LiveHeld, Working, NoOrphanRecord, Reporting
<1> QED
  BY <1>1, InvHolds, PTL

(* A cancellation accepted in a frame has reached the runner by the end of *)
(* that frame, and nothing settled is still being worked on, under the     *)
(* condition of NoOrphans.                                                 *)
THEOREM NoRunaways == UsesApart => (Spec => []NoRunawayWork)
<1> SUFFICES ASSUME UsesApart PROVE Spec => []NoRunawayWork
  OBVIOUS
<1>1. Inv => NoRunawayWork
  BY DEF Inv, QueuesDrained, WorkWanted, NoRunawayWork
<1> QED
  BY <1>1, InvHolds, PTL

-----------------------------------------------------------------------------
(* The frontend implements the lifecycle                                   *)

LEMMA OthersKeepPhase ==
  ASSUME [Next]_vars, ~ TableStep
  PROVE  UNCHANGED phase
BY DEF Next, vars, jobVars, HostStep, PanelStep, PressRun, PressRunUnformed, PressCancel, NoPress,
       CaptureRejections, Submit, Resubmit, Cancel, BeginFrame, RunnerSubmit, RunnerSubmitDone,
       RunnerCancel, RunnerEvent, PollDone, ShowOutput, EndFrame

(* The frontend implements JobLifecycle: whatever hosts, panel and runner  *)
(* do, every record moves forward only, reaches one terminal phase, keeps  *)
(* it until it is pruned, and is never merged with another.                *)
THEOREM Refinement == Spec => FollowsLifecycle
<1>1. Init => Lifecycle!Init
  BY DEF Init, JobInit, Lifecycle!Init
<1>2. TypeOK /\ TypeOK' /\ [Next]_vars => [Lifecycle!Next]_phase
  BY TableForward, OthersKeepPhase DEF TableStep, TypeOK
<1> QED
  BY <1>1, <1>2, TypeCorrect, PTL DEF Spec, Lifecycle!Spec, FollowsLifecycle

-----------------------------------------------------------------------------
(* Retention                                                               *)

RetainedInv ==
  stage \in {"submissions", "cancellations"} => Cardinality(TerminalJobs) <= MaxRetainedTerminalJobs

LEMMA OpenedSettled ==
  ASSUME phase \in [JobIds -> Phases], NEW id \in JobIds, phase[id] = "none",
         NEW as \in Phases, phase' = Opened(id, as), MaxRetainedTerminalJobs # 0
  PROVE  Cardinality(TerminalJobs') <= MaxRetainedTerminalJobs
<1> DEFINE kept == MaxRetainedTerminalJobs - 1
           K == TerminalJobs \ Stale(kept)
<1>1. kept \in Nat
  OBVIOUS
<1>2. IsFiniteSet(K) /\ Cardinality(K) <= kept /\ Cardinality(K) \in Nat
  BY <1>1, PrunedCount
<1>3. TerminalJobs' \in SUBSET (K \cup {id}) /\ id \notin K
  <2>1. \A i \in JobIds : phase'[i] = IF i = id THEN as ELSE IF i \in Stale(kept) THEN "none" ELSE phase[i]
    BY DEF Opened, Pruned
  <2> QED
    BY <2>1 DEF TerminalJobs, Terminal
<1> HIDE DEF K, kept
<1>4. IsFiniteSet(K \cup {id}) /\ Cardinality(K \cup {id}) = Cardinality(K) + 1
  BY <1>2, <1>3, FS_AddElement
<1>5. Cardinality(TerminalJobs') <= Cardinality(K \cup {id}) /\ IsFiniteSet(TerminalJobs')
  BY <1>3, <1>4, FS_Subset
<1>6. Cardinality(TerminalJobs') \in Nat
  BY <1>5, FS_CardinalityType
<1> QED
  BY <1>2, <1>4, <1>5, <1>6 DEF kept

LEMMA RetainedStep ==
  ASSUME TypeOK, RetainedInv, [Next]_vars, MaxRetainedTerminalJobs # 0
  PROVE  RetainedInv'
<1>t. phase \in [JobIds -> Phases]
  BY DEF TypeOK, JobTypeOK
<1>c. ASSUME UNCHANGED phase,
             stage' \notin {"submissions", "cancellations"} \/ stage \in {"submissions", "cancellations"}
      PROVE  RetainedInv'
  BY <1>c DEF RetainedInv, TerminalJobs
<1>1. CASE PruneHistory
  <2>1. phase' = Pruned(MaxRetainedTerminalJobs)
    BY <1>1 DEF PruneHistory
  <2>2. TerminalJobs' = TerminalJobs \ Stale(MaxRetainedTerminalJobs)
    BY <1>t, <2>1 DEF Pruned, TerminalJobs, Terminal
  <2> QED
    BY <2>2, PrunedCount DEF RetainedInv
<1>2. ASSUME NextSubmission PROVE Head(submitted).id \in JobIds
  BY <1>2, HeadIsJob DEF NextSubmission, TypeOK, JobTypeOK
<1>3. CASE RejectSubmission(TRUE) \/ AcceptSubmission(TRUE)
  <2>1. PICK as \in Phases : phase' = Opened(Head(submitted).id, as)
    BY <1>3 DEF RejectSubmission, AcceptSubmission, Phases, Live, Terminal
  <2>2. Head(submitted).id \in JobIds /\ phase[Head(submitted).id] = "none"
    BY <1>2, <1>3 DEF RejectSubmission, AcceptSubmission
  <2> QED
    BY <1>t, <2>1, <2>2, OpenedSettled DEF RetainedInv
<1>4. CASE RejectDuplicate \/ SubmissionsDone
  BY <1>4, <1>c DEF RejectDuplicate, SubmissionsDone, Proceed
<1>5. CASE AcceptCancellations \/ ApplyFeedback
  BY <1>5 DEF AcceptCancellations, ApplyFeedback, ApplyProgress, ApplyCompletions, ApplyFailures,
              Proceed, RetainedInv
<1>6. CASE ~ TableStep
  <2>1. UNCHANGED phase
    BY <1>6, OthersKeepPhase
  <2>2. stage' = stage \/ stage' \notin {"submissions", "cancellations"}
    BY <1>6 DEF Next, vars, jobVars, HostStep, PanelStep, PressRun, PressRunUnformed, PressCancel, NoPress,
       CaptureRejections, BeginFrame, RunnerSubmit, RunnerSubmitDone,
       RunnerCancel, RunnerEvent, PollDone, ShowOutput, EndFrame, Proceed
  <2> QED
    BY <1>c, <2>1, <2>2
<1> QED
  BY <1>1, <1>3, <1>4, <1>5, <1>6 DEF TableStep, AcceptInput

(* However many submissions one frame rejects, the table holds no more     *)
(* settled requests than it may.  With a limit of 0, which the code does   *)
(* not use, the record of the submission at hand would still be inserted.  *)
THEOREM RetentionIsBounded == MaxRetainedTerminalJobs # 0 => (Spec => []RetentionBound)
<1> SUFFICES ASSUME MaxRetainedTerminalJobs # 0 PROVE Spec => []RetentionBound
  OBVIOUS
<1>1. Init => RetainedInv
  BY DEF Init, JobInit, RetainedInv
<1>2. TypeOK /\ RetainedInv /\ [Next]_vars => RetainedInv'
  BY RetainedStep
<1>3. RetainedInv => RetentionBound
  BY DEF RetainedInv, RetentionBound
<1> QED
  BY <1>1, <1>2, <1>3, TypeCorrect, PTL DEF Spec

-----------------------------------------------------------------------------
(* The panel as the only host                                              *)

Unread == {"capture", "prune", "submissions"}

SoloInv ==
  /\ stage \notin Unread => submitted = <<>>
  /\ Len(submitted) <= 1
  /\ submitted # <<>> => LiveJobs = {}
  /\ \A i, j \in LiveJobs : i = j

LEMMA SingleTail ==
  ASSUME NEW S, NEW s \in Seq(S), Len(s) <= 1, s # <<>>
  PROVE  Tail(s) = <<>> /\ Ids(s) = {Head(s).id}
<1>1. Len(s) \in Nat /\ Len(s) # 0
  BY EmptySeq, LenProperties
<1>2. Len(s) = 1
  <2>1. \A n \in Nat : n <= 1 /\ n # 0 => n = 1
    OBVIOUS
  <2> QED
    BY <1>1, <2>1
<1>3. Len(Tail(s)) = Len(s) - 1 /\ Tail(s) \in Seq(S)
  BY HeadTailProperties
<1>4. Len(Tail(s)) = 0
  BY <1>2, <1>3
<1>5. Tail(s) = <<>>
  BY <1>3, <1>4, EmptySeq
<1>6. Ids(s) = Ids(Tail(s)) \cup {Head(s).id}
  BY IdsTail
<1> QED
  BY <1>5, <1>6, IdsEmpty

(* A step that posts nothing and opens no record.                          *)
LEMMA SoloCalm ==
  ASSUME SoloInv, submitted' = submitted, LiveJobs' \subseteq LiveJobs,
         stage' \in Unread \/ stage \notin Unread \/ submitted = <<>>
  PROVE  SoloInv'
BY DEF SoloInv

LEMMA SoloStep ==
  ASSUME TypeOK, SoloInv, [Next]_vars, ~ HostSubmits
  PROVE  SoloInv'
<1> USE DEF inputQueues, dispatchQueues, feedbackQueues
<1>t. phase \in [JobIds -> Phases] /\ submitted \in Seq(Submissions) /\ nextId \in 0 .. MaxJobs
  BY DEF TypeOK, JobTypeOK
<1>1. CASE PressRun
  <2>1. PICK r \in Requests : Submit(r)
    BY <1>1 DEF PressRun
  <2>2. stage = "panel" /\ stage' = "capture" /\ LiveJobs = {} /\ submitted = <<>>
    BY <1>1 DEF PressRun, Proceed, CanRun, SoloInv, Unread
  <2>3. submitted' = Append(submitted, [id |-> nextId', request |-> r]) /\ UNCHANGED phase
    BY <2>1 DEF Submit
  <2>4. LiveJobs' = {}
    BY <2>2, <2>3 DEF LiveJobs
  <2>5. Len(submitted') = 1
    BY <2>2, <2>3
  <2> QED
    BY <2>2, <2>4, <2>5 DEF SoloInv, Unread
<1>2. CASE ~ TableStep /\ ~ PressRun
  <2>1. UNCHANGED phase
    BY <1>2, OthersKeepPhase
  <2>2. UNCHANGED submitted
    BY <1>2 DEF Next, vars, jobVars, HostStep, PanelStep, PressRunUnformed, PressCancel, NoPress,
       CaptureRejections, ReserveId, Cancel, BeginFrame, RunnerSubmit, RunnerSubmitDone,
       RunnerCancel, RunnerEvent, PollDone, ShowOutput, EndFrame
  <2>3. stage' = stage \/ stage' \in Unread \/ stage \notin Unread
    BY <1>2 DEF Next, vars, jobVars, HostStep, PanelStep, PressRunUnformed, PressCancel, NoPress,
       CaptureRejections, BeginFrame, RunnerSubmit, RunnerSubmitDone,
       RunnerCancel, RunnerEvent, PollDone, ShowOutput, EndFrame, Proceed, Unread
  <2>4. LiveJobs' = LiveJobs
    BY <2>1 DEF LiveJobs
  <2> QED
    BY <2>2, <2>3, <2>4, SoloCalm
<1>3. CASE PruneHistory
  <2>1. LiveJobs' = LiveJobs
    BY <1>t, <1>3, PrunedLive DEF PruneHistory
  <2> QED
    BY <1>3, <2>1, SoloCalm DEF PruneHistory, Proceed, Unread
<1>4. CASE SubmissionsDone
  BY <1>4, SoloCalm DEF SubmissionsDone, LiveJobs
<1>5. CASE AcceptCancellations \/ ApplyFeedback
  <2>1. \A i \in JobIds : Verdict(i) \notin Live
    BY DEF Verdict, Live
  <2>2. LiveJobs' \subseteq LiveJobs
    BY <1>t, <1>5, <2>1 DEF AcceptCancellations, ApplyFeedback, ApplyProgress, ApplyCompletions,
       ApplyFailures, LiveJobs, Live
  <2>3. submitted' = submitted /\ stage \notin Unread
    BY <1>5 DEF AcceptCancellations, ApplyFeedback, ApplyProgress, ApplyCompletions, ApplyFailures,
       Proceed, Unread
  <2> QED
    BY <2>2, <2>3, SoloCalm
<1>6. ASSUME NextSubmission
      PROVE  /\ Head(submitted).id \in JobIds /\ LiveJobs = {}
             /\ submitted' = <<>> /\ stage \in Unread
  <2>1. submitted # <<>> /\ Len(submitted) <= 1 /\ submitted' = Tail(submitted)
    BY <1>6 DEF NextSubmission, SoloInv
  <2> QED
    BY <1>t, <1>6, <2>1, HeadIsJob, SingleTail DEF NextSubmission, SoloInv, Unread
<1>7. CASE RejectDuplicate
  <2>1. LiveJobs' = {} /\ submitted' = <<>>
    BY <1>6, <1>7 DEF RejectDuplicate, LiveJobs
  <2> QED
    BY <2>1 DEF SoloInv
<1>8. CASE RejectSubmission(TRUE) \/ AcceptSubmission(TRUE)
  <2>1. PICK as \in Phases : phase' = Opened(Head(submitted).id, as)
    BY <1>8 DEF RejectSubmission, AcceptSubmission, Phases, Live, Terminal
  <2>2. NextSubmission /\ phase[Head(submitted).id] = "none"
    BY <1>8 DEF RejectSubmission, AcceptSubmission
  <2>3. LiveJobs' = LiveJobs \cup (IF as \in Live THEN {Head(submitted).id} ELSE {})
    BY <1>t, <1>6, <2>1, <2>2, OpenedLive
  <2>4. submitted' = <<>> /\ \A i, j \in LiveJobs' : i = j
    BY <1>6, <2>2, <2>3
  <2> QED
    BY <2>4 DEF SoloInv
<1> QED
  BY <1>1, <1>2, <1>3, <1>4, <1>5, <1>7, <1>8 DEF TableStep, AcceptInput

LEMMA SoloInit == Init => SoloInv
<1> SUFFICES ASSUME Init PROVE SoloInv
  OBVIOUS
<1>1. LiveJobs = {} /\ submitted = <<>> /\ Len(submitted) = 0
  BY DEF Init, JobInit, LiveJobs, Live
<1> QED
  BY <1>1 DEF SoloInv

(* With the panel as the only host one job at a time is in flight, the one *)
(* whose submission has not been read yet included, however often Run is   *)
(* pressed and whatever the runner reports.                                *)
THEOREM OneAtATime == ~ HostSubmits => (Spec => []OneJobAtATime)
<1> SUFFICES ASSUME ~ HostSubmits PROVE Spec => []OneJobAtATime
  OBVIOUS
<1>1. TypeOK /\ SoloInv /\ [Next]_vars => SoloInv'
  BY SoloStep
<1>2. TypeOK /\ SoloInv => OneJobAtATime
  <2> SUFFICES ASSUME TypeOK, SoloInv PROVE Cardinality(LiveJobs \cup Ids(submitted)) <= 1
    BY DEF OneJobAtATime, Ids
  <2>1. submitted \in Seq(Submissions)
    BY DEF TypeOK, JobTypeOK
  <2>2. \E i : LiveJobs \cup Ids(submitted) \subseteq {i}
    <3>1. CASE submitted = <<>>
      <4>1. Ids(submitted) = {}
        BY <3>1, IdsEmpty
      <4> QED
        BY <4>1 DEF SoloInv
    <3>2. CASE submitted # <<>>
      <4>1. Ids(submitted) = {Head(submitted).id}
        BY <2>1, <3>2, SingleTail DEF SoloInv
      <4> QED
        BY <3>2, <4>1 DEF SoloInv
    <3> QED
      BY <3>1, <3>2
  <2>3. PICK i : LiveJobs \cup Ids(submitted) \subseteq {i}
    BY <2>2
  <2>4. IsFiniteSet({i}) /\ Cardinality({i}) = 1
    BY FS_Singleton
  <2> QED
    BY <2>3, <2>4, FS_Subset
<1> QED
  BY <1>1, <1>2, SoloInit, TypeCorrect, PTL DEF Spec

-----------------------------------------------------------------------------
(* What is displayed                                                       *)

LEMMA OthersFrom ==
  ASSUME shown \in Seq(Outputs), NEW id \in JobIds, NEW k \in DOMAIN Others(id)
  PROVE  \E l \in DOMAIN shown : Others(id)[k] = shown[l]
<1>1. CASE ~ \E l \in DOMAIN shown : shown[l].id = id
  BY <1>1 DEF Others
<1>2. CASE \E l \in DOMAIN shown : shown[l].id = id
  <2> DEFINE m == CHOOSE l \in DOMAIN shown : shown[l].id = id
             before == SubSeq(shown, 1, m - 1)
             after == SubSeq(shown, m + 1, Len(shown))
  <2>1. m \in 1 .. Len(shown)
    BY <1>2
  <2>7. Others(id) = before \o after
    BY <1>2 DEF Others
  <2> HIDE DEF m
  <2>2. /\ before \in Seq(Outputs) /\ Len(before) = m - 1
        /\ \A l \in 1 .. (m - 1) : before[l] = shown[l]
    BY <2>1, SubSeqProperties
  <2>3. /\ after \in Seq(Outputs) /\ Len(after) = Len(shown) - m
        /\ \A l \in 1 .. (Len(shown) - m) : after[l] = shown[m + l]
    BY <2>1, SubSeqProperties
  <2> HIDE DEF before, after
  <2>4. k \in 1 .. (Len(before) + Len(after))
    BY <2>2, <2>3, <2>7, ConcatProperties
  <2>5. CASE k <= m - 1
    BY <2>1, <2>2, <2>3, <2>4, <2>5, <2>7, ConcatProperties
  <2>6. CASE k > m - 1
    <3>1. k - (m - 1) \in 1 .. (Len(shown) - m)
      BY <2>1, <2>2, <2>3, <2>4, <2>6
    <3>2. Others(id)[k] = after[k - (m - 1)]
      BY <2>1, <2>2, <2>3, <2>4, <2>6, <2>7, ConcatProperties
    <3>3. Others(id)[k] = shown[m + (k - (m - 1))]
      BY <2>3, <3>1, <3>2
    <3>4. m + (k - (m - 1)) \in 1 .. Len(shown)
      BY <2>1, <3>1
    <3> QED
      BY <3>3, <3>4
  <2> QED
    BY <2>1, <2>4, <2>5, <2>6
<1> QED
  BY <1>1, <1>2

(* The display shows the new output, and nothing it has not shown before.  *)
LEMMA InsertedFrom ==
  ASSUME shown \in Seq(Outputs), NEW o \in Outputs
  PROVE  /\ \A k \in DOMAIN Inserted(o) :
              Inserted(o)[k] = o \/ \E l \in DOMAIN shown : Inserted(o)[k] = shown[l]
         /\ \E k \in DOMAIN Inserted(o) : Inserted(o)[k] = o
<1> DEFINE old == Others(o.id)
           all == Append(old, o)
<1>1. o.id \in JobIds
  BY DEF Outputs
<1>2. old \in Seq(Outputs)
  BY <1>1, OthersTyped
<1>3. \A k \in DOMAIN old : \E l \in DOMAIN shown : old[k] = shown[l]
  BY <1>1, OthersFrom
<1> HIDE DEF old
<1>4. /\ all \in Seq(Outputs) /\ Len(all) = Len(old) + 1 /\ Len(old) \in Nat
      /\ all[Len(old) + 1] = o
      /\ \A k \in 1 .. Len(old) : all[k] = old[k]
  BY <1>2, AppendProperties
<1>5. \A k \in 1 .. Len(all) : all[k] = o \/ \E l \in DOMAIN shown : all[k] = shown[l]
  <2> SUFFICES ASSUME NEW k \in 1 .. Len(all), all[k] # o
               PROVE  \E l \in DOMAIN shown : all[k] = shown[l]
    OBVIOUS
  <2>1. k \in 1 .. Len(old) /\ all[k] = old[k]
    BY <1>4
  <2>2. DOMAIN old = 1 .. Len(old)
    BY <1>2
  <2> QED
    BY <1>3, <2>1, <2>2
<1>6. Inserted(o) = IF Len(all) > HistoryLimit THEN Tail(all) ELSE all
  BY DEF Inserted, old
<1> HIDE DEF all
<1>7. CASE Len(all) > HistoryLimit
  <2>1. /\ Len(Tail(all)) = Len(old) /\ Tail(all) \in Seq(Outputs) /\ Len(old) >= 1
        /\ \A k \in 1 .. Len(old) : Tail(all)[k] = all[k + 1]
    BY <1>4, <1>7, HeadTailProperties, EmptySeq
  <2>2. DOMAIN Tail(all) = 1 .. Len(old)
    BY <2>1
  <2>3. \A k \in 1 .. Len(old) : k + 1 \in 1 .. Len(all)
    BY <1>4
  <2>4. Tail(all)[Len(old)] = o /\ Len(old) \in 1 .. Len(old)
    BY <1>4, <2>1
  <2> QED
    BY <1>5, <1>6, <1>7, <2>1, <2>2, <2>3, <2>4
<1>8. CASE ~ (Len(all) > HistoryLimit)
  <2>1. DOMAIN all = 1 .. Len(all) /\ Len(all) \in 1 .. Len(all)
    BY <1>4
  <2> QED
    BY <1>4, <1>5, <1>6, <1>8, <2>1
<1> QED
  BY <1>7, <1>8

Judged == {"failures", "display"}

(* A runner that reports a completion once reports it while the record is  *)
(* not completed, and the table has judged the very message displayed.     *)
ShownInv ==
  /\ \A i \in JobIds : phase[i] = "completed" => Unused(i)
  /\ \A i \in routed : phase[i] = "cancelled"
  /\ OncePerJob(completed)
  /\ stage \in Reporting =>
       \A i \in Ids(completed) : Unused(i) /\ phase[i] # "completed"
  /\ stage \in Judged =>
       \A k \in DOMAIN completed : phase[completed[k].id] = "completed" => completed[k].valid
  /\ \A k \in DOMAIN shown : shown[k].valid

LEMMA IdsTyped ==
  ASSUME NEW s \in Seq(Outputs)
  PROVE  /\ Ids(s) \subseteq JobIds
         /\ \A k \in DOMAIN s : s[k].id \in JobIds /\ s[k].id \in Ids(s)
<1>1. \A k \in DOMAIN s : s[k] \in Outputs
  OBVIOUS
<1> QED
  BY <1>1 DEF Ids, Outputs

(* A step that completes no record and reports no output.                  *)
LEMMA ShownCalm ==
  ASSUME TypeOK, ShownInv, UNCHANGED <<engine, completed, shown>>,
         \A i \in JobIds : phase'[i] = "completed" => phase[i] = "completed",
         \A i \in routed' : phase'[i] = "cancelled",
         stage' \in Reporting => stage \in Reporting \/ completed = <<>>,
         stage' \in Judged => stage \in Judged \/ completed = <<>>
  PROVE  ShownInv'
<1>1. completed \in Seq(Outputs)
  BY DEF TypeOK, JobTypeOK
<1>2. \A k \in DOMAIN completed : completed[k].id \in JobIds
  BY <1>1, IdsTyped
<1>3. Ids(completed) \subseteq JobIds
  BY <1>1, IdsTyped
<1>4. completed = <<>> => Ids(completed) = {}
  BY IdsEmpty
<1>5. completed = <<>> => DOMAIN completed = {}
  OBVIOUS
<1>9. \A i : Unused(i)' = Unused(i)
  BY DEF Unused
<1>6. (\A i \in JobIds : phase[i] = "completed" => Unused(i))'
  BY <1>9 DEF ShownInv
<1>7. (stage \in Reporting =>
         \A i \in Ids(completed) : Unused(i) /\ phase[i] # "completed")'
  BY <1>3, <1>4, <1>9 DEF ShownInv
<1>8. (stage \in Judged =>
         \A k \in DOMAIN completed : phase[completed[k].id] = "completed" => completed[k].valid)'
  BY <1>2, <1>5 DEF ShownInv
<1> QED
  BY <1>6, <1>7, <1>8 DEF ShownInv, OncePerJob

LEMMA ShownTable ==
  ASSUME TypeOK, Inv, ShownInv, TableStep
  PROVE  ShownInv'
<1> USE DEF inputQueues, dispatchQueues, feedbackQueues, runnerVars, displayVars
<1>t. /\ phase \in [JobIds -> Phases] /\ completed \in Seq(Outputs) /\ submitted \in Seq(Submissions)
      /\ UNCHANGED <<engine, shown>>
  BY DEF TypeOK, JobTypeOK, TableStep
<1>1. CASE PruneHistory
  <2>1. \A i \in JobIds : phase'[i] = "completed" => phase[i] = "completed"
    BY <1>t, <1>1 DEF PruneHistory, Pruned
  <2>2. routed' = {} /\ UNCHANGED completed
    BY <1>1 DEF PruneHistory, Proceed, Inv, QueuesDrained
  <2>3. stage' \notin Reporting /\ stage' \notin Judged
    BY <1>1 DEF PruneHistory, Proceed, Reporting, Judged
  <2> QED
    BY <1>t, <2>1, <2>2, <2>3, ShownCalm
<1>2. CASE RejectDuplicate \/ RejectSubmission(TRUE) \/ AcceptSubmission(TRUE)
  <2>1. NextSubmission /\ UNCHANGED <<stage, routed, completed>>
    BY <1>2 DEF RejectDuplicate, RejectSubmission, AcceptSubmission
  <2>2. routed' = {}
    BY <2>1 DEF NextSubmission, Inv, QueuesDrained
  <2>3. phase' = phase \/ \E as \in {"failed", "queued"} : phase' = Opened(Head(submitted).id, as)
    BY <1>2 DEF RejectDuplicate, RejectSubmission, AcceptSubmission
  <2>4. Head(submitted).id \in JobIds
    BY <1>t, <2>1, HeadIsJob DEF NextSubmission
  <2>5. \A i \in JobIds : phase'[i] = "completed" => phase[i] = "completed"
    BY <1>t, <2>3, <2>4 DEF Opened, Pruned
  <2> QED
    BY <1>t, <2>1, <2>2, <2>5, ShownCalm
<1>3. CASE SubmissionsDone
  <2>1. stage' \notin Reporting /\ stage' \notin Judged /\ UNCHANGED <<phase, routed, completed>>
    BY <1>3 DEF SubmissionsDone, Proceed, Reporting, Judged
  <2> QED
    BY <1>t, <2>1, ShownCalm DEF ShownInv
<1>4. CASE AcceptCancellations
  <2>1. stage' \notin Reporting /\ stage' \notin Judged /\ UNCHANGED completed
    BY <1>4 DEF AcceptCancellations, Proceed, Reporting, Judged
  <2>2. \A i \in JobIds : phase'[i] = "completed" => phase[i] = "completed"
    BY <1>t, <1>4 DEF AcceptCancellations
  <2>3. \A i \in routed' : phase'[i] = "cancelled"
    BY <1>t, <1>4 DEF AcceptCancellations, LiveJobs
  <2> QED
    BY <1>t, <2>1, <2>2, <2>3, ShownCalm
<1>5. CASE ApplyProgress
  <2>1. stage \in Reporting /\ stage' \in Reporting /\ stage' \notin Judged /\ UNCHANGED completed
    BY <1>5 DEF ApplyProgress, Proceed, Reporting, Judged
  <2>2. routed' = {}
    BY <1>5 DEF ApplyProgress, Proceed, Inv, QueuesDrained
  <2>3. \A i \in JobIds : phase'[i] = "completed" => phase[i] = "completed"
    BY <1>t, <1>5 DEF ApplyProgress
  <2> QED
    BY <1>t, <2>1, <2>2, <2>3, ShownCalm
<1>6. CASE ApplyFailures
  <2>1. stage \in Judged /\ stage' \in Judged /\ stage' \notin Reporting /\ UNCHANGED completed
    BY <1>6 DEF ApplyFailures, Proceed, Reporting, Judged
  <2>2. routed' = {}
    BY <1>6 DEF ApplyFailures, Proceed, Inv, QueuesDrained
  <2>3. \A i \in JobIds : phase'[i] = "completed" => phase[i] = "completed"
    BY <1>t, <1>6 DEF ApplyFailures
  <2> QED
    BY <1>t, <2>1, <2>2, <2>3, ShownCalm
<1>7. CASE ApplyCompletions
  <2>1. /\ stage \in Reporting /\ stage' \in Judged /\ stage' \notin Reporting
        /\ UNCHANGED <<completed, routed>>
        /\ \A i \in JobIds : phase'[i] = IF i \in LiveJobs /\ CompletionsFor(i) # {}
                                         THEN Verdict(i) ELSE phase[i]
    BY <1>7 DEF ApplyCompletions, Proceed, Reporting, Judged
  <2>2. routed = {}
    BY <1>7 DEF ApplyCompletions, Proceed, Inv, QueuesDrained
  <2>3. \A i \in JobIds : CompletionsFor(i) # {} => i \in Ids(completed)
    BY DEF CompletionsFor, Ids
  <2>4. (\A i \in JobIds : phase[i] = "completed" => Unused(i))'
    BY <1>t, <2>1, <2>3 DEF ShownInv, Unused
  <2>5. ASSUME NEW k \in DOMAIN completed, phase'[completed[k].id] = "completed"
        PROVE  completed[k].valid
    <3> DEFINE i == completed[k].id
    <3>1. i \in JobIds /\ i \in Ids(completed)
      BY <1>t, IdsTyped
    <3>2. phase[i] # "completed"
      BY <2>1, <3>1 DEF ShownInv
    <3>3. Verdict(i) = "completed"
      BY <2>1, <2>5, <3>1, <3>2
    <3>4. CompletionsFor(i) = {k}
      BY DEF CompletionsFor, ShownInv, OncePerJob
    <3>5. k \in Nat
      BY <1>t
    <3> HIDE DEF i
    <3>6. (CHOOSE l \in CompletionsFor(i) : \A j \in CompletionsFor(i) : l <= j) = k
      BY <3>4, <3>5
    <3> QED
      BY <3>3, <3>6 DEF Verdict
  <2>6. (stage \in Judged =>
          \A k \in DOMAIN completed : phase[completed[k].id] = "completed" => completed[k].valid)'
    BY <2>1, <2>5
  <2> QED
    BY <1>t, <2>1, <2>2, <2>4, <2>6 DEF ShownInv
<1> QED
  BY <1>1, <1>2, <1>3, <1>4, <1>5, <1>6, <1>7 DEF TableStep, AcceptInput, ApplyFeedback

LEMMA ShownRunnerSubmit ==
  ASSUME TypeOK, Inv, ShownInv, RunnerSubmit
  PROVE  ShownInv'
<1>1. /\ stage = "dispatch" /\ stage' = "dispatch" /\ dispatched # <<>>
      /\ UNCHANGED <<phase, routed, completed, shown>>
  BY DEF RunnerSubmit, displayVars
<1>2. PICK i \in JobIds : i = Head(dispatched).id /\ i \in Ids(dispatched)
  BY <1>1, HeadIsJob, IdsTail DEF TypeOK, JobTypeOK
<1>3. phase[i] # "completed"
  BY <1>2 DEF Inv, DispatchSound, ShownInv, LiveJobs, Live
<1>4. \A j \in JobIds \ {i} : engine'[j] = engine[j]
  <2>1. RunnerAccepts(i) \/ UNCHANGED engine
    BY <1>2 DEF RunnerSubmit, runnerVars
  <2> QED
    BY <2>1, AcceptedUse DEF TypeOK
<1>5. (\A j \in JobIds : phase[j] = "completed" => Unused(j))'
  BY <1>1, <1>3, <1>4 DEF ShownInv, Unused
<1>6. stage' \notin Reporting /\ stage' \notin Judged
  BY <1>1 DEF Reporting, Judged
<1> QED
  BY <1>1, <1>5, <1>6 DEF ShownInv, OncePerJob

LEMMA ShownRunnerCancel ==
  ASSUME TypeOK, Inv, ShownInv, RunnerCancel
  PROVE  ShownInv'
<1>1. /\ completed = <<>> /\ routed' = {} /\ stage' \notin Judged
      /\ UNCHANGED <<phase, completed, shown>>
  BY DEF RunnerCancel, Proceed, Inv, QueuesDrained, Reporting, Judged, feedbackQueues, displayVars
<1>2. \A i \in JobIds : Unused(i) => Unused(i)'
  BY DEF RunnerCancel, Unused
<1>3. (\A i \in JobIds : phase[i] = "completed" => Unused(i))'
  BY <1>1, <1>2 DEF ShownInv
<1>4. (\A i \in Ids(completed) : Unused(i) /\ phase[i] # "completed")'
  BY <1>1, IdsEmpty
<1> QED
  BY <1>1, <1>3, <1>4 DEF ShownInv, OncePerJob

LEMMA ShownRunnerEvent ==
  ASSUME TypeOK, OneUse, Inv, ShownInv, [Next]_vars, RunnerEvent, ~ RunnerRepeats
  PROVE  ShownInv'
<1>1. /\ stage = "poll" /\ stage' = "poll" /\ routed = {} /\ routed' = {}
      /\ UNCHANGED <<phase, shown>>
  BY DEF RunnerEvent, dispatchQueues, displayVars, Inv, QueuesDrained
<1>2. stage \in Reporting /\ stage' \notin Judged
  BY <1>1 DEF Reporting, Judged
<1>3. PICK i \in JobIds, u \in Uses : RunnerReport(i, u)
  BY DEF RunnerEvent, RunnerReport
<1>4. completed \in Seq(Outputs) /\ Ids(completed) \subseteq JobIds
  BY IdsTyped DEF TypeOK, JobTypeOK
<1>5. \A j \in JobIds : Unused(j) => Unused(j)'
  <2>1. ~ RunnerSubmit
    BY <1>1 DEF RunnerSubmit
  <2> QED
    BY <2>1, IdleStays DEF Unused
<1>6. (\A j \in JobIds : phase[j] = "completed" => Unused(j))'
  BY <1>1, <1>5 DEF ShownInv
<1>7. CASE \E valid \in BOOLEAN : RunnerCompletes(i, u, valid)
  <2>1. PICK valid \in BOOLEAN : RunnerCompletes(i, u, valid)
    BY <1>7
  <2>2. /\ engine[i][u] # "idle" /\ Settle(i, u, "idle")
        /\ completed' = Append(completed, [id |-> i, valid |-> valid])
    BY <2>1 DEF RunnerCompletes
  <2>3. [id |-> i, valid |-> valid] \in Outputs /\ [id |-> i, valid |-> valid].id = i
    BY DEF Outputs
  <2>4. phase[i] # "completed" /\ i \notin Ids(completed)
    BY <1>2, <2>2 DEF ShownInv, Unused
  <2>5. Ids(completed') = Ids(completed) \cup {i}
    BY <1>4, <2>2, <2>3, IdsAppend
  <2>6. OncePerJob(completed')
    BY <1>4, <2>2, <2>3, <2>4, OnceAppend DEF ShownInv
  <2>7. Unused(i)'
    <3>1. \A v \in Uses \ {u} : engine[i][v] = "idle"
      BY <2>2 DEF OneUse
    <3>2. engine'[i][u] = "idle" /\ \A v \in Uses \ {u} : engine'[i][v] = engine[i][v]
      BY <2>2, SettledUse DEF TypeOK, UseStates
    <3> QED
      BY <3>1, <3>2 DEF Unused
  <2>8. (\A j \in Ids(completed) : Unused(j) /\ phase[j] # "completed")'
    BY <1>1, <1>2, <1>4, <1>5, <2>4, <2>5, <2>7 DEF ShownInv
  <2> QED
    BY <1>1, <1>2, <1>6, <2>6, <2>8 DEF ShownInv
<1>8. CASE ~ \E valid \in BOOLEAN : RunnerCompletes(i, u, valid)
  <2>1. completed' = completed
    BY <1>3, <1>8 DEF RunnerReport, RunnerProgress, RunnerFails, RunnerCancelled, feedbackQueues
  <2>2. (\A j \in Ids(completed) : Unused(j) /\ phase[j] # "completed")'
    BY <1>1, <1>2, <1>4, <1>5, <2>1 DEF ShownInv
  <2> QED
    BY <1>1, <1>2, <1>6, <2>1, <2>2 DEF ShownInv, OncePerJob
<1> QED
  BY <1>7, <1>8

LEMMA ShownShow ==
  ASSUME TypeOK, Inv, ShownInv, ShowOutput
  PROVE  ShownInv'
<1> DEFINE o == Head(completed)
<1>1. /\ stage = "display" /\ stage' = "display" /\ completed # <<>>
      /\ completed' = Tail(completed) /\ completed \in Seq(Outputs) /\ shown \in Seq(Outputs)
      /\ UNCHANGED <<phase, routed, engine>>
  BY DEF ShowOutput, dispatchQueues, runnerVars, TypeOK, JobTypeOK
<1>2. /\ Len(completed) \in Nat \ {0} /\ DOMAIN completed = 1 .. Len(completed)
      /\ DOMAIN Tail(completed) = 1 .. (Len(completed) - 1)
      /\ \A k \in 1 .. (Len(completed) - 1) : Tail(completed)[k] = completed[k + 1]
      /\ o = completed[1]
  BY <1>1
<1>3. o \in Outputs
  BY <1>1
<1>4. OncePerJob(completed')
  BY <1>1, OnceTail DEF ShownInv
<1>5. \A k \in DOMAIN completed' : \E l \in DOMAIN completed : completed'[k] = completed[l]
  <2> SUFFICES ASSUME NEW k \in 1 .. (Len(completed) - 1)
               PROVE  \E l \in DOMAIN completed : Tail(completed)[k] = completed[l]
    BY <1>1, <1>2
  <2>1. k + 1 \in DOMAIN completed
    BY <1>2
  <2> QED
    BY <1>2, <2>1
<1>6. \A k \in DOMAIN completed : phase[completed[k].id] = "completed" => completed[k].valid
  BY <1>1 DEF ShownInv, Judged
<1>7. phase[o.id] = "completed" => o.valid
  BY <1>2, <1>6
<1>8. \/ shown' = shown
      \/ phase[o.id] = "completed" /\ shown' = Inserted(o)
  BY DEF ShowOutput, displayVars
<1>9. \A k \in DOMAIN Inserted(o) :
        Inserted(o)[k] = o \/ \E l \in DOMAIN shown : Inserted(o)[k] = shown[l]
  BY <1>1, <1>3, InsertedFrom
<1> HIDE DEF o
<1>10. (\A k \in DOMAIN shown : shown[k].valid)'
  BY <1>7, <1>8, <1>9 DEF ShownInv
<1>11. stage' \notin Reporting
  BY <1>1 DEF Reporting
<1>12. (\A k \in DOMAIN completed : phase[completed[k].id] = "completed" => completed[k].valid)'
  BY <1>1, <1>5, <1>6
<1>13. \A i : Unused(i)' = Unused(i)
  BY <1>1 DEF Unused
<1> QED
  BY <1>1, <1>4, <1>10, <1>11, <1>12, <1>13 DEF ShownInv

LEMMA ShownStep ==
  ASSUME TypeOK, OneUse, Inv, ShownInv, [Next]_vars, ~ RunnerRepeats
  PROVE  ShownInv'
<1> USE DEF dispatchQueues, feedbackQueues, runnerVars, displayVars
<1>1. CASE HostStep \/ PanelStep \/ BeginFrame \/ RunnerSubmitDone \/ PollDone \/ EndFrame \/ UNCHANGED vars
  <2>1. UNCHANGED <<phase, routed, engine, completed, shown>>
    BY <1>1 DEF HostStep, PanelStep, PressRun, PressRunUnformed, PressCancel, NoPress, CaptureRejections,
       Submit, Resubmit, Cancel, BeginFrame, RunnerSubmitDone, PollDone, EndFrame, vars, jobVars
  <2>2. /\ stage' \in Reporting => stage \in Reporting
        /\ stage' \in Judged => stage \in Judged
    BY <1>1 DEF HostStep, PanelStep, PressRun, PressRunUnformed, PressCancel, NoPress, CaptureRejections,
       BeginFrame, RunnerSubmitDone, PollDone, EndFrame, vars, jobVars, Proceed, Reporting, Judged
  <2> QED
    BY <2>1, <2>2, ShownCalm DEF ShownInv
<1> QED
  BY <1>1, ShownTable, ShownRunnerSubmit, ShownRunnerCancel, ShownRunnerEvent, ShownShow DEF Next

LEMMA ShownInit == Init => ShownInv
<1> SUFFICES ASSUME Init PROVE ShownInv
  OBVIOUS
<1>1. Ids(completed) = {} /\ DOMAIN completed = {} /\ DOMAIN shown = {}
  BY IdsEmpty DEF Init, JobInit
<1> QED
  BY <1>1 DEF Init, JobInit, ShownInv, OncePerJob, Reporting, Judged, Unused

(* An image reaches the display, and the browser event its host, only for  *)
(* an output the table has validated, provided the runner reports each     *)
(* completion once and the condition of NoOrphans holds: the display reads *)
(* the messages, not the table's verdict on them.                          *)
THEOREM ValidatedOnly == ~ RunnerRepeats /\ UsesApart => (Spec => []OnlyValidatedShown)
<1> SUFFICES ASSUME ~ RunnerRepeats, UsesApart PROVE Spec => []OnlyValidatedShown
  OBVIOUS
<1>1. TypeOK /\ UsesInv /\ Inv /\ ShownInv /\ [Next]_vars => ShownInv'
  BY ShownStep DEF UsesInv
<1>2. ShownInv => OnlyValidatedShown
  BY DEF ShownInv, OnlyValidatedShown
<1> QED
  BY <1>1, <1>2, ShownInit, TypeCorrect, UsesHold, InvHolds, PTL DEF Spec

-----------------------------------------------------------------------------
(* The job the panel follows                                               *)

(* The panel is the only host and its Run button is not pressed in two     *)
(* frames running; the runner reports a completion once; a settled record  *)
(* is retained.                                                            *)
PanelAlone == ~ HostSubmits /\ ~ DoubleClicks /\ ~ RunnerRepeats /\ MaxRetainedTerminalJobs # 0

(* The panel's latest job is the newest the table knows, and the only one  *)
(* on its way, live, rejected or about to be displayed.                    *)
NewestInv ==
  /\ latestJob <= nextId
  /\ LiveJobs \cup Ids(submitted) \subseteq {latestJob}
  /\ submitted # <<>> => rejected = <<>> /\ phase[latestJob] = "none"
  /\ \A i \in JobIds : phase[i] # "none" => i <= latestJob
  /\ latestJob # 0 => phase[latestJob] # "none" \/ latestJob \in Ids(submitted)
  /\ \A k \in DOMAIN rejected : rejected[k] = latestJob
  /\ stage \in Judged =>
       \A k \in DOMAIN completed : phase[completed[k].id] = "completed" => completed[k].id = latestJob

(* A step that keeps the records and the panel's job.                      *)
LEMMA NewestCalm ==
  ASSUME TypeOK, NewestInv,
         UNCHANGED <<latestJob, submitted>>,
         nextId' \in Nat, nextId' >= nextId,
         rejected' = rejected \/ rejected' = <<>>,
         LiveJobs' \subseteq LiveJobs,
         \A i \in JobIds : (phase'[i] = "none") <=> (phase[i] = "none"),
         (stage \in Judged =>
            \A k \in DOMAIN completed : phase[completed[k].id] = "completed"
                                          => completed[k].id = latestJob)'
  PROVE  NewestInv'
<1>t. latestJob \in 0 .. MaxJobs /\ nextId \in Nat /\ latestJob \in Nat
      /\ (latestJob # 0 => latestJob \in JobIds)
  BY DEF TypeOK, JobTypeOK, JobIds
<1>1. submitted # <<>> => latestJob \in JobIds
  <2>1. submitted \in Seq(Submissions)
    BY DEF TypeOK, JobTypeOK
  <2>2. submitted # <<>> => Head(submitted).id \in JobIds /\ Head(submitted).id \in Ids(submitted)
    BY <2>1, HeadIsJob, IdsTail
  <2> QED
    BY <2>2 DEF NewestInv
<1>2. (latestJob <= nextId)'
  BY <1>t DEF NewestInv
<1>3. (LiveJobs \cup Ids(submitted) \subseteq {latestJob})'
  BY DEF NewestInv
<1>4. (submitted # <<>> => rejected = <<>> /\ phase[latestJob] = "none")'
  BY <1>1 DEF NewestInv
<1>5. (\A i \in JobIds : phase[i] # "none" => i <= latestJob)'
  BY DEF NewestInv
<1>6. (latestJob # 0 => phase[latestJob] # "none" \/ latestJob \in Ids(submitted))'
  BY <1>t DEF NewestInv
<1>7. (\A k \in DOMAIN rejected : rejected[k] = latestJob)'
  <2>1. rejected' = <<>> => DOMAIN rejected' = {}
    OBVIOUS
  <2> QED
    BY <2>1 DEF NewestInv
<1> QED
  BY <1>2, <1>3, <1>4, <1>5, <1>6, <1>7 DEF NewestInv

(* No completed record appears and no completion becomes displayable.      *)
LEMMA JudgedCalm ==
  ASSUME TypeOK, NewestInv,
         UNCHANGED <<latestJob, completed>>,
         \A i \in JobIds : phase'[i] = "completed" => phase[i] = "completed",
         stage' \in Judged => stage \in Judged
  PROVE  (stage \in Judged =>
            \A k \in DOMAIN completed : phase[completed[k].id] = "completed"
                                          => completed[k].id = latestJob)'
<1>1. \A k \in DOMAIN completed : completed[k].id \in JobIds
  BY IdsTyped DEF TypeOK, JobTypeOK
<1> QED
  BY <1>1 DEF NewestInv

LEMMA NewestInput ==
  ASSUME TypeOK, Inv, SoloInv, NewestInv, AcceptInput(TRUE), UNCHANGED latestJob,
         MaxRetainedTerminalJobs # 0
  PROVE  NewestInv'
<1> USE DEF inputQueues, dispatchQueues, feedbackQueues
<1>t. /\ phase \in [JobIds -> Phases] /\ submitted \in Seq(Submissions) /\ nextId \in Nat
      /\ latestJob \in Nat /\ rejected \in Seq(JobIds)
  BY DEF TypeOK, JobTypeOK
<1>1. CASE PruneHistory
  <2>1. phase' = Pruned(MaxRetainedTerminalJobs)
        /\ stage' \notin Judged /\ UNCHANGED <<nextId, submitted, rejected>>
    BY <1>1 DEF PruneHistory, Proceed, Judged
  <2>2. LiveJobs' = LiveJobs
    BY <1>t, <2>1, PrunedLive
  <2>3. \A i \in JobIds : phase'[i] # "none" => phase[i] # "none"
    BY <1>t, <2>1 DEF Pruned
  <2>4. latestJob \notin Stale(MaxRetainedTerminalJobs)
    <3>1. {j \in TerminalJobs : j > latestJob} = {}
      BY <1>t DEF TerminalJobs, Terminal, JobIds, NewestInv
    <3>2. Cardinality({j \in TerminalJobs : j > latestJob}) = 0
      BY <3>1, FS_EmptySet
    <3> QED
      BY <3>2 DEF Stale
  <2>5. latestJob \in JobIds => phase'[latestJob] = phase[latestJob]
    BY <2>1, <2>4 DEF Pruned
  <2>6. latestJob # 0 => latestJob \in JobIds
    BY DEF TypeOK, JobIds
  <2>7. submitted # <<>> => latestJob \in JobIds
    <3>1. submitted # <<>> => Head(submitted).id \in JobIds /\ Head(submitted).id \in Ids(submitted)
      BY <1>t, HeadIsJob, IdsTail
    <3> QED
      BY <3>1 DEF NewestInv
  <2> QED
    BY <2>1, <2>2, <2>3, <2>5, <2>6, <2>7 DEF NewestInv
<1>2. ASSUME NextSubmission
      PROVE  /\ Head(submitted).id = latestJob /\ latestJob \in JobIds
             /\ phase[latestJob] = "none" /\ rejected = <<>>
             /\ submitted' = <<>> /\ stage \notin Judged /\ LiveJobs = {}
  <2>1. submitted # <<>> /\ submitted' = Tail(submitted) /\ stage \notin Judged
    BY <1>2 DEF NextSubmission, Judged
  <2>2. Head(submitted).id \in JobIds /\ Ids(submitted) = {Head(submitted).id} /\ submitted' = <<>>
    BY <1>t, <2>1, HeadIsJob, SingleTail DEF SoloInv
  <2> QED
    BY <2>1, <2>2 DEF NewestInv, SoloInv
<1>3. CASE RejectDuplicate
  BY <1>2, <1>3 DEF RejectDuplicate
<1>4. CASE RejectSubmission(TRUE) \/ AcceptSubmission(TRUE)
  <2>1. NextSubmission /\ UNCHANGED <<stage, nextId>>
    BY <1>4 DEF RejectSubmission, AcceptSubmission
  <2>2. PICK as \in Phases \ {"none"} : phase' = Opened(latestJob, as)
    BY <1>2, <1>4, <2>1 DEF RejectSubmission, AcceptSubmission, Phases, Live, Terminal
  <2>3. LiveJobs' \subseteq {latestJob}
    BY <1>t, <1>2, <2>1, <2>2, OpenedLive
  <2>4. phase'[latestJob] # "none" /\ \A i \in JobIds : phase'[i] # "none" => i <= latestJob
    <3>1. \A i \in JobIds : phase'[i] = IF i = latestJob THEN as ELSE Pruned(MaxRetainedTerminalJobs - 1)[i]
      BY <1>2, <2>1, <2>2 DEF Opened, Pruned
    <3>2. \A i \in JobIds : i # latestJob /\ phase'[i] # "none" => phase[i] # "none"
      BY <3>1 DEF Pruned
    <3>3. latestJob \in JobIds /\ phase'[latestJob] = as
      BY <1>2, <2>1, <3>1
    <3>4. ASSUME NEW i \in JobIds, phase'[i] # "none" PROVE i <= latestJob
      <4>1. CASE i = latestJob
        BY <1>t, <4>1
      <4>2. CASE i # latestJob
        BY <3>2, <3>4, <4>2 DEF NewestInv
      <4> QED
        BY <4>1, <4>2
    <3> QED
      BY <3>3, <3>4
  <2>5. Ids(submitted') = {}
    BY <1>2, <2>1, IdsEmpty
  <2>6. rejected' = rejected \/ rejected' = Append(rejected, latestJob)
    BY <1>2, <1>4, <2>1 DEF RejectSubmission, AcceptSubmission
  <2>7. \A k \in DOMAIN rejected' : rejected'[k] = latestJob
    <3>1. rejected = <<>>
      BY <1>2, <2>1
    <3>2. DOMAIN Append(<<>>, latestJob) = 1 .. 1 /\ Append(<<>>, latestJob)[1] = latestJob
      OBVIOUS
    <3>3. \A k \in 1 .. 1 : k = 1
      OBVIOUS
    <3>4. DOMAIN <<>> = {}
      OBVIOUS
    <3> QED
      BY <2>6, <3>1, <3>2, <3>3, <3>4
  <2> QED
    BY <1>2, <2>1, <2>3, <2>4, <2>5, <2>7 DEF NewestInv
<1>5. CASE SubmissionsDone
  <2>1. UNCHANGED <<nextId, phase, submitted, rejected>> /\ stage' \notin Judged
    BY <1>5 DEF SubmissionsDone, Proceed, Judged
  <2>2. nextId' \in Nat /\ nextId' >= nextId /\ LiveJobs' = LiveJobs
    BY <1>t, <2>1 DEF LiveJobs
  <2> QED
    BY <2>1, <2>2, NewestCalm
<1>6. CASE AcceptCancellations
  <2>1. UNCHANGED <<nextId, submitted, rejected>> /\ stage' \notin Judged
    BY <1>6 DEF AcceptCancellations, Proceed, Judged
  <2>2. LiveJobs' \subseteq LiveJobs /\ \A i \in JobIds : (phase'[i] = "none") <=> (phase[i] = "none")
    BY <1>t, <1>6 DEF AcceptCancellations, LiveJobs, Live
  <2>3. nextId' \in Nat /\ nextId' >= nextId
    BY <1>t, <2>1
  <2> QED
    BY <2>1, <2>2, <2>3, NewestCalm
<1> QED
  BY <1>1, <1>3, <1>4, <1>5, <1>6 DEF AcceptInput

LEMMA NewestFeedback ==
  ASSUME TypeOK, ShownInv, NewestInv, ApplyFeedback, UNCHANGED latestJob
  PROVE  NewestInv'
<1> USE DEF inputQueues, dispatchQueues, feedbackQueues
<1>t. /\ phase \in [JobIds -> Phases] /\ nextId \in Nat /\ completed \in Seq(Outputs)
  BY DEF TypeOK, JobTypeOK
<1>1. UNCHANGED <<nextId, submitted, rejected, completed>>
  BY DEF ApplyFeedback, ApplyProgress, ApplyCompletions, ApplyFailures
<1>2. \A i \in JobIds : Verdict(i) \in Terminal
  BY DEF Verdict, Terminal
<1>3. /\ LiveJobs' \subseteq LiveJobs
      /\ \A i \in JobIds : (phase'[i] = "none") <=> (phase[i] = "none")
  BY <1>t, <1>2 DEF ApplyFeedback, ApplyProgress, ApplyCompletions, ApplyFailures, LiveJobs, Live, Terminal
<1>4. (stage \in Judged =>
        \A k \in DOMAIN completed : phase[completed[k].id] = "completed" => completed[k].id = latestJob)'
  <2>1. CASE ApplyProgress
    BY <2>1 DEF ApplyProgress, Proceed, Judged
  <2>2. CASE ApplyFailures
    <3>1. stage \in Judged /\ \A i \in JobIds : phase'[i] = "completed" => phase[i] = "completed"
      BY <1>t, <2>2 DEF ApplyFailures, Proceed, Judged
    <3> QED
      BY <1>1, <3>1, JudgedCalm
  <2>3. CASE ApplyCompletions
    <3>1. stage \in Reporting
      BY <2>3 DEF ApplyCompletions, Proceed, Reporting
    <3>2. ASSUME NEW k \in DOMAIN completed, phase'[completed[k].id] = "completed"
          PROVE  completed[k].id = latestJob
      <4>1. completed[k].id \in JobIds /\ completed[k].id \in Ids(completed)
        BY <1>t, IdsTyped
      <4>2. phase[completed[k].id] # "completed"
        BY <3>1, <4>1 DEF ShownInv
      <4>3. completed[k].id \in LiveJobs
        BY <1>t, <2>3, <3>2, <4>1, <4>2 DEF ApplyCompletions
      <4> QED
        BY <4>3 DEF NewestInv
    <3> QED
      BY <1>1, <3>2
  <2> QED
    BY <2>1, <2>2, <2>3 DEF ApplyFeedback
<1>5. nextId' \in Nat /\ nextId' >= nextId
  BY <1>t, <1>1
<1> QED
  BY <1>1, <1>3, <1>4, <1>5, NewestCalm

(* Whatever the panel reads, it goes on following the same job.            *)
LEMMA LatestCaptured ==
  ASSUME TypeOK, NewestInv, CaptureRejections
  PROVE  latestJob' = latestJob
<1>1. rejected \in Seq(JobIds)
  BY DEF TypeOK, JobTypeOK
<1>2. rejected # <<>> => Len(rejected) # 0 /\ Len(rejected) \in Nat
  BY <1>1, EmptySeq, LenProperties
<1>3. rejected # <<>> => Len(rejected) \in DOMAIN rejected
  BY <1>1, <1>2
<1> QED
  BY <1>3 DEF CaptureRejections, NewestInv

LEMMA LatestShown ==
  ASSUME TypeOK, NewestInv, ShowOutput
  PROVE  latestJob' = latestJob
<1>1. stage \in Judged /\ completed \in Seq(Outputs) /\ completed # <<>>
  BY DEF ShowOutput, TypeOK, JobTypeOK, Judged
<1>2. Head(completed) = completed[1] /\ 1 \in DOMAIN completed
  BY <1>1
<1>3. phase[Head(completed).id] = "completed" => Head(completed).id = latestJob
  BY <1>1, <1>2 DEF NewestInv
<1> QED
  BY <1>3 DEF ShowOutput, panelVars

LEMMA NewestPanel ==
  ASSUME TypeOK, TypeOK', SoloInv, NewestInv, PanelStep, ~ DoubleClicks
  PROVE  NewestInv'
<1> USE DEF inputQueues, dispatchQueues, feedbackQueues, panelVars
<1>t. /\ phase \in [JobIds -> Phases] /\ nextId \in Nat /\ latestJob \in Nat
      /\ submitted \in Seq(Submissions) /\ rejected \in Seq(JobIds)
  BY DEF TypeOK, JobTypeOK
<1>1. UNCHANGED <<phase, completed>> /\ stage' \notin Judged
  BY DEF PanelStep, PressRun, PressRunUnformed, PressCancel, NoPress, CaptureRejections,
         Submit, Cancel, Proceed, Judged
<1>2. LiveJobs' = LiveJobs
  BY <1>1 DEF LiveJobs
<1>3. CASE PressRun
  <2>1. PICK r \in Requests : Submit(r)
    BY <1>3 DEF PressRun
  <2>2. /\ submitted = <<>> /\ LiveJobs = {} /\ rejected = <<>>
        /\ latestJob' = nextId' /\ nextId' = nextId + 1 /\ UNCHANGED rejected
        /\ submitted' = Append(submitted, [id |-> nextId', request |-> r])
    BY <1>3, <2>1 DEF PressRun, Proceed, CanRun, SoloInv, Unread, Submit, ReserveId
  <2>3. nextId' \in JobIds
    BY <1>t, <2>1, <2>2 DEF TypeOK, JobTypeOK, JobIds
  <2>4. PICK m \in Submissions : m.id = nextId' /\ submitted' = Append(submitted, m)
    <3>1. /\ [id |-> nextId', request |-> r] \in Submissions
          /\ [id |-> nextId', request |-> r].id = nextId'
      BY <2>3 DEF Submissions
    <3> QED
      BY <2>2, <3>1
  <2>5. Ids(submitted') = Ids(submitted) \cup {m.id}
    BY <1>t, <2>4, IdsAppend
  <2>6. Ids(submitted') = {latestJob'}
    BY <2>2, <2>4, <2>5, IdsEmpty
  <2>7. \A i \in JobIds : phase[i] # "none" => i < latestJob'
    BY <1>t, <2>2 DEF NewestInv, JobIds
  <2>8. phase[latestJob'] = "none"
    <3>1. ~ (latestJob' < latestJob') /\ latestJob' \in JobIds
      BY <1>t, <2>2, <2>3
    <3> QED
      BY <2>7, <3>1
  <2>9. \A i \in JobIds : phase[i] # "none" => i <= latestJob'
    BY <1>t, <2>2, <2>7 DEF JobIds
  <2>10. latestJob' <= nextId' /\ DOMAIN rejected' = {}
    BY <1>t, <2>2
  <2> QED
    BY <1>1, <1>2, <2>2, <2>6, <2>8, <2>9, <2>10 DEF NewestInv
<1>4. CASE PressRunUnformed \/ PressCancel \/ NoPress \/ CaptureRejections
  <2>1. submitted' = submitted /\ nextId' \in Nat /\ nextId' >= nextId
    BY <1>t, <1>4 DEF PressRunUnformed, PressCancel, NoPress, CaptureRejections, Cancel, ReserveId
  <2>2. rejected' = rejected \/ rejected' = <<>>
    BY <1>4 DEF PressRunUnformed, PressCancel, NoPress, CaptureRejections, Cancel, ReserveId
  <2>3. latestJob' = latestJob
    BY <1>4, LatestCaptured DEF PressRunUnformed, PressCancel, NoPress
  <2> QED
    BY <1>1, <1>2, <2>1, <2>2, <2>3, NewestCalm
<1> QED
  BY <1>3, <1>4 DEF PanelStep

LEMMA NewestShow ==
  ASSUME TypeOK, NewestInv, ShowOutput
  PROVE  NewestInv'
<1>1. /\ stage \in Judged /\ stage' = stage /\ completed # <<>>
      /\ completed' = Tail(completed) /\ completed \in Seq(Outputs) /\ nextId \in Nat
      /\ UNCHANGED <<phase, nextId, submitted, rejected>>
  BY DEF ShowOutput, dispatchQueues, inputQueues, TypeOK, JobTypeOK, Judged
<1>2. /\ Len(completed) \in Nat \ {0} /\ DOMAIN completed = 1 .. Len(completed)
      /\ DOMAIN Tail(completed) = 1 .. (Len(completed) - 1)
      /\ \A k \in 1 .. (Len(completed) - 1) : Tail(completed)[k] = completed[k + 1]
  BY <1>1
<1>3. \A k \in DOMAIN completed' : \E l \in DOMAIN completed : completed'[k] = completed[l]
  <2> SUFFICES ASSUME NEW k \in 1 .. (Len(completed) - 1)
               PROVE  \E l \in DOMAIN completed : Tail(completed)[k] = completed[l]
    BY <1>1, <1>2
  <2>1. k + 1 \in DOMAIN completed
    BY <1>2
  <2> QED
    BY <1>2, <2>1
<1>4. \A k \in DOMAIN completed : phase[completed[k].id] = "completed" => completed[k].id = latestJob
  BY <1>1 DEF NewestInv
<1>6. latestJob' = latestJob
  BY LatestShown
<1>7. (\A k \in DOMAIN completed : phase[completed[k].id] = "completed" => completed[k].id = latestJob)'
  BY <1>1, <1>3, <1>4, <1>6
<1>8. LiveJobs' = LiveJobs /\ nextId' \in Nat /\ nextId' >= nextId
  BY <1>1 DEF LiveJobs
<1> QED
  BY <1>1, <1>6, <1>7, <1>8, NewestCalm

LEMMA NewestStep ==
  ASSUME TypeOK, TypeOK', Inv, ShownInv, SoloInv, NewestInv, [Next]_vars, PanelAlone
  PROVE  NewestInv'
<1>1. CASE \/ BeginFrame \/ RunnerSubmit \/ RunnerSubmitDone \/ RunnerCancel \/ RunnerEvent
           \/ PollDone \/ EndFrame \/ UNCHANGED vars
  <2> USE DEF dispatchQueues, feedbackQueues, inputQueues, panelVars
  <2>1. UNCHANGED <<phase, nextId, submitted, rejected, latestJob>>
    BY <1>1 DEF BeginFrame, RunnerSubmit, RunnerSubmitDone, RunnerCancel, RunnerEvent, PollDone,
       EndFrame, vars, jobVars
  <2>2. stage' \in Judged => stage \in Judged /\ UNCHANGED completed
    BY <1>1 DEF BeginFrame, RunnerSubmit, RunnerSubmitDone, RunnerCancel, RunnerEvent, PollDone,
       EndFrame, vars, jobVars, Proceed, Judged
  <2>3. (stage \in Judged =>
          \A k \in DOMAIN completed : phase[completed[k].id] = "completed"
                                        => completed[k].id = latestJob)'
    BY <2>1, <2>2 DEF NewestInv
  <2>4. LiveJobs' = LiveJobs /\ nextId' \in Nat /\ nextId' >= nextId
    BY <2>1 DEF LiveJobs, TypeOK, JobTypeOK
  <2> QED
    BY <2>1, <2>3, <2>4, NewestCalm
<1>2. CASE TableStep
  BY <1>2, NewestInput, NewestFeedback DEF TableStep, panelVars, PanelAlone
<1>3. ~ HostStep
  BY DEF HostStep, PanelAlone
<1> QED
  BY <1>1, <1>2, <1>3, NewestPanel, NewestShow DEF Next, PanelAlone

LEMMA NewestInit == Init => NewestInv
<1> SUFFICES ASSUME Init PROVE NewestInv
  OBVIOUS
<1>1. LiveJobs = {} /\ Ids(submitted) = {} /\ DOMAIN rejected = {}
  BY IdsEmpty DEF Init, JobInit, LiveJobs, Live
<1> QED
  BY <1>1 DEF Init, JobInit, NewestInv, Judged

(* The panel is never stuck: once nothing is live or on its way, Run is    *)
(* available, since its latest job has a record for as long as it is the   *)
(* newest, however old records are pruned.                                 *)
THEOREM RunIsAvailable == PanelAlone => (Spec => []RunComesBack)
<1> SUFFICES ASSUME PanelAlone PROVE Spec => []RunComesBack
  OBVIOUS
<1>1. TypeOK /\ SoloInv /\ [Next]_vars => SoloInv'
  BY SoloStep DEF PanelAlone
<1>2. UsesApart /\ (TypeOK /\ UsesInv /\ Inv /\ ShownInv /\ [Next]_vars => ShownInv')
  BY ShownStep DEF PanelAlone, UsesApart, UsesInv
<1>3. TypeOK /\ TypeOK' /\ Inv /\ ShownInv /\ SoloInv /\ NewestInv /\ [Next]_vars => NewestInv'
  BY NewestStep
<1>4. NewestInv => RunComesBack
  BY IdsEmpty DEF NewestInv, RunComesBack, CanRun, HasPendingSubmission
<1> QED
  BY <1>1, <1>2, <1>3, <1>4, SoloInit, ShownInit, NewestInit, TypeCorrect, UsesHold, InvHolds, PTL
     DEF Spec

(* With one settled record retained, which is the code's constant          *)
(* (jobs.rs:12), the panel's job has the only record once its submission   *)
(* has been read, and a completed record is displayed, reported as beyond  *)
(* display, or about to be either.                                         *)
FreshInv ==
  /\ submitted = <<>> => \A i \in JobIds : phase[i] # "none" => i = latestJob
  /\ \A i \in JobIds : phase[i] = "completed" =>
       i \in Ids(shown) \cup undisplayed \/ (stage \in Judged /\ i \in Ids(completed))

(* A step that opens no record, completes none and displays nothing.       *)
LEMMA FreshCalm ==
  ASSUME FreshInv, UNCHANGED displayVars,
         \A i \in JobIds : /\ phase'[i] # "none" => phase[i] # "none"
                           /\ phase'[i] = "completed" => phase[i] = "completed",
         submitted' # <<>> \/ UNCHANGED <<submitted, latestJob>>,
         stage \in Judged => completed = <<>> \/ (stage' \in Judged /\ UNCHANGED completed)
  PROVE  FreshInv'
<1>1. completed = <<>> => Ids(completed) = {}
  BY IdsEmpty
<1>2. (submitted = <<>> => \A i \in JobIds : phase[i] # "none" => i = latestJob)'
  BY DEF FreshInv
<1>3. (\A i \in JobIds : phase[i] = "completed" =>
         i \in Ids(shown) \cup undisplayed \/ (stage \in Judged /\ i \in Ids(completed)))'
  BY <1>1 DEF FreshInv, displayVars
<1> QED
  BY <1>2, <1>3 DEF FreshInv

LEMMA FreshOpened ==
  ASSUME TypeOK, SoloInv, NewestInv, FreshInv, MaxRetainedTerminalJobs = 1,
         RejectSubmission(TRUE) \/ AcceptSubmission(TRUE), UNCHANGED latestJob
  PROVE  (\A i \in JobIds : phase[i] # "none" => i = latestJob /\ phase[i] # "completed")'
<1>1. NextSubmission /\ submitted \in Seq(Submissions) /\ phase \in [JobIds -> Phases]
  BY DEF RejectSubmission, AcceptSubmission, TypeOK, JobTypeOK
<1>2. /\ Head(submitted).id \in JobIds /\ Ids(submitted) = {Head(submitted).id}
      /\ LiveJobs = {} /\ submitted # <<>>
  BY <1>1, HeadIsJob, SingleTail DEF SoloInv, NextSubmission
<1>3. Head(submitted).id = latestJob /\ latestJob \in JobIds
  BY <1>2 DEF NewestInv
<1>4. PICK as \in {"failed", "queued"} : phase' = Opened(latestJob, as)
  BY <1>3 DEF RejectSubmission, AcceptSubmission
<1>5. \A i \in TerminalJobs : i \in Stale(0)
  BY NewerCounted DEF Stale, Newer
<1>6. \A i \in JobIds : phase'[i] = IF i = latestJob THEN as
                                    ELSE IF i \in Stale(0) THEN "none" ELSE phase[i]
  <2>1. (IF MaxRetainedTerminalJobs = 0 THEN 0 ELSE MaxRetainedTerminalJobs - 1) = 0
    OBVIOUS
  <2> QED
    BY <1>3, <1>4, <2>1 DEF Opened, Pruned
<1>7. \A i \in JobIds : phase[i] = "none" \/ i \in TerminalJobs
  BY <1>1, <1>2 DEF LiveJobs, TerminalJobs, Phases
<1> QED
  BY <1>5, <1>6, <1>7

LEMMA FreshTable ==
  ASSUME TypeOK, SoloInv, NewestInv, FreshInv, TableStep, MaxRetainedTerminalJobs = 1
  PROVE  FreshInv'
<1> USE DEF inputQueues, dispatchQueues, feedbackQueues
<1>1. phase \in [JobIds -> Phases] /\ UNCHANGED <<displayVars, latestJob>>
  BY DEF TypeOK, JobTypeOK, TableStep, panelVars
<1>2. CASE PruneHistory
  BY <1>1, <1>2, FreshCalm DEF PruneHistory, Pruned, Proceed, Judged
<1>3. CASE SubmissionsDone
  BY <1>1, <1>3, FreshCalm DEF SubmissionsDone, Proceed, Judged
<1>4. CASE AcceptCancellations
  BY <1>1, <1>4, FreshCalm DEF AcceptCancellations, LiveJobs, Live, Proceed, Judged
<1>5. CASE ApplyProgress
  BY <1>1, <1>5, FreshCalm DEF ApplyProgress, LiveJobs, Live, Proceed, Judged
<1>6. CASE ApplyFailures
  <2>1. stage' \in Judged /\ UNCHANGED <<completed, submitted>>
    BY <1>6 DEF ApplyFailures, Proceed, Judged
  <2>2. \A i \in JobIds : /\ phase'[i] # "none" => phase[i] # "none"
                          /\ phase'[i] = "completed" => phase[i] = "completed"
    BY <1>1, <1>6 DEF ApplyFailures, LiveJobs, Live
  <2> QED
    BY <1>1, <2>1, <2>2, FreshCalm
<1>7. CASE ApplyCompletions
  <2>1. stage \notin Judged /\ stage' \in Judged /\ UNCHANGED <<completed, submitted>>
    BY <1>7 DEF ApplyCompletions, Proceed, Judged
  <2>2. \A i \in JobIds : CompletionsFor(i) # {} => i \in Ids(completed)
    BY DEF CompletionsFor, Ids
  <2>3. \A i \in JobIds : /\ phase'[i] # "none" => phase[i] # "none"
                          /\ phase'[i] = "completed" => phase[i] = "completed" \/ i \in Ids(completed)
    BY <1>1, <1>7, <2>2 DEF ApplyCompletions, LiveJobs, Live
  <2> QED
    BY <1>1, <2>1, <2>3 DEF FreshInv, displayVars
<1>8. CASE RejectDuplicate
  <2>1. NextSubmission /\ submitted \in Seq(Submissions)
    BY <1>8 DEF RejectDuplicate, TypeOK, JobTypeOK
  <2>2. Ids(submitted) = {Head(submitted).id} /\ submitted # <<>>
    BY <2>1, SingleTail DEF SoloInv, NextSubmission
  <2>3. Head(submitted).id = latestJob
    BY <2>2 DEF NewestInv
  <2> QED
    BY <1>8, <2>2, <2>3 DEF RejectDuplicate, NewestInv
<1>9. CASE RejectSubmission(TRUE) \/ AcceptSubmission(TRUE)
  BY <1>1, <1>9, FreshOpened DEF FreshInv, displayVars
<1> QED
  BY <1>2, <1>3, <1>4, <1>5, <1>6, <1>7, <1>8, <1>9 DEF TableStep, AcceptInput, ApplyFeedback

LEMMA FreshShow ==
  ASSUME TypeOK, SoloInv, NewestInv, FreshInv, ShowOutput
  PROVE  FreshInv'
<1> DEFINE o == Head(completed)
<1>1. /\ stage \in Judged /\ stage' \in Judged /\ completed # <<>> /\ submitted = <<>>
      /\ completed' = Tail(completed) /\ completed \in Seq(Outputs) /\ shown \in Seq(Outputs)
      /\ UNCHANGED <<phase, submitted>>
  BY DEF ShowOutput, inputQueues, TypeOK, JobTypeOK, SoloInv, Unread, Judged
<1>2. latestJob' = latestJob
  BY LatestShown
<1>3. o \in Outputs /\ Ids(completed) = Ids(completed') \cup {o.id}
  BY <1>1, IdsTail
<1>4. \/ phase[o.id] = "completed" /\ shown' = Inserted(o)
      \/ phase[o.id] = "completed" /\ undisplayed' = undisplayed \cup {o.id}
      \/ phase[o.id] # "completed" /\ UNCHANGED displayVars
  BY DEF ShowOutput
<1>5. \E k \in DOMAIN Inserted(o) : Inserted(o)[k] = o
  BY <1>1, <1>3, InsertedFrom
<1>6. o.id \in JobIds /\ o.id \in Ids(Inserted(o))
  BY <1>3, <1>5 DEF Ids, Outputs
<1> HIDE DEF o
<1>7. (submitted = <<>> => \A i \in JobIds : phase[i] # "none" => i = latestJob)'
  BY <1>1, <1>2 DEF FreshInv
<1>8. ASSUME NEW i \in JobIds, phase[i] = "completed"
      PROVE  i \in Ids(shown') \cup undisplayed' \/ i \in Ids(completed')
  <2>1. CASE phase[o.id] = "completed"
    <3>1. i = o.id
      BY <1>1, <1>6, <1>8, <2>1 DEF FreshInv
    <3> QED
      BY <1>4, <1>6, <2>1, <3>1
  <2>2. CASE phase[o.id] # "completed"
    BY <1>3, <1>4, <1>8, <2>2 DEF FreshInv, displayVars
  <2> QED
    BY <2>1, <2>2
<1> QED
  BY <1>1, <1>7, <1>8 DEF FreshInv

LEMMA FreshStep ==
  ASSUME TypeOK, SoloInv, NewestInv, FreshInv, [Next]_vars, PanelAlone, MaxRetainedTerminalJobs = 1
  PROVE  FreshInv'
<1> USE DEF inputQueues, dispatchQueues, feedbackQueues, panelVars
<1>1. CASE PressRun
  <2>1. PICK r \in Requests : Submit(r)
    BY <1>1 DEF PressRun
  <2>2. UNCHANGED <<phase, displayVars>> /\ stage \notin Judged
    BY <1>1, <2>1 DEF PressRun, Submit, Proceed, Judged
  <2>3. submitted' # <<>>
    <3>1. submitted \in Seq(Submissions) /\ submitted' = Append(submitted, [id |-> nextId', request |-> r])
      BY <2>1 DEF Submit, TypeOK, JobTypeOK
    <3>2. [id |-> nextId', request |-> r] \in Submissions
      <4>1. nextId' \in JobIds
        BY <2>1 DEF Submit, ReserveId, TypeOK, JobTypeOK, JobIds
      <4> QED
        BY <4>1 DEF Submissions
    <3>3. Len(submitted') = Len(submitted) + 1 /\ Len(submitted) \in Nat
      BY <3>1, <3>2, AppendProperties
    <3>4. Len(submitted') # 0
      BY <3>3
    <3> QED
      BY <3>4
  <2> QED
    BY <2>2, <2>3, FreshCalm
<1>2. CASE PressRunUnformed \/ PressCancel \/ NoPress \/ CaptureRejections
  <2>1. UNCHANGED <<phase, displayVars, submitted>> /\ stage \notin Judged
    BY <1>2 DEF PressRunUnformed, PressCancel, NoPress, CaptureRejections, ReserveId, Cancel, Proceed, Judged
  <2>2. latestJob' = latestJob
    BY <1>2, LatestCaptured DEF PressRunUnformed, PressCancel, NoPress
  <2> QED
    BY <2>1, <2>2, FreshCalm
<1>3. CASE \/ BeginFrame \/ RunnerSubmit \/ RunnerSubmitDone \/ RunnerCancel \/ RunnerEvent
           \/ PollDone \/ EndFrame \/ UNCHANGED vars
  <2>1. UNCHANGED <<phase, submitted, latestJob, displayVars>>
    BY <1>3 DEF BeginFrame, RunnerSubmit, RunnerSubmitDone, RunnerCancel, RunnerEvent, PollDone,
       EndFrame, vars, jobVars
  <2>2. stage \in Judged => completed = <<>> \/ (stage' \in Judged /\ UNCHANGED completed)
    BY <1>3 DEF BeginFrame, RunnerSubmit, RunnerSubmitDone, RunnerCancel, RunnerEvent, PollDone,
       EndFrame, vars, jobVars, Proceed, Judged
  <2> QED
    BY <2>1, <2>2, FreshCalm
<1>4. ~ HostStep
  BY DEF HostStep, PanelAlone
<1> QED
  BY <1>1, <1>2, <1>3, <1>4, FreshTable, FreshShow DEF Next, PanelStep

(* At the end of a frame table and display agree: a completed record that  *)
(* is still retained has its output on display, unless making an image of  *)
(* it failed, which a message has then said.                               *)
THEOREM CompletedShown ==
  PanelAlone /\ MaxRetainedTerminalJobs = 1 => (Spec => []CompletedIsShown)
<1> SUFFICES ASSUME PanelAlone, MaxRetainedTerminalJobs = 1 PROVE Spec => []CompletedIsShown
  OBVIOUS
<1>1. TypeOK /\ SoloInv /\ [Next]_vars => SoloInv'
  BY SoloStep DEF PanelAlone
<1>2. UsesApart /\ (TypeOK /\ UsesInv /\ Inv /\ ShownInv /\ [Next]_vars => ShownInv')
  BY ShownStep DEF PanelAlone, UsesApart, UsesInv
<1>3. TypeOK /\ TypeOK' /\ Inv /\ ShownInv /\ SoloInv /\ NewestInv /\ [Next]_vars => NewestInv'
  BY NewestStep
<1>4. TypeOK /\ SoloInv /\ NewestInv /\ FreshInv /\ [Next]_vars => FreshInv'
  BY FreshStep
<1>5. Init => FreshInv
  BY DEF Init, JobInit, FreshInv
<1>6. FreshInv => CompletedIsShown
  BY DEF FreshInv, CompletedIsShown, Ids, Judged
<1> QED
  BY <1>1, <1>2, <1>3, <1>4, <1>5, <1>6, SoloInit, ShownInit, NewestInit, TypeCorrect, UsesHold, InvHolds,
     PTL DEF Spec
=============================================================================
