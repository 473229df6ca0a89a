-------------------------- MODULE ImageJobs_proofs --------------------------
(***************************************************************************)
(* Lemmas about the job table, for every composition of it: typing, the    *)
(* ids some messages are about, pruning, and what a system of the table    *)
(* does to the records.                                                    *)
(***************************************************************************)
EXTENDS ImageJobs, SequenceTheorems, FiniteSetTheorems, TLAPS

USE JobsAssumption

(* Pruning and opening keep the table a table.                             *)
LEMMA OpenedTyped ==
  ASSUME phase \in [JobIds -> Phases], NEW id \in JobIds, NEW as \in Phases
  PROVE  Opened(id, as) \in [JobIds -> Phases]
BY DEF Opened, Pruned, Phases

LEMMA VerdictTyped ==
  ASSUME NEW id \in JobIds
  PROVE  Verdict(id) \in Phases
BY DEF Verdict, Phases, Live, Terminal

-----------------------------------------------------------------------------
(* Type correctness of the steps of hosts and table                        *)

LEMMA HostTyped ==
  ASSUME JobTypeOK,
         \/ \E r \in Requests : Submit(r)
         \/ \E i \in JobIds, r \in Requests : Resubmit(i, r)
         \/ \E i \in JobIds : Cancel(i)
  PROVE  JobTypeOK'
<1>1. CASE \E r \in Requests : Submit(r)
  <2> PICK r \in Requests : Submit(r)
    BY <1>1
  <2>1. nextId' \in 1 .. MaxJobs
    BY DEF Submit, ReserveId, JobTypeOK
  <2>2. [id |-> nextId', request |-> r] \in Submissions
    BY <2>1 DEF Submissions, JobIds
  <2> QED
    BY <2>1, <2>2 DEF Submit, JobTypeOK, inputQueues, dispatchQueues, feedbackQueues
<1>2. CASE \E i \in JobIds, r \in Requests : Resubmit(i, r)
  BY <1>2 DEF Resubmit, Submissions, JobTypeOK, inputQueues, dispatchQueues, feedbackQueues
<1>3. CASE \E i \in JobIds : Cancel(i)
  BY <1>3 DEF Cancel, JobTypeOK, inputQueues, dispatchQueues, feedbackQueues
<1> QED
  BY <1>1, <1>2, <1>3

LEMMA InputTyped ==
  ASSUME JobTypeOK, NEW available \in BOOLEAN, AcceptInput(available)
  PROVE  JobTypeOK' /\ stage' \in {stage, "submissions", "cancellations", "dispatch"}
<1> USE DEF inputQueues, dispatchQueues, feedbackQueues, JobTypeOK, Proceed
<1>1. CASE PruneHistory
  BY <1>1 DEF PruneHistory, Pruned, Phases
<1>2. ASSUME NextSubmission
      PROVE  /\ submitted' \in Seq(Submissions)
             /\ Head(submitted) \in Submissions
             /\ Head(submitted).id \in JobIds
  <2>1. submitted' \in Seq(Submissions) /\ Head(submitted) \in Submissions
    BY <1>2 DEF NextSubmission
  <2> QED
    BY <2>1 DEF Submissions
<1>3. CASE RejectDuplicate
  BY <1>2, <1>3 DEF RejectDuplicate
<1>4. CASE RejectSubmission(available)
  <2>1. phase' \in [JobIds -> Phases]
    BY <1>2, <1>4, OpenedTyped DEF RejectSubmission, Phases, Terminal
  <2> QED
    BY <1>2, <1>4, <2>1 DEF RejectSubmission
<1>5. CASE AcceptSubmission(available)
  <2>1. phase' \in [JobIds -> Phases]
    BY <1>2, <1>5, OpenedTyped DEF AcceptSubmission, Phases, Live
  <2> QED
    BY <1>2, <1>5, <2>1 DEF AcceptSubmission
<1>6. CASE SubmissionsDone
  BY <1>6 DEF SubmissionsDone
<1>7. CASE AcceptCancellations
  BY <1>7 DEF AcceptCancellations, Phases, Terminal, LiveJobs
<1> QED
  BY <1>1, <1>3, <1>4, <1>5, <1>6, <1>7 DEF AcceptInput

LEMMA FeedbackTyped ==
  ASSUME JobTypeOK, ApplyFeedback
  PROVE  JobTypeOK' /\ stage' \in {"completions", "failures", "display"}
<1> USE DEF inputQueues, dispatchQueues, feedbackQueues, JobTypeOK, Proceed
<1>1. CASE ApplyProgress
  BY <1>1 DEF ApplyProgress, Phases, Live
<1>2. CASE ApplyCompletions
  BY <1>2, VerdictTyped DEF ApplyCompletions
<1>3. CASE ApplyFailures
  BY <1>3 DEF ApplyFailures, Phases, Terminal
<1> QED
  BY <1>1, <1>2, <1>3 DEF ApplyFeedback

-----------------------------------------------------------------------------
(* The ids of a queue                                                      *)

LEMMA IdsEmpty == Ids(<<>>) = {}
BY DEF Ids

LEMMA HeadIsJob ==
  ASSUME NEW s \in Seq(Submissions), s # <<>>
  PROVE  Head(s) \in Submissions /\ Head(s).id \in JobIds /\ Tail(s) \in Seq(Submissions)
<1>1. Head(s) \in Submissions /\ Tail(s) \in Seq(Submissions)
  OBVIOUS
<1> QED
  BY <1>1 DEF Submissions

LEMMA IdsAppend ==
  ASSUME NEW S, NEW s \in Seq(S), NEW m \in S
  PROVE  Ids(Append(s, m)) = Ids(s) \cup {m.id}
<1>1. /\ Len(Append(s, m)) = Len(s) + 1 /\ Append(s, m) \in Seq(S) /\ Len(s) \in Nat
      /\ Append(s, m)[Len(s) + 1] = m
      /\ \A k \in 1 .. Len(s) : Append(s, m)[k] = s[k]
  OBVIOUS
<1>2. DOMAIN Append(s, m) = 1 .. (Len(s) + 1) /\ DOMAIN s = 1 .. Len(s)
  BY <1>1
<1> QED
  BY <1>1, <1>2 DEF Ids

LEMMA IdsTail ==
  ASSUME NEW S, NEW s \in Seq(S), s # <<>>
  PROVE  Ids(s) = Ids(Tail(s)) \cup {Head(s).id}
<1>1. /\ Len(Tail(s)) = Len(s) - 1 /\ Tail(s) \in Seq(S) /\ Len(s) \in Nat \ {0}
      /\ Head(s) = s[1]
      /\ \A k \in 1 .. (Len(s) - 1) : Tail(s)[k] = s[k + 1]
  OBVIOUS
<1>2. DOMAIN Tail(s) = 1 .. (Len(s) - 1) /\ DOMAIN s = 1 .. Len(s)
  BY <1>1
<1>3. Ids(s) \subseteq Ids(Tail(s)) \cup {Head(s).id}
  <2> SUFFICES ASSUME NEW i \in Ids(s) PROVE i \in Ids(Tail(s)) \cup {Head(s).id}
    OBVIOUS
  <2> PICK k \in 1 .. Len(s) : i = s[k].id
    BY <1>2 DEF Ids
  <2>1. CASE k = 1
    BY <1>1, <2>1
  <2>2. CASE k # 1
    <3>1. k - 1 \in 1 .. (Len(s) - 1) /\ Tail(s)[k - 1] = s[k]
      BY <1>1, <2>2
    <3> QED
      BY <1>2, <3>1 DEF Ids
  <2> QED
    BY <2>1, <2>2
<1>4. Ids(Tail(s)) \cup {Head(s).id} \subseteq Ids(s)
  <2>1. Head(s).id \in Ids(s)
    BY <1>1, <1>2 DEF Ids
  <2>2. ASSUME NEW i \in Ids(Tail(s)) PROVE i \in Ids(s)
    <3> PICK k \in 1 .. (Len(s) - 1) : i = Tail(s)[k].id
      BY <1>2 DEF Ids
    <3>1. k + 1 \in 1 .. Len(s) /\ i = s[k + 1].id
      BY <1>1
    <3> QED
      BY <1>2, <3>1 DEF Ids
  <2> QED
    BY <2>1, <2>2
<1> QED
  BY <1>3, <1>4

(* Queues with one message for a job, when one is added or taken.          *)
LEMMA OnceAppend ==
  ASSUME NEW S, NEW s \in Seq(S), NEW m \in S, OncePerJob(s), m.id \notin Ids(s)
  PROVE  OncePerJob(Append(s, m))
<1>1. /\ DOMAIN Append(s, m) = 1 .. (Len(s) + 1) /\ Len(s) \in Nat
      /\ DOMAIN s = 1 .. Len(s)
      /\ Append(s, m)[Len(s) + 1] = m
      /\ \A k \in 1 .. Len(s) : Append(s, m)[k] = s[k]
  OBVIOUS
<1>2. \A k \in 1 .. Len(s) : s[k].id # m.id
  BY <1>1 DEF Ids
<1> QED
  BY <1>1, <1>2 DEF OncePerJob

LEMMA OnceTail ==
  ASSUME NEW S, NEW s \in Seq(S), s # <<>>, OncePerJob(s)
  PROVE  OncePerJob(Tail(s)) /\ Head(s).id \notin Ids(Tail(s))
<1>1. /\ Len(s) \in Nat \ {0} /\ DOMAIN s = 1 .. Len(s)
      /\ DOMAIN Tail(s) = 1 .. (Len(s) - 1)
      /\ \A k \in 1 .. (Len(s) - 1) : Tail(s)[k] = s[k + 1]
      /\ Head(s) = s[1]
  OBVIOUS
<1>2. ASSUME NEW k \in DOMAIN Tail(s) PROVE Tail(s)[k].id # Head(s).id
  <2>1. k + 1 \in DOMAIN s /\ 1 \in DOMAIN s /\ k + 1 # 1
    BY <1>1
  <2> QED
    BY <1>1, <2>1 DEF OncePerJob
<1>3. ASSUME NEW k \in DOMAIN Tail(s), NEW l \in DOMAIN Tail(s), k # l
      PROVE  Tail(s)[k].id # Tail(s)[l].id
  <2>1. k + 1 \in DOMAIN s /\ l + 1 \in DOMAIN s /\ k + 1 # l + 1
    BY <1>1, <1>3
  <2>2. Tail(s)[k] = s[k + 1] /\ Tail(s)[l] = s[l + 1]
    BY <1>1
  <2> QED
    BY <2>1, <2>2 DEF OncePerJob
<1> QED
  BY <1>2, <1>3 DEF OncePerJob, Ids

-----------------------------------------------------------------------------
(* The records that a step leaves live                                     *)

(* Opening a record, after pruning, leaves every other live record alone.  *)
LEMMA OpenedLive ==
  ASSUME phase \in [JobIds -> Phases], NEW id \in JobIds, phase[id] = "none",
         NEW as \in Phases, phase' = Opened(id, as)
  PROVE  LiveJobs' = LiveJobs \cup (IF as \in Live THEN {id} ELSE {})
<1>1. \A i \in JobIds : phase'[i] = IF i = id THEN as
                                    ELSE IF i \in TerminalJobs /\ phase'[i] = "none" THEN "none"
                                    ELSE phase[i]
  BY DEF Opened, Pruned, Stale
<1> QED
  BY <1>1 DEF LiveJobs, TerminalJobs, Live, Terminal

LEMMA PrunedLive ==
  ASSUME phase \in [JobIds -> Phases], phase' = Pruned(MaxRetainedTerminalJobs)
  PROVE  LiveJobs' = LiveJobs
BY DEF Pruned, Stale, LiveJobs, TerminalJobs, Live, Terminal

-----------------------------------------------------------------------------
(* A step of the table does to the records what JobLifecycle allows        *)

LEMMA Promise ==
  ASSUME phase' \in [JobIds -> Phases],
         \A i \in JobIds : Lifecycle!Forward(phase[i], phase'[i]),
         \A i, j \in JobIds : phase[i] = "none" /\ phase'[i] # "none" /\
                            phase[j] = "none" /\ phase'[j] # "none" => i = j
  PROVE  Lifecycle!Next
BY DEF Lifecycle!Next, Lifecycle!Opened, Lifecycle!Phases, Lifecycle!Live, Lifecycle!Terminal,
       Phases, Live, Terminal

(* A submission opens its own record and prunes settled ones.              *)
LEMMA OpenedForward ==
  ASSUME phase \in [JobIds -> Phases], NEW id \in JobIds, phase[id] = "none",
         NEW as \in {"queued", "failed"}, phase' = Opened(id, as)
  PROVE  Lifecycle!Next
<1>1. as \in Phases
  BY DEF Phases, Live, Terminal
<1>2. phase' \in [JobIds -> Phases]
  BY <1>1, OpenedTyped
<1>3. \A i \in JobIds :
        \/ i = id /\ phase'[i] = as
        \/ phase[i] \in Terminal /\ phase'[i] = "none"
        \/ i # id /\ phase'[i] = phase[i]
  BY DEF Opened, Pruned, Stale, TerminalJobs
<1>4. \A i \in JobIds : Lifecycle!Forward(phase[i], phase'[i])
  BY <1>3 DEF Lifecycle!Forward, Lifecycle!Live, Lifecycle!Terminal, Live, Terminal
<1>5. \A i \in JobIds : phase[i] = "none" /\ phase'[i] # "none" => i = id
  BY <1>3
<1> QED
  BY <1>2, <1>4, <1>5, Promise

LEMMA TableForward ==
  ASSUME JobTypeOK, JobTypeOK', NEW available \in BOOLEAN, AcceptInput(available) \/ ApplyFeedback
  PROVE  Lifecycle!Next \/ UNCHANGED phase
<1>t. phase \in [JobIds -> Phases] /\ phase' \in [JobIds -> Phases]
  BY DEF JobTypeOK
<1>h. ASSUME NextSubmission PROVE Head(submitted).id \in JobIds
  <2>1. Head(submitted) \in Submissions
    BY <1>h DEF JobTypeOK, NextSubmission
  <2> QED
    BY <2>1 DEF Submissions
<1>n. ASSUME \A i \in JobIds : /\ phase[i] = "none" => phase'[i] = "none"
                              /\ Lifecycle!Forward(phase[i], phase'[i])
      PROVE  Lifecycle!Next
  BY <1>t, <1>n, Promise
<1> USE DEF Lifecycle!Forward, Lifecycle!Live, Lifecycle!Terminal, Live, Terminal
<1>1. CASE PruneHistory
  BY <1>t, <1>1, <1>n DEF PruneHistory, Pruned, Stale, TerminalJobs
<1>2. CASE RejectDuplicate \/ SubmissionsDone
  BY <1>2 DEF RejectDuplicate, SubmissionsDone
<1>3. CASE RejectSubmission(available)
  BY <1>t, <1>h, <1>3, OpenedForward DEF RejectSubmission
<1>4. CASE AcceptSubmission(available)
  BY <1>t, <1>h, <1>4, OpenedForward DEF AcceptSubmission
<1>5. CASE AcceptCancellations
  BY <1>t, <1>5, <1>n DEF AcceptCancellations, LiveJobs
<1>6. CASE ApplyProgress
  BY <1>t, <1>6, <1>n DEF ApplyProgress, LiveJobs
<1>7. CASE ApplyCompletions
  <2>1. \A i \in JobIds : Verdict(i) \in Terminal
    BY DEF Verdict
  <2> QED
    BY <1>t, <1>7, <1>n, <2>1 DEF ApplyCompletions, LiveJobs
<1>8. CASE ApplyFailures
  BY <1>t, <1>8, <1>n DEF ApplyFailures, LiveJobs
<1> QED
  BY <1>1, <1>2, <1>3, <1>4, <1>5, <1>6, <1>7, <1>8 DEF AcceptInput, ApplyFeedback
-----------------------------------------------------------------------------
(* How many records pruning leaves                                         *)

Newer(i) == {j \in TerminalJobs : j > i}

LEMMA NewerCounted ==
  /\ IsFiniteSet(TerminalJobs)
  /\ \A i \in TerminalJobs : IsFiniteSet(Newer(i)) /\ Cardinality(Newer(i)) \in Nat
<1>1. IsFiniteSet(TerminalJobs)
  <2>1. IsFiniteSet(JobIds) /\ TerminalJobs \in SUBSET JobIds
    BY FS_Interval DEF JobIds, TerminalJobs
  <2> QED
    BY <2>1, FS_Subset
<1>2. ASSUME NEW i \in TerminalJobs PROVE IsFiniteSet(Newer(i)) /\ Cardinality(Newer(i)) \in Nat
  <2>1. Newer(i) \in SUBSET TerminalJobs
    BY DEF Newer
  <2>2. IsFiniteSet(Newer(i))
    BY <1>1, <2>1, FS_Subset
  <2> QED
    BY <2>2, FS_CardinalityType
<1> QED
  BY <1>1, <1>2

(* A newer settled record has fewer newer ones.                            *)
LEMMA NewerFalls ==
  ASSUME NEW i \in TerminalJobs, NEW j \in TerminalJobs, i < j
  PROVE  Cardinality(Newer(j)) < Cardinality(Newer(i))
<1>1. /\ IsFiniteSet(Newer(i)) /\ IsFiniteSet(Newer(j))
      /\ Cardinality(Newer(i)) \in Nat /\ Cardinality(Newer(j)) \in Nat
  BY NewerCounted
<1>2. Newer(j) \cup {j} \in SUBSET Newer(i) /\ j \notin Newer(j)
  BY DEF Newer, TerminalJobs, JobIds
<1>3. Cardinality(Newer(j) \cup {j}) = Cardinality(Newer(j)) + 1
  BY <1>1, <1>2, FS_AddElement
<1>4. Cardinality(Newer(j) \cup {j}) <= Cardinality(Newer(i))
  BY <1>1, <1>2, FS_Subset
<1> QED
  BY <1>1, <1>3, <1>4

(* Pruning keeps at most the number of settled records it is told to.      *)
LEMMA PrunedCount ==
  ASSUME NEW kept \in Nat
  PROVE  /\ IsFiniteSet(TerminalJobs \ Stale(kept))
         /\ Cardinality(TerminalJobs \ Stale(kept)) <= kept
         /\ Cardinality(TerminalJobs \ Stale(kept)) \in Nat
<1> DEFINE K == TerminalJobs \ Stale(kept)
           rank == [i \in K |-> Cardinality(Newer(i))]
<1>1. \A i \in K : rank[i] \in 0 .. (kept - 1)
  <2> SUFFICES ASSUME NEW i \in K PROVE Cardinality(Newer(i)) \in 0 .. (kept - 1)
    OBVIOUS
  <2>1. i \in TerminalJobs /\ ~ (Cardinality(Newer(i)) >= kept)
    BY DEF Stale, Newer
  <2>2. Cardinality(Newer(i)) \in Nat
    BY <2>1, NewerCounted
  <2> QED
    BY <2>1, <2>2
<1>2. \A i, j \in K : rank[i] = rank[j] => i = j
  <2> SUFFICES ASSUME NEW i \in K, NEW j \in K, i # j
               PROVE  Cardinality(Newer(i)) # Cardinality(Newer(j))
    OBVIOUS
  <2>1. i \in TerminalJobs /\ j \in TerminalJobs /\ (i < j \/ j < i)
    BY DEF TerminalJobs, JobIds
  <2>2. Cardinality(Newer(i)) \in Nat /\ Cardinality(Newer(j)) \in Nat
    BY <2>1, NewerCounted
  <2>3. Cardinality(Newer(i)) < Cardinality(Newer(j)) \/ Cardinality(Newer(j)) < Cardinality(Newer(i))
    BY <2>1, NewerFalls
  <2> QED
    BY <2>2, <2>3
<1>3. rank \in Injection(K, 0 .. (kept - 1))
  BY <1>1, <1>2 DEF Injection, IsInjective
<1> HIDE DEF rank, K
<1>4. IsFiniteSet(0 .. (kept - 1)) /\ Cardinality(0 .. (kept - 1)) = kept
  <2>1. 0 \in Int /\ kept - 1 \in Int
    OBVIOUS
  <2>2. IsFiniteSet(0 .. (kept - 1))
    BY <2>1, FS_Interval
  <2>3. Cardinality(0 .. (kept - 1)) = IF 0 > kept - 1 THEN 0 ELSE (kept - 1) - 0 + 1
    BY <2>1, FS_Interval
  <2> QED
    BY <2>2, <2>3
<1>5. IsFiniteSet(K) /\ Cardinality(K) <= kept
  BY <1>3, <1>4, FS_Injection
<1>6. Cardinality(K) \in Nat
  BY <1>5, FS_CardinalityType
<1> QED
  BY <1>5, <1>6 DEF K
=============================================================================
