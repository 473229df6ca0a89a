------------------------ MODULE ArtifactCache_proofs ------------------------
(***************************************************************************)
(* Proofs about ArtifactCache for any number of processes, files and       *)
(* parts, and any directory they start from.                               *)
(***************************************************************************)
EXTENDS ArtifactCache, TLAPS

-----------------------------------------------------------------------------
(* The inductive invariant                                                 *)

Active(p) == run[p].at \notin Ended
Good(f) == disk[f] = "good"
SmallGood == \A f \in Small : Good(f)
PartsGood == \A q \in Parts : Good(q)

(* A label belongs to the flow of the bundle.                              *)
Labels ==
  \A p \in Process :
    run[p].at \in Ended \cup Both \cup IF flow = "pipeline" THEN PipelineOnly ELSE DependencyOnly

(* One run at a time, where runs may not overlap.                          *)
Alone == flow \notin Overlap => \A p, q \in Process : Active(p) /\ Active(q) => p = q

(* What a run of cache_remote_bundle has established at each label.  No    *)
(* other process can undo it.                                              *)
PipelineKnows(p) ==
  LET r == run[p] IN
  /\ r.at \in {"files", "withdraw", "repair", "stale", "drop stale"} =>
       \A f \in Declared \ r.todo : Cached(f)
  /\ r.at \in {"withdraw", "repair", "stale", "drop stale"} => r.file \in r.todo
  /\ r.at = "withdraw" => r.left = Parts /\ ~ r.commit
  /\ r.at = "repair" => \A q \in Parts \ r.left : Good(q)
  /\ r.at \in {"stale", "drop stale"} => Backed(p) /\ PartsGood
  /\ r.at \in {"repair", "stale", "drop stale", "commit"} => r.commit
  /\ r.at \in {"commit", "ok"} => Complete

(* The same for ensure_dependency, which works on a withdrawn bundle.      *)
DependencyKnows(p) ==
  LET r == run[p] IN
  /\ r.at \in DependencyOnly \cup {"stale", "drop stale", "commit"} => r.commit
  /\ r.at \in (DependencyOnly \ {"reopen"}) \cup {"stale", "drop stale", "commit"} =>
       disk[Manifest] = "absent"
  /\ r.at = "compact" => r.todo \subseteq Small /\ \A f \in Small \ r.todo : Good(f)
  /\ r.at \in {"weights", "stale", "drop stale"} => SmallGood
  /\ r.at = "weights" => r.sees = transported /\ \A q \in Parts \ r.left : Good(q)
  /\ r.at \in {"fetch file", "clear", "place"} =>
       \/ r.file \in r.todo /\ r.todo \subseteq Small /\ \A f \in Small \ r.todo : Good(f)
       \/ /\ transported /\ r.file \in r.left /\ SmallGood
          /\ r.sees /\ \A q \in Parts \ r.left : Good(q)
       \/ ~ transported /\ r.file = Logical /\ SmallGood
  /\ r.at \in {"stale", "drop stale"} => transported /\ PartsGood
  /\ r.at \in {"commit", "seal"} => Complete
  /\ r.at \in {"reopen", "ok"} => Good(Manifest) /\ Complete
  /\ r.at = "ok" => \A q \in Process : Active(q) => run[q].at = "open"

Knowledge ==
  /\ flow = "pipeline" => \A p \in Process : PipelineKnows(p)
  /\ flow = "dependency" => \A p \in Process : DependencyKnows(p)

(* A failed run has a cause, a run at work has none.                       *)
Causes ==
  \A p \in Process :
    /\ run[p].at = "failed" => run[p].cause # "none"
    /\ Active(p) => run[p].cause = "none"

(* Once a run has withdrawn the manifest, or met one that had, the         *)
(* manifest is only there for a complete bundle.                           *)
Sealed ==
  Good(Manifest) /\ (\E p \in Process : run[p].commit \/ run[p].cause = "raced") => Complete

(* While a wrong manifest is there, nobody has come past it.               *)
Unread ==
  disk[Manifest] = "bad" =>
    \A p \in Process :
      /\ run[p].at \in {"idle", "crashed", "failed", "open", "fetch manifest", "withdraw old", "drop old"}
      /\ run[p].cause # "raced"

(* While there is no manifest, somebody is on the way to install one, or   *)
(* has an excuse.                                                          *)
Excused(p) == run[p].at \in {"idle", "crashed"} \/ run[p].cause = "network"

Heading(p) ==
  /\ Active(p)
  /\ run[p].commit \/ run[p].at \in {"open", "fetch manifest", "withdraw old"}
  /\ run[p].at # "drop old"
  /\ run[p].at = "drop stale" => Holds(Logical)

Owed == disk[Manifest] = "absent" => \E p \in Process : Excused(p) \/ Heading(p)

IInv == TypeOK /\ Labels /\ Alone /\ Knowledge /\ Causes /\ Sealed /\ Unread /\ Owed

-----------------------------------------------------------------------------
(* Type correctness                                                        *)

LabelSet == Ended \cup Both \cup PipelineOnly \cup DependencyOnly

Runs ==
  [at : LabelSet, file : Name \cup {NoFile}, todo : SUBSET Declared, left : SUBSET Parts,
   tries : 1..MaxAttempts, commit : BOOLEAN, sees : BOOLEAN,
   cause : {"none", "network", "raced"}]

Step(p) == Work(p) \/ (Static /\ (Launch(p) \/ Crash(p)))

LEMMA SubsetsOfName ==
  /\ Declared \subseteq Name /\ Small \subseteq Declared /\ Parts \subseteq Name
  /\ Manifest \in Name /\ Logical \in Declared /\ Manifest \notin Declared \cup Parts
  /\ Logical \notin Small \cup Parts /\ Small \cap Parts = {}
BY CacheAssumption DEF CacheAssumption, Declared, Small, Name

LEMMA OneAttempt == MaxAttempts \in Nat /\ 1 \in 1..MaxAttempts
BY CacheAssumption DEF CacheAssumption

LEMMA LabelsNamed ==
  LabelSet = {"idle", "ok", "failed", "crashed", "open", "fetch manifest", "withdraw old",
              "drop old", "stale", "drop stale", "commit", "layout", "fetch layout", "files",
              "withdraw", "repair", "compact", "weights", "fetch file", "clear", "place",
              "seal", "reopen"}
BY DEF LabelSet, Ended, Both, PipelineOnly, DependencyOnly

(* One field of a run is assigned: the result is a run again.              *)
LEMMA SetAt ==
  ASSUME NEW g \in [Process -> Runs], NEW p \in Process, NEW x \in LabelSet
  PROVE  [g EXCEPT ![p].at = x] \in [Process -> Runs]
BY DEF Runs

LEMMA SetFile ==
  ASSUME NEW g \in [Process -> Runs], NEW p \in Process, NEW x \in Name \cup {NoFile}
  PROVE  [g EXCEPT ![p].file = x] \in [Process -> Runs]
BY DEF Runs

LEMMA SetTodo ==
  ASSUME NEW g \in [Process -> Runs], NEW p \in Process, NEW x \in SUBSET Declared
  PROVE  [g EXCEPT ![p].todo = x] \in [Process -> Runs]
BY DEF Runs

LEMMA SetLeft ==
  ASSUME NEW g \in [Process -> Runs], NEW p \in Process, NEW x \in SUBSET Parts
  PROVE  [g EXCEPT ![p].left = x] \in [Process -> Runs]
BY DEF Runs

LEMMA SetTries ==
  ASSUME NEW g \in [Process -> Runs], NEW p \in Process, NEW x \in 1..MaxAttempts
  PROVE  [g EXCEPT ![p].tries = x] \in [Process -> Runs]
BY DEF Runs

LEMMA SetCommit ==
  ASSUME NEW g \in [Process -> Runs], NEW p \in Process, NEW x \in BOOLEAN
  PROVE  [g EXCEPT ![p].commit = x] \in [Process -> Runs]
BY DEF Runs

LEMMA SetSees ==
  ASSUME NEW g \in [Process -> Runs], NEW p \in Process, NEW x \in BOOLEAN
  PROVE  [g EXCEPT ![p].sees = x] \in [Process -> Runs]
BY DEF Runs

LEMMA SetCause ==
  ASSUME NEW g \in [Process -> Runs], NEW p \in Process, NEW x \in {"none", "network", "raced"}
  PROVE  [g EXCEPT ![p].cause = x] \in [Process -> Runs]
BY DEF Runs

(* Several fields of one run are assigned, one after the other.             *)
LEMMA SetAtTries ==
  ASSUME NEW g \in [Process -> Runs], NEW p \in Process,
         NEW x \in LabelSet, NEW y \in 1..MaxAttempts
  PROVE  [g EXCEPT ![p].at = x, ![p].tries = y] \in [Process -> Runs]
<1> DEFINE g1 == [g EXCEPT ![p].at = x]
<1> DEFINE g2 == [g1 EXCEPT ![p].tries = y]
<1>1. g1 \in [Process -> Runs]
  BY SetAt
<1>2. g2 \in [Process -> Runs]
  BY <1>1, SetTries
<1> QED
  BY <1>2

LEMMA SetAtCause ==
  ASSUME NEW g \in [Process -> Runs], NEW p \in Process,
         NEW x \in LabelSet, NEW y \in {"none", "network", "raced"}
  PROVE  [g EXCEPT ![p].at = x, ![p].cause = y] \in [Process -> Runs]
<1> DEFINE g1 == [g EXCEPT ![p].at = x]
<1> DEFINE g2 == [g1 EXCEPT ![p].cause = y]
<1>1. g1 \in [Process -> Runs]
  BY SetAt
<1>2. g2 \in [Process -> Runs]
  BY <1>1, SetCause
<1> QED
  BY <1>2

LEMMA SetAtCommit ==
  ASSUME NEW g \in [Process -> Runs], NEW p \in Process,
         NEW x \in LabelSet, NEW y \in BOOLEAN
  PROVE  [g EXCEPT ![p].at = x, ![p].commit = y] \in [Process -> Runs]
<1> DEFINE g1 == [g EXCEPT ![p].at = x]
<1> DEFINE g2 == [g1 EXCEPT ![p].commit = y]
<1>1. g1 \in [Process -> Runs]
  BY SetAt
<1>2. g2 \in [Process -> Runs]
  BY <1>1, SetCommit
<1> QED
  BY <1>2

LEMMA SetAtCommitTodo ==
  ASSUME NEW g \in [Process -> Runs], NEW p \in Process,
         NEW x \in LabelSet, NEW y \in BOOLEAN, NEW z \in SUBSET Declared
  PROVE  [g EXCEPT ![p].at = x, ![p].commit = y, ![p].todo = z] \in [Process -> Runs]
<1> DEFINE g1 == [g EXCEPT ![p].at = x]
<1> DEFINE g2 == [g1 EXCEPT ![p].commit = y]
<1> DEFINE g3 == [g2 EXCEPT ![p].todo = z]
<1>1. g1 \in [Process -> Runs]
  BY SetAt
<1>2. g2 \in [Process -> Runs]
  BY <1>1, SetCommit
<1>3. g3 \in [Process -> Runs]
  BY <1>2, SetTodo
<1> QED
  BY <1>3

LEMMA SetAtTodo ==
  ASSUME NEW g \in [Process -> Runs], NEW p \in Process,
         NEW x \in LabelSet, NEW y \in SUBSET Declared
  PROVE  [g EXCEPT ![p].at = x, ![p].todo = y] \in [Process -> Runs]
<1> DEFINE g1 == [g EXCEPT ![p].at = x]
<1> DEFINE g2 == [g1 EXCEPT ![p].todo = y]
<1>1. g1 \in [Process -> Runs]
  BY SetAt
<1>2. g2 \in [Process -> Runs]
  BY <1>1, SetTodo
<1> QED
  BY <1>2

LEMMA SetAtTodoTries ==
  ASSUME NEW g \in [Process -> Runs], NEW p \in Process,
         NEW x \in LabelSet, NEW y \in SUBSET Declared, NEW z \in 1..MaxAttempts
  PROVE  [g EXCEPT ![p].at = x, ![p].todo = y, ![p].tries = z] \in [Process -> Runs]
<1> DEFINE g1 == [g EXCEPT ![p].at = x]
<1> DEFINE g2 == [g1 EXCEPT ![p].todo = y]
<1> DEFINE g3 == [g2 EXCEPT ![p].tries = z]
<1>1. g1 \in [Process -> Runs]
  BY SetAt
<1>2. g2 \in [Process -> Runs]
  BY <1>1, SetTodo
<1>3. g3 \in [Process -> Runs]
  BY <1>2, SetTries
<1> QED
  BY <1>3

LEMMA SetFileLeftAt ==
  ASSUME NEW g \in [Process -> Runs], NEW p \in Process,
         NEW x \in Name \cup {NoFile}, NEW y \in SUBSET Parts, NEW z \in LabelSet
  PROVE  [g EXCEPT ![p].file = x, ![p].left = y, ![p].at = z] \in [Process -> Runs]
<1> DEFINE g1 == [g EXCEPT ![p].file = x]
<1> DEFINE g2 == [g1 EXCEPT ![p].left = y]
<1> DEFINE g3 == [g2 EXCEPT ![p].at = z]
<1>1. g1 \in [Process -> Runs]
  BY SetFile
<1>2. g2 \in [Process -> Runs]
  BY <1>1, SetLeft
<1>3. g3 \in [Process -> Runs]
  BY <1>2, SetAt
<1> QED
  BY <1>3

LEMMA SetAtLeftSees ==
  ASSUME NEW g \in [Process -> Runs], NEW p \in Process,
         NEW x \in LabelSet, NEW y \in SUBSET Parts, NEW z \in BOOLEAN
  PROVE  [g EXCEPT ![p].at = x, ![p].left = y, ![p].sees = z] \in [Process -> Runs]
<1> DEFINE g1 == [g EXCEPT ![p].at = x]
<1> DEFINE g2 == [g1 EXCEPT ![p].left = y]
<1> DEFINE g3 == [g2 EXCEPT ![p].sees = z]
<1>1. g1 \in [Process -> Runs]
  BY SetAt
<1>2. g2 \in [Process -> Runs]
  BY <1>1, SetLeft
<1>3. g3 \in [Process -> Runs]
  BY <1>2, SetSees
<1> QED
  BY <1>3

LEMMA SetFileAt ==
  ASSUME NEW g \in [Process -> Runs], NEW p \in Process,
         NEW x \in Name \cup {NoFile}, NEW y \in LabelSet
  PROVE  [g EXCEPT ![p].file = x, ![p].at = y] \in [Process -> Runs]
<1> DEFINE g1 == [g EXCEPT ![p].file = x]
<1> DEFINE g2 == [g1 EXCEPT ![p].at = y]
<1>1. g1 \in [Process -> Runs]
  BY SetFile
<1>2. g2 \in [Process -> Runs]
  BY <1>1, SetAt
<1> QED
  BY <1>2

LEMMA SetLeftTries ==
  ASSUME NEW g \in [Process -> Runs], NEW p \in Process,
         NEW x \in SUBSET Parts, NEW y \in 1..MaxAttempts
  PROVE  [g EXCEPT ![p].left = x, ![p].tries = y] \in [Process -> Runs]
<1> DEFINE g1 == [g EXCEPT ![p].left = x]
<1> DEFINE g2 == [g1 EXCEPT ![p].tries = y]
<1>1. g1 \in [Process -> Runs]
  BY SetLeft
<1>2. g2 \in [Process -> Runs]
  BY <1>1, SetTries
<1> QED
  BY <1>2

LEMMA SetTodoLeftAt ==
  ASSUME NEW g \in [Process -> Runs], NEW p \in Process,
         NEW x \in SUBSET Declared, NEW y \in SUBSET Parts, NEW z \in LabelSet
  PROVE  [g EXCEPT ![p].todo = x, ![p].left = y, ![p].at = z] \in [Process -> Runs]
<1> DEFINE g1 == [g EXCEPT ![p].todo = x]
<1> DEFINE g2 == [g1 EXCEPT ![p].left = y]
<1> DEFINE g3 == [g2 EXCEPT ![p].at = z]
<1>1. g1 \in [Process -> Runs]
  BY SetTodo
<1>2. g2 \in [Process -> Runs]
  BY <1>1, SetLeft
<1>3. g3 \in [Process -> Runs]
  BY <1>2, SetAt
<1> QED
  BY <1>3

(* What the actions are built from leaves every run a run.                 *)
LEMMA GoTyped ==
  ASSUME run \in [Process -> Runs], NEW p \in Process, NEW label \in LabelSet, Go(p, label)
  PROVE  run' \in [Process -> Runs]
BY SetAt DEF Go

LEMMA FailTyped ==
  ASSUME run \in [Process -> Runs], NEW p \in Process,
         NEW why \in {"none", "network", "raced"}, Fail(p, why)
  PROVE  run' \in [Process -> Runs]
<1>1. "failed" \in LabelSet
  BY LabelsNamed
<1> QED
  BY <1>1, SetAtCause DEF Fail

LEMMA MissedTyped ==
  ASSUME run \in [Process -> Runs], NEW p \in Process, Missed(p)
  PROVE  run' \in [Process -> Runs]
<1>1. CASE run[p].tries < MaxAttempts
  <2>1. run[p].tries \in 1..MaxAttempts
    BY DEF Runs
  <2>2. run[p].tries + 1 \in 1..MaxAttempts
    BY <1>1, <2>1, OneAttempt
  <2>3. run' = [run EXCEPT ![p].tries = run[p].tries + 1]
    BY <1>1 DEF Missed
  <2> QED
    BY <2>2, <2>3, SetTries
<1>2. CASE ~ (run[p].tries < MaxAttempts)
  <2>1. Fail(p, "network")
    BY <1>2 DEF Missed
  <2> QED
    BY <2>1, FailTyped
<1> QED
  BY <1>1, <1>2

LEMMA ReplacingTyped ==
  ASSUME run \in [Process -> Runs], NEW p \in Process, Replacing(p)
  PROVE  run' \in [Process -> Runs]
<1> DEFINE label == IF flow = "pipeline" THEN "layout" ELSE "compact"
<1>1. label \in LabelSet /\ Small \in SUBSET Declared
  BY LabelsNamed, SubsetsOfName
<1>2. run' = [run EXCEPT ![p].at = label, ![p].commit = TRUE, ![p].todo = Small]
  BY DEF Replacing
<1> HIDE DEF label
<1> QED
  BY <1>1, <1>2, SetAtCommitTodo

LEMMA StaleGoneTyped ==
  ASSUME run \in [Process -> Runs], NEW p \in Process, StaleGone(p)
  PROVE  run' \in [Process -> Runs]
<1> DEFINE label == IF flow = "pipeline" THEN "files" ELSE "commit"
<1> DEFINE rest == run[p].todo \ {Logical}
<1>1. label \in LabelSet
  BY LabelsNamed
<1>2. rest \in SUBSET Declared
  BY DEF Runs
<1>3. run' = [run EXCEPT ![p].at = label, ![p].todo = rest]
  BY DEF StaleGone
<1> HIDE DEF label, rest
<1> QED
  BY <1>1, <1>2, <1>3, SetAtTodo

LEMMA ListedTyped ==
  ASSUME run \in [Process -> Runs], NEW p \in Process, Listed(p)
  PROVE  run' \in [Process -> Runs]
<1>1. "files" \in LabelSet /\ Declared \in SUBSET Declared
  BY LabelsNamed
<1> QED
  BY <1>1, OneAttempt, SetAtTodoTries DEF Listed

LEMMA FetchingTyped ==
  ASSUME run \in [Process -> Runs], NEW p \in Process, NEW f \in Name, run' = Fetching(p, f)
  PROVE  run' \in [Process -> Runs]
<1>1. "fetch file" \in LabelSet
  BY LabelsNamed
<1> QED
  BY <1>1, SetFileAt DEF Fetching

LEMMA TodoTyped ==
  ASSUME run \in [Process -> Runs], NEW p \in Process, NEW f,
         run' = [run EXCEPT ![p].todo = @ \ {f}]
  PROVE  run' \in [Process -> Runs]
<1>1. run[p].todo \ {f} \in SUBSET Declared
  BY DEF Runs
<1> QED
  BY <1>1, SetTodo

LEMMA LeftTyped ==
  ASSUME run \in [Process -> Runs], NEW p \in Process, NEW f,
         run' = [run EXCEPT ![p].left = @ \ {f}]
  PROVE  run' \in [Process -> Runs]
<1>1. run[p].left \ {f} \in SUBSET Parts
  BY DEF Runs
<1> QED
  BY <1>1, SetLeft

(* Each action leaves every run a run.                                     *)
LEMMA BothTyped ==
  ASSUME run \in [Process -> Runs], NEW p \in Process,
         \/ FetchManifest(p) \/ WithdrawOld(p) \/ DropOld(p) \/ RemoveStale(p) \/ DropStale(p)
         \/ Launch(p) \/ Crash(p)
  PROVE  run' \in [Process -> Runs]
<1>1. {"crashed", "open", "withdraw old", "drop old", "drop stale"} \subseteq LabelSet
  BY LabelsNamed
<1>2. CASE FetchManifest(p)
  <2>1. CASE run' = [run EXCEPT ![p].at = "withdraw old", ![p].tries = 1]
    BY <1>1, <2>1, OneAttempt, SetAtTries
  <2>2. CASE Fail(p, "network") \/ Missed(p)
    BY <2>2, FailTyped, MissedTyped
  <2> QED
    BY <1>2, <2>1, <2>2 DEF FetchManifest
<1>3. CASE WithdrawOld(p)
  BY <1>1, <1>3, GoTyped, ReplacingTyped DEF WithdrawOld
<1>4. CASE DropOld(p)
  BY <1>4, FailTyped, ReplacingTyped DEF DropOld
<1>5. CASE RemoveStale(p)
  BY <1>1, <1>5, GoTyped, StaleGoneTyped DEF RemoveStale
<1>6. CASE DropStale(p)
  BY <1>6, FailTyped, StaleGoneTyped DEF DropStale
<1>7. CASE Launch(p)
  <2>1. Fresh \in Runs
    BY <1>1, OneAttempt DEF Fresh, Runs
  <2> QED
    BY <1>7, <2>1 DEF Launch
<1>8. CASE Crash(p)
  BY <1>1, <1>8, GoTyped DEF Crash
<1> QED
  BY <1>2, <1>3, <1>4, <1>5, <1>6, <1>7, <1>8

LEMMA PipelineTyped ==
  ASSUME run \in [Process -> Runs], NEW p \in Process,
         \/ ReadManifest(p) \/ ResolveLayout(p) \/ FetchLayout(p) \/ CheckFile(p) \/ Withdraw(p)
         \/ RepairDirect(p) \/ RepairPart(p) \/ PartsDone(p) \/ FilesDone(p) \/ CommitPipeline(p)
  PROVE  run' \in [Process -> Runs]
<1>1. {"layout", "fetch manifest", "fetch layout", "files", "repair", "withdraw", "stale",
       "commit", "ok"} \subseteq LabelSet
  BY LabelsNamed
<1>2. CASE ReadManifest(p)
  BY <1>1, <1>2, GoTyped DEF ReadManifest
<1>3. CASE ResolveLayout(p)
  BY <1>1, <1>3, GoTyped, ListedTyped DEF ResolveLayout
<1>4. CASE FetchLayout(p)
  BY <1>4, FailTyped, ListedTyped, MissedTyped DEF FetchLayout
<1>5. CASE CheckFile(p)
  <2> DEFINE label == IF run[p].commit THEN "repair" ELSE "withdraw"
  <2>1. PICK f \in run[p].todo :
          IF Cached(f) THEN run' = [run EXCEPT ![p].todo = @ \ {f}]
          ELSE run' = [run EXCEPT ![p].file = f, ![p].left = Parts, ![p].at = label]
    BY <1>5 DEF CheckFile
  <2>2. label \in LabelSet /\ Parts \in SUBSET Parts
    BY <1>1
  <2>3. f \in Name \cup {NoFile}
    BY SubsetsOfName DEF Runs
  <2> HIDE DEF label
  <2>4. CASE Cached(f)
    BY <2>1, <2>4, TodoTyped
  <2>5. CASE ~ Cached(f)
    <3>1. run' = [run EXCEPT ![p].file = f, ![p].left = Parts, ![p].at = label]
      BY <2>1, <2>5
    <3> QED
      BY <2>2, <2>3, <3>1, SetFileLeftAt
  <2> QED
    BY <2>4, <2>5
<1>6. CASE Withdraw(p)
  <2>1. CASE run' = [run EXCEPT ![p].at = "repair", ![p].commit = TRUE]
    BY <1>1, <2>1, SetAtCommit
  <2> QED
    BY <1>6, <2>1, FailTyped DEF Withdraw
<1>7. CASE RepairDirect(p)
  <2> DEFINE rest == run[p].todo \ {run[p].file}
  <2>1. rest \in SUBSET Declared
    BY DEF Runs
  <2>2. CASE run' = [run EXCEPT ![p].at = "files", ![p].todo = rest, ![p].tries = 1]
    <3> HIDE DEF rest
    <3> QED
      BY <1>1, <2>1, <2>2, OneAttempt, SetAtTodoTries
  <2> QED
    BY <1>7, <2>2, MissedTyped DEF RepairDirect
<1>8. CASE RepairPart(p)
  <2>1. PICK q \in run[p].left :
          \/ run' = [run EXCEPT ![p].left = @ \ {q}]
          \/ run' = [run EXCEPT ![p].left = @ \ {q}, ![p].tries = 1]
          \/ Missed(p)
    BY <1>8 DEF RepairPart
  <2> DEFINE rest == run[p].left \ {q}
  <2>2. rest \in SUBSET Parts
    BY DEF Runs
  <2>3. CASE run' = [run EXCEPT ![p].left = rest, ![p].tries = 1]
    <3> HIDE DEF rest
    <3> QED
      BY <2>2, <2>3, OneAttempt, SetLeftTries
  <2> QED
    BY <2>1, <2>3, LeftTyped, MissedTyped
<1>9. CASE PartsDone(p)
  BY <1>1, <1>9, GoTyped DEF PartsDone
<1>10. CASE FilesDone(p)
  BY <1>1, <1>10, GoTyped DEF FilesDone
<1>11. CASE CommitPipeline(p)
  BY <1>1, <1>11, GoTyped DEF CommitPipeline
<1> QED
  BY <1>2, <1>3, <1>4, <1>5, <1>6, <1>7, <1>8, <1>9, <1>10, <1>11

LEMMA DependencyTyped ==
  ASSUME run \in [Process -> Runs], NEW p \in Process,
         \/ OpenBundle(p) \/ InstallCompact(p) \/ SeeLayout(p) \/ InstallWeight(p)
         \/ FetchFile(p) \/ Clear(p) \/ Place(p) \/ ClearManifest(p) \/ Seal(p) \/ Reopen(p)
  PROVE  run' \in [Process -> Runs]
<1>1. {"ok", "fetch manifest", "weights", "stale", "commit", "clear", "place", "seal", "reopen",
       "compact"} \subseteq LabelSet
  BY LabelsNamed
<1>2. CASE OpenBundle(p)
  BY <1>1, <1>2, GoTyped DEF OpenBundle
<1>3. CASE InstallCompact(p)
  <2>1. PICK f \in run[p].todo :
          run' = [run EXCEPT ![p].todo = @ \ {f}] \/ run' = Fetching(p, f)
    BY <1>3 DEF InstallCompact
  <2>2. f \in Name
    BY SubsetsOfName DEF Runs
  <2> QED
    BY <2>1, <2>2, TodoTyped, FetchingTyped
<1>4. CASE SeeLayout(p)
  <2> DEFINE seen == transported /\ disk[Sidecar] = "good"
  <2>1. seen \in BOOLEAN /\ Parts \in SUBSET Parts
    OBVIOUS
  <2>2. run' = [run EXCEPT ![p].at = "weights", ![p].left = Parts, ![p].sees = seen]
    BY <1>4 DEF SeeLayout
  <2> HIDE DEF seen
  <2> QED
    BY <1>1, <2>1, <2>2, SetAtLeftSees
<1>5. CASE InstallWeight(p)
  <2>1. CASE Go(p, "stale") \/ Go(p, "commit")
    BY <1>1, <2>1, GoTyped
  <2>2. CASE run' = Fetching(p, Logical)
    BY <2>2, SubsetsOfName, FetchingTyped
  <2>3. ASSUME NEW q \in run[p].left,
               run' = [run EXCEPT ![p].left = @ \ {q}] \/ run' = Fetching(p, q)
        PROVE  run' \in [Process -> Runs]
    <3>1. q \in Name
      BY SubsetsOfName DEF Runs
    <3> QED
      BY <2>3, <3>1, LeftTyped, FetchingTyped
  <2> QED
    BY <1>5, <2>1, <2>2, <2>3 DEF InstallWeight
<1>6. CASE FetchFile(p)
  BY <1>1, <1>6, GoTyped, FailTyped DEF FetchFile
<1>7. CASE Clear(p)
  BY <1>1, <1>7, GoTyped DEF Clear
<1>8. CASE Place(p)
  <2> DEFINE label == IF run[p].file = Logical THEN "commit"
                      ELSE IF run[p].file \in Parts THEN "weights" ELSE "compact"
  <2> DEFINE todo == run[p].todo \ {run[p].file}
  <2> DEFINE left == run[p].left \ {run[p].file}
  <2>1. label \in LabelSet
    BY <1>1
  <2>2. todo \in SUBSET Declared /\ left \in SUBSET Parts
    BY DEF Runs
  <2>3. run' = [run EXCEPT ![p].todo = todo, ![p].left = left, ![p].at = label]
    BY <1>8 DEF Place
  <2> HIDE DEF label, todo, left
  <2> QED
    BY <2>1, <2>2, <2>3, SetTodoLeftAt
<1>9. CASE ClearManifest(p)
  BY <1>1, <1>9, GoTyped DEF ClearManifest
<1>10. CASE Seal(p)
  BY <1>1, <1>10, GoTyped DEF Seal
<1>11. CASE Reopen(p)
  BY <1>1, <1>11, GoTyped, FailTyped DEF Reopen
<1> QED
  BY <1>2, <1>3, <1>4, <1>5, <1>6, <1>7, <1>8, <1>9, <1>10, <1>11

(* A step is a step of one process on one file.                            *)
LEMMA OthersKept ==
  ASSUME run \in [Process -> Runs], NEW p \in Process, Step(p), NEW q \in Process, q # p
  PROVE  run'[q] = run[q]
<1> USE DEF Go, Fail
<1>1. CASE Launch(p) \/ Crash(p)
  BY <1>1 DEF Launch, Crash
<1>2. CASE FetchManifest(p) \/ WithdrawOld(p) \/ DropOld(p) \/ RemoveStale(p) \/ DropStale(p)
  BY <1>2 DEF FetchManifest, Missed, WithdrawOld, DropOld, Replacing, RemoveStale, DropStale, StaleGone
<1>3. CASE ReadManifest(p) \/ ResolveLayout(p) \/ FetchLayout(p) \/ CheckFile(p) \/ Withdraw(p)
  BY <1>3 DEF ReadManifest, ResolveLayout, FetchLayout, Listed, Missed, CheckFile, Withdraw
<1>4. CASE RepairDirect(p) \/ RepairPart(p) \/ PartsDone(p) \/ FilesDone(p) \/ CommitPipeline(p)
  BY <1>4 DEF RepairDirect, RepairPart, Missed, PartsDone, FilesDone, CommitPipeline
<1>5. CASE OpenBundle(p) \/ InstallCompact(p) \/ SeeLayout(p) \/ InstallWeight(p) \/ FetchFile(p)
  BY <1>5 DEF OpenBundle, InstallCompact, SeeLayout, InstallWeight, Fetching, FetchFile
<1>6. CASE Clear(p) \/ Place(p) \/ ClearManifest(p) \/ Seal(p) \/ Reopen(p)
  BY <1>6 DEF Clear, Place, ClearManifest, Seal, Reopen
<1> QED
  BY <1>1, <1>2, <1>3, <1>4, <1>5, <1>6 DEF Step, Work

LEMMA DiskTyped ==
  ASSUME disk \in [Name -> {"absent", "bad", "good"}], NEW p \in Process, Step(p)
  PROVE  disk' \in [Name -> {"absent", "bad", "good"}]
<1>1. ASSUME NEW f, NEW what \in {"absent", "bad", "good"}, Put(f, what)
      PROVE  disk' \in [Name -> {"absent", "bad", "good"}]
  BY <1>1 DEF Put
<1>2. CASE UNCHANGED disk
  BY <1>2
<1>3. CASE \E f : Put(f, "absent") \/ Put(f, "good")
  BY <1>1, <1>3
<1>4. UNCHANGED disk \/ \E f : Put(f, "absent") \/ Put(f, "good")
  BY DEF Step, Work, Launch, Crash, FetchManifest, WithdrawOld, DropOld, RemoveStale, DropStale,
         ReadManifest, ResolveLayout, FetchLayout, CheckFile, Withdraw, RepairDirect, RepairPart,
         PartsDone, FilesDone, CommitPipeline, OpenBundle, InstallCompact, SeeLayout,
         InstallWeight, FetchFile, Clear, Place, ClearManifest, Seal, Reopen
<1> QED
  BY <1>2, <1>3, <1>4

LEMMA StepTyped ==
  ASSUME TypeOK, NEW p \in Process, Step(p)
  PROVE  TypeOK' /\ UNCHANGED <<flow, transported>>
<1>1. run \in [Process -> Runs]
  BY DEF TypeOK, Runs, LabelSet
<1>2. run' \in [Process -> Runs]
  BY <1>1, BothTyped, PipelineTyped, DependencyTyped DEF Step, Work
<1>3. UNCHANGED <<flow, transported>>
  BY DEF Step, Work, Static
<1>4. Runs' = Runs
  BY <1>3 DEF Runs, Declared, Small
<1>5. run' \in [Process -> Runs']
  BY <1>2, <1>4
<1>6. disk' \in [Name -> {"absent", "bad", "good"}]
  BY DiskTyped DEF TypeOK
<1> QED
  BY <1>3, <1>5, <1>6 DEF TypeOK, Runs, LabelSet

LEMMA InitTyped == Init => TypeOK
<1> SUFFICES ASSUME Init PROVE TypeOK
  OBVIOUS
<1>1. "idle" \in LabelSet /\ NoFile \in Name \cup {NoFile}
  BY LabelsNamed
<1>2. [Fresh EXCEPT !.at = "idle"] \in Runs
  BY <1>1, OneAttempt DEF Fresh, Runs
<1>3. run \in [Process -> Runs]
  BY <1>2 DEF Init
<1> QED
  BY <1>3 DEF Init, TypeOK, Runs, LabelSet

(* Type correctness: the files and the runs stay what they can be.         *)
THEOREM TypeCorrect == Spec => []TypeOK
<1>1. TypeOK /\ [Next]_vars => TypeOK'
  <2> SUFFICES ASSUME TypeOK, [Next]_vars PROVE TypeOK'
    OBVIOUS
  <2>1. CASE Next
    BY <2>1, StepTyped DEF Next, Step
  <2>2. CASE UNCHANGED vars
    BY <2>2 DEF vars, TypeOK, Declared, Small
  <2> QED
    BY <2>1, <2>2
<1> QED
  BY <1>1, InitTyped, PTL DEF Spec

-----------------------------------------------------------------------------
(* Labels, and one run at a time                                           *)

LEMMA WorkIsActive ==
  ASSUME NEW p \in Process, Work(p)
  PROVE  Active(p)
BY DEF Work, Active, Ended, At, FetchManifest, WithdrawOld, DropOld, RemoveStale, DropStale,
       ReadManifest, ResolveLayout, FetchLayout, CheckFile, Withdraw, RepairDirect, RepairPart,
       PartsDone, FilesDone, CommitPipeline, OpenBundle, InstallCompact, SeeLayout,
       InstallWeight, FetchFile, Clear, Place, ClearManifest, Seal, Reopen

LEMMA AloneKept ==
  ASSUME TypeOK, Alone, NEW p \in Process, Step(p)
  PROVE  Alone'
<1>1. UNCHANGED flow
  BY StepTyped
<1>2. SUFFICES ASSUME flow \notin Overlap, NEW q1 \in Process, NEW q2 \in Process,
                      Active(q1)', Active(q2)'
               PROVE  q1 = q2
  BY <1>1 DEF Alone
<1>3. \A q \in Process \ {p} : run'[q] = run[q]
  BY OthersKept DEF TypeOK, Runs, LabelSet
<1>4. \A q \in Process \ {p} : Active(q)' => Active(q)
  BY <1>3 DEF Active
<1>5. CASE Work(p) \/ Crash(p)
  <2>1. Active(p)
    BY <1>5, WorkIsActive DEF Crash, Active
  <2> QED
    BY <1>2, <1>4, <2>1 DEF Alone
<1>6. CASE Launch(p)
  BY <1>2, <1>4, <1>6 DEF Launch, Active
<1> QED
  BY <1>5, <1>6 DEF Step

(* What the helpers do to the run of one process; the count of attempts is *)
(* left out.                                                               *)
LEMMA GoDoes ==
  ASSUME run \in [Process -> Runs], NEW p \in Process, NEW label, Go(p, label)
  PROVE  /\ run'[p].at = label /\ run'[p].file = run[p].file /\ run'[p].todo = run[p].todo
         /\ run'[p].left = run[p].left /\ run'[p].commit = run[p].commit
         /\ run'[p].sees = run[p].sees /\ run'[p].cause = run[p].cause
BY DEF Go, Runs

LEMMA FailDoes ==
  ASSUME run \in [Process -> Runs], NEW p \in Process, NEW why, Fail(p, why)
  PROVE  /\ run'[p].at = "failed" /\ run'[p].file = run[p].file /\ run'[p].todo = run[p].todo
         /\ run'[p].left = run[p].left /\ run'[p].commit = run[p].commit
         /\ run'[p].sees = run[p].sees /\ run'[p].cause = why
BY DEF Fail, Runs

LEMMA MissedDoes ==
  ASSUME run \in [Process -> Runs], NEW p \in Process, Missed(p)
  PROVE  /\ \/ run'[p].at = run[p].at /\ run'[p].cause = run[p].cause
            \/ run'[p].at = "failed" /\ run'[p].cause = "network"
         /\ run'[p].file = run[p].file /\ run'[p].todo = run[p].todo
         /\ run'[p].left = run[p].left /\ run'[p].commit = run[p].commit
         /\ run'[p].sees = run[p].sees
<1>1. CASE run' = [run EXCEPT ![p].tries = @ + 1]
  BY <1>1 DEF Runs
<1>2. CASE Fail(p, "network")
  BY <1>2, FailDoes
<1> QED
  BY <1>1, <1>2 DEF Missed

LEMMA ReplacingDoes ==
  ASSUME run \in [Process -> Runs], NEW p \in Process, Replacing(p)
  PROVE  /\ run'[p].at = IF flow = "pipeline" THEN "layout" ELSE "compact"
         /\ run'[p].file = run[p].file /\ run'[p].todo = Small
         /\ run'[p].left = run[p].left /\ run'[p].commit = TRUE
         /\ run'[p].sees = run[p].sees /\ run'[p].cause = run[p].cause
BY DEF Replacing, Runs

LEMMA StaleGoneDoes ==
  ASSUME run \in [Process -> Runs], NEW p \in Process, StaleGone(p)
  PROVE  /\ run'[p].at = IF flow = "pipeline" THEN "files" ELSE "commit"
         /\ run'[p].file = run[p].file /\ run'[p].todo = run[p].todo \ {Logical}
         /\ run'[p].left = run[p].left /\ run'[p].commit = run[p].commit
         /\ run'[p].sees = run[p].sees /\ run'[p].cause = run[p].cause
BY DEF StaleGone, Runs

LEMMA ListedDoes ==
  ASSUME run \in [Process -> Runs], NEW p \in Process, Listed(p)
  PROVE  /\ run'[p].at = "files" /\ run'[p].file = run[p].file /\ run'[p].todo = Declared
         /\ run'[p].left = run[p].left /\ run'[p].commit = run[p].commit
         /\ run'[p].sees = run[p].sees /\ run'[p].cause = run[p].cause
BY DEF Listed, Runs

LEMMA FetchingDoes ==
  ASSUME run \in [Process -> Runs], NEW p \in Process, NEW f, run' = Fetching(p, f)
  PROVE  /\ run'[p].at = "fetch file" /\ run'[p].file = f /\ run'[p].todo = run[p].todo
         /\ run'[p].left = run[p].left /\ run'[p].commit = run[p].commit
         /\ run'[p].sees = run[p].sees /\ run'[p].cause = run[p].cause
BY DEF Fetching, Runs

LEMMA TodoDoes ==
  ASSUME run \in [Process -> Runs], NEW p \in Process, NEW f,
         run' = [run EXCEPT ![p].todo = @ \ {f}]
  PROVE  /\ run'[p].at = run[p].at /\ run'[p].file = run[p].file
         /\ run'[p].todo = run[p].todo \ {f}
         /\ run'[p].left = run[p].left /\ run'[p].commit = run[p].commit
         /\ run'[p].sees = run[p].sees /\ run'[p].cause = run[p].cause
BY DEF Runs

LEMMA LeftDoes ==
  ASSUME run \in [Process -> Runs], NEW p \in Process, NEW f,
         \/ run' = [run EXCEPT ![p].left = @ \ {f}]
         \/ run' = [run EXCEPT ![p].left = @ \ {f}, ![p].tries = 1]
  PROVE  /\ run'[p].at = run[p].at /\ run'[p].file = run[p].file
         /\ run'[p].todo = run[p].todo
         /\ run'[p].left = run[p].left \ {f} /\ run'[p].commit = run[p].commit
         /\ run'[p].sees = run[p].sees /\ run'[p].cause = run[p].cause
BY DEF Runs

LEMMA WithdrawDoes ==
  ASSUME run \in [Process -> Runs], NEW p \in Process,
         run' = [run EXCEPT ![p].at = "repair", ![p].commit = TRUE]
  PROVE  /\ run'[p].at = "repair" /\ run'[p].file = run[p].file /\ run'[p].todo = run[p].todo
         /\ run'[p].left = run[p].left /\ run'[p].commit = TRUE
         /\ run'[p].sees = run[p].sees /\ run'[p].cause = run[p].cause
BY DEF Runs

LEMMA RepairedDoes ==
  ASSUME run \in [Process -> Runs], NEW p \in Process, NEW rest,
         run' = [run EXCEPT ![p].at = "files", ![p].todo = rest, ![p].tries = 1]
  PROVE  /\ run'[p].at = "files" /\ run'[p].file = run[p].file /\ run'[p].todo = rest
         /\ run'[p].left = run[p].left /\ run'[p].commit = run[p].commit
         /\ run'[p].sees = run[p].sees /\ run'[p].cause = run[p].cause
BY DEF Runs

LEMMA FetchedDoes ==
  ASSUME run \in [Process -> Runs], NEW p \in Process,
         run' = [run EXCEPT ![p].at = "withdraw old", ![p].tries = 1]
  PROVE  /\ run'[p].at = "withdraw old" /\ run'[p].file = run[p].file
         /\ run'[p].todo = run[p].todo
         /\ run'[p].left = run[p].left /\ run'[p].commit = run[p].commit
         /\ run'[p].sees = run[p].sees /\ run'[p].cause = run[p].cause
BY DEF Runs

LEMMA SeeLayoutDoes ==
  ASSUME run \in [Process -> Runs], NEW p \in Process, SeeLayout(p)
  PROVE  /\ run'[p].at = "weights" /\ run'[p].file = run[p].file /\ run'[p].todo = run[p].todo
         /\ run'[p].left = Parts /\ run'[p].commit = run[p].commit
         /\ run'[p].sees = (transported /\ disk[Sidecar] = "good")
         /\ run'[p].cause = run[p].cause
<1> DEFINE seen == transported /\ disk[Sidecar] = "good"
<1>1. run' = [run EXCEPT ![p].at = "weights", ![p].left = Parts, ![p].sees = seen]
  BY DEF SeeLayout
<1> HIDE DEF seen
<1>2. /\ run'[p].at = "weights" /\ run'[p].file = run[p].file /\ run'[p].todo = run[p].todo
      /\ run'[p].left = Parts /\ run'[p].commit = run[p].commit
      /\ run'[p].sees = seen /\ run'[p].cause = run[p].cause
  BY <1>1 DEF Runs
<1> QED
  BY <1>2 DEF seen

LEMMA PlaceDoes ==
  ASSUME run \in [Process -> Runs], NEW p \in Process, Place(p)
  PROVE  /\ run'[p].at = IF run[p].file = Logical THEN "commit"
                         ELSE IF run[p].file \in Parts THEN "weights" ELSE "compact"
         /\ run'[p].file = run[p].file /\ run'[p].todo = run[p].todo \ {run[p].file}
         /\ run'[p].left = run[p].left \ {run[p].file} /\ run'[p].commit = run[p].commit
         /\ run'[p].sees = run[p].sees /\ run'[p].cause = run[p].cause
BY DEF Place, Runs

LEMMA LaunchDoes ==
  ASSUME run \in [Process -> Runs], NEW p \in Process, Launch(p)
  PROVE  run'[p].at = "open" /\ run'[p].commit = FALSE /\ run'[p].cause = "none"
BY DEF Launch, Fresh

-----------------------------------------------------------------------------
(* cache_remote_bundle: what a run knows, no other run takes from it       *)

LEMMA PipelineActions ==
  ASSUME Labels, flow = "pipeline", NEW p \in Process, Step(p)
  PROVE  \/ Launch(p) \/ Crash(p) \/ FetchManifest(p) \/ WithdrawOld(p) \/ DropOld(p)
         \/ RemoveStale(p) \/ DropStale(p)
         \/ ReadManifest(p) \/ ResolveLayout(p) \/ FetchLayout(p) \/ CheckFile(p) \/ Withdraw(p)
         \/ RepairDirect(p) \/ RepairPart(p) \/ PartsDone(p) \/ FilesDone(p) \/ CommitPipeline(p)
<1>1. run[p].at \in Ended \cup Both \cup PipelineOnly
  BY DEF Labels
<1>2. run[p].at \notin DependencyOnly
  BY <1>1 DEF Ended, Both, PipelineOnly, DependencyOnly
<1>3. ~ OpenBundle(p) /\ ~ ClearManifest(p)
  BY DEF OpenBundle, ClearManifest
<1>4. ~ InstallCompact(p) /\ ~ SeeLayout(p) /\ ~ InstallWeight(p) /\ ~ FetchFile(p)
  BY <1>2 DEF At, DependencyOnly, InstallCompact, SeeLayout, InstallWeight, FetchFile
<1>5. ~ Clear(p) /\ ~ Place(p) /\ ~ Seal(p) /\ ~ Reopen(p)
  BY <1>2 DEF At, DependencyOnly, Clear, Place, Seal, Reopen
<1> QED
  BY <1>3, <1>4, <1>5 DEF Step, Work

LEMMA PipelineWrites ==
  ASSUME TypeOK, Labels, flow = "pipeline", NEW p \in Process, PipelineKnows(p), Step(p)
  PROVE  \/ UNCHANGED disk
         \/ Put(Manifest, "absent") \/ Put(Manifest, "good")
         \/ transported /\ Put(Logical, "absent")
         \/ \E f \in Declared \cup Parts : ~ (transported /\ f = Logical) /\ Put(f, "good")
<1>1. run[p] \in Runs
  BY DEF TypeOK, Runs, LabelSet
<1>2. CASE RepairDirect(p)
  <2>1. At(p, "repair") /\ ~ Backed(p) /\ (Put(run[p].file, "good") \/ UNCHANGED disk)
    BY <1>2 DEF RepairDirect
  <2>2. run[p].file \in Declared
    BY <1>1, <2>1 DEF PipelineKnows, At, Runs
  <2> QED
    BY <2>1, <2>2 DEF Backed
<1>3. CASE RepairPart(p)
  <2>1. \E q \in run[p].left : Put(q, "good") \/ UNCHANGED disk
    BY <1>3 DEF RepairPart
  <2>2. run[p].left \subseteq Parts
    BY <1>1 DEF Runs
  <2> QED
    BY <2>1, <2>2, SubsetsOfName
<1>4. CASE DropStale(p)
  BY <1>4 DEF DropStale, PipelineKnows, At, Backed
<1>5. CASE DropOld(p) \/ Withdraw(p) \/ CommitPipeline(p)
  BY <1>5 DEF DropOld, Withdraw, CommitPipeline
<1>6. CASE \/ Launch(p) \/ Crash(p) \/ FetchManifest(p) \/ WithdrawOld(p) \/ RemoveStale(p)
           \/ ReadManifest(p) \/ ResolveLayout(p) \/ FetchLayout(p) \/ CheckFile(p)
           \/ PartsDone(p) \/ FilesDone(p)
  BY <1>6 DEF Launch, Crash, FetchManifest, WithdrawOld, RemoveStale, ReadManifest, ResolveLayout,
              FetchLayout, CheckFile, PartsDone, FilesDone
<1> QED
  BY <1>2, <1>3, <1>4, <1>5, <1>6, PipelineActions

(* A verified file stays verified, in the representation it has.           *)
LEMMA PipelineMono ==
  ASSUME TypeOK, Labels, flow = "pipeline", NEW p \in Process, PipelineKnows(p), Step(p)
  PROVE  /\ \A f \in Declared : Cached(f) => Cached(f)'
         /\ \A q \in Parts : Good(q) => Good(q)'
         /\ Complete => Complete'
         /\ Declared' = Declared /\ Small' = Small
<1>1. UNCHANGED transported
  BY StepTyped
<1>2. Declared' = Declared /\ Small' = Small
  BY <1>1 DEF Declared, Small
<1>3. disk \in [Name -> {"absent", "bad", "good"}]
  BY DEF TypeOK
<1>4. /\ \A f \in Small \cup Parts : Good(f) => Good(f)'
      /\ ~ transported /\ Good(Logical) => Good(Logical)'
      /\ transported /\ ~ Holds(Logical) => ~ Holds(Logical)'
  <2> USE SubsetsOfName, <1>3 DEF Put, Good, Holds
  <2>1. CASE UNCHANGED disk
    BY <2>1
  <2>2. CASE Put(Manifest, "absent") \/ Put(Manifest, "good")
    BY <2>2
  <2>3. CASE transported /\ Put(Logical, "absent")
    BY <2>3
  <2>4. CASE \E f \in Declared \cup Parts : ~ (transported /\ f = Logical) /\ Put(f, "good")
    BY <2>4
  <2> QED
    BY <2>1, <2>2, <2>3, <2>4, PipelineWrites
<1>5. \A f \in Declared : Cached(f) => Cached(f)'
  BY <1>1, <1>4, SubsetsOfName DEF Cached, Good, Holds, Declared
<1>6. Complete => Complete'
  BY <1>1, <1>2, <1>4 DEF Complete, Good, Holds
<1> QED
  BY <1>2, <1>4, <1>5, <1>6

LEMMA PipelineOthers ==
  ASSUME TypeOK, Labels, flow = "pipeline", NEW p \in Process, PipelineKnows(p), Step(p),
         NEW q \in Process, q # p, PipelineKnows(q)
  PROVE  PipelineKnows(q)'
<1>1. run'[q] = run[q]
  BY OthersKept DEF TypeOK, Runs, LabelSet
<1>2. UNCHANGED transported
  BY StepTyped
<1>3. run[q].todo \subseteq Declared /\ run[q].left \subseteq Parts
  BY DEF TypeOK
<1> QED
  BY <1>1, <1>2, <1>3, PipelineMono DEF PipelineKnows, Backed, PartsGood

(* What its own step adds to what a run knows.                             *)
LEMMA PipelineOwn ==
  ASSUME TypeOK, Labels, flow = "pipeline", NEW p \in Process, PipelineKnows(p), Step(p)
  PROVE  PipelineKnows(p)' /\ run'[p].at \in Ended \cup Both \cup PipelineOnly
<1> DEFINE early == {"open", "fetch manifest", "withdraw old", "drop old", "layout", "fetch layout",
                     "idle", "failed", "crashed"}
<1>1. run \in [Process -> Runs] /\ run[p].todo \subseteq Declared /\ run[p].left \subseteq Parts
  BY DEF TypeOK, Runs, LabelSet
<1>2. disk \in [Name -> {"absent", "bad", "good"}]
  BY DEF TypeOK
<1>3. UNCHANGED <<flow, transported>> /\ Declared' = Declared /\ Small' = Small
  BY StepTyped, PipelineMono
<1>4. ASSUME run'[p].at \in early
      PROVE  PipelineKnows(p)' /\ run'[p].at \in Ended \cup Both \cup PipelineOnly
  BY <1>4 DEF PipelineKnows, Ended, Both, PipelineOnly
<1>5. ASSUME run'[p].at = "files", \A f \in Declared \ run'[p].todo : Cached(f)'
      PROVE  PipelineKnows(p)' /\ run'[p].at \in Ended \cup Both \cup PipelineOnly
  BY <1>3, <1>5 DEF PipelineKnows, PipelineOnly
<1>6. CASE Launch(p) \/ Crash(p)
  BY <1>1, <1>4, <1>6, LaunchDoes, GoDoes DEF Crash
<1>7. CASE FetchManifest(p)
  BY <1>1, <1>4, <1>7, FetchedDoes, FailDoes, MissedDoes DEF FetchManifest, At
<1>8. CASE WithdrawOld(p)
  BY <1>1, <1>4, <1>8, GoDoes, ReplacingDoes DEF WithdrawOld
<1>9. CASE DropOld(p)
  BY <1>1, <1>4, <1>9, FailDoes, ReplacingDoes DEF DropOld
<1>10. CASE RemoveStale(p)
  <2>1. CASE Go(p, "drop stale") /\ UNCHANGED disk
    <3>1. /\ run'[p].at = "drop stale" /\ run'[p].file = run[p].file /\ run'[p].todo = run[p].todo
          /\ run'[p].commit = run[p].commit
      BY <1>1, <2>1, GoDoes
    <3>2. /\ \A f \in Declared \ run[p].todo : Cached(f)
          /\ run[p].file \in run[p].todo /\ run[p].commit /\ PartsGood /\ Backed(p)
      BY <1>10 DEF RemoveStale, At, PipelineKnows
    <3>3. PartsGood' /\ Backed(p)'
      BY <1>3, <3>1, <3>2, PipelineMono DEF PartsGood, Backed
    <3> QED
      BY <1>3, <3>1, <3>2, <3>3, PipelineMono DEF PipelineKnows, Both
  <2>2. CASE StaleGone(p) /\ ~ Holds(Logical) /\ UNCHANGED disk
    <3>1. run'[p].at = "files" /\ run'[p].todo = run[p].todo \ {Logical}
      BY <1>1, <2>2, StaleGoneDoes
    <3>2. (\A f \in Declared \ run[p].todo : Cached(f)) /\ Cached(Logical)
      BY <1>10, <2>2 DEF RemoveStale, At, PipelineKnows, Cached, PartsGood, Backed, Good
    <3> QED
      BY <1>3, <1>5, <2>2, <3>1, <3>2 DEF Cached, Holds
  <2> QED
    BY <1>10, <2>1, <2>2 DEF RemoveStale
<1>11. CASE DropStale(p)
  <2>1. CASE Put(Logical, "absent") /\ StaleGone(p)
    <3>1. run'[p].at = "files" /\ run'[p].todo = run[p].todo \ {Logical}
      BY <1>1, <2>1, StaleGoneDoes
    <3>2. (\A f \in Declared \ run[p].todo : Cached(f)) /\ transported /\ PartsGood
      BY <1>11 DEF DropStale, At, PipelineKnows, Backed
    <3>3. \A f \in Declared \ run[p].todo : Cached(f)'
      BY <3>2, PipelineMono
    <3>4. PartsGood' /\ disk'[Logical] = "absent"
      BY <1>2, <2>1, <3>2, PipelineMono, SubsetsOfName DEF PartsGood, Put
    <3>5. \A f \in Declared \ run'[p].todo : f = Logical \/ f \in Declared \ run[p].todo
      BY <3>1
    <3>6. transported' /\ \A q \in Parts : disk'[q] = "good"
      BY <1>3, <3>2, <3>4 DEF PartsGood, Good
    <3>7. \A f \in Declared \ run'[p].todo : Cached(f)'
      BY <3>3, <3>4, <3>5, <3>6 DEF Cached, Holds
    <3> QED
      BY <1>5, <3>1, <3>7
  <2>2. CASE Fail(p, "raced")
    BY <1>1, <1>4, <2>2, FailDoes
  <2> QED
    BY <1>11, <2>1, <2>2 DEF DropStale
<1>12. CASE ReadManifest(p)
  BY <1>1, <1>4, <1>12, GoDoes DEF ReadManifest
<1>13. CASE ResolveLayout(p)
  BY <1>1, <1>3, <1>4, <1>5, <1>13, GoDoes, ListedDoes DEF ResolveLayout
<1>14. CASE FetchLayout(p)
  BY <1>1, <1>3, <1>4, <1>5, <1>14, FailDoes, ListedDoes, MissedDoes DEF FetchLayout, At
<1>15. CASE CheckFile(p)
  <2> DEFINE label == IF run[p].commit THEN "repair" ELSE "withdraw"
  <2>1. PICK f \in run[p].todo :
          IF Cached(f) THEN run' = [run EXCEPT ![p].todo = @ \ {f}]
          ELSE run' = [run EXCEPT ![p].file = f, ![p].left = Parts, ![p].at = label]
    BY <1>15 DEF CheckFile
  <2>2. UNCHANGED disk /\ \A g \in Declared \ run[p].todo : Cached(g)
    BY <1>15 DEF CheckFile, At, PipelineKnows
  <2>3. \A g \in Declared : Cached(g) => Cached(g)'
    BY PipelineMono
  <2>4. CASE Cached(f)
    <3>1. run'[p].at = "files" /\ run'[p].todo = run[p].todo \ {f}
      BY <1>1, <1>15, <2>1, <2>4, TodoDoes DEF CheckFile, At
    <3> QED
      BY <1>1, <1>3, <1>5, <2>2, <2>4, <3>1 DEF Cached, Holds
  <2>5. CASE ~ Cached(f)
    <3>1. run' = [run EXCEPT ![p].file = f, ![p].left = Parts, ![p].at = label]
      BY <2>1, <2>5
    <3>2. /\ run'[p].at = label /\ run'[p].file = f /\ run'[p].todo = run[p].todo
          /\ run'[p].left = Parts /\ run'[p].commit = run[p].commit
      <4> HIDE DEF label
      <4> QED
        BY <1>1, <3>1 DEF Runs
    <3>3. run[p].commit \in BOOLEAN
      BY <1>1 DEF Runs
    <3> QED
      BY <1>3, <2>1, <2>2, <2>3, <3>2, <3>3 DEF PipelineKnows, PipelineOnly
  <2> QED
    BY <2>4, <2>5
<1>16. CASE Withdraw(p)
  <2>1. CASE Fail(p, "raced")
    BY <1>1, <1>4, <2>1, FailDoes
  <2>2. CASE run' = [run EXCEPT ![p].at = "repair", ![p].commit = TRUE]
    <3>1. /\ run'[p].at = "repair" /\ run'[p].file = run[p].file /\ run'[p].todo = run[p].todo
          /\ run'[p].left = run[p].left /\ run'[p].commit = TRUE
      BY <1>1, <2>2, WithdrawDoes
    <3>2. /\ \A f \in Declared \ run[p].todo : Cached(f)
          /\ run[p].file \in run[p].todo /\ run[p].left = Parts
      BY <1>16 DEF Withdraw, At, PipelineKnows
    <3> QED
      BY <1>3, <3>1, <3>2, PipelineMono DEF PipelineKnows, PipelineOnly
  <2> QED
    BY <1>16, <2>1, <2>2 DEF Withdraw
<1>17. ASSUME At(p, "repair"), Missed(p)
       PROVE  PipelineKnows(p)' /\ run'[p].at \in Ended \cup Both \cup PipelineOnly
  <2>1. /\ run'[p].at \in {"repair", "failed"}
        /\ run'[p].file = run[p].file /\ run'[p].todo = run[p].todo
        /\ run'[p].left = run[p].left /\ run'[p].commit = run[p].commit
    BY <1>1, <1>17, MissedDoes DEF At
  <2>2. /\ \A f \in Declared \ run[p].todo : Cached(f)
        /\ run[p].file \in run[p].todo /\ run[p].commit
        /\ \A q \in Parts \ run[p].left : Good(q)
    BY <1>17 DEF At, PipelineKnows
  <2> QED
    BY <1>3, <2>1, <2>2, PipelineMono DEF PipelineKnows, PipelineOnly, Ended
<1>18. CASE RepairDirect(p)
  <2> DEFINE rest == run[p].todo \ {run[p].file}
  <2>1. CASE Put(run[p].file, "good") /\ run' = [run EXCEPT ![p].at = "files", ![p].todo = rest, ![p].tries = 1]
    <3>1. run'[p].at = "files" /\ run'[p].todo = run[p].todo \ {run[p].file}
      <4>1. run' = [run EXCEPT ![p].at = "files", ![p].todo = rest, ![p].tries = 1]
        BY <2>1
      <4> HIDE DEF rest
      <4>2. run'[p].at = "files" /\ run'[p].todo = rest
        BY <1>1, <4>1, RepairedDoes
      <4> QED
        BY <4>2 DEF rest
    <3>2. /\ \A f \in Declared \ run[p].todo : Cached(f)
          /\ run[p].file \in Declared /\ ~ (transported /\ run[p].file = Logical)
      BY <1>1, <1>18 DEF RepairDirect, At, PipelineKnows, Backed
    <3>3. Cached(run[p].file)'
      <4>1. disk'[run[p].file] = "good"
        BY <1>2, <2>1, <3>2, SubsetsOfName DEF Put
      <4>2. ~ (transported /\ run'[p].file = Logical) /\ run'[p].file = run[p].file
        BY <1>1, <2>1, <3>2 DEF Runs
      <4> QED
        BY <1>3, <4>1, <4>2 DEF Cached
    <3>4. \A f \in Declared \ run[p].todo : Cached(f)'
      BY <3>2, PipelineMono
    <3>5. run'[p].file = run[p].file
      BY <1>1, <2>1 DEF Runs
    <3> QED
      BY <1>3, <1>5, <3>1, <3>3, <3>4, <3>5
  <2> QED
    BY <1>17, <1>18, <2>1 DEF RepairDirect
<1>19. CASE RepairPart(p)
  <2>1. PICK q \in run[p].left :
          \/ /\ disk[q] = "good" \/ Put(q, "good")
             /\ \/ run' = [run EXCEPT ![p].left = @ \ {q}]
                \/ run' = [run EXCEPT ![p].left = @ \ {q}, ![p].tries = 1]
          \/ Missed(p)
    BY <1>19 DEF RepairPart
  <2>2. At(p, "repair") /\ Backed(p)
    BY <1>19 DEF RepairPart
  <2>3. CASE /\ disk[q] = "good" \/ Put(q, "good")
             /\ \/ run' = [run EXCEPT ![p].left = @ \ {q}]
                \/ run' = [run EXCEPT ![p].left = @ \ {q}, ![p].tries = 1]
    <3>1. /\ run'[p].at = "repair" /\ run'[p].file = run[p].file /\ run'[p].todo = run[p].todo
          /\ run'[p].left = run[p].left \ {q} /\ run'[p].commit = run[p].commit
      BY <1>1, <2>2, <2>3, LeftDoes DEF At
    <3>2. /\ \A f \in Declared \ run[p].todo : Cached(f)
          /\ run[p].file \in run[p].todo /\ run[p].commit
          /\ \A r \in Parts \ run[p].left : Good(r)
      BY <2>2 DEF At, PipelineKnows
    <3>3. Good(q)'
      <4>1. q \in Parts /\ q \in Name
        BY <1>1, SubsetsOfName
      <4> QED
        BY <1>2, <2>3, <4>1, PipelineMono DEF Good, Put
    <3> QED
      BY <1>3, <3>1, <3>2, <3>3, PipelineMono DEF PipelineKnows, PipelineOnly
  <2> QED
    BY <1>17, <2>1, <2>2, <2>3
<1>20. CASE PartsDone(p)
  <2>1. At(p, "repair") /\ Backed(p) /\ run[p].left = {} /\ Go(p, "stale") /\ UNCHANGED disk
    BY <1>20 DEF PartsDone
  <2>2. /\ run'[p].at = "stale" /\ run'[p].file = run[p].file /\ run'[p].todo = run[p].todo
        /\ run'[p].commit = run[p].commit
    BY <1>1, <2>1, GoDoes
  <2>3. /\ \A f \in Declared \ run[p].todo : Cached(f)
        /\ run[p].file \in run[p].todo /\ run[p].commit /\ PartsGood
    BY <2>1 DEF At, PipelineKnows, PartsGood
  <2>4. PartsGood' /\ Backed(p)'
    BY <1>3, <2>1, <2>2, <2>3, PipelineMono DEF PartsGood, Backed
  <2> QED
    BY <1>3, <2>2, <2>3, <2>4, PipelineMono DEF PipelineKnows, Both
<1>21. CASE FilesDone(p)
  <2> DEFINE label == IF run[p].commit THEN "commit" ELSE "ok"
  <2>1. Go(p, label) /\ \A f \in Declared : Cached(f)
    BY <1>21 DEF FilesDone, At, PipelineKnows
  <2>2. run'[p].at = label /\ run'[p].commit = run[p].commit
    BY <1>1, <2>1, GoDoes
  <2>3. Complete
    BY <2>1, SubsetsOfName DEF Complete, Cached, Holds
  <2>4. run[p].commit \in BOOLEAN
    BY <1>1 DEF Runs
  <2> QED
    BY <2>2, <2>3, <2>4, PipelineMono DEF PipelineKnows, Both, Ended
<1>22. CASE CommitPipeline(p)
  <2>1. Go(p, "ok") /\ Complete
    BY <1>22 DEF CommitPipeline, At, PipelineKnows
  <2>2. run'[p].at = "ok"
    BY <1>1, <2>1, GoDoes
  <2> QED
    BY <2>1, <2>2, PipelineMono DEF PipelineKnows, Ended
<1> QED
  BY <1>6, <1>7, <1>8, <1>9, <1>10, <1>11, <1>12, <1>13, <1>14, <1>15, <1>16, <1>18, <1>19, <1>20,
     <1>21, <1>22, PipelineActions

-----------------------------------------------------------------------------
(* ensure_dependency: one run at a time on a withdrawn bundle              *)

LEMMA DependencyActions ==
  ASSUME Labels, flow = "dependency", NEW p \in Process, Step(p)
  PROVE  \/ Launch(p) \/ Crash(p) \/ FetchManifest(p) \/ WithdrawOld(p) \/ DropOld(p)
         \/ RemoveStale(p) \/ DropStale(p)
         \/ OpenBundle(p) \/ InstallCompact(p) \/ SeeLayout(p) \/ InstallWeight(p)
         \/ FetchFile(p) \/ Clear(p) \/ Place(p) \/ ClearManifest(p) \/ Seal(p) \/ Reopen(p)
<1>1. run[p].at \in Ended \cup Both \cup DependencyOnly
  BY DEF Labels
<1>2. run[p].at \notin PipelineOnly
  BY <1>1 DEF Ended, Both, PipelineOnly, DependencyOnly
<1>3. ~ ReadManifest(p) /\ ~ CommitPipeline(p) /\ ~ FilesDone(p)
  BY <1>2 DEF ReadManifest, CommitPipeline, FilesDone, At, PipelineOnly
<1>4. ~ ResolveLayout(p) /\ ~ FetchLayout(p) /\ ~ CheckFile(p) /\ ~ Withdraw(p)
  BY <1>2 DEF At, PipelineOnly, ResolveLayout, FetchLayout, CheckFile, Withdraw
<1>5. ~ RepairDirect(p) /\ ~ RepairPart(p) /\ ~ PartsDone(p)
  BY <1>2 DEF At, PipelineOnly, RepairDirect, RepairPart, PartsDone
<1> QED
  BY <1>3, <1>4, <1>5 DEF Step, Work

(* A file that is cleared, placed or withdrawn changes no other file.      *)
LEMMA PutDoes ==
  ASSUME disk \in [Name -> {"absent", "bad", "good"}], NEW f \in Name, NEW what, Put(f, what)
  PROVE  disk'[f] = what /\ \A g \in Name : g # f => disk'[g] = disk[g]
BY DEF Put

LEMMA DependencyAlone ==
  ASSUME TypeOK, Alone, "dependency" \notin Overlap, flow = "dependency",
         NEW p \in Process, Step(p), NEW q \in Process, q # p
  PROVE  ~ Active(q) /\ ~ Active(q)' /\ run'[q] = run[q]
<1>1. run'[q] = run[q]
  BY OthersKept DEF TypeOK, Runs, LabelSet
<1>2. ~ Active(q)
  <2>1. CASE Work(p) \/ Crash(p)
    BY <2>1, WorkIsActive DEF Alone, Crash, Active
  <2>2. CASE Launch(p)
    BY <2>2 DEF Launch, Active
  <2> QED
    BY <2>1, <2>2 DEF Step
<1> QED
  BY <1>1, <1>2 DEF Active

LEMMA DependencyOthers ==
  ASSUME TypeOK, Labels, Alone, "dependency" \notin Overlap, flow = "dependency",
         NEW p \in Process, Step(p), NEW q \in Process, q # p, DependencyKnows(q)
  PROVE  DependencyKnows(q)'
<1>1. ~ Active(q) /\ run'[q] = run[q]
  BY DependencyAlone
<1>2. run'[q].at \in Ended
  BY <1>1 DEF Active
<1>3. CASE run[q].at # "ok"
  BY <1>1, <1>2, <1>3 DEF DependencyKnows, Ended, DependencyOnly
<1>4. CASE run[q].at = "ok"
  <2>1. Good(Manifest) /\ Complete /\ \A r \in Process : Active(r) => run[r].at = "open"
    BY <1>4 DEF DependencyKnows
  <2>2. Launch(p) \/ Crash(p) \/ OpenBundle(p)
    <3>1. ~ Active(p) \/ run[p].at = "open"
      BY <2>1
    <3>2. Work(p) => OpenBundle(p)
      <4>1. SUFFICES ASSUME Work(p) PROVE OpenBundle(p)
        OBVIOUS
      <4>2. run[p].at = "open"
        BY <3>1, <4>1, WorkIsActive
      <4>3. ~ ReadManifest(p)
        BY DEF ReadManifest
      <4> QED
        BY <4>1, <4>2, <4>3
           DEF Work, At, FetchManifest, WithdrawOld, DropOld, RemoveStale, DropStale,
               ResolveLayout, FetchLayout, CheckFile, Withdraw, RepairDirect, RepairPart,
               PartsDone, FilesDone, CommitPipeline, InstallCompact, SeeLayout,
               InstallWeight, FetchFile, Clear, Place, ClearManifest, Seal, Reopen
    <3> QED
      BY <3>2 DEF Step
  <2>3. UNCHANGED disk /\ UNCHANGED transported
    BY <2>2, StepTyped DEF Launch, Crash, OpenBundle
  <2>4. run'[p].at \in {"open", "ok", "crashed"}
    <3>1. run \in [Process -> Runs]
      BY DEF TypeOK, Runs, LabelSet
    <3>2. OpenBundle(p) => Go(p, "ok")
      BY <2>1 DEF OpenBundle, Good
    <3> QED
      BY <2>2, <3>1, <3>2, LaunchDoes, GoDoes DEF Crash
  <2>5. \A r \in Process : Active(r)' => run'[r].at = "open"
    BY <2>4, DependencyAlone DEF Active, Ended
  <2>6. Good(Manifest)' /\ Complete'
    BY <2>1, <2>3 DEF Good, Complete, Small
  <2> QED
    BY <1>1, <1>4, <2>5, <2>6 DEF DependencyKnows, DependencyOnly
<1> QED
  BY <1>3, <1>4

(* What its own step adds to what a run knows.                             *)
LEMMA DependencyOwn ==
  ASSUME TypeOK, Labels, Alone, "dependency" \notin Overlap, flow = "dependency",
         NEW p \in Process, DependencyKnows(p), Step(p)
  PROVE  DependencyKnows(p)' /\ run'[p].at \in Ended \cup Both \cup DependencyOnly
<1> DEFINE early == {"open", "fetch manifest", "withdraw old", "drop old", "idle", "failed", "crashed"}
<1>1. run \in [Process -> Runs] /\ run[p].todo \subseteq Declared /\ run[p].left \subseteq Parts
  BY DEF TypeOK, Runs, LabelSet
<1>2. disk \in [Name -> {"absent", "bad", "good"}]
  BY DEF TypeOK
<1>3. UNCHANGED <<flow, transported>> /\ Declared' = Declared /\ Small' = Small
  BY StepTyped DEF Declared, Small
<1>4. ASSUME run'[p].at \in early
      PROVE  DependencyKnows(p)' /\ run'[p].at \in Ended \cup Both \cup DependencyOnly
  BY <1>4 DEF DependencyKnows, Ended, Both, DependencyOnly
<1>5. ASSUME run'[p].at = "ok", Good(Manifest)', Complete'
      PROVE  DependencyKnows(p)' /\ run'[p].at \in Ended \cup Both \cup DependencyOnly
  <2>1. \A q \in Process : ~ Active(q)'
    BY <1>5, DependencyAlone DEF Active, Ended
  <2> QED
    BY <1>5, <2>1 DEF DependencyKnows, Ended, DependencyOnly
<1>6. ASSUME run'[p].at = "commit", run'[p].commit, disk'[Manifest] = "absent", Complete'
      PROVE  DependencyKnows(p)' /\ run'[p].at \in Ended \cup Both \cup DependencyOnly
  BY <1>6 DEF DependencyKnows, Both, DependencyOnly
<1>7. CASE Launch(p) \/ Crash(p)
  BY <1>1, <1>4, <1>7, LaunchDoes, GoDoes DEF Crash
<1>8. CASE FetchManifest(p)
  BY <1>1, <1>4, <1>8, FetchedDoes, FailDoes, MissedDoes DEF FetchManifest, At
<1>9. ASSUME Replacing(p), disk'[Manifest] = "absent"
      PROVE  DependencyKnows(p)' /\ run'[p].at \in Ended \cup Both \cup DependencyOnly
  <2>1. run'[p].at = "compact" /\ run'[p].todo = Small /\ run'[p].commit = TRUE
    BY <1>1, <1>9, ReplacingDoes
  <2> QED
    BY <1>3, <1>9, <2>1 DEF DependencyKnows, DependencyOnly
<1>10. CASE WithdrawOld(p)
  <2>1. CASE Go(p, "drop old")
    BY <1>1, <1>4, <2>1, GoDoes
  <2>2. CASE ~ Holds(Manifest) /\ Replacing(p) /\ UNCHANGED disk
    BY <1>9, <2>2 DEF Holds
  <2> QED
    BY <1>10, <2>1, <2>2 DEF WithdrawOld
<1>11. CASE DropOld(p)
  <2>1. CASE Fail(p, "raced")
    BY <1>1, <1>4, <2>1, FailDoes
  <2>2. CASE Put(Manifest, "absent") /\ Replacing(p)
    BY <1>2, <1>9, <2>2, SubsetsOfName, PutDoes
  <2> QED
    BY <1>11, <2>1, <2>2 DEF DropOld
<1>12. CASE RemoveStale(p)
  <2>1. /\ run[p].commit /\ disk[Manifest] = "absent" /\ SmallGood /\ transported /\ PartsGood
        /\ UNCHANGED disk
    BY <1>12 DEF RemoveStale, At, DependencyKnows
  <2>2. SmallGood' /\ PartsGood'
    BY <1>3, <2>1 DEF SmallGood, PartsGood, Good
  <2>3. CASE Go(p, "drop stale")
    <3>1. run'[p].at = "drop stale" /\ run'[p].commit = run[p].commit
      BY <1>1, <2>3, GoDoes
    <3> QED
      BY <1>3, <2>1, <2>2, <3>1 DEF DependencyKnows, Both, DependencyOnly
  <2>4. CASE StaleGone(p) /\ ~ Holds(Logical)
    <3>1. run'[p].at = "commit" /\ run'[p].commit = run[p].commit
      BY <1>1, <2>4, StaleGoneDoes
    <3>2. Complete'
      BY <1>3, <2>1, <2>4 DEF Complete, SmallGood, PartsGood, Good, Holds
    <3> QED
      BY <1>6, <2>1, <3>1, <3>2
  <2> QED
    BY <1>12, <2>3, <2>4 DEF RemoveStale
<1>13. CASE DropStale(p)
  <2>1. run[p].commit /\ disk[Manifest] = "absent" /\ SmallGood /\ transported /\ PartsGood
    BY <1>13 DEF DropStale, At, DependencyKnows
  <2>2. CASE Fail(p, "raced")
    BY <1>1, <1>4, <2>2, FailDoes
  <2>3. CASE Put(Logical, "absent") /\ StaleGone(p)
    <3>1. run'[p].at = "commit" /\ run'[p].commit = run[p].commit
      BY <1>1, <2>3, StaleGoneDoes
    <3>2. disk'[Logical] = "absent" /\ \A g \in Name : g # Logical => disk'[g] = disk[g]
      BY <1>2, <2>3, SubsetsOfName, PutDoes
    <3>3. Complete' /\ disk'[Manifest] = "absent"
      BY <1>3, <2>1, <3>2, SubsetsOfName DEF Complete, SmallGood, PartsGood, Good
    <3> QED
      BY <1>6, <2>1, <3>1, <3>3
  <2> QED
    BY <1>13, <2>2, <2>3 DEF DropStale
<1>14. CASE OpenBundle(p)
  <2>1. CASE Go(p, "ok") /\ disk[Manifest] = "good" /\ Complete /\ UNCHANGED disk
    <3>1. run'[p].at = "ok"
      BY <1>1, <2>1, GoDoes
    <3>2. Good(Manifest)' /\ Complete'
      BY <1>3, <2>1 DEF Good, Complete
    <3> QED
      BY <1>5, <3>1, <3>2
  <2>2. CASE Go(p, "fetch manifest")
    BY <1>1, <1>4, <2>2, GoDoes
  <2> QED
    BY <1>14, <2>1, <2>2 DEF OpenBundle
<1>15. CASE InstallCompact(p)
  <2>1. /\ run[p].commit /\ disk[Manifest] = "absent" /\ run[p].todo \subseteq Small
        /\ \A f \in Small \ run[p].todo : Good(f)
    BY <1>15 DEF InstallCompact, At, DependencyKnows, DependencyOnly
  <2>2. PICK f \in run[p].todo : \/ Good(f) /\ run' = [run EXCEPT ![p].todo = @ \ {f}]
                                 \/ run' = Fetching(p, f)
    BY <1>15 DEF InstallCompact, Good
  <2>3. run[p].at = "compact" /\ UNCHANGED disk
    BY <1>15 DEF InstallCompact, At
  <2>4. CASE Good(f) /\ run' = [run EXCEPT ![p].todo = @ \ {f}]
    <3>1. run'[p].at = "compact" /\ run'[p].commit = run[p].commit /\ run'[p].todo = run[p].todo \ {f}
      BY <1>1, <2>3, <2>4, TodoDoes
    <3>2. run'[p].todo \subseteq Small /\ \A g \in Small \ run'[p].todo : Good(g)
      BY <2>1, <2>4, <3>1
    <3> QED
      BY <1>3, <2>1, <2>3, <3>1, <3>2 DEF DependencyKnows, DependencyOnly, Good
  <2>5. CASE run' = Fetching(p, f)
    <3>1. run'[p].at = "fetch file" /\ run'[p].commit = run[p].commit /\ run'[p].todo = run[p].todo
          /\ run'[p].file = f
      BY <1>1, <2>5, FetchingDoes
    <3> QED
      BY <1>3, <2>1, <2>3, <3>1 DEF DependencyKnows, DependencyOnly, Good
  <2> QED
    BY <2>2, <2>4, <2>5
<1>16. CASE SeeLayout(p)
  <2>1. run[p].commit /\ disk[Manifest] = "absent" /\ SmallGood /\ UNCHANGED disk
    BY <1>16 DEF SeeLayout, At, DependencyKnows, DependencyOnly, SmallGood
  <2>2. /\ run'[p].at = "weights" /\ run'[p].left = Parts /\ run'[p].commit = run[p].commit
        /\ run'[p].sees = (transported /\ disk[Sidecar] = "good")
    BY <1>1, <1>16, SeeLayoutDoes
  <2>3. run'[p].sees = transported
    <3>1. transported \in BOOLEAN
      BY DEF TypeOK
    <3> QED
      BY <2>1, <2>2, <3>1 DEF SmallGood, Small, Good
  <2>4. SmallGood'
    BY <1>3, <2>1 DEF SmallGood, Good
  <2> QED
    BY <1>3, <2>1, <2>2, <2>3, <2>4 DEF DependencyKnows, DependencyOnly
<1>17. CASE InstallWeight(p)
  <2>1. /\ run[p].at = "weights" /\ run[p].commit /\ disk[Manifest] = "absent" /\ SmallGood
        /\ UNCHANGED disk /\ run[p].sees = transported
        /\ \A q \in Parts \ run[p].left : Good(q)
    BY <1>17 DEF InstallWeight, At, DependencyKnows, DependencyOnly
  <2>2. SmallGood'
    BY <1>3, <2>1 DEF SmallGood, Good
  <2>3. ASSUME NEW q \in run[p].left, transported, Good(q), run' = [run EXCEPT ![p].left = @ \ {q}]
        PROVE  DependencyKnows(p)' /\ run'[p].at \in Ended \cup Both \cup DependencyOnly
    <3>1. /\ run'[p].at = "weights" /\ run'[p].left = run[p].left \ {q}
          /\ run'[p].commit = run[p].commit /\ run'[p].sees = run[p].sees
      BY <1>1, <2>1, <2>3, LeftDoes
    <3>2. \A r \in Parts \ run'[p].left : Good(r)
      BY <2>1, <2>3, <3>1
    <3> QED
      BY <1>3, <2>1, <2>2, <3>1, <3>2 DEF DependencyKnows, DependencyOnly, Good
  <2>4. ASSUME NEW q \in run[p].left, transported, run' = Fetching(p, q)
        PROVE  DependencyKnows(p)' /\ run'[p].at \in Ended \cup Both \cup DependencyOnly
    <3>1. /\ run'[p].at = "fetch file" /\ run'[p].file = q /\ run'[p].left = run[p].left
          /\ run'[p].commit = run[p].commit /\ run'[p].sees = run[p].sees
      BY <1>1, <2>4, FetchingDoes
    <3> QED
      BY <1>3, <2>1, <2>2, <2>4, <3>1 DEF DependencyKnows, DependencyOnly, Good
  <2>5. ASSUME transported, run[p].left = {}, Go(p, "stale")
        PROVE  DependencyKnows(p)' /\ run'[p].at \in Ended \cup Both \cup DependencyOnly
    <3>1. run'[p].at = "stale" /\ run'[p].commit = run[p].commit
      BY <1>1, <2>5, GoDoes
    <3>2. PartsGood'
      BY <2>1, <2>5 DEF PartsGood, Good
    <3> QED
      BY <1>3, <2>1, <2>2, <2>5, <3>1, <3>2 DEF DependencyKnows, DependencyOnly, Both
  <2>6. ASSUME ~ transported, disk[Logical] = "good", Go(p, "commit")
        PROVE  DependencyKnows(p)' /\ run'[p].at \in Ended \cup Both \cup DependencyOnly
    <3>1. run'[p].at = "commit" /\ run'[p].commit = run[p].commit
      BY <1>1, <2>6, GoDoes
    <3>2. Complete'
      BY <1>3, <2>1, <2>6 DEF Complete, SmallGood, Good
    <3> QED
      BY <1>6, <2>1, <3>1, <3>2
  <2>7. ASSUME ~ transported, run' = Fetching(p, Logical)
        PROVE  DependencyKnows(p)' /\ run'[p].at \in Ended \cup Both \cup DependencyOnly
    <3>1. /\ run'[p].at = "fetch file" /\ run'[p].file = Logical /\ run'[p].commit = run[p].commit
      BY <1>1, <2>7, FetchingDoes
    <3> QED
      BY <1>3, <2>1, <2>2, <2>7, <3>1 DEF DependencyKnows, DependencyOnly
  <2> QED
    BY <1>17, <2>1, <2>3, <2>4, <2>5, <2>6, <2>7 DEF InstallWeight, Good
<1>18. CASE FetchFile(p)
  <2>1. CASE Fail(p, "network")
    BY <1>1, <1>4, <2>1, FailDoes
  <2>2. CASE Go(p, "clear")
    <3>1. /\ run'[p].at = "clear" /\ run'[p].file = run[p].file /\ run'[p].todo = run[p].todo
          /\ run'[p].left = run[p].left /\ run'[p].commit = run[p].commit
          /\ run'[p].sees = run[p].sees
      BY <1>1, <2>2, GoDoes
    <3>2. run[p].at = "fetch file" /\ UNCHANGED disk
      BY <1>18 DEF FetchFile, At
    <3> QED
      BY <1>3, <3>1, <3>2 DEF DependencyKnows, DependencyOnly, SmallGood, Good
  <2> QED
    BY <1>18, <2>1, <2>2 DEF FetchFile
<1>19. CASE Clear(p)
  <2>1. run[p].at = "clear" /\ Put(run[p].file, "absent") /\ Go(p, "place")
    BY <1>19 DEF Clear, At
  <2>2. /\ run'[p].at = "place" /\ run'[p].file = run[p].file /\ run'[p].todo = run[p].todo
        /\ run'[p].left = run[p].left /\ run'[p].commit = run[p].commit
        /\ run'[p].sees = run[p].sees
    BY <1>1, <2>1, GoDoes
  <2>3. /\ run[p].commit /\ disk[Manifest] = "absent"
        /\ \/ run[p].file \in run[p].todo /\ run[p].todo \subseteq Small
              /\ \A f \in Small \ run[p].todo : Good(f)
           \/ /\ transported /\ run[p].file \in run[p].left /\ SmallGood
              /\ run[p].sees /\ \A q \in Parts \ run[p].left : Good(q)
           \/ ~ transported /\ run[p].file = Logical /\ SmallGood
    BY <2>1 DEF DependencyKnows, DependencyOnly
  <2>4. run[p].file \in Name /\ run[p].file # Manifest
    BY <1>1, <2>3, SubsetsOfName
  <2>5. disk'[Manifest] = "absent" /\ \A g \in Name : g # run[p].file => disk'[g] = disk[g]
    BY <1>2, <2>1, <2>3, <2>4, SubsetsOfName, PutDoes
  <2>6. \/ run'[p].file \in run'[p].todo /\ run'[p].todo \subseteq Small
           /\ \A f \in Small \ run'[p].todo : Good(f)'
        \/ /\ transported /\ run'[p].file \in run'[p].left /\ SmallGood'
           /\ run'[p].sees /\ \A q \in Parts \ run'[p].left : Good(q)'
        \/ ~ transported /\ run'[p].file = Logical /\ SmallGood'
    <3>1. CASE run[p].file \in run[p].todo /\ run[p].todo \subseteq Small
               /\ \A f \in Small \ run[p].todo : Good(f)
      BY <2>2, <2>5, <3>1, SubsetsOfName DEF Good
    <3>2. CASE /\ transported /\ run[p].file \in run[p].left /\ SmallGood
               /\ run[p].sees /\ \A q \in Parts \ run[p].left : Good(q)
      BY <1>1, <1>3, <2>2, <2>5, <3>2, SubsetsOfName DEF Good, SmallGood
    <3>3. CASE ~ transported /\ run[p].file = Logical /\ SmallGood
      BY <1>3, <2>2, <2>5, <3>3, SubsetsOfName DEF Good, SmallGood
    <3> QED
      BY <2>3, <3>1, <3>2, <3>3
  <2> QED
    BY <1>3, <2>2, <2>3, <2>5, <2>6 DEF DependencyKnows, DependencyOnly
<1>20. CASE Place(p)
  <2>1. run[p].at = "place" /\ Put(run[p].file, "good")
    BY <1>20 DEF Place, At
  <2>2. /\ run'[p].at = IF run[p].file = Logical THEN "commit"
                        ELSE IF run[p].file \in Parts THEN "weights" ELSE "compact"
        /\ run'[p].file = run[p].file /\ run'[p].todo = run[p].todo \ {run[p].file}
        /\ run'[p].left = run[p].left \ {run[p].file} /\ run'[p].commit = run[p].commit
        /\ run'[p].sees = run[p].sees
    BY <1>1, <1>20, PlaceDoes
  <2>3. /\ run[p].commit /\ disk[Manifest] = "absent"
        /\ \/ run[p].file \in run[p].todo /\ run[p].todo \subseteq Small
              /\ \A f \in Small \ run[p].todo : Good(f)
           \/ /\ transported /\ run[p].file \in run[p].left /\ SmallGood
              /\ run[p].sees /\ \A q \in Parts \ run[p].left : Good(q)
           \/ ~ transported /\ run[p].file = Logical /\ SmallGood
    BY <2>1 DEF DependencyKnows, DependencyOnly
  <2>4. run[p].file \in Name /\ run[p].file # Manifest
    BY <1>1, <2>3, SubsetsOfName
  <2>5. /\ disk'[run[p].file] = "good" /\ disk'[Manifest] = "absent"
        /\ \A g \in Name : g # run[p].file => disk'[g] = disk[g]
    BY <1>2, <2>1, <2>3, <2>4, SubsetsOfName, PutDoes
  <2>6. CASE run[p].file \in run[p].todo /\ run[p].todo \subseteq Small
             /\ \A f \in Small \ run[p].todo : Good(f)
    <3>1. run'[p].at = "compact" /\ run'[p].todo \subseteq Small
      BY <2>2, <2>6, SubsetsOfName
    <3>2. \A f \in Small \ run'[p].todo : disk'[f] = "good"
      BY <2>2, <2>5, <2>6, SubsetsOfName DEF Good
    <3> QED
      BY <1>3, <2>2, <2>3, <2>5, <3>1, <3>2 DEF DependencyKnows, DependencyOnly, Good
  <2>7. CASE /\ transported /\ run[p].file \in run[p].left /\ SmallGood
             /\ run[p].sees /\ \A q \in Parts \ run[p].left : Good(q)
    <3>1. run'[p].at = "weights"
      BY <1>1, <2>2, <2>7, SubsetsOfName
    <3>2. \A q \in Parts \ run'[p].left : disk'[q] = "good"
      BY <2>2, <2>5, <2>7, SubsetsOfName DEF Good
    <3>3. SmallGood'
      BY <1>3, <2>5, <2>7, SubsetsOfName DEF Good, SmallGood
    <3>4. run'[p].sees = transported
      <4>1. transported \in BOOLEAN /\ run[p].sees \in BOOLEAN
        BY DEF TypeOK
      <4> QED
        BY <2>2, <2>7, <4>1
    <3> QED
      BY <1>3, <2>2, <2>3, <2>5, <3>1, <3>2, <3>3, <3>4 DEF DependencyKnows, DependencyOnly, Good
  <2>8. CASE ~ transported /\ run[p].file = Logical /\ SmallGood
    <3>1. Complete'
      BY <1>3, <2>5, <2>8, SubsetsOfName DEF Complete, SmallGood, Good
    <3> QED
      BY <1>6, <2>2, <2>3, <2>5, <2>8, <3>1
  <2> QED
    BY <2>3, <2>6, <2>7, <2>8
<1>21. CASE ClearManifest(p)
  <2>1. Put(Manifest, "absent") /\ Go(p, "seal") /\ Complete /\ run[p].commit
    BY <1>21 DEF ClearManifest, At, DependencyKnows
  <2>2. run'[p].at = "seal" /\ run'[p].commit = run[p].commit
    BY <1>1, <2>1, GoDoes
  <2>3. disk'[Manifest] = "absent" /\ Complete'
    BY <1>2, <1>3, <2>1, SubsetsOfName, PutDoes DEF Complete
  <2> QED
    BY <2>1, <2>2, <2>3 DEF DependencyKnows, DependencyOnly
<1>22. CASE Seal(p)
  <2>1. Put(Manifest, "good") /\ Go(p, "reopen") /\ Complete /\ run[p].commit
    BY <1>22 DEF Seal, At, DependencyKnows, DependencyOnly
  <2>2. run'[p].at = "reopen" /\ run'[p].commit = run[p].commit
    BY <1>1, <2>1, GoDoes
  <2>3. disk'[Manifest] = "good" /\ Complete'
    BY <1>2, <1>3, <2>1, SubsetsOfName, PutDoes DEF Complete
  <2> QED
    BY <2>1, <2>2, <2>3 DEF DependencyKnows, DependencyOnly, Good
<1>23. CASE Reopen(p)
  <2>1. /\ Good(Manifest) /\ Complete /\ UNCHANGED disk
        /\ Go(p, "ok") \/ Fail(p, "raced")
    BY <1>23 DEF Reopen, At, DependencyKnows
  <2>2. Good(Manifest)' /\ Complete'
    BY <1>3, <2>1 DEF Good, Complete
  <2> QED
    BY <1>1, <1>4, <1>5, <2>1, <2>2, GoDoes, FailDoes
<1> QED
  BY <1>7, <1>8, <1>10, <1>11, <1>12, <1>13, <1>14, <1>15, <1>16, <1>17, <1>18, <1>19, <1>20,
     <1>21, <1>22, <1>23, DependencyActions

LEMMA KnowledgeKept ==
  ASSUME TypeOK, Labels, Alone, Knowledge, "dependency" \notin Overlap,
         NEW p \in Process, Step(p)
  PROVE  Labels' /\ Knowledge'
<1>1. UNCHANGED flow /\ flow \in {"pipeline", "dependency"}
  BY StepTyped DEF TypeOK
<1>2. \A q \in Process \ {p} : run'[q] = run[q]
  BY OthersKept DEF TypeOK, Runs, LabelSet
<1>3. CASE flow = "pipeline"
  <2>1. \A q \in Process : PipelineKnows(q)
    BY <1>3 DEF Knowledge
  <2>2. \A q \in Process : PipelineKnows(q)'
    BY <1>3, <2>1, PipelineOwn, PipelineOthers
  <2>3. Labels'
    BY <1>1, <1>2, <1>3, <2>1, PipelineOwn DEF Labels
  <2> QED
    BY <1>1, <1>3, <2>2, <2>3 DEF Knowledge
<1>4. CASE flow = "dependency"
  <2>1. \A q \in Process : DependencyKnows(q)
    BY <1>4 DEF Knowledge
  <2>2. \A q \in Process : DependencyKnows(q)'
    BY <1>4, <2>1, DependencyOwn, DependencyOthers
  <2>3. Labels'
    BY <1>1, <1>2, <1>4, <2>1, DependencyOwn DEF Labels
  <2> QED
    BY <1>1, <1>4, <2>2, <2>3 DEF Knowledge
<1> QED
  BY <1>1, <1>3, <1>4

-----------------------------------------------------------------------------
(* Causes and commitments                                                  *)

(* How a run comes to its cause, and how it comes to hold the commit.      *)
Settled(p) ==
  /\ \/ run'[p].at # "failed" /\ run'[p].cause = run[p].cause
     \/ run'[p].at = "failed" /\ run'[p].cause = "network"
     \/ /\ run'[p].at = "failed" /\ run'[p].cause = "raced" /\ UNCHANGED disk
        /\ \/ At(p, "drop stale")
           \/ ~ Good(Manifest) /\ (~ Holds(Manifest) \/ At(p, "reopen"))
  /\ \/ run'[p].commit = run[p].commit
     \/ run'[p].commit /\ disk'[Manifest] = "absent"

LEMMA StepOutcome ==
  ASSUME TypeOK, NEW p \in Process, Work(p)
  PROVE  Settled(p)
<1>1. run \in [Process -> Runs] /\ disk \in [Name -> {"absent", "bad", "good"}]
  BY DEF TypeOK, Runs, LabelSet
<1>2. Manifest \in Name
  BY SubsetsOfName
<1>a. ASSUME run'[p].at # "failed", run'[p].cause = run[p].cause, run'[p].commit = run[p].commit
      PROVE  Settled(p)
  BY <1>a DEF Settled
<1>b. ASSUME NEW label, label # "failed", Go(p, label)
      PROVE  Settled(p)
  BY <1>1, <1>a, <1>b, GoDoes
<1>c. ASSUME Fail(p, "network")
      PROVE  Settled(p)
  BY <1>1, <1>c, FailDoes DEF Settled
<1>d. ASSUME run[p].at # "failed", Missed(p)
      PROVE  Settled(p)
  BY <1>1, <1>d, MissedDoes DEF Settled
<1>e. ASSUME Replacing(p), disk'[Manifest] = "absent"
      PROVE  Settled(p)
  <2>1. /\ run'[p].at = IF flow = "pipeline" THEN "layout" ELSE "compact"
        /\ run'[p].commit = TRUE /\ run'[p].cause = run[p].cause
    BY <1>1, <1>e, ReplacingDoes
  <2> QED
    BY <1>e, <2>1 DEF Settled
<1>f. ASSUME StaleGone(p)
      PROVE  Settled(p)
  <2>1. /\ run'[p].at = IF flow = "pipeline" THEN "files" ELSE "commit"
        /\ run'[p].commit = run[p].commit /\ run'[p].cause = run[p].cause
    BY <1>1, <1>f, StaleGoneDoes
  <2> QED
    BY <2>1 DEF Settled
<1>g. ASSUME NEW f, run' = Fetching(p, f)
      PROVE  Settled(p)
  BY <1>1, <1>a, <1>g, FetchingDoes
<1>3. CASE FetchManifest(p)
  BY <1>1, <1>3, <1>a, <1>c, <1>d, FetchedDoes DEF FetchManifest, At
<1>4. CASE WithdrawOld(p)
  BY <1>4, <1>b, <1>e DEF WithdrawOld, Holds
<1>5. CASE DropOld(p)
  <2>1. CASE Fail(p, "raced") /\ ~ Holds(Manifest) /\ UNCHANGED disk
    BY <1>1, <2>1, FailDoes DEF Settled, Holds, Good
  <2>2. CASE Replacing(p) /\ Put(Manifest, "absent")
    BY <1>1, <1>2, <1>e, <2>2, PutDoes
  <2> QED
    BY <1>5, <2>1, <2>2 DEF DropOld
<1>6. CASE RemoveStale(p)
  BY <1>6, <1>b, <1>f DEF RemoveStale
<1>7. CASE DropStale(p)
  BY <1>1, <1>7, <1>f, FailDoes DEF DropStale, Settled
<1>8. CASE ReadManifest(p) \/ PartsDone(p) \/ FilesDone(p) \/ CommitPipeline(p) \/ OpenBundle(p)
           \/ Clear(p) \/ ClearManifest(p) \/ Seal(p)
  <2>1. \E label \in LabelSet \ {"failed"} : Go(p, label)
    BY <1>8, LabelsNamed DEF ReadManifest, PartsDone, FilesDone, CommitPipeline, OpenBundle, Clear,
                             ClearManifest, Seal
  <2> QED
    BY <1>b, <2>1
<1>9. CASE ResolveLayout(p) \/ FetchLayout(p)
  BY <1>1, <1>9, <1>a, <1>b, <1>c, <1>d, ListedDoes DEF ResolveLayout, FetchLayout, At
<1>10. CASE CheckFile(p)
  <2> DEFINE label == IF run[p].commit THEN "repair" ELSE "withdraw"
  <2>1. PICK f \in run[p].todo :
          \/ run' = [run EXCEPT ![p].todo = @ \ {f}]
          \/ run' = [run EXCEPT ![p].file = f, ![p].left = Parts, ![p].at = label]
    BY <1>10 DEF CheckFile
  <2>2. At(p, "files")
    BY <1>10 DEF CheckFile
  <2>3. CASE run' = [run EXCEPT ![p].todo = @ \ {f}]
    BY <1>1, <1>a, <2>2, <2>3, TodoDoes DEF At
  <2>4. CASE run' = [run EXCEPT ![p].file = f, ![p].left = Parts, ![p].at = label]
    <3>1. label # "failed"
      OBVIOUS
    <3> HIDE DEF label
    <3>2. run'[p].at = label /\ run'[p].commit = run[p].commit /\ run'[p].cause = run[p].cause
      BY <1>1, <2>4 DEF Runs
    <3> QED
      BY <1>a, <3>1, <3>2
  <2> QED
    BY <2>1, <2>3, <2>4
<1>11. CASE Withdraw(p)
  <2>1. CASE Fail(p, "raced") /\ ~ Holds(Manifest) /\ UNCHANGED disk
    BY <1>1, <2>1, FailDoes DEF Settled, Holds, Good
  <2>2. CASE Put(Manifest, "absent") /\ run' = [run EXCEPT ![p].at = "repair", ![p].commit = TRUE]
    <3>1. disk'[Manifest] = "absent"
      BY <1>1, <1>2, <2>2, PutDoes
    <3>2. run'[p].at = "repair" /\ run'[p].commit = TRUE /\ run'[p].cause = run[p].cause
      BY <1>1, <2>2, WithdrawDoes
    <3> QED
      BY <3>1, <3>2 DEF Settled
  <2> QED
    BY <1>11, <2>1, <2>2 DEF Withdraw
<1>12. CASE RepairDirect(p)
  <2> DEFINE rest == run[p].todo \ {run[p].file}
  <2>1. CASE run' = [run EXCEPT ![p].at = "files", ![p].todo = rest, ![p].tries = 1]
    <3> HIDE DEF rest
    <3> QED
      BY <1>1, <1>a, <2>1, RepairedDoes
  <2> QED
    BY <1>12, <1>d, <2>1 DEF RepairDirect, At
<1>13. CASE RepairPart(p)
  <2>1. PICK q \in run[p].left :
          \/ run' = [run EXCEPT ![p].left = @ \ {q}]
          \/ run' = [run EXCEPT ![p].left = @ \ {q}, ![p].tries = 1]
          \/ Missed(p)
    BY <1>13 DEF RepairPart
  <2>2. At(p, "repair")
    BY <1>13 DEF RepairPart
  <2> QED
    BY <1>1, <1>a, <1>d, <2>1, <2>2, LeftDoes DEF At
<1>14. CASE InstallCompact(p)
  <2>1. PICK f \in run[p].todo : run' = [run EXCEPT ![p].todo = @ \ {f}] \/ run' = Fetching(p, f)
    BY <1>14 DEF InstallCompact
  <2> QED
    BY <1>1, <1>14, <1>a, <1>g, <2>1, TodoDoes DEF InstallCompact, At
<1>15. CASE SeeLayout(p)
  BY <1>1, <1>15, <1>a, SeeLayoutDoes
<1>16. CASE InstallWeight(p)
  <2>1. \/ Go(p, "stale") \/ Go(p, "commit")
        \/ \E q : run' = [run EXCEPT ![p].left = @ \ {q}] \/ run' = Fetching(p, q)
    BY <1>16 DEF InstallWeight
  <2> QED
    BY <1>1, <1>16, <1>a, <1>b, <1>g, <2>1, LeftDoes DEF InstallWeight, At
<1>17. CASE FetchFile(p)
  BY <1>17, <1>b, <1>c DEF FetchFile
<1>18. CASE Place(p)
  <2>1. /\ run'[p].at \in {"commit", "weights", "compact"}
        /\ run'[p].commit = run[p].commit /\ run'[p].cause = run[p].cause
    BY <1>1, <1>18, PlaceDoes
  <2> QED
    BY <1>a, <2>1
<1>19. CASE Reopen(p)
  <2>1. CASE Go(p, "ok")
    BY <1>b, <2>1
  <2>2. CASE Fail(p, "raced") /\ disk[Manifest] # "good" /\ UNCHANGED disk
    BY <1>1, <1>19, <2>2, FailDoes DEF Reopen, Settled, Good
  <2> QED
    BY <1>19, <2>1, <2>2 DEF Reopen
<1> QED
  BY <1>3, <1>4, <1>5, <1>6, <1>7, <1>8, <1>9, <1>10, <1>11, <1>12, <1>13, <1>14, <1>15, <1>16,
     <1>17, <1>18, <1>19 DEF Work

LEMMA CausesKept ==
  ASSUME TypeOK, Causes, NEW p \in Process, Step(p)
  PROVE  Causes'
<1>1. \A q \in Process \ {p} : run'[q] = run[q]
  BY OthersKept DEF TypeOK, Runs, LabelSet
<1>2. run \in [Process -> Runs]
  BY DEF TypeOK, Runs, LabelSet
<1>3. /\ run'[p].at = "failed" => run'[p].cause # "none"
      /\ Active(p)' => run'[p].cause = "none"
  <2>1. CASE Work(p)
    BY <2>1, StepOutcome, WorkIsActive DEF Causes, Active, Ended, Settled
  <2>2. CASE Launch(p)
    BY <1>2, <2>2, LaunchDoes
  <2>3. CASE Crash(p)
    BY <1>2, <2>3, GoDoes DEF Crash, Active, Ended
  <2> QED
    BY <2>1, <2>2, <2>3 DEF Step
<1> QED
  BY <1>1, <1>3 DEF Causes, Active

-----------------------------------------------------------------------------
(* The manifest                                                            *)

(* Under the manifest no payload changes.                                  *)
LEMMA UnderManifest ==
  ASSUME TypeOK, Labels, Knowledge, Sealed, NEW p \in Process, Step(p), Good(Manifest),
         NEW f \in Name, f # Manifest
  PROVE  disk'[f] = disk[f]
<1>1. run[p] \in Runs /\ disk \in [Name -> {"absent", "bad", "good"}]
  BY DEF TypeOK, Runs, LabelSet
<1>2. run[p].commit => Complete
  BY DEF Sealed
<1>3. CASE UNCHANGED disk
  BY <1>3
<1>4. CASE \E what : Put(Manifest, what)
  BY <1>1, <1>4 DEF Put
<1>5. CASE flow = "pipeline"
  <2>1. PipelineKnows(p)
    BY <1>5 DEF Knowledge
  <2>2. CASE RepairDirect(p)
    <3>1. run[p].commit /\ run[p].file \in Declared /\ ~ (transported /\ run[p].file = Logical)
      BY <1>1, <2>1, <2>2 DEF RepairDirect, At, PipelineKnows, Backed, Runs
    <3>2. disk[run[p].file] = "good"
      BY <1>2, <3>1 DEF Complete, Declared
    <3>3. Put(run[p].file, "good") \/ UNCHANGED disk
      BY <2>2 DEF RepairDirect
    <3> QED
      BY <1>1, <3>2, <3>3 DEF Put
  <2>3. CASE RepairPart(p)
    <3>1. run[p].commit /\ transported
      BY <2>1, <2>3 DEF RepairPart, At, PipelineKnows, Backed
    <3>2. \A q \in run[p].left : disk[q] = "good"
      BY <1>1, <1>2, <3>1 DEF Complete, Runs
    <3>3. UNCHANGED disk
      BY <2>3, <3>2 DEF RepairPart
    <3> QED
      BY <3>3
  <2>4. CASE DropStale(p)
    <3>1. run[p].commit /\ transported
      BY <2>1, <2>4 DEF DropStale, At, PipelineKnows, Backed
    <3>2. ~ Holds(Logical)
      BY <1>2, <3>1 DEF Complete, Holds
    <3> QED
      BY <2>4, <3>2 DEF DropStale
  <2>5. CASE DropOld(p) \/ Withdraw(p) \/ CommitPipeline(p)
    BY <1>3, <1>4, <2>5 DEF DropOld, Withdraw, CommitPipeline
  <2>6. CASE \/ Launch(p) \/ Crash(p) \/ FetchManifest(p) \/ WithdrawOld(p) \/ RemoveStale(p)
             \/ ReadManifest(p) \/ ResolveLayout(p) \/ FetchLayout(p) \/ CheckFile(p)
             \/ PartsDone(p) \/ FilesDone(p)
    BY <1>3, <2>6 DEF Launch, Crash, FetchManifest, WithdrawOld, RemoveStale, ReadManifest,
                      ResolveLayout, FetchLayout, CheckFile, PartsDone, FilesDone
  <2> QED
    BY <1>5, <2>2, <2>3, <2>4, <2>5, <2>6, PipelineActions
<1>6. CASE flow = "dependency"
  <2>1. DependencyKnows(p) /\ disk[Manifest] # "absent"
    BY <1>6 DEF Knowledge, Good
  <2>2. ~ DropStale(p) /\ ~ Clear(p) /\ ~ Place(p)
    BY <2>1 DEF DropStale, Clear, Place, At, DependencyKnows, DependencyOnly
  <2>3. CASE DropOld(p) \/ ClearManifest(p) \/ Seal(p)
    BY <1>3, <1>4, <2>3 DEF DropOld, ClearManifest, Seal
  <2>4. CASE \/ Launch(p) \/ Crash(p) \/ FetchManifest(p) \/ WithdrawOld(p) \/ RemoveStale(p)
             \/ OpenBundle(p) \/ InstallCompact(p) \/ SeeLayout(p) \/ InstallWeight(p)
             \/ FetchFile(p) \/ Reopen(p)
    BY <1>3, <2>4 DEF Launch, Crash, FetchManifest, WithdrawOld, RemoveStale, OpenBundle,
                      InstallCompact, SeeLayout, InstallWeight, FetchFile, Reopen
  <2> QED
    BY <1>6, <2>2, <2>3, <2>4, DependencyActions
<1> QED
  BY <1>5, <1>6 DEF TypeOK

(* The manifest comes last; a wrong one never comes.                       *)
LEMMA ManifestComes ==
  ASSUME TypeOK, Labels, Knowledge, NEW p \in Process, Step(p)
  PROVE  /\ disk'[Manifest] = "good" => Good(Manifest) \/ (Complete /\ Complete')
         /\ disk'[Manifest] = "bad" => disk[Manifest] = "bad"
<1>1. disk \in [Name -> {"absent", "bad", "good"}] /\ UNCHANGED transported
  BY StepTyped DEF TypeOK
<1>2. ASSUME NEW f \in Name, f # Manifest, \E what : Put(f, what)
      PROVE  disk'[Manifest] = disk[Manifest]
  BY <1>1, <1>2, SubsetsOfName DEF Put
<1>3. CASE disk'[Manifest] = disk[Manifest]
  BY <1>1, <1>3, SubsetsOfName DEF Good
<1>4. CASE Put(Manifest, "absent")
  BY <1>1, <1>4, SubsetsOfName, PutDoes
<1>5. ASSUME Put(Manifest, "good"), Complete
      PROVE  disk'[Manifest] = "good" /\ Complete'
  BY <1>1, <1>5, SubsetsOfName, PutDoes DEF Complete, Small, Declared
<1>6. CASE flow = "pipeline"
  <2>1. PipelineKnows(p)
    BY <1>6 DEF Knowledge
  <2>2. CASE CommitPipeline(p)
    BY <1>5, <2>1, <2>2 DEF CommitPipeline, PipelineKnows, At
  <2>3. CASE ~ CommitPipeline(p)
    <3>1. RepairDirect(p) \/ RepairPart(p) \/ DropStale(p) => disk'[Manifest] = disk[Manifest]
      <4>1. RepairDirect(p) => run[p].file \in Declared
        BY <2>1 DEF RepairDirect, At, PipelineKnows, TypeOK
      <4>2. RepairDirect(p) => Put(run[p].file, "good") \/ UNCHANGED disk
        BY DEF RepairDirect
      <4>3. RepairPart(p) => UNCHANGED disk \/ \E q \in Parts : Put(q, "good")
        BY DEF RepairPart, TypeOK
      <4>4. DropStale(p) => UNCHANGED disk \/ Put(Logical, "absent")
        BY DEF DropStale
      <4> QED
        BY <1>2, <4>1, <4>2, <4>3, <4>4, SubsetsOfName
    <3>2. DropOld(p) \/ Withdraw(p) => UNCHANGED disk \/ Put(Manifest, "absent")
      BY DEF DropOld, Withdraw
    <3>3. \/ Launch(p) \/ Crash(p) \/ FetchManifest(p) \/ WithdrawOld(p) \/ RemoveStale(p)
          \/ ReadManifest(p) \/ ResolveLayout(p) \/ FetchLayout(p) \/ CheckFile(p)
          \/ PartsDone(p) \/ FilesDone(p)
          => UNCHANGED disk
      BY DEF Launch, Crash, FetchManifest, WithdrawOld, RemoveStale, ReadManifest,
             ResolveLayout, FetchLayout, CheckFile, PartsDone, FilesDone
    <3> QED
      BY <1>3, <1>4, <1>6, <2>3, <3>1, <3>2, <3>3, PipelineActions
  <2> QED
    BY <2>2, <2>3
<1>7. CASE flow = "dependency"
  <2>1. DependencyKnows(p)
    BY <1>7 DEF Knowledge
  <2>2. CASE Seal(p)
    BY <1>5, <2>1, <2>2 DEF Seal, DependencyKnows, At
  <2>3. CASE Clear(p) \/ Place(p)
    <3>1. run[p].file \in run[p].todo \cup run[p].left \cup {Logical}
      BY <2>1, <2>3 DEF Clear, Place, At, DependencyKnows
    <3>2. run[p].todo \subseteq Declared /\ run[p].left \subseteq Parts
      BY DEF TypeOK
    <3>3. run[p].file \in Name /\ run[p].file # Manifest
      BY <3>1, <3>2, SubsetsOfName
    <3> QED
      BY <1>2, <1>3, <2>3, <3>3 DEF Clear, Place
  <2>4. CASE DropOld(p) \/ ClearManifest(p)
    BY <1>3, <1>4, <2>4 DEF DropOld, ClearManifest
  <2>5. CASE DropStale(p)
    BY <1>2, <1>3, <2>5, SubsetsOfName DEF DropStale
  <2>6. CASE \/ Launch(p) \/ Crash(p) \/ FetchManifest(p) \/ WithdrawOld(p) \/ RemoveStale(p)
             \/ OpenBundle(p) \/ InstallCompact(p) \/ SeeLayout(p) \/ InstallWeight(p)
             \/ FetchFile(p) \/ Reopen(p)
    BY <1>3, <2>6 DEF Launch, Crash, FetchManifest, WithdrawOld, RemoveStale, OpenBundle,
                      InstallCompact, SeeLayout, InstallWeight, FetchFile, Reopen
  <2> QED
    BY <1>7, <2>2, <2>3, <2>4, <2>5, <2>6, DependencyActions
<1> QED
  BY <1>6, <1>7 DEF TypeOK

LEMMA SealedKept ==
  ASSUME TypeOK, Labels, Knowledge, Sealed, NEW p \in Process, Step(p)
  PROVE  Sealed'
<1>1. \A q \in Process \ {p} : run'[q] = run[q]
  BY OthersKept DEF TypeOK, Runs, LabelSet
<1>2. SUFFICES ASSUME Good(Manifest)', NEW q \in Process,
                      run'[q].commit \/ run'[q].cause = "raced"
               PROVE  Complete'
  BY DEF Sealed
<1>3. CASE ~ Good(Manifest)
  BY <1>2, <1>3, ManifestComes DEF Good
<1>4. CASE Good(Manifest)
  <2>1. \A f \in Name \ {Manifest} : disk'[f] = disk[f]
    BY <1>4, UnderManifest
  <2>2. Complete => Complete'
    <3>1. UNCHANGED transported
      BY StepTyped
    <3> QED
      BY <2>1, <3>1, SubsetsOfName DEF Complete, Small
  <2>3. ASSUME \E r \in Process : run[r].commit \/ run[r].cause = "raced"
        PROVE  Complete
    BY <1>4, <2>3 DEF Sealed
  <2>4. CASE q # p
    BY <1>1, <1>2, <2>2, <2>3, <2>4
  <2>5. CASE q = p
    <3>1. run \in [Process -> Runs]
      BY DEF TypeOK, Runs, LabelSet
    <3>2. CASE Launch(p)
      BY <1>2, <2>5, <3>1, <3>2, LaunchDoes
    <3>3. CASE Crash(p)
      BY <1>2, <2>2, <2>3, <2>5, <3>1, <3>3, GoDoes DEF Crash
    <3>4. CASE Work(p)
      <4>1. disk'[Manifest] = "good" /\ disk[Manifest] = "good"
        BY <1>2, <1>4 DEF Good
      <4>2. run'[p].commit = run[p].commit
        BY <3>4, <4>1, StepOutcome DEF Settled
      <4>3. run'[p].cause = "raced" => run[p].cause = "raced" \/ At(p, "drop stale")
        BY <3>4, <4>1, StepOutcome DEF Settled, Good
      <4>4. At(p, "drop stale") => run[p].commit
        BY DEF Knowledge, PipelineKnows, DependencyKnows, At, TypeOK
      <4> QED
        BY <1>2, <2>2, <2>3, <2>5, <4>2, <4>3, <4>4
    <3> QED
      BY <3>2, <3>3, <3>4 DEF Step
  <2> QED
    BY <2>4, <2>5
<1> QED
  BY <1>3, <1>4

LEMMA UnreadKept ==
  ASSUME TypeOK, Labels, Knowledge, Unread, NEW p \in Process, Step(p)
  PROVE  Unread'
<1> DEFINE outside == {"idle", "crashed", "failed", "open", "fetch manifest", "withdraw old", "drop old"}
<1>1. SUFFICES ASSUME disk'[Manifest] = "bad"
               PROVE  \A q \in Process : run'[q].at \in outside /\ run'[q].cause # "raced"
  BY DEF Unread
<1>2. disk[Manifest] = "bad"
  BY <1>1, ManifestComes
<1>3. \A q \in Process : run[q].at \in outside /\ run[q].cause # "raced"
  BY <1>2 DEF Unread
<1>4. \A q \in Process \ {p} : run'[q] = run[q]
  BY OthersKept DEF TypeOK, Runs, LabelSet
<1>5. run \in [Process -> Runs] /\ disk \in [Name -> {"absent", "bad", "good"}]
  BY DEF TypeOK, Runs, LabelSet
<1>6. ASSUME run'[p].at \in outside, run'[p].cause # "raced"
      PROVE  \A q \in Process : run'[q].at \in outside /\ run'[q].cause # "raced"
  BY <1>3, <1>4, <1>6
<1>7. run[p].cause # "raced"
  BY <1>3
<1>8. CASE Launch(p) \/ Crash(p)
  BY <1>5, <1>6, <1>7, <1>8, LaunchDoes, GoDoes DEF Crash
<1>9. CASE Work(p)
  <2>1. run[p].at \in {"open", "fetch manifest", "withdraw old", "drop old"}
    BY <1>3, <1>9, WorkIsActive DEF Active, Ended
  <2>2. ReadManifest(p) \/ OpenBundle(p) \/ FetchManifest(p) \/ WithdrawOld(p) \/ DropOld(p)
    BY <1>9, <2>1
       DEF Work, At, RemoveStale, DropStale, ResolveLayout, FetchLayout, CheckFile, Withdraw,
           RepairDirect, RepairPart, PartsDone, FilesDone, CommitPipeline, InstallCompact, SeeLayout,
           InstallWeight, FetchFile, Clear, Place, ClearManifest, Seal, Reopen
  <2>3. CASE ReadManifest(p) \/ OpenBundle(p)
    <3>1. Go(p, "fetch manifest")
      BY <1>2, <2>3 DEF ReadManifest, OpenBundle
    <3> QED
      BY <1>5, <1>6, <1>7, <3>1, GoDoes
  <2>4. CASE FetchManifest(p)
    <3>1. run'[p].at \in {"withdraw old", "failed", "fetch manifest"}
          /\ run'[p].cause \in {run[p].cause, "network"}
      BY <1>5, <2>4, FetchedDoes, FailDoes, MissedDoes DEF FetchManifest, At
    <3> QED
      BY <1>6, <1>7, <3>1
  <2>5. CASE WithdrawOld(p)
    <3>1. Go(p, "drop old")
      BY <1>2, <2>5 DEF WithdrawOld, Holds
    <3> QED
      BY <1>5, <1>6, <1>7, <3>1, GoDoes
  <2>6. ~ DropOld(p)
    <3>1. DropOld(p) => Put(Manifest, "absent")
      BY <1>2 DEF DropOld, Holds
    <3> QED
      BY <1>1, <1>5, <3>1, SubsetsOfName, PutDoes
  <2> QED
    BY <2>2, <2>3, <2>4, <2>5, <2>6
<1> QED
  BY <1>8, <1>9 DEF Step

-----------------------------------------------------------------------------
(* Whoever is on the way to install the manifest gets there or has an      *)
(* excuse                                                                  *)

LEMMA HeadingOn ==
  ASSUME TypeOK, Labels, Alone, Knowledge, "dependency" \notin Overlap,
         disk[Manifest] = "absent", NEW p \in Process, Heading(p), Work(p),
         disk'[Manifest] = "absent"
  PROVE  Excused(p)' \/ Heading(p)'
<1>1. run \in [Process -> Runs] /\ disk \in [Name -> {"absent", "bad", "good"}] /\ Manifest \in Name
  BY SubsetsOfName DEF TypeOK, Runs, LabelSet
<1>2. ASSUME run'[p].commit, run'[p].at \notin Ended \cup {"drop old", "drop stale"}
      PROVE  Heading(p)'
  BY <1>2 DEF Heading, Active
<1>3. ASSUME run'[p].at \in {"fetch manifest", "withdraw old"}
      PROVE  Heading(p)'
  BY <1>3 DEF Heading, Active, Ended
<1>4. ASSUME run'[p].at = "failed", run'[p].cause = "network"
      PROVE  Excused(p)'
  BY <1>4 DEF Excused
<1>5. CASE run[p].at \in {"open", "fetch manifest", "withdraw old", "drop old"}
  <2>1. ReadManifest(p) \/ OpenBundle(p) \/ FetchManifest(p) \/ WithdrawOld(p) \/ DropOld(p)
    BY <1>5
       DEF Work, At, RemoveStale, DropStale, ResolveLayout, FetchLayout, CheckFile, Withdraw,
           RepairDirect, RepairPart, PartsDone, FilesDone, CommitPipeline, InstallCompact, SeeLayout,
           InstallWeight, FetchFile, Clear, Place, ClearManifest, Seal, Reopen
  <2>2. CASE ReadManifest(p) \/ OpenBundle(p)
    <3>1. Go(p, "fetch manifest")
      BY <2>2 DEF ReadManifest, OpenBundle
    <3> QED
      BY <1>1, <1>3, <3>1, GoDoes
  <2>3. CASE FetchManifest(p)
    BY <1>1, <1>3, <1>4, <2>3, FetchedDoes, FailDoes, MissedDoes DEF FetchManifest, At
  <2>4. CASE WithdrawOld(p)
    <3>1. Replacing(p)
      BY <2>4 DEF WithdrawOld, Holds
    <3>2. run'[p].commit /\ run'[p].at \in {"layout", "compact"}
      BY <1>1, <3>1, ReplacingDoes
    <3> QED
      BY <1>2, <3>2 DEF Ended
  <2>5. ~ DropOld(p)
    BY DEF DropOld, At, Heading
  <2> QED
    BY <2>1, <2>2, <2>3, <2>4, <2>5
<1>6. CASE run[p].at \notin {"open", "fetch manifest", "withdraw old", "drop old"}
  <2>1. run[p].commit
    BY <1>6 DEF Heading
  <2>2. ASSUME NEW label \in LabelSet \ (Ended \cup {"drop old", "drop stale"}), Go(p, label)
        PROVE  Heading(p)'
    BY <1>1, <1>2, <2>1, <2>2, GoDoes
  <2>3. ASSUME run[p].at \notin Ended \cup {"drop old", "drop stale"}, Missed(p)
        PROVE  Excused(p)' \/ Heading(p)'
    BY <1>1, <1>2, <1>4, <2>1, <2>3, MissedDoes
  <2>4. ASSUME Fail(p, "network")
        PROVE  Excused(p)'
    BY <1>1, <1>4, <2>4, FailDoes
  <2>5. ASSUME StaleGone(p)
        PROVE  Heading(p)'
    <3>1. run'[p].at \in {"files", "commit"} /\ run'[p].commit = run[p].commit
      BY <1>1, <2>5, StaleGoneDoes
    <3> QED
      BY <1>2, <2>1, <3>1 DEF Ended
  <2>6. ASSUME Listed(p)
        PROVE  Heading(p)'
    BY <1>1, <1>2, <2>1, <2>6, ListedDoes DEF Ended
  <2>7. ASSUME NEW f, run' = Fetching(p, f)
        PROVE  Heading(p)'
    BY <1>1, <1>2, <2>1, <2>7, FetchingDoes DEF Ended
  <2>8. {"fetch layout", "stale", "commit", "clear", "place", "seal"}
          \subseteq LabelSet \ (Ended \cup {"drop old", "drop stale"})
    BY LabelsNamed DEF Ended
  <2>9. ~ FetchManifest(p) /\ ~ WithdrawOld(p) /\ ~ DropOld(p) /\ ~ ReadManifest(p) /\ ~ OpenBundle(p)
    BY <1>6 DEF FetchManifest, WithdrawOld, DropOld, ReadManifest, OpenBundle, At
  <2>10. CASE RemoveStale(p)
    <3>1. CASE Go(p, "drop stale") /\ Holds(Logical) /\ UNCHANGED disk
      <4>1. run'[p].at = "drop stale" /\ run'[p].commit = run[p].commit
        BY <1>1, <3>1, GoDoes
      <4> QED
        BY <2>1, <3>1, <4>1 DEF Heading, Active, Ended, Holds
    <3> QED
      BY <2>5, <2>10, <3>1 DEF RemoveStale
  <2>11. CASE DropStale(p)
    BY <2>5, <2>11 DEF DropStale, Heading, At
  <2>12. CASE ResolveLayout(p) \/ FetchLayout(p)
    <3>1. At(p, "layout") \/ At(p, "fetch layout")
      BY <2>12 DEF ResolveLayout, FetchLayout
    <3>2. run[p].at \notin Ended \cup {"drop old", "drop stale"}
      BY <3>1 DEF At, Ended
    <3> QED
      BY <2>2, <2>3, <2>4, <2>6, <2>8, <2>12, <3>2 DEF ResolveLayout, FetchLayout
  <2>13. CASE CheckFile(p)
    <3>1. PICK f \in run[p].todo :
            \/ run' = [run EXCEPT ![p].todo = @ \ {f}]
            \/ run' = [run EXCEPT ![p].file = f, ![p].left = Parts, ![p].at = "repair"]
      BY <2>1, <2>13 DEF CheckFile
    <3>2. run[p].at = "files"
      BY <2>13 DEF CheckFile, At
    <3>3. CASE run' = [run EXCEPT ![p].todo = @ \ {f}]
      BY <1>1, <1>2, <2>1, <3>2, <3>3, TodoDoes DEF Ended
    <3>4. CASE run' = [run EXCEPT ![p].file = f, ![p].left = Parts, ![p].at = "repair"]
      <4>1. run'[p].at = "repair" /\ run'[p].commit = run[p].commit
        BY <1>1, <3>4 DEF Runs
      <4> QED
        BY <1>2, <2>1, <4>1 DEF Ended
    <3> QED
      BY <3>1, <3>3, <3>4
  <2>14. ~ Withdraw(p)
    <3>1. flow = "dependency" => run[p].at # "withdraw"
      BY DEF Labels, Ended, Both, DependencyOnly
    <3>2. flow = "pipeline" => run[p].at # "withdraw"
      BY <2>1 DEF Knowledge, PipelineKnows
    <3> QED
      BY <3>1, <3>2 DEF Withdraw, At, TypeOK
  <2>15. CASE RepairDirect(p)
    <3> DEFINE rest == run[p].todo \ {run[p].file}
    <3>1. run[p].at = "repair"
      BY <2>15 DEF RepairDirect, At
    <3>2. CASE run' = [run EXCEPT ![p].at = "files", ![p].todo = rest, ![p].tries = 1]
      <4> HIDE DEF rest
      <4>1. run'[p].at = "files" /\ run'[p].commit = run[p].commit
        BY <1>1, <3>2, RepairedDoes
      <4> QED
        BY <1>2, <2>1, <4>1 DEF Ended
    <3> QED
      BY <2>3, <2>15, <3>1, <3>2 DEF RepairDirect, Ended
  <2>16. CASE RepairPart(p)
    <3>1. PICK q \in run[p].left :
            \/ run' = [run EXCEPT ![p].left = @ \ {q}]
            \/ run' = [run EXCEPT ![p].left = @ \ {q}, ![p].tries = 1]
            \/ Missed(p)
      BY <2>16 DEF RepairPart
    <3>2. run[p].at = "repair"
      BY <2>16 DEF RepairPart, At
    <3>3. CASE Missed(p)
      BY <2>3, <3>2, <3>3 DEF Ended
    <3>4. CASE \/ run' = [run EXCEPT ![p].left = @ \ {q}]
               \/ run' = [run EXCEPT ![p].left = @ \ {q}, ![p].tries = 1]
      <4>1. run'[p].at = "repair" /\ run'[p].commit = run[p].commit
        BY <1>1, <3>2, <3>4, LeftDoes
      <4> QED
        BY <1>2, <2>1, <4>1 DEF Ended
    <3> QED
      BY <3>1, <3>3, <3>4
  <2>17. CASE PartsDone(p) \/ FilesDone(p) \/ Clear(p) \/ ClearManifest(p)
    BY <2>1, <2>2, <2>8, <2>17 DEF PartsDone, FilesDone, Clear, ClearManifest
  <2>18. ~ CommitPipeline(p) /\ ~ Seal(p)
    <3>1. ~ Put(Manifest, "good")
      BY <1>1, PutDoes
    <3> QED
      BY <3>1 DEF CommitPipeline, Seal
  <2>19. CASE InstallCompact(p)
    <3>1. PICK f \in run[p].todo : run' = [run EXCEPT ![p].todo = @ \ {f}] \/ run' = Fetching(p, f)
      BY <2>19 DEF InstallCompact
    <3>2. run[p].at = "compact"
      BY <2>19 DEF InstallCompact, At
    <3> QED
      BY <1>1, <1>2, <2>1, <2>7, <3>1, <3>2, TodoDoes DEF Ended
  <2>20. CASE SeeLayout(p)
    BY <1>1, <1>2, <2>1, <2>20, SeeLayoutDoes DEF Ended
  <2>21. CASE InstallWeight(p)
    <3>1. \/ Go(p, "stale") \/ Go(p, "commit")
          \/ \E q : run' = [run EXCEPT ![p].left = @ \ {q}] \/ run' = Fetching(p, q)
      BY <2>21 DEF InstallWeight
    <3>2. run[p].at = "weights"
      BY <2>21 DEF InstallWeight, At
    <3>3. ASSUME NEW q, run' = [run EXCEPT ![p].left = @ \ {q}]
          PROVE  Heading(p)'
      BY <1>1, <1>2, <2>1, <3>2, <3>3, LeftDoes DEF Ended
    <3> QED
      BY <2>2, <2>7, <2>8, <3>1, <3>3
  <2>22. CASE FetchFile(p)
    BY <2>2, <2>4, <2>8, <2>22 DEF FetchFile
  <2>23. CASE Place(p)
    <3>1. run'[p].at \in {"commit", "weights", "compact"} /\ run'[p].commit = run[p].commit
      BY <1>1, <2>23, PlaceDoes
    <3> QED
      BY <1>2, <2>1, <3>1 DEF Ended
  <2>24. ~ Reopen(p)
    <3>1. flow = "pipeline" => run[p].at # "reopen"
      BY DEF Labels, Ended, Both, PipelineOnly
    <3>2. flow = "dependency" => run[p].at # "reopen"
      BY DEF Knowledge, DependencyKnows, Good
    <3> QED
      BY <3>1, <3>2 DEF Reopen, At, TypeOK
  <2> QED
    BY <2>9, <2>10, <2>11, <2>12, <2>13, <2>14, <2>15, <2>16, <2>17, <2>18, <2>19, <2>20, <2>21,
       <2>22, <2>23, <2>24 DEF Work
<1> QED
  BY <1>5, <1>6

LEMMA OwedKept ==
  ASSUME TypeOK, Labels, Alone, Knowledge, Causes, Owed, "dependency" \notin Overlap,
         NEW p \in Process, Step(p)
  PROVE  Owed'
<1>1. SUFFICES ASSUME disk'[Manifest] = "absent"
               PROVE  \E q \in Process : Excused(q)' \/ Heading(q)'
  BY DEF Owed
<1>2. run \in [Process -> Runs] /\ disk \in [Name -> {"absent", "bad", "good"}] /\ Manifest \in Name
  BY SubsetsOfName DEF TypeOK, Runs, LabelSet
<1>3. \A q \in Process \ {p} : run'[q] = run[q]
  BY <1>2, OthersKept
<1>4. CASE Launch(p)
  BY <1>2, <1>4, LaunchDoes DEF Heading, Active, Ended
<1>5. CASE Crash(p)
  BY <1>2, <1>5, GoDoes DEF Crash, Excused
<1>6. CASE Work(p) /\ Holds(Manifest)
  <2>1. DropOld(p) \/ Withdraw(p) \/ ClearManifest(p)
    <3>1. ASSUME NEW f \in Name, f # Manifest, \E what : Put(f, what)
          PROVE  FALSE
      BY <1>1, <1>2, <1>6, <3>1 DEF Put, Holds
    <3>2. ~ Put(Manifest, "good") /\ ~ UNCHANGED disk
      BY <1>1, <1>2, <1>6, PutDoes DEF Holds
    <3>3. CASE flow = "pipeline"
      <4>1. PipelineKnows(p)
        BY <3>3 DEF Knowledge
      <4>2. ~ RepairDirect(p)
        <5>1. RepairDirect(p) => run[p].file \in Declared
          BY <4>1 DEF RepairDirect, At, PipelineKnows, TypeOK
        <5> QED
          BY <3>1, <3>2, <5>1, SubsetsOfName DEF RepairDirect
      <4>3. ~ RepairPart(p)
        <5>1. run[p].left \subseteq Parts
          BY DEF TypeOK
        <5> QED
          BY <3>1, <3>2, <5>1, SubsetsOfName DEF RepairPart
      <4>4. ~ DropStale(p)
        BY <3>1, <3>2, SubsetsOfName DEF DropStale
      <4>5. /\ ~ FetchManifest(p) /\ ~ WithdrawOld(p) /\ ~ RemoveStale(p) /\ ~ ReadManifest(p)
            /\ ~ ResolveLayout(p) /\ ~ FetchLayout(p) /\ ~ CheckFile(p) /\ ~ PartsDone(p)
            /\ ~ FilesDone(p) /\ ~ CommitPipeline(p)
        BY <3>2 DEF FetchManifest, WithdrawOld, RemoveStale, ReadManifest, ResolveLayout, FetchLayout,
                    CheckFile, PartsDone, FilesDone, CommitPipeline
      <4>6. ~ Launch(p) /\ ~ Crash(p)
        BY <3>2 DEF Launch, Crash
      <4> QED
        BY <3>3, <4>2, <4>3, <4>4, <4>5, <4>6, PipelineActions
    <3>4. CASE flow = "dependency"
      <4>1. DependencyKnows(p) /\ disk[Manifest] # "absent"
        BY <1>6, <3>4 DEF Knowledge, Holds
      <4>2. ~ Clear(p) /\ ~ Place(p)
        BY <4>1 DEF Clear, Place, At, DependencyKnows, DependencyOnly
      <4>3. ~ DropStale(p)
        BY <3>1, <3>2, SubsetsOfName DEF DropStale
      <4>4. /\ ~ FetchManifest(p) /\ ~ WithdrawOld(p) /\ ~ RemoveStale(p) /\ ~ OpenBundle(p)
            /\ ~ InstallCompact(p) /\ ~ SeeLayout(p) /\ ~ InstallWeight(p) /\ ~ FetchFile(p)
            /\ ~ Seal(p) /\ ~ Reopen(p) /\ ~ Launch(p) /\ ~ Crash(p)
        BY <3>2 DEF FetchManifest, WithdrawOld, RemoveStale, OpenBundle, InstallCompact, SeeLayout,
                    InstallWeight, FetchFile, Seal, Reopen, Launch, Crash
      <4> QED
        BY <3>4, <4>2, <4>3, <4>4, DependencyActions
    <3> QED
      BY <3>3, <3>4 DEF TypeOK
  <2>2. CASE DropOld(p)
    <3>1. Replacing(p)
      BY <1>6, <2>2 DEF DropOld
    <3>2. run'[p].commit /\ run'[p].at \in {"layout", "compact"}
      BY <1>2, <3>1, ReplacingDoes
    <3> QED
      BY <3>2 DEF Heading, Active, Ended
  <2>3. CASE Withdraw(p)
    <3>1. run' = [run EXCEPT ![p].at = "repair", ![p].commit = TRUE]
      BY <1>6, <2>3 DEF Withdraw
    <3>2. run'[p].commit /\ run'[p].at = "repair"
      BY <1>2, <3>1, WithdrawDoes
    <3> QED
      BY <3>2 DEF Heading, Active, Ended
  <2>4. CASE ClearManifest(p)
    <3>1. Go(p, "seal") /\ run[p].commit
      BY <2>4 DEF ClearManifest, At, Knowledge, DependencyKnows
    <3>2. run'[p].commit /\ run'[p].at = "seal"
      BY <1>2, <3>1, GoDoes
    <3> QED
      BY <3>2 DEF Heading, Active, Ended
  <2> QED
    BY <2>1, <2>2, <2>3, <2>4
<1>7. CASE Work(p) /\ ~ Holds(Manifest)
  <2>1. disk[Manifest] = "absent" /\ Active(p)
    BY <1>7, WorkIsActive DEF Holds
  <2>2. PICK q \in Process : Excused(q) \/ Heading(q)
    BY <2>1 DEF Owed
  <2>3. CASE q = p
    <3>1. ~ Excused(p)
      BY <2>1 DEF Causes, Excused, Active, Ended
    <3> QED
      BY <1>1, <1>7, <2>1, <2>2, <2>3, <3>1, HeadingOn
  <2>4. CASE q # p /\ Excused(q)
    BY <1>3, <2>4 DEF Excused
  <2>5. CASE q # p /\ Heading(q)
    <3>1. flow = "pipeline"
      BY <2>5, DependencyAlone DEF TypeOK, Heading
    <3>2. CASE Holds(Logical)' \/ run[q].at # "drop stale"
      BY <1>3, <2>5, <3>2 DEF Heading, Active
    <3>3. CASE ~ Holds(Logical)' /\ run[q].at = "drop stale"
      <4>1. Holds(Logical) /\ PipelineKnows(p)
        BY <2>5, <3>1, <3>3 DEF Heading, Knowledge
      <4>2. Put(Logical, "absent")
        <5>1. Logical \in Name /\ Logical # Manifest
          BY SubsetsOfName
        <5>2. ~ UNCHANGED disk
          BY <3>3, <4>1 DEF Holds
        <5>3. ~ Put(Manifest, "absent") /\ ~ Put(Manifest, "good")
          BY <1>2, <3>3, <4>1, <5>1, PutDoes DEF Holds
        <5>4. ASSUME NEW f \in Declared \cup Parts, Put(f, "good")
              PROVE  FALSE
          <6>1. f \in Name
            BY SubsetsOfName
          <6> QED
            BY <1>2, <3>3, <4>1, <5>1, <5>4, <6>1, PutDoes DEF Holds
        <5> QED
          BY <3>1, <4>1, <5>2, <5>3, <5>4, PipelineWrites
      <4>3. DropStale(p)
        <5>1. disk'[Logical] = "absent" /\ disk[Logical] # "absent"
          BY <1>2, <4>1, <4>2, PutDoes, SubsetsOfName DEF Holds
        <5>2. ~ UNCHANGED disk
          BY <5>1
        <5>3. ASSUME NEW f \in Name, Put(f, "good")
              PROVE  FALSE
          BY <1>2, <5>1, <5>3, PutDoes, SubsetsOfName
        <5>4. ~ Put(Manifest, "absent")
          BY <1>2, <5>1, PutDoes, SubsetsOfName
        <5>5. ~ RepairDirect(p)
          <6>1. RepairDirect(p) => run[p].file \in Declared
            BY <4>1 DEF RepairDirect, At, PipelineKnows, TypeOK
          <6> QED
            BY <5>2, <5>3, <6>1, SubsetsOfName DEF RepairDirect
        <5>6. ~ RepairPart(p)
          <6>1. run[p].left \subseteq Parts
            BY DEF TypeOK
          <6> QED
            BY <5>2, <5>3, <6>1, SubsetsOfName DEF RepairPart
        <5>7. ~ DropOld(p) /\ ~ Withdraw(p) /\ ~ CommitPipeline(p)
          BY <5>2, <5>3, <5>4, SubsetsOfName DEF DropOld, Withdraw, CommitPipeline
        <5>8. /\ ~ FetchManifest(p) /\ ~ WithdrawOld(p) /\ ~ RemoveStale(p) /\ ~ ReadManifest(p)
              /\ ~ ResolveLayout(p) /\ ~ FetchLayout(p) /\ ~ CheckFile(p) /\ ~ PartsDone(p)
              /\ ~ FilesDone(p) /\ ~ Launch(p) /\ ~ Crash(p)
          BY <5>2 DEF FetchManifest, WithdrawOld, RemoveStale, ReadManifest, ResolveLayout, FetchLayout,
                      CheckFile, PartsDone, FilesDone, Launch, Crash
        <5> QED
          BY <3>1, <5>5, <5>6, <5>7, <5>8, PipelineActions
      <4>4. StaleGone(p) /\ run[p].commit
        BY <4>1, <4>3 DEF DropStale, At, PipelineKnows
      <4>5. run'[p].at = "files" /\ run'[p].commit
        BY <1>2, <3>1, <4>4, StaleGoneDoes
      <4> QED
        BY <4>5 DEF Heading, Active, Ended
    <3> QED
      BY <3>2, <3>3
  <2> QED
    BY <2>2, <2>3, <2>4, <2>5
<1> QED
  BY <1>4, <1>5, <1>6, <1>7 DEF Step

-----------------------------------------------------------------------------
(* The theorems                                                            *)

LEMMA InitInvariant == Init => IInv
<1> SUFFICES ASSUME Init PROVE IInv
  OBVIOUS
<1>1. TypeOK
  BY InitTyped
<1>2. \A p \in Process : run[p].at = "idle" /\ run[p].commit = FALSE /\ run[p].cause = "none"
  BY DEF Init, Fresh
<1>3. Labels /\ Alone /\ Causes
  BY <1>2 DEF Labels, Alone, Causes, Active, Ended
<1>4. Knowledge
  BY <1>2 DEF Knowledge, PipelineKnows, DependencyKnows, DependencyOnly
<1>5. Sealed /\ Unread
  BY <1>2 DEF Sealed, Unread
<1>6. Owed
  <2>1. PICK p \in Process : TRUE
    BY CacheAssumption DEF CacheAssumption
  <2> QED
    BY <1>2, <2>1 DEF Owed, Excused
<1> QED
  BY <1>1, <1>3, <1>4, <1>5, <1>6 DEF IInv

LEMMA StepInvariant ==
  ASSUME "dependency" \notin Overlap, IInv, [Next]_vars
  PROVE  IInv'
<1>1. CASE Next
  <2>1. PICK p \in Process : Step(p)
    BY <1>1 DEF Next, Step
  <2> QED
    BY <2>1, StepTyped, AloneKept, KnowledgeKept, CausesKept, SealedKept, UnreadKept, OwedKept DEF IInv
<1>2. CASE UNCHANGED vars
  <2>1. TypeOK' /\ Labels' /\ Alone' /\ Causes'
    BY <1>2 DEF vars, IInv, TypeOK, Declared, Small, Labels, Alone, Active, Causes
  <2>2. Knowledge'
    <3>1. /\ UNCHANGED <<flow, transported, disk, run>> /\ Declared' = Declared /\ Small' = Small
          /\ SmallGood' = SmallGood /\ PartsGood' = PartsGood /\ Complete' = Complete
      BY <1>2 DEF vars, Declared, Small, SmallGood, PartsGood, Complete, Good
    <3>2. ASSUME NEW p \in Process, PipelineKnows(p)
          PROVE  PipelineKnows(p)'
      BY <3>1, <3>2 DEF PipelineKnows, Cached, Holds, Good, Backed
    <3>3. ASSUME NEW p \in Process, DependencyKnows(p)
          PROVE  DependencyKnows(p)'
      BY <3>1, <3>3 DEF DependencyKnows, Good, Active
    <3> QED
      BY <3>1, <3>2, <3>3 DEF IInv, Knowledge
  <2>3. Sealed' /\ Unread' /\ Owed'
    BY <1>2 DEF vars, IInv, Sealed, Good, Complete, Small, Unread, Owed, Excused, Heading, Active, Holds
  <2> QED
    BY <2>1, <2>2, <2>3 DEF IInv
<1> QED
  BY <1>1, <1>2

(* Unless runs that keep a dependency overlap, the invariant holds: what   *)
(* runs know of the files stays true whatever the others do, and who       *)
(* removed the manifest is on the way to install it or has an excuse.      *)
THEOREM CacheInvariant == "dependency" \notin Overlap => (Spec => []IInv)
<1> SUFFICES ASSUME "dependency" \notin Overlap PROVE Spec => []IInv
  OBVIOUS
<1>1. IInv /\ [Next]_vars => IInv'
  BY StepInvariant
<1> QED
  BY <1>1, InitInvariant, PTL DEF Spec

(* The manifest is installed last: whenever it appears, every payload it   *)
(* declares is there and verified (cache.rs:66).                           *)
THEOREM ManifestIsLast == "dependency" \notin Overlap => (Spec => SealedLast)
<1> SUFFICES ASSUME "dependency" \notin Overlap PROVE Spec => SealedLast
  OBVIOUS
<1>1. IInv /\ [Next]_vars => [disk[Manifest] # "good" /\ disk'[Manifest] = "good" => Complete]_vars
  <2> SUFFICES ASSUME IInv, Next, disk[Manifest] # "good", disk'[Manifest] = "good"
               PROVE  Complete
    BY DEF vars
  <2>1. PICK p \in Process : Step(p)
    BY DEF Next, Step
  <2> QED
    BY <2>1, ManifestComes DEF IInv, Good
<1> QED
  BY <1>1, CacheInvariant, PTL DEF Spec, SealedLast

(* Nothing is repaired under a manifest: while it is in place, no payload  *)
(* changes (cache.rs:111, native_artifact_cache.rs:349).                   *)
THEOREM NoRepairInPlace == "dependency" \notin Overlap => (Spec => RepairedWithdrawn)
<1> SUFFICES ASSUME "dependency" \notin Overlap PROVE Spec => RepairedWithdrawn
  OBVIOUS
<1>1. IInv /\ [Next]_vars
      => [disk[Manifest] = "good" => \A f \in Name \ {Manifest} : disk'[f] = disk[f]]_vars
  <2> SUFFICES ASSUME IInv, Next, disk[Manifest] = "good", NEW f \in Name \ {Manifest}
               PROVE  disk'[f] = disk[f]
    BY DEF vars
  <2>1. PICK p \in Process : Step(p)
    BY DEF Next, Step
  <2> QED
    BY <2>1, UnderManifest DEF IInv, Good
<1> QED
  BY <1>1, CacheInvariant, PTL DEF Spec, RepairedWithdrawn

(* A run that reports success leaves verified payloads, whatever the other *)
(* processes have done and go on doing.                                    *)
THEOREM SuccessIsComplete == "dependency" \notin Overlap => (Spec => []OkMeansComplete)
<1> SUFFICES ASSUME "dependency" \notin Overlap PROVE Spec => []OkMeansComplete
  OBVIOUS
<1>1. IInv => OkMeansComplete
  BY DEF IInv, TypeOK, Knowledge, PipelineKnows, DependencyKnows, OkMeansComplete, At
<1> QED
  BY <1>1, CacheInvariant, PTL

(* Every directory can be repaired and a race has a winner: when all runs  *)
(* have ended and no transfer failed, the bundle is committed.             *)
THEOREM RacesAreWon == "dependency" \notin Overlap => (Spec => []RaceHasWinner)
<1> SUFFICES ASSUME "dependency" \notin Overlap PROVE Spec => []RaceHasWinner
  OBVIOUS
<1>1. IInv => RaceHasWinner
  <2> SUFFICES ASSUME IInv,
                      \A p \in Process : run[p].at \in {"ok", "failed"} /\ run[p].cause # "network"
               PROVE  disk[Manifest] = "good" /\ Complete
    BY DEF RaceHasWinner
  <2>1. PICK p \in Process : TRUE
    BY CacheAssumption DEF CacheAssumption
  <2>2. \A q \in Process : run[q].at = "failed" => run[q].cause = "raced"
    BY DEF IInv, Causes, TypeOK
  <2>3. disk[Manifest] # "absent"
    <3>1. \A q \in Process : ~ Excused(q) /\ ~ Heading(q)
      BY DEF Excused, Heading, Active, Ended
    <3> QED
      BY <3>1 DEF IInv, Owed
  <2>4. disk[Manifest] # "bad"
    BY <2>1, <2>2 DEF IInv, Unread
  <2>5. disk[Manifest] = "good"
    BY <2>3, <2>4, SubsetsOfName DEF IInv, TypeOK
  <2>6. CASE run[p].at = "ok"
    BY <2>5, <2>6 DEF IInv, TypeOK, Knowledge, PipelineKnows, DependencyKnows
  <2>7. CASE run[p].at = "failed"
    BY <2>2, <2>5, <2>7 DEF IInv, Sealed, Good
  <2> QED
    BY <2>5, <2>6, <2>7
<1> QED
  BY <1>1, CacheInvariant, PTL

=============================================================================
