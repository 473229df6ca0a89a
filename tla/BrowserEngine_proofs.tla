------------------------- MODULE BrowserEngine_proofs -------------------------
(***************************************************************************)
(* Proofs about BrowserEngine, and the reader under it, for any releases,  *)
(* stages, objects and transport parts.                                    *)
(***************************************************************************)
EXTENDS BrowserEngine, SequenceTheorems, TLAPS

-----------------------------------------------------------------------------
(* The inductive invariant of the reader                                   *)

(* What the page has verified it relies on, and it relies only on entries  *)
(* that have been stored: such an entry can be missing, but not unknown.   *)
Relied ==
  /\ used \subseteq populated
  /\ \A k \in populated : storage[k] # "none"

(* A transfer never starts for what the page relies on, but after the      *)
(* reader has evicted it.                                                  *)
Evicted == Reading("fetch") /\ io.key \in populated => storage[io.key] = "rejected"

(* A read reaches the second part only after the first, and its end only   *)
(* after the last.                                                         *)
Progress ==
  /\ io.at # "idle" => io.key \in Keys
  /\ io.at # "idle" /\ io.key[2] = 2 =>
       storage[<<io.key[1], 1>>] # "none" /\ {<<io.key[1], 1>>} \cap plan \subseteq counted
  /\ io.at = "done" => PartsOf(io.key[1]) \cap plan \subseteq counted
  /\ io.cause = "lost" => io.at = "failed" /\ storage[io.key] \in Absent \ {"none"}

ReaderInv == StreamTypeOK /\ Relied /\ Evicted /\ Progress

-----------------------------------------------------------------------------
(* The inductive invariant of the engine                                   *)

Elements(q) == {q[i] : i \in 1 .. Len(q)}
Queued == Elements(queue)

Composing == {"preflight", "press", "metadata"}
Serving == {"check", "rehydrate", "preload", "load", "text", "dmd", "decoder", "output", "cleanup"}

(* Which labels a task can be at.                                          *)
Labels ==
  /\ serving => at \in Serving
  /\ ~ serving => at \notin Serving \ {"preload", "load"}
  /\ Resident => at \notin {"rehydrate", "preload", "decoder", "cleanup"}
  /\ Resident /\ serving => at # "load"

(* Why the last task ended; no task is refused, and an engine is only      *)
(* incomplete while work it has not waited for is pending.                 *)
Answered ==
  /\ at \in {"closed", "retire", "compose", "preload", "load"} \cup Composing => why = "none"
  /\ serving /\ at # "cleanup" => why = "none"
  /\ why # "refused"
  /\ why = "incomplete" => pending

(* The GPU of a resident engine, label by label.                           *)
ResidentGpu ==
  /\ at \in {"ready", "check", "text", "dmd", "output", "retire"} =>
       device = Weights(release) /\ counted = plan
  /\ at = "retire" => target # release
  /\ at = "compose" => device = Reused(release, target)
  /\ at \in Composing \cup {"load"} =>
       /\ device \cup Queued = Weights(release)
       /\ plan = KeysOf(Weights(release)) /\ KeysOf(device) \subseteq counted
  /\ at \in Composing \cup {"compose", "load"} => ~ pending

(* The GPU of a packed engine, label by label.                             *)
PackedGpu ==
  /\ at \in {"compose", "preload"} \cup Composing => packed = "empty" /\ device = {}
  /\ at = "retire" => FALSE
  /\ at = "load" => packed = "preloading" /\ device \cup Queued = Denoiser(release)
  /\ at \in {"ready", "check"} =>
       /\ packed \in {"empty", "ready", "failed"}
       /\ device = IF packed = "ready" THEN Denoiser(release) ELSE {}
  /\ at = "ready" /\ why # "none" => device = {}
  /\ at = "rehydrate" => packed \in {"empty", "failed"} /\ device = {}
  /\ at \in {"text", "dmd"} => packed = "ready" /\ device = Denoiser(release)
  /\ at = "decoder" => packed = "empty" /\ device = {}
  /\ at = "output" => packed = "empty" /\ device = {Decoder}
  /\ at = "cleanup" => device \subseteq Denoiser(release) \/ device \subseteq {Decoder}

GpuInv ==
  /\ at \in {"closed", "lost"} => device = {} /\ packed = "empty" /\ ~ pending
  /\ Resident => ResidentGpu
  /\ ~ Resident => PackedGpu

(* The reader only reads what the task wants.                              *)
Reads == io.at # "idle" => Wanted # <<>> /\ io.key[1] = Head(Wanted)

IInv == TypeOK /\ ReaderInv /\ Labels /\ Answered /\ GpuInv /\ Reads

-----------------------------------------------------------------------------
(* Keys and parts                                                          *)

IoSet ==
  [at : {"idle", "match", "evict", "fetch", "put", "reject", "done", "failed"},
   key : Keys \cup {<<>>}, bytes : {"none", "good", "bad"}, forced : BOOLEAN, cause : Causes]

LEMMA KeyParts ==
  ASSUME NEW k \in Keys
  PROVE  /\ k[1] \in Objects /\ k[2] \in 1 .. LastPart(k[1])
         /\ k = <<k[1], k[2]>> /\ k \in PartsOf(k[1])
BY DEF Keys, KeysOf, PartsOf

LEMMA PartKeys ==
  ASSUME NEW o \in Objects
  PROVE  PartsOf(o) \subseteq Keys /\ \A part \in 1 .. LastPart(o) : <<o, part>> \in PartsOf(o)
BY DEF Keys, KeysOf, PartsOf

LEMMA LastParts ==
  ASSUME NEW o
  PROVE  LastPart(o) \in {1, 2} /\ (LastPart(o) = 2 => PartsOf(o) = {<<o, 1>>, <<o, 2>>})
         /\ (LastPart(o) = 1 => PartsOf(o) = {<<o, 1>>})
<1>1. LastPart(o) \in {1, 2}
  BY DEF LastPart
<1>2. 1 .. 1 = {1} /\ 1 .. 2 = {1, 2}
  OBVIOUS
<1> QED
  BY <1>1, <1>2 DEF PartsOf

LEMMA NoReadTyped == NoRead \in IoSet
BY DEF NoRead, IoSet, Causes

LEMMA ReadEndsDoes ==
  ASSUME io \in IoSet, NEW cause \in Causes, ReadEnds(cause)
  PROVE  io' \in IoSet /\ io'.at = "failed" /\ io'.cause = cause /\ io'.key = io.key
BY DEF ReadEnds, IoSet

LEMMA BeginDoes ==
  ASSUME NEW k \in Keys, io' = [NoRead EXCEPT !.at = "match", !.key = k]
  PROVE  io' \in IoSet /\ io'.at = "match" /\ io'.key = k /\ io'.cause = "none"
BY DEF NoRead, IoSet, Causes

LEMMA JudgeDoes ==
  ASSUME io \in IoSet, io.key \in Keys, NEW bytes \in {"good", "bad"}, Judge(bytes)
  PROVE  /\ io' \in IoSet
         /\ \/ /\ bytes = "good" /\ io.key[2] = 1 /\ LastPart(io.key[1]) = 2
               /\ io'.at = "match" /\ io'.key = <<io.key[1], 2>> /\ io'.cause = "none"
            \/ /\ bytes = "good" /\ io.key[2] = LastPart(io.key[1])
               /\ io'.at = "done" /\ io'.key = io.key /\ io'.cause = io.cause
            \/ /\ bytes = "bad" /\ io'.at \in {"reject", "evict"}
               /\ io'.key = io.key /\ io'.cause = io.cause
<1> DEFINE o == io.key[1]
<1> DEFINE part == io.key[2]
<1>1. o \in Objects /\ part \in 1 .. LastPart(o) /\ LastPart(o) \in {1, 2}
  BY KeyParts, LastParts
<1>2. CASE bytes = "good" /\ part < LastPart(o) /\ io' = [NoRead EXCEPT !.at = "match", !.key = <<o, part + 1>>]
  <2>1. part = 1 /\ LastPart(o) = 2
    BY <1>1, <1>2
  <2>2. <<o, 2>> \in Keys
    BY <1>1, <2>1, PartKeys
  <2>3. io' = [NoRead EXCEPT !.at = "match", !.key = <<o, 2>>]
    BY <1>2, <2>1
  <2> QED
    BY <1>2, <2>1, <2>2, <2>3, BeginDoes
<1>3. CASE bytes = "good" /\ part = LastPart(o) /\ io' = [io EXCEPT !.at = "done"]
  BY <1>3 DEF IoSet
<1>4. CASE bytes = "bad" /\ io' = [io EXCEPT !.at = IF io.forced THEN "reject" ELSE "evict",
                                             !.forced = TRUE, !.bytes = "none"]
  BY <1>4 DEF IoSet
<1> QED
  BY <1>2, <1>3, <1>4 DEF Judge

-----------------------------------------------------------------------------
(* The reader keeps its invariant                                          *)

LEMMA ReaderTypes ==
  ReaderInv => /\ io \in IoSet /\ storage \in [Keys -> Present \cup Absent] /\ populated \subseteq Keys
               /\ plan \subseteq Keys /\ counted \subseteq plan /\ used \subseteq Keys
               /\ cancelled \in BOOLEAN /\ spoils \in 0 .. MaxSpoils
BY DEF ReaderInv, StreamTypeOK, IoSet

(* The bytes of a part arrive, from the cache or from the network.         *)
LEMMA DeliveredKeeps ==
  ASSUME ReaderInv, io.at \in {"match", "put"}, NEW bytes \in {"good", "bad"},
         NEW stored \in SUBSET {io.key}, Delivered(bytes, stored),
         storage' \in [Keys -> Present \cup Absent], storage'[io.key] # "none",
         \A k \in Keys : k # io.key => storage'[k] = storage[k],
         UNCHANGED <<plan, spoils, cancelled>>
  PROVE  ReaderInv'
<1> USE ReaderTypes
<1>1. io.key \in Keys /\ io.cause # "lost" /\ io.at # "idle"
  BY DEF ReaderInv, Progress
<1> DEFINE o == io.key[1]
<1>2. o \in Objects /\ io.key[2] \in 1 .. LastPart(o) /\ io.key = <<o, io.key[2]>>
      /\ PartsOf(o) \subseteq Keys /\ io.key \in PartsOf(o)
  BY <1>1, KeyParts, PartKeys
<1>3. LastPart(o) \in {1, 2}
      /\ (LastPart(o) = 2 => PartsOf(o) = {<<o, 1>>, <<o, 2>>})
      /\ (LastPart(o) = 1 => PartsOf(o) = {<<o, 1>>})
  BY LastParts
<1>4. Judge(bytes) /\ counted' = counted \cup ({io.key} \cap plan)
  BY DEF Delivered
<1>5. /\ io' \in IoSet
      /\ \/ /\ bytes = "good" /\ io.key[2] = 1 /\ LastPart(o) = 2
            /\ io'.at = "match" /\ io'.key = <<o, 2>> /\ io'.cause = "none"
         \/ /\ bytes = "good" /\ io.key[2] = LastPart(o)
            /\ io'.at = "done" /\ io'.key = io.key /\ io'.cause = io.cause
         \/ /\ bytes = "bad" /\ io'.at \in {"reject", "evict"}
            /\ io'.key = io.key /\ io'.cause = io.cause
  BY <1>1, <1>4, JudgeDoes
<1>6. \/ /\ io.key[2] = LastPart(o) /\ populated' = populated \cup PartsOf(o)
         /\ used' = used \cup PartsOf(o)
      \/ populated' = populated \cup stored /\ used' = used
  BY DEF Delivered, Verified, Protect
<1>7. io.key[2] = 2 => storage[<<o, 1>>] # "none" /\ {<<o, 1>>} \cap plan \subseteq counted
  BY <1>1 DEF ReaderInv, Progress
<1>8. \A k \in Keys : storage[k] # "none" => storage'[k] # "none"
  OBVIOUS
<1>9. io.key[2] = LastPart(o) => \A k \in PartsOf(o) : storage'[k] # "none"
  BY <1>2, <1>3, <1>7, <1>8
<1>10. StreamTypeOK'
  BY <1>1, <1>2, <1>4, <1>5, <1>6 DEF StreamTypeOK, IoSet
<1>11. Relied'
  BY <1>1, <1>6, <1>8, <1>9 DEF ReaderInv, Relied
<1>12. Evicted'
  BY <1>5 DEF Evicted, Reading
<1>13. Progress'
  <2>1. CASE io'.at = "match" /\ io'.key = <<o, 2>> /\ io.key[2] = 1 /\ LastPart(o) = 2 /\ io'.cause = "none"
    <3>1. io.key = <<o, 1>> /\ <<o, 2>> \in Keys
      BY <1>2, <1>3, <2>1
    <3>2. {<<o, 1>>} \cap plan' \subseteq counted'
      BY <1>4, <3>1
    <3> QED
      BY <2>1, <3>1, <3>2 DEF Progress
  <2>2. CASE io.key[2] = LastPart(o) /\ io'.at = "done" /\ io'.key = io.key /\ io'.cause = io.cause
    <3>1. PartsOf(o) \cap plan' \subseteq counted'
      BY <1>2, <1>3, <1>4, <1>7, <2>2
    <3>2. io.key[2] = 2 => storage'[<<o, 1>>] # "none" /\ {<<o, 1>>} \cap plan' \subseteq counted'
      BY <1>2, <1>3, <1>4, <1>7, <1>8
    <3> QED
      BY <1>1, <2>2, <3>1, <3>2 DEF Progress
  <2>3. CASE io'.at \in {"reject", "evict"} /\ io'.key = io.key /\ io'.cause = io.cause
    <3>1. io.key[2] = 2 => storage'[<<o, 1>>] # "none" /\ {<<o, 1>>} \cap plan' \subseteq counted'
      BY <1>2, <1>3, <1>4, <1>7, <1>8
    <3> QED
      BY <1>1, <2>3, <3>1 DEF Progress
  <2> QED
    BY <1>5, <2>1, <2>2, <2>3
<1> QED
  BY <1>10, <1>11, <1>12, <1>13 DEF ReaderInv

(* The read goes on with the same part, or ends.                           *)
LEMMA SamePartKeeps ==
  ASSUME ReaderInv, io.at # "idle", io' \in IoSet, io'.key = io.key,
         io'.at \notin {"idle", "done"}, storage' \in [Keys -> Present \cup Absent],
         \A k \in Keys : storage[k] # "none" => storage'[k] # "none",
         io'.at = "fetch" /\ io.key \in populated => storage'[io.key] = "rejected",
         io'.cause = "lost" => io'.at = "failed" /\ storage'[io.key] \in Absent \ {"none"},
         UNCHANGED <<plan, counted, populated, used, spoils, cancelled>>
  PROVE  ReaderInv'
<1> USE ReaderTypes
<1>1. io.key \in Keys
  BY DEF ReaderInv, Progress
<1>2. StreamTypeOK'
  BY DEF StreamTypeOK, IoSet
<1>3. Relied' /\ Evicted'
  BY DEF ReaderInv, Relied, Evicted, Reading
<1>4. io.key[2] = 2 => <<io.key[1], 1>> \in Keys
  <2>1. io.key[1] \in Objects /\ io.key[2] \in 1 .. LastPart(io.key[1])
    BY <1>1, KeyParts
  <2> QED
    BY <2>1, LastParts, PartKeys
<1>5. Progress'
  BY <1>1, <1>4 DEF ReaderInv, Progress
<1> QED
  BY <1>2, <1>3, <1>5 DEF ReaderInv

(* Nothing is being read, before or after.                                 *)
LEMMA IdleKeeps ==
  ASSUME ReaderInv, Reading("idle"), UNCHANGED io, StreamTypeOK', Relied'
  PROVE  ReaderInv'
BY DEF ReaderInv, Progress, Evicted, Reading

LEMMA DroppedKeeps ==
  ASSUME ReaderInv, io' = NoRead, StorageStill, cancelled' \in BOOLEAN
  PROVE  ReaderInv'
<1>1. io' \in IoSet /\ io'.at = "idle" /\ io'.cause = "none"
  BY NoReadTyped DEF NoRead
<1>2. StreamTypeOK' /\ Relied'
  BY <1>1, ReaderTypes DEF StreamTypeOK, IoSet, StorageStill, ReaderInv, Relied
<1> QED
  BY <1>1, <1>2 DEF ReaderInv, Progress, Evicted, Reading

LEMMA StillKeeps ==
  ASSUME ReaderInv, UNCHANGED io, StorageStill, cancelled' \in BOOLEAN
  PROVE  ReaderInv'
BY DEF ReaderInv, StreamTypeOK, Relied, Evicted, Progress, StorageStill, Reading

LEMMA LookupKeeps ==
  ASSUME ReaderInv, Lookup
  PROVE  ReaderInv'
<1> USE ReaderTypes
<1>1. io.at = "match" /\ io.key \in Keys /\ io.cause # "lost"
  BY DEF Lookup, Reading, ReaderInv, Progress
<1>2. UNCHANGED <<storage, spoils, plan, cancelled>>
  BY DEF Lookup
<1>3. ASSUME NEW cause \in Causes, ReadEnds(cause), UNCHANGED <<counted, populated, used>>,
             cause = "lost" => io.key \in populated /\ ~ Stored(io.key)
      PROVE  ReaderInv'
  <2>1. io' \in IoSet /\ io'.at = "failed" /\ io'.cause = cause /\ io'.key = io.key
    BY <1>3, ReadEndsDoes
  <2>2. cause = "lost" => storage[io.key] \in Absent \ {"none"}
    BY <1>1, <1>3 DEF ReaderInv, Relied, Stored
  <2> QED
    BY <1>1, <1>2, <1>3, <2>1, <2>2, SamePartKeeps
<1>4. ASSUME NEW label \in {"evict", "fetch"}, io' = [io EXCEPT !.at = label],
             UNCHANGED <<counted, populated, used>>, label = "fetch" => io.key \notin populated
      PROVE  ReaderInv'
  <2>1. io' \in IoSet /\ io'.at = label /\ io'.cause = io.cause /\ io'.key = io.key
    BY <1>4 DEF IoSet
  <2> QED
    BY <1>1, <1>2, <1>4, <2>1, SamePartKeeps
<1>5. CASE storage[io.key] \in {"good", "bad"} /\ Delivered(storage[io.key], {})
  BY <1>1, <1>2, <1>5, DeliveredKeeps
<1>6. {"cancelled", "storage", "lost"} \subseteq Causes
  BY DEF Causes
<1> QED
  BY <1>3, <1>4, <1>5, <1>6 DEF Lookup

LEMMA EvictKeeps ==
  ASSUME ReaderInv, Evict
  PROVE  ReaderInv'
<1> USE ReaderTypes
<1>1. io.at = "evict" /\ io.key \in Keys /\ io.cause # "lost"
  BY DEF Evict, Reading, ReaderInv, Progress
<1>2. UNCHANGED <<spoils, populated, plan, counted, cancelled, used>>
  BY DEF Evict
<1>3. \/ UNCHANGED storage /\ ReadEnds("storage")
      \/ /\ storage' = [storage EXCEPT ![io.key] = "rejected"]
         /\ ReadEnds("cancelled") \/ io' = [io EXCEPT !.at = "fetch"]
  BY DEF Evict
<1>4. /\ io' \in IoSet /\ io'.key = io.key /\ io'.cause # "lost"
      /\ io'.at = "failed" \/ (io'.at = "fetch" /\ storage' = [storage EXCEPT ![io.key] = "rejected"])
  <2>1. {"storage", "cancelled"} \subseteq Causes
    BY DEF Causes
  <2>2. CASE ReadEnds("storage") \/ ReadEnds("cancelled")
    BY <2>1, <2>2, ReadEndsDoes
  <2>3. CASE io' = [io EXCEPT !.at = "fetch"] /\ storage' = [storage EXCEPT ![io.key] = "rejected"]
    BY <1>1, <2>3 DEF IoSet
  <2> QED
    BY <1>3, <2>2, <2>3
<1>5. /\ storage' \in [Keys -> Present \cup Absent]
      /\ \A k \in Keys : storage[k] # "none" => storage'[k] # "none"
      /\ io'.at = "fetch" => storage'[io.key] = "rejected"
  BY <1>1, <1>3, <1>4 DEF Absent
<1> QED
  BY <1>1, <1>2, <1>4, <1>5, SamePartKeeps

LEMMA FetchKeeps ==
  ASSUME ReaderInv, Fetch
  PROVE  ReaderInv'
<1> USE ReaderTypes
<1>1. io.at = "fetch" /\ io.key \in Keys /\ io.cause # "lost"
  BY DEF Fetch, Reading, ReaderInv, Progress
<1>2. io' \in IoSet /\ io'.key = io.key /\ io'.cause # "lost" /\ io'.at \in {"failed", "put"}
  <2>1. CASE ReadEnds("network")
    <3>1. "network" \in Causes
      BY DEF Causes
    <3> QED
      BY <2>1, <3>1, ReadEndsDoes
  <2>2. CASE \E bytes \in {"good", "bad"} : io' = [io EXCEPT !.at = "put", !.bytes = bytes]
    BY <1>1, <2>2 DEF IoSet
  <2> QED
    BY <2>1, <2>2 DEF Fetch
<1> QED
  BY <1>1, <1>2, SamePartKeeps DEF Fetch

LEMMA PutEntryKeeps ==
  ASSUME ReaderInv, PutEntry
  PROVE  ReaderInv'
<1> USE ReaderTypes
<1>1. io.at = "put" /\ io.key \in Keys /\ io.cause # "lost"
  BY DEF PutEntry, Reading, ReaderInv, Progress
<1>2. CASE ReadEnds("storage") /\ UNCHANGED <<storage, populated, counted, used>>
  <2>1. "storage" \in Causes
    BY DEF Causes
  <2>2. io' \in IoSet /\ io'.at = "failed" /\ io'.cause = "storage" /\ io'.key = io.key
    BY <1>2, <2>1, ReadEndsDoes
  <2> QED
    BY <1>1, <1>2, <2>2, SamePartKeeps DEF PutEntry
<1>3. CASE storage' = [storage EXCEPT ![io.key] = io.bytes] /\ Delivered(io.bytes, {io.key})
  <2>1. io.bytes \in {"good", "bad"}
    <3>1. io.bytes \in {"none", "good", "bad"}
      BY DEF IoSet
    <3>2. Judge(io.bytes)
      BY <1>3 DEF Delivered
    <3> QED
      BY <3>1, <3>2 DEF Judge
  <2>2. storage' \in [Keys -> Present \cup Absent] /\ storage'[io.key] # "none"
    BY <1>1, <1>3, <2>1 DEF Present
  <2> QED
    BY <1>1, <1>3, <2>1, <2>2, DeliveredKeeps DEF PutEntry
<1> QED
  BY <1>2, <1>3 DEF PutEntry

LEMMA RejectKeeps ==
  ASSUME ReaderInv, Reject
  PROVE  ReaderInv'
<1> USE ReaderTypes
<1>1. io.at = "reject" /\ io.key \in Keys
  BY DEF Reject, Reading, ReaderInv, Progress
<1>2. {"storage", "integrity"} \subseteq Causes
  BY DEF Causes
<1>3. io' \in IoSet /\ io'.key = io.key /\ io'.cause # "lost" /\ io'.at = "failed"
  BY <1>2, ReadEndsDoes DEF Reject
<1>4. /\ storage' \in [Keys -> Present \cup Absent]
      /\ \A k \in Keys : storage[k] # "none" => storage'[k] # "none"
  BY <1>1 DEF Reject, Absent
<1> QED
  BY <1>1, <1>3, <1>4, SamePartKeeps DEF Reject

LEMMA BeginReadKeeps ==
  ASSUME ReaderInv, NEW o \in Objects, BeginRead(o)
  PROVE  ReaderInv' /\ io'.key[1] = o
<1>1. <<o, 1>> \in Keys
  BY PartKeys, LastParts
<1>2. io' \in IoSet /\ io'.at = "match" /\ io'.key = <<o, 1>> /\ io'.cause = "none"
  BY <1>1, BeginDoes DEF BeginRead
<1> QED
  BY <1>1, <1>2, ReaderTypes
     DEF BeginRead, ReaderInv, StreamTypeOK, IoSet, Relied, Evicted, Progress, Reading

LEMMA SpoilKeeps ==
  ASSUME ReaderInv, NEW k \in Keys, Spoil(k)
  PROVE  ReaderInv'
<1> USE ReaderTypes
<1>1. /\ spoils' \in 0 .. MaxSpoils /\ storage' \in [Keys -> Present \cup Absent]
      /\ \A j \in Keys : storage[j] # "none" => storage'[j] # "none"
      /\ \A j \in Keys : storage[j] # "good" => storage'[j] = storage[j]
      /\ UNCHANGED <<populated, plan, counted, cancelled, io, used>>
  <2>1. MaxSpoils \in Nat
    BY StreamAssumption DEF StreamAssumption
  <2> QED
    BY <2>1 DEF Spoil, Present, Absent
<1>2. StreamTypeOK'
  BY <1>1 DEF StreamTypeOK, IoSet
<1>3. Relied'
  BY <1>1 DEF ReaderInv, Relied
<1>4. Evicted'
  BY <1>1 DEF ReaderInv, Evicted, Reading
<1>5. Progress'
  <2>1. io.at # "idle" /\ io.key[2] = 2 => <<io.key[1], 1>> \in Keys
    <3>1. SUFFICES ASSUME io.at # "idle", io.key[2] = 2 PROVE <<io.key[1], 1>> \in Keys
      OBVIOUS
    <3>2. io.key[1] \in Objects /\ io.key[2] \in 1 .. LastPart(io.key[1])
      BY <3>1, KeyParts DEF ReaderInv, Progress
    <3> QED
      BY <3>1, <3>2, LastParts, PartKeys
  <2> QED
    BY <1>1, <2>1 DEF ReaderInv, Progress, Absent
<1> QED
  BY <1>2, <1>3, <1>4, <1>5 DEF ReaderInv

-----------------------------------------------------------------------------
(* What the releases weigh                                                 *)

LEMMA EmptyElements == Elements(<<>>) = {}
BY DEF Elements

LEMMA OneElement ==
  ASSUME NEW S, NEW o \in S
  PROVE  <<o>> \in Seq(S) /\ Elements(<<o>>) = {o}
BY DEF Elements

LEMMA ConcatElements ==
  ASSUME NEW S, NEW q \in Seq(S), NEW r \in Seq(S)
  PROVE  q \o r \in Seq(S) /\ Elements(q \o r) = Elements(q) \cup Elements(r)
<1>1. /\ q \o r \in Seq(S) /\ Len(q \o r) = Len(q) + Len(r)
      /\ Len(q) \in Nat /\ Len(r) \in Nat
  OBVIOUS
<1>2. \A i \in 1 .. Len(q) + Len(r) : (q \o r)[i] = IF i <= Len(q) THEN q[i] ELSE r[i - Len(q)]
  OBVIOUS
<1>3. Elements(q \o r) \subseteq Elements(q) \cup Elements(r)
  <2>1. SUFFICES ASSUME NEW i \in 1 .. Len(q \o r)
                 PROVE  (q \o r)[i] \in Elements(q) \cup Elements(r)
    BY DEF Elements
  <2>2. CASE i <= Len(q)
    <3>1. i \in 1 .. Len(q)
      BY <1>1, <2>2
    <3> QED
      BY <1>1, <1>2, <2>2, <3>1 DEF Elements
  <2>3. CASE ~ (i <= Len(q))
    <3>1. i - Len(q) \in 1 .. Len(r)
      BY <1>1, <2>3
    <3> QED
      BY <1>1, <1>2, <2>3, <3>1 DEF Elements
  <2> QED
    BY <2>2, <2>3
<1>4. ASSUME NEW i \in 1 .. Len(q)
      PROVE  q[i] \in Elements(q \o r)
  <2>1. i \in 1 .. Len(q) + Len(r) /\ i <= Len(q)
    BY <1>1
  <2>2. (q \o r)[i] = q[i]
    BY <1>2, <2>1
  <2> QED
    BY <1>1, <2>1, <2>2 DEF Elements
<1>5. ASSUME NEW i \in 1 .. Len(r)
      PROVE  r[i] \in Elements(q \o r)
  <2>1. i + Len(q) \in 1 .. Len(q) + Len(r) /\ ~ (i + Len(q) <= Len(q)) /\ (i + Len(q)) - Len(q) = i
    BY <1>1
  <2>2. (q \o r)[i + Len(q)] = r[i]
    BY <1>2, <2>1
  <2> QED
    BY <1>1, <2>1, <2>2 DEF Elements
<1> QED
  BY <1>1, <1>3, <1>4, <1>5 DEF Elements

LEMMA HeadElements ==
  ASSUME NEW S, NEW q \in Seq(S), q # <<>>
  PROVE  Head(q) \in S /\ Tail(q) \in Seq(S) /\ Elements(q) = {Head(q)} \cup Elements(Tail(q))
<1>1. /\ Len(q) \in Nat /\ Len(q) >= 1 /\ Head(q) = q[1] /\ Tail(q) \in Seq(S)
      /\ Len(Tail(q)) = Len(q) - 1
  OBVIOUS
<1>2. \A i \in 1 .. Len(q) - 1 : Tail(q)[i] = q[i + 1]
  OBVIOUS
<1>3. ASSUME NEW i \in 1 .. Len(q)
      PROVE  q[i] \in {Head(q)} \cup Elements(Tail(q))
  <2>1. CASE i = 1
    BY <1>1, <2>1
  <2>2. CASE i # 1
    <3>1. i - 1 \in 1 .. Len(q) - 1 /\ (i - 1) + 1 = i
      BY <1>1, <2>2
    <3>2. Tail(q)[i - 1] = q[i]
      BY <1>2, <3>1
    <3> QED
      BY <1>1, <3>1, <3>2 DEF Elements
  <2> QED
    BY <2>1, <2>2
<1>4. ASSUME NEW i \in 1 .. Len(Tail(q))
      PROVE  Tail(q)[i] \in Elements(q)
  <2>1. i + 1 \in 1 .. Len(q) /\ i \in 1 .. Len(q) - 1
    BY <1>1
  <2> QED
    BY <1>2, <2>1 DEF Elements
<1>5. Head(q) \in Elements(q) /\ Head(q) \in S
  <2>1. 1 \in 1 .. Len(q)
    BY <1>1
  <2> QED
    BY <1>1, <2>1, ElementOfSeq DEF Elements
<1> QED
  BY <1>1, <1>3, <1>4, <1>5 DEF Elements

LEMMA Weighed ==
  ASSUME NEW r \in Releases
  PROVE  /\ Weights(r) = Shared(r) \cup Denoiser(r) /\ Weights(r) \subseteq Objects
         /\ Shared(r) \cap Denoiser(r) = {} /\ Shared(r) \subseteq {Text, Vision, Decoder}
         /\ \A s \in Releases : s # r => Denoiser(s) \cap Weights(r) = {}
         /\ Decoder \in Shared(r) /\ Decoder \notin Denoiser(r) /\ Meta \notin Weights(r)
         /\ {Text, Decoder, Meta} \subseteq Objects
         /\ {Text, Vision, Decoder} \cap Denoiser(r) = {}
<1> USE EngineAssumption DEF EngineAssumption
<1>1. Shared(r) \subseteq {Text, Vision, Decoder} /\ Decoder \in Shared(r)
  BY DEF Shared
<1>2. \A s \in Releases : {Text, Vision, Decoder, Meta} \cap Denoiser(s) = {}
  OBVIOUS
<1>3. \A s \in Releases : s # r => Denoiser(s) \cap Denoiser(r) = {}
  BY DEF Denoiser
<1>4. Weights(r) = Shared(r) \cup Denoiser(r)
  BY DEF Weights
<1>5. Meta \notin {Text, Vision, Decoder}
  OBVIOUS
<1>6. Denoiser(r) \subseteq Objects /\ {Text, Vision, Decoder, Meta} \subseteq Objects
  OBVIOUS
<1> HIDE DEF EngineAssumption
<1> QED
  BY <1>1, <1>2, <1>3, <1>4, <1>5, <1>6

LEMMA DenoiserOrdered ==
  ASSUME NEW r \in Releases
  PROVE  DenoiserOrder(r) \in Seq(Objects) /\ Elements(DenoiserOrder(r)) = Denoiser(r)
<1>1. Stages \in Nat
  BY EngineAssumption DEF EngineAssumption
<1>2. DenoiserOrder(r) \in [1 .. Stages -> Objects]
  BY Weighed DEF DenoiserOrder, Denoiser
<1>3. DenoiserOrder(r) \in Seq(Objects)
  BY <1>1, <1>2, SeqDef
<1>4. Len(DenoiserOrder(r)) = Stages
  BY <1>1, <1>2, <1>3
<1> QED
  BY <1>3, <1>4 DEF Elements, DenoiserOrder, Denoiser

LEMMA ToLoadElements ==
  ASSUME NEW s \in Releases, NEW r \in Releases
  PROVE  /\ ToLoad(s, r) \in Seq(Objects)
         /\ Elements(ToLoad(s, r)) = Weights(r) \ Reused(s, r)
<1> DEFINE Missing == Shared(r) \ Reused(s, r)
<1> DEFINE Needed(o) == IF o \in Missing THEN <<o>> ELSE <<>>
<1>1. \A o \in Objects : Needed(o) \in Seq(Objects) /\ Elements(Needed(o)) = {o} \cap Missing
  BY OneElement, EmptyElements, EmptySeq
<1>2. {Text, Vision, Decoder} \subseteq Objects
  BY EngineAssumption DEF EngineAssumption
<1>3. ToLoad(s, r) = ((Needed(Vision) \o Needed(Text)) \o Needed(Decoder)) \o DenoiserOrder(r)
  BY DEF ToLoad
<1>4. Missing \subseteq {Text, Vision, Decoder} /\ Missing = Shared(r) \ Reused(s, r)
  BY Weighed
<1> HIDE DEF Needed, Missing
<1> DEFINE First == Needed(Vision) \o Needed(Text)
<1>5. First \in Seq(Objects) /\ Elements(First) = {Vision, Text} \cap Missing
  <2>1. First \in Seq(Objects) /\ Elements(First) = Elements(Needed(Vision)) \cup Elements(Needed(Text))
    BY <1>1, <1>2, ConcatElements
  <2> QED
    BY <1>1, <1>2, <2>1
<1>6. ToLoad(s, r) = (First \o Needed(Decoder)) \o DenoiserOrder(r)
  BY <1>3
<1> HIDE DEF First
<1> DEFINE Kept == First \o Needed(Decoder)
<1>7. Kept \in Seq(Objects) /\ Elements(Kept) = Missing
  <2>1. Kept \in Seq(Objects) /\ Elements(Kept) = Elements(First) \cup Elements(Needed(Decoder))
    BY <1>1, <1>2, <1>5, ConcatElements
  <2> QED
    BY <1>1, <1>2, <1>4, <1>5, <2>1
<1>8. ToLoad(s, r) = Kept \o DenoiserOrder(r)
  BY <1>6
<1> HIDE DEF Kept
<1>9. ToLoad(s, r) \in Seq(Objects) /\ Elements(ToLoad(s, r)) = Missing \cup Denoiser(r)
  BY <1>7, <1>8, ConcatElements, DenoiserOrdered
<1>10. Reused(s, r) \subseteq Shared(r)
  BY DEF Reused
<1> QED
  BY <1>4, <1>9, <1>10, Weighed

-----------------------------------------------------------------------------
(* How a task ends                                                         *)

Whys == Causes \cup {"ok", "device", "incomplete", "refused", "quota", "unsupported"}
Ats ==
  {"closed", "lost", "ready", "retire", "compose", "preflight", "press", "metadata", "preload",
   "load", "check", "rehydrate", "text", "dmd", "decoder", "output", "cleanup"}

EngineTypes ==
  /\ policy \in {"resident", "packed"} /\ release \in Releases /\ target \in Releases
  /\ at \in Ats /\ serving \in BOOLEAN /\ pending \in BOOLEAN
  /\ queue \in Seq(Objects) /\ device \subseteq Objects
  /\ packed \in {"empty", "preloading", "ready", "failed"}
  /\ steps \in 0 .. DmdSteps /\ reloads \in 0 .. MaxReloads /\ why \in Whys

(* What the engine's own variables satisfy.                                *)
EngineInv == EngineTypes /\ Labels /\ Answered /\ GpuInv

LEMMA Parted == IInv <=> ReaderInv /\ EngineInv /\ Reads
<1>1. TypeOK <=> StreamTypeOK /\ EngineTypes
  BY DEF TypeOK, EngineTypes, Whys, Ats
<1> QED
  BY <1>1 DEF IInv, EngineInv, ReaderInv

LEMMA Numbers == Stages \in Nat \ {0} /\ DmdSteps \in Nat \ {0} /\ MaxReloads \in Nat
BY EngineAssumption DEF EngineAssumption

LEMMA WhysHave ==
  /\ Causes \subseteq Whys /\ "refused" \notin Causes /\ "incomplete" \notin Causes
  /\ {"none", "ok", "device", "incomplete", "quota", "unsupported", "network", "storage", "cancelled"}
       \subseteq Whys
BY DEF Whys, Causes

(* A step that reads nothing, and one that takes the end of a read.        *)
LEMMA Settled ==
  ASSUME IInv, NotReading \/ (io' = NoRead /\ StorageStill), cancelled' \in BOOLEAN
  PROVE  ReaderInv' /\ Reads' /\ UNCHANGED <<plan, counted>>
<1>1. ReaderInv'
  BY Parted, StillKeeps, DroppedKeeps DEF NotReading
<1>2. io'.at = "idle"
  BY DEF NotReading, NoRead, Reading
<1>3. UNCHANGED <<plan, counted>>
  BY DEF NotReading, StorageStill
<1> QED
  BY <1>1, <1>2, <1>3 DEF Reads

LEMMA DiesKeeps ==
  ASSUME EngineInv, ~ serving, NEW cause \in Whys \ {"refused", "incomplete"}, Dies(cause),
         policy' = policy, release' \in Releases, target' \in Releases,
         reloads' \in 0 .. MaxReloads
  PROVE  EngineInv'
<1>1. EngineTypes'
  BY EmptySeq DEF EngineInv, EngineTypes, Dies, Ats
<1>2. Labels'
  BY DEF Labels, Dies, Serving
<1>3. Answered'
  BY DEF EngineInv, Labels, Answered, Dies, Serving, Composing
<1>4. GpuInv'
  BY DEF Dies, GpuInv, ResidentGpu, PackedGpu, Composing
<1> QED
  BY <1>1, <1>2, <1>3, <1>4 DEF EngineInv

(* The answer of a resident request leaves the weights alone.              *)
LEMMA AnswersKeeps ==
  ASSUME EngineInv, serving, Resident, NEW cause \in Whys \ {"refused"}, Answers(cause), Static,
         UNCHANGED <<device, packed, plan, counted>>, pending' \in BOOLEAN,
         cause = "incomplete" => pending'
  PROVE  EngineInv'
<1>0. at \in {"check", "text", "dmd", "output"}
  BY DEF EngineInv, Labels, Serving
<1>1. EngineTypes'
  <2>1. queue' \in Seq(Objects)
    BY EmptySeq DEF Answers
  <2>2. steps' \in 0 .. DmdSteps
    BY Numbers DEF Answers
  <2> QED
    BY <2>1, <2>2 DEF EngineInv, EngineTypes, Answers, Static, Ats
<1>2. Labels'
  BY DEF Labels, Answers, Serving
<1>3. Answered'
  BY DEF Answered, Answers, Composing
<1>4. device = Weights(release) /\ counted = plan
  BY <1>0 DEF EngineInv, GpuInv, ResidentGpu
<1>5. GpuInv'
  BY <1>4 DEF Answers, Static, GpuInv, ResidentGpu, Resident, Composing
<1> QED
  BY <1>1, <1>2, <1>3, <1>5 DEF EngineInv

LEMMA FailsKeeps ==
  ASSUME EngineInv, serving, ~ Resident, at # "cleanup", NEW cause \in Whys \ {"refused", "incomplete"},
         Fails(cause), Static
  PROVE  EngineInv'
<1>0. at \in {"check", "rehydrate", "preload", "load", "text", "dmd", "decoder", "output"}
  BY DEF EngineInv, Labels, Serving
<1>1. EngineTypes'
  BY EmptySeq DEF EngineInv, EngineTypes, Fails, Static, Ats
<1>2. Labels'
  BY DEF EngineInv, Labels, Fails, Static, Serving, Resident
<1>3. Answered'
  BY DEF EngineInv, Answered, Fails, Composing
<1>4. device' \subseteq Denoiser(release) \/ device' \subseteq {Decoder}
  <2>1. PackedGpu
    BY DEF EngineInv, GpuInv
  <2> QED
    BY <1>0, <2>1 DEF PackedGpu, Fails, Composing
<1>5. GpuInv'
  BY <1>4 DEF Fails, Static, GpuInv, PackedGpu, Resident, Composing
<1> QED
  BY <1>1, <1>2, <1>3, <1>5 DEF EngineInv

LEMMA BreaksKeeps ==
  ASSUME EngineInv, at # "cleanup", NEW cause \in Whys \ {"refused"}, Breaks(cause), Static,
         UNCHANGED <<plan, counted>>, cause = "incomplete" => serving /\ Resident /\ pending
  PROVE  EngineInv' /\ cancelled' \in {cancelled, FALSE}
<1>1. CASE ~ serving
  <2>1. Dies(cause) /\ cause # "incomplete"
    BY <1>1 DEF Breaks
  <2>2. EngineInv'
    BY <1>1, <2>1, DiesKeeps DEF EngineInv, EngineTypes, Static
  <2> QED
    BY <2>1, <2>2 DEF Dies
<1>2. CASE serving /\ Resident
  <2>1. Answers(cause) /\ UNCHANGED Gpu
    BY <1>2 DEF Breaks
  <2>2. EngineInv'
    BY <1>2, <2>1, AnswersKeeps DEF EngineInv, EngineTypes, Gpu
  <2> QED
    BY <2>1, <2>2 DEF Answers
<1>3. CASE serving /\ ~ Resident
  <2>1. Fails(cause) /\ cause # "incomplete"
    BY <1>3 DEF Breaks
  <2>2. EngineInv'
    BY <1>3, <2>1, FailsKeeps
  <2> QED
    BY <2>1, <2>2 DEF Fails
<1> QED
  BY <1>1, <1>2, <1>3 DEF EngineInv, EngineTypes

LEMMA DeviceFailsKeeps ==
  ASSUME EngineInv, at # "cleanup", DeviceFails, Static, UNCHANGED <<plan, counted>>
  PROVE  EngineInv' /\ cancelled' \in {cancelled, FALSE}
<1>1. "device" \in Whys \ {"refused"}
  BY WhysHave
<1>2. CASE serving /\ Resident
  <2>1. Answers("device") /\ pending' \in {pending, TRUE} /\ UNCHANGED <<device, packed>>
    BY <1>2 DEF DeviceFails
  <2>2. EngineInv'
    BY <1>1, <1>2, <2>1, AnswersKeeps DEF EngineInv, EngineTypes
  <2> QED
    BY <2>1, <2>2 DEF Answers
<1>3. CASE ~ (serving /\ Resident)
  BY <1>1, <1>3, BreaksKeeps DEF DeviceFails
<1> QED
  BY <1>2, <1>3

-----------------------------------------------------------------------------
(* A build or a switch                                                     *)

(* A task goes on without any change but of its label and its reports.     *)
LEMMA SettledStep ==
  ASSUME IInv, NotReading \/ (io' = NoRead /\ StorageStill), EngineInv',
         cancelled' \in {cancelled, FALSE}
  PROVE  IInv'
<1>1. cancelled' \in BOOLEAN
  BY Parted, ReaderTypes
<1>2. ReaderInv' /\ Reads'
  BY <1>1, Settled
<1> QED
  BY <1>2, Parted, PTL

LEMMA OpenPageKeeps ==
  ASSUME IInv, NEW p \in {"resident", "packed"}, NEW r \in Releases, OpenPage(p, r)
  PROVE  IInv'
<1> USE Parted
<1>1. at' = "compose" /\ policy' = p /\ release' = r /\ target' = r /\ NotReading
      /\ UNCHANGED <<Task, Gpu, reloads, plan, counted>>
  BY DEF OpenPage, Goes, NotReading, StorageStill
<1>2. at = "closed" /\ ~ serving /\ device = {} /\ packed = "empty" /\ ~ pending /\ why = "none"
  BY DEF OpenPage, EngineInv, Labels, Answered, GpuInv, Serving, EngineTypes
<1>3. EngineTypes'
  BY <1>1 DEF EngineInv, EngineTypes, Ats, Task, Gpu
<1>4. Labels' /\ Answered'
  BY <1>1, <1>2 DEF Labels, Answered, Serving, Composing, Task, Gpu
<1>5. Reused(r, r) = {}
  BY DEF Reused
<1>6. GpuInv'
  BY <1>1, <1>2, <1>5 DEF GpuInv, ResidentGpu, PackedGpu, Composing, Gpu
<1> QED
  BY <1>1, <1>3, <1>4, <1>6, SettledStep DEF EngineInv, Task

LEMMA SwitchKeeps ==
  ASSUME IInv, NEW t \in Releases, Switch(t)
  PROVE  IInv'
<1> USE Parted
<1>1. /\ at = "ready" /\ t # release /\ target' = t /\ NotReading
      /\ UNCHANGED <<policy, release, reloads, plan, counted>>
  BY DEF Switch, NotReading, StorageStill
<1>2. ~ serving /\ (Resident => device = Weights(release) /\ counted = plan)
  BY <1>1 DEF EngineInv, Labels, Serving, GpuInv, ResidentGpu, EngineTypes
<1>3. release \in Releases /\ reloads \in 0 .. MaxReloads
  BY DEF EngineInv, EngineTypes
<1>4. CASE Dies("unsupported")
  <2>1. EngineInv'
    BY <1>1, <1>2, <1>3, <1>4, WhysHave, DiesKeeps
  <2> QED
    BY <1>1, <1>4, <2>1, SettledStep DEF Dies
<1>5. CASE Resident /\ at' = "retire" /\ why' = "none"
           /\ UNCHANGED <<queue, serving, steps, cancelled, Gpu>>
  <2>1. EngineTypes'
    BY <1>1, <1>5, WhysHave DEF EngineInv, EngineTypes, Ats, Gpu
  <2>2. Labels' /\ Answered'
    BY <1>1, <1>2, <1>5 DEF Labels, Answered, Serving, Composing, Resident
  <2>3. GpuInv'
    BY <1>1, <1>2, <1>5 DEF GpuInv, ResidentGpu, Composing, Resident, Gpu
  <2> QED
    BY <1>1, <1>5, <2>1, <2>2, <2>3, SettledStep DEF EngineInv
<1>6. ~ (Resident /\ ~ (Shared(release) \subseteq device))
  BY <1>2, <1>3, Weighed
<1> QED
  BY <1>4, <1>5, <1>6 DEF Switch

LEMMA RetireKeeps ==
  ASSUME IInv, Retire
  PROVE  IInv'
<1> USE Parted
<1>1. at = "retire" /\ NotReading /\ Static /\ UNCHANGED <<plan, counted>>
  BY DEF Retire, NotReading, StorageStill
<1>2. Resident /\ ~ serving /\ device = Weights(release) /\ target # release /\ why = "none"
  BY <1>1 DEF EngineInv, EngineTypes, Labels, Serving, Answered, GpuInv, ResidentGpu, PackedGpu
<1>3. release \in Releases /\ target \in Releases /\ reloads \in 0 .. MaxReloads
  BY DEF EngineInv, EngineTypes
<1>4. CASE Dies("device")
  <2>1. EngineInv'
    BY <1>1, <1>2, <1>3, <1>4, WhysHave, DiesKeeps DEF Static
  <2> QED
    BY <1>1, <1>4, <2>1, SettledStep DEF Dies
<1>5. CASE device' = device \cap Shared(target) /\ pending' = FALSE /\ at' = "compose"
           /\ UNCHANGED <<Task, packed>>
  <2>1. EngineTypes'
    BY <1>1, <1>5 DEF EngineInv, EngineTypes, Ats, Static, Task
  <2>2. Labels' /\ Answered'
    BY <1>1, <1>2, <1>5 DEF Labels, Answered, Serving, Composing, Resident, Static, Task
  <2>3. device' = Reused(release, target)
    BY <1>2, <1>3, <1>5, Weighed DEF Reused
  <2>4. GpuInv'
    BY <1>1, <1>2, <1>5, <2>3 DEF GpuInv, ResidentGpu, Composing, Resident, Static
  <2> QED
    BY <1>1, <1>5, <2>1, <2>2, <2>4, SettledStep DEF EngineInv, Task
<1> QED
  BY <1>4, <1>5 DEF Retire

LEMMA KeysOfSubset ==
  ASSUME NEW S, NEW T, S \subseteq T
  PROVE  KeysOf(S) \subseteq KeysOf(T)
BY DEF KeysOf

LEMMA ComposeKeeps ==
  ASSUME IInv, Compose
  PROVE  IInv'
<1> USE Parted, ReaderTypes
<1>1. /\ at = "compose" /\ Reading("idle")
      /\ UNCHANGED <<storage, spoils, populated, io, used, policy, target, reloads>>
  BY DEF Compose
<1>2. ~ serving /\ why = "none" /\ release \in Releases /\ target \in Releases
      /\ reloads \in 0 .. MaxReloads
  BY <1>1 DEF EngineInv, EngineTypes, Labels, Serving, Answered
<1>3. CASE Dies("network") /\ UNCHANGED <<plan, counted, release>>
  <2>1. EngineInv'
    BY <1>1, <1>2, <1>3, WhysHave, DiesKeeps
  <2>2. ReaderInv'
    BY <1>1, <1>3, StillKeeps DEF StorageStill, Dies
  <2>3. Reads'
    BY <1>1 DEF Reads, Reading
  <2> QED
    BY <2>1, <2>2, <2>3, Parted, PTL
<1>4. CASE /\ release' = target /\ plan' = KeysOf(Weights(target))
           /\ counted' = Retained(release, target)
           /\ queue' = (IF Resident THEN ToLoad(release, target) ELSE <<>>)
           /\ at' = "preflight" /\ UNCHANGED <<why, serving, steps, cancelled, Gpu>>
  <2>1. Weights(target) \subseteq Objects /\ Reused(release, target) \subseteq Weights(target)
    BY <1>2, Weighed DEF Reused
  <2>2. counted' = KeysOf(Reused(release, target))
    BY <1>4 DEF Retained, Reused, KeysOf
  <2>3. plan' \subseteq Keys /\ counted' \subseteq plan'
    BY <1>4, <2>1, <2>2, KeysOfSubset DEF Keys
  <2>4. StreamTypeOK' /\ Relied'
    BY <1>1, <1>4, <2>3 DEF ReaderInv, StreamTypeOK, Relied
  <2>5. ReaderInv'
    BY <1>1, <2>4, IdleKeeps
  <2>6. Reads'
    BY <1>1 DEF Reads, Reading
  <2>7. queue' \in Seq(Objects)
        /\ (Resident => Elements(queue') = Weights(target) \ Reused(release, target))
    BY <1>2, <1>4, ToLoadElements, EmptySeq
  <2>8. EngineTypes'
    BY <1>1, <1>2, <1>4, <2>7 DEF EngineInv, EngineTypes, Ats, Gpu
  <2>9. Labels' /\ Answered'
    BY <1>1, <1>2, <1>4 DEF Labels, Answered, Serving, Composing, Resident
  <2>10. ASSUME Resident PROVE GpuInv'
    <3>1. device = Reused(release, target) /\ ~ pending
      BY <1>1, <2>10 DEF EngineInv, GpuInv, ResidentGpu, EngineTypes
    <3> QED
      BY <1>1, <1>4, <2>1, <2>2, <2>7, <2>10, <3>1
      DEF GpuInv, ResidentGpu, Composing, Resident, Gpu, Queued
  <2>11. ASSUME ~ Resident PROVE GpuInv'
    <3>1. packed = "empty" /\ device = {}
      BY <1>1, <2>11 DEF EngineInv, GpuInv, PackedGpu
    <3> QED
      BY <1>1, <1>4, <2>11, <3>1 DEF GpuInv, PackedGpu, Composing, Resident, Gpu
  <2>12. EngineInv'
    BY <2>8, <2>9, <2>10, <2>11 DEF EngineInv
  <2> QED
    BY <2>5, <2>6, <2>12, Parted, PTL
<1> QED
  BY <1>3, <1>4 DEF Compose

(* The task goes from one label to another, and nothing else changes.      *)
LEMMA MovesKeeps ==
  ASSUME EngineInv, NEW label, Goes(label), Static, counted \subseteq plan, UNCHANGED <<plan, counted>>,
         \/ at \in Composing /\ label \in {"press", "metadata"}
         \/ at = "metadata" /\ label = IF Resident THEN "load" ELSE "preload"
         \/ at = "load" /\ Resident /\ device = Weights(release) /\ label = "ready"
         \/ at = "check" /\ (Resident \/ packed = "ready") /\ label = "text"
         \/ at = "check" /\ ~ Resident /\ packed # "ready" /\ label = "rehydrate"
         \/ at = "text" /\ label = "dmd"
  PROVE  EngineInv'
<1>0. at' = label /\ UNCHANGED <<policy, release, target, reloads, why, queue, serving, steps,
                                  cancelled, device, packed, pending, plan, counted>>
  BY DEF Goes, Static, Task, Gpu
<1>1. EngineTypes'
  BY <1>0 DEF EngineInv, EngineTypes, Ats, Composing
<1>2. Labels'
  BY <1>0 DEF EngineInv, EngineTypes, Labels, Serving, Composing, Resident
<1>3. Answered'
  BY <1>0 DEF EngineInv, EngineTypes, Labels, Answered, Serving, Composing
<1>4. ASSUME at = "load", Resident, device = Weights(release), label = "ready" PROVE GpuInv'
  <2>1. plan = KeysOf(device) /\ KeysOf(device) \subseteq counted
    BY <1>4 DEF EngineInv, GpuInv, ResidentGpu
  <2>2. counted = plan
    BY <2>1
  <2> QED
    BY <1>0, <1>4, <2>2 DEF GpuInv, ResidentGpu, Composing, Resident
<1>5. ASSUME Resident, at # "load" PROVE GpuInv'
  <2>1. ResidentGpu
    BY <1>5 DEF EngineInv, GpuInv
  <2> QED
    BY <1>0, <1>5, <2>1 DEF GpuInv, ResidentGpu, Composing, Resident, Queued
<1>6. ASSUME ~ Resident, at # "load" PROVE GpuInv'
  <2>1. PackedGpu
    BY <1>6 DEF EngineInv, GpuInv
  <2> QED
    BY <1>0, <1>6, <2>1 DEF GpuInv, PackedGpu, Composing, Resident
<1> QED
  BY <1>1, <1>2, <1>3, <1>4, <1>5, <1>6 DEF EngineInv, Composing

LEMMA PreflightKeeps ==
  ASSUME IInv, Preflight
  PROVE  IInv'
<1> USE Parted, ReaderTypes
<1>1. at = "preflight" /\ NotReading /\ Static /\ UNCHANGED <<plan, counted>>
  BY DEF Preflight, NotReading, StorageStill
<1>2. CASE Dies("storage")
  <2>1. ~ serving
    BY <1>1 DEF EngineInv, Labels, Serving
  <2>2. EngineInv'
    BY <1>1, <1>2, <2>1, WhysHave, DiesKeeps DEF EngineInv, EngineTypes, Static
  <2> QED
    BY <1>1, <1>2, <2>2, SettledStep DEF Dies
<1>3. ASSUME NEW label \in {"press", "metadata"}, Goes(label) PROVE IInv'
  <2>1. EngineInv'
    BY <1>1, <1>3, MovesKeeps DEF Composing
  <2> QED
    BY <1>1, <1>3, <2>1, SettledStep DEF Goes, Task
<1> QED
  BY <1>2, <1>3 DEF Preflight

LEMMA PressOutKeeps ==
  ASSUME IInv, PressOut
  PROVE  IInv'
<1> USE Parted, ReaderTypes
<1>1. /\ at = "press" /\ Reading("idle") /\ Static
      /\ UNCHANGED <<spoils, populated, plan, counted, io, used>>
      /\ (\E gone \in SUBSET Unselected : Press(gone)) /\ cancelled' = cancelled
      /\ (Dies("storage") \/ Dies("quota") \/ Goes("metadata"))
  BY DEF PressOut, Dies, Goes, Task
<1>2. ~ serving
  BY <1>1 DEF EngineInv, Labels, Serving
<1>3. ASSUME NEW cause \in {"storage", "quota"}, Dies(cause) PROVE EngineInv'
  BY <1>1, <1>2, <1>3, WhysHave, DiesKeeps DEF EngineInv, EngineTypes, Static
<1>4. ASSUME Goes("metadata") PROVE EngineInv'
  BY <1>1, <1>4, MovesKeeps DEF Composing
<1>5. EngineInv'
  BY <1>1, <1>3, <1>4
<1>6. storage' \in [Keys -> Present \cup Absent] /\ \A k \in Keys : storage[k] # "none" => storage'[k] # "none"
  BY <1>1 DEF Press, Absent
<1>7. StreamTypeOK' /\ Relied'
  BY <1>1, <1>6 DEF ReaderInv, StreamTypeOK, Relied
<1>8. ReaderInv'
  BY <1>1, <1>7, IdleKeeps
<1>9. Reads'
  BY <1>1 DEF Reads, Reading
<1> QED
  BY <1>5, <1>8, <1>9, Parted, PTL

LEMMA MetadataReadKeeps ==
  ASSUME IInv, MetadataRead
  PROVE  IInv'
<1> USE Parted, ReaderTypes
<1>1. /\ at = "metadata" /\ io' = NoRead /\ StorageStill /\ Static /\ UNCHANGED <<plan, counted>>
      /\ Goes(IF Resident THEN "load" ELSE "preload")
  BY DEF MetadataRead, StorageStill
<1>2. EngineInv'
  BY <1>1, MovesKeeps
<1> QED
  BY <1>1, <1>2, SettledStep DEF Goes, Task

LEMMA PreloadKeeps ==
  ASSUME IInv, Preload
  PROVE  IInv'
<1> USE Parted, ReaderTypes
<1>1. at = "preload" /\ NotReading /\ Static /\ UNCHANGED <<plan, counted>>
  BY DEF Preload, NotReading, StorageStill
<1>2. ~ Resident /\ packed = "empty" /\ device = {}
  BY <1>1 DEF EngineInv, Labels, GpuInv, PackedGpu
<1>3. /\ packed' = "preloading" /\ queue' = DenoiserOrder(release) /\ at' = "load"
      /\ UNCHANGED <<why, serving, steps, cancelled, device, pending>>
  BY <1>2 DEF Preload
<1>4. queue' \in Seq(Objects) /\ Elements(queue') = Denoiser(release)
  BY <1>3, DenoiserOrdered DEF EngineInv, EngineTypes
<1>5. EngineTypes'
  BY <1>1, <1>3, <1>4 DEF EngineInv, EngineTypes, Static, Ats
<1>6. Labels' /\ Answered'
  BY <1>1, <1>2, <1>3 DEF EngineInv, Labels, Answered, Serving, Composing, Resident, Static
<1>7. GpuInv'
  BY <1>1, <1>2, <1>3, <1>4 DEF GpuInv, PackedGpu, Composing, Resident, Static, Queued
<1> QED
  BY <1>1, <1>3, <1>5, <1>6, <1>7, SettledStep DEF EngineInv

LEMMA LoadedKeeps ==
  ASSUME IInv, Loaded
  PROVE  IInv'
<1> USE Parted, ReaderTypes
<1>1. /\ at = "load" /\ Reading("done") /\ io' = NoRead /\ StorageStill /\ Static
      /\ UNCHANGED <<plan, counted>>
  BY DEF Loaded, StorageStill
<1>2. CASE DeviceFails
  <2>1. EngineInv' /\ cancelled' \in {cancelled, FALSE}
    BY <1>1, <1>2, DeviceFailsKeeps
  <2> QED
    BY <1>1, <2>1, SettledStep
<1>3. CASE /\ device' = device \cup {Head(queue)} /\ queue' = Tail(queue)
           /\ UNCHANGED <<at, why, serving, steps, cancelled, packed, pending>>
  <2>1. queue # <<>> /\ io.key[1] = Head(queue)
    BY <1>1 DEF Reads, Wanted, Reading
  <2>2. queue \in Seq(Objects)
    BY DEF EngineInv, EngineTypes
  <2>3. Head(queue) \in Objects /\ queue' \in Seq(Objects) /\ Queued = {Head(queue)} \cup Elements(queue')
    BY <1>3, <2>1, <2>2, HeadElements DEF Queued
  <2>4. PartsOf(Head(queue)) \cap plan \subseteq counted
    BY <1>1, <2>1 DEF ReaderInv, Progress, Reading
  <2>5. EngineTypes'
    BY <1>1, <1>3, <2>3 DEF EngineInv, EngineTypes, Static
  <2>6. Labels' /\ Answered'
    BY <1>1, <1>3 DEF EngineInv, Labels, Answered, Resident, Static
  <2>7. ASSUME Resident PROVE GpuInv'
    <3>1. /\ device \cup Queued = Weights(release) /\ plan = KeysOf(Weights(release))
          /\ KeysOf(device) \subseteq counted /\ ~ pending
      BY <1>1, <2>7 DEF EngineInv, GpuInv, ResidentGpu
    <3>2. PartsOf(Head(queue)) \subseteq plan
      BY <2>3, <3>1 DEF KeysOf
    <3>3. KeysOf(device') \subseteq counted
      BY <1>3, <2>4, <3>1, <3>2 DEF KeysOf
    <3>4. device' \cup Elements(queue') = Weights(release)
      BY <1>3, <2>3, <3>1
    <3> QED
      BY <1>1, <1>3, <2>7, <3>1, <3>3, <3>4 DEF GpuInv, ResidentGpu, Composing, Resident, Static, Queued
  <2>8. ASSUME ~ Resident PROVE GpuInv'
    <3>1. packed = "preloading" /\ device \cup Queued = Denoiser(release)
      BY <1>1, <2>8 DEF EngineInv, GpuInv, PackedGpu
    <3>2. device' \cup Elements(queue') = Denoiser(release)
      BY <1>3, <2>3, <3>1
    <3> QED
      BY <1>1, <1>3, <2>8, <3>1, <3>2 DEF GpuInv, PackedGpu, Composing, Resident, Static, Queued
  <2> QED
    BY <1>1, <1>3, <2>5, <2>6, <2>7, <2>8, SettledStep DEF EngineInv
<1> QED
  BY <1>2, <1>3 DEF Loaded

LEMMA ValidateKeeps ==
  ASSUME IInv, Validate
  PROVE  IInv'
<1> USE Parted, ReaderTypes
<1>1. at = "load" /\ queue = <<>> /\ NotReading /\ Static /\ UNCHANGED <<plan, counted>>
  BY DEF Validate, NotReading, StorageStill
<1>2. Queued = {}
  BY <1>1, EmptyElements DEF Queued
<1>3. CASE Resident
  <2>1. device = Weights(release) /\ ~ pending
    BY <1>1, <1>2, <1>3 DEF EngineInv, GpuInv, ResidentGpu
  <2>2. Goes("ready")
    BY <1>3, <2>1 DEF Validate, Whole
  <2>3. EngineInv'
    BY <1>1, <1>3, <2>1, <2>2, MovesKeeps
  <2> QED
    BY <1>1, <2>2, <2>3, SettledStep DEF Goes, Task
<1>4. CASE ~ Resident
  <2>1. packed' = "ready" /\ at' = (IF serving THEN "text" ELSE "ready") /\ UNCHANGED <<Task, device, pending>>
    BY <1>4 DEF Validate
  <2>2. device = Denoiser(release) /\ why = "none"
    BY <1>1, <1>2, <1>4 DEF EngineInv, Answered, GpuInv, PackedGpu
  <2>3. EngineTypes'
    BY <1>1, <2>1 DEF EngineInv, EngineTypes, Static, Task, Ats
  <2>4. Labels' /\ Answered'
    BY <1>1, <1>4, <2>1, <2>2 DEF EngineInv, EngineTypes, Labels, Answered, Serving, Composing, Resident, Static, Task
  <2>5. GpuInv'
    BY <1>1, <1>4, <2>1, <2>2 DEF GpuInv, PackedGpu, Composing, Resident, Static, Task
  <2> QED
    BY <1>1, <2>1, <2>3, <2>4, <2>5, SettledStep DEF EngineInv, Task
<1> QED
  BY <1>3, <1>4

-----------------------------------------------------------------------------
(* A request                                                               *)

LEMMA SubmitKeeps ==
  ASSUME IInv, Submit
  PROVE  IInv'
<1> USE Parted, ReaderTypes
<1>1. /\ at = "ready" /\ at' = "check" /\ serving' = TRUE /\ why' = "none"
      /\ UNCHANGED <<queue, steps, cancelled, Gpu>> /\ NotReading /\ Static
      /\ UNCHANGED <<plan, counted>>
  BY DEF Submit, NotReading, StorageStill
<1>2. EngineTypes'
  BY <1>1, WhysHave DEF EngineInv, EngineTypes, Static, Gpu, Ats
<1>3. Labels' /\ Answered'
  BY <1>1 DEF EngineInv, Labels, Answered, Serving, Composing, Resident, Static
<1>4. GpuInv'
  BY <1>1 DEF EngineInv, GpuInv, ResidentGpu, PackedGpu, Composing, Resident, Static, Gpu
<1> QED
  BY <1>1, <1>2, <1>3, <1>4, SettledStep DEF EngineInv

LEMMA CancelKeeps ==
  ASSUME IInv, Cancel
  PROVE  IInv'
<1> USE Parted, ReaderTypes
<1>1. cancelled' = TRUE /\ UNCHANGED <<engineVars, io>> /\ StorageStill
  BY DEF Cancel
<1>2. ReaderInv'
  BY <1>1, StillKeeps
<1>3. EngineTypes' /\ Labels' /\ Answered'
  BY <1>1 DEF engineVars, EngineInv, EngineTypes, Labels, Answered, Resident
<1>4. GpuInv'
  BY <1>1 DEF engineVars, StorageStill, EngineInv, GpuInv, ResidentGpu, PackedGpu, Resident, Queued
<1>5. Reads'
  BY <1>1 DEF engineVars, Reads, Wanted, Resident
<1>6. EngineInv'
  BY <1>3, <1>4 DEF EngineInv
<1> QED
  BY <1>2, <1>5, <1>6, Parted, PTL

(* A request that breaks, wherever it is.                                  *)
LEMMA BrokenKeeps ==
  ASSUME IInv, at # "cleanup", NotReading \/ (io' = NoRead /\ StorageStill), Static,
         \/ DeviceFails
         \/ \E cause \in Whys \ {"refused", "incomplete"} : Breaks(cause)
         \/ Breaks("incomplete") /\ serving /\ Resident /\ pending
  PROVE  IInv'
<1> USE Parted
<1>1. UNCHANGED <<plan, counted>>
  BY DEF NotReading, StorageStill
<1>2. EngineInv' /\ cancelled' \in {cancelled, FALSE}
  <2>1. CASE DeviceFails
    BY <1>1, <2>1, DeviceFailsKeeps
  <2>2. ASSUME NEW cause \in Whys \ {"refused", "incomplete"}, Breaks(cause)
        PROVE  EngineInv' /\ cancelled' \in {cancelled, FALSE}
    BY <1>1, <2>2, BreaksKeeps
  <2>3. CASE Breaks("incomplete") /\ serving /\ Resident /\ pending
    BY <1>1, <2>3, BreaksKeeps, WhysHave
  <2> QED
    BY <2>1, <2>2, <2>3
<1> QED
  BY <1>2, SettledStep

LEMMA CheckKeeps ==
  ASSUME IInv, Check
  PROVE  IInv'
<1> USE Parted, ReaderTypes
<1>1. at = "check" /\ NotReading /\ Static /\ UNCHANGED <<plan, counted>>
  BY DEF Check, NotReading, StorageStill
<1>2. serving
  BY <1>1 DEF EngineInv, EngineTypes, Labels, Serving
<1>3. CASE cancelled
  BY <1>1, <1>3, BrokenKeeps, WhysHave DEF Check
<1>4. CASE ~ cancelled /\ Resident
  <2>1. device = Weights(release)
    BY <1>1, <1>4 DEF EngineInv, GpuInv, ResidentGpu
  <2>2. CASE Whole
    <3>1. Goes("text")
      BY <1>4, <2>2 DEF Check
    <3>2. EngineInv'
      BY <1>1, <1>4, <3>1, MovesKeeps
    <3> QED
      BY <1>1, <3>1, <3>2, SettledStep DEF Goes, Task
  <2>3. CASE ~ Whole
    <3>1. pending /\ Breaks("incomplete")
      BY <1>4, <2>1, <2>3 DEF Check, Whole
    <3> QED
      BY <1>1, <1>2, <1>4, <3>1, BrokenKeeps
  <2> QED
    BY <2>2, <2>3
<1>5. CASE ~ cancelled /\ ~ Resident
  <2>1. Goes(IF DenoiserReady THEN "text" ELSE "rehydrate")
    BY <1>5 DEF Check
  <2>2. DenoiserReady <=> packed = "ready"
    BY <1>1, <1>5 DEF EngineInv, GpuInv, PackedGpu, DenoiserReady
  <2>3. EngineInv'
    BY <1>1, <1>5, <2>1, <2>2, MovesKeeps
  <2> QED
    BY <1>1, <2>1, <2>3, SettledStep DEF Goes, Task
<1> QED
  BY <1>3, <1>4, <1>5

LEMMA RehydrateKeeps ==
  ASSUME IInv, Rehydrate
  PROVE  IInv'
<1> USE Parted, ReaderTypes
<1>1. at = "rehydrate" /\ NotReading /\ Static /\ UNCHANGED <<plan, counted>>
  BY DEF Rehydrate, NotReading, StorageStill
<1>2. CASE DeviceFails
  BY <1>1, <1>2, BrokenKeeps
<1>3. CASE packed' = "empty" /\ device' = device \ Denoiser(release) /\ at' = "preload"
           /\ UNCHANGED <<Task, pending>>
  <2>1. ~ Resident /\ device' = {} /\ serving
    BY <1>1, <1>3 DEF EngineInv, EngineTypes, Labels, Serving, GpuInv, PackedGpu
  <2>2. EngineTypes'
    BY <1>1, <1>3, <2>1 DEF EngineInv, EngineTypes, Static, Task, Ats
  <2>3. Labels' /\ Answered'
    BY <1>1, <1>3, <2>1 DEF EngineInv, Labels, Answered, Serving, Composing, Resident, Static, Task
  <2>4. GpuInv'
    BY <1>1, <1>3, <2>1 DEF GpuInv, PackedGpu, Composing, Resident, Static, Task
  <2> QED
    BY <1>1, <1>3, <2>2, <2>3, <2>4, SettledStep DEF EngineInv, Task
<1> QED
  BY <1>2, <1>3 DEF Rehydrate

LEMMA TextDoneKeeps ==
  ASSUME IInv, TextDone
  PROVE  IInv'
<1> USE Parted, ReaderTypes
<1>1. at = "text" /\ io' = NoRead /\ StorageStill /\ Static /\ UNCHANGED <<plan, counted>>
  BY DEF TextDone, StorageStill
<1>2. CASE DeviceFails
  BY <1>1, <1>2, BrokenKeeps
<1>3. CASE Breaks("cancelled")
  BY <1>1, <1>3, BrokenKeeps, WhysHave
<1>4. CASE Goes("dmd")
  <2>1. EngineInv'
    BY <1>1, <1>4, MovesKeeps
  <2> QED
    BY <1>1, <1>4, <2>1, SettledStep DEF Goes, Task
<1> QED
  BY <1>2, <1>3, <1>4 DEF TextDone

LEMMA DmdStepKeeps ==
  ASSUME IInv, DmdStep
  PROVE  IInv'
<1> USE Parted, ReaderTypes
<1>1. at = "dmd" /\ steps < DmdSteps /\ NotReading /\ Static /\ UNCHANGED <<plan, counted>>
  BY DEF DmdStep, NotReading, StorageStill
<1>2. ~ Resident => DenoiserReady
  BY <1>1 DEF EngineInv, GpuInv, PackedGpu, DenoiserReady
<1>3. CASE DeviceFails
  BY <1>1, <1>3, BrokenKeeps
<1>4. CASE Breaks("cancelled")
  BY <1>1, <1>4, BrokenKeeps, WhysHave
<1>5. CASE steps' = steps + 1 /\ UNCHANGED <<at, why, queue, serving, cancelled, Gpu>>
  <2>1. steps' \in 0 .. DmdSteps
    BY <1>1, <1>5, Numbers DEF EngineInv, EngineTypes
  <2>2. EngineTypes' /\ Labels' /\ Answered'
    BY <1>1, <1>5, <2>1 DEF EngineInv, EngineTypes, Labels, Answered, Resident, Static, Gpu
  <2>3. GpuInv'
    BY <1>1, <1>5 DEF EngineInv, GpuInv, ResidentGpu, PackedGpu, Composing, Resident, Static, Gpu
  <2> QED
    BY <1>1, <1>5, <2>2, <2>3, SettledStep DEF EngineInv
<1> QED
  BY <1>2, <1>3, <1>4, <1>5 DEF DmdStep

LEMMA HandoffKeeps ==
  ASSUME IInv, Handoff
  PROVE  IInv'
<1> USE Parted, ReaderTypes
<1>1. at = "dmd" /\ NotReading /\ Static /\ UNCHANGED <<plan, counted>>
  BY DEF Handoff, NotReading, StorageStill
<1>2. CASE DeviceFails
  BY <1>1, <1>2, BrokenKeeps
<1>3. CASE Breaks("cancelled")
  BY <1>1, <1>3, BrokenKeeps, WhysHave
<1>4. CASE /\ IF Resident THEN UNCHANGED <<packed, device>>
              ELSE packed' = "empty" /\ device' = device \ Denoiser(release)
           /\ at' = (IF Resident THEN "output" ELSE "decoder")
           /\ UNCHANGED <<Task, pending>>
  <2>1. EngineTypes'
    BY <1>1, <1>4 DEF EngineInv, EngineTypes, Static, Task, Ats
  <2>2. Labels' /\ Answered'
    BY <1>1, <1>4 DEF EngineInv, EngineTypes, Labels, Answered, Serving, Composing, Resident, Static, Task
  <2>3. ASSUME Resident PROVE GpuInv'
    BY <1>1, <1>4, <2>3 DEF EngineInv, GpuInv, ResidentGpu, Composing, Resident, Static
  <2>4. ASSUME ~ Resident PROVE GpuInv'
    <3>1. device' = {} /\ packed' = "empty" /\ at' = "decoder"
      BY <1>1, <1>4, <2>4 DEF EngineInv, GpuInv, PackedGpu
    <3> QED
      BY <1>1, <2>4, <3>1 DEF GpuInv, PackedGpu, Composing, Resident, Static
  <2> QED
    BY <1>1, <1>4, <2>1, <2>2, <2>3, <2>4, SettledStep DEF EngineInv, Task
<1> QED
  BY <1>2, <1>3, <1>4 DEF Handoff

LEMMA DecoderReadKeeps ==
  ASSUME IInv, DecoderRead
  PROVE  IInv'
<1> USE Parted, ReaderTypes
<1>1. /\ at = "decoder" /\ at' = "output" /\ io' = NoRead /\ StorageStill /\ Static
      /\ device' = device \cup {Decoder} /\ UNCHANGED <<Task, packed, pending, plan, counted>>
  BY DEF DecoderRead, StorageStill
<1>2. ~ Resident /\ device' = {Decoder} /\ packed = "empty" /\ Decoder \in Objects
  BY <1>1, EngineAssumption DEF EngineInv, Labels, GpuInv, PackedGpu, EngineAssumption
<1>3. EngineTypes'
  BY <1>1, <1>2 DEF EngineInv, EngineTypes, Static, Task, Ats
<1>4. Labels' /\ Answered'
  BY <1>1, <1>2 DEF EngineInv, EngineTypes, Labels, Answered, Serving, Composing, Resident, Static, Task
<1>5. GpuInv'
  BY <1>1, <1>2 DEF GpuInv, PackedGpu, Composing, Resident, Static
<1> QED
  BY <1>1, <1>3, <1>4, <1>5, SettledStep DEF EngineInv, Task

(* An answer that leaves nothing of a packed request on the GPU.           *)
LEMMA PackedAnswersKeeps ==
  ASSUME EngineInv, ~ Resident, NEW cause \in Whys \ {"refused"}, Answers(cause), Static,
         device' = {}, packed' \in {"empty", "failed"}, pending' = pending,
         cause = "incomplete" => pending, UNCHANGED <<plan, counted>>
  PROVE  EngineInv'
<1>1. EngineTypes'
  <2>1. queue' \in Seq(Objects) /\ steps' \in 0 .. DmdSteps
    BY EmptySeq, Numbers DEF Answers
  <2> QED
    BY <2>1 DEF EngineInv, EngineTypes, Answers, Static, Ats
<1>2. Labels' /\ Answered'
  BY DEF Labels, Answered, Answers, Serving, Composing, Resident, Static
<1>3. GpuInv'
  BY DEF GpuInv, PackedGpu, Answers, Composing, Resident, Static
<1> QED
  BY <1>1, <1>2, <1>3 DEF EngineInv

LEMMA OutputKeeps ==
  ASSUME IInv, Output
  PROVE  IInv'
<1> USE Parted, ReaderTypes
<1>1. at = "output" /\ NotReading /\ Static /\ UNCHANGED <<plan, counted>>
  BY DEF Output, NotReading, StorageStill
<1>2. serving
  BY <1>1 DEF EngineInv, EngineTypes, Labels, Serving
<1>3. ASSUME NEW cause \in {"device", "cancelled"}, Breaks(cause) PROVE IInv'
  BY <1>1, <1>3, BrokenKeeps, WhysHave
<1>4. CASE Answers("ok") /\ device' = (IF Resident THEN device ELSE device \ {Decoder})
           /\ UNCHANGED <<packed, pending>>
  <2>1. ASSUME Resident PROVE EngineInv'
    BY <1>1, <1>2, <1>4, <2>1, AnswersKeeps, WhysHave DEF EngineInv, EngineTypes
  <2>2. ASSUME ~ Resident PROVE EngineInv'
    <3>1. device' = {} /\ packed' = "empty"
      BY <1>1, <1>4, <2>2 DEF EngineInv, GpuInv, PackedGpu
    <3> QED
      BY <1>1, <1>4, <2>2, <3>1, PackedAnswersKeeps, WhysHave
  <2> QED
    BY <1>1, <1>4, <2>1, <2>2, SettledStep DEF Answers
<1> QED
  BY <1>3, <1>4 DEF Output

LEMMA CleanupKeeps ==
  ASSUME IInv, Cleanup
  PROVE  IInv'
<1> USE Parted, ReaderTypes
<1>1. /\ at = "cleanup" /\ NotReading /\ Static /\ Answers(why) /\ packed' = "failed"
      /\ device' = {} /\ pending' = pending /\ UNCHANGED <<plan, counted>>
  BY DEF Cleanup, NotReading, StorageStill
<1>2. ~ Resident /\ why \in Whys \ {"refused"} /\ (why = "incomplete" => pending)
  BY <1>1 DEF EngineInv, EngineTypes, Labels, Answered
<1>3. EngineInv'
  BY <1>1, <1>2, PackedAnswersKeeps
<1> QED
  BY <1>1, <1>3, SettledStep DEF Answers

-----------------------------------------------------------------------------
(* Reads, and the page                                                     *)

LEMMA ReadKeeps ==
  ASSUME IInv, Read
  PROVE  IInv'
<1> USE Parted, ReaderTypes
<1>1. Wanted # <<>> /\ BeginRead(Head(Wanted)) /\ UNCHANGED engineVars
  BY DEF Read
<1>2. Wanted \in Seq(Objects)
  <2>1. {Text, Meta, Decoder} \subseteq Objects
    BY EngineAssumption DEF EngineAssumption
  <2>2. <<Text>> \in Seq(Objects) /\ <<Meta>> \in Seq(Objects) /\ <<Decoder>> \in Seq(Objects)
        /\ <<>> \in Seq(Objects)
    BY <2>1, OneElement, EmptySeq
  <2> QED
    BY <2>2 DEF Wanted, EngineInv, EngineTypes
<1>3. Head(Wanted) \in Objects
  BY <1>1, <1>2, HeadElements
<1>4. ReaderInv' /\ io'.key[1] = Head(Wanted)
  BY <1>1, <1>3, BeginReadKeeps
<1>5. UNCHANGED <<plan, counted, cancelled>>
  BY <1>1 DEF BeginRead
<1>6. EngineTypes' /\ Labels' /\ Answered'
  BY <1>1 DEF engineVars, EngineInv, EngineTypes, Labels, Answered, Resident
<1>7. GpuInv'
  BY <1>1, <1>5 DEF engineVars, EngineInv, GpuInv, ResidentGpu, PackedGpu, Resident, Queued
<1>8. EngineInv'
  BY <1>6, <1>7 DEF EngineInv
<1>9. Wanted' = Wanted
  BY <1>1 DEF engineVars, Wanted, Resident
<1>10. Reads'
  BY <1>1, <1>4, <1>9 DEF Reads
<1> QED
  BY <1>4, <1>8, <1>10, Parted, PTL

LEMMA ReadFailsKeeps ==
  ASSUME IInv, ReadFails
  PROVE  IInv'
<1> USE Parted, ReaderTypes
<1>1. /\ Reading("failed") /\ io' = NoRead /\ StorageStill /\ Static
      /\ Breaks(IF at = "text" /\ cancelled THEN "cancelled" ELSE io.cause)
  BY DEF ReadFails
<1>2. at # "cleanup"
  BY <1>1 DEF Reads, Wanted, Reading
<1>3. io.cause \in Causes
  BY DEF IoSet
<1>4. (IF at = "text" /\ cancelled THEN "cancelled" ELSE io.cause) \in Whys \ {"refused", "incomplete"}
  BY <1>3, WhysHave
<1> QED
  BY <1>1, <1>2, <1>4, BrokenKeeps

(* The reader goes on with its object and only ever counts more.           *)
LEMMA StreamStepDoes ==
  ASSUME ReaderInv, StreamStep
  PROVE  /\ ReaderInv' /\ io.at # "idle" /\ io'.key[1] = io.key[1] /\ plan' = plan
         /\ counted \subseteq counted' /\ counted' \subseteq plan'
<1> USE ReaderTypes
<1>1. ReaderInv'
  BY LookupKeeps, EvictKeeps, FetchKeeps, PutEntryKeeps, RejectKeeps DEF StreamStep
<1>2. io.at # "idle"
  BY DEF StreamStep, Lookup, Evict, Fetch, PutEntry, Reject, Reading
<1>3. io.key \in Keys
  BY <1>2 DEF ReaderInv, Progress
<1>4. ASSUME NEW bytes \in {"good", "bad"}, Judge(bytes) PROVE io'.key[1] = io.key[1]
  BY <1>3, <1>4, JudgeDoes
<1>5. ASSUME NEW cause, ReadEnds(cause) PROVE io'.key = io.key
  BY <1>5 DEF ReadEnds, IoSet
<1>6. ASSUME NEW label, io' = [io EXCEPT !.at = label] PROVE io'.key = io.key
  BY <1>6 DEF IoSet
<1>7. io'.key[1] = io.key[1]
  <2>1. CASE Lookup
    BY <1>4, <1>5, <1>6, <2>1 DEF Lookup, Delivered
  <2>2. CASE Evict
    BY <1>5, <1>6, <2>2 DEF Evict
  <2>3. CASE Fetch
    <3>1. ASSUME NEW bytes, io' = [io EXCEPT !.at = "put", !.bytes = bytes] PROVE io'.key = io.key
      BY <3>1 DEF IoSet
    <3> QED
      BY <1>5, <2>3, <3>1 DEF Fetch
  <2>4. CASE PutEntry
    <3>1. CASE ReadEnds("storage")
      BY <1>5, <3>1
    <3>2. CASE /\ storage' = [storage EXCEPT ![io.key] = io.bytes]
               /\ Delivered(io.bytes, {io.key})
      <4>1. io'.key = io.key \/ io'.key = <<io.key[1], io.key[2] + 1>>
        BY <3>2 DEF Delivered, Judge, NoRead, IoSet
      <4> QED
        BY <4>1
    <3> QED
      BY <2>4, <3>1, <3>2 DEF PutEntry
  <2>5. CASE Reject
    BY <1>5, <2>5 DEF Reject
  <2> QED
    BY <2>1, <2>2, <2>3, <2>4, <2>5 DEF StreamStep
<1>8. plan' = plan /\ counted \subseteq counted'
  BY DEF StreamStep, Lookup, Evict, Fetch, PutEntry, Reject, Delivered
<1>9. counted' \subseteq plan'
  BY <1>1 DEF ReaderInv, StreamTypeOK
<1> QED
  BY <1>1, <1>2, <1>7, <1>8, <1>9

LEMMA TransferKeeps ==
  ASSUME IInv, Transfer
  PROVE  IInv'
<1> USE Parted, ReaderTypes
<1>1. StreamStep /\ UNCHANGED engineVars
  BY DEF Transfer
<1>2. /\ ReaderInv' /\ io.at # "idle" /\ io'.key[1] = io.key[1] /\ plan' = plan
      /\ counted \subseteq counted' /\ counted' \subseteq plan'
  BY <1>1, StreamStepDoes
<1>3. EngineTypes' /\ Labels' /\ Answered'
  BY <1>1 DEF engineVars, EngineInv, EngineTypes, Labels, Answered, Resident
<1>4. GpuInv'
  <2>1. ASSUME Resident PROVE ResidentGpu'
    BY <1>1, <1>2, <2>1 DEF engineVars, EngineInv, GpuInv, ResidentGpu, Queued
  <2>2. ASSUME ~ Resident PROVE PackedGpu'
    BY <1>1, <2>2 DEF engineVars, EngineInv, GpuInv, PackedGpu, Queued
  <2> QED
    BY <1>1, <2>1, <2>2 DEF engineVars, EngineInv, GpuInv, Resident
<1>5. EngineInv'
  BY <1>3, <1>4 DEF EngineInv
<1>6. Wanted' = Wanted
  BY <1>1 DEF engineVars, Wanted, Resident
<1>7. Reads'
  BY <1>2, <1>6 DEF Reads
<1> QED
  BY <1>2, <1>5, <1>7, Parted, PTL

LEMMA SpoilEntryKeeps ==
  ASSUME IInv, SpoilEntry
  PROVE  IInv'
<1> USE Parted, ReaderTypes
<1>1. UNCHANGED <<engineVars, plan, counted, cancelled, io>>
  BY DEF SpoilEntry, Spoil
<1>2. ReaderInv'
  BY SpoilKeeps DEF SpoilEntry
<1>3. EngineTypes' /\ Labels' /\ Answered'
  BY <1>1 DEF engineVars, EngineInv, EngineTypes, Labels, Answered, Resident
<1>4. GpuInv'
  BY <1>1 DEF engineVars, EngineInv, GpuInv, ResidentGpu, PackedGpu, Resident, Queued
<1>5. EngineInv'
  BY <1>3, <1>4 DEF EngineInv
<1>6. Reads'
  BY <1>1 DEF engineVars, Reads, Wanted, Resident
<1> QED
  BY <1>2, <1>5, <1>6, Parted, PTL

LEMMA ReloadKeeps ==
  ASSUME IInv, Reload
  PROVE  IInv'
<1> USE Parted, ReaderTypes
<1>1. /\ storage' = [k \in Keys |-> IF Stored(k) THEN storage[k] ELSE "none"]
      /\ reloads < MaxReloads /\ reloads' = reloads + 1
      /\ populated' = {} /\ plan' = {} /\ counted' = {} /\ used' = {}
      /\ cancelled' = FALSE /\ io' = NoRead
      /\ at' = "closed" /\ serving' = FALSE /\ queue' = <<>> /\ device' = {} /\ packed' = "empty"
      /\ pending' = FALSE /\ steps' = 0 /\ why' = "none"
      /\ UNCHANGED <<spoils, policy, release, target>>
  BY DEF Reload, StreamReset
<1>2. io' \in IoSet /\ io'.at = "idle" /\ io'.cause = "none"
  BY <1>1, NoReadTyped DEF NoRead
<1>3. StreamTypeOK'
  BY <1>1, <1>2 DEF StreamTypeOK, IoSet, Absent
<1>4. ReaderInv'
  BY <1>1, <1>2, <1>3 DEF ReaderInv, Relied, Evicted, Progress, Reading
<1>5. EngineTypes'
  <2>1. queue' \in Seq(Objects) /\ steps' \in 0 .. DmdSteps /\ reloads' \in 0 .. MaxReloads
    BY <1>1, EmptySeq, Numbers DEF EngineInv, EngineTypes
  <2> QED
    BY <1>1, <2>1, WhysHave DEF EngineInv, EngineTypes, Ats
<1>6. Labels' /\ Answered'
  BY <1>1 DEF Labels, Answered, Serving, Composing, Resident
<1>7. GpuInv'
  BY <1>1 DEF GpuInv, ResidentGpu, PackedGpu, Composing, Resident
<1>8. EngineInv' /\ Reads'
  BY <1>2, <1>5, <1>6, <1>7 DEF EngineInv, Reads
<1> QED
  BY <1>4, <1>8, Parted, PTL

-----------------------------------------------------------------------------
(* Theorems                                                                *)

LEMMA InitHolds == Init => IInv
<1> SUFFICES ASSUME Init PROVE IInv
  OBVIOUS
<1>1. io \in IoSet /\ io.at = "idle" /\ io.cause = "none"
  BY NoReadTyped DEF Init, NoRead
<1>2. 0 \in 0 .. MaxSpoils
  BY StreamAssumption DEF StreamAssumption
<1>3. StreamTypeOK
  BY <1>1, <1>2 DEF Init, StreamTypeOK, IoSet, Absent
<1>4. ReaderInv
  BY <1>1, <1>3 DEF Init, ReaderInv, Relied, Evicted, Progress, Reading
<1>5. EngineTypes
  <2>1. queue \in Seq(Objects) /\ steps \in 0 .. DmdSteps /\ reloads \in 0 .. MaxReloads
    BY EmptySeq, Numbers DEF Init
  <2> QED
    BY <2>1, WhysHave DEF Init, EngineTypes, Ats
<1>6. Labels /\ Answered
  BY DEF Init, Labels, Answered, Serving, Composing, Resident
<1>7. GpuInv
  BY DEF Init, GpuInv, ResidentGpu, PackedGpu, Composing, Resident
<1>8. EngineInv /\ Reads
  BY <1>1, <1>5, <1>6, <1>7 DEF EngineInv, Reads
<1> QED
  BY <1>4, <1>8, Parted

LEMMA StepKeeps == IInv /\ [Next]_vars => IInv'
<1> SUFFICES ASSUME IInv, [Next]_vars PROVE IInv'
  OBVIOUS
<1>1. CASE \E p \in {"resident", "packed"}, r \in Releases : OpenPage(p, r)
  BY <1>1, OpenPageKeeps
<1>2. CASE \E t \in Releases : Switch(t)
  BY <1>2, SwitchKeeps
<1>3. CASE Build
  BY <1>3, RetireKeeps, ComposeKeeps, PreflightKeeps, PressOutKeeps, MetadataReadKeeps, PreloadKeeps,
     LoadedKeeps, ValidateKeeps DEF Build
<1>4. CASE Read \/ ReadFails \/ Transfer
  BY <1>4, ReadKeeps, ReadFailsKeeps, TransferKeeps
<1>5. CASE Submit \/ Cancel
  BY <1>5, SubmitKeeps, CancelKeeps
<1>6. CASE Request
  BY <1>6, CheckKeeps, RehydrateKeeps, TextDoneKeeps, DmdStepKeeps, HandoffKeeps, DecoderReadKeeps,
     OutputKeeps, CleanupKeeps DEF Request
<1>7. CASE Reload \/ SpoilEntry
  BY <1>7, ReloadKeeps, SpoilEntryKeeps
<1>8. CASE UNCHANGED vars
  <2>1. UNCHANGED streamVars /\ UNCHANGED engineVars
    BY <1>8 DEF vars
  <2>2. ReaderInv'
    BY <2>1 DEF streamVars, IInv, ReaderInv, StreamTypeOK, Relied, Evicted, Progress, Reading
  <2>3. EngineTypes' /\ Labels' /\ Answered'
    BY <2>1, Parted DEF engineVars, EngineInv, EngineTypes, Labels, Answered, Resident
  <2>4. GpuInv'
    BY <2>1, Parted DEF streamVars, engineVars, EngineInv, GpuInv, ResidentGpu, PackedGpu, Resident, Queued
  <2>5. EngineInv'
    BY <2>3, <2>4 DEF EngineInv
  <2>6. Reads'
    BY <2>1, Parted DEF streamVars, engineVars, Reads, Wanted, Resident
  <2> QED
    BY <2>2, <2>5, <2>6, Parted, PTL
<1> QED
  BY <1>1, <1>2, <1>3, <1>4, <1>5, <1>6, <1>7, <1>8 DEF Next

(* The reader and the engine keep the inductive invariant: what the page   *)
(* relies on, which labels a task can be at and why it ended, and what is  *)
(* on the GPU at each of them.                                             *)
THEOREM EngineInvariant == Spec => []IInv
<1>1. Init => IInv
  BY InitHolds
<1>2. IInv /\ [Next]_vars => IInv'
  BY StepKeeps
<1> QED
  BY <1>1, <1>2, PTL DEF Spec

(* The variables of the reader and of the engine keep their types.         *)
THEOREM TypeCorrect == Spec => []TypeOK
<1>1. IInv => TypeOK
  BY DEF IInv
<1> QED
  BY <1>1, EngineInvariant, PTL

LEMMA WeightsOnly == IInv => device \subseteq Weights(release)
<1> SUFFICES ASSUME IInv PROVE device \subseteq Weights(release)
  OBVIOUS
<1>1. EngineInv
  BY Parted
<1>2. release \in Releases /\ at \in Ats
  BY <1>1 DEF EngineInv, EngineTypes
<1>3. Decoder \in Weights(release) /\ Denoiser(release) \subseteq Weights(release)
      /\ Reused(release, target) \subseteq Weights(release)
  BY <1>2, Weighed DEF Reused
<1>4. CASE at \in {"closed", "lost"}
  BY <1>1, <1>4 DEF EngineInv, GpuInv
<1>5. CASE at \notin {"closed", "lost"} /\ Resident
  <2>1. ResidentGpu /\ at \notin {"rehydrate", "preload", "decoder", "cleanup"}
    BY <1>1, <1>5 DEF EngineInv, GpuInv, Labels
  <2> QED
    BY <1>2, <1>3, <1>5, <2>1 DEF ResidentGpu, Composing, Ats
<1>6. CASE at \notin {"closed", "lost"} /\ ~ Resident
  <2>1. PackedGpu
    BY <1>1, <1>6 DEF EngineInv, GpuInv
  <2> QED
    BY <1>2, <1>3, <1>6, <2>1 DEF PackedGpu, Composing, Ats
<1> QED
  BY <1>4, <1>5, <1>6

(* A resident engine that takes requests has exactly the weights of its    *)
(* release on the GPU and its plan counts them all; a packed engine has a  *)
(* whole denoiser or none.                                                 *)
THEOREM TakesRequestsWhole == Spec => []ReadyIsWhole
<1>1. IInv => ReadyIsWhole
  BY Parted DEF EngineInv, GpuInv, ResidentGpu, PackedGpu, ReadyIsWhole
<1> QED
  BY <1>1, EngineInvariant, PTL

(* The GPU never has two denoisers, nor a packed denoiser together with    *)
(* the decoder, nor anything of a packed request that has been answered.   *)
THEOREM GpuStaysBounded == Spec => []GpuBounded
<1>1. IInv => GpuBounded
  <2> SUFFICES ASSUME IInv PROVE GpuBounded
    OBVIOUS
  <2>1. EngineInv
    BY Parted
  <2>2. release \in Releases /\ at \in Ats
    BY <2>1 DEF EngineInv, EngineTypes
  <2>3. \A s \in Releases : s # release => device \cap Denoiser(s) = {}
    BY <2>2, WeightsOnly, Weighed
  <2>4. ASSUME ~ Resident
        PROVE  /\ Decoder \notin device \/ device \cap Denoiser(release) = {}
               /\ at = "ready" /\ why # "none" => device = {}
    <3>1. Decoder \notin Denoiser(release)
      BY <2>2, Weighed
    <3>2. device \subseteq Denoiser(release) \/ device \subseteq {Decoder}
      BY <2>1, <2>2, <2>4 DEF EngineInv, GpuInv, PackedGpu, Composing, Ats
    <3> QED
      BY <2>1, <2>4, <3>1, <3>2 DEF EngineInv, GpuInv, PackedGpu
  <2> QED
    BY <2>3, <2>4 DEF GpuBounded
<1> QED
  BY <1>1, EngineInvariant, PTL

(* The engine never refuses work for the state of its packed cache, and    *)
(* refuses a request or a switch as incomplete only while work of a wait   *)
(* for the GPU that failed is pending.                                     *)
THEOREM FailuresHaveACause == Spec => []FailsForCause
<1>1. IInv => FailsForCause
  BY Parted DEF EngineInv, Answered, FailsForCause
<1> QED
  BY <1>1, EngineInvariant, PTL

(* An artifact is given up as lost only when an entry that was in the      *)
(* cache has been deleted, never because a transfer failed before its      *)
(* entry was stored.                                                       *)
THEOREM LostEntriesWereStored == Spec => []LostWasDeleted
<1>1. IInv => LostWasDeleted
  BY DEF IInv, ReaderInv, Progress, LostWasDeleted, Absent
<1> QED
  BY <1>1, EngineInvariant, PTL

(* What a page has read and verified is transferred again only after the   *)
(* page found the entry corrupt and evicted it.                            *)
THEOREM TransferredOnce == Spec => []NoRepeatTransfer
<1>1. IInv => NoRepeatTransfer
  BY DEF IInv, ReaderInv, Relied, Evicted, NoRepeatTransfer
<1> QED
  BY <1>1, EngineInvariant, PTL

=============================================================================
