--------------------------- MODULE ArtifactStream ---------------------------
(***************************************************************************)
(* The reader of one browser page (crates/bevy_image/src/                  *)
(* artifact_stream.rs, persistent cache required): it serves each part of  *)
(* an artifact from the origin's Cache Storage, or transfers and stores it,*)
(* and it never transfers again what the page has already stored.          *)
(*                                                                         *)
(* Cache Storage outlives the page and belongs to it only in part: other   *)
(* tabs and the browser may remove or damage an entry between any two      *)
(* awaits.  BrowserEngine says what is read, and when.                     *)
(***************************************************************************)
EXTENDS Naturals, Sequences

CONSTANTS
  Objects,      \* logical artifacts
  Halved,       \* those carried by two transport parts; the others have one
  Pressure,     \* whether the storage quota may be short
  MaxSpoils     \* bound: entries removed or damaged by somebody else

ASSUME StreamAssumption ==
  /\ Halved \subseteq Objects
  /\ Pressure \in BOOLEAN
  /\ MaxSpoils \in Nat

VARIABLES
  storage,      \* Cache Storage: what it holds under each key, or why nothing
  spoils,       \* entries spoiled so far
  populated,    \* BrowserRangeCacheSession: keys the page relies on
  plan,         \* keys of the selected model: the transfer and the cache plan
  counted,      \* those the transfer counts as done
  cancelled,    \* the cancellation token of the running request
  io,           \* the read in progress
  used          \* history: keys of the objects the page has read and verified

streamVars == <<storage, spoils, populated, plan, counted, cancelled, io, used>>

LastPart(o) == IF o \in Halved THEN 2 ELSE 1
PartsOf(o) == {<<o, part>> : part \in 1 .. LastPart(o)}
KeysOf(objects) == UNION {PartsOf(o) : o \in objects}
Keys == KeysOf(Objects)

Present == {"good", "bad", "short"}            \* exact, wrong bytes, wrong size
Absent == {"none", "taken", "pressed", "rejected"}
Causes == {"none", "cancelled", "network", "storage", "lost", "integrity"}
NoRead == [at |-> "idle", key |-> <<>>, bytes |-> "none", forced |-> FALSE, cause |-> "none"]

(* Types: what Cache Storage, the session and the read hold.               *)
StreamTypeOK ==
  /\ storage \in [Keys -> Present \cup Absent]
  /\ spoils \in 0 .. MaxSpoils
  /\ populated \subseteq Keys /\ plan \subseteq Keys /\ counted \subseteq plan /\ used \subseteq Keys
  /\ cancelled \in BOOLEAN
  /\ io \in [at : {"idle", "match", "evict", "fetch", "put", "reject", "done", "failed"},
             key : Keys \cup {<<>>}, bytes : {"none", "good", "bad"},
             forced : BOOLEAN, cause : Causes]

Stored(k) == storage[k] \in Present
Reading(label) == io.at = label
ReadEnds(why) == io' = [io EXCEPT !.at = "failed", !.cause = why]

(* A page starts with an empty session, whatever the storage holds.        *)
StreamReset ==
  /\ populated' = {} /\ plan' = {} /\ counted' = {} /\ used' = {}
  /\ cancelled' = FALSE /\ io' = NoRead

-----------------------------------------------------------------------------
(* One part after the other                                                *)

BeginRead(o) ==
  /\ Reading("idle")
  /\ io' = [NoRead EXCEPT !.at = "match", !.key = <<o, 1>>]
  /\ UNCHANGED <<storage, spoils, populated, plan, counted, cancelled, used>>

(* Mutant: an object found complete in the cache is not protected.         *)
Protect_Not(o) == UNCHANGED populated

(* All parts are protected once the whole object has been verified.        *)
Protect(o) == populated' = populated \cup PartsOf(o)

(* The bytes of this attempt are verified; the second attempt is the last. *)
Judge(bytes) ==
  LET o == io.key[1]  part == io.key[2] IN
  \/ /\ bytes = "good" /\ part < LastPart(o)
     /\ io' = [NoRead EXCEPT !.at = "match", !.key = <<o, part + 1>>]
  \/ /\ bytes = "good" /\ part = LastPart(o)
     /\ io' = [io EXCEPT !.at = "done"]
  \/ /\ bytes = "bad"
     /\ io' = [io EXCEPT !.at = IF io.forced THEN "reject" ELSE "evict",
                         !.forced = TRUE, !.bytes = "none"]

Verified(bytes) == bytes = "good" /\ io.key[2] = LastPart(io.key[1])

(* A part of the plan counts as transferred as soon as its bytes are there. *)
Delivered(bytes, stored) ==
  /\ Judge(bytes)
  /\ counted' = counted \cup ({io.key} \cap plan)
  /\ IF Verified(bytes)
     THEN Protect(io.key[1]) /\ used' = used \cup PartsOf(io.key[1])
     ELSE populated' = populated \cup stored /\ UNCHANGED used

(* browser_cache_match.  An absent entry is transferred, unless the page   *)
(* has relied on it; one of the wrong size is evicted and transferred.     *)
Lookup ==
  LET k == io.key IN
  /\ Reading("match")
  /\ \/ cancelled /\ ReadEnds("cancelled") /\ UNCHANGED <<counted, populated, used>>
     \/ ~ cancelled /\ ReadEnds("storage") /\ UNCHANGED <<counted, populated, used>>
     \/ /\ ~ cancelled /\ storage[k] \in {"good", "bad"}
        /\ Delivered(storage[k], {})
     \/ /\ ~ cancelled /\ storage[k] = "short"
        /\ io' = [io EXCEPT !.at = "evict"]
        /\ UNCHANGED <<counted, populated, used>>
     \/ /\ ~ cancelled /\ ~ Stored(k)
        /\ IF k \in populated THEN ReadEnds("lost") ELSE io' = [io EXCEPT !.at = "fetch"]
        /\ UNCHANGED <<counted, populated, used>>
  /\ UNCHANGED <<storage, spoils, plan, cancelled>>

(* The forced attempt looks at the token again before it transfers.        *)
Evict ==
  /\ Reading("evict")
  /\ \/ ReadEnds("storage") /\ UNCHANGED storage
     \/ /\ storage' = [storage EXCEPT ![io.key] = "rejected"]
        /\ IF io.forced /\ cancelled THEN ReadEnds("cancelled")
                                     ELSE io' = [io EXCEPT !.at = "fetch"]
  /\ UNCHANGED <<spoils, populated, plan, counted, cancelled, used>>

(* fetch_browser_complete_file accepts the exact size only.                *)
Fetch ==
  /\ Reading("fetch")
  /\ \/ ReadEnds("network")
     \/ \E bytes \in {"good", "bad"} : io' = [io EXCEPT !.at = "put", !.bytes = bytes]
  /\ UNCHANGED <<storage, spoils, populated, plan, counted, cancelled, used>>

(* Mutant: the key is recorded before the put, which may then fail.        *)
PutEntry_Early ==
  /\ Reading("put")
  /\ \/ ReadEnds("storage") /\ populated' = populated \cup {io.key} /\ UNCHANGED <<storage, counted, used>>
     \/ /\ storage' = [storage EXCEPT ![io.key] = io.bytes]
        /\ Delivered(io.bytes, {io.key})
  /\ UNCHANGED <<spoils, plan, cancelled>>

(* The bytes are stored, and the key recorded, before they are verified.   *)
PutEntry ==
  /\ Reading("put")
  /\ \/ ReadEnds("storage") /\ UNCHANGED <<storage, populated, counted, used>>
     \/ /\ storage' = [storage EXCEPT ![io.key] = io.bytes]
        /\ Delivered(io.bytes, {io.key})
  /\ UNCHANGED <<spoils, plan, cancelled>>

Reject ==
  /\ Reading("reject")
  /\ \/ ReadEnds("storage") /\ UNCHANGED storage
     \/ storage' = [storage EXCEPT ![io.key] = "rejected"] /\ ReadEnds("integrity")
  /\ UNCHANGED <<spoils, populated, plan, counted, cancelled, used>>

StreamStep == Lookup \/ Evict \/ Fetch \/ PutEntry \/ Reject

-----------------------------------------------------------------------------
(* The preflight of the plan                                               *)

(* The room is estimated; nothing missing needs no room.                   *)
ShortOfRoom == Pressure /\ \E k \in plan : ~ Stored(k)

Unselected == {k \in Keys \ plan : Stored(k)}

(* Every entry that is not of the plan is deleted, several at once, so an  *)
(* error leaves any of them.                                               *)
Press(gone) ==
  storage' = [k \in Keys |-> IF k \in gone THEN "pressed" ELSE storage[k]]

-----------------------------------------------------------------------------
(* Somebody else                                                           *)

Spoil(k) ==
  /\ spoils < MaxSpoils /\ storage[k] = "good"
  /\ \E what \in {"taken", "bad", "short"} : storage' = [storage EXCEPT ![k] = what]
  /\ spoils' = spoils + 1
  /\ UNCHANGED <<populated, plan, counted, cancelled, io, used>>
=============================================================================
