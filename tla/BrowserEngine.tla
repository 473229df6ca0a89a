---------------------------- MODULE BrowserEngine ----------------------------
(***************************************************************************)
(* The browser engine (BrowserBooguEngine in                               *)
(* crates/bevy_image/src/browser_boogu/runtime.rs) and the weights it has  *)
(* on the GPU, over the reader of ArtifactStream.  BrowserRuntime has the  *)
(* cell the engine lives in.                                               *)
(*                                                                         *)
(* resident: every weight of the release is loaded before the first        *)
(* request and stays; a switch keeps what the two releases share.          *)
(* packed: the denoiser is loaded before a request, the rest is streamed   *)
(* during it, and the denoiser must be gone before the decoder comes.      *)
(*                                                                         *)
(* Everything between two awaits is one step; a token may be cancelled, a  *)
(* stored entry spoiled or the page reloaded between any two steps.        *)
(***************************************************************************)
EXTENDS ArtifactStream

CONSTANTS
  Releases, EditReleases,
  Stages,               \* denoiser stages of a release
  Text, Vision, Decoder,\* shared weights; Vision has all that only Edit uses
  Meta,                 \* configuration and tokenizer files
  DmdSteps,
  MaxReloads            \* bound: page reloads

Denoiser(r) == {<<r, stage>> : stage \in 1 .. Stages}
Shared(r) == {Text, Decoder} \cup IF r \in EditReleases THEN {Vision} ELSE {}
Weights(r) == Shared(r) \cup Denoiser(r)

DenoiserOrder(r) == [stage \in 1 .. Stages |-> <<r, stage>>]

ASSUME EngineAssumption ==
  /\ EditReleases \subseteq Releases
  /\ Stages \in Nat \ {0} /\ DmdSteps \in Nat \ {0} /\ MaxReloads \in Nat
  /\ Objects = {Text, Vision, Decoder, Meta} \cup UNION {Denoiser(r) : r \in Releases}
  /\ Text # Vision /\ Text # Decoder /\ Text # Meta
  /\ Vision # Decoder /\ Vision # Meta /\ Decoder # Meta
  /\ \A r \in Releases : {Text, Vision, Decoder, Meta} \cap Denoiser(r) = {}

VARIABLES
  policy,       \* resident or packed
  release,      \* identity of the engine
  target,       \* release of the build or switch in progress
  at,           \* where the engine's task is; "ready" when it is in the cell
  serving,      \* the task is a request
  queue,        \* objects it still has to load
  device,       \* objects on the GPU
  packed,       \* PackedF16DenoiserCacheState
  pending,      \* a retained source has work it has not waited for
  steps,        \* stages computed for this request
  why,          \* answer of the last task
  reloads

engineVars == <<policy, release, target, at, serving, queue, device, packed, pending, steps,
                why, reloads>>
vars == <<streamVars, engineVars>>

Init ==
  /\ storage = [k \in Keys |-> "none"]
  /\ spoils = 0 /\ populated = {} /\ plan = {} /\ counted = {} /\ used = {}
  /\ cancelled = FALSE /\ io = NoRead
  /\ policy = "resident" /\ release \in Releases /\ target = release
  /\ at = "closed" /\ serving = FALSE /\ queue = <<>> /\ device = {} /\ packed = "empty"
  /\ pending = FALSE /\ steps = 0 /\ why = "none" /\ reloads = 0

-----------------------------------------------------------------------------
(* Helpers                                                                 *)

IsEdit(r) == r \in EditReleases
Resident == policy = "resident"
Gpu == <<device, packed, pending>>
Task == <<why, queue, serving, steps, cancelled>>

Static == UNCHANGED <<policy, release, target, reloads>>
StorageStill == UNCHANGED <<storage, spoils, populated, plan, counted, used>>
NotReading == Reading("idle") /\ UNCHANGED io /\ StorageStill

Goes(label) == at' = label /\ UNCHANGED <<Task, Gpu>>

(* A build or a switch that fails takes the engine with it.                *)
Dies(cause) ==
  /\ at' = "lost" /\ why' = cause /\ queue' = <<>>
  /\ device' = {} /\ packed' = "empty" /\ pending' = FALSE
  /\ UNCHANGED <<serving, steps, cancelled>>

(* A packed request that fails is answered after its cleanup.              *)
Fails(cause) ==
  /\ at' = "cleanup" /\ why' = cause /\ queue' = <<>>
  /\ IF packed = "preloading" THEN packed' = "failed" /\ device' = {}
                              ELSE UNCHANGED <<packed, device>>
  /\ UNCHANGED <<serving, steps, cancelled, pending>>

(* Any other request is answered where it ends.                            *)
Answers(cause) ==
  /\ at' = "ready" /\ why' = cause /\ queue' = <<>>
  /\ serving' = FALSE /\ steps' = 0 /\ cancelled' = FALSE

Breaks(cause) ==
  IF ~ serving THEN Dies(cause)
  ELSE IF Resident THEN Answers(cause) /\ UNCHANGED Gpu ELSE Fails(cause)

(* Waiting for the GPU fails.  A retained source then still has the work   *)
(* it has not waited for, and nothing but another wait clears that.        *)
DeviceFails ==
  IF serving /\ Resident
  THEN Answers("device") /\ pending' \in {pending, TRUE} /\ UNCHANGED <<device, packed>>
  ELSE Breaks("device")

-----------------------------------------------------------------------------
(* The page, and a build or a switch                                       *)

(* Mutant: Edit stages count as handed over whenever the target is Edit.   *)
Reused_TargetOnly(source, r) ==
  IF source = r THEN {} ELSE Shared(r)

(* Objects a switch hands over on the device.                              *)
Reused(source, r) == IF source = r THEN {} ELSE Shared(source) \cap Shared(r)

(* preload_resident_weights, in its order.                                 *)
ToLoad(source, r) ==
  LET Needed(o) == IF o \in Shared(r) \ Reused(source, r) THEN <<o>> ELSE <<>> IN
  Needed(Vision) \o Needed(Text) \o Needed(Decoder) \o DenoiserOrder(r)

(* Mutant: the objects handed over are left out of the new plan's count.   *)
Retained_None(source, r) == {}

(* Keys the new plan counts as transferred from the start.                 *)
Retained(source, r) == IF source = r THEN {} ELSE KeysOf(Shared(source) \cap Shared(r))

OpenPage(p, r) ==
  /\ at = "closed" /\ (p = "packed" => ~ IsEdit(r))
  /\ policy' = p /\ release' = r /\ target' = r
  /\ Goes("compose")
  /\ NotReading /\ UNCHANGED reloads

(* A switch is refused by a packed engine, and when what it would hand     *)
(* over is incomplete; the refused engine has been taken and is dropped.   *)
Switch(t) ==
  /\ at = "ready" /\ t # release
  /\ target' = t
  /\ \/ ~ Resident /\ Dies("unsupported")
     \/ Resident /\ ~ (Shared(release) \subseteq device) /\ Dies("incomplete")
     \/ /\ Resident /\ Shared(release) \subseteq device
        /\ at' = "retire" /\ why' = "none"
        /\ UNCHANGED <<queue, serving, steps, cancelled, Gpu>>
  /\ NotReading /\ UNCHANGED <<policy, release, reloads>>

(* What the target cannot use is dropped before its build starts.          *)
Retire ==
  /\ at = "retire"
  /\ \/ Dies("device")
     \/ /\ device' = device \cap Shared(target)
        /\ pending' = FALSE
        /\ at' = "compose" /\ UNCHANGED <<Task, packed>>
  /\ NotReading /\ Static

(* Manifests and transport layouts are fetched anew.                       *)
Compose ==
  /\ at = "compose" /\ Reading("idle")
  /\ \/ Dies("network") /\ UNCHANGED <<plan, counted, release>>
     \/ /\ release' = target
        /\ plan' = KeysOf(Weights(target))
        /\ counted' = Retained(release, target)
        /\ queue' = IF Resident THEN ToLoad(release, target) ELSE <<>>
        /\ at' = "preflight" /\ UNCHANGED <<why, serving, steps, cancelled, Gpu>>
  /\ UNCHANGED <<storage, spoils, populated, io, used, policy, target, reloads>>

Preflight ==
  /\ at = "preflight"
  /\ \/ Dies("storage")
     \/ Goes("metadata")
     \/ ShortOfRoom /\ Goes("press")
  /\ NotReading /\ Static

PressOut ==
  /\ at = "press" /\ Reading("idle")
  /\ \/ \E gone \in SUBSET Unselected : Press(gone) /\ Dies("storage")
     \/ Press(Unselected) /\ (Dies("quota") \/ Goes("metadata"))
  /\ UNCHANGED <<spoils, populated, plan, counted, io, used>> /\ Static

(* The next object of the label the task is at.                            *)
Wanted ==
  CASE at = "metadata" -> <<Meta>>
    [] at = "load"     -> queue
    [] at = "text" /\ ~ Resident -> <<Text>>
    [] at = "decoder"  -> <<Decoder>>
    [] OTHER           -> <<>>

Read == Wanted # <<>> /\ BeginRead(Head(Wanted)) /\ UNCHANGED engineVars

(* A streamed Qwen pass reports a cancelled token, whatever went wrong.    *)
ReadFails ==
  /\ Reading("failed") /\ io' = NoRead
  /\ Breaks(IF at = "text" /\ cancelled THEN "cancelled" ELSE io.cause)
  /\ StorageStill /\ Static

MetadataRead ==
  /\ at = "metadata" /\ Reading("done") /\ io' = NoRead
  /\ Goes(IF Resident THEN "load" ELSE "preload")
  /\ StorageStill /\ Static

(* preload_turbo_raw starts from an empty cache only.                      *)
Preload ==
  /\ at = "preload"
  /\ IF packed = "empty"
     THEN /\ packed' = "preloading" /\ queue' = DenoiserOrder(release) /\ at' = "load"
          /\ UNCHANGED <<why, serving, steps, cancelled, device, pending>>
     ELSE Breaks("refused")
  /\ NotReading /\ Static

Loaded ==
  /\ at = "load" /\ Reading("done") /\ io' = NoRead
  /\ \/ DeviceFails
     \/ /\ device' = device \cup {Head(queue)} /\ queue' = Tail(queue)
        /\ UNCHANGED <<at, why, serving, steps, cancelled, packed, pending>>
  /\ StorageStill /\ Static

Whole == device = Weights(release) /\ ~ pending

(* validate_resident_caches, or the end of preload_turbo_raw.              *)
Validate ==
  /\ at = "load" /\ queue = <<>>
  /\ IF Resident
     THEN IF Whole THEN Goes("ready") ELSE Dies("incomplete")
     ELSE /\ packed' = "ready" /\ at' = IF serving THEN "text" ELSE "ready"
          /\ UNCHANGED <<Task, device, pending>>
  /\ NotReading /\ Static

-----------------------------------------------------------------------------
(* A request                                                               *)

Submit ==
  /\ at = "ready" /\ at' = "check" /\ serving' = TRUE /\ why' = "none"
  /\ UNCHANGED <<queue, steps, cancelled, Gpu>>
  /\ NotReading /\ Static

Cancel ==
  /\ serving /\ ~ cancelled /\ cancelled' = TRUE
  /\ UNCHANGED <<engineVars, io>> /\ StorageStill

DenoiserReady == packed = "ready" /\ Denoiser(release) \subseteq device

Check ==
  /\ at = "check"
  /\ IF cancelled THEN Breaks("cancelled")
     ELSE IF Resident THEN (IF Whole THEN Goes("text") ELSE Breaks("incomplete"))
     ELSE Goes(IF DenoiserReady THEN "text" ELSE "rehydrate")
  /\ NotReading /\ Static

(* ensure_preloaded_packed_f16_denoiser.                                   *)
Rehydrate ==
  /\ at = "rehydrate"
  /\ \/ DeviceFails
     \/ /\ packed' = "empty" /\ device' = device \ Denoiser(release)
        /\ at' = "preload" /\ UNCHANGED <<Task, pending>>
  /\ NotReading /\ Static

(* Qwen: a streamed pass has read its weights, a resident one has them.    *)
TextDone ==
  /\ at = "text" /\ Reading(IF Resident THEN "idle" ELSE "done") /\ io' = NoRead
  /\ \/ DeviceFails
     \/ IF cancelled THEN Breaks("cancelled") ELSE Goes("dmd")
  /\ StorageStill /\ Static

DmdStep ==
  /\ at = "dmd" /\ steps < DmdSteps
  /\ IF ~ Resident /\ ~ DenoiserReady THEN Fails("refused")
     ELSE IF cancelled THEN Breaks("cancelled")
     ELSE \/ DeviceFails
          \/ steps' = steps + 1 /\ UNCHANGED <<at, why, queue, serving, cancelled, Gpu>>
  /\ NotReading /\ Static

(* Mutant: the denoiser stays through the handoff.                         *)
Handoff_Keeps ==
  /\ at = "dmd" /\ steps = DmdSteps
  /\ at' = IF Resident THEN "output" ELSE "decoder"
  /\ UNCHANGED <<Task, Gpu>> /\ NotReading /\ Static

(* DMD to VAE: the packed denoiser is dropped, at the latest by the        *)
(* cleanup of a handoff that fails.                                        *)
Handoff ==
  /\ at = "dmd" /\ steps = DmdSteps
  /\ \/ DeviceFails
     \/ /\ cancelled /\ Breaks("cancelled")
     \/ /\ ~ cancelled
        /\ IF Resident THEN UNCHANGED <<packed, device>>
           ELSE packed' = "empty" /\ device' = device \ Denoiser(release)
        /\ at' = IF Resident THEN "output" ELSE "decoder"
        /\ UNCHANGED <<Task, pending>>
  /\ NotReading /\ Static

DecoderRead ==
  /\ at = "decoder" /\ Reading("done") /\ io' = NoRead
  /\ device' = device \cup {Decoder}
  /\ at' = "output" /\ UNCHANGED <<Task, packed, pending>>
  /\ StorageStill /\ Static

Output ==
  /\ at = "output"
  /\ \/ Breaks("device")
     \/ /\ cancelled /\ Breaks("cancelled")
     \/ /\ ~ cancelled /\ Answers("ok")
        /\ device' = IF Resident THEN device ELSE device \ {Decoder}
        /\ UNCHANGED <<packed, pending>>
  /\ NotReading /\ Static

(* fail_closed_packed_f16_request_cleanup: it clears, whatever it reports. *)
Cleanup ==
  /\ at = "cleanup"
  /\ Answers(why) /\ packed' = "failed" /\ device' = {} /\ UNCHANGED pending
  /\ NotReading /\ Static

-----------------------------------------------------------------------------
(* The page is reloaded: only Cache Storage stays.                         *)
Reload ==
  /\ at # "closed" /\ reloads < MaxReloads /\ reloads' = reloads + 1
  /\ StreamReset
  /\ storage' = [k \in Keys |-> IF Stored(k) THEN storage[k] ELSE "none"]
  /\ at' = "closed" /\ serving' = FALSE /\ queue' = <<>> /\ device' = {} /\ packed' = "empty"
  /\ pending' = FALSE /\ steps' = 0 /\ why' = "none"
  /\ UNCHANGED <<spoils, policy, release, target>>

SpoilEntry == \E k \in Keys : Spoil(k) /\ UNCHANGED engineVars

Transfer == StreamStep /\ UNCHANGED engineVars

Build == Retire \/ Compose \/ Preflight \/ PressOut \/ MetadataRead \/ Preload \/ Loaded \/ Validate
Request == Check \/ Rehydrate \/ TextDone \/ DmdStep \/ Handoff \/ DecoderRead \/ Output \/ Cleanup

Next ==
  \/ \E p \in {"resident", "packed"}, r \in Releases : OpenPage(p, r)
  \/ \E t \in Releases : Switch(t)
  \/ Build \/ Read \/ ReadFails \/ Transfer
  \/ Submit \/ Cancel \/ Request
  \/ Reload \/ SpoilEntry

Spec == Init /\ [][Next]_vars

-----------------------------------------------------------------------------
(* Properties                                                              *)

(* Types: the reader, and the engine over it.                              *)
TypeOK ==
  /\ StreamTypeOK
  /\ policy \in {"resident", "packed"} /\ release \in Releases /\ target \in Releases
  /\ at \in {"closed", "lost", "ready", "retire", "compose", "preflight", "press", "metadata",
             "preload", "load", "check", "rehydrate", "text", "dmd", "decoder", "output", "cleanup"}
  /\ serving \in BOOLEAN /\ pending \in BOOLEAN
  /\ queue \in Seq(Objects) /\ device \subseteq Objects
  /\ packed \in {"empty", "preloading", "ready", "failed"}
  /\ steps \in 0 .. DmdSteps /\ reloads \in 0 .. MaxReloads
  /\ why \in Causes \cup {"ok", "device", "incomplete", "refused", "quota",
                     "unsupported"}

(* A resident engine that takes requests has on the GPU exactly the        *)
(* weights of its release, and the transfer plan the page shows counts all *)
(* of them, also after a switch that read only some; a packed engine whose *)
(* cache is Ready has the whole denoiser, else none of it.                 *)
(* (validate_resident_caches; mark_transfer_logical_objects_resident)      *)
ReadyIsWhole ==
  at = "ready" =>
    IF Resident THEN device = Weights(release) /\ counted = plan
    ELSE /\ packed \in {"empty", "ready", "failed"}
         /\ device = IF packed = "ready" THEN Denoiser(release) ELSE {}

(* The GPU never has the denoisers of two releases, nor the packed         *)
(* denoiser together with the decoder, nor anything of a packed request    *)
(* that has been answered.  (switch_to, packed_f16_dmd_vae_handoff,        *)
(* fail_closed_packed_f16_request_cleanup)                                 *)
GpuBounded ==
  /\ \A r, s \in Releases : r = s \/ device \cap Denoiser(r) = {} \/ device \cap Denoiser(s) = {}
  /\ ~ Resident => Decoder \notin device \/ device \cap Denoiser(release) = {}
  /\ ~ Resident /\ at = "ready" /\ why # "none" => device = {}

(* An engine never refuses work for the state of its packed cache, and     *)
(* refuses a request or a switch as incomplete only after a wait for the   *)
(* GPU has failed: whatever was cancelled or failed before, in a request   *)
(* or between two, it has all it needs for the next.                       *)
(* (validate_resident_caches; preload_turbo_raw; switch_to)                *)
FailsForCause ==
  /\ why # "refused"
  /\ why = "incomplete" => pending

(* A read gives an artifact up as lost only when an entry that was in the  *)
(* cache has been deleted: by somebody else, by the preflight of a switch  *)
(* (PressureIsHarmless), or by the page as corrupt when nothing good came  *)
(* in its place.  A transfer that failed before its entry was stored never *)
(* leads to it.                                                            *)
(* (record_cache_write; BrowserCacheSessionEntryLost)                      *)
LostWasDeleted ==
  io.cause = "lost" => storage[io.key] \in {"taken", "pressed", "rejected"}

(* What a page has read and verified once it does not transfer again,      *)
(* unless it found the entry corrupt and evicted it.                       *)
(* (docs/web.md: a completed active-session cache must not silently fall   *)
(* back to repeated network transfer)                                      *)
NoRepeatTransfer ==
  Reading("fetch") /\ io.key \in used => storage[io.key] = "rejected"

(* docs/web.md: a missing or corrupt entry is evicted and replaced from    *)
(* the CDN; bevy_image/src/lib.rs: under quota pressure the preflight      *)
(* removes unselected entries and fails only when the selected ones do not *)
(* fit.  Then what it removed is never what a read gives up as lost.       *)
PressureIsHarmless ==
  io.cause = "lost" => storage[io.key] # "pressed"
=============================================================================
