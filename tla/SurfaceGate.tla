----------------------------- MODULE SurfaceGate -----------------------------
(***************************************************************************)
(* The browser's render-surface gate (BrowserSurfaceInferenceGate in       *)
(* crates/bevy_image/src/boogu.rs).  The page renders and infers on one    *)
(* GPU queue, so every camera of the primary window is switched off before *)
(* a job is handed to the runtime and switched back when the runtime       *)
(* reports the job's terminal event.                                       *)
(*                                                                         *)
(* This module has the gate and the scene it acts on; the adapter decides  *)
(* when Suspend, Resume and Enforce happen.                                *)
(***************************************************************************)
EXTENDS Naturals, FiniteSets

CONSTANTS
  Cameras,           \* entities that may carry a primary-window camera
  Windows,           \* entities that may be the primary window
  NoWindow,          \* no unique primary window
  GateEnabled,       \* browser_surface_inference_gate_requested()
  MaxSceneChanges    \* bound: camera and window changes in a behaviour

ASSUME SceneAssumption ==
  /\ NoWindow \notin Windows
  /\ GateEnabled \in BOOLEAN
  /\ MaxSceneChanges \in Nat

VARIABLES
  gateJobs,      \* active_jobs
  saved,         \* saved_primary_window_camera_states
  gateWindow,    \* primary_window, as recorded at suspend
  violation,     \* violation.is_some()
  window,        \* the primary window now
  present,       \* cameras that target the primary window now
  lit,           \* Camera::is_active of each of them
  wanted,        \* is_active as the application created it (history)
  sceneChanges   \* scene changes so far (bound)

gateVars == <<gateJobs, saved, gateWindow, violation>>
sceneVars == <<window, present, wanted, sceneChanges>>
surfaceVars == <<gateVars, sceneVars, lit>>

(* Types: the gate's fields and the scene.                                 *)
GateTypeOK ==
  /\ DOMAIN saved \subseteq Cameras
  /\ \A c \in DOMAIN saved : saved[c] \in BOOLEAN
  /\ gateWindow \in Windows \cup {NoWindow}
  /\ window \in Windows \cup {NoWindow}
  /\ violation \in BOOLEAN
  /\ present \in SUBSET Cameras
  /\ lit \in [Cameras -> BOOLEAN]
  /\ wanted \in [Cameras -> BOOLEAN]
  /\ sceneChanges \in 0 .. MaxSceneChanges

Unsaved == [c \in {} |-> FALSE]

GateInit ==
  /\ gateJobs = {}
  /\ saved = Unsaved
  /\ gateWindow = NoWindow
  /\ violation = FALSE
  /\ window \in Windows
  /\ present \in SUBSET Cameras
  /\ lit \in [Cameras -> BOOLEAN]
  /\ \A c \in Cameras \ present : ~ lit[c]
  /\ wanted = lit
  /\ sceneChanges = 0

-----------------------------------------------------------------------------
(* A second request, a missing window or fewer than two cameras: suspend   *)
(* fails and its rollback leaves scene and gate as they were.              *)
SuspendRefused ==
  /\ GateEnabled
  /\ \/ gateJobs # {} \/ saved # Unsaved \/ gateWindow # NoWindow
     \/ window = NoWindow
     \/ Cardinality(present) < 2

(* Suspend followed by a submit the runtime accepts.  A refused submit     *)
(* restores the saved states at once, which is again no change.            *)
Suspend(id) ==
  IF ~ GateEnabled THEN UNCHANGED <<gateVars, lit>>
  ELSE /\ gateJobs' = gateJobs \cup {id}
       /\ saved' = [c \in present |-> lit[c]]
       /\ gateWindow' = window
       /\ violation' = FALSE
       /\ lit' = [c \in Cameras |-> IF c \in present THEN FALSE ELSE lit[c]]

(* Mutant: the state seen last is the one kept.                            *)
Captured_Last ==
  [c \in DOMAIN saved \cup present |-> IF c \in present THEN lit[c] ELSE saved[c]]

(* capture_and_deactivate_new_primary_window_cameras: the first state seen *)
(* of a camera is the one kept.                                            *)
Captured ==
  [c \in DOMAIN saved \cup present |-> IF c \in DOMAIN saved THEN saved[c] ELSE lit[c]]

AtResume == IF window = NoWindow THEN saved ELSE Captured

(* exact_saved_states_restored of the report of Resume                     *)
ExactlyRestored ==
  /\ ~ violation
  /\ window # NoWindow /\ window = gateWindow
  /\ Cardinality(present) >= 2
  /\ DOMAIN AtResume \subseteq present

(* With another job still gated nothing is restored and the overlap is     *)
(* recorded; a job that is not gated changes nothing.                      *)
Resume(id) ==
  IF id \notin gateJobs THEN UNCHANGED <<gateVars, lit>>
  ELSE IF gateJobs # {id}
  THEN /\ gateJobs' = gateJobs \ {id}
       /\ violation' = TRUE
       /\ UNCHANGED <<saved, gateWindow, lit>>
  ELSE /\ gateJobs' = {}
       /\ lit' = [c \in Cameras |-> IF c \in present \cap DOMAIN AtResume
                                    THEN AtResume[c] ELSE lit[c]]
       /\ saved' = Unsaved
       /\ gateWindow' = NoWindow
       /\ violation' = FALSE

(* Mutant: cameras created after the suspend are saved but stay active.    *)
Enforce_Watch ==
  IF gateJobs = {} \/ window = NoWindow THEN UNCHANGED <<gateVars, lit>>
  ELSE saved' = Captured /\ UNCHANGED <<gateJobs, gateWindow, violation, lit>>

(* enforce_browser_surface_inference_gate, in Last                         *)
Enforce ==
  IF gateJobs = {} THEN UNCHANGED <<gateVars, lit>>
  ELSE IF window = NoWindow
  THEN violation' = TRUE /\ UNCHANGED <<gateJobs, saved, gateWindow, lit>>
  ELSE /\ violation' = (violation \/ gateWindow # window \/ Cardinality(present) < 2)
       /\ saved' = Captured
       /\ lit' = [c \in Cameras |-> IF c \in present THEN FALSE ELSE lit[c]]
       /\ UNCHANGED <<gateJobs, gateWindow>>

-----------------------------------------------------------------------------
(* The scene changes under the gate.  Cameras target WindowRef::Primary,   *)
(* so they follow the primary window when it changes.                      *)
Changed == sceneChanges < MaxSceneChanges /\ sceneChanges' = sceneChanges + 1

(* A new camera is a new entity: it never has the name of a camera whose   *)
(* state the gate still keeps.                                             *)
SpawnCamera(c, on) ==
  /\ Changed
  /\ c \notin present \cup DOMAIN saved
  /\ present' = present \cup {c}
  /\ lit' = [lit EXCEPT ![c] = on]
  /\ wanted' = [wanted EXCEPT ![c] = on]
  /\ UNCHANGED <<gateVars, window>>

DespawnCamera(c) ==
  /\ Changed
  /\ c \in present
  /\ present' = present \ {c}
  /\ lit' = [lit EXCEPT ![c] = FALSE]
  /\ wanted' = [wanted EXCEPT ![c] = FALSE]
  /\ UNCHANGED <<gateVars, window>>

ChangeWindow(w) ==
  /\ Changed
  /\ window' = w /\ w # window
  /\ UNCHANGED <<gateVars, present, lit, wanted>>

SceneStep ==
  \/ \E c \in Cameras, on \in BOOLEAN : SpawnCamera(c, on)
  \/ \E c \in Cameras : DespawnCamera(c)
  \/ \E w \in Windows \cup {NoWindow} : ChangeWindow(w)
=============================================================================
