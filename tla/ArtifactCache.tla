---------------------------- MODULE ArtifactCache ----------------------------
(***************************************************************************)
(* One bundle in the native artifact cache, and the application processes  *)
(* that fill, repair and use it.  A pipeline bundle is kept by             *)
(* cache_remote_bundle, a component it depends on (Qwen, VAE) by           *)
(* FilesystemArtifactCache::ensure_dependency.  Both promise that the      *)
(* sealed manifest is the commit point of the cache.                       *)
(*                                                                         *)
(* Weights are direct files, or transport-backed: then the sidecar lists   *)
(* the parts that carry them and the logical weight file must be absent.   *)
(* A process reads, removes or renames one file per step, and may crash    *)
(* between any two.  Rename replaces its target, as on POSIX.  Temporary   *)
(* files have names of their own and are read by nobody.                   *)
(***************************************************************************)
EXTENDS Naturals

CONSTANTS
  Process,      \* application processes that share the cache directory
  Compact,      \* declared files other than the weight and the sidecar
  Parts,        \* the transport parts of the weight
  Sidecar,      \* the transport layout file
  Logical,      \* the weight file
  Manifest,     \* manifest.json
  NoFile,       \* no file
  MaxAttempts,  \* DOWNLOAD_ATTEMPTS
  Overlap       \* the flows in which several processes may run at once

ASSUME CacheAssumption ==
  /\ MaxAttempts \in Nat \ {0}
  /\ Overlap \subseteq {"pipeline", "dependency"}
  /\ Process # {}
  /\ Sidecar # Logical /\ Sidecar # Manifest /\ Logical # Manifest
  /\ NoFile \notin {Sidecar, Logical, Manifest}
  /\ {Sidecar, Logical, Manifest, NoFile} \cap (Compact \cup Parts) = {}
  /\ Compact \cap Parts = {}

VARIABLES
  flow,         \* which of the two functions keeps this bundle
  transported,  \* whether its manifest declares a transport layout
  disk,         \* what each file of the bundle's directory holds
  run           \* the processes

vars == <<flow, transported, disk, run>>

Name == Compact \cup Parts \cup {Sidecar, Logical, Manifest}
Ended == {"idle", "ok", "failed", "crashed"}
Both == {"open", "fetch manifest", "withdraw old", "drop old", "stale", "drop stale", "commit"}
PipelineOnly == {"layout", "fetch layout", "files", "withdraw", "repair"}
DependencyOnly == {"compact", "weights", "fetch file", "clear", "place", "seal", "reopen"}

(* The files its manifest declares, and the compact ones among them.       *)
Small == Compact \cup IF transported THEN {Sidecar} ELSE {}
Declared == Small \cup {Logical}

(* Every payload verified, in the one representation the reader accepts.   *)
Complete ==
  /\ \A f \in Small : disk[f] = "good"
  /\ IF transported THEN disk[Logical] = "absent" /\ \A q \in Parts : disk[q] = "good"
                    ELSE disk[Logical] = "good"

Fresh == [at |-> "open", file |-> NoFile, todo |-> {}, left |-> {}, tries |-> 1,
          commit |-> FALSE, sees |-> FALSE, cause |-> "none"]

(* The directory is as an earlier version, a crash, a full disk or a user  *)
(* left it.                                                                *)
Init ==
  /\ flow \in {"pipeline", "dependency"}
  /\ transported \in BOOLEAN
  /\ disk \in [Name -> {"absent", "bad", "good"}]
  /\ transported \/ \A f \in Parts \cup {Sidecar} : disk[f] = "absent"
  /\ run = [p \in Process |-> [Fresh EXCEPT !.at = "idle"]]

-----------------------------------------------------------------------------
(* Helpers                                                                 *)

At(p, label) == run[p].at = label
Go(p, label) == run' = [run EXCEPT ![p].at = label]
Fail(p, why) == run' = [run EXCEPT ![p].at = "failed", ![p].cause = why]
Holds(f) == disk[f] # "absent"
Put(f, what) == disk' = [disk EXCEPT ![f] = what]

(* A transfer that fails or whose bytes do not verify is tried again.      *)
Missed(p) ==
  IF run[p].tries < MaxAttempts
  THEN run' = [run EXCEPT ![p].tries = @ + 1]
  ELSE Fail(p, "network")

Static == UNCHANGED <<flow, transported>>

-----------------------------------------------------------------------------
(* Both flows: replace a manifest that is missing or not the sealed one    *)

(* A process is started, for the first time or after it has ended.         *)
Launch(p) ==
  /\ run[p].at \in Ended
  /\ flow \in Overlap \/ \A q \in Process \ {p} : run[q].at \in Ended
  /\ run' = [run EXCEPT ![p] = Fresh]
  /\ UNCHANGED disk

(* Bytes that are not the expected manifest end the run: only transport    *)
(* failures are tried again.                                               *)
FetchManifest(p) ==
  /\ At(p, "fetch manifest")
  /\ \/ run' = [run EXCEPT ![p].at = "withdraw old", ![p].tries = 1]
     \/ Fail(p, "network")
     \/ Missed(p)
  /\ UNCHANGED disk

Replacing(p) ==
  run' = [run EXCEPT ![p].at = IF flow = "pipeline" THEN "layout" ELSE "compact",
                     ![p].commit = TRUE, ![p].todo = Small]

(* Mutant: the old manifest is removed without asking whether there is one. *)
WithdrawOld_Blindly(p) ==
  /\ At(p, "withdraw old") /\ Go(p, "drop old") /\ UNCHANGED disk

WithdrawOld(p) ==
  /\ At(p, "withdraw old")
  /\ IF Holds(Manifest) THEN Go(p, "drop old") ELSE Replacing(p)
  /\ UNCHANGED disk

(* Another process may have removed it since.                              *)
DropOld(p) ==
  /\ At(p, "drop old")
  /\ IF Holds(Manifest) THEN Put(Manifest, "absent") /\ Replacing(p)
                        ELSE Fail(p, "raced") /\ UNCHANGED disk

(* remove_stale_(cached_)logical_weight.                                   *)
StaleGone(p) ==
  run' = [run EXCEPT ![p].at = IF flow = "pipeline" THEN "files" ELSE "commit",
                     ![p].todo = @ \ {Logical}]

(* Mutant: it is left in place.                                            *)
RemoveStale_Not(p) == At(p, "stale") /\ StaleGone(p) /\ UNCHANGED disk
RemoveStale(p) ==
  /\ At(p, "stale")
  /\ IF Holds(Logical) THEN Go(p, "drop stale") ELSE StaleGone(p)
  /\ UNCHANGED disk

DropStale(p) ==
  /\ At(p, "drop stale")
  /\ IF Holds(Logical) THEN Put(Logical, "absent") /\ StaleGone(p)
                       ELSE Fail(p, "raced") /\ UNCHANGED disk

-----------------------------------------------------------------------------
(* cache_remote_bundle                                                     *)

ReadManifest(p) ==
  /\ flow = "pipeline" /\ At(p, "open")
  /\ Go(p, IF disk[Manifest] = "good" THEN "layout" ELSE "fetch manifest")
  /\ UNCHANGED disk

(* The layout comes from the cached sidecar when that verifies, otherwise  *)
(* from the network into memory.                                           *)
Listed(p) == run' = [run EXCEPT ![p].at = "files", ![p].todo = Declared, ![p].tries = 1]

ResolveLayout(p) ==
  /\ At(p, "layout")
  /\ IF transported /\ disk[Sidecar] # "good" THEN Go(p, "fetch layout") ELSE Listed(p)
  /\ UNCHANGED disk

FetchLayout(p) ==
  /\ At(p, "fetch layout")
  /\ Listed(p) \/ Fail(p, "network") \/ Missed(p)
  /\ UNCHANGED disk

(* Mutant: parts that verify are enough, whatever else is there.           *)
Cached_PartsOnly(f) ==
  IF transported /\ f = Logical THEN \A q \in Parts : disk[q] = "good" ELSE disk[f] = "good"
Cached(f) ==
  IF transported /\ f = Logical
  THEN ~ Holds(Logical) /\ \A q \in Parts : disk[q] = "good"
  ELSE disk[f] = "good"

(* Files are checked in the manifest's order, which is any order.          *)
(* Mutant: a cache that lacks a file is repaired under its manifest.       *)
CheckFile_InPlace(p) ==
  /\ At(p, "files")
  /\ \E f \in run[p].todo :
       run' = IF Cached(f) THEN [run EXCEPT ![p].todo = @ \ {f}]
              ELSE [run EXCEPT ![p].file = f, ![p].left = Parts, ![p].at = "repair"]
  /\ UNCHANGED disk

CheckFile(p) ==
  /\ At(p, "files")
  /\ \E f \in run[p].todo :
       run' = IF Cached(f) THEN [run EXCEPT ![p].todo = @ \ {f}]
              ELSE [run EXCEPT ![p].file = f, ![p].left = Parts,
                               ![p].at = IF run[p].commit THEN "repair" ELSE "withdraw"]
  /\ UNCHANGED disk

(* The commit point goes before the first repair.                          *)
Withdraw(p) ==
  /\ At(p, "withdraw")
  /\ IF Holds(Manifest)
     THEN Put(Manifest, "absent") /\ run' = [run EXCEPT ![p].at = "repair", ![p].commit = TRUE]
     ELSE Fail(p, "raced") /\ UNCHANGED disk

Backed(p) == transported /\ run[p].file = Logical

RepairDirect(p) ==
  /\ At(p, "repair") /\ ~ Backed(p)
  /\ \/ /\ Put(run[p].file, "good")
        /\ run' = [run EXCEPT ![p].at = "files", ![p].todo = @ \ {run[p].file}, ![p].tries = 1]
     \/ Missed(p) /\ UNCHANGED disk

RepairPart(p) ==
  /\ At(p, "repair") /\ Backed(p)
  /\ \E q \in run[p].left :
       IF disk[q] = "good"
       THEN run' = [run EXCEPT ![p].left = @ \ {q}] /\ UNCHANGED disk
       ELSE \/ /\ Put(q, "good")
               /\ run' = [run EXCEPT ![p].left = @ \ {q}, ![p].tries = 1]
            \/ Missed(p) /\ UNCHANGED disk

PartsDone(p) ==
  /\ At(p, "repair") /\ Backed(p) /\ run[p].left = {}
  /\ Go(p, "stale")
  /\ UNCHANGED disk

FilesDone(p) ==
  /\ At(p, "files") /\ run[p].todo = {}
  /\ Go(p, IF run[p].commit THEN "commit" ELSE "ok")
  /\ UNCHANGED disk

CommitPipeline(p) ==
  /\ flow = "pipeline" /\ At(p, "commit")
  /\ Put(Manifest, "good") /\ Go(p, "ok")

-----------------------------------------------------------------------------
(* FilesystemArtifactCache::ensure_dependency.  Its fetches of files are   *)
(* not tried again, and it removes a file before it renames another to it. *)

OpenBundle(p) ==
  /\ flow = "dependency" /\ At(p, "open")
  /\ Go(p, IF disk[Manifest] = "good" /\ Complete THEN "ok" ELSE "fetch manifest")
  /\ UNCHANGED disk

(* install_file_if_missing, when the file is not there.                    *)
Fetching(p, f) == [run EXCEPT ![p].file = f, ![p].at = "fetch file"]

InstallCompact(p) ==
  /\ At(p, "compact")
  /\ \E f \in run[p].todo :
       run' = IF disk[f] = "good" THEN [run EXCEPT ![p].todo = @ \ {f}] ELSE Fetching(p, f)
  /\ UNCHANGED disk

(* The authenticated sidecar becomes the authority for the weights.        *)
SeeLayout(p) ==
  /\ At(p, "compact") /\ run[p].todo = {}
  /\ run' = [run EXCEPT ![p].at = "weights", ![p].left = Parts,
                        ![p].sees = transported /\ disk[Sidecar] = "good"]
  /\ UNCHANGED disk

InstallWeight(p) ==
  /\ At(p, "weights")
  /\ IF run[p].sees
     THEN \/ \E q \in run[p].left :
               run' = IF disk[q] = "good" THEN [run EXCEPT ![p].left = @ \ {q}] ELSE Fetching(p, q)
          \/ run[p].left = {} /\ Go(p, "stale")
     ELSE IF disk[Logical] = "good" THEN Go(p, "commit") ELSE run' = Fetching(p, Logical)
  /\ UNCHANGED disk

FetchFile(p) ==
  /\ At(p, "fetch file")
  /\ Go(p, "clear") \/ Fail(p, "network")
  /\ UNCHANGED disk

Clear(p) ==
  /\ At(p, "clear")
  /\ Put(run[p].file, "absent") /\ Go(p, "place")

Place(p) ==
  /\ At(p, "place")
  /\ Put(run[p].file, "good")
  /\ run' = [run EXCEPT ![p].todo = @ \ {run[p].file}, ![p].left = @ \ {run[p].file},
                        ![p].at = IF run[p].file = Logical THEN "commit"
                                  ELSE IF run[p].file \in Parts THEN "weights" ELSE "compact"]

(* install_bytes_atomically: again remove, then rename.                    *)
ClearManifest(p) ==
  /\ flow = "dependency" /\ At(p, "commit")
  /\ Put(Manifest, "absent") /\ Go(p, "seal")

Seal(p) ==
  /\ At(p, "seal")
  /\ Put(Manifest, "good") /\ Go(p, "reopen")

Reopen(p) ==
  /\ At(p, "reopen")
  /\ IF disk[Manifest] = "good" THEN Go(p, "ok") ELSE Fail(p, "raced")
  /\ UNCHANGED disk

-----------------------------------------------------------------------------
Crash(p) == run[p].at \notin Ended /\ Go(p, "crashed") /\ UNCHANGED disk

Work(p) ==
  /\ Static
  /\ \/ FetchManifest(p) \/ WithdrawOld(p) \/ DropOld(p) \/ RemoveStale(p) \/ DropStale(p)
     \/ ReadManifest(p) \/ ResolveLayout(p) \/ FetchLayout(p) \/ CheckFile(p) \/ Withdraw(p)
     \/ RepairDirect(p) \/ RepairPart(p) \/ PartsDone(p) \/ FilesDone(p) \/ CommitPipeline(p)
     \/ OpenBundle(p) \/ InstallCompact(p) \/ SeeLayout(p) \/ InstallWeight(p)
     \/ FetchFile(p) \/ Clear(p) \/ Place(p) \/ ClearManifest(p) \/ Seal(p) \/ Reopen(p)

Next == \E p \in Process : Work(p) \/ (Static /\ (Launch(p) \/ Crash(p)))
Spec == Init /\ [][Next]_vars

-----------------------------------------------------------------------------
(* Properties                                                              *)

(* Types: what the files and the processes may be.                         *)
TypeOK ==
  /\ flow \in {"pipeline", "dependency"} /\ transported \in BOOLEAN
  /\ disk \in [Name -> {"absent", "bad", "good"}]
  /\ run \in [Process ->
       [at : Ended \cup Both \cup PipelineOnly \cup DependencyOnly,
        file : Name \cup {NoFile}, todo : SUBSET Declared, left : SUBSET Parts,
        tries : 1..MaxAttempts, commit : BOOLEAN, sees : BOOLEAN,
        cause : {"none", "network", "raced"}]]

(* The manifest is installed last: whenever it appears, every payload it   *)
(* declares is there and verified, in one representation (cache.rs:66).    *)
SealedLast ==
  [][disk[Manifest] # "good" /\ disk'[Manifest] = "good" => Complete]_vars

(* Nothing is repaired under a manifest that others may rely on: while it  *)
(* is in place, no payload changes (cache.rs:111,                          *)
(* native_artifact_cache.rs:349).                                          *)
RepairedWithdrawn ==
  [][disk[Manifest] = "good" => \A f \in Name \ {Manifest} : disk'[f] = disk[f]]_vars

(* A run that reports success leaves verified payloads, whatever the other *)
(* processes have done and go on doing.                                    *)
OkMeansComplete == \A p \in Process : At(p, "ok") => Complete

(* Every directory can be repaired and a race has a winner: when all runs  *)
(* have ended and no transfer failed, the bundle is committed.             *)
RaceHasWinner ==
  (\A p \in Process : run[p].at \in {"ok", "failed"} /\ run[p].cause # "network")
    => disk[Manifest] = "good" /\ Complete
=============================================================================
