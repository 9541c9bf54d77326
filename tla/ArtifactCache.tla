---------------------------- MODULE ArtifactCache ----------------------------
(***************************************************************************)
(* The shared cache of dependency artifacts, for one blob key: kide        *)
(* processes of one or more workspaces that look the blob up, have a       *)
(* worker stage it, publish it by hard link and record a reference to it   *)
(* in their workspace's index.                                             *)
(*                                                                         *)
(* Keys name separate files, so nothing relates two of them.  A payload is *)
(* told apart by its length.  A process is named by its process ID, which  *)
(* is in use again once the process has ended.                             *)
(***************************************************************************)
EXTENDS Naturals

CONSTANTS
    Processes,      \* process IDs
    Workspaces,     \* each with an index of its own
    WorkspaceOf,    \* the workspace a process works in
    Payloads,       \* what workers may stage for the key
    Nothing,        \* no file, no reference
    MaxDamages      \* bound on damage from outside

\* sound: open_blob accepts its header and length.
File == [payload : Payloads, sound : BOOLEAN]

ASSUME CacheAssumption ==
    /\ WorkspaceOf \in [Processes -> Workspaces]
    /\ Nothing \notin Payloads \cup File
    /\ MaxDamages \in Nat

Places == {"idle", "check", "remove", "recheck", "reremove", "work", "publish",
           "write", "link", "unlink", "reopen", "record"}

VARIABLES
    blob,       \* the file under the key, or Nothing
    temp,       \* temp[p]: the temporary file named after process ID p
    ref,        \* ref[w]: the length recorded with workspace w's reference
    pc,         \* where a process is
    held,       \* the payload a process staged, then the length it opened
    dropping,   \* reconcile_artifact_blob_refs of w is to drop its reference
    damages,    \* history: times the blob was damaged from outside
    alone       \* history: nothing but process p has acted since it began

disk == <<blob, temp>>
vars == <<blob, temp, ref, pc, held, dropping, damages, alone>>

IsFile(f) == f # Nothing

\* open_blob: Ok(Some(_)).
Readable(f) == IsFile(f) /\ f.sound

\* open_blob: Err(InvalidHeader).
Invalid(f) == IsFile(f) /\ ~f.sound

\* A step of process p: what others began is no longer undisturbed.
Goto(p, place) ==
    /\ pc' = [pc EXCEPT ![p] = place]
    /\ alone' = [q \in Processes |-> alone[q] /\ q = p]

\* The operation ends, well or not.
End(p) ==
    /\ Goto(p, "idle")
    /\ held' = [held EXCEPT ![p] = Nothing]

-----------------------------------------------------------------------------
(* cache_hit_or_remove_invalid, once in cache_catalog_artifact_with_metrics  *)
(* and once more in materialize_artifact.                                    *)

\* materialize_catalog_artifact enters at the second lookup.
Begin(p) ==
    /\ pc[p] = "idle"
    /\ \E place \in {"check", "recheck"} : pc' = [pc EXCEPT ![p] = place]
    /\ alone' = [q \in Processes |-> q = p /\ ~IsFile(temp[p])
                                           /\ \A r \in Processes \ {p} : pc[r] = "idle"]
    /\ UNCHANGED <<disk, ref, held, dropping, damages>>

\* A hit ends the first lookup at once, with no reference recorded.
Hit(p) ==
    /\ pc[p] \in {"check", "recheck"}
    /\ Readable(blob)
    /\ IF pc[p] = "check" THEN End(p) ELSE Goto(p, "reopen") /\ UNCHANGED held
    /\ UNCHANGED <<disk, ref, dropping, damages>>

Miss(p) ==
    /\ pc[p] \in {"check", "recheck"}
    /\ blob = Nothing
    /\ Goto(p, IF pc[p] = "check" THEN "recheck" ELSE "work")
    /\ UNCHANGED <<disk, ref, held, dropping, damages>>

FindInvalid(p) ==
    /\ pc[p] \in {"check", "recheck"}
    /\ Invalid(blob)
    /\ Goto(p, IF pc[p] = "check" THEN "remove" ELSE "reremove")
    /\ UNCHANGED <<disk, ref, held, dropping, damages>>

\* Faulty variant of the next definition: the invalid blob stays.
KeepInvalid(p) ==
    /\ pc[p] \in {"remove", "reremove"}
    /\ Goto(p, IF pc[p] = "remove" THEN "recheck" ELSE "work")
    /\ UNCHANGED <<disk, ref, held, dropping, damages>>

\* remove_invalid: by name, whatever is there by now.
RemoveInvalid(p) ==
    /\ pc[p] \in {"remove", "reremove"}
    /\ blob' = Nothing
    /\ Goto(p, IF pc[p] = "remove" THEN "recheck" ELSE "work")
    /\ UNCHANGED <<temp, ref, held, dropping, damages>>

-----------------------------------------------------------------------------
(* materialize_artifact and publish_stream. *)

\* The worker answers, and its staged file has the length and checksum it told.
WorkerStages(p) ==
    /\ pc[p] = "work"
    /\ \E v \in Payloads : held' = [held EXCEPT ![p] = v]
    /\ Goto(p, "publish")
    /\ UNCHANGED <<disk, ref, dropping, damages>>

\* Ok(false): the destination exists.
AlreadyPublished(p) ==
    /\ pc[p] = "publish"
    /\ IsFile(blob)
    /\ Goto(p, "reopen")
    /\ UNCHANGED <<disk, ref, held, dropping, damages>>

\* Ok(false): a temporary of this process ID exists.
LeftoverTemporary(p) ==
    /\ pc[p] = "publish"
    /\ ~IsFile(blob) /\ IsFile(temp[p])
    /\ Goto(p, "reopen")
    /\ UNCHANGED <<disk, ref, held, dropping, damages>>

\* Faulty variant of the next definition: the blob is written in place.
CreateDestination(p) ==
    /\ pc[p] = "publish"
    /\ ~IsFile(blob) /\ ~IsFile(temp[p])
    /\ blob' = [payload |-> held[p], sound |-> FALSE]
    /\ temp' = [temp EXCEPT ![p] = [payload |-> held[p], sound |-> FALSE]]
    /\ Goto(p, "write")
    /\ UNCHANGED <<ref, held, dropping, damages>>

CreateTemporary(p) ==
    /\ pc[p] = "publish"
    /\ ~IsFile(blob) /\ ~IsFile(temp[p])
    /\ temp' = [temp EXCEPT ![p] = [payload |-> held[p], sound |-> FALSE]]
    /\ Goto(p, "write")
    /\ UNCHANGED <<blob, ref, held, dropping, damages>>

WriteTemporary(p) ==
    /\ pc[p] = "write"
    /\ temp' = [temp EXCEPT ![p] = [payload |-> held[p], sound |-> TRUE]]
    /\ Goto(p, "link")
    /\ UNCHANGED <<blob, ref, held, dropping, damages>>

\* Faulty variant of the next definition: a rename replaces.
RenameOver(f) == f

\* The destination after hard_link of f.
LinkOver(f) == IF IsFile(blob) THEN blob ELSE f

\* hard_link: atomic, and refused when another process was faster.
Link(p) ==
    /\ pc[p] = "link"
    /\ blob' = LinkOver(temp[p])
    /\ Goto(p, "unlink")
    /\ UNCHANGED <<temp, ref, held, dropping, damages>>

RemoveTemporary(p) ==
    /\ pc[p] = "unlink"
    /\ temp' = [temp EXCEPT ![p] = Nothing]
    /\ Goto(p, "reopen")
    /\ UNCHANGED <<blob, ref, held, dropping, damages>>

-----------------------------------------------------------------------------
(* record_artifact_blob, after the published blob was opened again. *)

\* Faulty variant of the next definition: the worker's length is trusted.
OpenStaged(p) ==
    /\ pc[p] = "reopen"
    /\ Readable(blob)
    /\ Goto(p, "record")
    /\ UNCHANGED <<disk, ref, held, dropping, damages>>

OpenPublished(p) ==
    /\ pc[p] = "reopen"
    /\ Readable(blob)
    /\ held' = [held EXCEPT ![p] = blob.payload]
    /\ Goto(p, "record")
    /\ UNCHANGED <<disk, ref, dropping, damages>>

\* InvalidStagedArtifact or InvalidHeader: the command fails.
FindUnpublished(p) ==
    /\ pc[p] = "reopen"
    /\ ~Readable(blob)
    /\ End(p)
    /\ UNCHANGED <<disk, ref, dropping, damages>>

Record(p) ==
    /\ pc[p] = "record"
    /\ ref' = [ref EXCEPT ![WorkspaceOf[p]] = held[p]]
    /\ End(p)
    /\ UNCHANGED <<disk, dropping, damages>>

\* The process fails or is killed; its temporary stays.
Fail(p) ==
    /\ pc[p] # "idle"
    /\ End(p)
    /\ UNCHANGED <<disk, ref, dropping, damages>>

Step(p) ==
    \/ Begin(p)
    \/ Hit(p)
    \/ Miss(p)
    \/ FindInvalid(p)
    \/ RemoveInvalid(p)
    \/ WorkerStages(p)
    \/ AlreadyPublished(p)
    \/ LeftoverTemporary(p)
    \/ CreateTemporary(p)
    \/ WriteTemporary(p)
    \/ Link(p)
    \/ RemoveTemporary(p)
    \/ OpenPublished(p)
    \/ FindUnpublished(p)
    \/ Record(p)
    \/ Fail(p)

-----------------------------------------------------------------------------
(* The rest of a workspace's references, and the world outside. *)

\* replace_artifact_descriptors: the dependency is no longer in the catalog.
LeaveCatalog(w) ==
    /\ ref[w] # Nothing
    /\ ref' = [ref EXCEPT ![w] = Nothing]
    /\ UNCHANGED <<disk, pc, held, dropping, damages, alone>>

\* reconcile_artifact_blob_refs: reads the references and opens the blobs ...
FindMissing(w) ==
    /\ ref[w] # Nothing /\ ~dropping[w]
    /\ ~Readable(blob)
    /\ dropping' = [dropping EXCEPT ![w] = TRUE]
    /\ UNCHANGED <<disk, ref, pc, held, damages, alone>>

\* ... and then deletes the references of those it could not open.
DropReference(w) ==
    /\ dropping[w]
    /\ dropping' = [dropping EXCEPT ![w] = FALSE]
    /\ ref' = [ref EXCEPT ![w] = Nothing]
    /\ UNCHANGED <<disk, pc, held, damages, alone>>

\* The cache directory is cleaned or the file damaged.
Damage ==
    /\ IsFile(blob)
    /\ damages < MaxDamages
    /\ damages' = damages + 1
    /\ blob' \in {Nothing, [blob EXCEPT !.sound = FALSE]}
    /\ alone' = [p \in Processes |-> FALSE]
    /\ UNCHANGED <<temp, ref, pc, held, dropping>>

Init ==
    /\ blob = Nothing
    /\ temp = [p \in Processes |-> Nothing]
    /\ ref = [w \in Workspaces |-> Nothing]
    /\ pc = [p \in Processes |-> "idle"]
    /\ held = [p \in Processes |-> Nothing]
    /\ dropping = [w \in Workspaces |-> FALSE]
    /\ damages = 0
    /\ alone = [p \in Processes |-> FALSE]

Next ==
    \/ \E p \in Processes : Step(p)
    \/ \E w \in Workspaces :
          \/ LeaveCatalog(w)
          \/ FindMissing(w)
          \/ DropReference(w)
    \/ Damage

Spec == Init /\ [][Next]_vars

-----------------------------------------------------------------------------
(* Properties. *)

\* Files, references and the processes' locals have their types, and nothing
\* is recorded without a length.
TypeOK ==
    /\ blob \in File \cup {Nothing}
    /\ temp \in [Processes -> File \cup {Nothing}]
    /\ ref \in [Workspaces -> Payloads \cup {Nothing}]
    /\ pc \in [Processes -> Places]
    /\ held \in [Processes -> Payloads \cup {Nothing}]
    /\ \A p \in Processes : pc[p] = "record" => held[p] # Nothing
    /\ dropping \in [Workspaces -> BOOLEAN]
    /\ damages \in 0..MaxDamages
    /\ alone \in [Processes -> BOOLEAN]

\* publish_stream: whoever fails, is killed or races, no reader finds a blob
\* half written; an invalid one was damaged from outside.
OnlyWholeBlobs == Invalid(blob) => damages > 0

\* A published blob is immutable: undamaged, it is never replaced or removed,
\* although every process removes by name and publishes what its own worker
\* staged.
BlobsAreImmutable ==
    [][damages' = 0 /\ IsFile(blob) => blob' = blob]_vars

\* Publication order: a reference is recorded after its blob is there, with the
\* length of the blob that won, so without damage it never dangles or lies.
ReferencesHold ==
    damages = 0 =>
        \A w \in Workspaces : ref[w] # Nothing => IsFile(blob) /\ ref[w] = blob.payload

\* "A missing/corrupt/truncated blob is a miss plus a safe rebuild": undisturbed,
\* materialization never ends without a readable blob, whatever earlier
\* processes left, except behind a leftover of its own process ID.
RebuildsAlone ==
    [][\A p \in Processes : alone[p] => ~FindUnpublished(p)]_vars

=============================================================================
