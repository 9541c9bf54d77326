------------------------- MODULE ConcurrentIndexing -------------------------
(***************************************************************************)
(* Two `kide index` invocations on one workspace.                          *)
(*                                                                         *)
(* Nothing keeps a second invocation out: each opens the same database,    *)
(* and SQLite serialises single transactions only.  So the transactions of *)
(* the two runs interleave freely, and each run decides from what it read  *)
(* before the other wrote.                                                 *)
(***************************************************************************)
EXTENDS Naturals, FiniteSets

CONSTANTS Units, Contents, Configs, Refs, Api, Ids, Absent, None,
          ForceAllowed, RevertAllowed, EditsDuringRun, MaxEdits, MaxFailures

VARIABLES
    file, config, snapshots, manifest, catalog, inputs, checkpoint,
    runA, runB,               \* the two invocations
    edits, failures, pastFiles, pastConfigs, quiet

A == INSTANCE IndexPublication WITH run <- runA
B == INSTANCE IndexPublication WITH run <- runB

ASSUME ConstantsAssumption ==
    /\ Refs \in [Units -> SUBSET Units]
    /\ DOMAIN Api = Contents
    /\ DOMAIN Ids = Contents
    /\ Absent \notin Contents
    /\ None \notin Configs
    /\ None \notin A!Snapshot
    /\ None \notin A!Checkpoint
    /\ ForceAllowed \in BOOLEAN
    /\ RevertAllowed \in BOOLEAN
    /\ EditsDuringRun \in BOOLEAN
    /\ MaxEdits \in Nat
    /\ MaxFailures \in Nat

vars == <<file, config, snapshots, manifest, catalog, inputs, checkpoint,
          runA, runB, edits, failures, pastFiles, pastConfigs, quiet>>

BothIdle == A!At("idle") /\ B!At("idle")

StepA == A!RunStep /\ UNCHANGED runB

StepB == B!RunStep /\ UNCHANGED runA

Edit ==
    /\ EditsDuringRun \/ BothIdle
    /\ A!Edit
    /\ UNCHANGED runB

Init == A!Init /\ B!Init

Next == StepA \/ StepB \/ Edit

Spec == Init /\ [][Next]_vars

-----------------------------------------------------------------------------

\* Two overlapping runs on a workspace nobody edits leave nothing behind that
\* status would vouch for wrongly: once both have ended, at least one of them
\* complete and none failed or edited since, status answers fresh and every
\* stored row is recorded under the content on disk.
OverlappingRunsConverge ==
    BothIdle /\ quiet >= 1 =>
        /\ A!Freshness = "fresh"
        /\ \A u \in Units : snapshots[u] # None => A!Describes(u, file, manifest)
=============================================================================
