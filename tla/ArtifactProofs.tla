--------------------------- MODULE ArtifactProofs ---------------------------
(***************************************************************************)
(* Proofs about dependency artifacts.                                      *)
(*                                                                         *)
(* ArtifactCache, for any processes, workspaces, payloads and number of    *)
(* damages: TypeOK, OnlyWholeBlobs, ReferencesHold, BlobsAreImmutable and  *)
(* RebuildsAlone.  The inductive invariant adds to them what a process     *)
(* knows at its program point: what it is about to link is whole, what it  *)
(* is about to remove was damaged, what it is about to record is the       *)
(* blob's length.                                                          *)
(*                                                                         *)
(* DependencyQuery, for any graphs, catalogs, writers, capacity of a block *)
(* and number of faults: AnswersAreExact, and that each round of the loop  *)
(* that places the sections brings it nearer its end.  The invariant       *)
(* QueryInv says that each payload is made of sections that say what the   *)
(* graph says (SectionsGood, Faithful), and that the answers found so far, *)
(* with those still due of the artifact being read, are all that the       *)
(* artifacts opened so far owe the query.                                  *)
(***************************************************************************)
EXTENDS ArtifactCache, DependencyQuery, FiniteSetTheorems, SequenceTheorems,
        WellFoundedInduction, TLAPS

\* A temporary is complete, and the process's own, when it is linked.
LinksWholeFiles ==
    \A p \in Processes : pc[p] = "link" => temp[p] # Nothing /\ temp[p].sound

\* remove_invalid is only reached by a process that saw a damaged blob.
RemovesOnlyDamaged ==
    \A p \in Processes : pc[p] \in {"remove", "reremove"} => damages > 0

RecordsTheBlob ==
    damages = 0 =>
        \A p \in Processes : pc[p] = "record" => IsFile(blob) /\ held[p] = blob.payload

\* A process that publishes still holds what its worker staged.
HoldsItsPayload ==
    \A p \in Processes :
        pc[p] \in {"publish", "write", "link", "unlink"} => held[p] # Nothing

IInv ==
    /\ TypeOK
    /\ OnlyWholeBlobs
    /\ ReferencesHold
    /\ LinksWholeFiles
    /\ RemovesOnlyDamaged
    /\ RecordsTheBlob
    /\ HoldsItsPayload

-----------------------------------------------------------------------------

\* The cache starts empty, so every part of the invariant holds trivially.
LEMMA InitInvariant == Init => IInv
<1> USE DEF Init, IsFile, Invalid
<1> SUFFICES ASSUME Init PROVE IInv
  OBVIOUS
<1>1. TypeOK
  BY CacheAssumption DEF TypeOK, Places
<1>2. OnlyWholeBlobs /\ ReferencesHold /\ LinksWholeFiles
  BY DEF OnlyWholeBlobs, ReferencesHold, LinksWholeFiles
<1>3. RemovesOnlyDamaged /\ RecordsTheBlob /\ HoldsItsPayload
  BY DEF RemovesOnlyDamaged, RecordsTheBlob, HoldsItsPayload
<1> QED
  BY <1>1, <1>2, <1>3 DEF IInv

\* Every step keeps the types: what is published or recorded was staged or read.
LEMMA TypeStep ==
    ASSUME TypeOK, HoldsItsPayload, [Next]_vars
    PROVE  TypeOK'
<1> USE DEF TypeOK, HoldsItsPayload, File, Places, disk, IsFile, Readable, Invalid
<1>1. ASSUME NEW p \in Processes, Step(p)
      PROVE  TypeOK'
  <2>1. CASE Begin(p)
    BY <2>1 DEF Begin
  <2>2. CASE Hit(p)
    <3>1. \E place \in Places : Goto(p, place)
      BY <2>2 DEF Hit, End
    <3>2. alone' \in [Processes -> BOOLEAN] /\ pc' \in [Processes -> Places]
      BY <3>1 DEF Goto
    <3>3. held' \in [Processes -> Payloads \cup {Nothing}]
      BY <2>2 DEF Hit, Goto, End
    <3>4. \A q \in Processes : pc'[q] = "record" => held'[q] # Nothing
      BY <2>2 DEF Hit, Goto, End
    <3> QED
      BY <2>2, <3>2, <3>3, <3>4 DEF Hit
  <2>3. CASE Miss(p)
    BY <2>3 DEF Miss, Goto
  <2>4. CASE FindInvalid(p)
    BY <2>4 DEF FindInvalid, Goto
  <2>5. CASE RemoveInvalid(p)
    BY <2>5 DEF RemoveInvalid, Goto
  <2>6. CASE WorkerStages(p)
    BY <2>6 DEF WorkerStages, Goto
  <2>7. CASE AlreadyPublished(p)
    BY <2>7 DEF AlreadyPublished, Goto
  <2>8. CASE LeftoverTemporary(p)
    BY <2>8 DEF LeftoverTemporary, Goto
  <2>9. CASE CreateTemporary(p)
    BY <2>9 DEF CreateTemporary, Goto
  <2>10. CASE WriteTemporary(p)
    BY <2>10 DEF WriteTemporary, Goto
  <2>11. CASE Link(p)
    BY <2>11 DEF Link, Goto, LinkOver
  <2>12. CASE RemoveTemporary(p)
    BY <2>12 DEF RemoveTemporary, Goto
  <2>13. CASE OpenPublished(p)
    BY CacheAssumption, <2>13 DEF OpenPublished, Goto
  <2>14. CASE FindUnpublished(p)
    BY <2>14 DEF FindUnpublished, Goto, End
  <2>15. CASE Record(p)
    BY <2>15 DEF Record, Goto, End
  <2>16. CASE Fail(p)
    BY <2>16 DEF Fail, Goto, End
  <2> QED
    BY <1>1, <2>1, <2>2, <2>3, <2>4, <2>5, <2>6, <2>7, <2>8, <2>9, <2>10, <2>11, <2>12, <2>13, <2>14, <2>15, <2>16 DEF Step
<1>2. ASSUME NEW w \in Workspaces, LeaveCatalog(w) \/ FindMissing(w) \/ DropReference(w)
      PROVE  TypeOK'
  BY <1>2 DEF LeaveCatalog, FindMissing, DropReference
<1>3. CASE Damage
  <2>1. blob' \in File \cup {Nothing}
    BY <1>3 DEF Damage
  <2>2. damages' \in 0..MaxDamages
    BY CacheAssumption, <1>3 DEF Damage
  <2> QED
    BY <1>3, <2>1, <2>2 DEF Damage
<1>4. CASE UNCHANGED vars
  BY <1>4 DEF vars
<1> QED
  BY <1>1, <1>2, <1>3, <1>4 DEF Next

\* held is filled before a process publishes and cleared only when it ends.
LEMMA HoldsStep ==
    ASSUME TypeOK, HoldsItsPayload, [Next]_vars
    PROVE  HoldsItsPayload'
<1> USE DEF TypeOK, HoldsItsPayload, File, Places, disk, IsFile, Readable, Invalid
<1>1. ASSUME NEW p \in Processes, Step(p)
      PROVE  HoldsItsPayload'
  <2>1. CASE Begin(p)
    BY <2>1 DEF Begin
  <2>2. CASE Hit(p)
    BY <2>2 DEF Hit, Goto, End
  <2>3. CASE Miss(p)
    BY <2>3 DEF Miss, Goto
  <2>4. CASE FindInvalid(p)
    BY <2>4 DEF FindInvalid, Goto
  <2>5. CASE RemoveInvalid(p)
    BY <2>5 DEF RemoveInvalid, Goto
  <2>6. CASE WorkerStages(p)
    BY CacheAssumption, <2>6 DEF WorkerStages, Goto
  <2>7. CASE AlreadyPublished(p)
    BY <2>7 DEF AlreadyPublished, Goto
  <2>8. CASE LeftoverTemporary(p)
    BY <2>8 DEF LeftoverTemporary, Goto
  <2>9. CASE CreateTemporary(p)
    BY <2>9 DEF CreateTemporary, Goto
  <2>10. CASE WriteTemporary(p)
    BY <2>10 DEF WriteTemporary, Goto
  <2>11. CASE Link(p)
    BY <2>11 DEF Link, Goto, LinkOver
  <2>12. CASE RemoveTemporary(p)
    BY <2>12 DEF RemoveTemporary, Goto
  <2>13. CASE OpenPublished(p)
    BY <2>13 DEF OpenPublished, Goto
  <2>14. CASE FindUnpublished(p)
    BY <2>14 DEF FindUnpublished, Goto, End
  <2>15. CASE Record(p)
    BY <2>15 DEF Record, Goto, End
  <2>16. CASE Fail(p)
    BY <2>16 DEF Fail, Goto, End
  <2> QED
    BY <1>1, <2>1, <2>2, <2>3, <2>4, <2>5, <2>6, <2>7, <2>8, <2>9, <2>10, <2>11, <2>12, <2>13, <2>14, <2>15, <2>16 DEF Step
<1>2. ASSUME NEW w \in Workspaces, LeaveCatalog(w) \/ FindMissing(w) \/ DropReference(w)
      PROVE  HoldsItsPayload'
  BY <1>2 DEF LeaveCatalog, FindMissing, DropReference
<1>3. CASE Damage
  BY <1>3 DEF Damage
<1>4. CASE UNCHANGED vars
  BY <1>4 DEF vars
<1> QED
  BY <1>1, <1>2, <1>3, <1>4 DEF Next

\* A half-written file is only ever a temporary, and never the one that is linked.
LEMMA WholeStep ==
    ASSUME TypeOK, OnlyWholeBlobs, LinksWholeFiles, HoldsItsPayload, [Next]_vars
    PROVE  OnlyWholeBlobs' /\ LinksWholeFiles'
<1> USE DEF TypeOK, OnlyWholeBlobs, LinksWholeFiles, HoldsItsPayload, File, Places, disk, IsFile, Readable, Invalid
<1>1. ASSUME NEW p \in Processes, Step(p)
      PROVE  OnlyWholeBlobs' /\ LinksWholeFiles'
  <2>1. CASE Begin(p)
    BY <2>1 DEF Begin
  <2>2. CASE Hit(p)
    BY <2>2 DEF Hit, Goto, End
  <2>3. CASE Miss(p)
    BY <2>3 DEF Miss, Goto
  <2>4. CASE FindInvalid(p)
    BY <2>4 DEF FindInvalid, Goto
  <2>5. CASE RemoveInvalid(p)
    BY <2>5 DEF RemoveInvalid, Goto
  <2>6. CASE WorkerStages(p)
    BY <2>6 DEF WorkerStages, Goto
  <2>7. CASE AlreadyPublished(p)
    BY <2>7 DEF AlreadyPublished, Goto
  <2>8. CASE LeftoverTemporary(p)
    BY <2>8 DEF LeftoverTemporary, Goto
  <2>9. CASE CreateTemporary(p)
    BY <2>9 DEF CreateTemporary, Goto
  <2>10. CASE WriteTemporary(p)
    <3> DEFINE whole == [payload |-> held[p], sound |-> TRUE]
    <3>1. whole \in File /\ whole.sound
      BY <2>10 DEF WriteTemporary
    <3>2. whole # Nothing
      BY CacheAssumption, <3>1
    <3> QED
      BY <2>10, <3>1, <3>2 DEF WriteTemporary, Goto
  <2>11. CASE Link(p)
    BY <2>11 DEF Link, Goto, LinkOver
  <2>12. CASE RemoveTemporary(p)
    BY <2>12 DEF RemoveTemporary, Goto
  <2>13. CASE OpenPublished(p)
    BY <2>13 DEF OpenPublished, Goto
  <2>14. CASE FindUnpublished(p)
    BY <2>14 DEF FindUnpublished, Goto, End
  <2>15. CASE Record(p)
    BY <2>15 DEF Record, Goto, End
  <2>16. CASE Fail(p)
    BY <2>16 DEF Fail, Goto, End
  <2> QED
    BY <1>1, <2>1, <2>2, <2>3, <2>4, <2>5, <2>6, <2>7, <2>8, <2>9, <2>10, <2>11, <2>12, <2>13, <2>14, <2>15, <2>16 DEF Step
<1>2. ASSUME NEW w \in Workspaces, LeaveCatalog(w) \/ FindMissing(w) \/ DropReference(w)
      PROVE  OnlyWholeBlobs' /\ LinksWholeFiles'
  BY <1>2 DEF LeaveCatalog, FindMissing, DropReference
<1>3. CASE Damage
  BY <1>3 DEF Damage
<1>4. CASE UNCHANGED vars
  BY <1>4 DEF vars
<1> QED
  BY <1>1, <1>2, <1>3, <1>4 DEF Next

\* Only an invalid blob, hence a damaged one, sends a process to remove_invalid.
LEMMA RemoveStep ==
    ASSUME TypeOK, OnlyWholeBlobs, RemovesOnlyDamaged, [Next]_vars
    PROVE  RemovesOnlyDamaged'
<1> USE DEF TypeOK, OnlyWholeBlobs, RemovesOnlyDamaged, File, Places, disk, IsFile, Readable, Invalid
<1>1. ASSUME NEW p \in Processes, Step(p)
      PROVE  RemovesOnlyDamaged'
  <2>1. CASE Begin(p)
    BY <2>1 DEF Begin
  <2>2. CASE Hit(p)
    BY <2>2 DEF Hit, Goto, End
  <2>3. CASE Miss(p)
    BY <2>3 DEF Miss, Goto
  <2>4. CASE FindInvalid(p)
    BY <2>4 DEF FindInvalid, Goto
  <2>5. CASE RemoveInvalid(p)
    BY <2>5 DEF RemoveInvalid, Goto
  <2>6. CASE WorkerStages(p)
    BY <2>6 DEF WorkerStages, Goto
  <2>7. CASE AlreadyPublished(p)
    BY <2>7 DEF AlreadyPublished, Goto
  <2>8. CASE LeftoverTemporary(p)
    BY <2>8 DEF LeftoverTemporary, Goto
  <2>9. CASE CreateTemporary(p)
    BY <2>9 DEF CreateTemporary, Goto
  <2>10. CASE WriteTemporary(p)
    BY <2>10 DEF WriteTemporary, Goto
  <2>11. CASE Link(p)
    BY <2>11 DEF Link, Goto, LinkOver
  <2>12. CASE RemoveTemporary(p)
    BY <2>12 DEF RemoveTemporary, Goto
  <2>13. CASE OpenPublished(p)
    BY <2>13 DEF OpenPublished, Goto
  <2>14. CASE FindUnpublished(p)
    BY <2>14 DEF FindUnpublished, Goto, End
  <2>15. CASE Record(p)
    BY <2>15 DEF Record, Goto, End
  <2>16. CASE Fail(p)
    BY <2>16 DEF Fail, Goto, End
  <2> QED
    BY <1>1, <2>1, <2>2, <2>3, <2>4, <2>5, <2>6, <2>7, <2>8, <2>9, <2>10, <2>11, <2>12, <2>13, <2>14, <2>15, <2>16 DEF Step
<1>2. ASSUME NEW w \in Workspaces, LeaveCatalog(w) \/ FindMissing(w) \/ DropReference(w)
      PROVE  RemovesOnlyDamaged'
  BY <1>2 DEF LeaveCatalog, FindMissing, DropReference
<1>3. CASE Damage
  BY <1>3 DEF Damage
<1>4. CASE UNCHANGED vars
  BY <1>4 DEF vars
<1> QED
  BY <1>1, <1>2, <1>3, <1>4 DEF Next

\* Without damage the blob stays what it was when it was opened and recorded.
LEMMA ReferenceStep ==
    ASSUME TypeOK, OnlyWholeBlobs, RemovesOnlyDamaged, ReferencesHold, RecordsTheBlob, [Next]_vars
    PROVE  ReferencesHold' /\ RecordsTheBlob'
<1> USE DEF TypeOK, OnlyWholeBlobs, RemovesOnlyDamaged, ReferencesHold, RecordsTheBlob, File, Places, disk, IsFile, Readable, Invalid
<1>1. ASSUME NEW p \in Processes, Step(p)
      PROVE  ReferencesHold' /\ RecordsTheBlob'
  <2>1. CASE Begin(p)
    BY <2>1 DEF Begin
  <2>2. CASE Hit(p)
    BY <2>2 DEF Hit, Goto, End
  <2>3. CASE Miss(p)
    BY <2>3 DEF Miss, Goto
  <2>4. CASE FindInvalid(p)
    BY <2>4 DEF FindInvalid, Goto
  <2>5. CASE RemoveInvalid(p)
    BY <2>5 DEF RemoveInvalid, Goto
  <2>6. CASE WorkerStages(p)
    BY <2>6 DEF WorkerStages, Goto
  <2>7. CASE AlreadyPublished(p)
    BY <2>7 DEF AlreadyPublished, Goto
  <2>8. CASE LeftoverTemporary(p)
    BY <2>8 DEF LeftoverTemporary, Goto
  <2>9. CASE CreateTemporary(p)
    BY <2>9 DEF CreateTemporary, Goto
  <2>10. CASE WriteTemporary(p)
    BY <2>10 DEF WriteTemporary, Goto
  <2>11. CASE Link(p)
    BY <2>11 DEF Link, Goto, LinkOver
  <2>12. CASE RemoveTemporary(p)
    BY <2>12 DEF RemoveTemporary, Goto
  <2>13. CASE OpenPublished(p)
    BY <2>13 DEF OpenPublished, Goto
  <2>14. CASE FindUnpublished(p)
    BY <2>14 DEF FindUnpublished, Goto, End
  <2>15. CASE Record(p)
    BY <2>15 DEF Record, Goto, End
  <2>16. CASE Fail(p)
    BY <2>16 DEF Fail, Goto, End
  <2> QED
    BY <1>1, <2>1, <2>2, <2>3, <2>4, <2>5, <2>6, <2>7, <2>8, <2>9, <2>10, <2>11, <2>12, <2>13, <2>14, <2>15, <2>16 DEF Step
<1>2. ASSUME NEW w \in Workspaces, LeaveCatalog(w) \/ FindMissing(w) \/ DropReference(w)
      PROVE  ReferencesHold' /\ RecordsTheBlob'
  BY <1>2 DEF LeaveCatalog, FindMissing, DropReference
<1>3. CASE Damage
  BY <1>3 DEF Damage
<1>4. CASE UNCHANGED vars
  BY <1>4 DEF vars
<1> QED
  BY <1>1, <1>2, <1>3, <1>4 DEF Next

\* Without damage no step removes or replaces the blob.
LEMMA BlobStep ==
    ASSUME TypeOK, OnlyWholeBlobs, RemovesOnlyDamaged, [Next]_vars
    PROVE  damages' = 0 /\ IsFile(blob) => blob' = blob
<1> USE DEF TypeOK, OnlyWholeBlobs, RemovesOnlyDamaged, File, Places, disk, IsFile, Readable, Invalid
<1>1. ASSUME NEW p \in Processes, Step(p)
      PROVE  damages' = 0 /\ IsFile(blob) => blob' = blob
  <2>1. CASE Begin(p)
    BY <2>1 DEF Begin
  <2>2. CASE Hit(p)
    BY <2>2 DEF Hit, Goto, End
  <2>3. CASE Miss(p)
    BY <2>3 DEF Miss, Goto
  <2>4. CASE FindInvalid(p)
    BY <2>4 DEF FindInvalid, Goto
  <2>5. CASE RemoveInvalid(p)
    BY <2>5 DEF RemoveInvalid, Goto
  <2>6. CASE WorkerStages(p)
    BY <2>6 DEF WorkerStages, Goto
  <2>7. CASE AlreadyPublished(p)
    BY <2>7 DEF AlreadyPublished, Goto
  <2>8. CASE LeftoverTemporary(p)
    BY <2>8 DEF LeftoverTemporary, Goto
  <2>9. CASE CreateTemporary(p)
    BY <2>9 DEF CreateTemporary, Goto
  <2>10. CASE WriteTemporary(p)
    BY <2>10 DEF WriteTemporary, Goto
  <2>11. CASE Link(p)
    BY <2>11 DEF Link, Goto, LinkOver
  <2>12. CASE RemoveTemporary(p)
    BY <2>12 DEF RemoveTemporary, Goto
  <2>13. CASE OpenPublished(p)
    BY <2>13 DEF OpenPublished, Goto
  <2>14. CASE FindUnpublished(p)
    BY <2>14 DEF FindUnpublished, Goto, End
  <2>15. CASE Record(p)
    BY <2>15 DEF Record, Goto, End
  <2>16. CASE Fail(p)
    BY <2>16 DEF Fail, Goto, End
  <2> QED
    BY <1>1, <2>1, <2>2, <2>3, <2>4, <2>5, <2>6, <2>7, <2>8, <2>9, <2>10, <2>11, <2>12, <2>13, <2>14, <2>15, <2>16 DEF Step
<1>2. ASSUME NEW w \in Workspaces, LeaveCatalog(w) \/ FindMissing(w) \/ DropReference(w)
      PROVE  damages' = 0 /\ IsFile(blob) => blob' = blob
  BY <1>2 DEF LeaveCatalog, FindMissing, DropReference
<1>3. CASE Damage
  BY <1>3 DEF Damage
<1>4. CASE UNCHANGED vars
  BY <1>4 DEF vars
<1> QED
  BY <1>1, <1>2, <1>3, <1>4 DEF Next

\* The invariant is inductive.
LEMMA Invariance == Spec => []IInv
<1>1. IInv /\ [Next]_vars => IInv'
  BY TypeStep, HoldsStep, WholeStep, RemoveStep, ReferenceStep DEF IInv
<1> QED
  BY InitInvariant, <1>1, PTL DEF Spec

-----------------------------------------------------------------------------

\* TypeOK, for any number of processes, workspaces and payloads: every length
\* that record_artifact_blob stores was read from an opened blob.
THEOREM TypeCorrect == Spec => []TypeOK
<1>1. IInv => TypeOK
  BY DEF IInv
<1> QED
  BY Invariance, <1>1, PTL

\* publish_stream never exposes a half-written blob, whatever processes race,
\* fail or are killed.
THEOREM OnlyWholeBlobsHolds == Spec => []OnlyWholeBlobs
<1>1. IInv => OnlyWholeBlobs
  BY DEF IInv
<1> QED
  BY Invariance, <1>1, PTL

\* Without damage a reference in any index names a readable blob of the
\* recorded length.
THEOREM ReferencesAlwaysHold == Spec => []ReferencesHold
<1>1. IInv => ReferencesHold
  BY DEF IInv
<1> QED
  BY Invariance, <1>1, PTL

\* Without damage a published blob is never removed or replaced.
THEOREM PublishedOnce == Spec => BlobsAreImmutable
<1>1. IInv /\ [Next]_vars => [damages' = 0 /\ IsFile(blob) => blob' = blob]_vars
  BY BlobStep DEF IInv
<1> QED
  BY Invariance, <1>1, PTL DEF Spec, BlobsAreImmutable

-----------------------------------------------------------------------------

\* What a process that nothing else interfered with knows of the files: it works only
\* after a miss, has no leftover in its way, and ends with a whole blob.
KnowsTheFiles(p) ==
    /\ pc[p] \in {"work", "publish", "write", "link"} => blob = Nothing
    /\ pc[p] \in {"check", "recheck", "remove", "reremove", "work", "publish"} =>
          temp[p] = Nothing
    /\ pc[p] = "link" => temp[p] # Nothing /\ temp[p].sound
    /\ pc[p] \in {"unlink", "reopen"} => Readable(blob)

Undisturbed == \A p \in Processes : alone[p] => KnowsTheFiles(p)

\* A step of one process leaves at most this one undisturbed.
LEMMA UndisturbedStep ==
    ASSUME IInv, Undisturbed, [Next]_vars
    PROVE  Undisturbed'
<1> USE DEF disk, IsFile, Readable, Invalid
<1>1. ASSUME NEW p \in Processes, Step(p)
      PROVE  Undisturbed'
  <2>1. /\ pc' \in [Processes -> Places] /\ pc \in [Processes -> Places]
        /\ temp \in [Processes -> File \cup {Nothing}]
    BY <1>1, TypeStep DEF IInv, TypeOK, Next
  <2>2. \A q \in Processes : alone'[q] => q = p /\ (alone[p] \/ Begin(p))
    BY <1>1 DEF Step, Begin, Hit, Miss, FindInvalid, RemoveInvalid, WorkerStages,
       AlreadyPublished, LeftoverTemporary, CreateTemporary, WriteTemporary, Link,
       RemoveTemporary, OpenPublished, FindUnpublished, Record, Fail, Goto, End
  <2>3. SUFFICES ASSUME alone'[p] PROVE KnowsTheFiles(p)'
    BY <2>2 DEF Undisturbed
  <2>4. KnowsTheFiles(p) \/ Begin(p)
    BY <2>2, <2>3 DEF Undisturbed
  <2> USE <2>1, <2>4 DEF KnowsTheFiles
  <2>5. CASE Begin(p)
    BY <2>3, <2>5 DEF Begin
  <2>6. CASE Hit(p)
    BY <2>6 DEF Hit, Begin, Goto, End
  <2>7. CASE Miss(p)
    BY <2>7 DEF Miss, Begin, Goto
  <2>8. CASE FindInvalid(p)
    BY <2>8 DEF FindInvalid, Begin, Goto
  <2>9. CASE RemoveInvalid(p)
    BY <2>9 DEF RemoveInvalid, Begin, Goto
  <2>10. CASE WorkerStages(p)
    BY <2>10 DEF WorkerStages, Begin, Goto
  <2>11. CASE AlreadyPublished(p)
    BY <2>11 DEF AlreadyPublished, Begin, Goto
  <2>12. CASE LeftoverTemporary(p)
    BY <2>12 DEF LeftoverTemporary, Begin, Goto
  <2>13. CASE CreateTemporary(p)
    BY <2>13 DEF CreateTemporary, Begin, Goto
  <2>14. CASE WriteTemporary(p)
    <3>1. temp'[p] = [payload |-> held[p], sound |-> TRUE] /\ temp'[p] \in File
      BY <2>14 DEF WriteTemporary, IInv, TypeOK, HoldsItsPayload, File
    <3>2. temp'[p] # Nothing
      BY <3>1, CacheAssumption
    <3> QED
      BY <2>14, <3>1, <3>2 DEF WriteTemporary, Begin, Goto
  <2>15. CASE Link(p)
    BY <2>15 DEF Link, LinkOver, Begin, Goto
  <2>16. CASE RemoveTemporary(p)
    BY <2>16 DEF RemoveTemporary, Begin, Goto
  <2>17. CASE OpenPublished(p) \/ FindUnpublished(p) \/ Record(p) \/ Fail(p)
    BY <2>17 DEF OpenPublished, FindUnpublished, Record, Fail, Begin, Goto, End
  <2> QED
    BY <1>1, <2>5, <2>6, <2>7, <2>8, <2>9, <2>10, <2>11, <2>12, <2>13, <2>14, <2>15, <2>16,
       <2>17 DEF Step
<1>2. ASSUME NEW w \in Workspaces, LeaveCatalog(w) \/ FindMissing(w) \/ DropReference(w)
      PROVE  Undisturbed'
  BY <1>2 DEF LeaveCatalog, FindMissing, DropReference, Undisturbed, KnowsTheFiles
<1>3. CASE Damage
  BY <1>3 DEF Damage, Undisturbed
<1>4. CASE UNCHANGED vars
  BY <1>4 DEF vars, Undisturbed, KnowsTheFiles
<1> QED
  BY <1>1, <1>2, <1>3, <1>4 DEF Next

\* dependency-artifact-cache-v1: a blob that is missing or damaged is a miss and a
\* rebuild. A process that nothing interferes with never fails to open what it
\* published, whatever blob it found and whatever other processes left, unless a
\* temporary of its own ID was in its way.
THEOREM RebuildsAloneHolds == Spec => RebuildsAlone
<1>1. Init => Undisturbed
  BY DEF Init, Undisturbed
<1>2. IInv /\ Undisturbed /\ [Next]_vars => Undisturbed'
  BY UndisturbedStep
<1>3. Undisturbed => \A p \in Processes : alone[p] => ~FindUnpublished(p)
  BY DEF Undisturbed, KnowsTheFiles, FindUnpublished
<1>4. Undisturbed /\ [Next]_vars
        => [\A p \in Processes : alone[p] => ~FindUnpublished(p)]_vars
  BY <1>3
<1> QED
  BY Invariance, <1>1, <1>2, <1>4, PTL DEF Spec, RebuildsAlone

-----------------------------------------------------------------------------
(* DependencyQuery.  First induction and recursion over the naturals: a set *)
(* that has 0 and with a number the next one has them all, and a step that  *)
(* stays in S can be taken as often as one likes.                           *)

LEMMA Induction ==
    ASSUME NEW T, 0 \in T, \A k \in Nat : k \in T => k + 1 \in T
    PROVE  \A k \in Nat : k \in T
<1> SUFFICES ASSUME ~(Nat \subseteq T) PROVE FALSE
  OBVIOUS
<1> DEFINE bad == Nat \ T
<1>1. bad \subseteq Nat /\ bad # {}
  OBVIOUS
<1>2. PICK least \in bad : \A h \in bad : <<h, least>> \notin OpToRel(<, Nat)
  <2> HIDE DEF bad
  <2> QED
    BY <1>1, NatLessThanWellFounded, WFMin
<1>3. least - 1 \in Nat /\ least - 1 < least
  OBVIOUS
<1>4. least - 1 \notin bad
  BY <1>2, <1>3 DEF OpToRel
<1> QED
  BY <1>3, <1>4

LEMMA MinIsLeast ==
    ASSUME NEW S, S \subseteq Nat, S # {}
    PROVE  Min(S) \in S /\ \A n \in S : Min(S) <= n
<1>1. PICK least \in S : \A n \in S : <<n, least>> \notin OpToRel(<, Nat)
  BY NatLessThanWellFounded, WFMin
<1>2. \A n \in S : least <= n
  <2> SUFFICES ASSUME NEW n \in S PROVE least <= n
    OBVIOUS
  <2>1. ~(n < least)
    BY <1>1 DEF OpToRel
  <2> QED
    BY <2>1
<1> QED
  BY <1>2 DEF Min

\* step[<<i, x>>]: what comes after x in round i.
Iterates(g, n, base, step) == g[0] = base /\ \A i \in 1 .. n : g[i] = step[<<i, g[i - 1]>>]

LEMMA Recursion ==
    ASSUME NEW S, NEW n \in Nat, NEW base \in S, NEW step \in [(1 .. n) \X S -> S]
    PROVE  \E g \in [0 .. n -> S] : Iterates(g, n, base, step)
<1> DEFINE Upto(m, g) == Iterates(g, m, base, step)
           T == {m \in Nat : m <= n => \E g \in [0 .. m -> S] : Upto(m, g)}
<1>1. 0 \in T
  <2>1. Upto(0, [i \in 0 .. 0 |-> base])
    BY DEF Iterates
  <2> QED
    BY <2>1
<1>2. ASSUME NEW m \in Nat, m \in T, m + 1 <= n PROVE \E g \in [0 .. m + 1 -> S] : Upto(m + 1, g)
  <2>1. PICK g \in [0 .. m -> S] : Upto(m, g)
    BY <1>2
  <2> DEFINE h == [i \in 0 .. m + 1 |-> IF i = m + 1 THEN step[<<m + 1, g[m]>>] ELSE g[i]]
  <2>2. step[<<m + 1, g[m]>>] \in S
    BY <1>2
  <2>3. h \in [0 .. m + 1 -> S] /\ h[0] = base
    BY <2>1, <2>2 DEF Iterates
  <2>4. ASSUME NEW i \in 1 .. m + 1 PROVE h[i] = step[<<i, h[i - 1]>>]
    <3>1. CASE i = m + 1
      <4>1. h[i] = step[<<m + 1, g[m]>>]
        BY <3>1
      <4>2. h[m] = g[m] /\ i - 1 = m
        BY <3>1
      <4> HIDE DEF h
      <4> QED
        BY <3>1, <4>1, <4>2
    <3>2. CASE i \in 1 .. m
      <4>1. h[i] = g[i]
        BY <3>2
      <4>2. h[i - 1] = g[i - 1]
        BY <3>2
      <4>3. g[i] = step[<<i, g[i - 1]>>]
        BY <2>1, <3>2 DEF Iterates
      <4> HIDE DEF h
      <4> QED
        BY <4>1, <4>2, <4>3
    <3> QED
      BY <3>1, <3>2
  <2> HIDE DEF h
  <2> QED
    BY <2>3, <2>4 DEF Iterates
<1>3. n \in T
  <2>1. \A m \in Nat : m \in T => m + 1 \in T
    BY <1>2
  <2> HIDE DEF T
  <2> QED
    BY <1>1, <2>1, Induction
<1> QED
  BY <1>3

-----------------------------------------------------------------------------
(* FlattenSeq, by its last element; from that, where everything is.         *)

\* The function that FlattenSeq is defined by, for a sequence of n sequences.
Flattens(f, n, ss) ==
    f = [i \in 1 .. n |-> IF i = 1 THEN ss[i] ELSE f[i - 1] \o ss[i]]

LEMMA FlattensRound ==
    ASSUME NEW f, NEW n \in Nat, NEW ss, Flattens(f, n, ss)
    PROVE  \A i \in 1 .. n : f[i] = IF i = 1 THEN ss[i] ELSE f[i - 1] \o ss[i]
<1> TAKE i \in 1 .. n
<1>1. f[i] = [j \in 1 .. n |-> IF j = 1 THEN ss[j] ELSE f[j - 1] \o ss[j]][i]
  BY DEF Flattens
<1> DEFINE g(j) == IF j = 1 THEN ss[j] ELSE f[j - 1] \o ss[j]
<1>2. f[i] = [j \in 1 .. n |-> g(j)][i]
  BY <1>1
<1> HIDE DEF g
<1>3. f[i] = g(i)
  BY <1>2
<1> QED
  BY <1>3 DEF g

\* What FlattenSeq needs to know of the sequences it joins.
Concatenates(Q) ==
    /\ << >> \in Q
    /\ \A q, r \in Q : q \o r \in Q
    /\ \A q \in Q : << >> \o q = q

LEMMA FlattensExists ==
    ASSUME NEW Q, Concatenates(Q), NEW n \in Nat, NEW ss \in [1 .. n -> Q]
    PROVE  \E f \in [1 .. n -> Q] : Flattens(f, n, ss)
<1> DEFINE step == [p \in (1 .. n) \X Q |-> p[2] \o ss[p[1]]]
<1>1. step \in [(1 .. n) \X Q -> Q]
  BY DEF Concatenates
<1> HIDE DEF step
<1>2. PICK g \in [0 .. n -> Q] : Iterates(g, n, << >>, step)
  <2>1. << >> \in Q
    BY DEF Concatenates
  <2> QED
    BY <1>1, <2>1, Recursion
<1>3. ASSUME NEW i \in 1 .. n PROVE g[i] = g[i - 1] \o ss[i]
  <2>1. <<i, g[i - 1]>> \in (1 .. n) \X Q
    OBVIOUS
  <2>2. step[<<i, g[i - 1]>>] = g[i - 1] \o ss[i]
    BY <2>1 DEF step
  <2> QED
    BY <1>2, <2>2 DEF Iterates
<1> DEFINE f == [i \in 1 .. n |-> g[i]]
<1>4. f \in [1 .. n -> Q]
  OBVIOUS
<1>5. ASSUME NEW i \in 1 .. n PROVE f[i] = IF i = 1 THEN ss[i] ELSE f[i - 1] \o ss[i]
  <2>1. f[i] = g[i - 1] \o ss[i]
    BY <1>3
  <2>2. CASE i = 1
    <3>1. g[i - 1] = << >> /\ ss[i] \in Q
      BY <1>2, <2>2 DEF Iterates
    <3> QED
      BY <2>1, <2>2, <3>1 DEF Concatenates
  <2>3. CASE i # 1
    <3>1. i - 1 \in 1 .. n
      BY <2>3
    <3> QED
      BY <2>1, <2>3, <3>1
  <2> QED
    BY <2>2, <2>3
<1> HIDE DEF f
<1>6. f = [i \in 1 .. n |-> IF i = 1 THEN ss[i] ELSE f[i - 1] \o ss[i]]
  BY <1>4, <1>5
<1> QED
  BY <1>4, <1>6 DEF Flattens

Agree(f, g, m) == \A i \in 1 .. m : f[i] = g[i]

LEMMA FlattensUnique ==
    ASSUME NEW l \in Nat, NEW n \in Nat, NEW ss, NEW tt, NEW f, NEW g,
           Flattens(f, l, ss), Flattens(g, n, tt),
           NEW m \in Nat, m <= l, m <= n, Agree(ss, tt, m)
    PROVE  Agree(f, g, m)
<1> DEFINE T == {i \in Nat : i \in 1 .. m => f[i] = g[i]}
<1>1. 0 \in T
  OBVIOUS
<1>5. \A i \in 1 .. l : f[i] = IF i = 1 THEN ss[i] ELSE f[i - 1] \o ss[i]
  BY FlattensRound
<1>6. \A i \in 1 .. n : g[i] = IF i = 1 THEN tt[i] ELSE g[i - 1] \o tt[i]
  BY FlattensRound
<1>2. ASSUME NEW k \in Nat, k \in T, k + 1 \in 1 .. m PROVE f[k + 1] = g[k + 1]
  <2> DEFINE i == k + 1
  <2>1. i \in 1 .. l /\ i \in 1 .. n /\ i \in 1 .. m /\ i - 1 = k
    BY <1>2
  <2>2. i # 1 => f[k] = g[k]
    BY <1>2
  <2>3. ss[i] = tt[i]
    BY <1>2 DEF Agree
  <2> HIDE DEF i
  <2>4. f[i] = IF i = 1 THEN ss[i] ELSE f[i - 1] \o ss[i]
    BY <2>1, <1>5
  <2>5. g[i] = IF i = 1 THEN tt[i] ELSE g[i - 1] \o tt[i]
    BY <2>1, <1>6
  <2>6. f[i] = g[i]
    BY <2>1, <2>2, <2>3, <2>4, <2>5
  <2> QED
    BY <2>6 DEF i
<1>3. \A k \in Nat : k \in T => k + 1 \in T
  BY <1>2
<1>4. \A k \in Nat : k \in T
  <2> HIDE DEF T
  <2> QED
    BY <1>1, <1>3, Induction
<1> QED
  BY <1>4 DEF Agree

LEMMA SeqConcatenates == ASSUME NEW S PROVE Concatenates(Seq(S))
<1>1. \A q, r \in Seq(S) : q \o r \in Seq(S)
  BY ConcatProperties
<1>2. \A q \in Seq(S) : << >> \o q = q
  BY ConcatEmptySeq
<1> QED
  BY <1>1, <1>2, EmptySeq DEF Concatenates

LEMMA FunctionIsSeq ==
    ASSUME NEW X, NEW n \in Nat, NEW f \in [1 .. n -> X]
    PROVE  f \in Seq(X)
BY SeqDef

LEMMA SeqIsFunction ==
    ASSUME NEW Q, NEW ss \in Seq(Q)
    PROVE  Len(ss) \in Nat /\ ss \in [1 .. Len(ss) -> Q] /\ DOMAIN ss = 1 .. Len(ss)
BY LenProperties

\* Front(ss): all but the last.
LEMMA FrontIsSeq ==
    ASSUME NEW Q, NEW ss \in Seq(Q), NEW n \in 0 .. Len(ss)
    PROVE  /\ SubSeq(ss, 1, n) \in Seq(Q)
           /\ Len(SubSeq(ss, 1, n)) = n
           /\ \A i \in 1 .. n : SubSeq(ss, 1, n)[i] = ss[i]
<1>1. Len(ss) \in Nat /\ n \in Int /\ 1 \in Int
  BY SeqIsFunction
<1>2. \A i \in 1 .. n : ss[i] \in Q
  BY <1>1, ElementOfSeq
<1>3. /\ SubSeq(ss, 1, n) \in Seq(Q)
      /\ Len(SubSeq(ss, 1, n)) = IF 1 <= n THEN n - 1 + 1 ELSE 0
      /\ \A i \in 1 .. n - 1 + 1 : SubSeq(ss, 1, n)[i] = ss[1 + i - 1]
  BY <1>1, <1>2, SubSeqProperties
<1> QED
  BY <1>1, <1>3

\* A sequence flattened is its front flattened, then its last element.
LEMMA FlattenCases ==
    ASSUME NEW Q, Concatenates(Q), NEW ss \in Seq(Q)
    PROVE  /\ Len(ss) = 0 => FlattenSeq(ss) = << >>
           /\ FlattenSeq(ss) \in Q
           /\ Len(ss) # 0 => FlattenSeq(ss) =
                                FlattenSeq(SubSeq(ss, 1, Len(ss) - 1)) \o ss[Len(ss)]
<1> DEFINE chosen(n, tt) == CHOOSE f : Flattens(f, n, tt)
<1>1. ASSUME NEW tt \in Seq(Q)
      PROVE  /\ Flattens(chosen(Len(tt), tt), Len(tt), tt)
             /\ Len(tt) # 0 => FlattenSeq(tt) = chosen(Len(tt), tt)[Len(tt)]
  <2>1. Flattens(chosen(Len(tt), tt), Len(tt), tt)
    <3>1. \E f : Flattens(f, Len(tt), tt)
      BY SeqIsFunction, FlattensExists
    <3> QED
      BY <3>1
  <2>2. Len(tt) # 0 => FlattenSeq(tt) = chosen(Len(tt), tt)[Len(tt)]
    BY DEF FlattenSeq, Flattens
  <2> QED
    BY <2>1, <2>2
<1> HIDE DEF chosen
<1>2. ASSUME NEW tt \in Seq(Q), Len(tt) = 0 PROVE FlattenSeq(tt) = << >>
  <2>1. tt = << >>
    BY <1>2, EmptySeq
  <2>2. FlattenSeq(tt) = tt
    BY <1>2 DEF FlattenSeq
  <2> QED
    BY <2>1, <2>2
<1>3. ASSUME NEW tt \in Seq(Q) PROVE FlattenSeq(tt) \in Q
  <2>1. CASE Len(tt) = 0
    BY <2>1, <1>2 DEF Concatenates
  <2>2. CASE Len(tt) # 0
    <3> DEFINE n == Len(tt)
    <3>1. n \in Nat /\ tt \in [1 .. n -> Q] /\ n \in 1 .. n
      BY <2>2, SeqIsFunction
    <3>2. Flattens(chosen(n, tt), n, tt) /\ FlattenSeq(tt) = chosen(n, tt)[n]
      BY <1>1, <2>2
    <3> HIDE DEF n
    <3>3. PICK f \in [1 .. n -> Q] : Flattens(f, n, tt)
      BY <3>1, FlattensExists
    <3>4. Agree(chosen(n, tt), f, n)
      <4>1. Agree(tt, tt, n) /\ n <= n
        BY <3>1 DEF Agree
      <4> QED
        BY <3>1, <3>2, <3>3, <4>1, FlattensUnique
    <3> QED
      BY <3>1, <3>2, <3>3, <3>4 DEF Agree
  <2> QED
    BY <2>1, <2>2
<1>4. ASSUME Len(ss) # 0
      PROVE  FlattenSeq(ss) = FlattenSeq(SubSeq(ss, 1, Len(ss) - 1)) \o ss[Len(ss)]
  <2> DEFINE n == Len(ss)
             m == n - 1
             tt == SubSeq(ss, 1, m)
             f == chosen(n, ss)
             g == chosen(m, tt)
  <2>1. n \in Nat /\ n \in 1 .. n /\ m \in Nat /\ m \in 0 .. n /\ ss[n] \in Q
    BY <1>4, SeqIsFunction
  <2>2. /\ tt \in Seq(Q)
        /\ Len(tt) = m
        /\ Agree(ss, tt, m)
    BY <2>1, FrontIsSeq DEF Agree
  <2>3. Flattens(f, n, ss) /\ FlattenSeq(ss) = f[n]
    BY <1>1, <1>4
  <2>4. Flattens(g, m, tt) /\ (m # 0 => FlattenSeq(tt) = g[m])
    BY <1>1, <2>2
  <2> HIDE DEF f, g, tt
  <2>5. f[n] = IF n = 1 THEN ss[n] ELSE f[m] \o ss[n]
    <3>1. \A i \in 1 .. n : f[i] = IF i = 1 THEN ss[i] ELSE f[i - 1] \o ss[i]
      BY <2>1, <2>3, FlattensRound
    <3> QED
      BY <3>1, <2>1
  <2> HIDE DEF n, m
  <2>6. CASE m = 0
    <3>1. n = 1
      BY <2>1, <2>6 DEF m
    <3>2. FlattenSeq(tt) = << >>
      BY <1>2, <2>2, <2>6
    <3>3. << >> \o ss[n] = ss[n]
      BY <2>1 DEF Concatenates
    <3>4. FlattenSeq(ss) = FlattenSeq(tt) \o ss[n]
      BY <2>3, <2>5, <3>1, <3>2, <3>3
    <3> QED
      BY <3>4 DEF tt, m, n
  <2>7. CASE m # 0
    <3>1. n # 1 /\ m <= n /\ m \in 1 .. m
      BY <2>1, <2>7 DEF m
    <3>2. Agree(f, g, m)
      BY <2>1, <2>2, <2>3, <2>4, <3>1, FlattensUnique
    <3>3. FlattenSeq(ss) = FlattenSeq(tt) \o ss[n]
      BY <2>3, <2>4, <2>5, <2>7, <3>1, <3>2 DEF Agree
    <3> QED
      BY <3>3 DEF tt, m, n
  <2> QED
    BY <2>6, <2>7
<1> QED
  BY <1>2, <1>3, <1>4

\* The first n sequences, flattened, and the place after which the nth begins.
Prefix(ss, n) == FlattenSeq(SubSeq(ss, 1, n))
Offset(ss, n) == Len(Prefix(ss, n - 1))

LEMMA PrefixSteps ==
    ASSUME NEW S, NEW ss \in Seq(Seq(S))
    PROVE  /\ Prefix(ss, 0) = << >>
           /\ \A n \in 0 .. Len(ss) : Prefix(ss, n) \in Seq(S)
           /\ \A n \in 1 .. Len(ss) : ss[n] \in Seq(S)
           /\ \A n \in 1 .. Len(ss) : Prefix(ss, n) = Prefix(ss, n - 1) \o ss[n]
           /\ Prefix(ss, Len(ss)) = FlattenSeq(ss)
<1> DEFINE Q == Seq(S)
<1>1. Concatenates(Q) /\ ss \in Seq(Q)
  BY SeqConcatenates
<1> HIDE DEF Q
<1>2. Len(ss) \in Nat /\ ss \in [1 .. Len(ss) -> Q]
  BY <1>1, SeqIsFunction
<1>3. ASSUME NEW n \in 0 .. Len(ss)
      PROVE  /\ SubSeq(ss, 1, n) \in Seq(Q)
             /\ Len(SubSeq(ss, 1, n)) = n
             /\ \A i \in 1 .. n : SubSeq(ss, 1, n)[i] = ss[i]
  BY <1>1, FrontIsSeq
<1>4. \A n \in 0 .. Len(ss) : Prefix(ss, n) \in Q
  BY <1>1, <1>3, FlattenCases DEF Prefix
<1>5. Prefix(ss, 0) = << >>
  <2>1. 0 \in 0 .. Len(ss)
    BY <1>2
  <2> QED
    BY <1>1, <1>3, <2>1, FlattenCases DEF Prefix
<1>6. ASSUME NEW n \in 1 .. Len(ss) PROVE Prefix(ss, n) = Prefix(ss, n - 1) \o ss[n]
  <2> DEFINE front == SubSeq(ss, 1, n)
             m == n - 1
  <2>1. n \in 0 .. Len(ss) /\ m \in 0 .. Len(ss) /\ n \in 1 .. n /\ m \in 0 .. n
    BY <1>2
  <2>2. front \in Seq(Q) /\ Len(front) = n /\ \A i \in 1 .. n : front[i] = ss[i]
    BY <2>1, <1>3
  <2> HIDE DEF front, m
  <2>3. FlattenSeq(front) = FlattenSeq(SubSeq(front, 1, Len(front) - 1)) \o front[Len(front)]
    <3>1. Len(front) # 0
      BY <2>1, <2>2
    <3> QED
      BY <3>1, <1>1, <2>2, FlattenCases
  <2>4. SubSeq(front, 1, m) = SubSeq(ss, 1, m)
    <3>1. /\ SubSeq(front, 1, m) \in Seq(Q)
          /\ Len(SubSeq(front, 1, m)) = m
          /\ \A i \in 1 .. m : SubSeq(front, 1, m)[i] = front[i]
      <4>1. m \in 0 .. Len(front)
        BY <2>1, <2>2
      <4> QED
        BY <2>2, <4>1, FrontIsSeq
    <3>2. /\ SubSeq(ss, 1, m) \in Seq(Q)
          /\ Len(SubSeq(ss, 1, m)) = m
          /\ \A i \in 1 .. m : SubSeq(ss, 1, m)[i] = ss[i]
      BY <2>1, <1>3
    <3>3. \A i \in 1 .. m : front[i] = ss[i]
      BY <2>1, <2>2 DEF m
    <3>4. \A i \in 1 .. m : SubSeq(front, 1, m)[i] = SubSeq(ss, 1, m)[i]
      BY <3>1, <3>2, <3>3
    <3> HIDE DEF m
    <3> QED
      BY <3>1, <3>2, <3>4, SeqEqual
  <2>5. front[n] = ss[n]
    BY <2>1, <2>2
  <2>6. FlattenSeq(front) = FlattenSeq(SubSeq(ss, 1, m)) \o ss[n]
    BY <2>2, <2>3, <2>4, <2>5 DEF m
  <2> QED
    BY <2>6 DEF Prefix, front, m
<1>7. SubSeq(ss, 1, Len(ss)) = ss
  BY <1>1, SubSeqFull
<1>8. \A n \in 1 .. Len(ss) : ss[n] \in Q
  BY <1>2
<1> QED
  BY <1>4, <1>5, <1>6, <1>7, <1>8 DEF Prefix, Q

\* The same of one round, for the elements.
LEMMA PrefixElements ==
    ASSUME NEW S, NEW ss \in Seq(Seq(S)), NEW m \in Nat, m + 1 \in 1 .. Len(ss)
    PROVE  /\ Len(Prefix(ss, m)) \in Nat /\ Len(ss[m + 1]) \in Nat
           /\ Len(Prefix(ss, m + 1)) = Len(Prefix(ss, m)) + Len(ss[m + 1])
           /\ \A i \in 1 .. Len(Prefix(ss, m)) : Prefix(ss, m + 1)[i] = Prefix(ss, m)[i]
           /\ \A k \in 1 .. Len(ss[m + 1]) :
                Prefix(ss, m + 1)[Len(Prefix(ss, m)) + k] = ss[m + 1][k]
<1> DEFINE p == Prefix(ss, m)
           q == Prefix(ss, m + 1)
           e == ss[m + 1]
<1>1. m \in 0 .. Len(ss) /\ (m + 1) - 1 = m
  OBVIOUS
<1>2. p \in Seq(S) /\ e \in Seq(S)
  BY <1>1, PrefixSteps
<1>3. q = p \o e
  BY <1>1, PrefixSteps
<1> HIDE DEF p, q, e
<1>4. Len(p) \in Nat /\ Len(e) \in Nat
  BY <1>2, SeqIsFunction
<1>5. /\ Len(q) = Len(p) + Len(e)
      /\ \A i \in 1 .. Len(p) + Len(e) : q[i] = IF i <= Len(p) THEN p[i] ELSE e[i - Len(p)]
  BY <1>2, <1>3, ConcatProperties
<1>6. \A i \in 1 .. Len(p) : q[i] = p[i]
  BY <1>4, <1>5
<1>7. ASSUME NEW k \in 1 .. Len(e) PROVE q[Len(p) + k] = e[k]
  <2>1. /\ Len(p) + k \in 1 .. Len(p) + Len(e)
        /\ ~(Len(p) + k <= Len(p))
        /\ (Len(p) + k) - Len(p) = k
    BY <1>4
  <2> QED
    BY <2>1, <1>5
<1> QED
  BY <1>4, <1>5, <1>6, <1>7 DEF p, q, e

\* The first m sequences lie one after another in their prefix, and fill it.
Laid(ss, m) ==
    /\ Len(Prefix(ss, m)) \in Nat
    /\ \A n \in 1 .. m :
          /\ Offset(ss, n) \in Nat /\ Len(ss[n]) \in Nat
          /\ Offset(ss, n) + Len(ss[n]) <= Len(Prefix(ss, m))
          /\ \A k \in 1 .. Len(ss[n]) : Prefix(ss, m)[Offset(ss, n) + k] = ss[n][k]
    /\ \A i \in 1 .. Len(Prefix(ss, m)) :
          \E n \in 1 .. m : \E k \in 1 .. Len(ss[n]) : i = Offset(ss, n) + k

LEMMA PrefixLaid ==
    ASSUME NEW S, NEW ss \in Seq(Seq(S))
    PROVE  \A m \in 0 .. Len(ss) : Laid(ss, m)
<1> DEFINE T == {m \in Nat : m \in 0 .. Len(ss) => Laid(ss, m)}
<1>1. 0 \in T
  <2>1. Len(Prefix(ss, 0)) = 0
    BY PrefixSteps, EmptySeq
  <2> QED
    BY <2>1 DEF Laid
<1>2. ASSUME NEW m \in Nat, m \in T, m + 1 \in 0 .. Len(ss) PROVE Laid(ss, m + 1)
  <2> DEFINE p == Prefix(ss, m)
             q == Prefix(ss, m + 1)
             e == ss[m + 1]
             o(n) == Offset(ss, n)
  <2>1. Laid(ss, m) /\ m + 1 \in 1 .. Len(ss)
    BY <1>2
  <2>2. /\ Len(p) \in Nat /\ Len(e) \in Nat
        /\ Len(q) = Len(p) + Len(e)
        /\ \A i \in 1 .. Len(p) : q[i] = p[i]
        /\ \A k \in 1 .. Len(e) : q[Len(p) + k] = e[k]
    BY <2>1, PrefixElements
  <2>3. o(m + 1) = Len(p)
    BY DEF Offset
  <2>4. /\ \A n \in 1 .. m :
              /\ o(n) \in Nat /\ Len(ss[n]) \in Nat
              /\ o(n) + Len(ss[n]) <= Len(p)
              /\ \A k \in 1 .. Len(ss[n]) : p[o(n) + k] = ss[n][k]
        /\ \A i \in 1 .. Len(p) : \E n \in 1 .. m : \E k \in 1 .. Len(ss[n]) : i = o(n) + k
    BY <2>1 DEF Laid
  <2> HIDE DEF p, q, o
  <2>5. ASSUME NEW n \in 1 .. m + 1
        PROVE  /\ o(n) \in Nat /\ Len(ss[n]) \in Nat
               /\ o(n) + Len(ss[n]) <= Len(q)
               /\ \A k \in 1 .. Len(ss[n]) : q[o(n) + k] = ss[n][k]
    <3>1. CASE n = m + 1
      <4>1. /\ o(m + 1) \in Nat /\ Len(e) \in Nat
            /\ o(m + 1) + Len(e) <= Len(q)
        BY <2>2, <2>3
      <4>2. \A k \in 1 .. Len(e) : q[o(m + 1) + k] = e[k]
        BY <2>2, <2>3
      <4> QED
        BY <3>1, <4>1, <4>2
    <3>2. CASE n \in 1 .. m
      <4>1. o(n) \in Nat /\ Len(ss[n]) \in Nat /\ o(n) + Len(ss[n]) <= Len(p)
        BY <3>2, <2>4
      <4>2. ASSUME NEW k \in 1 .. Len(ss[n]) PROVE q[o(n) + k] = ss[n][k]
        <5>1. o(n) + k \in 1 .. Len(p)
          BY <4>1, <2>2
        <5>2. p[o(n) + k] = ss[n][k]
          BY <3>2, <2>4
        <5> QED
          BY <5>1, <5>2, <2>2
      <4> QED
        BY <4>1, <4>2, <2>2
    <3> QED
      BY <3>1, <3>2
  <2>6. ASSUME NEW i \in 1 .. Len(q)
        PROVE  \E n \in 1 .. m + 1 : \E k \in 1 .. Len(ss[n]) : i = o(n) + k
    <3>1. CASE i \in 1 .. Len(p)
      <4>1. PICK n \in 1 .. m : \E k \in 1 .. Len(ss[n]) : i = o(n) + k
        BY <3>1, <2>4
      <4>2. n \in 1 .. m + 1
        OBVIOUS
      <4> QED
        BY <4>1, <4>2
    <3>2. CASE i \notin 1 .. Len(p)
      <4> DEFINE a == Len(p)
                 b == Len(e)
                 c == Len(q)
      <4>1. a \in Nat /\ b \in Nat /\ c = a + b /\ i \in 1 .. c /\ i \notin 1 .. a
        BY <3>2, <2>2
      <4> HIDE DEF a, b, c
      <4>2. i - a \in 1 .. b /\ i = a + (i - a)
        BY <4>1
      <4>3. i - a \in 1 .. Len(ss[m + 1]) /\ i = o(m + 1) + (i - a)
        BY <4>2, <2>3 DEF a, b
      <4>4. m + 1 \in 1 .. m + 1
        OBVIOUS
      <4> QED
        BY <4>3, <4>4
    <3> QED
      BY <3>1, <3>2
  <2>7. Len(q) \in Nat
    BY <2>2
  <2> QED
    BY <2>5, <2>6, <2>7 DEF Laid, q, o
<1>3. \A k \in Nat : k \in T => k + 1 \in T
  BY <1>2
<1>4. \A k \in Nat : k \in T
  <2> HIDE DEF T
  <2> QED
    BY <1>1, <1>3, Induction
<1> QED
  BY <1>4

\* Where the elements of ss are when it is flattened.
LEMMA FlattenPlaces ==
    ASSUME NEW S, NEW ss \in Seq(Seq(S))
    PROVE  /\ FlattenSeq(ss) \in Seq(S)
           /\ Len(FlattenSeq(ss)) \in Nat
           /\ \A n \in 1 .. Len(ss) :
                /\ Offset(ss, n) \in Nat /\ Len(ss[n]) \in Nat
                /\ Offset(ss, n) + Len(ss[n]) <= Len(FlattenSeq(ss))
                /\ \A k \in 1 .. Len(ss[n]) : FlattenSeq(ss)[Offset(ss, n) + k] = ss[n][k]
           /\ \A i \in 1 .. Len(FlattenSeq(ss)) :
                \E n \in 1 .. Len(ss) : \E k \in 1 .. Len(ss[n]) : i = Offset(ss, n) + k
<1>1. Len(ss) \in 0 .. Len(ss)
  BY SeqIsFunction
<1>2. Laid(ss, Len(ss)) /\ Prefix(ss, Len(ss)) = FlattenSeq(ss)
  BY <1>1, PrefixLaid, PrefixSteps
<1>3. FlattenSeq(ss) \in Seq(S)
  BY <1>1, PrefixSteps
<1> QED
  BY <1>2, <1>3 DEF Laid

LEMMA OffsetsApart ==
    ASSUME NEW S, NEW ss \in Seq(Seq(S)), NEW m \in 1 .. Len(ss), NEW n \in 1 .. Len(ss), n < m
    PROVE  Offset(ss, n) + Len(ss[n]) <= Offset(ss, m)
<1>1. Len(ss) \in Nat
  BY SeqIsFunction
<1>2. m - 1 \in 0 .. Len(ss) /\ n \in 1 .. m - 1
  BY <1>1
<1>3. Laid(ss, m - 1)
  BY <1>2, PrefixLaid
<1> QED
  BY <1>2, <1>3 DEF Laid, Offset

\* An element of the flattened sequence comes from one place.
LEMMA OnePlace ==
    ASSUME NEW S, NEW ss \in Seq(Seq(S)), NEW m \in 1 .. Len(ss), NEW n \in 1 .. Len(ss),
           NEW k \in 1 .. Len(ss[m]), NEW l \in 1 .. Len(ss[n]),
           Offset(ss, m) + k = Offset(ss, n) + l
    PROVE  m = n /\ k = l
<1>1. /\ Offset(ss, m) \in Nat /\ Len(ss[m]) \in Nat
      /\ Offset(ss, n) \in Nat /\ Len(ss[n]) \in Nat /\ Len(ss) \in Nat
  BY FlattenPlaces, SeqIsFunction
<1>2. ~(n < m)
  <2> SUFFICES ASSUME n < m PROVE FALSE
    OBVIOUS
  <2>1. Offset(ss, n) + Len(ss[n]) <= Offset(ss, m)
    BY OffsetsApart
  <2> QED
    BY <1>1, <2>1
<1>3. ~(m < n)
  <2> SUFFICES ASSUME m < n PROVE FALSE
    OBVIOUS
  <2>1. Offset(ss, m) + Len(ss[m]) <= Offset(ss, n)
    BY OffsetsApart
  <2> QED
    BY <1>1, <2>1
<1>4. m = n
  BY <1>1, <1>2, <1>3
<1> QED
  BY <1>1, <1>4

-----------------------------------------------------------------------------
(* SumOf.                                                                   *)

Sums(g, n, lengths) ==
    g = [i \in 0 .. n |-> IF i = 0 THEN 0 ELSE g[i - 1] + lengths[i]]

LEMMA SumsRounds ==
    ASSUME NEW g, NEW n \in Nat, NEW lengths, Sums(g, n, lengths)
    PROVE  /\ g[0] = 0
           /\ \A i \in 1 .. n : g[i] = g[i - 1] + lengths[i]
<1> DEFINE round(j) == IF j = 0 THEN 0 ELSE g[j - 1] + lengths[j]
<1>1. g = [j \in 0 .. n |-> round(j)]
  BY DEF Sums
<1> HIDE DEF round
<1>2. \A i \in 0 .. n : g[i] = round(i)
  <2> TAKE i \in 0 .. n
  <2>1. [j \in 0 .. n |-> round(j)][i] = round(i)
    OBVIOUS
  <2> QED
    BY <1>1, <2>1
<1>3. g[0] = 0
  BY <1>2 DEF round
<1>4. ASSUME NEW i \in 1 .. n PROVE g[i] = g[i - 1] + lengths[i]
  <2>1. i \in 0 .. n /\ i # 0
    OBVIOUS
  <2> QED
    BY <1>2, <2>1 DEF round
<1> QED
  BY <1>3, <1>4

LEMMA SumsExists ==
    ASSUME NEW n \in Nat, NEW lengths \in [1 .. n -> Nat]
    PROVE  \E g \in [0 .. n -> Nat] : Sums(g, n, lengths)
<1> DEFINE step == [p \in (1 .. n) \X Nat |-> p[2] + lengths[p[1]]]
<1>1. step \in [(1 .. n) \X Nat -> Nat]
  OBVIOUS
<1> HIDE DEF step
<1>2. PICK g \in [0 .. n -> Nat] : Iterates(g, n, 0, step)
  BY <1>1, Recursion
<1>3. ASSUME NEW i \in 1 .. n PROVE g[i] = g[i - 1] + lengths[i]
  <2>1. <<i, g[i - 1]>> \in (1 .. n) \X Nat
    OBVIOUS
  <2>2. step[<<i, g[i - 1]>>] = g[i - 1] + lengths[i]
    BY <2>1 DEF step
  <2> QED
    BY <1>2, <2>2 DEF Iterates
<1>4. g[0] = 0
  BY <1>2 DEF Iterates
<1>5. g = [i \in 0 .. n |-> IF i = 0 THEN 0 ELSE g[i - 1] + lengths[i]]
  BY <1>3, <1>4
<1> QED
  BY <1>5 DEF Sums

LEMMA SumsUnique ==
    ASSUME NEW l \in Nat, NEW n \in Nat, NEW s, NEW t, NEW f, NEW g,
           Sums(f, l, s), Sums(g, n, t), NEW m \in Nat, m <= l, m <= n, Agree(s, t, m)
    PROVE  f[0] = g[0] /\ Agree(f, g, m)
<1> DEFINE T == {i \in Nat : i \in 0 .. m => f[i] = g[i]}
<1>1. f[0] = 0 /\ \A i \in 1 .. l : f[i] = f[i - 1] + s[i]
  BY SumsRounds
<1>2. g[0] = 0 /\ \A i \in 1 .. n : g[i] = g[i - 1] + t[i]
  BY SumsRounds
<1>3. 0 \in T
  BY <1>1, <1>2
<1>4. ASSUME NEW k \in Nat, k \in T, k + 1 \in 0 .. m PROVE f[k + 1] = g[k + 1]
  <2>1. f[k] = g[k]
    BY <1>4
  <2>2. k + 1 \in 1 .. l /\ k + 1 \in 1 .. n /\ k + 1 \in 1 .. m /\ (k + 1) - 1 = k
    BY <1>4
  <2>3. f[k + 1] = f[k] + s[k + 1] /\ g[k + 1] = g[k] + t[k + 1]
    BY <1>1, <1>2, <2>2
  <2>4. s[k + 1] = t[k + 1]
    BY <2>2 DEF Agree
  <2> QED
    BY <2>1, <2>3, <2>4
<1>5. \A k \in Nat : k \in T => k + 1 \in T
  BY <1>4
<1>6. \A k \in Nat : k \in T
  <2> HIDE DEF T
  <2> QED
    BY <1>3, <1>5, Induction
<1> QED
  BY <1>1, <1>2, <1>6 DEF Agree

LEMMA SumsGrow ==
    ASSUME NEW n \in Nat, NEW lengths \in [1 .. n -> Nat],
           NEW g \in [0 .. n -> Nat], Sums(g, n, lengths)
    PROVE  \A i \in 0 .. n : g[i] <= g[n]
<1> DEFINE T == {m \in Nat : m \in 0 .. n => \A i \in 0 .. m : g[i] <= g[m]}
<1>1. g[0] = 0 /\ \A i \in 1 .. n : g[i] = g[i - 1] + lengths[i]
  BY SumsRounds
<1>2. 0 \in T
  BY <1>1
<1>3. ASSUME NEW m \in Nat, m \in T, m + 1 \in 0 .. n, NEW i \in 0 .. m + 1
      PROVE  g[i] <= g[m + 1]
  <2>1. m + 1 \in 1 .. n /\ (m + 1) - 1 = m /\ m \in 0 .. n
    BY <1>3
  <2>2. g[m + 1] = g[m] + lengths[m + 1]
    BY <1>1, <2>1
  <2>3. g[m] \in Nat /\ lengths[m + 1] \in Nat
    BY <2>1
  <2>4. CASE i = m + 1
    BY <2>2, <2>3, <2>4
  <2>5. CASE i \in 0 .. m
    <3>1. g[i] <= g[m] /\ g[i] \in Nat
      BY <1>3, <2>1, <2>5
    <3> QED
      BY <3>1, <2>2, <2>3
  <2> QED
    BY <2>4, <2>5
<1>4. ASSUME NEW m \in Nat, m \in T PROVE m + 1 \in T
  <2>1. m + 1 \in 0 .. n => \A i \in 0 .. m + 1 : g[i] <= g[m + 1]
    BY <1>3, <1>4
  <2> QED
    BY <2>1
<1>5. \A k \in Nat : k \in T
  <2> HIDE DEF T
  <2> QED
    BY <1>2, <1>4, Induction
<1> QED
  BY <1>5

LEMMA SumOfIs ==
    ASSUME NEW n \in Nat, NEW lengths \in [1 .. n -> Nat],
           NEW g \in [0 .. n -> Nat], Sums(g, n, lengths)
    PROVE  SumOf(lengths) = g[n]
<1> DEFINE sum == CHOOSE f : Sums(f, n, lengths)
<1>1. lengths \in Seq(Nat) /\ Len(lengths) = n
  OBVIOUS
<1>2. SumOf(lengths) = sum[n]
  BY <1>1 DEF SumOf, Sums
<1>3. Sums(sum, n, lengths)
  OBVIOUS
<1> HIDE DEF sum
<1>4. Agree(lengths, lengths, n) /\ n <= n /\ n \in 0 .. n
  BY DEF Agree
<1>5. sum[0] = g[0] /\ Agree(sum, g, n)
  BY <1>3, <1>4, SumsUnique
<1>6. sum[n] = g[n]
  BY <1>5 DEF Agree
<1> QED
  BY <1>2, <1>6

\* What comes before a section and the section itself fit in the whole.
LEMMA SumOfParts ==
    ASSUME NEW n \in Nat, NEW lengths \in [1 .. n -> Nat]
    PROVE  /\ SumOf(lengths) \in Nat
           /\ \A i \in 1 .. n :
                /\ SumOf([j \in 1 .. (i - 1) |-> lengths[j]]) \in Nat
                /\ SumOf([j \in 1 .. (i - 1) |-> lengths[j]]) + lengths[i] <= SumOf(lengths)
<1>1. PICK g \in [0 .. n -> Nat] : Sums(g, n, lengths)
  BY SumsExists
<1>2. SumOf(lengths) = g[n]
  BY <1>1, SumOfIs
<1>3. ASSUME NEW i \in 1 .. n
      PROVE  SumOf([j \in 1 .. (i - 1) |-> lengths[j]]) = g[i - 1]
  <2> DEFINE m == i - 1
             front == [j \in 1 .. m |-> lengths[j]]
  <2>1. m \in Nat /\ m <= n /\ m <= m /\ m \in 0 .. m
    OBVIOUS
  <2>2. front \in [1 .. m -> Nat] /\ Agree(front, lengths, m)
    BY DEF Agree
  <2> HIDE DEF m, front
  <2>3. PICK h \in [0 .. m -> Nat] : Sums(h, m, front)
    BY <2>1, <2>2, SumsExists
  <2>4. SumOf(front) = h[m]
    BY <2>1, <2>2, <2>3, SumOfIs
  <2>5. h[0] = g[0] /\ Agree(h, g, m)
    BY <1>1, <2>1, <2>2, <2>3, SumsUnique
  <2>6. SumOf(front) = g[m]
    BY <2>1, <2>4, <2>5 DEF Agree
  <2> QED
    BY <2>6 DEF front, m
<1>4. ASSUME NEW i \in 1 .. n
      PROVE  g[i - 1] \in Nat /\ g[i - 1] + lengths[i] <= g[n]
  <2>1. g[i] = g[i - 1] + lengths[i]
    BY <1>1, SumsRounds
  <2>2. i \in 0 .. n /\ i - 1 \in 0 .. n
    OBVIOUS
  <2>3. g[i] <= g[n]
    BY <1>1, <2>2, SumsGrow
  <2> QED
    BY <2>1, <2>2, <2>3
<1>5. g[n] \in Nat
  OBVIOUS
<1> QED
  BY <1>2, <1>3, <1>4, <1>5

-----------------------------------------------------------------------------
(* Where the declarations of a graph are among its symbols.                 *)

SymbolLists(graph) == [n \in DOMAIN graph |-> graph[n].symbols]

\* The nth snapshot's declarations are those after its first ordinal, and there
\* are no others.
InOrder(graph) ==
    /\ Len(graph) \in Nat /\ DOMAIN graph = 1 .. Len(graph)
    /\ Len(Symbols(graph)) \in Nat /\ DOMAIN Symbols(graph) = 1 .. Len(Symbols(graph))
    /\ \A n \in 1 .. Len(graph) :
          /\ FirstOrdinal(graph, n) \in Nat
          /\ Len(graph[n].symbols) \in Nat
          /\ DOMAIN graph[n].symbols = 1 .. Len(graph[n].symbols)
          /\ FirstOrdinal(graph, n) + Len(graph[n].symbols) <= Len(Symbols(graph))
          /\ \A k \in 1 .. Len(graph[n].symbols) :
                Symbols(graph)[FirstOrdinal(graph, n) + k] = graph[n].symbols[k]
    /\ \A i \in 1 .. Len(Symbols(graph)) :
          \E n \in 1 .. Len(graph) : \E k \in 1 .. Len(graph[n].symbols) :
              i = FirstOrdinal(graph, n) + k

LEMMA SymbolListsType ==
    ASSUME NEW S, NEW T, NEW graph \in Seq(T),
           \A n \in 1 .. Len(graph) : graph[n].symbols \in Seq(S)
    PROVE  /\ SymbolLists(graph) \in Seq(Seq(S))
           /\ Len(SymbolLists(graph)) = Len(graph)
           /\ \A n \in 1 .. Len(graph) : SymbolLists(graph)[n] = graph[n].symbols
           /\ Symbols(graph) = FlattenSeq(SymbolLists(graph))
           /\ \A n \in 1 .. Len(graph) : FirstOrdinal(graph, n) = Offset(SymbolLists(graph), n)
<1> DEFINE lists == SymbolLists(graph)
           Q == Seq(S)
<1>1. Len(graph) \in Nat /\ DOMAIN graph = 1 .. Len(graph)
  BY SeqIsFunction
<1>2. /\ lists \in [1 .. Len(graph) -> Q]
      /\ \A n \in 1 .. Len(graph) : lists[n] = graph[n].symbols
  BY <1>1 DEF SymbolLists
<1> HIDE DEF Q
<1>3. lists \in Seq(Q) /\ Len(lists) = Len(graph)
  BY <1>1, <1>2
<1>4. Symbols(graph) = FlattenSeq(lists)
  BY DEF Symbols, SymbolLists
<1>5. ASSUME NEW n \in 1 .. Len(graph)
      PROVE  FirstOrdinal(graph, n) = Offset(lists, n)
  <2> DEFINE m == n - 1
             front == SubSeq(graph, 1, m)
             some == SubSeq(lists, 1, m)
  <2>1. m \in 0 .. Len(graph) /\ m \in 0 .. Len(lists) /\ m \in Nat
    BY <1>1, <1>3
  <2> HIDE DEF m, lists
  <2>2. front \in Seq(T) /\ Len(front) = m /\ \A i \in 1 .. m : front[i] = graph[i]
    BY <2>1, FrontIsSeq
  <2>3. some \in Seq(Q) /\ Len(some) = m /\ \A i \in 1 .. m : some[i] = lists[i]
    BY <1>3, <2>1, FrontIsSeq
  <2> HIDE DEF front, some
  <2>4. DOMAIN front = 1 .. m
    BY <2>2, SeqIsFunction
  <2>5. some \in [1 .. m -> Q]
    BY <2>3, SeqIsFunction
  <2>6. \A i \in 1 .. m : some[i] = front[i].symbols
    <3>1. \A i \in 1 .. m : i \in 1 .. Len(graph)
      BY <1>1, <2>1
    <3> QED
      BY <1>2, <2>2, <2>3, <3>1 DEF lists
  <2>7. some = [i \in DOMAIN front |-> front[i].symbols]
    BY <2>4, <2>5, <2>6
  <2>8. Len(Symbols(front)) = Len(FlattenSeq(some))
    BY <2>7 DEF Symbols
  <2> QED
    BY <2>8 DEF FirstOrdinal, Offset, Prefix, front, some, m
<1> QED
  BY <1>2, <1>3, <1>4, <1>5 DEF Q

LEMMA GraphInOrder ==
    ASSUME NEW S, NEW T, NEW graph \in Seq(T),
           \A n \in 1 .. Len(graph) : graph[n].symbols \in Seq(S)
    PROVE  InOrder(graph) /\ Symbols(graph) \in Seq(S)
<1> DEFINE lists == SymbolLists(graph)
           all == FlattenSeq(lists)
<1>1. /\ lists \in Seq(Seq(S))
      /\ Len(lists) = Len(graph)
      /\ \A n \in 1 .. Len(graph) : lists[n] = graph[n].symbols
      /\ Symbols(graph) = all
      /\ \A n \in 1 .. Len(graph) : FirstOrdinal(graph, n) = Offset(lists, n)
  BY SymbolListsType
<1> HIDE DEF lists
<1>2. /\ all \in Seq(S)
      /\ Len(all) \in Nat
      /\ \A n \in 1 .. Len(lists) :
           /\ Offset(lists, n) \in Nat /\ Len(lists[n]) \in Nat
           /\ Offset(lists, n) + Len(lists[n]) <= Len(all)
           /\ \A k \in 1 .. Len(lists[n]) : all[Offset(lists, n) + k] = lists[n][k]
      /\ \A i \in 1 .. Len(all) :
           \E n \in 1 .. Len(lists) : \E k \in 1 .. Len(lists[n]) : i = Offset(lists, n) + k
  BY <1>1, FlattenPlaces
<1>3. Len(graph) \in Nat /\ DOMAIN graph = 1 .. Len(graph)
  BY SeqIsFunction
<1>4. DOMAIN all = 1 .. Len(all)
  BY <1>2, SeqIsFunction
<1> HIDE DEF all
<1>5. ASSUME NEW n \in 1 .. Len(graph)
      PROVE  /\ FirstOrdinal(graph, n) \in Nat
             /\ Len(graph[n].symbols) \in Nat
             /\ DOMAIN graph[n].symbols = 1 .. Len(graph[n].symbols)
             /\ FirstOrdinal(graph, n) + Len(graph[n].symbols) <= Len(all)
             /\ \A k \in 1 .. Len(graph[n].symbols) :
                  all[FirstOrdinal(graph, n) + k] = graph[n].symbols[k]
  <2>1. lists[n] = graph[n].symbols /\ FirstOrdinal(graph, n) = Offset(lists, n)
        /\ n \in 1 .. Len(lists)
    BY <1>1
  <2>2. DOMAIN graph[n].symbols = 1 .. Len(graph[n].symbols)
    BY SeqIsFunction
  <2> QED
    BY <1>2, <2>1, <2>2
<1>6. ASSUME NEW i \in 1 .. Len(all)
      PROVE  \E n \in 1 .. Len(graph) : \E k \in 1 .. Len(graph[n].symbols) :
                i = FirstOrdinal(graph, n) + k
  <2>1. PICK n \in 1 .. Len(lists) : \E k \in 1 .. Len(lists[n]) : i = Offset(lists, n) + k
    BY <1>2
  <2>2. n \in 1 .. Len(graph) /\ lists[n] = graph[n].symbols
        /\ FirstOrdinal(graph, n) = Offset(lists, n)
    BY <1>1
  <2> QED
    BY <2>1, <2>2
<1> QED
  BY <1>1, <1>2, <1>3, <1>4, <1>5, <1>6 DEF InOrder

LEMMA OneOrdinal ==
    ASSUME NEW S, NEW T, NEW graph \in Seq(T),
           \A n \in 1 .. Len(graph) : graph[n].symbols \in Seq(S),
           NEW m \in 1 .. Len(graph), NEW n \in 1 .. Len(graph),
           NEW k \in 1 .. Len(graph[m].symbols), NEW l \in 1 .. Len(graph[n].symbols),
           FirstOrdinal(graph, m) + k = FirstOrdinal(graph, n) + l
    PROVE  m = n /\ k = l
<1> DEFINE lists == SymbolLists(graph)
<1>1. /\ lists \in Seq(Seq(S))
      /\ Len(lists) = Len(graph)
      /\ \A i \in 1 .. Len(graph) : lists[i] = graph[i].symbols
      /\ \A i \in 1 .. Len(graph) : FirstOrdinal(graph, i) = Offset(lists, i)
  BY SymbolListsType
<1> HIDE DEF lists
<1>2. m \in 1 .. Len(lists) /\ n \in 1 .. Len(lists)
  BY <1>1
<1>3. k \in 1 .. Len(lists[m]) /\ l \in 1 .. Len(lists[n])
  BY <1>1
<1>4. Offset(lists, m) + k = Offset(lists, n) + l
  BY <1>1
<1> QED
  BY <1>1, <1>2, <1>3, <1>4, OnePlace

\* Lists of the same lengths begin at the same places.
LEMMA SameOffsets ==
    ASSUME NEW S, NEW R, NEW ss \in Seq(Seq(S)), NEW tt \in Seq(Seq(R)), Len(ss) = Len(tt),
           \A n \in 1 .. Len(ss) : Len(ss[n]) = Len(tt[n])
    PROVE  /\ Len(FlattenSeq(ss)) = Len(FlattenSeq(tt))
           /\ \A n \in 1 .. Len(ss) : Offset(ss, n) = Offset(tt, n)
<1> DEFINE T == {m \in Nat : m \in 0 .. Len(ss) => Len(Prefix(ss, m)) = Len(Prefix(tt, m))}
<1>1. Len(ss) \in Nat
  BY SeqIsFunction
<1>2. 0 \in T
  BY PrefixSteps
<1>3. ASSUME NEW m \in Nat, m \in T, m + 1 \in 0 .. Len(ss)
      PROVE  Len(Prefix(ss, m + 1)) = Len(Prefix(tt, m + 1))
  <2>1. m + 1 \in 1 .. Len(ss) /\ m + 1 \in 1 .. Len(tt)
    BY <1>3
  <2>2. Len(Prefix(ss, m + 1)) = Len(Prefix(ss, m)) + Len(ss[m + 1])
    BY <2>1, PrefixElements
  <2>3. Len(Prefix(tt, m + 1)) = Len(Prefix(tt, m)) + Len(tt[m + 1])
    BY <2>1, PrefixElements
  <2>4. Len(Prefix(ss, m)) = Len(Prefix(tt, m)) /\ Len(ss[m + 1]) = Len(tt[m + 1])
    BY <1>3, <2>1
  <2> QED
    BY <2>2, <2>3, <2>4
<1>4. ASSUME NEW m \in Nat, m \in T PROVE m + 1 \in T
  BY <1>3, <1>4
<1>5. \A m \in Nat : m \in T
  <2> HIDE DEF T
  <2> QED
    BY <1>2, <1>4, Induction
<1>6. \A m \in 0 .. Len(ss) : Len(Prefix(ss, m)) = Len(Prefix(tt, m))
  BY <1>5
<1>7. Prefix(ss, Len(ss)) = FlattenSeq(ss) /\ Prefix(tt, Len(ss)) = FlattenSeq(tt)
  BY PrefixSteps
<1>8. ASSUME NEW n \in 1 .. Len(ss) PROVE Offset(ss, n) = Offset(tt, n)
  <2>1. n - 1 \in 0 .. Len(ss)
    BY <1>1
  <2> QED
    BY <1>6, <2>1 DEF Offset
<1>9. Len(ss) \in 0 .. Len(ss)
  BY <1>1
<1> QED
  BY <1>6, <1>7, <1>8, <1>9

-----------------------------------------------------------------------------
(* The strings of a detail block, written and read back.                    *)

LEMMA Images ==
    ASSUME NEW s, NEW n \in Nat, DOMAIN s = 1 .. n
    PROVE  /\ \A i \in 1 .. n : s[i] \in ToSet(s)
           /\ \A v \in ToSet(s) : \E i \in 1 .. n : s[i] = v
  BY DEF ToSet

\* A string of a block decodes to what it was, whatever the table.
LEMMA InlineRoundTrip ==
    ASSUME NEW V, NEW table \in Seq(V), NEW v
    PROVE  /\ TextOf(Inline(table, v), table) = v
           /\ v \in ToSet(table) =>
                /\ Len(Inline(table, v).index) = 1
                /\ table[Inline(table, v).index[1] + 1] = v
<1> DEFINE places == {i \in 1 .. Len(table) : table[i] = v}
<1>1. Len(table) \in Nat /\ DOMAIN table = 1 .. Len(table)
  BY SeqIsFunction
<1>2. CASE v \in ToSet(table)
  <2>1. places # {} /\ places \subseteq Nat
    BY <1>1, <1>2, Images
  <2>2. SelectInSeq(table, LAMBDA s : s = v) = Min(places)
    BY <2>1 DEF SelectInSeq
  <2>3. Min(places) \in places
    <3> HIDE DEF places
    <3> QED
      BY <2>1, MinIsLeast
  <2>4. /\ Min(places) \in Nat /\ Min(places) - 1 + 1 = Min(places)
        /\ table[Min(places)] = v
    BY <1>1, <2>3
  <2> HIDE DEF places
  <2>6. Inline(table, v).index = <<Min(places) - 1>>
    BY <1>2, <2>2 DEF Inline
  <2>7. /\ <<Min(places) - 1>> # << >> /\ Len(<<Min(places) - 1>>) = 1
        /\ <<Min(places) - 1>>[1] = Min(places) - 1
    OBVIOUS
  <2>8. Inline(table, v).index[1] + 1 = Min(places)
    BY <2>4, <2>6, <2>7
  <2> QED
    BY <2>4, <2>6, <2>7, <2>8 DEF TextOf
<1>3. CASE v \notin ToSet(table)
  <2>1. Inline(table, v) = [inline |-> v, index |-> << >>]
    BY <1>3 DEF Inline
  <2> QED
    BY <1>3, <2>1 DEF TextOf
<1> QED
  BY <1>2, <1>3

\* The same for the strings of an option or a list.
Inlined(table, values) == [i \in DOMAIN values |-> Inline(table, values[i])]
Texts(table, written) == [i \in DOMAIN written |-> TextOf(written[i], table)]

LEMMA ListRoundTrip ==
    ASSUME NEW V, NEW table \in Seq(V), NEW W, NEW values \in Seq(W)
    PROVE  Texts(table, Inlined(table, values)) = values
<1> DEFINE written == [i \in DOMAIN values |-> Inline(table, values[i])]
<1>1. values = [i \in DOMAIN values |-> values[i]]
  BY SeqIsFunction
<1>2. \A i \in DOMAIN values : TextOf(written[i], table) = values[i]
  BY InlineRoundTrip
<1>3. DOMAIN written = DOMAIN values
  OBVIOUS
<1> HIDE DEF written
<1>4. [i \in DOMAIN written |-> TextOf(written[i], table)] = [i \in DOMAIN values |-> values[i]]
  BY <1>2, <1>3
<1> QED
  BY <1>1, <1>4 DEF Texts, Inlined, written

LEMMA InlineManyRoundTrip ==
    ASSUME NEW V, NEW table \in Seq(V), NEW W, NEW values \in Seq(W), NEW many,
           many = InlineMany(table, values)
    PROVE  (IF many.indexes = << >> THEN many.inline
            ELSE [i \in DOMAIN many.indexes |-> table[many.indexes[i] + 1]]) = values
<1> DEFINE places == [i \in DOMAIN values |-> Inline(table, values[i]).index[1]]
<1>1. /\ Len(values) \in Nat /\ DOMAIN values = 1 .. Len(values)
      /\ values \in [1 .. Len(values) -> W]
  BY SeqIsFunction
<1>2. CASE values # << >> /\ ToSet(values) \subseteq ToSet(table)
  <2>1. many = [inline |-> << >>, indexes |-> places]
    BY <1>2 DEF InlineMany
  <2>2. \A i \in 1 .. Len(values) : values[i] \in ToSet(table)
    BY <1>1, <1>2, Images
  <2>3. \A i \in 1 .. Len(values) : table[places[i] + 1] = values[i]
    BY <1>1, <2>2, InlineRoundTrip
  <2>4. 1 \in DOMAIN places /\ DOMAIN places = 1 .. Len(values)
    BY <1>1, <1>2
  <2> HIDE DEF places
  <2>5. places # << >>
    BY <2>4
  <2>6. [i \in DOMAIN places |-> table[places[i] + 1]] = values
    BY <1>1, <2>3, <2>4
  <2>7. many.indexes = places
    BY <2>1
  <2> QED
    BY <2>5, <2>6, <2>7
<1>3. CASE ~(values # << >> /\ ToSet(values) \subseteq ToSet(table))
  <2>1. many = [inline |-> values, indexes |-> << >>]
    BY <1>3 DEF InlineMany
  <2> QED
    BY <2>1
<1> QED
  BY <1>2, <1>3

-----------------------------------------------------------------------------
(* A detail block, written and read back.                                   *)

References == [id : STRING \cup {""}, ordinal : Seq(Nat)]
EncodedDeclarations ==
    [id : STRING, kind : STRING, qualified : Seq(STRING), owner : Seq(References),
     modifiers : Seq(STRING), language : STRING, provenance : Seq(Nat)]

LEMMA SequenceOfSetType ==
    ASSUME NEW S, IsFiniteSet(S)
    PROVE  SetToSeq(S) \in Seq(S)
<1>1. Cardinality(S) \in Nat /\ ExistsBijection(1 .. Cardinality(S), S)
  BY FS_CardinalityType
<1>2. PICK f : f \in Bijection(1 .. Cardinality(S), S)
  BY <1>1 DEF ExistsBijection
<1>3. f \in [1 .. Cardinality(S) -> S] /\ IsInjective(f)
  BY <1>2 DEF Bijection, Injection
<1>4. SetToSeq(S) \in [1 .. Cardinality(S) -> S]
  BY <1>3 DEF SetToSeq
<1> QED
  BY <1>1, <1>4

LEMMA RangeIsFinite ==
    ASSUME NEW S, NEW s \in Seq(S)
    PROVE  IsFiniteSet(ToSet(s))
<1>1. Len(s) \in Nat /\ s \in [1 .. Len(s) -> S] /\ DOMAIN s = 1 .. Len(s)
  BY SeqIsFunction
<1>2. /\ \A i \in 1 .. Len(s) : s[i] \in ToSet(s)
      /\ \A v \in ToSet(s) : \E i \in 1 .. Len(s) : s[i] = v
  BY <1>1, Images
<1>3. s \in Surjection(1 .. Len(s), ToSet(s))
  BY <1>1, <1>2 DEF Surjection
<1>4. IsFiniteSet(1 .. Len(s))
  BY <1>1, FS_Interval
<1> QED
  BY <1>3, <1>4, FS_Surjection

\* A string of the table occurs among the strings, as Occurrences is not 0.
LEMMA StringsOccur ==
    ASSUME NEW S, NEW all \in Seq(S), NEW v,
           Cardinality({i \in DOMAIN all : all[i] = v}) >= Occurrences
    PROVE  v \in ToSet(all)
<1> SUFFICES ASSUME v \notin ToSet(all) PROVE FALSE
  OBVIOUS
<1>1. {i \in DOMAIN all : all[i] = v} = {}
  BY DEF ToSet
<1>2. Cardinality({i \in DOMAIN all : all[i] = v}) = 0
  BY <1>1, FS_EmptySet
<1> QED
  BY <1>2, LayoutAssumption

LEMMA StringsOfType ==
    ASSUME NEW e \in EncodedDeclarations
    PROVE  StringsOf(e) \in Seq(STRING \cup {""})
<1> DEFINE X == STRING \cup {""}
           ids == [o \in DOMAIN e.owner |-> e.owner[o].id]
<1>1. e.kind \in X /\ e.qualified \in Seq(STRING) /\ e.modifiers \in Seq(STRING)
      /\ e.owner \in Seq(References)
  BY DEF EncodedDeclarations
<1>2. e.qualified \in Seq(X) /\ e.modifiers \in Seq(X)
  BY <1>1, SeqMonotonic
<1>3. Len(e.owner) \in Nat /\ e.owner \in [1 .. Len(e.owner) -> References]
  BY <1>1, SeqIsFunction
<1>4. ids \in [1 .. Len(e.owner) -> X]
  BY <1>3 DEF References
<1> HIDE DEF ids, X
<1>5. ids \in Seq(X)
  BY <1>3, <1>4
<1>6. <<e.kind>> \in Seq(X)
  BY <1>1
<1>7. StringsOf(e) = <<e.kind>> \o e.qualified \o ids \o e.modifiers
  BY DEF StringsOf, ids
<1>8. StringsOf(e) \in Seq(X)
  BY <1>2, <1>5, <1>6, <1>7
<1> QED
  BY <1>8 DEF X

LEMMA StringTableType ==
    ASSUME NEW symbols \in Seq(EncodedDeclarations)
    PROVE  StringTable(symbols) \in Seq(LongStrings)
<1> DEFINE X == STRING \cup {""}
           Q == Seq(X)
           lists == [i \in DOMAIN symbols |-> StringsOf(symbols[i])]
           all == FlattenSeq(lists)
           chosen == {v \in LongStrings :
                        Cardinality({i \in DOMAIN all : all[i] = v}) >= Occurrences}
<1>1. /\ Len(symbols) \in Nat /\ DOMAIN symbols = 1 .. Len(symbols)
      /\ symbols \in [1 .. Len(symbols) -> EncodedDeclarations]
  BY SeqIsFunction
<1>2. \A e \in EncodedDeclarations : StringsOf(e) \in Q
  BY StringsOfType
<1>3. Concatenates(Q)
  BY SeqConcatenates
<1> HIDE DEF Q
<1>4. lists \in [1 .. Len(symbols) -> Q]
  BY <1>1, <1>2
<1>5. lists \in Seq(Q)
  BY <1>1, <1>4
<1> HIDE DEF lists
<1>6. all \in Q
  BY <1>3, <1>5, FlattenCases
<1> HIDE DEF all
<1>7. all \in Seq(X)
  BY <1>6 DEF Q
<1>8. IsFiniteSet(ToSet(all))
  BY <1>7, RangeIsFinite
<1>9. chosen \subseteq ToSet(all)
  BY <1>7, StringsOccur
<1>10. IsFiniteSet(chosen) /\ chosen \subseteq LongStrings
  BY <1>8, <1>9, FS_Subset
<1>11. StringTable(symbols) = SetToSeq(chosen)
  BY DEF StringTable, all, lists
<1> HIDE DEF chosen
<1>12. SetToSeq(chosen) \in Seq(chosen)
  BY <1>10, SequenceOfSetType
<1> QED
  BY <1>10, <1>11, <1>12, SeqMonotonic

\* What a detail keeps of the owner of a declaration.
KeptOwner(owner) ==
    IF \E o \in ToSet(owner) : o.ordinal # << >> THEN << >>
    ELSE [o \in DOMAIN owner |-> owner[o].id]

\* What the decoder makes of the entry of e in a block of the snapshot.
Kept(e, snapshot) ==
    Declaration(e, KeptOwner(e.owner), snapshot.provenances[Or(e.provenance, 0) + 1],
                snapshot.unit)

LEMMA CommonOptionCases ==
    ASSUME NEW values, NEW n \in Nat, DOMAIN values = 1 .. n, NEW k \in 1 .. n
    PROVE  CommonOption(values) = << >> \/ CommonOption(values) = values[k]
  BY DEF CommonOption

LEMMA ProvenanceRoundTrip ==
    ASSUME NEW provenance, NEW default, default = << >> \/ default = provenance
    PROVE  Or(IF provenance # default THEN provenance ELSE << >>, Or(default, 0))
              = Or(provenance, 0)
  BY DEF Or

LEMMA LanguageRoundTrip ==
    ASSUME NEW language, NEW default
    PROVE  Or(Option(language # default, language), default) = language
<1>1. <<language>> # << >> /\ <<language>>[1] = language
  OBVIOUS
<1> QED
  BY <1>1 DEF Or, Option

LEMMA DetailRoundTrip ==
    ASSUME NEW snapshot, NEW symbols \in Seq(EncodedDeclarations), NEW interned \in BOOLEAN,
           NEW first, NEW k \in 1 .. Len(symbols)
    PROVE  LET block == DetailBlock(snapshot, first, symbols, interned)
           IN  /\ block.first = first
               /\ DOMAIN block.entries = 1 .. Len(symbols)
               /\ DecodedDetail(block, block.entries[k]) = Kept(symbols[k], snapshot)
<1> DEFINE block == DetailBlock(snapshot, first, symbols, interned)
           table == IF interned THEN StringTable(symbols) ELSE << >>
           defaults == SnapshotDefaults(snapshot, symbols, table)
           entries == [i \in DOMAIN symbols |-> SymbolDetail(symbols[i], defaults)]
           e == symbols[k]
           d == SymbolDetail(e, defaults)
           foreign == IF \E o \in ToSet(e.owner) : o.ordinal # << >> THEN << >> ELSE e.owner
           ids == [o \in DOMAIN foreign |-> foreign[o].id]
           kept == KeptOwner(e.owner)
<1>1. table \in Seq(LongStrings)
  <2>1. << >> \in Seq(LongStrings)
    OBVIOUS
  <2> QED
    BY <2>1, StringTableType
<1>2. /\ Len(symbols) \in Nat /\ DOMAIN symbols = 1 .. Len(symbols)
      /\ e \in EncodedDeclarations
  BY SeqIsFunction
<1>3. /\ e.qualified \in Seq(STRING) /\ e.modifiers \in Seq(STRING)
      /\ e.owner \in Seq(References)
  BY <1>2 DEF EncodedDeclarations
<1> HIDE DEF table
<1>4. block = [first |-> first, defaults |-> defaults, entries |-> entries]
  BY DEF DetailBlock, table
<1>5. /\ defaults.unit = snapshot.unit /\ defaults.provenances = snapshot.provenances
      /\ defaults.strings = table
      /\ defaults.provenance = CommonOption([i \in DOMAIN symbols |-> symbols[i].provenance])
  BY DEF SnapshotDefaults
<1> HIDE DEF block, defaults
<1>6. block.first = first /\ block.defaults = defaults /\ block.entries = entries
  BY <1>4
<1>7. entries[k] = d /\ DOMAIN entries = 1 .. Len(symbols)
  BY <1>2
<1> HIDE DEF entries
<1>8. ids = kept
  <2>1. CASE \E o \in ToSet(e.owner) : o.ordinal # << >>
    <3>1. foreign = << >>
      BY <2>1
    <3>2. [o \in DOMAIN << >> |-> << >>[o].id] = << >>
      OBVIOUS
    <3> QED
      BY <2>1, <3>1, <3>2 DEF KeptOwner
  <2>2. CASE ~(\E o \in ToSet(e.owner) : o.ordinal # << >>)
    BY <2>2 DEF KeptOwner
  <2> QED
    BY <2>1, <2>2
<1>9. kept \in Seq(STRING \cup {""})
  <2> DEFINE X == STRING \cup {""}
  <2>1. Len(e.owner) \in Nat /\ e.owner \in [1 .. Len(e.owner) -> References]
    BY <1>3, SeqIsFunction
  <2>2. [o \in DOMAIN e.owner |-> e.owner[o].id] \in [1 .. Len(e.owner) -> X]
    BY <2>1 DEF References
  <2> HIDE DEF X
  <2>3. [o \in DOMAIN e.owner |-> e.owner[o].id] \in Seq(X)
    BY <2>1, <2>2, FunctionIsSeq
  <2>4. << >> \in Seq(X)
    OBVIOUS
  <2>5. kept \in Seq(X)
    BY <2>3, <2>4 DEF KeptOwner
  <2> QED
    BY <2>5 DEF X
<1>10. /\ d.id = e.id
       /\ d.kind = Inline(table, e.kind)
       /\ d.qualified = [i \in DOMAIN e.qualified |-> Inline(table, e.qualified[i])]
       /\ d.owner = [i \in DOMAIN ids |-> Inline(table, ids[i])]
       /\ d.modifiers = InlineMany(table, e.modifiers)
       /\ d.language = Option(e.language # defaults.language, e.language)
       /\ d.provenance = IF e.provenance # defaults.provenance THEN e.provenance ELSE << >>
  BY <1>5 DEF SymbolDetail
<1> HIDE DEF ids, foreign, kept, d, e
<1>11. TextOf(d.kind, table) = e.kind
  BY <1>1, <1>10, InlineRoundTrip
<1> DEFINE qualified == e.qualified
           modifiers == e.modifiers
           qualifiedWritten == d.qualified
           ownerWritten == d.owner
           many == d.modifiers
<1>19. /\ qualified \in Seq(STRING) /\ modifiers \in Seq(STRING)
       /\ qualifiedWritten = Inlined(table, qualified)
       /\ ownerWritten = Inlined(table, kept)
       /\ many = InlineMany(table, modifiers)
  BY <1>3, <1>8, <1>10 DEF Inlined
<1> HIDE DEF qualified, modifiers, qualifiedWritten, ownerWritten, many
<1>12. Texts(table, qualifiedWritten) = qualified
  BY <1>1, <1>19, ListRoundTrip
<1>13. Texts(table, ownerWritten) = kept
  BY <1>1, <1>9, <1>19, ListRoundTrip
<1>14. (IF many.indexes = << >> THEN many.inline
        ELSE [i \in DOMAIN many.indexes |-> table[many.indexes[i] + 1]]) = modifiers
  BY <1>1, <1>19, InlineManyRoundTrip
<1>15. Or(d.language, defaults.language) = e.language
  BY <1>10, LanguageRoundTrip
<1>16. Or(d.provenance, Or(defaults.provenance, 0)) = Or(e.provenance, 0)
  <2> DEFINE values == [i \in DOMAIN symbols |-> symbols[i].provenance]
  <2>1. DOMAIN values = 1 .. Len(symbols) /\ values[k] = e.provenance
    BY <1>2 DEF e
  <2> HIDE DEF values
  <2>2. CommonOption(values) = << >> \/ CommonOption(values) = values[k]
    BY <1>2, <2>1, CommonOptionCases
  <2>3. defaults.provenance = << >> \/ defaults.provenance = e.provenance
    BY <1>5, <2>1, <2>2 DEF values
  <2> QED
    BY <1>10, <2>3, ProvenanceRoundTrip
<1>17. DecodedDetail(block, d) =
         [id |-> e.id, kind |-> e.kind, qualified |-> e.qualified, owner |-> kept,
          modifiers |-> e.modifiers, language |-> e.language,
          provenance |-> snapshot.provenances[Or(e.provenance, 0) + 1], unit |-> snapshot.unit]
  BY <1>5, <1>6, <1>10, <1>11, <1>12, <1>13, <1>14, <1>15, <1>16
     DEF DecodedDetail, Texts, qualified, modifiers, qualifiedWritten, ownerWritten, many
<1>18. DecodedDetail(block, d) = Kept(e, snapshot)
  BY <1>17 DEF Kept, Declaration, kept
<1> QED
  BY <1>6, <1>7, <1>18 DEF block, d, e

-----------------------------------------------------------------------------
(* The graph of a GraphFacts section, written and read back.                *)

LEMMA GraphType ==
    ASSUME NEW graph, IsGraph(graph)
    PROVE  /\ graph \in Seq(Snapshots)
           /\ Len(graph) \in Nat /\ DOMAIN graph = 1 .. Len(graph)
           /\ \A n \in 1 .. Len(graph) :
                /\ graph[n] \in Snapshots
                /\ graph[n].symbols \in Seq(Declarations)
                /\ graph[n].hierarchy \in Seq([subtype : STRING, supertype : STRING])
           /\ InOrder(graph)
           /\ Symbols(graph) \in Seq(Declarations)
<1>1. graph \in Seq(Snapshots)
  BY DEF IsGraph
<1>2. /\ Len(graph) \in Nat /\ DOMAIN graph = 1 .. Len(graph)
      /\ graph \in [1 .. Len(graph) -> Snapshots]
  BY <1>1, SeqIsFunction
<1>3. \A n \in 1 .. Len(graph) :
         /\ graph[n] \in Snapshots
         /\ graph[n].symbols \in Seq(Declarations)
         /\ graph[n].hierarchy \in Seq([subtype : STRING, supertype : STRING])
  BY <1>2 DEF Snapshots
<1>4. \A n \in 1 .. Len(graph) : graph[n].symbols \in Seq(Declarations)
  BY <1>3
<1>5. InOrder(graph) /\ Symbols(graph) \in Seq(Declarations)
  BY <1>1, <1>4, GraphInOrder
<1> QED
  BY <1>1, <1>2, <1>3, <1>5

\* The ordinal of a local declaration is a place where its ID is.
LEMMA OrdinalPlace ==
    ASSUME NEW graph, IsGraph(graph), NEW id \in Ids(graph)
    PROVE  /\ OrdinalOf(graph, id) \in Nat
           /\ OrdinalOf(graph, id) < Len(Symbols(graph))
           /\ Symbols(graph)[OrdinalOf(graph, id) + 1].id = id
<1> DEFINE all == Symbols(graph)
           places == {i \in 1 .. Len(all) : all[i].id = id}
<1>1. Len(all) \in Nat /\ DOMAIN all = 1 .. Len(all)
  BY GraphType DEF InOrder
<1>2. places # {} /\ places \subseteq Nat
  BY <1>1 DEF Ids
<1>3. OrdinalOf(graph, id) = Min(places) - 1
  <2>1. SelectInSeq(all, LAMBDA s : s.id = id) = Min(places)
    BY <1>2 DEF SelectInSeq
  <2> QED
    BY <2>1 DEF OrdinalOf
<1>4. Min(places) \in places
  <2> HIDE DEF places
  <2> QED
    BY <1>2, MinIsLeast
<1>5. /\ Min(places) \in Nat /\ Min(places) >= 1 /\ Min(places) <= Len(all)
      /\ all[Min(places)].id = id
  BY <1>1, <1>4
<1> HIDE DEF places, all
<1>6. Min(places) - 1 \in Nat /\ Min(places) - 1 < Len(all) /\ Min(places) - 1 + 1 = Min(places)
  BY <1>1, <1>5
<1> QED
  BY <1>3, <1>5, <1>6 DEF all

\* The IDs of the symbols of a graph, as its dictionary has them.
IdsInOrder(ids, graph) ==
    /\ Len(ids) = Len(Symbols(graph))
    /\ \A i \in 1 .. Len(Symbols(graph)) : ids[i] = Symbols(graph)[i].id

\* A reference resolves to the ID it was made of.
LEMMA ReferenceRoundTrip ==
    ASSUME NEW graph, IsGraph(graph), NEW ordinalized \in BOOLEAN, NEW id \in STRING,
           NEW ids, IdsInOrder(ids, graph)
    PROVE  /\ Reference(graph, ordinalized, id) \in References
           /\ LocalId(Reference(graph, ordinalized, id), ids) = id
           /\ Reference(graph, ordinalized, id).ordinal # << >> => id \in Ids(graph)
           /\ Reference(graph, ordinalized, id).ordinal = << >>
                => Reference(graph, ordinalized, id).id = id
<1> DEFINE r == Reference(graph, ordinalized, id)
<1>1. CASE ordinalized /\ id \in Ids(graph)
  <2> DEFINE o == OrdinalOf(graph, id)
  <2>1. o \in Nat /\ o < Len(Symbols(graph)) /\ Symbols(graph)[o + 1].id = id
    BY <1>1, OrdinalPlace
  <2>2. r = [id |-> "", ordinal |-> <<o>>]
    BY <1>1 DEF Reference
  <2>3. Len(Symbols(graph)) \in Nat
    BY GraphType DEF InOrder
  <2> HIDE DEF o, r
  <2>4. r.id = "" /\ r.ordinal = <<o>> /\ DOMAIN r = {"id", "ordinal"}
    BY <2>2
  <2>5. <<o>> # << >> /\ <<o>>[1] = o /\ <<o>> \in Seq(Nat)
    BY <2>1
  <2>6. o + 1 \in 1 .. Len(Symbols(graph))
    BY <2>1, <2>3
  <2>7. ids[o + 1] = id
    BY <2>1, <2>6 DEF IdsInOrder
  <2>10. Len(ids) = Len(Symbols(graph))
    BY DEF IdsInOrder
  <2>8. LocalId(r, ids) = id
    BY <2>1, <2>4, <2>5, <2>7, <2>10 DEF LocalId
  <2>9. r \in References
    BY <2>2, <2>5 DEF References
  <2> QED
    BY <1>1, <2>4, <2>5, <2>8, <2>9 DEF r
<1>2. CASE ~(ordinalized /\ id \in Ids(graph))
  <2>1. r = [id |-> id, ordinal |-> << >>]
    BY <1>2 DEF Reference
  <2> HIDE DEF r
  <2>2. r.id = id /\ r.ordinal = << >>
    BY <2>1
  <2>3. << >> \in Seq(Nat)
    OBVIOUS
  <2>4. r \in References
    BY <2>1, <2>3 DEF References
  <2> QED
    BY <2>2, <2>4 DEF r, LocalId
<1> QED
  BY <1>1, <1>2

\* A declaration as its graph has it.
DeclaredFrom(s, snapshot) ==
    Declaration(s, s.owner, snapshot.provenances[s.provenance + 1], snapshot.unit)

LEMMA TwoFieldsReplaced ==
    ASSUME NEW s \in Declarations, NEW owner, NEW provenance
    PROVE  [s EXCEPT !.owner = owner, !.provenance = provenance]
              = [id |-> s.id, kind |-> s.kind, qualified |-> s.qualified, owner |-> owner,
                 modifiers |-> s.modifiers, language |-> s.language, provenance |-> provenance]
<1> DEFINE fields == {"id", "kind", "qualified", "owner", "modifiers", "language", "provenance"}
           new == [s EXCEPT !.owner = owner, !.provenance = provenance]
<1>1. DOMAIN s = fields
  BY DEF Declarations
<1>2. s = [f \in fields |-> s[f]]
  BY DEF Declarations
<1>3. new = [f \in fields |-> IF f = "provenance" THEN provenance
                             ELSE IF f = "owner" THEN owner ELSE s[f]]
  BY <1>1, <1>2
<1> HIDE DEF new
<1> QED
  BY <1>3 DEF new

LEMMA EncodedFields ==
    ASSUME NEW graph, IsGraph(graph), NEW ordinalized \in BOOLEAN, NEW s \in Declarations,
           NEW ids, IdsInOrder(ids, graph)
    PROVE  LET e == EncodedSymbol(graph, ordinalized, s)
           IN  /\ e \in EncodedDeclarations
               /\ e.id = s.id /\ e.kind = s.kind /\ e.qualified = s.qualified
               /\ e.modifiers = s.modifiers /\ e.language = s.language
               /\ e.owner = [o \in DOMAIN s.owner |-> Reference(graph, ordinalized, s.owner[o])]
               /\ Or(e.provenance, 0) = s.provenance
               /\ Len(e.owner) = Len(s.owner) /\ DOMAIN e.owner = 1 .. Len(s.owner)
               /\ s.owner \in [1 .. Len(s.owner) -> STRING]
<1> DEFINE e == EncodedSymbol(graph, ordinalized, s)
           owner == [o \in DOMAIN s.owner |-> Reference(graph, ordinalized, s.owner[o])]
           provenance == InheritedProvenanceIndex(s.provenance)
<1>1. /\ s.id \in STRING /\ s.kind \in STRING /\ s.qualified \in Seq(STRING)
      /\ s.owner \in Seq(STRING) /\ s.modifiers \in Seq(STRING) /\ s.language \in STRING
      /\ s.provenance \in Nat
  BY DEF Declarations
<1>2. /\ Len(s.owner) \in Nat /\ s.owner \in [1 .. Len(s.owner) -> STRING]
      /\ DOMAIN s.owner = 1 .. Len(s.owner)
  BY <1>1, SeqIsFunction
<1>3. \A o \in 1 .. Len(s.owner) : Reference(graph, ordinalized, s.owner[o]) \in References
  BY <1>2, ReferenceRoundTrip
<1>4. owner \in [1 .. Len(s.owner) -> References]
  BY <1>2, <1>3
<1>5. /\ owner \in Seq(References) /\ DOMAIN owner = 1 .. Len(s.owner)
      /\ Len(owner) = Len(s.owner)
  <2> HIDE DEF owner
  <2> QED
    BY <1>2, <1>4
<1>6. provenance \in Seq(Nat) /\ Or(provenance, 0) = s.provenance
  <2>1. CASE s.provenance = 0
    <3>1. provenance = << >>
      BY <2>1 DEF InheritedProvenanceIndex, Option
    <3>2. << >> \in Seq(Nat)
      OBVIOUS
    <3> QED
      BY <2>1, <3>1, <3>2 DEF Or
  <2>2. CASE s.provenance # 0
    <3>1. provenance = <<s.provenance>>
      BY <2>2 DEF InheritedProvenanceIndex, Option
    <3>2. <<s.provenance>> \in Seq(Nat) /\ <<s.provenance>> # << >>
          /\ <<s.provenance>>[1] = s.provenance
      BY <1>1
    <3> QED
      BY <3>1, <3>2 DEF Or
  <2> QED
    BY <2>1, <2>2
<1> HIDE DEF owner, provenance
<1>7. e = [id |-> s.id, kind |-> s.kind, qualified |-> s.qualified, owner |-> owner,
           modifiers |-> s.modifiers, language |-> s.language, provenance |-> provenance]
  <2>1. e = [s EXCEPT !.owner = owner, !.provenance = provenance]
    BY DEF EncodedSymbol, owner, provenance
  <2> HIDE DEF e
  <2> QED
    BY <2>1, TwoFieldsReplaced
<1> HIDE DEF e
<1>8. /\ e.id = s.id /\ e.kind = s.kind /\ e.qualified = s.qualified
      /\ e.modifiers = s.modifiers /\ e.language = s.language
      /\ e.owner = owner /\ e.provenance = provenance
  BY <1>7
<1>9. e \in EncodedDeclarations
  BY <1>1, <1>5, <1>6, <1>7 DEF EncodedDeclarations
<1> QED
  BY <1>2, <1>5, <1>6, <1>8, <1>9 DEF e, owner

\* A fact decodes to the declaration it was made of, whatever the writer.
LEMMA FactRoundTrip ==
    ASSUME NEW graph, IsGraph(graph), NEW ordinalized \in BOOLEAN, NEW s \in Declarations,
           NEW ids, IdsInOrder(ids, graph), NEW snapshot
    PROVE  DecodedSymbol(EncodedSymbol(graph, ordinalized, s), snapshot, ids)
              = DeclaredFrom(s, snapshot)
<1> DEFINE e == EncodedSymbol(graph, ordinalized, s)
<1>1. /\ e.id = s.id /\ e.kind = s.kind /\ e.qualified = s.qualified
      /\ e.modifiers = s.modifiers /\ e.language = s.language
      /\ e.owner = [o \in DOMAIN s.owner |-> Reference(graph, ordinalized, s.owner[o])]
      /\ Or(e.provenance, 0) = s.provenance
      /\ DOMAIN e.owner = 1 .. Len(s.owner)
      /\ s.owner \in [1 .. Len(s.owner) -> STRING]
  BY EncodedFields
<1> HIDE DEF e
<1>2. \A o \in 1 .. Len(s.owner) : LocalId(e.owner[o], ids) = s.owner[o]
  <2> SUFFICES ASSUME NEW o \in 1 .. Len(s.owner) PROVE LocalId(e.owner[o], ids) = s.owner[o]
    OBVIOUS
  <2> DEFINE owner == s.owner
  <2>1. owner \in [1 .. Len(owner) -> STRING] /\ DOMAIN owner = 1 .. Len(owner)
        /\ o \in 1 .. Len(owner)
    BY <1>1
  <2>2. e.owner = [i \in DOMAIN owner |-> Reference(graph, ordinalized, owner[i])]
    BY <1>1
  <2> HIDE DEF owner
  <2>3. owner[o] \in STRING
    BY <2>1
  <2>4. e.owner[o] = Reference(graph, ordinalized, owner[o])
    BY <2>1, <2>2
  <2>5. \A id \in STRING : LocalId(Reference(graph, ordinalized, id), ids) = id
    BY ReferenceRoundTrip
  <2>6. LocalId(e.owner[o], ids) = owner[o]
    BY <2>3, <2>4, <2>5
  <2> QED
    BY <2>6 DEF owner
<1>3. [o \in DOMAIN e.owner |-> LocalId(e.owner[o], ids)] = s.owner
  BY <1>1, <1>2
<1>4. DecodedSymbol(e, snapshot, ids)
        = Declaration(e, s.owner, snapshot.provenances[s.provenance + 1], snapshot.unit)
  BY <1>1, <1>3 DEF DecodedSymbol
<1> QED
  BY <1>1, <1>4 DEF DeclaredFrom, Declaration, e

\* Of an owner a detail keeps all or, when it is local and ordinalized, nothing.
LEMMA DetailKeeps ==
    ASSUME NEW graph, IsGraph(graph), NEW ordinalized \in BOOLEAN, NEW s \in Declarations,
           NEW ids, IdsInOrder(ids, graph), NEW snapshot
    PROVE  LET kept == Kept(EncodedSymbol(graph, ordinalized, s), snapshot)
           IN  \/ kept = DeclaredFrom(s, snapshot)
               \/ /\ kept = [DeclaredFrom(s, snapshot) EXCEPT !.owner = << >>]
                  /\ \E o \in ToSet(s.owner) : o \in Ids(graph)
<1> DEFINE e == EncodedSymbol(graph, ordinalized, s)
<1>1. /\ e.id = s.id /\ e.kind = s.kind /\ e.qualified = s.qualified
      /\ e.modifiers = s.modifiers /\ e.language = s.language
      /\ e.owner = [o \in DOMAIN s.owner |-> Reference(graph, ordinalized, s.owner[o])]
      /\ Or(e.provenance, 0) = s.provenance
      /\ DOMAIN e.owner = 1 .. Len(s.owner)
      /\ s.owner \in [1 .. Len(s.owner) -> STRING]
  BY EncodedFields
<1>2. Kept(e, snapshot)
        = [id |-> s.id, kind |-> s.kind, qualified |-> s.qualified, owner |-> KeptOwner(e.owner),
           modifiers |-> s.modifiers, language |-> s.language,
           provenance |-> snapshot.provenances[s.provenance + 1], unit |-> snapshot.unit]
  BY <1>1 DEF Kept, Declaration
<1>3. DeclaredFrom(s, snapshot)
        = [id |-> s.id, kind |-> s.kind, qualified |-> s.qualified, owner |-> s.owner,
           modifiers |-> s.modifiers, language |-> s.language,
           provenance |-> snapshot.provenances[s.provenance + 1], unit |-> snapshot.unit]
  BY DEF DeclaredFrom, Declaration
<1> HIDE DEF e
<1>4. \A o \in 1 .. Len(s.owner) :
         /\ s.owner[o] \in STRING
         /\ e.owner[o] = Reference(graph, ordinalized, s.owner[o])
  BY <1>1
<1>5. CASE \E o \in ToSet(e.owner) : o.ordinal # << >>
  <2>1. PICK o \in 1 .. Len(s.owner) : e.owner[o].ordinal # << >>
    BY <1>1, <1>5 DEF ToSet
  <2>2. s.owner[o] \in Ids(graph)
    BY <1>4, <2>1, ReferenceRoundTrip
  <2>3. s.owner[o] \in ToSet(s.owner)
    BY <1>1 DEF ToSet
  <2>4. KeptOwner(e.owner) = << >>
    BY <1>5 DEF KeptOwner
  <2>5. Kept(e, snapshot) = [DeclaredFrom(s, snapshot) EXCEPT !.owner = << >>]
    BY <1>2, <1>3, <2>4
  <2> QED
    BY <2>2, <2>3, <2>5 DEF e
<1>6. CASE ~(\E o \in ToSet(e.owner) : o.ordinal # << >>)
  <2>1. \A o \in 1 .. Len(s.owner) : e.owner[o].ordinal = << >>
    BY <1>1, <1>6 DEF ToSet
  <2>2. \A o \in 1 .. Len(s.owner) : e.owner[o].id = s.owner[o]
    <3> SUFFICES ASSUME NEW o \in 1 .. Len(s.owner) PROVE e.owner[o].id = s.owner[o]
      OBVIOUS
    <3> DEFINE id == s.owner[o]
    <3>1. id \in STRING /\ e.owner[o] = Reference(graph, ordinalized, id)
      BY <1>4
    <3>2. e.owner[o].ordinal = << >>
      BY <2>1
    <3> HIDE DEF id
    <3>3. Reference(graph, ordinalized, id).ordinal = << >>
      BY <3>1, <3>2
    <3>4. Reference(graph, ordinalized, id).id = id
      BY <3>1, <3>3, ReferenceRoundTrip
    <3> QED
      BY <3>1, <3>4 DEF id
  <2>3. KeptOwner(e.owner) = s.owner
    BY <1>1, <1>6, <2>2 DEF KeptOwner
  <2> QED
    BY <1>2, <1>3, <2>3 DEF e
<1> QED
  BY <1>5, <1>6

\* What is in a flattened sequence is in one of the sequences, and the reverse.
LEMMA FlattenRange ==
    ASSUME NEW S, NEW ss \in Seq(Seq(S))
    PROVE  /\ DOMAIN FlattenSeq(ss) = 1 .. Len(FlattenSeq(ss))
           /\ \A v : v \in ToSet(FlattenSeq(ss)) <=>
                       \E n \in 1 .. Len(ss) : \E k \in 1 .. Len(ss[n]) : v = ss[n][k]
<1> DEFINE all == FlattenSeq(ss)
<1>1. /\ all \in Seq(S)
      /\ Len(all) \in Nat
      /\ \A n \in 1 .. Len(ss) :
           /\ Offset(ss, n) \in Nat /\ Len(ss[n]) \in Nat
           /\ Offset(ss, n) + Len(ss[n]) <= Len(all)
           /\ \A k \in 1 .. Len(ss[n]) : all[Offset(ss, n) + k] = ss[n][k]
      /\ \A i \in 1 .. Len(all) :
           \E n \in 1 .. Len(ss) : \E k \in 1 .. Len(ss[n]) : i = Offset(ss, n) + k
  BY FlattenPlaces
<1>2. DOMAIN all = 1 .. Len(all)
  BY <1>1, SeqIsFunction
<1> HIDE DEF all
<1>3. ASSUME NEW v \in ToSet(all)
      PROVE  \E n \in 1 .. Len(ss) : \E k \in 1 .. Len(ss[n]) : v = ss[n][k]
  <2>1. PICK i \in 1 .. Len(all) : all[i] = v
    BY <1>2, <1>3 DEF ToSet
  <2>2. PICK n \in 1 .. Len(ss) : \E k \in 1 .. Len(ss[n]) : i = Offset(ss, n) + k
    BY <1>1
  <2>3. PICK k \in 1 .. Len(ss[n]) : i = Offset(ss, n) + k
    BY <2>2
  <2>4. all[Offset(ss, n) + k] = ss[n][k]
    BY <1>1
  <2> QED
    BY <2>1, <2>3, <2>4
<1>4. ASSUME NEW n \in 1 .. Len(ss), NEW k \in 1 .. Len(ss[n])
      PROVE  ss[n][k] \in ToSet(all)
  <2>1. /\ Offset(ss, n) \in Nat /\ Len(ss[n]) \in Nat
        /\ Offset(ss, n) + Len(ss[n]) <= Len(all)
        /\ all[Offset(ss, n) + k] = ss[n][k]
    BY <1>1
  <2>2. Offset(ss, n) + k \in 1 .. Len(all)
    BY <1>1, <2>1
  <2> QED
    BY <1>2, <2>1, <2>2 DEF ToSet
<1> QED
  BY <1>2, <1>3, <1>4 DEF all

LEMMA IdsOfGraph ==
    ASSUME NEW graph, IsGraph(graph)
    PROVE  \E ids : IdsInOrder(ids, graph)
<1>1. Len(Symbols(graph)) \in Nat
  BY GraphType DEF InOrder
<1> DEFINE all == [i \in 1 .. Len(Symbols(graph)) |-> Symbols(graph)[i].id]
<1>2. Len(all) = Len(Symbols(graph))
  BY <1>1
<1>3. \A i \in 1 .. Len(Symbols(graph)) : all[i] = Symbols(graph)[i].id
  OBVIOUS
<1> HIDE DEF all
<1>4. IdsInOrder(all, graph)
  BY <1>2, <1>3 DEF IdsInOrder
<1> QED
  BY <1>4

EdgesOfIds == [subtype : STRING, supertype : STRING]
EncodedEdges == [subtype : References, supertype : References]

LEMMA EdgeRoundTrip ==
    ASSUME NEW graph, IsGraph(graph), NEW ordinalized \in BOOLEAN,
           NEW ids, IdsInOrder(ids, graph), NEW edge \in EdgesOfIds
    PROVE  /\ EncodedEdge(graph, ordinalized, edge) \in EncodedEdges
           /\ DecodedEdge(EncodedEdge(graph, ordinalized, edge), ids) = edge
<1> DEFINE a == edge.subtype
           b == edge.supertype
           sub == Reference(graph, ordinalized, a)
           super == Reference(graph, ordinalized, b)
           e == EncodedEdge(graph, ordinalized, edge)
<1>1. a \in STRING /\ b \in STRING /\ edge = [subtype |-> a, supertype |-> b]
  BY DEF EdgesOfIds
<1> HIDE DEF a, b
<1>2. LocalId(sub, ids) = a /\ sub \in References
  BY <1>1, ReferenceRoundTrip
<1>3. LocalId(super, ids) = b /\ super \in References
  BY <1>1, ReferenceRoundTrip
<1> HIDE DEF sub, super
<1>4. e = [subtype |-> sub, supertype |-> super]
  BY DEF EncodedEdge, sub, super, a, b
<1> HIDE DEF e
<1>5. e.subtype = sub /\ e.supertype = super
  BY <1>4
<1>6. e \in EncodedEdges
  BY <1>2, <1>3, <1>4 DEF EncodedEdges
<1> QED
  BY <1>1, <1>2, <1>3, <1>5, <1>6 DEF DecodedEdge, e

\* What EncodedGraph does to a graph, snapshot by snapshot.
EncodedAs(enc, graph, ordinalized) ==
    /\ Len(enc) = Len(graph) /\ DOMAIN enc = 1 .. Len(graph)
    /\ enc = [n \in 1 .. Len(graph) |-> enc[n]]
    /\ \A n \in 1 .. Len(graph) :
        /\ enc[n].unit = graph[n].unit /\ enc[n].provenances = graph[n].provenances
        /\ enc[n].symbols \in Seq(EncodedDeclarations)
        /\ Len(enc[n].symbols) = Len(graph[n].symbols)
        /\ \A k \in 1 .. Len(graph[n].symbols) :
             enc[n].symbols[k] = EncodedSymbol(graph, ordinalized, graph[n].symbols[k])
        /\ Len(enc[n].hierarchy) = Len(graph[n].hierarchy)
        /\ enc[n].hierarchy \in Seq(EncodedEdges)
        /\ \A k \in 1 .. Len(graph[n].hierarchy) :
             enc[n].hierarchy[k] = EncodedEdge(graph, ordinalized, graph[n].hierarchy[k])

LEMMA EncodedGraphIs ==
    ASSUME NEW graph, IsGraph(graph), NEW ordinalized \in BOOLEAN
    PROVE  EncodedAs(EncodedGraph(graph, ordinalized), graph, ordinalized)
<1> DEFINE enc == EncodedGraph(graph, ordinalized)
<1>1. /\ Len(graph) \in Nat /\ DOMAIN graph = 1 .. Len(graph)
      /\ \A n \in 1 .. Len(graph) :
           /\ graph[n] \in Snapshots
           /\ graph[n].symbols \in Seq(Declarations)
           /\ graph[n].hierarchy \in Seq(EdgesOfIds)
  BY GraphType DEF EdgesOfIds
<1>2. /\ DOMAIN enc = 1 .. Len(graph)
      /\ \A n \in 1 .. Len(graph) : enc[n] = EncodedSnapshot(graph, ordinalized, graph[n])
      /\ Len(enc) = Len(graph)
      /\ enc = [n \in 1 .. Len(graph) |-> enc[n]]
  BY <1>1 DEF EncodedGraph
<1> HIDE DEF enc
<1>3. PICK ids : IdsInOrder(ids, graph)
  BY IdsOfGraph
<1>4. ASSUME NEW n \in 1 .. Len(graph)
      PROVE  /\ enc[n].unit = graph[n].unit /\ enc[n].provenances = graph[n].provenances
             /\ enc[n].symbols \in Seq(EncodedDeclarations)
             /\ Len(enc[n].symbols) = Len(graph[n].symbols)
             /\ \A k \in 1 .. Len(graph[n].symbols) :
                  enc[n].symbols[k] = EncodedSymbol(graph, ordinalized, graph[n].symbols[k])
             /\ Len(enc[n].hierarchy) = Len(graph[n].hierarchy)
             /\ enc[n].hierarchy \in Seq(EncodedEdges)
             /\ \A k \in 1 .. Len(graph[n].hierarchy) :
                  enc[n].hierarchy[k] = EncodedEdge(graph, ordinalized, graph[n].hierarchy[k])
  <2> DEFINE s == graph[n]
             symbols == [i \in DOMAIN s.symbols |-> EncodedSymbol(graph, ordinalized, s.symbols[i])]
             edges == [i \in DOMAIN s.hierarchy |-> EncodedEdge(graph, ordinalized, s.hierarchy[i])]
             m == Len(s.symbols)
             l == Len(s.hierarchy)
  <2>1. /\ m \in Nat /\ DOMAIN s.symbols = 1 .. m
        /\ s.symbols \in [1 .. m -> Declarations]
    BY <1>1, SeqIsFunction
  <2>2. /\ l \in Nat /\ DOMAIN s.hierarchy = 1 .. l
        /\ s.hierarchy \in [1 .. l -> EdgesOfIds]
    BY <1>1, SeqIsFunction
  <2>10. \A k \in 1 .. l : EncodedEdge(graph, ordinalized, s.hierarchy[k]) \in EncodedEdges
    BY <1>3, <2>2, EdgeRoundTrip
  <2>3. \A k \in 1 .. m : EncodedSymbol(graph, ordinalized, s.symbols[k]) \in EncodedDeclarations
    BY <1>3, <2>1, EncodedFields
  <2>4. /\ symbols \in [1 .. m -> EncodedDeclarations]
        /\ \A k \in 1 .. m : symbols[k] = EncodedSymbol(graph, ordinalized, s.symbols[k])
    BY <2>1, <2>3
  <2>5. /\ edges \in [1 .. l -> EncodedEdges]
        /\ \A k \in 1 .. l : edges[k] = EncodedEdge(graph, ordinalized, s.hierarchy[k])
    BY <2>2, <2>10
  <2>6. enc[n] = [s EXCEPT !.symbols = symbols, !.hierarchy = edges]
    BY <1>2 DEF EncodedSnapshot
  <2>7. s \in Snapshots
    BY <1>1
  <2> HIDE DEF symbols, edges
  <2>8. symbols \in Seq(EncodedDeclarations) /\ Len(symbols) = m
    BY <2>1, <2>4
  <2>11. edges \in Seq(EncodedEdges) /\ Len(edges) = l
    BY <2>2, <2>5
  <2> HIDE DEF s, m, l
  <2>9. /\ enc[n].unit = s.unit /\ enc[n].provenances = s.provenances
        /\ enc[n].symbols = symbols /\ enc[n].hierarchy = edges
    BY <2>6, <2>7 DEF Snapshots
  <2> QED
    BY <2>4, <2>5, <2>8, <2>9, <2>11 DEF s, m, l
<1> QED
  BY <1>2, <1>4 DEF EncodedAs, enc

\* Encoding moves no declaration.
EncodedInPlace(enc, graph, ordinalized) ==
    /\ Len(Symbols(enc)) = Len(Symbols(graph))
    /\ DOMAIN Symbols(enc) = 1 .. Len(Symbols(graph))
    /\ \A n \in 1 .. Len(graph) : FirstOrdinal(enc, n) = FirstOrdinal(graph, n)
    /\ \A i \in 1 .. Len(Symbols(graph)) :
         Symbols(enc)[i] = EncodedSymbol(graph, ordinalized, Symbols(graph)[i])

LEMMA EncodedPlaces ==
    ASSUME NEW graph, IsGraph(graph), NEW ordinalized \in BOOLEAN, NEW enc,
           EncodedAs(enc, graph, ordinalized)
    PROVE  EncodedInPlace(enc, graph, ordinalized) /\ InOrder(enc)
<1> DEFINE T == {enc[n] : n \in 1 .. Len(graph)}
           listsE == SymbolLists(enc)
           listsG == SymbolLists(graph)
<1>1. /\ Len(graph) \in Nat /\ graph \in Seq(Snapshots)
      /\ \A n \in 1 .. Len(graph) : graph[n].symbols \in Seq(Declarations)
      /\ InOrder(graph)
  BY GraphType
<1>2. /\ Len(enc) = Len(graph)
      /\ \A n \in 1 .. Len(enc) : enc[n].symbols \in Seq(EncodedDeclarations)
  BY DEF EncodedAs
<1>3. enc \in Seq(T)
  <2>1. enc = [n \in 1 .. Len(graph) |-> enc[n]]
    BY DEF EncodedAs
  <2>2. enc \in [1 .. Len(graph) -> T]
    BY <2>1
  <2> HIDE DEF T
  <2> QED
    BY <1>1, <2>2
<1> HIDE DEF T
<1>4. InOrder(enc)
  BY <1>2, <1>3, GraphInOrder
<1>5. /\ listsE \in Seq(Seq(EncodedDeclarations))
      /\ Len(listsE) = Len(enc)
      /\ \A n \in 1 .. Len(enc) : listsE[n] = enc[n].symbols
      /\ Symbols(enc) = FlattenSeq(listsE)
      /\ \A n \in 1 .. Len(enc) : FirstOrdinal(enc, n) = Offset(listsE, n)
  BY <1>2, <1>3, SymbolListsType
<1>6. /\ listsG \in Seq(Seq(Declarations))
      /\ Len(listsG) = Len(graph)
      /\ \A n \in 1 .. Len(graph) : listsG[n] = graph[n].symbols
      /\ Symbols(graph) = FlattenSeq(listsG)
      /\ \A n \in 1 .. Len(graph) : FirstOrdinal(graph, n) = Offset(listsG, n)
  BY <1>1, SymbolListsType
<1> HIDE DEF listsE, listsG
<1>7. \A n \in 1 .. Len(listsE) : Len(listsE[n]) = Len(listsG[n])
  <2> SUFFICES ASSUME NEW n \in 1 .. Len(listsE) PROVE Len(listsE[n]) = Len(listsG[n])
    OBVIOUS
  <2>1. n \in 1 .. Len(graph) /\ n \in 1 .. Len(enc)
    BY <1>2, <1>5
  <2>2. Len(enc[n].symbols) = Len(graph[n].symbols)
    BY <2>1 DEF EncodedAs
  <2>3. listsE[n] = enc[n].symbols /\ listsG[n] = graph[n].symbols
    BY <1>5, <1>6, <2>1
  <2> QED
    BY <2>2, <2>3
<1>8. Len(listsE) = Len(listsG)
  BY <1>2, <1>5, <1>6
<1>9. /\ Len(FlattenSeq(listsE)) = Len(FlattenSeq(listsG))
      /\ \A n \in 1 .. Len(listsE) : Offset(listsE, n) = Offset(listsG, n)
  BY <1>5, <1>6, <1>7, <1>8, SameOffsets
<1>10. Len(Symbols(enc)) = Len(Symbols(graph))
  BY <1>5, <1>6, <1>9
<1>11. \A n \in 1 .. Len(graph) : FirstOrdinal(enc, n) = FirstOrdinal(graph, n)
  BY <1>2, <1>5, <1>6, <1>9
<1>12. ASSUME NEW i \in 1 .. Len(Symbols(graph))
       PROVE  Symbols(enc)[i] = EncodedSymbol(graph, ordinalized, Symbols(graph)[i])
  <2>1. PICK n \in 1 .. Len(graph) : \E k \in 1 .. Len(graph[n].symbols) :
               i = FirstOrdinal(graph, n) + k
    BY <1>1 DEF InOrder
  <2>2. PICK k \in 1 .. Len(graph[n].symbols) : i = FirstOrdinal(graph, n) + k
    BY <2>1
  <2>3. Symbols(graph)[i] = graph[n].symbols[k]
    BY <1>1, <2>2 DEF InOrder
  <2>4. n \in 1 .. Len(enc) /\ k \in 1 .. Len(enc[n].symbols)
    BY <1>2 DEF EncodedAs
  <2>5. Symbols(enc)[FirstOrdinal(enc, n) + k] = enc[n].symbols[k]
    BY <1>4, <2>4 DEF InOrder
  <2>6. enc[n].symbols[k] = EncodedSymbol(graph, ordinalized, graph[n].symbols[k])
    BY DEF EncodedAs
  <2> QED
    BY <1>11, <2>2, <2>3, <2>5, <2>6
<1>13. DOMAIN Symbols(enc) = 1 .. Len(Symbols(enc))
  BY <1>4 DEF InOrder
<1> QED
  BY <1>4, <1>10, <1>11, <1>12, <1>13 DEF EncodedInPlace

DeclaredIn(graph) ==
    UNION {{DeclaredFrom(s.symbols[i], s) : i \in DOMAIN s.symbols} : s \in ToSet(graph)}

LEMMA DeclaredWhere ==
    ASSUME NEW graph, IsGraph(graph)
    PROVE  \A d : d \in DeclaredIn(graph) <=>
             \E n \in 1 .. Len(graph) : \E k \in 1 .. Len(graph[n].symbols) :
                d = DeclaredFrom(graph[n].symbols[k], graph[n])
<1>1. /\ Len(graph) \in Nat /\ DOMAIN graph = 1 .. Len(graph)
      /\ \A n \in 1 .. Len(graph) : graph[n].symbols \in Seq(Declarations)
  BY GraphType
<1>2. \A n \in 1 .. Len(graph) : DOMAIN graph[n].symbols = 1 .. Len(graph[n].symbols)
  BY <1>1, SeqIsFunction
<1>3. ASSUME NEW d, d \in DeclaredIn(graph)
      PROVE  \E n \in 1 .. Len(graph) : \E k \in 1 .. Len(graph[n].symbols) :
                d = DeclaredFrom(graph[n].symbols[k], graph[n])
  <2>1. PICK s \in ToSet(graph) : d \in {DeclaredFrom(s.symbols[i], s) : i \in DOMAIN s.symbols}
    BY <1>3 DEF DeclaredIn
  <2>2. PICK n \in 1 .. Len(graph) : s = graph[n]
    BY <1>1 DEF ToSet
  <2> QED
    BY <1>2, <2>1, <2>2
<1>4. ASSUME NEW n \in 1 .. Len(graph), NEW k \in 1 .. Len(graph[n].symbols)
      PROVE  DeclaredFrom(graph[n].symbols[k], graph[n]) \in DeclaredIn(graph)
  <2>1. graph[n] \in ToSet(graph) /\ k \in DOMAIN graph[n].symbols
    BY <1>1, <1>2 DEF ToSet
  <2> QED
    BY <2>1 DEF DeclaredIn
<1> QED
  BY <1>3, <1>4

\* The same of the edges of a graph of m snapshots.
HasEdges(graph, m, S) ==
    DOMAIN graph = 1 .. m /\ \A n \in 1 .. m : graph[n].hierarchy \in Seq(S)
EdgesAre(graph, m) ==
    /\ DOMAIN Edges(graph) = 1 .. Len(Edges(graph))
    /\ \A v : v \in ToSet(Edges(graph)) <=>
         \E n \in 1 .. m : \E k \in 1 .. Len(graph[n].hierarchy) : v = graph[n].hierarchy[k]

LEMMA EdgesWhere ==
    ASSUME NEW S, NEW graph, NEW m \in Nat, HasEdges(graph, m, S)
    PROVE  EdgesAre(graph, m)
<1> DEFINE Q == Seq(S)
           lists == [i \in DOMAIN graph |-> graph[i].hierarchy]
<1>1. lists \in [1 .. m -> Q] /\ \A n \in 1 .. m : lists[n] = graph[n].hierarchy
  BY DEF HasEdges
<1> HIDE DEF Q
<1>2. lists \in Seq(Q) /\ Len(lists) = m
  BY <1>1
<1>3. Edges(graph) = FlattenSeq(lists)
  BY DEF Edges
<1> HIDE DEF lists
<1>4. lists \in Seq(Seq(S))
  BY <1>2 DEF Q
<1>5. /\ DOMAIN FlattenSeq(lists) = 1 .. Len(FlattenSeq(lists))
      /\ \A v : v \in ToSet(FlattenSeq(lists)) <=>
            \E n \in 1 .. Len(lists) : \E k \in 1 .. Len(lists[n]) : v = lists[n][k]
  BY <1>4, FlattenRange
<1>6. ASSUME NEW v
      PROVE  v \in ToSet(Edges(graph)) <=>
               \E n \in 1 .. m : \E k \in 1 .. Len(graph[n].hierarchy) : v = graph[n].hierarchy[k]
  <2>1. v \in ToSet(Edges(graph)) <=>
          \E n \in 1 .. m : \E k \in 1 .. Len(lists[n]) : v = lists[n][k]
    BY <1>2, <1>3, <1>5
  <2> QED
    BY <1>1, <2>1
<1> QED
  BY <1>3, <1>5, <1>6 DEF EdgesAre

(* Decoding the GraphFacts of a payload gives back every declaration and    *)
(* every edge of the graph that was encoded, whether its references were    *)
(* made ordinals or not (encode_snapshots and decode_graph_artifact).       *)
THEOREM GraphRoundTrip ==
    ASSUME NEW graph, IsGraph(graph), NEW ordinalized \in BOOLEAN
    PROVE  LET decoded == DecodedGraph(EncodedGraph(graph, ordinalized))
           IN  /\ decoded.symbols = DeclaredIn(graph)
               /\ decoded.hierarchy = ToSet(Edges(graph))
<1> DEFINE enc == EncodedGraph(graph, ordinalized)
           ids == [i \in DOMAIN Symbols(enc) |-> Symbols(enc)[i].id]
           symbols == UNION {{DecodedSymbol(s.symbols[i], s, ids) : i \in DOMAIN s.symbols} :
                               s \in ToSet(enc)}
           edges == {DecodedEdge(Edges(enc)[i], ids) : i \in DOMAIN Edges(enc)}
<1>1. EncodedAs(enc, graph, ordinalized)
  BY EncodedGraphIs
<1> HIDE DEF enc
<1>2. EncodedInPlace(enc, graph, ordinalized)
  BY <1>1, EncodedPlaces
<1>3. /\ Len(graph) \in Nat /\ DOMAIN graph = 1 .. Len(graph)
      /\ \A n \in 1 .. Len(graph) :
           /\ graph[n] \in Snapshots
           /\ graph[n].symbols \in Seq(Declarations)
           /\ graph[n].hierarchy \in Seq(EdgesOfIds)
      /\ Symbols(graph) \in Seq(Declarations)
      /\ Len(Symbols(graph)) \in Nat
  BY GraphType DEF InOrder, EdgesOfIds
<1>4. IdsInOrder(ids, graph)
  <2>1. DOMAIN ids = 1 .. Len(Symbols(graph)) /\ Len(ids) = Len(Symbols(graph))
    BY <1>2, <1>3 DEF EncodedInPlace
  <2>2. ASSUME NEW i \in 1 .. Len(Symbols(graph)) PROVE ids[i] = Symbols(graph)[i].id
    <3>1. Symbols(enc)[i] = EncodedSymbol(graph, ordinalized, Symbols(graph)[i])
      BY <1>2 DEF EncodedInPlace
    <3>2. Symbols(graph)[i] \in Declarations
      BY <1>3
    <3>3. PICK some : IdsInOrder(some, graph)
      BY IdsOfGraph
    <3>4. EncodedSymbol(graph, ordinalized, Symbols(graph)[i]).id = Symbols(graph)[i].id
      BY <3>2, <3>3, EncodedFields
    <3>5. ids[i] = Symbols(enc)[i].id
      BY <2>1
    <3> QED
      BY <3>1, <3>4, <3>5
  <2> HIDE DEF ids
  <2> QED
    BY <2>1, <2>2 DEF IdsInOrder
<1>5. DecodedGraph(enc).symbols = symbols /\ DecodedGraph(enc).hierarchy = edges
  BY DEF DecodedGraph
<1> HIDE DEF ids
<1>6. DOMAIN enc = 1 .. Len(graph)
  BY <1>1 DEF EncodedAs
<1>7. ASSUME NEW n \in 1 .. Len(graph)
      PROVE  /\ DOMAIN enc[n].symbols = 1 .. Len(graph[n].symbols)
             /\ \A k \in 1 .. Len(graph[n].symbols) :
                  DecodedSymbol(enc[n].symbols[k], enc[n], ids)
                    = DeclaredFrom(graph[n].symbols[k], graph[n])
  <2>1. /\ enc[n].unit = graph[n].unit /\ enc[n].provenances = graph[n].provenances
        /\ enc[n].symbols \in Seq(EncodedDeclarations)
        /\ Len(enc[n].symbols) = Len(graph[n].symbols)
        /\ \A k \in 1 .. Len(graph[n].symbols) :
             enc[n].symbols[k] = EncodedSymbol(graph, ordinalized, graph[n].symbols[k])
    BY <1>1 DEF EncodedAs
  <2>2. DOMAIN enc[n].symbols = 1 .. Len(graph[n].symbols)
    BY <2>1, SeqIsFunction
  <2>3. ASSUME NEW k \in 1 .. Len(graph[n].symbols)
        PROVE  DecodedSymbol(enc[n].symbols[k], enc[n], ids)
                 = DeclaredFrom(graph[n].symbols[k], graph[n])
    <3> DEFINE s == graph[n].symbols[k]
    <3>1. s \in Declarations
      BY <1>3
    <3>2. enc[n].symbols[k] = EncodedSymbol(graph, ordinalized, s)
      BY <2>1
    <3> HIDE DEF s
    <3>3. DecodedSymbol(EncodedSymbol(graph, ordinalized, s), graph[n], ids)
            = DeclaredFrom(s, graph[n])
      BY <1>4, <3>1, FactRoundTrip
    <3>4. DecodedSymbol(EncodedSymbol(graph, ordinalized, s), enc[n], ids)
            = DecodedSymbol(EncodedSymbol(graph, ordinalized, s), graph[n], ids)
      BY <2>1 DEF DecodedSymbol
    <3> QED
      BY <3>2, <3>3, <3>4 DEF s
  <2> QED
    BY <2>2, <2>3
<1>8. symbols = DeclaredIn(graph)
  <2>1. ASSUME NEW d \in symbols PROVE d \in DeclaredIn(graph)
    <3>1. PICK s \in ToSet(enc) : d \in {DecodedSymbol(s.symbols[i], s, ids) : i \in DOMAIN s.symbols}
      OBVIOUS
    <3>2. PICK n \in 1 .. Len(graph) : s = enc[n]
      BY <1>6 DEF ToSet
    <3>3. PICK k \in 1 .. Len(graph[n].symbols) : d = DecodedSymbol(enc[n].symbols[k], enc[n], ids)
      BY <1>7, <3>1, <3>2
    <3>4. d = DeclaredFrom(graph[n].symbols[k], graph[n])
      BY <1>7, <3>3
    <3> QED
      BY <3>4, DeclaredWhere
  <2>2. ASSUME NEW d \in DeclaredIn(graph) PROVE d \in symbols
    <3>1. PICK n \in 1 .. Len(graph) : \E k \in 1 .. Len(graph[n].symbols) :
                d = DeclaredFrom(graph[n].symbols[k], graph[n])
      BY DeclaredWhere
    <3>2. PICK k \in 1 .. Len(graph[n].symbols) : d = DeclaredFrom(graph[n].symbols[k], graph[n])
      BY <3>1
    <3>3. d = DecodedSymbol(enc[n].symbols[k], enc[n], ids) /\ k \in DOMAIN enc[n].symbols
      BY <1>7, <3>2
    <3>4. enc[n] \in ToSet(enc)
      BY <1>6 DEF ToSet
    <3> QED
      BY <3>3, <3>4
  <2> HIDE DEF symbols
  <2> QED
    BY <2>1, <2>2
<1>9. edges = ToSet(Edges(graph))
  <2>1. ASSUME NEW n \in 1 .. Len(graph)
        PROVE  /\ Len(enc[n].hierarchy) = Len(graph[n].hierarchy)
               /\ enc[n].hierarchy \in Seq(EncodedEdges)
               /\ \A k \in 1 .. Len(graph[n].hierarchy) :
                    DecodedEdge(enc[n].hierarchy[k], ids) = graph[n].hierarchy[k]
    <3>1. /\ Len(enc[n].hierarchy) = Len(graph[n].hierarchy)
          /\ enc[n].hierarchy \in Seq(EncodedEdges)
          /\ \A k \in 1 .. Len(graph[n].hierarchy) :
               enc[n].hierarchy[k] = EncodedEdge(graph, ordinalized, graph[n].hierarchy[k])
      BY <1>1 DEF EncodedAs
    <3>2. ASSUME NEW k \in 1 .. Len(graph[n].hierarchy)
          PROVE  DecodedEdge(enc[n].hierarchy[k], ids) = graph[n].hierarchy[k]
      <4>1. graph[n].hierarchy[k] \in EdgesOfIds
        BY <1>3
      <4> QED
        BY <1>4, <3>1, <4>1, EdgeRoundTrip
    <3> QED
      BY <3>1, <3>2
  <2>2. EdgesAre(enc, Len(graph))
    <3>1. HasEdges(enc, Len(graph), EncodedEdges)
      BY <1>6, <2>1 DEF HasEdges
    <3>2. Len(graph) \in Nat
      BY <1>3
    <3> QED
      BY <3>1, <3>2, EdgesWhere
  <2>3. EdgesAre(graph, Len(graph))
    <3>1. HasEdges(graph, Len(graph), EdgesOfIds)
      BY <1>3 DEF HasEdges
    <3>2. Len(graph) \in Nat
      BY <1>3
    <3> QED
      BY <3>1, <3>2, EdgesWhere
  <2>4. ASSUME NEW v \in edges PROVE v \in ToSet(Edges(graph))
    <3>1. PICK w \in ToSet(Edges(enc)) : v = DecodedEdge(w, ids)
      BY DEF ToSet
    <3>2. PICK n \in 1 .. Len(graph) : \E k \in 1 .. Len(enc[n].hierarchy) :
                w = enc[n].hierarchy[k]
      BY <2>2 DEF EdgesAre
    <3>3. PICK k \in 1 .. Len(enc[n].hierarchy) : w = enc[n].hierarchy[k]
      BY <3>2
    <3>4. k \in 1 .. Len(graph[n].hierarchy) /\ v = graph[n].hierarchy[k]
      BY <2>1, <3>1, <3>3
    <3> QED
      BY <2>3, <3>4 DEF EdgesAre
  <2>5. ASSUME NEW v \in ToSet(Edges(graph)) PROVE v \in edges
    <3>1. PICK n \in 1 .. Len(graph) : \E k \in 1 .. Len(graph[n].hierarchy) :
                v = graph[n].hierarchy[k]
      BY <2>3 DEF EdgesAre
    <3>2. PICK k \in 1 .. Len(graph[n].hierarchy) : v = graph[n].hierarchy[k]
      BY <3>1
    <3>3. k \in 1 .. Len(enc[n].hierarchy) /\ v = DecodedEdge(enc[n].hierarchy[k], ids)
      BY <2>1, <3>2
    <3>4. enc[n].hierarchy[k] \in ToSet(Edges(enc))
      BY <2>2, <3>3 DEF EdgesAre
    <3>5. PICK i \in DOMAIN Edges(enc) : Edges(enc)[i] = enc[n].hierarchy[k]
      BY <3>4 DEF ToSet
    <3> QED
      BY <3>3, <3>5
  <2> HIDE DEF edges
  <2> QED
    BY <2>4, <2>5
<1> QED
  BY <1>5, <1>8, <1>9 DEF enc

-----------------------------------------------------------------------------
(* The detail blocks of a graph.                                            *)

LEMMA Division ==
    ASSUME NEW a \in Nat, NEW b \in Nat \ {0}
    PROVE  /\ a \div b \in Nat
           /\ b * (a \div b) <= a
           /\ a < b * (a \div b) + b
  OBVIOUS

LEMMA Products ==
    ASSUME NEW a \in Nat, NEW b \in Nat, NEW c \in Nat, a <= b
    PROVE  c * a <= c * b /\ c * a \in Nat /\ c * (a + 1) = c * a + c /\ c * a = a * c
  OBVIOUS

\* The cth block of l declarations has those after From(c), up to To(l, c).
From(c) == (c - 1) * Capacity
To(l, c) == IF From(c) + Capacity < l THEN From(c) + Capacity ELSE l
Chunks(l) == (l + Capacity - 1) \div Capacity

LEMMA ChunkBounds ==
    ASSUME NEW l \in Nat, NEW c \in 1 .. Chunks(l)
    PROVE  From(c) \in Nat /\ To(l, c) \in Nat /\ From(c) < To(l, c) /\ To(l, c) <= l
<1> DEFINE q == Chunks(l)
           m == c - 1
<1>1. Capacity \in Nat \ {0}
  BY LayoutAssumption
<1>2. l + Capacity - 1 \in Nat
  BY <1>1
<1>3. q \in Nat /\ Capacity * q <= l + Capacity - 1
  BY <1>1, <1>2, Division DEF Chunks
<1> HIDE DEF q
<1>4. m \in Nat /\ m + 1 <= q /\ m + 1 \in Nat
  BY <1>3 DEF q
<1>5. Capacity * (m + 1) <= Capacity * q
  BY <1>1, <1>3, <1>4, Products
<1>6. Capacity * (m + 1) = Capacity * m + Capacity /\ Capacity * m \in Nat /\ Capacity * m = m * Capacity
  BY <1>1, <1>4, Products
<1>7. From(c) = m * Capacity
  BY DEF From
<1> HIDE DEF m
<1>8. From(c) \in Nat /\ From(c) < l
  BY <1>1, <1>3, <1>5, <1>6, <1>7
<1> QED
  BY <1>1, <1>8 DEF To

LEMMA ChunkCovers ==
    ASSUME NEW l \in Nat, NEW k \in 1 .. l
    PROVE  \E c \in 1 .. Chunks(l) : From(c) < k /\ k <= To(l, c)
<1> DEFINE q == Chunks(l)
           m == (k - 1) \div Capacity
<1>1. Capacity \in Nat \ {0}
  BY LayoutAssumption
<1>2. l + Capacity - 1 \in Nat /\ k - 1 \in Nat
  BY <1>1
<1>3. q \in Nat /\ l + Capacity - 1 < Capacity * q + Capacity
  BY <1>1, <1>2, Division DEF Chunks
<1>4. m \in Nat /\ Capacity * m <= k - 1 /\ k - 1 < Capacity * m + Capacity
  BY <1>1, <1>2, Division
<1> HIDE DEF q, m
<1>5. m + 1 <= q
  <2> SUFFICES ASSUME ~(m + 1 <= q) PROVE FALSE
    OBVIOUS
  <2>1. q <= m
    BY <1>3, <1>4
  <2>2. Capacity * q <= Capacity * m /\ Capacity * q \in Nat
    BY <1>1, <1>3, <1>4, <2>1, Products
  <2>3. Capacity * m \in Nat
    BY <1>1, <1>4, Products
  <2> QED
    BY <1>1, <1>3, <1>4, <2>2, <2>3
<1>6. From(m + 1) = Capacity * m /\ Capacity * m \in Nat
  <2>1. Capacity * m = m * Capacity /\ Capacity * m \in Nat
    BY <1>1, <1>4, Products
  <2>2. (m + 1) - 1 = m
    BY <1>4
  <2>3. From(m + 1) = ((m + 1) - 1) * Capacity
    BY DEF From
  <2> QED
    BY <2>1, <2>2, <2>3
<1>7. m + 1 \in 1 .. q
  BY <1>3, <1>4, <1>5
<1>8. From(m + 1) < k /\ k <= To(l, m + 1)
  BY <1>1, <1>4, <1>6 DEF To
<1> QED
  BY <1>7, <1>8 DEF q

\* The declaration that has an ordinal.
DeclAt(graph, ordinal) ==
    CHOOSE d : \E n \in 1 .. Len(graph) : \E k \in 1 .. Len(graph[n].symbols) :
        ordinal + 1 = FirstOrdinal(graph, n) + k /\ d = DeclaredFrom(graph[n].symbols[k], graph[n])

LEMMA DeclAtIs ==
    ASSUME NEW graph, IsGraph(graph),
           NEW n \in 1 .. Len(graph), NEW k \in 1 .. Len(graph[n].symbols),
           NEW o \in Nat, o + 1 = FirstOrdinal(graph, n) + k
    PROVE  DeclAt(graph, o) = DeclaredFrom(graph[n].symbols[k], graph[n])
<1> DEFINE Is(d) == \E m \in 1 .. Len(graph) : \E l \in 1 .. Len(graph[m].symbols) :
                       /\ o + 1 = FirstOrdinal(graph, m) + l
                       /\ d = DeclaredFrom(graph[m].symbols[l], graph[m])
           e == DeclaredFrom(graph[n].symbols[k], graph[n])
<1>1. Is(e)
  OBVIOUS
<1>2. ASSUME NEW d, Is(d) PROVE d = e
  <2>1. PICK m \in 1 .. Len(graph) : \E l \in 1 .. Len(graph[m].symbols) :
             /\ o + 1 = FirstOrdinal(graph, m) + l
             /\ d = DeclaredFrom(graph[m].symbols[l], graph[m])
    BY <1>2
  <2>2. PICK l \in 1 .. Len(graph[m].symbols) :
             /\ o + 1 = FirstOrdinal(graph, m) + l
             /\ d = DeclaredFrom(graph[m].symbols[l], graph[m])
    BY <2>1
  <2>3. FirstOrdinal(graph, m) + l = FirstOrdinal(graph, n) + k
    BY <2>2
  <2>4. /\ graph \in Seq(Snapshots)
        /\ \A i \in 1 .. Len(graph) : graph[i].symbols \in Seq(Declarations)
    BY GraphType
  <2>5. m = n /\ l = k
    BY <2>3, <2>4, OneOrdinal
  <2> QED
    BY <2>2, <2>5
<1>3. DeclAt(graph, o) = CHOOSE d : Is(d)
  BY DEF DeclAt
<1> HIDE DEF Is, e
<1>4. DeclAt(graph, o) = e
  BY <1>1, <1>2, <1>3
<1> QED
  BY <1>4 DEF e

\* Every ordinal has a place.
LEMMA OrdinalHasPlace ==
    ASSUME NEW graph, IsGraph(graph), NEW o \in Nat, o < Len(Symbols(graph))
    PROVE  \E n \in 1 .. Len(graph) : \E k \in 1 .. Len(graph[n].symbols) :
              /\ o + 1 = FirstOrdinal(graph, n) + k
              /\ Symbols(graph)[o + 1] = graph[n].symbols[k]
              /\ DeclAt(graph, o) = DeclaredFrom(graph[n].symbols[k], graph[n])
<1>1. InOrder(graph)
  BY GraphType
<1>2. o + 1 \in 1 .. Len(Symbols(graph))
  BY <1>1 DEF InOrder
<1>3. PICK n \in 1 .. Len(graph) : \E k \in 1 .. Len(graph[n].symbols) :
             o + 1 = FirstOrdinal(graph, n) + k
  BY <1>1, <1>2 DEF InOrder
<1>4. PICK k \in 1 .. Len(graph[n].symbols) : o + 1 = FirstOrdinal(graph, n) + k
  BY <1>3
<1>5. Symbols(graph)[o + 1] = graph[n].symbols[k]
  BY <1>1, <1>4 DEF InOrder
<1>6. DeclAt(graph, o) = DeclaredFrom(graph[n].symbols[k], graph[n])
  BY <1>4, DeclAtIs
<1> QED
  BY <1>4, <1>5, <1>6

\* d is e, or e without its owner when that is local: what Comparable ignores.
Near(d, e, graph) ==
    \/ d = e
    \/ d = [e EXCEPT !.owner = << >>] /\ \E o \in ToSet(e.owner) : o \in Ids(graph)

BlockOf(enc, n, c, interned) ==
    DetailBlock(enc[n], FirstOrdinal(enc, n) + From(c),
                SubSeq(enc[n].symbols, From(c) + 1, To(Len(enc[n].symbols), c)), interned)

\* The cth block of a snapshot has the entries of its declarations, in order.
BlockRight(b, graph, n, c) ==
    LET l == Len(graph[n].symbols)
    IN  /\ b.first = FirstOrdinal(graph, n) + From(c)
        /\ Len(b.entries) = To(l, c) - From(c)
        /\ DOMAIN b.entries = 1 .. (To(l, c) - From(c))
        /\ \A k \in 1 .. (To(l, c) - From(c)) :
             Near(DecodedDetail(b, b.entries[k]),
                  DeclaredFrom(graph[n].symbols[From(c) + k], graph[n]), graph)

LEMMA SubSeqIs ==
    ASSUME NEW S, NEW s \in Seq(S), NEW i \in Nat, NEW j \in Nat, i < j, j <= Len(s)
    PROVE  /\ SubSeq(s, i + 1, j) \in Seq(S)
           /\ Len(SubSeq(s, i + 1, j)) = j - i
           /\ \A k \in 1 .. (j - i) : SubSeq(s, i + 1, j)[k] = s[i + k]
  BY SubSeqProperties

LEMMA BlockIsRight ==
    ASSUME NEW graph, IsGraph(graph), NEW ordinalized \in BOOLEAN, NEW interned \in BOOLEAN,
           NEW enc, EncodedAs(enc, graph, ordinalized),
           NEW n \in 1 .. Len(graph), NEW c \in 1 .. Chunks(Len(graph[n].symbols))
    PROVE  BlockRight(BlockOf(enc, n, c, interned), graph, n, c)
<1> DEFINE l == Len(graph[n].symbols)
           from == From(c)
           to == To(l, c)
           all == enc[n].symbols
           some == SubSeq(all, from + 1, to)
           first == FirstOrdinal(enc, n) + from
           b == DetailBlock(enc[n], first, some, interned)
<1>1. /\ graph[n].symbols \in Seq(Declarations) /\ l \in Nat
      /\ \A k \in 1 .. l : graph[n].symbols[k] \in Declarations
  BY GraphType
<1>2. /\ enc[n].unit = graph[n].unit /\ enc[n].provenances = graph[n].provenances
      /\ all \in Seq(EncodedDeclarations) /\ Len(all) = l
      /\ \A k \in 1 .. l : all[k] = EncodedSymbol(graph, ordinalized, graph[n].symbols[k])
  BY DEF EncodedAs
<1>3. from \in Nat /\ to \in Nat /\ from < to /\ to <= l
  BY <1>1, ChunkBounds
<1>4. FirstOrdinal(enc, n) = FirstOrdinal(graph, n)
  BY EncodedPlaces DEF EncodedInPlace
<1>5. BlockOf(enc, n, c, interned) = b
  BY <1>2 DEF BlockOf
<1> HIDE DEF all, l, from, to
<1>6. some \in Seq(EncodedDeclarations) /\ Len(some) = to - from
      /\ \A k \in 1 .. (to - from) : some[k] = all[from + k]
  BY <1>2, <1>3, SubSeqIs
<1> HIDE DEF some, first
<1>7. 1 \in 1 .. Len(some) /\ Len(some) \in Nat
  BY <1>3, <1>6
<1>8. ASSUME NEW k \in 1 .. Len(some)
      PROVE  /\ b.first = first
             /\ DOMAIN b.entries = 1 .. Len(some)
             /\ DecodedDetail(b, b.entries[k]) = Kept(some[k], enc[n])
  BY <1>6, DetailRoundTrip
<1>9. DetailBlock(enc[n], first, some, interned).entries
        = [i \in DOMAIN some |-> DetailBlock(enc[n], first, some, interned).entries[i]]
  BY DEF DetailBlock
<1> HIDE DEF b
<1>10. b.first = first /\ DOMAIN b.entries = 1 .. Len(some)
  BY <1>7, <1>8
<1>11. Len(b.entries) = Len(some)
  <2>1. b.entries = [i \in 1 .. Len(some) |-> b.entries[i]]
    BY <1>9, <1>10 DEF b
  <2> QED
    BY <1>7, <2>1
<1>12. ASSUME NEW k \in 1 .. (to - from)
       PROVE  Near(DecodedDetail(b, b.entries[k]),
                   DeclaredFrom(graph[n].symbols[from + k], graph[n]), graph)
  <2> DEFINE s == graph[n].symbols[from + k]
             e == EncodedSymbol(graph, ordinalized, s)
  <2>10. l \in Nat
    BY <1>1
  <2>1. from + k \in 1 .. l
    BY <1>3, <2>10
  <2>2. s \in Declarations /\ all[from + k] = e
    BY <1>1, <1>2, <2>1
  <2> HIDE DEF s, e
  <2>3. some[k] = e
    BY <1>6, <2>2
  <2>4. DecodedDetail(b, b.entries[k]) = Kept(e, enc[n])
    BY <1>6, <1>8, <2>3
  <2>5. Kept(e, enc[n]) = Kept(e, graph[n])
    BY <1>2 DEF Kept
  <2>6. PICK ids : IdsInOrder(ids, graph)
    BY IdsOfGraph
  <2> DEFINE snapshot == graph[n]
  <2> HIDE DEF snapshot
  <2>7. \/ Kept(e, snapshot) = DeclaredFrom(s, snapshot)
        \/ /\ Kept(e, snapshot) = [DeclaredFrom(s, snapshot) EXCEPT !.owner = << >>]
           /\ \E o \in ToSet(s.owner) : o \in Ids(graph)
    BY <2>2, <2>6, DetailKeeps DEF e
  <2>8. DeclaredFrom(s, snapshot).owner = s.owner
    BY DEF DeclaredFrom, Declaration
  <2>9. Near(Kept(e, snapshot), DeclaredFrom(s, snapshot), graph)
    BY <2>7, <2>8 DEF Near
  <2> QED
    BY <2>4, <2>5, <2>9 DEF snapshot, s
<1> QED
  BY <1>4, <1>5, <1>6, <1>10, <1>11, <1>12 DEF BlockRight, first, from, to, l

\* A block with the declarations of the ordinals from its first one on.
BlockGood(b, graph) ==
    /\ b.first \in Nat
    /\ Len(b.entries) \in Nat /\ Len(b.entries) > 0
    /\ DOMAIN b.entries = 1 .. Len(b.entries)
    /\ \A k \in 1 .. Len(b.entries) :
         /\ b.first + k <= Len(Symbols(graph))
         /\ Near(DecodedDetail(b, b.entries[k]), DeclAt(graph, (b.first + k) - 1), graph)

\* The blocks of a graph: each is good, each ordinal is in one, and blocks with
\* the same first ordinal have as many entries.
DetailsGood(details, graph) ==
    /\ Len(details) \in Nat /\ DOMAIN details = 1 .. Len(details)
    /\ \A i \in 1 .. Len(details) : BlockGood(details[i], graph)
    /\ \A o \in Nat : o < Len(Symbols(graph)) =>
         \E i \in 1 .. Len(details) :
            /\ details[i].first <= o
            /\ o < details[i].first + Len(details[i].entries)
    /\ \A i, j \in 1 .. Len(details) :
         details[i].first = details[j].first
            => Len(details[i].entries) = Len(details[j].entries)

LEMMA BlockIsGood ==
    ASSUME NEW graph, IsGraph(graph), NEW n \in 1 .. Len(graph),
           NEW c \in 1 .. Chunks(Len(graph[n].symbols)), NEW b, BlockRight(b, graph, n, c)
    PROVE  BlockGood(b, graph)
<1> DEFINE l == Len(graph[n].symbols)
           from == From(c)
           to == To(l, c)
           start == FirstOrdinal(graph, n)
<1>1. /\ l \in Nat /\ start \in Nat /\ Len(Symbols(graph)) \in Nat
      /\ start + l <= Len(Symbols(graph))
  BY GraphType DEF InOrder
<1>2. from \in Nat /\ to \in Nat /\ from < to /\ to <= l
  BY <1>1, ChunkBounds
<1>3. /\ b.first = start + from
      /\ Len(b.entries) = to - from
      /\ DOMAIN b.entries = 1 .. (to - from)
      /\ \A k \in 1 .. (to - from) :
           Near(DecodedDetail(b, b.entries[k]), DeclaredFrom(graph[n].symbols[from + k], graph[n]),
                graph)
  BY DEF BlockRight
<1> HIDE DEF from, to, start
<1>4. ASSUME NEW k \in 1 .. (to - from)
      PROVE  /\ b.first + k <= Len(Symbols(graph))
             /\ Near(DecodedDetail(b, b.entries[k]), DeclAt(graph, (b.first + k) - 1), graph)
  <2>1. from + k \in 1 .. l
    BY <1>1, <1>2
  <2> DEFINE o == (b.first + k) - 1
             p == from + k
  <2>2. o \in Nat /\ o + 1 = start + p /\ b.first + k <= Len(Symbols(graph))
    BY <1>1, <1>2, <1>3, <2>1
  <2> HIDE DEF o, p
  <2>3. DeclAt(graph, o) = DeclaredFrom(graph[n].symbols[p], graph[n])
    BY <2>1, <2>2, DeclAtIs DEF start, p
  <2> QED
    BY <1>3, <2>2, <2>3 DEF o, p
<1>5. b.first \in Nat /\ to - from \in Nat /\ to - from > 0
  BY <1>1, <1>2, <1>3
<1> QED
  BY <1>3, <1>4, <1>5 DEF BlockGood

LEMMA DetailsWhere ==
    ASSUME NEW graph, IsGraph(graph), NEW ordinalized \in BOOLEAN, NEW interned \in BOOLEAN,
           NEW enc, EncodedAs(enc, graph, ordinalized)
    PROVE  LET details == DetailBlocks(enc, interned)
           IN  /\ Len(details) \in Nat /\ DOMAIN details = 1 .. Len(details)
               /\ \A b : b \in ToSet(details) <=>
                    \E n \in 1 .. Len(graph) : \E c \in 1 .. Chunks(Len(graph[n].symbols)) :
                        b = BlockOf(enc, n, c, interned)
<1> DEFINE S == {BlockOf(enc, n, c, interned) : n \in 1 .. Len(graph), c \in Nat}
           Q == Seq(S)
           list(n) == [c \in 1 .. Chunks(Len(enc[n].symbols)) |-> BlockOf(enc, n, c, interned)]
           lists == [n \in DOMAIN enc |-> list(n)]
<1>1. Len(graph) \in Nat /\ \A n \in 1 .. Len(graph) : Len(graph[n].symbols) \in Nat
  BY GraphType DEF InOrder
<1>2. DOMAIN enc = 1 .. Len(graph)
      /\ \A n \in 1 .. Len(graph) : Len(enc[n].symbols) = Len(graph[n].symbols)
  BY DEF EncodedAs
<1>3. DetailBlocks(enc, interned) = FlattenSeq(lists)
  BY DEF DetailBlocks, BlockOf, From, To, Chunks
<1>4. ASSUME NEW n \in 1 .. Len(graph)
      PROVE  /\ list(n) \in Seq(S)
             /\ Len(list(n)) = Chunks(Len(graph[n].symbols))
             /\ \A c \in 1 .. Chunks(Len(graph[n].symbols)) :
                  list(n)[c] = BlockOf(enc, n, c, interned)
  <2> DEFINE m == Chunks(Len(enc[n].symbols))
             one == list(n)
  <2>1. m = Chunks(Len(graph[n].symbols))
    BY <1>2
  <2>2. m \in Nat
    <3>1. Len(graph[n].symbols) + Capacity - 1 \in Nat /\ Capacity \in Nat \ {0}
      BY <1>1, LayoutAssumption
    <3> QED
      BY <2>1, <3>1, Division DEF Chunks
  <2>3. one = [c \in 1 .. m |-> BlockOf(enc, n, c, interned)]
    OBVIOUS
  <2> HIDE DEF m, list
  <2>4. one \in [1 .. m -> S]
    BY <2>2, <2>3
  <2> HIDE DEF S, one
  <2>5. one \in Seq(S) /\ Len(one) = m
    BY <2>2, <2>4
  <2>6. \A c \in 1 .. m : one[c] = BlockOf(enc, n, c, interned)
    BY <2>3
  <2> QED
    BY <2>1, <2>5, <2>6 DEF one
<1> HIDE DEF S, list
<1>5. lists \in [1 .. Len(graph) -> Q] /\ \A n \in 1 .. Len(graph) : lists[n] = list(n)
  BY <1>2, <1>4
<1> HIDE DEF Q, lists
<1>6. lists \in Seq(Q) /\ Len(lists) = Len(graph)
  BY <1>1, <1>5
<1>7. lists \in Seq(Seq(S))
  BY <1>6 DEF Q
<1>8. /\ DOMAIN FlattenSeq(lists) = 1 .. Len(FlattenSeq(lists))
      /\ \A v : v \in ToSet(FlattenSeq(lists)) <=>
            \E n \in 1 .. Len(lists) : \E k \in 1 .. Len(lists[n]) : v = lists[n][k]
  BY <1>7, FlattenRange
<1>9. Len(FlattenSeq(lists)) \in Nat
  BY <1>7, FlattenPlaces
<1>10. ASSUME NEW v
       PROVE  v \in ToSet(FlattenSeq(lists)) <=>
                \E n \in 1 .. Len(graph) : \E c \in 1 .. Chunks(Len(graph[n].symbols)) :
                    v = BlockOf(enc, n, c, interned)
  <2>1. v \in ToSet(FlattenSeq(lists)) <=>
          \E n \in 1 .. Len(graph) : \E c \in 1 .. Len(lists[n]) : v = lists[n][c]
    BY <1>6, <1>8
  <2>2. \A n \in 1 .. Len(graph) : Len(lists[n]) = Chunks(Len(graph[n].symbols))
    BY <1>4, <1>5
  <2>3. \A n \in 1 .. Len(graph) : \A c \in 1 .. Chunks(Len(graph[n].symbols)) :
           lists[n][c] = BlockOf(enc, n, c, interned)
    BY <1>4, <1>5
  <2> QED
    BY <2>1, <2>2, <2>3
<1> QED
  BY <1>3, <1>8, <1>9, <1>10

LEMMA SameFirstSameBlock ==
    ASSUME NEW graph, IsGraph(graph), NEW a, NEW b,
           NEW n \in 1 .. Len(graph), NEW c \in 1 .. Chunks(Len(graph[n].symbols)),
           NEW m \in 1 .. Len(graph), NEW e \in 1 .. Chunks(Len(graph[m].symbols)),
           BlockRight(a, graph, n, c), BlockRight(b, graph, m, e), a.first = b.first
    PROVE  Len(a.entries) = Len(b.entries)
<1> DEFINE k == From(c) + 1
           l == From(e) + 1
<1>1. /\ graph \in Seq(Snapshots)
      /\ \A i \in 1 .. Len(graph) : graph[i].symbols \in Seq(Declarations)
      /\ InOrder(graph)
  BY GraphType
<1>2. /\ FirstOrdinal(graph, n) \in Nat /\ Len(graph[n].symbols) \in Nat
      /\ FirstOrdinal(graph, m) \in Nat /\ Len(graph[m].symbols) \in Nat
  BY <1>1 DEF InOrder
<1>3. /\ From(c) \in Nat /\ To(Len(graph[n].symbols), c) \in Nat
      /\ From(c) < To(Len(graph[n].symbols), c)
      /\ To(Len(graph[n].symbols), c) <= Len(graph[n].symbols)
  BY <1>2, ChunkBounds
<1>4. /\ From(e) \in Nat /\ To(Len(graph[m].symbols), e) \in Nat
      /\ From(e) < To(Len(graph[m].symbols), e)
      /\ To(Len(graph[m].symbols), e) <= Len(graph[m].symbols)
  BY <1>2, ChunkBounds
<1>5. a.first = FirstOrdinal(graph, n) + From(c) /\ b.first = FirstOrdinal(graph, m) + From(e)
      /\ Len(a.entries) = To(Len(graph[n].symbols), c) - From(c)
      /\ Len(b.entries) = To(Len(graph[m].symbols), e) - From(e)
  BY DEF BlockRight
<1>6. k \in 1 .. Len(graph[n].symbols) /\ From(c) = k - 1
  <2> DEFINE f == From(c)
             t == To(Len(graph[n].symbols), c)
             s == Len(graph[n].symbols)
  <2>1. f \in Nat /\ t \in Nat /\ s \in Nat /\ f < t /\ t <= s
    BY <1>2, <1>3
  <2> HIDE DEF f, t, s
  <2>2. f + 1 \in 1 .. s /\ f = (f + 1) - 1
    BY <2>1
  <2> QED
    BY <2>2 DEF f, s
<1>8. l \in 1 .. Len(graph[m].symbols) /\ From(e) = l - 1
  <2> DEFINE f == From(e)
             t == To(Len(graph[m].symbols), e)
             s == Len(graph[m].symbols)
  <2>1. f \in Nat /\ t \in Nat /\ s \in Nat /\ f < t /\ t <= s
    BY <1>2, <1>4
  <2> HIDE DEF f, t, s
  <2>2. f + 1 \in 1 .. s /\ f = (f + 1) - 1
    BY <2>1
  <2> QED
    BY <2>2 DEF f, s
<1>7. FirstOrdinal(graph, n) + k = FirstOrdinal(graph, m) + l
  <2> DEFINE f == From(c)
             g == From(e)
             p == FirstOrdinal(graph, n)
             q == FirstOrdinal(graph, m)
  <2>1. f \in Nat /\ g \in Nat /\ p \in Nat /\ q \in Nat /\ p + f = q + g
    BY <1>2, <1>3, <1>4, <1>5
  <2> HIDE DEF f, g, p, q
  <2>2. p + (f + 1) = q + (g + 1)
    BY <2>1
  <2> QED
    BY <2>2 DEF f, g, p, q
<1> HIDE DEF k, l
<1>9. n = m /\ k = l
  BY <1>1, <1>6, <1>7, <1>8, OneOrdinal
<1>10. From(c) = From(e)
  BY <1>6, <1>8, <1>9
<1> QED
  BY <1>5, <1>9, <1>10 DEF To

LEMMA DetailsAreGood ==
    ASSUME NEW graph, IsGraph(graph), NEW ordinalized \in BOOLEAN, NEW interned \in BOOLEAN
    PROVE  DetailsGood(DetailBlocks(EncodedGraph(graph, ordinalized), interned), graph)
<1> DEFINE enc == EncodedGraph(graph, ordinalized)
           details == DetailBlocks(enc, interned)
<1>1. EncodedAs(enc, graph, ordinalized)
  BY EncodedGraphIs
<1> HIDE DEF enc
<1>2. /\ Len(details) \in Nat /\ DOMAIN details = 1 .. Len(details)
      /\ \A b : b \in ToSet(details) <=>
           \E n \in 1 .. Len(graph) : \E c \in 1 .. Chunks(Len(graph[n].symbols)) :
               b = BlockOf(enc, n, c, interned)
  BY <1>1, DetailsWhere
<1> HIDE DEF details
<1>3. ASSUME NEW i \in 1 .. Len(details)
      PROVE  \E n \in 1 .. Len(graph) : \E c \in 1 .. Chunks(Len(graph[n].symbols)) :
                BlockRight(details[i], graph, n, c)
  <2>1. details[i] \in ToSet(details)
    BY <1>2 DEF ToSet
  <2>2. PICK n \in 1 .. Len(graph) : \E c \in 1 .. Chunks(Len(graph[n].symbols)) :
               details[i] = BlockOf(enc, n, c, interned)
    BY <1>2, <2>1
  <2>3. PICK c \in 1 .. Chunks(Len(graph[n].symbols)) : details[i] = BlockOf(enc, n, c, interned)
    BY <2>2
  <2>4. BlockRight(BlockOf(enc, n, c, interned), graph, n, c)
    BY <1>1, BlockIsRight
  <2> QED
    BY <2>3, <2>4
<1>4. \A i \in 1 .. Len(details) : BlockGood(details[i], graph)
  BY <1>3, BlockIsGood
<1>5. ASSUME NEW i \in 1 .. Len(details), NEW j \in 1 .. Len(details),
             details[i].first = details[j].first
      PROVE  Len(details[i].entries) = Len(details[j].entries)
  <2>1. PICK n \in 1 .. Len(graph) : \E c \in 1 .. Chunks(Len(graph[n].symbols)) :
                BlockRight(details[i], graph, n, c)
    BY <1>3
  <2>2. PICK c \in 1 .. Chunks(Len(graph[n].symbols)) : BlockRight(details[i], graph, n, c)
    BY <2>1
  <2>3. PICK m \in 1 .. Len(graph) : \E e \in 1 .. Chunks(Len(graph[m].symbols)) :
                BlockRight(details[j], graph, m, e)
    BY <1>3
  <2>4. PICK e \in 1 .. Chunks(Len(graph[m].symbols)) : BlockRight(details[j], graph, m, e)
    BY <2>3
  <2> QED
    BY <1>5, <2>2, <2>4, SameFirstSameBlock
<1>6. ASSUME NEW o \in Nat, o < Len(Symbols(graph))
      PROVE  \E i \in 1 .. Len(details) :
                details[i].first <= o /\ o < details[i].first + Len(details[i].entries)
  <2>1. PICK n \in 1 .. Len(graph) : \E k \in 1 .. Len(graph[n].symbols) :
              o + 1 = FirstOrdinal(graph, n) + k
    BY <1>6, OrdinalHasPlace
  <2>2. PICK k \in 1 .. Len(graph[n].symbols) : o + 1 = FirstOrdinal(graph, n) + k
    BY <2>1
  <2>3. FirstOrdinal(graph, n) \in Nat /\ Len(graph[n].symbols) \in Nat
    BY GraphType DEF InOrder
  <2> DEFINE l == Len(graph[n].symbols)
  <2>4. PICK c \in 1 .. Chunks(l) : From(c) < k /\ k <= To(l, c)
    BY <2>3, ChunkCovers
  <2>5. From(c) \in Nat /\ To(l, c) \in Nat
    BY <2>3, ChunkBounds
  <2> DEFINE b == BlockOf(enc, n, c, interned)
  <2>6. b \in ToSet(details)
    BY <1>2
  <2>7. BlockRight(b, graph, n, c)
    BY <1>1, BlockIsRight
  <2> HIDE DEF b
  <2>8. PICK i \in 1 .. Len(details) : details[i] = b
    BY <1>2, <2>6 DEF ToSet
  <2>9. b.first = FirstOrdinal(graph, n) + From(c) /\ Len(b.entries) = To(l, c) - From(c)
    BY <2>7 DEF BlockRight
  <2> HIDE DEF l
  <2>10. k \in Nat
    BY <2>3
  <2> DEFINE f == FirstOrdinal(graph, n)
             from == From(c)
             to == To(l, c)
  <2>11. /\ f \in Nat /\ from \in Nat /\ to \in Nat /\ from < k /\ k <= to
         /\ o + 1 = f + k /\ b.first = f + from /\ Len(b.entries) = to - from
    BY <2>2, <2>3, <2>4, <2>5, <2>9
  <2> HIDE DEF f, from, to
  <2>12. f + from <= o /\ o < (f + from) + (to - from)
    BY <2>10, <2>11
  <2> QED
    BY <2>8, <2>11, <2>12
<1>7. DetailsGood(details, graph)
  BY <1>2, <1>4, <1>5, <1>6 DEF DetailsGood
<1> QED
  BY <1>7 DEF details, enc

\* What a good block decodes for an ordinal is the declaration that has it.
LEMMA DecodeGood ==
    ASSUME NEW graph, NEW b, BlockGood(b, graph), NEW o \in Nat
    PROVE  /\ \A d \in DecodeSymbolDetail(b, o) :
                o < Len(Symbols(graph)) /\ Near(d, DeclAt(graph, o), graph)
           /\ b.first <= o /\ o < b.first + Len(b.entries) => DecodeSymbolDetail(b, o) # {}
<1>1. /\ b.first \in Nat /\ Len(b.entries) \in Nat
      /\ DOMAIN b.entries = 1 .. Len(b.entries)
  BY DEF BlockGood
<1>2. ASSUME NEW d \in DecodeSymbolDetail(b, o)
      PROVE  o < Len(Symbols(graph)) /\ Near(d, DeclAt(graph, o), graph)
  <2>1. PICK k \in 1 .. Len(b.entries) :
               b.first + k = o + 1 /\ d = DecodedDetail(b, b.entries[k])
    BY <1>1 DEF DecodeSymbolDetail
  <2>2. /\ b.first + k <= Len(Symbols(graph))
        /\ Near(DecodedDetail(b, b.entries[k]), DeclAt(graph, (b.first + k) - 1), graph)
    BY DEF BlockGood
  <2>3. (b.first + k) - 1 = o /\ o + 1 <= Len(Symbols(graph))
    BY <2>1, <2>2
  <2>4. o < Len(Symbols(graph))
    BY <2>3
  <2> QED
    BY <2>1, <2>2, <2>3, <2>4
<1>3. ASSUME b.first <= o, o < b.first + Len(b.entries) PROVE DecodeSymbolDetail(b, o) # {}
  <2> DEFINE k == (o + 1) - b.first
  <2>1. k \in 1 .. Len(b.entries) /\ b.first + k = o + 1
    BY <1>1, <1>3
  <2> HIDE DEF k
  <2>2. DecodedDetail(b, b.entries[k]) \in DecodeSymbolDetail(b, o)
    BY <1>1, <2>1 DEF DecodeSymbolDetail
  <2> QED
    BY <2>2
<1> QED
  BY <1>2, <1>3

-----------------------------------------------------------------------------
(* The sections of a payload.                                               *)

\* Symbols encoded keep IDs and names.
LEMMA EncodedNames ==
    ASSUME NEW graph, IsGraph(graph), NEW ordinalized \in BOOLEAN, NEW enc,
           EncodedAs(enc, graph, ordinalized)
    PROVE  /\ Len(Symbols(graph)) \in Nat
           /\ DOMAIN Symbols(enc) = 1 .. Len(Symbols(graph))
           /\ \A i \in 1 .. Len(Symbols(graph)) :
                /\ Symbols(enc)[i].id = Symbols(graph)[i].id
                /\ Symbols(enc)[i].qualified = Symbols(graph)[i].qualified
                /\ Symbols(graph)[i].qualified \in Seq(STRING)
                /\ Len(Symbols(graph)[i].qualified) <= 1
<1>1. /\ DOMAIN Symbols(enc) = 1 .. Len(Symbols(graph))
      /\ \A i \in 1 .. Len(Symbols(graph)) :
           Symbols(enc)[i] = EncodedSymbol(graph, ordinalized, Symbols(graph)[i])
  BY EncodedPlaces DEF EncodedInPlace
<1>2. Len(Symbols(graph)) \in Nat /\ Symbols(graph) \in Seq(Declarations) /\ InOrder(graph)
  BY GraphType DEF InOrder
<1>3. PICK ids : IdsInOrder(ids, graph)
  BY IdsOfGraph
<1>4. ASSUME NEW i \in 1 .. Len(Symbols(graph))
      PROVE  /\ Symbols(enc)[i].id = Symbols(graph)[i].id
             /\ Symbols(enc)[i].qualified = Symbols(graph)[i].qualified
             /\ Symbols(graph)[i].qualified \in Seq(STRING)
             /\ Len(Symbols(graph)[i].qualified) <= 1
  <2> DEFINE s == Symbols(graph)[i]
  <2>1. s \in Declarations
    BY <1>2
  <2>2. Symbols(enc)[i] = EncodedSymbol(graph, ordinalized, s)
    BY <1>1
  <2>3. PICK n \in 1 .. Len(graph) : \E k \in 1 .. Len(graph[n].symbols) :
              i = FirstOrdinal(graph, n) + k
    BY <1>2 DEF InOrder
  <2>4. PICK k \in 1 .. Len(graph[n].symbols) : i = FirstOrdinal(graph, n) + k
    BY <2>3
  <2>5. s = graph[n].symbols[k] /\ DOMAIN graph[n].symbols = 1 .. Len(graph[n].symbols)
        /\ DOMAIN graph = 1 .. Len(graph)
    BY <1>2, <2>4 DEF InOrder
  <2>6. s \in ToSet(graph[n].symbols)
    BY <2>5 DEF ToSet
  <2>7. Len(s.qualified) <= 1
    BY <2>5, <2>6 DEF IsGraph
  <2>8. s.qualified \in Seq(STRING)
    BY <2>1 DEF Declarations
  <2> HIDE DEF s
  <2>9. /\ EncodedSymbol(graph, ordinalized, s).id = s.id
        /\ EncodedSymbol(graph, ordinalized, s).qualified = s.qualified
    BY <1>3, <2>1, EncodedFields
  <2> QED
    BY <2>2, <2>7, <2>8, <2>9 DEF s
<1> QED
  BY <1>1, <1>2, <1>4

\* The ordinals of the declarations with a qualified name.
Named(graph, name) ==
    {o \in Nat : o < Len(Symbols(graph)) /\ Symbols(graph)[o + 1].qualified = <<name>>}

\* What an entry of each kind of section has to say, whichever the writer.
DictionaryRight(entries, graph) ==
    /\ DOMAIN entries = 1 .. Len(Symbols(graph))
    /\ \A i \in 1 .. Len(Symbols(graph)) : entries[i] = Symbols(graph)[i].id
DirectoryRight(entries, graph) ==
    \A name : {e.ordinal : e \in {f \in ToSet(entries) : f.qualified = name}} = Named(graph, name)
FactsRight(entries, graph) ==
    \E f : /\ entries = <<f>>
           /\ DecodedGraph(f).symbols = DeclaredIn(graph)
           /\ DecodedGraph(f).hierarchy = ToSet(Edges(graph))

LEMMA DirectoryIsRight ==
    ASSUME NEW graph, IsGraph(graph), NEW ordinalized \in BOOLEAN, NEW enc,
           EncodedAs(enc, graph, ordinalized)
    PROVE  /\ DirectoryRight(DirectoryEntries(enc), graph)
           /\ DirectoryEntries(enc) \in Seq([qualified : STRING, ordinal : Nat])
<1> DEFINE E == [qualified : STRING, ordinal : Nat]
           Q == Seq(E)
           N == Len(Symbols(graph))
           named(i) == Symbols(enc)[i].qualified
           list(i) == [n \in DOMAIN named(i) |-> [qualified |-> named(i)[n], ordinal |-> i - 1]]
           lists == [i \in DOMAIN Symbols(enc) |-> list(i)]
<1>1. /\ N \in Nat /\ DOMAIN Symbols(enc) = 1 .. N
      /\ \A i \in 1 .. N :
           /\ named(i) = Symbols(graph)[i].qualified
           /\ named(i) \in Seq(STRING) /\ Len(named(i)) <= 1
  BY EncodedNames
<1>2. DirectoryEntries(enc) = FlattenSeq(lists)
  BY DEF DirectoryEntries
<1>3. ASSUME NEW i \in 1 .. N
      PROVE  /\ list(i) \in Seq(E) /\ Len(list(i)) = Len(named(i))
             /\ \A n \in 1 .. Len(named(i)) :
                  list(i)[n] = [qualified |-> named(i)[n], ordinal |-> i - 1]
  <2> DEFINE q == named(i)
             l == Len(q)
             one == list(i)
  <2>1. l \in Nat /\ q \in [1 .. l -> STRING] /\ DOMAIN q = 1 .. l
    BY <1>1, SeqIsFunction
  <2>2. i - 1 \in Nat
    BY <1>1
  <2>3. one = [n \in 1 .. l |-> [qualified |-> q[n], ordinal |-> i - 1]]
    BY <2>1
  <2> HIDE DEF q, l, one, list
  <2>4. one \in [1 .. l -> E]
    BY <2>1, <2>2, <2>3
  <2>5. \A n \in 1 .. l : one[n] = [qualified |-> q[n], ordinal |-> i - 1]
    BY <2>3
  <2> HIDE DEF E
  <2>6. one \in Seq(E) /\ Len(one) = l
    BY <2>1, <2>4
  <2> QED
    BY <2>5, <2>6 DEF one, l, q
<1> HIDE DEF list
<1>4. lists \in [1 .. N -> Q] /\ \A i \in 1 .. N : lists[i] = list(i)
  BY <1>1, <1>3
<1> HIDE DEF Q, lists, named, N
<1>5. lists \in Seq(Q) /\ Len(lists) = N
  BY <1>1, <1>4
<1>6. lists \in Seq(Seq(E))
  BY <1>5 DEF Q
<1>9. FlattenSeq(lists) \in Seq(E)
  BY <1>6, FlattenPlaces
<1> HIDE DEF E
<1>7. \A v : v \in ToSet(FlattenSeq(lists)) <=>
             \E n \in 1 .. Len(lists) : \E k \in 1 .. Len(lists[n]) : v = lists[n][k]
  BY <1>6, FlattenRange
<1>8. ASSUME NEW name
      PROVE  {e.ordinal : e \in {f \in ToSet(FlattenSeq(lists)) : f.qualified = name}}
                = Named(graph, name)
  <2>1. ASSUME NEW f \in ToSet(FlattenSeq(lists)), f.qualified = name
        PROVE  f.ordinal \in Named(graph, name)
    <3>1. PICK i \in 1 .. N : \E k \in 1 .. Len(lists[i]) : f = lists[i][k]
      BY <1>5, <1>7
    <3>2. PICK k \in 1 .. Len(named(i)) : f = [qualified |-> named(i)[k], ordinal |-> i - 1]
      BY <1>3, <1>4, <3>1
    <3>3. Len(named(i)) \in Nat /\ Len(named(i)) <= 1 /\ named(i) \in Seq(STRING)
      BY <1>1
    <3>4. k = 1 /\ Len(named(i)) = 1
      <4> DEFINE l == Len(named(i))
      <4>1. l \in Nat /\ l <= 1 /\ k \in 1 .. l
        BY <3>3
      <4> HIDE DEF l
      <4>2. k = 1 /\ l = 1
        BY <4>1
      <4> QED
        BY <4>2 DEF l
    <3>5. named(i)[1] = name /\ f.ordinal = i - 1
      BY <2>1, <3>2, <3>4
    <3>6. named(i) = <<name>>
      BY <3>3, <3>4, <3>5
    <3>7. i - 1 \in Nat /\ i - 1 < N /\ (i - 1) + 1 = i
      BY <1>1
    <3> QED
      BY <1>1, <3>5, <3>6, <3>7 DEF Named, N
  <2>2. ASSUME NEW o \in Named(graph, name)
        PROVE  \E f \in ToSet(FlattenSeq(lists)) : f.qualified = name /\ f.ordinal = o
    <3> DEFINE i == o + 1
               f == [qualified |-> name, ordinal |-> o]
    <3>1. o \in Nat /\ o < N /\ Symbols(graph)[i].qualified = <<name>>
      BY DEF Named, N
    <3>2. i \in 1 .. N /\ i - 1 = o
      BY <1>1, <3>1
    <3> HIDE DEF i
    <3>3. named(i) = <<name>>
      BY <1>1, <3>1, <3>2
    <3>4. Len(named(i)) = 1 /\ named(i)[1] = name
      BY <3>3
    <3>5. 1 \in 1 .. Len(lists[i]) /\ lists[i][1] = f
      BY <1>3, <1>4, <3>2, <3>4
    <3>6. f \in ToSet(FlattenSeq(lists))
      BY <1>5, <1>7, <3>2, <3>5
    <3> QED
      BY <3>6
  <2> QED
    BY <2>1, <2>2
<1> QED
  BY <1>2, <1>8, <1>9 DEF DirectoryRight, E

EntriesRight(kind, entries, graph) ==
    /\ kind = "dictionary" => DictionaryRight(entries, graph)
    /\ kind = "hierarchy" => entries = Edges(graph)
    /\ kind = "directory" => DirectoryRight(entries, graph)
    /\ kind = "detail" => \E b : entries = <<b>> /\ BlockGood(b, graph)
    /\ kind = "facts" => FactsRight(entries, graph)

SectionGood(s, graph) ==
    /\ s.kind \in Kinds
    /\ s.length \in Nat
    /\ s.length = 0 <=> s.entries = << >>
    /\ s.sha = IF s.entries = << >> THEN <<"nothing", 0>> ELSE <<s.kind, s.start>>
    /\ s.compression = IF s.kind = "facts" THEN 1 ELSE 0
    /\ EntriesRight(s.kind, s.entries, graph)

LEMMA SectionIsGood ==
    ASSUME NEW graph, NEW kind \in Kinds, NEW S, NEW entries \in Seq(S), NEW start, NEW end,
           EntriesRight(kind, entries, graph)
    PROVE  SectionGood(Section(kind, entries, IF kind = "facts" THEN 1 ELSE 0, start, end), graph)
<1> DEFINE s == Section(kind, entries, IF kind = "facts" THEN 1 ELSE 0, start, end)
           bytes == EntryBytes[kind]
           l == Len(entries)
<1>1. bytes \in Nat \ {0}
  BY LayoutAssumption
<1>2. l \in Nat /\ (l = 0 <=> entries = << >>)
  BY EmptySeq
<1>3. /\ s.kind = kind /\ s.entries = entries /\ s.start = start /\ s.length = bytes * l
      /\ s.sha = IF entries = << >> THEN <<"nothing", 0>> ELSE <<kind, start>>
      /\ s.compression = IF kind = "facts" THEN 1 ELSE 0
  BY DEF Section
<1> HIDE DEF s, bytes, l
<1>4. bytes * l \in Nat /\ (bytes * l = 0 <=> l = 0)
  <2>1. bytes * l \in Nat
    BY <1>1, <1>2
  <2>2. CASE l = 0
    BY <1>1, <2>1, <2>2
  <2>3. CASE l # 0
    <3>1. bytes * 1 <= bytes * l /\ bytes * 1 = bytes
      BY <1>1, <1>2, <2>3, Products
    <3> QED
      BY <1>1, <2>1, <2>3, <3>1
  <2> QED
    BY <2>1, <2>2, <2>3
<1>5. SectionGood(s, graph)
  BY <1>2, <1>3, <1>4 DEF SectionGood
<1> QED
  BY <1>5 DEF s

LEMMA EdgesType ==
    ASSUME NEW graph, IsGraph(graph)
    PROVE  Edges(graph) \in Seq(EdgesOfIds)
<1> DEFINE Q == Seq(EdgesOfIds)
           lists == [i \in DOMAIN graph |-> graph[i].hierarchy]
           m == Len(graph)
<1>1. /\ m \in Nat /\ DOMAIN graph = 1 .. m
      /\ \A n \in 1 .. m : graph[n].hierarchy \in Q
  BY GraphType DEF EdgesOfIds
<1> HIDE DEF Q
<1>2. lists \in [1 .. m -> Q]
  BY <1>1
<1> HIDE DEF lists
<1>3. lists \in Seq(Q)
  BY <1>1, <1>2
<1>4. lists \in Seq(Seq(EdgesOfIds))
  BY <1>3 DEF Q
<1>5. FlattenSeq(lists) \in Seq(EdgesOfIds)
  BY <1>4, FlattenPlaces
<1> QED
  BY <1>5 DEF Edges, lists

\* The kinds every payload has, and where each ordinal is.
SectionsGood(ss, graph) ==
    /\ Len(ss) \in Nat /\ DOMAIN ss = 1 .. Len(ss)
    /\ \A i \in 1 .. Len(ss) : SectionGood(ss[i], graph)
    /\ \A kind \in {"dictionary", "directory", "facts"} : \E i \in 1 .. Len(ss) : ss[i].kind = kind
    /\ \A i \in 1 .. Len(ss) : ss[i].kind = "detail" =>
         /\ ss[i].start = ss[i].entries[1].first
         /\ ss[i].end = ss[i].start + Len(ss[i].entries[1].entries)
    /\ \A o \in Nat : o < Len(Symbols(graph)) =>
         \E i \in 1 .. Len(ss) : ss[i].kind = "detail" /\ ss[i].start <= o /\ o < ss[i].end
    /\ \A i, j \in 1 .. Len(ss) :
         /\ ss[i].kind = "detail" /\ ss[j].kind = "detail" /\ ss[i].start = ss[j].start
         => ss[i].end = ss[j].end

LEMMA OneRange ==
    ASSUME NEW x
    PROVE  \A v : v \in ToSet(<<x>>) <=> v = x
<1>1. DOMAIN <<x>> = {1} /\ <<x>>[1] = x
  OBVIOUS
<1> HIDE DEF ToSet
<1> QED
  BY <1>1 DEF ToSet

LEMMA JoinRange ==
    ASSUME NEW U, NEW s \in Seq(U), NEW t \in Seq(U)
    PROVE  /\ s \o t \in Seq(U)
           /\ \A v : v \in ToSet(s \o t) <=> v \in ToSet(s) \/ v \in ToSet(t)
<1>1. s \o t \in Seq(U)
  BY ConcatProperties
<1>2. Range(s \o t) = Range(s) \cup Range(t)
  BY RangeConcatenation
<1>3. ToSet(s \o t) = Range(s \o t) /\ ToSet(s) = Range(s) /\ ToSet(t) = Range(t)
  BY Zenon DEF ToSet, Range
<1> QED
  BY <1>1, <1>2, <1>3

LEMMA KindsApart ==
    ASSUME NEW kind \in Kinds
    PROVE  /\ kind \in {"dictionary", "hierarchy", "directory", "detail", "facts"}
           /\ kind # "nothing" /\ kind # "damaged" /\ kind # "other" /\ kind # "unknown"
  BY DEF Kinds

\* What there is among the sections, in whichever order.
LEMMA SectionsWhere ==
    ASSUME NEW graph, IsGraph(graph),
           NEW writer \in [ordinalized : BOOLEAN, interned : BOOLEAN, postings : BOOLEAN]
    PROVE  LET enc == EncodedGraph(graph, writer.ordinalized)
               details == DetailBlocks(enc, writer.interned)
               ids == [i \in DOMAIN Symbols(enc) |-> Symbols(enc)[i].id]
               ss == Sections(graph, writer)
               block(i) == Section("detail", <<details[i]>>, 0, details[i].first,
                                   details[i].first + Len(details[i].entries))
           IN  /\ Len(ss) \in Nat /\ DOMAIN ss = 1 .. Len(ss)
               /\ \A v \in ToSet(ss) :
                    \/ v = Section("dictionary", ids, 0, 0, 0)
                    \/ v = Section("hierarchy", Edges(graph), 0, 0, 0)
                    \/ v = Section("directory", DirectoryEntries(enc), 0, 0, 0)
                    \/ v = Section("facts", <<enc>>, 1, 0, 0)
                    \/ \E i \in DOMAIN details : v = block(i)
               /\ Section("dictionary", ids, 0, 0, 0) \in ToSet(ss)
               /\ Section("directory", DirectoryEntries(enc), 0, 0, 0) \in ToSet(ss)
               /\ Section("facts", <<enc>>, 1, 0, 0) \in ToSet(ss)
               /\ \A i \in DOMAIN details : block(i) \in ToSet(ss)
<1> DEFINE enc == EncodedGraph(graph, writer.ordinalized)
           details == DetailBlocks(enc, writer.interned)
           ids == [i \in DOMAIN Symbols(enc) |-> Symbols(enc)[i].id]
           ss == Sections(graph, writer)
           block(i) == Section("detail", <<details[i]>>, 0, details[i].first,
                               details[i].first + Len(details[i].entries))
           dictionary == Section("dictionary", ids, 0, 0, 0)
           hierarchy == Section("hierarchy", Edges(graph), 0, 0, 0)
           directory == Section("directory", DirectoryEntries(enc), 0, 0, 0)
           facts == Section("facts", <<enc>>, 1, 0, 0)
           blocks == [i \in DOMAIN details |-> block(i)]
           U == {dictionary, hierarchy, directory, facts} \cup {block(i) : i \in DOMAIN details}
           postings == IF writer.postings THEN <<hierarchy>> ELSE << >>
           rest == IF writer.interned THEN <<facts>> \o blocks ELSE blocks \o <<facts>>
<1>1. writer.ordinalized \in BOOLEAN /\ writer.interned \in BOOLEAN /\ writer.postings \in BOOLEAN
  OBVIOUS
<1>2. ss = ((<<dictionary>> \o postings) \o <<directory>>) \o rest
  BY DEF Sections
<1>3. Len(details) \in Nat /\ DOMAIN details = 1 .. Len(details)
  BY <1>1, DetailsAreGood DEF DetailsGood
<1> HIDE DEF details, enc, ids, dictionary, hierarchy, directory, facts, block
<1>4. DOMAIN blocks = DOMAIN details /\ \A i \in DOMAIN details : blocks[i] = block(i)
  OBVIOUS
<1>5. blocks \in [1 .. Len(details) -> U]
  BY <1>3
<1>6. dictionary \in U /\ hierarchy \in U /\ directory \in U /\ facts \in U
  OBVIOUS
<1>7. \A v \in U : \/ v = dictionary \/ v = hierarchy \/ v = directory \/ v = facts
                   \/ \E i \in DOMAIN details : v = block(i)
  OBVIOUS
<1> HIDE DEF U, blocks
<1>8. blocks \in Seq(U)
  BY <1>3, <1>5
<1>9. <<dictionary>> \in Seq(U) /\ <<hierarchy>> \in Seq(U) /\ <<directory>> \in Seq(U)
      /\ <<facts>> \in Seq(U) /\ << >> \in Seq(U)
  BY <1>6
<1>10. postings \in Seq(U)
  BY <1>9
<1> HIDE DEF postings
<1>11. <<facts>> \o blocks \in Seq(U) /\ blocks \o <<facts>> \in Seq(U)
       /\ (\A v : v \in ToSet(<<facts>> \o blocks) <=> v \in ToSet(<<facts>>) \/ v \in ToSet(blocks))
       /\ (\A v : v \in ToSet(blocks \o <<facts>>) <=> v \in ToSet(blocks) \/ v \in ToSet(<<facts>>))
  BY <1>8, <1>9, JoinRange
<1>12. rest \in Seq(U) /\ \A v : v \in ToSet(rest) <=> v \in ToSet(<<facts>>) \/ v \in ToSet(blocks)
  BY <1>11
<1> HIDE DEF rest
<1> DEFINE two == <<dictionary>> \o postings
           three == two \o <<directory>>
<1>13. two \in Seq(U)
       /\ \A v : v \in ToSet(two) <=> v \in ToSet(<<dictionary>>) \/ v \in ToSet(postings)
  BY <1>9, <1>10, JoinRange
<1>14. ss = three \o rest
  BY <1>2
<1> HIDE DEF two
<1>15. three \in Seq(U)
       /\ \A v : v \in ToSet(three) <=> v \in ToSet(two) \/ v \in ToSet(<<directory>>)
  BY <1>9, <1>13, JoinRange
<1> HIDE DEF three, ss
<1>16. ss \in Seq(U) /\ \A v : v \in ToSet(ss) <=> v \in ToSet(three) \/ v \in ToSet(rest)
  BY <1>12, <1>14, <1>15, JoinRange
<1>17. Len(ss) \in Nat /\ DOMAIN ss = 1 .. Len(ss) /\ ss \in [1 .. Len(ss) -> U]
  BY <1>16, SeqIsFunction
<1>18. \A v \in ToSet(ss) : v \in U
  BY <1>17 DEF ToSet
<1>19. /\ dictionary \in ToSet(<<dictionary>>) /\ directory \in ToSet(<<directory>>)
       /\ facts \in ToSet(<<facts>>)
  BY OneRange
<1>20. dictionary \in ToSet(ss) /\ directory \in ToSet(ss) /\ facts \in ToSet(ss)
  BY <1>12, <1>13, <1>15, <1>16, <1>19
<1>21. \A i \in DOMAIN details : block(i) \in ToSet(blocks)
  BY <1>4 DEF ToSet
<1>22. \A i \in DOMAIN details : block(i) \in ToSet(ss)
  BY <1>12, <1>16, <1>21
<1> QED
  BY <1>7, <1>17, <1>18, <1>20, <1>22
     DEF ss, dictionary, hierarchy, directory, facts, block, details, ids, enc

(* Whatever the graph and the writer, the sections that are encoded say     *)
(* what the graph says: the dictionary, postings and directory name its     *)
(* declarations and edges by ordinal, each detail block decodes to the      *)
(* declarations its interval claims, every ordinal is in the interval of a  *)
(* block, and the facts decode to the graph (ArtifactBlobLayout::encode).   *)
THEOREM SectionsAreGood ==
    ASSUME NEW graph, IsGraph(graph),
           NEW writer \in [ordinalized : BOOLEAN, interned : BOOLEAN, postings : BOOLEAN]
    PROVE  SectionsGood(Sections(graph, writer), graph)
<1> DEFINE enc == EncodedGraph(graph, writer.ordinalized)
           details == DetailBlocks(enc, writer.interned)
           ids == [i \in DOMAIN Symbols(enc) |-> Symbols(enc)[i].id]
           ss == Sections(graph, writer)
           block(i) == Section("detail", <<details[i]>>, 0, details[i].first,
                               details[i].first + Len(details[i].entries))
           dictionary == Section("dictionary", ids, 0, 0, 0)
           hierarchy == Section("hierarchy", Edges(graph), 0, 0, 0)
           directory == Section("directory", DirectoryEntries(enc), 0, 0, 0)
           facts == Section("facts", <<enc>>, 1, 0, 0)
<1>1. writer.ordinalized \in BOOLEAN /\ writer.interned \in BOOLEAN
  OBVIOUS
<1>2. /\ Len(ss) \in Nat /\ DOMAIN ss = 1 .. Len(ss)
      /\ \A v \in ToSet(ss) :
           \/ v = dictionary \/ v = hierarchy \/ v = directory \/ v = facts
           \/ \E i \in DOMAIN details : v = block(i)
      /\ dictionary \in ToSet(ss) /\ directory \in ToSet(ss) /\ facts \in ToSet(ss)
      /\ \A i \in DOMAIN details : block(i) \in ToSet(ss)
  BY SectionsWhere
<1>3. EncodedAs(enc, graph, writer.ordinalized)
  BY <1>1, EncodedGraphIs
<1>4. DetailsGood(details, graph)
  BY <1>1, DetailsAreGood
<1>5. FactsRight(<<enc>>, graph)
  <2>1. DecodedGraph(enc).symbols = DeclaredIn(graph)
        /\ DecodedGraph(enc).hierarchy = ToSet(Edges(graph))
    BY <1>1, GraphRoundTrip
  <2> HIDE DEF enc
  <2> QED
    BY <2>1 DEF FactsRight
<1> HIDE DEF enc, details, ss
<1>6. DictionaryRight(ids, graph) /\ ids \in Seq(STRING)
  <2>1. /\ Len(Symbols(graph)) \in Nat
        /\ DOMAIN Symbols(enc) = 1 .. Len(Symbols(graph))
        /\ \A i \in 1 .. Len(Symbols(graph)) : Symbols(enc)[i].id = Symbols(graph)[i].id
    BY <1>1, <1>3, EncodedNames
  <2>2. Symbols(graph) \in Seq(Declarations)
    BY GraphType
  <2>3. \A i \in 1 .. Len(Symbols(graph)) : Symbols(graph)[i].id \in STRING
    <3>1. \A i \in 1 .. Len(Symbols(graph)) : Symbols(graph)[i] \in Declarations
      BY <2>2
    <3> QED
      BY <3>1 DEF Declarations
  <2>4. ids \in [1 .. Len(Symbols(graph)) -> STRING]
        /\ \A i \in 1 .. Len(Symbols(graph)) : ids[i] = Symbols(graph)[i].id
    BY <2>1, <2>3
  <2> HIDE DEF ids
  <2> QED
    BY <2>1, <2>4 DEF DictionaryRight
<1>7. DirectoryRight(DirectoryEntries(enc), graph)
      /\ DirectoryEntries(enc) \in Seq([qualified : STRING, ordinal : Nat])
  BY <1>1, <1>3, DirectoryIsRight
<1> DEFINE names == DirectoryEntries(enc)
           edges == Edges(graph)
<1>8. edges \in Seq(EdgesOfIds)
  BY EdgesType
<1> HIDE DEF ids, names, edges
<1>9. SectionGood(dictionary, graph) /\ dictionary.kind = "dictionary"
  <2>1. EntriesRight("dictionary", ids, graph)
    BY <1>6 DEF EntriesRight
  <2>2. SectionGood(Section("dictionary", ids, IF "dictionary" = "facts" THEN 1 ELSE 0, 0, 0), graph)
    BY <1>6, <2>1, SectionIsGood DEF Kinds
  <2> QED
    BY <2>2 DEF Section
<1>10. SectionGood(hierarchy, graph) /\ hierarchy.kind = "hierarchy"
  <2>1. EntriesRight("hierarchy", edges, graph)
    BY DEF EntriesRight, edges
  <2>2. SectionGood(Section("hierarchy", edges, IF "hierarchy" = "facts" THEN 1 ELSE 0, 0, 0), graph)
    BY <1>8, <2>1, SectionIsGood DEF Kinds
  <2> QED
    BY <2>2 DEF Section, edges
<1>11. SectionGood(directory, graph) /\ directory.kind = "directory"
  <2>1. EntriesRight("directory", names, graph)
    BY <1>7 DEF EntriesRight, names
  <2>2. names \in Seq([qualified : STRING, ordinal : Nat])
    BY <1>7 DEF names
  <2>3. SectionGood(Section("directory", names, IF "directory" = "facts" THEN 1 ELSE 0, 0, 0), graph)
    BY <2>1, <2>2, SectionIsGood DEF Kinds
  <2> QED
    BY <2>3 DEF Section, names
<1>12. SectionGood(facts, graph) /\ facts.kind = "facts"
  <2>1. EntriesRight("facts", <<enc>>, graph)
    BY <1>5 DEF EntriesRight
  <2>2. <<enc>> \in Seq({enc})
    OBVIOUS
  <2>3. SectionGood(Section("facts", <<enc>>, IF "facts" = "facts" THEN 1 ELSE 0, 0, 0), graph)
    BY <2>1, <2>2, SectionIsGood DEF Kinds
  <2> QED
    BY <2>3 DEF Section
<1>13. ASSUME NEW i \in DOMAIN details
       PROVE  /\ SectionGood(block(i), graph) /\ block(i).kind = "detail"
              /\ block(i).entries[1] = details[i]
              /\ block(i).start = details[i].first
              /\ block(i).end = details[i].first + Len(details[i].entries)
  <2> DEFINE b == details[i]
             end == b.first + Len(b.entries)
  <2>1. BlockGood(b, graph)
    BY <1>4 DEF DetailsGood
  <2> HIDE DEF b, end
  <2>2. EntriesRight("detail", <<b>>, graph)
    BY <2>1 DEF EntriesRight
  <2>3. <<b>> \in Seq({b}) /\ <<b>>[1] = b
    OBVIOUS
  <2>4. SectionGood(Section("detail", <<b>>, IF "detail" = "facts" THEN 1 ELSE 0, b.first, end), graph)
    BY <2>2, <2>3, SectionIsGood DEF Kinds
  <2> QED
    BY <2>3, <2>4 DEF Section, b, end
<1> HIDE DEF dictionary, hierarchy, directory, facts
<1>14. ASSUME NEW i \in 1 .. Len(ss)
       PROVE  /\ SectionGood(ss[i], graph)
              /\ ss[i].kind = "detail" => \E j \in DOMAIN details : ss[i] = block(j)
  <2>1. ss[i] \in ToSet(ss)
    BY <1>2 DEF ToSet
  <2>2. \/ ss[i] = dictionary \/ ss[i] = hierarchy \/ ss[i] = directory \/ ss[i] = facts
        \/ \E j \in DOMAIN details : ss[i] = block(j)
    BY <1>2, <2>1
  <2> HIDE DEF block
  <2> QED
    BY <1>9, <1>10, <1>11, <1>12, <1>13, <2>2
<1>15. \A v \in ToSet(ss) : \E i \in 1 .. Len(ss) : ss[i] = v
  BY <1>2 DEF ToSet
<1>16. \A kind \in {"dictionary", "directory", "facts"} : \E i \in 1 .. Len(ss) : ss[i].kind = kind
  BY <1>2, <1>9, <1>11, <1>12, <1>15
<1> HIDE DEF block
<1>17. \A i \in 1 .. Len(ss) : ss[i].kind = "detail" =>
          /\ ss[i].start = ss[i].entries[1].first
          /\ ss[i].end = ss[i].start + Len(ss[i].entries[1].entries)
  BY <1>13, <1>14
<1>18. ASSUME NEW o \in Nat, o < Len(Symbols(graph))
       PROVE  \E i \in 1 .. Len(ss) : ss[i].kind = "detail" /\ ss[i].start <= o /\ o < ss[i].end
  <2>1. PICK j \in 1 .. Len(details) : /\ details[j].first <= o
                                       /\ o < details[j].first + Len(details[j].entries)
    BY <1>4, <1>18 DEF DetailsGood
  <2>2. j \in DOMAIN details
    BY <1>4 DEF DetailsGood
  <2>3. PICK i \in 1 .. Len(ss) : ss[i] = block(j)
    BY <1>2, <1>15, <2>2
  <2> QED
    BY <1>13, <2>1, <2>2, <2>3
<1>19. ASSUME NEW i \in 1 .. Len(ss), NEW j \in 1 .. Len(ss),
              ss[i].kind = "detail", ss[j].kind = "detail", ss[i].start = ss[j].start
       PROVE  ss[i].end = ss[j].end
  <2>1. PICK k \in DOMAIN details : ss[i] = block(k)
    BY <1>14, <1>19
  <2>2. PICK l \in DOMAIN details : ss[j] = block(l)
    BY <1>14, <1>19
  <2>3. k \in 1 .. Len(details) /\ l \in 1 .. Len(details)
    BY <1>4 DEF DetailsGood
  <2>4. details[k].first = details[l].first
    BY <1>13, <1>19, <2>1, <2>2
  <2>5. Len(details[k].entries) = Len(details[l].entries)
    BY <1>4, <2>3, <2>4 DEF DetailsGood
  <2> QED
    BY <1>13, <2>1, <2>2, <2>4, <2>5
<1>20. \A i \in 1 .. Len(ss) : SectionGood(ss[i], graph)
  BY <1>14
<1>21. SectionsGood(ss, graph)
  BY <1>2, <1>16, <1>17, <1>18, <1>19, <1>20 DEF SectionsGood
<1> QED
  BY <1>21 DEF ss

-----------------------------------------------------------------------------
(* What can be read of a payload, damaged or not.                           *)

TocFields == {"kind", "length", "sha", "compression", "start", "end", "offset"}

\* A payload of these sections, whatever was damaged in it since.
Faithful(p, ss) ==
    /\ DOMAIN p = {"header", "tocEnd", "toc", "parts", "length"}
    /\ Len(p.toc) \in Nat /\ DOMAIN p.toc = 1 .. Len(p.toc) /\ Len(p.toc) <= Len(ss)
    /\ \A i \in 1 .. Len(p.toc) :
         /\ DOMAIN p.toc[i] = TocFields
         /\ p.toc[i].kind = ss[i].kind \/ p.toc[i].kind = "unknown"
         /\ p.toc[i].sha = ss[i].sha \/ p.toc[i].sha = <<"other", 0>>
    /\ DOMAIN p.parts = 1 .. Len(ss)
    /\ \A j \in 1 .. Len(ss) :
         /\ DOMAIN p.parts[j] = {"offset", "length", "sha", "entries"}
         /\ p.parts[j].entries = ss[j].entries
         /\ p.parts[j].sha = ss[j].sha \/ p.parts[j].sha = <<"damaged", 0>>

(* In a payload of such sections, whatever was damaged in it since, what a  *)
(* reader gets for an entry of the TOC is what a section of that kind says  *)
(* of the graph, or nothing: the checksum of the bytes has to be the        *)
(* entry's (ArtifactBlobLayout::section, decompress_section).               *)
THEOREM BytesAreRight ==
    ASSUME NEW graph, NEW ss, SectionsGood(ss, graph), NEW p, Faithful(p, ss),
           NEW i \in 1 .. Len(p.toc), p.toc[i].kind # "unknown",
           NEW entries \in SectionBytes(p, p.toc[i])
    PROVE  EntriesRight(p.toc[i].kind, entries, graph)
<1> DEFINE s == p.toc[i]
           read == ReadRange(p, s.offset, s.length)
           kind == s.kind
<1>1. /\ Len(ss) \in Nat /\ Len(p.toc) \in Nat /\ Len(p.toc) <= Len(ss)
      /\ i \in 1 .. Len(ss)
  BY DEF Faithful, SectionsGood
<1>2. /\ kind = ss[i].kind
      /\ s.sha = ss[i].sha \/ s.sha = <<"other", 0>>
  BY DEF Faithful
<1>3. SectionGood(ss[i], graph)
  BY <1>1 DEF SectionsGood
<1>4. PICK b \in read : s.sha = b.sha /\ entries = b.entries
  BY DEF SectionBytes
<1>5. ASSUME NEW j \in 1 .. Len(ss), ss[j].sha = ss[i].sha
      PROVE  EntriesRight(kind, ss[j].entries, graph)
  <2>1. SectionGood(ss[j], graph)
    BY <1>1 DEF SectionsGood
  <2>2. ss[i].kind # "nothing" /\ ss[j].kind # "nothing"
    BY <1>3, <2>1, KindsApart DEF SectionGood
  <2>3. CASE ss[i].entries = << >>
    <3>1. ss[i].sha = <<"nothing", 0>>
      BY <1>3, <2>3 DEF SectionGood
    <3>2. ss[j].entries = << >>
      <4> SUFFICES ASSUME ss[j].entries # << >> PROVE FALSE
        OBVIOUS
      <4>1. ss[j].sha = <<ss[j].kind, ss[j].start>>
        BY <2>1 DEF SectionGood
      <4>2. <<ss[j].kind, ss[j].start>>[1] = ss[j].kind /\ <<"nothing", 0>>[1] = "nothing"
        OBVIOUS
      <4>3. <<ss[j].kind, ss[j].start>> = <<"nothing", 0>>
        BY <1>5, <3>1, <4>1
      <4> QED
        BY <2>2, <4>2, <4>3
    <3> QED
      BY <1>2, <1>3, <2>3, <3>2 DEF SectionGood
  <2>4. CASE ss[i].entries # << >>
    <3>1. ss[i].sha = <<ss[i].kind, ss[i].start>>
      BY <1>3, <2>4 DEF SectionGood
    <3>2. <<ss[i].kind, ss[i].start>>[1] = ss[i].kind
          /\ <<ss[j].kind, ss[j].start>>[1] = ss[j].kind /\ <<"nothing", 0>>[1] = "nothing"
      OBVIOUS
    <3>3. ss[j].sha[1] = ss[i].kind
      BY <1>5, <3>1, <3>2
    <3>4. ss[j].kind = ss[i].kind
      BY <2>1, <2>2, <3>2, <3>3 DEF SectionGood
    <3> QED
      BY <1>2, <2>1, <3>4 DEF SectionGood
  <2> QED
    BY <2>3, <2>4
<1>6. CASE s.length = 0
  <2>1. b = [sha |-> <<"nothing", 0>>, entries |-> << >>]
    BY <1>6 DEF ReadRange
  <2>2. b.sha = <<"nothing", 0>> /\ b.entries = << >>
    BY <2>1
  <2>3. <<"nothing", 0>>[1] = "nothing" /\ <<"other", 0>>[1] = "other"
    OBVIOUS
  <2>4. ss[i].sha = <<"nothing", 0>>
    BY <1>2, <1>4, <2>2, <2>3
  <2>5. ss[i].entries = << >>
    <3> SUFFICES ASSUME ss[i].entries # << >> PROVE FALSE
      OBVIOUS
    <3>1. ss[i].sha = <<ss[i].kind, ss[i].start>>
      BY <1>3 DEF SectionGood
    <3>2. <<ss[i].kind, ss[i].start>>[1] = ss[i].kind
      OBVIOUS
    <3>3. ss[i].kind # "nothing"
      BY <1>3, KindsApart DEF SectionGood
    <3> QED
      BY <2>3, <2>4, <3>1, <3>2, <3>3
  <2> QED
    BY <1>1, <1>4, <1>5, <2>2, <2>5
<1>7. CASE s.length # 0
  <2>1. PICK q \in ToSet(p.parts) : b = [sha |-> q.sha, entries |-> q.entries]
    BY <1>7 DEF ReadRange
  <2>2. b.sha = q.sha /\ b.entries = q.entries
    BY <2>1
  <2>3. PICK j \in 1 .. Len(ss) : q = p.parts[j]
    BY DEF ToSet, Faithful
  <2>4. q.entries = ss[j].entries /\ (q.sha = ss[j].sha \/ q.sha = <<"damaged", 0>>)
    BY <2>3 DEF Faithful
  <2>5. SectionGood(ss[j], graph)
    BY DEF SectionsGood
  <2>6. s.sha[1] # "damaged"
    <3>1. <<"nothing", 0>>[1] = "nothing" /\ <<"other", 0>>[1] = "other"
          /\ <<ss[i].kind, ss[i].start>>[1] = ss[i].kind
      OBVIOUS
    <3>2. ss[i].kind # "damaged"
      BY <1>3, KindsApart DEF SectionGood
    <3>3. ss[i].sha = <<"nothing", 0>> \/ ss[i].sha = <<ss[i].kind, ss[i].start>>
      BY <1>3 DEF SectionGood
    <3> QED
      BY <1>2, <3>1, <3>2, <3>3
  <2>7. ss[j].sha[1] # "other"
    <3>1. <<"nothing", 0>>[1] = "nothing" /\ <<ss[j].kind, ss[j].start>>[1] = ss[j].kind
      OBVIOUS
    <3>2. ss[j].kind # "other"
      BY <2>5, KindsApart DEF SectionGood
    <3>3. ss[j].sha = <<"nothing", 0>> \/ ss[j].sha = <<ss[j].kind, ss[j].start>>
      BY <2>5 DEF SectionGood
    <3> QED
      BY <3>1, <3>2, <3>3
  <2>8. <<"damaged", 0>>[1] = "damaged" /\ <<"other", 0>>[1] = "other"
    OBVIOUS
  <2>9. ss[j].sha = ss[i].sha
    BY <1>2, <1>4, <2>2, <2>4, <2>6, <2>7, <2>8
  <2> QED
    BY <1>4, <1>5, <2>2, <2>4, <2>9
<1> QED
  BY <1>6, <1>7

\* The place of a section, when the TOC has one of that kind.
LEMMA SectionPlace ==
    ASSUME NEW p, Len(p.toc) \in Nat, NEW kind
    PROVE  /\ SectionOf(p, kind) # 0 =>
                SectionOf(p, kind) \in 1 .. Len(p.toc) /\ p.toc[SectionOf(p, kind)].kind = kind
           /\ \A i \in 1 .. Len(p.toc) : p.toc[i].kind = kind => SectionOf(p, kind) # 0
<1> DEFINE I == {i \in 1 .. Len(p.toc) : p.toc[i].kind = kind}
<1>1. SectionOf(p, kind) = IF I # {} THEN Min(I) ELSE 0
  BY DEF SectionOf, SelectInSeq
<1>2. I # {} => Min(I) \in I
  <2>1. I \subseteq Nat
    OBVIOUS
  <2> HIDE DEF I
  <2> QED
    BY <2>1, MinIsLeast
<1>3. \A i \in I : i \in 1 .. Len(p.toc) /\ p.toc[i].kind = kind /\ i # 0
  OBVIOUS
<1>4. \A i \in 1 .. Len(p.toc) : p.toc[i].kind = kind => I # {}
  OBVIOUS
<1> HIDE DEF I
<1> QED
  BY <1>1, <1>2, <1>3, <1>4

LEMMA BlockPlace ==
    ASSUME NEW p, Len(p.toc) \in Nat, NEW o
    PROVE  /\ DetailSection(p, o) # 0 =>
                /\ DetailSection(p, o) \in 1 .. Len(p.toc)
                /\ p.toc[DetailSection(p, o)].kind = "detail"
                /\ p.toc[DetailSection(p, o)].start <= o
                /\ o < p.toc[DetailSection(p, o)].end
           /\ \A i \in 1 .. Len(p.toc) :
                p.toc[i].kind = "detail" /\ p.toc[i].start <= o /\ o < p.toc[i].end
                  => DetailSection(p, o) # 0
<1> DEFINE Holds(s) == s.kind = "detail" /\ s.start <= o /\ o < s.end
           I == {i \in 1 .. Len(p.toc) : Holds(p.toc[i])}
<1>1. DetailSection(p, o) = IF I # {} THEN Min(I) ELSE 0
  BY DEF DetailSection, SelectInSeq
<1>2. I # {} => Min(I) \in I
  <2>1. I \subseteq Nat
    OBVIOUS
  <2> HIDE DEF I
  <2> QED
    BY <2>1, MinIsLeast
<1>3. \A i \in I : i \in 1 .. Len(p.toc) /\ Holds(p.toc[i]) /\ i # 0
  OBVIOUS
<1>4. \A i \in 1 .. Len(p.toc) : Holds(p.toc[i]) => I # {}
  OBVIOUS
<1> HIDE DEF I
<1> QED
  BY <1>1, <1>2, <1>3, <1>4

\* A section that is read says what the graph says.
LEMMA SectionIsRight ==
    ASSUME NEW graph, NEW ss, SectionsGood(ss, graph), NEW p, Faithful(p, ss),
           NEW kind \in Kinds, NEW entries \in ReadSection(p, kind)
    PROVE  EntriesRight(kind, entries, graph)
<1> DEFINE i == SectionOf(p, kind)
<1>1. i # 0 /\ entries \in SectionBytes(p, p.toc[i])
  BY DEF ReadSection, HasSection
<1>2. Len(p.toc) \in Nat
  BY DEF Faithful
<1>3. i \in 1 .. Len(p.toc) /\ p.toc[i].kind = kind
  BY <1>1, <1>2, SectionPlace
<1>4. kind # "unknown"
  BY KindsApart
<1> HIDE DEF i
<1>5. EntriesRight(p.toc[i].kind, entries, graph)
  BY <1>1, <1>3, <1>4, BytesAreRight
<1> QED
  BY <1>3, <1>5

LEMMA BlockReadIsGood ==
    ASSUME NEW graph, NEW ss, SectionsGood(ss, graph), NEW p, Faithful(p, ss),
           NEW o, NEW block \in SymbolDetailBlock(p, o)
    PROVE  BlockGood(block, graph)
<1> DEFINE i == DetailSection(p, o)
<1>1. i # 0
  BY DEF SymbolDetailBlock
<1>2. PICK entries \in SectionBytes(p, p.toc[i]) : block = entries[1]
  BY <1>1 DEF SymbolDetailBlock
<1>3. Len(p.toc) \in Nat
  BY DEF Faithful
<1>4. i \in 1 .. Len(p.toc) /\ p.toc[i].kind = "detail"
  BY <1>1, <1>3, BlockPlace
<1> HIDE DEF i
<1>5. p.toc[i].kind # "unknown"
  BY <1>4
<1>6. EntriesRight(p.toc[i].kind, entries, graph)
  BY <1>2, <1>4, <1>5, BytesAreRight
<1>7. EntriesRight("detail", entries, graph)
  BY <1>4, <1>6
<1>8. PICK b : entries = <<b>> /\ BlockGood(b, graph)
  BY <1>7 DEF EntriesRight
<1>9. <<b>>[1] = b
  OBVIOUS
<1> QED
  BY <1>2, <1>8, <1>9

LEMMA FactsReadAreRight ==
    ASSUME NEW graph, NEW ss, SectionsGood(ss, graph), NEW p, Faithful(p, ss),
           NEW f \in GraphFacts(p)
    PROVE  /\ DecodedGraph(f).symbols = DeclaredIn(graph)
           /\ DecodedGraph(f).hierarchy = ToSet(Edges(graph))
<1>1. PICK entries \in ReadSection(p, "facts") : f = entries[1]
  BY DEF GraphFacts
<1>2. EntriesRight("facts", entries, graph)
  BY SectionIsRight DEF Kinds
<1>3. PICK g : /\ entries = <<g>>
               /\ DecodedGraph(g).symbols = DeclaredIn(graph)
               /\ DecodedGraph(g).hierarchy = ToSet(Edges(graph))
  BY <1>2 DEF EntriesRight, FactsRight
<1>4. <<g>>[1] = g
  OBVIOUS
<1> QED
  BY <1>1, <1>3, <1>4

-----------------------------------------------------------------------------
(* A payload that nothing has befallen.                                     *)

Pristine(p, ss) == \E toc : Placed(ss, toc) = toc /\ p = Payload(ss, toc)

LEMMA TocLengthType ==
    ASSUME NEW toc, NEW n \in Nat, DOMAIN toc = 1 .. n
    PROVE  TocLength(toc) \in Nat
<1> DEFINE lengths == [i \in DOMAIN toc |-> VarintBytes(toc[i].offset) + VarintBytes(toc[i].length)]
<1>1. \A m : VarintBytes(m) \in {1, 2, 3}
  BY DEF VarintBytes
<1>2. \A i \in DOMAIN toc : VarintBytes(toc[i].offset) + VarintBytes(toc[i].length) \in Nat
  <2> SUFFICES ASSUME NEW i \in DOMAIN toc
               PROVE  VarintBytes(toc[i].offset) + VarintBytes(toc[i].length) \in Nat
    OBVIOUS
  <2>1. VarintBytes(toc[i].offset) \in {1, 2, 3} /\ VarintBytes(toc[i].length) \in {1, 2, 3}
    BY <1>1
  <2> QED
    BY <2>1
<1>3. lengths \in [1 .. n -> Nat]
  BY <1>2
<1>4. TocLength(toc) = SumOf(lengths)
  BY DEF TocLength
<1> HIDE DEF lengths
<1> QED
  BY <1>3, <1>4, SumOfParts

\* Its entries and its parts are those of the sections, in their places.
Whole(p, ss) ==
    /\ Len(p.toc) = Len(ss) /\ DOMAIN p.parts = 1 .. Len(ss)
    /\ \A i \in 1 .. Len(ss) :
        /\ p.toc[i].kind = ss[i].kind /\ p.toc[i].length = ss[i].length
        /\ p.toc[i].sha = ss[i].sha /\ p.toc[i].compression = ss[i].compression
        /\ p.toc[i].start = ss[i].start /\ p.toc[i].end = ss[i].end
        /\ p.parts[i].offset = p.toc[i].offset /\ p.parts[i].length = ss[i].length
        /\ p.parts[i].sha = ss[i].sha /\ p.parts[i].entries = ss[i].entries

LEMMA PristineIsWhole ==
    ASSUME NEW graph, NEW ss, SectionsGood(ss, graph), NEW p, Pristine(p, ss)
    PROVE  Whole(p, ss) /\ Faithful(p, ss) /\ Opens(p)
<1> DEFINE n == Len(ss)
           lengths == [j \in 1 .. n |-> ss[j].length]
           before(i) == SumOf([j \in 1 .. (i - 1) |-> ss[j].length])
           total == SumOf([j \in DOMAIN ss |-> ss[j].length])
<1>1. PICK toc : Placed(ss, toc) = toc /\ p = Payload(ss, toc)
  BY DEF Pristine
<1> DEFINE base == HeaderSize + TocLength(toc)
           entry(i) ==
              [kind |-> ss[i].kind, length |-> ss[i].length, sha |-> ss[i].sha,
               compression |-> ss[i].compression, start |-> ss[i].start,
               end |-> ss[i].end, offset |-> base + before(i)]
           part(i) ==
              [offset |-> base + before(i), length |-> ss[i].length, sha |-> ss[i].sha,
               entries |-> ss[i].entries]
           parts == [i \in DOMAIN ss |-> part(i)]
<1>2. n \in Nat /\ DOMAIN ss = 1 .. n /\ \A i \in 1 .. n : ss[i].length \in Nat
  BY DEF SectionsGood, SectionGood
<1>3. toc = [i \in DOMAIN ss |-> entry(i)]
  BY <1>1 DEF Placed
<1>4. p = [header |-> "valid", tocEnd |-> base, toc |-> toc, parts |-> parts,
           length |-> base + total]
  BY <1>1 DEF Payload
<1>5. base \in Nat
  <2>1. DOMAIN toc = 1 .. n
    BY <1>2, <1>3
  <2>2. TocLength(toc) \in Nat
    BY <1>2, <2>1, TocLengthType
  <2> QED
    BY <2>2, LayoutAssumption
<1>6. lengths \in [1 .. n -> Nat]
  BY <1>2
<1>7. total = SumOf(lengths)
  BY <1>2
<1>8. ASSUME NEW i \in 1 .. n
      PROVE  /\ before(i) \in Nat /\ total \in Nat
             /\ before(i) + ss[i].length <= total
  <2>1. [j \in 1 .. (i - 1) |-> lengths[j]] = [j \in 1 .. (i - 1) |-> ss[j].length]
    BY <1>2
  <2>2. lengths[i] = ss[i].length
    BY <1>2
  <2> HIDE DEF lengths, total
  <2>3. /\ SumOf(lengths) \in Nat
        /\ SumOf([j \in 1 .. (i - 1) |-> lengths[j]]) \in Nat
        /\ SumOf([j \in 1 .. (i - 1) |-> lengths[j]]) + lengths[i] <= SumOf(lengths)
    BY <1>2, <1>6, SumOfParts
  <2> QED
    BY <1>7, <2>1, <2>2, <2>3
<1>9. total \in Nat
  <2> HIDE DEF lengths, total
  <2> QED
    BY <1>2, <1>6, <1>7, SumOfParts
<1> HIDE DEF n, before, total, base
<1>10. /\ DOMAIN toc = 1 .. n
       /\ \A i \in 1 .. n : toc[i] = entry(i)
       /\ DOMAIN parts = 1 .. n
       /\ \A i \in 1 .. n : parts[i] = part(i)
  BY <1>2, <1>3
<1>11. Len(toc) = n
  <2>1. toc = [i \in 1 .. n |-> entry(i)]
    BY <1>2, <1>3
  <2> HIDE DEF entry
  <2> QED
    BY <1>2, <2>1
<1> HIDE DEF parts
<1>12. /\ p.header = "valid" /\ p.tocEnd = base /\ p.toc = toc /\ p.parts = parts
       /\ p.length = base + total
       /\ DOMAIN p = {"header", "tocEnd", "toc", "parts", "length"}
  BY <1>4
<1>13. ASSUME NEW i \in 1 .. n
       PROVE  /\ p.toc[i].kind = ss[i].kind /\ p.toc[i].length = ss[i].length
              /\ p.toc[i].sha = ss[i].sha /\ p.toc[i].compression = ss[i].compression
              /\ p.toc[i].start = ss[i].start /\ p.toc[i].end = ss[i].end
              /\ p.toc[i].offset = base + before(i)
              /\ DOMAIN p.toc[i] = TocFields
  <2>1. p.toc[i] = entry(i)
    BY <1>10, <1>12
  <2> QED
    BY <2>1 DEF TocFields
<1>14. ASSUME NEW i \in 1 .. n
       PROVE  /\ p.parts[i].offset = base + before(i) /\ p.parts[i].length = ss[i].length
              /\ p.parts[i].sha = ss[i].sha /\ p.parts[i].entries = ss[i].entries
              /\ DOMAIN p.parts[i] = {"offset", "length", "sha", "entries"}
  <2>1. p.parts[i] = part(i)
    BY <1>10, <1>12
  <2> QED
    BY <2>1
<1> HIDE DEF entry, part
<1>15. Whole(p, ss)
  BY <1>10, <1>11, <1>12, <1>13, <1>14 DEF Whole, n
<1>16. Faithful(p, ss)
  BY <1>2, <1>10, <1>11, <1>12, <1>13, <1>14 DEF Faithful, n
<1>17. ASSUME NEW i \in 1 .. n
       PROVE  p.toc[i].offset >= p.tocEnd /\ p.toc[i].offset + p.toc[i].length <= p.length
  <2> DEFINE l == ss[i].length
             f == before(i)
  <2>1. /\ f \in Nat /\ l \in Nat /\ base \in Nat /\ total \in Nat /\ f + l <= total
    BY <1>2, <1>5, <1>8
  <2>2. p.toc[i].offset = base + f /\ p.toc[i].length = l
    BY <1>13
  <2> HIDE DEF f, l
  <2>3. base + f >= base /\ (base + f) + l <= base + total
    BY <2>1
  <2> QED
    BY <1>12, <2>2, <2>3
<1>18. p.tocEnd <= p.length
  BY <1>5, <1>9, <1>12
<1>19. Opens(p)
  BY <1>10, <1>12, <1>17, <1>18 DEF Opens
<1> QED
  BY <1>15, <1>16, <1>19

\* Every section of it can be read.
LEMMA WholeReads ==
    ASSUME NEW graph, NEW ss, SectionsGood(ss, graph), NEW p, Whole(p, ss), NEW i \in 1 .. Len(ss)
    PROVE  ss[i].entries \in SectionBytes(p, p.toc[i])
<1> DEFINE s == p.toc[i]
           e == ss[i].entries
           bytes == [sha |-> ss[i].sha, entries |-> e]
<1>1. SectionGood(ss[i], graph)
  BY DEF SectionsGood
<1>2. /\ s.kind = ss[i].kind /\ s.length = ss[i].length /\ s.sha = ss[i].sha
      /\ s.compression = ss[i].compression
      /\ p.parts[i].offset = s.offset /\ p.parts[i].length = ss[i].length
      /\ p.parts[i].sha = ss[i].sha /\ p.parts[i].entries = e
      /\ DOMAIN p.parts = 1 .. Len(ss)
  BY DEF Whole
<1> HIDE DEF s, e
<1>3. bytes.sha = ss[i].sha /\ bytes.entries = e
  OBVIOUS
<1>4. bytes \in ReadRange(p, s.offset, s.length)
  <2>1. CASE s.length = 0
    <3>1. e = << >> /\ ss[i].sha = <<"nothing", 0>>
      BY <1>1, <1>2, <2>1 DEF SectionGood, e
    <3> QED
      BY <2>1, <3>1 DEF ReadRange
  <2>2. CASE s.length # 0
    <3>1. p.parts[i] \in {q \in ToSet(p.parts) : q.offset = s.offset /\ q.length = s.length}
      BY <1>2 DEF ToSet
    <3>2. bytes = [sha |-> p.parts[i].sha, entries |-> p.parts[i].entries]
      BY <1>2
    <3> QED
      BY <2>2, <3>1, <3>2 DEF ReadRange
  <2> QED
    BY <2>1, <2>2
<1>5. Decompresses(s, bytes)
  <2>1. ss[i].kind = "facts" => e # << >>
    <3> SUFFICES ASSUME ss[i].kind = "facts" PROVE e # << >>
      OBVIOUS
    <3>1. FactsRight(e, graph)
      BY <1>1 DEF SectionGood, EntriesRight, e
    <3>2. PICK f : e = <<f>>
      BY <3>1 DEF FactsRight
    <3>3. <<f>> # << >>
      OBVIOUS
    <3> QED
      BY <3>2, <3>3
  <2>2. <<"nothing", 0>>[1] = "nothing" /\ <<ss[i].kind, ss[i].start>>[1] = ss[i].kind
    OBVIOUS
  <2>3. IF ss[i].kind = "facts" THEN ss[i].sha[1] = "facts" /\ s.compression = 1
        ELSE ss[i].sha[1] # "facts" /\ s.compression = 0
    BY <1>1, <1>2, <2>1, <2>2 DEF SectionGood, e
  <2> HIDE DEF bytes
  <2> QED
    BY <1>3, <2>3 DEF Decompresses
<1> HIDE DEF bytes
<1>6. bytes.entries \in SectionBytes(p, s)
  BY <1>2, <1>3, <1>4, <1>5 DEF SectionBytes
<1> QED
  BY <1>3, <1>6 DEF e, s

\* What the TOC of such a payload has can be read, and it has what a query needs.
LEMMA WholeHasSections ==
    ASSUME NEW graph, NEW ss, SectionsGood(ss, graph), NEW p, Whole(p, ss)
    PROVE  /\ \A kind : HasSection(p, kind) => ReadSection(p, kind) # {}
           /\ \A kind \in {"dictionary", "directory", "facts"} : ReadSection(p, kind) # {}
           /\ GraphFacts(p) # {}
<1>1. Len(p.toc) = Len(ss) /\ Len(ss) \in Nat /\ Len(p.toc) \in Nat
  BY DEF Whole, SectionsGood
<1>2. ASSUME NEW kind, HasSection(p, kind)
      PROVE  ReadSection(p, kind) # {}
  <2> DEFINE i == SectionOf(p, kind)
  <2>1. i \in 1 .. Len(ss)
    BY <1>1, <1>2, SectionPlace DEF HasSection
  <2>2. ss[i].entries \in SectionBytes(p, p.toc[i])
    BY <2>1, WholeReads
  <2> QED
    BY <1>2, <2>2 DEF ReadSection
<1>3. ASSUME NEW kind \in {"dictionary", "directory", "facts"}
      PROVE  ReadSection(p, kind) # {}
  <2>1. PICK i \in 1 .. Len(ss) : ss[i].kind = kind
    BY DEF SectionsGood
  <2>2. p.toc[i].kind = kind
    BY <2>1 DEF Whole
  <2>3. HasSection(p, kind)
    BY <1>1, <2>2, SectionPlace DEF HasSection
  <2> QED
    BY <1>2, <2>3
<1>4. GraphFacts(p) # {}
  BY <1>3 DEF GraphFacts
<1> QED
  BY <1>2, <1>3, <1>4

\* Every declaration has a block, which has an entry for all those whose block
\* starts where its own does.
GivesAll(b, p, o, graph) ==
    \A e \in Nat : e < Len(Symbols(graph))
                  /\ SymbolDetailBlockStart(p, e) = SymbolDetailBlockStart(p, o)
                  => DecodeSymbolDetail(b, e) # {}

LEMMA WholeHasDetails ==
    ASSUME NEW graph, NEW ss, SectionsGood(ss, graph), NEW p, Whole(p, ss),
           NEW o \in Nat, o < Len(Symbols(graph))
    PROVE  /\ DetailSection(p, o) # 0
           /\ \E b \in SymbolDetailBlock(p, o) : GivesAll(b, p, o, graph)
<1>1. Len(p.toc) = Len(ss) /\ Len(ss) \in Nat /\ Len(p.toc) \in Nat
  BY DEF Whole, SectionsGood
<1>2. ASSUME NEW e \in Nat, e < Len(Symbols(graph))
      PROVE  /\ DetailSection(p, e) # 0
             /\ DetailSection(p, e) \in 1 .. Len(ss)
             /\ ss[DetailSection(p, e)].kind = "detail"
             /\ ss[DetailSection(p, e)].start <= e
             /\ e < ss[DetailSection(p, e)].end
             /\ SymbolDetailBlockStart(p, e) = ss[DetailSection(p, e)].start
  <2>1. PICK i \in 1 .. Len(ss) : ss[i].kind = "detail" /\ ss[i].start <= e /\ e < ss[i].end
    BY <1>2 DEF SectionsGood
  <2>2. p.toc[i].kind = "detail" /\ p.toc[i].start <= e /\ e < p.toc[i].end
    BY <2>1 DEF Whole
  <2>3. DetailSection(p, e) # 0
    BY <1>1, <2>2, BlockPlace
  <2> DEFINE j == DetailSection(p, e)
  <2>4. j \in 1 .. Len(ss) /\ p.toc[j].kind = "detail" /\ p.toc[j].start <= e /\ e < p.toc[j].end
    BY <1>1, <2>3, BlockPlace
  <2>5. p.toc[j].kind = ss[j].kind /\ p.toc[j].start = ss[j].start /\ p.toc[j].end = ss[j].end
    BY <2>4 DEF Whole
  <2> QED
    BY <2>3, <2>4, <2>5 DEF SymbolDetailBlockStart
<1> DEFINE i == DetailSection(p, o)
           b == ss[i].entries[1]
<1>3. i # 0 /\ i \in 1 .. Len(ss) /\ ss[i].kind = "detail"
      /\ SymbolDetailBlockStart(p, o) = ss[i].start
  BY <1>2
<1>4. ss[i].entries \in SectionBytes(p, p.toc[i])
  BY <1>3, WholeReads
<1>5. b \in SymbolDetailBlock(p, o)
  BY <1>3, <1>4 DEF SymbolDetailBlock
<1>6. BlockGood(b, graph)
  <2>1. EntriesRight("detail", ss[i].entries, graph)
    BY <1>3 DEF SectionsGood, SectionGood
  <2>2. PICK c : ss[i].entries = <<c>> /\ BlockGood(c, graph)
    BY <2>1 DEF EntriesRight
  <2>3. <<c>>[1] = c
    OBVIOUS
  <2> QED
    BY <2>2, <2>3
<1>7. ss[i].start = b.first /\ ss[i].end = ss[i].start + Len(b.entries)
  BY <1>3 DEF SectionsGood
<1>8. ASSUME NEW e \in Nat, e < Len(Symbols(graph)),
             SymbolDetailBlockStart(p, e) = SymbolDetailBlockStart(p, o)
      PROVE  DecodeSymbolDetail(b, e) # {}
  <2> DEFINE j == DetailSection(p, e)
  <2>1. /\ j \in 1 .. Len(ss) /\ ss[j].kind = "detail" /\ ss[j].start <= e /\ e < ss[j].end
        /\ ss[j].start = ss[i].start
    BY <1>2, <1>3, <1>8
  <2>2. ss[j].end = ss[i].end
    BY <1>3, <2>1 DEF SectionsGood
  <2>3. b.first <= e /\ e < b.first + Len(b.entries)
    BY <1>7, <2>1, <2>2
  <2> HIDE DEF b
  <2> QED
    BY <1>6, <2>3, DecodeGood
<1>9. GivesAll(b, p, o, graph)
  BY <1>8 DEF GivesAll
<1> HIDE DEF b, i
<1> QED
  BY <1>2, <1>5, <1>9

-----------------------------------------------------------------------------
(* Damage leaves a payload faithful.                                        *)


LEMMA DamagedEntry ==
    ASSUME NEW ss, NEW p, Faithful(p, ss), NEW i \in DOMAIN p.toc,
           NEW field \in TocFields, NEW v,
           field = "kind" => v = "unknown", field = "sha" => v = <<"other", 0>>
    PROVE  Faithful([p EXCEPT !.toc[i][field] = v], ss)
<1> DEFINE q == [p EXCEPT !.toc[i][field] = v]
           n == Len(p.toc)
           toc == [p.toc EXCEPT ![i] = [p.toc[i] EXCEPT ![field] = v]]
<1>1. /\ DOMAIN p = {"header", "tocEnd", "toc", "parts", "length"}
      /\ n \in Nat /\ DOMAIN p.toc = 1 .. n /\ n <= Len(ss)
      /\ \A j \in 1 .. n : /\ DOMAIN p.toc[j] = TocFields
                           /\ p.toc[j].kind = ss[j].kind \/ p.toc[j].kind = "unknown"
                           /\ p.toc[j].sha = ss[j].sha \/ p.toc[j].sha = <<"other", 0>>
  BY DEF Faithful
<1>2. q.toc = toc /\ q.parts = p.parts /\ DOMAIN q = DOMAIN p
  BY <1>1
<1>3. DOMAIN toc = 1 .. n /\ Len(toc) = n
  <2>1. toc = [j \in 1 .. n |-> IF j = i THEN [p.toc[i] EXCEPT ![field] = v] ELSE p.toc[j]]
    BY <1>1
  <2> QED
    BY <1>1, <2>1
<1>4. ASSUME NEW j \in 1 .. n
      PROVE  /\ DOMAIN toc[j] = TocFields
             /\ toc[j].kind = ss[j].kind \/ toc[j].kind = "unknown"
             /\ toc[j].sha = ss[j].sha \/ toc[j].sha = <<"other", 0>>
  <2>1. CASE j # i
    <3>1. toc[j] = p.toc[j]
      BY <1>1, <2>1
    <3> HIDE DEF toc
    <3> QED
      BY <1>1, <3>1
  <2>2. CASE j = i
    <3> DEFINE e == p.toc[i]
               d == [e EXCEPT ![field] = v]
    <3>1. toc[j] = d
      BY <1>1, <2>2
    <3>2. DOMAIN e = TocFields /\ (e.kind = ss[j].kind \/ e.kind = "unknown")
          /\ (e.sha = ss[j].sha \/ e.sha = <<"other", 0>>)
      BY <1>1, <2>2
    <3> HIDE DEF e, toc
    <3>3. DOMAIN d = TocFields
      BY <3>2
    <3>4. d["kind"] = IF field = "kind" THEN v ELSE e["kind"]
      BY <3>2 DEF TocFields
    <3>5. d["sha"] = IF field = "sha" THEN v ELSE e["sha"]
      BY <3>2 DEF TocFields
    <3> HIDE DEF d
    <3> QED
      BY <3>1, <3>2, <3>3, <3>4, <3>5
  <2> QED
    BY <2>1, <2>2
<1> HIDE DEF toc, q
<1>5. Faithful(q, ss)
  BY <1>1, <1>2, <1>3, <1>4 DEF Faithful
<1> QED
  BY <1>5 DEF q

LEMMA DamagedHeader ==
    ASSUME NEW ss, NEW p, Faithful(p, ss)
    PROVE  Faithful([p EXCEPT !.header = "invalid"], ss)
<1> DEFINE q == [p EXCEPT !.header = "invalid"]
<1>1. DOMAIN p = {"header", "tocEnd", "toc", "parts", "length"}
  BY DEF Faithful
<1>2. q.toc = p.toc /\ q.parts = p.parts /\ DOMAIN q = DOMAIN p
  BY <1>1
<1> HIDE DEF q
<1>3. Faithful(q, ss)
  BY <1>2 DEF Faithful
<1> QED
  BY <1>3 DEF q

LEMMA DamagedToc ==
    ASSUME NEW ss, NEW p, Faithful(p, ss), Len(ss) \in Nat, NEW n \in 0 .. (Len(p.toc) - 1), NEW end
    PROVE  Faithful([p EXCEPT !.toc = SubSeq(p.toc, 1, n), !.tocEnd = end], ss)
<1> DEFINE toc == SubSeq(p.toc, 1, n)
           q == [p EXCEPT !.toc = toc, !.tocEnd = end]
<1>1. DOMAIN p = {"header", "tocEnd", "toc", "parts", "length"}
  BY DEF Faithful
<1>2. /\ Len(p.toc) \in Nat /\ n \in Nat /\ n <= Len(p.toc) /\ DOMAIN p.toc = 1 .. Len(p.toc)
      /\ Len(p.toc) <= Len(ss)
  BY DEF Faithful
<1>3. Len(toc) = n /\ DOMAIN toc = 1 .. n /\ \A i \in 1 .. n : toc[i] = p.toc[i]
  <2>1. toc = [i \in 1 .. n |-> p.toc[i]]
    BY <1>2
  <2> HIDE DEF toc
  <2> QED
    BY <1>2, <2>1
<1> HIDE DEF toc
<1>4. q.toc = toc /\ q.parts = p.parts /\ DOMAIN q = DOMAIN p
  BY <1>1
<1> HIDE DEF q
<1>5. n <= Len(ss) /\ \A i \in 1 .. n : i \in 1 .. Len(p.toc)
  BY <1>2
<1>6. Faithful(q, ss)
  BY <1>2, <1>3, <1>4, <1>5 DEF Faithful
<1> QED
  BY <1>6 DEF q, toc

LEMMA DamagedPart ==
    ASSUME NEW ss, NEW p, Faithful(p, ss), NEW i \in DOMAIN p.parts
    PROVE  Faithful([p EXCEPT !.parts[i].sha = <<"damaged", 0>>], ss)
<1> DEFINE q == [p EXCEPT !.parts[i].sha = <<"damaged", 0>>]
           fields == {"offset", "length", "sha", "entries"}
           parts == [p.parts EXCEPT ![i] = [p.parts[i] EXCEPT !.sha = <<"damaged", 0>>]]
<1>1. /\ DOMAIN p = {"header", "tocEnd", "toc", "parts", "length"}
      /\ DOMAIN p.parts = 1 .. Len(ss)
      /\ \A j \in 1 .. Len(ss) :
           /\ DOMAIN p.parts[j] = fields
           /\ p.parts[j].entries = ss[j].entries
           /\ p.parts[j].sha = ss[j].sha \/ p.parts[j].sha = <<"damaged", 0>>
  BY DEF Faithful
<1>2. q.parts = parts /\ q.toc = p.toc /\ DOMAIN q = DOMAIN p
  BY <1>1
<1>3. DOMAIN parts = 1 .. Len(ss)
  BY <1>1
<1>4. ASSUME NEW j \in 1 .. Len(ss)
      PROVE  /\ DOMAIN parts[j] = fields
             /\ parts[j].entries = ss[j].entries
             /\ parts[j].sha = ss[j].sha \/ parts[j].sha = <<"damaged", 0>>
  <2>1. CASE j # i
    <3>1. parts[j] = p.parts[j]
      BY <1>1, <2>1
    <3> HIDE DEF parts
    <3> QED
      BY <1>1, <3>1
  <2>2. CASE j = i
    <3>1. parts[j] = [p.parts[i] EXCEPT !.sha = <<"damaged", 0>>]
      BY <1>1, <2>2
    <3> HIDE DEF parts
    <3> QED
      BY <1>1, <2>2, <3>1
  <2> QED
    BY <2>1, <2>2
<1> HIDE DEF parts, q
<1>5. Faithful(q, ss)
  BY <1>1, <1>2, <1>3, <1>4 DEF Faithful
<1> QED
  BY <1>5 DEF q

LEMMA DamageIsFaithful ==
    ASSUME NEW ss, Len(ss) \in Nat, NEW p, Faithful(p, ss), NEW q \in DamagedPayloads(p)
    PROVE  Faithful(q, ss)
<1> DEFINE at(i, field, values) == {[p EXCEPT !.toc[i][field] = v] : v \in values}
           other(i) == p.parts[(i % Len(p.parts)) + 1]
           near(n) == {n + 1} \cup (IF n = 0 THEN {} ELSE {n - 1})
           headers == {[p EXCEPT !.header = "invalid"]}
           tocs == {[p EXCEPT !.toc = SubSeq(p.toc, 1, n),
                              !.tocEnd = HeaderSize + TocLength(SubSeq(p.toc, 1, n))] :
                      n \in 0..(Len(p.toc) - 1)}
           parts == {[p EXCEPT !.parts[i].sha = <<"damaged", 0>>] : i \in DOMAIN p.parts}
           entries == UNION {UNION {at(i, "offset", {other(i).offset, HeaderSize, p.length}),
                           at(i, "length", {other(i).length, p.length}),
                           at(i, "sha", {<<"other", 0>>}), at(i, "kind", {"unknown"}),
                           at(i, "compression", {0, 1, 2}),
                           at(i, "start", near(p.toc[i].start)),
                           at(i, "end", near(p.toc[i].end))} : i \in DOMAIN p.toc}
<1>1. q \in headers \cup tocs \cup parts \cup entries
  BY DEF DamagedPayloads
<1>2. CASE q \in headers
  BY <1>2, DamagedHeader
<1>3. CASE q \in tocs
  <2>1. PICK n \in 0 .. (Len(p.toc) - 1) :
           q = [p EXCEPT !.toc = SubSeq(p.toc, 1, n),
                         !.tocEnd = HeaderSize + TocLength(SubSeq(p.toc, 1, n))]
    BY <1>3
  <2> DEFINE end == HeaderSize + TocLength(SubSeq(p.toc, 1, n))
  <2>2. q = [p EXCEPT !.toc = SubSeq(p.toc, 1, n), !.tocEnd = end]
    BY <2>1
  <2> HIDE DEF end
  <2> QED
    BY <2>2, DamagedToc
<1>4. CASE q \in parts
  BY <1>4, DamagedPart
<1>5. CASE q \in entries
  <2>1. PICK i \in DOMAIN p.toc :
           q \in UNION {at(i, "offset", {other(i).offset, HeaderSize, p.length}),
                           at(i, "length", {other(i).length, p.length}),
                           at(i, "sha", {<<"other", 0>>}), at(i, "kind", {"unknown"}),
                           at(i, "compression", {0, 1, 2}),
                           at(i, "start", near(p.toc[i].start)),
                           at(i, "end", near(p.toc[i].end))}
    BY <1>5
  <2> HIDE DEF near, other
  <2>2. ASSUME NEW field \in TocFields, NEW values, q \in at(i, field, values),
               field = "kind" => values = {"unknown"}, field = "sha" => values = {<<"other", 0>>}
        PROVE  Faithful(q, ss)
    <3>1. PICK v \in values : q = [p EXCEPT !.toc[i][field] = v]
      BY <2>2
    <3>2. (field = "kind" => v = "unknown") /\ (field = "sha" => v = <<"other", 0>>)
      BY <2>2
    <3> QED
      BY <3>1, <3>2, DamagedEntry
  <2> HIDE DEF at
  <2>3. CASE q \in at(i, "offset", {other(i).offset, HeaderSize, p.length})
    BY <2>2, <2>3 DEF TocFields
  <2>4. CASE q \in at(i, "length", {other(i).length, p.length})
    BY <2>2, <2>4 DEF TocFields
  <2>5. CASE q \in at(i, "sha", {<<"other", 0>>})
    BY <2>2, <2>5 DEF TocFields
  <2>6. CASE q \in at(i, "kind", {"unknown"})
    BY <2>2, <2>6 DEF TocFields
  <2>7. CASE q \in at(i, "compression", {0, 1, 2})
    BY <2>2, <2>7 DEF TocFields
  <2>8. CASE q \in at(i, "start", near(p.toc[i].start))
    BY <2>2, <2>8 DEF TocFields
  <2>9. CASE q \in at(i, "end", near(p.toc[i].end))
    BY <2>2, <2>9 DEF TocFields
  <2> QED
    BY <2>1, <2>3, <2>4, <2>5, <2>6, <2>7, <2>8, <2>9
<1> QED
  BY <1>1, <1>2, <1>3, <1>4, <1>5

-----------------------------------------------------------------------------
(* What a query is owed, by the ordinals of the declarations.               *)

Ordinals(graph) == {o \in Nat : o < Len(Symbols(graph))}
SubtypesOf(graph, asked) == {e.subtype : e \in {f \in ToSet(Edges(graph)) : f.supertype = asked}}
DeclAtAll(graph, ordinals) == {DeclAt(graph, o) : o \in ordinals}

LEMMA DeclAtFields ==
    ASSUME NEW graph, IsGraph(graph), NEW o \in Ordinals(graph)
    PROVE  /\ DeclAt(graph, o) \in DeclaredIn(graph)
           /\ DeclAt(graph, o).id = Symbols(graph)[o + 1].id
           /\ DeclAt(graph, o).qualified = Symbols(graph)[o + 1].qualified
           /\ DeclAt(graph, o).id \in Ids(graph)
<1>1. o \in Nat /\ o < Len(Symbols(graph))
  BY DEF Ordinals
<1>2. PICK n \in 1 .. Len(graph) : \E k \in 1 .. Len(graph[n].symbols) :
             /\ Symbols(graph)[o + 1] = graph[n].symbols[k]
             /\ DeclAt(graph, o) = DeclaredFrom(graph[n].symbols[k], graph[n])
  BY <1>1, OrdinalHasPlace
<1>3. PICK k \in 1 .. Len(graph[n].symbols) :
             /\ Symbols(graph)[o + 1] = graph[n].symbols[k]
             /\ DeclAt(graph, o) = DeclaredFrom(graph[n].symbols[k], graph[n])
  BY <1>2
<1> DEFINE s == graph[n].symbols[k]
<1>4. DeclAt(graph, o) \in DeclaredIn(graph)
  BY <1>3, DeclaredWhere
<1>5. DeclaredFrom(s, graph[n]).id = s.id /\ DeclaredFrom(s, graph[n]).qualified = s.qualified
  BY DEF DeclaredFrom, Declaration
<1>6. o + 1 \in DOMAIN Symbols(graph)
  <2>1. DOMAIN Symbols(graph) = 1 .. Len(Symbols(graph)) /\ Len(Symbols(graph)) \in Nat
    BY GraphType DEF InOrder
  <2> QED
    BY <1>1, <2>1
<1>7. Symbols(graph)[o + 1].id \in Ids(graph)
  BY <1>6 DEF Ids
<1> QED
  BY <1>3, <1>4, <1>5, <1>7

LEMMA DeclaredByOrdinal ==
    ASSUME NEW graph, IsGraph(graph)
    PROVE  DeclaredIn(graph) = DeclAtAll(graph, Ordinals(graph))
<1>1. ASSUME NEW d \in DeclaredIn(graph)
      PROVE  d \in DeclAtAll(graph, Ordinals(graph))
  <2>1. PICK n \in 1 .. Len(graph) : \E k \in 1 .. Len(graph[n].symbols) :
               d = DeclaredFrom(graph[n].symbols[k], graph[n])
    BY DeclaredWhere
  <2>2. PICK k \in 1 .. Len(graph[n].symbols) : d = DeclaredFrom(graph[n].symbols[k], graph[n])
    BY <2>1
  <2> DEFINE f == FirstOrdinal(graph, n)
             l == Len(graph[n].symbols)
             o == (f + k) - 1
  <2>3. f \in Nat /\ l \in Nat /\ f + l <= Len(Symbols(graph)) /\ Len(Symbols(graph)) \in Nat
    BY GraphType DEF InOrder
  <2>4. k \in 1 .. l
    OBVIOUS
  <2> HIDE DEF f, l
  <2>5. o \in Nat /\ o < Len(Symbols(graph)) /\ o + 1 = f + k
    BY <2>3, <2>4
  <2> HIDE DEF o
  <2>6. DeclAt(graph, o) = d
    BY <2>2, <2>5, DeclAtIs DEF f
  <2> QED
    BY <2>5, <2>6 DEF DeclAtAll, Ordinals
<1>2. ASSUME NEW d \in DeclAtAll(graph, Ordinals(graph))
      PROVE  d \in DeclaredIn(graph)
  BY DeclAtFields DEF DeclAtAll
<1> QED
  BY <1>1, <1>2

\* What a declaration shows to a query of this kind, and what an artifact owes
\* one: Comparable and Expected of whatever the query in flight is.
Shown(d, kind) ==
    IF kind = "graph" THEN d
    ELSE [d EXCEPT !.owner =
            IF \E a \in Artifacts, o \in ToSet(@) : {o, d.id} \subseteq Ids(Graph[a])
            THEN << >> ELSE @]
ShownAll(D, kind) == {Shown(d, kind) : d \in D}
Wanted(a, kind, asked) ==
    CASE kind = "name" -> {d \in DeclaredIn(Graph[a]) : d.qualified = <<asked>>}
      [] kind = "implementations" ->
            {d \in DeclaredIn(Graph[a]) :
                [subtype |-> d.id, supertype |-> asked] \in ToSet(Edges(Graph[a]))}
      [] kind = "graph" -> DeclaredIn(Graph[a])

LEMMA ShownAndWanted ==
    /\ \A d : Comparable(d) = Shown(d, query.kind)
    /\ \A a : Expected(a) = Wanted(a, query.kind, query.asked)
<1>1. \A d : Comparable(d) = Shown(d, query.kind)
  BY DEF Comparable, Shown
<1>2. \A a : Declared(a) = DeclaredIn(Graph[a])
  BY DEF Declared, DeclaredIn, DeclaredFrom
<1>3. \A a : Expected(a) = Wanted(a, query.kind, query.asked)
  BY <1>2 DEF Expected, Wanted
<1> QED
  BY <1>1, <1>3

\* What a detail block leaves out does not show.
LEMMA NearShows ==
    ASSUME NEW a \in Artifacts, NEW o \in Ordinals(Graph[a]), NEW kind, kind # "graph",
           NEW d, Near(d, DeclAt(Graph[a], o), Graph[a])
    PROVE  Shown(d, kind) = Shown(DeclAt(Graph[a], o), kind)
<1> DEFINE graph == Graph[a]
           e == DeclAt(graph, o)
<1>1. IsGraph(graph)
  BY GraphAssumption
<1>2. e.id \in Ids(graph) /\ e \in DeclaredIn(graph)
  BY <1>1, DeclAtFields
<1>3. CASE d = e
  BY <1>3
<1>4. CASE d = [e EXCEPT !.owner = << >>] /\ \E i \in ToSet(e.owner) : i \in Ids(graph)
  <2>1. PICK i \in ToSet(e.owner) : i \in Ids(graph)
    BY <1>4
  <2>2. {i, e.id} \subseteq Ids(graph)
    BY <1>2, <2>1
  <2>3. Shown(e, kind) = [e EXCEPT !.owner = << >>]
    BY <2>1, <2>2 DEF Shown
  <2>4. PICK s, owner, provenance, unit : e = Declaration(s, owner, provenance, unit)
    <3>1. PICK n, k : e = DeclaredFrom(graph[n].symbols[k], graph[n])
      BY <1>1, <1>2, DeclaredWhere
    <3> QED
      BY <3>1 DEF DeclaredFrom
  <2> HIDE DEF e
  <2>5. d = Declaration(s, << >>, provenance, unit)
    BY <1>4, <2>4 DEF Declaration
  <2>6. d.owner = << >> /\ [d EXCEPT !.owner = << >>] = d
    BY <2>5 DEF Declaration
  <2>7. Shown(d, kind) = d
    BY <2>6 DEF Shown
  <2> QED
    BY <1>4, <2>3, <2>7 DEF e
<1> QED
  BY <1>3, <1>4 DEF Near

LEMMA WantedByOrdinal ==
    ASSUME NEW a \in Artifacts, NEW asked
    PROVE  /\ Wanted(a, "name", asked) = DeclAtAll(Graph[a], Named(Graph[a], asked))
           /\ Wanted(a, "implementations", asked)
                = DeclAtAll(Graph[a], {o \in Ordinals(Graph[a]) :
                    Symbols(Graph[a])[o + 1].id \in SubtypesOf(Graph[a], asked)})
           /\ Wanted(a, "graph", asked) = DeclaredIn(Graph[a])
<1> DEFINE graph == Graph[a]
           subtypes == SubtypesOf(graph, asked)
           edges == ToSet(Edges(graph))
<1>1. IsGraph(graph)
  BY GraphAssumption
<1>2. DeclaredIn(graph) = DeclAtAll(graph, Ordinals(graph))
  BY <1>1, DeclaredByOrdinal
<1>3. \A o \in Ordinals(graph) :
         /\ DeclAt(graph, o).id = Symbols(graph)[o + 1].id
         /\ DeclAt(graph, o).qualified = Symbols(graph)[o + 1].qualified
  BY <1>1, DeclAtFields
<1>4. \A id : [subtype |-> id, supertype |-> asked] \in edges <=> id \in subtypes
  <2>1. \A f \in edges : f = [subtype |-> f.subtype, supertype |-> f.supertype]
    <3>1. edges \subseteq EdgesOfIds
      BY <1>1, EdgesType DEF ToSet
    <3> HIDE DEF edges
    <3> QED
      BY <3>1 DEF EdgesOfIds
  <2> HIDE DEF edges
  <2>2. subtypes = {e.subtype : e \in {f \in edges : f.supertype = asked}}
    BY DEF SubtypesOf, edges
  <2> HIDE DEF subtypes
  <2>3. ASSUME NEW id, [subtype |-> id, supertype |-> asked] \in edges
        PROVE  id \in subtypes
    <3> DEFINE f == [subtype |-> id, supertype |-> asked]
    <3>1. f.subtype = id /\ f.supertype = asked
      OBVIOUS
    <3> QED
      BY <2>2, <2>3, <3>1
  <2>4. ASSUME NEW id \in subtypes
        PROVE  [subtype |-> id, supertype |-> asked] \in edges
    <3>1. PICK f \in edges : f.supertype = asked /\ id = f.subtype
      BY <2>2
    <3> QED
      BY <2>1, <3>1
  <2> QED
    BY <2>3, <2>4
<1> HIDE DEF edges, subtypes
<1>5. Wanted(a, "name", asked) = {d \in DeclaredIn(graph) : d.qualified = <<asked>>}
  BY DEF Wanted
<1>6. Wanted(a, "implementations", asked)
        = {d \in DeclaredIn(graph) : [subtype |-> d.id, supertype |-> asked] \in edges}
  BY DEF Wanted, edges
<1>7. Wanted(a, "graph", asked) = DeclaredIn(graph)
  BY DEF Wanted
<1> DEFINE named == Named(graph, asked)
           typed == {o \in Ordinals(graph) : Symbols(graph)[o + 1].id \in subtypes}
<1>8. \A o : o \in named <=> o \in Ordinals(graph) /\ Symbols(graph)[o + 1].qualified = <<asked>>
  BY DEF Named, Ordinals
<1> HIDE DEF named, graph
<1>9. Wanted(a, "name", asked) = DeclAtAll(graph, named)
  BY <1>2, <1>3, <1>5, <1>8 DEF DeclAtAll
<1>10. Wanted(a, "implementations", asked) = DeclAtAll(graph, typed)
  <2> DEFINE chosen == Wanted(a, "implementations", asked)
  <2>1. \A o \in Ordinals(graph) :
           [subtype |-> DeclAt(graph, o).id, supertype |-> asked] \in edges <=> o \in typed
    <3> SUFFICES ASSUME NEW o \in Ordinals(graph)
                 PROVE  [subtype |-> DeclAt(graph, o).id, supertype |-> asked] \in edges
                            <=> o \in typed
      OBVIOUS
    <3>1. DeclAt(graph, o).id = Symbols(graph)[o + 1].id
      BY <1>3
    <3>2. o \in typed <=> DeclAt(graph, o).id \in subtypes
      BY <3>1
    <3> QED
      BY <1>4, <3>2
  <2>2. \A d : d \in chosen <=>
           \E o \in Ordinals(graph) : d = DeclAt(graph, o)
                /\ [subtype |-> d.id, supertype |-> asked] \in edges
    BY <1>2, <1>6 DEF DeclAtAll
  <2>3. typed \subseteq Ordinals(graph)
    OBVIOUS
  <2> HIDE DEF typed, chosen
  <2>4. \A d : d \in chosen <=> \E o \in typed : d = DeclAt(graph, o)
    BY <2>1, <2>2, <2>3
  <2>5. chosen = DeclAtAll(graph, typed)
    BY <2>4 DEF DeclAtAll
  <2> QED
    BY <2>5 DEF chosen
<1>11. named = Named(graph, asked)
  BY DEF named
<1>12. typed = {o \in Ordinals(graph) : Symbols(graph)[o + 1].id \in SubtypesOf(graph, asked)}
  BY DEF subtypes
<1> HIDE DEF typed
<1>13. /\ Wanted(a, "name", asked) = DeclAtAll(graph, Named(graph, asked))
       /\ Wanted(a, "implementations", asked)
            = DeclAtAll(graph, {o \in Ordinals(graph) :
                Symbols(graph)[o + 1].id \in SubtypesOf(graph, asked)})
  BY <1>9, <1>10, <1>11, <1>12
<1> QED
  BY <1>7, <1>13 DEF graph

-----------------------------------------------------------------------------
(* The invariant of the queries.  What is being encoded is the sections of  *)
(* the artifact's graph; a blob is faithful to some writer's, and whole     *)
(* unless it was damaged; and so is the payload a query reads.  What a      *)
(* query has found and what the artifact it reads is still due to give      *)
(* show what it is owed by the artifacts it opened.                         *)

Reading == {"directory", "hierarchy", "dictionary", "details", "facts"}
QueryFields ==
    {"pc", "kind", "asked", "pending", "opened", "damaged", "artifact", "payload", "subtypes",
     "ordinals", "answers"}

BlobRight(p, damaged, a) ==
    \E w \in Writers : /\ Faithful(p, Sections(Graph[a], w))
                       /\ damaged \/ Pristine(p, Sections(Graph[a], w))

Due(q) ==
    IF q.pc = "details" THEN DeclAtAll(Graph[q.artifact], q.ordinals)
    ELSE IF q.pc \in Reading THEN Wanted(q.artifact, q.kind, q.asked) ELSE {}
Owed(q) == UNION {Wanted(a, q.kind, q.asked) : a \in q.opened}

PhaseRight(q) ==
    /\ q.pc = "directory" => q.kind = "name"
    /\ q.pc \in {"hierarchy", "dictionary"} => q.kind = "implementations"
    /\ q.pc = "dictionary" => q.subtypes = SubtypesOf(Graph[q.artifact], q.asked)
    /\ q.pc = "details" => q.kind # "graph" /\ q.ordinals \subseteq Ordinals(Graph[q.artifact])
    /\ q.pc = "facts" => q.kind # "name"
PayloadRight(q) ==
    q.pc \in Reading => q.artifact \in q.opened /\ BlobRight(q.payload, q.damaged, q.artifact)
AnswersRight(q) ==
    q.pc \in Reading \cup {"open", "answered"} =>
        ShownAll(q.answers \cup Due(q), q.kind) = ShownAll(Owed(q), q.kind)

QueryRight(q) ==
    /\ DOMAIN q = QueryFields
    /\ q.kind \in {"name", "implementations", "graph"}
    /\ q.pending \subseteq Artifacts /\ q.opened \subseteq Artifacts
    /\ PhaseRight(q) /\ PayloadRight(q) /\ AnswersRight(q)
    /\ q.pc = "failed" => q.damaged
WritingRight(r, a) ==
    /\ DOMAIN r = {"pc", "sections", "toc"}
    /\ r.pc = "placing" => \E w \in Writers : r.sections = Sections(Graph[a], w)
BlobsRight ==
    /\ DOMAIN writing = Artifacts /\ \A a \in Artifacts : WritingRight(writing[a], a)
    /\ DOMAIN cache = Artifacts
    /\ \A a \in Artifacts : cache[a].present => BlobRight(cache[a].payload, cache[a].damaged, a)
QueryInv == BlobsRight /\ QueryRight(query)

\* A blob is faithful to good sections, and whole unless it was damaged.
LEMMA BlobIsFaithful ==
    ASSUME NEW a \in Artifacts, NEW p, NEW damaged, BlobRight(p, damaged, a)
    PROVE  \E ss : /\ SectionsGood(ss, Graph[a]) /\ Faithful(p, ss)
                   /\ damaged \/ (Whole(p, ss) /\ Opens(p))
<1>1. PICK w \in Writers : /\ Faithful(p, Sections(Graph[a], w))
                           /\ damaged \/ Pristine(p, Sections(Graph[a], w))
  BY DEF BlobRight
<1> DEFINE ss == Sections(Graph[a], w)
<1>2. SectionsGood(ss, Graph[a])
  <2>1. w \in [ordinalized : BOOLEAN, interned : BOOLEAN, postings : BOOLEAN]
    BY GraphAssumption
  <2>2. IsGraph(Graph[a])
    BY GraphAssumption
  <2> QED
    BY <2>1, <2>2, SectionsAreGood
<1> HIDE DEF ss
<1>3. Pristine(p, ss) => Whole(p, ss) /\ Opens(p)
  BY <1>2, PristineIsWhole
<1> QED
  BY <1>1, <1>2, <1>3 DEF ss

LEMMA ShownUnion ==
    ASSUME NEW D, NEW E, NEW kind
    PROVE  ShownAll(D \cup E, kind) = ShownAll(D, kind) \cup ShownAll(E, kind)
  BY DEF ShownAll

\* A step of a query within an artifact, or out of it.
LEMMA StepOfQuery ==
    ASSUME NEW q, QueryRight(q), q.pc \in Reading,
           NEW r, DOMAIN r = QueryFields,
           r.kind = q.kind, r.asked = q.asked, r.pending = q.pending, r.opened = q.opened,
           r.damaged = q.damaged,
           r.pc = "open" \/ (r.pc \in Reading /\ r.artifact = q.artifact /\ r.payload = q.payload),
           PhaseRight(r),
           ShownAll(r.answers \cup Due(r), q.kind) = ShownAll(q.answers \cup Due(q), q.kind)
    PROVE  QueryRight(r)
<1>1. "open" \notin Reading /\ "failed" \notin Reading /\ "open" # "failed"
  BY DEF Reading
<1>2. Owed(r) = Owed(q)
  BY DEF Owed
<1>3. AnswersRight(r)
  BY <1>2 DEF QueryRight, AnswersRight
<1>4. PayloadRight(r)
  BY <1>1 DEF QueryRight, PayloadRight
<1> QED
  BY <1>1, <1>3, <1>4 DEF QueryRight

LEMMA FailedIsRight ==
    ASSUME NEW q, QueryRight(q), q.damaged
    PROVE  QueryRight([q EXCEPT !.pc = "failed", !.payload = << >>])
<1> DEFINE r == [q EXCEPT !.pc = "failed", !.payload = << >>]
<1>1. DOMAIN q = QueryFields
  BY DEF QueryRight
<1>2. /\ DOMAIN r = QueryFields /\ r.pc = "failed" /\ r.kind = q.kind /\ r.pending = q.pending
      /\ r.opened = q.opened /\ r.damaged = q.damaged
  BY <1>1 DEF QueryFields
<1> HIDE DEF r
<1>3. PhaseRight(r) /\ PayloadRight(r) /\ AnswersRight(r)
  BY <1>2 DEF PhaseRight, PayloadRight, AnswersRight, Reading
<1>4. QueryRight(r)
  BY <1>2, <1>3 DEF QueryRight
<1> QED
  BY <1>4 DEF r

\* The next artifact: what this one was due has been found.
LEMMA NextIsRight ==
    ASSUME NEW q, QueryRight(q), q.pc \in Reading,
           NEW s, DOMAIN s = QueryFields, s.kind = q.kind, s.asked = q.asked,
           s.pending = q.pending, s.opened = q.opened, s.damaged = q.damaged,
           ShownAll(s.answers, q.kind) = ShownAll(q.answers \cup Due(q), q.kind)
    PROVE  QueryRight(NextArtifact(s))
<1> DEFINE r == NextArtifact(s)
<1>1. r = [s EXCEPT !.pc = "open", !.artifact = "", !.payload = << >>, !.subtypes = {},
                    !.ordinals = {}]
  BY DEF NextArtifact
<1> HIDE DEF r
<1>2. /\ DOMAIN r = QueryFields /\ r.pc = "open" /\ r.kind = s.kind /\ r.asked = s.asked
      /\ r.pending = s.pending /\ r.opened = s.opened /\ r.damaged = s.damaged
      /\ r.answers = s.answers
  BY <1>1 DEF QueryFields
<1>3. Due(r) = {}
  BY <1>2 DEF Due, Reading
<1>4. r.answers \cup Due(r) = s.answers
  BY <1>2, <1>3
<1>5. PhaseRight(r)
  BY <1>2 DEF PhaseRight
<1>6. ShownAll(r.answers \cup Due(r), q.kind) = ShownAll(q.answers \cup Due(q), q.kind)
  BY <1>4
<1>7. QueryRight(r)
  BY <1>2, <1>5, <1>6, StepOfQuery
<1> QED
  BY <1>7 DEF r

LEMMA QueryMoves ==
    ASSUME QueryInv, NEW q, Continue(q), QueryRight(q)
    PROVE  QueryInv'
  BY DEF QueryInv, Continue, BlobsRight

-----------------------------------------------------------------------------
(* The steps of a query within an artifact keep the invariant.              *)

LEMMA ReadingOf ==
    ASSUME NEW q, QueryRight(q), q.pc \in Reading
    PROVE  /\ q.artifact \in Artifacts
           /\ \E ss : /\ SectionsGood(ss, Graph[q.artifact]) /\ Faithful(q.payload, ss)
                      /\ q.damaged \/ Whole(q.payload, ss)
<1>1. q.artifact \in Artifacts /\ BlobRight(q.payload, q.damaged, q.artifact)
  BY DEF QueryRight, PayloadRight
<1> QED
  BY <1>1, BlobIsFaithful

LEMMA FailQueryKeeps ==
    ASSUME QueryInv, FailQuery, query.damaged
    PROVE  QueryInv'
<1>1. QueryRight([query EXCEPT !.pc = "failed", !.payload = << >>])
  BY FailedIsRight DEF QueryInv
<1> QED
  BY <1>1, QueryMoves DEF FailQuery

LEMMA ReadDirectoryKeeps ==
    ASSUME QueryInv, ReadDirectory
    PROVE  QueryInv'
<1> DEFINE p == query.payload
           a == query.artifact
           found == ReadSection(p, "directory")
           named(entries) == {e.ordinal : e \in {f \in ToSet(entries) : f.qualified = query.asked}}
           r(entries) == [query EXCEPT !.pc = "details", !.ordinals = named(entries)]
<1>1. QueryRight(query) /\ query.pc = "directory" /\ query.kind = "name" /\ query.pc \in Reading
  BY DEF QueryInv, QueryRight, PhaseRight, ReadDirectory, Reading
<1>2. PICK ss : /\ SectionsGood(ss, Graph[a]) /\ Faithful(p, ss) /\ a \in Artifacts
                /\ query.damaged \/ Whole(p, ss)
  BY <1>1, ReadingOf
<1>3. CASE found = {} /\ FailQuery
  <2>1. query.damaged
    BY <1>2, <1>3, WholeHasSections
  <2> QED
    BY <1>3, <2>1, FailQueryKeeps
<1>4. CASE \E entries \in found : Continue(r(entries))
  <2>1. PICK entries \in found : Continue(r(entries))
    BY <1>4
  <2> DEFINE new == r(entries)
             ordinals == named(entries)
  <2>2. ordinals = Named(Graph[a], query.asked)
    <3>1. EntriesRight("directory", entries, Graph[a])
      BY <1>2, SectionIsRight DEF Kinds
    <3> QED
      BY <3>1 DEF EntriesRight, DirectoryRight
  <2> HIDE DEF ordinals
  <2>3. DOMAIN query = QueryFields
    BY <1>1 DEF QueryRight
  <2>4. new = [query EXCEPT !.pc = "details", !.ordinals = ordinals]
    BY DEF ordinals
  <2> HIDE DEF new
  <2>5. /\ DOMAIN new = QueryFields /\ new.pc = "details" /\ new.kind = query.kind
        /\ new.asked = query.asked /\ new.pending = query.pending /\ new.opened = query.opened
        /\ new.damaged = query.damaged /\ new.artifact = a /\ new.payload = p
        /\ new.answers = query.answers /\ new.ordinals = ordinals
    BY <2>3, <2>4 DEF QueryFields
  <2>6. PhaseRight(new)
    BY <1>1, <2>2, <2>5 DEF PhaseRight, Named, Ordinals
  <2>7. Due(new) = Due(query)
    <3>1. Due(new) = DeclAtAll(Graph[a], ordinals)
      BY <2>5 DEF Due
    <3>2. Due(query) = Wanted(a, "name", query.asked)
      BY <1>1 DEF Due, Reading
    <3> QED
      BY <1>2, <2>2, <3>1, <3>2, WantedByOrdinal
  <2>8. new.pc \in Reading
    BY <2>5 DEF Reading
  <2>9. QueryRight(new)
    BY <1>1, <2>5, <2>6, <2>7, <2>8, StepOfQuery
  <2> QED
    BY <2>1, <2>9, QueryMoves DEF new
<1> QED
  BY <1>3, <1>4 DEF ReadDirectory

LEMMA ReadHierarchyKeeps ==
    ASSUME QueryInv, ReadHierarchy
    PROVE  QueryInv'
<1> DEFINE p == query.payload
           a == query.artifact
           found == ReadSection(p, "hierarchy")
           subtypes(entries) == {e.subtype : e \in {f \in ToSet(entries) :
                                                        f.supertype = query.asked}}
<1>1. QueryRight(query) /\ query.pc = "hierarchy" /\ query.kind = "implementations"
      /\ query.pc \in Reading
  BY DEF QueryInv, QueryRight, PhaseRight, ReadHierarchy, Reading
<1>2. PICK ss : /\ SectionsGood(ss, Graph[a]) /\ Faithful(p, ss) /\ a \in Artifacts
                /\ query.damaged \/ Whole(p, ss)
  BY <1>1, ReadingOf
<1>3. DOMAIN query = QueryFields
  BY <1>1 DEF QueryRight
<1>4. Due(query) = Wanted(a, "implementations", query.asked)
  BY <1>1 DEF Due, Reading
<1>5. CASE ~HasSection(p, "hierarchy") /\ Continue([query EXCEPT !.pc = "facts"])
  <2> DEFINE new == [query EXCEPT !.pc = "facts"]
  <2>1. /\ DOMAIN new = QueryFields /\ new.pc = "facts" /\ new.kind = query.kind
        /\ new.asked = query.asked /\ new.pending = query.pending /\ new.opened = query.opened
        /\ new.damaged = query.damaged /\ new.artifact = a /\ new.payload = p
        /\ new.answers = query.answers
    BY <1>3 DEF QueryFields
  <2> HIDE DEF new
  <2>2. PhaseRight(new)
    BY <1>1, <2>1 DEF PhaseRight
  <2>3. new.pc \in Reading
    BY <2>1 DEF Reading
  <2>4. Due(new) = Due(query)
    BY <1>1, <2>1, <2>3 DEF Due
  <2>5. QueryRight(new)
    BY <1>1, <2>1, <2>2, <2>3, <2>4, StepOfQuery
  <2> QED
    BY <1>5, <2>5, QueryMoves DEF new
<1>6. CASE HasSection(p, "hierarchy") /\ found = {} /\ FailQuery
  <2>1. query.damaged
    BY <1>2, <1>6, WholeHasSections
  <2> QED
    BY <1>6, <2>1, FailQueryKeeps
<1>7. CASE \E entries \in found :
             Continue(IF subtypes(entries) = {} THEN NextArtifact(query)
                      ELSE [query EXCEPT !.pc = "dictionary", !.subtypes = subtypes(entries)])
  <2>1. PICK entries \in found :
             Continue(IF subtypes(entries) = {} THEN NextArtifact(query)
                      ELSE [query EXCEPT !.pc = "dictionary", !.subtypes = subtypes(entries)])
    BY <1>7
  <2> DEFINE types == subtypes(entries)
  <2>2. types = SubtypesOf(Graph[a], query.asked)
    <3>1. EntriesRight("hierarchy", entries, Graph[a])
      BY <1>2, SectionIsRight DEF Kinds
    <3> QED
      BY <3>1 DEF EntriesRight, SubtypesOf
  <2>3. CASE types = {}
    <3>1. Continue(NextArtifact(query))
      BY <2>1, <2>3
    <3> HIDE DEF types
    <3> DEFINE ordinals == {o \in Ordinals(Graph[a]) : Symbols(Graph[a])[o + 1].id \in types}
    <3>2. Wanted(a, "implementations", query.asked) = DeclAtAll(Graph[a], ordinals)
      BY <1>2, <2>2, WantedByOrdinal
    <3>3. ordinals = {}
      BY <2>3
    <3> HIDE DEF ordinals
    <3>4. query.answers \cup Due(query) = query.answers
      BY <1>4, <3>2, <3>3 DEF DeclAtAll
    <3>5. ShownAll(query.answers, query.kind)
            = ShownAll(query.answers \cup Due(query), query.kind)
      BY <3>4
    <3>6. QueryRight(NextArtifact(query))
      BY <1>1, <1>3, <3>5, NextIsRight
    <3> QED
      BY <3>1, <3>6, QueryMoves
  <2>4. CASE types # {}
    <3> DEFINE new == [query EXCEPT !.pc = "dictionary", !.subtypes = types]
    <3>1. Continue(new)
      BY <2>1, <2>4
    <3> HIDE DEF types
    <3>2. /\ DOMAIN new = QueryFields /\ new.pc = "dictionary" /\ new.kind = query.kind
          /\ new.asked = query.asked /\ new.pending = query.pending /\ new.opened = query.opened
          /\ new.damaged = query.damaged /\ new.artifact = a /\ new.payload = p
          /\ new.answers = query.answers /\ new.subtypes = types
      BY <1>3 DEF QueryFields
    <3> HIDE DEF new
    <3>3. PhaseRight(new)
      BY <1>1, <2>2, <3>2 DEF PhaseRight
    <3>4. new.pc \in Reading
      BY <3>2 DEF Reading
    <3>5. Due(new) = Due(query)
      BY <1>1, <3>2, <3>4 DEF Due
    <3>6. QueryRight(new)
      BY <1>1, <3>2, <3>3, <3>4, <3>5, StepOfQuery
    <3> QED
      BY <3>1, <3>6, QueryMoves
  <2> QED
    BY <2>3, <2>4
<1> QED
  BY <1>5, <1>6, <1>7 DEF ReadHierarchy

LEMMA ReadDictionaryKeeps ==
    ASSUME QueryInv, ReadDictionary
    PROVE  QueryInv'
<1> DEFINE p == query.payload
           a == query.artifact
           graph == Graph[a]
           n == Len(Symbols(graph))
           found == ReadSection(p, "dictionary")
           ordinals(ids) == {i - 1 : i \in {j \in DOMAIN ids : ids[j] \in query.subtypes}}
           blocked(ids) == \A o \in ordinals(ids) : DetailSection(p, o) # 0
           wanted == {o \in Ordinals(graph) : Symbols(graph)[o + 1].id \in query.subtypes}
<1>1. QueryRight(query) /\ query.pc = "dictionary" /\ query.kind = "implementations"
      /\ query.pc \in Reading /\ query.subtypes = SubtypesOf(graph, query.asked)
  BY DEF QueryInv, QueryRight, PhaseRight, ReadDictionary, Reading
<1>2. PICK ss : /\ SectionsGood(ss, Graph[a]) /\ Faithful(p, ss) /\ a \in Artifacts
                /\ query.damaged \/ Whole(p, ss)
  BY <1>1, ReadingOf
<1>3. CASE found = {} /\ FailQuery
  <2>1. query.damaged
    BY <1>2, <1>3, WholeHasSections
  <2> QED
    BY <1>3, <2>1, FailQueryKeeps
<1>4. CASE \E ids \in found :
             IF blocked(ids)
             THEN Continue([query EXCEPT !.pc = "details", !.ordinals = ordinals(ids)])
             ELSE FailQuery
  <2>1. PICK ids \in found :
             IF blocked(ids)
             THEN Continue([query EXCEPT !.pc = "details", !.ordinals = ordinals(ids)])
             ELSE FailQuery
    BY <1>4
  <2>2. ordinals(ids) = wanted
    <3>1. EntriesRight("dictionary", ids, graph)
      BY <1>2, SectionIsRight DEF Kinds
    <3>2. DOMAIN ids = 1 .. n /\ \A i \in 1 .. n : ids[i] = Symbols(graph)[i].id
      BY <3>1 DEF EntriesRight, DictionaryRight
    <3>3. n \in Nat
      BY <1>2, GraphAssumption, GraphType DEF InOrder
    <3>4. wanted = {o \in Nat : o < n /\ Symbols(graph)[o + 1].id \in query.subtypes}
      BY DEF Ordinals
    <3> DEFINE types == query.subtypes
               symbols == Symbols(graph)
    <3> HIDE DEF n, wanted, types, symbols
    <3>5. ASSUME NEW o \in ordinals(ids) PROVE o \in wanted
      <4>1. PICK i \in DOMAIN ids : ids[i] \in types /\ o = i - 1
        BY <3>5 DEF types
      <4>2. o \in Nat /\ o < n /\ o + 1 = i
        BY <3>2, <3>3, <4>1
      <4>3. symbols[o + 1].id \in types
        BY <3>2, <4>1, <4>2 DEF symbols
      <4> QED
        BY <3>4, <4>2, <4>3 DEF symbols, types
    <3>6. ASSUME NEW o \in wanted PROVE o \in ordinals(ids)
      <4>1. o \in Nat /\ o < n /\ symbols[o + 1].id \in types
        BY <3>4 DEF symbols, types
      <4>2. o + 1 \in 1 .. n /\ (o + 1) - 1 = o
        BY <3>3, <4>1
      <4>3. ids[o + 1] \in types
        BY <3>2, <4>1, <4>2 DEF symbols
      <4>4. o + 1 \in {j \in DOMAIN ids : ids[j] \in types}
        BY <3>2, <4>2, <4>3
      <4> QED
        BY <4>2, <4>4 DEF types
    <3> QED
      BY <3>5, <3>6
  <2>3. CASE ~blocked(ids)
    <3>1. FailQuery
      BY <2>1, <2>3
    <3>2. query.damaged
      <4> SUFFICES ASSUME Whole(p, ss) PROVE FALSE
        BY <1>2
      <4>1. PICK o \in wanted : DetailSection(p, o) = 0
        BY <2>2, <2>3
      <4>2. o \in Nat /\ o < Len(Symbols(graph))
        BY <4>1 DEF Ordinals
      <4>3. DetailSection(p, o) # 0
        BY <1>2, <4>2, WholeHasDetails
      <4> QED
        BY <4>1, <4>3
    <3> QED
      BY <3>1, <3>2, FailQueryKeeps
  <2>4. CASE blocked(ids)
    <3> DEFINE new == [query EXCEPT !.pc = "details", !.ordinals = wanted]
    <3>1. Continue(new)
      BY <2>1, <2>2, <2>4
    <3>2. wanted \subseteq Ordinals(graph)
      OBVIOUS
    <3>3. Wanted(a, "implementations", query.asked) = DeclAtAll(graph, wanted)
      BY <1>1, <1>2, WantedByOrdinal
    <3>4. DOMAIN query = QueryFields
      BY <1>1 DEF QueryRight
    <3> HIDE DEF wanted
    <3>5. /\ DOMAIN new = QueryFields /\ new.pc = "details" /\ new.kind = query.kind
          /\ new.asked = query.asked /\ new.pending = query.pending /\ new.opened = query.opened
          /\ new.damaged = query.damaged /\ new.artifact = a /\ new.payload = p
          /\ new.answers = query.answers /\ new.ordinals = wanted
      BY <3>4 DEF QueryFields
    <3> HIDE DEF new
    <3>6. PhaseRight(new)
      BY <1>1, <3>2, <3>5 DEF PhaseRight
    <3>7. new.pc \in Reading
      BY <3>5 DEF Reading
    <3>8. Due(new) = Due(query)
      <4>1. Due(new) = DeclAtAll(graph, wanted)
        BY <3>5 DEF Due
      <4>2. Due(query) = Wanted(a, "implementations", query.asked)
        BY <1>1 DEF Due
      <4> QED
        BY <3>3, <4>1, <4>2
    <3>9. QueryRight(new)
      BY <1>1, <3>5, <3>6, <3>7, <3>8, StepOfQuery
    <3> QED
      BY <3>1, <3>9, QueryMoves
  <2> QED
    BY <2>3, <2>4
<1> QED
  BY <1>3, <1>4 DEF ReadDictionary

LEMMA GroupedIs ==
    ASSUME query.kind \in {"name", "implementations"},
           query.ordinals \subseteq Nat, query.ordinals # {}
    PROVE  LET group == Grouped(Min(query.ordinals))
           IN  /\ group \subseteq query.ordinals
               /\ Min(group) \in group
               /\ \A o \in group : SymbolDetailBlockStart(query.payload, o)
                                    = SymbolDetailBlockStart(query.payload, Min(group))
<1> DEFINE m == Min(query.ordinals)
           group == Grouped(m)
           start(o) == SymbolDetailBlockStart(query.payload, o)
<1>1. m \in query.ordinals /\ m \in Nat
  BY MinIsLeast
<1>2. group \subseteq query.ordinals /\ m \in group /\ \A o \in group : start(o) = start(m)
  <2>1. CASE query.kind = "name"
    <3>1. group = {m}
      BY <2>1 DEF Grouped
    <3> HIDE DEF group
    <3> QED
      BY <1>1, <3>1
  <2>2. CASE query.kind = "implementations"
    <3>1. group = {o \in query.ordinals : start(o) = start(m)}
      BY <2>2 DEF Grouped
    <3> HIDE DEF group
    <3> QED
      BY <1>1, <3>1
  <2> QED
    BY <2>1, <2>2
<1> HIDE DEF group
<1>3. Min(group) \in group
  <2>1. group \subseteq Nat /\ group # {}
    BY <1>2
  <2> QED
    BY <2>1, MinIsLeast
<1>4. \A o \in group : start(o) = start(Min(group))
  BY <1>2, <1>3
<1> QED
  BY <1>2, <1>3, <1>4 DEF group

\* The entries a block gives for these ordinals show what is declared there.
GivesEach(b, group) == \A o \in group : DecodeSymbolDetail(b, o) # {}
DecodedOf(found, group) == UNION {DecodeSymbolDetail(b, o) : b \in found, o \in group}

LEMMA GroupShows ==
    ASSUME NEW a \in Artifacts, NEW ss, SectionsGood(ss, Graph[a]), NEW p, Faithful(p, ss),
           NEW kind, kind # "graph", NEW group, group \subseteq Ordinals(Graph[a]), NEW first,
           \E b \in SymbolDetailBlock(p, first) : GivesEach(b, group)
    PROVE  ShownAll(DecodedOf(SymbolDetailBlock(p, first), group), kind)
             = ShownAll(DeclAtAll(Graph[a], group), kind)
<1> DEFINE graph == Graph[a]
           found == SymbolDetailBlock(p, first)
           D == DecodedOf(found, group)
           E == DeclAtAll(graph, group)
<1>1. ASSUME NEW b \in found, NEW o \in group, NEW d \in DecodeSymbolDetail(b, o)
      PROVE  Shown(d, kind) = Shown(DeclAt(graph, o), kind)
  <2>1. BlockGood(b, graph)
    BY BlockReadIsGood
  <2>2. o \in Ordinals(graph) /\ o \in Nat
    BY DEF Ordinals
  <2>3. Near(d, DeclAt(graph, o), graph)
    BY <2>1, <2>2, DecodeGood
  <2> QED
    BY <2>2, <2>3, NearShows
<1>2. ASSUME NEW v \in ShownAll(D, kind) PROVE v \in ShownAll(E, kind)
  <2>1. PICK d \in D : v = Shown(d, kind)
    BY DEF ShownAll
  <2>2. PICK b \in found, o \in group : d \in DecodeSymbolDetail(b, o)
    BY <2>1 DEF DecodedOf
  <2>3. v = Shown(DeclAt(graph, o), kind)
    BY <1>1, <2>1, <2>2
  <2> QED
    BY <2>3 DEF ShownAll, DeclAtAll
<1>3. ASSUME NEW v \in ShownAll(E, kind) PROVE v \in ShownAll(D, kind)
  <2>1. PICK o \in group : v = Shown(DeclAt(graph, o), kind)
    BY DEF ShownAll, DeclAtAll
  <2>2. PICK b \in found : DecodeSymbolDetail(b, o) # {}
    BY DEF GivesEach
  <2>3. PICK d \in DecodeSymbolDetail(b, o) : TRUE
    BY <2>2
  <2>4. v = Shown(d, kind)
    BY <1>1, <2>1
  <2>5. d \in D
    BY <2>3 DEF DecodedOf
  <2> HIDE DEF D
  <2> QED
    BY <2>4, <2>5 DEF ShownAll
<1> HIDE DEF D, E
<1>4. ShownAll(D, kind) = ShownAll(E, kind)
  BY <1>2, <1>3
<1> QED
  BY <1>4 DEF D, E

LEMMA ReadDetailsKeeps ==
    ASSUME QueryInv, ReadDetails
    PROVE  QueryInv'
<1> DEFINE p == query.payload
           a == query.artifact
           graph == Graph[a]
           group == Grouped(Min(query.ordinals))
           first == Min(group)
           found == SymbolDetailBlock(p, first)
           Gives == \E b \in found : GivesEach(b, group)
           added == DecodedOf(found, group)
           new == [query EXCEPT !.ordinals = query.ordinals \ group,
                                !.answers = query.answers \cup added]
<1>1. /\ QueryRight(query) /\ query.pc = "details" /\ query.pc \in Reading
      /\ query.kind \in {"name", "implementations"} /\ query.kind # "graph"
      /\ query.ordinals \subseteq Ordinals(graph)
  BY DEF QueryInv, QueryRight, PhaseRight, ReadDetails, Reading
<1>2. PICK ss : /\ SectionsGood(ss, Graph[a]) /\ Faithful(p, ss) /\ a \in Artifacts
                /\ query.damaged \/ Whole(p, ss)
  BY <1>1, ReadingOf
<1>3. DOMAIN query = QueryFields
  BY <1>1 DEF QueryRight
<1>4. Due(query) = DeclAtAll(graph, query.ordinals)
  BY <1>1 DEF Due
<1>5. CASE query.ordinals = {}
  <2>1. Continue(NextArtifact(query))
    BY <1>5 DEF ReadDetails
  <2>2. query.answers \cup Due(query) = query.answers
    BY <1>4, <1>5 DEF DeclAtAll
  <2>3. ShownAll(query.answers, query.kind) = ShownAll(query.answers \cup Due(query), query.kind)
    BY <2>2
  <2>4. QueryRight(NextArtifact(query))
    BY <1>1, <1>3, <2>3, NextIsRight
  <2> QED
    BY <2>1, <2>4, QueryMoves
<1>6. CASE query.ordinals # {}
  <2>1. IF Gives THEN Continue(new) ELSE FailQuery
    BY <1>6 DEF ReadDetails, GivesEach, DecodedOf
  <2>2. query.ordinals \subseteq Nat
    BY <1>1 DEF Ordinals
  <2>3. /\ group \subseteq query.ordinals /\ first \in group
        /\ \A o \in group : SymbolDetailBlockStart(p, o) = SymbolDetailBlockStart(p, first)
    BY <1>1, <1>6, <2>2, GroupedIs
  <2> HIDE DEF group, first
  <2>4. \A o \in group : o \in Ordinals(graph) /\ o \in Nat /\ o < Len(Symbols(graph))
    BY <1>1, <2>3 DEF Ordinals
  <2>5. CASE ~Gives
    <3>1. FailQuery
      BY <2>1, <2>5
    <3>2. query.damaged
      <4> SUFFICES ASSUME Whole(p, ss) PROVE FALSE
        BY <1>2
      <4>1. PICK b \in found : GivesAll(b, p, first, graph)
        BY <1>2, <2>3, <2>4, WholeHasDetails
      <4>2. Gives
        BY <2>3, <2>4, <4>1 DEF GivesAll, GivesEach
      <4> QED
        BY <2>5, <4>2
    <3> QED
      BY <3>1, <3>2, FailQueryKeeps
  <2>6. CASE Gives
    <3>1. Continue(new)
      BY <2>1, <2>6
    <3>2. ShownAll(added, query.kind) = ShownAll(DeclAtAll(graph, group), query.kind)
      <4>1. group \subseteq Ordinals(graph)
        BY <2>4
      <4> QED
        BY <1>1, <1>2, <2>6, <4>1, GroupShows
    <3> DEFINE rest == query.ordinals \ group
               answers == query.answers \cup added
    <3> HIDE DEF added
    <3>3. /\ DOMAIN new = QueryFields /\ new.pc = "details" /\ new.kind = query.kind
          /\ new.asked = query.asked /\ new.pending = query.pending /\ new.opened = query.opened
          /\ new.damaged = query.damaged /\ new.artifact = a /\ new.payload = p
          /\ new.answers = answers /\ new.ordinals = rest
      BY <1>1, <1>3 DEF QueryFields
    <3> HIDE DEF new
    <3>4. Due(query) = DeclAtAll(graph, group) \cup DeclAtAll(graph, rest)
      BY <1>4, <2>3 DEF DeclAtAll
    <3>5. Due(new) = DeclAtAll(graph, rest)
      BY <3>3 DEF Due
    <3>6. ShownAll(answers \cup Due(new), query.kind)
            = ShownAll(query.answers \cup Due(query), query.kind)
      <4> DEFINE A == query.answers
                 G == DeclAtAll(graph, group)
                 R == DeclAtAll(graph, rest)
                 k == query.kind
      <4>1. answers = A \cup added /\ Due(new) = R /\ Due(query) = G \cup R
            /\ ShownAll(added, k) = ShownAll(G, k)
        BY <3>2, <3>4, <3>5
      <4> HIDE DEF A, G, R, k, answers
      <4>2. ShownAll(answers \cup R, k) = ShownAll(answers, k) \cup ShownAll(R, k)
            /\ ShownAll(A \cup added, k) = ShownAll(A, k) \cup ShownAll(added, k)
        BY ShownUnion
      <4>3. ShownAll(A \cup (G \cup R), k) = ShownAll(A, k) \cup ShownAll(G \cup R, k)
            /\ ShownAll(G \cup R, k) = ShownAll(G, k) \cup ShownAll(R, k)
        BY ShownUnion
      <4>4. ShownAll(answers \cup R, k) = ShownAll(A \cup (G \cup R), k)
        BY <4>1, <4>2, <4>3
      <4> QED
        BY <4>1, <4>4 DEF A, k
    <3>7. new.answers \cup Due(new) = answers \cup Due(new)
      BY <3>3
    <3> HIDE DEF answers
    <3>8. rest \subseteq Ordinals(graph)
      BY <1>1
    <3> HIDE DEF rest
    <3>9. PhaseRight(new)
      BY <1>1, <3>3, <3>8 DEF PhaseRight
    <3>10. new.pc \in Reading
      BY <3>3 DEF Reading
    <3>11. QueryRight(new)
      BY <1>1, <3>3, <3>6, <3>7, <3>9, <3>10, StepOfQuery
    <3> QED
      BY <3>1, <3>11, QueryMoves
  <2> QED
    BY <2>5, <2>6
<1> QED
  BY <1>5, <1>6

LEMMA ReadFactsKeeps ==
    ASSUME QueryInv, ReadFacts
    PROVE  QueryInv'
<1> DEFINE p == query.payload
           a == query.artifact
           found == GraphFacts(p)
           wanted(g) == IF query.kind = "graph" THEN g.symbols
                        ELSE {s \in g.symbols : [subtype |-> s.id, supertype |-> query.asked]
                                                    \in g.hierarchy}
           read(g) == [query EXCEPT !.answers = query.answers \cup wanted(DecodedGraph(g))]
<1>1. QueryRight(query) /\ query.pc = "facts" /\ query.pc \in Reading
      /\ query.kind \in {"implementations", "graph"}
  BY DEF QueryInv, QueryRight, PhaseRight, ReadFacts, Reading
<1>2. PICK ss : /\ SectionsGood(ss, Graph[a]) /\ Faithful(p, ss) /\ a \in Artifacts
                /\ query.damaged \/ Whole(p, ss)
  BY <1>1, ReadingOf
<1>3. CASE found = {} /\ FailQuery
  <2>1. query.damaged
    BY <1>2, <1>3, WholeHasSections
  <2> QED
    BY <1>3, <2>1, FailQueryKeeps
<1>4. CASE \E g \in found : Continue(NextArtifact(read(g)))
  <2>1. PICK g \in found : Continue(NextArtifact(read(g)))
    BY <1>4
  <2> DEFINE new == read(g)
             decoded == DecodedGraph(g)
             due == wanted(decoded)
             asked == query.asked
  <2>2. decoded.symbols = DeclaredIn(Graph[a]) /\ decoded.hierarchy = ToSet(Edges(Graph[a]))
    BY <1>2, FactsReadAreRight
  <2> HIDE DEF decoded
  <2>3. Due(query) = Wanted(a, query.kind, asked)
    BY <1>1 DEF Due
  <2>4. due = Wanted(a, query.kind, asked)
    <3>1. CASE query.kind = "graph"
      BY <2>2, <3>1 DEF Wanted
    <3>2. CASE query.kind = "implementations"
      BY <2>2, <3>2 DEF Wanted
    <3> QED
      BY <1>1, <3>1, <3>2
  <2>5. new = [query EXCEPT !.answers = query.answers \cup due]
    BY DEF decoded
  <2> HIDE DEF due, new
  <2>6. DOMAIN query = QueryFields
    BY <1>1 DEF QueryRight
  <2>7. /\ DOMAIN new = QueryFields /\ new.kind = query.kind
        /\ new.asked = query.asked /\ new.pending = query.pending /\ new.opened = query.opened
        /\ new.damaged = query.damaged /\ new.answers = query.answers \cup due
    BY <2>5, <2>6 DEF QueryFields
  <2>8. ShownAll(new.answers, query.kind) = ShownAll(query.answers \cup Due(query), query.kind)
    BY <2>3, <2>4, <2>7
  <2>9. QueryRight(NextArtifact(new))
    BY <1>1, <2>7, <2>8, NextIsRight
  <2> QED
    BY <2>1, <2>9, QueryMoves DEF new
<1> QED
  BY <1>3, <1>4 DEF ReadFacts

-----------------------------------------------------------------------------
(* The other steps keep it too.                                             *)

LEMMA CacheKeeps ==
    ASSUME QueryInv, NEW a \in Artifacts, NEW new,
           new.present => BlobRight(new.payload, new.damaged, a),
           cache' = [cache EXCEPT ![a] = new], query' = query,
           DOMAIN writing' = Artifacts, \A b \in Artifacts : WritingRight(writing'[b], b)
    PROVE  QueryInv'
<1>1. DOMAIN cache = Artifacts
      /\ \A b \in Artifacts : cache[b].present => BlobRight(cache[b].payload, cache[b].damaged, b)
  BY DEF QueryInv, BlobsRight
<1>2. DOMAIN cache' = Artifacts /\ \A b \in Artifacts : cache'[b] = IF b = a THEN new ELSE cache[b]
  BY <1>1
<1>3. \A b \in Artifacts : cache'[b].present => BlobRight(cache'[b].payload, cache'[b].damaged, b)
  <2> SUFFICES ASSUME NEW b \in Artifacts, cache'[b].present
               PROVE  BlobRight(cache'[b].payload, cache'[b].damaged, b)
    OBVIOUS
  <2>1. CASE b = a
    BY <1>2, <2>1
  <2>2. CASE b # a
    BY <1>1, <1>2, <2>2
  <2> QED
    BY <2>1, <2>2
<1>4. BlobsRight'
  BY <1>2, <1>3 DEF BlobsRight
<1>5. QueryRight(query')
  BY DEF QueryInv
<1> QED
  BY <1>4, <1>5 DEF QueryInv

LEMMA WritingOf ==
    ASSUME QueryInv
    PROVE  DOMAIN writing = Artifacts /\ \A a \in Artifacts : WritingRight(writing[a], a)
  BY DEF QueryInv, BlobsRight

LEMMA WritingKeeps ==
    ASSUME QueryInv, NEW a \in Artifacts, NEW r, WritingRight(r, a),
           writing' = [writing EXCEPT ![a] = r], cache' = cache, query' = query
    PROVE  QueryInv'
<1>1. DOMAIN writing' = Artifacts
      /\ \A b \in Artifacts : writing'[b] = IF b = a THEN r ELSE writing[b]
  BY WritingOf
<1>2. \A b \in Artifacts : WritingRight(writing'[b], b)
  BY <1>1, WritingOf
<1>3. BlobsRight'
  BY <1>1, <1>2 DEF QueryInv, BlobsRight
<1> QED
  BY <1>3 DEF QueryInv

LEMMA IdleIsRight ==
    ASSUME NEW a
    PROVE  WritingRight(Idle, a)
  BY DEF WritingRight, Idle

LEMMA BeginEncodingKeeps ==
    ASSUME QueryInv, NEW a \in Artifacts, NEW w \in Writers, BeginEncoding(a, w)
    PROVE  QueryInv'
<1> DEFINE ss == Sections(Graph[a], w)
           r == [pc |-> "placing", sections |-> ss, toc |-> << >>]
<1>1. writing' = [writing EXCEPT ![a] = r] /\ cache' = cache /\ query' = query
  BY DEF BeginEncoding
<1> HIDE DEF ss
<1>2. DOMAIN r = {"pc", "sections", "toc"} /\ r.sections = ss
  OBVIOUS
<1> HIDE DEF r
<1>3. WritingRight(r, a)
  BY <1>2 DEF WritingRight, ss
<1> QED
  BY <1>1, <1>3, WritingKeeps

LEMMA PlaceSectionsKeeps ==
    ASSUME QueryInv, NEW a \in Artifacts, PlaceSections(a)
    PROVE  QueryInv'
<1> DEFINE next == Placed(writing[a].sections, writing[a].toc)
           r == [writing[a] EXCEPT !.toc = next]
<1>1. writing' = [writing EXCEPT ![a] = r] /\ cache' = cache /\ query' = query
  BY DEF PlaceSections
<1>2. WritingRight(writing[a], a)
  BY WritingOf
<1> HIDE DEF next
<1>3. DOMAIN r = {"pc", "sections", "toc"} /\ r.pc = writing[a].pc
      /\ r.sections = writing[a].sections
  BY <1>2 DEF WritingRight
<1> HIDE DEF r
<1>4. WritingRight(r, a)
  BY <1>2, <1>3 DEF WritingRight
<1> QED
  BY <1>1, <1>4, WritingKeeps

LEMMA PublishPayloadKeeps ==
    ASSUME QueryInv, NEW a \in Artifacts, PublishPayload(a)
    PROVE  QueryInv'
<1> DEFINE ss == writing[a].sections
           p == Payload(ss, writing[a].toc)
           new == [present |-> TRUE, damaged |-> FALSE, payload |-> p]
<1>1. writing[a].pc = "placing" /\ Placed(ss, writing[a].toc) = writing[a].toc
  BY DEF PublishPayload
<1>2. PICK w \in Writers : ss = Sections(Graph[a], w)
  BY <1>1, WritingOf DEF WritingRight
<1>3. Pristine(p, ss)
  BY <1>1 DEF Pristine
<1>4. SectionsGood(ss, Graph[a])
  <2>1. w \in [ordinalized : BOOLEAN, interned : BOOLEAN, postings : BOOLEAN]
    BY GraphAssumption
  <2>2. IsGraph(Graph[a])
    BY GraphAssumption
  <2> QED
    BY <1>2, <2>1, <2>2, SectionsAreGood
<1>5. cache' = [cache EXCEPT ![a] = new] /\ query' = query
      /\ writing' = [writing EXCEPT ![a] = Idle]
  BY DEF PublishPayload
<1> HIDE DEF p, ss
<1>6. Faithful(p, ss)
  BY <1>3, <1>4, PristineIsWhole
<1>7. BlobRight(p, FALSE, a)
  BY <1>2, <1>3, <1>6 DEF BlobRight
<1>8. new.present => BlobRight(new.payload, new.damaged, a)
  BY <1>7
<1>9. DOMAIN writing' = Artifacts /\ \A b \in Artifacts : WritingRight(writing'[b], b)
  <2>1. DOMAIN writing' = Artifacts
        /\ \A b \in Artifacts : writing'[b] = IF b = a THEN Idle ELSE writing[b]
    BY <1>5, WritingOf
  <2> QED
    BY <2>1, WritingOf, IdleIsRight
<1> HIDE DEF new
<1> QED
  BY <1>5, <1>8, <1>9, CacheKeeps

LEMMA DamagePayloadKeeps ==
    ASSUME QueryInv, NEW a \in Artifacts, DamagePayload(a)
    PROVE  QueryInv'
<1>1. PICK p \in DamagedPayloads(cache[a].payload) :
         cache' = [cache EXCEPT ![a] = [present |-> TRUE, damaged |-> TRUE, payload |-> p]]
  BY DEF DamagePayload
<1> DEFINE old == cache[a].payload
           new == [present |-> TRUE, damaged |-> TRUE, payload |-> p]
<1>2. cache[a].present /\ query' = query /\ writing' = writing
  BY DEF DamagePayload
<1>3. PICK w \in Writers : Faithful(old, Sections(Graph[a], w))
  BY <1>2 DEF QueryInv, BlobsRight, BlobRight
<1> DEFINE ss == Sections(Graph[a], w)
<1>4. Len(ss) \in Nat
  <2>1. w \in [ordinalized : BOOLEAN, interned : BOOLEAN, postings : BOOLEAN]
    BY GraphAssumption
  <2>2. IsGraph(Graph[a])
    BY GraphAssumption
  <2> QED
    BY <2>1, <2>2, SectionsAreGood DEF SectionsGood
<1>5. Faithful(p, ss)
  <2> HIDE DEF ss, old
  <2>1. Faithful(old, ss) /\ p \in DamagedPayloads(old)
    BY <1>1, <1>3 DEF ss, old
  <2> QED
    BY <1>4, <2>1, DamageIsFaithful
<1>6. BlobRight(p, TRUE, a)
  BY <1>5 DEF BlobRight
<1>7. new.present => BlobRight(new.payload, new.damaged, a)
  BY <1>6
<1>8. cache' = [cache EXCEPT ![a] = new]
  BY <1>1
<1>9. DOMAIN writing' = Artifacts /\ \A b \in Artifacts : WritingRight(writing'[b], b)
  BY <1>2, WritingOf
<1> HIDE DEF new
<1> QED
  BY <1>2, <1>7, <1>8, <1>9, CacheKeeps

LEMMA DropBlobKeeps ==
    ASSUME QueryInv, NEW a \in Artifacts, DropBlob(a)
    PROVE  QueryInv'
<1>1. cache' = [cache EXCEPT ![a] = NoBlob] /\ query' = query /\ writing' = writing
  BY DEF DropBlob
<1>2. ~NoBlob.present
  BY DEF NoBlob
<1>3. DOMAIN writing' = Artifacts /\ \A b \in Artifacts : WritingRight(writing'[b], b)
  BY <1>1, WritingOf
<1> QED
  BY <1>1, <1>2, <1>3, CacheKeeps

LEMMA NoQueryIsRight == QueryRight(NoQuery)
<1>1. /\ DOMAIN NoQuery = QueryFields /\ NoQuery.pc = "none" /\ NoQuery.kind = "name"
      /\ NoQuery.pending = {} /\ NoQuery.opened = {}
  BY DEF NoQuery, QueryFields
<1>2. PhaseRight(NoQuery) /\ PayloadRight(NoQuery) /\ AnswersRight(NoQuery)
  BY <1>1 DEF PhaseRight, PayloadRight, AnswersRight, Reading
<1> QED
  BY <1>1, <1>2 DEF QueryRight

LEMMA AskKeeps ==
    ASSUME QueryInv, NEW kind \in {"name", "implementations", "graph"}, NEW asked,
           NEW candidates, candidates \subseteq Artifacts, Ask(kind, asked, candidates)
    PROVE  QueryInv'
<1> DEFINE r == [NoQuery EXCEPT !.pc = "open", !.kind = kind, !.asked = asked,
                                !.pending = candidates]
<1>1. query' = r /\ UNCHANGED <<cache, writing, faults>>
  BY DEF Ask
<1>2. /\ DOMAIN r = QueryFields /\ r.pc = "open" /\ r.kind = kind /\ r.pending = candidates
      /\ r.opened = {} /\ r.answers = {}
  BY DEF NoQuery, QueryFields
<1> HIDE DEF r
<1>3. Due(r) = {} /\ Owed(r) = {}
  BY <1>2 DEF Due, Owed, Reading
<1>4. PhaseRight(r) /\ PayloadRight(r)
  BY <1>2 DEF PhaseRight, PayloadRight, Reading
<1>5. AnswersRight(r)
  BY <1>2, <1>3 DEF AnswersRight
<1>6. QueryRight(r)
  BY <1>2, <1>4, <1>5 DEF QueryRight
<1> QED
  BY <1>1, <1>6 DEF QueryInv, BlobsRight

LEMMA OpenIsRight ==
    ASSUME NEW q, QueryRight(q), q.pc = "open", NEW r, DOMAIN r = QueryFields,
           r.kind = q.kind, r.asked = q.asked, r.pending \subseteq q.pending,
           r.opened = q.opened, r.answers = q.answers, r.pc \in {"open", "answered"}
    PROVE  QueryRight(r)
<1>1. Due(r) = {} /\ Due(q) = {}
  BY DEF Due, Reading
<1>2. Owed(r) = Owed(q)
  BY DEF Owed
<1>3. PhaseRight(r) /\ PayloadRight(r)
  BY DEF PhaseRight, PayloadRight, Reading
<1>4. AnswersRight(r)
  BY <1>1, <1>2 DEF QueryRight, AnswersRight
<1> QED
  BY <1>3, <1>4 DEF QueryRight

LEMMA AnswerKeeps ==
    ASSUME QueryInv, Answer
    PROVE  QueryInv'
<1> DEFINE r == [query EXCEPT !.pc = "answered"]
<1>1. QueryRight(query) /\ query.pc = "open" /\ Continue(r) /\ DOMAIN query = QueryFields
  BY DEF QueryInv, Answer, QueryRight
<1>2. /\ DOMAIN r = QueryFields /\ r.kind = query.kind /\ r.asked = query.asked
      /\ r.pending = query.pending /\ r.opened = query.opened /\ r.answers = query.answers
      /\ r.pc = "answered"
  BY <1>1 DEF QueryFields
<1> HIDE DEF r
<1>3. QueryRight(r)
  BY <1>1, <1>2, OpenIsRight
<1> QED
  BY <1>1, <1>3, QueryMoves

LEMMA FinishKeeps ==
    ASSUME QueryInv, Finish
    PROVE  QueryInv'
  BY NoQueryIsRight, QueryMoves DEF Finish

LEMMA OpenBlobKeeps ==
    ASSUME QueryInv, NEW a \in Artifacts, OpenBlob(a)
    PROVE  QueryInv'
<1> DEFINE q == [query EXCEPT !.pending = @ \ {a}]
           first == CASE q.kind = "name" -> "directory"
                      [] q.kind = "implementations" -> "hierarchy"
                      [] q.kind = "graph" -> "facts"
           reading == [q EXCEPT !.pc = first, !.artifact = a, !.payload = cache[a].payload,
                                !.opened = @ \cup {a}, !.damaged = @ \/ cache[a].damaged]
           failed == [reading EXCEPT !.pc = "failed", !.payload = << >>]
<1>1. QueryRight(query) /\ query.pc = "open" /\ DOMAIN query = QueryFields
  BY DEF QueryInv, OpenBlob, QueryRight
<1>2. /\ DOMAIN q = QueryFields /\ q.pc = "open" /\ q.kind = query.kind /\ q.asked = query.asked
      /\ q.pending \subseteq query.pending /\ q.opened = query.opened
      /\ q.damaged = query.damaged /\ q.answers = query.answers
  BY <1>1 DEF QueryFields
<1>3. CASE ~cache[a].present /\ Continue(q)
  <2> HIDE DEF q
  <2>1. QueryRight(q)
    BY <1>1, <1>2, OpenIsRight
  <2> QED
    BY <1>3, <2>1, QueryMoves
<1>4. ASSUME cache[a].present
      PROVE  /\ BlobRight(cache[a].payload, cache[a].damaged, a)
             /\ ~Opens(cache[a].payload) => cache[a].damaged
  <2>1. BlobRight(cache[a].payload, cache[a].damaged, a)
    BY <1>4 DEF QueryInv, BlobsRight
  <2> QED
    BY <2>1, BlobIsFaithful
<1>5. ASSUME cache[a].present
      PROVE  QueryRight(reading)
  <2> DEFINE opened == query.opened \cup {a}
             damaged == query.damaged \/ cache[a].damaged
             payload == cache[a].payload
             asked == query.asked
             kind == query.kind
  <2>1. kind \in {"name", "implementations", "graph"} /\ query.opened \subseteq Artifacts
        /\ query.pending \subseteq Artifacts /\ AnswersRight(query)
    BY <1>1 DEF QueryRight
  <2>2. /\ first \in {"directory", "hierarchy", "facts"}
        /\ first = "directory" => kind = "name"
        /\ first = "hierarchy" => kind = "implementations"
        /\ first = "facts" => kind # "name"
    <3> HIDE DEF q
    <3> QED
      BY <1>2, <2>1
  <2>3. BlobRight(payload, damaged, a)
    BY <1>4, <1>5 DEF BlobRight
  <2>4. reading = [q EXCEPT !.pc = first, !.artifact = a, !.payload = payload,
                            !.opened = q.opened \cup {a},
                            !.damaged = q.damaged \/ cache[a].damaged]
    OBVIOUS
  <2> HIDE DEF q, first, reading
  <2>5. /\ DOMAIN reading = QueryFields /\ reading.pc = first /\ reading.kind = kind
        /\ reading.asked = asked /\ reading.pending \subseteq query.pending
        /\ reading.opened = opened /\ reading.damaged = damaged /\ reading.artifact = a
        /\ reading.payload = payload /\ reading.answers = query.answers
    BY <1>2, <2>4 DEF QueryFields
  <2> HIDE DEF damaged, payload
  <2>6. reading.pc \in Reading
    BY <2>2, <2>5 DEF Reading
  <2>7. PhaseRight(reading)
    BY <2>2, <2>5 DEF PhaseRight
  <2>8. PayloadRight(reading)
    BY <2>3, <2>5 DEF PayloadRight
  <2>9. AnswersRight(reading)
    <3> DEFINE A == query.answers
               O == Owed(query)
               W == Wanted(a, kind, asked)
    <3>1. Due(reading) = W
      BY <2>2, <2>5, <2>6 DEF Due
    <3>2. Owed(reading) = O \cup W
      BY <2>5 DEF Owed
    <3>3. ShownAll(A, kind) = ShownAll(O, kind)
      <4>1. query.answers \cup Due(query) = query.answers
        BY <1>1 DEF Due, Reading
      <4> QED
        BY <1>1, <2>1, <4>1 DEF AnswersRight
    <3> HIDE DEF A, O, W, kind
    <3>4. ShownAll(A \cup W, kind) = ShownAll(O \cup W, kind)
      <4>1. ShownAll(A \cup W, kind) = ShownAll(A, kind) \cup ShownAll(W, kind)
        BY ShownUnion
      <4>2. ShownAll(O \cup W, kind) = ShownAll(O, kind) \cup ShownAll(W, kind)
        BY ShownUnion
      <4> QED
        BY <3>3, <4>1, <4>2
    <3>5. reading.answers \cup Due(reading) = A \cup W
      BY <2>5, <3>1 DEF A
    <3>6. ShownAll(reading.answers \cup Due(reading), reading.kind)
            = ShownAll(Owed(reading), reading.kind)
      BY <2>5, <3>2, <3>4, <3>5 DEF kind
    <3> QED
      BY <3>6 DEF AnswersRight
  <2>10. reading.pc # "failed"
    BY <2>2, <2>5
  <2> QED
    BY <2>1, <2>5, <2>7, <2>8, <2>9, <2>10 DEF QueryRight
<1>6. CASE cache[a].present /\ Opens(cache[a].payload) /\ Continue(reading)
  <2>1. QueryRight(reading)
    BY <1>5, <1>6
  <2> HIDE DEF reading
  <2> QED
    BY <1>6, <2>1, QueryMoves
<1>7. CASE cache[a].present /\ ~Opens(cache[a].payload) /\ Continue(failed)
  <2>1. QueryRight(reading)
    BY <1>5, <1>7
  <2>2. reading.damaged
    <3>1. reading.damaged = (q.damaged \/ cache[a].damaged)
      <4> HIDE DEF q, first
      <4> QED
        BY <1>2 DEF QueryFields
    <3> QED
      BY <1>4, <1>7, <3>1
  <2> HIDE DEF reading
  <2>3. QueryRight(failed)
    BY <2>1, <2>2, FailedIsRight
  <2> HIDE DEF failed
  <2> QED
    BY <1>7, <2>3, QueryMoves
<1>8. CASE cache[a].present
            /\ IF Opens(cache[a].payload) THEN Continue(reading) ELSE Continue(failed)
  <2> HIDE DEF q, first, reading, failed
  <2> QED
    BY <1>6, <1>7, <1>8
<1> QED
  BY <1>3, <1>8 DEF OpenBlob

LEMMA QueryInvStarts == DQInit => QueryInv
<1> SUFFICES ASSUME DQInit PROVE QueryInv
  OBVIOUS
<1>1. QueryRight(query)
  BY NoQueryIsRight DEF DQInit
<1>2. DOMAIN writing = Artifacts /\ \A a \in Artifacts : WritingRight(writing[a], a)
  BY IdleIsRight DEF DQInit
<1>3. DOMAIN cache = Artifacts /\ \A a \in Artifacts : ~cache[a].present
  BY DEF DQInit, NoBlob
<1> QED
  BY <1>1, <1>2, <1>3 DEF QueryInv, BlobsRight

LEMMA QueryInvStays ==
    ASSUME QueryInv, [DQNext]_dqvars
    PROVE  QueryInv'
<1>1. CASE UNCHANGED dqvars
  BY <1>1 DEF QueryInv, BlobsRight, dqvars
<1>2. ASSUME NEW a \in Artifacts, NEW w \in Writers, BeginEncoding(a, w) PROVE QueryInv'
  BY <1>2, BeginEncodingKeeps
<1>3. ASSUME NEW a \in Artifacts, PlaceSections(a) PROVE QueryInv'
  BY <1>3, PlaceSectionsKeeps
<1>4. ASSUME NEW a \in Artifacts, PublishPayload(a) PROVE QueryInv'
  BY <1>4, PublishPayloadKeeps
<1>5. ASSUME NEW a \in Artifacts, DamagePayload(a) PROVE QueryInv'
  BY <1>5, DamagePayloadKeeps
<1>6. ASSUME NEW a \in Artifacts, DropBlob(a) PROVE QueryInv'
  BY <1>6, DropBlobKeeps
<1>7. ASSUME NEW a \in Artifacts, AskGraph(a) PROVE QueryInv'
  <2>1. Ask("graph", "", {a}) /\ {a} \subseteq Artifacts
    BY <1>7 DEF AskGraph
  <2> QED
    BY <2>1, AskKeeps
<1>8. ASSUME NEW a \in Artifacts, OpenBlob(a) PROVE QueryInv'
  BY <1>8, OpenBlobKeeps
<1>9. ASSUME NEW name \in Names, AskName(name) PROVE QueryInv'
  <2>1. Ask("name", name, CandidatesWithQualifiedName(name))
        /\ CandidatesWithQualifiedName(name) \subseteq Artifacts
    BY <1>9 DEF AskName, CandidatesWithQualifiedName
  <2> QED
    BY <2>1, AskKeeps
<1>10. ASSUME NEW id \in Supertypes, AskImplementations(id) PROVE QueryInv'
  <2>1. Ask("implementations", id, CandidatesWithSymbol(id))
        /\ CandidatesWithSymbol(id) \subseteq Artifacts
    BY <1>10 DEF AskImplementations, CandidatesWithSymbol
  <2> QED
    BY <2>1, AskKeeps
<1>11. CASE Answer
  BY <1>11, AnswerKeeps
<1>12. CASE ReadDirectory
  BY <1>12, ReadDirectoryKeeps
<1>13. CASE ReadHierarchy
  BY <1>13, ReadHierarchyKeeps
<1>14. CASE ReadDictionary
  BY <1>14, ReadDictionaryKeeps
<1>15. CASE ReadDetails
  BY <1>15, ReadDetailsKeeps
<1>16. CASE ReadFacts
  BY <1>16, ReadFactsKeeps
<1>17. CASE Finish
  BY <1>17, FinishKeeps
<1> QED
  BY <1>1, <1>2, <1>3, <1>4, <1>5, <1>6, <1>7, <1>8, <1>9, <1>10, <1>11, <1>12, <1>13, <1>14,
     <1>15, <1>16, <1>17 DEF DQNext

LEMMA QueryInvExact == QueryInv => AnswersAreExact
<1> SUFFICES ASSUME QueryInv PROVE AnswersAreExact
  OBVIOUS
<1> DEFINE owed == UNION {Expected(a) : a \in query.opened}
<1>1. QueryRight(query)
  BY DEF QueryInv
<1>2. owed = Owed(query)
  BY ShownAndWanted DEF Owed
<1>3. \A D : {Comparable(d) : d \in D} = ShownAll(D, query.kind)
  BY ShownAndWanted DEF ShownAll
<1>4. ASSUME query.pc = "answered"
      PROVE  {Comparable(d) : d \in query.answers} = {Comparable(d) : d \in owed}
  <2>1. query.answers \cup Due(query) = query.answers
    BY <1>4 DEF Due, Reading
  <2>2. ShownAll(query.answers, query.kind) = ShownAll(Owed(query), query.kind)
    BY <1>1, <1>4, <2>1 DEF QueryRight, AnswersRight
  <2> HIDE DEF owed
  <2> QED
    BY <1>2, <1>3, <2>2
<1>5. query.pc = "failed" => query.damaged
  BY <1>1 DEF QueryRight
<1> HIDE DEF owed
<1> QED
  BY <1>4, <1>5 DEF AnswersAreExact, owed

(* A query over the dependency artifacts that ends without an error has     *)
(* found exactly what the graphs of the artifacts it opened declare, of     *)
(* whichever kind it is, whichever way each payload was encoded and         *)
(* whatever part of it was damaged since; and it fails only where a payload *)
(* was damaged (artifact_query.rs over artifact_blob_layout.rs and          *)
(* artifact_proto_adapter.rs).                                              *)
THEOREM AnswersAreExactHolds == DQSpec => []AnswersAreExact
<1>1. DQInit => QueryInv
  BY QueryInvStarts
<1>2. QueryInv /\ [DQNext]_dqvars => QueryInv'
  BY QueryInvStays
<1>3. QueryInv => AnswersAreExact
  BY QueryInvExact
<1> QED
  BY <1>1, <1>2, <1>3, PTL DEF DQSpec

-----------------------------------------------------------------------------
(* The loop that places the sections.                                       *)

LEMMA VarintGrows ==
    ASSUME NEW m \in Nat, NEW n \in Nat, m <= n
    PROVE  VarintBytes(m) <= VarintBytes(n) /\ VarintBytes(m) \in 1 .. 3
<1> DEFINE two == VarintBase * VarintBase
<1>1. VarintBase \in Nat /\ two \in Nat
  BY LayoutAssumption
<1>2. \A k : VarintBytes(k) = IF k < VarintBase THEN 1 ELSE IF k < two THEN 2 ELSE 3
  BY DEF VarintBytes
<1> HIDE DEF two
<1> QED
  BY <1>1, <1>2

LEMMA SumsCompare ==
    ASSUME NEW n \in Nat, NEW f \in [1 .. n -> Nat], NEW h \in [1 .. n -> Nat], NEW b \in Nat,
           \A i \in 1 .. n : f[i] <= h[i] /\ f[i] <= b
    PROVE  SumOf(f) <= SumOf(h) /\ SumOf(f) <= b * n /\ SumOf(f) \in Nat /\ SumOf(h) \in Nat
<1>1. PICK g \in [0 .. n -> Nat] : Sums(g, n, f)
  BY SumsExists
<1>2. PICK k \in [0 .. n -> Nat] : Sums(k, n, h)
  BY SumsExists
<1>3. SumOf(f) = g[n] /\ SumOf(h) = k[n]
  BY <1>1, <1>2, SumOfIs
<1>4. g[0] = 0 /\ \A i \in 1 .. n : g[i] = g[i - 1] + f[i]
  BY <1>1, SumsRounds
<1>5. k[0] = 0 /\ \A i \in 1 .. n : k[i] = k[i - 1] + h[i]
  BY <1>2, SumsRounds
<1> DEFINE T == {m \in Nat : m \in 0 .. n => g[m] <= k[m] /\ g[m] <= b * m}
<1>6. 0 \in T
  BY <1>4, <1>5
<1>7. ASSUME NEW m \in Nat, m \in T PROVE m + 1 \in T
  <2> SUFFICES ASSUME m + 1 \in 0 .. n PROVE g[m + 1] <= k[m + 1] /\ g[m + 1] <= b * (m + 1)
    OBVIOUS
  <2>1. m + 1 \in 1 .. n /\ (m + 1) - 1 = m /\ m \in 0 .. n
    OBVIOUS
  <2>2. g[m] <= k[m] /\ g[m] <= b * m
    BY <1>7, <2>1
  <2>3. g[m + 1] = g[m] + f[m + 1] /\ k[m + 1] = k[m] + h[m + 1]
    BY <1>4, <1>5, <2>1
  <2>4. f[m + 1] <= h[m + 1] /\ f[m + 1] <= b
    BY <2>1
  <2> DEFINE x == g[m]
             y == k[m]
             u == f[m + 1]
             v == h[m + 1]
             z == b * m
  <2>5. x \in Nat /\ y \in Nat /\ u \in Nat /\ v \in Nat
    BY <2>1
  <2>6. z \in Nat /\ b * (m + 1) = z + b
    BY Products
  <2> HIDE DEF x, y, u, v, z
  <2>7. x <= y /\ x <= z /\ u <= v /\ u <= b
    BY <2>2, <2>4 DEF x, y, u, v, z
  <2>8. x + u <= y + v /\ x + u <= z + b
    BY <2>5, <2>6, <2>7
  <2> QED
    BY <2>3, <2>6, <2>8 DEF x, y, u, v
<1>8. \A m \in Nat : m \in T
  <2> HIDE DEF T
  <2> QED
    BY <1>6, <1>7, Induction
<1>9. g[n] <= k[n] /\ g[n] <= b * n
  BY <1>8
<1> QED
  BY <1>3, <1>9

LEMMA EmptyToc == TocLength(<< >>) = 0
<1> DEFINE lengths == [i \in DOMAIN << >> |-> VarintBytes(<< >>[i].offset)
                                               + VarintBytes(<< >>[i].length)]
           g == [i \in 0 .. 0 |-> 0]
<1>1. lengths \in [1 .. 0 -> Nat] /\ g \in [0 .. 0 -> Nat] /\ g[0] = 0
  OBVIOUS
<1>2. g = [i \in 0 .. 0 |-> IF i = 0 THEN 0 ELSE g[i - 1] + lengths[i]]
  OBVIOUS
<1>3. TocLength(<< >>) = SumOf(lengths)
  BY DEF TocLength
<1> HIDE DEF lengths, g
<1>4. Sums(g, 0, lengths)
  BY <1>2 DEF Sums
<1> QED
  BY <1>1, <1>3, <1>4, SumOfIs

\* A longer TOC makes the next one no shorter, one of the same length makes the
\* same, and no TOC of these sections is longer than six bytes for each.
LEMMA NextToc ==
    ASSUME NEW graph, NEW ss, SectionsGood(ss, graph),
           NEW s, NEW t, TocLength(s) \in Nat, TocLength(t) \in Nat, TocLength(s) <= TocLength(t)
    PROVE  /\ TocLength(Placed(ss, s)) \in Nat
           /\ TocLength(Placed(ss, s)) <= 6 * Len(ss)
           /\ TocLength(Placed(ss, s)) <= TocLength(Placed(ss, t))
           /\ TocLength(s) = TocLength(t) => Placed(ss, s) = Placed(ss, t)
<1> DEFINE n == Len(ss)
           lengths == [j \in 1 .. n |-> ss[j].length]
           before(i) == SumOf([j \in 1 .. (i - 1) |-> ss[j].length])
           at(toc, i) == HeaderSize + TocLength(toc) + before(i)
           bytes(toc) == [i \in 1 .. n |-> VarintBytes(at(toc, i)) + VarintBytes(ss[i].length)]
<1>1. n \in Nat /\ DOMAIN ss = 1 .. n /\ \A i \in 1 .. n : ss[i].length \in Nat
  BY DEF SectionsGood, SectionGood
<1>2. lengths \in [1 .. n -> Nat]
  BY <1>1
<1>3. \A i \in 1 .. n : before(i) \in Nat
  <2> SUFFICES ASSUME NEW i \in 1 .. n PROVE before(i) \in Nat
    OBVIOUS
  <2>1. [j \in 1 .. (i - 1) |-> lengths[j]] = [j \in 1 .. (i - 1) |-> ss[j].length]
    BY <1>1
  <2> HIDE DEF lengths
  <2>2. SumOf([j \in 1 .. (i - 1) |-> lengths[j]]) \in Nat
    BY <1>1, <1>2, SumOfParts
  <2> QED
    BY <2>1, <2>2
<1> HIDE DEF before, n, lengths
<1>4. ASSUME NEW toc
      PROVE  /\ DOMAIN Placed(ss, toc) = 1 .. n
             /\ \A i \in 1 .. n : /\ Placed(ss, toc)[i].offset = at(toc, i)
                                  /\ Placed(ss, toc)[i].length = ss[i].length
  BY <1>1 DEF Placed, before
<1>5. ASSUME NEW toc
      PROVE  TocLength(Placed(ss, toc)) = SumOf(bytes(toc))
  <2> DEFINE next == Placed(ss, toc)
             given == [i \in DOMAIN next |-> VarintBytes(next[i].offset) + VarintBytes(next[i].length)]
  <2>1. TocLength(next) = SumOf(given)
    BY DEF TocLength
  <2>2. DOMAIN next = 1 .. n /\ \A i \in 1 .. n : next[i].offset = at(toc, i)
                                                  /\ next[i].length = ss[i].length
    BY <1>4
  <2> HIDE DEF next
  <2>3. given = bytes(toc)
    BY <2>2
  <2> HIDE DEF given, at
  <2> QED
    BY <2>1, <2>3 DEF next
<1>6. ASSUME NEW i \in 1 .. n
      PROVE  /\ bytes(s)[i] \in Nat /\ bytes(t)[i] \in Nat
             /\ bytes(s)[i] <= bytes(t)[i] /\ bytes(s)[i] <= 6
  <2> DEFINE x == at(s, i)
             y == at(t, i)
             l == ss[i].length
  <2>1. x \in Nat /\ y \in Nat /\ x <= y /\ l \in Nat /\ y <= y /\ l <= l
    BY <1>1, <1>3, LayoutAssumption
  <2>2. bytes(s)[i] = VarintBytes(x) + VarintBytes(l) /\ bytes(t)[i] = VarintBytes(y) + VarintBytes(l)
    OBVIOUS
  <2> HIDE DEF x, y, l, bytes
  <2>3. /\ VarintBytes(x) <= VarintBytes(y) /\ VarintBytes(x) \in 1 .. 3
        /\ VarintBytes(y) \in 1 .. 3 /\ VarintBytes(l) \in 1 .. 3
    BY <2>1, VarintGrows
  <2> QED
    BY <2>2, <2>3
<1>7. bytes(s) \in [1 .. n -> Nat] /\ bytes(t) \in [1 .. n -> Nat]
  <2> DEFINE f == bytes(s)
             h == bytes(t)
  <2>1. f = [i \in 1 .. n |-> f[i]] /\ h = [i \in 1 .. n |-> h[i]]
    OBVIOUS
  <2>2. \A i \in 1 .. n : f[i] \in Nat /\ h[i] \in Nat
    BY <1>6
  <2> HIDE DEF f, h
  <2>3. f \in [1 .. n -> Nat] /\ h \in [1 .. n -> Nat]
    BY <2>1, <2>2
  <2> QED
    BY <2>3 DEF f, h
<1>8. SumOf(bytes(s)) <= SumOf(bytes(t)) /\ SumOf(bytes(s)) <= 6 * n /\ SumOf(bytes(s)) \in Nat
  <2> HIDE DEF bytes
  <2> QED
    BY <1>1, <1>6, <1>7, SumsCompare
<1>9. TocLength(s) = TocLength(t) => Placed(ss, s) = Placed(ss, t)
  BY DEF Placed
<1> HIDE DEF bytes
<1> QED
  BY <1>5, <1>8, <1>9 DEF n

\* Each TOC is at least as long as the one it was made after.
PlacingInv ==
    \A a \in Artifacts : writing[a].pc = "placing" =>
        LET toc == writing[a].toc
        IN  /\ TocLength(toc) \in Nat
            /\ TocLength(toc) <= TocLength(Placed(writing[a].sections, toc))

(* A round makes the TOC longer or is the last but one, the one that the    *)
(* next finds unchanged; and the TOC has a longest length.                  *)
TocSettles(a) ==
    LET sections == writing[a].sections
        next == writing'[a].toc
    IN  writing[a].pc = "placing" /\ writing'[a].pc = "placing" /\ next # writing[a].toc =>
            /\ TocLength(next) <= 6 * Len(sections)
            /\ TocLength(writing[a].toc) < TocLength(next) \/ Placed(sections, next) = next

LEMMA WritingSteps ==
    ASSUME QueryInv, [DQNext]_dqvars, NEW a \in Artifacts
    PROVE  \/ writing'[a] = writing[a]
           \/ writing'[a] = Idle
           \/ \E w \in Writers :
                /\ writing[a].pc = "idle"
                /\ writing'[a] = [pc |-> "placing", sections |-> Sections(Graph[a], w),
                                  toc |-> << >>]
           \/ /\ writing[a].pc = "placing"
              /\ writing'[a].pc = "placing" /\ writing'[a].sections = writing[a].sections
              /\ writing'[a].toc = Placed(writing[a].sections, writing[a].toc)
<1>1. DOMAIN writing = Artifacts /\ \A b \in Artifacts : WritingRight(writing[b], b)
  BY WritingOf
<1>2. CASE writing' = writing
  BY <1>2
<1>3. ASSUME NEW b \in Artifacts, NEW r, writing' = [writing EXCEPT ![b] = r]
      PROVE  writing'[a] = IF a = b THEN r ELSE writing[a]
  BY <1>1, <1>3
<1>4. ASSUME NEW b \in Artifacts, NEW w \in Writers, BeginEncoding(b, w)
      PROVE  \/ writing'[a] = writing[a]
             \/ /\ writing[a].pc = "idle"
                /\ writing'[a] = [pc |-> "placing", sections |-> Sections(Graph[a], w),
                                  toc |-> << >>]
  <2> DEFINE r == [pc |-> "placing", sections |-> Sections(Graph[b], w), toc |-> << >>]
  <2>1. writing' = [writing EXCEPT ![b] = r] /\ writing[a].pc = "idle"
    BY <1>4 DEF BeginEncoding, NobodyEncodes
  <2>2. writing'[a] = IF a = b THEN r ELSE writing[a]
    <3> HIDE DEF r
    <3> QED
      BY <1>3, <2>1
  <2> QED
    BY <2>1, <2>2
<1>5. ASSUME NEW b \in Artifacts, PlaceSections(b)
      PROVE  \/ writing'[a] = writing[a]
             \/ /\ writing[a].pc = "placing"
                /\ writing'[a].pc = "placing" /\ writing'[a].sections = writing[a].sections
                /\ writing'[a].toc = Placed(writing[a].sections, writing[a].toc)
  <2> DEFINE next == Placed(writing[b].sections, writing[b].toc)
             r == [writing[b] EXCEPT !.toc = next]
  <2>1. writing' = [writing EXCEPT ![b] = r] /\ writing[b].pc = "placing"
    BY <1>5 DEF PlaceSections
  <2>2. DOMAIN writing[b] = {"pc", "sections", "toc"}
    BY <1>1 DEF WritingRight
  <2> HIDE DEF next
  <2>3. r.pc = writing[b].pc /\ r.sections = writing[b].sections /\ r.toc = next
    BY <2>2
  <2> HIDE DEF r
  <2>4. writing'[a] = IF a = b THEN r ELSE writing[a]
    BY <1>3, <2>1
  <2> QED
    BY <2>1, <2>3, <2>4 DEF next
<1>6. ASSUME NEW b \in Artifacts, PublishPayload(b)
      PROVE  writing'[a] = writing[a] \/ writing'[a] = Idle
  <2>1. writing' = [writing EXCEPT ![b] = Idle]
    BY <1>6 DEF PublishPayload
  <2> QED
    BY <1>3, <2>1
<1>7. \A q : Continue(q) => writing' = writing
  BY DEF Continue
<1>8. FailQuery => writing' = writing
  BY <1>7 DEF FailQuery
<1>9. Answer \/ Finish => writing' = writing
  BY <1>7 DEF Answer, Finish
<1>10. ReadDirectory => writing' = writing
  BY <1>7, <1>8 DEF ReadDirectory
<1>11. ReadHierarchy => writing' = writing
  BY <1>7, <1>8 DEF ReadHierarchy
<1>12. ReadDictionary => writing' = writing
  BY <1>7, <1>8 DEF ReadDictionary
<1>13. ReadDetails => writing' = writing
  BY <1>7, <1>8 DEF ReadDetails
<1>14. ReadFacts => writing' = writing
  BY <1>7, <1>8 DEF ReadFacts
<1>15. \A b \in Artifacts : OpenBlob(b) => writing' = writing
  <2> SUFFICES ASSUME NEW b \in Artifacts, OpenBlob(b) PROVE writing' = writing
    OBVIOUS
  <2>1. PICK q : Continue(q)
    BY DEF OpenBlob
  <2> QED
    BY <1>7, <2>1
<1>16. \A b \in Artifacts : DamagePayload(b) \/ DropBlob(b) => writing' = writing
  BY DEF DamagePayload, DropBlob
<1>17. \A kind, asked, candidates : Ask(kind, asked, candidates) => writing' = writing
  BY DEF Ask
<1>18. ASSUME DQNext
       PROVE  \/ writing' = writing
              \/ \E b \in Artifacts : \/ \E w \in Writers : BeginEncoding(b, w)
                                      \/ PlaceSections(b) \/ PublishPayload(b)
  BY <1>9, <1>10, <1>11, <1>12, <1>13, <1>14, <1>15, <1>16, <1>17, <1>18
     DEF DQNext, AskGraph, AskName, AskImplementations
<1> QED
  BY <1>2, <1>4, <1>5, <1>6, <1>18 DEF dqvars

LEMMA PlacingSections ==
    ASSUME QueryInv, NEW a \in Artifacts, writing[a].pc = "placing"
    PROVE  SectionsGood(writing[a].sections, Graph[a])
<1>1. PICK w \in Writers : writing[a].sections = Sections(Graph[a], w)
  BY WritingOf DEF WritingRight
<1>2. w \in [ordinalized : BOOLEAN, interned : BOOLEAN, postings : BOOLEAN]
  BY GraphAssumption
<1>3. IsGraph(Graph[a])
  BY GraphAssumption
<1> QED
  BY <1>1, <1>2, <1>3, SectionsAreGood

LEMMA PlacingInvStays ==
    ASSUME QueryInv, PlacingInv, [DQNext]_dqvars
    PROVE  PlacingInv' /\ \A a \in Artifacts : TocSettles(a)
<1> SUFFICES ASSUME NEW a \in Artifacts
             PROVE  /\ writing'[a].pc = "placing" =>
                        /\ TocLength(writing'[a].toc) \in Nat
                        /\ TocLength(writing'[a].toc)
                             <= TocLength(Placed(writing'[a].sections, writing'[a].toc))
                    /\ TocSettles(a)
  BY DEF PlacingInv
<1> DEFINE toc == writing[a].toc
           sections == writing[a].sections
<1>1. ASSUME writing[a].pc = "placing"
      PROVE  /\ SectionsGood(sections, Graph[a]) /\ TocLength(toc) \in Nat
             /\ TocLength(toc) <= TocLength(Placed(sections, toc))
  BY <1>1, PlacingSections DEF PlacingInv
<1>2. CASE writing'[a] = writing[a]
  BY <1>1, <1>2 DEF TocSettles
<1>3. CASE writing'[a] = Idle
  BY <1>3 DEF TocSettles, Idle
<1>4. CASE \E w \in Writers :
             /\ writing[a].pc = "idle"
             /\ writing'[a] = [pc |-> "placing", sections |-> Sections(Graph[a], w), toc |-> << >>]
  <2>1. PICK w \in Writers :
             /\ writing[a].pc = "idle"
             /\ writing'[a] = [pc |-> "placing", sections |-> Sections(Graph[a], w), toc |-> << >>]
    BY <1>4
  <2> DEFINE ss == Sections(Graph[a], w)
             empty == << >>
  <2>2. SectionsGood(ss, Graph[a])
    <3>1. w \in [ordinalized : BOOLEAN, interned : BOOLEAN, postings : BOOLEAN]
      BY GraphAssumption
    <3>2. IsGraph(Graph[a])
      BY GraphAssumption
    <3> QED
      BY <3>1, <3>2, SectionsAreGood
  <2>3. TocLength(empty) = 0
    BY EmptyToc
  <2> HIDE DEF ss, empty
  <2>4. TocLength(Placed(ss, empty)) \in Nat
    BY <2>2, <2>3, NextToc
  <2>5. writing'[a].sections = ss /\ writing'[a].toc = empty /\ writing[a].pc # "placing"
    BY <2>1 DEF ss, empty
  <2> QED
    BY <2>3, <2>4, <2>5 DEF TocSettles
<1>5. CASE /\ writing[a].pc = "placing"
           /\ writing'[a].pc = "placing" /\ writing'[a].sections = sections
           /\ writing'[a].toc = Placed(sections, toc)
  <2> DEFINE next == Placed(sections, toc)
  <2>1. /\ SectionsGood(sections, Graph[a]) /\ TocLength(toc) \in Nat
        /\ TocLength(toc) <= TocLength(next)
    BY <1>1, <1>5
  <2> HIDE DEF toc, sections
  <2>2. TocLength(next) \in Nat /\ TocLength(next) <= 6 * Len(sections)
    BY <2>1, NextToc
  <2> HIDE DEF next
  <2>3. /\ TocLength(Placed(sections, toc)) <= TocLength(Placed(sections, next))
        /\ TocLength(toc) = TocLength(next) => Placed(sections, toc) = Placed(sections, next)
    BY <2>1, <2>2, NextToc
  <2>4. TocLength(toc) < TocLength(next) \/ TocLength(toc) = TocLength(next)
    BY <2>1, <2>2
  <2>5. next = Placed(sections, toc)
    BY DEF next
  <2>6. TocSettles(a)
    BY <1>5, <2>2, <2>3, <2>4, <2>5 DEF TocSettles, sections, toc
  <2>7. TocLength(next) <= TocLength(Placed(sections, next))
    BY <2>3, <2>5
  <2> QED
    BY <1>5, <2>2, <2>5, <2>6, <2>7
<1> QED
  BY <1>2, <1>3, <1>4, <1>5, WritingSteps

(* The loop that places the sections ends, whatever they are: each of its   *)
(* rounds makes the TOC longer or is the last but one, and no TOC of these  *)
(* sections is longer than six bytes for each (the loop of                  *)
(* ArtifactBlobLayout::encode, which has no bound of its own).              *)
THEOREM PlacementSettles == DQSpec => [][\A a \in Artifacts : TocSettles(a)]_dqvars
<1>1. DQInit => QueryInv /\ PlacingInv
  <2>1. DQInit => PlacingInv
    BY DEF DQInit, PlacingInv, Idle
  <2> QED
    BY <2>1, QueryInvStarts
<1>2. QueryInv /\ PlacingInv /\ [DQNext]_dqvars =>
        QueryInv' /\ PlacingInv' /\ [\A a \in Artifacts : TocSettles(a)]_dqvars
  BY QueryInvStays, PlacingInvStays
<1> QED
  BY <1>1, <1>2, PTL DEF DQSpec
=============================================================================
